SPECIFICATION Spec
CONSTANTS
  root = root
  page = page
  Clients = {c1, c2}
  NoClient = NoClient
  Names <- MCNames
  Root = root
  NoName = NoName
  Deleted = Deleted
  Free = Free
  Absent = Absent
  MaxParts = 2
  FdCount = 2
  NoFd = NoFd
PROPERTIES DeletesWhatItNames
