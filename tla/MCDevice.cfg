SPECIFICATION Spec
CONSTANTS
  short = short
  long = long
  PinsCount = 3
  Flash = 1
  Serial = {2}
  Gpio16 = 3
  Modes <- MCModes
  DefaultModes <- MCDefault
  DefaultText = short
  Texts <- MCTexts
  Kept <- MCKept
  Room <- MCRoom
  NoText = NoText
  NoModes = NoModes
  Unreadable = Unreadable
  Torn = Torn
  Nothing = Nothing
INVARIANTS TypeOK 
PROPERTIES FlashOutputOnRequest RestrictedLeftAlone RestartRestores
