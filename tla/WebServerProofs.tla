--------------------------- MODULE WebServerProofs --------------------------
(***************************************************************************)
(* Proofs about WebServer: types, the descriptors of uploads, and what an  *)
(* answered upload leaves in its file. The invariant has two parts, the    *)
(* connections and the disk; no step but the ends of an upload needs both. *)
(***************************************************************************)
EXTENDS WebServer, SequenceTheorems, TLAPS

\* Nobody is in the queue twice.
InQueueOnce == \A i, j \in DOMAIN queue : queue[i] = queue[j] => i = j

NetInv ==
  /\ here \subseteq Clients /\ sent \subseteq Clients
  /\ queue \in Seq(Clients)
  /\ current \in Clients \cup {NoClient}
  /\ current \notin Waiting
  /\ InQueueOnce
  /\ status \in Statuses
  /\ (status = "none") = (current = NoClient)
  /\ handler \in Handlers \cup {"none"}

ArgsType == args \in Names \cup {NoName}

DiskType ==
  /\ files \in [Names -> 0..MaxParts \cup {Absent}]
  /\ fds \in [Fds -> Names \cup {Free}]
  /\ fsUploadFile \in Fds \cup {NoFd}
  /\ upload \in Uploads
  /\ cut \in Names \cup {NoName, Deleted}

Uploading == status = "file"

\* Only the global File has a descriptor open between two requests.
OnlyUploadOpen == \A d \in Fds : fds[d] # Free => d = fsUploadFile

\* A File left by a cut-off upload is open on that file until it is deleted.
CutStaysOpen ==
  ~Uploading /\ fsUploadFile # NoFd /\ cut # Deleted =>
    cut \in Names /\ fds[fsUploadFile] = cut

\* An upload is open on its file, unless it took over a stale File, and has
\* written all it was sent, unless a write failed.
UploadOpen ==
  Uploading =>
    /\ upload.name \in Names /\ upload.sent \in 0..(MaxParts - 1)
    /\ fsUploadFile # NoFd => fds[fsUploadFile] \in {upload.name, Free}
    /\ fsUploadFile # NoFd /\ ~upload.doomed => fds[fsUploadFile] = upload.name
    /\ ~upload.short => fsUploadFile # NoFd
    /\ ~upload.short /\ ~upload.doomed => files[upload.name] = upload.sent
    /\ upload.doomed => /\ fsUploadFile # NoFd /\ fds[fsUploadFile] = Free
                        /\ files[upload.name] = 0

DiskInv == DiskType /\ OnlyUploadOpen /\ CutStaysOpen /\ UploadOpen

IInv == NetInv /\ ArgsType /\ DiskInv
-----------------------------------------------------------------------------
(***************************************************************************)
(* The connections.                                                        *)
(***************************************************************************)
\* Who is dropped leaves no trace (_currentClient = WiFiClient()).
LEMMA DropNet == ASSUME NetInv, Drop PROVE NetInv'
<1>1. NoClient \notin Waiting
      BY ClientsAssumption DEF NetInv, Waiting
<1>2. Waiting' = Waiting /\ InQueueOnce'
      BY DEF Drop, NetInv, Waiting, InQueueOnce
<1> QED BY <1>1, <1>2 DEF Drop, NetInv, Statuses

\* After an answer the server waits for the client to close.
LEMMA AnsweredNet == ASSUME NetInv, status # "none", Answered PROVE NetInv'
<1>1. CASE current \in here
  <2>1. /\ status' = "wait_close" /\ handler' = "none" /\ sent' = sent \ {current}
        /\ here' = here /\ queue' = queue /\ current' = current
        BY <1>1 DEF Answered
  <2>2. Waiting' = Waiting /\ InQueueOnce'
        BY <2>1 DEF NetInv, Waiting, InQueueOnce
  <2>3. status' # "none" /\ current' # NoClient /\ status' \in Statuses
        BY <2>1 DEF NetInv, Statuses
  <2> QED BY <2>1, <2>2, <2>3 DEF NetInv
<1>2. CASE current \notin here
      BY <1>2, DropNet DEF Answered
<1> QED BY <1>1, <1>2

\* The parser takes what has come and waits at another point.
LEMMA WaitElsewhere ==
  ASSUME NetInv, status # "none",
         status' \in Statuses \ {"none"}, handler' \in Handlers \cup {"none"},
         sent' \subseteq sent, UNCHANGED <<here, queue, current>>
  PROVE  NetInv'
<1>1. Waiting' = Waiting /\ InQueueOnce'
      BY DEF NetInv, Waiting, InQueueOnce
<1>2. current' # NoClient
      BY DEF NetInv
<1> QED BY <1>1, <1>2 DEF NetInv

\* A new connection goes to the end (WiFiServer::_accept).
LEMMA ConnectNet == ASSUME NetInv, NEW c \in Clients, Connect(c) PROVE NetInv'
<1>1. /\ queue' = Append(queue, c) /\ current' = current /\ status' = status
      /\ handler' = handler /\ here' = here \cup {c} /\ sent' = sent \ {c}
      /\ c \notin Waiting /\ c # current
      BY DEF Connect
<1>2. queue' \in Seq(Clients) /\ Len(queue') = Len(queue) + 1
      BY <1>1 DEF NetInv
<1>3. DOMAIN queue = 1..Len(queue) /\ DOMAIN queue' = 1..(Len(queue) + 1)
      BY <1>2 DEF NetInv
<1>4. \A i \in DOMAIN queue' : queue'[i] = IF i = Len(queue) + 1 THEN c ELSE queue[i]
      BY <1>1, <1>3 DEF NetInv
<1>5. Len(queue) \in Nat
      BY DEF NetInv
<1>6. \A i \in DOMAIN queue' : i # Len(queue) + 1 => i \in DOMAIN queue /\ queue[i] # c
  <2>1. SUFFICES ASSUME NEW i \in DOMAIN queue', i # Len(queue) + 1
                 PROVE  i \in DOMAIN queue /\ queue[i] # c
        OBVIOUS
  <2>2. i \in DOMAIN queue
        BY <1>3, <1>5, <2>1
  <2> QED BY <1>1, <2>2 DEF Waiting
<1>7. InQueueOnce'
  <2>1. SUFFICES ASSUME NEW i \in DOMAIN queue', NEW j \in DOMAIN queue',
                        queue'[i] = queue'[j]
                 PROVE  i = j
        BY DEF InQueueOnce
  <2>2. CASE i = Len(queue) + 1 \/ j = Len(queue) + 1
        BY <1>4, <1>6, <2>1, <2>2
  <2>3. CASE i # Len(queue) + 1 /\ j # Len(queue) + 1
        BY <1>4, <1>6, <2>1, <2>3 DEF NetInv, InQueueOnce
  <2> QED BY <2>2, <2>3
<1>8. current' \notin Waiting'
  <2>1. SUFFICES ASSUME NEW i \in DOMAIN queue', queue'[i] = current
                 PROVE  FALSE
        BY <1>1 DEF Waiting
  <2>2. i # Len(queue) + 1
        BY <1>1, <1>4, <2>1
  <2>3. queue[i] = current /\ i \in DOMAIN queue
        BY <1>4, <1>6, <2>1, <2>2
  <2> QED BY <2>3 DEF NetInv, Waiting
<1> QED BY <1>1, <1>2, <1>7, <1>8 DEF NetInv

\* The first in the queue is claimed (WiFiServer::available).
LEMMA TakeNet == ASSUME NetInv, Take PROVE NetInv'
<1>1. /\ queue # <<>> /\ current' = Head(queue) /\ queue' = Tail(queue)
      /\ status' = "wait_read" /\ here' = here /\ sent' = sent /\ handler' = handler
      BY DEF Take, Unclaimed
<1>2. /\ queue' \in Seq(Clients) /\ Len(queue') = Len(queue) - 1
      /\ \A i \in 1..Len(queue') : queue'[i] = queue[i + 1]
      BY <1>1, HeadTailProperties DEF NetInv
<1>3. /\ Len(queue) \in Nat /\ Len(queue) >= 1 /\ DOMAIN queue = 1..Len(queue)
      /\ DOMAIN queue' = 1..Len(queue')
      BY <1>1, <1>2, EmptySeq, LenProperties DEF NetInv
<1>4. current' = queue[1] /\ current' \in Clients
      BY <1>1, <1>3 DEF NetInv
<1>5. \A i \in DOMAIN queue' : i + 1 \in DOMAIN queue /\ queue'[i] = queue[i + 1] /\ i \in Nat \ {0}
  <2>1. SUFFICES ASSUME NEW i \in DOMAIN queue'
                 PROVE  i + 1 \in DOMAIN queue /\ queue'[i] = queue[i + 1] /\ i \in Nat \ {0}
        OBVIOUS
  <2>2. i \in 1..(Len(queue) - 1)
        BY <1>2, <1>3
  <2>3. i + 1 \in 1..Len(queue) /\ i \in Nat \ {0}
        BY <1>3, <2>2
  <2> QED BY <1>2, <1>3, <2>3
<1>6. InQueueOnce'
  <2>1. SUFFICES ASSUME NEW i \in DOMAIN queue', NEW j \in DOMAIN queue',
                        queue'[i] = queue'[j]
                 PROVE  i = j
        BY DEF InQueueOnce
  <2>2. i + 1 = j + 1
        BY <1>5, <2>1 DEF NetInv, InQueueOnce
  <2>3. i \in Nat /\ j \in Nat
        BY <1>5
  <2> QED BY <2>2, <2>3
<1>7. current' \notin Waiting'
  <2>1. SUFFICES ASSUME NEW i \in DOMAIN queue', queue'[i] = current'
                 PROVE  FALSE
        BY DEF Waiting
  <2>2. queue[i + 1] = queue[1] /\ i + 1 \in DOMAIN queue /\ 1 \in DOMAIN queue
        BY <1>3, <1>4, <1>5, <2>1
  <2>3. i + 1 = 1
        BY <2>2 DEF NetInv, InQueueOnce
  <2>4. i \in Nat \ {0}
        BY <1>5
  <2> QED BY <2>3, <2>4
<1>8. current' # NoClient /\ status' # "none" /\ status' \in Statuses
      BY <1>1, <1>4, ClientsAssumption DEF Statuses
<1> QED BY <1>1, <1>2, <1>4, <1>6, <1>7, <1>8 DEF NetInv
-----------------------------------------------------------------------------
(***************************************************************************)
(* The disk.                                                               *)
(***************************************************************************)
\* A step outside of uploads that leaves the disk alone.
LEMMA DiskKept ==
  ASSUME DiskInv, UNCHANGED disk, (Uploading' <=> Uploading)
  PROVE  DiskInv'
<1>1. DiskType' /\ OnlyUploadOpen'
      BY DEF DiskInv, DiskType, OnlyUploadOpen, disk
<1>2. CutStaysOpen'
      BY DEF DiskInv, CutStaysOpen, disk
<1>3. UploadOpen'
      BY DEF DiskInv, UploadOpen, disk
<1> QED BY <1>1, <1>2, <1>3 DEF DiskInv

\* A file that is removed takes its descriptor with it (SPIFFS_remove).
LEMMA RemoveDisk ==
  ASSUME DiskInv, ~Uploading, ~Uploading', NEW n \in Names, Remove(n),
         UNCHANGED <<fsUploadFile, upload>>
  PROVE  DiskInv'
<1>1. /\ files' = [files EXCEPT ![n] = Absent]
      /\ fds' = [d \in Fds |-> IF fds[d] = n THEN Free ELSE fds[d]]
      /\ cut' = IF cut = n THEN Deleted ELSE cut
      /\ fsUploadFile' = fsUploadFile /\ upload' = upload
      BY DEF Remove
<1>2. DiskType'
      BY <1>1 DEF DiskInv, DiskType
<1>3. OnlyUploadOpen'
      BY <1>1 DEF DiskInv, DiskType, OnlyUploadOpen
<1>4. CutStaysOpen'
  <2>1. SUFFICES ASSUME fsUploadFile # NoFd, cut' # Deleted
                 PROVE  cut' \in Names /\ fds'[fsUploadFile] = cut'
        BY <1>1 DEF CutStaysOpen
  <2>2. cut # n /\ cut' = cut
        BY <1>1, <2>1
  <2>3. cut \in Names /\ fds[fsUploadFile] = cut /\ fsUploadFile \in Fds
        BY <2>1, <2>2 DEF DiskInv, DiskType, CutStaysOpen
  <2> QED BY <1>1, <2>2, <2>3
<1>5. UploadOpen'
      BY DEF UploadOpen
<1> QED BY <1>2, <1>3, <1>4, <1>5 DEF DiskInv

\* The handlers of /edit keep what the disk promises.
LEMMA HandleDisk ==
  ASSUME DiskInv, ~Uploading, ~Uploading', NEW h, NEW n \in Names \cup {NoName},
         Handle(h, n)
  PROVE  DiskInv'
<1>1. fsUploadFile' = fsUploadFile /\ upload' = upload
      BY DEF Handle
<1>2. CASE UNCHANGED <<files, fds, cut>>
      BY <1>1, <1>2, DiskKept DEF disk
<1>3. CASE /\ n \notin {NoName, Root}
           /\ files' = [files EXCEPT ![n] = 0] /\ UNCHANGED <<fds, cut>>
  <2>1. 0 \in 0..MaxParts
        BY BoundsAssumption
  <2>2. DiskType' /\ OnlyUploadOpen'
        BY <1>1, <1>3, <2>1 DEF DiskInv, DiskType, OnlyUploadOpen
  <2>3. CutStaysOpen' /\ UploadOpen'
        BY <1>1, <1>3 DEF DiskInv, CutStaysOpen, UploadOpen
  <2> QED BY <2>2, <2>3 DEF DiskInv
<1>4. CASE CanRemove(n) /\ Remove(n)
      BY <1>1, <1>4, RemoveDisk DEF CanRemove
<1> QED BY <1>2, <1>3, <1>4 DEF Handle, handleFileCreate, handleFileDelete

\* Closing the File in the variable leaves no descriptor open.
LEMMA CloseDisk ==
  ASSUME DiskType, OnlyUploadOpen
  PROVE  /\ Closed(fds, fsUploadFile) \in [Fds -> Names \cup {Free}]
         /\ \A d \in Fds : Closed(fds, fsUploadFile)[d] = Free
BY BoundsAssumption DEF DiskType, OnlyUploadOpen, Closed, Fds

\* A buffer changes the size of one file, that of the upload.
LEMMA WriteDisk ==
  ASSUME DiskInv, Uploading, NEW ok \in BOOLEAN, Write(ok)
  PROVE  /\ files' \in [Names -> 0..MaxParts \cup {Absent}]
         /\ ok /\ ~upload.short /\ ~upload.doomed =>
              files'[upload.name] = upload.sent + 1
         /\ upload.doomed => files' = files
         /\ \A n \in Names : files'[n] # files[n] => n = upload.name
<1> DEFINE f == IF fsUploadFile = NoFd THEN Free ELSE fds[fsUploadFile]
<1>1. files' = IF ok /\ f # Free /\ files[f] \in 0..(MaxParts - 1)
               THEN [files EXCEPT ![f] = files[f] + 1] ELSE files
      BY DEF Write
<1>2. f \in Names \cup {Free}
      BY DEF DiskInv, DiskType
<1>3. files \in [Names -> 0..MaxParts \cup {Absent}]
      BY DEF DiskInv, DiskType
<1>4. files' \in [Names -> 0..MaxParts \cup {Absent}]
  <2>1. CASE ok /\ f # Free /\ files[f] \in 0..(MaxParts - 1)
    <3>1. files[f] + 1 \in 0..MaxParts
          BY <2>1, BoundsAssumption
    <3> HIDE DEF f
    <3> QED BY <1>1, <1>2, <1>3, <2>1, <3>1
  <2>2. CASE ~(ok /\ f # Free /\ files[f] \in 0..(MaxParts - 1))
        BY <1>1, <1>3, <2>2
  <2> QED BY <2>1, <2>2
<1>5. ASSUME ok, ~upload.short, ~upload.doomed
      PROVE  files'[upload.name] = upload.sent + 1
  <2>1. /\ f = upload.name /\ upload.name \in Names
        /\ files[upload.name] = upload.sent /\ upload.sent \in 0..(MaxParts - 1)
        BY <1>5 DEF DiskInv, UploadOpen
  <2>2. f # Free
        BY <2>1, NamesAssumption
  <2> HIDE DEF f
  <2> QED BY <1>1, <1>3, <1>5, <2>1, <2>2
<1>6. upload.doomed => files' = files
  <2>1. upload.doomed => f = Free
        BY DEF DiskInv, UploadOpen
  <2> QED BY <1>1, <2>1
<1>7. ASSUME NEW n \in Names, files'[n] # files[n]
      PROVE  n = upload.name
  <2>1. f \in {upload.name, Free}
        BY DEF DiskInv, UploadOpen
  <2> HIDE DEF f
  <2> QED BY <1>1, <1>3, <1>7, <2>1
<1> QED BY <1>4, <1>5, <1>6, <1>7

\* fsUploadFile = SPIFFS.open(n, "w")
LEMMA StartDisk ==
  ASSUME DiskInv, NEW n \in Names, UploadStart(n)
  PROVE  DiskInv'
<1>1. ~Uploading /\ Uploading' /\ cut' = NoName
      BY DEF UploadStart, Reads, Uploading
<1>2. 0 \in 0..MaxParts /\ 0 \in 0..(MaxParts - 1)
      BY BoundsAssumption
<1>3. ASSUME NEW d \in Fds, LowestFree(d), Reopen(n, d),
             files' = Emptied(n),
             upload' = [name |-> n, sent |-> 0, doomed |-> d = fsUploadFile, short |-> FALSE]
      PROVE  DiskInv'
  <2>1. /\ fds[d] = Free /\ fsUploadFile' = d /\ d # NoFd
        /\ fds' = Closed([fds EXCEPT ![d] = n], fsUploadFile)
        BY <1>3, BoundsAssumption DEF LowestFree, Reopen, Fds
  <2>2. \A e \in Fds : e # d => fds'[e] = Free
    <3>1. fds \in [Fds -> Names \cup {Free}] /\ \A e \in Fds : fds[e] # Free => e = fsUploadFile
          BY DEF DiskInv, DiskType, OnlyUploadOpen
    <3>2. fsUploadFile # NoFd => fsUploadFile \in Fds
          BY DEF DiskInv, DiskType
    <3>3. NoFd \notin Fds
          BY BoundsAssumption DEF Fds
    <3> QED BY <2>1, <3>1, <3>2, <3>3 DEF Closed
  <2>3. fds'[d] = IF fsUploadFile = d THEN Free ELSE n
        BY <2>1 DEF Closed, DiskInv, DiskType
  <2>4. fds' \in [Fds -> Names \cup {Free}]
        BY <2>1 DEF Closed, DiskInv, DiskType
  <2>5. files' \in [Names -> 0..MaxParts \cup {Absent}] /\ files'[n] = 0
        BY <1>2, <1>3 DEF DiskInv, DiskType, Emptied
  <2>6. (d = fsUploadFile) \in BOOLEAN
        OBVIOUS
  <2>7. upload' \in Uploads
        BY <1>2, <1>3, <2>6 DEF Uploads
  <2>8. DiskType'
        BY <1>1, <2>1, <2>4, <2>5, <2>7 DEF DiskType
  <2>9. OnlyUploadOpen'
        BY <2>1, <2>2 DEF OnlyUploadOpen
  <2>10. CutStaysOpen'
        BY <1>1 DEF CutStaysOpen
  <2>11. UploadOpen'
    <3>1. /\ upload'.name = n /\ upload'.sent = 0 /\ upload'.short = FALSE
          /\ upload'.doomed = (d = fsUploadFile)
          BY <1>3
    <3>2. fds'[d] \in {n, Free}
          BY <2>3
    <3>3. fds'[d] = IF upload'.doomed THEN Free ELSE n
          BY <2>3, <3>1
    <3> QED BY <1>2, <2>1, <2>5, <3>1, <3>2, <3>3 DEF UploadOpen
  <2> QED BY <2>8, <2>9, <2>10, <2>11 DEF DiskInv
<1>4. ASSUME fds' = Closed(fds, fsUploadFile), fsUploadFile' = NoFd,
             upload' = [name |-> n, sent |-> 0, doomed |-> FALSE, short |-> TRUE],
             files' = files
      PROVE  DiskInv'
  <2>1. fds' \in [Fds -> Names \cup {Free}] /\ \A d \in Fds : fds'[d] = Free
        BY <1>4, CloseDisk DEF DiskInv
  <2>2. upload' \in Uploads
        BY <1>2, <1>4 DEF Uploads
  <2>3. DiskType'
        BY <1>1, <1>4, <2>1, <2>2 DEF DiskInv, DiskType
  <2>4. OnlyUploadOpen' /\ CutStaysOpen'
        BY <1>1, <1>4, <2>1 DEF OnlyUploadOpen, CutStaysOpen
  <2>5. UploadOpen'
        BY <1>2, <1>4 DEF UploadOpen
  <2> QED BY <2>3, <2>4, <2>5 DEF DiskInv
<1> QED BY <1>3, <1>4 DEF UploadStart

\* A buffer in the middle of the upload.
LEMMA UploadWriteDisk ==
  ASSUME DiskInv, NEW ok \in BOOLEAN, UploadWrite(ok)
  PROVE  DiskInv'
<1>1. /\ Uploading /\ Uploading' /\ Write(ok) /\ upload.sent < MaxParts - 1
      /\ fds' = fds /\ fsUploadFile' = fsUploadFile /\ cut' = cut
      BY DEF UploadWrite, Reads, Uploading
<1>2. upload \in Uploads /\ upload.sent \in 0..(MaxParts - 1) /\ upload.name \in Names
      BY <1>1 DEF DiskInv, DiskType, UploadOpen
<1>3. /\ upload'.name = upload.name /\ upload'.sent = upload.sent + 1
      /\ upload'.doomed = upload.doomed /\ upload'.short = (upload.short \/ ~ok)
      BY <1>2 DEF UploadWrite, Uploads
<1>4. upload.sent + 1 \in 0..(MaxParts - 1) /\ upload.sent + 1 \in 0..MaxParts
      BY <1>1, <1>2, BoundsAssumption
<1>5. upload' \in Uploads
  <2>1. upload' = [upload EXCEPT !.sent = upload.sent + 1, !.short = upload.short \/ ~ok]
        BY DEF UploadWrite
  <2>2. (upload.short \/ ~ok) \in BOOLEAN
        OBVIOUS
  <2> QED BY <1>2, <1>4, <2>1, <2>2 DEF Uploads
<1>6. /\ files' \in [Names -> 0..MaxParts \cup {Absent}]
      /\ ok /\ ~upload.short /\ ~upload.doomed => files'[upload.name] = upload.sent + 1
      /\ upload.doomed => files' = files
      BY <1>1, WriteDisk
<1>7. DiskType'
      BY <1>1, <1>5, <1>6 DEF DiskInv, DiskType
<1>8. OnlyUploadOpen' /\ CutStaysOpen'
      BY <1>1 DEF DiskInv, OnlyUploadOpen, CutStaysOpen
<1>9. UploadOpen'
  <2>1. fsUploadFile # NoFd => fds[fsUploadFile] \in {upload.name, Free}
        BY <1>1 DEF DiskInv, UploadOpen
  <2>2. fsUploadFile # NoFd /\ ~upload.doomed => fds[fsUploadFile] = upload.name
        BY <1>1 DEF DiskInv, UploadOpen
  <2>3. ~upload'.short => ok /\ ~upload.short
        BY <1>3
  <2>4. ~upload.short => fsUploadFile # NoFd
        BY <1>1 DEF DiskInv, UploadOpen
  <2>5. upload.doomed => /\ fsUploadFile # NoFd /\ fds[fsUploadFile] = Free
                         /\ files[upload.name] = 0
        BY <1>1 DEF DiskInv, UploadOpen
  <2> QED BY <1>1, <1>2, <1>3, <1>4, <1>6, <2>1, <2>2, <2>3, <2>4, <2>5 DEF UploadOpen
<1> QED BY <1>7, <1>8, <1>9 DEF DiskInv

\* The last buffer, and UPLOAD_FILE_END.
LEMMA UploadEndDisk ==
  ASSUME DiskInv, NEW ok \in BOOLEAN, UploadEnd(ok), ~Uploading'
  PROVE  DiskInv'
<1>1. /\ Uploading /\ Write(ok) /\ fds' = Closed(fds, fsUploadFile)
      /\ fsUploadFile' = NoFd /\ upload' = NoUpload /\ cut' = cut
      BY DEF UploadEnd, CloseFile, Uploading
<1>2. fds' \in [Fds -> Names \cup {Free}] /\ \A d \in Fds : fds'[d] = Free
      BY <1>1, CloseDisk DEF DiskInv
<1>3. files' \in [Names -> 0..MaxParts \cup {Absent}]
      BY <1>1, WriteDisk
<1>4. upload' \in Uploads
      BY <1>1, BoundsAssumption DEF NoUpload, Uploads
<1>5. DiskType'
      BY <1>1, <1>2, <1>3, <1>4 DEF DiskInv, DiskType
<1>6. OnlyUploadOpen' /\ CutStaysOpen' /\ UploadOpen'
      BY <1>1, <1>2 DEF OnlyUploadOpen, CutStaysOpen, UploadOpen
<1> QED BY <1>5, <1>6 DEF DiskInv

\* The upload is cut off, and its File stays open.
LEMMA AbortedDisk ==
  ASSUME DiskInv, UploadAborted
  PROVE  DiskInv'
<1>1. /\ Uploading /\ ~Uploading' /\ upload' = NoUpload
      /\ cut' = CASE fsUploadFile = NoFd -> NoName
                  [] upload.doomed        -> Deleted
                  [] OTHER                -> upload.name
      /\ files' = files /\ fds' = fds /\ fsUploadFile' = fsUploadFile
      BY DEF UploadAborted, Drop, Uploading
<1>2. upload.name \in Names
      BY <1>1 DEF DiskInv, UploadOpen
<1>3. upload' \in Uploads
      BY <1>1, BoundsAssumption DEF NoUpload, Uploads
<1>4. DiskType'
      BY <1>1, <1>2, <1>3 DEF DiskInv, DiskType
<1>5. OnlyUploadOpen' /\ UploadOpen'
      BY <1>1 DEF DiskInv, OnlyUploadOpen, UploadOpen
<1>6. CutStaysOpen'
  <2>1. CASE fsUploadFile = NoFd \/ upload.doomed
        BY <1>1, <2>1 DEF CutStaysOpen
  <2>2. CASE fsUploadFile # NoFd /\ ~upload.doomed
        BY <1>1, <1>2, <2>2 DEF DiskInv, UploadOpen, CutStaysOpen
  <2> QED BY <2>1, <2>2
<1> QED BY <1>4, <1>5, <1>6 DEF DiskInv
-----------------------------------------------------------------------------
(***************************************************************************)
(* The invariant.                                                          *)
(***************************************************************************)
\* The device starts with no connection and no open file.
LEMMA InitInv == Init => IInv
<1> SUFFICES ASSUME Init PROVE IInv
    OBVIOUS
<1>1. Waiting = {} /\ InQueueOnce
      BY DEF Init, Waiting, InQueueOnce
<1>2. NetInv
      BY <1>1 DEF Init, NetInv, Statuses
<1>3. upload \in Uploads
      BY BoundsAssumption DEF Init, NoUpload, Uploads
<1>4. files \in [Names -> 0..MaxParts \cup {Absent}]
  <2>1. 0 \in 0..MaxParts
        BY BoundsAssumption
  <2> QED BY <2>1 DEF Init
<1>5. DiskType
      BY <1>3, <1>4 DEF Init, DiskType
<1>6. OnlyUploadOpen /\ CutStaysOpen /\ UploadOpen
      BY DEF Init, OnlyUploadOpen, CutStaysOpen, UploadOpen, Uploading
<1> QED BY <1>2, <1>5, <1>6 DEF IInv, ArgsType, DiskInv, Init

\* After a drop or an answer the server is not in an upload.
LEMMA NotUploading == Drop \/ Answered => ~Uploading'
BY DEF Drop, Answered, Uploading

\* Reading a request keeps the invariant.
LEMMA RequestInv == ASSUME IInv, Request PROVE IInv'
<1> USE DEF IInv
<1>1. CASE RequestBegins \/ MoreLines
  <2>1. /\ ~Uploading /\ ~Uploading' /\ UNCHANGED disk /\ args' = args
        /\ status # "none" /\ status' = "request" /\ handler' = handler
        /\ sent' \subseteq sent /\ UNCHANGED <<here, queue, current>>
        BY <1>1 DEF RequestBegins, MoreLines, Reads, Uploading, net
  <2>2. NetInv'
        BY <2>1, WaitElsewhere DEF NetInv, Statuses
  <2> QED BY <2>1, <2>2, DiskKept DEF ArgsType
<1>2. ASSUME NEW arg \in Names \cup {NoName}, ParseFails(arg)
      PROVE  IInv'
  <2>1. ~Uploading /\ ~Uploading' /\ Drop /\ UNCHANGED disk /\ args' \in {args, arg}
        BY <1>2, NotUploading DEF ParseFails, Uploading
  <2>2. ArgsType'
        BY <2>1 DEF ArgsType
  <2> QED BY <2>1, <2>2, DropNet, DiskKept
<1>3. ASSUME NEW arg \in Names \cup {NoName}, NEW h \in Handlers, FormBegins(h, arg)
      PROVE  IInv'
  <2>1. /\ ~Uploading /\ ~Uploading' /\ UNCHANGED disk /\ args' = arg
        /\ status' = "head" /\ handler' = h /\ sent' \subseteq sent
        /\ UNCHANGED <<here, queue, current>> /\ status # "none"
        BY <1>3 DEF FormBegins, Reads, Uploading
  <2>2. NetInv'
        BY <2>1, WaitElsewhere DEF Statuses
  <2> QED BY <2>1, <2>2, DiskKept DEF ArgsType
<1>4. ASSUME NEW arg \in Names \cup {NoName}, NEW h \in Handlers, NEW parsed \in BOOLEAN,
             PlainRequest(h, arg, parsed)
      PROVE  IInv'
  <2>1. Arguments(arg, parsed) \in Names \cup {NoName}
        BY DEF Arguments, ArgsType
  <2>2. /\ ~Uploading /\ ~Uploading' /\ status # "none" /\ Answered
        /\ args' = Arguments(arg, parsed) /\ Handle(h, Arguments(arg, parsed))
        BY <1>4, NotUploading DEF PlainRequest, Uploading
  <2> QED BY <2>1, <2>2, AnsweredNet, HandleDisk DEF ArgsType
<1> QED BY <1>1, <1>2, <1>3, <1>4 DEF Request

\* Reading a form keeps the invariant.
LEMMA FormInv == ASSUME IInv, Form PROVE IInv'
<1> USE DEF IInv
<1>1. CASE FieldRead
  <2>1. /\ (Uploading' <=> Uploading) /\ UNCHANGED disk /\ args' = args
        /\ status = "head" /\ status' = status /\ handler' = handler
        /\ sent' \subseteq sent /\ UNCHANGED <<here, queue, current>>
        BY <1>1 DEF FieldRead, Reads, Uploading
  <2>2. NetInv'
        BY <2>1, WaitElsewhere DEF NetInv, Statuses
  <2> QED BY <2>1, <2>2, DiskKept DEF ArgsType
<1>2. CASE FormAborted
  <2>1. ~Uploading /\ ~Uploading' /\ Drop /\ UNCHANGED disk /\ args' = args
        BY <1>2, NotUploading DEF FormAborted, Uploading
  <2> QED BY <2>1, DropNet, DiskKept DEF ArgsType
<1>3. CASE Hang
  <2>1. /\ ~Uploading /\ ~Uploading' /\ UNCHANGED disk /\ args' = args
        /\ status = "head" /\ status' = "hung" /\ handler' = handler
        /\ sent' \subseteq sent /\ UNCHANGED <<here, queue, current>>
        BY <1>3 DEF Hang, Uploading, net
  <2>2. NetInv'
        BY <2>1, WaitElsewhere DEF NetInv, Statuses
  <2> QED BY <2>1, <2>2, DiskKept DEF ArgsType
<1>4. CASE UploadAborted
  <2>1. Drop /\ args' = args
        BY <1>4 DEF UploadAborted
  <2> QED BY <1>4, <2>1, DropNet, AbortedDisk DEF ArgsType
<1>5. ASSUME NEW arg \in Names \cup {args}, FormEnds(arg)
      PROVE  IInv'
  <2>1. arg \in Names \cup {NoName}
        BY DEF ArgsType
  <2>2. /\ ~Uploading /\ ~Uploading' /\ status # "none" /\ Answered
        /\ args' = arg /\ Handle(handler, arg)
        BY <1>5, NotUploading DEF FormEnds, Uploading
  <2> QED BY <2>1, <2>2, AnsweredNet, HandleDisk DEF ArgsType
<1>6. ASSUME NEW n \in Names, UploadStart(n)
      PROVE  IInv'
  <2>1. /\ args' = args /\ status = "head" /\ status' = "file" /\ handler' = handler
        /\ sent' \subseteq sent /\ UNCHANGED <<here, queue, current>>
        BY <1>6 DEF UploadStart, Reads
  <2>2. NetInv'
        BY <2>1, WaitElsewhere DEF NetInv, Statuses
  <2> QED BY <1>6, <2>1, <2>2, StartDisk DEF ArgsType
<1>7. ASSUME NEW ok \in BOOLEAN, UploadWrite(ok)
      PROVE  IInv'
  <2>1. /\ args' = args /\ status = "file" /\ status' = status /\ handler' = handler
        /\ sent' \subseteq sent /\ UNCHANGED <<here, queue, current>>
        BY <1>7 DEF UploadWrite, Reads
  <2>2. NetInv'
        BY <2>1, WaitElsewhere DEF NetInv, Statuses
  <2> QED BY <1>7, <2>1, <2>2, UploadWriteDisk DEF ArgsType
<1>8. ASSUME NEW ok \in BOOLEAN, UploadEnd(ok)
      PROVE  IInv'
  <2>1. status = "file"
        BY <1>8 DEF UploadEnd
  <2>2. CASE /\ status' = "head" /\ sent' = sent \ {current}
             /\ UNCHANGED <<here, queue, current, handler, args>>
    <3>1. NetInv'
          BY <2>1, <2>2, WaitElsewhere DEF NetInv, Statuses
    <3>2. ~Uploading'
          BY <2>2 DEF Uploading
    <3> QED BY <1>8, <2>2, <3>1, <3>2, UploadEndDisk DEF ArgsType
  <2>3. CASE args' \in Names \cup {args} /\ Answered
    <3>1. NetInv' /\ ~Uploading'
          BY <2>1, <2>3, AnsweredNet, NotUploading
    <3> QED BY <1>8, <2>3, <3>1, UploadEndDisk DEF ArgsType
  <2> QED BY <1>8, <2>2, <2>3 DEF UploadEnd
<1> QED BY <1>1, <1>2, <1>3, <1>4, <1>5, <1>6, <1>7, <1>8 DEF Form

\* Every step keeps the invariant.
LEMMA StepInv == IInv /\ [Next]_vars => IInv'
<1> SUFFICES ASSUME IInv, [Next]_vars PROVE IInv'
    OBVIOUS
<1> USE DEF IInv
<1>1. CASE Take
  <2>1. (Uploading' <=> Uploading) /\ UNCHANGED disk /\ args' = args
        BY <1>1 DEF Take, Uploading
  <2> QED BY <1>1, <2>1, TakeNet, DiskKept DEF ArgsType
<1>2. CASE Gone \/ DataTimeout \/ CloseTimeout
  <2>1. ~Uploading /\ ~Uploading' /\ Drop /\ UNCHANGED disk /\ args' = args
        BY <1>2, NotUploading DEF Gone, DataTimeout, CloseTimeout, CloseWaitOver, Uploading
  <2> QED BY <2>1, DropNet, DiskKept DEF ArgsType
<1>3. CASE Reset
  <2>1. Waiting' = {} /\ InQueueOnce'
        BY <1>3 DEF Reset, Waiting, InQueueOnce
  <2>2. NetInv'
        BY <1>3, <2>1 DEF Reset, NetInv, Statuses
  <2>3. upload' \in Uploads
        BY <1>3, BoundsAssumption DEF Reset, NoUpload, Uploads
  <2>4. DiskType'
        BY <1>3, <2>3 DEF Reset, DiskInv, DiskType
  <2>5. OnlyUploadOpen' /\ CutStaysOpen' /\ UploadOpen'
        BY <1>3 DEF Reset, OnlyUploadOpen, CutStaysOpen, UploadOpen, Uploading
  <2> QED BY <1>3, <2>2, <2>4, <2>5 DEF Reset, ArgsType, DiskInv
<1>4. ASSUME NEW c \in Clients, Connect(c)
      PROVE  IInv'
  <2>1. (Uploading' <=> Uploading) /\ UNCHANGED disk /\ args' = args
        BY <1>4 DEF Connect, Uploading
  <2> QED BY <1>4, <2>1, ConnectNet, DiskKept DEF ArgsType
<1>5. ASSUME NEW c \in Clients, Send(c) \/ Leave(c)
      PROVE  IInv'
  <2>1. /\ (Uploading' <=> Uploading) /\ UNCHANGED disk /\ args' = args
        /\ UNCHANGED <<queue, current, status, handler>>
        /\ here' \subseteq Clients /\ sent' \subseteq Clients
        BY <1>5 DEF Send, Leave, Uploading, NetInv
  <2>2. Waiting' = Waiting /\ InQueueOnce'
        BY <2>1 DEF NetInv, Waiting, InQueueOnce
  <2>3. NetInv'
        BY <2>1, <2>2 DEF NetInv
  <2> QED BY <2>1, <2>3, DiskKept DEF ArgsType
<1>6. CASE UNCHANGED vars
  <2>1. (Uploading' <=> Uploading) /\ UNCHANGED disk
        BY <1>6 DEF vars, disk, Uploading
  <2>2. Waiting' = Waiting /\ InQueueOnce'
        BY <1>6 DEF vars, NetInv, Waiting, InQueueOnce
  <2>3. NetInv' /\ ArgsType'
        BY <1>6, <2>2 DEF vars, NetInv, ArgsType
  <2> QED BY <2>1, <2>3, DiskKept
<1> QED BY <1>1, <1>2, <1>3, <1>4, <1>5, <1>6, RequestInv, FormInv DEF Next, Server

\* The queue, the descriptors and the upload stay in step.
THEOREM WebServerInvariant == Spec => []IInv
<1> QED BY InitInv, StepInv, PTL DEF Spec

\* The variables keep their types; who is served is no longer in the queue.
THEOREM WebServerTypeCorrect == Spec => []TypeOK
<1>1. IInv => TypeOK
      BY DEF IInv, NetInv, ArgsType, DiskInv, DiskType, TypeOK
<1> QED BY <1>1, WebServerInvariant, PTL

\* One descriptor at most stays open, for any number of files, clients and
\* descriptors (handleFileUpload, SPIFFS_open).
THEOREM DescriptorsBounded == Spec => []AtMostOneOpen
<1>1. IInv => AtMostOneOpen
      BY DEF IInv, DiskInv, OnlyUploadOpen, AtMostOneOpen
<1> QED BY <1>1, WebServerInvariant, PTL

\* No upload writes to another's file (handleFileUpload's global File).
THEOREM UploadsKeptApart == Spec => []UploadGoesToItsFile
<1>1. IInv => UploadGoesToItsFile
      BY DEF IInv, DiskInv, UploadOpen, Uploading, UploadGoesToItsFile
<1> QED BY <1>1, WebServerInvariant, PTL

\* An upload is whole in its file unless it is doomed or a write fails, for
\* any number of buffers, files and descriptors (handleFileUpload).
THEOREM AnsweredMeansStored == Spec => UploadedWhole
<1>1. IInv /\ [Next]_vars =>
        (UploadEnd(TRUE) /\ ~upload.doomed /\ ~upload.short =>
           files'[upload.name] = upload.sent + 1)
  <2>1. SUFFICES ASSUME IInv, UploadEnd(TRUE), ~upload.doomed, ~upload.short
                 PROVE  files'[upload.name] = upload.sent + 1
        OBVIOUS
  <2>2. Uploading /\ Write(TRUE) /\ DiskInv
        BY <2>1 DEF UploadEnd, Uploading, IInv
  <2> QED BY <2>1, <2>2, WriteDisk
<1> QED BY <1>1, WebServerInvariant, PTL DEF Spec, UploadedWhole

\* Only a cut-off upload whose file was deleted dooms the next one: as long as
\* that file is there its descriptor is taken, so SPIFFS gives another number.
THEOREM DoomNeedsDeletion == Spec => DoomedByDeletion
<1>1. IInv /\ [Next]_vars =>
        \A n \in Names : UploadStart(n) /\ upload'.doomed => cut = Deleted
  <2>1. SUFFICES ASSUME IInv, NEW n \in Names, UploadStart(n), upload'.doomed
                 PROVE  cut = Deleted
        OBVIOUS
  <2>2. ~Uploading /\ DiskInv
        BY <2>1 DEF UploadStart, Reads, Uploading, IInv
  <2>3. PICK d \in Fds : fds[d] = Free /\ d = fsUploadFile
    <3>1. upload' # [name |-> n, sent |-> 0, doomed |-> FALSE, short |-> TRUE]
          BY <2>1
    <3>2. PICK d \in Fds :
            /\ LowestFree(d)
            /\ upload' = [name |-> n, sent |-> 0, doomed |-> d = fsUploadFile, short |-> FALSE]
          BY <2>1, <3>1 DEF UploadStart
    <3>3. upload'.doomed = (d = fsUploadFile)
          BY <3>2
    <3> QED BY <2>1, <3>2, <3>3 DEF LowestFree
  <2>4. d # NoFd
        BY BoundsAssumption DEF Fds
  <2> QED BY <2>2, <2>3, <2>4, NamesAssumption DEF DiskInv, CutStaysOpen
<1> QED BY <1>1, WebServerInvariant, PTL DEF Spec, DoomedByDeletion
-----------------------------------------------------------------------------
(***************************************************************************)
(* Which request changes which file.                                       *)
(***************************************************************************)
\* The handlers of /edit change the file of their path only.
LEMMA HandleNames ==
  ASSUME DiskInv, NEW h, NEW path, Handle(h, path), NEW n \in Names, files'[n] # files[n]
  PROVE  n = path
<1>1. files \in [Names -> 0..MaxParts \cup {Absent}]
      BY DEF DiskInv, DiskType
<1>2. \/ files' = [files EXCEPT ![path] = 0]
      \/ files' = [files EXCEPT ![path] = Absent]
      \/ files' = files
      BY DEF Handle, handleFileCreate, handleFileDelete, Remove
<1> QED BY <1>1, <1>2

\* Requests and forms outside of uploads.
LEMMA RequestNames ==
  ASSUME IInv, NEW arg, NEW h,
         \/ \E parsed \in BOOLEAN : PlainRequest(h, arg, parsed)
         \/ FormEnds(arg),
         NEW n \in Names, files'[n] # files[n]
  PROVE  n = NamedFile
<1>1. status # "file" /\ status' # "file"
      BY NotUploading DEF PlainRequest, FormEnds, Uploading
<1>2. CASE \E parsed \in BOOLEAN : PlainRequest(h, arg, parsed)
  <2>1. PICK parsed \in BOOLEAN :
          /\ Handle(h, Arguments(arg, parsed))
          /\ args' = Arguments(arg, parsed)
        BY <1>2 DEF PlainRequest
  <2>2. n = Arguments(arg, parsed)
        BY <2>1, HandleNames DEF IInv
  <2> QED BY <1>1, <2>1, <2>2 DEF NamedFile
<1>3. CASE FormEnds(arg)
  <2>1. Handle(handler, arg) /\ args' = arg
        BY <1>3 DEF FormEnds
  <2>2. n = arg
        BY <2>1, HandleNames DEF IInv
  <2> QED BY <1>1, <2>1, <2>2 DEF NamedFile
<1> QED BY <1>2, <1>3

\* A file that changes is the one that the request in hand names, stale
\* arguments included, for any sequence of requests, cut-off uploads and
\* deletions (fsUploadFile, SPIFFS_EV_IX_DEL).
THEOREM OnlyNamedFiles == Spec => OnlyNamedFilesChange
<1>1. IInv /\ [Next]_vars => \A n \in Names : files'[n] # files[n] => n = NamedFile
  <2>1. SUFFICES ASSUME IInv, [Next]_vars, NEW n \in Names, files'[n] # files[n]
                 PROVE  n = NamedFile
        OBVIOUS
  <2>2. DiskInv
        BY <2>1 DEF IInv
  <2>3. ASSUME NEW m \in Names, UploadStart(m)
        PROVE  n = NamedFile
    <3>1. status # "file" /\ status' = "file"
          BY <2>3 DEF UploadStart, Reads
    <3>2. files' = Emptied(m) /\ upload'.name = m
          BY <2>1, <2>3 DEF UploadStart
    <3> QED BY <2>1, <2>2, <3>1, <3>2 DEF NamedFile, Emptied, DiskInv, DiskType
  <2>4. ASSUME NEW ok \in BOOLEAN, UploadWrite(ok) \/ UploadEnd(ok)
        PROVE  n = NamedFile
    <3>1. status = "file" /\ Write(ok)
          BY <2>4 DEF UploadWrite, UploadEnd, Reads
    <3> QED BY <2>1, <2>2, <3>1, WriteDisk DEF NamedFile, Uploading
  <2>5. ASSUME NEW h \in Handlers, NEW arg \in Names \cup {NoName}, NEW parsed \in BOOLEAN,
               PlainRequest(h, arg, parsed)
        PROVE  n = NamedFile
        BY <2>1, <2>5, RequestNames
  <2>6. ASSUME NEW arg \in Names \cup {args}, FormEnds(arg)
        PROVE  n = NamedFile
        BY <2>1, <2>6, RequestNames
  <2>7. CASE files' = files
        BY <2>1, <2>7
  <2> QED BY <2>1, <2>3, <2>4, <2>5, <2>6, <2>7
          DEF Next, Server, Take, Gone, DataTimeout, CloseTimeout, Request, RequestBegins,
              MoreLines, ParseFails, FormBegins, Form, FieldRead, FormAborted, Hang, UploadAborted, Reset,
              Connect, Send, Leave, disk, vars
<1> QED BY <1>1, WebServerInvariant, PTL DEF Spec, OnlyNamedFilesChange
=============================================================================
