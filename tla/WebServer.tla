----------------------------- MODULE WebServer ------------------------------
(***************************************************************************)
(* The web server on the device: the queue of connections (WiFiServer),    *)
(* one request at a time (ESP8266WebServer::handleClient), its arguments   *)
(* and forms (Parsing.cpp), and the file editor's requests with the SPIFFS *)
(* descriptors that an upload holds (ESP-WebServer.cpp).                   *)
(*                                                                         *)
(* A file is the number of upload buffers in it, a query or a form carries *)
(* at most one argument. What a client sends comes in pieces, a character  *)
(* or some lines, and the parser waits for the next one in the header of a *)
(* request, in its body, and anywhere in a form. Reads of files, pages and *)
(* other answers change nothing here; /sysRestart is a Reset.              *)
(***************************************************************************)
EXTENDS Integers, Sequences

CONSTANTS Clients, NoClient,
          Names, Root,     \* Root is the name "/"
          NoName, Deleted, Free, Absent,
          MaxParts,        \* bound: upload buffers in one file
          FdCount, NoFd    \* SPIFFS_MAX_OPEN_FILES

ASSUME ClientsAssumption == NoClient \notin Clients
ASSUME NamesAssumption ==
  /\ Root \in Names
  /\ Names \cap {NoName, Deleted, Free} = {} /\ NoName # Deleted
ASSUME BoundsAssumption ==
  /\ MaxParts \in Nat \ {0} /\ FdCount \in Nat /\ FdCount >= 2
  /\ NoFd \notin 1..FdCount /\ Absent \notin 0..MaxParts

VARIABLES here,          \* clients whose connection is up
          sent,          \* clients from whom there is data to read
          queue,         \* _unclaimed
          current,       \* _currentClient
          status,        \* _currentStatus, and where the parser waits
          handler,       \* _currentHandler of the form being read
          args,          \* _currentArgs: the first argument
          files,         \* the file system
          fds,           \* which file each SPIFFS descriptor is open on
          fsUploadFile,  \* the descriptor in the global File
          upload,        \* the upload in progress, or the last one
          cut            \* the file that a cut-off upload has left open, if any

vars == <<here, sent, queue, current, status, handler, args,
          files, fds, fsUploadFile, upload, cut>>
net  == <<here, sent, queue>>
disk == <<files, fds, fsUploadFile, upload, cut>>

Fds == 1..FdCount

Statuses == {"none", "wait_read", "request", "head", "file", "hung", "wait_close"}
Forms    == {"head", "file"}
Parsing  == {"request"} \cup Forms

\* PUT, DELETE and POST /edit, and everything else.
Handlers == {"create", "delete", "upload", "other"}

\* doomed: its descriptor has the number that the File it replaced still held;
\* short: a write has failed.
NoUpload == [name |-> NoName, sent |-> 0, doomed |-> FALSE, short |-> FALSE]
Uploads  == [name : Names \cup {NoName}, sent : 0..MaxParts,
             doomed : BOOLEAN, short : BOOLEAN]

Waiting == {queue[i] : i \in DOMAIN queue}

TypeOK ==
  /\ here \subseteq Clients /\ sent \subseteq Clients
  /\ queue \in Seq(Clients)
  /\ current \in Clients \cup {NoClient}
  /\ current \notin Waiting
  /\ status \in Statuses
  /\ (status = "none") = (current = NoClient)
  /\ handler \in Handlers \cup {"none"}
  /\ args \in Names \cup {NoName}
  /\ files \in [Names -> 0..MaxParts \cup {Absent}]
  /\ fds \in [Fds -> Names \cup {Free}]
  /\ fsUploadFile \in Fds \cup {NoFd}
  /\ upload \in Uploads
  /\ cut \in Names \cup {NoName, Deleted}

Init ==
  /\ here = {} /\ sent = {} /\ queue = <<>>
  /\ current = NoClient /\ status = "none" /\ handler = "none" /\ args = NoName
  /\ files \in [Names -> {0, Absent}]
  /\ fds = [d \in Fds |-> Free] /\ fsUploadFile = NoFd
  /\ upload = NoUpload /\ cut = NoName
-----------------------------------------------------------------------------
(***************************************************************************)
(* The clients, and lwIP's callbacks.                                      *)
(***************************************************************************)
Connect(c) ==
  /\ c \notin here \cup Waiting \cup {current}
  /\ here' = here \cup {c}
  /\ sent' = sent \ {c}
  /\ queue' = Append(queue, c)
  /\ UNCHANGED <<current, status, handler, args, disk>>

Send(c) == /\ c \in here /\ c \notin sent
           /\ c \in Waiting \/ (c = current /\ status # "wait_close")
           /\ sent' = sent \cup {c}
           /\ UNCHANGED <<here, queue, current, status, handler, args, disk>>

\* Data that has come can still be read.
Leave(c) == /\ c \in here
            /\ here' = here \ {c}
            /\ UNCHANGED <<sent, queue, current, status, handler, args, disk>>

\* WiFiClient::connected
Connected(c) == c \in here \cup sent
-----------------------------------------------------------------------------
(***************************************************************************)
(* handleClient.                                                           *)
(***************************************************************************)
\* Mutant: the client stays in the list of those nobody has claimed.
StillUnclaimed == queue

Unclaimed == Tail(queue)

\* WiFiServer::available
Take == /\ status = "none" /\ queue # <<>>
        /\ current' = Head(queue)
        /\ queue' = Unclaimed
        /\ status' = "wait_read"
        /\ UNCHANGED <<here, sent, handler, args, disk>>

\* _currentClient = WiFiClient(): the last reference goes, and the
\* connection with it.
Drop == /\ current' = NoClient /\ status' = "none" /\ handler' = "none"
        /\ here' = here \ {current} /\ sent' = sent \ {current}
        /\ UNCHANGED queue

Gone == /\ status \in {"wait_read", "wait_close"} /\ ~Connected(current)
        /\ Drop
        /\ UNCHANGED <<args, disk>>

\* HTTP_MAX_DATA_WAIT
DataTimeout == /\ status = "wait_read" /\ current \in here \ sent
               /\ Drop
               /\ UNCHANGED <<args, disk>>

\* Mutant: the server waits until the client closes.
NoLimit == FALSE

CloseWaitOver == status = "wait_close"

\* HTTP_MAX_CLOSE_WAIT
CloseTimeout == /\ CloseWaitOver /\ Connected(current)
                /\ Drop
                /\ UNCHANGED <<args, disk>>

\* The handler has answered; what it has read is no longer there to read.
Answered == IF current \in here
            THEN /\ status' = "wait_close" /\ handler' = "none"
                 /\ sent' = sent \ {current}
                 /\ UNCHANGED <<here, queue, current>>
            ELSE Drop

-----------------------------------------------------------------------------
(***************************************************************************)
(* _parseRequest: request line, header and body.                           *)
(***************************************************************************)
RequestBegins == /\ status = "wait_read" /\ current \in sent
                 /\ status' = "request"
                 /\ UNCHANGED <<net, current, handler, args, disk>>

\* The parser has read what has come and waits for the next character.
Reads(point) == status = point /\ current \in sent /\ sent' = sent \ {current}

\* Header lines have no limit, nor has the time from the first to the last:
\* the time-out of a line starts anew with each character, that of a body
\* with each piece. A client may keep the parser here for ever.
MoreLines == /\ Reads("request")
             /\ UNCHANGED <<here, queue, current, status, handler, args, disk>>

\* An invalid request line, too short a body, or no boundary where a form
\* begins, after its query has become the arguments: because it was sent
\* like that, or a time-out has cut it off there.
ParseFails(arg) == /\ status = "request"
                   /\ args' \in {args, arg}
                   /\ Drop
                   /\ UNCHANGED disk

\* Only GET, a body and a form reach _parseArguments; the query of any
\* other request is not looked at, and the arguments stay what they were.
Arguments(arg, parsed) == IF parsed THEN arg ELSE args
-----------------------------------------------------------------------------
(***************************************************************************)
(* The handlers, with the first argument for their path.                   *)
(***************************************************************************)
HasFreeFd == \E d \in Fds : fds[d] = Free

\* The file system may be full.
handleFileCreate(path) ==
  /\ \/ /\ path \notin {NoName, Root} /\ files[path] = Absent /\ HasFreeFd
        /\ files' = [files EXCEPT ![path] = 0]
     \/ UNCHANGED files
  /\ UNCHANGED <<fds, cut>>

\* SPIFFS_EV_IX_DEL frees the descriptors that are open on the file.
Remove(path) ==
  /\ files' = [files EXCEPT ![path] = Absent]
  /\ fds' = [d \in Fds |-> IF fds[d] = path THEN Free ELSE fds[d]]
  /\ cut' = IF cut = path THEN Deleted ELSE cut

CanRemove(path) == path \notin {NoName, Root} /\ files[path] # Absent /\ HasFreeFd

handleFileDelete(path) ==
  IF CanRemove(path) THEN Remove(path) ELSE UNCHANGED <<files, fds, cut>>

\* _handleRequest: an upload has nothing left to do.
Handle(h, path) ==
  /\ \/ h = "create" /\ handleFileCreate(path)
     \/ h = "delete" /\ handleFileDelete(path)
     \/ h \in {"upload", "other"} /\ UNCHANGED <<files, fds, cut>>
  /\ UNCHANGED <<fsUploadFile, upload>>

\* An empty line, one without a colon, or a time-out ends the header.
PlainRequest(h, arg, parsed) == /\ status = "request"
                                /\ args' = Arguments(arg, parsed)
                                /\ Handle(h, Arguments(arg, parsed))
                                /\ Answered
-----------------------------------------------------------------------------
(***************************************************************************)
(* _parseForm: the loop waits in it for the lines of a multipart body.     *)
(***************************************************************************)
\* The boundary has come.
FormBegins(h, arg) == /\ Reads("request")
                      /\ args' = arg
                      /\ status' = "head" /\ handler' = h
                      /\ UNCHANGED <<here, queue, current, disk>>

\* A field, or part of a file for a handler that takes none.
FieldRead == /\ Reads("head")
             /\ UNCHANGED <<here, queue, current, status, handler, args, disk>>

\* The last part was a field; its value comes before the query's.
FormEnds(arg) == /\ status = "head" /\ current \in sent
                 /\ args' = arg
                 /\ Handle(handler, arg)
                 /\ Answered

\* The client leaves in a file that nobody takes.
FormAborted == /\ status = "head" /\ handler # "upload" /\ ~Connected(current)
               /\ Drop
               /\ UNCHANGED <<args, disk>>

\* The client leaves anywhere else: the parser goes on with empty lines.
Hang == /\ status = "head" /\ ~Connected(current)
        /\ status' = "hung"
        /\ UNCHANGED <<net, current, handler, args, disk>>
-----------------------------------------------------------------------------
(***************************************************************************)
(* POST /edit: handleFileUpload, called by the parser.                     *)
(***************************************************************************)
\* spiffs_fd_find_new
LowestFree(d) == fds[d] = Free /\ \A e \in 1..(d - 1) : fds[e] # Free

Closed(table, d) == IF d = NoFd THEN table ELSE [table EXCEPT ![d] = Free]

\* Mutant: a plain descriptor in place of the File that closes itself.
OpenOnly(n, d) == fds' = [fds EXCEPT ![d] = n] /\ fsUploadFile' = d

\* Mutant: no second file is opened while one is open.
KeepOpenFile(n, d) ==
  IF fsUploadFile = NoFd
  THEN fds' = [fds EXCEPT ![d] = n] /\ fsUploadFile' = d
  ELSE UNCHANGED <<fds, fsUploadFile>>

\* fsUploadFile = SPIFFS.open(n, "w"): first the new file is opened, then
\* the File that was in the variable is destroyed and closes its descriptor.
Reopen(n, d) == /\ fds' = Closed([fds EXCEPT ![d] = n], fsUploadFile)
                /\ fsUploadFile' = d

\* Mutant: the file is opened for appending.
Appended(n) == [files EXCEPT ![n] = IF @ = Absent THEN 0 ELSE @]

Emptied(n) == [files EXCEPT ![n] = 0]

UploadStart(n) ==
  /\ Reads("head") /\ handler = "upload"
  /\ status' = "file"
  /\ \/ \E d \in Fds :
          /\ LowestFree(d) /\ Reopen(n, d)
          /\ files' = Emptied(n)
          /\ upload' = [name |-> n, sent |-> 0, doomed |-> d = fsUploadFile, short |-> FALSE]
     \/ /\ fds' = Closed(fds, fsUploadFile) /\ fsUploadFile' = NoFd
        /\ upload' = [name |-> n, sent |-> 0, doomed |-> FALSE, short |-> TRUE]
        /\ UNCHANGED files
  /\ cut' = NoName
  /\ UNCHANGED <<here, queue, current, handler, args>>

\* A buffer goes to the file if it is open and there is room; nobody looks
\* at the result.
Write(ok) ==
  LET f == IF fsUploadFile = NoFd THEN Free ELSE fds[fsUploadFile]
  IN files' = IF ok /\ f # Free /\ files[f] \in 0..(MaxParts - 1)
              THEN [files EXCEPT ![f] = @ + 1]
              ELSE files

UploadWrite(ok) ==
  /\ Reads("file") /\ upload.sent < MaxParts - 1
  /\ Write(ok)
  /\ upload' = [upload EXCEPT !.sent = @ + 1, !.short = @ \/ ~ok]
  /\ UNCHANGED <<here, queue, current, status, handler, args, fds, fsUploadFile, cut>>

\* Mutant: the File keeps the number of the descriptor it has closed.
KeepNumber == fds' = Closed(fds, fsUploadFile) /\ UNCHANGED fsUploadFile

CloseFile == fds' = Closed(fds, fsUploadFile) /\ fsUploadFile' = NoFd

\* The last buffer, and the end of the file. Another part of the form
\* follows, or the request is answered.
UploadEnd(ok) ==
  /\ status = "file" /\ current \in sent
  /\ Write(ok)
  /\ CloseFile
  /\ upload' = NoUpload
  /\ \/ /\ status' = "head" /\ sent' = sent \ {current}
        /\ UNCHANGED <<here, queue, current, handler, args>>
     \/ args' \in Names \cup {args} /\ Answered
  /\ UNCHANGED cut

\* UPLOAD_FILE_ABORTED: handleFileUpload does nothing.
UploadAborted ==
  /\ status = "file" /\ ~Connected(current)
  /\ cut' = CASE fsUploadFile = NoFd -> NoName
               [] upload.doomed        -> Deleted
               [] OTHER                -> upload.name
  /\ upload' = NoUpload
  /\ Drop
  /\ UNCHANGED <<args, files, fds, fsUploadFile>>

\* Power, a reset, /sysRestart.
Reset == /\ here' = {} /\ sent' = {} /\ queue' = <<>>
         /\ current' = NoClient /\ status' = "none"
         /\ handler' = "none" /\ args' = NoName
         /\ fds' = [d \in Fds |-> Free] /\ fsUploadFile' = NoFd
         /\ upload' = NoUpload /\ cut' = NoName
         /\ UNCHANGED files
-----------------------------------------------------------------------------
Request == \/ RequestBegins \/ MoreLines
           \/ \E arg \in Names \cup {NoName} :
                \/ ParseFails(arg)
                \/ \E h \in Handlers : FormBegins(h, arg)
                \/ \E h \in Handlers, parsed \in BOOLEAN : PlainRequest(h, arg, parsed)

Form == \/ FieldRead \/ FormAborted \/ Hang \/ UploadAborted
        \/ \E arg \in Names \cup {args} : FormEnds(arg)
        \/ \E n \in Names : UploadStart(n)
        \/ \E ok \in BOOLEAN : UploadWrite(ok) \/ UploadEnd(ok)

Server == Take \/ Gone \/ DataTimeout \/ CloseTimeout \/ Request \/ Form

Next == Server \/ Reset \/ \E c \in Clients : Connect(c) \/ Send(c) \/ Leave(c)

Spec == Init /\ [][Next]_vars

\* loop() calls handleClient again and again.
FairSpec == Spec /\ WF_vars(Server)
-----------------------------------------------------------------------------
(***************************************************************************)
(* Properties.                                                             *)
(***************************************************************************)
\* What an upload writes goes to the file it has named or nowhere, whatever
\* uploads were cut off and files deleted before (handleFileUpload's global
\* File; SPIFFS reuses descriptors).
UploadGoesToItsFile ==
  status = "file" /\ fsUploadFile # NoFd => fds[fsUploadFile] \in {upload.name, Free}

\* However many uploads are cut off, one descriptor at most stays open
\* (SPIFFS has five; handleFileUpload ignores UPLOAD_FILE_ABORTED).
AtMostOneOpen == \A d, e \in Fds : fds[d] # Free /\ fds[e] # Free => d = e

\* An upload that is answered is in its file from the first buffer to the
\* last, if every write had room and it is not doomed: then the File it
\* replaced has closed its descriptor (handleFileUpload's assignment).
UploadedWhole ==
  [][UploadEnd(TRUE) /\ ~upload.doomed /\ ~upload.short =>
       files'[upload.name] = upload.sent + 1]_vars

\* An upload is doomed only if the one before was cut off and its file was
\* deleted since, or it was a doomed one itself: no number is used twice
\* otherwise (SPIFFS_remove, UPLOAD_FILE_ABORTED).
DoomedByDeletion ==
  [][\A n \in Names : UploadStart(n) /\ upload'.doomed => cut = Deleted]_vars

\* A file is created, written or removed only by the request that names it:
\* an upload by its name, the other requests by their first argument, stale
\* or not. No upload reaches another's file, also when several are cut off
\* and files are deleted under them (fsUploadFile, SPIFFS_EV_IX_DEL).
NamedFile == IF status = "file" THEN upload.name
             ELSE IF status' = "file" THEN upload'.name ELSE args'

OnlyNamedFilesChange == [][\A n \in Names : files'[n] # files[n] => n = NamedFile]_vars

\* Nobody sends one request for ever, piece after piece (_parseRequest's loops).
NoEndlessRequest == []<>(status \notin Parsing) \/ <>[][~Send(current)]_vars

\* Nobody stays connected and falls silent within a form for ever.
NoSilentForm == []<>~(status \in Forms /\ current \in here \ sent)

\* A client in the queue is taken out of it, whatever the others do: they
\* may stay silent before a request or in it, cut it off, leave at any point
\* of it and of an upload, or keep the connection when it is answered. Left
\* out is what does starve the queue: requests that are sent for ever, forms
\* that fall silent, and the parser's own endless loop in a form (the
\* time-outs of handleClient and Stream; Parsing.cpp lines 141, 221, 356, 428).
EveryoneTaken ==
  NoEndlessRequest /\ NoSilentForm /\ []<>(status # "hung") =>
    \A c \in Clients : c \in Waiting ~> c \notin Waiting

\* What a DELETE removes is the file that its own argument names.
DeletesWhatItNames ==
  [][\A arg \in Names \cup {NoName}, parsed \in BOOLEAN :
       PlainRequest("delete", arg, parsed) =>
         \A n \in Names : files[n] # Absent /\ files'[n] = Absent => arg = n]_vars
=============================================================================
