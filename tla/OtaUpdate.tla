----------------------------- MODULE OtaUpdate ------------------------------
(***************************************************************************)
(* The update over the air: checkUpdates in setup() asks the update server *)
(* (ESP8266HTTPUpdate), Updater writes the new image into the flash        *)
(* between the running sketch and the file system and leaves a command in  *)
(* RTC memory, and after the restart the boot loader eboot copies the      *)
(* image over the old one, sector by sector.                               *)
(*                                                                         *)
(* Power may be lost and the chip may be reset at any point; RTC memory    *)
(* survives the reset only. An address is the number of a flash sector; an *)
(* image is SizeOf[m] sectors, and <<m, i>> is the content of its i-th.    *)
(* Simplifications: flash reads succeed, so the size of the running sketch *)
(* is known; the CRC of the command tells a command from garbage; eboot's  *)
(* own sector is part of the image, as in the .bin files.                  *)
(***************************************************************************)
EXTENDS Integers

CONSTANTS Images, NoImage, SizeOf,
          SpaceEnd,    \* first sector of the file system, _SPIFFS_start
          FlashEnd,    \* first sector beyond it
          NoCommand, Erased, FileData, Damaged,
          Hashes,      \* the server sends x-MD5
          Garbles      \* bytes may arrive altered

ASSUME ImagesAssumption == NoImage \notin Images
ASSUME SizesAssumption ==
  SizeOf \in [Images -> Nat \ {0}] /\ \A m \in Images : SizeOf[m] <= SpaceEnd
ASSUME FlashAssumption == SpaceEnd \in Nat /\ FlashEnd \in Nat /\ SpaceEnd <= FlashEnd
ASSUME ErasedAssumption == \A m \in Images : Erased # <<m, 0>>
ASSUME CommandAssumption == NoCommand \notin [from : 0..SpaceEnd, size : 1..SpaceEnd]
\* Without a hash the transport is trusted.
ASSUME HonestAssumption == Hashes \in BOOLEAN /\ Garbles \in BOOLEAN /\ (Garbles => Hashes)

VARIABLES flash,     \* content of every sector
          rtc,       \* eboot's command in RTC memory
          pc,        \* where the processor is
          running,   \* the sketch that runs, or ran last
          offered,   \* the server's current release
          img,       \* the image being received or copied
          start,     \* _startAddress, later args[0] of the command
          size,      \* _size, later args[2]
          at,        \* sectors written
          intact,    \* what was received is what was sent
          long       \* the body is longer than its Content-Length

vars   == <<flash, rtc, pc, running, offered, img, start, size, at, intact, long>>
update == <<img, start, size, at, intact, long>>

Sectors   == 0..(FlashEnd - 1)
FsSectors == SpaceEnd..(FlashEnd - 1)
Copying   == pc \in {"copyErase", "copyWrite"}
Loading   == {"eboot", "copyErase", "copyWrite"}
Receiving == {"read", "write", "end", "staged"}

\* What a sector may hold.
Parts    == UNION {{<<m, i>> : i \in 0..(SizeOf[m] - 1)} : m \in Images}
Contents == Parts \cup {Erased, FileData, Damaged}

TypeOK ==
  /\ flash \in [Sectors -> Contents]
  /\ rtc \in [from : 0..SpaceEnd, size : 1..SpaceEnd] \cup {NoCommand}
  /\ pc \in Loading \cup Receiving \cup {"setup", "loop"}
  /\ running \in Images
  /\ offered \in Images
  /\ img \in Images \cup {NoImage}
  /\ start \in 0..SpaceEnd
  /\ size \in 0..SpaceEnd
  /\ at \in 0..FlashEnd
  /\ intact \in BOOLEAN
  /\ long \in BOOLEAN

\* Image m lies at address a, from its i-th sector on.
LiesAt(m, a, i) == \A j \in i..(SizeOf[m] - 1) : flash[a + j] = <<m, j>>
Whole(m) == LiesAt(m, 0, 0)

Init ==
  /\ running \in Images
  /\ flash = [s \in Sectors |-> IF s < SizeOf[running] THEN <<running, s>>
                                ELSE IF s < SpaceEnd THEN Erased ELSE FileData]
  /\ rtc = NoCommand
  /\ pc = "eboot"
  /\ offered \in Images
  /\ img = NoImage /\ start = 0 /\ size = 0 /\ at = 0
  /\ intact = TRUE /\ long = FALSE

Goto(point) == pc' = point
Put(sector, content) == flash' = [flash EXCEPT ![sector] = content]

\* Nothing of the update is left in RAM.
NoUpdater == /\ img' = NoImage /\ start' = 0 /\ size' = 0 /\ at' = 0
             /\ intact' = TRUE /\ long' = FALSE
-----------------------------------------------------------------------------
(***************************************************************************)
(* eboot's main: a command is cleared, then obeyed.                        *)
(***************************************************************************)
\* Mutant: the command stays until the next power cycle.
KeepCommand == rtc' = rtc

ClearCommand == rtc' = NoCommand

StartCopy ==
  /\ pc = "eboot" /\ rtc # NoCommand
  /\ ClearCommand
  /\ start' = rtc.from /\ size' = rtc.size /\ at' = 0
  /\ Goto("copyErase")
  /\ UNCHANGED <<flash, running, offered, img, intact, long>>

CopyErase ==
  /\ pc = "copyErase" /\ at < size
  /\ Put(at, Erased)
  /\ Goto("copyWrite")
  /\ UNCHANGED <<rtc, running, offered, update>>

CopyWrite ==
  /\ pc = "copyWrite"
  /\ Put(at, flash[start + at])
  /\ at' = at + 1
  /\ Goto("copyErase")
  /\ UNCHANGED <<rtc, running, offered, img, start, size, intact, long>>

\* load_app_from_flash_raw; what it finds is run, and if that is no whole
\* sketch the device comes back here.
Load ==
  /\ IF \E m \in Images : Whole(m)
     THEN running' \in {m \in Images : Whole(m)} /\ Goto("setup")
     ELSE Goto("eboot") /\ UNCHANGED running
  /\ NoUpdater
  /\ UNCHANGED <<flash, rtc, offered>>

LoadSketch == pc = "eboot" /\ rtc = NoCommand /\ Load
CopyDone   == pc = "copyErase" /\ at = size /\ Load

\* A flash operation fails: software reset.
CopyFails ==
  /\ Copying /\ ~(pc = "copyErase" /\ at = size)
  /\ Put(at, Erased) \/ UNCHANGED flash
  /\ Goto("eboot")
  /\ NoUpdater
  /\ UNCHANGED <<rtc, running, offered>>
-----------------------------------------------------------------------------
(***************************************************************************)
(* checkUpdates: the request, and Update.begin.                            *)
(***************************************************************************)
\* Mutant: only the new image is asked to fit.
FitsAlone(m) == SizeOf[m] <= SpaceEnd

\* Mutant: the sum must stay below the space.
FitsLoosely(m) == SpaceEnd - SizeOf[m] > SizeOf[running]

Fits(m) == SpaceEnd - SizeOf[m] >= SizeOf[running]

\* Mutants: the end of the space is a sector too far; it is the address that
\* the file system is mapped to, not the one it has in the flash.
StartBeyond(m) == SpaceEnd - SizeOf[m] + 1
StartMapped(m) == FlashEnd + SpaceEnd - SizeOf[m]

StartFor(m) == SpaceEnd - SizeOf[m]

\* No answer, an error, or an answer without a size.
CheckFails == pc = "setup" /\ Goto("loop")
              /\ UNCHANGED <<flash, rtc, running, offered, update>>

\* The server knows the version from the request.
NoUpdates == pc = "setup" /\ offered = running /\ Goto("loop")
             /\ UNCHANGED <<flash, rtc, running, offered, update>>

NoSpace == pc = "setup" /\ offered # running /\ ~Fits(offered) /\ Goto("loop")
           /\ UNCHANGED <<flash, rtc, running, offered, update>>

BeginUpdate ==
  /\ pc = "setup" /\ offered # running /\ Fits(offered)
  /\ img' = offered
  /\ size' = SizeOf[offered]
  /\ start' = StartFor(offered)
  /\ at' = 0
  /\ intact' = TRUE
  /\ long' \in BOOLEAN
  /\ Goto("read")
  /\ UNCHANGED <<flash, rtc, running, offered>>
-----------------------------------------------------------------------------
(***************************************************************************)
(* Update.writeStream and Update.end.                                      *)
(***************************************************************************)
\* The SDK's flash driver refuses an address beyond the chip.
InFlash == start + at < FlashEnd

\* A sector's worth of data has come; _writeBuffer erases, then yields.
EraseSector ==
  /\ pc = "read" /\ InFlash
  /\ Put(start + at, Erased)
  /\ Goto("write")
  /\ UNCHANGED <<rtc, running, offered, update>>

\* A buffer with bytes from beyond the announced size misses the end, and
\* the loop goes on behind it.
WriteSector ==
  /\ pc = "write"
  /\ \E ok \in {TRUE, ~Garbles} :
       /\ Put(start + at, IF at < size /\ ok THEN <<img, at>> ELSE Damaged)
       /\ intact' = (intact /\ ok)
  /\ at' = at + 1
  /\ \/ at + 1 # size /\ Goto("read")
     \/ at + 1 = size /\ Goto("end")
     \/ at + 1 = size /\ long /\ Goto("read")
  /\ UNCHANGED <<rtc, running, offered, img, start, size, long>>

GiveUp == /\ Goto("loop") /\ NoUpdater
          /\ UNCHANGED <<rtc, running, offered>>

\* Two reads in a row without a byte, or a first byte that is not 0xE9.
ReadFails == pc = "read" /\ GiveUp /\ UNCHANGED flash

FlashFails == /\ \/ pc = "read" /\ InFlash /\ Put(start + at, Erased)
                 \/ pc \in {"read", "write"} /\ UNCHANGED flash
              /\ GiveUp

\* Mutant: the hash is not compared.
Unchecked == TRUE

HashMatches == Hashes => intact

EndUpdate ==
  /\ pc = "end" /\ HashMatches
  /\ rtc' = [from |-> start, size |-> size]
  /\ Goto("staged")
  /\ UNCHANGED <<flash, running, offered, update>>

\* The hash differs, or the first bytes cannot be read back.
EndFails == pc = "end" /\ GiveUp /\ UNCHANGED flash
-----------------------------------------------------------------------------
(***************************************************************************)
(* Restarts, power, and the server.                                        *)
(***************************************************************************)
\* RAM is lost; img goes on naming the image of a pending command.
BootAgain == /\ Goto("eboot")
             /\ img' = IF rtc' = NoCommand THEN NoImage ELSE img
             /\ start' = 0 /\ size' = 0 /\ at' = 0 /\ intact' = TRUE /\ long' = FALSE
             /\ UNCHANGED <<flash, running, offered>>

Restart    == pc = "staged" /\ UNCHANGED rtc /\ BootAgain
SysRestart == pc = "loop" /\ UNCHANGED rtc /\ BootAgain
HardReset  == UNCHANGED rtc /\ BootAgain
PowerLoss  == rtc' = NoCommand /\ BootAgain

Release == /\ offered' \in Images
           /\ UNCHANGED <<flash, rtc, pc, running, update>>

Device == \/ StartCopy \/ CopyErase \/ CopyWrite \/ CopyDone \/ LoadSketch
          \/ NoUpdates \/ NoSpace \/ BeginUpdate
          \/ EraseSector \/ WriteSector \/ EndUpdate \/ Restart

Disturbance == \/ CopyFails \/ CheckFails \/ ReadFails \/ FlashFails \/ EndFails
               \/ HardReset \/ PowerLoss \/ Release

Next == Device \/ Disturbance \/ SysRestart

Spec == Init /\ [][Next]_vars

\* The processor runs: a step the device can take by itself is taken.
FairSpec == Spec /\ WF_vars(Device)
-----------------------------------------------------------------------------
(***************************************************************************)
(* Properties.                                                             *)
(***************************************************************************)
\* While a sketch runs, all of it is in the flash it runs from, although the
\* next image is written below the file system at the same time (the check
\* in UpdaterClass::begin, Updater.cpp lines 64-85).
SketchIntact == pc \notin Loading => Whole(running)

\* A command in RTC memory, whenever it is read, points at a whole image
\* with the size of that image (UpdaterClass::end, lines 137-202).
StagedWhole ==
  rtc # NoCommand => \E m \in Images : rtc.size = SizeOf[m] /\ LiesAt(m, rtc.from, 0)

\* An update touches no sector of the file system, unless the server sends
\* more bytes than it has announced (writeStream reads whole buffers).
FileSystemKept ==
  [][\A s \in FsSectors : flash'[s] # flash[s] => long]_vars

InstalledImage ==
  IF \E m \in Images : Whole(m) THEN CHOOSE m \in Images : Whole(m) ELSE NoImage

Promise == INSTANCE SafeUpdate WITH
  installed <- IF Copying THEN running ELSE InstalledImage,
  verified  <- IF Copying \/ rtc # NoCommand THEN img ELSE NoImage,
  copying   <- Copying

\* The sketch is replaced by whole verified images only, and is lost only by
\* an interruption of eboot's copy, which never begins twice by one command.
\* The copy goes upwards, so it is right where both areas overlap too.
KeepsPromise == Promise!Spec

\* A restart on request is no disturbance, nor is a check that finds nothing.
Calm == <>[][Device \/ SysRestart]_vars /\ <>[](intact /\ ~long)
Room == <>[](offered = running \/ SizeOf[offered] + SizeOf[running] <= SpaceEnd)

Lost == pc = "eboot" /\ rtc = NoCommand /\ \A m \in Images : ~Whole(m)

\* When disturbances end, a release that fits beside the running sketch is
\* what a device that is restarted again and again comes to run, unless an
\* earlier interruption has left it without a sketch.
UpdateArrives ==
  Calm /\ Room /\ []<>(pc = "eboot") => <>[](running = offered \/ Lost)
=============================================================================
