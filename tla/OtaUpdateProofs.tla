-------------------------- MODULE OtaUpdateProofs ---------------------------
(***************************************************************************)
(* Theorems about the update, for any images of any sizes that fit the     *)
(* flash, any flash, and a server with or without hashes.                  *)
(***************************************************************************)
EXTENDS OtaUpdate, TLAPS

\* Image m in the flash f, from address a and from its i-th sector on.
LiesIn(f, m, a, i) == \A j \in i..(SizeOf[m] - 1) : f[a + j] = <<m, j>>

ImageIn(f) == IF \E m \in Images : LiesIn(f, m, 0, 0)
              THEN CHOOSE m \in Images : LiesIn(f, m, 0, 0) ELSE NoImage

LEMMA SizeFact ==
  ASSUME NEW m \in Images
  PROVE  SizeOf[m] \in Nat /\ SizeOf[m] >= 1 /\ SizeOf[m] <= SpaceEnd
BY SizesAssumption

\* The first sector names the image.
LEMMA OneImage ==
  ASSUME NEW f, NEW m \in Images, LiesIn(f, m, 0, 0)
  PROVE  f[0] = <<m, 0>> /\ ImageIn(f) = m
<1>1. \A n \in Images : LiesIn(f, n, 0, 0) => f[0] = <<n, 0>>
  BY SizeFact DEF LiesIn
<1>2. \A n \in Images : LiesIn(f, n, 0, 0) => n = m
  BY <1>1
<1> QED BY <1>1, <1>2 DEF ImageIn

LEMMA PartFact ==
  ASSUME NEW m \in Images, NEW j \in 0..(SizeOf[m] - 1)
  PROVE  <<m, j>> \in Contents
BY DEF Contents, Parts

LEMMA ContentFact == Erased \in Contents /\ Damaged \in Contents /\ FileData \in Contents
BY DEF Contents
-----------------------------------------------------------------------------
(***************************************************************************)
(* The inductive invariant: what holds at each point of the download and   *)
(* of the copy.                                                            *)
(***************************************************************************)
\* A pending command: the image is where the command says, above the sketch.
Pending ==
  rtc # NoCommand =>
    /\ pc \in {"staged", "eboot"}
    /\ img \in Images
    /\ rtc.from = SpaceEnd - SizeOf[img] /\ rtc.size = SizeOf[img]
    /\ rtc.from >= SizeOf[running]
    /\ LiesIn(flash, img, rtc.from, 0)
    /\ Whole(running)

\* A download: it fills the sectors from start upwards, beyond the sketch.
Download ==
  pc \in Receiving =>
    /\ img \in Images
    /\ size = SizeOf[img] /\ start = SpaceEnd - size
    /\ start >= SizeOf[running]
    /\ start + at <= FlashEnd
    /\ pc = "write" => start + at < FlashEnd
    /\ pc \in {"read", "write"} => at < size \/ long
    /\ pc \in {"end", "staged"} => at = size
    /\ Garbles \/ intact
    /\ intact => \A j \in 0..(size - 1) : j < at => flash[start + j] = <<img, j>>

\* A copy: what lies below at is new, what is still to be read is untouched.
Copy ==
  Copying =>
    /\ img \in Images
    /\ size = SizeOf[img] /\ start = SpaceEnd - size
    /\ start >= 1
    /\ at <= size
    /\ pc = "copyWrite" => at < size
    /\ \A j \in 0..(size - 1) : j < at => flash[j] = <<img, j>>
    /\ LiesIn(flash, img, start, at)
    /\ pc = "copyErase" /\ at = 0 => Whole(running)
    /\ pc = "copyWrite" /\ at = 0 => flash[0] = Erased

IInv == TypeOK /\ SketchIntact /\ Pending /\ Download /\ Copy
-----------------------------------------------------------------------------
\* The type invariant in two parts, of which the second is Boolean.
Data == /\ flash \in [Sectors -> Contents]
        /\ rtc \in [from : 0..SpaceEnd, size : 1..SpaceEnd] \cup {NoCommand}
        /\ pc \in Loading \cup Receiving \cup {"setup", "loop"}
        /\ running \in Images /\ offered \in Images /\ img \in Images \cup {NoImage}
        /\ start \in 0..SpaceEnd /\ size \in 0..SpaceEnd /\ at \in 0..FlashEnd

Flags == intact \in BOOLEAN /\ long \in BOOLEAN

LEMMA Initial == Init => IInv
<1> SUFFICES ASSUME Init PROVE IInv
  OBVIOUS
<1>1. running \in Images /\ SizeOf[running] \in Nat /\ SizeOf[running] >= 1
      /\ SizeOf[running] <= SpaceEnd
  BY SizeFact DEF Init
<1>2. flash \in [Sectors -> Contents]
  <2>1. \A s \in Sectors : s < SizeOf[running] => s \in 0..(SizeOf[running] - 1)
    BY <1>1, FlashAssumption DEF Sectors
  <2>2. \A s \in Sectors : s < SizeOf[running] => <<running, s>> \in Contents
    BY <2>1, <1>1, PartFact
  <2> QED BY <2>2, ContentFact DEF Init
<1>3. TypeOK
  <2>1. Data
    BY <1>1, <1>2, FlashAssumption DEF Init, Data, Loading
  <2>2. Flags
    BY DEF Init, Flags
  <2> QED BY <2>1, <2>2 DEF TypeOK, Data, Flags
<1>4. SketchIntact /\ Pending
  BY DEF Init, SketchIntact, Loading, Pending
<1>5. Download /\ Copy
  BY DEF Init, Download, Copy, Receiving, Copying
<1> QED BY <1>3, <1>4, <1>5 DEF IInv

\* The ways back to the boot loader.
Boots == BootAgain /\ (rtc' = rtc \/ rtc' = NoCommand)

LEMMA BootsFact == Restart \/ SysRestart \/ HardReset \/ PowerLoss => Boots
BY DEF Restart, SysRestart, HardReset, PowerLoss, Boots

LEMMA BootsKeeps == ASSUME IInv, Boots PROVE IInv'
<1> USE DEF Boots, BootAgain, Goto
<1>1. TypeOK'
  <2>1. Data'
    BY FlashAssumption DEF IInv, TypeOK, Data, Loading
  <2>2. Flags'
    BY DEF Flags
  <2> QED BY <2>1, <2>2 DEF TypeOK, Data, Flags
<1>2. SketchIntact' /\ Download' /\ Copy'
  BY DEF SketchIntact, Download, Copy, Loading, Receiving, Copying
<1>3. Pending'
  <2> SUFFICES ASSUME rtc' # NoCommand PROVE Pending'
    BY DEF Pending
  <2>1. rtc # NoCommand /\ rtc' = rtc /\ img' = img /\ UNCHANGED <<flash, running>>
    OBVIOUS
  <2> QED BY <2>1 DEF IInv, Pending, LiesIn, Whole, LiesAt
<1> QED BY <1>1, <1>2, <1>3 DEF IInv

\* Giving up: the sketch is where it was.
LEMMA GiveUpKeeps ==
  ASSUME IInv, GiveUp, Whole(running)', flash' \in [Sectors -> Contents],
         pc \in {"read", "write", "end"}
  PROVE  IInv'
<1> USE DEF GiveUp, Goto, NoUpdater
<1>1. TypeOK'
  <2>1. Data'
    BY FlashAssumption DEF IInv, TypeOK, Data
  <2>2. Flags'
    BY DEF Flags
  <2> QED BY <2>1, <2>2 DEF TypeOK, Data, Flags
<1>2. rtc = NoCommand
  BY DEF IInv, Pending
<1>3. Pending'
  BY <1>2 DEF Pending
<1>4. Download' /\ Copy' /\ SketchIntact'
  BY DEF SketchIntact, Download, Copy, Receiving, Copying
<1> QED BY <1>1, <1>3, <1>4 DEF IInv

\* What is written above the sketch leaves the sketch whole.
LEMMA AboveSketch ==
  ASSUME TypeOK, Whole(running), NEW s \in Sectors, s >= SizeOf[running],
         NEW c, Put(s, c), running' = running
  PROVE  Whole(running)'
<1>1. SizeOf[running] \in Nat /\ SizeOf[running] <= SpaceEnd
  BY SizeFact DEF TypeOK
<1>2. \A j \in 0..(SizeOf[running] - 1) : j \in Sectors /\ j # s /\ 0 + j = j
  BY <1>1, FlashAssumption DEF Sectors
<1>3. \A j \in 0..(SizeOf[running] - 1) : flash'[0 + j] = flash[0 + j]
  BY <1>1, <1>2 DEF Put, TypeOK
<1> QED BY <1>3 DEF Whole, LiesAt

LEMMA PutType ==
  ASSUME TypeOK, NEW s \in Sectors, NEW c \in Contents, Put(s, c)
  PROVE  flash' \in [Sectors -> Contents]
BY DEF TypeOK, Put

\* Where a download writes.
LEMMA WriteSite ==
  ASSUME IInv, pc \in {"read", "write"}, InFlash
  PROVE  start + at \in Sectors /\ start + at >= SizeOf[running] /\ Whole(running)
         /\ start + at >= start
<1>1. Whole(running) /\ SizeOf[running] \in Nat
  BY SizeFact DEF IInv, SketchIntact, TypeOK, Loading
<1> QED BY <1>1, FlashAssumption DEF IInv, TypeOK, Download, Receiving, InFlash, Sectors
-----------------------------------------------------------------------------
(***************************************************************************)
(* One lemma per action: the boot loader.                                  *)
(***************************************************************************)
LEMMA StartCopyKeeps == ASSUME IInv, StartCopy PROVE IInv'
<1> USE DEF StartCopy, ClearCommand, Goto
<1>1. rtc.from = SpaceEnd - SizeOf[img] /\ rtc.size = SizeOf[img] /\ img \in Images
      /\ rtc.from >= SizeOf[running] /\ Whole(running) /\ LiesIn(flash, img, rtc.from, 0)
  BY DEF IInv, Pending
<1>2. SizeOf[img] \in Nat /\ SizeOf[img] >= 1 /\ SizeOf[img] <= SpaceEnd
      /\ SizeOf[running] \in Nat /\ SizeOf[running] >= 1
  BY <1>1, SizeFact DEF IInv, TypeOK
<1>3. TypeOK'
  <2>1. Data'
    BY <1>1, <1>2, FlashAssumption DEF IInv, TypeOK, Data, Loading
  <2>2. Flags'
    BY DEF IInv, TypeOK, Flags
  <2> QED BY <2>1, <2>2 DEF TypeOK, Data, Flags
<1>4. SketchIntact' /\ Pending' /\ Download'
  BY DEF SketchIntact, Pending, Download, Loading, Receiving
<1>5. Copy'
  BY <1>1, <1>2, FlashAssumption DEF Copy, Copying, LiesIn, Whole, LiesAt
<1> QED BY <1>3, <1>4, <1>5 DEF IInv

\* What a copy is about to touch.
LEMMA CopySite ==
  ASSUME IInv, Copying, at < size
  PROVE  /\ img \in Images /\ size = SizeOf[img] /\ size \in Nat /\ start \in Nat
         /\ at \in Nat /\ at \in Sectors /\ start >= 1 /\ start = SpaceEnd - size
         /\ rtc = NoCommand
<1>1. img \in Images /\ size = SizeOf[img] /\ start = SpaceEnd - size /\ start >= 1
  BY DEF IInv, Copy
<1>2. size \in Nat /\ size <= SpaceEnd /\ start \in Nat /\ at \in Nat
  BY <1>1, SizeFact, FlashAssumption DEF IInv, TypeOK
<1>3. rtc = NoCommand
  BY DEF IInv, Pending, Copying
<1> QED BY <1>1, <1>2, <1>3, FlashAssumption DEF Sectors

LEMMA CopyEraseKeeps == ASSUME IInv, CopyErase PROVE IInv'
<1> USE DEF CopyErase, Goto, update
<1>1. Copying
  BY DEF Copying
<1>2. /\ img \in Images /\ size = SizeOf[img] /\ size \in Nat /\ start \in Nat
      /\ at \in Nat /\ at \in Sectors /\ start >= 1 /\ start = SpaceEnd - size
      /\ rtc = NoCommand
  BY <1>1, CopySite
<1>3. TypeOK'
  <2>1. flash' \in [Sectors -> Contents]
    BY <1>2, PutType, ContentFact DEF IInv
  <2>2. Data'
    BY <2>1 DEF IInv, TypeOK, Data, Loading
  <2>3. Flags'
    BY DEF IInv, TypeOK, Flags
  <2> QED BY <2>2, <2>3 DEF TypeOK, Data, Flags
<1>4. SketchIntact' /\ Pending' /\ Download'
  BY <1>2 DEF SketchIntact, Pending, Download, Loading, Receiving
<1>5. Copy'
  <2>1. flash'[at] = Erased /\ \A s \in Sectors : s # at => flash'[s] = flash[s]
    BY <1>2 DEF IInv, TypeOK, Put
  <2>2. \A j \in 0..(size - 1) : j \in Sectors /\ start + j \in Sectors
    BY <1>2, FlashAssumption DEF Sectors
  <2>3. \A j \in 0..(size - 1) : j < at => flash'[j] = <<img, j>>
    BY <2>1, <2>2, <1>1, <1>2 DEF IInv, Copy
  <2>4. LiesIn(flash', img, start, at)
    <3>1. LiesIn(flash, img, start, at)
      BY <1>1 DEF IInv, Copy
    <3> QED BY <3>1, <2>1, <2>2, <1>2 DEF LiesIn
  <2>5. at = 0 => flash'[0] = Erased
    BY <2>1
  <2> QED BY <2>3, <2>4, <2>5, <1>1, <1>2 DEF IInv, Copy, Copying
<1> QED BY <1>3, <1>4, <1>5 DEF IInv

LEMMA CopyWriteKeeps == ASSUME IInv, CopyWrite PROVE IInv'
<1> USE DEF CopyWrite, Goto
<1>1. Copying /\ at < size
  BY DEF Copying, IInv, Copy
<1>2. /\ img \in Images /\ size = SizeOf[img] /\ size \in Nat /\ start \in Nat
      /\ at \in Nat /\ at \in Sectors /\ start >= 1 /\ start = SpaceEnd - size
      /\ rtc = NoCommand
  BY <1>1, CopySite
<1>3. flash[start + at] = <<img, at>>
  BY <1>1, <1>2 DEF IInv, Copy, LiesIn
<1>4. TypeOK'
  <2>1. at \in 0..(SizeOf[img] - 1)
    BY <1>1, <1>2
  <2>2. flash' \in [Sectors -> Contents]
    BY <1>2, <1>3, <2>1, PutType, PartFact DEF IInv
  <2>3. Data'
    BY <2>2, <1>1, <1>2, FlashAssumption DEF IInv, TypeOK, Data, Loading
  <2>4. Flags'
    BY DEF IInv, TypeOK, Flags
  <2> QED BY <2>3, <2>4 DEF TypeOK, Data, Flags
<1>5. SketchIntact' /\ Pending' /\ Download'
  BY <1>2 DEF SketchIntact, Pending, Download, Loading, Receiving
<1>6. Copy'
  <2>1. flash'[at] = <<img, at>> /\ \A s \in Sectors : s # at => flash'[s] = flash[s]
    BY <1>2, <1>3 DEF IInv, TypeOK, Put
  <2>2. \A j \in 0..(size - 1) : j \in Sectors /\ start + j \in Sectors
    BY <1>2, FlashAssumption DEF Sectors
  <2>3. \A j \in 0..(size - 1) : j < at + 1 => flash'[j] = <<img, j>>
    BY <2>1, <2>2, <1>1, <1>2 DEF IInv, Copy
  <2>4. LiesIn(flash', img, start, at + 1)
    <3> SUFFICES ASSUME NEW j \in (at + 1)..(SizeOf[img] - 1)
                 PROVE  flash'[start + j] = <<img, j>>
      BY DEF LiesIn
    <3>1. j \in at..(SizeOf[img] - 1) /\ j \in 0..(size - 1) /\ start + j # at
      BY <1>2
    <3>2. flash[start + j] = <<img, j>>
      BY <1>1, <3>1 DEF IInv, Copy, LiesIn
    <3>3. flash'[start + j] = flash[start + j]
      BY <3>1, <2>1, <2>2
    <3> QED BY <3>2, <3>3
  <2> QED BY <2>3, <2>4, <1>1, <1>2 DEF IInv, Copy, Copying
<1> QED BY <1>4, <1>5, <1>6 DEF IInv

LEMMA LoadKeeps == ASSUME IInv, Load, rtc = NoCommand PROVE IInv'
<1> USE DEF Load, Goto, NoUpdater
<1>1. TypeOK'
  <2>1. Data'
    BY FlashAssumption DEF IInv, TypeOK, Data, Loading
  <2>2. Flags'
    BY DEF Flags
  <2> QED BY <2>1, <2>2 DEF TypeOK, Data, Flags
<1>2. SketchIntact'
  BY DEF SketchIntact, Loading, Whole, LiesAt
<1>3. Pending' /\ Download' /\ Copy'
  BY DEF Pending, Download, Copy, Receiving, Copying
<1> QED BY <1>1, <1>2, <1>3 DEF IInv

LEMMA CopyFailsKeeps == ASSUME IInv, CopyFails PROVE IInv'
<1> USE DEF CopyFails, Goto, NoUpdater
<1>1. at < size
  BY DEF Copying, IInv, Copy, TypeOK
<1>2. at \in Sectors /\ rtc = NoCommand
  BY <1>1, CopySite
<1>3. TypeOK'
  <2>1. flash' \in [Sectors -> Contents]
    BY <1>2, PutType, ContentFact DEF IInv, TypeOK
  <2>2. Data'
    BY <2>1, FlashAssumption DEF IInv, TypeOK, Data, Loading
  <2>3. Flags'
    BY DEF Flags
  <2> QED BY <2>2, <2>3 DEF TypeOK, Data, Flags
<1>4. SketchIntact' /\ Pending' /\ Download' /\ Copy'
  BY <1>2 DEF SketchIntact, Pending, Download, Copy, Loading, Receiving, Copying
<1> QED BY <1>3, <1>4 DEF IInv
-----------------------------------------------------------------------------
(***************************************************************************)
(* One lemma per action: the request and the download.                     *)
(***************************************************************************)
LEMMA CheckKeeps ==
  ASSUME IInv, CheckFails \/ NoUpdates \/ NoSpace PROVE IInv'
<1> USE DEF CheckFails, NoUpdates, NoSpace, Goto, update
<1>1. TypeOK'
  <2>1. Data'
    BY DEF IInv, TypeOK, Data
  <2>2. Flags'
    BY DEF IInv, TypeOK, Flags
  <2> QED BY <2>1, <2>2 DEF TypeOK, Data, Flags
<1>2. SketchIntact'
  BY DEF IInv, SketchIntact, Loading, Whole, LiesAt
<1>3. Pending' /\ Download' /\ Copy'
  BY DEF IInv, Pending, Download, Copy, Receiving, Copying
<1> QED BY <1>1, <1>2, <1>3 DEF IInv

LEMMA BeginUpdateKeeps == ASSUME IInv, BeginUpdate PROVE IInv'
<1> USE DEF BeginUpdate, Goto
<1>1. /\ offered \in Images /\ SizeOf[offered] \in Nat /\ SizeOf[offered] >= 1
      /\ SizeOf[offered] <= SpaceEnd /\ SizeOf[running] \in Nat
  BY SizeFact DEF IInv, TypeOK
<1>2. TypeOK'
  <2>1. Data'
    BY <1>1, FlashAssumption DEF IInv, TypeOK, Data, Receiving, StartFor
  <2>2. Flags'
    BY DEF Flags
  <2> QED BY <2>1, <2>2 DEF TypeOK, Data, Flags
<1>3. SketchIntact'
  BY DEF IInv, SketchIntact, Loading, Whole, LiesAt
<1>4. Pending' /\ Copy'
  BY DEF IInv, Pending, Copy, Copying
<1>5. Download'
  BY <1>1, FlashAssumption DEF Download, Fits, StartFor
<1> QED BY <1>2, <1>3, <1>4, <1>5 DEF IInv

LEMMA EraseSectorKeeps == ASSUME IInv, EraseSector PROVE IInv'
<1> USE DEF EraseSector, Goto, update
<1>1. start + at \in Sectors /\ start + at >= SizeOf[running] /\ Whole(running)
  BY WriteSite
<1>2. TypeOK'
  <2>1. flash' \in [Sectors -> Contents]
    BY <1>1, PutType, ContentFact DEF IInv
  <2>2. Data'
    BY <2>1 DEF IInv, TypeOK, Data, Receiving
  <2>3. Flags'
    BY DEF IInv, TypeOK, Flags
  <2> QED BY <2>2, <2>3 DEF TypeOK, Data, Flags
<1>3. SketchIntact'
  BY <1>1, AboveSketch DEF IInv, SketchIntact
<1>4. Pending' /\ Copy'
  BY DEF IInv, Pending, Copy, Copying
<1>5. Download'
  <2>1. Download /\ pc \in Receiving
    BY DEF IInv, Receiving
  <2>2. /\ size \in Nat /\ start \in Nat /\ at \in Nat
        /\ \A j \in 0..(size - 1) : start + j \in Sectors
    BY <2>1, FlashAssumption DEF IInv, TypeOK, Download, Sectors
  <2>3. \A s \in Sectors : s # start + at => flash'[s] = flash[s]
    BY <1>1 DEF IInv, TypeOK, Put
  <2>4. \A j \in 0..(size - 1) : j < at => flash'[start + j] = flash[start + j]
    BY <2>2, <2>3
  <2>5. intact => \A j \in 0..(size - 1) : j < at => flash'[start + j] = <<img, j>>
    BY <2>1, <2>4 DEF Download
  <2> QED BY <2>1, <2>5 DEF Download, InFlash
<1> QED BY <1>2, <1>3, <1>4, <1>5 DEF IInv

LEMMA WriteSectorKeeps == ASSUME IInv, WriteSector PROVE IInv'
<1> USE DEF WriteSector, Goto
<1>1. PICK ok \in {TRUE, ~Garbles} :
        /\ Put(start + at, IF at < size /\ ok THEN <<img, at>> ELSE Damaged)
        /\ intact' = (intact /\ ok)
  OBVIOUS
<1>2. Download /\ pc \in Receiving
  BY DEF IInv, Receiving
<1>3. start + at \in Sectors /\ start + at >= SizeOf[running] /\ Whole(running)
  <2>1. InFlash
    BY <1>2 DEF Download, InFlash
  <2> QED BY <2>1, WriteSite
<1>4. /\ size = SizeOf[img] /\ img \in Images /\ size \in Nat /\ start \in Nat /\ at \in Nat
      /\ start = SpaceEnd - size
      /\ \A j \in 0..(size - 1) : start + j \in Sectors
      /\ start + (at + 1) <= FlashEnd
  BY <1>2, FlashAssumption DEF IInv, TypeOK, Download, Sectors
<1>5. TypeOK'
  <2>1. at < size => <<img, at>> \in Contents
    BY <1>4, PartFact
  <2>2. flash' \in [Sectors -> Contents]
    BY <1>1, <1>3, <2>1, PutType, ContentFact DEF IInv
  <2>3. Data'
    BY <2>2, <1>4, FlashAssumption DEF IInv, TypeOK, Data, Receiving
  <2>4. Flags'
    BY <1>1 DEF IInv, TypeOK, Flags
  <2> QED BY <2>3, <2>4 DEF TypeOK, Data, Flags
<1>6. SketchIntact'
  BY <1>1, <1>3, AboveSketch DEF IInv, SketchIntact
<1>7. Pending' /\ Copy'
  BY DEF IInv, Pending, Copy, Copying
<1>8. Download'
  <2>1. \A s \in Sectors : s # start + at => flash'[s] = flash[s]
    BY <1>1, <1>3 DEF IInv, TypeOK, Put
  <2>2. \A j \in 0..(size - 1) : j < at => flash'[start + j] = flash[start + j]
    BY <1>4, <2>1
  <2>3. intact' => intact /\ ok
    BY <1>1
  <2>4. ASSUME intact', at < size PROVE flash'[start + at] = <<img, at>>
    BY <1>1, <1>3, <2>3, <2>4 DEF IInv, TypeOK, Put
  <2>5. intact' => \A j \in 0..(size - 1) : j < at + 1 => flash'[start + j] = <<img, j>>
    <3> SUFFICES ASSUME intact', NEW j \in 0..(size - 1), j < at + 1
                 PROVE  flash'[start + j] = <<img, j>>
      OBVIOUS
    <3>1. intact
      BY <2>3
    <3>2. CASE j = at
      <4>1. at < size
        BY <3>2, <1>4
      <4> QED BY <3>2, <4>1, <2>4
    <3>3. CASE j < at
      <4>1. flash[start + j] = <<img, j>>
        BY <3>1, <3>3, <1>2 DEF Download
      <4> QED BY <4>1, <3>3, <2>2
    <3> QED BY <3>2, <3>3, <1>4
  <2>6. Garbles \/ intact'
    BY <1>1, <1>2, HonestAssumption DEF Download
  <2>7. pc' = "read" => at + 1 < size \/ long
    BY <1>2, <1>4 DEF Download
  <2>8. pc' \in {"read", "end"} /\ (pc' = "end" => at + 1 = size) /\ at' = at + 1
    OBVIOUS
  <2>9. UNCHANGED <<img, size, start, running, long>>
    OBVIOUS
  <2> QED BY <2>5, <2>6, <2>7, <2>8, <2>9, <1>2, <1>4 DEF Download
<1> QED BY <1>5, <1>6, <1>7, <1>8 DEF IInv

LEMMA FailsKeeps ==
  ASSUME IInv, ReadFails \/ FlashFails \/ EndFails PROVE IInv'
<1>1. Whole(running) /\ pc \in {"read", "write", "end"} /\ GiveUp
  BY DEF IInv, SketchIntact, Loading, ReadFails, FlashFails, EndFails
<1>2. CASE UNCHANGED flash
  <2>1. Whole(running)' /\ flash' \in [Sectors -> Contents]
    BY <1>1, <1>2 DEF IInv, TypeOK, Whole, LiesAt, GiveUp
  <2> QED BY <2>1, <1>1, GiveUpKeeps
<1>3. CASE pc = "read" /\ InFlash /\ Put(start + at, Erased)
  <2>1. start + at \in Sectors /\ start + at >= SizeOf[running]
    BY <1>3, WriteSite
  <2>2. Whole(running)'
    BY <1>1, <1>3, <2>1, AboveSketch DEF IInv, GiveUp
  <2>3. flash' \in [Sectors -> Contents]
    BY <1>3, <2>1, PutType, ContentFact DEF IInv
  <2> QED BY <2>2, <2>3, <1>1, GiveUpKeeps
<1> QED BY <1>2, <1>3 DEF ReadFails, FlashFails, EndFails

LEMMA EndUpdateKeeps == ASSUME IInv, EndUpdate PROVE IInv'
<1> USE DEF EndUpdate, Goto, update
<1>1. Download /\ pc \in Receiving
  BY DEF IInv, Receiving
<1>2. intact
  BY <1>1, HonestAssumption DEF HashMatches, Download
<1>3. /\ size = SizeOf[img] /\ img \in Images /\ size \in Nat /\ size >= 1 /\ at = size
      /\ start = SpaceEnd - size /\ start >= SizeOf[running] /\ size <= SpaceEnd /\ start \in Nat
  BY <1>1, SizeFact DEF IInv, TypeOK, Download
<1>4. TypeOK'
  <2>1. Data'
    BY <1>3, FlashAssumption DEF IInv, TypeOK, Data, Receiving
  <2>2. Flags'
    BY DEF IInv, TypeOK, Flags
  <2> QED BY <2>1, <2>2 DEF TypeOK, Data, Flags
<1>5. LiesIn(flash, img, start, 0)
  <2>1. \A j \in 0..(size - 1) : j < at => flash[start + j] = <<img, j>>
    BY <1>1, <1>2 DEF Download
  <2>2. \A j \in 0..(SizeOf[img] - 1) : j \in 0..(size - 1) /\ j < at
    BY <1>3
  <2> QED BY <2>1, <2>2, Zenon DEF LiesIn
<1>6. Whole(running)
  BY DEF IInv, SketchIntact, Loading
<1>7. SketchIntact' /\ Copy'
  BY <1>6 DEF SketchIntact, Copy, Copying, Whole, LiesAt
<1>8. Pending'
  BY <1>3, <1>5, <1>6 DEF Pending, Whole, LiesAt, LiesIn
<1>9. Download'
  BY <1>1, <1>3 DEF Download
<1> QED BY <1>4, <1>7, <1>8, <1>9 DEF IInv
-----------------------------------------------------------------------------
LEMMA Stutters == ASSUME IInv, UNCHANGED vars PROVE IInv'
<1> USE DEF vars, update
<1>1. TypeOK'
  <2>1. Data'
    BY DEF IInv, TypeOK, Data
  <2>2. Flags'
    BY DEF IInv, TypeOK, Flags
  <2> QED BY <2>1, <2>2 DEF TypeOK, Data, Flags
<1>2. SketchIntact' /\ Pending'
  BY DEF IInv, SketchIntact, Pending, Whole, LiesAt, LiesIn
<1>3. Download'
  BY DEF IInv, Download
<1>4. Copy'
  BY DEF IInv, Copy, Copying, Whole, LiesAt, LiesIn
<1> QED BY <1>1, <1>2, <1>3, <1>4 DEF IInv

LEMMA ReleaseKeeps == ASSUME IInv, Release PROVE IInv'
<1> USE DEF Release, update
<1>1. TypeOK'
  <2>1. Data'
    BY DEF IInv, TypeOK, Data
  <2>2. Flags'
    BY DEF IInv, TypeOK, Flags
  <2> QED BY <2>1, <2>2 DEF TypeOK, Data, Flags
<1>2. SketchIntact' /\ Pending'
  BY DEF IInv, SketchIntact, Pending, Whole, LiesAt, LiesIn
<1>3. Download'
  BY DEF IInv, Download
<1>4. Copy'
  BY DEF IInv, Copy, Copying, Whole, LiesAt, LiesIn
<1> QED BY <1>1, <1>2, <1>3, <1>4 DEF IInv

LEMMA StepKeeps == IInv /\ [Next]_vars => IInv'
<1> SUFFICES ASSUME IInv, [Next]_vars PROVE IInv'
  OBVIOUS
<1>1. CASE StartCopy \/ CopyErase \/ CopyWrite
  BY <1>1, StartCopyKeeps, CopyEraseKeeps, CopyWriteKeeps
<1>2. CASE CopyDone \/ LoadSketch
  BY <1>2, LoadKeeps DEF CopyDone, LoadSketch, IInv, Pending
<1>3. CASE NoUpdates \/ NoSpace \/ CheckFails
  BY <1>3, CheckKeeps
<1>4. CASE BeginUpdate \/ EraseSector \/ WriteSector \/ EndUpdate
  BY <1>4, BeginUpdateKeeps, EraseSectorKeeps, WriteSectorKeeps, EndUpdateKeeps
<1>5. CASE CopyFails \/ ReadFails \/ FlashFails \/ EndFails
  BY <1>5, CopyFailsKeeps, FailsKeeps
<1>6. CASE Restart \/ SysRestart \/ HardReset \/ PowerLoss
  BY <1>6, BootsFact, BootsKeeps
<1>7. CASE Release \/ UNCHANGED vars
  BY <1>7, ReleaseKeeps, Stutters
<1> QED
  BY <1>1, <1>2, <1>3, <1>4, <1>5, <1>6, <1>7 DEF Next, Device, Disturbance

LEMMA Inductive == Spec => []IInv
BY Initial, StepKeeps, PTL DEF Spec

\* Types, for any images and any flash.
THEOREM UpdateTypeCorrect == Spec => []TypeOK
<1>1. IInv => TypeOK
  BY DEF IInv
<1> QED BY <1>1, Inductive, PTL

\* No download overwrites the running sketch (UpdaterClass::begin).
THEOREM SketchKept == Spec => []SketchIntact
<1>1. IInv => SketchIntact
  BY DEF IInv
<1> QED BY <1>1, Inductive, PTL

\* No command is ever left for less than a whole verified image.
THEOREM CommandsAreGood == Spec => []StagedWhole
<1>1. IInv => StagedWhole
  <2> SUFFICES ASSUME IInv, rtc # NoCommand PROVE StagedWhole
    BY DEF StagedWhole
  <2> QED BY DEF IInv, Pending, LiesIn, LiesAt, StagedWhole
<1> QED BY <1>1, Inductive, PTL

\* A step that changes the file system belongs to an over-long body.
LEMMA FileSystemStep ==
  IInv /\ [Next]_vars => [\A s \in FsSectors : flash'[s] # flash[s] => long]_vars
<1> SUFFICES ASSUME IInv, Next, NEW s \in FsSectors, flash'[s] # flash[s]
             PROVE  long
  OBVIOUS
<1>0. s \in Sectors /\ s >= SpaceEnd
  BY FlashAssumption DEF FsSectors, Sectors
<1>1. CASE CopyErase \/ CopyWrite \/ CopyFails
  <2>1. Copying /\ at < size
    BY <1>1 DEF CopyErase, CopyWrite, CopyFails, Copying, IInv, Copy, TypeOK
  <2>2. at \in Sectors /\ at < SpaceEnd
    BY <2>1, CopySite, FlashAssumption
  <2>3. (\E c : Put(at, c)) \/ flash' = flash
    BY <1>1 DEF CopyErase, CopyWrite, CopyFails
  <2> QED BY <1>0, <2>2, <2>3, FlashAssumption DEF Put, IInv, TypeOK
<1>2. CASE EraseSector \/ WriteSector \/ FlashFails
  <2>1. pc \in {"read", "write"} /\ Download /\ (flash' # flash => InFlash)
        /\ \E c : Put(start + at, c) \/ flash' = flash
    BY <1>2 DEF EraseSector, WriteSector, FlashFails, IInv, Download, InFlash, Receiving
  <2>2. s = start + at
    BY <1>0, <2>1, WriteSite DEF Put, IInv, TypeOK
  <2>3. at < size \/ long
    BY <2>1 DEF Download, Receiving
  <2>4. ~(at < size)
    BY <1>0, <2>1, <2>2, FlashAssumption DEF Download, Receiving, IInv, TypeOK
  <2> QED BY <2>3, <2>4
<1>3. CASE UNCHANGED flash
  BY <1>3
<1> QED
  BY <1>1, <1>2, <1>3 DEF Next, Device, Disturbance, StartCopy, LoadSketch, CopyDone,
     Load, CheckFails, NoUpdates, NoSpace, BeginUpdate, ReadFails, EndUpdate, EndFails,
     Restart, SysRestart, HardReset, PowerLoss, BootAgain, Release

THEOREM FileSystemSafe == Spec => FileSystemKept
BY Inductive, FileSystemStep, PTL DEF Spec, FileSystemKept
-----------------------------------------------------------------------------
(***************************************************************************)
(* The promise of SafeUpdate. The mapping, by names of its own.            *)
(***************************************************************************)
Installed == IF Copying THEN running ELSE InstalledImage
Verified  == IF Copying \/ rtc # NoCommand THEN img ELSE NoImage
Mapped    == <<Installed, Verified, Copying>>

LEMMA InstalledFact == InstalledImage = ImageIn(flash)
BY DEF InstalledImage, ImageIn, Whole, LiesAt, LiesIn

LEMMA InstalledFactNext == InstalledImage' = ImageIn(flash')
BY DEF InstalledImage, ImageIn, Whole, LiesAt, LiesIn

LEMMA RunningIsInstalled ==
  ASSUME running \in Images, Whole(running)
  PROVE  InstalledImage = running
<1>1. LiesIn(flash, running, 0, 0)
  BY DEF Whole, LiesAt, LiesIn
<1> QED BY <1>1, OneImage, InstalledFact

LEMMA RunningIsInstalledNext ==
  ASSUME running' \in Images, Whole(running)'
  PROVE  InstalledImage' = running'
<1>1. LiesIn(flash', running', 0, 0)
  BY DEF Whole, LiesAt, LiesIn
<1> QED BY <1>1, OneImage, InstalledFactNext

\* While sketches run, nothing changes what is installed.
LEMMA RunningStays ==
  ASSUME IInv, IInv', UNCHANGED running, pc \notin Loading, pc' \notin Loading
  PROVE  UNCHANGED <<Installed, Copying>>
<1>1. Whole(running) /\ Whole(running)' /\ running \in Images /\ running' \in Images
  BY DEF IInv, SketchIntact, TypeOK
<1>2. ~Copying /\ ~Copying' /\ Copying' = Copying
  BY DEF Copying, Loading
<1> QED BY <1>1, <1>2, RunningIsInstalled, RunningIsInstalledNext DEF Installed

\* A copy that ends early leaves the old image, the new one, or none.
LEMMA InterruptedCopy ==
  ASSUME IInv, Copying, (Put(at, Erased) /\ at < size) \/ UNCHANGED flash
  PROVE  InstalledImage' \in {running, img, NoImage}
<1>1. /\ img \in Images /\ size = SizeOf[img] /\ size \in Nat /\ size >= 1 /\ at \in Nat
      /\ size <= SpaceEnd /\ running \in Images
  BY SizeFact DEF IInv, Copy, TypeOK
<1>2. 0 \in Sectors
  BY <1>1, FlashAssumption DEF Sectors
<1>3. \/ at > 0 /\ flash'[0] = <<img, 0>>
      \/ at = 0 /\ flash'[0] = Erased
      \/ at = 0 /\ LiesIn(flash', running, 0, 0)
  <2>1. CASE at > 0
    <3>1. flash[0] = <<img, 0>>
      BY <1>1, <2>1 DEF IInv, Copy
    <3>2. flash \in [Sectors -> Contents]
      BY DEF IInv, TypeOK
    <3>3. flash'[0] = flash[0]
      BY <3>2, <1>1, <1>2, <2>1 DEF Put
    <3> QED BY <2>1, <3>1, <3>3
  <2>2. CASE at = 0 /\ Put(at, Erased)
    BY <2>2, <1>2 DEF Put, IInv, TypeOK
  <2>3. CASE at = 0 /\ UNCHANGED flash
    BY <2>3 DEF IInv, Copy, Copying, Whole, LiesAt, LiesIn
  <2> QED BY <1>1, <2>1, <2>2, <2>3
<1>4. CASE \E m \in Images : LiesIn(flash', m, 0, 0)
  <2>1. PICK m \in Images : LiesIn(flash', m, 0, 0)
    BY <1>4
  <2>2. flash'[0] = <<m, 0>> /\ ImageIn(flash') = m
    BY <2>1, OneImage
  <2>3. flash'[0] # Erased
    BY <2>2, ErasedAssumption
  <2>4. LiesIn(flash', running, 0, 0) => m = running
    BY <2>2, <1>1, OneImage
  <2>5. m \in {running, img}
    BY <1>3, <2>2, <2>3, <2>4
  <2> QED BY <2>2, <2>5, InstalledFactNext
<1>5. CASE ~\E m \in Images : LiesIn(flash', m, 0, 0)
  BY <1>5, InstalledFactNext DEF ImageIn
<1> QED BY <1>4, <1>5

\* Any way out of a copy before its end is an interruption.
LEMMA InterruptStep ==
  ASSUME IInv, Copying, (Put(at, Erased) /\ at < size) \/ UNCHANGED flash,
         pc' = "eboot", rtc' = NoCommand
  PROVE  Promise!Interrupt
<1>1. Installed = running /\ Verified = img /\ ~Copying' /\ Verified' = NoImage
      /\ Installed' = InstalledImage'
  BY DEF Installed, Verified, Copying
<1>2. InstalledImage' \in {running, img, NoImage}
  BY InterruptedCopy
<1>3. Promise!EndCopy(Installed')
  BY <1>1 DEF Promise!EndCopy, Installed, Verified, Copying
<1> QED BY <1>1, <1>2, <1>3 DEF Promise!Interrupt, Installed, Verified

\* Steps between which the sketch is the same and no command comes or goes.
LEMMA QuietStep ==
  ASSUME IInv, IInv', UNCHANGED running, pc \notin Loading, pc' \notin Loading,
         rtc = NoCommand, rtc' = NoCommand
  PROVE  UNCHANGED Promise!vars
<1>1. UNCHANGED <<Installed, Copying>>
  BY RunningStays
<1>2. Verified = NoImage /\ Verified' = NoImage
  BY DEF Verified, Copying, Loading
<1> QED BY <1>1, <1>2 DEF Promise!vars, Installed, Verified

LEMMA StartCopyStep == ASSUME IInv, IInv', StartCopy PROVE Promise!StartCopy
<1>1. ~Copying /\ Copying' /\ UNCHANGED running /\ UNCHANGED img
  BY DEF StartCopy, Copying, Goto
<1>2. Whole(running) /\ running \in Images /\ img \in Images /\ rtc # NoCommand
  BY DEF StartCopy, IInv, Pending, TypeOK
<1>3. Installed' = Installed
  BY <1>1, <1>2, RunningIsInstalled DEF Installed
<1>4. Verified' = Verified /\ Verified = img /\ img # NoImage
  BY <1>1, <1>2, ImagesAssumption DEF Verified
<1> QED BY <1>1, <1>3, <1>4 DEF Promise!StartCopy, Installed, Verified

LEMMA CopyStep == ASSUME IInv, CopyErase \/ CopyWrite PROVE UNCHANGED Promise!vars
<1>1. Copying /\ Copying' /\ UNCHANGED <<running, img>>
  BY DEF CopyErase, CopyWrite, Copying, Goto, update
<1> QED BY <1>1 DEF Promise!vars

LEMMA CopyDoneStep == ASSUME IInv, IInv', CopyDone PROVE Promise!Finish
<1>1. Copying /\ rtc = NoCommand /\ UNCHANGED flash /\ rtc' = NoCommand
  BY DEF CopyDone, Load, Copying, IInv, Pending
<1>2. img \in Images /\ Whole(img)
  <2>1. img \in Images /\ size = SizeOf[img] /\ at = size /\ size \in Nat
    BY <1>1, SizeFact DEF IInv, Copy, CopyDone
  <2>2. \A j \in 0..(size - 1) : j < at => flash[j] = <<img, j>>
    BY <1>1 DEF IInv, Copy
  <2>3. \A j \in 0..(SizeOf[img] - 1) : j \in 0..(size - 1) /\ j < at /\ 0 + j = j
    BY <2>1
  <2>4. \A j \in 0..(SizeOf[img] - 1) : flash[0 + j] = <<img, j>>
    BY <2>2, <2>3
  <2> QED BY <2>1, <2>4 DEF Whole, LiesAt
<1>3. ~Copying'
  BY <1>2 DEF CopyDone, Load, Copying, Goto
<1>4. Installed' = img /\ Verified = img /\ Verified' = NoImage
  <2>1. LiesIn(flash, img, 0, 0)
    BY <1>2 DEF Whole, LiesAt, LiesIn
  <2>2. ImageIn(flash') = img
    BY <2>1, <1>1, <1>2, OneImage
  <2> QED BY <2>2, <1>1, <1>3, InstalledFactNext DEF Installed, Verified
<1> QED BY <1>1, <1>3, <1>4 DEF Promise!Finish, Promise!EndCopy, Installed, Verified

LEMMA LoadStep == ASSUME IInv, LoadSketch PROVE UNCHANGED Promise!vars
<1>1. /\ ~Copying /\ ~Copying' /\ Copying' = Copying
      /\ rtc = NoCommand /\ rtc' = NoCommand /\ flash' = flash
  BY DEF LoadSketch, Load, Copying, Goto
<1>2. Installed' = Installed /\ Verified' = Verified
  BY <1>1, InstalledFact, InstalledFactNext DEF Installed, Verified
<1> QED BY <1>1, <1>2 DEF Promise!vars, Installed, Verified

LEMMA AcceptStep ==
  ASSUME IInv, IInv', EndUpdate PROVE \E m \in Images : Promise!Accept(m)
<1>1. /\ pc \notin Loading /\ pc' \notin Loading /\ UNCHANGED <<running, img>>
      /\ rtc = NoCommand /\ ~Copying /\ ~Copying' /\ Copying' = Copying
  BY DEF EndUpdate, update, Goto, Loading, Copying, IInv, Pending
<1>2. img \in Images /\ img # NoImage
  BY ImagesAssumption DEF EndUpdate, IInv, Download, Receiving
<1>3. rtc' # NoCommand
  <2>1. rtc' = [from |-> start, size |-> size]
    BY DEF EndUpdate
  <2>2. size = SizeOf[img] /\ start \in 0..SpaceEnd /\ size \in 0..SpaceEnd
    BY DEF EndUpdate, IInv, TypeOK, Download, Receiving
  <2>3. size \in 1..SpaceEnd
    BY <1>2, <2>2, SizeFact
  <2> QED BY <2>1, <2>2, <2>3, CommandAssumption
<1>4. Installed' = Installed /\ Installed = running /\ running # NoImage
  <2>1. Whole(running) /\ running \in Images
    BY <1>1 DEF IInv, SketchIntact, TypeOK
  <2> QED BY <2>1, <1>1, RunningStays, RunningIsInstalled, ImagesAssumption DEF Installed
<1>5. Verified = NoImage /\ Verified' = img
  BY <1>1, <1>3 DEF Verified
<1>6. Promise!Accept(img)
  BY <1>1, <1>4, <1>5 DEF Promise!Accept, Installed, Verified
<1> QED BY <1>2, <1>6

LEMMA BootsStep ==
  ASSUME IInv, IInv', Boots
  PROVE  Promise!Next \/ UNCHANGED Promise!vars
<1>0. pc' = "eboot" /\ UNCHANGED <<flash, running>> /\ ~Copying'
  BY DEF Boots, BootAgain, Goto, Copying
<1>1. CASE Copying
  <2>1. rtc' = NoCommand
    BY <1>1 DEF IInv, Pending, Copying, Boots
  <2> QED BY <1>0, <1>1, <2>1, InterruptStep DEF Promise!Next
<1>2. CASE ~Copying
  <2>1. Installed' = Installed /\ Copying' = Copying
    BY <1>0, <1>2, InstalledFact, InstalledFactNext DEF Installed, Copying
  <2>2. CASE rtc' = NoCommand
    <3>1. Verified' = NoImage
      BY <1>0, <2>2 DEF Verified
    <3> QED BY <1>0, <1>2, <2>1, <3>1 DEF Promise!Next, Promise!Forget, Installed, Verified
  <2>3. CASE rtc' # NoCommand
    <3>1. rtc' = rtc /\ img' = img
      BY <2>3 DEF Boots, BootAgain
    <3> QED BY <1>0, <1>2, <2>1, <2>3, <3>1 DEF Promise!vars, Installed, Verified
  <2> QED BY <2>2, <2>3
<1> QED BY <1>1, <1>2

LEMMA PromiseInit == Init => Promise!Init
<1> SUFFICES ASSUME Init PROVE Promise!Init
  OBVIOUS
<1>1. running \in Images /\ SizeOf[running] \in Nat /\ SizeOf[running] <= SpaceEnd
  BY SizeFact DEF Init
<1>2. \A j \in 0..(SizeOf[running] - 1) : j \in Sectors /\ j < SizeOf[running] /\ 0 + j = j
  BY <1>1, FlashAssumption DEF Sectors
<1>3. Whole(running)
  BY <1>2 DEF Init, Whole, LiesAt
<1>4. Installed = running /\ Verified = NoImage /\ ~Copying
  BY <1>1, <1>3, RunningIsInstalled DEF Init, Installed, Verified, Copying
<1> QED BY <1>1, <1>4 DEF Promise!Init, Installed, Verified

LEMMA PromiseStep ==
  IInv /\ IInv' /\ [Next]_vars => [Promise!Next]_(Promise!vars)
<1> SUFFICES ASSUME IInv, IInv', [Next]_vars
             PROVE  Promise!Next \/ UNCHANGED Promise!vars
  OBVIOUS
<1>1. CASE StartCopy \/ CopyErase \/ CopyWrite \/ CopyDone \/ LoadSketch
  BY <1>1, StartCopyStep, CopyStep, CopyDoneStep, LoadStep DEF Promise!Next
<1>2. CASE CheckFails \/ NoUpdates \/ NoSpace \/ BeginUpdate \/ EraseSector \/ WriteSector
  <2>1. pc \in {"setup", "read", "write"} /\ pc' \notin Loading
        /\ UNCHANGED <<running, rtc>>
    BY <1>2 DEF CheckFails, NoUpdates, NoSpace, BeginUpdate, EraseSector, WriteSector,
       Goto, Loading
  <2>2. rtc = NoCommand /\ pc \notin Loading
    BY <2>1 DEF IInv, Pending, Loading
  <2> QED BY <2>1, <2>2, QuietStep
<1>3. CASE ReadFails \/ FlashFails \/ EndFails
  <2>1. pc \in {"read", "write", "end"} /\ pc' \notin Loading /\ UNCHANGED <<running, rtc>>
    BY <1>3 DEF ReadFails, FlashFails, EndFails, GiveUp, Goto, Loading
  <2>2. rtc = NoCommand /\ pc \notin Loading
    BY <2>1 DEF IInv, Pending, Loading
  <2> QED BY <2>1, <2>2, QuietStep
<1>4. CASE EndUpdate
  BY <1>4, AcceptStep DEF Promise!Next
<1>5. CASE CopyFails
  <2>1. Copying /\ at < size /\ (Put(at, Erased) \/ UNCHANGED flash) /\ pc' = "eboot"
        /\ rtc' = rtc
    BY <1>5 DEF CopyFails, Copying, Goto, IInv, Copy, TypeOK
  <2>2. rtc = NoCommand
    BY <2>1 DEF IInv, Pending, Copying
  <2> QED BY <2>1, <2>2, InterruptStep DEF Promise!Next
<1>6. CASE Restart \/ SysRestart \/ HardReset \/ PowerLoss
  BY <1>6, BootsFact, BootsStep
<1>7. CASE Release \/ UNCHANGED vars
  <2>1. UNCHANGED <<flash, rtc, pc, running, img>>
    BY <1>7 DEF Release, vars, update
  <2>2. Copying' = Copying /\ InstalledImage' = InstalledImage
    BY <2>1, InstalledFact, InstalledFactNext DEF Copying
  <2> QED BY <2>1, <2>2 DEF Promise!vars
<1> QED
  BY <1>1, <1>2, <1>3, <1>4, <1>5, <1>6, <1>7 DEF Next, Device, Disturbance

\* The whole update implements SafeUpdate, for images and flash of any size,
\* also where the two areas of the copy overlap.
THEOREM PromiseKept == Spec => KeepsPromise
BY Inductive, PromiseInit, PromiseStep, PTL DEF Spec, KeepsPromise, Promise!Spec
-----------------------------------------------------------------------------
(***************************************************************************)
(* What the promise means for the sketch; the update inherits it.          *)
(***************************************************************************)
LEMMA PromiseCopiesVerified == Promise!Spec => []Promise!CopiesVerified
<1> USE ImagesAssumption DEF Promise!CopiesVerified
<1>1. Promise!Init => Promise!CopiesVerified
  BY DEF Promise!Init
<1>2. Promise!CopiesVerified /\ [Promise!Next]_(Promise!vars) => Promise!CopiesVerified'
  BY Zenon DEF Promise!Next, Promise!vars, Promise!Accept, Promise!Forget,
     Promise!StartCopy, Promise!Finish, Promise!Interrupt, Promise!EndCopy
<1> QED BY <1>1, <1>2, PTL DEF Promise!Spec

LEMMA PromiseReplaces == Promise!Spec => Promise!ReplacedByVerified
<1>1. [Promise!Next]_(Promise!vars) => [Promise!Replacement]_(Promise!vars)
  BY Zenon DEF Promise!Next, Promise!vars, Promise!Accept, Promise!Forget,
     Promise!StartCopy, Promise!Finish, Promise!Interrupt, Promise!EndCopy,
     Promise!Replacement
<1> QED BY <1>1, PTL DEF Promise!Spec, Promise!ReplacedByVerified

\* The sketch changes only at the end of eboot's copy, and then to the image
\* whose download was verified, or to none if the copy was interrupted: no
\* failure, reset or power loss elsewhere reaches it (Updater.cpp, eboot.c).
THEOREM SketchReplaced == Spec => []Promise!CopiesVerified /\ Promise!ReplacedByVerified
BY PromiseKept, PromiseCopiesVerified, PromiseReplaces, PTL DEF KeepsPromise
=============================================================================
