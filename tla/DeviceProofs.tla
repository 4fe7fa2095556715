---------------------------- MODULE DeviceProofs ----------------------------
(***************************************************************************)
(* Proofs about Device: types, the pins, and what a restart restores.      *)
(***************************************************************************)
EXTENDS Device, TLAPS

\* The file holds what /configSave has answered for (JSONSave).
SavedOnFlash == saved # Nothing => ~saving /\ file = saved

IInv == TypeOK /\ PinsAsShown /\ SavedOnFlash
-----------------------------------------------------------------------------
(***************************************************************************)
(* What the helpers return.                                                *)
(***************************************************************************)
\* pinMode leaves a pin in a known direction.
LEMMA PinModeType ==
  ASSUME NEW p \in Pins, NEW m \in Int, NEW d \in Directions
  PROVE  PinMode(p, m, d) \in Directions
BY DEF PinMode, Byte, Directions

\* A pin whose mode is shown as INPUT or OUTPUT becomes one, GPIO16 like the
\* others (ModeToString, __pinMode).
LEMMA PinModeShown ==
  ASSUME NEW p \in Pins, NEW m \in Int, NEW d, ModeToString(m) # "unchanged"
  PROVE  PinMode(p, m, d) = ModeToString(m)
<1> DEFINE b == Byte(m)
<1>1. b \in 0..255
      BY DEF Byte
<1>2. CASE b = 0
  <2>1. (0 \div 8) % 2 = 0
        OBVIOUS
  <2> QED BY <1>2, <2>1 DEF PinMode, ModeToString
<1>3. CASE b = 1
  <2>1. (1 \div 8) % 2 = 0
        OBVIOUS
  <2> QED BY <1>3, <2>1 DEF PinMode, ModeToString
<1>4. b = 0 \/ b = 1
      BY DEF ModeToString
<1> QED BY <1>2, <1>3, <1>4

\* A reset leaves every pin in a known direction.
LEMMA ResetType == AtReset \in [Pins -> Directions]
BY DEF AtReset, Directions

\* GPIOInit leaves every pin in a known direction.
LEMMA GPIOInitType ==
  ASSUME NEW m \in ModeLists, NEW d \in [Pins -> Directions]
  PROVE  GPIOInit(m, d) \in [Pins -> Directions]
<1>1. SUFFICES ASSUME NEW p \in Pins
               PROVE  (IF p = Flash THEN "INPUT" ELSE IF m[p] < 0 THEN d[p]
                       ELSE PinMode(p, m[p], d[p])) \in Directions
      BY DEF GPIOInit
<1>2. m[p] \in Int /\ d[p] \in Directions
      BY ModesAssumption DEF ModeLists
<1>3. PinMode(p, m[p], d[p]) \in Directions
      BY <1>2, PinModeType
<1>4. "INPUT" \in Directions
      BY DEF Directions
<1> QED BY <1>2, <1>3, <1>4

\* After GPIOInit every pin is what is shown for its mode (lines 221-259).
LEMMA GPIOInitShows ==
  ASSUME NEW m \in ModeLists, NEW d \in [Pins -> Directions],
         NEW p \in Pins \ {Flash}, m[p] >= 0, ModeToString(m[p]) # "unchanged"
  PROVE  GPIOInit(m, d)[p] = ModeToString(m[p])
<1>1. m[p] \in Int
      BY ModesAssumption DEF ModeLists
<1>2. ~(m[p] < 0)
      BY <1>1
<1>3. GPIOInit(m, d)[p] = PinMode(p, m[p], d[p])
      BY <1>2 DEF GPIOInit
<1> QED BY <1>1, <1>3, PinModeShown

\* GPIOInit makes the FLASH pin an input, whatever is stored for it.
LEMMA GPIOInitFlash ==
  ASSUME NEW m, NEW d
  PROVE  GPIOInit(m, d)[Flash] = "INPUT"
BY PinsAssumption DEF GPIOInit

\* A pin whose mode is negative is left alone (lines 235-242).
LEMMA GPIOInitSkips ==
  ASSUME NEW m \in ModeLists, NEW d \in [Pins -> Directions],
         NEW p \in Pins \ {Flash}, m[p] < 0
  PROVE  GPIOInit(m, d)[p] = d[p]
BY DEF GPIOInit

\* What a load assigns are settings (lines 137-171).
LEMMA LoadType ==
  ASSUME NEW f \in Readable \cup {Unreadable, Torn}, NEW t \in Texts, NEW m \in ModeLists,
         NEW s \in JSONLoad(f, t, m)
  PROVE  s[1] \in Texts /\ s[2] \in ModeLists
<1>1. CASE f = Unreadable
      BY <1>1 DEF JSONLoad
<1>2. CASE f = Torn /\ f # Unreadable
      BY <1>2 DEF JSONLoad
<1>3. CASE f # Torn /\ f # Unreadable
  <2>1. f.text \in Texts \cup {NoText} /\ f.modes \in ModeLists \cup {NoModes}
        BY <1>3 DEF Readable
  <2>2. s = <<IF f.text = NoText THEN t ELSE f.text,
              IF f.modes = NoModes THEN m ELSE f.modes>>
        BY <1>3 DEF JSONLoad
  <2> QED BY <2>1, <2>2
<1> QED BY <1>1, <1>2, <1>3

\* A load of what was saved brings it back, whatever the settings were.
LEMMA LoadOfSaved ==
  ASSUME NEW f \in Saves, NEW t, NEW m, NEW s \in JSONLoad(f, t, m)
  PROVE  s[1] = f.text /\ s[2] = f.modes
<1>1. f \in Readable /\ f # Unreadable /\ f # Torn
      BY FilesAssumption DEF Saves, Readable
<1>2. f.text # NoText /\ f.modes # NoModes
      BY TextsAssumption DEF Saves
<1>3. s = <<f.text, f.modes>>
      BY <1>1, <1>2 DEF JSONLoad
<1> QED BY <1>3

\* What is written can be read back (JSONSave).
LEMMA DocumentType ==
  ASSUME NEW t \in Texts, NEW m \in ModeLists
  PROVE  Document(t, m) \in Readable
<1>1. Kept[t] \in Texts
      BY TextsAssumption
<1>2. [p \in Pins |-> IF p <= Room[t] THEN m[p] ELSE 0] \in ModeLists
      BY ModesAssumption DEF ModeLists
<1> QED BY <1>1, <1>2 DEF Document, Readable

\* Settings that fit are written as they are.
LEMMA DocumentOfFitting ==
  ASSUME NEW t \in Texts, NEW m \in ModeLists, Fits(t)
  PROVE  Document(t, m) = [text |-> t, modes |-> m]
<1>1. Room[t] = PinsCount /\ Kept[t] = t
      BY RoomAssumption DEF Fits
<1>2. ~(Room[t] < 0) /\ \A p \in Pins : p <= Room[t]
      BY <1>1, PinsAssumption DEF Pins
<1>3. [p \in Pins |-> IF p <= Room[t] THEN m[p] ELSE 0] = m
      BY <1>2 DEF ModeLists
<1> QED BY <1>1, <1>2, <1>3 DEF Document
-----------------------------------------------------------------------------
(***************************************************************************)
(* Loads, one after the other and at a restart.                            *)
(***************************************************************************)
\* A mode sets a pin the same way the second time, also one that pinMode
\* does not know.
LEMMA PinModeTwice ==
  ASSUME NEW p \in Pins, NEW m \in Int, NEW d \in Directions
  PROVE  PinMode(p, m, PinMode(p, m, d)) = PinMode(p, m, d)
BY DEF PinMode

LEMMA GPIOInitTwice ==
  ASSUME NEW m \in ModeLists, NEW d \in [Pins -> Directions]
  PROVE  GPIOInit(m, GPIOInit(m, d)) = GPIOInit(m, d)
<1> DEFINE e == GPIOInit(m, d)
<1>1. ASSUME NEW p \in Pins
      PROVE  GPIOInit(m, e)[p] = e[p]
  <2>1. m[p] \in Int /\ d[p] \in Directions
        BY ModesAssumption DEF ModeLists
  <2>2. CASE p = Flash \/ m[p] < 0
        BY <2>2 DEF GPIOInit
  <2>3. CASE p # Flash /\ ~(m[p] < 0)
    <3>1. e[p] = PinMode(p, m[p], d[p])
          BY <2>3 DEF GPIOInit
    <3>2. GPIOInit(m, e)[p] = PinMode(p, m[p], e[p])
          BY <2>3 DEF GPIOInit
    <3> HIDE DEF e
    <3> QED BY <2>1, <3>1, <3>2, PinModeTwice
  <2> QED BY <2>2, <2>3
<1>2. GPIOInit(m, e) = [p \in Pins |-> GPIOInit(m, e)[p]] /\ e = [p \in Pins |-> e[p]]
      BY DEF GPIOInit
<1> HIDE DEF e
<1>3. GPIOInit(m, e) = e
      BY <1>1, <1>2
<1> QED BY <1>3 DEF e

\* A file without a key leaves a mixture of its own settings and those in RAM;
\* loading it again changes neither the mixture nor a pin (JSONLoad, lines
\* 137-171, and GPIOInit, 221-259).
THEOREM SecondLoadChangesNothing ==
  ASSUME NEW f \in Readable, NEW t \in Texts, NEW m \in ModeLists,
         NEW s \in JSONLoad(f, t, m), NEW d \in [Pins -> Directions]
  PROVE  /\ JSONLoad(f, s[1], s[2]) = {s}
         /\ GPIOInit(s[2], GPIOInit(s[2], d)) = GPIOInit(s[2], d)
<1>1. f # Unreadable /\ f # Torn
      BY FilesAssumption
<1>2. s = <<IF f.text = NoText THEN t ELSE f.text,
            IF f.modes = NoModes THEN m ELSE f.modes>>
      BY <1>1 DEF JSONLoad
<1>3. JSONLoad(f, s[1], s[2]) = {<<IF f.text = NoText THEN s[1] ELSE f.text,
                                   IF f.modes = NoModes THEN s[2] ELSE f.modes>>}
      BY <1>1 DEF JSONLoad
<1>4. s[2] \in ModeLists
      BY LoadType
<1> QED BY <1>2, <1>3, <1>4, GPIOInitTwice

\* The modes that say what a pin becomes, whatever it was: three for GPIO16,
\* for the others all but 4, 6 and their like (__pinMode, lines 32-80).
Decides(p, mode) ==
  IF p = Gpio16 THEN Byte(mode) \in {0, 1, 4}
  ELSE (Byte(mode) \div 8) % 2 = 1 \/ Byte(mode) \in {0, 1, 2, 3, 5, 7}

LEMMA DecidedPinMode ==
  ASSUME NEW p \in Pins, NEW mode \in Int, Decides(p, mode), NEW d, NEW e
  PROVE  PinMode(p, mode, d) = PinMode(p, mode, e)
<1> DEFINE b == Byte(mode)
<1>1. CASE p = Gpio16
  <2>1. b = 0 \/ b = 4 \/ b = 1
        BY <1>1 DEF Decides
  <2> QED BY <1>1, <2>1 DEF PinMode
<1>2. CASE p # Gpio16
  <2>1. (b \div 8) % 2 = 1 \/ b = 0 \/ b = 1 \/ b = 2 \/ b = 3 \/ b \in {5, 7}
        BY <1>2 DEF Decides
  <2> QED BY <1>2, <2>1 DEF PinMode
<1> QED BY <1>1, <1>2

\* A load of a whole file, as JSONSave writes it, leaves the settings that a
\* restart leaves, whatever was set before, and the same direction of every
\* pin whose mode decides it; GPIO16 may differ with any mode but INPUT,
\* INPUT_PULLDOWN_16 and OUTPUT (JSONLoad, GPIOInit, __pinMode).
THEOREM LoadIsLikeRestart ==
  ASSUME NEW f \in Saves, NEW t \in Texts, NEW m \in ModeLists,
         NEW s \in JSONLoad(f, t, m), NEW r \in JSONLoad(f, DefaultText, DefaultModes),
         NEW d \in [Pins -> Directions]
  PROVE  /\ s[1] = r[1] /\ s[2] = r[2]
         /\ \A p \in Pins :
              p = Flash \/ (s[2][p] >= 0 /\ Decides(p, s[2][p]))
                => GPIOInit(s[2], d)[p] = GPIOInit(r[2], AtReset)[p]
<1>1. s[1] = f.text /\ s[2] = f.modes /\ r[1] = f.text /\ r[2] = f.modes
      BY LoadOfSaved
<1>2. ASSUME NEW p \in Pins, p = Flash \/ (s[2][p] >= 0 /\ Decides(p, s[2][p]))
      PROVE  GPIOInit(s[2], d)[p] = GPIOInit(r[2], AtReset)[p]
  <2>1. CASE p = Flash
        BY <2>1, GPIOInitFlash
  <2>2. CASE p # Flash
    <3>1. s[2][p] \in Int
          BY <1>1, ModesAssumption DEF Saves, ModeLists
    <3>2. ~(s[2][p] < 0)
          BY <1>2, <2>2, <3>1
    <3>3. PinMode(p, s[2][p], d[p]) = PinMode(p, s[2][p], AtReset[p])
          BY <1>2, <2>2, <3>1, DecidedPinMode
    <3> QED BY <1>1, <2>2, <3>2, <3>3 DEF GPIOInit
  <2> QED BY <2>1, <2>2
<1> QED BY <1>1, <1>2
-----------------------------------------------------------------------------
(***************************************************************************)
(* The invariant.                                                          *)
(***************************************************************************)
\* What setup() leaves behind.
LEMMA SetupInv ==
  ASSUME TypeOK, NEW t \in Texts, NEW m \in ModeLists, Setup(t, m)
  PROVE  /\ text' \in Texts /\ cfgPinsMode' \in ModeLists
         /\ hw' \in [Pins -> Directions]
         /\ PinsAsShown'
<1>1. text' = t /\ cfgPinsMode' = m /\ hw' = GPIOInit(m, AtReset)
      BY DEF Setup
<1>2. hw' \in [Pins -> Directions]
      BY <1>1, ResetType, GPIOInitType
<1>3. PinsAsShown'
      BY <1>1, ResetType, GPIOInitShows DEF PinsAsShown
<1> QED BY <1>1, <1>2, <1>3

\* The types and the relation of file and answer hold in the beginning.
LEMMA InitInv == Init => IInv
<1> SUFFICES ASSUME Init PROVE IInv
    OBVIOUS
<1>1. text \in Texts /\ cfgPinsMode \in ModeLists
  <2>1. CASE \E s \in JSONLoad(file, DefaultText, DefaultModes) :
               text = s[1] /\ cfgPinsMode = s[2]
        BY <2>1, LoadType, TextsAssumption, ModesAssumption DEF Init
  <2>2. CASE text = DefaultText /\ cfgPinsMode = DefaultModes
        BY <2>2, TextsAssumption, ModesAssumption
  <2> QED BY <2>1, <2>2 DEF Init
<1>2. hw = GPIOInit(cfgPinsMode, AtReset)
      BY DEF Init
<1>3. hw \in [Pins -> Directions]
      BY <1>1, <1>2, ResetType, GPIOInitType
<1>4. PinsAsShown
      BY <1>1, <1>2, ResetType, GPIOInitShows DEF PinsAsShown
<1>5. SavedOnFlash
      BY DEF Init, SavedOnFlash
<1> QED BY <1>1, <1>3, <1>4, <1>5 DEF IInv, TypeOK, Init

\* Every step keeps the invariant.
LEMMA StepInv == IInv /\ [Next]_vars => IInv'
<1> SUFFICES ASSUME IInv, [Next]_vars PROVE IInv'
    OBVIOUS
<1> USE DEF IInv
<1>1. CASE Boot
  <2>1. file' = file /\ saved' = saved /\ saving' = FALSE
        BY <1>1 DEF Boot
  <2>2. \E t \in Texts, m \in ModeLists : Setup(t, m)
    <3>1. CASE \E s \in JSONLoad(file, DefaultText, DefaultModes) : Setup(s[1], s[2])
          BY <3>1, LoadType, TextsAssumption, ModesAssumption DEF TypeOK
    <3>2. CASE Setup(DefaultText, DefaultModes)
          BY <3>2, TextsAssumption, ModesAssumption
    <3> QED BY <1>1, <3>1, <3>2 DEF Boot
  <2>3. /\ text' \in Texts /\ cfgPinsMode' \in ModeLists
        /\ hw' \in [Pins -> Directions] /\ PinsAsShown'
        BY <2>2, SetupInv
  <2>4. SavedOnFlash'
        BY <2>1 DEF SavedOnFlash
  <2> QED BY <2>1, <2>3, <2>4 DEF TypeOK
<1>2. CASE ConfigLoad
  <2>1. file' = file /\ saved' = saved /\ saving' = saving
        BY <1>2 DEF ConfigLoad
  <2>2. PICK s \in JSONLoad(file, text, cfgPinsMode) :
               text' = s[1] /\ cfgPinsMode' = s[2] /\ hw' = GPIOInit(s[2], hw)
        BY <1>2 DEF ConfigLoad
  <2>3. s[1] \in Texts /\ s[2] \in ModeLists
        BY LoadType DEF TypeOK
  <2>4. hw' \in [Pins -> Directions]
        BY <2>2, <2>3, GPIOInitType DEF TypeOK
  <2>5. PinsAsShown'
        BY <2>2, <2>3, GPIOInitShows DEF TypeOK, PinsAsShown
  <2>6. SavedOnFlash'
        BY <2>1 DEF SavedOnFlash
  <2> QED BY <2>1, <2>2, <2>3, <2>4, <2>5, <2>6 DEF TypeOK
<1>3. CASE SaveOpen
  <2>1. PinsAsShown'
        BY <1>3 DEF SaveOpen, PinsAsShown
  <2> QED BY <1>3, <2>1 DEF SaveOpen, TypeOK, SavedOnFlash
<1>4. CASE SaveWrite
  <2>1. PinsAsShown'
        BY <1>4 DEF SaveWrite, PinsAsShown
  <2>2. file' \in Readable
        BY <1>4, DocumentType DEF SaveWrite, TypeOK
  <2>3. saved' \in Saves \cup {Nothing}
        BY <1>4 DEF SaveWrite, AnsweredFor, Saves, TypeOK
  <2>4. SavedOnFlash'
    <3>1. CASE Fits(text)
          BY <1>4, <3>1, DocumentOfFitting DEF SaveWrite, AnsweredFor, SavedOnFlash, TypeOK
    <3>2. CASE ~Fits(text)
          BY <1>4, <3>2 DEF SaveWrite, AnsweredFor, SavedOnFlash
    <3> QED BY <3>1, <3>2
  <2> QED BY <1>4, <2>1, <2>2, <2>3, <2>4 DEF SaveWrite, TypeOK
<1>5. CASE SaveCut
  <2>1. PinsAsShown'
        BY <1>5 DEF SaveCut, PinsAsShown
  <2> QED BY <1>5, <2>1 DEF SaveCut, TypeOK, SavedOnFlash
<1>6. ASSUME NEW p \in Pins, NEW mode \in {0, 1}, SetMode(p, mode)
      PROVE  IInv'
  <2>1. /\ hw' = [hw EXCEPT ![p] = PinMode(p, mode, hw[p])]
        /\ cfgPinsMode' = [cfgPinsMode EXCEPT ![p] = mode]
        /\ text' = text /\ file' = file /\ saving' = saving /\ saved' = saved
        BY <1>6 DEF SetMode, Remember
  <2>2. mode \in Int /\ mode \in Modes
        BY ModesAssumption
  <2>3. hw[p] \in Directions
        BY DEF TypeOK
  <2>4. PinMode(p, mode, hw[p]) \in Directions
        BY <2>2, <2>3, PinModeType
  <2>5. hw' \in [Pins -> Directions] /\ cfgPinsMode' \in ModeLists
        BY <2>1, <2>2, <2>4 DEF TypeOK, ModeLists
  <2>6. \A q \in Pins : IF q = p THEN hw'[q] = PinMode(p, mode, hw[p]) /\ cfgPinsMode'[q] = mode
                                 ELSE hw'[q] = hw[q] /\ cfgPinsMode'[q] = cfgPinsMode[q]
        BY <2>1 DEF TypeOK, ModeLists
  <2>7. ASSUME NEW q \in Pins \ {Flash}, cfgPinsMode'[q] >= 0,
               ModeToString(cfgPinsMode'[q]) # "unchanged"
        PROVE  hw'[q] = ModeToString(cfgPinsMode'[q])
    <3>1. CASE q = p
          BY <2>2, <2>6, <2>7, <3>1, PinModeShown
    <3>2. CASE q # p
          BY <2>6, <2>7, <3>2 DEF PinsAsShown
    <3> QED BY <3>1, <3>2
  <2>8. PinsAsShown'
        BY <2>7 DEF PinsAsShown
  <2>9. SavedOnFlash'
        BY <2>1 DEF SavedOnFlash
  <2> QED BY <2>1, <2>5, <2>8, <2>9 DEF TypeOK
<1>7. CASE Edit
  <2>1. PinsAsShown'
        BY <1>7 DEF Edit, PinsAsShown
  <2> QED BY <1>7, <2>1 DEF Edit, TypeOK, SavedOnFlash
<1>8. CASE UNCHANGED vars
  <2>1. PinsAsShown'
        BY <1>8 DEF vars, PinsAsShown
  <2> QED BY <1>8, <2>1 DEF vars, TypeOK, SavedOnFlash
<1> QED BY <1>1, <1>2, <1>3, <1>4, <1>5, <1>6, <1>7, <1>8
        DEF Next, ConfigLoadFails, SaveOpenFails

\* What is saved and not replaced is in the file, at all times: answering
\* comes after writing (handleConfigSave, JSONSave).
THEOREM DeviceInvariant == Spec => []IInv
<1> QED BY InitInv, StepInv, PTL DEF Spec

\* The variables keep their types.
THEOREM DeviceTypeCorrect == Spec => []TypeOK
<1>1. IInv => TypeOK
      BY DEF IInv
<1> QED BY <1>1, DeviceInvariant, PTL

\* Every pin that is shown as INPUT or OUTPUT is one, GPIO16 too, for any
\* number of pins and any modes in the file (GPIOInit, handleSetMode,
\* handleConfigLoad, setup).
THEOREM PinsShown == Spec => []PinsAsShown
<1>1. IInv => PinsAsShown
      BY DEF IInv
<1> QED BY <1>1, DeviceInvariant, PTL
-----------------------------------------------------------------------------
(***************************************************************************)
(* The action properties.                                                  *)
(***************************************************************************)
\* GPIOInit is the only one that meets a restricted pin, and skips it.
LEMMA RestrictedStep ==
  IInv /\ [Next]_vars =>
    \A p \in Pins \ {Flash} : cfgPinsMode'[p] < 0 => hw'[p] \in {hw[p], AtReset[p]}
<1> SUFFICES ASSUME IInv, [Next]_vars, NEW p \in Pins \ {Flash}, cfgPinsMode'[p] < 0
             PROVE  hw'[p] \in {hw[p], AtReset[p]}
    OBVIOUS
<1> USE DEF IInv
<1>1. CASE Boot
  <2>1. PICK m \in ModeLists : cfgPinsMode' = m /\ hw' = GPIOInit(m, AtReset)
    <3>1. CASE \E s \in JSONLoad(file, DefaultText, DefaultModes) : Setup(s[1], s[2])
          BY <3>1, LoadType, TextsAssumption, ModesAssumption DEF TypeOK, Setup
    <3>2. CASE Setup(DefaultText, DefaultModes)
          BY <3>2, ModesAssumption DEF Setup
    <3> QED BY <1>1, <3>1, <3>2 DEF Boot
  <2>2. hw'[p] = AtReset[p]
        BY <2>1, ResetType, GPIOInitSkips
  <2> QED BY <2>2
<1>2. CASE ConfigLoad
  <2>1. PICK s \in JSONLoad(file, text, cfgPinsMode) :
               cfgPinsMode' = s[2] /\ hw' = GPIOInit(s[2], hw)
        BY <1>2 DEF ConfigLoad
  <2>2. s[2] \in ModeLists
        BY LoadType DEF TypeOK
  <2>3. hw'[p] = hw[p]
        BY <2>1, <2>2, GPIOInitSkips DEF TypeOK
  <2> QED BY <2>3
<1>3. CASE SaveOpen \/ SaveWrite \/ SaveCut \/ Edit \/ UNCHANGED vars
      BY <1>3 DEF SaveOpen, SaveWrite, SaveCut, Edit, vars
<1>4. ASSUME NEW q \in Pins, NEW mode \in {0, 1}, SetMode(q, mode)
      PROVE  hw'[p] = hw[p]
  <2>1. q # p
    <3>1. SUFFICES ASSUME q = p PROVE FALSE
          OBVIOUS
    <3>2. cfgPinsMode'[p] = mode
          BY <1>4, <3>1 DEF SetMode, Remember, TypeOK, ModeLists
    <3> QED BY <3>2
  <2> QED BY <1>4, <2>1 DEF SetMode, TypeOK
<1> QED BY <1>1, <1>2, <1>3, <1>4 DEF Next, ConfigLoadFails, SaveOpenFails

\* A pin that ends up restricted has not been reconfigured by the firmware.
THEOREM RestrictedUntouched == Spec => RestrictedLeftAlone
<1> QED BY DeviceInvariant, RestrictedStep, PTL DEF Spec, RestrictedLeftAlone

\* Restarts and loads end with the FLASH pin as an input; nothing but a
\* request for this very pin touches it otherwise.
LEMMA FlashStep ==
  IInv /\ [Next]_vars =>
    (hw'[Flash] # "INPUT" =>
       \/ SetMode(Flash, 1)
       \/ hw'[Flash] = hw[Flash] /\ ~Boot /\ ~ConfigLoad)
<1> SUFFICES ASSUME IInv, [Next]_vars, hw'[Flash] # "INPUT"
             PROVE  \/ SetMode(Flash, 1)
                    \/ hw'[Flash] = hw[Flash] /\ ~Boot /\ ~ConfigLoad
    OBVIOUS
<1>1. ~Boot
      BY GPIOInitFlash DEF Boot, Setup
<1>2. ~ConfigLoad
      BY GPIOInitFlash DEF ConfigLoad
<1>3. CASE SaveOpen \/ SaveWrite \/ SaveCut \/ Edit \/ UNCHANGED vars
      BY <1>1, <1>2, <1>3 DEF SaveOpen, SaveWrite, SaveCut, Edit, vars
<1>4. ASSUME NEW q \in Pins, NEW mode \in {0, 1}, SetMode(q, mode)
      PROVE  SetMode(Flash, 1) \/ hw'[Flash] = hw[Flash]
  <2>1. hw \in [Pins -> Directions] /\ hw' = [hw EXCEPT ![q] = PinMode(q, mode, hw[q])]
        BY <1>4 DEF SetMode, IInv, TypeOK
  <2>2. CASE q # Flash
        BY <2>1, <2>2, PinsAssumption
  <2>3. CASE q = Flash
    <3>1. PinMode(Flash, 0, hw[Flash]) = "INPUT"
          BY PinsAssumption, PinModeShown DEF ModeToString, Byte
    <3>2. mode = 1
          BY <1>4, <2>1, <2>3, <3>1, PinsAssumption
    <3> QED BY <1>4, <2>3, <3>2
  <2> QED BY <2>2, <2>3
<1> QED BY <1>1, <1>2, <1>3, <1>4 DEF Next, ConfigLoadFails, SaveOpenFails

\* The FLASH pin is an output only on request, and not beyond the next
\* restart or load, whatever config.json holds for it.
THEOREM FlashReturns == Spec => FlashOutputOnRequest
<1> QED BY DeviceInvariant, FlashStep, PTL DEF Spec, FlashOutputOnRequest

\* A restart and a load read the file that the save has left.
LEMMA RestoreStep ==
  IInv /\ [Next]_vars =>
    ((Boot \/ ConfigLoad) /\ saved # Nothing =>
       /\ text' = saved.text
       /\ cfgPinsMode' = saved.modes
       /\ Boot => hw' = GPIOInit(saved.modes, AtReset))
<1> SUFFICES ASSUME IInv, Boot \/ ConfigLoad, saved # Nothing
             PROVE  /\ text' = saved.text
                    /\ cfgPinsMode' = saved.modes
                    /\ Boot => hw' = GPIOInit(saved.modes, AtReset)
    OBVIOUS
<1>1. file = saved /\ saved \in Saves
      BY DEF IInv, TypeOK, SavedOnFlash
<1>2. ~LoadMayFail(file)
      BY <1>1, FilesAssumption DEF LoadMayFail, Saves, Readable
<1>3. CASE Boot
  <2>1. PICK s \in JSONLoad(file, DefaultText, DefaultModes) : Setup(s[1], s[2])
        BY <1>2, <1>3 DEF Boot
  <2>2. s[1] = saved.text /\ s[2] = saved.modes
        BY <1>1, <2>1, LoadOfSaved
  <2> QED BY <2>1, <2>2 DEF Setup
<1>4. CASE ConfigLoad /\ ~Boot
  <2>1. PICK s \in JSONLoad(file, text, cfgPinsMode) :
               text' = s[1] /\ cfgPinsMode' = s[2]
        BY <1>4 DEF ConfigLoad
  <2>2. s[1] = saved.text /\ s[2] = saved.modes
        BY <1>1, <2>1, LoadOfSaved
  <2> QED BY <1>4, <2>1, <2>2
<1> QED BY <1>3, <1>4

\* Settings that fit survive a restart at any point after the answer.
THEOREM SavedSurvives == Spec => RestartRestores
<1> QED BY DeviceInvariant, RestoreStep, PTL DEF Spec, RestartRestores
=============================================================================
