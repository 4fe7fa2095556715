------------------------------- MODULE Device -------------------------------
(***************************************************************************)
(* The configuration and the pins: config.json and the settings in RAM     *)
(* (JSONLoad, JSONSave), the direction of the pins (GPIOInit), and the     *)
(* requests /configLoad, /configSave and /setModeGPIO on them.             *)
(*                                                                         *)
(* A pin is its place in cfgPins. A text stands for all settings but the   *)
(* modes of the pins: what they are no property asks, only whether they    *)
(* fit into the static JSON buffer of JSONSave. The device may be reset    *)
(* or lose its power at any point. Simplifications: a file system that     *)
(* cannot be mounted counts as an unreadable file; the FLASH button, which *)
(* sets DEBUG at the start, is not pressed; levels are left out, and       *)
(* Blynk, which may set pins from outside.                                 *)
(***************************************************************************)
EXTENDS Integers

CONSTANTS PinsCount,
          Flash,         \* the pin of ButtonFLASH
          Serial,        \* the pins of the serial line
          Gpio16,        \* D0, which has registers of its own
          Modes,         \* what a mode in config.json may be
          DefaultModes, DefaultText,
          Texts,
          Kept,          \* Kept[t]: what of text t fits into the buffer
          Room,          \* Room[t]: modes that fit beside it, -1: not even the key
          NoText, NoModes, Unreadable, Torn, Nothing

Pins      == 1..PinsCount
ModeLists == [Pins -> Modes]

ASSUME PinsAssumption ==
  /\ PinsCount \in Nat /\ Serial \subseteq Pins
  /\ Flash \in Pins /\ Gpio16 \in Pins \ (Serial \cup {Flash})
ASSUME ModesAssumption ==
  {0, 1} \subseteq Modes /\ Modes \subseteq Int /\ DefaultModes \in ModeLists
ASSUME TextsAssumption ==
  /\ DefaultText \in Texts /\ NoText \notin Texts /\ NoModes \notin ModeLists
  /\ Kept \in [Texts -> Texts] /\ Room \in [Texts -> -1..PinsCount]
\* The labels, part of the text, come after the modes.
ASSUME RoomAssumption == \A t \in Texts : Kept[t] = t => Room[t] = PinsCount

Readable == [text : Texts \cup {NoText}, modes : ModeLists \cup {NoModes}]
Saves    == [text : Texts, modes : ModeLists]

ASSUME FilesAssumption == {Unreadable, Torn, Nothing} \cap Readable = {} /\ Unreadable # Torn

VARIABLES text, cfgPinsMode,
          hw,      \* what each pin is
          file,    \* config.json, as JSONLoad would read it
          saving,  \* JSONSave is between opening the file and writing it
          saved    \* settings /configSave has answered for and nobody has replaced

vars == <<text, cfgPinsMode, hw, file, saving, saved>>

Directions == {"INPUT", "OUTPUT", "PULLUP", "DRAIN", "WAKEUP", "FUNCTION", "SERIAL",
               "PULLDOWN"}

TypeOK ==
  /\ text \in Texts
  /\ cfgPinsMode \in ModeLists
  /\ hw \in [Pins -> Directions]
  /\ file \in Readable \cup {Unreadable, Torn}
  /\ saving \in BOOLEAN
  /\ saved \in Saves \cup {Nothing}
-----------------------------------------------------------------------------
(***************************************************************************)
(* The pins.                                                               *)
(***************************************************************************)
\* pinMode takes a byte.
Byte(mode) == mode % 256

\* pinMode for a pin that was d. GPIO16 knows three modes; any other takes
\* its pulldown away and leaves its direction.
PinMode(p, mode, d) ==
  LET b == Byte(mode)
      Gpio16Mode == CASE b = 0 -> "INPUT"
                      [] b = 4 -> "PULLDOWN"
                      [] b = 1 -> "OUTPUT"
                      [] OTHER -> IF d = "PULLDOWN" THEN "INPUT" ELSE d
      GpioMode   == CASE (b \div 8) % 2 = 1 -> "FUNCTION"
                      [] b = 0 -> "INPUT"
                      [] b = 1 -> "OUTPUT"
                      [] b = 2 -> "PULLUP"
                      [] b = 3 -> "DRAIN"
                      [] b \in {5, 7} -> "WAKEUP"
                      [] OTHER -> d
  IN IF p = Gpio16 THEN Gpio16Mode ELSE GpioMode

\* What the pages and /getModeStr call a mode; it takes a char.
ModeToString(mode) == CASE Byte(mode) = 0 -> "INPUT"
                        [] Byte(mode) = 1 -> "OUTPUT"
                        [] OTHER -> "unchanged"

\* initPins, then Serial.begin.
AtReset == [p \in Pins |-> IF p \in Serial THEN "SERIAL" ELSE "INPUT"]

\* Mutant: restricted pins are set like the others.
SetAllPins(modes, dirs) ==
  [p \in Pins |-> IF p = Flash THEN "INPUT" ELSE PinMode(p, modes[p], dirs[p])]

\* Mutant: pins set to INPUT are left as they were.
SetOutputs(modes, dirs) ==
  [p \in Pins |-> IF p = Flash THEN "INPUT"
                  ELSE IF modes[p] <= 0 THEN dirs[p]
                  ELSE PinMode(p, modes[p], dirs[p])]

\* Mutant: the FLASH pin is set like the others.
SetFlashToo(modes, dirs) ==
  [p \in Pins |-> IF modes[p] < 0 THEN dirs[p] ELSE PinMode(p, modes[p], dirs[p])]

GPIOInit(modes, dirs) ==
  [p \in Pins |-> IF p = Flash THEN "INPUT"
                  ELSE IF modes[p] < 0 THEN dirs[p]
                  ELSE PinMode(p, modes[p], dirs[p])]
-----------------------------------------------------------------------------
(***************************************************************************)
(* The file.                                                               *)
(***************************************************************************)
\* The settings JSONLoad may leave behind when it returns true. The text of
\* a torn file has no end: the parser runs on into the heap.
JSONLoad(f, t, modes) ==
  CASE f = Unreadable -> {}
    [] f = Torn -> Texts \X ModeLists
    [] OTHER -> {<<IF f.text = NoText THEN t ELSE f.text,
                   IF f.modes = NoModes THEN modes ELSE f.modes>>}

LoadMayFail(f) == f \in {Unreadable, Torn}

\* Mutant: the last mode does not make it into the array.
AllButLast(t, modes) ==
  [text |-> Kept[t], modes |-> [p \in Pins |-> IF p < PinsCount THEN modes[p] ELSE 0]]

\* Mutant: the elements that are missing stay missing.
ShortArray(t, modes) == [text |-> Kept[t], modes |-> [p \in 1..Room[t] |-> modes[p]]]

\* What JSONSave writes, as a load reads it: a missing element is 0.
Document(t, modes) ==
  [text |-> Kept[t],
   modes |-> IF Room[t] < 0 THEN NoModes
             ELSE [p \in Pins |-> IF p <= Room[t] THEN modes[p] ELSE 0]]

Fits(t) == Kept[t] = t
-----------------------------------------------------------------------------
\* setup() from Serial.begin to GPIOInit.
Setup(t, modes) == /\ text' = t
                   /\ cfgPinsMode' = modes
                   /\ hw' = GPIOInit(modes, AtReset)

Init ==
  /\ file \in Readable \cup {Unreadable, Torn}
  /\ \/ \E s \in JSONLoad(file, DefaultText, DefaultModes) :
          text = s[1] /\ cfgPinsMode = s[2]
     \/ LoadMayFail(file) /\ text = DefaultText /\ cfgPinsMode = DefaultModes
  /\ hw = GPIOInit(cfgPinsMode, AtReset)
  /\ saving = FALSE
  /\ saved = Nothing

\* Power, a reset, /sysRestart, an exception: at any point.
Boot ==
  /\ \/ \E s \in JSONLoad(file, DefaultText, DefaultModes) : Setup(s[1], s[2])
     \/ LoadMayFail(file) /\ Setup(DefaultText, DefaultModes)
  /\ saving' = FALSE
  /\ UNCHANGED <<file, saved>>

\* Answers Result 0.
ConfigLoad ==
  /\ ~saving
  /\ \E s \in JSONLoad(file, text, cfgPinsMode) :
       /\ text' = s[1] /\ cfgPinsMode' = s[2]
       /\ hw' = GPIOInit(s[2], hw)
  /\ UNCHANGED <<file, saving, saved>>

\* Answers Result -1: nothing is assigned, no pin set.
ConfigLoadFails == ~saving /\ LoadMayFail(file) /\ UNCHANGED vars

\* Opening for writing empties the file.
SaveOpen ==
  /\ ~saving
  /\ file' = Torn /\ saving' = TRUE /\ saved' = Nothing
  /\ UNCHANGED <<text, cfgPinsMode, hw>>

\* Answers Result -1.
SaveOpenFails == ~saving /\ UNCHANGED vars

AnsweredFor == IF Fits(text) THEN [text |-> text, modes |-> cfgPinsMode] ELSE Nothing

SaveWrite ==
  /\ saving
  /\ file' = Document(text, cfgPinsMode)
  /\ saving' = FALSE
  /\ saved' = AnsweredFor
  /\ UNCHANGED <<text, cfgPinsMode, hw>>

\* The file system is full. Result 0 all the same.
SaveCut == saving /\ saving' = FALSE /\ UNCHANGED <<text, cfgPinsMode, hw, file, saved>>

Remember(p, mode) == cfgPinsMode' = [cfgPinsMode EXCEPT ![p] = mode]

\* Any pin in cfgPins, restricted or not; a pin that is no number is GPIO0.
SetMode(p, mode) ==
  /\ ~saving
  /\ hw' = [hw EXCEPT ![p] = PinMode(p, mode, @)]
  /\ Remember(p, mode)
  /\ UNCHANGED <<text, file, saving, saved>>

\* /edit replaces or deletes config.json.
Edit == /\ ~saving
        /\ file' \in Readable \cup {Unreadable, Torn}
        /\ saved' = Nothing
        /\ UNCHANGED <<text, cfgPinsMode, hw, saving>>

Next == \/ Boot \/ ConfigLoad \/ ConfigLoadFails
        \/ SaveOpen \/ SaveOpenFails \/ SaveWrite \/ SaveCut
        \/ \E p \in Pins, mode \in {0, 1} : SetMode(p, mode)
        \/ Edit

Spec == Init /\ [][Next]_vars
-----------------------------------------------------------------------------
(***************************************************************************)
(* Properties.                                                             *)
(***************************************************************************)
\* Where the page and /getModeStr show INPUT or OUTPUT, the pin is one, also
\* GPIO16, through loads, saves, changes and restarts in any order (GPIOInit
\* after every JSONLoad that returns true, handleSetMode's two assignments).
\* The FLASH pin, which is always shown as an input, has its own property.
PinsAsShown ==
  \A p \in Pins \ {Flash} :
    cfgPinsMode[p] >= 0 /\ ModeToString(cfgPinsMode[p]) # "unchanged"
      => hw[p] = ModeToString(cfgPinsMode[p])

\* The FLASH pin is an output only from a request that makes it one to the
\* next load or restart: a mode for it in config.json, saved after such a
\* request or edited, never reaches the pin (GPIOInit, lines 224-225 and 258).
FlashOutputOnRequest ==
  [][hw'[Flash] # "INPUT" =>
       \/ SetMode(Flash, 1)
       \/ hw'[Flash] = hw[Flash] /\ ~Boot /\ ~ConfigLoad]_vars

\* A pin that ends up restricted has not been reconfigured on the way there:
\* it is what it was, or what a reset makes it (GPIOInit, lines 235-242).
RestrictedLeftAlone ==
  [][\A p \in Pins \ {Flash} :
       cfgPinsMode'[p] < 0 => hw'[p] \in {hw[p], AtReset[p]}]_vars

\* What /configSave has answered for, a restart or a load brings back,
\* whatever was loaded, set or lost in between, as long as the settings
\* fitted and no other save has been begun (JSONSave, JSONLoad).
RestartRestores ==
  [][(Boot \/ ConfigLoad) /\ saved # Nothing =>
       /\ text' = saved.text
       /\ cfgPinsMode' = saved.modes
       /\ Boot => hw' = GPIOInit(saved.modes, AtReset)]_vars
=============================================================================
