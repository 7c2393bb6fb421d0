--------------------------- MODULE ChatModesProofs ---------------------------
(***************************************************************************)
(* ModeInv is inductive, for every list of modes.  StateIsReal is not by   *)
(* itself: that a settled state has been entered rests on what a pass of   *)
(* the task has done so far (InvPass), on which mode's it is (InvSwitch),  *)
(* and, for the hold mode, on what it wants while it is not settled        *)
(* (InvHold).                                                              *)
(***************************************************************************)
EXTENDS ChatModes, TLAPS

LEMMA NamesOfModes == ModeSet \subseteq ModeNames /\ NoMode \notin ModeSet
                      /\ NoMode # "hold" /\ ~Listens(NoMode)
<1>1. ModeSet \subseteq ModeNames
  BY ModesAssumption DEF ModeSet
<1> QED
  BY <1>1, NoModeAssumption DEF ModeNames, Listens

\* Switching the wakeup flag keeps the types of the audio input.
LEMMA WakeupSetTypes ==
    ASSUME rec \in [auto : BOOLEAN, wake : BOOLEAN, vad : BOOLEAN],
           input \in {"open", "closed", "cut"},
           NEW w \in BOOLEAN, NEW a, WakeupSet(w, a)
    PROVE /\ rec' \in [auto : BOOLEAN, wake : BOOLEAN, vad : BOOLEAN]
          /\ input' \in {"open", "closed", "cut"}
<1>1. CASE rec.wake = w
  BY <1>1 DEF WakeupSet
<1>2. CASE rec.wake # w
  <2> DEFINE v == IF rec.auto THEN rec.vad ELSE w
  <2>1. v \in BOOLEAN
    OBVIOUS
  <2>2. rec' = [rec EXCEPT !.wake = w, !.vad = v]
    BY <1>2 DEF WakeupSet
  <2> QED
    BY <2>1, <2>2 DEF WakeupSet
<1> QED
  BY <1>1, <1>2

\* What a switch that has begun is made of.
LEMMA SwitchTyped ==
    ASSUME TypeOK, NEW t \in Switcher, sw[t].at # "none"
    PROVE /\ sw[t] # NoSwitch /\ sw[t].to \in ModeSet
          /\ sw[t] \in Begun
  BY DEF TypeOK, NoSwitch, Begun

LEMMA PreparedTypes ==
    ASSUME TypeOK, NEW m \in ModeSet, Prepared(m)
    PROVE /\ rec' \in [auto : BOOLEAN, wake : BOOLEAN, vad : BOOLEAN]
          /\ kws' \in ModeSet \cup {NoMode}
<1>1. rec' \in [auto : BOOLEAN, wake : BOOLEAN, vad : BOOLEAN]
  BY Zenon DEF TypeOK, Prepared
<1> QED
  BY <1>1 DEF TypeOK, Prepared

\* The initial states.
LEMMA ModeInvInit == Init => ModeInv
<1> SUFFICES ASSUME Init PROVE ModeInv
  OBVIOUS
<1>0. \A t \in Switcher : sw[t] = NoSwitch
  BY DEF Init
<1>1. TypeOK
  BY NamesOfModes DEF Init, TypeOK, State, AtRest, NoSwitch
<1>2. InvSwitch
  BY <1>0 DEF InvSwitch
<1>3. InvEars
  <2>1. \A t \in Switcher : sw[t].at = "none"
    BY <1>0 DEF NoSwitch
  <2> QED
    BY <2>1, NamesOfModes DEF InvEars, Init, Ear
<1>4. InvPass
  BY DEF Init, InvPass, Resting, AtRest
<1>5. StateIsReal /\ InvHold
  BY NamesOfModes DEF Init, StateIsReal, Settled, InvHold
<1> QED
  BY <1>1, <1>2, <1>3, <1>4, <1>5 DEF ModeInv

\* A pass begins.
LEMMA ReadStep == ASSUME ModeInv, TaskRead PROVE ModeInv'
<1>1. TypeOK'
  BY NamesOfModes DEF ModeInv, TaskRead, TypeOK, State, AtRest, NoSwitch, Resting
<1>2. InvSwitch'
  BY NamesOfModes DEF ModeInv, TaskRead, InvSwitch, NoSwitch, Switching, TypeOK, State
<1>3. InvEars'
  BY NamesOfModes DEF ModeInv, TaskRead, InvEars, Switching, NoSwitch, Ear, Listens, TypeOK, State, InvSwitch
<1>4. InvPass'
  BY NamesOfModes DEF ModeInv, TaskRead, InvPass, Resting, AtRest, Undisturbed, Switching, Entered, TypeOK, NoSwitch, State, InvSwitch, InvEars, StateIsReal, Settled, InvHold
<1>5. StateIsReal'
  BY NamesOfModes DEF ModeInv, TaskRead, StateIsReal, Settled, Undisturbed, Switching, Entered, Resting, AtRest, TypeOK, NoSwitch, State, InvSwitch, InvPass
<1>6. InvHold'
  BY NamesOfModes DEF ModeInv, TaskRead, InvHold, Undisturbed, Switching, Resting, AtRest, TypeOK, NoSwitch, State, InvSwitch, InvEars, InvPass, StateIsReal, Settled, Entered
<1> QED
  BY <1>1, <1>2, <1>3, <1>4, <1>5, <1>6 DEF ModeInv

\* A state is entered: what the pass does is what Entered says.
LEMMA IdleStep == ASSUME ModeInv, EnterIdle PROVE ModeInv'
<1>1. TypeOK'
  <2>1. TypeOK /\ task.at = "read" /\ task' = [task EXCEPT !.at = "entered"]
    BY DEF ModeInv, EnterIdle, Entering
  <2>2. task \in [at : {"read", "entered"}, m : ModeSet, s : State]
    BY <2>1 DEF TypeOK, AtRest
  <2>3. task' \in [at : {"read", "entered"}, m : ModeSet, s : State]
    BY <2>1, <2>2
  <2>4. rec' \in [auto : BOOLEAN, wake : BOOLEAN, vad : BOOLEAN] /\ input' \in {"open", "closed", "cut"}
    BY <2>1, WakeupSetTypes DEF TypeOK, EnterIdle
  <2>5. awake' \in [ModeSet -> BOOLEAN]
    BY <2>1, <2>2 DEF TypeOK, EnterIdle
  <2> QED
    BY <2>1, <2>3, <2>4, <2>5 DEF TypeOK, EnterIdle, Entering
<1>2. InvSwitch'
  BY NamesOfModes DEF ModeInv, EnterIdle, Entering, WakeupSet, InvSwitch, NoSwitch, Switching, TypeOK, State
<1>3. InvEars'
  BY NamesOfModes DEF ModeInv, EnterIdle, Entering, WakeupSet, InvEars, Switching, NoSwitch, Ear, Listens, TypeOK, State, InvSwitch
<1>4. InvPass'
  BY NamesOfModes DEF ModeInv, EnterIdle, Entering, WakeupSet, InvPass, Resting, AtRest, Undisturbed, Switching, Entered, TypeOK, NoSwitch, State, InvSwitch, InvEars, StateIsReal, Settled, InvHold
<1>5. StateIsReal'
  BY NamesOfModes DEF ModeInv, EnterIdle, Entering, WakeupSet, StateIsReal, Settled, Undisturbed, Switching, Entered, Resting, AtRest, TypeOK, NoSwitch, State, InvSwitch, InvPass
<1>6. InvHold'
  BY NamesOfModes DEF ModeInv, EnterIdle, Entering, WakeupSet, InvHold, Undisturbed, Switching, Resting, AtRest, TypeOK, NoSwitch, State, InvSwitch, InvEars, InvPass, StateIsReal, Settled, Entered
<1> QED
  BY <1>1, <1>2, <1>3, <1>4, <1>5, <1>6 DEF ModeInv

LEMMA ListenStep == ASSUME ModeInv, EnterListen PROVE ModeInv'
<1>1. TypeOK'
  <2>1. TypeOK /\ task.at = "read" /\ task' = [task EXCEPT !.at = "entered"]
    BY DEF ModeInv, EnterListen, Entering
  <2>2. task \in [at : {"read", "entered"}, m : ModeSet, s : State]
    BY <2>1 DEF TypeOK, AtRest
  <2>3. task' \in [at : {"read", "entered"}, m : ModeSet, s : State]
    BY <2>1, <2>2
  <2>4. rec' \in [auto : BOOLEAN, wake : BOOLEAN, vad : BOOLEAN] /\ input' \in {"open", "closed", "cut"}
    BY <2>1, WakeupSetTypes DEF TypeOK, EnterListen
  <2>5. awake' \in [ModeSet -> BOOLEAN]
    BY <2>1, <2>2 DEF TypeOK, EnterListen
  <2> QED
    BY <2>1, <2>3, <2>4, <2>5 DEF TypeOK, EnterListen, Entering
<1>2. InvSwitch'
  BY NamesOfModes DEF ModeInv, EnterListen, Entering, WakeupSet, Hears, InvSwitch, NoSwitch, Switching, TypeOK, State
<1>3. InvEars'
  BY NamesOfModes DEF ModeInv, EnterListen, Entering, WakeupSet, Hears, InvEars, Switching, NoSwitch, Ear, Listens, TypeOK, State, InvSwitch
<1>4. InvPass'
  BY NamesOfModes DEF ModeInv, EnterListen, Entering, WakeupSet, Hears, InvPass, Resting, AtRest, Undisturbed, Switching, Entered, TypeOK, NoSwitch, State, InvSwitch, InvEars, StateIsReal, Settled, InvHold
<1>5. StateIsReal'
  BY NamesOfModes DEF ModeInv, EnterListen, Entering, WakeupSet, Hears, StateIsReal, Settled, Undisturbed, Switching, Entered, Resting, AtRest, TypeOK, NoSwitch, State, InvSwitch, InvPass
<1>6. InvHold'
  BY NamesOfModes DEF ModeInv, EnterListen, Entering, WakeupSet, Hears, InvHold, Undisturbed, Switching, Resting, AtRest, TypeOK, NoSwitch, State, InvSwitch, InvEars, InvPass, StateIsReal, Settled, Entered
<1> QED
  BY <1>1, <1>2, <1>3, <1>4, <1>5, <1>6 DEF ModeInv

LEMMA UploadStep == ASSUME ModeInv, EnterUpload PROVE ModeInv'
<1>1. TypeOK'
  <2>1. TypeOK /\ task.at = "read" /\ task' = [task EXCEPT !.at = "entered"]
    BY DEF ModeInv, EnterUpload, Entering
  <2>2. task \in [at : {"read", "entered"}, m : ModeSet, s : State]
    BY <2>1 DEF TypeOK, AtRest
  <2>3. task' \in [at : {"read", "entered"}, m : ModeSet, s : State]
    BY <2>1, <2>2
  <2>4. rec' \in [auto : BOOLEAN, wake : BOOLEAN, vad : BOOLEAN] /\ input' \in {"open", "closed", "cut"}
    BY <2>1, Zenon DEF TypeOK, EnterUpload
  <2>5. awake' \in [ModeSet -> BOOLEAN]
    BY <2>1, <2>2 DEF TypeOK, EnterUpload
  <2> QED
    BY <2>1, <2>3, <2>4, <2>5 DEF TypeOK, EnterUpload, Entering
<1>2. InvSwitch'
  BY NamesOfModes DEF ModeInv, EnterUpload, Entering, InvSwitch, NoSwitch, Switching, TypeOK, State
<1>3. InvEars'
  BY NamesOfModes DEF ModeInv, EnterUpload, Entering, InvEars, Switching, NoSwitch, Ear, Listens, TypeOK, State, InvSwitch
<1>4. InvPass'
  BY NamesOfModes DEF ModeInv, EnterUpload, Entering, InvPass, Resting, AtRest, Undisturbed, Switching, Entered, TypeOK, NoSwitch, State, InvSwitch, InvEars, StateIsReal, Settled, InvHold
<1>5. StateIsReal'
  BY NamesOfModes DEF ModeInv, EnterUpload, Entering, StateIsReal, Settled, Undisturbed, Switching, Entered, Resting, AtRest, TypeOK, NoSwitch, State, InvSwitch, InvPass
<1>6. InvHold'
  BY NamesOfModes DEF ModeInv, EnterUpload, Entering, InvHold, Undisturbed, Switching, Resting, AtRest, TypeOK, NoSwitch, State, InvSwitch, InvEars, InvPass, StateIsReal, Settled, Entered
<1> QED
  BY <1>1, <1>2, <1>3, <1>4, <1>5, <1>6 DEF ModeInv

LEMMA ThinkStep == ASSUME ModeInv, EnterThink PROVE ModeInv'
<1>1. TypeOK'
  <2>1. TypeOK /\ task.at = "read" /\ task' = [task EXCEPT !.at = "entered"]
    BY DEF ModeInv, EnterThink, Entering
  <2>2. task \in [at : {"read", "entered"}, m : ModeSet, s : State]
    BY <2>1 DEF TypeOK, AtRest
  <2>3. task' \in [at : {"read", "entered"}, m : ModeSet, s : State]
    BY <2>1, <2>2
  <2>4. rec' \in [auto : BOOLEAN, wake : BOOLEAN, vad : BOOLEAN] /\ input' \in {"open", "closed", "cut"}
    BY <2>1, WakeupSetTypes DEF TypeOK, EnterThink, ThinkWake
  <2>5. awake' \in [ModeSet -> BOOLEAN]
    BY <2>1, <2>2 DEF TypeOK, EnterThink, ThinkAwake
  <2> QED
    BY <2>1, <2>3, <2>4, <2>5 DEF TypeOK, EnterThink, Entering
<1>2. InvSwitch'
  BY NamesOfModes DEF ModeInv, EnterThink, Entering, WakeupSet, Hears, ThinkWake, ThinkAwake, InvSwitch, NoSwitch, Switching, TypeOK, State
<1>3. InvEars'
  BY NamesOfModes DEF ModeInv, EnterThink, Entering, WakeupSet, Hears, ThinkWake, ThinkAwake, InvEars, Switching, NoSwitch, Ear, Listens, TypeOK, State, InvSwitch
<1>4. InvPass'
  BY NamesOfModes DEF ModeInv, EnterThink, Entering, WakeupSet, Hears, ThinkWake, ThinkAwake, InvPass, Resting, AtRest, Undisturbed, Switching, Entered, TypeOK, NoSwitch, State, InvSwitch, InvEars, StateIsReal, Settled, InvHold
<1>5. StateIsReal'
  BY NamesOfModes DEF ModeInv, EnterThink, Entering, WakeupSet, Hears, ThinkWake, ThinkAwake, StateIsReal, Settled, Undisturbed, Switching, Entered, Resting, AtRest, TypeOK, NoSwitch, State, InvSwitch, InvPass
<1>6. InvHold'
  BY NamesOfModes DEF ModeInv, EnterThink, Entering, WakeupSet, Hears, ThinkWake, ThinkAwake, InvHold, Undisturbed, Switching, Resting, AtRest, TypeOK, NoSwitch, State, InvSwitch, InvEars, InvPass, StateIsReal, Settled, Entered
<1> QED
  BY <1>1, <1>2, <1>3, <1>4, <1>5, <1>6 DEF ModeInv

LEMMA SpeakStep == ASSUME ModeInv, EnterSpeak PROVE ModeInv'
<1>1. TypeOK'
  BY NamesOfModes DEF ModeInv, EnterSpeak, Entering, TypeOK, State, AtRest, NoSwitch, Resting
<1>2. InvSwitch'
  BY NamesOfModes DEF ModeInv, EnterSpeak, Entering, InvSwitch, NoSwitch, Switching, TypeOK, State
<1>3. InvEars'
  BY NamesOfModes DEF ModeInv, EnterSpeak, Entering, InvEars, Switching, NoSwitch, Ear, Listens, TypeOK, State, InvSwitch
<1>4. InvPass'
  BY NamesOfModes DEF ModeInv, EnterSpeak, Entering, InvPass, Resting, AtRest, Undisturbed, Switching, Entered, TypeOK, NoSwitch, State, InvSwitch, InvEars, StateIsReal, Settled, InvHold
<1>5. StateIsReal'
  BY NamesOfModes DEF ModeInv, EnterSpeak, Entering, StateIsReal, Settled, Undisturbed, Switching, Entered, Resting, AtRest, TypeOK, NoSwitch, State, InvSwitch, InvPass
<1>6. InvHold'
  BY NamesOfModes DEF ModeInv, EnterSpeak, Entering, InvHold, Undisturbed, Switching, Resting, AtRest, TypeOK, NoSwitch, State, InvSwitch, InvEars, InvPass, StateIsReal, Settled, Entered
<1> QED
  BY <1>1, <1>2, <1>3, <1>4, <1>5, <1>6 DEF ModeInv

\* The pass ends.
LEMMA SettleStep == ASSUME ModeInv, TaskSettle PROVE ModeInv'
<1>1. TypeOK'
  BY NamesOfModes DEF ModeInv, TaskSettle, TypeOK, State, AtRest, NoSwitch, Resting
<1>2. InvSwitch'
  BY NamesOfModes DEF ModeInv, TaskSettle, InvSwitch, NoSwitch, Switching, TypeOK, State
<1>3. InvEars'
  BY NamesOfModes DEF ModeInv, TaskSettle, InvEars, Switching, NoSwitch, Ear, Listens, TypeOK, State, InvSwitch
<1>4. InvPass'
  BY NamesOfModes DEF ModeInv, TaskSettle, InvPass, Resting, AtRest, Undisturbed, Switching, Entered, TypeOK, NoSwitch, State, InvSwitch, InvEars, StateIsReal, Settled, InvHold
<1>5. StateIsReal'
  BY NamesOfModes DEF ModeInv, TaskSettle, StateIsReal, Settled, Undisturbed, Switching, Entered, Resting, AtRest, TypeOK, NoSwitch, State, InvSwitch, InvPass
<1>6. InvHold'
  BY NamesOfModes DEF ModeInv, TaskSettle, InvHold, Undisturbed, Switching, Resting, AtRest, TypeOK, NoSwitch, State, InvSwitch, InvEars, InvPass, StateIsReal, Settled, Entered
<1> QED
  BY <1>1, <1>2, <1>3, <1>4, <1>5, <1>6 DEF ModeInv

\* The audio input.
LEMMA SpeechStep == ASSUME ModeInv, Speech PROVE ModeInv'
<1>1. TypeOK'
  BY NamesOfModes DEF ModeInv, Speech, Touch, Pending, Hears, TypeOK, State, AtRest, NoSwitch, Resting
<1>2. InvSwitch'
  BY NamesOfModes DEF ModeInv, Speech, Touch, Pending, Hears, InvSwitch, NoSwitch, Switching, TypeOK, State
<1>3. InvEars'
  BY NamesOfModes DEF ModeInv, Speech, Touch, Pending, Hears, InvEars, Switching, NoSwitch, Ear, Listens, TypeOK, State, InvSwitch
<1>4. InvPass'
  BY NamesOfModes DEF ModeInv, Speech, Touch, Pending, Hears, InvPass, Resting, AtRest, Undisturbed, Switching, Entered, TypeOK, NoSwitch, State, InvSwitch, InvEars, StateIsReal, Settled, InvHold
<1>5. StateIsReal'
  BY NamesOfModes DEF ModeInv, Speech, Touch, Pending, Hears, StateIsReal, Settled, Undisturbed, Switching, Entered, Resting, AtRest, TypeOK, NoSwitch, State, InvSwitch, InvPass
<1>6. InvHold'
  BY NamesOfModes DEF ModeInv, Speech, Touch, Pending, Hears, InvHold, Undisturbed, Switching, Resting, AtRest, TypeOK, NoSwitch, State, InvSwitch, InvEars, InvPass, StateIsReal, Settled, Entered
<1> QED
  BY <1>1, <1>2, <1>3, <1>4, <1>5, <1>6 DEF ModeInv

LEMMA TextStep == ASSUME ModeInv, SendText PROVE ModeInv'
<1>1. TypeOK'
  BY NamesOfModes DEF ModeInv, SendText, TypeOK, State, AtRest, NoSwitch, Resting
<1>2. InvSwitch'
  BY NamesOfModes DEF ModeInv, SendText, InvSwitch, NoSwitch, Switching, TypeOK, State
<1>3. InvEars'
  BY NamesOfModes DEF ModeInv, SendText, InvEars, Switching, NoSwitch, Ear, Listens, TypeOK, State, InvSwitch
<1>4. InvPass'
  BY NamesOfModes DEF ModeInv, SendText, InvPass, Resting, AtRest, Undisturbed, Switching, Entered, TypeOK, NoSwitch, State, InvSwitch, InvEars, StateIsReal, Settled, InvHold
<1>5. StateIsReal'
  BY NamesOfModes DEF ModeInv, SendText, StateIsReal, Settled, Undisturbed, Switching, Entered, Resting, AtRest, TypeOK, NoSwitch, State, InvSwitch, InvPass
<1>6. InvHold'
  BY NamesOfModes DEF ModeInv, SendText, InvHold, Undisturbed, Switching, Resting, AtRest, TypeOK, NoSwitch, State, InvSwitch, InvEars, InvPass, StateIsReal, Settled, Entered
<1> QED
  BY <1>1, <1>2, <1>3, <1>4, <1>5, <1>6 DEF ModeInv

\* What the current mode is told.
LEMMA AsrEmptyStep == ASSUME ModeInv, AsrEmpty PROVE ModeInv'
<1>1. TypeOK'
  BY NamesOfModes DEF ModeInv, AsrEmpty, Wants, Touch, Pending, TypeOK, State, AtRest, NoSwitch, Resting
<1>2. InvSwitch'
  BY NamesOfModes DEF ModeInv, AsrEmpty, Wants, Touch, Pending, InvSwitch, NoSwitch, Switching, TypeOK, State
<1>3. InvEars'
  BY NamesOfModes DEF ModeInv, AsrEmpty, Wants, Touch, Pending, InvEars, Switching, NoSwitch, Ear, Listens, TypeOK, State, InvSwitch
<1>4. InvPass'
  BY NamesOfModes DEF ModeInv, AsrEmpty, Wants, Touch, Pending, InvPass, Resting, AtRest, Undisturbed, Switching, Entered, TypeOK, NoSwitch, State, InvSwitch, InvEars, StateIsReal, Settled, InvHold
<1>5. StateIsReal'
  BY NamesOfModes DEF ModeInv, AsrEmpty, Wants, Touch, Pending, StateIsReal, Settled, Undisturbed, Switching, Entered, Resting, AtRest, TypeOK, NoSwitch, State, InvSwitch, InvPass
<1>6. InvHold'
  BY NamesOfModes DEF ModeInv, AsrEmpty, Wants, Touch, Pending, InvHold, Undisturbed, Switching, Resting, AtRest, TypeOK, NoSwitch, State, InvSwitch, InvEars, InvPass, StateIsReal, Settled, Entered
<1> QED
  BY <1>1, <1>2, <1>3, <1>4, <1>5, <1>6 DEF ModeInv

LEMMA AsrOkStep == ASSUME ModeInv, AsrOk PROVE ModeInv'
<1>1. TypeOK'
  BY NamesOfModes DEF ModeInv, AsrOk, Wants, Touch, Pending, TypeOK, State, AtRest, NoSwitch, Resting
<1>2. InvSwitch'
  BY NamesOfModes DEF ModeInv, AsrOk, Wants, Touch, Pending, InvSwitch, NoSwitch, Switching, TypeOK, State
<1>3. InvEars'
  BY NamesOfModes DEF ModeInv, AsrOk, Wants, Touch, Pending, InvEars, Switching, NoSwitch, Ear, Listens, TypeOK, State, InvSwitch
<1>4. InvPass'
  BY NamesOfModes DEF ModeInv, AsrOk, Wants, Touch, Pending, InvPass, Resting, AtRest, Undisturbed, Switching, Entered, TypeOK, NoSwitch, State, InvSwitch, InvEars, StateIsReal, Settled, InvHold
<1>5. StateIsReal'
  BY NamesOfModes DEF ModeInv, AsrOk, Wants, Touch, Pending, StateIsReal, Settled, Undisturbed, Switching, Entered, Resting, AtRest, TypeOK, NoSwitch, State, InvSwitch, InvPass
<1>6. InvHold'
  BY NamesOfModes DEF ModeInv, AsrOk, Wants, Touch, Pending, InvHold, Undisturbed, Switching, Resting, AtRest, TypeOK, NoSwitch, State, InvSwitch, InvEars, InvPass, StateIsReal, Settled, Entered
<1> QED
  BY <1>1, <1>2, <1>3, <1>4, <1>5, <1>6 DEF ModeInv

LEMMA TtsPreStep == ASSUME ModeInv, TtsPre PROVE ModeInv'
<1>1. TypeOK'
  BY NamesOfModes DEF ModeInv, TtsPre, Wants, Touch, Pending, TypeOK, State, AtRest, NoSwitch, Resting
<1>2. InvSwitch'
  BY NamesOfModes DEF ModeInv, TtsPre, Wants, Touch, Pending, InvSwitch, NoSwitch, Switching, TypeOK, State
<1>3. InvEars'
  BY NamesOfModes DEF ModeInv, TtsPre, Wants, Touch, Pending, InvEars, Switching, NoSwitch, Ear, Listens, TypeOK, State, InvSwitch
<1>4. InvPass'
  BY NamesOfModes DEF ModeInv, TtsPre, Wants, Touch, Pending, InvPass, Resting, AtRest, Undisturbed, Switching, Entered, TypeOK, NoSwitch, State, InvSwitch, InvEars, StateIsReal, Settled, InvHold
<1>5. StateIsReal'
  BY NamesOfModes DEF ModeInv, TtsPre, Wants, Touch, Pending, StateIsReal, Settled, Undisturbed, Switching, Entered, Resting, AtRest, TypeOK, NoSwitch, State, InvSwitch, InvPass
<1>6. InvHold'
  BY NamesOfModes DEF ModeInv, TtsPre, Wants, Touch, Pending, InvHold, Undisturbed, Switching, Resting, AtRest, TypeOK, NoSwitch, State, InvSwitch, InvEars, InvPass, StateIsReal, Settled, Entered
<1> QED
  BY <1>1, <1>2, <1>3, <1>4, <1>5, <1>6 DEF ModeInv

LEMMA ExitStep == ASSUME ModeInv, Exit PROVE ModeInv'
<1>1. TypeOK'
  BY NamesOfModes DEF ModeInv, Exit, Wants, Touch, Pending, TypeOK, State, AtRest, NoSwitch, Resting
<1>2. InvSwitch'
  BY NamesOfModes DEF ModeInv, Exit, Wants, Touch, Pending, InvSwitch, NoSwitch, Switching, TypeOK, State
<1>3. InvEars'
  BY NamesOfModes DEF ModeInv, Exit, Wants, Touch, Pending, InvEars, Switching, NoSwitch, Ear, Listens, TypeOK, State, InvSwitch
<1>4. InvPass'
  BY NamesOfModes DEF ModeInv, Exit, Wants, Touch, Pending, InvPass, Resting, AtRest, Undisturbed, Switching, Entered, TypeOK, NoSwitch, State, InvSwitch, InvEars, StateIsReal, Settled, InvHold
<1>5. StateIsReal'
  BY NamesOfModes DEF ModeInv, Exit, Wants, Touch, Pending, StateIsReal, Settled, Undisturbed, Switching, Entered, Resting, AtRest, TypeOK, NoSwitch, State, InvSwitch, InvPass
<1>6. InvHold'
  BY NamesOfModes DEF ModeInv, Exit, Wants, Touch, Pending, InvHold, Undisturbed, Switching, Resting, AtRest, TypeOK, NoSwitch, State, InvSwitch, InvEars, InvPass, StateIsReal, Settled, Entered
<1> QED
  BY <1>1, <1>2, <1>3, <1>4, <1>5, <1>6 DEF ModeInv

LEMMA ClientRunStep == ASSUME ModeInv, ClientRun PROVE ModeInv'
<1>1. TypeOK'
  BY NamesOfModes DEF ModeInv, ClientRun, Wants, Touch, Pending, TypeOK, State, AtRest, NoSwitch, Resting
<1>2. InvSwitch'
  BY NamesOfModes DEF ModeInv, ClientRun, Wants, Touch, Pending, InvSwitch, NoSwitch, Switching, TypeOK, State
<1>3. InvEars'
  BY NamesOfModes DEF ModeInv, ClientRun, Wants, Touch, Pending, InvEars, Switching, NoSwitch, Ear, Listens, TypeOK, State, InvSwitch
<1>4. InvPass'
  BY NamesOfModes DEF ModeInv, ClientRun, Wants, Touch, Pending, InvPass, Resting, AtRest, Undisturbed, Switching, Entered, TypeOK, NoSwitch, State, InvSwitch, InvEars, StateIsReal, Settled, InvHold
<1>5. StateIsReal'
  BY NamesOfModes DEF ModeInv, ClientRun, Wants, Touch, Pending, StateIsReal, Settled, Undisturbed, Switching, Entered, Resting, AtRest, TypeOK, NoSwitch, State, InvSwitch, InvPass
<1>6. InvHold'
  BY NamesOfModes DEF ModeInv, ClientRun, Wants, Touch, Pending, InvHold, Undisturbed, Switching, Resting, AtRest, TypeOK, NoSwitch, State, InvSwitch, InvEars, InvPass, StateIsReal, Settled, Entered
<1> QED
  BY <1>1, <1>2, <1>3, <1>4, <1>5, <1>6 DEF ModeInv

LEMMA PlayEndStep == ASSUME ModeInv, PlayEnd PROVE ModeInv'
<1>1. TypeOK'
  BY NamesOfModes DEF ModeInv, PlayEnd, Wants, Touch, Pending, TypeOK, State, AtRest, NoSwitch, Resting
<1>2. InvSwitch'
  BY NamesOfModes DEF ModeInv, PlayEnd, Wants, Touch, Pending, InvSwitch, NoSwitch, Switching, TypeOK, State
<1>3. InvEars'
  BY NamesOfModes DEF ModeInv, PlayEnd, Wants, Touch, Pending, InvEars, Switching, NoSwitch, Ear, Listens, TypeOK, State, InvSwitch
<1>4. InvPass'
  BY NamesOfModes DEF ModeInv, PlayEnd, Wants, Touch, Pending, InvPass, Resting, AtRest, Undisturbed, Switching, Entered, TypeOK, NoSwitch, State, InvSwitch, InvEars, StateIsReal, Settled, InvHold
<1>5. StateIsReal'
  BY NamesOfModes DEF ModeInv, PlayEnd, Wants, Touch, Pending, StateIsReal, Settled, Undisturbed, Switching, Entered, Resting, AtRest, TypeOK, NoSwitch, State, InvSwitch, InvPass
<1>6. InvHold'
  BY NamesOfModes DEF ModeInv, PlayEnd, Wants, Touch, Pending, InvHold, Undisturbed, Switching, Resting, AtRest, TypeOK, NoSwitch, State, InvSwitch, InvEars, InvPass, StateIsReal, Settled, Entered
<1> QED
  BY <1>1, <1>2, <1>3, <1>4, <1>5, <1>6 DEF ModeInv

LEMMA KwsStep == ASSUME ModeInv, Kws PROVE ModeInv'
<1>1. TypeOK'
  BY NamesOfModes DEF ModeInv, Kws, Touch, Pending, Ear, Listens, TypeOK, State, AtRest, NoSwitch, Resting
<1>2. InvSwitch'
  BY NamesOfModes DEF ModeInv, Kws, Touch, Pending, Ear, Listens, InvSwitch, NoSwitch, Switching, TypeOK, State
<1>3. InvEars'
  BY NamesOfModes DEF ModeInv, Kws, Touch, Pending, Ear, Listens, InvEars, Switching, NoSwitch, TypeOK, State, InvSwitch
<1>4. InvPass'
  BY NamesOfModes DEF ModeInv, Kws, Touch, Pending, Ear, Listens, InvPass, Resting, AtRest, Undisturbed, Switching, Entered, TypeOK, NoSwitch, State, InvSwitch, InvEars, StateIsReal, Settled, InvHold
<1>5. StateIsReal'
  BY NamesOfModes DEF ModeInv, Kws, Touch, Pending, Ear, Listens, StateIsReal, Settled, Undisturbed, Switching, Entered, Resting, AtRest, TypeOK, NoSwitch, State, InvSwitch, InvPass
<1>6. InvHold'
  BY NamesOfModes DEF ModeInv, Kws, Touch, Pending, Ear, Listens, InvHold, Undisturbed, Switching, Resting, AtRest, TypeOK, NoSwitch, State, InvSwitch, InvEars, InvPass, StateIsReal, Settled, Entered
<1> QED
  BY <1>1, <1>2, <1>3, <1>4, <1>5, <1>6 DEF ModeInv

LEMMA ClickStep == ASSUME ModeInv, Click PROVE ModeInv'
<1>1. TypeOK'
  BY NamesOfModes DEF ModeInv, Click, Wants, Touch, Pending, TypeOK, State, AtRest, NoSwitch, Resting
<1>2. InvSwitch'
  BY NamesOfModes DEF ModeInv, Click, Wants, Touch, Pending, InvSwitch, NoSwitch, Switching, TypeOK, State
<1>3. InvEars'
  BY NamesOfModes DEF ModeInv, Click, Wants, Touch, Pending, InvEars, Switching, NoSwitch, Ear, Listens, TypeOK, State, InvSwitch
<1>4. InvPass'
  BY NamesOfModes DEF ModeInv, Click, Wants, Touch, Pending, InvPass, Resting, AtRest, Undisturbed, Switching, Entered, TypeOK, NoSwitch, State, InvSwitch, InvEars, StateIsReal, Settled, InvHold
<1>5. StateIsReal'
  BY NamesOfModes DEF ModeInv, Click, Wants, Touch, Pending, StateIsReal, Settled, Undisturbed, Switching, Entered, Resting, AtRest, TypeOK, NoSwitch, State, InvSwitch, InvPass
<1>6. InvHold'
  BY NamesOfModes DEF ModeInv, Click, Wants, Touch, Pending, InvHold, Undisturbed, Switching, Resting, AtRest, TypeOK, NoSwitch, State, InvSwitch, InvEars, InvPass, StateIsReal, Settled, Entered
<1> QED
  BY <1>1, <1>2, <1>3, <1>4, <1>5, <1>6 DEF ModeInv

LEMMA LongPressStep == ASSUME ModeInv, LongPress PROVE ModeInv'
<1>1. TypeOK'
  BY NamesOfModes DEF ModeInv, LongPress, Wants, Touch, Pending, TypeOK, State, AtRest, NoSwitch, Resting
<1>2. InvSwitch'
  BY NamesOfModes DEF ModeInv, LongPress, Wants, Touch, Pending, InvSwitch, NoSwitch, Switching, TypeOK, State
<1>3. InvEars'
  BY NamesOfModes DEF ModeInv, LongPress, Wants, Touch, Pending, InvEars, Switching, NoSwitch, Ear, Listens, TypeOK, State, InvSwitch
<1>4. InvPass'
  BY NamesOfModes DEF ModeInv, LongPress, Wants, Touch, Pending, InvPass, Resting, AtRest, Undisturbed, Switching, Entered, TypeOK, NoSwitch, State, InvSwitch, InvEars, StateIsReal, Settled, InvHold
<1>5. StateIsReal'
  BY NamesOfModes DEF ModeInv, LongPress, Wants, Touch, Pending, StateIsReal, Settled, Undisturbed, Switching, Entered, Resting, AtRest, TypeOK, NoSwitch, State, InvSwitch, InvPass
<1>6. InvHold'
  BY NamesOfModes DEF ModeInv, LongPress, Wants, Touch, Pending, InvHold, Undisturbed, Switching, Resting, AtRest, TypeOK, NoSwitch, State, InvSwitch, InvEars, InvPass, StateIsReal, Settled, Entered
<1> QED
  BY <1>1, <1>2, <1>3, <1>4, <1>5, <1>6 DEF ModeInv

LEMMA ReleaseStep == ASSUME ModeInv, Release PROVE ModeInv'
<1>1. TypeOK'
  BY NamesOfModes DEF ModeInv, Release, Wants, Touch, Pending, TypeOK, State, AtRest, NoSwitch, Resting
<1>2. InvSwitch'
  BY NamesOfModes DEF ModeInv, Release, Wants, Touch, Pending, InvSwitch, NoSwitch, Switching, TypeOK, State
<1>3. InvEars'
  BY NamesOfModes DEF ModeInv, Release, Wants, Touch, Pending, InvEars, Switching, NoSwitch, Ear, Listens, TypeOK, State, InvSwitch
<1>4. InvPass'
  BY NamesOfModes DEF ModeInv, Release, Wants, Touch, Pending, InvPass, Resting, AtRest, Undisturbed, Switching, Entered, TypeOK, NoSwitch, State, InvSwitch, InvEars, StateIsReal, Settled, InvHold
<1>5. StateIsReal'
  <2> SUFFICES ASSUME Settled', Undisturbed' PROVE Entered(mode, cur[mode])'
    BY DEF StateIsReal
  <2>1. Settled /\ Undisturbed /\ UNCHANGED <<mode, cur, awake, rec>>
    BY NamesOfModes DEF ModeInv, TypeOK, Release, Wants, Touch, Pending, Resting, Undisturbed, Settled, Switching
  <2> QED
    BY <2>1 DEF ModeInv, StateIsReal, Entered
<1>6. InvHold'
  <2> SUFFICES ASSUME Undisturbed', ~Switching', mode = "hold" PROVE InvHold'
    BY DEF Release, Wants, InvHold
  <2>1. TypeOK /\ InvHold /\ StateIsReal
    BY DEF ModeInv
  <2>2. Settled /\ Undisturbed /\ ~held' /\ rec' = rec /\ input' = input /\ awake' = awake
    BY NamesOfModes DEF Release, Wants, Touch, Pending, Resting, Undisturbed, Settled, Switching
  <2>3. Entered("hold", set["hold"])
    BY <2>1, <2>2 DEF StateIsReal, Settled
  <2>4. CASE awake["hold"]
    <3>1. set'["hold"] = "UPLOAD" /\ set["hold"] # "IDLE"
      BY <2>1, <2>3, <2>4 DEF Release, Wants, TypeOK, Entered
    <3> QED
      BY <2>1, <2>2, <2>4, <3>1 DEF InvHold, Settled
  <2>5. CASE ~awake["hold"]
    <3>1. set' = set /\ set["hold"] # "LISTEN"
      BY <2>3, <2>5 DEF Release, Entered
    <3> QED
      BY <2>1, <2>2, <2>5, <3>1 DEF InvHold, Settled
  <2> QED
    BY <2>4, <2>5
<1> QED
  BY <1>1, <1>2, <1>3, <1>4, <1>5, <1>6 DEF ModeInv

\* The three steps of a switch.
LEMMA EndStep == ASSUME ModeInv, NEW t \in Switcher, NEW to \in ModeSet, SwitchEnd(t, to) PROVE ModeInv'
<1>1. TypeOK'
  <2>1. sw' \in [Switcher -> {NoSwitch} \cup Begun]
    <3>1. [at |-> "ended", from |-> mode, to |-> to] \in Begun
      BY DEF ModeInv, TypeOK, Begun
    <3>2. sw \in [Switcher -> {NoSwitch} \cup Begun] /\ sw' = [sw EXCEPT ![t] = [at |-> "ended", from |-> mode, to |-> to]]
      BY DEF ModeInv, TypeOK, SwitchEnd
    <3> QED
      BY <3>1, <3>2 DEF Switcher
  <2>2. kws' \in ModeSet \cup {NoMode} /\ input' \in {"open", "closed", "cut"}
    BY DEF ModeInv, TypeOK, SwitchEnd, Ended
  <2>3. cur' \in [ModeSet -> State \cup {"INVALID"}]
    BY DEF ModeInv, TypeOK, SwitchEnd, Ended
  <2>4. clean' \in BOOLEAN /\ hit' \in BOOLEAN /\ strayed' \in BOOLEAN
    BY DEF ModeInv, TypeOK, SwitchEnd, Touch, Pending, Resting, Switching
  <2>5. TypeOK /\ UNCHANGED <<mode, saved, set, awake, rec, held, task>>
    BY DEF ModeInv, SwitchEnd
  <2> QED
    BY <2>1, <2>2, <2>3, <2>4, <2>5 DEF TypeOK
<1>2. InvSwitch'
  BY NamesOfModes DEF ModeInv, SwitchEnd, Ended, Touch, Pending, InvSwitch, NoSwitch, Switching, TypeOK, State
<1>3. InvEars'
  BY NamesOfModes DEF ModeInv, SwitchEnd, Ended, Touch, Pending, InvEars, Switching, NoSwitch, Begun, Ear, Listens, TypeOK, State, InvSwitch
<1>4. InvPass'
  BY NamesOfModes DEF ModeInv, SwitchEnd, Ended, Touch, Pending, InvPass, Resting, AtRest, Undisturbed, Switching, Entered, TypeOK, NoSwitch, State, InvSwitch, InvEars, StateIsReal, Settled, InvHold
<1>5. StateIsReal'
  BY NamesOfModes DEF ModeInv, SwitchEnd, Ended, Touch, Pending, StateIsReal, Settled, Undisturbed, Switching, Entered, Resting, AtRest, TypeOK, NoSwitch, State, InvSwitch, InvPass
<1>6. InvHold'
  BY NamesOfModes DEF ModeInv, SwitchEnd, Ended, Touch, Pending, InvHold, Undisturbed, Switching, Resting, AtRest, TypeOK, NoSwitch, State, InvSwitch, InvEars, InvPass, StateIsReal, Settled, Entered
<1> QED
  BY <1>1, <1>2, <1>3, <1>4, <1>5, <1>6 DEF ModeInv

LEMMA StartStep == ASSUME ModeInv, NEW t \in Switcher, SwitchStart(t) PROVE ModeInv'
<1>1. TypeOK'
  <2>1. TypeOK /\ sw[t].at = "ended"
    BY DEF ModeInv, SwitchStart
  <2>2. sw[t].to \in ModeSet /\ sw[t] \in Begun
    BY <2>1, SwitchTyped
  <2>3. rec' \in [auto : BOOLEAN, wake : BOOLEAN, vad : BOOLEAN]
        /\ kws' \in ModeSet \cup {NoMode}
    BY <2>1, <2>2, PreparedTypes DEF SwitchStart, Started
  <2>4. set' \in [ModeSet -> State] /\ awake' \in [ModeSet -> BOOLEAN]
    BY <2>1, <2>2 DEF TypeOK, SwitchStart, Started, State
  <2>5. sw' \in [Switcher -> {NoSwitch} \cup Begun]
    BY <2>1, <2>2 DEF TypeOK, SwitchStart, Begun
  <2> QED
    BY <2>1, <2>3, <2>4, <2>5 DEF TypeOK, SwitchStart
<1>2. InvSwitch'
  BY NamesOfModes DEF ModeInv, SwitchStart, Started, Prepared, InvSwitch, NoSwitch, Switching, TypeOK, State
<1>3. InvEars'
  <2>1. TypeOK /\ InvSwitch /\ InvEars /\ sw[t].at = "ended"
    BY DEF ModeInv, SwitchStart
  <2>2. sw[t] # NoSwitch /\ sw[t].to \in ModeSet /\ sw[t] \in Begun
    BY <2>1, SwitchTyped
  <2>3. sw' = [sw EXCEPT ![t].at = "started"] /\ sw'[t].at = "started" /\ sw'[t].to = sw[t].to
    BY <2>1, <2>2 DEF TypeOK, SwitchStart, Begun
  <2>4. ~strayed => kws = NoMode /\ \A u \in Switcher : u # t => sw'[u] = NoSwitch
    BY <2>1, <2>2, <2>3 DEF InvEars, InvSwitch, TypeOK
  <2>5. Switching'
    BY <2>3 DEF Switching, NoSwitch
  <2>6. /\ kws' = IF Listens(sw[t].to) THEN sw[t].to ELSE kws
        /\ rec'.auto = (sw[t].to # "hold")
        /\ sw[t].to = "hold" => set'["hold"] = "IDLE"
    BY <2>1, <2>2 DEF SwitchStart, Started, Prepared, TypeOK
  <2> QED
    BY <2>3, <2>4, <2>5, <2>6, NamesOfModes DEF InvEars, Ear, NoSwitch, SwitchStart
<1>4. InvPass'
  <2> SUFFICES ASSUME ~Resting, ~strayed PROVE InvPass'
    BY DEF SwitchStart, InvPass, Resting
  <2>1. InvPass /\ InvSwitch /\ TypeOK /\ sw[t].at = "ended"
    BY DEF ModeInv, SwitchStart
  <2>2. sw[t] # NoSwitch /\ sw[t].to # mode /\ sw[t].to \in ModeSet
    BY <2>1, SwitchTyped DEF InvSwitch, NoSwitch
  <2>3. mode \in ModeSet /\ set'[mode] = set[mode]
    BY <2>1, <2>2 DEF InvPass, TypeOK, SwitchStart, Started
  <2>4. Switching /\ Switching'
    <3>1. sw'[t].at = "started"
      BY <2>1 DEF TypeOK, SwitchStart
    <3> QED
      BY <2>2, <3>1 DEF Switching, NoSwitch
  <2>5. "hold" = mode => set'["hold"] = set["hold"]
    BY <2>3
  <2> QED
    BY <2>1, <2>3, <2>4, <2>5 DEF InvPass, SwitchStart, Resting
<1>5. StateIsReal'
  BY NamesOfModes DEF ModeInv, SwitchStart, Started, Prepared, StateIsReal, Settled, Undisturbed, Switching, Entered, Resting, AtRest, TypeOK, NoSwitch, State, InvSwitch, InvPass
<1>6. InvHold'
  BY NamesOfModes DEF ModeInv, SwitchStart, Started, Prepared, InvHold, Undisturbed, Switching, Resting, AtRest, TypeOK, NoSwitch, State, InvSwitch, InvEars, InvPass, StateIsReal, Settled, Entered
<1> QED
  BY <1>1, <1>2, <1>3, <1>4, <1>5, <1>6 DEF ModeInv

LEMMA FailStep == ASSUME ModeInv, NEW t \in Switcher, SwitchFails(t) PROVE ModeInv'
<1>1. TypeOK'
  <2>1. TypeOK /\ sw[t].at = "ended"
    BY DEF ModeInv, SwitchFails
  <2>2. sw[t].to \in ModeSet
    BY <2>1, SwitchTyped
  <2>3. rec' \in [auto : BOOLEAN, wake : BOOLEAN, vad : BOOLEAN]
        /\ kws' \in ModeSet \cup {NoMode}
    BY <2>1, <2>2, PreparedTypes DEF SwitchFails
  <2>4. sw' \in [Switcher -> {NoSwitch} \cup Begun]
    BY <2>1 DEF TypeOK, SwitchFails
  <2>5. saved' \in ModeNames
    <3>1. sw[t].from \in ModeSet \cup {NoMode}
      BY <2>1, SwitchTyped DEF Begun
    <3> QED
      BY <2>1, <3>1, NamesOfModes DEF TypeOK, SwitchFails, ModeNames
  <2> QED
    BY <2>1, <2>3, <2>4, <2>5 DEF TypeOK, SwitchFails
<1>2. InvSwitch'
  BY NamesOfModes DEF ModeInv, SwitchFails, Prepared, InvSwitch, NoSwitch, Switching, TypeOK, State
<1>3. InvEars'
  BY NamesOfModes DEF ModeInv, SwitchFails, Prepared, InvEars, Switching, NoSwitch, Ear, Listens, TypeOK, State, InvSwitch
<1>4. InvPass'
  BY DEF SwitchFails, InvPass
<1>5. StateIsReal'
  BY NamesOfModes DEF ModeInv, SwitchFails, Prepared, StateIsReal, Settled, Undisturbed, Switching, Entered, Resting, AtRest, TypeOK, NoSwitch, State, InvSwitch, InvPass
<1>6. InvHold'
  BY NamesOfModes DEF ModeInv, SwitchFails, Prepared, InvHold, Undisturbed, Switching, Resting, AtRest, TypeOK, NoSwitch, State, InvSwitch, InvEars, InvPass, StateIsReal, Settled, Entered
<1> QED
  BY <1>1, <1>2, <1>3, <1>4, <1>5, <1>6 DEF ModeInv

LEMMA DoneStep == ASSUME ModeInv, NEW t \in Switcher, SwitchDone(t) PROVE ModeInv'
<1>1. TypeOK'
  <2>1. TypeOK /\ sw[t].at = "started"
    BY DEF ModeInv, SwitchDone
  <2>2. sw[t].to \in ModeSet
    BY <2>1, SwitchTyped
  <2>3. sw' \in [Switcher -> {NoSwitch} \cup Begun]
    BY <2>1 DEF TypeOK, SwitchDone
  <2> QED
    BY <2>1, <2>2, <2>3, NamesOfModes DEF SwitchDone, TypeOK, Resting
<1>2. InvSwitch'
  BY NamesOfModes DEF ModeInv, SwitchDone, InvSwitch, NoSwitch, Switching, TypeOK, State
<1>3. InvEars'
  BY NamesOfModes DEF ModeInv, SwitchDone, InvEars, Switching, NoSwitch, Ear, Listens, TypeOK, State, InvSwitch
<1>4. InvPass'
  <2> SUFFICES ASSUME ~Resting, ~strayed PROVE InvPass'
    BY DEF SwitchDone, InvPass, Resting
  <2>1. TypeOK /\ InvSwitch /\ InvEars /\ InvPass /\ sw[t].at = "started"
    BY DEF ModeInv, SwitchDone
  <2>2. Switching /\ sw[t].to # mode /\ sw[t].to \in ModeSet
    BY <2>1, SwitchTyped DEF InvSwitch, Switching, NoSwitch
  <2>3. mode' = sw[t].to /\ mode' # NoMode /\ hit'
    BY <2>2, NamesOfModes DEF SwitchDone
  <2>4. clean' => /\ task.m # mode' /\ cur'[mode'] = "INVALID"
                  /\ mode' = "hold" => set'["hold"] = "IDLE"
    BY <2>1, <2>2, <2>3 DEF InvPass, InvEars, SwitchDone
  <2>5. ~Switching'
    <3>1. \A u \in Switcher : sw[u] # NoSwitch => u = t
      BY <2>1, SwitchTyped DEF InvSwitch, NoSwitch
    <3>2. sw' = [sw EXCEPT ![t] = NoSwitch] /\ sw'[t] = NoSwitch
      BY <2>1 DEF SwitchDone, TypeOK
    <3> QED
      BY <2>1, <3>1, <3>2 DEF Switching, TypeOK
  <2> QED
    BY <2>3, <2>4, <2>5 DEF InvPass, SwitchDone
<1>5. StateIsReal'
  BY NamesOfModes DEF ModeInv, SwitchDone, StateIsReal, Settled, Undisturbed, Switching, Entered, Resting, AtRest, TypeOK, NoSwitch, State, InvSwitch, InvPass
<1>6. InvHold'
  BY NamesOfModes DEF ModeInv, SwitchDone, InvHold, Undisturbed, Switching, Resting, AtRest, TypeOK, NoSwitch, State, InvSwitch, InvEars, InvPass, StateIsReal, Settled, Entered
<1> QED
  BY <1>1, <1>2, <1>3, <1>4, <1>5, <1>6 DEF ModeInv

\* The volume.
LEMMA VolumeStep == ASSUME ModeInv, SetVolume PROVE ModeInv'
<1>1. TypeOK'
  BY DefaultAssumption, NamesOfModes DEF ModeInv, SetVolume, TypeOK
<1>2. InvSwitch'
  BY NamesOfModes DEF ModeInv, SetVolume, InvSwitch, NoSwitch, Switching, TypeOK, State
<1>3. InvEars'
  BY NamesOfModes DEF ModeInv, SetVolume, InvEars, Switching, NoSwitch, Ear, Listens, TypeOK, State, InvSwitch
<1>4. InvPass'
  BY NamesOfModes DEF ModeInv, SetVolume, InvPass, Resting, AtRest, Undisturbed, Switching, Entered, TypeOK, NoSwitch, State, InvSwitch, InvEars, StateIsReal, Settled, InvHold
<1>5. StateIsReal'
  BY NamesOfModes DEF ModeInv, SetVolume, StateIsReal, Settled, Undisturbed, Switching, Entered, Resting, AtRest, TypeOK, NoSwitch, State, InvSwitch, InvPass
<1>6. InvHold'
  BY NamesOfModes DEF ModeInv, SetVolume, InvHold, Undisturbed, Switching, Resting, AtRest, TypeOK, NoSwitch, State, InvSwitch, InvEars, InvPass, StateIsReal, Settled, Entered
<1> QED
  BY <1>1, <1>2, <1>3, <1>4, <1>5, <1>6 DEF ModeInv

\* The network.
LEMMA ConnectedStep == ASSUME ModeInv, Connected PROVE ModeInv'
<1>1. TypeOK'
  BY NamesOfModes DEF ModeInv, Connected, Started, Prepared, Touch, Pending, TypeOK, State, AtRest, NoSwitch, Resting
<1>2. InvSwitch'
  BY NamesOfModes DEF ModeInv, Connected, Started, Prepared, Touch, Pending, InvSwitch, NoSwitch, Switching, TypeOK, State
<1>3. InvEars'
  <2> SUFFICES ASSUME ~strayed' PROVE InvEars'
    BY DEF InvEars
  <2>1. TypeOK /\ InvEars /\ ~strayed /\ ~Switching /\ mode \in {NoMode, saved}
    BY DEF ModeInv, Connected
  <2>2. \A u \in Switcher : sw'[u] = NoSwitch
    BY <2>1 DEF Connected, Switching
  <2>3. saved \in ModeSet /\ mode' = saved /\ mode' # NoMode
    BY <2>1, NamesOfModes DEF TypeOK, Connected
  <2>4. kws = Ear(mode)
    BY <2>1 DEF InvEars
  <2>5. kws' = Ear(saved)
    BY <2>1, <2>4, NamesOfModes DEF Connected, Started, Prepared, Ear
  <2>6. rec'.auto = (saved # "hold")
    BY <2>1 DEF Connected, Started, Prepared, TypeOK
  <2> QED
    BY <2>2, <2>3, <2>5, <2>6 DEF InvEars, NoSwitch
<1>4. InvPass'
  BY NamesOfModes DEF ModeInv, Connected, Started, Prepared, Touch, Pending, InvPass, Resting, AtRest, Undisturbed, Switching, Entered, TypeOK, NoSwitch, State, InvSwitch, InvEars, StateIsReal, Settled, InvHold
<1>5. StateIsReal'
  BY NamesOfModes DEF ModeInv, Connected, Started, Prepared, Touch, Pending, StateIsReal, Settled, Undisturbed, Switching, Entered, Resting, AtRest, TypeOK, NoSwitch, State, InvSwitch, InvPass
<1>6. InvHold'
  BY NamesOfModes DEF ModeInv, Connected, Started, Prepared, Touch, Pending, InvHold, Undisturbed, Switching, Resting, AtRest, TypeOK, NoSwitch, State, InvSwitch, InvEars, InvPass, StateIsReal, Settled, Entered
<1> QED
  BY <1>1, <1>2, <1>3, <1>4, <1>5, <1>6 DEF ModeInv

LEMMA ConnectedFailsStep == ASSUME ModeInv, ConnectedFails PROVE ModeInv'
<1>1. TypeOK'
  BY NamesOfModes DEF ModeInv, ConnectedFails, Prepared, TypeOK, State, AtRest, NoSwitch, Resting
<1>2. InvSwitch'
  BY NamesOfModes DEF ModeInv, ConnectedFails, Prepared, InvSwitch, NoSwitch, Switching, TypeOK, State
<1>3. InvEars'
  BY NamesOfModes DEF ModeInv, ConnectedFails, Prepared, InvEars, Switching, NoSwitch, Ear, Listens, TypeOK, State, InvSwitch
<1>4. InvPass'
  BY NamesOfModes DEF ModeInv, ConnectedFails, Prepared, InvPass, Resting, AtRest, Undisturbed, Switching, Entered, TypeOK, NoSwitch, State, InvSwitch, InvEars, StateIsReal, Settled, InvHold
<1>5. StateIsReal'
  BY NamesOfModes DEF ModeInv, ConnectedFails, Prepared, StateIsReal, Settled, Undisturbed, Switching, Entered, Resting, AtRest, TypeOK, NoSwitch, State, InvSwitch, InvPass
<1>6. InvHold'
  BY NamesOfModes DEF ModeInv, ConnectedFails, Prepared, InvHold, Undisturbed, Switching, Resting, AtRest, TypeOK, NoSwitch, State, InvSwitch, InvEars, InvPass, StateIsReal, Settled, Entered
<1> QED
  BY <1>1, <1>2, <1>3, <1>4, <1>5, <1>6 DEF ModeInv

\* Every other step leaves the state as it is.
LEMMA ModeStutter == ModeInv /\ UNCHANGED vars => ModeInv'
<1> SUFFICES ASSUME ModeInv, UNCHANGED vars PROVE ModeInv'
  OBVIOUS
<1> QED
  BY DEF vars, ModeInv, TypeOK, InvSwitch, InvEars, InvPass, StateIsReal, InvHold,
         Resting, Switching, Settled, Undisturbed, Entered

LEMMA ModeInvNext == ModeInv /\ [Next]_vars => ModeInv'
<1> SUFFICES ASSUME ModeInv, [Next]_vars PROVE ModeInv'
  OBVIOUS
<1>1. CASE Task
  BY <1>1, ReadStep, IdleStep, ListenStep, UploadStep, ThinkStep, SpeakStep,
     SettleStep DEF Task
<1>2. CASE Speech \/ SendText
  BY <1>2, SpeechStep, TextStep
<1>3. CASE Told
  BY <1>3, AsrEmptyStep, AsrOkStep, TtsPreStep, ExitStep, ClientRunStep,
     PlayEndStep, KwsStep, ClickStep, LongPressStep, ReleaseStep DEF Told
<1>4. ASSUME NEW t \in Switcher, Switch(t) PROVE ModeInv'
  BY <1>4, EndStep, StartStep, FailStep, DoneStep DEF Switch
<1>5. CASE SetVolume \/ Connected \/ ConnectedFails
  BY <1>5, VolumeStep, ConnectedStep, ConnectedFailsStep
<1> QED
  BY <1>1, <1>2, <1>3, <1>4, <1>5, ModeStutter DEF Next

\* The inductive invariant of the chat modes.
THEOREM ModeInvariance == Spec => []ModeInv
  BY ModeInvInit, ModeInvNext, PTL DEF Spec

\* Type correctness.
THEOREM ModeTypes == Spec => []TypeOK
<1>1. ModeInv => TypeOK
  BY DEF ModeInv
<1> QED
  BY <1>1, ModeInvariance, PTL

\* What the user is shown is what the audio input does.
THEOREM ShownIsReal == Spec => []StateIsReal
<1>1. ModeInv => StateIsReal
  BY DEF ModeInv
<1> QED
  BY <1>1, ModeInvariance, PTL

\* Without the button the hold mode does not record.
THEOREM QuietWithoutButton == Spec => []ReleasedIsQuiet
<1>1. ModeInv => ReleasedIsQuiet
  BY DEF ModeInv, ReleasedIsQuiet, InvHold, StateIsReal, Settled, Entered
<1> QED
  BY <1>1, ModeInvariance, PTL

\* While it listens, the hold mode has the input open.
THEOREM HeardWhileHeld == Spec => []HeldIsHeard
<1>1. ModeInv => HeldIsHeard
  BY DEF ModeInv, HeldIsHeard, InvHold, StateIsReal, Settled, Entered
<1> QED
  BY <1>1, ModeInvariance, PTL

\* Voice detection and wake word follow the mode.
THEOREM EarsOfMode == Spec => []EarsFollowMode
<1>1. ModeInv => EarsFollowMode
  BY DEF ModeInv, EarsFollowMode, InvEars
<1> QED
  BY <1>1, ModeInvariance, PTL
=============================================================================
