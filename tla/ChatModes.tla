------------------------------ MODULE ChatModes ------------------------------
(***************************************************************************)
(* The ways of talking to the device: the chat modes of ai_mode/, the      *)
(* manager that switches between them, the thread ai_chat_mode and the     *)
(* part of the audio input they drive (ai_audio_input.c).                  *)
(*                                                                         *)
(* A mode is told what has happened by other threads - the cloud's         *)
(* callbacks, the player, the button, the wake word, the network - and     *)
(* writes down the state it wants (set).  ai_chat_mode looks every 20 ms,  *)
(* does what entering that state takes, and only then writes down that it  *)
(* is there (cur), without a lock and without looking again at what it has *)
(* entered.  A switch runs on the button's thread or on the MCP work queue *)
(* and has three steps: the old mode is ended, the new one is started, and *)
(* the current mode is changed.  The KV store does not fail.               *)
(***************************************************************************)
EXTENDS Naturals, Sequences, FiniteSets

CONSTANTS
    Modes,     \* the registered modes, in the order of the list
    Default,   \* sg_ai_default_mode
    NoMode     \* no mode yet, or no mode that the wake word belongs to

ModeNames == {"hold", "oneshot", "wakeup", "free"}

ASSUME ModesAssumption ==
    /\ Modes \in Seq(ModeNames) /\ Modes # <<>>
    /\ \A i, j \in DOMAIN Modes : Modes[i] = Modes[j] => i = j
ASSUME NoModeAssumption == NoMode \notin ModeNames
ASSUME DefaultAssumption == Default \in ModeNames

VARIABLES
    mode,      \* sg_curr_mode_ctrl
    saved,     \* the mode of the KV store, registered or not
    set,       \* sg_mode_set_state of each mode
    cur,       \* sg_mode_cur_state of each mode
    awake,     \* sg_is_wakeup of each mode
    kws,       \* the mode whose callback the enabled wake word calls
    rec,       \* sg_recorder: vad_mode is AUTO, wakeup_flag, vad_flag is START
    input,     \* the cloud's input: open to speech, closed, or cut by a text
    held,      \* the button has been down for long
    task,      \* ai_chat_mode: where it is, with which mode and which state
    sw,        \* each thread that switches: where it is, from and to which mode
    clean,     \* history: no event since the last quiet state came too early
    hit,       \* history: an event came during the present pass of the task
    strayed    \* history: a start failed, or two threads changed the mode

vars == <<mode, saved, set, cur, awake, kws, rec, input, held, task, sw, clean,
          hit, strayed>>

ModeSet  == {Modes[i] : i \in DOMAIN Modes}
Switcher == {"button", "tool"}
State    == {"INIT", "IDLE", "LISTEN", "UPLOAD", "THINK", "SPEAK"}
AtRest   == [at |-> "rest", m |-> NoMode, s |-> "INIT"]
NoSwitch == [at |-> "none", from |-> NoMode, to |-> NoMode]

\* A switch that has begun.
Begun == [at : {"ended", "started"}, from : ModeSet \cup {NoMode}, to : ModeSet]

\* What the source files of the modes do not have in common.
Listens(m)    == m \in {"wakeup", "free"}     \* for the wake word
ThinkAwake(m) == m \in {"oneshot", "free"}
ThinkWake(m)  == m = "free"

TypeOK ==
    /\ mode \in ModeSet \cup {NoMode} /\ saved \in ModeNames
    /\ set \in [ModeSet -> State] /\ cur \in [ModeSet -> State \cup {"INVALID"}]
    /\ awake \in [ModeSet -> BOOLEAN] /\ kws \in ModeSet \cup {NoMode}
    /\ rec \in [auto : BOOLEAN, wake : BOOLEAN, vad : BOOLEAN]
    /\ input \in {"open", "closed", "cut"} /\ held \in BOOLEAN
    /\ \/ task = AtRest
       \/ task \in [at : {"read", "entered"}, m : ModeSet, s : State]
    /\ sw \in [Switcher -> {NoSwitch} \cup Begun]
    /\ clean \in BOOLEAN /\ hit \in BOOLEAN /\ strayed \in BOOLEAN

\* ai_chat_init; the mode starts when the network is there.
Init ==
    /\ mode = NoMode /\ saved \in ModeSet
    /\ set = [m \in ModeSet |-> "INIT"] /\ cur = [m \in ModeSet |-> "INVALID"]
    /\ awake = [m \in ModeSet |-> FALSE] /\ kws = NoMode
    /\ rec = [auto |-> FALSE, wake |-> FALSE, vad |-> FALSE]
    /\ input = "closed" /\ held = FALSE
    /\ task = AtRest /\ sw = [t \in Switcher |-> NoSwitch]
    /\ clean = TRUE /\ hit = FALSE /\ strayed = FALSE

-----------------------------------------------------------------------------
(* The histories.                                                          *)

Resting == task.at = "rest"
Pending(m) == ~Resting \/ set[m] # cur[m]
Switching == \E t \in Switcher : sw[t] # NoSwitch

\* An event of mode m comes before the task has taken the one before.
Touch(m) == clean' = (clean /\ ~Pending(m)) /\ hit' = ~Resting

-----------------------------------------------------------------------------
(* The audio input.                                                        *)

\* Mode m does what the voice detection tells it only while it is awake.
Hears(m, a) == m # NoMode /\ (m = "hold" \/ a[m])

\* A mutant: the flag does not follow.
WakeupSetAlone(w, a) == rec' = [rec EXCEPT !.wake = w] /\ UNCHANGED input

\* ai_audio_input_wakeup_set.  With manual detection the flag follows; the
\* news is published only if the flag is on by then, so a stop never is.
WakeupSet(w, a) ==
    /\ rec' = IF rec.wake = w THEN rec
              ELSE [rec EXCEPT !.wake = w, !.vad = IF rec.auto THEN @ ELSE w]
    /\ input' = IF w /\ ~rec.wake /\ ~rec.auto /\ Hears(mode, a) THEN "open"
                ELSE input

\* __record_task finds that somebody has begun or ended to speak.
Speech ==
    /\ rec.wake /\ rec.auto
    /\ rec' = [rec EXCEPT !.vad = ~@]
    /\ input' = IF ~Hears(mode, awake) THEN input
                ELSE IF rec.vad THEN "closed" ELSE "open"
    /\ IF mode = NoMode THEN UNCHANGED <<clean, hit>> ELSE Touch(mode)
    /\ UNCHANGED <<mode, saved, set, cur, awake, kws, held, task, sw, strayed>>

\* ai_agent_send_text: a turn of the agent loop opens the same input and
\* closes it behind its text.
SendText ==
    /\ input' = IF input = "open" THEN "cut" ELSE input
    /\ UNCHANGED <<mode, saved, set, cur, awake, kws, rec, held, task, sw, clean,
                   hit, strayed>>

-----------------------------------------------------------------------------
(* ai_chat_mode: one pass of the current mode's task.                      *)

TaskRead ==
    /\ Resting /\ mode # NoMode /\ set[mode] # cur[mode]
    /\ task' = [at |-> "read", m |-> mode, s |-> set[mode]]
    /\ hit' = FALSE
    /\ UNCHANGED <<mode, saved, set, cur, awake, kws, rec, input, held, sw,
                   clean, strayed>>

Entering(s) ==
    /\ task.at = "read" /\ task.s = s
    /\ task' = [task EXCEPT !.at = "entered"]
    /\ UNCHANGED <<mode, saved, set, cur, kws, held, sw, clean, hit, strayed>>

\* A mutant: the mode stays awake.
EnterIdleAwake == Entering("IDLE") /\ UNCHANGED awake /\ WakeupSet(FALSE, awake)

EnterIdle ==
    /\ Entering("IDLE")
    /\ awake' = [awake EXCEPT ![task.m] = FALSE]
    /\ WakeupSet(FALSE, awake)

EnterListen ==
    /\ Entering("LISTEN")
    /\ awake' = [awake EXCEPT ![task.m] = TRUE]
    /\ WakeupSet(TRUE, awake')

\* A mutant: the recorder goes on.
EnterUploadOn ==
    /\ Entering("UPLOAD")
    /\ awake' = [awake EXCEPT ![task.m] = FALSE] /\ input' = "closed"
    /\ UNCHANGED rec

\* Only the button of the hold mode asks for it.
EnterUpload ==
    /\ Entering("UPLOAD")
    /\ awake' = [awake EXCEPT ![task.m] = FALSE]
    /\ rec' = [rec EXCEPT !.wake = FALSE, !.vad = @ /\ (rec.auto \/ ~rec.wake)]
    /\ input' = "closed"

EnterThink ==
    /\ Entering("THINK")
    /\ awake' = IF task.m = "hold" THEN awake
                ELSE [awake EXCEPT ![task.m] = ThinkAwake(task.m)]
    /\ WakeupSet(ThinkWake(task.m), awake)

EnterSpeak == Entering("SPEAK") /\ UNCHANGED <<awake, rec, input>>

\* The pass ends: whatever state is wanted by now is the state.
TaskSettle ==
    /\ task.at = "entered"
    /\ cur' = [cur EXCEPT ![task.m] = set[task.m]]
    /\ clean' = (clean \/ (~hit /\ task.s \in {"IDLE", "UPLOAD"}))
    /\ task' = AtRest /\ hit' = FALSE
    /\ UNCHANGED <<mode, saved, set, awake, kws, rec, input, held, sw, strayed>>

Task == TaskRead \/ EnterIdle \/ EnterListen \/ EnterUpload \/ EnterThink
        \/ EnterSpeak \/ TaskSettle

-----------------------------------------------------------------------------
(* What the current mode is told.                                          *)

\* The current mode wants the state s.
Wants(s) ==
    /\ mode # NoMode
    /\ set' = [set EXCEPT ![mode] = s]
    /\ Touch(mode)
    /\ UNCHANGED <<mode, saved, cur, kws, rec, input, task, sw, strayed>>

AsrEmpty  == Wants(IF mode = "hold" THEN "IDLE" ELSE "LISTEN") /\ UNCHANGED <<awake, held>>
AsrOk     == Wants("THINK") /\ UNCHANGED <<awake, held>>
TtsPre    == Wants("SPEAK") /\ UNCHANGED <<awake, held>>
Exit      == mode # "hold" /\ Wants("IDLE") /\ UNCHANGED <<awake, held>>
ClientRun == Wants("IDLE") /\ UNCHANGED <<awake, held>>

\* The player has nothing left to play.
PlayEnd ==
    /\ mode # NoMode /\ Wants(IF awake[mode] THEN "LISTEN" ELSE "IDLE")
    /\ UNCHANGED <<awake, held>>

\* The callback of the mode that has enabled the wake word last, be it the
\* current mode or not.
Kws ==
    /\ kws # NoMode
    /\ set' = [set EXCEPT ![kws] = "LISTEN"] /\ awake' = [awake EXCEPT ![kws] = TRUE]
    /\ Touch(kws)
    /\ UNCHANGED <<mode, saved, cur, kws, rec, input, held, task, sw, strayed>>

Click ==
    /\ ~held
    /\ Wants(IF mode = "hold" THEN "IDLE" ELSE "LISTEN")
    /\ awake' = [awake EXCEPT ![mode] = mode # "hold"]
    /\ UNCHANGED held

LongPress ==
    /\ ~held /\ held' = TRUE
    /\ mode = "hold" /\ Wants("LISTEN")
    /\ UNCHANGED awake

\* Ignored by a mode that is not awake.
Release ==
    /\ held /\ held' = FALSE
    /\ IF mode = "hold" /\ awake["hold"] THEN Wants("UPLOAD")
       ELSE /\ Touch("hold")
            /\ UNCHANGED <<mode, saved, set, cur, kws, rec, input, task, sw, strayed>>
    /\ UNCHANGED awake

Told == AsrEmpty \/ AsrOk \/ TtsPre \/ Exit \/ ClientRun \/ PlayEnd \/ Kws
        \/ Click \/ LongPress \/ Release

-----------------------------------------------------------------------------
(* Changing the mode.                                                      *)

\* The init of mode m, as far as it gets: the voice detection, the wake word
\* - and the idle timer, whose creation may fail.
Prepared(m) ==
    /\ rec' = [rec EXCEPT !.auto = m # "hold"]
    /\ kws' = IF Listens(m) THEN m ELSE kws

Started(m) ==
    /\ Prepared(m)
    /\ set' = [set EXCEPT ![m] = "IDLE"] /\ awake' = [awake EXCEPT ![m] = FALSE]

\* A mutant: the wake word stays enabled.
EndedListening == input' = "closed" /\ cur' = [cur EXCEPT ![mode] = "INVALID"] /\ UNCHANGED kws

\* The deinit of the current mode.
Ended ==
    /\ kws' = IF Listens(mode) THEN NoMode ELSE kws
    /\ input' = "closed"
    /\ cur' = [cur EXCEPT ![mode] = "INVALID"]

Next1(m) == LET i == CHOOSE k \in DOMAIN Modes : Modes[k] = m
            IN  Modes[(i % Len(Modes)) + 1]

\* A double click asks for the next mode of the list, the tool for any other.
SwitchEnd(t, to) ==
    /\ sw[t] = NoSwitch /\ to # mode
    /\ t = "button" => ~held /\ to = IF mode = NoMode THEN Modes[1] ELSE Next1(mode)
    /\ sw' = [sw EXCEPT ![t] = [at |-> "ended", from |-> mode, to |-> to]]
    /\ IF mode = NoMode THEN UNCHANGED <<kws, input, cur, clean, hit>>
       ELSE Ended /\ Touch(mode)
    /\ strayed' = (strayed \/ Switching)
    /\ UNCHANGED <<mode, saved, set, awake, rec, held, task>>

SwitchStart(t) ==
    /\ sw[t].at = "ended"
    /\ Started(sw[t].to)
    /\ sw' = [sw EXCEPT ![t].at = "started"]
    /\ UNCHANGED <<mode, saved, cur, input, held, task, clean, hit, strayed>>

\* The button saves the mode it has come from, which stays; without one it
\* saves 0, which is the hold mode's number.
SwitchFails(t) ==
    /\ sw[t].at = "ended"
    /\ Prepared(sw[t].to)
    /\ sw' = [sw EXCEPT ![t] = NoSwitch]
    /\ saved' = IF t # "button" THEN saved
                ELSE IF sw[t].from = NoMode THEN "hold" ELSE sw[t].from
    /\ strayed' = TRUE
    /\ UNCHANGED <<mode, set, cur, awake, input, held, task, clean, hit>>

\* A pass of a mode after its end leaves its state behind.
SwitchDone(t) ==
    /\ sw[t].at = "started"
    /\ mode' = sw[t].to
    /\ saved' = IF t = "button" THEN sw[t].to ELSE saved
    /\ clean' = (clean /\ cur[sw[t].to] = "INVALID") /\ hit' = ~Resting
    /\ sw' = [sw EXCEPT ![t] = NoSwitch]
    /\ UNCHANGED <<set, cur, awake, kws, rec, input, held, task, strayed>>

Switch(t) == (\E to \in ModeSet : SwitchEnd(t, to)) \/ SwitchStart(t)
             \/ SwitchFails(t) \/ SwitchDone(t)

\* ai_chat_set_volume saves the current mode with the volume, and so does the
\* button if there is only one mode.
SetVolume ==
    /\ saved' = IF mode = NoMode THEN Default ELSE mode
    /\ UNCHANGED <<mode, set, cur, awake, kws, rec, input, held, task, sw, clean, hit,
                   strayed>>

\* The network is there, again: the saved mode starts if it is registered, the
\* current one is not ended.
Connected ==
    /\ saved \in ModeSet /\ Started(saved)
    /\ mode' = saved
    /\ IF mode = saved THEN Touch(saved)
       ELSE clean' = (clean /\ cur[saved] = "INVALID") /\ hit' = ~Resting
    /\ strayed' = (strayed \/ mode \notin {NoMode, saved} \/ Switching)
    /\ UNCHANGED <<saved, cur, input, held, task, sw>>

ConnectedFails ==
    /\ saved \in ModeSet /\ Prepared(saved)
    /\ strayed' = TRUE
    /\ UNCHANGED <<mode, saved, set, cur, awake, input, held, task, sw, clean, hit>>

Next == Task \/ Speech \/ SendText \/ Told \/ (\E t \in Switcher : Switch(t)) \/ SetVolume
        \/ Connected \/ ConnectedFails

Spec == Init /\ [][Next]_vars

-----------------------------------------------------------------------------
Settled == Resting /\ mode # NoMode /\ set[mode] = cur[mode] /\ ~Switching
Undisturbed == clean /\ ~strayed

\* What entering the state s of mode m has brought about.
Entered(m, s) ==
    /\ s \in {"IDLE", "UPLOAD"} => ~awake[m] /\ ~rec.wake
    /\ s = "LISTEN" => awake[m] /\ rec.wake
    /\ s = "THINK" /\ m # "hold" =>
           awake[m] = ThinkAwake(m) /\ rec.wake = ThinkWake(m)

\* After a history in which every event of a mode waited for the pass before to
\* end, no start failed and no two threads changed the mode: whatever the order
\* of the events, switches and connections, the state that is shown to the user
\* is the state the audio input is in.
StateIsReal == Settled /\ Undisturbed => Entered(mode, cur[mode])

\* After such a history the hold mode, once it has settled, does not record
\* without the button, be the press ended by release, answer, end of play or
\* switch.  A release that overtakes the pass is not such a history: then it does.
ReleasedIsQuiet ==
    Settled /\ Undisturbed /\ mode = "hold" /\ ~held => ~rec.wake

\* After such a history what is said while the hold mode listens reaches the
\* cloud, unless a text of the agent loop has ended the input.
HeldIsHeard ==
    Settled /\ Undisturbed /\ mode = "hold" /\ cur["hold"] = "LISTEN" =>
        rec.vad /\ input # "closed"

\* Unless a start failed, two threads changed the mode, or a connection started
\* a saved mode that was not the current one, the voice detection and the wake
\* word are those of the current mode, however early the events come.
Ear(m) == IF Listens(m) THEN m ELSE NoMode
EarsFollowMode ==
    ~strayed /\ ~Switching /\ mode # NoMode =>
        rec.auto = (mode # "hold") /\ kws = Ear(mode)

-----------------------------------------------------------------------------
(* The inductive invariant behind them.                                    *)

InvSwitch ==
    ~strayed =>
        /\ \A t, u \in Switcher : sw[t] # NoSwitch /\ sw[u] # NoSwitch => t = u
        /\ \A t \in Switcher : sw[t] # NoSwitch => sw[t].to # mode
InvEars ==
    ~strayed =>
        /\ ~Switching => kws = Ear(mode)
        /\ ~Switching /\ mode # NoMode => rec.auto = (mode # "hold")
        /\ \A t \in Switcher : sw[t].at = "ended" => kws = NoMode
        /\ \A t \in Switcher : sw[t].at = "started" =>
               /\ kws = Ear(sw[t].to) /\ rec.auto = (sw[t].to # "hold")
               /\ sw[t].to = "hold" => set["hold"] = "IDLE"
InvPass ==
    ~Resting /\ ~strayed =>
        /\ mode # NoMode
        /\ ~hit => task.m = mode /\ set[mode] = task.s
        /\ hit /\ clean =>
               /\ ~Switching /\ task.m # mode /\ cur[mode] = "INVALID"
               /\ mode = "hold" => set["hold"] = "IDLE"
        /\ task.at = "entered" /\ ~hit /\ ~Switching => Entered(mode, task.s)
InvHold ==
    Undisturbed /\ ~Switching /\ mode = "hold" =>
        /\ ~held => \/ set["hold"] \in {"IDLE", "UPLOAD"}
                    \/ ~rec.wake /\ ~awake["hold"] /\ set["hold"] # "LISTEN"
        /\ \/ set["hold"] = "IDLE"
           \/ rec.wake => rec.vad /\ input # "closed" /\ awake["hold"]

ModeInv == TypeOK /\ InvSwitch /\ InvEars /\ InvPass /\ StateIsReal /\ InvHold
=============================================================================
