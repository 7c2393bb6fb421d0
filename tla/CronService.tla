----------------------------- MODULE CronService -----------------------------
(***************************************************************************)
(* The scheduler of reminders, cron_service/cron_service.c, and the MCP    *)
(* tools that drive it, tools/tool_cron.c.                                 *)
(*                                                                         *)
(* Two threads work on one table without a lock: claw_cron, which looks    *)
(* for due jobs every ten seconds, and the MCP work queue, which adds and  *)
(* removes jobs.  Both save the whole table to cron.json, which a restart  *)
(* loads.  One tick of the model is one check interval.  A copy of one or  *)
(* of all entries of the table is one step, and so is each statement that  *)
(* changes s_job_count.  The model ends where a thread writes outside the  *)
(* table.                                                                  *)
(***************************************************************************)
EXTENDS Integers, Sequences

CONSTANTS
    Jobs,      \* job ids, each generated once
    Def,       \* what the AI asks for: the fixed fields of each job
    Fitting,   \* the sets of jobs whose text is no longer than CRON_FILE_MAX
    NoJob,
    MaxJobs,   \* CLAW_CRON_MAX_JOBS
    Overdue,   \* CRON_OVERDUE_THRESHOLD_S, in ticks
    MinEpoch,  \* a clock below it is not synchronized
    MaxTime,   \* bound of the model: the last tick
    MaxBoots   \* bound of the model: restarts

ASSUME MaxJobsAssumption == MaxJobs \in Nat \ {0}
ASSUME TimeAssumption == MinEpoch \in Nat \ {0} /\ MaxTime \in Nat
                         /\ MinEpoch =< MaxTime /\ MaxBoots \in Nat
ASSUME OverdueAssumption == Overdue = 2
ASSUME NoJobAssumption == NoJob \notin Jobs
ASSUME FittingAssumption == Fitting \subseteq SUBSET Jobs
ASSUME DefAssumption ==
    Def \in [Jobs -> [kind : {"at", "every"}, at : Nat \ {0},
                      interval : Nat \ {0}, once : BOOLEAN]]

VARIABLES
    now,       \* the true time, in ticks
    synced,    \* the device knows it
    since,     \* history: since when it does
    lag,       \* ticks since claw_cron last went to sleep or woke up
    boots,
    slots,     \* s_jobs: the entries at and below count are the table
    count,     \* s_job_count
    file,      \* the table cron.json holds, <<>> if it cannot be read
    stage,     \* where each thread is in cron_save_jobs
    snap,      \* the JSON text it has built there
    gaps,      \* history: that text leaves an entry out
    cpc, ci, cjob, cwhat, cnow, changed,  \* claw_cron: pc, i, job, now
    tpc, tid,  \* the tool: pc, job id
    known,     \* ids generated so far
    fired,     \* history: one-shot jobs reminded of, but for those the file
               \* still showed as due at a start
    accepted,  \* history: jobs the tool answered OK for since the start
    removed,   \* history: jobs the tool removed since the start
    raced,     \* history: both threads were inside the service at once
    broken     \* history: the last save failed or left an entry out, or the
               \* last start did not take over the file

clockVars == <<now, synced, since, boots>>
table     == <<slots, count>>
saveVars  == <<file, stage, snap, gaps, broken>>
cronVars  == <<cpc, ci, cjob, cwhat, cnow, changed>>
toolVars  == <<tpc, tid, known, accepted, removed>>
vars == <<clockVars, lag, table, saveVars, cronVars, toolVars, fired, raced>>

Thread == {"cron", "tool"}
Time   == 0 .. MaxTime
Rec    == [id : Jobs, enabled : BOOLEAN, last : Nat, next : Nat]
NoRec  == [id |-> NoJob, enabled |-> FALSE, last |-> 0, next |-> 0]

TypeClock ==
    /\ now \in MinEpoch .. MaxTime /\ synced \in BOOLEAN
    /\ since \in MinEpoch .. now /\ lag \in 0 .. 1 /\ boots \in 0 .. MaxBoots
TypeTable ==
    /\ slots \in [1 .. MaxJobs -> Rec \cup {NoRec}]
    /\ count \in -1 .. MaxJobs
    /\ \A i \in 1 .. count : slots[i] \in Rec
    /\ tpc = "count" => count < MaxJobs /\ (count >= 0 => slots[count + 1] \in Rec)
    /\ cpc \in {"mark", "drop"} \/ tpc = "uncount" => count >= 0
    /\ cpc \in {"mark", "drop"} /\ tpc = "uncount" => count > 0
TypeSave ==
    /\ file \in Seq(Rec) /\ Len(file) =< MaxJobs
    /\ stage \in [Thread -> {"none", "build", "open", "write"}]
    /\ snap \in [Thread -> Seq(Rec)] /\ \A t \in Thread : Len(snap[t]) =< MaxJobs
    /\ gaps \in [Thread -> BOOLEAN] /\ broken \in BOOLEAN
TypeCron ==
    /\ cpc \in {"sleep", "scan", "mark", "drop", "save"} /\ changed \in BOOLEAN
    /\ ci \in 1 .. MaxJobs + 1 /\ cjob \in Jobs \cup {NoJob}
    /\ cwhat \in {"none", "overdue", "sent", "unsent"} /\ cnow \in Time
    /\ cpc = "mark" => cjob \in Jobs /\ cwhat # "none" /\ slots[ci] \in Rec
                       /\ ci \in 1 .. MaxJobs
    /\ stage["cron"] # "none" <=> cpc = "save"
TypeTool ==
    /\ tpc \in {"idle", "check", "count", "uncount", "added", "deleted", "verify",
                "outside"}
    /\ tid \in Jobs \cup {NoJob} /\ (tpc \in {"check", "count", "added", "verify"} => tid \in Jobs)
    /\ known \subseteq Jobs /\ accepted \subseteq Jobs /\ removed \subseteq Jobs
    /\ stage["tool"] # "none" <=> tpc \in {"added", "deleted"}
TypeOK ==
    /\ TypeClock /\ TypeTable /\ TypeSave /\ TypeCron /\ TypeTool
    /\ fired \subseteq Jobs /\ raced \in BOOLEAN

Table == [i \in 1 .. count |-> slots[i]]
Ids   == {slots[i].id : i \in 1 .. count}

\* The entries that will still be counted when a deletion is done.
Live == IF tpc = "uncount" \/ cpc = "drop" THEN count - 1 ELSE count
Armed(j) == \E i \in 1 .. Live : slots[i].id = j /\ slots[i].enabled

\* tal_time_get_posix: counts from 0 until the device is synchronized.
Clock == IF synced THEN now ELSE 0

Init ==
    /\ now = MinEpoch /\ since = now /\ lag = 0 /\ boots = 0 /\ synced \in BOOLEAN
    /\ slots = [i \in 1 .. MaxJobs |-> NoRec] /\ count = 0 /\ file = <<>>
    /\ stage = [t \in Thread |-> "none"] /\ snap = [t \in Thread |-> <<>>]
    /\ gaps = [t \in Thread |-> FALSE]
    /\ cpc = "sleep" /\ ci = 1 /\ cjob = NoJob /\ cwhat = "none" /\ cnow = 0
    /\ changed = FALSE
    /\ tpc = "idle" /\ tid = NoJob
    /\ known = {} /\ fired = {} /\ accepted = {} /\ removed = {}
    /\ raced = FALSE /\ broken = FALSE

-----------------------------------------------------------------------------
(* Time, and the device.                                                   *)

\* One check takes less than one interval (MaxJobs pushes of at most a second
\* each), and the sleep between two checks is one interval.
Tick ==
    /\ now < MaxTime /\ lag < 1
    /\ now' = now + 1 /\ lag' = lag + 1
    /\ UNCHANGED <<synced, since, boots, table, saveVars, cronVars, toolVars,
                   fired, raced>>

Sync ==
    /\ ~synced
    /\ synced' = TRUE /\ since' = now
    /\ UNCHANGED <<now, lag, boots, table, saveVars, cronVars, toolVars, fired,
                   raced>>

\* cron_service_start gives a time to the enabled entries that have none.
Started(rec, t) ==
    LET def == Def[rec.id]
    IN  IF ~rec.enabled \/ rec.next > 0 THEN rec
        ELSE IF def.kind = "every" THEN [rec EXCEPT !.next = t + def.interval]
        ELSE IF def.at > t THEN [rec EXCEPT !.next = def.at] ELSE rec

Fits(jobs) == {jobs[i].id : i \in 1 .. Len(jobs)} \in Fitting

\* A crash or a power cut at any point, any time off, and the next start:
\* cron_service_init loads the file, cron_service_start starts the thread.  A
\* file that is too long, cannot be read or finds no memory is not loaded.
Restart ==
    /\ boots < MaxBoots /\ boots' = boots + 1
    /\ now' \in now .. MaxTime /\ since' = now' /\ synced' \in BOOLEAN /\ lag' = 0
    /\ \E loaded \in BOOLEAN :
          LET jobs == IF loaded THEN file ELSE <<>>
              t    == IF synced' THEN now' ELSE 0
          IN  /\ loaded => Fits(file)
              /\ slots' = [i \in 1 .. MaxJobs |->
                              IF i =< Len(jobs) THEN Started(jobs[i], t) ELSE NoRec]
              /\ count' = Len(jobs)
              /\ broken' = ~loaded
    /\ stage' = [t \in Thread |-> "none"] /\ snap' = [t \in Thread |-> <<>>]
    /\ gaps' = [t \in Thread |-> FALSE]
    /\ cpc' = "sleep" /\ ci' = 1 /\ cjob' = NoJob /\ cwhat' = "none" /\ cnow' = 0
    /\ changed' = FALSE
    /\ tpc' = "idle" /\ tid' = NoJob
    /\ fired' = {j \in fired : \A i \in 1 .. Len(file) :
                                   file[i].id = j => ~file[i].enabled}
    /\ accepted' = {} /\ removed' = {}
    /\ UNCHANGED <<file, known, raced>>

-----------------------------------------------------------------------------
(* cron_save_jobs: the text is built, the file is emptied, then written.   *)
(* None of its callers looks at the result.                                *)

\* Where the thread goes on afterwards.
AfterSave(t) ==
    /\ stage' = [stage EXCEPT ![t] = "none"]
    /\ snap' = [snap EXCEPT ![t] = <<>>] /\ gaps' = [gaps EXCEPT ![t] = FALSE]
    /\ IF t = "cron"
       THEN cpc' = "sleep" /\ lag' = 0 /\ UNCHANGED <<tpc, tid>>
       ELSE /\ IF tpc = "added" THEN tpc' = "verify" /\ UNCHANGED tid
                                ELSE tpc' = "idle" /\ tid' = NoJob
            /\ UNCHANGED <<cpc, lag>>
    /\ UNCHANGED <<clockVars, table, ci, cjob, cwhat, cnow, changed, known,
                   accepted, removed, fired, raced>>

SaveBuild(t) ==
    /\ stage[t] = "build"
    /\ snap' = [snap EXCEPT ![t] = Table]
    /\ stage' = [stage EXCEPT ![t] = "open"]
    /\ UNCHANGED <<clockVars, lag, table, file, gaps, broken, cronVars, toolVars,
                   fired, raced>>

\* An entry that finds no memory for its part of the text is left out, and the
\* save goes on.
SaveBuildGaps(t) ==
    /\ stage[t] = "build"
    /\ \E m \in 0 .. count - 1 : \E at \in [1 .. m -> 1 .. count] :
          /\ \A a, b \in 1 .. m : a < b => at[a] < at[b]
          /\ snap' = [snap EXCEPT ![t] = [k \in 1 .. m |-> slots[at[k]]]]
    /\ gaps' = [gaps EXCEPT ![t] = TRUE]
    /\ stage' = [stage EXCEPT ![t] = "open"]
    /\ UNCHANGED <<clockVars, lag, table, file, broken, cronVars, toolVars,
                   fired, raced>>

\* Opened for writing, the file is empty.
SaveOpen(t) ==
    /\ stage[t] = "open"
    /\ file' = <<>>
    /\ stage' = [stage EXCEPT ![t] = "write"]
    /\ UNCHANGED <<clockVars, lag, table, snap, gaps, broken, cronVars,
                   toolVars, fired, raced>>

SaveOpenFails(t) ==
    /\ stage[t] = "open"
    /\ broken' = TRUE /\ UNCHANGED file
    /\ AfterSave(t)

SaveWrite(t) ==
    /\ stage[t] = "write"
    /\ file' = snap[t] /\ broken' = gaps[t]
    /\ AfterSave(t)

\* A short write leaves a text that does not parse.
SaveWriteFails(t) ==
    /\ stage[t] = "write"
    /\ file' = <<>> /\ broken' = TRUE
    /\ AfterSave(t)

Save(t) == SaveBuild(t) \/ SaveBuildGaps(t) \/ SaveOpen(t) \/ SaveOpenFails(t)
           \/ SaveWrite(t) \/ SaveWriteFails(t)

-----------------------------------------------------------------------------
(* claw_cron: cron_task_main and cron_process_due_jobs.                    *)

ToolInside == tpc \in {"count", "uncount", "added", "deleted"}
CronInside == cpc # "sleep"

\* Mutant: a check goes on where the last one ended.
CronWakeResumes ==
    /\ cpc = "sleep"
    /\ lag' = 0
    /\ IF Clock < MinEpoch THEN UNCHANGED <<cpc, ci, changed, raced>>
       ELSE /\ cpc' = "scan" /\ ci' = ci /\ changed' = FALSE
            /\ raced' = (raced \/ ToolInside)
    /\ UNCHANGED <<clockVars, table, saveVars, cjob, cwhat, cnow, toolVars, fired>>

\* A clock that is not synchronized ends the check at once.
CronWake ==
    /\ cpc = "sleep"
    /\ lag' = 0
    /\ IF Clock < MinEpoch THEN UNCHANGED <<cpc, ci, changed, raced>>
       ELSE /\ cpc' = "scan" /\ ci' = 1 /\ changed' = FALSE
            /\ raced' = (raced \/ ToolInside)
    /\ UNCHANGED <<clockVars, table, saveVars, cjob, cwhat, cnow, toolVars, fired>>

DueEpoch(rec) == IF Def[rec.id].kind = "at" THEN Def[rec.id].at ELSE rec.next
Due(rec) == rec.enabled /\ DueEpoch(rec) \in 1 .. Clock
Missed(rec) ==
    /\ Def[rec.id].kind = "at"
    /\ Clock - Def[rec.id].at > Overdue
    /\ rec.last = 0

Looking == cpc = "scan" /\ ci =< count

CronSkip ==
    /\ Looking /\ ~Due(slots[ci])
    /\ ci' = ci + 1
    /\ UNCHANGED <<clockVars, lag, table, saveVars, cpc, cjob, cwhat, cnow,
                   changed, toolVars, fired, raced>>

\* The overdue notice is pushed, or the bus stays full for a second.
CronNotice ==
    /\ Looking /\ Due(slots[ci]) /\ Missed(slots[ci])
    /\ cpc' = "mark" /\ cwhat' = "overdue" /\ cjob' = slots[ci].id
    /\ UNCHANGED <<clockVars, lag, table, saveVars, ci, cnow, changed, toolVars,
                   fired, raced>>

\* The reminder is pushed, or is not: no memory, or the bus stays full.
CronRemind ==
    /\ Looking /\ Due(slots[ci]) /\ ~Missed(slots[ci])
    /\ cpc' = "mark" /\ cwhat' \in {"sent", "unsent"}
    /\ cjob' = slots[ci].id /\ cnow' = Clock
    /\ fired' = IF Def[slots[ci].id].kind = "at" THEN fired \cup {slots[ci].id}
                ELSE fired
    /\ UNCHANGED <<clockVars, lag, table, saveVars, ci, changed, toolVars, raced>>

Marked == cpc' = "scan" /\ cjob' = NoJob /\ cwhat' = "none" /\ cnow' = 0
          /\ changed' = TRUE

\* Mutant: the table is not saved for it.
MarkOverdueUnsaved ==
    /\ cpc = "mark" /\ cwhat = "overdue"
    /\ slots' = [slots EXCEPT ![ci].enabled = FALSE]
    /\ ci' = ci + 1
    /\ cpc' = "scan" /\ cjob' = NoJob /\ cwhat' = "none"
    /\ UNCHANGED <<clockVars, lag, count, saveVars, cnow, changed, toolVars, fired,
                   raced>>

\* The entry is disabled, so that it is not reported again.
MarkOverdue ==
    /\ cpc = "mark" /\ cwhat = "overdue"
    /\ slots' = [slots EXCEPT ![ci].enabled = FALSE]
    /\ ci' = ci + 1
    /\ Marked
    /\ UNCHANGED <<clockVars, lag, count, saveVars, toolVars, fired, raced>>

\* Mutant: the move starts one entry too late.
ShiftedLate(s, i, n) ==
    [k \in 1 .. MaxJobs |-> IF k \in i + 1 .. n - 1 THEN s[k + 1] ELSE s[k]]

\* The entries above i move down, as far as the table reaches.
Shifted(s, i, n) == [k \in 1 .. MaxJobs |-> IF k \in i .. n - 1 THEN s[k + 1] ELSE s[k]]

Reminded == cpc = "mark" /\ cwhat \in {"sent", "unsent"}

\* A one-shot job is deleted: the entries above it move down ...
MarkDeleted ==
    /\ Reminded /\ Def[slots[ci].id].kind = "at" /\ Def[slots[ci].id].once
    /\ slots' = Shifted([slots EXCEPT ![ci].last = cnow], ci, count)
    /\ cpc' = "drop"
    /\ UNCHANGED <<clockVars, lag, ci, cjob, cwhat, cnow, changed, count, saveVars,
                   toolVars, fired, raced>>

\* Mutant: the entry that has moved down is passed over.
DropSkips ==
    /\ cpc = "drop"
    /\ count' = count - 1 /\ ci' = ci + 1
    /\ Marked
    /\ UNCHANGED <<clockVars, lag, slots, saveVars, toolVars, fired, raced>>

\* Mutant: the deleted entry is still counted.
DropUncounted ==
    /\ cpc = "drop"
    /\ Marked
    /\ UNCHANGED <<clockVars, lag, ci, table, saveVars, toolVars, fired, raced>>

\* ... and are counted; i stays, as the next entry has moved there.
Drop ==
    /\ cpc = "drop"
    /\ count' = count - 1
    /\ Marked
    /\ UNCHANGED <<clockVars, lag, ci, slots, saveVars, toolVars, fired, raced>>

\* Mutant: the entry stays enabled.
MarkStillEnabled ==
    /\ Reminded /\ Def[slots[ci].id].kind = "at" /\ ~Def[slots[ci].id].once
    /\ slots' = [slots EXCEPT ![ci] = [@ EXCEPT !.last = cnow]]
    /\ ci' = ci + 1
    /\ Marked
    /\ UNCHANGED <<clockVars, lag, count, saveVars, toolVars, fired, raced>>

\* ... or disabled.
MarkDisabled ==
    /\ Reminded /\ Def[slots[ci].id].kind = "at" /\ ~Def[slots[ci].id].once
    /\ slots' = [slots EXCEPT ![ci] =
                    [@ EXCEPT !.last = cnow, !.enabled = FALSE, !.next = 0]]
    /\ ci' = ci + 1
    /\ Marked
    /\ UNCHANGED <<clockVars, lag, count, saveVars, toolVars, fired, raced>>

MarkAgain ==
    /\ Reminded /\ Def[slots[ci].id].kind = "every"
    /\ slots' = [slots EXCEPT ![ci] =
                    [@ EXCEPT !.last = cnow, !.next = cnow + Def[slots[ci].id].interval]]
    /\ ci' = ci + 1
    /\ Marked
    /\ UNCHANGED <<clockVars, lag, count, saveVars, toolVars, fired, raced>>

\* The check is over; the table is saved if it changed.
CronEnd ==
    /\ cpc = "scan" /\ ci > count
    /\ IF changed THEN cpc' = "save" /\ stage' = [stage EXCEPT !["cron"] = "build"]
                       /\ UNCHANGED lag
                  ELSE cpc' = "sleep" /\ lag' = 0 /\ UNCHANGED stage
    /\ UNCHANGED <<clockVars, table, file, snap, gaps, broken, ci, cjob, cwhat, cnow,
                   changed, toolVars, fired, raced>>

Cron ==
    \/ CronWake \/ CronSkip \/ CronNotice \/ CronRemind
    \/ MarkOverdue \/ MarkDeleted \/ Drop \/ MarkDisabled \/ MarkAgain
    \/ CronEnd \/ Save("cron")

-----------------------------------------------------------------------------
(* The tools, on the MCP work queue: one at a time.                        *)

\* __tool_cron_add rejects a one-shot job that is not in the future.
ToolCheck(j) ==
    /\ tpc = "idle" /\ j \notin known
    /\ Def[j].kind = "at" => Def[j].at > Clock
    /\ tpc' = "check" /\ tid' = j /\ known' = known \cup {j}
    /\ UNCHANGED <<clockVars, lag, table, saveVars, cronVars, accepted, removed,
                   fired, raced>>

\* cron_add_job refuses when the table is full.
AddFull ==
    /\ tpc = "check" /\ count >= MaxJobs
    /\ tpc' = "idle" /\ tid' = NoJob
    /\ UNCHANGED <<clockVars, lag, table, saveVars, cronVars, known, accepted,
                   removed, fired, raced>>

\* compute_initial_next_run, at the time t.
NewRec(j, t) ==
    IF Def[j].kind = "every"
    THEN [id |-> j, enabled |-> TRUE, last |-> 0, next |-> t + Def[j].interval]
    ELSE IF Def[j].at > t
    THEN [id |-> j, enabled |-> TRUE, last |-> 0, next |-> Def[j].at]
    ELSE [id |-> j, enabled |-> FALSE, last |-> 0, next |-> 0]

\* The new entry is written behind the table ...
AddSlot ==
    /\ tpc = "check" /\ count \in 0 .. MaxJobs - 1
    /\ slots' = [slots EXCEPT ![count + 1] = NewRec(tid, Clock)]
    /\ tpc' = "count"
    /\ raced' = (raced \/ CronInside)
    /\ UNCHANGED <<clockVars, lag, count, saveVars, cronVars, tid, known,
                   accepted, removed, fired>>

\* ... or in front of s_jobs, when the count is -1: what that overwrites is
\* not known, and the model ends here.
AddOutside ==
    /\ tpc = "check" /\ count < 0
    /\ tpc' = "outside"
    /\ raced' = (raced \/ CronInside)
    /\ UNCHANGED <<clockVars, lag, table, saveVars, cronVars, tid, known, accepted,
                   removed, fired>>

\* Mutant: the tool answers before the table is saved.
AddCountUnsaved ==
    /\ tpc = "count"
    /\ count' = count + 1
    /\ tpc' = "verify"
    /\ UNCHANGED <<clockVars, lag, slots, saveVars, cronVars, tid, known, accepted,
                   removed, fired, raced>>

\* ... and then counted.
AddCount ==
    /\ tpc = "count"
    /\ count' = count + 1
    /\ tpc' = "added" /\ stage' = [stage EXCEPT !["tool"] = "build"]
    /\ UNCHANGED <<clockVars, lag, slots, file, snap, gaps, broken, cronVars,
                   tid, known, accepted, removed, fired, raced>>

\* The tool looks for the job in the list and answers OK if it is there.
ToolVerify ==
    /\ tpc = "verify"
    /\ accepted' = IF tid \in Ids THEN accepted \cup {tid} ELSE accepted
    /\ tpc' = "idle" /\ tid' = NoJob
    /\ UNCHANGED <<clockVars, lag, table, saveVars, cronVars, known, removed,
                   fired, raced>>

\* cron_remove_job takes the first entry with the id.
RemoveShift(j) ==
    /\ tpc = "idle"
    /\ \E i \in 1 .. count :
          /\ slots[i].id = j
          /\ \A k \in 1 .. i - 1 : slots[k].id # j
          /\ slots' = Shifted(slots, i, count)
    /\ tpc' = "uncount" /\ removed' = removed \cup {j}
    /\ raced' = (raced \/ CronInside)
    /\ UNCHANGED <<clockVars, lag, count, saveVars, cronVars, tid, known,
                   accepted, fired>>

RemoveCount ==
    /\ tpc = "uncount"
    /\ count' = count - 1
    /\ tpc' = "deleted" /\ stage' = [stage EXCEPT !["tool"] = "build"]
    /\ UNCHANGED <<clockVars, lag, slots, file, snap, gaps, broken, cronVars,
                   tid, known, accepted, removed, fired, raced>>

Tool ==
    \/ \E j \in Jobs : ToolCheck(j) \/ RemoveShift(j)
    \/ AddFull \/ AddSlot \/ AddOutside \/ AddCount \/ ToolVerify
    \/ RemoveCount \/ Save("tool")

-----------------------------------------------------------------------------
Outside == tpc = "outside"

Next == ~Outside /\ (Tick \/ Sync \/ Restart \/ Cron \/ Tool)

Spec == Init /\ [][Next]_vars

\* The thread keeps running: what it waits for has a timeout.  Nothing is
\* assumed of the tools, of the time server or of the power supply.
FairSpec == Spec /\ WF_vars(~Outside /\ Cron)

-----------------------------------------------------------------------------
(* Correctness.  As long as the two threads have not been inside the       *)
(* service at the same time (raced), the missing lock is not missed.       *)

\* A one-shot job whose reminder has been pushed is not armed any more once
\* its entry is marked, nor after a start that finds it marked in the file: it
\* reminds twice only if the device stops before the mark is saved.
FiredIsSpent ==
    ~raced => \A j \in fired : Armed(j) => cpc = "mark" /\ cjob = j

\* The entry marked after a push is the entry of the job that was pushed, and
\* no id is twice in the table: neither the shift of a deleted one-shot job
\* under the loop nor the stale copy it leaves behind is taken for a job.
MarkIsOfPushedJob ==
    ~raced =>
        /\ cpc = "mark" => ci =< count /\ slots[ci].id = cjob
        /\ \A i, k \in 1 .. Live : slots[i].id = slots[k].id => i = k

\* A one-shot job that came due while the device was up and knew the time is
\* reminded of, never reported as overdue: two intervals are enough.
OnTimeIsNotOverdue ==
    ~raced /\ cpc = "mark" /\ cwhat = "overdue" => Def[cjob].at < since

\* When neither thread is inside the service, the file is the table: whatever
\* changed the table has saved it.  A save that failed or left an entry out
\* excuses the file until the next one, and so does a start that did not take
\* it over.
SavedWhenQuiet ==
    ~raced /\ ~broken /\ ~CronInside /\ ~ToolInside => file = Table

\* A job the tool answered OK for stays in the table until the user removes
\* it or it has reminded, until the device restarts.
AcceptedIsKept ==
    ~raced => \A j \in accepted : j \in Ids \cup fired \cup removed

\* It survives a restart at any point of a check, of a call or of a save, but
\* for the moment in which the file is empty: provided that no save has failed
\* or left an entry out (broken), and that the start takes over the file
\* (broken'), which it does not do when the file has grown beyond
\* CRON_FILE_MAX, there is no memory for it, or it cannot be read.
AcceptedSurvives ==
    [][~raced /\ ~broken /\ boots' # boots /\ ~broken'
       /\ (\A t \in Thread : stage[t] # "write") =>
          accepted \subseteq Ids' \cup fired \cup removed]_vars

\* A due job is taken up - marked, or removed - unless the clock is lost:
\* one that never comes up in the table again is not forgotten by the loop,
\* whatever the tools do to the table under it, short of a write outside it.
DueIsTaken ==
    \A j \in Jobs :
        (\E i \in 1 .. count : slots[i].id = j /\ Due(slots[i]))
            ~> ~synced \/ Outside \/ ~(\E i \in 1 .. count : slots[i].id = j /\ Due(slots[i]))

-----------------------------------------------------------------------------
(* The inductive invariant behind these properties.                        *)

\* An enabled entry has a time, so a restart loads what was saved.
Timed(rec) == rec.enabled => rec.next > 0
AllTimed ==
    /\ \A i \in 1 .. MaxJobs : Timed(slots[i])
    /\ \A i \in 1 .. Len(file) : Timed(file[i])
    /\ \A t \in Thread : \A i \in 1 .. Len(snap[t]) : Timed(snap[t][i])

\* One thread at a time, and claw_cron only when the clock is known.
OneInside ==
    /\ ~(CronInside /\ ToolInside)
    /\ CronInside => synced
    /\ ~Outside
    /\ count >= 0 /\ (tpc = "uncount" \/ cpc = "drop" => count > 0)

\* Ids are unique in the table and the file, and a new job has a new one.
IdsUnique ==
    /\ \A i, k \in 1 .. Len(file) : file[i].id = file[k].id => i = k
    /\ \A i \in 1 .. count : slots[i].id \in known
    /\ \A i \in 1 .. Len(file) : file[i].id \in known
    /\ fired \subseteq known
    /\ tpc \in {"check", "count"} => tid \in known \ fired /\ tid \notin Ids
    /\ tpc = "count" => slots[count + 1].id = tid

\* So are they in what is being saved, when entries are left out too.
SavedIds ==
    \A t \in Thread :
       /\ \A i, k \in 1 .. Len(snap[t]) : snap[t][i].id = snap[t][k].id => i = k
       /\ \A i \in 1 .. Len(snap[t]) : snap[t][i].id \in known

\* A reminder of a one-shot job is on record while its entry is being marked.
MarkedIsFired ==
    /\ Reminded /\ Def[cjob].kind = "at" => cjob \in fired
    /\ \A j \in fired : Def[j].kind = "at"

\* What is being saved is the table; unsaved changes are on record.
SaveIsTable ==
    /\ \A t \in Thread : stage[t] \in {"open", "write"} /\ ~gaps[t] => snap[t] = Table
    /\ ~broken /\ ~ToolInside /\ cpc \in {"scan", "mark"} /\ ~changed => file = Table

\* How late entry i can be: a sleep is one tick, and so is a check.
LateBy(i, n) ==
    slots[i].enabled /\ Def[slots[i].id].kind = "at" /\ Def[slots[i].id].at >= since
        => now - Def[slots[i].id].at =< n
Punctual ==
    synced =>
        /\ cpc = "sleep" => \A i \in 1 .. count : LateBy(i, lag)
        /\ cpc = "save"  => \A i \in 1 .. count : LateBy(i, lag - 1)
        /\ cpc \in {"scan", "mark", "drop"} =>
              \A i \in 1 .. count : LateBy(i, IF i < ci THEN lag - 1 ELSE lag + 1)
        /\ tpc = "count" => LateBy(count + 1, lag)

\* Accepted jobs are live, and what is still counted of a deleted one is no
\* job of its own.
KeptLive ==
    /\ accepted \subseteq {slots[i].id : i \in 1 .. Live} \cup fired \cup removed
    /\ cpc = "drop" => slots[count].id \in {slots[i].id : i \in 1 .. Live} \cup fired

\* What the file holds of the table: no job is added but by a save, and the
\* tool looks for a job only after its own.
FileIds == {file[i].id : i \in 1 .. Len(file)}
FileHasJobs ==
    ~broken /\ (\A t \in Thread : stage[t] # "write") =>
        /\ accepted \subseteq FileIds \cup fired \cup removed
        /\ tpc # "added" => Ids \subseteq FileIds

FileInv == ~raced => FileHasJobs

CronInv ==
    /\ TypeOK /\ AllTimed
    /\ ~raced => OneInside /\ IdsUnique /\ SavedIds /\ MarkedIsFired /\ SaveIsTable
                 /\ Punctual /\ KeptLive
    /\ FiredIsSpent /\ MarkIsOfPushedJob /\ OnTimeIsNotOverdue /\ SavedWhenQuiet

-----------------------------------------------------------------------------
(* What a comment of the code says, and the code does not do.              *)

\* cron_service.c:291: "send reminder message to AI, then delete (or disable)
\* the job": the job that is marked is the one reminded of.
DeletedIsReminded ==
    [][Reminded /\ cpc' \in {"scan", "drop"} => ci =< count /\ slots[ci].id = cjob]_vars
=============================================================================
