-------------------------- MODULE CronServiceProofs --------------------------
(* Theorems about CronService, for every value of its constants.             *)
EXTENDS CronService, SequenceTheorems, TLAPS

\* An interval from 1 determines its length.
LEMMA IntervalLen ==
  ASSUME NEW a \in Nat, NEW b \in Nat, 1 .. a = 1 .. b
  PROVE  a = b
  <1>1. CASE a < b
    <2>1. b \in 1 .. b /\ b \notin 1 .. a
      BY <1>1
    <2> QED BY <2>1
  <1>2. CASE b < a
    <2>1. a \in 1 .. a /\ a \notin 1 .. b
      BY <1>2
    <2> QED BY <2>1
  <1> QED BY <1>1, <1>2

\* Moving entries down keeps every slot typed, and entries where they were.
LEMMA ShiftedType ==
  ASSUME NEW s \in [1 .. MaxJobs -> Rec \cup {NoRec}], NEW n \in -1 .. MaxJobs,
         \A k \in 1 .. n : s[k] \in Rec, NEW i \in 1 .. MaxJobs
  PROVE  /\ Shifted(s, i, n) \in [1 .. MaxJobs -> Rec \cup {NoRec}]
         /\ \A k \in 1 .. MaxJobs : s[k] \in Rec => Shifted(s, i, n)[k] \in Rec
         /\ \A k \in 1 .. MaxJobs : Shifted(s, i, n)[k] =
                IF k \in i .. n - 1 THEN s[k + 1] ELSE s[k]
  <1>1. \A k \in 1 .. MaxJobs : k \in i .. n - 1 => k + 1 \in 1 .. n /\ k + 1 \in 1 .. MaxJobs
    BY MaxJobsAssumption
  <1>2. \A k \in 1 .. MaxJobs : Shifted(s, i, n)[k] =
            IF k \in i .. n - 1 THEN s[k + 1] ELSE s[k]
    BY DEF Shifted
  <1>3. \A k \in 1 .. MaxJobs : Shifted(s, i, n)[k] \in Rec \cup {NoRec}
    BY <1>1, <1>2
  <1>4. \A k \in 1 .. MaxJobs : s[k] \in Rec => Shifted(s, i, n)[k] \in Rec
    BY <1>1, <1>2
  <1>5. Shifted(s, i, n) \in [1 .. MaxJobs -> Rec \cup {NoRec}]
    BY <1>3 DEF Shifted
  <1> QED BY <1>2, <1>4, <1>5

\* What each mark writes into an entry.
LEMMA MarkedRec ==
  ASSUME NEW r \in Rec, NEW t \in Nat, NEW n \in Nat
  PROVE  /\ [r EXCEPT !.enabled = FALSE] \in Rec
         /\ [r EXCEPT !.last = t] \in Rec
         /\ [r EXCEPT !.last = t, !.enabled = FALSE, !.next = 0] \in Rec
         /\ [r EXCEPT !.last = t, !.next = n] \in Rec
  BY DEF Rec

\* An entry that is loaded, and one that is added.
LEMMA StartedRec ==
  ASSUME NEW r \in Rec, NEW t \in Nat
  PROVE  /\ Started(r, t) \in Rec /\ Started(r, t).id = r.id
         /\ Timed(r) => Started(r, t) = r /\ Timed(Started(r, t))
  <1>1. Def[r.id].at \in Nat \ {0} /\ Def[r.id].interval \in Nat \ {0} /\ r.next \in Nat
    BY DefAssumption DEF Rec
  <1> QED BY <1>1 DEF Started, Rec, Timed

LEMMA AddedRec ==
  ASSUME NEW j \in Jobs, NEW t \in Nat
  PROVE  /\ NewRec(j, t) \in Rec /\ Timed(NewRec(j, t)) /\ NewRec(j, t).id = j
         /\ NewRec(j, t).enabled /\ Def[j].kind = "at" => Def[j].at > t
  <1>1. Def[j].at \in Nat \ {0} /\ Def[j].interval \in Nat \ {0}
    BY DefAssumption
  <1> QED BY <1>1 DEF NewRec, Rec, Timed

\* The clock reads a time.
LEMMA ClockType ==
  ASSUME TypeClock
  PROVE  Clock \in Time /\ Clock \in Nat /\ (Clock >= MinEpoch <=> synced) /\ (synced => Clock = now)
  BY TimeAssumption DEF TypeClock, Clock, Time

\* The table as a sequence: what cron_save_jobs writes.
LEMMA TableIsSeq ==
  ASSUME TypeTable
  PROVE  /\ Table \in Seq(Rec) /\ Len(Table) =< MaxJobs
         /\ \A i \in 1 .. Len(Table) : i \in 1 .. count /\ Table[i] = slots[i]
         /\ count >= 0 => Len(Table) = count
  <1> DEFINE n == IF count < 0 THEN 0 ELSE count
  <1>1. n \in Nat /\ n =< MaxJobs /\ 1 .. n = 1 .. count /\ (count >= 0 => n = count)
    BY MaxJobsAssumption DEF TypeTable
  <1>2. Table = [i \in 1 .. n |-> slots[i]] /\ \A i \in 1 .. n : slots[i] \in Rec
    BY <1>1 DEF Table, TypeTable
  <1> HIDE DEF n
  <1>3. Table \in [1 .. n -> Rec]
    BY <1>2
  <1>4. Table \in Seq(Rec)
    BY <1>1, <1>3, SeqDef
  <1>5. Len(Table) = n
    <2>1. DOMAIN Table = 1 .. Len(Table) /\ Len(Table) \in Nat
      BY <1>4, LenProperties
    <2>2. DOMAIN Table = 1 .. n
      BY <1>2
    <2> QED BY <1>1, <2>1, <2>2, IntervalLen
  <1>6. \A i \in 1 .. n : Table[i] = slots[i]
    BY <1>2
  <1> QED BY <1>1, <1>4, <1>5, <1>6

\* The steps of the system, one by one.
LEMMA Cases ==
  ASSUME [Next]_vars
  PROVE  \/ Tick \/ Sync \/ Restart
         \/ CronWake \/ CronSkip \/ CronNotice \/ CronRemind
         \/ MarkOverdue \/ MarkDeleted \/ Drop \/ MarkDisabled \/ MarkAgain \/ CronEnd
         \/ \E t \in Thread : SaveBuild(t) \/ SaveBuildGaps(t) \/ SaveOpen(t) \/ SaveOpenFails(t)
                              \/ SaveWrite(t) \/ SaveWriteFails(t)
         \/ \E j \in Jobs : ToolCheck(j) \/ RemoveShift(j)
         \/ AddFull \/ AddSlot \/ AddOutside \/ AddCount \/ ToolVerify \/ RemoveCount
         \/ UNCHANGED vars
  BY DEF Next, Cron, Tool, Save, Thread

\* What a start loads: the file, or nothing.
LEMMA LoadIs ==
  ASSUME TypeOK, Restart
  PROVE  \E jobs \in {file, <<>>} : \E t \in Nat :
            /\ slots' = [i \in 1 .. MaxJobs |->
                             IF i =< Len(jobs) THEN Started(jobs[i], t) ELSE NoRec]
            /\ count' = Len(jobs) /\ Len(jobs) \in 0 .. MaxJobs
            /\ \A i \in 1 .. Len(jobs) : jobs[i] \in Rec /\ jobs[i] = file[i] /\ i \in 1 .. Len(file)
            /\ broken' \in BOOLEAN /\ (~broken' => jobs = file)
  <1> DEFINE t == IF synced' THEN now' ELSE 0
             jobs(l) == IF l THEN file ELSE <<>>
             Loads(j) == [i \in 1 .. MaxJobs |->
                             IF i =< Len(j) THEN Started(j[i], t) ELSE NoRec]
  <1>1. PICK loaded \in BOOLEAN :
           slots' = Loads(jobs(loaded)) /\ count' = Len(jobs(loaded)) /\ broken' = ~loaded
    BY DEF Restart
  <1>2. t \in Nat
    BY TimeAssumption DEF Restart, TypeOK, TypeClock
  <1>3. jobs(loaded) \in {file, <<>>} /\ Len(jobs(loaded)) \in 0 .. MaxJobs
        /\ \A i \in 1 .. Len(jobs(loaded)) :
              jobs(loaded)[i] \in Rec /\ jobs(loaded)[i] = file[i] /\ i \in 1 .. Len(file)
    BY MaxJobsAssumption DEF TypeOK, TypeSave
  <1>4. ~broken' => jobs(loaded) = file
    BY <1>1
  <1> HIDE DEF t, jobs
  <1> QED BY <1>1, <1>2, <1>3, <1>4

\* What a save writes that leaves entries out: some of the entries, in order.
LEMMA GapsIs ==
  ASSUME TypeOK, NEW t \in Thread, SaveBuildGaps(t)
  PROVE  \E q \in Seq(Rec) :
            /\ snap' = [snap EXCEPT ![t] = q] /\ Len(q) =< MaxJobs
            /\ \E at \in [1 .. Len(q) -> 1 .. count] :
                  /\ \A a, b \in 1 .. Len(q) : a < b => at[a] < at[b]
                  /\ \A k \in 1 .. Len(q) : q[k] = slots[at[k]]
  <1>1. PICK m \in 0 .. count - 1 : \E at \in [1 .. m -> 1 .. count] :
           /\ \A a, b \in 1 .. m : a < b => at[a] < at[b]
           /\ snap' = [snap EXCEPT ![t] = [k \in 1 .. m |-> slots[at[k]]]]
    BY DEF SaveBuildGaps
  <1>2. PICK at \in [1 .. m -> 1 .. count] :
           /\ \A a, b \in 1 .. m : a < b => at[a] < at[b]
           /\ snap' = [snap EXCEPT ![t] = [k \in 1 .. m |-> slots[at[k]]]]
    BY <1>1
  <1>3. m \in Nat /\ m =< MaxJobs /\ \A k \in 1 .. m : slots[at[k]] \in Rec
    BY <1>1, <1>2, MaxJobsAssumption DEF TypeOK, TypeTable
  <1> DEFINE q == [k \in 1 .. m |-> slots[at[k]]]
  <1>4. q \in [1 .. m -> Rec] /\ \A k \in 1 .. m : q[k] = slots[at[k]]
    BY <1>3
  <1>5. snap' = [snap EXCEPT ![t] = q]
    BY <1>2
  <1> HIDE DEF q
  <1>6. q \in Seq(Rec)
    BY <1>3, <1>4, SeqDef
  <1>7. Len(q) = m
    <2>1. DOMAIN q = 1 .. Len(q) /\ Len(q) \in Nat
      BY <1>6, LenProperties
    <2>2. DOMAIN q = 1 .. m
      BY <1>4
    <2> QED BY <1>3, <2>1, <2>2, IntervalLen
  <1> QED BY <1>2, <1>3, <1>4, <1>5, <1>6, <1>7

\* The clock stays typed.
LEMMA TypeClockStep ==
  ASSUME TypeOK, [Next]_vars
  PROVE  TypeClock'
  <1>1. CASE Tick
    BY <1>1, TimeAssumption
       DEF Tick, TypeOK, TypeClock, clockVars, table, saveVars, cronVars, toolVars, vars
  <1>2. CASE Sync
    BY <1>2, TimeAssumption
       DEF Sync, TypeOK, TypeClock, clockVars, table, saveVars, cronVars, toolVars, vars
  <1>3. CASE Restart
    BY <1>3, TimeAssumption
       DEF Restart, TypeOK, TypeClock, clockVars, table, saveVars, cronVars, toolVars, vars
  <1>4. CASE CronWake
    BY <1>4, TimeAssumption
       DEF CronWake, TypeOK, TypeClock, clockVars, table, saveVars, cronVars, toolVars, vars
  <1>5. CASE CronSkip
    BY <1>5, TimeAssumption
       DEF CronSkip, Looking, TypeOK, TypeClock, clockVars, table, saveVars, cronVars, toolVars, vars
  <1>6. CASE CronNotice
    BY <1>6, TimeAssumption
       DEF CronNotice, Looking, TypeOK, TypeClock, clockVars, table, saveVars, cronVars, toolVars, vars
  <1>7. CASE CronRemind
    BY <1>7, TimeAssumption
       DEF CronRemind, Looking, TypeOK, TypeClock, clockVars, table, saveVars, cronVars, toolVars, vars
  <1>8. CASE MarkOverdue
    BY <1>8, TimeAssumption
       DEF MarkOverdue, Marked, TypeOK, TypeClock, clockVars, table, saveVars, cronVars, toolVars, vars
  <1>9. CASE MarkDeleted
    BY <1>9, TimeAssumption
       DEF MarkDeleted, Reminded, Marked, TypeOK, TypeClock, clockVars, table, saveVars, cronVars, toolVars, vars
  <1>10. CASE MarkDisabled
    BY <1>10, TimeAssumption
       DEF MarkDisabled, Reminded, Marked, TypeOK, TypeClock, clockVars, table, saveVars, cronVars, toolVars, vars
  <1>11. CASE MarkAgain
    BY <1>11, TimeAssumption
       DEF MarkAgain, Reminded, Marked, TypeOK, TypeClock, clockVars, table, saveVars, cronVars, toolVars, vars
  <1>12. CASE CronEnd
    BY <1>12, TimeAssumption
       DEF CronEnd, TypeOK, TypeClock, TypeCron, clockVars, table, saveVars, cronVars, toolVars, vars
  <1>13. ASSUME NEW t \in Thread, SaveBuild(t) PROVE TypeClock'
    BY <1>13, TimeAssumption
       DEF SaveBuild, TypeOK, TypeClock, clockVars, table, saveVars, cronVars, toolVars, vars
  <1>14. ASSUME NEW t \in Thread, SaveOpen(t) PROVE TypeClock'
    BY <1>14, TimeAssumption
       DEF SaveOpen, TypeOK, TypeClock, clockVars, table, saveVars, cronVars, toolVars, vars
  <1>15. ASSUME NEW t \in Thread, SaveOpenFails(t) PROVE TypeClock'
    BY <1>15, TimeAssumption
       DEF SaveOpenFails, AfterSave, TypeOK, TypeClock, clockVars, table, saveVars, cronVars, toolVars, vars
  <1>16. ASSUME NEW t \in Thread, SaveWrite(t) PROVE TypeClock'
    BY <1>16, TimeAssumption
       DEF SaveWrite, AfterSave, TypeOK, TypeClock, clockVars, table, saveVars, cronVars, toolVars, vars
  <1>17. ASSUME NEW t \in Thread, SaveWriteFails(t) PROVE TypeClock'
    BY <1>17, TimeAssumption
       DEF SaveWriteFails, AfterSave, TypeOK, TypeClock, clockVars, table, saveVars, cronVars, toolVars, vars
  <1>18. ASSUME NEW j \in Jobs, ToolCheck(j) PROVE TypeClock'
    BY <1>18, TimeAssumption
       DEF ToolCheck, TypeOK, TypeClock, clockVars, table, saveVars, cronVars, toolVars, vars
  <1>19. ASSUME NEW j \in Jobs, RemoveShift(j) PROVE TypeClock'
    BY <1>19, TimeAssumption
       DEF RemoveShift, TypeOK, TypeClock, clockVars, table, saveVars, cronVars, toolVars, vars
  <1>20. CASE AddFull
    BY <1>20, TimeAssumption
       DEF AddFull, TypeOK, TypeClock, clockVars, table, saveVars, cronVars, toolVars, vars
  <1>21. CASE AddSlot
    BY <1>21, TimeAssumption
       DEF AddSlot, TypeOK, TypeClock, clockVars, table, saveVars, cronVars, toolVars, vars
  <1>22. CASE AddCount
    BY <1>22, TimeAssumption
       DEF AddCount, TypeOK, TypeClock, clockVars, table, saveVars, cronVars, toolVars, vars
  <1>23. CASE ToolVerify
    BY <1>23, TimeAssumption
       DEF ToolVerify, TypeOK, TypeClock, clockVars, table, saveVars, cronVars, toolVars, vars
  <1>24. CASE RemoveCount
    BY <1>24, TimeAssumption
       DEF RemoveCount, TypeOK, TypeClock, clockVars, table, saveVars, cronVars, toolVars, vars
  <1>25. CASE UNCHANGED vars
    BY <1>25, TimeAssumption DEF TypeOK, TypeClock, clockVars, table, saveVars, cronVars, toolVars, vars
  <1>26. CASE Drop
    BY <1>26, TimeAssumption
       DEF Drop, Marked, TypeOK, TypeClock, clockVars, table, saveVars, cronVars, toolVars, vars
  <1>27. CASE AddOutside
    BY <1>27, TimeAssumption
       DEF AddOutside, TypeOK, TypeClock, clockVars, table, saveVars, cronVars, toolVars, vars
  <1>28. ASSUME NEW t \in Thread, SaveBuildGaps(t) PROVE TypeClock'
    BY <1>28, TimeAssumption
       DEF SaveBuildGaps, TypeOK, TypeClock, clockVars, table, saveVars, cronVars, toolVars, vars
  <1> QED BY <1>1, <1>2, <1>3, <1>4, <1>5, <1>6, <1>7, <1>8, <1>9, <1>10, <1>11, <1>12, <1>13, <1>14, <1>15, <1>16, <1>17, <1>18, <1>19, <1>20, <1>21, <1>22, <1>23, <1>24, <1>25, <1>26, <1>27, <1>28, Cases

\* The tool stays typed.
LEMMA TypeToolStep ==
  ASSUME TypeOK, [Next]_vars
  PROVE  TypeTool'
  <1>1. CASE Tick
    BY <1>1, NoJobAssumption
       DEF Tick, TypeOK, TypeTool, TypeTable, TypeSave, Thread, clockVars, table, saveVars, cronVars, toolVars, vars
  <1>2. CASE Sync
    BY <1>2, NoJobAssumption
       DEF Sync, TypeOK, TypeTool, TypeTable, TypeSave, Thread, clockVars, table, saveVars, cronVars, toolVars, vars
  <1>3. CASE Restart
    BY <1>3, NoJobAssumption
       DEF Restart, TypeOK, TypeTool, TypeTable, TypeSave, Thread, clockVars, table, saveVars, cronVars, toolVars, vars
  <1>4. CASE CronWake
    BY <1>4, NoJobAssumption
       DEF CronWake, TypeOK, TypeTool, TypeTable, TypeSave, Thread, clockVars, table, saveVars, cronVars, toolVars, vars
  <1>5. CASE CronSkip
    BY <1>5, NoJobAssumption
       DEF CronSkip, Looking, TypeOK, TypeTool, TypeTable, TypeSave, Thread, clockVars, table, saveVars, cronVars, toolVars, vars
  <1>6. CASE CronNotice
    BY <1>6, NoJobAssumption
       DEF CronNotice, Looking, TypeOK, TypeTool, TypeTable, TypeSave, Thread, clockVars, table, saveVars, cronVars, toolVars, vars
  <1>7. CASE CronRemind
    BY <1>7, NoJobAssumption
       DEF CronRemind, Looking, TypeOK, TypeTool, TypeTable, TypeSave, Thread, clockVars, table, saveVars, cronVars, toolVars, vars
  <1>8. CASE MarkOverdue
    BY <1>8, NoJobAssumption
       DEF MarkOverdue, Marked, TypeOK, TypeTool, TypeTable, TypeSave, Thread, clockVars, table, saveVars, cronVars, toolVars, vars
  <1>9. CASE MarkDeleted
    BY <1>9, NoJobAssumption
       DEF MarkDeleted, TypeOK, TypeTool, TypeTable, TypeSave, Thread, clockVars, table, saveVars, cronVars, toolVars, vars
  <1>10. CASE MarkDisabled
    BY <1>10, NoJobAssumption
       DEF MarkDisabled, Reminded, Marked, TypeOK, TypeTool, TypeTable, TypeSave, Thread, clockVars, table, saveVars, cronVars, toolVars, vars
  <1>11. CASE MarkAgain
    BY <1>11, NoJobAssumption
       DEF MarkAgain, Reminded, Marked, TypeOK, TypeTool, TypeTable, TypeSave, Thread, clockVars, table, saveVars, cronVars, toolVars, vars
  <1>12. CASE CronEnd
    BY <1>12, NoJobAssumption
       DEF CronEnd, TypeOK, TypeTool, TypeTable, TypeSave, Thread, clockVars, table, saveVars, cronVars, toolVars, vars
  <1>13. ASSUME NEW t \in Thread, SaveBuild(t) PROVE TypeTool'
    BY <1>13, NoJobAssumption
       DEF SaveBuild, TypeOK, TypeTool, TypeTable, TypeSave, Thread, clockVars, table, saveVars, cronVars, toolVars, vars
  <1>14. ASSUME NEW t \in Thread, SaveOpen(t) PROVE TypeTool'
    BY <1>14, NoJobAssumption
       DEF SaveOpen, TypeOK, TypeTool, TypeTable, TypeSave, Thread, clockVars, table, saveVars, cronVars, toolVars, vars
  <1>15. ASSUME NEW t \in Thread, SaveOpenFails(t) PROVE TypeTool'
    BY <1>15, NoJobAssumption
       DEF SaveOpenFails, AfterSave, TypeOK, TypeTool, TypeTable, TypeSave, Thread, clockVars, table, saveVars, cronVars, toolVars, vars
  <1>16. ASSUME NEW t \in Thread, SaveWrite(t) PROVE TypeTool'
    BY <1>16, NoJobAssumption
       DEF SaveWrite, AfterSave, TypeOK, TypeTool, TypeTable, TypeSave, Thread, clockVars, table, saveVars, cronVars, toolVars, vars
  <1>17. ASSUME NEW t \in Thread, SaveWriteFails(t) PROVE TypeTool'
    BY <1>17, NoJobAssumption
       DEF SaveWriteFails, AfterSave, TypeOK, TypeTool, TypeTable, TypeSave, Thread, clockVars, table, saveVars, cronVars, toolVars, vars
  <1>18. ASSUME NEW j \in Jobs, ToolCheck(j) PROVE TypeTool'
    BY <1>18, NoJobAssumption
       DEF ToolCheck, TypeOK, TypeTool, TypeTable, TypeSave, Thread, clockVars, table, saveVars, cronVars, toolVars, vars
  <1>19. ASSUME NEW j \in Jobs, RemoveShift(j) PROVE TypeTool'
    BY <1>19, NoJobAssumption
       DEF RemoveShift, TypeOK, TypeTool, TypeTable, TypeSave, Thread, clockVars, table, saveVars, cronVars, toolVars, vars
  <1>20. CASE AddFull
    BY <1>20, NoJobAssumption
       DEF AddFull, TypeOK, TypeTool, TypeTable, TypeSave, Thread, clockVars, table, saveVars, cronVars, toolVars, vars
  <1>21. CASE AddSlot
    BY <1>21, NoJobAssumption
       DEF AddSlot, TypeOK, TypeTool, TypeTable, TypeSave, Thread, clockVars, table, saveVars, cronVars, toolVars, vars
  <1>22. CASE AddCount
    BY <1>22, NoJobAssumption
       DEF AddCount, TypeOK, TypeTool, TypeTable, TypeSave, Thread, clockVars, table, saveVars, cronVars, toolVars, vars
  <1>23. CASE ToolVerify
    BY <1>23, NoJobAssumption
       DEF ToolVerify, TypeOK, TypeTool, TypeTable, TypeSave, Thread, clockVars, table, saveVars, cronVars, toolVars, vars
  <1>24. CASE RemoveCount
    BY <1>24, NoJobAssumption
       DEF RemoveCount, TypeOK, TypeTool, TypeTable, TypeSave, Thread, clockVars, table, saveVars, cronVars, toolVars, vars
  <1>25. CASE UNCHANGED vars
    BY <1>25, NoJobAssumption DEF TypeOK, TypeTool, TypeTable, TypeSave, Thread, clockVars, table, saveVars, cronVars, toolVars, vars
  <1>26. CASE Drop
    BY <1>26, NoJobAssumption
       DEF Drop, TypeOK, TypeTool, TypeTable, TypeSave, Thread, clockVars, table, saveVars, cronVars, toolVars, vars
  <1>27. CASE AddOutside
    BY <1>27, NoJobAssumption
       DEF AddOutside, TypeOK, TypeTool, TypeTable, TypeSave, Thread, clockVars, table, saveVars, cronVars, toolVars, vars
  <1>28. ASSUME NEW t \in Thread, SaveBuildGaps(t) PROVE TypeTool'
    BY <1>28, NoJobAssumption
       DEF SaveBuildGaps, TypeOK, TypeTool, TypeTable, TypeSave, Thread, clockVars, table, saveVars, cronVars, toolVars, vars
  <1> QED BY <1>1, <1>2, <1>3, <1>4, <1>5, <1>6, <1>7, <1>8, <1>9, <1>10, <1>11, <1>12, <1>13, <1>14, <1>15, <1>16, <1>17, <1>18, <1>19, <1>20, <1>21, <1>22, <1>23, <1>24, <1>25, <1>26, <1>27, <1>28, Cases

\* The scheduler thread stays typed.
LEMMA TypeCronStep ==
  ASSUME TypeOK, [Next]_vars
  PROVE  TypeCron'
  <1>1. CASE Tick
    BY <1>1, TimeAssumption, MaxJobsAssumption
       DEF Tick, TypeOK, TypeCron, TypeTable, TypeSave, TypeClock, TypeTool, Thread, Clock, Time, clockVars, table, saveVars, cronVars, toolVars, vars
  <1>2. CASE Sync
    BY <1>2, TimeAssumption, MaxJobsAssumption
       DEF Sync, TypeOK, TypeCron, TypeTable, TypeSave, TypeClock, TypeTool, Thread, Clock, Time, clockVars, table, saveVars, cronVars, toolVars, vars
  <1>3. CASE Restart
    <2>1. cpc' = "sleep" /\ ci' = 1 /\ cjob' = NoJob /\ cwhat' = "none" /\ cnow' = 0
          /\ changed' = FALSE /\ stage' = [t \in Thread |-> "none"]
      BY <1>3 DEF Restart
    <2>2. ci' \in 1 .. MaxJobs + 1 /\ cnow' \in Time
      BY <2>1, MaxJobsAssumption, TimeAssumption DEF Time
    <2>3. stage'["cron"] = "none"
      BY <2>1 DEF Thread
    <2> QED BY <2>1, <2>2, <2>3 DEF TypeCron
  <1>4. CASE CronWake
    <2>1. cpc = "sleep" /\ UNCHANGED <<cjob, cwhat, cnow, stage, slots>>
      BY <1>4 DEF CronWake, saveVars, table
    <2>2. CASE Clock < MinEpoch
      BY <1>4, <2>1, <2>2 DEF CronWake, TypeOK, TypeCron
    <2>3. CASE ~(Clock < MinEpoch)
      <3>1. cpc' = "scan" /\ ci' = 1 /\ changed' = FALSE
        BY <1>4, <2>3 DEF CronWake
      <3>2. ci' \in 1 .. MaxJobs + 1
        BY <3>1, MaxJobsAssumption
      <3> QED BY <2>1, <3>1, <3>2 DEF TypeOK, TypeCron
    <2> QED BY <2>2, <2>3
  <1>5. CASE CronSkip
    BY <1>5, TimeAssumption, MaxJobsAssumption
       DEF CronSkip, Looking, TypeOK, TypeCron, TypeTable, TypeSave, TypeClock, TypeTool, Thread, Clock, Time, clockVars, table, saveVars, cronVars, toolVars, vars
  <1>6. CASE CronNotice
    <2>1. ci \in 1 .. count /\ ci \in 1 .. MaxJobs /\ slots[ci] \in Rec /\ slots[ci].id \in Jobs
      BY <1>6, MaxJobsAssumption DEF CronNotice, Looking, TypeOK, TypeCron, TypeTable, Rec
    <2> QED BY <1>6, <2>1, ClockType DEF CronNotice, Looking, TypeOK, TypeCron, saveVars, table
  <1>7. CASE CronRemind
    <2>1. ci \in 1 .. count /\ ci \in 1 .. MaxJobs /\ slots[ci] \in Rec /\ slots[ci].id \in Jobs
      BY <1>7, MaxJobsAssumption DEF CronRemind, Looking, TypeOK, TypeCron, TypeTable, Rec
    <2> QED BY <1>7, <2>1, ClockType DEF CronRemind, Looking, TypeOK, TypeCron, saveVars, table
  <1>8. CASE MarkOverdue
    <2>1. /\ cpc = "mark" /\ cpc' = "scan" /\ cjob' = NoJob /\ cwhat' = "none" /\ cnow' = 0
          /\ changed' = TRUE /\ stage' = stage /\ (ci' = ci + 1 \/ ci' = ci)
      BY <1>8 DEF MarkOverdue, Reminded, Marked, saveVars
    <2>2. ci \in 1 .. MaxJobs /\ stage["cron"] = "none"
      BY <2>1 DEF TypeOK, TypeCron, TypeSave, Thread
    <2>3. ci' \in 1 .. MaxJobs + 1 /\ cnow' \in Time
      BY <2>1, <2>2, MaxJobsAssumption, TimeAssumption DEF Time
    <2> QED BY <2>1, <2>2, <2>3 DEF TypeCron
  <1>9. CASE MarkDeleted
    BY <1>9 DEF MarkDeleted, Reminded, TypeOK, TypeCron, saveVars
  <1>10. CASE MarkDisabled
    <2>1. /\ cpc = "mark" /\ cpc' = "scan" /\ cjob' = NoJob /\ cwhat' = "none" /\ cnow' = 0
          /\ changed' = TRUE /\ stage' = stage /\ (ci' = ci + 1 \/ ci' = ci)
      BY <1>10 DEF MarkDisabled, Reminded, Marked, saveVars
    <2>2. ci \in 1 .. MaxJobs /\ stage["cron"] = "none"
      BY <2>1 DEF TypeOK, TypeCron, TypeSave, Thread
    <2>3. ci' \in 1 .. MaxJobs + 1 /\ cnow' \in Time
      BY <2>1, <2>2, MaxJobsAssumption, TimeAssumption DEF Time
    <2> QED BY <2>1, <2>2, <2>3 DEF TypeCron
  <1>11. CASE MarkAgain
    <2>1. /\ cpc = "mark" /\ cpc' = "scan" /\ cjob' = NoJob /\ cwhat' = "none" /\ cnow' = 0
          /\ changed' = TRUE /\ stage' = stage /\ (ci' = ci + 1 \/ ci' = ci)
      BY <1>11 DEF MarkAgain, Reminded, Marked, saveVars
    <2>2. ci \in 1 .. MaxJobs /\ stage["cron"] = "none"
      BY <2>1 DEF TypeOK, TypeCron, TypeSave, Thread
    <2>3. ci' \in 1 .. MaxJobs + 1 /\ cnow' \in Time
      BY <2>1, <2>2, MaxJobsAssumption, TimeAssumption DEF Time
    <2> QED BY <2>1, <2>2, <2>3 DEF TypeCron
  <1>12. CASE CronEnd
    BY <1>12, TimeAssumption, MaxJobsAssumption
       DEF CronEnd, TypeOK, TypeCron, TypeTable, TypeSave, TypeClock, TypeTool, Thread, Clock, Time, clockVars, table, saveVars, cronVars, toolVars, vars
  <1>13. ASSUME NEW t \in Thread, SaveBuild(t) PROVE TypeCron'
    BY <1>13, TimeAssumption, MaxJobsAssumption
       DEF SaveBuild, TypeOK, TypeCron, TypeTable, TypeSave, TypeClock, TypeTool, Thread, Clock, Time, clockVars, table, saveVars, cronVars, toolVars, vars
  <1>14. ASSUME NEW t \in Thread, SaveOpen(t) PROVE TypeCron'
    BY <1>14, TimeAssumption, MaxJobsAssumption
       DEF SaveOpen, TypeOK, TypeCron, TypeTable, TypeSave, TypeClock, TypeTool, Thread, Clock, Time, clockVars, table, saveVars, cronVars, toolVars, vars
  <1>15. ASSUME NEW t \in Thread, SaveOpenFails(t) PROVE TypeCron'
    BY <1>15, TimeAssumption, MaxJobsAssumption
       DEF SaveOpenFails, AfterSave, TypeOK, TypeCron, TypeTable, TypeSave, TypeClock, TypeTool, Thread, Clock, Time, clockVars, table, saveVars, cronVars, toolVars, vars
  <1>16. ASSUME NEW t \in Thread, SaveWrite(t) PROVE TypeCron'
    BY <1>16, TimeAssumption, MaxJobsAssumption
       DEF SaveWrite, AfterSave, TypeOK, TypeCron, TypeTable, TypeSave, TypeClock, TypeTool, Thread, Clock, Time, clockVars, table, saveVars, cronVars, toolVars, vars
  <1>17. ASSUME NEW t \in Thread, SaveWriteFails(t) PROVE TypeCron'
    BY <1>17, TimeAssumption, MaxJobsAssumption
       DEF SaveWriteFails, AfterSave, TypeOK, TypeCron, TypeTable, TypeSave, TypeClock, TypeTool, Thread, Clock, Time, clockVars, table, saveVars, cronVars, toolVars, vars
  <1>18. ASSUME NEW j \in Jobs, ToolCheck(j) PROVE TypeCron'
    BY <1>18, TimeAssumption, MaxJobsAssumption
       DEF ToolCheck, TypeOK, TypeCron, TypeTable, TypeSave, TypeClock, TypeTool, Thread, Clock, Time, clockVars, table, saveVars, cronVars, toolVars, vars
  <1>19. ASSUME NEW j \in Jobs, RemoveShift(j) PROVE TypeCron'
    <2>1. PICK i \in 1 .. count : slots' = Shifted(slots, i, count)
      BY <1>19 DEF RemoveShift
    <2>2. i \in 1 .. MaxJobs
      BY <2>1, MaxJobsAssumption DEF TypeOK, TypeTable
    <2>3. \A k \in 1 .. MaxJobs : slots[k] \in Rec => slots'[k] \in Rec
      BY <2>1, <2>2, ShiftedType DEF TypeOK, TypeTable
    <2> QED BY <1>19, <2>3 DEF RemoveShift, TypeOK, TypeCron, cronVars, saveVars
  <1>20. CASE AddFull
    BY <1>20, TimeAssumption, MaxJobsAssumption
       DEF AddFull, TypeOK, TypeCron, TypeTable, TypeSave, TypeClock, TypeTool, Thread, Clock, Time, clockVars, table, saveVars, cronVars, toolVars, vars
  <1>21. CASE AddSlot
    <2>1. NewRec(tid, Clock) \in Rec
      BY <1>21, AddedRec, ClockType DEF AddSlot, TypeOK, TypeTool
    <2>2. \A k \in 1 .. MaxJobs : slots[k] \in Rec => slots'[k] \in Rec
      BY <1>21, <2>1 DEF AddSlot, TypeOK, TypeTable
    <2> QED BY <1>21, <2>2 DEF AddSlot, TypeOK, TypeCron, cronVars, saveVars
  <1>22. CASE AddCount
    BY <1>22, TimeAssumption, MaxJobsAssumption
       DEF AddCount, TypeOK, TypeCron, TypeTable, TypeSave, TypeClock, TypeTool, Thread, Clock, Time, clockVars, table, saveVars, cronVars, toolVars, vars
  <1>23. CASE ToolVerify
    BY <1>23, TimeAssumption, MaxJobsAssumption
       DEF ToolVerify, TypeOK, TypeCron, TypeTable, TypeSave, TypeClock, TypeTool, Thread, Clock, Time, clockVars, table, saveVars, cronVars, toolVars, vars
  <1>24. CASE RemoveCount
    BY <1>24, TimeAssumption, MaxJobsAssumption
       DEF RemoveCount, TypeOK, TypeCron, TypeTable, TypeSave, TypeClock, TypeTool, Thread, Clock, Time, clockVars, table, saveVars, cronVars, toolVars, vars
  <1>25. CASE UNCHANGED vars
    BY <1>25, TimeAssumption, MaxJobsAssumption DEF TypeOK, TypeCron, TypeTable, TypeSave, TypeClock, TypeTool, Thread, Clock, Time, clockVars, table, saveVars, cronVars, toolVars, vars
  <1>26. CASE Drop
    <2>1. /\ cpc = "drop" /\ cpc' = "scan" /\ cjob' = NoJob /\ cwhat' = "none" /\ cnow' = 0
          /\ changed' = TRUE /\ stage' = stage /\ ci' = ci
      BY <1>26 DEF Drop, Marked, saveVars
    <2>2. stage["cron"] = "none"
      BY <2>1 DEF TypeOK, TypeCron, TypeSave, Thread
    <2>3. cnow' \in Time
      BY <2>1, TimeAssumption DEF Time
    <2> QED BY <2>1, <2>2, <2>3 DEF TypeOK, TypeCron
  <1>27. CASE AddOutside
    BY <1>27, TimeAssumption, MaxJobsAssumption
       DEF AddOutside, TypeOK, TypeCron, TypeTable, TypeSave, TypeClock, TypeTool, Thread, Clock, Time, clockVars, table, saveVars, cronVars, toolVars, vars
  <1>28. ASSUME NEW t \in Thread, SaveBuildGaps(t) PROVE TypeCron'
    BY <1>28, TimeAssumption, MaxJobsAssumption
       DEF SaveBuildGaps, TypeOK, TypeCron, TypeTable, TypeSave, TypeClock, TypeTool, Thread, Clock, Time, clockVars, table, saveVars, cronVars, toolVars, vars
  <1> QED BY <1>1, <1>2, <1>3, <1>4, <1>5, <1>6, <1>7, <1>8, <1>9, <1>10, <1>11, <1>12, <1>13, <1>14, <1>15, <1>16, <1>17, <1>18, <1>19, <1>20, <1>21, <1>22, <1>23, <1>24, <1>25, <1>26, <1>27, <1>28, Cases

\* The table stays typed.
LEMMA TypeTableStep ==
  ASSUME TypeOK, [Next]_vars
  PROVE  TypeTable'
  <1>1. CASE Tick
    BY <1>1, TimeAssumption, MaxJobsAssumption
       DEF Tick, TypeOK, TypeCron, TypeTable, TypeTool, TypeSave, clockVars, table, saveVars, cronVars, toolVars, vars
  <1>2. CASE Sync
    BY <1>2, TimeAssumption, MaxJobsAssumption
       DEF Sync, TypeOK, TypeCron, TypeTable, TypeTool, TypeSave, clockVars, table, saveVars, cronVars, toolVars, vars
  <1>3. CASE Restart
    <2>1. PICK jobs \in {file, <<>>} : \E t \in Nat :
             /\ slots' = [i \in 1 .. MaxJobs |->
                              IF i =< Len(jobs) THEN Started(jobs[i], t) ELSE NoRec]
             /\ count' = Len(jobs) /\ Len(jobs) \in 0 .. MaxJobs
             /\ \A i \in 1 .. Len(jobs) : jobs[i] \in Rec
      BY <1>3, LoadIs
    <2>2. PICK t \in Nat : slots' = [i \in 1 .. MaxJobs |->
                              IF i =< Len(jobs) THEN Started(jobs[i], t) ELSE NoRec]
      BY <2>1
    <2>3. \A i \in 1 .. Len(jobs) : i \in 1 .. MaxJobs /\ Started(jobs[i], t) \in Rec
      <3>1. \A i \in 1 .. Len(jobs) : i \in 1 .. MaxJobs
        BY <2>1, MaxJobsAssumption
      <3>2. \A i \in 1 .. Len(jobs) : jobs[i] \in Rec
        BY <2>1
      <3> QED BY <2>2, <3>1, <3>2, StartedRec
    <2>4. slots' \in [1 .. MaxJobs -> Rec \cup {NoRec}] /\ \A i \in 1 .. count' : slots'[i] \in Rec
      <3>1. \A i \in 1 .. MaxJobs : i =< Len(jobs) => i \in 1 .. Len(jobs)
        BY <2>1
      <3> QED BY <2>1, <2>2, <2>3, <3>1
    <2>5. tpc' = "idle" /\ cpc' = "sleep"
      BY <1>3 DEF Restart
    <2>6. count' \in -1 .. MaxJobs
      BY <2>1, MaxJobsAssumption
    <2> QED BY <2>4, <2>5, <2>6 DEF TypeTable
  <1>4. CASE CronWake
    BY <1>4, TimeAssumption, MaxJobsAssumption
       DEF CronWake, TypeOK, TypeCron, TypeTable, TypeTool, TypeSave, clockVars, table, saveVars, cronVars, toolVars, vars
  <1>5. CASE CronSkip
    BY <1>5, TimeAssumption, MaxJobsAssumption
       DEF CronSkip, Looking, TypeOK, TypeCron, TypeTable, TypeTool, TypeSave, clockVars, table, saveVars, cronVars, toolVars, vars
  <1>6. CASE CronNotice
    BY <1>6, TimeAssumption, MaxJobsAssumption
       DEF CronNotice, Looking, TypeOK, TypeCron, TypeTable, TypeTool, TypeSave, clockVars, table, saveVars, cronVars, toolVars, vars
  <1>7. CASE CronRemind
    BY <1>7, TimeAssumption, MaxJobsAssumption
       DEF CronRemind, Looking, TypeOK, TypeCron, TypeTable, TypeTool, TypeSave, clockVars, table, saveVars, cronVars, toolVars, vars
  <1>8. CASE MarkOverdue
    <2>1. ci \in 1 .. MaxJobs /\ slots[ci] \in Rec /\ cpc' = "scan" /\ count' = count
          /\ tpc' = tpc /\ cnow \in Nat /\ cnow + Def[slots[ci].id].interval \in Nat
      BY <1>8, TimeAssumption, DefAssumption
         DEF MarkOverdue, Reminded, Marked, TypeOK, TypeCron, toolVars, Time, Rec
    <2>2. PICK r \in Rec : slots' = [slots EXCEPT ![ci] = r]
      <3>1. [slots[ci] EXCEPT !.enabled = FALSE] \in Rec
        BY <2>1, MarkedRec
      <3> QED BY <1>8, <2>1, <3>1 DEF MarkOverdue
    <2> QED BY <2>1, <2>2 DEF TypeOK, TypeTable
  <1>9. CASE MarkDeleted
    <2> DEFINE s == [slots EXCEPT ![ci].last = cnow]
    <2>1. ci \in 1 .. MaxJobs /\ slots[ci] \in Rec /\ cpc = "mark" /\ cpc' = "drop"
          /\ count' = count /\ tpc' = tpc /\ cnow \in Nat /\ slots' = Shifted(s, ci, count)
      BY <1>9, TimeAssumption
         DEF MarkDeleted, Reminded, TypeOK, TypeCron, toolVars, Time
    <2>2. s \in [1 .. MaxJobs -> Rec \cup {NoRec}] /\ \A k \in 1 .. MaxJobs : slots[k] \in Rec => s[k] \in Rec
      <3>1. s = [slots EXCEPT ![ci] = [slots[ci] EXCEPT !.last = cnow]]
        OBVIOUS
      <3>2. [slots[ci] EXCEPT !.last = cnow] \in Rec
        BY <2>1, MarkedRec
      <3> QED BY <2>1, <3>1, <3>2, MaxJobsAssumption DEF TypeOK, TypeTable
    <2>3. \A k \in 1 .. count : k \in 1 .. MaxJobs /\ slots[k] \in Rec
      BY MaxJobsAssumption DEF TypeOK, TypeTable
    <2> HIDE DEF s
    <2>4. /\ slots' \in [1 .. MaxJobs -> Rec \cup {NoRec}]
          /\ \A k \in 1 .. MaxJobs : s[k] \in Rec => slots'[k] \in Rec
      BY <2>1, <2>2, <2>3, ShiftedType DEF TypeOK, TypeTable
    <2> QED BY <2>1, <2>2, <2>3, <2>4, MaxJobsAssumption DEF TypeOK, TypeTable
  <1>10. CASE MarkDisabled
    <2>1. ci \in 1 .. MaxJobs /\ slots[ci] \in Rec /\ cpc' = "scan" /\ count' = count
          /\ tpc' = tpc /\ cnow \in Nat /\ cnow + Def[slots[ci].id].interval \in Nat
      BY <1>10, TimeAssumption, DefAssumption
         DEF MarkDisabled, Reminded, Marked, TypeOK, TypeCron, toolVars, Time, Rec
    <2>2. PICK r \in Rec : slots' = [slots EXCEPT ![ci] = r]
      <3>1. [slots[ci] EXCEPT !.last = cnow, !.enabled = FALSE, !.next = 0] \in Rec
        BY <2>1, MarkedRec
      <3> QED BY <1>10, <2>1, <3>1 DEF MarkDisabled
    <2> QED BY <2>1, <2>2 DEF TypeOK, TypeTable
  <1>11. CASE MarkAgain
    <2>1. ci \in 1 .. MaxJobs /\ slots[ci] \in Rec /\ cpc' = "scan" /\ count' = count
          /\ tpc' = tpc /\ cnow \in Nat /\ cnow + Def[slots[ci].id].interval \in Nat
      BY <1>11, TimeAssumption, DefAssumption
         DEF MarkAgain, Reminded, Marked, TypeOK, TypeCron, toolVars, Time, Rec
    <2>2. PICK r \in Rec : slots' = [slots EXCEPT ![ci] = r]
      <3>1. [slots[ci] EXCEPT !.last = cnow, !.next = cnow + Def[slots[ci].id].interval] \in Rec
        BY <2>1, MarkedRec
      <3> QED BY <1>11, <2>1, <3>1 DEF MarkAgain
    <2> QED BY <2>1, <2>2 DEF TypeOK, TypeTable
  <1>12. CASE CronEnd
    BY <1>12, TimeAssumption, MaxJobsAssumption
       DEF CronEnd, TypeOK, TypeCron, TypeTable, TypeTool, TypeSave, clockVars, table, saveVars, cronVars, toolVars, vars
  <1>13. ASSUME NEW t \in Thread, SaveBuild(t) PROVE TypeTable'
    BY <1>13, TimeAssumption, MaxJobsAssumption
       DEF SaveBuild, TypeOK, TypeCron, TypeTable, TypeTool, TypeSave, clockVars, table, saveVars, cronVars, toolVars, vars
  <1>14. ASSUME NEW t \in Thread, SaveOpen(t) PROVE TypeTable'
    BY <1>14, TimeAssumption, MaxJobsAssumption
       DEF SaveOpen, TypeOK, TypeCron, TypeTable, TypeTool, TypeSave, clockVars, table, saveVars, cronVars, toolVars, vars
  <1>15. ASSUME NEW t \in Thread, SaveOpenFails(t) PROVE TypeTable'
    BY <1>15, TimeAssumption, MaxJobsAssumption
       DEF SaveOpenFails, AfterSave, TypeOK, TypeCron, TypeTable, TypeTool, TypeSave, clockVars, table, saveVars, cronVars, toolVars, vars
  <1>16. ASSUME NEW t \in Thread, SaveWrite(t) PROVE TypeTable'
    BY <1>16, TimeAssumption, MaxJobsAssumption
       DEF SaveWrite, AfterSave, TypeOK, TypeCron, TypeTable, TypeTool, TypeSave, clockVars, table, saveVars, cronVars, toolVars, vars
  <1>17. ASSUME NEW t \in Thread, SaveWriteFails(t) PROVE TypeTable'
    BY <1>17, TimeAssumption, MaxJobsAssumption
       DEF SaveWriteFails, AfterSave, TypeOK, TypeCron, TypeTable, TypeTool, TypeSave, clockVars, table, saveVars, cronVars, toolVars, vars
  <1>18. ASSUME NEW j \in Jobs, ToolCheck(j) PROVE TypeTable'
    BY <1>18, TimeAssumption, MaxJobsAssumption
       DEF ToolCheck, TypeOK, TypeCron, TypeTable, TypeTool, TypeSave, clockVars, table, saveVars, cronVars, toolVars, vars
  <1>19. ASSUME NEW j \in Jobs, RemoveShift(j) PROVE TypeTable'
    <2>1. PICK i \in 1 .. count : slots' = Shifted(slots, i, count)
      BY <1>19 DEF RemoveShift
    <2>2. i \in 1 .. MaxJobs /\ count > 0 /\ count \in 1 .. MaxJobs
      BY <2>1, MaxJobsAssumption DEF TypeOK, TypeTable
    <2>3. /\ slots' \in [1 .. MaxJobs -> Rec \cup {NoRec}]
          /\ \A k \in 1 .. MaxJobs : slots[k] \in Rec => slots'[k] \in Rec
      BY <2>1, <2>2, ShiftedType DEF TypeOK, TypeTable
    <2>4. count' = count /\ tpc' = "uncount" /\ cpc' = cpc
      BY <1>19 DEF RemoveShift, cronVars
    <2>5. \A k \in 1 .. count : slots'[k] \in Rec
      <3>1. \A k \in 1 .. count : k \in 1 .. MaxJobs /\ slots[k] \in Rec
        BY <2>2, MaxJobsAssumption DEF TypeOK, TypeTable
      <3> QED BY <2>3, <3>1
    <2> QED BY <2>2, <2>3, <2>4, <2>5 DEF TypeOK, TypeTable
  <1>20. CASE AddFull
    BY <1>20, TimeAssumption, MaxJobsAssumption
       DEF AddFull, TypeOK, TypeCron, TypeTable, TypeTool, TypeSave, clockVars, table, saveVars, cronVars, toolVars, vars
  <1>21. CASE AddSlot
    <2>1. NewRec(tid, Clock) \in Rec
      BY <1>21, AddedRec, ClockType DEF AddSlot, TypeOK, TypeTool
    <2>2. count \in 0 .. MaxJobs - 1 /\ count' = count /\ tpc' = "count" /\ cpc' = cpc
      BY <1>21 DEF AddSlot, TypeOK, TypeTable, cronVars
    <2>3. slots' = [slots EXCEPT ![count + 1] = NewRec(tid, Clock)] /\ count + 1 \in 1 .. MaxJobs
      BY <1>21, <2>2, MaxJobsAssumption DEF AddSlot
    <2> QED BY <2>1, <2>2, <2>3, MaxJobsAssumption DEF TypeOK, TypeTable
  <1>22. CASE AddCount
    BY <1>22, TimeAssumption, MaxJobsAssumption
       DEF AddCount, TypeOK, TypeCron, TypeTable, TypeTool, TypeSave, clockVars, table, saveVars, cronVars, toolVars, vars
  <1>23. CASE ToolVerify
    BY <1>23, TimeAssumption, MaxJobsAssumption
       DEF ToolVerify, TypeOK, TypeCron, TypeTable, TypeTool, TypeSave, clockVars, table, saveVars, cronVars, toolVars, vars
  <1>24. CASE RemoveCount
    BY <1>24, TimeAssumption, MaxJobsAssumption
       DEF RemoveCount, TypeOK, TypeCron, TypeTable, TypeTool, TypeSave, clockVars, table, saveVars, cronVars, toolVars, vars
  <1>25. CASE UNCHANGED vars
    BY <1>25, TimeAssumption, MaxJobsAssumption DEF TypeOK, TypeCron, TypeTable, TypeTool, TypeSave, clockVars, table, saveVars, cronVars, toolVars, vars
  <1>26. CASE Drop
    <2>1. cpc = "drop" /\ cpc' = "scan" /\ count' = count - 1 /\ slots' = slots /\ tpc' = tpc
      BY <1>26 DEF Drop, Marked, toolVars
    <2>2. count \in 0 .. MaxJobs /\ (tpc = "uncount" => count > 0)
      BY <2>1, MaxJobsAssumption DEF TypeOK, TypeTable
    <2> QED BY <2>1, <2>2, MaxJobsAssumption DEF TypeOK, TypeTable
  <1>27. CASE AddOutside
    BY <1>27, TimeAssumption, MaxJobsAssumption
       DEF AddOutside, TypeOK, TypeCron, TypeTable, TypeTool, TypeSave, clockVars, table, saveVars, cronVars, toolVars, vars
  <1>28. ASSUME NEW t \in Thread, SaveBuildGaps(t) PROVE TypeTable'
    BY <1>28, TimeAssumption, MaxJobsAssumption
       DEF SaveBuildGaps, TypeOK, TypeCron, TypeTable, TypeTool, TypeSave, clockVars, table, saveVars, cronVars, toolVars, vars
  <1> QED BY <1>1, <1>2, <1>3, <1>4, <1>5, <1>6, <1>7, <1>8, <1>9, <1>10, <1>11, <1>12, <1>13, <1>14, <1>15, <1>16, <1>17, <1>18, <1>19, <1>20, <1>21, <1>22, <1>23, <1>24, <1>25, <1>26, <1>27, <1>28, Cases

\* The file and what is being saved stay typed.
LEMMA TypeSaveStep ==
  ASSUME TypeOK, [Next]_vars
  PROVE  TypeSave'
  <1>1. CASE Tick
    BY <1>1, TableIsSeq, MaxJobsAssumption
       DEF Tick, TypeOK, TypeSave, Thread, clockVars, table, saveVars, cronVars, toolVars, vars
  <1>2. CASE Sync
    BY <1>2, TableIsSeq, MaxJobsAssumption
       DEF Sync, TypeOK, TypeSave, Thread, clockVars, table, saveVars, cronVars, toolVars, vars
  <1>3. CASE Restart
    <2>1. file' = file /\ stage' = [t \in Thread |-> "none"] /\ broken' \in BOOLEAN
          /\ snap' = [t \in Thread |-> <<>>] /\ gaps' = [t \in Thread |-> FALSE]
      BY <1>3 DEF Restart
    <2>2. <<>> \in Seq(Rec) /\ Len(<<>>) =< MaxJobs
      BY MaxJobsAssumption
    <2> QED BY <2>1, <2>2 DEF TypeOK, TypeSave
  <1>4. CASE CronWake
    BY <1>4, TableIsSeq, MaxJobsAssumption
       DEF CronWake, TypeOK, TypeSave, Thread, clockVars, table, saveVars, cronVars, toolVars, vars
  <1>5. CASE CronSkip
    BY <1>5, TableIsSeq, MaxJobsAssumption
       DEF CronSkip, Looking, TypeOK, TypeSave, Thread, clockVars, table, saveVars, cronVars, toolVars, vars
  <1>6. CASE CronNotice
    BY <1>6, TableIsSeq, MaxJobsAssumption
       DEF CronNotice, Looking, TypeOK, TypeSave, Thread, clockVars, table, saveVars, cronVars, toolVars, vars
  <1>7. CASE CronRemind
    BY <1>7, TableIsSeq, MaxJobsAssumption
       DEF CronRemind, Looking, TypeOK, TypeSave, Thread, clockVars, table, saveVars, cronVars, toolVars, vars
  <1>8. CASE MarkOverdue
    BY <1>8, TableIsSeq, MaxJobsAssumption
       DEF MarkOverdue, Marked, TypeOK, TypeSave, Thread, clockVars, table, saveVars, cronVars, toolVars, vars
  <1>9. CASE MarkDeleted
    BY <1>9, TableIsSeq, MaxJobsAssumption
       DEF MarkDeleted, Reminded, Marked, TypeOK, TypeSave, Thread, clockVars, table, saveVars, cronVars, toolVars, vars
  <1>10. CASE MarkDisabled
    BY <1>10, TableIsSeq, MaxJobsAssumption
       DEF MarkDisabled, Reminded, Marked, TypeOK, TypeSave, Thread, clockVars, table, saveVars, cronVars, toolVars, vars
  <1>11. CASE MarkAgain
    BY <1>11, TableIsSeq, MaxJobsAssumption
       DEF MarkAgain, Reminded, Marked, TypeOK, TypeSave, Thread, clockVars, table, saveVars, cronVars, toolVars, vars
  <1>12. CASE CronEnd
    BY <1>12, TableIsSeq, MaxJobsAssumption
       DEF CronEnd, TypeOK, TypeSave, Thread, clockVars, table, saveVars, cronVars, toolVars, vars
  <1>13. ASSUME NEW t \in Thread, SaveBuild(t) PROVE TypeSave'
    BY <1>13, TableIsSeq, MaxJobsAssumption
       DEF SaveBuild, TypeOK, TypeSave, Thread, clockVars, table, saveVars, cronVars, toolVars, vars
  <1>14. ASSUME NEW t \in Thread, SaveOpen(t) PROVE TypeSave'
    BY <1>14, TableIsSeq, MaxJobsAssumption
       DEF SaveOpen, TypeOK, TypeSave, Thread, clockVars, table, saveVars, cronVars, toolVars, vars
  <1>15. ASSUME NEW t \in Thread, SaveOpenFails(t) PROVE TypeSave'
    BY <1>15, TableIsSeq, MaxJobsAssumption
       DEF SaveOpenFails, AfterSave, TypeOK, TypeSave, Thread, clockVars, table, saveVars, cronVars, toolVars, vars
  <1>16. ASSUME NEW t \in Thread, SaveWrite(t) PROVE TypeSave'
    <2>1. /\ file' = snap[t] /\ broken' = gaps[t] /\ stage' = [stage EXCEPT ![t] = "none"]
          /\ snap' = [snap EXCEPT ![t] = <<>>] /\ gaps' = [gaps EXCEPT ![t] = FALSE]
      BY <1>16 DEF SaveWrite, AfterSave
    <2>2. <<>> \in Seq(Rec) /\ Len(<<>>) =< MaxJobs
      BY MaxJobsAssumption
    <2> QED BY <2>1, <2>2 DEF TypeOK, TypeSave
  <1>17. ASSUME NEW t \in Thread, SaveWriteFails(t) PROVE TypeSave'
    BY <1>17, TableIsSeq, MaxJobsAssumption
       DEF SaveWriteFails, AfterSave, TypeOK, TypeSave, Thread, clockVars, table, saveVars, cronVars, toolVars, vars
  <1>18. ASSUME NEW j \in Jobs, ToolCheck(j) PROVE TypeSave'
    BY <1>18, TableIsSeq, MaxJobsAssumption
       DEF ToolCheck, TypeOK, TypeSave, Thread, clockVars, table, saveVars, cronVars, toolVars, vars
  <1>19. ASSUME NEW j \in Jobs, RemoveShift(j) PROVE TypeSave'
    BY <1>19, TableIsSeq, MaxJobsAssumption
       DEF RemoveShift, TypeOK, TypeSave, Thread, clockVars, table, saveVars, cronVars, toolVars, vars
  <1>20. CASE AddFull
    BY <1>20, TableIsSeq, MaxJobsAssumption
       DEF AddFull, TypeOK, TypeSave, Thread, clockVars, table, saveVars, cronVars, toolVars, vars
  <1>21. CASE AddSlot
    BY <1>21, TableIsSeq, MaxJobsAssumption
       DEF AddSlot, TypeOK, TypeSave, Thread, clockVars, table, saveVars, cronVars, toolVars, vars
  <1>22. CASE AddCount
    BY <1>22, TableIsSeq, MaxJobsAssumption
       DEF AddCount, TypeOK, TypeSave, Thread, clockVars, table, saveVars, cronVars, toolVars, vars
  <1>23. CASE ToolVerify
    BY <1>23, TableIsSeq, MaxJobsAssumption
       DEF ToolVerify, TypeOK, TypeSave, Thread, clockVars, table, saveVars, cronVars, toolVars, vars
  <1>24. CASE RemoveCount
    BY <1>24, TableIsSeq, MaxJobsAssumption
       DEF RemoveCount, TypeOK, TypeSave, Thread, clockVars, table, saveVars, cronVars, toolVars, vars
  <1>25. CASE UNCHANGED vars
    BY <1>25, TableIsSeq, MaxJobsAssumption DEF TypeOK, TypeSave, Thread, clockVars, table, saveVars, cronVars, toolVars, vars
  <1>26. CASE Drop
    BY <1>26, TableIsSeq, MaxJobsAssumption
       DEF Drop, Marked, TypeOK, TypeSave, Thread, clockVars, table, saveVars, cronVars, toolVars, vars
  <1>27. CASE AddOutside
    BY <1>27, TableIsSeq, MaxJobsAssumption
       DEF AddOutside, TypeOK, TypeSave, Thread, clockVars, table, saveVars, cronVars, toolVars, vars
  <1>28. ASSUME NEW t \in Thread, SaveBuildGaps(t) PROVE TypeSave'
    <2>1. PICK q \in Seq(Rec) : snap' = [snap EXCEPT ![t] = q] /\ Len(q) =< MaxJobs
      BY <1>28, GapsIs
    <2>2. file' = file /\ gaps' = [gaps EXCEPT ![t] = TRUE] /\ broken' = broken
          /\ stage' = [stage EXCEPT ![t] = "open"]
      BY <1>28 DEF SaveBuildGaps
    <2> QED BY <2>1, <2>2 DEF TypeOK, TypeSave
  <1> QED BY <1>1, <1>2, <1>3, <1>4, <1>5, <1>6, <1>7, <1>8, <1>9, <1>10, <1>11, <1>12, <1>13, <1>14, <1>15, <1>16, <1>17, <1>18, <1>19, <1>20, <1>21, <1>22, <1>23, <1>24, <1>25, <1>26, <1>27, <1>28, Cases

\* The initial state is well typed.
LEMMA TypeInit == Init => TypeOK
  <1> SUFFICES ASSUME Init PROVE TypeOK OBVIOUS
  <1>1. TypeClock
    BY TimeAssumption DEF Init, TypeClock
  <1>2. TypeTable
    BY MaxJobsAssumption DEF Init, TypeTable
  <1>3. TypeSave
    <2>1. <<>> \in Seq(Rec) /\ Len(<<>>) =< MaxJobs
      BY MaxJobsAssumption
    <2>2. /\ file = <<>> /\ stage = [t \in Thread |-> "none"] /\ broken = FALSE
          /\ snap = [t \in Thread |-> <<>>] /\ gaps = [t \in Thread |-> FALSE]
      BY DEF Init
    <2> QED BY <2>1, <2>2 DEF TypeSave
  <1>4. TypeCron
    <2>1. stage["cron"] = "none"
      BY DEF Init, Thread
    <2>2. ci \in 1 .. MaxJobs + 1 /\ cnow \in Time
      BY MaxJobsAssumption, TimeAssumption DEF Init, Time
    <2> QED BY <2>1, <2>2 DEF Init, TypeCron
  <1>5. TypeTool
    <2>1. stage["tool"] = "none"
      BY DEF Init, Thread
    <2> QED BY <2>1 DEF Init, TypeTool
  <1> QED BY <1>1, <1>2, <1>3, <1>4, <1>5 DEF Init, TypeOK

\* The histories stay typed.
LEMMA TypeHistoryStep ==
  ASSUME TypeOK, [Next]_vars
  PROVE  fired' \subseteq Jobs /\ raced' \in BOOLEAN
  <1>1. CASE CronRemind
    <2>1. slots[ci].id \in Jobs
      BY <1>1, MaxJobsAssumption DEF CronRemind, Looking, TypeOK, TypeTable, TypeCron, Rec
    <2> QED BY <1>1, <2>1 DEF CronRemind, TypeOK
  <1>2. CASE ~CronRemind
    BY <1>2, Cases
       DEF Tick, Sync, Restart, CronWake, CronSkip, CronNotice, MarkOverdue, MarkDeleted, Drop,
           MarkDisabled, MarkAgain, CronEnd, SaveBuild, SaveBuildGaps, SaveOpen, SaveOpenFails, SaveWrite,
           SaveWriteFails, AfterSave, ToolCheck, RemoveShift, AddFull, AddSlot, AddOutside, AddCount,
           ToolVerify, RemoveCount, vars, TypeOK, ToolInside, CronInside
  <1> QED BY <1>1, <1>2

\* A step keeps the types.
LEMMA TypeStep == TypeOK /\ [Next]_vars => TypeOK'
  BY TypeClockStep, TypeTableStep, TypeSaveStep, TypeCronStep, TypeToolStep,
     TypeHistoryStep DEF TypeOK

\* Every state up to the first write outside s_jobs, at which the model ends,
\* is well typed: the count never exceeds the array, and two threads that meet
\* bring it to -1 at worst, where cron_add_job makes that write.
THEOREM TypeCorrect == Spec => []TypeOK
  <1>1. Init => TypeOK BY TypeInit
  <1>2. TypeOK /\ [Next]_vars => TypeOK' BY TypeStep
  <1> QED BY <1>1, <1>2, PTL DEF Spec

\* Once the threads have met, they have.
LEMMA RacedStays ==
  ASSUME TypeOK, [Next]_vars, ~raced'
  PROVE  ~raced
  BY Cases
     DEF Tick, Sync, Restart, CronWake, CronSkip, CronNotice, CronRemind, MarkOverdue,
         MarkDeleted, Drop, MarkDisabled, MarkAgain, CronEnd, SaveBuild, SaveBuildGaps, SaveOpen, SaveOpenFails,
         SaveWrite, SaveWriteFails, AfterSave, ToolCheck, RemoveShift, AddFull, AddSlot, AddOutside,
         AddCount, ToolVerify, RemoveCount, vars, TypeOK, ToolInside, CronInside

\* Where the entries go when entry i leaves.
LEMMA ShiftedIs ==
  ASSUME NEW s \in [1 .. MaxJobs -> Rec \cup {NoRec}], NEW n \in 1 .. MaxJobs,
         NEW i \in 1 .. n
  PROVE  /\ \A k \in 1 .. n - 1 :
               /\ k \in 1 .. MaxJobs /\ (k < i => k \in 1 .. n) /\ (k >= i => k + 1 \in 1 .. n)
               /\ Shifted(s, i, n)[k] = IF k < i THEN s[k] ELSE s[k + 1]
         /\ Shifted(s, i, n)[n] = s[n]
  <1>1. \A k \in 1 .. n : k \in 1 .. MaxJobs
    BY MaxJobsAssumption
  <1>2. \A k \in 1 .. n : Shifted(s, i, n)[k] = IF k \in i .. n - 1 THEN s[k + 1] ELSE s[k]
    BY <1>1 DEF Shifted
  <1>3. \A k \in 1 .. n - 1 : k \in 1 .. n /\ (k \in i .. n - 1 <=> k >= i)
    BY MaxJobsAssumption
  <1>4. n \in 1 .. n /\ n \notin i .. n - 1
    BY MaxJobsAssumption
  <1> QED BY <1>1, <1>2, <1>3, <1>4, MaxJobsAssumption

\* Deleting a one-shot job: the other entries stay, in their order.
LEMMA DeletedIs ==
  ASSUME TypeOK, MarkIsOfPushedJob, OneInside, ~raced, MarkDeleted
  PROVE  /\ count' = count /\ count \in 1 .. MaxJobs /\ ci \in 1 .. count
         /\ slots[ci].id = cjob /\ Live = count /\ Live' = count - 1
         /\ \A k \in 1 .. count - 1 :
               /\ k \in 1 .. MaxJobs /\ (k < ci => k \in 1 .. count)
               /\ (k >= ci => k + 1 \in 1 .. count)
               /\ slots'[k] = IF k < ci THEN slots[k] ELSE slots[k + 1]
         /\ slots'[count].id = slots[count].id /\ slots'[count].enabled = slots[count].enabled
  <1> DEFINE s == [slots EXCEPT ![ci].last = cnow]
  <1>1. /\ ci \in 1 .. MaxJobs /\ slots[ci] \in Rec /\ slots[ci].id = cjob /\ ci =< count
        /\ count' = count /\ cnow \in Nat /\ slots' = Shifted(s, ci, count)
    BY TimeAssumption
       DEF MarkDeleted, Reminded, MarkIsOfPushedJob, TypeOK, TypeCron, Time
  <1>2. count \in 1 .. MaxJobs /\ ci \in 1 .. count
    BY <1>1, MaxJobsAssumption DEF TypeOK, TypeTable
  <1>3. s \in [1 .. MaxJobs -> Rec \cup {NoRec}] /\ s[ci].id = slots[ci].id
        /\ s[ci].enabled = slots[ci].enabled
    <2>1. [slots[ci] EXCEPT !.last = cnow] \in Rec /\ [slots[ci] EXCEPT !.last = cnow].id = slots[ci].id
          /\ [slots[ci] EXCEPT !.last = cnow].enabled = slots[ci].enabled
      BY <1>1, MarkedRec DEF Rec
    <2> QED BY <1>1, <2>1 DEF TypeOK, TypeTable
  <1>4. \A k \in 1 .. MaxJobs : k # ci => s[k] = slots[k]
    BY DEF TypeOK, TypeTable
  <1> HIDE DEF s
  <1>5. /\ \A k \in 1 .. count - 1 :
              /\ k \in 1 .. MaxJobs /\ (k < ci => k \in 1 .. count) /\ (k >= ci => k + 1 \in 1 .. count)
              /\ slots'[k] = IF k < ci THEN s[k] ELSE s[k + 1]
        /\ slots'[count] = s[count]
    BY <1>1, <1>2, <1>3, ShiftedIs
  <1>6. \A k \in 1 .. count - 1 : k >= ci => k + 1 \in 1 .. MaxJobs /\ k + 1 # ci
    BY <1>1, <1>2, MaxJobsAssumption
  <1>7. slots'[count].id = slots[count].id /\ slots'[count].enabled = slots[count].enabled
    BY <1>2, <1>3, <1>4, <1>5, MaxJobsAssumption
  <1>8. Live = count /\ Live' = count - 1
    <2>1. cpc = "mark" /\ cpc' = "drop" /\ tpc # "uncount"
      BY DEF MarkDeleted, Reminded, OneInside, CronInside, ToolInside
    <2> QED BY <1>1, <2>1 DEF Live
  <1> QED BY <1>1, <1>2, <1>4, <1>5, <1>6, <1>7, <1>8

\* Counting it out: nothing moves.
LEMMA DroppedIs ==
  ASSUME TypeOK, OneInside, ~raced, Drop
  PROVE  /\ count' = count - 1 /\ count \in 1 .. MaxJobs /\ slots' = slots /\ ci' = ci
         /\ cpc = "drop" /\ cpc' = "scan" /\ cjob' = NoJob /\ Live = count' /\ Live' = count'
  <1>1. /\ count' = count - 1 /\ slots' = slots /\ cpc = "drop" /\ cpc' = "scan" /\ ci' = ci
        /\ tpc' = tpc /\ tpc # "uncount" /\ count > 0 /\ cjob' = NoJob
    BY DEF Drop, Marked, OneInside, CronInside, ToolInside, toolVars
  <1> QED BY <1>1, MaxJobsAssumption DEF Live, TypeOK, TypeTable

\* Removing a job: the other entries stay, and the last one is not gone yet.
LEMMA RemovedIs ==
  ASSUME TypeOK, NEW j \in Jobs, RemoveShift(j)
  PROVE  /\ count' = count /\ count \in 1 .. MaxJobs
         /\ \E i \in 1 .. count :
               /\ slots[i].id = j
               /\ \A k \in 1 .. count - 1 :
                     /\ k \in 1 .. MaxJobs /\ (k < i => k \in 1 .. count)
                     /\ (k >= i => k + 1 \in 1 .. count)
                     /\ slots'[k] = IF k < i THEN slots[k] ELSE slots[k + 1]
         /\ slots'[count] = slots[count]
  <1>1. PICK i \in 1 .. count : slots[i].id = j /\ slots' = Shifted(slots, i, count)
    BY DEF RemoveShift
  <1>2. count \in 1 .. MaxJobs /\ count' = count
    BY <1>1, MaxJobsAssumption DEF RemoveShift, TypeOK, TypeTable
  <1>3. slots \in [1 .. MaxJobs -> Rec \cup {NoRec}]
    BY DEF TypeOK, TypeTable
  <1> QED BY <1>1, <1>2, <1>3, ShiftedIs

\* A mark that keeps the entry changes nothing but that entry, and not its id.
LEMMA MarkedIs ==
  ASSUME TypeOK, MarkOverdue \/ MarkDisabled \/ MarkAgain
  PROVE  /\ ci \in 1 .. MaxJobs /\ count' = count
         /\ slots'[ci].id = slots[ci].id
         /\ MarkOverdue \/ MarkDisabled => ~slots'[ci].enabled
         /\ MarkAgain => Def[slots[ci].id].kind = "every" /\ Timed(slots'[ci])
         /\ \A k \in 1 .. MaxJobs : k # ci => slots'[k] = slots[k]
  <1>1. ci \in 1 .. MaxJobs /\ slots[ci] \in Rec /\ count' = count
    BY DEF MarkOverdue, MarkDisabled, MarkAgain, Reminded, TypeOK, TypeCron
  <1>2. slots \in [1 .. MaxJobs -> Rec \cup {NoRec}]
    BY DEF TypeOK, TypeTable
  <1>3. CASE MarkOverdue
    <2>1. slots' = [slots EXCEPT ![ci] = [slots[ci] EXCEPT !.enabled = FALSE]]
      BY <1>3 DEF MarkOverdue
    <2>2. ~MarkDisabled /\ ~MarkAgain
      BY <1>3 DEF MarkOverdue, MarkDisabled, MarkAgain, Reminded
    <2> QED BY <1>1, <1>2, <2>1, <2>2 DEF Rec
  <1>4. CASE MarkDisabled
    <2>1. slots' = [slots EXCEPT ![ci] =
                      [slots[ci] EXCEPT !.last = cnow, !.enabled = FALSE, !.next = 0]]
      BY <1>4 DEF MarkDisabled
    <2>2. ~MarkAgain
      BY <1>4 DEF MarkDisabled, MarkAgain
    <2> QED BY <1>1, <1>2, <2>1, <2>2 DEF Rec
  <1>5. CASE MarkAgain
    <2>1. slots' = [slots EXCEPT ![ci] =
                      [slots[ci] EXCEPT !.last = cnow, !.next = cnow + Def[slots[ci].id].interval]]
      BY <1>5 DEF MarkAgain
    <2>2. ~MarkOverdue /\ ~MarkDisabled /\ Def[slots[ci].id].kind = "every"
      BY <1>5 DEF MarkOverdue, MarkDisabled, MarkAgain, Reminded
    <2>3. cnow + Def[slots[ci].id].interval > 0
      BY <1>1, DefAssumption, TimeAssumption DEF TypeOK, TypeCron, Time, Rec
    <2> QED BY <1>1, <1>2, <2>1, <2>2, <2>3 DEF Rec, Timed
  <1> QED BY <1>3, <1>4, <1>5

\* Adding an entry changes nothing in the table, until it is counted.
LEMMA AddedIs ==
  ASSUME TypeOK, AddSlot
  PROVE  /\ count' = count /\ count < MaxJobs /\ tid \in Jobs /\ tid' = tid
         /\ count >= 0 /\ slots'[count + 1] = NewRec(tid, Clock)
         /\ \A k \in 1 .. MaxJobs : slots'[k] # slots[k] => k = count + 1
  <1>1. count \in 0 .. MaxJobs - 1 /\ slots \in [1 .. MaxJobs -> Rec \cup {NoRec}]
    BY DEF AddSlot, TypeOK, TypeTable
  <1>2. count + 1 \in 1 .. MaxJobs
    BY <1>1, MaxJobsAssumption
  <1> QED BY <1>1, <1>2, MaxJobsAssumption DEF AddSlot, TypeOK, TypeTool

\* Enabled entries keep a time.
LEMMA TimedStep ==
  ASSUME TypeOK, AllTimed, [Next]_vars
  PROVE  AllTimed'
  <1>1. CASE Tick
    BY <1>1
       DEF Tick, TypeOK, TypeSave, AllTimed, Timed, clockVars, table, saveVars, cronVars, toolVars, vars
  <1>2. CASE Sync
    BY <1>2
       DEF Sync, TypeOK, TypeSave, AllTimed, Timed, clockVars, table, saveVars, cronVars, toolVars, vars
  <1>3. CASE Restart
    <2>1. PICK jobs \in {file, <<>>} : \E t \in Nat :
             /\ slots' = [i \in 1 .. MaxJobs |->
                              IF i =< Len(jobs) THEN Started(jobs[i], t) ELSE NoRec]
             /\ Len(jobs) \in 0 .. MaxJobs
             /\ \A i \in 1 .. Len(jobs) : jobs[i] \in Rec /\ jobs[i] = file[i] /\ i \in 1 .. Len(file)
      BY <1>3, LoadIs
    <2>2. PICK t \in Nat : slots' = [i \in 1 .. MaxJobs |->
                              IF i =< Len(jobs) THEN Started(jobs[i], t) ELSE NoRec]
      BY <2>1
    <2>3. \A i \in 1 .. Len(jobs) : Timed(Started(jobs[i], t))
      <3>1. \A i \in 1 .. Len(jobs) : jobs[i] \in Rec /\ Timed(jobs[i])
        BY <2>1 DEF AllTimed
      <3> QED BY <2>1, <3>1, StartedRec
    <2>4. ~NoRec.enabled /\ \A i \in 1 .. MaxJobs : i =< Len(jobs) => i \in 1 .. Len(jobs)
      BY <2>1 DEF NoRec
    <2>5. \A i \in 1 .. MaxJobs : Timed(slots'[i])
      BY <2>2, <2>3, <2>4 DEF Timed
    <2>6. file' = file /\ snap' = [t1 \in Thread |-> <<>>]
      BY <1>3 DEF Restart
    <2> QED BY <2>5, <2>6 DEF AllTimed
  <1>4. CASE CronWake
    BY <1>4
       DEF CronWake, TypeOK, TypeSave, AllTimed, Timed, clockVars, table, saveVars, cronVars, toolVars, vars
  <1>5. CASE CronSkip
    BY <1>5
       DEF CronSkip, Looking, TypeOK, TypeSave, AllTimed, Timed, clockVars, table, saveVars, cronVars, toolVars, vars
  <1>6. CASE CronNotice
    BY <1>6
       DEF CronNotice, Looking, TypeOK, TypeSave, AllTimed, Timed, clockVars, table, saveVars, cronVars, toolVars, vars
  <1>7. CASE CronRemind
    BY <1>7
       DEF CronRemind, Looking, TypeOK, TypeSave, AllTimed, Timed, clockVars, table, saveVars, cronVars, toolVars, vars
  <1>8. CASE MarkOverdue
    BY <1>8
       DEF MarkOverdue, Marked, TypeOK, TypeSave, AllTimed, Timed, clockVars, table, saveVars, cronVars, toolVars, vars
  <1>9. CASE MarkDeleted
    <2> DEFINE s == [slots EXCEPT ![ci].last = cnow]
    <2>1. ci \in 1 .. MaxJobs /\ slots[ci] \in Rec /\ cnow \in Nat /\ slots' = Shifted(s, ci, count)
          /\ UNCHANGED <<file, snap>>
      BY <1>9, TimeAssumption DEF MarkDeleted, Reminded, TypeOK, TypeCron, Time, saveVars
    <2>2. s \in [1 .. MaxJobs -> Rec \cup {NoRec}] /\ \A k \in 1 .. MaxJobs : Timed(s[k])
      <3>1. [slots[ci] EXCEPT !.last = cnow] \in Rec
        BY <2>1, MarkedRec
      <3> QED BY <2>1, <3>1 DEF TypeOK, TypeTable, AllTimed, Timed, Rec
    <2>3. \A k \in 1 .. count : s[k] \in Rec
      <3>1. [slots[ci] EXCEPT !.last = cnow] \in Rec
        BY <2>1, MarkedRec
      <3> QED BY <2>1, <3>1, MaxJobsAssumption DEF TypeOK, TypeTable
    <2> HIDE DEF s
    <2>4. \A k \in 1 .. MaxJobs : slots'[k] = IF k \in ci .. count - 1 THEN s[k + 1] ELSE s[k]
      <3>1. count \in -1 .. MaxJobs
        BY DEF TypeOK, TypeTable
      <3> QED BY <2>1, <2>2, <2>3, <3>1 DEF Shifted
    <2>5. \A k \in 1 .. MaxJobs : k \in ci .. count - 1 => k + 1 \in 1 .. MaxJobs
      BY <2>1, MaxJobsAssumption DEF TypeOK, TypeTable
    <2>6. \A k \in 1 .. MaxJobs : Timed(slots'[k])
      BY <2>2, <2>4, <2>5
    <2> QED BY <2>1, <2>6 DEF AllTimed
  <1>10. CASE MarkDisabled
    BY <1>10
       DEF MarkDisabled, Reminded, Marked, TypeOK, TypeSave, AllTimed, Timed, clockVars, table, saveVars, cronVars, toolVars, vars
  <1>11. CASE MarkAgain
    <2>1. \A k \in 1 .. MaxJobs : Timed(slots'[k])
      BY <1>11, MarkedIs DEF AllTimed, Timed
    <2> QED BY <1>11, <2>1 DEF MarkAgain, AllTimed, saveVars
  <1>12. CASE CronEnd
    BY <1>12
       DEF CronEnd, TypeOK, TypeSave, AllTimed, Timed, clockVars, table, saveVars, cronVars, toolVars, vars
  <1>13. ASSUME NEW t \in Thread, SaveBuild(t) PROVE AllTimed'
    <2>1. \A i \in 1 .. Len(Table) : Timed(Table[i])
      BY TableIsSeq, MaxJobsAssumption DEF AllTimed, TypeOK, TypeTable
    <2>2. snap' = [snap EXCEPT ![t] = Table] /\ UNCHANGED <<slots, file>>
      BY <1>13 DEF SaveBuild, table
    <2> QED BY <2>1, <2>2 DEF AllTimed, TypeOK, TypeSave
  <1>14. ASSUME NEW t \in Thread, SaveOpen(t) PROVE AllTimed'
    BY <1>14
       DEF SaveOpen, TypeOK, TypeSave, AllTimed, Timed, clockVars, table, saveVars, cronVars, toolVars, vars
  <1>15. ASSUME NEW t \in Thread, SaveOpenFails(t) PROVE AllTimed'
    BY <1>15
       DEF SaveOpenFails, AfterSave, TypeOK, TypeSave, AllTimed, Timed, clockVars, table, saveVars, cronVars, toolVars, vars
  <1>16. ASSUME NEW t \in Thread, SaveWrite(t) PROVE AllTimed'
    BY <1>16
       DEF SaveWrite, AfterSave, TypeOK, TypeSave, AllTimed, Timed, clockVars, table, saveVars, cronVars, toolVars, vars
  <1>17. ASSUME NEW t \in Thread, SaveWriteFails(t) PROVE AllTimed'
    BY <1>17
       DEF SaveWriteFails, AfterSave, TypeOK, TypeSave, AllTimed, Timed, clockVars, table, saveVars, cronVars, toolVars, vars
  <1>18. ASSUME NEW j \in Jobs, ToolCheck(j) PROVE AllTimed'
    BY <1>18
       DEF ToolCheck, TypeOK, TypeSave, AllTimed, Timed, clockVars, table, saveVars, cronVars, toolVars, vars
  <1>19. ASSUME NEW j \in Jobs, RemoveShift(j) PROVE AllTimed'
    <2>1. PICK i \in 1 .. count : slots' = Shifted(slots, i, count)
      BY <1>19 DEF RemoveShift
    <2>2. i \in 1 .. MaxJobs /\ count > 0 /\ count \in 1 .. MaxJobs
      BY <2>1, MaxJobsAssumption DEF TypeOK, TypeTable
    <2>3. \A k \in 1 .. MaxJobs : slots'[k] = IF k \in i .. count - 1 THEN slots[k + 1] ELSE slots[k]
      BY <2>1 DEF Shifted
    <2>4. \A k \in 1 .. MaxJobs : k \in i .. count - 1 => k + 1 \in 1 .. MaxJobs
      BY <2>1, <2>2, MaxJobsAssumption
    <2>5. \A k \in 1 .. MaxJobs : Timed(slots'[k])
      BY <2>3, <2>4 DEF AllTimed
    <2> QED BY <1>19, <2>5 DEF RemoveShift, AllTimed, saveVars
  <1>20. CASE AddFull
    BY <1>20
       DEF AddFull, TypeOK, TypeSave, AllTimed, Timed, clockVars, table, saveVars, cronVars, toolVars, vars
  <1>21. CASE AddSlot
    <2>1. tid \in Jobs /\ Timed(NewRec(tid, Clock))
      BY <1>21, AddedIs, AddedRec, ClockType DEF TypeOK
    <2>2. \A k \in 1 .. MaxJobs : Timed(slots'[k])
      BY <1>21, <2>1, AddedIs DEF AllTimed
    <2> QED BY <1>21, <2>2 DEF AddSlot, AllTimed, saveVars
  <1>22. CASE AddCount
    BY <1>22
       DEF AddCount, TypeOK, TypeSave, AllTimed, Timed, clockVars, table, saveVars, cronVars, toolVars, vars
  <1>23. CASE ToolVerify
    BY <1>23
       DEF ToolVerify, TypeOK, TypeSave, AllTimed, Timed, clockVars, table, saveVars, cronVars, toolVars, vars
  <1>24. CASE RemoveCount
    BY <1>24
       DEF RemoveCount, TypeOK, TypeSave, AllTimed, Timed, clockVars, table, saveVars, cronVars, toolVars, vars
  <1>25. CASE UNCHANGED vars
    BY <1>25 DEF TypeOK, TypeSave, AllTimed, Timed, clockVars, table, saveVars, cronVars, toolVars, vars
  <1>26. CASE Drop
    BY <1>26 DEF Drop, AllTimed, saveVars
  <1>27. CASE AddOutside
    BY <1>27
       DEF AddOutside, TypeOK, TypeSave, AllTimed, Timed, clockVars, table, saveVars, cronVars, toolVars, vars
  <1>28. ASSUME NEW t \in Thread, SaveBuildGaps(t) PROVE AllTimed'
    <2>1. PICK q \in Seq(Rec) : snap' = [snap EXCEPT ![t] = q]
             /\ \E at \in [1 .. Len(q) -> 1 .. count] : \A k \in 1 .. Len(q) : q[k] = slots[at[k]]
      BY <1>28, GapsIs
    <2>2. \A k \in 1 .. Len(q) : Timed(q[k])
      <3>1. \A k \in 1 .. Len(q) : \E i \in 1 .. MaxJobs : q[k] = slots[i]
        BY <2>1, MaxJobsAssumption DEF TypeOK, TypeTable
      <3> QED BY <3>1 DEF AllTimed
    <2>3. UNCHANGED <<slots, file>>
      BY <1>28 DEF SaveBuildGaps, table
    <2> QED BY <2>1, <2>2, <2>3 DEF AllTimed, TypeOK, TypeSave
  <1> QED BY <1>1, <1>2, <1>3, <1>4, <1>5, <1>6, <1>7, <1>8, <1>9, <1>10, <1>11, <1>12, <1>13, <1>14, <1>15, <1>16, <1>17, <1>18, <1>19, <1>20, <1>21, <1>22, <1>23, <1>24, <1>25, <1>26, <1>27, <1>28, Cases

\* The threads stay apart.
LEMMA OneInsideStep ==
  ASSUME TypeOK, OneInside, MarkIsOfPushedJob, ~raced, ~raced', [Next]_vars
  PROVE  OneInside'
  <1>1. CASE Tick
    BY <1>1, ClockType, TimeAssumption
       DEF Tick, TypeOK, TypeTool, TypeTable, OneInside, Outside, ToolInside, CronInside, clockVars, table, saveVars, cronVars, toolVars, vars
  <1>2. CASE Sync
    BY <1>2, ClockType, TimeAssumption
       DEF Sync, TypeOK, TypeTool, TypeTable, OneInside, Outside, ToolInside, CronInside, clockVars, table, saveVars, cronVars, toolVars, vars
  <1>3. CASE Restart
    BY <1>3, ClockType, TimeAssumption
       DEF Restart, TypeOK, TypeTool, TypeTable, OneInside, Outside, ToolInside, CronInside, clockVars, table, saveVars, cronVars, toolVars, vars
  <1>4. CASE CronWake
    BY <1>4, ClockType, TimeAssumption
       DEF CronWake, TypeOK, TypeTool, TypeTable, OneInside, Outside, ToolInside, CronInside, TypeClock, clockVars, table, saveVars, cronVars, toolVars, vars
  <1>5. CASE CronSkip
    BY <1>5, ClockType, TimeAssumption
       DEF CronSkip, Looking, TypeOK, TypeTool, TypeTable, OneInside, Outside, ToolInside, CronInside, clockVars, table, saveVars, cronVars, toolVars, vars
  <1>6. CASE CronNotice
    BY <1>6, ClockType, TimeAssumption
       DEF CronNotice, Looking, TypeOK, TypeTool, TypeTable, OneInside, Outside, ToolInside, CronInside, clockVars, table, saveVars, cronVars, toolVars, vars
  <1>7. CASE CronRemind
    BY <1>7, ClockType, TimeAssumption
       DEF CronRemind, Looking, TypeOK, TypeTool, TypeTable, OneInside, Outside, ToolInside, CronInside, clockVars, table, saveVars, cronVars, toolVars, vars
  <1>8. CASE MarkOverdue
    BY <1>8, ClockType, TimeAssumption
       DEF MarkOverdue, Marked, TypeOK, TypeTool, TypeTable, OneInside, Outside, ToolInside, CronInside, clockVars, table, saveVars, cronVars, toolVars, vars
  <1>9. CASE MarkDeleted
    <2>1. count' > 0
      BY <1>9, DeletedIs
    <2> QED BY <1>9, <2>1
       DEF MarkDeleted, Reminded, OneInside, Outside, ToolInside, CronInside, clockVars, toolVars
  <1>10. CASE MarkDisabled
    BY <1>10, ClockType, TimeAssumption
       DEF MarkDisabled, Reminded, Marked, TypeOK, TypeTool, TypeTable, OneInside, Outside, ToolInside, CronInside, clockVars, table, saveVars, cronVars, toolVars, vars
  <1>11. CASE MarkAgain
    BY <1>11, ClockType, TimeAssumption
       DEF MarkAgain, Reminded, Marked, TypeOK, TypeTool, TypeTable, OneInside, Outside, ToolInside, CronInside, clockVars, table, saveVars, cronVars, toolVars, vars
  <1>12. CASE CronEnd
    BY <1>12, ClockType, TimeAssumption
       DEF CronEnd, TypeOK, TypeTool, TypeTable, OneInside, Outside, ToolInside, CronInside, TypeCron, TypeSave, Thread, clockVars, table, saveVars, cronVars, toolVars, vars
  <1>13. ASSUME NEW t \in Thread, SaveBuild(t) PROVE OneInside'
    BY <1>13, ClockType, TimeAssumption
       DEF SaveBuild, TypeOK, TypeTool, TypeTable, OneInside, Outside, ToolInside, CronInside, clockVars, table, saveVars, cronVars, toolVars, vars
  <1>14. ASSUME NEW t \in Thread, SaveOpen(t) PROVE OneInside'
    BY <1>14, ClockType, TimeAssumption
       DEF SaveOpen, TypeOK, TypeTool, TypeTable, OneInside, Outside, ToolInside, CronInside, clockVars, table, saveVars, cronVars, toolVars, vars
  <1>15. ASSUME NEW t \in Thread, SaveOpenFails(t) PROVE OneInside'
    BY <1>15, ClockType, TimeAssumption
       DEF SaveOpenFails, AfterSave, TypeOK, TypeTool, TypeTable, OneInside, Outside, ToolInside, CronInside, clockVars, table, saveVars, cronVars, toolVars, vars
  <1>16. ASSUME NEW t \in Thread, SaveWrite(t) PROVE OneInside'
    BY <1>16, ClockType, TimeAssumption
       DEF SaveWrite, AfterSave, TypeOK, TypeTool, TypeTable, OneInside, Outside, ToolInside, CronInside, clockVars, table, saveVars, cronVars, toolVars, vars
  <1>17. ASSUME NEW t \in Thread, SaveWriteFails(t) PROVE OneInside'
    BY <1>17, ClockType, TimeAssumption
       DEF SaveWriteFails, AfterSave, TypeOK, TypeTool, TypeTable, OneInside, Outside, ToolInside, CronInside, clockVars, table, saveVars, cronVars, toolVars, vars
  <1>18. ASSUME NEW j \in Jobs, ToolCheck(j) PROVE OneInside'
    BY <1>18, ClockType, TimeAssumption
       DEF ToolCheck, TypeOK, TypeTool, TypeTable, OneInside, Outside, ToolInside, CronInside, clockVars, table, saveVars, cronVars, toolVars, vars
  <1>19. ASSUME NEW j \in Jobs, RemoveShift(j) PROVE OneInside'
    <2>1. count' > 0
      BY <1>19, RemovedIs
    <2> QED BY <1>19, <2>1
       DEF RemoveShift, OneInside, Outside, ToolInside, CronInside, clockVars, cronVars
  <1>20. CASE AddFull
    BY <1>20, ClockType, TimeAssumption
       DEF AddFull, TypeOK, TypeTool, TypeTable, OneInside, Outside, ToolInside, CronInside, clockVars, table, saveVars, cronVars, toolVars, vars
  <1>21. CASE AddSlot
    BY <1>21, ClockType, TimeAssumption
       DEF AddSlot, TypeOK, TypeTool, TypeTable, OneInside, Outside, ToolInside, CronInside, clockVars, table, saveVars, cronVars, toolVars, vars
  <1>22. CASE AddCount
    BY <1>22, ClockType, TimeAssumption
       DEF AddCount, TypeOK, TypeTool, TypeTable, OneInside, Outside, ToolInside, CronInside, clockVars, table, saveVars, cronVars, toolVars, vars
  <1>23. CASE ToolVerify
    BY <1>23, ClockType, TimeAssumption
       DEF ToolVerify, TypeOK, TypeTool, TypeTable, OneInside, Outside, ToolInside, CronInside, clockVars, table, saveVars, cronVars, toolVars, vars
  <1>24. CASE RemoveCount
    BY <1>24, ClockType, TimeAssumption
       DEF RemoveCount, TypeOK, TypeTool, TypeTable, OneInside, Outside, ToolInside, CronInside, clockVars, table, saveVars, cronVars, toolVars, vars
  <1>25. CASE UNCHANGED vars
    BY <1>25, ClockType, TimeAssumption DEF TypeOK, TypeTool, TypeTable, OneInside, Outside, ToolInside, CronInside, clockVars, table, saveVars, cronVars, toolVars, vars
  <1>26. CASE Drop
    <2>1. count' >= 0 /\ cpc = "drop" /\ cpc' = "scan"
      BY <1>26, DroppedIs
    <2> QED BY <1>26, <2>1
       DEF Drop, OneInside, Outside, ToolInside, CronInside, clockVars, toolVars
  <1>27. CASE AddOutside
    BY <1>27, ClockType, TimeAssumption
       DEF AddOutside, TypeOK, TypeTool, TypeTable, OneInside, Outside, ToolInside, CronInside, clockVars, table, saveVars, cronVars, toolVars, vars
  <1>28. ASSUME NEW t \in Thread, SaveBuildGaps(t) PROVE OneInside'
    BY <1>28, ClockType, TimeAssumption
       DEF SaveBuildGaps, TypeOK, TypeTool, TypeTable, OneInside, Outside, ToolInside, CronInside, clockVars, table, saveVars, cronVars, toolVars, vars
  <1> QED BY <1>1, <1>2, <1>3, <1>4, <1>5, <1>6, <1>7, <1>8, <1>9, <1>10, <1>11, <1>12, <1>13, <1>14, <1>15, <1>16, <1>17, <1>18, <1>19, <1>20, <1>21, <1>22, <1>23, <1>24, <1>25, <1>26, <1>27, <1>28, Cases

\* A reminder stays on record.
LEMMA MarkedStep ==
  ASSUME TypeOK, OneInside, MarkedIsFired, MarkIsOfPushedJob, ~raced, ~raced', [Next]_vars
  PROVE  MarkedIsFired'
  <1>1. CASE Tick
    BY <1>1
       DEF Tick, TypeOK, TypeCron, MarkedIsFired, Reminded, clockVars, table, saveVars, cronVars, toolVars, vars
  <1>2. CASE Sync
    BY <1>2
       DEF Sync, TypeOK, TypeCron, MarkedIsFired, Reminded, clockVars, table, saveVars, cronVars, toolVars, vars
  <1>3. CASE Restart
    BY <1>3
       DEF Restart, TypeOK, TypeCron, MarkedIsFired, Reminded, clockVars, table, saveVars, cronVars, toolVars, vars
  <1>4. CASE CronWake
    BY <1>4
       DEF CronWake, TypeOK, TypeCron, MarkedIsFired, Reminded, clockVars, table, saveVars, cronVars, toolVars, vars
  <1>5. CASE CronSkip
    BY <1>5
       DEF CronSkip, Looking, TypeOK, TypeCron, MarkedIsFired, Reminded, clockVars, table, saveVars, cronVars, toolVars, vars
  <1>6. CASE CronNotice
    BY <1>6
       DEF CronNotice, Looking, TypeOK, TypeCron, MarkedIsFired, Reminded, clockVars, table, saveVars, cronVars, toolVars, vars
  <1>7. CASE CronRemind
    BY <1>7
       DEF CronRemind, Looking, TypeOK, TypeCron, MarkedIsFired, Reminded, clockVars, table, saveVars, cronVars, toolVars, vars
  <1>8. CASE MarkOverdue
    BY <1>8
       DEF MarkOverdue, Marked, TypeOK, TypeCron, MarkedIsFired, Reminded, clockVars, table, saveVars, cronVars, toolVars, vars
  <1>9. CASE MarkDeleted
    BY <1>9
       DEF MarkDeleted, Reminded, Marked, TypeOK, TypeCron, MarkedIsFired, clockVars, table, saveVars, cronVars, toolVars, vars
  <1>10. CASE MarkDisabled
    BY <1>10
       DEF MarkDisabled, Reminded, Marked, TypeOK, TypeCron, MarkedIsFired, clockVars, table, saveVars, cronVars, toolVars, vars
  <1>11. CASE MarkAgain
    BY <1>11
       DEF MarkAgain, Reminded, Marked, TypeOK, TypeCron, MarkedIsFired, clockVars, table, saveVars, cronVars, toolVars, vars
  <1>12. CASE CronEnd
    BY <1>12
       DEF CronEnd, TypeOK, TypeCron, MarkedIsFired, Reminded, clockVars, table, saveVars, cronVars, toolVars, vars
  <1>13. ASSUME NEW t \in Thread, SaveBuild(t) PROVE MarkedIsFired'
    BY <1>13
       DEF SaveBuild, TypeOK, TypeCron, MarkedIsFired, Reminded, clockVars, table, saveVars, cronVars, toolVars, vars
  <1>14. ASSUME NEW t \in Thread, SaveOpen(t) PROVE MarkedIsFired'
    BY <1>14
       DEF SaveOpen, TypeOK, TypeCron, MarkedIsFired, Reminded, clockVars, table, saveVars, cronVars, toolVars, vars
  <1>15. ASSUME NEW t \in Thread, SaveOpenFails(t) PROVE MarkedIsFired'
    BY <1>15
       DEF SaveOpenFails, AfterSave, TypeOK, TypeCron, MarkedIsFired, Reminded, clockVars, table, saveVars, cronVars, toolVars, vars
  <1>16. ASSUME NEW t \in Thread, SaveWrite(t) PROVE MarkedIsFired'
    BY <1>16
       DEF SaveWrite, AfterSave, TypeOK, TypeCron, MarkedIsFired, Reminded, clockVars, table, saveVars, cronVars, toolVars, vars
  <1>17. ASSUME NEW t \in Thread, SaveWriteFails(t) PROVE MarkedIsFired'
    BY <1>17
       DEF SaveWriteFails, AfterSave, TypeOK, TypeCron, MarkedIsFired, Reminded, clockVars, table, saveVars, cronVars, toolVars, vars
  <1>18. ASSUME NEW j \in Jobs, ToolCheck(j) PROVE MarkedIsFired'
    BY <1>18
       DEF ToolCheck, TypeOK, TypeCron, MarkedIsFired, Reminded, clockVars, table, saveVars, cronVars, toolVars, vars
  <1>19. ASSUME NEW j \in Jobs, RemoveShift(j) PROVE MarkedIsFired'
    BY <1>19
       DEF RemoveShift, TypeOK, TypeCron, MarkedIsFired, Reminded, clockVars, table, saveVars, cronVars, toolVars, vars
  <1>20. CASE AddFull
    BY <1>20
       DEF AddFull, TypeOK, TypeCron, MarkedIsFired, Reminded, clockVars, table, saveVars, cronVars, toolVars, vars
  <1>21. CASE AddSlot
    BY <1>21
       DEF AddSlot, TypeOK, TypeCron, MarkedIsFired, Reminded, clockVars, table, saveVars, cronVars, toolVars, vars
  <1>22. CASE AddCount
    BY <1>22
       DEF AddCount, TypeOK, TypeCron, MarkedIsFired, Reminded, clockVars, table, saveVars, cronVars, toolVars, vars
  <1>23. CASE ToolVerify
    BY <1>23
       DEF ToolVerify, TypeOK, TypeCron, MarkedIsFired, Reminded, clockVars, table, saveVars, cronVars, toolVars, vars
  <1>24. CASE RemoveCount
    BY <1>24
       DEF RemoveCount, TypeOK, TypeCron, MarkedIsFired, Reminded, clockVars, table, saveVars, cronVars, toolVars, vars
  <1>25. CASE UNCHANGED vars
    BY <1>25 DEF TypeOK, TypeCron, MarkedIsFired, Reminded, clockVars, table, saveVars, cronVars, toolVars, vars
  <1>26. CASE Drop
    BY <1>26
       DEF Drop, Marked, Reminded, TypeOK, TypeCron, MarkedIsFired, clockVars, table, saveVars, cronVars, toolVars, vars
  <1>27. CASE AddOutside
    BY <1>27
       DEF AddOutside, TypeOK, TypeCron, MarkedIsFired, Reminded, clockVars, table, saveVars, cronVars, toolVars, vars
  <1>28. ASSUME NEW t \in Thread, SaveBuildGaps(t) PROVE MarkedIsFired'
    BY <1>28
       DEF SaveBuildGaps, TypeOK, TypeCron, MarkedIsFired, Reminded, clockVars, table, saveVars, cronVars, toolVars, vars
  <1> QED BY <1>1, <1>2, <1>3, <1>4, <1>5, <1>6, <1>7, <1>8, <1>9, <1>10, <1>11, <1>12, <1>13, <1>14, <1>15, <1>16, <1>17, <1>18, <1>19, <1>20, <1>21, <1>22, <1>23, <1>24, <1>25, <1>26, <1>27, <1>28, Cases

\* A start finds in the table what the file held, or nothing.
LEMMA LoadedIs ==
  ASSUME TypeOK, AllTimed, Restart
  PROVE  /\ count' \in 0 .. MaxJobs
         /\ \A i \in 1 .. count' :
               i \in 1 .. MaxJobs /\ i \in 1 .. Len(file) /\ slots'[i] = file[i]
         /\ ~broken' => count' = Len(file) /\ Table' = file
  <1>1. PICK jobs \in {file, <<>>}, t \in Nat :
            /\ slots' = [i \in 1 .. MaxJobs |->
                             IF i =< Len(jobs) THEN Started(jobs[i], t) ELSE NoRec]
            /\ count' = Len(jobs) /\ Len(jobs) \in 0 .. MaxJobs
            /\ \A i \in 1 .. Len(jobs) : jobs[i] \in Rec /\ jobs[i] = file[i] /\ i \in 1 .. Len(file)
            /\ ~broken' => jobs = file
    BY LoadIs
  <1>2. \A i \in 1 .. Len(jobs) :
           i \in 1 .. MaxJobs /\ jobs[i] \in Rec /\ Timed(jobs[i])
    BY <1>1, MaxJobsAssumption DEF AllTimed
  <1>3. \A i \in 1 .. Len(jobs) : slots'[i] = jobs[i]
    <2> TAKE i \in 1 .. Len(jobs)
    <2>1. slots'[i] = Started(jobs[i], t)
      BY <1>1, <1>2
    <2>2. Started(jobs[i], t) = jobs[i]
      BY <1>1, <1>2, StartedRec
    <2> QED BY <2>1, <2>2
  <1>4. ~broken' => count' = Len(file) /\ Table' = file
    <2> SUFFICES ASSUME ~broken' PROVE count' = Len(file) /\ Table' = file
      OBVIOUS
    <2>1. jobs = file
      BY <1>1
    <2>2. Table' = [i \in 1 .. Len(file) |-> file[i]]
      BY <1>1, <1>3, <2>1 DEF Table
    <2>3. file \in Seq(Rec)
      BY DEF TypeOK, TypeSave
    <2>4. file = [i \in 1 .. Len(file) |-> file[i]]
      BY <2>3
    <2> QED BY <1>1, <2>1, <2>2, <2>4
  <1> QED BY <1>1, <1>2, <1>3, <1>4

\* Nothing else changes the table.
LEMMA TableSame ==
  ASSUME UNCHANGED table
  PROVE  /\ Table' = Table /\ Ids' = Ids
         /\ Live' = Live => \A j \in Jobs : Armed(j)' <=> Armed(j)
  <1>1. slots' = slots /\ count' = count
    BY DEF table
  <1> QED BY <1>1 DEF Table, Ids, Armed

\* All counted entries are live, but while one is being counted out.
LEMMA LiveIs ==
  ASSUME TypeOK
  PROVE  /\ tpc # "uncount" /\ cpc # "drop" => Live = count
         /\ OneInside /\ CronInside => tpc \in {"idle", "check", "verify"}
         /\ tpc = "uncount" \/ cpc = "drop" => Live = count - 1
  BY DEF Live, OneInside, Outside, ToolInside, CronInside, TypeOK, TypeTool

\* What is being saved stays the table.
LEMMA SaveIsTableStep ==
  ASSUME TypeOK, OneInside, SaveIsTable, SavedWhenQuiet, ~raced, ~raced', [Next]_vars
  PROVE  SaveIsTable'
  <1>1. CASE Tick
    BY <1>1, TableSame
       DEF Tick, TypeOK, TypeSave, TypeTool, TypeCron, OneInside, SaveIsTable, ToolInside, CronInside, Thread, clockVars, table, saveVars, cronVars, toolVars, vars
  <1>2. CASE Sync
    BY <1>2, TableSame
       DEF Sync, TypeOK, TypeSave, TypeTool, TypeCron, OneInside, SaveIsTable, ToolInside, CronInside, Thread, clockVars, table, saveVars, cronVars, toolVars, vars
  <1>3. CASE Restart
    BY <1>3, TableSame
       DEF Restart, TypeOK, TypeSave, TypeTool, TypeCron, OneInside, SaveIsTable, ToolInside, CronInside, Thread, clockVars, table, saveVars, cronVars, toolVars, vars
  <1>4. CASE CronWake
    BY <1>4, TableSame
       DEF CronWake, TypeOK, TypeSave, TypeTool, TypeCron, OneInside, SaveIsTable, ToolInside, CronInside, Thread, SavedWhenQuiet, clockVars, table, saveVars, cronVars, toolVars, vars
  <1>5. CASE CronSkip
    BY <1>5, TableSame
       DEF CronSkip, Looking, TypeOK, TypeSave, TypeTool, TypeCron, OneInside, SaveIsTable, ToolInside, CronInside, Thread, clockVars, table, saveVars, cronVars, toolVars, vars
  <1>6. CASE CronNotice
    BY <1>6, TableSame
       DEF CronNotice, Looking, TypeOK, TypeSave, TypeTool, TypeCron, OneInside, SaveIsTable, ToolInside, CronInside, Thread, clockVars, table, saveVars, cronVars, toolVars, vars
  <1>7. CASE CronRemind
    BY <1>7, TableSame
       DEF CronRemind, Looking, TypeOK, TypeSave, TypeTool, TypeCron, OneInside, SaveIsTable, ToolInside, CronInside, Thread, clockVars, table, saveVars, cronVars, toolVars, vars
  <1>8. CASE MarkOverdue
    BY <1>8, TableSame
       DEF MarkOverdue, Marked, TypeOK, TypeSave, TypeTool, TypeCron, OneInside, SaveIsTable, ToolInside, CronInside, Thread, clockVars, table, saveVars, cronVars, toolVars, vars
  <1>9. CASE MarkDeleted
    BY <1>9, TableSame
       DEF MarkDeleted, Reminded, Marked, TypeOK, TypeSave, TypeTool, TypeCron, OneInside, SaveIsTable, ToolInside, CronInside, Thread, clockVars, table, saveVars, cronVars, toolVars, vars
  <1>10. CASE MarkDisabled
    BY <1>10, TableSame
       DEF MarkDisabled, Reminded, Marked, TypeOK, TypeSave, TypeTool, TypeCron, OneInside, SaveIsTable, ToolInside, CronInside, Thread, clockVars, table, saveVars, cronVars, toolVars, vars
  <1>11. CASE MarkAgain
    BY <1>11, TableSame
       DEF MarkAgain, Reminded, Marked, TypeOK, TypeSave, TypeTool, TypeCron, OneInside, SaveIsTable, ToolInside, CronInside, Thread, clockVars, table, saveVars, cronVars, toolVars, vars
  <1>12. CASE CronEnd
    BY <1>12, TableSame
       DEF CronEnd, TypeOK, TypeSave, TypeTool, TypeCron, OneInside, SaveIsTable, ToolInside, CronInside, Thread, clockVars, table, saveVars, cronVars, toolVars, vars
  <1>13. ASSUME NEW t \in Thread, SaveBuild(t) PROVE SaveIsTable'
    BY <1>13, TableSame
       DEF SaveBuild, TypeOK, TypeSave, TypeTool, TypeCron, OneInside, SaveIsTable, ToolInside, CronInside, Thread, clockVars, table, saveVars, cronVars, toolVars, vars
  <1>14. ASSUME NEW t \in Thread, SaveOpen(t) PROVE SaveIsTable'
    BY <1>14, TableSame
       DEF SaveOpen, TypeOK, TypeSave, TypeTool, TypeCron, OneInside, SaveIsTable, ToolInside, CronInside, Thread, clockVars, table, saveVars, cronVars, toolVars, vars
  <1>15. ASSUME NEW t \in Thread, SaveOpenFails(t) PROVE SaveIsTable'
    BY <1>15, TableSame
       DEF SaveOpenFails, AfterSave, TypeOK, TypeSave, TypeTool, TypeCron, OneInside, SaveIsTable, ToolInside, CronInside, Thread, clockVars, table, saveVars, cronVars, toolVars, vars
  <1>16. ASSUME NEW t \in Thread, SaveWrite(t) PROVE SaveIsTable'
    BY <1>16, TableSame
       DEF SaveWrite, AfterSave, TypeOK, TypeSave, TypeTool, TypeCron, OneInside, SaveIsTable, ToolInside, CronInside, Thread, clockVars, table, saveVars, cronVars, toolVars, vars
  <1>17. ASSUME NEW t \in Thread, SaveWriteFails(t) PROVE SaveIsTable'
    BY <1>17, TableSame
       DEF SaveWriteFails, AfterSave, TypeOK, TypeSave, TypeTool, TypeCron, OneInside, SaveIsTable, ToolInside, CronInside, Thread, clockVars, table, saveVars, cronVars, toolVars, vars
  <1>18. ASSUME NEW j \in Jobs, ToolCheck(j) PROVE SaveIsTable'
    BY <1>18, TableSame
       DEF ToolCheck, TypeOK, TypeSave, TypeTool, TypeCron, OneInside, SaveIsTable, ToolInside, CronInside, Thread, clockVars, table, saveVars, cronVars, toolVars, vars
  <1>19. ASSUME NEW j \in Jobs, RemoveShift(j) PROVE SaveIsTable'
    BY <1>19, TableSame
       DEF RemoveShift, TypeOK, TypeSave, TypeTool, TypeCron, OneInside, SaveIsTable, ToolInside, CronInside, Thread, clockVars, table, saveVars, cronVars, toolVars, vars
  <1>20. CASE AddFull
    BY <1>20, TableSame
       DEF AddFull, TypeOK, TypeSave, TypeTool, TypeCron, OneInside, SaveIsTable, ToolInside, CronInside, Thread, clockVars, table, saveVars, cronVars, toolVars, vars
  <1>21. CASE AddSlot
    BY <1>21, TableSame
       DEF AddSlot, TypeOK, TypeSave, TypeTool, TypeCron, OneInside, SaveIsTable, ToolInside, CronInside, Thread, clockVars, table, saveVars, cronVars, toolVars, vars
  <1>22. CASE AddCount
    BY <1>22, TableSame
       DEF AddCount, TypeOK, TypeSave, TypeTool, TypeCron, OneInside, SaveIsTable, ToolInside, CronInside, Thread, clockVars, table, saveVars, cronVars, toolVars, vars
  <1>23. CASE ToolVerify
    BY <1>23, TableSame
       DEF ToolVerify, TypeOK, TypeSave, TypeTool, TypeCron, OneInside, SaveIsTable, ToolInside, CronInside, Thread, clockVars, table, saveVars, cronVars, toolVars, vars
  <1>24. CASE RemoveCount
    BY <1>24, TableSame
       DEF RemoveCount, TypeOK, TypeSave, TypeTool, TypeCron, OneInside, SaveIsTable, ToolInside, CronInside, Thread, clockVars, table, saveVars, cronVars, toolVars, vars
  <1>25. CASE UNCHANGED vars
    BY <1>25, TableSame DEF TypeOK, TypeSave, TypeTool, TypeCron, OneInside, SaveIsTable, ToolInside, CronInside, Thread, clockVars, table, saveVars, cronVars, toolVars, vars
  <1>26. CASE Drop
    BY <1>26, TableSame
       DEF Drop, Marked, TypeOK, TypeSave, TypeTool, TypeCron, OneInside, SaveIsTable, ToolInside, CronInside, Thread, clockVars, table, saveVars, cronVars, toolVars, vars
  <1>27. CASE AddOutside
    BY <1>27, TableSame
       DEF AddOutside, TypeOK, TypeSave, TypeTool, TypeCron, OneInside, SaveIsTable, ToolInside, CronInside, Thread, clockVars, table, saveVars, cronVars, toolVars, vars
  <1>28. ASSUME NEW t \in Thread, SaveBuildGaps(t) PROVE SaveIsTable'
    BY <1>28, TableSame
       DEF SaveBuildGaps, TypeOK, TypeSave, TypeTool, TypeCron, OneInside, SaveIsTable, ToolInside, CronInside, Thread, clockVars, table, saveVars, cronVars, toolVars, vars
  <1> QED BY <1>1, <1>2, <1>3, <1>4, <1>5, <1>6, <1>7, <1>8, <1>9, <1>10, <1>11, <1>12, <1>13, <1>14, <1>15, <1>16, <1>17, <1>18, <1>19, <1>20, <1>21, <1>22, <1>23, <1>24, <1>25, <1>26, <1>27, <1>28, Cases

\* Between two calls the file is the table.
LEMMA SavedWhenQuietStep ==
  ASSUME TypeOK, OneInside, SaveIsTable, SavedWhenQuiet, ~raced, ~raced', AllTimed, [Next]_vars
  PROVE  SavedWhenQuiet'
  <1>1. CASE Tick
    BY <1>1, TableSame
       DEF Tick, TypeOK, TypeSave, TypeTool, TypeCron, OneInside, SaveIsTable, ToolInside, CronInside, Thread, SavedWhenQuiet, clockVars, table, saveVars, cronVars, toolVars, vars
  <1>2. CASE Sync
    BY <1>2, TableSame
       DEF Sync, TypeOK, TypeSave, TypeTool, TypeCron, OneInside, SaveIsTable, ToolInside, CronInside, Thread, SavedWhenQuiet, clockVars, table, saveVars, cronVars, toolVars, vars
  <1>3. CASE Restart
    <2>1. file' = file /\ (~broken' => Table' = file)
      BY <1>3, LoadedIs DEF Restart
    <2> QED BY <2>1 DEF SavedWhenQuiet
  <1>4. CASE CronWake
    BY <1>4, TableSame
       DEF CronWake, TypeOK, TypeSave, TypeTool, TypeCron, OneInside, SaveIsTable, ToolInside, CronInside, Thread, SavedWhenQuiet, clockVars, table, saveVars, cronVars, toolVars, vars
  <1>5. CASE CronSkip
    BY <1>5, TableSame
       DEF CronSkip, Looking, TypeOK, TypeSave, TypeTool, TypeCron, OneInside, SaveIsTable, ToolInside, CronInside, Thread, SavedWhenQuiet, clockVars, table, saveVars, cronVars, toolVars, vars
  <1>6. CASE CronNotice
    BY <1>6, TableSame
       DEF CronNotice, Looking, TypeOK, TypeSave, TypeTool, TypeCron, OneInside, SaveIsTable, ToolInside, CronInside, Thread, SavedWhenQuiet, clockVars, table, saveVars, cronVars, toolVars, vars
  <1>7. CASE CronRemind
    BY <1>7, TableSame
       DEF CronRemind, Looking, TypeOK, TypeSave, TypeTool, TypeCron, OneInside, SaveIsTable, ToolInside, CronInside, Thread, SavedWhenQuiet, clockVars, table, saveVars, cronVars, toolVars, vars
  <1>8. CASE MarkOverdue
    BY <1>8, TableSame
       DEF MarkOverdue, Marked, TypeOK, TypeSave, TypeTool, TypeCron, OneInside, SaveIsTable, ToolInside, CronInside, Thread, SavedWhenQuiet, clockVars, table, saveVars, cronVars, toolVars, vars
  <1>9. CASE MarkDeleted
    BY <1>9, TableSame
       DEF MarkDeleted, Reminded, Marked, TypeOK, TypeSave, TypeTool, TypeCron, OneInside, SaveIsTable, ToolInside, CronInside, Thread, SavedWhenQuiet, clockVars, table, saveVars, cronVars, toolVars, vars
  <1>10. CASE MarkDisabled
    BY <1>10, TableSame
       DEF MarkDisabled, Reminded, Marked, TypeOK, TypeSave, TypeTool, TypeCron, OneInside, SaveIsTable, ToolInside, CronInside, Thread, SavedWhenQuiet, clockVars, table, saveVars, cronVars, toolVars, vars
  <1>11. CASE MarkAgain
    BY <1>11, TableSame
       DEF MarkAgain, Reminded, Marked, TypeOK, TypeSave, TypeTool, TypeCron, OneInside, SaveIsTable, ToolInside, CronInside, Thread, SavedWhenQuiet, clockVars, table, saveVars, cronVars, toolVars, vars
  <1>12. CASE CronEnd
    BY <1>12, TableSame
       DEF CronEnd, TypeOK, TypeSave, TypeTool, TypeCron, OneInside, SaveIsTable, ToolInside, CronInside, Thread, SavedWhenQuiet, clockVars, table, saveVars, cronVars, toolVars, vars
  <1>13. ASSUME NEW t \in Thread, SaveBuild(t) PROVE SavedWhenQuiet'
    BY <1>13, TableSame
       DEF SaveBuild, TypeOK, TypeSave, TypeTool, TypeCron, OneInside, SaveIsTable, ToolInside, CronInside, Thread, SavedWhenQuiet, clockVars, table, saveVars, cronVars, toolVars, vars
  <1>14. ASSUME NEW t \in Thread, SaveOpen(t) PROVE SavedWhenQuiet'
    BY <1>14, TableSame
       DEF SaveOpen, TypeOK, TypeSave, TypeTool, TypeCron, OneInside, SaveIsTable, ToolInside, CronInside, Thread, SavedWhenQuiet, clockVars, table, saveVars, cronVars, toolVars, vars
  <1>15. ASSUME NEW t \in Thread, SaveOpenFails(t) PROVE SavedWhenQuiet'
    BY <1>15, TableSame
       DEF SaveOpenFails, AfterSave, TypeOK, TypeSave, TypeTool, TypeCron, OneInside, SaveIsTable, ToolInside, CronInside, Thread, SavedWhenQuiet, clockVars, table, saveVars, cronVars, toolVars, vars
  <1>16. ASSUME NEW t \in Thread, SaveWrite(t) PROVE SavedWhenQuiet'
    BY <1>16, TableSame
       DEF SaveWrite, AfterSave, TypeOK, TypeSave, TypeTool, TypeCron, OneInside, SaveIsTable, ToolInside, CronInside, Thread, SavedWhenQuiet, clockVars, table, saveVars, cronVars, toolVars, vars
  <1>17. ASSUME NEW t \in Thread, SaveWriteFails(t) PROVE SavedWhenQuiet'
    BY <1>17, TableSame
       DEF SaveWriteFails, AfterSave, TypeOK, TypeSave, TypeTool, TypeCron, OneInside, SaveIsTable, ToolInside, CronInside, Thread, SavedWhenQuiet, clockVars, table, saveVars, cronVars, toolVars, vars
  <1>18. ASSUME NEW j \in Jobs, ToolCheck(j) PROVE SavedWhenQuiet'
    BY <1>18, TableSame
       DEF ToolCheck, TypeOK, TypeSave, TypeTool, TypeCron, OneInside, SaveIsTable, ToolInside, CronInside, Thread, SavedWhenQuiet, clockVars, table, saveVars, cronVars, toolVars, vars
  <1>19. ASSUME NEW j \in Jobs, RemoveShift(j) PROVE SavedWhenQuiet'
    BY <1>19, TableSame
       DEF RemoveShift, TypeOK, TypeSave, TypeTool, TypeCron, OneInside, SaveIsTable, ToolInside, CronInside, Thread, SavedWhenQuiet, clockVars, table, saveVars, cronVars, toolVars, vars
  <1>20. CASE AddFull
    BY <1>20, TableSame
       DEF AddFull, TypeOK, TypeSave, TypeTool, TypeCron, OneInside, SaveIsTable, ToolInside, CronInside, Thread, SavedWhenQuiet, clockVars, table, saveVars, cronVars, toolVars, vars
  <1>21. CASE AddSlot
    BY <1>21, TableSame
       DEF AddSlot, TypeOK, TypeSave, TypeTool, TypeCron, OneInside, SaveIsTable, ToolInside, CronInside, Thread, SavedWhenQuiet, clockVars, table, saveVars, cronVars, toolVars, vars
  <1>22. CASE AddCount
    BY <1>22, TableSame
       DEF AddCount, TypeOK, TypeSave, TypeTool, TypeCron, OneInside, SaveIsTable, ToolInside, CronInside, Thread, SavedWhenQuiet, clockVars, table, saveVars, cronVars, toolVars, vars
  <1>23. CASE ToolVerify
    BY <1>23, TableSame
       DEF ToolVerify, TypeOK, TypeSave, TypeTool, TypeCron, OneInside, SaveIsTable, ToolInside, CronInside, Thread, SavedWhenQuiet, clockVars, table, saveVars, cronVars, toolVars, vars
  <1>24. CASE RemoveCount
    BY <1>24, TableSame
       DEF RemoveCount, TypeOK, TypeSave, TypeTool, TypeCron, OneInside, SaveIsTable, ToolInside, CronInside, Thread, SavedWhenQuiet, clockVars, table, saveVars, cronVars, toolVars, vars
  <1>25. CASE UNCHANGED vars
    BY <1>25, TableSame DEF TypeOK, TypeSave, TypeTool, TypeCron, OneInside, SaveIsTable, ToolInside, CronInside, Thread, SavedWhenQuiet, clockVars, table, saveVars, cronVars, toolVars, vars
  <1>26. CASE Drop
    BY <1>26, TableSame
       DEF Drop, Marked, TypeOK, TypeSave, TypeTool, TypeCron, OneInside, SaveIsTable, ToolInside, CronInside, Thread, SavedWhenQuiet, clockVars, table, saveVars, cronVars, toolVars, vars
  <1>27. CASE AddOutside
    BY <1>27, TableSame
       DEF AddOutside, TypeOK, TypeSave, TypeTool, TypeCron, OneInside, SaveIsTable, ToolInside, CronInside, Thread, SavedWhenQuiet, clockVars, table, saveVars, cronVars, toolVars, vars
  <1>28. ASSUME NEW t \in Thread, SaveBuildGaps(t) PROVE SavedWhenQuiet'
    BY <1>28, TableSame
       DEF SaveBuildGaps, TypeOK, TypeSave, TypeTool, TypeCron, OneInside, SaveIsTable, ToolInside, CronInside, Thread, SavedWhenQuiet, clockVars, table, saveVars, cronVars, toolVars, vars
  <1> QED BY <1>1, <1>2, <1>3, <1>4, <1>5, <1>6, <1>7, <1>8, <1>9, <1>10, <1>11, <1>12, <1>13, <1>14, <1>15, <1>16, <1>17, <1>18, <1>19, <1>20, <1>21, <1>22, <1>23, <1>24, <1>25, <1>26, <1>27, <1>28, Cases

\* Ids stay unique, and new jobs new.
LEMMA IdsUniqueStep ==
  ASSUME TypeOK, AllTimed, OneInside, IdsUnique, SavedIds, MarkIsOfPushedJob, ~raced, ~raced', [Next]_vars
  PROVE  IdsUnique'
  <1>1. CASE Tick
    <2>1. UNCHANGED <<slots, count, file, known, fired, tpc, tid>>
      BY <1>1 DEF Tick, clockVars, table, saveVars, cronVars, toolVars
    <2> QED BY <2>1 DEF IdsUnique, Ids
  <1>2. CASE Sync
    <2>1. UNCHANGED <<slots, count, file, known, fired, tpc, tid>>
      BY <1>2 DEF Sync, clockVars, table, saveVars, cronVars, toolVars
    <2> QED BY <2>1 DEF IdsUnique, Ids
  <1>3. CASE Restart
    <2>1. \A i \in 1 .. count' : i \in 1 .. Len(file) /\ slots'[i] = file[i]
      BY <1>3, LoadedIs
    <2>2. UNCHANGED <<file, known>> /\ fired' \subseteq fired /\ tpc' = "idle"
      BY <1>3 DEF Restart
    <2> QED BY <2>1, <2>2 DEF IdsUnique
  <1>4. CASE CronWake
    <2>1. UNCHANGED <<slots, count, file, known, fired, tpc, tid>>
      BY <1>4 DEF CronWake, clockVars, table, saveVars, cronVars, toolVars
    <2> QED BY <2>1 DEF IdsUnique, Ids
  <1>5. CASE CronSkip
    <2>1. UNCHANGED <<slots, count, file, known, fired, tpc, tid>>
      BY <1>5 DEF CronSkip, clockVars, table, saveVars, cronVars, toolVars
    <2> QED BY <2>1 DEF IdsUnique, Ids
  <1>6. CASE CronNotice
    <2>1. UNCHANGED <<slots, count, file, known, fired, tpc, tid>>
      BY <1>6 DEF CronNotice, clockVars, table, saveVars, cronVars, toolVars
    <2> QED BY <2>1 DEF IdsUnique, Ids
  <1>7. CASE CronRemind
    <2>1. ci \in 1 .. count
      BY <1>7, MaxJobsAssumption DEF CronRemind, Looking, TypeOK, TypeCron, TypeTable
    <2>2. UNCHANGED <<slots, count, file, known, tpc, tid>> /\ fired' \subseteq fired \cup {slots[ci].id}
      BY <1>7 DEF CronRemind, clockVars, table, saveVars, toolVars
    <2>3. slots[ci].id \in known /\ slots[ci].id \in Ids
      BY <2>1 DEF IdsUnique, Ids
    <2>4. Ids' = Ids
      BY <2>2 DEF Ids
    <2> QED BY <2>2, <2>3, <2>4 DEF IdsUnique
  <1>8. CASE MarkOverdue
    <2>1. /\ ci \in 1 .. MaxJobs /\ count' = count
          /\ \A k \in 1 .. MaxJobs : slots'[k].id = slots[k].id
      BY <1>8, MarkedIs
    <2>2. \A k \in 1 .. count : k \in 1 .. MaxJobs
      BY MaxJobsAssumption DEF TypeOK, TypeTable
    <2>3. tpc # "count" /\ UNCHANGED <<file, known, fired, tpc, tid>>
      BY <1>8 DEF MarkOverdue, Reminded, Marked, OneInside, ToolInside, CronInside, saveVars, toolVars
    <2>4. Ids' = Ids
      BY <2>1, <2>2 DEF Ids
    <2> QED BY <2>1, <2>2, <2>3, <2>4 DEF IdsUnique
  <1>9. CASE MarkDeleted
    <2>1. \A k \in 1 .. count' : \E m \in 1 .. count : slots'[k].id = slots[m].id
      <3>1. count' = count /\ count \in 1 .. MaxJobs /\ slots'[count].id = slots[count].id
        BY <1>9, DeletedIs
      <3>2. \A k \in 1 .. count - 1 : \E m \in 1 .. count : slots'[k].id = slots[m].id
        BY <1>9, DeletedIs
      <3>3. \A k \in 1 .. count : k \in 1 .. count - 1 \/ k = count
        BY <3>1, MaxJobsAssumption
      <3> QED BY <3>1, <3>2, <3>3
    <2>2. tpc # "count" /\ UNCHANGED <<file, known, fired, tpc, tid>>
      BY <1>9 DEF MarkDeleted, Reminded, OneInside, ToolInside, CronInside, saveVars, toolVars
    <2>3. Ids' \subseteq Ids
      BY <2>1 DEF Ids
    <2> QED BY <2>1, <2>2, <2>3 DEF IdsUnique
  <1>10. CASE MarkDisabled
    <2>1. /\ ci \in 1 .. MaxJobs /\ count' = count
          /\ \A k \in 1 .. MaxJobs : slots'[k].id = slots[k].id
      BY <1>10, MarkedIs
    <2>2. \A k \in 1 .. count : k \in 1 .. MaxJobs
      BY MaxJobsAssumption DEF TypeOK, TypeTable
    <2>3. tpc # "count" /\ UNCHANGED <<file, known, fired, tpc, tid>>
      BY <1>10 DEF MarkDisabled, Reminded, Marked, OneInside, ToolInside, CronInside, saveVars, toolVars
    <2>4. Ids' = Ids
      BY <2>1, <2>2 DEF Ids
    <2> QED BY <2>1, <2>2, <2>3, <2>4 DEF IdsUnique
  <1>11. CASE MarkAgain
    <2>1. /\ ci \in 1 .. MaxJobs /\ count' = count
          /\ \A k \in 1 .. MaxJobs : slots'[k].id = slots[k].id
      BY <1>11, MarkedIs
    <2>2. \A k \in 1 .. count : k \in 1 .. MaxJobs
      BY MaxJobsAssumption DEF TypeOK, TypeTable
    <2>3. tpc # "count" /\ UNCHANGED <<file, known, fired, tpc, tid>>
      BY <1>11 DEF MarkAgain, Reminded, Marked, OneInside, ToolInside, CronInside, saveVars, toolVars
    <2>4. Ids' = Ids
      BY <2>1, <2>2 DEF Ids
    <2> QED BY <2>1, <2>2, <2>3, <2>4 DEF IdsUnique
  <1>12. CASE CronEnd
    <2>1. UNCHANGED <<slots, count, file, known, fired, tpc, tid>>
      BY <1>12 DEF CronEnd, clockVars, table, saveVars, cronVars, toolVars
    <2> QED BY <2>1 DEF IdsUnique, Ids
  <1>13. ASSUME NEW t \in Thread, SaveBuild(t) PROVE IdsUnique'
    <2>1. /\ UNCHANGED <<slots, count, known, fired>> /\ UNCHANGED file
          /\ tpc' \in {"check", "count"} => tpc' = tpc /\ tid' = tid
      BY <1>13 DEF SaveBuild, AfterSave, clockVars, table, saveVars, cronVars, toolVars
    <2> QED BY <2>1 DEF IdsUnique, Ids
  <1>14. ASSUME NEW t \in Thread, SaveOpen(t) PROVE IdsUnique'
    <2>1. /\ UNCHANGED <<slots, count, known, fired>> /\ file' = <<>>
          /\ tpc' \in {"check", "count"} => tpc' = tpc /\ tid' = tid
      BY <1>14 DEF SaveOpen, AfterSave, clockVars, table, saveVars, cronVars, toolVars
    <2> QED BY <2>1 DEF IdsUnique, Ids
  <1>15. ASSUME NEW t \in Thread, SaveOpenFails(t) PROVE IdsUnique'
    <2>1. /\ UNCHANGED <<slots, count, known, fired>> /\ UNCHANGED file
          /\ tpc' \in {"check", "count"} => tpc' = tpc /\ tid' = tid
      BY <1>15 DEF SaveOpenFails, AfterSave, clockVars, table, saveVars, cronVars, toolVars
    <2> QED BY <2>1 DEF IdsUnique, Ids
  <1>16. ASSUME NEW t \in Thread, SaveWrite(t) PROVE IdsUnique'
    <2>1. /\ UNCHANGED <<slots, count, known, fired>> /\ file' = snap[t]
          /\ tpc' \in {"check", "count"} => tpc' = tpc /\ tid' = tid
      BY <1>16 DEF SaveWrite, AfterSave, clockVars, table, saveVars, cronVars, toolVars
    <2> QED BY <2>1 DEF IdsUnique, SavedIds, Ids
  <1>17. ASSUME NEW t \in Thread, SaveWriteFails(t) PROVE IdsUnique'
    <2>1. /\ UNCHANGED <<slots, count, known, fired>> /\ file' = <<>>
          /\ tpc' \in {"check", "count"} => tpc' = tpc /\ tid' = tid
      BY <1>17 DEF SaveWriteFails, AfterSave, clockVars, table, saveVars, cronVars, toolVars
    <2> QED BY <2>1 DEF IdsUnique, Ids
  <1>18. ASSUME NEW j \in Jobs, ToolCheck(j) PROVE IdsUnique'
    <2>1. UNCHANGED <<slots, count, file, fired>> /\ tpc' = "check" /\ tid' = j
          /\ known' = known \cup {j} /\ j \notin known
      BY <1>18 DEF ToolCheck, table, saveVars
    <2>2. j \notin Ids
      BY <2>1 DEF IdsUnique, Ids
    <2> QED BY <2>1, <2>2 DEF IdsUnique, Ids
  <1>19. ASSUME NEW j \in Jobs, RemoveShift(j) PROVE IdsUnique'
    <2>1. count' = count /\ count \in 1 .. MaxJobs
      BY <1>19, RemovedIs
    <2>2. \A k \in 1 .. count : \E m \in 1 .. count : slots'[k] = slots[m]
      <3>1. \A k \in 1 .. count : k \in 1 .. count - 1 \/ k = count
        BY <2>1, MaxJobsAssumption
      <3>2. \A k \in 1 .. count - 1 : \E m \in 1 .. count : slots'[k] = slots[m]
        BY <1>19, RemovedIs
      <3>3. count \in 1 .. count /\ slots'[count] = slots[count]
        BY <1>19, <2>1, RemovedIs, MaxJobsAssumption
      <3> QED BY <3>1, <3>2, <3>3
    <2>3. tpc' = "uncount" /\ UNCHANGED <<file, known, fired, tid>>
      BY <1>19 DEF RemoveShift, saveVars
    <2> QED BY <2>1, <2>2, <2>3 DEF IdsUnique
  <1>20. CASE AddFull
    <2>1. UNCHANGED <<slots, count, file, known, fired>> /\ tpc' = "idle"
      BY <1>20 DEF AddFull, clockVars, table, saveVars, cronVars, toolVars
    <2> QED BY <2>1 DEF IdsUnique, Ids
  <1>21. CASE AddSlot
    <2>1. /\ count' = count /\ tid \in Jobs /\ tid' = tid /\ count >= 0 /\ count < MaxJobs
          /\ slots'[count + 1].id = tid
      <3>1. count >= 0
        BY DEF OneInside
      <3> QED BY <1>21, <3>1, AddedIs, AddedRec, ClockType DEF TypeOK
    <2>2. \A k \in 1 .. count : slots'[k] = slots[k]
      <3>1. \A k \in 1 .. count : k \in 1 .. MaxJobs /\ k # count + 1
        BY MaxJobsAssumption DEF TypeOK, TypeTable
      <3> QED BY <1>21, <3>1, AddedIs
    <2>3. tpc = "check" /\ tpc' = "count" /\ UNCHANGED <<file, known, fired>>
      BY <1>21 DEF AddSlot, saveVars
    <2>4. Ids' = Ids
      BY <2>1, <2>2 DEF Ids
    <2> QED BY <2>1, <2>2, <2>3, <2>4 DEF IdsUnique
  <1>22. CASE AddCount
    <2>1. /\ count' = count + 1 /\ tpc' = "added" /\ tpc = "count"
          /\ UNCHANGED <<slots, file, known, fired>>
      BY <1>22 DEF AddCount
    <2>2. \A k \in 1 .. count + 1 : k \in 1 .. count \/ k = count + 1
      BY DEF OneInside, TypeOK, TypeTable
    <2> QED BY <2>1, <2>2 DEF IdsUnique
  <1>23. CASE ToolVerify
    <2>1. UNCHANGED <<slots, count, file, known, fired>> /\ tpc' = "idle"
      BY <1>23 DEF ToolVerify, clockVars, table, saveVars, cronVars, toolVars
    <2> QED BY <2>1 DEF IdsUnique, Ids
  <1>24. CASE RemoveCount
    <2>1. /\ count' = count - 1 /\ tpc' = "deleted"
          /\ UNCHANGED <<slots, file, known, fired>>
      BY <1>24 DEF RemoveCount
    <2>2. \A k \in 1 .. count - 1 : k \in 1 .. count
      BY DEF OneInside, TypeOK, TypeTable
    <2> QED BY <2>1, <2>2 DEF IdsUnique
  <1>25. CASE UNCHANGED vars
    BY <1>25 DEF IdsUnique, Ids, clockVars, table, saveVars, cronVars, toolVars, vars
  <1>26. CASE Drop
    <2>1. \A k \in 1 .. count' : k \in 1 .. count /\ slots'[k] = slots[k]
      BY <1>26, DroppedIs
    <2>2. tpc # "count" /\ UNCHANGED <<file, known, fired, tpc, tid>>
      BY <1>26 DEF Drop, Marked, OneInside, ToolInside, CronInside, saveVars, toolVars
    <2>3. Ids' \subseteq Ids
      BY <2>1 DEF Ids
    <2> QED BY <2>1, <2>2, <2>3 DEF IdsUnique
  <1>27. CASE AddOutside
    BY <1>27 DEF AddOutside, OneInside, TypeOK, TypeTable
  <1>28. ASSUME NEW t \in Thread, SaveBuildGaps(t) PROVE IdsUnique'
    <2>1. /\ UNCHANGED <<slots, count, known, fired>> /\ UNCHANGED file
          /\ tpc' \in {"check", "count"} => tpc' = tpc /\ tid' = tid
      BY <1>28 DEF SaveBuildGaps, AfterSave, clockVars, table, saveVars, cronVars, toolVars
    <2> QED BY <2>1 DEF IdsUnique, Ids
  <1> QED BY <1>1, <1>2, <1>3, <1>4, <1>5, <1>6, <1>7, <1>8, <1>9, <1>10, <1>11, <1>12, <1>13, <1>14, <1>15, <1>16, <1>17, <1>18, <1>19, <1>20, <1>21, <1>22, <1>23, <1>24, <1>25, <1>26, <1>27, <1>28, Cases

\* Ids stay unique in what is being saved.
LEMMA SavedIdsStep ==
  ASSUME TypeOK, OneInside, IdsUnique, SavedIds, MarkIsOfPushedJob, ~raced, ~raced', [Next]_vars
  PROVE  SavedIds'
  <1>1. known \subseteq known'
    BY Cases
       DEF Tick, Sync, Restart, CronWake, CronSkip, CronNotice, CronRemind, MarkOverdue,
           MarkDeleted, Drop, MarkDisabled, MarkAgain, CronEnd, SaveBuild, SaveBuildGaps,
           SaveOpen, SaveOpenFails, SaveWrite, SaveWriteFails, AfterSave, ToolCheck,
           RemoveShift, AddFull, AddSlot, AddOutside, AddCount, ToolVerify, RemoveCount,
           vars, toolVars
  <1>2. CASE UNCHANGED snap
    BY <1>1, <1>2 DEF SavedIds
  <1>3. CASE Restart
    <2>1. \A t \in Thread : Len(snap'[t]) = 0
      BY <1>3 DEF Restart
    <2> QED BY <2>1 DEF SavedIds
  <1>4. ASSUME NEW t \in Thread, stage[t] = "build" PROVE Live = count
    BY <1>4, LiveIs DEF TypeOK, TypeCron, TypeTool, Thread, OneInside, CronInside
  <1>5. ASSUME NEW t \in Thread, SaveBuild(t) PROVE SavedIds'
    <2>1. snap' = [snap EXCEPT ![t] = Table] /\ Live = count
      BY <1>4, <1>5 DEF SaveBuild
    <2>2. \A i \in 1 .. Len(Table) : i \in 1 .. count /\ Table[i] = slots[i]
      BY TableIsSeq DEF TypeOK
    <2>3. \A i, k \in 1 .. Len(Table) : Table[i].id = Table[k].id => i = k
      BY <2>1, <2>2 DEF MarkIsOfPushedJob
    <2>4. \A i \in 1 .. Len(Table) : Table[i].id \in known
      BY <2>2 DEF IdsUnique
    <2> QED BY <1>1, <2>1, <2>3, <2>4 DEF SavedIds, TypeOK, TypeSave
  <1>6. ASSUME NEW t \in Thread, SaveBuildGaps(t) PROVE SavedIds'
    <2>1. PICK q \in Seq(Rec) :
             /\ snap' = [snap EXCEPT ![t] = q]
             /\ \E at \in [1 .. Len(q) -> 1 .. count] :
                   /\ \A a, b \in 1 .. Len(q) : a < b => at[a] < at[b]
                   /\ \A k \in 1 .. Len(q) : q[k] = slots[at[k]]
      BY <1>6, GapsIs
    <2>2. PICK at \in [1 .. Len(q) -> 1 .. count] :
             /\ \A a, b \in 1 .. Len(q) : a < b => at[a] < at[b]
             /\ \A k \in 1 .. Len(q) : q[k] = slots[at[k]]
      BY <2>1
    <2>3. Live = count
      BY <1>4, <1>6 DEF SaveBuildGaps
    <2>4. ASSUME NEW a \in 1 .. Len(q), NEW b \in 1 .. Len(q), q[a].id = q[b].id PROVE a = b
      <3>1. at[a] \in 1 .. count /\ at[b] \in 1 .. count /\ slots[at[a]].id = slots[at[b]].id
        BY <2>2, <2>4
      <3>2. at[a] = at[b]
        BY <2>3, <3>1 DEF MarkIsOfPushedJob
      <3>3. ~(at[a] < at[b]) /\ ~(at[b] < at[a])
        BY <3>1, <3>2
      <3>4. ~(a < b) /\ ~(b < a)
        BY <2>2, <3>3
      <3> QED BY <3>4
    <2>5. \A k \in 1 .. Len(q) : q[k].id \in known
      BY <2>2 DEF IdsUnique
    <2>6. snap'[t] = q /\ known' = known /\ \A u \in Thread : u # t => snap'[u] = snap[u]
      BY <1>6, <2>1 DEF SaveBuildGaps, toolVars, TypeOK, TypeSave
    <2>7. \A u \in Thread : u = t \/ snap'[u] = snap[u]
      BY <2>6
    <2> QED BY <2>4, <2>5, <2>6, <2>7 DEF SavedIds
  <1>7. ASSUME NEW t \in Thread, snap' = [snap EXCEPT ![t] = <<>>] PROVE SavedIds'
    BY <1>1, <1>7 DEF SavedIds, TypeOK, TypeSave
  <1>8. \A t \in Thread : SaveOpenFails(t) \/ SaveWrite(t) \/ SaveWriteFails(t) => SavedIds'
    BY <1>7 DEF SaveOpenFails, SaveWrite, SaveWriteFails, AfterSave
  <1>9. UNCHANGED snap \/ Restart
        \/ \E t \in Thread : SaveBuild(t) \/ SaveBuildGaps(t) \/ SaveOpenFails(t)
                             \/ SaveWrite(t) \/ SaveWriteFails(t)
    BY Cases
       DEF Tick, Sync, CronWake, CronSkip, CronNotice, CronRemind, MarkOverdue,
           MarkDeleted, Drop, MarkDisabled, MarkAgain, CronEnd, SaveOpen, ToolCheck,
           RemoveShift, AddFull, AddSlot, AddOutside, AddCount, ToolVerify, RemoveCount,
           vars, saveVars
  <1> QED BY <1>2, <1>3, <1>5, <1>6, <1>8, <1>9

\* In the table, an entry is known by its id.
LEMMA ByItsId ==
  ASSUME TypeOK, MarkIsOfPushedJob, OneInside, ~raced, cpc = "mark"
  PROVE  /\ Live = count /\ ci \in 1 .. count /\ slots[ci].id = cjob
         /\ \A k \in 1 .. count : k \in 1 .. MaxJobs /\ (slots[k].id = cjob => k = ci)
  <1>1. Live = count
    BY LiveIs DEF CronInside
  <1>2. ci \in 1 .. count /\ slots[ci].id = cjob
    BY MaxJobsAssumption DEF MarkIsOfPushedJob, TypeOK, TypeCron, TypeTable
  <1>3. \A k \in 1 .. count : k \in 1 .. MaxJobs
    BY MaxJobsAssumption DEF TypeOK, TypeTable
  <1> QED BY <1>1, <1>2, <1>3 DEF MarkIsOfPushedJob

\* The steps of a tool that is about to add, up to the count.
LEMMA AddedStays ==
  ASSUME TypeOK, OneInside, AddSlot
  PROVE  /\ count' = count /\ count >= 0
         /\ \A k \in 1 .. count : slots'[k] = slots[k]
  <1>1. \A k \in 1 .. count : k \in 1 .. MaxJobs /\ k # count + 1
    BY MaxJobsAssumption DEF TypeOK, TypeTable
  <1>2. count >= 0
    BY DEF OneInside
  <1> QED BY <1>1, <1>2, AddedIs

\* Every entry of the table after a shift was there before.
LEMMA RemovedFrom ==
  ASSUME TypeOK, NEW j \in Jobs, RemoveShift(j)
  PROVE  \A k \in 1 .. count : \E m \in 1 .. count : slots'[k] = slots[m]
  <1>1. count \in 1 .. MaxJobs /\ slots'[count] = slots[count] /\ count \in 1 .. count
    BY RemovedIs, MaxJobsAssumption
  <1>2. \A k \in 1 .. count : k \in 1 .. count - 1 \/ k = count
    BY <1>1, MaxJobsAssumption
  <1>3. \A k \in 1 .. count - 1 : \E m \in 1 .. count : slots'[k] = slots[m]
    BY RemovedIs
  <1> QED BY <1>1, <1>2, <1>3

\* What stays of the live entries when one of them goes.
LEMMA Without ==
  ASSUME NEW n \in Nat, NEW r \in 1 .. n, NEW s, NEW q,
         \A k \in 1 .. n - 1 : q[k] = IF k < r THEN s[k] ELSE s[k + 1]
  PROVE  /\ \A k \in 1 .. n - 1 : \E m \in 1 .. n : m # r /\ q[k] = s[m]
         /\ \A m \in 1 .. n : m # r => \E k \in 1 .. n - 1 : q[k] = s[m]
         /\ (\A i, k \in 1 .. n : s[i].id = s[k].id => i = k)
                => \A i, k \in 1 .. n - 1 : q[i].id = q[k].id => i = k
  <1> DEFINE At(k) == IF k < r THEN k ELSE k + 1
  <1>1. \A k \in 1 .. n - 1 : At(k) \in 1 .. n /\ At(k) # r
    OBVIOUS
  <1>2. \A k \in 1 .. n - 1 : q[k] = s[At(k)]
    OBVIOUS
  <1>3. \A i, k \in 1 .. n - 1 : At(i) = At(k) => i = k
    OBVIOUS
  <1>4. ASSUME NEW m \in 1 .. n, m # r PROVE \E k \in 1 .. n - 1 : At(k) = m
    <2>1. CASE m < r
      <3>1. m \in 1 .. n - 1 /\ At(m) = m
        BY <2>1
      <3> QED BY <3>1
    <2>2. CASE ~(m < r)
      <3>1. m - 1 \in 1 .. n - 1 /\ At(m - 1) = m
        BY <1>4, <2>2
      <3> QED BY <3>1
    <2> QED BY <2>1, <2>2
  <1> HIDE DEF At
  <1>5. (\A i, k \in 1 .. n : s[i].id = s[k].id => i = k)
           => \A i, k \in 1 .. n - 1 : q[i].id = q[k].id => i = k
    BY <1>1, <1>2, <1>3
  <1> QED BY <1>1, <1>2, <1>4, <1>5

\* Most steps leave the live entries alone, and the job that is being marked.
LEMMA LiveSame ==
  ASSUME TypeOK, OneInside, OneInside', ~raced, [Next]_vars
  PROVE  \/ Restart \/ MarkOverdue \/ MarkDeleted \/ MarkDisabled \/ MarkAgain
         \/ (\E j \in Jobs : RemoveShift(j)) \/ AddSlot \/ AddCount
         \/ /\ slots' = slots /\ Live' = Live /\ removed' = removed
            /\ \/ accepted' = accepted /\ fired \subseteq fired'
               \/ ToolVerify /\ count' = count /\ fired' = fired
            /\ cpc' = "drop" => cpc = "drop" /\ count' = count
            /\ \/ CronNotice \/ CronRemind
               \/ /\ fired' = fired /\ (cpc' = "mark" <=> cpc = "mark")
                  /\ cpc = "mark" => UNCHANGED <<count, ci, cjob>>
  <1> DEFINE Same ==
         /\ slots' = slots /\ Live' = Live /\ removed' = removed
         /\ \/ accepted' = accepted /\ fired \subseteq fired'
            \/ ToolVerify /\ count' = count /\ fired' = fired
         /\ cpc' = "drop" => cpc = "drop" /\ count' = count
         /\ \/ CronNotice \/ CronRemind
            \/ /\ fired' = fired /\ (cpc' = "mark" <=> cpc = "mark")
               /\ cpc = "mark" => UNCHANGED <<count, ci, cjob>>
  <1>1. stage["cron"] # "none" <=> cpc = "save"
    BY DEF TypeOK, TypeCron
  <1>2. stage["tool"] # "none" <=> tpc \in {"added", "deleted"}
    BY DEF TypeOK, TypeTool
  <1>3. CASE Tick
    BY <1>1, <1>2, <1>3
       DEF Tick, Live, OneInside, ToolInside, CronInside, Thread, clockVars, table, saveVars, cronVars, toolVars
  <1>4. CASE Sync
    BY <1>1, <1>2, <1>4
       DEF Sync, Live, OneInside, ToolInside, CronInside, Thread, clockVars, table, saveVars, cronVars, toolVars
  <1>5. CASE CronWake
    BY <1>1, <1>2, <1>5
       DEF CronWake, Live, OneInside, ToolInside, CronInside, Thread, clockVars, table, saveVars, cronVars, toolVars
  <1>6. CASE CronSkip
    BY <1>1, <1>2, <1>6
       DEF CronSkip, Looking, Live, OneInside, ToolInside, CronInside, Thread, clockVars, table, saveVars, cronVars, toolVars
  <1>7. CASE CronNotice
    BY <1>1, <1>2, <1>7
       DEF CronNotice, Looking, Live, OneInside, ToolInside, CronInside, Thread, clockVars, table, saveVars, cronVars, toolVars
  <1>8. CASE CronRemind
    <2>1. /\ UNCHANGED <<slots, count, tpc, removed, accepted>> /\ cpc = "scan" /\ cpc' = "mark"
          /\ fired \subseteq fired'
      BY <1>8 DEF CronRemind, Looking, table, toolVars
    <2>2. Live' = Live
      BY <2>1 DEF Live
    <2>3. Same
      BY <1>8, <2>1, <2>2
    <2> QED BY <2>3
  <1>9. CASE Drop
    <2>1. UNCHANGED <<removed, accepted, fired>>
      BY <1>9 DEF Drop, toolVars
    <2>2. slots' = slots /\ Live' = Live /\ cpc = "drop" /\ cpc' = "scan"
      BY <1>9, DroppedIs
    <2>3. Same
      BY <2>1, <2>2
    <2> QED BY <2>3
  <1>10. CASE CronEnd
    BY <1>1, <1>2, <1>10
       DEF CronEnd, Live, OneInside, ToolInside, CronInside, Thread, clockVars, table, saveVars, cronVars, toolVars
  <1>11. ASSUME NEW t \in Thread, SaveBuild(t) PROVE Same
    BY <1>1, <1>2, <1>11
       DEF SaveBuild, Live, OneInside, ToolInside, CronInside, Thread, clockVars, table, saveVars, cronVars, toolVars
  <1>12. ASSUME NEW t \in Thread, SaveBuildGaps(t) PROVE Same
    BY <1>1, <1>2, <1>12
       DEF SaveBuildGaps, Live, OneInside, ToolInside, CronInside, Thread, clockVars, table, saveVars, cronVars, toolVars
  <1>13. ASSUME NEW t \in Thread, SaveOpen(t) PROVE Same
    BY <1>1, <1>2, <1>13
       DEF SaveOpen, Live, OneInside, ToolInside, CronInside, Thread, clockVars, table, saveVars, cronVars, toolVars
  <1>14. ASSUME NEW t \in Thread, SaveOpenFails(t) PROVE Same
    BY <1>1, <1>2, <1>14
       DEF SaveOpenFails, AfterSave, Live, OneInside, ToolInside, CronInside, Thread, clockVars, table, saveVars, cronVars, toolVars
  <1>15. ASSUME NEW t \in Thread, SaveWrite(t) PROVE Same
    BY <1>1, <1>2, <1>15
       DEF SaveWrite, AfterSave, Live, OneInside, ToolInside, CronInside, Thread, clockVars, table, saveVars, cronVars, toolVars
  <1>16. ASSUME NEW t \in Thread, SaveWriteFails(t) PROVE Same
    BY <1>1, <1>2, <1>16
       DEF SaveWriteFails, AfterSave, Live, OneInside, ToolInside, CronInside, Thread, clockVars, table, saveVars, cronVars, toolVars
  <1>17. ASSUME NEW j \in Jobs, ToolCheck(j) PROVE Same
    BY <1>1, <1>2, <1>17
       DEF ToolCheck, Live, OneInside, ToolInside, CronInside, Thread, clockVars, table, saveVars, cronVars, toolVars
  <1>18. CASE AddFull
    BY <1>1, <1>2, <1>18
       DEF AddFull, Live, OneInside, ToolInside, CronInside, Thread, clockVars, table, saveVars, cronVars, toolVars
  <1>19. CASE AddOutside
    BY <1>1, <1>2, <1>19
       DEF AddOutside, Live, OneInside, ToolInside, CronInside, Thread, clockVars, table, saveVars, cronVars, toolVars
  <1>20. CASE ToolVerify
    BY <1>1, <1>2, <1>20
       DEF ToolVerify, Live, OneInside, ToolInside, CronInside, Thread, clockVars, table, saveVars, cronVars, toolVars
  <1>21. CASE RemoveCount
    <2>1. /\ tpc = "uncount" /\ tpc' = "deleted" /\ count' = count - 1 /\ cpc' = cpc
          /\ cpc \notin {"drop", "mark"} /\ UNCHANGED <<slots, removed, accepted, fired>>
      BY <1>21 DEF RemoveCount, cronVars, OneInside, CronInside, ToolInside
    <2>2. Live' = Live
      BY <2>1 DEF Live
    <2>3. Same
      BY <2>1, <2>2
    <2> QED BY <2>3
  <1>22. CASE UNCHANGED vars
    BY <1>22 DEF Live, vars, clockVars, table, saveVars, cronVars, toolVars
  <1> QED BY <1>3, <1>4, <1>5, <1>6, <1>7, <1>8, <1>9, <1>10, <1>11, <1>12, <1>13, <1>14, <1>15, <1>16, <1>17, <1>18, <1>19, <1>20, <1>21, <1>22, Cases

\* A one-shot job reminds once.
LEMMA FiredIsSpentStep ==
  ASSUME TypeOK, AllTimed, OneInside, OneInside', IdsUnique, MarkedIsFired,
         MarkIsOfPushedJob, FiredIsSpent, ~raced, ~raced', [Next]_vars
  PROVE  FiredIsSpent'
  <1>1. CASE Restart
    <2>1. \A i \in 1 .. count' : i \in 1 .. Len(file) /\ slots'[i] = file[i]
      BY <1>1, LoadedIs
    <2>2. \A j \in fired' : \A i \in 1 .. Len(file) : file[i].id = j => ~file[i].enabled
      BY <1>1 DEF Restart
    <2>3. Live' = count'
      BY <1>1 DEF Restart, Live
    <2> QED BY <2>1, <2>2, <2>3 DEF FiredIsSpent, Armed
  <1>2. CASE MarkOverdue \/ MarkDisabled \/ MarkAgain
    <2>1. cpc = "mark" /\ cpc' = "scan" /\ UNCHANGED <<fired, tpc>>
      BY <1>2 DEF MarkOverdue, MarkDisabled, MarkAgain, Marked, Reminded, toolVars
    <2>2. /\ count' = count /\ slots'[ci].id = slots[ci].id
          /\ \A k \in 1 .. MaxJobs : k # ci => slots'[k] = slots[k]
      BY <1>2, MarkedIs
    <2>3. slots'[ci].id \in fired => ~slots'[ci].enabled
      BY <1>2, <2>1, <2>2, MarkedIs, ByItsId DEF MarkedIsFired
    <2>4. Live = count /\ Live' = count
      BY <2>1, <2>2, ByItsId DEF Live
    <2>5. \A j \in fired : \A k \in 1 .. count : k # ci => ~(slots[k].id = j /\ slots[k].enabled)
      BY <2>1, <2>4, ByItsId DEF FiredIsSpent, Armed
    <2>6. \A j \in fired : \A k \in 1 .. count : ~(slots'[k].id = j /\ slots'[k].enabled)
      BY <2>1, <2>2, <2>3, <2>5, ByItsId
    <2> QED BY <2>1, <2>4, <2>6 DEF FiredIsSpent, Armed
  <1>3. CASE MarkDeleted
    <2>1. cpc = "mark" /\ UNCHANGED fired
      BY <1>3 DEF MarkDeleted, Reminded
    <2>2. /\ Live = count /\ Live' = count - 1 /\ count \in Nat /\ ci \in 1 .. count
          /\ \A k \in 1 .. count - 1 : slots'[k] = IF k < ci THEN slots[k] ELSE slots[k + 1]
      BY <1>3, DeletedIs, MaxJobsAssumption
    <2>3. \A k \in 1 .. count - 1 : \E m \in 1 .. count : m # ci /\ slots'[k] = slots[m]
      BY <2>2, Without
    <2>4. \A j \in fired : \A m \in 1 .. count : m # ci => ~(slots[m].id = j /\ slots[m].enabled)
      BY <2>1, <2>2, ByItsId DEF FiredIsSpent, Armed
    <2> QED BY <2>1, <2>2, <2>3, <2>4 DEF FiredIsSpent, Armed
  <1>4. ASSUME NEW j \in Jobs, RemoveShift(j) PROVE FiredIsSpent'
    <2>1. UNCHANGED <<count, fired, cpc, cjob>> /\ tpc = "idle" /\ tpc' = "uncount" /\ cpc # "drop"
      BY <1>4 DEF RemoveShift, cronVars, OneInside, CronInside, ToolInside
    <2>2. Live = count /\ Live' = count - 1 /\ \A k \in 1 .. count - 1 : k \in 1 .. count
      BY <2>1 DEF Live, TypeOK, TypeTable
    <2>3. \A k \in 1 .. count : \E m \in 1 .. count : slots'[k] = slots[m]
      BY <1>4, RemovedFrom
    <2> QED BY <2>1, <2>2, <2>3 DEF FiredIsSpent, Armed
  <1>5. CASE AddSlot
    <2>1. UNCHANGED <<fired, cpc, cjob, count>> /\ tpc = "check" /\ tpc' = "count" /\ cpc # "drop"
      BY <1>5 DEF AddSlot, cronVars, OneInside, CronInside, ToolInside
    <2>2. Live = count /\ Live' = count
      BY <2>1 DEF Live
    <2> QED BY <1>5, <2>1, <2>2, AddedStays DEF FiredIsSpent, Armed
  <1>6. CASE AddCount
    <2>1. /\ tpc = "count" /\ tpc' = "added" /\ count' = count + 1 /\ cpc # "drop"
          /\ UNCHANGED <<slots, fired, cpc, cjob>>
      BY <1>6 DEF AddCount, cronVars, OneInside, CronInside, ToolInside
    <2>2. \A k \in 1 .. count + 1 : k \in 1 .. count \/ k = count + 1
      BY DEF OneInside, TypeOK, TypeTable
    <2>3. slots[count + 1].id \notin fired
      BY <2>1 DEF IdsUnique
    <2>4. Live = count /\ Live' = count + 1
      BY <2>1 DEF Live
    <2> QED BY <2>1, <2>2, <2>3, <2>4 DEF FiredIsSpent, Armed
  <1>7. CASE CronNotice \/ CronRemind
    <2>1. /\ cpc = "scan" /\ cpc' = "mark" /\ cjob' = slots[ci].id /\ UNCHANGED <<slots, count, tpc>>
          /\ fired' \subseteq fired \cup {slots[ci].id}
      BY <1>7 DEF CronNotice, CronRemind, Looking, table, toolVars
    <2>2. Live' = Live
      BY <2>1 DEF Live
    <2> QED BY <2>1, <2>2 DEF FiredIsSpent, Armed
  <1>8. CASE /\ slots' = slots /\ Live' = Live /\ fired' = fired
             /\ (cpc' = "mark" <=> cpc = "mark") /\ (cpc = "mark" => cjob' = cjob)
    BY <1>8 DEF FiredIsSpent, Armed
  <1> QED BY <1>1, <1>2, <1>3, <1>4, <1>5, <1>6, <1>7, <1>8, LiveSame

\* The mark stays on the job reminded of, and ids stay unique.
LEMMA MarkIsOfPushedJobStep ==
  ASSUME TypeOK, AllTimed, OneInside, OneInside', IdsUnique, MarkIsOfPushedJob,
         ~raced, ~raced', [Next]_vars
  PROVE  MarkIsOfPushedJob'
  <1> DEFINE Unique(n, s) == \A i, k \in 1 .. n : s[i].id = s[k].id => i = k
  <1>0. Unique(Live, slots)
    BY DEF MarkIsOfPushedJob
  <1>1. CASE Restart
    <2>1. \A i \in 1 .. count' : i \in 1 .. Len(file) /\ slots'[i] = file[i]
      BY <1>1, LoadedIs
    <2>2. cpc' = "sleep" /\ Live' = count'
      BY <1>1 DEF Restart, Live
    <2> QED BY <2>1, <2>2 DEF MarkIsOfPushedJob, IdsUnique
  <1>2. CASE MarkOverdue \/ MarkDisabled \/ MarkAgain
    <2>1. cpc = "mark" /\ cpc' = "scan" /\ UNCHANGED <<count, tpc>>
      BY <1>2 DEF MarkOverdue, MarkDisabled, MarkAgain, Marked, Reminded, toolVars
    <2>2. \A k \in 1 .. MaxJobs : slots'[k].id = slots[k].id
      BY <1>2, MarkedIs
    <2>3. Live = count /\ Live' = count
      BY <2>1, ByItsId DEF Live
    <2>4. \A k \in 1 .. count : slots'[k].id = slots[k].id
      BY <2>1, <2>2, ByItsId
    <2> QED BY <1>0, <2>1, <2>3, <2>4 DEF MarkIsOfPushedJob
  <1>3. CASE MarkDeleted
    <2>1. /\ Live = count /\ Live' = count - 1 /\ count \in Nat /\ ci \in 1 .. count
          /\ \A k \in 1 .. count - 1 : slots'[k] = IF k < ci THEN slots[k] ELSE slots[k + 1]
      BY <1>3, DeletedIs, MaxJobsAssumption
    <2>2. Unique(count - 1, slots')
      BY <1>0, <2>1, Without
    <2>3. cpc' = "drop"
      BY <1>3 DEF MarkDeleted
    <2> QED BY <2>1, <2>2, <2>3 DEF MarkIsOfPushedJob
  <1>4. ASSUME NEW j \in Jobs, RemoveShift(j) PROVE MarkIsOfPushedJob'
    <2>1. /\ tpc = "idle" /\ tpc' = "uncount" /\ cpc # "drop" /\ cpc' = cpc /\ cpc # "mark"
          /\ count' = count
      BY <1>4 DEF RemoveShift, cronVars, OneInside, CronInside, ToolInside
    <2>2. Live = count /\ Live' = count - 1
      BY <2>1 DEF Live
    <2>3. PICK r \in 1 .. count :
             \A k \in 1 .. count - 1 : slots'[k] = IF k < r THEN slots[k] ELSE slots[k + 1]
      BY <1>4, RemovedIs
    <2>4. count \in Nat
      BY <1>4, RemovedIs, MaxJobsAssumption
    <2>5. Unique(count - 1, slots')
      <3>1. Unique(count, slots)
        BY <1>0, <2>2
      <3> HIDE DEF Unique
      <3>2. Unique(count, slots) => Unique(count - 1, slots')
        BY <2>3, <2>4, Without DEF Unique
      <3> QED BY <3>1, <3>2
    <2> QED BY <2>1, <2>2, <2>5 DEF MarkIsOfPushedJob
  <1>5. CASE AddSlot
    <2>1. UNCHANGED <<cpc, count>> /\ tpc = "check" /\ tpc' = "count" /\ cpc \notin {"drop", "mark"}
      BY <1>5 DEF AddSlot, cronVars, OneInside, CronInside, ToolInside
    <2>2. Live = count /\ Live' = count
      BY <2>1 DEF Live
    <2> QED BY <1>0, <1>5, <2>1, <2>2, AddedStays DEF MarkIsOfPushedJob
  <1>6. CASE AddCount
    <2>1. /\ tpc = "count" /\ tpc' = "added" /\ count' = count + 1 /\ UNCHANGED <<slots, cpc>>
          /\ cpc \notin {"drop", "mark"}
      BY <1>6 DEF AddCount, cronVars, OneInside, CronInside, ToolInside
    <2>2. Live = count /\ Live' = count + 1
      BY <2>1 DEF Live
    <2>3. \A k \in 1 .. count + 1 : k \in 1 .. count \/ k = count + 1
      BY DEF OneInside, TypeOK, TypeTable
    <2>4. \A k \in 1 .. count : slots[k].id # slots[count + 1].id
      BY <2>1 DEF IdsUnique, Ids
    <2> QED BY <1>0, <2>1, <2>2, <2>3, <2>4 DEF MarkIsOfPushedJob
  <1>7. CASE CronNotice \/ CronRemind
    <2>1. UNCHANGED <<slots, count, tpc, ci>> /\ cpc = "scan" /\ cpc' = "mark"
          /\ cjob' = slots[ci].id /\ ci =< count
      BY <1>7 DEF CronNotice, CronRemind, Looking, table, toolVars
    <2>2. Live' = Live
      BY <2>1 DEF Live
    <2> QED BY <1>0, <2>1, <2>2 DEF MarkIsOfPushedJob
  <1>8. CASE /\ slots' = slots /\ Live' = Live /\ (cpc' = "mark" <=> cpc = "mark")
             /\ (cpc = "mark" => UNCHANGED <<count, ci, cjob>>)
    BY <1>8 DEF MarkIsOfPushedJob
  <1> QED BY <1>1, <1>2, <1>3, <1>4, <1>5, <1>6, <1>7, <1>8, LiveSame

\* Lateness depends on the entry, the time and since when the time is known.
LEMMA LateSame ==
  ASSUME UNCHANGED <<now, since>>, NEW i, NEW k, slots'[k] = slots[i], NEW n \in Int
  PROVE  LateBy(i, n) => LateBy(k, n)'
  BY DEF LateBy

LEMMA LateMore ==
  ASSUME TypeClock, NEW i \in 1 .. MaxJobs, slots[i] \in Rec, NEW m \in Int, NEW n \in Int,
         m =< n, LateBy(i, m)
  PROVE  LateBy(i, n)
  <1>1. Def[slots[i].id].at \in Nat
    BY DefAssumption DEF Rec
  <1>2. now \in Nat
    BY TimeAssumption DEF TypeClock
  <1> QED BY <1>1, <1>2 DEF LateBy

\* No entry is later than a sleep and a check.
LEMMA PunctualStep ==
  ASSUME TypeOK, AllTimed, OneInside, IdsUnique, MarkIsOfPushedJob, Punctual, ~raced, ~raced', [Next]_vars
  PROVE  Punctual'
  <1>1. CASE Tick
    <2>1. /\ now' = now + 1 /\ lag' = lag + 1 /\ UNCHANGED <<slots, count, since, synced, ci, cpc, tpc>>
      BY <1>1 DEF Tick, clockVars, table, cronVars, toolVars
    <2>2. /\ lag \in Int /\ now \in Int /\ \A k \in 1 .. count : slots[k] \in Rec
          /\ tpc = "count" => slots[count + 1] \in Rec
      BY TimeAssumption DEF TypeOK, TypeClock, TypeTable, OneInside
    <2>3. \A r \in Rec : Def[r.id].at \in Int
      BY DefAssumption DEF Rec
    <2> DEFINE L(i, n) ==
                 slots'[i].enabled /\ Def[slots'[i].id].kind = "at"
                 /\ Def[slots'[i].id].at >= since'
                     => now' - Def[slots'[i].id].at =< n
    <2>4. ASSUME NEW i, slots[i] \in Rec, NEW m \in Int, LateBy(i, m) PROVE L(i, m + 1)
      <3>1. Def[slots[i].id].at \in Int
        BY <2>3, <2>4
      <3> QED BY <2>1, <2>2, <2>4, <3>1 DEF LateBy
    <2> HIDE DEF L
    <2>5. CASE synced
      <3>1. cpc = "sleep" => \A i \in 1 .. count : L(i, lag + 1)
        BY <2>2, <2>4, <2>5 DEF Punctual
      <3>2. cpc = "save" => \A i \in 1 .. count : L(i, lag)
        <4>1. lag - 1 \in Int /\ lag - 1 + 1 = lag
          BY <2>2
        <4> QED BY <2>2, <2>4, <2>5, <4>1 DEF Punctual
      <3>3. ASSUME cpc \in {"scan", "mark", "drop"}, NEW i \in 1 .. count
            PROVE  IF i < ci THEN L(i, lag) ELSE L(i, lag + 2)
        <4>1. LateBy(i, IF i < ci THEN lag - 1 ELSE lag + 1)
          BY <2>5, <3>3 DEF Punctual
        <4>2. /\ lag - 1 \in Int /\ lag - 1 + 1 = lag
              /\ lag + 1 \in Int /\ lag + 1 + 1 = lag + 2
          BY <2>2
        <4> QED BY <2>2, <2>4, <4>1, <4>2
      <3>4. tpc = "count" => L(count + 1, lag + 1)
        BY <2>2, <2>4, <2>5 DEF Punctual
      <3>5. lag' - 1 = lag /\ lag' + 1 = lag + 2 /\ lag' = lag + 1
        BY <2>1, <2>2
      <3>6. cpc = "sleep" => \A i \in 1 .. count' : LateBy(i, lag)'
        BY <2>1, <3>1, <3>5 DEF L, LateBy
      <3>7. cpc = "save" => \A i \in 1 .. count' : LateBy(i, lag - 1)'
        BY <2>1, <3>2, <3>5 DEF L, LateBy
      <3>8. cpc \in {"scan", "mark", "drop"} =>
               \A i \in 1 .. count' : LateBy(i, IF i < ci THEN lag - 1 ELSE lag + 1)'
        BY <2>1, <3>3, <3>5 DEF L, LateBy
      <3>9. tpc = "count" => LateBy(count + 1, lag)'
        BY <2>1, <3>4, <3>5 DEF L, LateBy
      <3> QED BY <2>1, <3>6, <3>7, <3>8, <3>9 DEF Punctual
    <2> QED BY <2>1, <2>5 DEF Punctual
  <1>2. CASE Sync
    <2>1. /\ since' = now /\ UNCHANGED <<slots, count, now, lag, cpc, tpc>> /\ ~synced
      BY <1>2 DEF Sync, table, cronVars, toolVars
    <2>2. cpc = "sleep"
      BY <2>1 DEF OneInside, CronInside
    <2>3. now \in Int /\ lag \in 0 .. 1 /\ \A r \in Rec : Def[r.id].at \in Int
      BY TimeAssumption, DefAssumption DEF TypeOK, TypeClock, Rec
    <2>4. /\ \A k \in 1 .. count : slots[k] \in Rec
          /\ tpc = "count" => slots[count + 1] \in Rec
      BY DEF TypeOK, TypeTable, OneInside
    <2>5. ASSUME NEW i, slots[i] \in Rec PROVE LateBy(i, lag)'
      <3>1. Def[slots[i].id].at \in Int
        BY <2>3, <2>5
      <3> QED BY <2>1, <2>3, <3>1 DEF LateBy
    <2> QED BY <2>1, <2>2, <2>4, <2>5 DEF Punctual
  <1>3. CASE Restart
    <2>1. /\ since' = now' /\ cpc' = "sleep" /\ tpc' = "idle" /\ lag' = 0
          /\ now' \in now .. MaxTime
      BY <1>3 DEF Restart
    <2>2. \A i \in 1 .. count' : i \in 1 .. Len(file) /\ slots'[i] = file[i]
      BY <1>3, LoadedIs
    <2>3. now' \in Int
      BY <2>1
    <2>4. ASSUME NEW i \in 1 .. count' PROVE LateBy(i, 0)'
      <3>1. file[i] \in Rec
        BY <2>2 DEF TypeOK, TypeSave
      <3>2. Def[slots'[i].id].at \in Int
        BY <2>2, <3>1, DefAssumption DEF Rec
      <3> QED BY <2>1, <2>3, <3>2 DEF LateBy
    <2> QED BY <2>1, <2>4 DEF Punctual
  <1>4. CASE CronWake
    <2>t. /\ lag \in 0 .. 1 /\ count \in Int /\ ci \in Int
          /\ \A k \in 1 .. count : k \in 1 .. MaxJobs /\ slots[k] \in Rec
      BY MaxJobsAssumption DEF TypeOK, TypeClock, TypeTable, TypeCron
    <2>1. /\ UNCHANGED <<slots, count, now, since, synced, tpc>> /\ cpc = "sleep" /\ lag' = 0
      BY <1>4 DEF CronWake, clockVars, table, toolVars
    <2>2. CASE synced
      <3>1. /\ cpc' = "scan" /\ ci' = 1 /\ tpc # "count"
        <4>1. ~(Clock < MinEpoch)
          <5>1. TypeClock /\ Clock \in Int /\ MinEpoch \in Int
            BY ClockType, TimeAssumption DEF TypeOK
          <5> QED BY <2>2, <5>1, ClockType
        <4> QED BY <1>4, <4>1 DEF CronWake, ToolInside
      <3>2. ASSUME NEW i \in 1 .. count PROVE LateBy(i, 1)
        BY <2>1, <2>2, <2>t, LateMore DEF Punctual, TypeOK
      <3>3. \A i \in 1 .. count' : ~(i < ci')
        BY <3>1
      <3> QED BY <2>1, <2>2, <3>1, <3>2, <3>3 DEF Punctual, LateBy
    <2> QED BY <2>1, <2>2 DEF Punctual
  <1>5. CASE CronSkip
    <2>t. /\ lag \in 0 .. 1 /\ count \in Int /\ ci \in Int
          /\ \A k \in 1 .. count : k \in 1 .. MaxJobs /\ slots[k] \in Rec
      BY MaxJobsAssumption DEF TypeOK, TypeClock, TypeTable, TypeCron
    <2>1. /\ UNCHANGED <<slots, count, now, since, synced, lag, tpc, cpc>> /\ cpc = "scan"
          /\ ci' = ci + 1 /\ ~Due(slots[ci]) /\ ci \in 1 .. count
      BY <1>5, MaxJobsAssumption
         DEF CronSkip, Looking, clockVars, table, toolVars, TypeOK, TypeCron, TypeTable
    <2>2. ASSUME synced PROVE LateBy(ci, lag - 1)
      <3>1. Clock = now /\ now \in Int
        BY <2>2, ClockType, TimeAssumption DEF TypeOK, TypeClock
      <3>2. Def[slots[ci].id].at \in Nat \ {0}
        BY <2>1, <2>t, DefAssumption DEF Rec
      <3> QED BY <2>1, <2>t, <3>1, <3>2 DEF LateBy, Due, DueEpoch
    <2>3. tpc # "count"
      BY <2>1 DEF OneInside, CronInside, ToolInside
    <2>4. ASSUME synced, NEW i \in 1 .. count
          PROVE  LateBy(i, IF i < ci + 1 THEN lag - 1 ELSE lag + 1)
      <3>1. CASE i = ci
        BY <2>2, <2>4, <2>t, <3>1
      <3>2. CASE i # ci
        <4>1. LateBy(i, IF i < ci THEN lag - 1 ELSE lag + 1)
          BY <2>1, <2>4 DEF Punctual
        <4>2. i < ci <=> i < ci + 1
          BY <2>t, <3>2
        <4> QED BY <4>1, <4>2
      <3> QED BY <3>1, <3>2
    <2> QED BY <2>1, <2>3, <2>4 DEF Punctual, LateBy
  <1>6. CASE CronNotice
    <2>1. UNCHANGED <<slots, count, now, since, synced, lag, ci>>
      BY <1>6 DEF CronNotice, Looking, clockVars, table, saveVars, cronVars, toolVars
    <2>2. /\ cpc' = cpc \/ (cpc = "scan" /\ cpc' = "mark")
          /\ tpc' = "count" => tpc = "count"
      BY <1>6 DEF CronNotice, Looking, clockVars, table, saveVars, cronVars, toolVars
    <2> QED BY <2>1, <2>2 DEF Punctual, LateBy
  <1>7. CASE CronRemind
    <2>1. UNCHANGED <<slots, count, now, since, synced, lag, ci>>
      BY <1>7 DEF CronRemind, Looking, clockVars, table, saveVars, cronVars, toolVars
    <2>2. /\ cpc' = cpc \/ (cpc = "scan" /\ cpc' = "mark")
          /\ tpc' = "count" => tpc = "count"
      BY <1>7 DEF CronRemind, Looking, clockVars, table, saveVars, cronVars, toolVars
    <2> QED BY <2>1, <2>2 DEF Punctual, LateBy
  <1>8. CASE MarkOverdue
    <2>t. /\ lag \in 0 .. 1 /\ count \in Int /\ ci \in Int
          /\ \A k \in 1 .. count : k \in 1 .. MaxJobs /\ slots[k] \in Rec
      BY MaxJobsAssumption DEF TypeOK, TypeClock, TypeTable, TypeCron
    <2>1. /\ cpc = "mark" /\ cpc' = "scan" /\ ci' = ci + 1 /\ UNCHANGED <<now, since, synced, lag, tpc>>
      BY <1>8 DEF MarkOverdue, Reminded, Marked, clockVars, toolVars
    <2>2. /\ count' = count /\ ci \in 1 .. MaxJobs
          /\ \A k \in 1 .. MaxJobs : k # ci => slots'[k] = slots[k]
          /\ slots'[ci].enabled => Def[slots'[ci].id].kind # "at"
      BY <1>8, MarkedIs
    <2>3. tpc' # "count"
      BY <2>1 DEF OneInside, CronInside, ToolInside
    <2>4. ASSUME synced, NEW i \in 1 .. count
          PROVE  LateBy(i, IF i < ci THEN lag - 1 ELSE lag + 1)'
      <3>1. CASE i = ci
        BY <2>2, <3>1 DEF LateBy
      <3>2. CASE i # ci
        <4>1. LateBy(i, IF i < ci THEN lag - 1 ELSE lag + 1)
          BY <2>1, <2>4 DEF Punctual
        <4>3. slots'[i] = slots[i]
          BY <2>2, <2>t, <3>2
        <4>2. i < ci <=> i < ci'
          BY <2>1, <2>t, <3>2
        <4> QED BY <2>1, <4>1, <4>2, <4>3 DEF LateBy
      <3> QED BY <3>1, <3>2
    <2> QED BY <2>1, <2>2, <2>3, <2>4 DEF Punctual
  <1>9. CASE MarkDeleted
    <2>t. /\ lag \in 0 .. 1 /\ count \in Int /\ ci \in Int
          /\ \A k \in 1 .. count : k \in 1 .. MaxJobs /\ slots[k] \in Rec
      BY MaxJobsAssumption DEF TypeOK, TypeClock, TypeTable, TypeCron
    <2>1. /\ cpc = "mark" /\ cpc' = "drop" /\ UNCHANGED <<ci, now, since, synced, lag, tpc>>
      BY <1>9 DEF MarkDeleted, Reminded, clockVars, toolVars
    <2>2. tpc' # "count"
      BY <2>1 DEF OneInside, CronInside, ToolInside
    <2>3. /\ count' = count /\ ci =< count
          /\ slots'[count].id = slots[count].id /\ slots'[count].enabled = slots[count].enabled
          /\ \A k \in 1 .. count - 1 :
               /\ (k < ci => k \in 1 .. count)
               /\ (k >= ci => k + 1 \in 1 .. count)
               /\ slots'[k] = IF k < ci THEN slots[k] ELSE slots[k + 1]
      BY <1>9, DeletedIs
    <2>4. ASSUME synced, NEW i \in 1 .. count - 1
          PROVE  LateBy(i, IF i < ci THEN lag - 1 ELSE lag + 1)'
      <3>1. CASE i < ci
        <4>2. i \in 1 .. count /\ slots'[i] = slots[i]
          BY <2>3, <2>4, <3>1
        <4>3. LateBy(i, IF i < ci THEN lag - 1 ELSE lag + 1)
          BY <2>1, <2>4, <4>2 DEF Punctual
        <4>1. LateBy(i, lag - 1) /\ slots'[i] = slots[i]
          BY <3>1, <4>2, <4>3
        <4> QED BY <2>1, <3>1, <4>1 DEF LateBy
      <3>2. CASE ~(i < ci)
        <4>1. i >= ci /\ ~(i + 1 < ci)
          BY <2>t, <3>2
        <4>3. i + 1 \in 1 .. count /\ slots'[i] = slots[i + 1]
          BY <2>3, <2>4, <4>1, <3>2
        <4>4. LateBy(i + 1, IF i + 1 < ci THEN lag - 1 ELSE lag + 1)
          BY <2>1, <2>4, <4>3 DEF Punctual
        <4>2. LateBy(i + 1, lag + 1) /\ slots'[i] = slots[i + 1]
          BY <4>1, <4>3, <4>4
        <4> QED BY <2>1, <3>2, <4>2 DEF LateBy
      <3> QED BY <3>1, <3>2
    <2>5. synced => LateBy(count, IF count < ci THEN lag - 1 ELSE lag + 1)'
      <3> SUFFICES ASSUME synced PROVE LateBy(count, IF count < ci THEN lag - 1 ELSE lag + 1)'
        OBVIOUS
      <3>1. ~(count < ci) /\ count \in 1 .. count
        BY <2>t, <2>3 DEF MarkDeleted, TypeOK, TypeCron
      <3>2. LateBy(count, IF count < ci THEN lag - 1 ELSE lag + 1)
        BY <2>1, <3>1 DEF Punctual
      <3> QED BY <2>1, <2>3, <3>1, <3>2 DEF LateBy
    <2>6. \A i \in 1 .. count : i \in 1 .. count - 1 \/ i = count
      BY <2>t
    <2> QED BY <2>1, <2>2, <2>3, <2>4, <2>5, <2>6 DEF Punctual
  <1>10. CASE MarkDisabled
    <2>t. /\ lag \in 0 .. 1 /\ count \in Int /\ ci \in Int
          /\ \A k \in 1 .. count : k \in 1 .. MaxJobs /\ slots[k] \in Rec
      BY MaxJobsAssumption DEF TypeOK, TypeClock, TypeTable, TypeCron
    <2>1. /\ cpc = "mark" /\ cpc' = "scan" /\ ci' = ci + 1 /\ UNCHANGED <<now, since, synced, lag, tpc>>
      BY <1>10 DEF MarkDisabled, Reminded, Marked, clockVars, toolVars
    <2>2. /\ count' = count /\ ci \in 1 .. MaxJobs
          /\ \A k \in 1 .. MaxJobs : k # ci => slots'[k] = slots[k]
          /\ slots'[ci].enabled => Def[slots'[ci].id].kind # "at"
      BY <1>10, MarkedIs
    <2>3. tpc' # "count"
      BY <2>1 DEF OneInside, CronInside, ToolInside
    <2>4. ASSUME synced, NEW i \in 1 .. count
          PROVE  LateBy(i, IF i < ci THEN lag - 1 ELSE lag + 1)'
      <3>1. CASE i = ci
        BY <2>2, <3>1 DEF LateBy
      <3>2. CASE i # ci
        <4>1. LateBy(i, IF i < ci THEN lag - 1 ELSE lag + 1)
          BY <2>1, <2>4 DEF Punctual
        <4>3. slots'[i] = slots[i]
          BY <2>2, <2>t, <3>2
        <4>2. i < ci <=> i < ci'
          BY <2>1, <2>t, <3>2
        <4> QED BY <2>1, <4>1, <4>2, <4>3 DEF LateBy
      <3> QED BY <3>1, <3>2
    <2> QED BY <2>1, <2>2, <2>3, <2>4 DEF Punctual
  <1>11. CASE MarkAgain
    <2>t. /\ lag \in 0 .. 1 /\ count \in Int /\ ci \in Int
          /\ \A k \in 1 .. count : k \in 1 .. MaxJobs /\ slots[k] \in Rec
      BY MaxJobsAssumption DEF TypeOK, TypeClock, TypeTable, TypeCron
    <2>1. /\ cpc = "mark" /\ cpc' = "scan" /\ ci' = ci + 1 /\ UNCHANGED <<now, since, synced, lag, tpc>>
      BY <1>11 DEF MarkAgain, Reminded, Marked, clockVars, toolVars
    <2>2. /\ count' = count /\ ci \in 1 .. MaxJobs
          /\ \A k \in 1 .. MaxJobs : k # ci => slots'[k] = slots[k]
          /\ slots'[ci].enabled => Def[slots'[ci].id].kind # "at"
      BY <1>11, MarkedIs
    <2>3. tpc' # "count"
      BY <2>1 DEF OneInside, CronInside, ToolInside
    <2>4. ASSUME synced, NEW i \in 1 .. count
          PROVE  LateBy(i, IF i < ci THEN lag - 1 ELSE lag + 1)'
      <3>1. CASE i = ci
        BY <2>2, <3>1 DEF LateBy
      <3>2. CASE i # ci
        <4>1. LateBy(i, IF i < ci THEN lag - 1 ELSE lag + 1)
          BY <2>1, <2>4 DEF Punctual
        <4>3. slots'[i] = slots[i]
          BY <2>2, <2>t, <3>2
        <4>2. i < ci <=> i < ci'
          BY <2>1, <2>t, <3>2
        <4> QED BY <2>1, <4>1, <4>2, <4>3 DEF LateBy
      <3> QED BY <3>1, <3>2
    <2> QED BY <2>1, <2>2, <2>3, <2>4 DEF Punctual
  <1>12. CASE CronEnd
    <2>t. /\ lag \in 0 .. 1 /\ count \in Int /\ ci \in Int
          /\ \A k \in 1 .. count : k \in 1 .. MaxJobs /\ slots[k] \in Rec
      BY MaxJobsAssumption DEF TypeOK, TypeClock, TypeTable, TypeCron
    <2>1. /\ UNCHANGED <<slots, count, now, since, synced, tpc>> /\ cpc = "scan" /\ ci > count
          /\ \/ cpc' = "save" /\ lag' = lag
             \/ cpc' = "sleep" /\ lag' = 0
      BY <1>12 DEF CronEnd, clockVars, table, toolVars
    <2>2. tpc # "count"
      BY <2>1 DEF OneInside, CronInside, ToolInside
    <2>3. ASSUME synced, NEW i \in 1 .. count PROVE LateBy(i, lag - 1)
      <3>1. i < ci
        BY <2>1, <2>t
      <3> QED BY <2>1, <2>3, <3>1 DEF Punctual
    <2>4. ASSUME synced, NEW i \in 1 .. count PROVE LateBy(i, 0)
      BY <2>t, <2>3, <2>4, LateMore DEF TypeOK
    <2> QED BY <2>1, <2>2, <2>3, <2>4 DEF Punctual, LateBy
  <1>13. ASSUME NEW t \in Thread, SaveBuild(t) PROVE Punctual'
    <2>1. UNCHANGED <<slots, count, now, since, synced, lag, ci>>
      BY <1>13 DEF SaveBuild, TypeOK, TypeCron, Thread, clockVars, table, saveVars, cronVars, toolVars
    <2>2. /\ cpc' = cpc \/ (cpc = "scan" /\ cpc' = "mark")
          /\ tpc' = "count" => tpc = "count"
      BY <1>13 DEF SaveBuild, TypeOK, TypeCron, Thread, clockVars, table, saveVars, cronVars, toolVars
    <2> QED BY <2>1, <2>2 DEF Punctual, LateBy
  <1>14. ASSUME NEW t \in Thread, SaveOpen(t) PROVE Punctual'
    <2>1. UNCHANGED <<slots, count, now, since, synced, lag, ci>>
      BY <1>14 DEF SaveOpen, TypeOK, TypeCron, Thread, clockVars, table, saveVars, cronVars, toolVars
    <2>2. /\ cpc' = cpc \/ (cpc = "scan" /\ cpc' = "mark")
          /\ tpc' = "count" => tpc = "count"
      BY <1>14 DEF SaveOpen, TypeOK, TypeCron, Thread, clockVars, table, saveVars, cronVars, toolVars
    <2> QED BY <2>1, <2>2 DEF Punctual, LateBy
  <1>15. ASSUME NEW t \in Thread, SaveOpenFails(t) PROVE Punctual'
    <2>t. /\ lag \in 0 .. 1 /\ count \in Int /\ ci \in Int
          /\ \A k \in 1 .. count : k \in 1 .. MaxJobs /\ slots[k] \in Rec
      BY MaxJobsAssumption DEF TypeOK, TypeClock, TypeTable, TypeCron
    <2>1. CASE t = "cron"
      <3>1. /\ UNCHANGED <<slots, count, now, since, synced>> /\ lag' = 0 /\ cpc' = "sleep"
            /\ cpc = "save" /\ tpc' # "count"
        BY <1>15, <2>1 DEF SaveOpenFails, AfterSave, clockVars, table, OneInside, CronInside,
              ToolInside, TypeOK, TypeCron, Thread
      <3>2. ASSUME synced, NEW i \in 1 .. count PROVE LateBy(i, lag - 1)
        BY <3>1, <3>2 DEF Punctual
      <3>3. ASSUME synced, NEW i \in 1 .. count PROVE LateBy(i, 0)
        BY <2>t, <3>2, <3>3, LateMore DEF TypeOK
      <3>4. ASSUME synced, NEW i \in 1 .. count PROVE LateBy(i, 0)'
        BY <3>1, <3>3, <3>4, LateSame
      <3> QED BY <3>1, <3>4 DEF Punctual
    <2>2. CASE t # "cron"
      <3>1. /\ UNCHANGED <<slots, count, now, since, synced, lag, ci, cpc>> /\ tpc' # "count"
        BY <1>15, <2>2 DEF SaveOpenFails, AfterSave, clockVars, table
      <3> QED BY <3>1 DEF Punctual, LateBy
    <2> QED BY <2>1, <2>2
  <1>16. ASSUME NEW t \in Thread, SaveWrite(t) PROVE Punctual'
    <2>t. /\ lag \in 0 .. 1 /\ count \in Int /\ ci \in Int
          /\ \A k \in 1 .. count : k \in 1 .. MaxJobs /\ slots[k] \in Rec
      BY MaxJobsAssumption DEF TypeOK, TypeClock, TypeTable, TypeCron
    <2>1. CASE t = "cron"
      <3>1. /\ UNCHANGED <<slots, count, now, since, synced>> /\ lag' = 0 /\ cpc' = "sleep"
            /\ cpc = "save" /\ tpc' # "count"
        BY <1>16, <2>1 DEF SaveWrite, AfterSave, clockVars, table, OneInside, CronInside,
              ToolInside, TypeOK, TypeCron, Thread
      <3>2. ASSUME synced, NEW i \in 1 .. count PROVE LateBy(i, lag - 1)
        BY <3>1, <3>2 DEF Punctual
      <3>3. ASSUME synced, NEW i \in 1 .. count PROVE LateBy(i, 0)
        BY <2>t, <3>2, <3>3, LateMore DEF TypeOK
      <3>4. ASSUME synced, NEW i \in 1 .. count PROVE LateBy(i, 0)'
        BY <3>1, <3>3, <3>4, LateSame
      <3> QED BY <3>1, <3>4 DEF Punctual
    <2>2. CASE t # "cron"
      <3>1. /\ UNCHANGED <<slots, count, now, since, synced, lag, ci, cpc>> /\ tpc' # "count"
        BY <1>16, <2>2 DEF SaveWrite, AfterSave, clockVars, table
      <3> QED BY <3>1 DEF Punctual, LateBy
    <2> QED BY <2>1, <2>2
  <1>17. ASSUME NEW t \in Thread, SaveWriteFails(t) PROVE Punctual'
    <2>t. /\ lag \in 0 .. 1 /\ count \in Int /\ ci \in Int
          /\ \A k \in 1 .. count : k \in 1 .. MaxJobs /\ slots[k] \in Rec
      BY MaxJobsAssumption DEF TypeOK, TypeClock, TypeTable, TypeCron
    <2>1. CASE t = "cron"
      <3>1. /\ UNCHANGED <<slots, count, now, since, synced>> /\ lag' = 0 /\ cpc' = "sleep"
            /\ cpc = "save" /\ tpc' # "count"
        BY <1>17, <2>1 DEF SaveWriteFails, AfterSave, clockVars, table, OneInside, CronInside,
              ToolInside, TypeOK, TypeCron, Thread
      <3>2. ASSUME synced, NEW i \in 1 .. count PROVE LateBy(i, lag - 1)
        BY <3>1, <3>2 DEF Punctual
      <3>3. ASSUME synced, NEW i \in 1 .. count PROVE LateBy(i, 0)
        BY <2>t, <3>2, <3>3, LateMore DEF TypeOK
      <3>4. ASSUME synced, NEW i \in 1 .. count PROVE LateBy(i, 0)'
        BY <3>1, <3>3, <3>4, LateSame
      <3> QED BY <3>1, <3>4 DEF Punctual
    <2>2. CASE t # "cron"
      <3>1. /\ UNCHANGED <<slots, count, now, since, synced, lag, ci, cpc>> /\ tpc' # "count"
        BY <1>17, <2>2 DEF SaveWriteFails, AfterSave, clockVars, table
      <3> QED BY <3>1 DEF Punctual, LateBy
    <2> QED BY <2>1, <2>2
  <1>18. ASSUME NEW j \in Jobs, ToolCheck(j) PROVE Punctual'
    <2>1. UNCHANGED <<slots, count, now, since, synced, lag, ci>>
      BY <1>18 DEF ToolCheck, clockVars, table, saveVars, cronVars, toolVars
    <2>2. /\ cpc' = cpc \/ (cpc = "scan" /\ cpc' = "mark")
          /\ tpc' = "count" => tpc = "count"
      BY <1>18 DEF ToolCheck, clockVars, table, saveVars, cronVars, toolVars
    <2> QED BY <2>1, <2>2 DEF Punctual, LateBy
  <1>19. ASSUME NEW j \in Jobs, RemoveShift(j) PROVE Punctual'
    <2>1. /\ UNCHANGED <<count, now, since, synced, lag, cpc>> /\ tpc' = "uncount"
          /\ raced' = (raced \/ CronInside)
      BY <1>19 DEF RemoveShift, clockVars, cronVars
    <2>2. cpc = "sleep"
      BY <1>19, <2>1 DEF CronInside
    <2>3. \A k \in 1 .. count : \E m \in 1 .. count : slots'[k] = slots[m]
      BY <1>19, RemovedFrom
    <2> QED BY <2>1, <2>2, <2>3 DEF Punctual, LateBy
  <1>20. CASE AddFull
    <2>1. UNCHANGED <<slots, count, now, since, synced, lag, ci>>
      BY <1>20 DEF AddFull, clockVars, table, saveVars, cronVars, toolVars
    <2>2. /\ cpc' = cpc \/ (cpc = "scan" /\ cpc' = "mark")
          /\ tpc' = "count" => tpc = "count"
      BY <1>20 DEF AddFull, clockVars, table, saveVars, cronVars, toolVars
    <2> QED BY <2>1, <2>2 DEF Punctual, LateBy
  <1>21. CASE AddSlot
    <2>1. /\ UNCHANGED <<now, since, synced, lag, cpc>> /\ raced' = (raced \/ CronInside)
      BY <1>21 DEF AddSlot, clockVars, cronVars
    <2>2. cpc = "sleep"
      BY <1>21, <2>1 DEF CronInside
    <2>3. /\ count' = count /\ \A k \in 1 .. count : slots'[k] = slots[k]
          /\ slots'[count + 1] = NewRec(tid, Clock) /\ tid \in Jobs
      BY <1>21, AddedStays, AddedIs
    <2>4. ASSUME synced PROVE LateBy(count + 1, lag)'
      <3>1. /\ slots'[count + 1].id = tid /\ Clock = now /\ now \in Int /\ lag \in 0 .. 1
            /\ slots'[count + 1].enabled /\ Def[tid].kind = "at" => Def[tid].at > now
        BY <2>3, <2>4, AddedRec, ClockType, TimeAssumption DEF TypeOK, TypeClock
      <3>2. Def[tid].at \in Int
        BY <2>3, DefAssumption
      <3> QED BY <2>1, <2>3, <3>1, <3>2 DEF LateBy
    <2>5. ASSUME synced PROVE \A i \in 1 .. count : LateBy(i, lag)'
      BY <2>1, <2>2, <2>3, <2>5 DEF Punctual, LateBy
    <2> QED BY <2>1, <2>2, <2>3, <2>4, <2>5 DEF Punctual, LateBy
  <1>22. CASE AddCount
    <2>1. /\ UNCHANGED <<slots, now, since, synced, lag, cpc>> /\ tpc = "count"
          /\ tpc' = "added" /\ count' = count + 1
      BY <1>22 DEF AddCount, clockVars, cronVars
    <2>2. cpc = "sleep"
      BY <2>1 DEF OneInside, CronInside, ToolInside
    <2>3. \A k \in 1 .. count + 1 : k \in 1 .. count \/ k = count + 1
      BY DEF OneInside, TypeOK, TypeTable
    <2> QED BY <2>1, <2>2, <2>3 DEF Punctual, LateBy
  <1>23. CASE ToolVerify
    <2>1. UNCHANGED <<slots, count, now, since, synced, lag, ci>>
      BY <1>23 DEF ToolVerify, clockVars, table, saveVars, cronVars, toolVars
    <2>2. /\ cpc' = cpc \/ (cpc = "scan" /\ cpc' = "mark")
          /\ tpc' = "count" => tpc = "count"
      BY <1>23 DEF ToolVerify, clockVars, table, saveVars, cronVars, toolVars
    <2> QED BY <2>1, <2>2 DEF Punctual, LateBy
  <1>24. CASE RemoveCount
    <2>1. /\ UNCHANGED <<slots, now, since, synced, lag, cpc>> /\ tpc = "uncount"
          /\ tpc' = "deleted" /\ count' = count - 1
      BY <1>24 DEF RemoveCount, clockVars, cronVars
    <2>2. cpc = "sleep"
      BY <2>1 DEF OneInside, CronInside, ToolInside
    <2>3. \A k \in 1 .. count - 1 : k \in 1 .. count
      BY DEF OneInside, TypeOK, TypeTable
    <2> QED BY <2>1, <2>2, <2>3 DEF Punctual, LateBy
  <1>25. CASE UNCHANGED vars
    BY <1>25 DEF Punctual, LateBy, clockVars, table, saveVars, cronVars, toolVars, vars
  <1>26. CASE Drop
    <2>1. UNCHANGED <<ci, now, since, synced, lag, tpc>>
      BY <1>26 DEF Drop, clockVars, toolVars
    <2>2. cpc = "drop" /\ cpc' = "scan" /\ count' = count - 1 /\ slots' = slots /\ count \in Int
      BY <1>26, DroppedIs
    <2>3. tpc' # "count"
      BY <2>1, <2>2 DEF OneInside, CronInside, ToolInside
    <2>4. ASSUME synced, NEW i \in 1 .. count - 1
          PROVE  LateBy(i, IF i < ci THEN lag - 1 ELSE lag + 1)'
      <3>1. LateBy(i, IF i < ci THEN lag - 1 ELSE lag + 1)
        BY <2>2, <2>4 DEF Punctual
      <3> QED BY <2>1, <2>2, <3>1 DEF LateBy
    <2> QED BY <2>1, <2>2, <2>3, <2>4 DEF Punctual
  <1>27. CASE AddOutside
    <2>1. UNCHANGED <<slots, count, now, since, synced, lag, ci>>
      BY <1>27 DEF AddOutside, clockVars, table, saveVars, cronVars, toolVars
    <2>2. /\ cpc' = cpc \/ (cpc = "scan" /\ cpc' = "mark")
          /\ tpc' = "count" => tpc = "count"
      BY <1>27 DEF AddOutside, clockVars, table, saveVars, cronVars, toolVars
    <2> QED BY <2>1, <2>2 DEF Punctual, LateBy
  <1>28. ASSUME NEW t \in Thread, SaveBuildGaps(t) PROVE Punctual'
    <2>1. UNCHANGED <<slots, count, now, since, synced, lag, ci>>
      BY <1>28 DEF SaveBuildGaps, TypeOK, TypeCron, Thread, clockVars, table, saveVars, cronVars, toolVars
    <2>2. /\ cpc' = cpc \/ (cpc = "scan" /\ cpc' = "mark")
          /\ tpc' = "count" => tpc = "count"
      BY <1>28 DEF SaveBuildGaps, TypeOK, TypeCron, Thread, clockVars, table, saveVars, cronVars, toolVars
    <2> QED BY <2>1, <2>2 DEF Punctual, LateBy
  <1> QED BY <1>1, <1>2, <1>3, <1>4, <1>5, <1>6, <1>7, <1>8, <1>9, <1>10, <1>11, <1>12, <1>13, <1>14, <1>15, <1>16, <1>17, <1>18, <1>19, <1>20, <1>21, <1>22, <1>23, <1>24, <1>25, <1>26, <1>27, <1>28, Cases

\* What comes due under a known clock is not overdue.
LEMMA OnTimeStep ==
  ASSUME TypeOK, OneInside, MarkIsOfPushedJob, Punctual, OnTimeIsNotOverdue, ~raced, ~raced', [Next]_vars
  PROVE  OnTimeIsNotOverdue'
  <1>1. CASE Tick
    <2>1. cpc' = "mark" /\ cwhat' = "overdue" =>
             cpc = "mark" /\ cwhat = "overdue" /\ UNCHANGED <<cjob, since>>
      BY <1>1 DEF Tick, clockVars, cronVars
    <2> QED BY <2>1 DEF OnTimeIsNotOverdue
  <1>2. CASE Sync
    <2>1. cpc' = "mark" /\ cwhat' = "overdue" =>
             cpc = "mark" /\ cwhat = "overdue" /\ UNCHANGED <<cjob, since>>
      BY <1>2 DEF Sync, clockVars, cronVars, OneInside, CronInside
    <2> QED BY <2>1 DEF OnTimeIsNotOverdue
  <1>3. CASE Restart
    <2>1. cpc' = "mark" /\ cwhat' = "overdue" =>
             cpc = "mark" /\ cwhat = "overdue" /\ UNCHANGED <<cjob, since>>
      BY <1>3 DEF Restart, clockVars, cronVars
    <2> QED BY <2>1 DEF OnTimeIsNotOverdue
  <1>4. CASE CronWake
    <2>1. cpc' = "mark" /\ cwhat' = "overdue" =>
             cpc = "mark" /\ cwhat = "overdue" /\ UNCHANGED <<cjob, since>>
      BY <1>4 DEF CronWake, clockVars, cronVars
    <2> QED BY <2>1 DEF OnTimeIsNotOverdue
  <1>5. CASE CronSkip
    <2>1. cpc' = "mark" /\ cwhat' = "overdue" =>
             cpc = "mark" /\ cwhat = "overdue" /\ UNCHANGED <<cjob, since>>
      BY <1>5 DEF CronSkip, Looking, clockVars, cronVars
    <2> QED BY <2>1 DEF OnTimeIsNotOverdue
  <1>6. CASE CronNotice
    <2>1. ci \in 1 .. count /\ ci \in 1 .. MaxJobs /\ slots[ci] \in Rec
      BY <1>6, MaxJobsAssumption DEF CronNotice, Looking, TypeOK, TypeCron, TypeTable
    <2>2. /\ cpc = "scan" /\ cjob' = slots[ci].id /\ since' = since
          /\ slots[ci].enabled /\ Def[slots[ci].id].kind = "at"
          /\ Clock - Def[slots[ci].id].at > 2
      BY <1>6, OverdueAssumption DEF CronNotice, Looking, Due, Missed, clockVars
    <2>3. synced /\ Clock = now /\ now \in Int /\ lag \in 0 .. 1 /\ since \in Int
      BY <2>2, ClockType, TimeAssumption DEF OneInside, CronInside, TypeOK, TypeClock
    <2>4. LateBy(ci, lag + 1)
      <3>1. ~(ci < ci)
        BY <2>1
      <3> QED BY <2>1, <2>2, <2>3, <3>1 DEF Punctual
    <2>5. Def[slots[ci].id].at \in Int
      BY <2>1, DefAssumption DEF Rec
    <2>6. Def[slots[ci].id].at < since
      BY <2>2, <2>3, <2>4, <2>5 DEF LateBy
    <2> QED BY <2>2, <2>6 DEF OnTimeIsNotOverdue
  <1>7. CASE CronRemind
    <2>1. cpc' = "mark" /\ cwhat' = "overdue" =>
             cpc = "mark" /\ cwhat = "overdue" /\ UNCHANGED <<cjob, since>>
      BY <1>7 DEF CronRemind, Looking, clockVars, cronVars
    <2> QED BY <2>1 DEF OnTimeIsNotOverdue
  <1>8. CASE MarkOverdue
    <2>1. cpc' = "mark" /\ cwhat' = "overdue" =>
             cpc = "mark" /\ cwhat = "overdue" /\ UNCHANGED <<cjob, since>>
      BY <1>8 DEF MarkOverdue, Marked, clockVars, cronVars
    <2> QED BY <2>1 DEF OnTimeIsNotOverdue
  <1>9. CASE MarkDeleted
    <2>1. cpc' = "mark" /\ cwhat' = "overdue" =>
             cpc = "mark" /\ cwhat = "overdue" /\ UNCHANGED <<cjob, since>>
      BY <1>9 DEF MarkDeleted, Marked, clockVars, cronVars
    <2> QED BY <2>1 DEF OnTimeIsNotOverdue
  <1>10. CASE MarkDisabled
    <2>1. cpc' = "mark" /\ cwhat' = "overdue" =>
             cpc = "mark" /\ cwhat = "overdue" /\ UNCHANGED <<cjob, since>>
      BY <1>10 DEF MarkDisabled, Marked, clockVars, cronVars
    <2> QED BY <2>1 DEF OnTimeIsNotOverdue
  <1>11. CASE MarkAgain
    <2>1. cpc' = "mark" /\ cwhat' = "overdue" =>
             cpc = "mark" /\ cwhat = "overdue" /\ UNCHANGED <<cjob, since>>
      BY <1>11 DEF MarkAgain, Marked, clockVars, cronVars
    <2> QED BY <2>1 DEF OnTimeIsNotOverdue
  <1>12. CASE CronEnd
    <2>1. cpc' = "mark" /\ cwhat' = "overdue" =>
             cpc = "mark" /\ cwhat = "overdue" /\ UNCHANGED <<cjob, since>>
      BY <1>12 DEF CronEnd, clockVars, cronVars
    <2> QED BY <2>1 DEF OnTimeIsNotOverdue
  <1>13. ASSUME NEW t \in Thread, SaveBuild(t) PROVE OnTimeIsNotOverdue'
    <2>1. cpc' = "mark" /\ cwhat' = "overdue" =>
             cpc = "mark" /\ cwhat = "overdue" /\ UNCHANGED <<cjob, since>>
      BY <1>13 DEF SaveBuild, TypeOK, TypeCron, Thread, clockVars, cronVars
    <2> QED BY <2>1 DEF OnTimeIsNotOverdue
  <1>14. ASSUME NEW t \in Thread, SaveOpen(t) PROVE OnTimeIsNotOverdue'
    <2>1. cpc' = "mark" /\ cwhat' = "overdue" =>
             cpc = "mark" /\ cwhat = "overdue" /\ UNCHANGED <<cjob, since>>
      BY <1>14 DEF SaveOpen, TypeOK, TypeCron, Thread, clockVars, cronVars
    <2> QED BY <2>1 DEF OnTimeIsNotOverdue
  <1>15. ASSUME NEW t \in Thread, SaveOpenFails(t) PROVE OnTimeIsNotOverdue'
    <2>1. cpc' = "mark" /\ cwhat' = "overdue" =>
             cpc = "mark" /\ cwhat = "overdue" /\ UNCHANGED <<cjob, since>>
      BY <1>15 DEF SaveOpenFails, AfterSave, TypeOK, TypeCron, Thread, clockVars, cronVars
    <2> QED BY <2>1 DEF OnTimeIsNotOverdue
  <1>16. ASSUME NEW t \in Thread, SaveWrite(t) PROVE OnTimeIsNotOverdue'
    <2>1. cpc' = "mark" /\ cwhat' = "overdue" =>
             cpc = "mark" /\ cwhat = "overdue" /\ UNCHANGED <<cjob, since>>
      BY <1>16 DEF SaveWrite, AfterSave, TypeOK, TypeCron, Thread, clockVars, cronVars
    <2> QED BY <2>1 DEF OnTimeIsNotOverdue
  <1>17. ASSUME NEW t \in Thread, SaveWriteFails(t) PROVE OnTimeIsNotOverdue'
    <2>1. cpc' = "mark" /\ cwhat' = "overdue" =>
             cpc = "mark" /\ cwhat = "overdue" /\ UNCHANGED <<cjob, since>>
      BY <1>17 DEF SaveWriteFails, AfterSave, TypeOK, TypeCron, Thread, clockVars, cronVars
    <2> QED BY <2>1 DEF OnTimeIsNotOverdue
  <1>18. ASSUME NEW j \in Jobs, ToolCheck(j) PROVE OnTimeIsNotOverdue'
    <2>1. cpc' = "mark" /\ cwhat' = "overdue" =>
             cpc = "mark" /\ cwhat = "overdue" /\ UNCHANGED <<cjob, since>>
      BY <1>18 DEF ToolCheck, clockVars, cronVars
    <2> QED BY <2>1 DEF OnTimeIsNotOverdue
  <1>19. ASSUME NEW j \in Jobs, RemoveShift(j) PROVE OnTimeIsNotOverdue'
    <2>1. cpc' = "mark" /\ cwhat' = "overdue" =>
             cpc = "mark" /\ cwhat = "overdue" /\ UNCHANGED <<cjob, since>>
      BY <1>19 DEF RemoveShift, clockVars, cronVars
    <2> QED BY <2>1 DEF OnTimeIsNotOverdue
  <1>20. CASE AddFull
    <2>1. cpc' = "mark" /\ cwhat' = "overdue" =>
             cpc = "mark" /\ cwhat = "overdue" /\ UNCHANGED <<cjob, since>>
      BY <1>20 DEF AddFull, clockVars, cronVars
    <2> QED BY <2>1 DEF OnTimeIsNotOverdue
  <1>21. CASE AddSlot
    <2>1. cpc' = "mark" /\ cwhat' = "overdue" =>
             cpc = "mark" /\ cwhat = "overdue" /\ UNCHANGED <<cjob, since>>
      BY <1>21 DEF AddSlot, clockVars, cronVars
    <2> QED BY <2>1 DEF OnTimeIsNotOverdue
  <1>22. CASE AddCount
    <2>1. cpc' = "mark" /\ cwhat' = "overdue" =>
             cpc = "mark" /\ cwhat = "overdue" /\ UNCHANGED <<cjob, since>>
      BY <1>22 DEF AddCount, clockVars, cronVars
    <2> QED BY <2>1 DEF OnTimeIsNotOverdue
  <1>23. CASE ToolVerify
    <2>1. cpc' = "mark" /\ cwhat' = "overdue" =>
             cpc = "mark" /\ cwhat = "overdue" /\ UNCHANGED <<cjob, since>>
      BY <1>23 DEF ToolVerify, clockVars, cronVars
    <2> QED BY <2>1 DEF OnTimeIsNotOverdue
  <1>24. CASE RemoveCount
    <2>1. cpc' = "mark" /\ cwhat' = "overdue" =>
             cpc = "mark" /\ cwhat = "overdue" /\ UNCHANGED <<cjob, since>>
      BY <1>24 DEF RemoveCount, clockVars, cronVars
    <2> QED BY <2>1 DEF OnTimeIsNotOverdue
  <1>25. CASE UNCHANGED vars
    BY <1>25 DEF OnTimeIsNotOverdue, clockVars, table, saveVars, cronVars, toolVars, vars
  <1>26. CASE Drop
    <2>1. cpc' = "mark" /\ cwhat' = "overdue" =>
             cpc = "mark" /\ cwhat = "overdue" /\ UNCHANGED <<cjob, since>>
      BY <1>26 DEF Drop, Marked, clockVars, cronVars
    <2> QED BY <2>1 DEF OnTimeIsNotOverdue
  <1>27. CASE AddOutside
    <2>1. cpc' = "mark" /\ cwhat' = "overdue" =>
             cpc = "mark" /\ cwhat = "overdue" /\ UNCHANGED <<cjob, since>>
      BY <1>27 DEF AddOutside, clockVars, cronVars
    <2> QED BY <2>1 DEF OnTimeIsNotOverdue
  <1>28. ASSUME NEW t \in Thread, SaveBuildGaps(t) PROVE OnTimeIsNotOverdue'
    <2>1. cpc' = "mark" /\ cwhat' = "overdue" =>
             cpc = "mark" /\ cwhat = "overdue" /\ UNCHANGED <<cjob, since>>
      BY <1>28 DEF SaveBuildGaps, TypeOK, TypeCron, Thread, clockVars, cronVars
    <2> QED BY <2>1 DEF OnTimeIsNotOverdue
  <1> QED BY <1>1, <1>2, <1>3, <1>4, <1>5, <1>6, <1>7, <1>8, <1>9, <1>10, <1>11, <1>12, <1>13, <1>14, <1>15, <1>16, <1>17, <1>18, <1>19, <1>20, <1>21, <1>22, <1>23, <1>24, <1>25, <1>26, <1>27, <1>28, Cases

\* An accepted job stays accounted for.
LEMMA KeptLiveStep ==
  ASSUME TypeOK, OneInside, OneInside', IdsUnique, MarkedIsFired, MarkIsOfPushedJob,
         KeptLive, ~raced, ~raced', [Next]_vars
  PROVE  KeptLive'
  <1>1. CASE Restart
    <2>1. accepted' = {} /\ cpc' = "sleep"
      BY <1>1 DEF Restart
    <2> QED BY <2>1 DEF KeptLive
  <1>2. CASE MarkOverdue \/ MarkDisabled \/ MarkAgain
    <2>1. cpc = "mark" /\ cpc' = "scan" /\ UNCHANGED <<count, tpc, accepted, removed, fired>>
      BY <1>2 DEF MarkOverdue, MarkDisabled, MarkAgain, Marked, Reminded, toolVars
    <2>2. \A k \in 1 .. MaxJobs : slots'[k].id = slots[k].id
      BY <1>2, MarkedIs
    <2>3. Live = count /\ Live' = count
      BY <2>1, ByItsId DEF Live
    <2>4. \A k \in 1 .. count : slots'[k].id = slots[k].id
      BY <2>1, <2>2, ByItsId
    <2> QED BY <2>1, <2>3, <2>4 DEF KeptLive
  <1>3. CASE MarkDeleted
    <2>1. slots[ci].id \in fired /\ UNCHANGED <<accepted, removed, fired>>
      <3>1. Def[cjob].kind = "at" /\ slots[ci].id = cjob
        BY <1>3, DeletedIs DEF MarkDeleted
      <3> QED BY <1>3, <3>1 DEF MarkDeleted, Reminded, MarkedIsFired, toolVars
    <2>2. /\ Live = count /\ Live' = count - 1 /\ count \in Nat /\ ci \in 1 .. count
          /\ \A k \in 1 .. count - 1 : slots'[k] = IF k < ci THEN slots[k] ELSE slots[k + 1]
      BY <1>3, DeletedIs, MaxJobsAssumption
    <2>3. \A m \in 1 .. count : m # ci => \E k \in 1 .. count - 1 : slots'[k] = slots[m]
      BY <2>2, Without
    <2>4. count' = count /\ slots'[count].id = slots[count].id /\ count \in 1 .. count
      BY <1>3, DeletedIs, MaxJobsAssumption
    <2>5. slots'[count].id \in fired \cup {slots'[k].id : k \in 1 .. count - 1}
      BY <2>1, <2>3, <2>4
    <2> QED BY <2>1, <2>2, <2>3, <2>4, <2>5 DEF KeptLive
  <1>4. ASSUME NEW j \in Jobs, RemoveShift(j) PROVE KeptLive'
    <2>1. /\ tpc = "idle" /\ tpc' = "uncount" /\ cpc # "drop" /\ count' = count
          /\ UNCHANGED <<accepted, fired, cpc>> /\ removed' = removed \cup {j}
      BY <1>4 DEF RemoveShift, cronVars, OneInside, CronInside, ToolInside
    <2>2. Live = count /\ Live' = count - 1
      BY <2>1 DEF Live
    <2>3. PICK r \in 1 .. count :
             /\ slots[r].id = j
             /\ \A k \in 1 .. count - 1 : slots'[k] = IF k < r THEN slots[k] ELSE slots[k + 1]
      BY <1>4, RemovedIs
    <2>4. count \in Nat
      BY <1>4, RemovedIs, MaxJobsAssumption
    <2>5. \A m \in 1 .. count : m # r => \E k \in 1 .. count - 1 : slots'[k] = slots[m]
      BY <2>3, <2>4, Without
    <2> QED BY <2>1, <2>2, <2>3, <2>5 DEF KeptLive
  <1>5. CASE AddSlot
    <2>1. /\ tpc = "check" /\ tpc' = "count" /\ cpc # "drop" /\ UNCHANGED <<cpc, count>>
          /\ UNCHANGED <<accepted, fired, removed>>
      BY <1>5 DEF AddSlot, cronVars, OneInside, CronInside, ToolInside
    <2>2. Live = count /\ Live' = count
      BY <2>1 DEF Live
    <2> QED BY <1>5, <2>1, <2>2, AddedStays DEF KeptLive
  <1>6. CASE AddCount
    <2>1. /\ tpc = "count" /\ tpc' = "added" /\ cpc # "drop" /\ count' = count + 1 /\ cpc' = cpc
          /\ UNCHANGED <<slots, accepted, fired, removed>>
      BY <1>6 DEF AddCount, cronVars, OneInside, CronInside, ToolInside
    <2>2. Live = count /\ Live' = count + 1
      BY <2>1 DEF Live
    <2>3. \A k \in 1 .. count : k \in 1 .. count + 1
      BY DEF TypeOK, TypeTable
    <2> QED BY <2>1, <2>2, <2>3 DEF KeptLive
  <1>7. CASE slots' = slots /\ Live' = Live /\ ToolVerify
    <2>1. /\ tpc = "verify" /\ UNCHANGED <<fired, removed, count, cpc>> /\ tpc' = "idle"
          /\ accepted' \subseteq accepted \cup Ids
      BY <1>7 DEF ToolVerify, table, cronVars
    <2>2. \/ Live = count
          \/ cpc = "drop" /\ Live = count - 1
      BY <2>1, LiveIs
    <2>3. \A k \in 1 .. count : k \in 1 .. count - 1 \/ k = count
      BY DEF TypeOK, TypeTable
    <2>4. Ids \subseteq {slots[i].id : i \in 1 .. Live} \cup fired
      BY <2>2, <2>3 DEF Ids, KeptLive
    <2> QED BY <1>7, <2>1, <2>4 DEF KeptLive
  <1>8. CASE /\ slots' = slots /\ Live' = Live /\ accepted' = accepted
             /\ removed' = removed /\ fired \subseteq fired'
             /\ (cpc' = "drop" => cpc = "drop" /\ count' = count)
    BY <1>8 DEF KeptLive
  <1> QED BY <1>1, <1>2, <1>3, <1>4, <1>5, <1>6, <1>7, <1>8, LiveSame

LEMMA CronInvInit == Init => CronInv
  <1> SUFFICES ASSUME Init PROVE CronInv OBVIOUS
  <1>1. TypeOK
    BY TypeInit
  <1>2. count = 0 /\ file = <<>> /\ Len(file) = 0 /\ cpc = "sleep" /\ tpc = "idle"
        /\ snap = [t \in Thread |-> <<>>] /\ stage = [t \in Thread |-> "none"]
        /\ slots = [i \in 1 .. MaxJobs |-> NoRec]
        /\ known = {} /\ fired = {} /\ accepted = {} /\ removed = {}
    BY DEF Init
  <1>3. \A t \in Thread : Len(snap[t]) = 0 /\ stage[t] = "none"
    BY <1>2
  <1>4. 1 .. count = {} /\ 1 .. Len(file) = {} /\ Live = 0
    BY <1>2 DEF Live
  <1>5. AllTimed
    BY <1>2, <1>3, <1>4 DEF AllTimed, Timed, NoRec
  <1>6. Table = file
    <2>1. Table \in Seq(Rec) /\ Len(Table) = 0
      BY <1>1, <1>2, TableIsSeq DEF TypeOK
    <2> QED BY <1>2, <2>1
  <1>7. OneInside /\ IdsUnique
    BY <1>2, <1>4 DEF OneInside, IdsUnique, CronInside, ToolInside, Outside
  <1>a. SavedIds
    BY <1>3 DEF SavedIds
  <1>8. MarkedIsFired /\ SaveIsTable /\ Punctual /\ KeptLive
    BY <1>2, <1>3, <1>4, <1>6 DEF MarkedIsFired, SaveIsTable, Punctual, KeptLive, Reminded
  <1>9. FiredIsSpent /\ MarkIsOfPushedJob /\ OnTimeIsNotOverdue /\ SavedWhenQuiet
    BY <1>2, <1>4, <1>6 DEF FiredIsSpent, MarkIsOfPushedJob, OnTimeIsNotOverdue, SavedWhenQuiet
  <1> QED BY <1>1, <1>5, <1>7, <1>a, <1>8, <1>9 DEF CronInv

\* The invariant is inductive.  A step by which the threads meet needs no
\* argument, as every part but the types is about states before that.
LEMMA CronInvStep == CronInv /\ [Next]_vars => CronInv'
  <1> SUFFICES ASSUME CronInv, [Next]_vars PROVE CronInv' OBVIOUS
  <1>1. TypeOK /\ AllTimed
    BY DEF CronInv
  <1>2. TypeOK' /\ AllTimed'
    BY <1>1, TypeStep, TimedStep
  <1>3. CASE raced'
    BY <1>2, <1>3
       DEF CronInv, FiredIsSpent, MarkIsOfPushedJob, OnTimeIsNotOverdue, SavedWhenQuiet
  <1>4. CASE ~raced'
    <2>1. ~raced
      BY <1>1, <1>4, RacedStays
    <2>2. /\ OneInside /\ IdsUnique /\ SavedIds /\ MarkedIsFired /\ SaveIsTable
          /\ Punctual /\ KeptLive
          /\ FiredIsSpent /\ MarkIsOfPushedJob /\ OnTimeIsNotOverdue /\ SavedWhenQuiet
      BY <2>1 DEF CronInv
    <2>3. OneInside' /\ MarkedIsFired' /\ SaveIsTable'
      BY <1>1, <1>4, <2>1, <2>2, OneInsideStep, MarkedStep, SaveIsTableStep
    <2>4. IdsUnique' /\ SavedIds' /\ KeptLive' /\ Punctual'
      BY <1>1, <1>4, <2>1, <2>2, <2>3, IdsUniqueStep, SavedIdsStep, KeptLiveStep,
         PunctualStep
    <2>5. FiredIsSpent' /\ MarkIsOfPushedJob'
      BY <1>1, <1>4, <2>1, <2>2, <2>3, FiredIsSpentStep, MarkIsOfPushedJobStep
    <2>6. OnTimeIsNotOverdue' /\ SavedWhenQuiet'
      BY <1>1, <1>4, <2>1, <2>2, OnTimeStep, SavedWhenQuietStep
    <2> QED BY <1>2, <2>3, <2>4, <2>5, <2>6 DEF CronInv
  <1> QED BY <1>3, <1>4

\* The strengthened invariant: the threads apart until they meet, the table,
\* the file and the histories consistent as long as they have not.
THEOREM CronInvariant == Spec => []CronInv
  <1>1. Init => CronInv BY CronInvInit
  <1>2. CronInv /\ [Next]_vars => CronInv' BY CronInvStep
  <1> QED BY <1>1, <1>2, PTL DEF Spec

\* cron_add_job writes in front of s_jobs only if the two threads have met: as
\* long as they have not, the count is never negative.
THEOREM WritesInside == Spec => [](~raced => ~Outside /\ count >= 0)
  <1>1. CronInv => (~raced => ~Outside /\ count >= 0) BY DEF CronInv, OneInside
  <1> QED BY <1>1, CronInvariant, PTL

\* A one-shot job reminds at most once between two starts, and once over all
\* of them but for a mark that a stop or a failed save keeps from the file.
THEOREM FiredOnce == Spec => []FiredIsSpent
  <1>1. CronInv => FiredIsSpent BY DEF CronInv
  <1> QED BY <1>1, CronInvariant, PTL

\* The entry that is marked is that of the job reminded of.
THEOREM MarksItsJob == Spec => []MarkIsOfPushedJob
  <1>1. CronInv => MarkIsOfPushedJob BY DEF CronInv
  <1> QED BY <1>1, CronInvariant, PTL

\* A job that comes due while the device is up and knows the time is not
\* reported as overdue, however many jobs there are.
THEOREM OnTime == Spec => []OnTimeIsNotOverdue
  <1>1. CronInv => OnTimeIsNotOverdue BY DEF CronInv
  <1> QED BY <1>1, CronInvariant, PTL

\* Between two calls the file holds the table, unless the last save failed or
\* left an entry out, or the last start did not take the file over.
THEOREM Saved == Spec => []SavedWhenQuiet
  <1>1. CronInv => SavedWhenQuiet BY DEF CronInv
  <1> QED BY <1>1, CronInvariant, PTL

\* An accepted job is in the table until it has reminded or is removed.
THEOREM Kept == Spec => []AcceptedIsKept
  <1>1. CronInv => AcceptedIsKept
    <2> SUFFICES ASSUME CronInv, ~raced PROVE \A j \in accepted : j \in Ids \cup fired \cup removed
      BY DEF AcceptedIsKept
    <2>1. \A i \in 1 .. Live : i \in 1 .. count
      BY DEF CronInv, OneInside, Live, TypeOK, TypeTable
    <2> QED BY <2>1 DEF CronInv, KeptLive, Ids
  <1> QED BY <1>1, CronInvariant, PTL

-----------------------------------------------------------------------------
\* What a restart finds.

\* As long as nothing is saved, the file has the jobs it had.
LEMMA FileKept ==
  ASSUME FileHasJobs, file' = file, accepted' \subseteq accepted,
         fired \subseteq fired', removed \subseteq removed', broken => broken',
         \A t \in Thread : stage[t] = "write" => stage'[t] = "write",
         tpc' = "added" \/ (tpc # "added" /\ Ids' \subseteq Ids)
  PROVE  FileHasJobs'
  BY DEF FileHasJobs, FileIds

\* The steps that leave the table and the file alone.
LEMMA FileQuiet ==
  ASSUME TypeOK, FileHasJobs,
         \/ Tick \/ Sync \/ CronWake \/ CronSkip \/ CronNotice \/ CronRemind \/ CronEnd
         \/ AddFull \/ AddOutside \/ UNCHANGED vars
         \/ (\E t \in Thread : SaveBuild(t) \/ SaveBuildGaps(t))
         \/ (\E j \in Jobs : ToolCheck(j))
  PROVE  FileHasJobs'
  <1> USE DEF clockVars, table, saveVars, cronVars, toolVars
  <1>1. CASE \/ Tick \/ Sync \/ CronWake \/ CronSkip \/ CronNotice \/ CronRemind
             \/ AddFull \/ AddOutside \/ UNCHANGED vars \/ (\E j \in Jobs : ToolCheck(j))
    <2>1. /\ UNCHANGED <<file, stage, broken, accepted, removed, table>>
          /\ fired \subseteq fired' /\ (tpc' = "added" <=> tpc = "added")
      BY <1>1 DEF Tick, Sync, CronWake, CronSkip, CronNotice, CronRemind, Looking, AddFull,
                  AddOutside, ToolCheck, vars
    <2>2. Ids' = Ids
      BY <2>1, TableSame
    <2> QED BY <2>1, <2>2, FileKept
  <1>2. CASE CronEnd \/ \E t \in Thread : SaveBuild(t) \/ SaveBuildGaps(t)
    <2>1. /\ UNCHANGED <<file, broken, accepted, removed, fired, table, tpc>>
          /\ \A t \in Thread : stage[t] = "write" => stage'[t] = "write"
      BY <1>2 DEF CronEnd, SaveBuild, SaveBuildGaps, TypeOK, TypeSave, TypeCron, Thread
    <2>2. Ids' = Ids
      BY <2>1, TableSame
    <2> QED BY <2>1, <2>2, FileKept
  <1> QED BY <1>1, <1>2

\* A mark adds no job, and neither does a removal.
LEMMA FewerIds ==
  ASSUME TypeOK, OneInside, MarkIsOfPushedJob, ~raced,
         \/ MarkOverdue \/ MarkDeleted \/ Drop \/ MarkDisabled \/ MarkAgain \/ RemoveCount
         \/ (\E j \in Jobs : RemoveShift(j))
  PROVE  Ids' \subseteq Ids
  <1>1. CASE MarkOverdue \/ MarkDisabled \/ MarkAgain
    <2>1. count' = count /\ \A k \in 1 .. MaxJobs : slots'[k].id = slots[k].id
      BY <1>1, MarkedIs
    <2>2. \A k \in 1 .. count : k \in 1 .. MaxJobs
      BY MaxJobsAssumption DEF TypeOK, TypeTable
    <2> QED BY <2>1, <2>2 DEF Ids
  <1>2. CASE MarkDeleted
    <2>1. /\ count' = count /\ count \in 1 .. MaxJobs
          /\ \A k \in 1 .. count - 1 : \E m \in 1 .. count : slots'[k] = slots[m]
          /\ slots'[count].id = slots[count].id
      BY <1>2, DeletedIs
    <2>2. \A k \in 1 .. count : k = count \/ k \in 1 .. count - 1
      BY <2>1, MaxJobsAssumption
    <2>3. \A k \in 1 .. count : \E m \in 1 .. count : slots'[k].id = slots[m].id
      <3> TAKE k \in 1 .. count
      <3>1. CASE k = count
        BY <2>1, <3>1
      <3>2. CASE k \in 1 .. count - 1
        BY <2>1, <3>2
      <3> QED BY <2>2, <3>1, <3>2
    <2> QED BY <2>1, <2>3 DEF Ids
  <1>3. CASE \E j \in Jobs : RemoveShift(j)
    <2>1. count' = count /\ \A k \in 1 .. count : \E m \in 1 .. count : slots'[k] = slots[m]
      BY <1>3, RemovedIs, RemovedFrom
    <2> QED BY <2>1 DEF Ids
  <1>4. CASE RemoveCount \/ Drop
    <2>1. count' = count - 1 /\ slots' = slots
      BY <1>4 DEF RemoveCount, Drop
    <2>2. \A k \in 1 .. count - 1 : k \in 1 .. count
      BY DEF TypeOK, TypeTable
    <2> QED BY <2>1, <2>2 DEF Ids
  <1> QED BY <1>1, <1>2, <1>3, <1>4

\* The file keeps the jobs that were accepted.
LEMMA FileHasJobsStep ==
  ASSUME CronInv, FileHasJobs, ~raced, [Next]_vars
  PROVE  FileHasJobs'
  <1>0. TypeOK /\ AllTimed /\ OneInside /\ SaveIsTable /\ KeptLive /\ MarkIsOfPushedJob
    BY DEF CronInv
  <1>1. CASE \/ Tick \/ Sync \/ CronWake \/ CronSkip \/ CronNotice \/ CronRemind \/ CronEnd
             \/ AddFull \/ AddOutside \/ UNCHANGED vars
             \/ (\E t \in Thread : SaveBuild(t) \/ SaveBuildGaps(t))
             \/ (\E j \in Jobs : ToolCheck(j))
    BY <1>0, <1>1, FileQuiet
  <1>2. CASE MarkOverdue \/ MarkDeleted \/ Drop \/ MarkDisabled \/ MarkAgain
    <2>1. UNCHANGED <<file, stage, broken, accepted, removed, fired, tpc>>
          /\ cpc \in {"mark", "drop"}
      BY <1>2 DEF MarkOverdue, MarkDeleted, Drop, MarkDisabled, MarkAgain, Reminded, saveVars, toolVars
    <2>2. tpc # "added"
      BY <1>0, <2>1 DEF OneInside, CronInside, ToolInside
    <2> QED BY <1>0, <1>2, <2>1, <2>2, FewerIds, FileKept
  <1>3. CASE \E j \in Jobs : RemoveShift(j)
    <2>1. /\ UNCHANGED <<file, stage, broken, accepted, fired>> /\ removed \subseteq removed'
          /\ tpc = "idle"
      BY <1>3 DEF RemoveShift, saveVars
    <2> QED BY <1>0, <1>3, <2>1, FewerIds, FileKept
  <1>4. CASE RemoveCount
    <2>1. /\ UNCHANGED <<file, broken, accepted, removed, fired>> /\ tpc = "uncount"
          /\ \A t \in Thread : stage[t] = "write" => stage'[t] = "write"
      BY <1>0, <1>4 DEF RemoveCount, TypeOK, TypeSave, TypeTool, Thread
    <2> QED BY <1>0, <1>4, <2>1, FewerIds, FileKept
  <1>5. CASE AddSlot
    <2>1. /\ UNCHANGED <<file, stage, broken, accepted, removed, fired>>
          /\ tpc = "check" /\ tpc' = "count"
      BY <1>5 DEF AddSlot, saveVars
    <2>2. Ids' = Ids
      BY <1>0, <1>5, AddedStays DEF Ids
    <2> QED BY <2>1, <2>2, FileKept
  <1>6. CASE AddCount
    <2>1. /\ UNCHANGED <<file, broken, accepted, removed, fired>> /\ tpc' = "added"
          /\ \A t \in Thread : stage[t] = "write" => stage'[t] = "write"
      BY <1>0, <1>6 DEF AddCount, TypeOK, TypeSave, TypeTool, Thread
    <2> QED BY <2>1, FileKept
  <1>7. CASE ToolVerify
    <2>1. /\ UNCHANGED <<file, stage, broken, removed, fired, table>>
          /\ tpc = "verify" /\ tpc' = "idle" /\ accepted' \subseteq accepted \cup Ids
      BY <1>7 DEF ToolVerify, saveVars
    <2>2. Ids' = Ids
      BY <2>1, TableSame
    <2> QED BY <2>1, <2>2 DEF FileHasJobs, FileIds
  <1>8. ASSUME NEW t \in Thread, SaveOpen(t) PROVE FileHasJobs'
    <2>1. stage'[t] = "write"
      BY <1>0, <1>8 DEF SaveOpen, TypeOK, TypeSave
    <2> QED BY <2>1 DEF FileHasJobs
  <1>9. ASSUME NEW t \in Thread, SaveOpenFails(t) \/ SaveWriteFails(t) PROVE FileHasJobs'
    <2>1. broken'
      BY <1>9 DEF SaveOpenFails, SaveWriteFails
    <2> QED BY <2>1 DEF FileHasJobs
  <1>10. ASSUME NEW t \in Thread, SaveWrite(t) PROVE FileHasJobs'
    <2> SUFFICES ASSUME ~broken' PROVE FileHasJobs'
      BY DEF FileHasJobs
    <2>1. file' = Table /\ UNCHANGED <<table, accepted, removed, fired>>
      BY <1>0, <1>10 DEF SaveWrite, AfterSave, SaveIsTable
    <2>2. Ids' = Ids /\ FileIds' = {Table[i].id : i \in 1 .. Len(Table)}
      BY <2>1, TableSame DEF FileIds
    <2>3. FileIds' = Ids
      BY <1>0, <2>2, TableIsSeq DEF TypeOK, Ids, OneInside
    <2>4. Live = count
      <3>1. tpc # "uncount" /\ cpc # "drop"
        BY <1>0, <1>10
           DEF SaveWrite, Thread, TypeOK, TypeCron, TypeTool, OneInside, CronInside, ToolInside
      <3> QED BY <1>0, <3>1, LiveIs
    <2>5. accepted \subseteq Ids \cup fired \cup removed
      BY <1>0, <2>4 DEF KeptLive, Ids
    <2> QED BY <2>1, <2>2, <2>3, <2>5 DEF FileHasJobs
  <1>11. CASE Restart
    <2>1. accepted' = {} /\ file' = file
      BY <1>11 DEF Restart
    <2>2. Ids' \subseteq FileIds'
      BY <1>0, <1>11, <2>1, LoadedIs DEF Ids, FileIds
    <2> QED BY <2>1, <2>2 DEF FileHasJobs
  <1> QED BY <1>1, <1>2, <1>3, <1>4, <1>5, <1>6, <1>7, <1>8, <1>9, <1>10, <1>11, Cases

\* What the file holds, as long as the threads have not met.
THEOREM FileInvariant == Spec => []FileInv
  <1>1. Init => FileInv
    <2> SUFFICES ASSUME Init PROVE FileHasJobs
      BY DEF FileInv
    <2>1. count = 0 /\ accepted = {} /\ 1 .. count = {}
      BY DEF Init
    <2> QED BY <2>1 DEF FileHasJobs, Ids
  <1>2. CronInv /\ FileInv /\ [Next]_vars => FileInv'
    <2> SUFFICES ASSUME CronInv, FileInv, [Next]_vars, ~raced' PROVE FileHasJobs'
      BY DEF FileInv
    <2>1. ~raced
      BY RacedStays DEF CronInv
    <2> QED BY <2>1, FileHasJobsStep DEF FileInv
  <1> QED BY <1>1, <1>2, CronInvariant, PTL DEF Spec

\* cron_save_jobs, its callers and cron_load_jobs: as long as every save is
\* whole, a job the tool answered OK for survives a restart that takes over the
\* file, at any point but the one at which the file is empty.
THEOREM Survives == Spec => AcceptedSurvives
  <1>1. CronInv /\ FileInv /\ [Next]_vars =>
          (~raced /\ ~broken /\ boots' # boots /\ ~broken'
           /\ (\A t \in Thread : stage[t] # "write") =>
              accepted \subseteq Ids' \cup fired \cup removed)
    <2> SUFFICES ASSUME CronInv, FileInv, [Next]_vars, ~raced, ~broken, boots' # boots,
                        ~broken', \A t \in Thread : stage[t] # "write"
                 PROVE  accepted \subseteq Ids' \cup fired \cup removed
      OBVIOUS
    <2>1. Restart
      <3>1. \/ Tick \/ Sync \/ CronWake \/ CronSkip \/ CronNotice \/ CronRemind \/ CronEnd
            \/ MarkOverdue \/ MarkDeleted \/ Drop \/ MarkDisabled \/ MarkAgain
            \/ UNCHANGED vars
            => boots' = boots
        BY DEF Tick, Sync, CronWake, CronSkip, CronNotice, CronRemind, CronEnd, MarkOverdue,
               MarkDeleted, Drop, MarkDisabled, MarkAgain, clockVars, vars
      <3>2. (\E t \in Thread : SaveBuild(t) \/ SaveBuildGaps(t) \/ SaveOpen(t) \/ SaveOpenFails(t)
                               \/ SaveWrite(t) \/ SaveWriteFails(t)) => boots' = boots
        BY DEF SaveBuild, SaveBuildGaps, SaveOpen, SaveOpenFails, SaveWrite, SaveWriteFails,
               AfterSave, clockVars
      <3>3. (\E j \in Jobs : ToolCheck(j) \/ RemoveShift(j))
            \/ AddFull \/ AddSlot \/ AddOutside \/ AddCount \/ ToolVerify \/ RemoveCount
            => boots' = boots
        BY DEF ToolCheck, RemoveShift, AddFull, AddSlot, AddOutside, AddCount, ToolVerify, RemoveCount,
               clockVars
      <3> QED BY <3>1, <3>2, <3>3, Cases
    <2>2. accepted \subseteq FileIds \cup fired \cup removed
      BY DEF FileInv, FileHasJobs
    <2>3. FileIds \subseteq Ids'
      BY <2>1, LoadedIs DEF CronInv, Ids, FileIds
    <2> QED BY <2>2, <2>3
  <1> QED BY <1>1, CronInvariant, FileInvariant, PTL DEF Spec, AcceptedSurvives
=============================================================================
