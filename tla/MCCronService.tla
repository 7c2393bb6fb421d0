---------------------------- MODULE MCCronService ----------------------------
(* Instances of CronService for TLC.                                         *)
EXTENDS CronService

CONSTANTS once, keep, every

\* A one-shot job that is deleted, one that is disabled, and a recurring one.
MCDef == [j \in Jobs |->
    [kind |-> IF j = every THEN "every" ELSE "at",
     at |-> MinEpoch + 1,
     interval |-> 2,
     once |-> j = once]]

\* The text of two jobs that stay is longer than CRON_FILE_MAX.
MCFitting == {js \in SUBSET Jobs : ~({keep, every} \subseteq js)}

\* Bound of a run: behaviours are followed up to the first race.
Serialised == ~raced

\* Bound of the run with a restart: nothing is added after it.
OnceFilled == Serialised /\ (boots > 0 => tpc \notin {"check", "count", "added", "verify"})
=============================================================================
