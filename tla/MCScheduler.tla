----------------------------- MODULE MCScheduler -----------------------------
(***************************************************************************)
(* SchedulerService for TLC: four jobs, three of which share a name, and   *)
(* the scenarios the runs put them in.                                     *)
(***************************************************************************)
EXTENDS SchedulerService

CONSTANTS a, b, c, d, row1, row2

ThreeShareARow == [j \in Jobs |-> IF j = a THEN row1 ELSE row2]

All(kind) == [j \in Jobs |-> kind]

Plain(jobs, kind, removals, until) ==
    [jobs |-> jobs, kind |-> kind, removals |-> removals, events |-> 0,
     lag |-> FALSE, dbFails |-> FALSE, until |-> until]

\* One entity-driven job whose entity changes twice at any time.
EntityChanges == [Plain({a}, All("entity"), {}, 2) EXCEPT !.events = 2, !.lag = TRUE]

OnceAndRecurring == [All("recurring") EXCEPT ![b] = "once"]

\* A job replaced by another of its name; a job removed and registered anew.
Replacing == Plain({b, c}, OnceAndRecurring, {"replace"}, 2)
Removing == Plain({b, c}, OnceAndRecurring, {"remove"}, 1)

\* A name taken while one job is replaced by another of it.
Contesting == Plain({b, c, d}, All("manual"), {"replace"}, 0)

\* All jobs removed while one is registered again under its name.
RemovingAll == Plain({a, b, c}, All("manual"), {"all"}, 0)

\* Every write may raise.
Failing == [Plain({b, c}, All("entity"), {"replace"}, 1) EXCEPT !.events = 1, !.dbFails = TRUE]

Everything == {EntityChanges, Replacing, Contesting, Removing, RemovingAll, Failing}
=============================================================================
