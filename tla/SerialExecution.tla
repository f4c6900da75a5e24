--------------------------- MODULE SerialExecution ---------------------------
(***************************************************************************)
(* What a non-parallel execution-mode guard promises its triggers, without *)
(* locks, futures or done-callbacks: at most one invocation at a time, a   *)
(* trigger is refused or queued only while an invocation runs, and each    *)
(* trigger meets exactly one end.                                          *)
(***************************************************************************)
CONSTANT Triggers

VARIABLE status

Statuses == {"new", "waiting", "running", "over", "refused", "failed", "discarded"}

With(s) == {t \in Triggers : status[t] = s}

Busy == With("running") # {}

Init == status = [t \in Triggers |-> "new"]

\* A trigger finds the guard idle and its invocation starts.
Begin(t) ==
    /\ status[t] = "new"
    /\ ~Busy
    /\ status' = [status EXCEPT ![t] = "running"]

\* A trigger finds the guard busy: its overlap mode queues or refuses it.
Overlap(t) ==
    /\ status[t] = "new"
    /\ Busy
    /\ \E s \in {"waiting", "refused"} : status' = [status EXCEPT ![t] = s]

\* The invocation could not be spawned.
Fail(t) ==
    /\ status[t] = "new"
    /\ ~Busy
    /\ status' = [status EXCEPT ![t] = "failed"]

End(t) ==
    /\ status[t] = "running"
    /\ status' = [status EXCEPT ![t] = "over"]

\* The queue moves on: some waiting triggers fail to spawn, then at most one
\* starts.
Drain ==
    /\ ~Busy
    /\ \E F \in SUBSET With("waiting") :
       \/ status' = [t \in Triggers |-> IF t \in F THEN "discarded" ELSE status[t]]
       \/ \E u \in With("waiting") \ F :
            status' = [t \in Triggers |-> IF t = u THEN "running"
                                          ELSE IF t \in F THEN "discarded"
                                          ELSE status[t]]

\* The listener or job is removed: nothing that waits will ever run.
Discard ==
    status' = [t \in Triggers |-> IF status[t] = "waiting" THEN "discarded" ELSE status[t]]

Next ==
    \/ \E t \in Triggers : Begin(t) \/ Overlap(t) \/ Fail(t) \/ End(t)
    \/ Drain
    \/ Discard

Spec == Init /\ [][Next]_status
=============================================================================
