---------------------------- MODULE MCStateProxy ----------------------------
(***************************************************************************)
(* StateProxy for TLC: one entity, two synchronization tasks, two retry    *)
(* tasks, and the environments the runs put them in.                       *)
(***************************************************************************)
EXTENDS StateProxy

CONSTANTS x, s1, s2, r1, r2

Calm == [gens |-> 1, changes |-> 3, fails |-> 0, polling |-> TRUE, backlog |-> FALSE]

\* A second connection, with and without the poll.
Reconnecting == [Calm EXCEPT !.gens = 2, !.changes = 1]

\* Requests that fail, where only a retry or only the poll recovers.
Failing == [Calm EXCEPT !.changes = 1, !.fails = 2]

Lagging == [Calm EXCEPT !.gens = 2, !.changes = 2, !.polling = FALSE, !.backlog = TRUE]

WithoutPoll(env0) == [env0 EXCEPT !.polling = FALSE]

Everything == {Calm, Reconnecting, [WithoutPoll(Reconnecting) EXCEPT !.fails = 1], Failing, WithoutPoll(Failing)}
BacklogOnly == {Lagging}
=============================================================================
