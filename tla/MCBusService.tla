----------------------------- MODULE MCBusService -----------------------------
(***************************************************************************)
(* BusService for TLC: two or three listeners, two of which share a name,  *)
(* and the scenarios the runs put them in.                                 *)
(***************************************************************************)
EXTENDS BusService

CONSTANTS l1, l2, l3, name1, name2

TwoShareAName == [l \in Listeners |-> IF l = l3 THEN name2 ELSE name1]

Plain(registered, slots, events) ==
    [once |-> {}, held |-> {}, immediate |-> {}, parallel |-> {}, dropping |-> {},
     fromOff |-> {}, debounced |-> {}, throttled |-> {}, registered |-> registered, calls |-> {}, slots |-> slots,
     events |-> events, dbFails |-> FALSE]

\* A hold on the change from off, and one that starts on registration.
Holding == [Plain({l1, l3}, 1, 3) EXCEPT !.held = {l1, l3}, !.fromOff = {l1}, !.immediate = {l3}]

\* A once-hold replaced by another of its name, one of them parallel.
Replacing == [Plain({l1, l2}, 1, 2) EXCEPT !.held = {l1, l2}, !.once = {l1}, !.immediate = {l1, l2},
                                        !.parallel = {l2}, !.calls = {"replace", "cancel"}]

\* A once-handler and one that drops events, with one slot.
Once == [Plain({l1, l3}, 1, 3) EXCEPT !.once = {l1}, !.dropping = {l3}, !.parallel = {l3},
                                   !.immediate = {l1}, !.calls = {"cancel"}]

\* The app stops while registrations are under way and may fail.
Stopping == [Plain({l1, l2}, 2, 1) EXCEPT !.once = {l1}, !.held = {l2}, !.immediate = {l2},
                                       !.calls = {"replace", "stop"}, !.dbFails = TRUE]

\* A debounced parallel listener, cancelled or replaced by one that is single.
Debouncing == [Plain({l1, l2}, 1, 3) EXCEPT !.debounced = {l1, l2}, !.parallel = {l1},
                                             !.calls = {"replace", "cancel"}]

\* A throttled listener next to a debounced one that fires at once.
Throttling == [Plain({l1, l3}, 2, 3) EXCEPT !.throttled = {l1}, !.debounced = {l3},
                                         !.parallel = {l3}, !.immediate = {l3}]

Everything == {Holding, Replacing, Once, Stopping, Debouncing, Throttling}
OnceOnly == {[Once EXCEPT !.immediate = {}, !.calls = {}, !.registered = {l1}, !.slots = 2]}
=============================================================================
