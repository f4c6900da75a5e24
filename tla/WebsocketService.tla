--------------------------- MODULE WebsocketService ---------------------------
(***************************************************************************)
(* core/websocket_service.py: the connection to Home Assistant as serve()  *)
(* keeps it, its receive task, and the generation numbers it hands out.    *)
(* Home Assistant is the other end of the wire.  StateProxy, whose         *)
(* observers serve() awaits, completes the steps that notify them.         *)
(*                                                                         *)
(* An action is the code of one asyncio task between two suspensions.      *)
(***************************************************************************)
EXTENDS Integers, Sequences

CONSTANTS
    Entities,   \* entity ids of Home Assistant
    Environments,   \* what may happen, see Environment
    None

\* What may happen in a behaviour: how many connections become ready, how
\* often entities change, how many requests fail on a live connection, whether
\* the poll job is on, and whether the bus may fall so far behind that events
\* outlast their connection.
Environment == [gens : Nat, changes : Nat, fails : Nat, polling : BOOLEAN, backlog : BOOLEAN]

ASSUME WebsocketAssumption == Environments \subseteq Environment /\ None \notin Nat

VARIABLES
    env,        \* the behaviour's environment
    conn,       \* _connection_state
    gen,        \* get_connected_generation(): None unless externally ready
    seq,        \* generations handed out so far
    pc,         \* where serve() is suspended
    recv,       \* the receive task: "none", "running", "dead"
    acked,      \* the subscription's response future is resolved
    signal,     \* _connected_signal_active
    ha,         \* Home Assistant: last_updated of each entity, None if absent
    clock,      \* state changes so far
    subscribed, \* Home Assistant sends events on this connection
    wire,       \* frames sent and not yet received, in order
    bus         \* stamped events on their way to on_state_change()

hass   == <<env, ha, clock>>
link   == <<recv, acked, subscribed, wire>>
wsvars == <<conn, gen, seq, pc, link, signal, hass, bus>>

Versions == 1 .. env.changes
Gens     == 1 .. env.gens

WsInit ==
    /\ env \in Environments
    /\ conn = "DISCONNECTED" /\ gen = None /\ seq = 0
    /\ pc = "stopped"
    /\ recv = "none" /\ acked = FALSE /\ subscribed = FALSE /\ wire = <<>>
    /\ signal = FALSE
    /\ ha = [e \in Entities |-> None] /\ clock = 0
    /\ bus = <<>>

----------------------------------------------------------------------------
\* Mutant: the generation outlives its connection.
Lose_KeepsGen(new) == conn' = new /\ gen' = gen

\* set_connection_state() to a state other than CONNECTED.
Lose(new) == conn' = new /\ gen' = None

\* partial_cleanup(): the receive task is cancelled, the socket closed.
Cleanup == recv' = "none" /\ acked' = FALSE /\ subscribed' = FALSE /\ wire' = <<>>

\* serve() starts, the first time or restarted by ServiceWatcher.
ServeStarts ==
    /\ pc = "stopped"
    /\ pc' = "connecting"
    /\ Lose("CONNECTING")
    /\ UNCHANGED <<seq, link, signal, hass, bus>>

\* connect_ws() authenticated; the receive task is spawned.
Opened ==
    /\ pc = "connecting"
    /\ env.backlog \/ bus = <<>>
    /\ pc' = "subscribing"
    /\ recv' = "running" /\ acked' = FALSE /\ subscribed' = FALSE /\ wire' = <<>>
    /\ UNCHANGED <<conn, gen, seq, signal, hass, bus>>

\* An attempt failed.  make_connection() retries in place; once its attempts
\* are used up serve() fails, which is never an early drop: _connected_at is
\* None.
AttemptFails ==
    /\ \/ pc = "connecting"
       \/ pc = "subscribing" /\ ~acked
    /\ Cleanup
    /\ \/ pc' = "connecting" /\ UNCHANGED <<conn, gen>>
       \/ pc' = "stopped" /\ Lose("DISCONNECTED")
    /\ UNCHANGED <<seq, signal, hass, bus>>

\* authenticate() raised InvalidAuthError, which is not retried.
AuthFails ==
    /\ pc = "connecting"
    /\ pc' = "refused"
    /\ Lose("DISCONNECTED")
    /\ UNCHANGED <<seq, link, signal, hass, bus>>

\* start_recv_and_subscribe() after its subscription: the connection is
\* externally ready, and the readiness event is sent.
Subscribed ==
    /\ pc = "subscribing" /\ acked
    /\ seq < env.gens
    /\ seq' = seq + 1
    /\ conn' = "CONNECTED" /\ gen' = seq + 1
    /\ pc' = "announcing"
    /\ UNCHANGED <<link, signal, hass, bus>>

\* The receive task ends with an exception and _handle_recv_task_done() runs.
\* A resolved subscription has resumed serve() by then.
RecvDies ==
    /\ recv = "running" /\ ~(pc = "subscribing" /\ acked)
    /\ recv' = "dead"
    /\ Lose("DISCONNECTED")
    /\ subscribed' = FALSE /\ wire' = <<>>
    /\ UNCHANGED <<seq, pc, acked, signal, hass, bus>>

\* dispatch_hass_event() stamps a state change with the generation that is
\* ready at that moment.
RecvEvent ==
    /\ recv = "running" /\ wire # <<>> /\ Head(wire).kind = "event"
    /\ bus' = Append(bus, [entity |-> Head(wire).entity, state |-> Head(wire).state, gen |-> gen])
    /\ wire' = Tail(wire)
    /\ UNCHANGED <<conn, gen, seq, pc, recv, acked, subscribed, signal, hass>>

\* respond_if_necessary() resolves the subscription.
RecvAck ==
    /\ recv = "running" /\ wire # <<>> /\ Head(wire).kind = "ack"
    /\ acked' = TRUE
    /\ wire' = Tail(wire)
    /\ UNCHANGED <<conn, gen, seq, pc, recv, subscribed, signal, hass, bus>>

----------------------------------------------------------------------------
(* Home Assistant *)

Subscribes ==
    /\ pc = "subscribing" /\ recv = "running" /\ ~subscribed
    /\ subscribed' = TRUE
    /\ wire' = Append(wire, [kind |-> "ack"])
    /\ UNCHANGED <<conn, gen, seq, pc, recv, acked, signal, hass, bus>>

\* An entity gets a new state or is removed.
Changes(e, gone) ==
    /\ clock < env.changes
    /\ gone => ha[e] # None
    /\ clock' = clock + 1
    /\ ha' = [ha EXCEPT ![e] = IF gone THEN None ELSE clock + 1]
    /\ wire' = IF subscribed THEN Append(wire, [kind |-> "event", entity |-> e, state |-> ha'[e]])
                             ELSE wire
    /\ UNCHANGED <<env, conn, gen, seq, pc, recv, acked, subscribed, signal, bus>>

\* Every step but AttemptFails, which also ends the requests of others.
WsNext ==
    \/ ServeStarts \/ Opened \/ AuthFails \/ Subscribed
    \/ RecvDies \/ RecvEvent \/ RecvAck
    \/ Subscribes \/ \E e \in Entities, gone \in BOOLEAN : Changes(e, gone)
=============================================================================
