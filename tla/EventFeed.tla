------------------------------ MODULE EventFeed ------------------------------
(***************************************************************************)
(* What the client's outbox is promised of the events of one session,      *)
(* whatever becomes of the streams, the reconnects and the history fetches  *)
(* that carry them: it sees every event of the log, first events first,    *)
(* and none before it was written.                                         *)
(***************************************************************************)
EXTENDS Naturals

VARIABLES
    log,    \* the number of events the runtime has written
    seen    \* the events the outbox was reconciled with

vars == <<log, seen>>

Init == log = 0 /\ seen = {}

Write == log' = log + 1 /\ UNCHANGED seen

\* The outbox sees the next events, as many as there are.
See ==
    /\ \E n \in 1..log : seen' = 1..n /\ seen \subseteq 1..n
    /\ UNCHANGED log

Next == Write \/ See

Spec == Init /\ [][Next]_vars
=============================================================================
