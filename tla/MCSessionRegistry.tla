------------------------- MODULE MCSessionRegistry -------------------------
\* Instances of the session registry for TLC.
EXTENDS SessionRegistry, TLC

CONSTANTS c1, c2

Callers == {c1, c2}
Symmetry == Permutations(Callers)

\* Every caller does everything that leaves the hand-over to the actor.
OrderlyCallers == [c \in Callers |-> Orderly]

\* One works with the session while the other one disposes of it.
WorkAndDispose == (c1 :> {"start", "inject"}) @@ (c2 :> Commands)

Unloading == [c \in Callers |-> {"start", "unload"}]
Starting == [c \in Callers |-> {"start"}]
=============================================================================
