-------------------------- MODULE SupervisorHistory --------------------------
(***************************************************************************)
(* Supervisor with two history variables, for the properties that speak of *)
(* what happened earlier.  The Supervisor's steps never read them.         *)
(***************************************************************************)
EXTENDS Supervisor

VARIABLES
    gated,        \* gated[c]: the versions provisioned, or that passed a health gate
    misread       \* the active binary could not be read when cur was checked

hvars == <<vars, gated, misread>>

HistoryInit ==
    /\ Init
    /\ gated = [c \in Component |-> {InitVersion}]
    /\ misread = FALSE

HistoryNext ==
    /\ Next
    /\ gated' = IF GatePasses
                  THEN [gated EXCEPT ![cur.component] = @ \cup {cur.version}]
                  ELSE gated
    /\ misread' = IF pc = "check" THEN CheckUnreadable ELSE misread

HistorySpec == HistoryInit /\ [][HistoryNext]_hvars

(* Events, seen in a step. *)
Recorded(k, outcome) == results[k] # outcome /\ results'[k] = outcome

-----------------------------------------------------------------------------
(* An Activated result stands for a version that passed the gate (this time  *)
(* or before), is on disk and was the one AnyHarness, or the Worker, was     *)
(* last started from by the activation.                                      *)
ActivatedIsGated ==
    [][\A k \in Key : Recorded(k, "Activated") =>
         /\ k.version \in gated[k.component]
         /\ active[k.component] = k.version]_hvars

(* activate/mod.rs:309-311: after a rollback "last-good is serving": the     *)
(* restored version is one that passed a gate before.                        *)
RolledBackServesLastGood ==
    [][\A k \in Key : Recorded(k, "RolledBack") =>
         active[k.component] \in gated[k.component]]_hvars

(* activate/mod.rs:145-151: the swap must never push the requested artifact  *)
(* itself into .prev, which would destroy the version to roll back to; the   *)
(* fast path of a request that a crash interrupted is there to prevent it.   *)
(* It does, unless the active binary could not be read (CheckUnreadable).    *)
SwapRetainsAnother ==
    [][\A c \in Component :
         /\ prev'[c] \notin {prev[c], NoVersion}
         /\ ~misread
         => prev'[c] # cur.version]_hvars
=============================================================================
