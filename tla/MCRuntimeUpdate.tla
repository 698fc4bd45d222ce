-------------------------- MODULE MCRuntimeUpdate --------------------------
(* Instances of RuntimeUpdate for TLC: which pins the server sets.           *)
EXTENDS RuntimeInvariant

(* The AnyHarness pin moves freely. *)
AnyharnessRequests == [component : {"anyharness"}, version : Version]

MixedRequests ==
    {k \in Key : k.component = "anyharness" \/ k.version # InitVersion}

(* Releases that only move on. *)
NewAnyharnessRequests ==
    [component : {"anyharness"}, version : Version \ {InitVersion}]
=============================================================================
