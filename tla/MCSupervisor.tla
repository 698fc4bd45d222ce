---------------------------- MODULE MCSupervisor ----------------------------
(* Instances of SupervisorHistory for TLC: which requests the Worker writes. *)
EXTENDS SupervisorHistory, SupervisorInvariant

(* AnyHarness, the component with a restart order, back and forth.           *)
AnyharnessRequests == [component : {"anyharness"}, version : Version]

(* Releases that only move on. *)
NewAnyharnessRequests ==
    [component : {"anyharness"}, version : Version \ {InitVersion}]

(* One upgrade of each component: they share the journal, the drain and the  *)
(* restart of the Worker.                                                    *)
UpgradeRequests == [component : Component, version : Version \ {InitVersion}]
=============================================================================
