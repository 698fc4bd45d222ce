---------------------------- MODULE UpdateTypes ----------------------------
(* The vocabulary of the update protocol between Worker and Supervisor. *)

CONSTANTS
    Version,      \* artifact versions; a version stands for its bytes, and so its sha256
    NoVersion     \* "no such file" / "no such process"

ASSUME NoVersionAssumption == NoVersion \notin Version

Component == {"anyharness", "worker"}

(* A request id is a function of component and version. *)
Key == [component : Component, version : Version]

NoKey == [component |-> "none", version |-> NoVersion]

Outcome == {"Activated", "RolledBack", "Invalid"}

NoResult == "none"
=============================================================================
