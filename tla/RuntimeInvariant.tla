-------------------------- MODULE RuntimeInvariant --------------------------
(***************************************************************************)
(* The inductive invariant of the convergence loop: what the Worker's      *)
(* memory has to do with the mailbox, the pins and the binaries while both *)
(* processes run, so that every step of the real Worker is one that the    *)
(* Supervisor's module allows its free Worker.                             *)
(***************************************************************************)
EXTENDS RuntimeUpdate, SupervisorInvariant

(* Everything the Supervisor, its files and the mailbox know stems from the  *)
(* keys K: there is no other artifact, request or result, and no component   *)
(* runs or retains a version that is neither provisioned nor one of K's.     *)
Known(K, c) == {NoVersion, InitVersion} \cup {k.version : k \in {j \in K : j.component = c}}

Confined(K) ==
    /\ requests \cup scan.keys \cup staged \subseteq K
    /\ {journal, cur} \subseteq K \cup {NoKey}
    /\ \A k \in Key : HasResult(k) => k \in K
    /\ \A c \in Component : {active[c], prev[c], child[c]} \subseteq Known(K, c)

(* A version the server pins, or has told the Worker of, is the provisioned  *)
(* one or was requested of it.                                               *)
Pinnable(c, v) == v = InitVersion \/ [component |-> c, version |-> v] \in Requested

PinsOK == \A c \in Component : Pinnable(c, pin[c])

(* From the heartbeat's answer on the Worker knows a version per component.  *)
DesiredOK ==
    IF wpc = "idle"
      THEN desired = NoPins
      ELSE /\ desired \in [Component -> Version]
           /\ \A c \in Component : Pinnable(c, desired[c])

(* While the pin of c has not moved, and while the Worker does not know that *)
(* it has, c is as provisioned: nobody has asked for another version.        *)
OthersKeys(c) == {k \in Requested : k.component # c}

Untouched(c) ==
    /\ Confined(OthersKeys(c))
    /\ c = "anyharness" => store = NoVersion

OncePinned(c) == [component |-> c, version |-> InitVersion] \in Requested

UntouchedOK ==
    \A c \in Component : ~OncePinned(c) =>
        /\ pin[c] = InitVersion => desired[c] \in {NoVersion, InitVersion}
        /\ InitVersion \in {pin[c], desired[c]} => Untouched(c)

(* What the Worker is about to write or to collect it may still write or     *)
(* collect (mailbox.rs: reconcile_converged_result reads the result, then    *)
(* removes the pair; write_update_request looks for a result, then resolves  *)
(* the artifact, then writes): the Supervisor, which runs on, does not       *)
(* invalidate the check the Worker made before.                              *)
ChecksStillHold ==
    /\ wpc = "emit" => Wanted \in Requested
    /\ wpc \in {"gcRequest", "gcResult"} => results[Wanted] = "Activated"

(* The inductive invariant. *)
RTInv ==
    /\ RTTypeOK
    /\ IInv
    /\ Confined(Requested)
    /\ PinsOK
    /\ DesiredOK
    /\ UntouchedOK
    /\ ChecksStillHold
=============================================================================
