------------------------- MODULE SupervisorInvariant -------------------------
(***************************************************************************)
(* The inductive invariant of the Supervisor: what holds between any two   *)
(* of its steps and makes Bootable and ImplementsPromise true.             *)
(***************************************************************************)
EXTENDS Supervisor

(* The retained binary is only given up for an active one. *)
Runnable == \A c \in Component : Present(active[c]) \/ Present(prev[c])

(* There is a current request exactly during an activation, and it has no    *)
(* outcome yet: only the drain writes one, and only after the activation.    *)
JobOK ==
    /\ pc \in JobPc => cur \in Key /\ results[cur] = NoResult
    /\ pc \notin JobPc => cur = NoKey /\ verdict = NoResult

(* How far the activation has got is also what its verdict may be. *)
VerdictOK ==
    /\ pc \in StagePc \cup {"writeJournal", "movePrev", "place", "gate", "rollback"} =>
           verdict = NoResult
    /\ pc = "putBack" => verdict = "Invalid"
    /\ pc = "unjournal" => verdict \in {NoResult, "Invalid"}
    /\ pc \in {"restartAnyharness", "restartWorker"} => verdict \in {NoResult, "RolledBack"}
    /\ pc = "record" => verdict \in Outcome

SwapOK ==
    /\ pc \in {"writeJournal", "movePrev", "place", "putBack"} => cur \in staged
    /\ pc \in {"movePrev", "place", "putBack", "unjournal"} => journal = cur
    /\ pc \in {"place", "putBack"} => ~Present(active[cur.component])

(* From the second rename until the verdict the requested version is active. *)
SwappedIn ==
    \/ pc \in {"unjournal", "restartAnyharness", "restartWorker", "gate", "rollback"}
       /\ verdict = NoResult
    \/ pc = "record" /\ verdict = "Activated"

SwappedInOK == SwappedIn => active[cur.component] = cur.version

(* The journal of a swap cut in two does not outlive the return to service:  *)
(* while the drain runs, or a journal is about to be overwritten or removed, *)
(* no swap is interrupted, and an interrupted one has no outcome.            *)
InService ==
    pc \in {"supervise", "clearJournal", "writeJournal"} \cup DrainPc \cup StagePc \cup FinishPc

AnyharnessDone ==
    \/ pc = "spawnWorker"
    \/ pc \in {"reconcile", "clearJournal", "restorePrev"} /\ fixing = "worker"

(* The recovery of a failed spawn knows which component it is for. *)
FixingOK == pc = "restorePrev" => fixing \in Component

JournalOK ==
    /\ InService => ~Interrupted
    /\ AnyharnessDone => ~(Interrupted /\ journal.component = "anyharness")
    /\ Interrupted => results[journal] = NoResult

(* JournalOK needs the journal to be removed when the code says so. *)
IInv ==
    /\ TypeOK
    /\ Runnable
    /\ JobOK
    /\ VerdictOK
    /\ SwapOK
    /\ SwappedInOK
    /\ FixingOK
    /\ ~UnlinkFails => JournalOK
=============================================================================
