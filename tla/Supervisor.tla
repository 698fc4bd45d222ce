----------------------------- MODULE Supervisor -----------------------------
(***************************************************************************)
(* The Supervisor process of a managed sandbox (crate                      *)
(* proliferate-supervisor): it runs AnyHarness and the Worker as children, *)
(* respawns them, and drains the update mailbox, swapping one binary per   *)
(* request behind a health gate.                                           *)
(*                                                                         *)
(* Every step below is one file-system operation, one process operation or *)
(* one network call, so that a crash of the box (Crash) can fall between   *)
(* any two of them.  The other party of the mailbox is the Worker; this    *)
(* module leaves it free (WorkerEmits, WorkerCollects...), RuntimeUpdate   *)
(* puts the real one in its place.                                         *)
(***************************************************************************)
EXTENDS UpdateMailbox, Naturals, FiniteSets

CONSTANTS
    InitVersion,  \* the version both binaries are provisioned with
    Requested,    \* the keys the Worker may ask for (bounds the mailbox)
    MaxFaults,    \* bound on crashes, child exits and failed system calls
    UnlinkFails   \* whether the removal of the journal is among those calls

ASSUME InitVersionAssumption == InitVersion \in Version
ASSUME RequestedAssumption == Requested \subseteq Key
ASSUME MaxFaultsAssumption == MaxFaults \in Nat
ASSUME UnlinkFailsAssumption == UnlinkFails \in BOOLEAN

VARIABLES
    active,       \* active[c]: the bytes at the path the component is started from
    prev,         \* prev[c]: the bytes at <active>.prev
    staged,       \* the artifacts present in staging_dir, by key
    journal,      \* the key named by activation.journal, or NoKey
    child,        \* child[c]: the bytes the running child was started from
    pc,           \* what the Supervisor does next
    fixing,       \* component whose failed spawn is being recovered, or "startup"
    scan,         \* the request files of the current drain pass, as read
    cur,          \* the request being activated, or NoKey
    verdict,      \* the outcome reached for cur so far, or NoResult
    moved,        \* activate_binary's moved_previous
    faults        \* faults still allowed to happen (bounds the environment)

disk == <<active, prev, staged, journal>>
job == <<cur, verdict, moved>>
vars == <<mailbox, disk, child, pc, fixing, scan, job, faults>>

EmptyScan == [keys |-> {}, later |-> {}, best |-> {}]

DrainPc == {"list", "read", "rank", "supersede", "pick"}
StagePc == {"check", "fetch", "stage"}
SwapPc == {"writeJournal", "movePrev", "place", "putBack", "unjournal"}
FinishPc == {"restartAnyharness", "restartWorker", "gate", "rollback", "record"}
JobPc == StagePc \cup SwapPc \cup FinishPc
SpawnPc == {"reconcile", "clearJournal", "restorePrev", "spawnAnyharness", "spawnWorker"}

TypeOK ==
    /\ MailboxTypeOK
    /\ active \in [Component -> Version \cup {NoVersion}]
    /\ prev \in [Component -> Version \cup {NoVersion}]
    /\ staged \subseteq Key
    /\ journal \in Key \cup {NoKey}
    /\ child \in [Component -> Version \cup {NoVersion}]
    /\ pc \in {"down", "supervise"} \cup DrainPc \cup JobPc \cup SpawnPc
    /\ fixing \in Component \cup {"startup"}
    /\ scan \in [keys : SUBSET Key, later : SUBSET (Key \X Key), best : SUBSET Key]
    /\ cur \in Key \cup {NoKey}
    /\ verdict \in Outcome \cup {NoResult}
    /\ moved \in BOOLEAN
    /\ faults \in 0 .. MaxFaults

Init ==
    /\ MailboxInit
    /\ active = [c \in Component |-> InitVersion]
    /\ prev = [c \in Component |-> NoVersion]
    /\ staged = {}
    /\ journal = NoKey
    /\ child = [c \in Component |-> NoVersion]
    /\ pc = "down"
    /\ fixing = "startup"
    /\ scan = EmptyScan
    /\ cur = NoKey
    /\ verdict = NoResult
    /\ moved = FALSE
    /\ faults = MaxFaults

-----------------------------------------------------------------------------
(* Helpers. *)

Present(file) == file # NoVersion

Fault ==
    /\ faults > 0
    /\ faults' = faults - 1

NoFault == UNCHANGED faults

Goto(from, to) ==
    /\ pc = from
    /\ pc' = to

(* The current request is over: the drain goes on or stops. *)
EndJob(next) ==
    /\ pc' = next
    /\ cur' = NoKey
    /\ verdict' = NoResult
    /\ moved' = FALSE

(* A terminal failure before or during the swap: record Invalid. *)
Refuse ==
    /\ pc' = "record"
    /\ verdict' = "Invalid"
    /\ UNCHANGED <<cur, moved>>

SpawnOf(c) == IF c = "anyharness" THEN "spawnAnyharness" ELSE "spawnWorker"

RestartOf(c) == IF c = "anyharness" THEN "restartAnyharness" ELSE "restartWorker"

-----------------------------------------------------------------------------
(* process/mod.rs: start, spawn, recover, supervise. *)

Start ==
    /\ Goto("down", "reconcile")
    /\ fixing' = "startup"
    /\ NoFault
    /\ UNCHANGED <<mailbox, disk, child, scan, job>>

AfterReconcile == IF fixing = "startup" THEN "spawnAnyharness" ELSE "restorePrev"

(* remove_activation_journal: a failure to remove it is ignored. *)
RemoveJournal ==
    \/ journal' = NoKey /\ NoFault
    \/ UnlinkFails /\ UNCHANGED journal /\ Fault

(* reconcile_activation_journal: complete a swap that a crash cut in two, or *)
(* reverse it when the staged artifact is gone; then the journal is cleared. *)
Interrupted == journal # NoKey /\ ~Present(active[journal.component])

Reconcile ==
    /\ pc = "reconcile"
    /\ \/ /\ journal = NoKey
          /\ pc' = AfterReconcile
          /\ UNCHANGED <<active, prev, staged>>
       \/ /\ journal # NoKey
          /\ ~Interrupted
          /\ pc' = "clearJournal"
          /\ UNCHANGED <<active, prev, staged>>
       \/ /\ Interrupted
          /\ journal \in staged
          /\ active' = [active EXCEPT ![journal.component] = journal.version]
          /\ staged' = staged \ {journal}
          /\ pc' = "clearJournal"
          /\ UNCHANGED prev
       \/ /\ Interrupted
          /\ journal \notin staged
          /\ active' = [active EXCEPT ![journal.component] = prev[journal.component]]
          /\ prev' = [prev EXCEPT ![journal.component] = NoVersion]
          /\ pc' = "clearJournal"
          /\ UNCHANGED staged
    /\ NoFault
    /\ UNCHANGED <<mailbox, journal, child, fixing, scan, job>>

(* The journal cannot be read, or the rename fails: the journal stays and the *)
(* Supervisor goes on without it.                                             *)
ReconcileFails ==
    /\ Goto("reconcile", AfterReconcile)
    /\ journal # NoKey
    /\ Fault
    /\ UNCHANGED <<mailbox, disk, child, fixing, scan, job>>

ClearJournalMutant ==    \* truncates the journal instead of removing it
    /\ Goto("clearJournal", AfterReconcile)
    /\ journal' = [journal EXCEPT !.version = NoVersion]
    /\ NoFault
    /\ UNCHANGED <<mailbox, active, prev, staged, child, fixing, scan, job>>

ClearJournal ==
    /\ Goto("clearJournal", AfterReconcile)
    /\ RemoveJournal
    /\ UNCHANGED <<mailbox, active, prev, staged, child, fixing, scan, job>>

(* recover_missing_anyharness, recover_missing_worker: if the binary is still *)
(* absent restore .prev, best effort, then retry the spawn after a back-off.  *)
RestorePrev ==
    /\ Goto("restorePrev", SpawnOf(fixing))
    /\ IF ~Present(active[fixing]) /\ Present(prev[fixing])
         THEN \/ /\ active' = [active EXCEPT ![fixing] = prev[fixing]]
                 /\ prev' = [prev EXCEPT ![fixing] = NoVersion]
                 /\ NoFault
              \/ Fault /\ UNCHANGED <<active, prev>>
         ELSE NoFault /\ UNCHANGED <<active, prev>>
    /\ UNCHANGED <<mailbox, staged, journal, child, fixing, scan, job>>

(* run: spawn AnyHarness, then the Worker, then enter supervise_generation, *)
(* which drains once before it waits.                                       *)
Spawn(c, next) ==
    /\ Goto(SpawnOf(c), next)
    /\ Present(active[c])
    /\ child' = [child EXCEPT ![c] = active[c]]
    /\ fixing' = "startup"
    /\ NoFault
    /\ UNCHANGED <<mailbox, disk, scan, job>>

SpawnAnyharness == Spawn("anyharness", "spawnWorker")

SpawnWorker == Spawn("worker", "list")

SpawnFails(c) ==
    /\ Goto(SpawnOf(c), "reconcile")
    /\ fixing' = c
    /\ IF Present(active[c]) THEN Fault ELSE NoFault
    /\ UNCHANGED <<mailbox, disk, child, scan, job>>

(* A child exit seen by wait_or_tick, or an AnyHarness exit seen while the  *)
(* Worker does not spawn: AnyHarness takes the Worker down with it, a       *)
(* Worker is respawned alone.                                               *)
AnyharnessExited ==
    /\ pc = "supervise" \/ (pc = "spawnWorker" /\ fixing = "worker")
    /\ ~Present(child["anyharness"])
    /\ fixing' = "startup"
    /\ child' = [child EXCEPT !["worker"] = NoVersion]
    /\ pc' = "spawnAnyharness"
    /\ NoFault
    /\ UNCHANGED <<mailbox, disk, scan, job>>

WorkerExitedMutant ==    \* looks at the wrong child
    /\ Goto("supervise", "spawnWorker")
    /\ ~Present(child["anyharness"])
    /\ NoFault
    /\ UNCHANGED <<mailbox, disk, child, fixing, scan, job>>

WorkerExited ==
    /\ Goto("supervise", "spawnWorker")
    /\ ~Present(child["worker"])
    /\ NoFault
    /\ UNCHANGED <<mailbox, disk, child, fixing, scan, job>>

(* The poll tick of wait_or_tick starts a drain. *)
Tick ==
    /\ Goto("supervise", "list")
    /\ NoFault
    /\ UNCHANGED <<mailbox, disk, child, fixing, scan, job>>

-----------------------------------------------------------------------------
(* request.rs: next_pending. *)

(* list_request_files. *)
ListRequests ==
    /\ Goto("list", "read")
    /\ scan' = [EmptyScan EXCEPT !.keys = requests]
    /\ NoFault
    /\ UNCHANGED <<mailbox, disk, child, fixing, job>>

(* An unreadable mailbox ends the drain. *)
ListFails ==
    /\ Goto("list", "supervise")
    /\ Fault
    /\ UNCHANGED <<mailbox, disk, child, fixing, scan, job>>

(* record_invalid for every request of S. *)
Invalidate(S) ==
    /\ results' = [k \in Key |-> IF k \in S THEN "Invalid" ELSE results[k]]
    /\ UNCHANGED <<requests, later, disk, child, fixing, job>>

ReadRequestsMutant ==    \* a file that has gone gets its Invalid result in any case
    /\ Goto("read", "rank")
    /\ scan' = [scan EXCEPT !.keys = @ \cap requests, !.later = later]
    /\ Invalidate(scan.keys \ requests)
    /\ NoFault

(* Read every listed file.  One that the Worker collected in between does    *)
(* not parse: it gets an Invalid result, keyed by its file name, unless it   *)
(* already has a result; a failure to write that one is ignored.             *)
Unreadable == {k \in scan.keys \ requests : ~HasResult(k)}

ReadRequests ==
    /\ Goto("read", "rank")
    /\ scan' = [scan EXCEPT !.keys = @ \cap requests, !.later = later]
    /\ \E S \in SUBSET Unreadable :
          /\ Invalidate(S)
          /\ IF S = Unreadable THEN NoFault ELSE Fault

PendingMutant ==    \* takes a staged artifact for one being activated
    {k \in scan.keys : ~HasResult(k) /\ k \notin staged}

(* What is asked again in each of the three passes over the requests read:   *)
(* in between the Worker may collect a result.                               *)
Pending == {k \in scan.keys : ~HasResult(k)}

NewestMutant ==    \* the oldest request wins
    {k \in Pending : ~\E j \in Pending : /\ j.component = k.component
                                          /\ <<k, j>> \in scan.later}

(* supersede_stale_same_component, first pass: the newest of each component. *)
Newest ==
    {k \in Pending : ~\E j \in Pending : /\ j.component = k.component
                                          /\ <<j, k>> \in scan.later}

RankRequests ==
    /\ Goto("rank", "supersede")
    /\ scan' = [scan EXCEPT !.later = {}, !.best = Newest]
    /\ NoFault
    /\ UNCHANGED <<mailbox, disk, child, fixing, job>>

(* Second pass: whatever is still pending and is not the newest is Invalid.  *)
Superseded ==
    {k \in Pending \ scan.best : \E j \in scan.best : j.component = k.component}

SupersedeRequests ==
    /\ Goto("supersede", "pick")
    /\ Invalidate(Superseded)
    /\ scan' = [EmptyScan EXCEPT !.keys = scan.keys]
    /\ NoFault

(* Not every superseded request gets its result: the error ends the drain. *)
SupersedeFails ==
    /\ Goto("supersede", "supervise")
    /\ \E S \in SUBSET Superseded : S # Superseded /\ Invalidate(S)
    /\ scan' = EmptyScan
    /\ Fault

(* The survivors are taken in file-name order: request-anyharness-* first; a *)
(* result collected since the second pass may leave two of one component.    *)
FirstPending ==
    LET first == {k \in Pending : k.component = "anyharness"}
    IN  IF first # {} THEN first ELSE Pending

PickRequest ==
    /\ pc = "pick"
    /\ \/ /\ FirstPending = {}
          /\ pc' = "supervise"
          /\ UNCHANGED cur
       \/ /\ cur' \in FirstPending
          /\ pc' = "check"
    /\ scan' = EmptyScan
    /\ NoFault
    /\ UNCHANGED <<mailbox, disk, child, fixing, verdict, moved>>

-----------------------------------------------------------------------------
(* activate/mod.rs, activate/journal.rs: activate_one. *)

(* active_matches: already swapped in by an attempt that a crash cut short,  *)
(* so go straight to the restart and the gate and leave .prev alone.         *)
AlreadyActive == active[cur.component] = cur.version

CheckActiveMutant ==    \* no fast path: swap the active version in again
    /\ Goto("check", "fetch")
    /\ NoFault
    /\ UNCHANGED <<mailbox, disk, child, fixing, scan, job>>

GateSkippedMutant ==    \* the fast path takes a swapped-in version for a healthy one
    /\ Goto("check", IF AlreadyActive THEN "record" ELSE "fetch")
    /\ verdict' = IF AlreadyActive THEN "Activated" ELSE verdict
    /\ NoFault
    /\ UNCHANGED <<mailbox, disk, child, fixing, scan, cur, moved>>

CheckActive ==
    /\ Goto("check", IF AlreadyActive THEN RestartOf(cur.component) ELSE "fetch")
    /\ NoFault
    /\ UNCHANGED <<mailbox, disk, child, fixing, scan, job>>

(* An active binary that cannot be read counts as another one: the version   *)
(* that is active already is staged and swapped in once more.                *)
CheckUnreadable ==
    /\ Goto("check", "fetch")
    /\ AlreadyActive
    /\ Fault
    /\ UNCHANGED <<mailbox, disk, child, fixing, scan, job>>

FetchOk ==
    /\ Goto("fetch", "stage")
    /\ NoFault
    /\ UNCHANGED <<mailbox, disk, child, fixing, scan, job>>

(* A transport failure leaves the request pending and ends the drain. *)
FetchTransient ==
    /\ pc = "fetch"
    /\ EndJob("supervise")
    /\ NoFault
    /\ UNCHANGED <<mailbox, disk, child, fixing, scan>>

FetchTerminal ==
    /\ pc = "fetch"
    /\ Refuse
    /\ NoFault
    /\ UNCHANGED <<mailbox, disk, child, fixing, scan>>

(* stage_verified: temp file, fsync, rename to <component>-<version>. *)
Stage ==
    /\ pc = "stage"
    /\ \/ /\ staged' = staged \cup {cur}
          /\ pc' = "writeJournal"
          /\ UNCHANGED job
       \/ /\ Refuse
          /\ UNCHANGED staged
    /\ NoFault
    /\ UNCHANGED <<mailbox, active, prev, journal, child, fixing, scan>>

(* activate_binary: journal, active -> .prev, staged -> active, unjournal. *)
WriteJournalMutant ==    \* swaps without a journal
    /\ Goto("writeJournal", "movePrev")
    /\ NoFault
    /\ UNCHANGED <<mailbox, disk, child, fixing, scan, job>>

WriteJournal ==
    /\ pc = "writeJournal"
    /\ \/ /\ journal' = cur
          /\ pc' = "movePrev"
          /\ NoFault
          /\ UNCHANGED job
       \/ /\ Refuse
          /\ Fault
          /\ UNCHANGED journal
    /\ UNCHANGED <<mailbox, active, prev, staged, child, fixing, scan>>

MovePrevMutant ==    \* removes the old binary instead of retaining it
    /\ pc = "movePrev"
    /\ active' = [active EXCEPT ![cur.component] = NoVersion]
    /\ moved' = Present(active[cur.component])
    /\ pc' = "place"
    /\ NoFault
    /\ UNCHANGED <<mailbox, prev, staged, journal, child, fixing, scan, cur, verdict>>

(* No binary to retain when the path is empty; a failed rename returns at    *)
(* once and leaves the journal behind.                                       *)
MovePrev ==
    /\ pc = "movePrev"
    /\ LET c == cur.component
       IN  \/ /\ Present(active[c])
              /\ prev' = [prev EXCEPT ![c] = active[c]]
              /\ active' = [active EXCEPT ![c] = NoVersion]
              /\ moved' = TRUE
              /\ pc' = "place"
              /\ NoFault
              /\ UNCHANGED <<cur, verdict>>
           \/ /\ ~Present(active[c])
              /\ moved' = FALSE
              /\ pc' = "place"
              /\ NoFault
              /\ UNCHANGED <<active, prev, cur, verdict>>
           \/ /\ Present(active[c])
              /\ Refuse
              /\ Fault
              /\ UNCHANGED <<active, prev>>
    /\ UNCHANGED <<mailbox, staged, journal, child, fixing, scan>>

Place ==
    /\ pc = "place"
    /\ \/ /\ active' = [active EXCEPT ![cur.component] = cur.version]
          /\ staged' = staged \ {cur}
          /\ pc' = "unjournal"
          /\ NoFault
          /\ UNCHANGED verdict
       \/ /\ pc' = "putBack"
          /\ verdict' = "Invalid"
          /\ Fault
          /\ UNCHANGED <<active, staged>>
    /\ UNCHANGED <<mailbox, prev, journal, child, fixing, scan, cur, moved>>

(* The error of the restoring rename is ignored. *)
PutBack ==
    /\ Goto("putBack", "unjournal")
    /\ LET c == cur.component
       IN  \/ /\ moved
              /\ active' = [active EXCEPT ![c] = prev[c]]
              /\ prev' = [prev EXCEPT ![c] = NoVersion]
              /\ NoFault
           \/ /\ moved
              /\ Fault
              /\ UNCHANGED <<active, prev>>
           \/ /\ ~moved
              /\ NoFault
              /\ UNCHANGED <<active, prev>>
    /\ UNCHANGED <<mailbox, staged, journal, child, fixing, scan, job>>

Unjournal ==
    /\ Goto("unjournal",
            IF verdict = NoResult THEN RestartOf(cur.component) ELSE "record")
    /\ RemoveJournal
    /\ UNCHANGED <<mailbox, active, prev, staged, child, fixing, scan, job>>

-----------------------------------------------------------------------------
(* activate/mod.rs: finish_activation, roll_back, run_pending's record.      *)

(* restart_in_order: kill and respawn, AnyHarness before the Worker.  With a *)
(* verdict the restart is the best-effort one after a rollback: whatever it  *)
(* returns, the verdict stands.                                              *)
AfterRestart(ok) ==
    IF verdict # NoResult THEN "record" ELSE IF ok THEN "gate" ELSE "rollback"

Restart(c, next) ==
    /\ pc = RestartOf(c)
    /\ \/ /\ Present(active[c])
          /\ child' = [child EXCEPT ![c] = active[c]]
          /\ pc' = next
          /\ NoFault
       \/ /\ child' = [child EXCEPT ![c] = NoVersion]
          /\ pc' = AfterRestart(FALSE)
          /\ IF Present(active[c]) THEN Fault ELSE NoFault
    /\ UNCHANGED <<mailbox, disk, fixing, scan, job>>

RestartAnyharness == Restart("anyharness", "restartWorker")

RestartWorker == Restart("worker", AfterRestart(TRUE))

(* health_gate: AnyHarness answers /health (on the requested version, for an *)
(* AnyHarness request), the Worker runs, and the Worker binary on disk does  *)
(* not report another version than the requested one.                        *)
CanPass ==
    /\ Present(child["anyharness"])
    /\ Present(child["worker"])
    /\ IF cur.component = "anyharness"
         THEN child["anyharness"] = cur.version
         ELSE active["worker"] = cur.version

GatePasses ==
    /\ Goto("gate", "record")
    /\ CanPass
    /\ verdict' = "Activated"
    /\ NoFault
    /\ UNCHANGED <<mailbox, disk, child, fixing, scan, cur, moved>>

GateFails ==
    /\ Goto("gate", "rollback")
    /\ NoFault
    /\ UNCHANGED <<mailbox, disk, child, fixing, scan, job>>

RollBackMutant ==    \* reports RolledBack although nothing could be restored
    /\ pc = "rollback"
    /\ LET c == cur.component
       IN  \/ /\ Present(prev[c])
              /\ active' = [active EXCEPT ![c] = prev[c]]
              /\ prev' = [prev EXCEPT ![c] = NoVersion]
              /\ pc' = RestartOf(c)
              /\ NoFault
           \/ /\ pc' = "record"
              /\ IF Present(prev[c]) THEN Fault ELSE NoFault
              /\ UNCHANGED <<active, prev>>
    /\ verdict' = "RolledBack"
    /\ UNCHANGED <<mailbox, staged, journal, child, fixing, scan, cur, moved>>

(* RollbackPlan.apply; without a .prev, or when the rename fails, the new    *)
(* binary stays active and the verdict is Invalid.                           *)
RollBack ==
    /\ pc = "rollback"
    /\ LET c == cur.component
       IN  \/ /\ Present(prev[c])
              /\ active' = [active EXCEPT ![c] = prev[c]]
              /\ prev' = [prev EXCEPT ![c] = NoVersion]
              /\ verdict' = "RolledBack"
              /\ pc' = RestartOf(c)
              /\ NoFault
              /\ UNCHANGED <<cur, moved>>
           \/ /\ Refuse
              /\ IF Present(prev[c]) THEN Fault ELSE NoFault
              /\ UNCHANGED <<active, prev>>
    /\ UNCHANGED <<mailbox, staged, journal, child, fixing, scan>>

(* record_result, then the drain looks for the next request. *)
Record ==
    /\ pc = "record"
    /\ WriteResult(cur, verdict)
    /\ EndJob("list")
    /\ NoFault
    /\ UNCHANGED <<disk, child, fixing, scan>>

(* The result cannot be written: the error ends the drain, no result exists. *)
RecordFails ==
    /\ pc = "record"
    /\ EndJob("supervise")
    /\ Fault
    /\ UNCHANGED <<mailbox, disk, child, fixing, scan>>

-----------------------------------------------------------------------------
(* The environment. *)

(* The whole box dies: no process and no volatile state survives. *)
Crash ==
    /\ pc # "down"
    /\ EndJob("down")
    /\ child' = [c \in Component |-> NoVersion]
    /\ fixing' = "startup"
    /\ scan' = EmptyScan
    /\ Fault
    /\ UNCHANGED <<mailbox, disk>>

ChildExits(c) ==
    /\ Present(child[c])
    /\ child' = [child EXCEPT ![c] = NoVersion]
    /\ Fault
    /\ UNCHANGED <<mailbox, disk, pc, fixing, scan, job>>

(* The Worker, as far as the mailbox shows it. *)
SupervisorUnchanged == UNCHANGED <<disk, child, pc, fixing, scan, job>>

WorkerEmits(k) ==
    /\ WriteRequest(k)
    /\ NoFault
    /\ SupervisorUnchanged

(* Either removal may fail: the request may outlive its result. *)
WorkerCollectsRequest(k) ==
    /\ results[k] = "Activated"
    /\ RemoveRequest(k)
    /\ NoFault
    /\ SupervisorUnchanged

WorkerCollectsResult(k) ==
    /\ results[k] = "Activated"
    /\ RemoveResult(k)
    /\ NoFault
    /\ SupervisorUnchanged

(* A file, or its own store, fails it. *)
WorkerErrs ==
    /\ Fault
    /\ UNCHANGED mailbox
    /\ SupervisorUnchanged

-----------------------------------------------------------------------------
Lifecycle ==
    \/ Start \/ Reconcile \/ ClearJournal \/ RestorePrev
    \/ SpawnAnyharness \/ SpawnWorker
    \/ AnyharnessExited \/ WorkerExited \/ Tick

Drain ==
    \/ ListRequests \/ ReadRequests \/ RankRequests \/ SupersedeRequests \/ PickRequest
    \/ CheckActive \/ FetchOk \/ FetchTransient \/ FetchTerminal \/ Stage
    \/ WriteJournal \/ MovePrev \/ Place \/ PutBack \/ Unjournal
    \/ RestartAnyharness \/ RestartWorker
    \/ GatePasses \/ GateFails \/ RollBack \/ Record

Failure ==
    \/ ReconcileFails \/ ListFails \/ SupersedeFails \/ CheckUnreadable
    \/ RecordFails \/ Crash
    \/ \E c \in Component : SpawnFails(c) \/ ChildExits(c)

SupervisorNext == Lifecycle \/ Drain \/ Failure

WorkerNext ==
    \/ \E k \in Requested :
          WorkerEmits(k) \/ WorkerCollectsRequest(k) \/ WorkerCollectsResult(k)
    \/ WorkerErrs

Next == SupervisorNext \/ WorkerNext

Spec == Init /\ [][Next]_vars

-----------------------------------------------------------------------------
(* The binary a component is served from, or would be served from after a    *)
(* crash at this point: the active one; while it is absent, the staged one   *)
(* the journal completes to; else the retained one.                          *)
Serving ==
    [c \in Component |->
        IF Present(active[c]) THEN active[c]
        ELSE IF journal.component = c /\ journal \in staged THEN journal.version
        ELSE prev[c]]

(* Whatever was cut short and whatever failed, there is a binary to start    *)
(* each component from: activate/mod.rs:16, "a runnable component always     *)
(* keeps serving".                                                           *)
Bootable == \A c \in Component : Present(Serving[c])

(* Seen from outside a swap is one atomic step, taken back only for the      *)
(* retained version and only while the request has no outcome; outcomes are  *)
(* final, an Activated one is true when it is written, and RolledBack is     *)
(* said only when the version was taken back and nothing installed since.    *)
TakenBack == IF verdict = "RolledBack" THEN cur ELSE NoKey

Promise ==
    INSTANCE AtomicUpdate WITH serving <- Serving, fallback <- prev, reverted <- TakenBack

ImplementsPromise == Promise!Spec
=============================================================================
