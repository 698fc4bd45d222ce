---------------------------- MODULE RuntimeUpdate ----------------------------
(***************************************************************************)
(* The whole convergence loop of a Supervisor-owned sandbox: the server    *)
(* pins a version per component, the Worker's heartbeat carries the pins   *)
(* down and the running versions up, the Worker turns a divergence into a  *)
(* request in the mailbox and takes note of the results, the Supervisor    *)
(* activates.                                                              *)
(*                                                                         *)
(* The Worker is a child of the Supervisor: it runs while child["worker"]  *)
(* is present, dies between any two of its steps when the Supervisor       *)
(* restarts it or the box crashes, and keeps only its SQLite store.        *)
(***************************************************************************)
EXTENDS Supervisor

CONSTANT
    MaxPins       \* bound on the pin changes the server makes

ASSUME MaxPinsAssumption == MaxPins \in Nat

VARIABLES
    pin,          \* pin[c]: the server's desired version of c for this sandbox
    reported,     \* reported[c]: the version the server row says c runs
    pinsLeft,     \* pin changes still to come
    store,        \* the converged AnyHarness version in the Worker's store
    desired,      \* the pins of the last heartbeat's ack (Worker memory)
    wpc,          \* what the Worker does next
    focus         \* the component the Worker is working on

server == <<pin, reported, pinsLeft>>
workerMemory == <<desired, wpc, focus>>
rtvars == <<vars, server, store, workerMemory>>

NoPins == [c \in Component |-> NoVersion]

WorkerPc == {"idle", "reconcile", "gcRequest", "gcResult", "plan", "emit"}

RTTypeOK ==
    /\ TypeOK
    /\ pin \in [Component -> Version]
    /\ reported \in [Component -> Version]
    /\ pinsLeft \in 0 .. MaxPins
    /\ store \in Version \cup {NoVersion}
    /\ desired \in [Component -> Version \cup {NoVersion}]
    /\ wpc \in WorkerPc
    /\ focus \in Component

RTInit ==
    /\ Init
    /\ pin = [c \in Component |-> InitVersion]
    /\ reported = [c \in Component |-> InitVersion]
    /\ pinsLeft = MaxPins
    /\ store = NoVersion
    /\ desired = NoPins
    /\ wpc = "idle"
    /\ focus = "anyharness"

-----------------------------------------------------------------------------
(* The server. *)

(* set_sandbox_desired_versions, or a release that moves the global pin. *)
SetPin(k) ==
    /\ pinsLeft > 0
    /\ pin[k.component] # k.version
    /\ pin' = [pin EXCEPT ![k.component] = k.version]
    /\ pinsLeft' = pinsLeft - 1
    /\ UNCHANGED <<vars, reported, store, workerMemory>>

-----------------------------------------------------------------------------
(* The Worker.  It never introspects AnyHarness: the running version is the  *)
(* converged one of the store, else (also when the store cannot be read) the *)
(* one exported at boot; its own is compiled in.                             *)
RunningMutant ==    \* no fallback to the version exported at boot
    [c \in Component |-> IF c = "worker" THEN child[c] ELSE store]

Running ==
    [c \in Component |->
        IF c = "worker" THEN child[c]
        ELSE IF Present(store) THEN store ELSE InitVersion]

RunningMisread == [Running EXCEPT !["anyharness"] = InitVersion]

(* One heartbeat.  The server records the report before it answers; when the *)
(* answer gets lost the next tick tries again.                               *)
Heartbeat(running) ==
    /\ wpc = "idle"
    /\ reported' = running
    /\ desired' = pin
    /\ wpc' = "reconcile"
    /\ focus' = "anyharness"
    /\ UNCHANGED <<mailbox, pin, pinsLeft, store>>

HeartbeatLost(running) ==
    /\ wpc = "idle"
    /\ reported' = running
    /\ UNCHANGED <<mailbox, pin, pinsLeft, store, workerMemory>>

(* converge_via_mailbox: reconcile AnyHarness, reconcile the Worker, then    *)
(* plan AnyHarness, plan the Worker.                                         *)
Wanted == [component |-> focus, version |-> desired[focus]]

Advance(phase, next) ==
    IF focus = "anyharness"
      THEN wpc' = phase /\ focus' = "worker" /\ UNCHANGED desired
      ELSE /\ wpc' = next
           /\ focus' = "anyharness"
           /\ desired' = IF next = "idle" THEN NoPins ELSE desired

NextReconcile == Advance("reconcile", "plan")

NextPlan == Advance("plan", "idle")

(* reconcile_converged_result: only an Activated result of the desired       *)
(* version counts.  A failed write of the store is logged and passed over.   *)
ConvergedMutant ==    \* any result counts
    wpc = "reconcile" /\ HasResult(Wanted)

Converged == wpc = "reconcile" /\ results[Wanted] = "Activated"

RecordConvergedMutant ==    \* forgets the store
    /\ Converged
    /\ wpc' = "gcRequest"
    /\ UNCHANGED <<mailbox, server, store, desired, focus>>

RecordConverged ==
    /\ Converged
    /\ store' = IF focus = "anyharness" THEN desired[focus] ELSE store
    /\ wpc' = "gcRequest"
    /\ UNCHANGED <<mailbox, server, desired, focus>>

RecordConvergedFails ==
    /\ Converged
    /\ focus = "anyharness"
    /\ wpc' = "gcRequest"
    /\ UNCHANGED <<mailbox, server, store, desired, focus>>

NothingToReconcile ==
    /\ wpc = "reconcile"
    /\ ~Converged
    /\ NextReconcile
    /\ UNCHANGED <<mailbox, server, store>>

(* A result that cannot be read counts as none. *)
ResultUnreadable ==
    /\ Converged
    /\ NextReconcile
    /\ UNCHANGED <<mailbox, server, store>>

(* gc_request_result_pair: best effort, either removal may fail on its own   *)
(* and the error is ignored.                                                 *)
GcRequest ==
    /\ wpc = "gcRequest"
    /\ RemoveRequest(Wanted)
    /\ wpc' = "gcResult"
    /\ UNCHANGED <<server, store, desired, focus>>

GcRequestFails ==
    /\ wpc = "gcRequest"
    /\ wpc' = "gcResult"
    /\ UNCHANGED <<mailbox, server, store, desired, focus>>

GcResult ==
    /\ wpc = "gcResult"
    /\ RemoveResult(Wanted)
    /\ NextReconcile
    /\ UNCHANGED <<server, store>>

GcResultFails ==
    /\ wpc = "gcResult"
    /\ NextReconcile
    /\ UNCHANGED <<mailbox, server, store>>

(* plan_component, and the result_exists check of write_update_request. *)
Diverges(running) == running[focus] # desired[focus] /\ ~HasResult(Wanted)

Plan(running) ==
    /\ wpc = "plan"
    /\ IF Diverges(running)
         THEN wpc' = "emit" /\ UNCHANGED <<desired, focus>>
         ELSE NextPlan
    /\ UNCHANGED <<mailbox, server, store>>

(* The artifact's URL, checksum and size are resolved over the network in    *)
(* between; any failure is left to the next heartbeat.                       *)
Emit ==
    /\ wpc = "emit"
    /\ WriteRequest(Wanted)
    /\ NextPlan
    /\ UNCHANGED <<server, store>>

EmitFails ==
    /\ wpc = "emit"
    /\ NextPlan
    /\ UNCHANGED <<mailbox, server, store>>

-----------------------------------------------------------------------------
WorkerStep ==
    /\ Present(child["worker"])
    /\ \/ /\ \/ Heartbeat(Running) \/ HeartbeatLost(Running)
             \/ RecordConverged \/ RecordConvergedFails \/ NothingToReconcile
             \/ GcRequest \/ GcResult
             \/ Plan(Running) \/ Emit \/ EmitFails
          /\ NoFault
       \/ /\ \/ Heartbeat(RunningMisread) \/ HeartbeatLost(RunningMisread)
             \/ Plan(RunningMisread)
          /\ Running # RunningMisread
          /\ Fault
       \/ /\ ResultUnreadable \/ GcRequestFails \/ GcResultFails
          /\ Fault
    /\ SupervisorUnchanged

(* The Worker's memory does not survive its process. *)
WorkerReplaced ==
    \/ child'["worker"] # child["worker"]
    \/ pc = "restartWorker" /\ pc' # pc

SupervisorStep ==
    /\ SupervisorNext
    /\ IF WorkerReplaced
         THEN desired' = NoPins /\ wpc' = "idle" /\ focus' = "anyharness"
         ELSE UNCHANGED workerMemory
    /\ UNCHANGED <<server, store>>

RTNext ==
    \/ SupervisorStep
    \/ WorkerStep
    \/ \E k \in Requested : SetPin(k)

RTSpec == RTInit /\ [][RTNext]_rtvars

-----------------------------------------------------------------------------
(* Fairness.  The Supervisor runs on: whenever it has a step that no fault   *)
(* is needed for, it takes one.  The exit of a child resolves the wait of    *)
(* wait_or_tick at once, so the poll tick cannot win forever; an artifact    *)
(* that is tried again and again is downloaded some day.                     *)
Proceed == (Lifecycle \/ Drain \/ \E c \in Component : SpawnFails(c)) /\ NoFault

SupervisorFairness ==
    /\ WF_rtvars(SupervisorStep /\ Proceed)
    /\ SF_rtvars(SupervisorStep /\ (AnyharnessExited \/ WorkerExited))
    /\ SF_rtvars(SupervisorStep /\ FetchOk)

(* The Worker keeps ticking while it lives; the network and the store may    *)
(* fail it often, but not every time.                                        *)
WorkerFairness ==
    /\ WF_rtvars(WorkerStep)
    /\ SF_rtvars(WorkerStep /\ Heartbeat(Running) /\ NoFault)
    /\ SF_rtvars(WorkerStep /\ RecordConverged)
    /\ SF_rtvars(WorkerStep /\ Emit)

FairRTSpec == RTSpec /\ SupervisorFairness /\ WorkerFairness

-----------------------------------------------------------------------------
(* Whatever the real Worker does is allowed by the Supervisor's module: it   *)
(* never collects a result but an Activated one, never writes a result, and  *)
(* writes requests only for versions that were pinned.                       *)
ImplementsSupervisor == Spec

(* No request is left behind: it gets a result or the Worker collects it,    *)
(* whatever crashes, failed downloads and pin changes come in between        *)
(* (run_pending leaves transient failures pending, next_pending supersedes). *)
EveryRequestDecided == []<>(\A k \in requests : HasResult(k))

(* Both programs are up again and again: no spawn, restart, rollback or      *)
(* recovery of process/mod.rs leaves the sandbox without one for good.       *)
ServiceRecovers == []<>(\A c \in Component : Present(child[c]))

Refused(k) == results[k] \in {"RolledBack", "Invalid"}

(* The heartbeat loop comes to rest: for every component the server row      *)
(* shows the pin, or the pin has been refused for good.  Nothing is emitted, *)
(* activated and collected over and over.                                    *)
Settled ==
    \A c \in Component :
        LET k == [component |-> c, version |-> pin[c]]
        IN  Refused(k) \/ reported[c] = pin[c]

Settles == <>[]Settled

(* No artifact turned out bad: every request was activated or is under way.  *)
ArtifactsGood == [](verdict \in {NoResult, "Activated"})

(* While releases only move on to versions not seen before and artifacts are *)
(* good, what runs in the end is what the server pins.                       *)
RolloutConverges ==
    ArtifactsGood => <>[](\A c \in Component : child[c] = pin[c])

(* mailbox.rs:37-38: a completed activation is reconciled to "record what    *)
(* actually runs".  Not so: the Activated result of a version that has since *)
(* been replaced is taken at its word when that version is pinned again.     *)
StoreRecordsWhatRuns ==
    [][\A v \in Version : store' = v /\ store # v => child["anyharness"] = v]_rtvars
=============================================================================
