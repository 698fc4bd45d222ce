--------------------------- MODULE HandOverProofs ---------------------------
(***************************************************************************)
(* Proofs about the hand-over of SupervisorBridge while nothing is killed, *)
(* no operation fails and no confirmation of a live Supervisor is given    *)
(* up: no Worker swaps binaries under a Supervisor where the server        *)
(* delivers the inputs of the bridge, and what bridge.done and a           *)
(* confirmation say is so wherever they come from.                         *)
(*                                                                         *)
(* One invariant carries the three: what the processes of a sandbox may be *)
(* doing before the launch, during it and after it.                        *)
(***************************************************************************)
EXTENDS SupervisorBridgeProofs

Launching == {"script", "confirm", "health", "mark"}

(* Before a Supervisor, there is one Worker process. *)
OneLegacy ==
    ~SupervisorUp =>
        \A v, w \in Process : pc[v] # "none" /\ pc[w] # "none" => v = w

(* The Worker that launched waits for its script, and then looks for the
   Supervisor that the script has left, whose child it is not. *)
Attended ==
    /\ \A w \in Process : script[w] # "none" <=> pc[w] = "script"
    /\ \A w \in Process : pc[w] \in {"confirm", "health", "mark"} => SupervisorUp
    /\ heir \in Process => pc[heir] \notin Launching

(* From the launch to bridge.done the Worker that launched does nothing but wait
   for the confirmation, and whatever the Supervisor spawns finds the lock taken. *)
OthersWait ==
    SupervisorLive /\ ~done =>
        \A w \in Process : pc[w] \in Launching \cup {"none", "locking"}

(* Beside a Supervisor, the others have loaded what the bridge has left on disk. *)
LoadedWritten ==
    SupervisorUp =>
        \A w \in Process : pc[w] \notin Launching \cup {"none"} => cfg[w] = onDisk

(* One with the configuration the bridge has written is a Supervisor's, and
   neither bridges nor swaps. *)
OwnedOnly ==
    \A w \in Process :
        pc[w] # "none" /\ cfg[w] = "owned" =>
            /\ SupervisorUp
            /\ pc[w] \in {"locking", "idle", "probe", "converge", "selfUpdate"}

(* The configuration is written on the way to a launch. *)
WrittenToLaunch ==
    onDisk = "owned" => SupervisorLive \/ \E w \in Process : pc[w] = "launch"

(* The script clears the old AnyHarness before a Supervisor is there... *)
PortCleared ==
    ~done /\ (SupervisorUp \/ \E w \in Process : script[w] \in {"workers", "nohup"})
        => stray = "none"

(* ... and the runtime that answered a confirmation goes on serving. *)
MarkServed ==
    /\ ah # "none" => sup = "running"
    /\ \A w \in Process : pc[w] = "mark" => ah = "serving"

(* The Worker that launched keeps the lock from the Supervisor's until it has
   written bridge.done, and then is gone. *)
DoneFirst ==
    /\ SupervisorUp /\ ~done => lock \in Process /\ pc[lock] \in Launching
    /\ done => SupervisorUp /\ \A w \in Process : pc[w] \notin Launching

HandOver ==
    /\ OneLegacy
    /\ Attended
    /\ OthersWait
    /\ LoadedWritten
    /\ OwnedOnly
    /\ WrittenToLaunch
    /\ PortCleared
    /\ MarkServed
    /\ DoneFirst

-----------------------------------------------------------------------------
(* What was disturbed stays so. *)
LEMMA WorkerDisturbs ==
    ASSUME BridgeTypeOK, NEW w \in Process,
           \/ WorkerStep(w) \/ WorkerMay(w) \/ Asked(w)
           \/ ScriptStep(w) \/ SpawnHeir(w) \/ KillWorker(w)
    PROVE  (faults' = faults \/ Fault) /\ late' = late
BY DEF WorkerStep, WorkerMay, ScriptStep, Asked, SpawnHeir, KillWorker, TryLock,
       AlreadyBridged, NoSupervisor, Prepare, Launch, ConfirmLive, ConfirmHealth,
       MarkDone, Converge, StopRuntime, Relaunch, SwapGate, NoSelfUpdate, NotAsked,
       PrepareFails, LaunchFails, MarkFails, BeginSwap, Exec, ScriptKillsRuntime,
       ScriptKillsWorkers, Nohup

LEMMA OthersDisturb ==
    ASSUME \/ SupervisorStep \/ ChildBinds \/ StrayBinds
           \/ KillSupervisor \/ KillRuntime \/ UNCHANGED vars
    PROVE  (faults' = faults \/ Fault) /\ late' = late
BY DEF SupervisorStep, SpawnRuntime, GenerationEnds, ChildBinds, StrayBinds,
       KillSupervisor, KillRuntime, vars

LEMMA WasUndisturbed ==
    ASSUME BridgeTypeOK, BridgeTypeOK', [Next]_vars, Undisturbed'
    PROVE  Undisturbed /\ faults' = faults
<1>1. \/ (faults' = faults \/ Fault) /\ late' = late
      \/ \E w \in Process : GiveUp(w)
    BY WorkerDisturbs, OthersDisturb DEF Next
<1>2. CASE (faults' = faults \/ Fault) /\ late' = late
    BY <1>2, BridgeBoundsAssumption DEF Undisturbed, Fault, BridgeTypeOK
<1>3. CASE \E w \in Process : GiveUp(w)
    <2>1. faults' = faults /\ late' = (late \/ SupervisorUp)
        BY <1>3 DEF GiveUp
    <2> QED  BY <2>1 DEF Undisturbed, BridgeTypeOK
<1> QED  BY <1>1, <1>2, <1>3

-----------------------------------------------------------------------------
LEMMA InitHandsOver == Init => HandOver
BY ProcessAssumption
   DEF Init, HandOver, OneLegacy, Attended, OthersWait, LoadedWritten, OwnedOnly,
       WrittenToLaunch, PortCleared, MarkServed, DoneFirst, Launching, SupervisorLive,
       SupervisorUp

(* A step of a Worker keeps the hand-over. *)
LEMMA WorkerHandsOver ==
    ASSUME IInv, LaunchIsAlone, BridgeTypeOK', HandOver, faults' = faults, ~late',
           NEW w \in Process,
           WorkerStep(w) \/ WorkerMay(w) \/ Asked(w) \/ GiveUp(w)
    PROVE  HandOver'
<1> USE DEF HandOver, OneLegacy, Attended, OthersWait, LoadedWritten, OwnedOnly,
            WrittenToLaunch, PortCleared, MarkServed, DoneFirst, Launching, SupervisorLive,
            SupervisorUp, BridgeTypeOK
<1>1. CASE TryLock(w)
    BY <1>1, ProcessAssumption
       DEF TryLock, Ended, IInv, OneWorker, Ticking, TickPc, files, runtimes
<1>2. CASE Asked(w)
    BY <1>2 DEF Asked, Goto, IInv, files, runtimes
<1>3. CASE NotAsked(w)
    BY <1>3 DEF NotAsked, Goto, files, runtimes
<1>4. CASE AlreadyBridged(w)
    BY <1>4 DEF AlreadyBridged, Goto, runtimes
<1>5. CASE NoSupervisor(w)
    BY <1>5 DEF NoSupervisor, Goto, files, runtimes
<1>6. CASE Prepare(w)
    BY <1>6 DEF Prepare, Goto, LaunchIsAlone, runtimes
<1>7. CASE Launch(w)
    BY <1>7 DEF Launch, Goto, IInv, HeirHasParent, LaunchIsAlone, files, runtimes
<1>8. CASE ConfirmLive(w)
    BY <1>8 DEF ConfirmLive, Goto, files, runtimes
<1>9. CASE ConfirmHealth(w)
    BY <1>9 DEF ConfirmHealth, Goto, Healthy, files, runtimes
<1>10. CASE MarkDone(w)
    BY <1>10, ProcessAssumption
       DEF MarkDone, Ended, IInv, OneWorker, Ticking, TickPc, BridgePc, runtimes
<1>11. CASE Converge(w)
    BY <1>11 DEF Converge, Goto, files, runtimes
<1>12. CASE BeginSwap(w)
    BY <1>12 DEF BeginSwap, Goto, files, runtimes
<1>13. CASE StopRuntime(w)
    BY <1>13 DEF StopRuntime, Goto, RuntimesKilled, files
<1>14. CASE Relaunch(w)
    BY <1>14 DEF Relaunch, Goto, Launched, files
<1>15. CASE SwapGate(w)
    BY <1>15 DEF SwapGate, Goto, Launched, files
<1>16. CASE NoSelfUpdate(w)
    BY <1>16 DEF NoSelfUpdate, Goto, files, runtimes
<1>17. CASE Exec(w)
    BY <1>17
       DEF Exec, Goto, IInv, ConfigIsWritten, OneWorker, Ticking, TickPc, files, runtimes
<1>18. CASE GiveUp(w)
    <2>1. ~SupervisorUp
        BY <1>18 DEF GiveUp
    <2>2. SupervisorUp
        BY <1>18 DEF GiveUp, Goto
    <2> QED  BY <2>1, <2>2
<1>19. CASE PrepareFails(w) \/ LaunchFails(w) \/ MarkFails(w)
    BY <1>19, BridgeBoundsAssumption DEF PrepareFails, LaunchFails, MarkFails, Fault
<1> QED
    BY <1>1, <1>2, <1>3, <1>4, <1>5, <1>6, <1>7, <1>8, <1>9, <1>10, <1>11, <1>12, <1>13,
       <1>14, <1>15, <1>16, <1>17, <1>18, <1>19
       DEF WorkerStep, WorkerMay

(* So does one of the launch script, the Supervisor and the runtimes. *)
LEMMA OthersHandOver ==
    ASSUME IInv, LaunchIsAlone, BridgeTypeOK', HandOver, faults' = faults,
           \/ \E w \in Process : ScriptStep(w) \/ SpawnHeir(w) \/ KillWorker(w)
           \/ SupervisorStep \/ ChildBinds \/ StrayBinds
           \/ KillSupervisor \/ KillRuntime
    PROVE  HandOver'
<1> USE DEF HandOver, OneLegacy, Attended, OthersWait, LoadedWritten, OwnedOnly,
            WrittenToLaunch, PortCleared, MarkServed, DoneFirst, Launching, SupervisorLive,
            SupervisorUp, BridgeTypeOK
<1>1. ASSUME NEW w \in Process, ScriptKillsRuntime(w) PROVE HandOver'
    BY <1>1 DEF ScriptKillsRuntime, IInv, LaunchIsAlone, RuntimesKilled, workers, files
<1>2. ASSUME NEW w \in Process, ScriptKillsWorkers(w) PROVE HandOver'
    BY <1>2, ProcessAssumption
       DEF ScriptKillsWorkers, IInv, LaunchIsAlone, Ended, files, runtimes
<1>3. ASSUME NEW w \in Process, Nohup(w) PROVE HandOver'
    BY <1>3
       DEF Nohup, IInv, LaunchIsAlone, OneWorker, Ticking, TickPc, BridgePc, Fault, files,
           runtimes
<1>4. ASSUME NEW w \in Process, SpawnHeir(w) PROVE HandOver'
    BY <1>4
       DEF SpawnHeir, IInv, ConfigIsWritten, OneWorker, Ticking, TickPc, BridgePc, SwapPc,
           files, runtimes
<1>5. CASE SpawnRuntime
    BY <1>5 DEF SpawnRuntime, workers, files
<1>6. CASE GenerationEnds
    BY <1>6, ProcessAssumption
       DEF GenerationEnds, IInv, LaunchIsAlone, Ended, files, runtimes
<1>7. CASE ChildBinds
    BY <1>7 DEF ChildBinds, workers, files
<1>8. CASE StrayBinds
    BY <1>8 DEF StrayBinds, workers, files
<1>9. ~KillSupervisor /\ ~KillRuntime /\ \A w \in Process : ~KillWorker(w)
    <2>1. ~Fault
        BY BridgeBoundsAssumption DEF Fault
    <2> QED  BY <2>1 DEF KillSupervisor, KillRuntime, KillWorker
<1> QED
    BY <1>1, <1>2, <1>3, <1>4, <1>5, <1>6, <1>7, <1>8, <1>9
       DEF ScriptStep, SupervisorStep

-----------------------------------------------------------------------------
HandOverInv == Undisturbed => HandOver

LEMMA HandOverStep ==
    ASSUME IInv, LaunchIsAlone, HandOverInv, [Next]_vars
    PROVE  HandOverInv'
<1> SUFFICES ASSUME Undisturbed' PROVE HandOver'
    BY DEF HandOverInv
<1>1. BridgeTypeOK /\ BridgeTypeOK'
    BY TypeStep DEF IInv
<1>2. Undisturbed /\ faults' = faults
    BY <1>1, WasUndisturbed
<1>3. HandOver /\ ~late'
    BY <1>2 DEF HandOverInv, Undisturbed
<1>4. CASE Next
    BY <1>1, <1>2, <1>3, <1>4, WorkerHandsOver, OthersHandOver DEF Next
<1>5. CASE UNCHANGED vars
    BY <1>3, <1>5
       DEF vars, workers, files, runtimes, HandOver, OneLegacy, Attended,
           OthersWait, LoadedWritten, OwnedOnly, WrittenToLaunch, PortCleared,
           MarkServed, DoneFirst,
           SupervisorLive, SupervisorUp
<1> QED  BY <1>4, <1>5

(* As long as nothing is killed or fails and no confirmation of a live Supervisor
   is given up, the parts of the hand-over go together (bridge/mod.rs:60). *)
THEOREM HandOverHolds == Spec => [](IInv /\ LaunchIsAlone /\ HandOverInv)
<1>1. Init => LaunchIsAlone /\ HandOverInv
    BY InitHandsOver DEF Init, LaunchIsAlone, HandOverInv
<1> QED  BY <1>1, LaunchStep, HandOverStep, BridgeInvariant, PTL DEF Spec

-----------------------------------------------------------------------------
(* A legacy Worker that swaps in place does so where there is no Supervisor, and
   one with the configuration the server delivers does not swap: L1 of
   MANAGED_RUNTIME.md, as far as the bridge keeps it. *)
THEOREM OnlyTheOwnerSwaps == Spec => []OnlyOwnerSwaps
<1>1. IInv /\ HandOverInv => OnlyOwnerSwaps
    BY DEF IInv, BridgeTypeOK, ConfigIsWritten, HandOverInv, HandOver, LoadedWritten,
           OwnedOnly, Delivered, Launching, OnlyOwnerSwaps, SwapPc
<1> QED  BY <1>1, HandOverHolds, PTL

(* bridge.done is first written while a runtime answers: by the Worker that has
   just confirmed it, and not by a Supervisor's Worker that comes too early
   (bridge/mod.rs:197). *)
LEMMA DoneStep ==
    ASSUME IInv, HandOverInv, [Next]_vars, Undisturbed, done', ~done
    PROVE  Healthy
<1>1. PICK w \in Process : AlreadyBridged(w) \/ MarkDone(w)
    <2>1. done' # done
        OBVIOUS
    <2> QED
        BY <2>1
           DEF Next, vars, WorkerStep, WorkerMay, ScriptStep, SupervisorStep, Asked, GiveUp,
               SpawnHeir, KillWorker, TryLock, NoSupervisor, Prepare, Launch, ConfirmLive,
               ConfirmHealth, Converge, StopRuntime, Relaunch, SwapGate, NoSelfUpdate,
               NotAsked, PrepareFails, LaunchFails, MarkFails, BeginSwap, Exec,
               ScriptKillsRuntime, ScriptKillsWorkers, Nohup, SpawnRuntime,
               GenerationEnds, ChildBinds, StrayBinds, KillSupervisor, KillRuntime, files
<1>2. CASE MarkDone(w)
    BY <1>2 DEF MarkDone, HandOverInv, HandOver, MarkServed, Healthy
<1>3. CASE AlreadyBridged(w)
    <2>1. pc[w] = "probe" /\ SupervisorLive
        BY <1>3 DEF AlreadyBridged, Goto
    <2> QED  BY <2>1 DEF HandOverInv, HandOver, OthersWait, Launching
<1> QED  BY <1>1, <1>2, <1>3

(* Undisturbed, bridge.done says that a runtime answered when it was written. *)
THEOREM DoneIsProved == Spec => DoneIsProven
<1>1. IInv /\ HandOverInv /\ [Next]_vars =>
        [Undisturbed /\ done' /\ ~done => Healthy]_vars
    BY DoneStep
<1> QED  BY <1>1, HandOverHolds, PTL DEF Spec, DoneIsProven

(* The script cleared the port before the Supervisor was there, and nobody
   launches another AnyHarness beside it: what answers the confirmation is the
   Supervisor's (bridge/mod.rs:202). *)
LEMMA ConfirmStep ==
    ASSUME IInv, HandOverInv, [Next]_vars, Undisturbed,
           NEW w \in Process, pc[w] = "health", pc'[w] = "mark"
    PROVE  ah = "serving"
<1>1. ConfirmHealth(w)
    <2>1. PICK v \in Process : ConfirmHealth(v)
        BY DEF IInv, BridgeTypeOK, Next, vars, WorkerStep, WorkerMay, ScriptStep,
               SupervisorStep, Asked, GiveUp, SpawnHeir, KillWorker, TryLock,
               AlreadyBridged, NoSupervisor, Prepare, Launch, ConfirmLive, MarkDone,
               Converge, StopRuntime, Relaunch, SwapGate, NoSelfUpdate, NotAsked,
               PrepareFails, LaunchFails, MarkFails, BeginSwap, Exec,
               ScriptKillsRuntime, ScriptKillsWorkers, Nohup, SpawnRuntime,
               GenerationEnds, ChildBinds, StrayBinds, KillSupervisor, KillRuntime,
               Goto, Ended, workers
    <2> QED  BY <2>1 DEF ConfirmHealth, Goto, IInv, BridgeTypeOK
<1>2. Healthy
    BY <1>1 DEF ConfirmHealth, Goto, IInv, BridgeTypeOK
<1>3. stray = "none"
    BY DEF HandOverInv, HandOver, Attended, DoneFirst, PortCleared, Launching
<1> QED  BY <1>2, <1>3 DEF Healthy

(* Undisturbed, a hand-over is confirmed by the Supervisor's own AnyHarness, and
   not by the one it was to replace. *)
THEOREM ConfirmedRuntimeIsOwned == Spec => ConfirmedIsOwned
<1>1. IInv /\ HandOverInv /\ [Next]_vars =>
        [\A w \in Process :
          Undisturbed /\ pc[w] = "health" /\ pc'[w] = "mark" => ah = "serving"]_vars
    BY ConfirmStep
<1> QED  BY <1>1, HandOverHolds, PTL DEF Spec, ConfirmedIsOwned
=============================================================================
