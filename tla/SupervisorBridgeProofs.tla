----------------------- MODULE SupervisorBridgeProofs -----------------------
(***************************************************************************)
(* Proofs about SupervisorBridge: for any number of Worker processes and   *)
(* faults, one Worker ticks at a time, a Supervisor's Worker never is one  *)
(* that swaps in place, and no Supervisor is launched beside another.      *)
(*                                                                         *)
(* The second fact needs the history of a launch: from the write of the    *)
(* Worker's configuration to the launched Supervisor, through a script     *)
(* that outlives its Worker, something remembers that the write was made.  *)
(***************************************************************************)
EXTENDS SupervisorBridge, TLAPS

(* Whoever may yet launch a Supervisor, or is one, came after the write. *)
ConfigIsWritten ==
    /\ \A w \in Process : pc[w] \in {"launch", "script"} => onDisk # "legacy"
    /\ \A w \in Process : script[w] # "none" => onDisk # "legacy"
    /\ SupervisorUp => onDisk # "legacy"

(* An equipped configuration stays where it is, and no other becomes one. *)
EquippedStays == \A w \in Process : cfg[w] = "equipped" <=> onDisk = "equipped"

HeirHasParent == heir \in Process => SupervisorUp

IInv ==
    /\ BridgeTypeOK
    /\ OneWorker
    /\ ConfigIsWritten
    /\ EquippedStays
    /\ HeirHasParent
    /\ HeirIsWriter

-----------------------------------------------------------------------------
(* Helpers of the model. *)

(* A set of processes that end leaves the holder of the lock the one that
   ticks, and no new child. *)
LEMMA EndedKeeps ==
    ASSUME IInv, NEW S \in SUBSET Process, Ended(S)
    PROVE  /\ pc' \in [Process -> {"none", "locking"} \cup TickPc]
           /\ lock' \in Process \cup {NoProcess}
           /\ heir' \in Process \cup {NoProcess}
           /\ OneWorker'
           /\ \A w \in Process : pc'[w] \in {pc[w], "none"}
           /\ heir' \in {heir, NoProcess}
<1>1. /\ pc' \in [Process -> {"none", "locking"} \cup TickPc]
      /\ lock' \in Process \cup {NoProcess}
      /\ heir' \in Process \cup {NoProcess}
      /\ \A w \in Process : pc'[w] \in {pc[w], "none"}
      /\ heir' \in {heir, NoProcess}
    BY DEF IInv, BridgeTypeOK, Ended
<1>2. OneWorker'
    <2> SUFFICES ASSUME NEW w \in Process
                 PROVE  Ticking(w)' <=> lock' = w
        BY DEF OneWorker
    <2>1. Ticking(w) <=> lock = w
        BY DEF IInv, OneWorker
    <2>2. CASE w \in S
        BY <2>1, <2>2, ProcessAssumption
           DEF Ended, Ticking, TickPc, BridgePc, SwapPc, IInv, BridgeTypeOK
    <2>3. CASE w \notin S
        BY <2>1, <2>3, ProcessAssumption DEF Ended, Ticking, IInv, BridgeTypeOK
    <2> QED  BY <2>2, <2>3
<1> QED  BY <1>1, <1>2

(* A step of one process between two places on the same side of the lock. *)
LEMMA GotoKeeps ==
    ASSUME IInv, NEW w \in Process,
           NEW from \in TickPc, NEW to \in TickPc,
           Goto(w, from, to), UNCHANGED lock
    PROVE  /\ pc' \in [Process -> {"none", "locking"} \cup TickPc]
           /\ OneWorker'
           /\ \A v \in Process : pc'[v] = IF v = w THEN to ELSE pc[v]
<1>1. \A v \in Process : pc'[v] = IF v = w THEN to ELSE pc[v]
    BY DEF Goto, IInv, BridgeTypeOK
<1>2. pc' \in [Process -> {"none", "locking"} \cup TickPc]
    BY DEF Goto, IInv, BridgeTypeOK
<1>3. OneWorker'
    BY <1>1 DEF OneWorker, IInv, Ticking, Goto
<1> QED  BY <1>1, <1>2, <1>3

-----------------------------------------------------------------------------
LEMMA InitInv == Init => IInv
<1> SUFFICES ASSUME Init PROVE IInv
    OBVIOUS
<1>1. BridgeTypeOK
    <2>1. faults \in 0 .. MaxFaults /\ swaps \in 0 .. MaxSwaps
        BY BridgeBoundsAssumption DEF Init
    <2>2. pc \in [Process -> {"none", "locking"} \cup TickPc]
        BY DEF Init, TickPc
    <2> QED  BY <2>1, <2>2 DEF Init, BridgeTypeOK
<1>2. OneWorker
    BY DEF Init, OneWorker, Ticking, TickPc, BridgePc, SwapPc
<1>3. ConfigIsWritten /\ EquippedStays /\ HeirHasParent /\ HeirIsWriter
    BY ProcessAssumption
       DEF Init, ConfigIsWritten, HeirHasParent, HeirIsWriter, EquippedStays, Delivered,
           SupervisorUp
<1> QED  BY <1>1, <1>2, <1>3 DEF IInv

-----------------------------------------------------------------------------
(* The steps of a Worker that leave the files, the script, the Supervisor and
   its child alone. *)
LEMMA TickKeeps ==
    ASSUME IInv, BridgeTypeOK', NEW w \in Process,
           NEW from \in TickPc, NEW to \in TickPc \ {"launch", "script"},
           Goto(w, from, to),
           UNCHANGED <<cfg, lock, onDisk, script, sup, heir>>
    PROVE  IInv'
<1>1. OneWorker' /\ \A v \in Process : pc'[v] = IF v = w THEN to ELSE pc[v]
    BY GotoKeeps
<1>2. ConfigIsWritten'
    BY <1>1 DEF IInv, ConfigIsWritten, SupervisorUp
<1>3. EquippedStays' /\ HeirHasParent' /\ HeirIsWriter'
    BY DEF IInv, HeirHasParent, HeirIsWriter, EquippedStays, Delivered, SupervisorUp
<1> QED  BY <1>1, <1>2, <1>3 DEF IInv

(* Steps that end processes and do not touch the rest of the hand-over. *)
LEMMA EndingKeeps ==
    ASSUME IInv, BridgeTypeOK', NEW S \in SUBSET Process, Ended(S),
           UNCHANGED <<cfg, onDisk>>,
           \A w \in Process : script'[w] # "none" => script[w] # "none",
           sup' = sup \/ (sup # "down" /\ sup' = "between")
    PROVE  IInv'
<1>1. /\ OneWorker'
      /\ \A w \in Process : pc'[w] \in {pc[w], "none"}
      /\ heir' \in {heir, NoProcess}
    BY EndedKeeps
<1>2. ConfigIsWritten'
    BY <1>1 DEF IInv, ConfigIsWritten, SupervisorUp
<1>3. EquippedStays' /\ HeirHasParent' /\ HeirIsWriter'
    BY <1>1, ProcessAssumption
       DEF IInv, EquippedStays, HeirHasParent, HeirIsWriter, Delivered, SupervisorUp
<1> QED  BY <1>1, <1>2, <1>3 DEF IInv

(* Steps of the Supervisor and of the runtimes that end no Worker. *)
LEMMA RuntimeKeeps ==
    ASSUME IInv, BridgeTypeOK',
           UNCHANGED <<workers, onDisk, script, heir>>,
           sup' = sup \/ (sup # "down" /\ sup' # "down")
    PROVE  IInv'
<1>1. OneWorker'
    BY DEF IInv, OneWorker, Ticking, workers
<1>2. ConfigIsWritten' /\ EquippedStays' /\ HeirHasParent' /\ HeirIsWriter'
    BY DEF IInv, ConfigIsWritten, HeirHasParent, HeirIsWriter, EquippedStays, Delivered,
       SupervisorUp, workers
<1> QED  BY <1>1, <1>2 DEF IInv
-----------------------------------------------------------------------------
(* One step of a Worker keeps the types... *)
LEMMA WorkerTypes ==
    ASSUME BridgeTypeOK, NEW w \in Process, WorkerStep(w) \/ WorkerMay(w) \/ Asked(w) \/ GiveUp(w)
    PROVE  BridgeTypeOK'
<1> USE DEF BridgeTypeOK, TickPc, BridgePc, SwapPc
<1>1. CASE TryLock(w)
    BY <1>1 DEF TryLock, Ended, files, runtimes
<1>2. CASE Asked(w)
    BY <1>2 DEF Asked, Goto, files, runtimes
<1>3. CASE NotAsked(w)
    BY <1>3 DEF NotAsked, Goto, files, runtimes
<1>4. CASE AlreadyBridged(w)
    <2>1. faults' \in 0 .. MaxFaults
        BY <1>4, BridgeBoundsAssumption DEF AlreadyBridged, Fault
    <2>2. done' \in BOOLEAN
        BY <1>4, Zenon DEF AlreadyBridged
    <2>3. pc' \in [Process -> {"none", "locking"} \cup TickPc]
        BY <1>4 DEF AlreadyBridged, Goto
    <2>4. UNCHANGED <<cfg, lock, onDisk, script, sup, heir, ah, stray, swaps, late>>
        BY <1>4 DEF AlreadyBridged, runtimes
    <2> QED  BY <2>1, <2>2, <2>3, <2>4
<1>5. CASE NoSupervisor(w)
    BY <1>5 DEF NoSupervisor, Goto, files, runtimes
<1>6. CASE Prepare(w)
    BY <1>6 DEF Prepare, Goto, files, runtimes
<1>7. CASE PrepareFails(w)
    BY <1>7, BridgeBoundsAssumption DEF PrepareFails, Goto, Fault, files, runtimes
<1>8. CASE Launch(w)
    BY <1>8 DEF Launch, Goto, files, runtimes
<1>9. CASE LaunchFails(w)
    BY <1>9, BridgeBoundsAssumption DEF LaunchFails, Goto, Fault, files, runtimes
<1>10. CASE ConfirmLive(w)
    BY <1>10 DEF ConfirmLive, Goto, files, runtimes
<1>11. CASE ConfirmHealth(w)
    BY <1>11 DEF ConfirmHealth, Goto, files, runtimes
<1>12. CASE GiveUp(w)
    BY <1>12 DEF GiveUp, Goto, files, runtimes
<1>13. CASE MarkDone(w)
    BY <1>13 DEF MarkDone, Ended, files, runtimes
<1>14. CASE MarkFails(w)
    BY <1>14, BridgeBoundsAssumption DEF MarkFails, Goto, Fault, files, runtimes
<1>15. CASE Converge(w)
    BY <1>15 DEF Converge, Goto, files, runtimes
<1>16. CASE BeginSwap(w)
    BY <1>16, BridgeBoundsAssumption DEF BeginSwap, Goto, files, runtimes
<1>17. CASE StopRuntime(w)
    BY <1>17 DEF StopRuntime, Goto, RuntimesKilled, files, runtimes
<1>18. CASE Relaunch(w)
    BY <1>18 DEF Relaunch, Goto, Launched, files, runtimes
<1>19. CASE SwapGate(w)
    BY <1>19 DEF SwapGate, Goto, Launched, files, runtimes
<1>20. CASE NoSelfUpdate(w)
    BY <1>20 DEF NoSelfUpdate, Goto, files, runtimes
<1>21. CASE Exec(w)
    BY <1>21, BridgeBoundsAssumption DEF Exec, Goto, files, runtimes
<1> QED
    BY <1>1, <1>2, <1>3, <1>4, <1>5, <1>6, <1>7, <1>8, <1>9, <1>10, <1>11, <1>12, <1>13,
       <1>14, <1>15, <1>16, <1>17, <1>18, <1>19, <1>20, <1>21
       DEF WorkerStep, WorkerMay

(* ... and so does one of the launch script, the Supervisor and the runtimes. *)
LEMMA OtherTypes ==
    ASSUME BridgeTypeOK,
           \/ \E w \in Process : ScriptStep(w) \/ SpawnHeir(w) \/ KillWorker(w)
           \/ SupervisorStep \/ ChildBinds \/ StrayBinds
           \/ KillSupervisor \/ KillRuntime
    PROVE  BridgeTypeOK'
<1> USE DEF BridgeTypeOK, TickPc, BridgePc, SwapPc
<1>1. CASE \E w \in Process : ScriptKillsRuntime(w)
    BY <1>1 DEF ScriptKillsRuntime, RuntimesKilled, workers, files, runtimes
<1>2. CASE \E w \in Process : ScriptKillsWorkers(w)
    BY <1>2 DEF ScriptKillsWorkers, Ended, files, runtimes
<1>3. CASE \E w \in Process : Nohup(w)
    BY <1>3, BridgeBoundsAssumption DEF Nohup, Fault, files, runtimes
<1>4. CASE \E w \in Process : SpawnHeir(w)
    BY <1>4 DEF SpawnHeir, files, runtimes
<1>5. CASE \E w \in Process : KillWorker(w)
    BY <1>5, BridgeBoundsAssumption DEF KillWorker, Ended, Fault, files, runtimes
<1>6. CASE SpawnRuntime
    BY <1>6 DEF SpawnRuntime, workers, files, runtimes
<1>7. CASE GenerationEnds
    BY <1>7 DEF GenerationEnds, Ended, files, runtimes
<1>8. CASE ChildBinds
    BY <1>8 DEF ChildBinds, workers, files, runtimes
<1>9. CASE StrayBinds
    BY <1>9 DEF StrayBinds, workers, files, runtimes
<1>10. CASE KillSupervisor
    BY <1>10, BridgeBoundsAssumption DEF KillSupervisor, workers, Fault, files, runtimes
<1>11. CASE KillRuntime
    BY <1>11, BridgeBoundsAssumption DEF KillRuntime, workers, Fault, files, runtimes
<1> QED
    BY <1>1, <1>2, <1>3, <1>4, <1>5, <1>6, <1>7, <1>8, <1>9, <1>10, <1>11
       DEF ScriptStep, SupervisorStep

LEMMA TypeStep == ASSUME BridgeTypeOK, [Next]_vars PROVE BridgeTypeOK'
<1>1. CASE Next
    BY <1>1, WorkerTypes, OtherTypes DEF Next
<1>2. CASE UNCHANGED vars
    BY <1>2 DEF vars, workers, files, runtimes, BridgeTypeOK
<1> QED  BY <1>1, <1>2

-----------------------------------------------------------------------------
(* One step of a Worker keeps the invariant. *)
LEMMA WorkerKeeps ==
    ASSUME IInv, BridgeTypeOK', NEW w \in Process,
           WorkerStep(w) \/ WorkerMay(w) \/ Asked(w) \/ GiveUp(w)
    PROVE  IInv'
<1>1. CASE TryLock(w)
    <2>1. CASE lock = NoProcess
        <3>1. lock' = w /\ pc' = [pc EXCEPT ![w] = "idle"]
            BY <1>1, <2>1 DEF TryLock
        <3>2. OneWorker'
            BY <2>1, <3>1, ProcessAssumption
               DEF OneWorker, IInv, BridgeTypeOK, Ticking, TickPc
        <3>3. ConfigIsWritten' /\ EquippedStays' /\ HeirHasParent' /\ HeirIsWriter'
            BY <1>1, <2>1, <3>1
               DEF TryLock, files, IInv, BridgeTypeOK, ConfigIsWritten, HeirHasParent,
                   HeirIsWriter, EquippedStays, Delivered, SupervisorUp
        <3> QED  BY <3>2, <3>3 DEF IInv
    <2>2. CASE lock # NoProcess
        BY <1>1, <2>2, EndingKeeps DEF TryLock, files
    <2> QED  BY <2>1, <2>2
<1>2. CASE Asked(w)
    <2>1. Goto(w, "idle", "probe") /\ UNCHANGED <<cfg, lock, onDisk, script, sup, heir>>
        BY <1>2 DEF Asked, files
    <2> QED  BY <2>1, TickKeeps DEF TickPc, BridgePc, SwapPc
<1>3. CASE NotAsked(w)
    <2>1. Goto(w, "idle", "converge") /\ UNCHANGED <<cfg, lock, onDisk, script, sup, heir>>
        BY <1>3 DEF NotAsked, files
    <2> QED  BY <2>1, TickKeeps DEF TickPc, BridgePc, SwapPc
<1>4. CASE AlreadyBridged(w)
    <2>1. Goto(w, "probe", "converge") /\ UNCHANGED <<cfg, lock, onDisk, script, sup, heir>>
        BY <1>4 DEF AlreadyBridged, files
    <2> QED  BY <2>1, TickKeeps DEF TickPc, BridgePc, SwapPc
<1>5. CASE NoSupervisor(w)
    <2>1. Goto(w, "probe", "prepare") /\ UNCHANGED <<cfg, lock, onDisk, script, sup, heir>>
        BY <1>5 DEF NoSupervisor, files
    <2> QED  BY <2>1, TickKeeps DEF TickPc, BridgePc, SwapPc
<1>6. CASE PrepareFails(w)
    <2>1. Goto(w, "prepare", "converge") /\ UNCHANGED <<cfg, lock, onDisk, script, sup, heir>>
        BY <1>6 DEF PrepareFails, files
    <2> QED  BY <2>1, TickKeeps DEF TickPc, BridgePc, SwapPc
<1>7. CASE LaunchFails(w)
    <2>1. Goto(w, "launch", "converge") /\ UNCHANGED <<cfg, lock, onDisk, script, sup, heir>>
        BY <1>7 DEF LaunchFails, files
    <2> QED  BY <2>1, TickKeeps DEF TickPc, BridgePc, SwapPc
<1>8. CASE ConfirmLive(w)
    <2>1. Goto(w, "confirm", "health") /\ UNCHANGED <<cfg, lock, onDisk, script, sup, heir>>
        BY <1>8 DEF ConfirmLive, files
    <2> QED  BY <2>1, TickKeeps DEF TickPc, BridgePc, SwapPc
<1>9. CASE GiveUp(w)
    <2>1. Goto(w, "confirm", "converge") /\ UNCHANGED <<cfg, lock, onDisk, script, sup, heir>>
        BY <1>9 DEF GiveUp, files
    <2> QED  BY <2>1, TickKeeps DEF TickPc, BridgePc, SwapPc
<1>10. CASE MarkFails(w)
    <2>1. Goto(w, "mark", "converge") /\ UNCHANGED <<cfg, lock, onDisk, script, sup, heir>>
        BY <1>10 DEF MarkFails, files
    <2> QED  BY <2>1, TickKeeps DEF TickPc, BridgePc, SwapPc
<1>11. CASE BeginSwap(w)
    <2>1. Goto(w, "converge", "stop") /\ UNCHANGED <<cfg, lock, onDisk, script, sup, heir>>
        BY <1>11 DEF BeginSwap, files
    <2> QED  BY <2>1, TickKeeps DEF TickPc, BridgePc, SwapPc
<1>12. CASE StopRuntime(w)
    <2>1. Goto(w, "stop", "relaunch") /\ UNCHANGED <<cfg, lock, onDisk, script, sup, heir>>
        BY <1>12 DEF StopRuntime, files
    <2> QED  BY <2>1, TickKeeps DEF TickPc, BridgePc, SwapPc
<1>13. CASE Relaunch(w)
    <2>1. Goto(w, "relaunch", "gate") /\ UNCHANGED <<cfg, lock, onDisk, script, sup, heir>>
        BY <1>13 DEF Relaunch, files
    <2> QED  BY <2>1, TickKeeps DEF TickPc, BridgePc, SwapPc
<1>14. CASE SwapGate(w)
    <2>1. Goto(w, "gate", "selfUpdate") /\ UNCHANGED <<cfg, lock, onDisk, script, sup, heir>>
        BY <1>14 DEF SwapGate, files
    <2> QED  BY <2>1, TickKeeps DEF TickPc, BridgePc, SwapPc
<1>15. CASE NoSelfUpdate(w)
    <2>1. Goto(w, "selfUpdate", "idle") /\ UNCHANGED <<cfg, lock, onDisk, script, sup, heir>>
        BY <1>15 DEF NoSelfUpdate, files
    <2> QED  BY <2>1, TickKeeps DEF TickPc, BridgePc, SwapPc
<1>16. CASE ConfirmHealth(w)
    <2> DEFINE to == IF Healthy THEN "mark" ELSE "confirm"
    <2>1. Goto(w, "health", to) /\ UNCHANGED <<cfg, lock, onDisk, script, sup, heir>>
        BY <1>16 DEF ConfirmHealth, files
    <2>2. to \in TickPc \ {"launch", "script"}
        BY DEF TickPc, BridgePc
    <2> HIDE DEF to
    <2> QED  BY <2>1, <2>2, TickKeeps DEF TickPc, BridgePc
<1>17. CASE Converge(w)
    <2> DEFINE to == IF cfg[w] = "owned" THEN "idle" ELSE "selfUpdate"
    <2>1. Goto(w, "converge", to) /\ UNCHANGED <<cfg, lock, onDisk, script, sup, heir>>
        BY <1>17 DEF Converge, files
    <2>2. to \in TickPc \ {"launch", "script"}
        BY DEF TickPc
    <2> HIDE DEF to
    <2> QED  BY <2>1, <2>2, TickKeeps DEF TickPc
<1>18. CASE Prepare(w)
    <2>1. OneWorker'
        BY <1>18, GotoKeeps DEF Prepare, TickPc, BridgePc
    <2>2. ConfigIsWritten' /\ EquippedStays' /\ HeirHasParent' /\ HeirIsWriter'
        BY <1>18
           DEF Prepare, IInv, ConfigIsWritten, HeirHasParent, HeirIsWriter, EquippedStays,
               Delivered, SupervisorUp
    <2> QED  BY <2>1, <2>2 DEF IInv
<1>19. CASE Launch(w)
    <2>1. OneWorker' /\ \A v \in Process : pc'[v] = IF v = w THEN "script" ELSE pc[v]
        BY <1>19, GotoKeeps DEF Launch, TickPc, BridgePc
    <2>2. onDisk # "legacy" /\ onDisk' = onDisk
        BY <1>19 DEF Launch, Goto, IInv, ConfigIsWritten, files
    <2>3. ConfigIsWritten' /\ EquippedStays' /\ HeirHasParent' /\ HeirIsWriter'
        BY <1>19, <2>2
           DEF Launch, IInv, ConfigIsWritten, HeirHasParent, HeirIsWriter, EquippedStays,
               Delivered, SupervisorUp
    <2> QED  BY <2>1, <2>3 DEF IInv
<1>20. CASE MarkDone(w)
    BY <1>20, EndingKeeps DEF MarkDone
<1>21. CASE Exec(w)
    <2>1. /\ pc[w] = "selfUpdate" /\ lock' = NoProcess
          /\ pc' = [pc EXCEPT ![w] = "locking"]
          /\ UNCHANGED <<onDisk, script, sup, heir>>
        BY <1>21 DEF Exec, Goto, files
    <2>2. lock = w
        BY <2>1 DEF IInv, OneWorker, Ticking, TickPc
    <2>3. OneWorker'
        BY <2>1, <2>2, ProcessAssumption
           DEF OneWorker, IInv, BridgeTypeOK, Ticking, TickPc, BridgePc, SwapPc
    <2>4. ConfigIsWritten' /\ EquippedStays' /\ HeirHasParent'
        BY <1>21, <2>1
           DEF Exec, IInv, BridgeTypeOK, ConfigIsWritten, HeirHasParent, EquippedStays,
               SupervisorUp
    <2>5. HeirIsWriter'
        BY <1>21, <2>1
           DEF Exec, IInv, BridgeTypeOK, ConfigIsWritten, HeirHasParent, HeirIsWriter,
               EquippedStays, Delivered
    <2> QED  BY <2>3, <2>4, <2>5 DEF IInv
<1> QED
    BY <1>1, <1>2, <1>3, <1>4, <1>5, <1>6, <1>7, <1>8, <1>9, <1>10, <1>11, <1>12, <1>13,
       <1>14, <1>15, <1>16, <1>17, <1>18, <1>19, <1>20, <1>21
       DEF WorkerStep, WorkerMay

(* And so does one of the launch script, the Supervisor and the runtimes. *)
LEMMA OtherKeeps ==
    ASSUME IInv, BridgeTypeOK',
           \/ \E w \in Process : ScriptStep(w) \/ SpawnHeir(w) \/ KillWorker(w)
           \/ SupervisorStep \/ ChildBinds \/ StrayBinds
           \/ KillSupervisor \/ KillRuntime
    PROVE  IInv'
<1>1. ASSUME NEW w \in Process, ScriptKillsRuntime(w) PROVE IInv'
    <2>1. OneWorker'
        BY <1>1 DEF ScriptKillsRuntime, workers, IInv, OneWorker, Ticking
    <2>2. ConfigIsWritten' /\ EquippedStays' /\ HeirHasParent' /\ HeirIsWriter'
        BY <1>1
           DEF ScriptKillsRuntime, workers, files, IInv, BridgeTypeOK, ConfigIsWritten,
               HeirHasParent, HeirIsWriter, EquippedStays, Delivered, SupervisorUp
    <2> QED  BY <2>1, <2>2 DEF IInv
<1>2. ASSUME NEW w \in Process, ScriptKillsWorkers(w) PROVE IInv'
    <2>1. \A v \in Process : script'[v] # "none" => script[v] # "none"
        BY <1>2 DEF ScriptKillsWorkers, IInv, BridgeTypeOK
    <2> QED  BY <1>2, <2>1, EndingKeeps DEF ScriptKillsWorkers, files
<1>3. ASSUME NEW w \in Process, Nohup(w) PROVE IInv'
    <2>1. onDisk # "legacy" /\ onDisk' = onDisk
        BY <1>3 DEF Nohup, files, IInv, ConfigIsWritten
    <2>2. OneWorker'
        BY <1>3
           DEF Nohup, IInv, BridgeTypeOK, OneWorker, Ticking, TickPc, BridgePc
    <2>3. ConfigIsWritten'
        BY <2>1 DEF ConfigIsWritten
    <2>4. EquippedStays' /\ HeirHasParent' /\ HeirIsWriter'
        BY <1>3
           DEF Nohup, files, IInv, HeirHasParent, HeirIsWriter, EquippedStays, Delivered,
               SupervisorUp
    <2> QED  BY <2>2, <2>3, <2>4 DEF IInv
<1>4. ASSUME NEW w \in Process, SpawnHeir(w) PROVE IInv'
    <2>1. onDisk # "legacy" /\ onDisk' = onDisk
        BY <1>4 DEF SpawnHeir, files, IInv, ConfigIsWritten, SupervisorUp
    <2>2. OneWorker'
        BY <1>4
           DEF SpawnHeir, IInv, BridgeTypeOK, OneWorker, Ticking, TickPc, BridgePc, SwapPc
    <2>3. ConfigIsWritten'
        BY <2>1 DEF ConfigIsWritten
    <2>4. EquippedStays' /\ HeirHasParent' /\ HeirIsWriter'
        BY <1>4, <2>1
           DEF SpawnHeir, IInv, BridgeTypeOK, HeirHasParent, HeirIsWriter, EquippedStays,
               Delivered, SupervisorUp
    <2> QED  BY <2>2, <2>3, <2>4 DEF IInv
<1>5. ASSUME NEW w \in Process, KillWorker(w) PROVE IInv'
    BY <1>5, EndingKeeps DEF KillWorker, files
<1>6. CASE SpawnRuntime
    BY <1>6, RuntimeKeeps DEF SpawnRuntime, files
<1>7. CASE GenerationEnds
    BY <1>7, EndingKeeps DEF GenerationEnds, files
<1>8. CASE ChildBinds \/ StrayBinds \/ KillRuntime
    BY <1>8, RuntimeKeeps DEF ChildBinds, StrayBinds, KillRuntime, files
<1>9. CASE KillSupervisor
    <2>1. OneWorker'
        BY <1>9 DEF KillSupervisor, workers, IInv, OneWorker, Ticking
    <2>2. ConfigIsWritten' /\ EquippedStays' /\ HeirHasParent' /\ HeirIsWriter'
        BY <1>9, ProcessAssumption
           DEF KillSupervisor, workers, files, IInv, ConfigIsWritten, HeirHasParent,
               HeirIsWriter, EquippedStays, Delivered, SupervisorUp
    <2> QED  BY <2>1, <2>2 DEF IInv
<1> QED
    BY <1>1, <1>2, <1>3, <1>4, <1>5, <1>6, <1>7, <1>8, <1>9
       DEF ScriptStep, SupervisorStep

LEMMA StepInv == ASSUME IInv, [Next]_vars PROVE IInv'
<1>1. BridgeTypeOK'
    BY TypeStep DEF IInv
<1>2. CASE Next
    BY <1>1, <1>2, WorkerKeeps, OtherKeeps DEF Next
<1>3. CASE UNCHANGED vars
    BY <1>3
       DEF vars, workers, files, runtimes, IInv, BridgeTypeOK, OneWorker, Ticking,
           ConfigIsWritten, HeirHasParent, HeirIsWriter, EquippedStays, Delivered,
           SupervisorUp
<1> QED  BY <1>2, <1>3

-----------------------------------------------------------------------------
THEOREM BridgeInvariant == Spec => []IInv
<1>1. Init => IInv
    BY InitInv
<1>2. IInv /\ [Next]_vars => IInv'
    BY StepInv
<1> QED  BY <1>1, <1>2, PTL DEF Spec

(* Every variable keeps its type. *)
THEOREM BridgeTypeCorrect == Spec => []BridgeTypeOK
<1>1. IInv => BridgeTypeOK
    BY DEF IInv
<1> QED  BY <1>1, BridgeInvariant, PTL

(* Whatever is killed, one Worker at a time is past the lock, and no lock is
   left behind (process_lock.rs:15). *)
THEOREM WorkersTakeTurns == Spec => []OneWorker
<1>1. IInv => OneWorker
    BY DEF IInv
<1> QED  BY <1>1, BridgeInvariant, PTL

(* However often the bridge is cut off and begun again, a Worker spawned by a
   Supervisor loads the configuration with the mailbox, where the server delivers
   it (bridge/mod.rs:180). *)
THEOREM HeirsAreWriters == Spec => []HeirIsWriter
<1>1. IInv => HeirIsWriter
    BY DEF IInv
<1> QED  BY <1>1, BridgeInvariant, PTL

-----------------------------------------------------------------------------
(* Never a second Supervisor.  Between the gate and the launch nothing but the
   Worker that passed the gate, which holds the lock, or the script it started,
   which the gate of any later Worker sees, may lead to a Supervisor. *)
LaunchIsAlone ==
    /\ \A w \in Process : pc[w] \in {"prepare", "launch"} =>
          sup = "down" /\ \A v \in Process : script[v] = "none"
    /\ \A w \in Process : script[w] # "none" =>
          sup = "down" /\ \A v \in Process \ {w} : script[v] = "none"

(* Nobody comes closer to a launch, and no Supervisor appears. *)
Calm ==
    /\ \A w \in Process : pc'[w] \in {"prepare", "launch"} => pc[w] \in {"prepare", "launch"}
    /\ \A w \in Process : script'[w] # "none" => script[w] # "none"
    /\ sup = "down" => sup' = "down"

LEMMA CalmKeeps == ASSUME LaunchIsAlone, Calm PROVE LaunchIsAlone'
BY DEF LaunchIsAlone, Calm

(* Most steps of a Worker and of its script are calm... *)
LEMMA WorkerIsCalm ==
    ASSUME BridgeTypeOK, NEW w \in Process,
           \/ WorkerStep(w) \/ WorkerMay(w) \/ Asked(w) \/ GiveUp(w)
           \/ ScriptStep(w) \/ SpawnHeir(w) \/ KillWorker(w),
           ~NoSupervisor(w), ~Launch(w), ~Nohup(w)
    PROVE  Calm
<1> USE DEF BridgeTypeOK, Calm
<1>1. CASE TryLock(w)
    BY <1>1 DEF TryLock, Ended, files
<1>2. CASE Asked(w)
    BY <1>2 DEF Asked, Goto, files
<1>3. CASE NotAsked(w)
    BY <1>3 DEF NotAsked, Goto, files
<1>4. CASE AlreadyBridged(w)
    BY <1>4 DEF AlreadyBridged, Goto
<1>5. CASE Prepare(w)
    BY <1>5 DEF Prepare, Goto
<1>6. CASE PrepareFails(w)
    BY <1>6 DEF PrepareFails, Goto, files
<1>7. CASE LaunchFails(w)
    BY <1>7 DEF LaunchFails, Goto, files
<1>8. CASE ConfirmLive(w)
    BY <1>8 DEF ConfirmLive, Goto, files
<1>9. CASE ConfirmHealth(w)
    BY <1>9 DEF ConfirmHealth, Goto, files
<1>10. CASE GiveUp(w)
    BY <1>10 DEF GiveUp, Goto, files
<1>11. CASE MarkDone(w)
    BY <1>11 DEF MarkDone, Ended
<1>12. CASE MarkFails(w)
    BY <1>12 DEF MarkFails, Goto, files
<1>13. CASE Converge(w)
    BY <1>13 DEF Converge, Goto, files
<1>14. CASE BeginSwap(w)
    BY <1>14 DEF BeginSwap, Goto, files
<1>15. CASE StopRuntime(w)
    BY <1>15 DEF StopRuntime, Goto, files
<1>16. CASE Relaunch(w)
    BY <1>16 DEF Relaunch, Goto, files
<1>17. CASE SwapGate(w)
    BY <1>17 DEF SwapGate, Goto, files
<1>18. CASE NoSelfUpdate(w)
    BY <1>18 DEF NoSelfUpdate, Goto, files
<1>19. CASE Exec(w)
    BY <1>19 DEF Exec, Goto, files
<1>20. CASE ScriptKillsRuntime(w)
    BY <1>20 DEF ScriptKillsRuntime, workers, files
<1>21. CASE ScriptKillsWorkers(w)
    BY <1>21 DEF ScriptKillsWorkers, Ended, files
<1>22. CASE SpawnHeir(w)
    BY <1>22 DEF SpawnHeir, files
<1>23. CASE KillWorker(w)
    BY <1>23 DEF KillWorker, Ended, files
<1> QED
    BY <1>1, <1>2, <1>3, <1>4, <1>5, <1>6, <1>7, <1>8, <1>9, <1>10, <1>11,
       <1>12, <1>13, <1>14, <1>15, <1>16, <1>17, <1>18, <1>19, <1>20, <1>21,
       <1>22, <1>23
       DEF WorkerStep, WorkerMay, ScriptStep

(* ... and so are all those of the Supervisor and of the runtimes. *)
LEMMA OthersAreCalm ==
    ASSUME BridgeTypeOK,
           SupervisorStep \/ ChildBinds \/ StrayBinds \/ KillSupervisor \/ KillRuntime
    PROVE  Calm
<1> USE DEF BridgeTypeOK, Calm
<1>1. CASE SpawnRuntime
    BY <1>1 DEF SpawnRuntime, workers
<1>2. CASE GenerationEnds
    BY <1>2 DEF GenerationEnds, Ended
<1>3. CASE ChildBinds \/ StrayBinds \/ KillRuntime
    BY <1>3 DEF ChildBinds, StrayBinds, KillRuntime, workers
<1>4. CASE KillSupervisor
    BY <1>4 DEF KillSupervisor, workers
<1> QED  BY <1>1, <1>2, <1>3, <1>4 DEF SupervisorStep

LEMMA LaunchStep ==
    ASSUME IInv, LaunchIsAlone, [Next]_vars
    PROVE  LaunchIsAlone'
<1>1. ASSUME NEW w \in Process, NoSupervisor(w) PROVE LaunchIsAlone'
    BY <1>1 DEF NoSupervisor, SupervisorLive, SupervisorUp, LaunchIsAlone
<1>2. ASSUME NEW w \in Process, Launch(w) PROVE LaunchIsAlone'
    <2>1. /\ pc[w] = "launch" /\ sup = "down" /\ sup' = "down"
          /\ \A v \in Process : script[v] = "none"
          /\ \A v \in Process \ {w} : script'[v] = "none"
        BY <1>2 DEF Launch, Goto, LaunchIsAlone, IInv, BridgeTypeOK
    <2>2. lock = w
        BY <2>1 DEF IInv, OneWorker, Ticking, TickPc, BridgePc
    <2>3. \A v \in Process : pc'[v] \notin {"prepare", "launch"}
        <3> SUFFICES ASSUME NEW v \in Process PROVE pc'[v] \notin {"prepare", "launch"}
            OBVIOUS
        <3>1. CASE v = w
            BY <1>2, <3>1 DEF Launch, Goto, IInv, BridgeTypeOK
        <3>2. CASE v # w
            <4>1. ~Ticking(v)
                BY <2>2, <3>2 DEF IInv, OneWorker
            <4>2. pc'[v] = pc[v]
                BY <1>2, <3>2 DEF Launch, Goto, IInv, BridgeTypeOK
            <4> QED  BY <4>1, <4>2 DEF Ticking, TickPc, BridgePc
        <3> QED  BY <3>1, <3>2
    <2> QED  BY <2>1, <2>3 DEF LaunchIsAlone
<1>3. ASSUME NEW w \in Process, Nohup(w) PROVE LaunchIsAlone'
    <2>1. script[w] # "none" /\ \A v \in Process : script'[v] = "none"
        BY <1>3 DEF Nohup, LaunchIsAlone, IInv, BridgeTypeOK
    <2>2. \A v \in Process : pc[v] \notin {"prepare", "launch"}
        BY <2>1 DEF LaunchIsAlone
    <2>3. \A v \in Process : pc'[v] \in {pc[v], "confirm"}
        BY <1>3 DEF Nohup, IInv, BridgeTypeOK
    <2> QED  BY <2>1, <2>2, <2>3 DEF LaunchIsAlone
<1>4. CASE UNCHANGED vars
    BY <1>4 DEF vars, workers, LaunchIsAlone
<1> QED
    BY <1>1, <1>2, <1>3, <1>4, WorkerIsCalm, OthersAreCalm, CalmKeeps DEF Next, IInv

(* Whoever exits, is killed or exec's meanwhile, a launch script finds no
   Supervisor when it starts one (bridge/mod.rs:153). *)
THEOREM NoSecondSupervisor == Spec => OneSupervisor
<1>1. Init => LaunchIsAlone
    BY DEF Init, LaunchIsAlone
<1>2. LaunchIsAlone =>
        \A w \in Process : script[w] = "nohup" /\ script'[w] = "none" => sup = "down"
    BY DEF LaunchIsAlone
<1> QED  BY <1>1, <1>2, LaunchStep, BridgeInvariant, PTL DEF Spec, OneSupervisor
=============================================================================
