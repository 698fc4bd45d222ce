-------------------------- MODULE SupervisorBridge --------------------------
(***************************************************************************)
(* The one-time bridge of a legacy sandbox (supervisor_bridge/bridge): a   *)
(* Worker that was started on its own, beside an AnyHarness that was       *)
(* started on its own, writes the Supervisor's files, launches a           *)
(* Supervisor, waits until it seems to have taken over, and exits, so that *)
(* the Supervisor's own Worker can take the lock.                          *)
(*                                                                         *)
(* Every Worker process has a slot in Process.  AnyHarness listens on one  *)
(* port: of the Supervisor's child and one nobody supervises (stray) at    *)
(* most one serves, and one that finds the port taken exits.               *)
(***************************************************************************)
EXTENDS Naturals

CONSTANTS
    Process,      \* slots for Worker processes
    NoProcess,
    MaxFaults,    \* bound on killed processes and failed file operations
    MaxSwaps      \* bound on the updates a legacy Worker makes in place

ASSUME ProcessAssumption == NoProcess \notin Process
ASSUME BridgeBoundsAssumption == MaxFaults \in Nat /\ MaxSwaps \in Nat

VARIABLES
    pc,           \* pc[w]: what the Worker process w does next, or "none"
    cfg,          \* cfg[w]: the configuration it has loaded
    lock,         \* the holder of the lock beside worker.sqlite3
    onDisk,       \* the Worker configuration at the path both sides use
    done,         \* bridge.done
    script,       \* script[w]: the next part of the launch script of w
    sup,          \* the Supervisor: down, before a generation, or running one
    heir,         \* the Worker process that is its child
    ah,           \* the AnyHarness that is its child
    stray,        \* the AnyHarness nobody supervises
    faults,       \* faults still allowed to happen
    swaps,        \* pins a legacy Worker may still be given
    late          \* whether a confirmation of a live Supervisor was given up

workers == <<pc, cfg, lock>>
files == <<onDisk, done>>
runtimes == <<ah, stray>>
vars == <<workers, files, script, sup, heir, runtimes, faults, swaps, late>>

BridgePc == {"probe", "prepare", "launch", "script", "confirm", "health", "mark"}
SwapPc == {"stop", "relaunch", "gate"}
TickPc == {"idle", "converge", "selfUpdate"} \cup BridgePc \cup SwapPc

BridgeTypeOK ==
    /\ pc \in [Process -> {"none", "locking"} \cup TickPc]
    /\ cfg \in [Process -> {"legacy", "equipped", "owned"}]
    /\ lock \in Process \cup {NoProcess}
    /\ onDisk \in {"legacy", "equipped", "owned"}
    /\ done \in BOOLEAN
    /\ script \in [Process -> {"none", "runtime", "workers", "nohup"}]
    /\ sup \in {"down", "between", "running"}
    /\ heir \in Process \cup {NoProcess}
    /\ ah \in {"none", "starting", "serving"}
    /\ stray \in {"none", "starting", "serving"}
    /\ faults \in 0 .. MaxFaults
    /\ swaps \in 0 .. MaxSwaps
    /\ late \in BOOLEAN

(* A legacy sandbox at rest: its Worker between two heartbeats.  An operator may
   have equipped its configuration with the inputs of the bridge; without a
   mailbox it still is that of a Worker that swaps in place. *)
Init ==
    /\ lock \in Process
    /\ pc = [w \in Process |-> IF w = lock THEN "idle" ELSE "none"]
    /\ onDisk \in {"legacy", "equipped"}
    /\ cfg = [w \in Process |-> onDisk]
    /\ done = FALSE
    /\ script = [w \in Process |-> "none"]
    /\ sup = "down"
    /\ heir = NoProcess
    /\ ah = "none"
    /\ stray = "serving"
    /\ faults = MaxFaults
    /\ swaps = MaxSwaps
    /\ late = FALSE

-----------------------------------------------------------------------------
(* Helpers. *)

Goto(w, from, to) ==
    /\ pc[w] = from
    /\ pc' = [pc EXCEPT ![w] = to]

Fault ==
    /\ faults > 0
    /\ faults' = faults - 1

(* anyharness_healthy: whoever holds the port answers. *)
Healthy == "serving" \in {ah, stray}

SupervisorUp == sup # "down"

(* supervisor_live: pgrep -f finds the path in a command line, be it that of
   the Supervisor or of the shell that is about to launch one. *)
SupervisorLive == SupervisorUp \/ \E w \in Process : script[w] # "none"

(* The processes S end: their lock is released, and the Supervisor no longer
   has the one that was its child. *)
Ended(S) ==
    /\ pc' = [w \in Process |-> IF w \in S THEN "none" ELSE pc[w]]
    /\ lock' = IF lock \in S THEN NoProcess ELSE lock
    /\ heir' = IF heir \in S THEN NoProcess ELSE heir

(* pgrep of the fixed binary path does not tell whose child a runtime is. *)
RuntimesKilled ==
    /\ ah' = "none"
    /\ stray' = "none"

-----------------------------------------------------------------------------
(* A Worker's life and heartbeat. *)

(* Mutant: goes on although the lock is taken. *)
TryLockMutant(w) ==
    /\ pc[w] = "locking"
    /\ lock' = w
    /\ pc' = [pc EXCEPT ![w] = "idle"]
    /\ UNCHANGED <<cfg, files, script, sup, heir, runtimes, faults, swaps, late>>

(* WorkerProcessLock::acquire: try once, exit when the lock is taken. *)
TryLock(w) ==
    /\ pc[w] = "locking"
    /\ \/ /\ lock = NoProcess
          /\ lock' = w
          /\ pc' = [pc EXCEPT ![w] = "idle"]
          /\ UNCHANGED heir
       \/ /\ lock # NoProcess
          /\ Ended({w})
    /\ UNCHANGED <<cfg, files, script, sup, runtimes, faults, swaps, late>>

(* The ack asks for the Supervisor-owned topology and carries its inputs. *)
Asked(w) ==
    /\ Goto(w, "idle", "probe")
    /\ UNCHANGED <<cfg, lock, files, script, sup, heir, runtimes, faults, swaps, late>>

(* The ack does not ask, or the server could not build the inputs. *)
NotAsked(w) ==
    /\ Goto(w, "idle", "converge")
    /\ UNCHANGED <<cfg, lock, files, script, sup, heir, runtimes, faults, swaps, late>>

(* The gate: a live Supervisor is enough for done and for going on. *)
AlreadyBridged(w) ==
    /\ SupervisorLive
    /\ Goto(w, "probe", "converge")
    /\ \/ done' = TRUE /\ UNCHANGED faults
       \/ ~done /\ Fault /\ UNCHANGED done
    /\ UNCHANGED <<cfg, lock, onDisk, script, sup, heir, runtimes, swaps, late>>

(* Mutant: the marker, and not the process, tells whether to launch. *)
NoSupervisorMutant(w) ==
    /\ ~done
    /\ Goto(w, "probe", "prepare")
    /\ UNCHANGED <<cfg, lock, files, script, sup, heir, runtimes, faults, swaps, late>>

NoSupervisor(w) ==
    /\ ~SupervisorLive
    /\ Goto(w, "probe", "prepare")
    /\ UNCHANGED <<cfg, lock, files, script, sup, heir, runtimes, faults, swaps, late>>

(* Mutant: only the Supervisor's configuration is written. *)
PrepareMutant(w) ==
    /\ Goto(w, "prepare", "launch")
    /\ UNCHANGED <<cfg, lock, files, script, sup, heir, runtimes, faults, swaps, late>>

(* bridge.started, the Supervisor's configuration and, unless the inputs are
   those of the loaded configuration, which are tried first, the Worker's. *)
Prepare(w) ==
    /\ Goto(w, "prepare", "launch")
    /\ onDisk' = IF cfg[w] = "equipped" THEN onDisk ELSE "owned"
    /\ UNCHANGED <<cfg, lock, done, script, sup, heir, runtimes, faults, swaps, late>>

(* One of the writes fails: the attempt is over for this tick. *)
PrepareFails(w) ==
    /\ Goto(w, "prepare", "converge")
    /\ Fault
    /\ UNCHANGED <<cfg, lock, files, script, sup, heir, runtimes, swaps, late>>

(* Mutant: the old AnyHarness keeps the port. *)
LaunchMutant(w) ==
    /\ Goto(w, "launch", "script")
    /\ script' = [script EXCEPT ![w] = "workers"]
    /\ UNCHANGED <<cfg, lock, files, sup, heir, runtimes, faults, swaps, late>>

(* spawn_supervisor: the script clears AnyHarness first when the loaded
   configuration knows its path, as only one without a mailbox does. *)
Launch(w) ==
    /\ Goto(w, "launch", "script")
    /\ script' = [script EXCEPT ![w] =
                     IF cfg[w] = "owned" THEN "workers" ELSE "runtime"]
    /\ UNCHANGED <<cfg, lock, files, sup, heir, runtimes, faults, swaps, late>>

(* The shell cannot be started. *)
LaunchFails(w) ==
    /\ Goto(w, "launch", "converge")
    /\ Fault
    /\ UNCHANGED <<cfg, lock, files, script, sup, heir, runtimes, swaps, late>>

ConfirmLive(w) ==
    /\ SupervisorLive
    /\ Goto(w, "confirm", "health")
    /\ UNCHANGED <<cfg, lock, files, script, sup, heir, runtimes, faults, swaps, late>>

(* Mutant: the process of the Supervisor is all the evidence. *)
ConfirmHealthMutant(w) ==
    /\ Goto(w, "health", "mark")
    /\ UNCHANGED <<cfg, lock, files, script, sup, heir, runtimes, faults, swaps, late>>

ConfirmHealth(w) ==
    /\ Goto(w, "health", IF Healthy THEN "mark" ELSE "confirm")
    /\ UNCHANGED <<cfg, lock, files, script, sup, heir, runtimes, faults, swaps, late>>

(* BridgeNotConfirmed: the tick goes on as if nothing had been launched. *)
GiveUp(w) ==
    /\ Goto(w, "confirm", "converge")
    /\ late' = (late \/ SupervisorUp)
    /\ UNCHANGED <<cfg, lock, files, script, sup, heir, runtimes, faults, swaps>>

(* Mutant: no exit after bridge.done. *)
MarkDoneMutant(w) ==
    /\ Goto(w, "mark", "converge")
    /\ done' = TRUE
    /\ UNCHANGED <<cfg, lock, onDisk, script, sup, heir, runtimes, faults, swaps, late>>

(* Bridged: bridge.done, then a clean exit. *)
MarkDone(w) ==
    /\ pc[w] = "mark"
    /\ done' = TRUE
    /\ Ended({w})
    /\ UNCHANGED <<cfg, onDisk, script, sup, runtimes, faults, swaps, late>>

MarkFails(w) ==
    /\ Goto(w, "mark", "converge")
    /\ Fault
    /\ UNCHANGED <<cfg, lock, files, script, sup, heir, runtimes, swaps, late>>

-----------------------------------------------------------------------------
(* The rest of the tick: what a Worker does about a pin. *)

(* A Worker with a mailbox writes a request at most; and so does nothing here
   a legacy Worker whose AnyHarness is as pinned. *)
Converge(w) ==
    /\ Goto(w, "converge", IF cfg[w] = "owned" THEN "idle" ELSE "selfUpdate")
    /\ UNCHANGED <<cfg, lock, files, script, sup, heir, runtimes, faults, swaps, late>>

(* Mutant: a pin that was swapped in, or failed, is taken up again. *)
BeginSwapMutant(w) ==
    /\ cfg[w] # "owned"
    /\ swaps' = swaps - 1
    /\ Goto(w, "converge", "stop")
    /\ UNCHANGED <<cfg, lock, files, script, sup, heir, runtimes, faults, late>>

(* anyharness_update::converge has a verified artifact at hand. *)
BeginSwap(w) ==
    /\ cfg[w] # "owned"
    /\ swaps > 0
    /\ swaps' = swaps - 1
    /\ Goto(w, "converge", "stop")
    /\ UNCHANGED <<cfg, lock, files, script, sup, heir, runtimes, faults, late>>

(* stop_runtime, and the two renames. *)
StopRuntime(w) ==
    /\ Goto(w, "stop", "relaunch")
    /\ RuntimesKilled
    /\ UNCHANGED <<cfg, lock, files, script, sup, heir, faults, swaps, late>>

Launched == stray' = IF stray = "none" THEN "starting" ELSE stray

Relaunch(w) ==
    /\ Goto(w, "relaunch", "gate")
    /\ Launched
    /\ UNCHANGED <<cfg, lock, files, script, sup, heir, ah, faults, swaps, late>>

(* health_gate, and the rollback with a second launch when it fails. *)
SwapGate(w) ==
    /\ Goto(w, "gate", "selfUpdate")
    /\ \/ Healthy /\ UNCHANGED stray
       \/ Launched
    /\ UNCHANGED <<cfg, lock, files, script, sup, heir, ah, faults, swaps, late>>

NoSelfUpdate(w) ==
    /\ Goto(w, "selfUpdate", "idle")
    /\ UNCHANGED <<cfg, lock, files, script, sup, heir, runtimes, faults, swaps, late>>

(* self_update::converge ends in exec: the lock is released, and the new image
   loads the configuration that is on disk now. *)
Exec(w) ==
    /\ swaps > 0
    /\ swaps' = swaps - 1
    /\ Goto(w, "selfUpdate", "locking")
    /\ lock' = NoProcess
    /\ cfg' = [cfg EXCEPT ![w] = onDisk]
    /\ UNCHANGED <<files, script, sup, heir, runtimes, faults, late>>

-----------------------------------------------------------------------------
(* The launch script, a process of its own that outlives the Worker. *)

ScriptKillsRuntime(w) ==
    /\ script[w] = "runtime"
    /\ script' = [script EXCEPT ![w] = "workers"]
    /\ RuntimesKilled
    /\ UNCHANGED <<workers, files, sup, heir, faults, swaps, late>>

(* Every Worker but the one that started the script. *)
ScriptKillsWorkers(w) ==
    /\ script[w] = "workers"
    /\ script' = [script EXCEPT ![w] = "nohup"]
    /\ Ended(Process \ {w})
    /\ UNCHANGED <<cfg, files, sup, runtimes, faults, swaps, late>>

(* The shell puts the Supervisor in the background and ends with success,
   also when the Supervisor cannot be started. *)
Nohup(w) ==
    /\ script[w] = "nohup"
    /\ script' = [script EXCEPT ![w] = "none"]
    /\ \/ sup' = "between" /\ UNCHANGED faults
       \/ Fault /\ UNCHANGED sup
    /\ pc' = [pc EXCEPT ![w] = IF @ = "script" THEN "confirm" ELSE @]
    /\ UNCHANGED <<cfg, lock, files, heir, runtimes, swaps, late>>

-----------------------------------------------------------------------------
(* The Supervisor and the runtimes. *)

SpawnRuntime ==
    /\ sup = "between"
    /\ sup' = "running"
    /\ ah' = "starting"
    /\ UNCHANGED <<workers, files, script, heir, stray, faults, swaps, late>>

(* The child loads the configuration that is on disk now. *)
SpawnHeir(w) ==
    /\ sup = "running"
    /\ heir = NoProcess
    /\ pc[w] = "none"
    /\ script[w] = "none"
    /\ heir' = w
    /\ pc' = [pc EXCEPT ![w] = "locking"]
    /\ cfg' = [cfg EXCEPT ![w] = onDisk]
    /\ UNCHANGED <<lock, files, script, sup, runtimes, faults, swaps, late>>

(* Mutant: a generation ends when its Worker has exited, too. *)
GenerationEndsMutant ==
    /\ sup = "running"
    /\ ah = "none"
    /\ heir = NoProcess
    /\ sup' = "between"
    /\ UNCHANGED <<workers, files, script, heir, runtimes, faults, swaps, late>>

(* The exit of AnyHarness ends the generation, its Worker included. *)
GenerationEnds ==
    /\ sup = "running"
    /\ ah = "none"
    /\ sup' = "between"
    /\ Ended({heir} \cap Process)
    /\ UNCHANGED <<cfg, files, script, runtimes, faults, swaps, late>>

(* A starting AnyHarness binds the port, or exits because it is taken. *)
ChildBinds ==
    /\ ah = "starting"
    /\ ah' = IF stray = "serving" THEN "none" ELSE "serving"
    /\ UNCHANGED <<workers, files, script, sup, heir, stray, faults, swaps, late>>

StrayBinds ==
    /\ stray = "starting"
    /\ stray' = IF ah = "serving" THEN "none" ELSE "serving"
    /\ UNCHANGED <<workers, files, script, sup, heir, ah, faults, swaps, late>>

(* A killed Supervisor does not drop its children: they go on by themselves. *)
KillSupervisor ==
    /\ SupervisorUp
    /\ Fault
    /\ sup' = "down"
    /\ heir' = NoProcess
    /\ ah' = "none"
    /\ stray' = IF stray = "serving" \/ ah = "none" THEN stray ELSE ah
    /\ UNCHANGED <<workers, files, script, swaps, late>>

KillWorker(w) ==
    /\ pc[w] # "none"
    /\ Fault
    /\ Ended({w})
    /\ UNCHANGED <<cfg, files, script, sup, runtimes, swaps, late>>

KillRuntime ==
    /\ Fault
    /\ \/ ah # "none" /\ ah' = "none" /\ UNCHANGED stray
       \/ stray # "none" /\ stray' = "none" /\ UNCHANGED ah
    /\ UNCHANGED <<workers, files, script, sup, heir, swaps, late>>

-----------------------------------------------------------------------------
WorkerStep(w) ==
    \/ TryLock(w)
    \/ AlreadyBridged(w) \/ NoSupervisor(w) \/ Prepare(w) \/ Launch(w)
    \/ ConfirmLive(w) \/ ConfirmHealth(w) \/ MarkDone(w)
    \/ Converge(w) \/ StopRuntime(w) \/ Relaunch(w) \/ SwapGate(w) \/ NoSelfUpdate(w)

WorkerMay(w) ==
    \/ NotAsked(w)
    \/ PrepareFails(w) \/ LaunchFails(w) \/ MarkFails(w)
    \/ BeginSwap(w) \/ Exec(w)

ScriptStep(w) == ScriptKillsRuntime(w) \/ ScriptKillsWorkers(w) \/ Nohup(w)

SupervisorStep == SpawnRuntime \/ GenerationEnds

Next ==
    \/ \E w \in Process :
        \/ WorkerStep(w) \/ WorkerMay(w) \/ Asked(w) \/ GiveUp(w)
        \/ ScriptStep(w) \/ SpawnHeir(w) \/ KillWorker(w)
    \/ SupervisorStep \/ ChildBinds \/ StrayBinds
    \/ KillSupervisor \/ KillRuntime

Spec == Init /\ [][Next]_vars

(* Processes run; a confirmation ends; a server that wants the topology goes on
   asking; a Supervisor goes on spawning its Worker. *)
Fairness ==
    /\ \A w \in Process :
        /\ WF_vars(WorkerStep(w)) /\ WF_vars(ScriptStep(w)) /\ WF_vars(GiveUp(w))
        /\ SF_vars(Asked(w))
    /\ WF_vars(SupervisorStep)
    /\ WF_vars(\E w \in Process : SpawnHeir(w))
    /\ WF_vars(ChildBinds)
    /\ WF_vars(StrayBinds)

FairSpec == Spec /\ Fairness

-----------------------------------------------------------------------------
(* What the hand-over must respect. *)

Ticking(w) == pc[w] \in TickPc

(* Never two Workers past the lock, whatever is killed and whoever exec's: the
   one that ticks, and uses the identity and the store, is the holder of the
   lock, and a lock is not held for a process that is gone (process_lock.rs:15). *)
OneWorker ==
    \A w \in Process : Ticking(w) <=> lock = w

(* Never a second Supervisor: the gate is read long before the script of a
   Worker, which may be dead by then, launches one; until it does, the command
   line of the script keeps others from it (bridge/mod.rs:153). *)
OneSupervisor ==
    [][\A w \in Process :
          script[w] = "nohup" /\ script'[w] = "none" => sup = "down"]_vars

(* The inputs of the bridge are the server's.  With those of a configuration an
   operator has equipped the Worker's stays as it was: its Supervisor spawns one
   more Worker that swaps in place. *)
Delivered == onDisk # "equipped"

(* A Worker that a Supervisor spawned writes to the mailbox and never swaps in
   place, wherever the bridge that launched this Supervisor was cut off. *)
HeirIsWriter ==
    Delivered /\ heir \in Process => cfg[heir] = "owned"

(* A Supervisor that stays up has a runtime serving the sandbox for good, its
   own or one that was there before (process/mod.rs:67). *)
ServedUnderSupervisor ==
    <>[]SupervisorUp => <>[]Healthy

(* So far nothing was killed and no write failed, and a Supervisor had its
   AnyHarness up before the 30 attempts of a confirmation were spent.  What
   follows is promised without these conditions, and needs them. *)
Undisturbed == faults = MaxFaults /\ ~late

(* The hand-over comes to an end: the Supervisor's Worker has the lock, and the
   Supervisor's AnyHarness the port (bridge/mod.rs:4). *)
HandedOver ==
    [](Delivered /\ Undisturbed) => <>[](heir \in Process /\ lock = heir /\ ah = "serving")

(* L1 of MANAGED_RUNTIME.md: only the owner of the processes swaps binaries, so
   no Worker is in the middle of a swap while a Supervisor lives. *)
OnlyOwnerSwaps ==
    Delivered /\ Undisturbed =>
        \A w \in Process : pc[w] \in SwapPc => ~SupervisorUp

(* bridge.done is not written while no runtime answers (bridge/mod.rs:197). *)
DoneIsProven ==
    [][Undisturbed /\ done' /\ ~done => Healthy]_vars

(* A hand-over that is confirmed beside a live Supervisor was one: the runtime
   that answered is the Supervisor's (bridge/mod.rs:202). *)
ConfirmedIsOwned ==
    [][\A w \in Process :
          Undisturbed /\ pc[w] = "health" /\ pc'[w] = "mark" => ah = "serving"]_vars

(* A hand-over that is not confirmed leaves a runtime serving
   (bridge/mod.rs:195), which is not so: the launch script has killed it. *)
UnconfirmedKeepsServing ==
    [][\A w \in Process :
          pc[w] = "confirm" /\ pc'[w] = "converge" => Healthy]_vars
=============================================================================
