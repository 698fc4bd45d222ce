------------------------ MODULE RuntimeUpdateProofs -------------------------
(***************************************************************************)
(* What RuntimeInvariant claims, proved for every set of versions, every   *)
(* set of requests, any number of pin changes and of faults.  From it: the *)
(* loop with the real Worker and the real server refines the Supervisor    *)
(* with its free Worker, so that all that is proved of Supervisor holds in *)
(* the composed system as well.                                            *)
(***************************************************************************)
EXTENDS RuntimeInvariant, SupervisorProofs

-----------------------------------------------------------------------------
(* The Supervisor makes up no key and no version: what its files, its memory *)
(* and its results speak of stays among the keys they spoke of before.       *)
LEMMA ConfinedStep ==
  ASSUME IInv, NEW K \in SUBSET Key, Confined(K), SupervisorNext
  PROVE  Confined(K)'
<1> USE NoVersionAssumption, InitVersionAssumption
<1>0. /\ active \in [Component -> Version \cup {NoVersion}]
      /\ prev \in [Component -> Version \cup {NoVersion}]
      /\ child \in [Component -> Version \cup {NoVersion}]
      /\ results \in [Key -> Outcome \cup {NoResult}]
      /\ fixing \in Component \cup {"startup"}
      /\ scan.keys \subseteq Key
      /\ JobOK /\ FixingOK
  BY DEF IInv, TypeOK, MailboxTypeOK
<1>a. NoKey \notin K
  BY DEF Key, Component, NoKey
<1>b. pc \in JobPc => cur \in K
  BY <1>0 DEF Confined, JobOK, Key, Component, NoKey
<1>c. scan \in [keys : SUBSET Key, later : SUBSET (Key \X Key), best : SUBSET Key]
  BY DEF IInv, TypeOK
<1> USE <1>0, <1>a
    DEF Confined, Known, HasResult, JobOK, FixingOK, Component, Key, Outcome, NoResult, Present,
        Goto, disk, job, mailbox, DrainPc, JobPc, StagePc, SwapPc, FinishPc
<1>1. CASE Start BY <1>1 DEF Start
<1>2. CASE Reconcile BY <1>2 DEF Reconcile, AfterReconcile, Interrupted
<1>3. CASE ReconcileFails BY <1>3 DEF ReconcileFails
<1>4. CASE ClearJournal BY <1>4 DEF ClearJournal, RemoveJournal
<1>5. CASE RestorePrev BY <1>5 DEF RestorePrev, SpawnOf
<1>6. CASE SpawnAnyharness BY <1>6 DEF SpawnAnyharness, Spawn, SpawnOf
<1>7. CASE SpawnWorker BY <1>7 DEF SpawnWorker, Spawn, SpawnOf
<1>8. CASE AnyharnessExited BY <1>8 DEF AnyharnessExited
<1>9. CASE WorkerExited BY <1>9 DEF WorkerExited
<1>10. CASE Tick BY <1>10 DEF Tick
<1>11. CASE ListRequests BY <1>11 DEF ListRequests, EmptyScan
<1>12. CASE ListFails BY <1>12 DEF ListFails
<1>13. CASE ReadRequests
  <2>1. \A k \in Key : results'[k] # results[k] => k \in scan.keys
    BY <1>13 DEF ReadRequests, Invalidate, Unreadable
  <2>2. scan'.keys \subseteq scan.keys /\ UNCHANGED <<requests, disk, child, cur>>
    BY <1>13 DEF ReadRequests, Invalidate
  <2> QED BY <2>1, <2>2
<1>14. CASE RankRequests \/ SupersedeRequests \/ SupersedeFails
  <2>1. \A k \in Key : results'[k] # results[k] => k \in scan.keys
    BY <1>14
       DEF RankRequests, SupersedeRequests, SupersedeFails, Invalidate, Superseded, Pending
  <2>2. UNCHANGED <<requests, disk, child, cur>>
    BY <1>14 DEF RankRequests, SupersedeRequests, SupersedeFails, Invalidate
  <2>3. scan'.keys \subseteq scan.keys
    <3>1. CASE RankRequests
      BY <1>c, <3>1 DEF RankRequests
    <3>2. CASE SupersedeRequests \/ SupersedeFails
      <4>1. scan'.keys \in {scan.keys, {}}
        BY <3>2 DEF SupersedeRequests, SupersedeFails, EmptyScan
      <4> QED BY <4>1
    <3> QED BY <1>14, <3>1, <3>2
  <2> QED BY <2>1, <2>2, <2>3
<1>15. CASE PickRequest
  BY <1>15 DEF PickRequest, EmptyScan, FirstPending, Pending
<1>16. CASE CheckActive \/ CheckUnreadable BY <1>16 DEF CheckActive, CheckUnreadable
<1>17. CASE FetchOk BY <1>17 DEF FetchOk
<1>18. CASE FetchTransient BY <1>18 DEF FetchTransient, EndJob
<1>19. CASE FetchTerminal BY <1>19 DEF FetchTerminal, Refuse
<1>20. CASE Stage
  <2>1. cur \in K
    BY <1>20, <1>b DEF Stage
  <2>2. /\ UNCHANGED <<mailbox, active, prev, journal, child, scan, cur>>
        /\ staged' \subseteq staged \cup {cur}
    BY <1>20 DEF Stage, Refuse
  <2> QED BY <2>1, <2>2
<1>21. CASE WriteJournal BY <1>21 DEF WriteJournal, Refuse
<1>22. CASE MovePrev BY <1>22 DEF MovePrev, Refuse
<1>23. CASE Place
  <2>1. cur \in K
    BY <1>23, <1>b DEF Place
  <2>2. \A c \in Component : active'[c] \in Known(K, c)
    BY <1>23, <2>1 DEF Place
  <2>3. UNCHANGED <<mailbox, prev, journal, child, scan, cur>> /\ staged' \subseteq staged
    BY <1>23 DEF Place
  <2> QED BY <2>2, <2>3
<1>24. CASE PutBack BY <1>24 DEF PutBack
<1>25. CASE Unjournal BY <1>25 DEF Unjournal, RemoveJournal
<1>26. CASE RestartAnyharness \/ RestartWorker
  <2>1. UNCHANGED <<mailbox, disk, scan, job>>
    BY <1>26 DEF RestartAnyharness, RestartWorker, Restart
  <2>2. \A c \in Component : child'[c] \in {child[c], active[c], NoVersion}
    BY <1>26 DEF RestartAnyharness, RestartWorker, Restart
  <2> QED BY <2>1, <2>2
<1>28. CASE GatePasses BY <1>28 DEF GatePasses
<1>29. CASE GateFails BY <1>29 DEF GateFails
<1>30. CASE RollBack BY <1>30 DEF RollBack, Refuse
<1>31. CASE Record
  <2>1. cur \in K
    BY <1>31, <1>b DEF Record
  <2>2. \A k \in Key : results'[k] # results[k] => k = cur
    BY <1>31 DEF Record, WriteResult
  <2>3. UNCHANGED <<requests, disk, child, scan>> /\ cur' = NoKey
    BY <1>31 DEF Record, WriteResult, EndJob
  <2> QED BY <2>1, <2>2, <2>3
<1>32. CASE RecordFails BY <1>32 DEF RecordFails, EndJob
<1>33. CASE Crash BY <1>33 DEF Crash, EndJob, EmptyScan
<1>34. CASE \E c \in Component : SpawnFails(c) BY <1>34 DEF SpawnFails
<1>35. CASE \E c \in Component : ChildExits(c) BY <1>35 DEF ChildExits
<1> QED
  BY <1>1, <1>2, <1>3, <1>4, <1>5, <1>6, <1>7, <1>8, <1>9, <1>10, <1>11, <1>12,
     <1>13, <1>14, <1>15, <1>16, <1>17, <1>18, <1>19, <1>20, <1>21, <1>22, <1>23,
     <1>24, <1>25, <1>26, <1>28, <1>29, <1>30, <1>31, <1>32, <1>33, <1>34,
     <1>35
     DEF SupervisorNext, Lifecycle, Drain, Failure

-----------------------------------------------------------------------------
(* The Supervisor writes no request, and what is Activated stays so until    *)
(* the Worker collects it: a result is only written where there is none.     *)
LEMMA ActivatedStays ==
  ASSUME IInv, SupervisorNext
  PROVE  /\ requests' = requests
         /\ \A k \in Key : results[k] = "Activated" => results'[k] = "Activated"
<1>0. results \in [Key -> Outcome \cup {NoResult}] /\ JobOK
  BY DEF IInv, TypeOK, MailboxTypeOK
<1>1. CASE ReadRequests
  BY <1>0, <1>1 DEF ReadRequests, Invalidate, Unreadable, HasResult, NoResult
<1>2. CASE SupersedeRequests
  BY <1>0, <1>2 DEF SupersedeRequests, Invalidate, Superseded, Pending, HasResult, NoResult
<1>3. CASE SupersedeFails
  BY <1>0, <1>3 DEF SupersedeFails, Invalidate, Superseded, Pending, HasResult, NoResult
<1>4. CASE Record
  <2>1. results[cur] = NoResult
    BY <1>0, <1>4 DEF Record, JobOK, JobPc, FinishPc
  <2> QED BY <1>0, <1>4, <2>1 DEF Record, WriteResult, NoResult
<1>5. CASE ~ReadRequests /\ ~SupersedeRequests /\ ~SupersedeFails /\ ~Record
  <2>1. UNCHANGED mailbox
    BY <1>5 DEF SupervisorNext, Lifecycle, Drain, Failure, mailbox,
     Start, Reconcile, ClearJournal, RestorePrev, SpawnAnyharness, SpawnWorker, Spawn,
     AnyharnessExited, WorkerExited, Tick, ListRequests, RankRequests, PickRequest, CheckActive,
     CheckUnreadable, FetchOk, FetchTransient, FetchTerminal, Stage, WriteJournal,
     MovePrev, Place, PutBack, Unjournal, RestartAnyharness,
     RestartWorker, Restart, GatePasses, GateFails, RollBack, ReconcileFails, ListFails,
     RecordFails, Crash, SpawnFails, ChildExits
  <2> QED BY <2>1 DEF mailbox
<1> QED
  BY <1>1, <1>2, <1>3, <1>4, <1>5

(* A version the Worker asks for was pinned: were it the provisioned one,    *)
(* which is not known to have been pinned again, the component would run it. *)
LEMMA PlansArePinned ==
  ASSUME RTInv, Present(child["worker"]), wpc # "idle",
         NEW running \in {Running, RunningMisread}, Diverges(running)
  PROVE  Wanted \in Requested
<1> USE NoVersionAssumption
<1>1. /\ focus \in Component /\ UntouchedOK
      /\ Pinnable(focus, desired[focus])
  BY DEF RTInv, RTTypeOK, DesiredOK
<1>2. CASE desired[focus] # InitVersion \/ OncePinned(focus)
  BY <1>1, <1>2 DEF Pinnable, Wanted, OncePinned
<1>3. CASE desired[focus] = InitVersion /\ ~OncePinned(focus)
  <2>1. Untouched(focus)
    BY <1>1, <1>3 DEF UntouchedOK
  <2>2. focus = "worker" => child["worker"] \in {NoVersion, InitVersion}
    BY <1>1, <2>1 DEF Untouched, Confined, Known, OthersKeys
  <2>3. Running[focus] = InitVersion /\ RunningMisread[focus] = InitVersion
    BY <1>1, <2>1, <2>2 DEF Untouched, Running, RunningMisread, Present, Component
  <2> QED BY <1>3, <2>3 DEF Diverges
<1> QED BY <1>2, <1>3

(* What the Worker has, or had, a result for was requested. *)
LEMMA CollectedIsRequested ==
  ASSUME RTInv, wpc # "idle", results[Wanted] = "Activated"
  PROVE  Wanted \in Requested
<1>1. Wanted \in Key
  BY DEF RTInv, RTTypeOK, DesiredOK, Wanted, Key
<1> QED
  BY <1>1 DEF RTInv, Confined, HasResult, NoResult

(* The real Worker does nothing the free one may not do: what it writes and  *)
(* collects is still what it found when it decided to.                       *)
LEMMA WorkerIsAllowed ==
  ASSUME RTInv, WorkerStep
  PROVE  [WorkerNext]_vars
<1> USE DEF WorkerNext
<1>0. SupervisorUnchanged /\ ChecksStillHold
  BY DEF WorkerStep, RTInv
<1>1. CASE Emit /\ NoFault
  BY <1>0, <1>1 DEF Emit, WorkerEmits, ChecksStillHold
<1>2. CASE GcRequest /\ NoFault
  BY <1>0, <1>2, CollectedIsRequested DEF GcRequest, WorkerCollectsRequest, ChecksStillHold
<1>3. CASE GcResult /\ NoFault
  BY <1>0, <1>3, CollectedIsRequested DEF GcResult, WorkerCollectsResult, ChecksStillHold
<1>4. CASE UNCHANGED mailbox /\ (NoFault \/ Fault)
  BY <1>0, <1>4 DEF SupervisorUnchanged, vars, NoFault, WorkerErrs
<1>5. \/ (Emit \/ GcRequest \/ GcResult) /\ NoFault
      \/ UNCHANGED mailbox /\ (NoFault \/ Fault)
  BY DEF WorkerStep, Heartbeat, HeartbeatLost, RecordConverged, RecordConvergedFails,
         NothingToReconcile, ResultUnreadable, Plan, EmitFails, GcRequestFails, GcResultFails
<1> QED
  BY <1>1, <1>2, <1>3, <1>4, <1>5

(* Every step of the loop is one of the Supervisor's module, or none of its  *)
(* business.                                                                 *)
LEMMA LoopStepIsSupervisorStep ==
  ASSUME RTInv, [RTNext]_rtvars
  PROVE  [Next]_vars
<1>1. CASE SupervisorStep
  BY <1>1 DEF SupervisorStep, Next
<1>2. CASE WorkerStep
  BY <1>2, WorkerIsAllowed DEF Next
<1>3. CASE \E k \in Requested : SetPin(k)
  BY <1>3 DEF SetPin
<1>4. CASE UNCHANGED rtvars
  BY <1>4 DEF rtvars
<1> QED
  BY <1>1, <1>2, <1>3, <1>4 DEF RTNext

-----------------------------------------------------------------------------
(* Every variable of the server and of the Worker stays in its type.         *)
LEMMA RuntimeTypeStep ==
  ASSUME RTInv, [RTNext]_rtvars, TypeOK'
  PROVE  RTTypeOK'
<1> USE NoVersionAssumption, InitVersionAssumption, MaxPinsAssumption
<1>0. RTTypeOK /\ DesiredOK /\ child \in [Component -> Version \cup {NoVersion}]
  BY DEF RTInv, RTTypeOK, TypeOK
<1> USE <1>0 DEF RTTypeOK, WorkerPc, Component, server, workerMemory, NoPins
<1>1. CASE SupervisorStep
  BY <1>1 DEF SupervisorStep
<1>2. CASE WorkerStep
  <2>1. Running \in [Component -> Version] /\ RunningMisread \in [Component -> Version]
    BY <1>2 DEF WorkerStep, Running, RunningMisread, Present
  <2>2. CASE Heartbeat(Running) \/ Heartbeat(RunningMisread)
    BY <2>1, <2>2 DEF Heartbeat
  <2>3. CASE HeartbeatLost(Running) \/ HeartbeatLost(RunningMisread)
    BY <2>1, <2>3 DEF HeartbeatLost
  <2>4. CASE RecordConverged
    BY <2>4 DEF RecordConverged, Converged, DesiredOK
  <2>5. CASE RecordConvergedFails \/ GcRequest \/ GcRequestFails
    BY <2>5 DEF RecordConvergedFails, GcRequest, GcRequestFails
  <2>6. CASE NothingToReconcile \/ ResultUnreadable \/ GcResult \/ GcResultFails
    BY <2>6
       DEF NothingToReconcile, ResultUnreadable, GcResult, GcResultFails, NextReconcile,
           Advance
  <2>7. CASE Plan(Running) \/ Plan(RunningMisread) \/ Emit \/ EmitFails
    BY <2>7 DEF Plan, Emit, EmitFails, NextPlan, Advance
  <2> QED
    BY <1>2, <2>2, <2>3, <2>4, <2>5, <2>6, <2>7 DEF WorkerStep
<1>3. CASE \E k \in Requested : SetPin(k)
  BY <1>3, RequestedAssumption DEF SetPin, Key
<1>4. CASE UNCHANGED rtvars
  BY <1>4 DEF rtvars
<1> QED
  BY <1>1, <1>2, <1>3, <1>4 DEF RTNext

(* Whatever keys the system was confined to, it still is after a step of the *)
(* Worker that writes no request but one of those keys.                      *)
LEMMA WorkerConfined ==
  ASSUME RTInv, WorkerStep, NEW K \in SUBSET Key, Confined(K), Emit => Wanted \in K
  PROVE  Confined(K)'
<1>1. requests' \subseteq K
  BY DEF WorkerStep, Heartbeat, HeartbeatLost, RecordConverged, RecordConvergedFails,
         NothingToReconcile, ResultUnreadable, GcRequest, GcResult, RemoveRequest,
         RemoveResult, Plan, Emit,
         WriteRequest, EmitFails, GcRequestFails, GcResultFails, mailbox, Confined
<1>2. \A k \in Key : results'[k] \in {results[k], NoResult}
  <2>1. results \in [Key -> Outcome \cup {NoResult}]
    BY DEF RTInv, RTTypeOK, TypeOK, MailboxTypeOK
  <2> QED
    BY <2>1
     DEF WorkerStep, Heartbeat, HeartbeatLost, RecordConverged, RecordConvergedFails,
         NothingToReconcile, ResultUnreadable, GcRequest, GcResult, RemoveRequest,
         RemoveResult, Plan, Emit,
         WriteRequest, EmitFails, GcRequestFails, GcResultFails, mailbox
<1>3. SupervisorUnchanged
  BY DEF WorkerStep
<1> QED
  BY <1>1, <1>2, <1>3 DEF Confined, Known, HasResult, SupervisorUnchanged, disk, job

(* What the system knows of was requested, after every step. *)
LEMMA RequestedStep ==
  ASSUME RTInv, [RTNext]_rtvars
  PROVE  Confined(Requested)'
<1>0. Confined(Requested) /\ Requested \in SUBSET Key /\ IInv /\ ChecksStillHold
  BY RequestedAssumption DEF RTInv
<1>1. CASE SupervisorStep
  BY <1>0, <1>1, ConfinedStep DEF SupervisorStep
<1>2. CASE WorkerStep
  BY <1>0, <1>2, WorkerConfined DEF Emit, ChecksStillHold
<1>3. CASE UNCHANGED vars
  BY <1>0, <1>3 DEF vars, mailbox, disk, job, Confined, Known, HasResult
<1>4. (\E k \in Requested : SetPin(k)) \/ UNCHANGED rtvars => UNCHANGED vars
  BY DEF SetPin, rtvars
<1> QED
  BY <1>1, <1>2, <1>3, <1>4 DEF RTNext

(* Pins, and what the Worker knows of them, only ever move to requested keys. *)
LEMMA PinsStep ==
  ASSUME RTInv, [RTNext]_rtvars
  PROVE  PinsOK' /\ DesiredOK'
<1>0. /\ PinsOK /\ DesiredOK
      /\ pin \in [Component -> Version] /\ desired \in [Component -> Version \cup {NoVersion}]
  BY DEF RTInv, RTTypeOK
<1> USE <1>0 DEF PinsOK, DesiredOK, server, workerMemory
<1>1. CASE SupervisorStep
  BY <1>1 DEF SupervisorStep
<1>2. CASE WorkerStep
  <2>1. CASE Heartbeat(Running) \/ Heartbeat(RunningMisread)
    BY <2>1 DEF Heartbeat
  <2>2. CASE HeartbeatLost(Running) \/ HeartbeatLost(RunningMisread)
    BY <2>2 DEF HeartbeatLost
  <2>3. CASE RecordConverged \/ RecordConvergedFails \/ GcRequest \/ GcRequestFails
    BY <2>3 DEF RecordConverged, Converged, RecordConvergedFails, GcRequest, GcRequestFails
  <2>4. CASE NothingToReconcile \/ ResultUnreadable \/ GcResult \/ GcResultFails
    BY <2>4
       DEF NothingToReconcile, ResultUnreadable, Converged, GcResult, GcResultFails, NextReconcile,
           Advance
  <2>5. CASE Plan(Running) \/ Plan(RunningMisread) \/ Emit \/ EmitFails
    BY <2>5 DEF Plan, Emit, EmitFails, NextPlan, Advance
  <2> QED
    BY <1>2, <2>1, <2>2, <2>3, <2>4, <2>5 DEF WorkerStep
<1>3. CASE \E k \in Requested : SetPin(k)
  BY <1>3, RequestedAssumption DEF SetPin, Key, Pinnable
<1>4. CASE UNCHANGED rtvars
  BY <1>4 DEF rtvars
<1> QED
  BY <1>1, <1>2, <1>3, <1>4 DEF RTNext

(* The Worker moves on to the next component or phase with the same versions *)
(* in mind, or is done and forgets them.                                     *)
HeartbeatAnswered == Heartbeat(Running) \/ Heartbeat(RunningMisread)

LEMMA DesiredOnlyRead ==
  ASSUME RTInv, WorkerStep, ~HeartbeatAnswered
  PROVE  pin' = pin /\ desired' \in {desired, NoPins}
BY DEF WorkerStep, HeartbeatAnswered, HeartbeatLost, RecordConverged, RecordConvergedFails,
       NothingToReconcile, ResultUnreadable, GcRequest, GcRequestFails, GcResult,
       GcResultFails, Plan, Emit, EmitFails, NextReconcile, NextPlan, Advance,
       workerMemory, server

(* A component whose pin has not moved, as far as the server or the Worker   *)
(* knows, stays as provisioned.                                              *)
LEMMA UntouchedStep ==
  ASSUME RTInv, [RTNext]_rtvars
  PROVE  UntouchedOK'
<1> USE NoVersionAssumption, InitVersionAssumption, RequestedAssumption
<1> SUFFICES ASSUME NEW c \in Component, ~OncePinned(c)
             PROVE  /\ pin'[c] = InitVersion => desired'[c] \in {NoVersion, InitVersion}
                    /\ InitVersion \in {pin'[c], desired'[c]} => Untouched(c)'
  BY DEF UntouchedOK, OncePinned
<1>0. /\ pin[c] = InitVersion => desired[c] \in {NoVersion, InitVersion}
      /\ InitVersion \in {pin[c], desired[c]} => Untouched(c)
      /\ IInv /\ ChecksStillHold /\ PinsOK /\ DesiredOK
      /\ pin \in [Component -> Version] /\ desired \in [Component -> Version \cup {NoVersion}]
      /\ OthersKeys(c) \in SUBSET Key
  BY DEF RTInv, RTTypeOK, UntouchedOK, OthersKeys
<1> USE <1>0
<1>1. CASE SupervisorStep
  <2>1. pin' = pin /\ store' = store /\ desired' \in {desired, NoPins}
    BY <1>1 DEF SupervisorStep, server, workerMemory
  <2>2. Confined(OthersKeys(c)) => Confined(OthersKeys(c))'
    BY <1>1, ConfinedStep DEF SupervisorStep, OthersKeys
  <2> QED
    BY <2>1, <2>2 DEF NoPins, Untouched
<1>2. CASE WorkerStep /\ HeartbeatAnswered
  <2>1. desired' = pin /\ UNCHANGED <<pin, store, mailbox>> /\ SupervisorUnchanged
    BY <1>2 DEF WorkerStep, HeartbeatAnswered, Heartbeat
  <2>2. Untouched(c) => Untouched(c)'
    BY <2>1
       DEF Untouched, Confined, OthersKeys, Known, HasResult, SupervisorUnchanged, mailbox, disk, job
  <2> QED
    BY <2>1, <2>2
<1>3. CASE WorkerStep /\ ~HeartbeatAnswered
  <2>1. pin' = pin /\ desired' \in {desired, NoPins}
    BY <1>3, DesiredOnlyRead
  <2>2. SUFFICES ASSUME Untouched(c), InitVersion \in {pin[c], desired[c]} PROVE Untouched(c)'
    BY <2>1 DEF NoPins
  <2>3. CASE Emit
    <3>1. Wanted \in Requested /\ focus \in Component
      BY <2>3 DEF Emit, ChecksStillHold, RTInv, RTTypeOK
    <3>2. focus # c
      <4>1. SUFFICES ASSUME focus = c PROVE FALSE
        OBVIOUS
      <4>2. desired[c] = InitVersion
        BY <2>3, <2>2 DEF Emit, DesiredOK
      <4> QED
        BY <3>1, <4>1, <4>2 DEF Wanted, OncePinned
    <3>3. Wanted \in OthersKeys(c)
      BY <3>1, <3>2 DEF OthersKeys, Wanted
    <3>4. Confined(OthersKeys(c))'
      BY <1>3, <2>2, <3>3, WorkerConfined DEF Untouched, OthersKeys
    <3> QED
      BY <2>2, <2>3, <3>4 DEF Untouched, Emit
  <2>4. CASE ~Emit
    <3>1. Confined(OthersKeys(c))'
      BY <1>3, <2>2, <2>4, WorkerConfined DEF Untouched, OthersKeys
    <3>2. CASE RecordConverged
      <4>1. Wanted \in Key /\ results[Wanted] = "Activated"
        BY <3>2 DEF RecordConverged, Converged, DesiredOK, Wanted, Key, RTInv, RTTypeOK
      <4>2. focus # c
        BY <2>2, <4>1 DEF Untouched, Confined, HasResult, NoResult, OthersKeys, Wanted
      <4> QED
        BY <2>2, <3>1, <3>2, <4>2 DEF Untouched, RecordConverged
    <3>3. CASE ~RecordConverged
      <4>1. store' = store
        BY <1>3, <2>4, <3>3
           DEF WorkerStep, HeartbeatAnswered, HeartbeatLost, RecordConvergedFails,
               NothingToReconcile, ResultUnreadable, GcRequest,
               GcRequestFails, GcResult, GcResultFails, Plan, EmitFails
      <4> QED
        BY <2>2, <3>1, <4>1 DEF Untouched
    <3> QED BY <3>2, <3>3
  <2> QED BY <2>3, <2>4
<1>4. CASE \E k \in Requested : SetPin(k)
  <2>1. PICK k \in Requested : SetPin(k)
    BY <1>4
  <2>2. UNCHANGED <<vars, store, desired>> /\ pin' = [pin EXCEPT ![k.component] = k.version]
    BY <2>1 DEF SetPin, workerMemory
  <2>3. k.component = c => k.version # InitVersion
    BY <2>1 DEF OncePinned, Key
  <2>4. pin'[c] = InitVersion => pin[c] = InitVersion
    BY <2>2, <2>3
  <2>5. Untouched(c) => Untouched(c)'
    BY <2>2 DEF Untouched, Confined, OthersKeys, Known, HasResult, vars, mailbox, disk, job
  <2> QED
    BY <2>2, <2>4, <2>5
<1>5. CASE UNCHANGED rtvars
  <2>1. UNCHANGED <<vars, store, desired, pin>>
    BY <1>5 DEF rtvars, server, workerMemory
  <2>2. Untouched(c) => Untouched(c)'
    BY <2>1 DEF Untouched, Confined, OthersKeys, Known, HasResult, vars, mailbox, disk, job
  <2> QED
    BY <2>1, <2>2
<1> QED
  BY <1>1, <1>2, <1>3, <1>4, <1>5 DEF RTNext

(* What the Worker has checked still holds when it acts: in between the      *)
(* Supervisor may run, but if it replaces the Worker the check is forgotten, *)
(* and it neither takes back an Activated result nor writes a request.       *)
LEMMA ChecksStep ==
  ASSUME RTInv, [RTNext]_rtvars
  PROVE  ChecksStillHold'
<1>0. RTTypeOK /\ IInv /\ ChecksStillHold /\ DesiredOK
  BY DEF RTInv
<1>1. CASE SupervisorStep
  <2>1. CASE WorkerReplaced
    BY <1>1, <2>1 DEF SupervisorStep, ChecksStillHold
  <2>2. CASE ~WorkerReplaced
    <3>1. UNCHANGED workerMemory /\ SupervisorNext
      BY <1>1, <2>2 DEF SupervisorStep
    <3>2. wpc # "idle" => Wanted \in Key
      BY <1>0 DEF RTTypeOK, DesiredOK, Wanted, Key
    <3>3. Wanted' = Wanted /\ wpc' = wpc
      BY <3>1 DEF Wanted, workerMemory
    <3> QED
      BY <1>0, <3>1, <3>2, <3>3, ActivatedStays DEF ChecksStillHold
  <2> QED BY <2>1, <2>2
<1>2. CASE WorkerStep
  <2>1. CASE Heartbeat(Running) \/ Heartbeat(RunningMisread)
    BY <2>1 DEF Heartbeat, ChecksStillHold
  <2>2. CASE HeartbeatLost(Running) \/ HeartbeatLost(RunningMisread)
    BY <2>2 DEF HeartbeatLost, workerMemory, ChecksStillHold
  <2>3. CASE RecordConverged \/ RecordConvergedFails
    BY <2>3
       DEF RecordConverged, RecordConvergedFails, Converged, Wanted, mailbox,
           ChecksStillHold
  <2>4. CASE NothingToReconcile \/ ResultUnreadable \/ GcResult \/ GcResultFails
    BY <2>4
       DEF NothingToReconcile, ResultUnreadable, GcResult, GcResultFails, NextReconcile,
           Advance, ChecksStillHold
  <2>5. CASE GcRequest \/ GcRequestFails
    BY <1>0, <2>5
       DEF GcRequest, GcRequestFails, RemoveRequest, Wanted, mailbox, ChecksStillHold
  <2>6. ASSUME NEW running \in {Running, RunningMisread}, Plan(running)
        PROVE  ChecksStillHold'
    <3>1. CASE Diverges(running)
      <4>1. Wanted \in Requested
        BY <1>2, <2>6, <3>1, PlansArePinned DEF WorkerStep, Plan
      <4>2. wpc' = "emit" /\ Wanted' = Wanted
        BY <2>6, <3>1 DEF Plan, Wanted
      <4> QED BY <4>1, <4>2 DEF ChecksStillHold
    <3>2. CASE ~Diverges(running)
      BY <2>6, <3>2 DEF Plan, NextPlan, Advance, ChecksStillHold
    <3> QED BY <3>1, <3>2
  <2>7. CASE Emit \/ EmitFails
    BY <2>7 DEF Emit, EmitFails, NextPlan, Advance, ChecksStillHold
  <2> QED
    BY <1>2, <2>1, <2>2, <2>3, <2>4, <2>5, <2>6, <2>7 DEF WorkerStep
<1>3. CASE (\E k \in Requested : SetPin(k)) \/ UNCHANGED rtvars
  <2>1. UNCHANGED <<vars, workerMemory>>
    BY <1>3 DEF SetPin, rtvars
  <2> QED
    BY <1>0, <2>1 DEF vars, mailbox, workerMemory, Wanted, ChecksStillHold
<1> QED
  BY <1>1, <1>2, <1>3 DEF RTNext

-----------------------------------------------------------------------------
LEMMA RuntimeInit == RTInit => RTInv
<1> SUFFICES ASSUME RTInit PROVE RTInv
  OBVIOUS
<1> USE NoVersionAssumption, InitVersionAssumption, MaxPinsAssumption DEF RTInit
<1>1. IInv
  BY InitInvariant
<1>2. RTTypeOK
  BY <1>1 DEF IInv, RTTypeOK, NoPins, Component, WorkerPc
<1>3. ASSUME NEW K \in SUBSET Key PROVE Confined(K)
  BY <1>3 DEF Init, MailboxInit, EmptyScan, Confined, Known, HasResult
<1>4. Confined(Requested)
  BY <1>3, RequestedAssumption
<1>5. \A c \in Component : Untouched(c)
  BY <1>3, RequestedAssumption DEF Untouched, OthersKeys
<1>6. PinsOK /\ DesiredOK /\ ChecksStillHold
  BY DEF PinsOK, Pinnable, DesiredOK, ChecksStillHold
<1>7. UntouchedOK
  BY <1>5 DEF UntouchedOK, NoPins
<1> QED
  BY <1>1, <1>2, <1>4, <1>6, <1>7 DEF RTInv

LEMMA RuntimeStep ==
  ASSUME RTInv, [RTNext]_rtvars
  PROVE  RTInv'
<1>1. IInv'
  BY LoopStepIsSupervisorStep, InvariantStep DEF RTInv
<1>2. RTTypeOK'
  BY <1>1, RuntimeTypeStep DEF IInv
<1> QED
  BY <1>1, <1>2, RequestedStep, PinsStep, UntouchedStep, ChecksStep DEF RTInv

-----------------------------------------------------------------------------
(* The inductive invariant of the convergence loop holds throughout. *)
THEOREM RuntimeInvariantHolds == RTSpec => []RTInv
<1> QED
  BY RuntimeInit, RuntimeStep, PTL DEF RTSpec

(* Every variable of the loop stays in its type: the server row's pins and   *)
(* reports, the Worker's store and memory (heartbeat.rs, mailbox.rs) and the *)
(* Supervisor's state.                                                       *)
THEOREM RuntimeTypeCorrect == RTSpec => []RTTypeOK
<1>1. RTInv => RTTypeOK
  BY DEF RTInv
<1> QED
  BY <1>1, RuntimeInvariantHolds, PTL

(* The Worker acts on checks that still hold, although the Supervisor runs   *)
(* between check and act and nothing is locked (mailbox.rs): a request it    *)
(* writes was pinned, and what it collects is an Activated result.           *)
THEOREM WorkerActsOnWhatHolds == RTSpec => []ChecksStillHold
<1>1. RTInv => ChecksStillHold
  BY DEF RTInv
<1> QED
  BY <1>1, RuntimeInvariantHolds, PTL

(* The sandbox with the server's pins, the heartbeat and the Worker of       *)
(* proliferate-worker in it is a behaviour of the Supervisor's module with   *)
(* its free Worker: what is proved there is true of the composed system.     *)
THEOREM LoopRefinesSupervisor == RTSpec => ImplementsSupervisor
<1>1. RTInit => Init
  BY DEF RTInit
<1>2. RTInv /\ [RTNext]_rtvars => [Next]_vars
  BY LoopStepIsSupervisorStep
<1> QED
  BY <1>1, <1>2, RuntimeInvariantHolds, PTL DEF RTSpec, Spec, ImplementsSupervisor

(* So the loop, too, can always boot both programs after a crash at any of   *)
(* its steps (activate/mod.rs:16)...                                         *)
THEOREM LoopAlwaysBootable == RTSpec => []Bootable
<1> QED
  BY LoopRefinesSupervisor, AlwaysBootable, PTL DEF ImplementsSupervisor

(* ... and, while the journal can be removed, an update the server pinned    *)
(* is one atomic step of the loop, taken back only before it has an outcome. *)
THEOREM LoopActivatesAtomically ==
  ASSUME ~UnlinkFails
  PROVE  RTSpec => ImplementsPromise
<1> QED
  BY LoopRefinesSupervisor, AtomicActivation, PTL DEF ImplementsSupervisor

(* Nothing reaches a sandbox but what it was provisioned with and what the   *)
(* server pinned: no other request, artifact, result or binary exists, and   *)
(* no process ever runs another version.                                     *)
THEOREM OnlyPinnedVersions == RTSpec => []Confined(Requested)
<1>1. RTInv => Confined(Requested)
  BY DEF RTInv
<1> QED
  BY <1>1, RuntimeInvariantHolds, PTL
=============================================================================
