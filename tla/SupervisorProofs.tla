-------------------------- MODULE SupervisorProofs --------------------------
(***************************************************************************)
(* What SupervisorInvariant claims, proved for every set of versions, every *)
(* set of requests and any number of faults: IInv is inductive, hence the   *)
(* Supervisor keeps its types, always has a binary to boot and, when the    *)
(* journal can be removed, implements AtomicUpdate.                         *)
(***************************************************************************)
EXTENDS SupervisorInvariant, TLAPS

-----------------------------------------------------------------------------
(* The start of a drain pass. *)
LEMMA EmptyScanType ==
    EmptyScan \in [keys : SUBSET Key, later : SUBSET (Key \X Key), best : SUBSET Key]
<1>1. {} \in SUBSET Key /\ {} \in SUBSET (Key \X Key)
  OBVIOUS
<1> QED
  BY <1>1 DEF EmptyScan

(* Every step keeps every variable in its type.  JobOK is needed for Stage,  *)
(* which adds the current request to the staged artifacts.                   *)
LEMMA TypeStep ==
  ASSUME TypeOK, JobOK, Next
  PROVE  TypeOK'
<1> USE NoVersionAssumption, InitVersionAssumption, RequestedAssumption, MaxFaultsAssumption
    DEF TypeOK, MailboxTypeOK, JobOK, Component, disk, job, mailbox, NoFault, Fault, Goto,
        DrainPc, JobPc, StagePc, SwapPc, FinishPc, SpawnPc
<1>1. CASE Start BY <1>1 DEF Start
<1>2. CASE Reconcile
  BY <1>2 DEF Reconcile, AfterReconcile, Interrupted, NoKey, Key, Present
<1>3. CASE ReconcileFails BY <1>3 DEF ReconcileFails, AfterReconcile
<1>4. CASE ClearJournal BY <1>4 DEF ClearJournal, RemoveJournal, AfterReconcile
<1>5. CASE RestorePrev BY <1>5 DEF RestorePrev, SpawnOf, Present
<1>6. CASE SpawnAnyharness BY <1>6 DEF SpawnAnyharness, Spawn, SpawnOf
<1>7. CASE SpawnWorker BY <1>7 DEF SpawnWorker, Spawn, SpawnOf
<1>8. CASE AnyharnessExited BY <1>8 DEF AnyharnessExited
<1>9. CASE WorkerExited BY <1>9 DEF WorkerExited
<1>10. CASE Tick BY <1>10 DEF Tick
<1>11. CASE ListRequests
  <2>1. scan' \in [keys : SUBSET Key, later : SUBSET (Key \X Key), best : SUBSET Key]
    BY <1>11, EmptyScanType DEF ListRequests, EmptyScan
  <2> QED BY <1>11, <2>1 DEF ListRequests
<1>12. CASE ListFails BY <1>12 DEF ListFails
<1>13. CASE ReadRequests
  <2>1. scan' \in [keys : SUBSET Key, later : SUBSET (Key \X Key), best : SUBSET Key]
    BY <1>13 DEF ReadRequests, Invalidate
  <2> QED BY <1>13, <2>1 DEF ReadRequests, Invalidate, Outcome
<1>14. CASE RankRequests \/ SupersedeRequests \/ SupersedeFails
  <2>1. scan' \in [keys : SUBSET Key, later : SUBSET (Key \X Key), best : SUBSET Key]
    <3>1. CASE RankRequests
      <4>1. Newest \subseteq Key
        BY DEF Newest, Pending
      <4> QED BY <3>1, <4>1 DEF RankRequests
    <3>2. CASE SupersedeRequests BY <3>2 DEF SupersedeRequests, EmptyScan
    <3>3. CASE SupersedeFails BY <3>3, EmptyScanType DEF SupersedeFails
    <3> QED BY <1>14, <3>1, <3>2, <3>3
  <2> QED
    BY <1>14, <2>1 DEF RankRequests, SupersedeRequests, SupersedeFails, Invalidate, Outcome
<1>15. CASE PickRequest
  BY <1>15, EmptyScanType DEF PickRequest, FirstPending, Pending, Outcome
<1>16. CASE CheckActive \/ CheckUnreadable
  BY <1>16 DEF CheckActive, CheckUnreadable, AlreadyActive, RestartOf
<1>17. CASE FetchOk BY <1>17 DEF FetchOk
<1>18. CASE FetchTransient BY <1>18 DEF FetchTransient, EndJob
<1>19. CASE FetchTerminal BY <1>19 DEF FetchTerminal, Refuse, Outcome
<1>20. CASE Stage
  <2> USE <1>20 DEF Stage, Refuse, Outcome
  <2>1. cur \in Key
    OBVIOUS
  <2>2. staged' \subseteq Key
    BY <2>1
  <2>3. verdict' \in Outcome \cup {NoResult}
    OBVIOUS
  <2> QED BY <2>2, <2>3
<1>21. CASE WriteJournal BY <1>21 DEF WriteJournal, Refuse, Outcome
<1>22. CASE MovePrev
  <2> USE <1>22 DEF MovePrev, Refuse, Outcome, Present, Key
  <2>1. active' \in [Component -> Version \cup {NoVersion}]
    OBVIOUS
  <2>2. cur.component \in Component
    OBVIOUS
  <2>3. prev' \in [Component -> Version \cup {NoVersion}]
    BY <2>2
  <2>4. verdict' \in Outcome \cup {NoResult} /\ moved' \in BOOLEAN
    OBVIOUS
  <2>5. faults' \in 0 .. MaxFaults
    OBVIOUS
  <2> QED BY <2>1, <2>3, <2>4, <2>5
<1>23. CASE Place BY <1>23 DEF Place, Key, NoKey, Outcome
<1>24. CASE PutBack BY <1>24 DEF PutBack
<1>25. CASE Unjournal BY <1>25 DEF Unjournal, RemoveJournal, RestartOf
<1>26. CASE RestartAnyharness
  BY <1>26 DEF RestartAnyharness, Restart, RestartOf, AfterRestart
<1>27. CASE RestartWorker BY <1>27 DEF RestartWorker, Restart, RestartOf, AfterRestart
<1>28. CASE GatePasses BY <1>28 DEF GatePasses, Outcome
<1>29. CASE GateFails BY <1>29 DEF GateFails
<1>30. CASE RollBack BY <1>30 DEF RollBack, Refuse, Outcome, RestartOf
<1>31. CASE Record BY <1>31 DEF Record, EndJob, WriteResult
<1>32. CASE RecordFails
  <2> USE <1>32 DEF RecordFails, EndJob
  <2>1. cur' \in Key \cup {NoKey} /\ verdict' \in Outcome \cup {NoResult}
    OBVIOUS
  <2>2. moved' \in BOOLEAN
    OBVIOUS
  <2>3. faults' \in 0 .. MaxFaults
    OBVIOUS
  <2> QED BY <2>1, <2>2, <2>3
<1>33. CASE Crash
  <2> USE <1>33 DEF Crash, EndJob
  <2>1. cur' \in Key \cup {NoKey} /\ verdict' \in Outcome \cup {NoResult}
    OBVIOUS
  <2>2. moved' \in BOOLEAN
    OBVIOUS
  <2>3. faults' \in 0 .. MaxFaults
    OBVIOUS
  <2>4. scan' \in [keys : SUBSET Key, later : SUBSET (Key \X Key), best : SUBSET Key]
    BY EmptyScanType
  <2>5. child' \in [Component -> Version \cup {NoVersion}]
    OBVIOUS
  <2>6. fixing' \in Component \cup {"startup"}
    OBVIOUS
  <2> QED BY <2>1, <2>2, <2>3, <2>4, <2>5, <2>6
<1>34. CASE \E c \in Component : SpawnFails(c) BY <1>34 DEF SpawnFails, SpawnOf
<1>35. CASE \E c \in Component : ChildExits(c) BY <1>35 DEF ChildExits
<1>36. CASE WorkerNext
  BY <1>36 DEF WorkerNext, WorkerEmits, WorkerCollectsRequest, WorkerCollectsResult,
         WorkerErrs, WriteRequest, RemoveRequest, RemoveResult, SupervisorUnchanged, Without
<1> QED
  BY <1>1, <1>2, <1>3, <1>4, <1>5, <1>6, <1>7, <1>8, <1>9, <1>10, <1>11, <1>12,
     <1>13, <1>14, <1>15, <1>16, <1>17, <1>18, <1>19, <1>20, <1>21, <1>22, <1>23,
     <1>24, <1>25, <1>26, <1>27, <1>28, <1>29, <1>30, <1>31, <1>32, <1>33, <1>34,
     <1>35, <1>36
     DEF Next, SupervisorNext, Lifecycle, Drain, Failure

(* The activation invariant: how far it has got, what is active, staged and  *)
(* journalled, and that a binary is always left.                             *)
LEMMA ActivationStep ==
  ASSUME IInv, Next
  PROVE  (Runnable /\ JobOK /\ VerdictOK /\ SwapOK /\ SwappedInOK /\ FixingOK)'
<1> USE NoVersionAssumption
<1>0. /\ active \in [Component -> Version \cup {NoVersion}]
      /\ prev \in [Component -> Version \cup {NoVersion}]
      /\ results \in [Key -> Outcome \cup {NoResult}]
      /\ journal \in Key \cup {NoKey}
      /\ fixing \in Component \cup {"startup"}
      /\ cur \in Key \cup {NoKey}
      /\ scan.keys \subseteq Key
      /\ Runnable /\ JobOK /\ VerdictOK /\ SwapOK /\ SwappedInOK /\ FixingOK
  BY DEF IInv, TypeOK, MailboxTypeOK
<1> USE <1>0
    DEF Runnable, JobOK, VerdictOK, SwapOK, SwappedInOK, SwappedIn, FixingOK, AlreadyActive,
        Component, Key, Outcome, NoResult, Present, Goto, NoFault, Fault, disk, job, mailbox,
        DrainPc, JobPc, StagePc, SwapPc, FinishPc
<1>1. CASE Start BY <1>1 DEF Start
<1>2. CASE Reconcile BY <1>2 DEF Reconcile, AfterReconcile, Interrupted
<1>3. CASE ReconcileFails BY <1>3 DEF ReconcileFails, AfterReconcile
<1>4. CASE ClearJournal BY <1>4 DEF ClearJournal, RemoveJournal, AfterReconcile
<1>5. CASE RestorePrev BY <1>5 DEF RestorePrev, SpawnOf
<1>6. CASE SpawnAnyharness BY <1>6 DEF SpawnAnyharness, Spawn, SpawnOf
<1>7. CASE SpawnWorker BY <1>7 DEF SpawnWorker, Spawn, SpawnOf
<1>8. CASE AnyharnessExited BY <1>8 DEF AnyharnessExited
<1>9. CASE WorkerExited BY <1>9 DEF WorkerExited
<1>10. CASE Tick BY <1>10 DEF Tick
<1>11. CASE ListRequests BY <1>11 DEF ListRequests
<1>12. CASE ListFails BY <1>12 DEF ListFails
<1>13. CASE ReadRequests
  BY <1>13 DEF ReadRequests, Invalidate, Unreadable, HasResult
<1>14. CASE RankRequests \/ SupersedeRequests \/ SupersedeFails
  BY <1>14
     DEF RankRequests, SupersedeRequests, SupersedeFails, Invalidate, Superseded, Pending,
               HasResult, Newest, EmptyScan
<1>15. CASE PickRequest
  BY <1>15 DEF PickRequest, EmptyScan, FirstPending, Pending, HasResult
<1>16. CASE CheckActive \/ CheckUnreadable
  BY <1>16 DEF CheckActive, CheckUnreadable, AlreadyActive, RestartOf
<1>17. CASE FetchOk BY <1>17 DEF FetchOk
<1>18. CASE FetchTransient BY <1>18 DEF FetchTransient, EndJob
<1>19. CASE FetchTerminal BY <1>19 DEF FetchTerminal, Refuse
<1>20. CASE Stage BY <1>20 DEF Stage, Refuse
<1>21. CASE WriteJournal BY <1>21 DEF WriteJournal, Refuse
<1>22. CASE MovePrev BY <1>22 DEF MovePrev, Refuse
<1>23. CASE Place BY <1>23 DEF Place
<1>24. CASE PutBack BY <1>24 DEF PutBack
<1>25. CASE Unjournal BY <1>25 DEF Unjournal, RemoveJournal, RestartOf
<1>26. CASE RestartAnyharness
  BY <1>26 DEF RestartAnyharness, Restart, RestartOf, AfterRestart
<1>27. CASE RestartWorker BY <1>27 DEF RestartWorker, Restart, RestartOf, AfterRestart
<1>28. CASE GatePasses BY <1>28 DEF GatePasses
<1>29. CASE GateFails BY <1>29 DEF GateFails
<1>30. CASE RollBack BY <1>30 DEF RollBack, Refuse, RestartOf
<1>31. CASE Record BY <1>31 DEF Record, EndJob, WriteResult
<1>32. CASE RecordFails BY <1>32 DEF RecordFails, EndJob
<1>33. CASE Crash BY <1>33 DEF Crash, EndJob
<1>34. CASE \E c \in Component : SpawnFails(c) BY <1>34 DEF SpawnFails, SpawnOf
<1>35. CASE \E c \in Component : ChildExits(c) BY <1>35 DEF ChildExits
<1>36. CASE WorkerNext
  BY <1>36 DEF WorkerNext, WorkerEmits, WorkerCollectsRequest, WorkerCollectsResult,
         WorkerErrs, WriteRequest, RemoveRequest, RemoveResult, SupervisorUnchanged
<1> QED
  BY <1>1, <1>2, <1>3, <1>4, <1>5, <1>6, <1>7, <1>8, <1>9, <1>10, <1>11, <1>12,
     <1>13, <1>14, <1>15, <1>16, <1>17, <1>18, <1>19, <1>20, <1>21, <1>22, <1>23,
     <1>24, <1>25, <1>26, <1>27, <1>28, <1>29, <1>30, <1>31, <1>32, <1>33, <1>34,
     <1>35, <1>36
     DEF Next, SupervisorNext, Lifecycle, Drain, Failure

(* The journal invariant, which needs the removals to succeed. *)
LEMMA JournalStep ==
  ASSUME IInv, Next, ~UnlinkFails
  PROVE  JournalOK'
<1> USE NoVersionAssumption
<1>0. /\ active \in [Component -> Version \cup {NoVersion}]
      /\ prev \in [Component -> Version \cup {NoVersion}]
      /\ results \in [Key -> Outcome \cup {NoResult}]
      /\ journal \in Key \cup {NoKey}
      /\ fixing \in Component \cup {"startup"}
      /\ cur \in Key \cup {NoKey}
      /\ scan.keys \subseteq Key
      /\ Runnable /\ JobOK /\ VerdictOK /\ SwapOK /\ SwappedInOK /\ FixingOK /\ JournalOK
  BY DEF IInv, TypeOK, MailboxTypeOK
<1> USE <1>0
    DEF Runnable, JobOK, VerdictOK, SwapOK, SwappedInOK, SwappedIn, FixingOK,
        JournalOK, InService, AnyharnessDone, Interrupted,
        Component, Key, Outcome, NoResult, Present, Goto, NoFault, Fault, disk, job, mailbox,
        DrainPc, JobPc, StagePc, SwapPc, FinishPc
<1>1. CASE Start BY <1>1 DEF Start
<1>2. CASE Reconcile BY <1>2 DEF Reconcile, AfterReconcile, Interrupted
<1>3. CASE ReconcileFails BY <1>3 DEF ReconcileFails, AfterReconcile
<1>4. CASE ClearJournal BY <1>4 DEF ClearJournal, RemoveJournal, AfterReconcile
<1>5. CASE RestorePrev BY <1>5 DEF RestorePrev, SpawnOf
<1>6. CASE SpawnAnyharness BY <1>6 DEF SpawnAnyharness, Spawn, SpawnOf
<1>7. CASE SpawnWorker BY <1>7 DEF SpawnWorker, Spawn, SpawnOf
<1>8. CASE AnyharnessExited BY <1>8 DEF AnyharnessExited
<1>9. CASE WorkerExited BY <1>9 DEF WorkerExited
<1>10. CASE Tick BY <1>10 DEF Tick
<1>11. CASE ListRequests BY <1>11 DEF ListRequests
<1>12. CASE ListFails BY <1>12 DEF ListFails
<1>13. CASE ReadRequests
  BY <1>13 DEF ReadRequests, Invalidate, Unreadable, HasResult
<1>14. CASE RankRequests \/ SupersedeRequests \/ SupersedeFails
  BY <1>14
     DEF RankRequests, SupersedeRequests, SupersedeFails, Invalidate, Superseded, Pending,
               HasResult, Newest, EmptyScan
<1>15. CASE PickRequest
  BY <1>15 DEF PickRequest, EmptyScan, FirstPending, Pending, HasResult
<1>16. CASE CheckActive \/ CheckUnreadable
  BY <1>16 DEF CheckActive, CheckUnreadable, AlreadyActive, RestartOf
<1>17. CASE FetchOk BY <1>17 DEF FetchOk
<1>18. CASE FetchTransient BY <1>18 DEF FetchTransient, EndJob
<1>19. CASE FetchTerminal BY <1>19 DEF FetchTerminal, Refuse
<1>20. CASE Stage BY <1>20 DEF Stage, Refuse
<1>21. CASE WriteJournal BY <1>21 DEF WriteJournal, Refuse
<1>22. CASE MovePrev BY <1>22 DEF MovePrev, Refuse
<1>23. CASE Place BY <1>23 DEF Place
<1>24. CASE PutBack BY <1>24 DEF PutBack
<1>25. CASE Unjournal BY <1>25 DEF Unjournal, RemoveJournal, RestartOf
<1>26. CASE RestartAnyharness
  BY <1>26 DEF RestartAnyharness, Restart, RestartOf, AfterRestart
<1>27. CASE RestartWorker BY <1>27 DEF RestartWorker, Restart, RestartOf, AfterRestart
<1>28. CASE GatePasses BY <1>28 DEF GatePasses
<1>29. CASE GateFails BY <1>29 DEF GateFails
<1>30. CASE RollBack BY <1>30 DEF RollBack, Refuse, RestartOf
<1>31. CASE Record BY <1>31 DEF Record, EndJob, WriteResult
<1>32. CASE RecordFails BY <1>32 DEF RecordFails, EndJob
<1>33. CASE Crash BY <1>33 DEF Crash, EndJob
<1>34. CASE \E c \in Component : SpawnFails(c) BY <1>34 DEF SpawnFails, SpawnOf
<1>35. CASE \E c \in Component : ChildExits(c) BY <1>35 DEF ChildExits
<1>36. CASE WorkerNext
  BY <1>36 DEF WorkerNext, WorkerEmits, WorkerCollectsRequest, WorkerCollectsResult,
         WorkerErrs, WriteRequest, RemoveRequest, RemoveResult, SupervisorUnchanged
<1> QED
  BY <1>1, <1>2, <1>3, <1>4, <1>5, <1>6, <1>7, <1>8, <1>9, <1>10, <1>11, <1>12,
     <1>13, <1>14, <1>15, <1>16, <1>17, <1>18, <1>19, <1>20, <1>21, <1>22, <1>23,
     <1>24, <1>25, <1>26, <1>27, <1>28, <1>29, <1>30, <1>31, <1>32, <1>33, <1>34,
     <1>35, <1>36
     DEF Next, SupervisorNext, Lifecycle, Drain, Failure

LEMMA InitInvariant == Init => IInv
<1> SUFFICES ASSUME Init PROVE IInv
  OBVIOUS
<1> USE NoVersionAssumption, InitVersionAssumption, MaxFaultsAssumption DEF Init
<1>1. TypeOK
  <2>1. MailboxTypeOK
    BY DEF MailboxInit, MailboxTypeOK
  <2>2. scan \in [keys : SUBSET Key, later : SUBSET (Key \X Key), best : SUBSET Key]
    BY EmptyScanType
  <2>3. /\ active \in [Component -> Version \cup {NoVersion}]
        /\ prev \in [Component -> Version \cup {NoVersion}]
        /\ child \in [Component -> Version \cup {NoVersion}]
    OBVIOUS
  <2>4. moved \in BOOLEAN
    BY Zenon
  <2>5. faults \in 0 .. MaxFaults
    OBVIOUS
  <2>6. staged \subseteq Key
    OBVIOUS
  <2>7. pc \in {"down"} /\ fixing \in {"startup"} /\ cur \in {NoKey} /\ journal \in {NoKey}
    OBVIOUS
  <2>8. verdict \in {NoResult}
    OBVIOUS
  <2> QED
    BY <2>1, <2>2, <2>3, <2>4, <2>5, <2>6, <2>7, <2>8 DEF TypeOK
<1>2. Runnable
  BY DEF Runnable, Present
<1>3. JobOK /\ VerdictOK /\ SwapOK /\ SwappedInOK /\ FixingOK
  BY DEF JobOK, VerdictOK, SwapOK, SwappedInOK, SwappedIn, FixingOK,
         JobPc, StagePc, SwapPc, FinishPc
<1>4. JournalOK
  BY DEF JournalOK, Interrupted
<1> QED
  BY <1>1, <1>2, <1>3, <1>4 DEF IInv

LEMMA InvariantStep == IInv /\ [Next]_vars => IInv'
<1> SUFFICES ASSUME IInv, [Next]_vars PROVE IInv'
  OBVIOUS
<1>1. CASE Next
  <2>1. TypeOK'
    BY <1>1, TypeStep DEF IInv
  <2>2. (Runnable /\ JobOK /\ VerdictOK /\ SwapOK /\ SwappedInOK /\ FixingOK)'
    BY <1>1, ActivationStep
  <2>3. ~UnlinkFails => JournalOK'
    BY <1>1, JournalStep
  <2> QED
    BY <2>1, <2>2, <2>3 DEF IInv
<1>2. CASE UNCHANGED vars
  BY <1>2
     DEF vars, mailbox, disk, job, IInv, TypeOK, MailboxTypeOK, Runnable, JobOK, VerdictOK,
              SwapOK, SwappedIn, SwappedInOK, FixingOK, JournalOK, InService, AnyharnessDone,
              Interrupted, Present
<1> QED
  BY <1>1, <1>2

-----------------------------------------------------------------------------
(* The steps that touch a file of the activation or a result. *)
LEMMA DiskSteps ==
  ASSUME Next
  PROVE  \/ UNCHANGED <<disk, results>>
         \/ Reconcile
         \/ ClearJournal
         \/ RestorePrev
         \/ ReadRequests
         \/ SupersedeRequests
         \/ SupersedeFails
         \/ Stage
         \/ WriteJournal
         \/ MovePrev
         \/ Place
         \/ PutBack
         \/ Unjournal
         \/ RollBack
         \/ Record
         \/ WorkerNext
BY DEF Next, SupervisorNext, Lifecycle, Drain, Failure, disk, mailbox, Start,
       ReconcileFails, SpawnAnyharness, Spawn, SpawnWorker, AnyharnessExited,
       WorkerExited, Tick, ListRequests, ListFails, RankRequests, PickRequest, CheckActive,
       CheckUnreadable, FetchOk,
       FetchTransient, FetchTerminal, RestartAnyharness, Restart, RestartWorker,
       GatePasses, GateFails, RecordFails, Crash, SpawnFails, ChildExits

(* Requests that are passed over get their Invalid results together. *)
LEMMA DismissStep ==
  ASSUME NEW S \in SUBSET Key, \A k \in S : ~HasResult(k), Invalidate(S)
  PROVE  [Promise!Next]_(Promise!avars)
<1> USE DEF Key, Component, NoResult, Promise!Key, Promise!Component, Promise!NoResult
<1>1. \A k \in S : Promise!Undecided(k)
  BY DEF HasResult, Promise!Undecided
<1>2. Serving' = Serving /\ prev' = prev /\ TakenBack' = TakenBack
  BY DEF Invalidate, disk, job, Serving, TakenBack
<1>3. Promise!Dismiss(S)
  BY <1>1, <1>2 DEF Invalidate, Promise!Dismiss
<1> QED
  BY <1>3 DEF Promise!Next

(* Only a rollback makes a request one that was taken back...                *)
LEMMA TakenBackStep ==
  ASSUME IInv, Next, ~RollBack
  PROVE  TakenBack' \in {TakenBack, NoKey}
<1> USE DEF TakenBack, job
<1>0. JobOK /\ VerdictOK
  BY DEF IInv
<1>1. CASE Lifecycle
  BY <1>1 DEF Lifecycle, Start, Reconcile, ClearJournal, RestorePrev, SpawnAnyharness,
              SpawnWorker, Spawn, AnyharnessExited, WorkerExited, Tick
<1>2. CASE ListRequests \/ ReadRequests \/ RankRequests \/ SupersedeRequests
  BY <1>2 DEF ListRequests, ReadRequests, RankRequests, SupersedeRequests, Invalidate
<1>3. CASE PickRequest
  BY <1>0, <1>3 DEF PickRequest, JobOK, JobPc, StagePc, SwapPc, FinishPc, NoResult
<1>4. CASE CheckActive \/ FetchOk \/ FetchTransient \/ FetchTerminal \/ Stage
  BY <1>4
     DEF CheckActive, FetchOk, FetchTransient, EndJob, NoResult, FetchTerminal, Stage,
         Refuse
<1>5. CASE WriteJournal \/ MovePrev \/ Place \/ PutBack \/ Unjournal
  BY <1>5 DEF WriteJournal, MovePrev, Refuse, Place, PutBack, Unjournal
<1>6. CASE RestartAnyharness \/ RestartWorker \/ GatePasses \/ GateFails \/ Record
  BY <1>6
     DEF RestartAnyharness, RestartWorker, Restart, GatePasses, GateFails, Record, EndJob,
              NoResult
<1>7. CASE Failure
  BY <1>7
     DEF Failure, ReconcileFails, ListFails, SupersedeFails, Invalidate, CheckUnreadable,
              RecordFails, EndJob, Crash, NoResult, SpawnFails, ChildExits
<1>8. CASE WorkerNext
  BY <1>8 DEF WorkerNext, WorkerEmits, WorkerCollectsRequest, WorkerCollectsResult,
              WorkerErrs, SupervisorUnchanged
<1> QED
  BY <1>1, <1>2, <1>3, <1>4, <1>5, <1>6, <1>7, <1>8 DEF Next, SupervisorNext, Drain

(* ... and until its outcome is written the files are left alone.            *)
FileStep ==
    \/ Reconcile \/ ClearJournal \/ RestorePrev \/ Stage \/ WriteJournal
    \/ MovePrev \/ Place \/ PutBack \/ Unjournal

LEMMA NothingTakenBack ==
  ASSUME IInv, FileStep
  PROVE  TakenBack = NoKey /\ TakenBack' = NoKey
<1>1. JobOK /\ VerdictOK
  BY DEF IInv
<1> QED
  BY <1>1
     DEF FileStep, JobOK, VerdictOK, TakenBack, NoResult, JobPc, StagePc, SwapPc, FinishPc, Goto, job,
         Refuse, Reconcile, ClearJournal, RestorePrev, Stage, WriteJournal, MovePrev, Place,
         PutBack, Unjournal

(* Every step is one of the abstract specification, or none of its business. *)
LEMMA PromiseStep ==
  ASSUME IInv, Next, ~UnlinkFails
  PROVE  [Promise!Next]_(Promise!avars)
<1> USE NoVersionAssumption
<1>0. /\ active \in [Component -> Version \cup {NoVersion}]
      /\ prev \in [Component -> Version \cup {NoVersion}]
      /\ results \in [Key -> Outcome \cup {NoResult}]
      /\ journal \in Key \cup {NoKey}
      /\ fixing \in Component \cup {"startup"}
      /\ cur \in Key \cup {NoKey}
      /\ scan.keys \subseteq Key
      /\ TypeOK
      /\ Runnable /\ JobOK /\ VerdictOK /\ SwapOK /\ SwappedInOK /\ FixingOK /\ JournalOK
  BY DEF IInv, TypeOK, MailboxTypeOK
<1> USE <1>0
    DEF Runnable, JobOK, VerdictOK, SwapOK, SwappedInOK, SwappedIn, FixingOK,
        JournalOK, InService, AnyharnessDone,
        Promise!Key, Promise!Component, Promise!NoResult,
        Component, Key, Outcome, NoResult, Present, Goto, NoFault, Fault, disk, job, mailbox,
        DrainPc, JobPc, StagePc, SwapPc, FinishPc
<1>1. CASE UNCHANGED <<disk, results>>
  <2>1. Serving' = Serving /\ prev' = prev /\ results' = results
    BY <1>1 DEF Serving
  <2>2. TakenBack' \in {TakenBack, NoKey}
    <3>1. CASE RollBack
      BY <1>1, <3>1 DEF RollBack, Refuse, TakenBack
    <3> QED BY <3>1, TakenBackStep
  <2>3. CASE TakenBack' = TakenBack
    BY <2>1, <2>3 DEF Promise!avars
  <2>4. CASE TakenBack' = NoKey
    <3>1. Promise!LoseTrack
      BY <2>1, <2>4 DEF Promise!LoseTrack, Promise!NoKey, NoKey
    <3> QED BY <3>1 DEF Promise!Next
  <2> QED BY <2>2, <2>3, <2>4
<1>2. CASE Reconcile
  <2>0. TakenBack = NoKey /\ TakenBack' = NoKey
    BY <1>2, NothingTakenBack DEF FileStep
  <2> USE <2>0
  <2> USE <1>2 DEF Reconcile, Interrupted
  <2>1. Serving' = Serving
    BY DEF Serving
  <2>2. results' = results
    OBVIOUS
  <2>3. CASE prev' = prev
    BY <2>1, <2>2, <2>3 DEF Promise!avars
  <2>4. CASE prev' # prev
    <3>1. /\ Interrupted /\ journal \notin staged
          /\ prev' = [prev EXCEPT ![journal.component] = NoVersion]
      BY <2>4
    <3>2. journal.component \in Component /\ prev[journal.component] = Serving[journal.component]
      BY <3>1 DEF Serving
    <3>3. Promise!Forget(journal.component)
      BY <2>1, <2>2, <3>1, <3>2 DEF Promise!Forget
    <3> QED BY <3>2, <3>3 DEF Promise!Next
  <2> QED BY <2>3, <2>4
<1>3. CASE ClearJournal
  <2>0. TakenBack = NoKey /\ TakenBack' = NoKey
    BY <1>3, NothingTakenBack DEF FileStep
  <2> USE <2>0
  <2> USE <1>3 DEF ClearJournal, RemoveJournal, AfterReconcile
  <2>1. Serving' = Serving
    BY DEF Serving, Interrupted, NoKey
  <2>2. prev' = prev /\ results' = results
    OBVIOUS
  <2> QED BY <2>1, <2>2 DEF Promise!avars
<1>4. CASE RestorePrev
  <2>0. TakenBack = NoKey /\ TakenBack' = NoKey
    BY <1>4, NothingTakenBack DEF FileStep
  <2> USE <2>0
  <2> USE <1>4 DEF RestorePrev
  <2>1. results' = results /\ staged' = staged /\ journal' = journal
    OBVIOUS
  <2>2. CASE UNCHANGED <<active, prev>>
    BY <2>1, <2>2 DEF Serving, Promise!avars
  <2>3. CASE ~UNCHANGED <<active, prev>>
    <3>1. /\ fixing \in Component
          /\ active[fixing] = NoVersion /\ prev[fixing] \in Version
          /\ active' = [active EXCEPT ![fixing] = prev[fixing]]
          /\ prev' = [prev EXCEPT ![fixing] = NoVersion]
      BY <2>3
    <3>2. Serving' = [Serving EXCEPT ![fixing] = prev[fixing]]
      BY <2>1, <3>1 DEF Serving
    <3>3. CASE journal.component = fixing /\ journal \in staged
      <4>1. journal \in Key /\ results[journal] = NoResult
        BY <3>1, <3>3 DEF NoKey, Interrupted
      <4>2. Serving[fixing] = journal.version
        BY <3>1, <3>3 DEF Serving
      <4>3. Promise!Revert(journal)
        BY <2>1, <3>1, <3>2, <3>3, <4>1, <4>2
           DEF Promise!Revert, Promise!Undecided, Promise!NoKey, NoKey
      <4> QED BY <4>1, <4>3 DEF Promise!Next
    <3>4. CASE ~(journal.component = fixing /\ journal \in staged)
      <4>1. Serving[fixing] = prev[fixing]
        BY <3>1, <3>4 DEF Serving
      <4>2. Serving' = Serving
        BY <3>1, <3>2, <4>1 DEF Serving
      <4>3. Promise!Forget(fixing)
        BY <2>1, <3>1, <4>1, <4>2 DEF Promise!Forget
      <4> QED BY <3>1, <4>3 DEF Promise!Next
    <3> QED BY <3>3, <3>4
  <2> QED BY <2>2, <2>3
<1>5. CASE ReadRequests
  <2>1. PICK S \in SUBSET Unreadable : Invalidate(S)
    BY <1>5 DEF ReadRequests
  <2>2. S \in SUBSET Key /\ \A k \in S : ~HasResult(k)
    BY <2>1 DEF Unreadable
  <2> QED BY <2>1, <2>2, DismissStep
<1>6. CASE SupersedeRequests
  <2>1. Invalidate(Superseded)
    BY <1>6 DEF SupersedeRequests
  <2>2. Superseded \in SUBSET Key /\ \A k \in Superseded : ~HasResult(k)
    BY DEF Superseded, Pending
  <2> QED BY <2>1, <2>2, DismissStep
<1>7. CASE SupersedeFails
  <2>1. PICK S \in SUBSET Superseded : Invalidate(S)
    BY <1>7 DEF SupersedeFails
  <2>2. S \in SUBSET Key /\ \A k \in S : ~HasResult(k)
    BY <2>1 DEF Superseded, Pending
  <2> QED BY <2>1, <2>2, DismissStep
<1>8. CASE Stage
  <2>0. TakenBack = NoKey /\ TakenBack' = NoKey
    BY <1>8, NothingTakenBack DEF FileStep
  <2> USE <2>0
  <2> USE <1>8 DEF Stage, Refuse
  <2>1. Serving' = Serving
    BY DEF Serving, Interrupted, NoKey
  <2>2. prev' = prev /\ results' = results
    OBVIOUS
  <2> QED BY <2>1, <2>2 DEF Promise!avars
<1>9. CASE WriteJournal
  <2>0. TakenBack = NoKey /\ TakenBack' = NoKey
    BY <1>9, NothingTakenBack DEF FileStep
  <2> USE <2>0
  <2> USE <1>9 DEF WriteJournal, Refuse
  <2> DEFINE c == cur.component
  <2>1. /\ cur \in Key /\ cur \in staged /\ results[cur] = NoResult
        /\ UNCHANGED <<active, prev, staged, results>>
    OBVIOUS
  <2>2. CASE journal' # journal /\ ~Present(active[c])
    <3>1. journal' = cur
      BY <2>2
    <3>2. \A d \in Component : ~Present(active[d]) => Serving[d] = prev[d]
      BY DEF Serving, Interrupted, NoKey
    <3>3. Serving' = [Serving EXCEPT ![c] = cur.version]
      <4>1. Serving'[c] = cur.version
        BY <2>1, <2>2, <3>1 DEF Serving
      <4>2. \A d \in Component \ {c} : Serving'[d] = Serving[d]
        BY <2>1, <3>1, <3>2 DEF Serving
      <4> QED BY <2>1, <4>1, <4>2 DEF Serving
    <3>4. prev' = [prev EXCEPT ![c] = Serving[c]]
      BY <2>1, <2>2, <3>2
    <3>5. Promise!Install(cur)
      BY <2>1, <3>3, <3>4 DEF Promise!Install, Promise!Undecided, Promise!NoKey, NoKey
    <3> QED BY <2>1, <3>5 DEF Promise!Next
  <2>3. CASE journal' = journal \/ Present(active[c])
    <3>1. Serving' = Serving
      BY <2>1, <2>3 DEF Serving, Interrupted, NoKey
    <3> QED BY <2>1, <3>1 DEF Promise!avars
  <2> QED BY <2>2, <2>3
<1>10. CASE MovePrev
  <2>0. TakenBack = NoKey /\ TakenBack' = NoKey
    BY <1>10, NothingTakenBack DEF FileStep
  <2> USE <2>0
  <2> USE <1>10 DEF MovePrev, Refuse
  <2> DEFINE c == cur.component
  <2>1. /\ cur \in Key /\ cur \in staged /\ journal = cur /\ results[cur] = NoResult
        /\ UNCHANGED <<staged, journal, results>>
    OBVIOUS
  <2>2. CASE pc' = "place" /\ Present(active[c])
    <3>1. /\ prev' = [prev EXCEPT ![c] = active[c]]
          /\ active' = [active EXCEPT ![c] = NoVersion]
      BY <2>2
    <3>2. Serving' = [Serving EXCEPT ![c] = cur.version]
      BY <2>1, <2>2, <3>1 DEF Serving
    <3>3. prev' = [prev EXCEPT ![c] = Serving[c]]
      BY <2>1, <2>2, <3>1 DEF Serving
    <3>4. Promise!Install(cur)
      BY <2>1, <3>2, <3>3 DEF Promise!Install, Promise!Undecided, Promise!NoKey, NoKey
    <3> QED BY <2>1, <3>4 DEF Promise!Next
  <2>3. CASE ~(pc' = "place" /\ Present(active[c]))
    BY <2>1, <2>3 DEF Serving, Promise!avars
  <2> QED BY <2>2, <2>3
<1>11. CASE Place
  <2>0. TakenBack = NoKey /\ TakenBack' = NoKey
    BY <1>11, NothingTakenBack DEF FileStep
  <2> USE <2>0
  <2> USE <1>11 DEF Place
  <2>1. cur \in Key /\ cur \in staged /\ journal = cur /\ ~Present(active[cur.component])
    OBVIOUS
  <2>2. Serving' = Serving
    BY <2>1 DEF Serving
  <2>3. prev' = prev /\ results' = results
    OBVIOUS
  <2> QED BY <2>2, <2>3 DEF Promise!avars
<1>12. CASE PutBack
  <2>0. TakenBack = NoKey /\ TakenBack' = NoKey
    BY <1>12, NothingTakenBack DEF FileStep
  <2> USE <2>0
  <2> USE <1>12 DEF PutBack
  <2> DEFINE c == cur.component
  <2>1. /\ cur \in Key /\ cur \in staged /\ journal = cur /\ results[cur] = NoResult
        /\ ~Present(active[c]) /\ prev[c] \in Version
        /\ UNCHANGED <<staged, journal, results>>
    OBVIOUS
  <2>2. CASE UNCHANGED <<active, prev>>
    BY <2>1, <2>2 DEF Serving, Promise!avars
  <2>3. CASE ~UNCHANGED <<active, prev>>
    <3>1. /\ active' = [active EXCEPT ![c] = prev[c]]
          /\ prev' = [prev EXCEPT ![c] = NoVersion]
      BY <2>3
    <3>2. Serving[c] = cur.version
      BY <2>1 DEF Serving
    <3>3. Serving' = [Serving EXCEPT ![c] = prev[c]]
      BY <2>1, <3>1 DEF Serving
    <3>4. Promise!Revert(cur)
      BY <2>1, <3>1, <3>2, <3>3 DEF Promise!Revert, Promise!Undecided, Promise!NoKey, NoKey
    <3> QED BY <2>1, <3>4 DEF Promise!Next
  <2> QED BY <2>2, <2>3
<1>13. CASE Unjournal
  <2>0. TakenBack = NoKey /\ TakenBack' = NoKey
    BY <1>13, NothingTakenBack DEF FileStep
  <2> USE <2>0
  <2> USE <1>13 DEF Unjournal, RemoveJournal, RestartOf
  <2> DEFINE c == cur.component
  <2>1. /\ cur \in Key /\ journal = cur /\ journal' = NoKey /\ results[cur] = NoResult
        /\ UNCHANGED <<active, prev, staged, results>>
    OBVIOUS
  <2>2. CASE cur \in staged /\ ~Present(active[c])
    <3>1. Serving[c] = cur.version /\ prev[c] \in Version
      BY <2>1, <2>2 DEF Serving
    <3>2. Serving' = [Serving EXCEPT ![c] = prev[c]]
      BY <2>1, <2>2 DEF Serving, NoKey
    <3>3. Promise!Revert(cur)
      BY <2>1, <3>1, <3>2 DEF Promise!Revert, Promise!Undecided, Promise!NoKey, NoKey
    <3> QED BY <2>1, <3>3 DEF Promise!Next
  <2>3. CASE ~(cur \in staged /\ ~Present(active[c]))
    <3>1. Serving' = Serving
      BY <2>1, <2>3 DEF Serving, NoKey
    <3> QED BY <2>1, <3>1 DEF Promise!avars
  <2> QED BY <2>2, <2>3
<1>14. CASE RollBack
  <2> USE <1>14 DEF RollBack, Refuse
  <2> DEFINE c == cur.component
  <2>1. /\ cur \in Key /\ results[cur] = NoResult /\ active[c] = cur.version
        /\ UNCHANGED <<staged, journal, results>>
    OBVIOUS
  <2>2. CASE UNCHANGED <<active, prev>>
    BY <2>1, <2>2 DEF Serving, TakenBack, Promise!avars
  <2>3. CASE ~UNCHANGED <<active, prev>>
    <3>1. /\ prev[c] \in Version
          /\ active' = [active EXCEPT ![c] = prev[c]]
          /\ prev' = [prev EXCEPT ![c] = NoVersion]
          /\ TakenBack' = cur
      BY <2>1, <2>3 DEF TakenBack
    <3>2. Serving[c] = cur.version
      BY <2>1 DEF Serving
    <3>3. Serving' = [Serving EXCEPT ![c] = prev[c]]
      BY <2>1, <3>1 DEF Serving
    <3>4. Promise!Revert(cur)
      BY <2>1, <3>1, <3>2, <3>3 DEF Promise!Revert, Promise!Undecided, Promise!NoKey, NoKey
    <3> QED BY <2>1, <3>4 DEF Promise!Next
  <2> QED BY <2>2, <2>3
<1>15. CASE Record
  <2> USE <1>15 DEF Record, WriteResult
  <2>1. /\ cur \in Key /\ results[cur] = NoResult /\ verdict \in Outcome
        /\ verdict = "Activated" => active[cur.component] = cur.version
        /\ results' = [results EXCEPT ![cur] = verdict]
    OBVIOUS
  <2>2. Serving' = Serving /\ prev' = prev /\ TakenBack' = NoKey
    BY DEF Serving, TakenBack, EndJob
  <2>3. CASE verdict = "Activated"
    <3>1. Serving[cur.component] = cur.version
      BY <2>1, <2>3 DEF Serving
    <3>2. Promise!Succeed(cur)
      BY <2>1, <2>2, <2>3, <3>1 DEF Promise!Succeed, Promise!Undecided, TakenBack
    <3> QED BY <2>1, <3>2 DEF Promise!Next
  <2>4. CASE verdict = "RolledBack"
    <3>1. Promise!GiveUp(cur)
      BY <2>1, <2>2, <2>4
         DEF Promise!GiveUp, Promise!Undecided, Promise!NoKey, NoKey, TakenBack
    <3> QED BY <2>1, <3>1 DEF Promise!Next
  <2>5. CASE verdict = "Invalid"
    <3>1. results' = [k \in Key |-> IF k \in {cur} THEN "Invalid" ELSE results[k]]
      BY <2>1, <2>5
    <3>2. Promise!Dismiss({cur})
      BY <2>1, <2>2, <2>5, <3>1 DEF Promise!Dismiss, Promise!Undecided, TakenBack
    <3>3. {cur} \in SUBSET Key
      BY <2>1
    <3> QED BY <3>2, <3>3 DEF Promise!Next
  <2> QED BY <2>1, <2>3, <2>4, <2>5
<1>16. CASE WorkerNext
  <2>1. Serving' = Serving /\ prev' = prev /\ TakenBack' = TakenBack
    BY <1>16
       DEF WorkerNext, WorkerEmits, WorkerCollectsRequest, WorkerCollectsResult, WorkerErrs,
                SupervisorUnchanged, Serving, TakenBack
  <2>2. CASE WorkerErrs
    BY <2>1, <2>2 DEF WorkerErrs, Promise!avars
  <2>3. ASSUME NEW k \in Requested, WorkerEmits(k) \/ WorkerCollectsRequest(k)
        PROVE  [Promise!Next]_(Promise!avars)
    BY <2>1, <2>3
       DEF WorkerEmits, WorkerCollectsRequest, WriteRequest, RemoveRequest, Promise!avars
  <2>4. ASSUME NEW k \in Requested, WorkerCollectsResult(k)
        PROVE  [Promise!Next]_(Promise!avars)
    <3>1. Promise!Collect(k)
      BY <2>1, <2>4 DEF WorkerCollectsResult, RemoveResult, Promise!Collect
    <3>2. k \in Key
      BY RequestedAssumption
    <3> QED BY <3>1, <3>2 DEF Promise!Next
  <2> QED BY <1>16, <2>2, <2>3, <2>4 DEF WorkerNext
<1> QED
  BY <1>1, <1>2, <1>3, <1>4, <1>5, <1>6, <1>7, <1>8, <1>9, <1>10, <1>11, <1>12,
     <1>13, <1>14, <1>15, <1>16, DiskSteps

-----------------------------------------------------------------------------
(* The inductive invariant holds throughout. *)
THEOREM Invariant == Spec => []IInv
<1> QED
  BY InitInvariant, InvariantStep, PTL DEF Spec

(* Every variable of the Supervisor stays in its type: its counter of steps, *)
(* files, processes and the mailbox (process/mod.rs, update/).               *)
THEOREM TypeCorrect == Spec => []TypeOK
<1>1. IInv => TypeOK
  BY DEF IInv
<1> QED
  BY <1>1, Invariant, PTL

(* Wherever a crash, a failed rename, a failed removal or a failed rollback  *)
(* leaves the files, each component has a binary to be started from: the     *)
(* claim of activate/mod.rs:16, for any number of such faults.               *)
THEOREM AlwaysBootable == Spec => []Bootable
<1>1. IInv => Bootable
  <2> SUFFICES ASSUME IInv, NEW c \in Component PROVE Present(Serving[c])
    BY DEF Bootable
  <2>1. Present(active[c]) \/ Present(prev[c])
    BY DEF IInv, Runnable
  <2>2. journal \in staged => journal \in Key /\ journal.version # NoVersion
    BY NoVersionAssumption DEF IInv, TypeOK, Key
  <2> QED
    BY <2>1, <2>2 DEF Serving, Present
<1> QED
  BY <1>1, Invariant, PTL

(* When the journal can be removed, the Supervisor implements AtomicUpdate:  *)
(* whatever crashes and failed renames interrupt it, an activation looks     *)
(* like one atomic step, is only ever taken back for the retained version    *)
(* and before it has an outcome, and an Activated outcome is true.           *)
THEOREM AtomicActivation ==
  ASSUME ~UnlinkFails
  PROVE  Spec => ImplementsPromise
<1>1. Init => Promise!Init
  <2> SUFFICES ASSUME Init PROVE Promise!Init
    OBVIOUS
  <2>1. Serving = [c \in Component |-> InitVersion]
    BY NoVersionAssumption, InitVersionAssumption DEF Init, Serving, Present
  <2> QED
    BY <2>1 DEF Init, MailboxInit, Promise!Init, Key, NoResult, Component, TakenBack, NoKey,
                Promise!NoKey, Promise!Key, Promise!NoResult, Promise!Component
<1>2. IInv /\ [Next]_vars => [Promise!Next]_(Promise!avars)
  <2> SUFFICES ASSUME IInv, [Next]_vars PROVE [Promise!Next]_(Promise!avars)
    OBVIOUS
  <2>1. CASE Next
    BY <2>1, PromiseStep
  <2>2. CASE UNCHANGED vars
    BY <2>2 DEF vars, mailbox, disk, job, Promise!avars, Serving, TakenBack
  <2> QED
    BY <2>1, <2>2
<1> QED
  BY <1>1, <1>2, Invariant, PTL DEF Spec, ImplementsPromise, Promise!Spec
=============================================================================
