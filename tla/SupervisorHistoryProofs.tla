---------------------- MODULE SupervisorHistoryProofs ----------------------
(***************************************************************************)
(* What SupervisorHistory says of the health gate and of the retained      *)
(* version, proved for every set of versions, every set of requests and    *)
(* any number of faults.  The inductive invariant is that of the           *)
(* Supervisor with two conjuncts more: a verdict Activated waiting to be   *)
(* recorded is that of a gated version, and an activation gets as far as   *)
(* the swap only for another version than the active one, unless that one  *)
(* could not be read.                                                      *)
(***************************************************************************)
EXTENDS SupervisorHistory, SupervisorProofs

GatedOK ==
    /\ gated \in [Component -> SUBSET Version]
    /\ pc = "record" /\ verdict = "Activated" => cur.version \in gated[cur.component]

FreshOK ==
    pc \in {"fetch", "stage", "writeJournal", "movePrev"} => misread \/ ~AlreadyActive

(* The only way to the verdict Activated is through the gate: the fast path  *)
(* of a request that is already active, a best-effort restart, a refusal and *)
(* a rollback all lead to the record with another verdict.                   *)
LEMMA OnlyTheGateActivates ==
  ASSUME VerdictOK, Next, ~GatePasses, pc' = "record", verdict' = "Activated"
  PROVE  pc = "record" /\ verdict = "Activated" /\ cur' = cur
<1> USE DEF VerdictOK, Goto, job, StagePc, NoResult
<1>1. CASE Lifecycle
  BY <1>1 DEF Lifecycle, Start, Reconcile, ClearJournal, RestorePrev, SpawnAnyharness,
              SpawnWorker, Spawn, SpawnOf, AfterReconcile, AnyharnessExited, WorkerExited, Tick
<1>2. CASE ListRequests \/ ReadRequests \/ RankRequests \/ SupersedeRequests \/ PickRequest
  BY <1>2 DEF ListRequests, ReadRequests, RankRequests, SupersedeRequests, PickRequest
<1>9. CASE CheckActive \/ FetchOk
  BY <1>9 DEF CheckActive, RestartOf, FetchOk
<1>3. CASE FetchTransient \/ FetchTerminal \/ Stage \/ WriteJournal \/ MovePrev \/ Place
  BY <1>3
     DEF FetchTransient, EndJob, FetchTerminal, Stage, WriteJournal, MovePrev, Place, Refuse
<1>4. CASE PutBack \/ Unjournal
  BY <1>4 DEF PutBack, Unjournal, RestartOf
<1>5. CASE RestartAnyharness \/ RestartWorker
  BY <1>5 DEF RestartAnyharness, RestartWorker, Restart, RestartOf, AfterRestart
<1>6. CASE GateFails \/ RollBack \/ Record
  BY <1>6 DEF GateFails, RollBack, Refuse, RestartOf, Record, EndJob
<1>7. CASE Failure
  BY <1>7 DEF Failure, ReconcileFails, AfterReconcile, SpawnOf, ListFails, SupersedeFails,
              CheckUnreadable, RecordFails, EndJob, Crash, SpawnFails, ChildExits
<1>8. CASE WorkerNext
  BY <1>8 DEF WorkerNext, WorkerEmits, WorkerCollectsRequest, WorkerCollectsResult,
              WorkerErrs, SupervisorUnchanged
<1> QED
  BY <1>1, <1>2, <1>3, <1>4, <1>5, <1>6, <1>7, <1>8, <1>9 DEF Next, SupervisorNext, Drain

LEMMA GatedStep ==
  ASSUME IInv, GatedOK, HistoryNext
  PROVE  GatedOK'
<1>1. VerdictOK /\ Next /\ (pc \in JobPc => cur \in Key)
  BY DEF HistoryNext, IInv, JobOK
<1>2. CASE GatePasses
  <2>1. cur \in Key /\ cur' = cur
    BY <1>1, <1>2 DEF GatePasses, Goto, JobPc, SwapPc, FinishPc
  <2>2. gated' = [gated EXCEPT ![cur.component] = @ \cup {cur.version}]
    BY <1>2 DEF HistoryNext
  <2> QED
    BY <2>1, <2>2 DEF GatedOK, Key
<1>3. CASE ~GatePasses
  <2>1. gated' = gated
    BY <1>3 DEF HistoryNext
  <2> QED
    BY <1>1, <1>3, <2>1, OnlyTheGateActivates DEF GatedOK
<1> QED
  BY <1>2, <1>3

(* From the check to the renames nothing else changes the active binary. *)
LEMMA FreshStep ==
  ASSUME IInv, FreshOK, HistoryNext
  PROVE  FreshOK'
<1> SUFFICES ASSUME pc' \in {"fetch", "stage", "writeJournal", "movePrev"}, ~misread'
             PROVE  ~AlreadyActive'
  BY DEF FreshOK
<1>1. /\ Next /\ JobOK /\ FixingOK
      /\ misread' = IF pc = "check" THEN CheckUnreadable ELSE misread
  BY DEF HistoryNext, IInv
<1> USE <1>1 DEF FreshOK, AlreadyActive, Goto, disk, job, StagePc, SwapPc, FinishPc, JobPc
<1>2. CASE Lifecycle
  BY <1>2
     DEF Lifecycle, Start, Reconcile, ClearJournal, RestorePrev, SpawnAnyharness,
         SpawnWorker,
              Spawn, SpawnOf, AfterReconcile, AnyharnessExited, WorkerExited, Tick
<1>3. CASE ListRequests \/ ReadRequests \/ RankRequests \/ SupersedeRequests \/ PickRequest
  BY <1>3 DEF ListRequests, ReadRequests, RankRequests, SupersedeRequests, PickRequest
<1>4. CASE CheckActive
  BY <1>4 DEF CheckActive, RestartOf
<1>5. CASE FetchOk \/ FetchTransient \/ FetchTerminal \/ Stage \/ WriteJournal
  BY <1>5 DEF FetchOk, FetchTransient, FetchTerminal, EndJob, Stage, WriteJournal, Refuse
<1>6. CASE MovePrev \/ Place \/ PutBack \/ Unjournal
  BY <1>6 DEF MovePrev, Refuse, Place, PutBack, Unjournal, RestartOf
<1>7. CASE RestartAnyharness \/ RestartWorker \/ GatePasses \/ GateFails \/ RollBack \/ Record
  BY <1>7
     DEF RestartAnyharness, RestartWorker, Restart, RestartOf, AfterRestart, GatePasses,
              GateFails, RollBack, Refuse, Record, EndJob
<1>8. CASE Failure
  BY <1>8 DEF Failure, ReconcileFails, AfterReconcile, SpawnOf, ListFails, SupersedeFails,
              CheckUnreadable, RecordFails, EndJob, Crash, SpawnFails, ChildExits
<1>9. CASE WorkerNext
  BY <1>9
     DEF WorkerNext, WorkerEmits, WorkerCollectsRequest, WorkerCollectsResult, WorkerErrs,
              SupervisorUnchanged
<1> QED
  BY <1>2, <1>3, <1>4, <1>5, <1>6, <1>7, <1>8, <1>9 DEF Next, SupervisorNext, Drain

(* A result becomes Activated only when the drain records its verdict. *)
LEMMA OnlyTheRecordReports ==
  ASSUME IInv, Next, NEW k \in Key, Recorded(k, "Activated")
  PROVE  pc = "record" /\ verdict = "Activated" /\ cur = k
<1>1. results \in [Key -> Outcome \cup {NoResult}]
  BY DEF IInv, TypeOK, MailboxTypeOK
<1>2. results # results'
  BY DEF Recorded
<1>3. \/ ReadRequests \/ SupersedeRequests \/ SupersedeFails \/ Record
      \/ \E j \in Requested : WorkerCollectsResult(j)
  BY <1>2 DEF Next, SupervisorNext, Lifecycle, Drain, Failure, WorkerNext,
     Start, Reconcile, ClearJournal, RestorePrev, SpawnAnyharness, SpawnWorker, Spawn,
     AnyharnessExited, WorkerExited, Tick, ListRequests, RankRequests, PickRequest, CheckActive,
     CheckUnreadable, FetchOk, FetchTransient, FetchTerminal, Stage, WriteJournal,
     MovePrev, Place, PutBack, Unjournal, RestartAnyharness,
     RestartWorker, Restart, GatePasses, GateFails, RollBack, ReconcileFails, ListFails,
     RecordFails, Crash, SpawnFails, ChildExits, WorkerEmits, WriteRequest, WorkerCollectsRequest,
     RemoveRequest, WorkerErrs, mailbox
<1>4. ~ReadRequests /\ ~SupersedeRequests /\ ~SupersedeFails
  BY <1>1 DEF Recorded, ReadRequests, SupersedeRequests, SupersedeFails, Invalidate
<1>5. ASSUME NEW j \in Requested PROVE ~WorkerCollectsResult(j)
  BY <1>1, RequestedAssumption DEF Recorded, WorkerCollectsResult, RemoveResult, NoResult
<1>6. Record
  BY <1>3, <1>4, <1>5
<1> QED
  BY <1>1, <1>6 DEF Record, Recorded, WriteResult

THEOREM HistoryInvariant == HistorySpec => [](IInv /\ GatedOK /\ FreshOK)
<1>1. HistoryInit => IInv /\ GatedOK /\ FreshOK
  <2> SUFFICES ASSUME HistoryInit PROVE IInv /\ GatedOK /\ FreshOK
    OBVIOUS
  <2>1. IInv
    BY InitInvariant DEF HistoryInit
  <2>2. GatedOK
    BY InitVersionAssumption DEF HistoryInit, Init, GatedOK
  <2>3. FreshOK
    BY DEF HistoryInit, Init, FreshOK
  <2> QED
    BY <2>1, <2>2, <2>3
<1>2. IInv /\ GatedOK /\ FreshOK /\ [HistoryNext]_hvars => (IInv /\ GatedOK /\ FreshOK)'
  <2> SUFFICES ASSUME IInv, GatedOK, FreshOK, [HistoryNext]_hvars
               PROVE  (IInv /\ GatedOK /\ FreshOK)'
    OBVIOUS
  <2>1. IInv'
    BY InvariantStep DEF HistoryNext, hvars
  <2>2. CASE HistoryNext
    BY <2>1, <2>2, GatedStep, FreshStep
  <2>3. CASE UNCHANGED hvars
    BY <2>1, <2>3 DEF hvars, vars, disk, job, GatedOK, FreshOK, AlreadyActive
  <2> QED
    BY <2>2, <2>3
<1> QED
  BY <1>1, <1>2, PTL DEF HistorySpec

(* The Supervisor never reports Activated for a version that no health gate  *)
(* has passed, nor for one that is not the binary on disk when the result is *)
(* written (activate/mod.rs:145-159, 202-226), whatever crashed or failed.   *)
THEOREM ActivatedWasGated == HistorySpec => ActivatedIsGated
<1>1. IInv /\ GatedOK /\ [HistoryNext]_hvars =>
        [\A k \in Key : Recorded(k, "Activated") =>
           /\ k.version \in gated[k.component]
           /\ active[k.component] = k.version]_hvars
  <2> SUFFICES ASSUME IInv, GatedOK, HistoryNext, NEW k \in Key, Recorded(k, "Activated")
               PROVE  k.version \in gated[k.component] /\ active[k.component] = k.version
    OBVIOUS
  <2>1. pc = "record" /\ verdict = "Activated" /\ cur = k
    BY OnlyTheRecordReports DEF HistoryNext
  <2>2. active[cur.component] = cur.version
    BY <2>1 DEF IInv, SwappedInOK, SwappedIn
  <2> QED
    BY <2>1, <2>2 DEF GatedOK
<1> QED
  BY <1>1, HistoryInvariant, PTL DEF HistorySpec, ActivatedIsGated

(* The version a swap retains is never the one it installs, so a rollback    *)
(* has somewhere to go (activate/mod.rs:145-151), whatever was interrupted:  *)
(* all that can defeat the fast path is an active binary it cannot read.     *)
THEOREM RetainsAnother == HistorySpec => SwapRetainsAnother
<1>1. IInv /\ FreshOK /\ [HistoryNext]_hvars =>
        [\A c \in Component :
           /\ prev'[c] \notin {prev[c], NoVersion}
           /\ ~misread
           => prev'[c] # cur.version]_hvars
  <2> SUFFICES ASSUME IInv, FreshOK, HistoryNext, NEW c \in Component,
                      prev'[c] \notin {prev[c], NoVersion}, ~misread
               PROVE  prev'[c] # cur.version
    OBVIOUS
  <2>1. Next /\ prev \in [Component -> Version \cup {NoVersion}]
    BY DEF HistoryNext, IInv, TypeOK
  <2>2. CASE UNCHANGED <<disk, results>>
    BY <2>2 DEF disk
  <2>3. CASE ~UNCHANGED <<disk, results>>
    <3>1. MovePrev
      BY <2>1, <2>3, DiskSteps
         DEF Reconcile, ClearJournal, RestorePrev, ReadRequests, SupersedeRequests, SupersedeFails,
             Invalidate, Stage, WriteJournal, Place, PutBack, Unjournal, RollBack, Record,
             WorkerNext, WorkerEmits, WorkerCollectsRequest, WorkerCollectsResult, WorkerErrs,
             SupervisorUnchanged, disk
    <3> QED BY <2>1, <3>1 DEF MovePrev, Goto, FreshOK, AlreadyActive
  <2> QED BY <2>2, <2>3
<1> QED
  BY <1>1, HistoryInvariant, PTL DEF HistorySpec, SwapRetainsAnother
=============================================================================
