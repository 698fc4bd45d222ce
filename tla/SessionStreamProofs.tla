------------------------ MODULE SessionStreamProofs ------------------------
(***************************************************************************)
(* The transcript has no hole, one stream is open at most, and the outbox  *)
(* is told of every event, first events first: for any number of events,   *)
(* attempts, faults, moves of the user and fetches.                        *)
(***************************************************************************)
EXTENDS SessionStream, WellFoundedInduction, TLAPS

-----------------------------------------------------------------------------
(***************************************************************************)
(* Sets of numbers.                                                        *)
(***************************************************************************)
LEMMA LeastElement ==
    ASSUME NEW T \in SUBSET Nat, T # {}
    PROVE  \E x \in T : \A y \in T : x <= y
<1>. DEFINE R == OpToRel(<, Nat)
<1>1. IsWellFoundedOn(R, Nat)
  BY NatLessThanWellFounded
<1>2. PICK x \in T : \A y \in T : ~ (<<y, x>> \in R)
  <2>. HIDE DEF R
  <2>. QED  BY <1>1, WFMin
<1>3. ASSUME NEW y \in T PROVE x <= y
  <2>1. ~ (y < x)
    BY <1>2 DEF OpToRel
  <2>. QED  BY <2>1
<1>. QED  BY <1>3

LEMMA MaxOf ==
    ASSUME NEW n \in Nat, NEW S \in SUBSET (0..n), S # {}
    PROVE  Max(S) \in S /\ \A s \in S : s <= Max(S)
<1>. DEFINE T == {n - s : s \in S}
<1>1. T \in SUBSET Nat /\ T # {}
  <2>1. \A s \in S : n - s \in Nat
    OBVIOUS
  <2>. QED  BY <2>1
<1>2. PICK x \in T : \A y \in T : x <= y
  BY <1>1, LeastElement
<1>3. PICK m \in S : x = n - m
  BY <1>2
<1>4. ASSUME NEW s \in S PROVE m >= s
  <2>1. n - s \in T
    OBVIOUS
  <2>2. n - m <= n - s /\ m \in 0..n /\ s \in 0..n
    BY <2>1, <1>2, <1>3
  <2>. QED  BY <2>2
<1>5. \E m_1 \in S : \A s \in S : m_1 >= s
  BY <1>4
<1>6. Max(S) \in S /\ \A s \in S : Max(S) >= s
  BY <1>5 DEF Max
<1>. QED  BY <1>6

\* The tip of a set of events is its last one.
LEMMA TipFacts ==
    ASSUME NEW n \in Nat, NEW E \in SUBSET (1..n)
    PROVE  /\ Tip(E) \in 0..n
           /\ Tip(E) \in E \union {0}
           /\ \A s \in E : s <= Tip(E)
<1>1. E \union {0} \in SUBSET (0..n) /\ E \union {0} # {}
  OBVIOUS
<1>. QED  BY <1>1, MaxOf DEF Tip

LEMMA TipOfBeginning ==
    ASSUME NEW n \in Nat
    PROVE  Tip(1..n) = n
<1>1. Tip(1..n) \in 0..n /\ \A s \in 1..n : s <= Tip(1..n)
  BY TipFacts
<1>. QED  BY <1>1

\* A batch reaches up to the first event that it lacks.
LEMMA ReachFacts ==
    ASSUME NEW l \in Nat, NEW m \in 0..l, NEW batch \in SUBSET (1..l)
    PROVE  /\ Reach(1..m, batch) \in m..l
           /\ (m + 1)..Reach(1..m, batch) \subseteq batch
<1>. DEFINE top == Max((1..m) \union batch \union {0})
            T == {n \in Nat : n >= m /\ n + 1 \notin batch}
<1>1. /\ top \in 0..l
      /\ \A s \in (1..m) \union batch \union {0} : s <= top
  <2>1. /\ (1..m) \union batch \union {0} \in SUBSET (0..l)
        /\ (1..m) \union batch \union {0} # {}
    OBVIOUS
  <2>. QED  BY <2>1, MaxOf
<1>. HIDE DEF top
<1>2. l \in T /\ T \in SUBSET Nat
  OBVIOUS
<1>3. PICK n \in T : \A k \in T : n <= k
  BY <1>2, LeastElement
<1>4. n \in Nat /\ n >= m /\ n + 1 \notin batch /\ n <= l
  BY <1>2, <1>3
<1>5. ASSUME NEW j \in (m + 1)..n PROVE j \in batch
  <2>1. j - 1 \in Nat /\ j - 1 >= m /\ j - 1 < n /\ (j - 1) + 1 = j
    BY <1>4
  <2>2. j - 1 \notin T
    BY <2>1, <1>3, <1>4
  <2>. QED  BY <2>1, <2>2
<1>6. n \in m..top
  <2>1. CASE n = m
    BY <2>1, <1>1, <1>4
  <2>2. CASE n # m
    <3>1. n \in batch
      BY <2>2, <1>4, <1>5
    <3>. QED  BY <3>1, <1>1, <1>4
  <2>. QED  BY <2>1, <2>2
<1>7. (m + 1)..n \subseteq batch
  BY <1>5
<1>8. Tip(1..m) = m
  BY TipOfBeginning
<1>9. Reach(1..m, batch) = CHOOSE k \in m..top : (m + 1)..k \subseteq batch /\ k + 1 \notin batch
  BY <1>8 DEF Reach, top
<1>10. /\ Reach(1..m, batch) \in m..top
       /\ (m + 1)..Reach(1..m, batch) \subseteq batch
  <2>1. \E k \in m..top : (m + 1)..k \subseteq batch /\ k + 1 \notin batch
    BY <1>4, <1>6, <1>7
  <2>. QED  BY <2>1, <1>9
<1>. QED  BY <1>1, <1>10

-----------------------------------------------------------------------------
(***************************************************************************)
(* The inductive invariant, in parts.                                      *)
(***************************************************************************)
AttemptRecord ==
    [at : {"free", "hydrate", "refresh", "target", "connecting", "open", "closed"},
     token : Nat, reason : Reasons \union {"none"}, awaited : BOOLEAN,
     cursor : 0..log, queue : SUBSET (1..log)]
FetchRecord == [on : BOOLEAN, after : 0..log, from : 0..log]
EntryRecord ==
    [on : BOOLEAN, token : Nat, opening : BOOLEAN, reason : Reasons \union {"none"},
     timer : Reasons \union {"none"}, orphans : SUBSET Reasons]
IsEntry(e) == e \in EntryRecord /\ (~ e.on => e.timer = "none" /\ ~ e.opening)

\* What the fetches and the bounds are; nothing but the log relates them.
Surroundings ==
    /\ log \in 0..MaxEvents
    /\ hydrated \in BOOLEAN
    /\ gap \in [Attempt -> FetchRecord]
    /\ full \in [by : {"nobody", "manager", "pane", "left"}, token : Nat, from : 0..log]
    /\ tail \in FetchRecord
    /\ want \in Reasons \union {"none"}
    /\ idle \in BOOLEAN /\ due \in BOOLEAN
    /\ faults \in Nat /\ moves \in Nat /\ fetches \in Nat

\* The attempts f, of which h is the registered one.
Registered(f, h) ==
    /\ h \in 0..MaxAttempts
    /\ h # 0 => f[h].at \in {"connecting", "open", "closed"}
    /\ \A a \in Attempt : f[a].at \in {"connecting", "open"} => h = a

Connections ==
    /\ attempt \in [Attempt -> AttemptRecord]
    /\ Registered(attempt, handle)
    /\ state \in {"disconnected", "connecting", "open", "ended"}
    /\ IsEntry(entry)

\* The transcript is a beginning of the log, and so is what the outbox was
\* told of, which goes as far at least.
Beginnings(E, told) == \E m, k \in 0..log : m <= k /\ E = 1..m /\ told = 1..k
Whole == Beginnings(events, seen)

IInv == Surroundings /\ Connections /\ Whole

LEMMA IInvImplies ==
    ASSUME IInv
    PROVE  StreamTypeOK /\ TranscriptIsWhole /\ OneStreamOpen
<1>1. PICK m \in 0..log, k \in 0..log : m <= k /\ events = 1..m /\ seen = 1..k
  BY DEF IInv, Whole, Beginnings
<1>2. Tip(events) = m
  BY <1>1, TipOfBeginning DEF IInv, Surroundings
<1>3. TranscriptIsWhole /\ events \subseteq 1..log /\ seen \subseteq 1..log
  BY <1>1, <1>2 DEF TranscriptIsWhole, IInv, Surroundings
<1>4. OneStreamOpen
  BY DEF OneStreamOpen, IInv, Connections, Registered, Streams
<1>5. StreamTypeOK
  BY <1>3 DEF StreamTypeOK, IInv, Surroundings, Connections, Registered, IsEntry,
              AttemptRecord, FetchRecord, EntryRecord
<1>. QED  BY <1>3, <1>4, <1>5

-----------------------------------------------------------------------------
(***************************************************************************)
(* What a flush and a fetch of the tail do to the transcript.              *)
(***************************************************************************)
LEMMA FlushGoesOn ==
    ASSUME IInv, NEW a \in Attempt
    PROVE  /\ Beginnings(Flushed(a).events, Flushed(a).seen)
           /\ seen \subseteq Flushed(a).seen
           /\ GapFetch(a) \in FetchRecord
<1>. DEFINE batch == IF Listening(a) THEN attempt[a].queue ELSE {}
            n == Reach(events, batch)
<1>0. log \in Nat /\ batch \in SUBSET (1..log)
  BY DEF IInv, Surroundings, Connections, AttemptRecord
<1>1. PICK m \in 0..log, k \in 0..log : m <= k /\ events = 1..m /\ seen = 1..k
  BY DEF IInv, Whole, Beginnings
<1>2. Flushed(a) = [events |-> IF batch = {} THEN events
                               ELSE events \union (batch \intersect (Tip(events) + 1)..n),
                    seen |-> seen \union {s \in batch : s <= n},
                    gap |-> \E s \in batch : s > n,
                    after |-> n]
  BY DEF Flushed
<1>. HIDE DEF batch
<1>3. n \in m..log /\ (m + 1)..n \subseteq batch
  BY <1>0, <1>1, ReachFacts
<1>. HIDE DEF n
<1>4. Tip(events) = m
  BY <1>0, <1>1, TipOfBeginning
<1>5. Flushed(a).events = events \/ Flushed(a).events = 1..n
  <2>1. CASE batch # {}
    <3>1. events \union (batch \intersect (m + 1)..n) = 1..n
      <4>1. batch \intersect (m + 1)..n = (m + 1)..n
        BY <1>3
      <4>2. (1..m) \union ((m + 1)..n) = 1..n
        BY <1>0, <1>3
      <4>. QED  BY <4>1, <4>2, <1>1
    <3>2. Flushed(a).events = IF batch = {} THEN events
                              ELSE events \union (batch \intersect (Tip(events) + 1)..n)
      BY <1>2
    <3>. QED  BY <3>1, <3>2, <2>1, <1>4
  <2>2. CASE batch = {}
    BY <2>2, <1>2
  <2>. QED  BY <2>1, <2>2
<1>6. n <= k => Flushed(a).seen = 1..k
  <2>1. ASSUME n <= k PROVE \A s \in batch : s <= n => s \in 1..k
    BY <2>1, <1>0, <1>3
  <2>2. ASSUME n <= k PROVE seen \union {s \in batch : s <= n} = seen
    BY <2>1, <2>2, <1>1
  <2>. QED  BY <2>2, <1>1, <1>2
<1>7. ~ (n <= k) => Flushed(a).seen = 1..n
  <2>1. ASSUME ~ (n <= k) PROVE (1..k) \union {s \in batch : s <= n} = 1..n
    <3>1. ASSUME NEW s \in 1..n, s \notin 1..k PROVE s \in batch /\ s <= n
      <4>1. s \in (m + 1)..n
        BY <3>1, <1>0, <1>1, <1>3
      <4>. QED  BY <4>1, <1>3
    <3>2. \A s \in batch : s <= n => s \in 1..n
      BY <1>0, <1>3
    <3>3. \A s \in 1..k : s \in 1..n
      BY <2>1, <1>3
    <3>. QED  BY <3>1, <3>2, <3>3
  <2>. QED  BY <2>1, <1>1, <1>2
<1>8. Beginnings(Flushed(a).events, Flushed(a).seen)
  BY <1>0, <1>1, <1>3, <1>5, <1>6, <1>7 DEF Beginnings
<1>9. seen \subseteq Flushed(a).seen
  BY <1>2
<1>10. GapFetch(a) \in FetchRecord
  <2>1. Flushed(a).after \in 0..log
    BY <1>0, <1>2, <1>3
  <2>2. gap[a] \in FetchRecord /\ log \in 0..log
    BY <1>0 DEF IInv, Surroundings
  <2>. QED  BY <2>1, <2>2 DEF GapFetch, FetchRecord
<1>. QED  BY <1>8, <1>9, <1>10

LEMMA TailGoesOn ==
    ASSUME IInv, NEW fetch \in FetchRecord, NEW r \in fetch.from..log, AppendTail(fetch, r)
    PROVE  Beginnings(events', seen') /\ seen \subseteq seen'
<1>0. log \in Nat /\ fetch.after \in Nat /\ r \in 0..log
  BY DEF IInv, Surroundings, FetchRecord
<1>1. PICK m \in 0..log, k \in 0..log : m <= k /\ events = 1..m /\ seen = 1..k
  BY DEF IInv, Whole, Beginnings
<1>2. Tip(events) = m
  BY <1>0, <1>1, TipOfBeginning
<1>3. CASE fetch.after <= m /\ r > m
  <2>1. events' = 1..r
    <3>1. events' = events \union (m + 1)..r
      BY <1>2, <1>3 DEF AppendTail
    <3>2. (1..m) \union ((m + 1)..r) = 1..r
      BY <1>0, <1>3
    <3>. QED  BY <3>1, <3>2, <1>1
  <2>2. seen' = 1..k \union (fetch.after + 1)..r
    BY <1>1, <1>2, <1>3 DEF AppendTail, ToldOfTail
  <2>3. seen' = IF r <= k THEN 1..k ELSE 1..r
    BY <2>2, <1>0, <1>1, <1>3
  <2>. QED  BY <2>1, <2>3, <1>0, <1>1 DEF Beginnings
<1>4. CASE ~ (fetch.after <= m /\ r > m)
  BY <1>2, <1>4 DEF AppendTail, IInv, Whole
<1>. QED  BY <1>3, <1>4

-----------------------------------------------------------------------------
(***************************************************************************)
(* The entry of the manager, and the opening of a stream.                  *)
(***************************************************************************)
LEMMA EntryFacts ==
    ASSUME IInv, NEW a \in Attempt
    PROVE  /\ IsCurrent(attempt[a].token) => IsEntry(RetryScheduled(a))
           /\ IsEntry(Settled(a))
           /\ IsEntry(Left)
<1>1. entry \in EntryRecord /\ attempt[a].reason \in Reasons \union {"none"} /\ IsEntry(entry)
  BY DEF IInv, Connections, AttemptRecord, IsEntry
<1>2. IsCurrent(attempt[a].token) => IsEntry(RetryScheduled(a))
  BY <1>1 DEF IsCurrent, RetryScheduled, IsEntry, EntryRecord
<1>3. IsEntry(Settled(a))
  BY <1>1 DEF Settled, IsEntry, EntryRecord
<1>4. IsEntry(Left)
  BY <1>1 DEF Left, NoEntry, IsEntry, EntryRecord
<1>. QED  BY <1>2, <1>3, <1>4

LEMMA FreeAttempt ==
    ASSUME IInv
    PROVE  Free \in AttemptRecord /\ Free.at = "free"
<1>1. 0 \in 0..log
  BY DEF IInv, Surroundings
<1>. QED  BY <1>1 DEF Free, AttemptRecord

\* One attempt moves on, and stays or becomes neither open nor registered.
LEMMA AttemptMoves ==
    ASSUME NEW f \in [Attempt -> AttemptRecord], NEW h, Registered(f, h),
           NEW a \in Attempt, NEW x \in AttemptRecord,
           x.at \in {"connecting", "open"} => a = h,
           a = h => x.at \in {"connecting", "open", "closed"}
    PROVE  /\ [f EXCEPT ![a] = x] \in [Attempt -> AttemptRecord]
           /\ Registered([f EXCEPT ![a] = x], h)
BY AttemptsAssumption DEF Registered, Attempt

LEMMA NoneRegistered ==
    ASSUME NEW f, \A a \in Attempt : f[a].at \notin {"connecting", "open"}
    PROVE  Registered(f, 0)
<1>1. 0 \in 0..MaxAttempts
  BY AttemptsAssumption
<1>. QED  BY <1>1 DEF Registered

\* The registered attempt is closed.
LEMMA AttemptEnds ==
    ASSUME NEW f \in [Attempt -> AttemptRecord], NEW h, Registered(f, h),
           NEW a \in Attempt, NEW x \in AttemptRecord,
           x.at \notin {"connecting", "open"}, h \in {0, a}
    PROVE  /\ [f EXCEPT ![a] = x] \in [Attempt -> AttemptRecord]
           /\ Registered([f EXCEPT ![a] = x], 0)
BY AttemptsAssumption DEF Registered, Attempt

LEMMA OpenStreamGoesOn ==
    ASSUME IInv, UNCHANGED log, Whole',
           NEW A \in SUBSET Attempt, NEW f \in [Attempt -> AttemptRecord],
           NEW e \in EntryRecord, e.on, NEW reason \in Reasons \union {"none"},
           Registered(f, handle), handle \notin A,
           OpenStream(A, f, e, reason)
    PROVE  Connections'
<1>. DEFINE opened == [Free EXCEPT !.at = "target", !.token = e.token,
                                   !.reason = reason, !.cursor = Tip(events')]
<1>1. log \in Nat
  BY DEF IInv, Surroundings
<1>2. Tip(events') \in 0..log
  BY <1>1, TipOfBeginning DEF Whole, Beginnings
<1>3. opened \in AttemptRecord /\ opened.at = "target"
  BY <1>2 DEF Free, AttemptRecord, EntryRecord
<1>. HIDE DEF opened
<1>4. CASE MayOpen
  <2>1. /\ attempt' = [b \in Attempt |->
                 CASE b \in A -> opened
                   [] b \notin A /\ b = handle -> [f[b] EXCEPT !.at = "closed"]
                   [] OTHER -> f[b]]
        /\ handle' = 0 /\ state' = "disconnected" /\ entry' = e
    BY <1>4 DEF OpenStream, opened
  <2>2. ASSUME NEW b \in Attempt
        PROVE  attempt'[b] \in AttemptRecord /\ attempt'[b].at \notin {"connecting", "open"}
    <3>1. f[b] \in AttemptRecord
      OBVIOUS
    <3>2. CASE b \in A
      BY <3>2, <2>1, <1>3
    <3>3. CASE b \notin A /\ b = handle
      <4>1. attempt'[b] = [f[b] EXCEPT !.at = "closed"]
        BY <3>3, <2>1
      <4>. QED  BY <4>1, <3>1 DEF AttemptRecord
    <3>4. CASE b \notin A /\ b # handle
      BY <3>4, <3>1, <2>1 DEF Registered
    <3>. QED  BY <3>2, <3>3, <3>4
  <2>3. attempt' \in [Attempt -> AttemptRecord]
    BY <2>1, <2>2
  <2>4. IsEntry(entry)'
    BY <2>1 DEF IsEntry, EntryRecord
  <2>5. Registered(attempt', handle')
    BY <2>1, <2>2, NoneRegistered
  <2>6. AttemptRecord' = AttemptRecord /\ EntryRecord' = EntryRecord
    BY DEF AttemptRecord, EntryRecord
  <2>. QED  BY <2>1, <2>3, <2>4, <2>5, <2>6 DEF Connections, Registered
<1>5. CASE ~ MayOpen
  <2>1. /\ attempt' = [b \in Attempt |-> IF b \in A THEN Free ELSE f[b]]
        /\ entry' = [e EXCEPT !.opening = FALSE]
        /\ UNCHANGED <<handle, state>>
    BY <1>5 DEF OpenStream
  <2>2. attempt' \in [Attempt -> AttemptRecord]
    BY <2>1, FreeAttempt
  <2>3. Registered(attempt', handle')
    <3>1. Free.at = "free" /\ 0 \notin Attempt
      BY DEF Free, Attempt
    <3>. QED  BY <2>1, <3>1 DEF Registered, Attempt
  <2>4. IsEntry(entry)'
    BY <2>1 DEF IsEntry, EntryRecord
  <2>. QED  BY <2>1, <2>2, <2>3, <2>4 DEF Connections, Registered, AttemptRecord, IInv
<1>. QED  BY <1>4, <1>5

LEMMA ConnectGoesOn ==
    ASSUME IInv, UNCHANGED log,
           NEW token \in Nat, NEW reason \in Reasons, Connect(token, reason)
    PROVE  /\ Connections'
           /\ UNCHANGED <<transcriptVars, gap>>
           /\ full' \in [by : {"nobody", "manager", "pane", "left"}, token : Nat, from : 0..log]
<1>. DEFINE e == [on |-> TRUE, token |-> token, opening |-> TRUE, reason |-> reason,
                  timer |-> "none",
                  orphans |-> IF token = entry.token THEN entry.orphans ELSE {}]
<1>1. PICK a \in Attempt :
        /\ IsFresh(a)
        /\ UNCHANGED <<transcriptVars, gap>>
        /\ IF reason = "selected" /\ ~ hydrated
           THEN /\ attempt' = [attempt EXCEPT ![a] =
                       [Free EXCEPT !.at = "hydrate", !.token = token, !.reason = reason]]
                /\ full' = IF full.by = "nobody"
                           THEN [by |-> "manager", token |-> token, from |-> log] ELSE full
                /\ entry' = e
                /\ UNCHANGED <<handle, state>>
           ELSE /\ OpenStream({a}, attempt, e, reason)
                /\ UNCHANGED full
  BY DEF Connect
<1>2. e \in EntryRecord /\ e.on /\ e.timer = "none"
  BY DEF EntryRecord, IInv, Connections, IsEntry
<1>. HIDE DEF e
<1>3. handle # a
  BY <1>1 DEF IsFresh, InUse
<1>4. log \in Nat /\ Whole'
  BY <1>1 DEF IInv, Surroundings, Whole, transcriptVars, Beginnings
<1>5. CASE reason = "selected" /\ ~ hydrated
  <2>1. [Free EXCEPT !.at = "hydrate", !.token = token, !.reason = reason] \in AttemptRecord
    <3>1. Free \in AttemptRecord
      BY FreeAttempt
    <3>. QED  BY <3>1 DEF AttemptRecord
  <2>2. /\ attempt' = [attempt EXCEPT ![a] =
              [Free EXCEPT !.at = "hydrate", !.token = token, !.reason = reason]]
        /\ handle' = handle
    BY <1>1, <1>5
  <2>0. [Free EXCEPT !.at = "hydrate", !.token = token, !.reason = reason].at = "hydrate"
    BY DEF Free
  <2>3. attempt' \in [Attempt -> AttemptRecord] /\ Registered(attempt', handle')
    BY <1>3, <2>0, <2>1, <2>2, AttemptMoves DEF IInv, Connections
  <2>4. IsEntry(entry)'
    BY <1>1, <1>2, <1>5 DEF IsEntry, EntryRecord
  <2>5. Connections'
    BY <1>1, <1>5, <2>2, <2>3, <2>4 DEF Connections, Registered, AttemptRecord, IInv
  <2>. QED  BY <2>5, <1>1, <1>4, <1>5 DEF IInv, Surroundings
<1>6. CASE ~ (reason = "selected" /\ ~ hydrated)
  <2>1. Connections'
    BY <1>1, <1>2, <1>3, <1>4, <1>6, OpenStreamGoesOn DEF IInv, Connections
  <2>. QED  BY <2>1, <1>1, <1>6 DEF IInv, Surroundings
<1>. QED  BY <1>5, <1>6

-----------------------------------------------------------------------------
(***************************************************************************)
(* The steps, one by one.                                                  *)
(***************************************************************************)
\* A step keeps the invariant; either the log grows or the outbox sees more.
GoesOn ==
    /\ IInv'
    /\ seen \subseteq seen'
    /\ log' = log \/ (log' = log + 1 /\ seen' = seen)

\* The record types depend on the log alone.
LEMMA SameLog ==
    ASSUME log' = log
    PROVE  AttemptRecord' = AttemptRecord /\ FetchRecord' = FetchRecord
           /\ Beginnings(events, seen)' = Beginnings(events', seen')
  BY DEF AttemptRecord, FetchRecord, Beginnings

LEMMA ReconcileGoesOn ==
    ASSUME IInv, ReconcileHotSessions \/ RetryFires
    PROVE  GoesOn
<1>1. UNCHANGED <<log, tail, want, idle, boundVars>> /\ due' \in BOOLEAN
  BY DEF ReconcileHotSessions, RetryFires, Noticed, IInv, Surroundings
<1>2. UNCHANGED <<log, tail, want, idle, faults, moves, fetches>>
  BY <1>1 DEF boundVars
<1>3. entry.token \in Nat /\ NewToken \in Nat /\ IsEntry(entry)
  BY DEF IInv, Connections, IsEntry, EntryRecord, NewToken
<1>4. CASE \E token \in Nat, reason \in Reasons : Connect(token, reason)
  <2>1. /\ Connections' /\ UNCHANGED <<transcriptVars, gap>>
        /\ full' \in [by : {"nobody", "manager", "pane", "left"}, token : Nat, from : 0..log]
    BY <1>2, <1>4, ConnectGoesOn
  <2>. QED  BY <2>1, <1>1, <1>2, SameLog
            DEF GoesOn, IInv, Surroundings, Whole, transcriptVars
<1>5. CASE CloseHotStream
  <2>1. attempt' \in [Attempt -> AttemptRecord] /\ Registered(attempt', handle')
    <3>1. /\ attempt' = [a \in Attempt |-> IF a = handle
                                       THEN [attempt[a] EXCEPT !.at = "closed", !.queue = {}]
                                       ELSE attempt[a]]
          /\ handle' = 0
      BY <1>5 DEF CloseHotStream
    <3>2. attempt \in [Attempt -> AttemptRecord] /\ Registered(attempt, handle)
      BY DEF IInv, Connections
    <3>3. ASSUME NEW a \in Attempt
          PROVE  attempt'[a] \in AttemptRecord /\ attempt'[a].at \notin {"connecting", "open"}
      <4>1. [attempt[a] EXCEPT !.at = "closed", !.queue = {}] \in AttemptRecord
        BY <3>2 DEF AttemptRecord
      <4>2. CASE a = handle
        BY <4>1, <4>2, <3>1, <3>2 DEF AttemptRecord
      <4>3. CASE a # handle
        BY <4>3, <3>1, <3>2 DEF Registered
      <4>. QED  BY <4>2, <4>3
    <3>. QED  BY <3>1, <3>3, NoneRegistered
  <2>2. IsEntry(Left)
    BY <1>3 DEF Left, NoEntry, IsEntry, EntryRecord
  <2>3. Connections'
    BY <1>2, <1>5, <2>1, <2>2, SameLog DEF CloseHotStream, Connections, Registered, IsEntry, EntryRecord
  <2>. QED  BY <2>3, <1>1, <1>2, <1>5, SameLog
            DEF CloseHotStream, GoesOn, IInv, Surroundings, Whole, transcriptVars
<1>6. CASE /\ entry' = [entry EXCEPT !.reason = want]
           /\ UNCHANGED <<transcriptVars, attempt, gap, full, handle, state>>
  <2>1. IsEntry(entry')
    BY <1>3, <1>6 DEF IsEntry, EntryRecord, IInv, Surroundings
  <2>2. Connections'
    BY <1>2, <1>6, <2>1, SameLog DEF Connections, Registered, IsEntry, EntryRecord, IInv
  <2>. QED  BY <2>2, <1>1, <1>2, <1>6, SameLog
            DEF GoesOn, IInv, Surroundings, Whole, transcriptVars
<1>7. CASE ReconcileHotSessions
  <2>1. want # "none" => want \in Reasons
    BY DEF IInv, Surroundings
  <2>. QED  BY <1>3, <1>4, <1>5, <1>6, <1>7, <2>1 DEF ReconcileHotSessions
<1>8. CASE RetryFires
  BY <1>3, <1>4, <1>8 DEF RetryFires
<1>. QED  BY <1>7, <1>8

\* A step of a stream or a fetch of attempt a, which leaves the surroundings
\* alone, goes on when each of the things it touches does.
LEMMA StepGoesOn ==
    ASSUME IInv, UNCHANGED <<log, want, idle, moves, fetches>>,
           hydrated' \in BOOLEAN, due' \in BOOLEAN, faults' \in Nat,
           gap' \in [Attempt -> FetchRecord], tail' \in FetchRecord,
           full' \in [by : {"nobody", "manager", "pane", "left"}, token : Nat, from : 0..log],
           attempt' \in [Attempt -> AttemptRecord], Registered(attempt', handle'),
           state' \in {"disconnected", "connecting", "open", "ended"}, IsEntry(entry'),
           Beginnings(events', seen'), seen \subseteq seen'
    PROVE  GoesOn
<1>1. Registered(attempt, handle)' = Registered(attempt', handle')
  BY DEF Registered
<1>2. IsEntry(entry)' = IsEntry(entry')
  BY DEF IsEntry, EntryRecord
<1>3. Surroundings'
  BY SameLog DEF IInv, Surroundings
<1>4. Connections'
  BY <1>1, <1>2, SameLog DEF Connections
<1>5. Whole'
  BY SameLog DEF Whole
<1>. QED  BY <1>3, <1>4, <1>5 DEF GoesOn, IInv

\* What an attempt's record becomes.
LEMMA AttemptBecomes ==
    ASSUME NEW x \in AttemptRecord, NEW awaited \in BOOLEAN, NEW queue \in SUBSET (1..log),
           NEW at \in {"connecting", "open", "closed"}
    PROVE  /\ [x EXCEPT !.at = at] \in AttemptRecord
           /\ [x EXCEPT !.awaited = awaited] \in AttemptRecord
           /\ [x EXCEPT !.queue = queue] \in AttemptRecord
           /\ [x EXCEPT !.at = at].at = at
           /\ [x EXCEPT !.awaited = awaited].at = x.at
           /\ [x EXCEPT !.queue = queue].at = x.at
BY DEF AttemptRecord

LEMMA Unmoved ==
    ASSUME IInv
    PROVE  /\ hydrated \in BOOLEAN /\ due \in BOOLEAN /\ faults \in Nat /\ log \in Nat
           /\ gap \in [Attempt -> FetchRecord] /\ tail \in FetchRecord
           /\ full \in [by : {"nobody", "manager", "pane", "left"}, token : Nat, from : 0..log]
           /\ attempt \in [Attempt -> AttemptRecord] /\ Registered(attempt, handle)
           /\ state \in {"disconnected", "connecting", "open", "ended"} /\ IsEntry(entry)
           /\ Beginnings(events, seen)
BY DEF IInv, Surroundings, Connections, Whole

LEMMA NoticedType ==
    ASSUME IInv, Noticed
    PROVE  due' \in BOOLEAN
BY DEF Noticed, IInv, Surroundings

LEMMA FaultType ==
    ASSUME IInv, Fault \/ UNCHANGED faults
    PROVE  faults' \in Nat
BY DEF Fault, IInv, Surroundings

LEMMA TargetGoesOn ==
    ASSUME IInv, NEW a \in Attempt, TargetResolved(a) \/ TargetFails(a)
    PROVE  GoesOn
<1>1. /\ UNCHANGED <<log, want, idle, moves, fetches, hydrated, full, tail>>
      /\ attempt[a].at = "target" /\ handle # a /\ a # 0
  BY Unmoved DEF TargetResolved, TargetFails, StreamStep, Registered, Attempt
<1>2. CASE TargetResolved(a)
  <2>1. due' \in BOOLEAN /\ faults' \in Nat /\ entry' = entry
    BY <1>2, NoticedType, FaultType DEF TargetResolved
  <2>2. CASE IsCurrent(attempt[a].token)
    <3>1. /\ attempt' = Registers(a) /\ handle' = a /\ state' = "connecting"
          /\ IF handle = 0 THEN UNCHANGED <<events, seen, gap>>
             ELSE /\ Apply(Flushed(handle))
                  /\ gap' = [gap EXCEPT ![handle] = GapFetch(handle)]
      BY <1>2, <2>2 DEF TargetResolved
    <3>2. handle # 0 => handle \in Attempt
      BY Unmoved DEF Registered, Attempt
    <3>3. Beginnings(events', seen') /\ seen \subseteq seen' /\ gap' \in [Attempt -> FetchRecord]
      BY <3>1, <3>2, FlushGoesOn, Unmoved DEF Apply
    <3>4. ASSUME NEW b \in Attempt
          PROVE  /\ attempt'[b] \in AttemptRecord
                 /\ attempt'[b].at \in {"connecting", "open"} <=> b = a
      <4>1. attempt[b] \in AttemptRecord
        BY Unmoved
      <4>2. CASE b = a
        <5>1. attempt'[b] = [attempt[a] EXCEPT !.at = "connecting", !.awaited = TRUE]
          BY <4>2, <3>1 DEF Registers
        <5>. QED  BY <4>1, <4>2, <5>1 DEF AttemptRecord
      <4>3. CASE b # a /\ b = handle
        <5>1. attempt'[b] = [attempt[b] EXCEPT !.at = "closed", !.queue = {}]
          BY <4>3, <3>1 DEF Registers
        <5>. QED  BY <4>1, <4>3, <5>1 DEF AttemptRecord
      <4>4. CASE b # a /\ b # handle
        <5>1. attempt'[b] = attempt[b]
          BY <4>4, <3>1 DEF Registers
        <5>. QED  BY <4>1, <4>4, <5>1, Unmoved DEF Registered
      <4>. QED  BY <4>2, <4>3, <4>4
    <3>5. attempt' \in [Attempt -> AttemptRecord]
      BY <3>1, <3>4 DEF Registers
    <3>6. Registered(attempt', handle')
      <4>1. a \in 0..MaxAttempts
        BY AttemptsAssumption DEF Attempt
      <4>2. attempt'[a].at \in {"connecting", "open"}
        BY <3>4
      <4>. QED  BY <3>1, <3>4, <4>1, <4>2 DEF Registered
    <3>. QED  BY <1>1, <2>1, <3>1, <3>3, <3>5, <3>6, StepGoesOn, Unmoved
  <2>3. CASE ~ IsCurrent(attempt[a].token)
    <3>1. attempt' = [attempt EXCEPT ![a] = Free] /\ UNCHANGED <<handle, state, events, seen, gap>>
      BY <1>2, <2>3 DEF TargetResolved
    <3>2. attempt' \in [Attempt -> AttemptRecord] /\ Registered(attempt', handle')
      BY <1>1, <3>1, FreeAttempt, AttemptMoves, Unmoved
    <3>. QED  BY <1>1, <2>1, <3>1, <3>2, StepGoesOn, Unmoved
  <2>. QED  BY <2>2, <2>3
<1>3. CASE TargetFails(a)
  <2>1. /\ attempt' = [attempt EXCEPT ![a] = Free]
        /\ UNCHANGED <<handle, state, events, seen, gap, due>>
        /\ faults' \in Nat
    BY <1>3, FaultType DEF TargetFails
  <2>2. IsEntry(entry')
    BY <1>3, EntryFacts, Unmoved DEF TargetFails
  <2>3. attempt' \in [Attempt -> AttemptRecord] /\ Registered(attempt', handle')
    BY <1>1, <2>1, FreeAttempt, AttemptMoves, Unmoved
  <2>. QED  BY <1>1, <2>1, <2>2, <2>3, StepGoesOn, Unmoved
<1>. QED  BY <1>2, <1>3

LEMMA OpenGoesOn ==
    ASSUME IInv, NEW a \in Attempt, Opens(a) \/ OpenTimesOut(a) \/ Arrives(a)
    PROVE  GoesOn
<1>1. /\ UNCHANGED <<log, want, idle, moves, fetches, hydrated, full, tail,
                     handle, events, seen, gap>>
  BY DEF Opens, OpenTimesOut, Arrives, StreamStep
<1>2. attempt[a] \in AttemptRecord
  BY Unmoved
<1>3. CASE Opens(a)
  <2>1. /\ due' \in BOOLEAN /\ faults' \in Nat /\ attempt[a].at = "connecting"
        /\ attempt' = [attempt EXCEPT ![a] =
                [attempt[a] EXCEPT !.at = "open",
                                   !.awaited = attempt[a].awaited /\ ~ Listening(a)]]
        /\ state' \in {state, "open"} /\ entry' \in {entry, Settled(a)}
    BY <1>3, NoticedType, FaultType, Unmoved DEF Opens
  <2>2. handle = a
    BY <2>1, Unmoved DEF Registered
  <2>. DEFINE x == [attempt[a] EXCEPT !.at = "open",
                                      !.awaited = attempt[a].awaited /\ ~ Listening(a)]
  <2>3. x \in AttemptRecord /\ x.at = "open"
    BY <1>2 DEF AttemptRecord
  <2>. HIDE DEF x
  <2>4. attempt' \in [Attempt -> AttemptRecord] /\ Registered(attempt', handle')
    <3>1. attempt' = [attempt EXCEPT ![a] = x] /\ handle' = handle
      BY <1>1, <2>1 DEF x
    <3>. QED  BY <3>1, <2>2, <2>3, AttemptMoves, Unmoved
  <2>. QED  BY <1>1, <2>1, <2>4, StepGoesOn, EntryFacts, Unmoved
<1>4. CASE OpenTimesOut(a)
  <2>1. /\ UNCHANGED <<state, due, faults>> /\ entry' = Settled(a)
        /\ attempt' = [attempt EXCEPT ![a] = [attempt[a] EXCEPT !.awaited = FALSE]]
    BY <1>4, Unmoved DEF OpenTimesOut
  <2>2. /\ [attempt[a] EXCEPT !.awaited = FALSE] \in AttemptRecord
        /\ [attempt[a] EXCEPT !.awaited = FALSE].at = attempt[a].at
    BY <1>2 DEF AttemptRecord
  <2>3. attempt' \in [Attempt -> AttemptRecord] /\ Registered(attempt', handle')
    BY <1>1, <2>1, <2>2, AttemptMoves, Unmoved DEF Registered, Attempt
  <2>. QED  BY <1>1, <2>1, <2>3, StepGoesOn, EntryFacts, Unmoved
<1>5. CASE Arrives(a)
  <2>1. UNCHANGED <<entry, state, due>> /\ faults' \in Nat
    BY <1>5, FaultType DEF Arrives
  <2>2. PICK s \in (attempt[a].cursor + 1)..log :
           attempt' = [attempt EXCEPT ![a] =
               [attempt[a] EXCEPT !.cursor = s,
                   !.queue = IF Listening(a) THEN attempt[a].queue \union {s}
                             ELSE attempt[a].queue]]
    BY <1>5, Unmoved DEF Arrives
  <2>3. s \in 1..log
    BY <1>2, Unmoved DEF AttemptRecord
  <2>. DEFINE queue_1 == IF Listening(a) THEN attempt[a].queue \union {s} ELSE attempt[a].queue
              x == [attempt[a] EXCEPT !.cursor = s, !.queue = queue_1]
  <2>4. x \in AttemptRecord /\ x.at = attempt[a].at
    <3>1. queue_1 \in SUBSET (1..log) /\ s \in 0..log
      BY <1>2, <2>3, Unmoved DEF AttemptRecord
    <3>. HIDE DEF queue_1
    <3>. QED  BY <1>2, <3>1 DEF AttemptRecord
  <2>. HIDE DEF x
  <2>5. attempt' \in [Attempt -> AttemptRecord] /\ Registered(attempt', handle')
    <3>1. attempt' = [attempt EXCEPT ![a] = x] /\ handle' = handle
      BY <1>1, <2>2 DEF x
    <3>. QED  BY <3>1, <2>4, AttemptMoves, Unmoved DEF Registered, Attempt
  <2>. QED  BY <1>1, <2>1, <2>5, StepGoesOn, Unmoved
<1>. QED  BY <1>3, <1>4, <1>5

LEMMA FlushStepGoesOn ==
    ASSUME IInv, NEW a \in Attempt, Flush(a) \/ \E ended \in BOOLEAN : Breaks(a, ended)
    PROVE  GoesOn
<1>1. /\ UNCHANGED <<log, want, idle, moves, fetches, hydrated, full, tail>>
      /\ events' = Flushed(a).events /\ seen' = Flushed(a).seen
      /\ gap' = [gap EXCEPT ![a] = GapFetch(a)]
      /\ due' \in BOOLEAN
  BY NoticedType DEF Flush, Breaks, StreamStep, Apply
<1>2. Beginnings(events', seen') /\ seen \subseteq seen' /\ gap' \in [Attempt -> FetchRecord]
  BY <1>1, FlushGoesOn, Unmoved
<1>3. attempt[a] \in AttemptRecord /\ a # 0 /\ {} \in SUBSET (1..log)
  BY Unmoved DEF Attempt
<1>4. CASE Flush(a)
  <2>. DEFINE at == IF Flushed(a).gap THEN "closed" ELSE attempt[a].at
              x == [attempt[a] EXCEPT !.queue = {}, !.at = at]
  <2>1. x \in AttemptRecord /\ x.at = at
    BY <1>3 DEF AttemptRecord
  <2>2. attempt' = [attempt EXCEPT ![a] = x]
    BY <1>4, Unmoved DEF Flush
  <2>3. /\ state' \in {state, "disconnected"} /\ faults' \in Nat
        /\ UNCHANGED <<entry, handle>>
    BY <1>4, FaultType DEF Flush
  <2>4. x.at \in {"closed", attempt[a].at}
    BY <2>1
  <2>. HIDE DEF x, at
  <2>5. attempt' \in [Attempt -> AttemptRecord] /\ Registered(attempt', handle')
    BY <2>1, <2>2, <2>3, <2>4, AttemptMoves, Unmoved DEF Registered, Attempt
  <2>. QED  BY <1>1, <1>2, <2>3, <2>5, StepGoesOn, Unmoved
<1>5. ASSUME NEW ended \in BOOLEAN, Breaks(a, ended) PROVE GoesOn
  <2>. DEFINE x == [attempt[a] EXCEPT !.at = "closed", !.queue = {}, !.awaited = FALSE]
  <2>1. x \in AttemptRecord /\ x.at = "closed"
    BY <1>3 DEF AttemptRecord
  <2>2. attempt' = [attempt EXCEPT ![a] = x] /\ faults' \in Nat
    BY <1>5, Unmoved, FaultType DEF Breaks
  <2>. HIDE DEF x
  <2>3. state' \in {state, "ended", "disconnected"} /\ IsEntry(entry')
    BY <1>5, EntryFacts, Unmoved DEF Breaks, Listening
  <2>4. attempt' \in [Attempt -> AttemptRecord] /\ Registered(attempt', handle')
    <3>1. CASE Listening(a)
      <4>1. handle = a /\ handle' = 0
        BY <1>5, <3>1 DEF Breaks, Listening
      <4>. QED  BY <4>1, <2>1, <2>2, AttemptEnds, Unmoved
    <3>2. CASE ~ Listening(a)
      <4>1. handle' = handle
        BY <1>5, <3>2 DEF Breaks
      <4>. QED  BY <4>1, <2>1, <2>2, AttemptMoves, Unmoved
    <3>. QED  BY <3>1, <3>2
  <2>. QED  BY <1>1, <1>2, <2>2, <2>3, <2>4, StepGoesOn, Unmoved
<1>. QED  BY <1>4, <1>5

LEMMA TailStepGoesOn ==
    ASSUME IInv, TailFetched \/ TailBegins \/ \E a \in Attempt : GapFetched(a)
    PROVE  GoesOn
<1>0. NoFetch \in FetchRecord
  BY Unmoved DEF NoFetch, FetchRecord
<1>1. CASE TailFetched
  <2>1. PICK r \in tail.from..log : AppendTail(tail, r)
    BY <1>1 DEF TailFetched, Answers
  <2>2. Beginnings(events', seen') /\ seen \subseteq seen'
    BY <2>1, TailGoesOn, Unmoved
  <2>. QED  BY <1>0, <1>1, <2>2, StepGoesOn, Unmoved DEF TailFetched, boundVars
<1>2. CASE TailBegins
  <2>1. Tip(events) \in 0..log
    BY TipOfBeginning, Unmoved DEF Beginnings
  <2>2. tail' \in FetchRecord
    BY <1>2, <2>1, Unmoved DEF TailBegins, FetchRecord
  <2>3. fetches' \in Nat /\ UNCHANGED <<log, events, seen, hydrated, state, handle, attempt,
                                        gap, full, entry, want, idle, due, faults, moves>>
    BY <1>2 DEF TailBegins, transcriptVars, IInv, Surroundings
  <2>4. Surroundings'
    BY <2>2, <2>3, SameLog DEF IInv, Surroundings
  <2>5. Connections' /\ Whole'
    BY <2>3, SameLog DEF IInv, Connections, Whole, Registered, IsEntry, EntryRecord
  <2>. QED  BY <2>3, <2>4, <2>5 DEF GoesOn, IInv
<1>3. ASSUME NEW a \in Attempt, GapFetched(a) PROVE GoesOn
  <2>1. /\ UNCHANGED <<log, want, idle, moves, fetches, hydrated, full, tail,
                       attempt, handle, state, due>>
        /\ gap' = [gap EXCEPT ![a] = NoFetch]
        /\ faults' \in Nat
    BY <1>3, FaultType DEF GapFetched, StreamStep
  <2>2. Beginnings(events', seen') /\ seen \subseteq seen'
    <3>1. CASE UNCHANGED <<events, seen>>
      BY <3>1, Unmoved
    <3>2. CASE \E r \in Answers(gap[a].from) : AppendTail(gap[a], r)
      BY <3>2, TailGoesOn, Unmoved DEF Answers
    <3>. QED  BY <1>3, <3>1, <3>2 DEF GapFetched
  <2>3. IsEntry(entry')
    BY <1>3, EntryFacts, Unmoved DEF GapFetched
  <2>. QED  BY <1>0, <2>1, <2>2, <2>3, StepGoesOn, Unmoved
<1>. QED  BY <1>1, <1>2, <1>3

LEMMA HistoryGoesOn ==
    ASSUME IInv, HistoryFetched
    PROVE  GoesOn
<1>1. /\ UNCHANGED <<log, gap, tail, want, idle, moves, fetches>>
      /\ full' = NoFull /\ due' \in BOOLEAN /\ faults' \in Nat
  BY NoticedType, FaultType DEF HistoryFetched
<1>2. full' \in [by : {"nobody", "manager", "pane", "left"}, token : Nat, from : 0..log]
  BY <1>1, Unmoved DEF NoFull
<1>3. \A a \in Waiting : attempt[a].at = "hydrate" /\ a \in Attempt /\ a # handle
  BY Unmoved DEF Waiting, Registered, Attempt
<1>4. Remaining \in [Attempt -> AttemptRecord] /\ Registered(Remaining, handle)
  <2>1. ASSUME NEW a \in Attempt
        PROVE  Remaining[a] = attempt[a] \/ (a # handle /\ Remaining[a] = Free)
    BY <1>3 DEF Remaining
  <2>2. Remaining \in [Attempt -> AttemptRecord]
    BY <2>1, FreeAttempt, Unmoved DEF Remaining
  <2>3. handle # 0 => handle \in Attempt
    BY Unmoved DEF Registered, Attempt
  <2>. QED  BY <2>1, <2>2, <2>3, FreeAttempt, Unmoved DEF Registered
<1>5. CASE /\ UNCHANGED <<transcriptVars, handle, state, entry>>
           /\ attempt' = [a \in Attempt |-> IF a \in Going THEN [attempt[a] EXCEPT !.at = "refresh"]
                                            ELSE Remaining[a]]
  <2>1. ASSUME NEW a \in Attempt
        PROVE  /\ attempt'[a] \in AttemptRecord
               /\ attempt'[a].at \in {"connecting", "open"} => handle = a
               /\ a = handle => attempt'[a] = Remaining[a]
    <3>1. CASE a \in Going
      <4>1. a # handle /\ attempt'[a] = [attempt[a] EXCEPT !.at = "refresh"]
        BY <1>3, <1>5, <3>1 DEF Going
      <4>. QED  BY <4>1, Unmoved DEF AttemptRecord
    <3>2. CASE a \notin Going
      BY <1>4, <1>5, <3>2 DEF Registered
    <3>. QED  BY <3>1, <3>2
  <2>2. attempt' \in [Attempt -> AttemptRecord]
    BY <1>5, <2>1
  <2>3. handle # 0 => handle \in Attempt
    BY Unmoved DEF Registered, Attempt
  <2>4. Registered(attempt', handle')
    BY <1>4, <1>5, <2>1, <2>3 DEF Registered
  <2>. QED  BY <1>1, <1>2, <1>5, <2>2, <2>4, StepGoesOn, Unmoved DEF transcriptVars
<1>6. CASE /\ FullApplies /\ UNCHANGED faults
           /\ \E r \in Answers(full.from) :
                 events' = IF full.by = "pane" THEN Merged(r) ELSE 1..r
           /\ seen' = seen \union events'
           /\ hydrated' = TRUE
           /\ IF Going # {} THEN OpenStream(Going, Remaining, entry, "selected")
              ELSE attempt' = Remaining /\ UNCHANGED <<handle, state, entry>>
  <2>1. PICK r \in full.from..log : events' = IF full.by = "pane" THEN Merged(r) ELSE 1..r
    BY <1>6 DEF Answers
  <2>2. r \in 0..log
    BY <2>1, Unmoved
  <2>3. PICK m \in 0..log, k \in 0..log : m <= k /\ events = 1..m /\ seen = 1..k
    BY Unmoved DEF Beginnings
  <2>4. PICK n \in 0..log : events' = 1..n
    <3>1. ASSUME full.by = "pane", r # 0, r <= m PROVE events' = 1..m
      <4>1. (1..r) \union {s \in 1..m : s > r} = 1..m
        BY <3>1, <2>2, <2>3
      <4>. QED  BY <3>1, <4>1, <2>1, <2>3 DEF Merged
    <3>2. ASSUME full.by = "pane", r # 0, ~ (r <= m) PROVE events' = 1..r
      <4>1. {s \in 1..m : s > r} = {}
        BY <3>2, <2>2, <2>3
      <4>. QED  BY <3>2, <4>1, <2>1, <2>3 DEF Merged
    <3>3. ASSUME full.by = "pane", r = 0 PROVE events' = 1..r
      BY <3>3, <2>1 DEF Merged
    <3>. QED  BY <2>1, <2>2, <2>3, <3>1, <3>2, <3>3
  <2>5. Beginnings(events', seen') /\ seen \subseteq seen'
    <3>1. seen' = IF n <= k THEN 1..k ELSE 1..n
      <4>1. n <= k => (1..k) \union (1..n) = 1..k
        BY <2>3, <2>4
      <4>2. ~ (n <= k) => (1..k) \union (1..n) = 1..n
        BY <2>3, <2>4
      <4>. QED  BY <4>1, <4>2, <1>6, <2>3, <2>4
    <3>2. n <= k \/ n <= n
      BY <2>4
    <3>. QED  BY <3>1, <3>2, <2>3, <2>4, <1>6 DEF Beginnings
  <2>6. Whole' /\ log' = log
    BY <1>1, <2>5, SameLog DEF Whole
  <2>7. CASE Going = {}
    BY <1>1, <1>2, <1>4, <1>6, <2>5, <2>7, StepGoesOn, Unmoved
  <2>8. CASE Going # {}
    <3>1. entry \in EntryRecord /\ entry.on
      BY <2>8, Unmoved DEF Going, IsCurrent, IsEntry
    <3>2. Going \in SUBSET Attempt /\ handle \notin Going /\ "selected" \in Reasons \union {"none"}
      BY <1>3 DEF Going, Reasons
    <3>3. Connections'
      BY <1>4, <1>6, <2>6, <2>8, <3>1, <3>2, OpenStreamGoesOn
    <3>4. Surroundings'
      BY <1>1, <1>2, <1>6, SameLog, Unmoved DEF Surroundings, IInv
    <3>. QED  BY <3>3, <3>4, <2>5, <2>6 DEF GoesOn, IInv
  <2>. QED  BY <2>7, <2>8
<1>. QED  BY <1>5, <1>6 DEF HistoryFetched

LEMMA RefreshGoesOn ==
    ASSUME IInv, NEW a \in Attempt, Refreshed(a)
    PROVE  GoesOn
<1>1. /\ UNCHANGED <<log, events, seen, hydrated, gap, full, tail, want, idle,
                     faults, moves, fetches>>
      /\ due' \in BOOLEAN
  BY NoticedType DEF Refreshed, transcriptVars, boundVars
<1>2. handle # a
  BY Unmoved DEF Refreshed, Registered, Attempt
<1>3. CASE IsCurrent(attempt[a].token)
  <2>1. OpenStream({a}, attempt, entry, attempt[a].reason)
    BY <1>3 DEF Refreshed
  <2>2. entry \in EntryRecord /\ entry.on
    BY <1>3, Unmoved DEF IsCurrent, IsEntry
  <2>3. attempt[a].reason \in Reasons \union {"none"}
    BY Unmoved DEF AttemptRecord
  <2>4. Whole'
    BY <1>1, SameLog, Unmoved DEF Whole
  <2>5. {a} \in SUBSET Attempt /\ handle \notin {a}
    BY <1>2
  <2>6. Connections'
    BY <1>1, <2>1, <2>2, <2>3, <2>4, <2>5, OpenStreamGoesOn, Unmoved
  <2>7. Surroundings'
    BY <1>1, SameLog, Unmoved DEF Surroundings, IInv
  <2>. QED  BY <1>1, <2>4, <2>6, <2>7 DEF GoesOn, IInv
<1>4. CASE ~ IsCurrent(attempt[a].token)
  <2>1. attempt' = [attempt EXCEPT ![a] = Free] /\ UNCHANGED <<handle, state, entry>>
    BY <1>4 DEF Refreshed
  <2>2. attempt' \in [Attempt -> AttemptRecord] /\ Registered(attempt', handle')
    BY <1>2, <2>1, FreeAttempt, AttemptMoves, Unmoved
  <2>. QED  BY <1>1, <2>1, <2>2, StepGoesOn, Unmoved
<1>. QED  BY <1>3, <1>4

\* Steps that touch neither the transcript nor the connections nor the log.
LEMMA AsideGoesOn ==
    ASSUME IInv,
           UNCHANGED <<log, transcriptVars, state, handle, attempt, gap, tail, entry>>,
           full' \in [by : {"nobody", "manager", "pane", "left"}, token : Nat, from : 0..log],
           want' \in Reasons \union {"none"}, idle' \in BOOLEAN, due' \in BOOLEAN,
           faults' \in Nat, moves' \in Nat, fetches' \in Nat
    PROVE  GoesOn
<1>1. UNCHANGED <<events, seen, hydrated>>
  BY DEF transcriptVars
<1>2. Surroundings'
  BY <1>1, SameLog, Unmoved DEF Surroundings, IInv
<1>3. Connections' /\ Whole'
  BY <1>1, SameLog DEF IInv, Connections, Whole, Registered, IsEntry, EntryRecord
<1>. QED  BY <1>1, <1>2, <1>3 DEF GoesOn, IInv

LEMMA SurroundingGoesOn ==
    ASSUME IInv, SurroundingAct \/ PaneHydrates
    PROVE  GoesOn
<1>0. /\ want \in Reasons \union {"none"} /\ idle \in BOOLEAN
      /\ faults \in Nat /\ moves \in Nat /\ fetches \in Nat
  BY DEF IInv, Surroundings
<1>1. CASE PaneHydrates
  <2>1. full' \in [by : {"nobody", "manager", "pane", "left"}, token : Nat, from : 0..log]
    BY <1>1, Unmoved DEF PaneHydrates
  <2>. QED  BY <1>0, <1>1, <2>1, AsideGoesOn, Unmoved DEF PaneHydrates
<1>2. CASE TurnsActive \/ TurnsIdle
  <2>1. due' \in BOOLEAN
    BY <1>2, NoticedType DEF TurnsActive, TurnsIdle
  <2>2. /\ UNCHANGED <<log, transcriptVars, state, handle, attempt, gap, full, tail, entry,
                       want, faults, fetches>>
        /\ idle' = FALSE \/ idle' = TRUE
        /\ moves' = moves + 1 \/ moves' = moves
    <3>1. CASE TurnsActive
      <4>1. /\ UNCHANGED <<log, transcriptVars, state, handle, attempt, gap, full, tail, entry,
                           want>>
            /\ UNCHANGED boundVars /\ idle' = FALSE
        BY <3>1 DEF TurnsActive
      <4>. QED  BY <4>1 DEF boundVars
    <3>2. CASE TurnsIdle
      <4>1. /\ UNCHANGED <<log, transcriptVars, state, handle, attempt, gap, full, tail, entry,
                           want, faults, fetches>>
            /\ idle' = TRUE /\ Move
        BY <3>2 DEF TurnsIdle
      <4>. QED  BY <4>1 DEF Move
    <3>. QED  BY <1>2, <3>1, <3>2
  <2>3. idle' \in BOOLEAN
    BY <2>2, Zenon
  <2>4. moves' \in Nat
    <3>1. moves \in Nat /\ (moves' = moves + 1 \/ moves' = moves)
      BY <1>0, <2>2
    <3>. QED  BY <3>1
  <2>. QED  BY <1>0, <2>1, <2>2, <2>3, <2>4, AsideGoesOn, Unmoved
<1>3. ASSUME NEW reason \in Reasons \union {"none"}, Wants(reason) PROVE GoesOn
  <2>1. due' \in BOOLEAN
    BY <1>3, NoticedType DEF Wants
  <2>2. full' \in [by : {"nobody", "manager", "pane", "left"}, token : Nat, from : 0..log]
    BY <1>3, Unmoved DEF Wants
  <2>. QED  BY <1>0, <1>3, <2>1, <2>2, AsideGoesOn, Unmoved DEF Wants, Move
<1>4. CASE Write
  <2>1. /\ log' = log + 1 /\ log' \in 0..MaxEvents
        /\ UNCHANGED <<events, seen, hydrated, state, handle, attempt, gap, full, tail,
                       entry, want, idle, due, faults, moves, fetches>>
    BY <1>4, EventsAssumption DEF Write, transcriptVars, boundVars, IInv, Surroundings
  <2>2. 0..log \subseteq 0..log' /\ 1..log \subseteq 1..log'
    BY <2>1, Unmoved
  <2>3. \A x \in AttemptRecord : x \in AttemptRecord'
    BY <2>2 DEF AttemptRecord
  <2>4. \A x \in FetchRecord : x \in FetchRecord'
    BY <2>2 DEF FetchRecord
  <2>5. full' \in [by : {"nobody", "manager", "pane", "left"}, token : Nat, from : 0..log']
    BY <2>1, <2>2, Unmoved
  <2>6. gap' \in [Attempt -> FetchRecord'] /\ tail' \in FetchRecord'
    BY <2>1, <2>4, Unmoved
  <2>7. Surroundings'
    BY <2>1, <2>5, <2>6, Unmoved, <1>0 DEF Surroundings
  <2>8. attempt' \in [Attempt -> AttemptRecord']
    BY <2>1, <2>3, Unmoved
  <2>9. Registered(attempt, handle)' /\ IsEntry(entry)'
    BY <2>1, Unmoved DEF Registered, IsEntry, EntryRecord
  <2>10. Connections'
    BY <2>1, <2>8, <2>9, Unmoved DEF Connections
  <2>11. Whole'
    BY <2>1, <2>2, Unmoved DEF Whole, Beginnings
  <2>. QED  BY <2>1, <2>7, <2>10, <2>11 DEF GoesOn, IInv
<1>. QED  BY <1>1, <1>2, <1>3, <1>4 DEF SurroundingAct

LEMMA NextGoesOn ==
    ASSUME IInv, Next
    PROVE  GoesOn
<1>1. CASE \E a \in Attempt : StreamAct(a)
  BY <1>1, TargetGoesOn, OpenGoesOn, FlushStepGoesOn DEF StreamAct
<1>2. CASE FetchAct
  BY <1>2, RefreshGoesOn, SurroundingGoesOn, HistoryGoesOn, TailStepGoesOn DEF FetchAct
<1>3. CASE ReconcileHotSessions \/ RetryFires
  BY <1>3, ReconcileGoesOn
<1>4. CASE SurroundingAct
  BY <1>4, SurroundingGoesOn
<1>. QED  BY <1>1, <1>2, <1>3, <1>4 DEF Next

LEMMA InitIInv ==
    ASSUME Init
    PROVE  IInv
<1>1. log = 0 /\ events = {} /\ seen = {} /\ 0 \in 0..log
  BY DEF Init
<1>2. Surroundings
  <2>1. NoFetch \in FetchRecord
    BY <1>1 DEF NoFetch, FetchRecord
  <2>2. NoFull \in [by : {"nobody", "manager", "pane", "left"}, token : Nat, from : 0..log]
    BY <1>1 DEF NoFull
  <2>. QED  BY <1>1, <2>1, <2>2, EventsAssumption DEF Init, Surroundings, Reasons
<1>3. Connections
  <2>1. Free \in AttemptRecord /\ Free.at = "free"
    BY <1>1 DEF Free, AttemptRecord
  <2>2. attempt = [a \in Attempt |-> Free] /\ handle = 0 /\ state = "disconnected"
    BY DEF Init
  <2>3. Registered(attempt, 0)
    BY <2>1, <2>2, NoneRegistered
  <2>4. IsEntry(entry)
    BY DEF Init, NoEntry, IsEntry, EntryRecord
  <2>. QED  BY <2>1, <2>2, <2>3, <2>4 DEF Connections
<1>4. Whole
  <2>1. 1..0 = {}
    OBVIOUS
  <2>. QED  BY <1>1, <2>1 DEF Whole, Beginnings
<1>. QED  BY <1>2, <1>3, <1>4 DEF IInv

LEMMA StutterGoesOn ==
    ASSUME IInv, UNCHANGED vars
    PROVE  IInv'
<1>1. UNCHANGED <<log, events, seen, hydrated, state, handle, attempt, gap, full, tail, entry,
                  want, idle, due, faults, moves, fetches>>
  BY DEF vars, transcriptVars, boundVars
<1>. QED  BY <1>1, AsideGoesOn, Unmoved DEF GoesOn, transcriptVars, IInv, Surroundings

-----------------------------------------------------------------------------
(***************************************************************************)
(* The theorems.                                                           *)
(***************************************************************************)
\* The inductive invariant holds in every state.
THEOREM StreamInvariant == Spec => []IInv
<1>1. Init => IInv
  BY InitIInv
<1>2. IInv /\ [Next]_vars => IInv'
  BY NextGoesOn, StutterGoesOn DEF GoesOn
<1>. QED  BY <1>1, <1>2, PTL DEF Spec

\* Every variable keeps its type; in particular the registered stream is one
\* that was opened, and a session that was left has no timer
\* (hot-session-ingest-manager.ts:255-271, session-stream-handles.ts:22-41).
THEOREM StreamTypeCorrect == Spec => []StreamTypeOK
<1>1. IInv => StreamTypeOK
  BY IInvImplies
<1>. QED  BY <1>1, StreamInvariant, PTL

\* The transcript has no hole, whichever way its events came: the stream
\* (stream-state.ts:100-142), the tail (stream-state.ts:44-77) or the whole
\* history (use-session-history-hydration.ts:300-349).
THEOREM TranscriptStaysWhole == Spec => []TranscriptIsWhole
<1>1. IInv => TranscriptIsWhole
  BY IInvImplies
<1>. QED  BY <1>1, StreamInvariant, PTL

\* However attempts overlap, a stream that is open is the registered one
\* (session-stream-connection-open.ts:178-208, session-stream-handles.ts:22-41).
THEOREM OneStream == Spec => []OneStreamOpen
<1>1. IInv => OneStreamOpen
  BY IInvImplies
<1>. QED  BY <1>1, StreamInvariant, PTL

LEMMA FeedStep ==
    ASSUME IInv, IInv', [Next]_vars
    PROVE  [Feed!Next]_(Feed!vars)
<1>1. CASE UNCHANGED vars
  BY <1>1 DEF vars, transcriptVars, Feed!vars
<1>2. CASE Next
  <2>1. seen \subseteq seen' /\ (log' = log \/ (log' = log + 1 /\ seen' = seen))
    BY <1>2, NextGoesOn DEF GoesOn
  <2>2. CASE log' = log + 1 /\ seen' = seen
    BY <2>2 DEF Feed!Next, Feed!Write
  <2>3. CASE log' = log
    <3>1. PICK k \in 0..log : seen' = 1..k
      BY <2>3 DEF IInv, Whole, Beginnings
    <3>2. CASE k = 0
      <4>1. seen' = {}
        BY <3>1, <3>2
      <4>. QED  BY <4>1, <2>1, <2>3 DEF Feed!vars
    <3>3. CASE k # 0
      <4>1. k \in 1..log
        BY <3>3, Unmoved
      <4>. QED  BY <4>1, <3>1, <2>1, <2>3 DEF Feed!Next, Feed!See
    <3>. QED  BY <3>2, <3>3
  <2>. QED  BY <2>1, <2>2, <2>3
<1>. QED  BY <1>1, <1>2

\* Whatever becomes of the streams and the fetches that carry the events, the
\* outbox is told of every one of them, first events first
\* (session-history-hydration-helpers.ts:204-213, session-stream-flush-apply.ts:276-323).
THEOREM FeedIsKept == Spec => ImplementsFeed
<1>1. Init => Feed!Init
  BY DEF Init, Feed!Init
<1>2. IInv /\ IInv' /\ [Next]_vars => [Feed!Next]_(Feed!vars)
  BY FeedStep
<1>. QED  BY <1>1, <1>2, StreamInvariant, PTL DEF Spec, ImplementsFeed, Feed!Spec
=============================================================================
