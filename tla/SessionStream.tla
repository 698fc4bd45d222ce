---------------------------- MODULE SessionStream ----------------------------
(***************************************************************************)
(* How the product client follows the events of one session.               *)
(*                                                                         *)
(* The runtime numbers the events of a session and keeps them all.  The    *)
(* client shows a session that is hot (selected, or open in a tab) from a   *)
(* transcript it builds of them, and gets them on three ways: a stream,    *)
(* which the hot session ingest manager opens and reopens; a fetch of the  *)
(* whole history when the transcript is first needed; and a fetch of the   *)
(* tail when the stream skipped something.  All three are chains of awaits *)
(* that overlap, so each checks whether it is still current before it goes *)
(* on: the manager gives every way of opening a token, and the registry of *)
(* handles knows the one stream that counts.                               *)
(*                                                                         *)
(* The numbers of the attempts are reused, lowest first, once nothing of   *)
(* an attempt is under way any more.                                       *)
(***************************************************************************)
EXTENDS Naturals, FiniteSets, FiniteSetsExt

CONSTANTS
    MaxEvents,      \* bounds the events the runtime writes
    MaxAttempts,    \* bounds the attempts to connect that are under way at once
    MaxFaults,      \* bounds failed fetches and requests, ended and lagging streams
    MaxMoves,       \* bounds what the user and the session's activity do
    MaxFetches      \* bounds the fetches other parts of the client begin

ASSUME EventsAssumption == MaxEvents \in Nat
ASSUME AttemptsAssumption == MaxAttempts \in Nat \ {0}
ASSUME StreamFaultsAssumption == MaxFaults \in Nat
ASSUME MovesAssumption == MaxMoves \in Nat
ASSUME FetchesAssumption == MaxFetches \in Nat

VARIABLES
    log,        \* the number of events the runtime has written
    events,     \* the events of the transcript
    seen,       \* the events the outbox was reconciled with
    hydrated,   \* the transcript was read from the history
    state,      \* the stream connection state of the session's entry
    handle,     \* the attempt whose stream is registered, or 0
    attempt,    \* the attempts, [at, token, reason, awaited, cursor, queue]
    gap,        \* per attempt, the fetch of the tail after a gap
    full,       \* the fetch of the whole history
    tail,       \* a fetch of the tail begun by another part of the client
    entry       \* the manager's entry for the session

\* What surrounds the client, and bounds.
VARIABLES
    want,       \* why the session is to be hot: none, open_tab or selected
    idle,       \* the session looks idle and has no live handle
    due,        \* the effect that reconciles the hot sessions is to run
    faults, moves, fetches

transcriptVars == <<events, seen, hydrated>>
boundVars == <<faults, moves, fetches>>
vars == <<log, transcriptVars, state, handle, attempt, gap, full, tail, entry,
          want, idle, due, boundVars>>

Attempt == 1..MaxAttempts
Reasons == {"open_tab", "selected"}
Free == [at |-> "free", token |-> 0, reason |-> "none", awaited |-> FALSE,
         cursor |-> 0, queue |-> {}]
NoFetch == [on |-> FALSE, after |-> 0, from |-> 0]
NoFull == [by |-> "nobody", token |-> 0, from |-> 0]
NoEntry == [on |-> FALSE, token |-> 0, opening |-> FALSE, reason |-> "none",
            timer |-> "none", orphans |-> {}]

Fault == faults < MaxFaults /\ faults' = faults + 1
Move == moves < MaxMoves /\ moves' = moves + 1

\* The effect depends on the session's entry in the directory.
Noticed == due' = (due \/ state' # state \/ hydrated' # hydrated
                       \/ idle' # idle \/ want' # want)

Connected == state \in {"connecting", "open"}

\* isOpenAttemptCurrent, for the attempts that were given a token.
IsCurrent(token) == entry.on /\ entry.token = token

\* The callbacks of an attempt's stream count: neither its token nor its
\* handle was replaced.
Listening(a) == IsCurrent(attempt[a].token) /\ handle = a

Streams(a) == attempt[a].at \in {"connecting", "open"}
InUse(a) == attempt[a].at \notin {"free", "closed"} \/ attempt[a].awaited
            \/ gap[a].on \/ handle = a
IsFresh(a) == ~ InUse(a) /\ \A b \in Attempt : b < a => InUse(b)

-----------------------------------------------------------------------------
(***************************************************************************)
(* The transcript.                                                         *)
(***************************************************************************)
Tip(E) == Max(E \union {0})

ReachMutant(E, batch) == Max(E \union batch \union {0})     \* gaps are not noticed

\* How far the transcript gets with a batch: up to the first gap.
Reach(E, batch) ==
    CHOOSE n \in Tip(E)..Max(E \union batch \union {0}) :
        /\ (Tip(E) + 1)..n \subseteq batch
        /\ n + 1 \notin batch

\* applyStreamEnvelopeBatch and what the flush does with its result: the
\* events applied enter the transcript, and the outbox is reconciled with
\* them and with the duplicates.
Flushed(a) ==
    LET batch == IF Listening(a) THEN attempt[a].queue ELSE {}
        n == Reach(events, batch)
    IN [events |-> IF batch = {} THEN events ELSE events \union (batch \intersect (Tip(events) + 1)..n),
        seen |-> seen \union {s \in batch : s <= n},
        gap |-> \E s \in batch : s > n,
        after |-> n]

\* The fetch of the tail that a gap found by the flush of attempt a begins.
GapFetch(a) == IF Flushed(a).gap THEN [on |-> TRUE, after |-> Flushed(a).after, from |-> log]
               ELSE gap[a]

Apply(flushed) == events' = flushed.events /\ seen' = flushed.seen

ToldOfTailMutant(fetched) == seen     \* history events are not reconciled

ToldOfTail(fetched) == seen \union fetched

\* appendHistoryTail: events up to r were fetched after a given one.  They
\* are reconciled only when some of them extend the transcript.
AppendTail(fetch, r) ==
    LET fetched == (fetch.after + 1)..r IN
    IF fetch.after <= Tip(events) /\ r > Tip(events)
    THEN /\ events' = events \union (Tip(events) + 1)..r
         /\ seen' = ToldOfTail(fetched)
    ELSE UNCHANGED <<events, seen>>

-----------------------------------------------------------------------------
(***************************************************************************)
(* The hot session ingest manager and the attempts to connect.             *)
(***************************************************************************)
\* scheduleRetry for attempt a: an earlier timer is forgotten, not cleared.
\* A timer remembers why the attempt that asked for it was made.
RetryScheduled(a) ==
    [entry EXCEPT !.opening = FALSE, !.timer = attempt[a].reason,
                  !.orphans = IF entry.timer = "none" THEN @ ELSE @ \union {entry.timer}]

\* The promise of attempt a is settled.
Settled(a) ==
    IF IsCurrent(attempt[a].token) THEN [entry EXCEPT !.opening = FALSE] ELSE entry

\* The last checks of prepareSessionStreamConnection.
MayOpen == ~ Connected /\ ~ idle

\* The attempts A leave their preparation: if a stream is to be opened, the
\* registered one is closed, and the place in the log from which the new one
\* is to be read is taken before its address is resolved.  (A stream is closed
\* here only after a gap; its queue is empty.)
OpenStream(A, attempts, e, reason) ==
    IF MayOpen
    THEN /\ attempt' = [b \in Attempt |->
                CASE b \in A -> [Free EXCEPT !.at = "target", !.token = e.token,
                                             !.reason = reason, !.cursor = Tip(events')]
                  [] b \notin A /\ b = handle -> [attempts[b] EXCEPT !.at = "closed"]
                  [] OTHER -> attempts[b]]
         /\ handle' = 0
         /\ state' = "disconnected"
         /\ entry' = e
    ELSE /\ attempt' = [b \in Attempt |-> IF b \in A THEN Free ELSE attempts[b]]
         /\ entry' = [e EXCEPT !.opening = FALSE]
         /\ UNCHANGED <<handle, state>>

\* connectHotTarget: a selected session whose transcript was never read waits
\* for the whole history first, and shares a fetch under way.
Connect(token, reason) ==
    \E a \in Attempt :
        LET e == [on |-> TRUE, token |-> token, opening |-> TRUE, reason |-> reason,
                  timer |-> "none",
                  orphans |-> IF token = entry.token THEN entry.orphans ELSE {}]
        IN /\ IsFresh(a)
           /\ UNCHANGED <<transcriptVars, gap>>
           /\ IF reason = "selected" /\ ~ hydrated
              THEN /\ attempt' = [attempt EXCEPT ![a] =
                          [Free EXCEPT !.at = "hydrate", !.token = token, !.reason = reason]]
                   /\ full' = IF full.by = "nobody"
                              THEN [by |-> "manager", token |-> token, from |-> log] ELSE full
                   /\ entry' = e
                   /\ UNCHANGED <<handle, state>>
              ELSE /\ OpenStream({a}, attempt, e, reason)
                   /\ UNCHANGED full

NewToken == entry.token + 1

SelfHealsMutant == FALSE    \* a declined attempt is never made again

\* The entry has no stream and nothing that would open one.
SelfHeals == ~ entry.opening /\ entry.timer = "none" /\ ~ Connected

LeftMutant == [entry EXCEPT !.on = FALSE]    \* its timer is not cleared

\* The manager forgets the session; only the count of tokens goes on.
Left == [NoEntry EXCEPT !.token = entry.token]

\* The session is no longer hot.  Its target is gone before its stream is
\* closed, so what the stream had queued is not flushed but dropped.
CloseHotStream ==
    /\ attempt' = [a \in Attempt |-> IF a = handle
                                     THEN [attempt[a] EXCEPT !.at = "closed", !.queue = {}]
                                     ELSE attempt[a]]
    /\ handle' = 0
    /\ state' = "disconnected"
    /\ entry' = Left
    /\ UNCHANGED <<transcriptVars, gap, full>>

\* reconcileHotSessions.
ReconcileHotSessions ==
    /\ \/ want = "none" /\ entry.on /\ CloseHotStream
       \/ want # "none" /\ ~ entry.on /\ Connect(NewToken, want)
       \/ /\ want # "none" /\ entry.on
          /\ \/ want = "selected" /\ entry.reason # "selected"
             \/ SelfHeals
          /\ Connect(entry.token, want)
       \/ /\ IF want = "none" THEN ~ entry.on
             ELSE entry.on /\ (want = "selected" => entry.reason = "selected") /\ ~ SelfHeals
          /\ entry' = [entry EXCEPT !.reason = want]
          /\ UNCHANGED <<transcriptVars, attempt, gap, full, handle, state>>
    /\ due' = (state' # state)
    /\ UNCHANGED <<log, tail, want, idle, boundVars>>

\* The timer of a retry, which takes a new token.
RetryFires ==
    /\ entry.on
    /\ \E reason \in ({entry.timer} \union entry.orphans) \intersect Reasons :
          Connect(NewToken, reason)
    /\ UNCHANGED <<log, tail, want, idle, boundVars>>
    /\ Noticed

-----------------------------------------------------------------------------
(***************************************************************************)
(* The stream of an attempt.                                               *)
(***************************************************************************)
StreamStep == UNCHANGED <<log, hydrated, full, tail, want, idle, moves, fetches>>

RegistersMutant(a) == [attempt EXCEPT ![a].at = "connecting", ![a].awaited = TRUE]

\* setSessionStreamHandle closes the stream registered before.
Registers(a) ==
    [b \in Attempt |->
        CASE b = a -> [attempt[a] EXCEPT !.at = "connecting", !.awaited = TRUE]
          [] b # a /\ b = handle -> [attempt[b] EXCEPT !.at = "closed", !.queue = {}]
          [] OTHER -> attempt[b]]

\* The address is known and the request is made; an attempt that is no
\* longer current is closed at once.
TargetResolved(a) ==
    /\ attempt[a].at = "target"
    /\ IF IsCurrent(attempt[a].token)
       THEN /\ attempt' = Registers(a)
            /\ handle' = a
            /\ state' = "connecting"
            /\ IF handle = 0 THEN UNCHANGED <<events, seen, gap>>
               ELSE /\ Apply(Flushed(handle))
                    /\ gap' = [gap EXCEPT ![handle] = GapFetch(handle)]
       ELSE /\ attempt' = [attempt EXCEPT ![a] = Free]
            /\ UNCHANGED <<handle, state, events, seen, gap>>
    /\ UNCHANGED <<entry, faults>>
    /\ StreamStep
    /\ Noticed

\* The address is not to be had.
TargetFails(a) ==
    /\ attempt[a].at = "target" /\ Fault
    /\ attempt' = [attempt EXCEPT ![a] = Free]
    /\ entry' = IF IsCurrent(attempt[a].token) THEN RetryScheduled(a) ELSE entry
    /\ UNCHANGED <<handle, state, events, seen, gap, due>>
    /\ StreamStep

\* onOpen.
Opens(a) ==
    /\ attempt[a].at = "connecting"
    /\ attempt' = [attempt EXCEPT ![a].at = "open", ![a].awaited = @ /\ ~ Listening(a)]
    /\ IF Listening(a)
       THEN state' = "open" /\ entry' = Settled(a)
       ELSE UNCHANGED <<state, entry>>
    /\ UNCHANGED <<handle, events, seen, gap, faults>>
    /\ StreamStep
    /\ Noticed

\* The attempt is not waited for any longer.
OpenTimesOut(a) ==
    /\ attempt[a].awaited
    /\ attempt' = [attempt EXCEPT ![a].awaited = FALSE]
    /\ entry' = Settled(a)
    /\ UNCHANGED <<handle, state, events, seen, gap, due, faults>>
    /\ StreamStep

\* The next event of the log arrives, or a later one when the stream of the
\* runtime lagged behind, and waits for the next flush.
Arrives(a) ==
    /\ attempt[a].at = "open"
    /\ \E s \in (attempt[a].cursor + 1)..log :
          /\ \/ s = attempt[a].cursor + 1 /\ UNCHANGED faults
             \/ s = attempt[a].cursor + 2 /\ Fault
          /\ attempt' = [attempt EXCEPT ![a].cursor = s,
                             ![a].queue = IF Listening(a) THEN @ \union {s} ELSE @]
    /\ UNCHANGED <<entry, handle, state, events, seen, gap, due>>
    /\ StreamStep

\* The flush of the queue.  A gap closes the stream, which stays registered,
\* and has the tail fetched.
Flush(a) ==
    /\ attempt[a].queue # {}
    /\ Apply(Flushed(a))
    /\ gap' = [gap EXCEPT ![a] = GapFetch(a)]
    /\ attempt' = [attempt EXCEPT ![a].queue = {},
                                  ![a].at = IF Flushed(a).gap THEN "closed" ELSE @]
    /\ state' = IF Flushed(a).gap THEN "disconnected" ELSE state
    /\ UNCHANGED <<entry, handle, faults>>
    /\ StreamStep
    /\ Noticed

\* onError, and onClose when the runtime ended the stream: what arrived is
\* flushed, and the owner told to reconnect.  A stream that ends after a gap
\* leaves that to the fetch of the tail.
Breaks(a, ended) ==
    /\ Streams(a) /\ Fault
    /\ ended => attempt[a].at = "open"
    /\ Apply(Flushed(a))
    /\ gap' = [gap EXCEPT ![a] = GapFetch(a)]
    /\ attempt' = [attempt EXCEPT ![a].at = "closed", ![a].queue = {}, ![a].awaited = FALSE]
    /\ IF Listening(a)
       THEN /\ handle' = 0
            /\ state' = IF ended /\ ~ Flushed(a).gap THEN "ended" ELSE "disconnected"
            /\ entry' = IF ~ (ended /\ Flushed(a).gap) THEN RetryScheduled(a)
                        ELSE IF attempt[a].awaited THEN Settled(a) ELSE entry
       ELSE /\ entry' = IF attempt[a].awaited THEN Settled(a) ELSE entry
            /\ UNCHANGED <<handle, state>>
    /\ StreamStep
    /\ Noticed

-----------------------------------------------------------------------------
(***************************************************************************)
(* The fetches of history.                                                 *)
(***************************************************************************)
\* What a fetch that began when the log had reached a given length returns.
Answers(from) == from..log

\* The tail after a gap is there, or not to be had: either way the owner is
\* told to reconnect.
GapFetched(a) ==
    /\ gap[a].on
    /\ gap' = [gap EXCEPT ![a] = NoFetch]
    /\ \/ Fault /\ UNCHANGED <<events, seen>>
       \/ /\ UNCHANGED faults
          /\ IF IsCurrent(attempt[a].token)
             THEN \E r \in Answers(gap[a].from) : AppendTail(gap[a], r)
             ELSE UNCHANGED <<events, seen>>
    /\ entry' = IF IsCurrent(attempt[a].token) THEN RetryScheduled(a) ELSE entry
    /\ UNCHANGED <<attempt, handle, state, due>>
    /\ StreamStep

\* The pane that shows the session, or the opening of its workspace, reads
\* the whole history.
PaneHydrates ==
    /\ want = "selected" /\ full.by = "nobody" /\ fetches < MaxFetches
    /\ full' = [by |-> "pane", token |-> 0, from |-> log]
    /\ fetches' = fetches + 1
    /\ UNCHANGED <<log, transcriptVars, state, handle, attempt, gap, tail, entry,
                   want, idle, due, faults, moves>>

\* mergeFetchedHistoryWithNewerEvents.
Merged(r) == IF r = 0 THEN {} ELSE (1..r) \union {s \in events : s > r}

FullApplies == IF full.by = "manager" THEN IsCurrent(full.token)
               ELSE full.by = "pane" /\ want = "selected"

\* The attempts that wait for the history; those whose token was replaced
\* meanwhile go no further.
Waiting == {a \in Attempt : attempt[a].at = "hydrate"}
Going == {a \in Waiting : IsCurrent(attempt[a].token)}
Remaining == [a \in Attempt |-> IF a \in Waiting \ Going THEN Free ELSE attempt[a]]

\* The whole history is there and takes the place of the transcript.  The
\* pane's fetch keeps the events that came since, the manager's does not.
HistoryFetched ==
    /\ full.by # "nobody"
    /\ full' = NoFull
    /\ \/ /\ FullApplies /\ UNCHANGED faults
          /\ \E r \in Answers(full.from) :
                events' = IF full.by = "pane" THEN Merged(r) ELSE 1..r
          /\ seen' = seen \union events'
          /\ hydrated' = TRUE
          /\ IF Going # {} THEN OpenStream(Going, Remaining, entry, "selected")
             ELSE attempt' = Remaining /\ UNCHANGED <<handle, state, entry>>
       \/ /\ \/ ~ FullApplies /\ UNCHANGED faults
             \/ Fault
          /\ attempt' = [a \in Attempt |-> IF a \in Going THEN [attempt[a] EXCEPT !.at = "refresh"]
                                           ELSE Remaining[a]]
          /\ UNCHANGED <<transcriptVars, handle, state, entry>>
    /\ UNCHANGED <<log, gap, tail, want, idle, moves, fetches>>
    /\ Noticed

\* After a failed read of the history the session's summary is refreshed.
Refreshed(a) ==
    /\ attempt[a].at = "refresh"
    /\ UNCHANGED transcriptVars
    /\ IF IsCurrent(attempt[a].token) THEN OpenStream({a}, attempt, entry, attempt[a].reason)
       ELSE attempt' = [attempt EXCEPT ![a] = Free] /\ UNCHANGED <<handle, state, entry>>
    /\ UNCHANGED <<log, gap, full, tail, want, idle, boundVars>>
    /\ Noticed

\* Another part of the client fetches the tail: a refresh of the summary, or
\* the dispatch of a prompt whose echo does not come.
TailBegins ==
    /\ ~ tail.on /\ fetches < MaxFetches
    /\ tail' = [on |-> TRUE, after |-> Tip(events), from |-> log]
    /\ fetches' = fetches + 1
    /\ UNCHANGED <<log, transcriptVars, state, handle, attempt, gap, full, entry,
                   want, idle, due, faults, moves>>

TailFetched ==
    /\ tail.on
    /\ tail' = NoFetch
    /\ \E r \in Answers(tail.from) : AppendTail(tail, r)
    /\ UNCHANGED <<log, hydrated, state, handle, attempt, gap, full, entry,
                   want, idle, due, boundVars>>

-----------------------------------------------------------------------------
(***************************************************************************)
(* What surrounds the client.                                              *)
(***************************************************************************)
Write ==
    /\ log < MaxEvents
    /\ log' = log + 1
    /\ UNCHANGED <<transcriptVars, state, handle, attempt, gap, full, tail, entry,
                   want, idle, due, boundVars>>

\* The user selects the session, leaves it open in a tab, or leaves its
\* workspace; then a fetch the pane began is not for this visit any more.
Wants(reason) ==
    /\ want # reason /\ Move
    /\ want' = reason
    /\ full' = IF reason = "none" /\ full.by = "pane" THEN [full EXCEPT !.by = "left"] ELSE full
    /\ UNCHANGED <<log, transcriptVars, state, handle, attempt, gap, tail, entry,
                   idle, faults, fetches>>
    /\ Noticed

\* The session turns active, or idle.
TurnsActive ==
    /\ idle' = FALSE /\ idle
    /\ UNCHANGED <<log, transcriptVars, state, handle, attempt, gap, full, tail, entry,
                   want, boundVars>>
    /\ Noticed

TurnsIdle ==
    /\ ~ idle /\ idle' = TRUE /\ Move
    /\ UNCHANGED <<log, transcriptVars, state, handle, attempt, gap, full, tail, entry,
                   want, faults, fetches>>
    /\ Noticed

-----------------------------------------------------------------------------
Init ==
    /\ log = 0 /\ events = {} /\ seen = {}
    /\ hydrated \in BOOLEAN
    /\ state = "disconnected"
    /\ handle = 0
    /\ attempt = [a \in Attempt |-> Free]
    /\ gap = [a \in Attempt |-> NoFetch]
    /\ full = NoFull
    /\ tail = NoFetch
    /\ entry = NoEntry
    /\ want \in {"none", "open_tab", "selected"}
    /\ idle \in BOOLEAN
    /\ due = TRUE
    /\ faults = 0 /\ moves = 0 /\ fetches = 0

StreamAct(a) ==
    \/ TargetResolved(a) \/ TargetFails(a) \/ Opens(a) \/ OpenTimesOut(a)
    \/ Arrives(a) \/ Flush(a) \/ Breaks(a, TRUE) \/ Breaks(a, FALSE)

FetchAct ==
    \/ \E a \in Attempt : GapFetched(a) \/ Refreshed(a)
    \/ PaneHydrates \/ HistoryFetched \/ TailBegins \/ TailFetched

SurroundingAct ==
    \/ Write \/ TurnsActive \/ TurnsIdle
    \/ \E reason \in Reasons \union {"none"} : Wants(reason)

Next ==
    \/ ReconcileHotSessions \/ RetryFires
    \/ \E a \in Attempt : StreamAct(a)
    \/ FetchAct
    \/ SurroundingAct

Spec == Init /\ [][Next]_vars

\* Effects and timers run, and a request made is answered or fails.
FairSpec ==
    /\ Spec
    /\ WF_vars(due /\ ReconcileHotSessions) /\ WF_vars(RetryFires)
    /\ WF_vars(HistoryFetched)
    /\ \A a \in Attempt :
          /\ WF_vars(TargetResolved(a)) /\ WF_vars(Opens(a)) /\ WF_vars(OpenTimesOut(a))
          /\ WF_vars(Arrives(a)) /\ WF_vars(Flush(a))
          /\ WF_vars(GapFetched(a)) /\ WF_vars(Refreshed(a))

-----------------------------------------------------------------------------
(***************************************************************************)
(* What the client's view of the session promises.                         *)
(***************************************************************************)
\* The state is well formed, the registered stream is one that was opened, and
\* nothing is left to happen to a session that is no longer hot.
StreamTypeOK ==
    /\ log \in 0..MaxEvents
    /\ events \subseteq 1..log /\ seen \subseteq 1..log
    /\ hydrated \in BOOLEAN
    /\ state \in {"disconnected", "connecting", "open", "ended"}
    /\ handle \in 0..MaxAttempts
    /\ attempt \in [Attempt ->
          [at : {"free", "hydrate", "refresh", "target", "connecting", "open", "closed"},
           token : Nat, reason : Reasons \union {"none"}, awaited : BOOLEAN,
           cursor : 0..log, queue : SUBSET (1..log)]]
    /\ gap \in [Attempt -> [on : BOOLEAN, after : 0..log, from : 0..log]]
    /\ full \in [by : {"nobody", "manager", "pane", "left"}, token : Nat, from : 0..log]
    /\ tail \in [on : BOOLEAN, after : 0..log, from : 0..log]
    /\ entry \in [on : BOOLEAN, token : Nat, opening : BOOLEAN,
                  reason : Reasons \union {"none"},
                  timer : Reasons \union {"none"}, orphans : SUBSET Reasons]
    /\ handle # 0 => attempt[handle].at \in {"connecting", "open", "closed"}
    /\ ~ entry.on => entry.timer = "none" /\ ~ entry.opening
    /\ want \in Reasons \union {"none"}
    /\ idle \in BOOLEAN /\ due \in BOOLEAN
    /\ faults \in Nat /\ moves \in Nat /\ fetches \in Nat

\* The transcript has no hole: it is a beginning of the log, whichever of the
\* three ways its events came, and the outbox was reconciled with all of it.
TranscriptIsWhole == events = 1..Tip(events) /\ events \subseteq seen

\* No stream is left open that nobody would close: one that is open is the
\* registered one.
OneStreamOpen == \A a \in Attempt : Streams(a) => handle = a

\* The client promises what EventFeed states.
Feed == INSTANCE EventFeed
ImplementsFeed == Feed!Spec

\* An open stream is heard: its callbacks are not ignored.
OpenStreamIsHeard == state = "open" /\ entry.on => Listening(handle)

\* What was shown stays shown.
TranscriptGrows == [][events \subseteq events']_vars

\* Events that a stream had delivered when it was closed are not lost with it.
ClosedStreamsAreFlushed ==
    [][\A a \in Attempt : Streams(a) /\ handle = a /\ ~ (attempt'[a].at = "open" \/ attempt'[a].at = "connecting")
          => attempt[a].queue \subseteq events']_vars

\* The two ways in which the client is known to stay behind: its stream is
\* open but not heard, or has delivered what a fetch then took back from the
\* transcript, which the next event of the session mends.
Deaf == Connected /\ ~ Listening(handle)
TakenBack == Connected /\ attempt[handle].cursor > Tip(events \union attempt[handle].queue)

\* A session that stays hot and active is caught up with, through ended
\* streams, gaps, retries and failed fetches, unless one of the two befalls it.
CatchesUp ==
    <>[](want # "none" /\ ~ idle) => []<>(Tip(events) = log \/ Deaf \/ TakenBack)
=============================================================================
