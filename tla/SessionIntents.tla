--------------------------- MODULE SessionIntents ---------------------------
(***************************************************************************)
(* The intents of one chat session in the product client: what the user    *)
(* asked for (send a prompt, change a setting, answer a permission         *)
(* request, edit or delete a queued prompt), kept in the session intent    *)
(* store from the click until the runtime has confirmed it.                *)
(*                                                                         *)
(* One dispatcher sends the intents of a session one at a time, in the     *)
(* order of the clicks.  Each dispatch is a chain of awaits, and between   *)
(* two of them everything else happens: the user cancels or clicks again,  *)
(* the session is created at last, and the events of the runtime arrive on *)
(* a stream that is not ordered with the HTTP answers.                     *)
(*                                                                         *)
(* The order of the store's list is the order of the numbers of the        *)
(* intents: an intent is only ever appended.  The runtime side is modelled *)
(* from what the client observes of it, and the stream delivers every      *)
(* event once and in order (which is what SessionStream establishes).      *)
(***************************************************************************)
EXTENDS Integers, Sequences

CONSTANTS
    Value,      \* the values of the one setting modelled
    Default,    \* the value a session starts with unless told otherwise
    MaxIntents, \* bounds the intents ever created
    MaxClicks,  \* bounds the selections that supersede a queued one
    MaxFaults,  \* bounds failed, refused and lost requests and timeouts
    Wishes,     \* the kinds of intents the user creates
    Remote,     \* a cloud or SSH workspace: resolving its address takes I/O
    SignedIn    \* the user is signed in: the dispatcher is always mounted

ASSUME ValueAssumption == Default \in Value
ASSUME IntentsAssumption == MaxIntents \in Nat
ASSUME ClicksAssumption == MaxClicks \in Nat
ASSUME IntentFaultsAssumption == MaxFaults \in Nat

Kinds == {"prompt", "config", "resolve", "edit", "delete"}
ASSUME WishesAssumption == Wishes \subseteq Kinds

VARIABLES
    intent,   \* the store's entries, [kind, status, value, gen, of]
    born,     \* how many intents were created
    creation, \* the creation of the session: [at, snapshot]
    step,     \* how far the dispatch of each intent has come
    inFlight, \* the intent the mounted dispatcher has under way, or 0
    due,      \* the dispatcher's effect is to run again
    live,     \* the live config of the client's session record
    asked,    \* the client's transcript shows a pending permission request
    net       \* the request of each intent: under way, or its answer

\* The session in the runtime.
VARIABLES
    config,   \* its config, [seq, value]
    turn,     \* the prompt it runs, or 0
    queue,    \* the prompts it has queued
    held,     \* a config change it holds until the turn ends, or NoValue
    ask,      \* its permission request: none, open or closed
    feed      \* events written and not yet delivered to the client

\* History and bounds.
VARIABLES
    handled,  \* the intents the runtime has acted upon
    ran,      \* the prompts it has begun to run
    choice,   \* the value the user chose last, or NoValue
    clicks,
    faults

clientVars == <<intent, born, creation, step, inFlight, due, live, asked>>
serverVars == <<config, turn, queue, held, ask, handled, ran>>
historyVars == <<choice, clicks, faults>>
vars == <<clientVars, net, serverVars, feed, historyVars>>

Id == 1..MaxIntents
NoValue == "no value"
ASSUME NoValueAssumption == NoValue \notin Value
NoConfig == [seq |-> 0, value |-> NoValue]
NoSnapshot == [i \in Id |-> 0]
Unborn == [kind |-> "none", status |-> "absent", value |-> NoValue, gen |-> 0, of |-> 0]
Quiet == [at |-> "none", live |-> NoConfig]

Here(i) == intent[i].status # "absent"
Is(i, kind) == intent[i].kind = kind
Ready == creation.at = "ready"

-----------------------------------------------------------------------------
(***************************************************************************)
(* The store: every change of an entry asks the dispatcher to look again.  *)
(***************************************************************************)
\* The entries after the status of intent i was patched; an intent that is
\* no longer there is left alone.
Patched(i, status) ==
    IF Here(i) THEN [intent EXCEPT ![i].status = status] ELSE intent

\* dispatchVersion moves with every change of the entries.
Versioned == due' = (due \/ intent' # intent)

Fault == faults < MaxFaults /\ faults' = faults + 1

Dispatchable(i) == intent[i].status \in {"waiting_for_session", "queued"}

BlockingMutant(i) ==    \* a prompt of unknown fate lets later intents pass
    intent[i].status \in {"preparing", "dispatching"}

Blocking(i) == intent[i].status \in {"preparing", "dispatching", "unknown_after_dispatch"}

\* selectNextDispatchableSessionIntent chooses intent i.
IsNext(i) ==
    /\ Dispatchable(i)
    /\ \A j \in 1..(i - 1) : ~ Dispatchable(j) /\ ~ Blocking(j)

\* The newest intent of the list, if it is a selection not yet dispatched.
IsSupersedable(i) ==
    /\ Is(i, "config") /\ intent[i].status = "queued"
    /\ \A j \in (i + 1)..MaxIntents : ~ Here(j)

-----------------------------------------------------------------------------
(***************************************************************************)
(* The user.                                                               *)
(***************************************************************************)
NewIntent(kind, value, of) ==
    [kind |-> kind, status |-> IF kind = "prompt" THEN "waiting_for_session" ELSE "queued",
     value |-> value, gen |-> 1, of |-> of]

Add(new) ==
    /\ born < MaxIntents
    /\ born' = born + 1
    /\ intent' = [intent EXCEPT ![born + 1] = new]

UserStep ==
    /\ Versioned
    /\ UNCHANGED <<step, inFlight, live, asked, net, serverVars, feed, faults>>

SendPrompt ==
    /\ "prompt" \in Wishes
    /\ Add(NewIntent("prompt", NoValue, 0))
    /\ UNCHANGED <<creation, choice, clicks>>
    /\ UserStep

\* A further selection replaces the value of a queued tail in place.
Supersede(i, v) ==
    /\ IsSupersedable(i) /\ clicks < MaxClicks
    /\ intent' = [intent EXCEPT ![i].value = v, ![i].gen = @ + 1]
    /\ clicks' = clicks + 1
    /\ UNCHANGED born

SelectConfig(v) ==
    /\ "config" \in Wishes
    /\ \/ \E i \in Id : Supersede(i, v)
       \/ /\ \A i \in Id : ~ IsSupersedable(i)
          /\ Add(NewIntent("config", v, 0))
          /\ UNCHANGED clicks
    /\ choice' = v
    /\ UNCHANGED creation
    /\ UserStep

\* One answer per request at a time.
ResolveInteraction ==
    /\ "resolve" \in Wishes /\ asked
    /\ \A i \in Id : Is(i, "resolve") =>
          intent[i].status \notin {"queued", "dispatching", "accepted"}
    /\ Add(NewIntent("resolve", NoValue, 0))
    /\ UNCHANGED <<creation, choice, clicks>>
    /\ UserStep

\* A prompt listed as queued is edited, or deleted; one whose deletion is
\* under way is not listed.
MutatePending(kind, p) ==
    /\ kind \in Wishes
    /\ Is(p, "prompt") /\ intent[p].status = "accepted_queued"
    /\ \A i \in Id : Is(i, "delete") /\ intent[i].of = p =>
          intent[i].status \notin {"queued", "dispatching", "accepted"}
    /\ Add(NewIntent(kind, NoValue, p))
    /\ UNCHANGED <<creation, choice, clicks>>
    /\ UserStep

CancelBeforeDispatch(i) ==
    /\ intent[i].status \in {"waiting_for_session", "preparing"}
    /\ intent' = Patched(i, "absent")
    /\ UNCHANGED <<born, creation, choice, clicks>>
    /\ UserStep

Undelivered(i) == intent[i].status \in {"failed_before_dispatch", "unknown_after_dispatch"}

DismissPrompt(i) ==
    /\ Undelivered(i)
    /\ intent' = Patched(i, "absent")
    /\ UNCHANGED <<born, creation, choice, clicks>>
    /\ UserStep

\* The prompt moves to the end under a new identity; without a session the
\* retry also creates one.
RetryPrompt(i) ==
    /\ Undelivered(i) /\ born < MaxIntents
    /\ born' = born + 1
    /\ intent' = [intent EXCEPT ![i].status = "absent",
                                ![born + 1] = NewIntent("prompt", NoValue, 0)]
    /\ creation' = IF creation.at = "failed" THEN [creation EXCEPT !.at = "asked"] ELSE creation
    /\ UNCHANGED <<choice, clicks>>
    /\ UserStep

UserAct ==
    \/ SendPrompt
    \/ \E v \in Value : SelectConfig(v)
    \/ ResolveInteraction
    \/ \E kind \in {"edit", "delete"}, p \in Id : MutatePending(kind, p)
    \/ \E i \in Id : CancelBeforeDispatch(i) \/ DismissPrompt(i) \/ RetryPrompt(i)

-----------------------------------------------------------------------------
(***************************************************************************)
(* The creation of the session.  The selections made so far are read when  *)
(* it begins and become the launch value; what the user does meanwhile     *)
(* waits in the store.                                                     *)
(***************************************************************************)
CreationStep ==
    UNCHANGED <<born, step, inFlight, asked, net, turn, queue, held, ask,
                handled, ran, feed, choice, clicks>>

\* The queued selections, with their generation.
QueuedSelections ==
    [i \in Id |-> IF Is(i, "config") /\ intent[i].status = "queued" THEN intent[i].gen ELSE 0]

\* Intent i is the last one of a snapshot.
IsLatest(i, snapshot) == snapshot[i] # 0 /\ \A j \in Id : j > i => snapshot[j] = 0

\* The value a session is launched with.
LaunchValue(snapshot) ==
    IF \E i \in Id : IsLatest(i, snapshot)
    THEN intent[CHOOSE i \in Id : IsLatest(i, snapshot)].value
    ELSE Default

BeginCreation ==
    /\ creation.at = "asked"
    /\ creation' = [at |-> "creating", snapshot |-> QueuedSelections,
                    value |-> LaunchValue(QueuedSelections)]
    /\ UNCHANGED <<intent, due, live, config, faults>>
    /\ CreationStep

SettledMutant(i, value, offered) ==  \* one changed during the creation is settled too
    IF creation.snapshot[i] # 0 /\ intent[i].status = "queued"
    THEN IF creation.value \notin offered \/ ~ IsLatest(i, creation.snapshot) THEN "stale"
         ELSE IF value = creation.value THEN "reconciled" ELSE "failed"
    ELSE intent[i].status

\* The status of intent i once the session exists with the given value and offers
\* these: of the selections it was launched with only the last one counts, unless
\* the user changed it since.
Settled(i, value, offered) ==
    IF /\ creation.snapshot[i] # 0 /\ creation.snapshot[i] = intent[i].gen
       /\ intent[i].status = "queued"
    THEN IF creation.value \notin offered \/ ~ IsLatest(i, creation.snapshot) THEN "stale"
         ELSE IF value = creation.value THEN "reconciled" ELSE "failed"
    ELSE intent[i].status

\* In a session that is adopted, a selection of a value it does not offer is stale.
Applicable(i, offered) ==
    IF Is(i, "config") /\ intent[i].status = "queued" /\ intent[i].value \notin offered
    THEN "stale" ELSE intent[i].status

\* The prompts that failed for want of a session wait again.
Requeued(status) == IF status = "failed_before_dispatch" THEN "waiting_for_session" ELSE status

MaterializedMutant(value, known) ==    \* binding the intents is not seen as a change
    /\ creation' = [at |-> "ready", snapshot |-> NoSnapshot, value |-> Default]
    /\ config' = [seq |-> 1, value |-> value]
    /\ live' = IF known THEN config' ELSE NoConfig
    /\ UNCHANGED due

\* The record has a session: every intent is bound to it, which the
\* dispatcher notices.  Its live config may be missing from the answer.
Materialized(value, known) ==
    /\ creation' = [at |-> "ready", snapshot |-> NoSnapshot, value |-> Default]
    /\ config' = [seq |-> 1, value |-> value]
    /\ live' = IF known THEN config' ELSE NoConfig
    /\ due' = (due \/ \E i \in Id : Here(i))

\* Settlement, the session's record, the binding and the prompts that failed
\* meanwhile, in one go.  The runtime may not have taken the launch value, or not
\* offer it; without a live config in its answer the selections stay queued.
SessionCreated(value, known, offered) ==
    /\ creation.at = "creating"
    /\ IF value = creation.value /\ offered = Value
       THEN UNCHANGED faults
       ELSE value \in {creation.value, Default} /\ Fault
    /\ Materialized(value, known)
    /\ intent' = [i \in Id |-> [intent[i] EXCEPT !.status =
                      Requeued(IF known THEN Settled(i, value, offered) ELSE @)]]
    /\ CreationStep

\* A compatible session is adopted: the selections stay to be dispatched, those that
\* it offers.
SessionAdopted(known, offered) ==
    /\ creation.at = "asked"
    /\ IF offered = Value THEN UNCHANGED faults ELSE Fault
    /\ Materialized(Default, known)
    /\ intent' = [i \in Id |-> [intent[i] EXCEPT !.status =
                      Requeued(IF known THEN Applicable(i, offered) ELSE @)]]
    /\ CreationStep

\* Every prompt fails with it; selections stay queued.
CreationFails ==
    /\ creation.at \in {"asked", "creating"} /\ Fault
    /\ creation' = [at |-> "failed", snapshot |-> NoSnapshot, value |-> Default]
    /\ intent' = [i \in Id |-> IF Is(i, "prompt") /\ Here(i)
                               THEN [intent[i] EXCEPT !.status = "failed_before_dispatch"]
                               ELSE intent[i]]
    /\ Versioned
    /\ UNCHANGED <<live, config>>
    /\ CreationStep

-----------------------------------------------------------------------------
(***************************************************************************)
(* The dispatcher.                                                         *)
(***************************************************************************)
DispatchStep == UNCHANGED <<born, creation, asked, serverVars, feed, choice, clicks>>

\* The dispatch of intent i is over: the dispatcher that began it, if it is
\* still mounted, looks for the next one.
Finished(i) ==
    /\ step' = [step EXCEPT ![i] = "none"]
    /\ inFlight' = IF inFlight = i THEN 0 ELSE inFlight
    /\ due' = (due \/ inFlight = i \/ intent' # intent)

\* The effect runs and there is nothing it may dispatch.
LookInVain ==
    /\ due
    /\ inFlight # 0 \/ ~ Ready \/ \A i \in Id : ~ IsNext(i)
    /\ due' = FALSE
    /\ UNCHANGED <<intent, step, inFlight, live, net, faults>>
    /\ DispatchStep

\* The effect runs and begins the dispatch of intent i.
Dispatch(i) ==
    /\ due /\ inFlight = 0 /\ Ready /\ IsNext(i)
    /\ inFlight' = i
    /\ IF Is(i, "prompt")
       THEN intent' = Patched(i, "preparing") /\ step' = [step EXCEPT ![i] = "prepare"]
       ELSE intent' = Patched(i, "dispatching") /\ step' = [step EXCEPT ![i] = "target"]
    /\ Versioned
    /\ UNCHANGED <<live, net, faults>>
    /\ DispatchStep

\* The blocks of a prompt are ready; one cancelled meanwhile goes no further.
PromptPrepared(i) ==
    /\ step[i] = "prepare"
    /\ UNCHANGED <<intent, live, net, faults>>
    /\ IF intent[i].status = "preparing"
       THEN step' = [step EXCEPT ![i] = "target"] /\ UNCHANGED <<due, inFlight>>
       ELSE Finished(i)
    /\ DispatchStep

\* The address of the runtime is known and the request leaves.  A prompt
\* cancelled while it was looked up is sent all the same; a selection that
\* was reconciled while it was looked up is not.
TargetResolved(i) ==
    /\ step[i] = "target"
    /\ IF Is(i, "config") /\ intent[i].status # "dispatching"
       THEN UNCHANGED <<intent, net>> /\ Finished(i)
       ELSE /\ intent' = IF Is(i, "prompt") THEN Patched(i, "dispatching") ELSE intent
            /\ step' = [step EXCEPT ![i] = "sent"]
            /\ net' = [net EXCEPT ![i] = [at |-> "request", live |-> NoConfig]]
            /\ Versioned
            /\ UNCHANGED inFlight
    /\ UNCHANGED <<live, faults>>
    /\ DispatchStep

\* What becomes of intent i when its dispatch fails before the request.
FailedUnsent(i) ==
    IF Is(i, "prompt") THEN Patched(i, "failed_before_dispatch")
    ELSE IF Is(i, "config") /\ intent[i].status # "dispatching" THEN intent
    ELSE Patched(i, "failed")

\* The blocks cannot be made, or the address cannot be resolved.
UnsentFails(i) ==
    /\ step[i] \in {"prepare", "target"} /\ Fault
    /\ intent' = FailedUnsent(i)
    /\ Finished(i)
    /\ UNCHANGED <<live, net>>
    /\ DispatchStep

Answers == {"running", "queued", "done", "missing", "refused"}

Settles(i, answer) == step[i] = "sent" /\ net[i].at = answer

AnswerStep(i) ==
    /\ Finished(i)
    /\ net' = [net EXCEPT ![i] = Quiet]
    /\ UNCHANGED faults
    /\ DispatchStep

Terminal(i) == intent[i].status \in {"cancelled", "echoed_tombstone", "absent"}

\* Whatever the events said meanwhile, an accepted prompt is marked accepted;
\* a refused one is not looked at further once it is settled.
PromptAnswered(i) ==
    /\ Is(i, "prompt")
    /\ \/ /\ Settles(i, "running")
          /\ intent' = Patched(i, "accepted_running")
       \/ /\ Settles(i, "queued")
          /\ intent' = Patched(i, "accepted_queued")
       \/ /\ Settles(i, "refused")
          /\ intent' = IF Terminal(i) THEN intent ELSE Patched(i, "failed_before_dispatch")
    /\ UNCHANGED live
    /\ AnswerStep(i)

\* The answer to a selection counts only while it is being dispatched; the
\* live config it brings only if it is not older than the one at hand.
ConfigAnswered(i) ==
    /\ Is(i, "config") /\ \E answer \in Answers : Settles(i, answer)
    /\ IF intent[i].status # "dispatching" THEN UNCHANGED <<intent, live>>
       ELSE IF net[i].at \in {"done", "queued"}
       THEN /\ intent' = Patched(i, "accepted")
            /\ live' = IF net[i].live.seq >= live.seq THEN net[i].live ELSE live
       ELSE intent' = Patched(i, "failed") /\ UNCHANGED live
    /\ AnswerStep(i)

\* The others are marked without looking at what they have become.
OtherAnswered(i) ==
    /\ Is(i, "resolve") \/ Is(i, "edit") \/ Is(i, "delete")
    /\ \/ Settles(i, "done") /\ intent' = Patched(i, "accepted")
       \/ /\ Settles(i, "missing")
          /\ intent' = Patched(i, IF Is(i, "resolve") THEN "stale" ELSE "failed")
       \/ Settles(i, "refused") /\ intent' = Patched(i, "failed")
    /\ UNCHANGED live
    /\ AnswerStep(i)

UnansweredMutant(i) ==  \* the fate of anything without an answer is unknown
    IF Terminal(i) THEN intent ELSE Patched(i, "unknown_after_dispatch")

\* The entries when no answer comes for intent i: whether the runtime has a
\* prompt is unknown then.
Unanswered(i) ==
    IF Is(i, "prompt")
    THEN IF Terminal(i) THEN intent ELSE Patched(i, "unknown_after_dispatch")
    ELSE IF Is(i, "config") /\ intent[i].status # "dispatching" THEN intent
    ELSE Patched(i, "failed")

\* The connection fails, or a selection is not answered in time.  The request
\* is over on this side only: the runtime may still get to act upon it.
GivenUp(i) ==
    /\ step[i] \in IF Is(i, "config") THEN {"target", "sent"} ELSE {"sent"}
    /\ Fault
    /\ intent' = Unanswered(i)
    /\ Finished(i)
    /\ net' = IF net[i].at = "request" THEN net ELSE [net EXCEPT ![i] = Quiet]
    /\ UNCHANGED live
    /\ DispatchStep

\* Without a user the dispatcher is mounted only while the store holds
\* something: the next one does not know of a dispatch still under way.
Remount ==
    /\ ~ SignedIn /\ inFlight # 0 /\ \A i \in Id : ~ Here(i)
    /\ inFlight' = 0
    /\ due' = TRUE
    /\ UNCHANGED <<intent, step, live, net, faults>>
    /\ DispatchStep

DispatcherAct ==
    \/ LookInVain
    \/ \E i \in Id : \/ Dispatch(i) \/ PromptPrepared(i) \/ UnsentFails(i)
                     \/ PromptAnswered(i) \/ ConfigAnswered(i) \/ OtherAnswered(i)
                     \/ GivenUp(i)
    \/ Remount

-----------------------------------------------------------------------------
(***************************************************************************)
(* The runtime.  It acts upon a request, writes its events and then        *)
(* answers; nobody takes the answer of a dispatch that was given up.       *)
(***************************************************************************)
Answer(i, answer) ==
    net' = [net EXCEPT ![i] = IF step[i] = "sent" THEN [at |-> answer, live |-> config'] ELSE Quiet]

Event(type, id) == [type |-> type, id |-> id, live |-> NoConfig]
ConfigEvent(c) == [type |-> "config_option_update", id |-> 0, live |-> c]
Writes(events) == feed' = feed \o events

RuntimeStep == UNCHANGED <<clientVars, historyVars>>

\* An idle session with nothing queued echoes the prompt and runs it, another
\* one queues it.
HandlePrompt(i) ==
    /\ Is(i, "prompt")
    /\ UNCHANGED <<config, held, ask>>
    /\ IF turn = 0 /\ queue = <<>>
       THEN /\ turn' = i /\ ran' = ran \union {i}
            /\ Writes(<<Event("item_completed", i)>>)
            /\ Answer(i, "running")
            /\ UNCHANGED queue
       ELSE /\ queue' = Append(queue, i)
            /\ Writes(<<Event("pending_prompt_added", i)>>)
            /\ Answer(i, "queued")
            /\ UNCHANGED <<turn, ran>>

\* The config takes a value; one it already has is not announced.
Configure(value) ==
    IF value = config.value
    THEN UNCHANGED config
    ELSE config' = [seq |-> config.seq + 1, value |-> value]
ConfigAnnouncement == IF config' = config THEN <<>> ELSE <<ConfigEvent(config')>>

\* A turn holds changes back, the latest one only.
HandleConfig(i) ==
    /\ Is(i, "config")
    /\ IF turn = 0
       THEN /\ Configure(intent[i].value) /\ Writes(ConfigAnnouncement)
            /\ Answer(i, "done")
            /\ UNCHANGED held
       ELSE /\ held' = intent[i].value
            /\ UNCHANGED <<config, feed>>
            /\ Answer(i, "queued")
    /\ UNCHANGED <<turn, queue, ask, ran>>

HandleResolve(i) ==
    /\ Is(i, "resolve")
    /\ UNCHANGED <<config, turn, queue, held, ran>>
    /\ IF ask = "open"
       THEN /\ ask' = "closed" /\ Writes(<<Event("interaction_resolved", 0)>>)
            /\ Answer(i, "done")
       ELSE UNCHANGED <<ask, feed>> /\ Answer(i, "missing")

InQueue(p) == \E k \in 1..Len(queue) : queue[k] = p
Place(p) == CHOOSE k \in 1..Len(queue) : queue[k] = p
Without(p) == SubSeq(queue, 1, Place(p) - 1) \o SubSeq(queue, Place(p) + 1, Len(queue))

HandleMutation(i) ==
    LET p == intent[i].of IN
    /\ Is(i, "edit") \/ Is(i, "delete")
    /\ UNCHANGED <<config, turn, held, ask, ran>>
    /\ IF InQueue(p)
       THEN /\ queue' = IF Is(i, "delete") THEN Without(p) ELSE queue
            /\ Writes(<<Event(IF Is(i, "delete") THEN "pending_prompt_removed:deleted"
                              ELSE "pending_prompt_updated", p)>>)
            /\ Answer(i, "done")
       ELSE UNCHANGED <<queue, feed>> /\ Answer(i, "missing")

Handle(i) ==
    /\ net[i].at = "request"
    /\ handled' = handled \union {i}
    /\ HandlePrompt(i) \/ HandleConfig(i) \/ HandleResolve(i) \/ HandleMutation(i)
    /\ RuntimeStep

\* The turn asks for a permission.
Ask ==
    /\ "resolve" \in Wishes /\ turn # 0 /\ ask = "none"
    /\ ask' = "open"
    /\ Writes(<<Event("interaction_requested", 0)>>)
    /\ UNCHANGED <<config, turn, queue, held, handled, ran, net>>
    /\ RuntimeStep

\* The turn ends and the held change is applied.
EndTurn ==
    /\ turn # 0 /\ ask # "open"
    /\ turn' = 0
    /\ IF held = NoValue THEN UNCHANGED config ELSE Configure(held)
    /\ held' = NoValue
    /\ Writes(ConfigAnnouncement)
    /\ UNCHANGED <<queue, ask, handled, ran, net>>
    /\ RuntimeStep

\* The idle session runs the prompt at the head of its queue.  Requests may
\* have come first.
DrainQueue ==
    /\ turn = 0 /\ queue # <<>>
    /\ turn' = Head(queue)
    /\ queue' = Tail(queue)
    /\ ran' = ran \union {Head(queue)}
    /\ Writes(<<Event("item_completed", Head(queue)),
                Event("pending_prompt_removed:executed", Head(queue))>>)
    /\ UNCHANGED <<config, held, ask, handled, net>>
    /\ RuntimeStep

\* The runtime refuses a request.
Refuse(i) ==
    /\ net[i].at = "request" /\ step[i] = "sent" /\ Fault
    /\ net' = [net EXCEPT ![i].at = "refused"]
    /\ UNCHANGED <<clientVars, serverVars, feed, choice, clicks>>

\* A request nobody waits for any more never arrives.
Vanish(i) ==
    /\ net[i].at = "request" /\ step[i] = "none"
    /\ net' = [net EXCEPT ![i] = Quiet]
    /\ UNCHANGED <<clientVars, serverVars, feed, historyVars>>

RuntimeAct == (\E i \in Id : Handle(i) \/ Refuse(i) \/ Vanish(i)) \/ Ask \/ EndTurn \/ DrainQueue

-----------------------------------------------------------------------------
(***************************************************************************)
(* The events, as the stream delivers them to the store.                   *)
(***************************************************************************)
ReconcilesMutant(i, event) ==   \* the event also ends a selection still queued
    /\ Is(i, "config") /\ intent[i].status \in {"accepted", "dispatching", "queued"}
    /\ intent[i].value = event.live.value

\* The event announces the value selection i asked for.
Reconciles(i, event) ==
    /\ Is(i, "config") /\ intent[i].status \in {"accepted", "dispatching"}
    /\ intent[i].value = event.live.value

RemovalMutant(type) == "cancelled"      \* the reason of the removal is ignored

\* The state of a prompt that left the queue.
Removal(type) ==
    IF type = "pending_prompt_removed:executed" THEN "echoed_tombstone" ELSE "cancelled"

ReconcileOutboxFromEnvelope(event) ==
    CASE event.type \in {"pending_prompt_added", "pending_prompt_updated"} ->
            Patched(event.id, "accepted_queued")
      [] event.type \in {"pending_prompt_removed:executed", "pending_prompt_removed:deleted"} ->
            Patched(event.id, Removal(event.type))
      [] event.type = "item_completed" ->
            Patched(event.id, "echoed_tombstone")
      [] event.type = "config_option_update" ->
            [i \in Id |-> IF Reconciles(i, event)
                          THEN [intent[i] EXCEPT !.status = "reconciled"] ELSE intent[i]]
      [] event.type = "interaction_resolved" ->
            [i \in Id |-> IF /\ Is(i, "resolve")
                             /\ intent[i].status \in {"accepted", "dispatching", "queued"}
                          THEN [intent[i] EXCEPT !.status = "reconciled"] ELSE intent[i]]
      [] event.type = "interaction_requested" -> intent

\* The session's record follows the event, then the store is reconciled.
Deliver ==
    /\ feed # <<>>
    /\ feed' = Tail(feed)
    /\ intent' = ReconcileOutboxFromEnvelope(Head(feed))
    /\ live' = IF Head(feed).type = "config_option_update" THEN Head(feed).live ELSE live
    /\ asked' = CASE Head(feed).type = "interaction_requested" -> TRUE
                  [] Head(feed).type = "interaction_resolved" -> FALSE
                  [] OTHER -> asked
    /\ Versioned
    /\ UNCHANGED <<born, creation, step, inFlight, net, serverVars, historyVars>>

\* Tombstones are dropped some seconds after the echo.
PruneEchoedTombstone(i) ==
    /\ intent[i].status = "echoed_tombstone"
    /\ intent' = Patched(i, "absent")
    /\ Versioned
    /\ UNCHANGED <<born, creation, step, inFlight, live, asked, net, serverVars, feed, historyVars>>

StreamAct == Deliver \/ \E i \in Id : PruneEchoedTombstone(i)

-----------------------------------------------------------------------------
Init ==
    /\ intent = [i \in Id |-> Unborn]
    /\ born = 0
    /\ creation = [at |-> "asked", snapshot |-> NoSnapshot, value |-> Default]
    /\ step = [i \in Id |-> "none"]
    /\ inFlight = 0
    /\ due = FALSE
    /\ live = NoConfig
    /\ asked = FALSE
    /\ net = [i \in Id |-> Quiet]
    /\ config = NoConfig
    /\ turn = 0
    /\ queue = <<>>
    /\ held = NoValue
    /\ ask = "none"
    /\ feed = <<>>
    /\ handled = {}
    /\ ran = {}
    /\ choice = NoValue
    /\ clicks = 0
    /\ faults = 0

CreationAct ==
    \/ BeginCreation
    \/ \E known \in BOOLEAN, offered \in SUBSET Value :
         \/ \E value \in Value : SessionCreated(value, known, offered)
         \/ SessionAdopted(known, offered)
    \/ CreationFails

\* The address of a local runtime is known at once: nothing comes between.
Next ==
    \/ \E i \in Id : TargetResolved(i)
    \/ /\ Remote \/ \A i \in Id : step[i] # "target"
       /\ UserAct \/ CreationAct \/ DispatcherAct \/ RuntimeAct \/ StreamAct

Spec == Init /\ [][Next]_vars

-----------------------------------------------------------------------------
(***************************************************************************)
(* What the store and its dispatcher promise.                              *)
(***************************************************************************)
PromptStatus == {"waiting_for_session", "preparing", "dispatching", "accepted_running",
                 "accepted_queued", "failed_before_dispatch", "unknown_after_dispatch",
                 "cancelled", "echoed_tombstone", "absent"}
OtherStatus == {"queued", "dispatching", "accepted", "reconciled", "failed", "stale"}
Intent ==
    [kind : {"none"}, status : {"absent"}, value : {NoValue}, gen : {0}, of : {0}]
    \union [kind : {"prompt"}, status : PromptStatus, value : {NoValue}, gen : {1}, of : {0}]
    \union [kind : {"config"}, status : OtherStatus, value : Value, gen : Nat, of : {0}]
    \union [kind : {"resolve", "edit", "delete"}, status : OtherStatus, value : {NoValue},
            gen : {1}, of : 0..MaxIntents]
Config == [seq : Nat, value : Value \union {NoValue}]
EventType == {"item_completed", "pending_prompt_added", "pending_prompt_updated",
              "pending_prompt_removed:executed", "pending_prompt_removed:deleted",
              "config_option_update", "interaction_requested", "interaction_resolved"}

\* The state is well formed: in particular a prompt never has the status of
\* another kind of intent nor the other way round.
IntentsTypeOK ==
    /\ intent \in [Id -> Intent]
    /\ born \in 0..MaxIntents
    /\ creation \in [at : {"asked", "creating", "failed", "ready"},
                     snapshot : [Id -> Nat], value : Value]
    /\ step \in [Id -> {"none", "prepare", "target", "sent"}]
    /\ inFlight \in 0..MaxIntents
    /\ due \in BOOLEAN
    /\ live \in Config
    /\ asked \in BOOLEAN
    /\ net \in [Id -> [at : Answers \union {"none", "request"}, live : Config]]
    /\ config \in Config
    /\ turn \in 0..MaxIntents
    /\ queue \in Seq(Id)
    /\ held \in Value \union {NoValue}
    /\ ask \in {"none", "open", "closed"}
    /\ feed \in Seq([type : EventType, id : 0..MaxIntents, live : Config])
    /\ handled \subseteq Id
    /\ ran \subseteq Id
    /\ choice \in Value \union {NoValue}
    /\ clicks \in Nat
    /\ faults \in Nat

\* The runtime acts upon what the user still wants in the order of the
\* clicks, each once: never upon a prompt after a later selection, nor twice
\* upon the same; this holds for a prompt whose fate is unknown, too.  (What
\* was withdrawn after it was taken up, and a selection that was given up, may
\* still reach the runtime and then come at any place.)
HandledInOrder ==
    [][\A i \in Id : Handle(i) /\ Here(i) /\ (Is(i, "prompt") \/ step[i] = "sent")
          => \A j \in handled : j < i]_vars

\* What an intent is finally shown as is what happened to it: a prompt that
\* failed before dispatch (and is sent anew on a retry) was never accepted by
\* the runtime, a cancelled one never ran, an echoed one did.
FinalStatesAreTrue ==
    \A i \in Id :
        /\ intent[i].status = "failed_before_dispatch" => i \notin handled
        /\ intent[i].status = "cancelled" => i \notin ran
        /\ intent[i].status = "echoed_tombstone" => i \in ran

\* Nothing of the setting is under way any more.
SettingIsQuiet ==
    /\ Ready /\ faults = 0 /\ held = NoValue
    /\ \A i \in Id : Is(i, "config") =>
          intent[i].status \notin {"queued", "dispatching"} /\ net[i].at = "none"

\* When every selection has been dealt with and nothing failed, the runtime
\* has the value the user chose last, whatever was clicked before or during
\* the creation of the session and during a turn.
LastChoiceWins == SettingIsQuiet /\ choice # NoValue => config.value = choice

\* The value the control shows: that of the last selection not settled, over
\* the live config.
Pending(i) == Is(i, "config") /\ intent[i].status \in {"queued", "dispatching", "accepted"}
IsLastPending(i) == Pending(i) /\ \A j \in Id : j > i => ~ Pending(j)
Shown == IF \E i \in Id : IsLastPending(i)
         THEN intent[CHOOSE i \in Id : IsLastPending(i)].value
         ELSE live.value

\* When nothing is under way and every event was delivered, the control shows
\* the value the runtime has.
ShownIsActual == SettingIsQuiet /\ feed = <<>> => Shown = config.value

\* A prompt whose echo was seen stays settled until it is dropped.
EchoedStaysSettled ==
    [][\A i \in Id : intent[i].status = "echoed_tombstone" =>
          intent'[i].status \in {"echoed_tombstone", "absent"}]_vars

-----------------------------------------------------------------------------
(***************************************************************************)
(* Liveness.  Timers, callbacks and effects run, requests are eventually   *)
(* acted upon or fail, and events are delivered.  Nothing makes the user   *)
(* act, a turn end, or a session be created.                               *)
(***************************************************************************)
FairSpec ==
    /\ Spec
    /\ WF_vars(LookInVain)
    /\ WF_vars(Deliver)
    /\ \A i \in Id :
          /\ WF_vars(Dispatch(i))
          /\ WF_vars(PromptPrepared(i))
          /\ WF_vars(TargetResolved(i))
          /\ WF_vars(Handle(i))
          /\ WF_vars(PromptAnswered(i) \/ ConfigAnswered(i) \/ OtherAnswered(i))

\* Once the session exists no intent waits for ever, unless an earlier prompt
\* is of unknown fate: then it waits until the user retries or dismisses it.
Stuck(i) == \E j \in 1..(i - 1) : intent[j].status = "unknown_after_dispatch"
EveryIntentLeaves ==
    \A i \in Id : (Ready /\ Dispatchable(i)) ~> (~ Dispatchable(i) \/ Stuck(i))
=============================================================================
