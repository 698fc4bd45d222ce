----------------------- MODULE SessionIntentsProofs -----------------------
(***************************************************************************)
(* The runtime acts upon intents in the order of the clicks, and what an   *)
(* intent is finally shown as is what happened to it: for any number of    *)
(* intents, values and faults, on a local and on a remote runtime.  On a   *)
(* local one the last choice of the setting wins, unless a request fails.  *)
(***************************************************************************)
EXTENDS SessionIntents, SequenceTheorems, TLAPS

-----------------------------------------------------------------------------
(***************************************************************************)
(* The inductive invariant, in parts.  The dispatch of an intent has begun *)
(* when the client is at it, its request is on the way or was handled.     *)
(***************************************************************************)
Touched(i) == step[i] # "none" \/ net[i].at # "none" \/ i \in handled

\* The dispatch may still lead to what the user waits for.
Under(i) == Here(i) /\ (step[i] # "none" \/ (Is(i, "prompt") /\ net[i].at = "request"))

\* Nothing is begun for an intent that was not created or has no session.
Births ==
    \A i \in Id :
        /\ Is(i, "none") <=> i > born
        /\ Touched(i) => i <= born /\ Ready

\* What waits comes after all that was begun, and what is under way last of it.
InOrder ==
    \A i, j \in Id :
        /\ Touched(i) /\ Dispatchable(j) => i < j
        /\ Here(i) /\ step[i] # "none" => inFlight = i
        /\ Under(i) /\ Touched(j) /\ i # j => j < i

\* A request is made and handled once, and blocks what comes later.
Requests ==
    \A i \in Id :
        /\ step[i] \in {"prepare", "target"} => net[i].at = "none" /\ i \notin handled
        /\ net[i].at \in {"request", "refused"} => i \notin handled
        /\ Is(i, "prompt") /\ Here(i) /\ net[i].at = "request" =>
              intent[i].status \in {"dispatching", "unknown_after_dispatch"}

\* The prompt is neither to be run nor was it run.
Withdrawn(p) == p \in handled /\ p \notin ran /\ ~ InQueue(p)

RunEvents == {"item_completed", "pending_prompt_removed:executed"}
PromptEvents == RunEvents \union {"pending_prompt_added", "pending_prompt_updated",
                                  "pending_prompt_removed:deleted"}

IsTrue(event) ==
    /\ event.type \in PromptEvents => event.id \in handled /\ Is(event.id, "prompt")
    /\ event.type \in RunEvents => event.id \in ran
    /\ event.type = "pending_prompt_removed:deleted" => Withdrawn(event.id)

\* The queue of the runtime and the events on their way are about prompts the
\* runtime took.
Records ==
    /\ \A k \in 1..Len(queue) : queue[k] \in handled \ ran /\ Is(queue[k], "prompt")
    /\ \A k, l \in 1..Len(queue) : queue[k] = queue[l] => k = l
    /\ \A k \in 1..Len(feed) : IsTrue(feed[k])
    /\ ran \subseteq handled

Finals ==
    /\ FinalStatesAreTrue
    /\ \A i \in Id : intent[i].status = "cancelled" => Withdrawn(i)

Order == Births /\ InOrder /\ Requests /\ Records /\ Finals
IInv == IntentsTypeOK /\ Order

-----------------------------------------------------------------------------
(***************************************************************************)
(* The entries of the store.                                               *)
(***************************************************************************)
\* What the status of an entry may be follows from its kind.
LEMMA EntryStatus ==
    ASSUME NEW entry \in Intent
    PROVE  /\ entry.kind \in Kinds \union {"none"}
           /\ entry.kind = "none" => entry.status = "absent"
           /\ entry.kind = "prompt" => entry.status \in PromptStatus
           /\ entry.kind \notin {"none", "prompt"} => entry.status \in OtherStatus
           /\ entry.kind = "config" => entry.value \in Value
           /\ entry.gen \in Nat
BY DEF Intent, Kinds

\* A status that fits the kind keeps the entry well formed.
LEMMA EntryWithStatus ==
    ASSUME NEW entry \in Intent, NEW s,
           \/ entry.status = s
           \/ entry.kind = "prompt" /\ s \in PromptStatus
           \/ entry.kind \in Kinds \ {"prompt"} /\ s \in OtherStatus
    PROVE  [entry EXCEPT !.status = s] \in Intent
BY DEF Intent, Kinds

LEMMA PatchedType ==
    ASSUME intent \in [Id -> Intent], NEW i \in Id, NEW s,
           \/ ~ Here(i)
           \/ Is(i, "prompt") /\ s \in PromptStatus
           \/ intent[i].kind \in Kinds \ {"prompt"} /\ s \in OtherStatus
    PROVE  Patched(i, s) \in [Id -> Intent]
<1>1. CASE ~ Here(i)
  BY <1>1 DEF Patched
<1>2. CASE Here(i)
  <2>1. [intent[i] EXCEPT !.status = s] \in Intent
    BY <1>2, EntryWithStatus DEF Is
  <2>. QED  BY <2>1, <1>2 DEF Patched
<1>. QED  BY <1>1, <1>2

\* Patching changes the status of one entry, if it is there, and nothing else.
LEMMA PatchedEntry ==
    ASSUME intent \in [Id -> Intent], NEW i \in Id, NEW s, NEW j \in Id
    PROVE  /\ Patched(i, s)[j].kind = intent[j].kind
           /\ Patched(i, s)[j].status = IF j = i /\ Here(i) THEN s ELSE intent[j].status
<1>1. intent[j] \in Intent
  OBVIOUS
<1>. QED  BY <1>1 DEF Patched, Intent

-----------------------------------------------------------------------------
(***************************************************************************)
(* What keeps the order, whoever takes the step.                           *)
(***************************************************************************)
\* Intent i may be given status s.
Fits(i, s) ==
    /\ s = "failed_before_dispatch" => i \notin handled
    /\ s = "cancelled" => Withdrawn(i)
    /\ s = "echoed_tombstone" => i \in ran
    /\ Is(i, "prompt") /\ net[i].at = "request" =>
          s \in {"dispatching", "unknown_after_dispatch", "absent"}

\* A step of the user, of the creation or of the stream changes statuses and
\* adds intents, but begins no dispatch.
LEMMA StoreStep ==
    ASSUME IntentsTypeOK, Order,
           UNCHANGED <<step, net, inFlight, handled, ran, queue>>,
           \A k \in 1..Len(feed') : \E l \in 1..Len(feed) : feed'[k] = feed[l],
           born' \in Nat, born <= born', Ready => Ready',
           \A i \in Id :
              /\ i <= born => intent'[i].kind = intent[i].kind
              /\ Is(i, "none")' <=> i > born'
              /\ Here(i)' => Here(i) \/ i > born
              /\ Dispatchable(i)' => Dispatchable(i) \/ ~ Ready \/ i > born
              /\ intent'[i].status = intent[i].status \/ Fits(i, intent'[i].status)
    PROVE  Order'
<1>0. /\ born \in Nat /\ Id \subseteq Nat /\ handled \subseteq Id
      /\ \A i \in Id : Touched(i)' <=> Touched(i)
  BY IntentsAssumption DEF IntentsTypeOK, Id, Touched
<1>1. Births'
  <2>1. \A i \in Id : Touched(i) => i <= born' /\ Ready'
    BY <1>0 DEF Order, Births
  <2>. QED  BY <2>1, <1>0 DEF Births
<1>2. \A i \in Id : Touched(i) => /\ Here(i)' => Here(i)
                                  /\ Is(i, "prompt")' <=> Is(i, "prompt")
  BY <1>0 DEF Order, Births, Is
<1>3. InOrder'
  <2> SUFFICES ASSUME NEW i \in Id, NEW j \in Id
               PROVE  /\ Touched(i) /\ Dispatchable(j)' => i < j
                      /\ Here(i)' /\ step[i] # "none" => inFlight = i
                      /\ Under(i)' /\ Touched(j) /\ i # j => j < i
    BY <1>0 DEF InOrder
  <2>1. Touched(i) /\ Dispatchable(j)' => i < j
    BY <1>0 DEF Order, Births, InOrder
  <2>2. step[i] # "none" => Touched(i)
    BY DEF Touched
  <2>3. Under(i)' => Under(i)
    BY <1>2, <2>2 DEF Under, Touched
  <2>. QED  BY <2>1, <2>2, <2>3, <1>2 DEF Order, InOrder
<1>4. Requests'
  <2> SUFFICES ASSUME NEW i \in Id, Is(i, "prompt")', Here(i)', net[i].at = "request"
               PROVE  intent'[i].status \in {"dispatching", "unknown_after_dispatch"}
    BY DEF Order, Requests
  <2>1. Is(i, "prompt") /\ Here(i)
    BY <1>2 DEF Touched
  <2>. QED  BY <2>1 DEF Order, Requests, Fits, Here
<1>5. \A p \in Id : Withdrawn(p)' <=> Withdrawn(p)
  BY DEF Withdrawn, InQueue
<1>6. \A p \in handled : Is(p, "prompt")' <=> Is(p, "prompt")
  BY <1>0, <1>2 DEF Touched
<1>7. Records'
  <2>1. ASSUME NEW k \in 1..Len(feed')
        PROVE  IsTrue(feed[k])'
    <3>1. PICK l \in 1..Len(feed) : feed'[k] = feed[l]
      OBVIOUS
    <3>2. IsTrue(feed[l])
      BY DEF Order, Records
    <3>. QED  BY <3>1, <3>2, <1>5, <1>6, <1>0 DEF IsTrue, RunEvents, PromptEvents
  <2>. QED  BY <2>1, <1>6 DEF Order, Records
<1>8. Finals'
  <2>1. ASSUME NEW i \in Id
        PROVE  Fits(i, intent'[i].status)
    <3>1. Fits(i, intent[i].status)
      BY DEF Order, Finals, FinalStatesAreTrue, Fits, Requests, Here
    <3>. QED  BY <3>1 DEF Fits, Withdrawn
  <2>2. ASSUME NEW i \in Id
        PROVE  /\ intent'[i].status = "failed_before_dispatch" => i \notin handled
               /\ intent'[i].status = "cancelled" => Withdrawn(i) /\ i \notin ran
               /\ intent'[i].status = "echoed_tombstone" => i \in ran
    BY <2>1 DEF Fits, Withdrawn
  <2>. QED  BY <2>2, <1>5 DEF Finals, FinalStatesAreTrue
<1>. QED  BY <1>1, <1>3, <1>4, <1>7, <1>8 DEF Order

\* A step of the dispatch of intent i, once begun.
LEMMA ProgressStep ==
    ASSUME IntentsTypeOK, Order, NEW i \in Id,
           step[i] # "none",
           UNCHANGED <<born, creation, handled, ran, queue, feed>>,
           inFlight' = inFlight \/ (step'[i] = "none" /\ inFlight = i),
           step'[i] \in {"prepare", "target"} =>
               step[i] \in {"prepare", "target"} /\ net'[i].at = "none",
           net'[i].at \in {"request", "refused"} => i \notin handled,
           Is(i, "prompt") /\ Here(i)' /\ net'[i].at = "request" =>
              intent'[i].status \in {"dispatching", "unknown_after_dispatch"},
           intent'[i].status = intent[i].status \/
              /\ ~ Dispatchable(i)'
              /\ intent'[i].status = "failed_before_dispatch" => i \notin handled
              /\ intent'[i].status \notin {"cancelled", "echoed_tombstone"},
           Here(i)' => Here(i),
           intent'[i].kind = intent[i].kind,
           \A j \in Id : j # i => intent'[j] = intent[j] /\ step'[j] = step[j] /\ net'[j] = net[j]
    PROVE  Order'
<1>a. born \in Nat /\ Id \subseteq Nat /\ handled \subseteq Id
  BY IntentsAssumption DEF IntentsTypeOK, Id
<1>b. ASSUME NEW j \in Id
      PROVE  /\ Touched(j)' => Touched(j)
             /\ Dispatchable(j)' => Dispatchable(j)
             /\ Here(j)' => Here(j)
             /\ Under(j)' => Under(j)
             /\ intent'[j].kind = intent[j].kind
  <2>1. CASE j = i
    BY <2>1 DEF Touched, Dispatchable, Under, Is, Here
  <2>2. CASE j # i
    BY <2>2 DEF Touched, Dispatchable, Under, Is, Here
  <2>. QED  BY <2>1, <2>2
<1>c. \A j \in Id : \A kind : Is(j, kind)' <=> Is(j, kind)
  BY <1>b DEF Is
<1>0. /\ \A j \in Id : Touched(j)' => Touched(j)
      /\ \A j \in Id : Dispatchable(j)' => Dispatchable(j)
      /\ \A j \in Id : Under(j)' => Under(j)
  BY <1>b
<1>1. Births'
  BY <1>0, <1>a, <1>c DEF Order, Births, Ready
<1>2. InOrder'
  <2>1. ASSUME NEW j \in Id, Here(j)', step'[j] # "none"
        PROVE  inFlight' = j
    <3>1. Here(j) /\ step[j] # "none"
      BY <2>1 DEF Here
    <3>. QED  BY <3>1, <2>1 DEF Order, InOrder
  <2>. QED  BY <2>1, <1>0 DEF Order, InOrder
<1>3. Requests'
  BY <1>c DEF Order, Requests, Here
<1>4. \A p \in Id : Withdrawn(p)' <=> Withdrawn(p)
  BY DEF Withdrawn, InQueue
<1>5. Records'
  <2>1. ASSUME NEW k \in 1..Len(feed)
        PROVE  IsTrue(feed[k])'
    <3>1. IsTrue(feed[k])
      BY DEF Order, Records
    <3>. QED  BY <3>1, <1>4, <1>a, <1>c DEF IsTrue, RunEvents, PromptEvents
  <2>. QED  BY <2>1, <1>a, <1>c DEF Order, Records
<1>6. Finals'
  BY <1>4 DEF Order, Finals, FinalStatesAreTrue
<1>. QED  BY <1>1, <1>2, <1>3, <1>5, <1>6 DEF Order

\* The dispatch of intent i begins: everything begun before is older, and
\* everything under way as well, or it would block.
LEMMA DispatchOrder ==
    ASSUME IntentsTypeOK, Order, NEW i \in Id, Dispatch(i)
    PROVE  Order'
<1>0. /\ born \in Nat /\ Id \subseteq Nat \ {0} /\ handled \subseteq Id
      /\ i \in Nat
  BY IntentsAssumption DEF IntentsTypeOK, Id
<1>1. /\ inFlight = 0 /\ inFlight' = i /\ Ready /\ IsNext(i) /\ Dispatchable(i) /\ Here(i)
      /\ UNCHANGED <<born, creation, net, handled, ran, queue, feed>>
  BY DEF Dispatch, IsNext, Dispatchable, Here, DispatchStep, serverVars
<1>2. step[i] = "none" /\ ~ Touched(i)
  BY <1>0, <1>1 DEF Order, InOrder
<1>3. ASSUME NEW j \in Id
      PROVE  /\ intent'[j].kind = intent[j].kind
             /\ intent'[j].status = IF j = i THEN intent'[i].status ELSE intent[j].status
             /\ intent'[i].status \in {"preparing", "dispatching"}
             /\ step'[j] = IF j = i THEN step'[i] ELSE step[j]
             /\ step'[i] \in {"prepare", "target"}
  BY <1>1, PatchedEntry DEF Dispatch, IntentsTypeOK
<1>4. \A j \in Id : Touched(j)' <=> Touched(j) \/ j = i
  BY <1>3, <1>1 DEF Touched
<1>5. \A j \in Id : Dispatchable(j)' => Dispatchable(j) /\ i < j
  <2> SUFFICES ASSUME NEW j \in Id, Dispatchable(j)'
               PROVE  Dispatchable(j) /\ i < j
    OBVIOUS
  <2>1. j # i /\ Dispatchable(j)
    BY <1>3 DEF Dispatchable
  <2>2. ~ (j \in 1..(i - 1))
    BY <2>1, <1>1 DEF IsNext
  <2>. QED  BY <2>1, <2>2, <1>0
<1>6. intent[i] \in Intent
  BY DEF IntentsTypeOK
<1>7. Births'
  <2>1. ~ Is(i, "none")
    BY <1>1, <1>6, EntryStatus DEF Is, Here
  <2>. QED  BY <2>1, <1>0, <1>1, <1>3, <1>4 DEF Order, Births, Is, Ready
<1>8. \A j \in Id : j # i => (Here(j)' <=> Here(j)) /\ (Is(j, "prompt")' <=> Is(j, "prompt"))
  BY <1>3 DEF Here, Is
<1>9. \A j \in Id : Here(j) => step[j] = "none"
  BY <1>0, <1>1 DEF Order, InOrder
<1>10. \A j \in Id : j # i /\ Under(j)' => Under(j) /\ i < j
  <2> SUFFICES ASSUME NEW j \in Id, j # i, Under(j)'
               PROVE  Under(j) /\ i < j
    OBVIOUS
  <2>1. Under(j) /\ Here(j)
    BY <1>1, <1>3, <1>8 DEF Under
  <2>2. Is(j, "prompt") /\ net[j].at = "request"
    BY <2>1, <1>9 DEF Under
  <2>3. Blocking(j)
    BY <2>1, <2>2 DEF Order, Requests, Blocking
  <2>4. ~ (j \in 1..(i - 1))
    BY <2>3, <1>1 DEF IsNext
  <2>. QED  BY <2>1, <2>4, <1>0
<1>11. InOrder'
  <2> SUFFICES ASSUME NEW m \in Id, NEW j \in Id
               PROVE  /\ Touched(m)' /\ Dispatchable(j)' => m < j
                      /\ Here(m)' /\ step'[m] # "none" => inFlight' = m
                      /\ Under(m)' /\ Touched(j)' /\ m # j => j < m
    BY DEF InOrder
  <2>1. Touched(m)' /\ Dispatchable(j)' => m < j
    BY <1>4, <1>5 DEF Order, InOrder
  <2>2. Here(m)' /\ step'[m] # "none" => inFlight' = m
    BY <1>1, <1>3, <1>8, <1>9
  <2>3. Under(m)' /\ Touched(j)' /\ m # j => j < m
    BY <1>1, <1>4, <1>10 DEF Order, InOrder
  <2>. QED  BY <2>1, <2>2, <2>3
<1>12. Requests'
  BY <1>1, <1>2, <1>3, <1>8 DEF Order, Requests, Touched
<1>13. \A p \in Id : Withdrawn(p)' <=> Withdrawn(p)
  BY <1>1 DEF Withdrawn, InQueue
<1>14. \A p \in handled : Is(p, "prompt")' <=> Is(p, "prompt")
  BY <1>0, <1>3 DEF Is
<1>15. Records'
  <2>1. ASSUME NEW k \in 1..Len(feed)
        PROVE  IsTrue(feed[k])'
    <3>1. IsTrue(feed[k])
      BY DEF Order, Records
    <3>. QED  BY <3>1, <1>0, <1>1, <1>13, <1>14 DEF IsTrue, RunEvents, PromptEvents
  <2>. QED  BY <2>1, <1>1, <1>14 DEF Order, Records
<1>16. Finals'
  BY <1>1, <1>3, <1>13 DEF Order, Finals, FinalStatesAreTrue
<1>. QED  BY <1>7, <1>11, <1>12, <1>15, <1>16 DEF Order

-----------------------------------------------------------------------------
(***************************************************************************)
(* The runtime's queue and events.                                         *)
(***************************************************************************)
LEMMA QueueWithout ==
    ASSUME queue \in Seq(Id), NEW p, InQueue(p)
    PROVE  /\ Without(p) \in Seq(Id)
           /\ Len(Without(p)) = Len(queue) - 1
           /\ Place(p) \in 1..Len(queue) /\ queue[Place(p)] = p
           /\ \A k \in 1..Len(Without(p)) :
                 Without(p)[k] = IF k < Place(p) THEN queue[k] ELSE queue[k + 1]
<1>1. Place(p) \in 1..Len(queue) /\ queue[Place(p)] = p
  BY DEF InQueue, Place
<1>2. PICK n \in 1..Len(queue) : n = Place(p)
  BY <1>1
<1>. DEFINE s == SubSeq(queue, 1, n - 1)
            t == SubSeq(queue, n + 1, Len(queue))
<1>3. Len(queue) \in Nat
  BY LenProperties
<1>4. /\ s \in Seq(Id) /\ Len(s) = n - 1
      /\ \A k \in 1..Len(s) : s[k] = queue[k]
  BY <1>3
<1>5. /\ t \in Seq(Id) /\ Len(t) = Len(queue) - n
      /\ \A k \in 1..Len(t) : t[k] = queue[n + k]
  BY <1>3
<1>6. Without(p) = s \o t
  BY <1>2 DEF Without
<1>. HIDE DEF s, t
<1>7. /\ s \o t \in Seq(Id) /\ Len(s \o t) = Len(s) + Len(t)
      /\ \A k \in 1..Len(s) + Len(t) :
            (s \o t)[k] = IF k <= Len(s) THEN s[k] ELSE t[k - Len(s)]
  BY <1>4, <1>5, ConcatProperties
<1>8. ASSUME NEW k \in 1..Len(queue) - 1
      PROVE  (s \o t)[k] = IF k < n THEN queue[k] ELSE queue[k + 1]
  <2>1. CASE k < n
    <3>1. k \in 1..Len(s) + Len(t) /\ k <= Len(s) /\ k \in 1..Len(s)
      BY <2>1, <1>3, <1>4, <1>5
    <3>. QED  BY <3>1, <2>1, <1>4, <1>7
  <2>2. CASE ~ (k < n)
    <3>1. PICK m \in 1..Len(queue) : m = k - (n - 1)
      BY <2>2, <1>3
    <3>2. m \in 1..Len(t) /\ n + m = k + 1
      BY <3>1, <1>3, <1>5, <2>2
    <3>3. (s \o t)[k] = t[m]
      <4>1. Len(s) = n - 1 /\ Len(t) = Len(queue) - n
        BY <1>4, <1>5
      <4>2. k \in 1..Len(s) + Len(t) /\ ~ (k <= Len(s)) /\ k - Len(s) = m
        BY <4>1, <3>1, <2>2, <1>3
      <4>. QED  BY <4>2, <1>7
    <3>4. t[m] = queue[k + 1]
      BY <3>2, <1>5
    <3>. QED  BY <3>3, <3>4, <2>2
  <2>. QED  BY <2>1, <2>2
<1>9. Len(s \o t) = Len(queue) - 1
  BY <1>3, <1>4, <1>5, <1>7
<1>10. \A k \in 1..Len(s \o t) : (s \o t)[k] = IF k < n THEN queue[k] ELSE queue[k + 1]
  BY <1>8, <1>9
<1>. QED  BY <1>1, <1>2, <1>6, <1>7, <1>9, <1>10

EventRecord == [type : EventType, id : 0..MaxIntents, live : Config]

\* An event in the feed after a step was there before or was written by it.
LEMMA Written ==
    ASSUME feed \in Seq(EventRecord), NEW events \in Seq(EventRecord),
           feed' = feed \o events, NEW k \in 1..Len(feed')
    PROVE  \/ \E l \in 1..Len(feed) : feed'[k] = feed[l]
           \/ \E l \in 1..Len(events) : feed'[k] = events[l]
<1>1. Len(feed) \in Nat /\ Len(events) \in Nat
  BY LenProperties
<1>2. /\ Len(feed') = Len(feed) + Len(events)
      /\ \A m \in 1..Len(feed) + Len(events) :
            feed'[m] = IF m <= Len(feed) THEN feed[m] ELSE events[m - Len(feed)]
  BY ConcatProperties
<1>3. CASE k <= Len(feed)
  BY <1>1, <1>2, <1>3
<1>4. CASE ~ (k <= Len(feed))
  <2>1. k - Len(feed) \in 1..Len(events)
    BY <1>1, <1>2, <1>4
  <2>. QED  BY <2>1, <1>1, <1>2, <1>4
<1>. QED  BY <1>3, <1>4

\* The record of the runtime stays true when it takes a request of a prompt
\* not handled before, or begins to run one; what it withdrew stays withdrawn.
LEMMA RecordStep ==
    ASSUME IntentsTypeOK, Order,
           UNCHANGED intent,
           handled \subseteq handled', ran \subseteq ran', ran' \subseteq handled',
           \A p \in Id : Withdrawn(p) => Withdrawn(p)',
           NEW events \in Seq(EventRecord), feed' = feed \o events,
           \A k \in 1..Len(events) : IsTrue(events[k])',
           \A k \in 1..Len(queue') : queue'[k] \in handled' \ ran' /\ Is(queue'[k], "prompt"),
           \A k, l \in 1..Len(queue') : queue'[k] = queue'[l] => k = l
    PROVE  Records'
<1>1. feed \in Seq(EventRecord)
  BY DEF IntentsTypeOK, EventRecord
<1>2. ASSUME NEW k \in 1..Len(feed')
      PROVE  IsTrue(feed[k])'
  <2>1. CASE \E l \in 1..Len(feed) : feed'[k] = feed[l]
    <3>1. PICK l \in 1..Len(feed) : feed'[k] = feed[l]
      BY <2>1
    <3>2. IsTrue(feed[l])
      BY DEF Order, Records
    <3>3. handled \subseteq Id
      BY DEF IntentsTypeOK
    <3>. QED  BY <3>1, <3>2, <3>3 DEF IsTrue, RunEvents, PromptEvents, Is
  <2>2. CASE \E l \in 1..Len(events) : feed'[k] = events[l]
    BY <2>2 DEF IsTrue, Withdrawn, InQueue, Is
  <2>. QED  BY <1>1, <2>1, <2>2, Written
<1>. QED  BY <1>2 DEF Records, Is

\* A step of the runtime that takes a request at most and keeps its record.
LEMMA RuntimeOrder ==
    ASSUME IntentsTypeOK, Order, Records',
           UNCHANGED clientVars,
           \A j \in Id :
              /\ net[j].at = "none" => net'[j].at = "none"
              /\ net'[j].at = "request" => net[j].at = "request"
              /\ net'[j].at \in {"request", "refused"} => j \notin handled'
              /\ j \in handled' \ handled => net[j].at = "request",
           handled \subseteq handled', ran \subseteq ran',
           \A p \in Id : Withdrawn(p) => Withdrawn(p)'
    PROVE  Order'
<1>1. UNCHANGED <<intent, born, creation, step, inFlight>>
  BY DEF clientVars
<1>2. \A j \in Id : Touched(j)' => Touched(j)
  BY <1>1 DEF Touched
<1>3. \A j \in Id : Under(j)' => Under(j)
  BY <1>1 DEF Under, Here, Is
<1>4. Births'
  BY <1>1, <1>2 DEF Order, Births, Is, Ready
<1>5. InOrder'
  BY <1>1, <1>2, <1>3 DEF Order, InOrder, Here, Dispatchable
<1>6. Requests'
  <2>1. ASSUME NEW j \in Id, step[j] \in {"prepare", "target"}
        PROVE  net'[j].at = "none" /\ j \notin handled'
    BY <2>1 DEF Order, Requests
  <2>2. ASSUME NEW j \in Id, Is(j, "prompt"), Here(j), net'[j].at = "request"
        PROVE  intent[j].status \in {"dispatching", "unknown_after_dispatch"}
    BY <2>2 DEF Order, Requests
  <2>. QED  BY <1>1, <2>1, <2>2 DEF Requests, Is, Here
<1>7. Finals'
  <2>1. ASSUME NEW j \in Id, intent[j].status = "failed_before_dispatch"
        PROVE  j \notin handled'
    <3>1. intent[j] \in Intent
      BY DEF IntentsTypeOK
    <3>2. Is(j, "prompt") /\ Here(j)
      BY <2>1, <3>1, EntryStatus DEF Is, Here, Kinds, OtherStatus
    <3>. QED  BY <2>1, <3>2 DEF Order, Requests, Finals, FinalStatesAreTrue
  <2>2. ASSUME NEW j \in Id, intent[j].status = "cancelled"
        PROVE  Withdrawn(j)'
    BY <2>2 DEF Order, Finals
  <2>3. ASSUME NEW j \in Id, intent[j].status = "echoed_tombstone"
        PROVE  j \in ran'
    BY <2>3 DEF Order, Finals, FinalStatesAreTrue
  <2>. QED  BY <1>1, <2>1, <2>2, <2>3 DEF Finals, FinalStatesAreTrue, Withdrawn
<1>. QED  BY <1>4, <1>5, <1>6, <1>7 DEF Order

\* The fate of a request that the runtime refuses or that is lost.
LEMMA LostOrder ==
    ASSUME IntentsTypeOK, Order, NEW i \in Id, Refuse(i) \/ Vanish(i)
    PROVE  Order'
<1>1. UNCHANGED <<clientVars, handled, ran, queue, feed, intent>> /\ net[i].at = "request"
  BY DEF Refuse, Vanish, serverVars, clientVars
<1>2. net \in [Id -> [at : Answers \union {"none", "request"}, live : Config]]
  BY DEF IntentsTypeOK
<1>3. /\ net'[i].at \in {"none", "refused"}
      /\ \A j \in Id : j # i => net'[j] = net[j]
  <2>1. CASE Refuse(i)
    BY <2>1, <1>2 DEF Refuse
  <2>2. CASE Vanish(i)
    BY <2>2, <1>2 DEF Vanish, Quiet
  <2>. QED  BY <2>1, <2>2
<1>4. ASSUME NEW j \in Id
      PROVE  /\ net[j].at = "none" => net'[j].at = "none"
             /\ net'[j].at = "request" => net[j].at = "request"
             /\ net'[j].at \in {"request", "refused"} => j \notin handled'
  <2>1. CASE j = i
    BY <2>1, <1>1, <1>3 DEF Order, Requests
  <2>2. CASE j # i
    BY <2>2, <1>1, <1>3 DEF Order, Requests
  <2>. QED  BY <2>1, <2>2
<1>5. \A p \in Id : Withdrawn(p)' <=> Withdrawn(p)
  BY <1>1 DEF Withdrawn, InQueue
<1>6. Records'
  <2>1. ASSUME NEW k \in 1..Len(feed)
        PROVE  IsTrue(feed[k])'
    <3>1. IsTrue(feed[k])
      BY DEF Order, Records
    <3>2. handled \subseteq Id
      BY DEF IntentsTypeOK
    <3>. QED  BY <3>1, <3>2, <1>1, <1>5 DEF IsTrue, RunEvents, PromptEvents, Is
  <2>. QED  BY <2>1, <1>1 DEF Order, Records, Is
<1>. QED  BY <1>1, <1>4, <1>5, <1>6, RuntimeOrder

\* Whatever kind of request the runtime takes, it takes it once.
LEMMA TakenOrder ==
    ASSUME IntentsTypeOK, Order, NEW i \in Id,
           net[i].at = "request", handled' = handled \union {i}, UNCHANGED clientVars,
           NEW answer \in {"running", "queued", "done", "missing"}, Answer(i, answer),
           ran \subseteq ran', ran' \subseteq ran \union {i},
           \A p \in Id : InQueue(p)' => InQueue(p) \/ p = i,
           NEW events \in Seq(EventRecord), feed' = feed \o events,
           \A k \in 1..Len(events) : IsTrue(events[k])',
           \A k \in 1..Len(queue') : queue'[k] \in handled' \ ran' /\ Is(queue'[k], "prompt"),
           \A k, l \in 1..Len(queue') : queue'[k] = queue'[l] => k = l
    PROVE  Order'
<1>1. i \notin handled /\ ran' \subseteq handled'
  BY DEF Order, Requests, Records
<1>2. net \in [Id -> [at : Answers \union {"none", "request"}, live : Config]]
  BY DEF IntentsTypeOK
<1>3. /\ net'[i].at \notin {"request", "refused"}
      /\ \A j \in Id : j # i => net'[j] = net[j]
  BY <1>2 DEF Answer, Quiet
<1>4. ASSUME NEW j \in Id
      PROVE  /\ net[j].at = "none" => net'[j].at = "none"
             /\ net'[j].at = "request" => net[j].at = "request"
             /\ net'[j].at \in {"request", "refused"} => j \notin handled'
             /\ j \in handled' \ handled => net[j].at = "request"
  <2>1. CASE j = i
    BY <2>1, <1>3
  <2>2. CASE j # i
    BY <2>2, <1>3 DEF Order, Requests
  <2>. QED  BY <2>1, <2>2
<1>5. ASSUME NEW p \in Id, Withdrawn(p)
      PROVE  Withdrawn(p)'
  BY <1>1, <1>5 DEF Withdrawn
<1>6. UNCHANGED intent
  BY DEF clientVars
<1>7. Records'
  BY <1>1, <1>5, <1>6, RecordStep
<1>. QED  BY <1>4, <1>5, <1>7, RuntimeOrder

LEMMA EventFacts ==
    /\ NoConfig \in Config
    /\ \A type \in EventType, id \in 0..MaxIntents :
          /\ Event(type, id) \in EventRecord
          /\ Event(type, id).type = type /\ Event(type, id).id = id
    /\ \A c \in Config :
          /\ ConfigEvent(c) \in EventRecord
          /\ ConfigEvent(c).type = "config_option_update"
<1>1. NoConfig \in Config
  BY DEF NoConfig, Config
<1>2. 0 \in 0..MaxIntents
  BY IntentsAssumption
<1>. QED  BY <1>1, <1>2 DEF Event, ConfigEvent, EventRecord, EventType

LEMMA HandlePromptOrder ==
    ASSUME IntentsTypeOK, Order, NEW i \in Id, net[i].at = "request",
           handled' = handled \union {i}, UNCHANGED clientVars, HandlePrompt(i)
    PROVE  Order'
<1>0. /\ i \notin handled /\ ran \subseteq handled /\ Is(i, "prompt") /\ Is(i, "prompt")'
      /\ UNCHANGED intent
      /\ i \in 0..MaxIntents /\ queue \in Seq(Id)
  BY DEF Order, Requests, Records, HandlePrompt, clientVars, Is, Id, IntentsTypeOK
<1>1. CASE turn = 0 /\ queue = <<>>
  <2>1. ran' = ran \union {i} /\ queue' = queue /\ Answer(i, "running")
    BY <1>1 DEF HandlePrompt
  <2>. DEFINE e == Event("item_completed", i)
  <2>2. e \in EventRecord /\ e.type = "item_completed" /\ e.id = i
    BY <1>0, EventFacts DEF EventType
  <2>0. feed' = feed \o <<e>>
    BY <1>1 DEF HandlePrompt, Writes
  <2>. HIDE DEF e
  <2>3. ASSUME NEW k \in 1..Len(<<e>>)
        PROVE  IsTrue(<<e>>[k])'
    <3>1. <<e>>[k] = e
      OBVIOUS
    <3>2. IsTrue(e)'
      BY <1>0, <2>1, <2>2 DEF IsTrue, RunEvents, PromptEvents
    <3>. QED  BY <3>1, <3>2 DEF IsTrue, Withdrawn, InQueue, Is
  <2>4. \A p \in Id : InQueue(p)' => InQueue(p)
    BY <2>1 DEF InQueue
  <2>5. \A k \in 1..Len(queue') : queue'[k] \in handled' \ ran' /\ Is(queue'[k], "prompt")
    BY <1>0, <2>1 DEF Order, Records
  <2>6. \A k, l \in 1..Len(queue') : queue'[k] = queue'[l] => k = l
    BY <2>1 DEF Order, Records
  <2>7. <<e>> \in Seq(EventRecord)
    BY <2>2
  <2>. QED  BY <2>0, <2>1, <2>2, <2>3, <2>4, <2>5, <2>6, <2>7, TakenOrder
<1>2. CASE ~ (turn = 0 /\ queue = <<>>)
  <2>1. ran' = ran /\ queue' = Append(queue, i) /\ Answer(i, "queued")
    BY <1>2 DEF HandlePrompt
  <2>. DEFINE e == Event("pending_prompt_added", i)
  <2>2. e \in EventRecord /\ e.type = "pending_prompt_added" /\ e.id = i
    BY <1>0, EventFacts DEF EventType
  <2>0. feed' = feed \o <<e>>
    BY <1>2 DEF HandlePrompt, Writes
  <2>. HIDE DEF e
  <2>3. ASSUME NEW k \in 1..Len(<<e>>)
        PROVE  IsTrue(<<e>>[k])'
    <3>1. <<e>>[k] = e
      OBVIOUS
    <3>2. IsTrue(e)'
      BY <1>0, <2>1, <2>2 DEF IsTrue, RunEvents, PromptEvents
    <3>. QED  BY <3>1, <3>2 DEF IsTrue, Withdrawn, InQueue, Is
  <2>4. /\ Len(queue') = Len(queue) + 1 /\ Len(queue) \in Nat
        /\ \A k \in 1..Len(queue) : queue'[k] = queue[k]
        /\ queue'[Len(queue) + 1] = i
    BY <1>0, <2>1, AppendProperties, LenProperties
  <2>5. \A k \in 1..Len(queue') : \/ k \in 1..Len(queue) /\ queue'[k] = queue[k]
                                  \/ k = Len(queue) + 1 /\ queue'[k] = i
    BY <2>4
  <2>6. \A p \in Id : InQueue(p)' => InQueue(p) \/ p = i
    BY <2>5 DEF InQueue
  <2>7. \A k \in 1..Len(queue') : queue'[k] \in handled' \ ran' /\ Is(queue'[k], "prompt")
    BY <1>0, <2>1, <2>5 DEF Order, Records
  <2>8. \A k, l \in 1..Len(queue') : queue'[k] = queue'[l] => k = l
    BY <1>0, <2>5 DEF Order, Records
  <2>9. <<e>> \in Seq(EventRecord)
    BY <2>2
  <2>. QED  BY <2>0, <2>1, <2>2, <2>3, <2>6, <2>7, <2>8, <2>9, TakenOrder
<1>. QED  BY <1>1, <1>2

\* What is announced of the config, and what the feed gets of it.
LEMMA Announced ==
    ASSUME IntentsTypeOK, config' \in Config
    PROVE  /\ ConfigAnnouncement \in Seq(EventRecord)
           /\ \A k \in 1..Len(ConfigAnnouncement) :
                 ConfigAnnouncement[k].type = "config_option_update"
<1>1. CASE config' = config
  BY <1>1 DEF ConfigAnnouncement
<1>2. CASE config' # config
  <2>. DEFINE e == ConfigEvent(config')
  <2>1. e \in EventRecord /\ e.type = "config_option_update"
    BY EventFacts
  <2>2. ConfigAnnouncement = <<e>>
    BY <1>2 DEF ConfigAnnouncement
  <2>. HIDE DEF e
  <2>. QED  BY <2>1, <2>2
<1>. QED  BY <1>1, <1>2

LEMMA Configured ==
    ASSUME IntentsTypeOK, NEW v \in Value, Configure(v)
    PROVE  config' \in Config
BY DEF Configure, Config, IntentsTypeOK

\* A request is taken that is not about the runtime's queue.
LEMMA AsideOrder ==
    ASSUME IntentsTypeOK, Order, NEW i \in Id, net[i].at = "request",
           handled' = handled \union {i}, UNCHANGED <<clientVars, ran, queue>>,
           NEW answer \in {"running", "queued", "done", "missing"}, Answer(i, answer),
           NEW events \in Seq(EventRecord), feed' = feed \o events,
           \A k \in 1..Len(events) : events[k].type \notin PromptEvents
    PROVE  Order'
<1>1. \A p \in Id : InQueue(p)' => InQueue(p)
  BY DEF InQueue
<1>2. i \notin handled /\ UNCHANGED intent
  BY DEF Order, Requests, clientVars
<1>3. \A k \in 1..Len(queue') : queue'[k] \in handled' \ ran' /\ Is(queue'[k], "prompt")
  BY <1>2 DEF Order, Records
<1>4. \A k, l \in 1..Len(queue') : queue'[k] = queue'[l] => k = l
  BY DEF Order, Records
<1>5. \A k \in 1..Len(events) : IsTrue(events[k])'
  BY DEF IsTrue, PromptEvents, RunEvents
<1>. QED  BY <1>1, <1>3, <1>4, <1>5, TakenOrder

LEMMA HandleOtherOrder ==
    ASSUME IntentsTypeOK, Order, NEW i \in Id, net[i].at = "request",
           handled' = handled \union {i}, UNCHANGED clientVars,
           HandleConfig(i) \/ HandleResolve(i)
    PROVE  Order'
<1>0. feed \in Seq(EventRecord) /\ feed \o <<>> = feed /\ <<>> \in Seq(EventRecord)
  BY ConcatEmptySeq DEF IntentsTypeOK, EventRecord
<1>1. CASE HandleConfig(i)
  <2>1. UNCHANGED <<ran, queue>>
    BY <1>1 DEF HandleConfig
  <2>2. CASE turn = 0
    <3>1. intent[i].value \in Value
      BY <1>1, EntryStatus DEF HandleConfig, Is, IntentsTypeOK
    <3>2. Configure(intent[i].value) /\ feed' = feed \o ConfigAnnouncement /\ Answer(i, "done")
      BY <1>1, <2>2 DEF HandleConfig, Writes
    <3>3. config' \in Config
      BY <3>1, <3>2, Configured
    <3>4. PICK events \in Seq(EventRecord) :
             events = ConfigAnnouncement
      BY <3>3, Announced
    <3>5. \A k \in 1..Len(events) : events[k].type \notin PromptEvents
      BY <3>3, <3>4, Announced DEF PromptEvents, RunEvents
    <3>. QED  BY <2>1, <3>2, <3>4, <3>5, AsideOrder
  <2>3. CASE turn # 0
    <3>1. UNCHANGED feed /\ Answer(i, "queued")
      BY <1>1, <2>3 DEF HandleConfig
    <3>2. feed' = feed \o <<>> /\ \A k \in 1..Len(<<>>) : <<>>[k].type \notin PromptEvents
      BY <3>1, <1>0
    <3>. QED  BY <1>0, <2>1, <3>1, <3>2, AsideOrder
  <2>. QED  BY <2>2, <2>3
<1>2. CASE HandleResolve(i)
  <2>1. UNCHANGED <<ran, queue>>
    BY <1>2 DEF HandleResolve
  <2>2. CASE ask = "open"
    <3>. DEFINE e == Event("interaction_resolved", 0)
    <3>1. 0 \in 0..MaxIntents
      BY IntentsAssumption
    <3>2. e \in EventRecord /\ e.type = "interaction_resolved"
      BY <3>1, EventFacts DEF EventType
    <3>3. feed' = feed \o <<e>> /\ Answer(i, "done")
      BY <1>2, <2>2 DEF HandleResolve, Writes
    <3>. HIDE DEF e
    <3>4. <<e>> \in Seq(EventRecord) /\ \A k \in 1..Len(<<e>>) : <<e>>[k].type \notin PromptEvents
      BY <3>2 DEF PromptEvents, RunEvents
    <3>. QED  BY <2>1, <3>3, <3>4, AsideOrder
  <2>3. CASE ask # "open"
    <3>1. UNCHANGED feed /\ Answer(i, "missing")
      BY <1>2, <2>3 DEF HandleResolve
    <3>2. feed' = feed \o <<>> /\ \A k \in 1..Len(<<>>) : <<>>[k].type \notin PromptEvents
      BY <3>1, <1>0
    <3>. QED  BY <1>0, <2>1, <3>1, <3>2, AsideOrder
  <2>. QED  BY <2>2, <2>3
<1>. QED  BY <1>1, <1>2

LEMMA HandleMutationOrder ==
    ASSUME IntentsTypeOK, Order, NEW i \in Id, net[i].at = "request",
           handled' = handled \union {i}, UNCHANGED clientVars, HandleMutation(i)
    PROVE  Order'
<1>0. /\ feed \in Seq(EventRecord) /\ feed \o <<>> = feed /\ <<>> \in Seq(EventRecord)
      /\ queue \in Seq(Id) /\ ran' = ran /\ UNCHANGED intent
  BY ConcatEmptySeq DEF IntentsTypeOK, EventRecord, HandleMutation, clientVars
<1>1. CASE ~ InQueue(intent[i].of)
  <2>1. UNCHANGED <<queue, feed>> /\ Answer(i, "missing")
    BY <1>1 DEF HandleMutation
  <2>2. feed' = feed \o <<>> /\ \A k \in 1..Len(<<>>) : <<>>[k].type \notin PromptEvents
    BY <2>1, <1>0
  <2>. QED  BY <1>0, <2>1, <2>2, AsideOrder
<1>2. CASE InQueue(intent[i].of)
  <2>0. PICK p \in Id : p = intent[i].of /\ InQueue(p)
    BY <1>0, <1>2 DEF InQueue
  <2>1. /\ p \in Id /\ p \in 0..MaxIntents /\ p \in handled /\ p \notin ran /\ Is(p, "prompt")
    <3>1. PICK k \in 1..Len(queue) : queue[k] = p
      BY <2>0 DEF InQueue
    <3>. QED  BY <3>1, <1>0, IntentsAssumption DEF Order, Records, Id
  <2>2. i \notin handled /\ Answer(i, "done")
    BY <1>2 DEF Order, Requests, HandleMutation
  <2>3. CASE Is(i, "delete")
    <3>. DEFINE e == Event("pending_prompt_removed:deleted", p)
    <3>1. e \in EventRecord /\ e.type = "pending_prompt_removed:deleted" /\ e.id = p
      BY <2>1, EventFacts DEF EventType
    <3>2. feed' = feed \o <<e>> /\ queue' = Without(p)
      BY <2>0, <1>2, <2>3 DEF HandleMutation, Writes
    <3>. HIDE DEF e
    <3>3. \A k \in 1..Len(queue') :
             \E l \in 1..Len(queue) :
                /\ queue'[k] = queue[l] /\ l # Place(p)
                /\ l = IF k < Place(p) THEN k ELSE k + 1
      <4>1. Len(queue) \in Nat
        BY <1>0, LenProperties
      <4>2. PICK n \in 1..Len(queue) : n = Place(p)
        BY <1>0, <2>0, QueueWithout
      <4>3. /\ Len(queue') = Len(queue) - 1
            /\ \A k \in 1..Len(queue') : queue'[k] = IF k < n THEN queue[k] ELSE queue[k + 1]
        BY <1>0, <2>0, <3>2, <4>2, QueueWithout
      <4>4. SUFFICES ASSUME NEW k \in 1..Len(queue')
                     PROVE  \E l \in 1..Len(queue) :
                               /\ queue'[k] = queue[l] /\ l # n
                               /\ l = IF k < n THEN k ELSE k + 1
        BY <4>2
      <4>5. k \in 1..Len(queue) /\ k + 1 \in 1..Len(queue)
        BY <4>1, <4>3
      <4>6. CASE k < n
        BY <4>3, <4>5, <4>6
      <4>7. CASE ~ (k < n)
        BY <4>3, <4>5, <4>7
      <4>. QED  BY <4>6, <4>7
    <3>4. queue[Place(p)] = p /\ Place(p) \in 1..Len(queue)
      BY <1>0, <2>0, QueueWithout
    <3>5. \A k \in 1..Len(queue') : queue'[k] # p
      BY <3>3, <3>4 DEF Order, Records
    <3>6. \A q \in Id : InQueue(q)' => InQueue(q)
      BY <3>3 DEF InQueue
    <3>7. \A k \in 1..Len(queue') : queue'[k] \in handled' \ ran' /\ Is(queue'[k], "prompt")
      BY <1>0, <2>2, <3>3 DEF Order, Records
    <3>8. ASSUME NEW k \in 1..Len(queue'), NEW l \in 1..Len(queue'), queue'[k] = queue'[l]
          PROVE  k = l
      <4>1. PICK kk \in 1..Len(queue) :
               queue'[k] = queue[kk] /\ kk = IF k < Place(p) THEN k ELSE k + 1
        BY <3>3
      <4>2. PICK ll \in 1..Len(queue) :
               queue'[l] = queue[ll] /\ ll = IF l < Place(p) THEN l ELSE l + 1
        BY <3>3
      <4>3. kk = ll
        BY <3>8, <4>1, <4>2 DEF Order, Records
      <4>4. k \in Nat /\ l \in Nat /\ Place(p) \in Nat
        BY <3>4
      <4>. QED  BY <4>1, <4>2, <4>3, <4>4
    <3>9. IsTrue(e)'
      BY <1>0, <2>1, <3>1, <3>5 DEF IsTrue, PromptEvents, RunEvents, Withdrawn, InQueue, Is
    <3>10. /\ <<e>> \in Seq(EventRecord)
           /\ \A k \in 1..Len(<<e>>) : IsTrue(<<e>>[k])'
      <4>1. ASSUME NEW k \in 1..Len(<<e>>)
            PROVE  IsTrue(<<e>>[k])'
        <5>1. <<e>>[k] = e
          OBVIOUS
        <5>. QED  BY <5>1, <3>9 DEF IsTrue, Withdrawn, InQueue, Is
      <4>. QED  BY <4>1, <3>1
    <3>. QED  BY <1>0, <2>2, <3>2, <3>6, <3>7, <3>8, <3>10, TakenOrder
  <2>4. CASE ~ Is(i, "delete")
    <3>. DEFINE e == Event("pending_prompt_updated", p)
    <3>1. e \in EventRecord /\ e.type = "pending_prompt_updated" /\ e.id = p
      BY <2>1, EventFacts DEF EventType
    <3>2. feed' = feed \o <<e>> /\ queue' = queue
      BY <2>0, <1>2, <2>4 DEF HandleMutation, Writes
    <3>. HIDE DEF e
    <3>3. \A q \in Id : InQueue(q)' => InQueue(q)
      BY <3>2 DEF InQueue
    <3>4. \A k \in 1..Len(queue') : queue'[k] \in handled' \ ran' /\ Is(queue'[k], "prompt")
      BY <1>0, <2>2, <3>2 DEF Order, Records
    <3>5. \A k, l \in 1..Len(queue') : queue'[k] = queue'[l] => k = l
      BY <3>2 DEF Order, Records
    <3>6. IsTrue(e)'
      BY <1>0, <2>1, <3>1 DEF IsTrue, PromptEvents, RunEvents, Is
    <3>7. /\ <<e>> \in Seq(EventRecord)
          /\ \A k \in 1..Len(<<e>>) : IsTrue(<<e>>[k])'
      <4>1. ASSUME NEW k \in 1..Len(<<e>>)
            PROVE  IsTrue(<<e>>[k])'
        <5>1. <<e>>[k] = e
          OBVIOUS
        <5>. QED  BY <5>1, <3>6 DEF IsTrue, Withdrawn, InQueue, Is
      <4>. QED  BY <4>1, <3>1
    <3>. QED  BY <1>0, <2>2, <3>2, <3>3, <3>4, <3>5, <3>7, TakenOrder
  <2>. QED  BY <2>3, <2>4
<1>. QED  BY <1>1, <1>2

LEMMA HandleOrder ==
    ASSUME IntentsTypeOK, Order, NEW i \in Id, Handle(i)
    PROVE  Order'
<1>1. net[i].at = "request" /\ handled' = handled \union {i} /\ UNCHANGED clientVars
  BY DEF Handle, RuntimeStep
<1>. QED  BY <1>1, HandlePromptOrder, HandleOtherOrder, HandleMutationOrder DEF Handle

LEMMA AskOrder ==
    ASSUME IntentsTypeOK, Order, Ask
    PROVE  Order'
<1>. DEFINE e == Event("interaction_requested", 0)
<1>1. 0 \in 0..MaxIntents
  BY IntentsAssumption
<1>2. e \in EventRecord /\ e.type = "interaction_requested"
  BY <1>1, EventFacts DEF EventType
<1>3. feed' = feed \o <<e>> /\ UNCHANGED <<clientVars, intent, net, queue, handled, ran>>
  BY DEF Ask, Writes, RuntimeStep, clientVars
<1>. HIDE DEF e
<1>4. \A p \in Id : Withdrawn(p) => Withdrawn(p)'
  BY <1>3 DEF Withdrawn, InQueue
<1>5. <<e>> \in Seq(EventRecord) /\ \A k \in 1..Len(<<e>>) : IsTrue(<<e>>[k])'
  BY <1>2 DEF IsTrue, PromptEvents, RunEvents
<1>6. /\ \A k \in 1..Len(queue') : queue'[k] \in handled' \ ran' /\ Is(queue'[k], "prompt")
      /\ \A k, l \in 1..Len(queue') : queue'[k] = queue'[l] => k = l
      /\ ran' \subseteq handled'
  BY <1>3 DEF Order, Records
<1>7. Records'
  BY <1>3, <1>4, <1>5, <1>6, RecordStep
<1>. QED  BY <1>3, <1>4, <1>7, RuntimeOrder DEF Order, Requests

LEMMA EndTurnOrder ==
    ASSUME IntentsTypeOK, Order, EndTurn, config' \in Config
    PROVE  Order'
<1>1. PICK announced \in Seq(EventRecord) :
         /\ announced = ConfigAnnouncement
         /\ \A k \in 1..Len(announced) : announced[k].type = "config_option_update"
  BY Announced
<1>2. /\ UNCHANGED <<clientVars, intent, net, handled, queue, ran>>
      /\ feed' = feed \o announced
  BY <1>1 DEF EndTurn, RuntimeStep, clientVars, Writes
<1>3. \A p \in Id : Withdrawn(p) => Withdrawn(p)'
  BY <1>2 DEF Withdrawn, InQueue
<1>4. \A k \in 1..Len(announced) : IsTrue(announced[k])'
  BY <1>1 DEF IsTrue, PromptEvents, RunEvents
<1>5. /\ \A k \in 1..Len(queue') : queue'[k] \in handled' \ ran' /\ Is(queue'[k], "prompt")
      /\ \A k, l \in 1..Len(queue') : queue'[k] = queue'[l] => k = l
      /\ ran' \subseteq handled'
  BY <1>2 DEF Order, Records
<1>6. Records'
  BY <1>2, <1>3, <1>4, <1>5, RecordStep
<1>. QED  BY <1>2, <1>3, <1>6, RuntimeOrder DEF Order, Requests

\* The head of the queue, q, is run.
LEMMA DrainOrder ==
    ASSUME IntentsTypeOK, Order, DrainQueue
    PROVE  Order'
<1>0. /\ queue \in Seq(Id) /\ queue # <<>>
      /\ UNCHANGED <<clientVars, intent, net, handled>>
  BY DEF DrainQueue, RuntimeStep, clientVars, IntentsTypeOK
<1>1. PICK q \in Id : q = Head(queue)
  BY <1>0
<1>2. /\ Len(queue) \in Nat \ {0} /\ queue[1] = q
      /\ Len(Tail(queue)) = Len(queue) - 1
      /\ \A k \in 1..Len(queue) - 1 : Tail(queue)[k] = queue[k + 1]
  BY <1>0, <1>1, HeadTailProperties, LenProperties
<1>3. q \in handled /\ q \notin ran /\ Is(q, "prompt") /\ InQueue(q)
  BY <1>2 DEF Order, Records, InQueue
<1>. DEFINE e == Event("item_completed", q)
            f == Event("pending_prompt_removed:executed", q)
<1>4. /\ e \in EventRecord /\ e.type = "item_completed" /\ e.id = q
      /\ f \in EventRecord /\ f.type = "pending_prompt_removed:executed" /\ f.id = q
  <2>1. q \in 0..MaxIntents
    BY DEF Id
  <2>. QED  BY <2>1, EventFacts DEF EventType
<1>5. /\ feed' = feed \o <<e, f>>
      /\ queue' = Tail(queue) /\ ran' = ran \union {q}
  BY <1>1 DEF DrainQueue, Writes
<1>. HIDE DEF e, f
<1>6. <<e, f>> \in Seq(EventRecord)
  BY <1>4
<1>8. Len(queue') = Len(queue) - 1 /\ \A k \in 1..Len(queue') : queue'[k] = queue[k + 1]
  BY <1>2, <1>5
<1>9. \A k \in 1..Len(queue') : k + 1 \in 1..Len(queue) /\ k + 1 # 1
  BY <1>2, <1>8
<1>10. \A k \in 1..Len(queue') : queue'[k] \in handled' \ ran' /\ Is(queue'[k], "prompt")
  <2>1. ASSUME NEW k \in 1..Len(queue')
        PROVE  queue'[k] \in handled \ ran /\ queue'[k] # q /\ Is(queue'[k], "prompt")
    <3>1. 1 \in 1..Len(queue)
      BY <1>2
    <3>. QED  BY <3>1, <1>2, <1>8, <1>9 DEF Order, Records
  <2>. QED  BY <2>1, <1>0, <1>5
<1>11. \A k, l \in 1..Len(queue') : queue'[k] = queue'[l] => k = l
  BY <1>2, <1>8, <1>9 DEF Order, Records
<1>12. \A p \in Id : Withdrawn(p) => Withdrawn(p)'
  <2>1. \A p \in Id : InQueue(p)' => InQueue(p)
    BY <1>8, <1>9 DEF InQueue
  <2>. QED  BY <2>1, <1>0, <1>3, <1>5 DEF Withdrawn
<1>13. IsTrue(e)' /\ IsTrue(f)'
  BY <1>0, <1>3, <1>4, <1>5 DEF IsTrue, PromptEvents, RunEvents, Is
<1>14. ASSUME NEW k \in 1..Len(<<e, f>>)
       PROVE  IsTrue(<<e, f>>[k])'
  <2>1. <<e, f>>[k] \in {e, f}
    OBVIOUS
  <2>. QED  BY <2>1, <1>13 DEF IsTrue, Withdrawn, InQueue, Is
<1>15. ran' \subseteq handled'
  BY <1>0, <1>3, <1>5 DEF Order, Records
<1>16. Records'
  BY <1>0, <1>5, <1>6, <1>10, <1>11, <1>12, <1>14, <1>15, RecordStep
<1>. QED  BY <1>0, <1>5, <1>12, <1>16, RuntimeOrder DEF Order, Requests

-----------------------------------------------------------------------------
(***************************************************************************)
(* The steps of the user, of the creation and of the stream.               *)
(***************************************************************************)
Frame == UNCHANGED <<step, net, inFlight, handled, ran, queue>>

\* Statuses change as they may, and only without a session does anything
\* come to wait again.
LEMMA StatusOrder ==
    ASSUME IntentsTypeOK, Order, Frame, born' = born, Ready => Ready',
           \A k \in 1..Len(feed') : \E l \in 1..Len(feed) : feed'[k] = feed[l],
           \A j \in Id :
              /\ intent'[j].kind = intent[j].kind
              /\ \/ intent'[j].status = intent[j].status
                 \/ /\ Here(j) /\ Fits(j, intent'[j].status)
                    /\ ~ Ready \/ intent'[j].status \notin {"waiting_for_session", "queued"}
    PROVE  Order'
<1>1. \A j \in Id : Is(j, "none")' <=> j > born'
  BY DEF Order, Births, Is
<1>2. born' \in Nat /\ born <= born'
  BY DEF IntentsTypeOK
<1>3. ASSUME NEW j \in Id
      PROVE  /\ Here(j)' => Here(j)
             /\ Dispatchable(j)' => Dispatchable(j) \/ ~ Ready
  BY DEF Here, Dispatchable
<1>. QED  BY <1>1, <1>2, <1>3, StoreStep DEF Frame

LEMMA PatchOrder ==
    ASSUME IntentsTypeOK, Order, Frame, born' = born, Ready => Ready',
           \A k \in 1..Len(feed') : \E l \in 1..Len(feed) : feed'[k] = feed[l],
           NEW i \in Id, NEW s, s \notin {"waiting_for_session", "queued"}, Fits(i, s),
           intent' = Patched(i, s)
    PROVE  Order'
<1>1. ASSUME NEW j \in Id
      PROVE  /\ intent'[j].kind = intent[j].kind
             /\ \/ intent'[j].status = intent[j].status
                \/ Here(j) /\ Fits(j, intent'[j].status) /\ intent'[j].status = s
  <2>1. /\ intent'[j].kind = intent[j].kind
        /\ intent'[j].status = IF j = i /\ Here(i) THEN s ELSE intent[j].status
    BY PatchedEntry DEF IntentsTypeOK
  <2>2. CASE j = i /\ Here(i)
    BY <2>1, <2>2 DEF Fits, Withdrawn
  <2>3. CASE ~ (j = i /\ Here(i))
    BY <2>1, <2>3
  <2>. QED  BY <2>2, <2>3
<1>. QED  BY <1>1, StatusOrder

\* A new intent is the last of all; another one may go at the same time.
LEMMA AddedOrder ==
    ASSUME IntentsTypeOK, Order, Frame, UNCHANGED feed, Ready => Ready',
           born < MaxIntents, born' = born + 1,
           NEW new, new.kind \in Kinds, new.status \in {"waiting_for_session", "queued"},
           NEW n \in Id, n = born + 1, intent'[n] = new,
           \A j \in Id : j # n =>
              /\ intent'[j].kind = intent[j].kind
              /\ intent'[j].status \in {intent[j].status, "absent"}
    PROVE  Order'
<1>0. born \in Nat /\ Id \subseteq Nat
  BY IntentsAssumption DEF IntentsTypeOK, Id
<1>1. ASSUME NEW j \in Id
      PROVE  /\ j <= born => intent'[j].kind = intent[j].kind
             /\ Is(j, "none")' <=> j > born'
             /\ Here(j)' => Here(j) \/ j > born
             /\ Dispatchable(j)' => Dispatchable(j) \/ j > born
             /\ intent'[j].status = intent[j].status \/ Fits(j, intent'[j].status)
  <2>1. CASE j = n
    <3>1. Fits(j, new.status)
      <4>1. j > born /\ ~ Touched(j)
        BY <1>0, <2>1 DEF Order, Births
      <4>2. net[j].at # "request"
        BY <4>1 DEF Touched
      <4>. QED  BY <4>2 DEF Fits
    <3>2. ~ Is(j, "none")'
      BY <2>1 DEF Is, Kinds
    <3>. QED  BY <1>0, <2>1, <3>1, <3>2
  <2>2. CASE j # n
    <3>1. /\ intent'[j].kind = intent[j].kind
          /\ intent'[j].status \in {intent[j].status, "absent"}
      BY <2>2
    <3>2. Is(j, "none")' <=> j > born'
      <4>1. intent[j].kind = "none" <=> j > born
        BY DEF Order, Births, Is
      <4>2. j \in Nat /\ j # born + 1
        BY <1>0, <2>2
      <4>. QED  BY <4>1, <4>2, <3>1, <1>0 DEF Is
    <3>3. intent'[j].status = intent[j].status \/ Fits(j, intent'[j].status)
      BY <3>1 DEF Fits
    <3>. QED  BY <3>1, <3>2, <3>3 DEF Here, Dispatchable
  <2>. QED  BY <2>1, <2>2
<1>2. born' \in Nat /\ born <= born'
  BY <1>0
<1>. QED  BY <1>1, <1>2, StoreStep DEF Frame

LEMMA UserOrder ==
    ASSUME IntentsTypeOK, Order, UserAct
    PROVE  Order'
<1>0. /\ Frame /\ UNCHANGED feed
      /\ \A k \in 1..Len(feed') : \E l \in 1..Len(feed) : feed'[k] = feed[l]
  BY DEF UserAct, SendPrompt, SelectConfig, ResolveInteraction, MutatePending,
         CancelBeforeDispatch, DismissPrompt, RetryPrompt, UserStep, Frame, serverVars
<1>a. /\ intent \in [Id -> Intent] /\ born \in Nat /\ Id = 1..MaxIntents /\ MaxIntents \in Nat
  BY IntentsAssumption DEF IntentsTypeOK, Id
<1>1. ASSUME NEW kind \in Kinds, NEW value, NEW of,
             Add(NewIntent(kind, value, of)), UNCHANGED creation
      PROVE  Order'
  <2>. DEFINE new == NewIntent(kind, value, of)
  <2>1. new.kind = kind /\ new.status \in {"waiting_for_session", "queued"}
    BY DEF NewIntent
  <2>2. /\ born < MaxIntents /\ born' = born + 1 /\ (Ready => Ready')
        /\ intent' = [intent EXCEPT ![born + 1] = new]
    BY <1>1 DEF Add, Ready
  <2>. HIDE DEF new
  <2>3. PICK n \in Id : n = born + 1
    BY <1>a, <2>2
  <2>4. intent'[n] = new /\ \A j \in Id : j # n => intent'[j] = intent[j]
    BY <1>a, <2>2, <2>3
  <2>. QED  BY <1>0, <2>1, <2>2, <2>3, <2>4, AddedOrder
<1>2. CASE SendPrompt
  BY <1>1, <1>2 DEF SendPrompt, Kinds
<1>3. ASSUME NEW v \in Value, SelectConfig(v)
      PROVE  Order'
  <2>1. CASE Add(NewIntent("config", v, 0))
    BY <1>1, <1>3, <2>1 DEF SelectConfig, Kinds
  <2>2. ASSUME NEW i \in Id, Supersede(i, v)
        PROVE  Order'
    <3>1. /\ born' = born /\ (Ready => Ready')
          /\ intent' = [intent EXCEPT ![i].value = v, ![i].gen = @ + 1]
      BY <1>3, <2>2 DEF SelectConfig, Supersede, Ready
    <3>2. ASSUME NEW j \in Id
          PROVE  intent'[j].kind = intent[j].kind /\ intent'[j].status = intent[j].status
      <4>1. intent[j] \in Intent
        BY <1>a
      <4>. QED  BY <1>a, <3>1, <4>1 DEF Intent
    <3>. QED  BY <1>0, <3>1, <3>2, StatusOrder
  <2>. QED  BY <1>3, <2>1, <2>2 DEF SelectConfig
<1>4. CASE ResolveInteraction
  BY <1>1, <1>4 DEF ResolveInteraction, Kinds
<1>5. ASSUME NEW kind \in {"edit", "delete"}, NEW p \in Id, MutatePending(kind, p)
      PROVE  Order'
  BY <1>1, <1>5 DEF MutatePending, Kinds
<1>6. ASSUME NEW i \in Id, CancelBeforeDispatch(i) \/ DismissPrompt(i)
      PROVE  Order'
  <2>1. /\ born' = born /\ (Ready => Ready') /\ intent' = Patched(i, "absent")
    BY <1>6 DEF CancelBeforeDispatch, DismissPrompt, Ready
  <2>2. Fits(i, "absent")
    BY DEF Fits
  <2>. QED  BY <1>0, <2>1, <2>2, PatchOrder
<1>7. ASSUME NEW i \in Id, RetryPrompt(i)
      PROVE  Order'
  <2>. DEFINE new == NewIntent("prompt", NoValue, 0)
  <2>1. /\ born < MaxIntents /\ born' = born + 1
        /\ intent' = [intent EXCEPT ![i].status = "absent", ![born + 1] = new]
    BY <1>7 DEF RetryPrompt
  <2>2. new.kind \in Kinds /\ new.status \in {"waiting_for_session", "queued"}
    BY DEF NewIntent, Kinds
  <2>. HIDE DEF new
  <2>3. Ready => Ready'
    BY <1>7 DEF RetryPrompt, Ready
  <2>4. PICK n \in Id : n = born + 1
    BY <1>a, <2>1
  <2>5. intent'[n] = new
    BY <1>a, <2>1, <2>4
  <2>6. ASSUME NEW j \in Id, j # n
        PROVE  intent'[j].kind = intent[j].kind
               /\ intent'[j].status \in {intent[j].status, "absent"}
    <3>1. intent[j] \in Intent
      BY <1>a
    <3>2. intent'[j] = IF j = i THEN [intent[j] EXCEPT !.status = "absent"] ELSE intent[j]
      BY <1>a, <2>1, <2>4, <2>6
    <3>3. /\ [intent[j] EXCEPT !.status = "absent"].kind = intent[j].kind
          /\ [intent[j] EXCEPT !.status = "absent"].status = "absent"
      BY <3>1 DEF Intent
    <3>4. CASE j = i
      <4>1. intent'[j] = [intent[j] EXCEPT !.status = "absent"]
        BY <3>2, <3>4
      <4>. QED  BY <4>1, <3>3
    <3>5. CASE j # i
      BY <3>2, <3>5
    <3>. QED  BY <3>4, <3>5
  <2>7. born < MaxIntents /\ born' = born + 1
    BY <2>1
  <2>. QED  BY <1>0, <2>7, <2>2, <2>3, <2>4, <2>5, <2>6, AddedOrder
<1>. QED  BY <1>2, <1>3, <1>4, <1>5, <1>6, <1>7 DEF UserAct

LEMMA CreationOrder ==
    ASSUME IntentsTypeOK, Order, CreationAct
    PROVE  Order'
<1>0. /\ Frame /\ born' = born
      /\ \A k \in 1..Len(feed') : \E l \in 1..Len(feed) : feed'[k] = feed[l]
      /\ ~ Ready
  BY DEF CreationAct, BeginCreation, SessionCreated, SessionAdopted, CreationFails,
         CreationStep, Frame, Ready
<1>1. intent \in [Id -> Intent]
  BY DEF IntentsTypeOK
<1>2. ASSUME NEW j \in Id, NEW s, s \notin {"cancelled", "echoed_tombstone"}
      PROVE  Fits(j, s)
  <2>1. ~ Touched(j)
    BY <1>0 DEF Order, Births
  <2>. QED  BY <1>2, <2>1 DEF Fits, Touched
<1>3. CASE BeginCreation
  BY <1>0, <1>3, StatusOrder DEF BeginCreation
<1>4. ASSUME NEW value \in Value, NEW known \in BOOLEAN, NEW offered \in SUBSET Value,
             SessionCreated(value, known, offered)
      PROVE  Order'
  <2>1. ASSUME NEW j \in Id
        PROVE  /\ intent'[j].kind = intent[j].kind
               /\ \/ intent'[j].status = intent[j].status
                  \/ Here(j) /\ intent'[j].status \notin {"cancelled", "echoed_tombstone"}
    <3>1. PICK s \in {intent[j].status, Settled(j, value, offered)} :
             intent'[j] = [intent[j] EXCEPT !.status = Requeued(s)]
      BY <1>4 DEF SessionCreated
    <3>2. intent[j] \in Intent
      BY <1>1
    <3>3. intent'[j].kind = intent[j].kind /\ intent'[j].status = Requeued(s)
      BY <3>1, <3>2 DEF Intent
    <3>. QED  BY <3>3 DEF Requeued, Settled, Here
  <2>2. ASSUME NEW j \in Id
        PROVE  /\ intent'[j].kind = intent[j].kind
               /\ \/ intent'[j].status = intent[j].status
                  \/ Here(j) /\ Fits(j, intent'[j].status)
    BY <2>1, <1>2
  <2>. QED  BY <1>0, <2>2, StatusOrder
<1>5. ASSUME NEW known \in BOOLEAN, NEW offered \in SUBSET Value,
             SessionAdopted(known, offered)
      PROVE  Order'
  <2>1. ASSUME NEW j \in Id
        PROVE  /\ intent'[j].kind = intent[j].kind
               /\ \/ intent'[j].status = intent[j].status
                  \/ Here(j) /\ intent'[j].status \notin {"cancelled", "echoed_tombstone"}
    <3>1. PICK s \in {intent[j].status, Applicable(j, offered)} :
             intent'[j] = [intent[j] EXCEPT !.status = Requeued(s)]
      BY <1>5 DEF SessionAdopted
    <3>2. intent[j] \in Intent
      BY <1>1
    <3>3. intent'[j].kind = intent[j].kind /\ intent'[j].status = Requeued(s)
      BY <3>1, <3>2 DEF Intent
    <3>. QED  BY <3>3 DEF Requeued, Applicable, Here
  <2>2. ASSUME NEW j \in Id
        PROVE  /\ intent'[j].kind = intent[j].kind
               /\ \/ intent'[j].status = intent[j].status
                  \/ Here(j) /\ Fits(j, intent'[j].status)
    BY <2>1, <1>2
  <2>. QED  BY <1>0, <2>2, StatusOrder
<1>6. CASE CreationFails
  <2>1. ASSUME NEW j \in Id
        PROVE  /\ intent'[j].kind = intent[j].kind
               /\ \/ intent'[j].status = intent[j].status
                  \/ Here(j) /\ intent'[j].status \notin {"cancelled", "echoed_tombstone"}
    <3>1. CASE Is(j, "prompt") /\ Here(j)
      <4>1. intent'[j] = [intent[j] EXCEPT !.status = "failed_before_dispatch"]
        BY <1>6, <3>1 DEF CreationFails
      <4>2. intent[j] \in Intent
        BY <1>1
      <4>3. intent'[j].kind = intent[j].kind /\ intent'[j].status = "failed_before_dispatch"
        BY <4>1, <4>2 DEF Intent
      <4>. QED  BY <3>1, <4>3
    <3>2. CASE ~ (Is(j, "prompt") /\ Here(j))
      BY <1>6, <3>2 DEF CreationFails
    <3>. QED  BY <3>1, <3>2
  <2>2. ASSUME NEW j \in Id
        PROVE  /\ intent'[j].kind = intent[j].kind
               /\ \/ intent'[j].status = intent[j].status
                  \/ Here(j) /\ Fits(j, intent'[j].status)
    BY <2>1, <1>2
  <2>. QED  BY <1>0, <2>2, StatusOrder
<1>. QED  BY <1>3, <1>4, <1>5, <1>6 DEF CreationAct

\* Only what was handled and, as the event says, run or withdrawn is marked.
LEMMA DeliverOrder ==
    ASSUME IntentsTypeOK, Order, Deliver
    PROVE  Order'
<1>0. feed \in Seq(EventRecord) /\ feed # <<>>
  BY DEF Deliver, IntentsTypeOK, EventRecord
<1>1. PICK e \in EventRecord : e = Head(feed)
  BY <1>0, HeadTailProperties
<1>2. /\ Len(feed) \in Nat \ {0} /\ feed[1] = e
      /\ Len(Tail(feed)) = Len(feed) - 1
      /\ \A k \in 1..Len(feed) - 1 : Tail(feed)[k] = feed[k + 1]
  BY <1>0, <1>1, HeadTailProperties, LenProperties
<1>3. /\ Frame /\ born' = born /\ (Ready => Ready')
      /\ \A k \in 1..Len(feed') : \E l \in 1..Len(feed) : feed'[k] = feed[l]
  <2>1. Frame /\ born' = born /\ feed' = Tail(feed) /\ (Ready => Ready')
    BY DEF Deliver, Frame, serverVars, Ready
  <2>2. \A k \in 1..Len(feed') : k + 1 \in 1..Len(feed) /\ feed'[k] = feed[k + 1]
    BY <1>2, <2>1
  <2>. QED  BY <2>1, <2>2
<1>4. IsTrue(e)
  <2>1. 1 \in 1..Len(feed)
    BY <1>2
  <2>2. IsTrue(feed[1])
    BY <2>1 DEF Order, Records
  <2>. QED  BY <1>2, <2>2
<1>5. intent' = ReconcileOutboxFromEnvelope(e)
  BY <1>1 DEF Deliver
<1>6. e.type \in PromptEvents => e.id \in Id /\ e.id \in handled /\ Is(e.id, "prompt")
                                /\ net[e.id].at # "request"
  <2>1. handled \subseteq Id
    BY DEF IntentsTypeOK
  <2>2. \A i \in handled : net[i].at # "request"
    BY <2>1 DEF Order, Requests
  <2>. QED  BY <1>4, <2>1, <2>2 DEF IsTrue
<1>7. CASE e.type \in {"pending_prompt_added", "pending_prompt_updated"}
  <2>1. e.id \in Id /\ Fits(e.id, "accepted_queued")
    BY <1>6, <1>7 DEF PromptEvents, Fits
  <2>2. intent' = Patched(e.id, "accepted_queued")
    BY <1>5, <1>7 DEF ReconcileOutboxFromEnvelope
  <2>. QED  BY <1>3, <2>1, <2>2, PatchOrder
<1>8. CASE e.type = "pending_prompt_removed:deleted"
  <2>1. e.id \in Id /\ Fits(e.id, "cancelled")
    BY <1>4, <1>6, <1>8 DEF PromptEvents, Fits, IsTrue
  <2>2. intent' = Patched(e.id, "cancelled")
    BY <1>5, <1>8 DEF ReconcileOutboxFromEnvelope, Removal
  <2>. QED  BY <1>3, <2>1, <2>2, PatchOrder
<1>9. CASE e.type \in RunEvents
  <2>1. e.id \in Id /\ Fits(e.id, "echoed_tombstone")
    BY <1>4, <1>6, <1>9 DEF PromptEvents, Fits, IsTrue
  <2>2. intent' = Patched(e.id, "echoed_tombstone")
    BY <1>5, <1>9 DEF ReconcileOutboxFromEnvelope, Removal, RunEvents
  <2>. QED  BY <1>3, <2>1, <2>2, PatchOrder
<1>10. CASE e.type \in {"config_option_update", "interaction_resolved", "interaction_requested"}
  <2>1. ASSUME NEW j \in Id
        PROVE  /\ intent'[j].kind = intent[j].kind
               /\ \/ intent'[j].status = intent[j].status
                  \/ /\ Here(j) /\ ~ Is(j, "prompt") /\ intent'[j].status = "reconciled"
    <3>1. intent[j] \in Intent
      BY DEF IntentsTypeOK
    <3>2. /\ [intent[j] EXCEPT !.status = "reconciled"].kind = intent[j].kind
          /\ [intent[j] EXCEPT !.status = "reconciled"].status = "reconciled"
      BY <3>1 DEF Intent
    <3>3. \/ intent'[j] = intent[j]
          \/ /\ Reconciles(j, e) \/ (Is(j, "resolve") /\ intent[j].status # "absent")
             /\ intent'[j] = [intent[j] EXCEPT !.status = "reconciled"]
      BY <1>5, <1>10 DEF ReconcileOutboxFromEnvelope
    <3>. QED  BY <3>2, <3>3 DEF Reconciles, Is, Here
  <2>2. ASSUME NEW j \in Id
        PROVE  /\ intent'[j].kind = intent[j].kind
               /\ \/ intent'[j].status = intent[j].status
                  \/ /\ Here(j) /\ Fits(j, intent'[j].status)
                     /\ intent'[j].status = "reconciled"
    BY <2>1 DEF Fits
  <2>. QED  BY <1>3, <2>2, StatusOrder
<1>. QED  BY <1>1, <1>7, <1>8, <1>9, <1>10 DEF EventRecord, EventType, RunEvents

LEMMA StreamOrder ==
    ASSUME IntentsTypeOK, Order, StreamAct
    PROVE  Order'
<1>1. ASSUME NEW i \in Id, PruneEchoedTombstone(i)
      PROVE  Order'
  <2>1. /\ Frame /\ born' = born /\ (Ready => Ready') /\ UNCHANGED feed
        /\ intent' = Patched(i, "absent")
    BY <1>1 DEF PruneEchoedTombstone, Frame, serverVars, Ready
  <2>2. Fits(i, "absent")
    BY DEF Fits
  <2>. QED  BY <2>1, <2>2, PatchOrder
<1>. QED  BY <1>1, DeliverOrder DEF StreamAct

-----------------------------------------------------------------------------
(***************************************************************************)
(* The steps of a dispatch.                                                *)
(***************************************************************************)
\* A dispatch comes to its end, with a status or none for its intent.
LEMMA FinishOrder ==
    ASSUME IntentsTypeOK, Order, NEW i \in Id, step[i] # "none",
           Finished(i), DispatchStep,
           net' = net \/ net' = [net EXCEPT ![i] = Quiet],
           NEW s, intent' = intent \/ intent' = Patched(i, s),
           s \notin {"waiting_for_session", "queued", "cancelled", "echoed_tombstone"},
           s = "failed_before_dispatch" => i \notin handled,
           Is(i, "prompt") /\ net'[i].at = "request" =>
              intent' = Patched(i, s) /\ s \in {"dispatching", "unknown_after_dispatch"}
    PROVE  Order'
<1>0. /\ UNCHANGED <<born, creation, handled, ran, queue, feed>>
      /\ step \in [Id -> {"none", "prepare", "target", "sent"}]
      /\ net \in [Id -> [at : Answers \union {"none", "request"}, live : Config]]
  BY DEF DispatchStep, serverVars, IntentsTypeOK
<1>1. /\ step'[i] = "none"
      /\ inFlight' = inFlight \/ inFlight = i
      /\ \A j \in Id : j # i => step'[j] = step[j]
  BY <1>0 DEF Finished
<1>2. /\ net'[i] = net[i] \/ net'[i].at = "none"
      /\ \A j \in Id : j # i => net'[j] = net[j]
  BY <1>0 DEF Quiet
<1>3. ASSUME NEW j \in Id, j # i
      PROVE  intent'[j] = intent[j]
  BY <1>3 DEF Patched, IntentsTypeOK
<1>4. /\ intent'[i].kind = intent[i].kind
      /\ intent'[i].status = intent[i].status
           \/ (intent' = Patched(i, s) /\ Here(i) /\ intent'[i].status = s)
      /\ Here(i)' => Here(i)
  BY PatchedEntry DEF IntentsTypeOK, Here
<1>5. net'[i].at \in {"request", "refused"} => i \notin handled
  BY <1>2 DEF Order, Requests
<1>6. Is(i, "prompt") /\ Here(i)' /\ net'[i].at = "request" =>
         intent'[i].status \in {"dispatching", "unknown_after_dispatch"}
  <2>1. ASSUME Is(i, "prompt"), Here(i)', net'[i].at = "request"
        PROVE  intent'[i].status = s
    <3>1. Here(i) /\ intent' = Patched(i, s)
      BY <1>4, <2>1
    <3>. QED  BY <3>1, PatchedEntry DEF IntentsTypeOK
  <2>. QED  BY <2>1
<1>7. intent'[i].status = intent[i].status \/
              /\ ~ Dispatchable(i)'
              /\ intent'[i].status = "failed_before_dispatch" => i \notin handled
              /\ intent'[i].status \notin {"cancelled", "echoed_tombstone"}
  BY <1>4 DEF Dispatchable
<1>. QED  BY <1>0, <1>1, <1>2, <1>3, <1>4, <1>5, <1>6, <1>7, ProgressStep

LEMMA PreparedOrder ==
    ASSUME IntentsTypeOK, Order, NEW i \in Id, PromptPrepared(i)
    PROVE  Order'
<1>1. step[i] = "prepare" /\ DispatchStep /\ UNCHANGED <<intent, net>>
  BY DEF PromptPrepared
<1>2. net[i].at = "none" /\ i \notin handled
  BY <1>1 DEF Order, Requests
<1>3. CASE Finished(i)
  <2>1. PICK s : s = "failed"
    OBVIOUS
  <2>. QED  BY <1>1, <1>2, <1>3, <2>1, FinishOrder
<1>4. CASE step' = [step EXCEPT ![i] = "target"] /\ UNCHANGED inFlight
  <2>1. /\ step'[i] = "target" /\ \A j \in Id : j # i => step'[j] = step[j]
    BY <1>4 DEF IntentsTypeOK
  <2>2. UNCHANGED <<born, creation, handled, ran, queue, feed>>
    BY <1>1 DEF DispatchStep, serverVars
  <2>. QED  BY <1>1, <1>2, <1>4, <2>1, <2>2, ProgressStep DEF Here
<1>. QED  BY <1>3, <1>4 DEF PromptPrepared

LEMMA ResolvedOrder ==
    ASSUME IntentsTypeOK, Order, NEW i \in Id, TargetResolved(i)
    PROVE  Order'
<1>1. step[i] = "target" /\ DispatchStep
  BY DEF TargetResolved
<1>2. net[i].at = "none" /\ i \notin handled
  BY <1>1 DEF Order, Requests
<1>3. CASE UNCHANGED <<intent, net>> /\ Finished(i)
  <2>1. PICK s : s = "failed"
    OBVIOUS
  <2>. QED  BY <1>1, <1>2, <1>3, <2>1, FinishOrder
<1>4. CASE /\ intent' = IF Is(i, "prompt") THEN Patched(i, "dispatching") ELSE intent
           /\ step' = [step EXCEPT ![i] = "sent"]
           /\ net' = [net EXCEPT ![i] = [at |-> "request", live |-> NoConfig]]
           /\ UNCHANGED inFlight
  <2>1. /\ step'[i] = "sent" /\ \A j \in Id : j # i => step'[j] = step[j] /\ net'[j] = net[j]
    BY <1>4 DEF IntentsTypeOK
  <2>2. UNCHANGED <<born, creation, handled, ran, queue, feed>>
    BY <1>1 DEF DispatchStep, serverVars
  <2>3. CASE Is(i, "prompt")
    <3>1. intent' = Patched(i, "dispatching")
      BY <1>4, <2>3
    <3>2. /\ intent'[i].kind = intent[i].kind
          /\ intent'[i].status = IF Here(i) THEN "dispatching" ELSE intent[i].status
      BY <3>1, PatchedEntry DEF IntentsTypeOK
    <3>3. ASSUME NEW j \in Id, j # i
          PROVE  intent'[j] = intent[j]
      BY <3>1, <3>3 DEF Patched, IntentsTypeOK
    <3>4. /\ Here(i)' => Here(i) /\ intent'[i].status = "dispatching"
          /\ intent'[i].status = intent[i].status \/
                (~ Dispatchable(i)' /\ intent'[i].status = "dispatching")
      BY <3>2 DEF Here, Dispatchable
    <3>. QED  BY <1>1, <1>2, <1>4, <2>1, <2>2, <3>2, <3>3, <3>4, ProgressStep
  <2>4. CASE ~ Is(i, "prompt")
    <3>1. intent' = intent
      BY <1>4, <2>4
    <3>. QED  BY <1>1, <1>2, <1>4, <2>1, <2>2, <2>4, <3>1, ProgressStep DEF Here
  <2>. QED  BY <2>3, <2>4
<1>. QED  BY <1>3, <1>4 DEF TargetResolved

LEMMA UnsentOrder ==
    ASSUME IntentsTypeOK, Order, NEW i \in Id, UnsentFails(i)
    PROVE  Order'
<1>1. /\ step[i] \in {"prepare", "target"} /\ step[i] # "none"
      /\ DispatchStep /\ Finished(i) /\ net' = net /\ intent' = FailedUnsent(i)
  BY DEF UnsentFails
<1>2. net[i].at = "none" /\ i \notin handled
  BY <1>1 DEF Order, Requests
<1>3. PICK s \in {"failed_before_dispatch", "failed"} : intent' = intent \/ intent' = Patched(i, s)
  BY <1>1 DEF FailedUnsent
<1>4. net'[i].at # "request"
  BY <1>1, <1>2
<1>. QED  BY <1>1, <1>2, <1>3, <1>4, FinishOrder

LEMMA AnsweredOrder ==
    ASSUME IntentsTypeOK, Order, NEW i \in Id,
           PromptAnswered(i) \/ ConfigAnswered(i) \/ OtherAnswered(i)
    PROVE  Order'
<1>1. step[i] # "none" /\ AnswerStep(i)
  BY DEF PromptAnswered, ConfigAnswered, OtherAnswered, Settles
<1>2. /\ Finished(i) /\ DispatchStep /\ net' = [net EXCEPT ![i] = Quiet]
      /\ net'[i].at # "request"
  BY <1>1 DEF AnswerStep, Quiet, IntentsTypeOK
<1>3. CASE /\ Settles(i, "refused")
           /\ intent' = intent \/ intent' = Patched(i, "failed_before_dispatch")
  <2>1. i \notin handled
    BY <1>3 DEF Order, Requests, Settles
  <2>. QED  BY <1>1, <1>2, <1>3, <2>1, FinishOrder
<1>4. CASE \E s \in {"accepted_running", "accepted_queued", "accepted", "failed", "stale"} :
              intent' = intent \/ intent' = Patched(i, s)
  <2>1. PICK s \in {"accepted_running", "accepted_queued", "accepted", "failed", "stale"} :
              intent' = intent \/ intent' = Patched(i, s)
    BY <1>4
  <2>. QED  BY <1>1, <1>2, <2>1, FinishOrder
<1>5. CASE PromptAnswered(i)
  BY <1>3, <1>4, <1>5 DEF PromptAnswered
<1>6. CASE ConfigAnswered(i)
  BY <1>4, <1>6 DEF ConfigAnswered
<1>7. CASE OtherAnswered(i)
  BY <1>4, <1>7 DEF OtherAnswered
<1>. QED  BY <1>5, <1>6, <1>7

LEMMA GivenUpOrder ==
    ASSUME IntentsTypeOK, Order, NEW i \in Id, GivenUp(i)
    PROVE  Order'
<1>1. /\ step[i] # "none" /\ DispatchStep /\ Finished(i) /\ intent' = Unanswered(i)
      /\ net' = IF net[i].at = "request" THEN net ELSE [net EXCEPT ![i] = Quiet]
  BY DEF GivenUp
<1>2. PICK s \in {"unknown_after_dispatch", "failed"} :
         /\ intent' = intent \/ intent' = Patched(i, s)
         /\ Is(i, "prompt") /\ ~ Terminal(i) => s = "unknown_after_dispatch" /\ intent' = Patched(i, s)
  BY <1>1 DEF Unanswered
<1>3. net'[i].at = "request" => net[i].at = "request"
  BY <1>1 DEF Quiet, IntentsTypeOK
<1>4. CASE Is(i, "prompt") /\ ~ Here(i)
  <2>1. Patched(i, "unknown_after_dispatch") = intent
    BY <1>4 DEF Patched
  <2>2. intent' = Patched(i, "unknown_after_dispatch")
    BY <1>2, <2>1, <1>4 DEF Patched
  <2>. QED  BY <1>1, <2>2, FinishOrder
<1>5. CASE ~ (Is(i, "prompt") /\ ~ Here(i))
  <2>1. Is(i, "prompt") /\ net'[i].at = "request" => ~ Terminal(i)
    BY <1>3, <1>5 DEF Order, Requests, Terminal, Here
  <2>. QED  BY <1>1, <1>2, <2>1, FinishOrder
<1>. QED  BY <1>4, <1>5

\* Nothing is dispatched, or the dispatcher forgets what it dispatched.
LEMMA IdleOrder ==
    ASSUME IntentsTypeOK, Order, LookInVain \/ Remount
    PROVE  Order'
<1>1. /\ UNCHANGED <<born, creation, intent, step, net, handled, ran, queue, feed>>
      /\ UNCHANGED inFlight \/ \A j \in Id : ~ Here(j)
  BY DEF LookInVain, Remount, DispatchStep, serverVars
<1>2. Births'
  BY <1>1 DEF Order, Births, Is, Touched, Ready
<1>3. InOrder'
  BY <1>1 DEF Order, InOrder, Is, Touched, Here, Under, Dispatchable
<1>4. Requests'
  BY <1>1 DEF Order, Requests, Is, Here
<1>5. \A p \in Id : Withdrawn(p)' <=> Withdrawn(p)
  BY <1>1 DEF Withdrawn, InQueue
<1>6. Records'
  <2>1. ASSUME NEW k \in 1..Len(feed)
        PROVE  IsTrue(feed[k])'
    <3>1. IsTrue(feed[k])
      BY DEF Order, Records
    <3>2. handled \subseteq Id
      BY DEF IntentsTypeOK
    <3>. QED  BY <3>1, <3>2, <1>1, <1>5 DEF IsTrue, RunEvents, PromptEvents, Is
  <2>. QED  BY <2>1, <1>1 DEF Order, Records, Is
<1>7. Finals'
  BY <1>1, <1>5 DEF Order, Finals, FinalStatesAreTrue
<1>. QED  BY <1>2, <1>3, <1>4, <1>6, <1>7 DEF Order

\* The order is kept by every step; that of the type is proved below.
LEMMA NextOrder ==
    ASSUME IntentsTypeOK, Order, Next
    PROVE  Order'
<1>1. CASE DispatcherAct
  BY <1>1, IdleOrder, DispatchOrder, PreparedOrder, UnsentOrder, AnsweredOrder, GivenUpOrder
     DEF DispatcherAct
<1>2. CASE RuntimeAct
  <2>1. CASE EndTurn
    <3>1. config' \in Config
      BY <2>1, Configured DEF EndTurn, IntentsTypeOK
    <3>. QED  BY <2>1, <3>1, EndTurnOrder
  <2>. QED  BY <1>2, <2>1, HandleOrder, LostOrder, AskOrder, DrainOrder DEF RuntimeAct
<1>. QED  BY <1>1, <1>2, ResolvedOrder, UserOrder, CreationOrder, StreamOrder DEF Next

-----------------------------------------------------------------------------
(***************************************************************************)
(* The type.  Which status an intent may be given depends on its kind, so  *)
(* the steps of the stream need the record of the runtime as well.         *)
(***************************************************************************)
LEMMA UserType ==
    ASSUME IntentsTypeOK, Order, UserAct
    PROVE  IntentsTypeOK'
<1>0. /\ UNCHANGED <<step, inFlight, live, asked, net, config, turn, queue, held, ask,
                     handled, ran, feed, faults>>
      /\ due' \in BOOLEAN
  BY DEF UserAct, SendPrompt, SelectConfig, ResolveInteraction, MutatePending,
         CancelBeforeDispatch, DismissPrompt, RetryPrompt, UserStep, Versioned, serverVars,
         IntentsTypeOK
<1>a. /\ intent \in [Id -> Intent] /\ born \in 0..MaxIntents
      /\ Id = 1..MaxIntents /\ MaxIntents \in Nat
  BY IntentsAssumption DEF IntentsTypeOK, Id
<1>b. /\ clicks' \in Nat /\ choice' \in Value \union {NoValue}
      /\ creation' \in [at : {"asked", "creating", "failed", "ready"},
                        snapshot : [Id -> Nat], value : Value]
  <2>1. clicks \in Nat /\ choice \in Value \union {NoValue}
    BY DEF IntentsTypeOK
  <2>2. /\ clicks' \in {clicks, clicks + 1} /\ choice' \in Value \union {choice}
        /\ creation' \in {creation, [creation EXCEPT !.at = "asked"]}
    BY DEF UserAct, SendPrompt, SelectConfig, Supersede, ResolveInteraction, MutatePending,
           CancelBeforeDispatch, DismissPrompt, RetryPrompt
  <2>3. PICK c \in [at : {"asked", "creating", "failed", "ready"},
                    snapshot : [Id -> Nat], value : Value] : c = creation
    BY DEF IntentsTypeOK
  <2>4. [c EXCEPT !.at = "asked"] \in
           [at : {"asked", "creating", "failed", "ready"}, snapshot : [Id -> Nat], value : Value]
    OBVIOUS
  <2>. QED  BY <2>1, <2>2, <2>3, <2>4
<1>1. ASSUME intent' \in [Id -> Intent], born' \in 0..MaxIntents
      PROVE  IntentsTypeOK'
  BY <1>0, <1>b, <1>1 DEF IntentsTypeOK
<1>2. ASSUME NEW new \in Intent, Add(new)
      PROVE  IntentsTypeOK'
  <2>1. intent' \in [Id -> Intent] /\ born' \in 0..MaxIntents
    BY <1>2, <1>a DEF Add
  <2>. QED  BY <2>1, <1>1
<1>4. CASE SendPrompt
  <2>1. NewIntent("prompt", NoValue, 0) \in Intent
    BY DEF NewIntent, Intent, PromptStatus
  <2>. QED  BY <1>2, <2>1, <1>4 DEF SendPrompt
<1>5. ASSUME NEW v \in Value, SelectConfig(v)
      PROVE  IntentsTypeOK'
  <2>1. CASE Add(NewIntent("config", v, 0))
    <3>1. NewIntent("config", v, 0) \in Intent
      BY DEF NewIntent, Intent, OtherStatus
    <3>. QED  BY <1>2, <2>1, <3>1
  <2>2. ASSUME NEW i \in Id, Supersede(i, v)
        PROVE  IntentsTypeOK'
    <3>1. intent[i] \in Intent /\ intent[i].kind = "config"
      BY <1>a, <2>2 DEF Supersede, IsSupersedable, Is
    <3>2. PICK entry \in Intent : entry = intent[i] /\ entry.kind = "config"
      BY <3>1
    <3>. DEFINE Configs == [kind : {"config"}, status : OtherStatus, value : Value, gen : Nat,
                            of : {0}]
    <3>4. entry \in Configs
      BY <3>2 DEF Intent
    <3>5. [entry EXCEPT !.value = v, !.gen = @ + 1] \in Configs
      <4>1. PICK n \in Nat : n = entry.gen + 1
        BY <3>4
      <4>2. [entry EXCEPT !.value = v, !.gen = n] \in Configs
        BY <3>4
      <4>3. [entry EXCEPT !.value = v, !.gen = entry.gen + 1] \in Configs
        BY <4>1, <4>2
      <4>. QED  BY <4>3
    <3>6. [intent[i] EXCEPT !.value = v, !.gen = @ + 1] \in Intent
      BY <3>2, <3>5 DEF Intent
    <3>3. intent' \in [Id -> Intent] /\ born' = born
      BY <1>a, <2>2, <3>6 DEF Supersede
    <3>. QED  BY <3>3, <1>1, <1>a
  <2>. QED  BY <1>5, <2>1, <2>2 DEF SelectConfig
<1>6. CASE ResolveInteraction
  <2>1. NewIntent("resolve", NoValue, 0) \in Intent
    BY <1>a DEF NewIntent, Intent, OtherStatus
  <2>. QED  BY <1>2, <2>1, <1>6 DEF ResolveInteraction
<1>7. ASSUME NEW kind \in {"edit", "delete"}, NEW p \in Id, MutatePending(kind, p)
      PROVE  IntentsTypeOK'
  <2>1. NewIntent(kind, NoValue, p) \in Intent
    BY <1>a DEF NewIntent, Intent, OtherStatus
  <2>. QED  BY <1>2, <2>1, <1>7 DEF MutatePending
<1>8. ASSUME NEW i \in Id, CancelBeforeDispatch(i) \/ DismissPrompt(i)
      PROVE  IntentsTypeOK'
  <2>1. intent[i] \in Intent /\ born' = born /\ intent' = Patched(i, "absent")
    BY <1>8, <1>a DEF CancelBeforeDispatch, DismissPrompt
  <2>2. Is(i, "prompt")
    BY <1>8, <2>1, EntryStatus DEF CancelBeforeDispatch, DismissPrompt, Undelivered, Is,
                                   OtherStatus, Kinds
  <2>3. intent' \in [Id -> Intent]
    BY <1>a, <2>1, <2>2, PatchedType DEF PromptStatus
  <2>. QED  BY <2>1, <2>3, <1>1, <1>a
<1>9. ASSUME NEW i \in Id, RetryPrompt(i)
      PROVE  IntentsTypeOK'
  <2>. DEFINE new == NewIntent("prompt", NoValue, 0)
  <2>1. /\ born < MaxIntents /\ born' = born + 1
        /\ intent' = [intent EXCEPT ![i].status = "absent", ![born + 1] = new]
    BY <1>9 DEF RetryPrompt
  <2>2. intent[i] \in Intent /\ Is(i, "prompt")
    BY <1>9, <1>a, EntryStatus DEF RetryPrompt, Undelivered, Is, OtherStatus, Kinds
  <2>3. [intent[i] EXCEPT !.status = "absent"] \in Intent
    BY <2>2, EntryWithStatus DEF Is, PromptStatus
  <2>4. new \in Intent
    BY DEF NewIntent, Intent, PromptStatus
  <2>. HIDE DEF new
  <2>e. PICK entry \in Intent : entry = [intent[i] EXCEPT !.status = "absent"]
    BY <2>3
  <2>5. intent' \in [Id -> Intent] /\ born' \in 0..MaxIntents
    <3>1. intent' = [intent EXCEPT ![i] = entry, ![born + 1] = new]
      BY <2>1, <2>e
    <3>. QED  BY <1>a, <2>1, <2>4, <3>1
  <2>. QED  BY <2>5, <1>1
<1>. QED  BY <1>4, <1>5, <1>6, <1>7, <1>8, <1>9 DEF UserAct

LEMMA CreationType ==
    ASSUME IntentsTypeOK, CreationAct
    PROVE  IntentsTypeOK'
<1>0. /\ UNCHANGED <<born, step, inFlight, asked, net, turn, queue, held, ask,
                     handled, ran, feed, choice, clicks>>
      /\ intent \in [Id -> Intent]
  BY DEF CreationAct, BeginCreation, SessionCreated, SessionAdopted, CreationFails,
         CreationStep, IntentsTypeOK
<1>. DEFINE Creation == [at : {"asked", "creating", "failed", "ready"},
                         snapshot : [Id -> Nat], value : Value]
<1>1. ASSUME intent' \in [Id -> Intent], creation' \in Creation, due' \in BOOLEAN,
             live' \in Config, config' \in Config, faults' \in Nat
      PROVE  IntentsTypeOK'
  BY <1>0, <1>1 DEF IntentsTypeOK
<1>2. NoSnapshot \in [Id -> Nat] /\ Default \in Value
  BY ValueAssumption DEF NoSnapshot
<1>3. CASE BeginCreation
  <2>1. QueuedSelections \in [Id -> Nat]
    <3>1. \A i \in Id : intent[i].gen \in Nat
      BY <1>0, EntryStatus
    <3>. QED  BY <3>1 DEF QueuedSelections
  <2>2. LaunchValue(QueuedSelections) \in Value
    <3>1. CASE \E i \in Id : IsLatest(i, QueuedSelections)
      <4>1. PICK i \in Id : /\ i = CHOOSE j \in Id : IsLatest(j, QueuedSelections)
                            /\ IsLatest(i, QueuedSelections)
        BY <3>1
      <4>2. Is(i, "config") /\ intent[i] \in Intent
        BY <4>1, <1>0 DEF IsLatest, QueuedSelections
      <4>3. intent[i].value \in Value
        BY <4>2, EntryStatus DEF Is
      <4>. QED  BY <3>1, <4>1, <4>3 DEF LaunchValue
    <3>2. CASE ~ \E i \in Id : IsLatest(i, QueuedSelections)
      BY <3>2, <1>2 DEF LaunchValue
    <3>. QED  BY <3>1, <3>2
  <2>3. creation' \in Creation
    BY <1>3, <2>1, <2>2 DEF BeginCreation
  <2>4. UNCHANGED <<intent, due, live, config, faults>>
    BY <1>3 DEF BeginCreation
  <2>. QED  BY <2>3, <2>4, <1>1 DEF IntentsTypeOK
<1>4. ASSUME NEW value \in Value, NEW known \in BOOLEAN, Materialized(value, known)
      PROVE  /\ creation' \in Creation /\ due' \in BOOLEAN
             /\ live' \in Config /\ config' \in Config
  <2>1. [seq |-> 1, value |-> value] \in Config /\ NoConfig \in Config
    BY DEF Config, NoConfig
  <2>. QED  BY <1>2, <1>4, <2>1 DEF Materialized, IntentsTypeOK
<1>5. ASSUME NEW entry \in Intent, NEW s \in {entry.status, "reconciled", "failed", "stale"},
             s # entry.status => entry.status = "queued"
      PROVE  [entry EXCEPT !.status = Requeued(s)] \in Intent
  <2>1. CASE s # entry.status
    <3>1. entry.kind \in Kinds \ {"prompt"}
      BY <1>5, <2>1, EntryStatus DEF PromptStatus
    <3>2. Requeued(s) \in OtherStatus
      BY <1>5, <2>1 DEF Requeued, OtherStatus
    <3>. QED  BY <3>1, <3>2, EntryWithStatus
  <2>2. CASE s = entry.status /\ s = "failed_before_dispatch"
    <3>1. entry.kind = "prompt"
      BY <2>2, EntryStatus DEF OtherStatus
    <3>2. Requeued(s) \in PromptStatus
      BY <2>2 DEF Requeued, PromptStatus
    <3>. QED  BY <3>1, <3>2, EntryWithStatus
  <2>3. CASE s = entry.status /\ s # "failed_before_dispatch"
    BY <2>3, EntryWithStatus DEF Requeued
  <2>. QED  BY <2>1, <2>2, <2>3
<1>6. ASSUME NEW value \in Value, NEW known \in BOOLEAN, NEW offered \in SUBSET Value,
             SessionCreated(value, known, offered)
      PROVE  IntentsTypeOK'
  <2>1. ASSUME NEW i \in Id, NEW s \in {intent[i].status, Settled(i, value, offered)}
        PROVE  [intent[i] EXCEPT !.status = Requeued(s)] \in Intent
    <3>1. intent[i] \in Intent
      BY <1>0
    <3>2. /\ s \in {intent[i].status, "reconciled", "failed", "stale"}
          /\ s # intent[i].status => intent[i].status = "queued"
      BY DEF Settled
    <3>. QED  BY <3>1, <3>2, <1>5
  <2>2. intent' \in [Id -> Intent]
    BY <1>6, <2>1 DEF SessionCreated
  <2>3. Materialized(value, known) /\ faults' \in Nat
    BY <1>6, IntentFaultsAssumption DEF SessionCreated, Fault, IntentsTypeOK
  <2>. QED  BY <2>2, <2>3, <1>1, <1>4
<1>7. ASSUME NEW known \in BOOLEAN, NEW offered \in SUBSET Value,
             SessionAdopted(known, offered)
      PROVE  IntentsTypeOK'
  <2>1. ASSUME NEW i \in Id, NEW s \in {intent[i].status, Applicable(i, offered)}
        PROVE  [intent[i] EXCEPT !.status = Requeued(s)] \in Intent
    <3>1. intent[i] \in Intent
      BY <1>0
    <3>2. s = intent[i].status \/ (s = "stale" /\ intent[i].status = "queued")
      BY DEF Applicable
    <3>. QED  BY <3>1, <3>2, <1>5
  <2>2. intent' \in [Id -> Intent]
    BY <1>7, <2>1 DEF SessionAdopted
  <2>3. Materialized(Default, known) /\ faults' \in Nat
    BY <1>7, IntentFaultsAssumption DEF SessionAdopted, Fault, IntentsTypeOK
  <2>. QED  BY <2>2, <2>3, <1>1, <1>2, <1>4
<1>8. CASE CreationFails
  <2>1. ASSUME NEW i \in Id
        PROVE  intent'[i] \in Intent
    <3>1. intent[i] \in Intent
      BY <1>0
    <3>2. CASE Is(i, "prompt")
      <4>1. [intent[i] EXCEPT !.status = "failed_before_dispatch"] \in Intent
        BY <3>1, <3>2, EntryWithStatus DEF Is, PromptStatus
      <4>. QED  BY <1>8, <3>1, <4>1 DEF CreationFails
    <3>3. CASE ~ Is(i, "prompt")
      BY <1>8, <3>1, <3>3 DEF CreationFails
    <3>. QED  BY <3>2, <3>3
  <2>2. intent' \in [Id -> Intent]
    BY <1>8, <2>1 DEF CreationFails
  <2>3. creation' \in Creation /\ due' \in BOOLEAN /\ faults' \in Nat /\ UNCHANGED <<live, config>>
    BY <1>8, <1>2, IntentFaultsAssumption DEF CreationFails, Fault, Versioned, IntentsTypeOK
  <2>. QED  BY <2>2, <2>3, <1>1 DEF IntentsTypeOK
<1>. QED  BY <1>3, <1>6, <1>7, <1>8 DEF CreationAct

\* What a dispatch may make of its intent: nothing, or a status of its kind.
Gives(i, s) ==
    \/ intent' = intent
    \/ /\ intent' = Patched(i, s)
       /\ \/ Is(i, "prompt") /\ s \in PromptStatus
          \/ ~ Is(i, "prompt") /\ s \in OtherStatus

LEMMA GivenType ==
    ASSUME IntentsTypeOK, NEW i \in Id, NEW s, Gives(i, s)
    PROVE  intent' \in [Id -> Intent]
<1>1. intent \in [Id -> Intent] /\ intent[i] \in Intent
  BY DEF IntentsTypeOK
<1>2. ~ Here(i) \/ intent[i].kind \in Kinds
  BY <1>1, EntryStatus DEF Here
<1>. QED  BY <1>1, <1>2, PatchedType DEF Gives, Is

LEMMA DispatcherType ==
    ASSUME IntentsTypeOK, DispatcherAct \/ \E i \in Id : TargetResolved(i)
    PROVE  IntentsTypeOK'
<1>0. /\ UNCHANGED <<born, creation, asked, config, turn, queue, held, ask, handled, ran,
                     feed, choice, clicks>>
      /\ intent \in [Id -> Intent]
  BY DEF DispatcherAct, LookInVain, Dispatch, PromptPrepared, TargetResolved, UnsentFails,
         PromptAnswered, ConfigAnswered, OtherAnswered, AnswerStep, GivenUp, Remount,
         DispatchStep, serverVars, IntentsTypeOK
<1>. DEFINE Steps == [Id -> {"none", "prepare", "target", "sent"}]
            Nets == [Id -> [at : Answers \union {"none", "request"}, live : Config]]
<1>1. ASSUME intent' \in [Id -> Intent], step' \in Steps, net' \in Nets,
             inFlight' \in 0..MaxIntents, due' \in BOOLEAN, live' \in Config, faults' \in Nat
      PROVE  IntentsTypeOK'
  BY <1>0, <1>1 DEF IntentsTypeOK
<1>2. /\ step \in Steps /\ net \in Nets /\ inFlight \in 0..MaxIntents /\ due \in BOOLEAN
      /\ live \in Config /\ faults \in Nat
      /\ Id = 1..MaxIntents /\ MaxIntents \in Nat /\ 0 \in 0..MaxIntents
  BY IntentsAssumption DEF IntentsTypeOK, Id
<1>3. Quiet \in [at : Answers \union {"none", "request"}, live : Config]
      /\ [at |-> "request", live |-> NoConfig]
            \in [at : Answers \union {"none", "request"}, live : Config]
  BY EventFacts DEF Quiet
<1>4. ASSUME NEW i \in Id, Finished(i)
      PROVE  step' \in Steps /\ inFlight' \in 0..MaxIntents /\ due' \in BOOLEAN
  BY <1>2, <1>4 DEF Finished
<1>5. Fault => faults' \in Nat
  BY <1>2, IntentFaultsAssumption DEF Fault
<1>6. CASE LookInVain \/ Remount
  BY <1>0, <1>1, <1>2, <1>6 DEF LookInVain, Remount
<1>7. ASSUME NEW i \in Id, Dispatch(i)
      PROVE  IntentsTypeOK'
  <2>1. PICK s \in {"preparing", "dispatching"} : Gives(i, s)
    BY <1>7 DEF Dispatch, Gives, PromptStatus, OtherStatus
  <2>2. intent' \in [Id -> Intent]
    BY <2>1, GivenType
  <2>3. /\ step' \in Steps /\ inFlight' \in 0..MaxIntents /\ due' \in BOOLEAN
        /\ UNCHANGED <<live, net, faults>>
    BY <1>2, <1>7 DEF Dispatch, Versioned
  <2>. QED  BY <2>2, <2>3, <1>1, <1>2
<1>8. ASSUME NEW i \in Id, PromptPrepared(i)
      PROVE  IntentsTypeOK'
  <2>1. /\ step' \in Steps /\ inFlight' \in 0..MaxIntents /\ due' \in BOOLEAN
        /\ UNCHANGED <<intent, live, net, faults>>
    BY <1>2, <1>4, <1>8 DEF PromptPrepared
  <2>. QED  BY <2>1, <1>0, <1>1, <1>2
<1>9. ASSUME NEW i \in Id, TargetResolved(i)
      PROVE  IntentsTypeOK'
  <2>1. Gives(i, "dispatching")
    BY <1>9 DEF TargetResolved, Gives, PromptStatus
  <2>2. intent' \in [Id -> Intent]
    BY <2>1, GivenType
  <2>3. /\ step' \in Steps /\ inFlight' \in 0..MaxIntents /\ due' \in BOOLEAN
        /\ net' \in Nets /\ UNCHANGED <<live, faults>>
    <3>1. CASE Is(i, "config") /\ intent[i].status # "dispatching"
      BY <3>1, <1>2, <1>4, <1>9 DEF TargetResolved
    <3>2. CASE ~ (Is(i, "config") /\ intent[i].status # "dispatching")
      <4>1. PICK request \in [at : Answers \union {"none", "request"}, live : Config] :
               request = [at |-> "request", live |-> NoConfig]
        BY <1>3
      <4>2. /\ net' = [net EXCEPT ![i] = request] /\ step' = [step EXCEPT ![i] = "sent"]
            /\ UNCHANGED <<inFlight, live, faults>> /\ due' = (due \/ intent' # intent)
        BY <3>2, <4>1, <1>9 DEF TargetResolved, Versioned
      <4>3. step' \in Steps
        BY <4>2, <1>2
      <4>4. net' \in Nets
        BY <4>2, <1>2
      <4>. QED  BY <4>2, <4>3, <4>4, <1>2
    <3>. QED  BY <3>1, <3>2
  <2>. QED  BY <2>2, <2>3, <1>1, <1>2
<1>10. ASSUME NEW i \in Id, UnsentFails(i)
       PROVE  IntentsTypeOK'
  <2>1. PICK s \in {"failed_before_dispatch", "failed"} : Gives(i, s)
    BY <1>10 DEF UnsentFails, FailedUnsent, Gives, PromptStatus, OtherStatus, Is
  <2>2. intent' \in [Id -> Intent]
    BY <2>1, GivenType
  <2>3. /\ step' \in Steps /\ inFlight' \in 0..MaxIntents /\ due' \in BOOLEAN
        /\ UNCHANGED <<live, net>> /\ faults' \in Nat
    BY <1>4, <1>5, <1>10 DEF UnsentFails
  <2>. QED  BY <2>2, <2>3, <1>1, <1>2
<1>11. ASSUME NEW i \in Id, PromptAnswered(i) \/ ConfigAnswered(i) \/ OtherAnswered(i)
       PROVE  IntentsTypeOK'
  <2>1. \E s : Gives(i, s)
    <3>1. CASE PromptAnswered(i)
      BY <3>1 DEF PromptAnswered, Gives, PromptStatus
    <3>2. CASE ConfigAnswered(i)
      BY <3>2 DEF ConfigAnswered, Gives, OtherStatus, Is
    <3>3. CASE OtherAnswered(i)
      BY <3>3 DEF OtherAnswered, Gives, OtherStatus, Is
    <3>. QED  BY <1>11, <3>1, <3>2, <3>3
  <2>2. intent' \in [Id -> Intent]
    BY <2>1, GivenType
  <2>3. AnswerStep(i) /\ net[i].live \in Config /\ live' \in {live, net[i].live}
    BY <1>2, <1>11 DEF PromptAnswered, ConfigAnswered, OtherAnswered
  <2>4. /\ step' \in Steps /\ inFlight' \in 0..MaxIntents /\ due' \in BOOLEAN
        /\ net' \in Nets /\ UNCHANGED faults
    BY <2>3, <1>2, <1>3, <1>4 DEF AnswerStep
  <2>. QED  BY <2>2, <2>3, <2>4, <1>1, <1>2
<1>12. ASSUME NEW i \in Id, GivenUp(i)
       PROVE  IntentsTypeOK'
  <2>1. PICK s \in {"unknown_after_dispatch", "failed"} : Gives(i, s)
    BY <1>12 DEF GivenUp, Unanswered, Gives, PromptStatus, OtherStatus, Is
  <2>2. intent' \in [Id -> Intent]
    BY <2>1, GivenType
  <2>3. /\ step' \in Steps /\ inFlight' \in 0..MaxIntents /\ due' \in BOOLEAN
        /\ net' \in Nets /\ UNCHANGED live /\ faults' \in Nat
    BY <1>2, <1>3, <1>4, <1>5, <1>12 DEF GivenUp
  <2>. QED  BY <2>2, <2>3, <1>1, <1>2
<1>. QED  BY <1>6, <1>7, <1>8, <1>9, <1>10, <1>11, <1>12 DEF DispatcherAct

LEMMA RuntimeType ==
    ASSUME IntentsTypeOK, RuntimeAct
    PROVE  IntentsTypeOK'
<1>. DEFINE Net == [at : Answers \union {"none", "request"}, live : Config]
            Events == Seq(EventRecord)
<1>0. /\ UNCHANGED <<clientVars, choice, clicks>>
      /\ net \in [Id -> Net] /\ queue \in Seq(Id) /\ feed \in Events
      /\ config \in Config /\ turn \in 0..MaxIntents /\ held \in Value \union {NoValue}
      /\ ask \in {"none", "open", "closed"} /\ handled \subseteq Id /\ ran \subseteq Id
      /\ faults \in Nat /\ Id = 1..MaxIntents /\ MaxIntents \in Nat /\ 0 \in 0..MaxIntents
  <2>1. UNCHANGED <<clientVars, choice, clicks>>
    BY DEF RuntimeAct, Handle, Refuse, Vanish, Ask, EndTurn, DrainQueue, RuntimeStep,
           historyVars
  <2>2. /\ net \in [Id -> Net] /\ queue \in Seq(Id) /\ feed \in Events
        /\ config \in Config /\ turn \in 0..MaxIntents /\ held \in Value \union {NoValue}
        /\ ask \in {"none", "open", "closed"} /\ handled \subseteq Id /\ ran \subseteq Id
    BY DEF IntentsTypeOK, EventRecord
  <2>3. faults \in Nat /\ Id = 1..MaxIntents /\ MaxIntents \in Nat /\ 0 \in 0..MaxIntents
    BY IntentsAssumption DEF IntentsTypeOK, Id
  <2>. QED  BY <2>1, <2>2, <2>3
<1>1. ASSUME net' \in [Id -> Net], queue' \in Seq(Id), feed' \in Events,
             config' \in Config, turn' \in 0..MaxIntents, held' \in Value \union {NoValue},
             ask' \in {"none", "open", "closed"}, handled' \subseteq Id, ran' \subseteq Id,
             faults' \in Nat
      PROVE  IntentsTypeOK'
  BY <1>0, <1>1 DEF IntentsTypeOK, clientVars, EventRecord
<1>2. ASSUME NEW i \in Id, NEW answer \in Answers, Answer(i, answer), config' \in Config
      PROVE  net' \in [Id -> Net]
  <2>1. [at |-> answer, live |-> config'] \in Net /\ Quiet \in Net
    BY <1>2, EventFacts DEF Quiet
  <2>. QED  BY <1>0, <1>2, <2>1 DEF Answer
<1>3. ASSUME NEW events \in Events, Writes(events)
      PROVE  feed' \in Events
  BY <1>0, <1>3, ConcatProperties DEF Writes
<1>4. \A type \in EventType, id \in 0..MaxIntents : <<Event(type, id)>> \in Events
  BY EventFacts
<1>5. ASSUME config' \in Config
      PROVE  ConfigAnnouncement \in Events
  BY <1>5, Announced
<1>6. ASSUME NEW i \in Id, Handle(i)
      PROVE  IntentsTypeOK'
  <2>1. handled' \subseteq Id /\ UNCHANGED faults
    BY <1>0, <1>6 DEF Handle, RuntimeStep, historyVars
  <2>2. CASE HandlePrompt(i)
    <3>1. \E answer \in Answers : Answer(i, answer)
      BY <2>2 DEF HandlePrompt, Answers
    <3>2. \E type \in EventType : Writes(<<Event(type, i)>>)
      BY <2>2 DEF HandlePrompt, EventType
    <3>3. UNCHANGED <<config, held, ask>>
      BY <2>2 DEF HandlePrompt
    <3>4. i \in 0..MaxIntents
      BY <1>0
    <3>5. feed' \in Events
      BY <1>3, <1>4, <3>2, <3>4
    <3>6. net' \in [Id -> Net]
      BY <1>0, <1>2, <3>1, <3>3
    <3>7. CASE turn = 0 /\ queue = <<>>
      <4>1. turn' = i /\ ran' = ran \union {i} /\ UNCHANGED queue
        BY <2>2, <3>7 DEF HandlePrompt
      <4>2. turn' \in 0..MaxIntents /\ ran' \subseteq Id
        BY <1>0, <4>1, <3>4
      <4>. QED  BY <1>0, <1>1, <2>1, <3>3, <3>5, <3>6, <4>1, <4>2
    <3>8. CASE ~ (turn = 0 /\ queue = <<>>)
      <4>1. queue' = Append(queue, i) /\ UNCHANGED <<turn, ran>>
        BY <2>2, <3>8 DEF HandlePrompt
      <4>2. queue' \in Seq(Id)
        BY <1>0, <4>1, AppendProperties
      <4>. QED  BY <1>0, <1>1, <2>1, <3>3, <3>5, <3>6, <4>1, <4>2
    <3>. QED  BY <3>7, <3>8
  <2>3. CASE HandleConfig(i)
    <3>1. intent[i].value \in Value
      BY <2>3, EntryStatus DEF HandleConfig, Is, IntentsTypeOK
    <3>2. UNCHANGED <<turn, queue, ask, ran>>
      BY <2>3 DEF HandleConfig
    <3>3. CASE turn = 0
      <4>1. /\ Configure(intent[i].value) /\ Writes(ConfigAnnouncement)
            /\ Answer(i, "done") /\ UNCHANGED held
        BY <2>3, <3>3 DEF HandleConfig
      <4>2. config' \in Config
        BY <3>1, <4>1, Configured
      <4>3. feed' \in Events /\ net' \in [Id -> Net]
        BY <4>1, <4>2, <1>2, <1>3, <1>5 DEF Answers
      <4>. QED  BY <1>0, <1>1, <2>1, <3>2, <4>1, <4>2, <4>3
    <3>4. CASE turn # 0
      <4>1. held' = intent[i].value /\ UNCHANGED <<config, feed>> /\ Answer(i, "queued")
        BY <2>3, <3>4 DEF HandleConfig
      <4>2. net' \in [Id -> Net]
        BY <4>1, <1>0, <1>2 DEF Answers
      <4>. QED  BY <1>0, <1>1, <2>1, <3>1, <3>2, <4>1, <4>2
    <3>. QED  BY <3>3, <3>4
  <2>4. CASE HandleResolve(i)
    <3>1. UNCHANGED <<config, turn, queue, held, ran>>
      BY <2>4 DEF HandleResolve
    <3>2. feed' = feed \/ Writes(<<Event("interaction_resolved", 0)>>)
      BY <2>4 DEF HandleResolve
    <3>3. ask' \in {"none", "open", "closed"} /\ \E answer \in Answers : Answer(i, answer)
      BY <1>0, <2>4 DEF HandleResolve, Answers
    <3>4. feed' \in Events /\ net' \in [Id -> Net]
      BY <1>0, <1>2, <1>3, <1>4, <3>1, <3>2, <3>3 DEF EventType
    <3>. QED  BY <1>0, <1>1, <2>1, <3>1, <3>3, <3>4
  <2>5. CASE HandleMutation(i)
    <3>1. UNCHANGED <<config, turn, held, ask, ran>>
      BY <2>5 DEF HandleMutation
    <3>2. \E answer \in Answers : Answer(i, answer)
      BY <2>5 DEF HandleMutation, Answers
    <3>3. net' \in [Id -> Net]
      BY <1>0, <1>2, <3>1, <3>2
    <3>4. CASE InQueue(intent[i].of)
      <4>1. PICK p \in Id : p = intent[i].of /\ InQueue(p)
        BY <1>0, <3>4 DEF InQueue
      <4>2. queue' \in Seq(Id)
        BY <1>0, <2>5, <4>1, QueueWithout DEF HandleMutation
      <4>3. \E type \in EventType : Writes(<<Event(type, p)>>)
        BY <2>5, <4>1 DEF HandleMutation, EventType
      <4>4. p \in 0..MaxIntents
        BY <1>0
      <4>5. feed' \in Events
        BY <1>3, <1>4, <4>3, <4>4
      <4>. QED  BY <1>0, <1>1, <2>1, <3>1, <3>3, <4>2, <4>5
    <3>5. CASE ~ InQueue(intent[i].of)
      <4>1. UNCHANGED <<queue, feed>>
        BY <2>5, <3>5 DEF HandleMutation
      <4>. QED  BY <1>0, <1>1, <2>1, <3>1, <3>3, <4>1
    <3>. QED  BY <3>4, <3>5
  <2>. QED  BY <1>6, <2>2, <2>3, <2>4, <2>5 DEF Handle
<1>7. ASSUME NEW i \in Id, Refuse(i) \/ Vanish(i)
      PROVE  IntentsTypeOK'
  <2>1. /\ UNCHANGED <<config, turn, queue, held, ask, handled, ran, feed>>
        /\ faults' \in Nat
    BY <1>0, <1>7, IntentFaultsAssumption DEF Refuse, Vanish, Fault, serverVars, historyVars
  <2>2. [net[i] EXCEPT !.at = "refused"] \in Net /\ Quiet \in Net
    <3>1. PICK n \in Net : n = net[i]
      BY <1>0
    <3>2. [n EXCEPT !.at = "refused"] \in Net
      BY DEF Answers
    <3>. QED  BY <3>1, <3>2, EventFacts DEF Quiet
  <2>3. net' \in [Id -> Net]
    BY <1>0, <1>7, <2>2 DEF Refuse, Vanish
  <2>. QED  BY <1>0, <1>1, <2>1, <2>3
<1>8. CASE Ask
  <2>1. /\ UNCHANGED <<config, turn, queue, held, handled, ran, net, faults>>
        /\ ask' = "open" /\ Writes(<<Event("interaction_requested", 0)>>)
    BY <1>8 DEF Ask, RuntimeStep, historyVars
  <2>2. feed' \in Events
    BY <1>0, <1>3, <1>4, <2>1 DEF EventType
  <2>. QED  BY <1>0, <1>1, <2>1, <2>2
<1>9. CASE EndTurn
  <2>1. /\ UNCHANGED <<queue, ask, handled, ran, net, faults>>
        /\ turn' = 0 /\ held' = NoValue
    BY <1>9 DEF EndTurn, RuntimeStep, historyVars
  <2>2. config' \in Config
    BY <1>0, <1>9, Configured DEF EndTurn
  <2>3. feed' \in Events
    BY <1>9, <2>2, <1>3, <1>5 DEF EndTurn
  <2>. QED  BY <1>0, <1>1, <2>1, <2>2, <2>3
<1>10. CASE DrainQueue
  <2>1. /\ UNCHANGED <<config, held, ask, handled, net, faults>> /\ queue # <<>>
    BY <1>10 DEF DrainQueue, RuntimeStep, historyVars
  <2>2. PICK q \in Id : q = Head(queue)
    BY <1>0, <2>1
  <2>3. PICK e \in EventRecord : e = Event("item_completed", q)
    BY <1>0, EventFacts DEF EventType
  <2>4. PICK f \in EventRecord : f = Event("pending_prompt_removed:executed", q)
    BY <1>0, EventFacts DEF EventType
  <2>5. /\ Writes(<<e, f>>)
        /\ turn' = q /\ queue' = Tail(queue) /\ ran' = ran \union {q}
    BY <1>10, <2>2, <2>3, <2>4 DEF DrainQueue
  <2>6. feed' \in Events
    <3>1. <<e, f>> \in Events
      OBVIOUS
    <3>. QED  BY <3>1, <2>5, <1>3
  <2>7. turn' \in 0..MaxIntents /\ queue' \in Seq(Id) /\ ran' \subseteq Id
    <3>1. q \in 0..MaxIntents /\ ran \union {q} \subseteq Id
      BY <1>0
    <3>2. Tail(queue) \in Seq(Id)
      BY <1>0, <2>1
    <3>. QED  BY <2>5, <3>1, <3>2
  <2>. QED  BY <1>0, <1>1, <2>1, <2>6, <2>7
<1>. QED  BY <1>6, <1>7, <1>8, <1>9, <1>10 DEF RuntimeAct

LEMMA StreamType ==
    ASSUME IntentsTypeOK, Order, StreamAct
    PROVE  IntentsTypeOK'
<1>0. /\ UNCHANGED <<born, creation, step, inFlight, net, serverVars, historyVars>>
      /\ due' \in BOOLEAN /\ intent \in [Id -> Intent]
  BY DEF StreamAct, Deliver, PruneEchoedTombstone, Versioned, IntentsTypeOK
<1>1. ASSUME intent' \in [Id -> Intent], live' \in Config, asked' \in BOOLEAN,
             feed' \in Seq(EventRecord)
      PROVE  IntentsTypeOK'
  BY <1>0, <1>1 DEF IntentsTypeOK, serverVars, historyVars, EventRecord
<1>2. feed \in Seq(EventRecord) /\ live \in Config /\ asked \in BOOLEAN
  BY DEF IntentsTypeOK, EventRecord
<1>3. ASSUME NEW i \in Id, PruneEchoedTombstone(i)
      PROVE  IntentsTypeOK'
  <2>1. Is(i, "prompt")
    BY <1>0, <1>3, EntryStatus DEF PruneEchoedTombstone, Is, OtherStatus, Kinds
  <2>2. Gives(i, "absent") /\ UNCHANGED <<live, asked, feed>>
    BY <1>3, <2>1 DEF PruneEchoedTombstone, Gives, PromptStatus
  <2>. QED  BY <1>1, <1>2, <2>2, GivenType
<1>4. CASE Deliver
  <2>1. PICK e \in EventRecord : e = Head(feed)
    BY <1>2, <1>4 DEF Deliver
  <2>2. IsTrue(e)
    <3>1. 1 \in 1..Len(feed) /\ Head(feed) = feed[1]
      BY <1>2, <1>4, HeadTailProperties, LenProperties DEF Deliver
    <3>2. IsTrue(feed[1])
      BY <3>1 DEF Order, Records
    <3>. QED  BY <2>1, <3>1, <3>2
  <2>3. feed' \in Seq(EventRecord)
    BY <1>2, <1>4 DEF Deliver
  <2>4. live' \in Config /\ asked' \in BOOLEAN
    <3>1. e.live \in Config
      BY DEF EventRecord
    <3>. QED  BY <1>2, <1>4, <2>1, <3>1 DEF Deliver
  <2>5. intent' = ReconcileOutboxFromEnvelope(e)
    BY <1>4, <2>1 DEF Deliver
  <2>6. CASE e.type \in PromptEvents
    <3>1. e.id \in Id /\ Is(e.id, "prompt")
      BY <2>2, <2>6 DEF IsTrue, IntentsTypeOK
    <3>2. PICK s \in {"accepted_queued", "cancelled", "echoed_tombstone"} :
             intent' = Patched(e.id, s)
      BY <2>5, <2>6 DEF ReconcileOutboxFromEnvelope, PromptEvents, RunEvents, Removal
    <3>3. Gives(e.id, s)
      BY <3>1, <3>2 DEF Gives, PromptStatus
    <3>. QED  BY <1>1, <2>3, <2>4, <3>1, <3>3, GivenType
  <2>7. CASE e.type \in {"config_option_update", "interaction_resolved", "interaction_requested"}
    <3>1. ASSUME NEW j \in Id
          PROVE  intent'[j] \in Intent
      <4>1. intent[j] \in Intent
        BY <1>0
      <4>2. intent[j].kind \in {"config", "resolve"} => [intent[j] EXCEPT !.status = "reconciled"] \in Intent
        <5>1. "reconciled" \in OtherStatus /\ {"config", "resolve"} \subseteq Kinds \ {"prompt"}
          BY DEF OtherStatus, Kinds
        <5>. QED  BY <4>1, <5>1, EntryWithStatus
      <4>. QED  BY <2>5, <2>7, <4>1, <4>2 DEF ReconcileOutboxFromEnvelope, Reconciles, Is
    <3>2. intent' = [j \in Id |-> intent'[j]]
      <4>1. CASE e.type = "interaction_requested"
        BY <1>0, <2>5, <4>1 DEF ReconcileOutboxFromEnvelope
      <4>2. CASE e.type = "config_option_update"
        BY <2>5, <4>2 DEF ReconcileOutboxFromEnvelope
      <4>3. CASE e.type = "interaction_resolved"
        BY <2>5, <4>3 DEF ReconcileOutboxFromEnvelope
      <4>. QED  BY <2>7, <4>1, <4>2, <4>3
    <3>3. intent' \in [Id -> Intent]
      BY <3>1, <3>2
    <3>. QED  BY <1>1, <2>3, <2>4, <3>3
  <2>. QED  BY <2>6, <2>7 DEF EventRecord, EventType, PromptEvents, RunEvents
<1>. QED  BY <1>3, <1>4 DEF StreamAct

-----------------------------------------------------------------------------
(***************************************************************************)
(* The theorems.                                                           *)
(***************************************************************************)
LEMMA InitInvariant ==
    ASSUME Init
    PROVE  IInv
<1>0. /\ Id = 1..MaxIntents /\ MaxIntents \in Nat /\ Default \in Value
      /\ \A i \in Id : intent[i] = Unborn /\ step[i] = "none" /\ net[i].at = "none"
  BY IntentsAssumption, ValueAssumption DEF Id, Init, Quiet
<1>1. IntentsTypeOK
  <2>1. Unborn \in Intent
    BY DEF Unborn, Intent
  <2>2. intent \in [Id -> Intent]
    BY <2>1 DEF Init
  <2>3. Quiet \in [at : Answers \union {"none", "request"}, live : Config] /\ NoConfig \in Config
    BY EventFacts DEF Quiet
  <2>4. creation \in [at : {"asked", "creating", "failed", "ready"},
                      snapshot : [Id -> Nat], value : Value]
    BY <1>0 DEF Init, NoSnapshot
  <2>5. net \in [Id -> [at : Answers \union {"none", "request"}, live : Config]]
    BY <2>3 DEF Init
  <2>6. born \in 0..MaxIntents /\ inFlight \in 0..MaxIntents /\ turn \in 0..MaxIntents
    BY IntentsAssumption DEF Init
  <2>7. /\ step \in [Id -> {"none", "prepare", "target", "sent"}]
        /\ due \in BOOLEAN /\ asked \in BOOLEAN
        /\ held \in Value \union {NoValue} /\ choice \in Value \union {NoValue}
        /\ ask \in {"none", "open", "closed"} /\ clicks \in Nat /\ faults \in Nat
    BY DEF Init
  <2>8. /\ live \in Config /\ config \in Config /\ handled \subseteq Id /\ ran \subseteq Id
        /\ queue \in Seq(Id)
        /\ feed \in Seq([type : EventType, id : 0..MaxIntents, live : Config])
    BY <2>3 DEF Init
  <2>. QED  BY <2>2, <2>4, <2>5, <2>7, <2>8, <2>6 DEF IntentsTypeOK
<1>2. \A i \in Id : ~ Touched(i) /\ ~ Here(i) /\ Is(i, "none") /\ ~ Is(i, "prompt")
  BY <1>0 DEF Init, Touched, Here, Is, Unborn
<1>3. Births /\ InOrder /\ Requests
  BY <1>0, <1>2 DEF Births, InOrder, Requests, Under, Dispatchable, Here, Init
<1>4. Records /\ Finals
  <2>1. queue = <<>> /\ feed = <<>> /\ handled = {} /\ ran = {}
    BY DEF Init
  <2>2. \A i \in Id : intent[i].status = "absent"
    BY <1>0 DEF Unborn
  <2>. QED  BY <2>1, <2>2 DEF Records, Finals, FinalStatesAreTrue
<1>. QED  BY <1>1, <1>3, <1>4 DEF IInv, Order

\* What a step that changes nothing leaves.
LEMMA StutterInvariant ==
    ASSUME IInv, UNCHANGED vars
    PROVE  IInv'
<1>1. UNCHANGED <<intent, born, creation, step, inFlight, due, live, asked, net, config, turn,
                  queue, held, ask, feed, handled, ran, choice, clicks, faults>>
  BY DEF vars, clientVars, serverVars, historyVars
<1>2. IntentsTypeOK'
  BY <1>1 DEF IInv, IntentsTypeOK
<1>3. (Births /\ InOrder /\ Requests)'
  BY <1>1
     DEF IInv, Order, Births, InOrder, Requests, Touched, Under, Ready, Here, Is,
         Dispatchable
<1>4. (Records /\ Finals)'
  BY <1>1
     DEF IInv, Order, Records, Finals, FinalStatesAreTrue, IsTrue, Withdrawn, InQueue, Is
<1>. QED  BY <1>2, <1>3, <1>4 DEF IInv, Order

LEMMA NextInvariant ==
    ASSUME IInv, [Next]_vars
    PROVE  IInv'
<1>1. CASE Next
  <2>1. IntentsTypeOK'
    BY <1>1, UserType, CreationType, DispatcherType, RuntimeType, StreamType DEF Next, IInv
  <2>2. Order'
    BY <1>1, NextOrder DEF IInv
  <2>. QED  BY <2>1, <2>2 DEF IInv
<1>2. CASE UNCHANGED vars
  BY <1>2, StutterInvariant
<1>. QED  BY <1>1, <1>2

\* The inductive invariant: how the progress of each dispatch, the requests
\* on the way, what the runtime has handled and the events on the stream fit
\* together between any two steps of client, runtime and stream.
THEOREM IntentsInvariant == Spec => []IInv
<1>. QED  BY InitInvariant, NextInvariant, PTL DEF Spec

\* No intent ever has a status of another kind of intent, whichever of the
\* two channels, answers and events, is ahead of the other.
THEOREM IntentsTypeCorrect == Spec => []IntentsTypeOK
<1>1. IInv => IntentsTypeOK
  BY DEF IInv
<1>. QED  BY <1>1, IntentsInvariant, PTL

\* An intent shown as failed before dispatch was not taken by the runtime, a
\* cancelled prompt was not run, an echoed one was.
THEOREM FinalStatesTrue == Spec => []FinalStatesAreTrue
<1>1. IInv => FinalStatesAreTrue
  BY DEF IInv, Order, Finals
<1>. QED  BY <1>1, IntentsInvariant, PTL

\* What the runtime takes of a prompt the user still waits for, or of any
\* request the client still waits for, comes after all it took before.
THEOREM RuntimeFollowsClicks == Spec => HandledInOrder
<1>1. ASSUME IInv, NEW i \in Id, Handle(i), Here(i), Is(i, "prompt") \/ step[i] = "sent"
      PROVE  \A j \in handled : j < i
  <2>1. net[i].at = "request" /\ i \notin handled /\ handled \subseteq Id
    BY <1>1 DEF Handle, IInv, Order, Requests, IntentsTypeOK
  <2>2. Under(i) /\ \A j \in handled : Touched(j)
    BY <1>1, <2>1 DEF Under, Touched
  <2>. QED  BY <1>1, <2>1, <2>2 DEF IInv, Order, InOrder
<1>2. IInv /\ [Next]_vars =>
         [\A i \in Id : Handle(i) /\ Here(i) /\ (Is(i, "prompt") \/ step[i] = "sent")
             => \A j \in handled : j < i]_vars
  BY <1>1
<1>. QED  BY <1>2, IntentsInvariant, PTL DEF Spec, HandledInOrder

-----------------------------------------------------------------------------
(***************************************************************************)
(* The last choice.  The setting the runtime has, or gets when the turn    *)
(* ends, is followed from the click to the runtime: through the list of    *)
(* the selections, the snapshot a session is launched with and the         *)
(* requests.                                                               *)
(***************************************************************************)
Setting(i) == Is(i, "config")

\* The value the runtime has once the turn ends.
Aim == IF held = NoValue THEN config.value ELSE held

\* Without a session every selection waits.  Of those a session is launched
\* with, only the last may have been changed since, which its generation shows.
Launch ==
    /\ ~ Ready => \A i \in Id : Setting(i) => intent[i].status = "queued" /\ intent[i].gen # 0
    /\ creation.at = "creating" =>
          \A i \in Id :
             /\ creation.snapshot[i] # 0 =>
                   Setting(i) /\ creation.snapshot[i] <= intent[i].gen
             /\ Setting(i) /\ (\E j \in Id : j > i /\ creation.snapshot[j] # 0)
                   => creation.snapshot[i] = intent[i].gen
             /\ IsLatest(i, creation.snapshot) /\ creation.snapshot[i] = intent[i].gen
                   => intent[i].value = creation.value

\* Only a turn holds a change back.
Holding == turn = 0 \/ ~ Ready => held = NoValue

\* Without faults the client waits for every request of the setting.
Sending ==
    \A i \in Id : Setting(i) =>
        /\ step[i] # "prepare"
        /\ step[i] = "target" => intent[i].status = "dispatching"
        /\ net[i].at = "request" => step[i] = "sent"

\* The runtime is still to get selection i.
Untried(i) == Dispatchable(i) \/ step[i] = "target" \/ net[i].at = "request"

IsNewest(i) == Setting(i) /\ \A j \in Id : j > i => ~ Setting(j)

\* Selection i arrived, last of all, or none was ever sent: the session was
\* launched with them.
Arrived(i) == i \in handled \/ \A j \in Id : Setting(j) => ~ Touched(j) /\ ~ Dispatchable(j)

\* The newest selection is the last choice, on its way or arrived.
Kept ==
    choice # NoValue =>
        \E i \in Id : /\ IsNewest(i) /\ intent[i].value = choice
                      /\ Untried(i) \/ (Aim = choice /\ Arrived(i))

ChoiceInv == Launch /\ Holding /\ (faults = 0 => Sending /\ Kept)

\* Selections are never removed from the list, and what waits is not begun.
LEMMA SettingFacts ==
    ASSUME IInv
    PROVE  /\ Id = 1..MaxIntents /\ Id \subseteq Nat \ {0} /\ born \in Nat
           /\ \A i \in Id : Setting(i) => /\ Here(i) /\ i <= born
                                          /\ intent[i].status \in OtherStatus
                                          /\ intent[i].value \in Value
           /\ \A i \in Id : intent[i].gen \in Nat
           /\ \A i \in Id : Touched(i) => Ready /\ ~ Dispatchable(i) /\ i <= born
           /\ faults \in Nat
<1>1. Id = 1..MaxIntents /\ Id \subseteq Nat \ {0} /\ born \in Nat /\ faults \in Nat
  BY IntentsAssumption DEF IInv, IntentsTypeOK, Id
<1>2. ASSUME NEW i \in Id, Setting(i)
      PROVE  /\ Here(i) /\ i <= born
             /\ intent[i].status \in OtherStatus
             /\ intent[i].value \in Value
  <2>1. intent[i] \in Intent /\ intent[i].kind = "config"
    BY <1>2 DEF IInv, IntentsTypeOK, Setting, Is
  <2>2. ~ Is(i, "none")
    BY <2>1 DEF Is
  <2>3. i <= born
    BY <2>2, <1>1 DEF IInv, Order, Births
  <2>. QED  BY <2>1, <2>3, EntryStatus DEF Here, OtherStatus
<1>3. ASSUME NEW i \in Id
      PROVE  intent[i].gen \in Nat
  BY EntryStatus DEF IInv, IntentsTypeOK
<1>4. ASSUME NEW i \in Id, Touched(i)
      PROVE  Ready /\ ~ Dispatchable(i) /\ i <= born
  <2>1. Dispatchable(i) => i < i
    BY <1>4 DEF IInv, Order, InOrder
  <2>. QED  BY <1>1, <1>4, <2>1 DEF IInv, Order, Births
<1>. QED  BY <1>1, <1>2, <1>3, <1>4

-----------------------------------------------------------------------------
\* A step leaves a selection as it was asked for.
Stays(i) ==
    /\ intent'[i].value = intent[i].value /\ intent'[i].gen = intent[i].gen
    /\ intent'[i].status = intent[i].status \/ Ready

\* A step leaves the way of a selection, or ends its dispatch.
Goes(i) ==
    /\ Dispatchable(i)' <=> Dispatchable(i)
    /\ \/ step'[i] = step[i] /\ net'[i].at = net[i].at
       \/ /\ step'[i] = "none" /\ net'[i].at # "request"
          /\ step[i] # "target" /\ net[i].at # "request" /\ Touched(i)
    /\ step[i] = "target" => intent'[i].status = intent[i].status
    /\ i \in handled' <=> i \in handled

SettingsStay ==
    /\ Ready' <=> Ready
    /\ creation'.at = "creating" => creation' = creation
    /\ \A i \in Id : (Setting(i)' <=> Setting(i)) /\ (Setting(i) => Stays(i))

LEMMA LaunchStays ==
    ASSUME Launch, SettingsStay
    PROVE  Launch'
<1>1. ASSUME ~ Ready', NEW i \in Id, Setting(i)'
      PROVE  intent'[i].status = "queued" /\ intent'[i].gen # 0
  BY <1>1 DEF Launch, SettingsStay, Stays
<1>2. ASSUME creation'.at = "creating", NEW i \in Id
      PROVE  /\ creation'.snapshot[i] # 0 =>
                   Setting(i)' /\ creation'.snapshot[i] <= intent'[i].gen
             /\ Setting(i)' /\ (\E j \in Id : j > i /\ creation'.snapshot[j] # 0)
                   => creation'.snapshot[i] = intent'[i].gen
             /\ IsLatest(i, creation'.snapshot) /\ creation'.snapshot[i] = intent'[i].gen
                   => intent'[i].value = creation'.value
  <2>1. creation' = creation
    BY <1>2 DEF SettingsStay
  <2>2. Setting(i)' <=> Setting(i)
    BY DEF SettingsStay
  <2>3. Setting(i) => intent'[i].gen = intent[i].gen /\ intent'[i].value = intent[i].value
    BY DEF SettingsStay, Stays
  <2>4. IsLatest(i, creation.snapshot) => Setting(i)
    BY <1>2, <2>1 DEF IsLatest, Launch
  <2>. QED  BY <1>2, <2>1, <2>2, <2>3, <2>4 DEF Launch
<1>. QED  BY <1>1, <1>2 DEF Launch, IsLatest

\* A step that leaves the settings, the runtime's aim and the choice keeps
\* the invariant.
LEMMA SettingsAside ==
    ASSUME IInv, ChoiceInv, SettingsStay, Holding',
           faults' = 0 => /\ faults = 0 /\ choice' = choice /\ Aim' = Aim
                          /\ \A i \in Id : Setting(i) => Goes(i)
    PROVE  ChoiceInv'
<1>1. Launch'
  BY LaunchStays DEF ChoiceInv
<1>2. ASSUME faults' = 0
      PROVE  Sending' /\ Kept'
  <2>1. Sending /\ Kept /\ choice' = choice /\ Aim' = Aim
    BY <1>2 DEF ChoiceInv
  <2>2. \A i \in Id : (Setting(i)' <=> Setting(i)) /\ (Setting(i) => Goes(i) /\ Stays(i))
    BY <1>2 DEF SettingsStay
  <2>3. Sending'
    BY <2>1, <2>2 DEF Sending, Goes
  <2>4. ASSUME choice' # NoValue
        PROVE  \E i \in Id : /\ IsNewest(i)' /\ intent'[i].value = choice'
                             /\ Untried(i)' \/ (Aim' = choice' /\ Arrived(i)')
    <3>1. PICK i \in Id : /\ IsNewest(i) /\ intent[i].value = choice
                          /\ Untried(i) \/ (Aim = choice /\ Arrived(i))
      BY <2>1, <2>4 DEF Kept
    <3>2. IsNewest(i)' /\ intent'[i].value = choice'
      BY <2>1, <2>2, <3>1 DEF IsNewest, Stays
    <3>3. Untried(i) => Untried(i)'
      BY <2>2, <3>1 DEF IsNewest, Untried, Goes
    <3>4. Arrived(i) => Arrived(i)'
      <4>1. \A j \in Id : Setting(j) => (Touched(j)' => Touched(j))
        BY <2>2 DEF Goes, Touched
      <4>2. \A j \in Id : Setting(j) => (Dispatchable(j)' <=> Dispatchable(j))
        BY <2>2 DEF Goes
      <4>3. i \in handled => i \in handled'
        BY <2>2, <3>1 DEF Goes, IsNewest
      <4>. QED  BY <2>2, <4>1, <4>2, <4>3 DEF Arrived
    <3>. QED  BY <2>1, <3>1, <3>2, <3>3, <3>4
  <2>. QED  BY <2>3, <2>4 DEF Kept
<1>. QED  BY <1>1, <1>2 DEF ChoiceInv

\* A step of the client that is not about a selection.
LEMMA ClientAside ==
    ASSUME IInv, ChoiceInv,
           UNCHANGED <<config, held, turn, choice, faults, step, net, handled>>,
           Ready' <=> Ready,
           creation'.at = "creating" => creation' = creation,
           \A i \in Id : Setting(i)' <=> Setting(i),
           \A i \in Id : Setting(i) => intent'[i] = intent[i]
    PROVE  ChoiceInv'
<1>1. SettingsStay
  BY DEF SettingsStay, Stays
<1>2. Holding' /\ Aim' = Aim
  BY DEF ChoiceInv, Holding, Aim, Ready
<1>3. \A i \in Id : Setting(i) => Goes(i)
  BY DEF Goes, Dispatchable
<1>. QED  BY <1>1, <1>2, <1>3, SettingsAside

\* The user replaces the selection that waits at the end of the list.
LEMMA SupersedeKeepsChoice ==
    ASSUME IInv, ChoiceInv, NEW v \in Value, NEW n \in Id, Supersede(n, v),
           choice' = v, UNCHANGED creation, UserStep
    PROVE  ChoiceInv'
<1>0. /\ UNCHANGED <<config, held, turn, faults, step, net, handled, creation>>
      /\ intent' = [intent EXCEPT ![n].value = v, ![n].gen = @ + 1]
      /\ Setting(n) /\ intent[n].status = "queued"
      /\ \A j \in Id : j > n => ~ Here(j)
  BY SettingFacts DEF Supersede, UserStep, serverVars, IsSupersedable, Setting
<1>1. \A i \in Id : i # n => intent'[i] = intent[i]
  BY <1>0 DEF IInv, IntentsTypeOK
<1>2. /\ intent'[n].kind = intent[n].kind /\ intent'[n].status = intent[n].status
      /\ intent'[n].value = v /\ intent'[n].gen = intent[n].gen + 1
      /\ intent[n].gen \in Nat
  <2>1. intent[n] \in Intent
    BY DEF IInv, IntentsTypeOK
  <2>2. PICK e \in Intent : e = intent[n]
    BY <2>1
  <2>3. intent'[n] = [e EXCEPT !.value = v, !.gen = @ + 1]
    BY <1>0, <2>2 DEF IInv, IntentsTypeOK
  <2>4. e.gen \in Nat
    BY EntryStatus
  <2>. QED  BY <2>2, <2>3, <2>4 DEF Intent
<1>3. \A i \in Id : (Setting(i)' <=> Setting(i)) /\ intent'[i].status = intent[i].status
  BY <1>1, <1>2 DEF Setting, Is
<1>4. IsNewest(n)
  BY <1>0, SettingFacts DEF IsNewest
<1>5. Launch'
  <2>1. ASSUME ~ Ready', NEW i \in Id, Setting(i)'
        PROVE  intent'[i].status = "queued" /\ intent'[i].gen # 0
    <3>1. intent[i].status = "queued" /\ intent[i].gen # 0
      BY <1>0, <1>3, <2>1 DEF ChoiceInv, Launch, Ready
    <3>. QED  BY <1>1, <1>2, <1>3, <3>1
  <2>2. ASSUME creation.at = "creating", NEW i \in Id
        PROVE  /\ creation.snapshot[i] # 0 =>
                     Setting(i)' /\ creation.snapshot[i] <= intent'[i].gen
               /\ Setting(i)' /\ (\E j \in Id : j > i /\ creation.snapshot[j] # 0)
                     => creation.snapshot[i] = intent'[i].gen
               /\ IsLatest(i, creation.snapshot) /\ creation.snapshot[i] = intent'[i].gen
                     => intent'[i].value = creation.value
    <3>0. creation.snapshot[i] \in Nat
      BY DEF IInv, IntentsTypeOK
    <3>1. /\ creation.snapshot[i] # 0 =>
                   Setting(i) /\ creation.snapshot[i] <= intent[i].gen
          /\ Setting(i) /\ (\E j \in Id : j > i /\ creation.snapshot[j] # 0)
                   => creation.snapshot[i] = intent[i].gen
          /\ IsLatest(i, creation.snapshot) /\ creation.snapshot[i] = intent[i].gen
                   => intent[i].value = creation.value
      BY <2>2 DEF ChoiceInv, Launch
    <3>2. CASE i # n
      BY <3>1, <3>2, <1>1, <1>3
    <3>3. CASE i = n
      <4>1. \A j \in Id : j > n => creation.snapshot[j] = 0
        BY <2>2, <1>4 DEF ChoiceInv, Launch, IsNewest
      <4>2. creation.snapshot[n] # intent[n].gen + 1
        BY <3>0, <3>1, <3>3, <1>2
      <4>3. creation.snapshot[i] # 0 =>
                Setting(i) /\ creation.snapshot[i] <= intent'[i].gen
        BY <3>0, <3>1, <3>3, <1>2
      <4>4. Setting(i)' <=> Setting(i)
        BY <1>3
      <4>5. ~ \E j \in Id : j > i /\ creation.snapshot[j] # 0
        BY <3>3, <4>1
      <4>6. ~ (IsLatest(i, creation.snapshot) /\ creation.snapshot[i] = intent'[i].gen)
        BY <3>3, <1>2, <4>2
      <4>. QED  BY <4>3, <4>4, <4>5, <4>6
    <3>. QED  BY <3>2, <3>3
  <2>3. creation' = creation /\ \A i \in Id : IsLatest(i, creation.snapshot)' <=>
                                              IsLatest(i, creation.snapshot)
    BY <1>0 DEF IsLatest
  <2>. QED  BY <2>1, <2>2, <2>3 DEF Launch
<1>6. Holding'
  BY <1>0 DEF ChoiceInv, Holding, Ready
<1>7. ASSUME faults' = 0
      PROVE  Sending' /\ Kept'
  <2>1. Sending'
    BY <1>0, <1>3, <1>7 DEF ChoiceInv, Sending
  <2>2. IsNewest(n)' /\ Untried(n)'
    BY <1>0, <1>3, <1>4 DEF IsNewest, Untried, Dispatchable
  <2>. QED  BY <2>1, <2>2, <1>2 DEF Kept
<1>. QED  BY <1>5, <1>6, <1>7 DEF ChoiceInv

\* A new selection comes last and waits.
LEMMA SelectionKeepsChoice ==
    ASSUME IInv, ChoiceInv, NEW v \in Value, Add(NewIntent("config", v, 0)),
           choice' = v, UNCHANGED creation, UserStep
    PROVE  ChoiceInv'
<1>. DEFINE new == NewIntent("config", v, 0)
<1>1. new.kind = "config" /\ new.status = "queued" /\ new.value = v /\ new.gen = 1
  BY DEF NewIntent
<1>2. /\ UNCHANGED <<config, held, turn, faults, step, net, handled, creation>>
      /\ born < MaxIntents /\ intent' = [intent EXCEPT ![born + 1] = new]
  BY DEF Add, UserStep, serverVars
<1>. HIDE DEF new
<1>3. PICK n \in Id : n = born + 1
  BY <1>2, IntentsAssumption, SettingFacts
<1>4. intent'[n] = new /\ \A i \in Id : i # n => intent'[i] = intent[i]
  BY <1>2, <1>3 DEF IInv, IntentsTypeOK
<1>5. \A i \in Id : i # n => (Setting(i)' <=> Setting(i))
  BY <1>4 DEF Setting, Is
<1>6. Setting(n)' /\ IsNewest(n)' /\ ~ Setting(n) /\ ~ Touched(n)
  <2>1. Setting(n)' /\ ~ Setting(n) /\ ~ Touched(n)
    BY <1>1, <1>3, <1>4, SettingFacts DEF Setting, Is
  <2>2. \A j \in Id : j > n => ~ Setting(j)'
    BY <1>3, <1>5, SettingFacts
  <2>. QED  BY <2>1, <2>2 DEF IsNewest
<1>7. Launch'
  <2>1. ASSUME ~ Ready', NEW i \in Id, Setting(i)'
        PROVE  intent'[i].status = "queued" /\ intent'[i].gen # 0
    <3>1. CASE i = n
      BY <1>1, <1>4, <3>1
    <3>2. CASE i # n
      BY <1>2, <1>4, <1>5, <2>1, <3>2 DEF ChoiceInv, Launch, Ready
    <3>. QED  BY <3>1, <3>2
  <2>2. ASSUME creation.at = "creating", NEW i \in Id
        PROVE  /\ creation.snapshot[i] # 0 =>
                     Setting(i)' /\ creation.snapshot[i] <= intent'[i].gen
               /\ Setting(i)' /\ (\E j \in Id : j > i /\ creation.snapshot[j] # 0)
                     => creation.snapshot[i] = intent'[i].gen
               /\ IsLatest(i, creation.snapshot) /\ creation.snapshot[i] = intent'[i].gen
                     => intent'[i].value = creation.value
    <3>1. CASE i # n
      BY <2>2, <3>1, <1>4, <1>5 DEF ChoiceInv, Launch
    <3>2. CASE i = n
      <4>1. \A j \in Id : creation.snapshot[j] # 0 => Setting(j) /\ j <= born
        BY <2>2, SettingFacts DEF ChoiceInv, Launch
      <4>2. creation.snapshot[n] = 0 /\ \A j \in Id : j > n => creation.snapshot[j] = 0
        BY <4>1, <1>3, SettingFacts
      <4>. QED  BY <3>2, <4>2 DEF IsLatest
    <3>. QED  BY <3>1, <3>2
  <2>. QED  BY <1>2, <2>1, <2>2 DEF Launch, IsLatest
<1>8. Holding'
  BY <1>2 DEF ChoiceInv, Holding, Ready
<1>9. ASSUME faults' = 0
      PROVE  Sending' /\ Kept'
  <2>1. Sending'
    <3>1. step[n] = "none" /\ net[n].at = "none"
      BY <1>6 DEF Touched
    <3>2. Sending
      BY <1>2, <1>9 DEF ChoiceInv
    <3>3. ASSUME NEW i \in Id, Setting(i)'
          PROVE  /\ step[i] # "prepare"
                 /\ step[i] = "target" => intent'[i].status = "dispatching"
                 /\ net[i].at = "request" => step[i] = "sent"
      <4>1. CASE i = n
        BY <3>1, <4>1
      <4>2. CASE i # n
        BY <3>2, <3>3, <4>2, <1>4, <1>5 DEF Sending
      <4>. QED  BY <4>1, <4>2
    <3>. QED  BY <1>2, <3>3 DEF Sending
  <2>2. Untried(n)' /\ intent'[n].value = v
    BY <1>1, <1>4 DEF Untried, Dispatchable
  <2>. QED  BY <2>1, <2>2, <1>6 DEF Kept
<1>. QED  BY <1>7, <1>8, <1>9 DEF ChoiceInv

LEMMA UserKeepsChoice ==
    ASSUME IInv, ChoiceInv, UserAct
    PROVE  ChoiceInv'
<1>0. UserStep /\ UNCHANGED <<config, held, turn, faults, step, net, handled>>
  BY DEF UserAct, SendPrompt, SelectConfig, ResolveInteraction, MutatePending,
         CancelBeforeDispatch, DismissPrompt, RetryPrompt, UserStep, serverVars
<1>1. ASSUME NEW kind \in Kinds \ {"config"}, NEW value, NEW of,
             Add(NewIntent(kind, value, of)), UNCHANGED <<creation, choice>>
      PROVE  ChoiceInv'
  <2>. DEFINE new == NewIntent(kind, value, of)
  <2>1. new.kind = kind
    BY DEF NewIntent
  <2>2. born < MaxIntents /\ intent' = [intent EXCEPT ![born + 1] = new]
    BY <1>1 DEF Add
  <2>. HIDE DEF new
  <2>3. PICK n \in Id : n = born + 1
    BY <2>2, IntentsAssumption, SettingFacts
  <2>4. intent'[n] = new /\ \A i \in Id : i # n => intent'[i] = intent[i]
    BY <2>2, <2>3 DEF IInv, IntentsTypeOK
  <2>5. ~ Setting(n) /\ ~ Setting(n)'
    BY <2>1, <2>3, <2>4, SettingFacts DEF Setting, Is
  <2>6. \A i \in Id : (Setting(i)' <=> Setting(i)) /\ (Setting(i) => intent'[i] = intent[i])
    BY <2>4, <2>5 DEF Setting, Is
  <2>. QED  BY <1>0, <1>1, <2>6, ClientAside DEF Ready
<1>2. CASE SendPrompt
  BY <1>1, <1>2 DEF SendPrompt, Kinds
<1>3. ASSUME NEW v \in Value, SelectConfig(v)
      PROVE  ChoiceInv'
  BY <1>0, <1>3, SelectionKeepsChoice, SupersedeKeepsChoice DEF SelectConfig
<1>4. CASE ResolveInteraction
  BY <1>1, <1>4 DEF ResolveInteraction, Kinds
<1>5. ASSUME NEW kind \in {"edit", "delete"}, NEW p \in Id, MutatePending(kind, p)
      PROVE  ChoiceInv'
  BY <1>1, <1>5 DEF MutatePending, Kinds
<1>6. ASSUME NEW i \in Id, CancelBeforeDispatch(i) \/ DismissPrompt(i)
      PROVE  ChoiceInv'
  <2>1. intent' = Patched(i, "absent") /\ UNCHANGED <<creation, choice>>
    BY <1>6 DEF CancelBeforeDispatch, DismissPrompt
  <2>2. ~ Setting(i)
    BY <1>6, SettingFacts DEF CancelBeforeDispatch, DismissPrompt, Undelivered, OtherStatus
  <2>3. \A j \in Id : intent'[j].kind = intent[j].kind /\ (j # i => intent'[j] = intent[j])
    BY <2>1, PatchedEntry DEF Patched, IInv, IntentsTypeOK
  <2>. QED  BY <1>0, <2>1, <2>2, <2>3, ClientAside DEF Setting, Is, Ready
<1>7. ASSUME NEW i \in Id, RetryPrompt(i)
      PROVE  ChoiceInv'
  <2>. DEFINE new == NewIntent("prompt", NoValue, 0)
  <2>1. /\ born < MaxIntents /\ choice' = choice
        /\ intent' = [intent EXCEPT ![i].status = "absent", ![born + 1] = new]
        /\ ~ Setting(i)
    BY <1>7, SettingFacts DEF RetryPrompt, Undelivered, OtherStatus
  <2>2. new.kind = "prompt"
    BY DEF NewIntent
  <2>. HIDE DEF new
  <2>3. PICK n \in Id : n = born + 1
    BY <2>1, IntentsAssumption, SettingFacts
  <2>4. intent'[n] = new /\ ~ Setting(n) /\ ~ Setting(n)'
    BY <2>1, <2>2, <2>3, SettingFacts DEF Setting, Is, IInv, IntentsTypeOK
  <2>5. \A j \in Id : j # n /\ j # i => intent'[j] = intent[j]
    BY <2>1, <2>3 DEF IInv, IntentsTypeOK
  <2>6. i # n => intent'[i].kind = intent[i].kind
    <3>1. intent[i] \in Intent
      BY DEF IInv, IntentsTypeOK
    <3>2. i # n => intent'[i] = [intent[i] EXCEPT !.status = "absent"]
      BY <2>1, <2>3 DEF IInv, IntentsTypeOK
    <3>. QED  BY <3>1, <3>2 DEF Intent
  <2>7. \A j \in Id : (Setting(j)' <=> Setting(j)) /\ (Setting(j) => intent'[j] = intent[j])
    BY <2>1, <2>4, <2>5, <2>6 DEF Setting, Is
  <2>8. (Ready' <=> Ready) /\ (creation'.at = "creating" => creation' = creation)
    BY <1>7 DEF RetryPrompt, Ready, IInv, IntentsTypeOK
  <2>. QED  BY <1>0, <2>1, <2>7, <2>8, ClientAside
<1>. QED  BY <1>2, <1>3, <1>4, <1>5, <1>6, <1>7 DEF UserAct

-----------------------------------------------------------------------------
\* A session is created with the selections made so far.
LEMMA BeginKeepsChoice ==
    ASSUME IInv, ChoiceInv, BeginCreation
    PROVE  ChoiceInv'
<1>0. /\ UNCHANGED <<config, held, turn, faults, step, net, handled, intent, choice>>
      /\ ~ Ready /\ ~ Ready' /\ creation'.at = "creating"
      /\ creation'.snapshot = QueuedSelections
      /\ creation'.value = LaunchValue(QueuedSelections)
  BY DEF BeginCreation, CreationStep, Ready
<1>. DEFINE s == QueuedSelections
<1>1. ASSUME NEW i \in Id
      PROVE  /\ Setting(i) => s[i] = intent[i].gen /\ s[i] # 0
             /\ ~ Setting(i) => s[i] = 0
             /\ intent[i].gen \in Nat
  <2>1. Setting(i) => intent[i].status = "queued" /\ intent[i].gen # 0
    BY <1>0 DEF ChoiceInv, Launch
  <2>. QED  BY <2>1, SettingFacts DEF QueuedSelections, Setting
<1>. HIDE DEF s
<1>2. ASSUME NEW i \in Id, IsLatest(i, s)
      PROVE  LaunchValue(s) = intent[i].value
  <2>1. PICK j \in Id : j = CHOOSE k \in Id : IsLatest(k, s)
    BY <1>2
  <2>2. IsLatest(j, s)
    BY <1>2, <2>1
  <2>3. ~ (j > i) /\ ~ (i > j)
    BY <1>2, <2>2 DEF IsLatest
  <2>4. j = i
    BY <2>3, SettingFacts
  <2>. QED  BY <1>2, <2>1, <2>4 DEF LaunchValue
<1>3. Launch'
  <2>1. \A i \in Id : Setting(i) => intent[i].status = "queued" /\ intent[i].gen # 0
    BY <1>0 DEF ChoiceInv, Launch
  <2>2. ASSUME NEW i \in Id
        PROVE  /\ s[i] # 0 => Setting(i) /\ s[i] <= intent[i].gen
               /\ Setting(i) => s[i] = intent[i].gen
               /\ IsLatest(i, s) => intent[i].value = LaunchValue(s)
    BY <1>1, <1>2
  <2>. QED  BY <1>0, <2>1, <2>2 DEF Launch, Setting, Is, IsLatest, s
<1>4. Holding'
  BY <1>0 DEF ChoiceInv, Holding
<1>5. ASSUME faults' = 0
      PROVE  Sending' /\ Kept'
  <2>1. Sending /\ Kept
    BY <1>0, <1>5 DEF ChoiceInv
  <2>. QED  BY <1>0, <2>1
     DEF Sending, Kept, IsNewest, Setting, Is, Untried, Arrived, Touched,
                             Dispatchable, Aim
<1>. QED  BY <1>3, <1>4, <1>5 DEF ChoiceInv

\* The entries once the session is there: a selection waits as before, or
\* was settled; nothing else becomes one.
LEMMA ReadyKeepsChoice ==
    ASSUME IInv, ChoiceInv, ~ Ready, Ready', CreationStep,
           NEW new, \A i \in Id : intent'[i] = [intent[i] EXCEPT !.status = new[i]],
           faults' = 0 => faults = 0,
           faults' = 0 => \A i \in Id : IsNewest(i) =>
              \/ new[i] = "queued"
              \/ /\ config'.value = intent[i].value
                 /\ \A j \in Id : Setting(j) => new[j] \notin {"queued", "waiting_for_session"}
    PROVE  ChoiceInv'
<1>0. UNCHANGED <<held, turn, step, net, handled, choice>>
  BY DEF CreationStep
<1>1. \A i \in Id : /\ intent'[i].kind = intent[i].kind /\ intent'[i].value = intent[i].value
                    /\ intent'[i].status = new[i]
  <2>. TAKE i \in Id
  <2>1. PICK e \in Intent : e = intent[i]
    BY DEF IInv, IntentsTypeOK
  <2>. QED  BY <2>1 DEF Intent
<1>2. /\ \A i \in Id : Setting(i)' <=> Setting(i)
      /\ \A i \in Id : ~ Touched(i)
      /\ held = NoValue
  <2>1. \A i \in Id : Setting(i)' <=> Setting(i)
    BY <1>1 DEF Setting, Is
  <2>2. \A i \in Id : ~ Touched(i)
    BY SettingFacts
  <2>. QED  BY <2>1, <2>2 DEF ChoiceInv, Holding
<1>3. Launch' /\ Holding'
  BY <1>0, <1>2 DEF Launch, Holding, Ready
<1>4. ASSUME faults' = 0
      PROVE  Sending' /\ Kept'
  <2>1. \A i \in Id : ~ Touched(i)'
    BY <1>0, <1>2 DEF Touched
  <2>2. Sending'
    BY <2>1 DEF Sending, Touched
  <2>3. ASSUME choice # NoValue
        PROVE  \E i \in Id : /\ IsNewest(i)' /\ intent'[i].value = choice
                             /\ Untried(i)' \/ (Aim' = choice /\ Arrived(i)')
    <3>1. PICK i \in Id : IsNewest(i) /\ intent[i].value = choice
      BY <1>4, <2>3 DEF ChoiceInv, Kept
    <3>2. IsNewest(i)' /\ intent'[i].value = choice
      BY <1>1, <1>2, <3>1 DEF IsNewest
    <3>3. CASE new[i] = "queued"
      BY <1>1, <3>2, <3>3 DEF Untried, Dispatchable
    <3>4. CASE /\ config'.value = intent[i].value
               /\ \A j \in Id : Setting(j) => new[j] \notin {"queued", "waiting_for_session"}
      <4>1. Aim' = choice
        BY <1>0, <1>2, <3>1, <3>4 DEF Aim
      <4>2. Arrived(i)'
        BY <1>1, <1>2, <2>1, <3>4 DEF Arrived, Dispatchable
      <4>. QED  BY <3>2, <4>1, <4>2
    <3>. QED  BY <1>4, <3>1, <3>3, <3>4
  <2>. QED  BY <1>0, <2>2, <2>3 DEF Kept
<1>. QED  BY <1>3, <1>4 DEF ChoiceInv

LEMMA CreatedKeepsChoice ==
    ASSUME IInv, ChoiceInv, NEW value \in Value, NEW known \in BOOLEAN,
           NEW offered \in SUBSET Value, SessionCreated(value, known, offered)
    PROVE  ChoiceInv'
<1>. DEFINE new == [i \in Id |-> Requeued(IF known THEN Settled(i, value, offered)
                                                    ELSE intent[i].status)]
<1>0. /\ creation.at = "creating" /\ ~ Ready /\ Ready' /\ CreationStep
      /\ config'.value = value
      /\ \A i \in Id : intent'[i] = [intent[i] EXCEPT !.status = new[i]]
  BY DEF SessionCreated, Materialized, Ready
<1>1. faults' = 0 => faults = 0 /\ value = creation.value
  BY SettingFacts DEF SessionCreated, Fault
<1>2. ASSUME faults' = 0, NEW n \in Id, IsNewest(n)
      PROVE  \/ new[n] = "queued"
             \/ /\ config'.value = intent[n].value
                /\ \A j \in Id : Setting(j) => new[j] \notin {"queued", "waiting_for_session"}
  <2>1. \A i \in Id : Setting(i) => intent[i].status = "queued" /\ intent[i].gen # 0
    BY <1>0 DEF ChoiceInv, Launch
  <2>2. CASE ~ known \/ creation.snapshot[n] = 0 \/ creation.snapshot[n] # intent[n].gen
    BY <1>2, <2>1, <2>2 DEF Settled, Requeued, IsNewest
  <2>3. CASE known /\ creation.snapshot[n] # 0 /\ creation.snapshot[n] = intent[n].gen
    <3>1. IsLatest(n, creation.snapshot)
      <4>1. \A j \in Id : j > n => creation.snapshot[j] = 0
        BY <1>0, <1>2 DEF ChoiceInv, Launch, IsNewest
      <4>. QED  BY <2>3, <4>1 DEF IsLatest
    <3>2. config'.value = intent[n].value
      BY <1>0, <1>1, <1>2, <2>3, <3>1 DEF ChoiceInv, Launch
    <3>3. ASSUME NEW j \in Id, Setting(j)
          PROVE  new[j] \notin {"queued", "waiting_for_session"}
      <4>1. j = n \/ j < n
        BY <1>2, <3>3, SettingFacts DEF IsNewest
      <4>2. creation.snapshot[j] = intent[j].gen
        BY <1>0, <2>3, <3>3, <4>1, SettingFacts DEF ChoiceInv, Launch
      <4>3. Settled(j, value, offered) \in {"reconciled", "failed", "stale"}
        BY <2>1, <3>3, <4>2 DEF Settled
      <4>. QED  BY <2>3, <4>3 DEF Requeued
    <3>. QED  BY <3>2, <3>3
  <2>. QED  BY <2>2, <2>3
<1>3. PICK statuses : statuses = new
  OBVIOUS
<1>. HIDE DEF new
<1>4. \A i \in Id : intent'[i] = [intent[i] EXCEPT !.status = statuses[i]]
  BY <1>0, <1>3
<1>5. faults' = 0 => faults = 0
  BY <1>1
<1>6. faults' = 0 => \A i \in Id : IsNewest(i) =>
         \/ statuses[i] = "queued"
         \/ /\ config'.value = intent[i].value
            /\ \A j \in Id : Setting(j) => statuses[j] \notin {"queued", "waiting_for_session"}
  BY <1>2, <1>3
<1>7. ~ Ready /\ Ready' /\ CreationStep
  BY <1>0
<1>. QED  BY <1>4, <1>5, <1>6, <1>7, ReadyKeepsChoice

LEMMA AdoptedKeepsChoice ==
    ASSUME IInv, ChoiceInv, NEW known \in BOOLEAN, NEW offered \in SUBSET Value,
           SessionAdopted(known, offered)
    PROVE  ChoiceInv'
<1>. DEFINE new == [i \in Id |-> Requeued(IF known THEN Applicable(i, offered)
                                                    ELSE intent[i].status)]
<1>0. /\ ~ Ready /\ Ready' /\ CreationStep
      /\ \A i \in Id : intent'[i] = [intent[i] EXCEPT !.status = new[i]]
  BY DEF SessionAdopted, Materialized, Ready
<1>1. faults' = 0 => faults = 0 /\ offered = Value
  BY SettingFacts DEF SessionAdopted, Fault
<1>2. ASSUME faults' = 0, NEW i \in Id, IsNewest(i)
      PROVE  new[i] = "queued"
  <2>1. Setting(i) /\ intent[i].status = "queued"
    BY <1>0, <1>2 DEF ChoiceInv, Launch, IsNewest
  <2>2. intent[i].value \in Value
    BY <2>1 DEF IInv, IntentsTypeOK, Intent, Setting, Is
  <2>. QED  BY <1>2, <1>1, <2>1, <2>2 DEF Applicable, Requeued
<1>3. PICK statuses : statuses = new
  OBVIOUS
<1>. HIDE DEF new
<1>4. /\ \A i \in Id : intent'[i] = [intent[i] EXCEPT !.status = statuses[i]]
      /\ faults' = 0 => \A i \in Id : IsNewest(i) => statuses[i] = "queued"
      /\ ~ Ready /\ Ready' /\ CreationStep /\ (faults' = 0 => faults = 0)
  BY <1>0, <1>2, <1>3, <1>1
<1>. QED  BY <1>4, ReadyKeepsChoice

LEMMA CreationKeepsChoice ==
    ASSUME IInv, ChoiceInv, CreationAct
    PROVE  ChoiceInv'
<1>1. CASE CreationFails
  <2>1. /\ UNCHANGED <<config, held, turn, choice, step, net, handled>>
        /\ ~ Ready /\ ~ Ready' /\ creation'.at # "creating" /\ faults' = faults + 1
    BY <1>1 DEF CreationFails, CreationStep, Ready, Fault
  <2>2. ASSUME NEW i \in Id
        PROVE  (Setting(i)' <=> Setting(i)) /\ (Setting(i) => Stays(i))
    <3>1. CASE Is(i, "prompt") /\ Here(i)
      <4>1. intent'[i] = [intent[i] EXCEPT !.status = "failed_before_dispatch"]
        BY <1>1, <3>1 DEF CreationFails
      <4>2. intent[i] \in Intent
        BY DEF IInv, IntentsTypeOK
      <4>. QED  BY <3>1, <4>1, <4>2 DEF Intent, Setting, Is
    <3>2. CASE ~ (Is(i, "prompt") /\ Here(i))
      <4>1. intent'[i] = intent[i]
        BY <1>1, <3>2 DEF CreationFails
      <4>. QED  BY <4>1 DEF Setting, Is, Stays
    <3>. QED  BY <3>1, <3>2
  <2>3. SettingsStay
    BY <2>1, <2>2 DEF SettingsStay
  <2>4. Holding'
    BY <2>1 DEF ChoiceInv, Holding
  <2>5. faults' # 0
    BY <2>1, SettingFacts
  <2>. QED  BY <2>3, <2>4, <2>5, SettingsAside
<1>. QED  BY <1>1, BeginKeepsChoice, CreatedKeepsChoice, AdoptedKeepsChoice DEF CreationAct

-----------------------------------------------------------------------------
\* A step of the dispatch of one intent that begins nothing for a selection.
LEMMA DispatchAside ==
    ASSUME IInv, ChoiceInv, NEW i \in Id, DispatchStep,
           faults' = 0 => faults = 0,
           intent'[i].kind = intent[i].kind,
           Setting(i) => Stays(i) /\ (faults' = 0 => Goes(i)),
           \A j \in Id : j # i =>
              intent'[j] = intent[j] /\ step'[j] = step[j] /\ net'[j].at = net[j].at
    PROVE  ChoiceInv'
<1>1. UNCHANGED <<creation, config, held, turn, handled, choice>>
  BY DEF DispatchStep, serverVars
<1>2. \A j \in Id : (Setting(j)' <=> Setting(j)) /\ (Setting(j) => Stays(j))
  BY DEF Setting, Is, Stays
<1>3. SettingsStay
  BY <1>1, <1>2 DEF SettingsStay, Ready
<1>4. Holding' /\ Aim' = Aim
  BY <1>1 DEF ChoiceInv, Holding, Aim, Ready
<1>5. faults' = 0 => \A j \in Id : Setting(j) => Goes(j)
  <2>1. \A j \in Id : j # i => Goes(j)
    BY <1>1 DEF Goes, Dispatchable
  <2>. QED  BY <2>1
<1>. QED  BY <1>1, <1>3, <1>4, <1>5, SettingsAside

\* Of a patch, what concerns the selections.
LEMMA PatchFacts ==
    ASSUME IInv, NEW i \in Id, NEW s, intent' = intent \/ intent' = Patched(i, s)
    PROVE  /\ intent'[i].kind = intent[i].kind
           /\ intent'[i].value = intent[i].value /\ intent'[i].gen = intent[i].gen
           /\ intent'[i].status \in {intent[i].status, s}
           /\ intent' = Patched(i, s) /\ Here(i) => intent'[i].status = s
           /\ \A j \in Id : j # i => intent'[j] = intent[j]
<1>1. PICK e \in Intent : e = intent[i]
  BY DEF IInv, IntentsTypeOK
<1>. QED  BY <1>1 DEF Patched, Intent, IInv, IntentsTypeOK

\* The dispatch of a selection begins, or its request leaves: it stays on its
\* way, and nothing had arrived that came after it.
LEMMA SendingKeepsChoice ==
    ASSUME IInv, ChoiceInv, NEW i \in Id, DispatchStep, Setting(i), UNCHANGED faults,
           Ready, step[i] = "target" \/ Dispatchable(i),
           intent'[i].kind = intent[i].kind,
           intent'[i].value = intent[i].value, intent'[i].gen = intent[i].gen,
           \/ /\ step'[i] = "target" /\ net'[i].at # "request"
              /\ intent'[i].status = "dispatching"
           \/ step'[i] = "sent" /\ net'[i].at = "request",
           \A j \in Id : j # i =>
              intent'[j] = intent[j] /\ step'[j] = step[j] /\ net'[j].at = net[j].at
    PROVE  ChoiceInv'
<1>1. UNCHANGED <<creation, config, held, turn, handled, choice>>
  BY DEF DispatchStep, serverVars
<1>2. \A j \in Id : (Setting(j)' <=> Setting(j)) /\ (Setting(j) => Stays(j))
  BY DEF Setting, Is, Stays
<1>3. Launch'
  BY <1>1, <1>2, LaunchStays DEF ChoiceInv, SettingsStay, Ready
<1>4. Holding'
  BY <1>1 DEF ChoiceInv, Holding, Ready
<1>5. ASSUME faults' = 0
      PROVE  Sending' /\ Kept'
  <2>1. Sending /\ Kept
    BY <1>5 DEF ChoiceInv
  <2>2. Sending'
    <3>1. ASSUME NEW j \in Id, Setting(j)'
          PROVE  /\ step'[j] # "prepare"
                 /\ step'[j] = "target" => intent'[j].status = "dispatching"
                 /\ net'[j].at = "request" => step'[j] = "sent"
      <4>1. CASE j = i
        BY <4>1
      <4>2. CASE j # i
        BY <2>1, <3>1, <4>2, <1>2 DEF Sending
      <4>. QED  BY <4>1, <4>2
    <3>. QED  BY <3>1 DEF Sending
  <2>3. ASSUME choice # NoValue
        PROVE  \E n \in Id : /\ IsNewest(n)' /\ intent'[n].value = choice
                             /\ Untried(n)' \/ (Aim' = choice /\ Arrived(n)')
    <3>1. PICK n \in Id : /\ IsNewest(n) /\ intent[n].value = choice
                          /\ Untried(n) \/ (Aim = choice /\ Arrived(n))
      BY <2>1, <2>3 DEF Kept
    <3>2. IsNewest(n)' /\ intent'[n].value = choice
      BY <1>2, <3>1 DEF IsNewest, Stays
    <3>3. CASE n = i
      <4>1. Untried(n)'
        BY <3>3 DEF Untried
      <4>. QED  BY <3>2, <4>1
    <3>4. CASE n # i
      <4>1. Untried(n) => Untried(n)'
        BY <3>4 DEF Untried, Dispatchable
      <4>2. Arrived(n) => n \in handled
        BY DEF Arrived, Touched
      <4>3. Aim' = Aim /\ (n \in handled => Arrived(n)')
        BY <1>1 DEF Aim, Arrived
      <4>. QED  BY <3>1, <3>2, <4>1, <4>2, <4>3
    <3>. QED  BY <3>3, <3>4
  <2>. QED  BY <1>1, <2>2, <2>3 DEF Kept
<1>. QED  BY <1>3, <1>4, <1>5 DEF ChoiceInv

LEMMA DispatchKeepsChoice ==
    ASSUME IInv, ChoiceInv, NEW i \in Id, Dispatch(i)
    PROVE  ChoiceInv'
<1>1. /\ Ready /\ Dispatchable(i) /\ Here(i) /\ UNCHANGED <<net, faults>> /\ DispatchStep
      /\ ~ Touched(i)
  BY SettingFacts DEF Dispatch, IsNext, Dispatchable, Here
<1>2. net[i].at = "none"
  BY <1>1 DEF Touched
<1>3. CASE Is(i, "prompt")
  <2>1. /\ intent' = Patched(i, "preparing") /\ \A j \in Id : j # i => step'[j] = step[j]
    BY <1>3 DEF Dispatch, IInv, IntentsTypeOK
  <2>2. ~ Setting(i)
    BY <1>3 DEF Setting, Is
  <2>. QED  BY <1>1, <2>1, <2>2, PatchFacts, DispatchAside
<1>4. CASE ~ Is(i, "prompt")
  <2>1. /\ intent' = Patched(i, "dispatching") /\ step'[i] = "target"
        /\ \A j \in Id : j # i => step'[j] = step[j]
    BY <1>4 DEF Dispatch, IInv, IntentsTypeOK
  <2>2. /\ intent'[i].kind = intent[i].kind /\ intent'[i].value = intent[i].value
        /\ intent'[i].gen = intent[i].gen /\ intent'[i].status = "dispatching"
        /\ \A j \in Id : j # i => intent'[j] = intent[j]
    BY <1>1, <2>1, PatchFacts
  <2>3. CASE Setting(i)
    BY <1>1, <1>2, <2>1, <2>2, <2>3, SendingKeepsChoice
  <2>4. CASE ~ Setting(i)
    BY <1>1, <2>1, <2>2, <2>4, DispatchAside
  <2>. QED  BY <2>3, <2>4
<1>. QED  BY <1>3, <1>4

LEMMA ResolvedKeepsChoice ==
    ASSUME IInv, ChoiceInv, NEW i \in Id, TargetResolved(i)
    PROVE  ChoiceInv'
<1>1. /\ step[i] = "target" /\ DispatchStep /\ UNCHANGED faults /\ Touched(i)
      /\ net[i].at = "none"
  BY DEF TargetResolved, Touched, IInv, Order, Requests
<1>2. Ready /\ ~ Dispatchable(i)
  BY <1>1, SettingFacts
<1>3. /\ intent' = intent \/ (Is(i, "prompt") /\ intent' = Patched(i, "dispatching"))
      /\ \A j \in Id : j # i => step'[j] = step[j] /\ net'[j].at = net[j].at
  BY DEF TargetResolved, Finished, IInv, IntentsTypeOK
<1>4. /\ intent'[i].kind = intent[i].kind /\ intent'[i].value = intent[i].value
      /\ intent'[i].gen = intent[i].gen
      /\ \A j \in Id : j # i => intent'[j] = intent[j]
  BY <1>3, PatchFacts
<1>5. CASE ~ Setting(i)
  BY <1>1, <1>3, <1>4, <1>5, DispatchAside
<1>6. CASE Setting(i) /\ intent[i].status = "dispatching"
  <2>1. step'[i] = "sent" /\ net'[i].at = "request"
    BY <1>6 DEF TargetResolved, IInv, IntentsTypeOK
  <2>. QED  BY <1>1, <1>2, <1>3, <1>4, <1>6, <2>1, SendingKeepsChoice
<1>7. CASE Setting(i) /\ intent[i].status # "dispatching"
  <2>1. faults # 0
    BY <1>1, <1>7 DEF ChoiceInv, Sending
  <2>2. Stays(i)
    BY <1>2, <1>4 DEF Stays
  <2>. QED  BY <1>1, <1>3, <1>4, <2>1, <2>2, DispatchAside
<1>. QED  BY <1>5, <1>6, <1>7

\* A dispatch ends.
LEMMA EndedKeepsChoice ==
    ASSUME IInv, ChoiceInv, NEW i \in Id, DispatchStep, Finished(i),
           faults' = 0 => faults = 0,
           step[i] # "none",
           NEW s, intent' = intent \/ intent' = Patched(i, s),
           s \notin {"queued", "waiting_for_session"},
           net' = net \/ net' = [net EXCEPT ![i] = Quiet],
           Setting(i) /\ faults' = 0 => step[i] # "target" /\ net'[i].at # "request"
                                        /\ net[i].at # "request"
    PROVE  ChoiceInv'
<1>1. Touched(i) /\ Ready /\ ~ Dispatchable(i)
  BY SettingFacts DEF Touched
<1>2. /\ step'[i] = "none" /\ \A j \in Id : j # i => step'[j] = step[j]
      /\ \A j \in Id : j # i => net'[j].at = net[j].at
  BY DEF Finished, IInv, IntentsTypeOK
<1>3. /\ intent'[i].kind = intent[i].kind
      /\ intent'[i].value = intent[i].value /\ intent'[i].gen = intent[i].gen
      /\ intent'[i].status \in {intent[i].status, s}
      /\ \A j \in Id : j # i => intent'[j] = intent[j]
  BY PatchFacts
<1>4. Stays(i)
  BY <1>1, <1>3 DEF Stays
<1>5. Setting(i) /\ faults' = 0 => Goes(i)
  <2>1. Dispatchable(i)' <=> Dispatchable(i)
    BY <1>1, <1>3 DEF Dispatchable
  <2>2. UNCHANGED handled
    BY DEF DispatchStep, serverVars
  <2>. QED  BY <1>1, <1>2, <2>1, <2>2 DEF Goes
<1>. QED  BY <1>2, <1>3, <1>4, <1>5, DispatchAside

LEMMA DispatcherKeepsChoice ==
    ASSUME IInv, ChoiceInv, DispatcherAct
    PROVE  ChoiceInv'
<1>1. CASE LookInVain \/ Remount
  <2>1. /\ UNCHANGED <<config, held, turn, choice, faults, step, net, handled, intent, creation>>
    BY <1>1 DEF LookInVain, Remount, DispatchStep, serverVars
  <2>. QED  BY <2>1, ClientAside DEF Setting, Is, Ready
<1>2. ASSUME NEW i \in Id, PromptPrepared(i)
      PROVE  ChoiceInv'
  <2>1. step[i] = "prepare" /\ DispatchStep /\ UNCHANGED <<intent, net, faults>>
    BY <1>2 DEF PromptPrepared
  <2>2. \A j \in Id : j # i => step'[j] = step[j]
    BY <1>2 DEF PromptPrepared, Finished, IInv, IntentsTypeOK
  <2>3. Setting(i) => faults # 0 /\ Ready
    <3>1. Touched(i)
      BY <2>1 DEF Touched
    <3>. QED  BY <2>1, <3>1, SettingFacts DEF ChoiceInv, Sending
  <2>. QED  BY <2>1, <2>2, <2>3, DispatchAside DEF Stays
<1>3. ASSUME NEW i \in Id, UnsentFails(i) \/ GivenUp(i)
      PROVE  ChoiceInv'
  <2>1. /\ DispatchStep /\ Finished(i) /\ faults' = faults + 1 /\ step[i] # "none"
        /\ net' = net \/ net' = [net EXCEPT ![i] = Quiet]
    BY <1>3 DEF UnsentFails, GivenUp, Fault
  <2>2. PICK s \in {"failed_before_dispatch", "failed", "unknown_after_dispatch"} :
           intent' = intent \/ intent' = Patched(i, s)
    BY <1>3 DEF UnsentFails, GivenUp, FailedUnsent, Unanswered
  <2>3. faults' # 0
    BY <2>1, SettingFacts
  <2>. QED  BY <2>1, <2>2, <2>3, EndedKeepsChoice
<1>4. ASSUME NEW i \in Id, PromptAnswered(i) \/ ConfigAnswered(i) \/ OtherAnswered(i)
      PROVE  ChoiceInv'
  <2>1. /\ DispatchStep /\ Finished(i) /\ UNCHANGED faults
        /\ net' = [net EXCEPT ![i] = Quiet]
        /\ step[i] = "sent" /\ net[i].at \in Answers
    BY <1>4 DEF PromptAnswered, ConfigAnswered, OtherAnswered, AnswerStep, Settles, Answers
  <2>2. net[i].at # "request" /\ net'[i].at # "request"
    BY <2>1 DEF Answers, Quiet, IInv, IntentsTypeOK
  <2>3. PICK s \in {"accepted_running", "accepted_queued", "failed_before_dispatch", "accepted",
                    "failed", "stale"} :
           intent' = intent \/ intent' = Patched(i, s)
    BY <1>4 DEF PromptAnswered, ConfigAnswered, OtherAnswered
  <2>. QED  BY <2>1, <2>2, <2>3, EndedKeepsChoice
<1>. QED  BY <1>1, <1>2, <1>3, <1>4, DispatchKeepsChoice DEF DispatcherAct

-----------------------------------------------------------------------------
\* A step of the runtime that neither takes a selection nor changes its aim.
LEMMA RuntimeAside ==
    ASSUME IInv, ChoiceInv, UNCHANGED clientVars, Holding',
           faults' = 0 => /\ faults = 0 /\ UNCHANGED choice /\ Aim' = Aim
                          /\ \A j \in Id : Setting(j) => /\ net'[j].at = net[j].at
                                                         /\ j \in handled' <=> j \in handled
    PROVE  ChoiceInv'
<1>1. UNCHANGED <<intent, creation, step>>
  BY DEF clientVars
<1>2. SettingsStay
  BY <1>1 DEF SettingsStay, Ready, Setting, Is, Stays
<1>3. faults' = 0 => \A j \in Id : Setting(j) => Goes(j)
  BY <1>1 DEF Goes, Dispatchable
<1>. QED  BY <1>2, <1>3, SettingsAside

\* The runtime takes a selection: nothing newer arrived before it.
LEMMA TakenSelection ==
    ASSUME IInv, ChoiceInv, NEW i \in Id, Handle(i), Setting(i)
    PROVE  ChoiceInv'
<1>0. /\ net[i].at = "request" /\ handled' = handled \union {i} /\ HandleConfig(i)
      /\ UNCHANGED clientVars /\ UNCHANGED historyVars /\ UNCHANGED turn
  BY DEF Handle, RuntimeStep, HandleConfig, HandlePrompt, HandleResolve, HandleMutation,
     Setting, Is
<1>1. UNCHANGED <<intent, creation, step, choice, faults>>
  BY <1>0 DEF clientVars, historyVars
<1>2. Touched(i) /\ Ready /\ ~ Dispatchable(i) /\ intent[i].value \in Value
  BY <1>0, SettingFacts DEF Touched
<1>3. /\ \A j \in Id : j # i => net'[j] = net[j]
      /\ net'[i].at # "request"
  BY <1>0 DEF HandleConfig, Answer, Quiet, IInv, IntentsTypeOK
<1>4. Aim' = intent[i].value /\ Holding'
  <2>1. CASE turn = 0
    <3>1. held = NoValue /\ held' = held /\ Configure(intent[i].value)
      BY <1>0, <2>1 DEF HandleConfig, ChoiceInv, Holding
    <3>2. config'.value = intent[i].value
      BY <3>1 DEF Configure
    <3>. QED  BY <3>1, <3>2 DEF Aim, Holding
  <2>2. CASE turn # 0
    <3>1. held' = intent[i].value
      BY <1>0, <2>2 DEF HandleConfig
    <3>2. held' # NoValue
      BY <3>1, <1>2, NoValueAssumption
    <3>. QED  BY <3>1, <3>2, <2>2, <1>0, <1>1, <1>2 DEF Aim, Holding, Ready
  <2>. QED  BY <2>1, <2>2
<1>5. Launch'
  <2>1. SettingsStay
    BY <1>1 DEF SettingsStay, Ready, Setting, Is, Stays
  <2>. QED  BY <2>1, LaunchStays DEF ChoiceInv
<1>6. ASSUME faults' = 0
      PROVE  Sending' /\ Kept'
  <2>1. Sending /\ Kept
    BY <1>1, <1>6 DEF ChoiceInv
  <2>2. Sending'
    <3>1. ASSUME NEW j \in Id, Setting(j)
          PROVE  /\ step[j] # "prepare"
                 /\ step[j] = "target" => intent[j].status = "dispatching"
                 /\ net'[j].at = "request" => step[j] = "sent"
      BY <2>1, <3>1, <1>3 DEF Sending
    <3>. QED  BY <3>1, <1>1 DEF Sending, Setting, Is
  <2>3. ASSUME choice # NoValue
        PROVE  \E n \in Id : /\ IsNewest(n)' /\ intent'[n].value = choice
                             /\ Untried(n)' \/ (Aim' = choice /\ Arrived(n)')
    <3>1. PICK n \in Id : /\ IsNewest(n) /\ intent[n].value = choice
                          /\ Untried(n) \/ (Aim = choice /\ Arrived(n))
      BY <2>1, <2>3 DEF Kept
    <3>2. IsNewest(n)' /\ intent'[n].value = choice
      BY <1>1, <3>1 DEF IsNewest, Setting, Is
    <3>3. CASE n = i
      BY <1>0, <1>4, <3>1, <3>2, <3>3 DEF Arrived
    <3>4. CASE n # i
      <4>1. Under(i) /\ Here(i)
        BY <1>0, <2>1, SettingFacts DEF Sending, Under
      <4>2. i < n
        BY <3>1, <3>4, SettingFacts DEF IsNewest
      <4>3. ~ Touched(n)
        <5>1. Touched(n) => n < i
          BY <3>4, <4>1 DEF IInv, Order, InOrder
        <5>. QED  BY <4>2, <5>1, SettingFacts
      <4>4. ~ Arrived(n)
        BY <1>2, <4>3 DEF Arrived, Touched
      <4>5. Dispatchable(n)
        BY <3>1, <4>3, <4>4 DEF Untried, Touched
      <4>6. Untried(n)'
        BY <1>1, <4>5 DEF Untried, Dispatchable
      <4>. QED  BY <3>2, <4>6
    <3>. QED  BY <3>3, <3>4
  <2>. QED  BY <1>1, <2>2, <2>3 DEF Kept
<1>. QED  BY <1>4, <1>5, <1>6 DEF ChoiceInv

LEMMA RuntimeKeepsChoice ==
    ASSUME IInv, ChoiceInv, RuntimeAct
    PROVE  ChoiceInv'
<1>1. ASSUME NEW i \in Id, Handle(i), ~ Setting(i)
      PROVE  ChoiceInv'
  <2>1. /\ UNCHANGED <<config, held>> /\ turn' \in {turn, i} /\ UNCHANGED clientVars
        /\ UNCHANGED <<choice, faults>> /\ handled' = handled \union {i}
        /\ \A j \in Id : j # i => net'[j] = net[j]
    BY <1>1
       DEF Handle, HandlePrompt, HandleConfig, HandleResolve, HandleMutation, RuntimeStep,
                historyVars, Setting, Answer, IInv, IntentsTypeOK
  <2>2. i # 0
    BY SettingFacts
  <2>3. Holding' /\ Aim' = Aim
    BY <2>1, <2>2 DEF ChoiceInv, Holding, Aim, Ready, clientVars
  <2>. QED  BY <1>1, <2>1, <2>3, RuntimeAside
<1>2. ASSUME NEW i \in Id, Refuse(i) \/ Vanish(i)
      PROVE  ChoiceInv'
  <2>1. /\ UNCHANGED <<clientVars, config, held, turn, choice, handled>>
        /\ net[i].at = "request" /\ \A j \in Id : j # i => net'[j] = net[j]
        /\ faults' = faults + 1 \/ (faults' = faults /\ step[i] = "none")
    BY <1>2 DEF Refuse, Vanish, Fault, serverVars, historyVars, IInv, IntentsTypeOK
  <2>2. faults' = 0 => faults = 0 /\ step[i] = "none"
    BY <2>1, SettingFacts
  <2>3. Setting(i) => faults' # 0
    BY <2>1, <2>2 DEF ChoiceInv, Sending
  <2>4. Holding' /\ Aim' = Aim
    BY <2>1 DEF ChoiceInv, Holding, Aim, Ready, clientVars
  <2>. QED  BY <2>1, <2>2, <2>3, <2>4, RuntimeAside
<1>3. CASE Ask
  <2>1. UNCHANGED <<clientVars, config, held, turn, choice, faults, handled, net>>
    BY <1>3 DEF Ask, RuntimeStep, historyVars
  <2>2. Holding' /\ Aim' = Aim
    BY <2>1 DEF ChoiceInv, Holding, Aim, Ready, clientVars
  <2>. QED  BY <2>1, <2>2, RuntimeAside
<1>4. CASE EndTurn
  <2>1. UNCHANGED <<clientVars, choice, faults, handled, net>> /\ held' = NoValue
    BY <1>4 DEF EndTurn, RuntimeStep, historyVars
  <2>2. Holding'
    BY <2>1 DEF Holding
  <2>3. Aim' = Aim
    BY <1>4, <2>1 DEF EndTurn, Configure, Aim
  <2>. QED  BY <2>1, <2>2, <2>3, RuntimeAside
<1>5. CASE DrainQueue
  <2>1. UNCHANGED <<clientVars, config, held, choice, faults, handled, net>> /\ turn = 0
    BY <1>5 DEF DrainQueue, RuntimeStep, historyVars
  <2>2. Holding' /\ Aim' = Aim
    BY <2>1 DEF ChoiceInv, Holding, Aim, Ready, clientVars
  <2>. QED  BY <2>1, <2>2, RuntimeAside
<1>. QED  BY <1>1, <1>2, <1>3, <1>4, <1>5, TakenSelection DEF RuntimeAct

\* An event ends a selection that was sent, and leaves its way to the runtime.
LEMMA StreamKeepsChoice ==
    ASSUME IInv, ChoiceInv, StreamAct, \A i \in Id : step[i] # "target"
    PROVE  ChoiceInv'
<1>0. UNCHANGED <<creation, step, net, serverVars, historyVars>>
  BY DEF StreamAct, Deliver, PruneEchoedTombstone
<1>1. UNCHANGED <<creation, step, net, config, held, turn, handled, choice, faults>>
  BY <1>0 DEF serverVars, historyVars
<1>2. ASSUME NEW i \in Id, ~ Setting(i), NEW s, intent' = Patched(i, s)
      PROVE  ChoiceInv'
  <2>1. \A j \in Id : (Setting(j)' <=> Setting(j)) /\ (Setting(j) => intent'[j] = intent[j])
    BY <1>2, PatchFacts DEF Setting, Is
  <2>. QED  BY <1>1, <2>1, ClientAside DEF Ready
<1>3. ASSUME NEW i \in Id, PruneEchoedTombstone(i)
      PROVE  ChoiceInv'
  <2>1. intent' = Patched(i, "absent") /\ ~ Setting(i)
    BY <1>3, SettingFacts DEF PruneEchoedTombstone, OtherStatus
  <2>. QED  BY <1>2, <2>1
<1>4. CASE Deliver
  <2>0. feed \in Seq(EventRecord) /\ feed # <<>>
    BY <1>4 DEF Deliver, IInv, IntentsTypeOK, EventRecord
  <2>1. PICK e \in EventRecord : e = Head(feed)
    BY <2>0, HeadTailProperties
  <2>2. IsTrue(e)
    <3>1. 1 \in 1..Len(feed) /\ Head(feed) = feed[1]
      BY <2>0, HeadTailProperties, LenProperties
    <3>2. IsTrue(feed[1])
      BY <3>1 DEF IInv, Order, Records
    <3>. QED  BY <2>1, <3>1, <3>2
  <2>3. intent' = ReconcileOutboxFromEnvelope(e)
    BY <1>4, <2>1 DEF Deliver
  <2>4. CASE e.type \in PromptEvents
    <3>1. e.id \in Id /\ ~ Setting(e.id)
      BY <2>2, <2>4 DEF IsTrue, IInv, IntentsTypeOK, Setting, Is
    <3>2. PICK s : intent' = Patched(e.id, s)
      BY <2>3, <2>4 DEF ReconcileOutboxFromEnvelope, PromptEvents, RunEvents
    <3>. QED  BY <1>2, <3>1, <3>2
  <2>5. CASE e.type \in {"config_option_update", "interaction_resolved", "interaction_requested"}
    <3>1. ASSUME NEW j \in Id
          PROVE  /\ intent'[j].kind = intent[j].kind /\ intent'[j].value = intent[j].value
                 /\ intent'[j].gen = intent[j].gen
                 /\ \/ intent'[j].status = intent[j].status
                    \/ /\ intent'[j].status = "reconciled"
                       /\ Setting(j) => intent[j].status \in {"accepted", "dispatching"}
      <4>1. PICK f \in Intent : f = intent[j]
        BY DEF IInv, IntentsTypeOK
      <4>2. \/ intent'[j] = intent[j]
            \/ /\ Reconciles(j, e) \/ Is(j, "resolve")
               /\ intent'[j] = [intent[j] EXCEPT !.status = "reconciled"]
        BY <2>3, <2>5 DEF ReconcileOutboxFromEnvelope
      <4>. QED  BY <4>1, <4>2 DEF Intent, Reconciles, Setting, Is
    <3>2. \A j \in Id : /\ Setting(j)' <=> Setting(j)
                        /\ Setting(j) => /\ intent'[j].status = intent[j].status \/ Ready
                                         /\ Dispatchable(j)' <=> Dispatchable(j)
      BY <3>1 DEF Setting, Is, ChoiceInv, Launch, Dispatchable
    <3>3. SettingsStay
      BY <1>1, <3>1, <3>2 DEF SettingsStay, Stays, Ready
    <3>4. \A j \in Id : Setting(j) => Goes(j)
      BY <1>1, <3>2 DEF Goes
    <3>5. Holding' /\ Aim' = Aim
      BY <1>1 DEF ChoiceInv, Holding, Aim, Ready
    <3>. QED  BY <1>1, <3>3, <3>4, <3>5, SettingsAside
  <2>. QED  BY <2>4, <2>5 DEF EventRecord, EventType, PromptEvents, RunEvents
<1>. QED  BY <1>3, <1>4 DEF StreamAct

LEMMA ChoiceStep ==
    ASSUME IInv, ChoiceInv, ~ Remote, [Next]_vars
    PROVE  ChoiceInv'
<1>1. CASE \E i \in Id : TargetResolved(i)
  BY <1>1, ResolvedKeepsChoice
<1>2. CASE /\ \A i \in Id : step[i] # "target"
           /\ UserAct \/ CreationAct \/ DispatcherAct \/ RuntimeAct \/ StreamAct
  BY <1>2, UserKeepsChoice, CreationKeepsChoice, DispatcherKeepsChoice, RuntimeKeepsChoice,
     StreamKeepsChoice
<1>3. CASE UNCHANGED vars
  <2>1. UNCHANGED <<config, held, turn, choice, faults, step, net, handled, intent, creation>>
    BY <1>3 DEF vars, clientVars, serverVars, historyVars
  <2>. QED  BY <2>1, ClientAside DEF Setting, Is, Ready
<1>. QED  BY <1>1, <1>2, <1>3 DEF Next

LEMMA InitChoice ==
    ASSUME Init
    PROVE  ChoiceInv
<1>1. \A i \in Id : ~ Setting(i)
  BY DEF Init, Unborn, Setting, Is
<1>2. ~ Ready /\ creation.at # "creating" /\ held = NoValue /\ choice = NoValue
  BY DEF Init, Ready
<1>. QED  BY <1>1, <1>2 DEF ChoiceInv, Launch, Holding, Sending, Kept

\* On a local workspace, where a request leaves as soon as its dispatch
\* begins, and without faults: once no selection is queued, being dispatched,
\* requested or held back, the runtime has the value the user chose last,
\* however often it was chosen and whether before, during or after the
\* creation of the session or during a turn.
THEOREM LastChoiceKept == ~ Remote => (Spec => []LastChoiceWins)
<1>. SUFFICES ASSUME ~ Remote PROVE Spec => []LastChoiceWins
  OBVIOUS
<1>1. IInv /\ ChoiceInv /\ [Next]_vars => ChoiceInv'
  BY ChoiceStep
<1>2. IInv /\ ChoiceInv => LastChoiceWins
  <2>. SUFFICES ASSUME IInv, ChoiceInv, SettingIsQuiet, choice # NoValue
                PROVE  config.value = choice
    BY DEF LastChoiceWins
  <2>1. Sending /\ Kept /\ held = NoValue
    BY DEF ChoiceInv, SettingIsQuiet
  <2>2. PICK n \in Id : /\ IsNewest(n)
                        /\ Untried(n) \/ (Aim = choice /\ Arrived(n))
    BY <2>1 DEF Kept
  <2>3. ~ Untried(n)
    <3>1. Setting(n) /\ intent[n].status \in OtherStatus
      BY <2>2, SettingFacts DEF IsNewest
    <3>. QED  BY <2>1, <3>1
       DEF Untried, Dispatchable, Sending, SettingIsQuiet, Setting, OtherStatus
  <2>. QED  BY <2>1, <2>2, <2>3 DEF Aim
<1>. QED  BY <1>1, <1>2, InitChoice, IntentsInvariant, PTL DEF Spec
=============================================================================
