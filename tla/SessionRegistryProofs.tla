----------------------- MODULE SessionRegistryProofs -----------------------
(***************************************************************************)
(* As long as the callers leave the map entry to the actor's own exit, one *)
(* generation at a time numbers events, the log accepts all of them, and   *)
(* no generation begins a turn beside one that another has left open: for  *)
(* any number of callers, generations, events and faults.                  *)
(***************************************************************************)
EXTENDS SessionRegistry, TLAPS

\* A session whose native id is recorded, used by orderly callers.
OrderlyUse == Established /\ Operations \in [Caller -> SUBSET Orderly]

-----------------------------------------------------------------------------
(***************************************************************************)
(* The inductive invariant, in parts.                                      *)
(***************************************************************************)
Shape ==
    /\ live \in Generation \cup {None}
    /\ born \in 0..MaxGenerations
    /\ phase \in [Generation -> Phases]
    /\ nextSeq \in [Generation -> Nat \ {0}]
    /\ Seqs \subseteq Nat
    /\ native = TRUE

\* No caller removes an entry that is not its own, or starts afresh.
Holding == {"join", "await", "send", "handoff"}

CallersOrderly ==
    /\ caller \in [Caller -> Calls]
    /\ \A c \in Caller :
         /\ caller[c].op \in {"none"} \cup Orderly
         /\ caller[c].at \notin {"remove", "mark", "reaped"}
         /\ caller[c].at \in Holding => caller[c].held # None
         /\ ~caller[c].fresh

\* From the repair of the log to the installation the map is empty, and locked.
Installing ==
    /\ \A c \in Caller : caller[c].at = "install" => live = None /\ born < MaxGenerations
    /\ \A c, d \in Caller : caller[c].at = "install" /\ caller[d].at = "install" => c = d

\* The log has a last number.
HasLast == \E n \in Seqs \cup {0} : \A m \in Seqs : m <= n

LogInv == HasLast /\ EventsAccepted

HInv == Shape /\ CallersOrderly /\ Installing /\ SingleWriter /\ LogInv

-----------------------------------------------------------------------------
\* What LastSeq returns.
LEMMA LastSeqBound ==
    ASSUME HasLast, Seqs \subseteq Nat
    PROVE  LastSeq \in Nat /\ LastSeq \in Seqs \cup {0} /\ \A m \in Seqs : m <= LastSeq
<1>. DEFINE Bounds(n) == \A m \in Seqs : m <= n
<1>1. \E n \in Seqs \cup {0} : Bounds(n)
  BY DEF HasLast
<1>2. LastSeq = CHOOSE n \in Seqs \cup {0} : Bounds(n)
  BY DEF LastSeq
<1>. HIDE DEF Bounds
<1>3. LastSeq \in Seqs \cup {0} /\ Bounds(LastSeq)
  BY <1>1, <1>2
<1>. QED  BY <1>3 DEF Bounds

\* A row numbered next after a bound leaves the log with a last number.
LEMMA HasLastGrows ==
    ASSUME Seqs \subseteq Nat, HasLast,
           NEW n \in Nat, \A m \in Seqs : m <= n,
           Seqs \subseteq Seqs', Seqs' \subseteq Seqs \cup {n + 1}
    PROVE  HasLast' /\ Seqs' \subseteq Nat /\ \A m \in Seqs' : m <= n + 1
<1>1. Seqs' \subseteq Nat /\ \A m \in Seqs' : m <= n + 1
  OBVIOUS
<1>2. CASE n + 1 \in Seqs'
  BY <1>1, <1>2 DEF HasLast
<1>3. CASE n + 1 \notin Seqs'
  <2>1. Seqs' = Seqs
    BY <1>3
  <2>. QED  BY <2>1, <1>1 DEF HasLast
<1>. QED  BY <1>1, <1>2, <1>3

\* The numbers after an event is added.
LEMMA SeqsWith ==
    ASSUME NEW n, NEW kind, NEW t, log' = log \cup {Event(n, kind, t)}
    PROVE  Seqs' = Seqs \cup {n}
<1>1. Event(n, kind, t).seq = n
  BY DEF Event
<1>2. Seqs' = {e.seq : e \in log'}
  BY DEF Seqs
<1>. HIDE DEF Seqs
<1>3. \A m : m \in Seqs <=> \E e \in log : e.seq = m
  BY DEF Seqs
<1>4. \A m : m \in Seqs' <=> \E e \in log' : e.seq = m
  BY <1>2
<1>. QED  BY <1>1, <1>3, <1>4

\* The numbers after the repair of open turns.
LEMMA SeqsRepaired ==
    ASSUME log' = Repaired
    PROVE  Seqs \subseteq Seqs' /\ Seqs' \subseteq Seqs \cup {LastSeq + 1}
BY DEF Seqs, Repaired, Event

-----------------------------------------------------------------------------
(***************************************************************************)
(* What a step does to the log: nothing, the owner's next number, or the   *)
(* number after the last one while nobody owns the sequence.               *)
(***************************************************************************)
LEMMA LogQuiet ==
    ASSUME Shape, LogInv, UNCHANGED <<log, refused>>,
           \A g \in Generation : Owns(g)' => Owns(g) /\ nextSeq'[g] = nextSeq[g]
    PROVE  LogInv' /\ Seqs' \subseteq Nat
<1>1. Seqs' = Seqs
  BY DEF Seqs
<1>2. HasLast'
  BY <1>1 DEF LogInv, HasLast
<1>. QED  BY <1>1, <1>2 DEF LogInv, EventsAccepted, Shape

LEMMA LogAppend ==
    ASSUME Shape, LogInv, SingleWriter, NEW g \in Generation, Owns(g), NEW kind, NEW t,
           log' = log \cup {Event(nextSeq[g], kind, t)}, UNCHANGED refused,
           nextSeq' = [nextSeq EXCEPT ![g] = @ + 1],
           \A h \in Generation : Owns(h)' => Owns(h)
    PROVE  LogInv' /\ Seqs' \subseteq Nat /\ nextSeq' \in [Generation -> Nat \ {0}]
<1>1. Seqs' = Seqs \cup {nextSeq[g]}
  BY SeqsWith
<1>2. nextSeq[g] \in Nat \ {0} /\ \A m \in Seqs : m < nextSeq[g]
  BY DEF Shape, LogInv, EventsAccepted
<1>3. PICK n \in Nat : nextSeq[g] = n + 1
  <2>1. nextSeq[g] - 1 \in Nat /\ nextSeq[g] = (nextSeq[g] - 1) + 1
    BY <1>2
  <2>. QED  BY <2>1
<1>4. \A m \in Seqs : m <= n
  BY <1>2, <1>3 DEF Shape
<1>5. HasLast' /\ Seqs' \subseteq Nat /\ \A m \in Seqs' : m <= n + 1
  BY <1>1, <1>3, <1>4, HasLastGrows DEF Shape, LogInv
<1>6. \A h \in Generation : Owns(h)' => h = g
  BY DEF SingleWriter
<1>7. nextSeq' \in [Generation -> Nat \ {0}] /\ nextSeq'[g] = nextSeq[g] + 1
  BY <1>2 DEF Shape
<1>8. EventsAccepted'
  BY <1>2, <1>3, <1>5, <1>6, <1>7 DEF EventsAccepted, LogInv
<1>. QED  BY <1>5, <1>7, <1>8 DEF LogInv

LEMMA LogEmits ==
    ASSUME Shape, LogInv, SingleWriter, NEW g \in Generation, Owns(g), NEW kind, NEW t,
           Emits(g, kind, t), \A h \in Generation : Owns(h)' => Owns(h)
    PROVE  LogInv' /\ Seqs' \subseteq Nat /\ nextSeq' \in [Generation -> Nat \ {0}]
<1>1. nextSeq[g] \notin Seqs
  BY DEF Shape, LogInv, EventsAccepted
<1>2. log' = log \cup {Event(nextSeq[g], kind, t)} /\ UNCHANGED refused
  BY <1>1 DEF Emits
<1>3. nextSeq' = [nextSeq EXCEPT ![g] = @ + 1]
  BY DEF Emits
<1>. QED  BY <1>2, <1>3, LogAppend

LEMMA LogOffline ==
    ASSUME Shape, LogInv, SingleWriter, live = None, UNCHANGED <<phase, refused>>,
           \/ log' = Repaired
           \/ \E kind, t : log' = log \cup {Event(LastSeq + 1, kind, t)}
    PROVE  LogInv' /\ Seqs' \subseteq Nat
<1>1. LastSeq \in Nat /\ \A m \in Seqs : m <= LastSeq
  BY LastSeqBound DEF Shape, LogInv
<1>2. Seqs \subseteq Seqs' /\ Seqs' \subseteq Seqs \cup {LastSeq + 1}
  <2>1. CASE log' = Repaired
    BY <2>1, SeqsRepaired
  <2>2. CASE \E kind, t : log' = log \cup {Event(LastSeq + 1, kind, t)}
    <3>1. PICK kind, t : log' = log \cup {Event(LastSeq + 1, kind, t)}
      BY <2>2
    <3>. QED  BY <3>1, SeqsWith
  <2>. QED  BY <2>1, <2>2
<1>3. HasLast' /\ Seqs' \subseteq Nat
  BY <1>1, <1>2, HasLastGrows DEF Shape, LogInv
<1>4. \A g \in Generation : ~Owns(g)'
  BY DEF SingleWriter, Owns, Generation, None
<1>. QED  BY <1>3, <1>4 DEF LogInv, EventsAccepted

-----------------------------------------------------------------------------
(***************************************************************************)
(* Steps that leave the callers alone.                                     *)
(***************************************************************************)
LEMMA CallersKept ==
    ASSUME CallersOrderly, Installing, UNCHANGED <<caller, born>>, live' \in {live, None}
    PROVE  CallersOrderly' /\ Installing'
BY DEF CallersOrderly, Installing

\* The sequence changes hands only by an installation.
LEMMA OwnersKept ==
    ASSUME SingleWriter, UNCHANGED live, \A g \in Generation : Owns(g)' => Owns(g)
    PROVE  SingleWriter'
BY DEF SingleWriter

\* A step of one actor that writes nothing and installs nothing.
LEMMA ActorQuiet ==
    ASSUME HInv, NEW g \in Generation, NEW p \in Phases \ {"unborn"},
           phase' = [phase EXCEPT ![g] = p],
           p \in {"retired", "finished", "relinquished"} \/ Owns(g),
           \A h \in Generation : nextSeq'[h] = nextSeq[h] \/ ~Owns(h)',
           nextSeq' \in [Generation -> Nat \ {0}],
           UNCHANGED <<live, born, log, native, caller, refused>>
    PROVE  HInv'
<1>1. phase' \in [Generation -> Phases] /\ \A h \in Generation : Owns(h)' => Owns(h)
  BY DEF HInv, Shape, Owns, Phases
<1>2. LogInv' /\ Seqs' \subseteq Nat
  BY <1>1, LogQuiet DEF HInv
<1>3. Shape'
  BY <1>1, <1>2 DEF HInv, Shape
<1>4. SingleWriter'
  BY <1>1, OwnersKept DEF HInv
<1>5. CallersOrderly' /\ Installing'
  BY CallersKept DEF HInv
<1>. QED  BY <1>2, <1>3, <1>4, <1>5 DEF HInv

\* A step of one actor that writes its next event.
LEMMA ActorWrites ==
    ASSUME HInv, NEW g \in Generation, Owns(g), NEW p \in Phases \ {"unborn"},
           phase' = [phase EXCEPT ![g] = p], NEW kind, NEW t,
           \/ Emits(g, kind, t)
           \/ /\ log' = log \cup {Event(nextSeq[g], kind, t)}
              /\ nextSeq' = [nextSeq EXCEPT ![g] = @ + 1]
              /\ UNCHANGED refused,
           UNCHANGED <<live, born, native, caller>>
    PROVE  HInv'
<1>1. phase' \in [Generation -> Phases] /\ \A h \in Generation : Owns(h)' => Owns(h)
  BY DEF HInv, Shape, Owns, Phases
<1>2. LogInv' /\ Seqs' \subseteq Nat /\ nextSeq' \in [Generation -> Nat \ {0}]
  BY <1>1, LogEmits, LogAppend DEF HInv
<1>3. Shape'
  BY <1>1, <1>2 DEF HInv, Shape
<1>4. SingleWriter'
  BY <1>1, OwnersKept DEF HInv
<1>5. CallersOrderly' /\ Installing'
  BY CallersKept DEF HInv
<1>. QED  BY <1>2, <1>3, <1>4, <1>5 DEF HInv

\* A step of one actor whose next event is lost on the way to the log.
LEMMA ActorSkips ==
    ASSUME HInv, NEW g \in Generation, Owns(g), NEW p \in Phases \ {"unborn"},
           phase' = [phase EXCEPT ![g] = p],
           nextSeq' = [nextSeq EXCEPT ![g] = @ + 1],
           UNCHANGED <<live, born, log, native, caller, refused>>
    PROVE  HInv'
<1>1. phase' \in [Generation -> Phases] /\ \A h \in Generation : Owns(h)' => Owns(h)
  BY DEF HInv, Shape, Owns, Phases
<1>2. /\ nextSeq' \in [Generation -> Nat \ {0}]
      /\ \A h \in Generation : nextSeq'[h] >= nextSeq[h]
  BY DEF HInv, Shape
<1>3. Seqs' = Seqs
  BY DEF Seqs
<1>4. Shape' /\ HasLast'
  BY <1>1, <1>2, <1>3 DEF HInv, Shape, LogInv, HasLast
<1>5. ASSUME NEW h \in Generation, NEW n \in Seqs', Owns(h)'
      PROVE  n < nextSeq'[h]
  <2>1. n < nextSeq[h] /\ n \in Nat /\ nextSeq[h] \in Nat /\ nextSeq'[h] \in Nat
    BY <1>1, <1>2, <1>3, <1>5 DEF HInv, Shape, LogInv, EventsAccepted
  <2>. QED  BY <1>2, <2>1
<1>6. LogInv'
  BY <1>4, <1>5 DEF HInv, LogInv, EventsAccepted
<1>7. SingleWriter'
  BY <1>1, OwnersKept DEF HInv
<1>8. CallersOrderly' /\ Installing'
  BY CallersKept DEF HInv
<1>. QED  BY <1>4, <1>6, <1>7, <1>8 DEF HInv

LEMMA ActorPreserves ==
    ASSUME HInv, NEW g \in Generation, ActorStep(g) \/ Emit(g) \/ BeginTurn(g) \/ GiveUp(g)
    PROVE  HInv'
<1>. USE DEF Phases
<1>1. phase \in [Generation -> Phases] /\ nextSeq \in [Generation -> Nat \ {0}]
  BY DEF HInv, Shape
<1>2. CASE Emit(g)
  <2>1. Owns(g) /\ phase' = [phase EXCEPT ![g] = phase[g]] /\ phase[g] \in Phases \ {"unborn"}
    BY <1>1, <1>2 DEF Emit, Admitted, Owns
  <2>. QED  BY <2>1, <1>2, ActorWrites DEF Emit
<1>3. CASE BeginTurn(g)
  <2>1. Owns(g)
    BY <1>3 DEF BeginTurn, Owns
  <2>. QED  BY <2>1, <1>3, ActorWrites DEF BeginTurn
<1>4. CASE EndTurn(g)
  <2>1. Owns(g)
    BY <1>4 DEF EndTurn, Owns
  <2>2. PICK p \in Phases \ {"unborn"} : phase' = [phase EXCEPT ![g] = p]
    <3>1. \/ phase' = [phase EXCEPT ![g] = "idle"]
          \/ phase' = [phase EXCEPT ![g] = "closing"]
      BY <1>4 DEF EndTurn
    <3>. QED  BY <3>1
  <2>. QED  BY <2>1, <2>2, <1>4, ActorWrites DEF EndTurn
<1>5. CASE Finalize(g)
  <2>1. Owns(g)
    BY <1>5 DEF Finalize, Owns
  <2>2. CASE Emits(g, "session_ended", NoTurn)
    BY <2>1, <2>2, <1>5, ActorWrites DEF Finalize
  <2>3. CASE UNCHANGED <<nextSeq, log, refused>>
    BY <2>1, <2>3, <1>1, <1>5, ActorQuiet DEF Finalize
  <2>. QED  BY <2>2, <2>3, <1>5 DEF Finalize
<1>6. CASE BecomeReady(g) \/ StartupFails(g) \/ EndTurnFails(g) \/ GiveUp(g)
  <2>1. Owns(g)
    BY <1>6 DEF BecomeReady, StartupFails, EndTurnFails, GiveUp, Listens, Owns
  <2>. QED  BY <2>1, <1>1, <1>6, ActorQuiet
     DEF BecomeReady, StartupFails, EndTurnFails, GiveUp, Listens
<1>7. CASE Seal(g) \/ Relinquish(g)
  <2>1. Owns(g)
    BY <1>7 DEF Seal, Relinquish, Advance, Owns
  <2>. QED  BY <2>1, <1>1, <1>7, ActorQuiet DEF Seal, Relinquish, Advance
<1>8. CASE Finish(g)
  <2>1. nextSeq' = [h \in Generation |-> IF h = g THEN 1 ELSE nextSeq[h]]
    BY <1>8 DEF Finish, Forgotten
  <2>2. phase' = [phase EXCEPT ![g] = "finished"]
    BY <1>8 DEF Finish
  <2>3. nextSeq' \in [Generation -> Nat \ {0}]
    BY <2>1, <1>1
  <2>4. \A h \in Generation : nextSeq'[h] = nextSeq[h] \/ ~Owns(h)'
    BY <2>1, <2>2, <1>1 DEF Owns
  <2>. QED  BY <2>2, <2>3, <2>4, <1>8, ActorQuiet DEF Finish
<1>9. CASE Retire(g)
  <2>1. \A h \in Generation : Owns(h)' => h # g /\ Owns(h)
    BY <1>1, <1>9 DEF Retire, Owns
  <2>2. live' \in {live, None} /\ (live # g => live' = live)
    BY <1>9 DEF Retire, RemoveExactly
  <2>3. SingleWriter'
    BY <2>1, <2>2 DEF HInv, SingleWriter
  <2>4. LogInv' /\ Seqs' \subseteq Nat
    BY <2>1, <1>9, LogQuiet DEF HInv, Retire
  <2>5. CallersOrderly' /\ Installing'
    BY <2>2, <1>9, CallersKept DEF HInv, Retire
  <2>6. Shape'
    BY <2>2, <2>4, <1>9 DEF HInv, Shape, Retire
  <2>. QED  BY <2>3, <2>4, <2>5, <2>6 DEF HInv
<1>10. CASE AbandonTurn(g)
  <2>1. Owns(g) /\ phase' = [phase EXCEPT ![g] = "closing"]
    BY <1>10 DEF AbandonTurn, Owns
  <2>2. CASE Emits(g, "turn_ended", turn[g])
    BY <2>1, <2>2, <1>10, ActorWrites DEF AbandonTurn
  <2>3. CASE nextSeq' = [nextSeq EXCEPT ![g] = @ + 1] /\ UNCHANGED <<log, refused>>
    BY <2>1, <2>3, <1>10, ActorSkips DEF AbandonTurn
  <2>. QED  BY <2>2, <2>3, <1>10 DEF AbandonTurn
<1>. QED  BY <1>2, <1>3, <1>4, <1>5, <1>6, <1>7, <1>8, <1>9, <1>10 DEF ActorStep

-----------------------------------------------------------------------------
(***************************************************************************)
(* Steps of the callers.                                                   *)
(***************************************************************************)
Ats == {"idle", "enter", "install", "join", "await", "lookup", "find", "send", "handoff",
        "gone", "reaped", "remove", "mark"}

\* What the four ways to write a caller's state come to.
LEMMA MovesEffect ==
    ASSUME caller \in [Caller -> Calls], NEW c \in Caller, NEW where \in Ats,
           Moves(c, where)
    PROVE  /\ caller' \in [Caller -> Calls]
           /\ \A d \in Caller : d # c => caller'[d] = caller[d]
           /\ caller'[c] = [caller[c] EXCEPT !.at = where]
BY DEF Moves, Ats, Calls

LEMMA HoldsEffect ==
    ASSUME caller \in [Caller -> Calls], NEW c \in Caller, NEW where \in Ats,
           NEW g \in Generation \cup {None},
           Holds(c, g, where)
    PROVE  /\ caller' \in [Caller -> Calls]
           /\ \A d \in Caller : d # c => caller'[d] = caller[d]
           /\ caller'[c] = [op |-> caller[c].op, at |-> where, held |-> g, fresh |-> caller[c].fresh]
BY DEF Holds, Ats, Calls

LEMMA ReturnsEffect ==
    ASSUME caller \in [Caller -> Calls], NEW c \in Caller,
           Returns(c)
    PROVE  /\ caller' \in [Caller -> Calls]
           /\ \A d \in Caller : d # c => caller'[d] = caller[d]
           /\ caller'[c] = Idle
BY DEF Returns, Idle, Ats, Calls

LEMMA BeginsEffect ==
    ASSUME caller \in [Caller -> Calls], NEW c \in Caller, NEW where \in Ats,
           NEW o \in Orderly \cup Commands, NEW fresh \in BOOLEAN,
           Begins(c, o, where, fresh)
    PROVE  /\ caller' \in [Caller -> Calls]
           /\ \A d \in Caller : d # c => caller'[d] = caller[d]
           /\ caller'[c] = [op |-> o, at |-> where, held |-> None, fresh |-> fresh]
BY DEF Begins, Idle, Orderly, Commands, Ats, Calls

\* A caller that comes to rest at another place than the installation.
LEMMA CallerMoves ==
    ASSUME CallersOrderly, Installing, NEW c \in Caller,
           caller' \in [Caller -> Calls],
           \A d \in Caller : d # c => caller'[d] = caller[d],
           caller'[c].op \in {"none"} \cup Orderly,
           caller'[c].at \notin {"install", "remove", "mark", "reaped"},
           caller'[c].at \in Holding => caller'[c].held # None,
           ~caller'[c].fresh,
           UNCHANGED born, live' \in {live, None}
    PROVE  CallersOrderly' /\ Installing'
<1>1. CallersOrderly'
  BY DEF CallersOrderly
<1>2. Installing'
  BY DEF Installing
<1>. QED  BY <1>1, <1>2

\* ... while everything the rest of the invariant speaks of stays as it is.
LEMMA CallerQuiet ==
    ASSUME HInv, CallersOrderly', Installing',
           UNCHANGED <<live, born, phase, nextSeq, log, refused>>, native' \in {native, TRUE}
    PROVE  HInv'
<1>1. \A g \in Generation : Owns(g)' => Owns(g)
  BY DEF Owns
<1>2. LogInv' /\ Seqs' \subseteq Nat
  BY <1>1, LogQuiet DEF HInv
<1>3. SingleWriter'
  BY <1>1, OwnersKept DEF HInv
<1>4. Shape'
  BY <1>2 DEF HInv, Shape
<1>. QED  BY <1>2, <1>3, <1>4 DEF HInv

LEMMA StartPreserves ==
    ASSUME OrderlyUse, HInv, NEW c \in Caller,
           \/ StartBegins(c) \/ StartJoins(c) \/ StartRepairs(c) \/ StartFails(c)
           \/ StartInstalls(c) \/ StartReturns(c)
    PROVE  HInv'
<1>. USE DEF Ats
<1>1. /\ caller \in [Caller -> Calls] /\ CallersOrderly /\ Installing
      /\ live \in Generation \cup {None}
  BY DEF HInv, CallersOrderly, Shape
<1>2. CASE StartBegins(c)
  <2>1. Begins(c, "start", "enter", FALSE)
    BY <1>2 DEF StartBegins, FreshStart, HInv, Shape
  <2>2. /\ caller' \in [Caller -> Calls]
        /\ \A d \in Caller : d # c => caller'[d] = caller[d]
        /\ caller'[c] = [op |-> "start", at |-> "enter", held |-> None, fresh |-> FALSE]
    <3>1. "start" \in Orderly \cup Commands /\ "enter" \in Ats /\ FALSE \in BOOLEAN
      BY DEF Orderly
    <3>. HIDE DEF Ats
    <3>. QED  BY <1>1, <2>1, <3>1, BeginsEffect
  <2>3. CallersOrderly' /\ Installing'
    BY <1>1, <1>2, <2>2, CallerMoves DEF StartBegins, Idle, Orderly, Holding
  <2>. QED  BY <1>2, <2>3, CallerQuiet DEF StartBegins, actorVars
<1>3. CASE StartJoins(c)
  <2>1. /\ caller' \in [Caller -> Calls]
        /\ \A d \in Caller : d # c => caller'[d] = caller[d]
        /\ caller'[c] = [op |-> caller[c].op, at |-> "join", held |-> live, fresh |-> caller[c].fresh]
    BY <1>1, <1>3, HoldsEffect DEF StartJoins
  <2>2. CallersOrderly' /\ Installing'
    BY <1>1, <1>3, <2>1, CallerMoves DEF StartJoins, CallersOrderly, Calls
  <2>. QED  BY <1>3, <2>2, CallerQuiet DEF StartJoins, actorVars
<1>4. CASE StartRepairs(c)
  <2>1. /\ caller' \in [Caller -> Calls]
        /\ \A d \in Caller : d # c => caller'[d] = caller[d]
        /\ caller'[c] = [caller[c] EXCEPT !.at = "install"]
    BY <1>1, <1>4, MovesEffect DEF StartRepairs
  <2>2. CallersOrderly'
    BY <1>1, <2>1 DEF CallersOrderly, Calls, Holding
  <2>3. Installing'
    BY <1>1, <1>4, <2>1 DEF StartRepairs, LockFree, Installing, HInv, Shape
  <2>4. LogInv' /\ Seqs' \subseteq Nat
    BY <1>4, LogOffline DEF StartRepairs, HInv, actorVars
  <2>5. Shape' /\ SingleWriter'
    BY <1>4, <2>4, OwnersKept DEF StartRepairs, HInv, Shape, actorVars, Owns
  <2>. QED  BY <2>2, <2>3, <2>4, <2>5 DEF HInv
<1>5. CASE StartFails(c)
  <2>1. /\ caller' \in [Caller -> Calls]
        /\ \A d \in Caller : d # c => caller'[d] = caller[d]
        /\ caller'[c] = Idle
    BY <1>1, <1>5, ReturnsEffect DEF StartFails
  <2>2. CallersOrderly' /\ Installing'
    BY <1>1, <1>5, <2>1, CallerMoves DEF StartFails, Idle, Holding
  <2>. QED  BY <1>5, <2>2, CallerQuiet DEF StartFails, actorVars
<1>6. CASE StartInstalls(c)
  <2>1. /\ live = None /\ born + 1 \in Generation /\ ~caller[c].fresh
        /\ \A d \in Caller : d # c => caller[d].at # "install"
    BY <1>6, GenerationsAssumption
       DEF StartInstalls, Is, HInv, Installing, Shape, CallersOrderly, Generation
  <2>g. PICK g \in Generation : g = born + 1
    BY <2>1
  <2>2. /\ live' = g /\ born' = g
        /\ phase' = [phase EXCEPT ![g] = "starting"]
        /\ nextSeq' = [nextSeq EXCEPT ![g] = LastSeq + 1]
        /\ Holds(c, g, "await")
        /\ UNCHANGED <<log, native, refused>>
    BY <1>6, <2>1, <2>g DEF StartInstalls, FirstSeq
  <2>3. /\ caller' \in [Caller -> Calls]
        /\ \A d \in Caller : d # c => caller'[d] = caller[d]
        /\ caller'[c] = [op |-> caller[c].op, at |-> "await", held |-> g, fresh |-> caller[c].fresh]
    <3>1. Holds(c, g, "await")
      BY <2>2
    <3>. QED  BY <1>1, <3>1, HoldsEffect
  <2>4. g # None
    BY DEF Generation, None
  <2>5. CallersOrderly'
    <3>1. /\ caller'[c].op = caller[c].op /\ caller'[c].fresh = caller[c].fresh
          /\ caller'[c].held = g /\ caller'[c].at = "await"
      BY <1>1, <2>3 DEF Calls
    <3>. QED  BY <1>1, <2>1, <2>3, <2>4, <3>1 DEF CallersOrderly
  <2>6. Installing'
    BY <1>1, <2>1, <2>3 DEF Installing, Calls
  <2>7. \A h \in Generation : Owns(h)' => h = g
    BY <2>1, <2>2 DEF Owns, HInv, SingleWriter, Shape, Generation, None
  <2>8. LastSeq \in Nat /\ \A m \in Seqs : m <= LastSeq
    BY LastSeqBound DEF HInv, Shape, LogInv
  <2>9. nextSeq' \in [Generation -> Nat \ {0}] /\ nextSeq'[g] = LastSeq + 1
    BY <2>1, <2>2, <2>8 DEF HInv, Shape
  <2>10. Seqs' = Seqs
    BY <2>2 DEF Seqs
  <2>11. LogInv'
    BY <2>2, <2>7, <2>8, <2>9, <2>10 DEF HInv, Shape, LogInv, HasLast, EventsAccepted
  <2>12. SingleWriter'
    BY <2>2, <2>7 DEF SingleWriter
  <2>13. Shape'
    <3>1. live' \in Generation \cup {None} /\ born' \in 0..MaxGenerations
      BY <2>2, GenerationsAssumption DEF Generation
    <3>2. phase' \in [Generation -> Phases]
      BY <2>2 DEF HInv, Shape, Phases
    <3>. QED  BY <2>2, <2>9, <2>10, <3>1, <3>2 DEF HInv, Shape
  <2>. QED  BY <2>5, <2>6, <2>11, <2>12, <2>13 DEF HInv
<1>7. CASE StartReturns(c)
  <2>1. /\ caller' \in [Caller -> Calls]
        /\ \A d \in Caller : d # c => caller'[d] = caller[d]
        /\ caller'[c] = Idle
    BY <1>1, <1>7, ReturnsEffect DEF StartReturns
  <2>2. CallersOrderly' /\ Installing'
    BY <1>1, <1>7, <2>1, CallerMoves DEF StartReturns, Idle, Holding
  <2>. QED  BY <1>7, <2>2, CallerQuiet DEF StartReturns, actorVars
<1>. QED  BY <1>2, <1>3, <1>4, <1>5, <1>6, <1>7

LEMMA InjectPreserves ==
    ASSUME HInv, NEW c \in Caller,
           \/ InjectBegins(c) \/ InjectOffline(c) \/ InjectFinds(c) \/ InjectHandled(c)
           \/ InjectUnavailable(c) \/ InjectHandsOff(c)
    PROVE  HInv'
<1>. USE DEF Ats
<1>1. /\ caller \in [Caller -> Calls] /\ CallersOrderly /\ Installing
      /\ live \in Generation \cup {None}
  BY DEF HInv, CallersOrderly, Shape
<1>2. CASE InjectBegins(c)
  <2>1. /\ caller' \in [Caller -> Calls]
        /\ \A d \in Caller : d # c => caller'[d] = caller[d]
        /\ caller'[c] = [op |-> "inject", at |-> "lookup", held |-> None, fresh |-> FALSE]
    <3>1. "inject" \in Orderly \cup Commands /\ "lookup" \in Ats /\ FALSE \in BOOLEAN
      BY DEF Orderly
    <3>2. Begins(c, "inject", "lookup", FALSE)
      BY <1>2 DEF InjectBegins
    <3>. HIDE DEF Ats
    <3>. QED  BY <1>1, <3>1, <3>2, BeginsEffect
  <2>2. CallersOrderly' /\ Installing'
    BY <1>1, <1>2, <2>1, CallerMoves DEF InjectBegins, Idle, Orderly, Holding
  <2>. QED  BY <1>2, <2>2, CallerQuiet DEF InjectBegins, actorVars
<1>3. CASE InjectOffline(c)
  <2>1. /\ caller' \in [Caller -> Calls]
        /\ \A d \in Caller : d # c => caller'[d] = caller[d]
        /\ caller'[c] = Idle
    BY <1>1, <1>3, ReturnsEffect DEF InjectOffline
  <2>2. CallersOrderly' /\ Installing'
    BY <1>1, <1>3, <2>1, CallerMoves DEF InjectOffline, Idle, Holding
  <2>3. LogInv' /\ Seqs' \subseteq Nat
    BY <1>3, LogOffline DEF InjectOffline, HInv, actorVars
  <2>4. Shape' /\ SingleWriter'
    BY <1>3, <2>3, OwnersKept DEF InjectOffline, HInv, Shape, actorVars, Owns
  <2>. QED  BY <2>2, <2>3, <2>4 DEF HInv
<1>4. CASE InjectFinds(c)
  <2>1. /\ caller' \in [Caller -> Calls]
        /\ \A d \in Caller : d # c => caller'[d] = caller[d]
        /\ caller'[c] = [op |-> caller[c].op, at |-> "send", held |-> live, fresh |-> caller[c].fresh]
    BY <1>1, <1>4, HoldsEffect DEF InjectFinds
  <2>2. CallersOrderly' /\ Installing'
    BY <1>1, <1>4, <2>1, CallerMoves DEF InjectFinds, CallersOrderly, Calls
  <2>. QED  BY <1>4, <2>2, CallerQuiet DEF InjectFinds, actorVars
<1>5. CASE InjectHandled(c)
  <2>. DEFINE g == caller[c].held
  <2>1. g \in Generation
    BY <1>1, <1>5 DEF InjectHandled, Is, CallersOrderly, Calls, Holding
  <2>2. Owns(g) /\ nextSeq[g] \notin Seqs
    BY <1>5, <2>1 DEF InjectHandled, Listens, Owns, HInv, Shape, LogInv, EventsAccepted
  <2>3. /\ log' = log \cup {Event(nextSeq[g], "event", NoTurn)}
        /\ nextSeq' = [nextSeq EXCEPT ![g] = @ + 1]
        /\ UNCHANGED <<live, born, phase, native, refused>>
    BY <1>5, <2>2 DEF InjectHandled
  <2>4. \A h \in Generation : Owns(h)' => Owns(h)
    BY <2>3 DEF Owns
  <2>5. LogInv' /\ Seqs' \subseteq Nat /\ nextSeq' \in [Generation -> Nat \ {0}]
    BY <2>1, <2>2, <2>3, <2>4, LogAppend DEF HInv
  <2>6. Shape' /\ SingleWriter'
    BY <2>3, <2>4, <2>5, OwnersKept DEF HInv, Shape
  <2>7. /\ caller' \in [Caller -> Calls]
        /\ \A d \in Caller : d # c => caller'[d] = caller[d]
        /\ caller'[c] = Idle
    BY <1>1, <1>5, ReturnsEffect DEF InjectHandled
  <2>8. CallersOrderly' /\ Installing'
    BY <1>1, <2>3, <2>7, CallerMoves DEF Idle, Holding
  <2>. QED  BY <2>5, <2>6, <2>8 DEF HInv
<1>6. CASE InjectUnavailable(c)
  <2>1. /\ caller' \in [Caller -> Calls]
        /\ \A d \in Caller : d # c => caller'[d] = caller[d]
        /\ caller'[c] = [caller[c] EXCEPT !.at = "handoff"]
    BY <1>1, <1>6, MovesEffect DEF InjectUnavailable
  <2>2. CallersOrderly' /\ Installing'
    BY <1>1, <1>6, <2>1, CallerMoves
       DEF InjectUnavailable, Is, CallersOrderly, Calls, Holding
  <2>. QED  BY <1>6, <2>2, CallerQuiet DEF InjectUnavailable, actorVars
<1>7. CASE InjectHandsOff(c)
  <2>1. /\ caller' \in [Caller -> Calls]
        /\ \A d \in Caller : d # c => caller'[d] = caller[d]
        /\ caller'[c] = [caller[c] EXCEPT !.at = "lookup"]
    BY <1>1, <1>7, MovesEffect DEF InjectHandsOff
  <2>2. live' \in {live, None} /\ (live # caller[c].held => live' = live)
    BY <1>7 DEF InjectHandsOff, RemoveExactly
  <2>3. CallersOrderly' /\ Installing'
    BY <1>1, <1>7, <2>1, <2>2, CallerMoves
       DEF InjectHandsOff, CallersOrderly, Calls, Holding
  <2>4. \A g \in Generation : Owns(g)' => Owns(g) /\ g # caller[c].held
    BY <1>7 DEF InjectHandsOff, actorVars, Owns
  <2>5. SingleWriter'
    BY <2>2, <2>4 DEF HInv, SingleWriter
  <2>6. LogInv' /\ Seqs' \subseteq Nat
    BY <1>7, <2>4, LogQuiet DEF InjectHandsOff, HInv, actorVars
  <2>7. Shape'
    BY <1>7, <2>2, <2>6 DEF InjectHandsOff, HInv, Shape, actorVars
  <2>. QED  BY <2>3, <2>5, <2>6, <2>7 DEF HInv
<1>. QED  BY <1>2, <1>3, <1>4, <1>5, <1>6, <1>7

\* Of the commands, orderly callers only ask the actor to unload if it is idle.
LEMMA CommandPreserves ==
    ASSUME OrderlyUse, HInv, NEW c \in Caller,
           \/ \E o \in Commands :
                CommandBegins(c, o) \/ ActorTakesCommand(c, o) \/ CommandUnavailable(c, o)
           \/ FindsHandle(c) \/ ActorTakesReap(c) \/ UnloadUnavailable(c)
           \/ Gone(c) \/ StopAnswered(c) \/ Remove(c) \/ Marks(c)
    PROVE  HInv'
<1>. USE DEF Ats
<1>1. /\ caller \in [Caller -> Calls] /\ CallersOrderly /\ Installing
      /\ live \in Generation \cup {None}
  BY DEF HInv, CallersOrderly, Shape
<1>2. caller[c].op \in {"none", "start", "inject", "reap"}
  BY <1>1 DEF CallersOrderly, Orderly
<1>3. /\ \A o \in Commands : ~ActorTakesCommand(c, o)
      /\ ~UnloadUnavailable(c) /\ ~StopAnswered(c) /\ ~Remove(c) /\ ~Marks(c)
  <2>1. /\ \A o \in Commands : ~ActorTakesCommand(c, o)
        /\ ~UnloadUnavailable(c) /\ ~StopAnswered(c)
    BY <1>2 DEF ActorTakesCommand, UnloadUnavailable, StopAnswered, Is
  <2>2. ~Remove(c) /\ ~Marks(c)
    BY <1>1 DEF CallersOrderly, Remove, Marks
  <2>. QED  BY <2>1, <2>2
<1>4. ASSUME NEW o \in Commands, CommandBegins(c, o)
      PROVE  HInv'
  <2>1. o \in Orderly /\ Begins(c, o, "find", FALSE)
    BY <1>4 DEF CommandBegins, Begins, OrderlyUse
  <2>2. /\ caller' \in [Caller -> Calls]
        /\ \A d \in Caller : d # c => caller'[d] = caller[d]
        /\ caller'[c] = [op |-> o, at |-> "find", held |-> None, fresh |-> FALSE]
    <3>1. o \in Orderly \cup Commands /\ "find" \in Ats /\ FALSE \in BOOLEAN
      BY <2>1
    <3>. HIDE DEF Ats
    <3>. QED  BY <1>1, <2>1, <3>1, BeginsEffect
  <2>3. CallersOrderly' /\ Installing'
    BY <1>1, <1>4, <2>1, <2>2, CallerMoves DEF CommandBegins, Idle, Holding
  <2>. QED  BY <1>4, <2>3, CallerQuiet DEF CommandBegins, actorVars
<1>5. ASSUME NEW o \in Commands, CommandUnavailable(c, o)
      PROVE  HInv'
  <2>1. Moves(c, "gone")
    BY <1>2, <1>5 DEF CommandUnavailable, Is, Disposals
  <2>2. /\ caller' \in [Caller -> Calls]
        /\ \A d \in Caller : d # c => caller'[d] = caller[d]
        /\ caller'[c] = [caller[c] EXCEPT !.at = "gone"]
    BY <1>1, <2>1, MovesEffect
  <2>3. CallersOrderly' /\ Installing'
    BY <1>1, <1>5, <2>2, CallerMoves DEF CommandUnavailable, CallersOrderly, Calls, Holding
  <2>. QED  BY <1>5, <2>3, CallerQuiet DEF CommandUnavailable, actorVars
<1>6. CASE FindsHandle(c)
  <2>1. CASE live # None
    <3>1. Holds(c, live, "send")
      BY <1>6, <2>1 DEF FindsHandle
    <3>2. /\ caller' \in [Caller -> Calls]
          /\ \A d \in Caller : d # c => caller'[d] = caller[d]
          /\ caller'[c] = [op |-> caller[c].op, at |-> "send", held |-> live, fresh |-> caller[c].fresh]
      BY <1>1, <3>1, HoldsEffect
    <3>3. CallersOrderly' /\ Installing'
      BY <1>1, <1>6, <2>1, <3>2, CallerMoves DEF FindsHandle, CallersOrderly, Calls
    <3>. QED  BY <1>6, <3>3, CallerQuiet DEF FindsHandle, actorVars
  <2>2. CASE live = None
    <3>1. Returns(c)
      BY <1>2, <1>6, <2>2 DEF FindsHandle, Disposals
    <3>2. /\ caller' \in [Caller -> Calls]
          /\ \A d \in Caller : d # c => caller'[d] = caller[d]
          /\ caller'[c] = Idle
      BY <1>1, <3>1, ReturnsEffect
    <3>3. CallersOrderly' /\ Installing'
      BY <1>1, <1>6, <3>2, CallerMoves DEF FindsHandle, Idle, Holding
    <3>. QED  BY <1>6, <3>3, CallerQuiet DEF FindsHandle, actorVars
  <2>. QED  BY <2>1, <2>2
<1>7. CASE Gone(c)
  <2>1. /\ caller' \in [Caller -> Calls]
        /\ \A d \in Caller : d # c => caller'[d] = caller[d]
        /\ caller'[c] = Idle
    BY <1>1, <1>7, ReturnsEffect DEF Gone
  <2>2. CallersOrderly' /\ Installing'
    BY <1>1, <1>7, <2>1, CallerMoves DEF Gone, Idle, Holding
  <2>. QED  BY <1>7, <2>2, CallerQuiet DEF Gone, actorVars
<1>8. CASE ActorTakesReap(c)
  <2>1. /\ phase' = [phase EXCEPT ![caller[c].held] = "closing"] /\ Listens(caller[c].held)
        \/ phase' = phase
    BY <1>8 DEF ActorTakesReap, Listens
  <2>2. /\ phase' \in [Generation -> Phases]
        /\ \A g \in Generation : Owns(g)' => Owns(g)
    BY <2>1 DEF HInv, Shape, Phases, Owns, Listens
  <2>3. UNCHANGED <<live, born, nextSeq, log, native, refused>>
    BY <1>8 DEF ActorTakesReap
  <2>4. LogInv' /\ Seqs' \subseteq Nat
    BY <2>2, <2>3, LogQuiet DEF HInv
  <2>5. Shape' /\ SingleWriter'
    BY <2>2, <2>3, <2>4, OwnersKept DEF HInv, Shape
  <2>6. CASE Moves(c, "gone")
    <3>1. /\ caller' \in [Caller -> Calls]
          /\ \A d \in Caller : d # c => caller'[d] = caller[d]
          /\ caller'[c] = [caller[c] EXCEPT !.at = "gone"]
      BY <1>1, <2>6, MovesEffect
    <3>2. CallersOrderly' /\ Installing'
      BY <1>1, <2>3, <3>1, CallerMoves DEF CallersOrderly, Calls, Holding
    <3>. QED  BY <2>4, <2>5, <3>2 DEF HInv
  <2>7. CASE Returns(c)
    <3>1. /\ caller' \in [Caller -> Calls]
          /\ \A d \in Caller : d # c => caller'[d] = caller[d]
          /\ caller'[c] = Idle
      BY <1>1, <2>7, ReturnsEffect
    <3>2. CallersOrderly' /\ Installing'
      BY <1>1, <2>3, <3>1, CallerMoves DEF Idle, Holding
    <3>. QED  BY <2>4, <2>5, <3>2 DEF HInv
  <2>. QED  BY <1>8, <2>6, <2>7 DEF ActorTakesReap
<1>. QED  BY <1>3, <1>4, <1>5, <1>6, <1>7, <1>8

-----------------------------------------------------------------------------
(***************************************************************************)
(* Steps of nobody in particular, and the theorems.                        *)
(***************************************************************************)
LEMMA EnvironmentPreserves ==
    ASSUME HInv, Restore \/ RepairAbsent \/ Crash
    PROVE  HInv'
<1>1. CASE Restore
  <2>1. CallersOrderly' /\ Installing'
    BY <1>1, CallersKept DEF Restore, HInv
  <2>. QED  BY <1>1, <2>1, CallerQuiet DEF Restore, actorVars
<1>2. CASE RepairAbsent
  <2>1. LogInv' /\ Seqs' \subseteq Nat
    BY <1>2, LogOffline DEF RepairAbsent, HInv, actorVars
  <2>2. Shape' /\ SingleWriter'
    BY <1>2, <2>1, OwnersKept DEF RepairAbsent, HInv, Shape, actorVars, Owns
  <2>3. CallersOrderly' /\ Installing'
    BY <1>2, CallersKept DEF RepairAbsent, HInv
  <2>. QED  BY <2>1, <2>2, <2>3 DEF HInv
<1>3. CASE Crash
  <2>1. \A g \in Generation : ~Owns(g)'
    BY <1>3 DEF Crash, Owns
  <2>2. LogInv' /\ Seqs' \subseteq Nat
    BY <1>3, <2>1, LogQuiet DEF Crash, HInv
  <2>3. Shape' /\ SingleWriter'
    BY <1>3, <2>1, <2>2 DEF Crash, Forgotten, HInv, Shape, SingleWriter, Phases
  <2>4. CallersOrderly' /\ Installing'
    BY <1>3 DEF Crash, CallersOrderly, Installing, Idle, Calls, Holding
  <2>. QED  BY <2>2, <2>3, <2>4 DEF HInv
<1>. QED  BY <1>1, <1>2, <1>3

LEMMA HInvInitial ==
    ASSUME OrderlyUse, Init
    PROVE  HInv
<1>1. \A g \in Generation : ~Owns(g)
  BY DEF Init, Owns
<1>2. Seqs = {1}
  BY DEF Init, OrderlyUse, Seqs, Event
<1>3. Shape /\ SingleWriter /\ LogInv
  BY <1>1, <1>2, GenerationsAssumption
     DEF Init, OrderlyUse, Shape, SingleWriter, LogInv, HasLast, EventsAccepted, Phases
<1>4. CallersOrderly /\ Installing
  BY DEF Init, CallersOrderly, Installing, Idle, Calls, Holding
<1>. QED  BY <1>3, <1>4 DEF HInv

LEMMA HInvInductive ==
    ASSUME OrderlyUse, HInv, [Next]_vars
    PROVE  HInv'
<1>1. CASE UNCHANGED vars
  <2>1. CallersOrderly' /\ Installing'
    BY <1>1, CallersKept DEF vars, HInv
  <2>. QED  BY <1>1, <2>1, CallerQuiet DEF vars, actorVars
<1>2. ASSUME NEW g \in Generation, ActorStep(g) \/ Emit(g) \/ BeginTurn(g) \/ GiveUp(g)
      PROVE  HInv'
  BY <1>2, ActorPreserves
<1>3. ASSUME NEW c \in Caller,
             \/ CallerStep(c) \/ StartBegins(c) \/ InjectBegins(c)
             \/ \E o \in Commands : CommandBegins(c, o)
      PROVE  HInv'
  BY <1>3, StartPreserves, InjectPreserves, CommandPreserves DEF CallerStep
<1>4. CASE Restore \/ RepairAbsent \/ Crash
  BY <1>4, EnvironmentPreserves
<1>. QED  BY <1>1, <1>2, <1>3, <1>4 DEF Next

\* The inductive invariant holds throughout.
LEMMA HInvHolds == OrderlyUse => (Spec => []HInv)
<1>. SUFFICES ASSUME OrderlyUse PROVE Spec => []HInv
  OBVIOUS
<1>1. Init => HInv
  BY HInvInitial
<1>2. HInv /\ [Next]_vars => HInv'
  BY HInvInductive
<1>. QED  BY <1>1, <1>2, PTL DEF Spec

\* The hand-over between generations (actor/run.rs, manager/startup.rs,
\* manager/runtime_events.rs) keeps one writer, whatever starts, injections, idle
\* reaps, failed startups, failed terminal transactions and crashes interleave.
THEOREM OneWriter == OrderlyUse => (Spec => []SingleWriter)
<1>1. HInv => SingleWriter
  BY DEF HInv
<1>. QED  BY <1>1, HInvHolds, PTL

\* ... so the log refuses no event for its number (UNIQUE(session_id, seq)).
THEOREM NumbersAccepted == OrderlyUse => (Spec => []EventsAccepted)
<1>1. HInv => EventsAccepted
  BY DEF HInv, LogInv
<1>. QED  BY <1>1, HInvHolds, PTL

-----------------------------------------------------------------------------
(***************************************************************************)
(* The types, for whatever callers do, and also for a session that has no  *)
(* native id yet.                                                          *)
(***************************************************************************)
Rows == [seq : Nat \ {0}, kind : Kinds, turn : Turns]

\* The handles the callers act on, and the one that may install.
Handles ==
    /\ \A c \in Caller : caller[c].at \in Holding => caller[c].held # None
    /\ \A c \in Caller : caller[c].at = "install" => born < MaxGenerations
    /\ \A c, d \in Caller : caller[c].at = "install" /\ caller[d].at = "install" => c = d

TInv == TypeOK /\ HasLast /\ Handles

LEMMA RowsNumbered == ASSUME log \subseteq Rows PROVE Seqs \subseteq Nat \ {0}
BY DEF Rows, Seqs

\* Rows added to the log.
LEMMA RowAdded ==
    ASSUME log \subseteq Rows, HasLast,
           NEW n \in Nat \ {0}, NEW kind \in Kinds, NEW t \in Turns,
           log' = log \cup {Event(n, kind, t)}
    PROVE  log' \subseteq Rows /\ HasLast'
<1>1. Event(n, kind, t) \in Rows
  BY DEF Event, Rows
<1>2. Seqs' = Seqs \cup {n}
  BY SeqsWith
<1>3. Seqs \subseteq Nat
  BY RowsNumbered
<1>4. LastSeq \in Nat /\ LastSeq \in Seqs \cup {0} /\ \A m \in Seqs : m <= LastSeq
  BY <1>3, LastSeqBound
<1>5. CASE n >= LastSeq
  BY <1>1, <1>2, <1>3, <1>4, <1>5 DEF HasLast
<1>6. CASE n < LastSeq
  BY <1>1, <1>2, <1>3, <1>4, <1>6 DEF HasLast
<1>. QED  BY <1>4, <1>5, <1>6

LEMMA RowsRepaired ==
    ASSUME log \subseteq Rows, HasLast, log' = Repaired
    PROVE  log' \subseteq Rows /\ HasLast'
<1>1. Seqs \subseteq Nat
  BY RowsNumbered
<1>2. LastSeq \in Nat /\ \A m \in Seqs : m <= LastSeq
  BY <1>1, LastSeqBound
<1>3. HasLast'
  BY <1>1, <1>2, SeqsRepaired, HasLastGrows
<1>4. OpenTurns \subseteq Turns
  BY DEF OpenTurns, Rows
<1>5. \A t \in Turns : Event(LastSeq + 1, "turn_ended", t) \in Rows
  BY <1>2 DEF Event, Rows, Kinds
<1>. QED  BY <1>3, <1>4, <1>5 DEF Repaired

LEMMA EmitsTyped ==
    ASSUME TypeOK, HasLast, NEW g \in Generation, NEW kind \in Kinds, NEW t \in Turns,
           Emits(g, kind, t)
    PROVE  /\ nextSeq' \in [Generation -> Nat \ {0}] /\ refused' \in BOOLEAN
           /\ log' \subseteq Rows /\ HasLast'
<1>1. nextSeq[g] \in Nat \ {0} /\ nextSeq' \in [Generation -> Nat \ {0}]
  BY DEF TypeOK, Emits
<1>2. CASE nextSeq[g] \in Seqs
  BY <1>1, <1>2 DEF TypeOK, Emits, Rows, HasLast, Seqs
<1>3. CASE nextSeq[g] \notin Seqs
  BY <1>1, <1>3, RowAdded DEF TypeOK, Emits, Rows
<1>. QED  BY <1>2, <1>3

LEMMA ArmedTyped ==
    ASSUME TInv, NEW g \in Generation, NEW o, Armed(g, o)
    PROVE  deadline' \in [Generation -> SUBSET Deadlines]
BY DEF TInv, TypeOK, Armed

\* Steps of the actor.
LEMMA ActorTypes ==
    ASSUME TInv, NEW g \in Generation, ActorStep(g) \/ Emit(g) \/ BeginTurn(g) \/ GiveUp(g)
    PROVE  TInv'
<1>. USE DEF TInv
<1>1. Handles'
  BY DEF ActorStep, Emit, BeginTurn, GiveUp, BecomeReady, StartupFails, EndTurn, AbandonTurn,
         EndTurnFails, Finalize, Seal, Relinquish, Advance, Finish, Retire, Handles
<1>2. turn[g] \in Turns /\ nextSeq[g] \in Nat \ {0} /\ NoTurn \in Turns
  BY DEF TypeOK, Turns
<1>3. CASE Emit(g)
  <2>1. Emits(g, "event", turn[g])
    BY <1>3 DEF Emit
  <2>2. /\ nextSeq' \in [Generation -> Nat \ {0}] /\ refused' \in BOOLEAN
        /\ log' \subseteq Rows /\ HasLast'
    BY <1>2, <2>1, EmitsTyped DEF Kinds
  <2>. QED  BY <1>1, <1>3, <2>2 DEF Emit, TypeOK, Rows
<1>4. CASE BeginTurn(g)
  <2>1. Emits(g, "turn_started", <<g, nextSeq[g]>>) /\ <<g, nextSeq[g]>> \in Turns
    BY <1>2, <1>4 DEF BeginTurn, Turns
  <2>2. /\ nextSeq' \in [Generation -> Nat \ {0}] /\ refused' \in BOOLEAN
        /\ log' \subseteq Rows /\ HasLast'
    BY <2>1, EmitsTyped DEF Kinds
  <2>. QED  BY <1>1, <1>4, <2>1, <2>2 DEF BeginTurn, TypeOK, Rows, Phases
<1>5. CASE EndTurn(g)
  <2>1. log' \subseteq Rows /\ HasLast'
    BY <1>2, <1>5, RowAdded DEF EndTurn, TypeOK, Rows, Kinds
  <2>2. exit' \in [Generation -> {"none", "failed"} \cup Dispositions]
    BY <1>5 DEF EndTurn, TypeOK, Dispositions
  <2>3. phase' \in [Generation -> Phases]
    BY <1>5 DEF EndTurn, TypeOK, Phases
  <2>4. turn' \in [Generation -> Turns] /\ deadline' \in [Generation -> SUBSET Deadlines]
    BY <1>2, <1>5 DEF EndTurn, TurnOver, TypeOK
  <2>. QED  BY <1>1, <1>2, <1>5, <2>1, <2>2, <2>3, <2>4 DEF EndTurn, TypeOK, Rows
<1>6. CASE Finalize(g)
  <2>1. CASE Emits(g, "session_ended", NoTurn)
    <3>1. /\ nextSeq' \in [Generation -> Nat \ {0}] /\ refused' \in BOOLEAN
          /\ log' \subseteq Rows /\ HasLast'
      BY <1>2, <2>1, EmitsTyped DEF Kinds
    <3>. QED  BY <1>1, <1>6, <3>1 DEF Finalize, TypeOK, Rows, Phases
  <2>2. CASE UNCHANGED <<nextSeq, log, refused>>
    BY <1>1, <1>6, <2>2 DEF Finalize, TypeOK, Phases, HasLast, Seqs
  <2>. QED  BY <1>6, <2>1, <2>2 DEF Finalize
<1>7. CASE \/ BecomeReady(g) \/ StartupFails(g) \/ EndTurnFails(g) \/ GiveUp(g)
           \/ Seal(g) \/ Relinquish(g) \/ Finish(g) \/ Retire(g)
  <2>1. HasLast'
    BY <1>7 DEF BecomeReady, StartupFails, EndTurnFails, GiveUp, Seal, Relinquish, Advance,
                Finish, Retire, HasLast, Seqs
  <2>2. CASE BecomeReady(g) \/ Seal(g) \/ Relinquish(g)
    BY <1>1, <2>1, <2>2 DEF BecomeReady, Seal, Relinquish, Advance, TypeOK, Phases
  <2>3. CASE StartupFails(g)
    BY <1>1, <2>1, <2>3 DEF StartupFails, TypeOK, Phases
  <2>6. CASE EndTurnFails(g)
    <3>1. faults' \in 0..MaxFaults
      BY <2>6, FaultsAssumption DEF EndTurnFails, TypeOK
    <3>2. exit' \in [Generation -> {"none", "failed"} \cup Dispositions]
      BY <2>6 DEF EndTurnFails, TypeOK, Dispositions
    <3>3. deadline' \in [Generation -> SUBSET Deadlines]
      BY <2>6 DEF EndTurnFails, TypeOK
    <3>. QED  BY <1>1, <2>1, <2>6, <3>1, <3>2, <3>3 DEF EndTurnFails, TypeOK, Phases
  <2>7. CASE GiveUp(g)
    <3>1. deadline' \in [Generation -> SUBSET Deadlines]
      BY <2>7, ArmedTyped DEF GiveUp
    <3>. QED  BY <1>1, <2>1, <2>7, <3>1 DEF GiveUp, TypeOK, Phases, Dispositions
  <2>4. CASE Finish(g)
    BY <1>1, <1>2, <2>1, <2>4 DEF Finish, Forgotten, TypeOK, Phases
  <2>5. CASE Retire(g)
    BY <1>1, <2>1, <2>5 DEF Retire, RemoveExactly, TypeOK, Phases
  <2>. QED  BY <1>7, <2>2, <2>3, <2>4, <2>5, <2>6, <2>7
<1>8. CASE AbandonTurn(g)
  <2>1. /\ nextSeq' \in [Generation -> Nat \ {0}] /\ refused' \in BOOLEAN
        /\ log' \subseteq Rows /\ HasLast'
    <3>1. CASE Emits(g, "turn_ended", turn[g])
      BY <1>2, <3>1, EmitsTyped DEF Kinds
    <3>2. CASE nextSeq' = [nextSeq EXCEPT ![g] = @ + 1] /\ UNCHANGED <<log, refused>>
      BY <3>2 DEF TypeOK, Rows, HasLast, Seqs
    <3>. QED  BY <1>8, <3>1, <3>2 DEF AbandonTurn
  <2>2. faults' \in 0..MaxFaults
    BY <1>8, FaultsAssumption DEF AbandonTurn, TypeOK
  <2>3. turn' \in [Generation -> Turns] /\ deadline' \in [Generation -> SUBSET Deadlines]
    BY <1>2, <1>8 DEF AbandonTurn, TurnOver, TypeOK
  <2>. QED  BY <1>1, <1>8, <2>1, <2>2, <2>3 DEF AbandonTurn, TypeOK, Rows, Phases
<1>. QED  BY <1>3, <1>4, <1>5, <1>6, <1>7, <1>8 DEF ActorStep

\* Nobody comes to install.
NobodyInstalls ==
    \A c \in Caller : caller'[c].at = "install" => caller[c].at = "install"

\* A caller that comes to rest at another place than the installation.
LEMMA CallerHandles ==
    ASSUME Handles, NEW c \in Caller,
           \A d \in Caller : d # c => caller'[d] = caller[d],
           caller'[c].at # "install",
           caller'[c].at \in Holding => caller'[c].held # None,
           UNCHANGED born
    PROVE  Handles' /\ NobodyInstalls
BY DEF Handles, NobodyInstalls

\* ... and writes nothing.
LEMMA CallerTypes ==
    ASSUME TypeOK, HasLast, Handles', caller' \in [Caller -> Calls],
           live' \in {live, None}, native' \in {native, TRUE},
           gate' \in {gate, "open", "closed", "dismissed"}, faults' \in 0..MaxFaults,
           UNCHANGED <<born, actorVars, log, refused>>
    PROVE  TInv'
BY DEF TInv, TypeOK, HasLast, Seqs, actorVars

\* The four ways to write a caller's state, elsewhere than to the installation.
LEMMA CallerSteps ==
    ASSUME TInv, NEW c \in Caller, UNCHANGED born,
           \/ Returns(c)
           \/ \E w \in Ats \ ({"install"} \cup Holding) : Moves(c, w)
           \/ caller[c].at \in Holding /\ \E w \in Holding : Moves(c, w)
           \/ live # None /\ \E w \in Holding : Holds(c, live, w)
           \/ \E o \in Orderly \cup Commands, w \in {"enter", "lookup", "find"}, f \in BOOLEAN :
                Begins(c, o, w, f)
    PROVE  Handles' /\ NobodyInstalls /\ caller' \in [Caller -> Calls]
<1>1. caller \in [Caller -> Calls] /\ live \in Generation \cup {None} /\ Handles
  BY DEF TInv, TypeOK
<1>2. CASE Returns(c)
  BY <1>1, <1>2, ReturnsEffect, CallerHandles DEF Idle, Holding
<1>3. ASSUME NEW w \in Ats \ ({"install"} \cup Holding), Moves(c, w)
      PROVE  Handles' /\ NobodyInstalls /\ caller' \in [Caller -> Calls]
  <2>1. /\ caller' \in [Caller -> Calls]
        /\ \A d \in Caller : d # c => caller'[d] = caller[d]
        /\ caller'[c] = [caller[c] EXCEPT !.at = w]
    BY <1>1, <1>3, MovesEffect
  <2>2. caller'[c].at = w
    BY <1>1, <2>1 DEF Calls
  <2>. QED  BY <1>1, <1>3, <2>1, <2>2, CallerHandles
<1>4. ASSUME caller[c].at \in Holding, NEW w \in Holding, Moves(c, w)
      PROVE  Handles' /\ NobodyInstalls /\ caller' \in [Caller -> Calls]
  <2>1. w \in Ats /\ w # "install"
    BY DEF Ats, Holding
  <2>2. /\ caller' \in [Caller -> Calls]
        /\ \A d \in Caller : d # c => caller'[d] = caller[d]
        /\ caller'[c] = [caller[c] EXCEPT !.at = w]
    BY <1>1, <1>4, <2>1, MovesEffect
  <2>3. caller'[c].at = w /\ caller'[c].held # None
    BY <1>1, <1>4, <2>2 DEF Handles, Calls
  <2>. QED  BY <1>1, <2>1, <2>2, <2>3, CallerHandles
<1>5. ASSUME live # None, NEW w \in Holding, Holds(c, live, w)
      PROVE  Handles' /\ NobodyInstalls /\ caller' \in [Caller -> Calls]
  <2>1. w \in Ats /\ w # "install"
    BY DEF Ats, Holding
  <2>2. /\ caller' \in [Caller -> Calls]
        /\ \A d \in Caller : d # c => caller'[d] = caller[d]
        /\ caller'[c] = [op |-> caller[c].op, at |-> w, held |-> live, fresh |-> caller[c].fresh]
    BY <1>1, <1>5, <2>1, HoldsEffect
  <2>3. caller'[c].at = w /\ caller'[c].held # None
    BY <1>1, <1>5, <2>2 DEF Calls
  <2>. QED  BY <1>1, <2>1, <2>2, <2>3, CallerHandles
<1>6. ASSUME NEW o \in Orderly \cup Commands, NEW w \in {"enter", "lookup", "find"},
             NEW f \in BOOLEAN, Begins(c, o, w, f)
      PROVE  Handles' /\ NobodyInstalls /\ caller' \in [Caller -> Calls]
  <2>1. /\ caller' \in [Caller -> Calls]
        /\ \A d \in Caller : d # c => caller'[d] = caller[d]
        /\ caller'[c] = [op |-> o, at |-> w, held |-> None, fresh |-> f]
    BY <1>1, <1>6 DEF Begins, Idle, Orderly, Commands, Calls
  <2>2. caller'[c].at = w
    BY <2>1 DEF Idle
  <2>. QED  BY <1>1, <2>1, <2>2, CallerHandles DEF Holding
<1>. QED  BY <1>2, <1>3, <1>4, <1>5, <1>6

\* A command that is taken lets its caller, and one it displaces, go on.
LEMMA CommandMoves ==
    ASSUME caller \in [Caller -> Calls], NEW c \in Caller, NEW o \in Commands,
           ActorTakesCommand(c, o)
    PROVE  /\ caller' \in [Caller -> Calls]
           /\ \A d \in Caller : \/ caller'[d] = caller[d]
                                \/ caller'[d].at \in {"gone", "reaped", "remove"}
<1>1. ASSUME NEW d \in Caller
      PROVE  \/ caller'[d] = caller[d]
             \/ \E w \in {"gone", "reaped", "remove"} : caller'[d] = [caller[d] EXCEPT !.at = w]
  BY DEF ActorTakesCommand
<1>2. ASSUME NEW d \in Caller
      PROVE  /\ caller'[d] \in Calls
             /\ \/ caller'[d] = caller[d]
                \/ caller'[d].at \in {"gone", "reaped", "remove"}
  <2>1. caller[d] \in Calls
    OBVIOUS
  <2>. QED  BY <1>1, <2>1 DEF Calls
<1>. QED  BY <1>2 DEF ActorTakesCommand

\* Steps of the callers that write nothing.
LEMMA CallerReads ==
    ASSUME TInv, NEW c \in Caller,
           \/ StartBegins(c) \/ StartJoins(c) \/ StartFails(c) \/ StartReturns(c)
           \/ InjectBegins(c) \/ InjectFinds(c) \/ InjectUnavailable(c) \/ InjectHandsOff(c)
           \/ \E o \in Commands : CommandBegins(c, o) \/ CommandUnavailable(c, o)
           \/ FindsHandle(c) \/ UnloadUnavailable(c)
           \/ Gone(c) \/ StopAnswered(c) \/ Remove(c) \/ Marks(c)
    PROVE  TInv' /\ NobodyInstalls
<1>1. /\ live' \in {live, None} /\ native' \in {native, TRUE}
      /\ gate' \in {gate, "open", "closed", "dismissed"} /\ faults' \in 0..MaxFaults
      /\ UNCHANGED <<born, actorVars, log, refused>>
  <2>1. faults \in 0..MaxFaults
    BY DEF TInv, TypeOK
  <2>2. CASE \/ StartBegins(c) \/ StartJoins(c) \/ InjectBegins(c) \/ InjectFinds(c)
             \/ InjectUnavailable(c) \/ StopAnswered(c)
    <3>1. UNCHANGED <<live, born, actorVars, log, native, gate, faults, refused>>
      BY <2>2
         DEF StartBegins, StartJoins, InjectBegins, InjectFinds, InjectUnavailable,
             StopAnswered
    <3>. QED  BY <2>1, <3>1
  <2>7. CASE FindsHandle(c)
    BY <2>1, <2>7 DEF FindsHandle
  <2>6. CASE \E o \in Commands : CommandBegins(c, o) \/ CommandUnavailable(c, o)
    BY <2>1, <2>6 DEF CommandBegins, CommandUnavailable
  <2>3. CASE StartFails(c) \/ Gone(c)
    <3>1. faults' = faults \/ (faults < MaxFaults /\ faults' = faults + 1)
      BY <2>3 DEF StartFails, Gone
    <3>2. UNCHANGED <<live, born, actorVars, log, native, gate, refused>>
      BY <2>3 DEF StartFails, Gone
    <3>3. faults' \in 0..MaxFaults
      BY <2>1, <3>1, FaultsAssumption
    <3>. QED  BY <3>2, <3>3
  <2>4. CASE StartReturns(c) \/ InjectHandsOff(c) \/ UnloadUnavailable(c) \/ Remove(c)
    BY <2>1, <2>4 DEF StartReturns, InjectHandsOff, UnloadUnavailable, Remove, RemoveExactly
  <2>5. CASE Marks(c)
    BY <2>1, <2>5 DEF Marks
  <2>. QED  BY <2>2, <2>3, <2>4, <2>5, <2>6, <2>7
<1>2. Handles' /\ NobodyInstalls /\ caller' \in [Caller -> Calls]
  <2>1. CASE StartFails(c) \/ StartReturns(c) \/ UnloadUnavailable(c) \/ Gone(c) \/ Marks(c)
    BY <1>1, <2>1, CallerSteps DEF StartFails, StartReturns, UnloadUnavailable, Gone, Marks
  <2>2. CASE StartJoins(c) \/ InjectFinds(c)
    BY <1>1, <2>2, CallerSteps DEF StartJoins, InjectFinds, Holding
  <2>3. CASE InjectUnavailable(c) \/ InjectHandsOff(c)
    BY <1>1, <2>3, CallerSteps DEF InjectUnavailable, InjectHandsOff, Is, Holding, Ats
  <2>4. CASE \/ StartBegins(c) \/ InjectBegins(c) \/ \E o \in Commands : CommandBegins(c, o)
    <3>1. FreshStart \in BOOLEAN
      BY DEF FreshStart
    <3>. QED
      BY <1>1, <2>4, <3>1, CallerSteps DEF StartBegins, InjectBegins, CommandBegins, Orderly
  <2>5. CASE \/ \E o \in Commands : CommandUnavailable(c, o)
             \/ StopAnswered(c) \/ Remove(c)
    BY <1>1, <2>5, CallerSteps DEF CommandUnavailable, StopAnswered, Remove, Holding, Ats
  <2>6. CASE FindsHandle(c)
    BY <1>1, <2>6, CallerSteps DEF FindsHandle, Holding, Ats
  <2>. QED  BY <2>1, <2>2, <2>3, <2>4, <2>5, <2>6
<1>. QED  BY <1>1, <1>2, CallerTypes DEF TInv

\* Steps of the callers that write to the log or to the memory of an actor.
LEMMA CallerWrites ==
    ASSUME TInv, NEW c \in Caller,
           \/ StartRepairs(c) \/ StartInstalls(c) \/ InjectOffline(c) \/ InjectHandled(c)
           \/ ActorTakesReap(c) \/ \E o \in Commands : ActorTakesCommand(c, o)
    PROVE  TInv' /\ (~StartRepairs(c) => NobodyInstalls)
<1>. USE DEF TInv
<1>1. /\ caller \in [Caller -> Calls] /\ live \in Generation \cup {None} /\ Handles
      /\ log \subseteq Rows /\ HasLast /\ NoTurn \in Turns
  BY DEF TypeOK, Rows, Turns
<1>2. LastSeq + 1 \in Nat \ {0}
  BY <1>1, RowsNumbered, LastSeqBound
<1>3. CASE StartRepairs(c)
  <2>1. log' \subseteq Rows /\ HasLast'
    BY <1>1, <1>3, RowsRepaired DEF StartRepairs
  <2>2. /\ caller' \in [Caller -> Calls]
        /\ \A d \in Caller : d # c => caller'[d] = caller[d]
        /\ caller'[c] = [caller[c] EXCEPT !.at = "install"]
    BY <1>1, <1>3, MovesEffect DEF StartRepairs, Ats
  <2>3. Handles'
    BY <1>1, <1>3, <2>2 DEF StartRepairs, LockFree, Handles, Calls, Holding, TypeOK
  <2>. QED  BY <1>3, <2>1, <2>2, <2>3 DEF StartRepairs, TypeOK, Rows, actorVars
<1>4. CASE StartInstalls(c)
  <2>1. born + 1 \in Generation /\ born + 1 \in 0..MaxGenerations /\ born + 1 # None
    BY <1>1, <1>4, GenerationsAssumption
       DEF StartInstalls, Is, Handles, Generation, None, TypeOK
  <2>2. /\ caller' \in [Caller -> Calls]
        /\ \A d \in Caller : d # c => caller'[d] = caller[d]
        /\ caller'[c] = [op |-> caller[c].op, at |-> "await", held |-> born + 1, fresh |-> caller[c].fresh]
    <3>1. Holds(c, born + 1, "await") /\ "await" \in Ats
      BY <1>4 DEF StartInstalls, Ats
    <3>. QED  BY <1>1, <2>1, <3>1, HoldsEffect
  <2>3. Handles' /\ NobodyInstalls
    <3>1. caller[c].at = "install" /\ born' = born + 1
      BY <1>4 DEF StartInstalls, Is
    <3>2. caller'[c].at = "await" /\ caller'[c].held # None
      BY <2>1, <2>2
    <3>3. \A d \in Caller : caller'[d].at # "install"
      BY <1>1, <2>2, <3>1, <3>2 DEF Handles
    <3>4. \A d \in Caller : caller'[d].at \in Holding => caller'[d].held # None
      BY <1>1, <2>2, <3>2 DEF Handles
    <3>. QED  BY <3>3, <3>4 DEF Handles, NobodyInstalls
  <2>4. FirstSeq(caller[c].fresh) \in Nat \ {0}
    BY <1>2 DEF FirstSeq
  <2>5. HasLast'
    BY <1>4 DEF StartInstalls, HasLast, Seqs
  <2>. QED  BY <1>4, <2>1, <2>2, <2>3, <2>4, <2>5 DEF StartInstalls, TypeOK, Phases
<1>5. CASE InjectOffline(c)
  <2>1. log' \subseteq Rows /\ HasLast'
    BY <1>1, <1>2, <1>5, RowAdded DEF InjectOffline, Kinds
  <2>2. Handles' /\ NobodyInstalls /\ caller' \in [Caller -> Calls]
    BY <1>5, CallerSteps DEF InjectOffline
  <2>. QED  BY <1>5, <2>1, <2>2 DEF InjectOffline, TypeOK, Rows, actorVars
<1>6. CASE InjectHandled(c)
  <2>. DEFINE g == caller[c].held
  <2>1. g \in Generation /\ nextSeq[g] \in Nat \ {0}
    BY <1>1, <1>6 DEF InjectHandled, Is, Handles, Holding, Calls, TypeOK
  <2>2. Handles' /\ NobodyInstalls /\ caller' \in [Caller -> Calls]
    BY <1>6, CallerSteps DEF InjectHandled
  <2>3. CASE nextSeq[g] \in Seqs
    BY <1>1, <1>6, <2>2, <2>3 DEF InjectHandled, TypeOK, HasLast, Seqs
  <2>4. CASE nextSeq[g] \notin Seqs
    <3>1. log' = log \cup {Event(nextSeq[g], "event", NoTurn)}
      BY <1>6, <2>4 DEF InjectHandled
    <3>2. log' \subseteq Rows /\ HasLast'
      BY <1>1, <2>1, <3>1, RowAdded DEF Kinds
    <3>. QED  BY <1>6, <2>1, <2>2, <2>4, <3>2 DEF InjectHandled, TypeOK, Rows
  <2>. QED  BY <2>3, <2>4
<1>7. CASE ActorTakesReap(c)
  <2>1. Handles' /\ NobodyInstalls /\ caller' \in [Caller -> Calls]
    BY <1>7, CallerSteps DEF ActorTakesReap, Holding, Ats
  <2>. QED  BY <1>7, <2>1 DEF ActorTakesReap, TypeOK, Phases, Dispositions, HasLast, Seqs
<1>8. ASSUME NEW o \in Commands, ActorTakesCommand(c, o)
      PROVE  TInv' /\ NobodyInstalls
  <2>4. /\ caller' \in [Caller -> Calls]
        /\ \A d \in Caller : \/ caller'[d] = caller[d]
                             \/ caller'[d].at \in {"gone", "reaped", "remove"}
    BY <1>1, <1>8, CommandMoves
  <2>5. Handles' /\ NobodyInstalls
    BY <1>1, <1>8, <2>4 DEF ActorTakesCommand, Handles, Holding, NobodyInstalls
  <2>3. phase' \in [Generation -> Phases] /\ exit' \in [Generation -> {"none", "failed"} \cup Dispositions]
    BY <1>8 DEF ActorTakesCommand, Disposition, Dispositions, Phases, TypeOK
  <2>6. deadline' \in [Generation -> SUBSET Deadlines]
    <3>1. Armed(caller[c].held, o) /\ caller[c].held \in Generation
      BY <1>1, <1>8 DEF ActorTakesCommand, Is, Handles, Holding, Calls
    <3>. QED  BY <3>1, ArmedTyped
  <2>. QED  BY <1>8, <2>3, <2>4, <2>5, <2>6 DEF ActorTakesCommand, TypeOK, HasLast, Seqs
<1>. QED  BY <1>3, <1>4, <1>5, <1>6, <1>7, <1>8

LEMMA TypesStep == ASSUME TInv, [Next]_vars PROVE TInv'
<1>1. CASE UNCHANGED vars
  BY <1>1 DEF vars, actorVars, TInv, TypeOK, HasLast, Seqs, Handles
<1>2. ASSUME NEW g \in Generation, ActorStep(g) \/ Emit(g) \/ BeginTurn(g) \/ GiveUp(g)
      PROVE  TInv'
  BY <1>2, ActorTypes
<1>3. ASSUME NEW c \in Caller,
             \/ CallerStep(c) \/ StartBegins(c) \/ InjectBegins(c)
             \/ \E o \in Commands : CommandBegins(c, o)
      PROVE  TInv'
  BY <1>3, CallerReads, CallerWrites DEF CallerStep
<1>4. CASE Restore
  BY <1>4 DEF Restore, TInv, TypeOK, actorVars, HasLast, Seqs, Handles
<1>5. CASE RepairAbsent
  <2>1. log' \subseteq Rows /\ HasLast'
    BY <1>5, RowsRepaired DEF RepairAbsent, TInv, TypeOK, Rows
  <2>. QED  BY <1>5, <2>1 DEF RepairAbsent, TInv, TypeOK, Rows, actorVars, Handles
<1>6. CASE Crash
  <2>1. caller' \in [Caller -> Calls] /\ Handles'
    BY <1>6 DEF Crash, Idle, Calls, Handles, Holding
  <2>2. faults' \in 0..MaxFaults
    BY <1>6, FaultsAssumption DEF Crash, TInv, TypeOK
  <2>3. turn' \in [Generation -> Turns]
    BY <1>6 DEF Crash, Forgotten, Turns
  <2>4. /\ phase' \in [Generation -> Phases]
        /\ exit' \in [Generation -> {"none", "failed"} \cup Dispositions]
        /\ deadline' \in [Generation -> SUBSET Deadlines]
    BY <1>6 DEF Crash, TInv, TypeOK, Phases
  <2>5. /\ frozen' \in [Generation -> BOOLEAN]
        /\ nextSeq' \in [Generation -> Nat \ {0}]
    BY <1>6 DEF Crash, Forgotten, TInv, TypeOK
  <2>6. HasLast'
    BY <1>6 DEF Crash, TInv, HasLast, Seqs
  <2>7. /\ UNCHANGED <<born, log, native, gate, refused>>
        /\ live' = None
    BY <1>6 DEF Crash
  <2>. QED  BY <2>1, <2>2, <2>3, <2>4, <2>5, <2>6, <2>7 DEF TInv, TypeOK
<1>. QED  BY <1>1, <1>2, <1>3, <1>4, <1>5, <1>6 DEF Next

LEMMA TInvHolds == Spec => []TInv
<1>1. Init => TInv
  <2>1. ASSUME Init PROVE TypeOK
    <3>1. born \in 0..MaxGenerations /\ faults \in 0..MaxFaults /\ native \in BOOLEAN
      BY <2>1, GenerationsAssumption, FaultsAssumption, EstablishedAssumption DEF Init
    <3>2. log \subseteq [seq : Nat \ {0}, kind : Kinds, turn : Turns]
      BY <2>1 DEF Init, Event, Kinds, Turns
    <3>3. caller \in [Caller -> Calls]
      BY <2>1 DEF Init, Idle, Calls, Commands
    <3>4. /\ phase \in [Generation -> Phases] /\ turn \in [Generation -> Turns]
          /\ nextSeq \in [Generation -> Nat \ {0}]
      BY <2>1 DEF Init, Phases, Turns
    <3>. QED  BY <2>1, <3>1, <3>2, <3>3, <3>4 DEF Init, TypeOK
  <2>2. ASSUME Init PROVE HasLast
    <3>1. Seqs \subseteq {1}
      BY <2>2 DEF Init, Seqs, Event
    <3>. QED  BY <3>1 DEF HasLast
  <2>3. ASSUME Init PROVE Handles
    BY <2>3 DEF Init, Handles, Idle, Holding
  <2>. QED  BY <2>1, <2>2, <2>3 DEF TInv
<1>2. TInv /\ [Next]_vars => TInv'
  BY TypesStep
<1>. QED  BY <1>1, <1>2, PTL DEF Spec

\* Every variable keeps its type, whatever the callers do, and however a session
\* without a native id is started; in particular the log has a last number to go on
\* from (manager/startup.rs:82).
THEOREM RegistryTypeCorrect == Spec => []TypeOK
<1>1. TInv => TypeOK
  BY DEF TInv
<1>. QED  BY <1>1, TInvHolds, PTL

-----------------------------------------------------------------------------
(***************************************************************************)
(* The turns left open.                                                    *)
(***************************************************************************)
\* At most one turn is open; while a generation owns the sequence it is its own,
\* and there is none before it has begun one.
TurnsOwned ==
    /\ \A t, u \in OpenTurns : t = u
    /\ \A g \in Generation : Owns(g) => \A t \in OpenTurns : t[1] = g
    /\ \A g \in Generation : phase[g] = "turn" => \A t \in OpenTurns : t = turn[g]
    /\ \A g \in Generation : phase[g] \in {"starting", "idle"} => OpenTurns = {}
    /\ \A c \in Caller : caller[c].at = "install" => OpenTurns = {}

\* A turn is open that was started and has not ended.
LEMMA OpenTurn ==
    \A t : t \in OpenTurns <=>
             /\ \E e \in log : e.kind = "turn_started" /\ e.turn = t
             /\ ~\E e \in log : e.kind = "turn_ended" /\ e.turn = t
BY DEF OpenTurns, Ended

\* What is written to the log opens no turn but the one it starts, and closes
\* the one it ends.
LEMMA OpenTurnsWith ==
    ASSUME NEW n, NEW kind, NEW t, log' = log \cup {Event(n, kind, t)}
    PROVE  /\ OpenTurns' \subseteq OpenTurns \cup {t}
           /\ kind # "turn_started" => OpenTurns' \subseteq OpenTurns
           /\ kind = "turn_ended" => OpenTurns' \subseteq OpenTurns \ {t}
<1>1. /\ Event(n, kind, t).kind = kind /\ Event(n, kind, t).turn = t
  BY DEF Event
<1>2. \A u : u \in OpenTurns' <=>
               /\ \E e \in log' : e.kind = "turn_started" /\ e.turn = u
               /\ ~\E e \in log' : e.kind = "turn_ended" /\ e.turn = u
  BY DEF OpenTurns, Ended
<1>3. ASSUME NEW u \in OpenTurns'
      PROVE  u \in OpenTurns \/ (kind = "turn_started" /\ u = t)
  <2>1. /\ \E e \in log' : e.kind = "turn_started" /\ e.turn = u
        /\ ~\E e \in log : e.kind = "turn_ended" /\ e.turn = u
    BY <1>2
  <2>. QED  BY <1>1, <2>1, OpenTurn
<1>4. kind = "turn_ended" => t \notin OpenTurns'
  <2>1. Event(n, kind, t) \in log'
    OBVIOUS
  <2>. QED  BY <1>1, <1>2, <2>1
<1>. QED  BY <1>3, <1>4

\* The repair closes them all.
LEMMA OpenTurnsRepaired == ASSUME log' = Repaired PROVE OpenTurns' = {}
<1>1. \A u : u \in OpenTurns' <=>
               /\ \E e \in log' : e.kind = "turn_started" /\ e.turn = u
               /\ ~\E e \in log' : e.kind = "turn_ended" /\ e.turn = u
  BY DEF OpenTurns, Ended
<1>2. ASSUME NEW t \in OpenTurns
      PROVE  \E e \in log' : e.kind = "turn_ended" /\ e.turn = t
  <2>. DEFINE e == Event(LastSeq + 1, "turn_ended", t)
  <2>1. e \in log'
    BY DEF Repaired
  <2>2. e.kind = "turn_ended" /\ e.turn = t
    BY DEF Event
  <2>. QED  BY <2>1, <2>2
<1>3. \A e \in log' : e.kind = "turn_started" => e \in log
  BY DEF Repaired, Event
<1>4. log \subseteq log'
  BY DEF Repaired
<1>. QED  BY <1>1, <1>2, <1>3, <1>4, OpenTurn

\* Nobody opens a turn, takes over the sequence or comes to install.
TurnsQuiet ==
    /\ OpenTurns' \subseteq OpenTurns
    /\ \A g \in Generation : Owns(g)' => Owns(g)
    /\ \A g \in Generation :
         phase'[g] = "turn" => phase[g] = "turn" /\ turn'[g] = turn[g]
    /\ \A g \in Generation : phase'[g] \in {"starting", "idle"} => phase[g] \in {"starting", "idle"}
    /\ \A c \in Caller : caller'[c].at = "install" => caller[c].at = "install"

LEMMA QuietKeepsTurns == ASSUME TurnsOwned, TurnsQuiet PROVE TurnsOwned'
BY DEF TurnsOwned, TurnsQuiet

\* A log that is left alone, or gets another event than of a turn.
LEMMA OpenTurnsKept ==
    ASSUME \/ UNCHANGED log
           \/ \E n, t : \E kind \in {"event", "session_ended", "turn_ended"} :
                 log' = log \cup {Event(n, kind, t)}
    PROVE  OpenTurns' \subseteq OpenTurns
<1>1. CASE UNCHANGED log
  BY <1>1 DEF OpenTurns, Ended
<1>2. ASSUME NEW n, NEW t, NEW kind \in {"event", "session_ended", "turn_ended"},
             log' = log \cup {Event(n, kind, t)}
      PROVE  OpenTurns' \subseteq OpenTurns
  BY <1>2, OpenTurnsWith
<1>. QED  BY <1>1, <1>2

LEMMA ActorKeepsTurns ==
    ASSUME HInv, TInv, TurnsOwned, NEW g \in Generation,
           ActorStep(g) \/ Emit(g) \/ BeginTurn(g) \/ GiveUp(g)
    PROVE  TurnsOwned'
<1>1. phase \in [Generation -> Phases] /\ turn \in [Generation -> Turns]
  BY DEF TInv, TypeOK
<1>2. CASE BeginTurn(g)
  <2>1. Owns(g) /\ live = g /\ OpenTurns = {}
    BY <1>2 DEF BeginTurn, Owns, HInv, SingleWriter, TurnsOwned
  <2>2. OpenTurns' \subseteq {<<g, nextSeq[g]>>}
    <3>1. CASE UNCHANGED log
      BY <2>1, <3>1, OpenTurnsKept
    <3>2. CASE log' = log \cup {Event(nextSeq[g], "turn_started", <<g, nextSeq[g]>>)}
      BY <2>1, <3>2, OpenTurnsWith
    <3>. QED  BY <1>2, <3>1, <3>2 DEF BeginTurn, Emits
  <2>3. turn'[g] = <<g, nextSeq[g]>> /\ phase' = [phase EXCEPT ![g] = "turn"] /\ UNCHANGED caller
    BY <1>1, <1>2 DEF BeginTurn
  <2>4. \A h \in Generation : Owns(h)' => h = g
    BY <2>1, <2>3 DEF Owns, HInv, SingleWriter
  <2>5. \A h \in Generation :
           phase'[h] \notin {"starting", "idle"} /\ (phase'[h] = "turn" => h = g)
    BY <1>1, <2>3, <2>4 DEF Owns
  <2>6. \A c \in Caller : caller[c].at # "install"
    BY <2>1 DEF HInv, Installing, Generation, None
  <2>. QED  BY <2>2, <2>3, <2>4, <2>5, <2>6 DEF TurnsOwned
<1>3. CASE EndTurn(g)
  <2>1. Owns(g) /\ OpenTurns \subseteq {turn[g]}
    BY <1>3 DEF EndTurn, Owns, TurnsOwned
  <2>2. OpenTurns' = {}
    BY <1>3, <2>1, OpenTurnsWith DEF EndTurn
  <2>. QED  BY <2>2 DEF TurnsOwned
<1>4. CASE Emit(g) \/ Finalize(g) \/ AbandonTurn(g)
  <2>1. OpenTurns' \subseteq OpenTurns
    BY <1>4, OpenTurnsKept DEF Emit, Finalize, AbandonTurn, Emits
  <2>2. /\ UNCHANGED caller
        /\ \/ UNCHANGED <<phase, turn>>
           \/ Owns(g) /\ phase' = [phase EXCEPT ![g] = "finalized"] /\ UNCHANGED turn
           \/ /\ Owns(g) /\ phase' = [phase EXCEPT ![g] = "closing"]
              /\ turn' = [turn EXCEPT ![g] = NoTurn]
    BY <1>4 DEF Emit, Finalize, AbandonTurn, TurnOver, Owns
  <2>3. \A h \in Generation :
           /\ Owns(h)' => Owns(h)
           /\ phase'[h] = "turn" => phase[h] = "turn" /\ turn'[h] = turn[h]
           /\ phase'[h] \in {"starting", "idle"} => phase[h] \in {"starting", "idle"}
    BY <1>1, <2>2 DEF Owns
  <2>. QED  BY <2>1, <2>2, <2>3, QuietKeepsTurns DEF TurnsQuiet
<1>5. CASE \/ BecomeReady(g) \/ StartupFails(g) \/ EndTurnFails(g) \/ GiveUp(g)
           \/ Seal(g) \/ Relinquish(g) \/ Finish(g) \/ Retire(g)
  <2>1. OpenTurns' \subseteq OpenTurns /\ UNCHANGED caller
    BY <1>5, OpenTurnsKept
       DEF BecomeReady, StartupFails, EndTurnFails, GiveUp, Seal, Relinquish, Advance, Finish,
           Retire
  <2>2. \A h \in Generation :
           /\ Owns(h)' => Owns(h)
           /\ phase'[h] = "turn" => phase[h] = "turn" /\ turn'[h] = turn[h]
    BY <1>1, <1>5
       DEF BecomeReady, StartupFails, EndTurnFails, GiveUp, Listens, Seal, Relinquish, Advance,
           Finish, Forgotten, Retire, Owns
  <2>3. \A h \in Generation :
           phase'[h] \in {"starting", "idle"} => phase[h] \in {"starting", "idle"}
    BY <1>1, <1>5
       DEF BecomeReady, StartupFails, EndTurnFails, GiveUp, Seal, Relinquish, Advance,
           Finish, Retire
  <2>. QED  BY <2>1, <2>2, <2>3, QuietKeepsTurns DEF TurnsQuiet
<1>. QED  BY <1>2, <1>3, <1>4, <1>5 DEF ActorStep

LEMMA CallerKeepsTurns ==
    ASSUME HInv, TInv, TurnsOwned, NEW c \in Caller,
           \/ CallerStep(c) \/ StartBegins(c) \/ InjectBegins(c)
           \/ \E o \in Commands : CommandBegins(c, o)
    PROVE  TurnsOwned'
<1>1. phase \in [Generation -> Phases] /\ caller \in [Caller -> Calls]
  BY DEF TInv, TypeOK
<1>2. CASE StartRepairs(c)
  BY <1>2, OpenTurnsRepaired DEF StartRepairs, TurnsOwned
<1>3. CASE StartInstalls(c)
  <2>1. OpenTurns = {}
    BY <1>3 DEF StartInstalls, Is, TurnsOwned
  <2>2. OpenTurns' = {}
    BY <1>3, <2>1, OpenTurnsKept DEF StartInstalls
  <2>. QED  BY <2>2 DEF TurnsOwned
<1>4. ASSUME ~StartRepairs(c), ~StartInstalls(c)
      PROVE  TurnsQuiet
  <2>1. OpenTurns' \subseteq OpenTurns
    <3>1. CASE InjectOffline(c)
      BY <3>1, OpenTurnsKept DEF InjectOffline
    <3>2. CASE InjectHandled(c)
      <4>1. \/ UNCHANGED log
            \/ log' = log \cup {Event(nextSeq[caller[c].held], "event", NoTurn)}
        BY <3>2 DEF InjectHandled
      <4>. QED  BY <4>1, OpenTurnsKept
    <3>3. CASE ~InjectOffline(c) /\ ~InjectHandled(c)
      <4>1. UNCHANGED log
        BY <1>4, <3>3
           DEF CallerStep, StartBegins, StartJoins, StartFails, StartReturns, InjectBegins,
               InjectFinds, InjectUnavailable, InjectHandsOff, CommandBegins,
               CommandUnavailable, FindsHandle, UnloadUnavailable, Gone, StopAnswered,
               Remove, Marks, ActorTakesReap, ActorTakesCommand
      <4>. QED  BY <4>1, OpenTurnsKept
    <3>. QED  BY <3>1, <3>2, <3>3
  <2>2. /\ UNCHANGED turn
        /\ \A g \in Generation : 
             phase'[g] = phase[g] \/ (phase[g] = "idle" /\ phase'[g] = "closing")
    <3>1. CASE ActorTakesReap(c)
      <4>1. /\ UNCHANGED turn
            /\ \/ phase[caller[c].held] = "idle"
                  /\ phase' = [phase EXCEPT ![caller[c].held] = "closing"]
               \/ UNCHANGED phase
        BY <3>1 DEF ActorTakesReap
      <4>. QED  BY <1>1, <4>1
    <3>2. CASE \E o \in Commands : ActorTakesCommand(c, o)
      <4>1. /\ UNCHANGED turn
            /\ phase' = [phase EXCEPT ![caller[c].held] = IF @ = "idle" THEN "closing" ELSE @]
        BY <3>2 DEF ActorTakesCommand
      <4>. QED  BY <1>1, <4>1
    <3>3. CASE ~ActorTakesReap(c) /\ \A o \in Commands : ~ActorTakesCommand(c, o)
      <4>1. UNCHANGED <<phase, turn>>
        BY <1>4, <3>3
           DEF CallerStep, StartBegins, StartJoins, StartFails, StartReturns, InjectBegins,
               InjectOffline, InjectHandled, InjectFinds, InjectUnavailable, InjectHandsOff,
               CommandBegins, CommandUnavailable, FindsHandle, UnloadUnavailable, Gone,
               StopAnswered, Remove, Marks, actorVars
      <4>. QED  BY <4>1
    <3>. QED  BY <3>1, <3>2, <3>3
  <2>3. NobodyInstalls
    BY <1>4, CallerReads, CallerWrites DEF CallerStep
  <2>4. \A g \in Generation :
           (Owns(g)' => Owns(g)) /\ (phase'[g] = "turn" => phase[g] = "turn")
    BY <2>2 DEF Owns
  <2>. QED  BY <2>1, <2>2, <2>3, <2>4 DEF TurnsQuiet, NobodyInstalls
<1>. QED  BY <1>2, <1>3, <1>4, QuietKeepsTurns

LEMMA TurnsStep ==
    ASSUME HInv, TInv, TurnsOwned, [Next]_vars
    PROVE  TurnsOwned'
<1>1. ASSUME NEW g \in Generation, ActorStep(g) \/ Emit(g) \/ BeginTurn(g) \/ GiveUp(g)
      PROVE  TurnsOwned'
  BY <1>1, ActorKeepsTurns
<1>2. ASSUME NEW c \in Caller,
             \/ CallerStep(c) \/ StartBegins(c) \/ InjectBegins(c)
             \/ \E o \in Commands : CommandBegins(c, o)
      PROVE  TurnsOwned'
  BY <1>2, CallerKeepsTurns
<1>3. CASE RepairAbsent
  BY <1>3, OpenTurnsRepaired DEF RepairAbsent, TurnsOwned
<1>4. CASE Restore \/ Crash \/ UNCHANGED vars
  <2>1. OpenTurns' \subseteq OpenTurns
    BY <1>4, OpenTurnsKept DEF Restore, Crash, vars
  <2>2. TurnsQuiet
    BY <1>4, <2>1 DEF Restore, Crash, vars, actorVars, TurnsQuiet, Owns, Idle
  <2>. QED  BY <2>2, QuietKeepsTurns
<1>. QED  BY <1>1, <1>2, <1>3, <1>4 DEF Next

\* A generation begins its own turns only after those of its predecessors, which may
\* have died in the middle of one, are closed in the log: by the start that
\* installs it (manager/startup.rs), and by nobody while it is there.
THEOREM OpenTurnsRepairedFirst == OrderlyUse => (Spec => []TurnsRepaired)
<1>. SUFFICES ASSUME OrderlyUse PROVE Spec => []TurnsRepaired
  OBVIOUS
<1>1. Init => TurnsOwned
  BY DEF Init, TurnsOwned, OpenTurns, Owns, Event, Idle
<1>2. HInv /\ TInv /\ TurnsOwned /\ [Next]_vars => TurnsOwned'
  BY TurnsStep
<1>3. TInv /\ TurnsOwned => TurnsRepaired
  BY DEF TInv, TypeOK, TurnsOwned, TurnsRepaired
<1>. QED  BY <1>1, <1>2, <1>3, HInvHolds, TInvHolds, PTL DEF Spec
=============================================================================
