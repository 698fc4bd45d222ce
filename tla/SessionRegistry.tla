-------------------------- MODULE SessionRegistry --------------------------
(***************************************************************************)
(* The live sessions of AnyHarness, for one session: the actor generations *)
(* that run it one after the other, the manager's map of live handles, and *)
(* the durable event log whose sequence numbers each generation hands out  *)
(* from memory.  Callers of the runtime start, unload, reap, dismiss,      *)
(* close and stop the session and inject events into it concurrently.      *)
(*                                                                         *)
(* What must not happen is two writers that number events at once.  A      *)
(* generation hands over in steps (actor/run.rs): the mailbox closes, the  *)
(* last events are written, the sequence is sealed, relinquished, the      *)
(* process is reaped and the thread ends.                                  *)
(***************************************************************************)
EXTENDS Integers, FiniteSets

CONSTANTS
    Caller,         \* tasks of the runtime that act on the session
    Operations,     \* the operations each of them performs
    MaxGenerations, \* bounds the actors ever installed
    MaxSeq,         \* bounds the events written voluntarily
    MaxFaults,      \* bounds crashes and failed terminal transactions
    Established     \* the session already has a native session id

ASSUME GenerationsAssumption == MaxGenerations \in Nat
ASSUME SeqAssumption == MaxSeq \in Nat
ASSUME FaultsAssumption == MaxFaults \in Nat
ASSUME EstablishedAssumption == Established \in BOOLEAN

VARIABLES
    live,     \* the manager's map entry: a generation, or None
    born,     \* how many generations were installed
    phase,    \* how far each generation has come
    exit,     \* why it is to exit
    deadline, \* the deadlines running for its turn
    frozen,   \* its terminal transaction failed: its sink accepts nothing
    turn,     \* the turn its sink has open
    nextSeq,  \* the sequence number its sink hands out next
    log,      \* session_events, unique by seq
    native,   \* native_session_id is recorded
    gate,     \* open, dismissed or closed
    caller,   \* what each caller is doing, the handle it holds, its startup strategy
    faults

\* History: the log refused an event because its number was taken.
VARIABLE refused

actorVars == <<phase, exit, deadline, frozen, turn, nextSeq>>
vars == <<live, born, actorVars, log, native, gate, caller, faults, refused>>

Generation == 1..MaxGenerations
None == 0
NoTurn == <<>>
Idle == [op |-> "none", at |-> "idle", held |-> None, fresh |-> FALSE]

Phases == {"unborn", "starting", "idle", "turn", "closing", "finalized", "aborted",
           "sealed", "relinquished", "finished", "retired"}
Deadlines == {"unload", "stop"}

\* From its installation until it relinquishes, a generation owns the sequence.
Owns(g) == phase[g] \in {"starting", "idle", "turn", "closing", "finalized", "aborted", "sealed"}

AdmittedMutant(g) ==    \* a detached writer passes the seal
    /\ phase[g] \in {"starting", "idle", "turn", "closing", "finalized", "sealed", "relinquished"}
    /\ ~frozen[g]

\* Its sink accepts an event: sequence owned and no frozen terminal batch.
Admitted(g) == phase[g] \in {"starting", "idle", "turn", "closing", "finalized"} /\ ~frozen[g]

\* Its command loop takes commands / its mailbox is closed.
Listens(g) == phase[g] \in {"idle", "turn"}
MailboxClosed(g) == phase[g] \notin {"unborn", "starting", "idle", "turn"}

ProcessAlive(g) == phase[g] \notin {"unborn", "finished", "retired"}

\* Readiness was reported, whatever happened since.
CameUp(g) == phase[g] \notin {"unborn", "starting"} /\ exit[g] # "failed"

-----------------------------------------------------------------------------
(***************************************************************************)
(* The log.                                                                *)
(***************************************************************************)
Kinds == {"event", "turn_started", "turn_ended", "session_ended"}
Event(seq, kind, t) == [seq |-> seq, kind |-> kind, turn |-> t]

Seqs == {e.seq : e \in log}
LastSeq == CHOOSE n \in Seqs \cup {0} : \A m \in Seqs : m <= n

Ended(t) == \E e \in log : e.kind = "turn_ended" /\ e.turn = t
OpenTurns == {t \in {e.turn : e \in {f \in log : f.kind = "turn_started"}} : ~Ended(t)}

RepairedMutant == log    \* leaves the turn open

\* repair_unclosed_turns: a synthetic end for the turn left open (TurnsRepaired: there
\* is at most one).
Repaired == log \cup {Event(LastSeq + 1, "turn_ended", t) : t \in OpenTurns}

\* Best-effort emission: the sink moves on whether or not the row was accepted.
Emits(g, kind, t) ==
    /\ nextSeq' = [nextSeq EXCEPT ![g] = @ + 1]
    /\ IF nextSeq[g] \in Seqs
       THEN refused' = TRUE /\ UNCHANGED log
       ELSE log' = log \cup {Event(nextSeq[g], kind, t)} /\ UNCHANGED refused

Init ==
    /\ live = None
    /\ born = 0
    /\ phase = [g \in Generation |-> "unborn"]
    /\ exit = [g \in Generation |-> "none"]
    /\ deadline = [g \in Generation |-> {}]
    /\ frozen = [g \in Generation |-> FALSE]
    /\ turn = [g \in Generation |-> NoTurn]
    /\ nextSeq = [g \in Generation |-> 1]
    /\ log = IF Established THEN {Event(1, "event", NoTurn)} ELSE {}
    /\ native = Established
    /\ gate = "open"
    /\ caller = [c \in Caller |-> Idle]
    /\ faults = 0
    /\ refused = FALSE

-----------------------------------------------------------------------------
(***************************************************************************)
(* The actor.                                                              *)
(***************************************************************************)
\* An event of the actor or of one of its ACP tasks, at any time its sink admits it.
Emit(g) ==
    /\ Admitted(g)
    /\ nextSeq[g] <= MaxSeq
    /\ Emits(g, "event", turn[g])
    /\ UNCHANGED <<live, born, phase, exit, deadline, frozen, turn, native, gate, caller,
                   faults>>

BecomeReady(g) ==
    /\ phase[g] = "starting"
    /\ phase' = [phase EXCEPT ![g] = "idle"]
    /\ UNCHANGED <<live, born, exit, deadline, frozen, turn, nextSeq, log, native, gate,
                   caller, faults, refused>>

\* Startup fails or is cancelled by the readiness timeout; nothing is finalized.
StartupFails(g) ==
    /\ phase[g] = "starting"
    /\ phase' = [phase EXCEPT ![g] = "aborted"]
    /\ exit' = [exit EXCEPT ![g] = "failed"]
    /\ UNCHANGED <<live, born, deadline, frozen, turn, nextSeq, log, native, gate,
                   caller, faults, refused>>

BeginTurn(g) ==
    /\ phase[g] = "idle" /\ Admitted(g)
    /\ nextSeq[g] <= MaxSeq
    /\ phase' = [phase EXCEPT ![g] = "turn"]
    /\ turn' = [turn EXCEPT ![g] = <<g, nextSeq[g]>>]
    /\ Emits(g, "turn_started", <<g, nextSeq[g]>>)
    /\ UNCHANGED <<live, born, exit, deadline, frozen, native, gate, caller, faults>>

\* The sink has no open turn, and the deadlines that were running end with it.
TurnOver(g) ==
    /\ turn' = [turn EXCEPT ![g] = NoTurn]
    /\ deadline' = [deadline EXCEPT ![g] = {}]

EndTurnMutant(g) ==    \* forgets the exit asked for during the turn
    /\ phase[g] = "turn"
    /\ nextSeq[g] \notin Seqs
    /\ log' = log \cup {Event(nextSeq[g], "turn_ended", turn[g])}
    /\ nextSeq' = [nextSeq EXCEPT ![g] = @ + 1]
    /\ TurnOver(g)
    /\ phase' = [phase EXCEPT ![g] = "idle"]
    /\ UNCHANGED <<live, born, exit, frozen, native, gate, caller, faults, refused>>

\* The terminal transaction, at the end of the prompt or of the grace of an Unload.
\* An exit asked for meanwhile is now carried out, and an agent that answered with
\* an error is unloaded.
EndTurn(g) ==
    /\ phase[g] = "turn"
    /\ nextSeq[g] \notin Seqs
    /\ log' = log \cup {Event(nextSeq[g], "turn_ended", turn[g])}
    /\ nextSeq' = [nextSeq EXCEPT ![g] = @ + 1]
    /\ TurnOver(g)
    /\ \/ UNCHANGED exit
       \/ exit[g] = "none" /\ exit' = [exit EXCEPT ![g] = "unload"]
    /\ phase' = [phase EXCEPT ![g] = IF exit'[g] = "none" THEN "idle" ELSE "closing"]
    /\ UNCHANGED <<live, born, frozen, native, gate, caller, faults, refused>>

\* A Stop has waited for its bound: the end of the turn is written best effort.
AbandonTurn(g) ==
    /\ phase[g] = "turn" /\ "stop" \in deadline[g]
    /\ \/ Emits(g, "turn_ended", turn[g]) /\ UNCHANGED faults
       \/ /\ faults < MaxFaults /\ faults' = faults + 1
          /\ nextSeq' = [nextSeq EXCEPT ![g] = @ + 1]
          /\ UNCHANGED <<log, refused>>
    /\ TurnOver(g)
    /\ phase' = [phase EXCEPT ![g] = "closing"]
    /\ UNCHANGED <<live, born, exit, frozen, native, gate, caller>>

\* It fails for good, or conflicts with a row: the batch stays frozen, the turn
\* open in the log, and the actor unloads.
EndTurnFails(g) ==
    /\ phase[g] = "turn"
    /\ \/ nextSeq[g] \in Seqs /\ UNCHANGED faults
       \/ faults < MaxFaults /\ faults' = faults + 1
    /\ frozen' = [frozen EXCEPT ![g] = TRUE]
    /\ exit' = [exit EXCEPT ![g] = IF @ = "none" THEN "unload" ELSE @]
    /\ deadline' = [deadline EXCEPT ![g] = {}]
    /\ phase' = [phase EXCEPT ![g] = "closing"]
    /\ UNCHANGED <<live, born, turn, nextSeq, log, native, gate, caller, refused>>

\* During a turn, an Unload and a Stop set a deadline; nothing takes it back.
Armed(g, o) ==
    deadline' = [deadline EXCEPT ![g] =
                    IF phase[g] = "turn" THEN @ \cup ({o} \cap Deadlines) ELSE @]

\* The actor unloads by itself: a drain or a domain operation failed.
GiveUp(g) ==
    /\ Listens(g)
    /\ exit' = [exit EXCEPT ![g] = "unload"]
    /\ Armed(g, "unload")
    /\ phase' = [phase EXCEPT ![g] = IF @ = "idle" THEN "closing" ELSE @]
    /\ UNCHANGED <<live, born, frozen, turn, nextSeq, log, native, gate, caller, faults, refused>>

\* The mailbox is closed; only Close announces the end of the session.
Finalize(g) ==
    /\ phase[g] = "closing"
    /\ phase' = [phase EXCEPT ![g] = "finalized"]
    /\ IF exit[g] = "close" /\ Admitted(g)
       THEN Emits(g, "session_ended", NoTurn)
       ELSE UNCHANGED <<nextSeq, log, refused>>
    /\ UNCHANGED <<live, born, exit, deadline, frozen, turn, native, gate, caller, faults>>

Advance(g, from, to) ==
    /\ phase[g] \in from
    /\ phase' = [phase EXCEPT ![g] = to]
    /\ UNCHANGED <<live, born, exit, deadline, frozen, turn, nextSeq, log, native, gate,
                   caller, faults, refused>>

Seal(g) == Advance(g, {"finalized"}, "sealed")
Relinquish(g) == Advance(g, {"sealed", "aborted"}, "relinquished")

\* The process group is reaped and the thread ends: its memory is gone.
Forgotten(gs) ==
    /\ frozen' = [g \in Generation |-> g \notin gs /\ frozen[g]]
    /\ turn' = [g \in Generation |-> IF g \in gs THEN NoTurn ELSE turn[g]]
    /\ nextSeq' = [g \in Generation |-> IF g \in gs THEN 1 ELSE nextSeq[g]]

Finish(g) ==
    /\ phase[g] = "relinquished"
    /\ phase' = [phase EXCEPT ![g] = "finished"]
    /\ Forgotten({g})
    /\ UNCHANGED <<live, born, exit, deadline, log, native, gate, caller, faults, refused>>

-----------------------------------------------------------------------------
(***************************************************************************)
(* The manager's map.  start_session holds its lock from the repair of the *)
(* log to the installation; everything else takes it for one step.         *)
(***************************************************************************)
LockFree == \A c \in Caller : caller[c].at # "install"

\* Only this very handle is removed, never a newer one.
RemoveExactly(g) == live' = IF live = g THEN None ELSE live

\* retire_generation_after_actor_finish
Retire(g) ==
    /\ phase[g] = "finished" /\ LockFree
    /\ phase' = [phase EXCEPT ![g] = "retired"]
    /\ RemoveExactly(g)
    /\ UNCHANGED <<born, exit, deadline, frozen, turn, nextSeq, log, native, gate,
                   caller, faults, refused>>

-----------------------------------------------------------------------------
(***************************************************************************)
(* The callers.                                                            *)
(***************************************************************************)
Begins(c, o, where, fresh) ==
    /\ caller[c] = Idle /\ o \in Operations[c]
    /\ caller' = [caller EXCEPT ![c] = [Idle EXCEPT !.op = o, !.at = where, !.fresh = fresh]]
Holds(c, g, where) == caller' = [caller EXCEPT ![c].held = g, ![c].at = where]
Moves(c, where) == caller' = [caller EXCEPT ![c].at = where]
Returns(c) == caller' = [caller EXCEPT ![c] = Idle]
Is(c, o, where) == caller[c].op = o /\ caller[c].at = where

\* Without a native session id and without a turn the startup strategy is Fresh.
FreshStart == ~native /\ \A e \in log : e.kind # "turn_started"

\* ensure_live_session: the record is read and the strategy chosen before the
\* map is locked.
StartBegins(c) ==
    /\ gate = "open"
    /\ Begins(c, "start", "enter", FreshStart)
    /\ UNCHANGED <<live, born, actorVars, log, native, gate, faults, refused>>

StartJoins(c) ==
    /\ Is(c, "start", "enter") /\ LockFree
    /\ live # None
    /\ Holds(c, live, "join")
    /\ UNCHANGED <<live, born, actorVars, log, native, gate, faults, refused>>

StartRepairs(c) ==
    /\ Is(c, "start", "enter") /\ LockFree
    /\ live = None
    /\ born < MaxGenerations
    /\ log' = Repaired
    /\ Moves(c, "install")
    /\ UNCHANGED <<live, born, actorVars, native, gate, faults, refused>>

\* The repair or the read of the last sequence number fails (the bound on
\* generations counts as a failure).
StartFails(c) ==
    /\ Is(c, "start", "enter") /\ LockFree
    /\ live = None
    /\ \/ born = MaxGenerations /\ UNCHANGED faults
       \/ faults < MaxFaults /\ faults' = faults + 1
    /\ Returns(c)
    /\ UNCHANGED <<live, born, actorVars, log, native, gate, refused>>

\* A fresh sink numbers from 1, whatever the log holds.
FirstSeq(fresh) == IF fresh THEN 1 ELSE LastSeq + 1

StartInstalls(c) ==
    /\ Is(c, "start", "install")
    /\ LET g == born + 1 IN
         /\ born' = g
         /\ live' = g
         /\ phase' = [phase EXCEPT ![g] = "starting"]
         /\ nextSeq' = [nextSeq EXCEPT ![g] = FirstSeq(caller[c].fresh)]
         /\ Holds(c, g, "await")
    /\ UNCHANGED <<exit, deadline, frozen, turn, log, native, gate, faults, refused>>

\* The native id is recorded by the caller, after readiness.  The caller that
\* installed a generation which fails waits until it is gone.
StartReturns(c) ==
    /\ caller[c].op = "start" /\ caller[c].at \in {"join", "await"}
    /\ LET g == caller[c].held IN
         \/ CameUp(g) /\ native' = TRUE
         \/ /\ exit[g] = "failed"
            /\ caller[c].at = "await" => phase[g] \in {"finished", "retired"}
            /\ UNCHANGED native
    /\ Returns(c)
    /\ UNCHANGED <<live, born, actorVars, log, gate, faults, refused>>

\* emit_runtime_event: offline under the lock, or through the live actor.
InjectBegins(c) ==
    /\ LastSeq < MaxSeq
    /\ Begins(c, "inject", "lookup", FALSE)
    /\ UNCHANGED <<live, born, actorVars, log, native, gate, faults, refused>>

InjectOffline(c) ==
    /\ Is(c, "inject", "lookup") /\ LockFree
    /\ live = None
    /\ log' = log \cup {Event(LastSeq + 1, "event", NoTurn)}
    /\ Returns(c)
    /\ UNCHANGED <<live, born, actorVars, native, gate, faults, refused>>

InjectFinds(c) ==
    /\ Is(c, "inject", "lookup") /\ LockFree
    /\ live # None
    /\ Holds(c, live, "send")
    /\ UNCHANGED <<live, born, actorVars, log, native, gate, faults, refused>>

\* Strict: the row is inserted before the sink moves on, an error is returned.
InjectHandled(c) ==
    /\ Is(c, "inject", "send")
    /\ LET g == caller[c].held IN
         /\ Listens(g)
         /\ IF nextSeq[g] \notin Seqs
            THEN /\ log' = log \cup {Event(nextSeq[g], "event", NoTurn)}
                 /\ nextSeq' = [nextSeq EXCEPT ![g] = @ + 1]
            ELSE UNCHANGED <<log, nextSeq>>
    /\ Returns(c)
    /\ UNCHANGED <<live, born, phase, exit, deadline, frozen, turn, native, gate, faults,
                   refused>>

InjectUnavailable(c) ==
    /\ Is(c, "inject", "send")
    /\ MailboxClosed(caller[c].held)
    /\ Moves(c, "handoff")
    /\ UNCHANGED <<live, born, actorVars, log, native, gate, faults, refused>>

InjectHandsOffMutant(c) ==    \* takes the closed mailbox for the hand-over
    /\ Is(c, "inject", "handoff") /\ LockFree
    /\ RemoveExactly(caller[c].held)
    /\ Moves(c, "lookup")
    /\ UNCHANGED <<born, actorVars, log, native, gate, faults, refused>>

\* A closed mailbox precedes the last events: wait until they are written.
InjectHandsOff(c) ==
    /\ Is(c, "inject", "handoff") /\ LockFree
    /\ ~Owns(caller[c].held)
    /\ RemoveExactly(caller[c].held)
    /\ Moves(c, "lookup")
    /\ UNCHANGED <<born, actorVars, log, native, gate, faults, refused>>

Commands == {"unload", "reap", "dismiss", "close", "stop"}
Disposals == {"dismiss", "close", "stop"}

\* These leave the map entry to the actor's own exit.
Orderly == {"start", "inject", "reap"}

CommandBegins(c, o) ==
    /\ o \in Commands
    /\ Begins(c, o, "find", FALSE)
    /\ UNCHANGED <<live, born, actorVars, log, native, gate, faults, refused>>

\* The handle is read from the map; without one only the record is updated.
FindsHandle(c) ==
    /\ caller[c].at = "find" /\ LockFree
    /\ IF live # None
       THEN Holds(c, live, "send")
       ELSE IF caller[c].op \in Disposals THEN Moves(c, "remove") ELSE Returns(c)
    /\ UNCHANGED <<live, born, actorVars, log, native, gate, faults, refused>>

DispositionMutant(o) == o    \* no disposition of its own for Stop

\* The actor notes the exit: at once if idle, after its turn otherwise.  The
\* reply precedes both, except for Stop, which is answered by a dead process (the
\* manager's own removal, of whatever is in the map, follows the reply).
Disposition(o) == IF o = "stop" THEN "dismiss" ELSE o
Dispositions == {"unload", "dismiss", "close"}

ActorTakesCommand(c, o) ==
    /\ Is(c, o, "send") /\ o \in {"unload", "dismiss", "close", "stop"}
    /\ LET g == caller[c].held
           next == CASE o = "unload" -> "gone" [] o = "stop" -> "reaped" [] OTHER -> "remove"
           \* A Stop during the turn takes the place of one that waits for it.
           Displaced(d) == o = "stop" /\ Is(d, "stop", "reaped") /\ caller[d].held = g
       IN  /\ Listens(g)
           /\ exit' = [exit EXCEPT ![g] = Disposition(o)]
           /\ Armed(g, o)
           /\ phase' = [phase EXCEPT ![g] = IF @ = "idle" THEN "closing" ELSE @]
           /\ caller' = [d \in Caller |->
                           IF d = c THEN [caller[d] EXCEPT !.at = next]
                           ELSE IF Displaced(d) THEN [caller[d] EXCEPT !.at = "remove"]
                           ELSE caller[d]]
    /\ UNCHANGED <<live, born, frozen, turn, nextSeq, log, native, gate, faults, refused>>

ActorTakesReapMutant(c) ==    \* waits for the retirement although it was refused
    /\ Is(c, "reap", "send")
    /\ LET g == caller[c].held IN
         \/ /\ phase[g] = "idle"
            /\ exit' = [exit EXCEPT ![g] = "unload"]
            /\ phase' = [phase EXCEPT ![g] = "closing"]
            /\ Moves(c, "gone")
         \/ /\ Listens(g)
            /\ Moves(c, "gone")
            /\ UNCHANGED <<phase, exit>>
    /\ UNCHANGED <<live, born, deadline, frozen, turn, nextSeq, log, native, gate,
                   faults, refused>>

\* UnloadIfIdle is refused during a turn, or for work that waits.
ActorTakesReap(c) ==
    /\ Is(c, "reap", "send")
    /\ LET g == caller[c].held IN
         \/ /\ phase[g] = "idle"
            /\ exit' = [exit EXCEPT ![g] = "unload"]
            /\ phase' = [phase EXCEPT ![g] = "closing"]
            /\ Moves(c, "gone")
         \/ /\ Listens(g)
            /\ Returns(c)
            /\ UNCHANGED <<phase, exit>>
    /\ UNCHANGED <<live, born, deadline, frozen, turn, nextSeq, log, native, gate,
                   faults, refused>>

\* An unload that finds the mailbox closed removes the entry and is done.
UnloadUnavailable(c) ==
    /\ Is(c, "unload", "send") /\ LockFree
    /\ MailboxClosed(caller[c].held)
    /\ RemoveExactly(caller[c].held)
    /\ Returns(c)
    /\ UNCHANGED <<born, actorVars, log, native, gate, faults, refused>>

CommandUnavailable(c, o) ==
    /\ Is(c, o, "send") /\ o \in Disposals \cup {"reap"}
    /\ MailboxClosed(caller[c].held)
    /\ Moves(c, IF o = "reap" THEN "gone" ELSE "remove")
    /\ UNCHANGED <<live, born, actorVars, log, native, gate, faults, refused>>

\* await_actor_retirement, or its deadline.
Gone(c) ==
    /\ caller[c].at = "gone"
    /\ \/ live # caller[c].held /\ LockFree /\ UNCHANGED faults
       \/ faults < MaxFaults /\ faults' = faults + 1
    /\ Returns(c)
    /\ UNCHANGED <<live, born, actorVars, log, native, gate, refused>>

StopAnswered(c) ==
    /\ Is(c, "stop", "reaped")
    /\ ~ProcessAlive(caller[c].held)
    /\ Moves(c, "remove")
    /\ UNCHANGED <<live, born, actorVars, log, native, gate, faults, refused>>

\* remove_session: whatever is in the map.
Remove(c) ==
    /\ caller[c].at = "remove" /\ LockFree
    /\ live' = None
    /\ Moves(c, "mark")
    /\ UNCHANGED <<born, actorVars, log, native, gate, faults, refused>>

\* mark_dismissed, mark_closed; a stop leaves the session open.
Marks(c) ==
    /\ caller[c].at = "mark"
    /\ gate' = CASE caller[c].op = "close" -> "closed"
                 [] caller[c].op = "dismiss" /\ gate = "open" -> "dismissed"
                 [] OTHER -> gate
    /\ Returns(c)
    /\ UNCHANGED <<live, born, actorVars, log, native, faults, refused>>

\* restore_dismissed_session
Restore ==
    /\ gate = "dismissed"
    /\ gate' = "open"
    /\ UNCHANGED <<live, born, actorVars, log, native, caller, faults, refused>>

\* run_if_session_absent: the background repair of turns left open.
RepairAbsent ==
    /\ LockFree /\ live = None
    /\ OpenTurns # {}
    /\ log' = Repaired
    /\ UNCHANGED <<live, born, actorVars, native, gate, caller, faults, refused>>

\* The runtime crashes: what is in memory is gone, the agents die with it.
Crash ==
    /\ faults < MaxFaults
    /\ faults' = faults + 1
    /\ live' = None
    /\ phase' = [g \in Generation |-> IF phase[g] = "unborn" THEN "unborn" ELSE "retired"]
    /\ caller' = [c \in Caller |-> Idle]
    /\ exit' = [g \in Generation |-> "none"]
    /\ deadline' = [g \in Generation |-> {}]
    /\ Forgotten(Generation)
    /\ UNCHANGED <<born, log, native, gate, refused>>

-----------------------------------------------------------------------------
ActorStep(g) ==
    \/ BecomeReady(g) \/ StartupFails(g)
    \/ EndTurn(g) \/ AbandonTurn(g) \/ EndTurnFails(g)
    \/ Finalize(g) \/ Seal(g) \/ Relinquish(g) \/ Finish(g) \/ Retire(g)

CallerStep(c) ==
    \/ StartJoins(c) \/ StartRepairs(c) \/ StartFails(c) \/ StartInstalls(c) \/ StartReturns(c)
    \/ InjectOffline(c) \/ InjectFinds(c)
    \/ InjectHandled(c) \/ InjectUnavailable(c) \/ InjectHandsOff(c)
    \/ \E o \in Commands : ActorTakesCommand(c, o) \/ CommandUnavailable(c, o)
    \/ FindsHandle(c) \/ ActorTakesReap(c) \/ UnloadUnavailable(c)
    \/ Gone(c) \/ StopAnswered(c) \/ Remove(c) \/ Marks(c)

Next ==
    \/ \E g \in Generation : ActorStep(g) \/ Emit(g) \/ BeginTurn(g) \/ GiveUp(g)
    \/ \E c \in Caller :
         \/ CallerStep(c)
         \/ StartBegins(c) \/ InjectBegins(c)
         \/ \E o \in Commands : CommandBegins(c, o)
    \/ Restore \/ RepairAbsent \/ Crash

Spec == Init /\ [][Next]_vars

\* Threads and tasks are scheduled, a startup ends at its timeout, and a turn with
\* a deadline ends there at the latest.  Any other turn may last for ever, also one
\* that is to exit: Dismiss asks the agent to cancel but sets no deadline, and Close
\* does not even ask.  Nothing obliges anybody to call.
Due(g) == phase[g] = "turn" => deadline[g] # {}

FairSpec ==
    /\ Spec
    /\ \A g \in Generation : WF_vars(Due(g) /\ ActorStep(g))
    /\ \A c \in Caller : WF_vars(CallerStep(c))

-----------------------------------------------------------------------------
(***************************************************************************)
(* Properties.                                                             *)
(***************************************************************************)
Calls == [op : {"none", "start", "inject"} \cup Commands,
          at : {"idle", "enter", "install", "join", "await", "lookup", "find", "send",
                "handoff", "gone", "reaped", "remove", "mark"},
          held : Generation \cup {None},
          fresh : BOOLEAN]

Turns == (Generation \X (Nat \ {0})) \cup {NoTurn}

TypeOK ==
    /\ live \in Generation \cup {None}
    /\ born \in 0..MaxGenerations
    /\ phase \in [Generation -> Phases]
    /\ exit \in [Generation -> {"none", "failed"} \cup Dispositions]
    /\ deadline \in [Generation -> SUBSET Deadlines]
    /\ frozen \in [Generation -> BOOLEAN]
    /\ turn \in [Generation -> Turns]
    /\ nextSeq \in [Generation -> Nat \ {0}]
    /\ log \subseteq [seq : Nat \ {0}, kind : Kinds, turn : Turns]
    /\ native \in BOOLEAN
    /\ gate \in {"open", "dismissed", "closed"}
    /\ caller \in [Caller -> Calls]
    /\ faults \in 0..MaxFaults
    /\ refused \in BOOLEAN

\* One writer: from its installation until it has relinquished the sequence, a
\* generation is the one in the map, so no second one is installed beside it
\* and no event is appended offline behind its back.
SingleWriter == \A g \in Generation : Owns(g) => live = g

\* manager/unload.rs:28-31: unload waits for the exact registered handle to leave
\* the map "so a subsequent resume cannot race actor retirement".  Not so: an
\* unload that finds the mailbox closed removes the entry without waiting, and the
\* next start installs a second writer beside the one that is still exiting.
ResumeAfterRetirement ==
    \A g, h \in Generation : Admitted(g) /\ Admitted(h) => g = h

\* Every event a generation numbers is accepted by the log: its numbers are
\* above every number the log already holds.
EventsAccepted ==
    /\ ~refused
    /\ \A g \in Generation, n \in Seqs : Owns(g) => n < nextSeq[g]

\* specs/anyharness/acp.md:188: "seq values are session-local and monotonic", and
\* startup.rs:82-85 has the manager read the last number for every start.  Not so:
\* a start that failed after its first events leaves them in the log, the next
\* start is Fresh again and numbers from 1, and its events are refused.
NumbersMoveOn == ~refused

\* A generation never runs beside a turn that another one left open: turns are
\* repaired before it is installed, and at most one is open at any time.
TurnsRepaired ==
    /\ \A t, u \in OpenTurns : t = u
    /\ live # None /\ Owns(live) => \A t \in OpenTurns : t[1] = live

\* No caller waits for ever: a command is answered, refused by a closed mailbox
\* or given up at its deadline, whatever the others do to the actor meanwhile.
EveryCallReturns == \A c \in Caller : caller[c].op # "none" ~> caller[c].op = "none"

\* An actor that is to exit, be it after a turn with a deadline, is gone in the
\* end, even when its entry was removed from the map, its terminal transaction
\* failed or another exit took the place of the one that set the deadline.
ExitIsCarriedOut ==
    \A g \in Generation : exit[g] # "none" /\ Due(g) ~> phase[g] = "retired"
====
