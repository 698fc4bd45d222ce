---------------------------- MODULE AtomicUpdate ----------------------------
(***************************************************************************)
(* What the Supervisor promises about an update, without files, processes  *)
(* or crashes: installing a version is one atomic step that retains the    *)
(* version served before; only a version without an outcome is taken back, *)
(* and only for the retained one; an outcome is written once and tells the *)
(* truth about what is served or was taken back.                           *)
(***************************************************************************)
EXTENDS UpdateTypes

CONSTANT InitVersion

VARIABLES
    serving,      \* serving[c]: the version component c is served from
    fallback,     \* fallback[c]: the version retained for a rollback
    results,      \* results[k]: the outcome of request k, or NoResult
    reverted      \* the request taken back and about to be given up, or NoKey

avars == <<serving, fallback, results, reverted>>

Init ==
    /\ serving = [c \in Component |-> InitVersion]
    /\ fallback = [c \in Component |-> NoVersion]
    /\ results = [k \in Key |-> NoResult]
    /\ reverted = NoKey

Undecided(k) == results[k] = NoResult

(* Nothing is installed between a rollback and its outcome. *)
Install(k) ==
    /\ Undecided(k)
    /\ reverted = NoKey
    /\ serving' = [serving EXCEPT ![k.component] = k.version]
    /\ fallback' = [fallback EXCEPT ![k.component] = serving[k.component]]
    /\ UNCHANGED <<results, reverted>>

(* The retained version may stay retained as well.  A rollback is to be told *)
(* of, the end of an interrupted installation is not.                        *)
Revert(k) ==
    /\ Undecided(k)
    /\ serving[k.component] = k.version
    /\ fallback[k.component] \in Version
    /\ serving' = [serving EXCEPT ![k.component] = fallback[k.component]]
    /\ \/ fallback' = [fallback EXCEPT ![k.component] = NoVersion]
       \/ UNCHANGED fallback
    /\ reverted' \in {k, NoKey}
    /\ UNCHANGED results

(* The retained copy goes when it is the version served anyway. *)
Forget(c) ==
    /\ fallback[c] = serving[c]
    /\ fallback' = [fallback EXCEPT ![c] = NoVersion]
    /\ UNCHANGED <<serving, results, reverted>>

Succeed(k) ==
    /\ Undecided(k)
    /\ serving[k.component] = k.version
    /\ results' = [results EXCEPT ![k] = "Activated"]
    /\ UNCHANGED <<serving, fallback, reverted>>

(* The version was taken back, and nothing has been installed since: what    *)
(* is served is what was retained, which may be k's version as well.         *)
GiveUp(k) ==
    /\ Undecided(k)
    /\ reverted = k
    /\ reverted' = NoKey
    /\ results' = [results EXCEPT ![k] = "RolledBack"]
    /\ UNCHANGED <<serving, fallback>>

(* A rollback nobody hears of: the request is still pending. *)
LoseTrack ==
    /\ reverted' = NoKey
    /\ UNCHANGED <<serving, fallback, results>>

(* Refused, superseded or unreadable requests. *)
Dismiss(S) ==
    /\ \A k \in S : Undecided(k)
    /\ results' = [k \in Key |-> IF k \in S THEN "Invalid" ELSE results[k]]
    /\ UNCHANGED <<serving, fallback, reverted>>

(* The Worker has taken note of a success. *)
Collect(k) ==
    /\ results[k] = "Activated"
    /\ results' = [results EXCEPT ![k] = NoResult]
    /\ UNCHANGED <<serving, fallback, reverted>>

Next ==
    \/ \E k \in Key : Install(k) \/ Revert(k) \/ Succeed(k) \/ GiveUp(k) \/ Collect(k)
    \/ \E c \in Component : Forget(c)
    \/ \E S \in SUBSET Key : Dismiss(S)
    \/ LoseTrack

Spec == Init /\ [][Next]_avars
=============================================================================
