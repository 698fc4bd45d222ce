--------------------------- MODULE UpdateMailbox ---------------------------
(***************************************************************************)
(* The durable mailbox between the Worker and the Supervisor: a directory  *)
(* of request-<component>-<version>.json files written by the Worker and   *)
(* result-<request id>.json files written by the Supervisor (crate         *)
(* proliferate-runtime-update-protocol).                                   *)
(*                                                                         *)
(* The request id is a function of component and version, so a request and *)
(* its result are both identified by one Key, and rewriting a request      *)
(* overwrites its file.  requested_at only ever matters as an order: later *)
(* holds the pairs <<a, b>> of request files such that a was (re)written   *)
(* after b.  Files are published by an atomic rename, hence one step each. *)
(***************************************************************************)

EXTENDS UpdateTypes

VARIABLES
    requests,     \* the keys whose request file exists
    later,        \* <<a, b>>: the request a carries a later requested_at than b
    results       \* results[k]: the outcome in the result file of k, or NoResult

mailbox == <<requests, later, results>>

MailboxTypeOK ==
    /\ requests \subseteq Key
    /\ later \subseteq (Key \X Key)
    /\ results \in [Key -> Outcome \cup {NoResult}]

MailboxInit ==
    /\ requests = {}
    /\ later = {}
    /\ results = [k \in Key |-> NoResult]

(* result_exists *)
HasResult(k) == results[k] # NoResult

(* The order without the pairs that involve k. *)
Without(k) == {p \in later : k \notin {p[1], p[2]}}

(* write_request: publish or overwrite the file of k with a fresh timestamp. *)
WriteRequest(k) ==
    /\ requests' = requests \cup {k}
    /\ later' = Without(k) \cup {<<k, j>> : j \in requests \ {k}}
    /\ UNCHANGED results

(* write_result: publish or overwrite the result of k. *)
WriteResult(k, outcome) ==
    /\ results' = [results EXCEPT ![k] = outcome]
    /\ UNCHANGED <<requests, later>>

(* The Worker's two removals of gc_request_result_pair, in this order. *)
RemoveRequest(k) ==
    /\ requests' = requests \ {k}
    /\ later' = Without(k)
    /\ UNCHANGED results

RemoveResult(k) ==
    /\ results' = [results EXCEPT ![k] = NoResult]
    /\ UNCHANGED <<requests, later>>
=============================================================================
