------------------------------ MODULE EventLog ------------------------------
(***************************************************************************)
(* What the event sink promises, without transactions, queues or streams:  *)
(* an append-only log, and subscribers that receive every event they asked *)
(* for, once each and in the order of the log, across reconnections.       *)
(***************************************************************************)
EXTENDS Naturals, Sequences

CONSTANTS
    Subscribers,
    Wants,      \* [Subscribers -> set of event kinds]
    Batches     \* what one transaction may append: sequences of kinds

VARIABLES
    log,        \* the committed events, by sequence number
    cursor      \* the last sequence number each subscriber has received

vars == <<log, cursor>>

Init ==
    /\ log = <<>>
    /\ cursor = [s \in Subscribers |-> 0]

Commit == /\ \E batch \in Batches : log' = log \o batch
          /\ UNCHANGED cursor

\* The events of l that s has still to receive.
Due(l, s) == {n \in 1..Len(l) : n > cursor[s] /\ l[n] \in Wants[s]}

\* The subscriber receives the next event it asked for: none twice, none skipped.
Receive(s) ==
    /\ \E n \in Due(log, s) :
          /\ \A m \in Due(log, s) : n <= m
          /\ cursor' = [cursor EXCEPT ![s] = n]
    /\ UNCHANGED log

Next == Commit \/ \E s \in Subscribers : Receive(s)

Spec == Init /\ [][Next]_vars
=============================================================================
