--------------------------- MODULE OutboxContract ---------------------------
(***************************************************************************)
(* What outbox delivery promises: every queued event is received by the    *)
(* registered consumer at most once, and is acknowledged in the outbox     *)
(* only after it was received.                                             *)
(***************************************************************************)
EXTENDS Naturals

CONSTANT Event       \* the identifiers of outbox rows

VARIABLES queued,    \* the events that have a committed outbox row
          receipts,  \* how many consumer_inbox rows each event has
          acked      \* the events whose outbox row is published

vars == <<queued, receipts, acked>>

Init == /\ queued = {}
        /\ receipts = [o \in Event |-> 0]
        /\ acked = {}

Queue(o) == /\ o \notin queued
            /\ queued' = queued \cup {o}
            /\ UNCHANGED <<receipts, acked>>

Receive(o) == /\ o \in queued
              /\ receipts[o] = 0
              /\ receipts' = [receipts EXCEPT ![o] = 1]
              /\ UNCHANGED <<queued, acked>>

Acknowledge(o) == /\ o \in queued \ acked
                  /\ receipts[o] = 1
                  /\ acked' = acked \cup {o}
                  /\ UNCHANGED <<queued, receipts>>

Next == \E o \in Event : Queue(o) \/ Receive(o) \/ Acknowledge(o)

Spec == Init /\ [][Next]_vars
=============================================================================
