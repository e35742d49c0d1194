---------------------------- MODULE OutboxProofs ----------------------------
(***************************************************************************)
(* Outbox delivery for every number of events, publishers and crashes and  *)
(* every batch size, lease and retry interval.  None of it depends on      *)
(* time: a lease that runs out early costs a second hand-off, nothing      *)
(* else.                                                                   *)
(***************************************************************************)
EXTENDS WorkerProcess, TLAPS

(* A publisher with events in hand has a token, the rows exist, and the    *)
(* event it is settling is one of them, with a receipt if it is to be      *)
(* acknowledged. *)
Hands ==
    \A w \in Worker :
        /\ \A o \in batch[w] : outbox[o] # None /\ token[w] # None
        /\ pc[w] \in {"ack", "retry"} => current[w] \in batch[w]
        /\ pc[w] = "ack" => receipts[current[w]] = 1
        /\ pc[w] = "leasing" => token[w] # None

Tokens == \A v, w \in Worker : token[v] = token[w] /\ token[v] # None => v = w

Receipts == \A o \in Event :
                /\ receipts[o] \in {0, 1}
                /\ outbox[o] = None => receipts[o] = 0
                /\ outbox[o] # None /\ outbox[o].published =>
                       receipts[o] = 1 /\ outbox[o].token = None

(* The rows of an uncommitted lease: not published, free or expired, and   *)
(* nobody else's. *)
Locks ==
    \A w \in Worker : pc[w] = "leasing" =>
        \A o \in batch[w] :
            /\ ~outbox[o].published
            /\ outbox[o].token = None \/ outbox[o].age >= LeaseFor
            /\ \A v \in Worker : pc[v] = "leasing" /\ o \in batch[v] => v = w

Inv == Hands /\ Tokens /\ Receipts /\ Locks

IInv == TypeOK /\ Inv

(* The type of an older row, and what time leaves alone.                   *)
LEMMA OlderRow ==
    ASSUME NEW row \in Row
    PROVE  /\ Older(row) \in Row /\ Older(row) # None
           /\ Older(row).published = row.published
           /\ Older(row).token = row.token
           /\ Older(row).attempts = row.attempts
           /\ row.token # None /\ row.age >= LeaseFor => Older(row).age >= LeaseFor
  <1> DEFINE d == Greatest(row.due - 1, -MaxLag)
             a == IF row.token = None THEN 0
                  ELSE Least(row.age + 1, LeaseFor + MaxLag)
  <1>1. row # None
    BY NoneIsNoRow
  <1>2. /\ row.published \in BOOLEAN /\ row.due \in -MaxLag..RetryAfter
        /\ row.token \in Token \cup {None} /\ row.age \in 0..(LeaseFor + MaxLag)
        /\ row.attempts \in 0..MaxAttempts
    BY DEF Row
  <1>3. d \in -MaxLag..RetryAfter
    BY <1>2, OutboxAssumption DEF Greatest
  <1>4. /\ a \in 0..(LeaseFor + MaxLag)
        /\ row.token # None /\ row.age >= LeaseFor => a >= LeaseFor
    BY <1>2, OutboxAssumption DEF Least
  <1>5. Older(row) = [row EXCEPT !.due = d, !.age = a]
    BY <1>1 DEF Older
  <1> HIDE DEF d, a
  <1>6. Older(row) \in Row
    BY <1>3, <1>4, <1>5 DEF Row
  <1> QED
    BY <1>3, <1>4, <1>5, <1>6, NoneIsNoRow DEF Row

(* The type of a row under a new lease. *)
LEMMA LeasedRow ==
    ASSUME NEW row \in Row, NEW t \in Token, NEW elapsed \in 0..MaxLag
    PROVE  /\ Leased(row, t, elapsed) \in Row
           /\ Leased(row, t, elapsed).published = row.published
           /\ Leased(row, t, elapsed).token = t
  <1> DEFINE n == Least(row.attempts + 1, MaxAttempts)
  <1>1. n \in 0..MaxAttempts
    BY OutboxAssumption DEF Row, Least
  <1>2. elapsed \in 0..(LeaseFor + MaxLag)
    BY OutboxAssumption
  <1>3. Leased(row, t, elapsed) =
           [row EXCEPT !.token = t, !.age = elapsed, !.attempts = n]
    BY DEF Leased
  <1> HIDE DEF n
  <1> QED
    BY <1>1, <1>2, <1>3 DEF Row

(* New events and the passing of time. *)
LEMMA EnvironmentStep ==
    ASSUME IInv, Tick \/ \E o \in Event : Enqueue(o)
    PROVE  IInv'
  <1>1. ASSUME NEW o \in Event, Enqueue(o) PROVE IInv'
    <2>0. PICK since \in 0..MaxLag :
             outbox' = [outbox EXCEPT
                          ![o] = [published |-> FALSE, due |-> -since,
                                  token |-> None, age |-> 0, attempts |-> 0]]
      BY <1>1 DEF Enqueue
    <2> DEFINE new == [published |-> FALSE, due |-> -since, token |-> None,
                       age |-> 0, attempts |-> 0]
    <2>1. /\ outbox[o] = None /\ outbox' = [outbox EXCEPT ![o] = new]
          /\ UNCHANGED <<receipts, pc, lag, token, batch, current, crashes>>
      BY <1>1, <2>0 DEF Enqueue
    <2>2. new \in Row /\ ~new.published
      BY OutboxAssumption DEF Row
    <2>3. new # None
      BY <2>2, NoneIsNoRow
    <2> HIDE DEF new
    <2>4. TypeOK'
      BY <2>1, <2>2 DEF IInv, TypeOK
    <2>5. /\ outbox'[o] = new
          /\ \A p \in Event : outbox[p] # None => outbox'[p] = outbox[p]
          /\ \A p \in Event \ {o} : outbox'[p] = outbox[p]
      BY <2>1 DEF IInv, TypeOK
    <2>6. Hands' /\ Tokens' /\ Receipts'
      BY <2>1, <2>2, <2>3, <2>5 DEF IInv, Inv, TypeOK, Hands, Tokens, Receipts
    <2>7. Locks'
      BY <2>1, <2>5 DEF IInv, Inv, TypeOK, Hands, Locks
    <2> QED
      BY <2>4, <2>6, <2>7 DEF IInv, Inv
  <1>2. CASE Tick
    <2>1. \A o \in Event :
            /\ outbox[o] = None => outbox'[o] = None
            /\ outbox[o] # None =>
                 /\ outbox'[o] \in Row /\ outbox'[o] # None
                 /\ outbox'[o].published = outbox[o].published
                 /\ outbox'[o].token = outbox[o].token
                 /\ outbox[o].token # None /\ outbox[o].age >= LeaseFor =>
                        outbox'[o].age >= LeaseFor
      <3> SUFFICES ASSUME NEW o \in Event PROVE <2>1!(o)
        OBVIOUS
      <3>1. outbox'[o] = Older(outbox[o])
        BY <1>2 DEF Tick
      <3>2. outbox[o] # None => outbox[o] \in Row
        BY DEF IInv, TypeOK
      <3>3. Older(None) = None
        BY DEF Older
      <3> QED
        BY <3>1, <3>2, <3>3, OlderRow
    <2>2. /\ outbox' = [o \in Event |-> outbox'[o]]
          /\ UNCHANGED <<receipts, pc, token, batch, current, crashes>>
      BY <1>2 DEF Tick
    <2>3. lag' \in [Worker -> 0..MaxLag]
      BY <1>2, OutboxAssumption DEF Tick, IInv, TypeOK, Least
    <2>4. TypeOK'
      BY <2>1, <2>2, <2>3 DEF IInv, TypeOK
    <2>5. Hands' /\ Tokens' /\ Receipts'
      BY <2>1, <2>2 DEF IInv, Inv, TypeOK, Hands, Tokens, Receipts
    <2>6. Locks'
      BY <2>1, <2>2 DEF IInv, Inv, TypeOK, Hands, Locks
    <2> QED
      BY <2>4, <2>5, <2>6 DEF IInv, Inv
  <1> QED
    BY <1>1, <1>2

(* Steps of a publisher that change no outbox row. *)
LEMMA LocalStep ==
    ASSUME IInv, NEW w \in Worker,
           \/ BeginSweep(w) \/ LeaseAvailable(w) \/ EndSweep(w)
           \/ Crash(w) \/ Restart(w)
           \/ \E o \in Event : HandOff(w, o) \/ HandOffFails(w, o)
    PROVE  IInv'
  <1>1. CASE BeginSweep(w) \/ EndSweep(w) \/ Restart(w)
    <2>1. TypeOK'
      BY <1>1 DEF IInv, TypeOK, BeginSweep, EndSweep, Restart, Goto, PC, rows
    <2>2. Hands' /\ Tokens' /\ Receipts' /\ Locks'
      BY <1>1 DEF IInv, Inv, TypeOK, BeginSweep, EndSweep, Restart, Goto, rows,
                  Hands, Tokens, Receipts, Locks
    <2> QED
      BY <2>1, <2>2 DEF IInv, Inv
  <1>2. CASE Crash(w)
    <2>1. TypeOK'
      BY <1>2, OutboxAssumption DEF IInv, TypeOK, Crash, Goto, PC, rows
    <2>2. Hands' /\ Tokens' /\ Receipts' /\ Locks'
      BY <1>2 DEF IInv, Inv, TypeOK, Crash, Goto, rows,
                  Hands, Tokens, Receipts, Locks
    <2> QED
      BY <2>1, <2>2 DEF IInv, Inv
  <1>3. CASE LeaseAvailable(w)
    <2>1. PICK B \in SUBSET Event, t \in Token :
            /\ \A o \in B : Available(w, o) /\ o \notin Leasing(w)
            /\ FreshToken(t)
            /\ batch' = [batch EXCEPT ![w] = B]
            /\ token' = [token EXCEPT ![w] = t]
      BY <1>3 DEF LeaseAvailable
    <2>2. /\ pc[w] = "lease" /\ pc' = [pc EXCEPT ![w] = "leasing"]
          /\ UNCHANGED <<outbox, receipts, lag, current, crashes>>
      BY <1>3 DEF LeaseAvailable, Goto, rows
    <2>3. TypeOK'
      BY <2>1, <2>2 DEF IInv, TypeOK, PC
    <2>4. /\ \A o \in B : /\ outbox[o] # None /\ ~outbox[o].published
                          /\ outbox[o].token = None \/ outbox[o].age >= LeaseFor
          /\ t # None
      BY <2>1, OutboxAssumption DEF Available, IInv, TypeOK, Row
    <2>5. Hands' /\ Tokens' /\ Receipts'
      BY <2>1, <2>2, <2>4 DEF IInv, Inv, TypeOK, Hands, Tokens, Receipts, FreshToken, Unused
    <2>6. Locks'
      BY <2>1, <2>2, <2>4 DEF IInv, Inv, TypeOK, Locks, Leasing
    <2> QED
      BY <2>3, <2>5, <2>6 DEF IInv, Inv
  <1>4. ASSUME NEW o \in Event, HandOff(w, o) \/ HandOffFails(w, o)
        PROVE  IInv'
    <2>1. /\ o \in batch[w] /\ outbox[o] # None
          /\ \/ receipts' = [receipts EXCEPT ![o] = 1]
             \/ UNCHANGED receipts
          /\ pc' = [pc EXCEPT ![w] = "ack"] => receipts'[o] = 1
          /\ \/ pc' = [pc EXCEPT ![w] = "ack"]
             \/ pc' = [pc EXCEPT ![w] = "retry"]
          /\ current' = [current EXCEPT ![w] = o]
          /\ UNCHANGED <<outbox, lag, token, batch, crashes>>
      BY <1>4 DEF HandOff, HandOffFails, Goto, RecordOnce, IInv, Inv, TypeOK,
                  Hands, Receipts
    <2>2. TypeOK'
      BY <2>1 DEF IInv, TypeOK, PC
    <2>3. Hands' /\ Tokens' /\ Receipts' /\ Locks'
      BY <2>1 DEF IInv, Inv, TypeOK, Hands, Tokens, Receipts, Locks
    <2> QED
      BY <2>2, <2>3 DEF IInv, Inv
  <1> QED
    BY <1>1, <1>2, <1>3, <1>4

(* What the commit of a lease does to the rows. *)
LEMMA CommitLeaseEffect ==
    ASSUME IInv, NEW w \in Worker, CommitLease(w)
    PROVE  /\ pc[w] = "leasing" /\ pc' = [pc EXCEPT ![w] = "deliver"]
           /\ token[w] \in Token /\ token[w] # None
           /\ outbox' \in [Event -> Row \cup {None}]
           /\ \A o \in Event \ batch[w] : outbox'[o] = outbox[o]
           /\ \A o \in batch[w] : /\ o \in Event /\ outbox[o] \in Row
                                  /\ outbox'[o] \in Row /\ outbox'[o] # None
                                  /\ ~outbox[o].published
                                  /\ ~outbox'[o].published
                                  /\ outbox'[o].token = token[w]
           /\ lag' \in [Worker -> 0..MaxLag]
           /\ UNCHANGED <<receipts, token, batch, current, crashes>>
  <1>1. /\ pc[w] = "leasing" /\ pc' = [pc EXCEPT ![w] = "deliver"]
        /\ outbox' = [o \in Event |->
                 IF o \in batch[w] THEN Leased(outbox[o], token[w], lag[w])
                 ELSE outbox[o]]
        /\ lag' = [lag EXCEPT ![w] = 0]
        /\ UNCHANGED <<receipts, token, batch, current, crashes>>
    BY DEF CommitLease, Goto
  <1>2. token[w] \in Token /\ token[w] # None /\ lag[w] \in 0..MaxLag
    BY <1>1 DEF IInv, Inv, TypeOK, Hands
  <1>3. \A o \in batch[w] : /\ o \in Event /\ outbox[o] \in Row
                            /\ ~outbox[o].published
    BY <1>1 DEF IInv, Inv, TypeOK, Hands, Locks
  <1>4. \A o \in batch[w] : /\ outbox'[o] \in Row
                            /\ outbox'[o].published = outbox[o].published
                            /\ outbox'[o].token = token[w]
    BY <1>1, <1>2, <1>3, LeasedRow
  <1>5. \A o \in Event \ batch[w] : outbox'[o] = outbox[o]
    BY <1>1
  <1>6. lag' \in [Worker -> 0..MaxLag]
    BY <1>1, OutboxAssumption DEF IInv, TypeOK
  <1>7. outbox' \in [Event -> Row \cup {None}]
    BY <1>1, <1>4, <1>5 DEF IInv, TypeOK
  <1> QED
    BY <1>1, <1>2, <1>3, <1>4, <1>5, <1>6, <1>7, NoneIsNoRow

(* What a settlement does: the row of the event is marked or postponed if  *)
(* it is still leased under the token of the publisher, and untouched      *)
(* otherwise. *)
LEMMA SettleEffect ==
    ASSUME IInv, NEW w \in Worker, MarkPublished(w) \/ ScheduleRetry(w)
    PROVE  LET o == current[w] IN
           /\ o \in Event /\ o \in batch[w] /\ o \notin Leasing(w)
           /\ outbox[o] \in Row /\ outbox'[o] \in Row
           /\ outbox' \in [Event -> Row \cup {None}]
           /\ \A p \in Event \ {o} : outbox'[p] = outbox[p]
           /\ \/ outbox'[o] = outbox[o]
              \/ /\ Owns(w, o) /\ outbox'[o].token = None
                 /\ outbox'[o].published => receipts[o] = 1
           /\ token[w] \in Token
           /\ batch' = [batch EXCEPT ![w] = @ \ {o}]
           /\ current' = [current EXCEPT ![w] = None]
           /\ pc' = [pc EXCEPT ![w] = "deliver"]
           /\ UNCHANGED <<receipts, lag, token, crashes>>
  <1> DEFINE o == current[w]
             row == outbox[o]
             marked == [row EXCEPT !.published = TRUE, !.token = None, !.age = 0]
             postponed == [row EXCEPT !.due = RetryAfter, !.token = None, !.age = 0]
  <1>1. pc[w] \in {"ack", "retry"}
    BY DEF MarkPublished, ScheduleRetry
  <1>2. o \in Event /\ o \in batch[w] /\ row # None /\ token[w] \in Token
    BY <1>1 DEF IInv, Inv, TypeOK, Hands
  <1>3. row \in Row
    BY <1>2 DEF IInv, TypeOK
  <1>4. marked \in Row /\ postponed \in Row
    <2>1. 0 \in 0..(LeaseFor + MaxLag) /\ RetryAfter \in -MaxLag..RetryAfter
      BY OutboxAssumption
    <2> HIDE DEF row
    <2> QED
      BY <1>3, <2>1 DEF Row
  <1>5. /\ marked.token = None /\ postponed.token = None
        /\ postponed.published = row.published
    BY <1>3 DEF Row
  <1>6. PICK settled \in {marked, postponed} :
            /\ Settle(w, settled)
            /\ settled = postponed \/ pc[w] = "ack"
    <2>1. MarkPublished(w) => pc[w] = "ack" /\ Settle(w, marked)
      BY DEF MarkPublished
    <2>2. ScheduleRetry(w) => Settle(w, postponed)
      BY DEF ScheduleRetry
    <2> HIDE DEF marked, postponed
    <2> QED
      BY <2>1, <2>2
  <1>7. /\ o \notin Leasing(w)
        /\ outbox' = IF Owns(w, o) THEN [outbox EXCEPT ![o] = settled] ELSE outbox
        /\ batch' = [batch EXCEPT ![w] = @ \ {o}]
        /\ current' = [current EXCEPT ![w] = None]
        /\ pc' = [pc EXCEPT ![w] = "deliver"]
        /\ UNCHANGED <<receipts, lag, token, crashes>>
    BY <1>6 DEF Settle, Goto
  <1> HIDE DEF marked, postponed
  <1>8. settled \in Row /\ settled.token = None
    BY <1>4, <1>5, <1>6
  <1>9. Owns(w, o) /\ settled.published => receipts[o] = 1
    BY <1>5, <1>6 DEF Owns, IInv, Inv, Hands
  <1> QED
    BY <1>2, <1>3, <1>7, <1>8, <1>9 DEF IInv, TypeOK

(* The steps of a publisher that write outbox rows. *)
LEMMA WriteStep ==
    ASSUME IInv, NEW w \in Worker,
           CommitLease(w) \/ MarkPublished(w) \/ ScheduleRetry(w)
    PROVE  IInv'
  <1>1. CASE CommitLease(w)
    <2>1. TypeOK'
      BY <1>1, CommitLeaseEffect DEF IInv, TypeOK, PC
    <2>2. Hands' /\ Tokens' /\ Receipts'
      BY <1>1, CommitLeaseEffect
         DEF IInv, Inv, TypeOK, Hands, Tokens, Receipts
    <2>3. Locks'
      BY <1>1, CommitLeaseEffect DEF IInv, Inv, TypeOK, Locks
    <2> QED
      BY <2>1, <2>2, <2>3 DEF IInv, Inv
  <1>2. CASE MarkPublished(w) \/ ScheduleRetry(w)
    <2>1. TypeOK'
      BY <1>2, SettleEffect DEF IInv, TypeOK, PC
    <2>2. Hands' /\ Tokens'
      BY <1>2, SettleEffect, NoneIsNoRow DEF IInv, Inv, TypeOK, Hands, Tokens
    <2>3. Receipts'
      BY <1>2, SettleEffect, NoneIsNoRow DEF IInv, Inv, TypeOK, Receipts
    <2>4. Locks'
      BY <1>2, SettleEffect DEF IInv, Inv, TypeOK, Locks, Leasing
    <2> QED
      BY <2>1, <2>2, <2>3, <2>4 DEF IInv, Inv
  <1> QED
    BY <1>1, <1>2

(* The inductive invariant holds. *)
THEOREM OutboxInvariant == Spec => []IInv
  <1>1. Init => IInv
    BY OutboxAssumption
       DEF Init, IInv, TypeOK, PC, Inv, Hands, Tokens, Receipts, Locks
  <1>2. IInv /\ [Next]_vars => IInv'
    <2> SUFFICES ASSUME IInv, [Next]_vars PROVE IInv'
      OBVIOUS
    <2>1. CASE UNCHANGED vars
      BY <2>1 DEF vars, rows, IInv, TypeOK, Inv, Hands, Tokens, Receipts, Locks
    <2> QED
      BY <2>1, EnvironmentStep, LocalStep, WriteStep DEF Next, Work
  <1> QED
    BY <1>1, <1>2, PTL DEF Spec

(* Every row and every publisher has its type. *)
THEOREM OutboxTypeOK == Spec => []TypeOK
  <1>1. IInv => TypeOK
    BY DEF IInv
  <1> QED
    BY <1>1, OutboxInvariant, PTL

(* At most one publisher can settle an event, however many leases on it    *)
(* have expired: lease tokens are unique (lease_available).                *)
THEOREM OutboxAtMostOneSettler == Spec => []AtMostOneSettler
  <1>1. IInv => AtMostOneSettler
    BY DEF IInv, Inv, Hands, Tokens, AtMostOneSettler, Owns
  <1> QED
    BY <1>1, OutboxInvariant, PTL

-----------------------------------------------------------------------------
(* What a step does to the rows, as far as the contract and the delivery   *)
(* record go: nothing but time, a new row, a receipt, a lease, or a        *)
(* settlement by the owner. *)

Aged == /\ receipts' = receipts
        /\ \A o \in Event :
             /\ outbox[o] = None <=> outbox'[o] = None
             /\ outbox[o] # None =>
                  /\ outbox'[o].published = outbox[o].published
                  /\ outbox'[o].token = outbox[o].token
                  /\ outbox'[o].attempts = outbox[o].attempts

Received(o) == /\ outbox' = outbox /\ outbox[o] # None /\ receipts[o] = 0
               /\ receipts' = [receipts EXCEPT ![o] = 1]

Only(o) == /\ receipts' = receipts
           /\ \A p \in Event \ {o} : outbox'[p] = outbox[p]

Queued(o) == /\ Only(o) /\ outbox[o] = None /\ outbox'[o] # None
             /\ ~outbox'[o].published

LeasedBy(w) ==
    /\ pc[w] = "leasing" /\ receipts' = receipts
    /\ \A o \in Event \ batch[w] : outbox'[o] = outbox[o]
    /\ \A o \in batch[w] : /\ outbox[o] # None /\ outbox'[o] # None
                           /\ ~outbox[o].published /\ ~outbox'[o].published
                           /\ outbox'[o].token # None
                           /\ outbox[o].token = None \/ outbox[o].age >= LeaseFor

SettledBy(w) ==
    LET o == current[w] IN
    /\ o \in Event /\ Only(o) /\ outbox[o] # None /\ outbox'[o] # None
    /\ current' = [current EXCEPT ![w] = None]
    /\ \/ outbox'[o] = outbox[o]
       \/ /\ Owns(w, o) /\ outbox'[o].token = None
          /\ outbox'[o].published => receipts[o] = 1

LEMMA RowStep ==
    ASSUME IInv, [Next]_vars
    PROVE  \/ Aged
           \/ \E o \in Event : Queued(o) \/ Received(o)
           \/ \E w \in Worker : LeasedBy(w) \/ SettledBy(w)
  <1>1. ASSUME NEW o \in Event, Enqueue(o) PROVE Queued(o)
    <2>0. PICK since \in 0..MaxLag :
             outbox' = [outbox EXCEPT
                          ![o] = [published |-> FALSE, due |-> -since,
                                  token |-> None, age |-> 0, attempts |-> 0]]
      BY <1>1 DEF Enqueue
    <2> DEFINE new == [published |-> FALSE, due |-> -since, token |-> None,
                       age |-> 0, attempts |-> 0]
    <2>1. new \in Row /\ ~new.published
      BY OutboxAssumption DEF Row
    <2>2. /\ outbox[o] = None /\ outbox' = [outbox EXCEPT ![o] = new]
          /\ receipts' = receipts
      BY <1>1, <2>0 DEF Enqueue
    <2>3. new # None
      BY <2>1, NoneIsNoRow
    <2> HIDE DEF new
    <2> QED
      BY <2>1, <2>2, <2>3 DEF Queued, Only, IInv, TypeOK
  <1>2. CASE Tick
    <2>1. \A o \in Event : outbox'[o] = Older(outbox[o])
      BY <1>2 DEF Tick
    <2>2. Older(None) = None
      BY DEF Older
    <2>3. \A o \in Event : outbox[o] # None => outbox[o] \in Row
      BY DEF IInv, TypeOK
    <2>4. receipts' = receipts
      BY <1>2 DEF Tick
    <2> QED
      BY <2>1, <2>2, <2>3, <2>4, OlderRow DEF Aged
  <1>3. ASSUME NEW w \in Worker, CommitLease(w) PROVE LeasedBy(w)
    BY <1>3, CommitLeaseEffect, NoneIsNoRow DEF LeasedBy, IInv, Inv, Locks
  <1>4. ASSUME NEW w \in Worker, MarkPublished(w) \/ ScheduleRetry(w)
        PROVE  SettledBy(w)
    BY <1>4, SettleEffect, NoneIsNoRow DEF SettledBy, Only
  <1>5. ASSUME NEW w \in Worker, NEW o \in Event,
               HandOff(w, o) \/ HandOffFails(w, o)
        PROVE  Received(o) \/ Aged
    <2>1. outbox[o] # None /\ outbox' = outbox
      BY <1>5 DEF HandOff, HandOffFails, IInv, Inv, Hands
    <2>2. \/ receipts' = receipts
          \/ receipts[o] = 0 /\ receipts' = [receipts EXCEPT ![o] = 1]
      BY <1>5 DEF HandOff, HandOffFails, RecordOnce
    <2> QED
      BY <2>1, <2>2 DEF Received, Aged
  <1>6. ASSUME NEW w \in Worker,
               \/ BeginSweep(w) \/ LeaseAvailable(w) \/ EndSweep(w)
               \/ Crash(w) \/ Restart(w)
        PROVE  Aged
    BY <1>6 DEF BeginSweep, LeaseAvailable, EndSweep, Crash, Restart, rows, Aged
  <1>7. CASE UNCHANGED vars
    BY <1>7 DEF vars, rows, Aged
  <1> QED
    BY <1>1, <1>2, <1>3, <1>4, <1>5, <1>6, <1>7 DEF Next, Work

(* The detailed delivery keeps its contract: at most one receipt per event *)
(* and no acknowledgement before the receipt, whatever publisher crashes,  *)
(* stalls past its lease or sees its transport fail.                       *)
THEOREM OutboxImplementsContract == Spec => ImplementsContract
  <1> DEFINE queued == {o \in Event : outbox[o] # None}
             acked == {o \in Event : outbox[o] # None /\ outbox[o].published}
  <1>1. Init => Contract!Init
    BY DEF Init, Contract!Init
  <1>2. IInv /\ [Next]_vars => [Contract!Next]_(Contract!vars)
    <2> SUFFICES ASSUME IInv, [Next]_vars
                 PROVE  [Contract!Next]_(Contract!vars)
      OBVIOUS
    <2>1. Aged => UNCHANGED Contract!vars
      BY DEF Aged, Contract!vars
    <2>2. ASSUME NEW o \in Event, Queued(o) PROVE Contract!Queue(o)
      BY <2>2 DEF Queued, Only, Contract!Queue
    <2>3. ASSUME NEW o \in Event, Received(o) PROVE Contract!Receive(o)
      BY <2>3 DEF Received, Contract!Receive
    <2>4. ASSUME NEW w \in Worker, LeasedBy(w) PROVE UNCHANGED Contract!vars
      <3>1. queued' = queued /\ acked' = acked /\ receipts' = receipts
        BY <2>4 DEF LeasedBy, IInv, TypeOK
      <3> QED
        BY <3>1 DEF Contract!vars
    <2>5. ASSUME NEW w \in Worker, SettledBy(w)
          PROVE  Contract!Next \/ UNCHANGED Contract!vars
      <3>1. PICK o \in Event : o = current[w]
        BY <2>5 DEF SettledBy
      <3>2. /\ receipts' = receipts /\ queued' = queued
            /\ \A p \in Event \ {o} : outbox'[p] = outbox[p]
            /\ outbox[o] # None /\ outbox'[o] # None
        BY <2>5, <3>1 DEF SettledBy, Only
      <3>3. CASE outbox'[o] = outbox[o]
        BY <3>2, <3>3 DEF Contract!vars
      <3>4. CASE /\ Owns(w, o)
                 /\ outbox'[o].published => receipts[o] = 1
        <4>1. ~outbox[o].published
          BY <3>4 DEF Owns
        <4>2. CASE outbox'[o].published
          <5>1. o \in queued \ acked /\ acked' = acked \cup {o} /\ receipts[o] = 1
            BY <3>2, <3>4, <4>1, <4>2
          <5> QED
            BY <3>2, <5>1 DEF Contract!Next, Contract!Acknowledge
        <4>3. CASE ~outbox'[o].published
          <5>1. acked' = acked
            BY <3>2, <4>1, <4>3
          <5> QED
            BY <3>2, <5>1 DEF Contract!vars
        <4> QED
          BY <4>2, <4>3
      <3> QED
        BY <2>5, <3>1, <3>3, <3>4 DEF SettledBy
    <2> QED
      BY <2>1, <2>2, <2>3, <2>4, <2>5, RowStep DEF Contract!Next
  <1> QED
    BY <1>1, <1>2, OutboxInvariant, PTL DEF Spec, ImplementsContract, Contract!Spec

(* A lease is ended by its owner, or by a new lease after it ran out:      *)
(* a publisher that lost its lease changes nothing.                        *)
THEOREM OutboxSettledByOwner == Spec => SettledByOwner
  <1> DEFINE Ends(o) ==
        (outbox[o] # None /\ outbox[o].token # None
             /\ outbox'[o].token # outbox[o].token) =>
          \/ /\ outbox'[o].token = None
             /\ \E w \in Worker : /\ token[w] = outbox[o].token
                                  /\ current[w] = o /\ current'[w] = None
          \/ /\ outbox'[o].token # None
             /\ outbox[o].age >= LeaseFor
  <1>1. IInv /\ [Next]_vars => \A o \in Event : Ends(o)
    <2> SUFFICES ASSUME IInv, [Next]_vars, NEW o \in Event PROVE Ends(o)
      OBVIOUS
    <2>1. Aged => Ends(o)
      BY DEF Aged
    <2>2. ASSUME NEW p \in Event, Queued(p) \/ Received(p) PROVE Ends(o)
      BY <2>2 DEF Queued, Received, Only
    <2>3. ASSUME NEW w \in Worker, LeasedBy(w) PROVE Ends(o)
      BY <2>3 DEF LeasedBy
    <2>4. ASSUME NEW w \in Worker, SettledBy(w) PROVE Ends(o)
      BY <2>4 DEF SettledBy, Only, Owns, IInv, TypeOK
    <2> QED
      BY <2>1, <2>2, <2>3, <2>4, RowStep
  <1>2. IInv /\ [Next]_vars => [\A o \in Event : Ends(o)]_vars
    BY <1>1
  <1> QED
    BY <1>2, OutboxInvariant, PTL DEF Spec, SettledByOwner

(* The delivery record of a published row never changes again.             *)
THEOREM OutboxPublishedIsFinal == Spec => PublishedIsFinal
  <1> DEFINE Final(o) ==
        outbox[o] # None /\ outbox[o].published =>
            /\ outbox'[o].published /\ outbox'[o].token = None
            /\ outbox'[o].attempts = outbox[o].attempts
  <1>1. IInv /\ [Next]_vars => \A o \in Event : Final(o)
    <2> SUFFICES ASSUME IInv, [Next]_vars, NEW o \in Event,
                        outbox[o] # None, outbox[o].published
                 PROVE  Final(o)
      OBVIOUS
    <2>1. outbox[o].token = None
      BY DEF IInv, Inv, Receipts
    <2>2. Aged => Final(o)
      BY <2>1 DEF Aged
    <2>3. ASSUME NEW p \in Event, Queued(p) \/ Received(p) PROVE Final(o)
      BY <2>1, <2>3 DEF Queued, Received, Only
    <2>4. ASSUME NEW w \in Worker, LeasedBy(w) PROVE Final(o)
      BY <2>1, <2>4 DEF LeasedBy
    <2>5. ASSUME NEW w \in Worker, SettledBy(w) PROVE Final(o)
      BY <2>1, <2>5 DEF SettledBy, Only, Owns
    <2> QED
      BY <2>2, <2>3, <2>4, <2>5, RowStep
  <1>2. IInv /\ [Next]_vars => [\A o \in Event : Final(o)]_vars
    BY <1>1
  <1> QED
    BY <1>2, OutboxInvariant, PTL DEF Spec, PublishedIsFinal
-----------------------------------------------------------------------------
(* The worker process *)

(* Whatever the process does with its publisher, the rows see a publisher. *)
LEMMA ProcessStep ==
    ASSUME [ProcessNext]_allvars
    PROVE  [Next]_vars
  <1>1. CASE \E w \in Worker : Start(w)
    BY <1>1 DEF Start, Next, Work
  <1>2. CASE \E w \in Worker : Main(w)
    BY <1>2 DEF Main, Connect, Probe, BecomeReady, Observe, Finish, Next, Work
  <1>3. CASE \E w \in Worker : Publisher(w)
    BY <1>3 DEF Publisher, NextSweep, TaskReturns, Sweep, Next, Work
  <1>4. CASE \E w \in Worker : StartupFails(w) \/ Signal(w)
    BY <1>4 DEF StartupFails, Signal
  <1>5. CASE \E w \in Worker : SweepRaises(w) \/ Kill(w)
    BY <1>5 DEF SweepRaises, Kill, Next
  <1>6. CASE (Tick \/ \E o \in Event : Enqueue(o)) /\ UNCHANGED process
    BY <1>6 DEF Next
  <1>7. CASE UNCHANGED allvars
    BY <1>7 DEF allvars
  <1> QED
    BY <1>1, <1>2, <1>3, <1>4, <1>5, <1>6, <1>7 DEF ProcessNext

(* A publisher inside run_worker is a publisher of OutboxDelivery: start,  *)
(* signals, failures and kills do to the rows only what a crash or a       *)
(* restart does, so the delivery contract holds for the process too.       *)
THEOREM ProcessImplementsDelivery == ProcessSpec => Spec
  <1>1. ProcessInit => Init
    BY DEF ProcessInit
  <1>2. [ProcessNext]_allvars => [Next]_vars
    BY ProcessStep
  <1> QED
    BY <1>1, <1>2, PTL DEF ProcessSpec, Spec

(* publisher_task exists only between readiness and the end of the drain.  *)
Attended == \A w \in Worker : task[w] # "none" => phase[w] \in {"running", "draining"}

ProcessInv == ProcessTypeOK /\ NoOrphanSweep /\ Attended

(* What a sweep does to its publisher's control.                           *)
LEMMA SweepControl ==
    ASSUME TypeOK, NEW w \in Worker,
           \/ BeginSweep(w) \/ Restart(w) \/ Crash(w)
           \/ LeaseAvailable(w) \/ CommitLease(w)
           \/ \E o \in Event : HandOff(w, o) \/ HandOffFails(w, o)
           \/ MarkPublished(w) \/ ScheduleRetry(w) \/ EndSweep(w)
    PROVE  /\ \A v \in Worker \ {w} : pc'[v] = pc[v]
           /\ BeginSweep(w) => pc[w] = "idle"
           /\ Restart(w) => pc'[w] = "idle"
           /\ Crash(w) => pc'[w] = "down"
           /\ \/ BeginSweep(w) \/ Restart(w) \/ Crash(w)
              \/ pc[w] \notin {"idle", "down"}
  BY DEF TypeOK, BeginSweep, Restart, Crash, LeaseAvailable, CommitLease,
         HandOff, HandOffFails, MarkPublished, ScheduleRetry, Settle, EndSweep, Goto
(* One step of the process keeps its control in order.                     *)
LEMMA ProcessInvStep ==
    ASSUME ProcessInv, TypeOK', [ProcessNext]_allvars
    PROVE  ProcessInv'
  <1> USE DEF ProcessInv, ProcessTypeOK, NoOrphanSweep, Attended, Phase, Task, Result
  <1>1. CASE UNCHANGED allvars
    BY <1>1 DEF allvars, process, vars
  <1>2. CASE (Tick \/ \E o \in Event : Enqueue(o)) /\ UNCHANGED process
    BY <1>2 DEF Tick, Enqueue, process
  <1>3. ASSUME NEW w \in Worker, Start(w) PROVE ProcessInv'
    <2>1. CASE pc[w] = "down"
      <3>1. Restart(w)
        BY <2>1, <1>3 DEF Start
      <3> QED
        BY <1>3, <3>1, SweepControl DEF Start
    <2>2. CASE pc[w] # "down"
      BY <1>3, <2>2 DEF Start, vars
    <2> QED
      BY <2>1, <2>2
  <1>4. ASSUME NEW w \in Worker, Probe(w) PROVE ProcessInv'
    <2>1. BeginSweep(w)
      BY <1>4 DEF Probe
    <2> QED
      BY <1>4, <2>1, SweepControl DEF Probe
  <1>5. ASSUME NEW w \in Worker,
               \/ Connect(w) \/ BecomeReady(w) \/ Observe(w) \/ Finish(w)
               \/ TaskReturns(w) \/ StartupFails(w) \/ Signal(w)
        PROVE  ProcessInv'
    <2>1. UNCHANGED vars /\ UNCHANGED pc
      BY <1>5 DEF Connect, BecomeReady, Observe, Finish, TaskReturns, StartupFails,
                  Signal, vars
    <2>2. CASE Connect(w)
      BY <2>1, <2>2 DEF Connect
    <2>3. CASE BecomeReady(w)
      BY <2>1, <2>3 DEF BecomeReady
    <2>4. CASE Observe(w)
      BY <2>1, <2>4 DEF Observe
    <2>5. CASE Finish(w)
      BY <2>1, <2>5 DEF Finish
    <2>6. CASE TaskReturns(w)
      BY <2>1, <2>6 DEF TaskReturns
    <2>7. CASE StartupFails(w)
      BY <2>1, <2>7 DEF StartupFails
    <2>8. CASE Signal(w)
      BY <2>1, <2>8 DEF Signal
    <2> QED
      BY <1>5, <2>2, <2>3, <2>4, <2>5, <2>6, <2>7, <2>8
  <1>6. ASSUME NEW w \in Worker, NextSweep(w) PROVE ProcessInv'
    <2>1. BeginSweep(w)
      BY <1>6 DEF NextSweep
    <2> QED
      BY <1>6, <2>1, SweepControl DEF NextSweep, process
  <1>7. ASSUME NEW w \in Worker, Sweep(w) PROVE ProcessInv'
    <2>1. /\ \A v \in Worker \ {w} : pc'[v] = pc[v]
          /\ pc[w] \notin {"idle", "down"}
      BY <1>7 DEF Sweep, TypeOK, LeaseAvailable, CommitLease, HandOff, HandOffFails,
                  MarkPublished, ScheduleRetry, Settle, EndSweep, Goto
    <2>2. phase[w] # "exited" /\ (phase[w] = "sweeping" \/ task[w] = "running")
      BY <2>1
    <2> QED
      BY <1>7, <2>1, <2>2 DEF Sweep, process
  <1>8. ASSUME NEW w \in Worker, SweepRaises(w) \/ Kill(w) PROVE ProcessInv'
    <2>1. Crash(w)
      BY <1>8 DEF SweepRaises, Kill
    <2>2. pc'[w] = "down" /\ \A v \in Worker \ {w} : pc'[v] = pc[v]
      BY <2>1, SweepControl
    <2>3. CASE Kill(w)
      BY <2>2, <2>3 DEF Kill
    <2>4. CASE SweepRaises(w) /\ phase[w] = "sweeping"
      <3>1. task[w] = "none"
        BY <2>4
      <3>2. /\ phase'  = [phase EXCEPT ![w] = "draining"]
            /\ stop'   = [stop EXCEPT ![w] = TRUE]
            /\ result' = [result EXCEPT ![w] = "error"]
            /\ UNCHANGED <<ready, task>>
        BY <2>4 DEF SweepRaises
      <3> QED
        BY <2>2, <3>1, <3>2
    <2>5. CASE SweepRaises(w) /\ phase[w] # "sweeping"
      <3>1. task[w] = "running" /\ phase[w] \in {"running", "draining"}
        BY <2>5 DEF SweepRaises
      <3> QED
        BY <2>2, <2>5, <3>1 DEF SweepRaises
    <2> QED
      BY <1>8, <2>3, <2>4, <2>5
  <1> QED
    BY <1>1, <1>2, <1>3, <1>4, <1>5, <1>6, <1>7, <1>8
       DEF ProcessNext, Main, Publisher

(* run_worker in all its phases: the inductive invariant of the process.   *)
THEOREM ProcessInvariant == ProcessSpec => []ProcessInv
  <1>1. ProcessInit /\ TypeOK => ProcessInv
    BY DEF ProcessInit, Init, ProcessInv, ProcessTypeOK, NoOrphanSweep, Attended,
           Phase, Task, Result
  <1>2. ProcessInv /\ TypeOK' /\ [ProcessNext]_allvars => ProcessInv'
    BY ProcessInvStep
  <1> QED
    BY <1>1, <1>2, ProcessImplementsDelivery, OutboxTypeOK, PTL DEF ProcessSpec

(* The types of the publisher and the process hold throughout, and no      *)
(* sweep outlives its process (run_worker).                                *)
THEOREM ProcessNoOrphanSweep == ProcessSpec => [](ProcessTypeOK /\ NoOrphanSweep)
  <1>1. ProcessInv => ProcessTypeOK /\ NoOrphanSweep
    BY DEF ProcessInv
  <1> QED
    BY <1>1, ProcessInvariant, PTL

-----------------------------------------------------------------------------
(* The safety of FailureSurfaces *)

(* The process has failed: its publisher has, unnoticed so far, or it ends *)
(* with an error.                                                          *)
Failing(w) == \/ phase[w] = "running" /\ task[w] = "raised"
              \/ phase[w] = "draining" /\ result[w] = "error"

(* A failure is not hidden by a signal, another failure or the drain: a    *)
(* process that has failed stays so until it exits with an error           *)
(* (_wait_for_stop_or_publisher_failure and the finally of run_worker).    *)
FailureStays ==
    [][\A w \in Worker :
          Failing(w) => Failing(w)' \/ (phase'[w] = "exited" /\ result'[w] = "error")]_allvars

(* What another worker's step, or the rows alone, leaves of a process.     *)
LEMMA OthersStay ==
    ASSUME ProcessInv, NEW v \in Worker, NEW w \in Worker, v # w,
           \/ Start(w) \/ Main(w) \/ Publisher(w) \/ StartupFails(w)
           \/ SweepRaises(w) \/ Signal(w) \/ Kill(w)
    PROVE  phase'[v] = phase[v] /\ task'[v] = task[v] /\ result'[v] = result[v]
  <1> USE DEF ProcessInv, ProcessTypeOK
  <1>1. CASE Start(w) \/ StartupFails(w) \/ Signal(w) \/ Kill(w)
    BY <1>1 DEF Start, StartupFails, Signal, Kill
  <1>2. CASE Main(w)
    BY <1>2 DEF Main, Connect, Probe, BecomeReady, Observe, Finish
  <1>3. CASE Publisher(w)
    BY <1>3 DEF Publisher, NextSweep, TaskReturns, Sweep, process
  <1>4. CASE SweepRaises(w)
    BY <1>4 DEF SweepRaises
  <1> QED BY <1>1, <1>2, <1>3, <1>4

(* The steps of the process itself. *)
LEMMA FailingStep ==
    ASSUME ProcessInv, NEW w \in Worker, Failing(w),
           \/ Start(w) \/ Main(w) \/ Publisher(w) \/ StartupFails(w)
           \/ SweepRaises(w) \/ Signal(w) \/ Kill(w)
    PROVE  Failing(w)' \/ (phase'[w] = "exited" /\ result'[w] = "error")
  <1> USE DEF ProcessInv, ProcessTypeOK, Failing
  <1>1. CASE Start(w) \/ StartupFails(w)
    BY <1>1 DEF Start, StartupFails
  <1>2. CASE Signal(w) \/ Kill(w)
    BY <1>2 DEF Signal, Kill
  <1>3. CASE Main(w)
    BY <1>3 DEF Main, Connect, Probe, BecomeReady, Observe, Finish
  <1>4. CASE Publisher(w)
    BY <1>4 DEF Publisher, NextSweep, TaskReturns, Sweep, process
  <1>5. CASE SweepRaises(w)
    BY <1>5 DEF SweepRaises, NoOrphanSweep
  <1> QED BY <1>1, <1>2, <1>3, <1>4, <1>5

(* For any number of workers, signals and failures, a publisher's failure  *)
(* of its own ends in no other exit than one with an error (run_worker).   *)
THEOREM ProcessFailureStays == ProcessSpec => FailureStays
  <1>1. ProcessInv /\ [ProcessNext]_allvars =>
          [\A w \in Worker : Failing(w) =>
               Failing(w)' \/ (phase'[w] = "exited" /\ result'[w] = "error")]_allvars
    <2> SUFFICES ASSUME ProcessInv, ProcessNext, NEW w \in Worker, Failing(w)
                 PROVE  Failing(w)' \/ (phase'[w] = "exited" /\ result'[w] = "error")
      OBVIOUS
    <2>1. ASSUME NEW v \in Worker,
                 \/ Start(v) \/ Main(v) \/ Publisher(v) \/ StartupFails(v)
                 \/ SweepRaises(v) \/ Signal(v) \/ Kill(v)
          PROVE  Failing(w)' \/ (phase'[w] = "exited" /\ result'[w] = "error")
      <3>1. CASE v = w
        BY <2>1, <3>1, FailingStep
      <3>2. CASE v # w
        BY <2>1, <3>2, OthersStay DEF Failing
      <3> QED BY <3>1, <3>2
    <2>2. CASE UNCHANGED process
      BY <2>2 DEF process, Failing
    <2> QED BY <2>1, <2>2 DEF ProcessNext
  <1> QED
    BY <1>1, ProcessInvariant, PTL DEF ProcessSpec, FailureStays
=============================================================================
