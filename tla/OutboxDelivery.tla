--------------------------- MODULE OutboxDelivery ---------------------------
(***************************************************************************)
(* Delivery of the transactional outbox of one tenant by several publisher *)
(* processes: outbox_publisher.py over TenantOutboxRepository, handing     *)
(* events to DurableInboxReceiptTransport, which registers a receipt in    *)
(* consumer_inbox.                                                         *)
(*                                                                         *)
(* A sweep reads the clock, leases a batch in one transaction, and hands   *)
(* off and settles its events one by one, each in transactions of their    *)
(* own.  Time is kept relative to the present: Tick moves every stored     *)
(* time stamp one unit into the past, as far as it still matters.          *)
(***************************************************************************)
EXTENDS Integers, FiniteSets

CONSTANTS Event,        \* identifiers of outbox rows
          Worker,       \* publisher processes
          Token,        \* lease tokens (worker_id and uuid4 in the code)
          BatchSize,    \* settings.batch_size
          LeaseFor,     \* settings.lease_for
          RetryAfter,   \* settings.retry_after
          MaxLag,       \* bound: staleness of a clock reading that is told apart
          MaxAttempts,  \* bound: attempt_count is counted up to here
          MaxCrashes,   \* bound: publishers crash this often
          None

ASSUME OutboxAssumption ==
    /\ BatchSize \in Nat \ {0}
    /\ LeaseFor \in Nat \ {0}
    /\ RetryAfter \in Nat \ {0}
    /\ MaxLag \in Nat /\ MaxAttempts \in Nat /\ MaxCrashes \in Nat
    /\ None \notin Event /\ None \notin Token

(* The delivery fields of an outbox row.  locked_at and locked_by are      *)
(* always set and cleared together.                                        *)
Row == [published : BOOLEAN,              \* published_at IS NOT NULL
        due       : -MaxLag..RetryAfter,  \* available_at minus the clock
        token     : Token \cup {None},    \* locked_by
        age       : 0..(LeaseFor + MaxLag),  \* the clock minus locked_at
        attempts  : 0..MaxAttempts]       \* attempt_count

ASSUME NoneIsNoRow == None \notin Row

VARIABLES outbox,    \* the committed row of each event, or None
          receipts,  \* how many consumer_inbox rows each event has
          pc,        \* where each publisher is
          lag,       \* the clock minus leased_at, while a lease is taken
          token,     \* the lease token of the sweep, or None
          batch,     \* the leased events that are not yet settled
          current,   \* the event being handed off and settled, or None
          crashes    \* crashes so far

rows == <<outbox, receipts>>
vars == <<rows, pc, lag, token, batch, current, crashes>>

PC == {"down", "idle", "lease", "leasing", "deliver", "ack", "retry"}

Init == /\ outbox = [o \in Event |-> None]
        /\ receipts = [o \in Event |-> 0]
        /\ pc = [w \in Worker |-> "idle"]
        /\ lag = [w \in Worker |-> 0]
        /\ token = [w \in Worker |-> None]
        /\ batch = [w \in Worker |-> {}]
        /\ current = [w \in Worker |-> None]
        /\ crashes = 0

Least(a, b)    == IF a < b THEN a ELSE b
Greatest(a, b) == IF a < b THEN b ELSE a

-----------------------------------------------------------------------------
(* The environment: the case spine commits events, and time passes *)

(* The commit of _insert_event_and_outbox: available since the request     *)
(* read its clock.                                                         *)
Enqueue(o) ==
    /\ outbox[o] = None
    /\ \E since \in 0..MaxLag :
         outbox' = [outbox EXCEPT ![o] = [published |-> FALSE, due |-> -since,
                                   token |-> None, age |-> 0, attempts |-> 0]]
    /\ UNCHANGED <<receipts, pc, lag, token, batch, current, crashes>>

Older(row) ==
    IF row = None THEN None
    ELSE [row EXCEPT !.due = Greatest(@ - 1, -MaxLag),
                     !.age = IF row.token = None THEN 0
                             ELSE Least(@ + 1, LeaseFor + MaxLag)]

Tick ==
    /\ outbox' = [o \in Event |-> Older(outbox[o])]
    /\ lag' = [w \in Worker |-> IF pc[w] \in {"lease", "leasing"}
                                THEN Least(lag[w] + 1, MaxLag) ELSE lag[w]]
    /\ UNCHANGED <<receipts, pc, token, batch, current, crashes>>

-----------------------------------------------------------------------------
(* One sweep, publish_once *)

Goto(w, label) == pc' = [pc EXCEPT ![w] = label]

(* leased_at = self._now(), before the connection is even opened. *)
BeginSweep(w) ==
    /\ pc[w] = "idle"
    /\ Goto(w, "lease")
    /\ UNCHANGED <<rows, lag, token, batch, current, crashes>>

(* Mutant: an expired lease is never recovered. *)
AvailableUnlocked(w, o) ==
    /\ outbox[o] # None
    /\ ~outbox[o].published
    /\ outbox[o].due <= -lag[w]
    /\ outbox[o].token = None

(* The WHERE clause of _LEASE_AVAILABLE, against the reading of worker w. *)
Available(w, o) ==
    /\ outbox[o] # None
    /\ ~outbox[o].published
    /\ outbox[o].due <= -lag[w]
    /\ outbox[o].token = None \/ outbox[o].age >= LeaseFor + lag[w]

(* Rows locked by a lease that is not yet committed. *)
Leasing(w) == UNION {batch[q] : q \in {q \in Worker \ {w} : pc[q] = "leasing"}}

(* Rows that another publisher may be settling at this moment. *)
Settling(w) ==
    {current[q] : q \in {q \in Worker \ {w} : pc[q] \in {"ack", "retry"}}}

(* Mutant: tokens may collide, as without the uuid4. *)
FreshTokenAny(t) == t \in Token

Unused(t) == /\ \A w \in Worker : token[w] # t
             /\ \A o \in Event : outbox[o] # None => outbox[o].token # t

(* worker_id:uuid4 - a token that nobody has; which one makes no odds.     *)
FreshToken(t) == Unused(t) /\ t = CHOOSE u \in Token : Unused(u)

(* SELECT ... ORDER BY available_at LIMIT n FOR UPDATE SKIP LOCKED, and    *)
(* the UPDATE of the selected rows, which others see from the commit on.   *)
LeaseAvailable(w) ==
    /\ pc[w] = "lease"
    /\ \E skipped \in SUBSET Settling(w), t \in Token :
        LET ready == {o \in Event : Available(w, o)} \ (Leasing(w) \cup skipped)
        IN /\ FreshToken(t)
           /\ \E B \in SUBSET ready :
                /\ Cardinality(B) = Least(BatchSize, Cardinality(ready))
                /\ \A o \in B, p \in ready \ B : outbox[o].due <= outbox[p].due
                /\ batch' = [batch EXCEPT ![w] = B]
           /\ token' = [token EXCEPT ![w] = t]
    /\ Goto(w, "leasing")
    /\ UNCHANGED <<rows, lag, current, crashes>>

(* The row of an event under a new lease taken at leased_at. *)
Leased(row, t, elapsed) ==
    [row EXCEPT !.token = t, !.age = elapsed,
                !.attempts = Least(@ + 1, MaxAttempts)]

CommitLease(w) ==
    /\ pc[w] = "leasing"
    /\ outbox' = [o \in Event |->
                    IF o \in batch[w] THEN Leased(outbox[o], token[w], lag[w])
                    ELSE outbox[o]]
    /\ Goto(w, "deliver")
    /\ lag' = [lag EXCEPT ![w] = 0]
    /\ UNCHANGED <<receipts, token, batch, current, crashes>>

(* Mutant: an inbox without its primary key. *)
RecordAlways(o) == receipts' = [receipts EXCEPT ![o] = @ + 1]

(* record_once: INSERT ... ON CONFLICT DO NOTHING; a replay is a success.  *)
(* The payload of a row never changes, so its fingerprint always agrees.   *)
RecordOnce(o) ==
    receipts' = IF receipts[o] = 0 THEN [receipts EXCEPT ![o] = 1] ELSE receipts

(* transport.publish(event) returns: the receipt is committed. *)
HandOff(w, o) ==
    /\ pc[w] = "deliver" /\ o \in batch[w]
    /\ RecordOnce(o)
    /\ current' = [current EXCEPT ![w] = o]
    /\ Goto(w, "ack")
    /\ UNCHANGED <<outbox, lag, token, batch, crashes>>

(* transport.publish(event) raises: usually without a receipt, but the     *)
(* answer to a commit may be lost as well.                                 *)
HandOffFails(w, o) ==
    /\ pc[w] = "deliver" /\ o \in batch[w]
    /\ RecordOnce(o) \/ UNCHANGED receipts
    /\ current' = [current EXCEPT ![w] = o]
    /\ Goto(w, "retry")
    /\ UNCHANGED <<outbox, lag, token, batch, crashes>>

(* Mutant: any unpublished row may be settled. *)
OwnsUnpublished(w, o) == ~outbox[o].published

(* The WHERE clause of _MARK_PUBLISHED and _SCHEDULE_RETRY. *)
Owns(w, o) == ~outbox[o].published /\ outbox[o].token = token[w]

(* The settling UPDATE waits for an uncommitted lease of the row; without  *)
(* a matching row, OutboxLeaseLostError is swallowed.  Then the next event *)
(* of the batch.                                                           *)
Settle(w, settled) ==
    LET o == current[w] IN
    /\ o \notin Leasing(w)
    /\ outbox' = IF Owns(w, o) THEN [outbox EXCEPT ![o] = settled] ELSE outbox
    /\ batch' = [batch EXCEPT ![w] = @ \ {o}]
    /\ current' = [current EXCEPT ![w] = None]
    /\ Goto(w, "deliver")
    /\ UNCHANGED <<receipts, lag, token, crashes>>

MarkPublished(w) ==
    /\ pc[w] = "ack"
    /\ Settle(w, [outbox[current[w]] EXCEPT !.published = TRUE,
                                            !.token = None, !.age = 0])

ScheduleRetry(w) ==
    /\ pc[w] = "retry"
    /\ Settle(w, [outbox[current[w]] EXCEPT !.due = RetryAfter,
                                            !.token = None, !.age = 0])

(* The batch is done; run_until_stopped waits for poll_interval. *)
EndSweep(w) ==
    /\ pc[w] = "deliver" /\ batch[w] = {}
    /\ Goto(w, "idle")
    /\ token' = [token EXCEPT ![w] = None]
    /\ UNCHANGED <<rows, lag, batch, current, crashes>>

(* A crash, or a database error outside the transport, which leaves        *)
(* publish_once and stops the process (_wait_for_stop_or_publisher_failure *)
(* in main.py).  Only the committed rows survive.                          *)
Crash(w) ==
    /\ pc[w] # "down" /\ crashes < MaxCrashes
    /\ Goto(w, "down")
    /\ crashes' = crashes + 1
    /\ lag' = [lag EXCEPT ![w] = 0]
    /\ token' = [token EXCEPT ![w] = None]
    /\ batch' = [batch EXCEPT ![w] = {}]
    /\ current' = [current EXCEPT ![w] = None]
    /\ UNCHANGED rows

(* The container is restarted. *)
Restart(w) ==
    /\ pc[w] = "down"
    /\ Goto(w, "idle")
    /\ UNCHANGED <<rows, lag, token, batch, current, crashes>>

(* What publisher w does when it runs. *)
Work(w) == \/ BeginSweep(w) \/ LeaseAvailable(w) \/ CommitLease(w)
           \/ \E o \in Event : HandOff(w, o) \/ HandOffFails(w, o)
           \/ MarkPublished(w) \/ ScheduleRetry(w) \/ EndSweep(w) \/ Restart(w)

Next == \/ \E o \in Event : Enqueue(o)
        \/ \E w \in Worker : Work(w) \/ Crash(w)
        \/ Tick

Spec == Init /\ [][Next]_vars

(* The lease of w on o has not run out. *)
InTime(w, o) == Owns(w, o) /\ outbox[o].age < LeaseFor

-----------------------------------------------------------------------------
(* Properties *)

TypeOK ==
    /\ outbox \in [Event -> Row \cup {None}]
    /\ receipts \in [Event -> Nat]
    /\ pc \in [Worker -> PC]
    /\ lag \in [Worker -> 0..MaxLag]
    /\ token \in [Worker -> Token \cup {None}]
    /\ batch \in [Worker -> SUBSET Event]
    /\ current \in [Worker -> Event \cup {None}]
    /\ crashes \in 0..MaxCrashes

(* Delivery keeps its contract whatever crashes, expires or is replayed:   *)
(* one receipt per event, and no row is marked published before its        *)
(* receipt is committed (publish_once, record_once, mark_published).       *)
Contract == INSTANCE OutboxContract
                WITH queued <- {o \in Event : outbox[o] # None},
                     acked <- {o \in Event : outbox[o] # None /\ outbox[o].published}

ImplementsContract == Contract!Spec

(* A lease ends in one of two ways: the publisher that holds its token     *)
(* settles the row, or its time has passed and another lease takes over.   *)
(* A publisher that lost its lease changes nothing (the locked_by guard of *)
(* _MARK_PUBLISHED and _SCHEDULE_RETRY).                                   *)
SettledByOwner ==
    [][\A o \in Event :
          (outbox[o] # None /\ outbox[o].token # None
               /\ outbox'[o].token # outbox[o].token) =>
            \/ /\ outbox'[o].token = None
               /\ \E w \in Worker : /\ token[w] = outbox[o].token
                                    /\ current[w] = o /\ current'[w] = None
            \/ /\ outbox'[o].token # None
               /\ outbox[o].age >= LeaseFor]_vars

(* However many publishers believe they hold an event, at most one of them *)
(* can still settle it (the uuid4 in the lease token).                     *)
AtMostOneSettler ==
    \A o \in Event : \A v, w \in Worker :
        /\ o \in batch[v] /\ o \in batch[w] /\ v # w
        /\ pc[v] # "leasing" /\ pc[w] # "leasing"
        => ~(Owns(v, o) /\ Owns(w, o))

(* A published row is never leased, retried or counted again, so its       *)
(* delivery record stays as it was when it was published.                  *)
PublishedIsFinal ==
    [][\A o \in Event :
          outbox[o] # None /\ outbox[o].published =>
             /\ outbox'[o].published /\ outbox'[o].token = None
             /\ outbox'[o].attempts = outbox[o].attempts]_vars

(* Every committed event is published in the end: crashed or slow          *)
(* publishers only delay it by a lease, failures by a retry interval.      *)
EventuallyPublished ==
    \A o \in Event :
        outbox[o] # None ~> (outbox[o] # None /\ outbox[o].published)
=============================================================================
