----------------------------- MODULE EventFeed -----------------------------
(***************************************************************************)
(* GET /v1/events: replay of the immutable case events to one EventSource, *)
(* in pages ordered by (occurred_at, id), resumed by Last-Event-ID.        *)
(*                                                                         *)
(* occurred_at is read from the clock of the writing request, some time    *)
(* before its transaction commits or rolls back; the row becomes visible   *)
(* at the commit.  The two SELECTs of read_after are one step: a cursor    *)
(* row stays visible within a request and the page is what the second      *)
(* SELECT sees.                                                            *)
(***************************************************************************)
EXTENDS Naturals, FiniteSets

CONSTANTS EventId,     \* numbers that stand for uuid4s: any may be drawn next
          Asset,       \* the assets a case may belong to
          ScopeInput,  \* the asset scopes a token of the reader may carry
          PageLimit,   \* the limit query parameter
          MaxTime,     \* bound: the clock stops here
          None

ASSUME FeedAssumption ==
    /\ EventId \subseteq Nat
    /\ ScopeInput \subseteq SUBSET Asset /\ ScopeInput # {}
    /\ PageLimit \in Nat \ {0}
    /\ MaxTime \in Nat
    /\ None \notin Asset /\ None \notin EventId

VARIABLES clock,
          phase,     \* of each event: "unused", "open", "committed", "aborted"
          occurred,  \* occurred_at of each event, 0 while it is unused
          asset,     \* the asset of its case, or None
          scope,     \* asset_ids in the reader's present token
          cursor,    \* the last id the EventSource has seen, or None
          page,      \* the events of the open response not yet received
          received,  \* every event the EventSource has received
          late       \* history: committed when a page beyond it had been read

writers == <<phase, occurred, asset>>
vars == <<clock, writers, scope, cursor, page, received, late>>

Phase == {"unused", "open", "committed", "aborted"}

Init == /\ clock = 0
        /\ phase = [e \in EventId |-> "unused"]
        /\ occurred = [e \in EventId |-> 0]
        /\ asset = [e \in EventId |-> None]
        /\ scope \in ScopeInput
        /\ cursor = None /\ page = {} /\ received = {} /\ late = {}

(* (occurred_at, id) in the order of the feed. *)
Before(d, e) == \/ occurred[d] < occurred[e]
                \/ occurred[d] = occurred[e] /\ d < e

(* _VISIBLE_CASES, over committed rows. *)
Visible(e) == phase[e] = "committed" /\ (asset[e] = None \/ asset[e] \in scope)

-----------------------------------------------------------------------------
(* Writers *)

Tick == /\ clock < MaxTime
        /\ clock' = clock + 1
        /\ UNCHANGED <<writers, scope, cursor, page, received, late>>

(* A request stamps its event: occurred_at = now. *)
Stamp(e, a) ==
    /\ phase[e] = "unused"
    /\ phase' = [phase EXCEPT ![e] = "open"]
    /\ occurred' = [occurred EXCEPT ![e] = clock]
    /\ asset' = [asset EXCEPT ![e] = a]
    /\ UNCHANGED <<clock, scope, cursor, page, received, late>>

(* The feed has already read a page beyond e. *)
PastIt(e) == \/ cursor # None /\ Before(e, cursor)
             \/ \E d \in page : Before(e, d)

Commit(e) ==
    /\ phase[e] = "open"
    /\ phase' = [phase EXCEPT ![e] = "committed"]
    /\ late' = IF PastIt(e) THEN late \cup {e} ELSE late
    /\ UNCHANGED <<clock, occurred, asset, scope, cursor, page, received>>

Abort(e) ==
    /\ phase[e] = "open"
    /\ phase' = [phase EXCEPT ![e] = "aborted"]
    /\ UNCHANGED <<clock, occurred, asset, scope, cursor, page, received, late>>

-----------------------------------------------------------------------------
(* The reader *)

(* A new access token, with another asset scope. *)
Rescope(S) ==
    /\ S # scope
    /\ scope' = S
    /\ UNCHANGED <<clock, writers, cursor, page, received, late>>

(* Mutant: only occurred_at is compared. *)
AfterCursorByTime ==
    {e \in EventId : Visible(e) /\ (cursor # None => occurred[cursor] < occurred[e])}

(* Mutant: the row comparison is not strict. *)
AfterCursorInclusive ==
    {e \in EventId : Visible(e) /\ (cursor # None => ~Before(e, cursor))}

(* The rows of read_after, without the LIMIT. *)
AfterCursor == {e \in EventId : Visible(e) /\ (cursor # None => Before(cursor, e))}

(* EventSource (re)connects: read_after returns one page, or raises        *)
(* EventCursorNotFoundError (409) if the cursor is not visible, which the  *)
(* relay turns into an empty stream.                                       *)
Connect ==
    /\ page = {}
    /\ cursor # None => Visible(cursor)
    /\ \E P \in SUBSET AfterCursor :
        /\ P # {}
        /\ Cardinality(P) = IF Cardinality(AfterCursor) < PageLimit
                            THEN Cardinality(AfterCursor) ELSE PageLimit
        /\ \A e \in P, d \in AfterCursor \ P : Before(e, d)
        /\ page' = P
    /\ UNCHANGED <<clock, writers, scope, cursor, received, late>>

(* Mutant: the stream has no id lines, so Last-Event-ID is never sent. *)
ReceiveWithoutId(e) ==
    /\ e \in page
    /\ \A d \in page \ {e} : Before(e, d)
    /\ page' = page \ {e}
    /\ received' = received \cup {e}
    /\ UNCHANGED <<clock, writers, scope, cursor, late>>

(* One event of the stream arrives. *)
Receive(e) ==
    /\ e \in page
    /\ \A d \in page \ {e} : Before(e, d)
    /\ page' = page \ {e}
    /\ cursor' = e
    /\ received' = received \cup {e}
    /\ UNCHANGED <<clock, writers, scope, late>>

(* The connection, the relay or the API goes away within a page. *)
Drop ==
    /\ page # {}
    /\ page' = {}
    /\ UNCHANGED <<clock, writers, scope, cursor, received, late>>

Next == \/ Tick \/ Connect \/ Drop
        \/ \E e \in EventId :
              \/ \E a \in Asset \cup {None} : Stamp(e, a)
              \/ Commit(e) \/ Abort(e) \/ Receive(e)
        \/ \E S \in ScopeInput : Rescope(S)

Spec == Init /\ [][Next]_vars

(* The EventSource reconnects, and a stream is not for ever cut before its *)
(* first event arrives.                                                    *)
FairSpec == Spec /\ WF_vars(Connect)
                 /\ SF_vars(\E e \in EventId : Receive(e))

-----------------------------------------------------------------------------
(* Properties *)

TypeOK == /\ clock \in 0..MaxTime
          /\ phase \in [EventId -> Phase]
          /\ occurred \in [EventId -> 0..MaxTime]
          /\ asset \in [EventId -> Asset \cup {None}]
          /\ scope \in SUBSET Asset
          /\ cursor \in EventId \cup {None}
          /\ page \in SUBSET EventId
          /\ received \in SUBSET EventId
          /\ late \in SUBSET EventId

(* Across pages, reconnects and dropped streams, and whatever commits      *)
(* meanwhile, the reader sees every event at most once and in the order    *)
(* (occurred_at, id): what a stream is about to deliver is beyond all that *)
(* was ever received (read_after's strict row comparison).                 *)
InOrderOnce == \A d \in received, e \in page : Before(d, e)

(* An organization-level event that the cursor has passed was received,    *)
(* unless it became visible only after a page beyond it had been read.     *)
NoOtherGaps ==
    \A e \in EventId \ late :
        (cursor # None /\ phase[e] = "committed" /\ asset[e] = None
            /\ Before(e, cursor)) => e \in received

(* An organization-level event that is committed in time is received in    *)
(* the end, unless the cursor itself has dropped out of the scope of the   *)
(* reader: then every reconnect is refused.                                *)
EventuallyReceived ==
    \A e \in EventId :
        (phase[e] = "committed" /\ asset[e] = None /\ e \notin late)
            ~> (e \in received \/ (cursor # None /\ ~Visible(cursor)))
=============================================================================
