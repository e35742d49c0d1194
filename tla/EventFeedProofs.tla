-------------------------- MODULE EventFeedProofs --------------------------
(***************************************************************************)
(* The order and the completeness of the feed, for any number of events,   *)
(* any page limit and any sequence of token scopes.                        *)
(***************************************************************************)
EXTENDS EventFeed, TLAPS

(* What a writer has stamped, or a reader has been sent, stays comparable: *)
(* only committed events are sent.                                         *)
Sent == page \subseteq {e \in EventId : phase[e] = "committed"}
        /\ received \subseteq {e \in EventId : phase[e] = "committed"}

(* The cursor is the last of the received events, and the open page is     *)
(* beyond it.                                                              *)
CursorIsLast ==
    /\ cursor # None => cursor \in received
    /\ \A d \in received : cursor # None /\ (d = cursor \/ Before(d, cursor))
    /\ \A e \in page : cursor # None => Before(cursor, e)

(* NoOtherGaps for the position the open page will bring the cursor to.    *)
PageHasNoGap ==
    \A e \in EventId \ late, d \in page :
        (phase[e] = "committed" /\ asset[e] = None /\ Before(e, d))
            => e \in received \cup page

IInv == TypeOK /\ Sent /\ CursorIsLast /\ NoOtherGaps /\ PageHasNoGap

-----------------------------------------------------------------------------
(* The order (occurred_at, id) is a strict total order. *)
LEMMA BeforeIsTotal ==
    ASSUME TypeOK, NEW d \in EventId, NEW e \in EventId
    PROVE  /\ ~Before(d, d)
           /\ ~(Before(d, e) /\ Before(e, d))
           /\ d = e \/ Before(d, e) \/ Before(e, d)
  BY FeedAssumption DEF TypeOK, Before

LEMMA BeforeIsTransitive ==
    ASSUME TypeOK, NEW c \in EventId, NEW d \in EventId, NEW e \in EventId,
           Before(c, d), Before(d, e)
    PROVE  Before(c, e)
  BY FeedAssumption DEF TypeOK, Before

(* The inductive invariant: read_after's strict row comparison and its     *)
(* LIMIT on the ordered rows keep the cursor a prefix of what was visible. *)
THEOREM FeedInvariant == Spec => []IInv
<1>1. Init => IInv
  BY FeedAssumption DEF Init, IInv, TypeOK, Sent, CursorIsLast, NoOtherGaps,
     PageHasNoGap, Phase
<1>2. IInv /\ [Next]_vars => IInv'
  <2> SUFFICES ASSUME IInv, [Next]_vars PROVE IInv'
    OBVIOUS
  <2> USE FeedAssumption DEF IInv
  <2>1. CASE Tick
    BY <2>1 DEF Tick, TypeOK, Sent, CursorIsLast, NoOtherGaps, PageHasNoGap,
       writers, Before
  <2>2. ASSUME NEW e \in EventId, NEW a \in Asset \cup {None}, Stamp(e, a)
        PROVE  IInv'
    <3>1. TypeOK'
      BY <2>2 DEF Stamp, TypeOK, Phase
    <3>2. \A d \in EventId : phase[d] = "committed" =>
              d # e /\ phase'[d] = "committed"
      BY <2>2 DEF Stamp, TypeOK
    <3>3. \A d \in EventId : phase'[d] = "committed" =>
              d # e /\ phase[d] = "committed" /\ asset'[d] = asset[d]
      BY <2>2 DEF Stamp, TypeOK
    <3>4. \A c, d \in EventId :
              (phase[c] = "committed" /\ phase[d] = "committed")
                  => (Before(c, d)' <=> Before(c, d))
      BY <2>2, <3>2 DEF Stamp, TypeOK, Before
    <3>5. UNCHANGED <<cursor, page, received, late>>
      BY <2>2 DEF Stamp
    <3>6. Sent'
      BY <3>2, <3>5 DEF Sent
    <3>7. CursorIsLast'
      BY <3>4, <3>5 DEF CursorIsLast, Sent
    <3>8. NoOtherGaps'
      BY <3>3, <3>4, <3>5 DEF NoOtherGaps, Sent, CursorIsLast
    <3>9. PageHasNoGap'
      BY <3>3, <3>4, <3>5 DEF PageHasNoGap, Sent
    <3> QED BY <3>1, <3>6, <3>7, <3>8, <3>9
  <2>3. ASSUME NEW e \in EventId, Commit(e) PROVE IInv'
    <3>1. TypeOK' /\ Sent' /\ CursorIsLast'
      BY <2>3 DEF Commit, TypeOK, Phase, Sent, CursorIsLast, Before
    <3>2. \A d \in EventId \ late' :
              phase'[d] = "committed" =>
                  d \notin late /\ (phase[d] = "committed" \/ (d = e /\ ~PastIt(d)))
      BY <2>3 DEF Commit, TypeOK
    <3>3. NoOtherGaps'
      BY <2>3, <3>2 DEF Commit, NoOtherGaps, Before, PastIt
    <3>4. PageHasNoGap'
      BY <2>3, <3>2 DEF Commit, PageHasNoGap, Before, PastIt
    <3> QED BY <3>1, <3>3, <3>4
  <2>4. ASSUME NEW e \in EventId, Abort(e) PROVE IInv'
    BY <2>4 DEF Abort, TypeOK, Phase, Sent, CursorIsLast, NoOtherGaps,
       PageHasNoGap, Before
  <2>5. ASSUME NEW S \in ScopeInput, Rescope(S) PROVE IInv'
    BY <2>5 DEF Rescope, TypeOK, Sent, CursorIsLast, NoOtherGaps, PageHasNoGap,
       writers, Before
  <2>6. CASE Connect
    <3>1. PICK P \in SUBSET AfterCursor :
              /\ \A e \in P, d \in AfterCursor \ P : Before(e, d)
              /\ page' = P
      BY <2>6 DEF Connect
    <3>2. TypeOK' /\ Sent' /\ CursorIsLast' /\ NoOtherGaps'
      BY <2>6, <3>1 DEF Connect, AfterCursor, Visible, writers, TypeOK, Sent,
         CursorIsLast, NoOtherGaps, Before
    <3>3. PageHasNoGap'
      <4> SUFFICES ASSUME NEW e \in EventId \ late, NEW d \in P,
                          phase[e] = "committed", asset[e] = None, Before(e, d),
                          e \notin P
                   PROVE  e \in received
        BY <2>6, <3>1 DEF Connect, writers, PageHasNoGap, Before
      <4>1. e \notin AfterCursor
        BY <3>1, BeforeIsTotal DEF AfterCursor
      <4>2. cursor # None /\ ~Before(cursor, e)
        BY <4>1 DEF AfterCursor, Visible
      <4>3. e = cursor \/ Before(e, cursor)
        BY <4>2, BeforeIsTotal DEF TypeOK
      <4> QED BY <4>2, <4>3 DEF CursorIsLast, NoOtherGaps
    <3> QED BY <3>2, <3>3
  <2>7. ASSUME NEW e \in EventId, Receive(e) PROVE IInv'
    <3>1. \A c, d \in EventId : Before(c, d)' <=> Before(c, d)
      BY <2>7 DEF Receive, writers, Before
    <3>2. TypeOK' /\ Sent'
      BY <2>7 DEF Receive, writers, TypeOK, Sent
    <3>3. e # None /\ \A d \in received : Before(d, e)
      BY <2>7, BeforeIsTransitive DEF Receive, CursorIsLast, TypeOK
    <3>4. CursorIsLast'
      BY <2>7, <3>1, <3>3 DEF Receive, CursorIsLast, TypeOK
    <3>5. NoOtherGaps'
      <4> SUFFICES ASSUME NEW d \in EventId \ late, phase[d] = "committed",
                          asset[d] = None, Before(d, e)
                   PROVE  d \in received
        BY <2>7, <3>1 DEF Receive, writers, NoOtherGaps
      <4>1. d \in received \cup page
        BY <2>7 DEF Receive, PageHasNoGap
      <4> QED BY <2>7, <4>1, BeforeIsTotal DEF Receive
    <3>6. PageHasNoGap'
      BY <2>7, <3>1 DEF Receive, writers, PageHasNoGap, TypeOK
    <3> QED BY <3>2, <3>4, <3>5, <3>6
  <2>8. CASE Drop
    BY <2>8 DEF Drop, TypeOK, Sent, CursorIsLast, NoOtherGaps, PageHasNoGap,
       writers, Before
  <2>9. CASE UNCHANGED vars
    BY <2>9 DEF vars, TypeOK, Sent, CursorIsLast, NoOtherGaps, PageHasNoGap,
       writers, Before
  <2> QED
    BY <2>1, <2>2, <2>3, <2>4, <2>5, <2>6, <2>7, <2>8, <2>9 DEF Next
<1> QED BY <1>1, <1>2, PTL DEF Spec

(* The state of the feed keeps its types. *)
THEOREM FeedTypeOK == Spec => []TypeOK
  BY FeedInvariant, PTL DEF IInv

(* Paging, reconnecting and dropped streams of GET /v1/events lose nothing *)
(* but what commits behind a page already read.                            *)
THEOREM FeedNoOtherGaps == Spec => []NoOtherGaps
  BY FeedInvariant, PTL DEF IInv

(* Each event reaches the EventSource at most once, and in feed order.     *)
THEOREM FeedInOrderOnce == Spec => []InOrderOnce
<1>1. IInv => InOrderOnce
  <2> SUFFICES ASSUME IInv, NEW d \in received, NEW e \in page
               PROVE  Before(d, e)
    BY DEF InOrderOnce
  <2>1. /\ TypeOK /\ d \in EventId /\ e \in EventId /\ cursor \in EventId
        /\ d = cursor \/ Before(d, cursor)
        /\ Before(cursor, e)
    BY DEF IInv, TypeOK, CursorIsLast
  <2> QED BY <2>1, BeforeIsTransitive
<1> QED BY <1>1, FeedInvariant, PTL
=============================================================================
