--------------------------- MODULE ApiEdgeProofs ---------------------------
(***************************************************************************)
(* Theorems about ApiEdge, for any number of requests, clients, keys and   *)
(* tokens, and any limits and times.                                       *)
(***************************************************************************)
EXTENDS ApiEdge, TLAPS

InLock(queue, r) == \E i \in 1 .. Len(queue) : queue[i] = r

(* The queue of the lock is one of requests, and LockDiscipline holds. *)
Locks == lock \in Seq(Request) /\ LockDiscipline

(* What a request carries at each point.  The downloaded keys of a request *)
(* are as old as its answer, and have the key of a token whose key has     *)
(* been served all the time.                                               *)
Carried ==
    \A r \in Request :
       /\ req[r].pc \in Waiting => req[r].token \in Token
       /\ req[r].pc \notin Waiting => req[r].token = None
       /\ req[r].pc = "downloading" => req[r].age = 0
       /\ req[r].pc \in Waiting /\ req[r].stable => req[r].token.kid \in published
       /\ req[r].pc = "arriving" /\ req[r].stable => req[r].token.kid \in req[r].fetched
       /\ req[r].pc = "arriving" => \A k \in req[r].fetched : gone[k] <= req[r].age

(* A served key is not gone, and a cached one has not been gone for longer *)
(* than the part of its TTL that has passed and the time of a download.    *)
Served ==
    /\ \A k \in published : gone[k] = 0
    /\ freshFor > 0 => \A k \in keys : gone[k] + freshFor <= Ttl + Timeout

IInv == TypeOK /\ Locks /\ Carried /\ Served

USE EdgeAssumption

-----------------------------------------------------------------------------
(* The queue of the lock *)

(* A request that was not in the queue is now its last, and none else has  *)
(* moved.                                                                  *)
LEMMA AppendToLock ==
    ASSUME NEW queue \in Seq(Request), NEW r \in Request, ~ InLock(queue, r),
           \A i, j \in 1 .. Len(queue) : queue[i] = queue[j] => i = j
    PROVE  /\ Append(queue, r) \in Seq(Request)
           /\ \A i, j \in 1 .. Len(Append(queue, r)) :
                 Append(queue, r)[i] = Append(queue, r)[j] => i = j
           /\ \A q \in Request : InLock(Append(queue, r), q) <=> InLock(queue, q) \/ q = r
           /\ \A i \in 2 .. Len(Append(queue, r)) :
                 \/ Append(queue, r)[i] = r
                 \/ i \in 2 .. Len(queue) /\ Append(queue, r)[i] = queue[i]
<1> DEFINE longer == Append(queue, r)
<1>1. /\ longer \in Seq(Request) /\ Len(longer) = Len(queue) + 1
      /\ \A i \in 1 .. Len(queue) : longer[i] = queue[i]
      /\ longer[Len(queue) + 1] = r
      /\ Len(queue) \in Nat
  OBVIOUS
<1> HIDE DEF longer
<1>2. \A i \in 1 .. Len(longer) : i \in 1 .. Len(queue) \/ i = Len(queue) + 1
  BY <1>1
<1>3. \A i, j \in 1 .. Len(longer) : longer[i] = longer[j] => i = j
  BY <1>1, <1>2 DEF InLock
<1>4. \A q \in Request : InLock(longer, q) <=> InLock(queue, q) \/ q = r
  <2>1. 1 .. Len(queue) \subseteq 1 .. Len(longer) /\ Len(queue) + 1 \in 1 .. Len(longer)
    BY <1>1
  <2> QED BY <2>1, <1>1, <1>2 DEF InLock
<1>5. \A i \in 2 .. Len(longer) :
         longer[i] = r \/ (i \in 2 .. Len(queue) /\ longer[i] = queue[i])
  BY <1>1, <1>2
<1> QED BY <1>1, <1>3, <1>4, <1>5 DEF longer

(* The head leaves the queue, and none else. *)
LEMMA TailOfLock ==
    ASSUME NEW queue \in Seq(Request), queue # <<>>,
           \A i, j \in 1 .. Len(queue) : queue[i] = queue[j] => i = j
    PROVE  /\ Tail(queue) \in Seq(Request)
           /\ \A i, j \in 1 .. Len(Tail(queue)) : Tail(queue)[i] = Tail(queue)[j] => i = j
           /\ \A q \in Request : InLock(Tail(queue), q) <=> InLock(queue, q) /\ q # Head(queue)
           /\ \A i \in 2 .. Len(Tail(queue)) :
                 i + 1 \in 2 .. Len(queue) /\ Tail(queue)[i] = queue[i + 1]
<1> DEFINE rest == Tail(queue)
<1>1. /\ rest \in Seq(Request) /\ Len(rest) = Len(queue) - 1
      /\ \A i \in 1 .. Len(rest) : rest[i] = queue[i + 1]
      /\ Head(queue) = queue[1]
      /\ Len(queue) \in Nat \ {0}
  OBVIOUS
<1> HIDE DEF rest
<1>2. \A i \in 1 .. Len(rest) : i \in Nat /\ i + 1 \in 2 .. Len(queue) /\ i + 1 \in 1 .. Len(queue)
  BY <1>1
<1>3. \A i, j \in 1 .. Len(rest) : rest[i] = rest[j] => i = j
  BY <1>1, <1>2
<1>4. \A q \in Request : InLock(rest, q) <=> InLock(queue, q) /\ q # Head(queue)
  <2>1. ASSUME NEW q \in Request, InLock(rest, q)
        PROVE  InLock(queue, q) /\ q # Head(queue)
    BY <2>1, <1>1, <1>2 DEF InLock
  <2>2. ASSUME NEW q \in Request, InLock(queue, q), q # Head(queue)
        PROVE  InLock(rest, q)
    <3>1. PICK i \in 1 .. Len(queue) : queue[i] = q
      BY <2>2 DEF InLock
    <3>2. i # 1
      BY <3>1, <2>2, <1>1
    <3>3. i - 1 \in 1 .. Len(rest) /\ (i - 1) + 1 = i
      BY <3>1, <3>2, <1>1
    <3> QED BY <3>1, <3>3, <1>1 DEF InLock
  <2> QED BY <2>1, <2>2
<1> QED BY <1>1, <1>2, <1>3, <1>4 DEF rest
-----------------------------------------------------------------------------
(* The limiter *)

WindowType  == [age : 0 .. Window, requests : 1 .. MaxRequests] \cup {None}
LimiterType == /\ windows \in [Client -> WindowType]
               /\ recent \in [Client -> [0 .. Window -> Nat]]

LEMMA WindowIsNat == Window \in Nat \ {0} /\ 0 \in 0 .. Window
  BY DEF Window

LEMMA NoneIsNoWindow ==
    ASSUME NEW w \in [age : Nat, requests : Nat]
    PROVE  w # None
  BY EdgeAssumption

LEMMA PrunedType ==
    ASSUME LimiterType
    PROVE  Pruned \in [Client -> WindowType]
  BY DEF LimiterType, WindowType, Pruned

LEMMA AdmitType ==
    ASSUME LimiterType, NEW c \in Client, Admit(c)
    PROVE  LimiterType'
  <1>1. Counted(c) \in WindowType
    <2>1. CASE Pruned[c] = None
      BY <2>1, WindowIsNat DEF Counted, WindowType
    <2>2. CASE Pruned[c] # None
      <3>1. Pruned[c] \in [age : 0 .. Window, requests : 1 .. MaxRequests]
        BY <2>2, PrunedType DEF WindowType
      <3>2. Pruned[c].requests < MaxRequests
        BY <2>2 DEF Admit, Allowed
      <3>3. Pruned[c].requests + 1 \in 1 .. MaxRequests
        BY <3>1, <3>2
      <3> QED BY <2>2, <3>1, <3>3 DEF Counted, WindowType
    <2> QED BY <2>1, <2>2
  <1>2. windows' \in [Client -> WindowType]
    BY <1>1, PrunedType DEF Admit
  <1>3. recent' \in [Client -> [0 .. Window -> Nat]]
    BY WindowIsNat DEF Admit, LimiterType
  <1> QED BY <1>2, <1>3 DEF LimiterType, WindowType

LEMMA RetryAfterType ==
    ASSUME LimiterType, NEW c \in Client, Pruned[c] # None
    PROVE  RetryAfter(Pruned[c]) \in Nat
  <1>1. Pruned[c].age \in 0 .. Window
    BY PrunedType DEF WindowType
  <1>2. Window - Pruned[c].age \in Nat /\ Second \in Nat \ {0}
    BY <1>1, WindowIsNat
  <1>3. (Window - Pruned[c].age) \div Second \in Int
    BY <1>2
  <1> QED BY <1>3 DEF RetryAfter, Larger

-----------------------------------------------------------------------------
(* Requests *)

ReqType   == req \in [Request -> RequestState]
CacheType == /\ published \subseteq Kid /\ keys \subseteq Kid
             /\ gone \in [Kid -> 0 .. LongGone]
             /\ freshFor \in 0 .. Ttl

LEMMA TypeParts == TypeOK <=> LimiterType /\ CacheType /\ ReqType
  BY DEF TypeOK, LimiterType, WindowType, CacheType, ReqType

CarriedAt(r) ==
    /\ req[r].pc \in Waiting => req[r].token \in Token
    /\ req[r].pc \notin Waiting => req[r].token = None
    /\ req[r].pc = "downloading" => req[r].age = 0
    /\ req[r].pc \in Waiting /\ req[r].stable => req[r].token.kid \in published
    /\ req[r].pc = "arriving" /\ req[r].stable => req[r].token.kid \in req[r].fetched
    /\ req[r].pc = "arriving" => \A k \in req[r].fetched : gone[k] <= req[r].age

LEMMA CarriedParts == Carried <=> \A r \in Request : CarriedAt(r)
  BY DEF Carried, CarriedAt

(* Only request r changes, and the provider does not. *)
Moves(r, s) == req' = [req EXCEPT ![r] = s] /\ UNCHANGED <<published, gone>>

LEMMA MovesParts ==
    ASSUME ReqType, Carried, NEW r \in Request, NEW s \in RequestState, Moves(r, s)
    PROVE  /\ ReqType' /\ req'[r] = s
           /\ \A q \in Request \ {r} : req'[q] = req[q]
           /\ CarriedAt(r)' => Carried'
  <1>1. /\ ReqType' /\ req'[r] = s
        /\ \A q \in Request \ {r} : req'[q] = req[q]
    BY DEF ReqType, Moves
  <1>2. ASSUME CarriedAt(r)', NEW q \in Request PROVE CarriedAt(q)'
    BY <1>1, <1>2, CarriedParts DEF CarriedAt, Moves
  <1>3. CarriedAt(r)' => Carried'
    BY <1>2 DEF CarriedAt, Carried
  <1> QED BY <1>1, <1>3

(* A request outside the lock that stays outside. *)
LEMMA OutsideStep ==
    ASSUME IInv, NEW r \in Request, NEW s \in RequestState, Moves(r, s),
           UNCHANGED <<cache, lock>>, LimiterType', req[r].pc \notin Waiting,
           s.pc \notin Waiting, s.token = None
    PROVE  IInv'
  <1>1. ReqType /\ CacheType
    BY TypeParts DEF IInv
  <1>2. /\ ReqType' /\ req'[r] = s
        /\ \A q \in Request \ {r} : req'[q] = req[q]
        /\ CarriedAt(r)' => Carried'
    BY <1>1, MovesParts DEF IInv
  <1>3. CarriedAt(r)'
    BY <1>2 DEF CarriedAt, Waiting
  <1>4. CacheType'
    BY <1>1 DEF CacheType, Moves, cache
  <1>5. TypeOK'
    BY <1>2, <1>4, TypeParts, PTL
  <1>6. Locks'
    <2>1. \A i \in 1 .. Len(lock) : lock[i] \in Request /\ lock[i] # r
      BY DEF IInv, Locks, LockDiscipline
    <2>2. \A i \in 2 .. Len(lock) : i \in 1 .. Len(lock)
      BY DEF IInv, Locks
    <2> QED BY <1>2, <2>1, <2>2 DEF IInv, Locks, LockDiscipline
  <1>7. Served'
    BY DEF IInv, Served, Moves, cache
  <1> QED BY <1>2, <1>3, <1>5, <1>6, <1>7 DEF IInv
LEMMA IdleType == Idle \in RequestState /\ Idle.pc = "idle" /\ Idle.token = None
  BY DEF Idle, RequestState

(* A request that does not wait for the lock: refused, without a key, or   *)
(* answered and gone.                                                      *)
LEMMA AnsweredStep ==
    ASSUME IInv, NEW r \in Request,
           \/ \E c \in Client : Refuse(r, c) \/ ArriveWithoutKey(r, c)
           \/ Reply(r)
    PROVE  IInv'
  <1>1. LimiterType /\ Idle \in RequestState /\ Idle.pc = "idle" /\ Idle.token = None
    BY IdleType, TypeParts DEF IInv
  <1>2. ASSUME NEW c \in Client, Refuse(r, c) PROVE IInv'
    <2> DEFINE after == RetryAfter(Pruned[c])
               s == [Idle EXCEPT !.pc = "rate_limited", !.retryAfter = after]
    <2>1. after \in Nat
      BY <1>1, <1>2, RetryAfterType DEF Refuse, Allowed
    <2> HIDE DEF after
    <2>2. s \in RequestState /\ s.pc = "rate_limited" /\ s.token = None
      BY <1>1, <2>1 DEF RequestState, Answered
    <2>3. Moves(r, s) /\ UNCHANGED <<cache, lock>>
      BY <1>2 DEF Refuse, Moves, provider, after
    <2>4. LimiterType'
      BY <1>1, <1>2, PrunedType DEF Refuse, LimiterType, WindowType
    <2>5. req[r].pc \notin Waiting
      BY <1>2 DEF Refuse, Waiting
    <2>6. s.pc \notin Waiting
      BY <2>2 DEF Waiting
    <2> HIDE DEF s
    <2> QED BY <2>2, <2>3, <2>4, <2>5, <2>6, OutsideStep
  <1>3. ASSUME NEW c \in Client, ArriveWithoutKey(r, c) PROVE IInv'
    <2> DEFINE s == [Idle EXCEPT !.pc = "invalid_token"]
    <2>1. s \in RequestState /\ s.pc = "invalid_token" /\ s.token = None
      BY <1>1 DEF RequestState, Answered
    <2>2. Moves(r, s) /\ UNCHANGED <<cache, lock>>
      BY <1>3 DEF ArriveWithoutKey, Moves, provider
    <2>3. LimiterType'
      BY <1>1, <1>3, AdmitType DEF ArriveWithoutKey
    <2>4. req[r].pc \notin Waiting
      BY <1>3 DEF ArriveWithoutKey, Waiting
    <2>5. s.pc \notin Waiting
      BY <2>1 DEF Waiting
    <2> HIDE DEF s
    <2> QED BY <2>1, <2>2, <2>3, <2>4, <2>5, OutsideStep
  <1>4. CASE Reply(r)
    <2>1. Moves(r, Idle) /\ UNCHANGED <<cache, lock>> /\ LimiterType'
      BY <1>1, <1>4 DEF Reply, Moves, provider, limiter, LimiterType
    <2>2. req[r].pc \notin Waiting /\ Idle.pc \notin Waiting
      BY <1>1, <1>4 DEF Reply, Answered, Waiting
    <2> QED BY <1>1, <2>1, <2>2, OutsideStep
  <1> QED BY <1>2, <1>3, <1>4

(* A token whose key must be looked up joins the queue. *)
LEMMA ArriveStep ==
    ASSUME IInv, NEW r \in Request, NEW c \in Client, NEW token \in Token,
           Arrive(r, c, token)
    PROVE  IInv'
  <1> DEFINE s == [Idle EXCEPT !.pc = "queued", !.token = token,
                               !.stable = token.kid \in published]
  <1>1. /\ s \in RequestState /\ s.pc = "queued" /\ s.token = token
        /\ s.stable => token.kid \in published
    <2> DEFINE b == token.kid \in published
    <2>1. b \in BOOLEAN
      OBVIOUS
    <2> HIDE DEF b
    <2>2. LET t == [Idle EXCEPT !.pc = "queued", !.token = token, !.stable = b]
          IN t \in RequestState /\ t.pc = "queued" /\ t.token = token /\ t.stable = b
      BY <2>1, IdleType DEF RequestState, Waiting
    <2> QED BY <2>2 DEF b
  <1>2. Moves(r, s) /\ lock' = Append(lock, r) /\ UNCHANGED cache
    BY DEF Arrive, Moves, provider
  <1> HIDE DEF s
  <1>3. LimiterType /\ ReqType /\ CacheType
    BY TypeParts DEF IInv
  <1>4. LimiterType'
    BY <1>3, AdmitType DEF Arrive
  <1>5. /\ ReqType' /\ req'[r] = s
        /\ \A q \in Request \ {r} : req'[q] = req[q]
        /\ CarriedAt(r)' => Carried'
    BY <1>1, <1>2, <1>3, MovesParts DEF IInv
  <1>6. CarriedAt(r)'
    BY <1>1, <1>2, <1>5 DEF CarriedAt, Waiting, Moves
  <1>7. CacheType' /\ Served'
    BY <1>2, <1>3 DEF IInv, CacheType, Served, Moves, cache
  <1>8. Locks'
    <2>1. lock \in Seq(Request) /\ ~ InLock(lock, r)
      BY DEF IInv, Locks, LockDiscipline, InLock, Arrive, Waiting
    <2>2. \A i, j \in 1 .. Len(lock) : lock[i] = lock[j] => i = j
      BY DEF IInv, Locks, LockDiscipline
    <2>3. /\ lock' \in Seq(Request)
          /\ \A i, j \in 1 .. Len(lock') : lock'[i] = lock'[j] => i = j
          /\ \A q \in Request : InLock(lock', q) <=> InLock(lock, q) \/ q = r
          /\ \A i \in 2 .. Len(lock') :
                lock'[i] = r \/ (i \in 2 .. Len(lock) /\ lock'[i] = lock[i])
      BY <1>2, <2>1, <2>2, AppendToLock
    <2>4. \A q \in Request : req'[q].pc \in Waiting <=> InLock(lock', q)
      BY <1>1, <1>5, <2>3 DEF IInv, Locks, LockDiscipline, InLock, Waiting
    <2>5. \A i \in 2 .. Len(lock') : req'[lock'[i]].pc = "queued"
      <3>1. \A i \in 2 .. Len(lock) : lock[i] \in Request /\ req[lock[i]].pc = "queued"
        BY DEF IInv, Locks, LockDiscipline
      <3> QED BY <1>1, <1>5, <2>3, <3>1
    <2> QED BY <2>3, <2>4, <2>5 DEF Locks, LockDiscipline, InLock
  <1> QED BY <1>4, <1>5, <1>6, <1>7, <1>8, TypeParts, PTL DEF IInv

-----------------------------------------------------------------------------
(* With the lock *)

(* A request that is downloading, or has, is the one that holds the lock.  *)
LEMMA DownloaderHolds ==
    ASSUME Locks, NEW r \in Request, req[r].pc \in {"downloading", "arriving"}
    PROVE  Holds(r)
  <1>1. PICK i \in 1 .. Len(lock) : lock[i] = r
    BY DEF Locks, LockDiscipline, Waiting
  <1>2. i \notin 2 .. Len(lock)
    BY <1>1 DEF Locks, LockDiscipline
  <1>3. i = 1 /\ lock # <<>>
    BY <1>1, <1>2 DEF Locks
  <1> QED BY <1>1, <1>3 DEF Holds, Locks

(* The holder leaves with an answer. *)
LEMMA ReleaseStep ==
    ASSUME ReqType, Locks, Carried, NEW r \in Request, Holds(r),
           NEW outcome \in Answered, NEW download \in {"whole", "broke"},
           Release(r, outcome, download), UNCHANGED <<published, gone>>
    PROVE  (ReqType /\ Locks /\ Carried)'
  <1> DEFINE s == [Idle EXCEPT !.pc = outcome, !.download = download]
  <1>1. s \in RequestState /\ s.pc = outcome /\ s.token = None
    BY IdleType DEF RequestState
  <1>2. Moves(r, s) /\ lock' = Tail(lock)
    BY DEF Release, Moves
  <1> HIDE DEF s
  <1>3. /\ ReqType' /\ req'[r] = s
        /\ \A q \in Request \ {r} : req'[q] = req[q]
        /\ CarriedAt(r)' => Carried'
    BY <1>1, <1>2, MovesParts
  <1>4. outcome \notin Waiting
    BY DEF Answered, Waiting
  <1>5. CarriedAt(r)'
    BY <1>1, <1>3, <1>4 DEF CarriedAt, Waiting
  <1>6. Locks'
    <2>1. /\ lock \in Seq(Request) /\ lock # <<>> /\ Head(lock) = r
          /\ \A i, j \in 1 .. Len(lock) : lock[i] = lock[j] => i = j
      BY DEF Locks, LockDiscipline, Holds
    <2>2. /\ lock' \in Seq(Request)
          /\ \A i, j \in 1 .. Len(lock') : lock'[i] = lock'[j] => i = j
          /\ \A q \in Request : InLock(lock', q) <=> InLock(lock, q) /\ q # r
          /\ \A i \in 2 .. Len(lock') :
                i + 1 \in 2 .. Len(lock) /\ lock'[i] = lock[i + 1]
      <3>1. /\ Tail(lock) \in Seq(Request)
            /\ \A i, j \in 1 .. Len(Tail(lock)) : Tail(lock)[i] = Tail(lock)[j] => i = j
            /\ \A q \in Request : InLock(Tail(lock), q) <=> InLock(lock, q) /\ q # Head(lock)
            /\ \A i \in 2 .. Len(Tail(lock)) :
                  i + 1 \in 2 .. Len(lock) /\ Tail(lock)[i] = lock[i + 1]
        BY <2>1, TailOfLock
      <3> QED BY <1>2, <2>1, <3>1
    <2>3. \A q \in Request : req'[q].pc \in Waiting <=> InLock(lock', q)
      BY <1>1, <1>3, <1>4, <2>2 DEF Locks, LockDiscipline, InLock
    <2>4. \A i \in 2 .. Len(lock') : req'[lock'[i]].pc = "queued"
      <3>1. ASSUME NEW i \in 2 .. Len(lock') PROVE req'[lock'[i]].pc = "queued"
        <4>1. i \in 1 .. Len(lock') /\ lock'[i] \in Request
          BY <2>2
        <4>2. lock'[i] # r
          BY <4>1, <2>2 DEF InLock
        <4>3. req[lock'[i]].pc = "queued"
          BY <2>2 DEF Locks, LockDiscipline
        <4> QED BY <1>3, <4>1, <4>2, <4>3
      <3> QED BY <3>1
    <2> QED BY <2>2, <2>3, <2>4 DEF Locks, LockDiscipline, InLock
  <1> QED BY <1>3, <1>5, <1>6

(* The holder goes on within the lock. *)
LEMMA HoldingStep ==
    ASSUME ReqType, Locks, Carried, NEW r \in Request, Holds(r), req[r].pc \in Waiting,
           NEW s \in RequestState, Moves(r, s), UNCHANGED lock,
           s.pc \in {"downloading", "arriving"}, CarriedAt(r)'
    PROVE  (ReqType /\ Locks /\ Carried)'
  <1>1. /\ ReqType' /\ req'[r] = s
        /\ \A q \in Request \ {r} : req'[q] = req[q]
        /\ Carried'
    BY MovesParts
  <1>2. \A i \in 2 .. Len(lock) : lock[i] \in Request /\ lock[i] # r
    <2>1. lock \in Seq(Request) /\ lock # <<>> /\ lock[1] = r
      BY DEF Locks, Holds
    <2>2. 1 \in 1 .. Len(lock) /\ \A i \in 2 .. Len(lock) : i \in 1 .. Len(lock) /\ i # 1
      BY <2>1
    <2> QED BY <2>1, <2>2 DEF Locks, LockDiscipline
  <1>3. Locks'
    BY <1>1, <1>2 DEF Locks, LockDiscipline, Waiting
  <1> QED BY <1>1, <1>3
(* A download begins. *)
LEMMA DownloadStep ==
    ASSUME ReqType, Locks, Carried, NEW r \in Request, Holds(r), req[r].pc \in Waiting,
           NEW force \in BOOLEAN, Download(r, force), UNCHANGED <<published, gone>>
    PROVE  (ReqType /\ Locks /\ Carried)'
  <1> DEFINE s == [req[r] EXCEPT !.pc = "downloading", !.forced = force,
                                 !.fetched = {}, !.age = 0]
  <1>1. /\ s \in RequestState /\ s.pc = "downloading" /\ s.age = 0
        /\ s.token = req[r].token /\ s.stable = req[r].stable
    <2>1. req[r] \in RequestState /\ 0 \in 0 .. Timeout
      BY DEF ReqType
    <2> QED BY <2>1 DEF RequestState, Waiting
  <1>2. Moves(r, s) /\ UNCHANGED lock
    BY DEF Download, Moves
  <1> HIDE DEF s
  <1>3. req'[r] = s
    BY <1>1, <1>2, MovesParts
  <1>4. CarriedAt(r)'
    BY <1>1, <1>2, <1>3, CarriedParts DEF CarriedAt, Waiting, Moves
  <1> QED BY <1>1, <1>2, <1>4, HoldingStep

(* The lookup: found, unknown after all, or a download. *)
LEMMA LookStep ==
    ASSUME ReqType, Locks, Carried, NEW r \in Request, Holds(r), req[r].pc \in Waiting,
           NEW known, NEW forced \in BOOLEAN, Look(r, known, forced),
           UNCHANGED <<published, gone>>
    PROVE  (ReqType /\ Locks /\ Carried)'
  <1>1. Verify(req[r].token) \in Answered /\ "unavailable" \in Answered
    BY DEF Verify, PrincipalFromClaims, Answered
  <1>2. CASE req[r].token.kid \in known /\ Found(r)
    BY <1>1, <1>2, ReleaseStep DEF Found
  <1>3. CASE req[r].token.kid \notin known /\ forced /\ Release(r, "invalid_token", "whole")
    BY <1>3, ReleaseStep DEF Answered
  <1>4. CASE Download(r, TRUE)
    BY <1>4, DownloadStep
  <1> QED BY <1>2, <1>3, <1>4 DEF Look

(* What the holder of the lock does. *)
LEMMA LockedStep ==
    ASSUME IInv, NEW r \in Request,
           Acquire(r) \/ ProviderAnswers(r) \/ Refresh(r) \/ RefreshFails(r)
    PROVE  IInv'
  <1>1. LimiterType /\ CacheType /\ ReqType /\ Locks /\ Carried /\ CarriedAt(r)
    BY TypeParts, CarriedParts DEF IInv
  <1>2. LimiterType' /\ UNCHANGED <<published, gone>>
    BY <1>1 DEF Acquire, ProviderAnswers, Refresh, RefreshFails, limiter, provider,
                LimiterType
  <1>3. Holds(r) /\ req[r].pc \in Waiting
    BY <1>1, DownloaderHolds
       DEF Acquire, ProviderAnswers, Refresh, RefreshFails, Waiting
  <1>4. (ReqType /\ Locks /\ Carried)'
    <2>1. CASE Acquire(r)
      <3>1. CASE Download(r, FALSE)
        BY <1>1, <1>2, <1>3, <3>1, DownloadStep
      <3>2. CASE Look(r, keys, FALSE)
        BY <1>1, <1>2, <1>3, <3>2, LookStep
      <3> QED BY <2>1, <3>1, <3>2 DEF Acquire
    <2>2. CASE ProviderAnswers(r)
      <3> DEFINE s == [req[r] EXCEPT !.pc = "arriving", !.fetched = published]
      <3>1. /\ s \in RequestState /\ s.pc = "arriving" /\ s.fetched = published
            /\ s.token = req[r].token /\ s.stable = req[r].stable /\ s.age = req[r].age
        BY <1>1 DEF ReqType, RequestState, Waiting, CacheType
      <3>2. Moves(r, s) /\ UNCHANGED lock
        BY <2>2 DEF ProviderAnswers, Moves, provider
      <3> HIDE DEF s
      <3>3. req'[r] = s
        BY <1>1, <3>1, <3>2, MovesParts
      <3>4. req[r].age = 0 /\ req[r].pc = "downloading"
        BY <1>1, <2>2 DEF ProviderAnswers, CarriedAt
      <3>5. \A k \in published : gone[k] = 0
        BY DEF IInv, Served
      <3>6. CarriedAt(r)'
        BY <1>1, <3>1, <3>2, <3>3, <3>4, <3>5 DEF CarriedAt, Waiting, Moves
      <3> QED BY <1>1, <1>3, <3>1, <3>2, <3>6, HoldingStep
    <2>3. CASE Refresh(r)
      <3>1. req[r].forced \in BOOLEAN
        BY <1>1 DEF ReqType, RequestState
      <3>2. Look(r, req[r].fetched, req[r].forced)
        BY <2>3 DEF Refresh
      <3> DEFINE known == req[r].fetched
                 forced == req[r].forced
      <3> HIDE DEF known, forced
      <3>3. forced \in BOOLEAN /\ Look(r, known, forced)
        BY <3>1, <3>2 DEF known, forced
      <3> QED BY <1>1, <1>2, <1>3, <3>3, LookStep
    <2>4. CASE RefreshFails(r)
      BY <1>1, <1>2, <1>3, <2>4, ReleaseStep DEF RefreshFails, Answered
    <2> QED BY <2>1, <2>2, <2>3, <2>4
  <1>5. CacheType' /\ Served'
    <2>1. CASE Refresh(r)
      <3>1. /\ keys' = req[r].fetched /\ freshFor' = Ttl
            /\ req[r].fetched \subseteq Kid /\ req[r].age \in 0 .. Timeout
            /\ \A k \in req[r].fetched : gone[k] <= req[r].age
        BY <1>1, <2>1 DEF Refresh, ReqType, RequestState, CarriedAt
      <3>2. \A k \in req[r].fetched : gone[k] \in Nat /\ gone[k] + Ttl <= Ttl + Timeout
        BY <1>1, <3>1 DEF CacheType, LongGone
      <3> QED BY <1>1, <1>2, <3>1, <3>2 DEF IInv, CacheType, Served
    <2>2. CASE UNCHANGED cache
      BY <1>1, <1>2, <2>2 DEF IInv, CacheType, Served, cache
    <2> QED BY <2>1, <2>2 DEF Acquire, ProviderAnswers, RefreshFails
  <1> QED BY <1>2, <1>4, <1>5, TypeParts, PTL DEF IInv
-----------------------------------------------------------------------------
(* The identity provider, and time *)

LEMMA LongGoneIsNat == LongGone \in Nat /\ 0 \in 0 .. LongGone
  BY DEF LongGone

LEMMA PublishStep ==
    ASSUME IInv, NEW k \in Kid, Publish(k)
    PROVE  IInv'
  <1>1. LimiterType /\ CacheType /\ ReqType /\ \A r \in Request : CarriedAt(r)
    BY TypeParts, CarriedParts DEF IInv
  <1>2. /\ published' = published \cup {k} /\ gone' = [gone EXCEPT ![k] = 0]
        /\ UNCHANGED <<windows, recent, keys, freshFor, lock, req>>
    BY DEF Publish, limiter, cache
  <1>3. \A j \in Kid : gone'[j] = IF j = k THEN 0 ELSE gone[j]
    BY <1>1, <1>2 DEF CacheType
  <1>4. \A j \in Kid : gone[j] \in Nat /\ gone'[j] \in Nat /\ gone'[j] <= gone[j]
    BY <1>1, <1>3, LongGoneIsNat DEF CacheType
  <1>5. CacheType' /\ LimiterType' /\ ReqType'
    BY <1>1, <1>2, LongGoneIsNat DEF CacheType, LimiterType, ReqType
  <1>6. Locks'
    BY <1>2 DEF IInv, Locks, LockDiscipline
  <1>7. ASSUME NEW r \in Request PROVE CarriedAt(r)'
    <2>1. req[r].fetched \subseteq Kid /\ req[r].age \in Nat
      BY <1>1 DEF ReqType, RequestState
    <2>2. req[r].pc = "arriving" => \A j \in req[r].fetched : gone'[j] <= req[r].age
      BY <1>1, <1>4, <2>1 DEF CarriedAt
    <2> QED BY <1>1, <1>2, <2>2 DEF CarriedAt
  <1>8. Carried'
    BY <1>7 DEF Carried, CarriedAt
  <1>9. Served'
    <2>1. \A j \in published' : gone'[j] = 0
      BY <1>1, <1>2, <1>3 DEF IInv, Served, CacheType
    <2>2. freshFor \in Nat /\ keys \subseteq Kid
      BY <1>1 DEF CacheType
    <2>3. freshFor > 0 => \A j \in keys : gone'[j] + freshFor <= Ttl + Timeout
      BY <1>4, <2>2 DEF IInv, Served
    <2> QED BY <1>2, <2>1, <2>3 DEF Served
  <1> QED BY <1>5, <1>6, <1>8, <1>9, TypeParts, PTL DEF IInv

LEMMA WithdrawStep ==
    ASSUME IInv, NEW k \in Kid, Withdraw(k)
    PROVE  IInv'
  <1>1. LimiterType /\ CacheType /\ ReqType /\ \A r \in Request : CarriedAt(r)
    BY TypeParts, CarriedParts DEF IInv
  <1>2. /\ published' = published \ {k}
        /\ UNCHANGED <<windows, recent, gone, keys, freshFor, lock>>
    BY DEF Withdraw, limiter, cache
  <1>3. ASSUME NEW r \in Request
        PROVE  /\ req'[r] \in RequestState
               /\ req'[r].pc = req[r].pc /\ req'[r].token = req[r].token
               /\ req'[r].fetched = req[r].fetched /\ req'[r].age = req[r].age
               /\ req'[r].stable => req[r].stable
               /\ req[r].token # None /\ req[r].token.kid = k => ~ req'[r].stable
    <2>1. req[r] \in RequestState
      BY <1>1 DEF ReqType
    <2>2. CASE req[r].token # None /\ req[r].token.kid = k
      <3>1. req'[r] = [req[r] EXCEPT !.stable = FALSE]
        BY <2>2 DEF Withdraw
      <3> QED BY <2>1, <3>1 DEF RequestState
    <2>3. CASE ~ (req[r].token # None /\ req[r].token.kid = k)
      <3>1. req'[r] = req[r]
        BY <2>3 DEF Withdraw
      <3> QED BY <2>1, <2>3, <3>1
    <2> QED BY <2>2, <2>3
  <1>4. ReqType'
    <2>1. DOMAIN req' = Request /\ req' = [r \in Request |-> req'[r]]
      BY DEF Withdraw
    <2> QED BY <1>3, <2>1 DEF ReqType
  <1>5. CacheType' /\ LimiterType' /\ Served'
    BY <1>1, <1>2 DEF CacheType, LimiterType, IInv, Served
  <1>6. Locks'
    BY <1>2, <1>3 DEF IInv, Locks, LockDiscipline
  <1>7. ASSUME NEW r \in Request PROVE CarriedAt(r)'
    <2>1. req[r].token \in Token => req[r].token # None
      OBVIOUS
    <2> QED BY <1>1, <1>2, <1>3, <2>1 DEF CarriedAt
  <1>8. Carried'
    BY <1>7 DEF Carried, CarriedAt
  <1> QED BY <1>4, <1>5, <1>6, <1>8, TypeParts, PTL DEF IInv

LEMMA TickStep ==
    ASSUME IInv, Tick
    PROVE  IInv'
  <1>1. LimiterType /\ CacheType /\ ReqType /\ \A r \in Request : CarriedAt(r)
    BY TypeParts, CarriedParts DEF IInv
  <1>2. UNCHANGED <<published, keys, lock>> /\ freshFor' = Larger(freshFor - 1, 0)
    BY DEF Tick
  <1>3. LimiterType'
    <2>1. windows' \in [Client -> WindowType]
      <3>1. ASSUME NEW c \in Client, windows[c] # None
            PROVE  [windows[c] EXCEPT !.age = Smaller(@ + 1, Window)] \in WindowType
        <4>1. windows[c] \in [age : 0 .. Window, requests : 1 .. MaxRequests]
          BY <1>1, <3>1 DEF LimiterType, WindowType
        <4>2. Smaller(windows[c].age + 1, Window) \in 0 .. Window
          BY <4>1, WindowIsNat DEF Smaller
        <4> QED BY <4>1, <4>2 DEF WindowType
      <3>2. None \in WindowType
        BY DEF WindowType
      <3> QED BY <3>1, <3>2 DEF Tick
    <2>2. recent' \in [Client -> [0 .. Window -> Nat]]
      <3>1. ASSUME NEW c \in Client PROVE Older(recent[c]) \in [0 .. Window -> Nat]
        <4>1. recent[c] \in [0 .. Window -> Nat]
          BY <1>1 DEF LimiterType
        <4>2. \A age \in 0 .. Window : age # 0 => age - 1 \in 0 .. Window
          BY WindowIsNat
        <4> QED BY <4>1, <4>2 DEF Older
      <3> QED BY <3>1 DEF Tick
    <2> QED BY <2>1, <2>2 DEF LimiterType, WindowType
  <1>4. \A k \in Kid : /\ gone[k] \in Nat
                       /\ gone'[k] = IF k \in published THEN 0
                                     ELSE Smaller(gone[k] + 1, LongGone)
    BY <1>1, LongGoneIsNat DEF Tick, CacheType
  <1>5. \A k \in Kid : gone'[k] \in 0 .. LongGone /\ gone'[k] <= gone[k] + 1
    BY <1>4, LongGoneIsNat DEF Smaller
  <1>6. /\ freshFor \in Nat /\ freshFor' \in 0 .. Ttl
        /\ freshFor' = 0 \/ freshFor' = freshFor - 1
    BY <1>1, <1>2 DEF CacheType, Larger
  <1>7. CacheType'
    <2>1. gone' \in [Kid -> 0 .. LongGone]
      <3>1. gone' = [k \in Kid |-> gone'[k]]
        BY DEF Tick
      <3> QED BY <1>5, <3>1
    <2> QED BY <1>1, <1>2, <1>6, <2>1 DEF CacheType
  <1>8. ASSUME NEW r \in Request
        PROVE  /\ req'[r] \in RequestState
               /\ req'[r].pc = req[r].pc /\ req'[r].token = req[r].token
               /\ req'[r].fetched = req[r].fetched /\ req'[r].stable = req[r].stable
               /\ req'[r].age = IF req[r].pc = "arriving" THEN req[r].age + 1 ELSE req[r].age
    <2>1. req[r] \in RequestState
      BY <1>1 DEF ReqType
    <2>2. CASE req[r].pc = "arriving"
      <3>1. req'[r] = [req[r] EXCEPT !.age = req[r].age + 1] /\ req[r].age < Timeout
        BY <2>2 DEF Tick
      <3>2. req[r].age + 1 \in 0 .. Timeout
        BY <2>1, <3>1 DEF RequestState
      <3> QED BY <2>1, <2>2, <3>1, <3>2 DEF RequestState
    <2>3. CASE req[r].pc # "arriving"
      <3>1. req'[r] = req[r]
        BY <2>3 DEF Tick
      <3> QED BY <2>1, <2>3, <3>1
    <2> QED BY <2>2, <2>3
  <1>9. ReqType'
    <2>1. req' = [r \in Request |-> req'[r]]
      BY DEF Tick
    <2> QED BY <1>8, <2>1 DEF ReqType
  <1>10. Locks'
    BY <1>2, <1>8 DEF IInv, Locks, LockDiscipline
  <1>11. ASSUME NEW r \in Request PROVE CarriedAt(r)'
    <2>1. req[r].fetched \subseteq Kid /\ req[r].age \in Nat
      BY <1>1 DEF ReqType, RequestState
    <2>2. req[r].pc = "arriving" => \A k \in req[r].fetched : gone'[k] <= req'[r].age
      BY <1>1, <1>4, <1>5, <1>8, <2>1 DEF CarriedAt
    <2> QED BY <1>1, <1>2, <1>8, <2>2 DEF CarriedAt
  <1>12. Carried'
    BY <1>11 DEF Carried, CarriedAt
  <1>13. Served'
    <2>1. \A k \in published : gone'[k] = 0
      BY <1>1, <1>4 DEF CacheType
    <2>2. ASSUME freshFor' > 0, NEW k \in keys
          PROVE  gone'[k] + freshFor' <= Ttl + Timeout
      <3>1. k \in Kid /\ freshFor > 0
        <4>1. k \in Kid
          BY <1>1 DEF CacheType
        <4>2. freshFor > 0
          BY <1>6, <2>2
        <4> QED BY <4>1, <4>2
      <3>2. gone[k] + freshFor <= Ttl + Timeout
        BY <3>1 DEF IInv, Served
      <3>3. gone[k] \in Nat /\ gone'[k] \in Nat /\ gone'[k] <= gone[k] + 1
        BY <1>4, <1>5, <3>1, LongGoneIsNat
      <3>4. freshFor \in Nat /\ freshFor' \in Nat /\ freshFor' = freshFor - 1
        BY <1>6, <2>2
      <3> QED BY <3>2, <3>3, <3>4
    <2> QED BY <1>2, <2>1, <2>2 DEF Served
  <1> QED BY <1>3, <1>7, <1>9, <1>10, <1>12, <1>13, TypeParts, PTL DEF IInv

-----------------------------------------------------------------------------

(* The inductive invariant. *)
THEOREM EdgeInvariant == Spec => []IInv
  <1>1. Init => IInv
    <2> SUFFICES ASSUME Init PROVE IInv
      OBVIOUS
    <2>1. LimiterType
      BY WindowIsNat DEF Init, LimiterType, WindowType
    <2>2. CacheType
      BY LongGoneIsNat DEF Init, CacheType
    <2>3. ReqType /\ \A r \in Request : req[r].pc = "idle" /\ req[r].token = None
      BY IdleType DEF Init, ReqType
    <2>4. Locks
      BY <2>3 DEF Init, Locks, LockDiscipline, Waiting
    <2>5. Carried
      BY <2>3 DEF Carried, Waiting
    <2>6. Served
      BY DEF Init, Served
    <2> QED BY <2>1, <2>2, <2>3, <2>4, <2>5, <2>6, TypeParts DEF IInv
  <1>2. IInv /\ [Next]_vars => IInv'
    <2> SUFFICES ASSUME IInv, [Next]_vars PROVE IInv'
      OBVIOUS
    <2>1. CASE UNCHANGED vars
      <3>1. UNCHANGED <<windows, recent, published, gone, keys, freshFor, lock, req>>
        BY <2>1 DEF vars, limiter, provider, cache
      <3>2. TypeOK'
        BY <3>1 DEF IInv, TypeOK
      <3>3. Locks'
        BY <3>1 DEF IInv, Locks, LockDiscipline
      <3>4. Carried' /\ Served'
        BY <3>1 DEF IInv, Carried, Served
      <3> QED BY <3>2, <3>3, <3>4 DEF IInv
    <2> QED BY <2>1, AnsweredStep, ArriveStep, LockedStep, PublishStep, WithdrawStep,
               TickStep DEF Next, Handle
  <1> QED BY <1>1, <1>2, PTL DEF Spec

(* Windows, key cache and requests have their types throughout.            *)
THEOREM EdgeTypeOK == Spec => []TypeOK
  <1>1. IInv => TypeOK
    BY DEF IInv
  <1> QED BY <1>1, EdgeInvariant, PTL

(* The lock of the key cache has exactly the requests of get_signing_key   *)
(* in its queue, and downloads never overlap.                              *)
THEOREM EdgeLockDiscipline == Spec => []LockDiscipline
  <1>1. IInv => LockDiscipline
    BY DEF IInv, Locks
  <1> QED BY <1>1, EdgeInvariant, PTL

(* How a request that waits for its key comes to be judged: by a key that  *)
(* is cached and fresh, by one just downloaded, for want of it in what was *)
(* just downloaded, or because the download broke.                         *)
ByCache(r) == ~ Stale /\ req[r].token.kid \in keys /\ req'[r].pc = Verify(req[r].token)
ByDownload(r) == /\ req[r].pc = "arriving" /\ req[r].token.kid \in req[r].fetched
                 /\ req'[r].pc = Verify(req[r].token)
Unserved(r) == /\ req[r].pc = "arriving" /\ req[r].token.kid \notin req[r].fetched
               /\ req'[r].pc = "invalid_token"
Broken(r) == req'[r].pc = "invalid_token" /\ req'[r].download = "broke"

LEMMA Judgement ==
    ASSUME IInv, [Next]_vars, NEW r \in Request, req[r].pc \in Waiting,
           req'[r].pc \in {"principal", "invalid_token"}
    PROVE  ByCache(r) \/ ByDownload(r) \/ Unserved(r) \/ Broken(r)
  <1>1. req \in [Request -> RequestState] /\ CarriedAt(r) /\ CacheType
    BY TypeParts, CarriedParts DEF IInv, ReqType
  <1>2. ASSUME NEW q \in Request, NEW s, req' = [req EXCEPT ![q] = s]
        PROVE  q = r /\ s.pc \in {"principal", "invalid_token"} /\ req'[r] = s
    <2>1. q = r
      BY <1>1, <1>2 DEF Waiting
    <2> QED BY <1>1, <1>2, <2>1
  <1>3. ASSUME NEW q \in Request, req[q].pc \notin Waiting,
               NEW s, req' = [req EXCEPT ![q] = s]
        PROVE  FALSE
    BY <1>2, <1>3
  <1>4. ASSUME NEW q \in Request, NEW c \in Client,
               \/ Refuse(q, c) \/ ArriveWithoutKey(q, c)
               \/ \E token \in Token : Arrive(q, c, token)
        PROVE  FALSE
    BY <1>3, <1>4 DEF Refuse, ArriveWithoutKey, Arrive, Waiting
  <1>5. ASSUME NEW q \in Request, Reply(q) PROVE FALSE
    BY <1>3, <1>5 DEF Reply, Answered, Waiting
  <1>6. ASSUME NEW q \in Request, NEW force, Download(q, force) PROVE FALSE
    <2> DEFINE s == [req[q] EXCEPT !.pc = "downloading", !.forced = force,
                                   !.fetched = {}, !.age = 0]
    <2>1. s.pc = "downloading"
      BY <1>1 DEF RequestState
    <2>2. req' = [req EXCEPT ![q] = s]
      BY <1>6 DEF Download
    <2> HIDE DEF s
    <2> QED BY <1>2, <2>1, <2>2
  <1>7. ASSUME NEW q \in Request, NEW outcome, NEW download,
               Release(q, outcome, download)
        PROVE  /\ q = r /\ outcome \in {"principal", "invalid_token"}
               /\ req'[r].pc = outcome /\ req'[r].download = download
    <2> DEFINE s == [Idle EXCEPT !.pc = outcome, !.download = download]
    <2>1. s.pc = outcome /\ s.download = download
      BY DEF Idle
    <2>2. req' = [req EXCEPT ![q] = s]
      BY <1>7 DEF Release
    <2> HIDE DEF s
    <2> QED BY <1>2, <2>1, <2>2
  <1>8. ASSUME NEW q \in Request, NEW known, NEW forced, Look(q, known, forced)
        PROVE  /\ q = r
               /\ \/ req[r].token.kid \in known /\ req'[r].pc = Verify(req[r].token)
                  \/ /\ req[r].token.kid \notin known /\ forced
                     /\ req'[r].pc = "invalid_token"
    <2>1. CASE req[q].token.kid \in known /\ Found(q)
      BY <1>7, <2>1 DEF Found
    <2>2. CASE req[q].token.kid \notin known /\ forced
               /\ Release(q, "invalid_token", "whole")
      BY <1>7, <2>2
    <2>3. CASE Download(q, TRUE)
      BY <1>6, <2>3
    <2> QED BY <1>8, <2>1, <2>2, <2>3 DEF Look
  <1>9. ASSUME NEW q \in Request, Acquire(q) PROVE ByCache(r)
    <2>1. ~ Stale /\ Look(q, keys, FALSE)
      BY <1>6, <1>9 DEF Acquire
    <2>2. q = r /\ req[r].token.kid \in keys /\ req'[r].pc = Verify(req[r].token)
      BY <1>8, <2>1, Zenon
    <2> QED BY <2>1, <2>2 DEF ByCache
  <1>10. ASSUME NEW q \in Request, ProviderAnswers(q) PROVE FALSE
    <2> DEFINE s == [req[q] EXCEPT !.pc = "arriving", !.fetched = published]
    <2>1. s.pc = "arriving"
      BY <1>1 DEF RequestState
    <2>2. req' = [req EXCEPT ![q] = s]
      BY <1>10 DEF ProviderAnswers
    <2> HIDE DEF s
    <2> QED BY <1>2, <2>1, <2>2
  <1>11. ASSUME NEW q \in Request, Refresh(q) PROVE ByDownload(r) \/ Unserved(r)
    <2>1. Look(q, req[q].fetched, req[q].forced) /\ req[q].pc = "arriving"
      BY <1>11 DEF Refresh
    <2> QED BY <1>8, <2>1 DEF ByDownload, Unserved
  <1>12. ASSUME NEW q \in Request, RefreshFails(q) PROVE Broken(r)
    <2>1. CASE Release(q, "unavailable", "whole")
      BY <1>7, <2>1
    <2>2. CASE Release(q, "invalid_token", "broke")
      BY <1>7, <2>2 DEF Broken
    <2> QED BY <1>12, <2>1, <2>2 DEF RefreshFails
  <1>13. CASE \E k \in Kid : Publish(k)
    BY <1>13 DEF Publish, Waiting
  <1>14. ASSUME NEW k \in Kid, Withdraw(k) PROVE FALSE
    <2>1. req'[r] = req[r] \/ req'[r] = [req[r] EXCEPT !.stable = FALSE]
      BY <1>14 DEF Withdraw
    <2>2. req'[r].pc = req[r].pc
      BY <1>1, <2>1 DEF RequestState
    <2> QED BY <2>2 DEF Waiting
  <1>15. CASE Tick
    <2>1. req'[r] = req[r] \/ req'[r] = [req[r] EXCEPT !.age = req[r].age + 1]
      BY <1>15 DEF Tick
    <2>2. req'[r].pc = req[r].pc
      BY <1>1, <2>1 DEF RequestState
    <2> QED BY <2>2 DEF Waiting
  <1>16. CASE UNCHANGED vars
    BY <1>16 DEF vars, Waiting
  <1> QED BY <1>4, <1>5, <1>9, <1>10, <1>11, <1>12, <1>13, <1>14, <1>15, <1>16
          DEF Next, Handle

(* A good token whose key the provider serves all the while is refused     *)
(* only when its own download raised what _download_jwks does not catch,   *)
(* for any number of requests, keys and rotations (get_signing_key).       *)
THEOREM EdgeRotationIsFollowed == Spec => RotationIsFollowed
  <1>1. ASSUME IInv, [Next]_vars, NEW r \in Request,
               req[r].pc \in Waiting, req'[r].pc = "invalid_token",
               req[r].stable, Verify(req[r].token) = "principal"
        PROVE  req'[r].download = "broke"
    <2>1. ByCache(r) \/ ByDownload(r) \/ Unserved(r) \/ Broken(r)
      BY <1>1, Judgement
    <2>2. req[r].pc = "arriving" => req[r].token.kid \in req[r].fetched
      BY <1>1 DEF IInv, Carried
    <2> QED BY <1>1, <2>1, <2>2 DEF ByCache, ByDownload, Unserved, Broken
  <1>2. IInv /\ [Next]_vars =>
          [\A r \in Request :
             (/\ req[r].pc \in Waiting /\ req'[r].pc = "invalid_token"
              /\ req[r].stable /\ Verify(req[r].token) = "principal")
                => req'[r].download = "broke"]_vars
    BY <1>1
  <1> QED BY <1>2, EdgeInvariant, PTL DEF Spec, RotationIsFollowed

(* A token is accepted only with a key that the provider has served within *)
(* the last TTL and the time of one download, whatever is rotated          *)
(* (get_signing_key).                                                      *)
THEOREM EdgeWithdrawnKeysExpire == Spec => WithdrawnKeysExpire
  <1>1. ASSUME IInv, [Next]_vars, NEW r \in Request,
               req[r].pc \in Waiting, req'[r].pc = "principal"
        PROVE  /\ req[r].token.kid \in Kid
               /\ gone[req[r].token.kid] <= Ttl + Timeout
    <2>1. ByCache(r) \/ ByDownload(r)
      BY <1>1, Judgement DEF Unserved, Broken
    <2>2. req[r] \in RequestState /\ CarriedAt(r) /\ CacheType
      BY TypeParts, CarriedParts, <1>1 DEF IInv, ReqType
    <2>3. CASE ByCache(r)
      <3>1. req[r].token.kid \in keys /\ freshFor > 0
        BY <2>2, <2>3 DEF ByCache, Stale, CacheType
      <3>2. /\ req[r].token.kid \in Kid /\ gone[req[r].token.kid] \in 0 .. LongGone
            /\ gone[req[r].token.kid] + freshFor <= Ttl + Timeout
        BY <1>1, <2>2, <3>1 DEF CacheType, IInv, Served
      <3> QED BY <2>2, <3>1, <3>2, LongGoneIsNat DEF CacheType
    <2>4. CASE ByDownload(r)
      <3>1. /\ req[r].fetched \subseteq Kid /\ req[r].age \in 0 .. Timeout
            /\ req[r].token.kid \in Kid /\ gone[req[r].token.kid] <= req[r].age
        BY <2>2, <2>4 DEF ByDownload, CarriedAt, RequestState
      <3>2. gone[req[r].token.kid] \in Nat
        BY <2>2, <3>1, LongGoneIsNat DEF CacheType
      <3> QED BY <3>1, <3>2
    <2> QED BY <2>1, <2>3, <2>4
  <1>2. IInv /\ [Next]_vars =>
          [\A r \in Request :
             (req[r].pc \in Waiting /\ req'[r].pc = "principal")
                => /\ req[r].token.kid \in Kid
                   /\ gone[req[r].token.kid] <= Ttl + Timeout]_vars
    BY <1>1
  <1> QED BY <1>2, EdgeInvariant, PTL DEF Spec, WithdrawnKeysExpire
-----------------------------------------------------------------------------
(* The burst of a client *)

(* How long the client's present window has lasted; a client without one   *)
(* is where a window has ended.                                            *)
Since(c) == IF windows[c] = None THEN Window ELSE windows[c].age

Monotone(admitted) ==
    \A m, n \in 0 .. Window : m <= n => admitted[m] <= admitted[n]

(* The admissions since the window began are the ones it has counted; at   *)
(* most a limit of them came before it, within the length of a window.  At *)
(* the end of a window nothing has been admitted at this instant.          *)
BurstAt(c) ==
    /\ Monotone(recent[c])
    /\ Since(c) < Window =>
          /\ recent[c][Since(c)] = windows[c].requests
          /\ recent[c][Window] <= recent[c][Since(c)] + MaxRequests
    /\ Since(c) = Window => recent[c][0] = 0 /\ recent[c][Window] <= MaxRequests

Bursts == \A c \in Client : BurstAt(c)

(* What the limiter keeps of one client. *)
LEMMA WindowTypes ==
    ASSUME LimiterType, NEW c \in Client
    PROVE  /\ Since(c) \in 0 .. Window
           /\ Since(c) < Window => windows[c].requests \in 1 .. MaxRequests
           /\ \A n \in 0 .. Window : recent[c][n] \in Nat
           /\ windows[c] # None =>
                 windows[c] \in [age : 0 .. Window, requests : 1 .. MaxRequests]
  <1>1. windows[c] # None =>
           windows[c] \in [age : 0 .. Window, requests : 1 .. MaxRequests]
    BY DEF LimiterType, WindowType
  <1>2. recent[c] \in [0 .. Window -> Nat]
    BY DEF LimiterType
  <1> QED BY <1>1, <1>2, WindowIsNat DEF Since

(* _prune takes no window from a client before its end. *)
LEMMA PrunedEffect ==
    ASSUME LimiterType, NEW c \in Client
    PROVE  /\ Pruned[c] = None <=> Since(c) = Window
           /\ Since(c) < Window => windows[c] # None /\ Pruned[c] = windows[c]
  <1>1. Pruned[c] = IF windows[c] # None /\ windows[c].age >= Window THEN None
                    ELSE windows[c]
    BY DEF Pruned, Over
  <1>2. windows[c] # None => windows[c].age \in 0 .. Window
    BY WindowTypes
  <1> QED BY <1>1, <1>2, WindowIsNat DEF Since

LEMMA BurstPrune ==
    ASSUME LimiterType, NEW c \in Client, BurstAt(c),
           windows'[c] = Pruned[c], recent'[c] = recent[c]
    PROVE  BurstAt(c)'
  <1>1. Since(c)' = Since(c)
    BY PrunedEffect, WindowTypes, WindowIsNat DEF Since
  <1>2. Since(c) < Window => windows'[c] = windows[c]
    BY PrunedEffect
  <1> QED BY <1>1, <1>2 DEF BurstAt, Monotone

LEMMA BurstAdmit ==
    ASSUME LimiterType, NEW c \in Client, BurstAt(c), Allowed(c),
           windows'[c] = Counted(c),
           recent'[c] = [n \in 0 .. Window |-> recent[c][n] + 1]
    PROVE  BurstAt(c)'
  <1>1. \A n \in 0 .. Window : recent[c][n] \in Nat /\ recent'[c][n] = recent[c][n] + 1
    BY WindowTypes
  <1>2. 0 \in 0 .. Window /\ Window \in 0 .. Window /\ Window \in Nat \ {0}
    BY WindowIsNat
  <1>3. Monotone(recent'[c])
    BY <1>1 DEF BurstAt, Monotone
  <1>4. CASE Since(c) = Window
    <2>1. Pruned[c] = None
      BY <1>4, PrunedEffect
    <2>2. windows'[c] = [age |-> 0, requests |-> 1]
      BY <2>1 DEF Counted
    <2>3. windows'[c] # None
      <3>1. windows'[c] \in [age : Nat, requests : Nat]
        BY <2>2
      <3> QED BY <3>1, NoneIsNoWindow
    <2>4. Since(c)' = 0 /\ windows'[c].requests = 1
      BY <2>2, <2>3 DEF Since
    <2>5. recent[c][0] = 0 /\ recent[c][Window] <= MaxRequests
      BY <1>4 DEF BurstAt
    <2>6. recent'[c][0] = 1 /\ recent'[c][Window] <= 1 + MaxRequests
      BY <1>1, <1>2, <2>5
    <2> QED BY <1>2, <1>3, <2>4, <2>6 DEF BurstAt, Monotone
  <1>5. CASE Since(c) # Window
    <2>1. Since(c) \in 0 .. Window /\ Since(c) < Window
      BY <1>5, WindowTypes, WindowIsNat
    <2>2. windows[c] # None /\ Pruned[c] = windows[c]
      BY <2>1, PrunedEffect
    <2>3. windows[c] \in [age : 0 .. Window, requests : 1 .. MaxRequests]
      BY <2>2, WindowTypes
    <2>4. windows'[c] = [windows[c] EXCEPT !.requests = @ + 1]
      BY <2>2 DEF Counted
    <2>5. windows'[c].age = windows[c].age /\ windows'[c].requests = windows[c].requests + 1
      BY <2>3, <2>4
    <2>6. windows[c].requests + 1 \in 1 .. MaxRequests
      BY <2>2, <2>3 DEF Allowed
    <2>7. windows'[c] # None
      <3>1. windows'[c] \in [age : Nat, requests : Nat]
        <4>1. windows[c] \in [age : Nat, requests : Nat]
          BY <1>2, <2>3
        <4> QED BY <2>4, <4>1
      <3> QED BY <3>1, NoneIsNoWindow
    <2>8. Since(c)' = Since(c)
      BY <2>2, <2>5, <2>7 DEF Since
    <2>9. /\ recent[c][Since(c)] = windows[c].requests
          /\ recent[c][Window] <= recent[c][Since(c)] + MaxRequests
      BY <2>1 DEF BurstAt
    <2>10. /\ recent'[c][Since(c)] = windows'[c].requests
           /\ recent'[c][Window] <= recent'[c][Since(c)] + MaxRequests
      <3>1. /\ recent[c][Since(c)] \in Nat /\ recent'[c][Since(c)] = recent[c][Since(c)] + 1
            /\ recent[c][Window] \in Nat /\ recent'[c][Window] = recent[c][Window] + 1
        BY <1>1, <1>2, <2>1
      <3>2. MaxRequests \in Nat
        BY EdgeAssumption
      <3>3. recent'[c][Since(c)] = windows'[c].requests
        BY <2>5, <2>9, <3>1
      <3>4. recent'[c][Window] <= recent'[c][Since(c)] + MaxRequests
        BY <2>9, <3>1, <3>2
      <3> QED BY <3>3, <3>4
    <2> QED BY <1>3, <2>1, <2>8, <2>10 DEF BurstAt, Monotone
  <1> QED BY <1>4, <1>5

LEMMA BurstTick ==
    ASSUME LimiterType, NEW c \in Client, BurstAt(c),
           windows'[c] = IF windows[c] = None THEN None
                         ELSE [windows[c] EXCEPT !.age = Smaller(@ + 1, Window)],
           recent'[c] = Older(recent[c])
    PROVE  BurstAt(c)'
  <1>1. /\ 0 \in 0 .. Window /\ Window \in 0 .. Window /\ Window - 1 \in 0 .. Window
        /\ Window \in Nat \ {0}
    BY WindowIsNat
  <1>2. \A n \in 0 .. Window : recent[c][n] \in Nat
    BY WindowTypes
  <1>3. /\ recent'[c][0] = 0
        /\ \A n \in 0 .. Window : n # 0 => /\ recent'[c][n] = recent[c][n - 1]
                                           /\ n - 1 \in 0 .. Window
    <2>1. recent'[c] = [n \in 0 .. Window |-> IF n = 0 THEN 0 ELSE recent[c][n - 1]]
      BY DEF Older
    <2> QED BY <1>1, <2>1
  <1>4. Monotone(recent'[c])
    <2>1. Monotone(recent[c])
      BY DEF BurstAt
    <2>2. ASSUME NEW m \in 0 .. Window, NEW n \in 0 .. Window, m <= n
          PROVE  recent'[c][m] <= recent'[c][n]
      <3>1. CASE m = 0
        <4>1. recent'[c][n] \in Nat
          BY <1>2, <1>3
        <4> QED BY <1>3, <3>1, <4>1
      <3>2. CASE m # 0
        <4>1. n # 0 /\ m - 1 <= n - 1
          BY <2>2, <3>2
        <4> QED BY <1>3, <2>1, <3>2, <4>1 DEF Monotone
      <3> QED BY <3>1, <3>2
    <2> QED BY <2>2 DEF Monotone
  <1>5. recent'[c][Window] = recent[c][Window - 1] /\ recent[c][Window - 1] <= recent[c][Window]
    BY <1>1, <1>3 DEF BurstAt, Monotone
  <1>6. CASE Since(c) = Window
    <2>1. Since(c)' = Window
      <3>1. CASE windows[c] = None
        BY <3>1 DEF Since
      <3>2. CASE windows[c] # None
        <4>1. windows[c] \in [age : 0 .. Window, requests : 1 .. MaxRequests]
          BY <3>2, WindowTypes
        <4>2. windows[c].age = Window
          BY <1>6, <3>2 DEF Since
        <4>3. Smaller(windows[c].age + 1, Window) = Window
          BY <1>1, <4>2 DEF Smaller
        <4>4. windows'[c].age = Window
          BY <3>2, <4>1, <4>3
        <4> QED BY <4>4 DEF Since
      <3> QED BY <3>1, <3>2
    <2>2. recent[c][Window] <= MaxRequests
      BY <1>6 DEF BurstAt
    <2>3. recent'[c][Window] <= MaxRequests
      BY <1>1, <1>2, <1>5, <2>2
    <2> QED BY <1>1, <1>3, <1>4, <2>1, <2>3 DEF BurstAt, Monotone
  <1>7. CASE Since(c) # Window
    <2>1. Since(c) \in 0 .. Window /\ Since(c) < Window /\ Since(c) + 1 \in 0 .. Window
      BY <1>1, <1>7, WindowTypes
    <2>2. windows[c] # None /\ Since(c) = windows[c].age
      BY <1>7 DEF Since
    <2>3. windows[c] \in [age : 0 .. Window, requests : 1 .. MaxRequests]
      BY <2>2, WindowTypes
    <2>4. Smaller(windows[c].age + 1, Window) = Since(c) + 1
      BY <1>1, <2>1, <2>2 DEF Smaller
    <2>5. windows'[c] = [windows[c] EXCEPT !.age = Since(c) + 1]
      BY <2>2, <2>4
    <2>6. windows'[c].requests = windows[c].requests /\ Since(c)' = Since(c) + 1
      <3>1. windows'[c] \in [age : Nat, requests : Nat]
        BY <1>1, <2>1, <2>3, <2>5
      <3>2. windows'[c] # None
        BY <3>1, NoneIsNoWindow
      <3> QED BY <2>3, <2>5, <3>2 DEF Since
    <2>7. recent'[c][Since(c) + 1] = recent[c][Since(c)]
      BY <1>3, <2>1
    <2>8. /\ recent[c][Since(c)] = windows[c].requests
          /\ recent[c][Window] <= recent[c][Since(c)] + MaxRequests
      BY <2>1 DEF BurstAt
    <2>9. recent'[c][Since(c) + 1] = windows[c].requests /\ windows[c].requests \in 1 .. MaxRequests
      BY <2>3, <2>7, <2>8
    <2>10. recent'[c][Window] <= recent'[c][Since(c) + 1] + MaxRequests
      BY <1>1, <1>2, <1>5, <2>1, <2>7, <2>8
    <2>11. Since(c) + 1 = Window => recent'[c][Window] <= MaxRequests
      BY <2>9
    <2> QED BY <1>3, <1>4, <2>6, <2>9, <2>10, <2>11 DEF BurstAt, Monotone
  <1> QED BY <1>6, <1>7

(* What a step does to the limiter. *)
LEMMA LimiterStep ==
    ASSUME [Next]_vars
    PROVE  \/ \E c \in Client : Admit(c)
           \/ windows' = Pruned /\ UNCHANGED recent
           \/ Tick
           \/ UNCHANGED limiter
  <1>1. CASE \E r \in Request, c \in Client : Refuse(r, c)
    BY <1>1 DEF Refuse
  <1>2. CASE \E r \in Request, c \in Client :
                ArriveWithoutKey(r, c) \/ \E token \in Token : Arrive(r, c, token)
    BY <1>2 DEF ArriveWithoutKey, Arrive
  <1>3. CASE \E r \in Request : Handle(r)
    BY <1>3 DEF Handle, Acquire, ProviderAnswers, Refresh, RefreshFails, Reply
  <1>4. CASE \E k \in Kid : Publish(k) \/ Withdraw(k)
    BY <1>4 DEF Publish, Withdraw
  <1>5. CASE UNCHANGED vars
    BY <1>5 DEF vars
  <1> QED BY <1>1, <1>2, <1>3, <1>4, <1>5 DEF Next

LEMMA BurstStep ==
    ASSUME IInv, Bursts, [Next]_vars
    PROVE  Bursts'
  <1>1. LimiterType /\ \A c \in Client : BurstAt(c)
    BY TypeParts DEF IInv, Bursts
  <1>2. windows \in [Client -> WindowType] /\ recent \in [Client -> [0 .. Window -> Nat]]
    BY <1>1 DEF LimiterType
  <1>3. Pruned \in [Client -> WindowType]
    BY <1>1, PrunedType
  <1>4. SUFFICES ASSUME NEW c \in Client PROVE BurstAt(c)'
    BY DEF Bursts
  <1>5. ASSUME NEW d \in Client, Admit(d) PROVE BurstAt(c)'
    <2>1. CASE c = d
      <3>1. /\ Allowed(c) /\ windows'[c] = Counted(c)
            /\ recent'[c] = [n \in 0 .. Window |-> recent[c][n] + 1]
        BY <1>2, <1>3, <1>5, <2>1 DEF Admit
      <3> QED BY <1>1, <3>1, BurstAdmit
    <2>2. CASE c # d
      <3>1. windows'[c] = Pruned[c] /\ recent'[c] = recent[c]
        BY <1>2, <1>3, <1>5, <2>2 DEF Admit
      <3> QED BY <1>1, <3>1, BurstPrune
    <2> QED BY <2>1, <2>2
  <1>6. CASE windows' = Pruned /\ UNCHANGED recent
    BY <1>1, <1>6, BurstPrune
  <1>7. CASE Tick
    <2>1. /\ windows'[c] = IF windows[c] = None THEN None
                           ELSE [windows[c] EXCEPT !.age = Smaller(@ + 1, Window)]
          /\ recent'[c] = Older(recent[c])
      BY <1>7 DEF Tick
    <2> QED BY <1>1, <2>1, BurstTick
  <1>8. CASE UNCHANGED limiter
    BY <1>1, <1>8 DEF limiter, BurstAt, Monotone, Since
  <1> QED BY <1>5, <1>6, <1>7, <1>8, LimiterStep

(* A client gets at most twice its limit of requests through within the    *)
(* length of a window (check, _prune).                                     *)
THEOREM EdgeBurstBounded == Spec => []BurstBounded
  <1>1. Init => Bursts
    BY WindowIsNat DEF Init, Bursts, BurstAt, Monotone, Since
  <1>2. IInv /\ Bursts /\ [Next]_vars => Bursts'
    BY BurstStep
  <1>3. IInv /\ Bursts => BurstBounded
    <2> SUFFICES ASSUME IInv, Bursts, NEW c \in Client
                 PROVE  recent[c][Window] <= 2 * MaxRequests
      BY DEF BurstBounded
    <2>1. LimiterType /\ BurstAt(c) /\ Window \in 0 .. Window
      BY TypeParts, WindowIsNat DEF IInv, Bursts
    <2>2. /\ Since(c) \in 0 .. Window /\ recent[c][Window] \in Nat
          /\ Since(c) < Window => windows[c].requests \in 1 .. MaxRequests
      BY <2>1, WindowTypes
    <2> QED BY <2>1, <2>2, WindowIsNat DEF BurstAt
  <1> QED BY <1>1, <1>2, <1>3, EdgeInvariant, PTL DEF Spec

-----------------------------------------------------------------------------
(* The advice to a refused client *)

(* The quotient of a division, times the divisor, is the dividend less a   *)
(* remainder.                                                              *)
LEMMA DivBounds ==
    ASSUME NEW n \in Nat, NEW d \in Nat \ {0}
    PROVE  n \div d \in Nat /\ (n \div d) * d <= n /\ n < (n \div d) * d + d
  BY SMT

(* A client that waits for as long as Retry-After says finds its window    *)
(* over, and waits at most a second in vain (check, RateLimitMiddleware).  *)
THEOREM EdgeRetryAfterFits == Spec => RetryAfterFits
  <1> DEFINE Fits(r, c) == LET wait == req'[r].retryAfter * Second
                               left == Window - windows[c].age
                           IN  left <= wait /\ wait <= left + Second
  <1>1. ASSUME IInv, NEW r \in Request, NEW c \in Client, Refuse(r, c)
        PROVE  Fits(r, c)
    <2>1. LimiterType /\ ReqType
      BY <1>1, TypeParts DEF IInv
    <2>2. Pruned[c] # None
      BY <1>1 DEF Refuse, Allowed
    <2>3. Since(c) < Window /\ Since(c) \in 0 .. Window
      BY <2>1, <2>2, PrunedEffect, WindowTypes, WindowIsNat
    <2>4. windows[c] # None /\ Pruned[c] = windows[c] /\ windows[c].age \in 0 .. Window
      BY <2>1, <2>3, PrunedEffect, WindowTypes
    <2>5. windows[c].age < Window
      BY <2>3, <2>4 DEF Since
    <2> DEFINE left == Window - windows[c].age
               q    == left \div Second
    <2>6. left \in Nat
      BY <2>4, <2>5, WindowIsNat
    <2> HIDE DEF left
    <2>7. q \in Nat /\ q * Second <= left /\ left < q * Second + Second
      BY <2>6, DivBounds
    <2>8. RetryAfter(windows[c]) = Larger(1, q + 1)
      BY DEF RetryAfter, left
    <2> HIDE DEF q
    <2>9. RetryAfter(windows[c]) = q + 1
      BY <2>7, <2>8 DEF Larger
    <2>10. req'[r].retryAfter = q + 1
      <3>1. req'[r] = [Idle EXCEPT !.pc = "rate_limited", !.retryAfter = RetryAfter(Pruned[c])]
        BY <1>1, <2>1 DEF Refuse, ReqType
      <3> QED BY <2>4, <2>9, <3>1 DEF Idle
    <2>11. (q + 1) * Second = q * Second + Second
      BY <2>7
    <2>12. q * Second \in Nat
      BY <2>7
    <2>13. left <= (q + 1) * Second /\ (q + 1) * Second <= left + Second
      BY <2>6, <2>7, <2>11, <2>12
    <2> QED BY <2>10, <2>13 DEF left
  <1>2. IInv => [\A r \in Request, c \in Client : Refuse(r, c) =>
                    LET wait == req'[r].retryAfter * Second
                        left == Window - windows[c].age
                    IN  left <= wait /\ wait <= left + Second]_vars
    BY <1>1
  <1> QED BY <1>2, EdgeInvariant, PTL DEF RetryAfterFits
=============================================================================
