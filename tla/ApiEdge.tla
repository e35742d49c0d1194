------------------------------ MODULE ApiEdge ------------------------------
(***************************************************************************)
(* What every request to the API passes before a route runs: the rate      *)
(* limiter of core/middleware.py and core/rate_limit.py, and the bearer    *)
(* token verification of core/auth.py with its cache of signing keys.      *)
(*                                                                         *)
(* The API process runs one event loop, so that code between two awaits is *)
(* one step here.  A request awaits only the lock of the key cache and,    *)
(* while it holds it, the download of the keys.  The paths /healthz and    *)
(* /readyz skip both parts and are left out.                               *)
(*                                                                         *)
(* Time passes in ticks, Second of them to a second.  The code only ever   *)
(* compares a stored monotonic() with the present one, so the model keeps  *)
(* the difference, and needs no bound on the clock: age is now -           *)
(* started_at, freshFor is _expires_at - now.  Differences stop growing    *)
(* where no comparison tells them apart any more.                          *)
(***************************************************************************)
EXTENDS Integers, Sequences

CONSTANTS Request,        \* requests in progress at the same time
          Client,         \* client hosts, the keys of the limiter
          Kid,            \* identifiers of signing keys that the provider may serve
          Forged,         \* identifiers in tokens that it never serves
          Token,          \* bearer tokens: [kid, verifies, claims]
          MaxRequests,    \* rate_limit_requests
          WindowSeconds,  \* rate_limit_window_seconds
          Second,         \* ticks to a second
          Ttl,            \* cache_ttl_seconds, in ticks
          Timeout,        \* timeout_seconds, in ticks: how old an answer can arrive
          None

VARIABLES windows,    \* limiter: client |-> its _Window, or None
          recent,     \* history: client |-> n |-> requests admitted in the last n ticks
          published,  \* the keys the identity provider serves
          gone,       \* history: key |-> how long it has not been served
          keys,       \* _keys
          freshFor,   \* how far _expires_at lies ahead
          lock,       \* _lock: the request that holds it, and those that wait, in order
          req         \* request |-> where it is

limiter  == <<windows, recent>>
provider == <<published, gone>>
cache    == <<keys, freshFor>>
vars     == <<limiter, provider, cache, lock, req>>

Window   == WindowSeconds * Second
LongGone == Ttl + Timeout + 1

ASSUME EdgeAssumption ==
    /\ MaxRequests \in Nat \ {0} /\ WindowSeconds \in Nat \ {0}
    /\ Second \in Nat \ {0} /\ Ttl \in Nat \ {0} /\ Timeout \in Nat
    /\ Kid \cap Forged = {} /\ \A token \in Token : token.kid \in Kid \cup Forged
    /\ None \notin Token /\ None \notin [age : Nat, requests : Nat]

-----------------------------------------------------------------------------

(* The claims that principal_from_claims insists on, and those that may be *)
(* absent: without asset_ids the principal has no asset at all.  Roles the *)
(* product does not know are ignored, so that realm_access is well formed  *)
(* or not.                                                                 *)
RequiredClaims == {"sub", "iss", "organization_id", "realm_access"}
OptionalClaims == {"asset_ids", "azp"}
Claims == [RequiredClaims \cup OptionalClaims -> {"ok", "absent", "malformed"}]

PrincipalFromClaims(claims) ==
    IF /\ \A name \in RequiredClaims : claims[name] = "ok"
       /\ \A name \in OptionalClaims : claims[name] # "malformed"
    THEN "principal" ELSE "invalid_token"

(* verify, once it has the key: jwt.decode refuses a wrong signature,      *)
(* audience, issuer or time before any claim of the product is read.       *)
Verify(token) ==
    IF token.verifies THEN PrincipalFromClaims(token.claims) ELSE "invalid_token"

Waiting  == {"queued", "downloading", "arriving"}

(* What the client sees: its request goes on, 401, 503 or 429.  A key that *)
(* the provider does not serve and a broken token get the same answer.     *)
Answered == {"principal", "invalid_token", "unavailable", "rate_limited"}

Smaller(a, b) == IF a < b THEN a ELSE b
Larger(a, b)  == IF a < b THEN b ELSE a

(* forced: the download is for this very token's key, which is not cached. *)
(* The rest is history.  stable: the provider has served the key since the *)
(* token came.  download: "broke" when the download of this request raised *)
(* an exception that _download_jwks does not catch.                        *)
Idle == [pc |-> "idle", token |-> None, forced |-> FALSE, fetched |-> {}, age |-> 0,
         stable |-> FALSE, download |-> "whole", retryAfter |-> 0]

Init ==
    /\ windows = [c \in Client |-> None]
    /\ recent = [c \in Client |-> [n \in 0 .. Window |-> 0]]
    /\ published = {}
    /\ gone = [k \in Kid |-> LongGone]
    /\ keys = {} /\ freshFor = 0
    /\ lock = <<>>
    /\ req = [r \in Request |-> Idle]

-----------------------------------------------------------------------------

(* Mutant: a window ends a tick early. *)
OverEarly(w) == w.age >= Window - 1

(* A window is over after window_seconds; check and _prune agree on it. *)
Over(w) == w.age >= Window

(* _prune forgets the windows that are over, of every client. *)
Pruned ==
    [c \in Client |->
        IF windows[c] # None /\ Over(windows[c]) THEN None ELSE windows[c]]

(* Mutant: the fraction of a second is cut off. *)
RetryAfterTruncated(w) == (Window - w.age) \div Second

RetryAfter(w) ==
    Larger(1, (Window - w.age) \div Second + 1)

Allowed(c) == Pruned[c] # None => Pruned[c].requests < MaxRequests

Counted(c) ==
    IF Pruned[c] = None
    THEN [age |-> 0, requests |-> 1]
    ELSE [Pruned[c] EXCEPT !.requests = @ + 1]

Admit(c) ==
    /\ Allowed(c)
    /\ windows' = [Pruned EXCEPT ![c] = Counted(c)]
    /\ recent'  = [recent EXCEPT ![c] = [n \in 0 .. Window |-> @[n] + 1]]

(* A refused request is answered 429 at once. *)
Refuse(r, c) ==
    /\ req[r].pc = "idle"
    /\ ~ Allowed(c)
    /\ windows' = Pruned
    /\ req' = [req EXCEPT ![r] = [Idle EXCEPT !.pc = "rate_limited",
                                  !.retryAfter = RetryAfter(Pruned[c])]]
    /\ UNCHANGED <<recent, provider, cache, lock>>

-----------------------------------------------------------------------------

(* An admitted request without a bearer token, or whose token names no key *)
(* or an algorithm that is not allowed, is answered 401 without the keys.  *)
ArriveWithoutKey(r, c) ==
    /\ req[r].pc = "idle"
    /\ Admit(c)
    /\ req' = [req EXCEPT ![r] = [Idle EXCEPT !.pc = "invalid_token"]]
    /\ UNCHANGED <<provider, cache, lock>>

(* Any other token needs its key: get_signing_key waits for the lock. *)
Arrive(r, c, token) ==
    /\ req[r].pc = "idle"
    /\ Admit(c)
    /\ lock' = Append(lock, r)
    /\ req' = [req EXCEPT ![r] = [Idle EXCEPT !.pc = "queued",
                                  !.token = token,
                                  !.stable = token.kid \in published]]
    /\ UNCHANGED <<provider, cache>>

Holds(r) == lock # <<>> /\ Head(lock) = r

(* The end of the lock's block, by return or by an exception: the request  *)
(* is answered, and the next in line may go on.                            *)
Release(r, outcome, download) ==
    /\ lock' = Tail(lock)
    /\ req'  = [req EXCEPT ![r] = [Idle EXCEPT !.pc = outcome,
                                   !.download = download]]

(* The key is there: no await lies between it and the decoded claims.  A   *)
(* key that PyJWK cannot load makes verification unavailable.              *)
Found(r) == \/ Release(r, Verify(req[r].token), "whole")
            \/ Release(r, "unavailable", "whole")

Download(r, force) ==
    /\ req' = [req EXCEPT ![r] = [@ EXCEPT !.pc = "downloading", !.forced = force,
                                            !.fetched = {}, !.age = 0]]
    /\ UNCHANGED lock

(* Mutant: no download for an unknown key. *)
LookNoForce(r, known, forced) ==
    \/ req[r].token.kid \in known /\ Found(r)
    \/ req[r].token.kid \notin known /\ Release(r, "invalid_token", "whole")

(* The keys at hand have the token's key, or are fetched for it first, or  *)
(* have been and it is unknown.                                            *)
Look(r, known, forced) ==
    \/ req[r].token.kid \in known /\ Found(r)
    \/ /\ req[r].token.kid \notin known /\ forced
       /\ Release(r, "invalid_token", "whole")
    \/ req[r].token.kid \notin known /\ ~ forced /\ Download(r, TRUE)

(* Mutant: keys are fetched once and never expire. *)
StaleWhenEmpty == keys = {}

Stale == freshFor = 0

(* The request has the lock: the keys are fetched when they are too old,   *)
(* else looked up.                                                         *)
Acquire(r) ==
    /\ Holds(r) /\ req[r].pc = "queued"
    /\ \/ Stale /\ Download(r, FALSE)
       \/ ~ Stale /\ Look(r, keys, FALSE)
    /\ UNCHANGED <<limiter, provider, cache>>

(* The identity provider answers the download with the keys of the moment; *)
(* the answer takes its time to arrive.                                    *)
ProviderAnswers(r) ==
    /\ req[r].pc = "downloading"
    /\ req' = [req EXCEPT ![r] = [@ EXCEPT !.pc = "arriving", !.fetched = published]]
    /\ UNCHANGED <<limiter, provider, cache, lock>>

(* _refresh stores a well-formed answer, and get_signing_key goes on. *)
Refresh(r) ==
    /\ req[r].pc = "arriving"
    /\ keys' = req[r].fetched
    /\ freshFor' = Ttl
    /\ Look(r, req[r].fetched, req[r].forced)
    /\ UNCHANGED <<limiter, provider>>

(* Mutant: a failed download is repeated while the lock is held. *)
RefreshFailsRetried(r) ==
    /\ req[r].pc = "arriving"
    /\ Download(r, req[r].forced)
    /\ UNCHANGED <<limiter, provider, cache>>

(* The endpoint cannot be reached, times out or answers something else     *)
(* than a list of keys with distinct identifiers: _download_jwks and       *)
(* _refresh raise AuthenticationServiceError (503).  Or the answer breaks  *)
(* off, has no status line or is not UTF-8: the exception passes through   *)
(* _download_jwks and ends in the last handler of verify (401).            *)
RefreshFails(r) ==
    /\ req[r].pc \in {"downloading", "arriving"}
    /\ \/ Release(r, "unavailable", "whole")
       \/ Release(r, "invalid_token", "broke")
    /\ UNCHANGED <<limiter, provider, cache>>

Reply(r) ==
    /\ req[r].pc \in Answered
    /\ req' = [req EXCEPT ![r] = Idle]
    /\ UNCHANGED <<limiter, provider, cache, lock>>

-----------------------------------------------------------------------------

(* The identity provider rotates its keys. *)
Publish(k) ==
    /\ k \notin published
    /\ published' = published \cup {k}
    /\ gone' = [gone EXCEPT ![k] = 0]
    /\ UNCHANGED <<limiter, cache, lock, req>>

Withdraw(k) ==
    /\ k \in published
    /\ published' = published \ {k}
    /\ req'  = [r \in Request |->
                   IF req[r].token # None /\ req[r].token.kid = k
                   THEN [req[r] EXCEPT !.stable = FALSE] ELSE req[r]]
    /\ UNCHANGED <<limiter, gone, cache, lock>>

(* The admissions within the length of a window, one tick later. *)
Older(admitted) ==
    [n \in 0 .. Window |-> IF n = 0 THEN 0 ELSE admitted[n - 1]]

(* Time passes, but not beyond the arrival of an answer that is on its way. *)
Tick ==
    /\ \A r \in Request : req[r].pc = "arriving" => req[r].age < Timeout
    /\ windows' = [c \in Client |->
                      IF windows[c] = None THEN None
                      ELSE [windows[c] EXCEPT !.age = Smaller(@ + 1, Window)]]
    /\ recent'  = [c \in Client |-> Older(recent[c])]
    /\ gone'    = [k \in Kid |->
                      IF k \in published THEN 0 ELSE Smaller(gone[k] + 1, LongGone)]
    /\ freshFor' = Larger(freshFor - 1, 0)
    /\ req'     = [r \in Request |->
                      IF req[r].pc = "arriving" THEN [req[r] EXCEPT !.age = @ + 1] ELSE req[r]]
    /\ UNCHANGED <<published, keys, lock>>

Handle(r) ==
    \/ Acquire(r) \/ ProviderAnswers(r) \/ Refresh(r) \/ RefreshFails(r) \/ Reply(r)

Next ==
    \/ \E r \in Request, c \in Client :
          \/ Refuse(r, c)
          \/ ArriveWithoutKey(r, c)
          \/ \E token \in Token : Arrive(r, c, token)
    \/ \E r \in Request : Handle(r)
    \/ \E k \in Kid : Publish(k) \/ Withdraw(k)
    \/ Tick

Spec == Init /\ [][Next]_vars

(* The event loop resumes every request whose await is over, and a         *)
(* download ends, by its timeout if not by an answer.                      *)
FairSpec == Spec /\ \A r \in Request : WF_vars(Handle(r))

-----------------------------------------------------------------------------

RequestState ==
    [pc : {"idle"} \cup Waiting \cup Answered, token : Token \cup {None},
     forced : BOOLEAN, fetched : SUBSET Kid, age : 0 .. Timeout, stable : BOOLEAN,
     download : {"whole", "broke"}, retryAfter : Nat]

(* The types of the limiter's windows, the key cache and the requests. *)
TypeOK ==
    /\ windows \in [Client -> [age : 0 .. Window, requests : 1 .. MaxRequests] \cup {None}]
    /\ recent \in [Client -> [0 .. Window -> Nat]]
    /\ published \subseteq Kid /\ keys \subseteq Kid
    /\ gone \in [Kid -> 0 .. LongGone]
    /\ freshFor \in 0 .. Ttl
    /\ req \in [Request -> RequestState]

(* The requests within get_signing_key are exactly those in the lock's     *)
(* queue, each once, and all but the first still wait for it: two          *)
(* downloads never run at the same time, and nobody leaves holding it.     *)
LockDiscipline ==
    /\ \A i, j \in 1 .. Len(lock) : lock[i] = lock[j] => i = j
    /\ \A r \in Request :
          req[r].pc \in Waiting <=> \E i \in 1 .. Len(lock) : lock[i] = r
    /\ \A i \in 2 .. Len(lock) : req[lock[i]].pc = "queued"

(* check: a fixed window lets a client through at most twice its limit in  *)
(* any span as long as a window, however its requests fall around the end  *)
(* of one and whoever prunes it.                                           *)
BurstBounded == \A c \in Client : recent[c][Window] <= 2 * MaxRequests

(* Retry-After: a client that waits as long as it is told finds the window *)
(* over that it was refused in, and waits at most a second for nothing.    *)
RetryAfterFits ==
    [][\A r \in Request, c \in Client :
          Refuse(r, c) =>
             LET wait == req'[r].retryAfter * Second
                 left == Window - windows[c].age
             IN  left <= wait /\ wait <= left + Second]_vars

(* get_signing_key: a token is accepted only with a key that the provider  *)
(* has served within the last TTL and the time of one download, whatever   *)
(* downloads fail, are forced or are late in between.                      *)
WithdrawnKeysExpire ==
    [][\A r \in Request :
          (req[r].pc \in Waiting /\ req'[r].pc = "principal")
             => /\ req[r].token.kid \in Kid
                /\ gone[req[r].token.kid] <= Ttl + Timeout]_vars

(* get_signing_key and verify: a good token whose key the provider has     *)
(* served ever since the token came is refused (401) only when the         *)
(* download made for it raised what _download_jwks does not catch.  So a   *)
(* rotation is not mistaken for a forged key, whatever the cache held,     *)
(* whoever fetched it and however late: the client is let in, or told to   *)
(* come back (503), or was unlucky with one broken download.               *)
RotationIsFollowed ==
    [][\A r \in Request :
          (/\ req[r].pc \in Waiting /\ req'[r].pc = "invalid_token"
           /\ req[r].stable /\ Verify(req[r].token) = "principal")
             => req'[r].download = "broke"]_vars

(* get_current_principal: every admitted request is answered, although all *)
(* wait in line for one download after the other.                          *)
EveryTokenAnswered ==
    \A r \in Request : req[r].pc \in Waiting ~> req[r].pc \in Answered
=============================================================================
