-------------------------- MODULE ArtifactIntents ---------------------------
(***************************************************************************)
(* Upload intents and their completion: TenantArtifactIntentRepository     *)
(* behind POST .../upload-intents and POST .../{intent_id}/complete, with  *)
(* the private object store beside the database.                           *)
(*                                                                         *)
(* A request is one READ COMMITTED transaction.  A create request reads    *)
(* the clock, signs a capability and inserts the intent; a completion      *)
(* reads the clock, locks the intent (FOR UPDATE), asks the store for the  *)
(* object's metadata while it holds the lock, and inserts the evidence.    *)
(* Intents and artifacts are fresh together, so one identifier names both. *)
(***************************************************************************)
EXTENDS Naturals

CONSTANTS Intent,         \* identifiers of intents and of their artifacts
          Request,        \* request slots of the API
          Case,           \* cases visible to the caller
          Digest,         \* content length and sha256, as declared
          TTL,            \* presign_ttl_seconds
          ActorRequired,  \* case_events.actor_id is NOT NULL
          MaxClock,       \* bound: the clock stops here
          None

ASSUME IntentAssumption ==
    /\ TTL \in Nat \ {0} /\ MaxClock \in Nat /\ ActorRequired \in BOOLEAN
    /\ None \notin Intent /\ None \notin Case

Kind == {"network-configuration", "incident-audio"}
Type == {"text/plain", "audio/wav"}

(* What a client declares, and what a HEAD request attests. *)
Declaration == [kind : Kind, type : Type, digest : Digest]
Metadata    == [type : Type, digest : Digest]

(* A row of artifact_upload_intents. *)
IntentRow == [case : Case, body : Declaration, created : 0..MaxClock,
              expires : 0..(MaxClock + TTL), status : {"pending", "completed"},
              completed : 0..MaxClock \cup {MaxClock + 1}]

Answer == [status : {0, 200, 403, 404, 409, 422, 503}, intent : Intent \cup {None},
           at : 0..(MaxClock + 1), already : BOOLEAN]

ASSUME NoneIsNoIntentRow == None \notin IntentRow /\ None \notin Metadata

VARIABLES clock,
          intents,    \* the committed row of each intent, or None
          artifacts,  \* intents whose completion rows are committed: artifact,
                      \* quarantined ledger row, case event, outbox and audit row
          object,     \* metadata of the stored object, or None
          stored,     \* history: all metadata the object has had
          granted,    \* history: intents whose capability reached the client
          pc, target, case, asof, body,   \* what each request is doing
          answer      \* the last answer in each slot

tables  == <<intents, artifacts>>
store   == <<object, stored>>
inputs  == <<target, case, asof, body>>
vars    == <<clock, tables, store, granted, pc, inputs, answer>>

PC == {"idle", "declare", "load", "replay", "head", "insert"}

Reply(status, i, at, already) ==
    [status |-> status, intent |-> i, at |-> at, already |-> already]

NoAnswer == Reply(0, None, MaxClock + 1, FALSE)

Init ==
    /\ clock = 0
    /\ intents = [i \in Intent |-> None]
    /\ artifacts = {}
    /\ object = [i \in Intent |-> None]
    /\ stored = [i \in Intent |-> {}]
    /\ granted = {}
    /\ pc = [r \in Request |-> "idle"]
    /\ target = [r \in Request |-> None]
    /\ case = [r \in Request |-> None]
    /\ asof = [r \in Request |-> 0]
    /\ body = [r \in Request |-> None]
    /\ answer = [r \in Request |-> NoAnswer]

Tick == /\ clock < MaxClock
        /\ clock' = clock + 1
        /\ UNCHANGED <<tables, store, granted, pc, inputs, answer>>

(* The transaction ends and the slot is free again. *)
Finish(r, a) ==
    /\ pc' = [pc EXCEPT ![r] = "idle"]
    /\ target' = [target EXCEPT ![r] = None]
    /\ case' = [case EXCEPT ![r] = None]
    /\ asof' = [asof EXCEPT ![r] = 0]
    /\ body' = [body EXCEPT ![r] = None]
    /\ answer' = [answer EXCEPT ![r] = a]

Refused(status) == Reply(status, None, MaxClock + 1, FALSE)

(* A rolled back or read-only transaction answers with an error. *)
Refuse(r, status) ==
    /\ Finish(r, Refused(status))
    /\ UNCHANGED <<clock, tables, store, granted>>

Begin(r, label, i, c, b) ==
    /\ pc[r] = "idle"
    /\ pc' = [pc EXCEPT ![r] = label]
    /\ target' = [target EXCEPT ![r] = i]
    /\ case' = [case EXCEPT ![r] = c]
    /\ asof' = [asof EXCEPT ![r] = clock]
    /\ body' = [body EXCEPT ![r] = b]
    /\ answer' = [answer EXCEPT ![r] = NoAnswer]
    /\ UNCHANGED <<clock, tables, store, granted>>

(* The write-role gate and _require_visible_case. *)
Gate(r) == /\ pc[r] = "idle"
           /\ \E status \in {403, 404} : Refuse(r, status)

-----------------------------------------------------------------------------
(* create_upload_intent *)

(* Configurations are text or JSON, recordings are audio. *)
ValidDeclaration(b) ==
    (b.kind = "incident-audio") = (b.type = "audio/wav")

(* Two uuid4 values that nobody has. *)
FreshIntent(i) == /\ intents[i] = None
                  /\ \A r \in Request : target[r] # i

BeginCreate(r) ==
    \E b \in Declaration :
        IF ValidDeclaration(b)
        THEN \/ \E i \in Intent, c \in Case :
                  FreshIntent(i) /\ Begin(r, "declare", i, c, b)
             \/ pc[r] = "idle" /\ Refuse(r, 503)    \* presign_upload fails
        ELSE pc[r] = "idle" /\ Refuse(r, 422)

(* The inserted intent.  MaxClock + 1 stands for completed_at IS NULL. *)
Pending(r) ==
    [case |-> case[r], body |-> body[r], created |-> asof[r],
     expires |-> asof[r] + TTL, status |-> "pending", completed |-> MaxClock + 1]

(* The commit of the intent and its audit row; the client has the signed   *)
(* capability once the answer reaches it.                                  *)
CommitCreate(r) ==
    /\ pc[r] = "declare"
    /\ intents' = [intents EXCEPT ![target[r]] = Pending(r)]
    /\ \/ /\ Finish(r, Reply(200, target[r], MaxClock + 1, FALSE))
          /\ granted' = granted \cup {target[r]}
       \/ Finish(r, Refused(503)) /\ UNCHANGED granted
    /\ UNCHANGED <<clock, artifacts, store>>

(* A PUT on the presigned URL, first or again.  The store is not trusted   *)
(* to enforce the signed headers: the object may have other metadata.      *)
Upload(i, m) ==
    /\ i \in granted
    /\ clock < intents[i].expires
    /\ object' = [object EXCEPT ![i] = m]
    /\ stored' = [stored EXCEPT ![i] = @ \cup {m}]
    /\ UNCHANGED <<clock, tables, granted, pc, inputs, answer>>

-----------------------------------------------------------------------------
(* complete_upload_intent *)

(* The clock is read before the transaction waits for the intent. *)
BeginComplete(r) ==
    \E i \in granted, c \in Case : Begin(r, "load", i, c, None)

(* Mutant: SELECT without FOR UPDATE. *)
NeverLocked(r, i) == FALSE

(* Another transaction holds the row lock of FOR UPDATE. *)
Locked(r, i) ==
    \E q \in Request \ {r} : target[q] = i /\ pc[q] \in {"replay", "head", "insert"}

(* Mutant: the deadline is not checked. *)
NeverExpired(row, now) == FALSE

Expired(row, now) == row.expires <= now

Goto(r, label) == /\ pc' = [pc EXCEPT ![r] = label]
                  /\ UNCHANGED <<clock, tables, store, granted, inputs, answer>>

(* _load_for_completion and the decisions on the locked row. *)
LoadForCompletion(r) ==
    /\ pc[r] = "load"
    /\ ~Locked(r, target[r])
    /\ LET row == intents[target[r]] IN
       IF row.case # case[r] THEN Refuse(r, 404)
       ELSE IF row.status = "completed" THEN Goto(r, "replay")
       ELSE IF Expired(row, asof[r]) THEN Refuse(r, 409)
       ELSE Goto(r, "head")

(* Mutant: a replay reports the time of the retry. *)
CompletedNow(r) == asof[r]

CompletedAt(r) == intents[target[r]].completed

(* The second read of an intent that was completed before. *)
ReplayCompletion(r) ==
    /\ pc[r] = "replay"
    /\ Finish(r, Reply(200, target[r], CompletedAt(r), TRUE))
    /\ UNCHANGED <<clock, tables, store, granted>>

(* Mutant: the content type is not compared. *)
MatchesDigest(row, m) == m.digest = row.body.digest

(* _verify_metadata *)
Matches(row, m) == m.type = row.body.type /\ m.digest = row.body.digest

(* Mutant: a missing object is waited for. *)
HeadObjectPolling(r) ==
    /\ pc[r] = "head"
    /\ LET i == target[r] IN
       \/ object[i] # None /\ Matches(intents[i], object[i]) /\ Goto(r, "insert")
       \/ object[i] # None /\ ~Matches(intents[i], object[i]) /\ Refuse(r, 409)
       \/ object[i] = None /\ Goto(r, "head")

(* head_uploaded_object: missing or unequal objects are conflicts; store   *)
(* errors and objects without an encryption attestation are not.           *)
HeadObject(r) ==
    /\ pc[r] = "head"
    /\ LET i == target[r] IN
       \/ object[i] # None /\ Matches(intents[i], object[i]) /\ Goto(r, "insert")
       \/ ~(object[i] # None /\ Matches(intents[i], object[i])) /\ Refuse(r, 409)
       \/ Refuse(r, 503)

(* list_for_case: pending intents, and all artifacts. *)
ListedAs(i) ==
    {kind \in {"upload_pending", "processing"} :
        \/ kind = "upload_pending" /\ intents[i] # None /\ intents[i].status = "pending"
        \/ kind = "processing" /\ i \in artifacts}

(* Keys of artifacts, the ledger trigger (attempt 1 must be the first) and *)
(* NOT NULL of case_events.actor_id, for which the statement has NULL.     *)
SchemaAccepts(r) == target[r] \notin artifacts /\ ~ActorRequired

(* _MARK_INTENT_COMPLETED *)
Marked(row, now) ==
    IF row.status = "pending"
    THEN [row EXCEPT !.status = "completed", !.completed = now] ELSE row

(* All rows of the savepoint, and the end of the transaction.              *)
(* get_tenant_connection turns a refusal of the schema into 503.           *)
CommitComplete(r) ==
    LET i == target[r] IN
    /\ pc[r] = "insert"
    /\ IF SchemaAccepts(r)
       THEN /\ artifacts' = artifacts \cup {i}
            /\ intents' = [intents EXCEPT ![i] = Marked(@, asof[r])]
            /\ \/ Finish(r, Reply(200, i, asof[r], FALSE))
               \/ Finish(r, Refused(503))
            /\ UNCHANGED <<clock, store, granted>>
       ELSE Refuse(r, 503)

(* The death of the process or a database error at any point. *)
Abort(r) == pc[r] # "idle" /\ Refuse(r, 503)

-----------------------------------------------------------------------------
Step(r) == \/ CommitCreate(r)
           \/ LoadForCompletion(r) \/ ReplayCompletion(r) \/ HeadObject(r)
           \/ CommitComplete(r)

Next == \/ \E r \in Request : \/ Gate(r) \/ BeginCreate(r) \/ BeginComplete(r)
                              \/ Step(r) \/ Abort(r)
        \/ \E i \in Intent, m \in Metadata : Upload(i, m)
        \/ Tick

Spec == Init /\ [][Next]_vars

(* A request thread keeps running, and PostgreSQL queues the waiters of a  *)
(* row lock.                                                               *)
FairSpec == Spec /\ \A r \in Request :
                      /\ WF_vars(Step(r))
                      /\ SF_vars(LoadForCompletion(r))

-----------------------------------------------------------------------------
(* Properties *)

TypeOK ==
    /\ clock \in 0..MaxClock
    /\ intents \in [Intent -> IntentRow \cup {None}]
    /\ artifacts \subseteq Intent
    /\ object \in [Intent -> Metadata \cup {None}]
    /\ stored \in [Intent -> SUBSET Metadata]
    /\ granted \subseteq Intent
    /\ pc \in [Request -> PC]
    /\ target \in [Request -> Intent \cup {None}]
    /\ case \in [Request -> Case \cup {None}]
    /\ asof \in [Request -> 0..MaxClock]
    /\ body \in [Request -> Declaration \cup {None}]
    /\ answer \in [Request -> Answer]

(* Only what the store has attested becomes evidence, however the object   *)
(* is replaced and the completion raced or retried (complete, and the      *)
(* comparison in _verify_metadata).                                        *)
EvidenceVerified ==
    \A i \in artifacts :
        [type |-> intents[i].body.type, digest |-> intents[i].body.digest]
            \in stored[i]

(* Evidence belongs to an intent that was completed within the life of its *)
(* capability, although the clock is read before the wait for the row and  *)
(* the commit may come after the deadline (complete).                      *)
EvidenceInTime ==
    \A i \in artifacts :
        LET row == intents[i] IN
        /\ row.status = "completed"
        /\ row.created <= row.completed /\ row.completed < row.expires

(* The case shows every declared upload once: as pending, or as evidence   *)
(* in processing, and never in both halves of the UNION (list_for_case     *)
(* over what complete leaves).                                             *)
ListedOnce ==
    \A i \in Intent : intents[i] # None =>
        \E kind \in {"upload_pending", "processing"} : ListedAs(i) = {kind}

(* All answers to completions of one intent agree: the evidence exists,    *)
(* they report the time stored with the intent, and at most one of them    *)
(* claims to have completed it (already_completed).                        *)
AnswersAgree ==
    \A r \in Request :
        LET a == answer[r] IN
        a.status = 200 /\ a.at <= MaxClock =>
            /\ a.intent \in artifacts
            /\ intents[a.intent].completed = a.at
            /\ ~a.already => \A q \in Request \ {r} :
                  answer[q].status = 200 /\ answer[q].intent = a.intent
                      /\ answer[q].at <= MaxClock => answer[q].already

(* A verified upload is turned into evidence: once a completion has come   *)
(* to its inserts, no key, trigger or NOT NULL of the schema refuses them. *)
SchemaAcceptsCompletion == \A r \in Request : pc[r] = "insert" => SchemaAccepts(r)

(* Every completion is answered: the wait for the row lock, which is held  *)
(* during the call to the store, always ends.                              *)
CompletionAnswered == \A r \in Request : pc[r] = "load" ~> pc[r] = "idle"
=============================================================================
