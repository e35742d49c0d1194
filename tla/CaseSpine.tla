----------------------------- MODULE CaseSpine -----------------------------
(***************************************************************************)
(* The case spine of the API under concurrent requests: api/cases.py over  *)
(* application/cases.py over PostgreSQL.                                   *)
(*                                                                         *)
(* A request is one HTTP request and one database transaction at READ      *)
(* COMMITTED: every SELECT sees what is committed when it runs, writes are *)
(* seen by nobody else until the commit, an UPDATE of a row waits for the  *)
(* uncommitted writer of that row and then re-evaluates its WHERE clause,  *)
(* and INSERT ... ON CONFLICT DO NOTHING waits for an uncommitted insert   *)
(* of the same key.  A step below is one statement whose result a later    *)
(* step depends on; the INSERTs that follow the decisive write are invis-  *)
(* ible until the commit and are part of the commit step.  The reply is    *)
(* sent after the transaction has ended.                                   *)
(***************************************************************************)
EXTENDS CaseDomain

CONSTANTS Request,        \* slots for requests in flight
          Roles,          \* the roles in the token of each actor
          AssetIds,       \* the asset scope in the token of each actor
          Key,            \* Idempotency-Key header values
          Asset,          \* identifiers of assets
          Title,          \* title, category and severity of a case
          Input,          \* operator inputs that may come with a case
          BodyInput,      \* the bodies a create request may carry
          StateInput,     \* the states a command may name
          EvidenceInput,  \* the sets of evidence a command may carry
          MaxVersion,     \* bound: no command expects a later version
          None            \* NULL, and "nothing here"

Body == [asset : Asset \cup {None}, title : Title, input : Input \cup {None}]

(* Mutant: the fingerprint leaves out the title. *)
RequestSha256NoTitle(body) == <<body.asset, None, body.input>>

(* CreateCaseCommand.request_sha256: a canonical fingerprint, equal for    *)
(* two bodies exactly when every field, the asset included, is equal.      *)
RequestSha256(body) == <<body.asset, body.title, body.input>>

CaseRow == [case_id : CaseId, state : CaseState, version : Nat,
            asset : Asset \cup {None}, title : Title,
            created_by : ActorId, key : Key,
            sha256 : (Asset \cup {None}) \X Title \X (Input \cup {None})]

InputRow == [case_id : CaseId, input : Input]

CreateRequest == [op : {"create"}, principal : ActorId, key : Key, body : Body]
TransitionRequest ==
    [op : {"transition"}, principal : ActorId, case_id : CaseId,
     expected_version : Nat, to_state : CaseState, evidence : SUBSET Evidence]
ReadRequest == [op : {"read"}, principal : ActorId, case_id : CaseId]

AuditRow == [action : {"case.created", "case.transitioned"}, case_id : CaseId,
             version : Nat, actor : ActorId]

Status == {200, 201, 403, 404, 409, 422, 500, 503}

ASSUME SpineAssumption ==
    /\ Roles \in [ActorId -> SUBSET CaseRole]
    /\ AssetIds \in [ActorId -> SUBSET Asset]
    /\ BodyInput \subseteq Body
    /\ StateInput \subseteq CaseState
    /\ EvidenceInput \subseteq SUBSET Evidence
    /\ MaxVersion \in Nat
    /\ None \notin CaseRow \cup CaseId \cup Status
                \cup CreateRequest \cup TransitionRequest \cup ReadRequest
    /\ None \notin CaseSnapshot \cup Input

VARIABLES
    cases,        \* cases[c]: the committed row of case c, or None
    transitions,  \* committed case_transitions rows
    events,       \* committed case_events rows
    outbox,       \* the events that have a committed outbox_events row
    audit,        \* committed audit_events rows
    inputs,       \* committed case_inputs rows
    pc,           \* where each request is
    req,          \* what each request asks for
    target,       \* the case a create request inserted or found, or None
    row,          \* the case row each request has read last, or None
    timeline,     \* the event rows a read request has read
    status        \* the HTTP status of the reply, or None

tables == <<cases, transitions, events, outbox, audit, inputs>>
local  == <<target, row, timeline>>
vars   == <<tables, pc, req, local, status>>

PC == {"idle", "insert", "replay", "inserted", "detail", "timeline",
       "snapshot", "update", "written", "reply"}

Init ==
    /\ cases = [c \in CaseId |-> None]
    /\ transitions = {} /\ events = {} /\ outbox = {} /\ audit = {}
    /\ inputs = {}
    /\ pc = [r \in Request |-> "idle"]
    /\ req = [r \in Request |-> None]
    /\ target = [r \in Request |-> None]
    /\ row = [r \in Request |-> None]
    /\ timeline = [r \in Request |-> {}]
    /\ status = [r \in Request |-> None]

-----------------------------------------------------------------------------
(* Authorization gates of the HTTP adapter *)

MayCreate(p) == Roles[p] \cap CASE_WRITE_ROLES # {}
MayRead(p)   == Roles[p] # {}

(* _require_create_asset_scope and _is_visible_to_principal: a case without *)
(* an asset is open to the organization, any other only to its asset scope. *)
InScope(asset, p) == asset = None \/ asset \in AssetIds[p]

ActorOf(p) == [actor_id |-> p, kind |-> "human", roles |-> Roles[p]]

(* _map_case_error *)
StatusOf(error) ==
    CASE error = "version_conflict" -> 409
      [] error = "authorization" -> 403
      [] error \in {"invalid_transition", "constraint"} -> 422
      [] OTHER -> 500

Goto(r, label)   == pc' = [pc EXCEPT ![r] = label]
Reply(r, code) == Goto(r, "reply") /\ status' = [status EXCEPT ![r] = code]

Accept(r, request, label) ==
    /\ pc[r] = "idle"
    /\ req' = [req EXCEPT ![r] = request]
    /\ Goto(r, label)
    /\ UNCHANGED <<tables, local, status>>

Reject(r, request, code) ==
    /\ pc[r] = "idle"
    /\ req' = [req EXCEPT ![r] = request]
    /\ Reply(r, code)
    /\ UNCHANGED <<tables, local>>

-----------------------------------------------------------------------------
(* POST /v1/cases *)

BeginCreate(r, p, k, body) ==
    LET request == [op |-> "create", principal |-> p, key |-> k, body |-> body]
    IN IF MayCreate(p) /\ InScope(body.asset, p)
       THEN Accept(r, request, "insert")
       ELSE Reject(r, request, 403)

KeyTaken(k) == \E c \in CaseId : cases[c] # None /\ cases[c].key = k

(* An insert of key k that is not yet committed or rolled back. *)
KeyLocked(k) == \E q \in Request : pc[q] = "inserted" /\ req[q].key = k

(* uuid4: an identifier that no row, committed or not, has. *)
FreshCase(c) == /\ cases[c] = None
                /\ \A q \in Request : pc[q] = "inserted" => target[q] # c

(* INSERT INTO cases ... ON CONFLICT (organization_id, idempotency_key)    *)
(* DO NOTHING: waits for an uncommitted insert of the key.                 *)
InsertCase(r) ==
    /\ pc[r] = "insert"
    /\ ~KeyLocked(req[r].key)
    /\ \/ /\ ~KeyTaken(req[r].key)
          /\ \E c \in CaseId :
                /\ FreshCase(c)
                /\ target' = [target EXCEPT ![r] = c]
          /\ Goto(r, "inserted")
       \/ /\ KeyTaken(req[r].key)
          /\ Goto(r, "replay")
          /\ UNCHANGED target
    /\ UNCHANGED <<tables, req, row, timeline, status>>

(* _require_case_by_idempotency, in the statement after the conflict: an   *)
(* equal fingerprint is a replay, another one is a conflict.               *)
ReplayCase(r) ==
    /\ pc[r] = "replay"
    /\ IF KeyTaken(req[r].key)
       THEN \E c \in CaseId :
             /\ cases[c] # None /\ cases[c].key = req[r].key
             /\ IF cases[c].sha256 = RequestSha256(req[r].body)
                THEN /\ Reply(r, 200)
                     /\ target' = [target EXCEPT ![r] = c]
                     /\ row' = [row EXCEPT ![r] = cases[c]]
                ELSE Reply(r, 409) /\ UNCHANGED <<target, row>>
       ELSE Reply(r, 500) /\ UNCHANGED <<target, row>>
    /\ UNCHANGED <<tables, req, timeline>>

NewCase(r) == [case_id |-> target[r], state |-> "new", version |-> 0,
               asset |-> req[r].body.asset, title |-> req[r].body.title,
               created_by |-> req[r].principal, key |-> req[r].key,
               sha256 |-> RequestSha256(req[r].body)]

(* The case_inputs row of case c, if its request carried an input. *)
InputsOf(c, input) ==
    IF input = None THEN {} ELSE {[case_id |-> c, input |-> input]}

InputRows(c) == {x \in inputs : x.case_id = c}

CreationFact(c, p) == [action |-> "case.created", case_id |-> c,
                       version |-> 0, actor |-> p]

TransitionFact(t) ==
    [action |-> "case.transitioned", case_id |-> t.case_id,
     version |-> t.version, actor |-> t.actor.actor_id]

(* Mutant: the creation leaves no audit fact. *)
CommitCreateUnaudited(r) ==
    LET c == target[r] IN
    /\ pc[r] = "inserted"
    /\ cases' = [cases EXCEPT ![c] = NewCase(r)]
    /\ inputs' = inputs \cup InputsOf(c, req[r].body.input)
    /\ events' = events \cup {CreationEvent(c)}
    /\ outbox' = outbox \cup {CreationEvent(c)}
    /\ row' = [row EXCEPT ![r] = NewCase(r)]
    /\ \E code \in {201, 503} : Reply(r, code)
    /\ UNCHANGED <<transitions, audit, req, target, timeline>>

(* The input, the event, its outbox row and the audit fact, and the        *)
(* commit.  The reply may still be lost with the connection (503).         *)
CommitCreate(r) ==
    LET c == target[r] IN
    /\ pc[r] = "inserted"
    /\ cases' = [cases EXCEPT ![c] = NewCase(r)]
    /\ inputs' = inputs \cup InputsOf(c, req[r].body.input)
    /\ events' = events \cup {CreationEvent(c)}
    /\ outbox' = outbox \cup {CreationEvent(c)}
    /\ audit' = audit \cup {CreationFact(c, req[r].principal)}
    /\ row' = [row EXCEPT ![r] = NewCase(r)]
    /\ \E code \in {201, 503} : Reply(r, code)
    /\ UNCHANGED <<transitions, req, target, timeline>>

-----------------------------------------------------------------------------
(* GET /v1/cases/{id} and /timeline, and the read that opens a transition *)

BeginRead(r, p, c) ==
    LET request == [op |-> "read", principal |-> p, case_id |-> c]
    IN IF MayRead(p) THEN Accept(r, request, "detail")
                     ELSE Reject(r, request, 403)

(* The first SELECT of get_detail, with the visibility check on its row.   *)
(* The timeline that get_detail reads as well is not used by a transition. *)
ReadCase(r) ==
    /\ pc[r] = "detail"
    /\ LET c == cases[req[r].case_id] IN
       IF c # None /\ InScope(c.asset, req[r].principal)
       THEN /\ row' = [row EXCEPT ![r] = c]
            /\ Goto(r, IF req[r].op = "read" THEN "timeline" ELSE "snapshot")
            /\ UNCHANGED status
       ELSE Reply(r, 404) /\ UNCHANGED row
    /\ UNCHANGED <<tables, req, target, timeline>>

(* Mutant: an inner join with case_transitions, which loses the creation. *)
ReadTimelineInnerJoin(r) ==
    /\ pc[r] = "timeline"
    /\ timeline' = [timeline EXCEPT
                      ![r] = {e \in events : e.case_id = req[r].case_id
                                                /\ e.transition}]
    /\ Reply(r, 200)
    /\ UNCHANGED <<tables, req, target, row>>

(* The second SELECT of get_detail: a later snapshot of the database. *)
ReadTimeline(r) ==
    /\ pc[r] = "timeline"
    /\ timeline' = [timeline EXCEPT
                      ![r] = {e \in events : e.case_id = req[r].case_id}]
    /\ Reply(r, 200)
    /\ UNCHANGED <<tables, req, target, row>>

-----------------------------------------------------------------------------
(* POST /v1/cases/{id}/transitions, /resolution and /feedback *)

BeginTransition(r, p, c, v, to, ev) ==
    LET request == [op |-> "transition", principal |-> p, case_id |-> c,
                    expected_version |-> v, to_state |-> to, evidence |-> ev]
    IN IF MayRead(p) /\ MayCreate(p)
       THEN Accept(r, request, "detail")
       ELSE Reject(r, request, 403)

Command(r) == [case_id |-> req[r].case_id,
               expected_version |-> req[r].expected_version,
               to_state |-> req[r].to_state,
               actor |-> ActorOf(req[r].principal),
               evidence |-> req[r].evidence]

SnapshotOf(case) == [case_id |-> case.case_id, state |-> case.state,
                     version |-> case.version]

(* CaseService.transition: get_snapshot, then apply_transition. *)
ReadSnapshot(r) ==
    /\ pc[r] = "snapshot"
    /\ LET c == cases[req[r].case_id]
           error == TransitionError(SnapshotOf(c), Command(r))
       IN IF c = None THEN Reply(r, 404) /\ UNCHANGED row
          ELSE /\ row' = [row EXCEPT ![r] = c]
               /\ IF error = "none"
                  THEN Goto(r, "update") /\ UNCHANGED status
                  ELSE Reply(r, StatusOf(error))
    /\ UNCHANGED <<tables, req, target, timeline>>

(* An update of case c that is not yet committed or rolled back. *)
RowLocked(c) == \E q \in Request : pc[q] = "written" /\ req[q].case_id = c

(* Mutant: an UPDATE retried until the version is the expected one again. *)
UpdateCaseRetried(r) ==
    /\ pc[r] = "update"
    /\ ~RowLocked(req[r].case_id)
    /\ cases[req[r].case_id].version = row[r].version
    /\ Goto(r, "written")
    /\ UNCHANGED <<tables, req, local, status>>

(* The compare-and-swap UPDATE of persist_transition. *)
UpdateCase(r) ==
    /\ pc[r] = "update"
    /\ ~RowLocked(req[r].case_id)
    /\ IF cases[req[r].case_id].version = row[r].version
       THEN Goto(r, "written") /\ UNCHANGED status
       ELSE Reply(r, 409)
    /\ UNCHANGED <<tables, req, local>>

(* The transition row the transaction of r writes. *)
Written(r) == NextTransition(SnapshotOf(row[r]), Command(r))

(* What the database still checks on the way to the commit: the CHECKs and *)
(* the unique (case_id, version) of case_transitions, and the deferred     *)
(* trigger on cases.                                                       *)
SchemaAccepts(r) ==
    LET t == Written(r) IN
    /\ TransitionChecks(t)
    /\ \A u \in transitions : u.case_id = t.case_id => u.version # t.version
    /\ ProjectionTrigger(cases[t.case_id], t, NextEvent(t), NextEvent(t))

(* The transition row, the event, its outbox row and the audit fact, and   *)
(* the commit; or a constraint failure, which rolls everything back.       *)
CommitTransition(r) ==
    LET t == Written(r) IN
    /\ pc[r] = "written"
    /\ IF SchemaAccepts(r)
       THEN /\ cases' = [cases EXCEPT ![t.case_id].state = t.to_state,
                                      ![t.case_id].version = t.version]
            /\ transitions' = transitions \cup {t}
            /\ events' = events \cup {NextEvent(t)}
            /\ outbox' = outbox \cup {NextEvent(t)}
            /\ audit' = audit \cup {TransitionFact(t)}
            /\ \E code \in {200, 503} : Reply(r, code)
       ELSE Reply(r, 503) /\ UNCHANGED <<cases, transitions, events, outbox, audit>>
    /\ UNCHANGED <<inputs, req, local>>

-----------------------------------------------------------------------------

(* Mutant: statements commit one by one, so the decisive write stays. *)
AbortWithoutRollback(r) ==
    /\ pc[r] \notin {"idle", "reply"}
    /\ cases' = CASE pc[r] = "inserted" ->
                       [cases EXCEPT ![target[r]] = NewCase(r)]
                  [] pc[r] = "written" ->
                       [cases EXCEPT
                          ![req[r].case_id].state = req[r].to_state,
                          ![req[r].case_id].version = @ + 1]
                  [] OTHER -> cases
    /\ Reply(r, 503)
    /\ target' = [target EXCEPT ![r] = None]
    /\ UNCHANGED <<transitions, events, outbox, audit, inputs, req, row, timeline>>

(* A database error, or the death of the API process, inside the           *)
(* transaction: nothing it wrote survives.                                 *)
Abort(r) ==
    /\ pc[r] \notin {"idle", "reply"}
    /\ Reply(r, 503)
    /\ target' = [target EXCEPT ![r] = None]
    /\ UNCHANGED <<tables, req, row, timeline>>

(* The reply is sent (or lost) after the transaction has ended. *)
Respond(r) ==
    /\ pc[r] = "reply"
    /\ Goto(r, "idle")
    /\ req' = [req EXCEPT ![r] = None]
    /\ target' = [target EXCEPT ![r] = None]
    /\ row' = [row EXCEPT ![r] = None]
    /\ timeline' = [timeline EXCEPT ![r] = {}]
    /\ status' = [status EXCEPT ![r] = None]
    /\ UNCHANGED tables

Submit(r) ==
    \E p \in ActorId :
        \/ \E k \in Key, body \in BodyInput : BeginCreate(r, p, k, body)
        \/ \E c \in CaseId : BeginRead(r, p, c)
        \/ \E c \in CaseId, v \in 0..MaxVersion,
              to \in StateInput, ev \in EvidenceInput :
               BeginTransition(r, p, c, v, to, ev)

(* One statement or commit of the transaction of r, or its reply. *)
Serve(r) == \/ InsertCase(r) \/ ReplayCase(r) \/ CommitCreate(r)
            \/ ReadCase(r) \/ ReadTimeline(r)
            \/ ReadSnapshot(r) \/ UpdateCase(r) \/ CommitTransition(r)
            \/ Respond(r)

Next == \E r \in Request : Submit(r) \/ Serve(r) \/ Abort(r)

Spec == Init /\ [][Next]_vars

(* A request thread keeps running: no step of it that stays enabled is put *)
(* off for ever.  The two statements that wait for another transaction are *)
(* granted in the order of PostgreSQL's lock queue, so a waiter is not     *)
(* overtaken for ever either.                                              *)
Fairness == \A r \in Request : /\ WF_vars(Serve(r))
                               /\ SF_vars(InsertCase(r))
                               /\ SF_vars(UpdateCase(r))

FairSpec == Spec /\ Fairness

-----------------------------------------------------------------------------
(* Properties *)

TypeOK ==
    /\ cases \in [CaseId -> CaseRow \cup {None}]
    /\ transitions \subseteq CaseStateTransition
    /\ events \subseteq CaseEvent
    /\ outbox \subseteq CaseEvent
    /\ audit \subseteq AuditRow
    /\ inputs \subseteq InputRow
    /\ pc \in [Request -> PC]
    /\ req \in [Request -> CreateRequest \cup TransitionRequest
                            \cup ReadRequest \cup {None}]
    /\ target \in [Request -> CaseId \cup {None}]
    /\ row \in [Request -> CaseRow \cup {None}]
    /\ timeline \in [Request -> SUBSET CaseEvent]
    /\ status \in [Request -> Status \cup {None}]

(* The spine as the abstract specification sees it. *)
Projection == [c \in CaseId |->
                 IF cases[c] = None THEN None ELSE SnapshotOf(cases[c])]

Lifecycle == INSTANCE CaseLifecycle
                WITH projection <- Projection, history <- transitions,
                     Actors <- {ActorOf(p) : p \in {q \in ActorId : Roles[q] # {}}}

(* The concurrent spine implements the atomic lifecycle: whatever the      *)
(* interleaving of reads, compare-and-swap updates, commits and aborts,    *)
(* the committed rows change only by steps that apply_transition accepts   *)
(* for the current snapshot (CaseService.transition, persist_transition).  *)
ImplementsLifecycle == Lifecycle!Spec

(* The committed history of every case replays to its projection.          *)
HistoryReplays == Lifecycle!HistoryReplays

(* A case the API shows as confirmed or resolved was approved by a human   *)
(* in an approver role, whatever raced with the approval.                  *)
ApprovalTrail == Lifecycle!ApprovalTrail

(* Every commit leaves its whole record and nothing else leaves any: the   *)
(* events of the cases are their creations and one event per transition,   *)
(* of the type of the transition; each has an outbox row; and the audit    *)
(* trail names, for every creation and every transition, the actor who     *)
(* made it, and the inputs are those of the requests that created the      *)
(* cases (create_case, persist_transition and their savepoint).            *)
RecordComplete ==
    LET created == {c \in CaseId : cases[c] # None} IN
    /\ events = {CreationEvent(c) : c \in created}
                  \cup {NextEvent(t) : t \in transitions}
    /\ outbox = events
    /\ audit = {CreationFact(c, cases[c].created_by) : c \in created}
                 \cup {TransitionFact(t) : t \in transitions}
    /\ inputs = UNION {InputsOf(c, cases[c].sha256[3]) : c \in created}

(* An Idempotency-Key names at most one case, and two transactions never   *)
(* hold uncommitted inserts of one key (create_case, _INSERT_CASE).        *)
OneCasePerKey ==
    LET key(c) == IF cases[c] # None THEN {cases[c].key}
                  ELSE {req[q].key : q \in {q \in Request :
                            pc[q] = "inserted" /\ target[q] = c}}
    IN \A c, d \in CaseId : key(c) \cap key(d) # {} => c = d

(* The case c says what the body of a create request says: its columns,    *)
(* and its case_inputs row, or none when the body carried no input.        *)
Says(c, body) == /\ cases[c].asset = body.asset
                 /\ cases[c].title = body.title
                 /\ InputRows(c) = InputsOf(c, body.input)

(* A successful reply to a create request is about a committed case of     *)
(* that key which says everything the body says and which the caller may   *)
(* see, though the case may be one that another request, with another      *)
(* intent, created under the key; and the conflict that sends a request to *)
(* the replay query always leaves a row to be found (no 500).              *)
CreateAnswered ==
    \A r \in Request :
        pc[r] = "reply" /\ req[r].op = "create" =>
          /\ status[r] # 500
          /\ status[r] \in {200, 201} =>
               /\ target[r] # None /\ cases[target[r]] # None
               /\ cases[target[r]].key = req[r].key
               /\ Says(target[r], req[r].body)
               /\ InScope(cases[target[r]].asset, req[r].principal)

(* A transition the API has acknowledged is durable, and is the one that   *)
(* was asked for: one version on from the version the caller expected, in  *)
(* the state it named, under its name (_apply_transition replies after     *)
(* the commit).                                                            *)
AcknowledgedIsDurable ==
    \A r \in Request :
        (pc[r] = "reply" /\ req[r].op = "transition" /\ status[r] = 200) =>
            \E t \in transitions :
                /\ t.case_id = req[r].case_id
                /\ t.version = req[r].expected_version + 1
                /\ t.to_state = req[r].to_state
                /\ t.actor.actor_id = req[r].principal

(* The two SELECTs of get_detail are not one snapshot, but the timeline is *)
(* never behind the projection it is shown with: it holds the event of     *)
(* every version up to the version of the row.                             *)
TimelineCoversRow ==
    \A r \in Request :
        (pc[r] = "reply" /\ req[r].op = "read" /\ status[r] = 200) =>
            \A v \in 0..row[r].version :
                \E e \in timeline[r] : e.aggregate_version = v

(* The domain rules and the schema are two encodings of one policy: a      *)
(* transition that apply_transition accepted and the compare-and-swap let  *)
(* through is never refused by a constraint or a trigger at the commit.    *)
SchemaNeverRefuses ==
    \A r \in Request : pc[r] = "written" => SchemaAccepts(r)

(* Every request is answered: the waits on uncommitted rows and keys never *)
(* form a cycle (one row lock or one key lock per transaction).            *)
EveryRequestAnswered ==
    \A r \in Request : pc[r] # "idle" ~> pc[r] = "idle"
=============================================================================
