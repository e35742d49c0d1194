----------------------------- MODULE CaseIntake -----------------------------
(***************************************************************************)
(* The intake form over the case spine: new-case-intake.tsx keeps one      *)
(* idempotency key for one intended case, across replies that are lost     *)
(* between the API, the web server and the browser, while other clients    *)
(* create and move cases.                                                  *)
(*                                                                         *)
(* The form runs in the browser with its script; a submission goes through *)
(* route.ts and createCaseAction to POST /v1/cases.  When the connection   *)
(* breaks, the request it carried goes on without anybody waiting for it.  *)
(***************************************************************************)
EXTENDS CaseSpine

CONSTANTS User,       \* the signed-in operator at the form
          FormKey,    \* the uuids that crypto.randomUUID gives the form
          FormBody,   \* the bodies the user may enter
          MaxIntent   \* bound: the user means at most this many cases

ASSUME IntakeAssumption == /\ User \in ActorId
                           /\ FormKey \subseteq Key
                           /\ FormBody \subseteq BodyInput
                           /\ MaxIntent \in Nat \ {0}
                           /\ None \notin Request \cup Nat \cup Body

VARIABLES key,        \* idempotencyKey
          submitted,  \* hasSubmitted
          fields,     \* what the form says
          pending,    \* the request the form waits for, or None
          shown,      \* result.status
          intent,     \* history: which case the user has in mind
          owner,      \* history: the intent a request was sent for, or None
          made        \* history: the intent a case was created for, or None

form    == <<key, submitted, fields, pending, shown, intent>>
history == <<owner, made>>
intakeVars == <<vars, form, history>>

Shown == {"idle", "success", "error"}

IntakeInit ==
    /\ Init
    /\ key \in FormKey /\ submitted = FALSE
    /\ fields \in FormBody /\ pending = None /\ shown = "idle"
    /\ intent = 1
    /\ owner = [r \in Request |-> None]
    /\ made = [c \in CaseId |-> None]

-----------------------------------------------------------------------------
(* The form *)

(* randomUUID: a key that no form, request or case has. *)
FreshKey(k) == /\ k \in FormKey \ {key} /\ ~KeyTaken(k)
               /\ \A r \in Request : req[r] # None /\ req[r].op = "create" =>
                                         req[r].key # k

(* Mutant: a key for the life of the form. *)
RotateKeyNever == UNCHANGED <<key, submitted>>

(* rotateKeyForChangedIntent, while a reply is awaited too. *)
RotateKeyForChangedIntent ==
    IF submitted
    THEN /\ \E k \in Key : FreshKey(k) /\ key' = k
         /\ submitted' = FALSE
    ELSE UNCHANGED <<key, submitted>>

(* onChange.  The user has another case in mind once what was submitted is *)
(* changed.                                                                *)
Edit(body) ==
    /\ shown # "success"
    /\ body # fields
    /\ fields' = body
    /\ RotateKeyForChangedIntent
    /\ IF submitted THEN intent < MaxIntent /\ intent' = intent + 1
                    ELSE UNCHANGED intent
    /\ UNCHANGED <<vars, pending, shown, history>>

(* Mutant: a new key for every submission. *)
SendWithNewKey(r) ==
    /\ shown # "success" /\ pending = None
    /\ \E k \in Key : /\ FreshKey(k) /\ key' = k
                      /\ BeginCreate(r, User, k, fields)
    /\ submitted' = TRUE
    /\ pending' = r
    /\ owner' = [owner EXCEPT ![r] = intent]
    /\ UNCHANGED <<fields, shown, intent, made>>

(* submitCase and createCaseAction, where requestFrom accepts the fields,  *)
(* to the first statement of the API.                                      *)
Send(r) ==
    /\ shown # "success" /\ pending = None
    /\ BeginCreate(r, User, key, fields)
    /\ submitted' = TRUE
    /\ pending' = r
    /\ owner' = [owner EXCEPT ![r] = intent]
    /\ UNCHANGED <<key, fields, shown, intent, made>>

(* requestFrom refuses the fields, or the web server cannot be reached:    *)
(* nothing is sent to the API.                                             *)
SendNothing ==
    /\ shown # "success" /\ pending = None
    /\ submitted' = TRUE
    /\ shown' = "error"
    /\ UNCHANGED <<vars, key, fields, pending, intent, history>>

(* The reply arrives: success opens the case, anything else is an error.   *)
Receive(r) ==
    /\ pending = r
    /\ Respond(r)
    /\ pending' = None
    /\ shown' = IF status[r] \in {200, 201} THEN "success" ELSE "error"
    /\ owner' = [owner EXCEPT ![r] = None]
    /\ UNCHANGED <<key, submitted, fields, intent, made>>

(* The connection breaks on either hop; the request goes on. *)
LoseConnection ==
    /\ pending # None
    /\ pending' = None
    /\ shown' = "error"
    /\ UNCHANGED <<vars, key, submitted, fields, intent, history>>

(* The form is opened anew: a new key, for a new case. *)
Reopen ==
    /\ pending = None /\ intent < MaxIntent
    /\ \E k \in Key : FreshKey(k) /\ key' = k
    /\ submitted' = FALSE /\ shown' = "idle"
    /\ \E body \in FormBody : fields' = body
    /\ intent' = intent + 1
    /\ UNCHANGED <<vars, pending, history>>

-----------------------------------------------------------------------------
(* The API, with its other clients *)

OtherClient(r) ==
    /\ \E p \in ActorId :
         \/ \E k \in Key \ FormKey, body \in BodyInput : BeginCreate(r, p, k, body)
         \/ \E c \in CaseId, to \in StateInput, ev \in EvidenceInput :
                BeginTransition(r, p, c, 0, to, ev)
    /\ UNCHANGED <<form, history>>

Statement(r) ==
    /\ \/ InsertCase(r) \/ ReplayCase(r)
       \/ ReadCase(r) \/ ReadSnapshot(r) \/ UpdateCase(r) \/ CommitTransition(r)
       \/ Abort(r)
    /\ UNCHANGED <<form, history>>

Created(r) ==
    /\ CommitCreate(r)
    /\ made' = [made EXCEPT ![target[r]] = owner[r]]
    /\ UNCHANGED <<form, owner>>

(* A reply to another client, or to a form that has given up. *)
Unheard(r) ==
    /\ pending # r
    /\ Respond(r)
    /\ owner' = [owner EXCEPT ![r] = None]
    /\ UNCHANGED <<form, made>>

IntakeNext ==
    \/ \E body \in FormBody : Edit(body)
    \/ SendNothing \/ LoseConnection \/ Reopen
    \/ \E r \in Request : \/ Send(r) \/ Receive(r)
                          \/ OtherClient(r) \/ Statement(r)
                          \/ Created(r) \/ Unheard(r)

IntakeSpec == IntakeInit /\ [][IntakeNext]_intakeVars

-----------------------------------------------------------------------------
(* Properties *)

(* The types of the spine, the form and the history kept beside them. *)
IntakeTypeOK ==
    /\ TypeOK
    /\ key \in FormKey /\ submitted \in BOOLEAN
    /\ fields \in FormBody
    /\ pending \in Request \cup {None}
    /\ shown \in Shown
    /\ intent \in 1..MaxIntent
    /\ owner \in [Request -> 1..MaxIntent \cup {None}]
    /\ made \in [CaseId -> 1..MaxIntent \cup {None}]

(* However often an intended case is submitted after lost replies, and     *)
(* whatever is still in flight, at most one case is created for it ("Sub-  *)
(* mit once, recover safely.", new-case-intake.tsx).                       *)
OneCasePerIntent ==
    \A c, d \in CaseId : (made[c] # None /\ made[c] = made[d]) => c = d

(* A key and an intent belong together.  A case under the key of the form  *)
(* is the one the user has in mind and says what the form says, so that a  *)
(* success the form could not hear is there to be replayed; and no         *)
(* submission finds its key in use by a case that says something else, so  *)
(* that the 409 which tells the user to edit the form does not occur.      *)
KeyKeepsItsIntent ==
    /\ \A c \in CaseId :
          (cases[c] # None /\ cases[c].key = key) =>
              /\ made[c] = intent
              /\ submitted
              /\ cases[c].sha256 = RequestSha256(fields)
    /\ \A r \in Request : owner[r] # None => status[r] # 409
=============================================================================
