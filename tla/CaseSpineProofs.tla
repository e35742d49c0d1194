-------------------------- MODULE CaseSpineProofs --------------------------
(***************************************************************************)
(* The concurrent case spine, for every number of requests, cases, keys    *)
(* and versions.  The inductive invariant says what an in-flight           *)
(* transaction may rely on: a row it has read is a committed version of    *)
(* its case (the current one if the versions agree, always so once it      *)
(* holds the row lock), and an uncommitted insert owns its identifier and  *)
(* its key.                                                                *)
(***************************************************************************)
EXTENDS CaseIntake, CaseDomainProofs

(* A transition request that passed the gates of the HTTP adapter. *)
AskedTransition ==
    {q \in TransitionRequest : /\ q.expected_version <= MaxVersion
                               /\ q.evidence \in EvidenceInput
                               /\ Roles[q.principal] # {}}

(* What the place of a request says of what it asks for. *)
ShapeAt(r) ==
    /\ pc[r] \in {"insert", "replay", "inserted"} => req[r] \in CreateRequest
    /\ pc[r] = "detail" => req[r] \in AskedTransition \cup ReadRequest
    /\ pc[r] = "timeline" => req[r] \in ReadRequest
    /\ pc[r] \in {"snapshot", "update", "written"} => req[r] \in AskedTransition

(* The row a transition was accepted for, against the committed row. *)
ReadRowAt(r) ==
    LET c == cases[req[r].case_id] IN
    pc[r] \in {"update", "written"} =>
        /\ row[r] # None /\ c # None
        /\ TransitionError(SnapshotOf(row[r]), Command(r)) = "none"
        /\ row[r].version <= c.version
        /\ row[r].version = c.version => row[r] = c
        /\ pc[r] = "written" => row[r] = c

Shape   == \A r \in Request : ShapeAt(r)
ReadRow == \A r \in Request : ReadRowAt(r)

RowsNamed == \A c \in CaseId : cases[c] # None => cases[c].case_id = c

RowLocks ==
    \A q, r \in Request :
        /\ pc[q] = "written" /\ pc[r] = "written"
        /\ req[q].case_id = req[r].case_id
        => q = r

InsertLocks ==
    \A r \in Request :
        pc[r] = "inserted" =>
            /\ target[r] \in CaseId
            /\ cases[target[r]] = None
            /\ ~KeyTaken(req[r].key)
            /\ \A q \in Request :
                  /\ pc[q] = "inserted"
                  /\ target[q] = target[r] \/ req[q].key = req[r].key
                  => q = r

KeysDistinct ==
    \A c, d \in CaseId :
        cases[c] # None /\ cases[d] # None /\ cases[c].key = cases[d].key => c = d

Inv == Shape /\ RowsNamed /\ ReadRow /\ RowLocks /\ InsertLocks /\ KeysDistinct

IInv == TypeOK /\ Inv

-----------------------------------------------------------------------------
(* A step of request r that commits nothing and touches no other request.  *)
Private(r) ==
    /\ cases' = cases
    /\ \A q \in Request \ {r} : /\ pc'[q] = pc[q] /\ req'[q] = req[q]
                                /\ target'[q] = target[q] /\ row'[q] = row[q]

(* A private step keeps the invariant if it takes no lock and leaves its   *)
(* own request in order.                                                   *)
LEMMA PrivateStep ==
    ASSUME Inv, NEW r \in Request, Private(r),
           pc'[r] \notin {"written", "inserted"}, ShapeAt(r)', ReadRowAt(r)'
    PROVE  Inv'
  <1>1. Shape'
    BY DEF Inv, Private, Shape, ShapeAt
  <1>2. ReadRow'
    BY DEF Inv, Private, ReadRow, ReadRowAt, Command
  <1>3. RowLocks'
    BY DEF Inv, Private, RowLocks
  <1>4. InsertLocks'
    BY DEF Inv, Private, InsertLocks, KeyTaken
  <1>5. RowsNamed' /\ KeysDistinct'
    BY DEF Inv, Private, RowsNamed, KeysDistinct
  <1> QED
    BY <1>1, <1>2, <1>3, <1>4, <1>5 DEF Inv

(* A step that ends at "idle" or "reply" keeps it in any case. *)
LEMMA EndingStep ==
    ASSUME Inv, NEW r \in Request, Private(r), pc'[r] \in {"idle", "reply"}
    PROVE  Inv'
  <1>1. ShapeAt(r)' /\ ReadRowAt(r)'
    BY DEF ShapeAt, ReadRowAt
  <1> QED
    BY <1>1, PrivateStep

(* The arrival of a request. *)
LEMMA SubmitStep ==
    ASSUME IInv, NEW r \in Request, Submit(r)
    PROVE  IInv'
  <1>1. ASSUME NEW request \in CreateRequest \cup AskedTransition \cup ReadRequest,
               NEW label \in {"insert", "detail"},
               label = "insert" <=> request \in CreateRequest,
               Accept(r, request, label)
        PROVE  IInv'
    <2>1. TypeOK'
      BY <1>1 DEF IInv, TypeOK, Accept, Goto, tables, local, PC, AskedTransition
    <2>2. Private(r) /\ pc'[r] = label /\ req'[r] = request
      BY <1>1 DEF IInv, TypeOK, Accept, Goto, tables, local, Private
    <2>3. ShapeAt(r)' /\ ReadRowAt(r)'
      BY <1>1, <2>2 DEF ShapeAt, ReadRowAt
    <2> QED
      BY <2>1, <2>2, <2>3, PrivateStep DEF IInv
  <1>2. ASSUME NEW request \in CreateRequest \cup TransitionRequest \cup ReadRequest,
               Reject(r, request, 403)
        PROVE  IInv'
    <2>1. TypeOK'
      BY <1>2 DEF IInv, TypeOK, Reject, Reply, Goto, tables, local, PC, Status
    <2>2. Private(r) /\ pc'[r] = "reply"
      BY <1>2 DEF IInv, TypeOK, Reject, Reply, Goto, tables, local, Private
    <2> QED
      BY <2>1, <2>2, EndingStep DEF IInv
  <1>3. ASSUME NEW p \in ActorId, NEW k \in Key, NEW body \in Body,
               BeginCreate(r, p, k, body)
        PROVE  IInv'
    <2> DEFINE request == [op |-> "create", principal |-> p, key |-> k,
                           body |-> body]
    <2>1. request \in CreateRequest
      BY DEF CreateRequest
    <2> QED
      BY <1>1, <1>2, <1>3, <2>1 DEF BeginCreate
  <1>4. ASSUME NEW p \in ActorId, NEW c \in CaseId, BeginRead(r, p, c)
        PROVE  IInv'
    <2> DEFINE request == [op |-> "read", principal |-> p, case_id |-> c]
    <2>1. request \in ReadRequest /\ request \notin CreateRequest
      BY DEF CreateRequest, ReadRequest
    <2> QED
      BY <1>1, <1>2, <1>4, <2>1 DEF BeginRead
  <1>5. ASSUME NEW p \in ActorId, NEW c \in CaseId, NEW v \in 0..MaxVersion,
               NEW to \in StateInput, NEW ev \in EvidenceInput,
               BeginTransition(r, p, c, v, to, ev)
        PROVE  IInv'
    <2> DEFINE request == [op |-> "transition", principal |-> p, case_id |-> c,
                    expected_version |-> v, to_state |-> to, evidence |-> ev]
    <2>1. request \in TransitionRequest /\ request \notin CreateRequest
      BY SpineAssumption DEF CreateRequest, TransitionRequest
    <2>2. MayRead(p) => request \in AskedTransition
      BY <2>1 DEF MayRead, AskedTransition
    <2> QED
      BY <1>1, <1>2, <1>5, <2>1, <2>2 DEF BeginTransition
  <1> QED
    BY <1>3, <1>4, <1>5, SpineAssumption DEF Submit

(* The steps of a create request. *)
LEMMA CreateSteps ==
    ASSUME IInv, NEW r \in Request,
           InsertCase(r) \/ ReplayCase(r) \/ CommitCreate(r)
    PROVE  IInv'
  <1>1. CASE InsertCase(r)
    <2>1. TypeOK'
      BY <1>1 DEF IInv, TypeOK, InsertCase, Goto, tables, PC
    <2>2. Private(r) /\ req'[r] = req[r] /\ req[r] \in CreateRequest
      BY <1>1 DEF IInv, Inv, Shape, ShapeAt, TypeOK, InsertCase, Goto, tables,
                  Private
    <2>3. CASE pc'[r] # "inserted"
      <3>1. pc'[r] = "replay"
        BY <1>1, <2>3 DEF IInv, TypeOK, InsertCase, Goto
      <3>2. ShapeAt(r)' /\ ReadRowAt(r)'
        BY <2>2, <3>1 DEF ShapeAt, ReadRowAt
      <3> QED
        BY <2>1, <2>2, <3>1, <3>2, PrivateStep DEF IInv
    <2>4. CASE pc'[r] = "inserted"
      <3>1. /\ ~KeyLocked(req[r].key) /\ ~KeyTaken(req[r].key)
            /\ target'[r] \in CaseId /\ FreshCase(target'[r])
        BY <1>1, <2>4 DEF IInv, TypeOK, InsertCase, Goto
      <3>2. InsertLocks'
        BY <2>2, <2>4, <3>1
           DEF IInv, Inv, InsertLocks, Private, KeyLocked, KeyTaken, FreshCase
      <3>3. Shape' /\ ReadRow'
        BY <2>2, <2>4 DEF IInv, Inv, Shape, ShapeAt, ReadRow, ReadRowAt,
                          Command, Private
      <3>4. RowsNamed' /\ RowLocks' /\ KeysDistinct'
        BY <2>2, <2>4 DEF IInv, Inv, RowsNamed, RowLocks, KeysDistinct, Private
      <3> QED
        BY <2>1, <3>2, <3>3, <3>4 DEF IInv, Inv
    <2> QED
      BY <2>3, <2>4
  <1>2. CASE ReplayCase(r)
    <2>1. TypeOK'
      BY <1>2 DEF IInv, TypeOK, ReplayCase, Reply, Goto, tables, PC, Status
    <2>2. Private(r) /\ pc'[r] = "reply"
      BY <1>2 DEF IInv, TypeOK, ReplayCase, Reply, Goto, tables, Private
    <2> QED
      BY <2>1, <2>2, EndingStep DEF IInv
  <1>3. CASE CommitCreate(r)
    <2> DEFINE c == target[r]
    <2>1. /\ pc[r] = "inserted" /\ c \in CaseId /\ cases[c] = None
          /\ req[r] \in CreateRequest /\ ~KeyTaken(req[r].key)
      BY <1>3 DEF IInv, Inv, Shape, ShapeAt, InsertLocks, CommitCreate
    <2>2. NewCase(r) \in CaseRow /\ NewCase(r) # None
      <3>1. NewCase(r) \in CaseRow
        BY <2>1 DEF NewCase, CaseRow, CreateRequest, Body, RequestSha256, CaseState
      <3> QED
        BY <3>1, SpineAssumption
    <2>3. TypeOK'
      <3>1. CreationEvent(c) \in CaseEvent
        BY <2>1, EventOfType
      <3>2. CreationFact(c, req[r].principal) \in AuditRow
        BY <2>1 DEF AuditRow, CreateRequest, CreationFact
      <3>3. InputsOf(c, req[r].body.input) \subseteq InputRow
        BY <2>1 DEF InputsOf, InputRow, CreateRequest, Body
      <3> QED
        BY <1>3, <2>1, <2>2, <3>1, <3>2, <3>3
           DEF IInv, TypeOK, CommitCreate, Reply, Goto, PC, Status
    <2>4. /\ cases' = [cases EXCEPT ![c] = NewCase(r)]
          /\ cases'[c] = NewCase(r)
          /\ \A d \in CaseId \ {c} : cases'[d] = cases[d]
          /\ req' = req /\ target' = target /\ pc'[r] = "reply"
          /\ \A q \in Request \ {r} : pc'[q] = pc[q] /\ row'[q] = row[q]
      BY <1>3, <2>1 DEF IInv, TypeOK, CommitCreate, Reply, Goto
    <2>5. NewCase(r).case_id = c /\ NewCase(r).key = req[r].key
      BY DEF NewCase
    <2>6. RowsNamed' /\ KeysDistinct'
      BY <2>1, <2>2, <2>4, <2>5 DEF IInv, Inv, RowsNamed, KeysDistinct, KeyTaken
    <2>7. InsertLocks'
      BY <2>1, <2>2, <2>4, <2>5 DEF IInv, Inv, InsertLocks, KeyTaken
    <2>8. Shape' /\ RowLocks'
      BY <2>4 DEF IInv, Inv, Shape, ShapeAt, RowLocks
    <2>9. ReadRow'
      <3> SUFFICES ASSUME NEW q \in Request, pc'[q] \in {"update", "written"}
                   PROVE  ReadRowAt(q)'
        BY DEF ReadRow, ReadRowAt
      <3>1. q # r /\ pc'[q] = pc[q] /\ ReadRowAt(q) /\ row'[q] = row[q]
        BY <2>4 DEF IInv, Inv, ReadRow
      <3>2. req[q].case_id \in CaseId \ {c}
        BY <2>1, <3>1 DEF IInv, Inv, Shape, ShapeAt, ReadRowAt, AskedTransition,
                          TransitionRequest
      <3> QED
        BY <2>4, <3>1, <3>2 DEF ReadRowAt, Command
    <2> QED
      BY <2>3, <2>6, <2>7, <2>8, <2>9 DEF IInv, Inv
  <1> QED
    BY <1>1, <1>2, <1>3

(* The steps of a read request, and the read that opens a transition. *)
LEMMA ReadSteps ==
    ASSUME IInv, NEW r \in Request, ReadCase(r) \/ ReadTimeline(r)
    PROVE  IInv'
  <1>1. CASE ReadCase(r)
    <2>1. req[r] \in AskedTransition \cup ReadRequest
      BY <1>1 DEF IInv, Inv, Shape, ShapeAt, ReadCase
    <2>2. TypeOK'
      BY <1>1, <2>1 DEF IInv, TypeOK, ReadCase, Reply, Goto, tables, PC, Status,
                   AskedTransition, TransitionRequest, ReadRequest
    <2>3. Private(r) /\ req'[r] = req[r]
      BY <1>1 DEF IInv, TypeOK, ReadCase, Reply, Goto, tables, Private
    <2>4. \/ pc'[r] = "reply"
          \/ pc'[r] = "timeline" /\ req[r].op = "read"
          \/ pc'[r] = "snapshot" /\ req[r].op # "read"
      BY <1>1 DEF IInv, TypeOK, ReadCase, Reply, Goto
    <2>5. /\ \A q \in AskedTransition : q.op = "transition"
          /\ \A q \in ReadRequest : q.op = "read"
      BY DEF AskedTransition, TransitionRequest, ReadRequest
    <2>6. ShapeAt(r)' /\ ReadRowAt(r)'
      BY <2>1, <2>3, <2>4, <2>5 DEF ShapeAt, ReadRowAt
    <2> QED
      BY <2>2, <2>3, <2>4, <2>6, PrivateStep DEF IInv
  <1>2. CASE ReadTimeline(r)
    <2>1. TypeOK'
      BY <1>2 DEF IInv, TypeOK, ReadTimeline, Reply, Goto, tables, PC, Status
    <2>2. Private(r) /\ pc'[r] = "reply"
      BY <1>2 DEF IInv, TypeOK, ReadTimeline, Reply, Goto, tables, Private
    <2> QED
      BY <2>1, <2>2, EndingStep DEF IInv
  <1> QED
    BY <1>1, <1>2

(* The snapshot of a row and the command of a request have their types.    *)
LEMMA CommandType ==
    /\ \A x \in CaseRow : SnapshotOf(x) \in CaseSnapshot
    /\ \A r \in Request :
         req[r] \in AskedTransition => /\ Command(r) \in TransitionCommand
                                       /\ Command(r).case_id = req[r].case_id
  <1>1. ASSUME NEW x \in CaseRow PROVE SnapshotOf(x) \in CaseSnapshot
    BY DEF SnapshotOf, CaseRow, CaseSnapshot
  <1>2. ASSUME NEW r \in Request, req[r] \in AskedTransition
        PROVE  /\ Command(r) \in TransitionCommand
               /\ Command(r).case_id = req[r].case_id
    <2>1. ActorOf(req[r].principal) \in Actor
      BY <1>2, SpineAssumption
         DEF ActorOf, Actor, AskedTransition, TransitionRequest, ActorKind
    <2> QED
      BY <1>2, <2>1 DEF Command, TransitionCommand, AskedTransition,
                        TransitionRequest
  <1> QED
    BY <1>1, <1>2

(* The transaction that holds the lock of a row writes the next version of *)
(* the committed row.                                                      *)
LEMMA WrittenIsNext ==
    ASSUME IInv, NEW r \in Request, pc[r] = "written"
    PROVE  LET c == req[r].case_id
               s == SnapshotOf(cases[c])
           IN /\ c \in CaseId /\ cases[c] \in CaseRow /\ cases[c] # None
              /\ row[r] = cases[c] /\ s \in CaseSnapshot
              /\ Command(r) \in TransitionCommand
              /\ TransitionError(s, Command(r)) = "none"
              /\ Written(r) = NextTransition(s, Command(r))
              /\ Written(r) \in CaseStateTransition
              /\ Written(r).case_id = c
              /\ Written(r).to_state = Command(r).to_state
              /\ Written(r).version = cases[c].version + 1
  <1> DEFINE c == req[r].case_id
             s == SnapshotOf(cases[c])
  <1>1. req[r] \in AskedTransition /\ c \in CaseId
    BY DEF IInv, Inv, Shape, ShapeAt, AskedTransition, TransitionRequest
  <1>2. /\ row[r] = cases[c] /\ cases[c] # None
        /\ TransitionError(SnapshotOf(row[r]), Command(r)) = "none"
    BY DEF IInv, Inv, ReadRow, ReadRowAt
  <1>3. cases[c] \in CaseRow /\ cases[c].case_id = c
    BY <1>1, <1>2 DEF IInv, Inv, TypeOK, RowsNamed
  <1>4. s \in CaseSnapshot /\ Command(r) \in TransitionCommand
    BY <1>1, <1>3, CommandType
  <1>5. Written(r) = NextTransition(s, Command(r))
    BY <1>2 DEF Written
  <1>6. Written(r) \in CaseStateTransition
    BY <1>4, <1>5, OutcomeType
  <1>7. /\ Written(r).case_id = c
        /\ Written(r).to_state = Command(r).to_state
        /\ Written(r).version = cases[c].version + 1
    BY <1>3, <1>5 DEF NextTransition, SnapshotOf
  <1> QED
    BY <1>1, <1>2, <1>3, <1>4, <1>5, <1>6, <1>7

(* What an accepted commit of a transition does.                           *)
LEMMA CommitEffect ==
    ASSUME IInv, NEW r \in Request, CommitTransition(r), SchemaAccepts(r)
    PROVE  LET c == req[r].case_id
           IN /\ pc[r] = "written"
              /\ cases'[c] \in CaseRow /\ cases'[c] # None
              /\ cases'[c].version = cases[c].version + 1
              /\ cases'[c].case_id = c /\ cases'[c].key = cases[c].key
              /\ cases'[c].sha256 = cases[c].sha256 /\ cases'[c].asset = cases[c].asset
              /\ cases'[c].title = cases[c].title
              /\ cases'[c].created_by = cases[c].created_by
              /\ SnapshotOf(cases'[c]) =
                     NextSnapshot(SnapshotOf(cases[c]), Command(r))
              /\ \A d \in CaseId \ {c} : cases'[d] = cases[d]
              /\ cases' \in [CaseId -> CaseRow \cup {None}]
              /\ transitions' = transitions \cup {Written(r)}
              /\ pc'[r] = "reply" /\ req' = req /\ target' = target /\ row' = row
              /\ \A q \in Request \ {r} : pc'[q] = pc[q]
  <1> DEFINE c == req[r].case_id
             t == Written(r)
             x == [cases[c] EXCEPT !.state = t.to_state, !.version = t.version]
  <1>1. pc[r] = "written"
    BY DEF CommitTransition
  <1>2. /\ c \in CaseId /\ cases[c] \in CaseRow
        /\ t \in CaseStateTransition /\ t.case_id = c
        /\ t.to_state = Command(r).to_state /\ t.version = cases[c].version + 1
        /\ cases[c].case_id = c
    BY <1>1, WrittenIsNext DEF IInv, Inv, RowsNamed
  <1>3. /\ cases' = [cases EXCEPT ![c].state = t.to_state, ![c].version = t.version]
        /\ transitions' = transitions \cup {t}
        /\ req' = req /\ target' = target /\ row' = row
        /\ \E code \in {200, 503} : Reply(r, code)
    BY <1>2 DEF CommitTransition, local
  <1>4. x \in CaseRow /\ x # None
    <2>1. t.to_state \in CaseState /\ t.version \in Nat
      BY <1>2 DEF CaseStateTransition
    <2>2. x \in CaseRow
      BY <1>2, <2>1 DEF CaseRow
    <2> QED
      BY <2>2, SpineAssumption
  <1>5. /\ x.case_id = c /\ x.key = cases[c].key /\ x.sha256 = cases[c].sha256
        /\ x.asset = cases[c].asset /\ x.title = cases[c].title
        /\ x.created_by = cases[c].created_by
        /\ x.state = t.to_state /\ x.version = t.version
    BY <1>2 DEF CaseRow
  <1>6. cases' = [cases EXCEPT ![c] = x]
    <2> DEFINE y == [cases[c] EXCEPT !.state = t.to_state]
               f == [cases EXCEPT ![c] = y]
    <2>1. cases \in [CaseId -> CaseRow \cup {None}] /\ f[c] = y
      BY <1>2 DEF IInv, TypeOK
    <2>2. cases' = [f EXCEPT ![c] = [f[c] EXCEPT !.version = t.version]]
      BY <1>3, Zenon
    <2>3. [f[c] EXCEPT !.version = t.version] = x
      BY <2>1, <1>2 DEF CaseRow
    <2> HIDE DEF x, y
    <2> QED
      BY <2>1, <2>2, <2>3
  <1>7. /\ cases'[c] = x
        /\ \A d \in CaseId \ {c} : cases'[d] = cases[d]
        /\ cases' \in [CaseId -> CaseRow \cup {None}]
    BY <1>2, <1>4, <1>6 DEF IInv, TypeOK
  <1>8. SnapshotOf(x) = NextSnapshot(SnapshotOf(cases[c]), Command(r))
    BY <1>2, <1>5 DEF SnapshotOf, NextSnapshot
  <1>9. pc'[r] = "reply" /\ \A q \in Request \ {r} : pc'[q] = pc[q]
    BY <1>3 DEF Reply, Goto, IInv, TypeOK
  <1>10. /\ cases'[c] \in CaseRow /\ cases'[c] # None
         /\ cases'[c].version = cases[c].version + 1
         /\ cases'[c].case_id = c /\ cases'[c].key = cases[c].key
         /\ cases'[c].sha256 = cases[c].sha256 /\ cases'[c].asset = cases[c].asset
         /\ cases'[c].title = cases[c].title
         /\ cases'[c].created_by = cases[c].created_by
         /\ SnapshotOf(cases'[c]) = NextSnapshot(SnapshotOf(cases[c]), Command(r))
    <2> HIDE DEF x, t
    <2> QED
      BY <1>2, <1>4, <1>5, <1>7, <1>8
  <1>11. transitions' = transitions \cup {Written(r)}
    BY <1>3
  <1> HIDE DEF x, t
  <1> QED
    BY <1>1, <1>3, <1>7, <1>9, <1>10, <1>11

(* The steps of a transition request after its first read. *)
LEMMA TransitionSteps ==
    ASSUME IInv, NEW r \in Request,
           ReadSnapshot(r) \/ UpdateCase(r) \/ CommitTransition(r)
    PROVE  IInv'
  <1> DEFINE c == req[r].case_id
  <1>1. CASE ReadSnapshot(r)
    <2>1. req[r] \in AskedTransition /\ c \in CaseId
      BY <1>1 DEF IInv, Inv, Shape, ShapeAt, ReadSnapshot, AskedTransition,
                  TransitionRequest
    <2>2. \A error : StatusOf(error) \in Status
      BY DEF StatusOf, Status
    <2>3. TypeOK'
      BY <1>1, <2>1, <2>2, SpineAssumption
         DEF IInv, TypeOK, ReadSnapshot, Reply, Goto, tables, PC, Status
    <2>4. Private(r) /\ req'[r] = req[r]
      BY <1>1 DEF IInv, TypeOK, ReadSnapshot, Reply, Goto, tables, Private
    <2>5. \/ pc'[r] = "reply"
          \/ /\ pc'[r] = "update" /\ cases[c] # None
             /\ row'[r] = cases[c] /\ cases' = cases
             /\ TransitionError(SnapshotOf(cases[c]), Command(r)) = "none"
      BY <1>1 DEF IInv, TypeOK, ReadSnapshot, Reply, Goto, tables
    <2>6. Command(r)' = Command(r)
      BY <2>4 DEF Command
    <2>7. cases[c] # None => cases[c].version <= cases[c].version
      BY <2>1 DEF IInv, TypeOK, CaseRow
    <2>8. ShapeAt(r)' /\ ReadRowAt(r)'
      BY <2>1, <2>4, <2>5, <2>6, <2>7 DEF ShapeAt, ReadRowAt
    <2> QED
      BY <2>3, <2>4, <2>5, <2>8, PrivateStep DEF IInv
  <1>2. CASE UpdateCase(r)
    <2>1. TypeOK'
      BY <1>2 DEF IInv, TypeOK, UpdateCase, Reply, Goto, tables, local, PC, Status
    <2>2. Private(r) /\ req' = req /\ row' = row /\ pc[r] = "update"
      BY <1>2 DEF IInv, TypeOK, UpdateCase, Reply, Goto, tables, local, Private
    <2>3. CASE pc'[r] # "written"
      <3>1. pc'[r] = "reply"
        BY <1>2, <2>3 DEF IInv, TypeOK, UpdateCase, Reply, Goto
      <3> QED
        BY <2>1, <2>2, <3>1, EndingStep DEF IInv
    <2>4. CASE pc'[r] = "written"
      <3>1. ~RowLocked(c) /\ cases[c].version = row[r].version
        BY <1>2, <2>4 DEF IInv, TypeOK, UpdateCase, Reply, Goto
      <3>2. Shape'
        BY <2>2, <2>4 DEF IInv, Inv, Shape, ShapeAt, Private
      <3>3. ReadRow'
        BY <2>2, <2>4, <3>1 DEF IInv, Inv, ReadRow, ReadRowAt, Command, Private
      <3>4. RowLocks'
        BY <2>2, <2>4, <3>1 DEF IInv, Inv, RowLocks, RowLocked, Private
      <3>5. InsertLocks'
        BY <2>2, <2>4 DEF IInv, Inv, InsertLocks, KeyTaken, Private
      <3>6. RowsNamed' /\ KeysDistinct'
        BY <2>2 DEF IInv, Inv, RowsNamed, KeysDistinct, Private
      <3> QED
        BY <2>1, <3>2, <3>3, <3>4, <3>5, <3>6 DEF IInv, Inv
    <2> QED
      BY <2>3, <2>4
  <1>3. CASE CommitTransition(r) /\ ~SchemaAccepts(r)
    <2>1. TypeOK'
      BY <1>3 DEF IInv, TypeOK, CommitTransition, Reply, Goto, local, PC, Status
    <2>2. Private(r) /\ pc'[r] = "reply"
      BY <1>3 DEF IInv, TypeOK, CommitTransition, Reply, Goto, local, Private
    <2> QED
      BY <2>1, <2>2, EndingStep DEF IInv
  <1>4. CASE CommitTransition(r) /\ SchemaAccepts(r)
    <2> DEFINE t == Written(r)
    <2>1. /\ pc[r] = "written"
          /\ cases' \in [CaseId -> CaseRow \cup {None}]
          /\ transitions' = transitions \cup {t}
          /\ cases'[c] # None /\ cases'[c].case_id = c
          /\ cases'[c].version = cases[c].version + 1
          /\ cases'[c].key = cases[c].key
          /\ \A d \in CaseId \ {c} : cases'[d] = cases[d]
          /\ pc'[r] = "reply" /\ req' = req /\ target' = target /\ row' = row
          /\ \A q \in Request \ {r} : pc'[q] = pc[q]
      BY <1>4, CommitEffect
    <2>2. /\ c \in CaseId /\ cases[c] # None /\ t \in CaseStateTransition
          /\ cases[c] \in CaseRow /\ req[r] \in AskedTransition
      BY <2>1, WrittenIsNext DEF IInv, Inv, Shape, ShapeAt
    <2>3. TypeOK'
      <3>1. NextEvent(t) \in CaseEvent
        BY <2>2, EventOfType
      <3>2. TransitionFact(t) \in AuditRow
        BY <2>2 DEF TransitionFact, AuditRow, CaseStateTransition, Actor, AskedTransition,
                    TransitionRequest
      <3> HIDE DEF t
      <3> QED
        BY <1>4, <2>1, <2>2, <3>1, <3>2
           DEF IInv, TypeOK, CommitTransition, Reply, Goto, local, PC, Status, t
    <2>4. Shape' /\ RowsNamed' /\ RowLocks' /\ KeysDistinct'
      BY <2>1, <2>2 DEF IInv, Inv, Shape, ShapeAt, RowsNamed, RowLocks, KeysDistinct
    <2>5. InsertLocks'
      BY <2>1, <2>2 DEF IInv, Inv, InsertLocks, KeyTaken
    <2>6. ReadRow'
      <3> SUFFICES ASSUME NEW q \in Request, pc'[q] \in {"update", "written"}
                   PROVE  ReadRowAt(q)'
        BY DEF ReadRow, ReadRowAt
      <3>1. q # r /\ pc'[q] = pc[q] /\ ReadRowAt(q) /\ Command(q)' = Command(q)
        BY <2>1 DEF IInv, Inv, ReadRow, Command
      <3>2. req[q].case_id \in CaseId
        BY <3>1 DEF IInv, Inv, Shape, ShapeAt, AskedTransition, TransitionRequest
      <3>3. CASE req[q].case_id # c
        BY <2>1, <3>1, <3>2, <3>3 DEF ReadRowAt
      <3>4. CASE req[q].case_id = c
        <4>1. pc[q] = "update"
          BY <2>1, <3>1, <3>4 DEF IInv, Inv, RowLocks
        <4>2. row[q] # None /\ row[q] \in CaseRow
          BY <3>1, <4>1 DEF ReadRowAt, IInv, TypeOK
        <4>3. row[q].version \in Nat /\ cases[c].version \in Nat
          BY <2>2, <4>2 DEF CaseRow
        <4> QED
          BY <2>1, <3>1, <3>4, <4>1, <4>2, <4>3 DEF ReadRowAt
      <3> QED
        BY <3>3, <3>4
    <2> QED
      BY <2>3, <2>4, <2>5, <2>6 DEF IInv, Inv
  <1> QED
    BY <1>1, <1>2, <1>3, <1>4

(* The end of a request. *)
LEMMA EndSteps ==
    ASSUME IInv, NEW r \in Request, Abort(r) \/ Respond(r)
    PROVE  IInv'
  <1>1. TypeOK'
    BY DEF IInv, TypeOK, Abort, Respond, Reply, Goto, tables, PC, Status
  <1>2. Private(r) /\ pc'[r] \in {"idle", "reply"}
    BY DEF IInv, TypeOK, Abort, Respond, Reply, Goto, tables, Private
  <1> QED
    BY <1>1, <1>2, EndingStep DEF IInv

(* The inductive invariant holds.                                          *)
THEOREM SpineInvariant == Spec => []IInv
  <1>1. Init => IInv
    <2> SUFFICES ASSUME Init PROVE IInv
      OBVIOUS
    <2>1. TypeOK
      BY DEF Init, TypeOK, PC
    <2>2. Inv
      BY DEF Init, Inv, Shape, ShapeAt, RowsNamed, ReadRow, ReadRowAt, RowLocks,
             InsertLocks, KeysDistinct
    <2> QED
      BY <2>1, <2>2 DEF IInv
  <1>2. IInv /\ [Next]_vars => IInv'
    <2> SUFFICES ASSUME IInv, [Next]_vars PROVE IInv'
      OBVIOUS
    <2>1. CASE UNCHANGED vars
      <3>1. TypeOK'
        BY <2>1 DEF IInv, TypeOK, vars, tables, local
      <3>2. Inv'
        BY <2>1 DEF IInv, Inv, Shape, ShapeAt, RowsNamed, ReadRow, ReadRowAt,
                    RowLocks, InsertLocks, KeysDistinct, KeyTaken, Command,
                    vars, tables, local
      <3> QED
        BY <3>1, <3>2 DEF IInv
    <2>2. ASSUME NEW r \in Request, Submit(r) \/ Serve(r) \/ Abort(r)
          PROVE  IInv'
      BY <2>2, SubmitStep, CreateSteps, ReadSteps, TransitionSteps, EndSteps
         DEF Serve
    <2> QED
      BY <2>1, <2>2 DEF Next
  <1> QED
    BY <1>1, <1>2, PTL DEF Spec

(* Every row and every request has its type, whatever the interleaving.    *)
THEOREM SpineTypeOK == Spec => []TypeOK
  <1>1. IInv => TypeOK
    BY DEF IInv
  <1> QED
    BY <1>1, SpineInvariant, PTL

-----------------------------------------------------------------------------
(* What a step does to the committed cases and their history: it creates a *)
(* case, or moves one by an accepted command, or changes neither.          *)
Inserted(c) ==
    /\ cases[c] = None /\ cases'[c] # None
    /\ SnapshotOf(cases'[c]) = [case_id |-> c, state |-> "new", version |-> 0]
    /\ transitions' = transitions
    /\ \A d \in CaseId \ {c} : cases'[d] = cases[d]

Moved(r) ==
    LET c == req[r].case_id
        s == SnapshotOf(cases[c])
    IN /\ req[r] \in AskedTransition
       /\ c \in CaseId /\ s \in CaseSnapshot /\ Command(r) \in TransitionCommand
       /\ cases[c] # None /\ cases'[c] # None
       /\ TransitionError(s, Command(r)) = "none"
       /\ SnapshotOf(cases'[c]) = NextSnapshot(s, Command(r))
       /\ NextTransition(s, Command(r)).case_id = c
       /\ transitions' = transitions \cup {NextTransition(s, Command(r))}
       /\ \A d \in CaseId \ {c} : cases'[d] = cases[d]

LEMMA CommittedStep ==
    ASSUME IInv, [Next]_vars
    PROVE  \/ \E c \in CaseId : Inserted(c)
           \/ \E r \in Request : Moved(r)
           \/ UNCHANGED <<cases, transitions>>
  <1>1. ASSUME NEW r \in Request, CommitCreate(r)
        PROVE  Inserted(target[r]) /\ target[r] \in CaseId
    <2> DEFINE c == target[r]
    <2>1. c \in CaseId /\ cases[c] = None /\ req[r] \in CreateRequest
      BY <1>1 DEF IInv, Inv, Shape, ShapeAt, InsertLocks, CommitCreate
    <2>2. NewCase(r) \in CaseRow
      BY <2>1 DEF NewCase, CaseRow, CreateRequest, Body, RequestSha256, CaseState
    <2>3. /\ cases'[c] = NewCase(r) /\ transitions' = transitions
          /\ \A d \in CaseId \ {c} : cases'[d] = cases[d]
      BY <1>1, <2>1 DEF IInv, TypeOK, CommitCreate
    <2>4. SnapshotOf(NewCase(r)) = [case_id |-> c, state |-> "new", version |-> 0]
      BY DEF SnapshotOf, NewCase
    <2> QED
      BY <2>1, <2>2, <2>3, <2>4, SpineAssumption DEF Inserted
  <1>2. ASSUME NEW r \in Request, CommitTransition(r), SchemaAccepts(r)
        PROVE  Moved(r)
    <2>1. pc[r] = "written" /\ req[r] \in AskedTransition
      BY <1>2 DEF IInv, Inv, Shape, ShapeAt, CommitTransition
    <2> QED
      BY <1>2, <2>1, CommitEffect, WrittenIsNext DEF Moved
  <1>3. ASSUME NEW r \in Request, CommitTransition(r), ~SchemaAccepts(r)
        PROVE  UNCHANGED <<cases, transitions>>
    BY <1>3 DEF CommitTransition
  <1>4. ASSUME NEW r \in Request,
               \/ Submit(r) \/ InsertCase(r) \/ ReplayCase(r) \/ ReadCase(r)
               \/ ReadTimeline(r) \/ ReadSnapshot(r) \/ UpdateCase(r)
               \/ Respond(r) \/ Abort(r)
        PROVE  UNCHANGED <<cases, transitions>>
    BY <1>4 DEF Submit, BeginCreate, BeginRead, BeginTransition, Accept, Reject,
                InsertCase, ReplayCase, ReadCase, ReadTimeline, ReadSnapshot,
                UpdateCase, Respond, Abort, tables
  <1>5. CASE UNCHANGED vars
    BY <1>5 DEF vars, tables
  <1> QED
    BY <1>1, <1>2, <1>3, <1>4, <1>5 DEF Next, Serve

(* The definitions the instance of CaseLifecycle brings along are those of *)
(* this module.                                                            *)
LEMMA SameDomain ==
    /\ \A s, command :
         /\ Lifecycle!TransitionError(s, command) = TransitionError(s, command)
         /\ Lifecycle!NextSnapshot(s, command) = NextSnapshot(s, command)
         /\ Lifecycle!NextTransition(s, command) = NextTransition(s, command)
    /\ \A H, s : /\ Lifecycle!ReplaysTo(H, s) <=> ReplaysTo(H, s)
                 /\ Lifecycle!ApprovedBy(H, s) <=> ApprovedBy(H, s)
    /\ Lifecycle!CaseState = CaseState
  <1>1. Lifecycle!ALLOWED_TRANSITIONS = ALLOWED_TRANSITIONS
    BY DEF Lifecycle!ALLOWED_TRANSITIONS, ALLOWED_TRANSITIONS
  <1>2. \A command :
          /\ Lifecycle!ValidActor(command) <=> ValidActor(command)
          /\ Lifecycle!ValidConstraints(command) <=> ValidConstraints(command)
    BY DEF Lifecycle!ValidActor, ValidActor,
           Lifecycle!ValidConstraints, ValidConstraints,
           Lifecycle!CONFIRM_ROLES, CONFIRM_ROLES,
           Lifecycle!RESOLVE_ROLES, RESOLVE_ROLES,
           Lifecycle!CASE_WRITE_ROLES, CASE_WRITE_ROLES
  <1>3. \A s, command :
          Lifecycle!TransitionError(s, command) = TransitionError(s, command)
    BY <1>1, <1>2 DEF Lifecycle!TransitionError, TransitionError
  <1>4. \A s, command :
          /\ Lifecycle!NextSnapshot(s, command) = NextSnapshot(s, command)
          /\ Lifecycle!NextTransition(s, command) = NextTransition(s, command)
    BY DEF Lifecycle!NextSnapshot, NextSnapshot,
           Lifecycle!NextTransition, NextTransition
  <1>5. \A H, s : Lifecycle!ReplaysTo(H, s) <=> ReplaysTo(H, s)
    BY DEF Lifecycle!ReplaysTo, ReplaysTo
  <1>6. \A H, s : Lifecycle!ApprovedBy(H, s) <=> ApprovedBy(H, s)
    BY DEF Lifecycle!ApprovedBy, ApprovedBy, Lifecycle!Approval, Approval,
           Lifecycle!ApprovedState, ApprovedState,
           Lifecycle!CONFIRM_ROLES, CONFIRM_ROLES
  <1>7. Lifecycle!CaseState = CaseState
    BY DEF Lifecycle!CaseState, CaseState
  <1> QED
    BY <1>3, <1>4, <1>5, <1>6, <1>7

(* The snapshot of a row is never None.                                    *)
LEMMA ProjectionOf ==
    ASSUME IInv
    PROVE  \A c \in CaseId :
              /\ cases[c] = None <=> Projection[c] = None
              /\ cases[c] # None => /\ Projection[c] = SnapshotOf(cases[c])
                                    /\ Projection[c] \in CaseSnapshot
  <1>1. \A c \in CaseId : cases[c] # None => SnapshotOf(cases[c]) \in CaseSnapshot
    BY CommandType DEF IInv, TypeOK
  <1> QED
    BY <1>1, SpineAssumption DEF Projection

(* The concurrent spine implements the atomic lifecycle: CommitCreate is   *)
(* Create, CommitTransition is Transition, and every other step, aborts    *)
(* and refused updates included, is invisible.                             *)
THEOREM SpineImplementsLifecycle == Spec => ImplementsLifecycle
  <1>1. Init => Lifecycle!Init
    BY DEF Init, Lifecycle!Init, Projection
  <1>2. IInv /\ [Next]_vars => [Lifecycle!Next]_(Lifecycle!vars)
    <2> SUFFICES ASSUME IInv, [Next]_vars PROVE [Lifecycle!Next]_(Lifecycle!vars)
      OBVIOUS
    <2>1. ASSUME NEW c \in CaseId, Inserted(c)
          PROVE  Lifecycle!Create(c)
      <3> DEFINE new == [case_id |-> c, state |-> "new", version |-> 0]
      <3>1. Projection[c] = None
        BY <2>1 DEF Inserted, Projection
      <3>2. Projection' = [Projection EXCEPT ![c] = new]
        <4>1. /\ cases'[c] # None /\ SnapshotOf(cases'[c]) = new
              /\ \A d \in CaseId \ {c} : cases'[d] = cases[d]
          BY <2>1 DEF Inserted
        <4> HIDE DEF new
        <4> QED
          BY <4>1 DEF Projection
      <3> QED
        BY <2>1, <3>1, <3>2 DEF Lifecycle!Create, Inserted
    <2>2. ASSUME NEW r \in Request, Moved(r)
          PROVE  Lifecycle!Next
      <3> DEFINE c == req[r].case_id
                 s == SnapshotOf(cases[c])
                 a == ActorOf(req[r].principal)
                 ev == req[r].evidence
                 to == req[r].to_state
      <3>1. /\ c \in CaseId /\ to \in CaseState /\ ev \in EvidenceInput
            /\ a \in {ActorOf(p) : p \in {q \in ActorId : Roles[q] # {}}}
            /\ req[r].expected_version <= MaxVersion
        BY <2>2 DEF Moved, AskedTransition, TransitionRequest
      <3>2. /\ s.version = req[r].expected_version
            /\ Command(r) = [case_id |-> c, expected_version |-> s.version,
                             to_state |-> to, actor |-> a, evidence |-> ev]
        <4>1. s.version = Command(r).expected_version
          BY <2>2, AcceptedTransition DEF Moved
        <4> QED
          BY <4>1 DEF Command
      <3>3. Projection[c] = s /\ Projection[c] # None
        BY <2>2, <3>1, ProjectionOf DEF Moved
      <3>4. Projection' = [Projection EXCEPT ![c] = NextSnapshot(s, Command(r))]
        BY <2>2 DEF Moved, Projection
      <3>5. /\ TransitionError(s, Command(r)) = "none" /\ s.version <= MaxVersion
            /\ transitions' = transitions \cup {NextTransition(s, Command(r))}
        BY <2>2, <3>1, <3>2 DEF Moved
      <3> HIDE DEF s, c, to, a, ev
      <3>6. Lifecycle!Transition(c, to, a, ev)
        BY <3>2, <3>3, <3>4, <3>5, SameDomain DEF Lifecycle!Transition
      <3> QED
        BY <3>1, <3>6, SameDomain DEF Lifecycle!Next
    <2>3. UNCHANGED <<cases, transitions>> => UNCHANGED Lifecycle!vars
      BY DEF Lifecycle!vars, Projection
    <2> QED
      BY <2>1, <2>2, <2>3, CommittedStep DEF Lifecycle!Next
  <1> QED
    BY <1>1, <1>2, SpineInvariant, PTL DEF Spec, ImplementsLifecycle, Lifecycle!Spec

-----------------------------------------------------------------------------
(* The safety of the lifecycle, restated for the committed rows.           *)

Rows(c) == {t \in transitions : t.case_id = c}

Replays == \A c \in CaseId : IF cases[c] = None THEN Rows(c) = {}
                             ELSE ReplaysTo(Rows(c), SnapshotOf(cases[c]))

Approved == \A c \in CaseId :
               cases[c] # None => ApprovedBy(Rows(c), SnapshotOf(cases[c]))

LEMMA SameHistory ==
    ASSUME IInv
    PROVE  (Replays <=> HistoryReplays) /\ (Approved <=> ApprovalTrail)
  <1>1. \A c \in CaseId : Lifecycle!HistoryOf(c) = Rows(c)
    BY DEF Lifecycle!HistoryOf, Rows
  <1>2. Replays <=> HistoryReplays
    BY <1>1, ProjectionOf, SameDomain
       DEF Replays, HistoryReplays, Lifecycle!HistoryReplays
  <1>3. Approved <=> ApprovalTrail
    BY <1>1, ProjectionOf, SameDomain
       DEF Approved, ApprovalTrail, Lifecycle!ApprovalTrail
  <1> QED
    BY <1>2, <1>3

(* The committed history of every case replays to its projection, and      *)
(* every approved case has its approval, under any interleaving of         *)
(* requests, aborts and lost replies: no update is lost or applied to a    *)
(* version its author did not name.                                        *)
LEMMA ReplayInvariant == Spec => [](Replays /\ Approved)
  <1>1. Init => Replays /\ Approved
    BY DEF Init, Replays, Approved, Rows
  <1>2. IInv /\ Replays /\ Approved /\ [Next]_vars => (Replays /\ Approved)'
    <2> SUFFICES ASSUME IInv, Replays, Approved, [Next]_vars
                 PROVE  (Replays /\ Approved)'
      OBVIOUS
    <2>1. ASSUME NEW c \in CaseId, Inserted(c) PROVE (Replays /\ Approved)'
      <3> DEFINE z == SnapshotOf(cases'[c])
      <3>1. Rows(c)' = {} /\ z.state = "new" /\ z.version = 0 /\ cases'[c] # None
        <4>1. z = [case_id |-> c, state |-> "new", version |-> 0]
          BY <2>1 DEF Inserted
        <4>2. Rows(c) = {} /\ transitions' = transitions /\ cases'[c] # None
          BY <2>1 DEF Inserted, Replays
        <4> QED
          BY <4>1, <4>2 DEF Rows
      <3>2. \A d \in CaseId \ {c} : Rows(d)' = Rows(d) /\ cases'[d] = cases[d]
        BY <2>1 DEF Inserted, Rows
      <3>3. ReplaysTo({}, z) /\ ApprovedBy({}, z)
        BY <3>1 DEF ReplaysTo, ApprovedBy, ApprovedState
      <3> QED
        BY <3>1, <3>2, <3>3 DEF Replays, Approved
    <2>2. ASSUME NEW r \in Request, Moved(r) PROVE (Replays /\ Approved)'
      <3>1. PICK c \in CaseId : c = req[r].case_id
        BY <2>2 DEF Moved
      <3> DEFINE s == SnapshotOf(cases[c])
                 n == NextTransition(s, Command(r))
                 z == SnapshotOf(cases'[c])
      <3>2. /\ c \in CaseId /\ s \in CaseSnapshot /\ cases'[c] # None
            /\ Command(r) \in TransitionCommand
            /\ TransitionError(s, Command(r)) = "none"
            /\ z = NextSnapshot(s, Command(r))
            /\ cases[c] # None /\ n.case_id = c
            /\ transitions' = transitions \cup {n}
        BY <2>2, <3>1 DEF Moved
      <3>3. /\ Rows(c) \in SUBSET CaseStateTransition
            /\ ReplaysTo(Rows(c), s) /\ ApprovedBy(Rows(c), s)
        BY <3>2 DEF Rows, IInv, TypeOK, Replays, Approved
      <3>4. Rows(c)' = Rows(c) \cup {n}
        BY <3>2 DEF Rows
      <3>5. \A d \in CaseId \ {c} : Rows(d)' = Rows(d) /\ cases'[d] = cases[d]
        BY <2>2, <3>1 DEF Moved, Rows
      <3>6. ReplaysTo(Rows(c)', z)
        BY <3>2, <3>3, <3>4, ReplayStep
      <3>7. ApprovedBy(Rows(c)', z)
        BY <3>2, <3>3, <3>4, ApprovalStep
      <3> QED
        BY <3>2, <3>5, <3>6, <3>7 DEF Replays, Approved
    <2>3. UNCHANGED <<cases, transitions>> => (Replays /\ Approved)'
      BY DEF Replays, Approved, Rows
    <2> QED
      BY <2>1, <2>2, <2>3, CommittedStep
  <1> QED
    BY <1>1, <1>2, SpineInvariant, PTL DEF Spec

(* The committed history of every case replays to its projection whatever  *)
(* the interleaving (persist_transition's compare-and-swap).               *)
THEOREM SpineHistoryReplays == Spec => []HistoryReplays
  <1>1. IInv /\ Replays => HistoryReplays
    BY SameHistory
  <1> QED
    BY <1>1, SpineInvariant, ReplayInvariant, PTL

(* No interleaving of requests gets a case confirmed or resolved without a *)
(* human approval in its history (_validate_actor).                        *)
THEOREM SpineApprovalTrail == Spec => []ApprovalTrail
  <1>1. IInv /\ Approved => ApprovalTrail
    BY SameHistory
  <1> QED
    BY <1>1, SpineInvariant, ReplayInvariant, PTL

(* What apply_transition accepts for the current row, the CHECKs of        *)
(* case_transitions, its unique (case_id, version) and the deferred        *)
(* trigger on cases accept as well: no accepted transition is turned into  *)
(* a 503 at its commit.                                                    *)
THEOREM SpineSchemaNeverRefuses == Spec => []SchemaNeverRefuses
  <1>1. IInv /\ Replays => SchemaNeverRefuses
    <2> SUFFICES ASSUME IInv, Replays, NEW r \in Request, pc[r] = "written"
                 PROVE  SchemaAccepts(r)
      BY DEF SchemaNeverRefuses
    <2> DEFINE c == req[r].case_id
               s == SnapshotOf(cases[c])
               command == Command(r)
               t == Written(r)
    <2>1. /\ c \in CaseId /\ cases[c] \in CaseRow /\ cases[c] # None
          /\ s \in CaseSnapshot /\ command \in TransitionCommand
          /\ TransitionError(s, command) = "none"
          /\ t = NextTransition(s, command) /\ t.case_id = c
      BY WrittenIsNext
    <2>2. /\ t.from_state = s.state /\ t.to_state = command.to_state
          /\ t.version = s.version + 1 /\ t.actor = command.actor
          /\ t.evidence = command.evidence
      BY <2>1 DEF NextTransition
    <2>3. s.version \in Nat /\ s.version = cases[c].version /\ s.state = cases[c].state
      BY <2>1 DEF SnapshotOf, CaseSnapshot
    <2>4. /\ <<s.state, command.to_state>> \in ALLOWED_TRANSITIONS
          /\ ValidActor(command) /\ ValidConstraints(command)
      BY <2>1, AcceptedTransition
    <2>5. <<s.state, command.to_state>> \in CheckedEdges
      BY <2>4 DEF ALLOWED_TRANSITIONS, CheckedEdges
    <2>6. command.actor.kind \in {"human", "service"}
      BY <2>1, <2>4 DEF TransitionCommand, Actor, ActorKind, ValidActor
    <2> HIDE DEF t, s, command
    <2>7. TransitionChecks(t)
      BY <2>2, <2>3, <2>4, <2>5, <2>6
         DEF TransitionChecks, ValidActor, ValidConstraints
    <2>8. \A u \in transitions : u.case_id = t.case_id => u.version # t.version
      <3>1. ReplaysTo(Rows(c), s)
        BY <2>1 DEF Replays, s
      <3>2. \A u \in Rows(c) : u.version \in 1..s.version
        BY <3>1 DEF ReplaysTo
      <3> QED
        BY <2>1, <2>2, <2>3, <3>2 DEF Rows
    <2>9. t.to_state # cases[c].state
      BY <2>2, <2>3, <2>4 DEF ALLOWED_TRANSITIONS
    <2>10. ProjectionTrigger(cases[t.case_id], t, NextEvent(t), NextEvent(t))
      BY <2>1, <2>2, <2>3, <2>9 DEF ProjectionTrigger, NextEvent
    <2> QED
      BY <2>7, <2>8, <2>10 DEF SchemaAccepts, t
  <1> QED
    BY <1>1, SpineInvariant, ReplayInvariant, PTL

(* An Idempotency-Key names at most one case, committed or about to be,    *)
(* for any number of concurrent creates and retries.                       *)
THEOREM SpineOneCasePerKey == Spec => []OneCasePerKey
  <1>1. IInv => OneCasePerKey
    BY DEF IInv, Inv, InsertLocks, KeysDistinct, KeyTaken, OneCasePerKey
  <1> QED
    BY <1>1, SpineInvariant, PTL
-----------------------------------------------------------------------------
(* What replies say: the record a commit leaves, and the answers.          *)

(* Committed rows stay, keep the columns of their creation, and their      *)
(* versions only grow; the history is append-only.                         *)
Grows ==
    /\ transitions \subseteq transitions'
    /\ \A c \in CaseId : cases[c] # None =>
          /\ cases'[c] # None /\ cases[c].version <= cases'[c].version
          /\ cases'[c].key = cases[c].key /\ cases'[c].asset = cases[c].asset
          /\ cases'[c].title = cases[c].title
          /\ cases'[c].sha256 = cases[c].sha256
          /\ InputRows(c)' = InputRows(c)

(* A step of request r leaves every other request alone.                   *)
Alone(r) ==
    \A q \in Request \ {r} :
        /\ pc'[q] = pc[q] /\ req'[q] = req[q] /\ target'[q] = target[q]
        /\ row'[q] = row[q] /\ timeline'[q] = timeline[q] /\ status'[q] = status[q]

(* A case and the fingerprint of the request that created it agree.        *)
Fingerprints ==
    \A c \in CaseId :
        IF cases[c] = None THEN InputRows(c) = {}
        ELSE /\ cases[c].sha256[1] = cases[c].asset
             /\ cases[c].sha256[2] = cases[c].title
             /\ InputRows(c) = InputsOf(c, cases[c].sha256[3])

(* A create request past the gates may see the asset it names, and the     *)
(* conflict that sends it to the replay query is with a committed row.     *)
AskedAt(r) ==
    /\ pc[r] \in {"insert", "replay", "inserted"} =>
          InScope(req[r].body.asset, req[r].principal)
    /\ pc[r] = "replay" => KeyTaken(req[r].key)

(* Between the two SELECTs of get_detail the case may move on, never back. *)
DetailAt(r) ==
    pc[r] = "timeline" =>
        LET c == cases[req[r].case_id] IN
        row[r] # None /\ c # None /\ row[r].version <= c.version

(* The properties of replies, request by request.                          *)
CreateAnsweredAt(r) ==
    pc[r] = "reply" /\ req[r].op = "create" =>
      /\ status[r] # 500
      /\ status[r] \in {200, 201} =>
           /\ target[r] # None /\ cases[target[r]] # None
           /\ cases[target[r]].key = req[r].key
           /\ Says(target[r], req[r].body)
           /\ InScope(cases[target[r]].asset, req[r].principal)

DurableAt(r) ==
    (pc[r] = "reply" /\ req[r].op = "transition" /\ status[r] = 200) =>
        \E t \in transitions :
            /\ t.case_id = req[r].case_id
            /\ t.version = req[r].expected_version + 1
            /\ t.to_state = req[r].to_state
            /\ t.actor.actor_id = req[r].principal

CoversAt(r) ==
    (pc[r] = "reply" /\ req[r].op = "read" /\ status[r] = 200) =>
        \A v \in 0..row[r].version :
            \E e \in timeline[r] : e.aggregate_version = v

AnswerAt(r) == /\ AskedAt(r) /\ DetailAt(r)
               /\ CreateAnsweredAt(r) /\ DurableAt(r) /\ CoversAt(r)

Answers == Fingerprints /\ \A r \in Request : AnswerAt(r)

LEMMA TablesStep ==
    ASSUME NEW r \in Request, Submit(r) \/ Serve(r) \/ Abort(r)
    PROVE  \/ CommitCreate(r)
           \/ CommitTransition(r) /\ SchemaAccepts(r)
           \/ UNCHANGED tables
  <1>1. CASE CommitTransition(r) /\ ~SchemaAccepts(r)
    BY <1>1 DEF CommitTransition, tables
  <1>2. CASE \/ Submit(r) \/ InsertCase(r) \/ ReplayCase(r) \/ ReadCase(r)
             \/ ReadTimeline(r) \/ ReadSnapshot(r) \/ UpdateCase(r)
             \/ Respond(r) \/ Abort(r)
    BY <1>2 DEF Submit, BeginCreate, BeginRead, BeginTransition, Accept, Reject,
                InsertCase, ReplayCase, ReadCase, ReadTimeline, ReadSnapshot,
                UpdateCase, Respond, Abort
  <1> QED
    BY <1>1, <1>2 DEF Serve

LEMMA AloneStep ==
    ASSUME TypeOK, NEW r \in Request, Submit(r) \/ Serve(r) \/ Abort(r)
    PROVE  Alone(r)
  <1> USE DEF Alone, TypeOK, Reply, Goto, local
  <1>1. CASE Submit(r)
    BY <1>1 DEF Submit, BeginCreate, BeginRead, BeginTransition, Accept, Reject
  <1>2. CASE InsertCase(r)
    BY <1>2 DEF InsertCase
  <1>3. CASE ReplayCase(r)
    BY <1>3 DEF ReplayCase
  <1>4. CASE CommitCreate(r)
    BY <1>4 DEF CommitCreate
  <1>5. CASE ReadCase(r)
    BY <1>5 DEF ReadCase
  <1>6. CASE ReadTimeline(r)
    BY <1>6 DEF ReadTimeline
  <1>7. CASE ReadSnapshot(r)
    BY <1>7 DEF ReadSnapshot
  <1>8. CASE UpdateCase(r)
    BY <1>8 DEF UpdateCase
  <1>9. CASE CommitTransition(r)
    BY <1>9 DEF CommitTransition
  <1>10. CASE Respond(r) \/ Abort(r)
    BY <1>10 DEF Respond, Abort
  <1> QED
    BY <1>1, <1>2, <1>3, <1>4, <1>5, <1>6, <1>7, <1>8, <1>9, <1>10 DEF Serve

(* What the commit of a create request does.                               *)
LEMMA CreateEffect ==
    ASSUME IInv, NEW r \in Request, CommitCreate(r)
    PROVE  LET c == target[r]
           IN /\ pc[r] = "inserted" /\ req[r] \in CreateRequest
              /\ c \in CaseId /\ cases[c] = None
              /\ NewCase(r) \in CaseRow /\ NewCase(r) # None
              /\ cases'[c] = NewCase(r) /\ transitions' = transitions
              /\ \A d \in CaseId \ {c} : cases'[d] = cases[d]
              /\ pc'[r] = "reply" /\ req' = req /\ target' = target
  <1> DEFINE c == target[r]
  <1>1. /\ pc[r] = "inserted" /\ c \in CaseId /\ cases[c] = None
        /\ req[r] \in CreateRequest
    BY DEF IInv, Inv, Shape, ShapeAt, InsertLocks, CommitCreate
  <1>2. NewCase(r) \in CaseRow
    BY <1>1 DEF NewCase, CaseRow, CreateRequest, Body, RequestSha256, CaseState
  <1>3. /\ cases'[c] = NewCase(r) /\ transitions' = transitions
        /\ \A d \in CaseId \ {c} : cases'[d] = cases[d]
        /\ pc'[r] = "reply" /\ req' = req /\ target' = target
    BY <1>1 DEF IInv, TypeOK, CommitCreate, Reply, Goto
  <1> QED
    BY <1>1, <1>2, <1>3, SpineAssumption

(* No step takes back what was committed.                                  *)
LEMMA GrowthStep ==
    ASSUME IInv, NEW r \in Request, Submit(r) \/ Serve(r) \/ Abort(r)
    PROVE  Grows
  <1>0. \A c \in CaseId : cases[c] # None => cases[c].version \in Nat
    BY DEF IInv, TypeOK, CaseRow
  <1>1. CASE CommitCreate(r)
    <2> DEFINE c == target[r]
    <2>1. /\ cases[c] = None /\ transitions' = transitions
          /\ \A d \in CaseId \ {c} : cases'[d] = cases[d]
      BY <1>1, CreateEffect
    <2>2. inputs' = inputs \cup InputsOf(c, req[r].body.input)
      BY <1>1 DEF CommitCreate
    <2>3. \A d \in CaseId \ {c} : InputRows(d)' = InputRows(d)
      BY <2>2 DEF InputRows, InputsOf
    <2> HIDE DEF c
    <2> QED
      BY <1>0, <2>1, <2>3 DEF Grows
  <1>2. CASE CommitTransition(r) /\ SchemaAccepts(r)
    <2> DEFINE c == req[r].case_id
    <2>1. /\ cases'[c] # None /\ cases'[c].version = cases[c].version + 1
          /\ cases'[c].key = cases[c].key /\ cases'[c].asset = cases[c].asset
          /\ cases'[c].title = cases[c].title
          /\ cases'[c].sha256 = cases[c].sha256
          /\ \A d \in CaseId \ {c} : cases'[d] = cases[d]
          /\ transitions \subseteq transitions'
      BY <1>2, CommitEffect
    <2>2. inputs' = inputs
      BY <1>2 DEF CommitTransition
    <2> HIDE DEF c
    <2> QED
      BY <1>0, <2>1, <2>2 DEF Grows, InputRows
  <1>3. CASE UNCHANGED tables
    BY <1>0, <1>3 DEF Grows, tables, InputRows
  <1> QED
    BY <1>1, <1>2, <1>3, TablesStep

(* Every commit leaves its whole record, for any number of concurrent      *)
(* requests, aborts and lost replies: events, outbox rows, audit facts and *)
(* inputs are exactly those of the committed cases and transitions         *)
(* (create_case, persist_transition and their savepoint).                  *)
THEOREM SpineRecordComplete == Spec => []RecordComplete
  <1> DEFINE known == {c \in CaseId : cases[c] # None}
  <1>1. Init => RecordComplete
    <2> SUFFICES ASSUME Init PROVE RecordComplete
      OBVIOUS
    <2>1. known = {}
      BY DEF Init
    <2> QED
      BY <2>1 DEF Init, RecordComplete
  <1>2. IInv /\ RecordComplete /\ [Next]_vars => RecordComplete'
    <2> SUFFICES ASSUME IInv, RecordComplete, [Next]_vars PROVE RecordComplete'
      OBVIOUS
    <2>0. /\ events = {CreationEvent(d) : d \in known}
                        \cup {NextEvent(t) : t \in transitions}
          /\ outbox = events
          /\ audit = {CreationFact(d, cases[d].created_by) : d \in known}
                       \cup {TransitionFact(t) : t \in transitions}
          /\ inputs = UNION {InputsOf(d, cases[d].sha256[3]) : d \in known}
      BY DEF RecordComplete
    <2>1. ASSUME NEW r \in Request, CommitCreate(r) PROVE RecordComplete'
      <3> DEFINE c == target[r]
      <3>1. /\ c \in CaseId /\ cases[c] = None
            /\ NewCase(r) # None /\ cases'[c] = NewCase(r)
            /\ transitions' = transitions
            /\ \A d \in CaseId \ {c} : cases'[d] = cases[d]
        BY <2>1, CreateEffect
      <3>2. /\ events' = events \cup {CreationEvent(c)}
            /\ outbox' = outbox \cup {CreationEvent(c)}
            /\ audit' = audit \cup {CreationFact(c, req[r].principal)}
            /\ inputs' = inputs \cup InputsOf(c, req[r].body.input)
        BY <2>1 DEF CommitCreate
      <3>3. known' = known \cup {c} /\ c \notin known
        BY <3>1
      <3>4. /\ cases'[c].sha256[3] = req[r].body.input
            /\ cases'[c].created_by = req[r].principal
        BY <3>1 DEF NewCase, RequestSha256
      <3>5. \A d \in known : cases'[d] = cases[d]
        BY <3>1, <3>3
      <3> HIDE DEF known, c
      <3>6. {CreationEvent(d) : d \in known'}
               = {CreationEvent(d) : d \in known} \cup {CreationEvent(c)}
        BY <3>3
      <3>7. {CreationFact(d, cases'[d].created_by) : d \in known'}
               = {CreationFact(d, cases[d].created_by) : d \in known}
                   \cup {CreationFact(c, req[r].principal)}
        BY <3>3, <3>4, <3>5
      <3>8. UNION {InputsOf(d, cases'[d].sha256[3]) : d \in known'}
               = (UNION {InputsOf(d, cases[d].sha256[3]) : d \in known})
                   \cup InputsOf(c, req[r].body.input)
        <4>1. \A d \in known : InputsOf(d, cases'[d].sha256[3])
                                 = InputsOf(d, cases[d].sha256[3])
          BY <3>5
        <4>2. InputsOf(c, cases'[c].sha256[3]) = InputsOf(c, req[r].body.input)
          BY <3>4
        <4>3. ASSUME NEW x
              PROVE  x \in UNION {InputsOf(d, cases'[d].sha256[3]) : d \in known'}
                       <=> \/ \E d \in known : x \in InputsOf(d, cases[d].sha256[3])
                           \/ x \in InputsOf(c, req[r].body.input)
          BY <3>3, <4>1, <4>2
        <4> QED
          BY <4>3
      <3>9. /\ events' = {CreationEvent(d) : d \in known'}
                           \cup {NextEvent(t) : t \in transitions'}
            /\ outbox' = events'
        BY <2>0, <3>1, <3>2, <3>6
      <3>10. audit' = {CreationFact(d, cases'[d].created_by) : d \in known'}
                        \cup {TransitionFact(t) : t \in transitions'}
        BY <2>0, <3>1, <3>2, <3>7
      <3>11. inputs' = UNION {InputsOf(d, cases'[d].sha256[3]) : d \in known'}
        BY <2>0, <3>2, <3>8
      <3> QED
        BY <3>9, <3>10, <3>11 DEF RecordComplete, known
    <2>2. ASSUME NEW r \in Request, CommitTransition(r), SchemaAccepts(r)
          PROVE  RecordComplete'
      <3> DEFINE c == req[r].case_id
                 t == Written(r)
      <3>1. /\ c \in CaseId /\ cases[c] # None
            /\ cases'[c] # None /\ cases'[c].sha256 = cases[c].sha256
            /\ cases'[c].created_by = cases[c].created_by
            /\ transitions' = transitions \cup {t}
            /\ \A d \in CaseId \ {c} : cases'[d] = cases[d]
        BY <2>2, CommitEffect, WrittenIsNext
      <3>2. /\ events' = events \cup {NextEvent(t)}
            /\ outbox' = outbox \cup {NextEvent(t)}
            /\ audit' = audit \cup {TransitionFact(t)} /\ inputs' = inputs
        BY <2>2 DEF CommitTransition
      <3>3. known' = known
        BY <3>1
      <3>4. \A d \in known : /\ cases'[d].sha256 = cases[d].sha256
                             /\ cases'[d].created_by = cases[d].created_by
        BY <3>1
      <3> HIDE DEF known, c, t
      <3>5. {NextEvent(u) : u \in transitions'}
               = {NextEvent(u) : u \in transitions} \cup {NextEvent(t)}
        BY <3>1
      <3>6. {TransitionFact(u) : u \in transitions'}
               = {TransitionFact(u) : u \in transitions} \cup {TransitionFact(t)}
        BY <3>1
      <3>7. {CreationFact(d, cases'[d].created_by) : d \in known'}
               = {CreationFact(d, cases[d].created_by) : d \in known}
        BY <3>3, <3>4
      <3>8. UNION {InputsOf(d, cases'[d].sha256[3]) : d \in known'}
               = UNION {InputsOf(d, cases[d].sha256[3]) : d \in known}
        BY <3>3, <3>4
      <3>9. /\ events' = {CreationEvent(d) : d \in known'}
                           \cup {NextEvent(u) : u \in transitions'}
            /\ outbox' = events'
            /\ audit' = {CreationFact(d, cases'[d].created_by) : d \in known'}
                          \cup {TransitionFact(u) : u \in transitions'}
            /\ inputs' = UNION {InputsOf(d, cases'[d].sha256[3]) : d \in known'}
        BY <2>0, <3>2, <3>3, <3>5, <3>6, <3>7, <3>8
      <3> QED
        BY <3>9 DEF RecordComplete, known
    <2>3. CASE UNCHANGED tables
      BY <2>3 DEF RecordComplete, tables
    <2>4. CASE UNCHANGED vars
      BY <2>3, <2>4 DEF vars
    <2> QED
      BY <2>1, <2>2, <2>3, <2>4, TablesStep DEF Next
  <1> QED
    BY <1>1, <1>2, SpineInvariant, PTL DEF Spec

(* A step of another request disturbs nothing that a request relies on or  *)
(* has answered.                                                           *)
LEMMA OthersAnswers ==
    ASSUME IInv, TypeOK', NEW r \in Request, NEW q \in Request \ {r},
           AnswerAt(q), Alone(r), Grows
    PROVE  AnswerAt(q)'
  <1>1. /\ pc'[q] = pc[q] /\ req'[q] = req[q] /\ target'[q] = target[q]
        /\ row'[q] = row[q] /\ timeline'[q] = timeline[q] /\ status'[q] = status[q]
    BY DEF Alone
  <1>2. AskedAt(q)'
    BY <1>1 DEF AnswerAt, AskedAt, KeyTaken, Grows
  <1>3. DetailAt(q)'
    <2> SUFFICES ASSUME pc[q] = "timeline" PROVE DetailAt(q)'
      BY <1>1 DEF DetailAt
    <2> DEFINE c == req[q].case_id
    <2>1. c \in CaseId
      BY DEF IInv, Inv, Shape, ShapeAt, ReadRequest
    <2>2. row[q] # None /\ cases[c] # None /\ row[q].version <= cases[c].version
      BY DEF AnswerAt, DetailAt
    <2>3. cases'[c] # None /\ cases[c].version <= cases'[c].version
      BY <2>1, <2>2 DEF Grows
    <2>4. /\ row[q].version \in Nat /\ cases[c].version \in Nat
          /\ cases'[c].version \in Nat
      <3>1. row[q] \in CaseRow /\ cases[c] \in CaseRow /\ cases'[c] \in CaseRow
        BY <2>1, <2>2, <2>3 DEF IInv, TypeOK
      <3> QED
        BY <3>1 DEF CaseRow
    <2> QED
      BY <1>1, <2>1, <2>2, <2>3, <2>4 DEF DetailAt
  <1>4. CreateAnsweredAt(q)'
    <2>1. target[q] # None => target[q] \in CaseId
      BY DEF IInv, TypeOK
    <2> QED
      BY <1>1, <2>1 DEF AnswerAt, CreateAnsweredAt, Grows, Says
  <1>5. DurableAt(q)'
    BY <1>1 DEF AnswerAt, DurableAt, Grows
  <1>6. CoversAt(q)'
    BY <1>1 DEF AnswerAt, CoversAt
  <1> QED
    BY <1>2, <1>3, <1>4, <1>5, <1>6 DEF AnswerAt

(* Places where nothing has been promised, and replies that say nothing of *)
(* the case.                                                               *)
LEMMA NoAnswer ==
    ASSUME NEW r \in Request,
           \/ pc'[r] \in {"idle", "detail", "snapshot", "update", "written"}
           \/ pc'[r] = "reply" /\ status'[r] \in {403, 404, 409, 503}
    PROVE  AnswerAt(r)'
  BY DEF AnswerAt, AskedAt, DetailAt, CreateAnsweredAt, DurableAt, CoversAt

(* The steps of a create request keep its answer true.                     *)
LEMMA CreateAnswers ==
    ASSUME IInv, Fingerprints, NEW r \in Request, AnswerAt(r),
           InsertCase(r) \/ ReplayCase(r) \/ CommitCreate(r)
    PROVE  AnswerAt(r)'
  <1>1. /\ pc[r] \in {"insert", "replay", "inserted"}
        /\ req[r] \in CreateRequest /\ req[r].op = "create" /\ req'[r] = req[r]
        /\ InScope(req[r].body.asset, req[r].principal)
    <2>1. pc[r] \in {"insert", "replay", "inserted"} /\ req'[r] = req[r]
      BY DEF InsertCase, ReplayCase, CommitCreate
    <2>2. req[r] \in CreateRequest
      BY <2>1 DEF IInv, Inv, Shape, ShapeAt
    <2> QED
      BY <2>1, <2>2 DEF CreateRequest, AnswerAt, AskedAt
  <1>2. CASE InsertCase(r)
    <2>1. /\ pc'[r] \in {"inserted", "replay"} /\ cases' = cases
          /\ pc'[r] = "replay" => KeyTaken(req[r].key)
      BY <1>2 DEF InsertCase, Goto, IInv, TypeOK, tables
    <2> QED
      BY <1>1, <2>1 DEF AnswerAt, AskedAt, DetailAt, CreateAnsweredAt, DurableAt,
                        CoversAt, KeyTaken
  <1>3. CASE ReplayCase(r)
    <2>1. KeyTaken(req[r].key) /\ cases' = cases /\ inputs' = inputs
      BY <1>3 DEF ReplayCase, AnswerAt, AskedAt, tables
    <2>2. PICK c \in CaseId :
            /\ cases[c] # None /\ cases[c].key = req[r].key
            /\ IF cases[c].sha256 = RequestSha256(req[r].body)
               THEN /\ Reply(r, 200)
                    /\ target' = [target EXCEPT ![r] = c]
               ELSE Reply(r, 409)
      BY <1>3, <2>1 DEF ReplayCase
    <2>3. CASE cases[c].sha256 # RequestSha256(req[r].body)
      <3>1. pc'[r] = "reply" /\ status'[r] = 409
        BY <2>2, <2>3 DEF Reply, Goto, IInv, TypeOK
      <3> QED
        BY <3>1, NoAnswer
    <2>4. CASE cases[c].sha256 = RequestSha256(req[r].body)
      <3>1. pc'[r] = "reply" /\ status'[r] = 200 /\ target'[r] = c
        BY <2>2, <2>4 DEF Reply, Goto, IInv, TypeOK
      <3>2. cases[c].asset = req[r].body.asset /\ Says(c, req[r].body)'
        BY <1>1, <2>1, <2>2, <2>4 DEF Fingerprints, RequestSha256, Says, InputRows
      <3>3. c # None
        BY SpineAssumption
      <3> QED
        BY <1>1, <2>1, <2>2, <3>1, <3>2, <3>3
           DEF AnswerAt, AskedAt, DetailAt, CreateAnsweredAt, DurableAt, CoversAt
    <2> QED
      BY <2>3, <2>4
  <1>4. CASE CommitCreate(r)
    <2>1. pc'[r] = "reply" /\ status'[r] \in {201, 503}
      BY <1>4 DEF CommitCreate, Reply, Goto, IInv, TypeOK
    <2>2. /\ target'[r] = target[r] /\ target[r] \in CaseId /\ NewCase(r) # None
          /\ cases'[target[r]] = NewCase(r)
      BY <1>4, CreateEffect
    <2>3. /\ NewCase(r).key = req[r].key /\ NewCase(r).asset = req[r].body.asset
          /\ NewCase(r).title = req[r].body.title
      BY DEF NewCase
    <2>4. target[r] # None
      BY <2>2, SpineAssumption
    <2>5. InputRows(target[r])' = InputsOf(target[r], req[r].body.input)
      <3>1. InputRows(target[r]) = {}
        BY <1>4, CreateEffect DEF Fingerprints
      <3>2. inputs' = inputs \cup InputsOf(target[r], req[r].body.input)
        BY <1>4 DEF CommitCreate
      <3> QED
        BY <2>2, <3>1, <3>2 DEF InputRows, InputsOf
    <2>6. Says(target[r], req[r].body)'
      BY <1>1, <2>2, <2>3, <2>5 DEF Says
    <2> QED
      BY <1>1, <2>1, <2>2, <2>3, <2>4, <2>6
         DEF AnswerAt, AskedAt, DetailAt, CreateAnsweredAt, DurableAt, CoversAt
  <1> QED
    BY <1>2, <1>3, <1>4

(* The events of a committed case cover every version up to its own.       *)
LEMMA EventsCover ==
    ASSUME IInv, Replays, RecordComplete, NEW c \in CaseId, cases[c] # None
    PROVE  \A v \in 0..cases[c].version :
              \E e \in events : e.case_id = c /\ e.aggregate_version = v
  <1> SUFFICES ASSUME NEW v \in 0..cases[c].version
               PROVE  \E e \in events : e.case_id = c /\ e.aggregate_version = v
    OBVIOUS
  <1>1. cases[c].version \in Nat
    BY DEF IInv, TypeOK, CaseRow
  <1>2. CASE v = 0
    <2>1. CreationEvent(c) \in events
      BY DEF RecordComplete
    <2>2. CreationEvent(c).case_id = c /\ CreationEvent(c).aggregate_version = 0
      BY DEF CreationEvent
    <2> QED
      BY <1>2, <2>1, <2>2
  <1>3. CASE v # 0
    <2>1. v \in 1..SnapshotOf(cases[c]).version
      BY <1>1, <1>3 DEF SnapshotOf
    <2>2. PICK t \in Rows(c) : t.version = v
      BY <2>1 DEF Replays, ReplaysTo
    <2>3. t \in transitions /\ t.case_id = c
      BY DEF Rows
    <2>4. NextEvent(t) \in events
      BY <2>3 DEF RecordComplete
    <2>5. NextEvent(t).case_id = c /\ NextEvent(t).aggregate_version = v
      BY <2>2, <2>3 DEF NextEvent
    <2> QED
      BY <2>4, <2>5
  <1> QED
    BY <1>2, <1>3

(* So do the steps of a read request.                                      *)
LEMMA ReadAnswers ==
    ASSUME IInv, Replays, RecordComplete, NEW r \in Request, AnswerAt(r),
           ReadCase(r) \/ ReadTimeline(r)
    PROVE  AnswerAt(r)'
  <1> DEFINE c == req[r].case_id
  <1>1. CASE ReadCase(r)
    <2>1. \/ pc'[r] = "reply" /\ status'[r] = 404
          \/ pc'[r] = "snapshot"
          \/ /\ pc'[r] = "timeline" /\ cases[c] # None
             /\ row'[r] = cases[c] /\ cases' = cases /\ req' = req
      BY <1>1 DEF ReadCase, Reply, Goto, IInv, TypeOK, tables
    <2>2. c \in CaseId
      BY <1>1 DEF ReadCase, IInv, Inv, Shape, ShapeAt, AskedTransition,
                  TransitionRequest, ReadRequest
    <2>3. cases[c] # None => cases[c].version \in Nat
      BY <2>2 DEF IInv, TypeOK, CaseRow
    <2>4. CASE pc'[r] = "timeline"
      BY <2>1, <2>3, <2>4
         DEF AnswerAt, AskedAt, DetailAt, CreateAnsweredAt, DurableAt, CoversAt
    <2> QED
      BY <2>1, <2>4, NoAnswer
  <1>2. CASE ReadTimeline(r)
    <2>1. pc[r] = "timeline" /\ req[r] \in ReadRequest /\ c \in CaseId
      BY <1>2 DEF ReadTimeline, IInv, Inv, Shape, ShapeAt, ReadRequest
    <2>2. /\ pc'[r] = "reply" /\ req'[r] = req[r] /\ row'[r] = row[r]
          /\ timeline'[r] = {e \in events : e.case_id = c}
      BY <1>2 DEF ReadTimeline, Reply, Goto, IInv, TypeOK
    <2>3. row[r] # None /\ cases[c] # None /\ row[r].version <= cases[c].version
      BY <2>1 DEF AnswerAt, DetailAt
    <2>4. row[r].version \in Nat /\ cases[c].version \in Nat
      BY <2>1, <2>3 DEF IInv, TypeOK, CaseRow
    <2>5. \A v \in 0..row[r].version : v \in 0..cases[c].version
      BY <2>3, <2>4
    <2>6. \A v \in 0..row[r].version :
             \E e \in events : e.case_id = c /\ e.aggregate_version = v
      BY <2>1, <2>3, <2>5, EventsCover
    <2>7. req[r].op = "read"
      BY <2>1 DEF ReadRequest
    <2> QED
      BY <2>2, <2>6, <2>7
         DEF AnswerAt, AskedAt, DetailAt, CreateAnsweredAt, DurableAt, CoversAt
  <1> QED
    BY <1>1, <1>2

(* And those of a transition request.                                      *)
LEMMA TransitionAnswers ==
    ASSUME IInv, NEW r \in Request,
           ReadSnapshot(r) \/ UpdateCase(r) \/ CommitTransition(r)
    PROVE  AnswerAt(r)'
  <1>1. /\ pc[r] \in {"snapshot", "update", "written"} /\ req'[r] = req[r]
        /\ req[r] \in AskedTransition /\ req[r].op = "transition"
    <2>1. pc[r] \in {"snapshot", "update", "written"} /\ req'[r] = req[r]
      BY DEF ReadSnapshot, UpdateCase, CommitTransition
    <2>2. req[r] \in AskedTransition
      BY <2>1 DEF IInv, Inv, Shape, ShapeAt
    <2> QED
      BY <2>1, <2>2 DEF AskedTransition, TransitionRequest
  <1>2. ASSUME pc'[r] = "reply", status'[r] # 200 PROVE AnswerAt(r)'
    BY <1>1, <1>2
       DEF AnswerAt, AskedAt, DetailAt, CreateAnsweredAt, DurableAt, CoversAt
  <1>3. CASE ReadSnapshot(r)
    <2>1. \A error : StatusOf(error) # 200
      BY DEF StatusOf
    <2>2. \/ pc'[r] = "update"
          \/ pc'[r] = "reply" /\ status'[r] # 200
      BY <1>3, <2>1 DEF ReadSnapshot, Reply, Goto, IInv, TypeOK
    <2> QED
      BY <1>2, <2>2, NoAnswer
  <1>4. CASE UpdateCase(r)
    <2>1. \/ pc'[r] = "written"
          \/ pc'[r] = "reply" /\ status'[r] # 200
      BY <1>4 DEF UpdateCase, Reply, Goto, IInv, TypeOK
    <2> QED
      BY <1>2, <2>1, NoAnswer
  <1>5. CASE CommitTransition(r)
    <2>1. pc'[r] = "reply" /\ (status'[r] # 200 \/ SchemaAccepts(r))
      BY <1>5 DEF CommitTransition, Reply, Goto, IInv, TypeOK
    <2>2. CASE SchemaAccepts(r)
      <3> DEFINE c == req[r].case_id
                 s == SnapshotOf(cases[c])
                 t == Written(r)
      <3>1. /\ t = NextTransition(s, Command(r)) /\ t.case_id = c
            /\ TransitionError(s, Command(r)) = "none"
            /\ transitions' = transitions \cup {t}
        BY <1>5, <2>2, CommitEffect, WrittenIsNext
      <3>2. s.version = Command(r).expected_version
        BY <3>1, AcceptedTransition
      <3>3. /\ t.version = req[r].expected_version + 1
            /\ t.to_state = req[r].to_state
            /\ t.actor.actor_id = req[r].principal
        BY <3>1, <3>2 DEF NextTransition, Command, ActorOf
      <3> HIDE DEF t
      <3> QED
        BY <1>1, <2>1, <3>1, <3>3
           DEF AnswerAt, AskedAt, DetailAt, CreateAnsweredAt, DurableAt, CoversAt
    <2> QED
      BY <1>2, <2>1, <2>2
  <1> QED
    BY <1>3, <1>4, <1>5

(* The arrival of a request and its end.                                   *)
LEMMA BoundaryAnswers ==
    ASSUME IInv, NEW r \in Request, Submit(r) \/ Abort(r) \/ Respond(r)
    PROVE  AnswerAt(r)'
  <1>1. CASE Abort(r) \/ Respond(r)
    <2>1. \/ pc'[r] = "idle"
          \/ pc'[r] = "reply" /\ status'[r] = 503
      BY <1>1 DEF Abort, Respond, Reply, Goto, IInv, TypeOK
    <2> QED
      BY <2>1, NoAnswer
  <1>2. ASSUME NEW request, Reject(r, request, 403) PROVE AnswerAt(r)'
    <2>1. pc'[r] = "reply" /\ status'[r] = 403
      BY <1>2 DEF Reject, Reply, Goto, IInv, TypeOK
    <2> QED
      BY <2>1, NoAnswer
  <1>3. ASSUME NEW request, Accept(r, request, "detail") PROVE AnswerAt(r)'
    <2>1. pc'[r] = "detail"
      BY <1>3 DEF Accept, Goto, IInv, TypeOK
    <2> QED
      BY <2>1, NoAnswer
  <1>4. ASSUME NEW p \in ActorId, NEW k \in Key, NEW body \in Body,
               BeginCreate(r, p, k, body)
        PROVE  AnswerAt(r)'
    <2> DEFINE request == [op |-> "create", principal |-> p, key |-> k,
                           body |-> body]
    <2>1. CASE Reject(r, request, 403)
      BY <1>2, <2>1
    <2>2. CASE Accept(r, request, "insert") /\ InScope(body.asset, p)
      <3>1. pc'[r] = "insert" /\ req'[r] = request
        BY <2>2 DEF Accept, Goto, IInv, TypeOK
      <3>2. request.body.asset = body.asset /\ request.principal = p
        OBVIOUS
      <3> HIDE DEF request
      <3> QED
        BY <2>2, <3>1, <3>2
           DEF AnswerAt, AskedAt, DetailAt, CreateAnsweredAt, DurableAt, CoversAt
    <2> QED
      BY <1>4, <2>1, <2>2 DEF BeginCreate
  <1>5. ASSUME NEW p \in ActorId, NEW c \in CaseId,
               \/ BeginRead(r, p, c)
               \/ \E v \in 0..MaxVersion, to \in StateInput, ev \in EvidenceInput :
                      BeginTransition(r, p, c, v, to, ev)
        PROVE  AnswerAt(r)'
    BY <1>2, <1>3, <1>5 DEF BeginRead, BeginTransition
  <1> QED
    BY <1>1, <1>4, <1>5, SpineAssumption DEF Submit

(* Committed cases say what the request that created them said.            *)
LEMMA FingerprintStep ==
    ASSUME IInv, Fingerprints, NEW r \in Request, Submit(r) \/ Serve(r) \/ Abort(r)
    PROVE  Fingerprints'
  <1>1. CASE CommitCreate(r)
    <2>0. PICK c \in CaseId : c = target[r]
      BY <1>1, CreateEffect
    <2>1. /\ cases[c] = None /\ cases'[c] = NewCase(r) /\ NewCase(r) # None
          /\ \A d \in CaseId \ {c} : cases'[d] = cases[d]
      BY <1>1, <2>0, CreateEffect
    <2>2. /\ NewCase(r).sha256[1] = NewCase(r).asset
          /\ NewCase(r).sha256[2] = NewCase(r).title
          /\ NewCase(r).sha256[3] = req[r].body.input
      BY DEF NewCase, RequestSha256
    <2>3. inputs' = inputs \cup InputsOf(c, req[r].body.input)
      BY <1>1, <2>0 DEF CommitCreate
    <2>4. \A d \in CaseId \ {c} : InputRows(d)' = InputRows(d)
      BY <2>3 DEF InputRows, InputsOf
    <2>5. InputRows(c)' = InputsOf(c, req[r].body.input)
      BY <2>1, <2>3 DEF Fingerprints, InputRows, InputsOf
    <2> QED
      BY <2>1, <2>2, <2>4, <2>5 DEF Fingerprints
  <1>2. CASE CommitTransition(r) /\ SchemaAccepts(r)
    <2> DEFINE c == req[r].case_id
    <2>1. /\ c \in CaseId /\ cases[c] # None /\ cases'[c] # None
          /\ cases'[c].sha256 = cases[c].sha256 /\ cases'[c].asset = cases[c].asset
          /\ cases'[c].title = cases[c].title
          /\ \A d \in CaseId \ {c} : cases'[d] = cases[d]
      BY <1>2, CommitEffect, WrittenIsNext
    <2>2. inputs' = inputs
      BY <1>2 DEF CommitTransition
    <2> HIDE DEF c
    <2> QED
      BY <2>1, <2>2 DEF Fingerprints, InputRows
  <1>3. CASE UNCHANGED tables
    BY <1>3 DEF Fingerprints, tables, InputRows
  <1> QED
    BY <1>1, <1>2, <1>3, TablesStep

(* What the API has answered, and what an answer to come rests on, stays   *)
(* true whatever other requests do.                                        *)
THEOREM SpineAnswers == Spec => []Answers
  <1>1. Init => Answers
    BY DEF Init, Answers, Fingerprints, InputRows, AnswerAt, AskedAt, DetailAt,
           CreateAnsweredAt, DurableAt, CoversAt
  <1>2. /\ IInv /\ IInv' /\ Replays /\ RecordComplete /\ Answers
        /\ [Next]_vars
        => Answers'
    <2> SUFFICES ASSUME IInv, IInv', Replays, RecordComplete, Answers, [Next]_vars
                 PROVE  Answers'
      OBVIOUS
    <2>1. ASSUME NEW r \in Request, Submit(r) \/ Serve(r) \/ Abort(r)
          PROVE  Answers'
      <3>1. Alone(r) /\ Grows /\ Fingerprints'
        BY <2>1, AloneStep, GrowthStep, FingerprintStep DEF IInv, Answers
      <3>2. \A q \in Request \ {r} : AnswerAt(q)'
        BY <3>1, OthersAnswers DEF IInv, Answers
      <3>3. AnswerAt(r)'
        BY <2>1, CreateAnswers, ReadAnswers, TransitionAnswers, BoundaryAnswers
           DEF Answers, Serve
      <3> QED
        BY <3>1, <3>2, <3>3 DEF Answers
    <2>2. CASE UNCHANGED vars
      BY <2>2 DEF vars, tables, local, Answers, Fingerprints, AnswerAt, AskedAt,
                  DetailAt, CreateAnsweredAt, DurableAt, CoversAt, KeyTaken,
                  InputRows, Says
    <2> QED
      BY <2>1, <2>2 DEF Next
  <1> QED
    BY <1>1, <1>2, SpineInvariant, ReplayInvariant, SpineRecordComplete, PTL DEF Spec

(* A successful reply to a create request is about a case of its key and   *)
(* its body that the caller may see, and a key conflict always finds the   *)
(* row it conflicts with, for any number of racing creates and retries     *)
(* (create_case).                                                          *)
THEOREM SpineCreateAnswered == Spec => []CreateAnswered
  <1>1. Answers => CreateAnswered
    BY DEF Answers, AnswerAt, CreateAnsweredAt, CreateAnswered
  <1> QED
    BY <1>1, SpineAnswers, PTL

(* A transition the API has acknowledged is in the committed history, as   *)
(* it was asked for and under the caller's name, and stays there           *)
(* (_apply_transition).                                                    *)
THEOREM SpineAcknowledgedIsDurable == Spec => []AcknowledgedIsDurable
  <1>1. Answers => AcknowledgedIsDurable
    BY DEF Answers, AnswerAt, DurableAt, AcknowledgedIsDurable
  <1> QED
    BY <1>1, SpineAnswers, PTL

(* Although get_detail reads the row and its timeline in two snapshots,    *)
(* the timeline has an event for every version up to that of the row.      *)
THEOREM SpineTimelineCoversRow == Spec => []TimelineCoversRow
  <1>1. Answers => TimelineCoversRow
    BY DEF Answers, AnswerAt, CoversAt, TimelineCoversRow
  <1> QED
    BY <1>1, SpineAnswers, PTL

-----------------------------------------------------------------------------
(* The intake form *)

FormTypeOK ==
    /\ key \in FormKey /\ submitted \in BOOLEAN
    /\ fields \in FormBody
    /\ pending \in Request \cup {None}
    /\ shown \in Shown
    /\ intent \in 1..MaxIntent
    /\ owner \in [Request -> 1..MaxIntent \cup {None}]
    /\ made \in [CaseId -> 1..MaxIntent \cup {None}]

LEMMA FormTypeStep ==
    ASSUME FormTypeOK, [IntakeNext]_intakeVars
    PROVE  FormTypeOK'
  <1> USE IntakeAssumption DEF FormTypeOK, Shown
  <1>1. ASSUME NEW body \in FormBody, Edit(body) PROVE FormTypeOK'
    <2>1. key' \in FormKey /\ submitted' \in BOOLEAN
      BY <1>1 DEF Edit, RotateKeyForChangedIntent, FreshKey
    <2>2. intent' \in 1..MaxIntent
      BY <1>1 DEF Edit
    <2>3. fields' \in FormBody /\ UNCHANGED <<pending, shown, owner, made>>
      BY <1>1 DEF Edit, history
    <2> QED
      BY <2>1, <2>2, <2>3
  <1>2. CASE SendNothing \/ LoseConnection
    BY <1>2 DEF SendNothing, LoseConnection, history
  <1>3. CASE Reopen
    <2>1. key' \in FormKey /\ submitted' \in BOOLEAN
      BY <1>3 DEF Reopen, FreshKey
    <2>2. intent' \in 1..MaxIntent
      BY <1>3 DEF Reopen
    <2>3. fields' \in FormBody /\ shown' \in Shown /\ UNCHANGED <<pending, owner, made>>
      BY <1>3 DEF Reopen, history
    <2> QED
      BY <2>1, <2>2, <2>3
  <1>4. ASSUME NEW r \in Request, Send(r) PROVE FormTypeOK'
    BY <1>4 DEF Send
  <1>5. ASSUME NEW r \in Request, Receive(r) \/ Unheard(r) PROVE FormTypeOK'
    BY <1>5 DEF Receive, Unheard, form
  <1>6. ASSUME NEW r \in Request, Created(r) PROVE FormTypeOK'
    BY <1>6 DEF Created, form
  <1>7. ASSUME NEW r \in Request, OtherClient(r) \/ Statement(r) PROVE FormTypeOK'
    BY <1>7 DEF OtherClient, Statement, form, history
  <1>8. CASE UNCHANGED intakeVars
    BY <1>8 DEF intakeVars, form, history
  <1> QED
    BY <1>1, <1>2, <1>3, <1>4, <1>5, <1>6, <1>7, <1>8 DEF IntakeNext

(* The form is one more client of the spine. *)
LEMMA IntakeStep ==
    ASSUME FormTypeOK, [IntakeNext]_intakeVars
    PROVE  [Next]_vars
  <1>1. ASSUME NEW r \in Request, Send(r) PROVE Next
    <2>1. User \in ActorId /\ key \in Key /\ fields \in BodyInput
      BY IntakeAssumption DEF FormTypeOK
    <2> QED
      BY <1>1, <2>1 DEF Send, Next, Submit
  <1>2. ASSUME NEW r \in Request, OtherClient(r) PROVE Next
    <2>1. 0 \in 0..MaxVersion
      BY SpineAssumption
    <2> QED
      BY <1>2, <2>1 DEF OtherClient, Next, Submit
  <1>3. ASSUME NEW r \in Request,
               Receive(r) \/ Statement(r) \/ Created(r) \/ Unheard(r)
        PROVE  Next
    BY <1>3 DEF Receive, Statement, Created, Unheard, Next, Serve
  <1>4. CASE (\E body \in FormBody : Edit(body)) \/ SendNothing \/ LoseConnection \/ Reopen
    BY <1>4 DEF Edit, SendNothing, LoseConnection, Reopen
  <1>5. CASE UNCHANGED intakeVars
    BY <1>5 DEF intakeVars
  <1> QED
    BY <1>1, <1>2, <1>3, <1>4, <1>5 DEF IntakeNext

(* Types of the spine, the form and the history kept beside them.          *)
LEMMA IntakeTypes == IntakeSpec => Spec /\ []IntakeTypeOK
  <1>1. IntakeInit => Init /\ FormTypeOK
    <2>1. 1 \in 1..MaxIntent
      BY IntakeAssumption
    <2> QED
      BY <2>1 DEF IntakeInit, FormTypeOK, Shown
  <1>2. FormTypeOK /\ [IntakeNext]_intakeVars => FormTypeOK' /\ [Next]_vars
    BY FormTypeStep, IntakeStep
  <1>3. TypeOK /\ FormTypeOK => IntakeTypeOK
    BY DEF FormTypeOK, IntakeTypeOK
  <1> QED
    BY <1>1, <1>2, <1>3, SpineTypeOK, PTL DEF IntakeSpec, Spec

(* Whatever the form sends, again or not, the spine keeps its promises: a  *)
(* submission is one more request of POST /v1/cases.                       *)
THEOREM IntakeImplementsSpine == IntakeSpec => Spec
  BY IntakeTypes, PTL

(* The form, its requests in flight and the cases made for it have their   *)
(* types throughout (new-case-intake.tsx).                                 *)
THEOREM IntakeTyped == IntakeSpec => []IntakeTypeOK
  BY IntakeTypes, PTL
(* Who has spoken for a key: the form once it is submitted, its requests   *)
(* in flight, and the cases they made.                                     *)
Claims ==
    {<<req[r].key, owner[r], RequestSha256(req[r].body)>> :
         r \in {q \in Request : owner[q] # None}}
    \cup {<<cases[c].key, made[c], cases[c].sha256>> :
              c \in {d \in CaseId : made[d] # None}}
    \cup (IF submitted THEN {<<key, intent, RequestSha256(fields)>>} ELSE {})

(* A key, an intent and what is asked for belong together, in both         *)
(* directions, and nobody has spoken for the key of a fresh form.          *)
ClaimsAgree == \A x, y \in Claims : x[1] = y[1] \/ x[2] = y[2] => x = y
ClaimsPast  == \A x \in Claims : /\ x[2] \in 1..intent
                                 /\ ~submitted => x[1] # key /\ x[2] # intent

(* The history variables know the requests and cases under a form key.     *)
OwnedAt(r) == owner[r] # None <=> req[r] \in CreateRequest /\ req[r].key \in FormKey
Owned == \A r \in Request : OwnedAt(r)
Made  == \A c \in CaseId : made[c] # None <=> cases[c] # None /\ cases[c].key \in FormKey

Quiet == \A r \in Request : pc[r] = "idle" => status[r] = None /\ req[r] = None

NoConflict == \A r \in Request : owner[r] # None => status[r] # 409

IntakeInv == ClaimsAgree /\ ClaimsPast /\ Owned /\ Made /\ Quiet /\ NoConflict

(* Nothing new is claimed for the same key and intent. *)
LEMMA ClaimsKept ==
    ASSUME ClaimsAgree, ClaimsPast, Claims' \subseteq Claims,
           UNCHANGED <<key, intent, submitted>>
    PROVE  (ClaimsAgree /\ ClaimsPast)'
  BY DEF ClaimsAgree, ClaimsPast

(* The form turns to another case. *)
LEMMA ClaimsLeft ==
    ASSUME FormTypeOK, ClaimsAgree, ClaimsPast, Claims' \subseteq Claims,
           intent' = intent + 1, \A x \in Claims' : x[1] # key'
    PROVE  (ClaimsAgree /\ ClaimsPast)'
  <1>1. ClaimsAgree'
    BY DEF ClaimsAgree
  <1>2. intent \in Nat
    BY IntakeAssumption DEF FormTypeOK
  <1>3. ASSUME NEW x \in Claims' PROVE x[2] \in 1..intent' /\ x[2] # intent' /\ x[1] # key'
    BY <1>2, <1>3 DEF ClaimsPast
  <1> QED
    BY <1>1, <1>3 DEF ClaimsPast

(* The form speaks for its key. *)
LEMMA ClaimsMade ==
    ASSUME FormTypeOK, ClaimsAgree, ClaimsPast, submitted',
           Claims' \subseteq Claims \cup {<<key, intent, RequestSha256(fields)>>},
           UNCHANGED <<key, intent, fields>>
    PROVE  (ClaimsAgree /\ ClaimsPast)'
  <1> DEFINE n == <<key, intent, RequestSha256(fields)>>
  <1>1. n[1] = key /\ n[2] = intent
    OBVIOUS
  <1>2. submitted => n \in Claims
    BY DEF Claims
  <1>3. \A x \in Claims : x[1] = n[1] \/ x[2] = n[2] => x = n
    BY <1>1, <1>2 DEF ClaimsAgree, ClaimsPast
  <1> HIDE DEF n
  <1>4. ClaimsAgree'
    BY <1>3 DEF ClaimsAgree, n
  <1>5. intent \in 1..intent
    BY IntakeAssumption DEF FormTypeOK
  <1>6. ClaimsPast'
    BY <1>1, <1>5 DEF ClaimsPast, n
  <1> QED
    BY <1>4, <1>6
(* A key that FreshKey admits is nobody's.                                 *)
LEMMA FreshKeyUnclaimed ==
    ASSUME Owned, Made, NEW k, FreshKey(k)
    PROVE  /\ \A r \in Request : owner[r] # None => req[r].key # k
           /\ \A c \in CaseId : made[c] # None => cases[c].key # k
  <1>1. ASSUME NEW r \in Request, owner[r] # None PROVE req[r].key # k
    <2>1. req[r] \in CreateRequest
      BY <1>1 DEF Owned, OwnedAt
    <2>2. req[r] # None /\ req[r].op = "create"
      BY <2>1, SpineAssumption DEF CreateRequest
    <2> QED
      BY <2>2 DEF FreshKey
  <1>2. ASSUME NEW c \in CaseId, made[c] # None PROVE cases[c].key # k
    BY <1>2 DEF Made, FreshKey, KeyTaken
  <1> QED
    BY <1>1, <1>2

(* What the form does by itself. *)
LEMMA FormStep ==
    ASSUME FormTypeOK, IntakeInv,
           \/ \E body \in FormBody : Edit(body)
           \/ SendNothing \/ LoseConnection \/ Reopen
    PROVE  IntakeInv'
  <1>1. UNCHANGED <<cases, req, pc, status, owner, made>>
    BY DEF Edit, SendNothing, LoseConnection, Reopen, history, vars, tables
  <1>2. (Owned /\ Made /\ Quiet /\ NoConflict)'
    BY <1>1 DEF IntakeInv, Owned, OwnedAt, Made, Quiet, NoConflict
  <1>3. ASSUME ~submitted', intent' = intent + 1, FreshKey(key')
        PROVE  (ClaimsAgree /\ ClaimsPast)'
    <2>1. Claims' \subseteq Claims
      BY <1>1, <1>3 DEF Claims
    <2>2. \A x \in Claims' : x[1] # key'
      BY <1>1, <1>3, FreshKeyUnclaimed DEF IntakeInv, Claims
    <2> QED
      BY <1>3, <2>1, <2>2, ClaimsLeft DEF IntakeInv
  <1>4. ASSUME NEW body \in FormBody, Edit(body) PROVE (ClaimsAgree /\ ClaimsPast)'
    <2>1. CASE submitted
      BY <1>3, <1>4, <2>1 DEF Edit, RotateKeyForChangedIntent
    <2>2. CASE ~submitted
      <3>1. UNCHANGED <<key, intent, submitted>>
        BY <1>4, <2>2 DEF Edit, RotateKeyForChangedIntent
      <3>2. Claims' \subseteq Claims
        BY <1>1, <2>2, <3>1 DEF Claims
      <3> QED
        BY <3>1, <3>2, ClaimsKept DEF IntakeInv
    <2> QED
      BY <2>1, <2>2
  <1>5. CASE SendNothing
    <2>1. submitted' /\ UNCHANGED <<key, intent, fields>>
      BY <1>5 DEF SendNothing
    <2>2. Claims' \subseteq Claims \cup {<<key, intent, RequestSha256(fields)>>}
      BY <1>1, <2>1 DEF Claims
    <2> QED
      BY <1>2, <2>1, <2>2, ClaimsMade DEF IntakeInv
  <1>6. CASE LoseConnection
    <2>1. UNCHANGED <<key, intent, submitted, fields>>
      BY <1>6 DEF LoseConnection
    <2>2. Claims' = Claims
      BY <1>1, <2>1 DEF Claims
    <2> QED
      BY <1>2, <2>1, <2>2, ClaimsKept DEF IntakeInv
  <1>7. CASE Reopen
    <2>1. ~submitted' /\ intent' = intent + 1 /\ FreshKey(key')
      BY <1>7 DEF Reopen
    <2> QED
      BY <1>2, <1>3, <2>1 DEF IntakeInv
  <1> QED
    BY <1>2, <1>4, <1>5, <1>6, <1>7 DEF IntakeInv

(* A submission. *)
LEMMA SendStep ==
    ASSUME FormTypeOK, TypeOK, IntakeInv, NEW r \in Request, Send(r)
    PROVE  IntakeInv'
  <1> DEFINE request == [op |-> "create", principal |-> User, key |-> key,
                         body |-> fields]
  <1>1. /\ pc[r] = "idle"
        /\ req' = [req EXCEPT ![r] = request]
        /\ UNCHANGED cases
        /\ \/ Goto(r, "insert") /\ UNCHANGED status
           \/ Reply(r, 403)
    BY DEF Send, BeginCreate, Accept, Reject, tables
  <1>2. /\ submitted' /\ UNCHANGED <<key, intent, fields, made>>
        /\ owner' = [owner EXCEPT ![r] = intent]
    BY DEF Send
  <1>3. request \in CreateRequest /\ request.key = key /\ key \in FormKey
    BY IntakeAssumption, SpineAssumption DEF FormTypeOK, CreateRequest
  <1>4. intent # None
    BY IntakeAssumption DEF FormTypeOK
  <1>5. Owned' /\ Made'
    BY <1>1, <1>2, <1>3, <1>4 DEF IntakeInv, Owned, OwnedAt, Made, FormTypeOK, TypeOK
  <1>6. /\ pc'[r] \in {"insert", "reply"} /\ status'[r] # 409
        /\ \A q \in Request \ {r} : pc'[q] = pc[q] /\ status'[q] = status[q]
    <2>1. status[r] # 409
      BY <1>1, SpineAssumption DEF IntakeInv, Quiet, Status
    <2> QED
      BY <1>1, <2>1 DEF TypeOK, Goto, Reply
  <1>7. Quiet' /\ NoConflict'
    BY <1>1, <1>2, <1>6 DEF IntakeInv, Quiet, NoConflict, TypeOK, FormTypeOK
  <1>8. Claims' \subseteq Claims \cup {<<key, intent, RequestSha256(fields)>>}
    <2>1. <<req'[r].key, owner'[r], RequestSha256(req'[r].body)>>
              = <<key, intent, RequestSha256(fields)>>
      BY <1>1, <1>2 DEF TypeOK, FormTypeOK
    <2>2. \A q \in Request \ {r} : req'[q] = req[q] /\ owner'[q] = owner[q]
      BY <1>1, <1>2 DEF TypeOK, FormTypeOK
    <2> QED
      BY <1>1, <1>2, <2>1, <2>2 DEF Claims
  <1> QED
    BY <1>2, <1>5, <1>7, <1>8, ClaimsMade DEF IntakeInv
(* The reply to a request ends it. *)
LEMMA RespondStep ==
    ASSUME FormTypeOK, TypeOK, IntakeInv, NEW r \in Request, Receive(r) \/ Unheard(r)
    PROVE  IntakeInv'
  <1>1. /\ pc' = [pc EXCEPT ![r] = "idle"]
        /\ req' = [req EXCEPT ![r] = None]
        /\ status' = [status EXCEPT ![r] = None]
        /\ UNCHANGED cases
    BY DEF Receive, Unheard, Respond, Goto, tables
  <1>2. /\ owner' = [owner EXCEPT ![r] = None]
        /\ UNCHANGED <<key, submitted, fields, intent, made>>
    BY DEF Receive, Unheard, form
  <1>3. Owned' /\ Made' /\ Quiet' /\ NoConflict'
    BY <1>1, <1>2, SpineAssumption
       DEF IntakeInv, Owned, OwnedAt, Made, Quiet, NoConflict, TypeOK, FormTypeOK
  <1>4. Claims' \subseteq Claims
    <2>1. owner'[r] = None
      BY <1>2 DEF FormTypeOK
    <2>2. \A q \in Request \ {r} : req'[q] = req[q] /\ owner'[q] = owner[q]
      BY <1>1, <1>2 DEF TypeOK, FormTypeOK
    <2> QED
      BY <1>1, <1>2, <2>1, <2>2 DEF Claims
  <1> QED
    BY <1>2, <1>3, <1>4, ClaimsKept DEF IntakeInv

(* A step that leaves form, history, keys and fingerprints alone and ends  *)
(* no request of the form in a conflict.                                   *)
LEMMA ForeignStep ==
    ASSUME TypeOK, IntakeInv, UNCHANGED <<form, history>>,
           \A c \in CaseId : /\ cases'[c] # None <=> cases[c] # None
                             /\ cases[c] # None => /\ cases'[c].key = cases[c].key
                                                   /\ cases'[c].sha256 = cases[c].sha256,
           \A q \in Request : /\ req'[q] = req[q] \/ (owner[q] = None /\ OwnedAt(q)')
                              /\ owner[q] # None => status'[q] # 409,
           Quiet'
    PROVE  IntakeInv'
  <1>1. UNCHANGED <<key, submitted, fields, intent, owner, made>>
    BY DEF form, history
  <1>2. Owned'
    BY <1>1 DEF IntakeInv, Owned, OwnedAt
  <1>3. Made' /\ NoConflict'
    BY <1>1 DEF IntakeInv, Made, NoConflict
  <1>4. Claims' \subseteq Claims
    <2>1. \A q \in Request : owner[q] # None => req'[q] = req[q]
      OBVIOUS
    <2>2. \A c \in CaseId : made[c] # None => /\ cases'[c].key = cases[c].key
                                              /\ cases'[c].sha256 = cases[c].sha256
      BY DEF IntakeInv, Made
    <2> QED
      BY <1>1, <2>1, <2>2 DEF Claims
  <1> QED
    BY <1>1, <1>2, <1>3, <1>4, ClaimsKept DEF IntakeInv

(* Another client's request arrives. *)
LEMMA OtherClientStep ==
    ASSUME FormTypeOK, TypeOK, IntakeInv, NEW r \in Request, OtherClient(r)
    PROVE  IntakeInv'
  <1>1. ASSUME NEW request, NEW label \in {"insert", "detail"},
               ~(request \in CreateRequest /\ request.key \in FormKey),
               Accept(r, request, label) \/ Reject(r, request, 403)
        PROVE  IntakeInv'
    <2>1. /\ pc[r] = "idle" /\ req' = [req EXCEPT ![r] = request] /\ UNCHANGED cases
          /\ \/ Goto(r, label) /\ UNCHANGED status
             \/ Reply(r, 403)
      BY <1>1 DEF Accept, Reject, tables
    <2>2. owner[r] = None
      BY <2>1, SpineAssumption DEF IntakeInv, Quiet, Owned, OwnedAt
    <2>3. /\ req'[r] = request /\ pc'[r] # "idle"
          /\ \A q \in Request \ {r} : /\ req'[q] = req[q] /\ pc'[q] = pc[q]
                                      /\ status'[q] = status[q]
      BY <2>1 DEF TypeOK, Goto, Reply
    <2>4. UNCHANGED <<form, history>>
      BY DEF OtherClient
    <2>5. OwnedAt(r)'
      BY <1>1, <2>2, <2>3, <2>4 DEF OwnedAt, history
    <2>6. Quiet'
      BY <2>3 DEF IntakeInv, Quiet
    <2> QED
      BY <2>1, <2>2, <2>3, <2>4, <2>5, <2>6, ForeignStep DEF IntakeInv, NoConflict
  <1>2. ASSUME NEW p \in ActorId, NEW k \in Key \ FormKey, NEW body \in BodyInput,
               BeginCreate(r, p, k, body)
        PROVE  IntakeInv'
    <2> DEFINE request == [op |-> "create", principal |-> p, key |-> k, body |-> body]
    <2>1. request.key \notin FormKey
      OBVIOUS
    <2>2. Accept(r, request, "insert") \/ Reject(r, request, 403)
      BY <1>2 DEF BeginCreate
    <2> QED
      BY <1>1, <2>1, <2>2
  <1>3. ASSUME NEW p \in ActorId, NEW c \in CaseId, NEW to \in StateInput,
               NEW ev \in EvidenceInput, BeginTransition(r, p, c, 0, to, ev)
        PROVE  IntakeInv'
    <2> DEFINE request == [op |-> "transition", principal |-> p, case_id |-> c,
                           expected_version |-> 0, to_state |-> to, evidence |-> ev]
    <2>1. request \notin CreateRequest
      <3>1. request.op = "transition"
        OBVIOUS
      <3> QED
        BY <3>1 DEF CreateRequest
    <2>2. Accept(r, request, "detail") \/ Reject(r, request, 403)
      BY <1>3 DEF BeginTransition
    <2> QED
      BY <1>1, <2>1, <2>2
  <1> QED
    BY <1>2, <1>3 DEF OtherClient

(* The case of a submission is committed. *)
LEMMA CreatedStep ==
    ASSUME FormTypeOK, IInv, IntakeInv, NEW r \in Request, Created(r)
    PROVE  IntakeInv'
  <1> DEFINE c == target[r]
  <1>1. /\ pc[r] = "inserted" /\ cases' = [cases EXCEPT ![c] = NewCase(r)]
        /\ req' = req /\ \E code \in {201, 503} : Reply(r, code)
        /\ made' = [made EXCEPT ![c] = owner[r]]
        /\ UNCHANGED <<key, submitted, fields, intent, owner>>
    BY DEF Created, CommitCreate, form
  <1>2. /\ req[r] \in CreateRequest /\ c \in CaseId /\ cases[c] = None
    BY <1>1 DEF IInv, Inv, Shape, ShapeAt, InsertLocks
  <1>3. /\ NewCase(r).key = req[r].key
        /\ NewCase(r).sha256 = RequestSha256(req[r].body)
        /\ NewCase(r) # None
    <2>1. NewCase(r) \in CaseRow
      BY <1>2 DEF NewCase, CaseRow, CreateRequest, Body, RequestSha256, CaseState
    <2> QED
      BY <2>1, SpineAssumption DEF NewCase
  <1>4. /\ cases'[c] = NewCase(r) /\ made'[c] = owner[r]
        /\ \A d \in CaseId \ {c} : cases'[d] = cases[d] /\ made'[d] = made[d]
    BY <1>1, <1>2 DEF IInv, TypeOK, FormTypeOK
  <1>5. Owned'
    BY <1>1 DEF IntakeInv, Owned, OwnedAt
  <1>6. Made'
    <2>1. owner[r] # None <=> req[r].key \in FormKey
      BY <1>2 DEF IntakeInv, Owned, OwnedAt
    <2>2. made'[c] # None <=> cases'[c] # None /\ cases'[c].key \in FormKey
      BY <1>3, <1>4, <2>1
    <2> QED
      BY <1>4, <2>2 DEF IntakeInv, Made
  <1>7. Quiet' /\ NoConflict'
    <2>1. /\ pc'[r] = "reply" /\ status'[r] # 409
          /\ \A q \in Request \ {r} : pc'[q] = pc[q] /\ status'[q] = status[q]
      BY <1>1 DEF IInv, TypeOK, Goto, Reply
    <2> QED
      BY <1>1, <2>1 DEF IntakeInv, Quiet, NoConflict
  <1>8. Claims' \subseteq Claims
    BY <1>1, <1>3, <1>4 DEF Claims
  <1> QED
    BY <1>1, <1>5, <1>6, <1>7, <1>8, ClaimsKept DEF IntakeInv
(* A case under the key of a submission says what the submission says.     *)
LEMMA ReplayAgrees ==
    ASSUME IntakeInv, NEW r \in Request, owner[r] # None, NEW c \in CaseId,
           cases[c] # None, cases[c].key = req[r].key
    PROVE  cases[c].sha256 = RequestSha256(req[r].body)
  <1> DEFINE x == <<req[r].key, owner[r], RequestSha256(req[r].body)>>
             y == <<cases[c].key, made[c], cases[c].sha256>>
  <1>1. made[c] # None
    BY DEF IntakeInv, Owned, OwnedAt, Made
  <1>2. x \in Claims /\ y \in Claims
    BY <1>1 DEF Claims
  <1>3. x[1] = y[1]
    OBVIOUS
  <1>4. x = y
    <2> HIDE DEF x, y
    <2> QED
      BY <1>2, <1>3 DEF IntakeInv, ClaimsAgree
  <1> QED
    BY <1>4

(* A statement of a transaction. *)
LEMMA StatementStep ==
    ASSUME IInv, IntakeInv, NEW r \in Request, Statement(r)
    PROVE  IntakeInv'
  <1>1. UNCHANGED <<form, history>> /\ req' = req
    BY DEF Statement, InsertCase, ReplayCase, ReadCase, ReadSnapshot, UpdateCase,
           CommitTransition, Abort
  <1>2. /\ pc[r] # "idle" /\ pc'[r] # "idle"
        /\ \A q \in Request \ {r} : pc'[q] = pc[q] /\ status'[q] = status[q]
    BY DEF Statement, InsertCase, ReplayCase, ReadCase, ReadSnapshot, UpdateCase,
           CommitTransition, Abort, Reply, Goto, IInv, TypeOK
  <1>3. Quiet'
    BY <1>1, <1>2 DEF IntakeInv, Quiet
  <1>4. ASSUME owner[r] # None PROVE status'[r] # 409
    <2>1. req[r] \in CreateRequest /\ status[r] # 409
      BY <1>4 DEF IntakeInv, Owned, OwnedAt, NoConflict
    <2>2. pc[r] \notin {"detail", "snapshot", "update", "written"}
      <3>1. req[r].op = "create"
        BY <2>1 DEF CreateRequest
      <3>2. req[r] \notin AskedTransition \cup ReadRequest
        BY <3>1 DEF AskedTransition, TransitionRequest, ReadRequest
      <3> QED
        BY <3>2 DEF IInv, Inv, Shape, ShapeAt
    <2>3. CASE InsertCase(r)
      BY <2>1, <2>3 DEF InsertCase
    <2>4. CASE ReplayCase(r)
      <3>1. \A c \in CaseId : cases[c] # None /\ cases[c].key = req[r].key =>
                cases[c].sha256 = RequestSha256(req[r].body)
        BY <1>4, ReplayAgrees
      <3> QED
        BY <2>4, <3>1 DEF ReplayCase, Reply, IInv, TypeOK
    <2>5. CASE Abort(r)
      BY <2>5 DEF Abort, Reply, IInv, TypeOK
    <2> QED
      BY <2>2, <2>3, <2>4, <2>5
         DEF Statement, ReadCase, ReadSnapshot, UpdateCase, CommitTransition
  <1>5. \A c \in CaseId : /\ cases'[c] # None <=> cases[c] # None
                          /\ cases[c] # None => /\ cases'[c].key = cases[c].key
                                                /\ cases'[c].sha256 = cases[c].sha256
    <2>1. CASE UNCHANGED cases
      BY <2>1
    <2>2. CASE CommitTransition(r) /\ SchemaAccepts(r)
      <3>1. cases[req[r].case_id] # None
        BY <2>2 DEF CommitTransition, IInv, Inv, ReadRow, ReadRowAt
      <3> QED
        BY <2>2, <3>1, CommitEffect
    <2> QED
      BY <2>1, <2>2 DEF Statement, InsertCase, ReplayCase, ReadCase, ReadSnapshot,
                        UpdateCase, CommitTransition, Abort, tables
  <1> QED
    BY <1>1, <1>2, <1>3, <1>4, <1>5, ForeignStep DEF IInv, IntakeInv, NoConflict

LEMMA IntakeInvariant == IntakeSpec => [](IInv /\ FormTypeOK /\ IntakeInv)
  <1>1. IntakeInit => IntakeInv
    <2> SUFFICES ASSUME IntakeInit PROVE IntakeInv
      OBVIOUS
    <2>1. /\ \A r \in Request : owner[r] = None /\ req[r] = None /\ status[r] = None
          /\ \A c \in CaseId : made[c] = None /\ cases[c] = None
          /\ ~submitted
      BY DEF IntakeInit, Init
    <2>2. Claims = {}
      BY <2>1 DEF Claims
    <2> QED
      BY <2>1, <2>2, SpineAssumption DEF IntakeInv, ClaimsAgree, ClaimsPast, Owned,
             OwnedAt, Made, Quiet, NoConflict
  <1>2. IInv /\ FormTypeOK /\ IntakeInv /\ [IntakeNext]_intakeVars => IntakeInv'
    <2> SUFFICES ASSUME IInv, FormTypeOK, IntakeInv, [IntakeNext]_intakeVars
                 PROVE  IntakeInv'
      OBVIOUS
    <2>1. TypeOK
      BY DEF IInv
    <2>2. CASE UNCHANGED intakeVars
      <3>1. UNCHANGED <<form, history, cases, req, pc, status>>
        BY <2>2 DEF intakeVars, vars, tables
      <3>2. Quiet'
        BY <3>1 DEF IntakeInv, Quiet
      <3> QED
        BY <2>1, <3>1, <3>2, ForeignStep DEF IntakeInv, NoConflict
    <2>3. ASSUME NEW r \in Request,
                 \/ Send(r) \/ Receive(r) \/ Unheard(r)
                 \/ OtherClient(r) \/ Statement(r) \/ Created(r)
          PROVE  IntakeInv'
      BY <2>1, <2>3, SendStep, RespondStep, OtherClientStep, StatementStep, CreatedStep
    <2> QED
      BY <2>2, <2>3, FormStep DEF IntakeNext
  <1>3. FormTypeOK /\ [IntakeNext]_intakeVars => FormTypeOK'
    BY FormTypeStep
  <1>4. IntakeTypeOK => FormTypeOK
    BY DEF IntakeTypeOK, FormTypeOK
  <1> QED
    BY <1>1, <1>2, <1>3, <1>4, IntakeTypes, SpineInvariant, PTL DEF IntakeSpec

(* At most one case is created for what the user has in mind, for any      *)
(* number of submissions, lost replies and requests still in flight        *)
(* (new-case-intake.tsx over create_case).                                 *)
THEOREM IntakeOneCasePerIntent == IntakeSpec => []OneCasePerIntent
  <1>1. IInv /\ IntakeInv => OneCasePerIntent
    <2> SUFFICES ASSUME IInv, IntakeInv, NEW c \in CaseId, NEW d \in CaseId,
                        made[c] # None, made[c] = made[d]
                 PROVE  c = d
      BY DEF OneCasePerIntent
    <2> DEFINE x == <<cases[c].key, made[c], cases[c].sha256>>
               y == <<cases[d].key, made[d], cases[d].sha256>>
    <2>1. x \in Claims /\ y \in Claims /\ x[2] = y[2]
      BY DEF Claims
    <2>2. x = y
      <3> HIDE DEF x, y
      <3> QED
        BY <2>1 DEF IntakeInv, ClaimsAgree
    <2>3. cases[c].key = cases[d].key
      BY <2>2
    <2> QED
      BY <2>3 DEF IInv, Inv, KeysDistinct, IntakeInv, Made
  <1> QED
    BY <1>1, IntakeInvariant, PTL

(* The case under the form's key is the one the user has in mind, and a    *)
(* submission never meets its key on another case                          *)
(* (rotateKeyForChangedIntent).                                            *)
THEOREM IntakeKeyKeepsItsIntent == IntakeSpec => []KeyKeepsItsIntent
  <1>1. FormTypeOK /\ IntakeInv => KeyKeepsItsIntent
    <2> SUFFICES ASSUME FormTypeOK, IntakeInv PROVE KeyKeepsItsIntent
      OBVIOUS
    <2>1. ASSUME NEW c \in CaseId, cases[c] # None, cases[c].key = key
          PROVE  /\ made[c] = intent /\ submitted
                 /\ cases[c].sha256 = RequestSha256(fields)
      <3> DEFINE x == <<cases[c].key, made[c], cases[c].sha256>>
                 y == <<key, intent, RequestSha256(fields)>>
      <3>1. made[c] # None
        BY <2>1 DEF IntakeInv, Made, FormTypeOK
      <3>2. x \in Claims /\ x[1] = key /\ y[1] = key
        BY <2>1, <3>1 DEF Claims
      <3>3. submitted
        BY <3>2 DEF IntakeInv, ClaimsPast
      <3>4. y \in Claims
        BY <3>3 DEF Claims
      <3>5. x = y
        <4> HIDE DEF x, y
        <4> QED
          BY <3>2, <3>4 DEF IntakeInv, ClaimsAgree
      <3> QED
        BY <3>3, <3>5
    <2> QED
      BY <2>1 DEF KeyKeepsItsIntent, IntakeInv, NoConflict
  <1> QED
    BY <1>1, IntakeInvariant, PTL
=============================================================================
