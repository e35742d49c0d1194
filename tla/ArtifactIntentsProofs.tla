----------------------- MODULE ArtifactIntentsProofs ------------------------
(* Completion of uploads for any number of intents, requests and retries.  *)
EXTENDS ArtifactIntents, TLAPS

(* Labels of a completion, and those at which it holds the row lock.       *)
Completing == {"load", "replay", "head", "insert"}
Holding    == {"replay", "head", "insert"}

(* A declaring request has its identifier to itself; a completing one      *)
(* names an intent that the client was given, and read the clock after     *)
(* its creation.                                                           *)
Named ==
    \A r \in Request :
        /\ asof[r] <= clock
        /\ pc[r] = "idle" => target[r] = None
        /\ pc[r] = "declare" =>
             /\ target[r] \in Intent /\ case[r] \in Case /\ body[r] \in Declaration
             /\ intents[target[r]] = None /\ target[r] \notin granted
             /\ \A q \in Request \ {r} : target[q] # target[r]
        /\ pc[r] \in Completing =>
             target[r] \in granted /\ intents[target[r]].created <= asof[r]

(* Rows of granted intents exist; evidence is that of completed intents.   *)
Rows ==
    /\ \A i \in granted : intents[i] # None
    /\ \A i \in Intent : intents[i] # None =>
         LET row == intents[i] IN
         /\ row.created <= clock
         /\ i \in artifacts <=> row.status = "completed"
         /\ row.status = "completed" =>
              row.created <= row.completed /\ row.completed < row.expires
                  /\ row.completed <= MaxClock
    /\ \A i \in artifacts : intents[i] # None

(* The holder of a row lock is alone, and what it decided on still holds.  *)
Held ==
    \A r \in Request : pc[r] \in Holding =>
        /\ \A q \in Request \ {r} : pc[q] \in Holding => target[q] # target[r]
        /\ pc[r] = "replay" => intents[target[r]].status = "completed"
        /\ pc[r] \in {"head", "insert"} =>
             /\ intents[target[r]].status = "pending"
             /\ asof[r] < intents[target[r]].expires
        /\ pc[r] = "insert" =>
             [type |-> intents[target[r]].body.type,
              digest |-> intents[target[r]].body.digest] \in stored[target[r]]

(* The store's history contains its present.                               *)
StoredNow == \A i \in Intent : object[i] # None => object[i] \in stored[i]

IInv == /\ TypeOK /\ Named /\ Rows /\ Held /\ StoredNow
        /\ EvidenceVerified /\ AnswersAgree

USE IntentAssumption, NoneIsNoIntentRow

LEMMA NoAnswerType ==
    /\ NoAnswer \in Answer /\ NoAnswer.status = 0 /\ NoAnswer.at = MaxClock + 1
    /\ \A s \in {403, 404, 409, 422, 503} :
         Refused(s) \in Answer /\ Refused(s).status = s /\ Refused(s).at = MaxClock + 1
<1>1. MaxClock + 1 \in 0..(MaxClock + 1)
  OBVIOUS
<1>2. NoAnswer.status = 0 /\ NoAnswer.at = MaxClock + 1
  BY DEF NoAnswer, Reply
<1>3. NoAnswer \in Answer
  BY <1>1 DEF NoAnswer, Reply, Answer
<1>4. ASSUME NEW s \in {403, 404, 409, 422, 503}
      PROVE  Refused(s).status = s /\ Refused(s).at = MaxClock + 1
  BY DEF Refused, Reply
<1>5. ASSUME NEW s \in {403, 404, 409, 422, 503}
      PROVE  Refused(s) \in Answer
  BY <1>1 DEF Refused, Reply, Answer
<1> QED BY <1>2, <1>3, <1>4, <1>5

(* The end of a transaction leaves the other lock holders as they are, if  *)
(* the rows they hold are unchanged.                                       *)
LEMMA HeldByOthers ==
    ASSUME TypeOK, Named, Held, NEW r \in Request,
           pc' = [pc EXCEPT ![r] = "idle"], target' = [target EXCEPT ![r] = None],
           asof' = [asof EXCEPT ![r] = 0], stored' = stored,
           \A q \in Request \ {r} :
               pc[q] \in Holding => intents'[target[q]] = intents[target[q]]
    PROVE  Held'
<1> SUFFICES ASSUME NEW q \in Request, pc'[q] \in Holding
             PROVE /\ \A p \in Request \ {q} : pc'[p] \in Holding => target'[p] # target'[q]
                   /\ pc'[q] = "replay" => intents'[target'[q]].status = "completed"
                   /\ pc'[q] \in {"head", "insert"} =>
                        /\ intents'[target'[q]].status = "pending"
                        /\ asof'[q] < intents'[target'[q]].expires
                   /\ pc'[q] = "insert" =>
                        [type |-> intents'[target'[q]].body.type,
                         digest |-> intents'[target'[q]].body.digest]
                           \in stored'[target'[q]]
  BY DEF Held
<1>1. q # r
  BY DEF TypeOK, Holding
<1>2. /\ pc'[q] = pc[q] /\ target'[q] = target[q] /\ asof'[q] = asof[q]
      /\ pc[q] \in Holding /\ intents'[target[q]] = intents[target[q]]
  BY <1>1 DEF TypeOK
<1>3. \A p \in Request : pc'[p] \in Holding => pc[p] \in Holding /\ target'[p] = target[p]
  BY DEF TypeOK, Holding
<1>4. \A p \in Request \ {q} : pc'[p] \in Holding => target'[p] # target'[q]
  <2>1. \A p \in Request \ {q} : pc[p] \in Holding => target[p] # target[q]
    BY <1>2, Zenon DEF Held
  <2> QED BY <1>2, <1>3, <2>1
<1>5. /\ pc[q] = "replay" => intents[target[q]].status = "completed"
      /\ pc[q] \in {"head", "insert"} =>
           /\ intents[target[q]].status = "pending"
           /\ asof[q] < intents[target[q]].expires
      /\ pc[q] = "insert" =>
           [type |-> intents[target[q]].body.type,
            digest |-> intents[target[q]].body.digest] \in stored[target[q]]
  BY <1>2 DEF Held
<1> QED BY <1>2, <1>4, <1>5

(* The end of a transaction that wrote nothing: what others hold and were  *)
(* told is not disturbed.                                                  *)
LEMMA RefuseStep ==
    ASSUME IInv, NEW r \in Request,
           NEW s \in {403, 404, 409, 422, 503}, Refuse(r, s)
    PROVE  IInv'
<1> USE DEF IInv, Refuse, Finish, tables, store
<1>1. TypeOK'
  BY NoAnswerType DEF TypeOK, PC
<1>2. Named'
  BY DEF Named, TypeOK, Completing
<1>3. Rows' /\ StoredNow' /\ EvidenceVerified'
  BY DEF Rows, StoredNow, EvidenceVerified
<1>4. Held'
  <2>1. /\ pc' = [pc EXCEPT ![r] = "idle"] /\ target' = [target EXCEPT ![r] = None]
        /\ asof' = [asof EXCEPT ![r] = 0] /\ stored' = stored /\ intents' = intents
    OBVIOUS
  <2>2. TypeOK /\ Named /\ Held
    OBVIOUS
  <2> HIDE DEF IInv, Refuse, Finish, tables, store
  <2> QED BY <2>1, <2>2, HeldByOthers
<1>5. AnswersAgree'
  BY NoAnswerType DEF AnswersAgree, TypeOK
<1> QED BY <1>1, <1>2, <1>3, <1>4, <1>5

(* A step to the next label within a transaction.                          *)
LEMMA GotoStep ==
    ASSUME IInv, NEW r \in Request, NEW label \in Holding, Goto(r, label),
           pc[r] \in Completing, Held'
    PROVE  IInv'
<1> USE DEF IInv, Goto, tables, store, inputs
<1>1. TypeOK'
  BY DEF TypeOK, PC, Holding
<1>2. Named'
  BY DEF Named, TypeOK, Completing, Holding
<1>3. Rows' /\ StoredNow' /\ EvidenceVerified' /\ AnswersAgree'
  BY DEF Rows, StoredNow, EvidenceVerified, AnswersAgree
<1> QED BY <1>1, <1>2, <1>3

LEMMA BeginStep ==
    ASSUME IInv, NEW r \in Request, NEW label \in {"declare", "load"},
           NEW i \in Intent, NEW c \in Case, NEW b \in Declaration \cup {None},
           Begin(r, label, i, c, b),
           label = "declare" => b \in Declaration /\ FreshIntent(i),
           label = "load" => i \in granted
    PROVE  IInv'
<1> USE DEF IInv, Begin, tables, store
<1>1. TypeOK'
  BY NoAnswerType DEF TypeOK, PC
<1>2. Named'
  <2> SUFFICES ASSUME NEW q \in Request
               PROVE /\ asof'[q] <= clock'
                     /\ pc'[q] = "idle" => target'[q] = None
                     /\ pc'[q] = "declare" =>
                          /\ target'[q] \in Intent /\ case'[q] \in Case
                          /\ body'[q] \in Declaration
                          /\ intents'[target'[q]] = None /\ target'[q] \notin granted'
                          /\ \A p \in Request \ {q} : target'[p] # target'[q]
                     /\ pc'[q] \in Completing =>
                          target'[q] \in granted' /\ intents'[target'[q]].created <= asof'[q]
    BY DEF Named
  <2>1. CASE q = r /\ label = "declare"
    BY <2>1 DEF Named, Rows, TypeOK, FreshIntent, Completing
  <2>2. CASE q = r /\ label = "load"
    BY <2>2 DEF Named, Rows, TypeOK, Completing, IntentRow
  <2>3. CASE q # r
    <3>1. pc[q] = "declare" => target[q] # i
      BY DEF Named, FreshIntent
    <3> QED BY <2>3, <3>1 DEF Named, TypeOK, Completing
  <2> QED BY <2>1, <2>2, <2>3
<1>3. Rows' /\ StoredNow' /\ EvidenceVerified'
  BY DEF Rows, StoredNow, EvidenceVerified
<1>4. Held'
  BY DEF Held, TypeOK, Holding
<1>5. AnswersAgree'
  BY NoAnswerType DEF AnswersAgree, TypeOK
<1> QED BY <1>1, <1>2, <1>3, <1>4, <1>5

LEMMA CreateStep ==
    ASSUME IInv, NEW r \in Request, CommitCreate(r)
    PROVE  IInv'
<1> USE DEF IInv
<1> DEFINE i == target[r]
           a == Reply(200, i, MaxClock + 1, FALSE)
<1>0. /\ pc[r] = "declare" /\ intents' = [intents EXCEPT ![i] = Pending(r)]
      /\ \/ answer' = [answer EXCEPT ![r] = a]
         \/ answer' = [answer EXCEPT ![r] = Refused(503)]
      /\ granted' \in {granted, granted \cup {i}}
      /\ UNCHANGED <<clock, artifacts, object, stored>>
  BY DEF CommitCreate, Finish, store
<1>1. /\ i \in Intent /\ intents[i] = None /\ i \notin granted /\ i \notin artifacts
      /\ \A q \in Request \ {r} : target[q] # i
  BY <1>0 DEF Named, Rows
<1>2. Pending(r) \in IntentRow
  BY <1>0 DEF Named, TypeOK, Pending, IntentRow
<1>3. /\ pc' = [pc EXCEPT ![r] = "idle"] /\ target' = [target EXCEPT ![r] = None]
      /\ case' = [case EXCEPT ![r] = None] /\ asof' = [asof EXCEPT ![r] = 0]
      /\ body' = [body EXCEPT ![r] = None]
  BY DEF CommitCreate, Finish
<1>4. /\ a \in Answer /\ a.at = MaxClock + 1
      /\ Refused(503) \in Answer /\ Refused(503).at = MaxClock + 1
  <2>1. MaxClock + 1 \in 0..(MaxClock + 1)
    OBVIOUS
  <2>2. a \in Answer
    BY <1>1, <2>1 DEF Reply, Answer
  <2>3. a.at = MaxClock + 1
    BY DEF Reply
  <2> HIDE DEF a
  <2> QED BY <2>2, <2>3, NoAnswerType
<1> HIDE DEF a
<1>5. TypeOK'
  BY <1>0, <1>1, <1>2, <1>3, <1>4 DEF TypeOK, PC
<1>6. Named'
  BY <1>0, <1>1, <1>3 DEF Named, TypeOK, Completing
<1>7. Rows'
  BY <1>0, <1>1, <1>2, <1>3 DEF Rows, Named, TypeOK, Pending, IntentRow
<1>8. Held'
  <2>1. \A q \in Request \ {r} :
            pc[q] \in Holding => intents'[target[q]] = intents[target[q]]
    BY <1>0, <1>1 DEF TypeOK
  <2> QED BY <1>0, <1>3, <2>1, HeldByOthers
<1>9. StoredNow' /\ EvidenceVerified'
  BY <1>0, <1>1 DEF StoredNow, EvidenceVerified, TypeOK
<1>10. AnswersAgree'
  <2>1. \A j \in artifacts : intents'[j] = intents[j]
    BY <1>0, <1>1 DEF TypeOK
  <2>2. \A q \in Request : answer'[q] # answer[q] => answer'[q].at = MaxClock + 1
    BY <1>0, <1>4 DEF TypeOK
  <2>3. \A q \in Request : answer'[q].at <= MaxClock => answer'[q] = answer[q]
    BY <2>2
  <2> QED BY <1>0, <2>1, <2>3 DEF AnswersAgree
<1> QED BY <1>5, <1>6, <1>7, <1>8, <1>9, <1>10

LEMMA UploadStep ==
    ASSUME IInv, NEW i \in Intent, NEW m \in Metadata, Upload(i, m)
    PROVE  IInv'
<1> USE DEF IInv, Upload, tables, inputs
<1>1. TypeOK' /\ StoredNow'
  BY DEF TypeOK, StoredNow
<1>2. Named' /\ Rows' /\ AnswersAgree'
  BY DEF Named, Rows, AnswersAgree
<1>3. \A j \in Intent : stored[j] \subseteq stored'[j]
  BY DEF TypeOK
<1>4. EvidenceVerified'
  BY <1>3 DEF EvidenceVerified, TypeOK
<1>5. Held'
  BY <1>3 DEF Held, Named, Completing, Holding, TypeOK
<1> QED BY <1>1, <1>2, <1>4, <1>5

LEMMA LoadStep ==
    ASSUME IInv, NEW r \in Request, LoadForCompletion(r)
    PROVE  IInv'
<1> DEFINE row == intents[target[r]]
<1>1. target[r] \in granted /\ target[r] \in Intent /\ row \in IntentRow
  BY DEF IInv, LoadForCompletion, Named, Rows, Completing, TypeOK
<1>2. CASE \E s \in {404, 409} : Refuse(r, s)
  BY <1>2, RefuseStep
<1>3. ASSUME Goto(r, "replay"), row.status = "completed" PROVE IInv'
  <2>1. Held'
    BY <1>3 DEF LoadForCompletion, Goto, Locked, IInv, Held, Holding, TypeOK,
                tables, store, inputs
  <2> QED BY <1>3, <2>1, GotoStep DEF LoadForCompletion, Completing, Holding
<1>4. ASSUME Goto(r, "head"), row.status = "pending", ~Expired(row, asof[r])
      PROVE  IInv'
  <2>1. asof[r] < row.expires
    BY <1>1, <1>4 DEF Expired, IntentRow, IInv, TypeOK
  <2>2. Held'
    BY <1>4, <2>1 DEF LoadForCompletion, Goto, Locked, IInv, Held, Holding, TypeOK,
                tables, store, inputs
  <2> QED BY <1>4, <2>2, GotoStep DEF LoadForCompletion, Completing, Holding
<1>5. row.status \in {"pending", "completed"}
  BY <1>1 DEF IntentRow
<1> QED BY <1>2, <1>3, <1>4, <1>5 DEF LoadForCompletion

LEMMA ReplayStep ==
    ASSUME IInv, NEW r \in Request, ReplayCompletion(r)
    PROVE  IInv'
<1> USE DEF IInv
<1> DEFINE i == target[r]
           a == Reply(200, i, CompletedAt(r), TRUE)
<1>0. /\ pc[r] = "replay" /\ answer' = [answer EXCEPT ![r] = a]
      /\ pc' = [pc EXCEPT ![r] = "idle"] /\ target' = [target EXCEPT ![r] = None]
      /\ case' = [case EXCEPT ![r] = None] /\ asof' = [asof EXCEPT ![r] = 0]
      /\ body' = [body EXCEPT ![r] = None]
      /\ UNCHANGED <<clock, intents, artifacts, object, stored, granted>>
  BY DEF ReplayCompletion, Finish, tables, store
<1>1. /\ i \in Intent /\ intents[i] # None /\ intents[i] \in IntentRow
      /\ intents[i].status = "completed"
  <2>1. i \in granted
    BY <1>0 DEF Named, Completing
  <2>2. i \in Intent /\ intents[i] # None /\ intents[i] \in IntentRow
    BY <2>1 DEF Rows, TypeOK
  <2>3. intents[i].status = "completed"
    BY <1>0 DEF Held, Holding
  <2> QED BY <2>2, <2>3
<1>2. i \in artifacts /\ intents[i].completed <= MaxClock
  BY <1>1 DEF Rows
<1>3. /\ a \in Answer /\ a.status = 200 /\ a.intent = i /\ a.already = TRUE
      /\ a.at = intents[i].completed
  <2>1. CompletedAt(r) \in 0..(MaxClock + 1)
    BY <1>1 DEF IntentRow, CompletedAt
  <2>2. CompletedAt(r) = intents[i].completed
    BY DEF CompletedAt
  <2>3. a \in Answer
    BY <1>1, <2>1 DEF Reply, Answer
  <2>4. /\ a.status = 200 /\ a.intent = i /\ a.already = TRUE
        /\ a.at = CompletedAt(r)
    BY DEF Reply
  <2> QED BY <2>2, <2>3, <2>4
<1> HIDE DEF a
<1>5. TypeOK'
  <2>1. answer' \in [Request -> Answer]
    BY <1>0, <1>3 DEF TypeOK
  <2> QED BY <1>0, <2>1 DEF TypeOK, PC
<1>6. Named'
  BY <1>0 DEF Named, TypeOK, Completing
<1>7. Rows' /\ StoredNow' /\ EvidenceVerified'
  BY <1>0 DEF Rows, StoredNow, EvidenceVerified
<1>8. Held'
  BY <1>0, HeldByOthers
<1>9. AnswersAgree'
  BY <1>0, <1>1, <1>2, <1>3 DEF AnswersAgree, TypeOK
<1> QED BY <1>5, <1>6, <1>7, <1>8, <1>9

LEMMA HeadStep ==
    ASSUME IInv, NEW r \in Request, HeadObject(r)
    PROVE  IInv'
<1> DEFINE i == target[r]
<1>1. CASE \E s \in {409, 503} : Refuse(r, s)
  BY <1>1, RefuseStep
<1>2. ASSUME object[i] # None, Matches(intents[i], object[i]), Goto(r, "insert")
      PROVE  IInv'
  <2>1. i \in Intent /\ object[i] \in Metadata /\ object[i] \in stored[i]
    BY <1>2 DEF HeadObject, IInv, Named, Completing, TypeOK, StoredNow
  <2>2. object[i] = [type |-> intents[i].body.type, digest |-> intents[i].body.digest]
    BY <1>2, <2>1 DEF Matches, Metadata
  <2>3. Held'
    <3>1. /\ pc' = [pc EXCEPT ![r] = "insert"] /\ pc \in [Request -> PC]
          /\ pc[r] = "head" /\ UNCHANGED <<target, asof, intents, stored>>
      BY <1>2 DEF HeadObject, Goto, IInv, TypeOK, tables, store, inputs
    <3>2. \A q \in Request : pc'[q] = IF q = r THEN "insert" ELSE pc[q]
      BY <3>1
    <3>3. \A q \in Request : pc'[q] \in Holding => pc[q] \in Holding
      BY <3>1, <3>2 DEF Holding
    <3>4. [type |-> intents[i].body.type, digest |-> intents[i].body.digest]
             \in stored[i]
      BY <2>1, <2>2
    <3>5. Held
      BY DEF IInv
    <3> HIDE DEF i
    <3> QED BY <3>1, <3>2, <3>3, <3>4, <3>5 DEF Held, i
  <2> QED BY <1>2, <2>3, GotoStep DEF HeadObject, Completing, Holding
<1> QED BY <1>1, <1>2 DEF HeadObject

LEMMA CompleteStep ==
    ASSUME IInv, NEW r \in Request, CommitComplete(r)
    PROVE  IInv'
<1>1. CASE ~SchemaAccepts(r)
  BY <1>1, RefuseStep DEF CommitComplete
<1>2. CASE SchemaAccepts(r)
  <2> USE DEF IInv, tables, store
  <2> DEFINE i == target[r]
             done == [intents[i] EXCEPT !.status = "completed", !.completed = asof[r]]
  <2>1. /\ pc[r] = "insert" /\ i \in Intent /\ i \in granted /\ i \notin artifacts
        /\ intents[i] \in IntentRow /\ intents[i].status = "pending"
        /\ intents[i].created <= asof[r] /\ asof[r] < intents[i].expires
        /\ asof[r] \in 0..MaxClock
    <3>1. pc[r] = "insert" /\ i \notin artifacts
      BY <1>2 DEF CommitComplete, SchemaAccepts
    <3>2. i \in granted /\ intents[i].created <= asof[r]
      BY <3>1 DEF Named, Completing
    <3>3. i \in Intent /\ intents[i] \in IntentRow /\ asof[r] \in 0..MaxClock
      BY <3>2 DEF Rows, TypeOK
    <3>4. intents[i].status = "pending" /\ asof[r] < intents[i].expires
      BY <3>1 DEF Held, Holding
    <3> QED BY <3>1, <3>2, <3>3, <3>4
  <2>2. /\ artifacts' = artifacts \cup {i}
        /\ intents' = [intents EXCEPT ![i] = done]
        /\ UNCHANGED <<clock, object, stored, granted>>
    BY <1>2, <2>1 DEF CommitComplete, Marked
  <2>3. /\ pc' = [pc EXCEPT ![r] = "idle"] /\ target' = [target EXCEPT ![r] = None]
        /\ case' = [case EXCEPT ![r] = None] /\ asof' = [asof EXCEPT ![r] = 0]
        /\ body' = [body EXCEPT ![r] = None]
    <3>1. \/ Finish(r, Reply(200, i, asof[r], FALSE))
          \/ Finish(r, Refused(503))
      BY <1>2, Zenon DEF CommitComplete
    <3> QED BY <3>1, Zenon DEF Finish
  <2>4. /\ done \in IntentRow /\ done.status = "completed" /\ done.completed = asof[r]
        /\ done.created = intents[i].created /\ done.expires = intents[i].expires
        /\ done.body = intents[i].body
    BY <2>1 DEF IntentRow
  <2>5. /\ intents' \in [Intent -> IntentRow \cup {None}]
        /\ intents'[i] = done /\ \A j \in Intent \ {i} : intents'[j] = intents[j]
    BY <2>1, <2>2, <2>4 DEF TypeOK
  <2>6. \A q \in Request \ {r} : pc[q] \in Holding => target[q] # i
    BY <2>1 DEF Held, Holding
  <2>7. \A q \in Request \ {r} : pc[q] = "declare" => target[q] # i
    BY <2>1 DEF Named
  <2> DEFINE a == Reply(200, i, asof[r], FALSE)
  <2>8. \/ answer' = [answer EXCEPT ![r] = Refused(503)]
        \/ answer' = [answer EXCEPT ![r] = a]
    BY <1>2 DEF CommitComplete, Finish
  <2>a. /\ a \in Answer /\ a.status = 200 /\ a.intent = i /\ a.already = FALSE
        /\ a.at = asof[r]
    <3>1. asof[r] \in 0..(MaxClock + 1)
      BY <2>1
    <3>2. a \in Answer
      BY <2>1, <3>1 DEF Reply, Answer
    <3>3. a.status = 200 /\ a.intent = i /\ a.already = FALSE /\ a.at = asof[r]
      BY DEF Reply
    <3> QED BY <3>2, <3>3
  <2> HIDE DEF a
  <2>9. TypeOK'
    <3>1. answer' \in [Request -> Answer]
      BY <2>8, <2>a, NoAnswerType DEF TypeOK
    <3>2. artifacts' \subseteq Intent
      BY <2>1, <2>2 DEF TypeOK
    <3>3. intents' \in [Intent -> IntentRow \cup {None}]
      BY <2>5
    <3>4. pc' \in [Request -> PC] /\ target' \in [Request -> Intent \cup {None}]
          /\ case' \in [Request -> Case \cup {None}] /\ asof' \in [Request -> 0..MaxClock]
          /\ body' \in [Request -> Declaration \cup {None}]
      BY <2>3 DEF TypeOK, PC
    <3> HIDE DEF done
    <3> QED BY <2>2, <3>1, <3>2, <3>3, <3>4 DEF TypeOK
  <2>10. Named'
    BY <2>1, <2>2, <2>3, <2>4, <2>5, <2>7 DEF Named, TypeOK, Completing
  <2>11. Rows'
    BY <2>1, <2>2, <2>4, <2>5 DEF Rows, TypeOK
  <2>12. Held'
    <3>1. \A q \in Request \ {r} :
              pc[q] \in Holding => intents'[target[q]] = intents[target[q]]
      BY <2>5, <2>6 DEF Named, Completing, Holding, TypeOK
    <3> QED BY <2>2, <2>3, <3>1, HeldByOthers
  <2>13. StoredNow'
    BY <2>2 DEF StoredNow
  <2>14. EvidenceVerified'
    <3>1. [type |-> done.body.type, digest |-> done.body.digest] \in stored[i]
      BY <2>1, <2>4 DEF Held, Holding
    <3> QED BY <2>2, <2>5, <3>1 DEF EvidenceVerified, TypeOK
  <2>15. AnswersAgree'
    <3>1. \A q \in Request : answer[q].status = 200 /\ answer[q].at <= MaxClock
                               => answer[q].intent # i /\ answer[q].intent \in Intent
      BY <2>1 DEF AnswersAgree, TypeOK
    <3>2. CASE answer' = [answer EXCEPT ![r] = Refused(503)]
      BY <2>2, <2>5, <3>1, <3>2, NoAnswerType DEF AnswersAgree, TypeOK
    <3>3. CASE answer' = [answer EXCEPT ![r] = a]
      BY <2>a, <2>1, <2>2, <2>4, <2>5, <3>1, <3>3 DEF AnswersAgree, TypeOK
    <3> QED BY <2>8, <3>2, <3>3
  <2> QED BY <2>9, <2>10, <2>11, <2>12, <2>13, <2>14, <2>15
<1> QED BY <1>1, <1>2

(* The inductive invariant: who holds which lock, and what it relies on.   *)
THEOREM IntentsInvariant == Spec => []IInv
<1>1. Init => IInv
  <2> SUFFICES ASSUME Init PROVE IInv
    OBVIOUS
  <2>1. TypeOK
    BY NoAnswerType DEF Init, TypeOK, PC
  <2>2. Named /\ Rows /\ Held
    BY DEF Init, Named, Rows, Held, Completing, Holding
  <2>3. StoredNow /\ EvidenceVerified /\ AnswersAgree
    BY NoAnswerType DEF Init, StoredNow, EvidenceVerified, AnswersAgree
  <2> QED BY <2>1, <2>2, <2>3 DEF IInv
<1>2. IInv /\ [Next]_vars => IInv'
  <2> SUFFICES ASSUME IInv, [Next]_vars PROVE IInv'
    OBVIOUS
  <2>1. CASE UNCHANGED vars
    BY <2>1 DEF IInv, TypeOK, Named, Rows, Held, StoredNow, EvidenceVerified,
                AnswersAgree, vars, tables, store, inputs
  <2>2. CASE Tick
    <3>1. TypeOK' /\ Named' /\ Rows'
      BY <2>2 DEF IInv, Tick, TypeOK, Named, Rows, IntentRow, tables, store, inputs
    <3>2. Held' /\ StoredNow' /\ EvidenceVerified' /\ AnswersAgree'
      BY <2>2 DEF IInv, Tick, Held, StoredNow, EvidenceVerified, AnswersAgree,
                  tables, store, inputs
    <3> QED BY <3>1, <3>2 DEF IInv
  <2>3. ASSUME NEW r \in Request, Gate(r) \/ Abort(r) PROVE IInv'
    BY <2>3, RefuseStep DEF Gate, Abort
  <2>4. ASSUME NEW r \in Request, BeginCreate(r) PROVE IInv'
    BY <2>4, RefuseStep, BeginStep DEF BeginCreate
  <2>5. ASSUME NEW r \in Request, BeginComplete(r) PROVE IInv'
    <3>1. granted \subseteq Intent
      BY DEF IInv, TypeOK
    <3> QED BY <2>5, <3>1, BeginStep DEF BeginComplete
  <2>6. ASSUME NEW r \in Request, Step(r) PROVE IInv'
    BY <2>6, CreateStep, LoadStep, ReplayStep, HeadStep, CompleteStep DEF Step
  <2> QED BY <2>1, <2>2, <2>3, <2>4, <2>5, <2>6, UploadStep DEF Next
<1> QED BY <1>1, <1>2, PTL DEF Spec

(* Rows, requests and answers keep their types.                            *)
THEOREM IntentsTypeOK == Spec => []TypeOK
BY IntentsInvariant, PTL DEF IInv

(* Only attested objects become evidence (complete).                       *)
THEOREM IntentsEvidenceVerified == Spec => []EvidenceVerified
BY IntentsInvariant, PTL DEF IInv

(* Completion times lie within the life of the capability (complete).      *)
THEOREM IntentsEvidenceInTime == Spec => []EvidenceInTime
<1>1. IInv => EvidenceInTime
  BY DEF IInv, Rows, EvidenceInTime, TypeOK
<1> QED BY <1>1, IntentsInvariant, PTL

(* Every upload is listed once (list_for_case).                            *)
THEOREM IntentsListedOnce == Spec => []ListedOnce
<1>1. IInv => ListedOnce
  <2> SUFFICES ASSUME IInv, NEW i \in Intent, intents[i] # None
               PROVE  \E kind \in {"upload_pending", "processing"} : ListedAs(i) = {kind}
    BY DEF ListedOnce
  <2>1. /\ intents[i].status \in {"pending", "completed"}
        /\ i \in artifacts <=> intents[i].status = "completed"
    BY DEF IInv, Rows, TypeOK, IntentRow
  <2>2. CASE intents[i].status = "pending"
    <3>1. ListedAs(i) = {"upload_pending"}
      BY <2>1, <2>2 DEF ListedAs
    <3> QED BY <3>1
  <2>3. CASE intents[i].status = "completed"
    <3>1. ListedAs(i) = {"processing"}
      BY <2>1, <2>3 DEF ListedAs
    <3> QED BY <3>1
  <2> QED BY <2>1, <2>2, <2>3
<1> QED BY <1>1, IntentsInvariant, PTL

(* All answers about one intent agree (already_completed).                 *)
THEOREM IntentsAnswersAgree == Spec => []AnswersAgree
BY IntentsInvariant, PTL DEF IInv

(* The actor column alone decides what the schema makes of a completion    *)
(* that has come to its inserts: no key and no trigger ever refuses it,    *)
(* and under NOT NULL, the committed schema, no upload becomes evidence.   *)
OnlyActorRefused ==
    /\ \A r \in Request : pc[r] = "insert" => (SchemaAccepts(r) <=> ~ActorRequired)
    /\ ActorRequired => artifacts = {}

(* Whichever way the schema declares case_events.actor_id, it is the only  *)
(* reason for which complete can fail at its inserts, and where it is NOT  *)
(* NULL nothing is ever completed (complete, migration 02).                *)
THEOREM IntentsOnlyActorRefused == Spec => []OnlyActorRefused
<1>1. IInv => \A r \in Request : pc[r] = "insert" => (SchemaAccepts(r) <=> ~ActorRequired)
  BY DEF IInv, Held, Rows, Named, TypeOK, Completing, Holding, SchemaAccepts
<1> DEFINE NoEvidence == ActorRequired => artifacts = {}
<1>2. Init => NoEvidence
  BY DEF Init
<1>3. NoEvidence /\ [Next]_vars => NoEvidence'
  <2> SUFFICES ASSUME ActorRequired, artifacts = {}, [Next]_vars PROVE artifacts' = {}
    OBVIOUS
  <2>1. ASSUME NEW r \in Request, CommitComplete(r) PROVE artifacts' = artifacts
    BY <2>1 DEF CommitComplete, SchemaAccepts, Refuse, tables
  <2>2. CASE \E r \in Request : Gate(r) \/ BeginCreate(r) \/ BeginComplete(r) \/ Abort(r)
    BY <2>2 DEF Gate, BeginCreate, BeginComplete, Begin, Abort, Refuse, tables
  <2>3. ASSUME NEW r \in Request, CommitCreate(r) \/ LoadForCompletion(r)
                                  \/ ReplayCompletion(r) \/ HeadObject(r)
        PROVE  artifacts' = artifacts
    BY <2>3 DEF CommitCreate, LoadForCompletion, ReplayCompletion, HeadObject, Goto, Refuse,
                tables
  <2>4. CASE Tick \/ \E i \in Intent, m \in Metadata : Upload(i, m)
    BY <2>4 DEF Tick, Upload, tables
  <2>5. CASE UNCHANGED vars
    BY <2>5 DEF vars, tables
  <2> QED BY <2>1, <2>2, <2>3, <2>4, <2>5 DEF Next, Step
<1>4. Spec => []NoEvidence
  BY <1>2, <1>3, PTL DEF Spec
<1>5. IInv /\ NoEvidence => OnlyActorRefused
  BY <1>1 DEF OnlyActorRefused
<1> QED BY <1>4, <1>5, IntentsInvariant, PTL
=============================================================================
