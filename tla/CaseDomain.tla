----------------------------- MODULE CaseDomain -----------------------------
(***************************************************************************)
(* The pure case-transition rules of domain/cases.py, and the second       *)
(* encoding of the same rules in the CHECK constraints of the schema       *)
(* migration 20260715_02_case_spine.                                       *)
(*                                                                         *)
(* Identifiers (transition_id, event_id, correlation_id) and wall-clock    *)
(* stamps carry no control and are left out.  The four optional evidence   *)
(* columns of a command (approval_id, verification_note,                   *)
(* knowledge_item_id, note) are abstracted to the set of those that are    *)
(* supplied.                                                               *)
(***************************************************************************)
EXTENDS Naturals

CONSTANTS CaseId,   \* identifiers of cases (uuid4 in the code)
          ActorId   \* identifiers of authenticated subjects

CaseState == {"new", "investigating", "diagnosed", "fix_proposed",
              "needs_information", "confirmed", "resolved", "learned"}

CaseRole == {"org_admin", "operator", "approver", "auditor",
             "integration_admin", "platform_admin"}

ActorKind == {"human", "service", "model"}

\* The optional evidence columns of a transition command.
Evidence == {"approval_id", "verification_note", "knowledge_item_id", "note"}

(* The state graph, as a set of <<from, to>> edges. *)
ALLOWED_TRANSITIONS ==
    {<<"new", "investigating">>,
     <<"investigating", "diagnosed">>,
     <<"investigating", "needs_information">>,
     <<"needs_information", "investigating">>,
     <<"diagnosed", "fix_proposed">>,
     <<"fix_proposed", "confirmed">>,
     <<"confirmed", "resolved">>,
     <<"resolved", "learned">>}

CASE_WRITE_ROLES == {"org_admin", "operator", "approver", "platform_admin"}
CONFIRM_ROLES    == {"org_admin", "approver", "platform_admin"}
RESOLVE_ROLES    == {"org_admin", "operator", "approver", "platform_admin"}

EVENT_TYPES ==
    [new               |-> "case.created.v1",
     investigating     |-> "case.investigating.v1",
     diagnosed         |-> "analysis.completed.v1",
     fix_proposed      |-> "recommendation.proposed.v1",
     needs_information |-> "case.needs_information.v1",
     confirmed         |-> "approval.granted.v1",
     resolved          |-> "case.resolved.v1",
     learned           |-> "memory.indexed.v1"]

EventType == {EVENT_TYPES[s] : s \in CaseState}

(* Actor.__post_init__: humans carry roles, workloads carry none.  An      *)
(* actor record keeps the roles it acted with, so that histories can be    *)
(* judged by them.                                                         *)
Actor == {a \in [actor_id : ActorId, kind : ActorKind, roles : SUBSET CaseRole] :
            (a.kind = "human") <=> (a.roles # {})}

CaseSnapshot == [case_id : CaseId, state : CaseState, version : Nat]

TransitionCommand ==
    [case_id : CaseId, expected_version : Nat, to_state : CaseState,
     actor : Actor, evidence : SUBSET Evidence]

CaseStateTransition ==
    [case_id : CaseId, from_state : CaseState, to_state : CaseState,
     version : Nat, actor : Actor, evidence : SUBSET Evidence]

(* transition is FALSE exactly for events whose transition_id is NULL; a   *)
(* transition is identified by its (case_id, version), which is unique.    *)
CaseEvent ==
    [case_id : CaseId, event_type : EventType, aggregate_version : Nat,
     transition : BOOLEAN]

-----------------------------------------------------------------------------
(* apply_transition and its validators *)

(* Mutant: any writer may confirm. *)
ValidActorAnyWriter(command) ==
    LET actor == command.actor IN
    /\ actor.kind # "model"
    /\ command.to_state \in {"confirmed", "resolved"} => actor.kind = "human"
    /\ actor.kind = "human" => actor.roles \cap CASE_WRITE_ROLES # {}
    /\ command.to_state = "learned" => actor.kind = "service"

ValidActor(command) ==
    LET actor == command.actor IN
    /\ actor.kind # "model"
    /\ command.to_state \in {"confirmed", "resolved"} => actor.kind = "human"
    /\ command.to_state = "confirmed" => actor.roles \cap CONFIRM_ROLES # {}
    /\ command.to_state = "resolved"  => actor.roles \cap RESOLVE_ROLES # {}
    /\ actor.kind = "human" => actor.roles \cap CASE_WRITE_ROLES # {}
    /\ command.to_state = "learned" => actor.kind = "service"

(* Mutant: an approval without its identifier. *)
ValidConstraintsNoApproval(command) ==
    /\ command.to_state = "resolved" => "verification_note" \in command.evidence
    /\ command.to_state = "learned" => "knowledge_item_id" \in command.evidence
    /\ command.to_state = "needs_information" => "note" \in command.evidence

ValidConstraints(command) ==
    /\ command.to_state = "confirmed" => "approval_id" \in command.evidence
    /\ command.to_state = "resolved" => "verification_note" \in command.evidence
    /\ command.to_state = "learned" => "knowledge_item_id" \in command.evidence
    /\ command.to_state = "needs_information" => "note" \in command.evidence

(* Mutant: the version the caller expected is not compared. *)
TransitionErrorAnyVersion(snapshot, command) ==
    IF snapshot.case_id # command.case_id THEN "identity_mismatch"
    ELSE IF <<snapshot.state, command.to_state>> \notin ALLOWED_TRANSITIONS
         THEN "invalid_transition"
    ELSE IF ~ValidActor(command) THEN "authorization"
    ELSE IF ~ValidConstraints(command) THEN "constraint"
    ELSE "none"

(* The exception apply_transition raises, or "none"; the order is the      *)
(* order of the checks in the code.                                        *)
TransitionError(snapshot, command) ==
    IF snapshot.case_id # command.case_id THEN "identity_mismatch"
    ELSE IF snapshot.version # command.expected_version THEN "version_conflict"
    ELSE IF <<snapshot.state, command.to_state>> \notin ALLOWED_TRANSITIONS
         THEN "invalid_transition"
    ELSE IF ~ValidActor(command) THEN "authorization"
    ELSE IF ~ValidConstraints(command) THEN "constraint"
    ELSE "none"

(* The three records of a TransitionOutcome. *)
NextSnapshot(snapshot, command) ==
    [case_id |-> snapshot.case_id,
     state   |-> command.to_state,
     version |-> snapshot.version + 1]

NextTransition(snapshot, command) ==
    [case_id    |-> snapshot.case_id,
     from_state |-> snapshot.state,
     to_state   |-> command.to_state,
     version    |-> snapshot.version + 1,
     actor      |-> command.actor,
     evidence   |-> command.evidence]

NextEvent(transition) ==
    [case_id           |-> transition.case_id,
     event_type        |-> EVENT_TYPES[transition.to_state],
     aggregate_version |-> transition.version,
     transition        |-> TRUE]

CreationEvent(c) ==
    [case_id |-> c, event_type |-> EVENT_TYPES["new"],
     aggregate_version |-> 0, transition |-> FALSE]

-----------------------------------------------------------------------------
(* The same rules as the database states them: the CHECK constraints of    *)
(* case_transitions.  The edges are written out a second time there.       *)
CheckedEdges ==
    {<<"new", "investigating">>, <<"needs_information", "investigating">>,
     <<"diagnosed", "fix_proposed">>, <<"fix_proposed", "confirmed">>,
     <<"confirmed", "resolved">>, <<"resolved", "learned">>}
    \cup {"investigating"} \X {"diagnosed", "needs_information"}

TransitionChecks(t) ==
    /\ t.version > 0
    /\ t.actor.kind \in {"human", "service"}
    /\ <<t.from_state, t.to_state>> \in CheckedEdges
    /\ t.to_state = "confirmed" => /\ t.actor.kind = "human"
                                   /\ "approval_id" \in t.evidence
    /\ t.to_state = "resolved" => /\ t.actor.kind = "human"
                                  /\ "verification_note" \in t.evidence
    /\ t.to_state = "learned" => /\ t.actor.kind = "service"
                                 /\ "knowledge_item_id" \in t.evidence
    /\ t.to_state = "needs_information" => "note" \in t.evidence

(* The deferred trigger netops_assert_case_projection_history, for the     *)
(* update of a projection from OLD to the outcome of transition t written  *)
(* with event e and outbox row o in the same database transaction.         *)
ProjectionTrigger(old, t, e, o) ==
    /\ (t.to_state # old.state) = (t.version # old.version)
    /\ t.to_state # old.state =>
         /\ t.version = old.version + 1
         /\ t.from_state = old.state
         /\ e.case_id = t.case_id /\ e.transition
         /\ e.aggregate_version = t.version
         /\ o = e

-----------------------------------------------------------------------------
(* What a history means, as predicates of a snapshot s and the set H of    *)
(* the transition rows of the same case.                                   *)

(* The rows replay to the snapshot: one per version 1..version, chained    *)
(* from "new" by from_state and to_state, the last leading to the state.   *)
ReplaysTo(H, s) ==
    /\ s.version = 0 => s.state = "new"
    /\ \A v \in 1..s.version : \E t \in H : t.version = v
    /\ \A t \in H :
        /\ t.version \in 1..s.version
        /\ t.version = 1 => t.from_state = "new"
        /\ t.version = s.version => t.to_state = s.state
        /\ \A u \in H : /\ u.version = t.version => u = t
                        /\ u.version = t.version + 1 => u.from_state = t.to_state

(* The states that rest on a human approval. *)
ApprovedState == {"confirmed", "resolved", "learned"}

Approval(t) == /\ t.to_state = "confirmed"
               /\ t.actor.kind = "human"
               /\ t.actor.roles \cap CONFIRM_ROLES # {}
               /\ "approval_id" \in t.evidence

(* An approved state rests on one approval by a human in an approver role; *)
(* after it come only the resolution, at once and by a human, and the      *)
(* learning, by a service.  No model identity appears anywhere.            *)
ApprovedBy(H, s) ==
    /\ \A t \in H :
        /\ t.actor.kind # "model"
        /\ t.to_state = "learned" => t.actor.kind = "service"
        /\ t.to_state \in ApprovedState => s.state \in ApprovedState
    /\ s.state \in ApprovedState =>
        \E t \in H :
            /\ Approval(t)
            /\ \A u \in H :
                /\ u.to_state = "confirmed" => u = t
                /\ u.version > t.version => u.to_state \in {"resolved", "learned"}
                /\ u.to_state = "resolved" =>
                       u.actor.kind = "human" /\ u.version = t.version + 1
=============================================================================
