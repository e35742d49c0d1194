--------------------------- MODULE CaseLifecycle ---------------------------
(***************************************************************************)
(* What the case spine promises, with all concurrency abstracted away: a   *)
(* case is created once as "new" at version 0, and from then on changes    *)
(* only by transitions that apply_transition accepts for its current       *)
(* snapshot, each leaving one immutable row of history.  Every kind of     *)
(* actor the domain knows may submit commands, the indexing service (which *)
(* has no caller in this repository yet) and models included.              *)
(***************************************************************************)
EXTENDS CaseDomain

CONSTANTS Actors,         \* the actors that submit commands
          EvidenceInput,  \* the sets of evidence a command may carry
          MaxVersion,     \* bound: no command expects a later version
          None            \* NULL

ASSUME LifecycleAssumption ==
    /\ Actors \subseteq Actor
    /\ EvidenceInput \subseteq SUBSET Evidence
    /\ MaxVersion \in Nat
    /\ None \notin CaseSnapshot

VARIABLES projection,  \* the current snapshot of each case, or None
          history      \* the immutable case_transitions rows

vars == <<projection, history>>

Init == /\ projection = [c \in CaseId |-> None]
        /\ history = {}

Create(c) ==
    /\ projection[c] = None
    /\ projection' = [projection EXCEPT
                        ![c] = [case_id |-> c, state |-> "new", version |-> 0]]
    /\ UNCHANGED history

(* CaseService.transition, as one atomic step. *)
Transition(c, to, a, ev) ==
    /\ projection[c] # None
    /\ projection[c].version <= MaxVersion
    /\ LET command == [case_id |-> c, expected_version |-> projection[c].version,
                       to_state |-> to, actor |-> a, evidence |-> ev]
       IN /\ TransitionError(projection[c], command) = "none"
          /\ projection' = [projection EXCEPT
                              ![c] = NextSnapshot(projection[c], command)]
          /\ history' = history \cup {NextTransition(projection[c], command)}

Next == \E c \in CaseId :
            \/ Create(c)
            \/ \E to \in CaseState, a \in Actors, ev \in EvidenceInput :
                   Transition(c, to, a, ev)

Spec == Init /\ [][Next]_vars

-----------------------------------------------------------------------------

TypeOK == /\ projection \in [CaseId -> CaseSnapshot \cup {None}]
          /\ history \subseteq CaseStateTransition

HistoryOf(c) == {t \in history : t.case_id = c}

(* The case_transitions rows of a case exist only once it is created, and  *)
(* replay to its projection (apply_transition; the unique (case_id,        *)
(* version) of case_transitions).                                          *)
HistoryReplays ==
    \A c \in CaseId : IF projection[c] = None THEN HistoryOf(c) = {}
                      ELSE ReplaysTo(HistoryOf(c), projection[c])

(* A case is confirmed, or past confirmation, only on the strength of an   *)
(* approval in its history by a human in an approver role; a human         *)
(* resolved it, a service learned from it, and no model moved it           *)
(* (_validate_actor and _validate_transition_constraints).                 *)
ApprovalTrail ==
    \A c \in CaseId :
        projection[c] # None => ApprovedBy(HistoryOf(c), projection[c])
=============================================================================
