-------------------------- MODULE CaseDomainProofs --------------------------
(***************************************************************************)
(* Facts about apply_transition on its own: what acceptance implies, and   *)
(* that it extends a history that replays to a snapshot by one row that    *)
(* makes it replay to the next snapshot.                                   *)
(***************************************************************************)
EXTENDS CaseDomain, TLAPS

(* A transition that apply_transition accepts: what it has checked.        *)
LEMMA AcceptedTransition ==
    ASSUME NEW s, NEW command, TransitionError(s, command) = "none"
    PROVE  /\ s.case_id = command.case_id
           /\ s.version = command.expected_version
           /\ <<s.state, command.to_state>> \in ALLOWED_TRANSITIONS
           /\ ValidActor(command)
           /\ ValidConstraints(command)
  BY DEF TransitionError

(* apply_transition returns a snapshot and a transition of their types.    *)
LEMMA OutcomeType ==
    ASSUME NEW s \in CaseSnapshot, NEW command \in TransitionCommand
    PROVE  /\ NextSnapshot(s, command) \in CaseSnapshot
           /\ NextTransition(s, command) \in CaseStateTransition
  BY DEF CaseSnapshot, CaseStateTransition, TransitionCommand,
         NextSnapshot, NextTransition

(* The event of a transition has its type.                                 *)
LEMMA EventOfType ==
    /\ \A t \in CaseStateTransition : NextEvent(t) \in CaseEvent
    /\ \A c \in CaseId : CreationEvent(c) \in CaseEvent
  <1>1. ASSUME NEW t \in CaseStateTransition PROVE NextEvent(t) \in CaseEvent
    <2>1. /\ t.case_id \in CaseId /\ t.version \in Nat /\ t.to_state \in CaseState
          /\ EVENT_TYPES[t.to_state] \in EventType
      BY DEF CaseStateTransition, EventType
    <2> QED
      BY <2>1 DEF NextEvent, CaseEvent
  <1>2. ASSUME NEW c \in CaseId PROVE CreationEvent(c) \in CaseEvent
    <2>1. EVENT_TYPES["new"] \in EventType
      BY DEF EventType, CaseState
    <2> QED
      BY <2>1 DEF CreationEvent, CaseEvent
  <1> QED
    BY <1>1, <1>2

(* An accepted transition extends a replay by one row.                     *)
LEMMA ReplayStep ==
    ASSUME NEW H \in SUBSET CaseStateTransition, NEW s \in CaseSnapshot,
           NEW command \in TransitionCommand, ReplaysTo(H, s)
    PROVE  ReplaysTo(H \cup {NextTransition(s, command)}, NextSnapshot(s, command))
  <1> DEFINE n == NextTransition(s, command)
             z == NextSnapshot(s, command)
             G == H \cup {n}
  <1>1. s.version \in Nat /\ \A t \in H : t.version \in Nat
    BY DEF CaseSnapshot, CaseStateTransition
  <1>2. /\ n.from_state = s.state /\ n.to_state = command.to_state
        /\ n.version = s.version + 1
        /\ z.version = s.version + 1 /\ z.state = command.to_state
    BY DEF NextTransition, NextSnapshot
  <1>3. \A v \in 1..z.version : \E t \in G : t.version = v
    BY <1>1, <1>2 DEF ReplaysTo
  <1>4. ASSUME NEW t \in G
        PROVE  /\ t.version \in 1..z.version
               /\ t.version = 1 => t.from_state = "new"
               /\ t.version = z.version => t.to_state = z.state
    BY <1>1, <1>2 DEF ReplaysTo
  <1>5. ASSUME NEW t \in G, NEW u \in G
        PROVE  /\ u.version = t.version => u = t
               /\ u.version = t.version + 1 => u.from_state = t.to_state
    BY <1>1, <1>2 DEF ReplaysTo
  <1>6. z.version # 0
    BY <1>1, <1>2
  <1> HIDE DEF n, z
  <1> QED
    BY <1>3, <1>4, <1>5, <1>6 DEF ReplaysTo, n, z

(* An accepted transition keeps the approval trail of a history that       *)
(* replays to the snapshot it was accepted for.                            *)
LEMMA ApprovalStep ==
    ASSUME NEW H \in SUBSET CaseStateTransition, NEW s \in CaseSnapshot,
           NEW command \in TransitionCommand,
           ReplaysTo(H, s), ApprovedBy(H, s), TransitionError(s, command) = "none"
    PROVE  ApprovedBy(H \cup {NextTransition(s, command)}, NextSnapshot(s, command))
  <1> DEFINE n == NextTransition(s, command)
             z == NextSnapshot(s, command)
             to == command.to_state
             G == H \cup {n}
             Trail(K, t) == /\ Approval(t)
                            /\ \A u \in K :
                                 /\ u.to_state = "confirmed" => u = t
                                 /\ u.version > t.version =>
                                      u.to_state \in {"resolved", "learned"}
                                 /\ u.to_state = "resolved" =>
                                      /\ u.actor.kind = "human"
                                      /\ u.version = t.version + 1
  <1>1. s.version \in Nat /\ \A t \in H : t.version \in Nat
    BY DEF CaseSnapshot, CaseStateTransition
  <1>2. /\ n.to_state = to /\ n.version = s.version + 1
        /\ n.actor = command.actor /\ n.evidence = command.evidence
        /\ z.state = to
    BY DEF NextTransition, NextSnapshot
  <1>3. /\ <<s.state, to>> \in ALLOWED_TRANSITIONS
        /\ ValidActor(command) /\ ValidConstraints(command)
    BY AcceptedTransition
  <1>4. /\ n.actor.kind # "model"
        /\ to = "learned" => n.actor.kind = "service"
        /\ to = "resolved" => n.actor.kind = "human"
        /\ to = "confirmed" => Approval(n)
    BY <1>2, <1>3 DEF ValidActor, ValidConstraints, Approval
  <1>5. /\ to = "confirmed" => s.state = "fix_proposed"
        /\ to = "resolved" => s.state = "confirmed"
        /\ to = "learned" => s.state = "resolved"
        /\ s.state \in ApprovedState => to \in {"resolved", "learned"}
    BY <1>3 DEF ALLOWED_TRANSITIONS, ApprovedState
  <1>6. \A t \in G :
            /\ t.actor.kind # "model"
            /\ t.to_state = "learned" => t.actor.kind = "service"
            /\ t.to_state \in ApprovedState => z.state \in ApprovedState
    BY <1>2, <1>4, <1>5 DEF ApprovedBy, ApprovedState
  <1>7. CASE to = "confirmed"
    <2>1. \A u \in H : u.to_state \notin ApprovedState
      BY <1>5, <1>7 DEF ApprovedBy, ApprovedState
    <2>2. \A u \in H : u.version <= s.version
      BY <1>1 DEF ReplaysTo
    <2>3. Trail(G, n)
      BY <1>1, <1>2, <1>4, <1>7, <2>1, <2>2 DEF ApprovedState
    <2> QED
      BY <1>6, <2>3 DEF ApprovedBy
  <1>8. CASE to \in {"resolved", "learned"}
    <2>1. s.state \in ApprovedState
      BY <1>5, <1>8 DEF ApprovedState
    <2>2. PICK t \in H : Trail(H, t)
      BY <2>1 DEF ApprovedBy
    <2>3. to = "resolved" => t.version = s.version
      <3> SUFFICES ASSUME to = "resolved", t.version # s.version PROVE FALSE
        OBVIOUS
      <3>1. t.version < s.version
        BY <1>1 DEF ReplaysTo
      <3>2. PICK u \in H : u.version = s.version
        BY <1>1, <3>1 DEF ReplaysTo
      <3>3. u.to_state = "confirmed" /\ u.version > t.version
        BY <1>1, <1>5, <3>1, <3>2 DEF ReplaysTo
      <3> QED
        BY <2>2, <3>3
    <2>4. Trail(G, t)
      BY <1>1, <1>2, <1>4, <1>8, <2>2, <2>3
    <2> QED
      BY <1>6, <2>2, <2>4 DEF ApprovedBy
  <1>9. CASE to \notin ApprovedState
    BY <1>2, <1>6, <1>9 DEF ApprovedBy
  <1> QED
    BY <1>7, <1>8, <1>9 DEF ApprovedState
=============================================================================
