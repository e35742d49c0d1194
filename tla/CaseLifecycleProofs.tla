------------------------ MODULE CaseLifecycleProofs ------------------------
(***************************************************************************)
(* The safety of the atomic lifecycle and of the queue that is read beside *)
(* it, for every set of cases, actors and evidence, every version bound    *)
(* and every length of a page.                                             *)
(***************************************************************************)
EXTENDS CaseQueue, CaseDomainProofs, FiniteSetTheorems, WellFoundedInduction

(* The accepted command moves case c from its snapshot to the next one and *)
(* leaves every other case alone.                                          *)
Moves(c, command) ==
    LET s == projection[c]
        n == NextTransition(s, command)
    IN /\ s # None /\ s \in CaseSnapshot
       /\ TransitionError(s, command) = "none"
       /\ projection' = [projection EXCEPT ![c] = NextSnapshot(s, command)]
       /\ history' = history \cup {n}
       /\ HistoryOf(c)' = HistoryOf(c) \cup {n}
       /\ \A d \in CaseId \ {c} : /\ HistoryOf(d)' = HistoryOf(d)
                                  /\ projection'[d] = projection[d]

(* Every transition is such a move.                                        *)
LEMMA TransitionMoves ==
    ASSUME TypeOK, NEW c \in CaseId, NEW to \in CaseState, NEW a \in Actors,
           NEW ev \in EvidenceInput, Transition(c, to, a, ev)
    PROVE  \E command \in TransitionCommand : Moves(c, command)
  <1> DEFINE s == projection[c]
             command == [case_id |-> c, expected_version |-> s.version,
                         to_state |-> to, actor |-> a, evidence |-> ev]
             n == NextTransition(s, command)
  <1>1. s # None /\ s \in CaseSnapshot
    BY DEF TypeOK, Transition
  <1>2. command \in TransitionCommand
    BY <1>1, LifecycleAssumption DEF TransitionCommand, CaseSnapshot
  <1>3. /\ TransitionError(s, command) = "none"
        /\ projection' = [projection EXCEPT ![c] = NextSnapshot(s, command)]
        /\ history' = history \cup {n}
    BY DEF Transition
  <1>4. n.case_id = c
    <2>1. s.case_id = command.case_id
      BY <1>3, AcceptedTransition
    <2> QED
      BY <2>1 DEF NextTransition
  <1>5. /\ HistoryOf(c)' = HistoryOf(c) \cup {n}
        /\ \A d \in CaseId \ {c} : HistoryOf(d)' = HistoryOf(d)
    BY <1>3, <1>4 DEF HistoryOf
  <1>6. \A d \in CaseId \ {c} : projection'[d] = projection[d]
    BY <1>3 DEF TypeOK
  <1> QED
    BY <1>1, <1>2, <1>3, <1>5, <1>6 DEF Moves

(* What the creation of a case does.                                       *)
LEMMA CreateStep ==
    ASSUME TypeOK, HistoryReplays, NEW c \in CaseId, Create(c)
    PROVE  /\ projection' = [projection EXCEPT ![c] =
                    [case_id |-> c, state |-> "new", version |-> 0]]
           /\ projection'[c] \in CaseSnapshot
           /\ projection'[c].version = 0 /\ projection'[c].state = "new"
           /\ HistoryOf(c)' = {}
           /\ \A d \in CaseId \ {c} : /\ HistoryOf(d)' = HistoryOf(d)
                                      /\ projection'[d] = projection[d]
  <1>1. HistoryOf(c) = {}
    BY DEF Create, HistoryReplays
  <1>2. [case_id |-> c, state |-> "new", version |-> 0] \in CaseSnapshot
    BY DEF CaseSnapshot, CaseState
  <1> QED
    BY <1>1, <1>2 DEF Create, TypeOK, HistoryOf

(* Every row of the lifecycle has its type.                                *)
THEOREM LifecycleTypeOK == Spec => []TypeOK
  <1>1. Init => TypeOK
    BY DEF Init, TypeOK
  <1>2. TypeOK /\ [Next]_vars => TypeOK'
    <2> SUFFICES ASSUME TypeOK, [Next]_vars PROVE TypeOK'
      OBVIOUS
    <2>1. ASSUME NEW c \in CaseId, Create(c) PROVE TypeOK'
      <3>1. [case_id |-> c, state |-> "new", version |-> 0] \in CaseSnapshot
        BY DEF CaseSnapshot, CaseState
      <3> QED
        BY <2>1, <3>1 DEF TypeOK, Create
    <2>2. ASSUME NEW c \in CaseId, NEW to \in CaseState, NEW a \in Actors,
                 NEW ev \in EvidenceInput, Transition(c, to, a, ev)
          PROVE  TypeOK'
      BY <2>2, TransitionMoves, OutcomeType DEF TypeOK, Moves
    <2>3. CASE UNCHANGED vars
      BY <2>3 DEF TypeOK, vars
    <2> QED
      BY <2>1, <2>2, <2>3 DEF Next
  <1> QED
    BY <1>1, <1>2, PTL DEF Spec

(* The case_transitions rows of every case replay to its projection, for   *)
(* any number of cases and versions (apply_transition).                    *)
THEOREM LifecycleHistoryReplays == Spec => []HistoryReplays
  <1>1. Init => HistoryReplays
    BY DEF Init, HistoryReplays, HistoryOf
  <1>2. TypeOK /\ HistoryReplays /\ [Next]_vars => HistoryReplays'
    <2> SUFFICES ASSUME TypeOK, HistoryReplays, [Next]_vars
                 PROVE  HistoryReplays'
      OBVIOUS
    <2>1. ASSUME NEW c \in CaseId, Create(c) PROVE HistoryReplays'
      <3>1. ReplaysTo(HistoryOf(c)', projection'[c])
        BY <2>1, CreateStep DEF ReplaysTo
      <3>2. projection'[c] # None
        BY <2>1, CreateStep, LifecycleAssumption
      <3> QED
        BY <2>1, <3>1, <3>2, CreateStep DEF HistoryReplays
    <2>2. ASSUME NEW c \in CaseId, NEW to \in CaseState, NEW a \in Actors,
                 NEW ev \in EvidenceInput, Transition(c, to, a, ev)
          PROVE  HistoryReplays'
      <3>1. PICK command \in TransitionCommand : Moves(c, command)
        BY <2>2, TransitionMoves
      <3>2. /\ HistoryOf(c) \in SUBSET CaseStateTransition
            /\ ReplaysTo(HistoryOf(c), projection[c])
        BY <3>1 DEF TypeOK, HistoryOf, HistoryReplays, Moves
      <3>3. projection'[c] = NextSnapshot(projection[c], command)
        BY <3>1 DEF TypeOK, Moves
      <3>4. projection'[c] # None
        BY <3>1, <3>3, OutcomeType, LifecycleAssumption DEF Moves
      <3>5. ReplaysTo(HistoryOf(c)', projection'[c])
        BY <3>1, <3>2, <3>3, ReplayStep DEF Moves
      <3> QED
        BY <3>1, <3>4, <3>5 DEF HistoryReplays, Moves
    <2>3. CASE UNCHANGED vars
      BY <2>3 DEF vars, HistoryReplays, HistoryOf
    <2> QED
      BY <2>1, <2>2, <2>3 DEF Next
  <1> QED
    BY <1>1, <1>2, LifecycleTypeOK, PTL DEF Spec

(* No case is confirmed, resolved or learned without the approval of a     *)
(* human in an approver role in its history, and no model ever moved one   *)
(* (_validate_actor, _validate_transition_constraints).  Inductive with    *)
(* HistoryReplays, which places the last row at the current state.         *)
THEOREM LifecycleApprovalTrail == Spec => []ApprovalTrail
  <1>1. Init => ApprovalTrail
    BY DEF Init, ApprovalTrail
  <1>2. TypeOK /\ HistoryReplays /\ ApprovalTrail /\ [Next]_vars => ApprovalTrail'
    <2> SUFFICES ASSUME TypeOK, HistoryReplays, ApprovalTrail, [Next]_vars
                 PROVE  ApprovalTrail'
      OBVIOUS
    <2>1. ASSUME NEW c \in CaseId, Create(c) PROVE ApprovalTrail'
      <3>1. ApprovedBy(HistoryOf(c)', projection'[c])
        BY <2>1, CreateStep DEF ApprovedBy, ApprovedState
      <3> QED
        BY <2>1, <3>1, CreateStep DEF ApprovalTrail
    <2>2. ASSUME NEW c \in CaseId, NEW to \in CaseState, NEW a \in Actors,
                 NEW ev \in EvidenceInput, Transition(c, to, a, ev)
          PROVE  ApprovalTrail'
      <3>1. PICK command \in TransitionCommand : Moves(c, command)
        BY <2>2, TransitionMoves
      <3>2. /\ HistoryOf(c) \in SUBSET CaseStateTransition
            /\ ReplaysTo(HistoryOf(c), projection[c])
            /\ ApprovedBy(HistoryOf(c), projection[c])
        BY <3>1 DEF TypeOK, HistoryOf, HistoryReplays, ApprovalTrail, Moves
      <3>3. projection'[c] = NextSnapshot(projection[c], command)
        BY <3>1 DEF TypeOK, Moves
      <3>4. ApprovedBy(HistoryOf(c)', projection'[c])
        BY <3>1, <3>2, <3>3, ApprovalStep DEF Moves
      <3> QED
        BY <3>1, <3>4 DEF ApprovalTrail, Moves
    <2>3. CASE UNCHANGED vars
      BY <2>3 DEF vars, ApprovalTrail, HistoryOf
    <2> QED
      BY <2>1, <2>2, <2>3 DEF Next
  <1> QED
    BY <1>1, <1>2, LifecycleTypeOK, LifecycleHistoryReplays, PTL DEF Spec

-----------------------------------------------------------------------------
(* The order of the queue *)

(* Case d comes before case c in the list. *)
Prior(d, c) == After(CursorOf(c), CursorOf(d))

(* Finitely many cases, each with its time stamp. *)
Sortable(rows) == /\ rows \subseteq CaseId /\ IsFiniteSet(rows)
                  /\ \A c \in rows : updated[c] \in Nat

Before(rows, c) == {d \in rows : Prior(d, c)}

(* ORDER BY updated_at DESC, id DESC is a strict total order of the rows.  *)
LEMMA ListOrder ==
    ASSUME NEW rows, Sortable(rows)
    PROVE  /\ \A c \in rows : ~ Prior(c, c)
           /\ \A c, d \in rows : c = d \/ Prior(c, d) \/ Prior(d, c)
           /\ \A c, d \in rows : Prior(c, d) => ~ Prior(d, c)
           /\ \A c, d, e \in rows : Prior(c, d) /\ Prior(d, e) => Prior(c, e)
  <1>1. \A c \in rows : c \in Nat /\ updated[c] \in Nat
    BY QueueAssumption DEF Sortable
  <1>2. \A c, d \in rows :
           Prior(d, c) <=> updated[c] < updated[d] \/ (updated[c] = updated[d] /\ c < d)
    BY DEF Prior, After, CursorOf
  <1> QED BY <1>1, <1>2

LEMMA LeastNumber ==
    ASSUME NEW T, T \subseteq Nat, T # {}
    PROVE  \E m \in T : \A n \in T : m <= n
  <1>1. PICK m \in T : \A n \in T : ~ (<<n, m>> \in OpToRel(<, Nat))
    BY WFMin, NatLessThanWellFounded, Zenon
  <1>2. \A n \in T : ~ (n < m)
    BY <1>1 DEF OpToRel
  <1> QED BY <1>2

(* The rows before another are finitely many, and fewer before one that    *)
(* comes earlier.                                                          *)
LEMMA BeforeSize ==
    ASSUME NEW rows, Sortable(rows), NEW c \in rows
    PROVE  /\ IsFiniteSet(Before(rows, c))
           /\ Cardinality(Before(rows, c)) \in Nat
           /\ \A d \in rows : Prior(d, c) =>
                 Cardinality(Before(rows, d)) < Cardinality(Before(rows, c))
  <1>1. \A d \in rows : /\ IsFiniteSet(Before(rows, d))
                        /\ Cardinality(Before(rows, d)) \in Nat
    <2> TAKE d \in rows
    <2>1. IsFiniteSet(rows) /\ Before(rows, d) \in SUBSET rows
      BY DEF Sortable, Before
    <2>2. IsFiniteSet(Before(rows, d))
      BY <2>1, FS_Subset
    <2> QED BY <2>2, FS_CardinalityType
  <1>2. ASSUME NEW d \in rows, Prior(d, c)
        PROVE  Cardinality(Before(rows, d)) < Cardinality(Before(rows, c))
    <2>1. Before(rows, d) \in SUBSET Before(rows, c)
      BY <1>2, ListOrder DEF Before
    <2>2. d \in Before(rows, c) /\ d \notin Before(rows, d)
      BY <1>2, ListOrder DEF Before
    <2>3. /\ Cardinality(Before(rows, d)) <= Cardinality(Before(rows, c))
          /\ Cardinality(Before(rows, c)) = Cardinality(Before(rows, d)) =>
                Before(rows, c) = Before(rows, d)
      BY <1>1, <2>1, FS_Subset
    <2>4. Cardinality(Before(rows, c)) # Cardinality(Before(rows, d))
      BY <2>2, <2>3
    <2> QED BY <1>1, <2>3, <2>4
  <1> QED BY <1>1, <1>2

(* Some rows of a list, if any, have a first and a last among them. *)
LEMMA FirstRow ==
    ASSUME NEW rows, Sortable(rows), NEW some, some \subseteq rows, some # {}
    PROVE  \E c \in some : \A d \in some : ~ Prior(d, c)
  <1> DEFINE ranks == {Cardinality(Before(rows, c)) : c \in some}
  <1>1. ranks \subseteq Nat /\ ranks # {}
    BY BeforeSize
  <1>2. PICK m \in ranks : \A n \in ranks : m <= n
    BY <1>1, LeastNumber
  <1>3. PICK c \in some : m = Cardinality(Before(rows, c))
    BY <1>2
  <1>4. ASSUME NEW d \in some, Prior(d, c) PROVE FALSE
    <2>1. /\ Cardinality(Before(rows, d)) \in Nat /\ Cardinality(Before(rows, c)) \in Nat
          /\ Cardinality(Before(rows, d)) < Cardinality(Before(rows, c))
      BY <1>4, BeforeSize
    <2>2. Cardinality(Before(rows, c)) <= Cardinality(Before(rows, d))
      BY <1>2, <1>3
    <2> QED BY <2>1, <2>2
  <1> QED BY <1>4

LEMMA LastRow ==
    ASSUME NEW rows, Sortable(rows), NEW some, some \subseteq rows, some # {}
    PROVE  \E c \in some : \A d \in some : ~ Prior(c, d)
  <1> DEFINE size == Cardinality(rows)
             rest(c) == size - Cardinality(Before(rows, c))
             ranks == {rest(c) : c \in some}
  <1>1. \A c \in rows : rest(c) \in Nat
    <2> TAKE c \in rows
    <2>1. IsFiniteSet(rows) /\ Before(rows, c) \in SUBSET rows
      BY DEF Sortable, Before
    <2>2. size \in Nat /\ Cardinality(Before(rows, c)) \in Nat
      BY <2>1, FS_CardinalityType, BeforeSize
    <2>3. Cardinality(Before(rows, c)) <= size
      BY <2>1, FS_Subset
    <2> QED BY <2>2, <2>3
  <1>2. ranks \subseteq Nat /\ ranks # {}
    BY <1>1
  <1>3. PICK m \in ranks : \A n \in ranks : m <= n
    BY <1>2, LeastNumber
  <1>4. PICK c \in some : m = rest(c)
    BY <1>3
  <1>5. ASSUME NEW d \in some, Prior(c, d) PROVE FALSE
    <2>1. /\ Cardinality(Before(rows, d)) \in Nat /\ Cardinality(Before(rows, c)) \in Nat
          /\ Cardinality(Before(rows, c)) < Cardinality(Before(rows, d))
      BY <1>5, BeforeSize
    <2>2. rest(c) <= rest(d)
      BY <1>3, <1>4
    <2>3. size \in Nat
      BY FS_CardinalityType DEF Sortable
    <2> QED BY <2>1, <2>2, <2>3
  <1> QED BY <1>5

-----------------------------------------------------------------------------
(* A page, and what follows it *)

LEMMA FirstOfRows ==
    ASSUME NEW rows, NEW n
    PROVE  FirstOf(rows, n) = {c \in rows : Cardinality(Before(rows, c)) < n}
  BY DEF FirstOf, Before, Prior

(* The row that follows immediately after the last of those before it has  *)
(* one more before it.                                                     *)
LEMMA Successor ==
    ASSUME NEW rows, Sortable(rows), NEW c \in rows, Before(rows, c) # {}
    PROVE  \E d \in Before(rows, c) :
              Cardinality(Before(rows, c)) = Cardinality(Before(rows, d)) + 1
  <1>1. Before(rows, c) \subseteq rows
    BY DEF Before
  <1>2. PICK d \in Before(rows, c) : \A e \in Before(rows, c) : ~ Prior(d, e)
    BY <1>1, LastRow
  <1>3. d \in rows /\ Prior(d, c) /\ d \notin Before(rows, d)
    BY <1>2, ListOrder DEF Before
  <1>4. Before(rows, c) = Before(rows, d) \cup {d}
    <2>1. ASSUME NEW e \in Before(rows, c), e # d PROVE e \in Before(rows, d)
      BY <1>2, <1>3, <2>1, ListOrder DEF Before
    <2>2. ASSUME NEW e \in Before(rows, d) PROVE e \in Before(rows, c)
      BY <1>3, <2>2, ListOrder DEF Before
    <2> QED BY <1>2, <2>1, <2>2
  <1>5. IsFiniteSet(Before(rows, d))
    BY <1>3, BeforeSize
  <1>6. Cardinality(Before(rows, d) \cup {d}) = Cardinality(Before(rows, d)) + 1
    BY <1>3, <1>5, FS_AddElement
  <1> QED BY <1>4, <1>6

(* A row that is not among the first n is after n + 1 of the first n + 1. *)
LEMMA MoreThanFit ==
    ASSUME NEW rows, Sortable(rows), NEW n \in Nat \ {0},
           NEW c \in rows, c \notin FirstOf(rows, n)
    PROVE  /\ FirstOf(rows, n) # {}
           /\ Cardinality(FirstOf(rows, n + 1)) > n
  <1> DEFINE size(d) == Cardinality(Before(rows, d))
             late == {d \in rows : size(d) >= n}
  <1>1. \A d \in rows : size(d) \in Nat /\ IsFiniteSet(Before(rows, d))
    BY BeforeSize
  <1> HIDE DEF size
  <1>2. c \in late /\ late \subseteq rows
    BY <1>1, FirstOfRows DEF size
  <1>3. PICK m \in late : \A d \in late : ~ Prior(d, m)
    BY <1>2, FirstRow
  <1>4. m \in rows /\ size(m) >= n /\ size(m) \in Nat
    BY <1>1, <1>3
  <1>5. Before(rows, m) # {}
    BY <1>4, FS_EmptySet DEF size
  <1>6. PICK d \in Before(rows, m) : size(m) = size(d) + 1
    BY <1>4, <1>5, Successor DEF size
  <1>7. \A e \in Before(rows, m) : e \in rows /\ size(e) \in Nat /\ size(e) < n
    <2> TAKE e \in Before(rows, m)
    <2>1. e \in rows /\ Prior(e, m)
      BY DEF Before
    <2>2. e \notin late
      BY <1>3, <2>1
    <2> QED BY <1>1, <2>1, <2>2
  <1>8. size(m) = n
    BY <1>4, <1>6, <1>7
  <1>9. d \in FirstOf(rows, n)
    BY <1>6, <1>7, FirstOfRows DEF size
  <1>10. Before(rows, m) \cup {m} \subseteq FirstOf(rows, n + 1)
    <2>1. \A e \in Before(rows, m) \cup {m} : e \in rows /\ size(e) < n + 1
      BY <1>4, <1>7, <1>8
    <2> QED BY <2>1, FirstOfRows DEF size
  <1>11. m \notin Before(rows, m)
    BY <1>4, ListOrder DEF Before
  <1>12. /\ IsFiniteSet(Before(rows, m) \cup {m})
         /\ Cardinality(Before(rows, m) \cup {m}) = n + 1
    <2>1. IsFiniteSet(Before(rows, m)) /\ Cardinality(Before(rows, m)) = n
      BY <1>1, <1>4, <1>8 DEF size
    <2> QED BY <1>11, <2>1, FS_AddElement
  <1>13. IsFiniteSet(FirstOf(rows, n + 1))
    <2>1. FirstOf(rows, n + 1) \in SUBSET rows /\ IsFiniteSet(rows)
      BY FirstOfRows DEF Sortable
    <2> QED BY <2>1, FS_Subset
  <1>14. /\ n + 1 <= Cardinality(FirstOf(rows, n + 1))
         /\ Cardinality(FirstOf(rows, n + 1)) \in Nat
    <2>1. Cardinality(Before(rows, m) \cup {m}) <= Cardinality(FirstOf(rows, n + 1))
      BY <1>10, <1>13, FS_Subset
    <2> QED BY <1>12, <1>13, <2>1, FS_CardinalityType
  <1> QED BY <1>9, <1>14

(* If n + 1 rows can be read, one of them is not among the first n. *)
LEMMA SomeDoNotFit ==
    ASSUME NEW rows, Sortable(rows), NEW n \in Nat \ {0},
           Cardinality(FirstOf(rows, n + 1)) > n
    PROVE  FirstOf(rows, n) # {} /\ \E c \in rows : c \notin FirstOf(rows, n)
  <1>1. SUFFICES ASSUME \A c \in rows : c \in FirstOf(rows, n)
                 PROVE  FALSE
    <2>1. rows # {}
      <3>1. SUFFICES ASSUME rows = {} PROVE FALSE
        OBVIOUS
      <3>2. FirstOf(rows, n + 1) = {}
        BY <3>1, FirstOfRows
      <3>3. Cardinality({}) = 0
        BY FS_EmptySet
      <3> QED BY <3>2, <3>3
    <2>2. PICK c \in rows : c \notin FirstOf(rows, n)
      BY <1>1
    <2>3. FirstOf(rows, n) # {}
      BY <2>2, MoreThanFit
    <2> QED BY <2>2, <2>3
  <1>2. \A c \in rows : /\ Cardinality(Before(rows, c)) \in Nat
                        /\ Cardinality(Before(rows, c)) < n
    BY <1>1, BeforeSize, FirstOfRows
  <1>3. FirstOf(rows, n + 1) = rows
    <2>1. \A c \in rows : Cardinality(Before(rows, c)) < n + 1
      BY <1>2
    <2>2. FirstOf(rows, n + 1) = {c \in rows : Cardinality(Before(rows, c)) < n + 1}
      BY FirstOfRows
    <2> QED BY <2>1, <2>2
  <1>4. rows # {}
    BY <1>3, FS_EmptySet
  <1>5. PICK last \in rows : \A d \in rows : ~ Prior(last, d)
    BY <1>4, LastRow
  <1>6. rows = Before(rows, last) \cup {last} /\ last \notin Before(rows, last)
    BY <1>5, ListOrder DEF Before
  <1>7. IsFiniteSet(Before(rows, last))
    BY BeforeSize
  <1>8. Cardinality(Before(rows, last) \cup {last}) = Cardinality(Before(rows, last)) + 1
    BY <1>6, <1>7, FS_AddElement
  <1>9. Cardinality(rows) = Cardinality(Before(rows, last)) + 1
    BY <1>6, <1>8
  <1> QED BY <1>2, <1>3, <1>9

(* next_cursor is the key of the last row of the page: every row is on the *)
(* page or behind the cursor, and there is a cursor just when some are     *)
(* behind it.                                                              *)
LEMMA PageCut ==
    ASSUME NEW rows, Sortable(rows)
    PROVE  /\ NextCursor(rows) = None <=> \A c \in rows : c \in FirstOf(rows, PageLimit)
           /\ NextCursor(rows) # None =>
                 \A c \in rows : c \notin FirstOf(rows, PageLimit)
                                    <=> After(CursorOf(c), NextCursor(rows))
  <1> DEFINE first == FirstOf(rows, PageLimit)
  <1>0. PageLimit \in Nat \ {0}
    BY QueueAssumption
  <1>1. CASE \A c \in rows : c \in first
    <2>1. ~ (Cardinality(FirstOf(rows, PageLimit + 1)) > PageLimit)
      BY <1>0, <1>1, SomeDoNotFit
    <2> QED BY <1>1, <2>1 DEF NextCursor
  <1>2. CASE \E c \in rows : c \notin first
    <2>1. first # {} /\ Cardinality(FirstOf(rows, PageLimit + 1)) > PageLimit
      BY <1>0, <1>2, MoreThanFit
    <2>2. first \subseteq rows
      BY FirstOfRows
    <2>3. \E c \in first : \A d \in first : ~ Prior(c, d)
      BY <2>1, <2>2, LastRow
    <2> DEFINE last == LastOf(first)
    <2>4. last \in first /\ \A d \in first : ~ Prior(last, d)
      BY <2>3 DEF LastOf, Prior
    <2> HIDE DEF last
    <2>5. NextCursor(rows) = CursorOf(last)
      BY <2>1 DEF NextCursor, last
    <2>6. CursorOf(last) # None
      <3>1. CursorOf(last) \in Nat \X CaseId
        BY <2>2, <2>4 DEF CursorOf, Sortable
      <3> QED BY <3>1, QueueAssumption
    <2>7. ASSUME NEW c \in rows, c \notin first PROVE Prior(last, c)
      <3>1. last \in rows /\ last # c
        BY <2>2, <2>4, <2>7
      <3>2. ~ Prior(c, last)
        <4>1. SUFFICES ASSUME Prior(c, last) PROVE FALSE
          OBVIOUS
        <4>2. /\ Cardinality(Before(rows, c)) < Cardinality(Before(rows, last))
              /\ Cardinality(Before(rows, c)) \in Nat
              /\ Cardinality(Before(rows, last)) \in Nat
          BY <3>1, <4>1, BeforeSize
        <4>3. Cardinality(Before(rows, last)) < PageLimit
          BY <2>4, FirstOfRows
        <4>4. Cardinality(Before(rows, c)) < PageLimit
          BY <1>0, <4>2, <4>3
        <4> QED BY <2>7, <4>4, FirstOfRows
      <3> QED BY <3>1, <3>2, ListOrder
    <2>8. \A c \in rows : c \notin first <=> After(CursorOf(c), CursorOf(last))
      BY <2>4, <2>7 DEF Prior
    <2> QED BY <1>2, <2>5, <2>6, <2>8
  <1> QED BY <1>1, <1>2

-----------------------------------------------------------------------------
(* The walk through the queue *)

(* Finitely many cases exist, and each has its updated_at. *)
Stamped ==
    /\ updated \in [CaseId -> Time \cup {None}]
    /\ IsFiniteSet({c \in CaseId : projection[c] # None})
    /\ \A c \in CaseId : projection[c] # None => updated[c] \in Time

SteadyMatch == steady \subseteq CaseId /\ \A c \in steady : Matches(c, filter)

(* What is left to list lies behind the cursor of the page on screen too,  *)
(* or that page could not be reloaded.                                     *)
LeftBehind(cursor) ==
    \A c \in steady : c \in listed \/ cursor = None \/ After(CursorOf(c), cursor)

(* As long as nothing moves, the page on screen is what it would be if it  *)
(* were read again.                                                        *)
PageIsCurrent ==
    walk = "shown" /\ ~moved =>
        page = FirstOf(Rows(at), PageLimit) /\ next = NextCursor(Rows(at))

QueueInv == /\ Stamped /\ SteadyMatch
            /\ walk = "shown" => LeftBehind(at)
            /\ NothingSkipped /\ PageIsCurrent

LEMMA RowsSortable ==
    ASSUME Stamped, NEW cursor
    PROVE  Sortable(Rows(cursor))
  <1>1. Rows(cursor) \in SUBSET {c \in CaseId : projection[c] # None}
    BY DEF Rows, Matches
  <1>2. IsFiniteSet(Rows(cursor))
    BY <1>1, FS_Subset DEF Stamped
  <1>3. Time \subseteq Nat
    BY QueueAssumption DEF Time
  <1> QED BY <1>1, <1>2, <1>3 DEF Stamped, Sortable

(* One page further, or the same page again: what was left to list behind  *)
(* the cursor is on the page or behind the next one.                       *)
LEMMA LoadStep ==
    ASSUME QueueInv, NEW cursor, LeftBehind(cursor), Load(cursor)
    PROVE  QueueInv'
  <1> DEFINE rows == Rows(cursor)
  <1>1. /\ at' = cursor /\ page' = FirstOf(rows, PageLimit) /\ next' = NextCursor(rows)
        /\ listed' = listed \cup FirstOf(rows, PageLimit) /\ walk' = "shown"
        /\ UNCHANGED <<projection, history, updated, filter, steady>>
    BY DEF Load, vars
  <1>2. Stamped' /\ SteadyMatch'
    BY <1>1 DEF QueueInv, Stamped, SteadyMatch, Matches
  <1>3. LeftBehind(at)'
    BY <1>1 DEF LeftBehind, CursorOf
  <1>4. Sortable(rows)
    BY RowsSortable DEF QueueInv
  <1>5. NothingSkipped'
    <2>1. ASSUME NEW c \in steady, c \notin listed, c \notin FirstOf(rows, PageLimit)
          PROVE  NextCursor(rows) # None /\ After(CursorOf(c), NextCursor(rows))
      <3>1. c \in rows
        BY <2>1 DEF QueueInv, SteadyMatch, LeftBehind, Rows, Behind, After
      <3> QED BY <1>4, <2>1, <3>1, PageCut
    <2> QED BY <1>1, <2>1 DEF NothingSkipped, CursorOf
  <1>6. PageIsCurrent'
    <2>1. Rows(at)' = rows
      BY <1>1 DEF Rows, Matches, CursorOf
    <2>2. /\ FirstOf(rows, PageLimit)' = FirstOf(rows, PageLimit)
          /\ NextCursor(rows)' = NextCursor(rows)
      BY <1>1, <2>1 DEF NextCursor, LastOf, FirstOf, CursorOf, Rows, Matches
    <2> QED BY <1>1, <2>1, <2>2 DEF PageIsCurrent
  <1> QED BY <1>1, <1>2, <1>3, <1>5, <1>6 DEF QueueInv

(* A case that moves gets a new time stamp and is steady no longer.        *)
LEMMA TouchStep ==
    ASSUME QueueInv, NEW c \in CaseId, Touch(c),
           \A d \in CaseId \ {c} : projection'[d] = projection[d]
    PROVE  QueueInv'
  <1>1. PICK t \in Time : updated' = [updated EXCEPT ![c] = t]
    BY DEF Touch
  <1>2. /\ steady' = steady \ {c} /\ moved' = TRUE
        /\ UNCHANGED <<filter, walk, at, next, page, listed>>
    BY DEF Touch, reader
  <1>3. /\ updated' \in [CaseId -> Time \cup {None}] /\ updated'[c] = t
        /\ \A d \in CaseId \ {c} : updated'[d] = updated[d]
    BY <1>1 DEF QueueInv, Stamped
  <1>4. \A d \in steady' : d \in steady /\ d \in CaseId \ {c}
    BY <1>2 DEF QueueInv, SteadyMatch
  <1>5. Stamped'
    <2> DEFINE created == {d \in CaseId : projection[d] # None}
    <2>1. IsFiniteSet(created \cup {c})
      BY FS_AddElement DEF QueueInv, Stamped
    <2>2. created' \in SUBSET (created \cup {c})
      OBVIOUS
    <2> HIDE DEF created
    <2>3. IsFiniteSet(created')
      BY <2>1, <2>2, FS_Subset
    <2> QED BY <1>3, <2>3 DEF QueueInv, Stamped, created
  <1>6. SteadyMatch'
    BY <1>2, <1>4 DEF QueueInv, SteadyMatch, Matches
  <1>7. \A d \in steady' : CursorOf(d)' = CursorOf(d)
    BY <1>3, <1>4 DEF CursorOf
  <1>8. walk' = "shown" => LeftBehind(at)'
    BY <1>2, <1>4, <1>7 DEF QueueInv, LeftBehind
  <1>9. NothingSkipped'
    BY <1>2, <1>4, <1>7 DEF QueueInv, NothingSkipped
  <1>10. PageIsCurrent'
    BY <1>2 DEF PageIsCurrent
  <1> QED BY <1>5, <1>6, <1>8, <1>9, <1>10 DEF QueueInv

(* The cases of the queue live the lifecycle, whoever reads the queue.     *)
THEOREM QueueRefinesLifecycle == QueueSpec => Spec
  <1>1. QueueInit => Init
    BY DEF QueueInit
  <1>2. [QueueNext]_queueVars => [Next]_vars
    <2> SUFFICES ASSUME [QueueNext]_queueVars PROVE [Next]_vars
      OBVIOUS
    <2>1. CASE \E c \in CaseId : CreateCase(c) \/ TransitionCase(c)
      BY <2>1 DEF CreateCase, TransitionCase, Next
    <2>2. CASE \E state \in FilterInput : Open(state)
      BY <2>2 DEF Open
    <2>3. CASE FirstPage \/ NextPage \/ Refresh
      BY <2>3 DEF FirstPage, NextPage, Refresh, Load
    <2>4. CASE UNCHANGED queueVars
      BY <2>4 DEF queueVars
    <2> QED BY <2>1, <2>2, <2>3, <2>4 DEF QueueNext
  <1> QED BY <1>1, <1>2, PTL DEF QueueSpec, Spec

(* The inductive invariant of the walk.                                    *)
THEOREM QueueInvariant == QueueSpec => []QueueInv
  <1>1. QueueInit => QueueInv
    <2> SUFFICES ASSUME QueueInit PROVE QueueInv
      OBVIOUS
    <2>1. {c \in CaseId : projection[c] # None} = {}
      BY DEF QueueInit, Init
    <2>2. IsFiniteSet({})
      BY FS_EmptySet
    <2>3. Stamped
      BY <2>1, <2>2 DEF QueueInit, Init, Stamped
    <2>4. SteadyMatch
      BY DEF QueueInit, SteadyMatch
    <2> QED BY <2>3, <2>4 DEF QueueInit, QueueInv, NothingSkipped, PageIsCurrent
  <1>2. TypeOK /\ QueueInv /\ [QueueNext]_queueVars => QueueInv'
    <2> SUFFICES ASSUME TypeOK, QueueInv, [QueueNext]_queueVars PROVE QueueInv'
      OBVIOUS
    <2>1. ASSUME NEW c \in CaseId, CreateCase(c) PROVE QueueInv'
      <3>1. \A d \in CaseId \ {c} : projection'[d] = projection[d]
        BY <2>1 DEF CreateCase, Create, TypeOK
      <3> QED BY <2>1, <3>1, TouchStep DEF CreateCase
    <2>2. ASSUME NEW c \in CaseId, TransitionCase(c) PROVE QueueInv'
      <3>1. \A d \in CaseId \ {c} : projection'[d] = projection[d]
        BY <2>2 DEF TransitionCase, Transition, TypeOK
      <3> QED BY <2>2, <3>1, TouchStep DEF TransitionCase
    <2>3. ASSUME NEW state \in FilterInput, Open(state) PROVE QueueInv'
      <3>1. /\ filter' = state /\ walk' = "open" /\ listed' = {}
            /\ steady' = {c \in CaseId : Matches(c, state)}
            /\ UNCHANGED <<projection, history, updated>>
        BY <2>3 DEF Open, vars
      <3>2. Stamped'
        BY <3>1 DEF QueueInv, Stamped
      <3>3. SteadyMatch'
        BY <3>1 DEF SteadyMatch, Matches
      <3> QED BY <3>1, <3>2, <3>3 DEF QueueInv, NothingSkipped, PageIsCurrent
    <2>4. CASE FirstPage
      <3>1. LeftBehind(None) /\ Load(None)
        BY <2>4 DEF FirstPage, LeftBehind
      <3> QED BY <3>1, LoadStep
    <2>5. CASE NextPage
      <3>1. LeftBehind(next) /\ Load(next)
        BY <2>5 DEF NextPage, QueueInv, NothingSkipped, LeftBehind
      <3> QED BY <3>1, LoadStep
    <2>6. CASE Refresh
      <3>1. LeftBehind(at) /\ Load(at)
        BY <2>6 DEF Refresh, QueueInv
      <3> QED BY <3>1, LoadStep
    <2>7. CASE UNCHANGED queueVars
      <3>1. /\ UNCHANGED <<projection, updated, filter, walk, at, next, page>>
            /\ UNCHANGED <<listed, steady, moved>>
        BY <2>7 DEF queueVars, vars, reader, record
      <3>2. Stamped' /\ SteadyMatch'
        BY <3>1 DEF QueueInv, Stamped, SteadyMatch, Matches
      <3>3. (walk = "shown" => LeftBehind(at))' /\ NothingSkipped'
        BY <3>1 DEF QueueInv, LeftBehind, NothingSkipped, CursorOf
      <3>4. PageIsCurrent'
        <4>1. FirstOf(Rows(at), PageLimit)' = FirstOf(Rows(at), PageLimit)
          BY <3>1 DEF FirstOf, CursorOf, Rows, Matches
        <4>2. NextCursor(Rows(at))' = NextCursor(Rows(at))
          BY <3>1 DEF NextCursor, LastOf, FirstOf, CursorOf, Rows, Matches
        <4> QED BY <3>1, <4>1, <4>2 DEF QueueInv, PageIsCurrent
      <3> QED BY <3>2, <3>3, <3>4 DEF QueueInv
    <2> QED BY <2>1, <2>2, <2>3, <2>4, <2>5, <2>6, <2>7 DEF QueueNext
  <1> QED BY <1>1, <1>2, QueueRefinesLifecycle, LifecycleTypeOK, PTL DEF QueueSpec

(* No case that matches all along and stays untouched is skipped by a      *)
(* reader who follows next_cursor and reloads pages, whatever moves around *)
(* it (list_cases).                                                        *)
THEOREM QueueNothingSkipped == QueueSpec => []NothingSkipped
  <1>1. QueueInv => NothingSkipped
    BY DEF QueueInv
  <1> QED BY <1>1, QueueInvariant, PTL

(* As long as nothing moves, the page behind next_cursor has cases on it,  *)
(* and none of the page on screen (list_cases reads limit + 1 rows).       *)
THEOREM QueueNextPageHasCases == QueueSpec => []NextPageHasCases
  <1>1. QueueInv => NextPageHasCases
    <2> SUFFICES ASSUME QueueInv, walk = "shown", next # None, ~moved
                 PROVE  Rows(next) # {} /\ Rows(next) \cap page = {}
      BY DEF NextPageHasCases
    <2> DEFINE rows == Rows(at)
    <2>1. page = FirstOf(rows, PageLimit) /\ next = NextCursor(rows)
      BY DEF QueueInv, PageIsCurrent
    <2>2. Sortable(rows)
      BY RowsSortable DEF QueueInv
    <2>3. /\ \E c \in rows : c \notin page
          /\ \A c \in rows : c \notin page <=> After(CursorOf(c), next)
      BY <2>1, <2>2, PageCut
    <2>4. page \subseteq rows
      BY <2>1, FirstOfRows
    <2>5. \A c \in rows : c \in Rows(next) <=> After(CursorOf(c), next)
      BY DEF Rows, After, Behind
    <2> QED BY <2>3, <2>4, <2>5
  <1> QED BY <1>1, QueueInvariant, PTL
=============================================================================
