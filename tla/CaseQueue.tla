----------------------------- MODULE CaseQueue -----------------------------
(***************************************************************************)
(* The case queue while cases move: GET /v1/cases over _LIST_CASES, read   *)
(* page by page by a client that follows next_cursor and may reload the    *)
(* page it is on, beside the lifecycle of the cases themselves.            *)
(*                                                                         *)
(* The sort key (updated_at, id) is the page cursor, and every transition  *)
(* replaces updated_at by the time at which its request read a clock; two  *)
(* requests may read their clocks in one order and commit in the other.    *)
(*                                                                         *)
(* The reader is any client of the API.  The web queue is one on its first *)
(* page only: page.tsx cuts a cursor to 100 characters, and the API        *)
(* refuses what is left of it.                                             *)
(*                                                                         *)
(* Scope, severity and search text select among columns that never change, *)
(* so one constant set stands for them; the state filter does not.         *)
(***************************************************************************)
EXTENDS CaseLifecycle, FiniteSets

CONSTANTS Selected,     \* cases that scope, severity and search text admit
          FilterInput,  \* values of the state parameter, None for all states
          PageLimit,    \* the limit parameter
          MaxTime       \* bound: clocks show 0..MaxTime

ASSUME QueueAssumption ==
    /\ CaseId \subseteq Nat              \* uuids are ordered
    /\ Selected \subseteq CaseId
    /\ FilterInput \subseteq CaseState \cup {None}
    /\ PageLimit \in Nat \ {0}
    /\ MaxTime \in Nat
    /\ None \notin Nat \cup (Nat \X CaseId)

Time == 0..MaxTime

VARIABLES updated,  \* updated_at of each case, or None
          filter,   \* the state parameter of the walk through the queue
          walk,     \* "closed", "open" before the first page, "shown" after it
          at,       \* the cursor of the page on screen, None for the first
          next,     \* next_cursor of the page on screen, or None
          page,     \* the cases on screen
          listed,   \* history: the cases on some page of this walk
          steady,   \* history: matched when it began, untouched since
          moved     \* history: a case changed since the page was read

reader == <<filter, walk, at, next, page>>
record == <<listed, steady, moved>>
queueVars == <<vars, updated, reader, record>>

QueueInit ==
    /\ Init
    /\ updated = [c \in CaseId |-> None]
    /\ filter = None /\ walk = "closed"
    /\ at = None /\ next = None /\ page = {}
    /\ listed = {} /\ steady = {} /\ moved = FALSE

-----------------------------------------------------------------------------
(* The cases: a step of the lifecycle and the time stamp it leaves *)

Touch(c) == /\ \E t \in Time : updated' = [updated EXCEPT ![c] = t]
            /\ steady' = steady \ {c}
            /\ moved' = TRUE
            /\ UNCHANGED <<reader, listed>>

CreateCase(c) == Create(c) /\ Touch(c)

TransitionCase(c) ==
    /\ \E to \in CaseState, a \in Actors, ev \in EvidenceInput :
           Transition(c, to, a, ev)
    /\ Touch(c)

-----------------------------------------------------------------------------
(* list_cases *)

CursorOf(c) == <<updated[c], c>>

(* ORDER BY updated_at DESC, id DESC: key k comes after key l in the list. *)
After(k, l) == k[1] < l[1] \/ (k[1] = l[1] /\ k[2] < l[2])

(* Mutant: a comparison of the time alone. *)
BehindByTime(k, cursor) == k[1] < cursor[1]

(* Mutant: a comparison that lets the row of the cursor in again. *)
BehindOrAt(k, cursor) == k[1] < cursor[1] \/ (k[1] = cursor[1] /\ k[2] <= cursor[2])

(* (updated_at, id) < (cursor_updated_at, cursor_id) *)
Behind(k, cursor) == k[1] < cursor[1] \/ (k[1] = cursor[1] /\ k[2] < cursor[2])

Matches(c, state) == /\ c \in Selected /\ projection[c] # None
                     /\ state = None \/ projection[c].state = state

(* The WHERE clause of _LIST_CASES. *)
Rows(cursor) == {c \in CaseId : /\ Matches(c, filter)
                                /\ cursor = None \/ Behind(CursorOf(c), cursor)}

(* The first n rows in that order: LIMIT n. *)
FirstOf(rows, n) ==
    {c \in rows : Cardinality({d \in rows : After(CursorOf(c), CursorOf(d))}) < n}

LastOf(rows) == CHOOSE c \in rows : \A d \in rows : ~After(CursorOf(d), CursorOf(c))

(* Mutant: a full page is taken for a sign of more. *)
NextCursorOfFull(rows) ==
    IF Cardinality(rows) >= PageLimit
    THEN CursorOf(LastOf(FirstOf(rows, PageLimit))) ELSE None

(* limit + 1 rows are read; only their presence tells whether more follow. *)
NextCursor(rows) ==
    IF Cardinality(FirstOf(rows, PageLimit + 1)) > PageLimit
    THEN CursorOf(LastOf(FirstOf(rows, PageLimit))) ELSE None

(* One request for the page at a cursor. *)
Load(cursor) ==
    LET rows == Rows(cursor) IN
    /\ at' = cursor
    /\ page' = FirstOf(rows, PageLimit)
    /\ next' = NextCursor(rows)
    /\ listed' = listed \cup page'
    /\ moved' = FALSE
    /\ walk' = "shown"
    /\ UNCHANGED <<vars, updated, filter, steady>>

(* The queue is opened with a filter. *)
Open(state) ==
    /\ filter' = state /\ walk' = "open"
    /\ at' = None /\ next' = None /\ page' = {}
    /\ listed' = {} /\ moved' = FALSE
    /\ steady' = {c \in CaseId : Matches(c, state)}
    /\ UNCHANGED <<vars, updated>>

FirstPage == walk = "open" /\ Load(None)

NextPage == walk = "shown" /\ next # None /\ Load(next)

(* The router's refresh after an event: the same page, read again. *)
Refresh == walk = "shown" /\ Load(at)

QueueNext == \/ \E c \in CaseId : CreateCase(c) \/ TransitionCase(c)
             \/ \E state \in FilterInput : Open(state)
             \/ FirstPage \/ NextPage \/ Refresh

QueueSpec == QueueInit /\ [][QueueNext]_queueVars

(* A reader who follows the links. *)
QueueFairSpec == QueueSpec /\ WF_queueVars(FirstPage) /\ SF_queueVars(NextPage)

-----------------------------------------------------------------------------
(* Properties *)

(* Whatever moves meanwhile, reloads included, a case that matches the     *)
(* filter all along and is not touched is never skipped: it has been on a  *)
(* page, or it lies behind the cursor of the next one.  At the end of the  *)
(* walk, where there is no next page, it has been listed (list_cases).     *)
NothingSkipped ==
    walk = "shown" =>
        \A c \in steady : \/ c \in listed
                          \/ next # None /\ After(CursorOf(c), next)

(* A page is never offered for nothing: as long as no case has changed,    *)
(* the page behind next_cursor has a case on it, and only cases that are   *)
(* not on screen (limit + 1 rows are read to find that out).               *)
NextPageHasCases ==
    walk = "shown" /\ next # None /\ ~moved =>
        Rows(next) # {} /\ Rows(next) \cap page = {}

(* Following next_cursor comes to an end, although cases keep moving and   *)
(* pages are reloaded: each page begins after the one before it in a fixed *)
(* order.  Only a reader who opens the queue anew for ever goes on.        *)
WalkEnds == \/ []<>(walk # "shown" \/ next = None)
            \/ []<><<\E state \in FilterInput : Open(state)>>_queueVars
=============================================================================
