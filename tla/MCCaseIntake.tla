---------------------------- MODULE MCCaseIntake ----------------------------
(* One form with two keys of its own, other clients with a third key, one  *)
(* of them without asset scope, and two requests in flight.                *)
EXTENDS CaseIntake, TLC

CONSTANTS ann, oli, a1, t1, t2, i1

MCRoles == [p \in ActorId |-> IF p = ann THEN {"approver"} ELSE {"operator"}]

MCAssetIds == [p \in ActorId |-> IF p = ann THEN Asset ELSE {}]

(* A body, and one that differs from it in each field alone. *)
MCBodyInput == {[asset |-> a1, title |-> t1, input |-> i1],
                [asset |-> a1, title |-> t2, input |-> i1],
                [asset |-> a1, title |-> t1, input |-> None],
                [asset |-> None, title |-> t1, input |-> i1]}

MCFormBody == {[asset |-> a1, title |-> t1, input |-> i1],
               [asset |-> a1, title |-> t2, input |-> i1]}

NoEvidence == {{}}

MCSymmetry == Permutations(Request) \cup Permutations(CaseId)
              \cup Permutations(FormKey)
=============================================================================
