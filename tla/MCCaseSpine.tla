---------------------------- MODULE MCCaseSpine ----------------------------
(* Two requests in flight at a time, three callers: an approver scoped to  *)
(* the one asset, an operator without asset scope, and an auditor.         *)
EXTENDS CaseSpine, TLC

CONSTANTS ann, oli, aud

MCRoles == [p \in ActorId |-> CASE p = ann -> {"approver"}
                                 [] p = oli -> {"operator"}
                                 [] p = aud -> {"auditor"}]

MCAssetIds == [p \in ActorId |-> IF p = ann THEN Asset ELSE {}]

AnyBody == Body

NoEvidence == {{}}

FullEvidence == {{"approval_id", "verification_note", "note"}}

WithAndWithoutEvidence == NoEvidence \cup FullEvidence

MCSymmetry == Permutations(Request) \cup Permutations(CaseId)
              \cup Permutations(Key)
=============================================================================
