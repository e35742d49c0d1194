----------------------------- MODULE MCApiEdge -----------------------------
EXTENDS ApiEdge

Complete == [name \in RequiredClaims \cup OptionalClaims |->
                IF name \in RequiredClaims THEN "ok" ELSE "absent"]

(* A token of each key with the claims it needs, and one of a served key   *)
(* that lacks the organization.                                            *)
MCToken ==
    {[kid |-> k, verifies |-> k \in Kid, claims |-> Complete] : k \in Kid \cup Forged}
      \cup {[kid |-> k, verifies |-> TRUE,
              claims |-> [Complete EXCEPT !["organization_id"] = "absent"]] : k \in Kid}
=============================================================================
