---------------------------- MODULE MCCaseQueue ----------------------------
(* Three cases that an operator creates and moves once, read one to a page *)
(* with and without a state filter.                                        *)
EXTENDS CaseQueue

CONSTANT anna

MCActors == {[actor_id |-> anna, kind |-> "human", roles |-> {"operator"}]}

MCEvidenceInput == {{}}

MCFilterInput == {None, "new", "investigating"}
=============================================================================
