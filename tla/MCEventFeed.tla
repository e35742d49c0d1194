---------------------------- MODULE MCEventFeed ----------------------------
(* Three events, of which some may belong to a case of the one asset, and  *)
(* a reader whose token gains and loses that asset.                        *)
EXTENDS EventFeed

CONSTANT a1

BothScopes == {{}, {a1}}
=============================================================================
