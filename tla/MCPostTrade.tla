---------------------------- MODULE MCPostTrade ----------------------------
(* Instances of PostTrade: a trade and a thesis, on which the risk engine  *)
(* has no verdict.                                                         *)
EXTENDS PostTrade

CONSTANTS trade, thesis

Signals == {trade, thesis}
OnlyTrade == {trade}
TwoVerdicts == {"approved_for_shadow", "blocked"}
=============================================================================
