---------------------------- MODULE MCFastPath ----------------------------
(* Instances of FastPath: a buy that comes over REST, the KOL's sell of    *)
(* the same token from the sidecar, and a thesis.                          *)
EXTENDS FastPath, TLC

CONSTANTS buy, sell, thesis, position

KindOf == buy :> "buy" @@ sell :> "sell" @@ thesis :> "thesis"

\* The two trades of one position (run FastPath).
Trades == {buy, sell}
TradeKind == [e \in Trades |-> KindOf[e]]
TradeKey == [e \in Trades |-> position]

\* A buy and a thesis, both from the sidecar, that compete for a pass of one row (FastPathLive).
Mixed == {buy, thesis}
MixedKind == [e \in Mixed |-> KindOf[e]]
MixedKey == [e \in Mixed |-> position]

Positions == {position}
OnlyBuy == {buy}
OnlySell == {sell}
AnyMode == BOOLEAN
Daemon == {FALSE}
=============================================================================
