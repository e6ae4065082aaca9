---------------------------- MODULE CopyStrategy ----------------------------
(***************************************************************************)
(* What a signal is worth copying: the sizing strategies                   *)
(* (fomo/signals/strategy.py), the envelope they take                      *)
(* (fomo/signals/envelope.py) and the local gate of a copy buy             *)
(* (fomo/execution/fast_path.py), as operators.  An address or a token is  *)
(* <<letters, spelling>>: EVM compares the letters, Solana both.  An       *)
(* amount is an integer, a ratio a percentage, NaN the Decimal of that     *)
(* name.                                                                   *)
(***************************************************************************)
EXTENDS Integers, FiniteSets, FiniteSetsExt

CONSTANTS NaN, Absent   \* Absent: no value, no intent

ASSUME CopyAssumption ==
    /\ NaN \notin Int
    /\ Absent \notin [usd : Int, sellRatio : Int \cup {Absent}]

WalletRpc == {"wallet_rpc_evm", "wallet_rpc_solana"}

\* TradeSignalEnvelope.__post_init__
ValidEnvelope(s) ==
    /\ s.source \in WalletRpc \cup {"fomo_push"}
    /\ s.side \in {"buy", "sell", "unknown"}
    /\ s.level \in {"pending", "processed", "confirmed", "finalized"}
    /\ s.delay >= 0
    /\ s.usd = Absent \/ s.usd >= 0

-----------------------------------------------------------------------------
(* FomoCopyStrategy.create_intent: a fixed amount, or all of it at a sale.   *)

FomoIntent(c, s) ==
    IF s.delay > c.maxDelay THEN Absent
    ELSE [usd |-> IF s.side = "buy" THEN c.fixedUsd ELSE 0,
          sellRatio |-> IF s.side = "sell" /\ c.fullOnFirstSell THEN 100 ELSE Absent]

-----------------------------------------------------------------------------
(* WalletCopyStrategy.create_intent.                                         *)

Spelled(source, x) == IF source = "wallet_rpc_solana" THEN x ELSE <<x[1]>>

Rank(source, level) ==
    CASE level = "finalized" -> 2
      [] level = "confirmed" -> 1
      [] level = (IF source = "wallet_rpc_solana" THEN "processed" ELSE "pending") -> 0
      [] OTHER -> -1

\* a trade is never copied below "confirmed", whatever the wallet's policy says
Confirmed(c, s) ==
    /\ Rank(s.source, s.level) >= 0
    /\ Rank(s.source, c.confirmation) >= 0
    /\ Rank(s.source, s.level) >= Max({1, Rank(s.source, c.confirmation)})

Watched(c, s) ==
    /\ s.actor # Absent
    /\ s.side # "unknown"
    /\ c.enabled /\ c.status = "active"
    /\ s.chain \in c.chains
    /\ c.address # Absent
    /\ Spelled(s.source, c.address) = Spelled(s.source, s.actor)

\* deny comes first; an empty allow list allows every token
Filtered(c, s) ==
    LET asset == Spelled(s.source, IF s.side = "buy" THEN s.tokenOut ELSE s.tokenIn)
        allow == {Spelled(s.source, t) : t \in c.allow}
        deny  == {Spelled(s.source, t) : t \in c.deny}
    IN  asset \in deny \/ (allow # {} /\ asset \notin allow)

\* a minimum that is NaN raises here: no intent either way
LargeEnough(c, s) ==
    LET observed == IF s.usd = Absent THEN 0 ELSE s.usd
    IN  c.minimum # NaN /\ c.minimum >= 0 /\ observed > 0 /\ observed >= c.minimum

\* observed_ratio copies a part of the trade, in whole units; both modes are capped, and each
\* looks at its own amount only
BuyIntent(c, s) ==
    LET requested == IF c.buyMode = "observed_ratio" THEN s.usd * c.buyRatio ELSE c.fixedUsd * 100
    IN  IF \/ c.buyMode \notin {"fixed_usd", "observed_ratio"}
           \/ c.buyMode = "observed_ratio" /\ c.buyRatio \notin 1..100
           \/ c.buyMode = "fixed_usd" /\ c.fixedUsd = NaN
           \/ c.maxUsd = NaN
           \/ requested <= 0 \/ c.maxUsd <= 0
        THEN Absent
        ELSE [usd |-> Min({requested, c.maxUsd * 100}), sellRatio |-> Absent]   \* in cents

\* the source's own ratio is not known, so only a fixed one is copied
SellIntent(c) ==
    IF c.sellMode # "fixed_ratio" \/ c.sellRatio = NaN \/ c.sellRatio \notin 1..100
    THEN Absent
    ELSE [usd |-> 0, sellRatio |-> c.sellRatio]

WalletIntent(c, s) ==
    IF ~(Watched(c, s) /\ Confirmed(c, s) /\ ~Filtered(c, s) /\ LargeEnough(c, s)) THEN Absent
    ELSE IF s.side = "buy" THEN BuyIntent(c, s) ELSE SellIntent(c)

-----------------------------------------------------------------------------
(* evaluate_copy_buy: the gate before a copy buy is handed off.              *)

\* _event_age_seconds: no readable time counts as infinitely old, the future as new
TooOld(c, e) == e.created = NaN \/ Max({0, e.now - e.created}) > c.maxAge

Gate(c, e) ==
    IF e.kind # "buy" THEN "not_buy"
    ELSE IF e.passive THEN "passive_asset_event"
    ELSE IF e.type \notin c.types \cap c.activeTypes THEN "unsupported_event_type"
    ELSE IF e.token = Absent THEN "missing_ca"
    ELSE IF e.network \notin c.networks THEN "unsupported_network"
    ELSE IF TooOld(c, e) THEN "dropped_late"
    ELSE IF e.usd < c.minBuy THEN "target_trade_too_small"
    ELSE IF c.live /\ c.needsTradeId /\ ~e.hasTradeId THEN "missing_transaction_reference"
    ELSE IF ~c.deferAsset /\ e.marketCap = 0 THEN "missing_market_cap"
    ELSE IF ~c.deferAsset /\ e.marketCap < c.minMarketCap THEN "market_cap_too_small"
    ELSE "eligible"
=============================================================================
