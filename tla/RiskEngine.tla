----------------------------- MODULE RiskEngine -----------------------------
(***************************************************************************)
(* The read-only risk engine (fomo/risk/engine.py): the wallet registry,   *)
(* the unified signal and the checks of one evaluation, as operators.  A   *)
(* limit that the policy file holds is a field of p; ages and times are    *)
(* integers in one unit, Tolerance is the 100 ms of clock skew it accepts. *)
(***************************************************************************)
EXTENDS Integers, Sequences, FiniteSets, FiniteSetsExt, Functions

CONSTANTS
    Tolerance,      \* how far in the future a signal may be stamped
    Nothing         \* a fact, a wallet or a time that is not there

ASSUME RiskAssumption == Tolerance \in Nat

WalletSources == {"wallet_rpc_evm", "wallet_rpc_solana"}
OtherSources  == {"fomo", "fomo_push", "evm_pending", "solana_preprocessed", "solana_processed"}
Sources       == WalletSources \cup OtherSources
Sides         == {"buy", "sell", "unknown"}

-----------------------------------------------------------------------------
(* The registry: a set of entries.  Ambiguous ownership fails at load.       *)

\* WalletEntry.from_dict
ValidEntry(w) ==
    /\ w.chains # {}
    /\ Cardinality({c[1] : c \in w.chains}) = 1             \* one chain family
    /\ w.confidence \in 0..100
    /\ w.status \in {"active", "shadow-only", "revoked"}

\* WalletRegistry.__init__: one entry per chain and address, of one known kol
ValidRegistry(reg) ==
    /\ \A w \in reg : ValidEntry(w) /\ w.kol # Nothing
    /\ \A v, w \in reg : v # w => v.address # w.address \/ v.chains \cap w.chains = {}

Resolve(reg, chain, address) == {w \in reg : chain \in w.chains /\ w.address = address}

\* a mutant: a revoked wallet is a candidate
EveryWalletOf(reg, chain, kol) == {w \in reg : w.kol = kol /\ chain \in w.chains}

WalletsForKol(reg, chain, kol) ==
    {w \in reg : w.kol = kol /\ chain \in w.chains /\ w.status # "revoked"}

\* only an evidenced alias of a real platform id counts
WalletsForHandle(reg, chain, handle) ==
    {w \in reg : /\ w.handle = handle
                 /\ ~w.placeholder
                 /\ chain \in w.chains
                 /\ w.status # "revoked"
                 /\ w.evidenced}

-----------------------------------------------------------------------------
(* UnifiedSignal.from_dict refuses what does not satisfy this.               *)

WellFormed(s) ==
    /\ s.source \in Sources
    /\ s.side \in Sides
    /\ s.confidence \in 0..100
    /\ s.wallet # Nothing
    /\ s.source \notin WalletSources => s.kol # Nothing

EffectiveTime(s) == IF s.stamped # Nothing THEN s.stamped ELSE s.observed

-----------------------------------------------------------------------------
(* A check passes, rejects for some reasons, or defers because a fact is     *)
(* missing.                                                                  *)

Pass         == [status |-> "pass", why |-> {}]
Defer(why)   == [status |-> "defer", why |-> {why}]
Judged(bad)  == IF bad = {} THEN Pass ELSE [status |-> "reject", why |-> bad]
Unless(ok, why) == Judged(IF ok THEN {} ELSE {why})

\* the signals remembered that are still inside the window
Remembered(p, seen, now) == {id \in DOMAIN seen : seen[id] # Nothing /\ seen[id] >= now - p.window}

DedupeCheck(p, seen, s, now) == Unless(s.id \notin Remembered(p, seen, now), "duplicate_signal")

SourceCheck(p, s) == Unless(s.source \in p.allowed, "source_not_allowed")

AgeCheck(p, s, now) ==
    LET age == now - EffectiveTime(s)
    IN  Judged(IF age < -Tolerance THEN {"signal_timestamp_in_future"}
               ELSE IF p.maxAge[s.source] <= 0 \/ age > p.maxAge[s.source] THEN {"signal_too_old"}
               ELSE {})

\* the wallet of a wallet source is its identity; any other needs an entry
IdentityCheck(p, reg, s, now) ==
    LET found == Resolve(reg, s.chain, s.wallet)
        w     == CHOOSE e \in found : TRUE
    IN  Judged(IF s.source \in WalletSources THEN {}
               ELSE IF found = {} THEN {"wallet_not_registered"}
               ELSE IF w.kol # s.kol THEN {"wallet_kol_mismatch"}
               ELSE IF w.status = "revoked" THEN {"wallet_revoked"}
               ELSE IF w.expires <= now THEN {"wallet_mapping_expired"}
               ELSE IF Min({w.confidence, s.confidence}) < p.minConfidence
                    THEN {"wallet_confidence_too_low"}
               ELSE {})

SideCheck(p, s)  == Unless(~(p.rejectUnknownSide /\ s.side = "unknown"), "unknown_side")
DecoderCheck(s)  == Unless(s.decoder # Nothing, "unknown_decoder")

\* a fact below its floor, above its ceiling, or a promise that is not given
OutOfBounds(p, facts) ==
    {f \in DOMAIN p.floor \cap DOMAIN facts : facts[f] < p.floor[f]}
      \cup {f \in DOMAIN p.ceiling \cap DOMAIN facts : facts[f] > p.ceiling[f]}

AssetFlags == {"privilegesSafe", "sellSimulated", "routeAllowed"}

AssetCheck(p, asset) ==
    IF asset = Nothing THEN Defer("asset_snapshot_required")
    ELSE Judged(OutOfBounds(p, asset) \cup {f \in AssetFlags : ~asset[f]})

\* the last quote of a named provider stands for it
UniqueQuotes(quotes) ==
    {quotes[i] : i \in {j \in DOMAIN quotes :
        /\ quotes[j].provider # Nothing
        /\ \A k \in DOMAIN quotes : k > j => quotes[k].provider # quotes[j].provider}}

Diverged(p, outputs) ==
    \/ Min(outputs) <= 0
    \/ (Max(outputs) - Min(outputs)) * 10000 > p.maxDivergence * Min(outputs)

QuotesCheck(p, quotes, now) ==
    LET unique == UniqueQuotes(quotes)
    IN  IF Cardinality(unique) < p.minQuotes THEN Defer("independent_quotes_required")
        ELSE Judged({f \in {"quote_too_old"} : \E q \in unique : now - q.at > p.maxQuoteAge}
               \cup {f \in {"price_impact_too_high"} : \E q \in unique : q.impact > p.maxImpact}
               \cup {f \in {"quote_divergence_too_high"} : Diverged(p, {q.output : q \in unique})})

\* an order that adds to a position held needs no free place for a new one
ExposureCheck(p, exposure) ==
    IF exposure = Nothing THEN Defer("exposure_snapshot_required")
    ELSE Judged({f \in {"token", "kolDaily", "globalDaily"} : exposure[f] + p.buyUsd > p.spend[f]}
           \cup {f \in {"openPositions"} : ~exposure.held /\ exposure.open >= p.maxOpen}
           \cup OutOfBounds(p, exposure))

HealthCheck(p, family, health) ==
    IF health = Nothing THEN Defer("health_snapshot_required")
    ELSE Judged({f \in {"circuit_breaker_tripped"} : health.tripped}
           \cup {f \in {"clock_offset_too_high"} :
                    Max({health.clockOffset, -health.clockOffset}) > p.maxClockOffset}
           \cup {f \in {"primary_stream_disconnected"} : p.needsStream /\ ~health.connected}
           \cup {f \in {"whitelist_stale"} : p.needsWhitelist /\ ~health.whitelistFresh}
           \cup {f \in {"rpc_lagging"} : health.lag[family] > p.maxLag[family]})

SimulationCheck(p, simulated) ==
    IF ~p.needsSimulation THEN Pass
    ELSE IF simulated = Nothing THEN Defer("transaction_simulation_required")
    ELSE Unless(simulated, "transaction_simulation_failed")

-----------------------------------------------------------------------------
(* ReadOnlyRiskEngine.evaluate                                               *)

NoFacts == [asset |-> Nothing, quotes |-> <<>>, exposure |-> Nothing, health |-> Nothing,
            exitPlan |-> FALSE, simulated |-> Nothing]

Checks(p, reg, seen, s, facts, now) ==
    [dedupe     |-> DedupeCheck(p, seen, s, now),
     source     |-> SourceCheck(p, s),
     age        |-> AgeCheck(p, s, now),
     identity   |-> IdentityCheck(p, reg, s, now),
     side       |-> SideCheck(p, s),
     decoder    |-> DecoderCheck(s),
     asset      |-> AssetCheck(p, facts.asset),
     quotes     |-> QuotesCheck(p, facts.quotes, now),
     exposure   |-> ExposureCheck(p, facts.exposure),
     health     |-> HealthCheck(p, s.chain[1], facts.health),
     exitPlan   |-> IF facts.exitPlan THEN Pass ELSE Defer("exit_plan_required"),
     simulation |-> SimulationCheck(p, facts.simulated)]

\* a mutant: what is not rejected is approved
UnlessRejected(checks) ==
    IF \E c \in DOMAIN checks : checks[c].status = "reject" THEN "rejected" ELSE "approved_for_shadow"

Outcome(checks) ==
    LET statuses == {checks[c].status : c \in DOMAIN checks}
    IN  IF "reject" \in statuses THEN "rejected"
        ELSE IF "defer" \in statuses THEN "needs_data"
        ELSE "approved_for_shadow"

\* what the engine remembers after it has looked at s: also what it did not approve
Remember(p, seen, s, now) ==
    [id \in DOMAIN seen |-> IF id \in Remembered(p, seen, now) THEN seen[id]
                            ELSE IF id = s.id THEN now ELSE Nothing]
=============================================================================
