---------------------------- MODULE MCDecisions ----------------------------
(***************************************************************************)
(* The decisions the program takes from files, facts and samples, on small *)
(* inputs.  A behaviour asks one question: how the risk pipeline keeps up  *)
(* with its files, how the health of endpoints develops, or what the       *)
(* operators of RiskEngine, CopyStrategy and RouteChoice answer to one     *)
(* input (the state is the input and nothing moves).                       *)
(***************************************************************************)
EXTENDS RiskPipeline, CopyStrategy, RouteChoice, RpcHealth, WalletSettings, PoolPrice

CONSTANTS ann, bob, known, aliased, stray, near, far

VARIABLE question

mvars == <<rvars, hvars, settingsVars, priceVars, question>>

-----------------------------------------------------------------------------
(* The pipeline: an event with an author, one with a handle only, and one    *)
(* that is no trade.                                                         *)

evm == <<"evm", 1>>
sol == <<"solana", 1>>

ThreeEvents == {known, aliased, stray}
Told == [e \in ThreeEvents |->
    [kind |-> IF e = stray THEN "transfer" ELSE "buy", chain |-> evm,
     kol |-> IF e = aliased THEN Nothing ELSE ann, handle |-> "ann", stamped |-> 0]]

PolicyOf(version, oldest) ==
    [version |-> version, window |-> 2, allowed |-> {"fomo"}, rejectUnknownSide |-> TRUE,
     maxAge |-> [s \in Sources |-> oldest], minConfidence |-> 60,
     floor |-> [liquidity |-> 1, gasReserve |-> 0], ceiling |-> [tax |-> 1, chainExposure |-> 50],
     minQuotes |-> 2, maxQuoteAge |-> 1, maxImpact |-> 1, maxDivergence |-> 100, buyUsd |-> 1,
     spend |-> [token |-> 2, kolDaily |-> 2, globalDaily |-> 2], maxOpen |-> 1, maxClockOffset |-> 1,
     needsStream |-> TRUE, needsWhitelist |-> TRUE, maxLag |-> [evm |-> 1, solana |-> 1],
     needsSimulation |-> TRUE]

Entry(kol, address, status) ==
    [kol |-> kol, handle |-> "ann", chains |-> {evm}, address |-> address, confidence |-> 80,
     evidenced |-> TRUE, placeholder |-> FALSE, expires |-> 9, status |-> status]

OneOwner  == {Entry(ann, "a", "active")}
Replaced  == {Entry(ann, "a", "revoked"), Entry(bob, "b", "active")}
TwoOwners == {Entry(ann, "a", "active"), Entry(bob, "a", "active")}

FileContents == [f \in {"policy", "registry"} |->
    IF f = "policy" THEN {PolicyOf(1, 2), PolicyOf(2, 0), Broken}
    ELSE {OneOwner, Replaced, TwoOwners, Gone}]

Roomy == [token |-> 0, kolDaily |-> 0, globalDaily |-> 0, held |-> FALSE, open |-> 0,
          gasReserve |-> 0, chainExposure |-> 0]
Answers == {Roomy}

-----------------------------------------------------------------------------
(* The health of two endpoints of one chain.                                 *)

TwoEndpoints == {near, far}
OneChain == [e \in TwoEndpoints |-> "evm"]
Order    == [e \in TwoEndpoints |-> IF e = near THEN 1 ELSE 2]
Failed   == [ok |-> FALSE, height |-> 0, latency |-> 0]
Took(height, latency) == [ok |-> TRUE, height |-> height, latency |-> latency]
Samples  == [e \in TwoEndpoints |-> IF e = near THEN {Failed, Took(2, 2)}
                                    ELSE {Took(1, 1), Took(2, 9)}]

-----------------------------------------------------------------------------
(* The wallet settings: an id of an export, which may come back twice, a      *)
(* wallet on two chains, one that was never enabled, and a row of two         *)
(* families.                                                                  *)

base == <<"evm", 2>>
Exported == <<0, 0>>
Row(id, address, chains, on) ==
    [id |-> id, address |-> address, chains |-> chains, status |-> "active", enabled |-> on]
SomeRows == {Row(NoId, "a", {evm, base}, Nothing), Row(Exported, "a", {evm}, Nothing),
             Row(NoId, "b", {base}, FALSE), Row(NoId, "b", {evm, sol}, Nothing)}
SomeImports == {<<Row(Exported, "b", {evm}, Nothing), Row(NoId, x, {evm}, TRUE)>> : x \in {"a", "b"}}
KolRow(id, kol, address) ==
    [id |-> id, kol |-> kol, address |-> address, chains |-> {evm}, confidence |-> 80,
     evidenced |-> TRUE, status |-> "active"]
SomeKols == {KolRow(NoId, ann, "a"), KolRow(<<0, 1>>, bob, "a"), KolRow(<<0, 1>>, bob, "b")}

\* the pool has the same reserves in the first two versions of a block
PoolReserves == [v \in 0..2 |-> IF v = 2 THEN 2 ELSE 1]

-----------------------------------------------------------------------------
(* One input of an operator.                                                 *)

Sig == [id |-> known, source |-> "fomo", observed |-> 0, stamped |-> Nothing, chain |-> evm,
        kol |-> ann, wallet |-> "a", confidence |-> 80, side |-> "buy", decoder |-> "x"]
Asset(liquidity, tax, safe) == [liquidity |-> liquidity, tax |-> tax, privilegesSafe |-> safe,
                                sellSimulated |-> TRUE, routeAllowed |-> TRUE]
QuoteBy(provider, output, at) == [provider |-> provider, output |-> output, impact |-> 0, at |-> at]
SomeQuotes == {QuoteBy("x", 1000, 2), QuoteBy("x", 900, 2), QuoteBy("y", 1000, 2), QuoteBy("y", 1000, 0)}
Health(tripped, offset) == [tripped |-> tripped, clockOffset |-> offset, connected |-> TRUE,
                            whitelistFresh |-> TRUE, lag |-> [evm |-> 0, solana |-> 5]]
FactsAsked ==
    [asset : {Nothing, Asset(1, 1, TRUE), Asset(0, 1, TRUE), Asset(1, 2, TRUE), Asset(1, 1, FALSE)},
     quotes : UNION {[1..n -> SomeQuotes] : n \in 0..3},
     exposure : {Nothing, Roomy, [Roomy EXCEPT !.token = 2], [Roomy EXCEPT !.open = 1],
                 [Roomy EXCEPT !.open = 1, !.held = TRUE]},
     health : {Nothing, Health(FALSE, -1), Health(TRUE, 0), Health(FALSE, -2)},
     exitPlan : BOOLEAN, simulated : {Nothing, TRUE, FALSE}]

Wallet ==
    [enabled : {TRUE}, status : {"active"}, chains : {{evm}}, address : {<<"a", 1>>},
     confirmation : {"pending", "confirmed", "finalized", "processed"}, allow : {{}, {<<"t", 1>>}, {<<"u", 1>>}},
     deny : {{}, {<<"t", 2>>}}, minimum : {0, 2}, buyMode : {"fixed_usd", "observed_ratio"},
     buyRatio : {50}, fixedUsd : {3}, maxUsd : {1, 2}, sellMode : {"source_ratio", "fixed_ratio"},
     sellRatio : {50}]
Copied ==
    [source : WalletRpc, side : {"buy", "sell", "unknown"}, level : {"pending", "processed", "confirmed", "finalized"},
     delay : {0}, usd : {Absent, 1, 3}, chain : {evm}, actor : {<<"a", 1>>, <<"a", 2>>},
     tokenIn : {<<"t", 1>>}, tokenOut : {<<"t", 1>>}]

RouteQuotes ==
    {[provider |-> pr, rank |-> IF pr = "x" THEN 1 ELSE 2, chain |-> c, output |-> out, latency |-> lat, submit |-> 1,
      age |-> age, impact |-> 0, meets |-> Demands] :
        pr \in {"x", "y"}, c \in {evm, sol}, out \in {0, 990, 1000}, lat \in {1, 2}, age \in {0, 9}}
RoutePolicy == [deadline |-> [evm |-> 2, solana |-> 1], maxAge |-> 1, maxImpact |-> 1,
                demands |-> Demands, sacrifice |-> 50, minRoutes |-> 2]

Asked(kind) == question.kind = kind

-----------------------------------------------------------------------------
Init ==
    /\ PipelineInit /\ HealthInit /\ SettingsInit /\ PriceInit
    /\ disk["policy"].version = 1 /\ disk["registry"] = OneOwner
    /\ \/ question \in {[kind |-> k] : k \in {"pipeline", "health", "settings", "price"}}
       \/ question \in {[kind |-> "facts", of |-> f] : f \in FactsAsked}
       \/ question \in {[kind |-> "copy", config |-> c, signal |-> s] : c \in Wallet, s \in Copied}
       \/ question \in {[kind |-> "route", quotes |-> {q, r, b}] :
                            q \in RouteQuotes, r \in RouteQuotes, b \in RouteQuotes}

Next ==
    \/ Asked("pipeline") /\ PipelineNext /\ UNCHANGED <<hvars, settingsVars, priceVars, question>>
    \/ Asked("health") /\ HealthNext /\ UNCHANGED <<rvars, settingsVars, priceVars, question>>
    \/ Asked("settings") /\ SettingsNext /\ UNCHANGED <<rvars, hvars, priceVars, question>>
    \/ Asked("price") /\ PriceNext /\ UNCHANGED <<rvars, hvars, settingsVars, question>>

Spec == Init /\ [][Next]_mvars

-----------------------------------------------------------------------------
(* Properties of the operators.                                              *)

ApprovedWith(f) ==
    Outcome(Checks(PolicyOf(1, 3), OneOwner, [e \in ThreeEvents |-> Nothing], Sig, f, 2)) = "approved_for_shadow"

\* the facts with one of them lost, or one quote more from a provider that has none
Without(f) ==
    {[f EXCEPT !.asset = Nothing], [f EXCEPT !.exposure = Nothing], [f EXCEPT !.health = Nothing],
     [f EXCEPT !.quotes = <<>>], [f EXCEPT !.exitPlan = FALSE], [f EXCEPT !.simulated = Nothing]}
       \cup {[f EXCEPT !.quotes = SelectSeq(@, LAMBDA q : q.provider # x)] : x \in {"x", "y"}}

\* The evaluation fails closed: what was not approved with a fact, a quote of a provider,
\* an exit plan or a simulation is not approved without it either, and nothing is
\* approved unless it is known (ReadOnlyRiskEngine.evaluate, "Fail-closed evaluator").
WorseNeverApproves ==
    Asked("facts") => \A g \in Without(question.of) : ~ApprovedWith(g)

\* a wallet's settings made stricter in one respect; an allow list is not emptied by it,
\* since an empty one allows every token
Stricter(c) ==
    {[c EXCEPT !.enabled = FALSE], [c EXCEPT !.deny = @ \cup {<<"t", 1>>}],
     [c EXCEPT !.maxUsd = 1], [c EXCEPT !.minimum = 2]}
      \cup {[c EXCEPT !.confirmation = "finalized"] : x \in {1} \cap {IF Rank(question.signal.source, c.confirmation) >= 0 THEN 1 ELSE 0}}
      \cup {[c EXCEPT !.allow = {<<"t", 1>>}] : x \in {c.allow} \cap {{}}}

\* Settings of a wallet that are stricter in one respect never make the strategy copy a
\* trade it would not have copied, nor for more, and no copied buy exceeds the cap or the
\* trade it copies in ratio mode (WalletCopyStrategy.create_intent).
StricterNeverBuys ==
    Asked("copy") =>
        LET c == question.config
            s == question.signal
            i == WalletIntent(c, s)
        IN  /\ ValidEnvelope(s)
            /\ \A d \in Stricter(c) :
                 WalletIntent(d, s) # Absent => i # Absent /\ WalletIntent(d, s).usd <= i.usd
            /\ i # Absent => /\ i.usd <= c.maxUsd * 100
                             /\ s.level \in {"confirmed", "finalized"}
                             /\ c.buyMode = "observed_ratio" /\ s.side = "buy" => i.usd <= s.usd * 100

\* A quote that is refused counts for nothing: the route chosen is the one that would be
\* chosen had it never arrived, neither the number of independent routes nor the price
\* the others are measured by (FastRoutePlanner.select).
RejectedNeverCounts ==
    Asked("route") =>
        \A q \in question.quotes \ Eligible(RoutePolicy, evm, question.quotes) :
            Select(RoutePolicy, evm, question.quotes, 0) = Select(RoutePolicy, evm, question.quotes \ {q}, 0)

\* The three judgements are monotone: what is lost, stricter or refused never lets through
\* what was not let through before (ReadOnlyRiskEngine.evaluate,
\* WalletCopyStrategy.create_intent, FastRoutePlanner.select).
DecisionsAreCautious == WorseNeverApproves /\ StricterNeverBuys /\ RejectedNeverCounts
=============================================================================
