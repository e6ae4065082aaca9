---------------------------- MODULE RouteChoice ----------------------------
(***************************************************************************)
(* FastRoutePlanner (fomo/execution/routing.py): the fastest firm quote    *)
(* among those that are safe and close enough to the best.  Amounts and    *)
(* times are integers, the sacrifice is in basis points.                   *)
(***************************************************************************)
EXTENDS Integers, FiniteSets, FiniteSetsExt

CONSTANTS NoProvider, NoRoute

\* the problems of one quote; a demand the policy does not make is met by all
Problems(p, chain, q) ==
    {x \in {"cross_chain_route_forbidden"} : q.chain # chain}
      \cup {x \in {"provider_missing"} : q.provider = NoProvider}
      \cup {x \in {"invalid_output"} : q.output <= 0}
      \cup {x \in {"quote_deadline_exceeded"} : q.latency > p.deadline[chain[1]]}
      \cup {x \in {"quote_stale"} : q.age > p.maxAge}
      \cup {x \in {"price_impact_too_high"} : q.impact > p.maxImpact}
      \cup {x \in p.demands : x \notin q.meets}

Demands == {"simulation_required", "route_not_allowlisted", "transaction_scope_invalid",
            "minimum_output_required"}

Eligible(p, chain, quotes) == {q \in quotes : Problems(p, chain, q) = {}}

Faster(q, r) ==
    LET time(x) == x.latency + x.submit
    IN  \/ time(q) < time(r)
        \/ time(q) = time(r) /\ q.output > r.output
        \/ time(q) = time(r) /\ q.output = r.output /\ q.rank <= r.rank  \* the name decides

\* select: reference is what a warm benchmark promised, 0 if there is none
Select(p, chain, quotes, reference) ==
    LET eligible == Eligible(p, chain, quotes)
        best     == Max({reference} \cup {q.output : q \in eligible})
        quality  == {q \in eligible : q.output * 10000 >= best * (10000 - p.sacrifice)}
    IN  IF Cardinality({q.provider : q \in eligible}) < p.minRoutes THEN NoRoute
        ELSE IF quality = {} THEN NoRoute
        ELSE CHOOSE q \in quality : \A r \in quality : Faster(q, r)

\* route_readiness: no adapter is registered, so no chain is ready for live routes
LiveBlockers(p, chain) ==
    {x \in {"independent_executable_routes_required"} : 0 < p.minRoutes}
      \cup {x \in {"arc_reliable_market_data_required"} : chain = p.arc /\ ~p.arcMarketData}
      \cup {x \in {"arc_exit_route_required"} : chain = p.arc /\ ~p.arcExit}
=============================================================================
