----------------------------- MODULE RpcHealth -----------------------------
(***************************************************************************)
(* Which RPC endpoint is healthy (fomo/execution/rpc_pool.py), and the     *)
(* switches of the console that decide which are probed                    *)
(* (fomo/web/rpc_management.py, fomo/execution/networks.py).  The samples  *)
(* and the switches survive a restart; the switches in memory do not.      *)
(***************************************************************************)
EXTENDS Integers, Sequences, FiniteSets, FiniteSetsExt

CONSTANTS
    Endpoints,      \* logical endpoints; a sample is stored under this name
    ChainOf,        \* [Endpoints -> chain]
    Priority,       \* [Endpoints -> Nat]
    Outcomes,       \* [Endpoints -> the samples a probe of it may take]
    Window,         \* sample_window
    Kept,           \* max_samples_per_endpoint
    MaxAge,         \* maximum_sample_age_seconds
    Evaluated,      \* evaluation_window_seconds
    SuccessRate,    \* the percentage of good samples that the code asks for: 95
    MaxLag,         \* maximum_block_lag
    MaxLatency,     \* maximum_p95_latency_ms
    Nobody,         \* no endpoint is selected
    MaxTime         \* bound: the clock

ASSUME HealthAssumption ==
    /\ Window \in Nat /\ Window >= 3
    /\ Kept \in Nat /\ Kept >= 3
    /\ SuccessRate \in Nat
    /\ Priority \in [Endpoints -> Nat]
    /\ \A e \in Endpoints : Outcomes[e] \subseteq [ok : BOOLEAN, height : Nat, latency : Nat]
    /\ MaxAge \in Nat /\ Evaluated \in Nat /\ Evaluated >= MaxAge

Chains == {ChainOf[e] : e \in Endpoints}

VARIABLES
    time,
    samples,        \* [Endpoints -> sequence, newest first]
    configured,     \* endpoints whose URL is set (.env)
    enabled,        \* chains switched on, in memory
    saved,          \* chains switched on, in network-settings.json
    failure         \* history: [Endpoints -> time and age in samples of its last failure]

switches == <<configured, enabled, saved>>
hvars    == <<time, samples, switches, failure>>

Never == [at |-> -1, since |-> 0]

HealthInit ==
    /\ time = 0
    /\ samples = [e \in Endpoints |-> <<>>]
    /\ configured = Endpoints
    /\ enabled = Chains /\ saved = Chains
    /\ failure = [e \in Endpoints |-> Never]

-----------------------------------------------------------------------------
(* RpcHealthStore.                                                           *)

\* a mutant: the oldest rows stay
StoredOldest(old, new) == IF Len(old) < Kept THEN <<new>> \o old ELSE old

\* record_many and _prune_locked, one transaction: the newest Kept rows stay
Stored(old, new) == SubSeq(<<new>> \o old, 1, Min({Kept, Len(old) + 1}))

\* the rows a status is made of, by position: the newest in the evaluation window, or
\* the newest of all, so that an endpoint that was tested once can be called stale
RowsOf(e) ==
    LET available == 1..Min({Window, Len(samples[e])})
        recent    == {i \in available : samples[e][i].at >= time - Evaluated}
    IN  IF recent # {} THEN recent ELSE {1} \cap available
Good(e)   == {i \in RowsOf(e) : samples[e][i].ok}
Newest(e) == samples[e][Min(RowsOf(e))]

\* the head an endpoint last reported, and the best of its chain
Reports(e) == Good(e) # {}
HeadOf(e)  == samples[e][Min(Good(e))].height
Lag(e) == Max({HeadOf(f) : f \in {g \in Endpoints : ChainOf[g] = ChainOf[e] /\ Reports(g)}}) - HeadOf(e)

\* the latency at rank ceil(0.95 n) of the n successes
P95(e) ==
    Min({l \in {samples[e][i].latency : i \in Good(e)} :
            100 * Cardinality({i \in Good(e) : samples[e][i].latency <= l}) >= 95 * Cardinality(Good(e))})

Fresh(e)     == RowsOf(e) # {} /\ time - Newest(e).at <= MaxAge
Reachable(e) == e \in configured /\ Reports(e) /\ Fresh(e)
Reliable(e)  == /\ Cardinality(RowsOf(e)) >= 3
                /\ 100 * Cardinality(Good(e)) >= SuccessRate * Cardinality(RowsOf(e))
InStep(e)    == Reports(e) => Lag(e) <= MaxLag
Fast(e)      == Reports(e) /\ P95(e) <= MaxLatency

Status(e) ==
    IF ChainOf[e] \notin enabled THEN "disabled"
    ELSE IF e \notin configured THEN "unconfigured"
    ELSE IF RowsOf(e) # {} /\ ~Fresh(e) THEN "stale"
    ELSE IF Reachable(e) /\ Reliable(e) /\ InStep(e)
         THEN (IF Fast(e) THEN "healthy" ELSE "slow")
    ELSE IF RowsOf(e) # {} THEN "degraded" ELSE "untested"

\* the healthy endpoint of lowest latency, then of lowest priority
Selected(c) ==
    LET healthy == {e \in Endpoints : ChainOf[e] = c /\ Status(e) = "healthy"}
        cost(e) == <<P95(e), Priority[e]>>
        before(x, y) == x[1] < y[1] \/ (x[1] = y[1] /\ x[2] <= y[2])
    IN  IF healthy = {} THEN Nobody
        ELSE CHOOSE e \in healthy : \A f \in healthy : before(cost(e), cost(f))

-----------------------------------------------------------------------------
(* Actions.                                                                  *)

Passes ==
    /\ time < MaxTime
    /\ time' = time + 1
    /\ UNCHANGED <<samples, switches, failure>>

\* run_rpc_probe_endpoints: the configured endpoints of enabled chains among those
\* asked for are probed together, and their samples are stored together
ProbeCycle(asked) ==
    LET probed == {e \in asked : e \in configured /\ ChainOf[e] \in enabled}
    IN  /\ probed # {}
        /\ \E got \in [probed -> UNION {Outcomes[e] : e \in probed}] :
             /\ \A e \in probed : got[e] \in Outcomes[e]
             /\ samples' = [e \in Endpoints |->
                    IF e \in probed
                    THEN Stored(samples[e], [ok |-> got[e].ok, height |-> got[e].height,
                                             latency |-> got[e].latency, at |-> time])
                    ELSE samples[e]]
             /\ failure' = [e \in Endpoints |->
                    IF e \notin probed THEN failure[e]
                    ELSE IF ~got[e].ok THEN [at |-> time, since |-> 0]
                    ELSE [failure[e] EXCEPT !.since = Min({Kept, @ + 1})]]
    /\ UNCHANGED <<time, switches>>

\* mutate "save_endpoint": the environment file is replaced, then the environment
\* is set; the samples stay, whichever URL they were taken from
SaveEndpoint(e) ==
    /\ configured' = IF e \in configured THEN configured \ {e} ELSE configured \cup {e}
    /\ UNCHANGED <<time, samples, enabled, saved, failure>>

\* mutate "set_chain_enabled": memory first, then the file, which may fail
SetChain(c) ==
    /\ enabled' = IF c \in enabled THEN enabled \ {c} ELSE enabled \cup {c}
    /\ saved' \in {saved, enabled'}
    /\ UNCHANGED <<time, samples, configured, failure>>

\* apply_network_settings
Restart ==
    /\ enabled' = saved
    /\ UNCHANGED <<time, samples, configured, saved, failure>>

HealthNext ==
    \/ Passes \/ Restart
    \/ \E asked \in {Endpoints} \cup {{e} : e \in Endpoints} : ProbeCycle(asked)
    \/ \E e \in Endpoints : SaveEndpoint(e)
    \/ \E c \in Chains : SetChain(c)

-----------------------------------------------------------------------------
(* Properties.                                                               *)

\* While a failure of an endpoint is in the evaluation window and has not been pushed out
\* by as many newer samples as the status looks at, the endpoint is only selected if the
\* status looks at enough samples to bear one failure; and it is never selected without a
\* sample that is recent: what a prune, a restart or a change of configuration leaves of
\* the samples never makes it look better.
FailureIsRemembered ==
    \A c \in Chains : LET e == Selected(c) IN
        e # Nobody =>
            /\ samples[e][1].at >= time - MaxAge
            /\ failure[e].at >= Max({0, time - Evaluated}) /\ failure[e].since < Min({Window, Kept}) =>
                 100 <= (100 - SuccessRate) * Cardinality(RowsOf(e))
=============================================================================
