--------------------------- MODULE BehaviorProfiles ---------------------------
(***************************************************************************)
(* The behaviour profiles of traders, made from the events of the feed,    *)
(* and their cache (WalletIntelligenceStore of                             *)
(* fomo/intelligence/profile.py).  The watcher records events while        *)
(* consoles ask for the snapshot, each over a connection of its own.       *)
(***************************************************************************)
EXTENDS Integers, Sequences, FiniteSets, FiniteSetsExt, SequencesExt

CONSTANTS
    Observed,       \* events [id, key, kind, kol, handle, token, amount, cap, at]; kol = Anonymous without a user id
    Anonymous,
    Consoles,
    Behavior,       \* [minBuys, minTokens, minDays, lowCap, pvpPerDay, whale, many, narrativeCap, narrativeBuy, tiers]
    DaySpan         \* observations a day

ASSUME ObservedAssumption == IsFiniteSet(Observed)

VARIABLES
    events,         \* intelligence_events; the last rowid is their number
    cache,          \* intelligence_cache: [revision, payload]
    asking          \* [Consoles -> a running snapshot: [at, revision, payload]]

bvars == <<events, cache, asking>>

NotAsking == [at |-> "idle", revision |-> 0, payload |-> {}]

BehaviorInit ==
    /\ events = {} /\ cache = [revision |-> -1, payload |-> {}]
    /\ asking = [c \in Consoles |-> NotAsking]

-----------------------------------------------------------------------------
(* Events.                                                                   *)

\* what the table holds once
SameTrade(o, e) == o.id = e.id \/ o.key = e.key

\* record_event: trades only, one for an event and one for a trade
RecordEvent(e) ==
    /\ e.kind \in {"buy", "sell", "clear"}
    /\ \A o \in events : ~SameTrade(o, e)
    /\ events' = events \cup {e}
    /\ UNCHANGED <<cache, asking>>

\* ingest_order_rows: the log of orders, in one transaction and in whatever order it holds
\* them, so that of the trades that are one the first is taken; its rows know no "clear"
IngestOrderRows ==
    LET trades == {e \in Observed : e.kind \in {"buy", "sell"}}
    IN  \E fresh \in SUBSET (trades \ events) :
          /\ fresh # {}
          /\ events' = events \cup fresh
          /\ \A e \in fresh : \A o \in events' \ {e} : ~SameTrade(o, e)
          /\ \A e \in trades \ events' : \E o \in events' : SameTrade(o, e)
          /\ UNCHANGED <<cache, asking>>

-----------------------------------------------------------------------------
(* _compute_snapshot; the evidence score is rounded down.                    *)

\* the user ids that are known under a handle
ActualIds(rows, handle) == {r.kol : r \in {x \in rows : x.handle = handle}} \ {Anonymous}

\* a row without an id belongs to the one user of its handle, if there is one
CanonicalId(rows, r) ==
    IF r.kol # Anonymous THEN r.kol
    ELSE IF Cardinality(ActualIds(rows, r.handle)) = 1 THEN CHOOSE k \in ActualIds(rows, r.handle) : TRUE
    ELSE r.handle

LargeBuy(r) == r.amount >= (SelectSeq(Behavior.tiers, LAMBDA t : r.cap <= t.cap)[1]).amount

Sum2(rows) == MapThenSumSet(LAMBDA r : r.amount, rows)

\* twice the median
Median2(values) ==
    LET ordered == SortSeq(values, LAMBDA a, b : a < b)
        n       == Len(values)
    IN  IF n = 0 THEN 0 ELSE ordered[(n + 1) \div 2] + ordered[n \div 2 + 1]

ProfileOf(kol, mine) ==
    LET buys   == {r \in mine : r.kind = "buy"}
        n      == Cardinality(buys)
        capped == {r \in buys : r.cap > 0}
        low    == Cardinality({r \in capped : r.cap < Behavior.lowCap})
        tokens == {r.token : r \in buys}
        days   == Cardinality({r.at \div DaySpan : r \in buys})
        most   == Max({Sum2({r \in buys : r.token = t}) : t \in tokens})
        lowRate(percent) == capped # {} /\ low * 100 >= percent * Cardinality(capped)
        caps   == LET s == SetToSeq(capped) IN [i \in DOMAIN s |-> s[i].cap]
        share(have, need, weight) == (Min({have, need}) * weight) \div need
    IN  [kol |-> kol, aliases |-> {<<r.kol, r.handle>> : r \in mine}, buys |-> n,
         sells |-> Cardinality(mine \ buys), tokens |-> Cardinality(tokens), days |-> days, bought |-> Sum2(buys),
         enough |-> n >= Behavior.minBuys /\ Cardinality(tokens) >= Behavior.minTokens /\ days >= Behavior.minDays,
         evidence |-> share(n, Behavior.minBuys, 40) + share(Cardinality(tokens), Behavior.minTokens, 35)
                        + share(days, Behavior.minDays, 25),
         style |-> IF n >= Behavior.pvpPerDay * days /\ lowRate(35) THEN "pvp_short_term"
                  ELSE IF Cardinality({r \in buys : LargeBuy(r)}) >= 3 \/ Sum2(buys) >= Behavior.whale * n
                       THEN "whale_momentum"
                  ELSE IF Median2(caps) >= 2 * Behavior.narrativeCap /\ Sum2(buys) >= Behavior.narrativeBuy * n
                       THEN "narrative_momentum"
                  ELSE "unclassified",
         flags |-> {f \in {"concentrated_activity", "high_frequency", "ultra_low_cap_exposure"} :
                       \/ f = "concentrated_activity" /\ most > 0 /\ most * 100 >= 60 * Sum2(buys) /\ n >= Behavior.many
                       \/ f = "high_frequency" /\ n >= 3 * Behavior.pvpPerDay * days
                       \/ f = "ultra_low_cap_exposure" /\ lowRate(60) /\ Cardinality(capped) >= Behavior.many}]

\* one profile for everybody who has bought
Payload(rows) ==
    LET of(k) == {r \in rows : CanonicalId(rows, r) = k}
    IN  {ProfileOf(k, of(k)) : k \in {x \in {CanonicalId(rows, r) : r \in rows} : \E r \in of(x) : r.kind = "buy"}}

-----------------------------------------------------------------------------
(* snapshot: the revision, the cache, the rows, the cache again.             *)

AskRevision(c) ==
    /\ asking[c].at = "idle"
    /\ asking' = [asking EXCEPT ![c] = [NotAsking EXCEPT !.at = "cache", !.revision = Cardinality(events)]]
    /\ UNCHANGED <<events, cache>>

AskCache(c) ==
    /\ asking[c].at = "cache"
    /\ asking' = [asking EXCEPT ![c] = IF cache.revision = @.revision THEN NotAsking ELSE [@ EXCEPT !.at = "rows"]]
    /\ UNCHANGED <<events, cache>>

Compute(c) ==
    /\ asking[c].at = "rows"
    /\ asking' = [asking EXCEPT ![c].at = "store", ![c].payload = Payload(events)]
    /\ UNCHANGED <<events, cache>>

\* a mutant: the revision at the time it is stored
RevisionNow(s) == Cardinality(events)

RevisionStored(s) == s.revision

StoreCache(c) ==
    /\ asking[c].at = "store"
    /\ cache' = [revision |-> RevisionStored(asking[c]), payload |-> asking[c].payload]
    /\ asking' = [asking EXCEPT ![c] = NotAsking]
    /\ UNCHANGED events

BehaviorNext ==
    \/ \E e \in Observed : RecordEvent(e)
    \/ IngestOrderRows
    \/ \E c \in Consoles : AskRevision(c) \/ AskCache(c) \/ Compute(c) \/ StoreCache(c)

-----------------------------------------------------------------------------
(* Properties.                                                               *)

\* A console is shown the profiles of all events there are when it asks, although events
\* arrive while another console computes them and the slower of two stores its answer
\* last: a cache that would be answered from holds what the rows give (snapshot).
CacheIsCurrent == cache.revision = Cardinality(events) => cache.payload = Payload(events)
=============================================================================
