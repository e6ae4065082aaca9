----------------------------- MODULE Performance -----------------------------
(***************************************************************************)
(* The store of verified fills and the performance profiles that are       *)
(* materialised from it (VerifiedPerformanceStore of                       *)
(* fomo/intelligence/performance.py), and the advice that is taken from a  *)
(* profile (fomo/intelligence/strategy.py).  Quantities and dollars are    *)
(* integers; the fills are chosen so that a unit of a fill has a whole     *)
(* price.  Rates are compared without division.                            *)
(***************************************************************************)
EXTENDS Integers, Sequences, FiniteSets, FiniteSetsExt, SequencesExt, Totals

CONSTANTS
    Kols,
    Batches,        \* sequences of rows [id, key, kol, wallet, token, side, qty, gross, fee, cap, at, proven]
    MarkRows,       \* rows: [token, source, at, price, cap]
    SocialRows,     \* rows: [kol, account, sure]
    OldFills,       \* the fills of a database of an older version
    SignalsSeen,    \* [cap, spent] of the signals that ask for advice
    Settings,       \* [maxAge, minClosed, minTokens]
    Style,          \* [pvpPerDay, whaleBuy, smallCap, tiers], the thresholds of the styles
    DayLength, MaxClock

VARIABLES
    fills,          \* verified_fills, in the order of rowid
    marks,          \* token_market_history, in the order of rowid
    socials,        \* social_identities
    profiles,       \* performance_profiles: [Kols -> profile or NoProfile]
    store,          \* "old", "upgraded" or "open"
    missing,        \* the profiles that an opening of the store is going to make
    clock

pvars == <<fills, marks, socials, profiles, store, missing, clock>>

\* nothing is stored of whoever has no fills
NoProfile == [status |-> "none"]

PerformanceInit ==
    /\ fills = OldFills /\ marks = <<>> /\ socials = {}
    /\ profiles = [k \in Kols |-> NoProfile]
    /\ store = "old" /\ missing = {} /\ clock = 0

-----------------------------------------------------------------------------
(* One wallet and one token: first in, first out.                            *)

\* what the first numbers of a sequence add up to, however many
RunningSum(v) == LET sum[n \in Nat] == IF n = 0 THEN 0 ELSE sum[n - 1] + v[n] IN sum

\* rows by time, and of the same time by rowid
Precedes(rows, i, j) == rows[i].at < rows[j].at \/ (rows[i].at = rows[j].at /\ i < j)

\* the rows of these numbers in that order: the n-th has n - 1 before it
InOrder(rows, of) ==
    [n \in 1..Cardinality(of) |->
        rows[CHOOSE i \in of : Cardinality({j \in of : Precedes(rows, j, i)}) = n - 1]]

UnitCost(f) == (f.gross + f.fee) \div f.qty
UnitNet(f)  == Max({0, f.gross - f.fee}) \div f.qty

\* what is left of the lot of each row, if it bought one
Held(lots)        == RunningSum(lots)[Len(lots)]
Worth(rows, lots) == RunningSum([i \in DOMAIN lots |-> lots[i] * UnitCost(rows[i])])[Len(lots)]

\* as far as a lot goes
Portion(due, lot) == IF due <= 0 THEN 0 ELSE IF due <= lot THEN due ELSE lot

\* a mutant: the lots that were bought last are sold first
LastInFirstOut(lots, n) ==
    [i \in DOMAIN lots |-> lots[i] - Portion(n - (Held(lots) - RunningSum(lots)[i]), lots[i])]

\* n units are taken from the lots, the oldest first: of each what the older ones leave
Consumed(lots, n) == [i \in DOMAIN lots |-> lots[i] - Portion(n - RunningSum(lots)[i - 1], lots[i])]

Book(a, rows, n) ==
    LET f         == rows[n]
        available == Held(a.lots)
        matched   == Min({available, f.qty})
        rest      == Consumed(a.lots, matched)
        proceeds  == matched * UnitNet(f)
    IN  IF f.side = "buy"
        THEN [a EXCEPT !.lots[n] = f.qty, !.bought = @ + f.gross + f.fee]
        ELSE IF available = 0 THEN [a EXCEPT !.orphan = TRUE]
        ELSE [a EXCEPT !.lots = rest, !.sold = @ + proceeds, !.oversold = @ \/ f.qty > available,
                       !.realized = @ + proceeds - (Worth(rows, a.lots) - Worth(rows, rest))]

EmptyBook(rows) == [lots |-> [i \in DOMAIN rows |-> 0], bought |-> 0, sold |-> 0, realized |-> 0,
                    orphan |-> FALSE, oversold |-> FALSE]

\* the book after each number of rows
Books(rows) ==
    LET book[n \in Nat] == IF n = 0 THEN EmptyBook(rows) ELSE Book(book[n - 1], rows, n) IN book

Never == -1
NoneOr(S, else) == IF S = {} THEN else ELSE Max(S)

\* the market of the token, at a time, beside what the rows of a wallet were booked to
Outlook(book, rows, history, now) ==
    LET buys     == {i \in DOMAIN rows : rows[i].side = "buy"}
        first    == rows[Min(buys)]
        caps     == {m.cap : m \in ToSet(history)} \ {0}
        entry    == IF buys = {} THEN 0 ELSE first.cap
        peak     == NoneOr(caps \cup ({entry} \ {0}), 0)
        before   == {m.cap : m \in {x \in ToSet(history) : buys # {} /\ x.at < first.at}} \ {0}
        held     == Held(book.lots)
        complete == ~book.orphan /\ ~book.oversold /\ \A f \in ToSet(rows) : f.proven
    IN  [realized |-> book.realized, bought |-> book.bought, open |-> held > 0, complete |-> complete,
         marked  |-> IF history = <<>> THEN Never ELSE Last(history).at,
         fresh   |-> history # <<>> /\ now - Last(history).at <= Settings.maxAge,
         gain    |-> IF held > 0 /\ history # <<>>
                     THEN held * Last(history).price - Worth(rows, book.lots) ELSE 0,
         early   |-> entry # 0 /\ entry * 5 <= peak,
         rebound |-> before # {} /\ Min(before) * 5 <= Max(before) /\ entry * 4 >= Min(before) * 5,
         closed  |-> buys # {} /\ held = 0 /\ complete,
         ended   |-> Last(rows).at]

Position(rows, history, now) == Outlook(Books(rows)[Len(rows)], rows, history, now)

-----------------------------------------------------------------------------
(* A profile: _compute_profile.                                              *)

Mine(kol, all)  == {i \in DOMAIN all : all[i].kol = kol}
Pair(f)         == <<f.wallet, f.token>>
Pairs(kol, all) == {Pair(all[i]) : i \in Mine(kol, all)}

RowsOf(kol, pair, all)   == InOrder(all, {i \in Mine(kol, all) : Pair(all[i]) = pair})
History(token, allMarks) == InOrder(allMarks, {i \in DOMAIN allMarks : allMarks[i].token = token})

\* of each wallet and token of a trader: its position
Positions(kol, all, allMarks, now) ==
    [g \in Pairs(kol, all) |-> Position(RowsOf(kol, g, all), History(g[2], allMarks), now)]

\* the deepest fall of the realised profit from its peak, over the closed positions by the
\* time of their end and their profit; where both are equal the fall goes one way
Drawdown(position, closed) ==
    LET upto(g)   == {h \in closed : \/ position[h].ended < position[g].ended
                                     \/ /\ position[h].ended = position[g].ended
                                        /\ position[h].realized <= position[g].realized}
        equity(g) == Net([h \in closed |-> position[h].realized], upto(g))
    IN  Max({0} \cup UNION {{equity(h) - equity(g) : h \in upto(g)} \cup {-equity(g)} : g \in closed})

\* the figures and the labels of a trader, from the positions, the number of buys, the days
\* that had one and the time of the last fill
Summary(position, buys, days, ended, identities, now) ==
    LET pairs    == DOMAIN position
        closed   == {g \in pairs : position[g].closed}
        wins     == {g \in closed : position[g].realized > 0}
        early    == {g \in pairs : position[g].early}
        rebound  == {g \in pairs : position[g].rebound}
        bought   == Net([g \in pairs |-> position[g].bought], pairs)
        realized == Net([g \in pairs |-> position[g].realized], pairs)
        gain     == Net([g \in pairs |-> position[g].gain], pairs)
        number(S) == Cardinality(S)
        complete == \A g \in pairs : position[g].complete
        fresh    == \A g \in pairs : position[g].fresh
        marked   == NoneOr({position[g].marked : g \in pairs} \ {Never}, Never)
        open     == \E g \in pairs : position[g].open
        winning  == number(wins) * 100 >= 55 * number(closed) /\ closed # {}
        historic == complete /\ number(closed) >= Settings.minClosed /\ number(pairs) >= Settings.minTokens
    IN  [closed |-> number(closed), wins |-> number(wins), realized |-> realized, bought |-> bought,
         valued   |-> complete /\ (~open \/ fresh),
         total    |-> IF complete /\ (~open \/ fresh) THEN realized + gain ELSE 0,
         drawdown |-> Drawdown(position, closed),
         historic |-> historic, verified |-> historic /\ fresh,
         inventory |-> complete, marked |-> marked, ended |-> ended,
         status   |-> IF historic /\ fresh THEN "verified"
                     ELSE IF ~complete     THEN "inventory_incomplete"
                     ELSE IF historic      THEN "stale_verified_history"
                     ELSE IF marked = Never THEN "market_missing"
                     ELSE IF ~fresh        THEN "market_stale"
                     ELSE "insufficient_closed_round_trips",
         style    |-> IF buys >= Style.pvpPerDay * Max({1, number(days)}) /\ winning THEN "pvp_verified"
                     ELSE IF number(early) * 100 >= 35 * number(pairs) /\ winning THEN "early_alpha"
                     ELSE IF number(rebound) * 100 >= 25 * number(pairs) THEN "rebound_specialist"
                     ELSE IF bought >= Style.whaleBuy * Max({1, buys}) THEN "whale_confirmation"
                     ELSE "unclassified",
         identities |-> identities, asOf |-> now]

Profile(kol, all, allMarks, identities, now) ==
    LET mine == Mine(kol, all)
        buys == {i \in mine : all[i].side = "buy"}
    IN  IF mine = {} THEN NoProfile
        ELSE Summary(Positions(kol, all, allMarks, now), Cardinality(buys),
                     {all[i].at \div DayLength : i \in buys}, Max({all[i].at : i \in mine}),
                     {s \in identities : s.kol = kol}, now)

\* _rebuild_profiles
Rebuilt(kols, all, allMarks, identities) ==
    [k \in Kols |-> IF k \in kols THEN Profile(k, all, allMarks, identities, clock) ELSE profiles[k]]

-----------------------------------------------------------------------------
(* What changes the store; every operation is one transaction.               *)

Valid(f) == f.side \in {"buy", "sell"} /\ f.qty > 0 /\ f.gross > 0

\* rows hold numbers, and an older version has stored none that is no trade
ASSUME PerformanceAssumption ==
    /\ \A rows \in Batches \cup {OldFills} :
         /\ rows \in Seq(ToSet(rows))
         /\ \A f \in ToSet(rows) : f.qty \in Int /\ f.gross \in Int /\ f.fee \in Int /\ f.at \in Int
    /\ \A f \in ToSet(OldFills) : Valid(f)
    /\ \A m \in MarkRows : m.at \in Int

\* a row that is no trade, or is there already under its id or its key, is passed over
Insert(all, f) ==
    IF Valid(f) /\ \A i \in DOMAIN all : all[i].id # f.id /\ all[i].key # f.key
    THEN Append(all, f) ELSE all

Ingested(all, batch) ==
    LET kept[n \in Nat] == IF n = 0 THEN all ELSE Insert(kept[n - 1], batch[n])
    IN  kept[Len(batch)]

IngestFills(batch) ==
    /\ store = "open"
    /\ fills' = Ingested(fills, batch)
    /\ profiles' = Rebuilt({fills'[i].kol : i \in DOMAIN fills' \ DOMAIN fills}, fills', marks, socials)
    /\ UNCHANGED <<marks, socials, store, missing, clock>>

\* whoever has traded a token is concerned by its market
Traders(token) == {fills[i].kol : i \in {j \in DOMAIN fills : fills[j].token = token}}

IngestMarketHistory(m) ==
    /\ store = "open" /\ m.price > 0
    /\ \A i \in DOMAIN marks : <<marks[i].token, marks[i].at, marks[i].source>> # <<m.token, m.at, m.source>>
    /\ marks' = Append(marks, m)
    /\ profiles' = Rebuilt(Traders(m.token), fills, marks', socials)
    /\ UNCHANGED <<fills, socials, store, missing, clock>>

IngestSocial(s) ==
    /\ store = "open" /\ s.sure
    /\ socials' = {o \in socials : <<o.kol, o.account>> # <<s.kol, s.account>>} \cup {s}
    /\ profiles' = Rebuilt({s.kol}, fills, marks, socials')
    /\ UNCHANGED <<fills, marks, store, missing, clock>>

\* a newer version of the program drops the profiles it did not compute
Upgrade ==
    /\ store = "old"
    /\ store' = "upgraded"
    /\ profiles' = [k \in Kols |-> NoProfile]
    /\ UNCHANGED <<fills, marks, socials, missing, clock>>

\* every opening of the store looks for profiles that are missing, and then makes them
\* in a transaction; another process may be at work between the two
ReadMissing ==
    /\ store # "old" /\ missing = {}
    /\ missing' = {k \in Kols : profiles[k] = NoProfile /\ Mine(k, fills) # {}}
    /\ store' = IF missing' = {} THEN "open" ELSE store
    /\ UNCHANGED <<fills, marks, socials, profiles, clock>>

MaterializeMissing ==
    /\ missing # {}
    /\ profiles' = Rebuilt(missing, fills, marks, socials)
    /\ missing' = {} /\ store' = "open"
    /\ UNCHANGED <<fills, marks, socials, clock>>

\* the process ends before it has made them
OpeningStops ==
    /\ missing # {}
    /\ missing' = {}
    /\ UNCHANGED <<fills, marks, socials, profiles, store, clock>>

\* _compute_snapshot, the rebuild for maintenance
RebuildAll ==
    /\ store = "open"
    /\ profiles' = Rebuilt({fills[i].kol : i \in DOMAIN fills}, fills, marks, socials)
    /\ UNCHANGED <<fills, marks, socials, store, missing, clock>>

Tick ==
    /\ clock < MaxClock
    /\ clock' = clock + 1
    /\ UNCHANGED <<fills, marks, socials, profiles, store, missing>>

PerformanceNext ==
    \/ \E batch \in Batches : IngestFills(batch)
    \/ \E m \in MarkRows : IngestMarketHistory(m)
    \/ \E s \in SocialRows : IngestSocial(s)
    \/ Upgrade \/ ReadMissing \/ MaterializeMissing \/ OpeningStops \/ RebuildAll \/ Tick

PerformanceSpec == PerformanceInit /\ [][PerformanceNext]_pvars

-----------------------------------------------------------------------------
(* The advice of a profile: strategy_for_profile.                            *)

\* the market cap a signal must have, the least the trader has spent at that cap
Tier(signal) == IF signal.cap <= Style.tiers[1].cap THEN Style.tiers[1].spent
                ELSE IF signal.cap <= Style.tiers[2].cap THEN Style.tiers[2].spent
                ELSE Style.tiers[3].spent

Blocked(p, signal) ==
    \/ ~p.verified \/ signal.cap <= 0
    \/ p.style = "pvp_verified" /\ signal.cap < Style.smallCap
    \/ p.style \in {"whale_confirmation", "unclassified"}

\* shadowBuyUsd
Advice(p, signal) ==
    IF Blocked(p, signal) THEN 0
    ELSE CASE p.style = "early_alpha"        -> IF signal.spent >= Tier(signal) THEN 10 ELSE 0
           [] p.style = "rebound_specialist" -> 5
           [] OTHER                          -> 0

-----------------------------------------------------------------------------
(* Properties.                                                               *)

\* fills of one wallet and token at one time: their order is the order of their arrival
Tied(k) == \E i, j \in Mine(k, fills) :
    i # j /\ fills[i].at = fills[j].at /\ Pair(fills[i]) = Pair(fills[j])

\* as though what came first had come last
Backwards(rows) == [i \in DOMAIN rows |-> rows[Len(rows) + 1 - i]]

\* A profile is what the fills and the market the store has would give at the time it was
\* computed, in whatever order and batches they arrived, and whoever has fills has a
\* profile; only fills of the same second may show the order of their arrival, and market
\* observations of one token and time from two sources, whose order is kept on both sides
\* (ingest_fills, ingest_market_history, _materialize_missing_profiles).
ProfileIsCurrent ==
    store = "open" =>
        \A k \in Kols :
            /\ profiles[k] = NoProfile <=> Mine(k, fills) = {}
            /\ profiles[k] = NoProfile \/ Tied(k) \/
                 profiles[k] = Profile(k, Backwards(fills), marks, socials, profiles[k].asOf)

\* how much each row bought, or sold
Amounts(rows, side) == [i \in DOMAIN rows |-> IF rows[i].side = side THEN rows[i].qty ELSE 0]

\* the row that has the u-th unit
RowOf(amounts, u) ==
    CHOOSE i \in DOMAIN amounts : RunningSum(amounts)[i - 1] < u /\ u <= RunningSum(amounts)[i]

\* what the units that were sold brought, each less what the unit bought in its turn cost
Matched(rows) ==
    LET bought == Amounts(rows, "buy")
        sold   == Amounts(rows, "sell")
        units  == RunningSum(sold)[Len(rows)]
    IN  RunningSum([u \in 1..units |-> UnitNet(rows[RowOf(sold, u)]) - UnitCost(rows[RowOf(bought, u)])])[units]

NeverShort(rows) ==
    \A n \in DOMAIN rows : RunningSum(Amounts(rows, "sell"))[n] <= RunningSum(Amounts(rows, "buy"))[n]

Backed(k, p) ==
    LET pairs == Pairs(k, fills)
    IN  /\ \A i \in Mine(k, fills) : fills[i].proven
        /\ \A g \in pairs : NeverShort(RowsOf(k, g, fills))
        /\ p.realized = Net([g \in pairs |-> Matched(RowsOf(k, g, fills))], pairs)

\* The realised profit of a profile counts as verified only if every fill is proven, no
\* moment has more sold than bought, and the profit is that of the units that were sold,
\* each at the price of the unit bought in its turn; a buy is only advised from such a profile
\* with a market observation that was fresh when the profile was made
\* (_compute_profile, strategy_for_profile).
VerifiedIsBacked ==
    \A k \in {x \in Kols : profiles[x] # NoProfile} :
        LET p == profiles[k]
        IN  /\ p.inventory => Backed(k, p)
            /\ (\E s \in SignalsSeen : Advice(p, s) > 0) =>
                 /\ p.historic
                 /\ \A i \in Mine(k, fills) : \E m \in ToSet(marks) :
                      m.token = fills[i].token /\ p.asOf - m.at <= Settings.maxAge

\* The profiles are those of the store, and what they call verified is
\* (VerifiedPerformanceStore).
ProfilesAreRight == ProfileIsCurrent /\ VerifiedIsBacked
=============================================================================
