---------------------------- MODULE PaperLedger ----------------------------
(***************************************************************************)
(* The paper portfolio (portfolio/ledger.py), its exit policy              *)
(* (portfolio/exit_policy.py) and the market monitor (monitoring.py).      *)
(*                                                                         *)
(* Two threads share the ledger.  The dispatcher takes an order, asks the  *)
(* limits (Decide) and, in a later transaction, books it (Apply).  The     *)
(* monitor reads the open tokens and fetches their prices (Fetch), stores  *)
(* the marks (ApplyMarks) and runs the exit rules (Evaluate).  Orders come *)
(* in any order and again after a crash; FastPath models how.              *)
(*                                                                         *)
(* Money and quantities are integers: a price is money per unit, divisions *)
(* round down, the cost of a part is rounded half up as in the code.  The  *)
(* clock shows odd instants and leaders trade at even ones, so that no     *)
(* exit has the time of a trade by accident of the model's coarse clock.   *)
(***************************************************************************)
EXTENDS Integers, FiniteSets, Totals

CONSTANTS
    Keys,            \* positions: a leader's holding of a token on a chain
    TokenOf, KolOf,  \* key -> token, leader
    Orders,          \* the leaders' trades the program hears of
    KeyOf, KindOf, TradedAt,  \* order -> key, "buy" or "sell", created_at
    Prices,          \* possible prices
    Stake,           \* fixed_usd
    TokenLimit, KolLimit, DailyLimit, MaxOpen,  \* copy_trading limits
    MaxAge,          \* a buy older than this is dropped_late
    MarkMaxAge,      \* mark_stale_seconds
    Policies,        \* exit policies an operator may save
    MirrorSells,     \* paper_exit_mode = full_on_first_sell
    DayLength, MaxTime,
    Idle             \* no order on the desk

VARIABLES
    now,
    seen,      \* portfolio_events: ids of orders and of exits
    pos,       \* portfolio_positions
    fills,     \* portfolio_fills, each with the received_at of its event
    daily,     \* portfolio_daily: day -> buy, sell, pnl, trades
    desk,      \* the dispatcher: Idle, or an order and its decision
    monitor,   \* the market thread: where it is, and the marks it fetched
    policy     \* exit-policy.json

lvars == <<now, seen, pos, fills, daily, desk, monitor, policy>>

OrderId(o) == [kind |-> "order", order |-> o]

Day(t) == t \div DayLength
\* An exit is dated after the last trade of its position, by two instants at the most.
Days == 0..Day(MaxTime + 2)
Stages == {"armed", "principal_recovered", "stop_loss", "principal_recovery",
           "trailing_stop", "max_holding_time"}
Tokens == {TokenOf[k] : k \in Keys}
NoMark == 0

ASSUME LedgerAssumption ==
    /\ TokenOf \in [Keys -> Tokens] /\ DOMAIN KolOf = Keys
    /\ KeyOf \in [Orders -> Keys] /\ KindOf \in [Orders -> {"buy", "sell"}]
    /\ TradedAt \in [Orders -> Nat]
    /\ Prices \subseteq Nat \ {0} /\ Stake \in Nat \ {0}
    /\ DayLength \in Nat \ {0} /\ MaxTime \in Nat \ {0}
    /\ \A o \in Orders : TradedAt[o] <= MaxTime
    /\ {TokenLimit, KolLimit, DailyLimit, MaxOpen, MaxAge, MarkMaxAge} \subseteq Nat
    /\ Idle \notin Orders
    /\ MirrorSells \in BOOLEAN

\* validate_exit_policy: percentages strictly between 0 and 100, a multiple above 1.
ValidPolicy(p) ==
    /\ p.enabled \in BOOLEAN
    /\ p.stop \in 1..99 /\ p.trail \in 1..99
    /\ p.multiple \in 2..100 /\ p.hold \in Nat \ {0}

ASSUME PolicyAssumption == \A p \in Policies : ValidPolicy(p)

Closed == [qty |-> 0, cost |-> 0, realised |-> 0, initial |-> 0, recovered |-> 0,
           first |-> 0, last |-> 0, price |-> 1, markAt |-> 0, peak |-> 1,
           stage |-> "armed", open |-> FALSE]

LInit ==
    /\ now = 1
    /\ seen = {} /\ fills = {}
    /\ pos = [k \in Keys |-> Closed]
    /\ daily = [d \in Days |-> [buy |-> 0, sell |-> 0, pnl |-> 0, trades |-> 0]]
    /\ desk = Idle
    /\ monitor = [at |-> "idle", since |-> 0, marks |-> [t \in Tokens |-> NoMark]]
    /\ policy \in Policies

-----------------------------------------------------------------------------
(* Limits.                                                                 *)

Larger(a, b) == IF a >= b THEN a ELSE b
Smaller(a, b) == IF a <= b THEN a ELSE b
Open == {k \in Keys : pos[k].open}

TokenCost(t) == Total([k \in Keys |-> pos[k].cost], {k \in Open : TokenOf[k] = t})
Bought(F) == Total([f \in F |-> f.gross], {f \in F : f.side = "buy"})
\* The day is that of the clock; the purchases are those executed on it.
BoughtToday(leaders) ==
    Bought({f \in fills : KolOf[f.position] \in leaders /\ Day(f.at) = Day(now)})

\* A variant that takes any row for an open position.
GuardByRow(k) ==
    /\ TokenCost(TokenOf[k]) + Stake <= TokenLimit
    /\ BoughtToday({KolOf[k]}) + Stake <= KolLimit
    /\ BoughtToday({KolOf[l] : l \in Keys}) + Stake <= DailyLimit
    /\ pos[k] = Closed => Cardinality(Open) < MaxOpen

PretradeGuard(k) ==
    /\ TokenCost(TokenOf[k]) + Stake <= TokenLimit
    /\ BoughtToday({KolOf[k]}) + Stake <= KolLimit
    /\ BoughtToday({KolOf[l] : l \in Keys}) + Stake <= DailyLimit
    /\ ~pos[k].open => Cardinality(Open) < MaxOpen

\* paper_copy_trade: what the desk decides about an order.
Verdict(o) ==
    IF KindOf[o] = "sell"
        THEN IF MirrorSells THEN "sell_requested" ELSE "ignored_sell_policy"
        ELSE IF now - TradedAt[o] > MaxAge THEN "dropped_late"
        ELSE IF PretradeGuard(KeyOf[o]) THEN "accepted" ELSE "limit_reached"

Decide(o) ==
    /\ desk = Idle
    /\ TradedAt[o] <= now /\ OrderId(o) \notin seen
    /\ desk' = [order |-> o, status |-> Verdict(o)]
    /\ UNCHANGED <<now, seen, pos, fills, daily, monitor, policy>>

-----------------------------------------------------------------------------
(* Booking.                                                                *)

\* A variant that forgets the money that came back.
DailyWithoutSells(d, buy, sell, pnl, trades) ==
    [daily EXCEPT ![d] = [@ EXCEPT !.buy = @ + buy, !.pnl = @ + pnl, !.trades = @ + trades]]

DailyDelta(d, buy, sell, pnl, trades) ==
    [daily EXCEPT ![d] = [buy |-> @.buy + buy, sell |-> @.sell + sell,
                          pnl |-> @.pnl + pnl, trades |-> @.trades + trades]]

\* The price of an order marks its position, whatever becomes of the order.  Marks of closed
\* positions are never read and left out.
Marked(p, price, at) == IF p.open THEN [p EXCEPT !.price = price, !.markAt = at] ELSE p

\* A buy into a position; one that holds nothing begins a new cycle.
AfterBuy(p, price, at) ==
    LET fresh == p.qty = 0
        initial == (IF fresh THEN 0 ELSE p.initial) + Stake
        recovered == IF fresh THEN 0 ELSE p.recovered
        rearmed == recovered < initial
    IN  [qty |-> p.qty + (Stake \div price), cost |-> p.cost + Stake,
         realised |-> p.realised, initial |-> initial, recovered |-> recovered,
         first |-> IF fresh THEN at ELSE p.first, last |-> at,
         price |-> price, markAt |-> at,
         peak |-> IF fresh \/ rearmed THEN price ELSE Larger(price, p.peak),
         stage |-> IF fresh \/ rearmed THEN "armed" ELSE p.stage, open |-> TRUE]

BookBuy(o, k, price) ==
    LET at == TradedAt[o] IN
    /\ pos' = [pos EXCEPT ![k] = AfterBuy(@, price, at)]
    /\ fills' = fills \union
          {[id |-> OrderId(o), position |-> k, side |-> "buy", gross |-> Stake, cost |-> Stake,
            at |-> at, received |-> now]}
    /\ daily' = DailyDelta(Day(at), Stake, 0, 0, 1)

AfterSell(p, price, at) ==
    [qty |-> 0, cost |-> 0, realised |-> p.realised + p.qty * price - p.cost,
     initial |-> p.initial, recovered |-> p.recovered, first |-> p.first, last |-> at,
     price |-> price, markAt |-> at, peak |-> p.peak, stage |-> p.stage, open |-> FALSE]

\* A mirrored sell takes the whole position (paperSellRatio is 1 or the order is ignored).
BookSell(o, k, price) ==
    LET at == TradedAt[o]
        gross == pos[k].qty * price
        pnl == gross - pos[k].cost
    IN  /\ pos' = [pos EXCEPT ![k] = AfterSell(@, price, at)]
        /\ fills' = fills \union
              {[id |-> OrderId(o), position |-> k, side |-> "sell", gross |-> gross,
                cost |-> pos[k].cost, at |-> at, received |-> now]}
        /\ daily' = DailyDelta(Day(at), 0, gross, pnl, 1)

\* An order that is ignored, or has no price, leaves its event and its mark.
BookNothing(k, price, at) ==
    /\ pos' = IF price = NoMark THEN pos ELSE [pos EXCEPT ![k] = Marked(@, price, at)]
    /\ UNCHANGED <<fills, daily>>

ApplyEvent(price) ==
    /\ desk # Idle
    /\ LET o == desk.order
           k == KeyOf[o]
           executes == /\ price # NoMark
                       /\ \/ desk.status = "accepted"
                          \/ desk.status = "sell_requested" /\ pos[k].open
       IN  /\ seen' = seen \union {OrderId(o)}
           /\ \/ executes /\ KindOf[o] = "buy" /\ BookBuy(o, k, price)
              \/ executes /\ KindOf[o] = "sell" /\ BookSell(o, k, price)
              \/ ~executes /\ BookNothing(k, price, TradedAt[o])
    /\ desk' = Idle
    /\ UNCHANGED <<now, monitor, policy>>

-----------------------------------------------------------------------------
(* The market monitor.                                                     *)

\* open_position_tokens and the request: a price per token, or none.  Rounds are at least
\* fifteen seconds apart.
Fetch ==
    /\ monitor.at = "idle" /\ monitor.since < now
    /\ \E marks \in [Tokens -> Prices \union {NoMark}] :
          /\ \A t \in Tokens : (\A k \in Open : TokenOf[k] # t) => marks[t] = NoMark
          /\ monitor' = [at |-> "fetched", since |-> now, marks |-> marks]
    /\ UNCHANGED <<now, seen, pos, fills, daily, desk, policy>>

\* update_market_marks: every open position of the token, dated as of the request, without
\* looking at the mark that is there.
Remark(p, price) ==
    IF p.open /\ price # NoMark
        THEN [p EXCEPT !.price = price, !.markAt = monitor.since, !.peak = Larger(price, @)]
        ELSE p

ApplyMarks ==
    /\ monitor.at = "fetched"
    /\ pos' = [k \in Keys |-> Remark(pos[k], monitor.marks[TokenOf[k]])]
    /\ monitor' = [monitor EXCEPT !.at = "marked", !.marks = [t \in Tokens |-> NoMark]]
    /\ UNCHANGED <<now, seen, fills, daily, desk, policy>>

Fresh(p) == now - p.markAt <= MarkMaxAge
Sinking(p) == p.open /\ Fresh(p) /\ p.price * p.qty * 100 <= p.cost * (100 - policy.stop)

\* The exit rule that holds for a position, in the order of the code, and what it sells.
Rule(p) ==
    IF Sinking(p) THEN "stop_loss"
    ELSE IF p.stage # "principal_recovered" /\ p.price * p.qty >= p.cost * policy.multiple
        THEN "principal_recovery"
    ELSE IF p.stage = "principal_recovered"
            /\ p.price * 100 <= Larger(p.price, p.peak) * (100 - policy.trail)
        THEN "trailing_stop"
    ELSE IF now - p.first >= policy.hold THEN "max_holding_time" ELSE "none"

SellQuantity(p, reason) ==
    IF reason = "principal_recovery"
        THEN Smaller(p.qty, Larger(0, p.initial - p.recovered) \div p.price) ELSE p.qty

HalfUp(a, b) == (2 * a + b) \div (2 * b)

\* A variant that leaves the cost of what was sold in the position.
ExitKeepsCost(p, reason, qty, at) ==
    LET gross == qty * p.price IN
    [p EXCEPT !.qty = @ - qty, !.realised = @ + gross - HalfUp(p.cost * qty, p.qty),
              !.recovered = IF reason = "principal_recovery" THEN @ + gross ELSE @,
              !.last = at, !.markAt = at, !.open = qty # p.qty,
              !.stage = IF qty = p.qty THEN reason
                        ELSE IF reason = "principal_recovery" THEN "principal_recovered" ELSE @]

AfterExit(p, reason, qty, at) ==
    LET gross == qty * p.price
        sold == HalfUp(p.cost * qty, p.qty)
        closing == qty = p.qty
    IN  [qty |-> p.qty - qty,
         cost |-> IF closing THEN 0 ELSE Larger(0, p.cost - sold),
         realised |-> p.realised + gross - sold, initial |-> p.initial,
         recovered |-> p.recovered + (IF reason = "principal_recovery" THEN gross ELSE 0),
         first |-> p.first, last |-> at, price |-> p.price, markAt |-> at, peak |-> p.peak,
         stage |-> IF closing THEN reason
                   ELSE IF reason = "principal_recovery" THEN "principal_recovered" ELSE p.stage,
         open |-> ~closing]

\* A variant that enters an exit once per rule.
OneGeneration(p) == 0

\* An exit is entered once per rule and generation of its position: its last trade.
Generation(p) == p.last
ExitId(k, reason) ==
    [kind |-> "exit", position |-> k, reason |-> reason, generation |-> Generation(pos[k])]

ExitsDue ==
    {k \in Open :
        /\ policy.enabled
        /\ pos[k].qty > 0 /\ pos[k].cost > 0 /\ Fresh(pos[k])
        /\ Rule(pos[k]) # "none" /\ SellQuantity(pos[k], Rule(pos[k])) > 0
        /\ ExitId(k, Rule(pos[k])) \notin seen}

ExitFill(k) ==
    LET p == pos[k]
        qty == SellQuantity(p, Rule(p))
    IN  [id |-> ExitId(k, Rule(p)), position |-> k, side |-> "sell", gross |-> qty * p.price,
         cost |-> HalfUp(p.cost * qty, p.qty), at |-> Larger(now, p.last + 1),
         received |-> now]

\* evaluate_exit_rules: one transaction over all open positions.
Evaluate ==
    /\ monitor.at = "marked"
    /\ LET new == {ExitFill(k) : k \in ExitsDue} IN
       /\ pos' = [k \in Keys |->
             IF k \in ExitsDue
                 THEN AfterExit(pos[k], Rule(pos[k]), SellQuantity(pos[k], Rule(pos[k])),
                                Larger(now, pos[k].last + 1))
                 ELSE pos[k]]
       /\ seen' = seen \union {f.id : f \in new}
       /\ fills' = fills \union new
       /\ daily' = [d \in Days |->
             LET exits == {f \in new : Day(f.at) = d} IN
             [daily[d] EXCEPT
                 !.sell = @ + Total([f \in exits |-> f.gross], exits),
                 !.pnl = @ + Net([f \in exits |-> f.gross - f.cost], exits),
                 !.trades = @ + Cardinality(exits)]]
    /\ monitor' = [monitor EXCEPT !.at = "idle"]
    /\ UNCHANGED <<now, desk, policy>>

-----------------------------------------------------------------------------
(* The rest of the world.                                                  *)

Tick ==
    /\ now + 2 <= MaxTime
    /\ now' = now + 2
    /\ UNCHANGED <<seen, pos, fills, daily, desk, monitor, policy>>

\* ExitPolicyStore.write replaces the file; the monitor reads it in every round.
SavePolicy(p) ==
    /\ p # policy
    /\ policy' = p
    /\ UNCHANGED <<now, seen, pos, fills, daily, desk, monitor>>

\* The process ends between two transactions and is started again.
Restart ==
    /\ desk # Idle \/ monitor.at # "idle"
    /\ desk' = Idle
    /\ monitor' = [monitor EXCEPT !.at = "idle", !.marks = [t \in Tokens |-> NoMark]]
    /\ UNCHANGED <<now, seen, pos, fills, daily, policy>>

LNext ==
    \/ \E o \in Orders : Decide(o)
    \/ \E price \in Prices \union {NoMark} : ApplyEvent(price)
    \/ Fetch \/ ApplyMarks \/ Evaluate
    \/ Tick \/ Restart
    \/ \E p \in Policies : SavePolicy(p)

LSpec == LInit /\ [][LNext]_lvars

-----------------------------------------------------------------------------
(* What the console shows (portfolio_snapshot).                            *)

CashDelta == Total([d \in Days |-> daily[d].sell], Days) - Total([d \in Days |-> daily[d].buy], Days)
CostTotal == Total([k \in Keys |-> pos[k].cost], Open)
RealisedTotal == Net([k \in Keys |-> pos[k].realised], Keys)

-----------------------------------------------------------------------------
(* Properties.                                                             *)

LTypeOK ==
    /\ now \in Nat
    /\ pos \in [Keys -> [qty : Nat, cost : Nat, realised : Int, initial : Nat,
                         recovered : Nat, first : Nat, last : Nat, price : Nat \ {0},
                         markAt : Nat, peak : Nat, stage : Stages, open : BOOLEAN]]
    /\ policy \in Policies
    /\ monitor \in [at : {"idle", "fetched", "marked"}, since : Nat,
                    marks : [Tokens -> Prices \union {NoMark}]]
    /\ desk = Idle \/ desk \in [order : Orders, status : {"sell_requested",
          "ignored_sell_policy", "dropped_late", "accepted", "limit_reached"}]

Book == INSTANCE PaperBook WITH
    Positions <- Keys,
    entries <- fills,
    invested <- [k \in Keys |-> pos[k].cost],
    profit <- [k \in Keys |-> pos[k].realised]

\* The ledger is a book: whatever the two threads do, a trade is entered once, and the cost
\* and the profit of a position change by the trades that are entered for it and never
\* otherwise (the transactions of apply_event and evaluate_exit_rules).
KeepsTheBook == Book!BookSpec

\* A position that stays open after its principal was taken out has given back exactly the
\* principal, through later buys, partial exits and restarts (README.md:64).
PrincipalExact ==
    \A k \in Keys :
        pos[k].open =>
            /\ pos[k].recovered <= pos[k].initial
            /\ pos[k].stage = "principal_recovered" => pos[k].recovered = pos[k].initial

Traded(k, side) ==
    Total([f \in fills |-> f.gross], {f \in fills : f.position = k /\ f.side = side})

\* The cash that went into a position and has not come back is what the position still has
\* invested, less what it has earned.
Balanced ==
    \A k \in Keys : Traded(k, "buy") - Traded(k, "sell") = pos[k].cost - pos[k].realised

\* The three tables tell the same story: the fills of a position, the position and the day's
\* sums, so that the cash of the snapshot plus what is invested is what was there at the start
\* plus what was earned, and a position has taken out of its principal what it says.
TablesAgree ==
    /\ PrincipalExact
    /\ Balanced
    /\ \A d \in Days :
          LET that == {f \in fills : Day(f.at) = d} IN
          /\ daily[d].buy = Bought(that)
          /\ daily[d].trades = Cardinality(that)
    /\ CashDelta + CostTotal = RealisedTotal

\* The limits hold for the holdings, not only at the moment they are asked, with the desk and
\* the monitor between the question and the booking: the cost of a token, the number of
\* positions, and what was bought on a day by orders that came in on that day.  (README.md:60
\* gives the daily limit without the last words; an order of the last seconds of a day, booked
\* after midnight, counts for neither day.)
LimitsHold ==
    /\ \A t \in Tokens : TokenCost(t) <= TokenLimit
    /\ Cardinality(Open) <= MaxOpen
    /\ \A d \in Days :
          Bought({f \in fills : Day(f.at) = d /\ Day(f.received) = d}) <= DailyLimit

\* Whenever the exit rules have run, no position with a fresh mark is left at or below its stop
\* loss, however often it was closed and bought again: the exit of an earlier cycle must not
\* be taken for this one's (portfolio/ledger.py:514, "a later buy creates a new generation
\* that must be evaluated from its freshly read quantity and cost").
SinkingIsSold == [][Evaluate /\ policy.enabled => \A k \in Keys : ~Sinking(pos[k])']_lvars
=============================================================================
