------------------------- MODULE PaperLedgerProofs -------------------------
(***************************************************************************)
(* Proofs about the paper ledger for every set of positions, orders and    *)
(* prices, every stake, limit, policy and clock: the types, that the       *)
(* ledger implements the book (PaperBook), that the limits hold for what   *)
(* is held, that its tables agree, and that a position that sinks to its   *)
(* stop loss is sold.  Facts about sums come first; the actual wallet,     *)
(* whose lots are sums too, comes last.                                    *)
(***************************************************************************)
EXTENDS PaperLedger, ActualWallet, FiniteSetTheorems, FunctionTheorems, TLAPS

PosType == [qty : Nat, cost : Nat, realised : Int, initial : Nat, recovered : Nat,
            first : Nat, last : Nat, price : Nat \ {0}, markAt : Nat, peak : Nat,
            stage : Stages, open : BOOLEAN]

\* The order on the desk is not booked yet, and what is filled was seen.
DeskUnseen == desk # Idle => OrderId(desk.order) \notin seen
FillsSeen == \A f \in fills : f.id \in seen

IInv == LTypeOK /\ DeskUnseen /\ FillsSeen

-----------------------------------------------------------------------------
(* Arithmetic.                                                             *)

LEMMA TimesMonotone ==
    ASSUME NEW n \in Nat, NEW a \in Nat, NEW b \in Nat, a <= b
    PROVE  n * a <= n * b
<1> DEFINE d == b - a
<1>1. d \in Nat /\ b = a + d
  OBVIOUS
<1>2. n * (a + d) = n * a + n * d /\ n * d \in Nat /\ n * a \in Nat
  BY <1>1, SMT
<1>3. QED
  BY <1>1, <1>2

\* The cost of a part, rounded half up, is between nothing and the whole.
LEMMA CostOfPart ==
    ASSUME NEW c \in Nat, NEW q \in Nat, NEW p \in Nat, p > 0, q <= p
    PROVE  HalfUp(c * q, p) \in Nat /\ HalfUp(c * q, p) <= c
<1> DEFINE x == c * q
           d == (2 * x + p) \div (2 * p)
<1>1. x \in Nat /\ x <= c * p /\ c * p \in Nat
  BY TimesMonotone
<1>2. d \in Nat /\ (2 * p) * d <= 2 * x + p
  <2> HIDE DEF x
  <2>1. 2 * p \in Nat /\ 2 * p > 0 /\ 2 * x + p \in Nat
    BY <1>1
  <2>2. QED
    BY <2>1, SMT DEF d
<1>3. d <= c
  <2> HIDE DEF x, d
  <2>1. SUFFICES ASSUME d >= c + 1 PROVE FALSE
    BY <1>2
  <2>2. (2 * p) * (c + 1) <= (2 * p) * d
    BY <2>1, <1>2, TimesMonotone
  <2>3. (2 * p) * (c + 1) = 2 * (c * p) + 2 * p
    BY SMT
  <2>4. QED
    BY <1>1, <1>2, <2>2, <2>3
<1>4. QED
  BY <1>2, <1>3 DEF HalfUp

LEMMA CostOfWhole ==
    ASSUME NEW c \in Nat, NEW p \in Nat, p > 0
    PROVE  HalfUp(c * p, p) = c
<1> DEFINE d == (2 * (c * p) + p) \div (2 * p)
<1>1. d \in Nat /\ 2 * (c * p) + p < (2 * p) * d + 2 * p
  <2>1. 2 * p \in Nat /\ 2 * p > 0 /\ c * p \in Nat /\ 2 * (c * p) + p \in Nat
    OBVIOUS
  <2>2. QED
    BY <2>1, SMT
<1>2. d >= c
  <2> HIDE DEF d
  <2>1. SUFFICES ASSUME d + 1 <= c PROVE FALSE
    BY <1>1
  <2>2. (2 * p) * (d + 1) <= (2 * p) * c
    BY <2>1, <1>1, TimesMonotone
  <2>3. (2 * p) * (d + 1) = (2 * p) * d + 2 * p /\ (2 * p) * c = 2 * (c * p)
    BY <1>1, SMT
  <2>4. QED
    BY <1>1, <2>2, <2>3
<1>3. d <= c
  BY CostOfPart DEF HalfUp
<1>4. QED
  BY <1>1, <1>2, <1>3 DEF HalfUp

\* What an exit sells is part of the position.
LEMMA SellsAPart ==
    ASSUME NEW p \in PosType, NEW reason
    PROVE  SellQuantity(p, reason) \in Nat /\ SellQuantity(p, reason) <= p.qty
<1>1. p.qty \in Nat /\ p.initial \in Nat /\ p.recovered \in Nat /\ p.price \in Nat /\ p.price > 0
  BY DEF PosType
<1>2. Larger(0, p.initial - p.recovered) \in Nat
  BY <1>1 DEF Larger
<1>3. Larger(0, p.initial - p.recovered) \div p.price \in Nat
  BY <1>1, <1>2, SMT
<1>4. QED
  BY <1>1, <1>3 DEF SellQuantity, Smaller

LEMMA ExitType ==
    ASSUME NEW p \in PosType, p.qty > 0, NEW reason \in Stages, NEW at \in Nat,
           NEW qty \in Nat, qty <= p.qty
    PROVE  AfterExit(p, reason, qty, at) \in PosType
<1>1. /\ p.qty \in Nat /\ p.cost \in Nat /\ p.realised \in Int /\ p.recovered \in Nat
      /\ p.price \in Nat /\ p.stage \in Stages
  BY DEF PosType
<1>2. HalfUp(p.cost * qty, p.qty) \in Nat
  BY <1>1, CostOfPart
<1>3. qty * p.price \in Nat
  BY <1>1
<1> DEFINE q == AfterExit(p, reason, qty, at)
<1>4. Larger(0, p.cost - HalfUp(p.cost * qty, p.qty)) \in Nat
  BY <1>1, <1>2 DEF Larger
<1>5. "principal_recovered" \in Stages
  BY DEF Stages
<1>6. QED
  BY <1>1, <1>2, <1>3, <1>4, <1>5 DEF AfterExit, PosType

-----------------------------------------------------------------------------
(* The inductive invariant.                                                *)

LEMMA PosTypes == LTypeOK => pos \in [Keys -> PosType]
  BY DEF LTypeOK, PosType

LEMMA Initially == LInit => IInv
<1> SUFFICES ASSUME LInit PROVE IInv
  OBVIOUS
<1>1. LTypeOK
  <2>1. pos \in [Keys -> PosType]
    BY DEF LInit, Closed, PosType, Stages
  <2>2. QED
    BY <2>1 DEF LInit, LTypeOK, PosType, NoMark
<1>2. DeskUnseen /\ FillsSeen
  BY DEF LInit, DeskUnseen, FillsSeen
<1>3. QED
  BY <1>1, <1>2 DEF IInv

\* The desk's decision about an order.
LEMMA DecideStep == ASSUME IInv, NEW o \in Orders, Decide(o) PROVE IInv'
<1>1. desk' \in [order : Orders, status : {"sell_requested", "ignored_sell_policy",
                   "dropped_late", "accepted", "limit_reached"}]
  BY DEF Decide, Verdict
<1>2. DeskUnseen' /\ FillsSeen'
  BY DEF IInv, DeskUnseen, FillsSeen, Decide, OrderId
<1>3. LTypeOK'
  BY <1>1 DEF IInv, LTypeOK, Decide
<1>4. QED
  BY <1>2, <1>3 DEF IInv

LEMMA BuyType ==
    ASSUME NEW p \in PosType, NEW price \in Nat \ {0}, NEW at \in Nat
    PROVE  AfterBuy(p, price, at) \in PosType
<1>1. Stake \div price \in Nat
  BY LedgerAssumption, SMT
<1>2. Stake \in Nat
  BY LedgerAssumption
<1>3. /\ p.qty \in Nat /\ p.cost \in Nat /\ p.initial \in Nat /\ p.recovered \in Nat
      /\ p.first \in Nat /\ p.peak \in Nat /\ p.stage \in Stages /\ p.realised \in Int
  BY DEF PosType
<1>4. Larger(price, p.peak) \in Nat /\ "armed" \in Stages
  BY <1>3 DEF Larger, Stages
<1>5. QED
  BY <1>1, <1>2, <1>3, <1>4 DEF AfterBuy, PosType

LEMMA SellType ==
    ASSUME NEW p \in PosType, NEW price \in Nat \ {0}, NEW at \in Nat
    PROVE  AfterSell(p, price, at) \in PosType
<1>1. p.qty * price \in Nat
  BY DEF PosType
<1>2. QED
  BY <1>1 DEF AfterSell, PosType

LEMMA ApplyStep ==
    ASSUME IInv, NEW price \in Prices \union {NoMark}, ApplyEvent(price) PROVE IInv'
<1> DEFINE o == desk.order
           k == KeyOf[o]
<1>1. o \in Orders /\ k \in Keys /\ TradedAt[o] \in Nat
  BY LedgerAssumption DEF IInv, LTypeOK, ApplyEvent
<1>2. pos \in [Keys -> PosType] /\ pos[k] \in PosType
  BY <1>1, PosTypes DEF IInv
<1>3. price \in Nat
  BY LedgerAssumption DEF NoMark
<1>4. seen' = seen \union {OrderId(o)} /\ desk' = Idle /\ UNCHANGED <<now, monitor, policy>>
  BY DEF ApplyEvent
<1>5. pos' \in [Keys -> PosType] /\ FillsSeen'
  <2>1. CASE price # NoMark /\ KindOf[o] = "buy" /\ BookBuy(o, k, price)
    <3>1. price \in Nat \ {0}
      BY <1>3, <2>1 DEF NoMark
    <3>2. AfterBuy(pos[k], price, TradedAt[o]) \in PosType
      BY <3>1, <1>1, <1>2, BuyType
    <3>3. pos' \in [Keys -> PosType]
      BY <3>2, <1>2, <2>1 DEF BookBuy
    <3>4. FillsSeen'
      BY <1>4, <2>1 DEF BookBuy, IInv, FillsSeen
    <3>5. QED
      BY <3>3, <3>4
  <2>2. CASE price # NoMark /\ KindOf[o] = "sell" /\ BookSell(o, k, price)
    <3>1. price \in Nat \ {0}
      BY <1>3, <2>2 DEF NoMark
    <3>2. AfterSell(pos[k], price, TradedAt[o]) \in PosType
      BY <3>1, <1>1, <1>2, SellType
    <3>3. pos' \in [Keys -> PosType]
      BY <3>2, <1>2, <2>2 DEF BookSell
    <3>4. FillsSeen'
      BY <1>4, <2>2 DEF BookSell, IInv, FillsSeen
    <3>5. QED
      BY <3>3, <3>4
  <2>3. CASE BookNothing(k, price, TradedAt[o])
    <3>1. FillsSeen'
      BY <1>4, <2>3 DEF BookNothing, IInv, FillsSeen
    <3>2. CASE price = NoMark
      BY <3>1, <3>2, <1>2, <2>3 DEF BookNothing
    <3>3. CASE price # NoMark
      <4>1. price \in Nat \ {0}
        BY <1>3, <3>3 DEF NoMark
      <4>2. Marked(pos[k], price, TradedAt[o]) \in PosType
        BY <4>1, <1>1, <1>2 DEF Marked, PosType
      <4>3. QED
        BY <3>1, <3>3, <4>2, <1>2, <2>3 DEF BookNothing
    <3>4. QED
      BY <3>2, <3>3
  <2>4. QED
    BY <2>1, <2>2, <2>3 DEF ApplyEvent
<1>6. LTypeOK'
  BY <1>4, <1>5 DEF IInv, LTypeOK, PosType
<1>7. DeskUnseen'
  BY <1>4 DEF DeskUnseen
<1>8. QED
  BY <1>5, <1>6, <1>7 DEF IInv

LEMMA FetchStep == ASSUME IInv, Fetch PROVE IInv'
<1>1. monitor' \in [at : {"idle", "fetched", "marked"}, since : Nat,
                    marks : [Tokens -> Prices \union {NoMark}]]
  BY DEF Fetch, IInv, LTypeOK
<1>2. LTypeOK'
  BY <1>1 DEF IInv, LTypeOK, Fetch
<1>3. DeskUnseen' /\ FillsSeen'
  BY DEF IInv, DeskUnseen, FillsSeen, Fetch
<1>4. QED
  BY <1>2, <1>3 DEF IInv

LEMMA MarksStep == ASSUME IInv, ApplyMarks PROVE IInv'
<1>1. pos \in [Keys -> PosType] /\ monitor.since \in Nat
  BY PosTypes DEF IInv, LTypeOK
<1>2. ASSUME NEW k \in Keys PROVE Remark(pos[k], monitor.marks[TokenOf[k]]) \in PosType
  <2>1. monitor.marks[TokenOf[k]] \in Nat
    BY LedgerAssumption DEF IInv, LTypeOK, NoMark
  <2>2. \A m \in Nat \ {0} : Larger(m, pos[k].peak) \in Nat
    BY <1>1 DEF Larger, PosType
  <2>3. QED
    BY <1>1, <2>1, <2>2 DEF Remark, PosType, NoMark
<1>3. pos' \in [Keys -> PosType]
  BY <1>2 DEF ApplyMarks
<1>4. monitor' \in [at : {"idle", "fetched", "marked"}, since : Nat,
                    marks : [Tokens -> Prices \union {NoMark}]]
  BY DEF ApplyMarks, IInv, LTypeOK
<1>5. LTypeOK'
  BY <1>3, <1>4 DEF IInv, LTypeOK, ApplyMarks, PosType
<1>6. DeskUnseen' /\ FillsSeen'
  BY DEF IInv, DeskUnseen, FillsSeen, ApplyMarks
<1>7. QED
  BY <1>5, <1>6 DEF IInv

\* What the exit rules sell of a due position, and when.
LEMMA DueExit ==
    ASSUME IInv, NEW k \in ExitsDue
    PROVE  /\ k \in Keys /\ pos[k] \in PosType /\ pos[k].qty > 0
           /\ Rule(pos[k]) \in Stages
           /\ SellQuantity(pos[k], Rule(pos[k])) \in Nat
           /\ SellQuantity(pos[k], Rule(pos[k])) <= pos[k].qty
           /\ Larger(now, pos[k].last + 1) \in Nat
           /\ ExitId(k, Rule(pos[k])) \notin seen
<1>1. k \in Keys /\ pos[k] \in PosType /\ pos[k].qty > 0 /\ ExitId(k, Rule(pos[k])) \notin seen
  BY PosTypes DEF IInv, ExitsDue, Open
<1>2. Rule(pos[k]) \in Stages
  BY DEF ExitsDue, Rule, Stages
<1>3. Larger(now, pos[k].last + 1) \in Nat
  BY <1>1 DEF IInv, LTypeOK, PosType, Larger
<1>4. QED
  BY <1>1, <1>2, <1>3, SellsAPart

LEMMA EvaluateStep == ASSUME IInv, Evaluate PROVE IInv'
<1> DEFINE new == {ExitFill(k) : k \in ExitsDue}
<1>1. pos' \in [Keys -> PosType]
  <2>1. ASSUME NEW k \in ExitsDue
        PROVE AfterExit(pos[k], Rule(pos[k]), SellQuantity(pos[k], Rule(pos[k])),
                        Larger(now, pos[k].last + 1)) \in PosType
    BY DueExit, ExitType
  <2>2. pos \in [Keys -> PosType]
    BY PosTypes DEF IInv
  <2>3. QED
    BY <2>1, <2>2 DEF Evaluate
<1>2. monitor' \in [at : {"idle", "fetched", "marked"}, since : Nat,
                    marks : [Tokens -> Prices \union {NoMark}]]
  BY DEF Evaluate, IInv, LTypeOK
<1>3. LTypeOK'
  BY <1>1, <1>2 DEF IInv, LTypeOK, Evaluate, PosType
<1>4. seen' = seen \union {f.id : f \in new} /\ fills' = fills \union new
  BY DEF Evaluate
<1>5. FillsSeen'
  BY <1>4 DEF IInv, FillsSeen
<1>6. DeskUnseen'
  <2>1. \A f \in new : f.id.kind = "exit"
    BY DEF ExitFill, ExitId
  <2>2. \A x : OrderId(x).kind = "order"
    BY DEF OrderId
  <2>3. desk' = desk
    BY DEF Evaluate
  <2>4. QED
    BY <1>4, <2>1, <2>2, <2>3 DEF IInv, DeskUnseen
<1>7. QED
  BY <1>3, <1>5, <1>6 DEF IInv

LEMMA OtherSteps ==
    ASSUME IInv, Tick \/ Restart \/ (\E p \in Policies : SavePolicy(p)) \/ UNCHANGED lvars
    PROVE  IInv'
<1>1. CASE Tick
  <2>1. now' \in Nat
    BY <1>1 DEF Tick, IInv, LTypeOK
  <2>2. QED
    BY <1>1, <2>1 DEF Tick, IInv, LTypeOK, DeskUnseen, FillsSeen
<1>2. CASE Restart
  <2>1. monitor' \in [at : {"idle", "fetched", "marked"}, since : Nat,
                      marks : [Tokens -> Prices \union {NoMark}]]
    BY <1>2 DEF Restart, IInv, LTypeOK
  <2>2. QED
    BY <1>2, <2>1 DEF Restart, IInv, LTypeOK, DeskUnseen, FillsSeen
<1>3. CASE \E p \in Policies : SavePolicy(p)
  BY <1>3 DEF SavePolicy, IInv, LTypeOK, DeskUnseen, FillsSeen
<1>4. CASE UNCHANGED lvars
  BY <1>4 DEF lvars, IInv, LTypeOK, DeskUnseen, FillsSeen
<1>5. QED
  BY <1>1, <1>2, <1>3, <1>4

LEMMA Preserved == IInv /\ [LNext]_lvars => IInv'
  BY DecideStep, ApplyStep, FetchStep, MarksStep, EvaluateStep, OtherSteps DEF LNext

\* The ledger's types hold in every reachable state: quantities and costs never become
\* negative, whatever the rounding, and an exit stage is one of the six.
THEOREM LedgerTypes == LSpec => []LTypeOK
<1>1. IInv => LTypeOK
  BY DEF IInv
<1>2. QED
  BY <1>1, Initially, Preserved, PTL DEF LSpec

-----------------------------------------------------------------------------
(* The ledger implements the book.                                         *)

\* A step that leaves the fills, the costs and the profits alone is a stutter of the book.
LEMMA Stutters ==
    ASSUME fills' = fills,
           \A k \in Keys : pos'[k].cost = pos[k].cost /\ pos'[k].realised = pos[k].realised
    PROVE  UNCHANGED Book!bvars
  BY DEF Book!bvars

\* One trade of one position.
LEMMA PostsOne ==
    ASSUME NEW e, NEW k \in Keys, e.position = k, fills' = fills \union {e},
           \A f \in fills : f.id # e.id,
           \A l \in Keys \ {k} : pos'[l].cost = pos[l].cost /\ pos'[l].realised = pos[l].realised,
           Book!Posts(e)
    PROVE  Book!BookNext
<1>1. fills' \ fills \subseteq {e}
  OBVIOUS
<1>2. e \in fills' \ fills
  OBVIOUS
<1>3. e.id \notin Book!Ids
  BY DEF Book!Ids
<1>4. QED
  BY <1>1, <1>2, <1>3 DEF Book!BookNext

LEMMA ApplyPosts ==
    ASSUME IInv, NEW price \in Prices \union {NoMark}, ApplyEvent(price)
    PROVE  Book!BookNext \/ UNCHANGED Book!bvars
<1> DEFINE o == desk.order
           k == KeyOf[o]
<1>1. o \in Orders /\ k \in Keys
  BY LedgerAssumption DEF IInv, LTypeOK, ApplyEvent
<1>2. pos \in [Keys -> PosType]
  BY PosTypes DEF IInv
<1>3. \A f \in fills : f.id # OrderId(o)
  BY DEF IInv, FillsSeen, DeskUnseen, ApplyEvent
<1>4. Stake \in Nat /\ price \in Nat
  BY LedgerAssumption DEF NoMark
<1>5. CASE BookBuy(o, k, price)
  <2> DEFINE e == [id |-> OrderId(o), position |-> k, side |-> "buy", gross |-> Stake,
                   cost |-> Stake, at |-> TradedAt[o], received |-> now]
  <2>1. fills' = fills \union {e} /\ e.position = k /\ e.id = OrderId(o)
    BY <1>5 DEF BookBuy
  <2>2. pos' = [pos EXCEPT ![k] = AfterBuy(pos[k], price, TradedAt[o])]
    BY <1>5 DEF BookBuy
  <2>3. /\ AfterBuy(pos[k], price, TradedAt[o]).cost = pos[k].cost + Stake
        /\ AfterBuy(pos[k], price, TradedAt[o]).realised = pos[k].realised
    BY <1>1, <1>2 DEF AfterBuy, PosType
  <2>4. Book!Posts(e)
    BY <1>1, <1>2, <2>2, <2>3 DEF Book!Posts
  <2>5. \A l \in Keys \ {k} : pos'[l] = pos[l]
    BY <1>2, <2>2
  <2> HIDE DEF e, k, o
  <2>6. QED
    BY <1>1, <1>3, <2>1, <2>4, <2>5, PostsOne DEF Book!Posts
<1>6. CASE BookSell(o, k, price)
  <2> DEFINE gross == pos[k].qty * price
             e == [id |-> OrderId(o), position |-> k, side |-> "sell", gross |-> gross,
                   cost |-> pos[k].cost, at |-> TradedAt[o], received |-> now]
  <2>1. fills' = fills \union {e} /\ e.position = k /\ e.id = OrderId(o)
    BY <1>6 DEF BookSell
  <2>2. /\ pos'[k].cost = 0
        /\ pos'[k].realised = pos[k].realised + gross - pos[k].cost
        /\ \A l \in Keys \ {k} : pos'[l] = pos[l]
    BY <1>1, <1>2, <1>6 DEF BookSell, AfterSell, PosType
  <2>3. pos[k].cost \in Nat /\ gross \in Nat /\ pos[k].realised \in Int
    BY <1>1, <1>2, <1>4 DEF PosType
  <2>4. Book!Posts(e)
    <3> HIDE DEF gross
    <3>1. QED
      BY <1>1, <2>2, <2>3 DEF Book!Posts
  <2> HIDE DEF e, k, o
  <2>5. QED
    BY <1>1, <1>3, <2>1, <2>2, <2>4, PostsOne DEF Book!Posts
<1>7. CASE BookNothing(k, price, TradedAt[o])
  <2>1. \A l \in Keys : pos'[l].cost = pos[l].cost /\ pos'[l].realised = pos[l].realised
    BY <1>1, <1>2, <1>7 DEF BookNothing, Marked, PosType
  <2>2. QED
    BY <1>7, <2>1, Stutters DEF BookNothing
<1>8. QED
  BY <1>5, <1>6, <1>7 DEF ApplyEvent

LEMMA MarksStutter == ASSUME IInv, ApplyMarks PROVE UNCHANGED Book!bvars
<1>1. pos \in [Keys -> PosType]
  BY PosTypes DEF IInv
<1>2. \A k \in Keys : pos'[k].cost = pos[k].cost /\ pos'[k].realised = pos[k].realised
  BY <1>1 DEF ApplyMarks, Remark, PosType
<1>3. QED
  BY <1>2, Stutters DEF ApplyMarks

\* A round of the exit rules enters one trade for each position that is due.
LEMMA EvaluatePosts == ASSUME IInv, Evaluate PROVE Book!BookNext
<1> DEFINE new == {ExitFill(k) : k \in ExitsDue}
<1>1. pos \in [Keys -> PosType]
  BY PosTypes DEF IInv
<1>2. fills' = fills \union new
  BY DEF Evaluate
<1>3. \A k \in ExitsDue : ExitFill(k).position = k /\ ExitFill(k).id = ExitId(k, Rule(pos[k]))
  BY DEF ExitFill
<1>4. \A e \in new : e.id \notin Book!Ids /\ e.position \in Keys
  BY <1>3, DueExit DEF IInv, FillsSeen, Book!Ids
<1>5. ASSUME NEW k \in ExitsDue PROVE Book!Posts(ExitFill(k))
  <2> DEFINE p == pos[k]
             qty == SellQuantity(p, Rule(p))
             sold == HalfUp(p.cost * qty, p.qty)
             after == AfterExit(p, Rule(p), qty, Larger(now, p.last + 1))
  <2>1. /\ k \in Keys /\ p \in PosType /\ p.qty > 0 /\ qty \in Nat /\ qty <= p.qty
    BY DueExit
  <2>2. p.cost \in Nat /\ p.qty \in Nat /\ p.realised \in Int /\ p.price \in Nat
    BY <2>1 DEF PosType
  <2>3. sold \in Nat /\ sold <= p.cost
    BY <2>1, <2>2, CostOfPart
  <2>4. qty = p.qty => sold = p.cost
    BY <2>1, <2>2, CostOfWhole
  <2>5. pos'[k] = after
    BY <2>1 DEF Evaluate
  <2>6. after.cost = p.cost - sold
    <3>1. after.cost = IF qty = p.qty THEN 0 ELSE Larger(0, p.cost - sold)
      BY <2>1 DEF AfterExit, PosType
    <3> HIDE DEF sold, qty, after
    <3>2. QED
      BY <3>1, <2>2, <2>3, <2>4 DEF Larger
  <2>7. after.realised = p.realised + qty * p.price - sold
    BY <2>1 DEF AfterExit, PosType
  <2>8. /\ ExitFill(k).side = "sell" /\ ExitFill(k).gross = qty * p.price
        /\ ExitFill(k).cost = sold
    BY DEF ExitFill
  <2> HIDE DEF sold, qty, after
  <2>9. QED
    BY <1>3, <2>1, <2>3, <2>5, <2>6, <2>7, <2>8 DEF Book!Posts
<1>6. \A e, f \in new : e # f => e.position # f.position /\ e.id # f.id
  <2>1. ASSUME NEW k \in ExitsDue, NEW l \in ExitsDue, k # l
        PROVE ExitFill(k).position # ExitFill(l).position /\ ExitFill(k).id # ExitFill(l).id
    <3>1. ExitFill(k).position = k /\ ExitFill(l).position = l
      BY <1>3
    <3>2. ExitFill(k).id.position = k /\ ExitFill(l).id.position = l
      BY DEF ExitFill, ExitId
    <3>3. QED
      BY <2>1, <3>1, <3>2
  <2>2. QED
    BY <2>1
<1>7. ASSUME NEW k \in Keys, k \notin ExitsDue PROVE pos'[k] = pos[k]
  BY <1>7 DEF Evaluate
<1>8. fills' \ fills \subseteq new /\ fills \subseteq fills' /\ new \subseteq fills' \ fills
  <2>1. \A e \in new : e \notin fills
    BY <1>4 DEF Book!Ids
  <2>2. QED
    BY <1>2, <2>1
<1>9. \A e \in fills' \ fills : Book!Posts(e)
  <2>1. \A e \in new : Book!Posts(e)
    BY <1>5 DEF Book!Posts
  <2>2. QED
    BY <2>1, <1>8
<1>10. \A k \in Keys : (\A e \in fills' \ fills : e.position # k) => pos'[k] = pos[k]
  BY <1>3, <1>7, <1>8
<1> HIDE DEF new
<1>11. QED
  BY <1>4, <1>6, <1>8, <1>9, <1>10 DEF Book!BookNext

LEMMA BookStep == IInv /\ [LNext]_lvars => [Book!BookNext]_(Book!bvars)
<1> SUFFICES ASSUME IInv, [LNext]_lvars PROVE Book!BookNext \/ UNCHANGED Book!bvars
  OBVIOUS
<1>1. ASSUME NEW o \in Orders, Decide(o) PROVE UNCHANGED Book!bvars
  BY <1>1, Stutters DEF Decide
<1>2. CASE Fetch \/ Tick \/ Restart \/ UNCHANGED lvars
  BY <1>2, Stutters DEF Fetch, Tick, Restart, lvars
<1>3. ASSUME NEW p \in Policies, SavePolicy(p) PROVE UNCHANGED Book!bvars
  BY <1>3, Stutters DEF SavePolicy
<1>4. QED
  BY <1>1, <1>2, <1>3, ApplyPosts, MarksStutter, EvaluatePosts DEF LNext

\* The paper ledger implements the book: a trade is entered once, and what a position has
\* invested and earned moves by its entries and by nothing else, whatever the dispatcher and
\* the monitor interleave and however often the process is restarted.
THEOREM LedgerKeepsTheBook == LSpec => KeepsTheBook
<1>1. LInit => Book!BookInit
  BY DEF LInit, Book!BookInit, Closed
<1>2. QED
  BY <1>1, Initially, Preserved, BookStep, PTL DEF LSpec, KeepsTheBook, Book!BookSpec

-----------------------------------------------------------------------------
(* Sums.                                                                   *)

LEMMA UnitsOfOne ==
    ASSUME NEW x, NEW n \in Nat
    PROVE  IsFiniteSet({x} \X (1..n)) /\ Cardinality({x} \X (1..n)) = n
<1>1. IsFiniteSet({x}) /\ Cardinality({x}) = 1
  BY FS_Singleton
<1>2. IsFiniteSet(1..n) /\ Cardinality(1..n) = n
  <2>1. IsFiniteSet(1..n) /\ Cardinality(1..n) = IF 1 > n THEN 0 ELSE n - 1 + 1
    BY FS_Interval
  <2>2. QED
    BY <2>1
<1>3. QED
  <2>1. IsFiniteSet({x} \X (1..n)) /\ Cardinality({x} \X (1..n)) = Cardinality({x}) * Cardinality(1..n)
    BY <1>1, <1>2, FS_Product
  <2>2. QED
    BY <2>1, <1>1, <1>2

LEMMA UnitsFinite ==
    ASSUME NEW v, NEW S, IsFiniteSet(S), \A x \in S : v[x] \in Nat
    PROVE  IsFiniteSet(Units(v, S)) /\ Total(v, S) \in Nat
<1> DEFINE part == [x \in S |-> {x} \X (1..v[x])]
           parts == {{x} \X (1..v[x]) : x \in S}
<1>1. part \in Surjection(S, parts)
  BY DEF Surjection
<1>2. IsFiniteSet(parts)
  <2> HIDE DEF part, parts
  <2>1. QED
    BY <1>1, FS_Surjection
<1>3. ASSUME NEW T \in parts PROVE IsFiniteSet(T)
  <2>1. PICK x \in S : T = {x} \X (1..v[x])
    OBVIOUS
  <2>2. QED
    BY <2>1, UnitsOfOne
<1>4. IsFiniteSet(UNION parts)
  <2> HIDE DEF parts
  <2>1. QED
    BY <1>2, <1>3, FS_UNION
<1>5. QED
  BY <1>4, FS_CardinalityType DEF Units, Total

LEMMA TotalOfNone == ASSUME NEW v PROVE Total(v, {}) = 0
<1>1. Units(v, {}) = {}
  BY DEF Units
<1>2. QED
  BY <1>1, FS_EmptySet DEF Total

LEMMA TotalGrows ==
    ASSUME NEW v, NEW w, NEW S, NEW T, IsFiniteSet(T), S \subseteq T,
           \A x \in T : w[x] \in Nat,
           \A x \in S : v[x] \in Nat /\ v[x] <= w[x]
    PROVE  Total(v, S) <= Total(w, T)
<1>1. IsFiniteSet(Units(w, T))
  BY UnitsFinite
<1>2. Units(v, S) \subseteq Units(w, T)
  <2>1. ASSUME NEW x \in S PROVE 1..v[x] \subseteq 1..w[x]
    OBVIOUS
  <2>2. QED
    BY <2>1 DEF Units
<1>3. QED
  BY <1>1, <1>2, FS_Subset DEF Total

LEMMA TotalSame ==
    ASSUME NEW v, NEW w, NEW S, \A x \in S : v[x] = w[x]
    PROVE  Total(v, S) = Total(w, S)
<1>1. Units(v, S) = Units(w, S)
  BY DEF Units
<1>2. QED
  BY <1>1 DEF Total

LEMMA TotalAdds ==
    ASSUME NEW v, NEW S, IsFiniteSet(S), \A y \in S : v[y] \in Nat,
           NEW x, x \notin S, v[x] \in Nat
    PROVE  Total(v, S \union {x}) = Total(v, S) + v[x]
<1> DEFINE U == Units(v, S)
           W == {x} \X (1..v[x])
<1>1. IsFiniteSet(U) /\ Cardinality(U) \in Nat
  BY UnitsFinite DEF Total
<1>2. IsFiniteSet(W) /\ Cardinality(W) = v[x]
  BY UnitsOfOne
<1>3. Units(v, S \union {x}) = U \union W
  BY DEF Units
<1>4. U \cap W = {}
  BY DEF Units
<1>5. Cardinality(U \union W) = Cardinality(U) + Cardinality(W) - Cardinality(U \cap W)
  <2> HIDE DEF U, W
  <2>1. QED
    BY <1>1, <1>2, FS_Union
<1>6. Cardinality(U \cap W) = 0
  BY <1>4, FS_EmptySet
<1>7. QED
  <2> HIDE DEF U, W
  <2>1. Total(v, S \union {x}) = Cardinality(U \union W) /\ Total(v, S) = Cardinality(U)
    BY <1>3 DEF Total, U
  <2>2. QED
    BY <2>1, <1>1, <1>2, <1>5, <1>6

LEMMA TotalOfUnion ==
    ASSUME NEW v, NEW S, NEW T, IsFiniteSet(S), IsFiniteSet(T), S \cap T = {},
           \A x \in S \union T : v[x] \in Nat
    PROVE  Total(v, S \union T) = Total(v, S) + Total(v, T)
<1> DEFINE U == Units(v, S)
           W == Units(v, T)
<1>1. IsFiniteSet(U) /\ IsFiniteSet(W) /\ Cardinality(U) \in Nat /\ Cardinality(W) \in Nat
  BY UnitsFinite DEF Total
<1>2. Units(v, S \union T) = U \union W /\ U \cap W = {}
  BY DEF Units
<1>3. QED
  <2> HIDE DEF U, W
  <2>1. Cardinality(U \union W) = Cardinality(U) + Cardinality(W) - Cardinality(U \cap W)
    BY <1>1, FS_Union
  <2>2. Cardinality(U \cap W) = 0
    BY <1>2, FS_EmptySet
  <2>3. Cardinality(U \union W) = Cardinality(U) + Cardinality(W)
    BY <2>1, <2>2, <1>1
  <2>4. QED
    BY <2>3, <1>2 DEF Total, U, W

\* What counts for nothing can be left out.
LEMMA TotalOfSome ==
    ASSUME NEW v, NEW S, NEW T, S \subseteq T, \A x \in T \ S : v[x] = 0
    PROVE  Total(v, S) = Total(v, T)
<1>1. \A x \in T \ S : 1..v[x] = {}
  OBVIOUS
<1>2. Units(v, S) = Units(v, T)
  BY <1>1 DEF Units
<1>3. QED
  BY <1>2 DEF Total

LEMMA TotalOfSums ==
    ASSUME NEW u, NEW v, NEW w, NEW S, IsFiniteSet(S),
           \A x \in S : u[x] \in Nat /\ v[x] \in Nat /\ w[x] = u[x] + v[x]
    PROVE  Total(w, S) = Total(u, S) + Total(v, S)
<1> DEFINE U == Units(u, S)
           V == Units(v, S)
           W == {z \in Units(w, S) : z[2] > u[z[1]]}
           f == [z \in V |-> <<z[1], z[2] + u[z[1]]>>]
<1>1. /\ IsFiniteSet(U) /\ IsFiniteSet(V)
      /\ Cardinality(U) \in Nat /\ Cardinality(V) \in Nat
  BY UnitsFinite DEF Total
<1>2. ASSUME NEW z \in V
      PROVE  z[1] \in S /\ z[2] \in 1..v[z[1]] /\ z = <<z[1], z[2]>> /\ f[z] \in W
  <2>1. PICK x \in S : z \in {x} \X (1..v[x])
    BY DEF Units
  <2>2. z[1] = x /\ z[2] \in 1..v[x] /\ z = <<x, z[2]>>
    BY <2>1
  <2>3. z[2] + u[x] \in 1..w[x] /\ z[2] + u[x] > u[x]
    BY <2>2
  <2>4. <<x, z[2] + u[x]>> \in Units(w, S)
    BY <2>3 DEF Units
  <2>5. QED
    BY <2>2, <2>3, <2>4
<1>3. \A y, z \in V : f[y] = f[z] => y = z
  <2>1. SUFFICES ASSUME NEW y \in V, NEW z \in V, f[y] = f[z] PROVE y = z
    OBVIOUS
  <2>2. y[1] = z[1] /\ y[2] + u[y[1]] = z[2] + u[z[1]]
    BY <2>1
  <2>3. y[1] \in S /\ z[1] \in S /\ y[2] \in 1..v[y[1]] /\ z[2] \in 1..v[z[1]]
    BY <1>2
  <2>4. y[2] = z[2]
    BY <2>2, <2>3
  <2>5. QED
    BY <2>2, <2>4, <1>2
<1>4. \A y \in W : \E z \in V : f[z] = y
  <2>1. SUFFICES ASSUME NEW y \in W PROVE \E z \in V : f[z] = y
    OBVIOUS
  <2>2. PICK x \in S : y \in {x} \X (1..w[x])
    BY DEF Units
  <2>3. y = <<x, y[2]>> /\ y[2] \in 1..w[x] /\ y[2] > u[x]
    BY <2>2
  <2>4. y[2] - u[x] \in 1..v[x] /\ (y[2] - u[x]) + u[x] = y[2]
    BY <2>3
  <2>5. <<x, y[2] - u[x]>> \in V
    BY <2>4 DEF Units
  <2>6. f[<<x, y[2] - u[x]>>] = y
    BY <2>3, <2>4, <2>5
  <2>7. QED
    BY <2>5, <2>6
<1>5. f \in Bijection(V, W)
  <2>1. f \in [V -> W]
    BY <1>2
  <2> HIDE DEF f, V, W
  <2>2. QED
    BY <2>1, <1>3, <1>4 DEF Bijection, Injection, Surjection, IsInjective
<1>6. IsFiniteSet(W) /\ Cardinality(W) = Cardinality(V)
  <2> HIDE DEF f, V, W
  <2>1. QED
    BY <1>5, <1>1, FS_Bijection DEF ExistsBijection
<1>7. Units(w, S) = U \union W /\ U \cap W = {}
  <2>1. ASSUME NEW z \in Units(w, S) PROVE z \in U \union W
    <3>1. PICK x \in S : z \in {x} \X (1..w[x])
      BY DEF Units
    <3>2. z = <<x, z[2]>> /\ z[2] \in 1..w[x]
      BY <3>1
    <3>3. CASE z[2] > u[x]
      BY <3>2, <3>3
    <3>4. CASE ~ (z[2] > u[x])
      <4>1. z[2] \in 1..u[x]
        BY <3>2, <3>4
      <4>2. QED
        BY <4>1, <3>2 DEF Units
    <3>5. QED
      BY <3>3, <3>4
  <2>2. ASSUME NEW z \in U PROVE z \in Units(w, S) /\ z \notin W
    <3>1. PICK x \in S : z \in {x} \X (1..u[x])
      BY DEF Units
    <3>2. z = <<x, z[2]>> /\ z[2] \in 1..u[x]
      BY <3>1
    <3>3. z[2] \in 1..w[x] /\ ~ (z[2] > u[x])
      BY <3>2
    <3>4. QED
      BY <3>2, <3>3 DEF Units
  <2>3. QED
    BY <2>1, <2>2
<1>8. QED
  <2> HIDE DEF U, V, W, f
  <2>1. Cardinality(U \union W) = Cardinality(U) + Cardinality(W) - Cardinality(U \cap W)
    BY <1>1, <1>6, FS_Union
  <2>2. Cardinality(U \cap W) = 0
    BY <1>7, FS_EmptySet
  <2>3. Cardinality(U \union W) = Cardinality(U) + Cardinality(V)
    BY <2>1, <2>2, <1>1, <1>6
  <2>4. QED
    BY <2>3, <1>7 DEF Total, U, V

\* A sum taken part by part.
LEMMA TotalByPart ==
    ASSUME NEW v, NEW S, IsFiniteSet(S), \A x \in S : v[x] \in Nat,
           NEW D, NEW g, \A x \in S : g[x] \in D,
           NEW part, \A d \in D : \A x : x \in part[d] <=> x \in S /\ g[x] = d,
           NEW s, \A d \in D : s[d] = Total(v, part[d])
    PROVE  Total(s, D) = Total(v, S)
<1> DEFINE P(d) == Units(v, part[d])
           b == [d \in D |-> CHOOSE f : f \in Bijection(P(d), 1..s[d])]
           U == Units(v, S)
           W == Units(s, D)
           h == [u \in U |-> <<g[u[1]], b[g[u[1]]][u]>>]
<1>1. ASSUME NEW d \in D
      PROVE  b[d] \in Bijection(P(d), 1..s[d]) /\ s[d] \in Nat
  <2> DEFINE R == part[d]
  <2>1. IsFiniteSet(R)
    <3>1. R \subseteq S
      OBVIOUS
    <3> HIDE DEF R
    <3>2. QED
      BY <3>1, FS_Subset
  <2>2. IsFiniteSet(P(d)) /\ s[d] = Cardinality(P(d)) /\ s[d] \in Nat
    <3>1. \A x \in R : v[x] \in Nat
      OBVIOUS
    <3>2. IsFiniteSet(Units(v, R)) /\ Total(v, R) \in Nat
      <4> HIDE DEF R
      <4>1. QED
        BY <2>1, <3>1, UnitsFinite
    <3>3. QED
      BY <3>2 DEF Total
  <2>3. PICK n \in Nat : ExistsBijection(1..n, P(d))
    <3> HIDE DEF P
    <3>1. QED
      BY <2>2, FS_NatBijection
  <2>4. n = s[d]
    <3> HIDE DEF P
    <3>1. Cardinality(P(d)) = n
      BY <2>3, FS_CountingElements
    <3>2. QED
      BY <3>1, <2>2
  <2>5. ExistsBijection(P(d), 1..s[d])
    <3> HIDE DEF P
    <3>1. QED
      BY <2>3, <2>4, Fun_ExistsBijSymmetric
  <2>6. QED
    <3> HIDE DEF P
    <3>1. QED
      BY <2>2, <2>5 DEF ExistsBijection
<1>2. ASSUME NEW u \in U
      PROVE  /\ u[1] \in S /\ g[u[1]] \in D /\ u \in P(g[u[1]])
             /\ h[u] = <<g[u[1]], b[g[u[1]]][u]>> /\ b[g[u[1]]][u] \in 1..s[g[u[1]]]
             /\ h[u] \in W
  <2>1. PICK x \in S : u \in {x} \X (1..v[x])
    BY DEF Units
  <2>2. u[1] = x /\ u \in P(g[x]) /\ g[x] \in D
    BY <2>1 DEF Units
  <2>3. b[g[x]][u] \in 1..s[g[x]]
    <3> HIDE DEF P, b
    <3>1. QED
      BY <2>2, <1>1 DEF Bijection, Injection
  <2>4. <<g[x], b[g[x]][u]>> \in W
    <3> HIDE DEF b
    <3>1. QED
      BY <2>2, <2>3 DEF Units
  <2>5. QED
    <3> HIDE DEF P, b, W
    <3>1. QED
      BY <2>2, <2>3, <2>4
<1>3. \A y, z \in U : h[y] = h[z] => y = z
  <2>1. SUFFICES ASSUME NEW y \in U, NEW z \in U, h[y] = h[z] PROVE y = z
    OBVIOUS
  <2> DEFINE d == g[y[1]]
  <2> HIDE DEF P, b, W, h, U
  <2>2. d = g[z[1]] /\ b[d][y] = b[d][z]
    BY <2>1, <1>2
  <2>3. d \in D /\ y \in P(d) /\ z \in P(d)
    BY <2>2, <1>2
  <2>4. QED
    BY <2>2, <2>3, <1>1 DEF Bijection, Injection, IsInjective
<1>4. \A w \in W : \E u \in U : h[u] = w
  <2>1. SUFFICES ASSUME NEW w \in W PROVE \E u \in U : h[u] = w
    OBVIOUS
  <2>2. PICK d \in D : w \in {d} \X (1..s[d])
    BY DEF Units
  <2>3. w = <<d, w[2]>> /\ w[2] \in 1..s[d]
    BY <2>2
  <2>4. PICK u \in P(d) : b[d][u] = w[2]
    <3> HIDE DEF P, b
    <3>1. QED
      BY <2>3, <1>1 DEF Bijection, Surjection
  <2>5. u \in U /\ g[u[1]] = d
    BY DEF Units
  <2>6. QED
    <3> HIDE DEF P, b, U, W, h
    <3>1. QED
      BY <2>3, <2>4, <2>5, <1>2
<1>5. h \in Bijection(U, W)
  <2>1. h \in [U -> W]
    <3> HIDE DEF P, b, U, W
    <3>1. \A u \in U : h[u] \in W
      BY <1>2
    <3>2. QED
      BY <3>1
  <2> HIDE DEF P, b, U, W, h
  <2>2. QED
    BY <2>1, <1>3, <1>4 DEF Bijection, Injection, Surjection, IsInjective
<1>6. QED
  <2>1. IsFiniteSet(U)
    BY UnitsFinite
  <2> HIDE DEF P, b, h
  <2>2. Cardinality(W) = Cardinality(U)
    <3> HIDE DEF U, W
    <3>1. QED
      BY <2>1, <1>5, FS_Bijection DEF ExistsBijection
  <2>3. QED
    BY <2>2 DEF Total

-----------------------------------------------------------------------------
(* The limits.                                                             *)

\* The fills of a day that also came in on that day.
InDay(F, d) == {f \in F : Day(f.at) = d /\ Day(f.received) = d}

FillsKept ==
    /\ IsFiniteSet(fills) /\ IsFiniteSet(Open)
    /\ \A f \in fills :
          /\ f.position \in Keys /\ f.gross \in Nat /\ f.cost \in Nat
          /\ f.at \in Nat /\ f.received \in Nat

\* A position that is closed has nothing invested, so it counts again from nothing.
ClosedEmpty == \A k \in Keys : ~pos[k].open => pos[k].cost = 0

\* What the desk has accepted still fits when it is booked: since the question was asked
\* nothing but exits has changed the holdings, and a day that has begun since is not the day
\* of the trade.
StillFits ==
    desk # Idle =>
        LET o == desk.order
            k == KeyOf[o]
        IN  /\ desk.status = "sell_requested" => KindOf[o] = "sell"
            /\ desk.status = "accepted" =>
                  /\ KindOf[o] = "buy" /\ TradedAt[o] <= now
                  /\ TokenCost(TokenOf[k]) + Stake <= TokenLimit
                  /\ Cardinality(Open \union {k}) <= MaxOpen
                  /\ Day(TradedAt[o]) = Day(now) => Bought(InDay(fills, Day(now))) + Stake <= DailyLimit

Fitting == IInv /\ FillsKept /\ ClosedEmpty /\ StillFits /\ LimitsHold

LEMMA DayGrows ==
    ASSUME NEW a \in Nat, NEW b \in Nat, a <= b
    PROVE  Day(a) \in Nat /\ Day(b) \in Nat /\ Day(a) <= Day(b)
<1> DEFINE n == DayLength
           x == Day(a)
           y == Day(b)
<1>1. n \in Nat /\ n > 0
  BY LedgerAssumption
<1>2. /\ x \in Nat /\ n * x <= a /\ y \in Nat /\ b < n * y + n
  BY <1>1, SMT DEF Day
<1>3. x <= y
  <2> HIDE DEF n, x, y
  <2>1. SUFFICES ASSUME y + 1 <= x PROVE FALSE
    BY <1>2
  <2>2. n * (y + 1) <= n * x
    BY <2>1, <1>1, <1>2, TimesMonotone
  <2>3. n * (y + 1) = n * y + n
    BY <1>1, <1>2, SMT
  <2> DEFINE p == n * x
             q == n * y
  <2>4. p \in Nat /\ q \in Nat
    BY <1>1, <1>2, SMT
  <2>5. q + n <= p /\ p <= a /\ b < q + n
    BY <1>2, <2>2, <2>3
  <2>6. QED
    <3> HIDE DEF p, q
    <3>1. QED
      BY <1>1, <2>4, <2>5
<1>4. QED
  BY <1>2, <1>3

\* The cost of a token and of its positions is a number.
LEMMA CostIsNat ==
    ASSUME LTypeOK, IsFiniteSet(Open), NEW t
    PROVE  TokenCost(t) \in Nat
<1> DEFINE S == {k \in Open : TokenOf[k] = t}
           v == [k \in Keys |-> pos[k].cost]
<1>1. S \subseteq Open /\ Open \subseteq Keys
  BY DEF Open
<1>2. \A k \in S : v[k] \in Nat
  BY <1>1, PosTypes DEF PosType
<1>3. IsFiniteSet(S)
  BY <1>1, FS_Subset
<1>4. Total(v, S) \in Nat
  <2> HIDE DEF S, v
  <2>1. QED
    BY <1>2, <1>3, UnitsFinite
<1>5. QED
  BY <1>4 DEF TokenCost

\* More purchases cost more.
LEMMA BoughtGrows ==
    ASSUME NEW F, NEW G, IsFiniteSet(G), F \subseteq G, \A f \in G : f.gross \in Nat
    PROVE  Bought(F) \in Nat /\ Bought(G) \in Nat /\ Bought(F) <= Bought(G)
<1> DEFINE S == {f \in F : f.side = "buy"}
           T == {f \in G : f.side = "buy"}
           v == [f \in F |-> f.gross]
           w == [f \in G |-> f.gross]
<1>1. IsFiniteSet(S) /\ IsFiniteSet(T) /\ S \subseteq T
  BY FS_Subset
<1>2. /\ \A f \in T : w[f] \in Nat
      /\ \A f \in S : v[f] \in Nat /\ v[f] <= w[f]
  OBVIOUS
<1>3. Total(v, S) \in Nat /\ Total(w, T) \in Nat /\ Total(v, S) <= Total(w, T)
  <2> HIDE DEF S, T, v, w
  <2>1. QED
    BY <1>1, <1>2, UnitsFinite, TotalGrows
<1>4. QED
  BY <1>3 DEF Bought

\* What is bought does not depend on sells.
LEMMA SellsDoNotCount ==
    ASSUME NEW F, NEW G, {f \in F : f.side = "buy"} = {f \in G : f.side = "buy"}
    PROVE  Bought(F) = Bought(G)
<1> DEFINE S == {f \in F : f.side = "buy"}
           v == [f \in F |-> f.gross]
           w == [f \in G |-> f.gross]
<1>1. \A f \in S : v[f] = w[f]
  OBVIOUS
<1>2. Total(v, S) = Total(w, S)
  <2> HIDE DEF S, v, w
  <2>1. QED
    BY <1>1, TotalSame
<1>3. QED
  BY <1>2 DEF Bought

LEMMA FittingAtFirst == LInit => Fitting
<1> SUFFICES ASSUME LInit PROVE Fitting
  OBVIOUS
<1>1. IInv
  BY Initially
<1>2. Open = {} /\ fills = {}
  BY DEF LInit, Open, Closed
<1>3. FillsKept /\ ClosedEmpty /\ StillFits
  BY <1>2, FS_EmptySet DEF FillsKept, LInit, ClosedEmpty, Closed, StillFits
<1>4. \A t : TokenCost(t) = 0
  <2>1. \A t : {k \in Open : TokenOf[k] = t} = {}
    BY <1>2
  <2>2. QED
    BY <2>1, TotalOfNone DEF TokenCost
<1>5. ASSUME NEW d \in Days PROVE Bought({f \in fills : Day(f.at) = d /\ Day(f.received) = d}) = 0
  <2>1. Bought({}) = 0
    <3>1. {f \in {} : f.side = "buy"} = {}
      OBVIOUS
    <3>2. QED
      BY <3>1, TotalOfNone DEF Bought
  <2>2. {f \in fills : Day(f.at) = d /\ Day(f.received) = d} = {}
    BY <1>2
  <2>3. QED
    BY <2>1, <2>2
<1>6. LimitsHold
  BY <1>2, <1>4, <1>5, FS_EmptySet, LedgerAssumption DEF LimitsHold
<1>7. QED
  BY <1>1, <1>3, <1>6 DEF Fitting

\* A step that opens nothing, raises no cost and enters no purchase keeps every limit, and
\* what was accepted still fits.
LEMMA Relief ==
    ASSUME Fitting, IInv', FillsKept', ClosedEmpty',
           \A k \in Keys : (pos'[k].open => pos[k].open) /\ pos'[k].cost <= pos[k].cost,
           fills \subseteq fills', \A f \in fills' \ fills : f.side = "sell",
           desk' = desk \/ desk' = Idle, now <= now'
    PROVE  Fitting'
<1>1. /\ LTypeOK /\ LTypeOK' /\ IsFiniteSet(Open) /\ Open' \subseteq Open
      /\ now \in Nat /\ now' \in Nat
  BY DEF Fitting, FillsKept, IInv, LTypeOK, Open
<1>2. ASSUME NEW t
      PROVE  TokenCost(t)' <= TokenCost(t) /\ TokenCost(t) \in Nat /\ TokenCost(t)' \in Nat
  <2> DEFINE S == {k \in Open' : TokenOf[k] = t}
             T == {k \in Open : TokenOf[k] = t}
             v == [k \in Keys |-> pos'[k].cost]
             w == [k \in Keys |-> pos[k].cost]
  <2>1. T \subseteq Open /\ Open \subseteq Keys /\ S \subseteq T
    BY <1>1 DEF Open
  <2>2. IsFiniteSet(T) /\ IsFiniteSet(Open')
    BY <1>1, <2>1, FS_Subset
  <2>3. /\ \A k \in T : w[k] \in Nat
        /\ \A k \in S : v[k] \in Nat /\ v[k] <= w[k]
    BY <2>1, <1>1, PosTypes DEF LTypeOK
  <2>4. Total(v, S) <= Total(w, T)
    <3> HIDE DEF S, T, v, w
    <3>1. QED
      BY <2>1, <2>2, <2>3, TotalGrows
  <2>5. IsFiniteSet(S)
    BY <2>1, <2>2, FS_Subset
  <2>6. Total(v, S) \in Nat
    <3> HIDE DEF S, T, v, w
    <3>1. QED
      BY <2>3, <2>5, UnitsFinite
  <2>7. QED
    BY <1>1, <2>4, <2>6, CostIsNat DEF TokenCost
<1>3. ASSUME NEW d PROVE Bought(InDay(fills', d)) = Bought(InDay(fills, d))
  <2>1. {f \in InDay(fills', d) : f.side = "buy"} = {f \in InDay(fills, d) : f.side = "buy"}
    BY DEF InDay
  <2>2. QED
    BY <2>1, SellsDoNotCount
<1>4. LimitsHold'
  <2>1. \A t \in Tokens : TokenCost(t)' <= TokenLimit
    BY <1>2, LedgerAssumption DEF Fitting, LimitsHold
  <2>2. Cardinality(Open') <= MaxOpen
    <3>1. Cardinality(Open') <= Cardinality(Open) /\ IsFiniteSet(Open')
      BY <1>1, FS_Subset
    <3>2. Cardinality(Open') \in Nat /\ Cardinality(Open) \in Nat
      BY <1>1, <3>1, FS_CardinalityType
    <3>3. QED
      BY <3>1, <3>2, LedgerAssumption DEF Fitting, LimitsHold
  <2>3. \A d \in Days : Bought(InDay(fills', d)) <= DailyLimit
    BY <1>3 DEF Fitting, LimitsHold, InDay
  <2>4. QED
    BY <2>1, <2>2, <2>3 DEF LimitsHold, InDay
<1>5. StillFits'
  <2> SUFFICES ASSUME desk' # Idle PROVE StillFits'
    BY DEF StillFits
  <2> DEFINE o == desk.order
             k == KeyOf[o]
  <2>1. desk' = desk /\ desk # Idle /\ o \in Orders /\ k \in Keys /\ TradedAt[o] \in Nat
    BY <1>1, LedgerAssumption DEF LTypeOK
  <2>2. desk.status = "sell_requested" => KindOf[o] = "sell"
    BY <2>1 DEF Fitting, StillFits
  <2>3. ASSUME desk.status = "accepted"
        PROVE  /\ KindOf[o] = "buy" /\ TradedAt[o] <= now'
               /\ TokenCost(TokenOf[k])' + Stake <= TokenLimit
               /\ Cardinality(Open' \union {k}) <= MaxOpen
               /\ Day(TradedAt[o]) = Day(now') =>
                     Bought(InDay(fills', Day(now'))) + Stake <= DailyLimit
    <3>1. /\ KindOf[o] = "buy" /\ TradedAt[o] <= now
          /\ TokenCost(TokenOf[k]) + Stake <= TokenLimit
          /\ Cardinality(Open \union {k}) <= MaxOpen
          /\ Day(TradedAt[o]) = Day(now) => Bought(InDay(fills, Day(now))) + Stake <= DailyLimit
      BY <2>1, <2>3 DEF Fitting, StillFits
    <3>2. TradedAt[o] <= now'
      BY <3>1, <1>1, <2>1
    <3>3. TokenCost(TokenOf[k])' + Stake <= TokenLimit
      BY <3>1, <1>2, LedgerAssumption
    <3>4. Cardinality(Open' \union {k}) <= MaxOpen
      <4>1. IsFiniteSet(Open \union {k}) /\ Open' \union {k} \subseteq Open \union {k}
        BY <1>1, FS_AddElement
      <4>2. /\ Cardinality(Open' \union {k}) <= Cardinality(Open \union {k})
            /\ IsFiniteSet(Open' \union {k})
        BY <4>1, FS_Subset
      <4>3. Cardinality(Open' \union {k}) \in Nat /\ Cardinality(Open \union {k}) \in Nat
        BY <4>1, <4>2, FS_CardinalityType
      <4>4. QED
        BY <3>1, <4>2, <4>3, LedgerAssumption
    <3>5. ASSUME Day(TradedAt[o]) = Day(now')
          PROVE  Bought(InDay(fills', Day(now'))) + Stake <= DailyLimit
      <4>1. /\ Day(TradedAt[o]) <= Day(now) /\ Day(now) <= Day(now')
            /\ Day(now) \in Nat /\ Day(now') \in Nat /\ Day(TradedAt[o]) \in Nat
        BY <3>1, <1>1, <2>1, DayGrows
      <4>2. Day(now) = Day(now') /\ Day(TradedAt[o]) = Day(now)
        BY <4>1, <3>5
      <4>3. QED
        BY <4>2, <3>1, <1>3
    <3>6. QED
      BY <3>1, <3>2, <3>3, <3>4, <3>5
  <2>4. QED
    BY <2>1, <2>2, <2>3 DEF StillFits
<1>6. QED
  BY <1>4, <1>5 DEF Fitting

LEMMA DecideFits == ASSUME Fitting, NEW o \in Orders, Decide(o) PROVE Fitting'
<1> DEFINE k == KeyOf[o]
<1>1. /\ UNCHANGED <<now, seen, pos, fills, daily, monitor, policy>>
      /\ desk' = [order |-> o, status |-> Verdict(o)] /\ TradedAt[o] <= now
  BY DEF Decide
<1>2. IInv' /\ k \in Keys /\ LTypeOK /\ IsFiniteSet(Open) /\ now \in Nat
  BY DecideStep, LedgerAssumption DEF Fitting, IInv, FillsKept, LTypeOK
<1>3. Open' = Open /\ (\A t : TokenCost(t)' = TokenCost(t))
  BY <1>1 DEF Open, TokenCost
<1>4. FillsKept' /\ ClosedEmpty' /\ LimitsHold'
  BY <1>1, <1>3 DEF Fitting, FillsKept, ClosedEmpty, LimitsHold
<1>5. Verdict(o) = "sell_requested" => KindOf[o] = "sell"
  BY DEF Verdict
<1>6. ASSUME Verdict(o) = "accepted"
      PROVE  /\ KindOf[o] = "buy"
             /\ TokenCost(TokenOf[k]) + Stake <= TokenLimit
             /\ Cardinality(Open \union {k}) <= MaxOpen
             /\ Bought(InDay(fills, Day(now))) + Stake <= DailyLimit
  <2>1. PretradeGuard(k) /\ KindOf[o] = "buy"
    <3>1. KindOf[o] \in {"buy", "sell"}
      BY LedgerAssumption
    <3>2. QED
      BY <3>1, <1>6 DEF Verdict
  <2>2. Cardinality(Open \union {k}) <= MaxOpen
    <3>1. CASE pos[k].open
      <4>1. Open \union {k} = Open
        BY <3>1, <1>2 DEF Open
      <4>2. QED
        BY <4>1 DEF Fitting, LimitsHold
    <3>2. CASE ~ pos[k].open
      <4>1. Cardinality(Open) < MaxOpen
        BY <2>1, <3>2 DEF PretradeGuard
      <4>2. k \notin Open
        BY <3>2 DEF Open
      <4>3. Cardinality(Open \union {k}) = Cardinality(Open) + 1
        BY <4>2, <1>2, FS_AddElement
      <4>4. Cardinality(Open) \in Nat
        BY <1>2, FS_CardinalityType
      <4>5. QED
        BY <4>1, <4>3, <4>4, LedgerAssumption
    <3>3. QED
      BY <3>1, <3>2
  <2>3. Bought(InDay(fills, Day(now))) + Stake <= DailyLimit
    <3> DEFINE F == InDay(fills, Day(now))
               G == {f \in fills : KolOf[f.position] \in {KolOf[l] : l \in Keys}
                                   /\ Day(f.at) = Day(now)}
    <3>1. F \subseteq G /\ G \subseteq fills /\ \A f \in G : f.gross \in Nat
      BY DEF InDay, Fitting, FillsKept
    <3>2. IsFiniteSet(G)
      BY <3>1, FS_Subset DEF Fitting, FillsKept
    <3>3. Bought(F) \in Nat /\ Bought(G) \in Nat /\ Bought(F) <= Bought(G)
      <4> HIDE DEF F, G
      <4>1. QED
        BY <3>1, <3>2, BoughtGrows
    <3>4. Bought(G) + Stake <= DailyLimit
      BY <2>1 DEF PretradeGuard, BoughtToday
    <3>5. QED
      <4> HIDE DEF F, G
      <4>1. Bought(F) + Stake <= DailyLimit
        BY <3>3, <3>4, LedgerAssumption
      <4>2. QED
        BY <4>1 DEF F
  <2>4. QED
    BY <2>1, <2>2, <2>3 DEF PretradeGuard
<1>7. StillFits'
  BY <1>1, <1>3, <1>5, <1>6 DEF StillFits, InDay
<1>8. QED
  BY <1>2, <1>4, <1>7 DEF Fitting

\* What a buy of the desk does to the limits it was accepted under.
LEMMA BuyFits ==
    ASSUME Fitting, IInv', NEW price \in Nat \ {0},
           desk # Idle, desk.status = "accepted",
           BookBuy(desk.order, KeyOf[desk.order], price),
           desk' = Idle, now' = now
    PROVE  Fitting'
<1> DEFINE o == desk.order
           k == KeyOf[o]
           new == [id |-> OrderId(o), position |-> k, side |-> "buy", gross |-> Stake,
                   cost |-> Stake, at |-> TradedAt[o], received |-> now]
<1>1. /\ LTypeOK /\ IsFiniteSet(Open) /\ IsFiniteSet(fills) /\ now \in Nat
      /\ o \in Orders /\ k \in Keys /\ TradedAt[o] \in Nat /\ Stake \in Nat
  BY LedgerAssumption DEF Fitting, FillsKept, IInv, LTypeOK
<1>2. /\ TradedAt[o] <= now
      /\ TokenCost(TokenOf[k]) + Stake <= TokenLimit
      /\ Cardinality(Open \union {k}) <= MaxOpen
      /\ Day(TradedAt[o]) = Day(now) => Bought(InDay(fills, Day(now))) + Stake <= DailyLimit
  BY DEF Fitting, StillFits
<1>3. /\ pos' = [pos EXCEPT ![k] = AfterBuy(@, price, TradedAt[o])]
      /\ fills' = fills \union {new}
  BY DEF BookBuy
<1>4. pos \in [Keys -> PosType] /\ pos[k] \in PosType
  BY <1>1, PosTypes
<1>5. /\ pos'[k].open /\ pos'[k].cost = pos[k].cost + Stake
      /\ \A j \in Keys \ {k} : pos'[j] = pos[j]
  BY <1>1, <1>3, <1>4 DEF AfterBuy
<1>6. Open' = Open \union {k} /\ IsFiniteSet(Open')
  <2>1. Open' = Open \union {k}
    BY <1>1, <1>5 DEF Open
  <2>2. QED
    BY <2>1, <1>1, FS_AddElement
<1>7. FillsKept' /\ ClosedEmpty'
  <2>1. IsFiniteSet(fills')
    BY <1>1, <1>3, FS_AddElement
  <2>2. QED
    BY <2>1, <1>1, <1>3, <1>5, <1>6 DEF Fitting, FillsKept, ClosedEmpty
<1>8. ASSUME NEW t \in Tokens PROVE TokenCost(t)' <= TokenLimit
  <2> DEFINE S == {j \in Open : TokenOf[j] = t}
             T == {j \in Open' : TokenOf[j] = t}
             R == S \ {k}
             v == [j \in Keys |-> pos[j].cost]
             w == [j \in Keys |-> pos'[j].cost]
  <2>1. TokenCost(t) = Total(v, S) /\ TokenCost(t)' = Total(w, T)
    BY DEF TokenCost
  <2>2. S \subseteq Open /\ Open \subseteq Keys /\ R \subseteq S
    BY DEF Open
  <2>3. IsFiniteSet(S) /\ IsFiniteSet(R)
    <3>1. IsFiniteSet(S)
      BY <2>2, <1>1, FS_Subset
    <3>2. QED
      BY <3>1, <2>2, FS_Subset
  <2>4. /\ \A j \in Keys : v[j] \in Nat
        /\ \A j \in Keys \ {k} : w[j] = v[j]
        /\ w[k] = v[k] + Stake /\ w[k] \in Nat
        /\ k \notin Open => v[k] = 0
    BY <1>1, <1>4, <1>5 DEF PosType, Fitting, ClosedEmpty, Open
  <2>5. Total(w, R) = Total(v, R) /\ Total(v, R) \in Nat
    <3>1. \A j \in R : w[j] = v[j] /\ v[j] \in Nat
      BY <2>2, <2>4
    <3>2. QED
      <4> HIDE DEF R, v, w
      <4>1. QED
        BY <3>1, <2>3, TotalSame, UnitsFinite
  <2>6. CASE TokenOf[k] # t
    <3>1. T = S /\ R = S
      BY <2>6, <1>6
    <3>2. Total(w, T) = Total(v, S)
      BY <3>1, <2>5
    <3>3. QED
      BY <3>2, <2>1 DEF Fitting, LimitsHold
  <2>7. CASE TokenOf[k] = t
    <3>1. T = R \union {k} /\ k \notin R
      BY <2>7, <1>6
    <3>2. Total(w, R \union {k}) = Total(w, R) + w[k]
      <4>1. \A j \in R : w[j] \in Nat
        BY <2>2, <2>4
      <4> HIDE DEF R, v, w
      <4>2. QED
        BY <4>1, <3>1, <2>3, <2>4, TotalAdds
    <3>3. Total(v, S) = Total(v, R) + v[k]
      <4>1. CASE k \in Open
        <5>1. S = R \union {k}
          BY <4>1, <2>7
        <5>2. \A j \in R : v[j] \in Nat
          BY <2>2, <2>4
        <5>3. Total(v, R \union {k}) = Total(v, R) + v[k]
          <6> HIDE DEF R, v, w
          <6>1. QED
            BY <5>2, <3>1, <2>3, <2>4, <1>1, TotalAdds
        <5>4. QED
          BY <5>1, <5>3
      <4>2. CASE k \notin Open
        <5>1. S = R /\ v[k] = 0
          BY <4>2, <2>4
        <5> HIDE DEF S, R, v, w
        <5>2. QED
          BY <5>1, <2>5
      <4>3. QED
        BY <4>1, <4>2
    <3>4. Total(w, T) = Total(v, S) + Stake
      <4>1. Total(w, T) = Total(w, R) + w[k]
        BY <3>1, <3>2
      <4>2. v[k] \in Nat
        BY <1>1, <2>4
      <4> HIDE DEF S, T, R, v, w
      <4>3. QED
        BY <4>1, <4>2, <3>3, <2>4, <2>5, <1>1
    <3>5. TokenCost(t)' = TokenCost(t) + Stake
      <4> HIDE DEF S, T, v, w
      <4>1. QED
        BY <3>4, <2>1
    <3>6. QED
      BY <3>5, <2>7, <1>2
  <2>8. QED
    BY <2>6, <2>7
<1>9. ASSUME NEW d \in Days PROVE Bought(InDay(fills', d)) <= DailyLimit
  <2> DEFINE F == InDay(fills, d)
             G == InDay(fills', d)
  <2>1. Bought(F) <= DailyLimit
    BY DEF Fitting, LimitsHold, InDay
  <2>2. CASE new \in fills \/ ~ (Day(TradedAt[o]) = d /\ Day(now) = d)
    <3>1. F = G
      BY <2>2, <1>3 DEF InDay
    <3>2. QED
      BY <3>1, <2>1
  <2>3. CASE new \notin fills /\ Day(TradedAt[o]) = d /\ Day(now) = d
    <3> DEFINE S == {f \in F : f.side = "buy"}
               v == [f \in F |-> f.gross]
               w == [f \in G |-> f.gross]
    <3>1. G = F \union {new} /\ new \notin F
      BY <2>3, <1>3 DEF InDay
    <3>2. {f \in G : f.side = "buy"} = S \union {new} /\ new \notin S /\ w[new] = Stake
      BY <3>1
    <3>3. F \subseteq fills /\ S \subseteq fills
      BY DEF InDay
    <3>4. /\ \A f \in S : v[f] = w[f] /\ w[f] \in Nat /\ v[f] \in Nat
          /\ IsFiniteSet(S)
      BY <3>1, <3>3, <1>1, FS_Subset DEF Fitting, FillsKept
    <3>5. /\ Total(w, S \union {new}) = Total(w, S) + w[new]
          /\ Total(w, S) = Total(v, S) /\ Total(v, S) \in Nat
      <4> HIDE DEF S, v, w, new
      <4>1. QED
        BY <3>2, <3>4, <1>1, TotalAdds, TotalSame, UnitsFinite
    <3>6. Bought(G) = Bought(F) + Stake
      <4>1. Bought(G) = Total(w, S \union {new}) /\ Bought(F) = Total(v, S)
        BY <3>2 DEF Bought
      <4>2. QED
        BY <4>1, <3>2, <3>5
    <3>7. Bought(F) + Stake <= DailyLimit
      BY <2>3, <1>2
    <3>8. QED
      BY <3>6, <3>7
  <2>4. QED
    BY <2>2, <2>3
<1>10. LimitsHold'
  BY <1>2, <1>6, <1>8, <1>9 DEF LimitsHold, InDay
<1>11. StillFits'
  BY DEF StillFits
<1>12. QED
  BY <1>7, <1>10, <1>11 DEF Fitting

LEMMA SellFits ==
    ASSUME Fitting, IInv', NEW price \in Nat \ {0}, desk # Idle,
           BookSell(desk.order, KeyOf[desk.order], price),
           desk' = Idle, now' = now
    PROVE  Fitting'
<1> DEFINE o == desk.order
           k == KeyOf[o]
           new == [id |-> OrderId(o), position |-> k, side |-> "sell",
                   gross |-> pos[k].qty * price, cost |-> pos[k].cost,
                   at |-> TradedAt[o], received |-> now]
<1>1. /\ LTypeOK /\ IsFiniteSet(Open) /\ IsFiniteSet(fills) /\ now \in Nat
      /\ o \in Orders /\ k \in Keys /\ TradedAt[o] \in Nat
  BY LedgerAssumption DEF Fitting, FillsKept, IInv, LTypeOK
<1>2. pos \in [Keys -> PosType] /\ pos[k] \in PosType
  BY <1>1, PosTypes
<1>3. pos[k].qty * price \in Nat /\ pos[k].cost \in Nat
  BY <1>2 DEF PosType
<1>4. fills' = fills \union {new} /\ pos' = [pos EXCEPT ![k] = AfterSell(@, price, TradedAt[o])]
  BY DEF BookSell
<1>5. \A j \in Keys : /\ pos'[j].open => pos[j].open
                      /\ pos'[j].cost <= pos[j].cost
                      /\ ~ pos'[j].open => pos'[j].cost = 0
  BY <1>1, <1>2, <1>4 DEF AfterSell, PosType, Fitting, ClosedEmpty
<1>6. FillsKept' /\ ClosedEmpty'
  <2>1. IsFiniteSet(fills') /\ IsFiniteSet(Open')
    <3>1. Open' \subseteq Open
      BY <1>5 DEF Open
    <3>2. QED
      BY <3>1, <1>1, <1>4, FS_Subset, FS_AddElement
  <2>2. QED
    BY <2>1, <1>1, <1>3, <1>4, <1>5 DEF Fitting, FillsKept, ClosedEmpty
<1>7. QED
  BY <1>1, <1>4, <1>5, <1>6, Relief

LEMMA ApplyFits ==
    ASSUME Fitting, NEW price \in Prices \union {NoMark}, ApplyEvent(price) PROVE Fitting'
<1> DEFINE o == desk.order
           k == KeyOf[o]
<1>1. /\ IInv /\ LTypeOK /\ IInv' /\ desk # Idle /\ desk' = Idle /\ now' = now
      /\ now \in Nat /\ o \in Orders /\ k \in Keys /\ IsFiniteSet(Open) /\ IsFiniteSet(fills)
  BY ApplyStep, LedgerAssumption DEF Fitting, IInv, ApplyEvent, LTypeOK, FillsKept
<1>2. pos \in [Keys -> PosType]
  BY <1>1, PosTypes
<1>3. price # NoMark => price \in Nat \ {0}
  BY LedgerAssumption DEF NoMark
<1>4. CASE price # NoMark /\ KindOf[o] = "buy" /\ BookBuy(o, k, price)
           /\ (desk.status = "accepted" \/ desk.status = "sell_requested")
  <2>1. desk.status = "accepted"
    BY <1>1, <1>4 DEF Fitting, StillFits
  <2>2. QED
    BY <2>1, <1>1, <1>3, <1>4, BuyFits
<1>5. CASE price # NoMark /\ BookSell(o, k, price)
  BY <1>1, <1>3, <1>5, SellFits
<1>6. CASE BookNothing(k, price, TradedAt[o])
  <2>1. fills' = fills
    BY <1>6 DEF BookNothing
  <2>2. \A j \in Keys : pos'[j].open = pos[j].open /\ pos'[j].cost = pos[j].cost
    BY <1>1, <1>2, <1>6 DEF BookNothing, Marked, PosType
  <2>3. Open' = Open
    BY <2>2 DEF Open
  <2>4. FillsKept' /\ ClosedEmpty'
    BY <2>1, <2>2, <2>3, <1>1 DEF Fitting, FillsKept, ClosedEmpty
  <2>5. \A j \in Keys : (pos'[j].open => pos[j].open) /\ pos'[j].cost <= pos[j].cost
    BY <2>2, <1>2 DEF PosType
  <2>6. QED
    BY <2>1, <2>4, <2>5, <1>1, Relief
<1>7. QED
  BY <1>4, <1>5, <1>6 DEF ApplyEvent

LEMMA MarksFit == ASSUME Fitting, ApplyMarks PROVE Fitting'
<1>1. /\ IInv' /\ fills' = fills /\ desk' = desk /\ now' = now /\ now \in Nat
  BY MarksStep DEF Fitting, IInv, LTypeOK, ApplyMarks
<1>2. pos \in [Keys -> PosType] /\ IsFiniteSet(Open)
  BY PosTypes DEF Fitting, IInv, FillsKept
<1>3. \A j \in Keys : pos'[j].open = pos[j].open /\ pos'[j].cost = pos[j].cost
  BY <1>2 DEF ApplyMarks, Remark, PosType
<1>4. Open' = Open
  BY <1>3 DEF Open
<1>5. FillsKept' /\ ClosedEmpty'
  BY <1>1, <1>3, <1>4 DEF Fitting, FillsKept, ClosedEmpty
<1>6. \A j \in Keys : (pos'[j].open => pos[j].open) /\ pos'[j].cost <= pos[j].cost
  BY <1>3, <1>2 DEF PosType
<1>7. QED
  BY <1>1, <1>5, <1>6, Relief

\* One exit per position that is due.
LEMMA ExitsFinite ==
    ASSUME IsFiniteSet(Open)
    PROVE  IsFiniteSet({ExitFill(k) : k \in ExitsDue})
<1> DEFINE new == {ExitFill(k) : k \in ExitsDue}
           f == [k \in ExitsDue |-> ExitFill(k)]
<1>1. IsFiniteSet(ExitsDue)
  <2>1. ExitsDue \subseteq Open
    BY DEF ExitsDue
  <2>2. QED
    BY <2>1, FS_Subset
<1>2. f \in Surjection(ExitsDue, new)
  BY DEF Surjection
<1>3. QED
  <2> HIDE DEF f, new
  <2>1. IsFiniteSet(new)
    BY <1>1, <1>2, FS_Surjection
  <2>2. QED
    BY <2>1 DEF new

LEMMA EvaluateFits == ASSUME Fitting, Evaluate PROVE Fitting'
<1> DEFINE new == {ExitFill(k) : k \in ExitsDue}
<1>1. /\ IInv /\ IInv' /\ fills' = fills \union new /\ desk' = desk /\ now' = now /\ now \in Nat
      /\ IsFiniteSet(Open) /\ IsFiniteSet(fills)
  BY EvaluateStep DEF Fitting, IInv, LTypeOK, Evaluate, FillsKept
<1>2. pos \in [Keys -> PosType]
  BY <1>1, PosTypes DEF IInv
<1>3. ASSUME NEW k \in ExitsDue
      PROVE  /\ pos'[k].open => pos[k].open
             /\ pos'[k].cost <= pos[k].cost
             /\ ~ pos'[k].open => pos'[k].cost = 0
             /\ k \in Keys
  <2> DEFINE q == SellQuantity(pos[k], Rule(pos[k]))
             c == HalfUp(pos[k].cost * q, pos[k].qty)
  <2>1. /\ k \in Keys /\ pos[k] \in PosType /\ pos[k].open
        /\ q \in Nat /\ q <= pos[k].qty /\ pos[k].qty > 0
    BY <1>1, DueExit DEF ExitsDue, Open
  <2>2. pos'[k] = AfterExit(pos[k], Rule(pos[k]), q, Larger(now, pos[k].last + 1))
    BY <2>1 DEF Evaluate
  <2>3. c \in Nat /\ pos[k].cost \in Nat
    BY <2>1, CostOfPart DEF PosType
  <2>4. pos'[k].cost = IF q = pos[k].qty THEN 0 ELSE Larger(0, pos[k].cost - c)
    BY <2>2 DEF AfterExit
  <2>5. pos'[k].open = (q # pos[k].qty)
    BY <2>2 DEF AfterExit
  <2>6. pos'[k].cost <= pos[k].cost
    <3> HIDE DEF q, c
    <3>1. QED
      BY <2>3, <2>4 DEF Larger
  <2>7. ~ pos'[k].open => pos'[k].cost = 0
    <3> HIDE DEF q, c
    <3>1. QED
      BY <2>4, <2>5
  <2>8. QED
    BY <2>1, <2>6, <2>7
<1>4. \A k \in Keys : /\ pos'[k].open => pos[k].open
                      /\ pos'[k].cost <= pos[k].cost
                      /\ ~ pos'[k].open => pos'[k].cost = 0
  <2>1. \A k \in Keys \ ExitsDue : pos'[k] = pos[k]
    BY DEF Evaluate
  <2>2. \A k \in Keys : pos[k].cost \in Nat /\ (~ pos[k].open => pos[k].cost = 0)
    BY <1>2 DEF Fitting, ClosedEmpty, PosType
  <2>3. QED
    BY <1>3, <2>1, <2>2
<1>5. ASSUME NEW k \in ExitsDue
      PROVE  LET f == ExitFill(k) IN
             /\ f.side = "sell" /\ f.position \in Keys /\ f.gross \in Nat
             /\ f.cost \in Nat /\ f.at \in Nat /\ f.received \in Nat
  <2> DEFINE q == SellQuantity(pos[k], Rule(pos[k]))
  <2>1. /\ k \in Keys /\ pos[k] \in PosType /\ q \in Nat
        /\ Larger(now, pos[k].last + 1) \in Nat
    BY <1>1, DueExit
  <2>2. q * pos[k].price \in Nat /\ HalfUp(pos[k].cost * q, pos[k].qty) \in Nat
    <3>1. /\ pos[k].price \in Nat /\ pos[k].cost \in Nat /\ pos[k].qty \in Nat
          /\ pos[k].qty > 0 /\ q <= pos[k].qty
      BY <1>1, DueExit DEF PosType
    <3> HIDE DEF q
    <3>2. QED
      BY <3>1, <2>1, CostOfPart
  <2>3. QED
    BY <2>1, <2>2, <1>1 DEF ExitFill
<1>6. FillsKept' /\ ClosedEmpty'
  <2>1. Open' \subseteq Open
    BY <1>4 DEF Open
  <2>2. IsFiniteSet(Open') /\ IsFiniteSet(fills')
    <3>1. IsFiniteSet(Open')
      BY <2>1, <1>1, FS_Subset
    <3>2. IsFiniteSet(new)
      BY <1>1, ExitsFinite
    <3>3. IsFiniteSet(fills \union new)
      <4> HIDE DEF new
      <4>1. QED
        BY <3>2, <1>1, FS_Union
    <3>4. QED
      BY <3>1, <3>3, <1>1
  <2>3. \A f \in fills' :
            /\ f.position \in Keys /\ f.gross \in Nat /\ f.cost \in Nat
            /\ f.at \in Nat /\ f.received \in Nat
    BY <1>1, <1>5 DEF Fitting, FillsKept
  <2>4. QED
    BY <2>2, <2>3, <1>4 DEF FillsKept, ClosedEmpty
<1>7. fills \subseteq fills' /\ \A f \in fills' \ fills : f.side = "sell"
  BY <1>1, <1>5
<1>8. QED
  BY <1>1, <1>4, <1>6, <1>7, Relief

LEMMA OthersFit ==
    ASSUME Fitting,
           Fetch \/ Tick \/ Restart \/ (\E p \in Policies : SavePolicy(p)) \/ UNCHANGED lvars
    PROVE  Fitting'
<1>1. /\ IInv' /\ fills' = fills /\ pos' = pos /\ (desk' = desk \/ desk' = Idle)
      /\ now <= now'
  <2>1. IInv'
    BY FetchStep, OtherSteps DEF Fitting
  <2>2. now \in Nat
    BY DEF Fitting, IInv, LTypeOK
  <2>3. QED
    BY <2>1, <2>2 DEF Fetch, Tick, Restart, SavePolicy, lvars
<1>2. FillsKept' /\ ClosedEmpty'
  BY <1>1 DEF Fitting, FillsKept, ClosedEmpty, Open
<1>3. \A j \in Keys : (pos'[j].open => pos[j].open) /\ pos'[j].cost <= pos[j].cost
  BY <1>1, PosTypes DEF Fitting, IInv, PosType
<1>4. QED
  BY <1>1, <1>2, <1>3, Relief

LEMMA FittingPreserved == Fitting /\ [LNext]_lvars => Fitting'
  BY DecideFits, ApplyFits, MarksFit, EvaluateFits, OthersFit DEF LNext

\* The limits on the cost of a token, on the number of positions and on a day's purchases hold
\* for what is held, although the exits and the clock run between the desk's question
\* (paper_copy_trade) and its booking (apply_event).
THEOREM LimitsAreKept == LSpec => []LimitsHold
<1>1. Fitting => LimitsHold
  BY DEF Fitting
<1>2. QED
  BY <1>1, FittingAtFirst, FittingPreserved, PTL DEF LSpec

-----------------------------------------------------------------------------
(* The tables.                                                             *)

On(F, d) == {f \in F : Day(f.at) = d}
TradedIn(F, side) == Total([f \in F |-> f.gross], {f \in F : f.side = side})
Sold(F) == TradedIn(F, "sell")

\* An exit is dated after the last trade of its position, so a position that gave back its
\* principal in this instant was last traded in the next one, and its last exit a further one on.
Dated ==
    /\ now <= MaxTime
    /\ \A k \in Keys : pos[k].open =>
          \/ pos[k].last <= now
          \/ pos[k].last = now + 1 /\ pos[k].stage = "principal_recovered"
    /\ \A f \in fills : Day(f.at) \in Days

DailyTypes == daily \in [Days -> [buy : Nat, sell : Nat, pnl : Int, trades : Nat]]

DailyTells ==
    \A d \in Days :
        /\ daily[d].buy = Bought(On(fills, d))
        /\ daily[d].sell = Sold(On(fills, d))
        /\ daily[d].trades = Cardinality(On(fills, d))

Told == Fitting /\ Dated /\ DailyTypes /\ DailyTells /\ Balanced

LEMMA DayInDays == ASSUME NEW t \in Nat, t <= MaxTime + 2 PROVE Day(t) \in Days
<1>1. MaxTime + 2 \in Nat
  BY LedgerAssumption
<1>2. Day(t) \in Nat /\ Day(MaxTime + 2) \in Nat /\ Day(t) <= Day(MaxTime + 2)
  BY <1>1, DayGrows
<1>3. QED
  BY <1>2 DEF Days

LEMMA NothingTraded == Bought({}) = 0 /\ Sold({}) = 0
<1>1. {f \in {} : f.side = "buy"} = {} /\ {f \in {} : f.side = "sell"} = {}
  OBVIOUS
<1>2. QED
  BY <1>1, TotalOfNone DEF Bought, Sold, TradedIn

\* What is traded in two sets of fills.
LEMMA TradedTogether ==
    ASSUME NEW F, NEW N, IsFiniteSet(F), IsFiniteSet(N), F \cap N = {},
           \A f \in F \union N : f.gross \in Nat
    PROVE  /\ Bought(F \union N) = Bought(F) + Bought(N)
           /\ Sold(F \union N) = Sold(F) + Sold(N)
           /\ Cardinality(F \union N) = Cardinality(F) + Cardinality(N)
<1> DEFINE side(G, s) == {f \in G : f.side = s}
           v(G) == [f \in G |-> f.gross]
<1>1. ASSUME NEW s
      PROVE  Total(v(F \union N), side(F \union N, s))
                 = Total(v(F), side(F, s)) + Total(v(N), side(N, s))
  <2> DEFINE S == side(F, s)
             T == side(N, s)
             w == v(F \union N)
             x == v(F)
             y == v(N)
  <2>1. IsFiniteSet(S) /\ IsFiniteSet(T) /\ S \cap T = {} /\ side(F \union N, s) = S \union T
    BY FS_Subset
  <2>2. /\ \A f \in S \union T : w[f] \in Nat
        /\ \A f \in S : w[f] = x[f]
        /\ \A f \in T : w[f] = y[f]
    OBVIOUS
  <2>3. Total(w, S \union T) = Total(x, S) + Total(y, T)
    <3> HIDE DEF S, T, w, x, y
    <3>1. Total(w, S \union T) = Total(w, S) + Total(w, T)
      BY <2>1, <2>2, TotalOfUnion
    <3>2. Total(w, S) = Total(x, S) /\ Total(w, T) = Total(y, T)
      BY <2>2, TotalSame
    <3>3. QED
      BY <3>1, <3>2
  <2>4. QED
    BY <2>1, <2>3
<1>2. Cardinality(F \union N) = Cardinality(F) + Cardinality(N)
  <2>1. Cardinality(F \union N) = Cardinality(F) + Cardinality(N) - Cardinality(F \cap N)
    BY FS_Union
  <2>2. Cardinality(F \cap N) = 0 /\ Cardinality(F) \in Nat /\ Cardinality(N) \in Nat
    BY FS_EmptySet, FS_CardinalityType
  <2>3. QED
    BY <2>1, <2>2
<1>3. QED
  BY <1>1, <1>2 DEF Bought, Sold, TradedIn

\* Fills that are entered and counted on their day keep the days' sums.
LEMMA DaysTell ==
    ASSUME IsFiniteSet(fills), \A f \in fills' : f.gross \in Nat, DailyTells,
           NEW N, IsFiniteSet(N), fills \cap N = {}, fills' = fills \union N,
           \A d \in Days :
              /\ daily'[d].buy = daily[d].buy + Bought(On(N, d))
              /\ daily'[d].sell = daily[d].sell + Sold(On(N, d))
              /\ daily'[d].trades = daily[d].trades + Cardinality(On(N, d))
    PROVE  DailyTells'
<1> SUFFICES ASSUME NEW d \in Days
             PROVE  /\ daily'[d].buy = Bought(On(fills', d))
                    /\ daily'[d].sell = Sold(On(fills', d))
                    /\ daily'[d].trades = Cardinality(On(fills', d))
  BY DEF DailyTells
<1>1. /\ On(fills', d) = On(fills, d) \union On(N, d)
      /\ On(fills, d) \cap On(N, d) = {}
      /\ On(fills, d) \subseteq fills /\ On(N, d) \subseteq N
  BY DEF On
<1>2. IsFiniteSet(On(fills, d)) /\ IsFiniteSet(On(N, d))
  BY <1>1, FS_Subset
<1>3. \A f \in On(fills, d) \union On(N, d) : f.gross \in Nat
  BY <1>1
<1>4. /\ Bought(On(fills', d)) = Bought(On(fills, d)) + Bought(On(N, d))
      /\ Sold(On(fills', d)) = Sold(On(fills, d)) + Sold(On(N, d))
      /\ Cardinality(On(fills', d)) = Cardinality(On(fills, d)) + Cardinality(On(N, d))
  BY <1>1, <1>2, <1>3, TradedTogether
<1>5. QED
  BY <1>4 DEF DailyTells

\* One trade, counted on its day.
LEMMA OneTradeTells ==
    ASSUME IsFiniteSet(fills), \A f \in fills' : f.gross \in Nat, DailyTypes, DailyTells,
           NEW e, e \notin fills, fills' = fills \union {e}, Day(e.at) \in Days,
           e.side \in {"buy", "sell"}, NEW pnl \in Int,
           daily' = DailyDelta(Day(e.at), IF e.side = "buy" THEN e.gross ELSE 0,
                               IF e.side = "sell" THEN e.gross ELSE 0, pnl, 1)
    PROVE  DailyTypes' /\ DailyTells'
<1> DEFINE v == [f \in {e} |-> f.gross]
<1>1. e.gross \in Nat
  OBVIOUS
<1>2. DailyTypes'
  BY <1>1 DEF DailyTypes, DailyDelta
<1>3. Total(v, {e}) = e.gross
  <2>1. Total(v, {} \union {e}) = Total(v, {}) + v[e]
    <3>1. v[e] \in Nat
      BY <1>1
    <3> HIDE DEF v
    <3>2. QED
      BY <3>1, FS_EmptySet, TotalAdds
  <2>2. {} \union {e} = {e} /\ v[e] = e.gross
    OBVIOUS
  <2>3. Total(v, {}) = 0
    BY TotalOfNone
  <2>4. QED
    BY <1>1, <2>1, <2>2, <2>3
<1>4. /\ Bought({e}) = IF e.side = "buy" THEN e.gross ELSE 0
      /\ Sold({e}) = IF e.side = "sell" THEN e.gross ELSE 0
      /\ Cardinality({e}) = 1
  <2>1. CASE e.side = "buy"
    <3>1. {f \in {e} : f.side = "buy"} = {e} /\ {f \in {e} : f.side = "sell"} = {}
      BY <2>1
    <3>2. QED
      BY <2>1, <3>1, <1>3, TotalOfNone, FS_Singleton DEF Bought, Sold, TradedIn
  <2>2. CASE e.side = "sell"
    <3>1. {f \in {e} : f.side = "sell"} = {e} /\ {f \in {e} : f.side = "buy"} = {}
      BY <2>2
    <3>2. QED
      BY <2>2, <3>1, <1>3, TotalOfNone, FS_Singleton DEF Bought, Sold, TradedIn
  <2>3. QED
    BY <2>1, <2>2
<1>5. ASSUME NEW d \in Days
      PROVE  /\ daily'[d].buy = daily[d].buy + Bought(On({e}, d))
             /\ daily'[d].sell = daily[d].sell + Sold(On({e}, d))
             /\ daily'[d].trades = daily[d].trades + Cardinality(On({e}, d))
  <2>1. daily[d].buy \in Nat /\ daily[d].sell \in Nat /\ daily[d].trades \in Nat
    BY DEF DailyTypes
  <2>2. CASE d = Day(e.at)
    <3>1. On({e}, d) = {e}
      BY <2>2 DEF On
    <3>2. QED
      BY <2>2, <3>1, <1>4 DEF DailyDelta, DailyTypes
  <2>3. CASE d # Day(e.at)
    <3>1. On({e}, d) = {}
      BY <2>3 DEF On
    <3>2. daily'[d] = daily[d]
      BY <2>3 DEF DailyDelta, DailyTypes
    <3>3. /\ Bought(On({e}, d)) = 0 /\ Sold(On({e}, d)) = 0
          /\ Cardinality(On({e}, d)) = 0
      BY <3>1, NothingTraded, FS_EmptySet
    <3>4. QED
      BY <2>1, <3>2, <3>3
  <2>4. QED
    BY <2>2, <2>3
<1>6. IsFiniteSet({e}) /\ fills \cap {e} = {}
  BY FS_Singleton
<1>7. QED
  BY <1>2, <1>5, <1>6, DaysTell

LEMMA ToldAtFirst == LInit => Told
<1> SUFFICES ASSUME LInit PROVE Told
  OBVIOUS
<1>1. Fitting /\ fills = {} /\ pos = [k \in Keys |-> Closed]
      /\ daily = [d \in Days |-> [buy |-> 0, sell |-> 0, pnl |-> 0, trades |-> 0]]
  BY FittingAtFirst DEF LInit
<1>2. Dated
  BY <1>1, LedgerAssumption DEF Dated, LInit, Closed
<1>3. DailyTypes
  BY <1>1 DEF DailyTypes
<1>4. DailyTells
  <2>1. \A d \in Days : On(fills, d) = {}
    BY <1>1 DEF On
  <2>2. QED
    BY <1>1, <2>1, NothingTraded, FS_EmptySet DEF DailyTells
<1>5. Balanced
  <2>1. \A k \in Keys : Traded(k, "buy") = 0 /\ Traded(k, "sell") = 0
    <3>1. \A k \in Keys : /\ {e \in fills : e.position = k /\ e.side = "buy"} = {}
                          /\ {e \in fills : e.position = k /\ e.side = "sell"} = {}
      BY <1>1
    <3>2. QED
      BY <3>1, TotalOfNone DEF Traded
  <2>2. \A k \in Keys : pos[k].cost = 0 /\ pos[k].realised = 0
    BY <1>1 DEF Closed
  <2>3. QED
    BY <2>1, <2>2 DEF Balanced
<1>6. QED
  BY <1>1, <1>2, <1>3, <1>4, <1>5 DEF Told

\* The balance of a position is kept by every step of the book.
LEMMA BookBalances ==
    ASSUME LTypeOK, LTypeOK', IsFiniteSet(fills), \A f \in fills' : f.gross \in Nat /\ f.cost \in Nat,
           Balanced, Book!BookNext \/ UNCHANGED Book!bvars
    PROVE  Balanced'
<1>1. CASE UNCHANGED Book!bvars
  <2>1. /\ fills' = fills
        /\ [k \in Keys |-> pos'[k].cost] = [k \in Keys |-> pos[k].cost]
        /\ [k \in Keys |-> pos'[k].realised] = [k \in Keys |-> pos[k].realised]
    BY <1>1 DEF Book!bvars
  <2>2. \A k \in Keys : pos'[k].cost = pos[k].cost /\ pos'[k].realised = pos[k].realised
    <3>1. ASSUME NEW k \in Keys
          PROVE pos'[k].cost = pos[k].cost /\ pos'[k].realised = pos[k].realised
      <4>1. /\ [l \in Keys |-> pos'[l].cost][k] = pos'[k].cost
            /\ [l \in Keys |-> pos[l].cost][k] = pos[k].cost
            /\ [l \in Keys |-> pos'[l].realised][k] = pos'[k].realised
            /\ [l \in Keys |-> pos[l].realised][k] = pos[k].realised
        OBVIOUS
      <4>2. QED
        BY <4>1, <2>1
    <3>2. QED
      BY <3>1
  <2>3. QED
    BY <2>1, <2>2 DEF Balanced, Traded
<1>2. CASE Book!BookNext
  <2> DEFINE new == fills' \ fills
             side(F, k, s) == {e \in F : e.position = k /\ e.side = s}
             v == [e \in fills |-> e.gross]
             w == [e \in fills' |-> e.gross]
  <2>1. /\ fills \subseteq fills'
        /\ \A e \in new : /\ e.position \in Keys
                          /\ \/ /\ e.side = "buy"
                                /\ pos'[e.position].cost = pos[e.position].cost + e.gross
                                /\ pos'[e.position].realised = pos[e.position].realised
                             \/ /\ e.side = "sell"
                                /\ pos'[e.position].cost = pos[e.position].cost - e.cost
                                /\ pos'[e.position].realised
                                      = pos[e.position].realised + e.gross - e.cost
                                /\ e.cost <= pos[e.position].cost
        /\ \A e, f \in new : e # f => e.position # f.position
        /\ \A k \in Keys : (\A e \in new : e.position # k) =>
              pos'[k].cost = pos[k].cost /\ pos'[k].realised = pos[k].realised
    BY <1>2 DEF Book!BookNext, Book!Posts
  <2>2. ASSUME NEW k \in Keys
        PROVE  Traded(k, "buy")' - Traded(k, "sell")' = pos'[k].cost - pos'[k].realised
    <3>1. /\ Traded(k, "buy") = Total(v, side(fills, k, "buy"))
          /\ Traded(k, "sell") = Total(v, side(fills, k, "sell"))
          /\ Traded(k, "buy")' = Total(w, side(fills', k, "buy"))
          /\ Traded(k, "sell")' = Total(w, side(fills', k, "sell"))
      BY DEF Traded
    <3>2. Traded(k, "buy") - Traded(k, "sell") = pos[k].cost - pos[k].realised
      BY DEF Balanced
    <3>3. /\ pos[k].cost \in Nat /\ pos[k].realised \in Int
          /\ pos'[k].cost \in Nat /\ pos'[k].realised \in Int
      BY DEF LTypeOK
    <3>4. ASSUME NEW s
          PROVE  /\ Total(w, side(fills, k, s)) = Total(v, side(fills, k, s))
                 /\ Total(v, side(fills, k, s)) \in Nat
                 /\ IsFiniteSet(side(fills, k, s))
                 /\ \A e \in side(fills, k, s) : w[e] \in Nat
      <4> DEFINE S == side(fills, k, s)
      <4>1. IsFiniteSet(S)
        BY FS_Subset
      <4>2. \A e \in S : w[e] = v[e] /\ v[e] \in Nat
        BY <2>1
      <4>3. Total(w, S) = Total(v, S) /\ Total(v, S) \in Nat
        <5> HIDE DEF S, v, w
        <5>1. QED
          BY <4>1, <4>2, TotalSame, UnitsFinite
      <4>4. QED
        BY <4>1, <4>2, <4>3
    <3>5. ASSUME NEW e \in new, e.position = k, NEW s, e.side = s
          PROVE  Total(w, side(fills', k, s)) = Total(v, side(fills, k, s)) + e.gross
      <4> DEFINE S == side(fills, k, s)
      <4>1. side(fills', k, s) = S \union {e} /\ e \notin S
        BY <3>5, <2>1
      <4>2. w[e] = e.gross /\ w[e] \in Nat
        OBVIOUS
      <4>3. /\ Total(w, S) = Total(v, S) /\ IsFiniteSet(S)
            /\ \A f \in S : w[f] \in Nat
        BY <3>4
      <4>4. Total(w, S \union {e}) = Total(w, S) + w[e]
        <5> HIDE DEF S, v, w
        <5>1. QED
          BY <4>1, <4>2, <4>3, TotalAdds
      <4>5. QED
        BY <4>1, <4>2, <4>3, <4>4
    <3>6. ASSUME NEW s, \A e \in new : ~ (e.position = k /\ e.side = s)
          PROVE  Total(w, side(fills', k, s)) = Total(v, side(fills, k, s))
      <4>1. side(fills', k, s) = side(fills, k, s)
        BY <3>6, <2>1
      <4>2. QED
        BY <4>1, <3>4
    <3> DEFINE a == Total(v, side(fills, k, "buy"))
               b == Total(v, side(fills, k, "sell"))
               c == Total(w, side(fills', k, "buy"))
               d == Total(w, side(fills', k, "sell"))
    <3>7. a \in Nat /\ b \in Nat
      BY <3>4
    <3>8. CASE \A e \in new : e.position # k
      <4>1. c = a /\ d = b
        BY <3>8, <3>6
      <4>2. pos'[k].cost = pos[k].cost /\ pos'[k].realised = pos[k].realised
        BY <3>8, <2>1
      <4> HIDE DEF a, b, c, d
      <4>3. QED
        BY <4>1, <4>2, <3>1, <3>2 DEF a, b, c, d
    <3>9. ASSUME NEW e \in new, e.position = k
          PROVE  c - d = pos'[k].cost - pos'[k].realised
      <4>1. \A f \in new \ {e} : f.position # k
        BY <3>9, <2>1
      <4>2. a - b = pos[k].cost - pos[k].realised
        BY <3>1, <3>2
      <4>3. e.gross \in Nat /\ e.cost \in Nat
        OBVIOUS
      <4>4. CASE /\ e.side = "buy"
                 /\ pos'[k].cost = pos[k].cost + e.gross
                 /\ pos'[k].realised = pos[k].realised
        <5>1. c = a + e.gross
          BY <4>4, <3>9, <3>5
        <5>2. d = b
          BY <4>4, <4>1, <3>6
        <5> HIDE DEF a, b, c, d, new
        <5>3. QED
          BY <5>1, <5>2, <4>2, <4>3, <4>4, <3>3, <3>7
      <4>5. CASE /\ e.side = "sell"
                 /\ pos'[k].cost = pos[k].cost - e.cost
                 /\ pos'[k].realised = pos[k].realised + e.gross - e.cost
        <5>1. d = b + e.gross
          BY <4>5, <3>9, <3>5
        <5>2. c = a
          BY <4>5, <4>1, <3>6
        <5>3. pos'[k].cost - pos'[k].realised = pos[k].cost - pos[k].realised - e.gross
          BY <4>5, <4>3, <3>3
        <5> HIDE DEF a, b, c, d, new
        <5>4. QED
          BY <5>1, <5>2, <5>3, <4>2, <4>3, <3>3, <3>7
      <4>6. QED
        BY <4>4, <4>5, <3>9, <2>1
    <3>10. QED
      <4>1. CASE \E e \in new : e.position = k
        <5>1. c - d = pos'[k].cost - pos'[k].realised
          BY <4>1, <3>9
        <5>2. QED
          BY <5>1, <3>1
      <4>2. QED
        BY <4>1, <3>8
  <2>3. QED
    BY <2>2 DEF Balanced
<1>3. QED
  BY <1>1, <1>2

\* What the booking of an order comes to.
LEMMA ApplyCases ==
    ASSUME Fitting, NEW price \in Prices \union {NoMark}, ApplyEvent(price)
    PROVE  LET o == desk.order
               k == KeyOf[o]
           IN  /\ desk # Idle /\ o \in Orders /\ k \in Keys /\ TradedAt[o] \in Nat
               /\ TradedAt[o] <= MaxTime /\ now' = now
               /\ \A f \in fills : f.id # OrderId(o)
               /\ \/ /\ price \in Prices /\ price \in Nat \ {0}
                     /\ TradedAt[o] <= now /\ BookBuy(o, k, price)
                  \/ /\ price \in Prices /\ price \in Nat \ {0}
                     /\ pos[k].open /\ BookSell(o, k, price)
                  \/ BookNothing(k, price, TradedAt[o])
<1> DEFINE o == desk.order
           k == KeyOf[o]
<1>1. /\ desk # Idle /\ now' = now /\ now \in Nat /\ o \in Orders /\ k \in Keys
      /\ TradedAt[o] \in Nat /\ TradedAt[o] <= MaxTime
  BY LedgerAssumption DEF Fitting, IInv, ApplyEvent, LTypeOK
<1>2. \A f \in fills : f.id # OrderId(o)
  BY DEF Fitting, IInv, FillsSeen, DeskUnseen, ApplyEvent
<1>3. price # NoMark => price \in Prices /\ price \in Nat \ {0}
  BY LedgerAssumption DEF NoMark
<1>4. CASE price # NoMark /\ KindOf[o] = "buy" /\ BookBuy(o, k, price)
           /\ (desk.status = "accepted" \/ desk.status = "sell_requested")
  <2>1. desk.status = "accepted"
    BY <1>1, <1>4 DEF Fitting, StillFits
  <2>2. TradedAt[o] <= now
    BY <1>1, <2>1 DEF Fitting, StillFits
  <2>3. QED
    BY <2>2, <1>1, <1>2, <1>3, <1>4
<1>5. CASE price # NoMark /\ KindOf[o] = "sell" /\ BookSell(o, k, price)
           /\ (desk.status = "accepted" \/ pos[k].open)
  <2>1. CASE desk.status = "accepted"
    <3>1. KindOf[o] = "buy"
      BY <1>1, <2>1 DEF Fitting, StillFits
    <3>2. QED
      BY <3>1, <1>5
  <2>2. CASE pos[k].open
    BY <2>2, <1>1, <1>2, <1>3, <1>5
  <2>3. QED
    BY <2>1, <2>2, <1>5
<1>6. CASE BookNothing(k, price, TradedAt[o])
  BY <1>1, <1>2, <1>6
<1>7. QED
  BY <1>4, <1>5, <1>6 DEF ApplyEvent

LEMMA ApplyTells ==
    ASSUME Told, NEW price \in Prices \union {NoMark}, ApplyEvent(price) PROVE Told'
<1> DEFINE o == desk.order
           k == KeyOf[o]
<1>1. /\ Fitting /\ Fitting' /\ LTypeOK /\ LTypeOK' /\ now \in Nat
      /\ IsFiniteSet(fills) /\ \A f \in fills' : f.gross \in Nat /\ f.cost \in Nat
  BY ApplyFits DEF Told, Fitting, IInv, LTypeOK, FillsKept
<1>2. /\ desk # Idle /\ o \in Orders /\ k \in Keys /\ TradedAt[o] \in Nat
      /\ TradedAt[o] <= MaxTime /\ now' = now
      /\ \A f \in fills : f.id # OrderId(o)
      /\ \/ /\ price \in Prices /\ price \in Nat \ {0}
            /\ TradedAt[o] <= now /\ BookBuy(o, k, price)
         \/ /\ price \in Prices /\ price \in Nat \ {0}
            /\ pos[k].open /\ BookSell(o, k, price)
         \/ BookNothing(k, price, TradedAt[o])
  BY <1>1, ApplyCases
<1>3. pos \in [Keys -> PosType]
  BY <1>1, PosTypes
<1>4. Day(TradedAt[o]) \in Days
  <2>1. TradedAt[o] <= MaxTime + 2 /\ MaxTime \in Nat
    BY <1>2, LedgerAssumption
  <2>2. QED
    BY <2>1, <1>2, DayInDays
<1>5. Balanced'
  BY <1>1, ApplyPosts, BookBalances DEF Told, Fitting
<1>6. CASE BookBuy(o, k, price) /\ TradedAt[o] <= now
  <2> DEFINE e == [id |-> OrderId(o), position |-> k, side |-> "buy", gross |-> Stake,
                   cost |-> Stake, at |-> TradedAt[o], received |-> now]
  <2>1. /\ fills' = fills \union {e} /\ e \notin fills /\ e.side = "buy"
        /\ e.at = TradedAt[o] /\ e.gross = Stake
    BY <1>2, <1>6 DEF BookBuy
  <2>2. daily' = DailyDelta(Day(TradedAt[o]), Stake, 0, 0, 1)
    BY <1>6 DEF BookBuy
  <2>3. DailyTypes' /\ DailyTells'
    <3> HIDE DEF e
    <3>1. daily' = DailyDelta(Day(e.at), IF e.side = "buy" THEN e.gross ELSE 0,
                              IF e.side = "sell" THEN e.gross ELSE 0, 0, 1)
      BY <2>1, <2>2
    <3>2. QED
      BY <3>1, <2>1, <1>1, <1>4, OneTradeTells DEF Told
  <2>4. Dated'
    <3>1. pos' = [pos EXCEPT ![k] = AfterBuy(@, price, TradedAt[o])]
      BY <1>6 DEF BookBuy
    <3>2. pos'[k].last = TradedAt[o]
      BY <3>1, <1>2, <1>3 DEF AfterBuy
    <3>3. \A j \in Keys \ {k} : pos'[j] = pos[j]
      BY <3>1, <1>3
    <3>4. \A f \in fills' : Day(f.at) \in Days
      BY <2>1, <1>4 DEF Told, Dated
    <3>5. QED
      BY <3>2, <3>3, <3>4, <1>2, <1>6 DEF Told, Dated
  <2>5. QED
    BY <1>1, <1>5, <2>3, <2>4 DEF Told
<1>7. CASE BookSell(o, k, price) /\ price \in Nat \ {0}
  <2> DEFINE g == pos[k].qty * price
             e == [id |-> OrderId(o), position |-> k, side |-> "sell", gross |-> g,
                   cost |-> pos[k].cost, at |-> TradedAt[o], received |-> now]
  <2>1. /\ fills' = fills \union {e} /\ e \notin fills /\ e.side = "sell"
        /\ e.at = TradedAt[o] /\ e.gross = g
    BY <1>2, <1>7 DEF BookSell
  <2>2. daily' = DailyDelta(Day(TradedAt[o]), 0, g, g - pos[k].cost, 1)
    BY <1>7 DEF BookSell
  <2>3. g - pos[k].cost \in Int
    BY <1>2, <1>3, <1>7 DEF PosType
  <2>4. DailyTypes' /\ DailyTells'
    <3> HIDE DEF e, g
    <3>1. daily' = DailyDelta(Day(e.at), IF e.side = "buy" THEN e.gross ELSE 0,
                              IF e.side = "sell" THEN e.gross ELSE 0, g - pos[k].cost, 1)
      BY <2>1, <2>2
    <3>2. QED
      BY <3>1, <2>1, <2>3, <1>1, <1>4, OneTradeTells DEF Told
  <2>5. Dated'
    <3>1. pos' = [pos EXCEPT ![k] = AfterSell(@, price, TradedAt[o])]
      BY <1>7 DEF BookSell
    <3>2. ~ pos'[k].open
      BY <3>1, <1>2, <1>3 DEF AfterSell
    <3>3. \A j \in Keys \ {k} : pos'[j] = pos[j]
      BY <3>1, <1>3
    <3>4. \A f \in fills' : Day(f.at) \in Days
      BY <2>1, <1>4 DEF Told, Dated
    <3>5. QED
      BY <3>2, <3>3, <3>4, <1>2 DEF Told, Dated
  <2>6. QED
    BY <1>1, <1>5, <2>4, <2>5 DEF Told
<1>8. CASE BookNothing(k, price, TradedAt[o])
  <2>1. fills' = fills /\ daily' = daily
    BY <1>8 DEF BookNothing
  <2>2. \A j \in Keys : /\ pos'[j].open = pos[j].open /\ pos'[j].last = pos[j].last
                        /\ pos'[j].stage = pos[j].stage
    BY <1>2, <1>3, <1>8 DEF BookNothing, Marked, PosType
  <2>3. QED
    BY <2>1, <2>2, <1>1, <1>2, <1>5 DEF Told, Dated, DailyTypes, DailyTells
<1>9. QED
  BY <1>2, <1>6, <1>7, <1>8

LEMMA EvaluateTells == ASSUME Told, Evaluate PROVE Told'
<1> DEFINE new == {ExitFill(k) : k \in ExitsDue}
<1>1. /\ Fitting /\ Fitting' /\ IInv /\ LTypeOK /\ LTypeOK' /\ now \in Nat
      /\ IsFiniteSet(fills) /\ IsFiniteSet(Open)
      /\ \A f \in fills' : f.gross \in Nat /\ f.cost \in Nat
  BY EvaluateFits DEF Told, Fitting, IInv, LTypeOK, FillsKept
<1>2. /\ fills' = fills \union new /\ now' = now /\ IsFiniteSet(new)
      /\ \A f \in fills : \A e \in new : f.id # e.id
  <2>1. \A e \in new : e.id \notin seen
    BY <1>1, DueExit DEF ExitFill
  <2>2. QED
    BY <2>1, <1>1, ExitsFinite DEF Evaluate, IInv, FillsSeen
<1>3. ASSUME NEW k \in ExitsDue
      PROVE  /\ pos'[k].open =>
                   \/ pos'[k].last = now + 1 /\ pos'[k].stage = "principal_recovered"
                   \/ pos'[k].last <= now
             /\ ExitFill(k).at \in Nat /\ ExitFill(k).at <= now + 2
             /\ ExitFill(k).side = "sell"
  <2> DEFINE p == pos[k]
             q == SellQuantity(p, Rule(p))
             at == Larger(now, p.last + 1)
  <2>1. k \in Keys /\ p \in PosType /\ p.open
    BY <1>1, DueExit DEF ExitsDue, Open
  <2>2. p.last \in Nat /\ (p.last <= now \/ (p.last = now + 1 /\ p.stage = "principal_recovered"))
    BY <2>1 DEF PosType, Told, Dated
  <2>3. /\ at \in Nat /\ at <= now + 2
        /\ p.last <= now => at <= now + 1
    BY <2>2, <1>1 DEF Larger
  <2>4. pos'[k] = AfterExit(p, Rule(p), q, at)
    BY <2>1 DEF Evaluate
  <2>5. /\ pos'[k].open = (q # p.qty) /\ pos'[k].last = at
        /\ q # p.qty => pos'[k].stage = IF Rule(p) = "principal_recovery"
                                          THEN "principal_recovered" ELSE p.stage
    BY <2>4 DEF AfterExit
  <2>6. q # p.qty => Rule(p) = "principal_recovery"
    BY DEF SellQuantity
  <2>7. Rule(p) = "principal_recovery" => p.stage # "principal_recovered"
    BY DEF Rule
  <2>8. pos'[k].open => p.last <= now /\ pos'[k].stage = "principal_recovered"
    <3> HIDE DEF p, q, at
    <3>1. QED
      BY <2>2, <2>5, <2>6, <2>7
  <2>9. ExitFill(k).at = at /\ ExitFill(k).side = "sell"
    BY DEF ExitFill
  <2>10. QED
    <3> HIDE DEF p, q, at
    <3>1. QED
      BY <2>2, <2>3, <2>5, <2>8, <2>9, <1>1
<1>4. Dated'
  <2>1. \A k \in Keys \ ExitsDue : pos'[k] = pos[k]
    BY DEF Evaluate
  <2>2. ASSUME NEW e \in new PROVE Day(e.at) \in Days
    <3>1. e.at \in Nat /\ e.at <= MaxTime + 2
      BY <1>1, <1>3, LedgerAssumption DEF Told, Dated
    <3>2. QED
      BY <3>1, DayInDays
  <2> HIDE DEF new
  <2>3. QED
    BY <2>1, <2>2, <1>2, <1>3 DEF Told, Dated
<1>5. ASSUME NEW d \in Days
      PROVE  LET exits == {f \in new : Day(f.at) = d}
                 v == [f \in exits |-> f.gross]
                 w == [f \in exits |-> f.gross - f.cost]
             IN  /\ daily'[d] = [daily[d] EXCEPT !.sell = @ + Total(v, exits),
                                                 !.pnl = @ + Net(w, exits),
                                                 !.trades = @ + Cardinality(exits)]
                 /\ Total(v, exits) \in Nat /\ Net(w, exits) \in Int /\ Cardinality(exits) \in Nat
                 /\ Bought(exits) = 0 /\ Sold(exits) = Total(v, exits)
  <2> DEFINE exits == {f \in new : Day(f.at) = d}
             v == [f \in exits |-> f.gross]
             w == [f \in exits |-> f.gross - f.cost]
  <2>1. IsFiniteSet(exits)
    <3>1. exits \subseteq new
      OBVIOUS
    <3> HIDE DEF exits, new
    <3>2. QED
      BY <3>1, <1>2, FS_Subset
  <2>2. \A f \in exits : f.side = "sell" /\ f.gross \in Nat /\ f.cost \in Nat
    BY <1>1, <1>2, <1>3
  <2>3. Total(v, exits) \in Nat /\ Cardinality(exits) \in Nat
    <3>1. \A f \in exits : v[f] \in Nat
      BY <2>2
    <3> HIDE DEF exits, v
    <3>2. QED
      BY <3>1, <2>1, UnitsFinite, FS_CardinalityType
  <2>4. Net(w, exits) \in Int
    <3> DEFINE gains == Gains(w, exits)
               losses == Losses(w, exits)
    <3>1. \A f \in exits : gains[f] \in Nat /\ losses[f] \in Nat
      BY <2>2 DEF Gains, Losses
    <3>2. Total(gains, exits) \in Nat /\ Total(losses, exits) \in Nat
      <4> HIDE DEF gains, losses, exits
      <4>1. QED
        BY <3>1, <2>1, UnitsFinite
    <3>3. QED
      BY <3>2 DEF Net
  <2>5. Bought(exits) = 0 /\ Sold(exits) = Total(v, exits)
    <3>1. {f \in exits : f.side = "buy"} = {} /\ {f \in exits : f.side = "sell"} = exits
      BY <2>2
    <3>2. QED
      BY <3>1, TotalOfNone DEF Bought, Sold, TradedIn
  <2>6. daily'[d] = [daily[d] EXCEPT !.sell = @ + Total(v, exits),
                                     !.pnl = @ + Net(w, exits),
                                     !.trades = @ + Cardinality(exits)]
    BY DEF Evaluate
  <2>7. QED
    BY <2>3, <2>4, <2>5, <2>6
<1>6. DailyTypes'
  <2>1. ASSUME NEW d \in Days
        PROVE  daily'[d] \in [buy : Nat, sell : Nat, pnl : Int, trades : Nat]
    <3>1. daily[d] \in [buy : Nat, sell : Nat, pnl : Int, trades : Nat]
      BY DEF Told, DailyTypes
    <3> DEFINE exits == {f \in new : Day(f.at) = d}
               a == Total([f \in exits |-> f.gross], exits)
               b == Net([f \in exits |-> f.gross - f.cost], exits)
               c == Cardinality(exits)
    <3>2. /\ daily'[d] = [daily[d] EXCEPT !.sell = @ + a, !.pnl = @ + b, !.trades = @ + c]
          /\ a \in Nat /\ b \in Int /\ c \in Nat
      BY <1>5
    <3> HIDE DEF a, b, c
    <3>3. daily[d].sell + a \in Nat /\ daily[d].pnl + b \in Int /\ daily[d].trades + c \in Nat
      BY <3>1, <3>2
    <3>4. daily'[d] = [buy |-> daily[d].buy, sell |-> daily[d].sell + a,
                       pnl |-> daily[d].pnl + b, trades |-> daily[d].trades + c]
      BY <3>1, <3>2
    <3>5. QED
      BY <3>1, <3>3, <3>4
  <2>2. DOMAIN daily' = Days /\ daily' = [d \in Days |-> daily'[d]]
    BY DEF Evaluate
  <2>3. QED
    BY <2>1, <2>2 DEF DailyTypes
<1>7. DailyTells'
  <2>1. ASSUME NEW d \in Days
        PROVE  /\ daily'[d].buy = daily[d].buy + Bought(On(new, d))
               /\ daily'[d].sell = daily[d].sell + Sold(On(new, d))
               /\ daily'[d].trades = daily[d].trades + Cardinality(On(new, d))
    <3>1. daily[d] \in [buy : Nat, sell : Nat, pnl : Int, trades : Nat]
      BY DEF Told, DailyTypes
    <3> DEFINE exits == {f \in new : Day(f.at) = d}
    <3>2. PICK a \in Nat, b \in Int, c \in Nat :
             /\ daily'[d] = [daily[d] EXCEPT !.sell = @ + a, !.pnl = @ + b, !.trades = @ + c]
             /\ Bought(exits) = 0 /\ Sold(exits) = a /\ Cardinality(exits) = c
      BY <1>5
    <3>3. On(new, d) = exits
      BY DEF On
    <3> HIDE DEF exits, new
    <3>4. QED
      BY <3>1, <3>2, <3>3
  <2>2. fills \cap new = {}
    BY <1>2
  <2> HIDE DEF new
  <2>3. QED
    BY <2>1, <2>2, <1>1, <1>2, DaysTell DEF Told
<1>8. Balanced'
  BY <1>1, EvaluatePosts, BookBalances DEF Told
<1>9. QED
  BY <1>1, <1>4, <1>6, <1>7, <1>8 DEF Told

LEMMA OthersTell ==
    ASSUME Told, ApplyMarks \/ Fetch \/ Tick \/ Restart \/ (\E o \in Orders : Decide(o))
                     \/ (\E p \in Policies : SavePolicy(p)) \/ UNCHANGED lvars
    PROVE  Told'
<1>1. Fitting' /\ Fitting /\ LTypeOK /\ LTypeOK' /\ now \in Nat
  BY DecideFits, MarksFit, OthersFit DEF Told, Fitting, IInv, LTypeOK
<1>2. /\ fills' = fills /\ daily' = daily
      /\ now <= now' /\ (now' <= MaxTime \/ now' = now)
      /\ Tick => now' = now + 2 /\ pos' = pos
  BY <1>1 DEF ApplyMarks, Fetch, Tick, Restart, Decide, SavePolicy, lvars
<1>3. \A k \in Keys : /\ pos'[k].open = pos[k].open /\ pos'[k].last = pos[k].last
                      /\ pos'[k].stage = pos[k].stage /\ pos'[k].cost = pos[k].cost
                      /\ pos'[k].realised = pos[k].realised /\ pos[k].last \in Nat
  <2>1. pos \in [Keys -> PosType]
    BY <1>1, PosTypes
  <2>2. CASE ApplyMarks
    BY <2>1, <2>2 DEF ApplyMarks, Remark, PosType
  <2>3. CASE ~ ApplyMarks
    <3>1. pos' = pos
      BY <2>3 DEF Fetch, Tick, Restart, Decide, SavePolicy, lvars
    <3>2. QED
      BY <3>1, <2>1 DEF PosType
  <2>4. QED
    BY <2>2, <2>3
<1>4. now' = now \/ now' = now + 2
  BY DEF ApplyMarks, Fetch, Tick, Restart, Decide, SavePolicy, lvars
<1>5. Dated'
  BY <1>1, <1>2, <1>3, <1>4, LedgerAssumption DEF Told, Dated
<1>6. DailyTypes' /\ DailyTells' /\ Balanced'
  BY <1>2, <1>3 DEF Told, DailyTypes, DailyTells, Balanced, Traded
<1>7. QED
  BY <1>1, <1>5, <1>6 DEF Told

LEMMA ToldPreserved == Told /\ [LNext]_lvars => Told'
  BY ApplyTells, EvaluateTells, OthersTell DEF LNext

-----------------------------------------------------------------------------
(* The principal.                                                          *)

\* Every price buys whole units with the stake, so that nothing is lost to rounding.
WholeUnits == \A p \in Prices : Stake % p = 0

Stakes(a) == \E n \in Nat : a = n * Stake

\* What is recovered of a position is the stakes of some of its buys: none, or all there were
\* when it was recovered last.
Recovers(p) ==
    /\ Stake % p.price = 0
    /\ p.open => p.qty > 0
    /\ ~ p.open => p.qty = 0
    /\ p.open => /\ Stakes(p.initial) /\ Stakes(p.recovered) /\ p.recovered <= p.initial
                 /\ p.stage = "principal_recovered" => p.recovered = p.initial

Principal == \A k \in Keys : Recovers(pos[k])

LEMMA WholeDivision ==
    ASSUME NEW p \in Nat \ {0}, Stake % p = 0, NEW a \in Nat, Stakes(a)
    PROVE  (a \div p) * p = a /\ Stake \div p \in Nat \ {0}
<1> DEFINE m == Stake \div p
<1>1. Stake \in Nat /\ Stake > 0
  BY LedgerAssumption
<1>2. m \in Nat /\ Stake = p * m
  BY <1>1, SMT
<1>3. m # 0
  <2> HIDE DEF m
  <2>1. SUFFICES ASSUME m = 0 PROVE FALSE
    OBVIOUS
  <2>2. p * 0 = 0
    OBVIOUS
  <2>3. QED
    BY <1>1, <1>2, <2>1, <2>2
<1>4. PICK n \in Nat : a = n * Stake
  BY DEF Stakes
<1>5. a = p * (n * m) /\ n * m \in Nat
  <2> HIDE DEF m
  <2>1. QED
    BY <1>2, <1>4, SMT
<1>6. (a \div p) * p = a
  <2> DEFINE x == n * m
             y == a \div p
  <2>1. x \in Nat /\ a = p * x
    BY <1>5
  <2>2. y \in Nat /\ p * y <= a /\ a < p * y + p
    BY SMT
  <2> HIDE DEF x, y
  <2>3. y = x
    <3>1. CASE y + 1 <= x
      <4>1. p * (y + 1) <= p * x /\ p * (y + 1) = p * y + p
        BY <3>1, <2>1, <2>2, TimesMonotone, SMT
      <4>2. QED
        BY <4>1, <2>1, <2>2
    <3>2. CASE x + 1 <= y
      <4>1. p * (x + 1) <= p * y /\ p * (x + 1) = p * x + p
        BY <3>2, <2>1, <2>2, TimesMonotone, SMT
      <4>2. QED
        BY <4>1, <2>1, <2>2
    <3>3. QED
      BY <3>1, <3>2, <2>1, <2>2
  <2>4. y * p = a
    BY <2>1, <2>3, SMT
  <2>5. QED
    BY <2>4 DEF y
<1>7. QED
  BY <1>2, <1>3, <1>6

LEMMA StakesApart ==
    ASSUME NEW a \in Nat, NEW b \in Nat, Stakes(a), Stakes(b), b <= a
    PROVE  Stakes(a - b)
<1>1. Stake \in Nat /\ Stake > 0
  BY LedgerAssumption
<1>2. PICK n \in Nat : a = n * Stake
  BY DEF Stakes
<1>3. PICK m \in Nat : b = m * Stake
  BY DEF Stakes
<1>4. m <= n
  <2>1. SUFFICES ASSUME n + 1 <= m PROVE FALSE
    BY <1>2, <1>3
  <2>2. Stake * (n + 1) <= Stake * m
    BY <1>1, <2>1, TimesMonotone
  <2>3. Stake * (n + 1) = a + Stake /\ Stake * m = b
    BY <1>1, <1>2, <1>3, SMT
  <2>4. QED
    BY <1>1, <2>2, <2>3
<1>5. n - m \in Nat /\ a - b = (n - m) * Stake
  BY <1>1, <1>2, <1>3, <1>4, SMT
<1>6. QED
  BY <1>5 DEF Stakes

LEMMA BuyRecovers ==
    ASSUME NEW p \in PosType, Recovers(p), NEW price \in Nat \ {0}, Stake % price = 0,
           NEW at \in Nat
    PROVE  Recovers(AfterBuy(p, price, at))
<1> DEFINE q == AfterBuy(p, price, at)
<1>1. Stake \in Nat /\ Stake > 0
  BY LedgerAssumption
<1>2. Stakes(Stake) /\ Stakes(0)
  <2>1. Stake = 1 * Stake /\ 0 = 0 * Stake
    BY <1>1
  <2>2. QED
    BY <2>1 DEF Stakes
<1>3. Stake \div price \in Nat \ {0}
  BY <1>1, <1>2, WholeDivision
<1>4. p.qty \in Nat /\ p.initial \in Nat /\ p.recovered \in Nat
  BY DEF PosType
<1>5. q.price = price /\ q.open /\ q.qty = p.qty + (Stake \div price)
  BY DEF AfterBuy
<1>6. q.qty > 0
  BY <1>3, <1>4, <1>5
<1>7. CASE p.qty = 0
  <2>1. q.initial = 0 + Stake /\ q.recovered = 0 /\ q.stage = "armed"
    BY <1>7 DEF AfterBuy
  <2>2. QED
    BY <2>1, <1>1, <1>2, <1>5, <1>6 DEF Recovers
<1>8. CASE p.qty # 0
  <2>1. Stakes(p.initial) /\ Stakes(p.recovered) /\ p.recovered <= p.initial
    BY <1>8 DEF Recovers
  <2>2. p.recovered < p.initial + Stake
    BY <2>1, <1>1, <1>4
  <2>3. q.initial = p.initial + Stake /\ q.recovered = p.recovered /\ q.stage = "armed"
    BY <1>8, <2>2 DEF AfterBuy
  <2>4. Stakes(p.initial + Stake)
    <3>1. PICK n \in Nat : p.initial = n * Stake
      BY <2>1 DEF Stakes
    <3>2. p.initial + Stake = (n + 1) * Stake
      BY <3>1, <1>1, SMT
    <3>3. QED
      BY <3>2 DEF Stakes
  <2>5. QED
    BY <2>1, <2>2, <2>3, <2>4, <1>1, <1>4, <1>5, <1>6 DEF Recovers
<1>9. QED
  BY <1>7, <1>8

LEMMA ExitRecovers ==
    ASSUME IInv, Principal, NEW k \in ExitsDue
    PROVE  Recovers(AfterExit(pos[k], Rule(pos[k]), SellQuantity(pos[k], Rule(pos[k])),
                              Larger(now, pos[k].last + 1)))
<1> DEFINE p == pos[k]
           q == SellQuantity(p, Rule(p))
           r == AfterExit(p, Rule(p), q, Larger(now, p.last + 1))
<1>1. /\ p \in PosType /\ p.open /\ p.qty > 0 /\ q \in Nat /\ q <= p.qty /\ Recovers(p)
  BY DueExit DEF ExitsDue, Open, Principal
<1>2. /\ p.qty \in Nat /\ p.initial \in Nat /\ p.recovered \in Nat /\ p.price \in Nat \ {0}
  BY <1>1 DEF PosType
<1>3. r.price = p.price /\ r.qty = p.qty - q /\ (r.open <=> q # p.qty) /\ r.initial = p.initial
  BY DEF AfterExit
<1>4. CASE q = p.qty
  <2>1. r.qty = 0 /\ ~ r.open
    <3>1. ~ r.open
      BY <1>3, <1>4
    <3> HIDE DEF q, r
    <3>2. r.qty = 0
      BY <1>2, <1>3, <1>4
    <3>3. QED
      BY <3>1, <3>2
  <2>2. QED
    BY <2>1, <1>1, <1>3 DEF Recovers
<1>5. CASE q # p.qty
  <2>1. Rule(p) = "principal_recovery"
    BY <1>5 DEF SellQuantity
  <2> DEFINE due == p.initial - p.recovered
  <2>2. Stakes(due) /\ due \in Nat
    <3>1. p.recovered <= p.initial /\ Stakes(p.initial) /\ Stakes(p.recovered)
      BY <1>1 DEF Recovers
    <3>2. QED
      BY <3>1, <1>2, StakesApart
  <2>3. q = due \div p.price
    <3>1. Larger(0, due) = due
      <4> HIDE DEF due
      <4>1. QED
        BY <2>2 DEF Larger
    <3>2. q = Smaller(p.qty, due \div p.price)
      BY <2>1, <3>1 DEF SellQuantity
    <3>3. QED
      BY <3>2, <1>5 DEF Smaller
  <2>4. q * p.price = due
    <3> HIDE DEF due, q
    <3>1. Stake % p.price = 0
      BY <1>1 DEF Recovers
    <3>2. QED
      BY <3>1, <2>2, <2>3, <1>2, WholeDivision
  <2>5. r.recovered = p.recovered + q * p.price
    BY <2>1 DEF AfterExit
  <2>6. r.recovered = p.initial
    <3> HIDE DEF q, r
    <3>1. QED
      BY <2>4, <2>5, <1>2
  <2>7. r.qty > 0
    <3> HIDE DEF q, r
    <3>1. QED
      BY <1>1, <1>2, <1>3, <1>5
  <2>8. Stakes(p.initial) /\ Stake % p.price = 0
    BY <1>1 DEF Recovers
  <2>9. r.open
    BY <1>3, <1>5
  <2>10. r.price = p.price /\ r.initial = p.initial /\ p.initial \in Nat
    BY <1>2, <1>3
  <2>11. Recovers(r)
    <3> HIDE DEF r, q, p
    <3>1. QED
      BY <2>6, <2>7, <2>8, <2>9, <2>10 DEF Recovers
  <2>12. QED
    BY <2>11
<1>6. QED
  BY <1>4, <1>5

LEMMA PrincipalAtFirst == ASSUME LInit PROVE Principal
<1>1. Stake % 1 = 0
  BY LedgerAssumption, SMT
<1>2. QED
  BY <1>1 DEF LInit, Principal, Recovers, Closed

LEMMA PrincipalStep ==
    ASSUME WholeUnits, Fitting, Principal, [LNext]_lvars PROVE Principal'
<1>1. pos \in [Keys -> PosType] /\ IInv
  BY PosTypes DEF Fitting, IInv
<1>2. ASSUME NEW price \in Prices \union {NoMark}, ApplyEvent(price) PROVE Principal'
  <2> DEFINE o == desk.order
             k == KeyOf[o]
  <2>1. /\ k \in Keys /\ TradedAt[o] \in Nat
        /\ \/ price \in Prices /\ price \in Nat \ {0} /\ BookBuy(o, k, price)
           \/ price \in Prices /\ price \in Nat \ {0} /\ BookSell(o, k, price)
           \/ BookNothing(k, price, TradedAt[o])
    BY <1>2, ApplyCases
  <2>2. CASE price \in Prices /\ price \in Nat \ {0} /\ BookBuy(o, k, price)
    <3>1. Recovers(AfterBuy(pos[k], price, TradedAt[o]))
      BY <2>1, <2>2, <1>1, BuyRecovers DEF WholeUnits, Principal
    <3>2. pos' = [pos EXCEPT ![k] = AfterBuy(pos[k], price, TradedAt[o])]
      BY <2>2 DEF BookBuy
    <3>3. QED
      BY <3>1, <3>2, <2>1, <1>1 DEF Principal
  <2>3. CASE price \in Prices /\ price \in Nat \ {0} /\ BookSell(o, k, price)
    <3>1. Recovers(AfterSell(pos[k], price, TradedAt[o]))
      BY <2>3 DEF WholeUnits, Recovers, AfterSell
    <3>2. pos' = [pos EXCEPT ![k] = AfterSell(pos[k], price, TradedAt[o])]
      BY <2>3 DEF BookSell
    <3>3. QED
      BY <3>1, <3>2, <2>1, <1>1 DEF Principal
  <2>4. CASE BookNothing(k, price, TradedAt[o])
    <3>1. CASE price = NoMark
      BY <3>1, <2>4 DEF BookNothing, Principal
    <3>2. CASE price # NoMark
      <4>1. Stake % price = 0
        BY <3>2 DEF WholeUnits
      <4>2. Recovers(Marked(pos[k], price, TradedAt[o]))
        BY <4>1, <2>1, <1>1 DEF Marked, Recovers, Principal, PosType
      <4>3. QED
        BY <4>2, <3>2, <2>1, <2>4, <1>1 DEF BookNothing, Principal
    <3>3. QED
      BY <3>1, <3>2
  <2>5. QED
    BY <2>1, <2>2, <2>3, <2>4
<1>3. CASE ApplyMarks
  <2>1. ASSUME NEW k \in Keys PROVE Recovers(Remark(pos[k], monitor.marks[TokenOf[k]]))
    <3>1. monitor.marks[TokenOf[k]] \in Prices \union {NoMark}
      BY <1>1, LedgerAssumption DEF IInv, LTypeOK
    <3>2. QED
      BY <3>1, <1>1 DEF WholeUnits, Remark, Recovers, Principal, PosType
  <2>2. QED
    BY <2>1, <1>3 DEF ApplyMarks, Principal
<1>4. CASE Evaluate
  BY <1>1, <1>4, ExitRecovers DEF Evaluate, Principal
<1>5. CASE Fetch \/ Tick \/ Restart \/ (\E o \in Orders : Decide(o))
           \/ (\E p \in Policies : SavePolicy(p)) \/ UNCHANGED lvars
  BY <1>5 DEF Fetch, Tick, Restart, Decide, SavePolicy, lvars, Principal
<1>6. QED
  BY <1>2, <1>3, <1>4, <1>5 DEF LNext

-----------------------------------------------------------------------------
(* The cash.                                                               *)

\* What the days have, and what the positions have, of one side.
LEMMA SidesAgree ==
    ASSUME Told, NEW side, NEW day, NEW key,
           \A d \in Days : day[d] = TradedIn(On(fills, d), side),
           \A k \in Keys : key[k] = Traded(k, side)
    PROVE  Total(day, Days) = Total(key, Keys)
<1> DEFINE S == {f \in fills : f.side = side}
           v == [f \in fills |-> f.gross]
           d == [f \in fills |-> Day(f.at)]
           p == [f \in fills |-> f.position]
           ofDay == [x \in Days |-> {f \in S : d[f] = x}]
           ofKey == [k \in Keys |-> {f \in S : p[f] = k}]
<1>1. IsFiniteSet(S)
  BY FS_Subset DEF Told, Fitting, FillsKept
<1>2. /\ \A f \in S : v[f] \in Nat
      /\ \A f \in S : d[f] \in Days
      /\ \A f \in S : p[f] \in Keys
  BY DEF Told, Fitting, FillsKept, Dated
<1>3. ASSUME NEW x \in Days
      PROVE  /\ day[x] = Total(v, ofDay[x])
             /\ \A f : f \in ofDay[x] <=> f \in S /\ d[f] = x
  <2> DEFINE T == {f \in On(fills, x) : f.side = side}
             w == [f \in On(fills, x) |-> f.gross]
  <2>2. ofDay[x] = T /\ \A f \in T : w[f] = v[f]
    BY DEF On
  <2>3. Total(w, T) = Total(v, T)
    <3> HIDE DEF T, v, w
    <3>1. QED
      BY <2>2, TotalSame
  <2>4. day[x] = Total(w, T)
    BY DEF TradedIn
  <2>5. \A f : f \in ofDay[x] <=> f \in S /\ d[f] = x
    OBVIOUS
  <2>6. QED
    BY <2>2, <2>3, <2>4, <2>5
<1>4. ASSUME NEW k \in Keys
      PROVE  /\ key[k] = Total(v, ofKey[k])
             /\ \A f : f \in ofKey[k] <=> f \in S /\ p[f] = k
  <2>1. ofKey[k] = {f \in fills : f.position = k /\ f.side = side}
    OBVIOUS
  <2>2. key[k] = Total(v, ofKey[k])
    BY <2>1 DEF Traded
  <2>3. QED
    BY <2>2
<1>5. Total(day, Days) = Total(v, S) /\ Total(key, Keys) = Total(v, S)
  <2> HIDE DEF S, v, d, p, ofDay, ofKey
  <2>1. QED
    BY <1>1, <1>2, <1>3, <1>4, TotalByPart
<1>6. QED
  BY <1>5

\* The cash of the snapshot plus what is invested is what was earned.
LEMMA CashAgrees ==
    ASSUME Told, IsFiniteSet(Keys)
    PROVE  CashDelta + CostTotal = RealisedTotal
<1> DEFINE dayBuy == [d \in Days |-> daily[d].buy]
           daySell == [d \in Days |-> daily[d].sell]
           paid == [k \in Keys |-> Traded(k, "buy")]
           got == [k \in Keys |-> Traded(k, "sell")]
           cost == [k \in Keys |-> pos[k].cost]
           real == [k \in Keys |-> pos[k].realised]
           gain == Gains(real, Keys)
           loss == Losses(real, Keys)
           one == [k \in Keys |-> paid[k] + gain[k]]
           two == [k \in Keys |-> cost[k] + got[k]]
<1>1. pos \in [Keys -> PosType]
  BY PosTypes DEF Told, Fitting, IInv
<1>2. Total(dayBuy, Days) = Total(paid, Keys) /\ Total(daySell, Days) = Total(got, Keys)
  <2>1. /\ \A d \in Days : dayBuy[d] = TradedIn(On(fills, d), "buy")
        /\ \A d \in Days : daySell[d] = TradedIn(On(fills, d), "sell")
    BY DEF Told, DailyTells, Bought, Sold, TradedIn
  <2>2. /\ \A k \in Keys : paid[k] = Traded(k, "buy")
        /\ \A k \in Keys : got[k] = Traded(k, "sell")
    OBVIOUS
  <2> HIDE DEF dayBuy, daySell, paid, got
  <2>3. QED
    BY <2>1, <2>2, SidesAgree
<1>3. ASSUME NEW k \in Keys, NEW side PROVE Traded(k, side) \in Nat
  <2> DEFINE S == {f \in fills : f.position = k /\ f.side = side}
             v == [f \in fills |-> f.gross]
  <2>1. IsFiniteSet(S) /\ \A f \in S : v[f] \in Nat
    BY FS_Subset DEF Told, Fitting, FillsKept
  <2>2. Total(v, S) \in Nat
    <3> HIDE DEF S, v
    <3>1. QED
      BY <2>1, UnitsFinite
  <2>3. QED
    BY <2>2 DEF Traded
<1>4. ASSUME NEW k \in Keys
      PROVE  /\ paid[k] \in Nat /\ got[k] \in Nat /\ cost[k] \in Nat
             /\ gain[k] \in Nat /\ loss[k] \in Nat
             /\ one[k] = paid[k] + gain[k] /\ two[k] = cost[k] + got[k]
             /\ one[k] \in Nat /\ two[k] \in Nat /\ one[k] = two[k] + loss[k]
  <2>1. paid[k] \in Nat /\ got[k] \in Nat
    BY <1>3
  <2>2. cost[k] \in Nat /\ real[k] \in Int
    BY <1>1 DEF PosType
  <2>3. gain[k] \in Nat /\ loss[k] \in Nat /\ real[k] = gain[k] - loss[k]
    BY <2>2 DEF Gains, Losses
  <2>4. paid[k] - got[k] = cost[k] - real[k]
    BY DEF Told, Balanced
  <2>5. one[k] = paid[k] + gain[k] /\ two[k] = cost[k] + got[k]
    OBVIOUS
  <2> HIDE DEF paid, got, cost, real, gain, loss, one, two
  <2>6. QED
    BY <2>1, <2>2, <2>3, <2>4, <2>5
<1>5. /\ Total(one, Keys) = Total(paid, Keys) + Total(gain, Keys)
      /\ Total(two, Keys) = Total(cost, Keys) + Total(got, Keys)
      /\ Total(one, Keys) = Total(two, Keys) + Total(loss, Keys)
      /\ Total(paid, Keys) \in Nat /\ Total(got, Keys) \in Nat /\ Total(cost, Keys) \in Nat
      /\ Total(gain, Keys) \in Nat /\ Total(loss, Keys) \in Nat
  <2> HIDE DEF paid, got, cost, real, gain, loss, one, two
  <2>1. QED
    BY <1>4, TotalOfSums, UnitsFinite
<1>6. Total(cost, Open) = Total(cost, Keys)
  <2>1. Open \subseteq Keys /\ \A k \in Keys \ Open : cost[k] = 0
    BY DEF Open, Told, Fitting, ClosedEmpty
  <2> HIDE DEF cost
  <2>2. QED
    BY <2>1, TotalOfSome
<1>7. /\ CashDelta = Total(got, Keys) - Total(paid, Keys)
      /\ CostTotal = Total(cost, Keys)
      /\ RealisedTotal = Total(gain, Keys) - Total(loss, Keys)
  BY <1>2, <1>6 DEF CashDelta, CostTotal, RealisedTotal, Net
<1>8. QED
  <2> HIDE DEF paid, got, cost, real, gain, loss, one, two
  <2>1. QED
    BY <1>5, <1>7

\* The position, the fills and the day's sums tell the same story after every booking, exit
\* and restart, and what a position has taken out of its principal is exact, when there are
\* finitely many positions and a stake buys whole units at every price.
THEOREM TablesAlwaysAgree ==
    ASSUME IsFiniteSet(Keys), WholeUnits
    PROVE  LSpec => []TablesAgree
<1>1. LInit => Told /\ Principal
  BY ToldAtFirst, PrincipalAtFirst
<1>2. Told /\ Principal /\ [LNext]_lvars => Told' /\ Principal'
  BY ToldPreserved, PrincipalStep DEF Told
<1>3. Told /\ Principal => TablesAgree
  <2> SUFFICES ASSUME Told, Principal PROVE TablesAgree
    OBVIOUS
  <2>1. PrincipalExact
    BY DEF Principal, Recovers, PrincipalExact
  <2>2. \A d \in Days : LET that == {f \in fills : Day(f.at) = d}
                       IN  daily[d].buy = Bought(that) /\ daily[d].trades = Cardinality(that)
    BY DEF Told, DailyTells, On
  <2>3. QED
    BY <2>1, <2>2, CashAgrees DEF Told, TablesAgree
<1>4. QED
  BY <1>1, <1>2, <1>3, PTL DEF LSpec

-----------------------------------------------------------------------------
(* The stop loss.                                                          *)

\* A stake buys at least one unit at every price.
BuysSomething == \A p \in Prices : p <= Stake

\* Leaders trade at even instants, and the clock shows odd ones.
EvenTimes == \A o \in Orders : TradedAt[o] % 2 = 0

\* No two orders of a position have one time.
DistinctTimes ==
    \A o, p \in Orders : o # p /\ KeyOf[o] = KeyOf[p] => TradedAt[o] # TradedAt[p]

\* The id of the stop-loss exit of a generation of a position.
Stop(k, g) == [kind |-> "exit", position |-> k, reason |-> "stop_loss", generation |-> g]

SeenTrade(k, t) ==
    \E o \in Orders : OrderId(o) \in seen /\ KeyOf[o] = k /\ TradedAt[o] = t

\* The generation of an open position is the time of a trade that was booked, or of the round
\* that took its principal out: at most one round has run its exits in this instant since.
Generated(k) ==
    LET p == pos[k] IN
    /\ p.qty > 0
    /\ p.last % 2 = 0 => SeenTrade(k, p.last)
    /\ p.last % 2 = 1 => /\ p.last <= now
                         /\ p.stage = "principal_recovered"
                         /\ p.last = now => monitor.at = "idle" \/ monitor.since = now
    /\ Stop(k, p.last) \notin seen

\* A generation that was stopped is the time of a trade that was booked, or of an exit.
Stopped(k, g) ==
    /\ g % 2 = 0 => SeenTrade(k, g)
    /\ g % 2 = 1 => /\ g <= now
                    /\ g = now => monitor.at = "idle" /\ monitor.since = now

Stops ==
    /\ now % 2 = 1
    /\ \A k \in Keys : pos[k].open => Generated(k)
    /\ \A k \in Keys, g \in Nat : Stop(k, g) \in seen => Stopped(k, g)

LEMMA OrdersAreNoStops == \A o, k, g : OrderId(o) # Stop(k, g)
<1>1. ASSUME NEW o, NEW k, NEW g PROVE OrderId(o) # Stop(k, g)
  <2>1. OrderId(o).kind = "order" /\ Stop(k, g).kind = "exit"
    BY DEF OrderId, Stop
  <2>2. QED
    BY <2>1
<1>2. QED
  BY <1>1

\* The id of an exit, seen from the exit.
LEMMA ExitIsStop ==
    ASSUME NEW j, NEW r, NEW k, NEW g, ExitId(j, r) = Stop(k, g)
    PROVE  j = k /\ r = "stop_loss" /\ g = pos[j].last
<1>1. /\ ExitId(j, r).position = j /\ ExitId(j, r).reason = r
      /\ ExitId(j, r).generation = pos[j].last
  BY DEF ExitId, Generation
<1>2. Stop(k, g).position = k /\ Stop(k, g).reason = "stop_loss" /\ Stop(k, g).generation = g
  BY DEF Stop
<1>3. QED
  BY <1>1, <1>2

LEMMA QuotientIsClose ==
    ASSUME NEW n \in Nat, NEW m \in Nat, m > 0
    PROVE  n \div m \in Nat /\ n < m * (n \div m) + m
  BY SMT

\* A position that is worth twice its cost and sells a part of itself at its price is worth
\* at least the cost of the rest, however that cost is rounded.
LEMMA PartKeepsItsWorth ==
    ASSUME NEW c \in Nat, NEW q \in Nat, NEW s \in Nat, NEW v \in Nat, s < q, 2 * c <= v * q
    PROVE  LET rest == Larger(0, c - HalfUp(c * s, q)) IN
           rest \in Nat /\ rest <= v * (q - s) /\ v * (q - s) \in Nat
<1> DEFINE x == c * s
           d == (2 * x + q) \div (2 * q)
           r == q - s
           w == v * r
<1>1. r \in Nat /\ r > 0 /\ q = s + r /\ x \in Nat /\ q > 0
  OBVIOUS
<1>2. w \in Nat
  BY <1>1
<1>3. d \in Nat /\ 2 * x + q < (2 * q) * d + 2 * q
  <2> HIDE DEF x
  <2>1. 2 * q \in Nat /\ 2 * q > 0 /\ 2 * x + q \in Nat
    BY <1>1
  <2>2. QED
    BY <2>1, QuotientIsClose DEF d
<1>4. c - d <= w
  <2>1. SUFFICES ASSUME w + 1 <= c - d PROVE FALSE
    <3> HIDE DEF d, w
    <3>1. QED
      BY <1>2, <1>3
  <2>2. w + 1 + d <= c /\ w + 1 + d \in Nat
    <3> HIDE DEF d, w
    <3>1. QED
      BY <2>1, <1>2, <1>3
  <2>3. (2 * q) * (w + 1 + d) <= (2 * q) * c
    BY <2>2, TimesMonotone
  <2>4. (2 * q) * (w + 1 + d) = 2 * (q * w) + 2 * q + (2 * q) * d
    <3> HIDE DEF d, w
    <3>1. QED
      BY <1>2, <1>3, SMT
  <2>5. (2 * q) * c = 2 * x + 2 * (c * r)
    <3> HIDE DEF r
    <3>1. QED
      BY <1>1, SMT
  <2>6. q * w = (v * q) * r
    <3> HIDE DEF r
    <3>1. QED
      BY <1>1, SMT DEF w
  <2>7. (2 * c) * r <= (v * q) * r
    <3>1. r * (2 * c) <= r * (v * q)
      BY <1>1, TimesMonotone
    <3>2. r * (2 * c) = (2 * c) * r /\ r * (v * q) = (v * q) * r
      <4> HIDE DEF r
      <4>1. QED
        BY <1>1, SMT
    <3>3. QED
      BY <3>1, <3>2
  <2>8. (2 * c) * r = 2 * (c * r) /\ c * r \in Nat
    <3> HIDE DEF r
    <3>1. QED
      BY <1>1, SMT
  <2>9. QED
    <3> DEFINE y == c * r
               z == q * w
               e == (2 * q) * d
    <3>1. z \in Nat /\ y \in Nat /\ e \in Nat
      <4> HIDE DEF d, w
      <4>1. QED
        BY <1>2, <1>3, <2>8, SMT
    <3>2. 2 * z + 2 * q + e <= 2 * x + 2 * y /\ 2 * y <= z /\ 2 * x + q < e + 2 * q
      BY <2>3, <2>4, <2>5, <2>6, <2>7, <2>8, <1>3
    <3> HIDE DEF x, y, z, e
    <3>3. QED
      BY <1>1, <3>1, <3>2
<1>5. Larger(0, c - d) \in Nat /\ Larger(0, c - d) <= w
  <2> HIDE DEF d, w
  <2>1. QED
    BY <1>2, <1>3, <1>4 DEF Larger
<1>6. QED
  BY <1>2, <1>5 DEF HalfUp

LEMMA StopsAtFirst == LInit => Stops
  BY DEF LInit, Stops, Closed

\* A buy begins a generation with its own time: no exit was entered for it.
LEMMA BuyStops ==
    ASSUME BuysSomething, EvenTimes, DistinctTimes, Told, Stops,
           NEW price \in Prices, price \in Nat \ {0}, NEW o \in Orders,
           KeyOf[o] \in Keys, TradedAt[o] \in Nat, OrderId(o) \notin seen,
           seen' = seen \union {OrderId(o)}, UNCHANGED <<now, monitor>>,
           BookBuy(o, KeyOf[o], price)
    PROVE  \A k \in Keys : pos'[k].open => Generated(k)'
<1> DEFINE k == KeyOf[o]
           t == TradedAt[o]
<1>1. pos \in [Keys -> PosType] /\ Stake \in Nat
  BY PosTypes, LedgerAssumption DEF Told, Fitting, IInv
<1>2. pos' = [pos EXCEPT ![k] = AfterBuy(pos[k], price, t)]
  BY DEF BookBuy
<1>3. t % 2 = 0
  BY DEF EvenTimes
<1>4. ASSUME NEW j \in Keys, j # k, pos'[j].open PROVE Generated(j)'
  <2>1. pos'[j] = pos[j] /\ pos[j].open
    BY <1>1, <1>2, <1>4
  <2>2. Stop(j, pos[j].last) \notin seen'
    BY <2>1, OrdersAreNoStops DEF Stops, Generated
  <2>3. QED
    BY <2>1, <2>2 DEF Stops, Generated, SeenTrade
<1>5. Generated(k)'
  <2>1. pos'[k] = AfterBuy(pos[k], price, t)
    BY <1>1, <1>2
  <2>2. pos'[k].last = t /\ pos'[k].qty = pos[k].qty + (Stake \div price)
    BY <2>1 DEF AfterBuy
  <2>3. Stake \div price \in Nat /\ Stake \div price > 0
    BY <1>1, SMT DEF BuysSomething
  <2>4. pos'[k].qty > 0
    BY <1>1, <2>2, <2>3 DEF PosType
  <2>5. SeenTrade(k, t)'
    BY DEF SeenTrade
  <2>6. Stop(k, t) \notin seen
    <3>1. SUFFICES ASSUME Stop(k, t) \in seen PROVE FALSE
      OBVIOUS
    <3>2. PICK p \in Orders : OrderId(p) \in seen /\ KeyOf[p] = k /\ TradedAt[p] = t
      BY <3>1, <1>3 DEF Stops, Stopped, SeenTrade
    <3>3. p = o
      BY <3>2 DEF DistinctTimes
    <3>4. QED
      BY <3>2, <3>3
  <2>7. Stop(k, t) \notin seen'
    BY <2>6, OrdersAreNoStops
  <2>8. t % 2 # 1
    BY <1>3
  <2>9. QED
    BY <2>2, <2>4, <2>5, <2>7, <2>8 DEF Generated
<1>6. QED
  BY <1>4, <1>5

LEMMA ApplyStops ==
    ASSUME BuysSomething, EvenTimes, DistinctTimes, Told, Stops,
           NEW price \in Prices \union {NoMark}, ApplyEvent(price)
    PROVE  Stops'
<1>1. pos \in [Keys -> PosType] /\ Fitting
  BY PosTypes DEF Told, Fitting, IInv
<1> PICK o \in Orders : o = desk.order
  BY <1>1, ApplyCases
<1> DEFINE k == KeyOf[o]
<1>2. /\ k \in Keys /\ TradedAt[o] \in Nat
      /\ \/ price \in Prices /\ price \in Nat \ {0} /\ BookBuy(o, k, price)
         \/ price \in Prices /\ price \in Nat \ {0} /\ BookSell(o, k, price)
         \/ BookNothing(k, price, TradedAt[o])
  BY <1>1, ApplyCases
<1>3. /\ seen' = seen \union {OrderId(o)} /\ now' = now /\ monitor' = monitor
      /\ OrderId(o) \notin seen
  BY DEF ApplyEvent, Told, Fitting, IInv, DeskUnseen
<1>4. \A j, g : Stop(j, g) \in seen' <=> Stop(j, g) \in seen
  BY <1>3, OrdersAreNoStops
<1>5. ASSUME NEW j \in Keys, NEW g \in Nat, Stop(j, g) \in seen' PROVE Stopped(j, g)'
  <2>1. Stopped(j, g)
    BY <1>4, <1>5 DEF Stops
  <2>2. QED
    BY <2>1, <1>3 DEF Stopped, SeenTrade
<1>6. ASSUME NEW j \in Keys, pos'[j].open PROVE Generated(j)'
  <2>1. CASE price \in Prices /\ price \in Nat \ {0} /\ BookBuy(o, k, price)
    BY <2>1, <1>2, <1>3, <1>6, BuyStops
  <2>2. CASE \/ price \in Nat \ {0} /\ BookSell(o, k, price)
             \/ BookNothing(k, price, TradedAt[o])
    <3>1. /\ pos[j].open /\ pos'[j].last = pos[j].last
          /\ pos'[j].qty = pos[j].qty /\ pos'[j].stage = pos[j].stage
      <4>1. CASE BookSell(o, k, price)
        BY <4>1, <1>1, <1>2, <1>6 DEF BookSell, AfterSell
      <4>2. CASE BookNothing(k, price, TradedAt[o])
        BY <4>2, <1>1, <1>2, <1>6 DEF BookNothing, Marked, PosType
      <4>3. QED
        BY <4>1, <4>2, <2>2
    <3>2. Generated(j)
      BY <3>1 DEF Stops
    <3>3. QED
      BY <3>1, <3>2, <1>3, <1>4 DEF Generated, SeenTrade
  <2>3. QED
    BY <2>1, <2>2, <1>2
<1>7. QED
  BY <1>3, <1>5, <1>6 DEF Stops

LEMMA MonitorStops == ASSUME Told, Stops, Fetch \/ ApplyMarks PROVE Stops'
<1>1. pos \in [Keys -> PosType] /\ now \in Nat /\ monitor.since \in Nat
  BY PosTypes DEF Told, Fitting, IInv, LTypeOK
<1>2. /\ seen' = seen /\ now' = now
      /\ \/ monitor.since < now /\ monitor'.since = now
         \/ monitor.at # "idle" /\ monitor'.since = monitor.since
  <2>1. monitor \in [at : {"idle", "fetched", "marked"}, since : Nat,
                     marks : [Tokens -> Prices \union {NoMark}]]
    BY DEF Told, Fitting, IInv, LTypeOK
  <2>2. CASE Fetch
    BY <2>2 DEF Fetch
  <2>3. CASE ApplyMarks
    BY <2>1, <2>3 DEF ApplyMarks
  <2>4. QED
    BY <2>2, <2>3
<1>3. \A k \in Keys : /\ pos'[k].open <=> pos[k].open
                      /\ pos'[k].last = pos[k].last
                      /\ pos'[k].qty = pos[k].qty
                      /\ pos'[k].stage = pos[k].stage
  <2>1. CASE Fetch
    BY <2>1 DEF Fetch
  <2>2. CASE ApplyMarks
    <3>1. ASSUME NEW p \in PosType, NEW m
          PROVE  /\ Remark(p, m).open <=> p.open
                 /\ Remark(p, m).last = p.last
                 /\ Remark(p, m).qty = p.qty
                 /\ Remark(p, m).stage = p.stage
      BY DEF Remark, PosType
    <3>2. \A k \in Keys : pos'[k] = Remark(pos[k], monitor.marks[TokenOf[k]])
      BY <2>2 DEF ApplyMarks
    <3>3. QED
      BY <1>1, <3>1, <3>2
  <2>3. QED
    BY <2>1, <2>2
<1>4. ASSUME NEW k \in Keys, pos'[k].open PROVE Generated(k)'
  <2>1. Generated(k) /\ pos[k].last \in Nat
    BY <1>1, <1>3, <1>4 DEF Stops, PosType
  <2>2. QED
    BY <2>1, <1>1, <1>2, <1>3 DEF Generated, SeenTrade
<1>5. ASSUME NEW k \in Keys, NEW g \in Nat, Stop(k, g) \in seen' PROVE Stopped(k, g)'
  <2>1. Stopped(k, g)
    BY <1>2, <1>5 DEF Stops
  <2>2. QED
    BY <2>1, <1>1, <1>2 DEF Stopped, SeenTrade
<1>6. QED
  BY <1>2, <1>4, <1>5 DEF Stops

LEMMA OthersStop ==
    ASSUME Told, Stops,
           \/ Tick \/ Restart \/ (\E o \in Orders : Decide(o))
           \/ (\E p \in Policies : SavePolicy(p)) \/ UNCHANGED lvars
    PROVE  Stops'
<1>1. pos \in [Keys -> PosType] /\ now \in Nat
  BY PosTypes DEF Told, Fitting, IInv, LTypeOK
<1>2. /\ seen' = seen /\ pos' = pos
      /\ \/ now' = now + 2 /\ monitor' = monitor
         \/ now' = now /\ monitor'.since = monitor.since
            /\ (monitor'.at = "idle" \/ monitor' = monitor)
  <2>1. monitor \in [at : {"idle", "fetched", "marked"}, since : Nat,
                     marks : [Tokens -> Prices \union {NoMark}]]
    BY DEF Told, Fitting, IInv, LTypeOK
  <2>2. QED
    BY <2>1 DEF Tick, Restart, Decide, SavePolicy, lvars
<1>3. now' % 2 = 1
  BY <1>1, <1>2 DEF Stops
<1>4. ASSUME NEW k \in Keys, pos'[k].open PROVE Generated(k)'
  <2>1. Generated(k) /\ pos[k].last \in Nat
    BY <1>1, <1>2, <1>4 DEF Stops, PosType
  <2>2. QED
    BY <2>1, <1>1, <1>2 DEF Generated, SeenTrade
<1>5. ASSUME NEW k \in Keys, NEW g \in Nat, Stop(k, g) \in seen' PROVE Stopped(k, g)'
  <2>1. Stopped(k, g)
    BY <1>2, <1>5 DEF Stops
  <2>2. QED
    BY <2>1, <1>1, <1>2 DEF Stopped, SeenTrade
<1>6. QED
  BY <1>3, <1>4, <1>5 DEF Stops

\* What an exit leaves: nothing, or a part of a position whose principal was taken out now.
LEMMA ExitLeaves ==
    ASSUME EvenTimes, Told, Stops, Evaluate, NEW k \in ExitsDue, pos'[k].open
    PROVE  LET p == pos[k]
               s == SellQuantity(p, "principal_recovery")
           IN  /\ Rule(p) = "principal_recovery" /\ p.stage # "principal_recovered"
               /\ 2 * p.cost <= p.price * p.qty
               /\ s \in Nat /\ s < p.qty
               /\ pos'[k].qty = p.qty - s /\ pos'[k].price = p.price
               /\ pos'[k].cost = Larger(0, p.cost - HalfUp(p.cost * s, p.qty))
               /\ pos'[k].last = now /\ pos'[k].stage = "principal_recovered"
<1> DEFINE p == pos[k]
           s == SellQuantity(p, Rule(p))
           at == Larger(now, p.last + 1)
<1>1. /\ k \in Keys /\ p \in PosType /\ p.open /\ p.qty > 0 /\ s \in Nat /\ s <= p.qty
      /\ now \in Nat /\ policy \in Policies
  BY DueExit DEF ExitsDue, Open, Told, Fitting, IInv, LTypeOK
<1>2. pos'[k] = AfterExit(p, Rule(p), s, at)
  BY <1>1 DEF Evaluate
<1>3. s # p.qty
  <2>1. AfterExit(p, Rule(p), s, at).open <=> s # p.qty
    BY DEF AfterExit
  <2>2. QED
    BY <1>2, <2>1
<1>4. Rule(p) = "principal_recovery"
  BY <1>3 DEF SellQuantity
<1>5. p.stage # "principal_recovered" /\ p.price * p.qty >= p.cost * policy.multiple
  BY <1>4 DEF Rule
<1>6. 2 * p.cost <= p.price * p.qty
  <2> DEFINE m == policy.multiple
             c == p.cost
             w == p.price * p.qty
  <2>1. m \in Nat /\ 2 <= m /\ c \in Nat /\ w \in Nat
    BY <1>1, PolicyAssumption DEF ValidPolicy, PosType
  <2>2. w >= c * m
    BY <1>5
  <2> HIDE DEF m, c, w
  <2>3. c * 2 <= c * m /\ c * m \in Nat /\ c * 2 = 2 * c
    BY <2>1, TimesMonotone
  <2>4. 2 * c <= w
    BY <2>1, <2>2, <2>3
  <2>5. QED
    BY <2>4 DEF c, w
<1>7. at = now
  <2>1. Generated(k) /\ p.last \in Nat
    BY <1>1 DEF Stops, PosType
  <2>2. p.last <= now /\ p.last % 2 # 1
    BY <2>1, <1>1, <1>5 DEF Told, Dated, Generated
  <2>3. now % 2 = 1
    BY DEF Stops
  <2>4. p.last + 1 <= now
    <3> HIDE DEF p
    <3>1. QED
      BY <2>1, <2>2, <2>3, <1>1
  <2>5. QED
    <3> DEFINE n == p.last
    <3>1. n \in Nat /\ n + 1 <= now
      BY <2>1, <2>4
    <3> HIDE DEF n
    <3>2. Larger(now, n + 1) = now
      BY <3>1, <1>1 DEF Larger
    <3>3. QED
      BY <3>2 DEF n
<1>8. s < p.qty
  <2> DEFINE q == p.qty
  <2>1. q \in Nat
    BY <1>1 DEF PosType
  <2>2. s <= q /\ s # q /\ s \in Nat
    BY <1>1, <1>3
  <2> HIDE DEF q, s
  <2>3. s < q
    BY <2>1, <2>2
  <2>4. QED
    BY <2>3 DEF q
<1>9. pos'[k] = AfterExit(p, "principal_recovery", s, now)
  BY <1>2, <1>4, <1>7
<1>10. /\ pos'[k].qty = p.qty - s /\ pos'[k].price = p.price
       /\ pos'[k].cost = Larger(0, p.cost - HalfUp(p.cost * s, p.qty))
       /\ pos'[k].last = now /\ pos'[k].stage = "principal_recovered"
  <2> HIDE DEF s, p
  <2>1. QED
    BY <1>9, <1>3 DEF AfterExit
<1>11. QED
  BY <1>1, <1>4, <1>5, <1>6, <1>8, <1>10

\* The ids the exit rules enter.
LEMMA NewStops ==
    ASSUME IInv, Evaluate, NEW k, NEW g, Stop(k, g) \in seen', Stop(k, g) \notin seen
    PROVE  k \in ExitsDue /\ Rule(pos[k]) = "stop_loss" /\ g = pos[k].last
<1>1. seen' = seen \union {f.id : f \in {ExitFill(j) : j \in ExitsDue}}
  BY DEF Evaluate
<1>2. PICK j \in ExitsDue : Stop(k, g) = ExitFill(j).id
  BY <1>1
<1>3. ExitId(j, Rule(pos[j])) = Stop(k, g)
  BY <1>2 DEF ExitFill
<1>4. QED
  BY <1>3, ExitIsStop

LEMMA EvaluateStops == ASSUME EvenTimes, Told, Stops, Evaluate PROVE Stops'
<1>1. /\ pos \in [Keys -> PosType] /\ IInv /\ now \in Nat /\ now' = now
      /\ seen \subseteq seen'
  BY PosTypes DEF Told, Fitting, IInv, LTypeOK, Evaluate
<1>2. monitor.at = "marked" /\ monitor'.at = "idle" /\ monitor'.since = monitor.since
  BY <1>1 DEF Evaluate, IInv, LTypeOK
<1>3. ASSUME NEW k \in Keys, pos'[k].open PROVE Generated(k)'
  <2>1. CASE k \in ExitsDue
    <3> DEFINE p == pos[k]
               s == SellQuantity(p, "principal_recovery")
    <3>1. /\ Rule(p) = "principal_recovery" /\ s \in Nat /\ s < p.qty
          /\ pos'[k].qty = p.qty - s
          /\ pos'[k].last = now /\ pos'[k].stage = "principal_recovered"
      BY <1>3, <2>1, ExitLeaves
    <3>2. pos'[k].qty > 0
      <4>1. p.qty \in Nat
        BY <1>1 DEF PosType
      <4> HIDE DEF p, s
      <4>2. QED
        BY <3>1, <4>1
    <3>3. Stop(k, now) \notin seen
      BY <1>1, <1>2 DEF Stops, Stopped
    <3>4. Stop(k, now) \notin seen'
      BY <3>1, <3>3, <1>1, NewStops
    <3>5. now % 2 = 1
      BY DEF Stops
    <3>6. QED
      BY <3>1, <3>2, <3>4, <3>5, <1>1, <1>2 DEF Generated
  <2>2. CASE k \notin ExitsDue
    <3>1. pos'[k] = pos[k]
      BY <2>2, <1>1 DEF Evaluate
    <3>2. Generated(k)
      BY <3>1, <1>3 DEF Stops
    <3>3. Stop(k, pos[k].last) \notin seen'
      BY <3>2, <2>2, <1>1, NewStops DEF Generated
    <3>4. QED
      BY <3>1, <3>2, <3>3, <1>1, <1>2 DEF Generated, SeenTrade
  <2>3. QED
    BY <2>1, <2>2
<1>4. ASSUME NEW k \in Keys, NEW g \in Nat, Stop(k, g) \in seen' PROVE Stopped(k, g)'
  <2>1. CASE Stop(k, g) \in seen
    <3>1. Stopped(k, g)
      BY <2>1 DEF Stops
    <3>2. QED
      BY <3>1, <1>1, <1>2 DEF Stopped, SeenTrade
  <2>2. CASE Stop(k, g) \notin seen
    <3>1. k \in ExitsDue /\ g = pos[k].last
      BY <2>2, <1>1, <1>4, NewStops
    <3>2. Generated(k)
      BY <3>1 DEF Stops, ExitsDue, Open
    <3>3. QED
      BY <3>1, <3>2, <1>1, <1>2 DEF Generated, Stopped, SeenTrade
  <2>3. QED
    BY <2>1, <2>2
<1>5. QED
  BY <1>1, <1>3, <1>4 DEF Stops

LEMMA StopsPreserved ==
    ASSUME BuysSomething, EvenTimes, DistinctTimes, Told, Stops, [LNext]_lvars PROVE Stops'
  BY ApplyStops, MonitorStops, EvaluateStops, OthersStop DEF LNext

\* A sinking position is due, so that its stop loss is entered in this step.
LEMMA SinkingIsDue ==
    ASSUME Told, Stops, policy.enabled, NEW k \in Keys, Sinking(pos[k])
    PROVE  k \in ExitsDue
<1> DEFINE p == pos[k]
<1>1. p \in PosType /\ p.open /\ Fresh(p) /\ p.price * p.qty * 100 <= p.cost * (100 - policy.stop)
  BY PosTypes DEF Told, Fitting, IInv, Sinking
<1>2. Generated(k) /\ p.qty > 0
  BY <1>1 DEF Stops, Generated
<1>3. p.cost > 0
  <2> DEFINE c == p.cost
             w == p.price * p.qty
             h == 100 - policy.stop
  <2>1. c \in Nat /\ p.price \in Nat \ {0} /\ p.qty \in Nat \ {0}
    BY <1>1, <1>2 DEF PosType
  <2>2. w \in Nat /\ w > 0
    <3> HIDE DEF p
    <3>1. QED
      BY <2>1, SMT
  <2>3. h \in Nat
    BY PolicyAssumption DEF ValidPolicy, Told, Fitting, IInv, LTypeOK
  <2>4. w * 100 <= c * h
    BY <1>1
  <2> HIDE DEF c, w, h
  <2>5. c = 0 => c * h = 0
    BY <2>3
  <2>6. c > 0
    BY <2>1, <2>2, <2>4, <2>5
  <2>7. QED
    BY <2>6 DEF c
<1>4. Rule(p) = "stop_loss"
  BY DEF Rule
<1>5. SellQuantity(p, Rule(p)) = p.qty
  BY <1>4 DEF SellQuantity
<1>6. ExitId(k, Rule(p)) \notin seen
  BY <1>2, <1>4 DEF Generated, ExitId, Stop, Generation
<1>7. QED
  BY <1>1, <1>2, <1>3, <1>4, <1>5, <1>6 DEF ExitsDue, Open

LEMMA SinkingIsSoldNow ==
    ASSUME EvenTimes, Told, Stops, Evaluate, policy.enabled, NEW k \in Keys
    PROVE  ~Sinking(pos[k])'
<1>1. /\ pos \in [Keys -> PosType] /\ now' = now /\ policy' = policy /\ policy \in Policies
  BY PosTypes DEF Told, Fitting, IInv, LTypeOK, Evaluate
<1>2. CASE k \notin ExitsDue
  <2>1. pos'[k] = pos[k]
    BY <1>1, <1>2 DEF Evaluate
  <2>2. ~Sinking(pos[k])
    BY <1>2, SinkingIsDue
  <2>3. QED
    BY <2>1, <2>2, <1>1 DEF Sinking, Fresh
<1>3. CASE k \in ExitsDue
  <2>1. SUFFICES ASSUME pos'[k].open PROVE ~Sinking(pos[k])'
    BY DEF Sinking
  <2> DEFINE p == pos[k]
             s == SellQuantity(p, "principal_recovery")
             rest == Larger(0, p.cost - HalfUp(p.cost * s, p.qty))
             w == p.price * (p.qty - s)
             h == 100 - policy.stop
  <2>2. /\ 2 * p.cost <= p.price * p.qty /\ s \in Nat /\ s < p.qty
        /\ pos'[k].qty = p.qty - s /\ pos'[k].price = p.price /\ pos'[k].cost = rest
    BY <1>3, <2>1, ExitLeaves
  <2>3. p.cost \in Nat /\ p.qty \in Nat /\ p.price \in Nat \ {0}
    BY <1>1 DEF PosType
  <2>4. rest \in Nat /\ rest <= w /\ w \in Nat
    <3> HIDE DEF p, s
    <3>1. QED
      BY <2>2, <2>3, PartKeepsItsWorth
  <2>5. w > 0
    <3> HIDE DEF p, s
    <3>1. p.qty - s \in Nat \ {0}
      BY <2>2, <2>3
    <3> DEFINE r == p.qty - s
    <3> HIDE DEF r
    <3>2. r \in Nat \ {0} /\ w = p.price * r
      BY <3>1 DEF r
    <3>3. QED
      BY <3>2, <2>3, SMT
  <2>6. h \in Nat /\ h <= 99
    BY <1>1, PolicyAssumption DEF ValidPolicy
  <2>7. rest * h < w * 100
    <3> HIDE DEF rest, w, h
    <3>1. rest * h <= rest * 99
      BY <2>4, <2>6, TimesMonotone
    <3>2. rest * 99 \in Nat /\ rest * 99 <= w * 99
      BY <2>4
    <3>3. rest * h \in Nat
      BY <2>4, <2>6
    <3>4. QED
      BY <3>1, <3>2, <3>3, <2>4, <2>5
  <2>8. pos'[k].price * pos'[k].qty * 100 = w * 100 /\ pos'[k].cost * (100 - policy'.stop) = rest * h
    BY <2>2, <1>1
  <2>9. ~(pos'[k].price * pos'[k].qty * 100 <= pos'[k].cost * (100 - policy'.stop))
    <3>1. ~(w * 100 <= rest * h)
      <4> HIDE DEF rest, w, h
      <4>1. rest * h \in Nat /\ w * 100 \in Nat
        BY <2>4, <2>6
      <4>2. QED
        BY <2>7, <4>1
    <3>2. QED
      BY <3>1, <2>8
  <2>10. QED
    BY <2>9 DEF Sinking
<1>4. QED
  BY <1>2, <1>3

\* After every round of the exit rules no position with a fresh mark is left at or below its
\* stop loss, through any number of closings and new buys, rounds of one instant, late orders
\* and restarts, when no two orders of a position have one time.  (Two swaps of one block do:
\* the run PaperExit shows what happens then.)
THEOREM SinkingIsAlwaysSold ==
    ASSUME BuysSomething, EvenTimes, DistinctTimes
    PROVE  LSpec => SinkingIsSold
<1>1. LInit => Told /\ Stops
  BY ToldAtFirst, StopsAtFirst
<1>2. Told /\ Stops /\ [LNext]_lvars => Told' /\ Stops'
  BY ToldPreserved, StopsPreserved
<1>3. Told /\ Stops /\ [LNext]_lvars =>
        [Evaluate /\ policy.enabled => \A k \in Keys : ~Sinking(pos[k])']_lvars
  BY SinkingIsSoldNow
<1>4. QED
  BY <1>1, <1>2, <1>3, PTL DEF LSpec, SinkingIsSold

-----------------------------------------------------------------------------
(* The actual wallet.  More about sums.                                    *)

LEMMA UnitIs ==
    ASSUME NEW v, NEW S, NEW z \in Units(v, S)
    PROVE  z[1] \in S /\ z[2] \in 1..v[z[1]] /\ z = <<z[1], z[2]>>
<1>1. PICK x \in S : z \in {x} \X (1..v[x])
  BY DEF Units
<1>2. QED
  BY <1>1

LEMMA UnitIn ==
    ASSUME NEW v, NEW S, NEW x \in S, NEW i \in 1..v[x]
    PROVE  <<x, i>> \in Units(v, S)
  BY DEF Units

\* A sum over what stands for the elements of a set, one for one.
LEMMA TotalOfImage ==
    ASSUME NEW S, IsFiniteSet(S), NEW T, NEW g \in Bijection(S, T), NEW v, NEW w,
           \A x \in S : v[x] \in Nat /\ w[g[x]] = v[x]
    PROVE  Total(v, S) = Total(w, T)
<1> DEFINE U == Units(v, S)
           W == Units(w, T)
           f == [z \in U |-> <<g[z[1]], z[2]>>]
<1>1. /\ g \in [S -> T] /\ \A x, y \in S : g[x] = g[y] => x = y
      /\ \A y \in T : \E x \in S : g[x] = y
  BY DEF Bijection, Injection, Surjection, IsInjective
<1>2. IsFiniteSet(U)
  BY UnitsFinite
<1>3. ASSUME NEW z \in U PROVE f[z] \in W
  <2>1. z[1] \in S /\ z[2] \in 1..v[z[1]]
    BY UnitIs
  <2>2. g[z[1]] \in T /\ z[2] \in 1..w[g[z[1]]]
    BY <2>1, <1>1
  <2>3. QED
    BY <2>2, UnitIn
<1>4. \A y, z \in U : f[y] = f[z] => y = z
  <2>1. SUFFICES ASSUME NEW y \in U, NEW z \in U, f[y] = f[z] PROVE y = z
    OBVIOUS
  <2>2. y[1] \in S /\ z[1] \in S /\ y = <<y[1], y[2]>> /\ z = <<z[1], z[2]>>
    BY UnitIs
  <2>3. g[y[1]] = g[z[1]] /\ y[2] = z[2]
    BY <2>1
  <2>4. QED
    BY <2>2, <2>3, <1>1
<1>5. ASSUME NEW y \in W PROVE \E z \in U : f[z] = y
  <2>1. y[1] \in T /\ y[2] \in 1..w[y[1]] /\ y = <<y[1], y[2]>>
    BY UnitIs
  <2>2. PICK x \in S : g[x] = y[1]
    BY <2>1, <1>1
  <2>3. y[2] \in 1..v[x]
    BY <2>1, <2>2
  <2>4. <<x, y[2]>> \in U
    BY <2>3, UnitIn
  <2>5. f[<<x, y[2]>>] = y
    BY <2>1, <2>2, <2>4
  <2>6. QED
    BY <2>4, <2>5
<1>6. f \in Bijection(U, W)
  <2>1. f \in [U -> W]
    BY <1>3
  <2> HIDE DEF f, U, W
  <2>2. QED
    BY <2>1, <1>4, <1>5 DEF Bijection, Injection, Surjection, IsInjective
<1>7. QED
  <2> HIDE DEF f, U, W
  <2>1. Cardinality(W) = Cardinality(U)
    BY <1>6, <1>2, FS_Bijection DEF ExistsBijection
  <2>2. QED
    BY <2>1 DEF Total, U, W

\* What each has when n is taken in the order of a queue.
Share(n, ahead, has) == IF n - ahead <= 0 THEN 0 ELSE IF n - ahead <= has THEN n - ahead ELSE has

\* The elements stand behind each other: together their shares are what is taken.
LEMMA QueueGives ==
    ASSUME NEW S, IsFiniteSet(S), NEW v, \A x \in S : v[x] \in Nat,
           NEW a, \A x \in S : a[x] \in Nat /\ a[x] + v[x] <= Total(v, S),
           \A x, y \in S : x # y => a[x] + v[x] <= a[y] \/ a[y] + v[y] <= a[x],
           NEW n \in Nat, n <= Total(v, S),
           NEW c, \A x \in S : c[x] = Share(n, a[x], v[x])
    PROVE  Total(c, S) = n
<1> DEFINE U == Units(v, S)
           W == Units(c, S)
           N == Total(v, S)
           f == [z \in U |-> a[z[1]] + z[2]]
           h == [z \in W |-> a[z[1]] + z[2]]
<1>1. IsFiniteSet(U) /\ N \in Nat
  BY UnitsFinite
<1>2. \A m \in Nat : IsFiniteSet(1..m) /\ Cardinality(1..m) = m
  <2>1. \A m \in Nat : IsFiniteSet(1..m) /\ Cardinality(1..m) = IF 1 > m THEN 0 ELSE m - 1 + 1
    BY FS_Interval
  <2>2. QED
    BY <2>1
<1>3. \A x \in S : /\ c[x] \in Nat /\ c[x] <= v[x]
                   /\ \A i \in 1..v[x] : i <= c[x] <=> a[x] + i <= n
  BY DEF Share
<1>4. \A y, z \in U : a[y[1]] + y[2] = a[z[1]] + z[2] => y = z
  <2>1. SUFFICES ASSUME NEW y \in U, NEW z \in U, a[y[1]] + y[2] = a[z[1]] + z[2] PROVE y = z
    OBVIOUS
  <2>2. /\ y[1] \in S /\ y[2] \in 1..v[y[1]] /\ y = <<y[1], y[2]>>
        /\ z[1] \in S /\ z[2] \in 1..v[z[1]] /\ z = <<z[1], z[2]>>
    BY UnitIs
  <2>3. y[1] = z[1]
    <3> DEFINE x == y[1]
               u == z[1]
    <3>1. SUFFICES ASSUME x # u PROVE FALSE
      OBVIOUS
    <3>2. a[x] + v[x] <= a[u] \/ a[u] + v[u] <= a[x]
      BY <3>1, <2>2
    <3>3. a[x] \in Nat /\ a[u] \in Nat /\ v[x] \in Nat /\ v[u] \in Nat
      BY <2>2
    <3>4. QED
      BY <3>2, <3>3, <2>1, <2>2
  <2>4. y[2] = z[2]
    BY <2>1, <2>2, <2>3
  <2>5. QED
    BY <2>2, <2>3, <2>4
<1>5. \A z \in U : f[z] \in 1..N
  <2>1. SUFFICES ASSUME NEW z \in U PROVE f[z] \in 1..N
    OBVIOUS
  <2>2. z[1] \in S /\ z[2] \in 1..v[z[1]]
    BY UnitIs
  <2>3. a[z[1]] \in Nat /\ v[z[1]] \in Nat /\ a[z[1]] + v[z[1]] <= N
    BY <2>2
  <2>4. f[z] = a[z[1]] + z[2]
    OBVIOUS
  <2> HIDE DEF N, f
  <2>5. QED
    BY <2>2, <2>3, <2>4, <1>1
<1>6. f \in Surjection(U, 1..N)
  <2>1. f \in [U -> 1..N] /\ \A y, z \in U : f[y] = f[z] => y = z
    BY <1>4, <1>5
  <2>2. Cardinality(U) = Cardinality(1..N)
    BY <1>1, <1>2 DEF Total
  <2> HIDE DEF f, U, N
  <2>3. f \in Injection(U, 1..N)
    BY <2>1 DEF Injection, IsInjective
  <2>4. IsFiniteSet(1..N)
    BY <1>1, <1>2
  <2>5. QED
    BY <2>2, <2>3, <2>4, FS_Injection
<1>7. ASSUME NEW z \in W PROVE z \in U /\ h[z] \in 1..n
  <2>1. z[1] \in S /\ z[2] \in 1..c[z[1]] /\ z = <<z[1], z[2]>>
    BY UnitIs
  <2>2. z[2] \in 1..v[z[1]] /\ a[z[1]] + z[2] <= n /\ a[z[1]] \in Nat
    BY <2>1, <1>3
  <2>3. z \in U
    BY <2>1, <2>2, UnitIn
  <2>4. QED
    BY <2>2, <2>3
<1>8. ASSUME NEW m \in 1..n PROVE \E z \in W : h[z] = m
  <2>1. m \in 1..N
    <3> HIDE DEF N
    <3>1. n <= N
      BY DEF N
    <3>2. QED
      BY <3>1, <1>1
  <2>2. PICK z \in U : f[z] = m
    <3> HIDE DEF f, U, N
    <3>1. QED
      BY <2>1, <1>6 DEF Surjection
  <2>3. z[1] \in S /\ z[2] \in 1..v[z[1]] /\ z = <<z[1], z[2]>>
    BY UnitIs
  <2>4. a[z[1]] + z[2] = m
    BY <2>2
  <2>5. z[2] \in 1..c[z[1]]
    BY <2>3, <2>4, <1>3
  <2>6. z \in W
    BY <2>3, <2>5, UnitIn
  <2>7. QED
    BY <2>4, <2>6
<1>9. h \in Bijection(W, 1..n)
  <2>1. h \in [W -> 1..n] /\ \A y, z \in W : h[y] = h[z] => y = z
    BY <1>4, <1>7
  <2> HIDE DEF h, W
  <2>2. QED
    BY <2>1, <1>8 DEF Bijection, Injection, Surjection, IsInjective
<1>10. IsFiniteSet(W)
  BY <1>3, UnitsFinite
<1>11. QED
  <2> HIDE DEF h, W
  <2>1. Cardinality(1..n) = Cardinality(W)
    BY <1>9, <1>10, FS_Bijection DEF ExistsBijection
  <2>2. QED
    BY <2>1, <1>2 DEF Total, W


Strategies == {r.strategy : r \in Receipts}

LotType == [receipt : Nat, strategy : Strategies, acquired : Nat, left : Nat, opened : Int,
            status : {"open", "closed"}]

\* A receipt makes one lot.
OneEach(L) == \A k, l \in L : k.receipt = l.receipt => k = l

LEMMA LeftIs ==
    ASSUME NEW L, IsFiniteSet(L), L \subseteq LotType, NEW K, K \subseteq L
    PROVE  /\ Left(K) \in Nat /\ Left(K) = Total([l \in L |-> l.left], K)
           /\ IsFiniteSet(K)
<1> DEFINE v == [l \in L |-> l.left]
           u == [l \in K |-> l.left]
<1>1. IsFiniteSet(K) /\ \A l \in K : v[l] \in Nat /\ v[l] = u[l]
  BY FS_Subset DEF LotType
<1>2. Total(v, K) \in Nat
  <2> HIDE DEF v
  <2>1. QED
    BY <1>1, UnitsFinite
<1>3. Total(u, K) = Total(v, K)
  <2> HIDE DEF u, v
  <2>1. QED
    BY <1>1, TotalSame
<1>4. QED
  BY <1>1, <1>2, <1>3 DEF Left

\* What lies before a lot and the lot itself lie before every lot that comes after it.
LEMMA LotsQueue ==
    ASSUME NEW L, IsFiniteSet(L), L \subseteq LotType, OneEach(L),
           NEW l \in L, NEW K, K \subseteq L, l \in K,
           \A k \in L : Earlier(k, l) => k \in K
    PROVE  Left({k \in L : Earlier(k, l)}) + l.left <= Left(K)
<1> DEFINE v == [k \in L |-> k.left]
           B == {k \in L : Earlier(k, l)}
<1>1. \A k \in L : v[k] \in Nat
  BY DEF LotType
<1>2. l \notin B
  BY DEF Earlier, LotType
<1>3. /\ Left(B) = Total(v, B) /\ Left(K) = Total(v, K)
      /\ IsFiniteSet(B) /\ IsFiniteSet(K)
  <2>1. B \subseteq L
    OBVIOUS
  <2> HIDE DEF B
  <2>2. QED
    BY <2>1, LeftIs
<1>4. B \union {l} \subseteq K /\ B \subseteq L
  OBVIOUS
<1>5. Total(v, B \union {l}) = Total(v, B) + v[l]
  <2> HIDE DEF v, B
  <2>1. QED
    BY <1>1, <1>2, <1>3, <1>4, TotalAdds
<1>6. Total(v, B \union {l}) <= Total(v, K)
  <2>1. \A k \in K : v[k] \in Nat
    BY <1>1
  <2>2. \A k \in B \union {l} : v[k] \in Nat /\ v[k] <= v[k]
    BY <1>1, <1>4
  <2> HIDE DEF v, B
  <2>3. QED
    BY <2>1, <2>2, <1>3, <1>4, TotalGrows
<1>7. v[l] = l.left
  OBVIOUS
<1>8. QED
  <2> HIDE DEF v
  <2>1. QED
    BY <1>3, <1>5, <1>6, <1>7

\* What is left of a lot after a sale.
LEMMA LotLeft ==
    ASSUME NEW l \in LotType, NEW c \in 0..l.left
    PROVE  LET k == LotAfter(l, c) IN
           /\ k \in LotType /\ k.receipt = l.receipt /\ k.strategy = l.strategy
           /\ k.acquired = l.acquired /\ k.left = l.left - c
           /\ k.status = "closed" <=> k.left = 0
<1> DEFINE k == LotAfter(l, c)
<1>1. l.left \in Nat /\ c \in Int
  BY DEF LotType
<1>2. /\ k.receipt = l.receipt /\ k.strategy = l.strategy /\ k.acquired = l.acquired
      /\ k.left = l.left - c /\ k.status = IF l.left = c THEN "closed" ELSE "open"
  BY DEF LotAfter, LotType
<1>3. l.left = c <=> l.left - c = 0
  BY <1>1
<1>4. k.status = "closed" <=> k.left = 0
  BY <1>2, <1>3
<1>5. k \in LotType
  <2>1. l.left - c \in Nat
    BY <1>1
  <2>2. QED
    BY <2>1 DEF LotAfter, LotType
<1>6. QED
  BY <1>2, <1>4, <1>5

\* A sale takes from the lots what is sold, no more than a lot has from any of them.
LEMMA SaleTakes ==
    ASSUME NEW L, IsFiniteSet(L), L \subseteq LotType, OneEach(L),
           NEW n \in Nat, n <= Left(L)
    PROVE  /\ \A l \in L : TakenFrom(L, n, l) \in 0..l.left
           /\ IsFiniteSet(Taken(L, n)) /\ Taken(L, n) \subseteq LotType
           /\ Left(Taken(L, n)) = Left(L) - n
<1> DEFINE v == [l \in L |-> l.left]
           a == [l \in L |-> Left({k \in L : Earlier(k, l)})]
           c == [l \in L |-> TakenFrom(L, n, l)]
           r == [l \in L |-> l.left - TakenFrom(L, n, l)]
           T == Taken(L, n)
           g == [l \in L |-> LotAfter(l, TakenFrom(L, n, l))]
           w == [k \in T |-> k.left]
<1>1. \A l \in L : v[l] \in Nat /\ v[l] = l.left
  BY DEF LotType
<1>2. ASSUME NEW l \in L PROVE a[l] \in Nat
  <2>1. {k \in L : Earlier(k, l)} \subseteq L
    OBVIOUS
  <2>2. Left({k \in L : Earlier(k, l)}) \in Nat
    BY <2>1, LeftIs
  <2>3. QED
    BY <2>2
<1>3. Left(L) = Total(v, L) /\ Left(L) \in Nat
  BY LeftIs
<1>4. ASSUME NEW l \in L PROVE a[l] + v[l] <= Left(L)
  <2>1. Left({k \in L : Earlier(k, l)}) + l.left <= Left(L)
    BY LotsQueue
  <2>2. QED
    BY <2>1
<1>5. ASSUME NEW k \in L, NEW l \in L, Earlier(k, l) PROVE a[k] + v[k] <= a[l]
  <2> DEFINE K == {j \in L : Earlier(j, l)}
  <2>1. K \subseteq L /\ k \in K /\ \A j \in L : Earlier(j, k) => j \in K
    BY <1>5 DEF Earlier, LotType
  <2>2. a[l] = Left(K)
    OBVIOUS
  <2> HIDE DEF K
  <2>3. Left({j \in L : Earlier(j, k)}) + k.left <= Left(K)
    BY <2>1, LotsQueue
  <2>4. QED
    BY <2>2, <2>3
<1>6. \A k, l \in L : k # l => a[k] + v[k] <= a[l] \/ a[l] + v[l] <= a[k]
  <2>1. SUFFICES ASSUME NEW k \in L, NEW l \in L, k # l PROVE Earlier(k, l) \/ Earlier(l, k)
    BY <1>5
  <2>2. k.receipt # l.receipt /\ k.receipt \in Nat /\ l.receipt \in Nat /\ k.opened \in Int /\ l.opened \in Int
    BY <2>1 DEF OneEach, LotType
  <2>3. QED
    BY <2>2 DEF Earlier
<1>7. \A l \in L : c[l] = Share(n, a[l], v[l])
  BY DEF TakenFrom, Share
<1>8. Total(c, L) = n
  <2> HIDE DEF v, a, c
  <2>1. n <= Total(v, L)
    BY <1>3
  <2>2. \A l \in L : v[l] \in Nat
    BY <1>1
  <2>3. \A l \in L : a[l] \in Nat /\ a[l] + v[l] <= Total(v, L)
    BY <1>2, <1>3, <1>4
  <2>4. QED
    BY <2>1, <2>2, <2>3, <1>6, <1>7, QueueGives
<1>9. ASSUME NEW l \in L PROVE TakenFrom(L, n, l) \in 0..l.left
  <2>1. c[l] = Share(n, a[l], v[l]) /\ a[l] \in Nat /\ v[l] \in Nat /\ v[l] = l.left
    BY <1>1, <1>2, <1>7
  <2>2. c[l] = TakenFrom(L, n, l)
    OBVIOUS
  <2> HIDE DEF a, v, c
  <2>3. QED
    BY <2>1, <2>2 DEF Share
<1>10. ASSUME NEW l \in L
       PROVE  /\ g[l] \in LotType /\ g[l].receipt = l.receipt /\ g[l].left = l.left - TakenFrom(L, n, l)
              /\ c[l] \in Nat /\ r[l] \in Nat /\ v[l] = r[l] + c[l]
  <2>1. TakenFrom(L, n, l) \in 0..l.left /\ l \in LotType /\ l.left \in Nat
    BY <1>9 DEF LotType
  <2> DEFINE d == TakenFrom(L, n, l)
  <2>2. g[l] = LotAfter(l, d) /\ c[l] = d /\ r[l] = l.left - d /\ v[l] = l.left
    OBVIOUS
  <2> HIDE DEF d, g, c, r, v
  <2>3. d \in 0..l.left
    BY <2>1 DEF d
  <2>4. QED
    BY <2>1, <2>2, <2>3, LotLeft DEF d
<1>11. g \in Bijection(L, T)
  <2>1. g \in [L -> T] /\ \A y \in T : \E l \in L : g[l] = y
    BY DEF Taken
  <2>2. \A k, l \in L : g[k] = g[l] => k = l
    BY <1>10 DEF OneEach
  <2> HIDE DEF g, T
  <2>3. QED
    BY <2>1, <2>2 DEF Bijection, Injection, Surjection, IsInjective
<1>12. IsFiniteSet(T) /\ T \subseteq LotType
  <2>1. \A y \in T : y \in LotType
    BY <1>10 DEF Taken
  <2> HIDE DEF g, T
  <2>2. IsFiniteSet(T)
    BY <1>11, FS_Bijection DEF ExistsBijection
  <2>3. QED
    BY <2>1, <2>2
<1>13. Total(r, L) = Total(w, T)
  <2>1. \A l \in L : g[l] \in T
    BY DEF Taken
  <2>2. \A l \in L : r[l] \in Nat /\ w[g[l]] = r[l]
    <3>1. ASSUME NEW l \in L PROVE w[g[l]] = r[l]
      <4>1. w[g[l]] = g[l].left
        <5> HIDE DEF g, T
        <5>1. QED
          BY <2>1
      <4>2. r[l] = l.left - TakenFrom(L, n, l)
        OBVIOUS
      <4>3. QED
        BY <4>1, <4>2, <1>10
    <3>2. QED
      BY <3>1, <1>10
  <2> HIDE DEF r, w, g, T
  <2>3. QED
    BY <2>2, <1>11, TotalOfImage
<1>14. Total(v, L) = Total(r, L) + Total(c, L)
  <2> HIDE DEF v, r, c
  <2>1. QED
    BY <1>10, TotalOfSums
<1>15. Total(r, L) \in Nat
  <2> HIDE DEF r
  <2>1. QED
    BY <1>10, UnitsFinite
<1>16. Left(T) = Total(w, T)
  BY DEF Left
<1>17. QED
  <2>1. Left(T) = Left(L) - n
    <3> HIDE DEF v, r, c, w, T
    <3>1. QED
      BY <1>3, <1>8, <1>13, <1>14, <1>15, <1>16
  <2>2. QED
    BY <2>1, <1>9, <1>12


\* What the receipts of a set add up to.
In == [r \in Receipts |-> IF r.delta > 0 THEN r.delta ELSE 0]
Out == [r \in Receipts |-> IF r.delta < 0 THEN -r.delta ELSE 0]

LEMMA Deltas ==
    /\ \A r \in Receipts : In[r] \in Nat /\ Out[r] \in Nat /\ In[r] - Out[r] = r.delta
    /\ \A r \in Receipts : r.delta \in Int
<1>1. \A r \in Receipts : r.delta \in Int
  BY WalletAssumption
<1>2. QED
  BY <1>1 DEF In, Out

LEMMA SumIs ==
    ASSUME NEW S, IsFiniteSet(S), S \subseteq Receipts
    PROVE  /\ Total(In, S) \in Nat /\ Total(Out, S) \in Nat
           /\ Sum(S) = Total(In, S) - Total(Out, S) /\ Sum(S) \in Int
<1> DEFINE v == [r \in S |-> r.delta]
<1>1. \A r \in S : In[r] \in Nat /\ Out[r] \in Nat
  BY Deltas
<1>2. Total(In, S) \in Nat /\ Total(Out, S) \in Nat
  BY <1>1, UnitsFinite
<1>3. Total(Gains(v, S), S) = Total(In, S)
  <2>1. \A r \in S : Gains(v, S)[r] = In[r]
    BY DEF Gains, In
  <2> HIDE DEF v
  <2>2. QED
    BY <2>1, TotalSame
<1>4. Total(Losses(v, S), S) = Total(Out, S)
  <2>1. \A r \in S : Losses(v, S)[r] = Out[r]
    BY DEF Losses, Out
  <2> HIDE DEF v
  <2>2. QED
    BY <2>1, TotalSame
<1>5. Sum(S) = Total(Gains(v, S), S) - Total(Losses(v, S), S)
  BY DEF Sum, Net
<1>6. QED
  <2> HIDE DEF v
  <2>1. QED
    BY <1>2, <1>3, <1>4, <1>5

LEMMA SumOfNone == Sum({}) = 0
<1>1. IsFiniteSet({})
  BY FS_EmptySet
<1>2. Total(In, {}) = 0 /\ Total(Out, {}) = 0
  BY TotalOfNone
<1>3. QED
  BY <1>1, <1>2, SumIs

LEMMA SumAdds ==
    ASSUME NEW S, IsFiniteSet(S), S \subseteq Receipts, NEW r \in Receipts, r \notin S
    PROVE  Sum(S \union {r}) = Sum(S) + r.delta /\ IsFiniteSet(S \union {r})
<1>1. IsFiniteSet(S \union {r})
  BY FS_AddElement
<1>2. \A q \in S \union {r} : In[q] \in Nat /\ Out[q] \in Nat
  BY Deltas
<1>3. /\ Total(In, S \union {r}) = Total(In, S) + In[r]
      /\ Total(Out, S \union {r}) = Total(Out, S) + Out[r]
  BY <1>2, TotalAdds
<1>4. /\ Sum(S) = Total(In, S) - Total(Out, S)
      /\ Total(In, S) \in Nat /\ Total(Out, S) \in Nat
  BY SumIs
<1>5. Sum(S \union {r}) = Total(In, S \union {r}) - Total(Out, S \union {r})
  <2>1. S \union {r} \subseteq Receipts
    OBVIOUS
  <2>2. QED
    BY <2>1, <1>1, SumIs
<1>6. In[r] \in Nat /\ Out[r] \in Nat /\ In[r] - Out[r] = r.delta
  BY Deltas
<1>7. QED
  BY <1>1, <1>3, <1>4, <1>5, <1>6

LEMMA LeftOfUnion ==
    ASSUME NEW A, NEW B, IsFiniteSet(A), IsFiniteSet(B), A \subseteq LotType, B \subseteq LotType,
           A \cap B = {}
    PROVE  /\ Left(A \union B) = Left(A) + Left(B)
           /\ Left(A) \in Nat /\ Left(B) \in Nat
<1> DEFINE M == A \union B
           v == [l \in M |-> l.left]
<1>1. IsFiniteSet(M) /\ M \subseteq LotType
  BY FS_Union
<1>2. /\ Left(A) = Total(v, A) /\ Left(B) = Total(v, B) /\ Left(M) = Total(v, M)
      /\ Left(A) \in Nat /\ Left(B) \in Nat
  <2>1. A \subseteq M /\ B \subseteq M
    OBVIOUS
  <2> HIDE DEF M
  <2>2. QED
    BY <2>1, <1>1, LeftIs
<1>3. \A l \in M : v[l] \in Nat
  BY DEF LotType
<1>4. Total(v, A \union B) = Total(v, A) + Total(v, B)
  <2> HIDE DEF v
  <2>1. QED
    BY <1>3, TotalOfUnion
<1>5. QED
  BY <1>2, <1>4

LEMMA LeftOfOne == ASSUME NEW l \in LotType PROVE Left({l}) = l.left
<1> DEFINE v == [k \in {l} |-> k.left]
<1>1. IsFiniteSet({}) /\ Total(v, {}) = 0 /\ v[l] = l.left /\ l.left \in Nat
  BY FS_EmptySet, TotalOfNone DEF LotType
<1>2. Total(v, {} \union {l}) = Total(v, {}) + v[l]
  <2> HIDE DEF v
  <2>1. QED
    BY <1>1, TotalAdds
<1>3. {} \union {l} = {l}
  OBVIOUS
<1>4. QED
  BY <1>1, <1>2, <1>3 DEF Left

-----------------------------------------------------------------------------
(* A receipt is booked.                                                    *)

By(L, s) == {l \in L : l.strategy = s}
From(S, s) == {r \in S : r.strategy = s}

\* A holding and its lots are those of a set of receipts.
LotBacked(l, S) ==
    /\ \E r \in S : r.id = l.receipt /\ r.delta = l.acquired
    /\ l.left <= l.acquired
    /\ l.status = "closed" <=> l.left = 0

Backed(h, L, S) ==
    /\ IsFiniteSet(S) /\ S \subseteq Receipts
    /\ IsFiniteSet(L) /\ L \subseteq LotType /\ OneEach(L)
    /\ h \in Int \union {NoHolding} /\ Amount(h) = Sum(S)
    /\ \A s \in Strategies \ {NoStrategy} : Left(By(L, s)) = Sum(From(S, s))
    /\ \A l \in L : LotBacked(l, S)

\* A booked receipt is one more of its strategy's.
LEMMA FromMore ==
    ASSUME NEW S, IsFiniteSet(S), S \subseteq Receipts, NEW r \in Receipts, r \notin S, NEW s
    PROVE  Sum(From(S \union {r}, s)) =
               IF r.strategy = s THEN Sum(From(S, s)) + r.delta ELSE Sum(From(S, s))
<1>1. /\ From(S, s) \subseteq Receipts /\ IsFiniteSet(From(S, s)) /\ r \notin From(S, s)
  BY FS_Subset DEF From
<1>2. CASE r.strategy = s
  <2>1. From(S \union {r}, s) = From(S, s) \union {r}
    BY <1>2 DEF From
  <2>2. QED
    BY <2>1, <1>1, <1>2, SumAdds
<1>3. CASE r.strategy # s
  <2>1. From(S \union {r}, s) = From(S, s)
    BY <1>3 DEF From
  <2>2. QED
    BY <2>1, <1>3
<1>4. QED
  BY <1>2, <1>3

\* No lot is of a receipt that is not booked.
LEMMA NotYetBought ==
    ASSUME NEW h, NEW L, NEW S, Backed(h, L, S), NEW r \in Receipts, r \notin S
    PROVE  \A l \in L : l.receipt # r.id
  BY WalletAssumption DEF Backed, LotBacked

LEMMA BuyBacked ==
    ASSUME NEW h, NEW L, NEW S, Backed(h, L, S), NEW r \in Receipts, r \notin S,
           r.delta > 0, r.strategy # NoStrategy
    PROVE  LET K == L \union {NewLot(r)} IN
           /\ IsFiniteSet(K) /\ K \subseteq LotType /\ OneEach(K)
           /\ \A s \in Strategies \ {NoStrategy} : Left(By(K, s)) = Sum(From(S \union {r}, s))
           /\ \A l \in K : LotBacked(l, S \union {r})
<1> DEFINE m == NewLot(r)
           K == L \union {m}
<1>1. /\ m \in LotType /\ m.receipt = r.id /\ m.strategy = r.strategy /\ m.left = r.delta
      /\ m.acquired = r.delta /\ m.status = "open"
  <2>1. r.id \in Nat /\ r.delta \in Nat /\ r.opened \in Int /\ r.strategy \in Strategies
    BY WalletAssumption DEF Strategies
  <2>2. QED
    BY <2>1 DEF NewLot, LotType
<1>2. \A l \in L : l.receipt # r.id
  BY NotYetBought
<1>3. IsFiniteSet(K) /\ K \subseteq LotType
  BY <1>1, FS_AddElement DEF Backed
<1>4. OneEach(K)
  BY <1>1, <1>2 DEF OneEach, Backed
<1>5. ASSUME NEW s \in Strategies \ {NoStrategy}
      PROVE  Left(By(K, s)) = Sum(From(S \union {r}, s))
  <2>1. Left(By(L, s)) = Sum(From(S, s)) /\ IsFiniteSet(By(L, s)) /\ By(L, s) \subseteq LotType
    BY FS_Subset DEF Backed, By
  <2>2. CASE r.strategy = s
    <3>1. By(K, s) = By(L, s) \union {m} /\ By(L, s) \cap {m} = {}
      <4> HIDE DEF m
      <4>1. QED
        BY <1>1, <1>2, <2>2 DEF By
    <3>2. IsFiniteSet({m}) /\ {m} \subseteq LotType
      BY <1>1, FS_Singleton
    <3>3. Left(By(L, s) \union {m}) = Left(By(L, s)) + Left({m})
      <4> HIDE DEF m
      <4>1. QED
        BY <2>1, <3>1, <3>2, LeftOfUnion
    <3>4. Left({m}) = r.delta
      <4> HIDE DEF m
      <4>1. QED
        BY <1>1, LeftOfOne
    <3>5. Sum(From(S \union {r}, s)) = Sum(From(S, s)) + r.delta
      BY <2>2, FromMore DEF Backed
    <3>6. QED
      BY <2>1, <3>1, <3>3, <3>4, <3>5
  <2>3. CASE r.strategy # s
    <3>1. By(K, s) = By(L, s)
      BY <1>1, <2>3 DEF By
    <3>2. QED
      BY <2>1, <2>3, <3>1, FromMore DEF Backed
  <2>4. QED
    BY <2>2, <2>3
<1>6. ASSUME NEW l \in K PROVE LotBacked(l, S \union {r})
  <2>1. CASE l \in L
    BY <2>1 DEF Backed, LotBacked
  <2>2. CASE l = m
    <3> HIDE DEF m
    <3>1. r.delta \in Int
      BY Deltas
    <3>2. QED
      BY <1>1, <2>2, <3>1 DEF LotBacked
  <2>3. QED
    BY <2>1, <2>2
<1>7. QED
  <2> HIDE DEF m
  <2>1. QED
    BY <1>3, <1>4, <1>5, <1>6 DEF m


LEMMA SaleBacked ==
    ASSUME NEW h, NEW L, NEW S, Backed(h, L, S), NEW r \in Receipts, r \notin S,
           r.delta < 0, r.strategy # NoStrategy,
           NEW O, \A l : l \in O <=> l \in L /\ l.strategy = r.strategy /\ l.status = "open",
           Left(O) >= -r.delta
    PROVE  LET K == (L \ O) \union Taken(O, -r.delta) IN
           /\ IsFiniteSet(K) /\ K \subseteq LotType /\ OneEach(K)
           /\ \A s \in Strategies \ {NoStrategy} : Left(By(K, s)) = Sum(From(S \union {r}, s))
           /\ \A l \in K : LotBacked(l, S \union {r})
<1> DEFINE n == -r.delta
           T == Taken(O, n)
           K == (L \ O) \union T
<1>1. /\ O \subseteq L /\ O \subseteq LotType /\ OneEach(O) /\ IsFiniteSet(O)
      /\ IsFiniteSet(L) /\ L \subseteq LotType /\ OneEach(L) /\ IsFiniteSet(L \ O)
      /\ IsFiniteSet(S) /\ S \subseteq Receipts
  BY FS_Subset DEF Backed, OneEach
<1>2. n \in Nat /\ n <= Left(O) /\ r.delta \in Int
  BY Deltas
<1>3. /\ \A l \in O : TakenFrom(O, n, l) \in 0..l.left
      /\ IsFiniteSet(T) /\ T \subseteq LotType
      /\ Left(T) = Left(O) - n /\ Left(O) \in Nat
  <2>1. Left(O) \in Nat
    BY <1>1, LeftIs
  <2> HIDE DEF n
  <2>2. QED
    BY <1>1, <1>2, <2>1, SaleTakes
<1>4. ASSUME NEW k \in T
      PROVE  \E l \in O : /\ k = LotAfter(l, TakenFrom(O, n, l))
                          /\ k.receipt = l.receipt /\ k.strategy = r.strategy
                          /\ k.acquired = l.acquired /\ k.left <= l.left
                          /\ k.status = "closed" <=> k.left = 0
  <2>1. PICK l \in O : k = LotAfter(l, TakenFrom(O, n, l))
    BY DEF Taken
  <2>2. TakenFrom(O, n, l) \in 0..l.left /\ l \in LotType /\ l.left \in Nat /\ l.strategy = r.strategy
    BY <1>1, <1>3 DEF LotType
  <2> DEFINE c == TakenFrom(O, n, l)
  <2>3. /\ k.receipt = l.receipt /\ k.strategy = l.strategy
        /\ k.acquired = l.acquired /\ k.left = l.left - c
        /\ k.status = "closed" <=> k.left = 0
    <3>1. k = LotAfter(l, c) /\ c \in 0..l.left
      BY <2>1, <2>2
    <3> HIDE DEF c
    <3>2. QED
      BY <3>1, <2>2, LotLeft
  <2>4. l.left - c <= l.left
    <3>1. c \in 0..l.left
      BY <2>2
    <3> HIDE DEF c
    <3>2. QED
      BY <3>1, <2>2
  <2>5. QED
    BY <2>1, <2>2, <2>3, <2>4
<1>5. IsFiniteSet(K) /\ K \subseteq LotType
  <2> HIDE DEF T
  <2>1. IsFiniteSet(K)
    BY <1>1, <1>3, FS_Union
  <2>2. QED
    BY <2>1, <1>1, <1>3
<1>6. OneEach(K)
  <2>1. SUFFICES ASSUME NEW k \in K, NEW l \in K, k.receipt = l.receipt PROVE k = l
    BY DEF OneEach
  <2> HIDE DEF T, n
  <2>2. CASE k \in L \ O /\ l \in L \ O
    BY <2>1, <2>2, <1>1 DEF OneEach
  <2>3. CASE k \in T /\ l \in T
    <3>1. PICK i \in O : k = LotAfter(i, TakenFrom(O, n, i)) /\ k.receipt = i.receipt
      BY <2>3, <1>4
    <3>2. PICK j \in O : l = LotAfter(j, TakenFrom(O, n, j)) /\ l.receipt = j.receipt
      BY <2>3, <1>4
    <3>3. i = j
      BY <2>1, <3>1, <3>2, <1>1 DEF OneEach
    <3>4. QED
      BY <3>1, <3>2, <3>3
  <2>4. CASE k \in L \ O /\ l \in T
    <3>1. PICK j \in O : l.receipt = j.receipt
      BY <2>4, <1>4
    <3>2. QED
      BY <2>1, <2>4, <3>1, <1>1 DEF OneEach
  <2>5. CASE k \in T /\ l \in L \ O
    <3>1. PICK j \in O : k.receipt = j.receipt
      BY <2>5, <1>4
    <3>2. QED
      BY <2>1, <2>5, <3>1, <1>1 DEF OneEach
  <2>6. QED
    BY <2>2, <2>3, <2>4, <2>5
<1>7. ASSUME NEW s \in Strategies \ {NoStrategy}
      PROVE  Left(By(K, s)) = Sum(From(S \union {r}, s))
  <2>1. Left(By(L, s)) = Sum(From(S, s))
    BY DEF Backed
  <2>2. CASE r.strategy = s
    <3> DEFINE rest == By(L, s) \ O
    <3>1. By(K, s) = rest \union T /\ By(L, s) = rest \union O
      <4> HIDE DEF n
      <4>1. \A k \in T : k.strategy = s
        BY <2>2, <1>4
      <4>2. \A k \in O : k.strategy = s
        BY <2>2
      <4> HIDE DEF T
      <4>3. QED
        BY <4>1, <4>2, <1>1 DEF By
    <3>2. rest \subseteq LotType /\ IsFiniteSet(rest) /\ rest \cap O = {}
      BY <1>1, FS_Subset DEF By
    <3>3. rest \cap T = {}
      <4>1. SUFFICES ASSUME NEW k \in rest, k \in T PROVE FALSE
        OBVIOUS
      <4> HIDE DEF T, n
      <4>2. PICK l \in O : k.receipt = l.receipt
        BY <4>1, <1>4
      <4>3. k \in L
        BY DEF By
      <4>4. QED
        BY <4>1, <4>2, <4>3, <1>1, <3>2 DEF OneEach
    <3> HIDE DEF rest, T, n
    <3>4. Left(rest \union T) = Left(rest) + Left(T) /\ Left(rest) \in Nat
      BY <3>2, <3>3, <1>3, LeftOfUnion
    <3>5. Left(rest \union O) = Left(rest) + Left(O)
      BY <3>2, <1>1, LeftOfUnion
    <3>6. Sum(From(S \union {r}, s)) = Sum(From(S, s)) + r.delta
      BY <2>2, <1>1, FromMore
    <3>7. n = -r.delta
      BY DEF n
    <3>8. Left(T) = Left(O) - n /\ Left(O) \in Nat /\ n \in Nat /\ r.delta = -n
      BY <1>2, <1>3, <3>7
    <3>9. Left(By(K, s)) = Left(rest) + Left(T) /\ Left(By(L, s)) = Left(rest) + Left(O)
      BY <3>1, <3>4, <3>5
    <3>10. Left(By(K, s)) = Left(By(L, s)) + r.delta
      <4> HIDE DEF K
      <4>1. QED
        BY <3>4, <3>8, <3>9
    <3>11. QED
      BY <2>1, <3>6, <3>10
  <2>3. CASE r.strategy # s
    <3>1. By(K, s) = By(L, s)
      <4> HIDE DEF n
      <4>1. \A k \in T : k.strategy # s
        BY <2>3, <1>4
      <4>2. \A k \in O : k.strategy # s
        BY <2>3
      <4> HIDE DEF T
      <4>3. QED
        BY <4>1, <4>2, <1>1 DEF By
    <3>2. Sum(From(S \union {r}, s)) = Sum(From(S, s))
      BY <2>3, <1>1, FromMore
    <3>3. QED
      BY <2>1, <3>1, <3>2
  <2>4. QED
    BY <2>2, <2>3
<1>8. ASSUME NEW k \in K PROVE LotBacked(k, S \union {r})
  <2>1. CASE k \in L \ O
    BY <2>1 DEF Backed, LotBacked
  <2>2. CASE k \in T
    <3> HIDE DEF T, n
    <3>1. PICK l \in O : /\ k.receipt = l.receipt /\ k.acquired = l.acquired /\ k.left <= l.left
                         /\ k.status = "closed" <=> k.left = 0
      BY <2>2, <1>4
    <3>2. LotBacked(l, S) /\ l \in LotType /\ k \in LotType
      BY <2>2, <1>1, <1>3 DEF Backed
    <3>3. k.left <= k.acquired
      BY <3>1, <3>2 DEF LotBacked, LotType
    <3>4. QED
      BY <3>1, <3>2, <3>3 DEF LotBacked
  <2>3. QED
    BY <2>1, <2>2
<1>9. QED
  <2> HIDE DEF T, n
  <2>1. QED
    BY <1>5, <1>6, <1>7, <1>8 DEF T, n

\* A confirmed receipt is added to what backs the holding.
LEMMA ReceiptBacked ==
    ASSUME NEW r \in Receipts, NEW S, r \notin S,
           Backed(holding[r.token], lots[r.token], S),
           r.strategy # NoStrategy /\ r.delta < 0 => Left(OpenLots(r)) >= -r.delta
    PROVE  Backed(Quantity(r.token) + r.delta, Allocated(r), S \union {r})
<1> DEFINE L == lots[r.token]
           h == holding[r.token]
           N == S \union {r}
<1>1. r.delta \in Int /\ IsFiniteSet(S) /\ S \subseteq Receipts /\ N \subseteq Receipts
  BY Deltas DEF Backed
<1>2. IsFiniteSet(N) /\ Sum(N) = Sum(S) + r.delta /\ Sum(S) \in Int
  BY <1>1, SumAdds, SumIs
<1>3. /\ Quantity(r.token) + r.delta \in Int
      /\ Amount(Quantity(r.token) + r.delta) = Sum(N)
  <2>1. Quantity(r.token) = Sum(S)
    BY DEF Quantity, Backed
  <2>2. \A x \in Int : Amount(x) = x
    BY WalletAssumption DEF Amount
  <2>3. QED
    BY <2>1, <2>2, <1>1, <1>2
<1>4. /\ IsFiniteSet(Allocated(r)) /\ Allocated(r) \subseteq LotType /\ OneEach(Allocated(r))
      /\ \A s \in Strategies \ {NoStrategy} : Left(By(Allocated(r), s)) = Sum(From(N, s))
      /\ \A l \in Allocated(r) : LotBacked(l, N)
  <2>1. CASE r.strategy = NoStrategy \/ r.delta = 0
    <3>1. Allocated(r) = L
      BY <2>1 DEF Allocated
    <3>2. ASSUME NEW s \in Strategies \ {NoStrategy} PROVE Sum(From(N, s)) = Sum(From(S, s))
      <4>1. From(S, s) \subseteq Receipts /\ IsFiniteSet(From(S, s))
        BY <1>1, FS_Subset DEF From
      <4>2. Sum(From(S, s)) \in Int
        BY <4>1, SumIs
      <4>3. QED
        BY <2>1, <4>2, <1>1, FromMore
    <3>3. \A l \in L : LotBacked(l, N)
      BY DEF Backed, LotBacked
    <3>4. QED
      BY <3>1, <3>2, <3>3 DEF Backed
  <2>2. CASE r.strategy # NoStrategy /\ r.delta > 0
    <3>1. Allocated(r) = L \union {NewLot(r)}
      BY <2>2, <1>1 DEF Allocated
    <3> DEFINE K == L \union {NewLot(r)}
    <3>2. Backed(h, L, S)
      OBVIOUS
    <3> HIDE DEF h, L
    <3>3. /\ IsFiniteSet(K) /\ K \subseteq LotType /\ OneEach(K)
          /\ \A s \in Strategies \ {NoStrategy} : Left(By(K, s)) = Sum(From(S \union {r}, s))
          /\ \A l \in K : LotBacked(l, S \union {r})
      BY <2>2, <3>2, BuyBacked
    <3> HIDE DEF K
    <3>4. Allocated(r) = K
      BY <3>1 DEF K
    <3>5. QED
      BY <3>3, <3>4
  <2>3. CASE r.strategy # NoStrategy /\ r.delta < 0
    <3>1. Allocated(r) = (L \ OpenLots(r)) \union Taken(OpenLots(r), -r.delta)
      BY <2>3, <1>1 DEF Allocated
    <3>2. OpenLots(r) = {l \in L : l.strategy = r.strategy /\ l.status = "open"}
      BY DEF OpenLots
    <3> DEFINE O == OpenLots(r)
               K == (L \ O) \union Taken(O, -r.delta)
    <3>3. Backed(h, L, S) /\ Left(O) >= -r.delta
      BY <2>3
    <3> HIDE DEF h, L, O
    <3>4. \A l : l \in O <=> l \in L /\ l.strategy = r.strategy /\ l.status = "open"
      BY <3>2 DEF O
    <3>5. /\ IsFiniteSet(K) /\ K \subseteq LotType /\ OneEach(K)
          /\ \A s \in Strategies \ {NoStrategy} : Left(By(K, s)) = Sum(From(S \union {r}, s))
          /\ \A l \in K : LotBacked(l, S \union {r})
      BY <2>3, <3>3, <3>4, SaleBacked
    <3>6. Allocated(r) = K
      BY <3>1 DEF O
    <3> HIDE DEF K
    <3>7. QED
      BY <3>5, <3>6
  <2>4. QED
    BY <2>1, <2>2, <2>3, <1>1
<1>5. QED
  BY <1>1, <1>2, <1>3, <1>4 DEF Backed


-----------------------------------------------------------------------------
(* What was there before each receipt.                                     *)

WalletTypes ==
    /\ receiptStatus \in [Receipts -> {"new", "confirmed", "failed", "reorged"}]
    /\ before = [r \in Receipts |-> before[r]]
    /\ holding = [t \in WalletTokens |-> holding[t]]
    /\ lots = [t \in WalletTokens |-> lots[t]]
    /\ order \in [WalletTokens -> Seq(Receipts)]

At(t, i) == order[t][i]
Places(t) == 1..Len(order[t])

\* The journal of a token has the receipts that were applied, each once.
Journalled ==
    /\ \A t \in WalletTokens : \A i \in Places(t) :
          /\ At(t, i).token = t /\ receiptStatus[At(t, i)] # "new"
          /\ \A j \in Places(t) : At(t, i) = At(t, j) => i = j
    /\ \A r \in Receipts : receiptStatus[r] # "new" =>
          \E i \in Places(r.token) : At(r.token, i) = r

StandingBefore(t, i) ==
    {r \in Receipts : receiptStatus[r] = "confirmed" /\ \E j \in Places(t) : j < i /\ At(t, j) = r}

\* What the wallet holds is backed by the receipts that stand, and what each receipt that
\* was not reversed has kept, by those of them that came before it.
TokenBacked(t) ==
    /\ Backed(holding[t], lots[t], Standing(t))
    /\ \A i \in Places(t) :
          LET r == At(t, i) IN
          receiptStatus[r] # "reorged" =>
              Backed(before[r].holding, before[r].lots, StandingBefore(t, i))

WalletInv ==
    /\ WalletTypes /\ Journalled
    /\ \A t \in WalletTokens \ disordered : TokenBacked(t)

LEMMA NothingBacked == Backed(NoHolding, {}, {})
<1>1. IsFiniteSet({})
  BY FS_EmptySet
<1>2. \A s : By({}, s) = {} /\ From({}, s) = {}
  BY DEF By, From
<1>3. Left({}) = 0
  BY TotalOfNone DEF Left
<1>4. QED
  BY <1>1, <1>2, <1>3, SumOfNone DEF Backed, OneEach, Amount

LEMMA WalletAtFirst == WalletInit => WalletInv
<1> SUFFICES ASSUME WalletInit PROVE WalletInv
  OBVIOUS
<1>1. WalletTypes /\ \A t \in WalletTokens : Places(t) = {}
  BY DEF WalletInit, WalletTypes, Places
<1>2. Journalled
  BY <1>1 DEF WalletInit, Journalled
<1>3. ASSUME NEW t \in WalletTokens PROVE TokenBacked(t)
  <2>1. Standing(t) = {} /\ holding[t] = NoHolding /\ lots[t] = {}
    BY DEF WalletInit, Standing
  <2>2. QED
    BY <2>1, <1>1, NothingBacked DEF TokenBacked
<1>4. QED
  BY <1>1, <1>2, <1>3 DEF WalletInv

LEMMA ApplyJournals ==
    ASSUME WalletInv, NEW r \in Receipts, ApplyChainReceipt(r)
    PROVE  /\ WalletTypes' /\ Journalled'
           /\ r.token \in WalletTokens
           /\ \A t \in WalletTokens : t # r.token => order'[t] = order[t]
           /\ Len(order'[r.token]) = Len(order[r.token]) + 1
           /\ \A i \in Places(r.token) : order'[r.token][i] = At(r.token, i)
           /\ order'[r.token][Len(order[r.token]) + 1] = r
           /\ \A t \in WalletTokens : \A i \in Places(t) : At(t, i) # r
<1> DEFINE k == r.token
<1> PICK n : n = Len(order[k])
  OBVIOUS
<1>1. /\ k \in WalletTokens /\ receiptStatus[r] = "new" /\ r.status \in {"confirmed", "failed"}
      /\ order \in [WalletTokens -> Seq(Receipts)] /\ order[k] \in Seq(Receipts) /\ n \in Nat
  BY WalletAssumption DEF WalletTokens, ApplyChainReceipt, WalletInv, WalletTypes
<1>2. order' = [order EXCEPT ![k] = Append(order[k], r)]
  BY DEF ApplyChainReceipt
<1>3. /\ order' \in [WalletTokens -> Seq(Receipts)]
      /\ \A t \in WalletTokens : t # k => order'[t] = order[t]
      /\ order'[k] = Append(order[k], r)
  BY <1>1, <1>2
<1>4. /\ Len(order'[k]) = n + 1 /\ order'[k][n + 1] = r
      /\ \A i \in 1..n : order'[k][i] = order[k][i]
  BY <1>1, <1>3
<1>5. WalletTypes'
  <2>1. receiptStatus' \in [Receipts -> {"new", "confirmed", "failed", "reorged"}]
    BY <1>1 DEF ApplyChainReceipt, WalletInv, WalletTypes
  <2>2. before' = [q \in Receipts |-> before'[q]]
    BY DEF ApplyChainReceipt, WalletInv, WalletTypes
  <2>3. /\ holding' = [t \in WalletTokens |-> holding'[t]]
        /\ lots' = [t \in WalletTokens |-> lots'[t]]
    BY DEF ApplyChainReceipt, WalletInv, WalletTypes
  <2>4. QED
    BY <2>1, <2>2, <2>3, <1>3 DEF WalletTypes
<1>6. \A t \in WalletTokens : \A i \in Places(t) : At(t, i) # r
  BY <1>1 DEF WalletInv, Journalled
<1>7. /\ receiptStatus'[r] = r.status
      /\ \A q \in Receipts : q # r => receiptStatus'[q] = receiptStatus[q]
  BY DEF ApplyChainReceipt, WalletInv, WalletTypes
<1>8. \A t \in WalletTokens : \A i \in Places(t) : At(t, i) \in Receipts
  BY <1>1 DEF Places, At
<1>9. ASSUME NEW t \in WalletTokens, NEW i \in Places(t)'
      PROVE  /\ At(t, i)'.token = t /\ receiptStatus'[At(t, i)'] # "new"
             /\ \A j \in Places(t)' : At(t, i)' = At(t, j)' => i = j
  <2>1. CASE t # k
    <3>1. order'[t] = order[t]
      BY <2>1, <1>3
    <3>2. Places(t)' = Places(t) /\ \A j \in Places(t) : At(t, j)' = At(t, j)
      BY <3>1 DEF Places, At
    <3>3. i \in Places(t) /\ At(t, i) \in Receipts /\ At(t, i) # r
      BY <3>2, <1>6, <1>8
    <3>4. receiptStatus'[At(t, i)] = receiptStatus[At(t, i)]
      BY <3>3, <1>7
    <3>5. QED
      BY <3>2, <3>3, <3>4 DEF WalletInv, Journalled
  <2>2. CASE t = k
    <3>1. Places(k)' = 1..(n + 1) /\ Places(k) = 1..n
      BY <1>4 DEF Places
    <3>2. \A j \in 1..n : At(k, j)' = At(k, j) /\ At(k, j) # r /\ At(k, j) \in Receipts
      BY <3>1, <1>1, <1>4, <1>6, <1>8 DEF At
    <3>3. At(k, n + 1)' = r
      BY <1>4 DEF At
    <3>4. CASE i = n + 1
      <4>1. \A j \in Places(k)' : j = n + 1 \/ j \in 1..n
        BY <3>1, <1>1
      <4>2. \A j \in Places(k)' : At(k, i)' = At(k, j)' => i = j
        BY <4>1, <3>2, <3>3, <3>4
      <4>3. receiptStatus'[r] # "new"
        BY <1>1, <1>7
      <4>4. QED
        BY <4>2, <4>3, <3>3, <3>4, <2>2
    <3>5. CASE i \in 1..n
      <4>1. /\ At(k, i)' = At(k, i) /\ At(k, i) # r /\ At(k, i) \in Receipts
        BY <3>2, <3>5
      <4>2. /\ At(k, i).token = k /\ receiptStatus[At(k, i)] # "new"
            /\ \A j \in 1..n : At(k, i) = At(k, j) => i = j
        BY <3>1, <3>5, <1>1 DEF WalletInv, Journalled
      <4>3. \A j \in Places(k)' : j = n + 1 \/ j \in 1..n
        BY <3>1, <1>1
      <4>4. \A j \in Places(k)' : At(k, i)' = At(k, j)' => i = j
        BY <4>1, <4>2, <4>3, <3>2, <3>3
      <4>5. receiptStatus'[At(k, i)] # "new"
        BY <4>1, <4>2, <1>7
      <4>6. QED
        BY <4>1, <4>2, <4>4, <4>5, <2>2
    <3>6. QED
      BY <3>1, <3>4, <3>5, <2>2, <1>1
  <2>3. QED
    BY <2>1, <2>2
<1>10. ASSUME NEW q \in Receipts, receiptStatus'[q] # "new"
       PROVE  \E i \in Places(q.token)' : At(q.token, i)' = q
  <2>1. CASE q = r
    BY <2>1, <1>1, <1>4 DEF Places, At
  <2>2. CASE q # r
    <3>1. receiptStatus[q] # "new"
      BY <2>2, <1>7, <1>10
    <3>2. PICK i \in Places(q.token) : At(q.token, i) = q
      BY <3>1 DEF WalletInv, Journalled
    <3>3. q.token \in WalletTokens
      BY DEF WalletTokens
    <3>4. i \in Places(q.token)' /\ At(q.token, i)' = At(q.token, i)
      <4>1. CASE q.token # k
        BY <4>1, <3>2, <3>3, <1>3 DEF Places, At
      <4>2. CASE q.token = k
        BY <4>2, <3>2, <1>1, <1>4 DEF Places, At
      <4>3. QED
        BY <4>1, <4>2
    <3>5. QED
      BY <3>2, <3>4
  <2>3. QED
    BY <2>1, <2>2
<1>11. Journalled'
  BY <1>9, <1>10 DEF Journalled
<1>12. QED
  BY <1>1, <1>3, <1>4, <1>5, <1>6, <1>11 DEF Places, At


LEMMA ApplyKeepsBacking ==
    ASSUME WalletInv, NEW r \in Receipts, ApplyChainReceipt(r),
           NEW t \in WalletTokens \ disordered
    PROVE  TokenBacked(t)'
<1> PICK n : n = Len(order[t])
  OBVIOUS
<1>1. /\ TokenBacked(t) /\ WalletTypes /\ Journalled
      /\ receiptStatus[r] = "new" /\ r.status \in {"confirmed", "failed"}
      /\ order[t] \in Seq(Receipts) /\ n \in Nat /\ Places(t) = 1..n
      /\ \A i \in 1..n : At(t, i) \in Receipts
  BY WalletAssumption DEF WalletInv, WalletTypes, ApplyChainReceipt, Places, At
<1>2. /\ receiptStatus'[r] = r.status
      /\ \A q \in Receipts : q # r => receiptStatus'[q] = receiptStatus[q]
      /\ \A q \in Receipts : q # r => before'[q] = before[q]
      /\ before'[r] = [holding |-> holding[r.token], lots |-> lots[r.token]]
  <2>1. receiptStatus \in [Receipts -> {"new", "confirmed", "failed", "reorged"}]
        /\ before = [q \in Receipts |-> before[q]]
    BY <1>1 DEF WalletTypes
  <2>2. receiptStatus' = [receiptStatus EXCEPT ![r] = r.status]
        /\ before' = [before EXCEPT ![r] = [holding |-> holding[r.token], lots |-> lots[r.token]]]
    BY DEF ApplyChainReceipt
  <2>3. DOMAIN before = Receipts
    BY <2>1
  <2>4. QED
    BY <2>1, <2>2, <2>3
<1>3. \A i \in 1..n : At(t, i) # r /\ At(t, i).token = t
  BY <1>1 DEF Journalled
<1>4. r \notin Standing(t)
  BY <1>1 DEF Standing
<1>5. /\ \A i \in 1..n : At(t, i)' = At(t, i)
      /\ t # r.token => Places(t)' = 1..n
      /\ t = r.token => Places(t)' = 1..(n + 1) /\ At(t, n + 1)' = r
  <2>1. CASE t # r.token
    <3>1. order'[t] = order[t]
      BY <2>1, ApplyJournals
    <3>2. QED
      BY <2>1, <3>1 DEF Places, At
  <2>2. CASE t = r.token
    <3>1. /\ Len(order'[t]) = n + 1 /\ order'[t][n + 1] = r
          /\ \A i \in Places(t) : order'[t][i] = At(t, i)
      BY <2>2, ApplyJournals
    <3>2. QED
      BY <2>2, <3>1, <1>1 DEF Places, At
  <2>3. QED
    BY <2>1, <2>2
\* What came before a place that was there is as it was.
<1>6. ASSUME NEW i \in 1..n PROVE StandingBefore(t, i)' = StandingBefore(t, i)
  <2>1. \A j : j \in Places(t)' /\ j < i <=> j \in Places(t) /\ j < i
    BY <1>1, <1>5
  <2>2. \A j \in Places(t) : At(t, j)' = At(t, j) /\ At(t, j) # r
    BY <1>1, <1>3, <1>5
  <2>3. \A q \in Receipts : (\E j \in Places(t)' : j < i /\ At(t, j)' = q)
                              <=> (\E j \in Places(t) : j < i /\ At(t, j) = q)
    BY <2>1, <2>2
  <2>4. \A q \in Receipts : (\E j \in Places(t) : j < i /\ At(t, j) = q)
                              => receiptStatus'[q] = receiptStatus[q]
    BY <2>2, <1>2
  <2>5. \A q \in Receipts : q \in StandingBefore(t, i)' <=> q \in StandingBefore(t, i)
    BY <2>3, <2>4 DEF StandingBefore
  <2>6. QED
    BY <2>5 DEF StandingBefore
<1>7. ASSUME NEW i \in 1..n, receiptStatus'[At(t, i)'] # "reorged"
      PROVE  Backed(before'[At(t, i)'].holding, before'[At(t, i)'].lots, StandingBefore(t, i)')
  <2>1. /\ At(t, i)' = At(t, i) /\ At(t, i) \in Receipts /\ At(t, i) # r
    BY <1>1, <1>3, <1>5
  <2>2. receiptStatus[At(t, i)] # "reorged" /\ before'[At(t, i)] = before[At(t, i)]
    BY <2>1, <1>2, <1>7
  <2>3. Backed(before[At(t, i)].holding, before[At(t, i)].lots, StandingBefore(t, i))
    BY <2>2, <1>1 DEF TokenBacked
  <2>4. QED
    BY <2>1, <2>2, <2>3, <1>6
<1>8. CASE t # r.token
  <2>1. holding'[t] = holding[t] /\ lots'[t] = lots[t]
    BY <1>1, <1>8 DEF ApplyChainReceipt, WalletTypes
  <2>2. Standing(t)' = Standing(t)
    BY <1>2, <1>8 DEF Standing
  <2>3. Backed(holding[t], lots[t], Standing(t))'
    BY <2>1, <2>2, <1>1 DEF TokenBacked
  <2>4. Places(t)' = 1..n
    BY <1>5, <1>8
  <2>5. QED
    BY <2>3, <2>4, <1>7 DEF TokenBacked
<1>9. CASE t = r.token
  <2>1. Backed(holding[t], lots[t], Standing(t))
    BY <1>1 DEF TokenBacked
  <2>2. Backed(holding[t], lots[t], Standing(t))'
    <3>1. CASE r.status = "confirmed"
      <4>1. Standing(t)' = Standing(t) \union {r}
        BY <1>2, <1>9, <3>1 DEF Standing
      <4>2. holding'[t] = Quantity(t) + r.delta /\ lots'[t] = Allocated(r)
        BY <1>1, <1>9, <3>1 DEF ApplyChainReceipt, WalletTypes
      <4>3. r.strategy # NoStrategy /\ r.delta < 0 => Left(OpenLots(r)) >= -r.delta
        BY <3>1 DEF ApplyChainReceipt
      <4>4. Backed(Quantity(t) + r.delta, Allocated(r), Standing(t) \union {r})
        BY <2>1, <4>3, <1>4, <1>9, ReceiptBacked
      <4>5. QED
        BY <4>1, <4>2, <4>4
    <3>2. CASE r.status = "failed"
      <4>1. Standing(t)' = Standing(t)
        BY <1>1, <1>2, <3>2 DEF Standing
      <4>2. holding'[t] = holding[t] /\ lots'[t] = lots[t]
        BY <3>2 DEF ApplyChainReceipt
      <4>3. QED
        BY <4>1, <4>2, <2>1
    <3>3. QED
      BY <3>1, <3>2, <1>1
  <2>3. Places(t)' = 1..(n + 1) /\ At(t, n + 1)' = r
    BY <1>5, <1>9
  <2>4. StandingBefore(t, n + 1)' = Standing(t)
    <3>1. ASSUME NEW q \in Receipts, q \in StandingBefore(t, n + 1)' PROVE q \in Standing(t)
      <4>1. PICK j \in Places(t)' : j < n + 1 /\ At(t, j)' = q
        BY <3>1 DEF StandingBefore
      <4>2. j \in 1..n
        BY <4>1, <2>3, <1>1
      <4>3. q = At(t, j) /\ q # r /\ q.token = t
        BY <4>1, <4>2, <1>3, <1>5
      <4>4. receiptStatus[q] = "confirmed"
        BY <4>3, <3>1, <1>2 DEF StandingBefore
      <4>5. QED
        BY <4>3, <4>4 DEF Standing
    <3>2. ASSUME NEW q \in Standing(t) PROVE q \in StandingBefore(t, n + 1)'
      <4>1. q \in Receipts /\ q.token = t /\ receiptStatus[q] = "confirmed" /\ q # r
        BY <1>4 DEF Standing
      <4>2. PICK j \in 1..n : At(t, j) = q
        BY <4>1, <1>1 DEF Journalled
      <4>3. j \in Places(t)' /\ j < n + 1 /\ At(t, j)' = q
        BY <4>2, <2>3, <1>1, <1>5
      <4>4. receiptStatus'[q] = "confirmed"
        BY <4>1, <1>2
      <4>5. QED
        BY <4>1, <4>3, <4>4 DEF StandingBefore
    <3>3. QED
      BY <3>1, <3>2 DEF StandingBefore
  <2>5. before'[r].holding = holding[t] /\ before'[r].lots = lots[t]
    BY <1>2, <1>9
  <2>6. ASSUME NEW i \in Places(t)', receiptStatus'[At(t, i)'] # "reorged"
        PROVE  Backed(before'[At(t, i)'].holding, before'[At(t, i)'].lots, StandingBefore(t, i)')
    <3>1. CASE i = n + 1
      BY <3>1, <2>1, <2>3, <2>4, <2>5
    <3>2. CASE i # n + 1
      <4>1. i \in 1..n
        BY <3>2, <2>3, <1>1
      <4>2. QED
        BY <4>1, <2>6, <1>7
    <3>3. QED
      BY <3>1, <3>2
  <2>7. QED
    BY <2>2, <2>6 DEF TokenBacked
<1>10. QED
  BY <1>8, <1>9

LEMMA ReverseJournals ==
    ASSUME WalletInv, NEW r \in Receipts, ReverseChainReceipt(r)
    PROVE  WalletTypes' /\ Journalled'
<1>1. WalletTypes'
  BY DEF ReverseChainReceipt, WalletInv, WalletTypes
<1>2. /\ order' = order
      /\ \A q \in Receipts : receiptStatus'[q] # "new" <=> receiptStatus[q] # "new"
  BY DEF ReverseChainReceipt, WalletInv, WalletTypes
<1>3. \A t \in WalletTokens : \A i \in Places(t) : At(t, i) \in Receipts
  BY DEF WalletInv, WalletTypes, Places, At
<1>4. Journalled'
  <2>1. \A t : Places(t)' = Places(t) /\ \A i : At(t, i)' = At(t, i)
    BY <1>2 DEF Places, At
  <2>2. QED
    BY <2>1, <1>2, <1>3 DEF WalletInv, Journalled
<1>5. QED
  BY <1>1, <1>4

LEMMA ReverseKeepsBacking ==
    ASSUME WalletInv, NEW r \in Receipts, ReverseChainReceipt(r),
           NEW t \in WalletTokens \ disordered'
    PROVE  TokenBacked(t)'
<1>1. /\ t \notin disordered /\ TokenBacked(t) /\ WalletTypes /\ Journalled
      /\ receiptStatus[r] \in {"confirmed", "failed"}
  BY DEF WalletInv, ReverseChainReceipt
<1>2. /\ receiptStatus'[r] = "reorged"
      /\ \A q \in Receipts : q # r => receiptStatus'[q] = receiptStatus[q]
  BY <1>1 DEF ReverseChainReceipt, WalletTypes
<1>3. /\ before' = before /\ Places(t)' = Places(t) /\ \A i : At(t, i)' = At(t, i)
      /\ \A i \in Places(t) : At(t, i) \in Receipts /\ At(t, i).token = t
  BY <1>1 DEF ReverseChainReceipt, Places, At, WalletTypes, Journalled
<1>4. CASE t # r.token
  <2>1. holding'[t] = holding[t] /\ lots'[t] = lots[t]
    BY <1>1, <1>4 DEF ReverseChainReceipt, WalletTypes
  <2>2. Standing(t)' = Standing(t)
    BY <1>2, <1>4 DEF Standing
  <2>3. \A i \in Places(t) : receiptStatus'[At(t, i)] = receiptStatus[At(t, i)]
    BY <1>2, <1>3, <1>4
  <2>4. ASSUME NEW i \in Places(t) PROVE StandingBefore(t, i)' = StandingBefore(t, i)
    BY <1>3, <2>3 DEF StandingBefore
  <2>5. QED
    BY <2>1, <2>2, <2>3, <2>4, <1>1, <1>3 DEF TokenBacked
<1>5. CASE t = r.token
  <2>1. PICK m \in Places(t) : At(t, m) = r
    BY <1>1, <1>5 DEF Journalled
  <2>2. \A i \in Places(t) : i # m => At(t, i) # r
    BY <1>1, <2>1 DEF Journalled
  <2>3. \A i \in Places(t) : i > m => receiptStatus[At(t, i)] = "reorged"
    <3>1. ~OutOfTurn(r)
      BY <1>5 DEF ReverseChainReceipt
    <3>2. DOMAIN order[t] = Places(t)
      BY <1>1 DEF WalletTypes, Places
    <3> DEFINE at == CHOOSE i \in DOMAIN order[t] : order[t][i] = r
    <3>3. at = m
      <4>1. at \in DOMAIN order[t] /\ order[t][at] = r
        BY <2>1, <3>2 DEF At
      <4>2. QED
        BY <4>1, <2>2, <3>2 DEF At
    <3> HIDE DEF at
    <3>4. ~\E i \in DOMAIN order[t] : i > at /\ receiptStatus[order[t][i]] # "reorged"
      BY <3>1, <1>5 DEF OutOfTurn, at
    <3>5. QED
      BY <3>2, <3>3, <3>4 DEF At
  <2>4. \A i \in Places(t) : i \in Nat
    BY DEF Places
  <2>5. Standing(t)' = StandingBefore(t, m)
    <3>1. ASSUME NEW q \in Receipts, q \in Standing(t)' PROVE q \in StandingBefore(t, m)
      <4>1. q # r /\ q.token = t /\ receiptStatus[q] = "confirmed"
        BY <3>1, <1>2 DEF Standing
      <4>2. PICK i \in Places(t) : At(t, i) = q
        BY <4>1, <1>1 DEF Journalled
      <4>3. i < m
        <5>1. ~(i > m) /\ i # m
          BY <4>1, <4>2, <2>1, <2>3
        <5>2. QED
          BY <5>1, <2>4
      <4>4. QED
        BY <4>1, <4>2, <4>3 DEF StandingBefore
    <3>2. ASSUME NEW q \in StandingBefore(t, m) PROVE q \in Standing(t)'
      <4>1. PICK i \in Places(t) : i < m /\ At(t, i) = q
        BY DEF StandingBefore
      <4>2. q # r /\ q.token = t /\ q \in Receipts /\ receiptStatus[q] = "confirmed"
        BY <4>1, <2>2, <2>4, <1>3 DEF StandingBefore
      <4>3. QED
        BY <4>2, <1>2 DEF Standing
    <3>3. QED
      BY <3>1, <3>2 DEF Standing
  <2>6. Backed(before[r].holding, before[r].lots, StandingBefore(t, m))
    BY <1>1, <2>1 DEF TokenBacked
  <2>7. holding'[t] = before[r].holding /\ lots'[t] = before[r].lots
    BY <1>1, <1>5 DEF ReverseChainReceipt, LotsRestored, WalletTypes
  <2>8. ASSUME NEW i \in Places(t), receiptStatus'[At(t, i)] # "reorged"
        PROVE  /\ receiptStatus[At(t, i)] # "reorged"
               /\ StandingBefore(t, i)' = StandingBefore(t, i)
    <3>1. At(t, i) # r /\ receiptStatus[At(t, i)] # "reorged"
      BY <2>8, <1>2, <1>3
    <3>2. i < m
      <4>1. ~(i > m) /\ i # m
        BY <3>1, <2>1, <2>3
      <4>2. QED
        BY <4>1, <2>4
    <3>3. \A j \in Places(t) : j < i => At(t, j) # r
      BY <3>2, <2>2, <2>4
    <3>4. \A j \in Places(t) : j < i => receiptStatus'[At(t, j)] = receiptStatus[At(t, j)]
      BY <3>3, <1>2, <1>3
    <3>5. StandingBefore(t, i)' = StandingBefore(t, i)
      BY <3>4, <1>3 DEF StandingBefore
    <3>6. QED
      BY <3>1, <3>5
  <2>9. QED
    BY <2>5, <2>6, <2>7, <2>8, <1>1, <1>3 DEF TokenBacked
<1>6. QED
  BY <1>4, <1>5

LEMMA WalletPreserved == WalletInv /\ [WalletNext]_walletVars => WalletInv'
<1>1. ASSUME WalletInv, NEW r \in Receipts, ApplyChainReceipt(r) PROVE WalletInv'
  <2>1. disordered' = disordered
    BY <1>1 DEF ApplyChainReceipt
  <2>2. QED
    BY <1>1, <2>1, ApplyJournals, ApplyKeepsBacking DEF WalletInv
<1>2. ASSUME WalletInv, NEW r \in Receipts, ReverseChainReceipt(r) PROVE WalletInv'
  BY <1>2, ReverseJournals, ReverseKeepsBacking DEF WalletInv
<1>3. ASSUME WalletInv, UNCHANGED walletVars PROVE WalletInv'
  <2>1. UNCHANGED <<receiptStatus, before, holding, lots, order, disordered>>
    BY <1>3 DEF walletVars
  <2>2. WalletTypes'
    BY <1>3, <2>1 DEF WalletInv, WalletTypes
  <2>3. \A t : /\ Places(t)' = Places(t) /\ Standing(t)' = Standing(t)
              /\ \A i : At(t, i)' = At(t, i)
    BY <2>1 DEF Places, Standing, At
  <2>4. \A t, i : StandingBefore(t, i)' = StandingBefore(t, i)
    BY <2>1 DEF StandingBefore, Places, At
  <2>5. Journalled'
    BY <1>3, <2>1, <2>3 DEF WalletInv, Journalled
  <2>6. ASSUME NEW t \in WalletTokens \ disordered PROVE TokenBacked(t)'
    BY <1>3, <2>1, <2>3, <2>4 DEF WalletInv, TokenBacked
  <2>7. QED
    BY <2>1, <2>2, <2>5, <2>6 DEF WalletInv
<1>4. QED
  BY <1>1, <1>2, <1>3 DEF WalletNext

\* For any receipts, strategies and reorganisations: while the receipts of a token are reversed
\* newest first, the wallet holds what the receipts that stand add up to, and the lots of each
\* strategy what its own do, first in, first out.
THEOREM HoldingsAreReceipts == WalletSpec => []HoldingIsReceipts
<1>1. WalletInv => HoldingIsReceipts
  <2>1. SUFFICES ASSUME WalletInv, NEW t \in Touched \ disordered
                 PROVE  /\ Quantity(t) = Sum(Standing(t))
                        /\ \A s \in Strategies \ {NoStrategy} :
                             Left(By(lots[t], s)) = Sum(From(Standing(t), s))
                        /\ \A l \in lots[t] :
                             /\ \E r \in Standing(t) : r.id = l.receipt /\ r.delta = l.acquired
                             /\ l.left \in 0..l.acquired
                             /\ l.status = "closed" <=> l.left = 0
    BY DEF HoldingIsReceipts, Strategies, By, From
  <2>2. Backed(holding[t], lots[t], Standing(t))
    BY <2>1 DEF WalletInv, WalletTypes, Touched, TokenBacked
  <2>3. \A l \in lots[t] : l.left \in Nat /\ l.acquired \in Nat
    BY <2>2 DEF Backed, LotType
  <2>4. QED
    BY <2>2, <2>3 DEF Backed, LotBacked, Quantity
<1>2. QED
  BY <1>1, WalletAtFirst, WalletPreserved, PTL DEF WalletSpec
=============================================================================
