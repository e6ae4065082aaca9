----------------------------- MODULE MCRecords -----------------------------
(***************************************************************************)
(* What the program keeps for later and who reads it, on small inputs.  A  *)
(* behaviour is about one family: the audit log and the console's index of *)
(* it, the sidecar's file and the feed that is taken from it, the profiles *)
(* of performance, those of behaviour, the archive of the ranking, the     *)
(* receipts of the actual wallet, or the dashboard's change bus.           *)
(***************************************************************************)
EXTENDS AuditIndex, SidecarFeed, Performance, BehaviorProfiles, Leaderboard,
        ActualWallet, ChangeBus

VARIABLE family

vars == <<lvars, ivars, svars, pvars, bvars, boardVars, walletVars, busVars, family>>

-----------------------------------------------------------------------------
(* Lines: the first and the last are of one event, the second has no id; of  *)
(* the sidecar's lines one is filtered.                                      *)

Ids      == [l \in Lines |-> IF l = 2 THEN "none" ELSE "e"]
Carried  == [l \in Lines |-> CASE l = 1 -> "e" [] l = 2 -> "none" [] OTHER -> "f"]

-----------------------------------------------------------------------------
(* Fills of ann: two lots, two sales, one at the time of the second lot; a   *)
(* transaction that bob claims too, an unproven fill and an invalid one.     *)

Fill(id, key, kol, side, qty, gross, at) ==
    [id |-> id, key |-> key, kol |-> kol, wallet |-> "w", token |-> "t", side |-> side, qty |-> qty,
     gross |-> gross, fee |-> 0, cap |-> 1, at |-> at, proven |-> TRUE]

FirstLot  == Fill(1, 1, "ann", "buy", 2, 2, 0)
SecondLot == Fill(2, 2, "ann", "buy", 1, 4, 1)
FirstSale == [Fill(3, 3, "ann", "sell", 2, 8, 1) EXCEPT !.fee = 2]
LastSale  == Fill(4, 4, "ann", "sell", 1, 1, 2)
Claimed   == Fill(5, 1, "bob", "buy", 2, 2, 0)
Unproven  == [Fill(6, 6, "bob", "buy", 1, 9, 1) EXCEPT !.proven = FALSE]
Invalid   == Fill(7, 7, "bob", "swap", 1, 1, 0)

SomeBatches == {<<f>> : f \in {SecondLot, FirstSale, LastSale, Claimed, Unproven}}
                 \cup {<<LastSale, Invalid, SecondLot>>, <<Claimed, Unproven>>}
Legacy      == <<FirstLot>>
MarkAt(at, price, cap) == [token |-> "t", source |-> "m", at |-> at, price |-> price, cap |-> cap]
SomeMarks   == {MarkAt(0, 3, 5), MarkAt(2, 1, 1)}
SomeSocials == {[kol |-> "ann", account |-> "x", sure |-> s] : s \in BOOLEAN}
SomeSignals == {[cap |-> c, spent |-> 9] : c \in {0, 1}}
Thresholds  == [maxAge |-> 1, minClosed |-> 1, minTokens |-> 1]
Styles      == [pvpPerDay |-> 9, whaleBuy |-> 3, smallCap |-> 1,
                tiers |-> <<[cap |-> 1, spent |-> 5], [cap |-> 3, spent |-> 9], [cap |-> 9, spent |-> 9]>>]

-----------------------------------------------------------------------------
(* Events of the feed: a handle that two users have, one trade under two     *)
(* events, one event that comes twice, and one that is no trade.             *)

Trade(id, key, kind, kol, token, amount, cap, at) ==
    [id |-> id, key |-> key, kind |-> kind, kol |-> kol, handle |-> "ann", token |-> token,
     amount |-> amount, cap |-> cap, at |-> at]

SomeEvents == {Trade(1, 1, "buy", "u1", "t", 9, 1, 0), Trade(2, 2, "buy", Anonymous, "t", 1, 0, 2),
               Trade(4, 4, "buy", "u2", "s", 1, 5, 3), Trade(5, 2, "buy", "u1", "t", 1, 0, 2),
               Trade(6, 6, "follow", "u2", "t", 0, 0, 0), Trade(1, 3, "clear", Anonymous, "t", 1, 1, 3)}
Habits == [minBuys |-> 2, minTokens |-> 1, minDays |-> 2, lowCap |-> 2, pvpPerDay |-> 2, whale |-> 5,
           many |-> 2, narrativeCap |-> 3, narrativeBuy |-> 1,
           tiers |-> <<[cap |-> 1, amount |-> 5], [cap |-> 3, amount |-> 9], [cap |-> 99, amount |-> 9]>>]

-----------------------------------------------------------------------------
(* Receipts: two buys of one strategy, of which the later is the older lot, a *)
(* sale that takes from both, a sale of nobody's, a failed one, and a buy of  *)
(* another strategy.                                                          *)

Receipt(id, status, delta, strategy, opened) ==
    [id |-> id, token |-> "t", status |-> status, delta |-> delta, strategy |-> strategy, opened |-> opened]
SomeReceipts ==
    {Receipt(1, "confirmed", 2, "s", 2), Receipt(2, "confirmed", 1, "s", 1), Receipt(3, "confirmed", -2, "s", 3),
     Receipt(4, "confirmed", -1, NoStrategy, 3), Receipt(5, "failed", 1, "s", 3), Receipt(6, "confirmed", 1, "z", 3)}

-----------------------------------------------------------------------------
Init ==
    /\ LogInit /\ IndexInit /\ FeedInit /\ PerformanceInit /\ BehaviorInit /\ BoardInit
    /\ WalletInit /\ BusInit
    /\ family \in {"log", "stream", "performance", "behavior", "board", "wallet", "bus"}
    /\ family # "stream" => host = Missing

\* bound: the sidecar's days change and its writer stops twice together
FewTurns == turns' + stops' <= 2

others          == <<walletVars, busVars, family>>
logOnly         == <<svars, pvars, bvars, boardVars, others>>
streamOnly      == <<ivars, pvars, bvars, boardVars, others>>
performanceOnly == <<lvars, ivars, svars, bvars, boardVars, others>>
behaviorOnly    == <<lvars, ivars, svars, pvars, boardVars, others>>
boardOnly       == <<lvars, ivars, svars, pvars, bvars, others>>
elsewhere       == <<lvars, ivars, svars, pvars, bvars, boardVars, family>>

Next ==
    \/ family = "log" /\ LogNext(FALSE) /\ Beside /\ UNCHANGED logOnly
    \/ family = "log" /\ IndexNext /\ UNCHANGED <<lvars, logOnly>>
    \/ family = "stream" /\ LogNext(TRUE) /\ FewTurns /\ UNCHANGED <<svars, streamOnly>>
    \/ family = "stream" /\ FeedNext /\ UNCHANGED <<lvars, streamOnly>>
    \/ family = "performance" /\ PerformanceNext /\ UNCHANGED performanceOnly
    \/ family = "behavior" /\ BehaviorNext /\ UNCHANGED behaviorOnly
    \/ family = "board" /\ BoardNext /\ UNCHANGED boardOnly
    \/ family = "wallet" /\ WalletNext /\ UNCHANGED <<elsewhere, busVars>>
    \/ family = "bus" /\ BusNext /\ UNCHANGED <<elsewhere, walletVars>>

Spec == Init /\ [][Next]_vars
=============================================================================
