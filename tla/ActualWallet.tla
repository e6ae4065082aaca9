---------------------------- MODULE ActualWallet ----------------------------
(***************************************************************************)
(* The actual wallet's part of the ledger (fomo/portfolio/ledger.py):      *)
(* receipts of the chain change what the wallet holds of a token and what  *)
(* each strategy has allocated of it, and a reorganisation reverses a      *)
(* receipt by putting back what was there before it.  A token stands for   *)
(* one account, chain and token.  Every operation is one transaction under *)
(* the ledger's lock.                                                      *)
(***************************************************************************)
EXTENDS Integers, Sequences, FiniteSets, Totals

CONSTANTS
    Receipts,       \* [id, token, status, delta, strategy, opened]
    NoStrategy, NoHolding

VARIABLES
    receiptStatus,  \* chain_receipt_journal: [Receipts -> "new", "confirmed", "failed" or "reorged"]
    before,         \* pre_state_json: [Receipts -> [holding, lots]]
    holding,        \* actual_wallet_positions: [token -> quantity or NoHolding]
    lots,           \* strategy_allocation_lots: [token -> set of lots]
    order,          \* history: the receipts of a token in the order they were applied
    disordered      \* history: the tokens of which a receipt was reversed before a later one

ASSUME WalletAssumption ==
    /\ NoHolding \notin Int
    /\ \A r \in Receipts : /\ r.status \in {"confirmed", "failed"}
                          /\ r.id \in Nat /\ r.delta \in Int /\ r.opened \in Int
    /\ \A r, q \in Receipts : r.id = q.id => r = q

walletVars == <<receiptStatus, before, holding, lots, order, disordered>>

WalletTokens == {r.token : r \in Receipts}

WalletInit ==
    /\ receiptStatus = [r \in Receipts |-> "new"]
    /\ before = [r \in Receipts |-> [holding |-> NoHolding, lots |-> {}]]
    /\ holding = [t \in WalletTokens |-> NoHolding]
    /\ lots = [t \in WalletTokens |-> {}]
    /\ order = [t \in WalletTokens |-> <<>>]
    /\ disordered = {}

-----------------------------------------------------------------------------
Amount(h) == IF h = NoHolding THEN 0 ELSE h
Quantity(t) == Amount(holding[t])

NewLot(r) == [receipt |-> r.id, strategy |-> r.strategy, acquired |-> r.delta, left |-> r.delta,
              opened |-> r.opened, status |-> "open"]

OpenLots(r) == {l \in lots[r.token] : l.strategy = r.strategy /\ l.status = "open"}
Left(some)  == Total([l \in some |-> l.left], some)

\* the order of opened_at and lot_id
Earlier(k, l) == k.opened < l.opened \/ (k.opened = l.opened /\ k.receipt < l.receipt)

\* what a sale of n takes from a lot: what the earlier ones leave of it, as far as the lot goes
TakenFrom(some, n, l) ==
    LET due == n - Left({k \in some : Earlier(k, l)})
    IN  IF due <= 0 THEN 0 ELSE IF due <= l.left THEN due ELSE l.left

LotAfter(l, n) == [l EXCEPT !.left = @ - n, !.status = IF l.left = n THEN "closed" ELSE "open"]

\* the open lots after n units were taken from them
Taken(some, n) == {LotAfter(l, TakenFrom(some, n, l)) : l \in some}

\* a strategy's buy adds a lot, its sale is taken from its lots; a receipt of nobody's
\* changes no allocation
Allocated(r) ==
    IF r.strategy = NoStrategy \/ r.delta = 0 THEN lots[r.token]
    ELSE IF r.delta > 0 THEN lots[r.token] \cup {NewLot(r)}
    ELSE (lots[r.token] \ OpenLots(r)) \cup Taken(OpenLots(r), -r.delta)

\* apply_chain_receipt: a receipt that is in the journal is a duplicate, whatever became of it
ApplyChainReceipt(r) ==
    /\ receiptStatus[r] = "new"
    /\ r.status = "confirmed" =>
         /\ Quantity(r.token) + r.delta >= 0
         /\ r.strategy # NoStrategy /\ r.delta < 0 => Left(OpenLots(r)) >= -r.delta
    /\ receiptStatus' = [receiptStatus EXCEPT ![r] = r.status]
    /\ before' = [before EXCEPT ![r] = [holding |-> holding[r.token], lots |-> lots[r.token]]]
    /\ IF r.status = "confirmed"
       THEN /\ holding' = [holding EXCEPT ![r.token] = Quantity(r.token) + r.delta]
            /\ lots' = [lots EXCEPT ![r.token] = Allocated(r)]
       ELSE UNCHANGED <<holding, lots>>
    /\ order' = [order EXCEPT ![r.token] = Append(@, r)]
    /\ UNCHANGED disordered

\* a mutant: the allocations stay
LotsKept(r) == lots[r.token]

LotsRestored(r) == before[r].lots

\* a receipt that was applied after r stands, or r is put back into what a later one saw
OutOfTurn(r) ==
    LET at == CHOOSE i \in DOMAIN order[r.token] : order[r.token][i] = r
    IN  \E i \in DOMAIN order[r.token] : i > at /\ receiptStatus[order[r.token][i]] # "reorged"

\* reverse_chain_receipt
ReverseChainReceipt(r) ==
    /\ receiptStatus[r] \in {"confirmed", "failed"}
    /\ receiptStatus' = [receiptStatus EXCEPT ![r] = "reorged"]
    /\ holding' = [holding EXCEPT ![r.token] = before[r].holding]
    /\ lots' = [lots EXCEPT ![r.token] = LotsRestored(r)]
    /\ disordered' = IF OutOfTurn(r) THEN disordered \cup {r.token} ELSE disordered
    /\ UNCHANGED <<before, order>>

WalletNext == \E r \in Receipts : ApplyChainReceipt(r) \/ ReverseChainReceipt(r)

WalletSpec == WalletInit /\ [][WalletNext]_walletVars

-----------------------------------------------------------------------------
(* Properties.                                                               *)

Touched     == {t \in DOMAIN order : order[t] # <<>>}
Standing(t) == {r \in Receipts : r.token = t /\ receiptStatus[r] = "confirmed"}
Sum(S) == Net([r \in S |-> r.delta], S)

\* As long as the receipts of a token are reversed newest first, the wallet holds what
\* the receipts that stand add up to, and each strategy has allocated what its own add up
\* to, in lots of receipts that stand; a failed receipt, or one that comes twice, counts
\* for nothing (apply_chain_receipt and reverse_chain_receipt, "Restore the exact
\* pre-receipt factual position and allocation lots").
HoldingIsReceipts ==
    \A t \in Touched \ disordered :
        /\ Quantity(t) = Sum(Standing(t))
        /\ \A s \in {r.strategy : r \in Receipts} \ {NoStrategy} :
             Left({l \in lots[t] : l.strategy = s}) = Sum({r \in Standing(t) : r.strategy = s})
        /\ \A l \in lots[t] :
             /\ \E r \in Standing(t) : r.id = l.receipt /\ r.delta = l.acquired
             /\ l.left \in 0..l.acquired
             /\ l.status = "closed" <=> l.left = 0
=============================================================================
