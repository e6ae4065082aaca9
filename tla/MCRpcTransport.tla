--------------------------- MODULE MCRpcTransport ---------------------------
(* Two endpoints of the chain and one of another; the chain forks after      *)
(* height 1.  One thread executes trades, the other watches wallets.         *)
EXTENDS RpcTransport

CONSTANTS primary, other, backup, trader, watcher

ThreeEndpoints == <<primary, other, backup>>
Others == {other}
TwoThreads == {trader, watcher}
Uses == [t \in TwoThreads |-> IF t = trader THEN {"nonce", "send"} ELSE {"read"}]
ForkedHeads == {<<1, "both">>, <<2, "left">>, <<2, "right">>}
HeightOf(h) == h[1]
BlockAt(h, n) == IF n = 1 THEN <<1, "both">> ELSE h
=============================================================================
