---------------------------- MODULE MCExecution ----------------------------
(* Two executors, two intents and a balance that pays for both, or for one. *)
EXTENDS Execution

CONSTANTS one, two, first, second

TwoExecutors == {one, two}
OneExecutor == {one}
TwoIntents == {first, second}
UnitAmounts == [i \in TwoIntents |-> 1]
TwoBalances == {1, 2}
OneBalance == {2}
=============================================================================
