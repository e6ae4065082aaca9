----------------------------- MODULE PaperBook -----------------------------
(***************************************************************************)
(* What a book of paper trades promises, whatever decides about the        *)
(* trades: entries are only added, an id is entered once, a step enters at *)
(* most one trade per position, and every entry moves what its position    *)
(* has invested and what it has earned, by the entry's own amounts and by  *)
(* nothing else.  PaperLedger implements it.                               *)
(***************************************************************************)
EXTENDS Integers

CONSTANTS Positions      \* what the book keeps apart: a leader's holding of a token

VARIABLES entries,       \* trades: id, position, side, gross, cost
          invested,      \* position -> cost of what is still held
          profit         \* position -> realised profit

bvars == <<entries, invested, profit>>

Ids == {e.id : e \in entries}

BookInit ==
    /\ entries = {}
    /\ invested = [p \in Positions |-> 0]
    /\ profit = [p \in Positions |-> 0]

\* A buy is carried at its price; a sell takes out a part of the cost and earns the rest.
Posts(e) ==
    \/ /\ e.side = "buy" /\ e.cost = e.gross
       /\ invested'[e.position] = invested[e.position] + e.gross
       /\ profit'[e.position] = profit[e.position]
    \/ /\ e.side = "sell" /\ e.cost <= invested[e.position]
       /\ invested'[e.position] = invested[e.position] - e.cost
       /\ profit'[e.position] = profit[e.position] + e.gross - e.cost

BookNext ==
    LET new == entries' \ entries IN
    /\ entries \subseteq entries'
    /\ DOMAIN invested' = Positions /\ DOMAIN profit' = Positions
    /\ \A e \in new : e.id \notin Ids /\ e.position \in Positions /\ Posts(e)
    /\ \A e, f \in new : e # f => e.position # f.position /\ e.id # f.id
    /\ \A p \in Positions :
          (\A e \in new : e.position # p) =>
              invested'[p] = invested[p] /\ profit'[p] = profit[p]

BookSpec == BookInit /\ [][BookNext]_bvars
=============================================================================
