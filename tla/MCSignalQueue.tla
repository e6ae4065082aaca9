--------------------------- MODULE MCSignalQueue ---------------------------
(* Two services and two signals.                                           *)
EXTENDS SignalQueue

CONSTANTS one, two, first, second

TwoServices == {one, two}
TwoSignals == {first, second}
=============================================================================
