------------------------- MODULE MCStatisticsImport -------------------------
(***************************************************************************)
(* StatisticsImport for TLC: one counter, or a measurement and a counter.  *)
(***************************************************************************)
EXTENDS StatisticsImport

CONSTANTS m1, c1

NoList    == <<>>
MeasuredM == <<m1>>
CounterC  == <<c1>>
=============================================================================
