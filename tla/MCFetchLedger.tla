--------------------------- MODULE MCFetchLedger ---------------------------
(* Two securities, two years of two days; the second one is listed on day  *)
(* 2 and the third day is a holiday.                                       *)
EXTENDS FetchLedger, TLC
TwoTickers == 1..2
ListedFrom == 1 :> 1..4 @@ 2 :> 2..4
Sessions == {1, 2, 4}
SomeRanges == {<<1, 2>>, <<1, 4>>, <<2, 3>>}
===========================================================================
