-------------------------- MODULE MCUpdateCancel --------------------------
(* Two launches of the page and one run of the scheduler.                  *)
EXTENDS UpdateCancel, TLC
CONSTANTS ui1, ui2, night
TwoLaunches == {ui1, ui2}
OneNight == {night}
===========================================================================
