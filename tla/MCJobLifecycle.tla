-------------------------- MODULE MCJobLifecycle --------------------------
(* One job and the UI sessions around it; which calls are made is chosen   *)
(* by the configuration.                                                   *)
EXTENDS JobLifecycle, TLC
CONSTANTS stop1, poll1, delete1
None == {}
OneStop == {stop1}
OnePoll == {poll1}
OneDelete == {delete1}
===========================================================================
