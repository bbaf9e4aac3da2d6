---------------------- MODULE MCQuarantinePublication ----------------------
(* One approved policy, queries that end on one of two days; four stamps   *)
(* are one more than the manifest and the journal can refer to.            *)
EXTENDS QuarantineRefines, TLC
CONSTANTS incident, s1, s2, s3, s4
OnePolicy == {incident}
FourStamps == {s1, s2, s3, s4}
===========================================================================
