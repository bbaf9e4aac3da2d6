------------------------ MODULE DailyUpdateRefines ------------------------
(***************************************************************************)
(* The daily update implements the promise of ServedBundle.  A directory   *)
(* at the live path that is torn or was never validated maps to no         *)
(* generation at all, so showing one would not be a step of the promise.   *)
(***************************************************************************)
EXTENDS DailyUpdate, Integers

Torn == -1

Shown(p) ==
    IF ~Exists(live[p]) THEN 0 ELSE IF Servable(live[p]) THEN live[p].epoch ELSE Torn

Promise == INSTANCE ServedBundle WITH
    shown <- [p \in Providers |-> Shown(p)],
    newest <- [p \in Providers |-> NewestKept(p)]

(* Every behaviour of the updater, with any number of concurrent runs,     *)
(* kills, interrupts and OS errors, is one the readers were promised       *)
(* (bundle_swap.py:9-12, 109-117).                                         *)
ReadersPromise == Promise!ServedSpec
===========================================================================
