----------------------------- MODULE MCImonitor -----------------------------
(***************************************************************************)
(* Small instances of Imonitor for TLC.                                    *)
(***************************************************************************)
EXTENDS Ownership, TLC

CONSTANTS log, page

(* BUFSIZ is 2, so a file of 3 needs a full and a partial read, one of 2   *)
(* ends on a buffer boundary and one of 0 is a header alone.               *)
Sizes30 == log :> 3 @@ page :> 0
Sizes12 == log :> 1 @@ page :> 2
Sizes2  == log :> 2 @@ page :> 1

Symmetry == Permutations(Conns) \cup Permutations(Clients)
=============================================================================
