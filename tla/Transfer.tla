------------------------------- MODULE Transfer -------------------------------
(***************************************************************************)
(* What the web server promises each client, whatever machinery produces   *)
(* it: no answer before the whole request has arrived, then a header that  *)
(* announces a length, then exactly that many bytes in pieces of any size, *)
(* and the end of the stream only after the last of them.                  *)
(***************************************************************************)
EXTENDS Integers

CONSTANTS
  Clients,   \* the remote peers
  Lengths    \* lengths a header may announce: natural numbers

VARIABLES
  asked,     \* clients whose request has arrived
  phase,     \* "silent", "announced" or "closed"
  length,    \* announced number of bytes
  upto       \* number of bytes delivered

vars == <<asked, phase, length, upto>>

Init ==
  /\ asked = {}
  /\ phase = [k \in Clients |-> "silent"]
  /\ length = [k \in Clients |-> 0]
  /\ upto = [k \in Clients |-> 0]

Ask(k) ==
  /\ k \notin asked
  /\ asked' = asked \cup {k}
  /\ UNCHANGED <<phase, length, upto>>

Announce(k) ==
  /\ k \in asked /\ phase[k] = "silent"
  /\ phase' = [phase EXCEPT ![k] = "announced"]
  /\ \E n \in Lengths : length' = [length EXCEPT ![k] = n]
  /\ UNCHANGED <<asked, upto>>

Deliver(k) ==
  /\ phase[k] = "announced"
  /\ \E n \in upto[k] + 1 .. length[k] : upto' = [upto EXCEPT ![k] = n]
  /\ UNCHANGED <<asked, phase, length>>

Finish(k) ==
  /\ phase[k] = "announced" /\ upto[k] = length[k]
  /\ phase' = [phase EXCEPT ![k] = "closed"]
  /\ UNCHANGED <<asked, length, upto>>

Answer(k) == Announce(k) \/ Deliver(k) \/ Finish(k)

Next == \E k \in Clients : Ask(k) \/ Answer(k)

Spec == Init /\ [][Next]_vars

(* An answer that has become possible is given, down to its last byte.     *)
FairSpec == Spec /\ \A k \in Clients : WF_vars(Answer(k))

=============================================================================
