------------------------------ MODULE PhoneBook ------------------------------
(***************************************************************************)
(* What the registry of SIPLib promises to those who link calls to phones: *)
(* a phone appears and vanishes, is used by calls while it is there, and   *)
(* does not vanish while it is used.  SipRegistry keeps this promise;      *)
(* SipSessions relies on it for the pointers puser_registry0 and 1.        *)
(***************************************************************************)
EXTENDS Integers

CONSTANT Users

VARIABLES
  present,  \* the phones in the book
  uses      \* how many calls use each of them

vars == <<present, uses>>

Init ==
  /\ present = {}
  /\ uses = [u \in Users |-> 0]

\* One message may name two phones and one deleted call release two, so a
\* step is described phone by phone.
Unchanged(u) == (u \in present' <=> u \in present) /\ uses'[u] = uses[u]
Appear(u)    == u \notin present /\ u \in present' /\ uses[u] = 0 /\ uses'[u] = 0
Vanish(u)    == u \in present /\ u \notin present' /\ uses[u] = 0 /\ uses'[u] = 0
Use(u)       == u \in present /\ u \in present'

Next ==
  /\ present' \subseteq Users
  /\ uses' \in [Users -> Nat]
  /\ \A u \in Users : Unchanged(u) \/ Appear(u) \/ Vanish(u) \/ Use(u)

Spec == Init /\ [][Next]_vars
=============================================================================
