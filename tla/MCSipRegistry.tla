---------------------------- MODULE MCSipRegistry ----------------------------
(* SipRegistry with small sets for TLC. *)
EXTENDS SipRegistry, TLC

\* Slots and phones are interchangeable; for the safety runs only.
Symmetry == Permutations(Slots) \cup Permutations(Users)
=============================================================================
