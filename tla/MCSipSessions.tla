---------------------------- MODULE MCSipSessions ----------------------------
(* SipSessions with small sets for TLC. *)
EXTENDS SipSessions, TLC

\* Slots and endpoints are interchangeable; for the safety runs only.
Symmetry == Permutations(Slots) \cup Permutations(Medias)
=============================================================================
