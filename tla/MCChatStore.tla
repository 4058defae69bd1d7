---------------------------- MODULE MCChatStore ----------------------------
(* Two rooms, one of which is created at run time. *)
EXTENDS ChatStore, TLC

CONSTANTS s1, s2, k1, k2

TwoSenders == {s1, s2}
TwoListeners == {k1, k2}
TwoRooms == 1..2

ChatSymmetry == Permutations(TwoSenders) \cup Permutations(TwoListeners)
=============================================================================
