----------------------------- MODULE MCPairing -----------------------------
(* Instances of Pairing for TLC. *)
EXTENDS Pairing, TLC

CONSTANTS c1, c2, s1, w1

NoSession == {}
OneSession == {s1}
OneCamera == {c1}
TwoCameras == {c1, c2}
OneWorker == {w1}
OneChannel == 1 .. 1
TwoChannels == 1 .. 2

Symmetry == Permutations(TwoCameras)
=============================================================================
