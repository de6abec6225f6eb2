----------------------------- MODULE MCQueList -----------------------------
(* Instances of QueList for TLC. *)
EXTENDS QueList, TLC

CONSTANTS p1, p2, e1, e2, e3, e4

OneProducer == {p1}
TwoProducers == {p1, p2}

FourEntries == {e1, e2, e3, e4}
=============================================================================
