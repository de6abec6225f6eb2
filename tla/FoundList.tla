----------------------------- MODULE FoundList -----------------------------
(***************************************************************************)
(* What the gateway's list of cameras that ask to be paired promises: at   *)
(* most Capacity cameras, each listed once, none of them for ever.         *)
(* SearchList is the table the code keeps it in; Pairing reads the list.   *)
(***************************************************************************)
EXTENDS Naturals, FiniteSets

CONSTANTS Announced,   \* the cameras that may announce themselves
          Capacity     \* how many the list holds

VARIABLE found         \* the cameras listed

ListTypeOK == found \subseteq Announced /\ Cardinality(found) <= Capacity

ListInit == found = {}

\* A camera announces itself, and is listed if there is room.
Hear(c) == /\ c \notin found
           /\ Cardinality(found) < Capacity
           /\ found' = found \cup {c}

\* One camera leaves: it says so, is switched off or has been paired.
Forget(c) == c \in found /\ found' = found \ {c}

\* Some of them leave because they have been listed long enough.
Expire == found' \in (SUBSET found) \ {found}

ListNext == (\E c \in Announced : Hear(c) \/ Forget(c)) \/ Expire

\* The fairness: whoever is listed leaves the list some day.
ListSpec == /\ ListInit /\ [][ListNext]_found
            /\ \A c \in Announced : WF_found(Forget(c))
=============================================================================
