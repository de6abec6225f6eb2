----------------------------- MODULE Catalogue -----------------------------
(***************************************************************************)
(* What the lists of recordings promise their readers: of each day a set   *)
(* of recordings, which changes by one recording at a time, or by a        *)
(* deletion of the day, and which a restart of the program leaves as it    *)
(* is, but for recordings under way, which may be listed or not.  Nothing  *)
(* is promised once a day is lost.  RecIndex keeps the lists on the SD     *)
(* card.                                                                   *)
(***************************************************************************)
EXTENDS Naturals

CONSTANTS Days,
          Files        \* the numbers recordings may have

VARIABLES begun,       \* the recordings begun so far
          making,      \* of each day, the recordings under way
          listed,      \* of each day, the recordings listed
          lost         \* the days of which nothing is promised any more

vars == <<begun, making, listed, lost>>

Init ==
  /\ begun = 0 /\ lost = {}
  /\ making = [d \in Days |-> {}]
  /\ listed = [d \in Days |-> {}]

\* Day d, and no other, now has these recordings.
Becomes(d, under, list) ==
  /\ making' = [making EXCEPT ![d] = under]
  /\ listed' = [listed EXCEPT ![d] = list]

\* Each recording has a number no other had before it.
Begin(d) ==
  /\ begun + 1 \in Files
  /\ begun' = begun + 1
  /\ IF d \in lost THEN UNCHANGED <<making, listed>>
     ELSE Becomes(d, making[d] \cup {begun + 1}, listed[d])
  /\ UNCHANGED lost

\* A recording ends: it is listed, ...
Enter(d, f) ==
  /\ f \in making[d]
  /\ Becomes(d, making[d] \ {f}, listed[d] \cup {f})
  /\ UNCHANGED <<begun, lost>>

\* ... or nothing was recorded.
Abandon(d, f) ==
  /\ f \in making[d]
  /\ Becomes(d, making[d] \ {f}, listed[d])
  /\ UNCHANGED <<begun, lost>>

Delete(d, f) ==
  /\ f \in listed[d]
  /\ Becomes(d, making[d], listed[d] \ {f})
  /\ UNCHANGED <<begun, lost>>

\* A whole day, in which nobody is recording.
DeleteAll(d) ==
  /\ making[d] = {}
  /\ Becomes(d, {}, {})
  /\ UNCHANGED <<begun, lost>>

Lose(d) ==
  /\ Becomes(d, {}, {})
  /\ lost' = lost \cup {d}
  /\ UNCHANGED begun

\* It costs at most one day.
ProgramRestarts ==
  /\ \E D \in {{}} \cup {{d} : d \in Days} : lost' = lost \cup D
  /\ making' = [d \in Days |-> {}]
  /\ listed' \in [Days -> SUBSET Files]
  /\ \A d \in lost' : listed'[d] = {}
  /\ \A d \in Days \ lost' : /\ listed[d] \subseteq listed'[d]
                             /\ listed'[d] \subseteq listed[d] \cup making[d]
  /\ UNCHANGED begun

Next ==
  \/ \E d \in Days : Begin(d) \/ DeleteAll(d) \/ Lose(d)
  \/ \E d \in Days, f \in Files : Enter(d, f) \/ Abandon(d, f) \/ Delete(d, f)
  \/ ProgramRestarts

Spec == Init /\ [][Next]_vars
=============================================================================
