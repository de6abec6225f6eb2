----------------------------- MODULE FifoQueue -----------------------------
(***************************************************************************)
(* What each of the gateway's four work queues (commands, recording        *)
(* deletions, recording thumbnails, notifications) promises its callers:   *)
(* a bounded first-in first-out queue that neither loses, repeats nor      *)
(* reorders an entry.  QueList is the ring the code implements it with.    *)
(***************************************************************************)
EXTENDS Naturals, Sequences

CONSTANTS Entry,       \* what callers queue
          Capacity     \* how many entries the queue holds at most

VARIABLES queue,       \* the entries waiting, oldest first
          taken        \* the entries handed to the consumer, oldest first

vars == <<queue, taken>>

TypeOK == /\ queue \in Seq(Entry)
          /\ Len(queue) <= Capacity
          /\ taken \in Seq(Entry)

Init == /\ queue = <<>>
        /\ taken = <<>>

\* A caller's entry goes to the end of a queue that is not full.
Put(e) == /\ Len(queue) < Capacity
          /\ queue' = Append(queue, e)
          /\ UNCHANGED taken

\* The consumer is handed the oldest entry.
Get == /\ queue # <<>>
       /\ taken' = Append(taken, Head(queue))
       /\ queue' = Tail(queue)

Next == (\E e \in Entry : Put(e)) \/ Get

Spec == Init /\ [][Next]_vars
=============================================================================
