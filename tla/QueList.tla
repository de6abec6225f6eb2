------------------------------ MODULE QueList ------------------------------
(***************************************************************************)
(* The ring buffers of quelist.c and the calls that fill them.             *)
(*                                                                         *)
(* quelist.c holds four copies of one ring (g_cmdlist, g_reclist,          *)
(* g_imglist, g_pushlist), each with one consumer thread, and vavahal.c    *)
(* four copies of one call that fills it (VAVAHAL_Insert...List: three     *)
(* attempts, a failure counter, the watchdog).  This module is one of      *)
(* them, mapped to the copy of the command queue.                          *)
(*                                                                         *)
(* The test for "full" and the test for "empty" run before the mutex is    *)
(* taken, so a test and the critical section it guards are two steps.      *)
(* A critical section is straight-line code under the ring's mutex, and    *)
(* one step.  A test's two loads are one step: with one producer, each     *)
(* side owns one of the two indices; with several, splitting them adds     *)
(* nothing the gap between test and mutex does not already allow.          *)
(***************************************************************************)
EXTENDS Integers, Sequences, FiniteSets

CONSTANTS Producers,        \* the threads that insert into this ring
          Entry,            \* what they insert; a call's entry is its own
          None,             \* "no entry"
          CMD_QUEUE_LEN,    \* slots of the ring (50 in the code)
          Tries,            \* attempts of one call (3 in the code)
          FailLimit         \* consecutive failed calls that stop the watchdog (30)

ASSUME RingAssumption == /\ CMD_QUEUE_LEN \in Nat \ {0}
                         /\ Tries \in Nat \ {0}
                         /\ FailLimit \in Nat \ {0}
                         /\ None \notin Entry

VARIABLES
  data, front, rear,   \* the ring: slots, read index, write index
  pc,                  \* where each producer is
  item,                \* the entry its call inserts
  timeout,             \* the attempts the call has left
  ret,                 \* what its last call returned
  cmdfail,             \* calls that gave up since one got its entry in
  fed,                 \* TRUE while the watchdog is being fed
  running,             \* g_running
  cpc,                 \* where the consumer thread is
  offered,             \* history: the entries calls were made with
  queued, taken        \* history: the entries written to and read from the ring

vars == <<data, front, rear, pc, item, timeout, ret, cmdfail, fed, running,
          cpc, offered, queued, taken>>

RingSlots == 0 .. CMD_QUEUE_LEN - 1

TypeOK ==
  /\ data \in [RingSlots -> Entry \cup {None}]
  /\ front \in RingSlots
  /\ rear \in RingSlots
  /\ pc \in [Producers -> {"idle", "attempt", "insert", "leave"}]
  /\ item \in [Producers -> Entry \cup {None}]
  /\ timeout \in [Producers -> -1 .. Tries]
  /\ ret \in [Producers -> {"none", "SUCCESS", "INSET_LIST_FAIL"}]
  /\ cmdfail \in Nat
  /\ fed \in BOOLEAN
  /\ running \in BOOLEAN
  /\ cpc \in {"poll", "take", "handle", "exit"}
  /\ offered \subseteq Entry
  /\ queued \in Seq(Entry \cup {None})
  /\ taken \in Seq(Entry \cup {None})

\* CmdList_init; a static array is zero.
Init ==
  /\ data = [s \in RingSlots |-> None]
  /\ front = 0
  /\ rear = 0
  /\ pc = [p \in Producers |-> "idle"]
  /\ item = [p \in Producers |-> None]
  /\ timeout = [p \in Producers |-> 0]
  /\ ret = [p \in Producers |-> "none"]
  /\ cmdfail = 0
  /\ fed = TRUE
  /\ running = TRUE
  /\ cpc = "poll"
  /\ offered = {}
  /\ queued = <<>>
  /\ taken = <<>>

---------------------------------------------------------------------------
(* The ring's arithmetic and tests.  A definition ending in _slip is a      *)
(* plausible mistake in the one after it; no action uses it.                *)

NextSlot(s) == (s + 1) % CMD_QUEUE_LEN

IsEmpty_slip == NextSlot(front) = rear

IsEmpty == front = rear

IsFull == front = NextSlot(rear)

ReturnCode_slip(t) == IF t = 0 THEN "INSET_LIST_FAIL" ELSE "SUCCESS"

\* What a call returns once it has t attempts left.
ReturnCode(t) == IF t <= 0 THEN "INSET_LIST_FAIL" ELSE "SUCCESS"
---------------------------------------------------------------------------

\* A thread calls VAVAHAL_InsertCmdList(e).
Call(p, e) ==
  /\ pc[p] = "idle" /\ running
  /\ e \notin offered
  /\ pc' = [pc EXCEPT ![p] = "attempt"]
  /\ item' = [item EXCEPT ![p] = e]
  /\ timeout' = [timeout EXCEPT ![p] = Tries]
  /\ ret' = [ret EXCEPT ![p] = "none"]
  /\ offered' = offered \cup {e}
  /\ UNCHANGED <<data, front, rear, cmdfail, fed, running, cpc, queued, taken>>

\* One attempt: count it, and test for a full ring without the mutex.
Attempt(p) ==
  /\ pc[p] = "attempt" /\ running
  /\ timeout[p] > 0
  /\ timeout' = [timeout EXCEPT ![p] = @ - 1]
  /\ pc' = [pc EXCEPT ![p] = IF IsFull THEN "attempt" ELSE "insert"]
  /\ UNCHANGED <<data, front, rear, item, ret, cmdfail, fed, running, cpc,
                 offered, queued, taken>>

\* The critical section of CmdList_InsertData, and the caller's cmdfail = 0.
Insert(p) ==
  /\ pc[p] = "insert"
  /\ data' = [data EXCEPT ![rear] = item[p]]
  /\ rear' = NextSlot(rear)
  /\ queued' = Append(queued, item[p])
  /\ cmdfail' = 0
  /\ pc' = [pc EXCEPT ![p] = "leave"]
  /\ UNCHANGED <<front, item, timeout, ret, fed, running, cpc, offered, taken>>

\* No attempt is left (the test decrements timeout once more).
GiveUp(p) ==
  /\ pc[p] = "attempt" /\ running
  /\ timeout[p] <= 0
  /\ timeout' = [timeout EXCEPT ![p] = @ - 1]
  /\ cmdfail' = cmdfail + 1
  /\ pc' = [pc EXCEPT ![p] = "leave"]
  /\ UNCHANGED <<data, front, rear, item, ret, fed, running, cpc, offered,
                 queued, taken>>

\* The gateway is shutting down: the loop ends with attempts left.
Abandon(p) ==
  /\ pc[p] = "attempt" /\ ~running
  /\ pc' = [pc EXCEPT ![p] = "leave"]
  /\ UNCHANGED <<data, front, rear, item, timeout, ret, cmdfail, fed, running,
                 cpc, offered, queued, taken>>

\* WatchDog_Stop stops the feeding, except while an update runs.
WatchDog_Stop == \E updating \in BOOLEAN : fed' = (fed /\ updating)

\* The tail of the call: a ring stuck for too long costs the watchdog.
Leave(p) ==
  /\ pc[p] = "leave"
  /\ ret' = [ret EXCEPT ![p] = ReturnCode(timeout[p])]
  /\ IF cmdfail >= FailLimit THEN WatchDog_Stop ELSE UNCHANGED fed
  /\ pc' = [pc EXCEPT ![p] = "idle"]
  /\ UNCHANGED <<data, front, rear, item, timeout, cmdfail, running, cpc,
                 offered, queued, taken>>

\* The consumer thread tests for an empty ring without the mutex ...
Poll ==
  /\ cpc = "poll" /\ running
  /\ ~IsEmpty
  /\ cpc' = "take"
  /\ UNCHANGED <<data, front, rear, pc, item, timeout, ret, cmdfail, fed,
                 running, offered, queued, taken>>

OutData_slip ==
  /\ cpc = "take"
  /\ taken' = Append(taken, data[NextSlot(front)])
  /\ front' = NextSlot(front)
  /\ cpc' = "handle"
  /\ UNCHANGED <<data, rear, pc, item, timeout, ret, cmdfail, fed, running,
                 offered, queued>>

\* ... takes an entry in CmdList_OutData's critical section ...
OutData ==
  /\ cpc = "take"
  /\ taken' = Append(taken, data[front])
  /\ front' = NextSlot(front)
  /\ cpc' = "handle"
  /\ UNCHANGED <<data, rear, pc, item, timeout, ret, cmdfail, fed, running,
                 offered, queued>>

\* ... and comes back once the entry is handled.
Handled ==
  /\ cpc = "handle"
  /\ cpc' = "poll"
  /\ UNCHANGED <<data, front, rear, pc, item, timeout, ret, cmdfail, fed,
                 running, offered, queued, taken>>

ConsumerExit ==
  /\ cpc = "poll" /\ ~running
  /\ cpc' = "exit"
  /\ UNCHANGED <<data, front, rear, pc, item, timeout, ret, cmdfail, fed,
                 running, offered, queued, taken>>

\* Some thread clears g_running (a card swap, an update, a lost P2P login).
Shutdown ==
  /\ running
  /\ running' = FALSE
  /\ UNCHANGED <<data, front, rear, pc, item, timeout, ret, cmdfail, fed, cpc,
                 offered, queued, taken>>

Consumer == Poll \/ OutData \/ Handled \/ ConsumerExit

Step(p) == Attempt(p) \/ Insert(p) \/ GiveUp(p) \/ Abandon(p) \/ Leave(p)

Next ==
  \/ \E p \in Producers : Step(p) \/ \E e \in Entry : Call(p, e)
  \/ Consumer
  \/ Shutdown

Spec == Init /\ [][Next]_vars

(* Every thread keeps running: the sleeps of the retry loop and of the     *)
(* consumer are bounded, and so is every handler of this queue.            *)
FairSpec == Spec /\ WF_vars(Consumer) /\ \A p \in Producers : WF_vars(Step(p))

---------------------------------------------------------------------------
(* Properties *)

\* What the ring holds, oldest first.
Used == IF front <= rear THEN rear - front ELSE rear - front + CMD_QUEUE_LEN

SlotAt(i) == IF front + i - 1 < CMD_QUEUE_LEN
             THEN front + i - 1
             ELSE front + i - 1 - CMD_QUEUE_LEN

Contents == [i \in 1 .. Used |-> data[SlotAt(i)]]

(* Every entry written to the ring has been handed to the consumer or is   *)
(* still in the ring, in order (quelist.c: what "list is full" protects).  *)
NoLoss == queued = taken \o Contents

(* The ring of one producer is a bounded FIFO queue, step by step.         *)
Fifo == INSTANCE FifoQueue WITH queue <- Contents, Capacity <- CMD_QUEUE_LEN - 1

FifoSpec == Fifo!Spec

(* However many threads insert: what the consumer is handed was written,    *)
(* comes in the order it was written in and never twice, and what is lost   *)
(* between two entries is whole rounds of the ring.  Going wrong: an entry  *)
(* handed over again, or one of a round that was given up, when the indices *)
(* have passed each other between a test and the mutex.                     *)
OnlyRoundsLost ==
  \E f \in [1 .. Len(taken) -> 1 .. Len(queued)] :
    /\ \A i, j \in 1 .. Len(taken) : i < j => f[i] < f[j]
    /\ \A i \in 1 .. Len(taken) :
         taken[i] = queued[f[i]] /\ (f[i] - i) % CMD_QUEUE_LEN = 0

\* The entries written to the ring so far.
Added == {queued[i] : i \in 1 .. Len(queued)}

(* A call that returned SUCCESS added its entry, unless the gateway is     *)
(* stopping ("make sure it is added to the queue", vavahal.c:3509).        *)
SuccessMeansAdded ==
  \A p \in Producers : ret[p] = "SUCCESS" => item[p] \in Added \/ ~running

(* A call that returned error 54, "inserting into the queue failed"        *)
(* (basetype.h:1567), added nothing.                                       *)
FailureMeansNotAdded ==
  \A p \in Producers : ret[p] = "INSET_LIST_FAIL" => item[p] \notin Added

(* Every entry added is handed to the consumer, unless the gateway stops.  *)
AddedIsTaken ==
  \A e \in Entry :
    (e \in Added) ~> (~running \/ \E i \in 1 .. Len(taken) : taken[i] = e)
=============================================================================
