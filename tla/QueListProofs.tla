--------------------------- MODULE QueListProofs ---------------------------
(***************************************************************************)
(* Proofs about QueList, for every ring length, every set of entries and   *)
(* every number of attempts.                                               *)
(***************************************************************************)
EXTENDS QueList, SequenceTheorems, TLAPS

(* The successor of a slot, without the modulus.                           *)
LEMMA NextSlotCases ==
  ASSUME NEW s \in RingSlots
  PROVE  /\ NextSlot(s) \in RingSlots
         /\ s = CMD_QUEUE_LEN - 1 => NextSlot(s) = 0
         /\ s # CMD_QUEUE_LEN - 1 => NextSlot(s) = s + 1
<1>1. CMD_QUEUE_LEN \in Nat /\ CMD_QUEUE_LEN > 0
  BY RingAssumption
<1>2. CASE s = CMD_QUEUE_LEN - 1
  <2>1. NextSlot(s) = CMD_QUEUE_LEN % CMD_QUEUE_LEN
    BY <1>1, <1>2 DEF NextSlot, RingSlots
  <2>2. CMD_QUEUE_LEN % CMD_QUEUE_LEN = 0
    BY <1>1
  <2> QED BY <1>1, <1>2, <2>1, <2>2 DEF RingSlots
<1>3. CASE s # CMD_QUEUE_LEN - 1
  <2>1. s + 1 \in Nat /\ s + 1 < CMD_QUEUE_LEN
    BY <1>1, <1>3 DEF RingSlots
  <2>2. (s + 1) % CMD_QUEUE_LEN = s + 1
    BY <1>1, <2>1
  <2> QED BY <1>1, <1>3, <2>1, <2>2 DEF NextSlot, RingSlots
<1> QED BY <1>2, <1>3

(* One producer: the gap between its test and its critical section is     *)
(* closed, because only the consumer can change what it tested.            *)
OneProducer == \E p \in Producers : Producers = {p}

ProducerHasRoom == \A p \in Producers : pc[p] = "insert" => ~IsFull

ConsumerHasEntry == cpc = "take" => ~IsEmpty

RingInv == TypeOK /\ ProducerHasRoom /\ ConsumerHasEntry /\ NoLoss

(* Attempts left are only tested once they are counted down.               *)
AttemptsLeft == \A p \in Producers : pc[p] = "attempt" => timeout[p] >= 0

TypeInv == TypeOK /\ AttemptsLeft

LEMMA TypeStep == TypeInv /\ [Next]_vars => TypeInv'
<1> SUFFICES ASSUME TypeInv, [Next]_vars PROVE TypeInv'
  OBVIOUS
<1> USE DEF TypeInv, TypeOK, AttemptsLeft
<1>0. Tries \in Nat /\ Tries > 0
  BY RingAssumption
<1>1. ASSUME NEW p \in Producers, NEW e \in Entry, Call(p, e) PROVE TypeInv'
  BY <1>0, <1>1 DEF Call
<1>2. ASSUME NEW p \in Producers, Attempt(p) PROVE TypeInv'
  BY <1>0, <1>2 DEF Attempt
<1>3. ASSUME NEW p \in Producers, Insert(p) PROVE TypeInv'
  <2>1. NextSlot(rear) \in RingSlots
    BY NextSlotCases
  <2>2. Append(queued, item[p]) \in Seq(Entry \cup {None})
    OBVIOUS
  <2> QED BY <1>3, <2>1, <2>2 DEF Insert
<1>4. ASSUME NEW p \in Producers, GiveUp(p) PROVE TypeInv'
  <2>1. timeout[p] = 0
    BY <1>0, <1>4 DEF GiveUp
  <2> QED BY <1>0, <1>4, <2>1 DEF GiveUp
<1>5. ASSUME NEW p \in Producers, Abandon(p) PROVE TypeInv'
  BY <1>5 DEF Abandon
<1>6. ASSUME NEW p \in Producers, Leave(p) PROVE TypeInv'
  BY <1>6 DEF Leave, ReturnCode, WatchDog_Stop
<1>7. CASE Poll
  BY <1>7 DEF Poll
<1>8. CASE OutData
  <2>1. NextSlot(front) \in RingSlots
    BY NextSlotCases
  <2>2. Append(taken, data[front]) \in Seq(Entry \cup {None})
    OBVIOUS
  <2> QED BY <1>8, <2>1, <2>2 DEF OutData
<1>9. CASE Handled \/ ConsumerExit
  BY <1>9 DEF Handled, ConsumerExit
<1>10. CASE Shutdown
  BY <1>10 DEF Shutdown
<1>11. CASE UNCHANGED vars
  BY <1>11 DEF vars
<1> QED
  BY <1>1, <1>2, <1>3, <1>4, <1>5, <1>6, <1>7, <1>8, <1>9, <1>10, <1>11
     DEF Next, Step, Consumer

(* The state is of its type, whatever the number of producers.             *)
THEOREM TypeCorrect == Spec => []TypeOK
<1>1. Init => TypeInv
  BY RingAssumption DEF Init, TypeInv, TypeOK, AttemptsLeft, RingSlots
<1>2. TypeInv => TypeOK
  BY DEF TypeInv
<1> QED BY <1>1, <1>2, TypeStep, PTL DEF Spec

(* Between front and rear, front included, lie the Used slots.             *)
LEMMA UsedBound ==
  ASSUME TypeOK
  PROVE  /\ Used \in 0 .. CMD_QUEUE_LEN - 1
         /\ \A i \in 1 .. Used : SlotAt(i) \in RingSlots /\ SlotAt(i) # rear
         /\ Used = 0 <=> IsEmpty
         /\ Used = CMD_QUEUE_LEN - 1 <=> IsFull
<1>1. CMD_QUEUE_LEN \in Nat /\ CMD_QUEUE_LEN > 0
  BY RingAssumption
<1>2. front \in RingSlots /\ rear \in RingSlots
  BY DEF TypeOK
<1>3. NextSlot(rear) \in RingSlots
      /\ (rear = CMD_QUEUE_LEN - 1 => NextSlot(rear) = 0)
      /\ (rear # CMD_QUEUE_LEN - 1 => NextSlot(rear) = rear + 1)
  BY <1>2, NextSlotCases
<1>4. Used \in 0 .. CMD_QUEUE_LEN - 1
  BY <1>1, <1>2 DEF Used, RingSlots
<1>5. \A i \in 1 .. Used : SlotAt(i) \in RingSlots /\ SlotAt(i) # rear
  BY <1>1, <1>2 DEF Used, SlotAt, RingSlots
<1>6. Used = 0 <=> IsEmpty
  BY <1>1, <1>2 DEF Used, RingSlots, IsEmpty
<1>7. Used = CMD_QUEUE_LEN - 1 <=> IsFull
  BY <1>1, <1>2, <1>3 DEF Used, RingSlots, IsFull
<1> QED BY <1>4, <1>5, <1>6, <1>7

LEMMA ContentsType ==
  ASSUME TypeOK
  PROVE  Contents \in Seq(Entry \cup {None}) /\ Len(Contents) = Used
<1>1. Used \in Nat
  BY UsedBound, RingAssumption
<1>2. \A i \in 1 .. Used : data[SlotAt(i)] \in Entry \cup {None}
  BY UsedBound DEF TypeOK
<1> QED BY <1>1, <1>2 DEF Contents

(* Inserting into a ring with room puts the entry behind the others.       *)
LEMMA InsertAppends ==
  ASSUME TypeOK, NEW p \in Producers, Insert(p), ~IsFull
  PROVE  Contents' = Append(Contents, item[p])
<1>1. CMD_QUEUE_LEN \in Nat /\ CMD_QUEUE_LEN > 0
  BY RingAssumption
<1>2. front \in RingSlots /\ rear \in RingSlots /\ data \in [RingSlots -> Entry \cup {None}]
  BY DEF TypeOK
<1>3. NextSlot(rear) \in RingSlots
      /\ (rear = CMD_QUEUE_LEN - 1 => NextSlot(rear) = 0)
      /\ (rear # CMD_QUEUE_LEN - 1 => NextSlot(rear) = rear + 1)
  BY <1>2, NextSlotCases
<1>4. /\ front' = front /\ rear' = NextSlot(rear)
      /\ data' = [data EXCEPT ![rear] = item[p]]
  BY DEF Insert
<1>5. Used' = Used + 1
  BY <1>1, <1>2, <1>3, <1>4 DEF Used, RingSlots, IsFull
<1>6. \A i \in 1 .. Used : SlotAt(i)' = SlotAt(i) /\ data'[SlotAt(i)] = data[SlotAt(i)]
  BY <1>2, <1>4, UsedBound DEF SlotAt
<1>7. \A n \in Nat : n = Used => SlotAt(n + 1)' = rear
  BY <1>1, <1>2, <1>4 DEF SlotAt, Used, RingSlots
<1>8. data'[rear] = item[p]
  BY <1>2, <1>4
<1>9. Used \in Nat /\ Contents \in Seq(Entry \cup {None}) /\ Len(Contents) = Used
  BY UsedBound, ContentsType, <1>1
<1>10. Contents' = [i \in 1 .. Used + 1 |-> data'[SlotAt(i)']]
  BY <1>5 DEF Contents
<1>11. \A i \in 1 .. Used + 1 : data'[SlotAt(i)'] = IF i = Used + 1 THEN item[p] ELSE Contents[i]
  <2> TAKE i \in 1 .. Used + 1
  <2>1. CASE i = Used + 1
    BY <2>1, <1>7, <1>8, <1>9
  <2>2. CASE i # Used + 1
    <3>1. i \in 1 .. Used
      BY <2>2, <1>9
    <3>2. SlotAt(i)' = SlotAt(i) /\ data'[SlotAt(i)] = data[SlotAt(i)]
      BY <3>1, <1>6
    <3>3. Contents[i] = data[SlotAt(i)]
      BY <3>1 DEF Contents
    <3> QED BY <2>2, <3>2, <3>3
  <2> QED BY <2>1, <2>2
<1> QED BY <1>9, <1>10, <1>11

(* Taking from a ring that is not empty takes the oldest entry.            *)
LEMMA OutDataTakesHead ==
  ASSUME TypeOK, OutData, ~IsEmpty
  PROVE  /\ Contents # <<>>
         /\ data[front] = Head(Contents)
         /\ Contents' = Tail(Contents)
<1>1. CMD_QUEUE_LEN \in Nat /\ CMD_QUEUE_LEN > 0
  BY RingAssumption
<1>2. front \in RingSlots /\ rear \in RingSlots
  BY DEF TypeOK
<1>3. NextSlot(front) \in RingSlots
      /\ (front = CMD_QUEUE_LEN - 1 => NextSlot(front) = 0)
      /\ (front # CMD_QUEUE_LEN - 1 => NextSlot(front) = front + 1)
  BY <1>2, NextSlotCases
<1>4. front' = NextSlot(front) /\ rear' = rear /\ data' = data
  BY DEF OutData
<1>5. Used \in Nat /\ Used > 0 /\ Contents \in Seq(Entry \cup {None}) /\ Len(Contents) = Used
  BY UsedBound, ContentsType, <1>1
<1>6. Used' = Used - 1
  BY <1>1, <1>2, <1>3, <1>4 DEF Used, RingSlots, IsEmpty
<1>7. SlotAt(1) = front
  BY <1>1, <1>2 DEF SlotAt, RingSlots
<1>8. \A i \in 1 .. Used - 1 : SlotAt(i)' = SlotAt(i + 1)
  <2> TAKE i \in 1 .. Used - 1
  <2>1. i \in Nat /\ i > 0 /\ i < CMD_QUEUE_LEN
    BY <1>1, <1>5, UsedBound
  <2>2. CASE front = CMD_QUEUE_LEN - 1
    BY <1>1, <1>3, <1>4, <2>1, <2>2 DEF SlotAt
  <2>3. CASE front # CMD_QUEUE_LEN - 1
    BY <1>1, <1>2, <1>3, <1>4, <2>1, <2>3 DEF SlotAt, RingSlots
  <2> QED BY <2>2, <2>3
<1>9. data[front] = Contents[1]
  BY <1>5, <1>7 DEF Contents
<1>10. Contents' = [i \in 1 .. Used - 1 |-> data[SlotAt(i)']]
  BY <1>4, <1>6 DEF Contents
<1>11. \A i \in 1 .. Used - 1 : data[SlotAt(i)'] = Contents[i + 1]
  BY <1>5, <1>8 DEF Contents
<1>12. Contents # <<>> /\ Head(Contents) = Contents[1]
  BY <1>5
<1>13. /\ Tail(Contents) \in Seq(Entry \cup {None})
       /\ Len(Tail(Contents)) = Used - 1
       /\ \A i \in 1 .. Used - 1 : Tail(Contents)[i] = Contents[i + 1]
  BY <1>5, <1>12, HeadTailProperties
<1>14. Contents' = Tail(Contents)
  <2>1. Tail(Contents) \in [1 .. Used - 1 -> Entry \cup {None}]
    BY <1>13, LenProperties
  <2>2. Contents' = [i \in 1 .. Used - 1 |-> Contents[i + 1]]
    BY <1>10, <1>11
  <2> QED BY <1>13, <2>1, <2>2
<1> QED BY <1>9, <1>12, <1>14

(* A step that leaves the ring alone leaves what it holds alone.           *)
LEMMA ContentsUnchanged ==
  ASSUME UNCHANGED <<data, front, rear>>
  PROVE  Contents' = Contents /\ Used' = Used
BY DEF Contents, Used, SlotAt

(* With one producer, RingInv is inductive: the two tests still hold when  *)
(* the critical sections they guard run, and no entry is lost or reordered.*)
LEMMA RingStep ==
  ASSUME OneProducer, TypeOK, TypeOK', RingInv, [Next]_vars
  PROVE  RingInv'
<1> PICK p0 \in Producers : Producers = {p0}
  BY DEF OneProducer
<1> USE DEF RingInv, ProducerHasRoom, ConsumerHasEntry
<1>0. queued = taken \o Contents
  BY DEF NoLoss
<1>1. ASSUME NEW p \in Producers, NEW e \in Entry, Call(p, e) PROVE RingInv'
  BY <1>0, <1>1, ContentsUnchanged DEF Call, TypeOK, IsFull, IsEmpty, NoLoss
<1>2. ASSUME NEW p \in Producers, Attempt(p) PROVE RingInv'
  BY <1>0, <1>2, ContentsUnchanged DEF Attempt, TypeOK, IsFull, IsEmpty, NoLoss
<1>3. ASSUME NEW p \in Producers, Insert(p) PROVE RingInv'
  <2>1. ~IsFull
    BY <1>3 DEF Insert
  <2>2. Contents' = Append(Contents, item[p])
    BY <1>3, <2>1, InsertAppends
  <2>3. Contents \in Seq(Entry \cup {None}) /\ taken \in Seq(Entry \cup {None})
        /\ item[p] \in Entry \cup {None}
    BY ContentsType DEF TypeOK
  <2>4. taken \o Append(Contents, item[p]) = Append(taken \o Contents, item[p])
    BY <2>3
  <2>5. NoLoss'
    BY <1>0, <1>3, <2>2, <2>4 DEF Insert, NoLoss
  <2>6. \A q \in Producers : pc'[q] # "insert"
    BY <1>3 DEF Insert, TypeOK
  <2>7. ~IsEmpty'
    BY <1>3, <2>1 DEF Insert, IsFull, IsEmpty
  <2> QED BY <2>5, <2>6, <2>7
<1>4. ASSUME NEW p \in Producers, GiveUp(p) PROVE RingInv'
  BY <1>0, <1>4, ContentsUnchanged DEF GiveUp, TypeOK, IsFull, IsEmpty, NoLoss
<1>5. ASSUME NEW p \in Producers, Abandon(p) PROVE RingInv'
  BY <1>0, <1>5, ContentsUnchanged DEF Abandon, TypeOK, IsFull, IsEmpty, NoLoss
<1>6. ASSUME NEW p \in Producers, Leave(p) PROVE RingInv'
  BY <1>0, <1>6, ContentsUnchanged DEF Leave, TypeOK, IsFull, IsEmpty, NoLoss
<1>7. CASE Poll
  BY <1>0, <1>7, ContentsUnchanged DEF Poll, TypeOK, IsFull, IsEmpty, NoLoss
<1>8. CASE OutData
  <2>1. ~IsEmpty
    BY <1>8 DEF OutData
  <2>2. Contents # <<>> /\ data[front] = Head(Contents) /\ Contents' = Tail(Contents)
    BY <1>8, <2>1, OutDataTakesHead
  <2>3. Contents \in Seq(Entry \cup {None}) /\ taken \in Seq(Entry \cup {None})
    BY ContentsType DEF TypeOK
  <2>4. taken \o Contents = Append(taken, Head(Contents)) \o Tail(Contents)
    BY <2>2, <2>3, HeadTailProperties
  <2>5. NoLoss'
    BY <1>0, <1>8, <2>2, <2>4 DEF OutData, NoLoss
  <2>6. front \in RingSlots /\ rear \in RingSlots /\ CMD_QUEUE_LEN \in Nat
    BY RingAssumption DEF TypeOK
  <2>7. NextSlot(front) # NextSlot(rear)
    BY <2>1, <2>6, NextSlotCases DEF IsEmpty, RingSlots
  <2>8. ~IsFull'
    BY <1>8, <2>7 DEF OutData, IsFull, NextSlot
  <2> QED BY <1>8, <2>5, <2>8 DEF OutData
<1>9. CASE Handled \/ ConsumerExit
  BY <1>0, <1>9, ContentsUnchanged DEF Handled, ConsumerExit, IsFull, IsEmpty, NoLoss
<1>10. CASE Shutdown
  BY <1>0, <1>10, ContentsUnchanged DEF Shutdown, IsFull, IsEmpty, NoLoss
<1>11. CASE UNCHANGED vars
  BY <1>0, <1>11, ContentsUnchanged DEF vars, IsFull, IsEmpty, NoLoss
<1> QED
  BY <1>1, <1>2, <1>3, <1>4, <1>5, <1>6, <1>7, <1>8, <1>9, <1>10, <1>11
     DEF Next, Step, Consumer

LEMMA RingInit == Init => RingInv
<1> SUFFICES ASSUME Init PROVE RingInv
  OBVIOUS
<1>1. TypeOK
  BY RingAssumption DEF Init, TypeOK, RingSlots
<1>2. Contents = <<>>
  <2>1. Used = 0
    BY DEF Init, Used
  <2> QED BY <2>1, <1>1, ContentsType
<1>3. NoLoss
  BY <1>2 DEF Init, NoLoss
<1> QED BY <1>1, <1>3 DEF RingInv, ProducerHasRoom, ConsumerHasEntry, Init

(* A ring with one producer never loses an entry: what was written is what *)
(* was taken followed by what the ring holds.                              *)
THEOREM NoEntryLost == ASSUME OneProducer PROVE Spec => []NoLoss
<1>1. RingInv /\ TypeOK' /\ [Next]_vars => RingInv'
  BY RingStep DEF RingInv
<1>2. RingInv => NoLoss
  BY DEF RingInv
<1> QED BY <1>1, <1>2, RingInit, TypeCorrect, PTL DEF Spec

(* A call under way carries an entry.                                      *)
CallHasItem == \A p \in Producers : pc[p] # "idle" => item[p] \in Entry

LEMMA CallHasItemStep ==
  ASSUME TypeOK, CallHasItem, [Next]_vars PROVE CallHasItem'
<1> USE DEF CallHasItem, TypeOK
<1>1. ASSUME NEW p \in Producers, NEW e \in Entry, Call(p, e) PROVE CallHasItem'
  BY <1>1 DEF Call
<1>2. ASSUME NEW p \in Producers, Step(p) PROVE CallHasItem'
  BY <1>2 DEF Step, Attempt, Insert, GiveUp, Abandon, Leave
<1>3. CASE Consumer \/ Shutdown
  BY <1>3 DEF Consumer, Poll, OutData, Handled, ConsumerExit, Shutdown
<1>4. CASE UNCHANGED vars
  BY <1>4 DEF vars
<1> QED BY <1>1, <1>2, <1>3, <1>4 DEF Next

(* A ring with one producer implements the bounded FIFO queue: an insertion*)
(* is a Put, a removal a Get, and every other step leaves the queue alone. *)
THEOREM RingIsFifo == ASSUME OneProducer PROVE Spec => FifoSpec
<1>1. Init => Fifo!Init
  <2> SUFFICES ASSUME Init PROVE Fifo!Init
    OBVIOUS
  <2>1. TypeOK /\ Used = 0
    BY RingInit DEF RingInv, Init, Used
  <2>2. Contents = <<>>
    BY <2>1, ContentsType
  <2> QED BY <2>2 DEF Init, Fifo!Init
<1>2. ASSUME RingInv, CallHasItem, [Next]_vars
      PROVE  [Fifo!Next]_(Fifo!vars)
  <2> USE DEF RingInv
  <2>1. ASSUME NEW p \in Producers, Insert(p) PROVE Fifo!Put(item[p])
    <3>1. ~IsFull
      BY <2>1, <1>2 DEF Insert, ProducerHasRoom
    <3>2. Contents' = Append(Contents, item[p])
      BY <1>2, <2>1, <3>1, InsertAppends
    <3>3. Len(Contents) < CMD_QUEUE_LEN - 1
      BY <1>2, <3>1, UsedBound, ContentsType, RingAssumption
    <3>4. taken' = taken
      BY <2>1 DEF Insert
    <3> QED BY <3>2, <3>3, <3>4 DEF Fifo!Put
  <2>2. ASSUME NEW p \in Producers, Insert(p) PROVE Fifo!Next
    BY <1>2, <2>1, <2>2 DEF Fifo!Next, CallHasItem, Insert
  <2>3. CASE OutData
    <3>1. Contents # <<>> /\ data[front] = Head(Contents) /\ Contents' = Tail(Contents)
      BY <1>2, <2>3, OutDataTakesHead DEF OutData, ConsumerHasEntry
    <3>2. Fifo!Get
      BY <2>3, <3>1 DEF OutData, Fifo!Get
    <3> QED BY <3>2 DEF Fifo!Next
  <2>4. ASSUME UNCHANGED <<data, front, rear, taken>> PROVE UNCHANGED Fifo!vars
    BY <2>4, ContentsUnchanged DEF Fifo!vars
  <2>5. \/ \E p \in Producers : Insert(p)
        \/ OutData
        \/ UNCHANGED <<data, front, rear, taken>>
    BY <1>2 DEF Next, Step, Consumer, Call, Attempt, GiveUp, Abandon, Leave, Poll,
                Handled, ConsumerExit, Shutdown, vars
  <2> QED BY <2>2, <2>3, <2>4, <2>5
<1>3. RingInv /\ TypeOK' /\ [Next]_vars => RingInv'
  BY RingStep DEF RingInv
<1>4. Init => CallHasItem
  BY DEF Init, CallHasItem
<1>5. RingInv /\ CallHasItem /\ [Next]_vars => CallHasItem'
  BY CallHasItemStep DEF RingInv
<1> QED
  BY <1>1, <1>2, <1>3, <1>4, <1>5, RingInit, TypeCorrect, PTL
     DEF Spec, FifoSpec, Fifo!Spec

(* What "returned SUCCESS" rests on, for any number of producers: a call   *)
(* on its way out wrote its entry, or has no attempt left, or leaves       *)
(* because the gateway stops.                                              *)
LeaveHasReason ==
  \A p \in Producers :
    pc[p] = "leave" => item[p] \in Added \/ timeout[p] <= 0 \/ ~running

ReturnInv == LeaveHasReason /\ SuccessMeansAdded

LEMMA AddedGrows ==
  ASSUME TypeOK, NEW p \in Producers, Insert(p)
  PROVE  Added \subseteq Added' /\ item[p] \in Added'
<1>1. /\ Len(queued') = Len(queued) + 1 /\ Len(queued) \in Nat
      /\ \A i \in 1 .. Len(queued) : queued'[i] = queued[i]
      /\ queued'[Len(queued) + 1] = item[p]
  BY DEF TypeOK, Insert
<1>2. \A i \in 1 .. Len(queued) : i \in 1 .. Len(queued')
  BY <1>1
<1>3. Len(queued) + 1 \in 1 .. Len(queued')
  BY <1>1
<1> QED BY <1>1, <1>2, <1>3 DEF Added

LEMMA ReturnStep ==
  ASSUME TypeOK, ReturnInv, [Next]_vars PROVE ReturnInv'
<1> USE DEF ReturnInv, LeaveHasReason, SuccessMeansAdded, TypeOK
<1>1. UNCHANGED queued => Added' = Added
  BY DEF Added
<1>2. ASSUME NEW p \in Producers, NEW e \in Entry, Call(p, e) PROVE ReturnInv'
  BY <1>1, <1>2 DEF Call
<1>3. ASSUME NEW p \in Producers, Attempt(p) PROVE ReturnInv'
  BY <1>1, <1>3 DEF Attempt
<1>4. ASSUME NEW p \in Producers, Insert(p) PROVE ReturnInv'
  BY <1>4, AddedGrows DEF Insert
<1>5. ASSUME NEW p \in Producers, GiveUp(p) PROVE ReturnInv'
  <2>1. timeout'[p] <= 0
    BY <1>5 DEF GiveUp
  <2> QED BY <1>1, <1>5, <2>1 DEF GiveUp
<1>6. ASSUME NEW p \in Producers, Abandon(p) PROVE ReturnInv'
  BY <1>1, <1>6 DEF Abandon
<1>7. ASSUME NEW p \in Producers, Leave(p) PROVE ReturnInv'
  BY <1>1, <1>7 DEF Leave, ReturnCode
<1>8. CASE Consumer
  BY <1>1, <1>8 DEF Consumer, Poll, OutData, Handled, ConsumerExit
<1>9. CASE Shutdown
  BY <1>1, <1>9 DEF Shutdown
<1>10. CASE UNCHANGED vars
  BY <1>1, <1>10 DEF vars
<1> QED
  BY <1>2, <1>3, <1>4, <1>5, <1>6, <1>7, <1>8, <1>9, <1>10 DEF Next, Step

(* A call that returned SUCCESS added its entry, unless the gateway stops, *)
(* however many threads insert into the ring (vavahal.c:3509).             *)
THEOREM SuccessIsAdded == Spec => []SuccessMeansAdded
<1>1. Init => ReturnInv
  BY DEF Init, ReturnInv, LeaveHasReason, SuccessMeansAdded
<1>2. ReturnInv => SuccessMeansAdded
  BY DEF ReturnInv
<1>3. TypeOK /\ ReturnInv /\ [Next]_vars => ReturnInv'
  BY ReturnStep
<1> QED BY <1>1, <1>2, <1>3, TypeCorrect, PTL DEF Spec
-----------------------------------------------------------------------------
(* Several producers.  Counting entries from the beginning, the indices and *)
(* the numbers of entries written and taken differ by whole rounds.         *)
Rounds(a, b) == \E k \in Nat : b = a + k * CMD_QUEUE_LEN

LEMMA LengthIs == CMD_QUEUE_LEN \in Nat /\ CMD_QUEUE_LEN > 0
BY RingAssumption

LEMMA RoundsStart == ASSUME NEW a \in Nat PROVE Rounds(a, a)
<1>1. 0 * CMD_QUEUE_LEN = 0
  BY LengthIs
<1>2. a = a + 0 * CMD_QUEUE_LEN
  BY <1>1
<1> QED BY <1>2 DEF Rounds

LEMMA RoundsAgain ==
  ASSUME NEW a \in Nat, NEW b \in Nat, NEW c \in Nat, Rounds(a, b), Rounds(b, c)
  PROVE  Rounds(a, c)
<1>1. PICK k \in Nat : b = a + k * CMD_QUEUE_LEN
  BY DEF Rounds
<1>2. PICK m \in Nat : c = b + m * CMD_QUEUE_LEN
  BY DEF Rounds
<1>3. (k + m) * CMD_QUEUE_LEN = k * CMD_QUEUE_LEN + m * CMD_QUEUE_LEN
  BY LengthIs
<1>4. k * CMD_QUEUE_LEN \in Nat /\ m * CMD_QUEUE_LEN \in Nat /\ k + m \in Nat
  BY LengthIs
<1>5. c = a + (k + m) * CMD_QUEUE_LEN
  BY <1>1, <1>2, <1>3, <1>4
<1> QED BY <1>4, <1>5 DEF Rounds

LEMMA RoundsNext ==
  ASSUME NEW a \in Nat, NEW b \in Nat
  PROVE  Rounds(a, b) <=> Rounds(a + 1, b + 1)
<1>1. ASSUME NEW k \in Nat PROVE b = a + k * CMD_QUEUE_LEN
                                   <=> b + 1 = a + 1 + k * CMD_QUEUE_LEN
  <2>1. k * CMD_QUEUE_LEN \in Nat
    BY LengthIs
  <2> QED BY <2>1
<1> QED BY <1>1 DEF Rounds

(* Whole rounds apart and less than one round apart is no distance.         *)
LEMMA WithinRound ==
  ASSUME NEW a \in Nat, NEW b \in Nat, Rounds(a, b), b - a < CMD_QUEUE_LEN
  PROVE  a = b
<1>1. PICK k \in Nat : b = a + k * CMD_QUEUE_LEN
  BY DEF Rounds
<1>2. CASE k = 0
  <2>1. 0 * CMD_QUEUE_LEN = 0
    BY LengthIs
  <2> QED BY <1>1, <1>2, <2>1
<1>3. CASE k # 0
  <2>1. k * CMD_QUEUE_LEN = CMD_QUEUE_LEN + (k - 1) * CMD_QUEUE_LEN
    BY LengthIs, <1>3
  <2>2. (k - 1) * CMD_QUEUE_LEN \in Nat
    BY LengthIs, <1>3
  <2> QED BY <1>1, <2>1, <2>2, LengthIs
<1> QED BY <1>2, <1>3

(* A slot's numbers are whole rounds apart.                                 *)
LEMMA SameSlot ==
  ASSUME NEW s \in Nat, NEW a \in Nat, NEW b \in Nat,
         Rounds(s, a), Rounds(s, b), a <= b
  PROVE  Rounds(a, b)
<1>1. PICK k \in Nat : a = s + k * CMD_QUEUE_LEN
  BY DEF Rounds
<1>2. PICK m \in Nat : b = s + m * CMD_QUEUE_LEN
  BY DEF Rounds
<1>3. m * CMD_QUEUE_LEN = k * CMD_QUEUE_LEN + (m - k) * CMD_QUEUE_LEN
  BY LengthIs
<1>4. k * CMD_QUEUE_LEN \in Nat /\ m * CMD_QUEUE_LEN \in Nat
      /\ (m - k) * CMD_QUEUE_LEN \in Int
  BY LengthIs
<1>5. b = a + (m - k) * CMD_QUEUE_LEN
  BY <1>1, <1>2, <1>3, <1>4
<1>6. CASE m >= k
  BY <1>5, <1>6 DEF Rounds
<1>7. CASE m < k
  <2>1. k - m \in Nat /\ k - m >= 1
    BY <1>7
  <2>2. (k - m) * CMD_QUEUE_LEN = CMD_QUEUE_LEN + (k - m - 1) * CMD_QUEUE_LEN
    BY LengthIs, <2>1
  <2>3. (k - m - 1) * CMD_QUEUE_LEN \in Nat
    BY LengthIs, <2>1
  <2>4. (m - k) * CMD_QUEUE_LEN = 0 - (k - m) * CMD_QUEUE_LEN
    BY LengthIs
  <2> QED BY <1>4, <1>5, <2>2, <2>3, <2>4, LengthIs
<1> QED BY <1>6, <1>7

(* One number's slot is unique.                                             *)
LEMMA OneSlot ==
  ASSUME NEW s \in RingSlots, NEW t \in RingSlots, NEW a \in Nat,
         Rounds(s, a), Rounds(t, a)
  PROVE  s = t
<1>1. s \in Nat /\ t \in Nat /\ s < CMD_QUEUE_LEN /\ t < CMD_QUEUE_LEN
  BY LengthIs DEF RingSlots
<1>2. PICK k \in Nat : a = s + k * CMD_QUEUE_LEN
  BY DEF Rounds
<1>3. PICK m \in Nat : a = t + m * CMD_QUEUE_LEN
  BY DEF Rounds
<1>4. ASSUME NEW x \in Nat, NEW y \in Nat, NEW i \in Nat, NEW j \in Nat,
             x + i * CMD_QUEUE_LEN = y + j * CMD_QUEUE_LEN, x < CMD_QUEUE_LEN, i < j
      PROVE  FALSE
  <2>1. j * CMD_QUEUE_LEN = i * CMD_QUEUE_LEN + CMD_QUEUE_LEN + (j - i - 1) * CMD_QUEUE_LEN
    BY LengthIs
  <2>2. i * CMD_QUEUE_LEN \in Nat /\ (j - i - 1) * CMD_QUEUE_LEN \in Nat
        /\ j * CMD_QUEUE_LEN \in Nat
    BY LengthIs, <1>4
  <2> QED BY <1>4, <2>1, <2>2, LengthIs
<1>5. k = m
  BY <1>1, <1>2, <1>3, <1>4
<1>6. k * CMD_QUEUE_LEN \in Nat
  BY LengthIs
<1> QED BY <1>1, <1>2, <1>3, <1>5, <1>6

(* The successor of a number's slot is the next number's.                   *)
LEMMA NextRound ==
  ASSUME NEW s \in RingSlots, NEW a \in Nat, Rounds(s, a)
  PROVE  Rounds(NextSlot(s), a + 1)
<1>1. s \in Nat
  BY LengthIs DEF RingSlots
<1>2. Rounds(s + 1, a + 1)
  BY <1>1, RoundsNext
<1>3. CASE s # CMD_QUEUE_LEN - 1
  BY <1>2, <1>3, NextSlotCases
<1>4. CASE s = CMD_QUEUE_LEN - 1
  <2>1. Rounds(0, CMD_QUEUE_LEN)
    <3>1. CMD_QUEUE_LEN = 0 + 1 * CMD_QUEUE_LEN
      BY LengthIs
    <3> QED BY <3>1 DEF Rounds
  <2>2. s + 1 = CMD_QUEUE_LEN
    BY <1>4, LengthIs
  <2>3. Rounds(0, a + 1)
    BY <1>2, <2>1, <2>2, RoundsAgain, LengthIs
  <2> QED BY <1>4, <2>3, NextSlotCases
<1> QED BY <1>3, <1>4

(* The last number up to n that is whole rounds behind a.                   *)
LEMMA LatestOf ==
  ASSUME NEW a \in Nat, NEW n \in Nat, a <= n
  PROVE  \E i \in a .. n : Rounds(a, i) /\ n - i < CMD_QUEUE_LEN
<1> DEFINE k == (n - a) \div CMD_QUEUE_LEN
           m == (n - a) % CMD_QUEUE_LEN
<1>1. n - a \in Nat
  OBVIOUS
<1>2. k \in Nat /\ m \in Nat /\ m < CMD_QUEUE_LEN /\ n - a = k * CMD_QUEUE_LEN + m
  BY <1>1, LengthIs
<1> HIDE DEF k, m
<1>3. k * CMD_QUEUE_LEN \in Nat
  BY <1>2, LengthIs
<1>4. n - m = a + k * CMD_QUEUE_LEN /\ n - m \in a .. n
  BY <1>2, <1>3
<1>5. Rounds(a, n - m)
  BY <1>2, <1>4 DEF Rounds
<1>6. n - (n - m) < CMD_QUEUE_LEN
  BY <1>2
<1> QED BY <1>4, <1>5, <1>6

(* Whole rounds apart, as the code's arithmetic says it.                    *)
LEMMA RoundsRemainder ==
  ASSUME NEW a \in Nat, NEW b \in Nat
  PROVE  Rounds(a, b) <=> a <= b /\ (b - a) % CMD_QUEUE_LEN = 0
<1>1. ASSUME Rounds(a, b) PROVE a <= b /\ (b - a) % CMD_QUEUE_LEN = 0
  <2>1. PICK k \in Nat : b = a + k * CMD_QUEUE_LEN
    BY <1>1 DEF Rounds
  <2>2. k * CMD_QUEUE_LEN \in Nat
    BY LengthIs
  <2>3. b - a = k * CMD_QUEUE_LEN /\ a <= b
    BY <2>1, <2>2
  <2>4. (k * CMD_QUEUE_LEN) % CMD_QUEUE_LEN = 0
    BY LengthIs
  <2> QED BY <2>3, <2>4
<1>2. ASSUME a <= b, (b - a) % CMD_QUEUE_LEN = 0 PROVE Rounds(a, b)
  <2>1. (b - a) \div CMD_QUEUE_LEN \in Nat
        /\ b - a = ((b - a) \div CMD_QUEUE_LEN) * CMD_QUEUE_LEN
    BY <1>2, LengthIs
  <2>2. b = a + ((b - a) \div CMD_QUEUE_LEN) * CMD_QUEUE_LEN
    BY <2>1
  <2> QED BY <2>1, <2>2 DEF Rounds
<1> QED BY <1>1, <1>2

(* Both indices count their entries, and a slot holds the last entry        *)
(* written whose number is its own.                                         *)
IndicesCount == Rounds(front, Len(taken)) /\ Rounds(rear, Len(queued))

SlotsHoldLatest ==
  \A i \in 1 .. Len(queued) : Len(queued) - i < CMD_QUEUE_LEN =>
    \E s \in RingSlots : Rounds(s, i - 1) /\ data[s] = queued[i]

(* f numbers the entries taken; the consumer takes when something was       *)
(* written behind the last of them.                                         *)
Numbers(f) ==
  /\ f \in [1 .. Len(taken) -> 1 .. Len(queued)]
  /\ \A i, j \in 1 .. Len(taken) : i < j => f[i] < f[j]
  /\ \A i \in 1 .. Len(taken) : taken[i] = queued[f[i]] /\ Rounds(i, f[i])

LastOf(f) == IF Len(taken) = 0 THEN 0 ELSE f[Len(taken)]

Ahead(f) == cpc = "take" => LastOf(f) < Len(queued)

RoundsInv == IndicesCount /\ SlotsHoldLatest /\ \E f : Numbers(f) /\ Ahead(f)

LEMMA LengthsNat == ASSUME TypeOK PROVE Len(taken) \in Nat /\ Len(queued) \in Nat
BY DEF TypeOK

(* The last entry taken is whole rounds of the ring behind the count.       *)
LEMMA LastIs ==
  ASSUME TypeOK, NEW f, Numbers(f)
  PROVE  /\ LastOf(f) \in 0 .. Len(queued)
         /\ Rounds(Len(taken), LastOf(f))
         /\ \A i \in 1 .. Len(taken) : f[i] <= LastOf(f)
<1>1. CASE Len(taken) = 0
  BY <1>1, LengthsNat, RoundsStart DEF LastOf
<1>2. CASE Len(taken) # 0
  <2>1. Len(taken) \in 1 .. Len(taken) /\ LastOf(f) = f[Len(taken)]
    BY <1>2, LengthsNat DEF LastOf
  <2>2. LastOf(f) \in 1 .. Len(queued) /\ Rounds(Len(taken), LastOf(f))
    BY <2>1 DEF Numbers
  <2>3. \A i \in 1 .. Len(taken) : f[i] <= LastOf(f)
    <3> TAKE i \in 1 .. Len(taken)
    <3>1. f[i] \in Nat /\ f[Len(taken)] \in Nat
      BY <2>1, LengthsNat DEF Numbers
    <3>2. i # Len(taken) => f[i] < f[Len(taken)]
      BY <2>1, LengthsNat DEF Numbers
    <3> QED BY <2>1, <3>1, <3>2
  <2> QED BY <2>2, <2>3, LengthsNat
<1> QED BY <1>1, <1>2

(* Writing moves rear on and puts the entry at the end of what was written; *)
(* the slots of the last round but this one keep their entries.             *)
LEMMA InsertRounds ==
  ASSUME TypeOK, RoundsInv, NEW p \in Producers, Insert(p)
  PROVE  RoundsInv'
<1> DEFINE N == Len(queued)
<1>1. /\ Len(queued') = N + 1 /\ N \in Nat
      /\ \A i \in 1 .. N : queued'[i] = queued[i]
      /\ queued'[N + 1] = item[p]
  BY DEF TypeOK, Insert
<1>2. /\ rear \in RingSlots /\ front' = front /\ rear' = NextSlot(rear)
      /\ data' = [data EXCEPT ![rear] = item[p]] /\ taken' = taken /\ cpc' = cpc
      /\ data \in [RingSlots -> Entry \cup {None}]
  BY DEF TypeOK, Insert
<1>3. Rounds(front, Len(taken)) /\ Rounds(rear, N)
  BY DEF RoundsInv, IndicesCount
<1>4. IndicesCount'
  BY <1>1, <1>2, <1>3, NextRound DEF IndicesCount
<1>5. SlotsHoldLatest'
  <2> SUFFICES ASSUME NEW i \in 1 .. N + 1, N + 1 - i < CMD_QUEUE_LEN
               PROVE  \E s \in RingSlots : Rounds(s, i - 1) /\ data'[s] = queued'[i]
    BY <1>1 DEF SlotsHoldLatest
  <2>1. CASE i = N + 1
    <3>1. i - 1 = N
      BY <1>1, <2>1
    <3> QED BY <1>1, <1>2, <1>3, <2>1, <3>1
  <2>2. CASE i # N + 1
    <3>1. i \in 1 .. N /\ N - i < CMD_QUEUE_LEN /\ i - 1 \in Nat /\ i - 1 <= N
      BY <1>1, <2>2, LengthIs
    <3>2. PICK s \in RingSlots : Rounds(s, i - 1) /\ data[s] = queued[i]
      BY <3>1 DEF RoundsInv, SlotsHoldLatest
    <3>3. s # rear
      <4> SUFFICES ASSUME s = rear PROVE FALSE
        OBVIOUS
      <4>1. s \in Nat
        BY LengthIs DEF RingSlots
      <4>2. Rounds(i - 1, N)
        BY <1>1, <1>3, <3>1, <3>2, <4>1, SameSlot
      <4>3. N - (i - 1) < CMD_QUEUE_LEN
        BY <1>1, <3>1
      <4>4. i - 1 = N
        BY <1>1, <3>1, <4>2, <4>3, WithinRound
      <4> QED BY <1>1, <3>1, <4>4
    <3>4. data'[s] = data[s] /\ queued'[i] = queued[i]
      BY <1>1, <1>2, <3>1, <3>3
    <3> QED BY <3>2, <3>4
  <2> QED BY <2>1, <2>2
<1>6. PICK f : Numbers(f) /\ Ahead(f)
  BY DEF RoundsInv
<1>7. Numbers(f)'
  <2>1. \A i \in 1 .. Len(taken) : f[i] \in 1 .. N
    BY <1>6 DEF Numbers
  <2>2. f \in [1 .. Len(taken) -> 1 .. N + 1]
    BY <1>1, <1>6 DEF Numbers
  <2>3. \A i \in 1 .. Len(taken) : queued'[f[i]] = queued[f[i]]
    BY <1>1, <2>1
  <2> QED BY <1>1, <1>2, <1>6, <2>2, <2>3 DEF Numbers
<1>8. Ahead(f)'
  <2>1. LastOf(f)' = LastOf(f) /\ LastOf(f) \in 0 .. N
    BY <1>2, <1>6, LastIs DEF LastOf
  <2> QED BY <1>1, <2>1 DEF Ahead
<1> QED BY <1>4, <1>5, <1>7, <1>8 DEF RoundsInv

(* Taking hands over the last entry written that is whole rounds behind the *)
(* one that is due.                                                         *)
LEMMA TakeRounds ==
  ASSUME TypeOK, RoundsInv, OutData
  PROVE  RoundsInv'
<1> DEFINE N == Len(queued)
           T == Len(taken)
<1>1. /\ Len(taken') = T + 1 /\ T \in Nat /\ N \in Nat
      /\ \A i \in 1 .. T : taken'[i] = taken[i]
      /\ taken'[T + 1] = data[front]
  BY DEF TypeOK, OutData
<1>2. /\ front \in RingSlots /\ front' = NextSlot(front) /\ rear' = rear
      /\ data' = data /\ queued' = queued /\ cpc = "take" /\ cpc' = "handle"
  BY DEF TypeOK, OutData
<1>3. Rounds(front, T) /\ Rounds(rear, N)
  BY DEF RoundsInv, IndicesCount
<1>4. IndicesCount'
  BY <1>1, <1>2, <1>3, NextRound DEF IndicesCount
<1>5. SlotsHoldLatest'
  BY <1>2 DEF RoundsInv, SlotsHoldLatest
<1>6. PICK f : Numbers(f) /\ Ahead(f)
  BY DEF RoundsInv
<1> DEFINE n == LastOf(f)
<1>7. n \in 0 .. N /\ Rounds(T, n) /\ n < N /\ \A i \in 1 .. T : f[i] <= n
  BY <1>2, <1>6, LastIs DEF Ahead
<1> HIDE DEF n
<1>8. PICK k \in n + 1 .. N : Rounds(n + 1, k) /\ N - k < CMD_QUEUE_LEN
  <2>1. n + 1 \in Nat /\ n + 1 <= N
    BY <1>1, <1>7
  <2> HIDE DEF N
  <2> QED BY <1>1, <2>1, LatestOf
<1>9. Rounds(T + 1, k) /\ Rounds(front, k - 1)
  <2>1. Rounds(T + 1, n + 1) /\ k - 1 \in Nat /\ k \in Nat
    BY <1>1, <1>7, RoundsNext
  <2>2. Rounds(T + 1, k)
    BY <1>1, <1>7, <1>8, <2>1, RoundsAgain
  <2>3. Rounds(T, k - 1)
    <3>1. k - 1 + 1 = k
      BY <2>1
    <3> QED BY <1>1, <2>1, <2>2, <3>1, RoundsNext
  <2>4. front \in Nat
    BY <1>2, LengthIs DEF RingSlots
  <2> QED BY <1>1, <1>3, <2>1, <2>2, <2>3, <2>4, RoundsAgain
<1>10. data[front] = queued[k]
  <2>1. k \in 1 .. N /\ k - 1 \in Nat
    BY <1>1, <1>7
  <2>2. PICK s \in RingSlots : Rounds(s, k - 1) /\ data[s] = queued[k]
    BY <1>8, <2>1 DEF RoundsInv, SlotsHoldLatest
  <2>3. s = front
    BY <1>2, <1>9, <2>1, <2>2, OneSlot
  <2> QED BY <2>2, <2>3
<1> PICK g : g = [i \in 1 .. T + 1 |-> IF i = T + 1 THEN k ELSE f[i]]
  OBVIOUS
<1>11. \A i \in 1 .. T : g[i] = f[i] /\ f[i] \in 1 .. N /\ f[i] < k
  BY <1>1, <1>6, <1>7, <1>8 DEF Numbers
<1>12. g[T + 1] = k /\ k \in 1 .. N
  BY <1>1, <1>7
<1>13. g \in [1 .. T + 1 -> 1 .. N]
  <2>1. \A i \in 1 .. T + 1 : i = T + 1 \/ i \in 1 .. T
    BY <1>1
  <2>2. \A i \in 1 .. T + 1 : g[i] \in 1 .. N
    BY <1>11, <1>12, <2>1
  <2> QED BY <2>2
<1>14. \A i, j \in 1 .. T + 1 : i < j => g[i] < g[j]
  <2> TAKE i, j \in 1 .. T + 1
  <2>1. CASE j = T + 1
    BY <1>1, <1>11, <1>12, <2>1
  <2>2. CASE j # T + 1
    <3>1. j \in 1 .. T /\ (i < j => i \in 1 .. T)
      BY <1>1, <2>2
    <3> QED BY <1>6, <1>11, <3>1 DEF Numbers
  <2> QED BY <2>1, <2>2
<1>15. \A i \in 1 .. T + 1 : taken'[i] = queued[g[i]] /\ Rounds(i, g[i])
  <2> TAKE i \in 1 .. T + 1
  <2>1. CASE i = T + 1
    BY <1>1, <1>9, <1>10, <1>12, <2>1
  <2>2. CASE i # T + 1
    <3>1. i \in 1 .. T
      BY <1>1, <2>2
    <3> QED BY <1>1, <1>6, <1>11, <3>1 DEF Numbers
  <2> QED BY <2>1, <2>2
<1>16. Numbers(g)'
  BY <1>1, <1>2, <1>13, <1>14, <1>15 DEF Numbers
<1>17. Ahead(g)'
  BY <1>2 DEF Ahead
<1> QED BY <1>4, <1>5, <1>16, <1>17 DEF RoundsInv

(* A consumer that finds the ring not empty finds something written behind  *)
(* the last entry taken.                                                    *)
LEMMA PollRounds ==
  ASSUME TypeOK, RoundsInv, Poll
  PROVE  RoundsInv'
<1>1. UNCHANGED <<data, front, rear, queued, taken>> /\ ~IsEmpty
  BY DEF Poll
<1>2. PICK f : Numbers(f)
  BY DEF RoundsInv
<1>3. LastOf(f) \in 0 .. Len(queued) /\ Rounds(Len(taken), LastOf(f))
  BY <1>2, LastIs
<1>4. LastOf(f) # Len(queued)
  <2> SUFFICES ASSUME LastOf(f) = Len(queued) PROVE FALSE
    OBVIOUS
  <2>1. front \in RingSlots /\ rear \in RingSlots /\ front \in Nat
    BY LengthIs DEF TypeOK, RingSlots
  <2>2. Rounds(front, Len(queued))
    BY <1>3, <2>1, LengthsNat, RoundsAgain DEF RoundsInv, IndicesCount
  <2>3. front = rear
    BY <2>1, <2>2, LengthsNat, OneSlot DEF RoundsInv, IndicesCount
  <2> QED BY <1>1, <2>3 DEF IsEmpty
<1>5. LastOf(f)' < Len(queued)'
  BY <1>1, <1>3, <1>4, LengthsNat DEF LastOf
<1>6. Numbers(f)' /\ Ahead(f)'
  BY <1>1, <1>2, <1>5 DEF Numbers, Ahead
<1> QED BY <1>1, <1>6 DEF RoundsInv, IndicesCount, SlotsHoldLatest

LEMMA RoundsFrame ==
  ASSUME RoundsInv, UNCHANGED <<data, front, rear, queued, taken>>,
         cpc' = "take" => cpc = "take"
  PROVE  RoundsInv'
<1>1. PICK f : Numbers(f) /\ Ahead(f)
  BY DEF RoundsInv
<1>2. Numbers(f)' /\ Ahead(f)'
  BY <1>1 DEF Numbers, Ahead, LastOf
<1> QED BY <1>2 DEF RoundsInv, IndicesCount, SlotsHoldLatest

LEMMA RoundsStep ==
  ASSUME TypeOK, RoundsInv, [Next]_vars PROVE RoundsInv'
<1>1. ASSUME NEW p \in Producers, Insert(p) PROVE RoundsInv'
  BY <1>1, InsertRounds
<1>2. CASE OutData
  BY <1>2, TakeRounds
<1>3. CASE Poll
  BY <1>3, PollRounds
<1>4. \/ \E p \in Producers : Insert(p)
      \/ OutData \/ Poll
      \/ /\ UNCHANGED <<data, front, rear, queued, taken>>
         /\ cpc' = "take" => cpc = "take"
  BY DEF Next, Step, Consumer, Call, Attempt, GiveUp, Abandon, Leave, Handled,
         ConsumerExit, Shutdown, vars
<1> QED BY <1>1, <1>2, <1>3, <1>4, RoundsFrame

LEMMA RoundsBegin == Init => RoundsInv
<1> SUFFICES ASSUME Init PROVE RoundsInv
  OBVIOUS
<1>1. front = 0 /\ rear = 0 /\ Len(taken) = 0 /\ Len(queued) = 0 /\ cpc = "poll"
  BY DEF Init
<1>2. IndicesCount
  BY <1>1, RoundsStart DEF IndicesCount
<1>3. SlotsHoldLatest
  BY <1>1 DEF SlotsHoldLatest
<1>4. Numbers([i \in 1 .. 0 |-> 0]) /\ Ahead([i \in 1 .. 0 |-> 0])
  BY <1>1 DEF Numbers, Ahead
<1> QED BY <1>2, <1>3, <1>4 DEF RoundsInv

(* However many threads insert, the consumer is handed what was written, in *)
(* the order it was written in, nothing twice, and between two entries only *)
(* whole rounds of the ring are missing.                                    *)
THEOREM RoundsAreLost == Spec => []OnlyRoundsLost
<1>1. TypeOK /\ RoundsInv => OnlyRoundsLost
  <2> SUFFICES ASSUME TypeOK, RoundsInv PROVE OnlyRoundsLost
    OBVIOUS
  <2>1. PICK f : Numbers(f)
    BY DEF RoundsInv
  <2>2. \A i \in 1 .. Len(taken) : (f[i] - i) % CMD_QUEUE_LEN = 0
    <3> TAKE i \in 1 .. Len(taken)
    <3>1. i \in Nat /\ f[i] \in Nat /\ Rounds(i, f[i])
      BY <2>1, LengthsNat DEF Numbers
    <3> QED BY <3>1, RoundsRemainder
  <2> QED BY <2>1, <2>2 DEF Numbers, OnlyRoundsLost
<1>2. TypeOK /\ RoundsInv /\ [Next]_vars => RoundsInv'
  BY RoundsStep
<1> QED BY <1>1, <1>2, RoundsBegin, TypeCorrect, PTL DEF Spec
=============================================================================
