---------------------------- MODULE StreamsProofs ----------------------------
(***************************************************************************)
(* Proofs about Streams, for every ring, block, group length, frame size   *)
(* and number of sessions: what the writer stores behind a lost frame, how *)
(* long the bytes of a stored frame stay its own, and what a viewer gets.  *)
(***************************************************************************)
EXTENDS Streams, TLAPS

LEMMA Numbers ==
  /\ RingLen \in Nat /\ RingLen > 1 /\ MemSize \in Nat /\ MaxFrames \in Nat
  /\ GopLen \in Nat /\ GopLen > 1
  /\ SmallSize \in Nat /\ SmallSize > 0 /\ KeySize \in Nat
  /\ SmallSize <= KeySize /\ KeySize <= MemSize
BY StreamAssumption

(* The part of the type the writer's two guarantees rest on.               *)
WriterType ==
  /\ cam \in [id : Nat, num : 0 .. GopLen]
  /\ w \in [check : BOOLEAN, lost : BOOLEAN, savenum : 0 .. GopLen]
  /\ list \in [0 .. RingLen - 1 -> Unit]
  /\ write \in 0 .. RingLen - 1
  /\ free \in 0 .. MemSize
  /\ mem \in [0 .. MemSize - 1 -> Nat]
  /\ rd \in [pos : 0 .. RingLen - 1, unit : Unit, todo : SUBSET Slots,
             busy : BOOLEAN]
  /\ hist \in [last : Nat, keylost : BOOLEAN, seq : Nat, bytes : Nat,
               unread : Int, overrun : BOOLEAN, got : [Slots -> Nat]]

(* While the loss check is on, nothing was dropped since the frame stored  *)
(* last, and unless a key frame was lost the camera is as many frames past *)
(* it as its numbers say.                                                  *)
InStep ==
  w.check => /\ ~w.lost
             /\ ~hist.keylost => cam.id - hist.last = cam.num - w.savenum

(* Where the free space is, seen from unit u.  Either the d bytes stored   *)
(* since lie right behind it; or the block was begun again once and they   *)
(* end, but for the gap at the end, where they should; or they are too     *)
(* many for the guarantee.                                                 *)
Since(u) == hist.bytes - u.upto

Recent(u) == Since(u) + u.size + KeySize - 1 <= MemSize

FreeSeenFrom(u) ==
  \/ free = u.offset + u.size + Since(u)
  \/ /\ free <= Since(u)
     /\ free + MemSize <= u.offset + u.size + Since(u) + KeySize - 1
  \/ ~Recent(u)

Intact(u) == \A b \in u.offset .. u.offset + u.size - 1 : mem[b] = u.seq

UnitKept(u) ==
  /\ u.size <= KeySize /\ u.offset + u.size <= MemSize
  /\ Since(u) >= 0
  /\ u.seq > 0 => FreeSeenFrom(u) /\ (Recent(u) => Intact(u))

MemKept == \A i \in 0 .. RingLen - 1 : UnitKept(list[i])

WriterInv == WriterType /\ InStep /\ MemKept
-----------------------------------------------------------------------------
(* Storing a frame. *)

\* Where Store puts a frame of this size.
Place(size) == IF Fits(size) THEN free ELSE 0

NewUnit(kind, id) ==
  [kind |-> kind, id |-> id, seq |-> hist.seq + 1,
   offset |-> Place(SizeOf(kind)), size |-> SizeOf(kind),
   upto |-> hist.bytes + SizeOf(kind), after |-> hist.last]

LEMMA StoreEffect ==
  ASSUME WriterType, NEW kind \in {"I", "P", "A"}, NEW id \in Nat, Store(kind, id)
  PROVE  /\ SizeOf(kind) \in 1 .. KeySize
         /\ Place(SizeOf(kind)) \in 0 .. MemSize - SizeOf(kind)
         /\ NewUnit(kind, id) \in Unit
         /\ list' = [list EXCEPT ![write] = NewUnit(kind, id)]
         /\ write' \in 0 .. RingLen - 1
         /\ free' = Place(SizeOf(kind)) + SizeOf(kind)
         /\ mem' = [b \in 0 .. MemSize - 1 |->
              IF b \in Place(SizeOf(kind)) .. Place(SizeOf(kind)) + SizeOf(kind) - 1
                THEN hist.seq + 1 ELSE mem[b]]
         /\ hist' \in [last : Nat, keylost : BOOLEAN, seq : Nat, bytes : Nat,
                       unread : Int, overrun : BOOLEAN, got : [Slots -> Nat]]
         /\ hist'.seq = hist.seq + 1 /\ hist'.bytes = hist.bytes + SizeOf(kind)
         /\ hist'.last = IF kind = "A" THEN hist.last ELSE id
         /\ hist'.keylost = (hist.keylost /\ kind = "A")
<1>1. SizeOf(kind) \in 1 .. KeySize
  BY Numbers DEF SizeOf
<1>2. free \in 0 .. MemSize
  BY DEF WriterType
<1>3. Place(SizeOf(kind)) \in 0 .. MemSize - SizeOf(kind)
  BY <1>1, <1>2, Numbers DEF Place, Fits
<1>4. hist \in [last : Nat, keylost : BOOLEAN, seq : Nat, bytes : Nat,
                unread : Int, overrun : BOOLEAN, got : [Slots -> Nat]]
  BY DEF WriterType
<1>5. NewUnit(kind, id) \in Unit
  <2>1. hist.seq + 1 \in Nat /\ hist.bytes + SizeOf(kind) \in Nat
        /\ SizeOf(kind) \in Nat /\ Place(SizeOf(kind)) \in Nat
    BY <1>1, <1>3, <1>4, Numbers
  <2>2. hist.last \in Nat
    BY <1>4
  <2> QED BY <2>1, <2>2 DEF NewUnit, Unit
<1>6. write \in 0 .. RingLen - 1
  BY DEF WriterType
<1>7. write' \in 0 .. RingLen - 1
  <2>1. write' = NextUnit(write)
    BY DEF Store
  <2> QED BY <2>1, <1>6, Numbers DEF NextUnit
<1>8. /\ list' = [list EXCEPT ![write] = NewUnit(kind, id)]
      /\ free' = Place(SizeOf(kind)) + SizeOf(kind)
  BY DEF Store, NewUnit, Place
<1>9. mem' = [b \in 0 .. MemSize - 1 |->
              IF b \in Place(SizeOf(kind)) .. Place(SizeOf(kind)) + SizeOf(kind) - 1
                THEN hist.seq + 1 ELSE mem[b]]
  <2>1. DOMAIN mem = 0 .. MemSize - 1
    BY DEF WriterType
  <2> QED BY <2>1 DEF Store, Place
<1>10. hist' = [hist EXCEPT !.seq = hist.seq + 1, !.bytes = @ + SizeOf(kind),
                !.last = IF kind = "A" THEN @ ELSE id,
                !.keylost = @ /\ kind = "A",
                !.unread = IF hist.overrun THEN 0 ELSE @ + 1,
                !.overrun = @ \/ hist.unread + 1 >= RingLen]
  BY DEF Store
<1>11. hist' = [last |-> IF kind = "A" THEN hist.last ELSE id,
                keylost |-> hist.keylost /\ kind = "A",
                seq |-> hist.seq + 1, bytes |-> hist.bytes + SizeOf(kind),
                unread |-> IF hist.overrun THEN 0 ELSE hist.unread + 1,
                overrun |-> hist.overrun \/ hist.unread + 1 >= RingLen,
                got |-> hist.got]
  BY <1>4, <1>10
<1>12. /\ (IF kind = "A" THEN hist.last ELSE id) \in Nat
       /\ hist.seq + 1 \in Nat /\ hist.bytes + SizeOf(kind) \in Nat
       /\ (IF hist.overrun THEN 0 ELSE hist.unread + 1) \in Int
       /\ hist.got \in [Slots -> Nat]
  BY <1>1, <1>4, Numbers
<1>13. (hist.keylost /\ kind = "A") \in BOOLEAN
       /\ (hist.overrun \/ hist.unread + 1 >= RingLen) \in BOOLEAN
  OBVIOUS
<1>14. hist' \in [last : Nat, keylost : BOOLEAN, seq : Nat, bytes : Nat,
                  unread : Int, overrun : BOOLEAN, got : [Slots -> Nat]]
  BY <1>11, <1>12, <1>13
<1>15. /\ hist'.seq = hist.seq + 1 /\ hist'.bytes = hist.bytes + SizeOf(kind)
       /\ hist'.last = (IF kind = "A" THEN hist.last ELSE id)
       /\ hist'.keylost = (hist.keylost /\ kind = "A")
  BY <1>11
<1> QED BY <1>1, <1>3, <1>5, <1>7, <1>8, <1>9, <1>14, <1>15

LEMMA StoredBytes ==
  ASSUME WriterType, NEW kind \in {"I", "P", "A"}, NEW id \in Nat, Store(kind, id)
  PROVE  mem' \in [0 .. MemSize - 1 -> Nat]
<1>1. mem \in [0 .. MemSize - 1 -> Nat] /\ hist.seq + 1 \in Nat
  BY DEF WriterType
<1> QED BY <1>1, StoreEffect

(* A frame stored leaves every other unit its guarantee.                   *)
LEMMA OthersKept ==
  ASSUME WriterType, NEW kind \in {"I", "P", "A"}, NEW id \in Nat,
         Store(kind, id), NEW u \in Unit, UnitKept(u)
  PROVE  UnitKept(u)'
<1> DEFINE s == SizeOf(kind)
           o == Place(s)
<1>1. /\ s \in 1 .. KeySize /\ o \in 0 .. MemSize - s /\ free' = o + s
      /\ hist'.bytes = hist.bytes + s
      /\ mem' = [b \in 0 .. MemSize - 1 |->
                   IF b \in o .. o + s - 1 THEN hist.seq + 1 ELSE mem[b]]
  BY StoreEffect
<1>2. /\ free \in 0 .. MemSize /\ hist.bytes \in Nat /\ s \in Nat
      /\ KeySize \in Nat /\ MemSize \in Nat /\ KeySize <= MemSize
      /\ u.size \in Nat /\ u.offset \in Nat /\ u.upto \in Nat /\ u.seq \in Nat
  <2>1. free \in 0 .. MemSize /\ hist.bytes \in Nat
    BY DEF WriterType
  <2>2. u.size \in Nat /\ u.offset \in Nat /\ u.upto \in Nat /\ u.seq \in Nat
    BY DEF Unit
  <2>3. s \in Nat
    BY <1>1, Numbers
  <2> QED BY <2>1, <2>2, <2>3, Numbers
<1>3. o = IF s <= MemSize - free THEN free ELSE 0
  BY DEF Place, Fits
<1> HIDE DEF s, o
<1>4. Since(u)' = Since(u) + s
  BY <1>1, <1>2 DEF Since
<1>5. Since(u) \in Int
  BY <1>2 DEF Since
<1>6. Recent(u)' => Recent(u)
  BY <1>1, <1>2, <1>4, <1>5 DEF Recent
<1>7. ASSUME u.seq > 0 PROVE FreeSeenFrom(u)'
  <2>1. \/ free = u.offset + u.size + Since(u)
        \/ /\ free <= Since(u)
           /\ free + MemSize <= u.offset + u.size + Since(u) + KeySize - 1
        \/ ~Recent(u)
    BY <1>7 DEF UnitKept, FreeSeenFrom
  <2>2. CASE ~Recent(u)
    BY <2>2, <1>6 DEF FreeSeenFrom
  <2>3. CASE s <= MemSize - free
    <3>1. free' = free + s
      BY <2>3, <1>1, <1>3
    <3> QED BY <3>1, <2>1, <2>2, <1>2, <1>4, <1>5 DEF FreeSeenFrom
  <2>4. CASE ~(s <= MemSize - free) /\ free = u.offset + u.size + Since(u)
    <3>1. free' = s
      BY <2>4, <1>1, <1>3, <1>2
    <3>2. free' <= Since(u)'
      BY <3>1, <1>2, <1>4, <1>5 DEF UnitKept
    <3>3. MemSize <= free + KeySize - 1
      BY <2>4, <1>1, <1>2
    <3>4. free' + MemSize <= u.offset + u.size + Since(u)' + KeySize - 1
      BY <3>1, <3>3, <2>4, <1>2, <1>4, <1>5
    <3> QED BY <3>2, <3>4 DEF FreeSeenFrom
  <2>5. CASE ~(s <= MemSize - free) /\ free <= Since(u)
    <3>1. ~Recent(u)'
      BY <2>5, <1>1, <1>2, <1>4, <1>5 DEF Recent
    <3> QED BY <3>1 DEF FreeSeenFrom
  <2> QED BY <2>1, <2>2, <2>3, <2>4, <2>5
<1>8. ASSUME u.seq > 0, Recent(u)' PROVE Intact(u)'
  <2>1. Intact(u)
    BY <1>6, <1>8 DEF UnitKept
  <2>2. u.offset + u.size <= o \/ o + s <= u.offset
    <3>1. Since(u) + s + u.size + KeySize - 1 <= MemSize
      BY <1>2, <1>4, <1>5, <1>8 DEF Recent
    <3>2. Recent(u) /\ FreeSeenFrom(u)
      BY <1>6, <1>8 DEF UnitKept
    <3>3. \/ free = u.offset + u.size + Since(u)
          \/ /\ free <= Since(u)
             /\ free + MemSize <= u.offset + u.size + Since(u) + KeySize - 1
      BY <3>2 DEF FreeSeenFrom
    <3>4. Since(u) >= 0
      BY DEF UnitKept
    <3>5. CASE free = u.offset + u.size + Since(u)
      <4>1. CASE s <= MemSize - free
        BY <3>4, <3>5, <4>1, <1>2, <1>3, <1>5
      <4>2. CASE ~(s <= MemSize - free)
        <5>1. KeySize <= u.offset
          BY <3>1, <3>5, <4>2, <1>2, <1>5
        <5> QED BY <5>1, <4>2, <1>1, <1>2, <1>3
      <4> QED BY <4>1, <4>2
    <3>6. CASE /\ free <= Since(u)
               /\ free + MemSize <= u.offset + u.size + Since(u) + KeySize - 1
      <4>1. s <= MemSize - free
        <5>1. KeySize >= 1
          BY <1>1, <1>2
        <5> QED BY <3>1, <3>6, <5>1, <1>2, <1>5
      <4>2. free + s <= u.offset
        BY <3>1, <3>6, <1>2, <1>5
      <4> QED BY <4>1, <4>2, <1>3
    <3> QED BY <3>3, <3>5, <3>6
  <2>3. ASSUME NEW b \in u.offset .. u.offset + u.size - 1
        PROVE  mem'[b] = u.seq
    <3>1. b \in Int /\ u.offset <= b /\ b <= u.offset + u.size - 1
      BY <1>2
    <3>2. u.offset + u.size <= MemSize
      BY DEF UnitKept
    <3>3. b \in 0 .. MemSize - 1
      BY <3>1, <3>2, <1>2
    <3>4. b \notin o .. o + s - 1
      <4>1. o \in Int
        BY <1>1, <1>2
      <4> QED BY <3>1, <2>2, <4>1, <1>2
    <3> QED BY <3>3, <3>4, <2>1, <1>1 DEF Intact
  <2> QED BY <2>3 DEF Intact
<1> QED BY <1>2, <1>4, <1>5, <1>7, <1>8 DEF UnitKept

(* The new unit has its bytes, right before the free space.                *)
LEMMA NewKept ==
  ASSUME WriterType, NEW kind \in {"I", "P", "A"}, NEW id \in Nat, Store(kind, id),
         NEW u, u = NewUnit(kind, id)
  PROVE  UnitKept(u)'
<1> DEFINE s == SizeOf(kind)
           o == Place(s)
<1>1. /\ s \in 1 .. KeySize /\ o \in 0 .. MemSize - s /\ free' = o + s
      /\ hist'.bytes = hist.bytes + s
      /\ mem' = [b \in 0 .. MemSize - 1 |->
                   IF b \in o .. o + s - 1 THEN hist.seq + 1 ELSE mem[b]]
  BY StoreEffect
<1>2. u.seq = hist.seq + 1 /\ u.offset = o /\ u.size = s /\ u.upto = hist.bytes + s
  BY DEF NewUnit
<1>3. hist.bytes \in Nat /\ MemSize \in Nat /\ KeySize \in Nat
  BY Numbers DEF WriterType
<1> HIDE DEF s, o
<1>4. Since(u)' = 0
  BY <1>1, <1>2, <1>3 DEF Since
<1>5. FreeSeenFrom(u)'
  BY <1>1, <1>2, <1>3, <1>4 DEF FreeSeenFrom
<1>6. Intact(u)'
  <2>1. ASSUME NEW b \in o .. o + s - 1 PROVE mem'[b] = hist.seq + 1
    <3>1. b \in 0 .. MemSize - 1
      BY <1>1, <1>3
    <3> QED BY <3>1, <1>1
  <2> QED BY <2>1, <1>2 DEF Intact
<1> QED BY <1>1, <1>2, <1>3, <1>4, <1>5, <1>6 DEF UnitKept

LEMMA StoreKeepsMem ==
  ASSUME WriterInv, NEW kind \in {"I", "P", "A"}, NEW id \in Nat, Store(kind, id)
  PROVE  MemKept'
<1>1. WriterType /\ MemKept
  BY DEF WriterInv
<1>2. list \in [0 .. RingLen - 1 -> Unit]
  BY <1>1 DEF WriterType
<1>3. list' = [list EXCEPT ![write] = NewUnit(kind, id)]
  BY <1>1, StoreEffect
<1>4. ASSUME NEW i \in 0 .. RingLen - 1 PROVE UnitKept(list[i])'
  <2>1. ASSUME NEW u \in Unit, UnitKept(u) PROVE UnitKept(u)'
    BY <1>1, <2>1, OthersKept
  <2>2. ASSUME NEW u, u = NewUnit(kind, id) PROVE UnitKept(u)'
    BY <1>1, <2>2, NewKept
  <2>3. CASE i = write
    <3>1. list'[i] = NewUnit(kind, id)
      BY <1>2, <1>3, <2>3
    <3> QED BY <3>1, <2>2
  <2>4. CASE i # write
    <3>1. list'[i] = list[i]
      BY <1>2, <1>3, <2>4
    <3>2. list[i] \in Unit /\ UnitKept(list[i])
      BY <1>1, <1>2 DEF MemKept
    <3> QED BY <3>1, <3>2, <2>1
  <2> QED BY <2>3, <2>4
<1> QED BY <1>4 DEF MemKept
-----------------------------------------------------------------------------
(* The other steps leave the block alone, and mostly the writer too.       *)

LEMMA MemUntouched ==
  ASSUME MemKept, UNCHANGED <<list, free, mem>>, hist'.bytes = hist.bytes
  PROVE  MemKept'
<1>1. \A u : Since(u)' = Since(u)
  BY DEF Since
<1>2. \A u : UnitKept(u) => UnitKept(u)'
  BY <1>1 DEF UnitKept, FreeSeenFrom, Recent, Intact
<1> QED BY <1>2 DEF MemKept

LEMMA CameraFrameType ==
  ASSUME WriterType, NEW kind \in {"I", "P"}, CameraFrame(kind)
  PROVE  /\ cam' \in [id : Nat, num : 0 .. GopLen]
         /\ cam'.id = cam.id + 1
         /\ kind = "I" => cam'.num = 1
         /\ kind = "P" => cam'.num = cam.num + 1 /\ cam.num \in 1 .. GopLen - 1
<1>1. cam.id \in Nat /\ cam.num \in 0 .. GopLen
  BY DEF WriterType
<1>2. /\ cam' = [id |-> cam.id + 1, num |-> IF kind = "I" THEN 1 ELSE cam.num + 1]
      /\ kind = "P" => cam.num \in 1 .. GopLen - 1
  BY DEF CameraFrame
<1>3. cam.id + 1 \in Nat /\ (IF kind = "I" THEN 1 ELSE cam.num + 1) \in 0 .. GopLen
  BY <1>1, <1>2, Numbers
<1> QED BY <1>2, <1>3

(* What the loss check decides.                                            *)
LEMMA JudgeCases ==
  ASSUME WriterType, NEW kind \in {"I", "P"}, NEW num \in 0 .. GopLen,
         NEW v, v = Judge(kind, num), kind = "I" => num = 1
  PROVE  /\ v \in [check : BOOLEAN, lost : BOOLEAN, savenum : 0 .. GopLen]
         /\ ~w.check /\ kind = "P" => v = w
         /\ ~w.check /\ kind = "I" => v.check /\ ~v.lost /\ v.savenum = num
         /\ w.check /\ (kind = "I" \/ num = Following(w.savenum))
              => v.check = w.check /\ v.lost = w.lost /\ v.savenum = num
         /\ w.check /\ kind = "P" /\ num # Following(w.savenum)
              => ~v.check /\ v.lost
<1>1. w \in [check : BOOLEAN, lost : BOOLEAN, savenum : 0 .. GopLen]
  BY DEF WriterType
<1>2. Following(w.savenum) \in 0 .. GopLen /\ 1 \in 0 .. GopLen
  BY <1>1, Numbers DEF Following
<1>3. CASE ~w.check
  BY <1>1, <1>2, <1>3 DEF Judge
<1>4. CASE w.check /\ num = Following(w.savenum)
  <2>1. v = [w EXCEPT !.savenum = num]
    BY <1>4 DEF Judge
  <2> QED BY <2>1, <1>1, <1>4
<1>5. CASE w.check /\ num # Following(w.savenum) /\ kind = "I"
  <2>1. v = [w EXCEPT !.savenum = num]
    BY <1>5 DEF Judge
  <2> QED BY <2>1, <1>1, <1>5
<1>6. CASE w.check /\ num # Following(w.savenum) /\ kind = "P"
  <2>1. v = [check |-> FALSE, lost |-> TRUE, savenum |-> Following(w.savenum)]
    BY <1>6 DEF Judge
  <2> QED BY <2>1, <1>2, <1>6
<1> QED BY <1>3, <1>4, <1>5, <1>6

(* A video frame is stored in step with the camera, or not at all.         *)
LEMMA VideoStep ==
  ASSUME WriterInv, NEW kind \in {"I", "P"}, VideoFrame(kind)
  PROVE  WriterInv'
<1>1. WriterType /\ InStep /\ MemKept
  BY DEF WriterInv
<1>2. CameraFrame(kind) /\ w' = Judge(kind, cam'.num) /\ rd' = rd
  BY DEF VideoFrame
<1>3. /\ cam' \in [id : Nat, num : 0 .. GopLen] /\ cam'.id = cam.id + 1
      /\ kind = "I" => cam'.num = 1
      /\ kind = "P" => cam'.num = cam.num + 1 /\ cam.num \in 1 .. GopLen - 1
  BY <1>1, <1>2, CameraFrameType
<1>4. cam'.num \in 0 .. GopLen /\ cam'.id \in Nat
  BY <1>3
<1>5. /\ w' \in [check : BOOLEAN, lost : BOOLEAN, savenum : 0 .. GopLen]
      /\ ~w.check /\ kind = "P" => w' = w
      /\ ~w.check /\ kind = "I" => w'.check /\ ~w'.lost /\ w'.savenum = cam'.num
      /\ w.check /\ (kind = "I" \/ cam'.num = Following(w.savenum))
           => w'.check = w.check /\ w'.lost = w.lost /\ w'.savenum = cam'.num
      /\ w.check /\ kind = "P" /\ cam'.num # Following(w.savenum)
           => ~w'.check /\ w'.lost
  BY <1>1, <1>2, <1>3, <1>4, JudgeCases
<1>6. w'.check => w'.savenum = cam'.num /\ ~w'.lost
  BY <1>1, <1>5 DEF InStep
<1>7. CASE w'.lost
  <2>1. UNCHANGED <<list, write, free, mem, hist>>
    BY <1>7 DEF VideoFrame
  <2>2. WriterType'
    BY <1>1, <1>2, <1>3, <1>5, <2>1 DEF WriterType
  <2>3. InStep'
    BY <1>6, <1>7 DEF InStep
  <2>4. MemKept'
    BY <1>1, <2>1, MemUntouched
  <2> QED BY <2>2, <2>3, <2>4 DEF WriterInv
<1>8. CASE ~w'.lost
  <2>1. Store(kind, cam'.id)
    BY <1>8 DEF VideoFrame
  <2>2. MemKept'
    BY <2>1, <1>4, StoreKeepsMem
  <2>3. /\ NewUnit(kind, cam'.id) \in Unit
        /\ list' = [list EXCEPT ![write] = NewUnit(kind, cam'.id)]
        /\ write' \in 0 .. RingLen - 1
        /\ SizeOf(kind) \in 1 .. KeySize
        /\ Place(SizeOf(kind)) \in 0 .. MemSize - SizeOf(kind)
        /\ free' = Place(SizeOf(kind)) + SizeOf(kind)
        /\ hist' \in [last : Nat, keylost : BOOLEAN, seq : Nat, bytes : Nat,
                       unread : Int, overrun : BOOLEAN, got : [Slots -> Nat]]
        /\ hist'.last = cam'.id
    BY <2>1, <1>1, <1>4, StoreEffect
  <2>4. mem' \in [0 .. MemSize - 1 -> Nat]
    BY <2>1, <1>1, <1>4, StoredBytes
  <2>5. free' \in 0 .. MemSize
    BY <2>3, Numbers
  <2>6. list' \in [0 .. RingLen - 1 -> Unit]
    BY <2>3, <1>1 DEF WriterType
  <2>7. WriterType'
    BY <1>1, <1>2, <1>3, <1>5, <2>3, <2>4, <2>5, <2>6 DEF WriterType
  <2>8. InStep'
    <3>1. cam'.id - hist'.last = 0 /\ (w'.check => cam'.num - w'.savenum = 0)
      BY <1>4, <1>6, <2>3
    <3> QED BY <1>6, <3>1 DEF InStep
  <2> QED BY <2>2, <2>7, <2>8 DEF WriterInv
<1> QED BY <1>7, <1>8

LEMMA LoseStep ==
  ASSUME WriterInv, NEW kind \in {"I", "P"}, LoseFrame(kind)
  PROVE  WriterInv'
<1>1. WriterType /\ InStep /\ MemKept
  BY DEF WriterInv
<1>2. /\ cam' \in [id : Nat, num : 0 .. GopLen] /\ cam'.id = cam.id + 1
      /\ kind = "I" => cam'.num = 1
      /\ kind = "P" => cam'.num = cam.num + 1 /\ cam.num \in 1 .. GopLen - 1
  BY <1>1, CameraFrameType DEF LoseFrame
<1>3. /\ UNCHANGED <<w, list, write, free, mem, rd>>
      /\ hist' = [hist EXCEPT !.keylost = @ \/ kind = "I"]
  BY DEF LoseFrame
<1>4. hist \in [last : Nat, keylost : BOOLEAN, seq : Nat, bytes : Nat,
                unread : Int, overrun : BOOLEAN, got : [Slots -> Nat]]
  BY <1>1 DEF WriterType
<1>5. hist' \in [last : Nat, keylost : BOOLEAN, seq : Nat, bytes : Nat,
                 unread : Int, overrun : BOOLEAN, got : [Slots -> Nat]]
      /\ hist'.bytes = hist.bytes /\ hist'.last = hist.last
      /\ hist'.keylost = (hist.keylost \/ kind = "I")
  BY <1>3, <1>4
<1>6. WriterType'
  BY <1>1, <1>2, <1>3, <1>5 DEF WriterType
<1>7. InStep'
  <2>1. CASE kind = "I"
    BY <2>1, <1>1, <1>3, <1>5 DEF InStep
  <2>2. CASE kind = "P"
    <3>1. cam.id \in Nat /\ cam.num \in 0 .. GopLen /\ w.savenum \in 0 .. GopLen
      BY <1>1 DEF WriterType
    <3>2. cam.id - hist.last = cam.num - w.savenum
            => cam'.id - hist.last = cam'.num - w.savenum
      BY <3>1, <2>2, <1>2, <1>4, Numbers
    <3> QED BY <3>2, <2>2, <1>1, <1>3, <1>5 DEF InStep
  <2> QED BY <2>1, <2>2
<1>8. MemKept'
  BY <1>1, <1>3, <1>5, MemUntouched
<1> QED BY <1>6, <1>7, <1>8 DEF WriterInv

LEMMA AudioStep == ASSUME WriterInv, AudioFrame PROVE WriterInv'
<1>1. WriterType /\ InStep /\ MemKept
  BY DEF WriterInv
<1>2. Store("A", 0) /\ UNCHANGED <<cam, w, rd>>
  BY DEF AudioFrame
<1>3. /\ NewUnit("A", 0) \in Unit
      /\ list' = [list EXCEPT ![write] = NewUnit("A", 0)]
      /\ write' \in 0 .. RingLen - 1
      /\ SizeOf("A") \in 1 .. KeySize
      /\ Place(SizeOf("A")) \in 0 .. MemSize - SizeOf("A")
      /\ free' = Place(SizeOf("A")) + SizeOf("A")
      /\ hist' \in [last : Nat, keylost : BOOLEAN, seq : Nat, bytes : Nat,
                     unread : Int, overrun : BOOLEAN, got : [Slots -> Nat]]
      /\ hist'.last = hist.last
      /\ hist'.keylost = (hist.keylost /\ "A" = "A")
  BY <1>1, <1>2, StoreEffect
<1>4. mem' \in [0 .. MemSize - 1 -> Nat]
  BY <1>1, <1>2, StoredBytes
<1>5. free' \in 0 .. MemSize
  BY <1>3, Numbers
<1>6. list' \in [0 .. RingLen - 1 -> Unit]
  BY <1>3, <1>1 DEF WriterType
<1>7. WriterType'
  BY <1>1, <1>2, <1>3, <1>4, <1>5, <1>6 DEF WriterType
<1>8. InStep'
  BY <1>1, <1>2, <1>3 DEF InStep
<1>9. MemKept'
  BY <1>2, StoreKeepsMem
<1> QED BY <1>7, <1>8, <1>9 DEF WriterInv

LEMMA ReconnectStep == ASSUME WriterInv, Reconnect PROVE WriterInv'
<1>1. WriterType /\ MemKept
  BY DEF WriterInv
<1>2. /\ w' = [check |-> FALSE, lost |-> FALSE, savenum |-> 0]
      /\ cam' \in {cam, [cam EXCEPT !.num = 0]}
      /\ UNCHANGED <<list, write, free, mem, rd, hist>>
  BY DEF Reconnect
<1>3. cam' \in [id : Nat, num : 0 .. GopLen]
  <2>1. cam \in [id : Nat, num : 0 .. GopLen] /\ 0 \in 0 .. GopLen
    BY <1>1, Numbers DEF WriterType
  <2> QED BY <2>1, <1>2
<1>4. w' \in [check : BOOLEAN, lost : BOOLEAN, savenum : 0 .. GopLen]
  BY <1>2, Numbers
<1>5. WriterType'
  BY <1>1, <1>2, <1>3, <1>4 DEF WriterType
<1>6. InStep'
  BY <1>2 DEF InStep
<1>7. MemKept'
  BY <1>1, <1>2, MemUntouched
<1> QED BY <1>5, <1>6, <1>7 DEF WriterInv

(* A step that leaves the camera, the writer and the block alone.          *)
LEMMA OtherStep ==
  ASSUME WriterInv, UNCHANGED <<cam, w, list, write, free, mem>>,
         rd' \in [pos : 0 .. RingLen - 1, unit : Unit, todo : SUBSET Slots,
                  busy : BOOLEAN],
         hist' \in [last : Nat, keylost : BOOLEAN, seq : Nat, bytes : Nat,
                    unread : Int, overrun : BOOLEAN, got : [Slots -> Nat]],
         hist'.last = hist.last, hist'.keylost = hist.keylost,
         hist'.bytes = hist.bytes
  PROVE  WriterInv'
<1>1. WriterType /\ InStep /\ MemKept
  BY DEF WriterInv
<1>2. WriterType'
  BY <1>1 DEF WriterType
<1>3. InStep'
  BY <1>1 DEF InStep
<1>4. MemKept'
  BY <1>1, MemUntouched
<1> QED BY <1>2, <1>3, <1>4 DEF WriterInv

LEMMA NoUnitType == NoUnit \in Unit
BY DEF NoUnit, Unit

LEMMA ReaderStep == ASSUME WriterInv, Reader PROVE WriterInv'
<1>1. WriterType
  BY DEF WriterInv
<1>2. /\ hist \in [last : Nat, keylost : BOOLEAN, seq : Nat, bytes : Nat,
                   unread : Int, overrun : BOOLEAN, got : [Slots -> Nat]]
      /\ rd \in [pos : 0 .. RingLen - 1, unit : Unit, todo : SUBSET Slots,
                 busy : BOOLEAN]
  BY <1>1 DEF WriterType
<1>3. CASE Take
  <2>1. rd' = [rd EXCEPT !.unit = list[rd.pos], !.todo = Slots, !.busy = TRUE]
        /\ UNCHANGED <<cam, w, list, write, free, mem, hist>>
    BY <1>3 DEF Take
  <2>2. list[rd.pos] \in Unit
    BY <1>1, <1>2 DEF WriterType
  <2>3. rd' = [pos |-> rd.pos, unit |-> list[rd.pos], todo |-> Slots, busy |-> TRUE]
    BY <1>2, <2>1
  <2>4. rd' \in [pos : 0 .. RingLen - 1, unit : Unit, todo : SUBSET Slots,
                busy : BOOLEAN]
    BY <1>2, <2>2, <2>3
  <2> QED BY <1>2, <2>1, <2>4, OtherStep
<1>4. CASE Advance
  <2>1. /\ rd' = [rd EXCEPT !.busy = FALSE, !.unit = NoUnit, !.pos = NextUnit(@)]
        /\ hist' = [hist EXCEPT !.unread = IF hist.overrun THEN 0 ELSE @ - 1]
        /\ UNCHANGED <<cam, w, list, write, free, mem>>
    BY <1>4 DEF Advance
  <2>2. rd' = [pos |-> NextUnit(rd.pos), unit |-> NoUnit, todo |-> rd.todo,
               busy |-> FALSE]
    BY <1>2, <2>1
  <2>3. NextUnit(rd.pos) \in 0 .. RingLen - 1
    BY <1>2, Numbers DEF NextUnit
  <2>4. rd' \in [pos : 0 .. RingLen - 1, unit : Unit, todo : SUBSET Slots,
                busy : BOOLEAN]
    BY <1>2, <2>2, <2>3, NoUnitType
  <2>5. (IF hist.overrun THEN 0 ELSE hist.unread - 1) \in Int
    BY <1>2
  <2>6. /\ hist' \in [last : Nat, keylost : BOOLEAN, seq : Nat, bytes : Nat,
                      unread : Int, overrun : BOOLEAN, got : [Slots -> Nat]]
        /\ hist'.last = hist.last /\ hist'.keylost = hist.keylost
        /\ hist'.bytes = hist.bytes
    BY <1>2, <2>1, <2>5
  <2> QED BY <2>1, <2>4, <2>6, OtherStep
<1>5. ASSUME NEW s \in Slots, Send(s) PROVE WriterInv'
  <2>1. /\ rd' = [rd EXCEPT !.todo = @ \ {s}]
        /\ UNCHANGED <<cam, w, list, write, free, mem>>
        /\ hist' = hist \/ hist' = [hist EXCEPT !.got[s] = rd.unit.id]
    BY <1>5 DEF Send, SendVideo, SendNothing
  <2>2. rd.unit.id \in Nat
    BY <1>2 DEF Unit
  <2>3. rd' \in [pos : 0 .. RingLen - 1, unit : Unit, todo : SUBSET Slots,
                busy : BOOLEAN]
    BY <1>2, <2>1
  <2>4. /\ hist' \in [last : Nat, keylost : BOOLEAN, seq : Nat, bytes : Nat,
                      unread : Int, overrun : BOOLEAN, got : [Slots -> Nat]]
        /\ hist'.last = hist.last /\ hist'.keylost = hist.keylost
        /\ hist'.bytes = hist.bytes
    BY <1>2, <2>1, <2>2
  <2> QED BY <2>1, <2>3, <2>4, OtherStep
<1> QED BY <1>3, <1>4, <1>5 DEF Reader

LEMMA ViewerStep ==
  ASSUME WriterInv, NEW s \in Slots, Viewer(s) PROVE WriterInv'
<1>1. /\ hist \in [last : Nat, keylost : BOOLEAN, seq : Nat, bytes : Nat,
                   unread : Int, overrun : BOOLEAN, got : [Slots -> Nat]]
      /\ rd \in [pos : 0 .. RingLen - 1, unit : Unit, todo : SUBSET Slots,
                 busy : BOOLEAN]
  BY DEF WriterInv, WriterType
<1>2. /\ UNCHANGED <<cam, w, list, write, free, mem, rd>>
      /\ hist' = hist \/ hist' = [hist EXCEPT !.got[s] = 0]
  BY DEF Viewer, EnterSlot, Watch, Unwatch, OpenVideo, CloseVideo, SetSlot
<1>3. /\ hist' \in [last : Nat, keylost : BOOLEAN, seq : Nat, bytes : Nat,
                    unread : Int, overrun : BOOLEAN, got : [Slots -> Nat]]
      /\ hist'.last = hist.last /\ hist'.keylost = hist.keylost
      /\ hist'.bytes = hist.bytes
  BY <1>1, <1>2
<1> QED BY <1>1, <1>2, <1>3, OtherStep

LEMMA WriterStep == ASSUME WriterInv, [StreamNext]_streamVars PROVE WriterInv'
<1>1. CASE Camera
  <2>1. ASSUME NEW on \in BOOLEAN, SetStats(on) PROVE WriterInv'
    <3>1. UNCHANGED <<cam, w, list, write, free, mem, rd, hist>>
      BY <2>1 DEF SetStats
    <3>2. WriterType
      BY DEF WriterInv
    <3> QED BY <3>1, <3>2, OtherStep DEF WriterType
  <2> QED BY <1>1, <2>1, LoseStep, VideoStep, AudioStep, ReconnectStep DEF Camera
<1>2. CASE UNCHANGED streamVars
  <2>1. UNCHANGED <<cam, w, list, write, free, mem, rd, hist>>
    BY <1>2 DEF streamVars
  <2>2. WriterType
    BY DEF WriterInv
  <2> QED BY <2>1, <2>2, OtherStep DEF WriterType
<1> QED BY <1>1, <1>2, ReaderStep, ViewerStep DEF StreamNext

LEMMA WriterInit == StreamInit => WriterInv
<1> SUFFICES ASSUME StreamInit PROVE WriterInv
  OBVIOUS
<1>1. WriterType
  <2>1. /\ 0 \in 0 .. GopLen /\ 0 \in 0 .. RingLen - 1 /\ 0 \in 0 .. MemSize
        /\ 0 \in Nat /\ 0 \in Int
    BY Numbers
  <2>2. [s \in Slots |-> 0] \in [Slots -> Nat]
    BY <2>1
  <2>3. hist \in [last : Nat, keylost : BOOLEAN, seq : Nat, bytes : Nat,
                 unread : Int, overrun : BOOLEAN, got : [Slots -> Nat]]
    BY <2>1, <2>2 DEF StreamInit
  <2>4. list \in [0 .. RingLen - 1 -> Unit]
    BY NoUnitType DEF StreamInit
  <2> QED BY <2>1, <2>3, <2>4, NoUnitType DEF StreamInit, WriterType
<1>2. InStep
  BY DEF StreamInit, InStep
<1>3. MemKept
  <2>1. UnitKept(NoUnit)
    BY Numbers DEF UnitKept, NoUnit, Since, StreamInit
  <2> QED BY <2>1 DEF MemKept, StreamInit
<1> QED BY <1>1, <1>2, <1>3 DEF WriterInv

LEMMA WriterHolds == StreamSpec => []WriterInv
<1>1. WriterInv /\ [StreamNext]_streamVars => WriterInv'
  BY WriterStep
<1> QED BY <1>1, WriterInit, PTL DEF StreamSpec
-----------------------------------------------------------------------------
(* A reader that is behind by less than the block less one key frame finds *)
(* the bytes of the unit it reads untouched, whatever mixture of frames is *)
(* stored (avserver.c never looks at the readers when it reuses the block).*)
THEOREM RecentBytesIntact == StreamSpec => []RecentIntact
<1>1. ASSUME WriterInv PROVE RecentIntact
  <2>1. ASSUME NEW i \in 0 .. RingLen - 1, NEW u \in Unit, u = list[i]
        PROVE  /\ u.offset + u.size <= MemSize
               /\ (u.seq > 0 /\ hist.bytes - u.upto + u.size + KeySize - 1 <= MemSize)
                    => \A b \in u.offset .. u.offset + u.size - 1 : mem[b] = u.seq
    <3>1. UnitKept(u)
      BY <1>1, <2>1 DEF WriterInv, MemKept
    <3> QED BY <3>1 DEF UnitKept, Recent, Since, Intact
  <2>2. \A i \in 0 .. RingLen - 1 : list[i] \in Unit
    BY <1>1 DEF WriterInv, WriterType
  <2> QED BY <2>1, <2>2 DEF RecentIntact
<1>2. WriterInv => RecentIntact
  BY <1>1
<1> QED BY <1>2, WriterHolds, PTL

(* A P frame that is stored follows the frame stored before it, unless a   *)
(* key frame was lost between them or the connection has had no key frame  *)
(* yet: for every group length, the loss check misses nothing else.        *)
THEOREM StoredInChain == StreamSpec => StoredChain
<1>1. ASSUME WriterInv, [StreamNext]_streamVars
      PROVE  [LET u == list'[write] IN
              (hist'.seq # hist.seq /\ u.kind = "P")
                 => u.id = hist.last + 1 \/ hist.keylost \/ ~w.check]_streamVars
  <2>1. SUFFICES ASSUME hist'.seq # hist.seq, list'[write].kind = "P"
                 PROVE  list'[write].id = hist.last + 1 \/ hist.keylost \/ ~w.check
    OBVIOUS
  <2>2. WriterType /\ InStep
    BY <1>1 DEF WriterInv
  <2>3. /\ hist \in [last : Nat, keylost : BOOLEAN, seq : Nat, bytes : Nat,
                     unread : Int, overrun : BOOLEAN, got : [Slots -> Nat]]
        /\ cam.id \in Nat /\ cam.num \in 0 .. GopLen /\ w.savenum \in 0 .. GopLen
        /\ write \in 0 .. RingLen - 1 /\ list \in [0 .. RingLen - 1 -> Unit]
    BY <2>2 DEF WriterType
  <2>4. AudioFrame \/ \E kind \in {"I", "P"} : VideoFrame(kind)
    <3>1. ASSUME NEW s \in Slots, Viewer(s) PROVE hist'.seq = hist.seq
      <4>1. hist' = hist \/ hist' = [hist EXCEPT !.got[s] = 0]
        BY <3>1 DEF Viewer, EnterSlot, Watch, Unwatch, OpenVideo, CloseVideo, SetSlot
      <4> QED BY <2>3, <4>1
    <3>2. ASSUME Reader PROVE hist'.seq = hist.seq
      <4>1. \/ hist' = hist
            \/ \E s \in Slots : hist' = [hist EXCEPT !.got[s] = rd.unit.id]
            \/ hist' = [hist EXCEPT !.unread = IF hist.overrun THEN 0 ELSE @ - 1]
        BY <3>2 DEF Reader, Take, Advance, Send, SendVideo, SendNothing
      <4> QED BY <2>3, <4>1
    <3>3. ASSUME NEW kind \in {"I", "P"}, LoseFrame(kind) PROVE hist'.seq = hist.seq
      <4>1. hist' = [hist EXCEPT !.keylost = @ \/ kind = "I"]
        BY <3>3 DEF LoseFrame
      <4> QED BY <2>3, <4>1
    <3>4. Reconnect \/ (\E on \in BOOLEAN : SetStats(on)) \/ UNCHANGED streamVars
            => hist' = hist
      BY DEF Reconnect, SetStats, streamVars
    <3> QED BY <1>1, <2>1, <3>1, <3>2, <3>3, <3>4 DEF StreamNext, Camera
  <2>5. CASE AudioFrame
    <3>1. list' = [list EXCEPT ![write] = NewUnit("A", 0)]
      BY <2>2, <2>5, StoreEffect DEF AudioFrame
    <3>2. list'[write].kind = "A"
      BY <2>3, <3>1 DEF NewUnit
    <3> QED BY <2>1, <3>2
  <2>6. ASSUME NEW kind \in {"I", "P"}, VideoFrame(kind)
        PROVE  list'[write].id = hist.last + 1 \/ hist.keylost \/ ~w.check
    <3>1. CameraFrame(kind) /\ w' = Judge(kind, cam'.num)
      BY <2>6 DEF VideoFrame
    <3>2. /\ cam' \in [id : Nat, num : 0 .. GopLen] /\ cam'.id = cam.id + 1
          /\ kind = "I" => cam'.num = 1
          /\ kind = "P" => cam'.num = cam.num + 1 /\ cam.num \in 1 .. GopLen - 1
      BY <2>2, <3>1, CameraFrameType
    <3>3. cam'.id \in Nat /\ cam'.num \in 0 .. GopLen
      BY <3>2
    <3>4. Store(kind, cam'.id) /\ ~w'.lost
      BY <2>1, <2>6 DEF VideoFrame
    <3>5. list' = [list EXCEPT ![write] = NewUnit(kind, cam'.id)]
      BY <2>2, <3>3, <3>4, StoreEffect
    <3>6. list'[write].id = cam.id + 1 /\ kind = "P"
      BY <2>1, <2>3, <3>2, <3>5 DEF NewUnit
    <3>7. w.check => cam'.num = Following(w.savenum)
      BY <2>2, <3>1, <3>2, <3>3, <3>4, <3>6, JudgeCases
    <3>8. w.check => cam.num = w.savenum
      <4>1. cam'.num = cam.num + 1 /\ cam.num \in 1 .. GopLen - 1
        BY <3>2, <3>6
      <4>2. w.check => cam.num + 1 = IF w.savenum + 1 > GopLen THEN 1 ELSE w.savenum + 1
        BY <3>7, <4>1 DEF Following
      <4>3. cam.num \in Nat /\ w.savenum \in Nat /\ cam.num # 0
        BY <2>3, <4>1
      <4> QED BY <4>2, <4>3
    <3>9. w.check /\ ~hist.keylost => cam.id = hist.last
      BY <2>2, <2>3, <3>8 DEF InStep
    <3> QED BY <3>6, <3>9
  <2> QED BY <2>4, <2>5, <2>6
<1> QED BY <1>1, WriterHolds, PTL DEF StreamSpec, StoredChain
-----------------------------------------------------------------------------
(* The reader's side.                                                      *)

\* The place in the ring n units ahead of the reader.
Ahead(n) == IF rd.pos + n >= RingLen THEN rd.pos + n - RingLen ELSE rd.pos + n

\* The last video frame stored before the unit n places ahead of the reader.
Before(n) == IF n < hist.unread THEN list[Ahead(n)].after ELSE hist.last

\* The last video frame up to and with unit u.
UpTo(u) == IF u.kind = "A" THEN u.after ELSE u.id

\* How many of the unread units session s has had.
Turn(s) == IF rd.busy /\ s \notin rd.todo THEN 1 ELSE 0

SlotsType ==
  av \in [Slots -> [watching : BOOLEAN, video : BOOLEAN, flag : BOOLEAN,
                    mode : Modes]]

\* Only an open session has had its first key frame.
FlagRight == \A s \in Slots : av[s].flag => av[s].watching /\ av[s].video

(* Until the writer laps the reader, write is as many units ahead as are   *)
(* unread, the unit in hand is the first of them, and each of them follows *)
(* the video frame that ends with the one before it.                       *)
Counted ==
  /\ hist.unread \in Nat
  /\ ~hist.overrun => hist.unread < RingLen /\ write = Ahead(hist.unread)

InHand ==
  ~hist.overrun /\ rd.busy => hist.unread > 0 /\ rd.unit = list[rd.pos]

Linked ==
  ~hist.overrun =>
    \A n \in 0 .. hist.unread - 1 : Before(n + 1) = UpTo(list[Ahead(n)])

(* A session that is spared nothing has the last video frame before the    *)
(* unit whose turn is next.                                                *)
UpToDate(s) ==
  ~hist.overrun /\ av[s].flag /\ av[s].mode = "NORMAL"
    => hist.got[s] = Before(Turn(s))

ReaderInv ==
  /\ SlotsType /\ FlagRight /\ Counted /\ InHand /\ Linked
  /\ \A s \in Slots : UpToDate(s)

(* The numbers the reader's side is about.                                 *)
LEMMA ReaderNumbers ==
  ASSUME WriterType, ReaderInv
  PROVE  /\ rd \in [pos : 0 .. RingLen - 1, unit : Unit, todo : SUBSET Slots,
                    busy : BOOLEAN]
         /\ rd.pos \in 0 .. RingLen - 1 /\ rd.pos \in Nat
         /\ hist \in [last : Nat, keylost : BOOLEAN, seq : Nat, bytes : Nat,
                      unread : Int, overrun : BOOLEAN, got : [Slots -> Nat]]
         /\ hist.unread \in Nat /\ hist.last \in Nat
         /\ hist.got \in [Slots -> Nat]
         /\ list \in [0 .. RingLen - 1 -> Unit] /\ write \in 0 .. RingLen - 1
         /\ RingLen \in Nat /\ RingLen > 1
<1>1. /\ rd \in [pos : 0 .. RingLen - 1, unit : Unit, todo : SUBSET Slots,
                 busy : BOOLEAN]
      /\ hist \in [last : Nat, keylost : BOOLEAN, seq : Nat, bytes : Nat,
                   unread : Int, overrun : BOOLEAN, got : [Slots -> Nat]]
      /\ list \in [0 .. RingLen - 1 -> Unit] /\ write \in 0 .. RingLen - 1
  BY DEF WriterType
<1>2. rd.pos \in 0 .. RingLen - 1 /\ rd.pos \in Nat
  BY <1>1, Numbers
<1>3. hist.unread \in Nat
  BY DEF ReaderInv, Counted
<1> QED BY <1>1, <1>2, <1>3, Numbers

(* Places less than a ring apart differ.                                   *)
LEMMA AheadApart ==
  ASSUME WriterType, ReaderInv, NEW n \in 0 .. RingLen - 1, NEW m \in 0 .. RingLen - 1
  PROVE  /\ Ahead(n) \in 0 .. RingLen - 1
         /\ n # m => Ahead(n) # Ahead(m)
         /\ Ahead(0) = rd.pos
<1>1. rd.pos \in 0 .. RingLen - 1 /\ RingLen \in Nat
  BY ReaderNumbers
<1> QED BY <1>1, SMT DEF Ahead

LEMMA StoreCounts ==
  ASSUME WriterType, NEW kind \in {"I", "P", "A"}, NEW id \in Nat, Store(kind, id)
  PROVE  /\ hist'.unread = IF hist.overrun THEN 0 ELSE hist.unread + 1
         /\ hist'.overrun = (hist.overrun \/ hist.unread + 1 >= RingLen)
         /\ hist'.got = hist.got
         /\ write' = NextUnit(write)
<1>1. hist \in [last : Nat, keylost : BOOLEAN, seq : Nat, bytes : Nat,
                unread : Int, overrun : BOOLEAN, got : [Slots -> Nat]]
  BY DEF WriterType
<1>2. hist' = [hist EXCEPT !.seq = hist.seq + 1, !.bytes = @ + SizeOf(kind),
                !.last = IF kind = "A" THEN @ ELSE id,
                !.keylost = @ /\ kind = "A",
                !.unread = IF hist.overrun THEN 0 ELSE @ + 1,
                !.overrun = @ \/ hist.unread + 1 >= RingLen]
      /\ write' = NextUnit(write)
  BY DEF Store
<1> QED BY <1>1, <1>2

(* A frame stored goes behind the unread ones and follows the last of      *)
(* them; unless the ring is full, it replaces none of them.                *)
LEMMA StoreKeepsReader ==
  ASSUME WriterType, ReaderInv, NEW kind \in {"I", "P", "A"}, NEW id \in Nat,
         Store(kind, id), UNCHANGED <<rd, av>>
  PROVE  ReaderInv'
<1>1. /\ list' = [list EXCEPT ![write] = NewUnit(kind, id)]
      /\ hist'.last = IF kind = "A" THEN hist.last ELSE id
      /\ hist'.unread = IF hist.overrun THEN 0 ELSE hist.unread + 1
      /\ hist'.overrun = (hist.overrun \/ hist.unread + 1 >= RingLen)
      /\ hist'.got = hist.got
      /\ write' = NextUnit(write)
  BY StoreEffect, StoreCounts
<1>2. SlotsType' /\ FlagRight'
  BY DEF ReaderInv, SlotsType, FlagRight
<1>3. hist'.unread \in Nat
  BY <1>1, ReaderNumbers
<1>4. CASE hist'.overrun
  BY <1>2, <1>3, <1>4 DEF ReaderInv, Counted, InHand, Linked, UpToDate
<1>5. CASE ~hist'.overrun
  <2>1. ~hist.overrun /\ hist'.unread = hist.unread + 1 /\ hist.unread + 1 < RingLen
    <3>1. ~hist.overrun /\ ~(hist.unread + 1 >= RingLen)
      BY <1>1, <1>5
    <3> QED BY <3>1, <1>1, ReaderNumbers
  <2>2. \A n : Ahead(n)' = Ahead(n)
    BY DEF Ahead
  <2>3. write = Ahead(hist.unread)
    BY <2>1 DEF ReaderInv, Counted
  <2>4. write' = Ahead(hist.unread + 1)
    <3>1. rd.pos \in 0 .. RingLen - 1 /\ RingLen \in Nat /\ hist.unread \in Nat
      BY ReaderNumbers
    <3> QED BY <3>1, <2>1, <2>3, <1>1, SMT DEF Ahead, NextUnit
  <2>5. ASSUME NEW n \in 0 .. hist.unread - 1
        PROVE  list'[Ahead(n)] = list[Ahead(n)]
    <3>1. n \in 0 .. RingLen - 1 /\ hist.unread \in 0 .. RingLen - 1 /\ n # hist.unread
      BY <2>1, ReaderNumbers
    <3>2. Ahead(n) \in 0 .. RingLen - 1 /\ Ahead(n) # write
      BY <3>1, <2>3, AheadApart
    <3> QED BY <3>2, <1>1, ReaderNumbers
  <2>6. list'[Ahead(hist.unread)] = NewUnit(kind, id)
    BY <1>1, <2>3, ReaderNumbers
  <2>7. ASSUME NEW n \in 0 .. hist.unread PROVE Before(n)' = Before(n)
    <3>1. CASE n = hist.unread
      <4>1. Before(n)' = list'[Ahead(n)].after
        BY <2>1, <2>2, <3>1, ReaderNumbers DEF Before
      <4>2. Before(n) = hist.last
        BY <3>1, ReaderNumbers DEF Before
      <4> QED BY <3>1, <4>1, <4>2, <2>6 DEF NewUnit
    <3>2. CASE n # hist.unread
      <4>1. n \in 0 .. hist.unread - 1 /\ n < hist.unread /\ n < hist'.unread
        BY <2>1, <3>2, ReaderNumbers
      <4> QED BY <4>1, <2>2, <2>5 DEF Before
    <3> QED BY <3>1, <3>2
  <2>8. ASSUME NEW n \in Nat, n = hist.unread
        PROVE  Before(n + 1)' = UpTo(NewUnit(kind, id))
    <3>1. Before(n + 1)' = hist'.last
      BY <2>1, <2>8, ReaderNumbers DEF Before
    <3> QED BY <3>1, <1>1 DEF UpTo, NewUnit
  <2>9. Counted'
    BY <1>3, <2>1, <2>2, <2>4 DEF Counted
  <2>10. InHand'
    <3>1. SUFFICES ASSUME rd.busy PROVE hist'.unread > 0 /\ rd.unit = list'[rd.pos]
      BY DEF InHand
    <3>2. hist.unread > 0 /\ rd.unit = list[rd.pos]
      BY <3>1, <2>1 DEF ReaderInv, InHand
    <3>3. 0 \in 0 .. hist.unread - 1 /\ 0 \in 0 .. RingLen - 1
      BY <3>2, ReaderNumbers
    <3>4. list'[rd.pos] = list[rd.pos]
      BY <3>3, <2>5, AheadApart
    <3> QED BY <3>2, <3>4, <2>1, ReaderNumbers
  <2>11. Linked'
    <3>1. ASSUME NEW n \in 0 .. hist.unread
          PROVE  Before(n + 1)' = UpTo(list'[Ahead(n)])
      <4>1. CASE n = hist.unread
        BY <4>1, <2>6, <2>8, ReaderNumbers
      <4>2. CASE n # hist.unread
        <5>1. n \in 0 .. hist.unread - 1 /\ n + 1 \in 0 .. hist.unread
          BY <4>2, ReaderNumbers
        <5>2. Before(n + 1) = UpTo(list[Ahead(n)])
          BY <5>1, <2>1 DEF ReaderInv, Linked
        <5> QED BY <5>1, <5>2, <2>5, <2>7
      <4> QED BY <4>1, <4>2
    <3>2. hist'.unread - 1 = hist.unread
      BY <2>1, ReaderNumbers
    <3> QED BY <3>1, <3>2, <2>2 DEF Linked
  <2>12. ASSUME NEW s \in Slots PROVE UpToDate(s)'
    <3>1. Turn(s)' = Turn(s)
      BY DEF Turn
    <3>2. Turn(s) \in 0 .. hist.unread
      BY <2>1, ReaderNumbers DEF ReaderInv, InHand, Turn
    <3>3. Before(Turn(s))' = Before(Turn(s))
      BY <3>1, <3>2, <2>7
    <3> QED BY <3>3, <1>1, <2>1 DEF ReaderInv, UpToDate
  <2> QED BY <1>2, <2>9, <2>10, <2>11, <2>12 DEF ReaderInv
<1> QED BY <1>4, <1>5

(* A step that leaves the ring, the reader, the sessions and what they got *)
(* alone.                                                                  *)
LEMMA ReaderUntouched ==
  ASSUME ReaderInv, UNCHANGED <<list, write, rd, av>>,
         hist'.unread = hist.unread, hist'.overrun = hist.overrun,
         hist'.last = hist.last, hist'.got = hist.got
  PROVE  ReaderInv'
<1>1. \A n : Ahead(n)' = Ahead(n)
  BY DEF Ahead
<1>2. \A n : Before(n)' = Before(n)
  BY <1>1 DEF Before
<1>3. \A s \in Slots : Turn(s)' = Turn(s)
  BY DEF Turn
<1>4. SlotsType' /\ FlagRight' /\ InHand'
  BY DEF ReaderInv, SlotsType, FlagRight, InHand
<1>5. Counted'
  BY <1>1 DEF ReaderInv, Counted
<1>6. Linked'
  BY <1>1, <1>2 DEF ReaderInv, Linked
<1>7. \A s \in Slots : UpToDate(s)'
  BY <1>2, <1>3 DEF ReaderInv, UpToDate
<1> QED BY <1>4, <1>5, <1>6, <1>7 DEF ReaderInv

LEMMA CameraKeepsReader ==
  ASSUME WriterInv, ReaderInv, Camera PROVE ReaderInv'
<1>1. WriterType
  BY DEF WriterInv
<1>2. hist \in [last : Nat, keylost : BOOLEAN, seq : Nat, bytes : Nat,
                unread : Int, overrun : BOOLEAN, got : [Slots -> Nat]]
  BY <1>1 DEF WriterType
<1>3. ASSUME NEW kind \in {"I", "P"}, LoseFrame(kind) PROVE ReaderInv'
  <2>1. hist' = [hist EXCEPT !.keylost = @ \/ kind = "I"]
        /\ UNCHANGED <<list, write, rd, av>>
    BY <1>3 DEF LoseFrame
  <2>2. /\ hist'.unread = hist.unread /\ hist'.overrun = hist.overrun
        /\ hist'.last = hist.last /\ hist'.got = hist.got
    BY <1>2, <2>1
  <2> QED BY <2>1, <2>2, ReaderUntouched
<1>4. ASSUME NEW kind \in {"I", "P"}, VideoFrame(kind) PROVE ReaderInv'
  <2>1. CASE w'.lost
    BY <1>4, <2>1, ReaderUntouched DEF VideoFrame
  <2>2. CASE ~w'.lost
    <3>1. Store(kind, cam'.id) /\ UNCHANGED <<rd, av>>
      BY <1>4, <2>2 DEF VideoFrame
    <3>2. cam'.id \in Nat
      BY <1>1, <1>4, CameraFrameType DEF VideoFrame
    <3> QED BY <1>1, <3>1, <3>2, StoreKeepsReader
  <2> QED BY <2>1, <2>2
<1>5. CASE AudioFrame
  BY <1>1, <1>5, StoreKeepsReader DEF AudioFrame
<1>6. CASE Reconnect \/ \E on \in BOOLEAN : SetStats(on)
  BY <1>6, ReaderUntouched DEF Reconnect, SetStats
<1> QED BY <1>3, <1>4, <1>5, <1>6 DEF Camera

LEMMA TakeKeepsReader ==
  ASSUME WriterType, ReaderInv, Take PROVE ReaderInv'
<1>1. /\ ~rd.busy /\ rd.pos # write
      /\ rd' = [rd EXCEPT !.unit = list[rd.pos], !.todo = Slots, !.busy = TRUE]
      /\ UNCHANGED <<list, write, av, hist>>
  BY DEF Take
<1>2. rd'.pos = rd.pos /\ rd'.unit = list[rd.pos] /\ rd'.todo = Slots /\ rd'.busy
  BY <1>1, ReaderNumbers
<1>3. \A n : Ahead(n)' = Ahead(n)
  BY <1>2 DEF Ahead
<1>4. \A n : Before(n)' = Before(n)
  BY <1>1, <1>3 DEF Before
<1>5. \A s \in Slots : Turn(s) = 0 /\ Turn(s)' = 0
  BY <1>1, <1>2 DEF Turn
<1>6. SlotsType' /\ FlagRight' /\ Counted'
  BY <1>1, <1>3 DEF ReaderInv, SlotsType, FlagRight, Counted
<1>7. InHand'
  <2>1. ASSUME ~hist.overrun PROVE hist.unread > 0
    <3>1. write = Ahead(hist.unread) /\ hist.unread \in 0 .. RingLen - 1
      BY <2>1, ReaderNumbers DEF ReaderInv, Counted
    <3>2. hist.unread # 0
      BY <1>1, <3>1, AheadApart
    <3> QED BY <3>2, ReaderNumbers
  <2> QED BY <2>1, <1>1, <1>2 DEF InHand
<1>8. Linked'
  BY <1>1, <1>3, <1>4 DEF ReaderInv, Linked
<1>9. \A s \in Slots : UpToDate(s)'
  BY <1>1, <1>4, <1>5 DEF ReaderInv, UpToDate
<1> QED BY <1>6, <1>7, <1>8, <1>9 DEF ReaderInv

LEMMA AdvanceKeepsReader ==
  ASSUME WriterType, ReaderInv, Advance PROVE ReaderInv'
<1>1. /\ rd.busy /\ rd.todo = {}
      /\ rd' = [rd EXCEPT !.busy = FALSE, !.unit = NoUnit, !.pos = NextUnit(@)]
      /\ hist' = [hist EXCEPT !.unread = IF hist.overrun THEN 0 ELSE @ - 1]
      /\ UNCHANGED <<list, write, av>>
  BY DEF Advance
<1>2. rd'.pos = NextUnit(rd.pos) /\ ~rd'.busy
  BY <1>1, ReaderNumbers
<1>3. /\ hist'.unread = IF hist.overrun THEN 0 ELSE hist.unread - 1
      /\ hist'.overrun = hist.overrun /\ hist'.last = hist.last
      /\ hist'.got = hist.got
  BY <1>1, ReaderNumbers
<1>4. SlotsType' /\ FlagRight'
  BY <1>1 DEF ReaderInv, SlotsType, FlagRight
<1>5. CASE hist.overrun
  BY <1>3, <1>4, <1>5 DEF ReaderInv, Counted, InHand, Linked, UpToDate
<1>6. CASE ~hist.overrun
  <2>1. hist.unread \in 1 .. RingLen - 1 /\ write = Ahead(hist.unread)
    BY <1>1, <1>6, ReaderNumbers DEF ReaderInv, InHand, Counted
  <2>2. hist'.unread = hist.unread - 1 /\ hist'.unread \in Nat
        /\ hist'.unread < RingLen
    BY <1>3, <1>6, <2>1, ReaderNumbers
  <2>3. ASSUME NEW n \in 0 .. RingLen - 2 PROVE Ahead(n)' = Ahead(n + 1)
    <3>1. rd.pos \in 0 .. RingLen - 1 /\ RingLen \in Nat
      BY ReaderNumbers
    <3>2. Ahead(n)' = IF rd'.pos + n >= RingLen THEN rd'.pos + n - RingLen
                                                ELSE rd'.pos + n
      BY DEF Ahead
    <3> QED BY <3>1, <3>2, <1>2, SMT DEF Ahead, NextUnit
  <2>4. ASSUME NEW n \in 0 .. hist.unread - 1 PROVE Before(n)' = Before(n + 1)
    <3>1. n \in 0 .. RingLen - 2
      BY <2>1, ReaderNumbers
    <3>2. n < hist'.unread <=> n + 1 < hist.unread
      BY <2>2, ReaderNumbers
    <3> QED BY <3>1, <3>2, <2>3, <1>1, <1>3 DEF Before
  <2>5. Counted'
    <3>1. ASSUME NEW n \in 0 .. RingLen - 2, n + 1 = hist.unread
          PROVE  Ahead(n)' = write
      BY <2>1, <2>3, <3>1
    <3>2. hist'.unread \in 0 .. RingLen - 2 /\ hist'.unread + 1 = hist.unread
      BY <2>1, <2>2, ReaderNumbers
    <3>3. write' = Ahead(hist.unread)'
      BY <3>1, <3>2, <1>1
    <3> QED BY <3>3, <2>2 DEF Counted
  <2>6. InHand'
    BY <1>2 DEF InHand
  <2>7. Linked'
    <3>1. ASSUME NEW n \in 0 .. hist'.unread - 1
          PROVE  Before(n + 1)' = UpTo(list'[Ahead(n)'])
      <4>1. /\ n \in 0 .. RingLen - 2 /\ n + 1 \in 0 .. hist.unread - 1
            /\ n + 1 + 1 \in Nat
        BY <2>1, <2>2, <3>1, ReaderNumbers
      <4>2. Before(n + 1)' = Before(n + 1 + 1) /\ Ahead(n)' = Ahead(n + 1)
        BY <4>1, <2>3, <2>4
      <4>3. Before(n + 1 + 1) = UpTo(list[Ahead(n + 1)])
        BY <4>1, <1>6 DEF ReaderInv, Linked
      <4> QED BY <4>2, <4>3, <1>1
    <3> QED BY <3>1 DEF Linked
  <2>8. ASSUME NEW s \in Slots PROVE UpToDate(s)'
    <3>1. Turn(s) = 1 /\ Turn(s)' = 0
      BY <1>1, <1>2 DEF Turn
    <3>2. Before(0)' = Before(1)
      <4>1. 0 \in 0 .. hist.unread - 1 /\ 0 + 1 = 1
        BY <2>1, ReaderNumbers
      <4> QED BY <4>1, <2>4
    <3> QED BY <3>1, <3>2, <1>1, <1>3, <1>6 DEF ReaderInv, UpToDate
  <2> QED BY <1>4, <2>5, <2>6, <2>7, <2>8 DEF ReaderInv
<1> QED BY <1>5, <1>6

(* What one session's turn does to its slot and to what it got.            *)
LEMMA SendEffect ==
  ASSUME WriterType, ReaderInv, NEW s \in Slots, Send(s)
  PROVE  /\ rd.busy /\ s \in rd.todo
         /\ rd' = [rd EXCEPT !.todo = @ \ {s}]
         /\ UNCHANGED <<list, write>>
         /\ SlotsType' /\ FlagRight'
         /\ \A r \in Slots \ {s} : av'[r] = av[r]
         /\ hist'.unread = hist.unread /\ hist'.overrun = hist.overrun
         /\ hist'.last = hist.last
         /\ \A r \in Slots \ {s} : hist'.got[r] = hist.got[r]
         /\ av'[s].flag /\ av'[s].mode = "NORMAL" =>
              \/ hist'.got[s] = UpTo(rd.unit)
              \/ rd.unit.kind = "A" /\ UNCHANGED <<av, hist>>
         /\ rd.unit.kind = "P" /\ hist'.got # hist.got =>
              av[s].flag /\ av[s].mode = "NORMAL"
<1>1. /\ rd.busy /\ s \in rd.todo
      /\ rd' = [rd EXCEPT !.todo = @ \ {s}]
      /\ UNCHANGED <<list, write>>
      /\ \/ \E backlog \in {"small", "some", "much", "full"} : SendVideo(s, backlog)
         \/ SendNothing(s)
  BY DEF Send
<1>2. SlotsType /\ FlagRight
  BY DEF ReaderInv
<1>3. CASE UNCHANGED <<av, hist>> /\ (av[s].flag => rd.unit.kind = "A")
  BY <1>1, <1>2, <1>3 DEF SlotsType, FlagRight
<1>4. ASSUME NEW backlog \in {"small", "some", "much", "full"},
             SendVideo(s, backlog), av[s].flag \/ rd.unit.kind = "I",
             NEW mode, mode = NewMode(av[s].mode, rd.unit.kind, backlog)
      PROVE  /\ mode \in Modes
             /\ av' = [av EXCEPT ![s].flag = TRUE, ![s].mode = mode]
             /\ av[s].watching /\ av[s].video /\ rd.unit.kind # "A"
             /\ mode = "NORMAL" => hist' = [hist EXCEPT !.got[s] = rd.unit.id]
             /\ hist' = hist \/ hist' = [hist EXCEPT !.got[s] = rd.unit.id]
             /\ hist' # hist /\ rd.unit.kind = "P" =>
                  av[s].flag /\ av[s].mode = "NORMAL"
  <2>1. /\ av' = [av EXCEPT ![s].flag = TRUE, ![s].mode = mode]
        /\ hist' = IF Spared(mode, rd.unit.kind) THEN hist
                   ELSE [hist EXCEPT !.got[s] = rd.unit.id]
        /\ av[s].watching /\ av[s].video /\ rd.unit.kind # "A"
    BY <1>4 DEF SendVideo
  <2>2. av[s].mode \in Modes
    BY <1>2 DEF SlotsType
  <2>3. mode \in Modes
    BY <1>4, <2>2 DEF NewMode, Modes
  <2>4. mode = "NORMAL" => ~Spared(mode, rd.unit.kind)
    BY DEF Spared
  <2>5. rd.unit.kind = "P" /\ ~Spared(mode, rd.unit.kind) =>
          av[s].flag /\ av[s].mode = "NORMAL"
    BY <1>4, <2>2 DEF Spared, NewMode, Modes
  <2> QED BY <2>1, <2>3, <2>4, <2>5
<1>5. ASSUME NEW backlog \in {"small", "some", "much", "full"},
             SendVideo(s, backlog), av[s].flag \/ rd.unit.kind = "I"
      PROVE  /\ SlotsType' /\ FlagRight'
             /\ \A r \in Slots \ {s} : av'[r] = av[r]
             /\ hist'.unread = hist.unread /\ hist'.overrun = hist.overrun
             /\ hist'.last = hist.last
             /\ \A r \in Slots \ {s} : hist'.got[r] = hist.got[r]
             /\ av'[s].mode = "NORMAL" => hist'.got[s] = UpTo(rd.unit)
             /\ rd.unit.kind = "P" /\ hist'.got # hist.got =>
                  av[s].flag /\ av[s].mode = "NORMAL"
  <2>1. PICK mode : mode = NewMode(av[s].mode, rd.unit.kind, backlog)
    OBVIOUS
  <2>2. /\ mode \in Modes
        /\ av' = [av EXCEPT ![s].flag = TRUE, ![s].mode = mode]
        /\ av[s].watching /\ av[s].video /\ rd.unit.kind # "A"
        /\ mode = "NORMAL" => hist' = [hist EXCEPT !.got[s] = rd.unit.id]
        /\ hist' = hist \/ hist' = [hist EXCEPT !.got[s] = rd.unit.id]
        /\ hist' # hist /\ rd.unit.kind = "P" =>
             av[s].flag /\ av[s].mode = "NORMAL"
    BY <1>4, <1>5, <2>1
  <2>3. PICK slot : /\ slot = [[av[s] EXCEPT !.flag = TRUE] EXCEPT !.mode = mode]
                    /\ av' = [av EXCEPT ![s] = slot]
    BY <1>2, <2>2 DEF SlotsType
  <2>4. /\ slot \in [watching : BOOLEAN, video : BOOLEAN, flag : BOOLEAN,
                     mode : Modes]
        /\ slot.watching = av[s].watching /\ slot.video = av[s].video
        /\ slot.mode = mode
    <3>1. av[s] \in [watching : BOOLEAN, video : BOOLEAN, flag : BOOLEAN, mode : Modes]
      BY <1>2 DEF SlotsType
    <3>2. PICK half : half = [av[s] EXCEPT !.flag = TRUE]
      OBVIOUS
    <3>3. /\ half \in [watching : BOOLEAN, video : BOOLEAN, flag : BOOLEAN,
                       mode : Modes]
          /\ half.watching = av[s].watching /\ half.video = av[s].video
      BY <3>1, <3>2
    <3>4. slot = [half EXCEPT !.mode = mode]
      BY <2>3, <3>2
    <3> QED BY <2>2, <3>3, <3>4
  <2>5. SlotsType' /\ av'[s] = slot /\ \A r \in Slots \ {s} : av'[r] = av[r]
    BY <1>2, <2>3, <2>4 DEF SlotsType
  <2>6. FlagRight'
    BY <1>2, <2>2, <2>4, <2>5 DEF FlagRight
  <2>7. /\ hist'.unread = hist.unread /\ hist'.overrun = hist.overrun
        /\ hist'.last = hist.last
        /\ \A r \in Slots \ {s} : hist'.got[r] = hist.got[r]
    BY <2>2, ReaderNumbers
  <2>8. av'[s].mode = "NORMAL" => hist'.got[s] = rd.unit.id
    BY <2>2, <2>4, <2>5, ReaderNumbers
  <2>9. UpTo(rd.unit) = rd.unit.id
    BY <2>2 DEF UpTo
  <2> QED BY <2>2, <2>5, <2>6, <2>7, <2>8, <2>9
<1>6. ASSUME NEW backlog \in {"small", "some", "much", "full"},
             SendVideo(s, backlog), ~(av[s].flag \/ rd.unit.kind = "I")
      PROVE  UNCHANGED <<av, hist>> /\ ~av[s].flag
  BY <1>6 DEF SendVideo
<1>7. CASE SendNothing(s)
  BY <1>2, <1>3, <1>7 DEF SendNothing, FlagRight
<1> QED BY <1>1, <1>3, <1>5, <1>6, <1>7

LEMMA SendKeepsReader ==
  ASSUME WriterType, ReaderInv, NEW s \in Slots, Send(s) PROVE ReaderInv'
<1>1. /\ rd.busy /\ s \in rd.todo
      /\ rd' = [rd EXCEPT !.todo = @ \ {s}]
      /\ UNCHANGED <<list, write>>
      /\ SlotsType' /\ FlagRight'
      /\ \A r \in Slots \ {s} : av'[r] = av[r]
      /\ hist'.unread = hist.unread /\ hist'.overrun = hist.overrun
      /\ hist'.last = hist.last
      /\ \A r \in Slots \ {s} : hist'.got[r] = hist.got[r]
      /\ av'[s].flag /\ av'[s].mode = "NORMAL" =>
           \/ hist'.got[s] = UpTo(rd.unit)
           \/ rd.unit.kind = "A" /\ UNCHANGED <<av, hist>>
  BY SendEffect
<1>2. /\ rd'.pos = rd.pos /\ rd'.unit = rd.unit /\ rd'.busy = rd.busy
      /\ rd'.todo = rd.todo \ {s}
  BY <1>1, ReaderNumbers
<1>3. \A n : Ahead(n)' = Ahead(n)
  BY <1>2 DEF Ahead
<1>4. \A n : Before(n)' = Before(n)
  BY <1>1, <1>3 DEF Before
<1>5. Counted' /\ InHand' /\ Linked'
  BY <1>1, <1>2, <1>3, <1>4 DEF ReaderInv, Counted, InHand, Linked
<1>6. ASSUME NEW r \in Slots \ {s} PROVE UpToDate(r)'
  <2>1. Turn(r)' = Turn(r)
    BY <1>2 DEF Turn
  <2> QED BY <2>1, <1>1, <1>4 DEF ReaderInv, UpToDate
<1>7. UpToDate(s)'
  <2>1. SUFFICES ASSUME ~hist.overrun, av'[s].flag, av'[s].mode = "NORMAL"
                 PROVE  hist'.got[s] = Before(Turn(s))'
    BY <1>1 DEF UpToDate
  <2>2. Turn(s) = 0 /\ Turn(s)' = 1
    BY <1>1, <1>2 DEF Turn
  <2>3. Before(0) = rd.unit.after /\ Before(1) = UpTo(rd.unit)
    <3>1. hist.unread > 0 /\ rd.unit = list[rd.pos] /\ hist.unread \in Nat
      BY <1>1, <2>1, ReaderNumbers DEF ReaderInv, InHand
    <3>2. Ahead(0) = rd.pos
      BY AheadApart, ReaderNumbers
    <3>3. 0 \in 0 .. hist.unread - 1 /\ 0 + 1 = 1
      BY <3>1
    <3>4. Before(0 + 1) = UpTo(list[Ahead(0)])
      BY <2>1, <3>3 DEF ReaderInv, Linked
    <3> QED BY <3>1, <3>2, <3>3, <3>4 DEF Before
  <2>4. CASE hist'.got[s] = UpTo(rd.unit)
    BY <2>2, <2>3, <2>4, <1>4
  <2>5. CASE rd.unit.kind = "A" /\ UNCHANGED <<av, hist>>
    <3>1. hist.got[s] = Before(0)
      BY <2>1, <2>2, <2>5 DEF ReaderInv, UpToDate
    <3> QED BY <3>1, <2>2, <2>3, <2>5, <1>4 DEF UpTo
  <2> QED BY <2>1, <2>4, <2>5, <1>1
<1> QED BY <1>1, <1>5, <1>6, <1>7 DEF ReaderInv

(* A session's own thread only ever takes the first key frame back.        *)
LEMMA ViewerKeepsReader ==
  ASSUME WriterType, ReaderInv, NEW s \in Slots, Viewer(s) PROVE ReaderInv'
<1>1. SlotsType /\ FlagRight
  BY DEF ReaderInv
<1>2. \E slot \in [watching : BOOLEAN, video : BOOLEAN, flag : BOOLEAN,
                   mode : Modes] :
        /\ av' = [av EXCEPT ![s] = slot]
        /\ \/ ~slot.flag
           \/ /\ slot.watching /\ slot.video = av[s].video
              /\ slot.flag = av[s].flag /\ slot.mode = av[s].mode
              /\ hist' = hist
        /\ hist' = hist \/ hist' = [hist EXCEPT !.got[s] = 0]
        /\ UNCHANGED <<list, write, rd>>
  <2>1. av[s] \in [watching : BOOLEAN, video : BOOLEAN, flag : BOOLEAN, mode : Modes]
        /\ "NORMAL" \in Modes
    BY <1>1 DEF SlotsType, Modes
  <2>2. CASE EnterSlot(s)
    <3>1. NoSession \in [watching : BOOLEAN, video : BOOLEAN, flag : BOOLEAN,
                         mode : Modes] /\ ~NoSession.flag
      BY <2>1 DEF NoSession
    <3> QED BY <2>2, <3>1 DEF EnterSlot, SetSlot
  <2>3. CASE Watch(s)
    BY <2>1, <2>3 DEF Watch, SetSlot
  <2>4. CASE Unwatch(s)
    <3>1. PICK slot : slot = [NoSession EXCEPT !.mode = av[s].mode]
      OBVIOUS
    <3>2. NoSession \in [watching : BOOLEAN, video : BOOLEAN, flag : BOOLEAN,
                        mode : Modes] /\ ~NoSession.flag
      BY <2>1 DEF NoSession
    <3>3. slot \in [watching : BOOLEAN, video : BOOLEAN, flag : BOOLEAN, mode : Modes]
          /\ ~slot.flag
      BY <2>1, <3>1, <3>2
    <3>4. /\ av' = [av EXCEPT ![s] = slot] /\ hist' = hist
          /\ UNCHANGED <<list, write, rd>>
      BY <2>4, <3>1 DEF Unwatch, SetSlot
    <3> QED BY <3>3, <3>4
  <2>5. CASE OpenVideo(s)
    BY <2>1, <2>5 DEF OpenVideo, SetSlot
  <2>6. CASE CloseVideo(s)
    BY <2>1, <2>6 DEF CloseVideo, SetSlot
  <2> QED BY <2>2, <2>3, <2>4, <2>5, <2>6 DEF Viewer
<1>3. PICK slot \in [watching : BOOLEAN, video : BOOLEAN, flag : BOOLEAN,
                     mode : Modes] :
        /\ av' = [av EXCEPT ![s] = slot]
        /\ \/ ~slot.flag
           \/ /\ slot.watching /\ slot.video = av[s].video
              /\ slot.flag = av[s].flag /\ slot.mode = av[s].mode
              /\ hist' = hist
        /\ hist' = hist \/ hist' = [hist EXCEPT !.got[s] = 0]
        /\ UNCHANGED <<list, write, rd>>
  BY <1>2
<1>4. /\ hist'.unread = hist.unread /\ hist'.overrun = hist.overrun
      /\ hist'.last = hist.last
      /\ \A r \in Slots \ {s} : hist'.got[r] = hist.got[r]
  BY <1>3, ReaderNumbers
<1>5. av'[s] = slot /\ \A r \in Slots \ {s} : av'[r] = av[r]
  BY <1>1, <1>3 DEF SlotsType
<1>6. SlotsType'
  BY <1>1, <1>3 DEF SlotsType
<1>7. FlagRight'
  BY <1>1, <1>3, <1>5 DEF FlagRight
<1>8. \A n : Ahead(n)' = Ahead(n)
  BY <1>3 DEF Ahead
<1>9. \A n : Before(n)' = Before(n)
  BY <1>3, <1>4, <1>8 DEF Before
<1>10. Counted' /\ InHand' /\ Linked'
  BY <1>3, <1>4, <1>8, <1>9 DEF ReaderInv, Counted, InHand, Linked
<1>11. \A r \in Slots : Turn(r)' = Turn(r)
  BY <1>3 DEF Turn
<1>12. \A r \in Slots \ {s} : UpToDate(r)'
  BY <1>4, <1>5, <1>9, <1>11 DEF ReaderInv, UpToDate
<1>13. UpToDate(s)'
  BY <1>3, <1>4, <1>5, <1>9, <1>11 DEF ReaderInv, UpToDate
<1> QED BY <1>6, <1>7, <1>10, <1>12, <1>13 DEF ReaderInv

(* The camera makes no more frames than it is given.                       *)
FramesBounded == cam.id \in 0 .. MaxFrames

StreamInv ==
  WriterInv /\ ReaderInv /\ FramesBounded /\ nstats \in BOOLEAN

LEMMA ReaderStepKept ==
  ASSUME WriterInv, ReaderInv, [StreamNext]_streamVars PROVE ReaderInv'
<1>1. WriterType
  BY DEF WriterInv
<1>2. CASE Reader
  BY <1>1, <1>2, TakeKeepsReader, AdvanceKeepsReader, SendKeepsReader DEF Reader
<1>3. CASE UNCHANGED streamVars
  BY <1>3, ReaderUntouched DEF streamVars
<1> QED BY <1>1, <1>2, <1>3, CameraKeepsReader, ViewerKeepsReader DEF StreamNext

LEMMA BoundStep ==
  ASSUME WriterInv, FramesBounded, nstats \in BOOLEAN, [StreamNext]_streamVars
  PROVE  FramesBounded' /\ nstats' \in BOOLEAN
<1>1. ASSUME NEW kind \in {"I", "P"}, CameraFrame(kind) PROVE FramesBounded'
  <2>1. cam'.id = cam.id + 1 /\ cam.id < MaxFrames
    BY <1>1, CameraFrameType DEF WriterInv, CameraFrame
  <2> QED BY <2>1, Numbers DEF FramesBounded
<1>2. ASSUME cam' \in {cam, [cam EXCEPT !.num = 0]} PROVE FramesBounded'
  <2>1. cam \in [id : Nat, num : 0 .. GopLen]
    BY DEF WriterInv, WriterType
  <2>2. cam'.id = cam.id
    BY <1>2, <2>1
  <2> QED BY <2>2 DEF FramesBounded
<1>3. ASSUME NEW s \in Slots, Viewer(s) PROVE UNCHANGED <<cam, nstats>>
  BY <1>3 DEF Viewer, EnterSlot, Watch, Unwatch, OpenVideo, CloseVideo, SetSlot
<1>4. CASE Reader
  BY <1>2, <1>4 DEF Reader, Take, Advance, Send
<1>5. CASE Camera
  BY <1>1, <1>2, <1>5
     DEF Camera, LoseFrame, VideoFrame, AudioFrame, Reconnect, SetStats
<1> QED BY <1>2, <1>3, <1>4, <1>5 DEF StreamNext, streamVars

LEMMA StreamInvInit == StreamInit => StreamInv
<1> SUFFICES ASSUME StreamInit PROVE StreamInv
  OBVIOUS
<1>1. WriterInv
  BY WriterInit
<1>2. SlotsType /\ FlagRight
  BY DEF StreamInit, SlotsType, FlagRight, NoSession, Modes
<1>3. hist.unread = 0 /\ write = 0 /\ rd.pos = 0 /\ ~rd.busy
  BY DEF StreamInit
<1>4. Counted
  BY <1>3, Numbers DEF Counted, Ahead
<1>5. InHand /\ Linked
  BY <1>3 DEF InHand, Linked
<1>6. \A s \in Slots : UpToDate(s)
  BY DEF StreamInit, UpToDate, NoSession
<1>7. cam.id = 0 /\ nstats \in BOOLEAN
  BY DEF StreamInit
<1>8. FramesBounded
  BY <1>7, Numbers DEF FramesBounded
<1> QED BY <1>1, <1>2, <1>4, <1>5, <1>6, <1>7, <1>8 DEF StreamInv, ReaderInv

LEMMA StreamInvariant == StreamSpec => []StreamInv
<1>1. StreamInv /\ [StreamNext]_streamVars => StreamInv'
  BY WriterStep, ReaderStepKept, BoundStep DEF StreamInv
<1> QED BY <1>1, StreamInvInit, PTL DEF StreamSpec

(* Every variable of the stream keeps its type: the indices stay in the    *)
(* ring, the offsets in the block, the numbers in the group.               *)
THEOREM StreamTypeCorrect == StreamSpec => []StreamType
<1>1. ASSUME StreamInv PROVE StreamType
  <2>1. WriterType /\ SlotsType /\ hist.unread \in Nat /\ FramesBounded
        /\ nstats \in BOOLEAN
    BY <1>1 DEF StreamInv, WriterInv, ReaderInv, Counted
  <2>2. cam \in [id : 0 .. MaxFrames, num : 0 .. GopLen]
    BY <2>1 DEF WriterType, FramesBounded
  <2>3. hist \in [last : Nat, keylost : BOOLEAN, seq : Nat, bytes : Nat,
                  unread : Nat, overrun : BOOLEAN, got : [Slots -> Nat]]
    BY <2>1 DEF WriterType
  <2> QED BY <2>1, <2>2, <2>3 DEF StreamType, WriterType, SlotsType
<1>2. StreamInv => StreamType
  BY <1>1
<1> QED BY <1>2, StreamInvariant, PTL

(* A session gets a P frame only behind the frame it was coded against,    *)
(* unless the writer has lapped the reader or the frame was stored without *)
(* that one: for any number of sessions that come, go, close and reopen    *)
(* their video and fall behind by any amount of unsent data.               *)
THEOREM ViewersDecode == StreamSpec => ViewerDecodes
<1>1. ASSUME StreamInv, [StreamNext]_streamVars
      PROVE  [\A s \in Slots :
                (hist'.got[s] # hist.got[s] /\ hist'.got[s] # 0 /\ rd.unit.kind = "P")
                   => \/ hist.got[s] = rd.unit.id - 1
                      \/ rd.unit.after # rd.unit.id - 1
                      \/ hist.overrun]_streamVars
  <2>1. SUFFICES ASSUME NEW s \in Slots, hist'.got[s] # hist.got[s],
                        hist'.got[s] # 0, rd.unit.kind = "P", ~hist.overrun
                 PROVE  hist.got[s] = rd.unit.after
    OBVIOUS
  <2>2. WriterType /\ ReaderInv
    BY <1>1 DEF StreamInv, WriterInv
  <2>3. ASSUME NEW r \in Slots, Viewer(r) PROVE FALSE
    <3>1. hist' = hist \/ hist' = [hist EXCEPT !.got[r] = 0]
      BY <2>3 DEF Viewer, EnterSlot, Watch, Unwatch, OpenVideo, CloseVideo, SetSlot
    <3> QED BY <2>1, <2>2, <3>1, ReaderNumbers
  <2>4. ASSUME Camera PROVE FALSE
    <3>1. ASSUME NEW kind \in {"I", "P", "A"}, NEW id \in Nat, Store(kind, id)
          PROVE  FALSE
      BY <2>1, <2>2, <3>1, StoreCounts
    <3>2. ASSUME NEW kind \in {"I", "P"}, LoseFrame(kind) PROVE FALSE
      <4>1. hist' = [hist EXCEPT !.keylost = @ \/ kind = "I"]
        BY <3>2 DEF LoseFrame
      <4> QED BY <2>1, <2>2, <4>1, ReaderNumbers
    <3>3. ASSUME NEW kind \in {"I", "P"}, VideoFrame(kind) PROVE FALSE
      <4>1. cam'.id \in Nat
        BY <2>2, <3>3, CameraFrameType DEF VideoFrame
      <4> QED BY <2>1, <3>1, <3>3, <4>1 DEF VideoFrame
    <3>4. ~AudioFrame /\ ~Reconnect /\ \A on \in BOOLEAN : ~SetStats(on)
      BY <2>1, <3>1 DEF AudioFrame, Reconnect, SetStats
    <3> QED BY <2>4, <3>2, <3>3, <3>4 DEF Camera
  <2>5. ~Take
    BY <2>1 DEF Take
  <2>6. ~Advance
    <3>1. ASSUME Advance PROVE FALSE
      <4>1. hist' = [hist EXCEPT !.unread = IF hist.overrun THEN 0 ELSE @ - 1]
        BY <3>1 DEF Advance
      <4> QED BY <2>1, <2>2, <4>1, ReaderNumbers
    <3> QED BY <3>1
  <2>7. Send(s)
    <3>1. ASSUME NEW r \in Slots, Send(r), r # s PROVE FALSE
      BY <2>1, <2>2, <3>1, SendEffect
    <3>2. PICK r \in Slots : Send(r)
      BY <1>1, <2>1, <2>3, <2>4, <2>5, <2>6 DEF StreamNext, Reader, streamVars
    <3> QED BY <3>1, <3>2
  <2>8. /\ rd.busy /\ s \in rd.todo
        /\ av[s].flag /\ av[s].mode = "NORMAL"
    BY <2>1, <2>2, <2>7, SendEffect
  <2>9. hist.got[s] = Before(0)
    <3>1. Turn(s) = 0
      BY <2>8 DEF Turn
    <3> QED BY <2>1, <2>2, <2>8, <3>1 DEF ReaderInv, UpToDate
  <2>10. Before(0) = rd.unit.after
    <3>1. hist.unread > 0 /\ rd.unit = list[rd.pos]
      BY <2>1, <2>2, <2>8 DEF ReaderInv, InHand
    <3>2. Ahead(0) = rd.pos
      BY <2>2, AheadApart, ReaderNumbers
    <3> QED BY <3>1, <3>2 DEF Before
  <2> QED BY <2>9, <2>10
<1> QED BY <1>1, StreamInvariant, PTL DEF StreamSpec, ViewerDecodes
-----------------------------------------------------------------------------
(* The order in which a viewer gets the frames, lapped or not: the ring    *)
(* between reader and writer holds frames in the order they were made, and *)
(* they are later than all a session has had.  The counters of the last    *)
(* section play no part: after a lap the two indices say the same.         *)

\* The next unit the reader takes.
Start == IF rd.busy THEN NextUnit(rd.pos) ELSE rd.pos

\* How far ahead of that place i is.
Dist(i) == IF i >= Start THEN i - Start ELSE i - Start + RingLen

\* The places of the units the reader has still to take.
Pending == {i \in 0 .. RingLen - 1 : Dist(i) < Dist(write)}

Video(u) == u.kind # "A"

PendingLater ==
  \A i \in Pending : Video(list[i]) =>
    /\ 0 < list[i].id /\ list[i].id <= hist.last
    /\ \A s \in Slots : hist.got[s] < list[i].id

PendingSorted ==
  \A i, j \in Pending :
    Video(list[i]) /\ Video(list[j]) /\ Dist(i) < Dist(j)
      => list[i].id < list[j].id

HandLater ==
  rd.busy /\ Video(rd.unit) =>
    /\ 0 < rd.unit.id /\ rd.unit.id <= hist.last
    /\ \A s \in Slots : hist.got[s] <= rd.unit.id
    /\ \A s \in rd.todo : hist.got[s] < rd.unit.id
    /\ \A i \in Pending : Video(list[i]) => rd.unit.id < list[i].id

GotMade ==
  hist.last <= cam.id /\ \A s \in Slots : hist.got[s] <= hist.last

OrderInv == PendingLater /\ PendingSorted /\ HandLater /\ GotMade

LEMMA OrderNumbers ==
  ASSUME WriterType
  PROVE  /\ RingLen \in Nat /\ RingLen > 1
         /\ rd.pos \in 0 .. RingLen - 1 /\ write \in 0 .. RingLen - 1
         /\ rd.unit \in Unit /\ rd.todo \subseteq Slots
         /\ rd.unit.id \in Nat /\ hist.last \in Nat /\ cam.id \in Nat
         /\ hist.got \in [Slots -> Nat]
         /\ \A s \in Slots : hist.got[s] \in Nat
         /\ \A i \in 0 .. RingLen - 1 : list[i] \in Unit /\ list[i].id \in Nat
<1>1. /\ rd \in [pos : 0 .. RingLen - 1, unit : Unit, todo : SUBSET Slots,
                 busy : BOOLEAN]
      /\ hist \in [last : Nat, keylost : BOOLEAN, seq : Nat, bytes : Nat,
                   unread : Int, overrun : BOOLEAN, got : [Slots -> Nat]]
      /\ list \in [0 .. RingLen - 1 -> Unit] /\ write \in 0 .. RingLen - 1
      /\ cam \in [id : Nat, num : 0 .. GopLen]
  BY DEF WriterType
<1>2. \A u \in Unit : u.id \in Nat
  BY DEF Unit
<1> QED BY <1>1, <1>2, Numbers

(* Around the ring: the places from the reader's next one on are numbered  *)
(* from 0 up, each number once, and one further on is one more.            *)
LEMMA Distances ==
  ASSUME WriterType
  PROVE  /\ Start \in 0 .. RingLen - 1
         /\ \A i \in 0 .. RingLen - 1 : Dist(i) \in 0 .. RingLen - 1
         /\ \A i, j \in 0 .. RingLen - 1 : Dist(i) = Dist(j) => i = j
         /\ \A i \in 0 .. RingLen - 1 :
              /\ NextUnit(i) \in 0 .. RingLen - 1
              /\ Dist(NextUnit(i)) =
                   IF NextUnit(i) = Start THEN 0 ELSE Dist(i) + 1
<1>1. RingLen \in Nat /\ RingLen > 1 /\ rd.pos \in 0 .. RingLen - 1
  BY OrderNumbers
<1>2. Start \in 0 .. RingLen - 1
  BY <1>1 DEF Start, NextUnit
<1>3. \A i \in 0 .. RingLen - 1 : Dist(i) \in 0 .. RingLen - 1
  BY <1>1, <1>2 DEF Dist
<1>4. \A i, j \in 0 .. RingLen - 1 : Dist(i) = Dist(j) => i = j
  BY <1>1, <1>2 DEF Dist
<1>5. ASSUME NEW i \in 0 .. RingLen - 1
      PROVE  /\ NextUnit(i) \in 0 .. RingLen - 1
             /\ Dist(NextUnit(i)) = IF NextUnit(i) = Start THEN 0 ELSE Dist(i) + 1
  BY <1>1, <1>2 DEF Dist, NextUnit
<1> QED BY <1>2, <1>3, <1>4, <1>5

(* A frame stored is the last of those to be taken; or the writer comes    *)
(* round to the reader's next place, and there are none.                   *)
LEMMA StorePending ==
  ASSUME WriterType, write' = NextUnit(write), rd' = rd
  PROVE  /\ \A i : Dist(i)' = Dist(i)
         /\ \/ Pending' = {}
            \/ Pending' = Pending \cup {write}
         /\ \A i \in Pending : Dist(i) < Dist(write)
         /\ Pending \subseteq (0 .. RingLen - 1) \ {write}
<1>1. \A i : Dist(i)' = Dist(i)
  BY DEF Dist, Start
<1>2. /\ write \in 0 .. RingLen - 1 /\ RingLen \in Nat
      /\ \A i \in 0 .. RingLen - 1 : Dist(i) \in 0 .. RingLen - 1
      /\ \A i, j \in 0 .. RingLen - 1 : Dist(i) = Dist(j) => i = j
      /\ Dist(NextUnit(write)) =
           IF NextUnit(write) = Start THEN 0 ELSE Dist(write) + 1
  BY OrderNumbers, Distances
<1>3. Pending' = {i \in 0 .. RingLen - 1 : Dist(i) < Dist(NextUnit(write))}
  <2>1. Dist(write)' = Dist(NextUnit(write))
    BY DEF Dist, Start
  <2> QED BY <1>1, <2>1 DEF Pending
<1>4. CASE NextUnit(write) = Start
  BY <1>2, <1>3, <1>4, <1>1 DEF Pending
<1>5. CASE NextUnit(write) # Start
  <2>1. Pending' = {i \in 0 .. RingLen - 1 : Dist(i) < Dist(write) + 1}
    BY <1>2, <1>3, <1>5
  <2>2. \A i \in 0 .. RingLen - 1 :
          Dist(i) < Dist(write) + 1 <=> Dist(i) < Dist(write) \/ i = write
    BY <1>2
  <2>3. Pending' = Pending \cup {write}
    BY <1>2, <2>1, <2>2 DEF Pending
  <2> QED BY <1>1, <1>2, <2>3 DEF Pending
<1> QED BY <1>4, <1>5

(* A video frame stored is later than all before it.                       *)
LEMMA StoreKeepsOrder ==
  ASSUME WriterType, OrderInv, NEW kind \in {"I", "P", "A"}, NEW id \in Nat,
         Store(kind, id), rd' = rd, cam'.id \in Nat, cam.id <= cam'.id,
         kind # "A" => cam.id < id /\ id <= cam'.id
  PROVE  OrderInv'
<1>1. /\ list' = [list EXCEPT ![write] = NewUnit(kind, id)]
      /\ hist'.last = IF kind = "A" THEN hist.last ELSE id
      /\ hist'.got = hist.got
      /\ write' = NextUnit(write)
  BY StoreEffect, StoreCounts
<1>2. PendingLater /\ PendingSorted /\ HandLater /\ GotMade
  BY DEF OrderInv
<1>3. /\ \A i : Dist(i)' = Dist(i)
      /\ Pending' \subseteq Pending \cup {write}
      /\ \A i \in Pending : Dist(i) < Dist(write)
      /\ Pending \subseteq (0 .. RingLen - 1) \ {write}
  BY <1>1, StorePending
<1>4. /\ \A i \in Pending : list'[i] = list[i]
      /\ list'[write] = NewUnit(kind, id)
  BY <1>1, <1>3 DEF WriterType
<1>5. NewUnit(kind, id).id = id /\ NewUnit(kind, id).kind = kind
  BY DEF NewUnit
<1>6. /\ hist.last \in Nat /\ hist.last <= hist'.last
      /\ hist.last <= cam.id /\ cam.id \in Nat
      /\ kind # "A" => hist.last < id /\ hist'.last = id
  BY <1>1, <1>2, OrderNumbers DEF GotMade
<1>7. /\ \A i \in Pending : list[i].id \in Nat
      /\ \A i \in Pending : Dist(i) \in Nat
      /\ Dist(write) \in Nat
      /\ \A s \in Slots : hist.got[s] \in Nat
  BY <1>3, OrderNumbers, Distances
<1>8. PendingLater'
  <2>1. SUFFICES ASSUME NEW i \in Pending', Video(list'[i])
                 PROVE  /\ 0 < list'[i].id /\ list'[i].id <= hist'.last
                        /\ \A s \in Slots : hist'.got[s] < list'[i].id
    BY DEF PendingLater, Video
  <2>2. CASE i \in Pending
    <3>1. /\ 0 < list[i].id /\ list[i].id <= hist.last
          /\ \A s \in Slots : hist.got[s] < list[i].id
      BY <1>2, <1>4, <2>1, <2>2 DEF PendingLater
    <3> QED BY <1>1, <1>4, <1>6, <1>7, <2>2, <3>1
  <2>3. CASE i = write
    <3>1. list'[i].id = id /\ kind # "A"
      BY <1>4, <1>5, <2>1, <2>3 DEF Video
    <3>2. \A s \in Slots : hist.got[s] <= hist.last
      BY <1>2 DEF GotMade
    <3> QED BY <1>1, <1>6, <1>7, <3>1, <3>2
  <2> QED BY <1>3, <2>2, <2>3
<1>9. PendingSorted'
  <2>1. SUFFICES ASSUME NEW i \in Pending', NEW j \in Pending', Video(list'[i]),
                        Video(list'[j]), Dist(i) < Dist(j)
                 PROVE  list'[i].id < list'[j].id
    BY <1>3 DEF PendingSorted, Video
  <2>2. i \in Pending
    <3>1. i # write
      <4>1. j \in Pending \/ j = write
        BY <1>3
      <4> QED BY <1>3, <1>7, <2>1, <4>1
    <3> QED BY <1>3, <3>1
  <2>3. CASE j \in Pending
    BY <1>2, <1>4, <2>1, <2>2, <2>3 DEF PendingSorted
  <2>4. CASE j = write
    <3>1. list[i].id <= hist.last /\ kind # "A" /\ list'[j].id = id
      BY <1>2, <1>4, <1>5, <2>1, <2>2, <2>4 DEF PendingLater, Video
    <3> QED BY <1>4, <1>6, <1>7, <2>2, <3>1
  <2> QED BY <1>3, <2>3, <2>4
<1>10. HandLater'
  <2>1. SUFFICES ASSUME rd.busy, Video(rd.unit)
                 PROVE  /\ 0 < rd.unit.id /\ rd.unit.id <= hist'.last
                        /\ \A s \in Slots : hist'.got[s] <= rd.unit.id
                        /\ \A s \in rd.todo : hist'.got[s] < rd.unit.id
                        /\ \A i \in Pending' : Video(list'[i])
                                                 => rd.unit.id < list'[i].id
    BY DEF HandLater, Video
  <2>2. /\ 0 < rd.unit.id /\ rd.unit.id <= hist.last
        /\ \A s \in Slots : hist.got[s] <= rd.unit.id
        /\ \A s \in rd.todo : hist.got[s] < rd.unit.id
        /\ \A i \in Pending : Video(list[i]) => rd.unit.id < list[i].id
    BY <1>2, <2>1 DEF HandLater
  <2>3. rd.unit.id \in Nat
    BY OrderNumbers
  <2>4. ASSUME NEW i \in Pending', Video(list'[i]) PROVE rd.unit.id < list'[i].id
    <3>1. CASE i \in Pending
      BY <1>4, <2>2, <2>4, <3>1
    <3>2. CASE i = write
      <4>1. list'[i].id = id /\ kind # "A"
        BY <1>4, <1>5, <2>4, <3>2 DEF Video
      <4> QED BY <1>6, <2>2, <2>3, <4>1
    <3> QED BY <1>3, <3>1, <3>2
  <2> QED BY <1>1, <1>6, <2>2, <2>3, <2>4
<1>11. GotMade'
  <2>1. hist'.last <= cam'.id
    BY <1>1, <1>6
  <2>2. \A s \in Slots : hist'.got[s] <= hist'.last
    BY <1>1, <1>2, <1>6, <1>7 DEF GotMade
  <2> QED BY <2>1, <2>2 DEF GotMade
<1> QED BY <1>8, <1>9, <1>10, <1>11 DEF OrderInv

(* A step that leaves the ring and the reader alone, and takes from the    *)
(* sessions at most what they had.                                         *)
LEMMA OrderUntouched ==
  ASSUME WriterType, OrderInv, UNCHANGED <<list, write, rd>>,
         hist'.last = hist.last, cam'.id \in Nat, cam.id <= cam'.id,
         \A s \in Slots : hist'.got[s] = hist.got[s] \/ hist'.got[s] = 0
  PROVE  OrderInv'
<1>1. PendingLater /\ PendingSorted /\ HandLater /\ GotMade
  BY DEF OrderInv
<1>2. \A i : Dist(i)' = Dist(i)
  BY DEF Dist, Start
<1>3. Pending' = Pending
  <2>1. Dist(write)' = Dist(write)
    BY DEF Dist, Start
  <2> QED BY <1>2, <2>1 DEF Pending
<1>4. /\ Pending \subseteq 0 .. RingLen - 1
      /\ \A i \in Pending : list[i].id \in Nat
      /\ rd.unit.id \in Nat /\ hist.last \in Nat /\ cam.id \in Nat
      /\ \A s \in Slots : hist.got[s] \in Nat
      /\ rd.todo \subseteq Slots
  BY OrderNumbers DEF Pending
<1>5. PendingLater'
  <2>1. SUFFICES ASSUME NEW i \in Pending, Video(list[i])
                 PROVE  /\ 0 < list[i].id /\ list[i].id <= hist.last
                        /\ \A s \in Slots : hist'.got[s] < list[i].id
    BY <1>3 DEF PendingLater, Video
  <2> QED BY <1>1, <1>4, <2>1 DEF PendingLater
<1>6. PendingSorted'
  BY <1>1, <1>2, <1>3 DEF PendingSorted, Video
<1>7. HandLater'
  <2>1. SUFFICES ASSUME rd.busy, Video(rd.unit)
                 PROVE  /\ 0 < rd.unit.id /\ rd.unit.id <= hist.last
                        /\ \A s \in Slots : hist'.got[s] <= rd.unit.id
                        /\ \A s \in rd.todo : hist'.got[s] < rd.unit.id
                        /\ \A i \in Pending : Video(list[i])
                                                => rd.unit.id < list[i].id
    BY <1>3 DEF HandLater, Video
  <2> QED BY <1>1, <1>4, <2>1 DEF HandLater
<1>8. GotMade'
  BY <1>1, <1>4 DEF GotMade
<1> QED BY <1>5, <1>6, <1>7, <1>8 DEF OrderInv

LEMMA CameraKeepsOrder ==
  ASSUME WriterType, OrderInv, Camera PROVE OrderInv'
<1>1. /\ hist \in [last : Nat, keylost : BOOLEAN, seq : Nat, bytes : Nat,
                   unread : Int, overrun : BOOLEAN, got : [Slots -> Nat]]
      /\ cam \in [id : Nat, num : 0 .. GopLen] /\ cam.id \in Nat
  BY DEF WriterType
<1>2. ASSUME NEW kind \in {"I", "P"}, CameraFrame(kind)
      PROVE  cam'.id = cam.id + 1 /\ cam'.id \in Nat /\ cam.id < cam'.id
  BY <1>1, <1>2, CameraFrameType
<1>3. ASSUME NEW kind \in {"I", "P"}, LoseFrame(kind) PROVE OrderInv'
  <2>1. hist'.last = hist.last /\ hist'.got = hist.got
    <3>1. hist' = [hist EXCEPT !.keylost = @ \/ kind = "I"]
      BY <1>3 DEF LoseFrame
    <3> QED BY <1>1, <3>1
  <2>2. UNCHANGED <<list, write, rd>> /\ cam'.id \in Nat /\ cam.id <= cam'.id
    BY <1>1, <1>2, <1>3 DEF LoseFrame
  <2> QED BY <2>1, <2>2, OrderUntouched
<1>4. ASSUME NEW kind \in {"I", "P"}, VideoFrame(kind) PROVE OrderInv'
  <2>1. /\ cam'.id \in Nat /\ cam.id < cam'.id /\ cam.id <= cam'.id
        /\ rd' = rd
    BY <1>1, <1>2, <1>4 DEF VideoFrame
  <2>2. CASE w'.lost
    <3>1. UNCHANGED <<list, write, hist>>
      BY <1>4, <2>2 DEF VideoFrame
    <3> QED BY <2>1, <3>1, OrderUntouched
  <2>3. CASE ~w'.lost
    <3>1. Store(kind, cam'.id) /\ cam'.id <= cam'.id
      BY <1>4, <2>1, <2>3 DEF VideoFrame
    <3> QED BY <2>1, <3>1, StoreKeepsOrder
  <2> QED BY <2>2, <2>3
<1>5. CASE AudioFrame
  <2>1. Store("A", 0) /\ rd' = rd /\ cam'.id \in Nat /\ cam.id <= cam'.id
    BY <1>1, <1>5 DEF AudioFrame
  <2> QED BY <2>1, StoreKeepsOrder
<1>6. CASE Reconnect \/ \E on \in BOOLEAN : SetStats(on)
  <2>1. cam' \in {cam, [cam EXCEPT !.num = 0]} /\ UNCHANGED <<list, write, rd, hist>>
    BY <1>6 DEF Reconnect, SetStats
  <2>2. cam'.id = cam.id
    BY <1>1, <2>1
  <2> QED BY <1>1, <2>1, <2>2, OrderUntouched
<1> QED BY <1>3, <1>4, <1>5, <1>6 DEF Camera

(* The unit taken is the first of those to be taken: earlier than the rest,*)
(* later than all that was sent.                                           *)
LEMMA TakeKeepsOrder ==
  ASSUME WriterType, OrderInv, Take PROVE OrderInv'
<1>1. /\ ~rd.busy /\ rd.pos # write
      /\ rd' = [rd EXCEPT !.unit = list[rd.pos], !.todo = Slots, !.busy = TRUE]
      /\ UNCHANGED <<cam, list, write, hist>>
  BY DEF Take
<1>2. rd'.pos = rd.pos /\ rd'.unit = list[rd.pos] /\ rd'.todo = Slots /\ rd'.busy
  <2>1. rd \in [pos : 0 .. RingLen - 1, unit : Unit, todo : SUBSET Slots,
                busy : BOOLEAN]
    BY DEF WriterType
  <2> QED BY <1>1, <2>1
<1>3. PendingLater /\ PendingSorted /\ GotMade
  BY DEF OrderInv
<1>4. /\ RingLen \in Nat /\ RingLen > 1
      /\ rd.pos \in 0 .. RingLen - 1 /\ write \in 0 .. RingLen - 1
  BY OrderNumbers
<1>5. Start = rd.pos /\ Start' = NextUnit(rd.pos)
  BY <1>1, <1>2 DEF Start, NextUnit
<1>6. \A i \in 0 .. RingLen - 1 :
        /\ Dist(i) \in 0 .. RingLen - 1
        /\ i # rd.pos => Dist(i) > 0 /\ Dist(i)' = Dist(i) - 1
        /\ i = rd.pos => Dist(i) = 0 /\ Dist(i)' = RingLen - 1
  <2>1. Start' \in 0 .. RingLen - 1
    BY <1>4, <1>5 DEF NextUnit
  <2>2. \A i \in 0 .. RingLen - 1 :
          Dist(i)' = IF i >= Start' THEN i - Start' ELSE i - Start' + RingLen
    BY DEF Dist
  <2> QED BY <1>4, <1>5, <2>1, <2>2 DEF Dist, NextUnit
<1>7. rd.pos \in Pending
  BY <1>1, <1>4, <1>6 DEF Pending
<1>8. Pending' = Pending \ {rd.pos}
  <2>1. write' = write
    BY <1>1
  <2>2. Pending' = {i \in 0 .. RingLen - 1 : Dist(i)' < Dist(write)'}
    BY DEF Pending
  <2>3. Dist(write)' = Dist(write) - 1
    <3>1. Dist(write)' = IF write >= Start' THEN write - Start'
                         ELSE write - Start' + RingLen
      BY <2>1 DEF Dist
    <3> QED BY <1>1, <1>4, <1>5, <3>1 DEF Dist, NextUnit
  <2>4. \A i \in 0 .. RingLen - 1 :
          Dist(i)' < Dist(write) - 1 <=> i # rd.pos /\ Dist(i) < Dist(write)
    BY <1>4, <1>6
  <2> QED BY <2>2, <2>3, <2>4 DEF Pending
<1>9. /\ Pending \subseteq 0 .. RingLen - 1
      /\ \A i \in Pending : list[i].id \in Nat
      /\ \A s \in Slots : hist.got[s] \in Nat
  BY OrderNumbers DEF Pending
<1>10. PendingLater'
  BY <1>1, <1>3, <1>8 DEF PendingLater, Video
<1>11. PendingSorted'
  <2>1. SUFFICES ASSUME NEW i \in Pending', NEW j \in Pending', Video(list[i]),
                        Video(list[j]), Dist(i)' < Dist(j)'
                 PROVE  list[i].id < list[j].id
    BY <1>1 DEF PendingSorted, Video
  <2>2. i \in Pending /\ j \in Pending /\ i # rd.pos /\ j # rd.pos
    BY <1>8
  <2>3. Dist(i) < Dist(j)
    BY <1>4, <1>6, <1>9, <2>1, <2>2
  <2> QED BY <1>3, <2>1, <2>2, <2>3 DEF PendingSorted
<1>12. HandLater'
  <2>1. SUFFICES ASSUME Video(list[rd.pos])
                 PROVE  /\ 0 < list[rd.pos].id /\ list[rd.pos].id <= hist.last
                        /\ \A s \in Slots : hist.got[s] <= list[rd.pos].id
                        /\ \A s \in Slots : hist.got[s] < list[rd.pos].id
                        /\ \A i \in Pending' : Video(list[i])
                                                 => list[rd.pos].id < list[i].id
    <3>1. list' = list /\ hist' = hist
      BY <1>1
    <3>2. rd'.unit = list[rd.pos] /\ rd'.todo = Slots
      BY <1>2
    <3> QED BY <3>1, <3>2 DEF HandLater, Video
  <2>2. /\ 0 < list[rd.pos].id /\ list[rd.pos].id <= hist.last
        /\ \A s \in Slots : hist.got[s] < list[rd.pos].id
    BY <1>3, <1>7, <2>1 DEF PendingLater
  <2>3. \A s \in Slots : hist.got[s] <= list[rd.pos].id
    <3>1. list[rd.pos].id \in Nat
      BY <1>7, <1>9
    <3>2. ASSUME NEW s \in Slots PROVE hist.got[s] <= list[rd.pos].id
      <4>1. hist.got[s] < list[rd.pos].id /\ hist.got[s] \in Nat
        BY <1>9, <2>2
      <4> QED BY <3>1, <4>1
    <3> QED BY <3>2
  <2>4. ASSUME NEW i \in Pending', Video(list[i])
        PROVE  list[rd.pos].id < list[i].id
    <3>1. i \in Pending /\ i # rd.pos
      BY <1>8
    <3>2. Dist(rd.pos) < Dist(i)
      BY <1>4, <1>6, <1>9, <3>1
    <3> QED BY <1>3, <1>7, <2>1, <2>4, <3>1, <3>2 DEF PendingSorted
  <2> QED BY <2>2, <2>3, <2>4
<1>13. GotMade'
  BY <1>1, <1>3 DEF GotMade
<1> QED BY <1>10, <1>11, <1>12, <1>13 DEF OrderInv

LEMMA AdvanceKeepsOrder ==
  ASSUME WriterType, OrderInv, Advance PROVE OrderInv'
<1>1. /\ rd.busy
      /\ rd' = [rd EXCEPT !.busy = FALSE, !.unit = NoUnit, !.pos = NextUnit(@)]
      /\ hist' = [hist EXCEPT !.unread = IF hist.overrun THEN 0 ELSE @ - 1]
      /\ UNCHANGED <<cam, list, write>>
  BY DEF Advance
<1>2. /\ rd \in [pos : 0 .. RingLen - 1, unit : Unit, todo : SUBSET Slots,
                 busy : BOOLEAN]
      /\ hist \in [last : Nat, keylost : BOOLEAN, seq : Nat, bytes : Nat,
                   unread : Int, overrun : BOOLEAN, got : [Slots -> Nat]]
  BY DEF WriterType
<1>3. /\ rd'.pos = NextUnit(rd.pos) /\ ~rd'.busy
      /\ hist'.last = hist.last /\ hist'.got = hist.got
  BY <1>1, <1>2
<1>4. PendingLater /\ PendingSorted /\ GotMade
  BY DEF OrderInv
<1>5. Start' = Start
  BY <1>1, <1>3 DEF Start
<1>6. \A i : Dist(i)' = Dist(i)
  BY <1>5 DEF Dist
<1>7. Pending' = Pending
  <2>1. Dist(write)' = Dist(write)
    BY <1>1, <1>5 DEF Dist
  <2> QED BY <1>6, <2>1 DEF Pending
<1>8. PendingLater'
  BY <1>1, <1>3, <1>4, <1>7 DEF PendingLater, Video
<1>9. PendingSorted'
  BY <1>1, <1>4, <1>6, <1>7 DEF PendingSorted, Video
<1>10. HandLater' /\ GotMade'
  BY <1>1, <1>3, <1>4 DEF HandLater, GotMade
<1> QED BY <1>8, <1>9, <1>10 DEF OrderInv

(* What one turn may give a session: the unit in hand, or nothing.         *)
LEMMA SendGives ==
  ASSUME WriterType, NEW s \in Slots, Send(s)
  PROVE  /\ rd.busy /\ s \in rd.todo
         /\ rd' = [rd EXCEPT !.todo = @ \ {s}]
         /\ UNCHANGED <<cam, list, write>>
         /\ hist'.last = hist.last
         /\ \A r \in Slots \ {s} : hist'.got[r] = hist.got[r]
         /\ \/ hist'.got[s] = hist.got[s]
            \/ Video(rd.unit) /\ hist'.got[s] = rd.unit.id
<1>1. hist \in [last : Nat, keylost : BOOLEAN, seq : Nat, bytes : Nat,
                unread : Int, overrun : BOOLEAN, got : [Slots -> Nat]]
  BY DEF WriterType
<1>2. \/ hist' = hist
      \/ Video(rd.unit) /\ hist' = [hist EXCEPT !.got[s] = rd.unit.id]
  BY DEF Send, SendVideo, SendNothing, Video
<1>3. /\ hist'.last = hist.last
      /\ \A r \in Slots \ {s} : hist'.got[r] = hist.got[r]
      /\ \/ hist'.got[s] = hist.got[s]
         \/ Video(rd.unit) /\ hist'.got[s] = rd.unit.id
  BY <1>1, <1>2
<1> QED BY <1>3 DEF Send

LEMMA SendKeepsOrder ==
  ASSUME WriterType, OrderInv, NEW s \in Slots, Send(s) PROVE OrderInv'
<1>1. /\ rd.busy /\ s \in rd.todo
      /\ rd' = [rd EXCEPT !.todo = @ \ {s}]
      /\ UNCHANGED <<cam, list, write>>
      /\ hist'.last = hist.last
      /\ \A r \in Slots \ {s} : hist'.got[r] = hist.got[r]
      /\ \/ hist'.got[s] = hist.got[s]
         \/ Video(rd.unit) /\ hist'.got[s] = rd.unit.id
  BY SendGives
<1>2. /\ rd'.pos = rd.pos /\ rd'.unit = rd.unit /\ rd'.busy
      /\ rd'.todo = rd.todo \ {s}
  <2>1. rd \in [pos : 0 .. RingLen - 1, unit : Unit, todo : SUBSET Slots,
                busy : BOOLEAN]
    BY DEF WriterType
  <2> QED BY <1>1, <2>1
<1>3. PendingLater /\ PendingSorted /\ HandLater /\ GotMade
  BY DEF OrderInv
<1>4. \A i : Dist(i)' = Dist(i)
  BY <1>1, <1>2 DEF Dist, Start
<1>5. Pending' = Pending
  <2>1. Dist(write)' = Dist(write)
    BY <1>1, <1>2 DEF Dist, Start
  <2> QED BY <1>4, <2>1 DEF Pending
<1>6. /\ Pending \subseteq 0 .. RingLen - 1
      /\ \A i \in Pending : list[i].id \in Nat
      /\ rd.unit.id \in Nat /\ hist.last \in Nat
      /\ \A r \in Slots : hist.got[r] \in Nat
      /\ rd.todo \subseteq Slots
  BY OrderNumbers DEF Pending
<1>7. PendingLater'
  <2>1. SUFFICES ASSUME NEW i \in Pending, Video(list[i])
                 PROVE  /\ 0 < list[i].id /\ list[i].id <= hist.last
                        /\ \A r \in Slots : hist'.got[r] < list[i].id
    BY <1>1, <1>5 DEF PendingLater, Video
  <2>2. /\ 0 < list[i].id /\ list[i].id <= hist.last
        /\ \A r \in Slots : hist.got[r] < list[i].id
    BY <1>3, <2>1 DEF PendingLater
  <2>3. Video(rd.unit) => rd.unit.id < list[i].id
    BY <1>1, <1>3, <2>1 DEF HandLater
  <2> QED BY <1>1, <2>2, <2>3
<1>8. PendingSorted'
  BY <1>1, <1>3, <1>4, <1>5 DEF PendingSorted, Video
<1>9. HandLater'
  <2>1. SUFFICES ASSUME Video(rd.unit)
                 PROVE  /\ 0 < rd.unit.id /\ rd.unit.id <= hist.last
                        /\ \A r \in Slots : hist'.got[r] <= rd.unit.id
                        /\ \A r \in rd.todo \ {s} : hist'.got[r] < rd.unit.id
                        /\ \A i \in Pending : Video(list[i])
                                                => rd.unit.id < list[i].id
    BY <1>1, <1>2, <1>5 DEF HandLater, Video
  <2> QED BY <1>1, <1>3, <1>6, <2>1 DEF HandLater
<1>10. GotMade'
  <2>1. Video(rd.unit) => rd.unit.id <= hist.last
    BY <1>1, <1>3 DEF HandLater
  <2> QED BY <1>1, <1>3, <2>1 DEF GotMade
<1> QED BY <1>7, <1>8, <1>9, <1>10 DEF OrderInv

(* What a session's own thread may do to what it got: forget it.           *)
LEMMA ViewerForgets ==
  ASSUME WriterType, NEW s \in Slots, Viewer(s)
  PROVE  /\ UNCHANGED <<cam, list, write, rd>>
         /\ hist'.last = hist.last
         /\ \A r \in Slots : hist'.got[r] = hist.got[r] \/ hist'.got[r] = 0
<1>1. hist \in [last : Nat, keylost : BOOLEAN, seq : Nat, bytes : Nat,
                unread : Int, overrun : BOOLEAN, got : [Slots -> Nat]]
  BY DEF WriterType
<1>2. /\ UNCHANGED <<cam, list, write, rd>>
      /\ hist' = hist \/ hist' = [hist EXCEPT !.got[s] = 0]
  BY DEF Viewer, EnterSlot, Watch, Unwatch, OpenVideo, CloseVideo, SetSlot
<1> QED BY <1>1, <1>2

LEMMA OrderStep ==
  ASSUME WriterType, OrderInv, [StreamNext]_streamVars PROVE OrderInv'
<1>1. ASSUME NEW s \in Slots, Viewer(s) PROVE OrderInv'
  <2>1. cam'.id \in Nat /\ cam.id <= cam'.id
    BY <1>1, OrderNumbers, ViewerForgets
  <2> QED BY <1>1, <2>1, OrderUntouched, ViewerForgets
<1>2. CASE UNCHANGED streamVars
  <2>1. cam'.id \in Nat /\ cam.id <= cam'.id /\ UNCHANGED <<list, write, rd, hist>>
    BY <1>2, OrderNumbers DEF streamVars
  <2> QED BY <2>1, OrderUntouched
<1>3. CASE Reader
  BY <1>3, TakeKeepsOrder, AdvanceKeepsOrder, SendKeepsOrder DEF Reader
<1> QED BY <1>1, <1>2, <1>3, CameraKeepsOrder DEF StreamNext

LEMMA OrderInit == StreamInit => OrderInv
<1> SUFFICES ASSUME StreamInit PROVE OrderInv
  OBVIOUS
<1>1. /\ write = 0 /\ rd.pos = 0 /\ ~rd.busy
      /\ hist.last = 0 /\ cam.id = 0 /\ \A s \in Slots : hist.got[s] = 0
  BY DEF StreamInit
<1>2. Pending = {}
  BY <1>1, Numbers DEF Pending, Dist, Start
<1> QED BY <1>1, <1>2
        DEF OrderInv, PendingLater, PendingSorted, HandLater, GotMade

LEMMA OrderHolds == StreamSpec => []OrderInv
<1>1. WriterInv => WriterType
  BY DEF WriterInv
<1>2. WriterType /\ OrderInv /\ [StreamNext]_streamVars => OrderInv'
  BY OrderStep
<1> QED BY <1>1, <1>2, OrderInit, WriterHolds, PTL DEF StreamSpec

(* From one opening of video to the next a session gets the frames in the  *)
(* order they were made and none twice, however often the writer laps the  *)
(* reader: a lap makes it skip frames, never go back.                      *)
THEOREM FramesStayInOrder == StreamSpec => FramesInOrder
<1>1. ASSUME WriterInv, OrderInv, [StreamNext]_streamVars
      PROVE  [\A s \in Slots :
                (hist'.got[s] # hist.got[s] /\ hist'.got[s] # 0)
                   => hist.got[s] < hist'.got[s]]_streamVars
  <2>1. WriterType
    BY <1>1 DEF WriterInv
  <2>2. SUFFICES ASSUME NEW s \in Slots, hist'.got[s] # hist.got[s], hist'.got[s] # 0
                 PROVE  hist.got[s] < hist'.got[s]
    OBVIOUS
  <2>3. hist \in [last : Nat, keylost : BOOLEAN, seq : Nat, bytes : Nat,
                  unread : Int, overrun : BOOLEAN, got : [Slots -> Nat]]
    BY <2>1 DEF WriterType
  <2>4. ~\E r \in Slots : Viewer(r)
    BY <2>1, <2>2, ViewerForgets
  <2>5. ~Camera
    <3>1. ASSUME NEW kind \in {"I", "P", "A"}, NEW id \in Nat, Store(kind, id)
          PROVE  FALSE
      BY <2>1, <2>2, <3>1, StoreCounts
    <3>2. ASSUME NEW kind \in {"I", "P"}, LoseFrame(kind) PROVE FALSE
      <4>1. hist' = [hist EXCEPT !.keylost = @ \/ kind = "I"]
        BY <3>2 DEF LoseFrame
      <4> QED BY <2>2, <2>3, <4>1
    <3>3. ASSUME NEW kind \in {"I", "P"}, VideoFrame(kind) PROVE FALSE
      <4>1. cam'.id \in Nat
        BY <2>1, <3>3, CameraFrameType DEF VideoFrame
      <4> QED BY <2>2, <3>1, <3>3, <4>1 DEF VideoFrame
    <3>4. ~AudioFrame /\ ~Reconnect /\ \A on \in BOOLEAN : ~SetStats(on)
      BY <2>2, <3>1 DEF AudioFrame, Reconnect, SetStats
    <3> QED BY <3>2, <3>3, <3>4 DEF Camera
  <2>6. ~Take
    BY <2>2 DEF Take
  <2>7. ~Advance
    <3>1. ASSUME Advance PROVE FALSE
      <4>1. hist' = [hist EXCEPT !.unread = IF hist.overrun THEN 0 ELSE @ - 1]
        BY <3>1 DEF Advance
      <4> QED BY <2>2, <2>3, <4>1
    <3> QED BY <3>1
  <2>8. PICK r \in Slots : Send(r)
    BY <1>1, <2>2, <2>4, <2>5, <2>6, <2>7 DEF StreamNext, Reader, streamVars
  <2>9. r = s /\ rd.busy /\ s \in rd.todo /\ Video(rd.unit)
        /\ hist'.got[s] = rd.unit.id
    BY <2>1, <2>2, <2>8, SendGives
  <2> QED BY <1>1, <2>9 DEF OrderInv, HandLater
<1> QED BY <1>1, OrderHolds, WriterHolds, PTL DEF StreamSpec, FramesInOrder
=============================================================================
