-------------------------- MODULE SearchListProofs --------------------------
(***************************************************************************)
(* Proofs about SearchList, for every length of the table, every set of    *)
(* cameras and every setting of the clock.                                 *)
(***************************************************************************)
EXTENDS SearchList, FiniteSetTheorems, TLAPS

(* The numbers among the constants.                                        *)
LEMMA Numbers ==
  /\ MAX_SEARCH_CAMERA_NUM \in Nat /\ UpdateAfter \in Nat
  /\ Wrap \in Nat /\ Wrap > 0 /\ MaxSettings \in Nat
BY SearchAssumption

(* An entry not in use holds neither an address nor a serial number, so no *)
(* announcement is taken for it.                                           *)
UnusedBlank == \A i \in Slots : ~cams[i].flag => cams[i] = Blank

SearchInv == SearchType /\ CountRight /\ OneEntryEach /\ UnusedBlank

(* The entries in use are finitely many, no more than the table has.       *)
LEMMA InUseFinite ==
  /\ IsFiniteSet(Slots) /\ IsFiniteSet(InUse)
  /\ Cardinality(InUse) \in Nat
  /\ Cardinality(InUse) <= MAX_SEARCH_CAMERA_NUM
<1>1. IsFiniteSet(Slots) /\ Cardinality(Slots) = MAX_SEARCH_CAMERA_NUM
  <2>1. MAX_SEARCH_CAMERA_NUM \in Nat /\ 1 \in Int
    BY SearchAssumption
  <2>2. /\ IsFiniteSet(1 .. MAX_SEARCH_CAMERA_NUM)
        /\ Cardinality(1 .. MAX_SEARCH_CAMERA_NUM) =
             IF 1 > MAX_SEARCH_CAMERA_NUM THEN 0 ELSE MAX_SEARCH_CAMERA_NUM - 1 + 1
    BY <2>1, FS_Interval
  <2> QED BY <2>1, <2>2 DEF Slots
<1>2. InUse \in SUBSET Slots
  BY DEF InUse
<1>3. IsFiniteSet(InUse) /\ Cardinality(InUse) <= Cardinality(Slots)
  BY <1>1, <1>2, FS_Subset
<1> QED BY <1>1, <1>3, FS_CardinalityType

(* A camera the table knows is known as itself: its entry is in use and    *)
(* holds both its address and its serial number.                           *)
LEMMA KnownAsItself ==
  ASSUME SearchInv, NEW c \in Announced, NEW i \in Knows(c)
  PROVE  /\ i \in InUse
         /\ cams[i].addr = c[1] /\ cams[i].sn = c[2]
<1>1. i \in Slots /\ (cams[i].addr = c[1] \/ cams[i].sn = c[2])
  BY DEF Knows
<1>2. c[1] \in Addr /\ c[2] \in Sn
  BY DEF Addr, Sn
<1>3. c[1] # NoAddr /\ c[2] # NoSn
  BY <1>2, SearchAssumption
<1>4. i \in InUse
  BY <1>1, <1>3 DEF SearchInv, UnusedBlank, Blank, InUse
<1>5. <<cams[i].addr, cams[i].sn>> \in Announced
  BY <1>4 DEF SearchInv, OneEntryEach
<1>6. <<cams[i].addr, cams[i].sn>>[1] = cams[i].addr
      /\ <<cams[i].addr, cams[i].sn>>[2] = cams[i].sn
  OBVIOUS
<1>7. cams[i].addr = c[1] <=> cams[i].sn = c[2]
  BY <1>5, <1>6, SearchAssumption
<1> QED BY <1>1, <1>4, <1>7

(* Hearing a known camera again changes nothing.                           *)
LEMMA KnownUnchanged ==
  ASSUME SearchInv, NEW c \in Announced, NEW i \in Knows(c),
         cams' = [cams EXCEPT ![i] = [@ EXCEPT !.flag = TRUE,
                                       !.addr = c[1], !.sn = c[2]]]
  PROVE  cams' = cams
<1>1. i \in Slots /\ cams[i].flag /\ cams[i].addr = c[1] /\ cams[i].sn = c[2]
  BY KnownAsItself DEF InUse
<1>2. cams \in [Slots -> SearchEntry]
  BY DEF SearchInv, SearchType
<1>3. cams[i] \in SearchEntry /\ cams[i].flag = TRUE
  BY <1>1, <1>2 DEF SearchEntry
<1>4. [cams[i] EXCEPT !.flag = TRUE, !.addr = c[1], !.sn = c[2]] = cams[i]
  BY <1>1, <1>3 DEF SearchEntry
<1> QED BY <1>2, <1>4
-----------------------------------------------------------------------------
(* What each step does to the entries in use.                              *)

(* A new entry takes one more slot, and its camera was not listed.         *)
LEMMA NewEntryEffect ==
  ASSUME SearchInv, NEW c \in Announced, totol < MAX_SEARCH_CAMERA_NUM,
         Knows(c) = {}, NewEntry(c)
  PROVE  /\ cams' \in [Slots -> SearchEntry]
         /\ totol' = totol + 1
         /\ CountRight' /\ OneEntryEach' /\ UnusedBlank'
         /\ c \notin Listed /\ Listed' = Listed \cup {c}
<1>1. PICK i \in Slots :
        /\ i \notin InUse
        /\ cams' = [cams EXCEPT ![i] = [flag |-> TRUE, addr |-> c[1],
                                        sn |-> c[2], time |-> clock]]
  BY DEF NewEntry, IsFirst
<1>2. cams \in [Slots -> SearchEntry] /\ clock \in Seconds
  BY DEF SearchInv, SearchType
<1>3. c[1] \in Addr /\ c[2] \in Sn /\ <<c[1], c[2]>> = c
  BY SearchAssumption DEF Addr, Sn
<1>4. cams'[i] = [flag |-> TRUE, addr |-> c[1], sn |-> c[2], time |-> clock]
  BY <1>1, <1>2
<1>5. \A j \in Slots \ {i} : cams'[j] = cams[j]
  BY <1>1, <1>2
<1>6. InUse' = InUse \cup {i}
  BY <1>1, <1>4, <1>5 DEF InUse
<1>7. Cardinality(InUse') = Cardinality(InUse) + 1
  BY <1>1, <1>6, InUseFinite, FS_AddElement
<1>8. totol' = totol + 1
  BY DEF NewEntry
<1>9. CountRight'
  <2>1. totol = Cardinality(InUse)
    BY DEF SearchInv, CountRight
  <2>2. totol' = Cardinality(InUse')
    BY <1>7, <1>8, <2>1
  <2> QED BY <2>2 DEF CountRight
<1>10. cams' \in [Slots -> SearchEntry]
  <2>1. [flag |-> TRUE, addr |-> c[1], sn |-> c[2], time |-> clock] \in SearchEntry
    BY <1>2, <1>3 DEF SearchEntry
  <2> QED BY <1>1, <1>2, <2>1
<1>11. UnusedBlank'
  BY <1>4, <1>5 DEF SearchInv, UnusedBlank
<1>12. \A j \in InUse : j # i /\ cams'[j] = cams[j]
                        /\ cams[j].addr # c[1] /\ cams[j].sn # c[2]
  BY <1>1, <1>5 DEF Knows, InUse
<1>13. OneEntryEach'
  <2>1. \A j \in InUse' : <<cams'[j].addr, cams'[j].sn>> \in Announced
    BY <1>3, <1>4, <1>6, <1>12 DEF SearchInv, OneEntryEach
  <2>2. ASSUME NEW j \in InUse', NEW k \in InUse',
               cams'[j].addr = cams'[k].addr \/ cams'[j].sn = cams'[k].sn
        PROVE  j = k
    <3>1. CASE j = i /\ k = i
      BY <3>1
    <3>2. CASE j = i /\ k \in InUse
      BY <1>4, <1>12, <2>2, <3>2
    <3>3. CASE j \in InUse /\ k = i
      BY <1>4, <1>12, <2>2, <3>3
    <3>4. CASE j \in InUse /\ k \in InUse
      BY <1>12, <2>2, <3>4 DEF SearchInv, OneEntryEach
    <3> QED BY <1>6, <3>1, <3>2, <3>3, <3>4
  <2> QED BY <2>1, <2>2 DEF OneEntryEach
<1>14. c \notin Listed
  <2>1. ASSUME NEW j \in InUse, c = <<cams[j].addr, cams[j].sn>> PROVE FALSE
    BY <1>12, <2>1
  <2> QED BY <2>1 DEF Listed
<1>15. Listed' = Listed \cup {c}
  <2>1. Listed' = {<<cams'[j].addr, cams'[j].sn>> : j \in InUse'}
    BY DEF Listed
  <2>2. Listed' = {<<cams'[j].addr, cams'[j].sn>> : j \in InUse}
                    \cup {<<cams'[i].addr, cams'[i].sn>>}
    BY <1>6, <2>1
  <2>3. <<cams'[i].addr, cams'[i].sn>> = c
    BY <1>3, <1>4
  <2>4. {<<cams'[j].addr, cams'[j].sn>> : j \in InUse} = Listed
    BY <1>12 DEF Listed
  <2> QED BY <2>2, <2>3, <2>4
<1> QED BY <1>8, <1>9, <1>10, <1>11, <1>13, <1>14, <1>15

(* Blanking a set of entries takes them, and only them, off the list.      *)
LEMMA BlankEffect ==
  ASSUME SearchInv, NEW B \in SUBSET Slots,
         cams' = [i \in Slots |-> IF i \in B THEN Blank ELSE cams[i]]
  PROVE  /\ cams' \in [Slots -> SearchEntry]
         /\ InUse' = InUse \ B
         /\ OneEntryEach' /\ UnusedBlank'
         /\ Listed' = {<<cams[i].addr, cams[i].sn>> : i \in InUse \ B}
<1>1. cams \in [Slots -> SearchEntry]
  BY DEF SearchInv, SearchType
<1>2. \A i \in B : cams'[i] = Blank
  OBVIOUS
<1>3. \A i \in Slots \ B : cams'[i] = cams[i]
  OBVIOUS
<1>4. Blank \in SearchEntry
  BY SearchAssumption DEF Blank, SearchEntry, Seconds
<1>5. cams' \in [Slots -> SearchEntry]
  BY <1>1, <1>4
<1>6. InUse' = InUse \ B
  BY <1>2, <1>3 DEF InUse, Blank
<1>7. UnusedBlank'
  BY <1>2, <1>3 DEF SearchInv, UnusedBlank
<1>8. \A i \in InUse \ B : cams'[i] = cams[i]
  BY <1>3 DEF InUse
<1>9. OneEntryEach'
  BY <1>6, <1>8 DEF SearchInv, OneEntryEach
<1>10. Listed' = {<<cams[i].addr, cams[i].sn>> : i \in InUse \ B}
  BY <1>6, <1>8 DEF Listed
<1> QED BY <1>5, <1>6, <1>7, <1>9, <1>10
-----------------------------------------------------------------------------
(* The invariant, action by action.                                        *)

LEMMA InsertStep ==
  ASSUME SearchInv, NEW c \in Announced, SearchList_Insert(c)
  PROVE  SearchInv'
<1>1. CASE Knows(c) = {} /\ NewEntry(c)
  <2>1. /\ cams' \in [Slots -> SearchEntry]
        /\ totol' = totol + 1
        /\ CountRight' /\ OneEntryEach' /\ UnusedBlank'
    BY <1>1, NewEntryEffect DEF SearchList_Insert
  <2>2. totol' \in 0 .. MAX_SEARCH_CAMERA_NUM
    <3>1. totol < MAX_SEARCH_CAMERA_NUM
      BY DEF SearchList_Insert
    <3>2. totol \in 0 .. MAX_SEARCH_CAMERA_NUM
      BY DEF SearchInv, SearchType
    <3> QED BY <2>1, <3>1, <3>2, Numbers
  <2>3. flush' \in BOOLEAN
    BY <1>1 DEF NewEntry
  <2> QED BY <2>1, <2>2, <2>3 DEF SearchInv, SearchType, SearchList_Insert, mainVars
<1>2. CASE UNCHANGED <<totol, flush>>
           /\ \E i \in Slots :
                /\ IsFirst(i, Knows(c))
                /\ cams' = [cams EXCEPT ![i] = [@ EXCEPT !.flag = TRUE,
                                               !.addr = c[1], !.sn = c[2]]]
  <2>1. cams' = cams
    BY <1>2, KnownUnchanged DEF IsFirst
  <2> QED BY <1>2, <2>1
        DEF SearchList_Insert, mainVars, SearchInv, SearchType, CountRight,
          OneEntryEach, UnusedBlank, InUse
<1> QED BY <1>1, <1>2 DEF SearchList_Insert

LEMMA BlankOne ==
  ASSUME SearchInv, NEW i \in Slots, cams' = [cams EXCEPT ![i] = Blank]
  PROVE  cams' = [j \in Slots |-> IF j \in {i} THEN Blank ELSE cams[j]]
BY DEF SearchInv, SearchType

LEMMA RemoveStep ==
  ASSUME SearchInv, NEW addr \in Addr \cup {NoAddr}, SearchList_Remove(addr)
  PROVE  SearchInv'
<1>1. PICK i \in Slots :
        /\ cams' = [cams EXCEPT ![i] = Blank]
        /\ totol' = IF cams[i].flag THEN totol - 1 ELSE totol
  BY DEF SearchList_Remove, IsFirst
<1>2. cams' = [j \in Slots |-> IF j \in {i} THEN Blank ELSE cams[j]]
  BY <1>1, BlankOne
<1>3. /\ cams' \in [Slots -> SearchEntry]
      /\ InUse' = InUse \ {i}
      /\ OneEntryEach' /\ UnusedBlank'
  BY <1>2, BlankEffect
<1>4. totol = Cardinality(InUse)
  BY DEF SearchInv, CountRight
<1>5. Cardinality(InUse') = IF i \in InUse THEN Cardinality(InUse) - 1
                                           ELSE Cardinality(InUse)
  BY <1>3, InUseFinite, FS_RemoveElement
<1>6. i \in InUse <=> cams[i].flag
  BY DEF InUse
<1>7. CountRight'
  BY <1>1, <1>4, <1>5, <1>6 DEF CountRight
<1>8. IsFiniteSet(InUse') /\ Cardinality(InUse') \in Nat
  BY <1>3, InUseFinite, FS_RemoveElement, FS_CardinalityType
<1>9. totol' \in 0 .. MAX_SEARCH_CAMERA_NUM
  BY <1>4, <1>5, <1>7, <1>8, Numbers DEF CountRight, SearchInv, SearchType
<1> QED BY <1>3, <1>7, <1>9 DEF SearchInv, SearchType, SearchList_Remove, mainVars

(* Old entries are in use, so the count goes down by how many there are.   *)
LEMMA ExpiryEffect ==
  ASSUME SearchInv, NEW B \in SUBSET InUse,
         cams' = [i \in Slots |-> IF i \in B THEN Blank ELSE cams[i]],
         totol' = totol - Cardinality(B)
  PROVE  /\ cams' \in [Slots -> SearchEntry]
         /\ totol' \in 0 .. MAX_SEARCH_CAMERA_NUM
         /\ CountRight' /\ OneEntryEach' /\ UnusedBlank'
<1>1. B \in SUBSET Slots
  BY DEF InUse
<1>2. /\ cams' \in [Slots -> SearchEntry]
      /\ InUse' = InUse \ B
      /\ OneEntryEach' /\ UnusedBlank'
  BY <1>1, BlankEffect
<1>3. /\ IsFiniteSet(InUse \ B)
      /\ Cardinality(InUse \ B) = Cardinality(InUse) - Cardinality(InUse \cap B)
  BY InUseFinite, FS_Difference
<1>4. InUse \cap B = B
  OBVIOUS
<1>5. CountRight'
  BY <1>2, <1>3, <1>4 DEF SearchInv, CountRight
<1>6. Cardinality(InUse \ B) \in Nat
      /\ Cardinality(InUse \ B) <= Cardinality(InUse)
  BY <1>3, InUseFinite, FS_Subset, FS_CardinalityType
<1>7. totol' \in 0 .. MAX_SEARCH_CAMERA_NUM
  BY <1>2, <1>5, <1>6, InUseFinite, Numbers DEF CountRight
<1> QED BY <1>2, <1>5, <1>7

LEMMA MainTurnStep ==
  ASSUME SearchInv, MainTurn
  PROVE  SearchInv'
<1>1. CASE searchtime < UpdateAfter /\ searchtime' = searchtime + 1
           /\ UNCHANGED <<cams, totol, flush>>
  <2>1. searchtime' \in 0 .. UpdateAfter
    BY <1>1, Numbers DEF SearchInv, SearchType
  <2> QED BY <1>1, <2>1 DEF MainTurn, SearchInv, SearchType, CountRight,
          OneEntryEach, UnusedBlank, InUse
<1>2. CASE SearchList_Update /\ UNCHANGED searchtime
  <2>1. CASE /\ totol = 0 /\ UNCHANGED totol /\ flush' = FALSE
             /\ cams' = IF flush THEN [i \in Slots |-> Blank] ELSE cams
    <3>1. Cardinality(InUse) = 0
      BY <2>1 DEF SearchInv, CountRight
    <3>2. InUse = {}
      BY <3>1, InUseFinite, FS_EmptySet
    <3>3. cams = [i \in Slots |-> Blank]
      BY <3>2 DEF InUse, SearchInv, UnusedBlank, SearchType
    <3>4. cams' = cams
      BY <2>1, <3>3
    <3> QED BY <1>2, <2>1, <3>4 DEF MainTurn, SearchInv, SearchType, CountRight,
            OneEntryEach, UnusedBlank, InUse
  <2>2. CASE /\ cams' = [i \in Slots |-> IF IsOld(i) THEN Blank ELSE cams[i]]
             /\ totol' = totol - Cardinality({i \in Slots : IsOld(i)})
             /\ UNCHANGED flush
    <3> DEFINE B == {i \in Slots : IsOld(i)}
    <3>1. B \in SUBSET InUse
      BY DEF IsOld, InUse
    <3>2. cams' = [i \in Slots |-> IF i \in B THEN Blank ELSE cams[i]]
      BY <2>2
    <3>3. /\ cams' \in [Slots -> SearchEntry]
          /\ totol' \in 0 .. MAX_SEARCH_CAMERA_NUM
          /\ CountRight' /\ OneEntryEach' /\ UnusedBlank'
      BY <2>2, <3>1, <3>2, ExpiryEffect
    <3> QED BY <1>2, <2>2, <3>3 DEF MainTurn, SearchInv, SearchType
  <2> QED BY <1>2, <2>1, <2>2 DEF SearchList_Update
<1> QED BY <1>1, <1>2 DEF MainTurn

LEMMA SearchInvStep == SearchInv /\ [SearchNext]_searchVars => SearchInv'
<1> SUFFICES ASSUME SearchInv, [SearchNext]_searchVars PROVE SearchInv'
  OBVIOUS
<1>1. ASSUME NEW c \in Announced, SearchList_Insert(c) PROVE SearchInv'
  BY <1>1, InsertStep
<1>2. ASSUME NEW a \in Addr \cup {NoAddr}, SearchList_Remove(a) PROVE SearchInv'
  BY <1>2, RemoveStep
<1>3. CASE MainTurn
  BY <1>3, MainTurnStep
<1>4. CASE SecondPasses
  <2>1. clock + 1 \in Int /\ Wrap \in Nat /\ Wrap > 0
    BY Numbers DEF SearchInv, SearchType, Seconds
  <2>2. (clock + 1) % Wrap \in Seconds
    BY <2>1 DEF Seconds
  <2> QED BY <1>4, <2>2
        DEF SecondPasses, SearchInv, SearchType, CountRight, OneEntryEach,
          UnusedBlank, InUse
<1>5. CASE SetClock
  BY <1>5, Numbers DEF SetClock, SearchInv, SearchType, CountRight,
     OneEntryEach, UnusedBlank, InUse
<1>6. CASE UNCHANGED searchVars
  BY <1>6 DEF searchVars, SearchInv, SearchType, CountRight, OneEntryEach, UnusedBlank,
     InUse
<1> QED BY <1>1, <1>2, <1>3, <1>4, <1>5, <1>6 DEF SearchNext

LEMMA SearchInvInit == SearchList_Init => SearchInv
<1> SUFFICES ASSUME SearchList_Init PROVE SearchInv
  OBVIOUS
<1>1. InUse = {}
  BY DEF SearchList_Init, InUse, Blank
<1>2. CountRight
  BY <1>1, FS_EmptySet DEF CountRight, SearchList_Init
<1>3. Blank \in SearchEntry
  BY SearchAssumption DEF Blank, SearchEntry, Seconds
<1>4. SearchType
  <2>1. cams \in [Slots -> SearchEntry] /\ flush \in BOOLEAN /\ due \in BOOLEAN
    BY <1>3 DEF SearchList_Init
  <2>2. totol = 0 /\ searchtime = 0 /\ clock = 0 /\ settings = 0
    BY DEF SearchList_Init
  <2> QED BY <2>1, <2>2, Numbers DEF SearchType, Seconds
<1>5. OneEntryEach /\ UnusedBlank
  BY <1>1 DEF OneEntryEach, UnusedBlank, SearchList_Init
<1> QED BY <1>2, <1>4, <1>5 DEF SearchInv

LEMMA SearchInvHolds == SearchSpec => []SearchInv
BY SearchInvInit, SearchInvStep, PTL DEF SearchSpec

(* The table keeps its shape, whatever is announced, removed and dropped.  *)
THEOREM TypeCorrect == SearchSpec => []SearchType
BY SearchInvHolds, PTL DEF SearchInv

(* The counter is right for ever: a full table is full, an empty one empty *)
(* and the key is offered a camera exactly when one is listed.             *)
THEOREM CounterCorrect == SearchSpec => []CountRight
BY SearchInvHolds, PTL DEF SearchInv

(* No camera is ever listed twice or under another one's serial number.    *)
THEOREM ListedOnce == SearchSpec => []OneEntryEach
BY SearchInvHolds, PTL DEF SearchInv
-----------------------------------------------------------------------------
(* What the key and the app are told.                                      *)

(* One entry in use, or one camera listed: the same.                       *)
LEMMA OneInUse ==
  ASSUME SearchInv
  PROVE  /\ totol = 1 => \E c \in Listed : Listed = {c}
         /\ totol # 1 => ~ \E c \in Listed : Listed = {c}
<1>1. totol = 1 <=> \E i : InUse = {i}
  BY InUseFinite, FS_Singleton DEF SearchInv, CountRight
<1>2. ASSUME NEW i, InUse = {i} PROVE \E c \in Listed : Listed = {c}
  BY <1>2 DEF Listed
<1>3. ASSUME NEW c \in Listed, Listed = {c} PROVE \E i : InUse = {i}
  <2>1. PICK i \in InUse : c = <<cams[i].addr, cams[i].sn>>
    BY DEF Listed
  <2>2. ASSUME NEW j \in InUse PROVE j = i
    <3>1. <<cams[j].addr, cams[j].sn>> = <<cams[i].addr, cams[i].sn>>
      BY <1>3, <2>1 DEF Listed
    <3>2. cams[i].addr = cams[j].addr
      BY <3>1
    <3> QED BY <3>2 DEF SearchInv, OneEntryEach
  <2> QED BY <2>2
<1> QED BY <1>1, <1>2, <1>3

(* A serial number finds the address it was announced with, and only that. *)
LEMMA FoundUnderOwnNumber ==
  ASSUME SearchInv, NEW c \in Announced
  PROVE  SearchList_Find(c[2]) = {c[1] : d \in Listed \cap {c}}
<1>1. c = <<c[1], c[2]>>
  BY SearchAssumption
<1>2. ASSUME NEW i \in InUse, cams[i].sn = c[2]
      PROVE  cams[i].addr = c[1]
  <2>1. <<cams[i].addr, cams[i].sn>> \in Announced
    BY DEF SearchInv, OneEntryEach
  <2>2. <<cams[i].addr, cams[i].sn>>[1] = cams[i].addr
        /\ <<cams[i].addr, cams[i].sn>>[2] = cams[i].sn
    OBVIOUS
  <2> QED BY <1>2, <2>1, <2>2, SearchAssumption
<1>3. CASE c \in Listed
  <2>1. PICK i \in InUse : c = <<cams[i].addr, cams[i].sn>>
    BY <1>3 DEF Listed
  <2>2. cams[i].addr = c[1] /\ cams[i].sn = c[2]
    BY <2>1, <1>1
  <2> QED BY <1>2, <1>3, <2>2 DEF SearchList_Find
<1>4. CASE c \notin Listed
  <2>1. ASSUME NEW i \in InUse PROVE cams[i].sn # c[2]
    BY <1>1, <1>2, <1>4 DEF Listed
  <2> QED BY <1>4, <2>1 DEF SearchList_Find
<1> QED BY <1>3, <1>4

(* The key is offered a camera exactly when one is listed, and every camera*)
(* listed is found under its own serial number and no other.               *)
THEOREM QueriesAnswerRight == SearchSpec => []QueriesRight
<1>1. ASSUME SearchInv PROVE QueriesRight
  <2>1. SearchList_FindOne = IF totol = 1 THEN Listed ELSE {}
    BY DEF SearchList_FindOne, Listed
  <2>2. SearchList_FindOne = IF \E c \in Listed : Listed = {c} THEN Listed ELSE {}
    BY <1>1, <2>1, OneInUse
  <2> QED BY <1>1, <2>2, FoundUnderOwnNumber DEF QueriesRight
<1>2. SearchInv => QueriesRight
  BY <1>1
<1> QED BY <1>2, SearchInvHolds, PTL
-----------------------------------------------------------------------------
(* The table implements the list of module FoundList.                      *)

(* There are as many cameras listed as entries in use, at most.            *)
LEMMA ListedFits ==
  /\ IsFiniteSet(Listed)
  /\ Cardinality(Listed) \in Nat /\ Cardinality(Listed) <= Cardinality(InUse)
<1> DEFINE f == [i \in InUse |-> <<cams[i].addr, cams[i].sn>>]
<1>1. f \in Surjection(InUse, Listed)
  BY DEF Surjection, Listed
<1>2. IsFiniteSet(Listed) /\ Cardinality(Listed) <= Cardinality(InUse)
  BY <1>1, InUseFinite, FS_Surjection
<1> QED BY <1>2, FS_CardinalityType

LEMMA ListedSubset ==
  ASSUME SearchInv, NEW B \in SUBSET Slots,
         cams' = [i \in Slots |-> IF i \in B THEN Blank ELSE cams[i]]
  PROVE  Listed' = Listed \/ F!Expire
<1>1. Listed' = {<<cams[i].addr, cams[i].sn>> : i \in InUse \ B}
  BY BlankEffect
<1>2. Listed' \in SUBSET Listed
  BY <1>1 DEF Listed
<1> QED BY <1>2 DEF F!Expire

LEMMA ListStep == SearchInv /\ [SearchNext]_searchVars => [F!ListNext]_Listed
<1> SUFFICES ASSUME SearchInv, [SearchNext]_searchVars PROVE [F!ListNext]_Listed
  OBVIOUS
<1>1. ASSUME NEW c \in Announced, SearchList_Insert(c) PROVE [F!ListNext]_Listed
  <2>1. CASE Knows(c) = {} /\ NewEntry(c)
    <3>1. totol < MAX_SEARCH_CAMERA_NUM
      BY <1>1 DEF SearchList_Insert
    <3>2. c \notin Listed /\ Listed' = Listed \cup {c}
      BY <2>1, <3>1, NewEntryEffect
    <3>3. Cardinality(InUse) < MAX_SEARCH_CAMERA_NUM
      BY <3>1 DEF SearchInv, CountRight
    <3>4. Cardinality(Listed) < MAX_SEARCH_CAMERA_NUM
      BY <3>3, ListedFits, InUseFinite, Numbers
    <3>5. F!Hear(c)
      BY <3>2, <3>4 DEF F!Hear, F!Cardinality, Cardinality
    <3>6. F!ListNext
      BY <3>5 DEF F!ListNext
    <3> QED BY <3>6
  <2>2. CASE \E i \in Slots :
               /\ IsFirst(i, Knows(c))
               /\ cams' = [cams EXCEPT ![i] = [@ EXCEPT !.flag = TRUE,
                                              !.addr = c[1], !.sn = c[2]]]
    <3>1. cams' = cams
      BY <2>2, KnownUnchanged DEF IsFirst
    <3> QED BY <3>1 DEF Listed, InUse
  <2> QED BY <1>1, <2>1, <2>2 DEF SearchList_Insert
<1>2. ASSUME NEW a \in Addr \cup {NoAddr}, SearchList_Remove(a) PROVE [F!ListNext]_Listed
  <2>1. PICK i \in Slots : cams' = [cams EXCEPT ![i] = Blank]
    BY <1>2 DEF SearchList_Remove, IsFirst
  <2>2. cams' = [j \in Slots |-> IF j \in {i} THEN Blank ELSE cams[j]]
    BY <2>1, BlankOne
  <2>3. {i} \in SUBSET Slots
    OBVIOUS
  <2> QED BY <2>2, <2>3, ListedSubset DEF F!ListNext
<1>3. CASE MainTurn
  <2>1. CASE UNCHANGED cams
    BY <2>1 DEF Listed, InUse
  <2>2. CASE /\ totol = 0
             /\ cams' = IF flush THEN [i \in Slots |-> Blank] ELSE cams
    <3>1. cams' = cams \/ cams' = [i \in Slots |-> IF i \in Slots THEN Blank
                                                   ELSE cams[i]]
      BY <2>2
    <3> QED BY <2>1, <3>1, ListedSubset DEF F!ListNext
  <2>3. CASE cams' = [i \in Slots |-> IF IsOld(i) THEN Blank ELSE cams[i]]
    <3> DEFINE B == {i \in Slots : IsOld(i)}
    <3>1. cams' = [i \in Slots |-> IF i \in B THEN Blank ELSE cams[i]]
      BY <2>3
    <3>2. B \in SUBSET Slots
      OBVIOUS
    <3> QED BY <3>1, <3>2, ListedSubset DEF F!ListNext
  <2> QED BY <1>3, <2>1, <2>2, <2>3 DEF MainTurn, SearchList_Update
<1>4. CASE SecondPasses \/ SetClock \/ UNCHANGED searchVars
  BY <1>4 DEF SecondPasses, SetClock, searchVars, Listed, InUse
<1> QED BY <1>1, <1>2, <1>3, <1>4 DEF SearchNext

LEMMA ListStart == SearchList_Init => F!ListInit
BY DEF SearchList_Init, F!ListInit, Listed, InUse, Blank

(* Every step of the table is a step of the list, or leaves it alone: it   *)
(* never lists more cameras than it has room for, one that did not         *)
(* announce itself, or one twice.                                          *)
THEOREM TableIsList == SearchSpec => F!ListInit /\ [][F!ListNext]_Listed
BY SearchInvHolds, ListStart, ListStep, PTL DEF SearchSpec
=============================================================================
