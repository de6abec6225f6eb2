--------------------------- MODULE PairingProofs ---------------------------
(***************************************************************************)
(* Proofs about Pairing, for any number of sessions, pairing threads,      *)
(* channels and cameras.                                                   *)
(***************************************************************************)
EXTENDS Pairing, FiniteSetTheorems, TLAPS

(* The parts of TypeOK, and that the list of cameras is finite, without    *)
(* which its length means nothing.                                         *)
ListInv == ListTypeOK /\ IsFiniteSet(found)

PairType ==
  pair \in [Channels -> [nstat : BOOLEAN, lock : BOOLEAN,
                         cam : Cameras \cup {NoCam}, mac : Cameras \cup {NoCam}]]

FlagType == /\ pairmode \in BOOLEAN
            /\ keyparing \in BOOLEAN
            /\ pair_result \in BOOLEAN

CallerType ==
  caller \in [Callers ->
       {IdleCaller, SearchCaller}
         \cup [at : {"begin", "choose", "wait"}, cam : Cameras,
               want : Channels \cup {AnyChannel}]]

WorkerType ==
  worker \in [Workers ->
       {FreeWorker} \cup [at : {"asking", "answered", "waiting", "late"},
                          ch : Channels, cam : Cameras]]

CameraType ==
  camera \in [Cameras ->
       {IdleCamera, AddedCamera}
         \cup [at : {"invited", "accepted"}, ch : Channels]]

TypeInv == /\ ListInv /\ PairType /\ FlagType
           /\ CallerType /\ WorkerType /\ CameraType

LEMMA TypeInvTypes == TypeInv => TypeOK
<1>1. FlagType => {pairmode, keyparing, pair_result} \subseteq BOOLEAN
  BY Zenon DEF FlagType
<1> QED BY <1>1 DEF TypeInv, TypeOK, ListInv, PairType, CallerType, WorkerType,
                    CameraType
-----------------------------------------------------------------------------
(* What the steps do to each part.                                         *)

(* Only an announcement makes the list longer.                             *)
LEMMA ListKept ==
  ASSUME ListInv, UNCHANGED found \/ ListChanges \/ \E x : found' = found \ {x}
  PROVE  ListInv'
<1>1. CASE UNCHANGED found
  BY <1>1 DEF ListInv, ListTypeOK
<1>2. ASSUME NEW x, found' = found \ {x} PROVE ListInv'
  <2>1. IsFiniteSet(found') /\ Cardinality(found') <= Cardinality(found)
    BY <1>2, FS_Subset DEF ListInv
  <2>2. Cardinality(found) \in Nat /\ Cardinality(found') \in Nat
    BY <2>1, FS_CardinalityType DEF ListInv
  <2> QED BY <1>2, <2>1, <2>2, PairingAssumption DEF ListInv, ListTypeOK
<1>3. ASSUME NEW c \in Cameras, Hear(c) PROVE ListInv'
  <2>1. IsFiniteSet(found \cup {c})
        /\ Cardinality(found \cup {c}) = Cardinality(found) + 1
    BY <1>3, FS_AddElement DEF ListInv, Hear
  <2>2. Cardinality(found) \in Nat
    BY FS_CardinalityType DEF ListInv
  <2>3. found' \subseteq Announced
    BY <1>3 DEF ListInv, ListTypeOK, Hear, Cameras
  <2> QED BY <1>3, <2>1, <2>2, <2>3, PairingAssumption DEF ListInv, ListTypeOK, Hear
<1>4. ASSUME NEW c \in Cameras, Forget(c) PROVE ListInv'
  BY <1>2, <1>4 DEF Forget
<1> QED BY <1>1, <1>2, <1>3, <1>4 DEF ListChanges

(* g_pair_status changes the places of threads only among two of theirs.   *)
LEMMA MarkedTyped ==
  ASSUME WorkerType, NEW ch, NEW old \in {"asking", "answered"},
         NEW new \in {"asking", "answered"}
  PROVE  Marked(ch, old, new) \in [Workers ->
           {FreeWorker} \cup [at : {"asking", "answered", "waiting", "late"},
                              ch : Channels, cam : Cameras]]
BY DEF Marked, WorkerType, FreeWorker

LEMMA UnlockedTyped ==
  ASSUME PairType, pair' = Unlocked(pair) PROVE PairType'
BY DEF PairType, Unlocked

LEMMA UnlockTyped ==
  ASSUME PairType, NEW ch \in Channels, Unlock(ch) PROVE PairType'
BY DEF PairType, Unlock

LEMMA LockCamTyped ==
  ASSUME PairType, NEW ch \in Channels, NEW lock \in BOOLEAN,
         NEW cam \in Cameras \cup {NoCam},
         pair' = [pair EXCEPT ![ch].lock = lock, ![ch].cam = cam]
  PROVE  PairType'
<1>1. [pair[ch] EXCEPT !.lock = lock, !.cam = cam] \in
        [nstat : BOOLEAN, lock : BOOLEAN,
         cam : Cameras \cup {NoCam}, mac : Cameras \cup {NoCam}]
  BY DEF PairType
<1>2. pair' = [pair EXCEPT ![ch] = [pair[ch] EXCEPT !.lock = lock, !.cam = cam]]
  BY DEF PairType
<1> QED BY <1>1, <1>2 DEF PairType

(* A thread that is not free has a channel and a camera.                   *)
LEMMA BusyPlace ==
  ASSUME WorkerType, NEW w \in Workers, worker[w].at # "free"
  PROVE  worker[w] \in [at : {"asking", "answered", "waiting", "late"},
                        ch : Channels, cam : Cameras]
BY DEF WorkerType, FreeWorker

LEMMA BusyWorker ==
  ASSUME WorkerType, NEW w \in Workers, worker[w].at # "free"
  PROVE  worker[w].ch \in Channels /\ worker[w].cam \in Cameras
BY BusyPlace

(* So has a caller of VAVAHAL_PairCamera.                                  *)
LEMMA BusyCaller ==
  ASSUME CallerType, NEW i \in Callers, caller[i].at \in {"begin", "choose", "wait"}
  PROVE  /\ caller[i].cam \in Cameras
         /\ caller[i] \in [at : {"begin", "choose", "wait"}, cam : Cameras,
                           want : Channels \cup {AnyChannel}]
BY DEF CallerType, IdleCaller, SearchCaller

LEMMA ReturnedTyped ==
  ASSUME CallerType, FlagType, NEW i \in Callers, caller[i].at = "choose",
         NEW started \in BOOLEAN, Returned(i, started)
  PROVE  CallerType' /\ keyparing' \in BOOLEAN
<1>1. keyparing' \in BOOLEAN
  BY Zenon DEF Returned
<1>2. [caller[i] EXCEPT !.at = "wait"] \in
        [at : {"begin", "choose", "wait"}, cam : Cameras,
         want : Channels \cup {AnyChannel}]
  BY BusyCaller
<1>3. CallerType'
  BY <1>2 DEF Returned, CallerType
<1> QED BY <1>1, <1>3
-----------------------------------------------------------------------------
(* The steps of each actor keep the types.                                 *)

LEMMA AskersTyped ==
  ASSUME TypeInv,
         \/ \E s \in Sessions, c \in Cameras, want \in Channels \cup {AnyChannel} :
              AppRequest(s, c, want)
         \/ KeyPress \/ KeyThread
  PROVE  TypeInv'
<1> Key \in Callers /\ Sessions \subseteq Callers
  BY DEF Callers
<1>1. ASSUME NEW s \in Sessions, NEW c \in Cameras,
             NEW want \in Channels \cup {AnyChannel}, AppRequest(s, c, want)
      PROVE  TypeInv'
  BY <1>1, ListKept DEF TypeInv, AppRequest, tableVars, PairType, FlagType,
     CallerType, WorkerType, CameraType
<1>2. CASE KeyPress
  BY <1>2, ListKept DEF TypeInv, KeyPress, PairType, FlagType, CallerType,
     WorkerType, CameraType
<1>3. CASE KeySeen
  BY <1>3, ListKept DEF TypeInv, KeySeen, tableVars, PairType, FlagType,
     CallerType, WorkerType, CameraType
<1>4. CASE KeySearch
  <2>1. /\ UNCHANGED <<found, pair, pairmode, pair_result, worker, camera>>
        /\ keyparing' \in {keyparing, FALSE}
    BY <1>4 DEF KeySearch
  <2>2. \/ caller' = [caller EXCEPT ![Key] = IdleCaller]
        \/ \E c \in Cameras :
             caller' = [caller EXCEPT ![Key] =
                          [at |-> "begin", cam |-> c, want |-> AnyChannel]]
    <3>1. \A c : found = {c} => c \in Cameras
      BY DEF TypeInv, ListInv, ListTypeOK, Cameras
    <3>2. CASE keyparing
      BY <1>4, <3>1, <3>2 DEF KeySearch
    <3>3. CASE ~keyparing
      BY <1>4, <3>3 DEF KeySearch
    <3> QED BY <3>2, <3>3
  <2>3. CallerType'
    BY <2>2 DEF TypeInv, CallerType
  <2> QED BY <2>1, <2>3, ListKept DEF TypeInv, PairType, FlagType, WorkerType,
          CameraType
<1>5. CASE KeyTimeout
  BY <1>5, ListKept DEF TypeInv, KeyTimeout, PairType, FlagType, CallerType,
     WorkerType, CameraType
<1>6. CASE KeyDone
  BY <1>6, ListKept DEF TypeInv, KeyDone, tableVars, PairType, FlagType,
     CallerType, WorkerType, CameraType
<1> QED BY <1>1, <1>2, <1>3, <1>4, <1>5, <1>6 DEF KeyThread

LEMMA PairCameraTyped ==
  ASSUME TypeInv, NEW i \in Callers, PairCamera(i) PROVE TypeInv'
<1>1. CASE Begin(i)
  <2>1. CallerType'
    BY <1>1, BusyCaller DEF Begin, TypeInv, CallerType
  <2>2. PairType'
    BY <1>1, UnlockedTyped DEF Begin, TypeInv
  <2> QED BY <1>1, <2>1, <2>2, ListKept DEF TypeInv, Begin, FlagType, WorkerType,
          CameraType
<1>2. CASE Start(i)
  <2>1. caller[i].cam \in Cameras /\ caller[i].at = "choose"
    BY <1>2, BusyCaller DEF Start, TypeInv
  <2>2. CallerType' /\ keyparing' \in BOOLEAN
    BY <1>2, <2>1, ReturnedTyped DEF Start, TypeInv
  <2>3. PICK ch \in Channels, w \in Workers :
           /\ pair' = [pair EXCEPT ![ch].lock = TRUE, ![ch].cam = caller[i].cam]
           /\ worker' = [Marked(ch, "answered", "asking") EXCEPT
                           ![w] = [at |-> "asking", ch |-> ch,
                                   cam |-> caller[i].cam]]
    BY <1>2 DEF Start
  <2>4. PairType'
    BY <2>1, <2>3, LockCamTyped DEF TypeInv
  <2>5. WorkerType'
    BY <2>1, <2>3, MarkedTyped DEF TypeInv, WorkerType
  <2> QED BY <1>2, <2>2, <2>4, <2>5, ListKept DEF TypeInv, Start, FlagType,
          CameraType
<1>3. CASE NotStarted(i)
  <2>1. CallerType' /\ keyparing' \in BOOLEAN
    BY <1>3, ReturnedTyped DEF NotStarted, TypeInv
  <2>2. UNCHANGED pair
        \/ \E ch \in Channels :
             pair' = [pair EXCEPT ![ch].lock = FALSE, ![ch].cam = NoCam]
    BY <1>3 DEF NotStarted
  <2>3. ASSUME NEW ch \in Channels,
               pair' = [pair EXCEPT ![ch].lock = FALSE, ![ch].cam = NoCam]
        PROVE  PairType'
    BY <2>3, LockCamTyped DEF TypeInv
  <2>4. PairType'
    BY <2>2, <2>3 DEF TypeInv, PairType
  <2> QED BY <1>3, <2>1, <2>4, ListKept DEF TypeInv, NotStarted, FlagType,
          WorkerType, CameraType
<1> QED BY <1>1, <1>2, <1>3 DEF PairCamera

LEMMA WorkerTyped ==
  ASSUME TypeInv, NEW w \in Workers, WorkerStep(w) PROVE TypeInv'
<1> worker[w].at # "free" => worker[w].ch \in Channels /\ worker[w].cam \in Cameras
  BY BusyWorker DEF TypeInv
<1>1. CASE Answered(w)
  <2>1. worker' = [worker EXCEPT ![w].at = "waiting"] /\ worker[w].at # "free"
    BY <1>1 DEF Answered
  <2>2. WorkerType'
    BY <2>1, BusyPlace DEF TypeInv, WorkerType
  <2> QED BY <1>1, <2>2, ListKept DEF TypeInv, Answered, PairType, FlagType,
          CallerType, CameraType
<1>2. CASE GiveUp(w)
  <2>1. PairType'
    BY <1>2, UnlockTyped DEF GiveUp, TypeInv
  <2> QED BY <1>2, <2>1, ListKept DEF TypeInv, GiveUp, Free, FlagType,
          CallerType, WorkerType, CameraType
<1>3. CASE Outcome(w)
  BY <1>3, ListKept DEF TypeInv, Outcome, Free, tableVars, PairType, FlagType,
     CallerType, WorkerType, CameraType
<1>4. CASE WaitExpires(w)
  <2>1. worker' = [worker EXCEPT ![w].at = "late"] /\ worker[w].at # "free"
    BY <1>4 DEF WaitExpires
  <2>2. WorkerType'
    BY <2>1, BusyPlace DEF TypeInv, WorkerType
  <2> QED BY <1>4, <2>2, ListKept DEF TypeInv, WaitExpires, PairType, FlagType,
          CallerType, CameraType
<1>5. CASE WaitExpired(w)
  <2>1. PairType'
    BY <1>5, UnlockTyped DEF WaitExpired, TypeInv
  <2> QED BY <1>5, <2>1, ListKept DEF TypeInv, WaitExpired, Free, FlagType,
          CallerType, WorkerType, CameraType
<1> QED BY <1>1, <1>2, <1>3, <1>4, <1>5 DEF WorkerStep

LEMMA CameraTyped ==
  ASSUME TypeInv, NEW c \in Cameras,
         Invited(c) \/ PairAnswer(c) \/ CameraLeaves(c) \/ ClientStep(c)
  PROVE  TypeInv'
<1> camera[c].at \in {"invited", "accepted"} => camera[c].ch \in Channels
  BY DEF TypeInv, CameraType, IdleCamera, AddedCamera
<1>1. CASE Invited(c)
  <2>1. PICK w \in Workers :
          /\ worker[w].at # "free"
          /\ camera' = [camera EXCEPT ![c] = [at |-> "invited", ch |-> worker[w].ch]]
    BY <1>1 DEF Invited
  <2>2. CameraType'
    BY <2>1, BusyWorker DEF TypeInv, CameraType
  <2> QED BY <1>1, <2>2, ListKept DEF TypeInv, Invited, tableVars, PairType,
          FlagType, CallerType, WorkerType
<1>2. CASE PairAnswer(c)
  <2>1. WorkerType'
    BY <1>2, MarkedTyped DEF PairAnswer, TypeInv, WorkerType
  <2> QED BY <1>2, <2>1, ListKept DEF TypeInv, PairAnswer, tableVars, PairType,
          FlagType, CallerType, CameraType
<1>3. CASE CameraLeaves(c)
  BY <1>3, ListKept DEF TypeInv, CameraLeaves, tableVars, PairType, FlagType,
     CallerType, WorkerType, CameraType
<1>4. CASE Accept(c)
  <2>1. \E ch \in Channels :
           camera' = [camera EXCEPT ![c] = [at |-> "accepted", ch |-> ch]]
    BY <1>4 DEF Accept
  <2>2. CameraType'
    BY <2>1 DEF TypeInv, CameraType
  <2> QED BY <1>4, <2>2, ListKept DEF TypeInv, Accept, tableVars, PairType,
          FlagType, CallerType, WorkerType
<1>5. CASE Refuse(c)
  <2>1. PairType'
    BY <1>5, UnlockTyped DEF Refuse, TypeInv
  <2> QED BY <1>5, <2>1, ListKept DEF TypeInv, Refuse, FlagType, CallerType,
          WorkerType, CameraType
<1>6. CASE PairAck(c)
  <2> DEFINE ch == camera[c].ch
             entry == [pair[ch] EXCEPT !.mac = c, !.nstat = TRUE, !.lock = FALSE]
  <2>0. ch \in Channels
    BY <1>6 DEF PairAck
  <2>1. PairType'
    <3>1. entry \in [nstat : BOOLEAN, lock : BOOLEAN,
                     cam : Cameras \cup {NoCam}, mac : Cameras \cup {NoCam}]
      BY <2>0 DEF TypeInv, PairType
    <3>2. pair' = [pair EXCEPT ![ch] = entry]
      BY <1>6, <2>0 DEF PairAck, TypeInv, PairType
    <3> QED BY <2>0, <3>1, <3>2 DEF TypeInv, PairType
  <2>2. ListInv'
    BY <1>6, ListKept DEF PairAck, TypeInv
  <2>3. CameraType'
    BY <1>6 DEF PairAck, TypeInv, CameraType, IdleCamera, AddedCamera
  <2> QED BY <1>6, <2>1, <2>2, <2>3 DEF TypeInv, PairAck, FlagType, CallerType,
          WorkerType
<1>7. CASE Added(c)
  <2>1. PairType'
    BY <1>7, UnlockedTyped DEF Added, TypeInv
  <2> QED BY <1>7, <2>1, ListKept DEF TypeInv, Added, FlagType, CallerType,
          WorkerType, CameraType
<1> QED BY <1>1, <1>2, <1>3, <1>4, <1>5, <1>6, <1>7 DEF ClientStep

LEMMA TypeStep ==
  ASSUME TypeInv, [Next]_vars PROVE TypeInv'
<1>1. CASE UNCHANGED vars
  BY <1>1, ListKept DEF vars, tableVars, TypeInv, PairType, FlagType, CallerType,
     WorkerType, CameraType
<1>2. CASE ListChanges
  BY <1>2, ListKept DEF ListChanges, tableVars, TypeInv, PairType, FlagType,
     CallerType, WorkerType, CameraType
<1>3. ASSUME NEW ch \in Channels, Remove(ch) PROVE TypeInv'
  BY <1>3, ListKept DEF Remove, Blank, TypeInv, PairType, FlagType, CallerType,
     WorkerType, CameraType
<1> QED BY <1>1, <1>2, <1>3, AskersTyped, PairCameraTyped, WorkerTyped,
        CameraTyped DEF Next

LEMMA TypeStart ==
  ASSUME Init PROVE TypeInv
<1>1. ListInv
  BY FS_EmptySet, PairingAssumption DEF Init, ListInit, ListInv, ListTypeOK
<1> QED BY <1>1 DEF Init, TypeInv, PairType, FlagType, CallerType, WorkerType,
        CameraType, Blank

(* Every flag, table and place keeps its type: in particular, a pairing    *)
(* thread and an accepted camera always name a channel that exists.        *)
THEOREM TypeCorrect == Spec => []TypeOK
<1>1. Spec => []TypeInv
  BY TypeStart, TypeStep, PTL DEF Spec
<1>2. TypeInv => TypeOK
  BY TypeInvTypes
<1> QED BY <1>1, <1>2, PTL
-----------------------------------------------------------------------------
(* One channel for each camera.                                            *)

(* A camera whose request was accepted is entered nowhere else, so that    *)
(* its acknowledgement, however late, does not enter it a second time.     *)
AcceptedAlone ==
  \A c \in Cameras : \A j \in Channels :
    camera[c].at = "accepted" /\ pair[j].mac = c => j = camera[c].ch

EntryInv == TypeInv /\ OneChannelEach /\ AcceptedAlone

(* Whatever enters no MAC and accepts no camera.                           *)
EntersNothing ==
  /\ \A j \in Channels : pair'[j].mac \in {pair[j].mac, NoCam}
  /\ \A c \in Cameras : \/ camera'[c] = camera[c]
                        \/ camera'[c].at # "accepted"

LEMMA EntriesKept ==
  ASSUME EntryInv, EntersNothing
  PROVE  OneChannelEach' /\ AcceptedAlone'
<1>1. OneChannelEach'
  BY DEF EntryInv, OneChannelEach, EntersNothing
<1>2. ASSUME NEW c \in Cameras, NEW j \in Channels,
             camera'[c].at = "accepted", pair'[j].mac = c
      PROVE  j = camera'[c].ch
  BY <1>2, PairingAssumption DEF EntryInv, AcceptedAlone, EntersNothing
<1> QED BY <1>1, <1>2 DEF AcceptedAlone

(* The clients' threads apart, nobody enters anything.                     *)
LEMMA OthersEnterNothing ==
  ASSUME TypeInv, [Next]_vars, \A c \in Cameras : ~Accept(c) /\ ~PairAck(c)
  PROVE  EntersNothing
<1>1. CASE UNCHANGED pair /\ UNCHANGED camera
  BY <1>1 DEF EntersNothing
<1>2. ASSUME NEW ch \in Channels, Unlock(ch) PROVE \A j \in Channels : pair'[j].mac = pair[j].mac
  BY <1>2 DEF Unlock, TypeInv, PairType
<1>3. ASSUME pair' = Unlocked(pair) PROVE \A j \in Channels : pair'[j].mac = pair[j].mac
  BY <1>3 DEF Unlocked, TypeInv, PairType
<1>4. ASSUME NEW i \in Callers, PairCamera(i) PROVE EntersNothing
  <2>1. UNCHANGED camera
    BY <1>4 DEF PairCamera, Begin, Start, NotStarted
  <2>2. \/ UNCHANGED pair \/ pair' = Unlocked(pair)
        \/ \E ch \in Channels, lock \in BOOLEAN, cam \in Cameras \cup {NoCam} :
             pair' = [pair EXCEPT ![ch].lock = lock, ![ch].cam = cam]
    <3>1. CASE Begin(i)
      BY <3>1 DEF Begin
    <3>2. CASE Start(i)
      <4>1. caller[i].cam \in Cameras
        BY <3>2, BusyCaller DEF Start, TypeInv
      <4> QED BY <3>2, <4>1 DEF Start
    <3>3. CASE NotStarted(i)
      BY <3>3 DEF NotStarted
    <3> QED BY <1>4, <3>1, <3>2, <3>3 DEF PairCamera
  <2>3. \A j \in Channels : pair'[j].mac = pair[j].mac
    <3>1. ASSUME NEW ch \in Channels, NEW lock, NEW cam,
                 pair' = [pair EXCEPT ![ch].lock = lock, ![ch].cam = cam]
          PROVE  \A j \in Channels : pair'[j].mac = pair[j].mac
      BY <3>1 DEF TypeInv, PairType
    <3> QED BY <1>3, <2>2, <3>1
  <2> QED BY <2>1, <2>3 DEF EntersNothing
<1>5. ASSUME NEW w \in Workers, WorkerStep(w) PROVE EntersNothing
  <2>1. UNCHANGED camera
    BY <1>5 DEF WorkerStep, Answered, GiveUp, Outcome, WaitExpires, WaitExpired,
                tableVars
  <2>2. UNCHANGED pair \/ (Unlock(worker[w].ch) /\ worker[w].at # "free")
    BY <1>5 DEF WorkerStep, Answered, GiveUp, Outcome, WaitExpires, WaitExpired,
                tableVars
  <2> QED BY <1>2, <2>1, <2>2, BusyWorker DEF EntersNothing, TypeInv
<1>6. ASSUME NEW c \in Cameras, Invited(c) \/ PairAnswer(c) \/ CameraLeaves(c)
      PROVE  EntersNothing
  BY <1>6 DEF Invited, PairAnswer, CameraLeaves, tableVars, EntersNothing,
              TypeInv, CameraType, IdleCamera, AddedCamera
<1>7. ASSUME NEW c \in Cameras, Refuse(c) PROVE EntersNothing
  <2>1. camera[c].ch \in Channels
    BY <1>7 DEF Refuse, TypeInv, CameraType, IdleCamera, AddedCamera
  <2>2. \A j \in Channels : pair'[j].mac = pair[j].mac
    BY <1>2, <1>7, <2>1 DEF Refuse
  <2> QED BY <1>7, <2>2 DEF Refuse, EntersNothing, TypeInv, CameraType, IdleCamera, AddedCamera
<1>8. ASSUME NEW c \in Cameras, Added(c) PROVE EntersNothing
  <2>1. \A j \in Channels : pair'[j].mac = pair[j].mac
    BY <1>3, <1>8 DEF Added
  <2> QED BY <1>8, <2>1 DEF Added, EntersNothing, TypeInv, CameraType, IdleCamera, AddedCamera
<1>9. ASSUME NEW ch \in Channels, Remove(ch) PROVE EntersNothing
  BY <1>9 DEF Remove, Blank, EntersNothing, TypeInv, PairType
<1>10. ASSUME \/ \E s \in Sessions, c \in Cameras, want \in Channels \cup {AnyChannel} :
                   AppRequest(s, c, want)
              \/ KeyPress \/ KeyThread \/ ListChanges
       PROVE  EntersNothing
  BY <1>1, <1>10 DEF AppRequest, KeyPress, KeyThread, KeySeen, KeySearch,
     KeyTimeout, KeyDone, ListChanges, tableVars
<1> QED BY <1>1, <1>4, <1>5, <1>6, <1>7, <1>8, <1>9, <1>10
        DEF Next, ClientStep, vars, tableVars

(* A request is accepted for the one channel the camera is entered for, or *)
(* if it is entered for none.                                              *)
LEMMA AcceptKeeps ==
  ASSUME EntryInv, NEW c \in Cameras, Accept(c)
  PROVE  OneChannelEach' /\ AcceptedAlone'
<1>1. PICK ch \in Channels :
        /\ IsFirst(ch, Known(c)) \/ Known(c) = {}
        /\ camera' = [camera EXCEPT ![c] = [at |-> "accepted", ch |-> ch]]
        /\ UNCHANGED pair
  BY DEF Accept, tableVars
<1>2. \A j \in Channels : pair[j].mac = c => j = ch
  BY <1>1, PairingAssumption DEF IsFirst, Known, EntryInv, OneChannelEach
<1>3. OneChannelEach'
  BY <1>1 DEF EntryInv, OneChannelEach
<1>4. AcceptedAlone'
  BY <1>1, <1>2 DEF EntryInv, AcceptedAlone, TypeInv, CameraType
<1> QED BY <1>3, <1>4

(* The acknowledgement enters the camera where it was already or nowhere,  *)
(* perhaps in the place of another one.                                    *)
LEMMA AckKeeps ==
  ASSUME EntryInv, NEW c \in Cameras, PairAck(c)
  PROVE  OneChannelEach' /\ AcceptedAlone'
<1> DEFINE ch == camera[c].ch
<1>1. ch \in Channels /\ camera[c].at = "accepted"
  BY DEF PairAck, EntryInv, TypeInv, CameraType, IdleCamera, AddedCamera
<1>2. \A j \in Channels : pair'[j].mac = IF j = ch THEN c ELSE pair[j].mac
  BY <1>1 DEF PairAck, EntryInv, TypeInv, PairType
<1>3. \A j \in Channels : pair[j].mac = c => j = ch
  BY <1>1 DEF EntryInv, AcceptedAlone
<1>4. OneChannelEach'
  BY <1>1, <1>2, <1>3, PairingAssumption DEF EntryInv, OneChannelEach
<1>5. ASSUME NEW d \in Cameras, NEW j \in Channels,
             camera'[d].at = "accepted", pair'[j].mac = d
      PROVE  j = camera'[d].ch
  <2>1. d # c /\ camera'[d] = camera[d]
    BY <1>5 DEF PairAck, EntryInv, TypeInv, CameraType, AddedCamera
  <2> QED BY <1>2, <1>5, <2>1 DEF EntryInv, AcceptedAlone
<1> QED BY <1>4, <1>5 DEF AcceptedAlone

LEMMA EntryStep ==
  ASSUME EntryInv, [Next]_vars PROVE EntryInv'
<1>1. TypeInv'
  BY TypeStep DEF EntryInv
<1>2. OneChannelEach' /\ AcceptedAlone'
  <2>1. CASE \E c \in Cameras : Accept(c)
    BY <2>1, AcceptKeeps
  <2>2. CASE \E c \in Cameras : PairAck(c)
    BY <2>2, AckKeeps
  <2>3. CASE \A c \in Cameras : ~Accept(c) /\ ~PairAck(c)
    BY <2>3, OthersEnterNothing, EntriesKept DEF EntryInv
  <2> QED BY <2>1, <2>2, <2>3
<1> QED BY <1>1, <1>2 DEF EntryInv

(* No camera is ever entered for two channels: not by two sessions that    *)
(* pair it at once, not by an acknowledgement that comes after its channel *)
(* was removed or given to another camera.                                 *)
THEOREM CameraHasOneChannel == Spec => []OneChannelEach
<1>1. Init => EntryInv
  <2>1. Init => TypeInv
    BY TypeStart
  <2>2. Init => OneChannelEach /\ AcceptedAlone
    BY DEF Init, OneChannelEach, AcceptedAlone, Blank, IdleCamera
  <2> QED BY <2>1, <2>2 DEF EntryInv
<1>2. EntryInv => OneChannelEach
  BY DEF EntryInv
<1> QED BY <1>1, <1>2, EntryStep, PTL DEF Spec
=============================================================================
