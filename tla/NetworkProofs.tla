--------------------------- MODULE NetworkProofs ----------------------------
(***************************************************************************)
(* Proofs about the gateway's two sides of the network: that the tables of *)
(* the app sessions agree with the sessions there are, for any numbers of  *)
(* threads, handles, rows and cameras; and that what is known of the link  *)
(* is the cable as it is, for any time it takes to settle.                 *)
(***************************************************************************)
EXTENDS Sessions, NetLink, TLAPS, SequenceTheorems

SomeHandle == Handles \cup {NoHandle}
SomeChannel == Channels \cup {NoChannel}

\* What is known of a thread, and what a row says.
ThreadRecord ==
  [place : {"none", "start", "claim", "new", "in", "waking", "talking",
            "wipe", "scan", "release", "close"},
   own : SomeHandle, handle : SomeHandle, row : Rows,
   video : SomeChannel, want : SomeChannel]

RowRecord == [id : SomeHandle, awake : BOOLEAN, channel : SomeChannel]

\* The type, a conjunct for each group of variables that is written together.
ThreadsType == threads \in [Threads -> ThreadRecord]
TableType == table \in [Rows -> RowRecord]
TalkType == talk \in [Channels -> SomeHandle] /\ abandoned \subseteq Channels
ListenerType ==
  /\ sessionid \in SomeHandle /\ open \subseteq Handles /\ swapped \in BOOLEAN
ReceiverType == receiver \in [Channels -> [tmptalk : SomeHandle, reading : BOOLEAN]]

LEMMA SessionsTypeParts ==
  SessionsType <=>
    ThreadsType /\ TableType /\ TalkType /\ ListenerType /\ ReceiverType
  BY Zenon DEF SessionsType, ThreadsType, TableType, TalkType, ListenerType,
               ReceiverType, ThreadRecord, RowRecord, SomeHandle, SomeChannel
-----------------------------------------------------------------------------
(* What the steps do to one variable. *)

\* A thread's record becomes r.
Becomes(t, r) == threads' = [threads EXCEPT ![t] = r]

LEMMA NoThreadType == NoThread \in ThreadRecord
  BY SessionsAssumption DEF NoThread, ThreadRecord, SomeHandle, SomeChannel

(* A step of a thread, or the listener that starts it, writes the thread's  *)
(* own record.                                                              *)
LEMMA MovesOf ==
  ASSUME ThreadsType, ListenerType, NEW t \in Threads
  PROVE
  /\ \A h \in Handles : Accept(t, h) =>
       Becomes(t, [NoThread EXCEPT !.place = "start", !.own = h])
  /\ ReadHandle(t) =>
       Becomes(t, [threads[t] EXCEPT !.place = "claim", !.handle = sessionid])
  /\ Claim(t) => \E i \in Claimable(threads[t].handle) :
       Becomes(t, [threads[t] EXCEPT !.place = "new", !.row = i])
  /\ Refused(t) \/ CloseHandle(t) => Becomes(t, NoThread)
  /\ \A ok \in BOOLEAN : Auth(t, ok) => \E p \in {"new", "in"} :
       Becomes(t, [threads[t] EXCEPT !.place = p])
  /\ \A c \in Channels : WakeCall(t, c) =>
       Becomes(t, [threads[t] EXCEPT !.place = "waking", !.want = c])
  /\ WakeFailed(t) =>
       Becomes(t, [threads[t] EXCEPT !.place = "in", !.want = NoChannel])
  /\ WokenUp(t) =>
       Becomes(t, [threads[t] EXCEPT !.place = "in", !.want = NoChannel,
                                   !.video = threads[t].want])
  /\ GoToSleep(t) \/ TalkClose(t) => threads' = threads
  /\ TalkTest(t) =>
       Becomes(t, [threads[t] EXCEPT !.place = "talking", !.want = RowOf(t).channel])
  /\ TalkOpen(t) =>
       Becomes(t, [threads[t] EXCEPT !.place = "in", !.want = NoChannel])
  /\ LeaveSession(t) => Becomes(t, [threads[t] EXCEPT !.place = "wipe"])
  /\ WipeRow(t) => Becomes(t, [threads[t] EXCEPT !.place = "scan"])
  /\ ScanOthers(t) => \E p \in {"release", "close"} :
       Becomes(t, [threads[t] EXCEPT !.place = p])
  /\ ReleaseTalk(t) => Becomes(t, [threads[t] EXCEPT !.place = "close"])
<1> USE DEF ThreadsType, Becomes
<1>1. \A h \in Handles : Accept(t, h) =>
       Becomes(t, [NoThread EXCEPT !.place = "start", !.own = h])
  BY Zenon DEF Accept
<1>2. ReadHandle(t) =>
       Becomes(t, [threads[t] EXCEPT !.place = "claim", !.handle = sessionid])
  BY DEF ReadHandle
<1>3. Claim(t) => \E i \in Claimable(threads[t].handle) :
       Becomes(t, [threads[t] EXCEPT !.place = "new", !.row = i])
  <2> SUFFICES ASSUME Claim(t) PROVE \E i \in Claimable(threads[t].handle) :
         Becomes(t, [threads[t] EXCEPT !.place = "new", !.row = i])
    OBVIOUS
  <2>1. PICK i \in Claimable(threads[t].handle) :
          threads' = [threads EXCEPT ![t].place = "new", ![t].row = i]
    BY Zenon DEF Claim
  <2>2. Becomes(t, [threads[t] EXCEPT !.place = "new", !.row = i])
    BY <2>1
  <2> QED BY <2>2
<1>4. Refused(t) \/ CloseHandle(t) => Becomes(t, NoThread)
  BY Zenon DEF Refused, CloseHandle
<1>5. \A ok \in BOOLEAN : Auth(t, ok) => \E p \in {"new", "in"} :
       Becomes(t, [threads[t] EXCEPT !.place = p])
  <2> SUFFICES ASSUME NEW ok \in BOOLEAN, Auth(t, ok)
               PROVE  \E p \in {"new", "in"} :
                        Becomes(t, [threads[t] EXCEPT !.place = p])
    OBVIOUS
  <2>1. PICK p \in {"new", "in"} : threads' = [threads EXCEPT ![t].place = p]
    BY Zenon DEF Auth
  <2>2. Becomes(t, [threads[t] EXCEPT !.place = p])
    BY <2>1
  <2> QED BY <2>2
<1>6. \A c \in Channels : WakeCall(t, c) =>
       Becomes(t, [threads[t] EXCEPT !.place = "waking", !.want = c])
  BY DEF WakeCall
<1>7. WakeFailed(t) =>
       Becomes(t, [threads[t] EXCEPT !.place = "in", !.want = NoChannel])
  BY DEF WakeFailed
<1>8. WokenUp(t) =>
       Becomes(t, [threads[t] EXCEPT !.place = "in", !.want = NoChannel,
                                   !.video = threads[t].want])
  BY DEF WokenUp
<1>9. GoToSleep(t) \/ TalkClose(t) => threads' = threads
  BY Zenon DEF GoToSleep, TalkClose
<1>10. LeaveSession(t) => Becomes(t, [threads[t] EXCEPT !.place = "wipe"])
  BY DEF LeaveSession
<1>11. WipeRow(t) => Becomes(t, [threads[t] EXCEPT !.place = "scan"])
  BY DEF WipeRow
<1>12. ScanOthers(t) => \E p \in {"release", "close"} :
         Becomes(t, [threads[t] EXCEPT !.place = p])
  <2> SUFFICES ASSUME ScanOthers(t)
               PROVE  \E p \in {"release", "close"} :
                        Becomes(t, [threads[t] EXCEPT !.place = p])
    OBVIOUS
  <2>1. PICK p \in {"release", "close"} : threads' = [threads EXCEPT ![t].place = p]
    BY Zenon DEF ScanOthers
  <2>2. Becomes(t, [threads[t] EXCEPT !.place = p])
    BY <2>1
  <2> QED BY <2>2
<1>13. ReleaseTalk(t) => Becomes(t, [threads[t] EXCEPT !.place = "close"])
  BY DEF ReleaseTalk
<1>14. TalkTest(t) =>
         Becomes(t, [threads[t] EXCEPT !.place = "talking", !.want = RowOf(t).channel])
  BY DEF TalkTest
<1>15. TalkOpen(t) =>
         Becomes(t, [threads[t] EXCEPT !.place = "in", !.want = NoChannel])
  BY DEF TalkOpen
<1> QED
  BY <1>1, <1>2, <1>3, <1>4, <1>5, <1>6, <1>7, <1>8, <1>9, <1>10, <1>11, <1>12,
     <1>13, <1>14, <1>15, Zenon
-----------------------------------------------------------------------------
LEMMA ThreadsKept ==
  ASSUME ThreadsType, TableType, ListenerType, NEW t \in Threads,
         SessionThread(t) \/ \E h \in Handles : Accept(t, h)
  PROVE  ThreadsType'
<1> USE DEF ThreadsType
<1>0. ASSUME NEW r \in ThreadRecord, Becomes(t, r) PROVE ThreadsType'
  BY <1>0 DEF Becomes
<1>1. threads[t] \in ThreadRecord /\ NoThread \in ThreadRecord
  BY NoThreadType
<1>2. ASSUME NEW h \in Handles, Accept(t, h) PROVE ThreadsType'
  <2>1. [NoThread EXCEPT !.place = "start", !.own = h] \in ThreadRecord
    BY <1>1 DEF ThreadRecord, SomeHandle
  <2> QED BY <2>1, <1>0, <1>2, MovesOf, Zenon
<1>3. CASE ReadHandle(t)
  <2>1. [threads[t] EXCEPT !.place = "claim", !.handle = sessionid] \in ThreadRecord
    BY <1>1 DEF ThreadRecord, ListenerType
  <2> QED BY <2>1, <1>0, <1>3, MovesOf, Zenon
<1>4. CASE Claim(t)
  <2>1. \A i \in Rows :
          [threads[t] EXCEPT !.place = "new", !.row = i] \in ThreadRecord
    BY <1>1 DEF ThreadRecord
  <2>2. Claimable(threads[t].handle) \subseteq Rows
    BY DEF Claimable
  <2> QED BY <2>1, <2>2, <1>0, <1>4, MovesOf, Zenon
<1>5. CASE Refused(t) \/ CloseHandle(t)
  BY <1>0, <1>1, <1>5, MovesOf, Zenon
<1>6. \A p \in {"new", "in", "wipe", "scan", "release", "close"} :
        [threads[t] EXCEPT !.place = p] \in ThreadRecord
  BY <1>1 DEF ThreadRecord
<1>7. ASSUME NEW ok \in BOOLEAN, Auth(t, ok) PROVE ThreadsType'
  BY <1>0, <1>6, <1>7, MovesOf, Zenon
<1>8. ASSUME NEW c \in Channels, WakeCall(t, c) PROVE ThreadsType'
  <2>1. [threads[t] EXCEPT !.place = "waking", !.want = c] \in ThreadRecord
    BY <1>1 DEF ThreadRecord, SomeChannel
  <2> QED BY <2>1, <1>0, <1>8, MovesOf, Zenon
<1>9. CASE WakeFailed(t) \/ TalkOpen(t)
  <2>1. [threads[t] EXCEPT !.place = "in", !.want = NoChannel] \in ThreadRecord
    BY <1>1 DEF ThreadRecord, SomeChannel
  <2> QED BY <2>1, <1>0, <1>9, MovesOf, Zenon
<1>10. CASE WokenUp(t)
  <2>1. [threads[t] EXCEPT !.place = "in", !.want = NoChannel,
                           !.video = threads[t].want] \in ThreadRecord
    BY <1>1 DEF ThreadRecord, SomeChannel
  <2> QED BY <2>1, <1>0, <1>10, MovesOf, Zenon
<1>11. CASE GoToSleep(t) \/ TalkClose(t)
  BY <1>11, MovesOf, Zenon
<1>12. CASE LeaveSession(t) \/ WipeRow(t) \/ ScanOthers(t) \/ ReleaseTalk(t)
  BY <1>0, <1>6, <1>12, MovesOf, Zenon
<1>13. CASE TalkTest(t)
  <2>1. RowOf(t).channel \in SomeChannel
    <3>1. threads[t].row \in Rows
      BY <1>1 DEF ThreadRecord
    <3> QED BY <3>1 DEF RowOf, TableType, RowRecord
  <2>2. [threads[t] EXCEPT !.place = "talking", !.want = RowOf(t).channel]
          \in ThreadRecord
    BY <1>1, <2>1 DEF ThreadRecord
  <2> QED BY <2>2, <1>0, <1>13, MovesOf, Zenon
<1> QED
  BY <1>2, <1>3, <1>4, <1>5, <1>7, <1>8, <1>9, <1>10, <1>11, <1>12, <1>13, Zenon
     DEF SessionThread

\* A field or two of a row.
LEMMA RowChanges ==
  ASSUME TableType, NEW i, NEW id \in SomeHandle, NEW channel \in SomeChannel,
         NEW awake \in BOOLEAN
  PROVE  /\ [table EXCEPT ![i].id = id] \in [Rows -> RowRecord]
         /\ [table EXCEPT ![i].id = id, ![i].channel = channel]
              \in [Rows -> RowRecord]
         /\ [table EXCEPT ![i].awake = awake, ![i].channel = channel]
              \in [Rows -> RowRecord]
         /\ [table EXCEPT ![i].channel = channel, ![i].awake = awake]
              \in [Rows -> RowRecord]
  BY DEF TableType, RowRecord

LEMMA TableKept ==
  ASSUME ThreadsType, TableType, [SessionsNext]_sessionsVars
  PROVE  TableType'
<1>0. NoChannel \in SomeChannel /\ NoHandle \in SomeHandle
  BY DEF SomeChannel, SomeHandle
<1>1. ASSUME NEW t \in Threads, SessionThread(t) PROVE TableType'
  <2> threads[t] \in ThreadRecord
    BY DEF ThreadsType
  <2>0. threads[t].handle \in SomeHandle /\ threads[t].want \in SomeChannel
    BY DEF ThreadRecord
  <2>1. CASE Claim(t)
    <3>1. \A i : [table EXCEPT ![i].id = threads[t].handle,
                               ![i].channel = NoChannel] \in [Rows -> RowRecord]
      BY <1>0, <2>0, RowChanges
    <3> QED BY <2>1, <3>1, Zenon DEF Claim, TableType
  <2>2. CASE WokenUp(t)
    BY <2>0, <2>2, <1>0, RowChanges, Zenon DEF WokenUp, TableType
  <2>3. CASE GoToSleep(t) \/ WipeRow(t)
    <3>1. \A i : [table EXCEPT ![i].channel = NoChannel, ![i].awake = FALSE]
                 \in [Rows -> RowRecord]
      BY <1>0, RowChanges
    <3> QED BY <2>3, <3>1, Zenon DEF GoToSleep, WipeRow, TableType
  <2>4. CASE LeaveSession(t)
    BY <2>4, <1>0, RowChanges, Zenon DEF LeaveSession, TableType
  <2>5. CASE ~(Claim(t) \/ WokenUp(t) \/ GoToSleep(t) \/ WipeRow(t) \/ LeaveSession(t))
    <3>1. table' = table
      BY <1>1, <2>5, Zenon
         DEF SessionThread, ReadHandle, Refused, Auth, WakeCall, WakeFailed,
             TalkTest, TalkOpen, TalkClose, ScanOthers, ReleaseTalk, CloseHandle
    <3> QED BY <3>1, Zenon DEF TableType
  <2> QED BY <2>1, <2>2, <2>3, <2>4, <2>5, Zenon
<1>2. ASSUME NEW c \in Channels, DropWatchers(c) PROVE TableType'
  <2>1. \A i \in Rows :
          [table[i] EXCEPT !.awake = FALSE, !.channel = NoChannel] \in RowRecord
    BY <1>0 DEF TableType, RowRecord
  <2>2. \A i \in Rows : table[i] \in RowRecord
    BY DEF TableType
  <2>3. \A i \in Rows :
          (IF table[i].channel = c
           THEN [table[i] EXCEPT !.awake = FALSE, !.channel = NoChannel]
           ELSE table[i]) \in RowRecord
    BY <2>1, <2>2, Zenon
  <2> QED BY <2>3, <1>2, Zenon DEF DropWatchers, TableType
<1>3. CASE table' = table
  BY <1>3, Zenon DEF TableType
<1>4. ASSUME [SessionsNext]_sessionsVars, table' # table
      PROVE  \/ \E t \in Threads : SessionThread(t)
             \/ \E c \in Channels : DropWatchers(c)
  BY <1>4, Zenon
     DEF SessionsNext, sessionsVars, Accept, ResetCamera, Listen, Received
<1> QED BY <1>1, <1>2, <1>3, <1>4, Zenon

\* SetTalk keeps what is known of the talk channels.
LEMMA SetTalkType ==
  ASSUME TalkType, NEW new \in [Channels -> SomeHandle],
         NEW forgotten, forgotten \subseteq Channels, SetTalk(new, forgotten)
  PROVE  TalkType'
  BY DEF SetTalk, TalkType

LEMMA TalkKept ==
  ASSUME ThreadsType, TalkType, [SessionsNext]_sessionsVars
  PROVE  TalkType'
<1>1. /\ talk \in [Channels -> SomeHandle]
      /\ \A c : [talk EXCEPT ![c] = NoHandle] \in [Channels -> SomeHandle]
  BY DEF TalkType, SomeHandle
<1>2. ASSUME NEW t \in Threads, SessionThread(t) PROVE TalkType'
  <2> threads[t] \in ThreadRecord
    BY DEF ThreadsType
  <2>0. threads[t].handle \in SomeHandle /\ threads[t].video \in SomeChannel
    BY DEF ThreadRecord
  <2>1. CASE WokenUp(t)
    <3>1. \E forgotten : forgotten \subseteq Channels /\ SetTalk(talk, forgotten)
      BY <2>1, Zenon DEF WokenUp
    <3> QED BY <3>1, <1>1, SetTalkType, Zenon
  <2>2. CASE ScanOthers(t)
    <3>1. \E forgotten : forgotten \subseteq Channels /\ SetTalk(talk, forgotten)
      BY <2>0, <2>2 DEF ScanOthers, SomeChannel
    <3> QED BY <3>1, <1>1, SetTalkType, Zenon
  <2>3. CASE GoToSleep(t) \/ TalkClose(t) \/ ReleaseTalk(t)
    <3>1. \E new \in [Channels -> SomeHandle] : SetTalk(new, {})
      BY <1>1, <2>3, Zenon DEF GoToSleep, TalkClose, ReleaseTalk
    <3> QED BY <3>1, SetTalkType, Zenon
  <2>5. CASE TalkOpen(t)
    BY <2>0, <2>5 DEF TalkOpen, TalkType
  <2>4. CASE ~(WokenUp(t) \/ ScanOthers(t) \/ GoToSleep(t) \/ TalkOpen(t)
               \/ TalkClose(t) \/ ReleaseTalk(t))
    <3>1. talk' = talk /\ abandoned' = abandoned
      BY <1>2, <2>4, Zenon
         DEF SessionThread, ReadHandle, Claim, Refused, Auth, WakeCall, WakeFailed,
             TalkTest, LeaveSession, WipeRow, CloseHandle
    <3> QED BY <3>1, Zenon DEF TalkType
  <2> QED BY <2>1, <2>2, <2>3, <2>4, <2>5, Zenon
<1>3. ASSUME NEW c \in Channels, ResetCamera(c) PROVE TalkType'
  <2>1. \E new \in [Channels -> SomeHandle] : SetTalk(new, {})
    BY <1>1, <1>3, Zenon DEF ResetCamera
  <2> QED BY <2>1, SetTalkType, Zenon
<1>4. ASSUME NEW c \in Channels, NEW good \in BOOLEAN, Received(c, good)
      PROVE  TalkType'
  <2>1. \E new \in [Channels -> SomeHandle] : SetTalk(new, {})
    BY <1>1, <1>4, Zenon DEF Received
  <2> QED BY <2>1, SetTalkType, Zenon
<1>5. CASE talk' = talk /\ abandoned' = abandoned
  BY <1>5, Zenon DEF TalkType
<1>6. ASSUME NEW c \in Channels, Listen(c) \/ DropWatchers(c) PROVE TalkType'
  BY <1>5, <1>6, Zenon DEF Listen, DropWatchers
<1>7. ASSUME NEW t \in Threads, NEW h \in Handles, Accept(t, h) PROVE TalkType'
  BY <1>5, <1>7, Zenon DEF Accept
<1>8. CASE UNCHANGED sessionsVars
  BY <1>5, <1>8, Zenon DEF sessionsVars
<1> QED
  BY <1>2, <1>3, <1>4, <1>6, <1>7, <1>8, Zenon DEF SessionsNext

LEMMA ListenerKept ==
  ASSUME ListenerType, [SessionsNext]_sessionsVars
  PROVE  ListenerType'
<1> USE DEF ListenerType
<1>1. sessionid' = sessionid \/ sessionid' \in Handles
  BY Zenon
     DEF SessionsNext, SessionThread, sessionsVars, Accept, ReadHandle, Claim, Refused,
         Auth, WakeCall, WakeFailed, WokenUp, GoToSleep, TalkTest, TalkOpen, TalkClose,
         LeaveSession, WipeRow, ScanOthers, ReleaseTalk, CloseHandle, DropWatchers,
         ResetCamera, Listen, Received
<1>2. \/ open' = open \/ \E h \in Handles : open' = open \cup {h}
      \/ \E h : open' = open \ {h}
  BY Zenon
     DEF SessionsNext, SessionThread, sessionsVars, Accept, ReadHandle, Claim, Refused,
         Auth, WakeCall, WakeFailed, WokenUp, GoToSleep, TalkTest, TalkOpen, TalkClose,
         LeaveSession, WipeRow, ScanOthers, ReleaseTalk, CloseHandle, DropWatchers,
         ResetCamera, Listen, Received
<1>3. swapped' = swapped \/ \E t \in Threads : ReadHandle(t)
  BY Zenon
     DEF SessionsNext, SessionThread, sessionsVars, Accept, Claim, Refused,
         Auth, WakeCall, WakeFailed, WokenUp, GoToSleep, TalkTest, TalkOpen, TalkClose,
         LeaveSession, WipeRow, ScanOthers, ReleaseTalk, CloseHandle, DropWatchers,
         ResetCamera, Listen, Received
<1>4. swapped' \in BOOLEAN
  BY <1>3, Zenon DEF ReadHandle
<1> QED BY <1>1, <1>2, <1>4 DEF SomeHandle

LEMMA ReceiverKept ==
  ASSUME TalkType, ReceiverType, [SessionsNext]_sessionsVars
  PROVE  ReceiverType'
<1> DEFINE R == [tmptalk : SomeHandle, reading : BOOLEAN]
<1>1. ASSUME NEW c \in Channels, NEW r \in R,
             receiver' = [receiver EXCEPT ![c] = r]
      PROVE  ReceiverType'
  BY <1>1 DEF ReceiverType
<1>2. ASSUME NEW c \in Channels, Listen(c) PROVE ReceiverType'
  <2>1. receiver[c] \in R /\ talk[c] \in SomeHandle
    BY DEF ReceiverType, TalkType
  <2> HIDE DEF R
  <2>2. /\ [tmptalk |-> NoHandle, reading |-> FALSE] \in R
        /\ [tmptalk |-> IF receiver[c].tmptalk = NoHandle THEN talk[c]
                        ELSE receiver[c].tmptalk,
            reading |-> TRUE] \in R
    BY <2>1 DEF R, SomeHandle
  <2>3. \E r \in R : receiver' = [receiver EXCEPT ![c] = r]
    <3>1. CASE talk[c] = NoHandle
      BY <1>2, <2>2, <3>1, Zenon DEF Listen
    <3>2. CASE talk[c] # NoHandle
      <4>1. receiver' = [receiver EXCEPT ![c] =
              [tmptalk |-> IF receiver[c].tmptalk = NoHandle THEN talk[c]
                           ELSE receiver[c].tmptalk,
               reading |-> TRUE]]
        BY <1>2, <3>2 DEF Listen
      <4> QED BY <2>2, <4>1, Zenon
    <3> QED BY <3>1, <3>2
  <2> QED BY <1>1, <2>3, Zenon
<1>3. ASSUME NEW c \in Channels, NEW good \in BOOLEAN, Received(c, good)
      PROVE  ReceiverType'
  <2>1. [receiver[c] EXCEPT !.reading = FALSE] \in R
    BY DEF ReceiverType
  <2>2. receiver' = [receiver EXCEPT ![c] = [receiver[c] EXCEPT !.reading = FALSE]]
    BY <1>3 DEF Received
  <2> QED BY <1>1, <2>1, <2>2
<1>4. ASSUME receiver' # receiver
      PROVE  \E c \in Channels :
               Listen(c) \/ \E good \in BOOLEAN : Received(c, good)
  BY <1>4, Zenon
     DEF SessionsNext, SessionThread, sessionsVars, Accept, ReadHandle, Claim, Refused,
         Auth, WakeCall, WakeFailed, WokenUp, GoToSleep, TalkTest, TalkOpen, TalkClose,
         LeaveSession, WipeRow, ScanOthers, ReleaseTalk, CloseHandle, DropWatchers,
         ResetCamera
<1> QED BY <1>2, <1>3, <1>4, Zenon DEF ReceiverType

LEMMA SessionsTypeKept ==
  ASSUME SessionsType, [SessionsNext]_sessionsVars
  PROVE  SessionsType'
<1> ThreadsType /\ TableType /\ TalkType /\ ListenerType /\ ReceiverType
  BY SessionsTypeParts
<1>1. ThreadsType'
  <2>1. ASSUME threads' # threads
        PROVE  \E t \in Threads :
                 SessionThread(t) \/ \E h \in Handles : Accept(t, h)
    BY <2>1, Zenon
       DEF SessionsNext, sessionsVars, DropWatchers, ResetCamera, Listen, Received
  <2> QED BY <2>1, ThreadsKept, Zenon DEF ThreadsType
<1> QED
  BY <1>1, TableKept, TalkKept, ListenerKept, ReceiverKept, SessionsTypeParts, PTL

LEMMA SessionsTypeInit == SessionsInit => SessionsType
<1> SUFFICES ASSUME SessionsInit PROVE SessionsType
  OBVIOUS
<1>1. ThreadsType
  BY NoThreadType, Zenon DEF SessionsInit, ThreadsType
<1>2. FreeRow \in RowRecord
  BY Zenon DEF FreeRow, RowRecord, SomeHandle, SomeChannel
<1>3. TableType
  BY <1>2, Zenon DEF SessionsInit, TableType
<1>4. TalkType
  BY DEF SessionsInit, TalkType, SomeHandle
<1>5. ListenerType
  BY DEF SessionsInit, ListenerType, SomeHandle
<1>6. [tmptalk |-> NoHandle, reading |-> FALSE]
        \in [tmptalk : SomeHandle, reading : BOOLEAN]
  BY Zenon DEF SomeHandle
<1>7. ReceiverType
  BY <1>6, Zenon DEF SessionsInit, ReceiverType
<1> QED BY <1>1, <1>3, <1>4, <1>5, <1>7, SessionsTypeParts, Zenon

(* Every variable of the sessions has its type in every reachable state,    *)
(* whatever the listener and the other threads write in between.            *)
THEOREM SessionsTypeCorrect == SessionsSpec => []SessionsType
  BY SessionsTypeInit, SessionsTypeKept, PTL DEF SessionsSpec
-----------------------------------------------------------------------------
(* What makes the tables agree, as long as no thread has read the handle of *)
(* another one's connection.                                                *)

\* The handle a thread was started for is open, nobody else's, and the one it
\* uses: the library does not give a handle out twice.
HandleOwned ==
  \A t \in Threads : threads[t].place # "none" =>
    /\ threads[t].own \in open
    /\ threads[t].place # "start" => threads[t].handle = threads[t].own
    /\ \A u \in Threads \ {t} :
         threads[u].place # "none" => threads[u].own # threads[t].own

\* A session that is served has its row under its handle, and the row says of no
\* other camera than the one it has woken last that it is watched, so that it is
\* the one the session would talk on.
RowHeld ==
  \A t \in Served :
    /\ RowOf(t).id = threads[t].handle
    /\ RowOf(t).channel \in {NoChannel, threads[t].video}
    /\ threads[t].place = "talking" =>
         threads[t].want \in Channels /\ threads[t].video = threads[t].want

Agreement == HandleOwned /\ RowHeld /\ TalkOwned

SessionsInv == SessionsType /\ (swapped \/ Agreement)

LEMMA RowsOwnedFollows ==
  ASSUME HandleOwned, RowHeld
  PROVE  RowsOwned
<1>1. ASSUME NEW t \in Served, NEW u \in Served, threads[u].row = threads[t].row
      PROVE  u = t
  <2>1. threads[u].handle = threads[t].handle
    BY <1>1 DEF RowHeld, RowOf
  <2>2. /\ threads[t].handle = threads[t].own /\ threads[t].place # "none"
        /\ threads[u].handle = threads[u].own /\ threads[u].place # "none"
    BY DEF HandleOwned, Served
  <2> QED BY <2>1, <2>2, Zenon DEF HandleOwned, Served
<1> QED BY <1>1, Zenon DEF RowsOwned, RowHeld

\* The steps a session takes once it has read its handle.
Serving(t) ==
  \/ Claim(t) \/ \E ok \in BOOLEAN : Auth(t, ok) \/ \E c \in Channels : WakeCall(t, c)
  \/ WakeFailed(t) \/ WokenUp(t) \/ TalkTest(t) \/ TalkOpen(t)
  \/ LeaveSession(t) \/ WipeRow(t) \/ ScanOthers(t) \/ ReleaseTalk(t)

LEMMA ServingMoves ==
  ASSUME ThreadsType, ListenerType, NEW t \in Threads, Serving(t)
  PROVE  \E r : /\ Becomes(t, r)
                /\ r.own = threads[t].own /\ r.handle = threads[t].handle
                /\ threads[t].place \notin {"none", "start"}
                /\ r.place \notin {"none", "start"}
<1> DEFINE Goes(r) == /\ r.own = threads[t].own /\ r.handle = threads[t].handle
                      /\ r.place \notin {"none", "start"}
<1> threads[t] \in ThreadRecord
  BY DEF ThreadsType
<1>1. threads[t].place \notin {"none", "start"}
  BY DEF Serving, Claim, Auth, WakeCall, WakeFailed, WokenUp, TalkTest, TalkOpen,
         LeaveSession, WipeRow, ScanOthers, ReleaseTalk
<1>2. /\ \A i : Goes([threads[t] EXCEPT !.place = "new", !.row = i])
      /\ \A c, p : p \in {"waking", "talking"} =>
           Goes([threads[t] EXCEPT !.place = p, !.want = c])
      /\ Goes([threads[t] EXCEPT !.place = "in", !.want = NoChannel])
      /\ Goes([threads[t] EXCEPT !.place = "in", !.want = NoChannel,
                                 !.video = threads[t].want])
      /\ \A p \in {"new", "in", "wipe", "scan", "release", "close"} :
           Goes([threads[t] EXCEPT !.place = p])
  BY DEF ThreadRecord
<1> HIDE DEF Goes
<1>3. \E r : Becomes(t, r) /\ Goes(r)
  <2>1. CASE Claim(t)
    BY <1>2, <2>1, MovesOf, Zenon
  <2>2. CASE \E ok \in BOOLEAN : Auth(t, ok)
    BY <1>2, <2>2, MovesOf, Zenon
  <2>3. CASE \E c \in Channels : WakeCall(t, c)
    BY <1>2, <2>3, MovesOf, Zenon
  <2>4. CASE WakeFailed(t) \/ WokenUp(t) \/ TalkTest(t) \/ TalkOpen(t)
    BY <1>2, <2>4, MovesOf, Zenon
  <2>5. CASE LeaveSession(t) \/ WipeRow(t) \/ ScanOthers(t) \/ ReleaseTalk(t)
    BY <1>2, <2>5, MovesOf, Zenon
  <2> QED BY <2>1, <2>2, <2>3, <2>4, <2>5, Zenon DEF Serving
<1> QED BY <1>1, <1>3, Zenon DEF Goes

LEMMA HandleOwnedKept ==
  ASSUME SessionsType, HandleOwned, [SessionsNext]_sessionsVars, ~swapped'
  PROVE  HandleOwned'
<1> ThreadsType /\ ListenerType
  BY SessionsTypeParts
<1> USE DEF ThreadsType
<1>1. ASSUME NEW t \in Threads, NEW r, Becomes(t, r), open' = open,
             threads[t].place # "none", r.own = threads[t].own,
             r.place # "start" => r.handle = r.own
      PROVE  HandleOwned'
  BY <1>1 DEF HandleOwned, Becomes
<1>2. ASSUME NEW t \in Threads, NEW h \in Handles, Accept(t, h) PROVE HandleOwned'
  <2> DEFINE r == [NoThread EXCEPT !.place = "start", !.own = h]
  <2>1. r.place = "start" /\ r.own = h
    BY DEF NoThread
  <2>2. Becomes(t, r) /\ open' = open \cup {h} /\ h \notin open
    BY <1>2, MovesOf, Zenon DEF Accept
  <2> HIDE DEF r
  <2> QED BY <2>1, <2>2 DEF HandleOwned, Becomes
<1>3. ASSUME NEW t \in Threads, Refused(t) \/ CloseHandle(t) PROVE HandleOwned'
  <2>1. /\ Becomes(t, NoThread) /\ open' = open \ {threads[t].handle}
        /\ threads[t].place \in {"claim", "close"}
    BY <1>3, MovesOf, Zenon DEF Refused, CloseHandle
  <2>2. threads[t].handle = threads[t].own
    BY <2>1 DEF HandleOwned
  <2>3. NoThread.place = "none"
    BY DEF NoThread
  <2>4. threads'[t] = NoThread /\ \A u \in Threads \ {t} : threads'[u] = threads[u]
    BY <2>1 DEF Becomes
  <2> QED BY <2>1, <2>2, <2>3, <2>4, SMT DEF HandleOwned
<1>4. ASSUME NEW t \in Threads, ReadHandle(t) PROVE HandleOwned'
  <2> DEFINE r == [threads[t] EXCEPT !.place = "claim", !.handle = sessionid]
  <2>1. Becomes(t, r) /\ open' = open /\ threads[t].place = "start"
    BY <1>4, MovesOf, Zenon DEF ReadHandle
  <2>2. sessionid = threads[t].own
    BY <1>4, Zenon DEF ReadHandle
  <2>3. r.own = threads[t].own /\ r.handle = r.own
    BY <2>2 DEF ThreadRecord, ListenerType
  <2> HIDE DEF r
  <2> QED BY <1>1, <2>1, <2>3, Zenon
<1>5. ASSUME NEW t \in Threads, Serving(t) PROVE HandleOwned'
  <2>1. open' = open
    BY <1>5, Zenon DEF Serving, Claim, Auth, WakeCall, WakeFailed, WokenUp,
                       TalkTest, TalkOpen, LeaveSession, WipeRow, ScanOthers, ReleaseTalk
  <2>2. PICK r : /\ Becomes(t, r)
                 /\ r.own = threads[t].own /\ r.handle = threads[t].handle
                 /\ threads[t].place \notin {"none", "start"}
                 /\ r.place \notin {"none", "start"}
    BY <1>5, ServingMoves
  <2>3. threads[t].handle = threads[t].own
    BY <2>2, Zenon DEF HandleOwned
  <2> QED BY <1>1, <2>1, <2>2, <2>3, Zenon
<1>6. CASE threads' = threads /\ open' = open
  BY <1>6, Zenon DEF HandleOwned
<1>7. ASSUME NEW t \in Threads, GoToSleep(t) \/ TalkClose(t)
      PROVE  HandleOwned'
  BY <1>6, <1>7, Zenon DEF GoToSleep, TalkClose
<1>8. ASSUME NEW c \in Channels,
             \/ DropWatchers(c) \/ ResetCamera(c) \/ Listen(c)
             \/ \E good \in BOOLEAN : Received(c, good)
      PROVE  HandleOwned'
  BY <1>6, <1>8, Zenon DEF DropWatchers, ResetCamera, Listen, Received
<1>9. CASE UNCHANGED sessionsVars
  BY <1>6, <1>9, Zenon DEF sessionsVars
<1> QED
  BY <1>2, <1>3, <1>4, <1>5, <1>7, <1>8, <1>9, Zenon
     DEF SessionsNext, SessionThread, Serving

\* A thread that is not served has no row to keep; one that is served has a handle.
LEMMA ServedHandle ==
  ASSUME SessionsType, HandleOwned, NEW t \in Threads,
         threads[t].place \notin {"none", "start"}
  PROVE  /\ threads[t].handle \in Handles
         /\ threads[t].handle # NoHandle
         /\ \A u \in Served \ {t} : threads[u].handle # threads[t].handle
  BY SessionsAssumption DEF SessionsType, HandleOwned, Served

LEMMA RowHeldKept ==
  ASSUME SessionsType, HandleOwned, RowHeld, [SessionsNext]_sessionsVars
  PROVE  RowHeld'
<1> ThreadsType /\ ListenerType /\ TableType
  BY SessionsTypeParts
<1> Served \subseteq Threads /\ \A u \in Threads : threads[u].row \in Rows
  BY DEF Served, ThreadsType, ThreadRecord
<1>1. ASSUME NEW t \in Threads, NEW r, Becomes(t, r),
             r.place \in {"new", "in", "waking", "talking"} =>
               /\ threads[t].place \in {"new", "in", "waking", "talking"}
               /\ r.place = "talking" => r.want \in Channels /\ r.video = r.want
               /\ r.row = threads[t].row /\ r.handle = threads[t].handle
               /\ r.video = threads[t].video,
             \A i \in Rows : /\ table'[i].id = table[i].id
                             /\ table'[i].channel \in {NoChannel, table[i].channel}
      PROVE  RowHeld'
  BY <1>1 DEF RowHeld, Served, RowOf, Becomes, ThreadsType
<1>2. ASSUME threads' = threads,
             \A i \in Rows : /\ table'[i].id = table[i].id
                             /\ table'[i].channel \in {NoChannel, table[i].channel}
      PROVE  RowHeld'
  BY <1>2 DEF RowHeld, Served, RowOf
<1>3. ASSUME table' = table
      PROVE  \A i \in Rows : /\ table'[i].id = table[i].id
                             /\ table'[i].channel \in {NoChannel, table[i].channel}
  BY <1>3
<1>4. ASSUME NEW t \in Threads, NEW h \in Handles, Accept(t, h) PROVE RowHeld'
  <2>1. [NoThread EXCEPT !.place = "start", !.own = h].place = "start"
    BY DEF NoThread
  <2>2. table' = table
    BY <1>4, Zenon DEF Accept
  <2>3. Becomes(t, [NoThread EXCEPT !.place = "start", !.own = h])
    BY <1>4, MovesOf, Zenon
  <2> QED BY <1>1, <1>3, <2>1, <2>2, <2>3
<1>5. ASSUME NEW t \in Threads,
             \/ ReadHandle(t) \/ Refused(t) \/ CloseHandle(t) \/ ScanOthers(t)
             \/ ReleaseTalk(t)
      PROVE  RowHeld'
  <2>1. table' = table
    BY <1>5, Zenon DEF ReadHandle, Refused, CloseHandle, ScanOthers, ReleaseTalk
  <2>2. threads[t] \in ThreadRecord /\ NoThread.place = "none"
    BY DEF ThreadsType, NoThread
  <2>3. /\ [threads[t] EXCEPT !.place = "claim", !.handle = sessionid].place = "claim"
        /\ \A p \in {"release", "close"} : [threads[t] EXCEPT !.place = p].place = p
    BY <2>2 DEF ThreadRecord
  <2>4. \E r : Becomes(t, r) /\ r.place \in {"none", "claim", "release", "close"}
    BY <1>5, <2>2, <2>3, MovesOf
  <2> QED BY <1>1, <1>3, <2>1, <2>4
<1>6. ASSUME NEW t \in Threads,
             \/ \E ok \in BOOLEAN : Auth(t, ok)
             \/ \E c \in Channels : WakeCall(t, c)
             \/ WakeFailed(t) \/ TalkTest(t) \/ TalkOpen(t)
      PROVE  RowHeld'
  <2>1. table' = table /\ threads[t].place \in {"new", "in", "waking", "talking"}
    BY <1>6 DEF Auth, WakeCall, WakeFailed, TalkTest, TalkOpen
  <2>2. threads[t] \in ThreadRecord
    BY DEF ThreadsType
  <2> DEFINE Keeps(r) == /\ r.row = threads[t].row /\ r.handle = threads[t].handle
                         /\ r.video = threads[t].video
                         /\ r.place = "talking" =>
                              r.want \in Channels /\ r.video = r.want
  <2>3. /\ \A p \in {"new", "in"} : Keeps([threads[t] EXCEPT !.place = p])
        /\ \A c \in Channels :
             Keeps([threads[t] EXCEPT !.place = "waking", !.want = c])
        /\ Keeps([threads[t] EXCEPT !.place = "in", !.want = NoChannel])
    BY <2>2 DEF ThreadRecord
  <2>5. TalkTest(t) =>
          Keeps([threads[t] EXCEPT !.place = "talking", !.want = RowOf(t).channel])
    <3> SUFFICES ASSUME TalkTest(t)
                 PROVE  Keeps([threads[t] EXCEPT !.place = "talking",
                                                 !.want = RowOf(t).channel])
      OBVIOUS
    <3>1. t \in Served /\ RowOf(t).channel # NoChannel
      BY Zenon DEF TalkTest, Served
    <3>2. RowOf(t).channel \in SomeChannel
      BY <2>2 DEF RowOf, TableType, RowRecord, ThreadRecord
    <3>3. RowOf(t).channel \in Channels /\ threads[t].video = RowOf(t).channel
      BY <3>1, <3>2, Zenon DEF RowHeld, SomeChannel
    <3> QED BY <2>2, <3>3 DEF ThreadRecord
  <2> HIDE DEF Keeps
  <2>4. \E r : Becomes(t, r) /\ Keeps(r)
    BY <1>6, <2>3, <2>5, MovesOf, Zenon
  <2> QED BY <1>1, <1>3, <2>1, <2>4 DEF Keeps
<1>7. ASSUME NEW t \in Threads, Claim(t) PROVE RowHeld'
  <2>1. PICK i \in Claimable(threads[t].handle) :
          /\ table' = [table EXCEPT ![i].id = threads[t].handle,
                                    ![i].channel = NoChannel]
          /\ threads' = [threads EXCEPT ![t].place = "new", ![t].row = i]
    BY <1>7, Zenon DEF Claim
  <2>2. threads[t].place = "claim"
    BY <1>7, Zenon DEF Claim
  <2>3. i \in Rows /\ table[i].id \in {NoHandle, threads[t].handle}
    BY DEF Claimable
  <2>4. /\ threads[t].handle # NoHandle
        /\ \A u \in Served \ {t} : threads[u].handle # threads[t].handle
    BY <2>2, ServedHandle
  <2>5. \A u \in Served : threads[u].row # i /\ u # t
    <3> SUFFICES ASSUME NEW u \in Served PROVE threads[u].row # i /\ u # t
      OBVIOUS
    <3>1. u \in Threads /\ u # t /\ threads[u].place \notin {"none", "start"}
      BY <2>2 DEF Served
    <3>2. threads[u].handle # NoHandle
      BY <3>1, ServedHandle
    <3> QED BY <2>3, <2>4, <3>1, <3>2 DEF RowHeld, RowOf
  <2>6. /\ table'[i].id = threads[t].handle /\ table'[i].channel = NoChannel
        /\ \A j \in Rows \ {i} : table'[j] = table[j]
    BY <2>1, <2>3 DEF TableType, RowRecord
  <2>7. /\ threads'[t].row = i /\ threads'[t].handle = threads[t].handle
        /\ threads'[t].place = "new"
        /\ \A u \in Threads \ {t} : threads'[u] = threads[u]
    BY <2>1 DEF ThreadsType, ThreadRecord
  <2> QED BY <2>3, <2>5, <2>6, <2>7 DEF RowHeld, Served, RowOf
<1>8. ASSUME NEW t \in Threads, WokenUp(t) PROVE RowHeld'
  <2> DEFINE c == threads[t].want
  <2>1. /\ table' = [table EXCEPT ![threads[t].row].awake = TRUE,
                                  ![threads[t].row].channel = c]
        /\ threads' = [threads EXCEPT ![t].place = "in", ![t].want = NoChannel,
                                      ![t].video = c]
    BY <1>8, Zenon DEF WokenUp
  <2>2. t \in Served /\ threads[t].row \in Rows
    BY <1>8 DEF WokenUp, Served
  <2>3. \A u \in Served : threads[u].row = threads[t].row => u = t
    BY <2>2, RowsOwnedFollows, Zenon DEF RowsOwned
  <2>4. /\ table'[threads[t].row].id = table[threads[t].row].id
        /\ table'[threads[t].row].channel = c
        /\ \A j \in Rows \ {threads[t].row} : table'[j] = table[j]
    BY <2>1, <2>2 DEF TableType, RowRecord
  <2>5. /\ threads'[t].row = threads[t].row /\ threads'[t].video = c
        /\ threads'[t].place = "in"
        /\ threads'[t].handle = threads[t].handle
        /\ \A u \in Threads \ {t} : threads'[u] = threads[u]
    BY <2>1 DEF ThreadsType, ThreadRecord
  <2> HIDE DEF c
  <2> QED BY <2>2, <2>3, <2>4, <2>5 DEF RowHeld, Served, RowOf
<1>9. ASSUME NEW t \in Threads, LeaveSession(t) PROVE RowHeld'
  <2>1. t \in Served
    BY <1>9, Zenon DEF LeaveSession, Served
  <2>2. \A u \in Served : threads[u].row = threads[t].row => u = t
    BY <2>1, RowsOwnedFollows, Zenon DEF RowsOwned
  <2>3. \A j \in Rows \ {threads[t].row} : table'[j] = table[j]
    BY <1>9 DEF LeaveSession, TableType
  <2>4. /\ threads'[t].place = "wipe"
        /\ \A u \in Threads \ {t} : threads'[u] = threads[u]
    BY <1>9 DEF LeaveSession, ThreadsType, ThreadRecord
  <2> QED BY <2>2, <2>3, <2>4 DEF RowHeld, Served, RowOf
<1>10. ASSUME NEW t \in Threads, WipeRow(t) PROVE RowHeld'
  <2>1. \A i \in Rows : /\ table'[i].id = table[i].id
                        /\ table'[i].channel \in {NoChannel, table[i].channel}
    BY <1>10 DEF WipeRow, TableType, RowRecord
  <2>2. [threads[t] EXCEPT !.place = "scan"].place = "scan"
    BY DEF ThreadsType, ThreadRecord
  <2>3. Becomes(t, [threads[t] EXCEPT !.place = "scan"])
    BY <1>10, MovesOf
  <2> QED BY <1>1, <2>1, <2>2, <2>3
<1>11. ASSUME NEW t \in Threads, GoToSleep(t) \/ TalkClose(t)
       PROVE  RowHeld'
  <2>1. threads' = threads
    BY <1>11, MovesOf, Zenon
  <2>2. CASE GoToSleep(t)
    <3>1. \A i \in Rows : /\ table'[i].id = table[i].id
                          /\ table'[i].channel \in {NoChannel, table[i].channel}
      BY <2>2 DEF GoToSleep, TableType, RowRecord
    <3> QED BY <1>2, <2>1, <3>1, Zenon
  <2>3. CASE TalkClose(t)
    BY <1>2, <1>3, <2>1, <2>3, Zenon DEF TalkClose
  <2> QED BY <1>11, <2>2, <2>3, Zenon
<1>12. ASSUME NEW c \in Channels, DropWatchers(c) PROVE RowHeld'
  <2>1. \A i \in Rows : /\ table'[i].id = table[i].id
                        /\ table'[i].channel \in {NoChannel, table[i].channel}
    BY <1>12 DEF DropWatchers, TableType, RowRecord
  <2> QED BY <1>2, <1>12, <2>1, Zenon DEF DropWatchers
<1>13. CASE threads' = threads /\ table' = table
  BY <1>2, <1>3, <1>13, Zenon
<1>14. ASSUME NEW c \in Channels,
              ResetCamera(c) \/ Listen(c) \/ \E good \in BOOLEAN : Received(c, good)
       PROVE  RowHeld'
  BY <1>13, <1>14, Zenon DEF ResetCamera, Listen, Received
<1>15. CASE UNCHANGED sessionsVars
  BY <1>13, <1>15, Zenon DEF sessionsVars
<1> QED
  BY <1>4, <1>5, <1>6, <1>7, <1>8, <1>9, <1>10, <1>11, <1>12, <1>14, <1>15, Zenon
     DEF SessionsNext, SessionThread

LEMMA TalkOwnedKept ==
  ASSUME SessionsType, HandleOwned, RowHeld, TalkOwned, [SessionsNext]_sessionsVars
  PROVE  TalkOwned'
<1> ThreadsType /\ ListenerType /\ TableType /\ TalkType
  BY SessionsTypeParts
<1> \A u \in Threads : threads[u].row \in Rows
  BY DEF ThreadsType, ThreadRecord
<1> DEFINE Holds(t, c) == /\ threads[t].handle = talk[c] /\ threads[t].video = c
                          /\ threads[t].place \notin {"none", "start", "claim", "close"}
           Lost(c) == c \in abandoned' \/ talk'[c] = NoHandle
           Same(c) == talk'[c] = talk[c] /\ c \notin abandoned
           Keeps(r, t) ==
             /\ r.handle = threads[t].handle /\ r.video = threads[t].video
             /\ r.place \notin {"none", "start", "claim", "close"}
<1>1. ASSUME NEW t \in Threads, NEW r, Becomes(t, r),
             \A c \in Channels : Lost(c) \/ Same(c),
             \A c \in Channels : Holds(t, c) => Lost(c) \/ Keeps(r, t)
      PROVE  TalkOwned'
  <2> SUFFICES ASSUME NEW c \in Channels, ~Lost(c)
               PROVE  \E u \in Threads :
                        /\ threads'[u].handle = talk'[c] /\ threads'[u].video = c
                        /\ threads'[u].place \notin {"none", "start", "claim", "close"}
    BY Zenon DEF TalkOwned
  <2>1. talk'[c] = talk[c] /\ c \notin abandoned /\ talk[c] # NoHandle
    BY <1>1
  <2>2. PICK u \in Threads : Holds(u, c)
    BY <2>1 DEF TalkOwned
  <2>3. CASE u = t
    <3>1. Keeps(r, t) /\ threads'[t] = r
      BY <1>1, <2>2, <2>3 DEF Becomes, ThreadsType
    <3> QED BY <2>1, <2>2, <2>3, <3>1
  <2>4. CASE u # t
    <3>1. threads'[u] = threads[u]
      BY <1>1, <2>4 DEF Becomes, ThreadsType
    <3> QED BY <2>1, <2>2, <3>1
  <2> QED BY <2>3, <2>4
<1>2. ASSUME threads' = threads,
             \A c \in Channels : Lost(c) \/ Same(c)
      PROVE  TalkOwned'
  BY <1>2 DEF TalkOwned
<1>3. ASSUME talk' = talk, abandoned' = abandoned
      PROVE  \A c \in Channels : Lost(c) \/ Same(c)
  BY <1>3
<1>4. ASSUME NEW c \in Channels, NEW new \in [Channels -> SomeHandle],
             new = [talk EXCEPT ![c] = NoHandle] \/ new = talk, SetTalk(new, {})
      PROVE  \A d \in Channels : Lost(d) \/ Same(d)
  BY <1>4 DEF SetTalk, TalkType
<1>5. ASSUME NEW forgotten, SetTalk(talk, forgotten)
      PROVE  /\ \A d \in Channels : Lost(d) \/ Same(d)
             /\ \A d \in forgotten : Lost(d)
  BY <1>5 DEF SetTalk, TalkType
<1>6. ASSUME NEW t \in Threads, NEW h \in Handles, Accept(t, h) PROVE TalkOwned'
  <2>1. threads[t].place = "none" /\ talk' = talk /\ abandoned' = abandoned
    BY <1>6, Zenon DEF Accept
  <2>2. Becomes(t, [NoThread EXCEPT !.place = "start", !.own = h])
    BY <1>6, MovesOf, Zenon
  <2> QED BY <1>1, <1>3, <2>1, <2>2
<1>7. ASSUME NEW t \in Threads, ReadHandle(t) \/ Claim(t) \/ Refused(t) \/ CloseHandle(t)
      PROVE  TalkOwned'
  <2>1. threads[t].place \in {"start", "claim", "close"}
    BY <1>7, Zenon DEF ReadHandle, Claim, Refused, CloseHandle
  <2>2. talk' = talk /\ abandoned' = abandoned
    BY <1>7, Zenon DEF ReadHandle, Claim, Refused, CloseHandle
  <2>3. \E r : Becomes(t, r)
    BY <1>7, MovesOf, Zenon
  <2> QED BY <1>1, <1>3, <2>1, <2>2, <2>3
<1>8. ASSUME NEW t \in Threads,
             \/ \E ok \in BOOLEAN : Auth(t, ok)
             \/ \E c \in Channels : WakeCall(t, c)
             \/ WakeFailed(t) \/ TalkTest(t) \/ LeaveSession(t) \/ WipeRow(t)
      PROVE  TalkOwned'
  <2>1. talk' = talk /\ abandoned' = abandoned
    BY <1>8, Zenon DEF Auth, WakeCall, WakeFailed, TalkTest, LeaveSession, WipeRow
  <2>2. /\ \A p \in {"new", "in", "wipe", "scan"} :
             Keeps([threads[t] EXCEPT !.place = p], t)
        /\ \A c, p : p \in {"waking", "talking"} =>
             Keeps([threads[t] EXCEPT !.place = p, !.want = c], t)
        /\ Keeps([threads[t] EXCEPT !.place = "in", !.want = NoChannel], t)
    BY DEF ThreadsType, ThreadRecord
  <2> HIDE DEF Keeps
  <2>3. \E r : Becomes(t, r) /\ Keeps(r, t)
    BY <1>8, <2>2, MovesOf, Zenon
  <2> QED BY <1>1, <1>3, <2>1, <2>3, Zenon
<1>9. ASSUME NEW t \in Threads, WokenUp(t) PROVE TalkOwned'
  <2> DEFINE before == threads[t].video
             r == [threads[t] EXCEPT !.place = "in", !.want = NoChannel,
                                     !.video = threads[t].want]
  <2>1. /\ r.handle = threads[t].handle /\ r.video = threads[t].want
        /\ r.place = "in"
    BY DEF ThreadsType, ThreadRecord
  <2>2. Becomes(t, r)
    BY <1>9, MovesOf, Zenon
  <2> HIDE DEF r
  <2>3. PICK forgotten :
          /\ SetTalk(talk, forgotten)
          /\ (before \in Channels \ {threads[t].want} /\ talk[before] = threads[t].handle)
               => before \in forgotten
    BY <1>9 DEF WokenUp
  <2>4. \A c \in Channels : Holds(t, c) => Lost(c) \/ Keeps(r, t)
    <3> SUFFICES ASSUME NEW c \in Channels, Holds(t, c), c # threads[t].want
                 PROVE  Lost(c)
      BY <2>1
    <3> HIDE DEF Lost, Same
    <3> QED BY <1>5, <2>3
  <2> HIDE DEF Lost, Same, Keeps, Holds
  <2> QED BY <1>1, <1>5, <2>2, <2>3, <2>4, Zenon
<1>10. ASSUME NEW t \in Threads, GoToSleep(t) \/ TalkClose(t) PROVE TalkOwned'
  <2>1. threads' = threads
    BY <1>10, MovesOf, Zenon
  <2>2. threads[t].place = "in" /\ RowOf(t).channel # NoChannel
    BY <1>10, Zenon DEF GoToSleep, TalkClose
  <2>3. RowOf(t).channel \in Channels
    BY <2>2 DEF RowHeld, Served, RowOf, TableType, RowRecord, SomeChannel
  <2>4. \E new \in [Channels -> SomeHandle] :
          /\ new = [talk EXCEPT ![RowOf(t).channel] = NoHandle] \/ new = talk
          /\ SetTalk(new, {})
    <3>1. /\ talk \in [Channels -> SomeHandle]
          /\ [talk EXCEPT ![RowOf(t).channel] = NoHandle] \in [Channels -> SomeHandle]
      BY DEF TalkType, SomeHandle
    <3> QED BY <1>10, <3>1, Zenon DEF GoToSleep, TalkClose
  <2> HIDE DEF Lost, Same
  <2> QED BY <1>2, <1>4, <2>1, <2>3, <2>4, Zenon
<1>11. ASSUME NEW t \in Threads, TalkOpen(t) PROVE TalkOwned'
  <2> DEFINE c == threads[t].want
             r == [threads[t] EXCEPT !.place = "in", !.want = NoChannel]
  <2>1. threads[t].place = "talking" /\ Becomes(t, r)
    BY <1>11, MovesOf, Zenon DEF TalkOpen
  <2>2. c \in Channels /\ threads[t].video = c
    BY <2>1, Zenon DEF RowHeld, Served
  <2>3. /\ talk' = [talk EXCEPT ![c] = threads[t].handle]
        /\ abandoned' = abandoned \ {c}
    BY <1>11, Zenon DEF TalkOpen
  <2>5. r.handle = threads[t].handle /\ r.video = threads[t].video /\ r.place = "in"
    BY DEF ThreadsType, ThreadRecord
  <2>6. \A u \in Threads :
          /\ threads'[u].handle = threads[u].handle
          /\ threads'[u].video = threads[u].video
          /\ threads[u].place \notin {"none", "start", "claim", "close"} =>
               threads'[u].place \notin {"none", "start", "claim", "close"}
    <3> HIDE DEF r
    <3> QED BY <2>1, <2>5 DEF Becomes, ThreadsType
  <2>7. threads'[t].place \notin {"none", "start", "claim", "close"}
    BY <2>1, <2>6
  <2> HIDE DEF c
  <2>4. ASSUME NEW d \in Channels \ abandoned', talk'[d] # NoHandle
        PROVE  \E u \in Threads :
                 /\ threads'[u].handle = talk'[d] /\ threads'[u].video = d
                 /\ threads'[u].place \notin {"none", "start", "claim", "close"}
    <3>1. CASE d = c
      <4>1. talk'[d] = threads[t].handle
        BY <2>2, <2>3, <3>1 DEF TalkType
      <4> QED BY <2>2, <2>6, <2>7, <3>1, <4>1
    <3>2. CASE d # c
      <4>1. talk'[d] = talk[d] /\ d \in Channels \ abandoned
        BY <2>2, <2>3, <2>4, <3>2 DEF TalkType
      <4>2. PICK u \in Threads :
              /\ threads[u].handle = talk[d] /\ threads[u].video = d
              /\ threads[u].place \notin {"none", "start", "claim", "close"}
        BY <2>4, <4>1, Zenon DEF TalkOwned
      <4> QED BY <2>6, <4>1, <4>2, Zenon
    <3> QED BY <3>1, <3>2
  <2> QED BY <2>4, Zenon DEF TalkOwned
<1>12. ASSUME NEW t \in Threads, ScanOthers(t) PROVE TalkOwned'
  <2> DEFINE c == threads[t].video
  <2>1. PICK forgotten :
          /\ SetTalk(talk, forgotten)
          /\ \/ Becomes(t, [threads[t] EXCEPT !.place = "release"])
             \/ /\ Becomes(t, [threads[t] EXCEPT !.place = "close"])
                /\ c # NoChannel /\ talk[c] = threads[t].handle => c \in forgotten
    <3>1. CASE c # NoChannel /\ ~Watched(c)
      BY <1>12, <3>1 DEF ScanOthers, Becomes, ThreadsType
    <3>2. CASE ~(c # NoChannel /\ ~Watched(c))
      BY <1>12, <3>2 DEF ScanOthers, Becomes, ThreadsType
    <3> QED BY <3>1, <3>2, Zenon
  <2>2. Keeps([threads[t] EXCEPT !.place = "release"], t)
    BY DEF ThreadsType, ThreadRecord
  <2>3. CASE Becomes(t, [threads[t] EXCEPT !.place = "release"])
    <3> HIDE DEF Lost, Same, Keeps, Holds
    <3> QED BY <1>1, <1>5, <2>1, <2>2, <2>3, Zenon
  <2>4. CASE Becomes(t, [threads[t] EXCEPT !.place = "close"])
             /\ (c # NoChannel /\ talk[c] = threads[t].handle => c \in forgotten)
    <3>1. \A d \in Channels : Holds(t, d) => d \in forgotten
      BY <2>4, SessionsAssumption
    <3> HIDE DEF Lost, Same, Keeps, Holds
    <3> QED BY <1>1, <1>5, <2>1, <2>4, <3>1, Zenon
  <2> QED BY <2>1, <2>3, <2>4, Zenon
<1>13. ASSUME NEW t \in Threads, ReleaseTalk(t) PROVE TalkOwned'
  <2> DEFINE c == threads[t].video
  <2>1. Becomes(t, [threads[t] EXCEPT !.place = "close"])
    BY <1>13, MovesOf, Zenon
  <2>2. SetTalk(IF talk[c] = threads[t].handle
                THEN [talk EXCEPT ![c] = NoHandle] ELSE talk, {})
    BY <1>13, Zenon DEF ReleaseTalk
  <2>3. \A d \in Channels : Lost(d) \/ Same(d)
    BY <2>2 DEF SetTalk, TalkType
  <2>4. \A d \in Channels : Holds(t, d) => Lost(d)
    BY <2>2 DEF SetTalk, TalkType
  <2> HIDE DEF Lost, Same, Keeps, Holds
  <2> QED BY <1>1, <2>1, <2>3, <2>4, Zenon
<1>14. ASSUME NEW c \in Channels,
              ResetCamera(c) \/ \E good \in BOOLEAN : Received(c, good)
       PROVE  TalkOwned'
  <2>1. threads' = threads
    BY <1>14, Zenon DEF ResetCamera, Received
  <2>2. \E new \in [Channels -> SomeHandle] :
          /\ new = [talk EXCEPT ![c] = NoHandle] \/ new = talk
          /\ SetTalk(new, {})
    <3>1. /\ talk \in [Channels -> SomeHandle]
          /\ [talk EXCEPT ![c] = NoHandle] \in [Channels -> SomeHandle]
      BY DEF TalkType, SomeHandle
    <3> QED BY <1>14, <3>1, Zenon DEF ResetCamera, Received
  <2> HIDE DEF Lost, Same
  <2> QED BY <1>2, <1>4, <2>1, <2>2, Zenon
<1>15. CASE threads' = threads /\ talk' = talk /\ abandoned' = abandoned
  BY <1>2, <1>3, <1>15, Zenon
<1>16. ASSUME NEW c \in Channels, DropWatchers(c) \/ Listen(c) PROVE TalkOwned'
  BY <1>15, <1>16, Zenon DEF DropWatchers, Listen
<1>17. CASE UNCHANGED sessionsVars
  BY <1>15, <1>17, Zenon DEF sessionsVars
<1> QED
  BY <1>6, <1>7, <1>8, <1>9, <1>10, <1>11, <1>12, <1>13, <1>14, <1>16, <1>17, Zenon
     DEF SessionsNext, SessionThread
-----------------------------------------------------------------------------
(* Once a thread has read another one's handle, that is remembered.         *)
LEMMA SwappedStays ==
  ASSUME swapped, [SessionsNext]_sessionsVars
  PROVE  swapped'
  BY Zenon
     DEF SessionsNext, SessionThread, sessionsVars, Accept, ReadHandle, Claim, Refused,
         Auth, WakeCall, WakeFailed, WokenUp, GoToSleep, TalkTest, TalkOpen, TalkClose,
         LeaveSession, WipeRow, ScanOthers, ReleaseTalk, CloseHandle, DropWatchers,
         ResetCamera, Listen, Received

LEMMA SessionsInvariant == SessionsSpec => []SessionsInv
<1>1. SessionsInit => SessionsInv
  <2> SUFFICES ASSUME SessionsInit PROVE SessionsInv
    OBVIOUS
  <2>1. \A t \in Threads : threads[t].place = "none"
    BY DEF SessionsInit, NoThread
  <2>2. \A c \in Channels : talk[c] = NoHandle
    BY DEF SessionsInit
  <2> QED BY <2>1, <2>2, SessionsTypeInit
          DEF SessionsInv, Agreement, HandleOwned, RowHeld, Served, TalkOwned
<1>2. SessionsInv /\ [SessionsNext]_sessionsVars => SessionsInv'
  BY SwappedStays, SessionsTypeKept, HandleOwnedKept, RowHeldKept, TalkOwnedKept,
     Zenon DEF SessionsInv, Agreement
<1> QED BY <1>1, <1>2, PTL DEF SessionsSpec

(* A session that is served has a row of its own under its own handle, and  *)
(* a talk channel that is taken is held by a session that is there or was   *)
(* left behind in one of the two ways the code has: for any number of       *)
(* sessions, handles given out again and cameras, until the listener writes *)
(* over the handle a new thread has not read.                               *)
THEOREM SessionTablesAgree == SessionsSpec => []TablesAgree
<1>1. SessionsInv => TablesAgree
  BY RowsOwnedFollows, Zenon DEF SessionsInv, Agreement, TablesAgree
<1> QED BY <1>1, SessionsInvariant, PTL
-----------------------------------------------------------------------------
(* The link. *)

\* The fields of change, and what netchange_pth's step makes of one of them.
ChangeRecord ==
  [at : {"start", "loop", "sleep", "dhcp"}, save : NetTypes, flag : BOOLEAN,
   age : 0 .. Settle]

LinkFlags(v) == internetcheck = v /\ nas_net_check = v

\* The last thing the driver has said, heard or not.
LastSaid == IF posts = <<>> THEN change.save ELSE posts[Len(posts)]

(* Once it was asked and has answered, the driver has told every move.     *)
Told == change.at # "start" /\ ~asked => LastSaid = cable

(* What has settled is what was heard last, and the flags go by it; they   *)
(* follow a cable plugged in only when udhcpc has returned.                *)
Settled ==
  /\ change.at = "start" => change.save = "none" /\ ~change.flag
  /\ change.at = "dhcp" => change.save = "in" /\ ~change.flag
  /\ change.flag => change.save # "none"
  /\ ~change.flag =>
       /\ nettype = change.save
       /\ change.save # "in" => LinkFlags(FALSE)
       /\ change.save = "in" /\ change.at # "dhcp" => LinkFlags(TRUE)

NetInv == NetLinkType /\ Told /\ Settled

LEMMA NetTypeFacts ==
  ASSUME NetLinkType
  PROVE  /\ change \in ChangeRecord /\ posts \in Seq({"out", "in"})
         /\ cable \in {"out", "in"} /\ server \in BOOLEAN /\ asked \in BOOLEAN
         /\ nettype \in NetTypes
         /\ internetcheck \in BOOLEAN /\ nas_net_check \in BOOLEAN
         /\ probe \in {"turn", "ask", "yes", "no"} /\ router_link \in {"OK", "FAILD"}
  BY DEF NetLinkType, ChangeRecord

(* What is said last when one thing more is said.                          *)
LEMMA SaysLast ==
  ASSUME NetLinkType, NEW m \in {"out", "in"}, posts' = Append(posts, m)
  PROVE  posts' \in Seq({"out", "in"}) /\ LastSaid' = m
<1>1. /\ posts' \in Seq({"out", "in"}) /\ posts' # <<>>
      /\ Len(posts') = Len(posts) + 1 /\ posts'[Len(posts) + 1] = m
  BY AppendProperties, NetTypeFacts
<1> QED BY <1>1 DEF LastSaid

LEMMA CableStep ==
  ASSUME NetInv, CableMoves \/ DriverAnswers PROVE NetInv'
<1>1. NetLinkType
  BY DEF NetInv
<1>2. cable' \in {"out", "in"} /\ posts' = Append(posts, cable')
      /\ UNCHANGED <<server, change, nettype, internetcheck, nas_net_check, probe,
                     router_link>>
      /\ asked' \in BOOLEAN
  BY <1>1, NetTypeFacts DEF CableMoves, DriverAnswers, checks, world
<1>3. posts' \in Seq({"out", "in"}) /\ LastSaid' = cable'
  BY <1>1, <1>2, SaysLast
<1>4. NetLinkType'
  BY <1>1, <1>2, <1>3 DEF NetLinkType
<1>5. Told' /\ Settled'
  BY <1>2, <1>3 DEF NetInv, Told, Settled, LinkFlags
<1> QED BY <1>4, <1>5 DEF NetInv

LEMMA HearStep == ASSUME NetInv, NetHears PROVE NetInv'
<1>1. NetLinkType
  BY DEF NetInv
<1>2. /\ change.at = "loop" /\ posts # <<>> /\ posts' = Tail(posts)
      /\ UNCHANGED <<cable, server, asked, nettype, internetcheck, probe, router_link>>
      /\ nas_net_check' = (nas_net_check /\ Head(posts) # "out")
      /\ change' = IF Moved(Head(posts))
                     THEN [change EXCEPT !.save = Head(posts), !.flag = TRUE, !.age = 0]
                     ELSE change
  BY DEF NetHears, world
<1>3. PICK m \in {"out", "in"} : m = Head(posts)
  BY <1>1, <1>2, NetTypeFacts, HeadTailProperties
<1>4. /\ posts' \in Seq({"out", "in"}) /\ Len(posts') = Len(posts) - 1
      /\ \A i \in 1 .. Len(posts') : posts'[i] = posts[i + 1]
      /\ m = posts[1] /\ Len(posts) \in Nat /\ Len(posts) > 0
  BY <1>1, <1>2, <1>3, NetTypeFacts, HeadTailProperties
<1>5. /\ change' \in ChangeRecord /\ change'.at = "loop" /\ change'.save = m
      /\ \/ change.save # m /\ change'.flag
         \/ change.save = m /\ change' = change
  <2>1. change \in ChangeRecord
    BY <1>1, NetTypeFacts
  <2>2. CASE change.save # m
    <3>1. change' = [change EXCEPT !.save = m, !.flag = TRUE, !.age = 0]
      BY <2>2, <1>2, <1>3 DEF Moved
    <3>2. change' = [at |-> change.at, save |-> m, flag |-> TRUE, age |-> 0]
      BY <2>1, <3>1 DEF ChangeRecord
    <3>3. m \in NetTypes /\ 0 \in 0 .. Settle /\ change.at = "loop"
      BY <1>2, NetAssumption DEF NetTypes
    <3> QED BY <2>2, <3>2, <3>3 DEF ChangeRecord
  <2>3. CASE change.save = m
    <3>1. change' = change
      BY <2>3, <1>2, <1>3 DEF Moved
    <3> QED BY <2>1, <2>3, <3>1, <1>2
  <2> QED BY <2>2, <2>3
<1>6. nas_net_check' \in BOOLEAN
  BY <1>2
<1>7. NetLinkType'
  BY <1>1, <1>2, <1>4, <1>5, <1>6 DEF NetLinkType, ChangeRecord
<1>8. LastSaid' = LastSaid
  <2>1. LastSaid = posts[Len(posts)]
    BY <1>2 DEF LastSaid
  <2>2. CASE posts' = <<>>
    <3>1. Len(posts) = 1
      BY <2>2, <1>4
    <3> QED BY <2>1, <2>2, <3>1, <1>4, <1>5 DEF LastSaid
  <2>3. CASE posts' # <<>>
    <3>1. Len(posts') \in 1 .. Len(posts')
      <4>1. Len(posts') # 0
        BY <2>3, <1>4, EmptySeq
      <4> QED BY <4>1, <1>4
    <3>2. posts'[Len(posts')] = posts[Len(posts') + 1] /\ Len(posts') + 1 = Len(posts)
      BY <3>1, <1>4
    <3> QED BY <2>1, <2>3, <3>2 DEF LastSaid
  <2> QED BY <2>2, <2>3
<1>9. Told'
  BY <1>2, <1>8 DEF NetInv, Told
<1>10. Settled'
  <2>1. CASE change'.flag
    BY <2>1, <1>5 DEF Settled
  <2>2. CASE ~change'.flag
    <3>1. change.save = m /\ change' = change
      BY <2>2, <1>5
    <3>2. m = "out" => nas_net_check' = FALSE
      BY <1>2, <1>3
    <3>3. m = "in" => nas_net_check' = nas_net_check
      BY <1>1, <1>2, <1>3, NetTypeFacts
    <3> QED BY <2>2, <3>1, <3>2, <3>3, <1>2, <1>5 DEF NetInv, Settled, LinkFlags
  <2> QED BY <2>1, <2>2
<1> QED BY <1>7, <1>9, <1>10 DEF NetInv

LEMMA SecondStep == ASSUME NetInv, NetSecond PROVE NetInv'
<1> DEFINE age == IF change.age < Settle THEN change.age + 1 ELSE change.age
           done == change.flag /\ age >= Settle
<1>1. NetLinkType /\ change \in ChangeRecord
  BY NetTypeFacts DEF NetInv
<1>2. /\ change.at = "sleep"
      /\ change' = [change EXCEPT
              !.at = IF done /\ change.save = "in" THEN "dhcp" ELSE "loop",
              !.flag = change.flag /\ ~done, !.age = age]
      /\ nettype' = (IF done THEN change.save ELSE nettype)
      /\ internetcheck' = (internetcheck /\ ~(done /\ change.save = "out"))
      /\ nas_net_check' = (nas_net_check /\ ~(done /\ change.save = "out"))
      /\ UNCHANGED <<cable, server, posts, asked, probe, router_link>>
  BY DEF NetSecond, world
<1>3. age \in 0 .. Settle
  BY <1>1, NetAssumption DEF ChangeRecord
<1>4. done \in BOOLEAN
  OBVIOUS
<1> HIDE DEF age, done
<1>5. /\ change' \in ChangeRecord /\ change'.save = change.save
      /\ change'.at = (IF done /\ change.save = "in" THEN "dhcp" ELSE "loop")
      /\ change'.flag = (change.flag /\ ~done)
  BY <1>1, <1>2, <1>3, <1>4 DEF ChangeRecord
<1>6. nettype' \in NetTypes /\ internetcheck' \in BOOLEAN /\ nas_net_check' \in BOOLEAN
  BY <1>1, <1>2, NetTypeFacts DEF ChangeRecord
<1>7. NetLinkType'
  BY <1>1, <1>2, <1>5, <1>6 DEF NetLinkType, ChangeRecord
<1>8. Told'
  BY <1>2, <1>5 DEF NetInv, Told, LastSaid
<1>9. Settled'
  <2>1. CASE done
    <3>1. change.flag /\ change.save \in {"out", "in"}
      BY <2>1, <1>1 DEF done, NetInv, Settled, ChangeRecord, NetTypes
    <3>2. ~change'.flag /\ nettype' = change.save
      BY <2>1, <1>2, <1>5
    <3>3. change.save = "out" => change'.at = "loop" /\ LinkFlags(FALSE)'
      BY <2>1, <1>2, <1>5 DEF LinkFlags
    <3>4. change.save = "in" => change'.at = "dhcp"
      BY <2>1, <1>5
    <3> QED BY <3>1, <3>2, <3>3, <3>4, <1>5 DEF Settled
  <2>2. CASE ~done
    <3>1. /\ change'.at = "loop" /\ change'.flag = change.flag /\ nettype' = nettype
          /\ internetcheck' = internetcheck /\ nas_net_check' = nas_net_check
      BY <2>2, <1>1, <1>2, <1>5, NetTypeFacts DEF ChangeRecord
    <3> QED BY <3>1, <1>2, <1>5 DEF NetInv, Settled, LinkFlags
  <2> QED BY <2>1, <2>2, <1>4
<1> QED BY <1>7, <1>8, <1>9 DEF NetInv

(* The other steps of netchange_pth.                                       *)
LEMMA ChangeStep ==
  ASSUME NetInv, NetStart \/ NetNothing \/ NetLease PROVE NetInv'
<1>1. NetLinkType /\ change \in ChangeRecord
  BY NetTypeFacts DEF NetInv
<1>2. PICK place \in {"loop", "sleep"} : change' = [change EXCEPT !.at = place]
  BY DEF NetStart, NetNothing, NetLease
<1>3. /\ change' \in ChangeRecord /\ change'.at = place
      /\ change'.save = change.save /\ change'.flag = change.flag
  BY <1>1, <1>2 DEF ChangeRecord
<1>4. CASE NetStart
  <2>1. /\ change.at = "start" /\ posts' = <<>> /\ asked' = TRUE
        /\ UNCHANGED <<cable, server, nettype, internetcheck, nas_net_check, probe,
                       router_link>>
    BY <1>4 DEF NetStart, world, checks
  <2>2. posts' \in Seq({"out", "in"})
    BY <2>1
  <2>3. NetLinkType'
    BY <2>1, <2>2, <1>1, <1>3 DEF NetLinkType, ChangeRecord
  <2>4. Told' /\ Settled'
    BY <2>1, <1>3 DEF NetInv, Told, Settled, LinkFlags
  <2> QED BY <2>3, <2>4 DEF NetInv
<1>5. CASE NetNothing
  <2>1. /\ change.at = "loop" /\ posts = <<>>
        /\ UNCHANGED <<cable, server, posts, asked, nettype, internetcheck,
                       nas_net_check, probe, router_link>>
    BY <1>5 DEF NetNothing, world, checks
  <2>2. NetLinkType'
    BY <2>1, <1>1, <1>3 DEF NetLinkType, ChangeRecord
  <2>3. Told' /\ Settled'
    BY <2>1, <1>3 DEF NetInv, Told, Settled, LinkFlags, LastSaid
  <2> QED BY <2>2, <2>3 DEF NetInv
<1>6. CASE NetLease
  <2>1. /\ change.at = "dhcp" /\ internetcheck' = TRUE /\ nas_net_check' = TRUE
        /\ UNCHANGED <<cable, server, posts, asked, nettype, probe, router_link>>
    BY <1>6 DEF NetLease, world
  <2>2. NetLinkType'
    BY <2>1, <1>1, <1>3 DEF NetLinkType, ChangeRecord
  <2>3. Told'
    BY <2>1, <1>3 DEF NetInv, Told, LastSaid
  <2>4. Settled'
    BY <2>1, <1>3 DEF NetInv, Settled, LinkFlags
  <2> QED BY <2>2, <2>3, <2>4 DEF NetInv
<1> QED BY <1>4, <1>5, <1>6

\* The server and internetcheck_pth only change what nobody here reads.
LEMMA ProbeStep ==
  ASSUME NetInv, ServerMoves \/ Probe \/ UNCHANGED netVars PROVE NetInv'
<1>1. NetLinkType
  BY DEF NetInv
<1>2. /\ UNCHANGED <<cable, posts, asked, change, nettype, internetcheck,
                     nas_net_check>>
      /\ server' \in BOOLEAN /\ probe' \in {"turn", "ask", "yes", "no"}
      /\ router_link' \in {"OK", "FAILD"}
  BY <1>1, NetTypeFacts
     DEF ServerMoves, Probe, ProbeTurn, ProbeAnswered, ProbeStores, netVars, world,
         checks
<1>3. NetLinkType'
  BY <1>1, <1>2 DEF NetLinkType
<1>4. Told' /\ Settled'
  BY <1>2 DEF NetInv, Told, Settled, LinkFlags, LastSaid
<1> QED BY <1>3, <1>4 DEF NetInv

LEMMA NetInvInit == NetLinkInit => NetInv
<1> SUFFICES ASSUME NetLinkInit PROVE NetInv
  OBVIOUS
<1>1. /\ posts = <<>> /\ posts \in Seq({"out", "in"})
      /\ change = [at |-> "start", save |-> "none", flag |-> FALSE, age |-> 0]
      /\ 0 \in 0 .. Settle
  BY NetAssumption DEF NetLinkInit
<1>2. change \in ChangeRecord
  BY <1>1 DEF ChangeRecord, NetTypes
<1>3. NetLinkType
  BY <1>1, <1>2 DEF NetLinkInit, NetLinkType, ChangeRecord, NetTypes
<1>4. Told /\ Settled
  BY <1>1 DEF NetLinkInit, Told, Settled, LinkFlags
<1> QED BY <1>3, <1>4 DEF NetInv

LEMMA NetInvariant == NetLinkSpec => []NetInv
<1>1. NetInv /\ [NetLinkNext]_netVars => NetInv'
  BY CableStep, HearStep, SecondStep, ChangeStep, ProbeStep
     DEF NetLinkNext, NetChange
<1> QED BY <1>1, NetInvInit, PTL DEF NetLinkSpec

(* The link's variables keep their types: the time without a change never  *)
(* passes the time it takes to settle.                                     *)
THEOREM NetLinkTypeCorrect == NetLinkSpec => []NetLinkType
<1>1. NetInv => NetLinkType
  BY DEF NetInv
<1> QED BY <1>1, NetInvariant, PTL

(* When nothing is left to hear or to settle, what netchange_pth goes by   *)
(* and the two flags it keeps are the cable as it is, for any time it      *)
(* takes to settle and however many moves wait to be heard.                *)
THEOREM LinkIsKnown == NetLinkSpec => []LinkKnown
<1>1. ASSUME NetInv PROVE LinkKnown
  <2>1. SUFFICES ASSUME change.at \in {"loop", "sleep"}, posts = <<>>, ~asked
                 PROVE  /\ change.save = cable
                        /\ ~change.flag => /\ nettype = cable
                                           /\ internetcheck = (cable = "in")
                                           /\ nas_net_check = (cable = "in")
    BY DEF LinkKnown
  <2>2. change.save = cable
    BY <1>1, <2>1 DEF NetInv, Told, LastSaid
  <2>3. ASSUME ~change.flag
        PROVE  /\ nettype = cable /\ internetcheck = (cable = "in")
               /\ nas_net_check = (cable = "in")
    <3>1. /\ nettype = cable
          /\ cable # "in" => LinkFlags(FALSE)
          /\ cable = "in" => LinkFlags(TRUE)
      BY <1>1, <2>1, <2>2, <2>3 DEF NetInv, Settled
    <3> QED BY <3>1 DEF LinkFlags
  <2> QED BY <2>2, <2>3
<1>2. NetInv => LinkKnown
  BY <1>1
<1> QED BY <1>2, NetInvariant, PTL
=============================================================================
