------------------------------ MODULE Sessions ------------------------------
(***************************************************************************)
(* The table of app sessions (g_session), the listener that starts their   *)
(* threads and the talk channel of each camera (p2pserver.c, and           *)
(* audiorecv_pth of avserver.c).                                           *)
(*                                                                         *)
(* A connection of the peer-to-peer library is known by its handle, which  *)
(* the library gives out again once it was closed.  The listener hands     *)
(* each thread the address of its own variable sessionid.  A thread takes  *)
(* a row of the table under mutex_session_lock and gives it back without.  *)
(*                                                                         *)
(* What waking and sleeping do to a camera is in CameraUsers, what a       *)
(* session is sent in Streams; here a wake succeeds or fails, and takes    *)
(* its time.                                                               *)
(***************************************************************************)
EXTENDS Integers, FiniteSets

CONSTANTS Threads,       \* session threads at once
          Handles,       \* handles of the library
          NoHandle,      \* -1
          Rows,          \* rows of g_session, 0 .. MAX_SESSION_NUM - 1 (6)
          Channels,      \* cameras
          NoChannel      \* -1

ASSUME SessionsAssumption ==
  /\ Rows \subseteq Nat /\ 0 \in Rows
  /\ NoHandle \notin Handles /\ NoChannel \notin Channels

VARIABLES sessionid,     \* of p2pservers_pth
          open,          \* handles given out and not closed
          threads,       \* each session thread: its place, the handle it was
                         \* started for and the one it read, its row, its
                         \* videochannel, the channel it is waking or would
                         \* talk on
          table,         \* g_session: id, camerachannel, wakeupstatus
          talk,          \* g_camera_talk
          receiver,      \* audiorecv_pth of each channel: tmptalk, reading
          swapped,       \* history: a thread read another one's handle
          abandoned      \* history: channels whose talker went without a word

sessionsVars == <<sessionid, open, threads, table, talk, receiver, swapped,
                  abandoned>>

NoThread == [place |-> "none", own |-> NoHandle, handle |-> NoHandle, row |-> 0,
             video |-> NoChannel, want |-> NoChannel]

FreeRow == [id |-> NoHandle, channel |-> NoChannel, awake |-> FALSE]

SessionsType ==
  /\ sessionid \in Handles \cup {NoHandle}
  /\ open \subseteq Handles
  /\ threads \in [Threads ->
       [place : {"none", "start", "claim", "new", "in", "waking", "talking",
                 "wipe", "scan", "release", "close"},
        own : Handles \cup {NoHandle}, handle : Handles \cup {NoHandle},
        row : Rows, video : Channels \cup {NoChannel},
        want : Channels \cup {NoChannel}]]
  /\ table \in [Rows -> [id : Handles \cup {NoHandle}, awake : BOOLEAN,
                         channel : Channels \cup {NoChannel}]]
  /\ talk \in [Channels -> Handles \cup {NoHandle}]
  /\ receiver \in [Channels -> [tmptalk : Handles \cup {NoHandle}, reading : BOOLEAN]]
  /\ swapped \in BOOLEAN /\ abandoned \subseteq Channels

\* init_sessioninfo and VAVAHAL_InitCameraInfo
SessionsInit ==
  /\ sessionid = NoHandle /\ open = {}
  /\ threads = [t \in Threads |-> NoThread]
  /\ table = [i \in Rows |-> FreeRow]
  /\ talk = [c \in Channels |-> NoHandle]
  /\ receiver = [c \in Channels |-> [tmptalk |-> NoHandle, reading |-> FALSE]]
  /\ swapped = FALSE /\ abandoned = {}

RowOf(t) == table[threads[t].row]

\* The talk channels become new; one that is free is abandoned no more.
SetTalk(new, forgotten) ==
  /\ talk' = new
  /\ abandoned' = {c \in abandoned \cup forgotten : new[c] # NoHandle}
-----------------------------------------------------------------------------
(* A session begins. *)

\* PPCS_Listen returns a new connection, and a thread is made for it.
Accept(t, h) ==
  /\ threads[t].place = "none" /\ h \notin open
  /\ sessionid' = h
  /\ open' = open \cup {h}
  /\ threads' = [threads EXCEPT ![t] = [NoThread EXCEPT !.place = "start", !.own = h]]
  /\ UNCHANGED <<table, talk, receiver, swapped, abandoned>>

\* The thread reads the listener's variable ...
ReadHandle(t) ==
  /\ threads[t].place = "start"
  /\ threads' = [threads EXCEPT ![t].place = "claim", ![t].handle = sessionid]
  /\ swapped' = (swapped \/ sessionid # threads[t].own)
  /\ UNCHANGED <<sessionid, open, table, talk, receiver, abandoned>>

\* The rows a session with handle h may take.
Claimable(h) == {i \in Rows : table[i].id \in {NoHandle, h}}

\* ... and takes the first row that is free or has its handle.  The row's
\* wakeupstatus is left as it is.
Claim(t) ==
  /\ threads[t].place = "claim"
  /\ \E i \in Claimable(threads[t].handle) :
       /\ \A j \in Claimable(threads[t].handle) : i <= j
       /\ table' = [table EXCEPT ![i].id = threads[t].handle,
                                 ![i].channel = NoChannel]
       /\ threads' = [threads EXCEPT ![t].place = "new", ![t].row = i]
  /\ UNCHANGED <<sessionid, open, talk, receiver, swapped, abandoned>>

\* More sessions than rows.
Refused(t) ==
  /\ threads[t].place = "claim" /\ Claimable(threads[t].handle) = {}
  /\ open' = open \ {threads[t].handle}
  /\ threads' = [threads EXCEPT ![t] = NoThread]
  /\ UNCHANGED <<sessionid, table, talk, receiver, swapped, abandoned>>

\* SESSION_AUTH: no other command is taken before it has succeeded.
Auth(t, ok) ==
  /\ threads[t].place \in {"new", "in"}
  /\ threads' = [threads EXCEPT ![t].place = IF ok THEN "in" ELSE "new"]
  /\ UNCHANGED <<sessionid, open, table, talk, receiver, swapped, abandoned>>
-----------------------------------------------------------------------------
(* The commands that use the table. *)

\* WAKE_UP, for a camera that is paired, online, ready and charged: the call
\* goes out over the radio ...
WakeCall(t, c) ==
  /\ threads[t].place = "in" /\ RowOf(t).channel = NoChannel
  /\ threads' = [threads EXCEPT ![t].place = "waking", ![t].want = c]
  /\ UNCHANGED <<sessionid, open, table, talk, receiver, swapped, abandoned>>

\* ... and fails, or the session watches.
WakeFailed(t) ==
  /\ threads[t].place = "waking"
  /\ threads' = [threads EXCEPT ![t].place = "in", ![t].want = NoChannel]
  /\ UNCHANGED <<sessionid, open, table, talk, receiver, swapped, abandoned>>

WokenUp(t) ==
  LET c == threads[t].want
      before == threads[t].video
  IN
  /\ threads[t].place = "waking"
  /\ table' = [table EXCEPT ![threads[t].row].awake = TRUE,
                            ![threads[t].row].channel = c]
  /\ threads' = [threads EXCEPT ![t].place = "in", ![t].want = NoChannel,
                                ![t].video = c]
  /\ SetTalk(talk, IF before \in Channels \ {c} /\ talk[before] = threads[t].handle
                   THEN {before} ELSE {})
  /\ UNCHANGED <<sessionid, open, receiver, swapped>>

\* SLEEP: it watches no more, and talks no more.
GoToSleep(t) ==
  LET c == RowOf(t).channel IN
  /\ threads[t].place = "in" /\ c # NoChannel
  /\ table' = [table EXCEPT ![threads[t].row].channel = NoChannel,
                            ![threads[t].row].awake = FALSE]
  /\ SetTalk(IF talk[c] = threads[t].handle
             THEN [talk EXCEPT ![c] = NoHandle] ELSE talk, {})
  /\ UNCHANGED <<sessionid, open, threads, receiver, swapped>>

\* TALK_OPEN: nobody may be talking on the camera watched ...
TalkTest(t) ==
  LET c == RowOf(t).channel IN
  /\ threads[t].place = "in" /\ c # NoChannel /\ RowOf(t).awake
  /\ talk[c] = NoHandle
  /\ threads' = [threads EXCEPT ![t].place = "talking", ![t].want = c]
  /\ UNCHANGED <<sessionid, open, table, talk, receiver, swapped, abandoned>>

\* ... and the session takes the channel, without a lock: of two that have seen
\* it free both are told that they talk, and the last to write it does.
TalkOpen(t) ==
  LET c == threads[t].want IN
  /\ threads[t].place = "talking"
  /\ threads' = [threads EXCEPT ![t].place = "in", ![t].want = NoChannel]
  /\ talk' = [talk EXCEPT ![c] = threads[t].handle]
  /\ abandoned' = abandoned \ {c}
  /\ UNCHANGED <<sessionid, open, table, receiver, swapped>>

\* TALK_CLOSE
TalkClose(t) ==
  LET c == RowOf(t).channel IN
  /\ threads[t].place = "in" /\ c # NoChannel
  /\ talk[c] = threads[t].handle
  /\ SetTalk([talk EXCEPT ![c] = NoHandle], {})
  /\ UNCHANGED <<sessionid, open, threads, table, receiver, swapped>>
-----------------------------------------------------------------------------
(* A session ends: the connection is gone, or what came over it was not a   *)
(* command. *)

\* First the row is given back ...
LeaveSession(t) ==
  /\ threads[t].place \in {"new", "in"}
  /\ table' = [table EXCEPT ![threads[t].row].id = NoHandle]
  /\ threads' = [threads EXCEPT ![t].place = "wipe"]
  /\ UNCHANGED <<sessionid, open, talk, receiver, swapped, abandoned>>

WipeRow_slip(t) ==
  /\ threads[t].place = "wipe"
  /\ table' = [table EXCEPT ![threads[t].row] = FreeRow]
  /\ threads' = [threads EXCEPT ![t].place = "scan"]
  /\ UNCHANGED <<sessionid, open, talk, receiver, swapped, abandoned>>

\* ... then its other fields are cleared, whoever has it by now ...
WipeRow(t) ==
  /\ threads[t].place = "wipe"
  /\ table' = [table EXCEPT ![threads[t].row].channel = NoChannel,
                            ![threads[t].row].awake = FALSE]
  /\ threads' = [threads EXCEPT ![t].place = "scan"]
  /\ UNCHANGED <<sessionid, open, talk, receiver, swapped, abandoned>>

Watched(c) == \E i \in Rows : table[i].channel = c /\ table[i].awake

\* ... and if nobody else watches the camera it has woken last, the camera may
\* sleep and the talk channel is released.
ScanOthers(t) ==
  LET c == threads[t].video
      alone == c # NoChannel /\ ~Watched(c)
      talking == c # NoChannel /\ talk[c] = threads[t].handle
  IN
  /\ threads[t].place = "scan"
  /\ threads' = [threads EXCEPT ![t].place = IF alone THEN "release" ELSE "close"]
  /\ SetTalk(talk, IF talking /\ ~alone THEN {c} ELSE {})
  /\ UNCHANGED <<sessionid, open, table, receiver, swapped>>

ReleaseTalk(t) ==
  LET c == threads[t].video IN
  /\ threads[t].place = "release"
  /\ threads' = [threads EXCEPT ![t].place = "close"]
  /\ SetTalk(IF talk[c] = threads[t].handle
             THEN [talk EXCEPT ![c] = NoHandle] ELSE talk, {})
  /\ UNCHANGED <<sessionid, open, table, receiver, swapped>>

CloseHandle(t) ==
  /\ threads[t].place = "close"
  /\ open' = open \ {threads[t].handle}
  /\ threads' = [threads EXCEPT ![t] = NoThread]
  /\ UNCHANGED <<sessionid, table, talk, receiver, swapped, abandoned>>
-----------------------------------------------------------------------------
(* Other threads that write what a session owns. *)

\* heartcheck_pth: the camera was declared offline.
DropWatchers(c) ==
  /\ table' = [i \in Rows |->
       IF table[i].channel = c
       THEN [table[i] EXCEPT !.awake = FALSE, !.channel = NoChannel] ELSE table[i]]
  /\ UNCHANGED <<sessionid, open, threads, talk, receiver, swapped, abandoned>>

\* VAVAHAL_InitCameraInfo, when the camera is removed from its channel.
ResetCamera(c) ==
  /\ SetTalk([talk EXCEPT ![c] = NoHandle], {})
  /\ UNCHANGED <<sessionid, open, threads, table, receiver, swapped>>

\* audiorecv_pth: whom it listens to is looked up once, and again only when it
\* has seen the channel free.
Listen(c) ==
  /\ ~receiver[c].reading
  /\ receiver' = [receiver EXCEPT ![c] =
       IF talk[c] = NoHandle THEN [tmptalk |-> NoHandle, reading |-> FALSE]
       ELSE [tmptalk |-> IF @.tmptalk = NoHandle THEN talk[c] ELSE @.tmptalk,
             reading |-> TRUE]]
  /\ UNCHANGED <<sessionid, open, threads, table, talk, swapped, abandoned>>

\* A read that brings speech or fails changes nothing; one that brings something
\* else closes the talk channel, whoever has it by now.
Received(c, good) ==
  /\ receiver[c].reading
  /\ ~good => receiver[c].tmptalk \in open
  /\ receiver' = [receiver EXCEPT ![c].reading = FALSE]
  /\ SetTalk(IF good THEN talk ELSE [talk EXCEPT ![c] = NoHandle], {})
  /\ UNCHANGED <<sessionid, open, threads, table, swapped>>
-----------------------------------------------------------------------------
SessionThread(t) ==
  \/ ReadHandle(t) \/ Claim(t) \/ Refused(t)
  \/ \E ok \in BOOLEAN : Auth(t, ok)
  \/ \E c \in Channels : WakeCall(t, c)
  \/ WakeFailed(t) \/ WokenUp(t) \/ GoToSleep(t)
  \/ TalkTest(t) \/ TalkOpen(t) \/ TalkClose(t)
  \/ LeaveSession(t) \/ WipeRow(t) \/ ScanOthers(t) \/ ReleaseTalk(t)
  \/ CloseHandle(t)

SessionsNext ==
  \/ \E t \in Threads : SessionThread(t) \/ \E h \in Handles : Accept(t, h)
  \/ \E c \in Channels :
       \/ DropWatchers(c) \/ ResetCamera(c) \/ Listen(c)
       \/ \E good \in BOOLEAN : Received(c, good)

SessionsSpec == SessionsInit /\ [][SessionsNext]_sessionsVars
-----------------------------------------------------------------------------
(* Properties. *)

Served ==
  {t \in Threads : threads[t].place \in {"new", "in", "waking", "talking"}}

(* Every session served has a row of its own under its own handle, by which *)
(* its answers and its video find it.                                       *)
RowsOwned ==
  \A t \in Served :
    /\ RowOf(t).id = threads[t].handle
    /\ \A u \in Served : threads[u].row = threads[t].row => u = t

(* A camera's talk channel is held by a session that is served or ending,   *)
(* or was left behind by one that ended while another watched the camera,   *)
(* or that woke another camera after this one was declared offline.         *)
TalkOwned ==
  \A c \in Channels \ abandoned :
    talk[c] # NoHandle =>
      \E t \in Threads : /\ threads[t].handle = talk[c] /\ threads[t].video = c
                         /\ threads[t].place \notin {"none", "start", "claim", "close"}

(* What the tables say belongs to a session belongs to one that is there:   *)
(* through refused and reused handles, rows taken again before they were    *)
(* wiped, wakes that return late.  Nothing is promised once the listener    *)
(* has overwritten sessionid before a thread had read it: two threads then  *)
(* serve one connection in one row, and nobody the other connection.        *)
TablesAgree == swapped \/ (RowsOwned /\ TalkOwned)
=============================================================================
