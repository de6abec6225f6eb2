------------------------------ MODULE Pairing ------------------------------
(***************************************************************************)
(* Pairing a camera with a channel of the gateway.                         *)
(*                                                                         *)
(* An app session (p2pserver.c) or the SYNC key (buttonmanage.c) picks a   *)
(* camera from the search list and calls VAVAHAL_PairCamera, which takes a *)
(* channel and starts a thread (camerapair.c).  The thread invites the     *)
(* camera by radio; the camera joins the Wi-Fi, and the thread that serves *)
(* its connection (avserver.c) judges its request and, on its              *)
(* acknowledgement, enters it in the pairing table.  The inviting thread   *)
(* learns the outcome from the table and from g_pair_result.  Meanwhile    *)
(* the app may remove a camera, and the cloud synchronisation              *)
(* (serversync.c) one its account no longer lists.                         *)
(*                                                                         *)
(* mutex_pair_lock covers the choice of a channel, one step here, and a    *)
(* synchronisation pass, whose removals are those of the app, who takes no *)
(* lock; so it is not modelled.  g_pairmode, g_keyparing, g_pair_result    *)
(* and the table are read and written by all these threads without it.     *)
(*                                                                         *)
(* A camera is one value here: its serial number (id), radio address       *)
(* (addr) and MAC go together.  id and addr of a channel are written       *)
(* together and are its cam; its mac is written by another thread.         *)
(* The three radio exchanges of an invitation are one of three times the   *)
(* length, and g_pair_status, which the threads inviting for a channel     *)
(* share, is where they are ("asking", "answered").  Left out: the radio   *)
(* band index, names, sounds, LEDs and files, the settings a new camera    *)
(* gets, and a camera's second connection.                                 *)
(***************************************************************************)
EXTENDS FoundList

CONSTANTS Sessions,    \* app sessions that may ask for a pairing
          Key,         \* the SYNC key's thread
          Workers,     \* the pairing threads there is room for
          Channels,    \* 1 .. MAX_CHANNEL_NUM
          NoCam, AnyChannel  \* no camera; "any free channel" (-1)

Cameras == Announced

Callers == Sessions \cup {Key}

ASSUME PairingAssumption ==
  /\ Channels \subseteq Nat /\ AnyChannel \notin Channels
  /\ Key \notin Sessions
  /\ NoCam \notin Cameras
  /\ Capacity \in Nat

VARIABLES
  pair,          \* the table: nstat, lock, cam (id and addr), mac
  pairmode,      \* g_pairmode: a pairing is under way
  keyparing,     \* g_keyparing: the key was pressed
  pair_result,   \* g_pair_result: FALSE once a camera was refused
  caller,        \* sessions and key thread: place, camera, channel wanted
  worker,        \* pairing threads: place, channel and camera
  camera         \* cameras and the threads of their connections: place, and
                 \* the channel told or (tmppairchannel) accepted

tableVars == <<pair, pairmode, keyparing, pair_result>>
vars == <<found, tableVars, caller, worker, camera>>

Blank == [nstat |-> FALSE, lock |-> FALSE, cam |-> NoCam, mac |-> NoCam]
IdleCaller == [at |-> "idle", cam |-> NoCam, want |-> AnyChannel]
SearchCaller == [at |-> "search", cam |-> NoCam, want |-> AnyChannel]
FreeWorker == [at |-> "free", ch |-> AnyChannel, cam |-> NoCam]
IdleCamera == [at |-> "idle", ch |-> AnyChannel]
AddedCamera == [at |-> "adding", ch |-> AnyChannel]

TypeOK ==
  /\ ListTypeOK
  /\ pair \in [Channels -> [nstat : BOOLEAN, lock : BOOLEAN,
                            cam : Cameras \cup {NoCam},
                            mac : Cameras \cup {NoCam}]]
  /\ {pairmode, keyparing, pair_result} \subseteq BOOLEAN
  /\ caller \in [Callers ->
       {IdleCaller, SearchCaller}
         \cup [at : {"begin", "choose", "wait"}, cam : Cameras,
               want : Channels \cup {AnyChannel}]]
  /\ worker \in [Workers ->
       {FreeWorker} \cup [at : {"asking", "answered", "waiting", "late"},
                          ch : Channels, cam : Cameras]]
  /\ camera \in [Cameras ->
       {IdleCamera, AddedCamera}
         \cup [at : {"invited", "accepted"}, ch : Channels]]

\* A gateway that has no camera, after start-up.
Init ==
  /\ ListInit
  /\ pair = [ch \in Channels |-> Blank]
  /\ pairmode = FALSE /\ keyparing = FALSE /\ pair_result = FALSE
  /\ caller = [i \in Callers |-> IdleCaller]
  /\ worker = [w \in Workers |-> FreeWorker]
  /\ camera = [c \in Cameras |-> IdleCamera]

\* The lowest channel of S, as the loops over the table meet it.
IsFirst(ch, S) == ch \in S /\ \A i \in S : ch <= i

\* VAVAHAL_ClearPairLock
Unlocked(table) == [ch \in Channels |-> [table[ch] EXCEPT !.lock = FALSE]]

Unlock(ch) == pair' = [pair EXCEPT ![ch].lock = FALSE]
-----------------------------------------------------------------------------
(* Who asks.  A definition ending in _slip is a plausible mistake in the    *)
(* one after it; no action uses it.                                        *)

\* CAMERA_PAIR of an app: refused (PAIRNG) while a pairing is under way or if
\* the camera is not listed.
AppRequest(s, c, want) ==
  /\ caller[s].at = "idle"
  /\ ~pairmode /\ c \in found
  /\ caller' = [caller EXCEPT ![s] = [at |-> "begin", cam |-> c, want |-> want]]
  /\ UNCHANGED <<found, tableVars, worker, camera>>

\* The key is held for five seconds.
KeyPress ==
  /\ ~keyparing /\ ~pairmode
  /\ keyparing' = TRUE
  /\ UNCHANGED <<found, pair, pairmode, pair_result, caller,
                 worker, camera>>

\* keysync_pth notices.
KeySeen ==
  /\ caller[Key].at = "idle" /\ keyparing
  /\ caller' = [caller EXCEPT ![Key] = SearchCaller]
  /\ UNCHANGED <<found, tableVars, worker, camera>>

\* It looks for 60 seconds.  The one camera listed is paired, if the flag is
\* still up; several need the app.
KeySearch ==
  /\ caller[Key].at = "search"
  /\ \/ \E c \in found :
          /\ found = {c}
          /\ caller' = [caller EXCEPT ![Key] =
                          IF keyparing
                          THEN [at |-> "begin", cam |-> c, want |-> AnyChannel]
                          ELSE IdleCaller]
          /\ UNCHANGED keyparing
     \/ /\ Cardinality(found) > 1
        /\ caller' = [caller EXCEPT ![Key] = IdleCaller]
        /\ keyparing' = FALSE
  /\ UNCHANGED <<found, pair, pairmode, pair_result, worker,
                 camera>>

KeyTimeout_slip ==
  /\ caller[Key].at \in {"search", "wait"}
  /\ caller' = [caller EXCEPT ![Key] = IdleCaller]
  /\ UNCHANGED <<found, tableVars, worker, camera>>

\* The minute is over, of the search or of the wait for the outcome.
KeyTimeout ==
  /\ caller[Key].at \in {"search", "wait"}
  /\ caller' = [caller EXCEPT ![Key] = IdleCaller]
  /\ keyparing' = FALSE
  /\ UNCHANGED <<found, pair, pairmode, pair_result, worker,
                 camera>>

\* The flag is down: the pairing ended.
KeyDone ==
  /\ caller[Key].at = "wait" /\ ~keyparing
  /\ caller' = [caller EXCEPT ![Key] = IdleCaller]
  /\ UNCHANGED <<found, tableVars, worker, camera>>
-----------------------------------------------------------------------------
(* VAVAHAL_PairCamera.                                                     *)

\* Up to the mutex: pairing mode, and every lock in the table is cleared.
Begin(i) ==
  /\ caller[i].at = "begin"
  /\ pairmode' = TRUE
  /\ pair' = Unlocked(pair)
  /\ caller' = [caller EXCEPT ![i].at = "choose"]
  /\ UNCHANGED <<found, keyparing, pair_result, worker,
                 camera>>

\* The channel a paired camera has, the first free one or the one wanted.
Chosen(ch, c, want) ==
  LET own == {j \in Channels : pair[j].nstat /\ pair[j].cam = c}
      free == {j \in Channels : ~pair[j].nstat /\ ~pair[j].lock}
  IN IF own # {} THEN IsFirst(ch, own)
     ELSE IF want = AnyChannel THEN IsFirst(ch, free)
     ELSE ch = want /\ ch \in free

\* The key's thread waits for the outcome; a session goes on.
Returned(i, started) ==
  /\ caller' = [caller EXCEPT ![i] = IF i = Key /\ started
                                     THEN [@ EXCEPT !.at = "wait"]
                                     ELSE IdleCaller]
  /\ keyparing' = (keyparing /\ (i # Key \/ started))

\* g_pair_status[ch] changes for the threads that invite for ch.
Marked(ch, old, new) ==
  [w \in Workers |-> IF worker[w].at = old /\ worker[w].ch = ch
                     THEN [worker[w] EXCEPT !.at = new] ELSE worker[w]]

\* The section under the mutex, when there is a channel and a thread for it,
\* and VAVAHAL_PairReq in that thread begins to invite the camera.
Start(i) ==
  /\ caller[i].at = "choose"
  /\ \E ch \in Channels, w \in Workers :
       /\ Chosen(ch, caller[i].cam, caller[i].want)
       /\ worker[w].at = "free"
       /\ pair' = [pair EXCEPT ![ch].lock = TRUE, ![ch].cam = caller[i].cam]
       /\ worker' = [Marked(ch, "answered", "asking") EXCEPT
                         ![w] = [at |-> "asking", ch |-> ch,
                                 cam |-> caller[i].cam]]
  /\ Returned(i, TRUE)
  /\ UNCHANGED <<found, pairmode, pair_result, camera>>

\* The same when there is none: no channel, or no thread, in which case the
\* channel chosen loses its camera, even one that is paired.
NotStarted(i) ==
  /\ caller[i].at = "choose"
  /\ \/ /\ ~\E ch \in Channels : Chosen(ch, caller[i].cam, caller[i].want)
        /\ UNCHANGED pair
     \/ \E ch \in Channels :
          /\ Chosen(ch, caller[i].cam, caller[i].want)
          /\ \A w \in Workers : worker[w].at # "free"
          /\ pair' = [pair EXCEPT ![ch].lock = FALSE, ![ch].cam = NoCam]
  /\ pairmode' = FALSE
  /\ Returned(i, FALSE)
  /\ UNCHANGED <<found, pair_result, worker, camera>>
-----------------------------------------------------------------------------
(* camerapair_pth.                                                         *)

\* The camera answered.
Answered(w) ==
  /\ worker[w].at = "answered"
  /\ worker' = [worker EXCEPT ![w].at = "waiting"]
  /\ pair_result' = TRUE
  /\ UNCHANGED <<found, pair, pairmode, keyparing, caller,
                 camera>>

Free(w) == worker' = [worker EXCEPT ![w] = FreeWorker]

\* It did not, or too late to be looked at.
GiveUp(w) ==
  /\ worker[w].at \in {"asking", "answered"}
  /\ Unlock(worker[w].ch)
  /\ keyparing' = FALSE /\ pairmode' = FALSE
  /\ Free(w)
  /\ UNCHANGED <<found, pair_result, caller, camera>>

\* The outcome is in the table, or a camera has been refused.
Outcome(w) ==
  /\ worker[w].at = "waiting"
  /\ pair[worker[w].ch].nstat \/ ~pair_result
  /\ Free(w)
  /\ UNCHANGED <<found, tableVars, caller, camera>>

WaitExpires_slip(w) ==
  /\ worker[w].at = "waiting"
  /\ pairmode
  /\ pairmode' = FALSE
  /\ worker' = [worker EXCEPT ![w].at = "late"]
  /\ UNCHANGED <<found, pair, keyparing, pair_result, caller,
                 camera>>

\* A minute is over.  Pairing mode ends, and a sound is played to its end.
WaitExpires(w) ==
  /\ worker[w].at = "waiting"
  /\ pairmode' = FALSE
  /\ worker' = [worker EXCEPT ![w].at = "late"]
  /\ UNCHANGED <<found, pair, keyparing, pair_result, caller,
                 camera>>

\* Then the channel and the key are released.
WaitExpired(w) ==
  /\ worker[w].at = "late"
  /\ Unlock(worker[w].ch)
  /\ keyparing' = FALSE /\ pair_result' = FALSE
  /\ Free(w)
  /\ UNCHANGED <<found, pairmode, caller, camera>>
-----------------------------------------------------------------------------
(* The camera.                                                             *)

\* It hears an invitation.
Invited(c) ==
  /\ camera[c].at # "adding"
  /\ \E w \in Workers :
       /\ worker[w].at \in {"asking", "answered"} /\ worker[w].cam = c
       /\ camera' = [camera EXCEPT ![c] = [at |-> "invited", ch |-> worker[w].ch]]
  /\ UNCHANGED <<found, tableVars, caller, worker>>

\* rfserver_pth, CC1310_PAIRREQ: its answer counts for the first channel with
\* its address.  It may answer late, more than once, or not be heard.
PairAnswer(c) ==
  /\ camera[c].at # "idle"
  /\ \E ch \in Channels :
       /\ IsFirst(ch, {j \in Channels : pair[j].cam = c})
       /\ worker' = Marked(ch, "asking", "answered")
  /\ UNCHANGED <<found, tableVars, caller, camera>>

\* It gives up or loses its connection, whose thread ends.
CameraLeaves(c) ==
  /\ camera[c].at \in {"invited", "accepted"}
  /\ camera' = [camera EXCEPT ![c] = IdleCamera]
  /\ UNCHANGED <<found, tableVars, caller, worker>>

\* It announces itself, or leaves the list.
ListChanges ==
  /\ \E c \in Cameras : Hear(c) \/ Forget(c)
  /\ UNCHANGED <<tableVars, caller, worker, camera>>
-----------------------------------------------------------------------------
(* commonclient_pth, PAIR_REQ and PAIR_ACK.                                *)

Known_slip(c) == {j \in Channels : pair[j].nstat /\ pair[j].cam = c}

\* The channels a camera's MAC is entered for, paired or not.
Known(c) == {j \in Channels : pair[j].mac = c}

\* The camera asks for the channel it was told, and is accepted: for the one
\* it has already, or for that channel if it is free and locked for it.
Accept(c) ==
  /\ camera[c].at = "invited"
  /\ LET told == camera[c].ch
     IN \E ch \in Channels :
          /\ \/ IsFirst(ch, Known(c))
             \/ /\ Known(c) = {}
                /\ ch = told
                /\ ~pair[told].nstat /\ pair[told].lock /\ pair[told].cam = c
          /\ camera' = [camera EXCEPT ![c] = [at |-> "accepted", ch |-> ch]]
  /\ UNCHANGED <<found, tableVars, caller, worker>>

\* It is refused otherwise, or for its radio band, and whatever pairing is
\* under way with it.
Refuse(c) ==
  /\ camera[c].at = "invited"
  /\ Known(c) = {}
  /\ Unlock(camera[c].ch)
  /\ camera' = [camera EXCEPT ![c] = IdleCamera]
  /\ pair_result' = FALSE /\ keyparing' = FALSE /\ pairmode' = FALSE
  /\ UNCHANGED <<found, caller, worker>>

\* PAIR_ACK: the channel its request was accepted for is entered, without a
\* look at what has become of it.  Then the server is told.
PairAck(c) ==
  /\ camera[c].at = "accepted"
  /\ LET ch == camera[c].ch
     IN /\ pair' = [pair EXCEPT ![ch].mac = c, ![ch].nstat = TRUE,
                                ![ch].lock = FALSE]
        /\ found' = found \ {pair[ch].cam}
  /\ camera' = [camera EXCEPT ![c] = AddedCamera]
  /\ UNCHANGED <<pairmode, keyparing, pair_result, caller, worker>>

\* The server answered, whatever it said: every lock and flag is cleared.
Added(c) ==
  /\ camera[c].at = "adding"
  /\ pairmode' = FALSE /\ keyparing' = FALSE
  /\ pair' = Unlocked(pair)
  /\ camera' = [camera EXCEPT ![c] = IdleCamera]
  /\ UNCHANGED <<found, pair_result, caller, worker>>

\* The app removes a camera, taking no lock, or the synchronisation one that
\* the server's list lacks.  Removing all of them is this, one by one.
Remove(ch) ==
  /\ pair[ch] # Blank
  /\ pair' = [pair EXCEPT ![ch] = Blank]
  /\ UNCHANGED <<found, pairmode, keyparing, pair_result, caller,
                 worker, camera>>
-----------------------------------------------------------------------------
KeyThread == KeySeen \/ KeySearch \/ KeyTimeout \/ KeyDone

PairCamera(i) == Begin(i) \/ Start(i) \/ NotStarted(i)

WorkerStep(w) == \/ Answered(w) \/ GiveUp(w)
                 \/ Outcome(w) \/ WaitExpires(w) \/ WaitExpired(w)

ClientStep(c) == Accept(c) \/ Refuse(c) \/ PairAck(c) \/ Added(c)

Next ==
  \/ \E s \in Sessions, c \in Cameras, want \in Channels \cup {AnyChannel} :
       AppRequest(s, c, want)
  \/ KeyPress \/ KeyThread
  \/ \E i \in Callers : PairCamera(i)
  \/ \E w \in Workers : WorkerStep(w)
  \/ \E c \in Cameras : \/ Invited(c) \/ PairAnswer(c) \/ CameraLeaves(c)
                        \/ ClientStep(c)
  \/ ListChanges
  \/ \E ch \in Channels : Remove(ch)

Spec == Init /\ [][Next]_vars

\* Threads run on: their loops are bounded by counters, the calls to the
\* server return, and the mutex is free most of the time, as the
\* synchronisation sleeps between its passes.  The camera may do nothing.
FairSpec ==
  /\ Spec
  /\ WF_vars(KeyThread)
  /\ \A i \in Callers : WF_vars(PairCamera(i))
  /\ \A w \in Workers : WF_vars(WorkerStep(w))
  /\ \A c \in Cameras : WF_vars(Added(c))
-----------------------------------------------------------------------------
(* No camera is entered for two channels, whoever pairs it how often and   *)
(* whatever comes late: a camera with two channels could be removed from   *)
(* one of them only, and its connection would always be given to the first *)
(* (VAVAHAL_CheckPairWithMac).                                             *)
OneChannelEach ==
  \A i, j \in Channels : pair[i].mac = pair[j].mac /\ pair[i].mac # NoCam => i = j

(* An attempt, and the answer the app is waiting for, comes to an end even *)
(* if the camera never says a word.                                        *)
AttemptEnds == \A w \in Workers : worker[w].at # "free" ~> worker[w].at = "free"

(* Key pairing ends: the LEDs are reset and the key works again.           *)
KeyEnds == keyparing ~> ~keyparing

(* While the gateway refuses pairing requests with "another session is     *)
(* pairing" (basetype.h), some attempt is under way: a caller, a pairing   *)
(* thread or a camera that was accepted.                                   *)
PairmodeTrue ==
  pairmode => \/ \E i \in Callers : caller[i].at \in {"choose", "wait"}
              \/ \E w \in Workers : worker[w].at # "free"
              \/ \E c \in Cameras : camera[c].at # "idle"
=============================================================================
