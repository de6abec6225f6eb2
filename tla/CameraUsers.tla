---------------------------- MODULE CameraUsers ----------------------------
(***************************************************************************)
(* The threads that wake a camera and let it sleep again, around the       *)
(* procedures of CameraPower: app sessions (p2pserver.c), the client       *)
(* threads that serve the camera's command connection (avserver.c), the    *)
(* command queue's thread (quelist.c), the sleep manager and the heartbeat *)
(* checker (main.c), the alarm and cloud recorders (record.c), and the     *)
(* camera update (update.c).                                               *)
(*                                                                         *)
(* One channel; its camera is paired throughout.  A step is what a thread  *)
(* does up to the next point where another thread's step can change what   *)
(* it goes on to do: a call into CameraPower, a test of another session's  *)
(* slot, a flag stored apart from the slot it belongs to.  Timers are      *)
(* abstract: a countdown is running or not, and a running one may expire.  *)
(***************************************************************************)
EXTENDS CameraPower

CONSTANTS Sessions,       \* app sessions (slots of g_session)
          Clients,        \* client threads of the command connection
          Recorders,      \* subset of {"alarm", "cloud"}
          Singles,        \* subset of SingleThreads
          WakeTries,      \* wake calls of one setting or update (3)
          MaxRequests     \* bound on the settings and updates requested

SingleThreads == {"cmdlist", "sleep_manage", "heartcheck", "update"}

CallerThreads == Sessions \cup Clients \cup Recorders \cup Singles

CallerLabels == {"closed", "idle", "none", "serve", "flagged", "scan", "clear",
                 "await", "record", "close", "release", "slots", "updating"}

ASSUME UsersAssumption ==
  /\ Recorders \subseteq {"alarm", "cloud"} /\ Singles \subseteq SingleThreads
  /\ Sessions \cap (Clients \cup Recorders \cup Singles) = {}
  /\ Clients \cap (Recorders \cup Singles) = {}
  /\ Threads = CallerThreads /\ Labels = CallerLabels
  /\ WakeTries \in Nat \ {0}
  /\ MaxRequests \in Nat

VARIABLES
  tries,          \* failed wake calls of the setting or update being made
  first_flag,     \* the camera has not reported its parameters yet
  held,           \* the session's camerachannel and wakeupstatus say this camera
  videochannel,   \* its thread's videochannel does
  ctrl,           \* g_alarmrec.ctrl, g_cloudrec.ctrl
  asked,          \* the camera has a setting to answer
  sleep_check,    \* the sleep manager is asked to start its countdown
  timer,          \* it is counting down
  requests        \* settings and updates requested so far

userVars == <<tries, first_flag, held, videochannel, ctrl, asked, sleep_check,
              timer, requests>>

vars == <<powerVars, userVars>>

TypeOK ==
  /\ PowerTypeOK
  /\ tries \in [Singles -> 0 .. WakeTries]
  /\ first_flag \in BOOLEAN
  /\ held \in [Sessions -> BOOLEAN]
  /\ videochannel \in [Sessions -> BOOLEAN]
  /\ ctrl \in [Recorders -> BOOLEAN]
  /\ asked \in BOOLEAN /\ sleep_check \in BOOLEAN /\ timer \in BOOLEAN
  /\ requests \in 0 .. MaxRequests

Init ==
  /\ PowerInit([t \in Threads |-> IF t \in Sessions THEN "closed"
                                  ELSE IF t \in Clients THEN "none" ELSE "idle"],
               [t \in Threads |-> IF t \in Clients THEN "serve" ELSE "idle"])
  /\ tries = [t \in Singles |-> 0]
  /\ first_flag = TRUE
  /\ held = [s \in Sessions |-> FALSE]
  /\ videochannel = [s \in Sessions |-> FALSE]
  /\ ctrl = [r \in Recorders |-> FALSE]
  /\ asked = FALSE /\ sleep_check = FALSE /\ timer = FALSE
  /\ requests = 0

\* What a step that only moves the thread and its flags leaves alone.
exchangeVars == <<online, lock, wakeup_status, wakeup_result,
                  sleep_status, wake_fail, link, camera, conn,
                  acks>>

Set(r, value) == flag' = [flag EXCEPT ![r] = value]
---------------------------------------------------------------------------
(* App sessions (Session_pth).                                            *)

Open(s) ==
  /\ pc[s] = "closed"
  /\ videochannel' = [videochannel EXCEPT ![s] = FALSE]
  /\ Go(s, "idle")
  /\ UNCHANGED <<flag, sleep_flag, back, exchangeVars, tries,
                 first_flag, held, ctrl, asked, sleep_check, timer, requests>>

\* VAVA_CMD_WAKE_UP: the checks, and the call.
Wake(s) ==
  /\ pc[s] = "idle"
  /\ online /\ ~first_flag /\ ~held[s]
  /\ CallWake(s)
  /\ UNCHANGED <<flag, sleep_flag, exchangeVars, userVars>>

\* The call has returned: an error is the answer, or the reason is recorded ...
WakeReturned(s) ==
  /\ \/ pc[s] = "woke" /\ Set("wakeup", TRUE) /\ Go(s, "flagged")
     \/ pc[s] = "unwoken" /\ UNCHANGED flag /\ Go(s, "idle")
  /\ UNCHANGED <<sleep_flag, back, exchangeVars, userVars>>

\* ... and then the session's slot.
TakeSlot(s) ==
  /\ pc[s] = "flagged"
  /\ held' = [held EXCEPT ![s] = TRUE]
  /\ videochannel' = [videochannel EXCEPT ![s] = TRUE]
  /\ Go(s, "idle")
  /\ UNCHANGED <<flag, sleep_flag, back, exchangeVars, tries,
                 first_flag, ctrl, asked, sleep_check, timer, requests>>

\* VAVA_CMD_SLEEP: the checks, and the slot is given up.
Sleep(s) ==
  /\ pc[s] = "idle"
  /\ online /\ held[s]
  /\ held' = [held EXCEPT ![s] = FALSE]
  /\ back' = [back EXCEPT ![s] = "idle"]
  /\ Go(s, "scan")
  /\ UNCHANGED <<flag, sleep_flag, exchangeVars, tries, first_flag,
                 videochannel, ctrl, asked, sleep_check, timer, requests>>

\* The connection is lost or the app leaves: the slot is given up; what the
\* thread remembers in videochannel decides whether the camera is released.
Teardown(s) ==
  /\ pc[s] = "idle"
  /\ held' = [held EXCEPT ![s] = FALSE]
  /\ back' = [back EXCEPT ![s] = "closed"]
  /\ Go(s, IF videochannel[s] THEN "scan" ELSE "closed")
  /\ UNCHANGED <<flag, sleep_flag, exchangeVars, tries, first_flag,
                 videochannel, ctrl, asked, sleep_check, timer, requests>>

Scan_slip(s) ==
  /\ pc[s] = "scan"
  /\ Go(s, IF \E u \in Sessions : videochannel[u] /\ u # s
           THEN back[s] ELSE "clear")
  /\ UNCHANGED <<flag, sleep_flag, back, exchangeVars, userVars>>

\* Does another session keep the camera awake?
Scan(s) ==
  /\ pc[s] = "scan"
  /\ Go(s, IF \E u \in Sessions : held[u] THEN back[s] ELSE "clear")
  /\ UNCHANGED <<flag, sleep_flag, back, exchangeVars, userVars>>

\* No: SLEEP lets it sleep unless a recorder needs it, teardown in any case.
ClearWakeup(s) ==
  /\ pc[s] = "clear"
  /\ Set("wakeup", FALSE)
  /\ IF back[s] = "idle" /\ (flag["alarm"] \/ flag["cloud"])
     THEN Go(s, "idle") /\ UNCHANGED back
     ELSE CallSleep(s, back[s])
  /\ UNCHANGED <<sleep_flag, exchangeVars, userVars>>

Session(s) == \/ Open(s) \/ Wake(s) \/ WakeReturned(s) \/ TakeSlot(s)
              \/ Sleep(s) \/ Teardown(s) \/ Scan(s) \/ ClearWakeup(s)
---------------------------------------------------------------------------
(* The camera's command connection (commonclient_pth).  A client thread     *)
(* reads whichever socket is stored, so an older one goes on beside a newer *)
(* one.                                                                     *)

Connect(c) ==
  /\ pc[c] = "none"
  /\ Connected
  /\ asked' = FALSE
  /\ Go(c, "serve")
  /\ UNCHANGED <<flag, online, lock, back, sleep_status,
                 wake_fail, camera, acks, tries, first_flag, held,
                 videochannel, ctrl, sleep_check, timer, requests>>

\* The socket is gone, or reading it fails.
ClientEnds(c) ==
  /\ pc[c] = "serve"
  /\ ~link \/ conn = "none"
  /\ Go(c, "none")
  /\ UNCHANGED <<flag, sleep_flag, back, exchangeVars, userVars>>

clientRest == <<lock, wakeup_status, wakeup_result, sleep_status,
                wake_fail, link, camera, acks>>

Heartbeat_slip(c) ==
  /\ pc[c] = "serve" /\ conn # "none"
  /\ online' = TRUE
  /\ first_flag' = (first_flag /\ online)
  /\ IF Wanted
     THEN UNCHANGED <<sleep_flag, pc, back>>
     ELSE UNCHANGED sleep_flag /\ CallSleep(c, "serve")
  /\ UNCHANGED <<flag, conn, clientRest, tries, held, videochannel,
                 ctrl, asked, sleep_check, timer, requests>>

\* VAVA_MSGTYPE_HEARTBEAT: an awake camera nobody needs is put to sleep.
Heartbeat(c) ==
  /\ pc[c] = "serve" /\ conn # "none"
  /\ online' = TRUE
  /\ first_flag' = (first_flag /\ online)
  /\ IF Wanted
     THEN UNCHANGED <<sleep_flag, pc, back>>
     ELSE sleep_flag' = TRUE /\ CallSleep(c, "serve")
  /\ UNCHANGED <<flag, conn, clientRest, tries, held, videochannel,
                 ctrl, asked, sleep_check, timer, requests>>

\* The recorders a PIR alarm can start: the card's, when it is usable and the
\* recorder idle, otherwise the cloud's, if the channel has one.
Startable(card) ==
  IF card /\ pc["alarm"] # "record"
  THEN {"alarm"} ELSE Recorders \ {"alarm"}

\* VAVA_MSGTYPE_FIRST_CONNECT, and VAVAHAL_PirAlarm when the sensor woke the
\* camera.  An instance without an alarm recorder has no sensor.
FirstConnect(c) ==
  /\ pc[c] = "serve" /\ conn = "new"
  /\ conn' = "up"
  /\ first_flag' = FALSE
  /\ \/ UNCHANGED <<flag, ctrl>>
     \/ /\ "alarm" \in Recorders
        /\ Set("alarm", TRUE)
        /\ \E card \in BOOLEAN :
             ctrl' = [r \in Recorders |-> ctrl[r] \/ r \in Startable(card)]
  /\ UNCHANGED <<sleep_flag, online, pc, back, clientRest, tries, held,
                 videochannel, asked, sleep_check, timer, requests>>

\* VAVA_MSGTYPE_MD_RESULT, nothing moved: stop recording and sleep.
MdResult(c) ==
  /\ pc[c] = "serve" /\ conn # "none"
  /\ ctrl' = [r \in Recorders |-> FALSE]
  /\ flag' = [flag EXCEPT !["alarm"] = FALSE, !["cloud"] = FALSE]
  /\ CallSleep(c, "serve")
  /\ UNCHANGED <<sleep_flag, online, conn, clientRest, tries,
                 first_flag, held, videochannel, asked, sleep_check, timer,
                 requests>>

\* The camera's answer to a setting starts the sleep manager's countdown.
SetAck(c) ==
  /\ pc[c] = "serve" /\ conn # "none"
  /\ asked
  /\ asked' = FALSE
  /\ sleep_check' = TRUE
  /\ UNCHANGED <<flag, sleep_flag, online, pc, back, conn, clientRest,
                 tries, first_flag, held, videochannel, ctrl, timer, requests>>

Client(c) == \/ Connect(c) \/ ClientEnds(c) \/ Heartbeat(c) \/ FirstConnect(c)
             \/ MdResult(c) \/ SetAck(c)
---------------------------------------------------------------------------
(* The recorders (record.c).  What ends a recording (its length, no data,   *)
(* a write error, ctrl = 0, the camera offline) is left open.               *)

\* The loop's first test, negated; the cloud recorder ignores first_flag.
MayRecord(r) == ctrl[r] /\ online /\ (r = "alarm" => ~first_flag)

RecorderIdle_slip(r) ==
  /\ pc[r] = "idle"
  /\ UNCHANGED <<flag, sleep_flag, pc, back, exchangeVars, userVars>>

\* Nothing to record, or no usable card or cloud service: clear the flag.
RecorderIdle(r) ==
  /\ pc[r] = "idle"
  /\ Set(r, FALSE)
  /\ UNCHANGED <<sleep_flag, pc, back, exchangeVars, userVars>>

\* Start; the alarm recorder starts the cloud's.  Its file may not open.
RecorderStarts(r) ==
  /\ pc[r] = "idle"
  /\ MayRecord(r)
  /\ Set(r, TRUE)
  /\ \E opened \in BOOLEAN :
       /\ opened \/ r = "alarm"
       /\ Go(r, IF opened THEN "record" ELSE "idle")
       /\ ctrl' = [q \in Recorders |-> (ctrl[q] \/ (r = "alarm" /\ q = "cloud"))
                                      /\ (q = r => opened)]
  /\ UNCHANGED <<sleep_flag, back, exchangeVars, tries, first_flag,
                 held, videochannel, asked, sleep_check, timer, requests>>

\* The file is closed, the recorder free for the next alarm.
RecorderCloses(r) ==
  /\ pc[r] = "record"
  /\ ctrl' = [ctrl EXCEPT ![r] = FALSE]
  /\ Go(r, "close")
  /\ UNCHANGED <<flag, sleep_flag, back, exchangeVars, tries,
                 first_flag, held, videochannel, asked, sleep_check, timer,
                 requests>>

RecorderReleases(r) ==
  /\ pc[r] = "close"
  /\ Set(r, FALSE)
  /\ CallSleep(r, "idle")
  /\ UNCHANGED <<sleep_flag, exchangeVars, userVars>>

Recorder(r) == \/ RecorderIdle(r) \/ RecorderStarts(r)
               \/ RecorderCloses(r) \/ RecorderReleases(r)
---------------------------------------------------------------------------
(* A setting (CmdQueList_pth, VAVAHAL_WakeupCamera_WithSet).                *)

StartSet ==
  /\ "cmdlist" \in Singles /\ pc["cmdlist"] = "idle"
  /\ ~first_flag
  /\ requests < MaxRequests
  /\ requests' = requests + 1
  /\ tries' = [tries EXCEPT !["cmdlist"] = 0]
  /\ CallWake("cmdlist")
  /\ UNCHANGED <<flag, sleep_flag, exchangeVars, first_flag, held,
                 videochannel, ctrl, asked, sleep_check, timer>>

\* A failed call is repeated up to WakeTries times; a success requests the flag.
SetWoken ==
  /\ "cmdlist" \in Singles
  /\ \/ pc["cmdlist"] = "woke"
        /\ Set("config", TRUE) /\ Go("cmdlist", "await") /\ UNCHANGED tries
     \/ pc["cmdlist"] = "unwoken"
        /\ tries' = [tries EXCEPT !["cmdlist"] = @ + 1]
        /\ Go("cmdlist", IF tries["cmdlist"] + 1 >= WakeTries
                         THEN "idle" ELSE "want_wake")
        /\ UNCHANGED flag
  /\ UNCHANGED <<sleep_flag, back, exchangeVars, first_flag, held,
                 videochannel, ctrl, asked, sleep_check, timer, requests>>

\* The command socket is there: send.  What is sent to a dead one is lost.
SendSet ==
  /\ "cmdlist" \in Singles /\ pc["cmdlist"] = "await"
  /\ link
  /\ asked' = (asked \/ conn # "none")
  /\ Go("cmdlist", "idle")
  /\ UNCHANGED <<flag, sleep_flag, back, exchangeVars, tries,
                 first_flag, held, videochannel, ctrl, sleep_check, timer,
                 requests>>

\* It has not come for twenty seconds.
SetTimeout ==
  /\ "cmdlist" \in Singles /\ pc["cmdlist"] = "await"
  /\ ~link
  /\ Set("config", FALSE)
  /\ Go("cmdlist", "idle")
  /\ UNCHANGED <<sleep_flag, back, exchangeVars, userVars>>

Setting == StartSet \/ SetWoken \/ SendSet \/ SetTimeout
---------------------------------------------------------------------------
(* sleep_manage_pth: one turn a second.                                     *)

ManagerTurn(check) ==
  /\ "sleep_manage" \in Singles /\ pc["sleep_manage"] = "idle"
  /\ sleep_check = check

StartCountdown ==
  /\ ManagerTurn(TRUE)
  /\ sleep_check' = FALSE
  /\ timer' = TRUE
  /\ UNCHANGED <<powerVars, tries, first_flag, held, videochannel, ctrl,
                 asked, requests>>

CountdownEnds ==
  /\ ManagerTurn(FALSE)
  /\ timer
  /\ timer' = FALSE
  /\ Set("config", FALSE)
  /\ CallSleep("sleep_manage", "idle")
  /\ UNCHANGED <<sleep_flag, exchangeVars, tries, first_flag, held,
                 videochannel, ctrl, asked, sleep_check, requests>>

ConfigExpires_slip ==
  /\ ManagerTurn(FALSE)
  /\ ~timer /\ flag["config"]
  /\ UNCHANGED <<powerVars, userVars>>

\* config_flag has been seen set thirty times without a countdown; the count
\* goes on from one setting to the next, so a new one may meet its end.
ConfigExpires ==
  /\ ManagerTurn(FALSE)
  /\ ~timer /\ flag["config"]
  /\ Set("config", FALSE)
  /\ UNCHANGED <<sleep_flag, pc, back, exchangeVars, userVars>>

SleepManager == StartCountdown \/ CountdownEnds \/ ConfigExpires
---------------------------------------------------------------------------
(* heartcheck_pth: what it does with a camera that answered, or failed to   *)
(* three times running.                                                     *)

HeartTurn == "heartcheck" \in Singles /\ pc["heartcheck"] = "idle"

HeartOk ==
  /\ HeartTurn
  /\ ~online
  /\ online' = TRUE
  /\ UNCHANGED <<flag, sleep_flag, pc, back, conn, clientRest, userVars>>

\* Offline: unless it was switched off, sleep is called if it was in use.
HeartMissed ==
  /\ HeartTurn
  /\ online' = FALSE
  /\ \E poweroff_flag \in BOOLEAN :
       IF ~poweroff_flag /\ \E r \in Reason \ {"up"} : flag[r]
       THEN sleep_flag' = TRUE /\ CallSleep("heartcheck", "release")
       ELSE Go("heartcheck", "release") /\ UNCHANGED <<sleep_flag, back>>
  /\ UNCHANGED <<flag, conn, clientRest, userVars>>

\* Recordings are stopped, the reasons cleared, ...
Release ==
  /\ "heartcheck" \in Singles /\ pc["heartcheck"] = "release"
  /\ ctrl' = [r \in Recorders |-> FALSE]
  /\ first_flag' = TRUE
  /\ flag' = [r \in Reason |-> r = "up" /\ flag["up"]]
  /\ Go("heartcheck", "slots")
  /\ UNCHANGED <<sleep_flag, back, exchangeVars, tries, held,
                 videochannel, asked, sleep_check, timer, requests>>

\* ... and the sessions' slots.
ReleaseSlots ==
  /\ "heartcheck" \in Singles /\ pc["heartcheck"] = "slots"
  /\ held' = [s \in Sessions |-> FALSE]
  /\ Go("heartcheck", "idle")
  /\ UNCHANGED <<flag, sleep_flag, back, exchangeVars, tries,
                 first_flag, videochannel, ctrl, asked, sleep_check, timer,
                 requests>>

HeartCheck == HeartOk \/ HeartMissed \/ Release \/ ReleaseSlots
---------------------------------------------------------------------------
(* A camera update (update.c), between its radio calls.                     *)

StartUpdate ==
  /\ "update" \in Singles /\ pc["update"] = "idle"
  /\ requests < MaxRequests
  /\ requests' = requests + 1
  /\ tries' = [tries EXCEPT !["update"] = 0]
  /\ CallWake("update")
  /\ UNCHANGED <<flag, sleep_flag, exchangeVars, first_flag, held,
                 videochannel, ctrl, asked, sleep_check, timer>>

\* A success after WakeTries - 1 failures is taken for a failure.
UpdateWoken ==
  /\ "update" \in Singles
  /\ \/ pc["update"] = "woke" /\ UNCHANGED tries
        /\ IF tries["update"] < WakeTries - 1
           THEN Set("up", TRUE) /\ Go("update", "updating")
           ELSE UNCHANGED flag /\ Go("update", "idle")
     \/ pc["update"] = "unwoken" /\ UNCHANGED flag
        /\ tries' = [tries EXCEPT !["update"] = @ + 1]
        /\ Go("update", IF tries["update"] < WakeTries - 1
                        THEN "want_wake" ELSE "idle")
  /\ UNCHANGED <<sleep_flag, back, exchangeVars, first_flag, held,
                 videochannel, ctrl, asked, sleep_check, timer, requests>>

\* Any failure.  After "no answer to the request" the code goes on to send.
UpdateFails ==
  /\ "update" \in Singles /\ pc["update"] = "updating"
  /\ Set("up", FALSE)
  /\ \E place \in {"idle", "updating"} : CallSleep("update", place)
  /\ UNCHANGED <<sleep_flag, exchangeVars, userVars>>

\* The camera has reported: it restarts by itself.
UpdateEnds ==
  /\ "update" \in Singles /\ pc["update"] = "updating"
  /\ Set("up", FALSE)
  /\ first_flag' = TRUE
  /\ Go("update", "idle")
  /\ UNCHANGED <<sleep_flag, back, exchangeVars, tries, held,
                 videochannel, ctrl, asked, sleep_check, timer, requests>>

Update == StartUpdate \/ UpdateWoken \/ UpdateFails \/ UpdateEnds
---------------------------------------------------------------------------
Power == /\ \/ \E t \in Threads : Procedures(t)
            \/ Radio
         /\ UNCHANGED userVars

Next == \/ Power
        \/ \E s \in Sessions : Session(s)
        \/ \E c \in Clients : Client(c)
        \/ \E r \in Recorders : Recorder(r)
        \/ Setting \/ SleepManager \/ HeartCheck \/ Update

Spec == Init /\ [][Next]_vars

\* Every thread goes on while it can, and gets the lock if it is free again and
\* again; an awake camera connects and, connected again and again, reports;
\* a request repeated for ever is heard in the end, and no answer stays on its
\* way for ever.  Nobody has to use an app,
\* set a parameter, update, be seen by the sensor, or lose a connection.
Takes(t) == WakeNotNeeded(t) \/ WakeBegins(t) \/ SleepNotNeeded(t) \/ SleepBegins(t)

Fairness ==
  /\ \A t \in Threads : /\ SF_vars(Takes(t) /\ UNCHANGED userVars)
                         /\ WF_vars(WakeEnds(t) /\ UNCHANGED userVars)
                         /\ WF_vars(SleepEnds(t) /\ UNCHANGED userVars)
  /\ SF_vars(HearSleep(TRUE) /\ UNCHANGED userVars)
  /\ WF_vars(AckLost /\ UNCHANGED userVars)
  /\ \A s \in Sessions :
       WF_vars(WakeReturned(s) \/ TakeSlot(s) \/ Scan(s) \/ ClearWakeup(s))
  /\ \A c \in Clients : /\ WF_vars(Connect(c)) /\ WF_vars(ClientEnds(c))
                         /\ SF_vars(Heartbeat(c))
  /\ \A r \in Recorders :
       WF_vars(RecorderIdle(r)) /\ WF_vars(RecorderCloses(r) \/ RecorderReleases(r))
  /\ WF_vars(SetWoken \/ SendSet \/ SetTimeout)
  /\ WF_vars(SleepManager)
  /\ WF_vars(Release \/ ReleaseSlots)
  /\ WF_vars(UpdateWoken \/ UpdateFails \/ UpdateEnds)

FairSpec == Spec /\ Fairness
---------------------------------------------------------------------------

\* wakeup_flag never outlives the sessions: while it is set, some session's
\* thread has this camera recorded as its own, or is about to record it, and
\* will therefore look after the flag when it ends (Session_pth).
NoOrphanWake ==
  flag["wakeup"] =>
    \E s \in Sessions : pc[s] # "closed" /\ (videochannel[s] \/ pc[s] = "flagged")

\* The comments in SLEEP and teardown (p2pserver.c): a session puts the camera
\* to sleep when no other session has woken it.
NoSleepUnderViewer ==
  \A s, u \in Sessions : pc[s] = "sleeping" /\ s # u => ~held[u]

\* A camera that nobody needs ends up asleep, or needed again, whatever radio
\* messages are lost, late or doubled: its own heartbeats see to it.
CameraSleeps == ~Wanted ~> (camera = "asleep" \/ Wanted)

\* No reason but a viewer's keeps the camera awake for ever.
ReasonsEnd == \A r \in Reason \ {"wakeup"} : flag[r] ~> ~flag[r]

\* A thread that wants the camera to sleep gets on with its work: the lock is
\* not held for ever, and an unanswered request is given up.
SleepCallReturns ==
  \A t \in Threads : pc[t] = "want_sleep" ~> pc[t] \notin {"want_sleep", "sleeping"}
=============================================================================
