------------------------- MODULE CameraUsersProofs -------------------------
(***************************************************************************)
(* Proofs about CameraUsers: type correctness, that radio exchanges        *)
(* exclude each other, and that wakeup_flag does not outlive the sessions. *)
(***************************************************************************)
EXTENDS CameraUsers, TLAPS

USE DEF Places, Reason

\* What TypeOK needs to be inductive: while its wake call lasts, a setting or
\* an update has a try left to count.
WakePlaces == {"want_wake", "waking", "woke", "unwoken"}

TriesBounded == \A t \in Singles : pc[t] \in WakePlaces => tries[t] < WakeTries

\* The constants' types: every caller is a thread, every caller's label a
\* label of the procedures' module.
LEMMA Callers ==
  /\ Sessions \subseteq Threads /\ Clients \subseteq Threads
  /\ Recorders \subseteq Threads /\ Singles \subseteq Threads
  /\ Recorders \subseteq Reason
  /\ \A s \in Sessions : s \notin Clients /\ s \notin Recorders /\ s \notin Singles
  /\ Labels = CallerLabels
  /\ Free \notin Threads
  /\ WakeFailLimit \in Nat \ {0} /\ WakeTries \in Nat \ {0}
  /\ MaxRequests \in Nat
BY UsersAssumption, PowerAssumption
   DEF CallerThreads, SingleThreads

\* The initial state has the right types.
LEMMA TypeInit == Init => TypeOK
<1> SUFFICES ASSUME Init PROVE TypeOK
  OBVIOUS
<1> USE Callers DEF Init, PowerInit, CallerLabels
<1>1. flag \in [Reason -> BOOLEAN] /\ acks \in SUBSET ({"wake", "sleep"} \X BOOLEAN)
  OBVIOUS
<1>2. pc \in [Threads -> Places] /\ back \in [Threads -> Labels]
  OBVIOUS
<1>3. lock \in Threads \cup {Free} /\ wake_fail \in 0 .. WakeFailLimit - 1
  OBVIOUS
<1>4. /\ sleep_flag \in BOOLEAN /\ online \in BOOLEAN /\ link \in BOOLEAN
      /\ wakeup_status \in BOOLEAN /\ wakeup_result \in BOOLEAN
      /\ sleep_status \in BOOLEAN
      /\ camera \in {"asleep", "awake"} /\ conn \in {"none", "new", "up"}
  OBVIOUS
<1>5. PowerTypeOK
  BY <1>1, <1>2, <1>3, <1>4 DEF PowerTypeOK
<1>6. /\ tries \in [Singles -> 0 .. WakeTries]
      /\ held \in [Sessions -> BOOLEAN] /\ videochannel \in [Sessions -> BOOLEAN]
      /\ ctrl \in [Recorders -> BOOLEAN]
      /\ requests \in 0 .. MaxRequests
  OBVIOUS
<1>7. /\ first_flag \in BOOLEAN /\ asked \in BOOLEAN /\ sleep_check \in BOOLEAN
      /\ timer \in BOOLEAN
  OBVIOUS
<1>8. QED
  BY <1>5, <1>6, <1>7 DEF TypeOK

---------------------------------------------------------------------------
(* Type correctness, one lemma per group of actions.                        *)

\* The power procedures keep the types.
LEMMA TypeProcedures ==
  ASSUME TypeOK, NEW t \in Threads, Procedures(t), UNCHANGED userVars
  PROVE  TypeOK'
<1> USE Callers DEF TypeOK, PowerTypeOK, Go, userVars
<1>1. CASE WakeNotNeeded(t)
  BY <1>1 DEF WakeNotNeeded
<1>2. CASE WakeBegins(t)
  BY <1>2 DEF WakeBegins
<1>3. CASE WakeEnds(t)
  <2>1. pc' \in [Threads -> Places]
    BY <1>3 DEF WakeEnds, WakeFails, WakeSucceeds
  <2>2. wake_fail' \in 0 .. WakeFailLimit - 1
    BY <1>3 DEF WakeEnds, WakeFails, WakeSucceeds
  <2>3. online' \in BOOLEAN
    BY <1>3, Zenon DEF WakeEnds, WakeFails, WakeSucceeds
  <2>4. QED
    BY <1>3, <2>1, <2>2, <2>3 DEF WakeEnds
<1>4. CASE SleepNotNeeded(t)
  BY <1>4 DEF SleepNotNeeded
<1>5. CASE SleepBegins(t)
  BY <1>5 DEF SleepBegins
<1>6. CASE SleepEnds(t)
  <2>1. pc' \in [Threads -> Places]
    BY <1>6 DEF SleepEnds
  <2>2. UNCHANGED <<flag, sleep_flag, online, back, wakeup_status, wakeup_result,
                    sleep_status, wake_fail, camera, acks>>
        /\ link' = FALSE /\ conn' = "none" /\ lock' = Free
    BY <1>6 DEF SleepEnds
  <2>3. PowerTypeOK'
    BY <2>1, <2>2
  <2>4. QED
    BY <2>3
<1>7. QED
  BY <1>1, <1>2, <1>3, <1>4, <1>5, <1>6 DEF Procedures

\* So do the radio's and the camera's own steps.
LEMMA TypeRadio ==
  ASSUME TypeOK, Radio, UNCHANGED userVars
  PROVE  TypeOK'
<1> USE Callers, PowerAssumption
    DEF TypeOK, PowerTypeOK, userVars, callVars, Answer, Receive
<1>1. ASSUME NEW ok \in Answers, HearWake(ok) PROVE TypeOK'
  BY <1>1 DEF HearWake
<1>2. ASSUME NEW ok \in Answers, HearSleep(ok) PROVE TypeOK'
  BY <1>2 DEF HearSleep
<1>3. ASSUME NEW ok \in Answers, WakeAck(ok) PROVE TypeOK'
  <2>1. acks' \in SUBSET ({"wake", "sleep"} \X BOOLEAN)
    BY <1>3 DEF WakeAck
  <2>2. wakeup_result' \in BOOLEAN
    BY <1>3, Zenon DEF WakeAck
  <2>3. UNCHANGED <<callVars, sleep_status, link, camera, conn>>
        /\ wakeup_status' = FALSE /\ sleep_flag' = TRUE
    BY <1>3 DEF WakeAck
  <2>4. PowerTypeOK'
    BY <2>1, <2>2, <2>3
  <2>5. QED
    BY <2>4
<1>4. ASSUME NEW ok \in Answers, SleepAck(ok) PROVE TypeOK'
  <2>1. acks' \in SUBSET ({"wake", "sleep"} \X BOOLEAN)
    BY <1>4 DEF SleepAck
  <2>2. sleep_flag' \in BOOLEAN /\ sleep_status' \in BOOLEAN
    BY <1>4, Zenon DEF SleepAck
  <2>3. UNCHANGED <<callVars, wakeup_status, wakeup_result, link, camera, conn>>
    BY <1>4 DEF SleepAck
  <2>4. QED
    BY <2>1, <2>2, <2>3
<1>5. CASE AckLost
  BY <1>5 DEF AckLost
<1>6. CASE SelfWake
  BY <1>6 DEF SelfWake
<1>7. CASE Drop
  BY <1>7 DEF Drop
<1>8. QED
  BY <1>1, <1>2, <1>3, <1>4, <1>5, <1>6, <1>7 DEF Radio

\* So does a session's thread.
LEMMA TypeSession ==
  ASSUME TypeOK, NEW s \in Sessions, Session(s)
  PROVE  TypeOK'
<1> USE Callers DEF TypeOK, PowerTypeOK, Go, Set, CallWake, CallSleep,
                    CallerLabels, userVars, exchangeVars
<1>1. CASE Open(s)
  BY <1>1 DEF Open
<1>2. CASE Wake(s)
  BY <1>2 DEF Wake
<1>3. CASE WakeReturned(s)
  <2>0. flag' = [flag EXCEPT !["wakeup"] = TRUE] \/ flag' = flag
    BY <1>3, Zenon DEF WakeReturned
  <2>1. flag' \in [Reason -> BOOLEAN]
    <3>1. CASE flag' = [flag EXCEPT !["wakeup"] = TRUE]
      BY <3>1
    <3>2. QED
      BY <2>0, <3>1
  <2>. pc' \in [Threads -> Places]
    BY <1>3 DEF WakeReturned
  <2>2. QED
    BY <1>3, <2>1 DEF WakeReturned
<1>4. CASE TakeSlot(s)
  BY <1>4 DEF TakeSlot
<1>5. CASE Sleep(s)
  BY <1>5 DEF Sleep
<1>6. CASE Teardown(s)
  BY <1>6 DEF Teardown
<1>7. CASE Scan(s)
  BY <1>7 DEF Scan
<1>8. CASE ClearWakeup(s)
  BY <1>8 DEF ClearWakeup
<1>9. QED
  BY <1>1, <1>2, <1>3, <1>4, <1>5, <1>6, <1>7, <1>8 DEF Session

\* So does a client thread.
LEMMA TypeClient ==
  ASSUME TypeOK, NEW c \in Clients, Client(c)
  PROVE  TypeOK'
<1> USE Callers DEF TypeOK, PowerTypeOK, Go, Set, CallSleep, CallerLabels,
                    userVars, exchangeVars, clientRest
<1>1. CASE Connect(c)
  BY <1>1 DEF Connect, Connected
<1>2. CASE ClientEnds(c)
  BY <1>2 DEF ClientEnds
<1>3. CASE Heartbeat(c)
  <2>1. first_flag' \in BOOLEAN /\ online' \in BOOLEAN
    BY <1>3, Zenon DEF Heartbeat
  <2>2. /\ sleep_flag' \in BOOLEAN
        /\ pc' \in [Threads -> Places] /\ back' \in [Threads -> Labels]
    <3>1. CASE UNCHANGED <<sleep_flag, pc, back>>
      BY <3>1
    <3>2. CASE sleep_flag' = TRUE /\ CallSleep(c, "serve")
      BY <3>2
    <3>3. QED
      BY <1>3, <3>1, <3>2, Zenon DEF Heartbeat
  <2>3. QED
    BY <1>3, <2>1, <2>2 DEF Heartbeat
<1>4. CASE FirstConnect(c)
  <2>1. flag' \in [Reason -> BOOLEAN] /\ ctrl' \in [Recorders -> BOOLEAN]
    <3>1. CASE UNCHANGED <<flag, ctrl>>
      BY <3>1
    <3>2. CASE flag' = [flag EXCEPT !["alarm"] = TRUE]
               /\ \E card \in BOOLEAN :
                    ctrl' = [r \in Recorders |-> ctrl[r] \/ r \in Startable(card)]
      <4>1. flag' \in [Reason -> BOOLEAN]
        BY <3>2
      <4>2. PICK card : ctrl' = [r \in Recorders |->
                                  ctrl[r] \/ r \in Startable(card)]
        BY <3>2, Zenon
      <4>3. \A r \in Recorders : (ctrl[r] \/ r \in Startable(card)) \in BOOLEAN
        BY Zenon
      <4>4. QED
        BY <4>1, <4>2, <4>3, Zenon
    <3>3. QED
      BY <1>4, <3>1, <3>2, Zenon DEF FirstConnect
  <2>2. first_flag' \in BOOLEAN /\ conn' \in {"none", "new", "up"}
    BY <1>4 DEF FirstConnect
  <2>3. QED
    BY <1>4, <2>1, <2>2 DEF FirstConnect
<1>5. CASE MdResult(c)
  <2>1. flag' \in [Reason -> BOOLEAN] /\ ctrl' \in [Recorders -> BOOLEAN]
    BY <1>5 DEF MdResult
  <2>2. pc' \in [Threads -> Places] /\ back' \in [Threads -> Labels]
    BY <1>5 DEF MdResult
  <2>3. UNCHANGED <<sleep_flag, online, conn, clientRest, tries, first_flag,
                    held, videochannel, asked, sleep_check, timer, requests>>
    BY <1>5 DEF MdResult
  <2>4. QED
    BY <2>1, <2>2, <2>3
<1>6. CASE SetAck(c)
  <2>1. UNCHANGED <<flag, sleep_flag, online, pc, back, conn, clientRest, tries,
                    first_flag, held, videochannel, ctrl, timer, requests>>
        /\ asked' = FALSE /\ sleep_check' = TRUE
    BY <1>6 DEF SetAck
  <2>2. PowerTypeOK'
    BY <2>1
  <2>3. QED
    BY <2>1, <2>2
<1>7. QED
  BY <1>1, <1>2, <1>3, <1>4, <1>5, <1>6 DEF Client

\* So does a recorder.
LEMMA TypeRecorder ==
  ASSUME TypeOK, NEW r \in Recorders, Recorder(r)
  PROVE  TypeOK'
<1> USE Callers DEF TypeOK, PowerTypeOK, Go, Set, CallSleep, CallerLabels,
                    userVars, exchangeVars
<1>1. CASE RecorderIdle(r)
  BY <1>1 DEF RecorderIdle
<1>2. CASE RecorderStarts(r)
  BY <1>2 DEF RecorderStarts
<1>3. CASE RecorderCloses(r)
  BY <1>3 DEF RecorderCloses
<1>4. CASE RecorderReleases(r)
  BY <1>4 DEF RecorderReleases
<1>5. QED
  BY <1>1, <1>2, <1>3, <1>4 DEF Recorder

\* So does the command queue's thread.
LEMMA TypeSetting ==
  ASSUME TypeOK, TriesBounded, Setting
  PROVE  TypeOK'
<1> USE Callers DEF TypeOK, PowerTypeOK, Go, Set, CallWake, CallerLabels,
                    userVars, exchangeVars
<1>1. CASE StartSet
  BY <1>1 DEF StartSet
<1>2. CASE SetWoken /\ pc["cmdlist"] = "woke"
  <2>1. flag' = [flag EXCEPT !["config"] = TRUE] /\ "cmdlist" \in Threads
    BY <1>2 DEF SetWoken
  <2>2. pc' = [pc EXCEPT !["cmdlist"] = "await"]
    BY <1>2 DEF SetWoken
  <2>3. UNCHANGED <<sleep_flag, back, exchangeVars, userVars>>
    BY <1>2 DEF SetWoken
  <2>4. QED
    BY <2>1, <2>2, <2>3
<1>3. CASE SetWoken /\ pc["cmdlist"] = "unwoken"
  <2>0. "cmdlist" \in Singles /\ tries["cmdlist"] + 1 \in 0 .. WakeTries
    BY <1>3 DEF SetWoken, TriesBounded, WakePlaces
  <2>1. tries' \in [Singles -> 0 .. WakeTries]
    BY <1>3, <2>0 DEF SetWoken
  <2>. PICK place \in {"idle", "want_wake"} : pc' = [pc EXCEPT !["cmdlist"] = place]
    BY <1>3 DEF SetWoken
  <2>. pc' \in [Threads -> Places]
    BY <2>0
  <2>2. QED
    BY <1>3, <2>1 DEF SetWoken
<1>4. CASE SendSet
  <2>1. asked' \in BOOLEAN
    BY <1>4, Zenon DEF SendSet
  <2>2. QED
    BY <1>4, <2>1 DEF SendSet
<1>5. CASE SetTimeout
  BY <1>5 DEF SetTimeout
<1>6. QED
  BY <1>1, <1>2, <1>3, <1>4, <1>5 DEF Setting, SetWoken

\* So does the sleep manager.
LEMMA TypeSleepManager ==
  ASSUME TypeOK, SleepManager
  PROVE  TypeOK'
<1> USE Callers DEF TypeOK, PowerTypeOK, Go, Set, CallSleep, CallerLabels,
                    userVars, exchangeVars, powerVars, ManagerTurn
<1>1. CASE StartCountdown
  <2>1. UNCHANGED <<powerVars, tries, first_flag, held, videochannel, ctrl,
                    asked, requests>>
        /\ timer' = TRUE /\ sleep_check' = FALSE
    BY <1>1 DEF StartCountdown
  <2>2. PowerTypeOK'
    BY <2>1
  <2>3. QED
    BY <2>1, <2>2
<1>2. CASE CountdownEnds
  <2>1. "sleep_manage" \in Threads /\ timer' = FALSE
    BY <1>2 DEF CountdownEnds
  <2>2. /\ flag' = [flag EXCEPT !["config"] = FALSE]
        /\ pc' = [pc EXCEPT !["sleep_manage"] = "want_sleep"]
        /\ back' = [back EXCEPT !["sleep_manage"] = "idle"]
    BY <1>2 DEF CountdownEnds
  <2>3. UNCHANGED <<sleep_flag, exchangeVars, tries, first_flag, held,
                    videochannel, ctrl, asked, sleep_check, requests>>
    BY <1>2 DEF CountdownEnds
  <2>4. /\ flag' \in [Reason -> BOOLEAN]
        /\ pc' \in [Threads -> Places] /\ back' \in [Threads -> Labels]
    BY <2>1, <2>2
  <2>5. PowerTypeOK'
    BY <2>3, <2>4
  <2>6. QED
    BY <2>1, <2>3, <2>5
<1>3. CASE ConfigExpires
  BY <1>3 DEF ConfigExpires
<1>4. QED
  BY <1>1, <1>2, <1>3 DEF SleepManager

\* So does the heartbeat checker.
LEMMA TypeHeartCheck ==
  ASSUME TypeOK, HeartCheck
  PROVE  TypeOK'
<1> USE Callers DEF TypeOK, PowerTypeOK, Go, CallSleep, CallerLabels,
                    userVars, exchangeVars, clientRest, HeartTurn
<1>1. CASE HeartOk
  BY <1>1 DEF HeartOk
<1>2. CASE HeartMissed
  <2>1. "heartcheck" \in Threads /\ online' = FALSE
    BY <1>2 DEF HeartMissed
  <2>2. UNCHANGED <<flag, conn, clientRest, userVars>>
    BY <1>2 DEF HeartMissed
  <2>3. CASE sleep_flag' = TRUE /\ CallSleep("heartcheck", "release")
    <3>1. pc' \in [Threads -> Places] /\ back' \in [Threads -> Labels]
      BY <2>1, <2>3
    <3>2. PowerTypeOK'
      BY <2>1, <2>2, <2>3, <3>1
    <3>3. QED
      BY <2>2, <3>2
  <2>4. CASE Go("heartcheck", "release") /\ UNCHANGED <<sleep_flag, back>>
    <3>1. pc' \in [Threads -> Places] /\ back' \in [Threads -> Labels]
      BY <2>1, <2>4
    <3>2. sleep_flag' = sleep_flag
      BY <2>4
    <3>3. PowerTypeOK'
      BY <2>1, <2>2, <3>1, <3>2
    <3>4. QED
      BY <2>2, <3>3
  <2>5. QED
    BY <1>2, <2>3, <2>4, Zenon DEF HeartMissed
<1>3. CASE Release
  <2>1. \A r \in Reason : (r = "up" /\ flag["up"]) \in BOOLEAN
    BY Zenon
  <2>2. flag' \in [Reason -> BOOLEAN]
    BY <1>3, <2>1, Zenon DEF Release
  <2>3. QED
    BY <1>3, <2>2 DEF Release
<1>4. CASE ReleaseSlots
  BY <1>4 DEF ReleaseSlots
<1>5. QED
  BY <1>1, <1>2, <1>3, <1>4 DEF HeartCheck

\* So does the update's thread.
LEMMA TypeUpdate ==
  ASSUME TypeOK, TriesBounded, Update
  PROVE  TypeOK'
<1> USE Callers DEF TypeOK, PowerTypeOK, Go, Set, CallWake, CallSleep,
                    CallerLabels, userVars, exchangeVars
<1>1. CASE StartUpdate
  BY <1>1 DEF StartUpdate
<1>2. CASE UpdateWoken /\ pc["update"] = "woke"
  <2>1. flag' = [flag EXCEPT !["up"] = TRUE] \/ flag' = flag
    BY <1>2, Zenon DEF UpdateWoken
  <2>2. flag' \in [Reason -> BOOLEAN]
    <3>1. CASE flag' = [flag EXCEPT !["up"] = TRUE]
      BY <3>1
    <3>2. QED
      BY <2>1, <3>1
  <2>3. pc' \in [Threads -> Places]
    BY <1>2 DEF UpdateWoken
  <2>4. QED
    BY <1>2, <2>2, <2>3 DEF UpdateWoken
<1>3. CASE UpdateWoken /\ pc["update"] = "unwoken"
  <2>1. "update" \in Singles
    BY <1>3 DEF UpdateWoken
  <2>2. tries["update"] + 1 \in 0 .. WakeTries
    BY <1>3, <2>1 DEF TriesBounded, WakePlaces
  <2>3. PICK place \in {"want_wake", "idle"} : pc' = [pc EXCEPT !["update"] = place]
    BY <1>3 DEF UpdateWoken
  <2>4. tries' \in [Singles -> 0 .. WakeTries]
    BY <1>3, <2>1, <2>2 DEF UpdateWoken
  <2>5. QED
    BY <1>3, <2>1, <2>3, <2>4 DEF UpdateWoken
<1>4. CASE UpdateFails
  BY <1>4 DEF UpdateFails
<1>5. CASE UpdateEnds
  BY <1>5 DEF UpdateEnds
<1>6. QED
  BY <1>1, <1>2, <1>3, <1>4, <1>5 DEF Update, UpdateWoken

\* A thread that calls, is calling or has just called wake has tries left.
LEMMA TriesStep == TypeOK /\ TriesBounded /\ [Next]_vars => TriesBounded'
<1> SUFFICES ASSUME TypeOK, TriesBounded, [Next]_vars,
                    NEW u \in Singles, pc'[u] \in WakePlaces
             PROVE  tries'[u] < WakeTries
  BY DEF TriesBounded
<1> USE Callers DEF TypeOK, PowerTypeOK, TriesBounded, WakePlaces, Go,
                    userVars, exchangeVars
<1>0. tries[u] \in 0 .. WakeTries /\ u \in Threads
  OBVIOUS
<1>1. ASSUME pc'[u] = pc[u], tries' = tries PROVE tries'[u] < WakeTries
  BY <1>1
<1>2. CASE UNCHANGED vars
  BY <1>1, <1>2 DEF vars, powerVars
<1>3. ASSUME NEW t \in Threads, Procedures(t), UNCHANGED userVars
      PROVE  tries'[u] < WakeTries
  <2>1. t # u => pc'[u] = pc[u]
    BY <1>3 DEF Procedures, WakeNotNeeded, WakeBegins, WakeEnds, WakeFails,
                WakeSucceeds, SleepNotNeeded, SleepBegins, SleepEnds
  <2>2. pc'[t] \in WakePlaces => pc[t] \in WakePlaces
    <3>1. back[t] \in CallerLabels
      OBVIOUS
    <3>2. QED
      BY <1>3, <3>1
         DEF Procedures, WakeNotNeeded, WakeBegins, WakeEnds, WakeFails,
             WakeSucceeds, SleepNotNeeded, SleepBegins, SleepEnds, CallerLabels
  <2>3. QED
    BY <1>3, <2>1, <2>2
<1>4. ASSUME Radio, UNCHANGED userVars PROVE tries'[u] < WakeTries
  BY <1>1, <1>4 DEF Radio, HearWake, HearSleep, WakeAck, SleepAck, AckLost,
                    SelfWake, Drop, callVars
<1>5. ASSUME NEW s \in Sessions, Session(s) PROVE tries'[u] < WakeTries
  <2>1. s # u /\ tries' = tries
    BY <1>5 DEF Session, Open, Wake, WakeReturned, TakeSlot, Sleep, Teardown,
                Scan, ClearWakeup
  <2>2. pc'[u] = pc[u]
    BY <1>5, <2>1 DEF Session, Open, Wake, WakeReturned, TakeSlot, Sleep,
                      Teardown, Scan, ClearWakeup, CallWake, CallSleep
  <2>3. QED
    BY <1>1, <2>1, <2>2
<1>6. ASSUME NEW c \in Clients, Client(c) PROVE tries'[u] < WakeTries
  <2>0. c # u
    BY UsersAssumption
  <2>1. tries' = tries
    BY <1>6
       DEF Client, Connect, ClientEnds, Heartbeat, FirstConnect, MdResult, SetAck
  <2>2. pc'[u] = pc[u]
    BY <1>6, <2>0 DEF Client, Connect, ClientEnds, Heartbeat, FirstConnect,
                      MdResult, SetAck, CallSleep
  <2>3. QED
    BY <1>1, <2>1, <2>2
<1>7. ASSUME NEW r \in Recorders, Recorder(r) PROVE tries'[u] < WakeTries
  <2>1. r # u /\ tries' = tries
    BY <1>7, UsersAssumption
       DEF Recorder, RecorderIdle, RecorderStarts, RecorderCloses,
           RecorderReleases, SingleThreads
  <2>2. pc'[u] = pc[u]
    BY <1>7, <2>1 DEF Recorder, RecorderIdle, RecorderStarts, RecorderCloses,
                      RecorderReleases, CallSleep
  <2>3. QED
    BY <1>1, <2>1, <2>2
<1>8. CASE Setting
  <2>1. u # "cmdlist" => pc'[u] = pc[u] /\ tries'[u] = tries[u]
    <3>1. CASE SetWoken
      BY <3>1 DEF SetWoken
    <3>2. CASE StartSet
      BY <3>2 DEF StartSet, CallWake
    <3>3. CASE SendSet \/ SetTimeout
      BY <3>3 DEF SendSet, SetTimeout
    <3>4. QED
      BY <1>8, <3>1, <3>2, <3>3 DEF Setting
  <2>2. CASE u = "cmdlist" /\ StartSet
    BY <2>2 DEF StartSet
  <2>3. CASE u = "cmdlist" /\ SetWoken
    <3>1. CASE pc["cmdlist"] = "woke"
      <4>1. \E place \in Labels : pc' = [pc EXCEPT !["cmdlist"] = place]
        BY <2>3, <3>1 DEF SetWoken, CallerLabels
      <4>2. QED
        BY <2>3, <4>1 DEF CallerLabels
    <3>2. CASE pc["cmdlist"] = "unwoken"
      <4>1. tries["cmdlist"] + 1 < WakeTries
        BY <2>3, <3>2 DEF SetWoken
      <4>2. tries' = [tries EXCEPT !["cmdlist"] = @ + 1]
        BY <2>3, <3>2 DEF SetWoken
      <4>3. QED
        BY <2>3, <4>1, <4>2, <1>0
    <3>3. QED
      BY <2>3, <3>1, <3>2 DEF SetWoken
  <2>4. CASE u = "cmdlist" /\ (SendSet \/ SetTimeout)
    BY <2>4 DEF SendSet, SetTimeout
  <2>5. QED
    BY <1>8, <2>1, <2>2, <2>3, <2>4 DEF Setting
<1>9. CASE SleepManager
  BY <1>9 DEF SleepManager, StartCountdown, CountdownEnds, ConfigExpires,
              ManagerTurn, CallSleep, powerVars
<1>10. CASE HeartCheck
  BY <1>10 DEF HeartCheck, HeartOk, HeartMissed, Release, ReleaseSlots,
               HeartTurn, CallSleep
<1>11. CASE Update
  <2>1. u # "update" => pc'[u] = pc[u] /\ tries'[u] = tries[u]
    <3>1. CASE UpdateWoken
      BY <3>1 DEF UpdateWoken
    <3>2. CASE StartUpdate
      BY <3>2 DEF StartUpdate, CallWake
    <3>3. CASE UpdateFails \/ UpdateEnds
      BY <3>3 DEF UpdateFails, UpdateEnds, CallSleep
    <3>4. QED
      BY <1>11, <3>1, <3>2, <3>3 DEF Update
  <2>2. CASE u = "update" /\ StartUpdate
    BY <2>2 DEF StartUpdate
  <2>3. CASE u = "update" /\ UpdateWoken
    <3>1. CASE pc["update"] = "woke"
      <4>1. \E place \in Labels : pc' = [pc EXCEPT !["update"] = place]
        BY <2>3, <3>1 DEF UpdateWoken, CallerLabels
      <4>2. QED
        BY <2>3, <4>1 DEF CallerLabels
    <3>2. CASE pc["update"] = "unwoken"
      <4>1. tries["update"] < WakeTries - 1
        BY <2>3, <3>2 DEF UpdateWoken
      <4>2. tries' = [tries EXCEPT !["update"] = @ + 1]
        BY <2>3, <3>2 DEF UpdateWoken
      <4>3. QED
        BY <2>3, <4>1, <4>2, <1>0
    <3>3. QED
      BY <2>3, <3>1, <3>2 DEF UpdateWoken
  <2>4. CASE u = "update" /\ (UpdateFails \/ UpdateEnds)
    BY <2>4 DEF UpdateFails, UpdateEnds, CallSleep
  <2>5. QED
    BY <1>11, <2>1, <2>2, <2>3, <2>4 DEF Update
<1>12. QED
  BY <1>2, <1>3, <1>4, <1>5, <1>6, <1>7, <1>8, <1>9, <1>10, <1>11 DEF Next, Power

\* Every step keeps the types.
LEMMA TypeStep == TypeOK /\ TriesBounded /\ [Next]_vars => TypeOK'
<1> SUFFICES ASSUME TypeOK, TriesBounded, [Next]_vars PROVE TypeOK'
  OBVIOUS
<1>1. CASE UNCHANGED vars
  BY <1>1 DEF vars, powerVars, userVars, TypeOK, PowerTypeOK
<1>2. CASE Power
  BY <1>2, TypeProcedures, TypeRadio DEF Power
<1>3. QED
  BY <1>1, <1>2, TypeSession, TypeClient, TypeRecorder, TypeSetting,
     TypeSleepManager, TypeHeartCheck, TypeUpdate DEF Next

\* Every variable keeps its type, in every behaviour of any number of threads:
\* the try and failure counters stay below their limits, and no thread is ever
\* at a place its code does not have.
THEOREM TypeCorrect == Spec => []TypeOK
<1>1. Init => TypeOK /\ TriesBounded
  <2>1. Init => TriesBounded
    BY Callers DEF Init, PowerInit, TriesBounded, WakePlaces
  <2>2. QED
    BY <2>1, TypeInit
<1>2. TypeOK /\ TriesBounded /\ [Next]_vars => TypeOK' /\ TriesBounded'
  BY TypeStep, TriesStep
<1>3. QED
  BY <1>1, <1>2, PTL DEF Spec
---------------------------------------------------------------------------
(* Exclusion of the radio exchanges.                                        *)

\* What OneExchange needs to be inductive: whoever exchanges holds the lock.
LockInv == \A t \in Threads : pc[t] \in {"waking", "sleeping"} => lock = t

\* A caller's own step neither enters an exchange nor touches the lock.
OutsideExchange ==
  /\ lock' = lock
  /\ \A t \in Threads : pc'[t] \in {"waking", "sleeping"} => pc'[t] = pc[t]

LEMMA CallersOutside ==
  ASSUME TypeOK,
         \/ \E s \in Sessions : Session(s)
         \/ \E c \in Clients : Client(c)
         \/ \E r \in Recorders : Recorder(r)
         \/ Setting \/ SleepManager \/ HeartCheck \/ Update
  PROVE  OutsideExchange
<1> USE DEF CallerLabels, Go, CallWake, CallSleep, exchangeVars, clientRest,
            OutsideExchange
<1> USE Callers
<1>0. pc \in [Threads -> Places] /\ back \in [Threads -> Labels]
  BY DEF TypeOK, PowerTypeOK
<1> USE <1>0
<1>1. ASSUME NEW s \in Sessions, Session(s) PROVE OutsideExchange
  <2>1. lock' = lock
    BY <1>1 DEF Session, Open, Wake, WakeReturned, TakeSlot, Sleep, Teardown,
                Scan, ClearWakeup
  <2>2. \E place \in Labels \cup {"want_wake", "want_sleep"} :
          pc' = [pc EXCEPT ![s] = place]
    <3>1. CASE Scan(s) \/ ClearWakeup(s)
      BY <3>1 DEF Scan, ClearWakeup
    <3>2. CASE Sleep(s) \/ Teardown(s)
      BY <3>2 DEF Sleep, Teardown
    <3>3. CASE Open(s) \/ Wake(s) \/ WakeReturned(s) \/ TakeSlot(s)
      BY <3>3 DEF Open, Wake, WakeReturned, TakeSlot
    <3>4. QED
      BY <1>1, <3>1, <3>2, <3>3 DEF Session
  <2>3. QED
    BY <2>1, <2>2
<1>2. ASSUME NEW c \in Clients, Client(c) PROVE OutsideExchange
  <2>1. CASE Connect(c) \/ ClientEnds(c) \/ SetAck(c)
    BY <2>1 DEF Connect, ClientEnds, SetAck
  <2>2. CASE Heartbeat(c)
    BY <2>2 DEF Heartbeat
  <2>3. CASE FirstConnect(c) \/ MdResult(c)
    BY <2>3 DEF FirstConnect, MdResult
  <2>4. QED
    BY <1>2, <2>1, <2>2, <2>3 DEF Client
<1>3. ASSUME NEW r \in Recorders, Recorder(r) PROVE OutsideExchange
  <2>1. CASE RecorderIdle(r) \/ RecorderStarts(r)
    BY <2>1 DEF RecorderIdle, RecorderStarts
  <2>2. CASE RecorderCloses(r)
    BY <2>2 DEF RecorderCloses
  <2>3. CASE RecorderReleases(r)
    BY <2>3 DEF RecorderReleases
  <2>4. QED
    BY <1>3, <2>1, <2>2, <2>3 DEF Recorder
<1>4. CASE Setting
  <2>1. CASE SetWoken
    BY <2>1 DEF SetWoken
  <2>2. CASE StartSet \/ SendSet \/ SetTimeout
    BY <2>2 DEF StartSet, SendSet, SetTimeout
  <2>3. QED
    BY <1>4, <2>1, <2>2 DEF Setting
<1>5. CASE SleepManager
  <2>1. CASE StartCountdown
    BY <2>1 DEF StartCountdown, powerVars
  <2>2. CASE CountdownEnds \/ ConfigExpires
    BY <2>2 DEF CountdownEnds, ConfigExpires, ManagerTurn
  <2>3. QED
    BY <1>5, <2>1, <2>2 DEF SleepManager
<1>6. CASE HeartCheck
  <2>1. CASE HeartMissed
    BY <2>1 DEF HeartMissed, HeartTurn
  <2>2. CASE HeartOk \/ Release \/ ReleaseSlots
    BY <2>2 DEF HeartOk, Release, ReleaseSlots
  <2>3. QED
    BY <1>6, <2>1, <2>2 DEF HeartCheck
<1>7. CASE Update
  <2>1. CASE UpdateWoken
    BY <2>1 DEF UpdateWoken
  <2>2. CASE StartUpdate
    BY <2>2 DEF StartUpdate
  <2>3. CASE UpdateFails \/ UpdateEnds
    BY <2>3 DEF UpdateFails, UpdateEnds
  <2>4. QED
    BY <1>7, <2>1, <2>2, <2>3 DEF Update
<1>8. QED
  BY <1>1, <1>2, <1>3, <1>4, <1>5, <1>6, <1>7

LEMMA LockStep == TypeOK /\ LockInv /\ [Next]_vars => LockInv'
<1> SUFFICES ASSUME TypeOK, LockInv, [Next]_vars PROVE LockInv'
  OBVIOUS
<1> USE Callers DEF TypeOK, PowerTypeOK, LockInv
<1>1. CASE OutsideExchange
  BY <1>1 DEF OutsideExchange
<1>2. CASE UNCHANGED vars
  BY <1>2 DEF vars, powerVars
<1>3. ASSUME NEW t \in Threads, Procedures(t) PROVE LockInv'
  <2> USE DEF Go, CallerLabels
  <2>1. CASE WakeNotNeeded(t) \/ SleepNotNeeded(t)
    BY <2>1 DEF WakeNotNeeded, SleepNotNeeded
  <2>2. CASE WakeBegins(t) \/ SleepBegins(t)
    BY <2>2 DEF WakeBegins, SleepBegins
  <2>3. CASE WakeEnds(t) \/ SleepEnds(t)
    BY <2>3 DEF WakeEnds, WakeFails, WakeSucceeds, SleepEnds
  <2>4. QED
    BY <1>3, <2>1, <2>2, <2>3 DEF Procedures
<1>4. CASE Radio
  BY <1>4 DEF Radio, HearWake, HearSleep, WakeAck, SleepAck, AckLost, SelfWake,
              Drop, callVars
<1>5. QED
  BY <1>1, <1>2, <1>3, <1>4, CallersOutside DEF Next, Power

\* At most one thread exchanges radio messages with the camera, whatever number
\* of sessions, client threads and recorders call wake and sleep (mutex_power_lock).
THEOREM ExchangesExclude == Spec => []OneExchange
<1>1. Init => LockInv
  BY Callers DEF Init, PowerInit, LockInv
<1>2. TypeOK /\ LockInv /\ [Next]_vars => LockInv'
  BY LockStep
<1>3. LockInv => OneExchange
  BY DEF LockInv, OneExchange
<1>4. QED
  BY <1>1, <1>2, <1>3, TypeCorrect, PTL DEF Spec
---------------------------------------------------------------------------
(* The viewers' flag and the sessions.                                      *)

\* Session s will look after wakeup_flag: it is about to take its slot, or its
\* thread's videochannel names this camera and it is not past clearing the flag
\* on its way out.
Keeps(s) ==
  \/ pc[s] = "flagged"
  \/ /\ videochannel[s]
     /\ pc[s] # "closed"
     /\ ~(pc[s] \in {"want_sleep", "sleeping"} /\ back[s] = "closed")

\* What NoOrphanWake needs to be inductive: also, a session whose slot names the
\* camera, at which another's scan stops, is one that keeps it.
WakeInv ==
  /\ flag["wakeup"] => \E s \in Sessions : Keeps(s)
  /\ \A s \in Sessions : held[s] => videochannel[s] /\ pc[s] = "idle"

\* What no thread but a session's does: set the flag, take a slot, or move a
\* session's thread.
LeavesSessions ==
  /\ flag'["wakeup"] => flag["wakeup"]
  /\ videochannel' = videochannel
  /\ \A s \in Sessions : /\ held'[s] => held[s]
                         /\ pc'[s] = pc[s] /\ back'[s] = back[s]

LEMMA SessionsLeft == WakeInv /\ LeavesSessions => WakeInv'
BY DEF WakeInv, LeavesSessions, Keeps

\* A session is no other kind of thread.
LEMMA SessionsApart ==
  ASSUME NEW s \in Sessions
  PROVE  s \notin Clients /\ s \notin Recorders /\ s \notin Singles
BY Callers

LEMMA OthersLeaveSessions ==
  ASSUME TypeOK,
         \/ \E c \in Clients : Client(c)
         \/ \E r \in Recorders : Recorder(r)
         \/ Setting \/ SleepManager \/ HeartCheck \/ Update
  PROVE  LeavesSessions
<1> USE Callers, SessionsApart
    DEF TypeOK, PowerTypeOK, LeavesSessions, Set, Go, CallWake, CallSleep,
        userVars, exchangeVars, clientRest
<1>1. ASSUME NEW c \in Clients, Client(c) PROVE LeavesSessions
  BY <1>1 DEF Client, Connect, ClientEnds, Heartbeat, FirstConnect, MdResult,
              SetAck
<1>2. ASSUME NEW r \in Recorders, Recorder(r) PROVE LeavesSessions
  <2>1. r # "wakeup"
    BY UsersAssumption
  <2>2. QED
    BY <1>2, <2>1 DEF Recorder, RecorderIdle, RecorderStarts, RecorderCloses,
                      RecorderReleases
<1>3. CASE Setting
  BY <1>3 DEF Setting, StartSet, SetWoken, SendSet, SetTimeout
<1>4. CASE SleepManager
  BY <1>4 DEF SleepManager, StartCountdown, CountdownEnds, ConfigExpires,
              ManagerTurn, powerVars
<1>5. CASE HeartCheck
  BY <1>5 DEF HeartCheck, HeartOk, HeartMissed, Release, ReleaseSlots, HeartTurn
<1>6. CASE Update
  BY <1>6 DEF Update, StartUpdate, UpdateWoken, UpdateFails, UpdateEnds
<1>7. QED
  BY <1>1, <1>2, <1>3, <1>4, <1>5, <1>6

\* The power procedures: only a session's own call can move it, and it comes
\* back from a call with the flag still in somebody's care.
LEMMA ProceduresKeep ==
  ASSUME TypeOK, WakeInv, NEW t \in Threads, Procedures(t), UNCHANGED userVars
  PROVE  WakeInv'
<1> USE Callers DEF TypeOK, PowerTypeOK, WakeInv, Go, CallerLabels, userVars
<1>1. flag' = flag /\ back' = back /\ held' = held /\ videochannel' = videochannel
  BY DEF Procedures, WakeNotNeeded, WakeBegins, WakeEnds, SleepNotNeeded,
         SleepBegins, SleepEnds
<1>2. \A s \in Threads \ {t} : pc'[s] = pc[s]
  BY DEF Procedures, WakeNotNeeded, WakeBegins, WakeEnds, WakeFails,
         WakeSucceeds, SleepNotNeeded, SleepBegins, SleepEnds
<1>3. /\ pc[t] \notin {"idle", "flagged"}
      /\ \/ pc[t] \notin {"want_sleep", "sleeping"} /\ pc'[t] # "closed"
            /\ pc'[t] \notin {"want_sleep", "sleeping"}
         \/ pc[t] \in {"want_sleep", "sleeping"}
            /\ pc'[t] \in {"sleeping", back[t]}
  BY DEF Procedures, WakeNotNeeded, WakeBegins, WakeEnds, WakeFails,
         WakeSucceeds, SleepNotNeeded, SleepBegins, SleepEnds
<1>4. \A s \in Sessions : Keeps(s) => Keeps(s)'
  BY <1>1, <1>2, <1>3 DEF Keeps
<1>5. \A s \in Sessions : held'[s] => videochannel'[s] /\ pc'[s] = "idle"
  BY <1>1, <1>2, <1>3
<1>6. flag'["wakeup"] => \E s \in Sessions : Keeps(s)'
  BY <1>1, <1>4
<1>7. QED
  BY <1>5, <1>6

\* A session's own step.
LEMMA SessionKeeps ==
  ASSUME TypeOK, WakeInv, NEW s \in Sessions, Session(s)
  PROVE  WakeInv'
<1> USE Callers DEF TypeOK, PowerTypeOK, WakeInv, Go, Set, CallWake, CallSleep,
                    CallerLabels, userVars
<1>1. CASE Open(s)
  BY <1>1 DEF Open, Keeps
<1>2. CASE Wake(s)
  BY <1>2 DEF Wake, Keeps
<1>3. CASE WakeReturned(s)
  BY <1>3 DEF WakeReturned, Keeps
<1>4. CASE TakeSlot(s)
  BY <1>4 DEF TakeSlot, Keeps
<1>5. CASE Sleep(s)
  BY <1>5 DEF Sleep, Keeps
<1>6. CASE Teardown(s)
  BY <1>6 DEF Teardown, Keeps
<1>7. CASE Scan(s)
  BY <1>7 DEF Scan, Keeps
<1>8. CASE ClearWakeup(s)
  BY <1>8 DEF ClearWakeup, Keeps
<1>9. QED
  BY <1>1, <1>2, <1>3, <1>4, <1>5, <1>6, <1>7, <1>8 DEF Session

LEMMA WakeStep == TypeOK /\ WakeInv /\ [Next]_vars => WakeInv'
<1> SUFFICES ASSUME TypeOK, WakeInv, [Next]_vars PROVE WakeInv'
  OBVIOUS
<1>1. CASE UNCHANGED vars
  BY <1>1, SessionsLeft DEF vars, powerVars, userVars, LeavesSessions
<1>2. CASE Radio /\ UNCHANGED userVars
  BY <1>2, SessionsLeft
     DEF Radio, HearWake, HearSleep, WakeAck, SleepAck, AckLost, SelfWake, Drop,
         callVars, userVars, LeavesSessions
<1>3. QED
  BY <1>1, <1>2, ProceduresKeep, SessionKeeps, OthersLeaveSessions, SessionsLeft
     DEF Next, Power

\* While wakeup_flag is set some session looks after it, whatever number of
\* sessions come and go, and whatever the recorders, the queue's thread, the
\* sleep manager, the heartbeat checker and the update do meanwhile (Session_pth).
THEOREM WakeFlagKept == Spec => []NoOrphanWake
<1>1. Init => WakeInv
  BY Callers DEF Init, PowerInit, WakeInv
<1>2. TypeOK /\ WakeInv /\ [Next]_vars => WakeInv'
  BY WakeStep
<1>3. WakeInv => NoOrphanWake
  BY DEF WakeInv, NoOrphanWake, Keeps
<1>4. QED
  BY <1>1, <1>2, <1>3, TypeCorrect, PTL DEF Spec
=============================================================================
