---------------------------- MODULE CameraPower ----------------------------
(***************************************************************************)
(* Waking and sleeping one battery camera (vavahal.c, VAVAHAL_WakeupCamera *)
(* _Ex and VAVAHAL_SleepCamera_Ex) over the 433 MHz radio (rfserver.c) and *)
(* its Wi-Fi connection (avserver.c).                                      *)
(*                                                                         *)
(* Any thread may call either procedure.  mutex_power_lock admits one at a *)
(* time; the caller then tests the five flags that give reasons to keep    *)
(* the camera awake, and only exchanges radio messages when none is set.   *)
(* The flags belong to the callers, who set and clear them without the     *)
(* lock: module CameraUsers is the callers.                                *)
(*                                                                         *)
(* A thread's pc is "want_wake" or "want_sleep" while it waits for the     *)
(* lock, "waking" or "sleeping" while it holds it and the exchange runs.   *)
(* A wake call returns to "woke" or, with an error, to "unwoken"; a sleep   *)
(* call, whose result no caller here looks at, to the label in back.       *)
(*                                                                         *)
(* Radio requests are repeated three times within one exchange and carry   *)
(* no identifier: an answer may be lost, late (arriving in a later         *)
(* exchange) or doubled.  Left out: g_wakenoheart and g_sleepnoheart       *)
(* (TRUE exactly while the pc says "waking" or "sleeping"), what no thread *)
(* modelled here reads (wifi_heart, signal, g_sleep_result), the start and *)
(* stop of the stream rings, and the Iframe request to an awake camera.    *)
(***************************************************************************)
EXTENDS Integers, FiniteSets

CONSTANTS Threads,        \* the threads that may call
          Labels,         \* where a caller may be, outside these procedures
          Free,           \* the lock's value while nobody holds it
          WakeFailLimit,  \* failed wake exchanges that mean "offline" (3)
          Answers,        \* what a camera may answer: {TRUE} or {TRUE, FALSE}
          MaxAcks         \* bound on the answers on their way

ASSUME PowerAssumption == /\ Free \notin Threads
                          /\ WakeFailLimit \in Nat \ {0}
                          /\ Answers \subseteq BOOLEAN
                          /\ MaxAcks \in Nat

VARIABLES
  flag,            \* wakeup_flag, alarm_flag, cloud_flag, config_flag, up_flag
  sleep_flag,      \* the camera may be awake, so a sleep call must act
  online,          \* g_camerainfo_dynamic.online
  lock,            \* holder of mutex_power_lock
  pc, back,        \* each thread: its place, and its place after a sleep call
  wakeup_status, wakeup_result,   \* a wake answer is awaited; the last one
  sleep_status,    \* a sleep answer is awaited
  wake_fail,       \* failed wake exchanges since a successful one
  link,            \* g_commonfd # -1: the gateway has a command socket
  camera, conn,    \* the camera: asleep or awake; its end of the connection
  acks             \* answers on their way back to the gateway

powerVars == <<flag, sleep_flag, online, lock, pc, back, wakeup_status,
               wakeup_result, sleep_status, wake_fail,
               link, camera, conn, acks>>

Reason == {"wakeup", "alarm", "cloud", "config", "up"}

Places == Labels \cup {"want_wake", "waking", "woke", "unwoken", "want_sleep",
                    "sleeping"}

PowerTypeOK ==
  /\ flag \in [Reason -> BOOLEAN]
  /\ sleep_flag \in BOOLEAN /\ online \in BOOLEAN /\ link \in BOOLEAN
  /\ lock \in Threads \cup {Free}
  /\ pc \in [Threads -> Places]
  /\ back \in [Threads -> Labels]
  /\ wakeup_status \in BOOLEAN /\ wakeup_result \in BOOLEAN
  /\ sleep_status \in BOOLEAN
  /\ wake_fail \in 0 .. WakeFailLimit - 1
  /\ camera \in {"asleep", "awake"}
  /\ conn \in {"none", "new", "up"}
  /\ acks \in SUBSET ({"wake", "sleep"} \X BOOLEAN)

\* The camera info table after start-up, every caller at its first label.
PowerInit(start, return) ==
  /\ flag = [r \in Reason |-> FALSE]
  /\ sleep_flag = FALSE /\ online = FALSE /\ link = FALSE
  /\ lock = Free
  /\ pc = start /\ back = return
  /\ wakeup_status = FALSE /\ wakeup_result = FALSE
  /\ sleep_status = FALSE
  /\ wake_fail = 0
  /\ camera \in {"asleep", "awake"} /\ conn = "none"
  /\ acks = {}

Wanted == \E r \in Reason : flag[r]

Go(t, place) == pc' = [pc EXCEPT ![t] = place]

CallWake(t) == Go(t, "want_wake") /\ UNCHANGED back

CallSleep(t, place) == /\ Go(t, "want_sleep")
                       /\ back' = [back EXCEPT ![t] = place]
---------------------------------------------------------------------------
(* VAVAHAL_WakeupCamera_Ex.  A definition ending in _slip, here and in the  *)
(* modules that extend this one, is a plausible mistake in the one after    *)
(* it; no action uses it.                                                   *)

\* The camera is kept awake already: the call is a success.
WakeNotNeeded(t) ==
  /\ pc[t] = "want_wake" /\ lock = Free
  /\ Wanted
  /\ Go(t, "woke")
  /\ UNCHANGED <<flag, sleep_flag, online, lock, back, wakeup_status,
                 wakeup_result, sleep_status, wake_fail,
                 link, camera, conn, acks>>

WakeBegins_slip(t) ==
  /\ pc[t] = "want_wake"
  /\ ~Wanted
  /\ lock' = t
  /\ link' = FALSE /\ conn' = "none"
  /\ wakeup_status' = TRUE
  /\ Go(t, "waking")
  /\ UNCHANGED <<flag, sleep_flag, online, back, wakeup_result,
                 sleep_status, wake_fail, camera, acks>>

\* Nobody keeps it awake: close its sockets and start the exchange.
WakeBegins(t) ==
  /\ pc[t] = "want_wake" /\ lock = Free
  /\ ~Wanted
  /\ lock' = t
  /\ link' = FALSE /\ conn' = "none"
  /\ wakeup_status' = TRUE
  /\ Go(t, "waking")
  /\ UNCHANGED <<flag, sleep_flag, online, back, wakeup_result,
                 sleep_status, wake_fail, camera, acks>>

\* What an unsuccessful exchange leaves behind.
WakeFails(t) ==
  /\ Go(t, "unwoken")
  /\ wake_fail' = IF wake_fail + 1 >= WakeFailLimit THEN 0 ELSE wake_fail + 1
  /\ online' = (online /\ wake_fail + 1 < WakeFailLimit)

\* What a successful one does.
WakeSucceeds(t) ==
  /\ Go(t, "woke")
  /\ wake_fail' = 0
  /\ UNCHANGED online

\* The exchange's loop ends: on an answer, or after 100 turns.  The last turn
\* gives up without looking for an answer, so a failure may follow a good one.
WakeEnds(t) ==
  /\ pc[t] = "waking"
  /\ \/ ~wakeup_status /\ wakeup_result /\ WakeSucceeds(t)
     \/ WakeFails(t)
  /\ lock' = Free
  /\ UNCHANGED <<flag, sleep_flag, back, wakeup_status, wakeup_result,
                 sleep_status, link, camera, conn, acks>>
---------------------------------------------------------------------------
(* VAVAHAL_SleepCamera_Ex.                                                  *)

\* Somebody keeps the camera awake, or it is known to be asleep.
SleepNotNeeded(t) ==
  /\ pc[t] = "want_sleep" /\ lock = Free
  /\ Wanted \/ ~sleep_flag
  /\ Go(t, back[t])
  /\ UNCHANGED <<flag, sleep_flag, online, lock, back, wakeup_status,
                 wakeup_result, sleep_status, wake_fail,
                 link, camera, conn, acks>>

SleepBegins(t) ==
  /\ pc[t] = "want_sleep" /\ lock = Free
  /\ ~Wanted /\ sleep_flag
  /\ lock' = t
  /\ sleep_status' = TRUE
  /\ Go(t, "sleeping")
  /\ UNCHANGED <<flag, sleep_flag, online, back, wakeup_status,
                 wakeup_result, wake_fail, link, camera,
                 conn, acks>>

SleepEnds_slip(t) ==
  /\ pc[t] = "sleeping"
  /\ ~sleep_status
  /\ link' = FALSE /\ conn' = "none"
  /\ lock' = Free
  /\ Go(t, back[t])
  /\ UNCHANGED <<flag, sleep_flag, online, back, wakeup_status,
                 wakeup_result, sleep_status, wake_fail, camera,
                 acks>>

\* The exchange's loop ends, on an answer or after 80 turns, and the sockets
\* are closed in either case.
SleepEnds(t) ==
  /\ pc[t] = "sleeping"
  /\ link' = FALSE /\ conn' = "none"
  /\ lock' = Free
  /\ Go(t, back[t])
  /\ UNCHANGED <<flag, sleep_flag, online, back, wakeup_status,
                 wakeup_result, sleep_status, wake_fail, camera,
                 acks>>
---------------------------------------------------------------------------
(* The radio and the camera.                                                *)

callVars == <<flag, online, lock, pc, back, wake_fail>>

Answer(a) == /\ Cardinality(acks) < MaxAcks
             /\ acks' = acks \cup {a}

\* The camera hears a wake request and answers, TRUE for "done".
HearWake(ok) ==
  /\ \E t \in Threads : pc[t] = "waking"
  /\ camera' = IF ok THEN "awake" ELSE camera
  /\ Answer(<<"wake", ok>>)
  /\ UNCHANGED <<callVars, sleep_flag, wakeup_status, wakeup_result,
                 sleep_status, link, conn>>

HearSleep(ok) ==
  /\ \E t \in Threads : pc[t] = "sleeping"
  /\ camera' = IF ok THEN "asleep" ELSE camera
  /\ conn' = IF ok THEN "none" ELSE conn
  /\ Answer(<<"sleep", ok>>)
  /\ UNCHANGED <<callVars, sleep_flag, wakeup_status, wakeup_result,
                 sleep_status, link>>

\* An answer is received; its double may still be on its way.
Receive(kind, ok) ==
  /\ <<kind, ok>> \in acks
  /\ acks' \in {acks, acks \ {<<kind, ok>>}}

\* rfserver_pth, CC1310_WAKEUP: only an awaited answer counts, any answer is.
WakeAck(ok) ==
  /\ Receive("wake", ok)
  /\ wakeup_status
  /\ wakeup_result' = ok
  /\ wakeup_status' = FALSE
  /\ sleep_flag' = TRUE
  /\ UNCHANGED <<callVars, sleep_status, link, camera, conn>>

\* rfserver_pth, CC1310_SLEEP: sleep_flag is cleared even by a refusal.
SleepAck(ok) ==
  /\ Receive("sleep", ok)
  /\ sleep_status
  /\ sleep_status' = FALSE
  /\ sleep_flag' = FALSE
  /\ UNCHANGED <<callVars, wakeup_status, wakeup_result, link, camera, conn>>

\* An answer is lost, or comes when none is awaited.
AckLost ==
  /\ \E a \in acks : acks' = acks \ {a}
  /\ UNCHANGED <<callVars, sleep_flag, wakeup_status, wakeup_result,
                 sleep_status, link, camera, conn>>

\* The camera wakes on its own: its infrared sensor, a key, power-up.
SelfWake ==
  /\ camera = "asleep"
  /\ camera' = "awake"
  /\ UNCHANGED <<callVars, sleep_flag, wakeup_status, wakeup_result,
                 sleep_status, link, conn, acks>>

\* The Wi-Fi connection breaks; the gateway keeps the dead socket.
Drop ==
  /\ conn # "none"
  /\ conn' = "none"
  /\ UNCHANGED <<callVars, sleep_flag, wakeup_status, wakeup_result,
                 sleep_status, link, camera, acks>>

\* commonclient_pth, start: the socket is stored; a connection is a wake
\* answer too.
Connected ==
  /\ camera = "awake" /\ conn = "none"
  /\ conn' = "new" /\ link' = TRUE
  /\ sleep_flag' = TRUE
  /\ wakeup_result' = (wakeup_result \/ wakeup_status)
  /\ wakeup_status' = FALSE
---------------------------------------------------------------------------
Procedures(t) == \/ WakeNotNeeded(t) \/ WakeBegins(t) \/ WakeEnds(t)
                 \/ SleepNotNeeded(t) \/ SleepBegins(t) \/ SleepEnds(t)

Radio == \/ \E ok \in Answers : HearWake(ok) \/ HearSleep(ok)
                                \/ WakeAck(ok) \/ SleepAck(ok)
         \/ AckLost \/ SelfWake \/ Drop

\* Two threads never exchange radio messages with the camera at once: with one
\* result word per kind and no identifier, an answer would serve the wrong call
\* (mutex_power_lock, vavahal.c).
OneExchange ==
  \A t, u \in Threads :
    pc[t] \in {"waking", "sleeping"} /\ pc[u] \in {"waking", "sleeping"} => t = u
=============================================================================
