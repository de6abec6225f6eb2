------------------------------ MODULE Presence ------------------------------
(***************************************************************************)
(* Whether a camera counts as online: heartcheck_pth of main.c with what   *)
(* it waits for, the radio heartbeats (VAVAHAL_HeartCheck, rfserver_pth)   *)
(* and those over Wi-Fi (commonclient_pth, avclient_pth).                  *)
(*                                                                         *)
(* One channel, paired, switched on and not being updated.  All channels   *)
(* share one variable, the time t_off1 at which a camera was last declared *)
(* offline: OtherOffline is what the others do to it.                      *)
(*                                                                         *)
(* Times are ages in seconds, counted by the action Second up to the       *)
(* largest limit they are compared with; a heartbeat request, which takes  *)
(* up to six seconds, takes none here.                                     *)
(***************************************************************************)
EXTENDS Integers

CONSTANTS RecheckAfter,     \* offline: asked every 20 seconds
          AttendedPeriod,   \* online, an app is connected: every 60 seconds
          IdlePeriod,       \* online, no app: every 180 * 10 seconds
          OfflineNotice,    \* the app is told after 180 seconds offline
          MissLimit,        \* requests in vain that mean offline (3)
          StreamTurns       \* turns a stream keeps wifi_heart set (3)

ASSUME PresenceAssumption ==
  /\ RecheckAfter \in Nat /\ RecheckAfter <= IdlePeriod
  /\ AttendedPeriod \in Nat /\ AttendedPeriod <= IdlePeriod
  /\ IdlePeriod \in Nat /\ OfflineNotice \in Nat
  /\ MissLimit \in Nat \ {0} /\ StreamTurns \in Nat

VARIABLES present,        \* g_camerainfo_dynamic.online
          answered,       \* g_online_flag.online: what the last answer said
          heart_status,   \* a heartbeat is asked for
          wifi_heart, wifi_num,
          checktime, lasttime, offpush,   \* heartcheck_pth; lasttime as an age
          t_off1,         \* as an age
          place,          \* of heartcheck_pth; the branch of an ask is chosen before it
          body,           \* the camera: answering, radio only, gone
          heard,          \* it has heard a request it has not answered yet
          notice,         \* the last step queued the offline notice
          away, back      \* for the properties: Absence

presenceVars == <<present, answered, heart_status, wifi_heart, wifi_num, checktime,
                  lasttime, offpush, t_off1, place, body, heard, notice,
                  away, back>>

\* An online camera is being asked, or an offline one.
Asking == {"askOnline", "askOffline"}

PresenceType ==
  /\ present \in BOOLEAN /\ answered \in BOOLEAN /\ heart_status \in BOOLEAN
  /\ wifi_heart \in BOOLEAN /\ wifi_num \in 0 .. StreamTurns
  /\ checktime \in 0 .. MissLimit - 1
  /\ lasttime \in 0 .. IdlePeriod
  /\ offpush \in BOOLEAN
  /\ t_off1 \in 0 .. OfflineNotice
  /\ place \in {"sleep", "turn"} \cup Asking
  /\ body \in {"there", "radio", "gone"} /\ heard \in BOOLEAN
  /\ notice \in BOOLEAN
  /\ away \in 0 .. OfflineNotice /\ back \in BOOLEAN

PresenceInit ==
  /\ present = FALSE /\ answered = FALSE /\ heart_status = FALSE
  /\ wifi_heart = FALSE /\ wifi_num = 0
  /\ checktime = 0 /\ lasttime = IdlePeriod
  /\ offpush = FALSE
  /\ t_off1 = 0
  /\ place = "sleep"
  /\ body \in {"there", "radio", "gone"} /\ heard = FALSE
  /\ notice = FALSE
  /\ away = 0 /\ back = FALSE
-----------------------------------------------------------------------------
(* heartcheck_pth. *)

Older(age, limit) == IF age < limit THEN age + 1 ELSE age

\* What the properties look back to: the seconds since online went to 0, and
\* whether the camera has been online since it was last declared offline.
Absence(age) ==
  /\ away' = IF present \/ present' THEN 0 ELSE age
  /\ back' = (back \/ present')

\* A step that does not queue the notice.
Quiet == notice' = FALSE /\ Absence(away)

\* The loop's second.
Second ==
  /\ place = "sleep"
  /\ place' = "turn"
  /\ lasttime' = Older(lasttime, IdlePeriod)
  /\ t_off1' = Older(t_off1, OfflineNotice)
  /\ UNCHANGED <<present, answered, heart_status, wifi_heart, wifi_num, checktime,
                 offpush, body, heard>>
  /\ notice' = FALSE
  /\ Absence(Older(away, OfflineNotice))

Fades_slip ==
  /\ wifi_heart' = wifi_heart
  /\ wifi_num' = IF wifi_heart /\ wifi_num > 0 THEN wifi_num - 1 ELSE wifi_num

\* wifi_heart lasts while data keep coming: each turn uses up one of wifi_num.
Fades ==
  /\ wifi_heart' = (wifi_heart /\ wifi_num > 0)
  /\ wifi_num' = IF wifi_heart /\ wifi_num > 0 THEN wifi_num - 1 ELSE wifi_num

turnRest == <<heart_status, checktime, offpush, t_off1, body, heard>>

\* Seen over Wi-Fi: nothing to ask.
SeenByWifi ==
  /\ place = "turn" /\ Fades
  /\ present /\ wifi_heart'
  /\ lasttime' = 0
  /\ place' = "sleep"
  /\ UNCHANGED <<present, answered, turnRest>>
  /\ Quiet

\* An answer came after its request was given up: online after all.
AnsweredLate ==
  /\ place = "turn" /\ Fades
  /\ ~present /\ answered
  /\ present' = TRUE
  /\ lasttime' = 0
  /\ place' = "sleep"
  /\ UNCHANGED <<answered, turnRest>>
  /\ Quiet

\* Is it time to ask?  attended: an app session exists.
Due(attended) ==
  lasttime >= IF present THEN (IF attended THEN AttendedPeriod ELSE IdlePeriod)
              ELSE RecheckAfter

NotYet ==
  /\ place = "turn" /\ Fades
  /\ IF present THEN ~wifi_heart' ELSE ~answered
  /\ \E attended \in BOOLEAN : ~Due(attended)
  /\ place' = "sleep"
  /\ UNCHANGED <<present, answered, lasttime, turnRest>>
  /\ Quiet

\* VAVAHAL_HeartCheck begins.
Asks ==
  /\ place = "turn" /\ Fades
  /\ IF present THEN ~wifi_heart' ELSE ~answered
  /\ \E attended \in BOOLEAN : Due(attended)
  /\ answered' = FALSE
  /\ heart_status' = TRUE
  /\ place' = IF present THEN "askOnline" ELSE "askOffline"
  /\ UNCHANGED <<present, checktime, lasttime, offpush, t_off1, body, heard>>
  /\ Quiet

askRest == <<answered, heart_status, wifi_heart, wifi_num, body, heard>>

\* It was answered: what the answer says holds.
CheckAnswered ==
  /\ place \in Asking /\ ~heart_status
  /\ present' = answered
  /\ checktime' = 0 /\ lasttime' = 0
  /\ offpush' = FALSE
  /\ place' = "sleep"
  /\ UNCHANGED <<t_off1, askRest>>
  /\ Quiet

\* Not answered, and not for the last time: asked again next second.
CheckMissed ==
  /\ place \in Asking /\ heart_status
  /\ checktime + 1 < MissLimit
  /\ checktime' = checktime + 1
  /\ place' = "sleep"
  /\ UNCHANGED <<present, lasttime, offpush, t_off1, askRest>>
  /\ Quiet

DeclareOffline_slip ==
  /\ place = "askOnline" /\ heart_status
  /\ checktime + 1 >= MissLimit
  /\ present' = FALSE
  /\ checktime' = 0 /\ lasttime' = 0
  /\ offpush' = TRUE
  /\ place' = "sleep"
  /\ UNCHANGED <<t_off1, askRest>>
  /\ notice' = FALSE
  /\ away' = (IF present THEN 0 ELSE away) /\ back' = FALSE

\* The last request in vain of a camera that was online when it was asked.
DeclareOffline ==
  /\ place = "askOnline" /\ heart_status
  /\ checktime + 1 >= MissLimit
  /\ present' = FALSE
  /\ checktime' = 0 /\ lasttime' = 0
  /\ offpush' = TRUE
  /\ t_off1' = 0
  /\ place' = "sleep"
  /\ UNCHANGED askRest
  /\ notice' = FALSE
  /\ away' = (IF present THEN 0 ELSE away) /\ back' = FALSE

StillOffline_slip ==
  /\ place = "askOffline" /\ heart_status
  /\ checktime + 1 >= MissLimit
  /\ checktime' = 0 /\ lasttime' = 0
  /\ offpush' = FALSE
  /\ notice' = (offpush /\ t_off1 >= OfflineNotice)
  /\ place' = "sleep"
  /\ UNCHANGED <<present, t_off1, askRest>>
  /\ Absence(away)

\* The last request in vain of one that was offline: time for the notice?
StillOffline ==
  /\ place = "askOffline" /\ heart_status
  /\ checktime + 1 >= MissLimit
  /\ checktime' = 0 /\ lasttime' = 0
  /\ notice' = (offpush /\ t_off1 >= OfflineNotice)
  /\ offpush' = (offpush /\ ~notice')
  /\ place' = "sleep"
  /\ UNCHANGED <<present, t_off1, askRest>>
  /\ Absence(away)

Checker == \/ Second \/ SeenByWifi \/ AnsweredLate \/ NotYet \/ Asks
           \/ CheckAnswered \/ CheckMissed \/ DeclareOffline \/ StillOffline

\* Another channel's camera is declared offline.
OtherOffline ==
  /\ t_off1' = 0
  /\ UNCHANGED <<present, answered, heart_status, wifi_heart, wifi_num, checktime,
                 lasttime, offpush, place, body, heard>>
  /\ Quiet
-----------------------------------------------------------------------------
(* The camera, and the threads that hear from it. *)

checkerVars == <<checktime, lasttime, offpush, t_off1, place>>

\* It is carried out of reach, returns, or has its main processor off.
Moves ==
  /\ body' \in {"there", "radio", "gone"} \ {body}
  /\ UNCHANGED <<present, answered, heart_status, wifi_heart, wifi_num, heard,
                 checkerVars>>
  /\ Quiet

\* One of the requests sent is heard.
HearHeart ==
  /\ place \in Asking /\ body # "gone"
  /\ heard' = TRUE
  /\ UNCHANGED <<present, answered, heart_status, wifi_heart, wifi_num, body,
                 checkerVars>>
  /\ Quiet

RadioHeartbeat_slip ==
  /\ heard /\ body # "gone"
  /\ heard' = FALSE
  /\ answered' = (body # "there")
  /\ heart_status' = FALSE
  /\ UNCHANGED <<present, wifi_heart, wifi_num, body, checkerVars>>
  /\ Quiet

\* rfserver_pth, CC1310_HARTBEAT, in time or late.
RadioHeartbeat ==
  /\ heard /\ body # "gone"
  /\ heard' = FALSE
  /\ answered' = (body = "there")
  /\ heart_status' = FALSE
  /\ UNCHANGED <<present, wifi_heart, wifi_num, body, checkerVars>>
  /\ Quiet

RadioLost ==
  /\ heard
  /\ heard' = FALSE
  /\ UNCHANGED <<present, answered, heart_status, wifi_heart, wifi_num, body,
                 checkerVars>>
  /\ Quiet

\* The command connection is made; closed for a sleeping camera.
WifiUp(up) ==
  /\ up => body = "there"
  /\ wifi_heart' = up
  /\ UNCHANGED <<present, answered, heart_status, wifi_num, body, heard,
                 checkerVars>>
  /\ Quiet

\* VAVA_MSGTYPE_HEARTBEAT.
WifiHeartbeat ==
  /\ body = "there"
  /\ present' = TRUE /\ answered' = TRUE /\ heart_status' = FALSE
  /\ UNCHANGED <<wifi_heart, wifi_num, body, heard, checkerVars>>
  /\ Quiet

\* Data on the stream connection.
StreamData ==
  /\ body = "there"
  /\ wifi_num' = StreamTurns
  /\ UNCHANGED <<present, answered, heart_status, wifi_heart, body, heard,
                 checkerVars>>
  /\ Quiet

\* Wake calls failed three times running (VAVAHAL_WakeupCamera_Ex).
WakesFailed ==
  /\ present' = FALSE
  /\ UNCHANGED <<answered, heart_status, wifi_heart, wifi_num, body, heard,
                 checkerVars>>
  /\ Quiet

Heard == \/ HearHeart \/ RadioHeartbeat \/ RadioLost \/ WifiHeartbeat
         \/ StreamData \/ \E up \in BOOLEAN : WifiUp(up)

PresenceNext == Checker \/ OtherOffline \/ Moves \/ Heard \/ WakesFailed

(* heartcheck_pth sleeps one second a turn and its requests end; a camera in *)
(* reach hears one of the calls a request makes, and answers, sooner or later. *)
PresenceFairness ==
  /\ WF_presenceVars(Checker)
  /\ SF_presenceVars(HearHeart) /\ SF_presenceVars(RadioHeartbeat)

PresenceSpec == PresenceInit /\ [][PresenceNext]_presenceVars /\ PresenceFairness
-----------------------------------------------------------------------------
(* Properties. *)

(* A camera that never answers again, out of reach or with only its radio   *)
(* left, ends up offline.  Two things could keep it online: wifi_heart and  *)
(* wifi_num left set by a connection that died without a word, and a late   *)
(* answer believed over and over.  A wake call that fails makes the second  *)
(* one possible, online going to 0 while the last answer still says 1: the  *)
(* app user who keeps trying keeps the camera coming back, so wake calls    *)
(* must fail only finitely often.                                           *)
SilentGoesOffline ==
  <>[](body # "there") /\ <>[][~WakesFailed]_presenceVars => <>[](~present)

(* A camera that stays within reach is online again and again, whatever     *)
(* answers came late, were lost, or belonged to a request given up.         *)
AnsweringComesOnline == <>[](body = "there") => []<>present

(* "Push after three minutes continuously offline": the notice goes out     *)
(* when the camera has been offline for OfflineNotice seconds.  The code    *)
(* compares t_off1, the time of the last declaration, and only an answered  *)
(* check takes offpush back: a camera that a late answer or its heartbeat   *)
(* over Wi-Fi brought online in between is announced as soon as it is gone  *)
(* again.                                                                   *)
NoticeNotEarly == notice => away >= OfflineNotice

(* What the code does keep: a camera is announced only while it is offline, *)
(* and one that was not online since its declaration (by a late answer or   *)
(* over Wi-Fi) only after OfflineNotice seconds of absence, whatever the    *)
(* other channels do to the t_off1 they share.                              *)
NoticeAfterAbsence == notice => ~present /\ (away >= OfflineNotice \/ back)

(* A camera that was declared offline and is gone is announced, or comes    *)
(* back.  Two things may rob the app of the notice: another camera declared *)
(* offline again and again, which starts t_off1 anew, and a radio answer    *)
(* that says the camera is off, which takes offpush back.                   *)
NoticeComes ==
  <>[][~OtherOffline]_presenceVars =>
    ((offpush /\ body = "gone" /\ place = "sleep")
       ~> (notice \/ present \/ body # "gone"))
=============================================================================
