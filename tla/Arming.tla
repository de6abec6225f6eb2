------------------------------- MODULE Arming -------------------------------
(***************************************************************************)
(* One channel from its first check to its motion sensor: firstcheck_pth   *)
(* sleeps and wakes a camera that is not ready (main.c:1170), the arming   *)
(* thread works out from the schedule whether the sensor is on and tells   *)
(* the camera (armcheck.c), apps set the schedule and the sensitivity      *)
(* (vavahal.c:9957, 10025).  Both callers of VAVAHAL_SetPirStatus share    *)
(* pirset_status, without a lock.                                          *)
(*                                                                         *)
(* A wake or sleep call of the first check succeeds or fails (CameraPower  *)
(* has its steps).  The arming thread reads a schedule in one step.  Left  *)
(* out: a low battery and a running update, for which the check skips the  *)
(* camera.                                                                 *)
(***************************************************************************)
EXTENDS Integers

CONSTANTS DayLength,     \* 24 * 3600
          Weekdays,      \* 7
          Lists,         \* lists of entries that apps set, as sets of
                         \* [start, end, days]
          Levels,        \* sensitivities, HIGH .. LOW
          Middle         \* VAVA_PIR_SENSITIVITY_MIDDLE

ASSUME ArmingAssumption ==
  /\ DayLength \in Nat \ {0} /\ Weekdays \in Nat \ {0}
  /\ \A list \in Lists : list \subseteq
       [start : 0 .. DayLength - 1, end : 0 .. DayLength - 1,
        days : SUBSET (0 .. Weekdays - 1)]
  /\ Levels \subseteq Nat \ {0} /\ Middle \in Levels

VARIABLES now,           \* weekday and time of day
          arming,        \* g_camera_arminfo_v1: type, armdata, status
          session,       \* what an app's new schedule still has to fill in
          tmpstatus,     \* of the arming thread: what the camera was told
          armer,         \* the arming thread's call, and whether it is alone
          setter,        \* a session's call for a new sensitivity
          pirset,        \* pirset_status
          level,         \* g_pir_sensitivity
          sensor,        \* of the camera: 0 (off) or its sensitivity
          ack,           \* the answer on its way, and whether its call is over
          first,         \* first_flag
          online,
          awake,         \* the camera is, and has not reported yet
          check,         \* firstcheck_pth
          doubt          \* history: tmpstatus may not be what the camera has

cameraVars == <<first, online, awake, check>>
callVars == <<armer, setter, pirset, sensor, ack>>
armingVars == <<now, arming, session, tmpstatus, level, doubt, callVars, cameraVars>>

Types == {"disable", "enable", "ontime"}
Idle == [val |-> -1, alone |-> TRUE]
NoSchedule == [type |-> "none", list |-> {}]
NoAnswer == [val |-> -1, late |-> FALSE]
Values == Levels \cup {0}
On(v) == IF v = 0 THEN 0 ELSE 1

ArmingType ==
  /\ now \in [day : 0 .. Weekdays - 1, time : 0 .. DayLength - 1]
  /\ arming \in [type : Types, list : Lists \cup {{}}, status : {0, 1}]
  /\ session \in [type : Types \cup {"none"}, list : Lists \cup {{}}]
  /\ tmpstatus \in {-1, 0, 1} /\ pirset \in {0, 1}
  /\ armer \in [val : Values \cup {-1}, alone : BOOLEAN]
  /\ setter \in Levels \cup {-1}
  /\ level \in Levels /\ sensor \in Values
  /\ ack \in [val : Values \cup {-1}, late : BOOLEAN]
  /\ first \in {0, 1} /\ online \in {0, 1} /\ awake \in BOOLEAN
  /\ check \in {"idle", "sleep1", "sleep2", "wake1", "wake2"}
  /\ doubt \in BOOLEAN

\* The gateway has started: VAVAHAL_InitCameraInfo, and the default schedule.
ArmingInit ==
  /\ now = [day |-> 0, time |-> 0]
  /\ arming = [type |-> "enable", list |-> {}, status |-> 1]
  /\ session = NoSchedule /\ tmpstatus = -1 /\ armer = Idle /\ setter = -1 /\ pirset = 0
  /\ level = Middle /\ sensor \in {0, Middle} /\ ack = NoAnswer
  /\ first = 1 /\ online = 0 /\ awake \in BOOLEAN /\ check = "idle" /\ doubt = FALSE

Tick ==
  /\ now' = IF now.time < DayLength - 1 THEN [now EXCEPT !.time = @ + 1]
            ELSE [day |-> (now.day + 1) % Weekdays, time |-> 0]
  /\ UNCHANGED <<arming, session, tmpstatus, level, doubt, callVars, cameraVars>>
-----------------------------------------------------------------------------
(* Apps. *)

\* VAVAHAL_ParamParse_ArmInfo_V1 first clears the schedule, status with it ...
SetSchedule(type, list) ==
  /\ session = NoSchedule
  /\ session' = [type |-> type, list |-> list]
  /\ arming' = [type |-> "disable", list |-> {}, status |-> 0]
  /\ UNCHANGED <<now, tmpstatus, level, doubt, callVars, cameraVars>>

\* ... and then enters the new one.
FillSchedule ==
  /\ session # NoSchedule
  /\ session' = NoSchedule
  /\ arming' = [arming EXCEPT !.type = session.type, !.list = session.list]
  /\ UNCHANGED <<now, tmpstatus, level, doubt, callVars, cameraVars>>

\* The camera is told of a new sensitivity when status says the sensor is on.
SetLevel(l) ==
  /\ setter = -1 /\ level # l
  /\ IF arming.status = 1
     THEN /\ setter' = l /\ pirset' = 1
          /\ armer' = IF armer.val = -1 THEN armer ELSE [armer EXCEPT !.alone = FALSE]
          /\ doubt' = (doubt \/ tmpstatus = 0)
          /\ UNCHANGED level
     ELSE level' = l /\ UNCHANGED <<setter, pirset, armer, doubt>>
  /\ UNCHANGED <<now, arming, session, tmpstatus, sensor, ack, cameraVars>>

\* Its call is over, by an answer or not; answers that come now come late.
LevelSet ==
  /\ setter # -1
  /\ \/ pirset = 0 /\ level' = setter
     \/ UNCHANGED level
  /\ setter' = -1
  /\ ack' = [ack EXCEPT !.late = ack # NoAnswer]
  /\ UNCHANGED <<now, arming, session, tmpstatus, doubt, armer, pirset, sensor,
                 cameraVars>>
-----------------------------------------------------------------------------
(* The arming thread. *)

InEntry_slip(e) ==
  LET yesterday == (now.day + 1) % Weekdays IN
  IF e.end >= e.start
  THEN now.day \in e.days /\ now.time > e.start /\ now.time < e.end
  ELSE IF now.day \in e.days THEN now.time > e.start
  ELSE yesterday \in e.days /\ now.time > 0 /\ now.time < e.end

\* Is it time for this entry?
InEntry(e) ==
  LET yesterday == (now.day + Weekdays - 1) % Weekdays IN
  IF e.end >= e.start
  THEN now.day \in e.days /\ now.time > e.start /\ now.time < e.end
  ELSE IF now.day \in e.days THEN now.time > e.start
  ELSE yesterday \in e.days /\ now.time > 0 /\ now.time < e.end

ArmNow ==
  IF \/ arming.type = "enable"
     \/ arming.type = "ontime" /\ \E e \in arming.list : InEntry(e)
  THEN 1 ELSE 0

Unready_slip ==
  /\ armer.val = -1 /\ online = 1 /\ first = 1
  /\ doubt' = FALSE
  /\ UNCHANGED <<now, arming, session, tmpstatus, level, callVars, cameraVars>>

\* What it has told a camera counts no more when that is to be checked.
Unready ==
  /\ armer.val = -1 /\ online = 1 /\ first = 1
  /\ tmpstatus' = -1 /\ doubt' = FALSE
  /\ UNCHANGED <<now, arming, session, level, callVars, cameraVars>>

\* The camera is told when what it was told last is something else.
Decide ==
  /\ armer.val = -1 /\ online = 1 /\ first = 0
  /\ arming' = [arming EXCEPT !.status = ArmNow]
  /\ IF tmpstatus = ArmNow THEN UNCHANGED <<armer, pirset>>
     ELSE /\ armer' = [val |-> IF ArmNow = 1 THEN level ELSE 0, alone |-> setter = -1]
          /\ pirset' = 1
  /\ UNCHANGED <<now, session, tmpstatus, level, doubt, setter, sensor, ack, cameraVars>>

\* The answer has come: what is remembered is status as it is by now.
Told ==
  /\ armer.val # -1 /\ pirset = 0
  /\ tmpstatus' = arming.status
  /\ doubt' = (~armer.alone \/ arming.status # On(armer.val))
  /\ armer' = Idle
  /\ ack' = [ack EXCEPT !.late = ack # NoAnswer]
  /\ UNCHANGED <<now, arming, session, level, setter, pirset, sensor, cameraVars>>

\* No answer has come, or one during the call's last wait.
NotTold ==
  /\ armer.val # -1
  /\ doubt' = (doubt \/ (tmpstatus # -1 /\ tmpstatus # On(sensor)))
  /\ armer' = Idle
  /\ ack' = [ack EXCEPT !.late = ack # NoAnswer]
  /\ UNCHANGED <<now, arming, session, tmpstatus, level, setter, pirset, sensor,
                 cameraVars>>
-----------------------------------------------------------------------------
(* The radio and the camera's sensor. *)

\* The camera hears a request of either call, and its answer is lost or not.
Hear(v, answered) ==
  /\ v # -1 /\ pirset = 1 /\ v \in {armer.val, setter}
  /\ sensor' = v
  /\ IF answered THEN ack = NoAnswer /\ ack' = [val |-> v, late |-> FALSE]
     ELSE UNCHANGED ack
  /\ UNCHANGED <<now, arming, session, tmpstatus, level, doubt, armer, setter, pirset,
                 cameraVars>>

\* rfserver_pth: whatever the answer says, whoever waits is served.
PirReceive ==
  /\ ack # NoAnswer
  /\ pirset' = 0
  /\ level' = IF ack.val = 0 THEN level ELSE ack.val
  /\ armer' = IF armer.val # -1 /\ ack.late THEN [armer EXCEPT !.alone = FALSE]
              ELSE armer
  /\ ack' = NoAnswer
  /\ UNCHANGED <<now, arming, session, tmpstatus, doubt, setter, sensor, cameraVars>>

PirAckLost ==
  /\ ack # NoAnswer /\ ack' = NoAnswer
  /\ UNCHANGED <<now, arming, session, tmpstatus, level, doubt, armer, setter, pirset,
                 sensor, cameraVars>>
-----------------------------------------------------------------------------
(* The first check. *)

CheckBegins ==
  /\ check = "idle" /\ online = 1 /\ first = 1
  /\ check' = "sleep1"
  /\ UNCHANGED <<now, arming, session, tmpstatus, level, doubt, callVars, first,
                 online, awake>>

CheckSleeps_slip(ok) ==
  /\ check \in {"sleep1", "sleep2"}
  /\ check' = IF check = "sleep1" /\ ~ok THEN "sleep2" ELSE "idle"
  /\ awake' = (awake /\ ~ok)
  /\ UNCHANGED <<now, arming, session, tmpstatus, level, doubt, callVars, first,
                 online>>

\* A sleep call that succeeds on the second try leaves retrytime at 0: the
\* camera is not woken in this round.
CheckSleeps(ok) ==
  /\ check \in {"sleep1", "sleep2"}
  /\ check' = IF check = "sleep2" THEN "idle" ELSE IF ok THEN "wake1" ELSE "sleep2"
  /\ awake' = (awake /\ ~ok)
  /\ UNCHANGED <<now, arming, session, tmpstatus, level, doubt, callVars, first,
                 online>>

CheckWakes(ok) ==
  /\ check \in {"wake1", "wake2"}
  /\ check' = IF ok \/ check = "wake2" THEN "idle" ELSE "wake2"
  /\ awake' = (awake \/ ok)
  /\ UNCHANGED <<now, arming, session, tmpstatus, level, doubt, callVars, first,
                 online>>

\* commonclient_pth: the camera reports after it was woken.
FirstConnect ==
  /\ awake
  /\ awake' = FALSE /\ first' = 0
  /\ UNCHANGED <<now, arming, session, tmpstatus, level, doubt, callVars, online,
                 check>>

\* It falls asleep, or is woken by its sensor or for somebody else.
AwakeChanges ==
  /\ awake' = ~awake
  /\ UNCHANGED <<now, arming, session, tmpstatus, level, doubt, callVars, first,
                 online, check>>
-----------------------------------------------------------------------------
(* Who else changes first_flag. *)

\* The heartbeat check, a wake call that failed three times, and the end of an
\* update.
NotReadyAgain(o, f) ==
  /\ online = 1 /\ f \in {first, 1} /\ (o = 0 \/ f = 1)
  /\ online' = o /\ first' = f
  /\ UNCHANGED <<now, arming, session, tmpstatus, level, doubt, callVars, awake,
                 check>>

\* By the radio; a heartbeat over Wi-Fi makes it ready at once.
ComesOnline(wifi) ==
  /\ online = 0
  /\ online' = 1
  /\ first' = IF wifi THEN 0 ELSE first
  /\ UNCHANGED <<now, arming, session, tmpstatus, level, doubt, callVars, awake,
                 check>>

\* The camera is removed and another one, whose sensor is on or off, entered:
\* VAVAHAL_InitCameraInfo and PAIR_ACK.
Paired(v) ==
  /\ online' = 0 /\ first' = 1 /\ awake' = TRUE
  /\ arming' = [type |-> "enable", list |-> {}, status |-> 1]
  /\ level' = Middle /\ sensor' = v /\ doubt' = TRUE
  /\ armer' = [armer EXCEPT !.alone = armer.val = -1]
  /\ UNCHANGED <<now, session, tmpstatus, setter, pirset, ack, check>>
-----------------------------------------------------------------------------
Schedules ==
  FillSchedule \/ \E type \in Types, list \in Lists : SetSchedule(type, list)

Sensitivities == LevelSet \/ \E l \in Levels : SetLevel(l)

ArmThread == Unready \/ Decide \/ Told \/ NotTold

PirRadio ==
  PirReceive \/ PirAckLost \/ \E v \in Values, answered \in BOOLEAN : Hear(v, answered)

CheckThread ==
  CheckBegins \/ \E ok \in BOOLEAN : CheckSleeps(ok) \/ CheckWakes(ok)

Reports == FirstConnect \/ AwakeChanges

Presences ==
  \/ \E o, f \in {0, 1} : NotReadyAgain(o, f)
  \/ \E wifi \in BOOLEAN : ComesOnline(wifi)

ArmingNext ==
  \/ Tick \/ Schedules \/ Sensitivities \/ ArmThread \/ PirRadio \/ CheckThread
  \/ Reports \/ Presences \/ \E v \in Values : Paired(v)

CallHeard == \E answered \in BOOLEAN : Hear(armer.val, answered)

(* The two threads go on; the loops of their calls are bounded by          *)
(* counters. A camera that is asked again and again hears, sleeps and      *)
(* wakes at the first try and reports: its firmware and the radio.         *)
ArmingFairness ==
  /\ WF_armingVars(ArmThread) /\ WF_armingVars(CheckThread)
  /\ SF_armingVars(CallHeard)
  /\ SF_armingVars(CheckSleeps(TRUE) /\ check = "sleep1")
  /\ SF_armingVars(CheckWakes(TRUE)) /\ SF_armingVars(FirstConnect)

ArmingSpec == ArmingInit /\ [][ArmingNext]_armingVars /\ ArmingFairness
-----------------------------------------------------------------------------
(* Properties. *)

(* An entry's interval, as the app shows it: from its start on each of its *)
(* days to its end, on the next day when the end is the earlier one.       *)
Covers(e) ==
  \E d \in e.days :
    LET week == Weekdays * DayLength
        since == (now.day * DayLength + now.time
                    + week - (d * DayLength + e.start)) % week
    IN  0 < since /\ since < (e.end + DayLength - e.start) % DayLength

(* The two gaps of the code: at midnight the night's second half has not   *)
(* begun, and on a day that is chosen itself the half that began the day   *)
(* before does not count.                                                  *)
Gap(e) == e.end < e.start /\ (now.time = 0 \/ now.day \in e.days)

(* The schedule arms at no time but those of its entries, and at all of    *)
(* those but for the gaps: for every interval, over midnight and over the  *)
(* week's end.                                                             *)
ScheduleFollowed ==
  arming.type = "ontime" =>
    /\ ArmNow = 1 => \E e \in arming.list : Covers(e)
    /\ ArmNow = 0 => \A e \in arming.list : Covers(e) => Gap(e)

(* What the arming thread remembers of the sensor is so, though answers are *)
(* lost or late and cameras go and come back, as long as nothing happened   *)
(* that doubt stands for: a call that a session's call overlapped or that   *)
(* took a late answer for its own; a status that a new schedule changed     *)
(* under the call; a call that failed though the camera heard it; a         *)
(* sensitivity sent when the thread had told the sensor to be off; and a    *)
(* camera paired anew.  Each of them does leave the thread wrong; doubt     *)
(* ends when the camera is seen unready, or with the next good answer.      *)
SensorKnown ==
  ~doubt /\ armer.val = -1 /\ tmpstatus # -1 => On(sensor) = tmpstatus

(* An answer is taken on its word, whatever was lost, late, or done about   *)
(* the schedule: when a call that was alone ends with one, the sensor is as *)
(* that call has set it.  Alone means that no session's call overlapped it, *)
(* no late answer was taken during it and the camera was not replaced.      *)
OwnAnswer == [][Told /\ armer.alone => sensor = armer.val]_armingVars

(* A camera that stays online and is not made unready again and again is   *)
(* checked, and then its sensor follows what the schedule says in the end, *)
(* if there is no lasting doubt.                                           *)
SensorFollows ==
  \A v \in {0, 1} :
    /\ <>[](online = 1 /\ ~doubt /\ session = NoSchedule /\ ArmNow = v)
    /\ <>[][first' <= first]_first
    => <>[](On(sensor) = v)
=============================================================================
