-------------------------- MODULE CameraStateProofs -------------------------
(***************************************************************************)
(* Proofs about what the gateway holds of one camera, for all values of    *)
(* the constants: whether it is present (Presence), what its sensor was    *)
(* told and when it is armed (Arming), whether it is being updated         *)
(* (Update).                                                               *)
(***************************************************************************)
EXTENDS Presence, Arming, Update, TLAPS
-----------------------------------------------------------------------------
(* Presence. *)

(* A camera that was not online since its declaration is still offline, and *)
(* no longer away than t_off1 says: another camera's declaration can only    *)
(* make t_off1 younger.  A camera asked as an offline one has not come back  *)
(* while the request stands: what brings it back takes the request off.      *)
NoticeInv ==
  /\ offpush /\ ~back => ~present /\ t_off1 <= away
  /\ place = "askOffline" /\ heart_status => ~present
  /\ notice => ~present /\ (away >= OfflineNotice \/ back)

PresenceInv == PresenceType /\ NoticeInv

\* The variables that are true or false, and those that are ages or places.
FlagType ==
  /\ present \in BOOLEAN /\ answered \in BOOLEAN /\ heart_status \in BOOLEAN
  /\ wifi_heart \in BOOLEAN /\ offpush \in BOOLEAN /\ heard \in BOOLEAN
  /\ notice \in BOOLEAN /\ back \in BOOLEAN

AgeType ==
  /\ wifi_num \in 0 .. StreamTurns
  /\ checktime \in 0 .. MissLimit - 1
  /\ lasttime \in 0 .. IdlePeriod
  /\ t_off1 \in 0 .. OfflineNotice /\ away \in 0 .. OfflineNotice
  /\ place \in {"sleep", "turn", "askOnline", "askOffline"}
  /\ body \in {"there", "radio", "gone"}

LEMMA TypeParts == PresenceType <=> FlagType /\ AgeType
<1>1. place \in {"sleep", "turn"} \cup Asking
        <=> place \in {"sleep", "turn", "askOnline", "askOffline"}
  BY DEF Asking
<1> QED BY <1>1, Zenon DEF PresenceType, FlagType, AgeType

LEMMA OlderAge ==
  ASSUME NEW limit \in Nat, NEW age \in 0 .. limit
  PROVE  Older(age, limit) \in 0 .. limit /\ Older(age, limit) >= age
  BY DEF Older

LEMMA FadesType ==
  ASSUME FlagType, AgeType, Fades
  PROVE  wifi_heart' \in BOOLEAN /\ wifi_num' \in 0 .. StreamTurns
<1>1. wifi_heart' \in BOOLEAN
  BY Zenon DEF Fades
<1>2. wifi_num' \in 0 .. StreamTurns
  <2>1. wifi_num' = wifi_num \/ (wifi_num > 0 /\ wifi_num' = wifi_num - 1)
    BY Zenon DEF Fades
  <2> QED BY <2>1, PresenceAssumption DEF AgeType
<1> QED BY <1>1, <1>2

LEMMA AbsenceType ==
  ASSUME NEW age \in 0 .. OfflineNotice, Absence(age)
  PROVE  back' \in BOOLEAN /\ away' \in 0 .. OfflineNotice
<1>1. back' \in BOOLEAN
  BY Zenon DEF Absence
<1>2. away' = 0 \/ away' = age
  BY Zenon DEF Absence
<1> QED BY <1>1, <1>2, PresenceAssumption
-----------------------------------------------------------------------------
\* What every step but those of Second, DeclareOffline and StillOffline does.
Still ==
  \/ SeenByWifi \/ AnsweredLate \/ NotYet \/ Asks \/ CheckAnswered \/ CheckMissed
  \/ OtherOffline \/ Moves \/ WakesFailed \/ Heard

LEMMA Steps ==
  ASSUME PresenceNext
  PROVE  Second \/ DeclareOffline \/ StillOffline \/ Still
  BY Zenon DEF PresenceNext, Checker, Still

LEMMA StillQuiet ==
  ASSUME Still
  PROVE  Quiet
  BY Zenon DEF Still, SeenByWifi, AnsweredLate, NotYet, Asks, CheckAnswered, CheckMissed,
     OtherOffline, Moves, WakesFailed, Heard, HearHeart, RadioHeartbeat, RadioLost,
     WifiHeartbeat, StreamData, WifiUp

LEMMA PresenceInitInv == PresenceInit => PresenceInv
<1> SUFFICES ASSUME PresenceInit PROVE PresenceInv
  OBVIOUS
<1>1. FlagType
  BY Zenon DEF PresenceInit, FlagType
<1>2. AgeType
  BY PresenceAssumption DEF PresenceInit, AgeType
<1>3. NoticeInv
  BY Zenon DEF PresenceInit, NoticeInv
<1> QED BY <1>1, <1>2, <1>3, TypeParts DEF PresenceInv

(* What a step does to the flags, to the ages and to the notice.            *)
LEMMA FlagsKept ==
  ASSUME PresenceInv, PresenceNext
  PROVE  FlagType'
<1> FlagType /\ AgeType
  BY TypeParts DEF PresenceInv
<1>1. notice' \in BOOLEAN /\ back' \in BOOLEAN
  <2>1. CASE Second
    BY <2>1, Zenon DEF Second, Absence
  <2>2. CASE DeclareOffline
    BY <2>2, Zenon DEF DeclareOffline
  <2>3. CASE StillOffline
    BY <2>3, Zenon DEF StillOffline, Absence
  <2>4. CASE Still
    BY <2>4, StillQuiet, Zenon DEF Quiet, Absence
  <2> QED BY <2>1, <2>2, <2>3, <2>4, Steps
<1> USE DEF FlagType
<1>2. CASE Second
  BY <1>1, <1>2, Zenon DEF Second
<1>3. CASE SeenByWifi \/ NotYet \/ AnsweredLate
  <2>1. wifi_heart' \in BOOLEAN /\ present' \in BOOLEAN
    BY <1>3, FadesType, Zenon DEF SeenByWifi, NotYet, AnsweredLate
  <2> QED BY <1>1, <1>3, <2>1, Zenon DEF SeenByWifi, NotYet, AnsweredLate, turnRest
<1>5. CASE Asks
  <2>1. wifi_heart' \in BOOLEAN
    BY <1>5, FadesType, Zenon DEF Asks
  <2> QED BY <1>1, <1>5, <2>1, Zenon DEF Asks
<1>6. CASE CheckAnswered
  BY <1>1, <1>6, Zenon DEF CheckAnswered, askRest
<1>7. CASE CheckMissed
  BY <1>1, <1>7, Zenon DEF CheckMissed, askRest
<1>8. CASE DeclareOffline
  BY <1>1, <1>8, Zenon DEF DeclareOffline, askRest
<1>9. CASE StillOffline
  BY <1>1, <1>9, Zenon DEF StillOffline, askRest
<1>10. CASE OtherOffline
  BY <1>1, <1>10, Zenon DEF OtherOffline
<1>11. CASE Moves
  BY <1>1, <1>11, Zenon DEF Moves, checkerVars
<1>12. CASE WakesFailed
  BY <1>1, <1>12, Zenon DEF WakesFailed, checkerVars
<1>13. CASE HearHeart \/ RadioLost
  BY <1>1, <1>13, Zenon DEF HearHeart, RadioLost, checkerVars
<1>14. CASE RadioHeartbeat
  BY <1>1, <1>14, Zenon DEF RadioHeartbeat, checkerVars
<1>15. CASE WifiHeartbeat
  BY <1>1, <1>15, Zenon DEF WifiHeartbeat, checkerVars
<1>16. CASE StreamData
  BY <1>1, <1>16, Zenon DEF StreamData, checkerVars
<1>17. ASSUME NEW on \in BOOLEAN, WifiUp(on) PROVE FlagType'
  BY <1>1, <1>17, Zenon DEF WifiUp, checkerVars
<1> QED BY <1>2, <1>3, <1>5, <1>6, <1>7, <1>8, <1>9, <1>10, <1>11, <1>12,
           <1>13, <1>14, <1>15, <1>16, <1>17 DEF PresenceNext, Checker, Heard

LEMMA AgesKept ==
  ASSUME PresenceInv, PresenceNext
  PROVE  AgeType'
<1> FlagType /\ AgeType
  BY TypeParts DEF PresenceInv
<1> USE PresenceAssumption DEF AgeType
<1>1. away' \in 0 .. OfflineNotice
  <2>1. CASE Second
    BY <2>1, OlderAge, AbsenceType DEF Second
  <2>2. CASE DeclareOffline
    BY <2>2 DEF DeclareOffline
  <2>3. CASE StillOffline \/ Still
    BY <2>3, StillQuiet, AbsenceType DEF StillOffline, Quiet
  <2> QED BY <2>1, <2>2, <2>3, Steps
<1>2. CASE Second
  <2>1. lasttime' \in 0 .. IdlePeriod /\ t_off1' \in 0 .. OfflineNotice
    BY <1>2, OlderAge DEF Second
  <2> QED BY <1>1, <1>2, <2>1 DEF Second
<1>3. CASE SeenByWifi \/ NotYet \/ AnsweredLate
  <2>1. wifi_num' \in 0 .. StreamTurns /\ UNCHANGED <<checktime, t_off1, body>>
        /\ lasttime' \in {0, lasttime} /\ place' = "sleep"
    BY <1>3, FadesType, Zenon DEF SeenByWifi, NotYet, AnsweredLate, turnRest
  <2> QED BY <1>1, <2>1
<1>4. CASE Asks
  <2>1. wifi_num' \in 0 .. StreamTurns /\ UNCHANGED <<checktime, t_off1, body, lasttime>>
        /\ place' \in {"askOnline", "askOffline"}
    BY <1>4, FadesType, Zenon DEF Asks
  <2> QED BY <1>1, <2>1
<1>5. CASE CheckAnswered \/ CheckMissed
  BY <1>1, <1>5 DEF CheckAnswered, CheckMissed, askRest
<1>6. CASE DeclareOffline \/ StillOffline
  BY <1>1, <1>6 DEF DeclareOffline, StillOffline, askRest
<1>7. CASE OtherOffline
  BY <1>1, <1>7 DEF OtherOffline
<1>8. CASE Moves \/ WakesFailed \/ Heard
  <2>1. UNCHANGED <<checktime, lasttime, t_off1, place>>
    BY <1>8, Zenon DEF Moves, WakesFailed, Heard, HearHeart, RadioHeartbeat, RadioLost,
       WifiHeartbeat, StreamData, WifiUp, checkerVars
  <2>2. body' \in {"there", "radio", "gone"}
    BY <1>8 DEF Moves, WakesFailed, Heard, HearHeart, RadioHeartbeat, RadioLost,
       WifiHeartbeat, StreamData, WifiUp
  <2>3. wifi_num' \in {wifi_num, StreamTurns}
    BY <1>8, Zenon DEF Moves, WakesFailed, Heard, HearHeart, RadioHeartbeat, RadioLost,
       WifiHeartbeat, StreamData, WifiUp
  <2> QED BY <1>1, <2>1, <2>2, <2>3
<1> QED BY <1>2, <1>3, <1>4, <1>5, <1>6, <1>7, <1>8 DEF PresenceNext, Checker

(* The time since the declaration, and the time away.                       *)
LEMMA AgesAgree ==
  ASSUME PresenceInv, PresenceNext, offpush', ~back'
  PROVE  ~present' /\ t_off1' <= away'
<1> FlagType /\ AgeType /\ FlagType' /\ AgeType'
  BY TypeParts, FlagsKept, AgesKept DEF PresenceInv
<1>1. CASE DeclareOffline
  <2>1. ~present' /\ t_off1' = 0
    BY <1>1, Zenon DEF DeclareOffline
  <2> QED BY <2>1, PresenceAssumption DEF AgeType
<1>2. CASE Second
  <2>1. offpush /\ ~back /\ UNCHANGED present
    BY <1>2, Zenon DEF Second, Absence
  <2>2. ~present /\ t_off1 <= away
    BY <2>1 DEF PresenceInv, NoticeInv
  <2>3. t_off1' = Older(t_off1, OfflineNotice) /\ away' = Older(away, OfflineNotice)
    BY <1>2, <2>1, <2>2, Zenon DEF Second, Absence
  <2>4. t_off1' <= away'
    BY <2>2, <2>3, PresenceAssumption DEF Older, AgeType
  <2> QED BY <2>1, <2>2, <2>4
<1>3. CASE StillOffline \/ Still
  <2>1. Absence(away)
    BY <1>3, StillQuiet, Zenon DEF StillOffline, Quiet
  <2>2. ~back /\ ~present'
    BY <2>1, Zenon DEF Absence
  <2>3. offpush /\ t_off1' \in {0, t_off1}
    BY <1>3, Zenon DEF Still, SeenByWifi, AnsweredLate, NotYet, Asks, CheckAnswered,
       CheckMissed, OtherOffline, Moves, WakesFailed, Heard, HearHeart, RadioHeartbeat,
       RadioLost, WifiHeartbeat, StreamData, WifiUp, StillOffline, turnRest, checkerVars
  <2>4. ~present /\ t_off1 <= away
    BY <2>2, <2>3 DEF PresenceInv, NoticeInv
  <2>5. away' = away
    BY <2>1, <2>2, <2>4, Zenon DEF Absence
  <2> QED BY <2>2, <2>3, <2>4, <2>5, PresenceAssumption DEF AgeType
<1> QED BY <1>1, <1>2, <1>3, Steps

LEMMA AskedOffline ==
  ASSUME PresenceInv, PresenceNext, place' = "askOffline", heart_status'
  PROVE  ~present'
<1>1. CASE Asks
  <2>1. present => place' = "askOnline"
    BY <1>1, Zenon DEF Asks
  <2>2. present' = present
    BY <1>1, Zenon DEF Asks
  <2> QED BY <2>1, <2>2
<1>2. CASE OtherOffline \/ Moves \/ WakesFailed \/ Heard
  <2>1. place = "askOffline"
    BY <1>2, Zenon DEF OtherOffline, Moves, WakesFailed, Heard, HearHeart, RadioHeartbeat,
       RadioLost, WifiHeartbeat, StreamData, WifiUp, checkerVars
  <2>2. ~RadioHeartbeat /\ ~WifiHeartbeat
    BY Zenon DEF RadioHeartbeat, WifiHeartbeat
  <2>3. CASE WakesFailed
    BY <2>3, Zenon DEF WakesFailed
  <2>4. heart_status /\ (~WakesFailed => present' = present)
    BY <1>2, <2>2, Zenon DEF OtherOffline, Moves, WakesFailed, Heard, HearHeart,
       RadioLost, StreamData, WifiUp
  <2> QED BY <2>1, <2>3, <2>4 DEF PresenceInv, NoticeInv
<1>3. CASE Second \/ SeenByWifi \/ AnsweredLate \/ NotYet \/ CheckAnswered
           \/ CheckMissed \/ DeclareOffline \/ StillOffline
  <2>1. place' = "turn" \/ place' = "sleep"
    BY <1>3, Zenon DEF Second, SeenByWifi, AnsweredLate, NotYet, CheckAnswered,
       CheckMissed, DeclareOffline, StillOffline
  <2> QED BY <2>1
<1> QED BY <1>1, <1>2, <1>3 DEF PresenceNext, Checker

LEMMA NoticeKept ==
  ASSUME PresenceInv, PresenceNext, notice'
  PROVE  ~present' /\ (away' >= OfflineNotice \/ back')
<1>1. StillOffline
  <2>1. ~Second /\ ~DeclareOffline
    BY Zenon DEF Second, DeclareOffline
  <2>2. ~Still
    BY StillQuiet, Zenon DEF Quiet
  <2> QED BY <2>1, <2>2, Steps
<1>2. /\ place = "askOffline" /\ heart_status /\ offpush /\ t_off1 >= OfflineNotice
      /\ present' = present /\ Absence(away)
  BY <1>1, Zenon DEF StillOffline
<1>3. ~present /\ (back \/ t_off1 <= away)
  BY <1>2 DEF PresenceInv, NoticeInv
<1>4. away' = away /\ back' = back
  BY <1>2, <1>3, Zenon DEF Absence, PresenceInv, PresenceType
<1>5. t_off1 <= away => away >= OfflineNotice
  BY <1>2, PresenceAssumption, TypeParts DEF PresenceInv, AgeType
<1> QED BY <1>2, <1>3, <1>4, <1>5

LEMMA PresenceInvariant == PresenceSpec => []PresenceInv
<1>1. PresenceInit => PresenceInv
  BY PresenceInitInv
<1>2. PresenceInv /\ [PresenceNext]_presenceVars => PresenceInv'
  <2>1. ASSUME PresenceInv, PresenceNext PROVE PresenceInv'
    <3>1. PresenceType'
      <4>1. FlagType' /\ AgeType'
        BY <2>1, FlagsKept, AgesKept
      <4> QED BY <4>1, Zenon DEF PresenceType, FlagType, AgeType, Asking
    <3>2. NoticeInv'
      BY <2>1, AgesAgree, AskedOffline, NoticeKept DEF NoticeInv
    <3> QED BY <3>1, <3>2 DEF PresenceInv
  <2>2. ASSUME PresenceInv, UNCHANGED presenceVars PROVE PresenceInv'
    BY <2>2, Zenon DEF PresenceInv, PresenceType, NoticeInv, presenceVars, Asking
  <2> QED BY <2>1, <2>2
<1> QED BY <1>1, <1>2, PTL DEF PresenceSpec

(* Every variable of the heartbeat checker keeps its type; the ages stay    *)
(* within the limits they are compared with.                                *)
THEOREM PresenceTypeCorrect == PresenceSpec => []PresenceType
<1>1. PresenceInv => PresenceType
  BY DEF PresenceInv
<1> QED BY <1>1, PresenceInvariant, PTL

(* The app is told of a camera only while it is offline, and, unless a late *)
(* answer or its Wi-Fi brought it online since it was declared offline, not *)
(* before it has been away for OfflineNotice seconds: whatever the other    *)
(* channels do to the time they share, and whenever wake calls fail.        *)
THEOREM NoticeInTime == PresenceSpec => []NoticeAfterAbsence
<1>1. PresenceInv => NoticeAfterAbsence
  BY Zenon DEF PresenceInv, NoticeInv, NoticeAfterAbsence
<1> QED BY <1>1, PresenceInvariant, PTL
-----------------------------------------------------------------------------
(* Arming: the types. *)

\* What the variables hold, a conjunct for each group: a schedule to be entered
\* and an answer on its way are whole, or there is none.
ClockType == now \in [day : 0 .. Weekdays - 1, time : 0 .. DayLength - 1]

ScheduleType ==
  /\ arming \in [type : Types, list : Lists \cup {{}}, status : {0, 1}]
  /\ session \in [type : Types, list : Lists \cup {{}}] \cup {NoSchedule}

SensorType ==
  /\ tmpstatus \in {-1, 0, 1} /\ pirset \in {0, 1}
  /\ setter \in Levels \cup {-1} /\ level \in Levels /\ sensor \in Values

ArmerType == armer \in [val : Values \cup {-1}, alone : BOOLEAN]
AckType == ack \in [val : Values, late : BOOLEAN] \cup {NoAnswer}

ReadyType ==
  /\ first \in {0, 1} /\ online \in {0, 1} /\ awake \in BOOLEAN
  /\ check \in {"idle", "sleep1", "sleep2", "wake1", "wake2"} /\ doubt \in BOOLEAN

Held ==
  ClockType /\ ScheduleType /\ SensorType /\ ArmerType /\ AckType /\ ReadyType

LEMMA HeldType ==
  ASSUME Held
  PROVE  ArmingType
<1>1. session \in [type : Types \cup {"none"}, list : Lists \cup {{}}]
  BY DEF Held, ScheduleType, NoSchedule
<1>2. ack \in [val : Values \cup {-1}, late : BOOLEAN]
  <2>1. CASE ack = NoAnswer
    BY <2>1, Zenon DEF NoAnswer
  <2>2. CASE ack \in [val : Values, late : BOOLEAN]
    BY <2>2
  <2> QED BY <2>1, <2>2, Zenon DEF Held, AckType
<1> QED
  BY <1>1, <1>2, Zenon
     DEF Held, ArmingType, ClockType, ScheduleType, SensorType, ArmerType, ReadyType
-----------------------------------------------------------------------------
LEMMA ClockKept ==
  ASSUME ClockType, [ArmingNext]_armingVars
  PROVE  ClockType'
<1>1. CASE Tick
  <2>1. now.day \in 0 .. Weekdays - 1 /\ now.time \in 0 .. DayLength - 1
    BY DEF ClockType
  <2>2. (now.day + 1) % Weekdays \in 0 .. Weekdays - 1
    BY <2>1, ArmingAssumption
  <2>3. CASE now.time < DayLength - 1
    BY <1>1, <2>1, <2>3, ArmingAssumption DEF Tick, ClockType
  <2>4. CASE ~(now.time < DayLength - 1)
    BY <1>1, <2>2, <2>4, ArmingAssumption DEF Tick, ClockType
  <2> QED BY <2>3, <2>4
<1>2. Tick \/ now' = now
  BY Zenon
     DEF ArmingNext, armingVars, Schedules, Sensitivities, ArmThread, PirRadio,
         CheckThread, Reports, Presences, SetSchedule, FillSchedule, SetLevel,
         LevelSet, Unready, Decide, Told, NotTold, Hear, PirReceive, PirAckLost,
         CheckBegins, CheckSleeps, CheckWakes, FirstConnect, AwakeChanges,
         NotReadyAgain, ComesOnline, Paired
<1> QED BY <1>1, <1>2, Zenon DEF ClockType

LEMMA ArmNowBit == ArmNow \in {0, 1}
  BY Zenon DEF ArmNow

LEMMA ScheduleKept ==
  ASSUME ScheduleType, [ArmingNext]_armingVars
  PROVE  ScheduleType'
<1>1. ASSUME NEW type \in Types, NEW list \in Lists, SetSchedule(type, list)
      PROVE  ScheduleType'
  BY <1>1 DEF SetSchedule, ScheduleType, Types
<1>2. CASE FillSchedule
  BY <1>2 DEF FillSchedule, ScheduleType, NoSchedule, Types
<1>3. CASE Decide
  BY <1>3, ArmNowBit DEF Decide, ScheduleType
<1>4. ASSUME NEW v, Paired(v) PROVE ScheduleType'
  BY <1>4 DEF Paired, ScheduleType, Types
<1>5. CASE arming' = arming /\ session' = session
  BY <1>5, Zenon DEF ScheduleType
<1>6. \/ \E type \in Types, list \in Lists : SetSchedule(type, list)
      \/ FillSchedule \/ Decide \/ \E v \in Values : Paired(v)
      \/ arming' = arming /\ session' = session
  BY Zenon
     DEF ArmingNext, armingVars, Schedules, Sensitivities, ArmThread, PirRadio,
         CheckThread, Reports, Presences, Tick, SetLevel,
         LevelSet, Unready, Told, NotTold, Hear, PirReceive, PirAckLost,
         CheckBegins, CheckSleeps, CheckWakes, FirstConnect, AwakeChanges,
         NotReadyAgain, ComesOnline
<1> QED BY <1>1, <1>2, <1>3, <1>4, <1>5, <1>6, Zenon

LEMMA SensorKept ==
  ASSUME ScheduleType, SensorType, ArmerType, AckType, [ArmingNext]_armingVars
  PROVE  SensorType'
<1>0. /\ armer.val \in Values \cup {-1} /\ arming.status \in {0, 1}
      /\ ack # NoAnswer => ack.val \in Values
  BY DEF ArmerType, ScheduleType, AckType
<1> USE DEF SensorType, Values
<1>1. ASSUME NEW l \in Levels, SetLevel(l) PROVE SensorType'
  BY <1>1 DEF SetLevel
<1>2. CASE LevelSet
  BY <1>2 DEF LevelSet
<1>3. CASE Unready \/ Told \/ NotTold
  <2>1. /\ tmpstatus' \in {-1, tmpstatus, arming.status}
        /\ UNCHANGED <<pirset, setter, level, sensor>>
    BY <1>3, Zenon DEF Unready, Told, NotTold, callVars
  <2> QED BY <1>0, <2>1
<1>4. CASE Decide
  BY <1>4 DEF Decide
<1>5. ASSUME NEW v \in Values, NEW replied \in BOOLEAN, Hear(v, replied)
      PROVE  SensorType'
  BY <1>5 DEF Hear
<1>6. CASE PirReceive
  BY <1>0, <1>6 DEF PirReceive
<1>7. ASSUME NEW v \in Values, Paired(v) PROVE SensorType'
  BY <1>7, ArmingAssumption DEF Paired
<1>8. CASE UNCHANGED <<tmpstatus, pirset, setter, level, sensor>>
  BY <1>8
<1>9. \/ \E l \in Levels : SetLevel(l)
      \/ LevelSet \/ Unready \/ Told \/ NotTold \/ Decide
      \/ \E v \in Values, replied \in BOOLEAN : Hear(v, replied)
      \/ PirReceive \/ \E v \in Values : Paired(v)
      \/ UNCHANGED <<tmpstatus, pirset, setter, level, sensor>>
  BY Zenon
     DEF ArmingNext, armingVars, Schedules, Sensitivities, ArmThread, PirRadio,
         CheckThread, Reports, Presences, Tick, SetSchedule, FillSchedule, PirAckLost,
         CheckBegins, CheckSleeps, CheckWakes, FirstConnect, AwakeChanges,
         NotReadyAgain, ComesOnline, callVars
<1> QED BY <1>1, <1>2, <1>3, <1>4, <1>5, <1>6, <1>7, <1>8, <1>9, Zenon

LEMMA ArmerKept ==
  ASSUME ScheduleType, SensorType, ArmerType, [ArmingNext]_armingVars
  PROVE  ArmerType'
<1> DEFINE R == [val : Values \cup {-1}, alone : BOOLEAN]
<1>1. /\ armer \in R /\ Idle \in R
      /\ \A b \in BOOLEAN : [armer EXCEPT !.alone = b] \in R
      /\ \A v \in Values, b \in BOOLEAN : [val |-> v, alone |-> b] \in R
  BY DEF ArmerType, Idle
<1>2. level \in Values /\ 0 \in Values
  BY DEF SensorType, Values
<1> HIDE DEF R
<1>3. CASE Decide
  <2>1. \/ armer' = armer
        \/ \E v \in Values, b \in BOOLEAN : armer' = [val |-> v, alone |-> b]
    <3> SUFFICES ASSUME tmpstatus # ArmNow
                 PROVE  \E v \in Values, b \in BOOLEAN :
                          armer' = [val |-> v, alone |-> b]
      BY <1>3, Zenon DEF Decide
    <3>1. armer' = [val |-> IF ArmNow = 1 THEN level ELSE 0, alone |-> setter = -1]
      BY <1>3, Zenon DEF Decide
    <3>2. (IF ArmNow = 1 THEN level ELSE 0) \in Values /\ (setter = -1) \in BOOLEAN
      BY <1>2, Zenon
    <3> QED BY <3>1, <3>2, Zenon
  <2> QED BY <1>1, <2>1, Zenon DEF ArmerType, R
<1>4. \/ Decide \/ armer' = armer \/ armer' = Idle
      \/ \E b \in BOOLEAN : armer' = [armer EXCEPT !.alone = b]
  <2>1. ASSUME NEW v, Paired(v)
        PROVE  \E b \in BOOLEAN : armer' = [armer EXCEPT !.alone = b]
    <3>1. armer' = [armer EXCEPT !.alone = armer.val = -1]
      BY <2>1, Zenon DEF Paired
    <3>2. (armer.val = -1) \in BOOLEAN
      OBVIOUS
    <3> QED BY <3>1, <3>2, Zenon
  <2>2. \/ Decide \/ armer' = armer \/ armer' = Idle
        \/ armer' = [armer EXCEPT !.alone = FALSE] \/ \E v \in Values : Paired(v)
    BY Zenon
       DEF ArmingNext, armingVars, Schedules, Sensitivities, ArmThread, PirRadio,
           CheckThread, Reports, Presences, Tick, SetSchedule, FillSchedule, SetLevel,
           LevelSet, Unready, Told, NotTold, Hear, PirReceive, PirAckLost, CheckBegins,
           CheckSleeps, CheckWakes, FirstConnect, AwakeChanges, NotReadyAgain,
           ComesOnline, callVars
  <2> QED BY <2>1, <2>2, Zenon
<1> QED BY <1>1, <1>3, <1>4, Zenon DEF ArmerType, R

LEMMA AckKept ==
  ASSUME AckType, [ArmingNext]_armingVars
  PROVE  AckType'
<1>1. CASE ack' = [ack EXCEPT !.late = ack # NoAnswer]
  <2>1. CASE ack = NoAnswer
    BY <1>1, <2>1 DEF NoAnswer, AckType
  <2>2. CASE ack # NoAnswer
    BY <1>1, <2>2 DEF AckType
  <2> QED BY <2>1, <2>2
<1>2. CASE \E v \in Values : ack' = [val |-> v, late |-> FALSE]
  BY <1>2 DEF AckType
<1>3. CASE ack' \in {ack, NoAnswer}
  BY <1>3, Zenon DEF AckType
<1>4. \/ ack' \in {ack, NoAnswer} \/ ack' = [ack EXCEPT !.late = ack # NoAnswer]
      \/ \E v \in Values : ack' = [val |-> v, late |-> FALSE]
  BY Zenon
     DEF ArmingNext, armingVars, Schedules, Sensitivities, ArmThread, PirRadio,
         CheckThread, Reports, Presences, Tick, SetSchedule, FillSchedule, SetLevel,
         LevelSet, Unready, Decide, Told, NotTold, Hear, PirReceive, PirAckLost,
         CheckBegins, CheckSleeps, CheckWakes, FirstConnect, AwakeChanges,
         NotReadyAgain, ComesOnline, Paired, callVars
<1> QED BY <1>1, <1>2, <1>3, <1>4, Zenon

LEMMA ReadyKept ==
  ASSUME ReadyType, [ArmingNext]_armingVars
  PROVE  ReadyType'
<1>1. first' \in {0, 1} /\ online' \in {0, 1}
  BY Zenon
     DEF ReadyType, ArmingNext, armingVars, cameraVars, Schedules, Sensitivities,
         ArmThread, PirRadio, CheckThread, Reports, Presences, Tick, SetSchedule,
         FillSchedule, SetLevel, LevelSet, Unready, Decide, Told, NotTold, Hear,
         PirReceive, PirAckLost, CheckBegins, CheckSleeps, CheckWakes, FirstConnect,
         AwakeChanges, NotReadyAgain, ComesOnline, Paired
<1>2. check' \in {"idle", "sleep1", "sleep2", "wake1", "wake2"}
  BY Zenon
     DEF ReadyType, ArmingNext, armingVars, cameraVars, Schedules, Sensitivities,
         ArmThread, PirRadio, CheckThread, Reports, Presences, Tick, SetSchedule,
         FillSchedule, SetLevel, LevelSet, Unready, Decide, Told, NotTold, Hear,
         PirReceive, PirAckLost, CheckBegins, CheckSleeps, CheckWakes, FirstConnect,
         AwakeChanges, NotReadyAgain, ComesOnline, Paired
<1>3. awake' \in BOOLEAN /\ doubt' \in BOOLEAN
  BY Zenon
     DEF ReadyType, ArmingNext, armingVars, cameraVars, Schedules, Sensitivities,
         ArmThread, PirRadio, CheckThread, Reports, Presences, Tick, SetSchedule,
         FillSchedule, SetLevel, LevelSet, Unready, Decide, Told, NotTold, Hear,
         PirReceive, PirAckLost, CheckBegins, CheckSleeps, CheckWakes, FirstConnect,
         AwakeChanges, NotReadyAgain, ComesOnline, Paired
<1> QED BY <1>1, <1>2, <1>3, Zenon DEF ReadyType

LEMMA HeldKept ==
  ASSUME Held, [ArmingNext]_armingVars
  PROVE  Held'
  BY ClockKept, ScheduleKept, SensorKept, ArmerKept, AckKept, ReadyKept, Zenon DEF Held

LEMMA HeldInit == ArmingInit => Held
<1> SUFFICES ASSUME ArmingInit PROVE Held
  OBVIOUS
<1>1. ClockType
  BY ArmingAssumption DEF ArmingInit, ClockType
<1>2. ScheduleType
  BY DEF ArmingInit, ScheduleType, Types
<1>3. SensorType
  BY ArmingAssumption DEF ArmingInit, SensorType, Values
<1>4. ArmerType /\ AckType
  BY DEF ArmingInit, ArmerType, AckType, Idle
<1>5. ReadyType
  BY Zenon DEF ArmingInit, ReadyType
<1> QED BY <1>1, <1>2, <1>3, <1>4, <1>5 DEF Held

(* Every variable of a channel's schedule and sensor has its type in every  *)
(* reachable state.                                                         *)
THEOREM ArmingTypeCorrect == ArmingSpec => []ArmingType
<1>1. Held /\ [ArmingNext]_armingVars => Held'
  BY HeldKept
<1>2. Held => ArmingType
  BY HeldType
<1> QED BY <1>1, <1>2, HeldInit, PTL DEF ArmingSpec
-----------------------------------------------------------------------------
(* What the arming thread may conclude when its call returns. *)

Waiting == armer.val # -1

\* A call is alone only while no session calls.
CallsApart == setter # -1 /\ Waiting => ~armer.alone

\* A session calls only while the sensor is to be on: it was told so, or told off
\* by a schedule that is over.
DoubtedOff == setter # -1 /\ tmpstatus = 0 => doubt

\* The answer that ends a call that is alone is the answer to it ...
Answered == Waiting /\ armer.alone /\ pirset = 0 => sensor = armer.val

\* ... as is one that is on its way and will not be late ...
InTime == ack # NoAnswer /\ ~ack.late
OnItsWay == InTime /\ Waiting /\ armer.alone => sensor = armer.val

\* ... which no call that begins later can find.
Awaited == InTime => Waiting \/ setter # -1

ArmingInv ==
  Held /\ CallsApart /\ DoubtedOff /\ Answered /\ OnItsWay /\ Awaited /\ SensorKnown

\* An answer that has not come when a call returns is late from now on.
LEMMA LateFromNowOn ==
  ASSUME AckType, ack' = [ack EXCEPT !.late = ack # NoAnswer]
  PROVE  ~InTime'
<1>1. CASE ack = NoAnswer
  BY <1>1 DEF InTime, NoAnswer
<1>2. CASE ack # NoAnswer
  BY <1>2 DEF InTime, AckType
<1> QED BY <1>1, <1>2

LEMMA ArmingInvKept ==
  ASSUME ArmingInv, [ArmingNext]_armingVars
  PROVE  (CallsApart /\ DoubtedOff /\ Answered /\ OnItsWay /\ Awaited /\ SensorKnown)'
<1> DEFINE Inv == /\ CallsApart /\ DoubtedOff /\ Answered /\ OnItsWay /\ Awaited
                  /\ SensorKnown
<1> SUFFICES Inv'
  OBVIOUS
<1>0. /\ Inv /\ SensorType /\ ArmerType /\ AckType /\ ScheduleType
      /\ doubt \in BOOLEAN
  BY Zenon DEF ArmingInv, Held, ReadyType
<1> USE DEF CallsApart, DoubtedOff, Answered, OnItsWay, Awaited, SensorKnown, Waiting
<1>1. CASE UNCHANGED <<callVars, tmpstatus, doubt>>
  BY <1>0, <1>1, Zenon DEF callVars, InTime
<1>2. ASSUME NEW l \in Levels, SetLevel(l) PROVE Inv'
  <2>1. CASE arming.status = 1
    <3>1. /\ UNCHANGED <<tmpstatus, sensor, ack>> /\ setter' = l /\ pirset' = 1
          /\ setter = -1 /\ (doubt' <=> doubt \/ tmpstatus = 0)
          /\ armer' = IF armer.val = -1 THEN armer ELSE [armer EXCEPT !.alone = FALSE]
      BY <1>2, <2>1, Zenon DEF SetLevel
    <3>2. /\ armer'.val = armer.val
          /\ armer.val # -1 => ~armer'.alone
      BY <1>0, <3>1 DEF ArmerType
    <3>3. l # -1
      BY ArmingAssumption
    <3>4. InTime' <=> InTime
      BY <3>1, Zenon DEF InTime
    <3>5. CallsApart' /\ Answered' /\ OnItsWay' /\ Awaited'
      BY <3>1, <3>2, <3>3
    <3>6. DoubtedOff' /\ SensorKnown'
      BY <1>0, <3>1, <3>2
    <3> QED BY <3>5, <3>6
  <2>2. CASE arming.status # 1
    BY <1>1, <1>2, <2>2, Zenon DEF SetLevel, callVars
  <2> QED BY <2>1, <2>2
<1>3. CASE LevelSet
  <2>1. setter' = -1 /\ UNCHANGED <<tmpstatus, armer, pirset, sensor, doubt>>
    BY <1>3, Zenon DEF LevelSet
  <2>2. ~InTime'
    BY <1>0, <1>3, LateFromNowOn, Zenon DEF LevelSet
  <2> QED BY <1>0, <2>1, <2>2, Zenon
<1>4. CASE Unready
  <2>1. UNCHANGED callVars /\ tmpstatus' = -1
    BY <1>4, Zenon DEF Unready
  <2>2. UNCHANGED <<armer, setter, pirset, sensor, ack>> /\ InTime' = InTime
    BY <2>1, Zenon DEF callVars, InTime
  <2> QED BY <1>0, <2>1, <2>2
<1>5. CASE Decide
  <2>1. /\ armer.val = -1 /\ UNCHANGED <<tmpstatus, doubt, setter, sensor, ack>>
        /\ \/ armer' = armer /\ pirset' = pirset
           \/ /\ armer' = [val |-> IF ArmNow = 1 THEN level ELSE 0, alone |-> setter = -1]
              /\ pirset' = 1
    BY <1>5, Zenon DEF Decide
  <2>2. CASE armer' = armer /\ pirset' = pirset
    BY <1>1, <2>1, <2>2, Zenon DEF callVars
  <2>3. CASE /\ armer' = [val |-> IF ArmNow = 1 THEN level ELSE 0, alone |-> setter = -1]
             /\ pirset' = 1
    <3>1. (IF ArmNow = 1 THEN level ELSE 0) # -1
      BY <1>0, ArmingAssumption DEF SensorType
    <3>2. armer'.val # -1 /\ (armer'.alone <=> setter = -1)
      BY <2>3, <3>1
    <3>3. InTime' => setter # -1
      BY <1>0, <2>1, Zenon DEF InTime
    <3> QED BY <1>0, <2>1, <2>3, <3>2, <3>3
  <2> QED BY <2>1, <2>2, <2>3
<1>6. CASE Told
  <2>1. /\ armer.val # -1 /\ pirset = 0 /\ tmpstatus' = arming.status
        /\ (doubt' <=> ~armer.alone \/ arming.status # On(armer.val))
        /\ armer' = Idle /\ UNCHANGED <<setter, pirset, sensor>>
    BY <1>6, Zenon DEF Told
  <2>2. ~InTime'
    BY <1>0, <1>6, LateFromNowOn, Zenon DEF Told
  <2>3. armer'.val = -1
    BY <2>1 DEF Idle
  <2>4. DoubtedOff'
    BY <1>0, <2>1
  <2>5. SensorKnown'
    BY <1>0, <2>1
  <2> QED BY <2>2, <2>3, <2>4, <2>5, Zenon
<1>7. CASE NotTold
  <2>1. /\ (doubt' <=> doubt \/ (tmpstatus # -1 /\ tmpstatus # On(sensor)))
        /\ armer' = Idle /\ UNCHANGED <<tmpstatus, setter, pirset, sensor>>
    BY <1>0, <1>7, Zenon DEF NotTold
  <2>2. ~InTime'
    BY <1>0, <1>7, LateFromNowOn, Zenon DEF NotTold
  <2>3. armer'.val = -1
    BY <2>1 DEF Idle
  <2>4. DoubtedOff'
    BY <1>0, <2>1
  <2>5. SensorKnown'
    BY <2>1
  <2> QED BY <2>2, <2>3, <2>4, <2>5, Zenon
<1>8. ASSUME NEW v \in Values, NEW replied \in BOOLEAN, Hear(v, replied) PROVE Inv'
  <2>1. /\ v # -1 /\ pirset = 1 /\ v \in {armer.val, setter} /\ sensor' = v
        /\ UNCHANGED <<tmpstatus, doubt, armer, setter, pirset>>
        /\ ack' = ack \/ ack' = [val |-> v, late |-> FALSE]
    BY <1>8, Zenon DEF Hear
  <2>2. armer.val # -1 /\ armer.alone => v = armer.val
    BY <1>0, <2>1
  <2>3. v = armer.val \/ v = setter
    BY <2>1
  <2>4. Awaited'
    <3>1. CASE ack' = ack
      BY <1>0, <2>1, <3>1, Zenon DEF InTime
    <3>2. CASE ack' # ack
      BY <2>1, <2>3
    <3> QED BY <3>1, <3>2
  <2>5. SensorKnown'
    <3> SUFFICES ASSUME armer.val = -1, ~doubt, tmpstatus # -1
                 PROVE  On(v) = tmpstatus
      BY <2>1
    <3>1. v = setter /\ setter # -1 /\ v # 0
      BY <1>0, <2>1, ArmingAssumption DEF SensorType
    <3>2. tmpstatus = 1
      BY <1>0, <3>1 DEF SensorType
    <3> QED BY <3>1, <3>2 DEF On
  <2>6. CallsApart' /\ DoubtedOff' /\ Answered' /\ OnItsWay'
    BY <1>0, <2>1, <2>2
  <2> QED BY <2>4, <2>5, <2>6
<1>9. CASE PirReceive
  <2>1. /\ ack # NoAnswer /\ pirset' = 0 /\ ack' = NoAnswer
        /\ UNCHANGED <<tmpstatus, doubt, setter, sensor>>
        /\ armer' = IF armer.val # -1 /\ ack.late THEN [armer EXCEPT !.alone = FALSE]
                    ELSE armer
    BY <1>9, Zenon DEF PirReceive
  <2>2. /\ armer'.val = armer.val /\ (armer'.alone => armer.alone)
        /\ armer.val # -1 /\ armer'.alone => ~ack.late
    BY <1>0, <2>1 DEF ArmerType
  <2>3. ~InTime'
    BY <2>1, Zenon DEF InTime
  <2> QED BY <1>0, <2>1, <2>2, <2>3 DEF InTime
<1>10. CASE PirAckLost
  <2>1. UNCHANGED <<tmpstatus, doubt, armer, setter, pirset, sensor>> /\ ack' = NoAnswer
    BY <1>10, Zenon DEF PirAckLost
  <2> QED BY <1>0, <2>1, Zenon DEF InTime
<1>11. ASSUME NEW v \in Values, Paired(v) PROVE Inv'
  <2>1. /\ doubt' /\ armer' = [armer EXCEPT !.alone = armer.val = -1]
        /\ UNCHANGED <<tmpstatus, setter, pirset, ack>>
    BY <1>11, Zenon DEF Paired
  <2>2. armer'.val = armer.val /\ (armer'.alone <=> armer.val = -1)
    BY <1>0, <2>1 DEF ArmerType
  <2>3. InTime' <=> InTime
    BY <2>1, Zenon DEF InTime
  <2> QED BY <1>0, <2>1, <2>2, <2>3
<1>12. \/ \E l \in Levels : SetLevel(l)
       \/ LevelSet \/ Unready \/ Decide \/ Told \/ NotTold \/ PirReceive \/ PirAckLost
       \/ \E v \in Values, replied \in BOOLEAN : Hear(v, replied)
       \/ \E v \in Values : Paired(v)
       \/ UNCHANGED <<callVars, tmpstatus, doubt>>
  BY Zenon
     DEF ArmingNext, armingVars, Schedules, Sensitivities, ArmThread, PirRadio,
         CheckThread, Reports, Presences, Tick, SetSchedule, FillSchedule,
         CheckBegins, CheckSleeps, CheckWakes, FirstConnect, AwakeChanges,
         NotReadyAgain, ComesOnline
<1> HIDE DEF Inv
<1> QED
  BY <1>1, <1>2, <1>3, <1>4, <1>5, <1>6, <1>7, <1>8, <1>9, <1>10, <1>11, <1>12, Zenon

LEMMA ArmingInvariant == ArmingSpec => []ArmingInv
<1>1. ArmingInit => ArmingInv
  <2> SUFFICES ASSUME ArmingInit PROVE ArmingInv
    OBVIOUS
  <2>1. armer.val = -1 /\ setter = -1 /\ tmpstatus = -1 /\ ack = NoAnswer
    BY DEF ArmingInit, Idle
  <2> QED BY <2>1, HeldInit, Zenon
          DEF ArmingInv, CallsApart, DoubtedOff, Answered, OnItsWay, Awaited, InTime,
              Waiting, SensorKnown
<1>2. ArmingInv /\ [ArmingNext]_armingVars => ArmingInv'
  <2> SUFFICES ASSUME ArmingInv, [ArmingNext]_armingVars PROVE ArmingInv'
    OBVIOUS
  <2>1. Held'
    BY HeldKept, Zenon DEF ArmingInv
  <2> QED BY <2>1, ArmingInvKept, Zenon DEF ArmingInv
<1> QED BY <1>1, <1>2, PTL DEF ArmingSpec

(* An answer that ends a call is the camera's answer to that call, unless   *)
(* the call was not alone: a session's call overlapped it, an older call's  *)
(* late answer was taken for its own, or the camera was replaced under it.  *)
(* And what the thread remembers is what the sensor has, outside of the     *)
(* cases doubt stands for: those three, a status changed under the call by  *)
(* a new schedule, a failed call that was heard, a sensitivity sent when    *)
(* the sensor had been told to be off, and a camera paired anew.  All for   *)
(* any sensitivities, and through lost answers.                             *)
THEOREM ArmingKnowsSensor == ArmingSpec => []SensorKnown /\ OwnAnswer
<1>1. ArmingInv => SensorKnown
  BY DEF ArmingInv
<1>2. ArmingInv => [Told /\ armer.alone => sensor = armer.val]_armingVars
  <2> SUFFICES ASSUME ArmingInv, Told, armer.alone PROVE sensor = armer.val
    BY Zenon
  <2> QED BY Zenon DEF Told, ArmingInv, Answered, Waiting
<1> QED BY <1>1, <1>2, ArmingInvariant, PTL DEF OwnAnswer
-----------------------------------------------------------------------------
(* Arming: the schedule. *)

LEMMA SmallRemainder ==
  ASSUME NEW n \in Nat \ {0}, NEW x \in 0 .. n - 1
  PROVE  x % n = x /\ (x + n) % n = x
  OBVIOUS

(* Time of the week: m days and r moments ago, or that and a week.          *)
LEMMA WeekRemainder ==
  ASSUME NEW W \in Nat \ {0}, NEW D \in Nat \ {0},
         NEW m \in 0 .. W - 1, NEW r \in 0 .. D - 1
  PROVE  /\ m * D + r \in 0 .. W * D - 1
         /\ (m * D + r) % (W * D) = m * D + r
         /\ (m * D + r + W * D) % (W * D) = m * D + r
         /\ m # 0 => m * D + r >= D
<1>1. W * D \in Nat \ {0}
  OBVIOUS
<1>2. m * D <= W * D - D /\ m * D >= 0
  <2>1. m * D <= (W - 1) * D
    OBVIOUS
  <2>2. (W - 1) * D = W * D - D
    OBVIOUS
  <2> QED BY <2>1, <2>2
<1>3. m * D \in Int
  OBVIOUS
<1> DEFINE week == W * D
           y == m * D + r
<1>4. y \in 0 .. week - 1
  BY <1>1, <1>2, <1>3
<1>5. m # 0 => m * D >= D
  OBVIOUS
<1>6. week \in Nat \ {0}
  BY <1>1
<1>7. m # 0 => y >= D
  BY <1>3, <1>5
<1> HIDE DEF week, y
<1>8. y % week = y /\ (y + week) % week = y
  BY <1>4, <1>6, SmallRemainder
<1> QED BY <1>4, <1>7, <1>8 DEF week, y

(* The day before. *)
Yesterday == (now.day + Weekdays - 1) % Weekdays

LEMMA YesterdayIs ==
  ASSUME ClockType
  PROVE  Yesterday = IF now.day = 0 THEN Weekdays - 1 ELSE now.day - 1
<1>1. Weekdays \in Nat \ {0} /\ now.day \in 0 .. Weekdays - 1
  BY ArmingAssumption DEF ClockType
<1>2. CASE now.day = 0
  BY <1>1, <1>2 DEF Yesterday
<1>3. CASE now.day # 0
  <2>1. now.day - 1 \in 0 .. Weekdays - 1
    BY <1>1, <1>3
  <2>2. (now.day - 1 + Weekdays) % Weekdays = now.day - 1
    BY <1>1, <2>1, SmallRemainder
  <2>3. now.day + Weekdays - 1 = now.day - 1 + Weekdays
    BY <1>1
  <2> QED BY <1>3, <2>2, <2>3 DEF Yesterday
<1> QED BY <1>2, <1>3

Since(d, start) ==
  (now.day * DayLength + now.time + Weekdays * DayLength - (d * DayLength + start))
     % (Weekdays * DayLength)

(* How long ago an interval that begins on day d began, as days and moments. *)
LEMMA SinceIs ==
  ASSUME ClockType, NEW d \in 0 .. Weekdays - 1, NEW start \in 0 .. DayLength - 1
  PROVE  IF d = now.day /\ now.time >= start
         THEN Since(d, start) = now.time - start
         ELSE IF d = Yesterday /\ now.time < start
         THEN Since(d, start) = now.time - start + DayLength
         ELSE Since(d, start) >= DayLength
<1> DEFINE W == Weekdays
           D == DayLength
           a == now.day
           t == now.time
<1>1. /\ W \in Nat \ {0} /\ D \in Nat \ {0} /\ a \in 0 .. W - 1 /\ t \in 0 .. D - 1
      /\ d \in 0 .. W - 1 /\ start \in 0 .. D - 1
  BY ArmingAssumption DEF ClockType
<1>2. /\ Since(d, start) = (a * D + t + W * D - (d * D + start)) % (W * D)
      /\ Yesterday = IF a = 0 THEN W - 1 ELSE a - 1
  BY YesterdayIs DEF Since
<1> SUFFICES IF d = a /\ t >= start THEN Since(d, start) = t - start
             ELSE IF d = Yesterday /\ t < start THEN Since(d, start) = t - start + D
             ELSE Since(d, start) >= D
  OBVIOUS
<1> HIDE DEF W, D, a, t
<1>3. a * D \in Int /\ d * D \in Int /\ W * D \in Int
  BY <1>1
<1>4. CASE t >= start
  <2> DEFINE r == t - start
             m == IF a >= d THEN a - d ELSE a - d + W
  <2>1. r \in 0 .. D - 1 /\ m \in 0 .. W - 1
    BY <1>1, <1>4
  <2>2. m * D = IF a >= d THEN a * D - d * D ELSE a * D - d * D + W * D
    BY <1>1
  <2>3. (m = 0) <=> (d = a)
    BY <1>1
  <2>4. a * D + t + W * D - (d * D + start) = IF a >= d THEN m * D + r + W * D ELSE m * D + r
    BY <1>1, <1>3, <2>2
  <2>5. Since(d, start) = m * D + r /\ (m # 0 => Since(d, start) >= D)
    <3> HIDE DEF m, r
    <3> QED BY <1>1, <1>2, <2>1, <2>4, WeekRemainder
  <2>6. m = 0 => m * D + r = r
    BY <1>1, <2>1
  <2>7. m = 0 => Since(d, start) = t - start
    BY <2>5, <2>6
  <2> HIDE DEF m, r
  <2> QED BY <1>1, <1>4, <2>3, <2>5, <2>7
<1>5. CASE t < start
  <2> DEFINE r == t - start + D
             m == IF a >= d + 1 THEN a - d - 1 ELSE a - d - 1 + W
  <2>1. r \in 0 .. D - 1 /\ m \in 0 .. W - 1
    BY <1>1, <1>5
  <2>2. m * D = IF a >= d + 1 THEN a * D - d * D - D ELSE a * D - d * D - D + W * D
    BY <1>1
  <2>3. (m = 0) <=> (d = Yesterday)
    BY <1>1, <1>2
  <2>4. a * D + t + W * D - (d * D + start)
          = IF a >= d + 1 THEN m * D + r + W * D ELSE m * D + r
    BY <1>1, <1>3, <2>2
  <2>5. Since(d, start) = m * D + r /\ (m # 0 => Since(d, start) >= D)
    <3> HIDE DEF m, r
    <3> QED BY <1>1, <1>2, <2>1, <2>4, WeekRemainder
  <2>6. m = 0 => m * D + r = r
    BY <1>1, <2>1
  <2>7. m = 0 => Since(d, start) = t - start + D
    BY <2>5, <2>6
  <2> HIDE DEF m, r
  <2> QED BY <1>1, <1>5, <2>3, <2>5, <2>7
<1> QED BY <1>1, <1>4, <1>5

Entries ==
  [start : 0 .. DayLength - 1, end : 0 .. DayLength - 1,
   days : SUBSET (0 .. Weekdays - 1)]

(* An entry covers this moment by the interval that began today or by the   *)
(* one that began yesterday and ends after midnight.                        *)
LEMMA CoversWhen ==
  ASSUME ClockType, NEW e \in Entries
  PROVE  Covers(e) <=>
           \/ /\ now.day \in e.days /\ now.time > e.start
              /\ e.end >= e.start => now.time < e.end
           \/ Yesterday \in e.days /\ e.end < e.start /\ now.time < e.end
<1> DEFINE len == (e.end + DayLength - e.start) % DayLength
<1>1. /\ DayLength \in Nat \ {0} /\ now.time \in 0 .. DayLength - 1
      /\ e.end \in 0 .. DayLength - 1 /\ e.start \in 0 .. DayLength - 1
      /\ e.days \subseteq 0 .. Weekdays - 1
  BY ArmingAssumption DEF ClockType, Entries
<1>2. len = IF e.end >= e.start THEN e.end - e.start ELSE e.end + DayLength - e.start
  <2>1. CASE e.end >= e.start
    <3>1. e.end - e.start \in 0 .. DayLength - 1
      BY <1>1, <2>1
    <3>2. (e.end - e.start + DayLength) % DayLength = e.end - e.start
      BY <1>1, <3>1, SmallRemainder
    <3>3. e.end - e.start + DayLength = e.end + DayLength - e.start
      BY <1>1
    <3> QED BY <2>1, <3>2, <3>3
  <2>2. CASE e.end < e.start
    <3>1. e.end + DayLength - e.start \in 0 .. DayLength - 1
      BY <1>1, <2>2
    <3> QED BY <1>1, <2>2, <3>1, SmallRemainder
  <2> QED BY <1>1, <2>1, <2>2
<1>3. Covers(e) <=> \E d \in e.days : 0 < Since(d, e.start) /\ Since(d, e.start) < len
  BY Zenon DEF Covers, Since
<1> HIDE DEF len
<1>4. ASSUME NEW d \in e.days
      PROVE  0 < Since(d, e.start) /\ Since(d, e.start) < len <=>
               \/ /\ d = now.day /\ now.time > e.start
                  /\ e.end >= e.start => now.time < e.end
               \/ d = Yesterday /\ e.end < e.start /\ now.time < e.end
  <2>1. IF d = now.day /\ now.time >= e.start
        THEN Since(d, e.start) = now.time - e.start
        ELSE IF d = Yesterday /\ now.time < e.start
        THEN Since(d, e.start) = now.time - e.start + DayLength
        ELSE Since(d, e.start) >= DayLength
    BY <1>1, SinceIs
  <2>2. len \in 0 .. DayLength - 1
    BY <1>1, <1>2
  <2>3. CASE d = now.day /\ now.time >= e.start
    BY <1>1, <1>2, <2>1, <2>3
  <2>4. CASE ~(d = now.day /\ now.time >= e.start) /\ d = Yesterday /\ now.time < e.start
    BY <1>1, <1>2, <2>1, <2>4
  <2>5. CASE /\ ~(d = now.day /\ now.time >= e.start)
             /\ ~(d = Yesterday /\ now.time < e.start)
    <3>1. Since(d, e.start) >= DayLength /\ len < DayLength
      BY <1>1, <2>1, <2>2, <2>5
    <3>2. Since(d, e.start) \in Int
      <4>1. Weekdays \in Nat \ {0} /\ now.day \in Nat /\ d \in Nat
        BY <1>1, ArmingAssumption DEF ClockType
      <4>2. /\ Weekdays * DayLength \in Nat \ {0} /\ now.day * DayLength \in Nat
            /\ d * DayLength \in Nat
        BY <1>1, <4>1
      <4> QED BY <1>1, <4>2 DEF Since
    <3> QED BY <1>1, <2>2, <2>5, <3>1, <3>2
  <2> QED BY <2>3, <2>4, <2>5
<1> QED BY <1>3, <1>4

LEMMA ScheduleRight ==
  ASSUME ArmingType
  PROVE  ScheduleFollowed
<1>1. ClockType
  BY DEF ArmingType, ClockType
<1>2. arming.list \subseteq Entries
  BY ArmingAssumption DEF ArmingType, Entries
<1>3. ASSUME NEW e \in Entries
      PROVE  /\ InEntry(e) => Covers(e)
             /\ Covers(e) /\ ~InEntry(e) => Gap(e)
  <2>1. /\ now.time \in Nat /\ e.end \in Nat /\ e.start \in Nat
    BY <1>1, ArmingAssumption DEF ClockType, Entries
  <2>2. InEntry(e) <=>
          IF e.end >= e.start
          THEN now.day \in e.days /\ now.time > e.start /\ now.time < e.end
          ELSE IF now.day \in e.days THEN now.time > e.start
          ELSE Yesterday \in e.days /\ now.time > 0 /\ now.time < e.end
    BY Zenon DEF InEntry, Yesterday
  <2> QED BY <1>1, <2>1, <2>2, CoversWhen DEF Gap
<1>4. arming.type = "ontime" => (ArmNow = 1 <=> \E e \in arming.list : InEntry(e))
  BY DEF ArmNow
<1> QED BY <1>2, <1>3, <1>4 DEF ScheduleFollowed

(* The sensor is armed at no moment but those its schedule's entries cover, *)
(* and at all of those but for the code's two gaps: for any entries, over   *)
(* midnight and over the week's end.                                        *)
THEOREM ArmingFollowsSchedule == ArmingSpec => []ScheduleFollowed
  BY ArmingTypeCorrect, ScheduleRight, PTL
-----------------------------------------------------------------------------
(* Update. *)

UpRecord == [at : Places, tries : 0 .. WakeTries + AskTries, size : 0 .. Pieces,
             kind : {"camera", "gateway"}]

(* up_flag is set between a successful wake and the update's end only, and  *)
(* the status tells whether the thread is there.                            *)
FlagInv ==
  /\ status \in {"IDLE", "BUSY"} /\ up_flag \in BOOLEAN
  /\ (status = "IDLE") <=> (up.at = "none")
  /\ up.at \in {"none", "fetch", "gateway", "wake", "end"} => ~up_flag

LEMMA GoesOnTo ==
  ASSUME up \in UpRecord, NEW at \in Places, GoesOn(at)
  PROVE  up' \in UpRecord /\ up'.at = at
<1>1. up' = [at |-> at, tries |-> 0, size |-> up.size, kind |-> up.kind]
  BY DEF GoesOn, UpRecord
<1> QED BY <1>1, UpdateAssumption DEF UpRecord

LEMMA FailsTo ==
  ASSUME up \in UpRecord, Fails
  PROVE  up' \in UpRecord /\ up'.at = "end"
  BY GoesOnTo DEF Fails, Places

(* The thread's place, its counters and the flag, action by action.         *)
LEMMA FlagKept ==
  ASSUME up \in UpRecord, FlagInv, UpdateNext
  PROVE  up' \in UpRecord /\ FlagInv'
<1> USE UpdateAssumption DEF FlagInv
<1>1. ASSUME NEW kind \in {"camera", "gateway"}, StartUpdate(kind)
      PROVE  up' \in UpRecord /\ FlagInv'
  <2>1. up' = [at |-> "fetch", tries |-> 0, size |-> 0, kind |-> kind]
    BY <1>1 DEF StartUpdate, NoUpdate
  <2>2. up' \in UpRecord /\ up'.at = "fetch"
    BY <2>1 DEF UpRecord, Places
  <2>3. status' = "BUSY" /\ ~up_flag' /\ up_flag' \in BOOLEAN
    BY <1>1, Zenon DEF StartUpdate
  <2> QED BY <2>2, <2>3, Zenon
<1>2. ASSUME up.at # "none", UNCHANGED status, NEW at \in Places \ {"none"},
             up' \in UpRecord, up'.at = at, up_flag' \in BOOLEAN,
             up_flag' => at \notin {"fetch", "gateway", "wake", "end"}
      PROVE  up' \in UpRecord /\ FlagInv'
  <2>1. at # "none"
    OBVIOUS
  <2> QED BY <1>2, <2>1, Zenon
<1>3. ASSUME NEW ok \in BOOLEAN, Fetch(ok) PROVE up' \in UpRecord /\ FlagInv'
  <2>1. up.at = "fetch" /\ UNCHANGED status /\ ~up_flag' /\ up_flag' \in BOOLEAN
    BY <1>3, Zenon DEF Fetch
  <2>2. \E at \in {"gateway", "wake", "end"} : GoesOn(at)
    BY <1>3, Zenon DEF Fetch, Fails
  <2>3. PICK at \in {"gateway", "wake", "end"} : up' \in UpRecord /\ up'.at = at
    BY <2>2, GoesOnTo DEF Places
  <2>4. at \in Places \ {"none"} /\ up.at # "none"
    BY <2>1 DEF Places
  <2> QED BY <1>2, <2>1, <2>3, <2>4
<1>4. CASE Reboot
  <2>1. up' = NoUpdate /\ status' = "IDLE" /\ ~up_flag' /\ up_flag' \in BOOLEAN
    BY <1>4, Zenon DEF Reboot
  <2>2. up' \in UpRecord /\ up'.at = "none"
    BY <2>1 DEF NoUpdate, UpRecord, Places
  <2> QED BY <2>1, <2>2, Zenon
<1>5. CASE EndUpdate
  <2>1. up' = NoUpdate /\ status' = "IDLE" /\ ~up_flag' /\ up_flag' \in BOOLEAN
    BY <1>5, Zenon DEF EndUpdate
  <2>2. up' \in UpRecord /\ up'.at = "none"
    BY <2>1 DEF NoUpdate, UpRecord, Places
  <2> QED BY <2>1, <2>2, Zenon
<1>6. ASSUME up.at # "none", UNCHANGED status, ~up_flag', up_flag' \in BOOLEAN, Fails
      PROVE  up' \in UpRecord /\ FlagInv'
  <2>1. up' \in UpRecord /\ up'.at = "end"
    BY <1>6, FailsTo, Zenon
  <2>2. "end" \in Places \ {"none"}
    BY DEF Places
  <2> QED BY <1>2, <1>6, <2>1, <2>2
<1>7. CASE GatewayFails \/ NotReady
  <2>0. up.at \in {"gateway", "wake"} /\ UNCHANGED <<status, up_flag>> /\ Fails
    BY <1>7, Zenon DEF GatewayFails, NotReady
  <2>1. up.at # "none" /\ UNCHANGED status /\ ~up_flag' /\ up_flag' \in BOOLEAN /\ Fails
    BY <2>0, Zenon
  <2> QED BY <1>6, <2>1
<1>8. ASSUME NEW slept \in BOOLEAN, Releases(slept), up.at # "none", UNCHANGED status
      PROVE  up' \in UpRecord /\ FlagInv'
  <2>1. ~up_flag' /\ up_flag' \in BOOLEAN /\ Fails
    BY <1>8, Zenon DEF Releases
  <2> QED BY <1>6, <1>8, <2>1
<1>9. ASSUME NEW at \in Places \ {"none", "fetch", "gateway", "wake", "end"}, GoesOn(at),
             up.at # "none", UNCHANGED status, up_flag' \in BOOLEAN
      PROVE  up' \in UpRecord /\ FlagInv'
  <2>1. up' \in UpRecord /\ up'.at = at
    BY <1>9, GoesOnTo
  <2>2. at \in Places \ {"none"} /\ at \notin {"fetch", "gateway", "wake", "end"}
    OBVIOUS
  <2> QED BY <1>2, <1>9, <2>1, <2>2
<1>10. ASSUME NEW ok \in BOOLEAN, Wake(ok) PROVE up' \in UpRecord /\ FlagInv'
  <2>1. up.at = "wake" /\ UNCHANGED status /\ ~up_flag
    BY <1>10, Zenon DEF Wake
  <2>2. CASE GoesOn("sockets") /\ up_flag' = TRUE
    BY <1>9, <2>1, <2>2 DEF Places
  <2>3. CASE up.tries < WakeTries - 1 /\ up' = [up EXCEPT !.tries = @ + 1]
             /\ UNCHANGED up_flag
    <3>1. up' = [at |-> "wake", tries |-> up.tries + 1, size |-> up.size, kind |-> up.kind]
      BY <2>1, <2>3 DEF UpRecord
    <3>2. up' \in UpRecord /\ up'.at = "wake" /\ "wake" \in Places \ {"none"}
      BY <2>3, <3>1 DEF UpRecord, Places
    <3>3. ~up_flag' /\ up_flag' \in BOOLEAN
      BY <2>1, <2>3, Zenon
    <3> QED BY <1>2, <2>1, <3>2, <3>3
  <2>4. CASE Fails /\ UNCHANGED up_flag
    <3>1. ~up_flag' /\ up_flag' \in BOOLEAN
      BY <2>1, <2>4, Zenon
    <3> QED BY <1>6, <2>1, <2>4, <3>1
  <2> QED BY <1>10, <2>2, <2>3, <2>4, Zenon DEF Wake
<1>11. ASSUME NEW ok \in BOOLEAN, Sockets(ok) PROVE up' \in UpRecord /\ FlagInv'
  <2>1. up.at = "sockets" /\ UNCHANGED status
    BY <1>11, Zenon DEF Sockets
  <2>2. CASE GoesOn("ask") /\ UNCHANGED up_flag
    BY <1>9, <2>1, <2>2 DEF Places
  <2>3. CASE \E slept \in BOOLEAN : Releases(slept)
    BY <1>8, <2>1, <2>3
  <2> QED BY <1>11, <2>2, <2>3, Zenon DEF Sockets
<1>12. ASSUME NEW ok \in BOOLEAN, Ask(ok) PROVE up' \in UpRecord /\ FlagInv'
  <2>1. up.at = "ask" /\ up.tries < AskTries /\ UNCHANGED status
    BY <1>12, Zenon DEF Ask
  <2>2. CASE up' = [up EXCEPT !.at = "resp", !.tries = @ + 1] /\ UNCHANGED up_flag
    <3>1. up' = [at |-> "resp", tries |-> up.tries + 1, size |-> up.size, kind |-> up.kind]
      BY <2>2 DEF UpRecord
    <3>2. up' \in UpRecord /\ up'.at = "resp"
      BY <2>1, <3>1 DEF UpRecord, Places
    <3>3. "resp" \in Places \ {"none"} /\ "resp" \notin {"fetch", "gateway", "wake", "end"}
      BY DEF Places
    <3> QED BY <1>2, <2>1, <2>2, <3>2, <3>3
  <2>3. CASE \E slept \in BOOLEAN : Releases(slept)
    BY <1>8, <2>1, <2>3
  <2> QED BY <1>12, <2>2, <2>3, Zenon DEF Ask
<1>13. CASE NoResp
  <2>1. up.at = "ask" /\ UNCHANGED status /\ GoesOn("send") /\ up_flag' \in BOOLEAN
    BY <1>13, Zenon DEF NoResp
  <2> QED BY <1>9, <2>1 DEF Places
<1>14. CASE Resp
  <2>1. up.at = "resp" /\ UNCHANGED <<status, up_flag>>
    BY <1>14, Zenon DEF Resp
  <2>2. CASE GoesOn("send")
    BY <1>9, <2>1, <2>2 DEF Places
  <2>3. CASE up' = [up EXCEPT !.at = "ask"]
    <3>1. up' \in UpRecord /\ up'.at = "ask"
      BY <2>3 DEF UpRecord, Places
    <3>2. "ask" \in Places \ {"none"} /\ "ask" \notin {"fetch", "gateway", "wake", "end"}
      BY DEF Places
    <3> QED BY <1>2, <2>1, <3>1, <3>2
  <2> QED BY <1>14, <2>2, <2>3, Zenon DEF Resp
<1>15. ASSUME NEW sent \in BOOLEAN, SendPiece(sent) PROVE up' \in UpRecord /\ FlagInv'
  <2>1. up.at = "send" /\ UNCHANGED <<status, up_flag>> /\ up.size < Pieces
        /\ up' = [up EXCEPT !.size = @ + 1]
    BY <1>15, Zenon DEF SendPiece
  <2>2. up' \in UpRecord /\ up'.at = "send"
    BY <2>1 DEF UpRecord
  <2>3. "send" \in Places \ {"none"} /\ "send" \notin {"fetch", "gateway", "wake", "end"}
    BY DEF Places
  <2> QED BY <1>2, <2>1, <2>2, <2>3
<1>16. CASE StopSending
  <2>1. up.at = "send" /\ UNCHANGED status
    BY <1>16, Zenon DEF StopSending
  <2>2. CASE GoesOn("sent") /\ UNCHANGED up_flag
    BY <1>9, <2>1, <2>2 DEF Places
  <2>3. CASE up_flag' = FALSE /\ Fails
    <3>1. ~up_flag' /\ up_flag' \in BOOLEAN
      BY <2>3, Zenon
    <3> QED BY <1>6, <2>1, <2>3, <3>1
  <2> QED BY <1>16, <2>2, <2>3, Zenon DEF StopSending
<1>17. CASE SayEnd
  <2>1. up.at = "sent" /\ UNCHANGED <<status, up_flag>> /\ GoesOn("ack")
    BY <1>17, Zenon DEF SayEnd
  <2> QED BY <1>9, <2>1 DEF Places
<1>18. CASE NoAck
  <2>1. up.at = "ack" /\ UNCHANGED status /\ \E slept \in BOOLEAN : Releases(slept)
    BY <1>18, Zenon DEF NoAck
  <2> QED BY <1>8, <2>1
<1>19. CASE Ack
  <2>1. up.at = "ack" /\ UNCHANGED status
    BY <1>19, Zenon DEF Ack
  <2>2. CASE GoesOn("flash") /\ UNCHANGED up_flag
    BY <1>9, <2>1, <2>2 DEF Places
  <2>3. CASE \E slept \in BOOLEAN : Releases(slept)
    BY <1>8, <2>1, <2>3
  <2> QED BY <1>19, <2>2, <2>3, Zenon DEF Ack
<1>20. CASE AwaitResult
  <2>1. up.at = "flash" /\ UNCHANGED <<status, up_flag>> /\ GoesOn("result")
    BY <1>20, Zenon DEF AwaitResult
  <2> QED BY <1>9, <2>1 DEF Places
<1>21. CASE NoResult
  <2>1. up.at = "result" /\ UNCHANGED status /\ ~up_flag' /\ up_flag' \in BOOLEAN /\ Fails
    BY <1>21, Zenon DEF NoResult
  <2> QED BY <1>6, <2>1
<1>22. CASE Result
  <2>1. up.at = "result" /\ UNCHANGED status /\ ~up_flag' /\ up_flag' \in BOOLEAN
        /\ GoesOn("end")
    BY <1>22, Zenon DEF Result
  <2>2. up' \in UpRecord /\ up'.at = "end" /\ "end" \in Places \ {"none"}
    BY <2>1, GoesOnTo DEF Places
  <2> QED BY <1>2, <2>1, <2>2
<1>23. CASE UNCHANGED <<status, up, up_flag>>
  BY <1>23, Zenon
<1>24. CASE RunOut \/ HearAnswer \/ CameraHears \/ LinkLost
            \/ \E ok \in BOOLEAN : CameraFlashes(ok)
  <2>1. UNCHANGED <<status, up, up_flag>>
    BY <1>24, Zenon DEF RunOut, HearAnswer, CameraHears, LinkLost, CameraFlashes
  <2> QED BY <1>23, <2>1
<1> QED BY <1>1, <1>3, <1>4, <1>5, <1>7, <1>10, <1>11, <1>12, <1>13, <1>14, <1>15,
           <1>16, <1>17, <1>18, <1>19, <1>20, <1>21, <1>22, <1>24
        DEF UpdateNext, Updater
-----------------------------------------------------------------------------
(* The messages on their way, the camera, and what the app is told.         *)
CameraRecord == [does : {"normal", "updating", "flashing"}, got : 0 .. Pieces,
                 new : BOOLEAN]

Answers == [is : {"RESP", "ACK", "RESULT"}, says : Results]

RestType ==
  /\ wait \in {"counting", "out", "answered"} /\ result \in Results
  /\ told \in {"none", "going", "failed", "SUCCESS"}
  /\ tocam \in Seq({"REQ", "TRANSEND", "TRANSFAIL"})
  /\ fromcam \in Seq(Answers)
  /\ camera \in CameraRecord /\ timely \in BOOLEAN

\* Whatever update_pth does to the messages.
LinkStep ==
  \/ UNCHANGED link
  \/ tocam' = <<>> /\ fromcam' = <<>>
  \/ UNCHANGED fromcam /\ \E m \in {"REQ", "TRANSEND", "TRANSFAIL"} : tocam' = Append(tocam, m)

(* The thread's own steps change the camera in one way only: a piece may    *)
(* reach it.                                                                *)
LEMMA UpdaterDoes ==
  ASSUME Updater
  PROVE  /\ LinkStep /\ timely' = timely
         /\ UNCHANGED camera \/ \E ok \in BOOLEAN : SendPiece(ok)
         /\ wait' \in {wait, "counting", "out"}
         /\ UNCHANGED result \/ (result' = "none" /\ up.at = "flash" /\ GoesOn("result"))
         /\ \/ told' \in {told, "going", "failed"}
            \/ told' = "SUCCESS" /\ up.at = "result" /\ result = "SUCCESS"
<1> USE DEF LinkStep, Sleeps, link, Fails, Releases
<1>1. ASSUME NEW ok \in BOOLEAN, Fetch(ok) \/ Wake(ok) \/ Sockets(ok) \/ Ask(ok)
                                 \/ SendPiece(ok)
      PROVE  /\ LinkStep /\ timely' = timely
             /\ UNCHANGED camera \/ SendPiece(ok)
             /\ wait' \in {wait, "counting", "out"} /\ UNCHANGED result
             /\ told' \in {told, "going", "failed"}
  BY <1>1, Zenon DEF Fetch, Wake, Sockets, Ask, SendPiece
<1>2. ASSUME GatewayFails \/ NotReady \/ NoResp \/ Resp \/ StopSending \/ SayEnd
             \/ NoAck \/ Ack \/ NoResult \/ EndUpdate \/ RunOut
      PROVE  /\ LinkStep /\ timely' = timely /\ UNCHANGED camera
             /\ wait' \in {wait, "counting", "out"} /\ UNCHANGED result
             /\ told' \in {told, "going", "failed"}
  BY <1>2, Zenon DEF GatewayFails, NotReady, NoResp, Resp, StopSending, SayEnd, NoAck,
     Ack, NoResult, EndUpdate, RunOut
<1>3. ASSUME AwaitResult
      PROVE  /\ LinkStep /\ timely' = timely /\ UNCHANGED camera
             /\ wait' \in {wait, "counting", "out"}
             /\ result' = "none" /\ up.at = "flash" /\ GoesOn("result")
             /\ told' \in {told, "going", "failed"}
  BY <1>3, Zenon DEF AwaitResult
<1>4. ASSUME Result
      PROVE  /\ LinkStep /\ timely' = timely /\ UNCHANGED camera
             /\ wait' \in {wait, "counting", "out"} /\ UNCHANGED result
             /\ \/ told' \in {told, "going", "failed"}
                \/ told' = "SUCCESS" /\ up.at = "result" /\ result = "SUCCESS"
  BY <1>4, Zenon DEF Result, Succeeded
<1> QED BY <1>1, <1>2, <1>3, <1>4, Zenon DEF Updater

LEMMA LinkStepType ==
  ASSUME RestType, LinkStep
  PROVE  tocam' \in Seq({"REQ", "TRANSEND", "TRANSFAIL"}) /\ fromcam' \in Seq(Answers)
<1>1. CASE UNCHANGED link
  BY <1>1 DEF RestType, link
<1>2. CASE tocam' = <<>> /\ fromcam' = <<>>
  BY <1>2
<1>3. ASSUME NEW m \in {"REQ", "TRANSEND", "TRANSFAIL"}, tocam' = Append(tocam, m),
             UNCHANGED fromcam
      PROVE  tocam' \in Seq({"REQ", "TRANSEND", "TRANSFAIL"}) /\ fromcam' \in Seq(Answers)
  BY <1>3 DEF RestType
<1> QED BY <1>1, <1>2, <1>3 DEF LinkStep

LEMMA AnswerType ==
  ASSUME fromcam \in Seq(Answers), NEW is \in {"RESP", "ACK", "RESULT"},
         NEW says \in Results, Answer(is, says)
  PROVE  fromcam' \in Seq(Answers)
  BY DEF Answer, Answers

LEMMA RestKept ==
  ASSUME up \in UpRecord, RestType, UpdateNext
  PROVE  RestType'
<1>1. CASE Updater
  <2>1. camera' \in CameraRecord
    <3>1. ASSUME NEW ok \in BOOLEAN, SendPiece(ok) PROVE camera' \in CameraRecord
      <4>1. \/ UNCHANGED camera
            \/ camera.got < Pieces /\ camera' = [camera EXCEPT !.got = camera.got + 1]
        BY <3>1 DEF SendPiece, RestType, CameraRecord
      <4> QED BY <4>1, UpdateAssumption DEF RestType, CameraRecord
    <3> QED BY <1>1, <3>1, UpdaterDoes DEF RestType
  <2>2. wait' \in {"counting", "out", "answered"} /\ result' \in Results
        /\ told' \in {"none", "going", "failed", "SUCCESS"} /\ timely' \in BOOLEAN
    BY <1>1, UpdaterDoes, Zenon DEF RestType, Results
  <2> QED BY <1>1, <2>1, <2>2, LinkStepType, UpdaterDoes, Zenon DEF RestType
<1>2. ASSUME NEW kind \in {"camera", "gateway"}, StartUpdate(kind) PROVE RestType'
  <2>1. camera' \in CameraRecord
    BY <1>2 DEF StartUpdate, RestType, CameraRecord
  <2>2. timely' \in BOOLEAN /\ UNCHANGED link
        /\ result' = "none" /\ wait' = "out" /\ told' = "none"
    BY <1>2, Zenon DEF StartUpdate
  <2> QED BY <2>1, <2>2, Zenon DEF RestType, link, Results
<1>3. CASE Reboot
  <2>1. <<>> \in Seq({"REQ", "TRANSEND", "TRANSFAIL"}) /\ <<>> \in Seq(Answers)
    OBVIOUS
  <2> QED BY <1>3, <2>1, Zenon DEF Reboot, RestType, Results
<1>4. CASE HearAnswer
  <2>1. Head(fromcam) \in Answers /\ fromcam' \in Seq(Answers)
    BY <1>4 DEF HearAnswer, RestType
  <2>2. result' \in Results
    BY <1>4, <2>1 DEF HearAnswer, RestType, Answers
  <2>3. wait' \in {"answered", wait} /\ timely' \in BOOLEAN
        /\ UNCHANGED <<told, tocam, camera>>
    BY <1>4, Zenon DEF HearAnswer
  <2> QED BY <2>1, <2>2, <2>3, Zenon DEF RestType
<1>5. CASE CameraHears
  <2>1. tocam' \in Seq({"REQ", "TRANSEND", "TRANSFAIL"})
    BY <1>5 DEF CameraHears, RestType
  <2>2. UNCHANGED fromcam \/ \E is \in {"RESP", "ACK"}, says \in {"none", "SUCCESS", "CRCFAIL"} :
                               Answer(is, says)
    BY <1>5, Zenon DEF CameraHears
  <2>3. fromcam' \in Seq(Answers)
    BY <2>2, AnswerType DEF RestType, Results
  <2>4. \E does \in {"normal", "updating", "flashing"}, got \in {0, camera.got} :
          camera' = [camera EXCEPT !.does = does, !.got = got]
    BY <1>5 DEF CameraHears, RestType, CameraRecord
  <2>5. camera' \in CameraRecord
    <3>1. PICK does \in {"normal", "updating", "flashing"}, got \in {0, camera.got} :
            camera' = [camera EXCEPT !.does = does, !.got = got]
      BY <2>4
    <3>2. camera' = [does |-> does, got |-> got, new |-> camera.new]
      BY <3>1 DEF RestType, CameraRecord
    <3>3. got \in 0 .. Pieces
      BY UpdateAssumption DEF RestType, CameraRecord
    <3> QED BY <3>2, <3>3 DEF RestType, CameraRecord
  <2>6. UNCHANGED <<wait, result, told, timely>>
    BY <1>5, Zenon DEF CameraHears
  <2> QED BY <2>1, <2>3, <2>5, <2>6, Zenon DEF RestType
<1>6. ASSUME NEW ok \in BOOLEAN, CameraFlashes(ok) PROVE RestType'
  <2>1. camera' \in CameraRecord
    BY <1>6 DEF CameraFlashes, RestType, CameraRecord
  <2>2. fromcam' \in Seq(Answers)
    BY <1>6, AnswerType DEF CameraFlashes, RestType, Results
  <2>3. UNCHANGED <<wait, result, told, tocam, timely>>
    BY <1>6, Zenon DEF CameraFlashes
  <2> QED BY <2>1, <2>2, <2>3, Zenon DEF RestType
<1>7. CASE LinkLost
  <2>1. <<>> \in Seq({"REQ", "TRANSEND", "TRANSFAIL"}) /\ <<>> \in Seq(Answers)
    OBVIOUS
  <2> QED BY <1>7, <2>1, Zenon DEF LinkLost, RestType
<1> QED BY <1>1, <1>2, <1>3, <1>4, <1>5, <1>6, <1>7 DEF UpdateNext
-----------------------------------------------------------------------------
(* As long as every answer was heard in its wait and nothing was left of an *)
(* earlier update, a report of success comes from a camera with a new image.*)
SaysSuccess(a) == a.is = "RESULT" /\ a.says = "SUCCESS"

ReportInv ==
  timely => /\ \A i \in 1 .. Len(fromcam) : SaysSuccess(fromcam[i]) => camera.new
            /\ (up.at = "result" /\ result = "SUCCESS") => camera.new

UpdateInv == up \in UpRecord /\ FlagInv /\ RestType /\ ReportInv

(* A camera keeps its new image until the next update begins.               *)
LEMMA NewKept ==
  ASSUME UpdateInv, UpdateNext, camera.new
  PROVE  camera'.new \/ \E kind \in {"camera", "gateway"} : StartUpdate(kind)
<1> USE DEF UpdateInv, RestType, CameraRecord
<1>1. ASSUME NEW ok \in BOOLEAN, SendPiece(ok) PROVE camera'.new
  <2>1. camera'.new = camera.new
    BY <1>1 DEF SendPiece
  <2> QED BY <2>1
<1>2. CASE Updater
  BY <1>1, <1>2, UpdaterDoes
<1>3. CASE CameraHears
  <2>1. camera'.new = camera.new
    BY <1>3 DEF CameraHears
  <2> QED BY <2>1
<1>4. ASSUME NEW ok \in BOOLEAN, CameraFlashes(ok) PROVE camera'.new
  BY <1>4 DEF CameraFlashes
<1>5. CASE Reboot \/ HearAnswer \/ LinkLost
  BY <1>5 DEF Reboot, HearAnswer, LinkLost
<1> QED BY <1>2, <1>3, <1>4, <1>5 DEF UpdateNext

LEMMA ReportKept ==
  ASSUME UpdateInv, UpdateNext
  PROVE  ReportInv'
<1> SUFFICES ASSUME timely'
             PROVE  /\ \A i \in 1 .. Len(fromcam') : SaysSuccess(fromcam'[i]) => camera'.new
                    /\ (up'.at = "result" /\ result' = "SUCCESS") => camera'.new
  BY DEF ReportInv, SaysSuccess
<1>1. ASSUME NEW kind \in {"camera", "gateway"}, StartUpdate(kind)
      PROVE  /\ \A i \in 1 .. Len(fromcam') : SaysSuccess(fromcam'[i]) => camera'.new
             /\ (up'.at = "result" /\ result' = "SUCCESS") => camera'.new
  <2>1. fromcam' = <<>> /\ result' = "none"
    BY <1>1, Zenon DEF StartUpdate, link
  <2> QED BY <2>1
<1>2. ASSUME timely, ~\E kind \in {"camera", "gateway"} : StartUpdate(kind)
      PROVE  /\ \A i \in 1 .. Len(fromcam) : SaysSuccess(fromcam[i]) => camera'.new
             /\ (up.at = "result" /\ result = "SUCCESS") => camera'.new
  BY <1>2, NewKept, Zenon DEF UpdateInv, ReportInv
<1>3. ASSUME timely, UNCHANGED fromcam \/ fromcam' = <<>>,
             ~\E kind \in {"camera", "gateway"} : StartUpdate(kind)
      PROVE  \A i \in 1 .. Len(fromcam') : SaysSuccess(fromcam'[i]) => camera'.new
  BY <1>2, <1>3
<1>4. CASE Updater /\ ~\E kind \in {"camera", "gateway"} : StartUpdate(kind)
  <2>1. timely /\ (UNCHANGED fromcam \/ fromcam' = <<>>)
    BY <1>4, UpdaterDoes, Zenon DEF LinkStep, link
  <2>2. (up'.at = "result" /\ result' = "SUCCESS") => camera'.new
    <3>1. CASE UNCHANGED result /\ up'.at = up.at
      BY <1>2, <1>4, <2>1, <3>1, Zenon
    <3>2. CASE result' = "none"
      BY <3>2
    <3>3. CASE UNCHANGED result /\ result' # "none" /\ up'.at # up.at
      <4>1. up'.at # "result"
        <5>1. ASSUME NEW at, at # "result", GoesOn(at) PROVE up'.at # "result"
          BY <5>1 DEF GoesOn, UpdateInv, UpRecord
        <5>2. ASSUME up' = [up EXCEPT !.tries = up.tries + 1] \/ up' = up
                     \/ up' = [up EXCEPT !.size = up.size + 1]
              PROVE  up'.at = up.at
          BY <5>2 DEF UpdateInv, UpRecord
        <5>3. CASE up' = [up EXCEPT !.at = "ask"]
          BY <5>3 DEF UpdateInv, UpRecord
        <5>4. CASE up' = [up EXCEPT !.at = "resp", !.tries = up.tries + 1]
          BY <5>4 DEF UpdateInv, UpRecord
        <5>5. CASE up' = NoUpdate
          BY <5>5 DEF NoUpdate
        <5>6. \/ \E at \in {"end", "gateway", "wake", "sockets", "ask", "send", "sent", "ack",
                            "flash"} : GoesOn(at)
              \/ up' = [up EXCEPT !.tries = up.tries + 1] \/ up' = up
              \/ up' = [up EXCEPT !.size = up.size + 1]
              \/ up' = [up EXCEPT !.at = "ask"]
              \/ up' = [up EXCEPT !.at = "resp", !.tries = up.tries + 1]
              \/ up' = NoUpdate \/ AwaitResult
          BY <1>4, Zenon DEF Updater, Fetch, Wake, Sockets, Ask, SendPiece, GatewayFails,
             NotReady, NoResp, Resp, StopSending, SayEnd, NoAck, Ack, NoResult, Result,
             EndUpdate, RunOut, Fails, Releases
        <5>7. CASE AwaitResult
          BY <3>3, <5>7, Zenon DEF AwaitResult
        <5> QED BY <3>3, <5>1, <5>2, <5>3, <5>4, <5>5, <5>6, <5>7
      <4> QED BY <4>1
    <3> QED BY <1>4, <3>1, <3>2, <3>3, UpdaterDoes
  <2> QED BY <1>3, <1>4, <2>1, <2>2
<1> DEFINE Started == \E kind \in {"camera", "gateway"} : StartUpdate(kind)
<1>5. CASE (Reboot \/ LinkLost) /\ ~Started
  <2>1. timely /\ fromcam' = <<>>
    BY <1>5, Zenon DEF Reboot, LinkLost
  <2>2. \/ UNCHANGED <<up, result>>
        \/ result' = "none"
    BY <1>5, Zenon DEF Reboot, LinkLost
  <2>3. (up'.at = "result" /\ result' = "SUCCESS") => camera'.new
    BY <1>2, <1>5, <2>1, <2>2
  <2> QED BY <1>3, <1>5, <2>1, <2>3
<1>6. CASE HearAnswer /\ ~Started
  <2> DEFINE a == Head(fromcam)
  <2>1. timely /\ a.is = AnswerTo(up.at) /\ fromcam # <<>> /\ fromcam' = Tail(fromcam)
        /\ UNCHANGED up /\ result' = IF a.is = "RESP" THEN result ELSE a.says
    BY <1>6, Zenon DEF HearAnswer
  <2>2. Len(fromcam') = Len(fromcam) - 1 /\ a = fromcam[1] /\ 1 \in 1 .. Len(fromcam)
        /\ \A i \in 1 .. Len(fromcam') : fromcam'[i] = fromcam[i + 1]
                                         /\ i + 1 \in 1 .. Len(fromcam)
    BY <2>1 DEF UpdateInv, RestType
  <2>3. \A i \in 1 .. Len(fromcam') : SaysSuccess(fromcam'[i]) => camera'.new
    BY <1>2, <1>6, <2>1, <2>2
  <2>4. ASSUME up'.at = "result", result' = "SUCCESS" PROVE camera'.new
    <3>1. AnswerTo("result") = "RESULT"
      BY Zenon DEF AnswerTo
    <3>2. SaysSuccess(fromcam[1])
      BY <2>1, <2>2, <2>4, <3>1 DEF SaysSuccess
    <3> QED BY <1>2, <1>6, <2>1, <2>2, <3>2
  <2> QED BY <2>3, <2>4
<1>7. ASSUME NEW is \in {"RESP", "ACK", "RESULT"}, NEW says \in Results, Answer(is, says),
             timely, is = "RESULT" /\ says = "SUCCESS" => camera'.new, ~Started,
             UNCHANGED <<up, result>>
      PROVE  /\ \A i \in 1 .. Len(fromcam') : SaysSuccess(fromcam'[i]) => camera'.new
             /\ (up'.at = "result" /\ result' = "SUCCESS") => camera'.new
  <2>1. /\ Len(fromcam') = Len(fromcam) + 1
        /\ fromcam'[Len(fromcam) + 1] = [is |-> is, says |-> says]
        /\ \A i \in 1 .. Len(fromcam) : fromcam'[i] = fromcam[i]
    BY <1>7 DEF Answer, UpdateInv, RestType, Answers
  <2>2. ASSUME NEW i \in 1 .. Len(fromcam'), SaysSuccess(fromcam'[i]) PROVE camera'.new
    <3>1. CASE i \in 1 .. Len(fromcam)
      BY <1>2, <1>7, <2>1, <2>2, <3>1
    <3>2. CASE i = Len(fromcam) + 1
      BY <1>7, <2>1, <2>2, <3>2 DEF SaysSuccess
    <3>3. i \in 1 .. Len(fromcam) \/ i = Len(fromcam) + 1
      <4>1. Len(fromcam) \in Nat
        BY DEF UpdateInv, RestType
      <4> QED BY <2>1, <4>1
    <3> QED BY <3>1, <3>2, <3>3
  <2> QED BY <1>2, <1>7, <2>2
<1>8. CASE CameraHears /\ ~Started
  <2>1. timely /\ UNCHANGED <<up, result>>
    BY <1>8, Zenon DEF CameraHears
  <2>2. CASE UNCHANGED fromcam
    BY <1>2, <1>3, <1>8, <2>1, <2>2
  <2>3. CASE \E is \in {"RESP", "ACK"}, says \in {"none", "SUCCESS", "CRCFAIL"} :
               Answer(is, says)
    BY <1>7, <1>8, <2>1, <2>3 DEF Results
  <2> QED BY <1>8, <2>2, <2>3, Zenon DEF CameraHears
<1>9. ASSUME NEW ok \in BOOLEAN, CameraFlashes(ok), ~Started
      PROVE  /\ \A i \in 1 .. Len(fromcam') : SaysSuccess(fromcam'[i]) => camera'.new
             /\ (up'.at = "result" /\ result' = "SUCCESS") => camera'.new
  <2>1. timely /\ UNCHANGED <<up, result>>
        /\ Answer("RESULT", IF ok THEN "SUCCESS" ELSE "FAIL")
    BY <1>9, Zenon DEF CameraFlashes
  <2>2. CASE ok
    <3>1. camera'.new
      BY <1>9, <2>2 DEF CameraFlashes, UpdateInv, RestType, CameraRecord
    <3>2. Answer("RESULT", "SUCCESS")
      BY <2>1, <2>2, Zenon
    <3> QED BY <1>7, <1>9, <2>1, <3>1, <3>2 DEF Results
  <2>3. CASE ~ok
    <3>1. Answer("RESULT", "FAIL")
      BY <2>1, <2>3, Zenon
    <3> QED BY <1>7, <1>9, <2>1, <3>1 DEF Results
  <2> QED BY <2>2, <2>3
<1> QED BY <1>1, <1>4, <1>5, <1>6, <1>8, <1>9 DEF UpdateNext
-----------------------------------------------------------------------------
LEMMA UpdateInitInv == UpdateInit => UpdateInv
<1> SUFFICES ASSUME UpdateInit PROVE UpdateInv
  OBVIOUS
<1>1. up \in UpRecord /\ up.at = "none"
  BY UpdateAssumption DEF UpdateInit, NoUpdate, UpRecord, Places
<1>2. FlagInv
  BY <1>1, Zenon DEF UpdateInit, FlagInv
<1>3. camera \in CameraRecord
  BY UpdateAssumption DEF UpdateInit, CameraRecord
<1>4. <<>> \in Seq({"REQ", "TRANSEND", "TRANSFAIL"}) /\ <<>> \in Seq(Answers)
  OBVIOUS
<1>5. RestType
  BY <1>3, <1>4, Zenon DEF UpdateInit, RestType, Results
<1>6. ReportInv
  <2>1. fromcam = <<>> /\ up.at # "result"
    BY <1>1 DEF UpdateInit
  <2> QED BY <2>1 DEF ReportInv
<1> QED BY <1>1, <1>2, <1>5, <1>6 DEF UpdateInv

LEMMA UpdateInvariant == UpdateSpec => []UpdateInv
<1>1. UpdateInit => UpdateInv
  BY UpdateInitInv
<1>2. UpdateInv /\ [UpdateNext]_updateVars => UpdateInv'
  <2>1. ASSUME UpdateInv, UpdateNext PROVE UpdateInv'
    BY <2>1, FlagKept, RestKept, ReportKept DEF UpdateInv
  <2>2. ASSUME UpdateInv, UNCHANGED updateVars PROVE UpdateInv'
    BY <2>2, Zenon DEF UpdateInv, FlagInv, RestType, ReportInv, updateVars
  <2> QED BY <2>1, <2>2
<1> QED BY <1>1, <1>2, PTL DEF UpdateSpec

(* Every variable of an update keeps its type: the pieces never exceed the  *)
(* image, the tries their limits.                                           *)
THEOREM UpdateTypeCorrect == UpdateSpec => []UpdateType
<1>1. ASSUME UpdateInv PROVE UpdateType
  <2>1. up.at \in Places /\ up.tries \in 0 .. WakeTries + AskTries
        /\ up.size \in 0 .. Pieces /\ up.kind \in {"camera", "gateway"}
    BY <1>1 DEF UpdateInv, UpRecord
  <2>2. camera.does \in {"normal", "updating", "flashing"}
        /\ camera.got \in 0 .. Pieces /\ camera.new \in BOOLEAN
    BY <1>1 DEF UpdateInv, RestType, CameraRecord
  <2> QED BY <1>1, <2>1, <2>2, Zenon DEF UpdateInv, FlagInv, RestType, Answers, UpdateType
<1>2. UpdateInv => UpdateType
  BY <1>1
<1> QED BY <1>2, UpdateInvariant, PTL

(* Whichever way an update ends, the camera's flag is cleared: no place     *)
(* between the last use of the camera and the end still has it set.         *)
THEOREM FlagCleared == UpdateSpec => []CameraLetGo
<1>1. UpdateInv => CameraLetGo
  BY Zenon DEF UpdateInv, FlagInv, CameraLetGo
<1> QED BY <1>1, UpdateInvariant, PTL

(* SUCCESS is told of a camera with a new image, for images of any size and *)
(* any pattern of lost messages, unless an answer was heard out of its wait.*)
THEOREM SuccessReported == UpdateSpec => SuccessIsReal
<1> DEFINE Real == (told' = "SUCCESS" /\ told # "SUCCESS") => camera.new \/ ~timely
<1>1. ASSUME UpdateInv, [UpdateNext]_updateVars, told' = "SUCCESS", told # "SUCCESS"
      PROVE  camera.new \/ ~timely
  <2>1. Updater
    BY <1>1, Zenon DEF UpdateNext, StartUpdate, Reboot, HearAnswer, CameraHears, LinkLost,
       CameraFlashes, updateVars
  <2>2. up.at = "result" /\ result = "SUCCESS"
    BY <1>1, <2>1, UpdaterDoes
  <2> QED BY <1>1, <2>2, Zenon DEF UpdateInv, ReportInv
<1>2. UpdateInv /\ [UpdateNext]_updateVars => [Real]_updateVars
  BY <1>1
<1> QED BY <1>2, UpdateInvariant, PTL DEF UpdateSpec, SuccessIsReal
=============================================================================
