---------------------------- MODULE MCSmallParts ----------------------------
(***************************************************************************)
(* Instances for TLC of three parts of the gateway that share no variable: *)
(* a ring with one producer, the motion sensor of a channel, and the table *)
(* of cameras that ask to be paired.  A behaviour is of one part only,     *)
(* drawn at the start.                                                     *)
(***************************************************************************)
EXTENDS MCQueList, Arming, SearchList

CONSTANTS a1, a2, a3, n1, n2, n3

VARIABLE part

partsVars == <<part, vars, armingVars, searchVars>>

ThreeCameras == {<<a1, n1>>, <<a2, n2>>, <<a3, n3>>}

\* No list, or one entry: every one there is.
EachEntry ==
  {{}} \cup {{[start |-> s, end |-> e, days |-> d]} :
               s, e \in 0 .. DayLength - 1, d \in SUBSET (0 .. Weekdays - 1)}

\* One schedule, entered at some moment, through the week; then what schedules
\* switch: the sensor without the first check, and the first check with one caller.
Schedule ==
  /\ part = "schedule"
  /\ \/ Tick \/ FillSchedule
     \/ arming.type = "enable" /\ \E list \in Lists : SetSchedule("ontime", list)

Switch == FillSchedule \/ \E type \in {"enable", "disable"} : SetSchedule(type, {})

Sensor ==
  /\ part = "sensor"
  /\ \/ Switch \/ Sensitivities \/ ArmThread \/ PirRadio \/ Presences
     \/ \E v \in Values : Paired(v)
  /\ awake'

Ready ==
  /\ part = "ready"
  /\ Switch \/ ArmThread \/ PirRadio \/ Presences \/ CheckThread \/ Reports

PartsInit ==
  /\ part \in {"ring", "schedule", "sensor", "ready", "table"}
  /\ Init /\ ArmingInit /\ SearchList_Init
  /\ awake <=> part = "sensor"

PartsNext ==
  /\ UNCHANGED part
  /\ \/ part = "ring" /\ Next /\ UNCHANGED <<armingVars, searchVars>>
     \/ (Schedule \/ Sensor \/ Ready) /\ UNCHANGED <<vars, searchVars>>
     \/ part = "table" /\ SearchNext /\ UNCHANGED <<vars, armingVars>>

\* Each part's own fairness.  The cameras of "sensor" go offline for ever: that
\* part is for what must never happen.
PartsFairness ==
  /\ WF_vars(part = "ring" /\ Consumer)
  /\ \A p \in Producers : WF_vars(part = "ring" /\ Step(p))
  /\ WF_armingVars(part = "sensor" /\ NotReadyAgain(0, 1))
  /\ WF_armingVars(part = "ready" /\ ArmThread)
  /\ WF_armingVars(part = "ready" /\ CheckThread)
  /\ SF_armingVars(part = "ready" /\ CallHeard)
  /\ SF_armingVars(part = "ready" /\ CheckSleeps(TRUE) /\ check = "sleep1")
  /\ SF_armingVars(part = "ready" /\ CheckWakes(TRUE))
  /\ SF_armingVars(part = "ready" /\ FirstConnect)
  /\ WF_searchVars(part = "table" /\ MainTurn)
  /\ WF_searchVars(part = "table" /\ SecondPasses)

PartsSpec == PartsInit /\ [][PartsNext]_partsVars /\ PartsFairness
=============================================================================
