----------------------------- MODULE SearchList -----------------------------
(***************************************************************************)
(* The table of cameras that ask to be paired (g_searchcamera of vavahal.c *)
(* and the procedures named after SearchList there).                       *)
(*                                                                         *)
(* The radio thread inserts and removes entries, the camera's client       *)
(* thread removes the one it has paired, and the main loop drops those     *)
(* that have been listed for MaxAge seconds.  Every procedure runs under   *)
(* mutex_search_camera_lock from its first line to its last, so it is one  *)
(* step.  An entry is found by its radio address or by its serial number.  *)
(*                                                                         *)
(* Times are seconds of the wall clock in an unsigned int: the difference  *)
(* of two is taken modulo Wrap (2^32), so a clock set back, as the time    *)
(* server may do at start-up, makes every entry look old.                  *)
(***************************************************************************)
EXTENDS Integers, FiniteSets

CONSTANTS Announced,     \* <<address, serial number>> of each camera
          NoAddr, NoSn,  \* 0xFFFFFFFF and the empty string
          MAX_SEARCH_CAMERA_NUM,   \* 10
          MaxAge,        \* 120 seconds
          UpdateAfter,   \* turns of the main loop before its first update (10)
          Wrap,          \* 2^32
          MaxSettings    \* bound on how often the clock is set

Addr == {c[1] : c \in Announced}
Sn == {c[2] : c \in Announced}

ASSUME SearchAssumption ==
  /\ \A c \in Announced : c = <<c[1], c[2]>>
  /\ \A c, d \in Announced : c[1] = d[1] <=> c[2] = d[2]
  /\ NoAddr \notin Addr /\ NoSn \notin Sn
  /\ MAX_SEARCH_CAMERA_NUM \in Nat
  /\ UpdateAfter \in Nat
  /\ Wrap \in Nat \ {0} /\ MaxAge \in 1 .. Wrap - 1
  /\ MaxSettings \in Nat

VARIABLES cams,        \* the table
          totol,       \* how many entries are in use
          flush,       \* an entry has been made since the table was blanked
          searchtime,  \* turns of the main loop counted before updates start
          clock,       \* the wall clock
          due,         \* the main loop's turn for this second is to come
          settings     \* how often the clock was set

searchVars == <<cams, totol, flush, searchtime, clock, due, settings>>

Slots == 1 .. MAX_SEARCH_CAMERA_NUM

Seconds == 0 .. Wrap - 1

SearchEntry == [flag : BOOLEAN, addr : Addr \cup {NoAddr}, sn : Sn \cup {NoSn},
          time : Seconds]

Blank == [flag |-> FALSE, addr |-> NoAddr, sn |-> NoSn, time |-> 0]

SearchType ==
  /\ cams \in [Slots -> SearchEntry]
  /\ totol \in 0 .. MAX_SEARCH_CAMERA_NUM
  /\ flush \in BOOLEAN /\ due \in BOOLEAN
  /\ searchtime \in 0 .. UpdateAfter
  /\ clock \in Seconds
  /\ settings \in 0 .. MaxSettings

\* VAVAHAL_SearchList_Init
SearchList_Init ==
  /\ cams = [i \in Slots |-> Blank]
  /\ totol = 0 /\ flush = FALSE
  /\ searchtime = 0
  /\ clock = 0 /\ due = FALSE /\ settings = 0

(* A definition ending in _slip is a plausible mistake in the one after it; *)
(* no action uses it.                                                       *)

\* The first slot of S, as the loops from 0 upwards meet it.
IsFirst(i, S) == i \in S /\ \A j \in S : i <= j

InUse == {i \in Slots : cams[i].flag}

Listed == {<<cams[i].addr, cams[i].sn>> : i \in InUse}

\* The entries that hold the address or the serial number of c.
Knows(c) == {i \in Slots : cams[i].addr = c[1] \/ cams[i].sn = c[2]}
-----------------------------------------------------------------------------
mainVars == <<searchtime, clock, due, settings>>

\* A new entry in the first slot free.
NewEntry(c) ==
  \E i \in Slots :
    /\ IsFirst(i, Slots \ InUse)
    /\ cams' = [cams EXCEPT ![i] = [flag |-> TRUE, addr |-> c[1],
                                    sn |-> c[2], time |-> clock]]
    /\ totol' = totol + 1
    /\ flush' = TRUE

SearchList_Insert_slip(c) ==
  /\ totol < MAX_SEARCH_CAMERA_NUM
  /\ NewEntry(c)
  /\ UNCHANGED mainVars

\* VAVAHAL_SearchList_Insert, called for every announcement of a camera.  A
\* full table is left alone; a known camera keeps its time.
SearchList_Insert(c) ==
  /\ totol < MAX_SEARCH_CAMERA_NUM
  /\ \/ /\ Knows(c) = {}
        /\ NewEntry(c)
     \/ /\ \E i \in Slots :
             /\ IsFirst(i, Knows(c))
             /\ cams' = [cams EXCEPT ![i] = [@ EXCEPT !.flag = TRUE,
                                              !.addr = c[1], !.sn = c[2]]]
        /\ UNCHANGED <<totol, flush>>
  /\ UNCHANGED mainVars

\* VAVAHAL_SearchList_Remove: the first entry with this address is blanked.
\* A channel that lost its address meanwhile asks for NoAddr.
SearchList_Remove(addr) ==
  /\ \E i \in Slots :
       /\ IsFirst(i, {j \in Slots : cams[j].addr = addr})
       /\ cams' = [cams EXCEPT ![i] = Blank]
       /\ totol' = IF cams[i].flag THEN totol - 1 ELSE totol
  /\ UNCHANGED <<flush, mainVars>>

IsOld_slip(i) == cams[i].flag /\ clock - cams[i].time >= MaxAge

IsOld(i) == cams[i].flag /\ (clock - cams[i].time) % Wrap >= MaxAge

SearchList_Update_slip ==
  /\ cams' = [i \in Slots |-> IF IsOld(i) THEN Blank ELSE cams[i]]
  /\ totol' = IF \E i \in Slots : IsOld(i) THEN totol - 1 ELSE totol
  /\ UNCHANGED flush

\* VAVAHAL_SearchList_Update: an empty table is blanked once, in another the
\* old entries are dropped.
SearchList_Update ==
  \/ /\ totol = 0
     /\ cams' = IF flush THEN [i \in Slots |-> Blank] ELSE cams
     /\ flush' = FALSE
     /\ UNCHANGED totol
  \/ /\ totol # 0
     /\ cams' = [i \in Slots |-> IF IsOld(i) THEN Blank ELSE cams[i]]
     /\ totol' = totol - Cardinality({i \in Slots : IsOld(i)})
     /\ UNCHANGED flush

\* The main loop, once a second.  searchtime is never set back: after the
\* first UpdateAfter turns, every turn updates the table.
MainTurn ==
  /\ due /\ due' = FALSE
  /\ \/ /\ searchtime < UpdateAfter
        /\ searchtime' = searchtime + 1
        /\ UNCHANGED <<cams, totol, flush>>
     \/ /\ searchtime = UpdateAfter
        /\ SearchList_Update
        /\ UNCHANGED searchtime
  /\ UNCHANGED <<clock, settings>>

\* A second passes.  The main loop is not late: its turn comes in between.
SecondPasses ==
  /\ ~due /\ due' = TRUE
  /\ clock' = (clock + 1) % Wrap
  /\ UNCHANGED <<cams, totol, flush, searchtime, settings>>

\* The time server or the app sets the clock.
SetClock ==
  /\ settings < MaxSettings /\ settings' = settings + 1
  /\ clock' \in Seconds
  /\ UNCHANGED <<cams, totol, flush, searchtime, due>>

SearchNext ==
  \/ \E c \in Announced : SearchList_Insert(c)
  \/ \E a \in Addr \cup {NoAddr} : SearchList_Remove(a)
  \/ MainTurn \/ SecondPasses \/ SetClock

SearchSpec == SearchList_Init /\ [][SearchNext]_searchVars

\* The main loop goes round, and time passes.
SearchFairness == WF_searchVars(MainTurn) /\ WF_searchVars(SecondPasses)

SearchFairSpec == SearchSpec /\ SearchFairness
-----------------------------------------------------------------------------
(* Queries.                                                                *)

\* VAVAHAL_SearchList_Find, for the app's pairing request.
SearchList_Find(sn) == {cams[i].addr : i \in {j \in InUse : cams[j].sn = sn}}

SearchList_FindOne_slip == {<<cams[i].addr, cams[i].sn>> : i \in InUse}

\* VAVAHAL_SearchList_FindOne, for the key: the camera, if it is the only one.
SearchList_FindOne ==
  IF totol = 1 THEN {<<cams[i].addr, cams[i].sn>> : i \in InUse} ELSE {}
-----------------------------------------------------------------------------
(* The counter, which alone decides whether the table is full              *)
(* (SearchList_Insert), empty (SearchList_Update) and whether the key may  *)
(* pair without a choice (SearchList_FindOne), agrees with the flags,      *)
(* which alone decide what is listed.                                      *)
CountRight == totol = Cardinality(InUse)

(* No camera is listed twice, and what is listed was announced: neither    *)
(* the address nor the serial number of one camera meets those of another. *)
OneEntryEach ==
  \A i, j \in InUse : /\ <<cams[i].addr, cams[i].sn>> \in Announced
                      /\ cams[i].addr = cams[j].addr \/ cams[i].sn = cams[j].sn
                           => i = j

(* The key pairs a camera only if it is the one camera listed, and the app *)
(* finds every listed camera under its own serial number.                  *)
QueriesRight ==
  /\ SearchList_FindOne = IF \E c \in Listed : Listed = {c} THEN Listed ELSE {}
  /\ \A c \in Announced : SearchList_Find(c[2]) = {c[1] : d \in Listed \cap {c}}

(* The table is the abstract list, and whoever is in it leaves it some day *)
(* without saying so: times are not refreshed, so not even a camera that   *)
(* keeps announcing itself stays for more than MaxAge seconds.             *)
F == INSTANCE FoundList WITH found <- Listed,
                             Capacity <- MAX_SEARCH_CAMERA_NUM
FoundSpec == F!ListSpec
=============================================================================
