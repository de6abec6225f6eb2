------------------------------ MODULE RecIndex ------------------------------
(***************************************************************************)
(* The recordings on the SD card and the index files that list them        *)
(* (record.c, sdcheck.c): a directory per day, in it the recordings and    *)
(* their index, and above them the index of the days.                      *)
(*                                                                         *)
(* Five kinds of thread change them.  The recorders make a day's directory *)
(* when it is missing, record into it and list what they recorded; an app  *)
(* session deletes recordings or days, its delete requests being carried   *)
(* out later by RecList_pth; SDSus_pth deletes the first day listed when   *)
(* the card fills up.  Each index is written under mutex_idx_lock, except  *)
(* where a recorder makes a new one.  The program may end at any step (the *)
(* watchdog, a reboot asked for): the index of the days is made anew when  *)
(* it starts again, a day's own index only if it is missing.  What it had  *)
(* written is kept, in order: each write is flushed or its file closed,    *)
(* and the kernel has it.  A loss of power would keep less, for the card   *)
(* is mounted without "sync" (sdcheck.c); it is not modelled.              *)
(*                                                                         *)
(* Recordings are numbered in the order they were begun.  Disk operations  *)
(* succeed unless the directory is gone; a directory is removed at once.   *)
(***************************************************************************)
EXTENDS Naturals, Sequences, FiniteSets, SequencesExt

CONSTANTS Recorders,    \* the recorder threads
          MaxDay,       \* bound on the days
          MaxFiles,     \* bound on the recordings
          MaxQueue,     \* what g_reclist holds
          MaxListed     \* bound on the entries of the index of the days

ASSUME RecIndexAssumption ==
  MaxDay \in Nat /\ MaxFiles \in Nat /\ MaxQueue \in Nat /\ MaxListed \in Nat

\* A recorder is none of the others who take mutex_idx_lock.
Others == {"free", "app", "cleaner"}

ASSUME RecorderNames == Recorders \cap Others = {}

Days == 1 .. MaxDay
Files == 1 .. MaxFiles

VARIABLES dates,    \* the index of the days
          dirs,     \* the days that have a directory
          files,    \* the recordings in it
          idx,      \* its index: the head's total and what follows it
          rec,      \* each recorder
          app,      \* the delete request being carried out
          queue,    \* g_reclist
          idxlock,  \* who holds mutex_idx_lock
          past      \* recordings begun, listed; days spoilt

recIndexVars == <<dates, dirs, files, idx, rec, app, queue, idxlock, past>>

NoIndex == [state |-> "none", totol |-> 0, list |-> <<>>]
CutIndex == [state |-> "cut", totol |-> 0, list |-> <<>>]
Index(list) == [state |-> "good", totol |-> Len(list), list |-> list]

AtMost(m, n) == IF m < n THEN m ELSE n

\* What a reader of the index finds.
Counted(d) == SubSeq(idx[d].list, 1, AtMost(idx[d].totol, Len(idx[d].list)))

IdleRec == [at |-> "idle", dir |-> 0, name |-> 0, gone |-> FALSE]
IdleApp == [at |-> "idle", dir |-> 0, list |-> <<>>, gone |-> FALSE]

RecIndexType ==
  /\ dates \in Seq(Days) /\ dirs \subseteq Days
  /\ files \in [Days -> SUBSET Files]
  /\ idx \in [Days -> [state : {"none", "cut", "good"}, totol : Nat,
                       list : Seq(Nat)]]
  /\ \A d \in Days \ dirs : files[d] = {} /\ idx[d] = NoIndex
  /\ rec \in [Recorders ->
       [at : {"idle", "absent", "made", "listed", "ready", "open", "entry"},
        dir : 0 .. MaxDay, name : 0 .. MaxFiles, gone : BOOLEAN]]
  /\ app \in [at : {"idle", "has", "cut"}, dir : 0 .. MaxDay, list : Seq(Nat),
              gone : BOOLEAN]
  /\ queue \in Seq(Days \X (0 .. MaxFiles)) /\ Len(queue) <= MaxQueue
  /\ idxlock \in Recorders \cup Others
  /\ past \in [begun : 0 .. MaxFiles, kept : SUBSET Files, spoilt : SUBSET Days]

RecIndexInit ==
  /\ dates = <<>> /\ dirs = {}
  /\ files = [d \in Days |-> {}]
  /\ idx = [d \in Days |-> NoIndex]
  /\ rec = [r \in Recorders |-> IdleRec]
  /\ app = IdleApp /\ queue = <<>> /\ idxlock = "free"
  /\ past = [begun |-> 0, kept |-> {}, spoilt |-> {}]

Spoil(d, so) == past.spoilt \cup (IF so THEN {d} ELSE {})

\* Someone has a file of the day open.
Recording(d) ==
  \E r \in Recorders : rec[r].dir = d /\ rec[r].at \in {"open", "entry"}
Deleting(d) == app.at # "idle" /\ app.dir = d
InUse(d) == Recording(d) \/ Deleting(d)
-----------------------------------------------------------------------------
(* A recorder. *)

Goes(r, at) == rec' = [rec EXCEPT ![r].at = at]
Rests(r) == rec' = [rec EXCEPT ![r] = IdleRec]

\* Rec_CheckDir: is there a directory for the day?  The clock may be set.
LookForDir(r, d) ==
  /\ rec[r].at = "idle"
  /\ rec' = [rec EXCEPT ![r] = [IdleRec EXCEPT !.dir = d,
                 !.at = IF d \in dirs THEN "ready" ELSE "absent"]]
  /\ UNCHANGED <<dates, dirs, files, idx, app, queue, idxlock, past>>

MakeDir(r) ==
  /\ rec[r].at = "absent" /\ Goes(r, "made")
  /\ dirs' = dirs \cup {rec[r].dir}
  /\ UNCHANGED <<dates, files, idx, app, queue, idxlock, past>>

\* Rec_InserDirToIdx
ListDay(r) ==
  /\ rec[r].at = "made" /\ idxlock = "free" /\ Goes(r, "listed")
  /\ Len(dates) < MaxListed
  /\ dates' = Append(dates, rec[r].dir)
  /\ UNCHANGED <<dirs, files, idx, app, queue, idxlock, past>>

\* Rec_CheckDir goes on, without the lock: whatever index is there is lost.
MakeIndex(r) ==
  LET d == rec[r].dir IN
  /\ rec[r].at = "listed" /\ Goes(r, "ready")
  /\ idx' = IF d \in dirs THEN [idx EXCEPT ![d] = Index(<<>>)] ELSE idx
  /\ past' = [past EXCEPT !.spoilt = Spoil(d, InUse(d) \/ idx[d].totol > 0)]
  /\ UNCHANGED <<dates, dirs, files, app, queue, idxlock>>

\* Rec_Create_Fulltime_Recfile and its two siblings.
OpenRecording(r) ==
  LET d == rec[r].dir   f == past.begun + 1 IN
  /\ rec[r].at = "ready" /\ d \in dirs /\ past.begun < MaxFiles
  /\ rec' = [rec EXCEPT ![r].at = "open", ![r].name = f]
  /\ files' = [files EXCEPT ![d] = @ \cup {f}]
  /\ past' = [past EXCEPT !.begun = f]
  /\ UNCHANGED <<dates, dirs, idx, app, queue, idxlock>>

OpenFails(r) ==
  /\ rec[r].at = "ready" /\ rec[r].dir \notin dirs /\ Rests(r)
  /\ UNCHANGED <<dates, dirs, files, idx, app, queue, idxlock, past>>

\* Rec_Close_Fulltime_Recfile and its siblings: nothing recorded.
DropRecording(r) ==
  /\ rec[r].at = "open" /\ Rests(r)
  /\ files' = [files EXCEPT ![rec[r].dir] = @ \ {rec[r].name}]
  /\ UNCHANGED <<dates, dirs, idx, app, queue, idxlock, past>>

\* Something recorded: Rec_InserFileToIdx.  An index that is missing or was
\* cut starts anew with this recording.
StartIndex(r) ==
  LET d == rec[r].dir IN
  /\ rec[r].at = "open" /\ idxlock = "free" /\ idx[d].state # "good"
  /\ Rests(r)
  /\ IF d \in dirs
       THEN /\ idx' = [idx EXCEPT ![d] = Index(<<rec[r].name>>)]
            /\ past' = [past EXCEPT !.kept = @ \cup {rec[r].name}]
       ELSE UNCHANGED <<idx, past>>
  /\ UNCHANGED <<dates, dirs, files, app, queue, idxlock>>

PutAt_slip(index, i, f) ==
  LET k == IF i > 1 THEN i - 1 ELSE 1 IN
  [index EXCEPT !.list = [j \in 1 .. Len(@) \cup 1 .. k |->
                            IF j = k THEN f ELSE @[j]]]

\* f at position i; 0 is what lies between the end of the file and i.
PutAt(index, i, f) ==
  [index EXCEPT !.list = [j \in 1 .. Len(@) \cup 1 .. i |->
                     IF j = i THEN f ELSE IF j <= Len(@) THEN @[j] ELSE 0]]

Headed(index) == [index EXCEPT !.totol = @ + 1]

FirstWrite_slip(index, f) == Headed(index)

\* The two writes of an insertion: behind the entries counted, then the head.
FirstWrite(index, f) == PutAt(index, index.totol + 1, f)

LastWrite(index, f) == Headed(index)

WriteEntry(r) ==
  LET d == rec[r].dir IN
  /\ rec[r].at = "open" /\ idxlock = "free" /\ idx[d].state = "good"
  /\ rec' = [rec EXCEPT ![r].at = "entry", ![r].gone = FALSE]
  /\ idx' = [idx EXCEPT ![d] = FirstWrite(@, rec[r].name)]
  /\ idxlock' = r
  /\ UNCHANGED <<dates, dirs, files, app, queue, past>>

WriteHead(r) ==
  LET d == rec[r].dir IN
  /\ rec[r].at = "entry" /\ Rests(r)
  /\ idxlock' = "free"
  /\ IF rec[r].gone
       THEN UNCHANGED <<idx, past>>
       ELSE /\ idx' = [idx EXCEPT ![d] = LastWrite(@, rec[r].name)]
            /\ past' = [past EXCEPT !.kept = @ \cup {rec[r].name}]
  /\ UNCHANGED <<dates, dirs, files, app, queue>>

Recorder(r) ==
  \/ (\E d \in Days : LookForDir(r, d)) \/ MakeDir(r) \/ ListDay(r) \/ MakeIndex(r)
  \/ OpenRecording(r) \/ OpenFails(r) \/ DropRecording(r)
  \/ StartIndex(r) \/ WriteEntry(r) \/ WriteHead(r)
-----------------------------------------------------------------------------
(* Deleting.  The directory goes with all it holds; whoever has a file of   *)
(* it open keeps writing to what nobody can find any more.                  *)

RemoveDir(d, inuse) ==
  /\ dirs' = dirs \ {d}
  /\ files' = [files EXCEPT ![d] = {}]
  /\ idx' = [idx EXCEPT ![d] = NoIndex]
  /\ rec' = [r \in Recorders |-> IF rec[r].dir = d
                                   THEN [rec[r] EXCEPT !.gone = TRUE] ELSE rec[r]]
  /\ past' = [past EXCEPT !.spoilt = Spoil(d, d \in dirs /\ inuse)]

\* Rec_DelRecDate
WithoutDay(d) == IF Contains(dates, d) THEN RemoveFirst(dates, d) ELSE dates

\* VAVAHAL_InsertRecList; a full queue costs the request.
Queued(d, f) ==
  queue' = IF Len(queue) < MaxQueue THEN Append(queue, <<d, f>>) ELSE queue

\* VAVAHAL_ParamParse_RecDelList: a whole day.
DeleteDay(d) ==
  /\ app.at = "idle" /\ idxlock = "free" /\ Contains(dates, d)
  /\ dates' = WithoutDay(d)
  /\ Queued(d, 0)
  /\ UNCHANGED <<dirs, files, idx, rec, app, idxlock, past>>

\* Some recordings of a day: its index is taken into memory, ...
ImportIndex(d) ==
  /\ app.at = "idle" /\ idxlock = "free" /\ idx[d].state = "good"
  /\ app' = [at |-> "has", dir |-> d, list |-> Counted(d), gone |-> FALSE]
  /\ idxlock' = "app"
  /\ UNCHANGED <<dates, dirs, files, idx, rec, queue, past>>

Without_slip(list, f) == Front(list)

\* Rec_DelRecFile
Without(list, f) == RemoveFirst(list, f)

\* ... loses those recordings, ...
DropEntry(f) ==
  /\ app.at = "has" /\ Contains(app.list, f)
  /\ app' = [app EXCEPT !.list = Without(@, f)]
  /\ Queued(app.dir, f)
  /\ past' = [past EXCEPT !.kept = @ \ {f}]
  /\ UNCHANGED <<dates, dirs, files, idx, rec, idxlock>>

\* ... and replaces the index, first cut to nothing, or the whole day.
ReleaseEmpty ==
  /\ app.at = "has" /\ app.list = <<>>
  /\ app' = IdleApp /\ idxlock' = "free"
  /\ RemoveDir(app.dir, Recording(app.dir))
  /\ dates' = WithoutDay(app.dir)
  /\ UNCHANGED <<queue>>

CutOff ==
  /\ app.at = "has" /\ app.list # <<>>
  /\ app' = [app EXCEPT !.at = "cut", !.gone = app.dir \notin dirs]
  /\ idx' = IF app.dir \in dirs THEN [idx EXCEPT ![app.dir] = CutIndex] ELSE idx
  /\ UNCHANGED <<dates, dirs, files, rec, queue, idxlock, past>>

WriteList ==
  /\ app.at = "cut"
  /\ app' = IdleApp /\ idxlock' = "free"
  /\ idx' = IF app.gone \/ app.dir \notin dirs THEN idx
            ELSE [idx EXCEPT ![app.dir] = Index(app.list)]
  /\ UNCHANGED <<dates, dirs, files, rec, queue, past>>

\* RecList_pth, which does not take the lock.
CarryOut ==
  /\ queue # <<>>
  /\ queue' = Tail(queue)
  /\ LET d == Head(queue)[1]   f == Head(queue)[2] IN
     IF f = 0
       THEN RemoveDir(d, InUse(d))
       ELSE /\ files' = [files EXCEPT ![d] = @ \ {f}]
            /\ UNCHANGED <<dirs, idx, rec, past>>
  /\ UNCHANGED <<dates, app, idxlock>>

\* SDSus_pth finds little room left: Rec_DelFirstRecDir.
CleanBegins ==
  /\ idxlock = "free" /\ dates # <<>>
  /\ idxlock' = "cleaner"
  /\ UNCHANGED <<dates, dirs, files, idx, rec, app, queue, past>>

CleanEnds ==
  /\ idxlock = "cleaner"
  /\ idxlock' = "free"
  /\ RemoveDir(Head(dates), InUse(Head(dates)))
  /\ dates' = Tail(dates)
  /\ UNCHANGED <<app, queue>>

Deleter ==
  \/ \E d \in Days : DeleteDay(d) \/ ImportIndex(d)
  \/ \E f \in Files : DropEntry(f)
  \/ ReleaseEmpty \/ CutOff \/ WriteList \/ CarryOut \/ CleanBegins \/ CleanEnds
-----------------------------------------------------------------------------
\* The numbers of a set in their order: the i-th is the one with i - 1 below it.
InOrder(S) ==
  [i \in 1 .. Cardinality(S) |->
     CHOOSE n \in S : Cardinality({m \in S : m < n}) = i - 1]

Found_slip(d) == IF files[d] # {} THEN Index(InOrder(files[d])) ELSE idx[d]

\* SD_CreateListIDX: the recordings found, in the order of their names.
Found(d) ==
  IF idx[d].state = "none" /\ files[d] # {} THEN Index(InOrder(files[d]))
  ELSE idx[d]

\* The program ends, its writes being the kernel's by then; its next start lists
\* the days anew (SD_CreateIDX).
Restart ==
  /\ idx' = [d \in Days |-> Found(d)]
  /\ dates' = InOrder({d \in dirs : Found(d).state # "none"})
  /\ rec' = [r \in Recorders |-> IdleRec]
  /\ app' = IdleApp /\ queue' = <<>> /\ idxlock' = "free"
  /\ past' = [past EXCEPT !.spoilt = Spoil(app.dir, app.at # "idle")]
  /\ UNCHANGED <<dirs, files>>

RecIndexNext ==
  (\E r \in Recorders : Recorder(r)) \/ Deleter \/ Restart

RecIndexSpec == RecIndexInit /\ [][RecIndexNext]_recIndexVars
-----------------------------------------------------------------------------
(* Properties.  A day is spoilt, and nothing is promised of it, once its    *)
(* index was made anew over an older one, its directory was deleted while a *)
(* file of it was open, or the program ended in the middle of a delete      *)
(* request.  All of them hold through restarts of the program, none through *)
(* a loss of power.                                                         *)

Sound(d) == d \notin past.spoilt

(* The head of an index counts only entries that have been written, even if *)
(* the program is restarted between the two writes, or a delete request     *)
(* cuts the file between those of a recorder.  Going wrong: a list of       *)
(* recordings that ends in what the card held before.                       *)
IndexReadable == \A d \in Days : Sound(d) => idx[d].totol <= Len(idx[d].list)

(* What an index lists is on the card, once no delete request is half done, *)
(* although the files go after their entries and without the lock.          *)
EntriesHaveFiles ==
  \A d \in Days : (Sound(d) /\ idxlock # "app")
    => \A i \in 1 .. idx[d].totol : idx[d].list[i] \in files[d]

(* A recording that was listed stays listed as long as it is on the card    *)
(* and nobody asks to delete it: through other recordings of the same day,  *)
(* deletions of others, and a restart of the program.                       *)
NothingForgotten ==
  \A d \in Days : (Sound(d) /\ ~(idxlock = "app" /\ app.dir = d))
    => \A f \in past.kept \cap files[d] : Contains(Counted(d), f)

(* The catalogue of module Catalogue, as the index files and the request    *)
(* being carried out hold it.                                               *)
UnderWay(d) ==
  IF Sound(d)
    THEN {rec[r].name : r \in {q \in Recorders : /\ rec[q].dir = d
                                                 /\ rec[q].at \in {"open", "entry"}}}
    ELSE {}

InList(d) ==
  IF ~Sound(d) THEN {} ELSE IF Deleting(d) THEN ToSet(app.list) ELSE ToSet(Counted(d))

Cat == INSTANCE Catalogue WITH begun <- past.begun, lost <- past.spoilt,
                               making <- [d \in Days |-> UnderWay(d)],
                               listed <- [d \in Days |-> InList(d)]

(* The index files, written in two steps each by threads that lock some of  *)
(* them some of the time, implement the catalogue: no recording is listed   *)
(* that was not under way in that day just before, one goes from a list     *)
(* only when its deletion or the day's is asked for, and none that went     *)
(* comes back, not even when a restart makes a missing index out of the     *)
(* files it finds.                                                          *)
CatalogueSpec == Cat!Spec
=============================================================================
