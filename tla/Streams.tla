------------------------------ MODULE Streams ------------------------------
(***************************************************************************)
(* The live stream of one channel, from the camera to the app sessions     *)
(* (avclient_pth and avsend_pth of avserver.c).                            *)
(*                                                                         *)
(* avclient_pth takes the frames off the camera's connection, drops the    *)
(* video frames that follow a lost one, and stores the rest in a ring of   *)
(* RingLen units over a block of MemSize bytes; it never looks at the      *)
(* readers.  avsend_pth takes unit after unit and writes each to every     *)
(* session that has opened video; which frames a session is spared depends *)
(* on how much of its earlier data is still unsent.                        *)
(*                                                                         *)
(* A frame is its number in the camera's whole production (id, unknown to  *)
(* the code), its number in its group (num, the code's framenum: 1 for the *)
(* key frame, then up to GopLen) and its kind.  A byte of the block holds  *)
(* the index of the frame last stored over it.                             *)
(***************************************************************************)
EXTENDS Integers, FiniteSets

CONSTANTS Slots,         \* entries of g_session
          RingLen,       \* MEM_SUB_QUEUE_NUM (80), MEM_MAIN_QUEUE_NUM (200)
          MemSize,       \* MEM_SUB_VIDEO_SIZE, MEM_MAIN_VIDEO_SIZE
          GopLen,        \* frames from one key frame to the next (45)
          KeySize, SmallSize,   \* bytes of a key frame, of any other frame
          MaxFrames      \* bound on what the camera produces

ASSUME StreamAssumption ==
  /\ RingLen \in Nat /\ RingLen > 1
  /\ GopLen \in Nat /\ GopLen > 1
  /\ SmallSize \in Nat \ {0} /\ KeySize \in Nat /\ SmallSize <= KeySize
  /\ MemSize \in Nat /\ KeySize <= MemSize
  /\ MaxFrames \in Nat

VARIABLES cam,      \* the camera: frames made, number of the last one
          w,        \* avclient_pth: s_checkflag, s_lostflag, s_savenum
          list,     \* svlists
          write,    \* sv_write
          free,     \* psvMemFree, as an offset
          mem,      \* the block
          nstats,   \* sv_nstats
          rd,       \* avsend_pth: av_read, the unit in hand, sessions to do
          av,       \* what g_session says of each slot
          hist      \* what is known of the past, see StreamInit

streamVars == <<cam, w, list, write, free, mem, nstats, rd, av, hist>>

Modes == {"NORMAL", "LOSTP", "LOSTALL"}

SizeOf(kind) == IF kind = "I" THEN KeySize ELSE SmallSize

Unit == [kind : {"I", "P", "A"}, id : Nat, seq : Nat, offset : Nat, size : Nat,
         upto : Nat, after : Nat]

NoUnit == [kind |-> "A", id |-> 0, seq |-> 0, offset |-> 0, size |-> 0,
           upto |-> 0, after |-> 0]

StreamType ==
  /\ cam \in [id : 0 .. MaxFrames, num : 0 .. GopLen]
  /\ w \in [check : BOOLEAN, lost : BOOLEAN, savenum : 0 .. GopLen]
  /\ list \in [0 .. RingLen - 1 -> Unit]
  /\ write \in 0 .. RingLen - 1
  /\ free \in 0 .. MemSize
  /\ mem \in [0 .. MemSize - 1 -> Nat]
  /\ nstats \in BOOLEAN
  /\ rd \in [pos : 0 .. RingLen - 1, unit : Unit, todo : SUBSET Slots,
             busy : BOOLEAN]
  /\ av \in [Slots -> [watching : BOOLEAN, video : BOOLEAN, flag : BOOLEAN,
                       mode : Modes]]
  /\ hist \in [last : Nat, keylost : BOOLEAN, seq : Nat, bytes : Nat,
               unread : Nat, overrun : BOOLEAN, got : [Slots -> Nat]]

NoSession == [watching |-> FALSE, video |-> FALSE, flag |-> FALSE,
              mode |-> "NORMAL"]

(* hist, which the code does not have: the last video frame stored; whether *)
(* a key frame was lost since; frames and bytes stored; units the reader    *)
(* has not finished; whether the writer has overtaken it; and the last      *)
(* video frame each session got since it opened video.                      *)
StreamInit ==
  /\ cam = [id |-> 0, num |-> 0]
  /\ w = [check |-> FALSE, lost |-> FALSE, savenum |-> 0]
  /\ list = [i \in 0 .. RingLen - 1 |-> NoUnit]
  /\ write = 0 /\ free = 0
  /\ mem = [b \in 0 .. MemSize - 1 |-> 0]
  /\ nstats = FALSE
  /\ rd = [pos |-> 0, unit |-> NoUnit, todo |-> {}, busy |-> FALSE]
  /\ av = [s \in Slots |-> NoSession]
  /\ hist = [last |-> 0, keylost |-> FALSE, seq |-> 0, bytes |-> 0,
             unread |-> 0, overrun |-> FALSE, got |-> [s \in Slots |-> 0]]
-----------------------------------------------------------------------------
(* The camera and its connection. *)

\* The next frame: a key frame ends the group early when one is asked for.
CameraFrame(kind) ==
  /\ cam.id < MaxFrames
  /\ kind = "P" => cam.num \in 1 .. GopLen - 1
  /\ cam' = [id |-> cam.id + 1, num |-> IF kind = "I" THEN 1 ELSE cam.num + 1]

\* A frame that is not stored: dropped by the camera, of an impossible size,
\* or without the tail its version promises.
LoseFrame(kind) ==
  /\ CameraFrame(kind)
  /\ hist' = [hist EXCEPT !.keylost = @ \/ kind = "I"]
  /\ UNCHANGED <<w, list, write, free, mem, nstats, rd, av>>

\* A new connection, hence a new avclient_pth; the camera may have restarted.
Reconnect ==
  /\ w' = [check |-> FALSE, lost |-> FALSE, savenum |-> 0]
  /\ cam' \in {cam, [cam EXCEPT !.num = 0]}
  /\ UNCHANGED <<list, write, free, mem, nstats, rd, av, hist>>

\* The unit of the ring behind unit i.
NextUnit(i) == IF i + 1 >= RingLen THEN 0 ELSE i + 1

\* The number a frame should have that follows number n.
Following(n) == IF n + 1 > GopLen THEN 1 ELSE n + 1

Fits_slip(size) == size <= MemSize + 1 - free

\* A frame goes behind the last one if there is room, else to the beginning.
Fits(size) == size <= MemSize - free

Store(kind, id) ==
  LET size == SizeOf(kind)
      offset == IF Fits(size) THEN free ELSE 0
      seq == hist.seq + 1
  IN
  /\ list' = [list EXCEPT ![write] =
       [kind |-> kind, id |-> id, seq |-> seq, offset |-> offset, size |-> size,
        upto |-> hist.bytes + size, after |-> hist.last]]
  /\ mem' = [b \in DOMAIN mem |->
               IF b \in offset .. offset + size - 1 THEN seq ELSE mem[b]]
  /\ free' = offset + size
  /\ write' = NextUnit(write)
  /\ hist' = [hist EXCEPT !.seq = seq, !.bytes = @ + size,
                !.last = IF kind = "A" THEN @ ELSE id,
                !.keylost = @ /\ kind = "A",
                !.unread = IF hist.overrun THEN 0 ELSE @ + 1,
                !.overrun = @ \/ hist.unread + 1 >= RingLen]

Judge_slip(kind, num) ==
  IF ~w.check
    THEN IF kind = "I" THEN [check |-> TRUE, lost |-> FALSE, savenum |-> 1] ELSE w
    ELSE LET due == Following(w.savenum) IN
         IF num = due THEN [w EXCEPT !.savenum = due]
         ELSE IF kind = "I" THEN [w EXCEPT !.savenum = 1]
         ELSE [check |-> FALSE, lost |-> FALSE, savenum |-> due]

\* The loss check of a video frame.
Judge(kind, num) ==
  IF ~w.check
    THEN IF kind = "I" THEN [check |-> TRUE, lost |-> FALSE, savenum |-> 1] ELSE w
    ELSE LET due == Following(w.savenum) IN
         IF num = due THEN [w EXCEPT !.savenum = due]
         ELSE IF kind = "I" THEN [w EXCEPT !.savenum = 1]
         ELSE [check |-> FALSE, lost |-> TRUE, savenum |-> due]

\* A video frame arrives: it is stored unless one before it was lost.
VideoFrame(kind) ==
  /\ CameraFrame(kind)
  /\ w' = Judge(kind, cam'.num)
  /\ IF w'.lost THEN UNCHANGED <<list, write, free, mem, hist>>
                ELSE Store(kind, cam'.id)
  /\ UNCHANGED <<nstats, rd, av>>

\* An audio frame arrives: stored unjudged.
AudioFrame ==
  /\ hist.seq < MaxFrames
  /\ Store("A", 0)
  /\ UNCHANGED <<cam, w, nstats, rd, av>>

\* VAVAHAL_StartAVMemCahce and VAVAHAL_StopAVMemCahce, as far as the live
\* reader heeds them.
SetStats(on) ==
  /\ nstats' = on
  /\ UNCHANGED <<cam, w, list, write, free, mem, rd, av, hist>>
-----------------------------------------------------------------------------
(* avsend_pth. *)

Take_slip ==
  /\ ~rd.busy /\ nstats
  /\ rd' = [rd EXCEPT !.unit = list[rd.pos], !.todo = Slots, !.busy = TRUE]
  /\ UNCHANGED <<cam, w, list, write, free, mem, nstats, av, hist>>

Take ==
  /\ ~rd.busy /\ nstats /\ rd.pos # write
  /\ rd' = [rd EXCEPT !.unit = list[rd.pos], !.todo = Slots, !.busy = TRUE]
  /\ UNCHANGED <<cam, w, list, write, free, mem, nstats, av, hist>>

NewMode_slip(mode, kind, backlog) ==
  CASE backlog = "small" -> "NORMAL"
    [] backlog = "some" -> mode
    [] backlog = "much" -> "LOSTP"
    [] backlog = "full" -> "LOSTALL"

\* The mode follows the session's unsent data: back to NORMAL only at a key
\* frame, and unchanged between the two lower limits.
NewMode(mode, kind, backlog) ==
  CASE backlog = "small" -> IF kind = "I" THEN "NORMAL" ELSE mode
    [] backlog = "some" -> mode
    [] backlog = "much" -> "LOSTP"
    [] backlog = "full" -> "LOSTALL"

Spared(mode, kind) == mode = "LOSTALL" \/ (mode = "LOSTP" /\ kind = "P")

\* A video unit for a session that has opened video.  From its first key
\* frame on (flag, videoflag) it gets what its mode does not spare it.  The
\* query of the unsent data is taken to succeed.
SendVideo(s, backlog) ==
  LET u == rd.unit
      open == av[s].flag \/ u.kind = "I"
      mode == NewMode(av[s].mode, u.kind, backlog)
  IN
  /\ u.kind # "A" /\ av[s].watching /\ av[s].video
  /\ IF open
       THEN /\ av' = [av EXCEPT ![s].flag = TRUE, ![s].mode = mode]
            /\ hist' = IF Spared(mode, u.kind) THEN hist
                       ELSE [hist EXCEPT !.got[s] = u.id]
       ELSE UNCHANGED <<av, hist>>

\* Audio, and frames the session has not asked for, change nothing we keep.
SendNothing(s) ==
  /\ rd.unit.kind = "A" \/ ~av[s].watching \/ ~av[s].video
  /\ UNCHANGED <<av, hist>>

\* One session's turn with the unit in hand.
Send(s) ==
  /\ rd.busy /\ s \in rd.todo
  /\ \/ \E backlog \in {"small", "some", "much", "full"} : SendVideo(s, backlog)
     \/ SendNothing(s)
  /\ rd' = [rd EXCEPT !.todo = @ \ {s}]
  /\ UNCHANGED <<cam, w, list, write, free, mem, nstats>>

Advance ==
  /\ rd.busy /\ rd.todo = {}
  /\ rd' = [rd EXCEPT !.busy = FALSE, !.unit = NoUnit,
                      !.pos = NextUnit(@)]
  /\ hist' = [hist EXCEPT !.unread = IF hist.overrun THEN 0 ELSE @ - 1]
  /\ UNCHANGED <<cam, w, list, write, free, mem, nstats, av>>
-----------------------------------------------------------------------------
(* What the session's own thread does to its slot (p2pserver.c). *)

SetSlot(s, value) ==
  /\ av' = [av EXCEPT ![s] = value]
  /\ UNCHANGED <<cam, w, list, write, free, mem, nstats, rd>>

\* A new session takes the slot.
EnterSlot(s) == SetSlot(s, NoSession) /\ UNCHANGED hist

\* WAKE_UP succeeded.
Watch(s) == SetSlot(s, [av[s] EXCEPT !.watching = TRUE]) /\ UNCHANGED hist

\* SLEEP; the mode stays.
Unwatch(s) ==
  /\ av[s].watching
  /\ SetSlot(s, [NoSession EXCEPT !.mode = av[s].mode])
  /\ UNCHANGED hist

\* OPENVIDEO
OpenVideo(s) ==
  /\ av[s].watching
  /\ SetSlot(s, [av[s] EXCEPT !.video = TRUE, !.flag = FALSE])
  /\ hist' = [hist EXCEPT !.got[s] = 0]

\* CLOSEVIDEO
CloseVideo(s) ==
  /\ av[s].watching
  /\ SetSlot(s, [av[s] EXCEPT !.video = FALSE, !.flag = FALSE])
  /\ UNCHANGED hist
-----------------------------------------------------------------------------
Camera ==
  \/ \E kind \in {"I", "P"} : LoseFrame(kind) \/ VideoFrame(kind)
  \/ AudioFrame \/ Reconnect
  \/ \E on \in BOOLEAN : SetStats(on)

Reader == Take \/ Advance \/ \E s \in Slots : Send(s)

Viewer(s) ==
  EnterSlot(s) \/ Watch(s) \/ Unwatch(s) \/ OpenVideo(s) \/ CloseVideo(s)

StreamNext == Camera \/ Reader \/ \E s \in Slots : Viewer(s)

StreamSpec == StreamInit /\ [][StreamNext]_streamVars
-----------------------------------------------------------------------------
(* Properties. *)

(* The camera numbers the frames of a group and the writer compares the     *)
(* numbers: a P frame is stored only right behind the frame it was coded    *)
(* against.  It may miss a gap that begins or ends in another group, so one *)
(* in which a key frame was lost, and it does not look before the first key *)
(* frame of a connection.  Going wrong: a picture decoded against a frame   *)
(* that is not there.                                                       *)
StoredChain ==
  [][LET u == list'[write] IN
     (hist'.seq # hist.seq /\ u.kind = "P")
        => u.id = hist.last + 1 \/ hist.keylost \/ ~w.check]_streamVars

(* A unit's bytes are still its own as long as what was stored from it on,  *)
(* and the gap a frame that does not fit may leave at the end of the block, *)
(* fit into the block: how far a reader may fall behind.  The offsets are   *)
(* computed frame by frame from the free space and never from the readers.  *)
RecentIntact ==
  \A i \in 0 .. RingLen - 1 :
    LET u == list[i] IN
    /\ u.offset + u.size <= MemSize
    /\ (u.seq > 0 /\ hist.bytes - u.upto + u.size + KeySize - 1 <= MemSize)
         => \A b \in u.offset .. u.offset + u.size - 1 : mem[b] = u.seq

(* A P frame that a session gets is coded against the frame it got before:  *)
(* through key-frame start, spared frames, closing and reopening, sleeping  *)
(* and reuse of the slot.  Two things break it in this code: the writer     *)
(* lapping the reader, and a unit that was stored without its predecessor.  *)
ViewerDecodes ==
  [][\A s \in Slots :
       (hist'.got[s] # hist.got[s] /\ hist'.got[s] # 0 /\ rd.unit.kind = "P")
          => \/ hist.got[s] = rd.unit.id - 1
             \/ rd.unit.after # rd.unit.id - 1
             \/ hist.overrun]_streamVars

(* A session gets the video frames of its stream in the order the camera    *)
(* made them, none twice, from one opening of video to the next: also when  *)
(* the writer laps the reader, once or many times, with a unit in hand or   *)
(* not, for the two indices are all the reader goes by.  Going wrong: old   *)
(* pictures shown again.                                                    *)
FramesInOrder ==
  [][\A s \in Slots :
       (hist'.got[s] # hist.got[s] /\ hist'.got[s] # 0)
          => hist.got[s] < hist'.got[s]]_streamVars
=============================================================================
