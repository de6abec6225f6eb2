------------------------------- MODULE Update -------------------------------
(***************************************************************************)
(* A firmware update (update.c): update_pth, started by an app's request,  *)
(* fetches the image, and then either replaces the gateway's own firmware, *)
(* which ends in a reboot, or hands the image to a camera over the two     *)
(* connections the camera keeps: it asks, sends the pieces, says that it   *)
(* has sent them, waits for the camera's check and then for its result.    *)
(*                                                                         *)
(* The camera's answers reach the thread through g_update.wait, counted    *)
(* down by the thread and set to -1 by the connection's thread whatever    *)
(* the answer, and through g_update.result.  Of the camera, which is not   *)
(* in this repository, we only assume what the code expects of it.         *)
(*                                                                         *)
(* One camera.  Time limits may strike whenever their thread waits.        *)
(***************************************************************************)
EXTENDS Naturals, Sequences

CONSTANTS Pieces,      \* pieces of 10000 bytes in an image
          WakeTries,   \* 3
          AskTries,    \* 3
          MaxLeft      \* bound: messages an update finds left of earlier ones

ASSUME UpdateAssumption ==
  /\ Pieces \in Nat \ {0} /\ WakeTries \in Nat \ {0} /\ AskTries \in Nat \ {0}
  /\ MaxLeft \in Nat

VARIABLES status,     \* g_update.status: IDLE or not
          up,         \* update_pth: its place, errnum or errflag, sendsize
          wait,       \* g_update.wait: counting, run out, set to -1
          result,     \* g_update.result
          up_flag,    \* g_camerainfo.up_flag
          told,       \* the last status sent to the app
          tocam, fromcam,   \* the command connection
          camera,     \* what the camera does, the pieces it has got, whether
                      \* it has put a new image in place during this update
          timely      \* history: this update began with nothing left of
                      \* an earlier one, and heard no answer out of its wait

updateVars == <<status, up, wait, result, up_flag, told, tocam, fromcam, camera,
                timely>>

Places == {"none", "fetch", "gateway", "wake", "sockets", "ask", "resp", "send",
           "sent", "ack", "flash", "result", "end"}

Results == {"none", "SUCCESS", "CRCFAIL", "FAIL"}

UpdateType ==
  /\ status \in {"IDLE", "BUSY"}
  /\ up.at \in Places /\ up.tries \in 0 .. WakeTries + AskTries
  /\ up.size \in 0 .. Pieces /\ up.kind \in {"camera", "gateway"}
  /\ wait \in {"counting", "out", "answered"}
  /\ result \in Results /\ up_flag \in BOOLEAN
  /\ told \in {"none", "going", "failed", "SUCCESS"}
  /\ tocam \in Seq({"REQ", "TRANSEND", "TRANSFAIL"})
  /\ fromcam \in Seq([is : {"RESP", "ACK", "RESULT"}, says : Results])
  /\ camera.does \in {"normal", "updating", "flashing"}
  /\ camera.got \in 0 .. Pieces /\ camera.new \in BOOLEAN
  /\ timely \in BOOLEAN

NoUpdate == [at |-> "none", tries |-> 0, size |-> 0, kind |-> "camera"]

UpdateInit ==
  /\ status = "IDLE" /\ up = NoUpdate /\ wait = "out" /\ result = "none"
  /\ up_flag = FALSE /\ told = "none" /\ tocam = <<>> /\ fromcam = <<>>
  /\ camera = [does |-> "normal", got |-> 0, new |-> FALSE] /\ timely = TRUE

GoesOn(at) == up' = [up EXCEPT !.at = at, !.tries = 0]

link == <<tocam, fromcam>>
-----------------------------------------------------------------------------
(* Start, download, the gateway's own update. *)

\* VAVAHAL_ParamParse_NewVersion
StartUpdate(kind) ==
  /\ status = "IDLE" /\ status' = "BUSY"
  /\ Len(tocam) + Len(fromcam) <= MaxLeft
  /\ up' = [NoUpdate EXCEPT !.at = "fetch", !.kind = kind]
  /\ result' = "none" /\ wait' = "out" /\ told' = "none"
  /\ camera' = [camera EXCEPT !.new = FALSE]
  /\ timely' = (link = << <<>>, <<>> >> /\ camera.does = "normal")
  /\ UNCHANGED <<up_flag, link>>

Fails == GoesOn("end") /\ told' = "failed"

\* VAVASERVER_DownLoad; the head and the sizes are checked.
Fetch(ok) ==
  /\ up.at = "fetch"
  /\ IF ok THEN GoesOn(IF up.kind = "gateway" THEN "gateway" ELSE "wake")
              /\ told' = "going"
           ELSE Fails
  /\ UNCHANGED <<status, wait, result, up_flag, link, camera, timely>>

\* Rebooted: by DownloadTimeOut_pth, or after the gateway's own update.  Its
\* connections are gone; a camera goes on with what it was doing.
Reboot ==
  /\ up.at \in {"fetch", "gateway"}
  /\ status' = "IDLE" /\ up' = NoUpdate /\ wait' = "out" /\ result' = "none"
  /\ up_flag' = FALSE /\ told' = "none"
  /\ tocam' = <<>> /\ fromcam' = <<>>
  /\ UNCHANGED <<camera, timely>>

\* A checksum is wrong, or the radio chip cannot be updated.
GatewayFails ==
  /\ up.at = "gateway" /\ Fails
  /\ UNCHANGED <<status, wait, result, up_flag, link, camera, timely>>
-----------------------------------------------------------------------------
(* A camera's update. *)

\* VAVAHAL_SleepCamera_Ex: a camera that nobody needs loses its connections.
Sleeps(slept) ==
  IF slept THEN tocam' = <<>> /\ fromcam' = <<>> ELSE UNCHANGED link

Releases(slept) == up_flag' = FALSE /\ Sleeps(slept) /\ Fails

\* Not paired, battery low.
NotReady ==
  /\ up.at = "wake" /\ up.tries = 0 /\ Fails
  /\ UNCHANGED <<status, wait, result, up_flag, link, camera, timely>>

\* Success on the last try is taken for failure.
Wake(ok) ==
  /\ up.at = "wake"
  /\ IF ok /\ up.tries < WakeTries - 1
       THEN GoesOn("sockets") /\ up_flag' = TRUE /\ UNCHANGED told
     ELSE IF up.tries < WakeTries - 1
       THEN up' = [up EXCEPT !.tries = @ + 1] /\ UNCHANGED <<up_flag, told>>
       ELSE Fails /\ UNCHANGED up_flag
  /\ UNCHANGED <<status, wait, result, link, camera, timely>>

\* Both connections within ten seconds, or not.
Sockets(ok) ==
  /\ up.at = "sockets"
  /\ IF ok THEN GoesOn("ask") /\ UNCHANGED <<up_flag, told, link>>
           ELSE \E slept \in BOOLEAN : Releases(slept)
  /\ UNCHANGED <<status, wait, result, camera, timely>>

\* VAVA_CONFIG_UPDATE_REQ
Ask(ok) ==
  /\ up.at = "ask" /\ up.tries < AskTries
  /\ IF ok THEN /\ up' = [up EXCEPT !.at = "resp", !.tries = @ + 1]
                /\ tocam' = Append(tocam, "REQ")
                /\ wait' = "counting"
                /\ UNCHANGED <<up_flag, told, fromcam>>
           ELSE (\E slept \in BOOLEAN : Releases(slept)) /\ wait' = "out"
  /\ UNCHANGED <<status, result, camera, timely>>

\* No answer to any request: the camera is let go, yet the pieces are sent.
NoResp ==
  /\ up.at = "ask" /\ up.tries >= AskTries
  /\ up_flag' = FALSE /\ told' = "failed"
  /\ \E slept \in BOOLEAN : Sleeps(slept)
  /\ GoesOn("send")
  /\ UNCHANGED <<status, wait, result, camera, timely>>

\* update_wait ends.
Resp ==
  /\ up.at = "resp" /\ wait # "counting"
  /\ IF wait = "answered" THEN GoesOn("send")
                          ELSE up' = [up EXCEPT !.at = "ask"]
  /\ UNCHANGED <<status, wait, result, up_flag, told, link, camera, timely>>

\* update_sendtocamera: a piece is read, and counted as sent, before anyone
\* looks whether the connection takes it.
SendPiece(sent) ==
  /\ up.at = "send" /\ up.size < Pieces
  /\ up' = [up EXCEPT !.size = @ + 1]
  /\ told' = "going"
  /\ camera' = [camera EXCEPT !.got =
                  IF sent /\ camera.does = "updating" /\ @ < Pieces THEN @ + 1 ELSE @]
  /\ UNCHANGED <<status, wait, result, up_flag, link, timely>>

\* Out of time, out of patience or without a connection: the rest is not sent;
\* without the file nothing is, nor is the camera told.
StopSending ==
  /\ up.at = "send"
  /\ IF up.size = Pieces
       THEN GoesOn("sent") /\ UNCHANGED <<up_flag, told, link>>
       ELSE /\ up_flag' = FALSE /\ Fails
            /\ \/ tocam' = Append(tocam, "TRANSFAIL") /\ UNCHANGED fromcam
               \/ tocam' = <<>> /\ fromcam' = <<>>
               \/ up.size = 0 /\ UNCHANGED link
  /\ UNCHANGED <<status, wait, result, camera, timely>>

\* VAVA_CONFIG_UPDATE_TRANSEND
SayEnd ==
  /\ up.at = "sent" /\ GoesOn("ack")
  /\ wait' = "counting"
  /\ tocam' = Append(tocam, "TRANSEND")
  /\ UNCHANGED <<status, result, up_flag, told, fromcam, camera, timely>>

NoAck_slip ==
  /\ up.at = "ack" /\ wait = "out"
  /\ \E slept \in BOOLEAN : Sleeps(slept) /\ Fails
  /\ UNCHANGED <<status, wait, result, up_flag, camera, timely>>

NoAck ==
  /\ up.at = "ack" /\ wait = "out"
  /\ \E slept \in BOOLEAN : Releases(slept)
  /\ UNCHANGED <<status, wait, result, camera, timely>>

\* The camera's check.
Ack ==
  /\ up.at = "ack" /\ wait = "answered"
  /\ IF result = "CRCFAIL"
       THEN \E slept \in BOOLEAN : Releases(slept)
       ELSE GoesOn("flash") /\ told' = "going" /\ UNCHANGED <<up_flag, link>>
  /\ UNCHANGED <<status, wait, result, camera, timely>>

\* The app has been told; the result counts from here on.
AwaitResult ==
  /\ up.at = "flash" /\ GoesOn("result")
  /\ result' = "none" /\ wait' = "counting"
  /\ UNCHANGED <<status, up_flag, told, link, camera, timely>>

NoResult ==
  /\ up.at = "result" /\ wait = "out"
  /\ up_flag' = FALSE /\ Fails
  /\ \/ tocam' = Append(tocam, "TRANSFAIL") /\ UNCHANGED fromcam
     \/ tocam' = <<>> /\ fromcam' = <<>>
  /\ UNCHANGED <<status, wait, result, camera, timely>>

Succeeded_slip(r) == r # "CRCFAIL"

Succeeded(r) == r = "SUCCESS"

Result ==
  /\ up.at = "result" /\ wait = "answered"
  /\ up_flag' = FALSE /\ GoesOn("end")
  /\ told' = IF Succeeded(result) THEN "SUCCESS" ELSE "failed"
  /\ UNCHANGED <<status, wait, result, link, camera, timely>>

EndUpdate ==
  /\ up.at = "end"
  /\ up' = NoUpdate /\ status' = "IDLE"
  /\ UNCHANGED <<wait, result, up_flag, told, link, camera, timely>>

Waits == up.at \in {"resp", "ack", "result"}

RunOut_slip ==
  /\ up.at \in {"resp", "ack"} /\ wait = "counting"
  /\ wait' = "out"
  /\ UNCHANGED <<status, up, result, up_flag, told, link, camera, timely>>

\* update_wait counts down to 0.
RunOut ==
  /\ Waits /\ wait = "counting"
  /\ wait' = "out"
  /\ UNCHANGED <<status, up, result, up_flag, told, link, camera, timely>>

Updater ==
  \/ \E ok \in BOOLEAN : Fetch(ok) \/ Wake(ok) \/ Sockets(ok) \/ Ask(ok)
                         \/ SendPiece(ok)
  \/ GatewayFails \/ NotReady \/ NoResp \/ Resp \/ StopSending \/ SayEnd
  \/ NoAck \/ Ack \/ AwaitResult \/ NoResult \/ Result \/ EndUpdate \/ RunOut
-----------------------------------------------------------------------------
(* The connection's thread (commonclient_pth), and the camera. *)

AnswerTo(at) == CASE at = "resp" -> "RESP" [] at = "ack" -> "ACK"
                  [] at = "result" -> "RESULT" [] OTHER -> "nothing"

\* An answer sets wait to -1, unless the count-down, which reads and writes
\* it, writes over that.
HearAnswer ==
  /\ fromcam # <<>>
  /\ LET a == Head(fromcam) IN
     /\ result' = IF a.is = "RESP" THEN result ELSE a.says
     /\ timely' = (timely /\ a.is = AnswerTo(up.at))
  /\ wait' \in {"answered"} \cup (IF Waits THEN {wait} ELSE {})
  /\ fromcam' = Tail(fromcam)
  /\ UNCHANGED <<status, up, up_flag, told, tocam, camera>>

Answer(is, says) == fromcam' = Append(fromcam, [is |-> is, says |-> says])

CameraHears ==
  /\ tocam # <<>> /\ tocam' = Tail(tocam)
  /\ CASE Head(tocam) = "REQ" ->
            /\ camera' = [camera EXCEPT !.does = "updating", !.got = 0]
            /\ Answer("RESP", "none")
       [] Head(tocam) = "TRANSEND" /\ camera.does = "updating" ->
            IF camera.got = Pieces
              THEN /\ camera' = [camera EXCEPT !.does = "flashing"]
                   /\ Answer("ACK", "SUCCESS")
              ELSE /\ camera' = [camera EXCEPT !.does = "normal"]
                   /\ Answer("ACK", "CRCFAIL")
       [] OTHER -> camera' = [camera EXCEPT !.does = "normal"] /\ UNCHANGED fromcam
  /\ UNCHANGED <<status, up, wait, result, up_flag, told, timely>>

CameraFlashes(ok) ==
  /\ camera.does = "flashing"
  /\ camera' = [camera EXCEPT !.does = "normal", !.new = @ \/ ok]
  /\ Answer("RESULT", IF ok THEN "SUCCESS" ELSE "FAIL")
  /\ UNCHANGED <<status, up, wait, result, up_flag, told, tocam, timely>>

\* The command connection breaks.
LinkLost ==
  /\ fromcam # <<>> \/ tocam # <<>>
  /\ tocam' = <<>> /\ fromcam' = <<>>
  /\ UNCHANGED <<status, up, wait, result, up_flag, told, camera, timely>>

UpdateNext ==
  \/ \E kind \in {"camera", "gateway"} : StartUpdate(kind)
  \/ Updater \/ Reboot \/ HearAnswer \/ CameraHears \/ LinkLost
  \/ \E ok \in BOOLEAN : CameraFlashes(ok)

(* update_pth is a thread of its own, and each of its waits ends. *)
UpdateFairness == WF_updateVars(Updater)

UpdateSpec == UpdateInit /\ [][UpdateNext]_updateVars /\ UpdateFairness
-----------------------------------------------------------------------------
(* Properties. *)

(* No update leaves the camera flagged, by whichever of the dozen ways it   *)
(* ends: with up_flag set the sleep manager would keep the camera awake     *)
(* until its battery is empty.                                              *)
CameraLetGo == status = "IDLE" => ~up_flag

(* An update ends, whatever the camera answers or fails to answer, and the  *)
(* gateway takes requests for another one: it has no other way out, the     *)
(* watchdog being switched off while it lasts.                              *)
UpdateEnds == status = "BUSY" ~> status = "IDLE"

(* The app is told SUCCESS only of a camera that took a new image, unless   *)
(* some answer came outside the wait it belongs to, or was left over from   *)
(* an earlier update: wait and result do not say which answer they stand    *)
(* for, and a late answer passes for the one that is waited for.            *)
SuccessIsReal ==
  [][(told' = "SUCCESS" /\ told # "SUCCESS") => camera.new \/ ~timely]_updateVars
=============================================================================
