# Verification of the VAVA camera gateway

The repository's program is the gateway of a set of battery-powered security
cameras (`src/code/vava-2.0.1 T7`, C, about 39,000 lines; called `vava/` below).
A gateway holds up to four cameras (channels). It wakes and sleeps them over a
433 MHz radio chip, talks to an awake camera over Wi-Fi, records what it sends to
an SD card and to a cloud service, and serves phone apps over a peer-to-peer
library. The other directories of the repository are small tutorial programs and
are not covered.

This directory holds TLA+ models of the gateway's own control logic, the TLC
configurations that check them, and proofs for the TLA+ proof system.

## 1. The system

One process, about forty threads, plain global arrays indexed by channel, and a
few mutexes. Threads communicate by flags in those arrays, by four work queues,
and by sockets. There is no persistent state besides configuration files, the
recordings and their index files. A watchdog restarts the gateway when a thread
stops feeding it.

| component | source (`vava/src`) | state | operations |
|---|---|---|---|
| work queues | `quelist.c`, `vavahal.c:3491` | four rings of 50 entries, read and write index | insert with three attempts, poll, hand over |
| camera power | `vavahal.c:5046`, `rfserver.c:1460` | reason flags (`wakeup`, `alarm`, `cloud`, `config`, `up`), `sleep_flag`, awaited and last answers, a lock per channel | wake, sleep |
| app sessions | `p2pserver.c` | `g_session` (six slots), each thread's `videochannel` | login, wake, sleep, video, settings, playback, teardown |
| command connection | `avserver.c:141` | `g_commonfd`, one thread per accepted connection | heartbeat, first connect, motion result, answers to settings |
| stream rings | `avserver.c:1316`, `2351` | per channel a ring of units over a block of bytes, the writer's loss check, each session's mode | store or drop a frame, send a unit to every viewer, read for a recorder |
| recorders | `record.c` | `ctrl`, `status`, an open file | full-time, manual, alarm and cloud loops |
| recording index | `record.c:1967`, `2126`, `2617`, `sdcheck.c:145` | a directory per day with its index, the index of the days, a lock, the queue of deletions | enter, delete, reclaim the oldest day, rebuild at start |
| sleep manager | `main.c:1627` | a countdown and a counter per channel | let the camera sleep after a setting, expire `config_flag` |
| heartbeat checker | `main.c:1293`, `vavahal.c:5593`, `rfserver.c:1139`, `avserver.c:370` | failures, times and last answer per channel, one time for all channels | ask, believe an answer, declare a camera offline and release what it held, tell the app |
| first check | `main.c:1170` | retry counter | sleep and wake a camera that has not reported |
| update | `update.c` | status, waiting counter, last result, progress | fetch, ask the camera, send the image, wait for its result; gateway, radio update |
| radio server | `rfserver.c` | awaited answers, search and pairing state | framing, answers, chip heartbeat |
| search list | `vavahal.c:4466`, `rfserver.c:1216` | a table of ten cameras and its count | insert, remove, age, find |
| pairing | `vavahal.c:4845`, `camerapair.c`, `buttonmanage.c:162`, `avserver.c:445` | pairing table, pairing mode, key flag, result | pair by app or key, accept, refuse, enter, remove |
| SD card | `sdcheck.c`, `record.c` | card status, capacity | mount, format, reclaim space |
| network link | `networkcheck.c` | link status, type, debounce, two flags | cable moves, DHCP, server check |
| network disk | `network.c` | mount state, days marked | mount, unmount, copy a day's recordings |
| radio chip update | `cc1310upgrade.c` | position in an image | boot-loader commands |
| arming | `armcheck.c`, `vavahal.c:4795`, `9958`, `10018` | schedule and status, what the camera was told, `pirset_status` | set a schedule or a sensitivity, decide, tell the camera |
| button, LEDs | `buttonmanage.c` | press counter | short and long press |
| cloud | `vavaserver.c`, `cloud_fsk.c` | tokens, device state | HTTP and MQTT messages |

How they interact, in the part modelled so far: an app session wakes a camera by
calling into camera power, which exchanges radio messages with it; the camera
connects over Wi-Fi, which starts a client thread; the session's other commands
go through the command queue, whose thread wakes the camera again if necessary
and sends the setting over the client thread's socket; the camera's answer makes
the sleep manager start a countdown, at whose end it calls sleep. A PIR sensor
wakes the camera by itself; its first message starts a recorder. Every thread
that needs the camera sets a reason flag and calls sleep when it clears it; only
the last one's call has an effect. A camera's heartbeat and the gateway's own
heartbeat check repair what was missed. A new camera is heard by the radio thread, which
lists it; an app or the key picks it from the list; a pairing thread invites it by radio; its
client thread judges its request and enters it in the table. It then counts as not ready
(`first_flag`) until the first check has slept and woken it and it has reported; only then does
the arming thread tell its sensor what the schedule says. What an awake camera streams goes
through the rings to the viewers and to the recorders, whose files the index lists, apps and the
reclaimer delete, and the synchroniser copies to the network disk while the link is up.

### What is hard here

* Reason flags are read under the power lock and written without it.
* Radio answers carry no identifier: a late one answers the next request.
* Sockets are replaced under the thread that reads them.
* The queues test for full and empty outside their mutexes.
* The heartbeat check clears other threads' flags while they are in use.
* One word stands for several things: `g_update.wait` for every answer of an update,
  `pirset_status` for two callers, `t_off1` for four channels, `sessionid` for every new session.
* Recordings and their index are written one after the other, and the gateway may be restarted
  between two writes (watchdog, reboot).
* "Offline for three minutes" is measured by a time and a flag that not every return resets.
* Pairing spreads over five kinds of threads that share one table and three global
  flags, written without a lock; a camera may answer an attempt that is over.
* Nothing is told when a wake, a setting or an update fails half-way: flags must
  still end, or a camera's battery is empty in a day.

`PROJECT.json` lists these at their lines, under "hazards", with the properties
that cover them. What makes each component correct:

* queues: an entry reported as queued is handed over once, in order; one reported
  as refused is not.
* power: exchanges exclude each other; no reason outlives its owner; a camera
  that nobody needs falls asleep; one that somebody watches does not; nobody
  waits for ever.
* sessions: a slot belongs to one connection; a closed one leaves no trace.
* stream rings: a viewer is sent no frame that it cannot decode, however it falls behind.
* recorders and card: the index lists what is on the card and forgets nothing; a recording
  that cannot go on ends and frees its camera.
* presence: a silent camera goes offline, one that answers comes back, the app is told in the end
  and not before its time.
* network link and disk: the flags follow the cable; what was copied is not erased, and what
  was not tried is not marked as done.
* arming: the sensor follows the schedule, and what is remembered of it is so.
* search list: the count is the number of entries; nobody is listed twice or for ever.
* pairing: a camera has one channel; every attempt ends; pairing mode is on only while
  somebody pairs.
* update: every way out ends in a final status, clears `up_flag` and frees the
  update for the next one.

## 2. The modules

| module | what it is |
|---|---|
| `FifoQueue` | what a work queue promises: a bounded first-in first-out queue |
| `QueList` | one of the four rings of `quelist.c` and the call that fills it |
| `MCQueList` | its two instances with a violation, and the constants of the others |
| `QueListProofs` | its theorems |
| `CameraPower` | wake, sleep, the radio and the camera |
| `CameraUsers` | every thread modelled that calls them; extends `CameraPower` |
| `MCCameraUsers` | its instances for TLC |
| `CameraUsersProofs` | its theorems |
| `FoundList` | what the search list promises: a bounded set of cameras, nobody for ever |
| `SearchList` | the table it is kept in |
| `SearchListProofs` | its theorems |
| `Pairing` | pairing a camera with a channel; extends `FoundList`, the list as it sees it |
| `MCPairing`, `PairingProofs` | its instances and its theorems |
| `Streams`, `StreamsProofs` | a channel's frames from the camera to the app sessions |
| `Presence` | whether a camera counts as online; small enough to be checked as it stands |
| `Catalogue` | what the lists of recordings promise: sets of recordings that change one at a time |
| `RecIndex` | the recordings on the card and the files that list them |
| `Update` | a firmware update |
| `NetLink` | the cable, the address and the server check |
| `NasSync` | the copies on the network disk |
| `Sessions` | the table of app sessions, the listener and the talk channel |
| `Arming` | the first check, the schedule and the motion sensor |
| `CameraStateProofs` | theorems of `Presence`, `Update` and `Arming` |
| `NetworkProofs` | theorems of `Sessions` and `NetLink` |
| `StorageProofs` | theorems of `RecIndex` and `NasSync` |
| `MCParts` | instances for TLC of `Streams`, `Presence`, `RecIndex`, `Update`, `NetLink`, `NasSync`, `Sessions`, and of `QueList` with two producers |
| `MCSmallParts` | instances of `QueList` with one producer, of `Arming` and of `SearchList` |

### QueList

`data`, `front` and `rear` are the fields of `g_cmdlist`; `pc`, `item`, `timeout`
and `ret` are a producer's place, argument, local counter and result; `cmdfail` is
the static failure counter and `fed` the watchdog flag. `offered`, `queued` and
`taken` are history variables. `Attempt` is the unlocked test of
`CmdList_InsertData`, `Insert` its critical section; `Poll` and `OutData` are the
same two halves of the consumer. The four copies in the code differ in the entry
type and in the failure counter's message only; the map names the command queue's.
The model's `ReturnCode` is the code's `timeout <= 0`, success or not.

With several producers entries may be lost (finding 1), but only in one way, which
`OnlyRoundsLost` states: what is handed over was written, comes in the order of
writing and never twice, and whole rounds of the ring are missing between.

### CameraPower and CameraUsers

One channel; the flags, the lock and the answers are the fields of
`g_camerainfo[channel]` and `g_wakeup_result[channel]`. Each thread has a place in
`pc`; a call of wake or sleep moves the caller to `want_wake` or `want_sleep`, the
lock lets it go on to `waking` or `sleeping`, and the end of the exchange brings it
to `woke`, `unwoken`, or the place in `back`. The three repetitions of a radio
request are one exchange in which the camera may hear it any number of times;
`acks` are the answers on their way, received once, twice or never, in any later
exchange.

| actions | code |
|---|---|
| `WakeNotNeeded`, `WakeBegins`, `WakeEnds` | `VAVAHAL_WakeupCamera_Ex`, `VAVAHAL_WakeupCamera` |
| `SleepNotNeeded`, `SleepBegins`, `SleepEnds` | `VAVAHAL_SleepCamera_Ex`, `VAVAHAL_SleepCamera` |
| `WakeAck`, `SleepAck` | `rfserver_pth`, cases `CC1310_WAKEUP` and `CC1310_SLEEP` |
| `HearWake`, `HearSleep`, `AckLost`, `SelfWake`, `Drop` | the camera and the radio (not in the repository) |
| `Open`, `Wake`, `WakeReturned`, `TakeSlot`, `Sleep`, `Teardown`, `Scan`, `ClearWakeup` | `Session_pth` |
| `Connect`, `ClientEnds`, `Heartbeat`, `FirstConnect`, `MdResult`, `SetAck` | `commonclient_pth` |
| `RecorderIdle`, `RecorderStarts`, `RecorderCloses`, `RecorderReleases` | `Rec_Alarm_pth`, `Rec_Cloud_pth` |
| `StartSet`, `SetWoken`, `SendSet`, `SetTimeout` | `CmdQueList_pth`, `VAVAHAL_WakeupCamera_WithSet` |
| `StartCountdown`, `CountdownEnds`, `ConfigExpires` | `sleep_manage_pth` |
| `HeartOk`, `HeartMissed`, `Release`, `ReleaseSlots` | `heartcheck_pth` |
| `StartUpdate`, `UpdateWoken`, `UpdateFails`, `UpdateEnds` | the camera branch of `update_pth` |

A step ends where another thread can make a difference: a call into the power
procedures, the test of the other sessions' slots, the gap between a flag and the
slot it belongs to. Fields of the slot that always change together (`camerachannel`
and `wakeupstatus`) are one variable, `held`; `videochannel` is the thread's own
memory of it, which decides what its end does and which nothing but a wake sets.

Abstracted: time (a countdown is running or not, a running one may end; an exchange
may time out at any moment); what the recorders record and why they stop; pairing
(the camera stays paired); `wifi_heart`, the signal and battery values; the stream
rings' start and stop; the manual recorder; and a session's other commands. The
block that sets `sleep_flag` after a wake answer (`rfserver.c:1511`) is compiled
because `basetype.h:101` defines `WAKE_TIME_USER_TEST`, and is modelled as compiled.

### SearchList

`data` and `totol` are the fields of `g_searchcamera` (the code's spelling), `flush` its
static flag and `searchtime` the main loop's counter. Each procedure runs under one mutex
and is one action or operator: `SearchList_Insert`, `SearchList_Remove`, `SearchList_Update`
(within `MainTurn`), and the queries `SearchList_Find` and `SearchList_FindOne`. The clock is in seconds modulo `Wrap`, and may be set. What the actions show:
`searchtime` is never reset, so after ten seconds the table is updated every second, where
`main.c:2494` says every ten; a camera that announces itself again keeps its first time.

### Pairing

`pair` is the table `g_pair` with `nstat`, `lock`, `mac` and, as `cam`, the serial number
and radio address, which are written together; `pairmode`, `keyparing` and `pair_result`
are the three global flags. `caller` holds the place of each app session and of the SYNC
key's thread, `worker` that of each pairing thread, `camera` that of each camera and of the
thread that serves its connection.

| actions | code |
|---|---|
| `AppRequest` | `Session_pth`, `CAMERA_PAIR` |
| `KeyPress`; `KeySeen`, `KeySearch`, `KeyTimeout`, `KeyDone` | `buttionmanage_pth`; `keysync_pth` |
| `Begin`, `Start`, `NotStarted` | `VAVAHAL_PairCamera`: before its mutex, and the section under it with and without success |
| `Answered`, `GiveUp`, `Outcome`, `WaitExpires`, `WaitExpired` | `camerapair_pth`, with `VAVAHAL_PairReq` |
| `PairAnswer` | `rfserver_pth`, `CC1310_PAIRREQ` |
| `Accept`, `Refuse`; `PairAck`, `Added` | `commonclient_pth`, `PAIR_REQ`; `PAIR_ACK`, up to and after the call to the server |
| `Remove` | `VAVAHAL_ParamParse_ClearPair` and a synchronisation pass |
| `ListChanges` | the search list, as `FoundList` describes it |
| `Invited`, `CameraLeaves` | the camera and the radio (not in the repository) |

Abstracted: the three radio exchanges of an invitation are one; a camera has one connection
at a time (a second one would be judged on the same table); the radio band index, for which
a camera may be refused at any time; names, sounds, LEDs, files and the settings that are
reset with a new camera. The mutex around a synchronisation pass is not modelled: all the
pass does to the table is what an app does without the mutex.

### Streams

`avclient_pth` stores what `avsend_pth` reads. `w` holds the writer's loss check, `list`, `write`,
`free` and `mem` are the ring of units and the block they lie in, `rd` is the reader's position
with the unit in hand and the sessions still to be served, `av` what `g_session` says of each row.

| actions | code |
|---|---|
| `VideoFrame` (`Judge`, `Store`), `AudioFrame`, `LoseFrame`, `Reconnect` | `avclient_pth` |
| `Take`, `Send` (`NewMode`, `Spared`), `Advance` | `avsend_pth` |
| `EnterSlot`, `Watch`, `Unwatch`, `OpenVideo`, `CloseVideo` | `Session_pth` |
| `SetStats` | `VAVAHAL_StartAVMemCahce`, `VAVAHAL_StopAVMemCahce` |

A byte of the block holds the index of the frame stored over it last, so that a torn frame can be
seen. A unit also says which video frame was stored before it (`after`, which the code does not
keep), so that what a viewer was given can be compared with it. How much of a session's data is
unsent is chosen anew for each frame.

`ViewerDecodes` says that a viewer is given no frame without the one it refers to, as long as the
writer has not lapped the reader; `FramesInOrder` that frames come in the order of the camera even
when it has.

### Presence

The fields are those of `g_camerainfo` and the checker's arrays; times are ages. `Second` is one
turn of the loop, `Due`, `Asks`, `CheckAnswered`, `CheckMissed` and `DeclareOffline` what a turn
does; `RadioHeartbeat` and `WifiHeartbeat` are the answers, `WakesFailed` the wake call that sets
`online` to 0. The other channels appear as `OtherOffline`, which restarts `t_off1`. Whether a
camera is asked as an online or as an offline one is decided before the request (`Asks`, the two
places of `Asking`) and not looked at again: `DeclareOffline` follows the first and `StillOffline`
the second, although wake calls may have set `online` to 0 during the request.

`away` and `back` are history variables: the seconds since `online` went to 0, and whether the
camera has been online since it was last declared offline. `NoticeNotEarly` is what the comment
in the code says of the notice, by `away`; it is false (finding 5). `NoticeAfterAbsence` is what
remains: the camera is offline when it is announced, and has been for the whole time unless it was
`back` in between.

### RecIndex

A day has a directory (`dirs`, `files`) and an index (`idx`: the head's count and the entries
behind it), the days have theirs (`dates`). `LookForDir` to `WriteHead` are a recorder's steps,
`DeleteDay` and `DropEntry` to `WriteList` those of an app's request, `CarryOut` the deletion
queue's, `CleanBegins` and `CleanEnds` space reclaim's; `Restart` is a restart of the program
(watchdog, reboot) at any of these steps with the rebuilding that follows; what was written before
is there afterwards. That holds of a restart and not of a loss of power: the code calls only `fflush`
and `fclose`, the card is mounted without `sync` (`sdcheck.c:74`), and the head may then be on it
without the entry, or neither. File operations succeed unless the directory is gone.
Nothing is promised of a day (`past.spoilt`) whose index was made anew over an older one, whose
directory was removed while somebody else had a file of it open, or in which the program was
restarted in the middle of a delete request.

`RecIndex` implements `Catalogue` (`CatalogueSpec`) under the mapping `Cat`: a recording is under
way (`UnderWay`) while its recorder has its file open, up to the writing of the head, and listed
(`InList`) if the head counts it or, while an app's request rewrites the list, if the thread's copy
has it. Of a day that is spoilt nothing is said. So a recording is listed in the one step that
writes the head, and is gone in the one step in which a request takes it from the copy.

### Update

`up` is the thread's place, tries and pieces sent; `wait` and `result` are `g_update`'s. Places
are where the thread waits or another one can make a difference. `HearAnswer` is the client
thread's part for all three answers. The camera (`CameraHears`, `CameraFlashes`, `Answer`) does
what the code expects of it. A time limit may strike whenever its thread waits.

### NetLink and NasSync

`NetLink` has the driver's messages, `netchange_pth` (`NetHears`, `NetSecond`, `NetLease`) and
`internetcheck_pth` (`ProbeTurn`, `ProbeAnswered`, `ProbeStores`). `NasSync` has the mounting
thread (the `Manager` actions and `Mount`) and the copying one (the `Sync` actions), which share
`g_nassync_flag`; of the link it sees `net_check`. A recording's conversion is one step that may
be stopped, fail or crash; a copy that is stopped is taken away again only while the disk is still
mounted (`SyncStops`). `mounts` counts how often the disk is mounted over itself.

### Sessions

`Accept` is the listener, `ReadHandle` to `CloseHandle` a session's thread, `Listen` and
`Received` the talk receiver; `DropWatchers` and `ResetCamera` are what the heartbeat check and a
removal do to the rows. A session opens the talk channel in two steps, the test that it is free
(`TalkTest`) and the write (`TalkOpen`), without a lock, so that two may do so at once. A row is
taken under a mutex and given back in two steps without it
(`LeaveSession`, `WipeRow`), as in the code.

### Arming

One channel. `arming` is `g_camera_arminfo_v1`, `session` what an app's new schedule still has to
fill in, `tmpstatus` what the arming thread believes it told the camera, `armer` and `setter` the
two calls of `VAVAHAL_SetPirStatus` in progress, `pirset` the flag they share, `sensor` the truth.

| actions | code |
|---|---|
| `SetSchedule`, `FillSchedule`; `SetLevel`, `LevelSet` | `VAVAHAL_ParamParse_ArmInfo_V1`; `VAVAHAL_ParamParse_PirSsty` |
| `Unready`, `Decide`, `Told`, `NotTold` | `ArmCheck_v1_pth` with `VAVAHAL_SetPirStatus` |
| `PirReceive` | `rfserver_pth`, `CC1310_PIRSET` |
| `CheckBegins`, `CheckSleeps`, `CheckWakes`; `FirstConnect` | `firstcheck_pth`; `commonclient_pth` |
| `NotReadyAgain`, `ComesOnline`, `Paired` | who else changes `first_flag` and `online` |
| `Hear`, `PirAckLost`, `AwakeChanges`, `Tick` | camera, radio, clock (not in the repository) |

`doubt` is a history variable: the thread may be wrong about the sensor, for one of the reasons
that the code does not exclude. They are: a call that was not alone, that is, one that a session's
call overlapped, that took an older call's late answer for its own, or under which the camera was
replaced; a status that a new schedule changed under the call; a call that failed though the camera
heard it; a sensitivity sent while the sensor had been told to be off; a camera paired anew. It
ends when the camera is seen unready or with the next good answer.

Definitions whose name ends in `_slip` are plausible mistakes in the definition of
that name; no action uses them. They serve to test the properties: each is violated
when the definition is replaced by its slip.

## 3. What is checked

| run | instance | shows |
|---|---|---|
| `small_parts` | a ring with 1 producer, 4 entries, 2 usable slots; one camera's schedule and sensor; a search list of 2 entries with 3 cameras | `SuccessMeansAdded`; the ring implements `FifoQueue` step by step (`FifoSpec`: no entry is lost, twice or out of turn); every entry added is handed over (`AddedIsTaken`); `ScheduleFollowed`, `SensorKnown`, `SensorFollows`; `CountRight`, `OneEntryEach`, `QueriesRight`; the table implements `FoundList`, fairness included (`FoundSpec`) |
| `que_race` | 2 producers | finding: both pass the unlocked test and the ring's content is lost |
| `que_status` | 1 producer | finding: an entry added on the last attempt is reported as refused |
| `power_viewers` | 2 sessions, 2 client threads | `OneExchange`, `NoOrphanWake` |
| `power_requests` | a setting or an update, 1 client thread | `CameraSleeps`, `ReasonsEnd` |
| `power_alarm` | the alarm recorder, the heartbeat checker, 1 client thread, refusals | `ReasonsEnd`, `SleepCallReturns` |
| `power_viewer` | 2 sessions, 1 client thread | finding: a session puts the camera to sleep under another one |
| `pair_channels` | the key, 2 cameras, 2 channels, 1 pairing thread | `OneChannelEach` |
| `pair_ends` | a session and the key, 1 camera, 2 channels, 1 pairing thread | `AttemptEnds`, `KeyEnds` |
| `pair_flag` | a session, 1 camera, 1 channel | finding: pairing mode stays on with nobody pairing |
| `offline_notice` | one camera's presence with three misses, periods 3 and 6, a notice after 9 turns | finding: the app is told of an absence that has just begun |
| `gateway_parts` | one channel's stream, one camera's presence, 2 recorders, an update, the cable, the network disk, app sessions, a work queue that two threads fill | `StoredChain`, `RecentIntact`, `ViewerDecodes`, `FramesInOrder`; `SilentGoesOffline`, `AnsweringComesOnline`, `NoticeAfterAbsence`, `NoticeComes`; `IndexReadable`, `EntriesHaveFiles`, `NothingForgotten`, and the lists implement `Catalogue` (`CatalogueSpec`); `CameraLetGo`, `UpdateEnds`, `SuccessIsReal`; `LinkKnown`, `LinkFollows`; `NasNotErased`, `MarkedMeansTried`; `TablesAgree`; `OnlyRoundsLost` |

`gateway_parts` and `small_parts` are of several modules that share no variable. A behaviour is of
one of them, drawn at the start, and the variables of the others rest: each part is explored as
exhaustively as in a run of its own, and the properties of one part say nothing of another.
No run checks types: the type invariant of every module is proved for every value of the constants
(section 4).

Bounds and why they are enough:

* `CMD_QUEUE_LEN = 3` (50 in the code) is the smallest ring that is empty, partly
  filled and full, and wraps round with four entries. The theorems hold for every size.
  With two producers, in `gateway_parts`, `CMD_QUEUE_LEN = 2`, one attempt and three
  entries, offered in one order: both producers may pass the test of an empty ring, a
  round is lost, and an entry follows it.
* `Tries = 3` is the code's. `FailLimit = 2` (30) makes the watchdog stop reachable.
* `WakeFailLimit = 2` and `WakeTries = 2` (both 3) distinguish a first, a repeated
  and a last failure; the code does nothing else with the counts.
* `MaxRequests` bounds the settings and updates asked for: one, so that a run with
  fairness finishes; overlapping settings differ only in `requests`, and each leaves
  the state of an earlier one but for `sleep_check` and `timer`, which may still be on.
* `MaxAcks = 1`: one answer on its way at a time, which may be late or doubled. Larger
  instances of `power_viewers` (`MaxAcks = 2` with refusals, 2.2 million states; with the
  heartbeat checker, 14 million) gave the same results and take too long to repeat.
* `Answers = {TRUE}` leaves out refusing cameras where they do not matter; `power_alarm`
  has both.

* Search list: two entries are none, some and all; the third camera meets a full table.
  `Wrap = 6` with `MaxAge = 3` lets the clock wrap within a camera's stay; it is set once
  (`MaxSettings`), to any second. `UpdateAfter = 1` (ten) has both kinds of turns.
* `pair_channels`: two cameras compete for the channels and for the one thread, so that an
  attempt ends under another one's and `pthread_create` may fail. Cameras are symmetric.
* `pair_ends`: two callers with one camera, which may be paired twice. Two cameras with a
  session have over ten million states; the first seven million showed no violation.

* Streams: `RingLen = 2`, `MemSize = 5`, `KeySize = 2`: the ring wraps by units and the block by
  bytes, a key frame may leave a gap at its end, and the writer laps the reader, also after
  something was sent. `GopLen = 3` has a key frame, a next and a last one. The ring alone runs for
  four frames with audio between, with a session for four without (`LiveFrames`).
* Presence: the periods are 1 and 2 turns, `OfflineNotice = 4` is longer than the repetition of
  the requests (20 s against 180 s), `MissLimit = 2` (3) has a first and a last miss. `offline_notice`
  has the code's three misses and periods further apart.
* RecIndex: two recorders, two recordings and one day: both write to one index. A day that is
  made anew and two entries of it in the index of the days (`MaxListed`) are reached.
* Update: two pieces have a first and a last one; `MaxLeft = 1` message of an earlier update.
* NetLink: `Settle = 3` is the code's; three messages may wait. NasSync: a day that is over and
  today, with two recordings each day that has any.
* Sessions: two threads act, beside either nobody or a session that stays in row 0, with two rows (0 and 1)
  and one channel. Threads are alike, so the one that serves `h1` is always `t1`, and `t2` serves
  `h2`. A larger instance with two channels (3.3 million states) gave the same result.
* Arming: a week of three days of four moments has every order of start, end and midnight, on
  neighbouring and other days; every list of one entry is entered at every moment before it is
  followed for the whole week. Entries do not influence each other. Then the sensor is switched
  on and off by sensitivities and schedules without entries, as schedules with entries would.

The runs of `MCQueList`, `MCSmallParts` and `MCParts` say `CHECK_DEADLOCK FALSE`: the gateway may
stop, entries run out, frames, days and recordings are bounded, and sessions are not followed
after the listener has confused two of them. The other runs check deadlock.

Fairness. `QueList`: the consumer and every producer go on while they can; their
sleeps are bounded. `CameraUsers`: every thread goes on while it can; a pthread mutex
that is free again and again is obtained (strong fairness of `Takes`); an exchange's
loop is bounded by its counter; a camera that is connected sends its heartbeats and
one that is sent sleep requests again and again hears one in the end (strong fairness
of `Heartbeat` and `HearSleep`: the camera's firmware and the radio, not in the
repository); answers do not stay on their way for ever. Nothing is assumed of apps,
settings, updates, sensors and connections: they may do nothing. Sending and losing
wake answers is not assumed fair either: a wake may always fail.

`SearchList`: seconds pass and the main loop takes its turns. `Pairing`: the key's thread,
the callers of `VAVAHAL_PairCamera`, the pairing threads and the threads that have asked the
server go on: their loops are bounded by counters, the server calls time out, and the mutex
of the choice is free most of the time. Nothing is assumed of cameras, apps and the key: an
attempt ends even if the camera never answers.

`Presence`: the checker goes on; a camera that is there and asked again and again hears, and
answers in time, in the end. `Update`: its thread goes on, all its waits being bounded.
`NetLink`: both threads go on and the driver answers a query. `Arming`: the two threads go on;
a camera that is asked again and again hears, sleeps and wakes at the first try, and reports.
Viewers, recorders, sessions, disks and apps need no fairness: what is said of them is safety.

Findings (also in `PROJECT.json`):

1. `quelist.c:56`: the test for a full ring runs outside the mutex. Two sessions that
   queue a command at once, with one slot left, empty the queue of all its commands.
2. `vavahal.c:3538` (and its three copies): the result is derived from the attempts
   left; an entry added on the last one is reported as error 54.
3. `p2pserver.c:389`: `wakeup_flag` and the slot are written after the power lock was
   released. A session that ends meanwhile puts the camera to sleep under the viewer.
4. `camerapair.c:89`: pairing a camera that is paired already ends with the first look at
   `nstat`, which the earlier pairing set. `g_pairmode` stays on until that camera sends a
   new request; if it does not, every pairing is refused with "another session is pairing",
   the key is dead and the cloud synchronisation stops.
5. `main.c:1444`: the notice counts from the last declaration (`t_off1`, `offpush`), and only a
   check answered in time takes `offpush` back (1432, 1488). A camera declared offline that comes
   back by a late answer (1383) or over Wi-Fi (`avserver.c:420`) and is lost again, to wake calls
   that fail (`vavahal.c:5149`), is announced after some seconds. The comment at `main.c:1523` says
   three minutes continuously offline.

Met while reading and not findings, because a property states what remains true, or because no
module has the data:

* `armcheck.c:186`: an entry over midnight that is chosen on consecutive days is not armed after
  midnight: the day is chosen itself, so that the evening's half is looked at and the half that
  began the day before is not. `Gap` of `Arming` names this, and midnight itself.
* `armcheck.c:118`, `138`: what is remembered is `status` after the call; a new schedule clears it
  meanwhile (`vavahal.c:10159`), and the sensor may stay on though disarmed. `pirset_status` also
  serves the app's call (`vavahal.c:4809`), and a camera paired anew that reports over Wi-Fi is
  never seen with `first_flag` set (`avserver.c:426`). `SensorKnown` holds but for these
  and the other cases of `doubt` (section 2).
* `main.c:1241`: a sleep that succeeds on the second try is taken for a failure; `SensorFollows`
  holds all the same, since the check comes round again.
* `update.c:375` goes on to send the firmware after it gave up; `update.c:310` takes a success on
  the third try for a failure. The flag is cleared all the same (`CameraLetGo`).
* `avserver.c:2753`, `p2pserver.c:2347`: the talk receiver may close another session's channel,
  and a channel may stay busy for ever; `TalkOwned` excepts these.
* `p2pserver.c:2497`: the listener hands out the address of its own variable; two sessions
  accepted at once may serve one connection. Nothing is promised then (`swapped`).
* `main.c:1460`: unattended cameras are asked every thirty minutes; the comment says three.
* `main.c:1420`, `1491`: a radio answer that says the camera is off takes back the offline notice.
* `network.c:292`: a full disk is left mounted with `mountflag` 0; `network.c:794`: when a
  pass was stopped before its list was read again, a null list is looked into (`SyncCrashes`).
  `NasNotErased` holds because the next unmount comes first.
* `rfserver.c:1054` waits fifteen minutes where its comment says ten.
* `quelist.c:816`: a notification is taken off its ring before the link is tested.
* `serversync.c:78`: a pass compares the table with a list fetched before; a camera paired
  meanwhile is removed.
* An explicitly chosen channel leaves `camerapair.index` uninitialised (`vavahal.c:4953`), and the
  band index chosen by `VAVAHAL_GetPairFreeIndex` (4936) is not stored in `g_pair`.

## 4. What is proved

All theorems hold for every value of the constants that satisfies the modules'
assumptions: any number of sessions, client threads, producers, entries, slots, tries, recorders,
days, recordings. The assumptions say that sizes and limits are numbers, positive where zero
would mean nothing, ordered where the code's constants are (a frame fits into the block, an
attended camera is asked more often than an unattended one), and that different kinds of things
are different. Two are worth a reader's attention: a sensitivity is a positive number, 0 being the sensor's off
(`ArmingAssumption`; `basetype.h:1607` numbers them from 1), and no recorder is called like one of
the other users of the index (`RecorderNames`). Every safety property that a run checks is a
theorem, and so is every module's type invariant.

`QueListProofs`

* `TypeCorrect`: `Spec => []TypeOK`.
* `NoEntryLost`: with one producer, `Spec => []NoLoss`. `NoLoss` is not inductive: the
  producer tests for a free slot before it writes. The invariant adds that a producer
  at `insert` still has its slot (only the consumer ran since, and it frees slots) and
  that a consumer at `take` still has its entry. With two producers the first part is
  false, which is finding 1.
* `RingIsFifo`: with one producer, `Spec => FifoSpec`, by the refinement mapping
  `queue <- Contents`: `Insert` is a `Put`, `OutData` a `Get`, every other step a stutter.
  `InsertAppends` and `OutDataTakesHead` are the facts about indices modulo the length.
* `SuccessIsAdded`: `Spec => []SuccessMeansAdded`, for any number of producers. A producer leaves
  its loop with attempts left only after it wrote (`LeaveHasReason`, `ReturnInv`).
* `RoundsAreLost`: `Spec => []OnlyRoundsLost`, for any number of producers: what remains of
  `NoEntryLost` when the indices may pass each other. `RoundsInv` says that `front` and `rear` are
  the numbers of entries taken and written, modulo the ring (`IndicesCount`); that a slot holds
  the last entry written to it (`SlotsHoldLatest`); and that the entries taken have numbers among
  those written (`Numbers`), behind the last of which something was written when the consumer is
  about to take (`Ahead`). What is in the slot at `front` is then the latest of the entries due
  there, a whole number of rounds behind the one that was due (`InsertRounds`, `TakeRounds`).

`CameraUsersProofs`

* `TypeCorrect`: `Spec => []TypeOK`. The types alone are not inductive: that `tries`
  stays within `WakeTries` needs `TriesBounded`, that a thread within a wake call has a
  try left.
* `ExchangesExclude`: `Spec => []OneExchange`, from `LockInv`: whoever exchanges holds
  the lock. The callers neither touch the lock nor enter an exchange (`CallersOutside`).
* `WakeFlagKept`: `Spec => []NoOrphanWake`. The invariant `WakeInv` says which session
  *keeps* the flag: one about to take its slot, or one whose `videochannel` names the
  camera and that is not on its way out past clearing the flag; and that every slot
  another's scan stops at belongs to a session that keeps it. The heart of the proof is
  that a session's scan that finds another's slot leaves that one to look after the flag
  (`SessionKeeps`), and that no other kind of thread sets the flag, takes a slot or moves
  a session's thread (`OthersLeaveSessions`), though the heartbeat check may release slots.

`SearchListProofs`

* `TypeCorrect`, `CounterCorrect`, `ListedOnce`: `TypeOK`, `CountRight` and `OneEntryEach`,
  for every length of the table. They need each other and `UnusedBlank`: an entry not in use
  is blank, so no announcement is taken for it and a removal by address meets an entry in use
  or none. `KnownAsItself` is the key lemma: a camera matches by address exactly where it
  matches by serial number.
* `QueriesAnswerRight`: `Spec => []QueriesRight`, from these and that at most one entry is found
  where the count is one (`OneInUse`, `FoundUnderOwnNumber`).
* `TableIsList`: the first state and every step of the table are ones of the abstract list
  under `found <- Listed`. The fairness in `FoundSpec` is left to TLC.

`PairingProofs`

* `TypeCorrect`: `Spec => []TypeOK`. The capacity of the list needs that it is finite.
* `CameraHasOneChannel`: `Spec => []OneChannelEach`. Not inductive: an acknowledgement
  enters a channel without looking at it. `AcceptedAlone` adds that a camera whose request
  was accepted is entered for no other channel. It holds because a request is accepted for
  the channel the camera has, or if it has none (`AcceptKeeps`), and because only its own
  acknowledgement enters a camera (`OthersEnterNothing`). The proof uses that a camera has
  one connection at a time.

`StreamsProofs`

* `StreamTypeCorrect`: `StreamSpec => []StreamType`.
* `RecentBytesIntact`: `StreamSpec => []RecentIntact`, for every block, ring and frame size. The
  invariant `MemKept` says for each unit where the free space is, seen from it: behind it by
  what was stored since, or, after one new beginning of the block, where that ends; a store either
  goes on behind or begins again (`OthersKept`), and the new unit is right before the free space
  (`NewKept`).
* `StoredInChain`: `StreamSpec => StoredChain`. `InStep` ties the number saved to the frames the
  camera has made, unless a key frame was lost.
* `ViewersDecode`: `StreamSpec => ViewerDecodes`. What a session was given last has to be compared
  with what it is given next, and between the two lies the ring. `ReaderInv` says that until the
  writer laps the reader, `write` is as many units ahead as are unread (`Counted`), each of these
  follows the video frame that ends with the one before it (`Linked`), and a session that is spared
  nothing has the last video frame before the unit whose turn is next (`UpToDate`). That turn is
  the unit in hand or the one behind it, depending on whether the session was served; a session
  that is spared something is outside until a key frame lets it in (`SendEffect`).
* `FramesStayInOrder`: `StreamSpec => FramesInOrder`, lapped or not. `ReaderInv` says nothing once
  the writer has lapped the reader, so this has an invariant of its own, `OrderInv`. It speaks of
  the places from the reader's next one up to `write` (`Pending`), whatever they hold: the video
  frames there are newer than any a session got (`PendingLater`) and in order (`PendingSorted`),
  and so is the unit in hand (`HandLater`). A store either adds the place of the newest frame at
  the end, or comes round to the reader's place, and then no place is pending.

`CameraStateProofs`

* Presence: `PresenceTypeCorrect`, and `NoticeInTime` (`[]NoticeAfterAbsence`). The time the channels
  share is never longer ago than the absence began, unless the camera was back in between, and who
  is asked as an offline camera is offline as long as the request is unanswered (`NoticeInv`).
* Update: `UpdateTypeCorrect`; `FlagCleared` (`[]CameraLetGo`) by `FlagInv`, which says at which
  places the flag may be set; `SuccessReported` (`SuccessIsReal`) by `ReportInv`: as long as every
  answer was heard in its wait, a success on its way or heard is that of a new image.
* Arming: `ArmingTypeCorrect`; `ArmingKnowsSensor` (`[]SensorKnown /\ OwnAnswer`). `OwnAnswer` says
  that a call that was alone and ends with an answer has set the sensor; `SensorKnown` that what is
  remembered is so, outside of the cases of `doubt` (section 2, Arming), which are more than lost and
  late answers. Whether the thread is right
  about the sensor shows only when a call has returned, and the answer it goes by may be that of
  the other caller. `ArmingInv` therefore says, beside the type (`Held`), that a call counts as alone only
  while no session calls (`CallsApart`), what an answer on its way or heard says
  of the sensor (`OnItsWay`, `Answered`), that somebody waits for an answer in time (`Awaited`),
  and what a session's own call may find the thread believe (`DoubtedOff`).
* `ArmingFollowsSchedule` (`[]ScheduleFollowed`): the comparison of minutes the code makes, for
  the day and the day before, is membership in the entry's stretch of the week. It is arithmetic
  modulo the week (`WeekRemainder`, `SinceIs`, `CoversWhen`), for any lengths of day and week.

`NetworkProofs`

* `SessionsTypeCorrect`, and `SessionTablesAgree` (`[]TablesAgree`). The invariant follows a
  handle: the one a thread was started for is open and nobody else's (`HandleOwned`), the row of a
  session that is served is under it and names no camera but the one woken last (`RowHeld`), and a talk channel that is taken was taken by a
  session that is still there or was left behind in one of the ways the code has (`TalkOwned`). All
  of it is promised until the listener writes over its variable (`swapped`).
* `NetLinkTypeCorrect`, and `LinkIsKnown` (`[]LinkKnown`). `Told`: what the driver said last,
  heard or still waiting, is the cable, once it was asked and has answered. `Settled`: what is not
  settling is what was heard last, and both flags go by it, but for the wait in udhcpc. This is
  the safety half of `LinkFollows`.

`StorageProofs`

* `RecIndexTypeCorrect`, `IndexStaysReadable`, `EntriesKeepTheirFiles`, `NothingIsForgotten`: the
  type and the three guarantees of the index. They are proved by one invariant, `IndexInv`. An
  index is a file of a head and entries, written one after the other by recorders, an app's
  thread, the deletion queue and the start, and a recording goes from its recorder's memory to the
  index and from there, by way of the app's copy of the index while it is rewritten, to the queue.
  `DayRight` says for each sound day that what the head counts, or the app holds while it
  rewrites, are recordings on the card, each once and none that a queued request names;
  `RecordingRight` that a recording under way is listed by nobody yet, but for the entry its
  recorder put behind those the head counts; `LockInv` who is between the two halves of a change; `KnownInv` and `OwnInv` that a number
  is given once, to one day and one recorder; `FormInv` what is left of an index that is cut.
* `IndexIsCatalogue`: `RecIndexSpec => CatalogueSpec`: the index files, each written in two halves
  by threads that lock only some of them, are a catalogue that changes in single steps. By
  `ViewInv` what readers see of a sound day is what `IndexInv` speaks of; then every action is one
  step of `Catalogue` or a stutter, action by action. A restart needs one fact more, `LooseInv`: a
  sound day without an index holds no recordings but those under way. Without it the index that
  the start makes from the files it finds could list again what was deleted (`CatRestart`).
* `NasTypeCorrect`; `DiskKept` (`[]NasNotErased`) by `MountInv`: the disk is mounted at most once,
  so that the mount forgotten is the one the next unmount takes away; `MarkIsEarned`
  (`MarkedMeansTried`) by `LoopInv`: within a list, everything behind its counter was dealt with.

What the proofs found in the models. An invariant of `RecIndex` was not inductive because a
recorder that releases an empty file was itself counted among those at work in the directory, so
that every such step spoilt its day and the properties said less than they seemed to; and because
the note that a directory was gone was kept from one recording to the next, where the code asks
anew for each. Both are corrected (`RemoveDir`, `WriteEntry`). `Arming` had to say that no
sensitivity is 0, and `RecIndex` that names differ.

Only model-checked: the liveness properties (`AddedIsTaken`, `CameraSleeps`, `ReasonsEnd`,
`SleepCallReturns`, `AttemptEnds`, `KeyEnds`, `SilentGoesOffline`, `AnsweringComesOnline`,
`NoticeComes`, `UpdateEnds`, `LinkFollows`, `SensorFollows`, and that of `FoundSpec`), which need
fairness and are out of the proof system's reach. Of `RingIsFifo` and `TableIsList` the proof
system sees the steps, TLC the fairness as well. `FailureMeansNotAdded`, `NoSleepUnderViewer`,
`PairmodeTrue` and `NoticeNotEarly` are false (findings 2 to 5), and `NoLoss` is with two producers (finding 1), where
`RoundsAreLost` says what remains true.

## 5. Not modelled, and the plan

Not modelled for good: JSON parsing and building, the vendor cloud's HTTP and MQTT messages,
device discovery, the access point's file, start-up code, and vendored code (cJSON, MD5, CRC,
AES): formatting or plain input and output. They are most of the lines of the repository, which
also holds the headers of OpenSSL and curl.

Loss of power is not modelled. The index is held to restarts of the program; on a card mounted
without `sync` the order of its two writes does not survive more than that, and nothing in the
code would make it.

Left out of components that are modelled in part: the handlers of the notification and thumbnail
queues; mounting, formatting and checking the card; the recorders and the audio as readers of the
streams; two update threads started at once (`vavahal.c:11112`); the radio chip's image and
heartbeat; the second wake path, of a camera being paired; a session's other commands.

Planned, in this order:

1. The notification and thumbnail handlers as consumers of `QueList`, with the link of `NetLink`.
2. The card: mount, format and the stop of the recorders under it, with `RecIndex`.
3. `cc1310upgrade.c` (retries and acknowledgements of a boot loader) and `buttonmanage.c` (press
   durations), as far as the number of runs allows.
4. `Sessions` composed with `CameraUsers`: one table for both.

Theorems worth having next: the recorders as further readers of the ring, by `ReaderInv` and
`OrderInv`; the table of `Sessions` as the sessions of `CameraUsers`.
