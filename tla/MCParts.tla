------------------------------ MODULE MCParts -------------------------------
(***************************************************************************)
(* Instances for TLC of the parts of the gateway that share no variable:   *)
(* the stream ring, the presence of a camera, the recordings' index, an    *)
(* update, the network link, the network disk, the app sessions, and a     *)
(* work queue that two threads fill.  A behaviour is of one part only:     *)
(* which one is drawn at the start.                                        *)
(***************************************************************************)
EXTENDS Streams, Presence, RecIndex, Update, NetLink, NasSync,
        Sessions, QueList

CONSTANTS s1, s2, r1, r2, t1, t2, t3, h1, h2, h3,
          c1, p1, p2, e1, e2, e3,
          LiveFrames     \* bound: frames, while somebody watches

VARIABLE part

partsVars == <<part, streamVars, presenceVars, recIndexVars, updateVars, netVars,
               nasVars, sessionsVars, vars>>

TwoProducers == {p1, p2}
ThreeEntries == {e1, e2, e3}

\* Nobody is connected yet, or a session that stays has the first row.
Stayer == [NoThread EXCEPT !.place = "in", !.own = h3, !.handle = h3, !.row = 0]

SessionsBegin ==
  \/ SessionsInit
  \/ /\ part = "sessions"
     /\ sessionid = h3 /\ open = {h3}
     /\ threads = [t \in Threads |-> IF t = t3 THEN Stayer ELSE NoThread]
     /\ table = [i \in Rows |-> IF i = 0 THEN [FreeRow EXCEPT !.id = h3] ELSE FreeRow]
     /\ talk = [c \in Channels |-> NoHandle]
     /\ receiver = [c \in Channels |-> [tmptalk |-> NoHandle, reading |-> FALSE]]
     /\ swapped = FALSE /\ abandoned = {}

PartsInit ==
  /\ part \in {"ring", "live", "presence", "index", "update", "link", "nas",
             "sessions", "queue"}
  /\ StreamInit /\ PresenceInit /\ RecIndexInit /\ UpdateInit /\ NetLinkInit
  /\ NasInit /\ SessionsBegin /\ Init
  /\ part # "link" => cable = "out" /\ ~server
  /\ part # "nas" => ctrl
  /\ part # "presence" => body = "gone"

\* The ring alone runs longer than the ring with its readers, and has the audio.
Ring == part = "ring" /\ Camera

Live ==
  /\ part = "live" /\ StreamNext /\ ~AudioFrame
  /\ cam'.id <= LiveFrames /\ hist'.seq <= LiveFrames

\* The third session and its handle stay as they began.  Which idle thread
\* gets a connection makes no difference: h1 always gets t1, and h2 gets t2.
TwoSessions ==
  /\ part = "sessions" /\ ~swapped /\ SessionsNext
  /\ threads'[t1].own \in {NoHandle, h1} /\ threads'[t2].own \in {NoHandle, h2}
  /\ threads'[t3] = threads[t3] /\ (h3 \in open' <=> h3 \in open)

\* No entry differs from another: they are offered in one order, and the
\* gateway stays up.
Queue ==
  /\ part = "queue" /\ Next /\ running'
  /\ e2 \in offered' => e1 \in offered'
  /\ e3 \in offered' => e2 \in offered'

\* Nothing is promised of spoilt days: the index is left when all are; nor
\* of sessions once the listener has written over its variable.
PartsNext ==
  /\ UNCHANGED part
  /\ \/ /\ Ring \/ Live
        /\ UNCHANGED <<presenceVars, recIndexVars, updateVars, netVars, nasVars,
                       sessionsVars, vars>>
     \/ /\ part = "presence" /\ PresenceNext
        /\ UNCHANGED <<streamVars, recIndexVars, updateVars, netVars, nasVars,
                       sessionsVars, vars>>
     \/ /\ part = "index" /\ past.spoilt # Days /\ RecIndexNext
        /\ UNCHANGED <<streamVars, presenceVars, updateVars, netVars, nasVars,
                       sessionsVars, vars>>
     \/ /\ part = "update" /\ UpdateNext
        /\ UNCHANGED <<streamVars, presenceVars, recIndexVars, netVars, nasVars,
                       sessionsVars, vars>>
     \/ /\ part = "link" /\ NetLinkNext
        /\ UNCHANGED <<streamVars, presenceVars, recIndexVars, updateVars, nasVars,
                       sessionsVars, vars>>
     \/ /\ part = "nas" /\ NasNext
        /\ UNCHANGED <<streamVars, presenceVars, recIndexVars, updateVars, netVars,
                       sessionsVars, vars>>
     \/ /\ TwoSessions
        /\ UNCHANGED <<streamVars, presenceVars, recIndexVars, updateVars, netVars,
                       nasVars, vars>>
     \/ /\ Queue
        /\ UNCHANGED <<streamVars, presenceVars, recIndexVars, updateVars, netVars,
                       nasVars, sessionsVars>>

\* Each part's own fairness.
PartsFairness ==
  /\ WF_presenceVars(part = "presence" /\ Checker)
  /\ SF_presenceVars(part = "presence" /\ HearHeart)
  /\ SF_presenceVars(part = "presence" /\ RadioHeartbeat)
  /\ WF_updateVars(part = "update" /\ Updater)
  /\ WF_netVars(part = "link" /\ NetChange)
  /\ WF_netVars(part = "link" /\ Probe)
  /\ WF_netVars(part = "link" /\ DriverAnswers)

PartsSpec == PartsInit /\ [][PartsNext]_partsVars /\ PartsFairness
=============================================================================
