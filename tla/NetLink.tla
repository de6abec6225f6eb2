------------------------------ MODULE NetLink -------------------------------
(***************************************************************************)
(* The gateway's link to the network (networkcheck.c): netchange_pth hears *)
(* from the switch driver whether a cable is plugged in, waits for it to   *)
(* settle, and asks for an address; internetcheck_pth then asks a server   *)
(* every ten seconds.  g_router_link_status, g_internetcheck and           *)
(* g_nas_net_check are what the rest of the program sees of it.            *)
(*                                                                         *)
(* The wireless side is not built (WIRLD_ONLY), and nettypechange_pth is   *)
(* never started.                                                          *)
(***************************************************************************)
EXTENDS Naturals, Sequences

CONSTANTS Settle,     \* seconds without a change before it counts (3)
          MaxPosts    \* bound: the cable moves while so few messages wait

ASSUME NetAssumption == Settle \in Nat \ {0} /\ MaxPosts \in Nat

VARIABLES cable, server,     \* plugged in; the server answers
          posts, asked,      \* messages of the driver, a query to it
          change,            \* netchange_pth: place, savetype, changeflag, age
          nettype,           \* g_gatewayinfo.nettype
          internetcheck,     \* g_internetcheck
          nas_net_check,     \* g_nas_net_check
          probe,             \* internetcheck_pth: its place
          router_link        \* g_router_link_status

netVars == <<cable, server, posts, asked, change, nettype, internetcheck,
             nas_net_check, probe, router_link>>

NetTypes == {"none", "out", "in"}     \* -1, 0, 1

NetLinkType ==
  /\ cable \in {"out", "in"} /\ server \in BOOLEAN
  /\ posts \in Seq({"out", "in"}) /\ asked \in BOOLEAN
  /\ change \in [at : {"start", "loop", "sleep", "dhcp"}, save : NetTypes,
                 flag : BOOLEAN, age : 0 .. Settle]
  /\ nettype \in NetTypes
  /\ internetcheck \in BOOLEAN /\ nas_net_check \in BOOLEAN
  /\ probe \in {"turn", "ask", "yes", "no"} /\ router_link \in {"OK", "FAILD"}

NetLinkInit ==
  /\ cable \in {"out", "in"} /\ server \in BOOLEAN
  /\ posts = <<>> /\ asked = FALSE
  /\ change = [at |-> "start", save |-> "none", flag |-> FALSE, age |-> 0]
  /\ nettype = "none" /\ internetcheck = FALSE /\ nas_net_check = FALSE
  /\ probe = "turn" /\ router_link = "FAILD"

world == <<cable, server>>
checks == <<internetcheck, nas_net_check>>
-----------------------------------------------------------------------------
(* The cable, the server, the switch driver. *)

CableMoves ==
  /\ Len(posts) < MaxPosts
  /\ cable' = IF cable = "in" THEN "out" ELSE "in"
  /\ posts' = Append(posts, cable')
  /\ UNCHANGED <<server, asked, change, nettype, checks, probe, router_link>>

ServerMoves ==
  /\ server' = ~server
  /\ UNCHANGED <<cable, posts, asked, change, nettype, checks, probe, router_link>>

DriverAnswers ==
  /\ asked /\ asked' = FALSE /\ posts' = Append(posts, cable)
  /\ UNCHANGED <<world, change, nettype, checks, probe, router_link>>
-----------------------------------------------------------------------------
(* netchange_pth *)

\* Old messages are thrown away, then the driver is asked.
NetStart ==
  /\ change.at = "start" /\ change' = [change EXCEPT !.at = "loop"]
  /\ posts' = <<>> /\ asked' = TRUE
  /\ UNCHANGED <<world, nettype, checks, probe, router_link>>

Moved_slip(m) == nettype # m

Moved(m) == change.save # m

NetHears ==
  /\ change.at = "loop" /\ posts # <<>> /\ posts' = Tail(posts)
  /\ LET m == Head(posts) IN
     /\ nas_net_check' = (nas_net_check /\ m # "out")
     /\ change' = IF Moved(m)
                    THEN [change EXCEPT !.save = m, !.flag = TRUE, !.age = 0]
                    ELSE change
  /\ UNCHANGED <<world, asked, nettype, internetcheck, probe, router_link>>

NetNothing ==
  /\ change.at = "loop" /\ posts = <<>>
  /\ change' = [change EXCEPT !.at = "sleep"]
  /\ UNCHANGED <<world, posts, asked, nettype, checks, probe, router_link>>

\* A second later, whatever has been posted meanwhile.
NetSecond ==
  /\ change.at = "sleep"
  /\ LET age == IF change.age < Settle THEN change.age + 1 ELSE change.age
         settled == change.flag /\ age >= Settle
     IN /\ change' = [change EXCEPT
              !.at = IF settled /\ change.save = "in" THEN "dhcp" ELSE "loop",
              !.flag = change.flag /\ ~settled, !.age = age]
        /\ nettype' = IF settled THEN change.save ELSE nettype
        /\ internetcheck' = (internetcheck /\ ~(settled /\ change.save = "out"))
        /\ nas_net_check' = (nas_net_check /\ ~(settled /\ change.save = "out"))
  /\ UNCHANGED <<world, posts, asked, probe, router_link>>

\* udhcpc returns with an address, which takes a cable.
NetLease ==
  /\ change.at = "dhcp" /\ cable = "in"
  /\ change' = [change EXCEPT !.at = "loop"]
  /\ internetcheck' = TRUE /\ nas_net_check' = TRUE
  /\ UNCHANGED <<world, posts, asked, nettype, probe, router_link>>

NetChange == NetStart \/ NetHears \/ NetNothing \/ NetSecond \/ NetLease
-----------------------------------------------------------------------------
(* internetcheck_pth *)

ProbeTurn ==
  /\ probe = "turn"
  /\ IF internetcheck THEN probe' = "ask" /\ UNCHANGED router_link
                      ELSE router_link' = "FAILD" /\ UNCHANGED probe
  /\ UNCHANGED <<world, posts, asked, change, nettype, checks>>

\* VAVAHAL_CheckServerStatus
ProbeAnswered ==
  /\ probe = "ask"
  /\ probe' = IF server /\ cable = "in" THEN "yes" ELSE "no"
  /\ UNCHANGED <<world, posts, asked, change, nettype, checks, router_link>>

\* Whatever has happened since.
ProbeStores ==
  /\ probe \in {"yes", "no"} /\ probe' = "turn"
  /\ router_link' = IF probe = "yes" THEN "OK" ELSE "FAILD"
  /\ UNCHANGED <<world, posts, asked, change, nettype, checks>>

Probe == ProbeTurn \/ ProbeAnswered \/ ProbeStores

NetLinkNext == CableMoves \/ ServerMoves \/ DriverAnswers \/ NetChange \/ Probe

(* Both threads run for ever, the driver answers, and udhcpc gets an        *)
(* address while a cable is plugged in: without one NetLease is disabled    *)
(* and the thread waits in udhcpc, as it does.                              *)
NetLinkFairness ==
  WF_netVars(NetChange) /\ WF_netVars(Probe) /\ WF_netVars(DriverAnswers)

NetLinkSpec == NetLinkInit /\ [][NetLinkNext]_netVars /\ NetLinkFairness
-----------------------------------------------------------------------------
(* Properties. *)

(* Once every message was heard and nothing is left to settle, what the     *)
(* thread goes by is the cable as it is, and both flags say so: whichever   *)
(* moves went before, however many of them came while it slept or waited in *)
(* udhcpc, and whether they were told or looked up at the start.  Going     *)
(* wrong: a gateway that stays off the network, or believes itself on it,   *)
(* until somebody pulls the cable again.                                    *)
LinkKnown ==
  (change.at \in {"loop", "sleep"} /\ posts = <<>> /\ ~asked) =>
     /\ change.save = cable
     /\ ~change.flag => /\ nettype = cable
                        /\ internetcheck = (cable = "in")
                        /\ nas_net_check = (cable = "in")

(* When the cable comes to rest, in or out, so do the flags that the rest   *)
(* of the program goes by, at what it is: however often it was moved while  *)
(* the thread waited for it to settle or for an address, and although only  *)
(* one of the two flags is cleared at once.                                 *)
LinkFollows ==
  /\ <>[](cable = "in" /\ server) => <>[](router_link = "OK")
  /\ <>[](cable = "out") => <>[](router_link = "FAILD")
  /\ <>[](cable = "in") => <>[] nas_net_check
  /\ <>[](cable = "out") => <>[] ~nas_net_check
=============================================================================
