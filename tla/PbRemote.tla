------------------------------ MODULE PbRemote ------------------------------
(***************************************************************************)
(* The GATT bearer over which the node provisions a device on behalf of a  *)
(* remote provisioner (pb_remote_central.c): the node connects to the      *)
(* device, looks for the provisioning service, and tells the mesh stack    *)
(* how it went; a second timer gives a connection attempt up, and a        *)
(* connection that fails to be established is tried again.                 *)
(*                                                                         *)
(* The link layer is external: it connects, and loses links, at any time.  *)
(* As in GapEvents its events are queued and delivered in order, some time *)
(* after what they tell of: when the timer runs out a connection may have  *)
(* been made that is not yet reported, and when a lost link is reported    *)
(* another may have its index.  Links that others have made to the node    *)
(* share the indices.  The data that the bearer carries is PbData's.       *)
(***************************************************************************)
EXTENDS Integers, Sequences

CONSTANTS Links,        \* connection indices
          NoLink,       \* 0xff
          TryMax,       \* PB_REMOTE_CONN_TRY_MAX_COUNT
          MaxEvents     \* bound: events under way before a new connection

ASSUME PbAssumption == NoLink \notin Links /\ TryMax \in Nat /\ MaxEvents \in Nat

VARIABLES
    \* the link layer
    evts,         \* events not yet delivered
    link,         \* what there is under an index: nothing, another's link, or a device
    trying,       \* it is told to connect
    leaving,      \* links that gap_disconnect_req will end
    discovering,  \* links whose services are being looked for
    \* pb_remote_central.c
    client_idx, try_times,
    timer,        \* pb_remote_conn_timer runs
    \* the mesh stack
    bearer,       \* what it believes it has
    report,       \* what the last step told it
    crossed       \* history: a connection had been made when it was given up, or
                  \* another's link had taken its index when it was reported

layer == <<evts, link, discovering>>
central == <<client_idx, try_times, timer, trying>>
vars == <<layer, leaving, central, bearer, report, crossed>>

LinkStates == {"none", "slave", "device"}
Reports == {"none", "opened", "failed", "closed"}

\* "failed": a connection failed to be established (0x3e), the service is not there.
Event(type, l, failed) == [type |-> type, conidx |-> l, failed |-> failed]
Events == [type : {"MASTER_CONNECT", "PEER_SVC_REGISTERED", "DISCONNECT"},
           conidx : Links, failed : BOOLEAN]

UnderWay(type, l) == \E i \in DOMAIN evts : evts[i].type = type /\ evts[i].conidx = l

\* m_pbrs_prov_bearer_gatt_opened and _closed, and what the stack makes of them.
Tell(r) ==
    /\ report' = r
    /\ bearer' = CASE r = "opened" -> "open"
                   [] r \in {"failed", "closed"} -> "none"
                   [] OTHER -> bearer

\* gap_start_conn and the second after which it is given up.
StartConn == trying' = TRUE /\ timer' = TRUE

\* Without a link under the index, or without an index, nothing is ended.
DisconnectReq(l) ==
    leaving' = leaving \cup {m \in Links : m = l /\ link[m] # "none"}

Init ==
    /\ client_idx = NoLink /\ try_times = 0
    /\ timer = FALSE /\ trying = FALSE
    /\ evts = <<>> /\ link = [l \in Links |-> "none"]
    /\ leaving = {} /\ discovering = {}
    /\ bearer = "none" /\ report = "none" /\ crossed = FALSE

(***************************************************************************)
(* What the mesh stack asks for.                                           *)
(***************************************************************************)
pb_remote_gatt_create ==
    /\ bearer = "none"
    /\ bearer' = "opening" /\ report' = "none"
    /\ try_times' = 1
    /\ StartConn
    /\ UNCHANGED <<layer, leaving, client_idx, crossed>>

\* Before the connection is reported there is no index, and nothing is stopped.
pb_remote_gatt_close ==
    /\ bearer # "none"
    /\ DisconnectReq(client_idx)
    /\ Tell("none")
    /\ UNCHANGED <<layer, central, crossed>>

pb_remote_connect_timeout ==
    /\ timer
    /\ timer' = FALSE /\ trying' = FALSE
    /\ crossed' = (crossed \/ \E l \in Links : UnderWay("MASTER_CONNECT", l))
    /\ Tell("failed")
    /\ UNCHANGED <<layer, leaving, client_idx, try_times>>

(***************************************************************************)
(* Events.                                                                 *)
(***************************************************************************)
\* Mutant: the timer goes on.
ConnectedKeepsTimer(l) == client_idx' = l /\ timer' = timer
Connected(l) == client_idx' = l /\ timer' = FALSE

\* Services are looked for over whatever link has the index by now.
pb_remote_connected(e) ==
    /\ e.type = "MASTER_CONNECT"
    /\ Connected(e.conidx)
    /\ discovering' = discovering \cup {l \in Links : l = e.conidx /\ link[l] # "none"}
    /\ crossed' = (crossed \/ link[e.conidx] = "slave")
    /\ Tell("none")
    /\ UNCHANGED <<leaving, try_times, trying>>

\* GATT_OP_PEER_SVC_REGISTERED, whatever link it tells of.
SvcRegistered(e) ==
    /\ e.type = "PEER_SVC_REGISTERED"
    /\ IF e.failed THEN DisconnectReq(client_idx) /\ Tell("none")
                   ELSE Tell("opened") /\ UNCHANGED leaving
    /\ UNCHANGED <<discovering, central, crossed>>

\* Mutants: any link's end is taken for the bearer's; a retry is not counted.
TakesAny(l) == TRUE
RetryNotCounted == try_times <= TryMax /\ StartConn /\ UNCHANGED try_times

IsClient(l) == l = client_idx
Retry == try_times <= TryMax /\ try_times' = try_times + 1 /\ StartConn

\* Mutant: the index of the lost link is kept.
Forgotten == client_idx
NoClient == NoLink

pb_remote_disconnected(e) ==
    /\ e.type = "DISCONNECT"
    /\ IF ~IsClient(e.conidx) THEN Tell("none") /\ UNCHANGED central
       ELSE /\ client_idx' = NoClient
            /\ \/ e.failed /\ Retry /\ Tell("none")
               \/ /\ ~(e.failed /\ try_times <= TryMax)
                  /\ Tell("closed") /\ UNCHANGED <<try_times, timer, trying>>
    /\ UNCHANGED <<leaving, discovering, crossed>>

Deliver ==
    /\ evts # <<>>
    /\ LET e == Head(evts)
       IN  pb_remote_connected(e) \/ SvcRegistered(e) \/ pb_remote_disconnected(e)
    /\ evts' = Tail(evts)
    /\ UNCHANGED link

(***************************************************************************)
(* The link layer.                                                         *)
(***************************************************************************)
Connects(l) ==
    /\ trying /\ link[l] = "none" /\ Len(evts) < MaxEvents
    /\ link' = [link EXCEPT ![l] = "device"]
    /\ trying' = FALSE
    /\ evts' = Append(evts, Event("MASTER_CONNECT", l, FALSE))
    /\ Tell("none")
    /\ UNCHANGED <<leaving, discovering, client_idx, try_times, timer, crossed>>

SlaveConnect(l) ==
    /\ link[l] = "none" /\ Len(evts) < MaxEvents
    /\ link' = [link EXCEPT ![l] = "slave"]
    /\ Tell("none")
    /\ UNCHANGED <<evts, leaving, discovering, central, crossed>>

\* A discovery ends with the service or without it, or with its link.
Discovered(l, failed) ==
    /\ l \in discovering
    /\ discovering' = discovering \ {l}
    /\ evts' = Append(evts, Event("PEER_SVC_REGISTERED", l, failed))
    /\ Tell("none")
    /\ UNCHANGED <<link, leaving, central, crossed>>

\* That a connection to a device was never established is found out before
\* anything is heard of its services.
LinkEnds(l, failed) ==
    /\ link[l] # "none"
    /\ failed => link[l] = "device" /\ (l \in discovering \/ UnderWay("MASTER_CONNECT", l))
    /\ link' = [link EXCEPT ![l] = "none"]
    /\ leaving' = leaving \ {l} /\ discovering' = discovering \ {l}
    /\ evts' = Append(evts, Event("DISCONNECT", l, failed))
    /\ Tell("none")
    /\ UNCHANGED <<central, crossed>>

Next ==
    \/ pb_remote_gatt_create \/ pb_remote_gatt_close \/ pb_remote_connect_timeout
    \/ Deliver
    \/ \E l \in Links :
          \/ Connects(l) \/ SlaveConnect(l)
          \/ \E failed \in BOOLEAN : Discovered(l, failed) \/ LinkEnds(l, failed)

Spec == Init /\ [][Next]_vars

\* The timer runs out, events are delivered, discoveries and requested
\* disconnections complete.
Fairness ==
    /\ WF_vars(pb_remote_connect_timeout) /\ WF_vars(Deliver)
    /\ \A l \in Links :
          /\ WF_vars(\E failed \in BOOLEAN : Discovered(l, failed))
          /\ WF_vars(l \in leaving /\ \E failed \in BOOLEAN : LinkEnds(l, failed))
=============================================================================
