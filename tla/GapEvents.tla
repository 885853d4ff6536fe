----------------------------- MODULE GapEvents -----------------------------
(***************************************************************************)
(* The application's handler of GAP events (proj_main.c), which restarts   *)
(* the connectable advertising when its link has ended, and the queue of   *)
(* user advertisements that it drives (sig_mesh_led.c).                    *)
(*                                                                         *)
(* The link layer is external.  Its events are queued and delivered in     *)
(* order, some time after what they tell of; a connection by way of the    *)
(* advertising is told by SLAVE_RAW_CONNECT and then ADV_END (gap_api.h,   *)
(* 212).  Links that the node makes itself share the indices.  That the    *)
(* disconnection is passed on to the bearer of PbRemote is modelled there. *)
(***************************************************************************)
EXTENDS Integers, Sequences

CONSTANTS Links, NoLink,      \* connection indices, 0xff
          Packets, NoPacket,  \* user advertisements
          MaxWaiting,         \* bound: packets in the queue
          MaxEvents           \* bound: events under way before a new link

ASSUME GapAssumption ==
    /\ NoLink \notin Links /\ NoPacket \notin Packets
    /\ MaxWaiting \in Nat /\ MaxEvents \in Nat

VARIABLES
    \* the link layer
    evts,           \* events not yet delivered
    adv,            \* the connectable advertising is on
    slaves,         \* links made by way of it
    masters,        \* links the node has made
    air,            \* the user advertisement on air
    \* proj_ble_gap_evt_func
    adv_stopped, slave_link_conidx, slave_link_conidx_tmp,
    \* sig_mesh_led.c: app_mesh_user_adv_state and app_mesh_user_adv_list
    sending, waiting

layer == <<slaves, masters>>
proxy == <<adv, adv_stopped, slave_link_conidx, slave_link_conidx_tmp>>
queue == <<air, sending, waiting>>
vars == <<evts, adv, slaves, masters, air, adv_stopped, slave_link_conidx,
          slave_link_conidx_tmp, sending, waiting>>

Init ==
    /\ evts = <<[type |-> "ALL_SVC_ADDED"]>>
    /\ adv = FALSE /\ slaves = {} /\ masters = {}
    /\ adv_stopped = FALSE /\ slave_link_conidx = NoLink /\ slave_link_conidx_tmp = NoLink
    /\ air = NoPacket /\ sending = FALSE /\ waiting = <<>>

(***************************************************************************)
(* The link layer.                                                         *)
(***************************************************************************)
Free(l) == l \notin slaves \cup masters /\ Len(evts) < MaxEvents

SlaveConnects(l) ==
    /\ adv /\ Free(l)
    /\ adv' = FALSE /\ slaves' = slaves \cup {l}
    /\ evts' = evts \o <<[type |-> "SLAVE_RAW_CONNECT", conidx |-> l],
                         [type |-> "ADV_END", idx |-> 0]>>
    /\ UNCHANGED <<masters, adv_stopped, slave_link_conidx, slave_link_conidx_tmp, queue>>

MasterConnects(l) ==
    /\ Free(l)
    /\ masters' = masters \cup {l}
    /\ UNCHANGED <<evts, slaves, proxy, queue>>

LinkEnds(l) ==
    /\ l \in slaves \cup masters
    /\ slaves' = slaves \ {l} /\ masters' = masters \ {l}
    /\ evts' = Append(evts, [type |-> "DISCONNECT", conidx |-> l])
    /\ UNCHANGED <<proxy, queue>>

AirEnds ==
    /\ air # NoPacket /\ air' = NoPacket
    /\ evts' = Append(evts, [type |-> "ADV_END", idx |-> 1])
    /\ UNCHANGED <<layer, proxy, sending, waiting>>

(***************************************************************************)
(* User advertisements.                                                    *)
(***************************************************************************)
\* Mutants: a packet is sent whenever none waits; the end of a packet frees
\* the sender although others wait.
IdleIfNoneWaits == waiting = <<>>
EndFrees == sending' = FALSE /\ UNCHANGED <<air, waiting>>

Idle == ~sending

app_mesh_send_user_adv_packet(p) ==
    /\ Len(waiting) < MaxWaiting
    /\ IF Idle THEN sending' = TRUE /\ air' = p /\ UNCHANGED waiting
       ELSE waiting' = Append(waiting, p) /\ UNCHANGED <<sending, air>>
    /\ UNCHANGED <<evts, layer, proxy>>

app_mesh_send_user_adv_end ==
    \/ /\ waiting = <<>>
       /\ sending' = FALSE /\ UNCHANGED <<air, waiting>>
    \/ /\ waiting # <<>>
       /\ sending' = TRUE /\ air' = Head(waiting) /\ waiting' = Tail(waiting)

(***************************************************************************)
(* proj_ble_gap_evt_func                                                   *)
(***************************************************************************)
sp_start_adv == adv' = TRUE

GAP_EVT_ADV_END(e) ==
    /\ e.type = "ADV_END"
    /\ \/ /\ e.idx = 0
          /\ adv_stopped' = TRUE
          /\ slave_link_conidx' = slave_link_conidx_tmp
          /\ slave_link_conidx_tmp' = NoLink
          /\ UNCHANGED <<adv, queue>>
       \/ e.idx # 0 /\ app_mesh_send_user_adv_end /\ UNCHANGED proxy

GAP_EVT_ALL_SVC_ADDED(e) ==
    /\ e.type = "ALL_SVC_ADDED"
    /\ sp_start_adv /\ adv_stopped' = FALSE
    /\ UNCHANGED <<slave_link_conidx, slave_link_conidx_tmp, queue>>

GAP_EVT_SLAVE_RAW_CONNECT(e) ==
    /\ e.type = "SLAVE_RAW_CONNECT"
    /\ slave_link_conidx_tmp' = e.conidx
    /\ UNCHANGED <<adv, adv_stopped, slave_link_conidx, queue>>

\* Mutant: the end of any link restarts the advertising.
EndsAny(e) == adv_stopped
EndsProxyLink(e) == adv_stopped /\ slave_link_conidx = e.conidx

GAP_EVT_DISCONNECT(e) ==
    /\ e.type = "DISCONNECT"
    /\ IF EndsProxyLink(e)
       THEN slave_link_conidx' = NoLink /\ adv_stopped' = FALSE /\ sp_start_adv
       ELSE UNCHANGED <<slave_link_conidx, adv_stopped, adv>>
    /\ UNCHANGED <<slave_link_conidx_tmp, queue>>

Deliver ==
    /\ evts # <<>>
    /\ LET e == Head(evts)
       IN  GAP_EVT_ADV_END(e) \/ GAP_EVT_ALL_SVC_ADDED(e)
           \/ GAP_EVT_SLAVE_RAW_CONNECT(e) \/ GAP_EVT_DISCONNECT(e)
    /\ evts' = Tail(evts)
    /\ UNCHANGED layer

Next ==
    \/ Deliver \/ AirEnds
    \/ \E p \in Packets : app_mesh_send_user_adv_packet(p)
    \/ \E l \in Links : SlaveConnects(l) \/ MasterConnects(l) \/ LinkEnds(l)

Spec == Init /\ [][Next]_vars

\* Events are delivered, and an advertisement has a duration.
FairSpec == Spec /\ WF_vars(Deliver) /\ WF_vars(AirEnds)
=============================================================================
