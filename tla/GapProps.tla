------------------------------ MODULE GapProps ------------------------------
(***************************************************************************)
(* What the handler of GapEvents and the queue of user advertisements      *)
(* promise.                                                                *)
(***************************************************************************)
EXTENDS GapEvents

(***************************************************************************)
(* The node can be reached: when all events are delivered, it advertises   *)
(* or somebody is connected by way of the advertising; and it knows which  *)
(* link that is, whatever other links came and went meanwhile.             *)
(***************************************************************************)
Reachable ==
    evts = <<>> =>
        /\ adv_stopped <=> ~adv
        /\ adv <=> slaves = {}
        /\ slaves \subseteq {slave_link_conidx}

(***************************************************************************)
(* What keeps Reachable true between two deliveries.                       *)
(***************************************************************************)
Event == [type : {"ALL_SVC_ADDED"}]
         \cup [type : {"SLAVE_RAW_CONNECT", "DISCONNECT"}, conidx : Links]
         \cup [type : {"ADV_END"}, idx : {0, 1}]

TypeOK ==
    /\ evts \in Seq(Event)
    /\ adv \in BOOLEAN /\ adv_stopped \in BOOLEAN /\ sending \in BOOLEAN
    /\ slaves \subseteq Links /\ masters \subseteq Links
    /\ slave_link_conidx \in Links \cup {NoLink}
    /\ slave_link_conidx_tmp \in Links \cup {NoLink}
    /\ air \in Packets \cup {NoPacket} /\ waiting \in Seq(Packets)

Starts(i) == evts[i].type = "ALL_SVC_ADDED"
Raw(i) == evts[i].type = "SLAVE_RAW_CONNECT"
ProxyEnd(i) == evts[i].type = "ADV_END" /\ evts[i].idx = 0
AirEnd(i) == evts[i].type = "ADV_END" /\ evts[i].idx = 1
Ended(i, l) == evts[i].type = "DISCONNECT" /\ evts[i].conidx = l

\* Of the events that move the advertising none is under way but those at the
\* positions in "but".
NoneBut(but) ==
    \A i \in DOMAIN evts : Starts(i) \/ Raw(i) \/ ProxyEnd(i) => i \in but

\* The link l was made by way of the advertising, as the events up to position
\* k tell: its end is among the later ones, or it still exists.
LinkSince(l, k) ==
    /\ slaves = {} \/ slaves = {l}
    /\ slaves = {} <=> \E i \in DOMAIN evts : i > k /\ Ended(i, l)

\* The node starts, advertises, has a link that the program does not know yet,
\* is told of it, and knows it.
Booting ==
    /\ ~adv /\ ~adv_stopped /\ slaves = {}
    /\ \E k \in DOMAIN evts : Starts(k) /\ NoneBut({k})

Advertising == adv /\ ~adv_stopped /\ slaves = {} /\ NoneBut({})

Connected ==
    /\ ~adv /\ ~adv_stopped
    /\ \E k \in DOMAIN evts :
         /\ Raw(k) /\ k + 1 \in DOMAIN evts /\ ProxyEnd(k + 1) /\ NoneBut({k, k + 1})
         /\ LinkSince(evts[k].conidx, k + 1)

Told ==
    /\ ~adv /\ ~adv_stopped
    /\ evts # <<>> /\ ProxyEnd(1) /\ NoneBut({1})
    /\ slave_link_conidx_tmp \in Links /\ LinkSince(slave_link_conidx_tmp, 1)

Known ==
    /\ ~adv /\ adv_stopped /\ NoneBut({})
    /\ slave_link_conidx \in Links /\ LinkSince(slave_link_conidx, 0)

\* A sender that is busy has its packet on air or will be told of its end, once.
OneOnAir ==
    /\ \A i, j \in DOMAIN evts : AirEnd(i) /\ AirEnd(j) => i = j
    /\ \A i \in DOMAIN evts : AirEnd(i) => sending /\ air = NoPacket
    /\ air # NoPacket => sending
    /\ ~sending => waiting = <<>>

IInv ==
    /\ TypeOK /\ slaves \cap masters = {}
    /\ Booting \/ Advertising \/ Connected \/ Told \/ Known
    /\ OneOnAir

\* User advertisements go on air one at a time, in the order of the calls.
Fifo == INSTANCE AirQueue
InTurn == Fifo!Spec

\* None of them waits forever.
Sent == \A p \in Packets :
    (\E i \in 1 .. Len(waiting) : waiting[i] = p) ~> air = p
=============================================================================
