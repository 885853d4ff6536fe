----------------------------- MODULE GapProofs -----------------------------
(***************************************************************************)
(* The handler of GAP events for any number of links and of events under   *)
(* way, and its queue of user advertisements for any number of packets.    *)
(***************************************************************************)
EXTENDS GapProps, SequenceTheorems, TLAPS

(***************************************************************************)
(* How the events under way change: they are appended and taken in order.  *)
(***************************************************************************)

\* An event that is appended leaves the others in place.
LEMMA Appended ==
    ASSUME evts \in Seq(Event), NEW e \in Event, evts' = Append(evts, e)
    PROVE  /\ evts' \in Seq(Event) /\ Len(evts) \in Nat
           /\ DOMAIN evts = 1 .. Len(evts) /\ DOMAIN evts' = 1 .. Len(evts) + 1
           /\ \A i \in DOMAIN evts : evts'[i] = evts[i]
           /\ evts'[Len(evts) + 1] = e
BY LenProperties, AppendProperties

\* Two events that are appended leave the others in place.
LEMMA AppendedTwo ==
    ASSUME evts \in Seq(Event), NEW e \in Event, NEW f \in Event,
           evts' = evts \o <<e, f>>
    PROVE  /\ evts' \in Seq(Event) /\ Len(evts) \in Nat
           /\ DOMAIN evts = 1 .. Len(evts) /\ DOMAIN evts' = 1 .. Len(evts) + 2
           /\ \A i \in DOMAIN evts : evts'[i] = evts[i]
           /\ evts'[Len(evts) + 1] = e /\ evts'[Len(evts) + 2] = f
<1>1. <<e, f>> \in Seq(Event) /\ Len(<<e, f>>) = 2 /\ <<e, f>>[1] = e /\ <<e, f>>[2] = f
  OBVIOUS
<1>2. Len(evts) \in Nat /\ DOMAIN evts = 1 .. Len(evts)
  BY LenProperties
<1>3. evts' \in Seq(Event) /\ Len(evts') = Len(evts) + 2
  BY <1>1, ConcatProperties
<1>4. \A i \in 1 .. Len(evts) + 2 :
         evts'[i] = IF i <= Len(evts) THEN evts[i] ELSE <<e, f>>[i - Len(evts)]
  BY <1>1, ConcatProperties
<1>5. DOMAIN evts' = 1 .. Len(evts) + 2
  BY <1>3, LenProperties
<1>6. evts'[Len(evts) + 1] = <<e, f>>[Len(evts) + 1 - Len(evts)]
  BY <1>2, <1>4
<1>7. evts'[Len(evts) + 2] = <<e, f>>[Len(evts) + 2 - Len(evts)]
  BY <1>2, <1>4
<1>8. Len(evts) + 1 - Len(evts) = 1 /\ Len(evts) + 2 - Len(evts) = 2
  BY <1>2
<1> QED BY <1>1, <1>2, <1>3, <1>4, <1>5, <1>6, <1>7, <1>8

\* When the first event is taken, the others move up by one.
LEMMA Taken ==
    ASSUME evts \in Seq(Event), evts # <<>>, evts' = Tail(evts)
    PROVE  /\ evts' \in Seq(Event) /\ Head(evts) = evts[1] /\ evts[1] \in Event
           /\ 1 \in DOMAIN evts
           /\ DOMAIN evts \subseteq Nat \ {0} /\ DOMAIN evts' \subseteq Nat \ {0}
           /\ \A i \in DOMAIN evts' : i + 1 \in DOMAIN evts /\ evts'[i] = evts[i + 1]
           /\ \A i \in DOMAIN evts : i # 1 => i - 1 \in DOMAIN evts' /\ evts'[i - 1] = evts[i]
           /\ evts' = <<>> <=> DOMAIN evts' = {}
<1>1. evts' \in Seq(Event) /\ Len(evts') = Len(evts) - 1
      /\ \A i \in 1 .. Len(evts') : evts'[i] = evts[i + 1]
  BY HeadTailProperties
<1>2. /\ Len(evts) \in Nat \ {0} /\ DOMAIN evts = 1 .. Len(evts)
      /\ DOMAIN evts' = 1 .. Len(evts')
  BY <1>1, LenProperties, EmptySeq
<1>3. Head(evts) = evts[1] /\ evts[1] \in Event
  BY <1>2, ElementOfSeq
<1>4. evts' = <<>> <=> DOMAIN evts' = {}
  BY <1>1, <1>2, EmptySeq
<1> QED BY <1>1, <1>2, <1>3, <1>4

-----------------------------------------------------------------------------
Stage == Booting \/ Advertising \/ Connected \/ Told \/ Known

LEMMA Begins == Init => IInv
<1> SUFFICES ASSUME Init PROVE IInv
  OBVIOUS
<1>1. evts = <<[type |-> "ALL_SVC_ADDED"]>> /\ [type |-> "ALL_SVC_ADDED"] \in Event
  BY DEF Init, Event
<1>2. evts \in Seq(Event) /\ DOMAIN evts = {1} /\ evts[1].type = "ALL_SVC_ADDED"
  BY <1>1
<1>3. TypeOK
  BY <1>2, EmptySeq DEF Init, TypeOK
<1>4. Booting
  BY <1>2 DEF Init, Booting, Starts, NoneBut
<1>5. OneOnAir
  BY <1>2 DEF Init, OneOnAir, AirEnd
<1> QED BY <1>3, <1>4, <1>5 DEF IInv, Init

-----------------------------------------------------------------------------
(***************************************************************************)
(* The link layer.                                                         *)
(***************************************************************************)

LEMMA SlaveConnectsKeeps ==
    ASSUME IInv, NEW l \in Links, SlaveConnects(l) PROVE IInv'
<1> DEFINE raw == [type |-> "SLAVE_RAW_CONNECT", conidx |-> l]
           end == [type |-> "ADV_END", idx |-> 0]
<1>1. raw \in Event /\ end \in Event
  BY DEF Event
<1>2. /\ evts' \in Seq(Event) /\ Len(evts) \in Nat
      /\ DOMAIN evts = 1 .. Len(evts) /\ DOMAIN evts' = 1 .. Len(evts) + 2
      /\ \A i \in DOMAIN evts : evts'[i] = evts[i]
      /\ evts'[Len(evts) + 1] = raw /\ evts'[Len(evts) + 2] = end
  BY <1>1, AppendedTwo DEF IInv, TypeOK, SlaveConnects
<1> HIDE DEF raw, end
<1>3. Advertising
  BY DEF IInv, Booting, Connected, Told, Known, SlaveConnects
<1>4. TypeOK' /\ (slaves \cap masters = {})'
  BY <1>2 DEF IInv, TypeOK, SlaveConnects, queue, Free
<1>5. Connected'
  <2> PICK k \in Nat : k = Len(evts) + 1
    BY <1>2
  <2>1. k \in DOMAIN evts' /\ k + 1 \in DOMAIN evts' /\ k + 1 = Len(evts) + 2
    BY <1>2
  <2>2. Raw(k)' /\ ProxyEnd(k + 1)' /\ evts'[k].conidx = l
    BY <1>2, <2>1 DEF Raw, ProxyEnd, raw, end
  <2>3. NoneBut({k, k + 1})'
    BY <1>2, <1>3 DEF Advertising, NoneBut, Starts, Raw, ProxyEnd
  <2>4. LinkSince(l, k + 1)'
    BY <1>2, <1>3 DEF Advertising, LinkSince, SlaveConnects
  <2> QED BY <1>3, <2>1, <2>2, <2>3, <2>4 DEF Connected, Advertising, SlaveConnects
<1>6. OneOnAir'
  BY <1>2 DEF IInv, OneOnAir, AirEnd, SlaveConnects, queue, raw, end
<1> QED BY <1>4, <1>5, <1>6 DEF IInv

\* What leaves the events and the advertising alone keeps the stage.
LEMMA StageStays ==
    ASSUME Stage, UNCHANGED <<evts, slaves, adv, adv_stopped, slave_link_conidx, slave_link_conidx_tmp>>
    PROVE  Stage'
BY DEF Stage, Booting, Advertising, Connected, Told, Known, NoneBut, LinkSince,
       Starts, Raw, ProxyEnd, Ended

LEMMA MasterConnectsKeeps ==
    ASSUME IInv, NEW l \in Links, MasterConnects(l) PROVE IInv'
<1>1. TypeOK' /\ (slaves \cap masters = {})'
  BY DEF IInv, TypeOK, MasterConnects, Free, proxy, queue
<1>2. Stage'
  BY StageStays DEF IInv, Stage, MasterConnects, proxy
<1>3. OneOnAir'
  BY DEF IInv, OneOnAir, AirEnd, MasterConnects, queue
<1> QED BY <1>1, <1>2, <1>3 DEF IInv, Stage

\* The end of a link is appended: if it is the link made by way of the
\* advertising, its end is now among the events.
LEMMA LinkEndsKeepsLink ==
    ASSUME IInv, NEW l \in Links, LinkEnds(l), NEW m \in Links, NEW k \in Nat,
           k <= Len(evts), LinkSince(m, k)
    PROVE  LinkSince(m, k)'
<1> DEFINE end == [type |-> "DISCONNECT", conidx |-> l]
<1>1. end \in Event
  BY DEF Event
<1>2. /\ Len(evts) \in Nat
      /\ DOMAIN evts = 1 .. Len(evts) /\ DOMAIN evts' = 1 .. Len(evts) + 1
      /\ \A i \in DOMAIN evts : evts'[i] = evts[i]
      /\ evts'[Len(evts) + 1] = end
  BY <1>1, Appended DEF IInv, TypeOK, LinkEnds
<1>3. \A i \in DOMAIN evts : Ended(i, m)' <=> Ended(i, m)
  BY <1>2 DEF Ended
<1> PICK n \in Nat : n = Len(evts) + 1
  BY <1>2
<1>4. Ended(n, m)' <=> l = m
  BY <1>2 DEF Ended
<1>5. n \in DOMAIN evts' /\ n > k /\ DOMAIN evts' = DOMAIN evts \cup {n}
  BY <1>2
<1>6. (\E i \in DOMAIN evts' : i > k /\ Ended(i, m)')
      <=> (l = m \/ \E i \in DOMAIN evts : i > k /\ Ended(i, m))
  BY <1>3, <1>4, <1>5
<1>7. CASE l = m
  <2>1. slaves' = {}
    BY <1>7 DEF LinkEnds, LinkSince
  <2> QED BY <1>6, <1>7, <2>1 DEF LinkSince
<1>8. CASE l # m
  <2>1. slaves' = slaves
    BY <1>8 DEF LinkEnds, LinkSince
  <2> QED BY <1>6, <1>8, <2>1 DEF LinkSince
<1> QED BY <1>7, <1>8

LEMMA LinkEndsKeeps ==
    ASSUME IInv, NEW l \in Links, LinkEnds(l) PROVE IInv'
<1> DEFINE end == [type |-> "DISCONNECT", conidx |-> l]
<1>1. end \in Event
  BY DEF Event
<1>2. /\ evts' \in Seq(Event) /\ Len(evts) \in Nat
      /\ DOMAIN evts = 1 .. Len(evts) /\ DOMAIN evts' = 1 .. Len(evts) + 1
      /\ \A i \in DOMAIN evts : evts'[i] = evts[i]
      /\ evts'[Len(evts) + 1] = end
  BY <1>1, Appended DEF IInv, TypeOK, LinkEnds
<1>3. TypeOK' /\ (slaves \cap masters = {})'
  BY <1>2 DEF IInv, TypeOK, LinkEnds, proxy, queue
<1>4. \A but : NoneBut(but) => NoneBut(but)'
  BY <1>2 DEF NoneBut, Starts, Raw, ProxyEnd
<1>5. \A m \in Links, k \in Nat : k <= Len(evts) /\ LinkSince(m, k) => LinkSince(m, k)'
  BY LinkEndsKeepsLink
<1>6. UNCHANGED <<adv, adv_stopped, slave_link_conidx, slave_link_conidx_tmp>>
  BY DEF LinkEnds, proxy
<1>7. Stage'
  <2>1. CASE Booting
    <3>1. PICK k \in DOMAIN evts : Starts(k) /\ NoneBut({k})
      BY <2>1 DEF Booting
    <3>2. k \in DOMAIN evts' /\ Starts(k)' /\ NoneBut({k})'
      BY <1>2, <1>4, <3>1 DEF Starts
    <3> QED BY <1>6, <2>1, <3>2 DEF Booting, LinkEnds, Stage
  <2>2. CASE Advertising
    BY <1>4, <1>6, <2>2 DEF Advertising, LinkEnds, Stage
  <2>3. CASE Connected
    <3>1. PICK k \in DOMAIN evts :
             /\ Raw(k) /\ k + 1 \in DOMAIN evts /\ ProxyEnd(k + 1) /\ NoneBut({k, k + 1})
             /\ LinkSince(evts[k].conidx, k + 1)
      BY <2>3 DEF Connected
    <3> PICK c : c = evts[k].conidx
      OBVIOUS
    <3>2. c \in Links /\ k + 1 \in Nat /\ k + 1 <= Len(evts)
      BY <1>2, <3>1, ElementOfSeq DEF IInv, TypeOK, Event, Raw
    <3>3. Raw(k)' /\ ProxyEnd(k + 1)' /\ evts'[k].conidx = c
      BY <1>2, <3>1 DEF Raw, ProxyEnd
    <3>4. LinkSince(c, k + 1)'
      BY <1>5, <3>1, <3>2, <3>3
    <3>5. k \in DOMAIN evts' /\ k + 1 \in DOMAIN evts'
      BY <1>2, <3>1
    <3>6. NoneBut({k, k + 1})'
      BY <1>4, <3>1
    <3> QED BY <1>6, <2>3, <3>3, <3>4, <3>5, <3>6 DEF Connected, Stage
  <2>4. CASE Told
    <3>1. 1 \in DOMAIN evts /\ 1 <= Len(evts) /\ evts' # <<>>
      BY <1>2, <2>4, EmptySeq DEF Told, IInv, TypeOK
    <3>2. LinkSince(slave_link_conidx_tmp, 1)'
      BY <1>5, <1>6, <2>4, <3>1 DEF Told
    <3> QED BY <1>2, <1>4, <1>6, <2>4, <3>1, <3>2 DEF Told, Stage, ProxyEnd
  <2>5. CASE Known
    <3>1. LinkSince(slave_link_conidx, 0)'
      BY <1>2, <1>5, <1>6, <2>5 DEF Known
    <3> QED BY <1>4, <1>6, <2>5, <3>1 DEF Known, Stage
  <2> QED BY <2>1, <2>2, <2>3, <2>4, <2>5 DEF IInv
<1>8. OneOnAir'
  BY <1>2 DEF IInv, OneOnAir, AirEnd, LinkEnds, queue
<1> QED BY <1>3, <1>7, <1>8 DEF IInv, Stage

LEMMA AirEndsKeeps ==
    ASSUME IInv, AirEnds PROVE IInv'
<1> DEFINE end == [type |-> "ADV_END", idx |-> 1]
<1>1. end \in Event
  BY DEF Event
<1>2. /\ evts' \in Seq(Event) /\ Len(evts) \in Nat
      /\ DOMAIN evts = 1 .. Len(evts) /\ DOMAIN evts' = 1 .. Len(evts) + 1
      /\ \A i \in DOMAIN evts : evts'[i] = evts[i]
      /\ evts'[Len(evts) + 1] = end
  BY <1>1, Appended DEF IInv, TypeOK, AirEnds
<1> PICK n \in Nat : n = Len(evts) + 1
  BY <1>2
<1>3. /\ DOMAIN evts' = DOMAIN evts \cup {n} /\ n \notin DOMAIN evts
      /\ evts'[n].type = "ADV_END" /\ evts'[n].idx = 1 /\ DOMAIN evts \subseteq Nat
      /\ \A i \in DOMAIN evts : i < n
  BY <1>2
<1> HIDE DEF end
<1>4. TypeOK' /\ (slaves \cap masters = {})'
  BY <1>2 DEF IInv, TypeOK, AirEnds, layer, proxy
<1>5. \A but : NoneBut(but) => NoneBut(but)'
  BY <1>2, <1>3 DEF NoneBut, Starts, Raw, ProxyEnd
<1>6. \A m, k : LinkSince(m, k) => LinkSince(m, k)'
  BY <1>2, <1>3 DEF LinkSince, Ended, AirEnds, layer
<1>7. UNCHANGED <<slaves, adv, adv_stopped, slave_link_conidx, slave_link_conidx_tmp>>
  BY DEF AirEnds, proxy, layer
<1>8. Stage'
  <2>1. CASE Booting
    BY <1>2, <1>3, <1>5, <1>7, <2>1 DEF Booting, Starts, Stage
  <2>2. CASE Advertising
    BY <1>5, <1>7, <2>2 DEF Advertising, Stage
  <2>3. CASE Connected
    <3>1. PICK k \in DOMAIN evts :
             /\ Raw(k) /\ k + 1 \in DOMAIN evts /\ ProxyEnd(k + 1) /\ NoneBut({k, k + 1})
             /\ LinkSince(evts[k].conidx, k + 1)
      BY <2>3 DEF Connected
    <3> PICK c : c = evts[k].conidx
      OBVIOUS
    <3>2. Raw(k)' /\ ProxyEnd(k + 1)' /\ evts'[k].conidx = c
      BY <1>2, <3>1 DEF Raw, ProxyEnd
    <3>3. LinkSince(c, k + 1)' /\ NoneBut({k, k + 1})'
      BY <1>5, <1>6, <3>1
    <3>4. k \in DOMAIN evts' /\ k + 1 \in DOMAIN evts'
      BY <1>3, <3>1
    <3> QED BY <1>7, <2>3, <3>2, <3>3, <3>4 DEF Connected, Stage
  <2>4. CASE Told
    <3>1. 1 \in DOMAIN evts /\ evts' # <<>>
      BY <1>2, <2>4, EmptySeq DEF Told, IInv, TypeOK
    <3> QED BY <1>2, <1>5, <1>6, <1>7, <2>4, <3>1 DEF Told, Stage, ProxyEnd
  <2>5. CASE Known
    BY <1>5, <1>6, <1>7, <2>5 DEF Known, Stage
  <2> QED BY <2>1, <2>2, <2>3, <2>4, <2>5 DEF IInv
<1>9. OneOnAir'
  BY <1>2, <1>3 DEF IInv, OneOnAir, AirEnd, AirEnds
<1> QED BY <1>4, <1>8, <1>9 DEF IInv, Stage

-----------------------------------------------------------------------------
(***************************************************************************)
(* User advertisements.                                                    *)
(***************************************************************************)

LEMMA SendKeeps ==
    ASSUME IInv, NEW p \in Packets, app_mesh_send_user_adv_packet(p) PROVE IInv'
<1>0. Append(waiting, p) \in Seq(Packets)
  BY AppendProperties DEF IInv, TypeOK
<1>1. TypeOK' /\ (slaves \cap masters = {})'
  BY <1>0 DEF IInv, TypeOK, app_mesh_send_user_adv_packet, layer, proxy
<1>2. Stage'
  BY StageStays DEF IInv, Stage, app_mesh_send_user_adv_packet, layer, proxy
<1>3. p # NoPacket
  BY GapAssumption
<1>4. OneOnAir'
  BY <1>3 DEF IInv, OneOnAir, AirEnd, app_mesh_send_user_adv_packet, Idle
<1> QED BY <1>1, <1>2, <1>4 DEF IInv, Stage

-----------------------------------------------------------------------------
(***************************************************************************)
(* The delivery of the first event.                                        *)
(***************************************************************************)

\* What the taking of an event leaves of the predicates about the others.
LEMMA Moved ==
    ASSUME TypeOK, evts # <<>>, evts' = Tail(evts)
    PROVE  /\ \A but : NoneBut(but) => \A rest : (\A i \in but \ {1} : i - 1 \in rest) => NoneBut(rest)'
           /\ \A l : \A k \in Nat \ {0} :
                  slaves' = slaves /\ LinkSince(l, k) => LinkSince(l, k - 1)'
           /\ \A l : slaves' = slaves /\ ~Ended(1, l) /\ LinkSince(l, 0) => LinkSince(l, 0)'
           /\ \A k \in DOMAIN evts : k # 1 =>
                  /\ k - 1 \in DOMAIN evts'
                  /\ Starts(k) => Starts(k - 1)'
                  /\ Raw(k) => Raw(k - 1)' /\ evts'[k - 1].conidx = evts[k].conidx
                  /\ ProxyEnd(k) => ProxyEnd(k - 1)'
<1>1. /\ 1 \in DOMAIN evts
      /\ DOMAIN evts \subseteq Nat \ {0} /\ DOMAIN evts' \subseteq Nat \ {0}
      /\ \A i \in DOMAIN evts' : i + 1 \in DOMAIN evts /\ evts'[i] = evts[i + 1]
      /\ \A i \in DOMAIN evts : i # 1 => i - 1 \in DOMAIN evts' /\ evts'[i - 1] = evts[i]
  BY Taken DEF TypeOK
<1>2. ASSUME NEW but, NoneBut(but), NEW rest, \A i \in but \ {1} : i - 1 \in rest
      PROVE  NoneBut(rest)'
  <2> SUFFICES ASSUME NEW i \in DOMAIN evts', Starts(i)' \/ Raw(i)' \/ ProxyEnd(i)'
               PROVE  i \in rest
    BY DEF NoneBut
  <2>1. i \in Nat \ {0} /\ i + 1 \in DOMAIN evts /\ evts'[i] = evts[i + 1]
    BY <1>1
  <2>2. i + 1 \in but
    BY <1>2, <2>1 DEF NoneBut, Starts, Raw, ProxyEnd
  <2>3. i + 1 # 1 /\ (i + 1) - 1 = i
    BY <2>1
  <2> QED BY <1>2, <2>2, <2>3
<1>3. ASSUME NEW l, NEW k \in Nat \ {0}, slaves' = slaves, LinkSince(l, k)
      PROVE  LinkSince(l, k - 1)'
  <2>1. ASSUME NEW i \in DOMAIN evts, i > k, Ended(i, l)
        PROVE  \E j \in DOMAIN evts' : j > k - 1 /\ Ended(j, l)'
    <3>1. i # 1 /\ i - 1 > k - 1
      BY <1>1, <2>1
    <3>2. i - 1 \in DOMAIN evts' /\ Ended(i - 1, l)'
      BY <1>1, <2>1, <3>1 DEF Ended
    <3> QED BY <3>1, <3>2
  <2>2. ASSUME NEW j \in DOMAIN evts', j > k - 1, Ended(j, l)'
        PROVE  \E i \in DOMAIN evts : i > k /\ Ended(i, l)
    <3>1. j + 1 > k
      BY <1>1, <2>2
    <3>2. j + 1 \in DOMAIN evts /\ Ended(j + 1, l)
      BY <1>1, <2>2 DEF Ended
    <3> QED BY <3>1, <3>2
  <2> QED BY <1>3, <2>1, <2>2 DEF LinkSince
<1>4. ASSUME NEW l, slaves' = slaves, ~Ended(1, l), LinkSince(l, 0)
      PROVE  LinkSince(l, 0)'
  <2>1. ASSUME NEW i \in DOMAIN evts, Ended(i, l)
        PROVE  \E j \in DOMAIN evts' : j > 0 /\ Ended(j, l)'
    <3>1. i # 1
      BY <1>4, <2>1
    <3>2. i - 1 \in DOMAIN evts' /\ i - 1 > 0 /\ Ended(i - 1, l)'
      BY <1>1, <2>1, <3>1 DEF Ended
    <3> QED BY <3>2
  <2>2. ASSUME NEW j \in DOMAIN evts', Ended(j, l)'
        PROVE  \E i \in DOMAIN evts : i > 0 /\ Ended(i, l)
    <3>1. j + 1 \in DOMAIN evts /\ j + 1 > 0 /\ Ended(j + 1, l)
      BY <1>1, <2>2 DEF Ended
    <3> QED BY <3>1
  <2> QED BY <1>4, <2>1, <2>2 DEF LinkSince
<1>5. ASSUME NEW k \in DOMAIN evts, k # 1
      PROVE  /\ k - 1 \in DOMAIN evts'
             /\ Starts(k) => Starts(k - 1)'
             /\ Raw(k) => Raw(k - 1)' /\ evts'[k - 1].conidx = evts[k].conidx
             /\ ProxyEnd(k) => ProxyEnd(k - 1)'
  BY <1>1, <1>5 DEF Starts, Raw, ProxyEnd
<1> QED BY <1>2, <1>3, <1>4, <1>5

\* Most events do nothing to the advertising.
LEMMA OtherEvents ==
    ASSUME TypeOK, Deliver, ~Starts(1), ~Raw(1), ~ProxyEnd(1),
           ~(adv_stopped /\ Ended(1, slave_link_conidx))
    PROVE  UNCHANGED <<slaves, adv, adv_stopped, slave_link_conidx, slave_link_conidx_tmp>>
<1>1. Head(evts) = evts[1]
  BY Taken DEF Deliver, TypeOK
<1>2. slaves' = slaves
  BY DEF Deliver, layer
<1>3. CASE GAP_EVT_ADV_END(evts[1])
  BY <1>2, <1>3 DEF GAP_EVT_ADV_END, ProxyEnd, proxy
<1>4. CASE GAP_EVT_DISCONNECT(evts[1])
  BY <1>2, <1>4 DEF GAP_EVT_DISCONNECT, EndsProxyLink, Ended
<1>5. ~GAP_EVT_ALL_SVC_ADDED(evts[1]) /\ ~GAP_EVT_SLAVE_RAW_CONNECT(evts[1])
  BY DEF GAP_EVT_ALL_SVC_ADDED, GAP_EVT_SLAVE_RAW_CONNECT, Starts, Raw
<1> QED BY <1>1, <1>3, <1>4, <1>5 DEF Deliver

LEMMA DeliverKeepsStage ==
    ASSUME IInv, Deliver PROVE Stage'
<1>1. TypeOK /\ evts # <<>> /\ evts' = Tail(evts) /\ slaves' = slaves
  BY DEF IInv, Deliver, layer
<1>2. /\ Head(evts) = evts[1] /\ evts[1] \in Event /\ 1 \in DOMAIN evts
      /\ DOMAIN evts \subseteq Nat \ {0} /\ (evts' = <<>> <=> DOMAIN evts' = {})
  BY <1>1, Taken DEF TypeOK
<1>3. CASE Booting
  <2>1. PICK k \in DOMAIN evts : Starts(k) /\ NoneBut({k})
    BY <1>3 DEF Booting
  <2>2. CASE k = 1
    <3>1. GAP_EVT_ALL_SVC_ADDED(evts[1])
      BY <1>2, <2>1, <2>2 DEF Starts, Deliver, GAP_EVT_ADV_END, GAP_EVT_ALL_SVC_ADDED,
                              GAP_EVT_SLAVE_RAW_CONNECT, GAP_EVT_DISCONNECT
    <3>2. NoneBut({})'
      BY <1>1, <2>1, <2>2, Moved
    <3> QED BY <1>1, <1>3, <3>1, <3>2 DEF Booting, Advertising, Stage,
                                          GAP_EVT_ALL_SVC_ADDED, sp_start_adv
  <2>3. CASE k # 1
    <3>1. ~Starts(1) /\ ~Raw(1) /\ ~ProxyEnd(1)
      BY <1>2, <2>1, <2>3 DEF NoneBut
    <3>2. UNCHANGED <<slaves, adv, adv_stopped, slave_link_conidx, slave_link_conidx_tmp>>
      BY <1>1, <1>3, <3>1, OtherEvents DEF Booting
    <3>3. k - 1 \in DOMAIN evts' /\ Starts(k - 1)' /\ NoneBut({k - 1})'
      BY <1>1, <2>1, <2>3, Moved
    <3> QED BY <1>3, <3>2, <3>3 DEF Booting, Stage
  <2> QED BY <2>2, <2>3
<1>4. CASE Advertising
  <2>1. ~Starts(1) /\ ~Raw(1) /\ ~ProxyEnd(1)
    BY <1>2, <1>4 DEF Advertising, NoneBut
  <2>2. UNCHANGED <<slaves, adv, adv_stopped, slave_link_conidx, slave_link_conidx_tmp>>
    BY <1>1, <1>4, <2>1, OtherEvents DEF Advertising
  <2>3. NoneBut({})'
    BY <1>1, <1>4, Moved DEF Advertising
  <2> QED BY <1>4, <2>2, <2>3 DEF Advertising, Stage
<1>5. CASE Connected
  <2>1. PICK k \in DOMAIN evts :
           /\ Raw(k) /\ k + 1 \in DOMAIN evts /\ ProxyEnd(k + 1) /\ NoneBut({k, k + 1})
           /\ LinkSince(evts[k].conidx, k + 1)
    BY <1>5 DEF Connected
  <2> PICK c : c = evts[k].conidx
    OBVIOUS
  <2>2. k \in Nat \ {0} /\ k + 1 # 1 /\ (k + 1) - 1 = k /\ k + 1 \in Nat \ {0}
    BY <1>2
  <2>3. k \in DOMAIN evts' /\ ProxyEnd(k)' /\ LinkSince(c, k)'
    BY <1>1, <2>1, <2>2, Moved
  <2>4. c \in Links
    BY <2>1, <1>1, ElementOfSeq, LenProperties DEF TypeOK, Event, Raw
  <2>5. CASE k = 1
    <3>1. GAP_EVT_SLAVE_RAW_CONNECT(evts[1])
      BY <1>2, <2>1, <2>5 DEF Raw, Deliver, GAP_EVT_ADV_END, GAP_EVT_ALL_SVC_ADDED,
                              GAP_EVT_SLAVE_RAW_CONNECT, GAP_EVT_DISCONNECT
    <3>2. NoneBut({1})'
      BY <1>1, <2>1, <2>5, Moved
    <3>3. evts' # <<>> /\ slave_link_conidx_tmp' = c
      BY <1>2, <2>3, <2>5, <3>1 DEF GAP_EVT_SLAVE_RAW_CONNECT
    <3> QED BY <1>5, <2>3, <2>4, <2>5, <3>1, <3>2, <3>3
            DEF Connected, Told, Stage, GAP_EVT_SLAVE_RAW_CONNECT
  <2>6. CASE k # 1
    <3>1. ~Starts(1) /\ ~Raw(1) /\ ~ProxyEnd(1)
      BY <1>2, <2>1, <2>2, <2>6 DEF NoneBut
    <3>2. UNCHANGED <<slaves, adv, adv_stopped, slave_link_conidx, slave_link_conidx_tmp>>
      BY <1>1, <1>5, <3>1, OtherEvents DEF Connected
    <3>3. k - 1 \in DOMAIN evts' /\ Raw(k - 1)' /\ evts'[k - 1].conidx = c
      BY <1>1, <2>1, <2>6, Moved
    <3>4. NoneBut({k - 1, k})'
      BY <1>1, <2>1, <2>2, Moved
    <3>5. (k - 1) + 1 = k
      BY <2>2
    <3> QED BY <1>5, <2>3, <3>2, <3>3, <3>4, <3>5 DEF Connected, Stage
  <2> QED BY <2>5, <2>6
<1>6. CASE Told
  <2> PICK c : c = slave_link_conidx_tmp
    OBVIOUS
  <2>1. GAP_EVT_ADV_END(evts[1]) /\ evts[1].idx = 0
    BY <1>2, <1>6 DEF Told, ProxyEnd, Deliver, GAP_EVT_ADV_END, GAP_EVT_ALL_SVC_ADDED,
                      GAP_EVT_SLAVE_RAW_CONNECT, GAP_EVT_DISCONNECT
  <2>2. NoneBut({})'
    BY <1>1, <1>6, Moved DEF Told
  <2>3. LinkSince(c, 0)'
    <3>1. LinkSince(c, 1 - 1)'
      BY <1>1, <1>6, Moved DEF Told
    <3> QED BY <3>1
  <2>4. adv' = adv /\ adv_stopped' = TRUE /\ slave_link_conidx' = c
    BY <2>1 DEF GAP_EVT_ADV_END
  <2> QED BY <1>6, <2>2, <2>3, <2>4 DEF Told, Known, Stage
<1>7. CASE Known
  <2> PICK c : c = slave_link_conidx
    OBVIOUS
  <2>1. ~Starts(1) /\ ~Raw(1) /\ ~ProxyEnd(1)
    BY <1>2, <1>7 DEF Known, NoneBut
  <2>2. NoneBut({})'
    BY <1>1, <1>7, Moved DEF Known
  <2>3. CASE Ended(1, c)
    <3>1. GAP_EVT_DISCONNECT(evts[1]) /\ EndsProxyLink(evts[1])
      BY <1>2, <1>7, <2>3 DEF Known, Ended, Deliver, GAP_EVT_ADV_END, GAP_EVT_ALL_SVC_ADDED,
                              GAP_EVT_SLAVE_RAW_CONNECT, GAP_EVT_DISCONNECT, EndsProxyLink
    <3>2. slaves = {}
      BY <1>2, <1>7, <2>3 DEF Known, LinkSince
    <3> QED BY <1>1, <2>2, <3>1, <3>2 DEF Advertising, Stage, GAP_EVT_DISCONNECT, sp_start_adv
  <2>4. CASE ~Ended(1, c)
    <3>1. UNCHANGED <<slaves, adv, adv_stopped, slave_link_conidx, slave_link_conidx_tmp>>
      BY <1>1, <2>1, <2>4, OtherEvents
    <3>2. LinkSince(c, 0)'
      BY <1>1, <1>7, <2>4, Moved DEF Known
    <3> QED BY <1>7, <2>2, <3>1, <3>2 DEF Known, Stage
  <2> QED BY <2>3, <2>4
<1> QED BY <1>3, <1>4, <1>5, <1>6, <1>7 DEF IInv

LEMMA DeliverKeeps ==
    ASSUME IInv, Deliver PROVE IInv'
<1>1. TypeOK /\ evts # <<>> /\ evts' = Tail(evts) /\ slaves' = slaves /\ masters' = masters
  BY DEF IInv, Deliver, layer
<1>2. /\ evts' \in Seq(Event) /\ Head(evts) = evts[1] /\ evts[1] \in Event /\ 1 \in DOMAIN evts
      /\ DOMAIN evts \subseteq Nat \ {0} /\ DOMAIN evts' \subseteq Nat \ {0}
      /\ \A i \in DOMAIN evts' : i + 1 \in DOMAIN evts /\ evts'[i] = evts[i + 1]
  BY <1>1, Taken DEF TypeOK
<1>3. waiting # <<>> => Head(waiting) \in Packets /\ Tail(waiting) \in Seq(Packets)
  BY <1>1, HeadTailProperties DEF TypeOK
<1>4. \/ GAP_EVT_ADV_END(evts[1]) \/ GAP_EVT_ALL_SVC_ADDED(evts[1])
      \/ GAP_EVT_SLAVE_RAW_CONNECT(evts[1]) \/ GAP_EVT_DISCONNECT(evts[1])
  BY <1>2 DEF Deliver
<1>5. TypeOK'
  BY <1>1, <1>2, <1>3, <1>4
     DEF TypeOK, Event, GAP_EVT_ADV_END, GAP_EVT_ALL_SVC_ADDED, GAP_EVT_SLAVE_RAW_CONNECT,
         GAP_EVT_DISCONNECT, app_mesh_send_user_adv_end, sp_start_adv, proxy, queue
<1>6. OneOnAir'
  <2>1. \A i \in DOMAIN evts' : AirEnd(i)' <=> AirEnd(i + 1)
    BY <1>2 DEF AirEnd
  <2>2. CASE AirEnd(1)
    <3>1. app_mesh_send_user_adv_end
      BY <1>4, <2>2 DEF AirEnd, GAP_EVT_ADV_END, GAP_EVT_ALL_SVC_ADDED,
                        GAP_EVT_SLAVE_RAW_CONNECT, GAP_EVT_DISCONNECT
    <3>2. \A i \in DOMAIN evts' : ~AirEnd(i)'
      BY <1>2, <2>1, <2>2 DEF IInv, OneOnAir
    <3>3. air = NoPacket /\ NoPacket \notin Packets
      BY <1>2, <2>2, GapAssumption DEF IInv, OneOnAir
    <3> QED BY <1>3, <3>1, <3>2, <3>3 DEF OneOnAir, app_mesh_send_user_adv_end
  <2>3. CASE ~AirEnd(1)
    <3>1. UNCHANGED queue
      BY <1>2, <1>4, <2>3
         DEF AirEnd, Event, GAP_EVT_ADV_END, GAP_EVT_ALL_SVC_ADDED,
             GAP_EVT_SLAVE_RAW_CONNECT, GAP_EVT_DISCONNECT
    <3>2. \A i, j \in DOMAIN evts' : AirEnd(i)' /\ AirEnd(j)' => i = j
      <4> SUFFICES ASSUME NEW i \in DOMAIN evts', NEW j \in DOMAIN evts', AirEnd(i)', AirEnd(j)'
                   PROVE  i = j
        OBVIOUS
      <4>1. i + 1 = j + 1
        BY <1>2, <2>1 DEF IInv, OneOnAir
      <4> QED BY <1>2, <4>1
    <3>3. \A i \in DOMAIN evts' : AirEnd(i)' => sending' /\ air' = NoPacket
      BY <1>2, <2>1, <3>1 DEF IInv, OneOnAir, queue
    <3> QED BY <3>1, <3>2, <3>3 DEF IInv, OneOnAir, queue
  <2> QED BY <2>2, <2>3
<1> QED BY <1>1, <1>5, <1>6, DeliverKeepsStage DEF IInv, Stage

-----------------------------------------------------------------------------
LEMMA Keeps == IInv /\ [Next]_vars => IInv'
<1> SUFFICES ASSUME IInv, [Next]_vars PROVE IInv'
  OBVIOUS
<1>1. CASE Deliver
  BY <1>1, DeliverKeeps
<1>2. CASE AirEnds
  BY <1>2, AirEndsKeeps
<1>3. CASE \E p \in Packets : app_mesh_send_user_adv_packet(p)
  BY <1>3, SendKeeps
<1>4. CASE \E l \in Links : SlaveConnects(l) \/ MasterConnects(l) \/ LinkEnds(l)
  BY <1>4, SlaveConnectsKeeps, MasterConnectsKeeps, LinkEndsKeeps
<1>5. CASE UNCHANGED vars
  <2>1. TypeOK' /\ (slaves \cap masters = {})' /\ OneOnAir'
    BY <1>5 DEF vars, IInv, TypeOK, OneOnAir, AirEnd
  <2>2. Stage'
    BY <1>5, StageStays DEF vars, IInv, Stage
  <2> QED BY <2>1, <2>2 DEF IInv, Stage
<1> QED BY <1>1, <1>2, <1>3, <1>4, <1>5 DEF Next

\* The events under way always tell how the advertising and its link are, and
\* that a user advertisement is on air, for any number of links and events
\* (proj_main.c:129-208).
THEOREM Inductive == Spec => []IInv
<1>1. Init => IInv
  BY Begins
<1>2. IInv /\ [Next]_vars => IInv'
  BY Keeps
<1> QED BY <1>1, <1>2, PTL DEF Spec

\* When all events are delivered, the node advertises or its link by way of
\* the advertising exists and is the one the program knows (proj_main.c:171-203).
THEOREM ReachableAlways == Spec => []Reachable
<1>1. IInv => Reachable
  BY DEF IInv, Reachable, Booting, Advertising, Connected, Told, Known, LinkSince
<1> QED BY <1>1, Inductive, PTL

\* User advertisements go on air one at a time and in the order of the calls,
\* for any number of them (sig_mesh_led.c:835-891).
THEOREM InTurnAlways == Spec => InTurn
<1>1. Init => Fifo!Init
  BY DEF Init, Fifo!Init
<1>2. IInv /\ [Next]_vars => [Fifo!Next]_<<waiting, air>>
  <2> SUFFICES ASSUME IInv, [Next]_vars PROVE [Fifo!Next]_<<waiting, air>>
    OBVIOUS
  <2>1. CASE Deliver
    <3>1. Head(evts) = evts[1] /\ 1 \in DOMAIN evts /\ evts[1] \in Event
      BY <2>1, Taken DEF IInv, TypeOK, Deliver
    <3>2. CASE UNCHANGED queue
      BY <3>2 DEF queue
    <3>3. CASE GAP_EVT_ADV_END(evts[1]) /\ app_mesh_send_user_adv_end
      <4>1. CASE AirEnd(1)
        BY <3>1, <3>3, <4>1 DEF IInv, OneOnAir, app_mesh_send_user_adv_end, Fifo!Next, Fifo!Send
      <4>2. CASE ~AirEnd(1)
        BY <3>1, <3>2, <3>3, <4>2 DEF AirEnd, Event, GAP_EVT_ADV_END
      <4> QED BY <4>1, <4>2
    <3> QED BY <2>1, <3>1, <3>2, <3>3
            DEF Deliver, GAP_EVT_ADV_END, GAP_EVT_ALL_SVC_ADDED, GAP_EVT_SLAVE_RAW_CONNECT,
                GAP_EVT_DISCONNECT
  <2>2. CASE AirEnds
    BY <2>2 DEF AirEnds, Fifo!Next, Fifo!End
  <2>3. ASSUME NEW p \in Packets, app_mesh_send_user_adv_packet(p)
        PROVE  Fifo!Next
    BY <2>3 DEF IInv, OneOnAir, app_mesh_send_user_adv_packet, Idle, Fifo!Next, Fifo!Accept,
                Fifo!AcceptAndSend
  <2>4. CASE \E l \in Links : SlaveConnects(l) \/ MasterConnects(l) \/ LinkEnds(l)
    BY <2>4 DEF SlaveConnects, MasterConnects, LinkEnds, queue
  <2>5. CASE UNCHANGED vars
    BY <2>5 DEF vars
  <2> QED BY <2>1, <2>2, <2>3, <2>4, <2>5 DEF Next
<1> QED BY <1>1, <1>2, Inductive, PTL DEF Spec, InTurn, Fifo!Spec
=============================================================================
