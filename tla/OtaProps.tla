------------------------------ MODULE OtaProps ------------------------------
(***************************************************************************)
(* What the update over the air promises.                                  *)
(***************************************************************************)
EXTENDS Ota

TypeOK ==
    /\ flash \in [Addr -> Cell] /\ cur \in {0, 1}
    /\ first_loop \in BOOLEAN /\ ota_state \in {0, 1} /\ timer \in BOOLEAN
    /\ check \in [addr : Nat, len : Nat]
    /\ first_pkt \in [held : BOOLEAN, data : Seq(Cell), num : Nat]
    /\ recving \in [cmd : Write \cup {NoCmd}, head : BOOLEAN]
    /\ rbuf \in BOOLEAN /\ pc \in {"idle", "header", "reset"}
    /\ links \subseteq Links /\ ntf \in BOOLEAN
    /\ peer \in [img : Images, base : {0, BankLen}, step : 1 .. Last,
                 sent : BOOLEAN, waits : BOOLEAN, gone : BOOLEAN]
    /\ clean \in BOOLEAN /\ disturb \in 0 .. MaxDisturb

\* Bank b holds every unit of image i.
Holds(f, b, i) ==
    \A u \in 0 .. ImageLen - 1 :
        LET c == f[b * BankLen + u]
        IN  c \notin {Erased, Junk} /\ c.img = i /\ c.unit = u

(***************************************************************************)
(* Whenever the power fails, the ROM finds an image to boot, and the one   *)
(* it boots is complete: no header with the higher version stands before   *)
(* an image of which a part is missing (ota.c:440-470, 489-520).  This is  *)
(* so as long as no packet is assembled without its first part (HeadKept,  *)
(* below): in a small instance the bounds keep such a packet from harm, in *)
(* a larger one they do not.                                               *)
(***************************************************************************)
BootsIntact ==
    /\ Boot(flash) \in {0, 1}
    /\ \E i \in Images : Holds(flash, Boot(flash), i)

(***************************************************************************)
(* An update that begins its session and that nothing disturbs - no event  *)
(* of any link, no pause of 5 s, no retry, no power failure - succeeds:    *)
(* the reset that ends it boots the other bank.  The session that another  *)
(* link has closed before the first packet was kept is excluded: its guard *)
(* stays closed until the peer connects again.                             *)
(***************************************************************************)
UndisturbedInstalls == (pc = "reset" /\ clean) => Boot(flash) = 1 - cur

(***************************************************************************)
(* The guard that lets flash be written below the user data is open only   *)
(* while the timer runs that closes it (ota.c:215-247, patch.c:368).       *)
(***************************************************************************)
GuardIsTimed == ota_state = 1 => timer

(***************************************************************************)
(* Once the peer has gone, the guard is closed and the packets in RAM are  *)
(* freed.                                                                  *)
(***************************************************************************)
Closes == peer.gone ~> (ota_state = 0 /\ ~first_pkt.held)

(***************************************************************************)
(* "write data from 256 ~ rsp_hdr->rsp.write_data.length *                 *)
(* first_pkt.malloced_pkt_num" (ota.c:449): the kept packets are as many   *)
(* as were allocated.  A peer that repeats a packet because its answer was *)
(* lost has it kept twice.                                                 *)
(***************************************************************************)
KeptFits == first_pkt.held => Len(first_pkt.data) <= PacketLen * first_pkt.num
-----------------------------------------------------------------------------
(***************************************************************************)
(* The inductive invariant behind BootsIntact and RunningUntouched         *)
(* (OtaHistory), for behaviours in which HeadKept holds and a peer that does not repeat the  *)
(* packets of the header page.                                             *)
(***************************************************************************)
\* The contents that a packet may have.
Units == Content \cup {Junk}

\* No packet is assembled whose first part was lost with the buffer: what
\* such a packet holds, no handler has written.
HeadKept == recving # NotReceiving => recving.head

\* The length of the first packet; how many of them hold the header page.
First == IF ImageLen < PacketLen THEN ImageLen ELSE PacketLen
NumFirst == RoundUp(HeaderLen, First)

(***************************************************************************)
(* Which bank boots.  Bank b is whole; a header in the other bank is older *)
(* or can never be completed, because a unit of its page is wrong.         *)
(***************************************************************************)
Whole(f, b) == \E i \in Images : Holds(f, b, i)

Rival(f, b) ==
    /\ f[(1 - b) * BankLen] \notin {Erased, Junk}
    /\ VersionIn(f, 1 - b) >= VersionIn(f, b)

Wrong(f, b, u) ==
    LET c == f[b * BankLen + u]
    IN  /\ c # Erased
        /\ c = Junk \/ c.img # f[b * BankLen].img \/ c.unit # u

Spoilt(f, b) == \E u \in 0 .. HeaderLen - 1 : Wrong(f, b, u)

Fine(f, b) == Whole(f, b) /\ (Rival(f, b) => Spoilt(f, 1 - b))

(***************************************************************************)
(* The packets that are kept.                                              *)
(***************************************************************************)
\* Units of one image only; a first unit that is above the running version.
Of(s, i) == \A k \in 1 .. Len(s) : s[k] # Junk => s[k].img = i
High(h) == h = Junk \/ h.ver > VersionIn(flash, cur)

\* The kept packets are of the full length, and once they hold the header
\* page, its version has been raised.
KeptOK(q) ==
    /\ q \in [held : BOOLEAN, data : Seq(Units), num : Nat]
    /\ ~q.held => q = NoPkt
    /\ q.held => /\ peer.base = Base /\ q.num = NumFirst
                 /\ \E k \in Nat : /\ Len(q.data) = k * First
                                   /\ k >= NumFirst => High(q.data[1])

\* The place in the image of the packet of a step.
From == (peer.step - Sectors - 2) * PacketLen

\* The state of the flash; the header page and the image behind it when the
\* header is about to be written.
FlashInv ==
    /\ flash \in [Addr -> Cell] /\ cur \in {0, 1}
    /\ pc \in {"idle", "header", "reset"}
    /\ IF pc = "reset" THEN \E b \in {0, 1} : Fine(flash, b) ELSE Fine(flash, cur)

HeaderInv ==
    pc = "header" =>
        /\ \A u \in 0 .. HeaderLen - 1 : flash[Base + u] = Erased
        /\ \E i \in Images :
              /\ \A u \in HeaderLen .. ImageLen - 1 : flash[Base + u] = Unit(i, u)
              /\ Of(first_pkt.data, i)

\* The peer and the long packet that is under way.
PeerInv ==
    /\ peer \in [img : Images, base : {0, BankLen}, step : 1 .. Last,
                 sent : BOOLEAN, waits : BOOLEAN, gone : BOOLEAN]
    /\ (pc # "idle" \/ Phone \notin links) => recving = NotReceiving
    /\ Phone \notin links => ~first_pkt.held
    /\ peer.sent => recving # NotReceiving /\ recving.cmd = Script(peer.step)
    /\ recving = NotReceiving \/ peer.sent \/ peer.step = 1
    /\ recving # NotReceiving =>
          \E j \in 0 .. Packets - 1, i \in Images :
              recving = [cmd |-> [op |-> "write", addr |-> peer.base + j * PacketLen,
                                  data |-> Packet(i, j * PacketLen)],
                         head |-> TRUE]

\* The packets kept are no more than the peer has sent since they are kept,
\* and of one image as long as the update goes on.
PktInv ==
    /\ KeptOK(first_pkt)
    /\ (first_pkt.held /\ peer.step > 1) =>
          /\ Of(first_pkt.data, peer.img)
          /\ Len(first_pkt.data) <= From + (IF peer.waits THEN First ELSE 0)
    /\ (first_pkt.held /\ recving # NotReceiving) =>
          Len(first_pkt.data) <= recving.cmd.addr - Base

OtaInv == FlashInv /\ HeaderInv /\ PeerInv /\ PktInv
\* No more packets are kept than hold the header page.
KeptBound == first_pkt.held => Len(first_pkt.data) <= NumFirst * First
-----------------------------------------------------------------------------
(***************************************************************************)
(* The inductive invariant behind UndisturbedInstalls, for an image that   *)
(* is not shorter than the packets that hold its header page: what a       *)
(* session that nothing disturbs has erased, kept and written so far.      *)
(***************************************************************************)
LongImage == NumFirst * PacketLen <= ImageLen

\* The packets that have been sent.
Written == peer.step - Sectors - 2

\* Units s begin the image i; the version in its header may have been raised.
Begins(s, i) ==
    \A u \in 0 .. Len(s) - 1 :
        IF u = 0 THEN s[1] \in Content /\ s[1].img = i /\ s[1].unit = 0
        ELSE s[u + 1] = Unit(i, u)

\* Behind the header page, image i up to unit n and erased flash from there.
Behind(f, i, n) ==
    \A u \in HeaderLen .. ImageLen - 1 :
        f[Base + u] = IF u < n THEN Unit(i, u) ELSE Erased

\* The guard is open, and every command has been answered.
Going == ntf /\ rbuf /\ ota_state = 1 /\ ~peer.waits /\ peer.base = Base

Erasing ==
    peer.step \in 2 .. Sectors + 1 =>
        /\ check.addr = Base /\ ~first_pkt.held
        /\ \A u \in HeaderLen .. ImageLen - 1 :
              u < (peer.step - 2) * SectorLen => flash[Base + u] = Erased

Writing ==
    peer.step > Sectors + 1 =>
        /\ IF Written = 0 THEN check.addr = Base /\ ~first_pkt.held
           ELSE /\ first_pkt.held /\ Begins(first_pkt.data, peer.img)
                /\ Len(first_pkt.data) =
                      PacketLen * (IF Written < NumFirst THEN Written ELSE NumFirst)
                /\ From < ImageLen =>
                      check = [addr |-> Base + From - PacketLen, len |-> PacketLen]
        /\ Behind(flash, peer.img, IF Written < NumFirst THEN 0 ELSE From)

Session ==
    (clean /\ pc = "idle") =>
        IF peer.step = 1 THEN peer.waits ELSE Going /\ Erasing /\ Writing

\* The check has succeeded, and the kept packets complete the image.
Checked ==
    (clean /\ pc = "header") =>
        /\ ota_state = 1 /\ first_pkt.held /\ Len(first_pkt.data) = NumFirst * PacketLen
        /\ \E i \in Images : Begins(first_pkt.data, i) /\ Behind(flash, i, ImageLen)

CleanInv == Session /\ Checked /\ UndisturbedInstalls
=============================================================================
