-------------------------------- MODULE Ota --------------------------------
(***************************************************************************)
(* The firmware update over the air (ble_ota/ota.c with the link events of *)
(* ota_service.c and the flash guard of patch.c).  Flash holds two banks;  *)
(* the program runs from one and stores an image that a peer sends into    *)
(* the other.  The packets with the image header are kept in RAM and       *)
(* written last, after a check of the rest; the ROM boots the bank with    *)
(* the higher version.                                                     *)
(*                                                                         *)
(* One session state serves all links.  Handlers run to completion, one    *)
(* step each, except the REBOOT command, which is one step per flash       *)
(* operation; a power failure can cut any flash operation.  Addresses and  *)
(* lengths are counted in units of which a header page holds HeaderLen.    *)
(***************************************************************************)
EXTENDS Integers, Sequences, FiniteSets

CONSTANTS Images, Factory,   \* images; the one in the first bank at the start
          Version,           \* the version an image is built with
          BankLen,           \* image_size of the jump table
          ImageLen,          \* length of an image
          HeaderLen,         \* 256 bytes: a flash page, the image header
          SectorLen,         \* 4096 bytes
          PacketLen,         \* length of the packets the peer sends
          Links, Phone,      \* connections; the one of the peer that updates
          ResendFirst,       \* whether the peer also repeats buffered packets
          MaxVersion,        \* bound: the peer stops at this version
          MaxDisturb,        \* bound: link, power and peer events of a run
          Erased, Junk,      \* contents of a unit: erased, or of no image
          NoCmd

\* What a unit of the flash holds; a write command.
Content == [img : Images, unit : Nat, ver : Nat]
Cell == {Erased, Junk} \cup Content
Write == [op : {"write"}, addr : Nat, data : Seq(Cell)]

ASSUME OtaConstants ==
    /\ {BankLen, ImageLen, HeaderLen, SectorLen, PacketLen} \subseteq Nat \ {0}
    /\ HeaderLen < SectorLen /\ HeaderLen < ImageLen /\ ImageLen <= BankLen
    /\ BankLen % SectorLen = 0
    /\ Factory \in Images /\ Version \in [Images -> Nat \ {0}]
    /\ Phone \in Links /\ ResendFirst \in BOOLEAN
    /\ MaxVersion \in Nat /\ MaxDisturb \in Nat
    /\ Erased # Junk /\ Erased \notin Content /\ Junk \notin Content
    /\ NoCmd \notin Write

VARIABLES flash, cur,        \* unit contents; the bank that runs
          first_loop, ota_state, timer,
          check,             \* ota_addr_check and ota_addr_check_len
          first_pkt,         \* the packets kept in RAM
          recving,           \* a long packet whose first part has arrived
          rbuf,              \* ota_recving_buffer is allocated
          pc,                \* in the REBOOT command: "header", then "reset"
          links,
          ntf,               \* ota_link_ntf_enable: answers are sent
          peer,
          clean,             \* nothing disturbed the session since its start
          disturb

ram == <<first_loop, ota_state, timer, check, first_pkt, recving, rbuf>>
vars == <<flash, cur, ram, pc, links, ntf, peer, clean, disturb>>

Addr == 0 .. 2 * BankLen - 1
Bank(b) == b * BankLen .. (b + 1) * BankLen - 1

Unit(i, u) == [img |-> i, unit |-> u, ver |-> IF u = 0 THEN Version[i] ELSE 0]

\* app_otas_get_storage_address: the start of the bank that does not run
Base == (1 - cur) * BankLen

\* Where the ROM finds a header it takes as one: a whole page of one image.
HasHeader(f, b) ==
    \E i \in Images : \A u \in 0 .. HeaderLen - 1 :
        LET c == f[b * BankLen + u]
        IN  /\ c \notin {Erased, Junk}
            /\ c.img = i /\ c.unit = u

VersionIn(f, b) == f[b * BankLen].ver

\* The ROM boots the header with the higher version; -1 if there is none.
Boot(f) ==
    LET found == {b \in {0, 1} : HasHeader(f, b)}
    IN  IF found = {} THEN -1
        ELSE CHOOSE b \in found :
                \A d \in found : VersionIn(f, b) >= VersionIn(f, d)

(***************************************************************************)
(* Flash.  Programming clears bits, so that only an erased unit takes a    *)
(* new content.                                                            *)
(***************************************************************************)
Program(f, d, s) ==
    [a \in Addr |->
        IF a \notin d .. d + Len(s) - 1 \/ f[a] = s[a - d + 1] THEN f[a]
        ELSE IF f[a] = Erased THEN s[a - d + 1] ELSE Junk]

EraseFrom(f, d, n) == [a \in Addr |-> IF a \in d .. d + n - 1 THEN Erased ELSE f[a]]

\* What a power failure leaves on the way from f to g.
Cut(f, g) ==
    {[a \in Addr |-> IF a < p THEN g[a]
                     ELSE IF a = p /\ f[a] # g[a] THEN Junk ELSE f[a]] : p \in Addr}

(***************************************************************************)
(* Session state.                                                          *)
(***************************************************************************)
NoPkt == [held |-> FALSE, data |-> <<>>, num |-> 0]
NotReceiving == [cmd |-> NoCmd, head |-> FALSE]

\* The value of ota_state and of ota_recving_buffer once a packet has begun
\* a session.
Open == IF first_loop THEN 1 ELSE ota_state
Buffer == first_loop \/ rbuf

Begin == /\ first_loop' = FALSE
         /\ ota_state' = Open
         /\ timer' = TRUE
         /\ rbuf' = Buffer

\* ota_init (a link is created)
OtaInit == first_loop' = TRUE /\ check' = [check EXCEPT !.addr = 0]

\* Mutants: the packets in RAM are not freed; the guard is left open.
DeinitKeepsPackets == first_pkt' = first_pkt /\ ota_state' = 0 /\ rbuf' = FALSE
DeinitLeavesGuard == first_pkt' = NoPkt /\ ota_state' = ota_state /\ rbuf' = FALSE

\* ota_deinit (a link is lost); the part of a long packet that was in the
\* buffer is lost with it, ota_recving_data is not reset
OtaDeinit == /\ first_pkt' = NoPkt
             /\ ota_state' = 0
             /\ rbuf' = FALSE

\* ota_stop
OtaStop == OtaInit /\ OtaDeinit /\ timer' = FALSE

Cleared == /\ first_loop' = FALSE /\ ota_state' = 0 /\ timer' = FALSE
           /\ check' = [addr |-> 0, len |-> 0]
           /\ first_pkt' = NoPkt /\ recving' = NotReceiving /\ rbuf' = FALSE

\* A reset with flash content f: the ROM chooses the bank, RAM is cleared.
Reset(f) ==
    /\ flash' = f /\ cur' = Boot(f) /\ Cleared
    /\ pc' = "idle" /\ links' = {} /\ ntf' = FALSE

(***************************************************************************)
(* Commands.                                                               *)
(***************************************************************************)
RoundUp(x, y) == IF x % y # 0 THEN x \div y + 1 ELSE x \div y

\* first_pkt after the check for the packet at the base address
Allocated(c) ==
    IF c.addr = Base /\ ~first_pkt.held
    THEN [held |-> TRUE, data |-> <<>>, num |-> RoundUp(HeaderLen, Len(c.data))]
    ELSE first_pkt

InSequence(c) == c.addr \in {check.addr, check.addr + check.len}

UserData(c) == c.addr >= 2 * BankLen

\* The bound up to which packets are kept: 32-bit arithmetic, and num - 1 is
\* negative as long as no packet has been kept.
Modulus == 4 * BankLen
IsFirst(c) == c.addr <= (Base + Len(c.data) * (Allocated(c).num - 1)) % Modulus

Kept(c) == [Allocated(c) EXCEPT !.data = @ \o c.data]
Full(p, c) == Len(p.data) >= Len(c.data) * p.num

\* The kept header gets a version above the running one.
Bumped(p) ==
    LET h == p.data[1]
        v == VersionIn(flash, cur)
    IN  IF h = Junk \/ h.ver > v THEN p
        ELSE [p EXCEPT !.data[1] = [h EXCEPT !.ver = v + 1]]

Save(f, d, s) == IF Open = 1 THEN Program(f, d, s) ELSE f

WriteFlash(c) ==
    IF UserData(c) \/ ~InSequence(c) THEN flash
    ELSE IF ~IsFirst(c) THEN Save(flash, c.addr, c.data)
    ELSE IF Allocated(c).held /\ Full(Kept(c), c)
         THEN LET s == Kept(c).data
              IN  Save(flash, Base + HeaderLen, SubSeq(s, HeaderLen + 1, Len(s)))
         ELSE flash

WritePkt(c) ==
    IF ~IsFirst(c) \/ ~Allocated(c).held THEN Allocated(c)
    ELSE IF Full(Kept(c), c) THEN Bumped(Kept(c)) ELSE Kept(c)

OTA_CMD_WRITE_DATA(c) ==
    /\ c.op = "write"
    /\ flash' = WriteFlash(c)
    /\ \/ UserData(c) /\ Begin /\ UNCHANGED <<check, first_pkt>>
       \/ ~UserData(c) /\ ~InSequence(c) /\ OtaStop
       \/ /\ ~UserData(c) /\ InSequence(c) /\ Begin
          /\ check' = [addr |-> c.addr, len |-> Len(c.data)]
          /\ first_pkt' = WritePkt(c)
    /\ UNCHANGED pc

OTA_CMD_GET_STR_BASE(c) ==
    /\ c.op = "base"
    /\ ota_state' = Open /\ timer' = TRUE /\ rbuf' = Buffer
    /\ first_loop' = first_pkt.held
    /\ first_pkt' = NoPkt
    /\ check' = [check EXCEPT !.addr = Base]
    /\ UNCHANGED <<flash, pc>>

\* Mutant: the first address of the second bank is not refused.
RefusedBehind(c) == IF cur = 0 THEN c.addr < BankLen ELSE c.addr > BankLen

\* The bank that runs is refused; in the first sector the header page stays.
EraseRefused(c) == IF cur = 0 THEN c.addr < BankLen ELSE c.addr >= BankLen

ErasedFlash(c) ==
    IF EraseRefused(c) THEN flash
    ELSE IF c.addr = Base
         THEN EraseFrom(flash, Base + HeaderLen, SectorLen - HeaderLen)
    ELSE IF Open = 1 THEN EraseFrom(flash, c.addr, SectorLen) ELSE flash

\* A refused erase also asks for the end of the link (ota.c:363, 371): the
\* link's end is GATTC_MSG_LINK_LOST, which may happen at any time.
OTA_CMD_PAGE_ERASE(c) ==
    /\ c.op = "erase"
    /\ flash' = ErasedFlash(c)
    /\ Begin
    /\ UNCHANGED <<check, first_pkt, pc>>

\* The commands that only read.
OTA_CMD_READ_FW_VER(c) ==
    /\ c.op = "version"
    /\ Begin
    /\ UNCHANGED <<flash, check, first_pkt, pc>>

\* Mutant: the check begins a unit late.
CrcLate(c) == \A u \in HeaderLen + 1 .. ImageLen - 1 : flash[Base + u] = Unit(c.img, u)

\* app_otas_crc_cal: all but the header page, read back from the flash
CrcMatches(c) ==
    \A u \in HeaderLen .. ImageLen - 1 : flash[Base + u] = Unit(c.img, u)

\* Mutant: the header page is not erased before it is written.
RebootKeepsHeader(c) == flash
RebootFlash(c) ==
    IF first_pkt.held /\ CrcMatches(c)
    THEN EraseFrom(flash, Base, HeaderLen) ELSE flash

\* From here only a power failure interferes: the header is written and the
\* chip reset without returning to the stack.
OTA_CMD_REBOOT(c) ==
    /\ c.op = "reboot"
    /\ flash' = RebootFlash(c)
    /\ pc' = IF first_pkt.held /\ CrcMatches(c) THEN "header" ELSE "reset"
    /\ IF first_pkt.held /\ ~CrcMatches(c) THEN OtaStop
       ELSE Begin /\ UNCHANGED <<check, first_pkt>>

HeaderPage ==
    [u \in 1 .. HeaderLen |->
        IF u \in DOMAIN first_pkt.data THEN first_pkt.data[u] ELSE Junk]

HeaderFlash == Save(flash, Base, HeaderPage)

WriteHeader ==
    /\ pc = "header"
    /\ flash' = HeaderFlash
    /\ pc' = "reset"
    /\ UNCHANGED <<cur, ram, links, ntf, peer, clean, disturb>>

Restart ==
    /\ pc = "reset"
    /\ Reset(flash)
    /\ clean' = FALSE
    /\ UNCHANGED <<peer, disturb>>

Command(c) ==
    \/ OTA_CMD_WRITE_DATA(c) \/ OTA_CMD_GET_STR_BASE(c) \/ OTA_CMD_PAGE_ERASE(c)
    \/ OTA_CMD_READ_FW_VER(c) \/ OTA_CMD_REBOOT(c)

\* The flash after command c, for a power failure inside it.
FlashAfter(c) ==
    CASE c.op = "write" -> WriteFlash(c)
      [] c.op = "erase" -> ErasedFlash(c)
      [] c.op = "reboot" -> RebootFlash(c)
      [] OTHER -> flash

(***************************************************************************)
(* The peer asks for the base address, erases, writes in order and reboots *)
(* the node; each command waits for the answer to the one before.  Without *)
(* an answer it may retry or start over.  Connected again, it may resume   *)
(* or begin anew with the base address that it remembers.                  *)
(***************************************************************************)
Sectors == BankLen \div SectorLen
Packets == RoundUp(ImageLen, PacketLen)
Last == Sectors + Packets + 2

Packet(i, from) ==
    LET n == IF ImageLen - from < PacketLen THEN ImageLen - from ELSE PacketLen
    IN  [k \in 1 .. n |-> Unit(i, from + k - 1)]

\* Step s of an update.
Script(s) ==
    CASE s = 1 -> [op |-> "base"]
      [] s \in 2 .. Sectors + 1 ->
            [op |-> "erase", addr |-> peer.base + (s - 2) * SectorLen]
      [] s \in Sectors + 2 .. Last - 1 ->
            LET from == (s - Sectors - 2) * PacketLen
            IN  [op |-> "write", addr |-> peer.base + from,
                 data |-> Packet(peer.img, from)]
      [] OTHER -> [op |-> "reboot", img |-> peer.img]

\* Command d, executed in place of the c that was sent, is answered as c.
Answered(c, d) ==
    /\ ntf /\ c.op = d.op
    /\ d.op = "write" => c.addr = d.addr /\ (UserData(d) \/ InSequence(d))

\* The peer after that.
Advanced(c, d) ==
    IF c.op = "reboot" THEN [peer EXCEPT !.step = 1]
    ELSE IF ~Answered(c, d) THEN [peer EXCEPT !.waits = TRUE]
    ELSE IF c.op = "base" THEN [peer EXCEPT !.base = Base, !.step = 2]
    ELSE [peer EXCEPT !.step = @ + 1]

Online == pc = "idle" /\ Phone \in links /\ ~peer.gone

CanSend == Online /\ ~peer.sent /\ (peer.step = 1 => VersionIn(flash, cur) < MaxVersion)
Ready == CanSend /\ ~peer.waits

Disturb == disturb < MaxDisturb /\ disturb' = disturb + 1

\* A command arrives and is executed.
Receive ==
    LET c == Script(peer.step)
    IN  /\ Ready /\ recving = NotReceiving
        /\ Command(c)
        /\ peer' = Advanced(c, c)
        /\ clean' = (clean \/ (c.op = "base" /\ first_loop))
        /\ UNCHANGED <<cur, links, ntf, recving, disturb>>

Query ==
    /\ Ready /\ recving = NotReceiving
    /\ Command([op |-> "version"])
    /\ UNCHANGED <<cur, links, ntf, recving, peer, clean, disturb>>

\* The first part of a packet that comes in two (OTA_CMD_NULL).
OTA_CMD_NULL ==
    LET c == Script(peer.step)
    IN  /\ Ready /\ recving = NotReceiving /\ c.op = "write"
        /\ Begin
        /\ recving' = [cmd |-> c, head |-> Buffer]
        /\ peer' = [peer EXCEPT !.sent = TRUE]
        /\ UNCHANGED <<flash, cur, check, first_pkt, pc, links, ntf, clean, disturb>>

\* Without a buffer the copy goes to address 0: it has no effect, or is a fault
\* that resets the chip.
NullBuffer ==
    /\ Online /\ ~Buffer
    /\ recving # NotReceiving \/ (Ready /\ Script(peer.step).op = "write")
    /\ Reset(flash)
    /\ peer' = [peer EXCEPT !.sent = FALSE]
    /\ clean' = FALSE
    /\ UNCHANGED disturb

Garbage(n) == [k \in 1 .. n |-> Junk]

(***************************************************************************)
(* What the buffer holds when the expected length has arrived: the packet, *)
(* or where the first part was lost with the buffer, what the allocation   *)
(* found there.  Its address and its length are then any 32-bit and any    *)
(* 16-bit value, which the code does not compare with what has arrived     *)
(* (ota.c:398, 453).  The model has the addresses of both banks and the    *)
(* first behind them, and two lengths: a unit, and a packet; a length      *)
(* beyond the buffer is left out.  SubSeq in WriteFlash is empty where the *)
(* kept data is shorter than the page; the code's subtraction there        *)
(* (ota.c:450) would wrap.  Only packets of a wrong length can bring that  *)
(* about (under HeadKept of OtaProps the kept data is longer).             *)
(***************************************************************************)
Assembled ==
    IF recving.head THEN {recving.cmd}
    ELSE {[op |-> "write", addr |-> a, data |-> Garbage(n)] :
             a \in 0 .. 2 * BankLen, n \in {1, PacketLen}}

\* The second part arrives.
Tail2 ==
    /\ Online /\ peer.sent
    /\ \E d \in Assembled :
          /\ Command(d)
          /\ peer' = [Advanced(Script(peer.step), d) EXCEPT !.sent = FALSE]
    /\ recving' = NotReceiving
    /\ UNCHANGED <<cur, links, ntf, clean, disturb>>

(***************************************************************************)
(* A command taken for the second part of a packet that was given up:      *)
(* unless its length is the expected one the node goes on waiting.  The    *)
(* copy of such a command advances an index that nothing compares with the *)
(* 512 bytes of the buffer (ota.c:257); what lies behind the buffer is not *)
(* part of the model, so that a copy beyond its end has no effect here.    *)
(***************************************************************************)
Mixed == {[d EXCEPT !.data = Garbage(Len(@))] : d \in Assembled}

Swallowed ==
    LET c == Script(peer.step)
    IN  /\ Ready /\ recving # NotReceiving
        /\ \/ /\ Begin
              /\ UNCHANGED <<flash, check, first_pkt, pc, recving, peer>>
           \/ /\ \E e \in Mixed : Command(e) /\ peer' = Advanced(c, e)
              /\ recving' = NotReceiving
        /\ UNCHANGED <<cur, links, ntf, clean, disturb>>

\* The peer repeats a packet that was not answered.
Repeats(c) ==
    /\ CanSend /\ peer.waits /\ recving = NotReceiving
    /\ c.op = "write" /\ (ResendFirst \/ ~IsFirst(c))

Retry ==
    LET c == Script(peer.step)
    IN  /\ Repeats(c)
        /\ Disturb
        /\ Command(c)
        /\ peer' = IF Answered(c, c) THEN [peer EXCEPT !.step = @ + 1, !.waits = FALSE]
                   ELSE peer
        /\ UNCHANGED <<cur, links, ntf, recving, clean>>

\* The peer enables notifications.
Subscribe ==
    /\ Online /\ ~ntf
    /\ ntf' = TRUE
    /\ UNCHANGED <<flash, cur, ram, pc, links, peer, clean, disturb>>

StartOver ==
    /\ ~peer.gone /\ (peer.waits \/ peer.sent \/ peer.step > 1) /\ Disturb
    /\ \E i \in Images : peer' = [peer EXCEPT !.img = i, !.step = 1, !.sent = FALSE, !.waits = FALSE]
    /\ clean' = FALSE
    /\ UNCHANGED <<flash, cur, ram, pc, links, ntf>>

Leave ==
    /\ ~peer.gone
    /\ peer' = [peer EXCEPT !.gone = TRUE]
    /\ UNCHANGED <<flash, cur, ram, pc, links, ntf, clean, disturb>>

(***************************************************************************)
(* Links, the timer and the power supply.                                  *)
(***************************************************************************)
Lost == recving' = [recving EXCEPT !.head = FALSE]

GATTC_MSG_LINK_CREATE(l) ==
    /\ pc = "idle" /\ l \notin links /\ (l = Phone => ~peer.gone)
    /\ links' = links \cup {l}
    /\ OtaInit
    /\ IF l = Phone
       THEN peer' \in {[peer EXCEPT !.waits = FALSE, !.step = s] : s \in {peer.step, 2}}
       ELSE peer' = peer
    /\ clean' = FALSE
    /\ UNCHANGED <<flash, cur, ota_state, timer, first_pkt, recving, rbuf, pc, ntf,
                   disturb>>

GATTC_MSG_LINK_LOST(l) ==
    /\ pc = "idle" /\ l \in links
    /\ Disturb
    /\ links' = links \ {l}
    /\ OtaDeinit /\ Lost /\ ntf' = FALSE
    /\ first_loop' = (first_loop \/ first_pkt.held)
    /\ peer' = [peer EXCEPT !.sent = @ /\ l # Phone]
    /\ clean' = FALSE
    /\ UNCHANGED <<flash, cur, timer, check, pc>>

os_timer_ota_cb ==
    /\ pc = "idle" /\ timer
    /\ OtaStop /\ Lost
    /\ clean' = FALSE
    /\ UNCHANGED <<flash, cur, pc, links, ntf, peer, disturb>>

\* The commands that may be under way when the power fails.
Executing ==
    IF recving = NotReceiving
    THEN {c \in {Script(peer.step)} : Ready \/ Repeats(c)}
    ELSE IF ~Online THEN {} ELSE IF peer.sent THEN Assembled ELSE Mixed

PowerFail ==
    /\ Disturb
    /\ \/ Reset(flash)
       \/ \E c \in Executing : \E f \in Cut(flash, FlashAfter(c)) : Reset(f)
       \/ pc = "header" /\ \E f \in Cut(flash, HeaderFlash) : Reset(f)
    /\ peer' = [peer EXCEPT !.sent = FALSE]
    /\ clean' = FALSE

Init ==
    /\ flash = [a \in Addr |-> IF a < ImageLen THEN Unit(Factory, a) ELSE Erased]
    /\ cur = 0
    /\ first_loop = FALSE /\ ota_state = 0 /\ timer = FALSE
    /\ check = [addr |-> 0, len |-> 0]
    /\ first_pkt = NoPkt /\ recving = NotReceiving /\ rbuf = FALSE
    /\ pc = "idle" /\ links = {} /\ ntf = FALSE
    /\ peer \in [img : Images, base : {0}, step : {1}, sent : {FALSE},
                 waits : {FALSE}, gone : {FALSE}]
    /\ clean = FALSE /\ disturb = 0

Next ==
    \/ Receive \/ Query \/ OTA_CMD_NULL \/ NullBuffer \/ Tail2 \/ Swallowed
    \/ Retry \/ Subscribe \/ StartOver \/ Leave
    \/ WriteHeader \/ Restart \/ os_timer_ota_cb \/ PowerFail
    \/ \E l \in Links : GATTC_MSG_LINK_CREATE(l) \/ GATTC_MSG_LINK_LOST(l)

Spec == Init /\ [][Next]_vars

\* The timer runs out once nothing restarts it any more.
FairSpec == Spec /\ WF_vars(peer.gone /\ os_timer_ota_cb)
                 /\ WF_vars(WriteHeader) /\ WF_vars(Restart)
=============================================================================
