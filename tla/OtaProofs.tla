----------------------------- MODULE OtaProofs -----------------------------
(***************************************************************************)
(* Theorems about the update, for banks, images and packets of any length  *)
(* and any number of disturbances: the guard of the flash, the image that  *)
(* boots, the bank that runs, the packets that are kept, and the update    *)
(* that nothing disturbs.                                                  *)
(***************************************************************************)
EXTENDS OtaHistory, SequenceTheorems, TLAPS

\* Every command that opens the guard restarts the timer; the others close it.
LEMMA CommandTimes ==
    ASSUME NEW c, Command(c)
    PROVE  GuardIsTimed'
<1>1. CASE OTA_CMD_WRITE_DATA(c)
  <2>1. Begin \/ OtaStop
    BY <1>1 DEF OTA_CMD_WRITE_DATA
  <2> QED BY <2>1 DEF Begin, OtaStop, OtaDeinit, GuardIsTimed
<1>2. CASE OTA_CMD_GET_STR_BASE(c)
  BY <1>2 DEF OTA_CMD_GET_STR_BASE, GuardIsTimed
<1>3. CASE OTA_CMD_PAGE_ERASE(c)
  BY <1>3 DEF OTA_CMD_PAGE_ERASE, Begin, GuardIsTimed
<1>4. CASE OTA_CMD_READ_FW_VER(c)
  BY <1>4 DEF OTA_CMD_READ_FW_VER, Begin, GuardIsTimed
<1>5. CASE OTA_CMD_REBOOT(c)
  <2>1. Begin \/ OtaStop
    BY <1>5 DEF OTA_CMD_REBOOT
  <2> QED BY <2>1 DEF Begin, OtaStop, OtaDeinit, GuardIsTimed
<1> QED BY <1>1, <1>2, <1>3, <1>4, <1>5 DEF Command

\* A reset closes the guard.
LEMMA ResetCloses ==
    ASSUME NEW f, Reset(f)
    PROVE  GuardIsTimed'
BY DEF Reset, Cleared, GuardIsTimed

(***************************************************************************)
(* The guard is never open without the timer that closes it, through any   *)
(* interleaving of commands, links, time-outs and power failures           *)
(* (ota.c:215-247, patch.c:368).                                           *)
(***************************************************************************)
THEOREM GuardIsTimedAlways == Spec => []GuardIsTimed
<1>1. Init => GuardIsTimed
  BY DEF Init, GuardIsTimed
<1>2. GuardIsTimed /\ [Next]_vars => GuardIsTimed'
  <2> SUFFICES ASSUME GuardIsTimed, [Next]_vars PROVE GuardIsTimed'
    OBVIOUS
  <2>1. CASE UNCHANGED vars
    BY <2>1 DEF vars, ram, GuardIsTimed
  <2>2. CASE Receive
    BY <2>2, CommandTimes DEF Receive
  <2>3. CASE Query
    BY <2>3, CommandTimes DEF Query
  <2>4. CASE OTA_CMD_NULL
    BY <2>4 DEF OTA_CMD_NULL, Begin, GuardIsTimed
  <2>5. CASE NullBuffer
    BY <2>5, ResetCloses DEF NullBuffer
  <2>6. CASE Tail2
    BY <2>6, CommandTimes DEF Tail2
  <2>7. CASE Swallowed
    <3>1. Begin \/ \E e : Command(e)
      BY <2>7 DEF Swallowed
    <3> QED BY <3>1, CommandTimes DEF Begin, GuardIsTimed
  <2>8. CASE Retry
    BY <2>8, CommandTimes DEF Retry
  <2>9. CASE Subscribe \/ StartOver \/ Leave \/ WriteHeader
    BY <2>9 DEF Subscribe, StartOver, Leave, WriteHeader, ram, GuardIsTimed
  <2>10. CASE Restart
    BY <2>10, ResetCloses DEF Restart
  <2>11. CASE os_timer_ota_cb
    BY <2>11 DEF os_timer_ota_cb, OtaStop, OtaDeinit, GuardIsTimed
  <2>12. CASE PowerFail
    BY <2>12, ResetCloses DEF PowerFail
  <2>13. ASSUME NEW l \in Links, GATTC_MSG_LINK_CREATE(l) PROVE GuardIsTimed'
    BY <2>13 DEF GATTC_MSG_LINK_CREATE, GuardIsTimed
  <2>14. ASSUME NEW l \in Links, GATTC_MSG_LINK_LOST(l) PROVE GuardIsTimed'
    BY <2>14 DEF GATTC_MSG_LINK_LOST, OtaDeinit, GuardIsTimed
  <2> QED BY <2>1, <2>2, <2>3, <2>4, <2>5, <2>6, <2>7, <2>8, <2>9, <2>10,
             <2>11, <2>12, <2>13, <2>14 DEF Next
<1> QED BY <1>1, <1>2, PTL DEF Spec
-----------------------------------------------------------------------------
(* The packets of an image *)

\* Products of natural numbers.
LEMMA MulMono ==
    ASSUME NEW a \in Nat, NEW b \in Nat, NEW n \in Nat, a <= b
    PROVE  a * n <= b * n
OBVIOUS

LEMMA MulStrict ==
    ASSUME NEW a \in Nat, NEW b \in Nat, NEW n \in Nat \ {0}, a < b
    PROVE  a * n < b * n
OBVIOUS

LEMMA SumBound ==
    ASSUME NEW x \in Nat, NEW y \in Nat, NEW z \in Nat, NEW m \in Nat,
           x <= y, y + z <= m
    PROVE  x + z \in Nat /\ x + z <= m
OBVIOUS

\* The least number of parts of length y that hold x.
LEMMA RoundUpBounds ==
    ASSUME NEW x \in Nat \ {0}, NEW y \in Nat \ {0}
    PROVE  /\ RoundUp(x, y) \in Nat \ {0}
           /\ (RoundUp(x, y) - 1) * y < x
           /\ x <= RoundUp(x, y) * y
<1> DEFINE q == x \div y
           r == x % y
<1>1. q \in Nat /\ r \in 0 .. y - 1 /\ x = q * y + r
  <2>1. q \in Nat /\ r \in Nat /\ r < y
    OBVIOUS
  <2>2. x = q * y + r
    OBVIOUS
  <2> QED BY <2>1, <2>2
<1> HIDE DEF q, r
<1>2. CASE r # 0
  <2>1. RoundUp(x, y) = q + 1
    BY <1>2 DEF RoundUp, q, r
  <2>2. (q + 1) * y = q * y + y /\ (q + 1 - 1) * y = q * y
    BY <1>1
  <2>3. q * y < x /\ x <= q * y + y
    BY <1>1, <1>2
  <2> QED BY <2>1, <2>2, <2>3, <1>1
<1>3. CASE r = 0
  <2>1. RoundUp(x, y) = q
    BY <1>3 DEF RoundUp, q, r
  <2>2. x = q * y
    BY <1>1, <1>3
  <2>3. q # 0
    BY <2>2
  <2>4. (q - 1) * y = q * y - y
    BY <1>1
  <2> QED BY <2>1, <2>2, <2>3, <2>4, <1>1
<1> QED BY <1>2, <1>3

\* The first packets hold the header page, and the last of them begins in it.
LEMMA FirstFacts ==
    /\ First \in Nat \ {0} /\ First <= PacketLen /\ First <= ImageLen
    /\ NumFirst \in Nat \ {0}
    /\ (NumFirst - 1) * First < HeaderLen /\ HeaderLen <= NumFirst * First
<1>1. First \in Nat \ {0} /\ First <= PacketLen /\ First <= ImageLen
  BY OtaConstants DEF First
<1> QED BY <1>1, RoundUpBounds, OtaConstants DEF NumFirst

\* The numbers of sectors and packets.
LEMMA Counts ==
    /\ Sectors \in Nat \ {0} /\ Sectors * SectorLen = BankLen
    /\ Packets \in Nat \ {0} /\ (Packets - 1) * PacketLen < ImageLen
    /\ Last = Sectors + Packets + 2
<1>1. Sectors \in Nat /\ Sectors * SectorLen = BankLen
  BY OtaConstants DEF Sectors
<1>2. Sectors # 0
  BY <1>1, OtaConstants
<1>3. Packets \in Nat \ {0} /\ (Packets - 1) * PacketLen < ImageLen
  BY RoundUpBounds, OtaConstants DEF Packets
<1> QED BY <1>1, <1>2, <1>3 DEF Last

(***************************************************************************)
(* A write of the peer, or what is executed in its place: n units that it  *)
(* means for the place "from" of the image.  Only packets of the full      *)
(* length are kept with the header.                                        *)
(***************************************************************************)
Fits(c, from) ==
    /\ from \in 0 .. ImageLen - 1
    /\ c.op = "write" /\ c.addr = peer.base + from
    /\ c.data \in Seq(Units)
    /\ Len(c.data) \in 1 .. First /\ from + Len(c.data) <= ImageLen
    /\ from = 0 => Len(c.data) = First
    /\ Len(c.data) < First => from > Len(c.data) * (NumFirst - 1)

\* Such a packet lies in the bank.
LEMMA FitsBank ==
    ASSUME NEW c, NEW from, Fits(c, from)
    PROVE  /\ from \in Nat /\ from + Len(c.data) <= BankLen
           /\ c.addr = peer.base + from
           /\ Len(c.data) \in Nat /\ Len(c.data) \in 1 .. First /\ Len(c.data) \in 1 .. BankLen
<1>1. PICK n \in 1 .. First : n = Len(c.data) /\ from + n <= ImageLen
  BY DEF Fits
<1>2. from \in 0 .. ImageLen - 1 /\ c.addr = peer.base + from
  BY DEF Fits
<1>3. First \in Nat /\ ImageLen \in Nat /\ BankLen \in Nat /\ ImageLen <= BankLen
  BY FirstFacts, OtaConstants
<1>4. from \in Nat /\ from + n <= BankLen /\ n \in Nat /\ n \in 1 .. BankLen
  BY <1>1, <1>2, <1>3
<1> QED BY <1>1, <1>2, <1>4

\* What a unit of an image holds.
LEMMA UnitContent ==
    ASSUME NEW i \in Images, NEW u \in Nat
    PROVE  Unit(i, u) \in Content
BY OtaConstants DEF Unit, Content

\* The packets of an image, in order.
LEMMA PacketFacts ==
    ASSUME NEW j \in 0 .. Packets - 1, NEW i \in Images
    PROVE  LET from == j * PacketLen
               s == Packet(i, from)
           IN  /\ from \in 0 .. ImageLen - 1
               /\ s \in Seq(Content) /\ \A k \in 1 .. Len(s) : s[k].img = i
               /\ Len(s) \in 1 .. First /\ from + Len(s) <= ImageLen
               /\ j = 0 => Len(s) = First
               /\ Len(s) < First => from > Len(s) * (NumFirst - 1)
               /\ from + First <= (j + 1) * PacketLen
<1> DEFINE from == j * PacketLen
           s == Packet(i, from)
           n == IF ImageLen - from < PacketLen THEN ImageLen - from ELSE PacketLen
<1>1. from \in 0 .. ImageLen - 1
  <2>1. from \in Nat
    BY Counts, OtaConstants
  <2>2. from <= (Packets - 1) * PacketLen
    BY MulMono, Counts, OtaConstants
  <2> QED BY <2>1, <2>2, Counts, OtaConstants
<1>2. j > 0 => PacketLen <= from
  <2>1. j > 0 => 1 * PacketLen <= j * PacketLen
    BY MulMono, OtaConstants
  <2> QED BY <2>1, OtaConstants
<1>3. n \in 1 .. First /\ from + n <= ImageLen /\ (j = 0 => n = First)
  <2>1. j \in Nat /\ (j = 0 => from = 0)
    BY Counts, OtaConstants
  <2> HIDE DEF from
  <2> QED BY <1>1, <1>2, <2>1, OtaConstants DEF First
<1>4. n < First => from > n * (NumFirst - 1)
  <2> SUFFICES ASSUME n < First PROVE from > n * (NumFirst - 1)
    OBVIOUS
  <2>1. j > 0 /\ n = ImageLen - from /\ First = PacketLen
    <3>1. from \in Nat /\ from < ImageLen /\ (j > 0 => PacketLen <= from) /\ (j = 0 => n = First)
      BY <1>1, <1>2, <1>3, OtaConstants
    <3>2. j > 0
      BY <3>1, FirstFacts, Counts
    <3> HIDE DEF from
    <3> QED BY <3>1, <3>2, OtaConstants DEF First
  <2>2. NumFirst - 1 <= j
    <3>1. SUFFICES ASSUME j + 1 <= NumFirst - 1 PROVE FALSE
      BY FirstFacts, Counts
    <3>2. (j + 1) * PacketLen <= (NumFirst - 1) * PacketLen
      BY <3>1, MulMono, FirstFacts, OtaConstants
    <3>3. (j + 1) * PacketLen = from + PacketLen
      BY OtaConstants
    <3> QED BY <3>2, <3>3, <2>1, <1>1, <1>3, FirstFacts, OtaConstants
  <2>3. (NumFirst - 1) * n <= j * n
    BY <2>2, MulMono, FirstFacts, <1>3
  <2>4. n * j < PacketLen * j
    BY MulStrict, <2>1, <1>3, FirstFacts, OtaConstants
  <2>5. n * (NumFirst - 1) = (NumFirst - 1) * n /\ n * j = j * n
    BY FirstFacts, <1>3
  <2> HIDE DEF n
  <2> QED BY <2>3, <2>4, <2>5, FirstFacts, <1>3, OtaConstants
<1>5. s = [k \in 1 .. n |-> Unit(i, from + k - 1)]
  BY DEF Packet
<1>6. \A k \in 1 .. n : Unit(i, from + k - 1) \in Content /\ Unit(i, from + k - 1).img = i
  BY <1>1, <1>3, UnitContent DEF Unit
<1>7. s \in Seq(Content) /\ Len(s) = n /\ \A k \in 1 .. n : s[k].img = i
  BY <1>3, <1>5, <1>6
<1>8. from + First <= (j + 1) * PacketLen
  BY FirstFacts, OtaConstants
<1> HIDE DEF n, s, from
<1>9. /\ from \in 0 .. ImageLen - 1
      /\ s \in Seq(Content) /\ \A k \in 1 .. Len(s) : s[k].img = i
      /\ Len(s) \in 1 .. First /\ from + Len(s) <= ImageLen
      /\ j = 0 => Len(s) = First
      /\ Len(s) < First => from > Len(s) * (NumFirst - 1)
      /\ from + First <= (j + 1) * PacketLen
  BY <1>1, <1>3, <1>4, <1>7, <1>8
<1> QED BY <1>9 DEF s, from

-----------------------------------------------------------------------------
(* Which bank boots *)

\* g is f with the bank that runs unchanged, and with the header page of the
\* other one no more complete than it was.
Quiet(f, g) ==
    /\ g \in [Addr -> Cell]
    /\ \A a \in Bank(cur) : g[a] = f[a]
    /\ \/ g[Base] \in {Erased, Junk}
       \/ /\ g[Base] = f[Base]
          /\ \A u \in 0 .. HeaderLen - 1 :
                f[Base + u] # Erased => g[Base + u] \in {f[Base + u], Junk}

\* Where the banks lie.
LEMMA Geometry ==
    ASSUME cur \in {0, 1}
    PROVE  /\ Base = (1 - cur) * BankLen
           /\ cur = 0 => Base = BankLen /\ cur * BankLen = 0
           /\ cur = 1 => Base = 0 /\ cur * BankLen = BankLen
           /\ Bank(cur) \subseteq Addr /\ Base \in Addr /\ Base \in Nat
           /\ \A u \in 0 .. BankLen - 1 :
                 /\ cur * BankLen + u \in Bank(cur)
                 /\ Base + u \in Addr /\ Base + u \notin Bank(cur)
<1>1. CASE cur = 0
  <2>1. Base = BankLen /\ cur * BankLen = 0 /\ (1 - cur) * BankLen = BankLen
    BY <1>1, OtaConstants DEF Base
  <2>2. Bank(cur) = 0 .. BankLen - 1
    BY <1>1, OtaConstants DEF Bank
  <2>3. Addr = 0 .. 2 * BankLen - 1 /\ BankLen \in Nat \ {0}
    BY OtaConstants DEF Addr
  <2>4. Bank(cur) \subseteq Addr /\ Base \in Addr /\ Base \in Nat
    BY <2>1, <2>2, <2>3
  <2>5. \A u \in 0 .. BankLen - 1 :
           0 + u \in Bank(cur) /\ BankLen + u \in Addr /\ BankLen + u \notin Bank(cur)
    BY <2>2, <2>3
  <2> QED BY <1>1, <2>1, <2>4, <2>5
<1>2. CASE cur = 1
  <2>1. Base = 0 /\ cur * BankLen = BankLen /\ (1 - cur) * BankLen = 0
    BY <1>2, OtaConstants DEF Base
  <2>2. Bank(cur) = BankLen .. 2 * BankLen - 1
    BY <1>2, OtaConstants DEF Bank
  <2>3. Addr = 0 .. 2 * BankLen - 1 /\ BankLen \in Nat \ {0}
    BY OtaConstants DEF Addr
  <2>4. Bank(cur) \subseteq Addr /\ Base \in Addr /\ Base \in Nat
    BY <2>1, <2>2, <2>3
  <2>5. \A u \in 0 .. BankLen - 1 :
           BankLen + u \in Bank(cur) /\ 0 + u \in Addr /\ 0 + u \notin Bank(cur)
    BY <2>2, <2>3
  <2> QED BY <1>2, <2>1, <2>4, <2>5
<1> QED BY <1>1, <1>2

\* Where a bank begins.
LEMMA Front ==
    /\ 0 \in 0 .. HeaderLen - 1 /\ 0 \in 0 .. ImageLen - 1
    /\ 0 .. HeaderLen - 1 \subseteq 0 .. ImageLen - 1
    /\ 0 .. ImageLen - 1 \subseteq 0 .. BankLen - 1
    /\ \A b \in {0, 1} : b * BankLen + 0 = b * BankLen /\ b * BankLen \in Addr
<1>1. 0 * BankLen = 0 /\ 1 * BankLen = BankLen
  BY OtaConstants
<1>2. ASSUME NEW b \in {0, 1}
      PROVE  b * BankLen + 0 = b * BankLen /\ b * BankLen \in Addr
  <2>1. CASE b = 0
    BY <1>1, <2>1, OtaConstants DEF Addr
  <2>2. CASE b = 1
    BY <1>1, <2>2, OtaConstants DEF Addr
  <2> QED BY <2>1, <2>2
<1>3. HeaderLen - 1 \in Nat /\ ImageLen - 1 \in Nat /\ BankLen - 1 \in Nat
  BY OtaConstants
<1>4. HeaderLen - 1 <= ImageLen - 1 /\ ImageLen - 1 <= BankLen - 1
  BY OtaConstants
<1>5. /\ 0 .. HeaderLen - 1 \subseteq 0 .. ImageLen - 1
      /\ 0 .. ImageLen - 1 \subseteq 0 .. BankLen - 1
  BY <1>3, <1>4
<1>6. 0 \in 0 .. HeaderLen - 1 /\ 0 \in 0 .. ImageLen - 1
  BY <1>3
<1> QED BY <1>2, <1>5, <1>6

\* With a whole bank whose rival is older or spoilt, the ROM boots that bank.
LEMMA BootFine ==
    ASSUME NEW f \in [Addr -> Cell], NEW b \in {0, 1}, Fine(f, b)
    PROVE  Boot(f) = b
<1> DEFINE o == 1 - b
<1>1. PICK i \in Images : Holds(f, b, i)
  BY DEF Fine, Whole
<1>2. HasHeader(f, b)
  <2>1. 0 .. HeaderLen - 1 \subseteq 0 .. ImageLen - 1
    BY OtaConstants
  <2> QED BY <1>1, <2>1 DEF Holds, HasHeader
<1>3. ASSUME HasHeader(f, o) PROVE ~Rival(f, b)
  <2>1. PICK j \in Images : \A u \in 0 .. HeaderLen - 1 :
           /\ f[o * BankLen + u] \notin {Erased, Junk}
           /\ f[o * BankLen + u].img = j /\ f[o * BankLen + u].unit = u
    BY <1>3 DEF HasHeader
  <2>2. f[o * BankLen + 0].img = j
    BY <2>1, Front, Zenon
  <2>3. o \in {0, 1}
    OBVIOUS
  <2>4. f[o * BankLen].img = j
    BY <2>2, <2>3, Front
  <2>5. ~Spoilt(f, o)
    BY <2>1, <2>4 DEF Spoilt, Wrong
  <2> QED BY <2>5 DEF Fine
<1>4. ASSUME HasHeader(f, o) PROVE f[o * BankLen] \notin {Erased, Junk}
  <2>1. f[o * BankLen + 0] \notin {Erased, Junk}
    BY <1>4, Front, Zenon DEF HasHeader
  <2>2. o * BankLen + 0 = o * BankLen
    BY Front
  <2> QED BY <2>1, <2>2
<1>5. f[b * BankLen] \in Content
  <2>1. f[b * BankLen + 0] \notin {Erased, Junk}
    BY <1>1, Front, Zenon DEF Holds
  <2>2. b * BankLen + 0 = b * BankLen /\ b * BankLen \in Addr
    BY Front
  <2> QED BY <2>1, <2>2 DEF Cell
<1>6. ASSUME HasHeader(f, o)
      PROVE  VersionIn(f, o) \in Nat /\ VersionIn(f, o) < VersionIn(f, b)
  <2>1. o * BankLen \in Addr
    BY Front
  <2>2. f[o * BankLen] \in Content
    BY <2>1, <1>4, <1>6 DEF Cell
  <2>3. VersionIn(f, o) \in Nat /\ VersionIn(f, b) \in Nat
    BY <2>2, <1>5 DEF VersionIn, Content
  <2> QED BY <1>3, <1>4, <1>6, <2>3 DEF Rival, VersionIn
<1>7. VersionIn(f, b) \in Nat
  BY <1>5 DEF VersionIn, Content
<1> DEFINE found == {x \in {0, 1} : HasHeader(f, x)}
<1>8. found = {b} \/ (found = {b, o} /\ HasHeader(f, o))
  BY <1>2
<1>9. Boot(f) = CHOOSE x \in found : \A d \in found : VersionIn(f, x) >= VersionIn(f, d)
  BY <1>8 DEF Boot
<1>14. o # b
  OBVIOUS
<1> HIDE DEF found, o
<1>10. \A d \in found : VersionIn(f, b) >= VersionIn(f, d)
  BY <1>6, <1>7, <1>8
<1>11. \A x \in found : (\A d \in found : VersionIn(f, x) >= VersionIn(f, d)) => x = b
  BY <1>6, <1>7, <1>8, <1>14
<1>12. b \in found
  BY <1>8
<1> QED BY <1>9, <1>10, <1>11, <1>12

\* A quiet change leaves the running bank the one that boots.
LEMMA QuietFine ==
    ASSUME cur \in {0, 1}, NEW f \in [Addr -> Cell], NEW g, Quiet(f, g), Fine(f, cur)
    PROVE  /\ Fine(g, cur) /\ g \in [Addr -> Cell]
           /\ VersionIn(g, cur) = VersionIn(f, cur)
<1>1. \A u \in 0 .. ImageLen - 1 : g[cur * BankLen + u] = f[cur * BankLen + u]
  BY Geometry, Front DEF Quiet
<1>2. Whole(g, cur)
  BY <1>1 DEF Fine, Whole, Holds
<1>3. g[cur * BankLen] = f[cur * BankLen]
  BY <1>1, Front, Zenon
<1>4. ASSUME Rival(g, cur) PROVE Spoilt(g, 1 - cur)
  <2>1. g[Base] \notin {Erased, Junk}
    BY <1>4 DEF Rival, Base
  <2>2. g[Base] = f[Base]
    BY <2>1 DEF Quiet
  <2>3. Rival(f, cur)
    BY <1>3, <1>4, <2>2 DEF Rival, VersionIn, Base
  <2>4. PICK u \in 0 .. HeaderLen - 1 : Wrong(f, 1 - cur, u)
    BY <2>3 DEF Fine, Spoilt
  <2>5. f[Base + u] # Erased
    BY <2>4 DEF Wrong, Base
  <2>6. g[Base + u] \in {f[Base + u], Junk}
    BY <2>1, <2>5 DEF Quiet
  <2>7. Wrong(g, 1 - cur, u)
    BY <2>2, <2>4, <2>6, OtaConstants DEF Wrong, Base
  <2> QED BY <2>7 DEF Spoilt
<1> QED BY <1>2, <1>3, <1>4 DEF Fine, Quiet, VersionIn

\* To change nothing is quiet.
LEMMA QuietSame ==
    ASSUME NEW f \in [Addr -> Cell]
    PROVE  Quiet(f, f)
BY DEF Quiet

\* A power failure on the way is quiet too.
LEMMA QuietCut ==
    ASSUME cur \in {0, 1}, NEW f \in [Addr -> Cell], NEW g, Quiet(f, g), NEW h \in Cut(f, g)
    PROVE  Quiet(f, h)
<1>1. PICK p \in Addr :
        h = [a \in Addr |-> IF a < p THEN g[a]
                            ELSE IF a = p /\ f[a] # g[a] THEN Junk ELSE f[a]]
  BY DEF Cut
<1>2. g \in [Addr -> Cell]
  BY DEF Quiet
<1>3. h \in [Addr -> Cell]
  BY <1>1, <1>2 DEF Cell
<1>4. \A a \in Bank(cur) : a \in Addr
  BY Geometry
<1>5. \A a \in Bank(cur) : h[a] = f[a]
  BY <1>1, <1>4 DEF Quiet
<1>6. Base \in Addr /\ \A u \in 0 .. HeaderLen - 1 : Base + u \in Addr /\ Base + u >= Base
  <2>1. \A u \in 0 .. HeaderLen - 1 : Base + u \in Addr
    BY Geometry, Front
  <2>2. Base \in Addr /\ Base \in Nat
    BY Geometry
  <2> QED BY <2>1, <2>2, OtaConstants
<1>7. \A u \in 0 .. HeaderLen - 1 : h[Base + u] \in {f[Base + u], g[Base + u], Junk}
  BY <1>1, <1>6
<1>8. h[Base] \in {f[Base], g[Base], Junk}
  BY <1>1, <1>6
<1>9. CASE h[Base] \in {Erased, Junk}
  BY <1>3, <1>5, <1>9 DEF Quiet
<1>10. CASE h[Base] \notin {Erased, Junk} /\ g[Base] = f[Base]
  <2>1. \A u \in 0 .. HeaderLen - 1 :
          f[Base + u] # Erased => g[Base + u] \in {f[Base + u], Junk}
    BY <1>8, <1>10 DEF Quiet
  <2> QED BY <2>1, <1>3, <1>5, <1>7, <1>8, <1>10 DEF Quiet
<1>11. CASE h[Base] \notin {Erased, Junk} /\ g[Base] # f[Base]
  <2>1. g[Base] \in {Erased, Junk}
    BY <1>11 DEF Quiet
  <2>2. p < Base
    BY <1>1, <1>6, <1>11, <2>1 DEF Addr
  <2>3. h[Base] = f[Base]
    BY <1>8, <1>11, <2>1
  <2>4. \A u \in 0 .. HeaderLen - 1 : h[Base + u] = f[Base + u]
    BY <1>1, <1>6, <2>2 DEF Addr
  <2> QED BY <1>3, <1>5, <2>3, <2>4 DEF Quiet
<1> QED BY <1>9, <1>10, <1>11

-----------------------------------------------------------------------------
(* What changes the flash *)

\* What is programmed or erased in the other bank behind its first unit.
LEMMA ProgramQuiet ==
    ASSUME cur \in {0, 1}, NEW f \in [Addr -> Cell],
           NEW s \in Seq(Units), NEW x \in 1 .. BankLen,
           x + Len(s) <= BankLen
    PROVE  Quiet(f, Program(f, Base + x, s))
<1> DEFINE d == Base + x
           g == Program(f, d, s)
<1>1. Base \in Nat /\ d \in Nat /\ Len(s) \in Nat
  <2>1. Base \in Nat
    BY Geometry
  <2> QED BY <2>1, OtaConstants
<1>2. g = [a \in Addr |->
             IF a \notin d .. d + Len(s) - 1 \/ f[a] = s[a - d + 1] THEN f[a]
             ELSE IF f[a] = Erased THEN s[a - d + 1] ELSE Junk]
  BY DEF Program
<1>3. \A a \in Addr : a \in Int
  BY DEF Addr
<1>4. \A a \in Addr : a \in d .. d + Len(s) - 1 => s[a - d + 1] \in Cell
  <2> SUFFICES ASSUME NEW a \in Addr, a \in d .. d + Len(s) - 1
               PROVE  s[a - d + 1] \in Cell
    OBVIOUS
  <2>1. a - d + 1 \in 1 .. Len(s)
    BY <1>1, <1>3
  <2>2. s[a - d + 1] \in Units
    BY <2>1
  <2> QED BY <2>2 DEF Cell, Units
<1>5. \A a \in Bank(cur) \cup {Base} : a \notin d .. d + Len(s) - 1
  <2>1. \A u \in 0 .. BankLen - 1 : Base + u \notin Bank(cur)
    BY Geometry
  <2>2. ASSUME NEW a \in d .. d + Len(s) - 1 PROVE a \notin Bank(cur) /\ a # Base
    <3>1. a - Base \in 1 .. BankLen - 1 /\ a = Base + (a - Base)
      BY <1>1, OtaConstants
    <3>2. a - Base \in 0 .. BankLen - 1
      BY <3>1
    <3>3. Base + (a - Base) \notin Bank(cur)
      BY <2>1, <3>2, Zenon
    <3> QED BY <3>1, <3>3, <1>1
  <2> QED BY <2>2
<1>6. \A a \in Addr : g[a] \in {f[a], Junk} \/ (f[a] = Erased /\ g[a] \in Cell)
  BY <1>2, <1>4
<1>7. g \in [Addr -> Cell]
  BY <1>2, <1>4 DEF Cell, Units
<1>8. Bank(cur) \subseteq Addr /\ Base \in Addr
  BY Geometry
<1>9. \A u \in 0 .. HeaderLen - 1 : Base + u \in Addr
  BY Geometry, Front
<1>10. \A a \in Bank(cur) \cup {Base} : g[a] = f[a]
  BY <1>2, <1>5, <1>8
<1> HIDE DEF g
<1>11. Quiet(f, g)
  BY <1>6, <1>7, <1>8, <1>9, <1>10 DEF Quiet
<1> QED BY <1>11 DEF g

\* So is what is erased there.
LEMMA EraseQuiet ==
    ASSUME cur \in {0, 1}, NEW f \in [Addr -> Cell],
           NEW x \in HeaderLen .. BankLen, NEW n \in Nat, x + n <= BankLen
    PROVE  Quiet(f, EraseFrom(f, Base + x, n))
<1> DEFINE d == Base + x
           g == EraseFrom(f, d, n)
<1>1. Base \in Nat /\ d \in Nat
  <2>1. Base \in Nat
    BY Geometry
  <2> QED BY <2>1, OtaConstants
<1>2. g = [a \in Addr |-> IF a \in d .. d + n - 1 THEN Erased ELSE f[a]]
  BY DEF EraseFrom
<1>3. g \in [Addr -> Cell]
  BY <1>2 DEF Cell, Units
<1>4. Bank(cur) \subseteq Addr
  BY Geometry
<1>5. \A a \in Bank(cur) : a \notin d .. d + n - 1
  <2>1. \A u \in 0 .. BankLen - 1 : Base + u \notin Bank(cur)
    BY Geometry
  <2>2. ASSUME NEW a \in d .. d + n - 1 PROVE a \notin Bank(cur)
    <3>1. a - Base \in 0 .. BankLen - 1 /\ a = Base + (a - Base)
      BY <1>1, OtaConstants
    <3>2. Base + (a - Base) \notin Bank(cur)
      BY <2>1, <3>1, Zenon
    <3> QED BY <3>1, <3>2
  <2> QED BY <2>2
<1>6. \A u \in 0 .. HeaderLen - 1 : Base + u \in Addr /\ Base + u \notin d .. d + n - 1
  <2>1. \A u \in 0 .. HeaderLen - 1 : Base + u \in Addr
    BY Geometry, Front
  <2> QED BY <2>1, <1>1, OtaConstants
<1>7. Base \in Addr /\ Base \notin d .. d + n - 1
  <2>1. Base \in Addr
    BY Geometry
  <2> QED BY <2>1, <1>1, OtaConstants
<1>8. \A a \in Bank(cur) : g[a] = f[a]
  BY <1>2, <1>4, <1>5
<1>9. g[Base] = f[Base] /\ \A u \in 0 .. HeaderLen - 1 : g[Base + u] = f[Base + u]
  BY <1>2, <1>6, <1>7
<1> HIDE DEF g
<1>10. Quiet(f, g)
  BY <1>3, <1>8, <1>9 DEF Quiet
<1> QED BY <1>10 DEF g

\* The header page, erased.
LEMMA ErasePage ==
    ASSUME cur \in {0, 1}, NEW f \in [Addr -> Cell]
    PROVE  LET g == EraseFrom(f, Base, HeaderLen)
           IN  /\ Quiet(f, g)
               /\ \A u \in 0 .. HeaderLen - 1 : g[Base + u] = Erased
               /\ \A u \in HeaderLen .. ImageLen - 1 : g[Base + u] = f[Base + u]
<1> DEFINE g == EraseFrom(f, Base, HeaderLen)
<1>1. Base \in Nat /\ Base \in Addr
  BY Geometry
<1>2. g = [a \in Addr |-> IF a \in Base .. Base + HeaderLen - 1 THEN Erased ELSE f[a]]
  BY DEF EraseFrom
<1>3. g \in [Addr -> Cell]
  BY <1>2 DEF Cell, Units
<1>4. Bank(cur) \subseteq Addr
  BY Geometry
<1>5. \A a \in Bank(cur) : a \notin Base .. Base + HeaderLen - 1
  <2>1. \A u \in 0 .. BankLen - 1 : Base + u \notin Bank(cur)
    BY Geometry
  <2>2. ASSUME NEW a \in Base .. Base + HeaderLen - 1 PROVE a \notin Bank(cur)
    <3>1. a - Base \in 0 .. BankLen - 1 /\ a = Base + (a - Base)
      BY <1>1, OtaConstants
    <3>2. Base + (a - Base) \notin Bank(cur)
      BY <2>1, <3>1, Zenon
    <3> QED BY <3>1, <3>2
  <2> QED BY <2>2
<1>6. \A u \in 0 .. ImageLen - 1 : Base + u \in Addr
  BY Geometry, Front
<1>7. \A u \in 0 .. HeaderLen - 1 : g[Base + u] = Erased
  <2> SUFFICES ASSUME NEW u \in 0 .. HeaderLen - 1 PROVE g[Base + u] = Erased
    OBVIOUS
  <2>1. Base + u \in Addr
    BY <1>6, Front
  <2>2. Base + u \in Base .. Base + HeaderLen - 1
    BY <1>1, OtaConstants
  <2> QED BY <1>2, <2>1, <2>2
<1>8. \A u \in HeaderLen .. ImageLen - 1 : g[Base + u] = f[Base + u]
  <2> SUFFICES ASSUME NEW u \in HeaderLen .. ImageLen - 1 PROVE g[Base + u] = f[Base + u]
    OBVIOUS
  <2>1. u \in 0 .. ImageLen - 1
    BY OtaConstants
  <2>2. Base + u \in Addr /\ Base + u \notin Base .. Base + HeaderLen - 1
    BY <1>1, <1>6, <2>1, OtaConstants
  <2> QED BY <1>2, <2>2
<1>9. \A a \in Bank(cur) : g[a] = f[a]
  BY <1>2, <1>4, <1>5
<1>10. g[Base] = Erased
  BY <1>1, <1>2, OtaConstants
<1> HIDE DEF g
<1>11. Quiet(f, g)
  BY <1>3, <1>9, <1>10 DEF Quiet
<1> QED BY <1>7, <1>8, <1>11 DEF g

-----------------------------------------------------------------------------
(* What a command does *)

\* The packets after the check for the first one.
LEMMA AllocatedKept ==
    ASSUME cur \in {0, 1}, peer.base \in {0, BankLen}, KeptOK(first_pkt),
           NEW c, NEW from, Fits(c, from)
    PROVE  /\ KeptOK(Allocated(c)) /\ Allocated(c).data = first_pkt.data
           /\ c.addr = Base => Allocated(c).held
           /\ ~Allocated(c).held => first_pkt = NoPkt /\ Allocated(c) = NoPkt
<1>1. CASE c.addr = Base /\ ~first_pkt.held
  <2>1. Allocated(c) = [held |-> TRUE, data |-> <<>>, num |-> RoundUp(HeaderLen, Len(c.data))]
    BY <1>1 DEF Allocated
  <2>2. from = 0 /\ peer.base = Base
    <3>1. from \in 0 .. BankLen - 1 /\ BankLen \in Nat \ {0} /\ c.addr = peer.base + from
      BY OtaConstants DEF Fits
    <3>2. Base \in {0, BankLen}
      BY Geometry
    <3> QED BY <1>1, <3>1, <3>2
  <2>3. Len(c.data) = First
    BY <2>2 DEF Fits
  <2>4. RoundUp(HeaderLen, Len(c.data)) = NumFirst
    BY <2>3 DEF NumFirst
  <2>5. first_pkt.data = <<>>
    BY <1>1 DEF KeptOK, NoPkt
  <2>6. Len(<<>>) = 0 * First /\ ~(0 >= NumFirst)
    BY FirstFacts
  <2>7. <<>> \in Seq(Units) /\ NumFirst \in Nat
    BY FirstFacts
  <2>8. Allocated(c).held /\ Allocated(c).data = <<>> /\ Allocated(c).num = NumFirst
    BY <2>1, <2>4
  <2>9. Allocated(c) \in [held : BOOLEAN, data : Seq(Units), num : Nat]
    BY <2>1, <2>4, <2>7
  <2> QED BY <2>2, <2>5, <2>6, <2>8, <2>9 DEF KeptOK
<1>2. CASE ~(c.addr = Base /\ ~first_pkt.held)
  <2>1. Allocated(c) = first_pkt
    BY <1>2 DEF Allocated
  <2> QED BY <1>2, <2>1 DEF KeptOK
<1> QED BY <1>1, <1>2

\* The bound of the packets that are kept, once the first one is: those that
\* begin in the header page.
LEMMA HeldBound ==
    ASSUME cur \in {0, 1}, peer.base \in {0, BankLen}, KeptOK(first_pkt),
           NEW c, NEW from, Fits(c, from), Allocated(c).held
    PROVE  /\ IsFirst(c) <=> from <= Len(c.data) * (NumFirst - 1)
           /\ IsFirst(c) => Len(c.data) = First /\ from + First <= NumFirst * First
           /\ peer.base = Base
<1> DEFINE n == Len(c.data)
           q == Allocated(c)
<1>1. n \in 1 .. First /\ First \in Nat \ {0} /\ n \in 1 .. BankLen
  BY FitsBank, FirstFacts
<1>2. from \in Nat /\ from + n <= BankLen /\ c.addr = peer.base + from /\ BankLen \in Nat
  BY FitsBank, OtaConstants
<1>3. Base \in {0, BankLen}
  BY Geometry
<1>4. peer.base = Base /\ q.num = NumFirst
  BY AllocatedKept DEF KeptOK
<1> DEFINE m == n * (NumFirst - 1)
<1>5. m \in Nat /\ m < HeaderLen
  <2>1. NumFirst - 1 \in Nat /\ (NumFirst - 1) * First < HeaderLen
    BY FirstFacts
  <2>2. n * (NumFirst - 1) <= First * (NumFirst - 1)
    BY MulMono, <1>1, <2>1
  <2>3. First * (NumFirst - 1) = (NumFirst - 1) * First
    BY <1>1, <2>1
  <2>4. m \in Nat
    BY <1>1, <2>1
  <2> HIDE DEF m
  <2>5. m <= First * (NumFirst - 1)
    BY <2>2 DEF m
  <2> QED BY <2>1, <2>3, <2>4, <2>5, <1>1, OtaConstants
<1> HIDE DEF m
<1>6. (Base + m) % Modulus = Base + m
  <2>1. Base + m \in 0 .. 4 * BankLen - 1
    BY <1>3, <1>5, OtaConstants
  <2> QED BY <2>1, OtaConstants DEF Modulus
<1>7. IsFirst(c) <=> c.addr <= Base + m
  BY <1>4, <1>6 DEF IsFirst, m
<1>8. IsFirst(c) <=> from <= m
  BY <1>2, <1>3, <1>4, <1>5, <1>7
<1>9. IsFirst(c) => n = First
  BY <1>8, <1>1, <1>2, <1>5 DEF Fits, m
<1>10. IsFirst(c) => from + First <= NumFirst * First
  <2>1. First * (NumFirst - 1) = NumFirst * First - First
    BY FirstFacts
  <2>2. IsFirst(c) => from <= First * (NumFirst - 1)
    BY <1>8, <1>9 DEF m
  <2>3. NumFirst * First \in Nat
    BY FirstFacts
  <2> QED BY <1>1, <1>2, <2>1, <2>2, <2>3
<1> QED BY <1>4, <1>8, <1>9, <1>10 DEF m

\* Before the first packet is kept the bound lets nothing be written below
\* the bank, or nothing at all.
LEMMA FirstBound ==
    ASSUME cur \in {0, 1}, peer.base \in {0, BankLen}, KeptOK(first_pkt),
           NEW c, NEW from, Fits(c, from)
    PROVE  /\ (Allocated(c).held /\ IsFirst(c)) => Len(c.data) = First
           /\ ~IsFirst(c) => peer.base = Base /\ from > 0
<1> DEFINE n == Len(c.data)
           q == Allocated(c)
<1>1. n \in 1 .. First /\ First \in Nat \ {0} /\ n \in 1 .. BankLen
  BY FitsBank, FirstFacts
<1>2. from \in Nat /\ from + n <= BankLen /\ c.addr = peer.base + from /\ BankLen \in Nat
  BY FitsBank, OtaConstants
<1>3. Base \in {0, BankLen}
  BY Geometry
<1>4. CASE q.held
  <2>1. n * (NumFirst - 1) >= 0
    <3>1. NumFirst - 1 \in Nat
      BY FirstFacts
    <3> QED BY <1>1, <3>1
  <2>2. /\ IsFirst(c) <=> from <= n * (NumFirst - 1)
        /\ IsFirst(c) => n = First
        /\ peer.base = Base
    BY <1>4, HeldBound
  <2> QED BY <1>2, <2>1, <2>2
<1>5. CASE ~q.held
  <2>1. q.num = 0 /\ c.addr # Base
    BY <1>5, AllocatedKept DEF NoPkt
  <2>2. IsFirst(c) <=> c.addr <= (Base - n) % Modulus
    <3>1. Base + n * (0 - 1) = Base - n
      BY <1>1, <1>3, <1>2
    <3> QED BY <2>1, <3>1 DEF IsFirst
  <2>3. SUFFICES ASSUME ~IsFirst(c) PROVE peer.base = Base /\ from > 0
    BY <1>5
  <2>4. CASE cur = 0
    <3>1. Base = BankLen
      BY <2>4, Geometry
    <3>2. (Base - n) % Modulus = Base - n
      <4>1. Base - n \in 0 .. 4 * BankLen - 1
        BY <1>1, <1>2, <3>1
      <4> HIDE DEF n
      <4> QED BY <4>1, OtaConstants DEF Modulus
    <3>3. c.addr > BankLen - n
      BY <2>2, <2>3, <3>1, <3>2, <1>1, <1>2
    <3> QED BY <3>1, <3>3, <2>1, <1>1, <1>2, OtaConstants
  <2>5. CASE cur = 1
    <3>1. Base = 0
      BY <2>5, Geometry
    <3>2. (Base - n) % Modulus = 4 * BankLen - n
      <4>1. Base - n \in - (4 * BankLen) .. -1
        BY <1>1, <1>2, <3>1, OtaConstants
      <4> HIDE DEF n
      <4>2. (0 - n) % (4 * BankLen) = 4 * BankLen - n
        BY <4>1, <3>1, <1>1, OtaConstants
      <4> QED BY <4>2, <3>1 DEF Modulus
    <3> HIDE DEF n
    <3>3. c.addr > 4 * BankLen - n
      <4>1. 4 * BankLen - n \in Int /\ c.addr \in Int
        BY <1>1, <1>2
      <4> QED BY <2>2, <2>3, <3>2, <4>1
    <3> QED BY <3>3, <1>1, <1>2
  <2> QED BY <2>4, <2>5
<1> QED BY <1>4, <1>5

\* The version of a kept header is raised, and nothing else is changed.
LEMMA BumpedKeeps ==
    ASSUME NEW p \in [held : BOOLEAN, data : Seq(Units), num : Nat],
           Len(p.data) > 0, VersionIn(flash, cur) \in Nat
    PROVE  LET q == Bumped(p)
           IN  /\ q \in [held : BOOLEAN, data : Seq(Units), num : Nat]
               /\ q.held = p.held /\ q.num = p.num /\ Len(q.data) = Len(p.data)
               /\ High(q.data[1])
               /\ \A i : Of(p.data, i) => Of(q.data, i)
<1> DEFINE h == p.data[1]
           v == VersionIn(flash, cur)
           e == [h EXCEPT !.ver = v + 1]
           d == [p.data EXCEPT ![1] = e]
           q == Bumped(p)
<1>1. h \in Units
  OBVIOUS
<1>2. CASE h = Junk \/ h.ver > v
  <2>1. q = p
    BY <1>2 DEF Bumped
  <2> QED BY <1>2, <2>1 DEF High
<1>3. CASE ~(h = Junk \/ h.ver > v)
  <2>1. h \in Content
    BY <1>1, <1>3 DEF Units
  <2>2. e \in Content /\ e.ver = v + 1 /\ e.img = h.img
    BY <2>1 DEF Content
  <2>3. q = [p EXCEPT !.data[1] = e]
    BY <1>3 DEF Bumped
  <2> HIDE DEF e, h, v
  <2>4. q.data = d /\ q.held = p.held /\ q.num = p.num
    BY <2>3
  <2>5. d \in Seq(Units) /\ Len(d) = Len(p.data) /\ d[1] = e
        /\ \A k \in 1 .. Len(p.data) : k # 1 => d[k] = p.data[k]
    BY <2>2 DEF Units
  <2>6. q = [held |-> p.held, data |-> d, num |-> p.num]
    BY <2>3
  <2> HIDE DEF d, q
  <2>7. High(q.data[1])
    BY <2>2, <2>4, <2>5 DEF High, v
  <2>8. \A i : Of(p.data, i) => Of(q.data, i)
    BY <2>2, <2>4, <2>5, <1>3 DEF Of, h
  <2>9. q \in [held : BOOLEAN, data : Seq(Units), num : Nat]
    BY <2>5, <2>6
  <2> QED BY <2>4, <2>5, <2>7, <2>8, <2>9 DEF q
<1> QED BY <1>2, <1>3

\* What a write does to the kept packets.
LEMMA WriteKeeps ==
    ASSUME cur \in {0, 1}, peer.base \in {0, BankLen}, KeptOK(first_pkt),
           VersionIn(flash, cur) \in Nat, NEW c, NEW from, Fits(c, from)
    PROVE  LET q == WritePkt(c)
           IN  /\ KeptOK(q) /\ Len(q.data) <= Len(first_pkt.data) + First
               /\ ~IsFirst(c) => q.data = first_pkt.data
               /\ \A i : Of(first_pkt.data, i) /\ Of(c.data, i) => Of(q.data, i)
<1> DEFINE a == Allocated(c)
           p == Kept(c)
           q == WritePkt(c)
<1>1. KeptOK(a) /\ a.data = first_pkt.data
  BY AllocatedKept
<1>2. Len(a.data) \in Nat /\ a.data \in Seq(Units) /\ First \in Nat \ {0}
  BY <1>1, FirstFacts DEF KeptOK
<1>3. CASE ~IsFirst(c) \/ ~a.held
  <2>1. q = a
    BY <1>3 DEF WritePkt
  <2> QED BY <1>1, <1>2, <2>1
<1>4. CASE IsFirst(c) /\ a.held
  <2>1. Len(c.data) = First /\ c.data \in Seq(Units)
    BY <1>4, FirstBound DEF Fits
  <2>2. PICK k \in Nat : Len(a.data) = k * First /\ (k >= NumFirst => High(a.data[1]))
    BY <1>1, <1>4 DEF KeptOK
  <2>3. peer.base = Base /\ a.num = NumFirst /\ NumFirst \in Nat \ {0}
    BY <1>1, <1>4, FirstFacts DEF KeptOK
  <2> DEFINE s == a.data \o c.data
  <2>5. s \in Seq(Units) /\ Len(s) = Len(a.data) + First
        /\ \A m \in 1 .. Len(s) :
              s[m] = IF m <= Len(a.data) THEN a.data[m] ELSE c.data[m - Len(a.data)]
    <3>1. PICK x \in Seq(Units), y \in Seq(Units) : x = a.data /\ y = c.data
      BY <1>2, <2>1
    <3>2. /\ x \o y \in Seq(Units) /\ Len(x \o y) = Len(x) + Len(y)
          /\ \A m \in 1 .. Len(x) + Len(y) :
                (x \o y)[m] = IF m <= Len(x) THEN x[m] ELSE y[m - Len(x)]
      BY ConcatProperties
    <3> HIDE DEF a
    <3>3. /\ s \in Seq(Units) /\ Len(s) = Len(a.data) + Len(c.data)
          /\ \A m \in 1 .. Len(a.data) + Len(c.data) :
                s[m] = IF m <= Len(a.data) THEN a.data[m] ELSE c.data[m - Len(a.data)]
      BY <3>1, <3>2
    <3> HIDE DEF s
    <3> QED BY <2>1, <3>3
  <2> HIDE DEF s, p
  <2>6. p = [held |-> TRUE, data |-> s, num |-> NumFirst]
    <3>1. p = [a EXCEPT !.data = s]
      BY DEF Kept, p, s
    <3>2. a \in [held : BOOLEAN, data : Seq(Units), num : Nat] /\ a.held = TRUE
      BY <1>1, <1>4 DEF KeptOK
    <3> HIDE DEF a
    <3> QED BY <2>3, <3>1, <3>2
  <2>7. Len(s) = (k + 1) * First
    BY <1>2, <2>2, <2>5
  <2>8. \A i : Of(a.data, i) /\ Of(c.data, i) => Of(s, i)
    <3> SUFFICES ASSUME NEW i, Of(a.data, i), Of(c.data, i), NEW m \in 1 .. Len(s),
                        s[m] # Junk
                 PROVE  s[m].img = i
      BY DEF Of
    <3>1. CASE m <= Len(a.data)
      BY <1>2, <2>5, <3>1 DEF Of
    <3>2. CASE ~(m <= Len(a.data))
      <4>1. m - Len(a.data) \in 1 .. Len(c.data)
        BY <1>2, <2>1, <2>5, <3>2
      <4> QED BY <2>5, <3>2, <4>1 DEF Of
    <3> QED BY <3>1, <3>2
  <2>9. Full(p, c) <=> k + 1 >= NumFirst
    <3>1. Full(p, c) <=> (k + 1) * First >= First * NumFirst
      BY <2>1, <2>6, <2>7 DEF Full
    <3>2. First * NumFirst = NumFirst * First
      BY <1>2, <2>3
    <3>3. k + 1 >= NumFirst => (k + 1) * First >= NumFirst * First
      BY MulMono, <1>2, <2>3
    <3>4. k + 1 < NumFirst => (k + 1) * First < NumFirst * First
      BY MulStrict, <1>2, <2>3
    <3>5. (k + 1) * First \in Nat /\ NumFirst * First \in Nat
      BY <1>2, <2>3
    <3> QED BY <3>1, <3>2, <3>3, <3>4, <3>5, <2>2, <2>3
  <2>10. CASE Full(p, c)
    <3>1. q = Bumped(p)
      BY <1>4, <2>10 DEF WritePkt, p
    <3>2. p \in [held : BOOLEAN, data : Seq(Units), num : Nat] /\ Len(p.data) > 0
      BY <1>2, <2>3, <2>5, <2>6
    <3>3. /\ q \in [held : BOOLEAN, data : Seq(Units), num : Nat]
          /\ q.held /\ q.num = NumFirst /\ Len(q.data) = Len(s)
          /\ High(q.data[1]) /\ \A i : Of(s, i) => Of(q.data, i)
      <4>1. p.held /\ p.num = NumFirst /\ p.data = s
        BY <2>6
      <4> HIDE DEF p, q, s
      <4> QED BY BumpedKeeps, <3>1, <3>2, <4>1
    <3> HIDE DEF q
    <3>4. KeptOK(q)
      BY <2>3, <2>7, <3>3 DEF KeptOK
    <3> QED BY <1>1, <1>2, <1>4, <2>5, <2>8, <3>3, <3>4 DEF q
  <2>11. CASE ~Full(p, c)
    <3>1. q = p
      BY <1>4, <2>11 DEF WritePkt, p
    <3>2. k + 1 \in Nat /\ ~(k + 1 >= NumFirst)
      BY <2>9, <2>11
    <3>3. q \in [held : BOOLEAN, data : Seq(Units), num : Nat]
      BY <2>3, <2>5, <2>6, <3>1
    <3> HIDE DEF q
    <3>4. KeptOK(q)
      BY <2>3, <2>6, <2>7, <3>1, <3>2, <3>3 DEF KeptOK
    <3> QED BY <1>1, <1>2, <1>4, <2>5, <2>6, <2>8, <3>1, <3>4 DEF q
  <2> QED BY <2>10, <2>11
<1> QED BY <1>3, <1>4

\* What a write does to the flash.
LEMMA WriteQuiet ==
    ASSUME cur \in {0, 1}, peer.base \in {0, BankLen}, KeptOK(first_pkt),
           flash \in [Addr -> Cell], NEW c, NEW from, Fits(c, from),
           first_pkt.held /\ IsFirst(c) => Len(first_pkt.data) <= from
    PROVE  Quiet(flash, WriteFlash(c))
<1>1. CASE WriteFlash(c) = flash
  BY <1>1, QuietSame
<1>2. CASE WriteFlash(c) # flash /\ ~IsFirst(c)
  <2>1. WriteFlash(c) = Program(flash, c.addr, c.data)
    BY <1>2 DEF WriteFlash, Save
  <2>2. from \in 1 .. BankLen /\ from + Len(c.data) <= BankLen /\ c.addr = Base + from
    <3>1. peer.base = Base /\ from > 0
      BY <1>2, FirstBound
    <3>2. from \in Nat /\ Len(c.data) \in Nat /\ from + Len(c.data) <= ImageLen
          /\ c.addr = peer.base + from /\ Len(c.data) >= 1
      BY FirstFacts, OtaConstants DEF Fits
    <3> QED BY <3>1, <3>2, OtaConstants
  <2>3. c.data \in Seq(Units)
    BY DEF Fits
  <2> QED BY <2>1, <2>2, <2>3, ProgramQuiet
<1>3. CASE WriteFlash(c) # flash /\ IsFirst(c)
  <2> DEFINE s == Kept(c).data
             t == SubSeq(s, HeaderLen + 1, Len(s))
  <2>1. WriteFlash(c) = Program(flash, Base + HeaderLen, t)
    BY <1>3 DEF WriteFlash, Save
  <2>2. s = first_pkt.data \o c.data
    <3>1. Allocated(c).data = first_pkt.data
      BY AllocatedKept
    <3>2. Allocated(c) \in [held : BOOLEAN, data : Seq(Units), num : Nat]
      BY AllocatedKept DEF KeptOK
    <3> QED BY <3>1, <3>2 DEF Kept
  <2>3. first_pkt.data \in Seq(Units) /\ c.data \in Seq(Units)
    BY DEF KeptOK, Fits
  <2>4. Len(first_pkt.data) <= from
    <3>1. CASE first_pkt.held
      BY <1>3, <3>1
    <3>2. CASE ~first_pkt.held
      BY <3>2 DEF KeptOK, NoPkt, Fits
    <3> QED BY <3>1, <3>2
  <2>5. s \in Seq(Units) /\ Len(s) \in Nat /\ Len(s) <= BankLen
    <3>1. Len(s) = Len(first_pkt.data) + Len(c.data) /\ s \in Seq(Units)
      BY <2>2, <2>3
    <3>2. from + Len(c.data) <= BankLen /\ from \in Nat /\ Len(c.data) \in Nat
      BY FitsBank
    <3>3. Len(first_pkt.data) \in Nat
      BY <2>3
    <3>4. Len(first_pkt.data) + Len(c.data) \in Nat
          /\ Len(first_pkt.data) + Len(c.data) <= BankLen
      <4>1. BankLen \in Nat
        BY OtaConstants
      <4> HIDE DEF s, t
      <4> QED BY <2>4, <3>2, <3>3, <4>1, SumBound
    <3> QED BY <3>1, <3>4
  <2> HIDE DEF s
  <2>6. t \in Seq(Units) /\ HeaderLen + Len(t) <= BankLen
    <3>1. \A m \in HeaderLen + 1 .. Len(s) : s[m] \in Units
      BY <2>5, OtaConstants
    <3>2. HeaderLen + 1 \in Int /\ Len(s) \in Int
      BY <2>5, OtaConstants
    <3>3. t \in Seq(Units)
          /\ Len(t) = IF HeaderLen + 1 <= Len(s) THEN Len(s) - (HeaderLen + 1) + 1 ELSE 0
      BY <3>1, <3>2, SubSeqProperties
    <3> HIDE DEF t
    <3> QED BY <3>2, <3>3, <2>5, OtaConstants
  <2>7. HeaderLen \in 1 .. BankLen
    BY OtaConstants
  <2> HIDE DEF t
  <2> QED BY <2>1, <2>6, <2>7, ProgramQuiet
<1> QED BY <1>1, <1>2, <1>3

\* What the peer sends at each step of an update.
LEMMA ScriptIs ==
    ASSUME peer.step \in 1 .. Last
    PROVE  /\ peer.step = 1 => Script(peer.step) = [op |-> "base"]
           /\ peer.step \in 2 .. Sectors + 1 =>
                 Script(peer.step) =
                    [op |-> "erase", addr |-> peer.base + (peer.step - 2) * SectorLen]
           /\ peer.step \in Sectors + 2 .. Last - 1 =>
                 Script(peer.step) =
                    [op |-> "write", addr |-> peer.base + (peer.step - Sectors - 2) * PacketLen,
                     data |-> Packet(peer.img, (peer.step - Sectors - 2) * PacketLen)]
           /\ peer.step = Last => Script(peer.step) = [op |-> "reboot", img |-> peer.img]
<1> DEFINE s == peer.step
<1>1. Sectors \in Nat \ {0} /\ Packets \in Nat \ {0} /\ Last = Sectors + Packets + 2 /\ s \in Nat
  BY Counts
<1>2. CASE s = 1
  BY <1>1, <1>2 DEF Script
<1>3. CASE s \in 2 .. Sectors + 1
  <2>1. s # 1 /\ s \notin Sectors + 2 .. Last - 1 /\ s # Last
    BY <1>1, <1>3
  <2> QED BY <1>3, <2>1 DEF Script
<1>4. CASE s \in Sectors + 2 .. Last - 1
  <2>1. s # 1 /\ s \notin 2 .. Sectors + 1 /\ s # Last
    BY <1>1, <1>4
  <2> QED BY <1>4, <2>1 DEF Script
<1>5. CASE s = Last
  <2>1. s # 1 /\ s \notin 2 .. Sectors + 1 /\ s \notin Sectors + 2 .. Last - 1
    BY <1>1, <1>5
  <2> QED BY <1>5, <2>1 DEF Script
<1>6. s = 1 \/ s \in 2 .. Sectors + 1 \/ s \in Sectors + 2 .. Last - 1 \/ s = Last
  BY <1>1
<1> QED BY <1>2, <1>3, <1>4, <1>5, <1>6

\* The writes of the peer lie in order, each at its place of the image.
LEMMA ScriptWrites ==
    ASSUME peer.step \in 1 .. Last, peer.img \in Images, Script(peer.step).op = "write"
    PROVE  /\ Fits(Script(peer.step), From) /\ Of(Script(peer.step).data, peer.img)
           /\ peer.step > 1 /\ peer.step + 1 \in 1 .. Last
           /\ \E j \in 0 .. Packets - 1 :
                 /\ From = j * PacketLen
                 /\ Script(peer.step) = [op |-> "write", addr |-> peer.base + j * PacketLen,
                                         data |-> Packet(peer.img, j * PacketLen)]
<1>1. Sectors \in Nat \ {0} /\ Packets \in Nat \ {0} /\ Last = Sectors + Packets + 2
  BY Counts
<1>2. peer.step \in Sectors + 2 .. Last - 1
  <2>1. peer.step = 1 \/ peer.step \in 2 .. Sectors + 1
        \/ peer.step \in Sectors + 2 .. Last - 1 \/ peer.step = Last
    BY <1>1
  <2>2. peer.step # 1 /\ peer.step \notin 2 .. Sectors + 1 /\ peer.step # Last
    BY ScriptIs
  <2> QED BY <2>1, <2>2
<1> DEFINE j == peer.step - Sectors - 2
<1>3. j \in 0 .. Packets - 1 /\ From = j * PacketLen
  BY <1>1, <1>2 DEF From
<1>4. Script(peer.step) = [op |-> "write", addr |-> peer.base + j * PacketLen,
                           data |-> Packet(peer.img, j * PacketLen)]
  BY <1>2, ScriptIs
<1>5. peer.step > 1 /\ peer.step + 1 \in 1 .. Last
  BY <1>1, <1>2
<1> HIDE DEF j
<1>6. From = 0 => j = 0
  <2>1. j \in Nat /\ PacketLen \in Nat \ {0}
    BY <1>1, <1>3, OtaConstants
  <2>2. j > 0 => 0 * PacketLen < j * PacketLen
    BY <2>1, MulStrict
  <2> QED BY <1>3, <2>1, <2>2
<1>7. /\ From \in 0 .. ImageLen - 1
      /\ Packet(peer.img, From) \in Seq(Content)
      /\ \A k \in 1 .. Len(Packet(peer.img, From)) : Packet(peer.img, From)[k].img = peer.img
      /\ Len(Packet(peer.img, From)) \in 1 .. First
      /\ From + Len(Packet(peer.img, From)) <= ImageLen
      /\ j = 0 => Len(Packet(peer.img, From)) = First
      /\ Len(Packet(peer.img, From)) < First => From > Len(Packet(peer.img, From)) * (NumFirst - 1)
  BY <1>3, PacketFacts
<1>8. Packet(peer.img, From) \in Seq(Units)
  <2>1. Content \subseteq Units
    BY DEF Units
  <2> QED BY <1>7, <2>1
<1>9. Script(peer.step) = [op |-> "write", addr |-> peer.base + From,
                           data |-> Packet(peer.img, From)]
  BY <1>3, <1>4
<1>10. Fits(Script(peer.step), From)
  BY <1>6, <1>7, <1>8, <1>9 DEF Fits
<1>11. Of(Script(peer.step).data, peer.img)
  BY <1>7, <1>9 DEF Of
<1> QED BY <1>3, <1>4, <1>5, <1>10, <1>11

\* An erase command leaves the bank that runs and the header page.
LEMMA EraseStep ==
    ASSUME cur \in {0, 1}, peer.base \in {0, BankLen}, flash \in [Addr -> Cell],
           NEW k \in 0 .. Sectors - 1, NEW c, c.addr = peer.base + k * SectorLen
    PROVE  Quiet(flash, ErasedFlash(c))
<1> DEFINE x == k * SectorLen
<1>1. x \in Nat /\ x + SectorLen <= BankLen /\ (k = 0 => x = 0) /\ (k > 0 => x >= SectorLen)
  <2>1. k \in Nat /\ k + 1 <= Sectors /\ Sectors \in Nat /\ SectorLen \in Nat
        /\ Sectors * SectorLen = BankLen
    BY Counts, OtaConstants
  <2>2. (k + 1) * SectorLen <= Sectors * SectorLen
    BY <2>1, MulMono
  <2>3. (k + 1) * SectorLen = x + SectorLen /\ x \in Nat
    BY <2>1
  <2>4. k > 0 => 1 * SectorLen <= x
    BY <2>1, MulMono
  <2>5. 1 * SectorLen = SectorLen /\ (k = 0 => x = 0)
    BY <2>1
  <2> HIDE DEF x
  <2> QED BY <2>1, <2>2, <2>3, <2>4, <2>5
<1> HIDE DEF x
<1>2. BankLen \in Nat \ {0} /\ SectorLen \in Nat \ {0} /\ HeaderLen \in Nat \ {0}
      /\ HeaderLen < SectorLen
  BY OtaConstants
<1>3. c.addr = peer.base + x
  BY DEF x
<1>4. ~EraseRefused(c) => peer.base = Base
  <2>1. CASE cur = 0
    <3>1. Base = BankLen
      BY <2>1, Geometry
    <3>2. ~EraseRefused(c) => c.addr >= BankLen
      BY <2>1, <1>1, <1>2, <1>3 DEF EraseRefused
    <3> QED BY <3>1, <3>2, <1>1, <1>2, <1>3
  <2>2. CASE cur = 1
    <3>1. Base = 0
      BY <2>2, Geometry
    <3>2. ~EraseRefused(c) => c.addr < BankLen
      BY <2>2, <1>1, <1>2, <1>3 DEF EraseRefused
    <3> QED BY <3>1, <3>2, <1>1, <1>2, <1>3
  <2> QED BY <2>1, <2>2
<1>5. CASE EraseRefused(c) \/ ErasedFlash(c) = flash
  BY <1>5, QuietSame DEF ErasedFlash
<1>6. CASE ~EraseRefused(c) /\ c.addr = Base
  <2>1. ErasedFlash(c) = EraseFrom(flash, Base + HeaderLen, SectorLen - HeaderLen)
    BY <1>6 DEF ErasedFlash
  <2>2. HeaderLen \in HeaderLen .. BankLen /\ SectorLen - HeaderLen \in Nat
        /\ HeaderLen + (SectorLen - HeaderLen) <= BankLen
    BY <1>1, <1>2
  <2> QED BY <2>1, <2>2, EraseQuiet
<1>7. CASE ~EraseRefused(c) /\ c.addr # Base /\ ErasedFlash(c) # flash
  <2>1. ErasedFlash(c) = EraseFrom(flash, Base + x, SectorLen)
    BY <1>3, <1>4, <1>7 DEF ErasedFlash
  <2>2. x # 0
    <3>1. Base \in Nat
      BY Geometry
    <3> QED BY <3>1, <1>1, <1>3, <1>4, <1>7
  <2>3. x \in HeaderLen .. BankLen
    <3>1. k > 0
      BY <2>2, <1>1, Counts
    <3> QED BY <3>1, <1>1, <1>2
  <2> QED BY <2>1, <2>3, <1>1, <1>2, EraseQuiet
<1> QED BY <1>5, <1>6, <1>7

\* The commands a node may receive in a state that the invariant allows.
Proper(c) ==
    \/ \E from : /\ Fits(c, from)
                 /\ (first_pkt.held /\ IsFirst(c)) => Len(first_pkt.data) <= from
    \/ c.op = "erase" /\ \E k \in 0 .. Sectors - 1 : c.addr = peer.base + k * SectorLen
    \/ c.op \in {"base", "version", "reboot"}

\* Every command leaves the bank that runs, and completes no header page.
LEMMA FlashAfterQuiet ==
    ASSUME cur \in {0, 1}, peer.base \in {0, BankLen}, flash \in [Addr -> Cell],
           KeptOK(first_pkt), NEW c, Proper(c)
    PROVE  Quiet(flash, FlashAfter(c))
<1>1. ASSUME NEW from, Fits(c, from),
             first_pkt.held /\ IsFirst(c) => Len(first_pkt.data) <= from
      PROVE  Quiet(flash, FlashAfter(c))
  <2>1. c.op = "write"
    BY <1>1 DEF Fits
  <2>2. FlashAfter(c) = WriteFlash(c)
    BY <2>1 DEF FlashAfter
  <2> QED BY <1>1, <2>2, WriteQuiet
<1>2. CASE c.op = "erase" /\ \E k \in 0 .. Sectors - 1 : c.addr = peer.base + k * SectorLen
  <2>1. FlashAfter(c) = ErasedFlash(c)
    BY <1>2 DEF FlashAfter
  <2> QED BY <1>2, <2>1, EraseStep
<1>3. CASE c.op \in {"base", "version"}
  <2>1. FlashAfter(c) = flash
    BY <1>3 DEF FlashAfter
  <2> QED BY <2>1, QuietSame
<1>4. CASE c.op = "reboot"
  <2>1. FlashAfter(c) = RebootFlash(c)
    BY <1>4 DEF FlashAfter
  <2> QED BY <2>1, QuietSame, ErasePage DEF RebootFlash
<1> QED BY <1>1, <1>2, <1>3, <1>4 DEF Proper

\* What a command does to the flash, to the packets and to pc.
LEMMA CommandDoes ==
    ASSUME NEW c, Command(c)
    PROVE  /\ flash' = FlashAfter(c)
           /\ first_pkt' \in {first_pkt, NoPkt} \/ (c.op = "write" /\ first_pkt' = WritePkt(c))
           /\ c.op = "base" => first_pkt' = NoPkt
           /\ c.op # "reboot" => pc' = pc
           /\ c.op = "reboot" =>
                 pc' = IF first_pkt.held /\ CrcMatches(c) THEN "header" ELSE "reset"
<1>1. CASE OTA_CMD_WRITE_DATA(c)
  BY <1>1 DEF OTA_CMD_WRITE_DATA, FlashAfter, OtaStop, OtaDeinit
<1>2. CASE OTA_CMD_GET_STR_BASE(c)
  BY <1>2 DEF OTA_CMD_GET_STR_BASE, FlashAfter
<1>3. CASE OTA_CMD_PAGE_ERASE(c)
  BY <1>3 DEF OTA_CMD_PAGE_ERASE, FlashAfter
<1>4. CASE OTA_CMD_READ_FW_VER(c)
  BY <1>4 DEF OTA_CMD_READ_FW_VER, FlashAfter
<1>5. CASE OTA_CMD_REBOOT(c)
  BY <1>5 DEF OTA_CMD_REBOOT, FlashAfter, OtaStop, OtaDeinit
<1> QED BY <1>1, <1>2, <1>3, <1>4, <1>5 DEF Command

\* A whole bank has a version.
LEMMA FineVersion ==
    ASSUME NEW f \in [Addr -> Cell], NEW b \in {0, 1}, Whole(f, b)
    PROVE  f[b * BankLen] \in Content /\ VersionIn(f, b) \in Nat
<1>1. PICK i \in Images : Holds(f, b, i)
  BY DEF Whole
<1>2. f[b * BankLen + 0] \notin {Erased, Junk}
  BY <1>1, Front, Zenon DEF Holds
<1>3. b * BankLen + 0 = b * BankLen /\ b * BankLen \in Addr
  BY Front
<1> QED BY <1>2, <1>3 DEF Cell, VersionIn, Content

\* The header page is what has been kept, filled up with anything.
LEMMA PageContents ==
    ASSUME first_pkt.data \in Seq(Units)
    PROVE  /\ HeaderPage \in Seq(Units) /\ Len(HeaderPage) = HeaderLen
           /\ \A u \in 0 .. HeaderLen - 1 :
                 /\ u + 1 \in 1 .. HeaderLen
                 /\ HeaderPage[u + 1] = IF u + 1 <= Len(first_pkt.data)
                                        THEN first_pkt.data[u + 1] ELSE Junk
<1>1. HeaderLen \in Nat /\ Len(first_pkt.data) \in Nat
      /\ DOMAIN first_pkt.data = 1 .. Len(first_pkt.data)
  BY OtaConstants
<1>2. \A u \in 1 .. HeaderLen :
         HeaderPage[u] = IF u <= Len(first_pkt.data) THEN first_pkt.data[u] ELSE Junk
  BY <1>1 DEF HeaderPage
<1>3. \A u \in 1 .. HeaderLen : HeaderPage[u] \in Units
  BY <1>1, <1>2 DEF Units
<1>4. HeaderPage = [u \in 1 .. HeaderLen |-> HeaderPage[u]]
  BY DEF HeaderPage
<1>5. HeaderPage \in Seq(Units) /\ Len(HeaderPage) = HeaderLen
  <2> HIDE DEF HeaderPage
  <2> QED BY <1>1, <1>3, <1>4
<1>6. \A u \in 0 .. HeaderLen - 1 : u + 1 \in 1 .. HeaderLen
  BY <1>1
<1> HIDE DEF HeaderPage
<1> QED BY <1>2, <1>5, <1>6

(***************************************************************************)
(* The header is written over an erased page.  Whether it is written as a  *)
(* whole, in part or not at all, one of the banks is whole and boots: the  *)
(* new one only when its header and the checked image belong together and  *)
(* its version is above the running one.                                   *)
(***************************************************************************)
LEMMA HeaderStep ==
    ASSUME FlashInv, HeaderInv, pc = "header", KeptOK(first_pkt),
           NEW f \in {HeaderFlash} \cup Cut(flash, HeaderFlash)
    PROVE  /\ f \in [Addr -> Cell] /\ \A a \in Bank(cur) : f[a] = flash[a]
           /\ \E b \in {0, 1} : Fine(f, b)
<1> DEFINE g == HeaderFlash
           o == 1 - cur
<1>1. cur \in {0, 1} /\ flash \in [Addr -> Cell] /\ Fine(flash, cur)
  BY DEF FlashInv
<1>2. first_pkt.data \in Seq(Units) /\ Len(first_pkt.data) \in Nat
  BY DEF KeptOK
<1>3. o \in {0, 1} /\ o * BankLen = Base /\ (1 - o) * BankLen = cur * BankLen /\ 1 - o = cur
  BY <1>1, Geometry DEF Base
<1>4. Base \in Nat /\ Base \in Addr /\ HeaderLen \in Nat \ {0} /\ Bank(cur) \subseteq Addr
  BY <1>1, Geometry, OtaConstants
<1>5. CASE g = flash
  <2>1. f = flash \/ f \in Cut(flash, flash)
    BY <1>5
  <2>2. Quiet(flash, f)
    BY <1>1, <2>1, QuietSame, QuietCut
  <2>3. Fine(f, cur)
    BY <1>1, <2>2, QuietFine
  <2> QED BY <1>1, <2>2, <2>3 DEF Quiet
<1>6. CASE g # flash
  <2>1. g = Program(flash, Base, HeaderPage)
    BY <1>6 DEF HeaderFlash, Save
  <2>2. g = [a \in Addr |->
               IF a \notin Base .. Base + HeaderLen - 1 \/ flash[a] = HeaderPage[a - Base + 1]
               THEN flash[a]
               ELSE IF flash[a] = Erased THEN HeaderPage[a - Base + 1] ELSE Junk]
    BY <1>2, <2>1, PageContents DEF Program
  <2>3. \A u \in 0 .. HeaderLen - 1 :
           /\ Base + u \in Addr /\ Base + u \in Base .. Base + HeaderLen - 1
           /\ (Base + u) - Base + 1 = u + 1 /\ flash[Base + u] = Erased
    <3>1. \A u \in 0 .. HeaderLen - 1 : Base + u \in Addr
      BY <1>1, Geometry, Front
    <3> QED BY <3>1, <1>4 DEF HeaderInv
  <2>4. \A u \in 0 .. HeaderLen - 1 :
           /\ g[Base + u] = HeaderPage[u + 1] /\ g[Base + u] \in Units
           /\ flash[Base + u] = Erased /\ g[Base + u] # Erased /\ g[Base + u] \in Cell
    <3>1. \A u \in 0 .. HeaderLen - 1 : g[Base + u] = HeaderPage[u + 1]
      BY <2>2, <2>3
    <3>2. \A u \in 0 .. HeaderLen - 1 : HeaderPage[u + 1] \in Units
      BY <1>2, PageContents
    <3>3. Erased \notin Units
      BY OtaConstants DEF Units
    <3>4. Units \subseteq Cell
      BY DEF Units, Cell
    <3> QED BY <2>3, <3>1, <3>2, <3>3, <3>4
  <2>5. \A a \in Addr : a \notin Base .. Base + HeaderLen - 1 => g[a] = flash[a]
    BY <2>2
  <2>6. \A a \in Base .. Base + HeaderLen - 1 : a - Base \in 0 .. HeaderLen - 1 /\ a = Base + (a - Base)
    BY <1>4
  <2>7. g \in [Addr -> Cell]
    <3>1. \A a \in Addr : g[a] \in Cell
      <4> SUFFICES ASSUME NEW a \in Addr PROVE g[a] \in Cell
        OBVIOUS
      <4>1. CASE a \in Base .. Base + HeaderLen - 1
        BY <2>4, <2>6, <4>1
      <4>2. CASE a \notin Base .. Base + HeaderLen - 1
        BY <1>1, <2>5, <4>2
      <4> QED BY <4>1, <4>2
    <3> QED BY <2>2, <3>1
  <2>8. \A a \in Bank(cur) : a \notin Base .. Base + HeaderLen - 1
    <3>1. \A u \in 0 .. HeaderLen - 1 : Base + u \notin Bank(cur)
      BY <1>1, Geometry, Front
    <3> QED BY <2>6, <3>1
  <2>9. \A a \in Bank(cur) : g[a] = flash[a]
    BY <1>4, <2>5, <2>8
  <2> HIDE DEF g
  \* A bank that runs and is left alone stays whole.
  <2>10. ASSUME NEW h \in [Addr -> Cell], \A a \in Bank(cur) : h[a] = flash[a],
                h[Base] \in {Erased, Junk} \/ Spoilt(h, o)
         PROVE  Fine(h, cur)
    <3>1. \A u \in 0 .. ImageLen - 1 : h[cur * BankLen + u] = flash[cur * BankLen + u]
      <4>1. \A u \in 0 .. ImageLen - 1 : cur * BankLen + u \in Bank(cur)
        BY <1>1, Geometry, Front
      <4> QED BY <2>10, <4>1
    <3>2. Whole(h, cur)
      BY <1>1, <3>1 DEF Fine, Whole, Holds
    <3>3. Rival(h, cur) => h[Base] \notin {Erased, Junk}
      BY <1>3 DEF Rival
    <3> QED BY <2>10, <3>2, <3>3 DEF Fine
  \* The header as it was meant to be written.
  <2>11. \E b \in {0, 1} : Fine(g, b)
    <3>1. PICK i \in Images :
             /\ \A u \in HeaderLen .. ImageLen - 1 : flash[Base + u] = Unit(i, u)
             /\ Of(first_pkt.data, i)
      BY DEF HeaderInv
    <3>2. CASE g[Base] = Junk \/ Spoilt(g, o)
      BY <1>1, <2>7, <2>9, <2>10, <3>2
    <3>3. CASE g[Base] # Junk /\ ~Spoilt(g, o)
      <4>1. g[Base + 0] # Erased /\ Base + 0 = Base
        BY <1>4, <2>4, Front
      <4>2. \A u \in 0 .. HeaderLen - 1 :
               g[Base + u] # Junk /\ g[Base + u].img = g[Base].img /\ g[Base + u].unit = u
        BY <1>3, <2>4, <3>3 DEF Spoilt, Wrong
      <4>3. \A u \in 0 .. HeaderLen - 1 :
               u + 1 <= Len(first_pkt.data) /\ g[Base + u] = first_pkt.data[u + 1]
        BY <1>2, <2>4, <4>2, PageContents
      <4>4. HeaderLen <= Len(first_pkt.data)
        <5>1. HeaderLen - 1 \in 0 .. HeaderLen - 1
          BY <1>4
        <5> QED BY <1>2, <1>4, <4>3, <5>1
      <4>5. g[Base] = first_pkt.data[1] /\ g[Base].img = i
        <5>1. g[Base + 0] = first_pkt.data[0 + 1]
          BY <4>3, Front
        <5>2. 1 \in 1 .. Len(first_pkt.data)
          BY <1>2, <1>4, <4>4
        <5> QED BY <3>1, <3>3, <4>1, <5>1, <5>2 DEF Of
      <4>6. Holds(g, o, i)
        <5> SUFFICES ASSUME NEW u \in 0 .. ImageLen - 1
                     PROVE  /\ g[Base + u] \notin {Erased, Junk}
                            /\ g[Base + u].img = i /\ g[Base + u].unit = u
          BY <1>3 DEF Holds
        <5>1. CASE u \in 0 .. HeaderLen - 1
          BY <2>4, <4>2, <4>5, <5>1
        <5>2. CASE u \notin 0 .. HeaderLen - 1
          <6>1. u \in HeaderLen .. ImageLen - 1 /\ u \in Nat
            BY <1>4, <5>2, OtaConstants
          <6>2. Base + u \in Addr /\ Base + u \notin Base .. Base + HeaderLen - 1
            <7>1. Base + u \in Addr
              BY <1>1, Geometry, Front
            <7> QED BY <7>1, <1>4, <6>1
          <6>3. g[Base + u] = Unit(i, u)
            BY <2>5, <3>1, <6>1, <6>2
          <6>4. Unit(i, u) \in Content
            BY <6>1, UnitContent
          <6> QED BY <6>3, <6>4, OtaConstants DEF Unit
        <5> QED BY <5>1, <5>2
      <4>7. VersionIn(g, cur) = VersionIn(flash, cur) /\ VersionIn(flash, cur) \in Nat
        <5>1. cur * BankLen \in Bank(cur)
          <6>1. cur * BankLen + 0 \in Bank(cur)
            BY <1>1, Geometry, Front
          <6> QED BY <1>1, <6>1, Front
        <5> QED BY <1>1, <2>9, <5>1, FineVersion DEF VersionIn, Fine
      <4>8. High(first_pkt.data[1])
        <5>1. first_pkt.held
          BY <1>2, <1>4, <4>4 DEF KeptOK, NoPkt
        <5>2. PICK k \in Nat : Len(first_pkt.data) = k * First
                               /\ (k >= NumFirst => High(first_pkt.data[1]))
          BY <5>1 DEF KeptOK
        <5>3. k >= NumFirst
          <6>1. SUFFICES ASSUME k <= NumFirst - 1 PROVE FALSE
            BY FirstFacts
          <6>2. k * First <= (NumFirst - 1) * First
            BY <6>1, FirstFacts, MulMono
          <6>3. (NumFirst - 1) * First < HeaderLen /\ (NumFirst - 1) * First \in Nat
            BY FirstFacts
          <6> QED BY <1>2, <1>4, <4>4, <5>2, <6>2, <6>3
        <5> QED BY <5>2, <5>3
      <4>9. VersionIn(g, o) > VersionIn(g, cur)
        BY <1>3, <3>3, <4>5, <4>7, <4>8 DEF High, VersionIn
      <4>10. Whole(g, o)
        BY <4>6 DEF Whole
      <4>11. VersionIn(g, o) \in Nat
        BY <1>3, <2>7, <4>10, FineVersion
      <4>12. ~Rival(g, o)
        BY <1>3, <4>7, <4>9, <4>11 DEF Rival
      <4> QED BY <1>3, <4>10, <4>12 DEF Fine
    <3> QED BY <3>2, <3>3
  <2>12. CASE f = g
    BY <2>7, <2>9, <2>11, <2>12
  <2>13. CASE f \in Cut(flash, g)
    <3>1. PICK p \in Addr :
            f = [a \in Addr |-> IF a < p THEN g[a]
                                ELSE IF a = p /\ flash[a] # g[a] THEN Junk ELSE flash[a]]
      BY <2>13 DEF Cut
    <3>2. f \in [Addr -> Cell]
      BY <1>1, <2>7, <3>1 DEF Cell
    <3>3. \A a \in Bank(cur) : f[a] = flash[a]
      BY <1>4, <2>9, <3>1
    <3>4. p \in Int
      BY DEF Addr
    <3>5. CASE p < Base
      <4>1. f[Base] = flash[Base]
        BY <1>4, <3>1, <3>4, <3>5
      <4>2. flash[Base + 0] = Erased /\ Base + 0 = Base
        BY <1>4, <2>4, Front
      <4> QED BY <1>1, <2>10, <3>2, <3>3, <4>1, <4>2
    <3>6. CASE p \in Base .. Base + HeaderLen - 1
      <4> DEFINE u == p - Base
      <4>1. u \in 0 .. HeaderLen - 1 /\ p = Base + u
        BY <1>4, <3>6
      <4> HIDE DEF u
      <4>2. f[p] = Junk
        BY <2>4, <3>1, <3>4, <4>1
      <4>3. Wrong(f, o, u)
        BY <1>3, <4>1, <4>2, OtaConstants DEF Wrong
      <4>4. Spoilt(f, o)
        BY <4>1, <4>3 DEF Spoilt
      <4> QED BY <1>1, <2>10, <3>2, <3>3, <4>4
    <3>7. CASE p > Base + HeaderLen - 1
      <4>1. \A a \in Addr : f[a] = g[a]
        <5> SUFFICES ASSUME NEW a \in Addr PROVE f[a] = g[a]
          OBVIOUS
        <5>1. CASE a < p
          BY <3>1, <5>1
        <5>2. CASE ~(a < p)
          <6>1. a \in Int
            BY DEF Addr
          <6>2. a \notin Base .. Base + HeaderLen - 1
            BY <1>4, <3>4, <3>7, <5>2, <6>1
          <6>3. g[a] = flash[a]
            BY <2>5, <6>2
          <6> QED BY <3>1, <5>2, <6>3
        <5> QED BY <5>1, <5>2
      <4>2. f = g
        BY <2>7, <3>2, <4>1
      <4> QED BY <2>12, <4>2
    <3> QED BY <3>4, <3>5, <3>6, <3>7, <1>4
  <2> QED BY <2>12, <2>13 DEF g
<1> QED BY <1>5, <1>6

-----------------------------------------------------------------------------
(* Every step *)

\* What RunningUntouched says of a step.
Untouched == \A a \in Bank(cur) : flash'[a] = flash[a]

\* The rest of a long packet, or what is taken for it.
LEMMA Pending ==
    ASSUME OtaInv, recving # NotReceiving
    PROVE  /\ recving.head
           /\ peer.sent => Assembled = {Script(peer.step)} /\ Script(peer.step).op = "write"
           /\ peer.sent => (first_pkt.held => Len(first_pkt.data) <= From)
           /\ ~peer.sent => peer.step = 1
           /\ ~peer.sent => \A e \in Mixed : Proper(e) /\ \E from : Fits(e, from)
<1>1. PICK j \in 0 .. Packets - 1, i \in Images :
         recving = [cmd |-> [op |-> "write", addr |-> peer.base + j * PacketLen,
                             data |-> Packet(i, j * PacketLen)],
                    head |-> TRUE]
  BY DEF OtaInv, PeerInv
<1> DEFINE from == j * PacketLen
           s == Packet(i, from)
<1>2. recving.head = TRUE /\ recving.cmd.op = "write"
      /\ recving.cmd.addr = peer.base + from /\ recving.cmd.data = s
  BY <1>1
<1>3. Assembled = {recving.cmd}
  BY <1>2 DEF Assembled
<1>4. /\ from \in 0 .. ImageLen - 1 /\ s \in Seq(Content)
      /\ Len(s) \in 1 .. First /\ from + Len(s) <= ImageLen
      /\ j = 0 => Len(s) = First
      /\ Len(s) < First => from > Len(s) * (NumFirst - 1)
  BY PacketFacts
<1>5. from = 0 => j = 0
  <2>1. j \in Nat /\ PacketLen \in Nat \ {0}
    BY Counts, OtaConstants
  <2>2. j > 0 => 0 * PacketLen < j * PacketLen
    BY <2>1, MulStrict
  <2> QED BY <2>1, <2>2
<1>6. first_pkt.held => Len(first_pkt.data) <= from
  <2> SUFFICES ASSUME first_pkt.held PROVE Len(first_pkt.data) <= from
    OBVIOUS
  <2>1. peer.base = Base /\ Len(first_pkt.data) <= recving.cmd.addr - Base
    BY DEF OtaInv, PktInv, KeptOK
  <2>2. Base \in Nat /\ from \in Nat
    BY <1>4, Geometry DEF OtaInv, FlashInv
  <2>3. recving.cmd.addr - Base = from
    BY <1>2, <2>1, <2>2
  <2> QED BY <2>1, <2>3
<1> HIDE DEF from, s
<1>7. ASSUME NEW e \in Mixed PROVE Fits(e, from)
  <2>1. e = [recving.cmd EXCEPT !.data = Garbage(Len(@))]
    BY <1>3 DEF Mixed
  <2>2. recving.cmd = [op |-> "write", addr |-> peer.base + from, data |-> s]
    BY <1>1 DEF from, s
  <2>3. e = [op |-> "write", addr |-> peer.base + from, data |-> Garbage(Len(s))]
    BY <2>1, <2>2
  <2>4. Garbage(Len(s)) \in Seq(Units) /\ Len(Garbage(Len(s))) = Len(s)
    BY <1>4 DEF Garbage, Units
  <2> QED BY <1>4, <1>5, <2>3, <2>4 DEF Fits
<1>8. peer.sent => recving.cmd = Script(peer.step)
  BY DEF OtaInv, PeerInv
<1>9. peer.sent => from = From
  <2> SUFFICES ASSUME peer.sent PROVE from = From
    OBVIOUS
  <2>1. Script(peer.step).op = "write" /\ Script(peer.step).addr = peer.base + from
    BY <1>2, <1>8
  <2>2. Script(peer.step).addr = peer.base + From /\ From \in 0 .. ImageLen - 1
    BY <2>1, ScriptWrites DEF Fits, OtaInv, PeerInv
  <2>3. peer.base \in Nat /\ from \in Nat /\ From \in Nat
    <3>1. peer.base \in {0, BankLen}
      BY DEF OtaInv, PeerInv
    <3> QED BY <1>4, <2>2, <3>1, OtaConstants
  <2> QED BY <2>1, <2>2, <2>3
<1>10. ASSUME ~peer.sent PROVE peer.step = 1
  BY <1>10 DEF OtaInv, PeerInv
<1>11. \A e \in Mixed : Proper(e)
  BY <1>6, <1>7 DEF Proper
<1> QED BY <1>2, <1>3, <1>6, <1>7, <1>8, <1>9, <1>10, <1>11

\* The commands that the peer may send are proper ones.
LEMMA ScriptProper ==
    ASSUME OtaInv, recving = NotReceiving, ~ResendFirst,
           Ready \/ Repeats(Script(peer.step))
    PROVE  Proper(Script(peer.step))
<1>1. peer.step \in 1 .. Last /\ peer.img \in Images /\ peer.base \in {0, BankLen}
  BY DEF OtaInv, PeerInv
<1>2. Sectors \in Nat \ {0} /\ Packets \in Nat \ {0} /\ Last = Sectors + Packets + 2
  BY Counts
<1>3. CASE Script(peer.step).op = "write"
  <2>1. Fits(Script(peer.step), From) /\ peer.step > 1
    BY <1>1, <1>3, ScriptWrites
  <2>2. first_pkt.held /\ IsFirst(Script(peer.step)) => Len(first_pkt.data) <= From
    <3>1. CASE Ready
      <4>1. ~peer.waits /\ From \in Nat
        BY <2>1, <3>1 DEF Ready, Fits
      <4> QED BY <2>1, <4>1 DEF OtaInv, PktInv
    <3>2. CASE Repeats(Script(peer.step))
      BY <3>2 DEF Repeats
    <3> QED BY <3>1, <3>2
  <2> QED BY <2>1, <2>2 DEF Proper
<1>4. CASE peer.step \in 2 .. Sectors + 1
  <2>1. Script(peer.step) = [op |-> "erase", addr |-> peer.base + (peer.step - 2) * SectorLen]
    BY <1>1, <1>4, ScriptIs
  <2>2. peer.step - 2 \in 0 .. Sectors - 1
    BY <1>2, <1>4
  <2>3. Script(peer.step).op = "erase"
        /\ Script(peer.step).addr = peer.base + (peer.step - 2) * SectorLen
    BY <2>1
  <2> QED BY <2>2, <2>3 DEF Proper
<1>5. CASE peer.step \in Sectors + 2 .. Last - 1
  BY <1>1, <1>3, <1>5, ScriptIs
<1>6. CASE peer.step = 1 \/ peer.step = Last
  BY <1>1, <1>6, ScriptIs DEF Proper
<1> QED BY <1>1, <1>2, <1>4, <1>5, <1>6

\* A command that is executed.
LEMMA ExecFlash ==
    ASSUME OtaInv, pc = "idle", cur' = cur, NEW c, Proper(c), Command(c)
    PROVE  /\ FlashInv' /\ Untouched
           /\ VersionIn(flash, cur)' = VersionIn(flash, cur)
           /\ VersionIn(flash, cur) \in Nat
<1>1. cur \in {0, 1} /\ flash \in [Addr -> Cell] /\ Fine(flash, cur)
  BY DEF OtaInv, FlashInv
<1>2. peer.base \in {0, BankLen} /\ KeptOK(first_pkt)
  BY DEF OtaInv, PeerInv, PktInv
<1>3. flash' = FlashAfter(c)
  BY CommandDoes
<1>4. Quiet(flash, flash')
  BY <1>1, <1>2, <1>3, FlashAfterQuiet
<1>5. Fine(flash', cur) /\ flash' \in [Addr -> Cell]
      /\ VersionIn(flash', cur) = VersionIn(flash, cur)
  BY <1>1, <1>4, QuietFine
<1>6. VersionIn(flash, cur) \in Nat
  BY <1>1, FineVersion DEF Fine
<1>7. pc' \in {"idle", "header", "reset"}
  BY CommandDoes
<1>8. FlashInv'
  <2>1. cur' \in {0, 1} /\ Fine(flash', cur')
    BY <1>1, <1>5
  <2> QED BY <2>1, <1>5, <1>7 DEF FlashInv
<1>9. VersionIn(flash, cur)' = VersionIn(flash', cur)
  OBVIOUS
<1> QED BY <1>4, <1>5, <1>6, <1>8, <1>9 DEF Quiet, Untouched

\* Only a REBOOT command whose check has succeeded goes on to the header.
LEMMA ExecHeader ==
    ASSUME OtaInv, pc = "idle", cur' = cur, NEW c, Command(c),
           c.op = "reboot" =>
              c.img \in Images /\ (first_pkt.held => Of(first_pkt.data, c.img))
    PROVE  HeaderInv'
<1> SUFFICES ASSUME pc' = "header" PROVE HeaderInv'
  BY DEF HeaderInv
<1>1. cur \in {0, 1} /\ flash \in [Addr -> Cell]
  BY DEF OtaInv, FlashInv
<1>2. c.op = "reboot" /\ first_pkt.held /\ CrcMatches(c)
  BY CommandDoes
<1>3. flash' = RebootFlash(c)
  BY <1>2, CommandDoes DEF FlashAfter
<1>4. flash' = EraseFrom(flash, Base, HeaderLen)
  BY <1>2, <1>3 DEF RebootFlash
<1>5. \A u \in 0 .. HeaderLen - 1 : flash'[Base + u] = Erased
  BY <1>1, <1>4, ErasePage
<1>6. \A u \in HeaderLen .. ImageLen - 1 : flash'[Base + u] = Unit(c.img, u)
  BY <1>1, <1>2, <1>4, ErasePage DEF CrcMatches
<1>7. Of(first_pkt'.data, c.img)
  <2>1. first_pkt' \in {first_pkt, NoPkt}
    BY <1>2, CommandDoes
  <2>2. Of(NoPkt.data, c.img)
    BY DEF Of, NoPkt
  <2> QED BY <1>2, <2>1, <2>2
<1>8. Base' = Base
  BY DEF Base
<1> QED BY <1>2, <1>5, <1>6, <1>7, <1>8 DEF HeaderInv, Of

\* The packets after a step that keeps the running bank.
LEMMA KeptMoves ==
    ASSUME NEW q, KeptOK(q), first_pkt' = q, cur' = cur,
           q.held => peer'.base = peer.base,
           VersionIn(flash, cur)' = VersionIn(flash, cur)
    PROVE  KeptOK(first_pkt)'
<1>1. Base' = Base
  BY DEF Base
<1>2. \A h : High(h)' <=> High(h)
  BY DEF High
<1>3. q.held => peer.base = Base /\ q.num = NumFirst
  BY DEF KeptOK
<1>4. ASSUME q.held
      PROVE  \E k \in Nat : /\ Len(q.data) = k * First
                            /\ k >= NumFirst => High(q.data[1])'
  <2>1. PICK k \in Nat : /\ Len(q.data) = k * First
                         /\ k >= NumFirst => High(q.data[1])
    BY <1>4 DEF KeptOK
  <2> QED BY <1>2, <2>1
<1>5. /\ q \in [held : BOOLEAN, data : Seq(Units), num : Nat]
      /\ ~q.held => q = NoPkt
  BY DEF KeptOK
<1> QED BY <1>1, <1>3, <1>4, <1>5 DEF KeptOK, High

\* The packets after a write.
LEMMA WriteResult ==
    ASSUME OtaInv, NEW c, NEW from, Fits(c, from), VersionIn(flash, cur) \in Nat,
           NEW i, first_pkt.held => Of(first_pkt.data, i), Of(c.data, i),
           NEW q \in {first_pkt, NoPkt, WritePkt(c)}
    PROVE  /\ KeptOK(q) /\ Of(q.data, i) /\ Len(q.data) \in Nat
           /\ Len(q.data) <= Len(first_pkt.data) + First
           /\ ~IsFirst(c) => Len(q.data) <= Len(first_pkt.data)
           /\ ~first_pkt.held => Len(first_pkt.data) = 0
           /\ Len(first_pkt.data) \in Nat
<1>1. cur \in {0, 1} /\ peer.base \in {0, BankLen} /\ KeptOK(first_pkt)
  BY DEF OtaInv, FlashInv, PeerInv, PktInv
<1>2. First \in Nat \ {0} /\ Len(first_pkt.data) \in Nat
  BY <1>1, FirstFacts DEF KeptOK
<1>3. KeptOK(NoPkt) /\ NoPkt.data = <<>>
  BY DEF KeptOK, NoPkt
<1>4. ~first_pkt.held => first_pkt = NoPkt
  BY <1>1 DEF KeptOK
<1>5. Of(<<>>, i)
  BY DEF Of
<1>6. Of(first_pkt.data, i)
  BY <1>3, <1>4, <1>5
<1>7. CASE q = first_pkt
  BY <1>1, <1>2, <1>3, <1>4, <1>6, <1>7
<1>8. CASE q = NoPkt
  <2>1. Len(q.data) = 0
    BY <1>3, <1>8
  <2> QED BY <1>2, <1>3, <1>4, <1>5, <1>8, <2>1
<1>9. CASE q = WritePkt(c)
  <2>1. /\ KeptOK(q) /\ Len(q.data) <= Len(first_pkt.data) + First
        /\ ~IsFirst(c) => q.data = first_pkt.data
        /\ Of(first_pkt.data, i) /\ Of(c.data, i) => Of(q.data, i)
    BY <1>1, <1>9, WriteKeeps
  <2>2. Len(q.data) \in Nat
    BY <2>1 DEF KeptOK
  <2> QED BY <1>2, <1>3, <1>4, <1>6, <2>1, <2>2
<1> QED BY <1>7, <1>8, <1>9

\* What the answer makes of the peer, which sent c, when d is executed.
Follows(p, c, d) ==
    /\ p \in [img : Images, base : {0, BankLen}, step : 1 .. Last,
              sent : BOOLEAN, waits : BOOLEAN, gone : BOOLEAN]
    /\ p.sent = peer.sent /\ p.img = peer.img
    /\ p.base \in {peer.base, Base}
    /\ c.op # "base" => p.base = peer.base
    /\ c.op = "base" /\ d.op # "base" => p.step = 1 /\ p.base = peer.base
    /\ c.op = "reboot" => p.step = 1
    /\ c.op = "write" =>
          \/ p.step = peer.step + 1 /\ p.waits = peer.waits
          \/ p.step = peer.step /\ p.waits = TRUE

LEMMA AdvancedIs ==
    ASSUME OtaInv, NEW c, NEW d, NEW p, c = Script(peer.step), p = Advanced(c, d)
    PROVE  Follows(p, c, d)
<1> USE DEF Follows
<1> DEFINE P == [img : Images, base : {0, BankLen}, step : 1 .. Last,
                 sent : BOOLEAN, waits : BOOLEAN, gone : BOOLEAN]
<1>1. peer \in P
  BY DEF OtaInv, PeerInv
<1>2. Base \in {0, BankLen}
  BY Geometry DEF OtaInv, FlashInv
<1>3. Sectors \in Nat \ {0} /\ Packets \in Nat \ {0} /\ Last = Sectors + Packets + 2
  BY Counts
<1>4. peer.step = 1 \/ peer.step \in 2 .. Sectors + 1
      \/ peer.step \in Sectors + 2 .. Last - 1 \/ peer.step = Last
  BY <1>1, <1>3
<1>5. /\ c.op = "base" => peer.step = 1
      /\ c.op = "reboot" <=> peer.step = Last
  BY <1>1, <1>3, <1>4, ScriptIs
<1>6. CASE c.op = "reboot"
  <2>1. p = [peer EXCEPT !.step = 1]
    BY <1>6 DEF Advanced
  <2>2. 1 \in 1 .. Last
    BY <1>3
  <2> QED BY <1>1, <1>6, <2>1, <2>2
<1>7. CASE c.op # "reboot" /\ ~Answered(c, d)
  <2>1. p = [peer EXCEPT !.waits = TRUE]
    BY <1>7 DEF Advanced
  <2> QED BY <1>1, <1>5, <1>7, <2>1
<1>8. CASE c.op # "reboot" /\ Answered(c, d) /\ c.op = "base"
  <2>1. p = [peer EXCEPT !.base = Base, !.step = 2]
    BY <1>8 DEF Advanced
  <2>2. 2 \in 1 .. Last /\ d.op = "base"
    BY <1>3, <1>8 DEF Answered
  <2> QED BY <1>1, <1>2, <1>8, <2>1, <2>2
<1>9. CASE c.op # "reboot" /\ Answered(c, d) /\ c.op # "base"
  <2>1. p = [peer EXCEPT !.step = @ + 1]
    BY <1>9 DEF Advanced
  <2>2. peer.step + 1 \in 1 .. Last
    BY <1>1, <1>3, <1>5, <1>9
  <2> QED BY <1>1, <1>9, <2>1, <2>2
<1> QED BY <1>6, <1>7, <1>8, <1>9

\* The packets after a command that is executed in place of the peer's.
LEMMA ExecKept ==
    ASSUME OtaInv, pc = "idle", cur' = cur, NEW c, Proper(c), Command(c),
           first_pkt'.held => peer'.base = peer.base
    PROVE  KeptOK(first_pkt)'
<1>1. VersionIn(flash, cur)' = VersionIn(flash, cur) /\ VersionIn(flash, cur) \in Nat
  BY ExecFlash
<1>2. KeptOK(first_pkt) /\ KeptOK(NoPkt)
  BY DEF OtaInv, PktInv, KeptOK, NoPkt
<1>3. KeptOK(first_pkt')
  <2>1. CASE first_pkt' \in {first_pkt, NoPkt}
    BY <1>2, <2>1
  <2>2. CASE c.op = "write" /\ first_pkt' = WritePkt(c)
    <3>1. PICK from : Fits(c, from)
      BY <2>2 DEF Proper
    <3>2. cur \in {0, 1} /\ peer.base \in {0, BankLen}
      BY DEF OtaInv, FlashInv, PeerInv
    <3> QED BY <1>1, <1>2, <2>2, <3>1, <3>2, WriteKeeps
  <2> QED BY <2>1, <2>2, CommandDoes
<1> QED BY <1>1, <1>3, KeptMoves

\* The place of the next packet.
LEMMA MulNext ==
    ASSUME NEW m \in Int, NEW n \in Nat
    PROVE  (m + 1) * n = m * n + n
OBVIOUS

\* The bounds on the packets and their image after a write at the peer's
\* place, whether it is answered or not.
LEMMA WriteBound ==
    ASSUME OtaInv, pc = "idle", cur' = cur, NEW c, NEW d, c = Script(peer.step),
           c.op = "write", Fits(d, From), Of(d.data, peer.img), Proper(d), Command(d),
           \/ peer' = peer /\ peer.waits
           \/ /\ peer'.img = peer.img
              /\ \/ peer'.step = peer.step + 1
                 \/ peer'.step = peer.step /\ peer'.waits = TRUE,
           \/ first_pkt.held => Len(first_pkt.data) <= From
           \/ peer.waits /\ ~IsFirst(d)
    PROVE  /\ Of(first_pkt'.data, peer'.img)
           /\ Len(first_pkt'.data) <= From' + (IF peer'.waits THEN First ELSE 0)
<1>1. peer.step \in 1 .. Last /\ peer.img \in Images /\ peer.step > 1
  BY ScriptWrites DEF OtaInv, PeerInv
<1>2. VersionIn(flash, cur) \in Nat
  BY ExecFlash
<1>3. first_pkt.held => Of(first_pkt.data, peer.img)
  BY <1>1 DEF OtaInv, PktInv
<1>4. first_pkt' \in {first_pkt, NoPkt, WritePkt(d)}
  BY CommandDoes
<1>5. /\ Of(first_pkt'.data, peer.img) /\ Len(first_pkt'.data) \in Nat
      /\ Len(first_pkt'.data) <= Len(first_pkt.data) + First
      /\ ~IsFirst(d) => Len(first_pkt'.data) <= Len(first_pkt.data)
      /\ ~first_pkt.held => Len(first_pkt.data) = 0
      /\ Len(first_pkt.data) \in Nat
  BY <1>2, <1>3, <1>4, WriteResult
<1>6. From \in Nat /\ First \in Nat /\ First <= PacketLen /\ PacketLen \in Nat
  BY FirstFacts, OtaConstants DEF Fits
<1>7. first_pkt.held => Len(first_pkt.data) <= From + First
  <2>1. first_pkt.held => Len(first_pkt.data) <= From + (IF peer.waits THEN First ELSE 0)
    BY <1>1 DEF OtaInv, PktInv
  <2> QED BY <1>5, <1>6, <2>1
<1>8. Len(first_pkt'.data) <= From + First
  <2>1. CASE first_pkt.held => Len(first_pkt.data) <= From
    BY <1>5, <1>6, <2>1
  <2>2. CASE ~IsFirst(d)
    BY <1>5, <1>6, <1>7, <2>2
  <2> QED BY <2>1, <2>2
<1>9. peer'.img = peer.img
  OBVIOUS
<1>10. CASE peer'.step = peer.step + 1
  <2>1. From' = From + PacketLen
    <3> DEFINE m == peer.step - Sectors - 2
    <3>1. Sectors \in Nat /\ peer.step \in Nat
      BY <1>1, Counts
    <3>2. From' = (peer'.step - Sectors - 2) * PacketLen
      BY DEF From, Sectors
    <3>3. peer'.step - Sectors - 2 = m + 1 /\ m \in Int
      BY <1>10, <3>1
    <3>4. From = m * PacketLen
      BY DEF From
    <3> HIDE DEF m
    <3>5. (m + 1) * PacketLen = m * PacketLen + PacketLen
      BY <1>6, <3>3, MulNext
    <3> QED BY <3>2, <3>3, <3>4, <3>5
  <2> QED BY <1>5, <1>6, <1>8, <1>9, <2>1
<1>11. CASE peer'.step = peer.step /\ peer'.waits = TRUE
  <2>1. From' = From
    BY <1>11 DEF From, Sectors
  <2> QED BY <1>5, <1>6, <1>8, <1>9, <1>11, <2>1
<1>12. CASE peer' = peer /\ peer.waits
  <2>1. From' = From /\ peer'.waits
    BY <1>12 DEF From, Sectors
  <2> QED BY <1>5, <1>6, <1>8, <1>9, <2>1
<1> QED BY <1>10, <1>11, <1>12

\* A command of the peer.
LEMMA ReceiveInv ==
    ASSUME OtaInv, ~ResendFirst, Receive
    PROVE  OtaInv' /\ Untouched
<1> DEFINE c == Script(peer.step)
<1>0. c = Script(peer.step)
  OBVIOUS
<1>1. Ready /\ recving = NotReceiving /\ Command(c) /\ peer' = Advanced(c, c)
      /\ cur' = cur /\ links' = links /\ recving' = recving
  BY DEF Receive
<1>2. pc = "idle" /\ Phone \in links /\ ~peer.sent /\ ~peer.waits
  BY <1>1 DEF Ready, CanSend, Online
<1>3. Proper(c)
  BY <1>1, ScriptProper
<1>4. /\ peer' \in [img : Images, base : {0, BankLen}, step : 1 .. Last,
                    sent : BOOLEAN, waits : BOOLEAN, gone : BOOLEAN]
      /\ peer'.sent = peer.sent /\ peer'.img = peer.img
      /\ peer'.base \in {peer.base, Base}
      /\ c.op # "base" => peer'.base = peer.base
      /\ c.op = "reboot" => peer'.step = 1
      /\ c.op = "write" =>
            \/ peer'.step = peer.step + 1 /\ peer'.waits = peer.waits
            \/ peer'.step = peer.step /\ peer'.waits = TRUE
  <2> HIDE DEF c
  <2>0. Follows(peer', c, c)
    BY <1>0, <1>1, AdvancedIs
  <2>1. peer' \in [img : Images, base : {0, BankLen}, step : 1 .. Last,
                   sent : BOOLEAN, waits : BOOLEAN, gone : BOOLEAN]
    BY <2>0 DEF Follows
  <2>2. /\ peer'.sent = peer.sent /\ peer'.img = peer.img
        /\ peer'.base \in {peer.base, Base}
        /\ c.op # "base" => peer'.base = peer.base
    BY <2>0 DEF Follows
  <2>3. c.op = "reboot" => peer'.step = 1
    BY <2>0 DEF Follows
  <2>4. c.op = "write" =>
            \/ peer'.step = peer.step + 1 /\ peer'.waits = peer.waits
            \/ peer'.step = peer.step /\ peer'.waits = TRUE
    BY <2>0 DEF Follows
  <2> QED BY <2>1, <2>2, <2>3, <2>4
<1> HIDE DEF c
<1>5. FlashInv' /\ Untouched
  BY <1>1, <1>2, <1>3, ExecFlash
<1>6. peer.step \in 1 .. Last /\ peer.img \in Images
      /\ Sectors \in Nat \ {0} /\ Packets \in Nat \ {0} /\ Last = Sectors + Packets + 2
  BY Counts DEF OtaInv, PeerInv
<1>7. HeaderInv'
  <2>1. c.op = "reboot" => c.img = peer.img /\ peer.step > 1
    <3>1. peer.step = 1 \/ peer.step \in 2 .. Sectors + 1
          \/ peer.step \in Sectors + 2 .. Last - 1 \/ peer.step = Last
      BY <1>6
    <3> QED BY <3>1, <1>6, ScriptIs DEF c
  <2>2. c.op = "reboot" => c.img \in Images /\ (first_pkt.held => Of(first_pkt.data, c.img))
    BY <2>1, <1>6 DEF OtaInv, PktInv
  <2> QED BY <1>1, <1>2, <2>2, ExecHeader
<1>8. PeerInv'
  <2>1. recving' = NotReceiving /\ ~peer'.sent /\ Phone \in links'
    BY <1>1, <1>2, <1>4
  <2> QED BY <1>4, <2>1 DEF PeerInv, NotReceiving
<1>9. first_pkt'.held => peer'.base = peer.base
  <2>1. c.op = "base" => first_pkt' = NoPkt
    BY <1>1, CommandDoes
  <2> QED BY <1>4, <2>1 DEF NoPkt
<1>10. KeptOK(first_pkt)'
  BY <1>1, <1>2, <1>3, <1>9, ExecKept
<1>11. recving' = NotReceiving
  BY <1>1
<1>12. ASSUME first_pkt'.held, peer'.step > 1
       PROVE  /\ Of(first_pkt'.data, peer'.img)
              /\ Len(first_pkt'.data) <= From' + (IF peer'.waits THEN First ELSE 0)
  <2>1. CASE c.op = "write"
    <3>1. Fits(c, From) /\ Of(c.data, peer.img) /\ peer.step > 1
      BY <1>6, <2>1, ScriptWrites DEF c
    <3>2. From \in Nat
      BY <3>1 DEF Fits
    <3>3. first_pkt.held => Len(first_pkt.data) <= From
      BY <1>2, <3>1, <3>2 DEF OtaInv, PktInv
    <3> QED BY <1>1, <1>2, <1>3, <1>4, <2>1, <3>1, <3>3, WriteBound DEF c
  <2>2. CASE c.op = "erase"
    <3>1. peer.step \in 2 .. Sectors + 1
      <4>1. peer.step = 1 \/ peer.step \in 2 .. Sectors + 1
            \/ peer.step \in Sectors + 2 .. Last - 1 \/ peer.step = Last
        BY <1>6
      <4> QED BY <4>1, <1>6, <2>2, ScriptIs DEF c
    <3>2. From < 0
      <4>1. PacketLen \in Nat \ {0} /\ peer.step \in Nat
        BY <1>6, OtaConstants
      <4> DEFINE m == Sectors + 2 - peer.step
      <4>2. m \in Nat /\ m > 0
        BY <1>6, <3>1, <4>1
      <4>3. 0 * PacketLen < m * PacketLen
        BY <4>1, <4>2, MulStrict
      <4>4. From = 0 - m * PacketLen
        BY <1>6, <4>1 DEF From
      <4>5. m * PacketLen \in Nat
        BY <4>1, <4>2
      <4> HIDE DEF m
      <4> QED BY <4>1, <4>3, <4>4, <4>5
    <3>3. From \in Int
      BY <1>6, OtaConstants DEF From
    <3>4. ~first_pkt.held
      <4> SUFFICES ASSUME first_pkt.held PROVE FALSE
        OBVIOUS
      <4>1. Len(first_pkt.data) <= From
        BY <1>2, <3>1, <3>3 DEF OtaInv, PktInv
      <4>2. Len(first_pkt.data) \in Nat
        BY DEF OtaInv, PktInv, KeptOK
      <4> QED BY <3>2, <3>3, <4>1, <4>2
    <3>5. first_pkt' \in {first_pkt, NoPkt}
      BY <1>1, <2>2, CommandDoes
    <3> QED BY <1>12, <3>4, <3>5 DEF NoPkt
  <2>3. CASE c.op = "base"
    <3>1. first_pkt' = NoPkt
      BY <1>1, <2>3, CommandDoes
    <3> QED BY <1>12, <3>1 DEF NoPkt
  <2>4. c.op \in {"write", "erase", "base", "reboot"}
    <3>1. peer.step = 1 \/ peer.step \in 2 .. Sectors + 1
          \/ peer.step \in Sectors + 2 .. Last - 1 \/ peer.step = Last
      BY <1>6
    <3> QED BY <1>6, <3>1, ScriptIs DEF c
  <2> QED BY <1>4, <1>12, <2>1, <2>2, <2>3, <2>4
<1>13. PktInv'
  BY <1>10, <1>11, <1>12 DEF PktInv, NotReceiving, Of
<1> QED BY <1>5, <1>7, <1>8, <1>13 DEF OtaInv

\* A packet at the peer's place that is executed, sent in one part or in two,
\* or repeated.
LEMMA WriteInv ==
    ASSUME OtaInv, pc = "idle", Phone \in links, UNCHANGED <<cur, links>>,
           recving' = NotReceiving,
           NEW c, c = Script(peer.step), c.op = "write", Command(c), Proper(c),
           peer' \in [img : Images, base : {0, BankLen}, step : 1 .. Last,
                      sent : BOOLEAN, waits : BOOLEAN, gone : BOOLEAN],
           ~peer'.sent, peer'.img = peer.img, peer'.base = peer.base,
           \/ peer'.step = peer.step + 1
           \/ peer'.step = peer.step /\ peer'.waits = TRUE,
           \/ first_pkt.held => Len(first_pkt.data) <= From
           \/ peer.waits /\ ~IsFirst(c)
    PROVE  OtaInv' /\ Untouched
<1>1. FlashInv' /\ Untouched
  BY ExecFlash
<1>2. HeaderInv'
  BY ExecHeader
<1>3. PeerInv'
  BY DEF PeerInv, NotReceiving
<1>4. KeptOK(first_pkt)'
  BY ExecKept
<1>5. peer.step \in 1 .. Last /\ peer.img \in Images
  BY DEF OtaInv, PeerInv
<1>6. Fits(c, From) /\ Of(c.data, peer.img)
  BY <1>5, ScriptWrites
<1>7. /\ Of(first_pkt'.data, peer'.img)
      /\ Len(first_pkt'.data) <= From' + (IF peer'.waits THEN First ELSE 0)
  BY <1>6, WriteBound
<1>8. PktInv'
  BY <1>4, <1>7 DEF PktInv, NotReceiving, Of
<1> QED BY <1>1, <1>2, <1>3, <1>8 DEF OtaInv

\* The second part of a packet.
LEMMA Tail2Inv ==
    ASSUME OtaInv, Tail2
    PROVE  OtaInv' /\ Untouched
<1>1. PICK d \in Assembled :
         Command(d) /\ peer' = [Advanced(Script(peer.step), d) EXCEPT !.sent = FALSE]
  BY DEF Tail2
<1>2. /\ pc = "idle" /\ Phone \in links /\ peer.sent
      /\ UNCHANGED <<cur, links>> /\ recving' = NotReceiving
  BY DEF Tail2, Online
<1>3. recving # NotReceiving
  BY <1>2 DEF OtaInv, PeerInv
<1>4. d = Script(peer.step) /\ d.op = "write"
      /\ (first_pkt.held => Len(first_pkt.data) <= From)
  BY <1>1, <1>2, <1>3, Pending
<1>5. peer.step \in 1 .. Last /\ peer.img \in Images
  BY DEF OtaInv, PeerInv
<1>6. Fits(d, From)
  BY <1>4, <1>5, ScriptWrites
<1>7. Proper(d)
  BY <1>4, <1>6 DEF Proper
<1>8. PICK p : p = Advanced(d, d)
  OBVIOUS
<1>9. Follows(p, d, d)
  BY <1>4, <1>8, AdvancedIs
<1>10. p \in [img : Images, base : {0, BankLen}, step : 1 .. Last,
             sent : BOOLEAN, waits : BOOLEAN, gone : BOOLEAN]
  BY <1>4, <1>9 DEF Follows
<1>11. p.img = peer.img /\ p.base = peer.base
  BY <1>4, <1>9 DEF Follows
<1>12. p.step = peer.step + 1 \/ (p.step = peer.step /\ p.waits = TRUE)
  BY <1>4, <1>9 DEF Follows
<1>13. peer' = [p EXCEPT !.sent = FALSE]
  BY <1>1, <1>4, <1>8
<1>14. /\ peer' \in [img : Images, base : {0, BankLen}, step : 1 .. Last,
                     sent : BOOLEAN, waits : BOOLEAN, gone : BOOLEAN]
       /\ ~peer'.sent /\ peer'.img = peer.img /\ peer'.base = peer.base
       /\ \/ peer'.step = peer.step + 1
          \/ peer'.step = peer.step /\ peer'.waits = TRUE
  BY <1>10, <1>11, <1>12, <1>13
<1> QED BY <1>1, <1>2, <1>4, <1>7, <1>14, WriteInv

\* A packet that is repeated lies behind the ones that are kept.
LEMMA RetryInv ==
    ASSUME OtaInv, ~ResendFirst, Retry
    PROVE  OtaInv' /\ Untouched
<1> DEFINE c == Script(peer.step)
<1>1. /\ Repeats(c) /\ Command(c) /\ UNCHANGED <<cur, links, recving>>
      /\ peer' = IF Answered(c, c) THEN [peer EXCEPT !.step = @ + 1, !.waits = FALSE]
                 ELSE peer
  BY DEF Retry
<1>2. /\ pc = "idle" /\ Phone \in links /\ ~peer.sent /\ peer.waits
      /\ recving = NotReceiving /\ c.op = "write" /\ ~IsFirst(c)
  BY <1>1 DEF Repeats, CanSend, Online
<1>3. Proper(c)
  BY <1>1, <1>2, ScriptProper
<1>4. /\ peer \in [img : Images, base : {0, BankLen}, step : 1 .. Last,
                   sent : BOOLEAN, waits : BOOLEAN, gone : BOOLEAN]
      /\ peer.step + 1 \in 1 .. Last
  BY <1>2, ScriptWrites DEF OtaInv, PeerInv
<1>5. c = Script(peer.step)
  OBVIOUS
<1> HIDE DEF c
<1>6. /\ peer' \in [img : Images, base : {0, BankLen}, step : 1 .. Last,
                    sent : BOOLEAN, waits : BOOLEAN, gone : BOOLEAN]
      /\ ~peer'.sent /\ peer'.img = peer.img /\ peer'.base = peer.base
      /\ \/ peer'.step = peer.step + 1
         \/ peer'.step = peer.step /\ peer'.waits = TRUE
  BY <1>1, <1>2, <1>4
<1> QED BY <1>1, <1>2, <1>3, <1>5, <1>6, WriteInv

\* The steps that leave the flash and the packets alone.
LEMMA SameInv ==
    ASSUME OtaInv, UNCHANGED <<flash, cur, first_pkt, recving, pc, links, peer>>
    PROVE  OtaInv' /\ Untouched
<1>1. FlashInv' /\ Untouched
  BY DEF OtaInv, FlashInv, Untouched
<1>2. HeaderInv'
  BY DEF OtaInv, HeaderInv, Base, Of
<1>3. PeerInv'
  BY DEF OtaInv, PeerInv, Script
<1>4. PktInv'
  BY DEF OtaInv, PktInv, KeptOK, High, VersionIn, Base, From, Of
<1> QED BY <1>1, <1>2, <1>3, <1>4 DEF OtaInv

\* A command that only reads.
LEMMA QueryInv ==
    ASSUME OtaInv, Query
    PROVE  OtaInv' /\ Untouched
<1>1. Command([op |-> "version"]) /\ UNCHANGED <<cur, links, recving, peer>>
  BY DEF Query
<1>2. UNCHANGED <<flash, first_pkt, pc>>
  BY <1>1 DEF Command, OTA_CMD_WRITE_DATA, OTA_CMD_GET_STR_BASE, OTA_CMD_PAGE_ERASE,
     OTA_CMD_READ_FW_VER, OTA_CMD_REBOOT
<1> QED BY <1>1, <1>2, SameInv

\* A command taken for the rest of a packet of an earlier update.
LEMMA SwallowedInv ==
    ASSUME OtaInv, Swallowed
    PROVE  OtaInv' /\ Untouched
<1> DEFINE c == Script(peer.step)
<1>1. /\ Ready /\ recving # NotReceiving /\ UNCHANGED <<cur, links>>
      /\ \/ Begin /\ UNCHANGED <<flash, check, first_pkt, pc, recving, peer>>
         \/ /\ \E e \in Mixed : Command(e) /\ peer' = Advanced(c, e)
            /\ recving' = NotReceiving
  BY DEF Swallowed
<1>2. pc = "idle" /\ Phone \in links /\ ~peer.sent
  BY <1>1 DEF Ready, CanSend, Online
<1>3. peer.step = 1 /\ \A e \in Mixed : Proper(e) /\ \E from : Fits(e, from)
  BY <1>1, <1>2, Pending
<1>4. CASE UNCHANGED <<flash, check, first_pkt, pc, recving, peer>>
  BY <1>1, <1>4, SameInv
<1>5. ASSUME NEW e \in Mixed, Command(e), peer' = Advanced(c, e), recving' = NotReceiving
      PROVE  OtaInv' /\ Untouched
  <2>1. Proper(e) /\ e.op = "write"
    BY <1>3 DEF Fits
  <2>2. 1 \in 1 .. Last /\ c.op = "base"
    BY <1>3, Counts, ScriptIs
  <2>3. c = Script(peer.step)
    OBVIOUS
  <2> HIDE DEF c
  <2>4. /\ peer' \in [img : Images, base : {0, BankLen}, step : 1 .. Last,
                      sent : BOOLEAN, waits : BOOLEAN, gone : BOOLEAN]
        /\ peer'.sent = peer.sent
    <3>1. Follows(peer', c, e)
      BY <1>5, <2>3, AdvancedIs
    <3> QED BY <3>1 DEF Follows
  <2>5. peer'.sent = peer.sent
    BY <2>4
  <2>6. peer'.step = 1 /\ peer'.base = peer.base
    <3>1. c.op = "base" /\ e.op # "base"
      BY <2>1, <2>2
    <3>2. peer' = [peer EXCEPT !.waits = TRUE]
      BY <1>5, <3>1 DEF Advanced, Answered
    <3> QED BY <1>3, <3>2 DEF OtaInv, PeerInv
  <2>7. FlashInv' /\ Untouched
    BY <1>1, <1>2, <1>5, <2>1, ExecFlash
  <2>8. HeaderInv'
    BY <1>1, <1>2, <1>5, <2>1, ExecHeader
  <2>9. PeerInv'
    BY <1>1, <1>2, <1>5, <2>4, <2>5 DEF PeerInv, NotReceiving
  <2>10. KeptOK(first_pkt)'
    BY <1>1, <1>2, <1>5, <2>1, <2>6, ExecKept
  <2>11. PktInv'
    BY <1>5, <2>6, <2>10 DEF PktInv, NotReceiving
  <2> QED BY <2>7, <2>8, <2>9, <2>11 DEF OtaInv
<1> QED BY <1>1, <1>4, <1>5

\* The peer's own steps: what it sent first is the packet whose rest is due.
LEMMA PeerSteps ==
    ASSUME OtaInv, UNCHANGED <<flash, cur, first_pkt, pc>>,
           PeerInv', peer'.base = peer.base,
           (first_pkt.held /\ recving' # NotReceiving) =>
               Len(first_pkt.data) <= recving'.cmd.addr - Base,
           \/ peer'.step = 1
           \/ peer'.step = peer.step /\ peer'.img = peer.img /\ peer'.waits = peer.waits
    PROVE  OtaInv' /\ Untouched
<1>1. FlashInv' /\ Untouched
  BY DEF OtaInv, FlashInv, Untouched
<1>2. HeaderInv'
  BY DEF OtaInv, HeaderInv, Base, Of
<1>3. KeptOK(first_pkt)'
  BY DEF OtaInv, PktInv, KeptOK, High, VersionIn, Base
<1>4. PktInv'
  <2>1. Base' = Base
    BY DEF Base
  <2>2. ASSUME first_pkt'.held, peer'.step > 1
        PROVE  /\ Of(first_pkt'.data, peer'.img)
               /\ Len(first_pkt'.data) <= From' + (IF peer'.waits THEN First ELSE 0)
    <3>1. peer'.step = peer.step /\ peer'.img = peer.img /\ peer'.waits = peer.waits
      BY <2>2
    <3>2. From' = From
      BY <3>1 DEF From, Sectors
    <3> QED BY <2>2, <3>1, <3>2 DEF OtaInv, PktInv
  <2> QED BY <1>3, <2>1, <2>2 DEF PktInv, NotReceiving, Of
<1> QED BY <1>1, <1>2, <1>4 DEF OtaInv

\* A packet is a write command, and so not NoCmd.
LEMMA PacketIsWrite ==
    ASSUME NEW j \in 0 .. Packets - 1, NEW i \in Images, peer.base \in {0, BankLen}
    PROVE  [op |-> "write", addr |-> peer.base + j * PacketLen,
            data |-> Packet(i, j * PacketLen)] \in Write
<1>1. j * PacketLen \in 0 .. ImageLen - 1 /\ Packet(i, j * PacketLen) \in Seq(Content)
  BY PacketFacts
<1>2. Packet(i, j * PacketLen) \in Seq(Cell)
  BY <1>1 DEF Cell
<1>3. peer.base + j * PacketLen \in Nat
  BY <1>1, OtaConstants
<1> QED BY <1>2, <1>3 DEF Write

\* The first part of a packet: HeadKept says that there was a buffer for it.
LEMMA NullInv ==
    ASSUME OtaInv, OTA_CMD_NULL, HeadKept'
    PROVE  OtaInv' /\ Untouched
<1> DEFINE c == Script(peer.step)
<1>1. /\ Ready /\ recving = NotReceiving /\ c.op = "write"
      /\ recving' = [cmd |-> c, head |-> Buffer]
      /\ peer' = [peer EXCEPT !.sent = TRUE]
      /\ UNCHANGED <<flash, cur, first_pkt, pc, links>>
  BY DEF OTA_CMD_NULL
<1>2. pc = "idle" /\ Phone \in links /\ ~peer.waits
  BY <1>1 DEF Ready, CanSend, Online
<1>3. /\ peer \in [img : Images, base : {0, BankLen}, step : 1 .. Last,
                   sent : BOOLEAN, waits : BOOLEAN, gone : BOOLEAN]
      /\ peer.step \in 1 .. Last /\ peer.img \in Images /\ peer.base \in {0, BankLen}
  BY DEF OtaInv, PeerInv
<1>4. PICK j \in 0 .. Packets - 1 :
         /\ From = j * PacketLen
         /\ c = [op |-> "write", addr |-> peer.base + j * PacketLen,
                 data |-> Packet(peer.img, j * PacketLen)]
  BY <1>1, <1>3, ScriptWrites
<1>5. peer.step > 1
  BY <1>1, <1>3, ScriptWrites
<1>6. c \in Write
  BY <1>3, <1>4, PacketIsWrite
<1>7. recving' = [cmd |-> c, head |-> TRUE]
  <2>1. recving' # NotReceiving
    BY <1>1, <1>6, OtaConstants DEF NotReceiving
  <2>2. recving'.head
    BY <2>1 DEF HeadKept, NotReceiving
  <2>3. Buffer
    BY <1>1, <2>2
  <2> QED BY <1>1, <2>3
<1>8. Script(peer.step)' = c
  BY <1>1, <1>3 DEF Script
<1>9. PeerInv'
  <2>1. peer'.base = peer.base
    BY <1>1, <1>3
  <2>2. recving' = [cmd |-> [op |-> "write", addr |-> peer'.base + j * PacketLen,
                             data |-> Packet(peer.img, j * PacketLen)],
                    head |-> TRUE]
    BY <1>4, <1>7, <2>1
  <2>3. /\ peer' \in [img : Images, base : {0, BankLen}, step : 1 .. Last,
                      sent : BOOLEAN, waits : BOOLEAN, gone : BOOLEAN]
        /\ peer'.sent
    BY <1>1, <1>3
  <2>4. recving' # NotReceiving
    BY <1>6, <1>7, OtaConstants DEF NotReceiving
  <2>5. recving'.cmd = Script(peer.step)'
    BY <1>7, <1>8
  <2>6. pc' = "idle" /\ Phone \in links'
    BY <1>1, <1>2
  <2> HIDE DEF c
  <2> QED BY <1>3, <2>2, <2>3, <2>4, <2>5, <2>6 DEF PeerInv, NotReceiving
<1>10. first_pkt.held => Len(first_pkt.data) <= recving'.cmd.addr - Base
  <2> SUFFICES ASSUME first_pkt.held PROVE Len(first_pkt.data) <= recving'.cmd.addr - Base
    OBVIOUS
  <2>1. peer.base = Base /\ Len(first_pkt.data) <= From + (IF peer.waits THEN First ELSE 0)
    BY <1>5 DEF OtaInv, PktInv, KeptOK
  <2>2. From \in Nat /\ Base \in Nat
    BY <1>1, <1>3, ScriptWrites, Geometry DEF Fits, OtaInv, FlashInv
  <2>3. recving'.cmd.addr = peer.base + From
    BY <1>4, <1>7
  <2> QED BY <1>2, <2>1, <2>2, <2>3
<1>11. peer'.base = peer.base /\ peer'.step = peer.step /\ peer'.img = peer.img
       /\ peer'.waits = peer.waits
  BY <1>1, <1>3
<1> QED BY <1>1, <1>9, <1>10, <1>11, PeerSteps

\* The peer gives up.
LEMMA StartOverInv ==
    ASSUME OtaInv, StartOver
    PROVE  OtaInv' /\ Untouched
<1>1. PICK i \in Images :
         peer' = [peer EXCEPT !.img = i, !.step = 1, !.sent = FALSE, !.waits = FALSE]
  BY DEF StartOver
<1>2. UNCHANGED <<flash, cur, first_pkt, pc, links, recving>>
  BY DEF StartOver, ram
<1>3. peer \in [img : Images, base : {0, BankLen}, step : 1 .. Last,
                sent : BOOLEAN, waits : BOOLEAN, gone : BOOLEAN]
  BY DEF OtaInv, PeerInv
<1>4. /\ peer' \in [img : Images, base : {0, BankLen}, step : 1 .. Last,
                    sent : BOOLEAN, waits : BOOLEAN, gone : BOOLEAN]
      /\ peer'.step = 1 /\ ~peer'.sent /\ peer'.base = peer.base
  <2>1. 1 \in 1 .. Last
    BY Counts
  <2> QED BY <1>1, <1>3, <2>1
<1>5. PeerInv'
  BY <1>2, <1>4 DEF OtaInv, PeerInv, NotReceiving
<1> QED BY <1>2, <1>4, <1>5, PeerSteps DEF OtaInv, PktInv

\* The peer leaves.
LEMMA LeaveInv ==
    ASSUME OtaInv, Leave
    PROVE  OtaInv' /\ Untouched
<1>1. peer' = [peer EXCEPT !.gone = TRUE]
      /\ UNCHANGED <<flash, cur, first_pkt, pc, links, recving>>
  BY DEF Leave, ram
<1>2. peer \in [img : Images, base : {0, BankLen}, step : 1 .. Last,
                sent : BOOLEAN, waits : BOOLEAN, gone : BOOLEAN]
  BY DEF OtaInv, PeerInv
<1>3. /\ peer' \in [img : Images, base : {0, BankLen}, step : 1 .. Last,
                    sent : BOOLEAN, waits : BOOLEAN, gone : BOOLEAN]
      /\ peer'.step = peer.step /\ peer'.sent = peer.sent /\ peer'.base = peer.base
      /\ peer'.img = peer.img /\ peer'.waits = peer.waits
  BY <1>1, <1>2
<1>4. Script(peer.step)' = Script(peer.step)
  BY <1>3 DEF Script
<1>5. PeerInv'
  BY <1>1, <1>3, <1>4 DEF OtaInv, PeerInv, NotReceiving
<1> QED BY <1>1, <1>3, <1>5, PeerSteps DEF OtaInv, PktInv

\* After a reset from a flash of which one bank is fine.
LEMMA ResetInv ==
    ASSUME OtaInv, NEW f \in [Addr -> Cell], NEW b \in {0, 1}, Fine(f, b), Reset(f),
           peer' \in [img : Images, base : {0, BankLen}, step : 1 .. Last,
                      sent : BOOLEAN, waits : BOOLEAN, gone : BOOLEAN],
           ~peer'.sent
    PROVE  OtaInv'
<1>1. /\ flash' = f /\ cur' = b /\ pc' = "idle" /\ links' = {}
      /\ first_pkt' = NoPkt /\ recving' = NotReceiving
  BY BootFine DEF Reset, Cleared
<1>2. FlashInv'
  BY <1>1 DEF FlashInv
<1>3. HeaderInv'
  BY <1>1 DEF HeaderInv
<1>4. PeerInv'
  BY <1>1 DEF PeerInv, NotReceiving, NoPkt
<1>5. PktInv'
  BY <1>1 DEF PktInv, KeptOK, NoPkt, NotReceiving
<1> QED BY <1>2, <1>3, <1>4, <1>5 DEF OtaInv

\* A fault that resets the chip.
LEMMA NullBufferInv ==
    ASSUME OtaInv, NullBuffer
    PROVE  OtaInv' /\ Untouched
<1>1. /\ pc = "idle" /\ Reset(flash) /\ peer' = [peer EXCEPT !.sent = FALSE]
      /\ flash' = flash
  BY DEF NullBuffer, Online, Reset
<1>2. flash \in [Addr -> Cell] /\ cur \in {0, 1} /\ Fine(flash, cur)
  BY <1>1 DEF OtaInv, FlashInv
<1>3. /\ peer' \in [img : Images, base : {0, BankLen}, step : 1 .. Last,
                    sent : BOOLEAN, waits : BOOLEAN, gone : BOOLEAN]
      /\ ~peer'.sent
  BY <1>1 DEF OtaInv, PeerInv
<1> QED BY <1>1, <1>2, <1>3, ResetInv DEF Untouched

\* The reset that ends a REBOOT command.
LEMMA RestartInv ==
    ASSUME OtaInv, Restart
    PROVE  OtaInv' /\ Untouched
<1>1. pc = "reset" /\ Reset(flash) /\ peer' = peer /\ flash' = flash
  BY DEF Restart, Reset
<1>2. flash \in [Addr -> Cell] /\ \E b \in {0, 1} : Fine(flash, b)
  BY <1>1 DEF OtaInv, FlashInv
<1>3. /\ peer' \in [img : Images, base : {0, BankLen}, step : 1 .. Last,
                    sent : BOOLEAN, waits : BOOLEAN, gone : BOOLEAN]
      /\ ~peer'.sent
  BY <1>1 DEF OtaInv, PeerInv
<1> QED BY <1>1, <1>2, <1>3, ResetInv DEF Untouched

\* The commands that a power failure may cut.
LEMMA ExecutingProper ==
    ASSUME OtaInv, ~ResendFirst, NEW c \in Executing
    PROVE  pc = "idle" /\ Proper(c)
<1>1. CASE recving = NotReceiving
  <2>1. c = Script(peer.step) /\ (Ready \/ Repeats(Script(peer.step)))
    BY <1>1 DEF Executing
  <2>2. pc = "idle"
    BY <2>1 DEF Ready, Repeats, CanSend, Online
  <2> QED BY <1>1, <2>1, <2>2, ScriptProper
<1>2. CASE recving # NotReceiving /\ Online /\ peer.sent
  <2>1. c \in Assembled
    BY <1>2 DEF Executing
  <2>2. c = Script(peer.step) /\ c.op = "write" /\ (first_pkt.held => Len(first_pkt.data) <= From)
    BY <1>2, <2>1, Pending
  <2>3. Fits(c, From)
    BY <2>2, ScriptWrites DEF OtaInv, PeerInv
  <2> QED BY <1>2, <2>2, <2>3 DEF Proper, Online
<1>3. CASE recving # NotReceiving /\ Online /\ ~peer.sent
  <2>1. c \in Mixed
    BY <1>3 DEF Executing
  <2> QED BY <1>3, <2>1, Pending DEF Online
<1> QED BY <1>1, <1>2, <1>3 DEF Executing

\* A power failure, at any point of any flash operation.
LEMMA PowerFailInv ==
    ASSUME OtaInv, ~ResendFirst, PowerFail
    PROVE  OtaInv' /\ Untouched
<1>1. /\ peer' \in [img : Images, base : {0, BankLen}, step : 1 .. Last,
                    sent : BOOLEAN, waits : BOOLEAN, gone : BOOLEAN]
      /\ ~peer'.sent
  BY DEF PowerFail, OtaInv, PeerInv
<1>2. flash \in [Addr -> Cell] /\ cur \in {0, 1} /\ KeptOK(first_pkt)
      /\ peer.base \in {0, BankLen}
  BY DEF OtaInv, FlashInv, PktInv, PeerInv
<1>3. CASE Reset(flash)
  <2>1. \E b \in {0, 1} : Fine(flash, b)
    BY <1>2 DEF OtaInv, FlashInv
  <2>2. flash' = flash
    BY <1>3 DEF Reset
  <2> QED BY <1>1, <1>2, <1>3, <2>1, <2>2, ResetInv DEF Untouched
<1>4. ASSUME NEW c \in Executing, NEW f \in Cut(flash, FlashAfter(c)), Reset(f)
      PROVE  OtaInv' /\ Untouched
  <2>1. pc = "idle" /\ Proper(c)
    BY <1>4, ExecutingProper
  <2>2. Quiet(flash, FlashAfter(c))
    BY <1>2, <2>1, FlashAfterQuiet
  <2>3. Quiet(flash, f)
    BY <1>2, <1>4, <2>2, QuietCut
  <2>4. Fine(flash, cur)
    BY <2>1 DEF OtaInv, FlashInv
  <2>5. f \in [Addr -> Cell] /\ Fine(f, cur)
    BY <1>2, <2>3, <2>4, QuietFine
  <2>6. flash' = f
    BY <1>4 DEF Reset
  <2>7. Untouched
    BY <2>3, <2>6 DEF Quiet, Untouched
  <2> QED BY <1>1, <1>2, <1>4, <2>5, <2>7, ResetInv
<1>5. ASSUME pc = "header", NEW f \in Cut(flash, HeaderFlash), Reset(f)
      PROVE  OtaInv' /\ Untouched
  <2>1. /\ f \in [Addr -> Cell] /\ \A a \in Bank(cur) : f[a] = flash[a]
        /\ \E b \in {0, 1} : Fine(f, b)
    BY <1>2, <1>5, HeaderStep DEF OtaInv
  <2>2. flash' = f
    BY <1>5 DEF Reset
  <2> QED BY <1>1, <1>5, <2>1, <2>2, ResetInv DEF Untouched
<1> QED BY <1>3, <1>4, <1>5 DEF PowerFail

\* The header is written.
LEMMA WriteHeaderInv ==
    ASSUME OtaInv, WriteHeader
    PROVE  OtaInv' /\ Untouched
<1>1. /\ pc = "header" /\ flash' = HeaderFlash /\ pc' = "reset"
      /\ UNCHANGED <<cur, first_pkt, recving, links, peer>>
  BY DEF WriteHeader, ram
<1>2. /\ HeaderFlash \in [Addr -> Cell] /\ \A a \in Bank(cur) : HeaderFlash[a] = flash[a]
      /\ \E b \in {0, 1} : Fine(HeaderFlash, b)
  BY <1>1, HeaderStep DEF OtaInv, PktInv
<1>3. FlashInv' /\ Untouched
  BY <1>1, <1>2 DEF OtaInv, FlashInv, Untouched
<1>4. HeaderInv'
  BY <1>1 DEF HeaderInv
<1>5. PeerInv'
  <2>1. Script(peer.step)' = Script(peer.step)
    BY <1>1 DEF Script
  <2> QED BY <1>1, <2>1 DEF OtaInv, PeerInv
<1>6. VersionIn(flash, cur)' = VersionIn(flash, cur)
  <2>1. cur \in {0, 1}
    BY DEF OtaInv, FlashInv
  <2>2. cur * BankLen + 0 \in Bank(cur) /\ cur * BankLen + 0 = cur * BankLen
    BY <2>1, Geometry, Front
  <2>3. HeaderFlash[cur * BankLen] = flash[cur * BankLen]
    BY <1>2, <2>2
  <2> QED BY <1>1, <2>3 DEF VersionIn
<1>7. KeptOK(first_pkt)'
  BY <1>1, <1>6, KeptMoves DEF OtaInv, PktInv
<1>8. PktInv'
  <2>1. Base' = Base /\ From' = From
    BY <1>1 DEF Base, From, Sectors
  <2> QED BY <1>1, <1>7, <2>1 DEF OtaInv, PktInv, NotReceiving, Of
<1> QED BY <1>3, <1>4, <1>5, <1>8 DEF OtaInv

\* The link events and the timer free the packets.
LEMMA FreedInv ==
    ASSUME OtaInv, UNCHANGED <<flash, cur, pc>>, pc = "idle", first_pkt' = NoPkt, PeerInv'
    PROVE  OtaInv' /\ Untouched
<1>1. FlashInv' /\ Untouched
  BY DEF OtaInv, FlashInv, Untouched
<1>2. HeaderInv'
  BY DEF HeaderInv
<1>3. PktInv'
  BY DEF PktInv, KeptOK, NoPkt
<1> QED BY <1>1, <1>2, <1>3 DEF OtaInv

\* A packet whose first part is lost with the buffer goes on being assembled.
LEMMA HeadLost ==
    ASSUME OtaInv, Lost, HeadKept'
    PROVE  recving = NotReceiving /\ recving' = NotReceiving /\ ~peer.sent
<1>1. recving = NotReceiving
  <2> SUFFICES ASSUME recving # NotReceiving PROVE FALSE
    OBVIOUS
  <2>1. PICK j \in 0 .. Packets - 1, i \in Images :
           recving = [cmd |-> [op |-> "write", addr |-> peer.base + j * PacketLen,
                               data |-> Packet(i, j * PacketLen)],
                      head |-> TRUE]
    BY DEF OtaInv, PeerInv
  <2>4. peer.base \in {0, BankLen}
    BY DEF OtaInv, PeerInv
  <2>6. [op |-> "write", addr |-> peer.base + j * PacketLen,
         data |-> Packet(i, j * PacketLen)] \in Write
    BY <2>4, PacketIsWrite
  <2>7. recving.cmd \in Write /\ recving' = [cmd |-> recving.cmd, head |-> FALSE]
    BY <2>1, <2>6 DEF Lost
  <2>8. recving' # NotReceiving
    BY <2>7, OtaConstants DEF NotReceiving
  <2> QED BY <2>7, <2>8 DEF HeadKept, NotReceiving
<1>2. recving' = NotReceiving
  BY <1>1 DEF Lost, NotReceiving
<1> QED BY <1>1, <1>2 DEF OtaInv, PeerInv

\* The session times out.
LEMMA TimerInv ==
    ASSUME OtaInv, os_timer_ota_cb, HeadKept'
    PROVE  OtaInv' /\ Untouched
<1>1. /\ pc = "idle" /\ first_pkt' = NoPkt /\ Lost
      /\ UNCHANGED <<flash, cur, pc, links, peer>>
  BY DEF os_timer_ota_cb, OtaStop, OtaDeinit
<1>2. recving' = NotReceiving /\ ~peer.sent
  BY <1>1, HeadLost
<1>3. PeerInv'
  BY <1>1, <1>2 DEF OtaInv, PeerInv, NotReceiving, NoPkt
<1> QED BY <1>1, <1>3, FreedInv

\* A link is lost.
LEMMA LinkLostInv ==
    ASSUME OtaInv, NEW l \in Links, GATTC_MSG_LINK_LOST(l), HeadKept'
    PROVE  OtaInv' /\ Untouched
<1>1. /\ pc = "idle" /\ first_pkt' = NoPkt /\ Lost
      /\ UNCHANGED <<flash, cur, pc>>
      /\ peer' = [peer EXCEPT !.sent = @ /\ l # Phone]
  BY DEF GATTC_MSG_LINK_LOST, OtaDeinit
<1>2. recving' = NotReceiving /\ ~peer.sent
  BY <1>1, HeadLost
<1>3. /\ peer' \in [img : Images, base : {0, BankLen}, step : 1 .. Last,
                    sent : BOOLEAN, waits : BOOLEAN, gone : BOOLEAN]
      /\ ~peer'.sent
  BY <1>1, <1>2 DEF OtaInv, PeerInv
<1>4. PeerInv'
  BY <1>1, <1>2, <1>3 DEF PeerInv, NotReceiving, NoPkt
<1> QED BY <1>1, <1>4, FreedInv

\* A link is created: the peer may resume with a base address it remembers.
LEMMA LinkCreateInv ==
    ASSUME OtaInv, NEW l \in Links, GATTC_MSG_LINK_CREATE(l)
    PROVE  OtaInv' /\ Untouched
<1>1. /\ pc = "idle" /\ l \notin links /\ links' = links \cup {l}
      /\ UNCHANGED <<flash, cur, first_pkt, recving, pc>>
      /\ IF l = Phone
         THEN peer' \in {[peer EXCEPT !.waits = FALSE, !.step = s] : s \in {peer.step, 2}}
         ELSE peer' = peer
  BY DEF GATTC_MSG_LINK_CREATE
<1>2. CASE l = Phone
  <2>1. recving = NotReceiving /\ ~first_pkt.held /\ ~peer.sent
    BY <1>1, <1>2 DEF OtaInv, PeerInv
  <2>2. 2 \in 1 .. Last
    BY Counts
  <2>3. PICK s \in {peer.step, 2} : peer' = [peer EXCEPT !.waits = FALSE, !.step = s]
    BY <1>1, <1>2
  <2>4. /\ peer' \in [img : Images, base : {0, BankLen}, step : 1 .. Last,
                      sent : BOOLEAN, waits : BOOLEAN, gone : BOOLEAN]
        /\ ~peer'.sent
    BY <2>1, <2>2, <2>3 DEF OtaInv, PeerInv
  <2>5. Phone \in links'
    BY <1>1, <1>2
  <2>6. PeerInv'
    BY <1>1, <2>1, <2>4, <2>5 DEF PeerInv, NotReceiving
  <2>7. first_pkt = NoPkt
    BY <2>1 DEF OtaInv, PktInv, KeptOK
  <2> QED BY <1>1, <2>6, <2>7, FreedInv
<1>3. CASE l # Phone
  <2>1. peer' = peer /\ (Phone \in links' <=> Phone \in links)
    BY <1>1, <1>3
  <2>2. Script(peer.step)' = Script(peer.step)
    BY <2>1 DEF Script
  <2>3. PeerInv'
    BY <1>1, <2>1, <2>2 DEF OtaInv, PeerInv
  <2>4. recving' = recving
        /\ (first_pkt.held /\ recving # NotReceiving =>
               Len(first_pkt.data) <= recving.cmd.addr - Base)
    BY <1>1 DEF OtaInv, PktInv
  <2> QED BY <1>1, <2>1, <2>3, <2>4, PeerSteps
<1> QED BY <1>2, <1>3

\* The initial state.
LEMMA InitInv ==
    ASSUME Init
    PROVE  OtaInv
<1>1. Factory \in Images /\ 1 \in 1 .. Last
  BY Counts, OtaConstants
<1>2. flash \in [Addr -> Cell]
  <2>1. \A a \in Addr : a \in Nat
    BY OtaConstants DEF Addr
  <2>2. \A a \in Addr : Unit(Factory, a) \in Content
    BY <1>1, <2>1, UnitContent
  <2> QED BY <2>2 DEF Init, Cell
<1>3. Whole(flash, 0)
  <2>1. ASSUME NEW u \in 0 .. ImageLen - 1
        PROVE  /\ flash[0 * BankLen + u] \notin {Erased, Junk}
               /\ flash[0 * BankLen + u].img = Factory /\ flash[0 * BankLen + u].unit = u
    <3>1. 0 * BankLen + u = u /\ u \in Addr /\ u < ImageLen /\ u \in Nat
      BY OtaConstants DEF Addr
    <3>2. flash[u] = Unit(Factory, u) /\ Unit(Factory, u) \in Content
      BY <1>1, <3>1, UnitContent DEF Init
    <3>3. flash[0 * BankLen + u] = Unit(Factory, u)
      BY <3>1, <3>2
    <3>4. /\ Unit(Factory, u) \notin {Erased, Junk}
          /\ Unit(Factory, u).img = Factory /\ Unit(Factory, u).unit = u
      <4>1. Unit(Factory, u).img = Factory /\ Unit(Factory, u).unit = u
        BY DEF Unit
      <4> QED BY <3>2, <4>1, OtaConstants
    <3> QED BY <3>3, <3>4
  <2> QED BY <1>1, <2>1 DEF Whole, Holds
<1>4. ~Rival(flash, 0)
  <2>1. (1 - 0) * BankLen = BankLen /\ BankLen \in Addr /\ ~(BankLen < ImageLen)
    BY OtaConstants DEF Addr
  <2>2. flash[BankLen] = Erased
    BY <2>1 DEF Init
  <2> QED BY <2>1, <2>2 DEF Rival
<1>5. FlashInv
  BY <1>2, <1>3, <1>4 DEF Init, FlashInv, Fine
<1>6. HeaderInv
  BY DEF Init, HeaderInv
<1>7. PeerInv
  BY <1>1 DEF Init, PeerInv, NotReceiving, NoPkt
<1>8. PktInv
  BY DEF Init, PktInv, KeptOK, NoPkt, NotReceiving
<1> QED BY <1>5, <1>6, <1>7, <1>8 DEF OtaInv

(***************************************************************************)
(* Every step.                                                             *)
(***************************************************************************)
LEMMA NextInv ==
    ASSUME ~ResendFirst, OtaInv, HeadKept', [Next]_vars
    PROVE  OtaInv' /\ Untouched
<1>1. CASE Receive
  BY <1>1, ReceiveInv
<1>2. CASE Query
  BY <1>2, QueryInv
<1>3. CASE OTA_CMD_NULL
  BY <1>3, NullInv
<1>4. CASE NullBuffer
  BY <1>4, NullBufferInv
<1>5. CASE Tail2
  BY <1>5, Tail2Inv
<1>6. CASE Swallowed
  BY <1>6, SwallowedInv
<1>7. CASE Retry
  BY <1>7, RetryInv
<1>8. CASE Subscribe
  BY <1>8, SameInv DEF Subscribe, ram
<1>9. CASE StartOver
  BY <1>9, StartOverInv
<1>10. CASE Leave
  BY <1>10, LeaveInv
<1>11. CASE WriteHeader
  BY <1>11, WriteHeaderInv
<1>12. CASE Restart
  BY <1>12, RestartInv
<1>13. CASE os_timer_ota_cb
  BY <1>13, TimerInv
<1>14. CASE PowerFail
  BY <1>14, PowerFailInv
<1>15. ASSUME NEW l \in Links, GATTC_MSG_LINK_CREATE(l)
       PROVE  OtaInv' /\ Untouched
  BY <1>15, LinkCreateInv
<1>16. ASSUME NEW l \in Links, GATTC_MSG_LINK_LOST(l)
       PROVE  OtaInv' /\ Untouched
  BY <1>16, LinkLostInv
<1>17. CASE UNCHANGED vars
  BY <1>17, SameInv DEF vars, ram
<1> QED BY <1>1, <1>2, <1>3, <1>4, <1>5, <1>6, <1>7, <1>8, <1>9, <1>10, <1>11, <1>12,
        <1>13, <1>14, <1>15, <1>16, <1>17 DEF Next

\* A fine bank is the one that boots.
LEMMA InvBoots ==
    ASSUME OtaInv
    PROVE  BootsIntact
<1>1. flash \in [Addr -> Cell] /\ \E b \in {0, 1} : Fine(flash, b)
  BY DEF OtaInv, FlashInv
<1>2. PICK b \in {0, 1} : Fine(flash, b)
  BY <1>1
<1>3. Boot(flash) = b
  BY <1>1, <1>2, BootFine
<1> QED BY <1>2, <1>3 DEF Fine, Whole, BootsIntact

(***************************************************************************)
(* The invariant of the update holds through any interleaving of commands, *)
(* link events, time-outs and power failures, as long as no packet is      *)
(* assembled without its first part (ota.c:225-520, ota_service.c:153-171).*)
(***************************************************************************)
THEOREM OtaInductive ==
    ASSUME ~ResendFirst
    PROVE  Spec /\ []HeadKept => []OtaInv
<1>1. Init => OtaInv
  BY InitInv
<1>2. OtaInv /\ HeadKept' /\ [Next]_vars => OtaInv'
  BY NextInv
<1> QED BY <1>1, <1>2, PTL DEF Spec

(***************************************************************************)
(* Whenever the power fails, the ROM boots an image, and a complete one    *)
(* (ota.c:440-470, 489-520).                                               *)
(***************************************************************************)
THEOREM BootsIntactAlways ==
    ASSUME ~ResendFirst
    PROVE  Spec /\ []HeadKept => []BootsIntact
<1>1. Spec /\ []HeadKept => []OtaInv
  BY OtaInductive
<1>2. OtaInv => BootsIntact
  BY InvBoots
<1> QED BY <1>1, <1>2, PTL

(***************************************************************************)
(* As long as no packet has lost its first part, no command, whole or cut  *)
(* by a power failure, changes the bank that runs (ota.c:353-374,          *)
(* 418-459).                                                               *)
(***************************************************************************)
THEOREM RunningUntouchedAlways ==
    ASSUME ~ResendFirst
    PROVE  HSpec => RunningUntouched
<1> DEFINE Before == ~headless => OtaInv
<1>1. HInit => Before
  BY InitInv DEF HInit
<1>2. Before /\ [HNext]_hvars =>
         Before' /\ [~headless' => \A a \in Bank(cur) : flash'[a] = flash[a]]_hvars
  <2> SUFFICES ASSUME Before, [HNext]_hvars, ~headless'
               PROVE  /\ OtaInv'
                      /\ [\A a \in Bank(cur) : flash'[a] = flash[a]]_hvars
    BY DEF Before
  <2>1. CASE HNext
    <3>1. ~headless /\ HeadKept' /\ Next
      BY <2>1 DEF HNext, Remember
    <3> QED BY <3>1, NextInv DEF Before, Untouched
  <2>2. CASE UNCHANGED hvars
    BY <2>2, SameInv DEF Before, hvars, vars, ram
  <2> QED BY <2>1, <2>2
<1> QED BY <1>1, <1>2, PTL DEF HSpec, RunningUntouched

-----------------------------------------------------------------------------
(* How much is kept *)

\* A command keeps no more than the header page needs.
LEMMA CommandBound ==
    ASSUME OtaInv, KeptBound, pc = "idle", NEW c, Proper(c), Command(c)
    PROVE  KeptBound'
<1>1. cur \in {0, 1} /\ peer.base \in {0, BankLen} /\ KeptOK(first_pkt)
  BY DEF OtaInv, FlashInv, PeerInv, PktInv
<1>2. First \in Nat \ {0} /\ NumFirst \in Nat \ {0} /\ First <= NumFirst * First
      /\ NumFirst * First \in Nat
  <2>1. First \in Nat \ {0} /\ NumFirst \in Nat \ {0}
    BY FirstFacts
  <2>2. 1 * First <= NumFirst * First
    BY <2>1, MulMono
  <2> QED BY <2>1, <2>2
<1>3. Len(first_pkt.data) \in Nat /\ Len(first_pkt.data) <= NumFirst * First
  <2>1. Len(first_pkt.data) \in Nat
    BY <1>1 DEF KeptOK
  <2>2. CASE first_pkt.held
    BY <2>1, <2>2 DEF KeptBound
  <2>3. CASE ~first_pkt.held
    BY <1>1, <1>2, <2>3 DEF KeptOK, NoPkt
  <2> QED BY <2>1, <2>2, <2>3
<1>4. CASE first_pkt' \in {first_pkt, NoPkt}
  BY <1>4 DEF KeptBound, NoPkt
<1>5. CASE c.op = "write" /\ first_pkt' = WritePkt(c)
  <2>1. PICK from : /\ Fits(c, from)
                    /\ (first_pkt.held /\ IsFirst(c)) => Len(first_pkt.data) <= from
    BY <1>5 DEF Proper
  <2>2. CASE ~IsFirst(c) \/ ~Allocated(c).held
    <3>1. first_pkt'.data = first_pkt.data
      BY <1>1, <1>5, <2>1, <2>2, AllocatedKept DEF WritePkt
    <3> QED BY <1>3, <3>1 DEF KeptBound
  <2>3. CASE IsFirst(c) /\ Allocated(c).held
    <3>6. from + First <= NumFirst * First
      BY <1>1, <2>1, <2>3, HeldBound
    <3>1. from + First <= NumFirst * First /\ from \in Nat
      BY <2>1, <3>6 DEF Fits
    <3>2. VersionIn(flash, cur) \in Nat
      BY <1>1, FineVersion DEF OtaInv, FlashInv, Fine
    <3>3. Len(first_pkt'.data) <= Len(first_pkt.data) + First /\ KeptOK(first_pkt')
      BY <1>1, <1>5, <2>1, <3>2, WriteKeeps
    <3>4. Len(first_pkt.data) <= from
      <4>1. ~first_pkt.held => Len(first_pkt.data) = 0
        BY <1>1 DEF KeptOK, NoPkt
      <4> QED BY <2>1, <2>3, <3>1, <4>1
    <3>5. Len(first_pkt'.data) \in Nat
      BY <3>3 DEF KeptOK
    <3> QED BY <1>2, <1>3, <3>1, <3>3, <3>4, <3>5 DEF KeptBound
  <2> QED BY <2>2, <2>3
<1> QED BY <1>4, <1>5, CommandDoes

\* Nothing but a command keeps packets.
LEMMA StepKeeps ==
    ASSUME OtaInv, ~ResendFirst, [Next]_vars
    PROVE  \/ first_pkt' \in {first_pkt, NoPkt}
           \/ pc = "idle" /\ \E c : Proper(c) /\ Command(c)
<1>1. CASE Receive
  <2>1. Ready /\ recving = NotReceiving /\ Command(Script(peer.step))
    BY <1>1 DEF Receive
  <2> QED BY <2>1, ScriptProper DEF Ready, CanSend, Online
<1>2. CASE Query
  <2>1. Command([op |-> "version"])
    BY <1>2 DEF Query
  <2>2. first_pkt' = first_pkt
    BY <2>1 DEF Command, OTA_CMD_WRITE_DATA, OTA_CMD_GET_STR_BASE, OTA_CMD_PAGE_ERASE,
       OTA_CMD_READ_FW_VER, OTA_CMD_REBOOT
  <2> QED BY <2>2
<1>3. CASE Tail2
  <2>1. PICK d \in Assembled : Command(d)
    BY <1>3 DEF Tail2
  <2>2. pc = "idle" /\ recving # NotReceiving /\ peer.sent
    BY <1>3 DEF Tail2, Online, OtaInv, PeerInv
  <2>3. d = Script(peer.step) /\ d.op = "write"
        /\ (first_pkt.held => Len(first_pkt.data) <= From)
    BY <2>1, <2>2, Pending
  <2>4. Fits(d, From)
    BY <2>3, ScriptWrites DEF OtaInv, PeerInv
  <2>5. Proper(d)
    BY <2>3, <2>4 DEF Proper
  <2> QED BY <2>1, <2>2, <2>5
<1>4. CASE Swallowed
  <2>1. /\ pc = "idle" /\ recving # NotReceiving /\ ~peer.sent
        /\ UNCHANGED first_pkt \/ \E e \in Mixed : Command(e)
    BY <1>4 DEF Swallowed, Ready, CanSend, Online
  <2>2. \A e \in Mixed : Proper(e)
    BY <2>1, Pending
  <2> QED BY <2>1, <2>2
<1>5. CASE Retry
  <2>1. Repeats(Script(peer.step)) /\ Command(Script(peer.step))
    BY <1>5 DEF Retry
  <2>2. pc = "idle" /\ recving = NotReceiving
    BY <2>1 DEF Repeats, CanSend, Online
  <2> QED BY <2>1, <2>2, ScriptProper
<1>6. CASE OTA_CMD_NULL \/ Subscribe \/ StartOver \/ Leave \/ WriteHeader \/ UNCHANGED vars
  BY <1>6 DEF OTA_CMD_NULL, Subscribe, StartOver, Leave, WriteHeader, ram, vars
<1>7. CASE NullBuffer \/ Restart \/ PowerFail
  BY <1>7 DEF NullBuffer, Restart, PowerFail, Reset, Cleared
<1>8. CASE os_timer_ota_cb
  BY <1>8 DEF os_timer_ota_cb, OtaStop, OtaDeinit
<1>9. ASSUME NEW l \in Links, GATTC_MSG_LINK_CREATE(l) \/ GATTC_MSG_LINK_LOST(l)
      PROVE  first_pkt' \in {first_pkt, NoPkt}
  BY <1>9 DEF GATTC_MSG_LINK_CREATE, GATTC_MSG_LINK_LOST, OtaDeinit
<1> QED BY <1>1, <1>2, <1>3, <1>4, <1>5, <1>6, <1>7, <1>8, <1>9 DEF Next

\* In every step.
LEMMA BoundNext ==
    ASSUME OtaInv, KeptBound, ~ResendFirst, [Next]_vars
    PROVE  KeptBound'
<1>1. CASE first_pkt' \in {first_pkt, NoPkt}
  BY <1>1 DEF KeptBound, NoPkt
<1> QED BY <1>1, StepKeeps, CommandBound

(***************************************************************************)
(* The packets that are kept are as many as were allocated, when the peer  *)
(* does not repeat them (ota.c:429-452); one that does is what the run     *)
(* OtaRetry finds to exceed it.                                            *)
(***************************************************************************)
THEOREM KeptFitsAlways ==
    ASSUME ~ResendFirst
    PROVE  Spec /\ []HeadKept => []KeptFits
<1>1. Spec /\ []HeadKept => []OtaInv
  BY OtaInductive
<1>2. Init => KeptBound
  BY DEF Init, KeptBound, NoPkt
<1>3. OtaInv /\ KeptBound /\ [Next]_vars => KeptBound'
  BY BoundNext
<1>4. OtaInv /\ KeptBound => KeptFits
  <2> SUFFICES ASSUME OtaInv, KeptBound, first_pkt.held
               PROVE  Len(first_pkt.data) <= PacketLen * first_pkt.num
    BY DEF KeptFits
  <2>1. first_pkt.num = NumFirst /\ Len(first_pkt.data) \in Nat
    BY DEF OtaInv, PktInv, KeptOK
  <2>2. First * NumFirst <= PacketLen * NumFirst
    BY FirstFacts, MulMono, OtaConstants
  <2>3. NumFirst * First = First * NumFirst /\ First * NumFirst \in Nat
        /\ PacketLen * NumFirst \in Nat
    BY FirstFacts, OtaConstants
  <2> QED BY <2>1, <2>2, <2>3 DEF KeptBound
<1> QED BY <1>1, <1>2, <1>3, <1>4, PTL DEF Spec

-----------------------------------------------------------------------------
(* What an undisturbed session has erased, kept and written *)

\* The packets that hold the header page are of the full length, and not all.
LEMMA LongFacts ==
    ASSUME LongImage
    PROVE  /\ First = PacketLen /\ PacketLen \in Nat \ {0} /\ NumFirst \in Nat \ {0}
           /\ NumFirst * PacketLen \in Nat /\ NumFirst * PacketLen <= ImageLen
           /\ HeaderLen <= NumFirst * PacketLen
           /\ NumFirst <= Packets /\ ImageLen <= Packets * PacketLen
<1>1. NumFirst \in Nat \ {0} /\ PacketLen \in Nat \ {0} /\ ImageLen \in Nat \ {0}
  BY FirstFacts, OtaConstants
<1>2. NumFirst * PacketLen \in Nat /\ NumFirst * PacketLen <= ImageLen
  BY <1>1 DEF LongImage
<1>3. 1 * PacketLen <= NumFirst * PacketLen
  BY <1>1, MulMono
<1>4. First = PacketLen
  BY <1>1, <1>2, <1>3 DEF First
<1>5. HeaderLen <= NumFirst * PacketLen
  BY <1>4, FirstFacts
<1>6. Packets \in Nat \ {0} /\ ImageLen <= Packets * PacketLen
  BY <1>1, RoundUpBounds DEF Packets
<1>7. NumFirst <= Packets
  <2>1. SUFFICES ASSUME Packets < NumFirst PROVE FALSE
    BY <1>1, <1>6
  <2>2. Packets * PacketLen < NumFirst * PacketLen
    BY <1>1, <1>6, <2>1, MulStrict
  <2>3. Packets * PacketLen \in Nat
    BY <1>1, <1>6
  <2> QED BY <1>1, <1>2, <1>6, <2>2, <2>3
<1> QED BY <1>1, <1>2, <1>4, <1>5, <1>6, <1>7

\* The units of a packet, and its length.
LEMMA PacketUnits ==
    ASSUME NEW from \in 0 .. ImageLen - 1, NEW i
    PROVE  LET s == Packet(i, from)
           IN  /\ \A k \in 1 .. Len(s) : s[k] = Unit(i, from + k - 1)
               /\ Len(s) = IF from + PacketLen <= ImageLen THEN PacketLen
                           ELSE ImageLen - from
<1> DEFINE n == IF ImageLen - from < PacketLen THEN ImageLen - from ELSE PacketLen
           s == Packet(i, from)
<1>1. s = [k \in 1 .. n |-> Unit(i, from + k - 1)]
  BY DEF Packet
<1>2. n \in Nat /\ n = IF from + PacketLen <= ImageLen THEN PacketLen ELSE ImageLen - from
  BY OtaConstants
<1> HIDE DEF n
<1>3. Len(s) = n /\ \A k \in 1 .. n : s[k] = Unit(i, from + k - 1)
  BY <1>1, <1>2
<1> QED BY <1>2, <1>3

\* The place of a write.
LEMMA WritePlace ==
    ASSUME peer.step \in 1 .. Last, peer.img \in Images, Script(peer.step).op = "write"
    PROVE  /\ peer.step \in Sectors + 2 .. Last - 1
           /\ Written \in 0 .. Packets - 1 /\ From = Written * PacketLen
           /\ From \in 0 .. ImageLen - 1
           /\ Script(peer.step) = [op |-> "write", addr |-> peer.base + From,
                                   data |-> Packet(peer.img, From)]
<1>1. Sectors \in Nat \ {0} /\ Packets \in Nat \ {0} /\ Last = Sectors + Packets + 2
  BY Counts
<1>2. peer.step \in Sectors + 2 .. Last - 1
  <2>1. peer.step = 1 \/ peer.step \in 2 .. Sectors + 1
        \/ peer.step \in Sectors + 2 .. Last - 1 \/ peer.step = Last
    BY <1>1
  <2>2. peer.step # 1 /\ peer.step \notin 2 .. Sectors + 1 /\ peer.step # Last
    BY ScriptIs
  <2> QED BY <2>1, <2>2
<1>3. Written \in 0 .. Packets - 1 /\ From = Written * PacketLen
  BY <1>1, <1>2 DEF From, Written
<1>4. From \in 0 .. ImageLen - 1
  BY <1>3, PacketFacts
<1>5. Script(peer.step) = [op |-> "write", addr |-> peer.base + From,
                           data |-> Packet(peer.img, From)]
  BY <1>2, ScriptIs DEF From
<1> QED BY <1>2, <1>3, <1>4, <1>5

\* Where the image behind the header page lies.
LEMMA BehindAddr ==
    ASSUME cur \in {0, 1}, NEW u \in HeaderLen .. ImageLen - 1
    PROVE  Base + u \in Addr /\ u \in Nat /\ Base \in Nat
<1>1. u \in 0 .. ImageLen - 1 /\ u \in Nat
  BY OtaConstants
<1> QED BY <1>1, Geometry, Front

\* In the header page and behind the image nothing is written.
LEMMA BehindSame ==
    ASSUME NEW f, NEW i, NEW n \in Nat, NEW m \in Nat, Behind(f, i, n),
           n = m \/ (n <= HeaderLen /\ m <= HeaderLen) \/ (n >= ImageLen /\ m >= ImageLen)
    PROVE  Behind(f, i, m)
<1>1. \A u \in HeaderLen .. ImageLen - 1 : u \in Nat /\ (u < n <=> u < m)
  BY OtaConstants
<1> QED BY <1>1 DEF Behind

\* Units programmed behind the ones that have been written.
LEMMA ProgramBehind ==
    ASSUME cur \in {0, 1}, NEW f, NEW i, NEW n \in HeaderLen .. ImageLen, Behind(f, i, n),
           NEW s, Len(s) \in Nat, n + Len(s) <= ImageLen,
           \A k \in 1 .. Len(s) : s[k] = Unit(i, n + k - 1)
    PROVE  Behind(Program(f, Base + n, s), i, n + Len(s))
<1> DEFINE d == Base + n
           g == Program(f, d, s)
<1>1. g = [a \in Addr |->
             IF a \notin d .. d + Len(s) - 1 \/ f[a] = s[a - d + 1] THEN f[a]
             ELSE IF f[a] = Erased THEN s[a - d + 1] ELSE Junk]
  BY DEF Program
<1>2. n \in Nat /\ HeaderLen \in Nat /\ ImageLen \in Nat
  BY OtaConstants
<1> HIDE DEF g
<1>3. ASSUME NEW u \in HeaderLen .. ImageLen - 1
      PROVE  g[Base + u] = IF u < n + Len(s) THEN Unit(i, u) ELSE Erased
  <2>1. Base + u \in Addr /\ u \in Nat /\ Base \in Nat
    BY BehindAddr
  <2>2. f[Base + u] = IF u < n THEN Unit(i, u) ELSE Erased
    BY DEF Behind
  <2>3. CASE u < n \/ u >= n + Len(s)
    <3>1. Base + u \notin d .. d + Len(s) - 1
      BY <1>2, <2>1, <2>3
    <3>2. g[Base + u] = f[Base + u]
      BY <1>1, <2>1, <3>1
    <3> QED BY <1>2, <2>1, <2>2, <2>3, <3>2
  <2>4. CASE u \in n .. n + Len(s) - 1
    <3>1. /\ Base + u \in d .. d + Len(s) - 1 /\ (Base + u) - d + 1 = u - n + 1
          /\ u - n + 1 \in 1 .. Len(s) /\ n + (u - n + 1) - 1 = u
      BY <1>2, <2>1, <2>4
    <3>2. s[(Base + u) - d + 1] = Unit(i, u)
      BY <3>1
    <3>3. f[Base + u] = Erased
      BY <1>2, <2>1, <2>2, <2>4
    <3>4. g[Base + u] = Unit(i, u)
      BY <1>1, <2>1, <3>1, <3>2, <3>3
    <3> QED BY <1>2, <2>1, <2>4, <3>4
  <2> QED BY <1>2, <2>1, <2>3, <2>4
<1> QED BY <1>3 DEF Behind, g

\* A further sector is erased.
LEMMA EraseMore ==
    ASSUME cur \in {0, 1}, NEW f, NEW d \in Nat, NEW len \in Nat, NEW e, e = Base + d,
           NEW u \in HeaderLen .. ImageLen - 1, u < d + len, u >= d \/ f[Base + u] = Erased
    PROVE  EraseFrom(f, e, len)[Base + u] = Erased
<1>1. Base + u \in Addr /\ u \in Nat /\ Base \in Nat
  BY BehindAddr
<1>2. EraseFrom(f, e, len)[Base + u] =
         IF Base + u \in e .. e + len - 1 THEN Erased ELSE f[Base + u]
  BY <1>1 DEF EraseFrom
<1>3. u >= d => Base + u \in e .. e + len - 1
  BY <1>1
<1> QED BY <1>1, <1>2, <1>3

\* A packet kept behind the ones that are kept.
LEMMA BeginsMore ==
    ASSUME NEW i, NEW s \in Seq(Units), NEW t \in Seq(Units), Begins(s, i), i \in Images,
           \A k \in 1 .. Len(t) : t[k] = Unit(i, Len(s) + k - 1)
    PROVE  Begins(s \o t, i)
<1> DEFINE r == s \o t
<1>0. Len(r) = Len(s) + Len(t) /\ Len(s) \in Nat /\ Len(t) \in Nat
  BY ConcatProperties
<1>1. \A m \in 1 .. Len(s) + Len(t) : r[m] = IF m <= Len(s) THEN s[m] ELSE t[m - Len(s)]
  BY ConcatProperties
<1> HIDE DEF r
<1>2. ASSUME NEW u \in 0 .. Len(r) - 1
      PROVE  IF u = 0 THEN r[1] \in Content /\ r[1].img = i /\ r[1].unit = 0
             ELSE r[u + 1] = Unit(i, u)
  <2>1. u + 1 \in 1 .. Len(s) + Len(t) /\ u \in Nat
    BY <1>0
  <2>2. CASE u < Len(s)
    <3>1. u + 1 <= Len(s) /\ u \in 0 .. Len(s) - 1
      BY <1>0, <2>1, <2>2
    <3>2. r[u + 1] = s[u + 1]
      BY <1>1, <2>1, <3>1
    <3> QED BY <3>1, <3>2 DEF Begins
  <2>3. CASE u >= Len(s)
    <3>1. PICK k \in 1 .. Len(t) : k = u + 1 - Len(s) /\ Len(s) + k - 1 = u
      <4>1. u + 1 - Len(s) \in 1 .. Len(t) /\ Len(s) + (u + 1 - Len(s)) - 1 = u
        BY <1>0, <2>1, <2>3
      <4> QED BY <4>1
    <3>2. r[u + 1] = t[k]
      <4>1. ~(u + 1 <= Len(s))
        BY <1>0, <2>1, <2>3
      <4>2. r[u + 1] = t[u + 1 - Len(s)]
        BY <1>1, <2>1, <4>1
      <4> QED BY <3>1, <4>2
    <3>3. t[k] = Unit(i, u)
      BY <3>1
    <3>4. Unit(i, u) \in Content
      BY <2>1, UnitContent
    <3> QED BY <3>2, <3>3, <3>4 DEF Unit
  <2> QED BY <1>0, <2>1, <2>2, <2>3
<1> QED BY <1>2 DEF Begins, r

\* The raised version leaves the rest of the header.
LEMMA BumpedBegins ==
    ASSUME NEW p \in [held : BOOLEAN, data : Seq(Units), num : Nat], NEW i,
           Len(p.data) > 0, VersionIn(flash, cur) \in Nat, Begins(p.data, i)
    PROVE  /\ Begins(Bumped(p).data, i) /\ Len(Bumped(p).data) = Len(p.data)
           /\ Bumped(p).held = p.held
<1> DEFINE h == p.data[1]
           v == VersionIn(flash, cur)
           e == [h EXCEPT !.ver = v + 1]
           d == [p.data EXCEPT ![1] = e]
           q == Bumped(p)
<1>1. h \in Content /\ h.img = i /\ h.unit = 0
  BY DEF Begins
<1>2. CASE h = Junk \/ h.ver > v
  BY <1>2 DEF Bumped
<1>3. CASE ~(h = Junk \/ h.ver > v)
  <2>1. e \in Content /\ e.img = i /\ e.unit = 0
    BY <1>1 DEF Content
  <2>2. q = [p EXCEPT !.data[1] = e]
    BY <1>3 DEF Bumped
  <2> HIDE DEF e
  <2>3. q.data = d /\ q.held = p.held
    BY <2>2
  <2>4. /\ Len(d) = Len(p.data) /\ d[1] = e
        /\ \A k \in 1 .. Len(p.data) : k # 1 => d[k] = p.data[k]
    BY <2>1 DEF Units
  <2> HIDE DEF d, q
  <2>5. \A u \in 0 .. Len(d) - 1 : u # 0 => d[u + 1] = p.data[u + 1]
    BY <2>4
  <2>6. Begins(d, i)
    BY <2>1, <2>4, <2>5 DEF Begins
  <2> QED BY <2>3, <2>4, <2>6 DEF q
<1> QED BY <1>2, <1>3

\* The next packet of an undisturbed session is taken and answered.
LEMMA WriteAccepted ==
    ASSUME OtaInv, Session, clean, pc = "idle",
           NEW c, c = Script(peer.step), c.op = "write"
    PROVE  /\ Going /\ Writing /\ peer.step > Sectors + 1
           /\ c = [op |-> "write", addr |-> Base + From, data |-> Packet(peer.img, From)]
           /\ ~UserData(c) /\ InSequence(c) /\ Open = 1 /\ Buffer /\ Allocated(c).held
           /\ Advanced(c, c) = [peer EXCEPT !.step = @ + 1]
<1>1. peer.step \in 1 .. Last /\ peer.img \in Images /\ peer.base \in {0, BankLen}
      /\ cur \in {0, 1} /\ KeptOK(first_pkt)
  BY DEF OtaInv, PeerInv, FlashInv, PktInv
<1>2. /\ peer.step \in Sectors + 2 .. Last - 1 /\ Sectors \in Nat \ {0}
      /\ Written \in 0 .. Packets - 1 /\ From = Written * PacketLen
      /\ From \in 0 .. ImageLen - 1
      /\ c = [op |-> "write", addr |-> peer.base + From, data |-> Packet(peer.img, From)]
  BY <1>1, WritePlace, Counts
<1>3. peer.step # 1 /\ peer.step > Sectors + 1
  BY <1>2
<1>4. Going /\ Writing
  BY <1>3 DEF Session
<1>5. c.op = "write" /\ c.addr = Base + From /\ Base \in {0, BankLen} /\ Base \in Nat
      /\ From \in Nat /\ From < ImageLen
  <2>1. c.addr = Base + From
    BY <1>2, <1>4 DEF Going
  <2>2. Base \in {0, BankLen} /\ Base \in Nat
    BY <1>1, Geometry
  <2> QED BY <1>2, <2>1, <2>2, OtaConstants
<1>6. ~UserData(c)
  BY <1>5, OtaConstants DEF UserData
<1>7. Written = 0 => From = 0
  BY <1>2, OtaConstants
<1>8. InSequence(c)
  <2>1. CASE Written = 0
    <3>1. check.addr = Base
      BY <1>3, <1>4, <2>1 DEF Writing
    <3> QED BY <1>5, <1>7, <2>1, <3>1 DEF InSequence
  <2>2. CASE Written # 0
    <3>1. check = [addr |-> Base + From - PacketLen, len |-> PacketLen]
      BY <1>3, <1>4, <1>5, <2>2 DEF Writing
    <3>2. check.addr + check.len = Base + From
      BY <1>5, <3>1, OtaConstants
    <3> QED BY <1>5, <3>2 DEF InSequence
  <2> QED BY <2>1, <2>2
<1>9. Open = 1 /\ Buffer
  BY <1>4 DEF Going, Open, Buffer
<1>10. Allocated(c).held
  <2>1. CASE Written = 0
    BY <1>5, <1>7, <2>1 DEF Allocated
  <2>2. CASE Written # 0
    BY <1>3, <1>4, <2>2 DEF Writing, Allocated
  <2> QED BY <2>1, <2>2
<1>11. Advanced(c, c) = [peer EXCEPT !.step = @ + 1]
  BY <1>4, <1>5, <1>6, <1>8 DEF Advanced, Answered, Going
<1>12. peer.base = Base
  BY <1>4 DEF Going
<1>13. c = [op |-> "write", addr |-> Base + From, data |-> Packet(peer.img, From)]
  BY <1>2, <1>12
<1> QED BY <1>3, <1>4, <1>6, <1>8, <1>9, <1>10, <1>11, <1>13

\* What it keeps and what it writes.
LEMMA WriteGoes ==
    ASSUME OtaInv, LongImage, Session, clean, pc = "idle",
           NEW c, c = Script(peer.step), c.op = "write"
    PROVE  LET q == WritePkt(c)
               j == Written + 1
           IN  /\ q.held /\ Begins(q.data, peer.img)
               /\ Len(q.data) = PacketLen * (IF j < NumFirst THEN j ELSE NumFirst)
               /\ Behind(WriteFlash(c), peer.img, IF j < NumFirst THEN 0 ELSE From + PacketLen)
<1> DEFINE j == Written
           n == Len(c.data)
           q == WritePkt(c)
           g == WriteFlash(c)
<1>1. peer.step \in 1 .. Last /\ peer.img \in Images /\ peer.base \in {0, BankLen}
      /\ cur \in {0, 1} /\ KeptOK(first_pkt) /\ VersionIn(flash, cur) \in Nat
  BY FineVersion DEF OtaInv, PeerInv, FlashInv, PktInv, Fine
<1>2. /\ j \in 0 .. Packets - 1 /\ From = j * PacketLen /\ From \in 0 .. ImageLen - 1
  BY <1>1, WritePlace
<1>3. j \in Nat /\ From \in Nat /\ ImageLen \in Nat /\ HeaderLen \in Nat \ {0}
  BY <1>2, Counts, OtaConstants
<1>4. /\ First = PacketLen /\ PacketLen \in Nat \ {0} /\ NumFirst \in Nat \ {0}
      /\ NumFirst * PacketLen \in Nat /\ NumFirst * PacketLen <= ImageLen
      /\ HeaderLen <= NumFirst * PacketLen
  BY LongFacts
<1>5. /\ c = [op |-> "write", addr |-> Base + From, data |-> Packet(peer.img, From)]
      /\ ~UserData(c) /\ InSequence(c) /\ Open = 1 /\ Allocated(c).held
      /\ Writing /\ peer.step > Sectors + 1
  BY WriteAccepted
<1>6. c.data = Packet(peer.img, From) /\ c.addr = Base + From
  BY <1>5
<1>7. /\ \A k \in 1 .. n : c.data[k] = Unit(peer.img, From + k - 1)
      /\ n = IF From + PacketLen <= ImageLen THEN PacketLen ELSE ImageLen - From
  <2> DEFINE s == Packet(peer.img, From)
  <2>1. /\ \A k \in 1 .. Len(s) : s[k] = Unit(peer.img, From + k - 1)
        /\ Len(s) = IF From + PacketLen <= ImageLen THEN PacketLen ELSE ImageLen - From
    BY <1>2, PacketUnits
  <2> HIDE DEF s
  <2>2. c.data = s
    BY <1>6 DEF s
  <2> QED BY <2>1, <2>2
<1>8. Fits(c, From)
  BY <1>1, ScriptWrites
<1>9. c.data \in Seq(Units) /\ n \in Nat /\ n >= 1
  BY <1>4, <1>8 DEF Fits
<1>10. /\ IsFirst(c) <=> From <= n * (NumFirst - 1)
       /\ IsFirst(c) => From + First <= NumFirst * First
  BY <1>1, <1>5, <1>8, HeldBound
<1>11. j < NumFirst => From + PacketLen <= NumFirst * PacketLen /\ n = PacketLen
  <2> SUFFICES ASSUME j < NumFirst
               PROVE  From + PacketLen <= NumFirst * PacketLen /\ n = PacketLen
    OBVIOUS
  <2>1. (j + 1) * PacketLen <= NumFirst * PacketLen
    BY <1>3, <1>4, MulMono
  <2>2. (j + 1) * PacketLen = From + PacketLen
    BY <1>2, <1>3, <1>4, MulNext
  <2>3. From + PacketLen <= NumFirst * PacketLen
    BY <2>1, <2>2
  <2>4. From + PacketLen <= ImageLen
    BY <1>3, <1>4, <2>3
  <2> QED BY <1>7, <2>3, <2>4
<1>12. j >= NumFirst => From >= NumFirst * PacketLen
  BY <1>2, <1>3, <1>4, MulMono
<1>13. IsFirst(c) <=> j < NumFirst
  <2>1. ASSUME j < NumFirst PROVE IsFirst(c)
    <3>1. j * PacketLen <= (NumFirst - 1) * PacketLen
      BY <1>3, <1>4, <2>1, MulMono
    <3>2. (NumFirst - 1) * PacketLen = PacketLen * (NumFirst - 1)
      BY <1>4
    <3> QED BY <1>2, <1>10, <1>11, <2>1, <3>1, <3>2
  <2>2. ASSUME j >= NumFirst PROVE ~IsFirst(c)
    BY <1>3, <1>4, <1>10, <1>12, <2>2
  <2> QED BY <1>3, <1>4, <2>1, <2>2
<1>14. /\ Len(first_pkt.data) = PacketLen * (IF j < NumFirst THEN j ELSE NumFirst)
       /\ Begins(first_pkt.data, peer.img)
       /\ first_pkt.held \/ j = 0
  <2>1. CASE j = 0
    <3>1. first_pkt.data = <<>>
      BY <1>1, <1>5, <2>1 DEF Writing, KeptOK, NoPkt
    <3> QED BY <1>4, <2>1, <3>1 DEF Begins
  <2>2. CASE j # 0
    BY <1>5, <2>2 DEF Writing
  <2> QED BY <2>1, <2>2
<1>15. Behind(flash, peer.img, IF j < NumFirst THEN 0 ELSE From)
  BY <1>5 DEF Writing
<1>16. g = IF ~IsFirst(c) THEN Program(flash, c.addr, c.data)
           ELSE IF Full(Kept(c), c)
           THEN Program(flash, Base + HeaderLen,
                        SubSeq(Kept(c).data, HeaderLen + 1, Len(Kept(c).data)))
           ELSE flash
  BY <1>5 DEF WriteFlash, Save
<1>17. q = IF ~IsFirst(c) THEN Allocated(c)
           ELSE IF Full(Kept(c), c) THEN Bumped(Kept(c)) ELSE Kept(c)
  BY <1>5 DEF WritePkt
<1> HIDE DEF j, n, q, g
\* Behind the header page.
<1>18. CASE j >= NumFirst
  <2>1. j # 0 /\ ~(j + 1 < NumFirst) /\ ~(j < NumFirst)
    BY <1>3, <1>4, <1>18
  <2>2. q = first_pkt /\ first_pkt.held
    BY <1>13, <1>14, <1>17, <2>1 DEF Allocated
  <2>3. g = Program(flash, Base + From, c.data)
    BY <1>6, <1>13, <1>16, <2>1
  <2>4. From \in HeaderLen .. ImageLen /\ From + n <= ImageLen
    BY <1>2, <1>3, <1>4, <1>7, <1>12, <1>18
  <2>5. Behind(flash, peer.img, From)
    BY <1>15, <2>1
  <2>6. Behind(g, peer.img, From + n)
    BY <1>1, <1>7, <1>9, <2>3, <2>4, <2>5, ProgramBehind DEF n
  <2>7. From + n = From + PacketLen \/ (From + n >= ImageLen /\ From + PacketLen >= ImageLen)
    BY <1>3, <1>4, <1>7
  <2>8. Behind(g, peer.img, From + PacketLen)
    BY <1>3, <1>4, <1>9, <2>6, <2>7, BehindSame
  <2> QED BY <1>14, <2>1, <2>2, <2>8 DEF j, q, g
\* In the header page.
<1>19. CASE j < NumFirst
  <2> DEFINE p == Kept(c)
             s == first_pkt.data \o c.data
  <2>1. IsFirst(c) /\ n = PacketLen /\ Len(first_pkt.data) = From
    <3>1. PacketLen * j = j * PacketLen
      BY <1>3, <1>4
    <3> QED BY <1>2, <1>11, <1>13, <1>14, <1>19, <3>1
  <2>2. Allocated(c) \in [held : BOOLEAN, data : Seq(Units), num : Nat]
        /\ Allocated(c).data = first_pkt.data /\ Allocated(c).num = NumFirst
    BY <1>1, <1>5, <1>8, AllocatedKept DEF KeptOK
  <2>3. s \in Seq(Units) /\ Len(s) = From + PacketLen
    <3>1. first_pkt.data \in Seq(Units)
      BY <1>1 DEF KeptOK
    <3>2. s \in Seq(Units) /\ Len(s) = Len(first_pkt.data) + Len(c.data)
      BY <1>9, <3>1, ConcatProperties
    <3> QED BY <2>1, <3>2 DEF n
  <2>4. Begins(s, peer.img)
    <3>1. first_pkt.data \in Seq(Units)
      BY <1>1 DEF KeptOK
    <3> QED BY <1>1, <1>7, <1>9, <1>14, <2>1, <3>1, BeginsMore DEF n
  <2> HIDE DEF s
  <2>5. p = [held |-> TRUE, data |-> s, num |-> NumFirst]
    <3>1. p = [Allocated(c) EXCEPT !.data = s]
      BY <2>2 DEF Kept, s
    <3> QED BY <1>5, <2>2, <3>1
  <2> HIDE DEF p
  <2>6. p \in [held : BOOLEAN, data : Seq(Units), num : Nat]
    BY <1>4, <2>3, <2>5
  <2>7. From + PacketLen = PacketLen * (j + 1)
    <3>1. (j + 1) * PacketLen = From + PacketLen
      BY <1>2, <1>3, <1>4, MulNext
    <3>2. (j + 1) * PacketLen = PacketLen * (j + 1)
      BY <1>3, <1>4
    <3> QED BY <3>1, <3>2
  <2>8. Full(p, c) <=> From + PacketLen >= PacketLen * NumFirst
    BY <2>1, <2>3, <2>5 DEF Full, n
  <2>9. CASE j + 1 = NumFirst
    <3>1. Full(p, c) /\ From + PacketLen = NumFirst * PacketLen
      <4>1. PacketLen * NumFirst = NumFirst * PacketLen
        BY <1>4
      <4> QED BY <1>4, <2>7, <2>8, <2>9, <4>1
    <3>2. q = Bumped(p)
      BY <1>17, <2>1, <3>1 DEF p
    <3>3. q.held /\ Begins(q.data, peer.img) /\ Len(q.data) = From + PacketLen
      <4>1. Len(p.data) > 0 /\ Begins(p.data, peer.img) /\ p.held
        BY <1>3, <1>4, <2>3, <2>4, <2>5
      <4> QED BY <1>1, <2>3, <2>5, <2>6, <3>2, <4>1, BumpedBegins
    <3> DEFINE t == SubSeq(s, HeaderLen + 1, Len(s))
    <3>4. g = Program(flash, Base + HeaderLen, t)
      BY <1>16, <2>1, <2>5, <3>1 DEF p
    <3>5. /\ Len(t) = From + PacketLen - HeaderLen
          /\ \A k \in 1 .. Len(t) : t[k] = Unit(peer.img, HeaderLen + k - 1)
      <4>1. HeaderLen + 1 \in Nat /\ Len(s) \in Nat /\ HeaderLen <= Len(s)
        BY <1>3, <1>4, <2>3, <3>1
      <4>2. /\ Len(t) = IF HeaderLen + 1 <= Len(s) THEN Len(s) - (HeaderLen + 1) + 1 ELSE 0
            /\ \A k \in 1 .. Len(s) - (HeaderLen + 1) + 1 : t[k] = s[HeaderLen + 1 + k - 1]
        <5>1. \A k \in HeaderLen + 1 .. Len(s) : s[k] \in Units
          BY <2>3, <1>3
        <5> QED BY <4>1, <5>1, SubSeqProperties
      <4> HIDE DEF t
      <4>3. Len(t) = Len(s) - HeaderLen
        BY <1>3, <4>1, <4>2
      <4>4. ASSUME NEW k \in 1 .. Len(t) PROVE t[k] = Unit(peer.img, HeaderLen + k - 1)
        <5> DEFINE u == HeaderLen + k - 1
        <5>1. u \in 0 .. Len(s) - 1 /\ u # 0 /\ HeaderLen + 1 + k - 1 = u + 1
          BY <1>3, <4>1, <4>3
        <5>2. t[k] = s[HeaderLen + 1 + k - 1]
          BY <4>2, <4>3, <1>3, <4>1
        <5> HIDE DEF u
        <5>3. s[u + 1] = Unit(peer.img, u)
          BY <2>4, <5>1 DEF Begins
        <5> QED BY <5>1, <5>2, <5>3 DEF u
      <4>5. Len(s) = From + PacketLen
        BY <2>3
      <4>6. Len(t) = From + PacketLen - HeaderLen
        BY <1>3, <1>4, <4>3, <4>5
      <4> QED BY <4>4, <4>6
    <3> HIDE DEF t
    <3>6. Behind(flash, peer.img, HeaderLen)
      <4>1. Behind(flash, peer.img, 0)
        BY <1>15, <1>19
      <4> QED BY <1>3, <4>1, BehindSame
    <3>7. Len(t) \in Nat /\ HeaderLen \in HeaderLen .. ImageLen /\ HeaderLen + Len(t) <= ImageLen
          /\ HeaderLen + Len(t) = From + PacketLen
      BY <1>3, <1>4, <3>1, <3>5
    <3>8. Behind(g, peer.img, HeaderLen + Len(t))
      BY <1>1, <3>4, <3>5, <3>6, <3>7, ProgramBehind
    <3>9. ~(j + 1 < NumFirst) /\ Len(q.data) = PacketLen * NumFirst
      BY <1>3, <1>4, <2>7, <2>9, <3>3
    <3> QED BY <3>3, <3>7, <3>8, <3>9 DEF j, q, g
  <2>10. CASE j + 1 # NumFirst
    <3>1. j + 1 < NumFirst
      BY <1>3, <1>4, <1>19, <2>10
    <3>2. ~Full(p, c)
      <4>1. (j + 1) * PacketLen < NumFirst * PacketLen
        BY <1>3, <1>4, <3>1, MulStrict
      <4>2. (j + 1) * PacketLen = PacketLen * (j + 1) /\ NumFirst * PacketLen = PacketLen * NumFirst
        BY <1>3, <1>4
      <4> QED BY <1>3, <1>4, <2>7, <2>8, <4>1, <4>2
    <3>3. q = p /\ g = flash
      BY <1>16, <1>17, <2>1, <3>2 DEF p
    <3>4. q.held /\ Begins(q.data, peer.img) /\ Len(q.data) = PacketLen * (j + 1)
      BY <2>3, <2>4, <2>5, <2>7, <3>3
    <3>5. Behind(g, peer.img, 0)
      BY <1>15, <1>19, <3>3
    <3> QED BY <3>1, <3>4, <3>5 DEF j, q, g
  <2> QED BY <2>9, <2>10
<1> QED BY <1>3, <1>4, <1>18, <1>19

\* What does not concern the session is kept.
LEMMA IdleClean ==
    ASSUME pc' = "idle", Session'
    PROVE  CleanInv'
BY DEF CleanInv, Checked, UndisturbedInstalls

\* The packet that has been taken.
LEMMA WriteSession ==
    ASSUME OtaInv, LongImage, Session, clean, pc = "idle",
           NEW c, c = Script(peer.step), c.op = "write", Command(c), UNCHANGED <<cur, ntf>>,
           peer'.step = peer.step + 1, peer'.img = peer.img, peer'.base = peer.base,
           peer'.waits = peer.waits
    PROVE  CleanInv'
<1>1. /\ Going /\ Writing /\ peer.step > Sectors + 1
      /\ c = [op |-> "write", addr |-> Base + From, data |-> Packet(peer.img, From)]
      /\ ~UserData(c) /\ InSequence(c) /\ Open = 1 /\ Buffer
  BY WriteAccepted
<1>2. /\ flash' = WriteFlash(c) /\ Begin /\ first_pkt' = WritePkt(c) /\ pc' = pc
      /\ check' = [addr |-> c.addr, len |-> Len(c.data)]
  BY <1>1 DEF Command, OTA_CMD_WRITE_DATA, OTA_CMD_GET_STR_BASE, OTA_CMD_PAGE_ERASE,
     OTA_CMD_READ_FW_VER, OTA_CMD_REBOOT
<1>3. Base' = Base /\ Sectors \in Nat \ {0} /\ peer.step \in Nat /\ PacketLen \in Nat \ {0}
      /\ Base \in Nat
  <2>1. cur \in {0, 1} /\ peer.step \in Nat
    BY Counts DEF OtaInv, PeerInv, FlashInv
  <2> QED BY <2>1, Geometry, Counts, OtaConstants DEF Base
<1>4. Going'
  BY <1>1, <1>2, <1>3 DEF Going, Begin
<1>5. peer'.step # 1 /\ ~(peer'.step \in 2 .. Sectors' + 1) /\ Sectors' = Sectors
  BY <1>1, <1>3 DEF Sectors
<1>6. Erasing'
  BY <1>5 DEF Erasing
<1>7. Written' = Written + 1 /\ Written \in Nat /\ From' = From + PacketLen
      /\ From \in 0 .. ImageLen - 1
  <2>1. Written' = Written + 1
    BY <1>3, <1>5 DEF Written
  <2>2. From = Written * PacketLen /\ Written \in Nat /\ From \in 0 .. ImageLen - 1
    BY WritePlace, Counts DEF OtaInv, PeerInv
  <2>3. From' = Written' * PacketLen
    BY DEF From, Written
  <2>4. (Written + 1) * PacketLen = Written * PacketLen + PacketLen
    BY <1>3, <2>2, MulNext
  <2> QED BY <2>1, <2>2, <2>3, <2>4
<1> DEFINE j == Written + 1
<1>8. /\ first_pkt'.held /\ Begins(first_pkt'.data, peer.img)
      /\ Len(first_pkt'.data) = PacketLen * (IF j < NumFirst THEN j ELSE NumFirst)
      /\ Behind(flash', peer.img, IF j < NumFirst THEN 0 ELSE From + PacketLen)
  <2> DEFINE q == WritePkt(c)
             g == WriteFlash(c)
  <2>1. /\ q.held /\ Begins(q.data, peer.img)
        /\ Len(q.data) = PacketLen * (IF j < NumFirst THEN j ELSE NumFirst)
        /\ Behind(g, peer.img, IF j < NumFirst THEN 0 ELSE From + PacketLen)
    BY WriteGoes
  <2>2. first_pkt' = q /\ flash' = g
    BY <1>2
  <2> HIDE DEF q, g
  <2> QED BY <2>1, <2>2
<1>9. From' < ImageLen => check' = [addr |-> Base + From' - PacketLen, len |-> PacketLen]
  <2> SUFFICES ASSUME From' < ImageLen
               PROVE  check' = [addr |-> Base + From' - PacketLen, len |-> PacketLen]
    OBVIOUS
  <2>1. Len(Packet(peer.img, From)) = IF From + PacketLen <= ImageLen THEN PacketLen
                                      ELSE ImageLen - From
    BY <1>7, PacketUnits
  <2>2. From + PacketLen <= ImageLen
    BY <1>3, <1>7, OtaConstants
  <2>3. c.addr = Base + From /\ Len(c.data) = PacketLen
    BY <1>1, <2>1, <2>2
  <2>4. Base + From = Base + From' - PacketLen
    BY <1>3, <1>7
  <2> QED BY <1>2, <2>3, <2>4
<1> HIDE DEF j
<1>10. /\ Written' # 0 /\ Written' = j
       /\ Behind(flash, peer.img, IF Written < NumFirst THEN 0 ELSE From)'
       /\ Begins(first_pkt.data, peer.img)'
  <2>1. Written' # 0 /\ Written' = j
    BY <1>7 DEF j
  <2>2. Behind(flash, peer.img, IF Written < NumFirst THEN 0 ELSE From)'
    BY <1>3, <1>7, <1>8, <2>1 DEF Behind, Unit, NumFirst, First, RoundUp
  <2>3. Begins(first_pkt.data, peer.img)'
    BY <1>8 DEF Begins, Unit, Content
  <2> QED BY <2>1, <2>2, <2>3
<1>11. Writing'
  <2>1. NumFirst' = NumFirst
    BY DEF NumFirst, First, RoundUp
  <2> QED BY <1>3, <1>8, <1>9, <1>10, <2>1 DEF Writing
<1>12. Session'
  BY <1>4, <1>5, <1>6, <1>11 DEF Session
<1> QED BY <1>2, <1>12, IdleClean

\* A sector further on.
LEMMA EraseSession ==
    ASSUME OtaInv, Session, clean, pc = "idle", peer.step \in 2 .. Sectors + 1,
           NEW c, c = Script(peer.step), Command(c), UNCHANGED <<cur, ntf>>,
           peer' = Advanced(c, c)
    PROVE  CleanInv'
<1> DEFINE k == peer.step - 2
           d == k * SectorLen
<1>1. /\ peer.step \in 1 .. Last /\ cur \in {0, 1} /\ Sectors \in Nat \ {0}
      /\ Sectors * SectorLen = BankLen /\ peer.step \in Nat /\ peer.step # 1
      /\ {SectorLen, HeaderLen, BankLen, ImageLen} \subseteq Nat \ {0}
      /\ HeaderLen < SectorLen /\ ImageLen <= BankLen
  BY Counts, OtaConstants DEF OtaInv, PeerInv, FlashInv
<1>2. Going /\ Erasing
  BY <1>1 DEF Session
<1>3. c = [op |-> "erase", addr |-> Base + d]
  <2>1. c = [op |-> "erase", addr |-> peer.base + d]
    BY <1>1, ScriptIs
  <2> QED BY <1>2, <2>1 DEF Going
<1>4. k \in 0 .. Sectors - 1 /\ d \in Nat /\ (k + 1) * SectorLen = d + SectorLen
      /\ d + SectorLen <= BankLen
  <2>1. k \in 0 .. Sectors - 1 /\ k \in Nat /\ k + 1 <= Sectors
    BY <1>1
  <2> HIDE DEF k
  <2>2. d \in Nat /\ (k + 1) * SectorLen = d + SectorLen
    BY <1>1, <2>1, MulNext
  <2>3. (k + 1) * SectorLen <= Sectors * SectorLen
    BY <1>1, <2>1, MulMono
  <2> QED BY <1>1, <2>1, <2>2, <2>3
<1> HIDE DEF d
<1>5. Base \in Nat /\ (cur = 0 => Base = BankLen) /\ (cur = 1 => Base = 0)
  BY <1>1, Geometry
<1>6. ~EraseRefused(c)
  <2>1. c.addr = Base + d
    BY <1>3
  <2> QED BY <1>1, <1>4, <1>5, <2>1 DEF EraseRefused
<1>7. /\ flash' = ErasedFlash(c) /\ Begin /\ UNCHANGED <<check, first_pkt, pc>>
  BY <1>3 DEF Command, OTA_CMD_WRITE_DATA, OTA_CMD_GET_STR_BASE, OTA_CMD_PAGE_ERASE,
     OTA_CMD_READ_FW_VER, OTA_CMD_REBOOT
<1>8. Open = 1 /\ Buffer
  BY <1>2 DEF Going, Open, Buffer
<1>9. \A u \in HeaderLen .. ImageLen - 1 : u < d + SectorLen => flash'[Base + u] = Erased
  <2>1. \A u \in HeaderLen .. ImageLen - 1 : u < d => flash[Base + u] = Erased
    BY <1>2 DEF Erasing, d
  <2>2. CASE d = 0
    <3>1. flash' = EraseFrom(flash, Base + HeaderLen, SectorLen - HeaderLen)
      <4>1. c.addr = Base
        BY <1>3, <1>5, <2>2
      <4> QED BY <1>6, <1>7, <4>1 DEF ErasedFlash
    <3>2. HeaderLen + (SectorLen - HeaderLen) = d + SectorLen
          /\ HeaderLen \in Nat /\ SectorLen - HeaderLen \in Nat /\ HeaderLen <= HeaderLen
      BY <1>1, <2>2
    <3>3. ASSUME NEW u \in HeaderLen .. ImageLen - 1, u < d + SectorLen
          PROVE  EraseFrom(flash, Base + HeaderLen, SectorLen - HeaderLen)[Base + u] = Erased
      <4>1. u < HeaderLen + (SectorLen - HeaderLen) /\ u >= HeaderLen
        BY <1>1, <3>2, <3>3
      <4>2. PICK e, n : e = Base + HeaderLen /\ n = SectorLen - HeaderLen
        OBVIOUS
      <4>3. n \in Nat /\ HeaderLen \in Nat /\ u < HeaderLen + n /\ cur \in {0, 1}
        BY <1>1, <3>2, <4>1, <4>2
      <4>4. EraseFrom(flash, e, n)[Base + u] = Erased
        BY <4>1, <4>2, <4>3, EraseMore
      <4> QED BY <4>2, <4>4
    <3> QED BY <3>1, <3>3
  <2>3. CASE d # 0
    <3>1. flash' = EraseFrom(flash, Base + d, SectorLen)
      <4>1. c.addr # Base /\ c.addr = Base + d
        BY <1>3, <1>4, <1>5, <2>3
      <4> QED BY <1>6, <1>7, <1>8, <4>1 DEF ErasedFlash
    <3>2. d <= d /\ SectorLen \in Nat
      BY <1>1, <1>4
    <3>3. ASSUME NEW u \in HeaderLen .. ImageLen - 1, u < d + SectorLen
          PROVE  EraseFrom(flash, Base + d, SectorLen)[Base + u] = Erased
      <4>1. u \in Nat /\ (u >= d \/ flash[Base + u] = Erased)
        BY <1>1, <1>4, <2>1, <3>3
      <4>2. PICK e : e = Base + d
        OBVIOUS
      <4>3. d \in Nat /\ SectorLen \in Nat /\ u < d + SectorLen /\ cur \in {0, 1}
        BY <1>1, <1>4, <3>2, <3>3
      <4>4. EraseFrom(flash, e, SectorLen)[Base + u] = Erased
        BY <4>1, <4>2, <4>3, EraseMore
      <4> QED BY <4>2, <4>4
    <3> QED BY <3>1, <3>3
  <2> QED BY <2>2, <2>3
<1>10. peer' = [peer EXCEPT !.step = @ + 1]
  BY <1>2, <1>3 DEF Advanced, Answered, Going
<1>11. /\ peer'.step = peer.step + 1 /\ peer'.img = peer.img /\ peer'.base = peer.base
       /\ peer'.waits = peer.waits
  BY <1>10 DEF OtaInv, PeerInv
<1>12. Base' = Base /\ Sectors' = Sectors
  BY DEF Base, Sectors
<1>13. Going'
  BY <1>2, <1>7, <1>8, <1>11, <1>12 DEF Going, Begin
<1>14. (peer'.step - 2) * SectorLen = d + SectorLen
  BY <1>1, <1>4, <1>11
<1>15. check'.addr = Base /\ ~first_pkt'.held
  BY <1>2, <1>7 DEF Erasing
<1>16. Erasing'
  BY <1>9, <1>12, <1>14, <1>15 DEF Erasing
<1>17. Writing'
  <2> SUFFICES ASSUME peer'.step > Sectors' + 1 PROVE Writing'
    BY DEF Writing
  <2>1. k + 1 = Sectors /\ Written' = 0
    BY <1>1, <1>11, <1>12 DEF Written
  <2>2. d + SectorLen = BankLen
    BY <1>1, <1>4, <2>1
  <2>3. Behind(flash, peer.img, 0)'
    <3>1. \A u \in HeaderLen .. ImageLen - 1 : u < d + SectorLen /\ ~(u < 0)
      BY <1>1, <2>2
    <3> QED BY <1>9, <1>12, <3>1 DEF Behind
  <2>4. 0 < NumFirst
    BY FirstFacts
  <2>5. NumFirst' = NumFirst
    BY DEF NumFirst, First, RoundUp
  <2> QED BY <1>12, <1>15, <2>1, <2>3, <2>4, <2>5 DEF Writing
<1>18. Session'
  BY <1>1, <1>11, <1>13, <1>16, <1>17 DEF Session
<1> QED BY <1>7, <1>18, IdleClean

\* The command that begins a session; unless the peer has subscribed it gets
\* no answer.
LEMMA BaseSession ==
    ASSUME OtaInv, first_loop, ~peer.waits, pc = "idle", peer.step = 1,
           NEW c, c = Script(peer.step), Command(c), UNCHANGED <<cur, ntf>>,
           peer' = Advanced(c, c)
    PROVE  CleanInv'
<1>1. peer.step \in 1 .. Last /\ Sectors \in Nat \ {0}
  BY Counts DEF OtaInv, PeerInv
<1>2. c = [op |-> "base"]
  BY <1>1, ScriptIs
<1>3. /\ ota_state' = Open /\ rbuf' = Buffer /\ first_pkt' = NoPkt
      /\ check' = [check EXCEPT !.addr = Base] /\ UNCHANGED <<flash, pc>>
  BY <1>2 DEF Command, OTA_CMD_WRITE_DATA, OTA_CMD_GET_STR_BASE, OTA_CMD_PAGE_ERASE,
     OTA_CMD_READ_FW_VER, OTA_CMD_REBOOT
<1>4. Open = 1 /\ Buffer
  BY DEF Open, Buffer
<1>5. CASE ~ntf
  <2>1. peer' = [peer EXCEPT !.waits = TRUE]
    BY <1>2, <1>5 DEF Advanced, Answered
  <2>2. peer'.step = 1 /\ peer'.waits
    BY <2>1 DEF OtaInv, PeerInv
  <2> QED BY <1>3, <2>2, IdleClean DEF Session
<1>6. CASE ntf
  <2>1. peer' = [peer EXCEPT !.base = Base, !.step = 2]
    BY <1>2, <1>6 DEF Advanced, Answered
  <2>2. peer'.step = 2 /\ peer'.base = Base /\ ~peer'.waits
    BY <2>1 DEF OtaInv, PeerInv
  <2>3. Base' = Base /\ Sectors' = Sectors
    BY DEF Base, Sectors
  <2>4. Going'
    BY <1>3, <1>4, <1>6, <2>2, <2>3 DEF Going
  <2>5. check'.addr = Base /\ ~first_pkt'.held
    BY <1>3 DEF NoPkt, OtaInv
  <2>6. Erasing'
    <3>1. (peer'.step - 2) * SectorLen = 0
      BY <2>2, OtaConstants
    <3>2. \A u \in HeaderLen .. ImageLen - 1 : ~(u < 0)
      BY OtaConstants
    <3> QED BY <2>3, <2>5, <3>1, <3>2 DEF Erasing
  <2>7. ~(peer'.step > Sectors' + 1)
    BY <1>1, <2>2, <2>3
  <2>8. Session'
    BY <2>2, <2>4, <2>6, <2>7 DEF Session, Writing
  <2> QED BY <1>3, <2>8, IdleClean
<1> QED BY <1>5, <1>6

\* The command that ends it: the image has been written, and its header kept.
LEMMA RebootSession ==
    ASSUME OtaInv, LongImage, Session, clean, pc = "idle", peer.step = Last,
           NEW c, c = Script(peer.step), Command(c), cur' = cur
    PROVE  CleanInv'
<1>1. /\ peer.step \in 1 .. Last /\ cur \in {0, 1} /\ flash \in [Addr -> Cell]
      /\ Sectors \in Nat \ {0} /\ Packets \in Nat \ {0} /\ Last = Sectors + Packets + 2
      /\ peer.img \in Images
  BY Counts DEF OtaInv, PeerInv, FlashInv
<1>2. c = [op |-> "reboot", img |-> peer.img]
  BY <1>1, ScriptIs
<1>3. Going /\ Writing /\ peer.step > Sectors + 1
  BY <1>1 DEF Session
<1>4. Written = Packets /\ From = Packets * PacketLen
  BY <1>1 DEF Written, From
<1>5. /\ NumFirst \in Nat \ {0} /\ NumFirst <= Packets /\ ImageLen <= Packets * PacketLen
      /\ PacketLen \in Nat \ {0} /\ NumFirst * PacketLen = PacketLen * NumFirst
  BY LongFacts
<1>6. /\ first_pkt.held /\ Begins(first_pkt.data, peer.img)
      /\ Len(first_pkt.data) = NumFirst * PacketLen
      /\ Behind(flash, peer.img, From)
  <2>1. Written # 0 /\ ~(Written < NumFirst)
    BY <1>1, <1>4, <1>5
  <2> QED BY <1>3, <1>5, <2>1 DEF Writing
<1>7. Behind(flash, peer.img, ImageLen)
  BY <1>1, <1>4, <1>5, <1>6, BehindSame, OtaConstants
<1>8. CrcMatches(c)
  <2>1. \A u \in HeaderLen .. ImageLen - 1 : u < ImageLen
    BY OtaConstants
  <2> QED BY <1>2, <1>7, <2>1 DEF CrcMatches, Behind
<1>9. /\ flash' = EraseFrom(flash, Base, HeaderLen) /\ pc' = "header"
      /\ Begin /\ first_pkt' = first_pkt
  BY <1>2, <1>6, <1>8 DEF Command, OTA_CMD_WRITE_DATA, OTA_CMD_GET_STR_BASE,
     OTA_CMD_PAGE_ERASE, OTA_CMD_READ_FW_VER, OTA_CMD_REBOOT, RebootFlash
<1>10. ota_state' = 1
  BY <1>3, <1>9 DEF Going, Begin, Open
<1>11. \A u \in HeaderLen .. ImageLen - 1 : flash'[Base + u] = flash[Base + u]
  BY <1>1, <1>9, ErasePage
<1>12. Base' = Base
  BY DEF Base
<1>13. \A u \in HeaderLen .. ImageLen - 1 :
          flash'[Base + u] = IF u < ImageLen THEN Unit(peer.img, u) ELSE Erased
  BY <1>7, <1>11 DEF Behind
<1>14. Checked'
  <2>1. PICK i \in Images : i = peer.img
    BY <1>1
  <2>2. Begins(first_pkt.data, i)'
    BY <1>6, <1>9, <2>1
  <2>3. Behind(flash, i, ImageLen)'
    BY <1>12, <1>13, <2>1 DEF Behind
  <2> QED BY <1>6, <1>9, <1>10, <2>2, <2>3 DEF Checked
<1> QED BY <1>9, <1>14 DEF CleanInv, Session, UndisturbedInstalls

\* What leaves the session where it is.
LEMMA SameClean ==
    ASSUME CleanInv, UNCHANGED <<flash, cur, check, first_pkt, pc, clean>>,
           peer'.step = peer.step, peer'.img = peer.img, peer'.base = peer.base,
           peer'.waits = peer.waits,
           ntf => ntf', rbuf => rbuf', ota_state = 1 => ota_state' = 1
    PROVE  CleanInv'
<1>1. Base' = Base /\ Sectors' = Sectors /\ Written' = Written /\ From' = From
      /\ NumFirst' = NumFirst
  BY DEF Base, Sectors, Written, From, NumFirst, First, RoundUp
<1>2. /\ Begins(first_pkt.data, peer.img)' <=> Begins(first_pkt.data, peer.img)
      /\ Behind(flash, peer.img, IF Written < NumFirst THEN 0 ELSE From)' <=>
         Behind(flash, peer.img, IF Written < NumFirst THEN 0 ELSE From)
  BY <1>1 DEF Begins, Behind, Unit, Content
<1>3. (Going => Going') /\ (Erasing => Erasing') /\ (Writing => Writing')
  BY <1>1, <1>2 DEF Going, Erasing, Writing
<1>4. Session'
  BY <1>3 DEF CleanInv, Session
<1>5. \A i : /\ Begins(first_pkt.data, i)' <=> Begins(first_pkt.data, i)
             /\ Behind(flash, i, ImageLen)' <=> Behind(flash, i, ImageLen)
  BY <1>1 DEF Begins, Behind
<1>6. Checked'
  BY <1>5 DEF CleanInv, Checked
<1>7. UndisturbedInstalls'
  BY DEF CleanInv, UndisturbedInstalls, Boot, HasHeader, VersionIn
<1> QED BY <1>4, <1>6, <1>7 DEF CleanInv

\* A command of the peer.
LEMMA ReceiveClean ==
    ASSUME OtaInv, LongImage, CleanInv, Receive
    PROVE  CleanInv'
<1> DEFINE c == Script(peer.step)
<1>1. /\ Ready /\ Command(c) /\ peer' = Advanced(c, c) /\ UNCHANGED <<cur, ntf>>
      /\ clean' = (clean \/ (c.op = "base" /\ first_loop))
  BY DEF Receive
<1>2. pc = "idle" /\ ~peer.waits
  BY <1>1 DEF Ready, CanSend, Online
<1>3. /\ peer.step \in 1 .. Last /\ peer \in [img : Images, base : {0, BankLen}, step : 1 .. Last,
            sent : BOOLEAN, waits : BOOLEAN, gone : BOOLEAN]
      /\ Sectors \in Nat \ {0} /\ Packets \in Nat \ {0} /\ Last = Sectors + Packets + 2
  BY Counts DEF OtaInv, PeerInv
<1>4. peer.step = 1 \/ peer.step \in 2 .. Sectors + 1
      \/ peer.step \in Sectors + 2 .. Last - 1 \/ peer.step = Last
  BY <1>3
<1>5. Session
  BY DEF CleanInv
<1>6. c = Script(peer.step)
  OBVIOUS
<1>7. /\ c.op = "base" => peer.step = 1
      /\ peer.step \in Sectors + 2 .. Last - 1 => c.op = "write"
  BY <1>3, <1>4, ScriptIs
<1> HIDE DEF c
<1>8. CASE ~clean'
  BY <1>8 DEF CleanInv, Session, Checked, UndisturbedInstalls
<1>9. CASE clean' /\ peer.step = 1
  <2>1. first_loop
    BY <1>1, <1>2, <1>5, <1>9 DEF Session
  <2> QED BY <1>1, <1>2, <1>6, <1>9, <2>1, BaseSession
<1>10. ASSUME clean', peer.step # 1 PROVE clean
  BY <1>1, <1>7, <1>10
<1>11. CASE clean' /\ peer.step \in 2 .. Sectors + 1
  <2>1. peer.step # 1
    BY <1>11
  <2> QED BY <1>1, <1>2, <1>5, <1>6, <1>10, <1>11, <2>1, EraseSession
<1>12. CASE clean' /\ peer.step \in Sectors + 2 .. Last - 1
  <2>1. peer.step # 1 /\ c.op = "write"
    BY <1>3, <1>7, <1>12
  <2>2. clean
    BY <1>10, <1>12, <2>1
  <2>3. Advanced(c, c) = [peer EXCEPT !.step = @ + 1]
    BY <1>2, <1>5, <1>6, <2>1, <2>2, WriteAccepted
  <2>4. /\ peer'.step = peer.step + 1 /\ peer'.img = peer.img /\ peer'.base = peer.base
        /\ peer'.waits = peer.waits
    BY <1>1, <1>3, <2>3
  <2> QED BY <1>1, <1>2, <1>5, <1>6, <2>1, <2>2, <2>4, WriteSession
<1>13. CASE clean' /\ peer.step = Last
  <2>1. peer.step # 1
    BY <1>3, <1>13
  <2> QED BY <1>1, <1>2, <1>5, <1>6, <1>10, <1>13, <2>1, RebootSession
<1> QED BY <1>4, <1>8, <1>9, <1>11, <1>12, <1>13

\* The second part of a packet.
LEMMA Tail2Clean ==
    ASSUME OtaInv, LongImage, CleanInv, Tail2
    PROVE  CleanInv'
<1>1. PICK d \in Assembled :
         Command(d) /\ peer' = [Advanced(Script(peer.step), d) EXCEPT !.sent = FALSE]
  BY DEF Tail2
<1>2. pc = "idle" /\ peer.sent /\ UNCHANGED <<cur, ntf, clean>>
  BY DEF Tail2, Online
<1>3. recving # NotReceiving
  BY <1>2 DEF OtaInv, PeerInv
<1>4. d = Script(peer.step) /\ d.op = "write"
  BY <1>1, <1>2, <1>3, Pending
<1>5. Session
  BY DEF CleanInv
<1>6. CASE ~clean
  BY <1>2, <1>6 DEF CleanInv, Session, Checked, UndisturbedInstalls
<1>7. CASE clean
  <2>1. Advanced(d, d) = [peer EXCEPT !.step = @ + 1]
    BY <1>2, <1>4, <1>5, <1>7, WriteAccepted
  <2>2. peer' = [[peer EXCEPT !.step = @ + 1] EXCEPT !.sent = FALSE]
    BY <1>1, <1>4, <2>1
  <2>3. /\ peer'.step = peer.step + 1 /\ peer'.img = peer.img /\ peer'.base = peer.base
        /\ peer'.waits = peer.waits
    BY <2>2 DEF OtaInv, PeerInv
  <2> QED BY <1>1, <1>2, <1>4, <1>5, <1>7, <2>3, WriteSession
<1> QED BY <1>6, <1>7

\* A command that only reads, or the first part of a packet.
LEMMA BeginClean ==
    ASSUME OtaInv, CleanInv, Query \/ OTA_CMD_NULL
    PROVE  CleanInv'
<1>1. Begin /\ UNCHANGED <<flash, cur, check, first_pkt, pc, ntf, clean>>
  BY DEF Query, OTA_CMD_NULL, Command, OTA_CMD_WRITE_DATA, OTA_CMD_GET_STR_BASE,
     OTA_CMD_PAGE_ERASE, OTA_CMD_READ_FW_VER, OTA_CMD_REBOOT
<1>2. peer' = peer \/ peer' = [peer EXCEPT !.sent = TRUE]
  BY DEF Query, OTA_CMD_NULL
<1>3. /\ peer'.step = peer.step /\ peer'.img = peer.img /\ peer'.base = peer.base
      /\ peer'.waits = peer.waits
  BY <1>2 DEF OtaInv, PeerInv
<1>4. (rbuf => rbuf') /\ (ota_state = 1 => ota_state' = 1)
  BY <1>1 DEF Begin, Open, Buffer
<1> QED BY <1>1, <1>3, <1>4, SameClean

\* Nothing is taken for the rest of a packet, and nothing repeated.
LEMMA NoneClean ==
    ASSUME OtaInv, CleanInv, Swallowed \/ Retry
    PROVE  CleanInv'
<1>1. clean' = clean /\ pc = "idle" /\ Session
  BY DEF Swallowed, Retry, Repeats, Ready, CanSend, Online, CleanInv
<1>2. CASE ~clean
  BY <1>1, <1>2 DEF CleanInv, Session, Checked, UndisturbedInstalls
<1>3. CASE clean /\ Swallowed
  <2>1. ~peer.sent /\ ~peer.waits /\ recving # NotReceiving
    BY <1>3 DEF Swallowed, Ready, CanSend
  <2>2. peer.step = 1
    BY <2>1, Pending
  <2> QED BY <1>1, <1>3, <2>1, <2>2 DEF Session
<1>4. CASE clean /\ Retry
  <2>1. peer.waits /\ Script(peer.step).op = "write"
    BY <1>4 DEF Retry, Repeats
  <2>2. peer.step # 1
    BY <2>1, ScriptWrites DEF OtaInv, PeerInv
  <2> QED BY <1>1, <1>4, <2>1, <2>2 DEF Session, Going
<1> QED BY <1>2, <1>3, <1>4

\* The header completes the image that has been checked, with a version above
\* the running one.
LEMMA HeaderClean ==
    ASSUME OtaInv, LongImage, CleanInv, WriteHeader
    PROVE  CleanInv'
<1>1. /\ pc = "header" /\ flash' = HeaderFlash /\ pc' = "reset"
      /\ UNCHANGED <<cur, clean>>
  BY DEF WriteHeader
<1> DEFINE g == HeaderFlash
           o == 1 - cur
<1>2. CASE ~clean
  BY <1>1, <1>2 DEF CleanInv, Session, Checked, UndisturbedInstalls
<1>3. CASE clean
  <2>1. /\ ota_state = 1 /\ first_pkt.held /\ Len(first_pkt.data) = NumFirst * PacketLen
        /\ \E i \in Images : Begins(first_pkt.data, i) /\ Behind(flash, i, ImageLen)
    BY <1>1, <1>3 DEF CleanInv, Checked
  <2>2. PICK i \in Images : Begins(first_pkt.data, i) /\ Behind(flash, i, ImageLen)
    BY <2>1
  <2>3. /\ cur \in {0, 1} /\ flash \in [Addr -> Cell] /\ Fine(flash, cur)
        /\ KeptOK(first_pkt) /\ first_pkt.data \in Seq(Units)
        /\ HeaderInv
    BY <1>1 DEF OtaInv, FlashInv, PktInv, KeptOK
  <2>4. /\ g \in [Addr -> Cell] /\ \A a \in Bank(cur) : g[a] = flash[a]
    <3>1. g \in {HeaderFlash} \cup Cut(flash, HeaderFlash)
      OBVIOUS
    <3> QED BY <1>1, <2>3, <3>1, HeaderStep DEF OtaInv
  <2>5. g = Program(flash, Base, HeaderPage)
    BY <2>1 DEF HeaderFlash, Save, Open
  <2>6. HeaderLen <= Len(first_pkt.data) /\ Len(first_pkt.data) \in Nat
        /\ HeaderLen \in Nat \ {0}
    BY <2>1, LongFacts, OtaConstants
  <2>7. o \in {0, 1} /\ o * BankLen = Base /\ (1 - o) * BankLen = cur * BankLen
        /\ Base \in Nat /\ 1 - o = cur
    BY <2>3, Geometry DEF Base
  <2>8. g = [a \in Addr |->
               IF a \notin Base .. Base + HeaderLen - 1 \/ flash[a] = HeaderPage[a - Base + 1]
               THEN flash[a]
               ELSE IF flash[a] = Erased THEN HeaderPage[a - Base + 1] ELSE Junk]
    BY <2>3, <2>5, PageContents DEF Program
  <2> HIDE DEF g, o
  <2>9. ASSUME NEW u \in 0 .. HeaderLen - 1
        PROVE  g[Base + u] = first_pkt.data[u + 1]
    <3>1. Base + u \in Addr /\ Base + u \in Base .. Base + HeaderLen - 1
          /\ (Base + u) - Base + 1 = u + 1
      <4>1. Base + u \in Addr
        BY <2>3, Geometry, Front
      <4> QED BY <2>6, <2>7, <4>1
    <3>2. flash[Base + u] = Erased
      BY <1>1, <2>3 DEF HeaderInv
    <3>3. HeaderPage[u + 1] = first_pkt.data[u + 1]
      BY <2>3, <2>6, PageContents
    <3> QED BY <2>8, <3>1, <3>2, <3>3
  <2>10. Holds(g, o, i)
    <3> SUFFICES ASSUME NEW u \in 0 .. ImageLen - 1
                 PROVE  /\ g[Base + u] \notin {Erased, Junk}
                        /\ g[Base + u].img = i /\ g[Base + u].unit = u
      BY <2>7 DEF Holds
    <3>1. \A x \in Content : x \notin {Erased, Junk}
      BY OtaConstants
    <3>2. CASE u < HeaderLen
      <4>1. u \in 0 .. HeaderLen - 1 /\ u \in 0 .. Len(first_pkt.data) - 1 /\ u \in Nat
        BY <2>6, <3>2, OtaConstants
      <4>2. g[Base + u] = first_pkt.data[u + 1]
        BY <2>9, <4>1
      <4>3. IF u = 0 THEN /\ first_pkt.data[1] \in Content
                          /\ first_pkt.data[1].img = i /\ first_pkt.data[1].unit = 0
            ELSE first_pkt.data[u + 1] = Unit(i, u)
        BY <2>2, <4>1 DEF Begins
      <4>4. Unit(i, u) \in Content /\ Unit(i, u).img = i /\ Unit(i, u).unit = u
        BY <4>1, UnitContent DEF Unit
      <4>5. u = 0 => u + 1 = 1
        OBVIOUS
      <4> QED BY <3>1, <4>2, <4>3, <4>4, <4>5
    <3>3. CASE ~(u < HeaderLen)
      <4>1. u \in HeaderLen .. ImageLen - 1 /\ u < ImageLen /\ u \in Nat
        BY <2>6, <3>3, OtaConstants
      <4>2. flash[Base + u] = Unit(i, u)
        BY <2>2, <4>1 DEF Behind
      <4>3. Base + u \in Addr /\ Base + u \notin Base .. Base + HeaderLen - 1
        <5>1. Base + u \in Addr
          BY <2>3, Geometry, Front
        <5> QED BY <2>6, <2>7, <4>1, <5>1
      <4>4. g[Base + u] = Unit(i, u)
        BY <2>8, <4>2, <4>3
      <4>5. Unit(i, u) \in Content /\ Unit(i, u).img = i /\ Unit(i, u).unit = u
        BY <4>1, UnitContent DEF Unit
      <4> QED BY <3>1, <4>4, <4>5
    <3> QED BY <3>2, <3>3
  <2>11. Whole(g, o)
    BY <2>10 DEF Whole
  <2>12. VersionIn(g, o) = first_pkt.data[1].ver
    <3>1. g[Base + 0] = first_pkt.data[0 + 1]
      BY <2>9, Front
    <3>2. Base + 0 = Base /\ 0 + 1 = 1
      BY <2>7
    <3> QED BY <2>7, <3>1, <3>2 DEF VersionIn
  <2>13. VersionIn(g, cur) = VersionIn(flash, cur) /\ VersionIn(flash, cur) \in Nat
    <3>1. cur * BankLen \in Bank(cur)
      <4>1. cur * BankLen + 0 \in Bank(cur)
        BY <2>3, Geometry, Front
      <4> QED BY <2>3, <4>1, Front
    <3> QED BY <2>3, <2>4, <3>1, FineVersion DEF VersionIn, Fine
  <2>14. High(first_pkt.data[1])
    <3>1. PICK k \in Nat : Len(first_pkt.data) = k * First
                           /\ (k >= NumFirst => High(first_pkt.data[1]))
      BY <2>1, <2>3 DEF KeptOK
    <3>2. k >= NumFirst
      <4>1. SUFFICES ASSUME k < NumFirst PROVE FALSE
        BY FirstFacts
      <4>2. k * First < NumFirst * First
        BY <4>1, FirstFacts, MulStrict
      <4>3. NumFirst * First = NumFirst * PacketLen /\ NumFirst * First \in Nat
        BY LongFacts
      <4> QED BY <2>1, <3>1, <4>2, <4>3
    <3> QED BY <3>1, <3>2
  <2>15. first_pkt.data[1] # Junk
    <3>1. 0 \in 0 .. Len(first_pkt.data) - 1
      BY <2>6
    <3>2. first_pkt.data[1] \in Content
      BY <2>2, <3>1 DEF Begins
    <3> QED BY <3>2, OtaConstants
  <2>16. VersionIn(g, o) \in Nat
    BY <2>4, <2>7, <2>11, FineVersion
  <2>17. ~Rival(g, o)
    BY <2>7, <2>12, <2>13, <2>14, <2>15, <2>16 DEF Rival, High
  <2>18. Boot(g) = o
    BY <2>4, <2>7, <2>11, <2>17, BootFine DEF Fine
  <2>19. Boot(flash') = 1 - cur'
    BY <1>1, <2>18 DEF g, o
  <2> QED BY <1>1, <2>19 DEF CleanInv, Session, Checked, UndisturbedInstalls
<1> QED BY <1>2, <1>3

\* Every step.
LEMMA CleanNext ==
    ASSUME OtaInv, LongImage, CleanInv, [Next]_vars
    PROVE  CleanInv'
<1>1. CASE Receive
  BY <1>1, ReceiveClean
<1>2. CASE Query \/ OTA_CMD_NULL
  BY <1>2, BeginClean
<1>3. CASE Tail2
  BY <1>3, Tail2Clean
<1>4. CASE Swallowed \/ Retry
  BY <1>4, NoneClean
<1>5. CASE WriteHeader
  BY <1>5, HeaderClean
<1>6. CASE Subscribe \/ UNCHANGED vars
  BY <1>6, SameClean DEF Subscribe, vars, ram
<1>7. CASE Leave
  <2>1. peer' = [peer EXCEPT !.gone = TRUE]
    BY <1>7 DEF Leave
  <2>2. /\ peer'.step = peer.step /\ peer'.img = peer.img /\ peer'.base = peer.base
        /\ peer'.waits = peer.waits
    BY <2>1 DEF OtaInv, PeerInv
  <2> QED BY <1>7, <2>2, SameClean DEF Leave, ram
<1>8. CASE ~clean'
  BY <1>8 DEF CleanInv, Session, Checked, UndisturbedInstalls
<1>9. CASE NullBuffer \/ StartOver \/ Restart \/ os_timer_ota_cb \/ PowerFail
  BY <1>8, <1>9 DEF NullBuffer, StartOver, Restart, os_timer_ota_cb, PowerFail
<1>10. ASSUME NEW l \in Links, GATTC_MSG_LINK_CREATE(l) \/ GATTC_MSG_LINK_LOST(l)
       PROVE  CleanInv'
  BY <1>8, <1>10 DEF GATTC_MSG_LINK_CREATE, GATTC_MSG_LINK_LOST
<1> QED BY <1>1, <1>2, <1>3, <1>4, <1>5, <1>6, <1>7, <1>9, <1>10 DEF Next

(***************************************************************************)
(* An update that begins its session and that nothing disturbs succeeds:   *)
(* the reset that ends it boots the other bank, for images, banks and      *)
(* packets of any length as long as the image is not shorter than the      *)
(* packets that hold its header page (ota.c:225-520).                      *)
(***************************************************************************)
THEOREM UndisturbedInstallsAlways ==
    ASSUME ~ResendFirst, LongImage
    PROVE  Spec /\ []HeadKept => []UndisturbedInstalls
<1>1. Spec /\ []HeadKept => []OtaInv
  BY OtaInductive
<1>2. Init => CleanInv
  BY DEF Init, CleanInv, Session, Checked, UndisturbedInstalls
<1>3. OtaInv /\ CleanInv /\ [Next]_vars => CleanInv'
  BY CleanNext
<1>4. CleanInv => UndisturbedInstalls
  BY DEF CleanInv
<1> QED BY <1>1, <1>2, <1>3, <1>4, PTL DEF Spec
=============================================================================
