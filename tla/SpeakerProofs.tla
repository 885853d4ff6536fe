--------------------------- MODULE SpeakerProofs ---------------------------
(***************************************************************************)
(* The playback of a sound, for any file, frame and ring of encoded data,  *)
(* and any number of stops: the chain of messages holds, and the decoder   *)
(* reads what the file has.  The block ring buffer, beside it, is a queue. *)
(***************************************************************************)
EXTENDS SpeakerProps, SequenceTheorems, FiniteSetTheorems, FunctionTheorems, TLAPS

(***************************************************************************)
(* Counting the messages of a queue.                                       *)
(***************************************************************************)

LEMMA PlacesFinite ==
    ASSUME NEW q \in Seq(Msg), NEW e
    PROVE  /\ IsFiniteSet(Places(q, e)) /\ Cardinality(Places(q, e)) \in Nat
           /\ Places(q, e) \subseteq 1 .. Len(q)
           /\ Places(q, e) = {} <=> Cardinality(Places(q, e)) = 0
<1>1. DOMAIN q = 1 .. Len(q) /\ Len(q) \in Nat
  BY LenProperties
<1>2. Places(q, e) \subseteq 1 .. Len(q)
  BY <1>1 DEF Places
<1>3. IsFiniteSet(1 .. Len(q))
  BY <1>1, FS_Interval
<1>4. IsFiniteSet(Places(q, e))
  BY <1>2, <1>3, FS_Subset
<1> QED
  BY <1>2, <1>4, FS_CardinalityType, FS_EmptySet

\* A message that is sent waits behind the others.
LEMMA SentPlaces ==
    ASSUME NEW q \in Seq(Msg), NEW m \in Msg, NEW e
    PROVE  /\ Append(q, m) \in Seq(Msg)
           /\ m.event = e =>
                /\ Places(Append(q, m), e) = Places(q, e) \cup {Len(q) + 1}
                /\ Cardinality(Places(Append(q, m), e)) = Cardinality(Places(q, e)) + 1
           /\ m.event # e => Places(Append(q, m), e) = Places(q, e)
<1>1. /\ Append(q, m) \in Seq(Msg) /\ Len(Append(q, m)) = Len(q) + 1
      /\ Append(q, m)[Len(q) + 1] = m
      /\ \A i \in 1 .. Len(q) : Append(q, m)[i] = q[i]
  BY AppendProperties
<1>2. DOMAIN q = 1 .. Len(q) /\ Len(q) \in Nat /\ DOMAIN Append(q, m) = 1 .. Len(q) + 1
  BY <1>1, LenProperties
<1>3. /\ m.event = e => Places(Append(q, m), e) = Places(q, e) \cup {Len(q) + 1}
      /\ m.event # e => Places(Append(q, m), e) = Places(q, e)
  BY <1>1, <1>2 DEF Places
<1>4. Len(q) + 1 \notin Places(q, e) /\ IsFiniteSet(Places(q, e)) /\ Cardinality(Places(q, e)) \in Nat
  BY <1>2, PlacesFinite
<1>5. m.event = e => Cardinality(Places(Append(q, m), e)) = Cardinality(Places(q, e)) + 1
  BY <1>3, <1>4, FS_AddElement
<1> QED
  BY <1>1, <1>3, <1>5

\* When the first message is taken, the others move up.
LEMMA TakenPlaces ==
    ASSUME NEW q \in Seq(Msg), q # <<>>, NEW e
    PROVE  /\ Tail(q) \in Seq(Msg) /\ Head(q) \in Msg /\ Head(q) = q[1] /\ 1 \in DOMAIN q
           /\ \A i \in DOMAIN Tail(q) : i + 1 \in DOMAIN q /\ Tail(q)[i] = q[i + 1]
           /\ \A i \in Places(Tail(q), e) : i + 1 \in Places(q, e)
           /\ Cardinality(Places(Tail(q), e)) =
                Cardinality(Places(q, e)) - (IF Head(q).event = e THEN 1 ELSE 0)
<1>1. /\ Tail(q) \in Seq(Msg) /\ Head(q) \in Msg /\ Len(Tail(q)) = Len(q) - 1
      /\ \A i \in 1 .. Len(Tail(q)) : Tail(q)[i] = q[i + 1]
  BY HeadTailProperties
<1>2. /\ DOMAIN q = 1 .. Len(q) /\ Len(q) \in Nat \ {0} /\ DOMAIN Tail(q) = 1 .. Len(q) - 1
      /\ Head(q) = q[1]
  BY <1>1, LenProperties, EmptySeq
<1>3. \A i \in DOMAIN Tail(q) : i + 1 \in DOMAIN q /\ Tail(q)[i] = q[i + 1]
  BY <1>1, <1>2
<1>4. \A i \in Places(Tail(q), e) : i + 1 \in Places(q, e)
  BY <1>3 DEF Places
<1> DEFINE S == Places(q, e) \ {1}
           T == Places(Tail(q), e)
           f == [i \in T |-> i + 1]
<1>5. \A s \in S : s - 1 \in T
  BY <1>1, <1>2 DEF Places
<1>6. T \subseteq Int /\ S \subseteq Int
  BY <1>2 DEF Places
<1>7. f \in Bijection(T, S)
  <2>1. f \in [T -> S]
    BY <1>4, <1>2 DEF Places
  <2>2. \A a, b \in T : f[a] = f[b] => a = b
    BY <1>6
  <2>3. \A s \in S : \E t \in T : f[t] = s
    <3> SUFFICES ASSUME NEW s \in S PROVE f[s - 1] = s
      BY <1>5
    <3> QED BY <1>5, <1>6
  <2> QED BY <2>1, <2>2, <2>3, Fun_IsBij
<1>8. IsFiniteSet(T) /\ IsFiniteSet(Places(q, e)) /\ Cardinality(Places(q, e)) \in Nat
  BY <1>1, PlacesFinite
<1>9. Cardinality(S) = Cardinality(T)
  BY <1>7, <1>8, FS_Bijection DEF ExistsBijection
<1>10. Cardinality(S) = IF 1 \in Places(q, e) THEN Cardinality(Places(q, e)) - 1
                                             ELSE Cardinality(Places(q, e))
  BY <1>8, FS_RemoveElement
<1>11. 1 \in Places(q, e) <=> Head(q).event = e
  BY <1>2 DEF Places
<1> QED
  BY <1>1, <1>2, <1>3, <1>4, <1>8, <1>9, <1>10, <1>11

\* The interrupt asks for n frames.
LEMMA AskedPlaces ==
    ASSUME NEW q \in Seq(Msg), NEW n \in Nat
    PROVE  LET r == q \o [i \in 1 .. n |-> NextFrame]
           IN  /\ r \in Seq(Msg)
               /\ Cardinality(Places(r, "NEXT_FRAME")) = Cardinality(Places(q, "NEXT_FRAME")) + n
               /\ \A e : e # "NEXT_FRAME" => Places(r, e) = Places(q, e)
<1> DEFINE more == [i \in 1 .. n |-> NextFrame]
           r == q \o more
<1>1. NextFrame \in Msg
  BY DEF NextFrame, Msg, Events
<1>2. more \in Seq(Msg) /\ Len(more) = n
  BY <1>1
<1>3. /\ r \in Seq(Msg) /\ Len(r) = Len(q) + n
      /\ \A i \in 1 .. Len(q) + n : r[i] = IF i <= Len(q) THEN q[i] ELSE more[i - Len(q)]
  BY <1>2, ConcatProperties
<1>4. DOMAIN q = 1 .. Len(q) /\ Len(q) \in Nat /\ DOMAIN r = 1 .. Len(q) + n
  BY <1>3, LenProperties
<1>5. \A i \in Len(q) + 1 .. Len(q) + n : r[i] = NextFrame
  BY <1>3, <1>4
<1>6. \A e : e # "NEXT_FRAME" => Places(r, e) = Places(q, e)
  BY <1>3, <1>4, <1>5 DEF Places, NextFrame
<1> DEFINE P == Places(q, "NEXT_FRAME")
           W == Len(q) + 1 .. Len(q) + n
<1>7. Places(r, "NEXT_FRAME") = P \cup W
  BY <1>3, <1>4, <1>5 DEF Places, NextFrame
<1>8. IsFiniteSet(P) /\ P \subseteq 1 .. Len(q) /\ Cardinality(P) \in Nat
  BY PlacesFinite
<1>9. IsFiniteSet(W) /\ Cardinality(W) = n
  <2> SUFFICES ASSUME NEW a \in Int, NEW b \in Int, a = Len(q) + 1, b = Len(q) + n
               PROVE  IsFiniteSet(a .. b) /\ Cardinality(a .. b) = n
    BY <1>4
  <2>1. IsFiniteSet(a .. b) /\ Cardinality(a .. b) = IF a > b THEN 0 ELSE b - a + 1
    BY FS_Interval
  <2> QED BY <1>4, <2>1
<1>10. P \cap W = {}
  BY <1>4, <1>8
<1>11. Cardinality(P \cup W) = Cardinality(P) + n
  <2>1. Cardinality(P \cup W) = Cardinality(P) + Cardinality(W) - Cardinality(P \cap W)
    BY <1>8, <1>9, FS_Union, Zenon
  <2>2. Cardinality(P \cap W) = 0
    BY <1>10, FS_EmptySet, Zenon
  <2> HIDE DEF P, W
  <2> QED BY <1>8, <1>9, <2>1, <2>2
<1> QED
  BY <1>3, <1>6, <1>7, <1>11

(***************************************************************************)
(* Arithmetic.                                                             *)
(***************************************************************************)

LEMMA Halves == HalfBuf \in Nat \ {0} /\ BufLen = 2 * HalfBuf /\ FrameLen <= HalfBuf /\ Low <= HalfBuf
<1>1. HalfBuf \in Int
  BY DecoderAssumption DEF HalfBuf
<1>2. HalfBuf * 2 = BufLen /\ Low + HalfBuf <= BufLen /\ FrameLen <= Low
      /\ FrameLen \in Nat \ {0} /\ Low \in Nat
  BY DecoderAssumption
<1> QED BY <1>1, <1>2

LEMMA Division ==
    ASSUME NEW a \in Int, NEW d \in Nat \ {0}
    PROVE  \E q \in Int, r \in 0 .. d - 1 : q = a \div d /\ r = a % d /\ a = d * q + r
<1>1. a \div d \in Int /\ a % d \in 0 .. d - 1
  OBVIOUS
<1>2. PICK q \in Int : q = a \div d
  BY <1>1
<1>3. PICK r \in 0 .. d - 1 : r = a % d
  BY <1>1
<1>4. a = d * q + r
  BY <1>2, <1>3
<1> QED BY <1>2, <1>3, <1>4

LEMMA Remainder ==
    ASSUME NEW d \in Nat \ {0}, NEW q \in Int, NEW r \in 0 .. d - 1
    PROVE  (d * q + r) % d = r
<1> SUFFICES ASSUME NEW a \in Int, a = q * d + r
             PROVE  a % d = r
  OBVIOUS
<1> QED OBVIOUS

\* What the interrupt plays ends the frames it frees, and no more than there are.
LEMMA FreedFits ==
    ASSUME NEW size \in Nat \ {0}, NEW frames \in Nat, NEW played \in Nat, played <= frames * size
    PROVE  /\ played \div size \in 0 .. frames
           /\ played % size \in 0 .. size - 1
           /\ played % size <= (frames - played \div size) * size
<1>1. PICK d \in Int, m \in 0 .. size - 1 :
           d = played \div size /\ m = played % size /\ played = size * d + m
  BY Division
<1>2. d >= 0
  <2> SUFFICES ASSUME d <= -1 PROVE FALSE
    BY <1>1
  <2>1. size * d <= size * (-1)
    BY <1>1
  <2> QED BY <1>1, <2>1
<1>3. d <= frames
  <2> SUFFICES ASSUME d >= frames + 1 PROVE FALSE
    BY <1>1
  <2>1. size * d >= size * (frames + 1)
    BY <1>1
  <2>2. size * (frames + 1) = frames * size + size
    OBVIOUS
  <2> QED BY <1>1, <2>1, <2>2
<1>4. m <= (frames - d) * size
  <2>1. CASE d = frames
    <3>1. size * d = frames * size
      BY <2>1
    <3> QED BY <1>1, <3>1, <2>1
  <2>2. CASE frames - d >= 1
    <3>1. (frames - d) * size >= 1 * size
      BY <1>1, <2>2
    <3> QED BY <1>1, <3>1
  <2> QED BY <1>1, <1>3, <2>1, <2>2
<1> QED BY <1>1, <1>2, <1>3, <1>4

\* The counter of frames does not wrap before it has to.
LEMMA CounterWraps ==
    ASSUME NEW modulus \in Nat, modulus > 1, NEW n \in Nat, n < modulus
    PROVE  /\ n % modulus = n
           /\ (-1) % modulus = modulus - 1
           /\ modulus % modulus = 0
           /\ (((n - 1) % modulus) + 1) % modulus = n
<1>2. \A k \in 0 .. modulus - 1 : k % modulus = k
  OBVIOUS
<1>3. (-1) % modulus = modulus - 1
  OBVIOUS
<1>4. modulus % modulus = 0
  OBVIOUS
<1>5. CASE n = 0
  BY <1>2, <1>3, <1>4, <1>5
<1>6. CASE n > 0
  <2>1. (n - 1) % modulus = n - 1
    BY <1>2, <1>6
  <2> QED BY <1>2, <1>3, <1>4, <1>6, <2>1
<1> QED BY <1>5, <1>6

\* To go on from a remainder is to go on from the number.
LEMMA RemainderTwice ==
    ASSUME NEW a \in Nat, NEW d \in Nat \ {0}, NEW i \in Nat
    PROVE  ((a % d) + i) % d = (a + i) % d
<1>1. PICK q \in Int, r \in 0 .. d - 1 : r = a % d /\ a = d * q + r
  <2>1. a \in Int
    OBVIOUS
  <2>2. \E q \in Int, r \in 0 .. d - 1 : q = a \div d /\ r = a % d /\ a = d * q + r
    BY <2>1, Division
  <2> QED BY <2>2
<1>2. PICK p \in Int, t \in 0 .. d - 1 : t = (r + i) % d /\ r + i = d * p + t
  <2>1. r + i \in Int
    OBVIOUS
  <2> QED BY <2>1, Division
<1>3. (d * (q + p) + t) % d = t
  <2>1. q + p \in Int
    OBVIOUS
  <2> QED BY <2>1, Remainder
<1>4. a + i = d * (q + p) + t
  <2>1. d * (q + p) = d * q + d * p /\ d * q \in Int /\ d * p \in Int
    OBVIOUS
  <2>2. \A x, y \in Int : a = x + r /\ r + i = y + t => a + i = (x + y) + t
    OBVIOUS
  <2> QED BY <1>1, <1>2, <2>1, <2>2
<1> QED BY <1>1, <1>2, <1>3, <1>4

\* Going round a ring: a place that does not pass its end,
LEMMA RemainderPlus ==
    ASSUME NEW a \in Int, NEW d \in Nat \ {0}, NEW i \in Nat, (a % d) + i < d
    PROVE  (a + i) % d = (a % d) + i
<1>1. PICK q \in Int, r \in 0 .. d - 1 : r = a % d /\ a = d * q + r
  <2>1. \E q \in Int, r \in 0 .. d - 1 : q = a \div d /\ r = a % d /\ a = d * q + r
    BY Division
  <2> QED BY <2>1
<1>2. r + i \in 0 .. d - 1
  BY <1>1
<1>3. (d * q + (r + i)) % d = r + i
  BY <1>2, Remainder
<1>4. a + i = d * q + (r + i)
  BY <1>1
<1> QED BY <1>1, <1>3, <1>4

\* ... a place that reaches it,
LEMMA RemainderWraps ==
    ASSUME NEW a \in Int, NEW d \in Nat \ {0}, NEW i \in Nat, (a % d) + i = d
    PROVE  (a + i) % d = 0
<1>1. PICK q \in Int, r \in 0 .. d - 1 : r = a % d /\ a = d * q + r
  <2>1. \E q \in Int, r \in 0 .. d - 1 : q = a \div d /\ r = a % d /\ a = d * q + r
    BY Division
  <2> QED BY <2>1
<1>2. (d * (q + 1) + 0) % d = 0
  <2>1. q + 1 \in Int /\ 0 \in 0 .. d - 1
    OBVIOUS
  <2> QED BY <2>1, Remainder
<1>3. a + i = d * (q + 1) + 0
  <2>1. d * (q + 1) = d * q + d
    OBVIOUS
  <2> QED BY <1>1, <2>1
<1> QED BY <1>2, <1>3

\* ... and two that are less than a round apart.
LEMMA RemainderDiffers ==
    ASSUME NEW d \in Nat \ {0}, NEW a \in Int, NEW b \in Int, a < b, b < a + d
    PROVE  a % d # b % d
<1>1. PICK q \in Int, r \in 0 .. d - 1 : r = a % d /\ a = d * q + r
  <2>1. \E q \in Int, r \in 0 .. d - 1 : q = a \div d /\ r = a % d /\ a = d * q + r
    BY Division
  <2> QED BY <2>1
<1>2. PICK p \in Int, t \in 0 .. d - 1 : t = b % d /\ b = d * p + t
  <2>1. \E p \in Int, t \in 0 .. d - 1 : p = b \div d /\ t = b % d /\ b = d * p + t
    BY Division
  <2> QED BY <2>1
<1> SUFFICES ASSUME r = t PROVE FALSE
  BY <1>1, <1>2
<1>3. d * p - d * q = d * (p - q)
  OBVIOUS
<1>4. d * (p - q) > 0 /\ d * (p - q) < d
  <2>1. \A x, y \in Int : a = y + r /\ b = x + r => x - y > 0 /\ x - y < d
    OBVIOUS
  <2>2. d * p \in Int /\ d * q \in Int
    OBVIOUS
  <2>3. d * p - d * q > 0 /\ d * p - d * q < d
    BY <1>1, <1>2, <2>1, <2>2
  <2> QED BY <1>3, <2>3
<1>5. CASE p - q >= 1
  <2>1. d * (p - q) >= d * 1
    BY <1>5
  <2> QED BY <1>4, <2>1
<1>6. CASE p - q <= 0
  <2>1. d * (p - q) <= d * 0
    BY <1>6
  <2> QED BY <1>4, <2>1
<1> QED BY <1>5, <1>6

\* A multiple of half the ring is at its begin or in its middle.
LEMMA HalfPlaces ==
    ASSUME NEW a \in Int, a % HalfBuf = 0
    PROVE  a % BufLen \in {0, HalfBuf}
<1>1. PICK q \in Int, r \in 0 .. HalfBuf - 1 : r = a % HalfBuf /\ a = HalfBuf * q + r
  BY Halves, Division
<1>2. PICK p \in Int, t \in 0 .. BufLen - 1 : t = a % BufLen /\ a = BufLen * p + t
  <2>1. BufLen \in Nat \ {0}
    BY Halves
  <2>2. \E p \in Int, t \in 0 .. BufLen - 1 :
           p = a \div BufLen /\ t = a % BufLen /\ a = BufLen * p + t
    BY <2>1, Division
  <2> QED BY <2>2
<1>3. t = HalfBuf * (q - 2 * p)
  <2>1. BufLen * p = HalfBuf * (2 * p) /\ HalfBuf * (2 * p) \in Int
    <3>1. \A h \in Nat : (2 * h) * p = h * (2 * p) /\ h * (2 * p) \in Int
      OBVIOUS
    <3> QED BY <3>1, Halves
  <2>2. HalfBuf * (q - 2 * p) = HalfBuf * q - HalfBuf * (2 * p) /\ HalfBuf * q \in Int
    BY Halves
  <2>3. \A x, y \in Int : a = x + 0 /\ a = y + t => t = x - y
    BY Halves
  <2>4. a = HalfBuf * q + 0
    BY <1>1
  <2>5. a = HalfBuf * (2 * p) + t
    BY <1>2, <2>1
  <2> QED BY <2>1, <2>2, <2>3, <2>4, <2>5
<1>4. CASE q - 2 * p <= -1
  <2>1. HalfBuf * (q - 2 * p) <= HalfBuf * (-1)
    BY <1>4, Halves
  <2> QED BY <1>3, <2>1, Halves
<1>5. CASE q - 2 * p >= 2
  <2>1. HalfBuf * (q - 2 * p) >= HalfBuf * 2
    BY <1>5, Halves
  <2> QED BY <1>3, <2>1, Halves
<1>6. CASE q - 2 * p \in {0, 1}
  BY <1>2, <1>3, <1>6, Halves
<1> QED BY <1>4, <1>5, <1>6

\* A frame more is a multiple of the frame, and does not go past the ring's end.
LEMMA FrameFits ==
    ASSUME NEW place \in 0 .. BufLen - 1, place % FrameLen = 0
    PROVE  place + FrameLen <= BufLen /\ (place + FrameLen) % FrameLen = 0 /\ 0 % FrameLen = 0
<1>1. FrameLen \in Nat \ {0} /\ BufLen % FrameLen = 0 /\ BufLen \in Nat
  BY DecoderAssumption
<1>2. PICK q \in Int, r \in 0 .. FrameLen - 1 : r = place % FrameLen /\ place = FrameLen * q + r
  BY <1>1, Division
<1>3. PICK p \in Int, t \in 0 .. FrameLen - 1 : t = BufLen % FrameLen /\ BufLen = FrameLen * p + t
  BY <1>1, Division
<1>4. FrameLen * q < FrameLen * p
  BY <1>1, <1>2, <1>3
<1>5. p >= q + 1
  <2> SUFFICES ASSUME q >= p PROVE FALSE
    OBVIOUS
  <2>1. FrameLen * q >= FrameLen * p
    BY <1>1
  <2> QED BY <1>1, <1>4, <2>1
<1>6. FrameLen * p >= FrameLen * (q + 1)
  BY <1>1, <1>5
<1>7. FrameLen * (q + 1) = FrameLen * q + FrameLen
  BY <1>1
<1>8. (FrameLen * (q + 1) + 0) % FrameLen = 0 /\ (FrameLen * 0 + 0) % FrameLen = 0
  BY <1>1, Remainder
<1>9. place = FrameLen * q /\ BufLen = FrameLen * p
  <2>1. \A x \in Int : x + 0 = x
    OBVIOUS
  <2>2. FrameLen * q \in Int /\ FrameLen * p \in Int
    BY <1>1
  <2> QED BY <1>1, <1>2, <1>3, <2>1, <2>2
<1>10. place + FrameLen = FrameLen * (q + 1) /\ FrameLen * (q + 1) \in Int
  BY <1>1, <1>7, <1>9
<1>11. FrameLen * (q + 1) + 0 = FrameLen * (q + 1) /\ FrameLen * 0 + 0 = 0
  BY <1>1, <1>10
<1> QED BY <1>6, <1>8, <1>9, <1>10, <1>11

(***************************************************************************)
(* The order of the messages.                                              *)
(***************************************************************************)

\* While something plays no sound is asked for.
LEMMA NoneAsked ==
    ASSUME InLine, decodeTASKState # "IDLE"
    PROVE  Places(msgs, "PREPARE") = {}
BY DEF InLine

LEMMA NoneInLine ==
    ASSUME Places(msgs, "PREPARE")' = {}
    PROVE  InLine'
BY DEF InLine, Places

\* A message taken leaves the others in line, if one that is asked for finds the task idle.
LEMMA TakenInLine ==
    ASSUME msgs \in Seq(Msg), msgs # <<>>, InLine, msgs' = Tail(msgs), stale' = stale,
           decodeTASKState' = "IDLE"
    PROVE  InLine'
<1> SUFFICES ASSUME NEW i \in Places(msgs', "PREPARE")
             PROVE  /\ \A j \in DOMAIN msgs' : j > i => msgs'[j].event = "STOP"
                    /\ ~stale => \A j \in DOMAIN msgs' : j < i => msgs'[j].event # "STOP"
  BY DEF InLine
<1>1. i + 1 \in Places(msgs, "PREPARE")
  BY TakenPlaces
<1>2. \A j \in DOMAIN msgs' : j + 1 \in DOMAIN msgs /\ msgs'[j] = msgs[j + 1]
  BY TakenPlaces
<1>3. DOMAIN msgs' \subseteq Int
  BY TakenPlaces, LenProperties
<1>4. i \in DOMAIN msgs'
  BY DEF Places
<1> QED BY <1>1, <1>2, <1>3, <1>4 DEF InLine

\* A stop is put behind the others.
LEMMA StopInLine ==
    ASSUME msgs \in Seq(Msg), InLine, msgs' = Append(msgs, Stop), stale' = stale,
           decodeTASKState' = decodeTASKState
    PROVE  InLine'
<1>1. Stop \in Msg /\ Stop.event = "STOP"
  BY DEF Stop, Msg, Events
<1>2. Places(msgs', "PREPARE") = Places(msgs, "PREPARE")
  BY <1>1, SentPlaces
<1>3. /\ DOMAIN msgs = 1 .. Len(msgs) /\ Len(msgs) \in Nat /\ DOMAIN msgs' = 1 .. Len(msgs) + 1
      /\ msgs'[Len(msgs) + 1] = Stop /\ \A j \in 1 .. Len(msgs) : msgs'[j] = msgs[j]
  BY <1>1, LenProperties, AppendProperties
<1> SUFFICES ASSUME NEW i \in Places(msgs, "PREPARE")
             PROVE  /\ decodeTASKState = "IDLE"
                    /\ \A j \in DOMAIN msgs' : j > i => msgs'[j].event = "STOP"
                    /\ ~stale => \A j \in DOMAIN msgs' : j < i => msgs'[j].event # "STOP"
  BY <1>2 DEF InLine
<1>4. i \in 1 .. Len(msgs)
  BY <1>3 DEF Places
<1> QED BY <1>1, <1>3, <1>4 DEF InLine

\* What asks for a sound is behind all others.
LEMMA PrepareInLine ==
    ASSUME msgs \in Seq(Msg), Places(msgs, "PREPARE") = {}, NEW n \in Int,
           msgs' = Append(msgs, Prepare(n)), decodeTASKState' = "IDLE", stale' = Has("STOP")
    PROVE  InLine' /\ Places(msgs', "PREPARE") = {Len(msgs) + 1}
<1>1. Prepare(n) \in Msg /\ Prepare(n).event = "PREPARE"
  BY DEF Prepare, Msg, Events
<1>2. Places(msgs', "PREPARE") = {Len(msgs) + 1}
  <2>1. Places(msgs', "PREPARE") = Places(msgs, "PREPARE") \cup {Len(msgs) + 1}
    BY <1>1, SentPlaces
  <2> QED BY <2>1
<1>3. /\ DOMAIN msgs = 1 .. Len(msgs) /\ Len(msgs) \in Nat /\ DOMAIN msgs' = 1 .. Len(msgs) + 1
      /\ \A j \in 1 .. Len(msgs) : msgs'[j] = msgs[j]
  BY <1>1, LenProperties, AppendProperties
<1>4. ~stale' => \A j \in DOMAIN msgs' : j < Len(msgs) + 1 => msgs'[j].event # "STOP"
  BY <1>3 DEF Has
<1>5. \A j \in DOMAIN msgs' : ~(j > Len(msgs) + 1)
  BY <1>3
<1> QED BY <1>2, <1>4, <1>5 DEF InLine

(***************************************************************************)
(* One lemma per step: what it leaves of the chain of messages.            *)
(***************************************************************************)

\* test_speaker_from_flash finds the task idle and no sound asked for.
LEMMA StartFindsIdle ==
    ASSUME SoundInv, test_speaker_from_flash
    PROVE  decodeTASKState = "IDLE" /\ Places(msgs, "PREPARE") = {} /\ stale' = Has("STOP")
<1>1. Places(<<>>, "PREPARE") = {}
  BY DEF Places
<1>2. decodeTASKState = "IDLE" /\ Places(msgs, "PREPARE") = {}
  BY <1>1 DEF SoundInv, Kept, test_speaker_from_flash
<1>3. ~Has("PREPARE")
  BY <1>2 DEF Has, Places
<1>4. stale' = (decodeTASKState # "IDLE" \/ Has("STOP") \/ Has("PREPARE"))
  BY DEF test_speaker_from_flash
<1>5. stale' = Has("STOP")
  BY <1>2, <1>3, <1>4, Zenon DEF Has
<1> QED BY <1>2, <1>5

LEMMA FilledIsRing ==
    ASSUME NEW ring0, NEW at, NEW n, NEW from
    PROVE  Filled(ring0, at, n, from) # <<>>
<1>1. DOMAIN Filled(ring0, at, n, from) = Ring /\ 0 \in Ring
  BY Halves DEF Filled, Ring
<1>2. DOMAIN <<>> = {}
  OBVIOUS
<1> QED BY <1>1, <1>2

LEMMA ReturnedIsInt == file \in Files => \A from \in Int : Returned(HalfBuf, from) \in Int
  BY Halves, DecoderAssumption DEF Returned, Copied, Least

LEMMA StartKeeps ==
    ASSUME SoundInv, test_speaker_from_flash, App_Mode' = App_Mode
    PROVE  SoundInv'
<1> USE DEF SoundInv
<1>1. decodeTASKState = "IDLE" /\ Places(msgs, "PREPARE") = {} /\ stale' = Has("STOP")
  BY StartFindsIdle
<1>2. PICK n \in Int : msgs' = Append(msgs, Prepare(n))
  BY ReturnedIsInt DEF test_speaker_from_flash, DecoderTypes
<1>3. msgs' \in Seq(Msg)
  BY <1>2, SentPlaces DEF Prepare, Msg, Events, DecoderTypes
<1>4. InLine'
  BY <1>1, <1>2, PrepareInLine DEF test_speaker_from_flash, DecoderTypes
<1>5. DecoderTypes'
  <2>1. stale' \in BOOLEAN
    BY DEF test_speaker_from_flash, Has
  <2> QED BY <1>3, <2>1 DEF test_speaker_from_flash, DecoderTypes, env, sound
<1>6. Kept'
  BY FilledIsRing DEF test_speaker_from_flash, Kept
<1>7. Chain'
  BY <1>1 DEF test_speaker_from_flash, Chain, sound
<1> QED BY <1>4, <1>5, <1>6, <1>7

LEMMA StopAskedKeeps ==
    ASSUME SoundInv, test_end_speaker, App_Mode' = App_Mode
    PROVE  SoundInv'
<1> USE DEF SoundInv
<1>1. Stop \in Msg /\ Stop.event = "STOP"
  BY DEF Stop, Msg, Events
<1>2. msgs' \in Seq(Msg) /\ Places(msgs', "PREPARE") = Places(msgs, "PREPARE")
      /\ Cardinality(Places(msgs', "NEXT_FRAME")) = Cardinality(Places(msgs, "NEXT_FRAME"))
  BY <1>1, SentPlaces, PlacesFinite DEF test_end_speaker, DecoderTypes
<1>3. InLine'
  BY StopInLine DEF test_end_speaker, DecoderTypes
<1>4. DecoderTypes'
  BY <1>2 DEF test_end_speaker, DecoderTypes, env, sound, reader
<1>5. Kept'
  BY <1>2 DEF test_end_speaker, Kept, reader
<1>6. Chain'
  BY <1>2 DEF test_end_speaker, Chain, env, sound, Waiting
<1> QED BY <1>3, <1>4, <1>5, <1>6

\* The queue of one who plays, after a message that is neither stop nor request is taken.
LEMMA PlayingTakes ==
    ASSUME SoundInv, Takes("NEXT_FRAME"), decodeTASKState # "IDLE"
    PROVE  /\ Tail(msgs) \in Seq(Msg) /\ Places(Tail(msgs), "PREPARE") = {}
           /\ Cardinality(Places(Tail(msgs), "NEXT_FRAME")) = Waiting("NEXT_FRAME") - 1
           /\ Cardinality(Places(Tail(msgs), "NEXT_FRAME")) \in Nat
<1>1. msgs \in Seq(Msg) /\ msgs # <<>> /\ Head(msgs).event = "NEXT_FRAME"
  BY DEF Takes, SoundInv, DecoderTypes
<1>2. Places(msgs, "PREPARE") = {}
  BY NoneAsked DEF SoundInv
<1>3. Tail(msgs) \in Seq(Msg) /\ Places(Tail(msgs), "PREPARE") = {}
  BY <1>1, <1>2, TakenPlaces
<1>4. Cardinality(Places(Tail(msgs), "NEXT_FRAME")) = Waiting("NEXT_FRAME") - 1
  BY <1>1, TakenPlaces DEF Waiting
<1> QED BY <1>3, <1>4, PlacesFinite

\* A request comes to the head only when all before it are served, and finds no frame asked for.
LEMMA PrepareKeeps ==
    ASSUME SoundInv, prepare_handler, App_Mode' = App_Mode, App_Mode = "PLAYER"
    PROVE  SoundInv'
<1> USE DEF SoundInv
<1>1. msgs \in Seq(Msg) /\ msgs # <<>> /\ Head(msgs).event = "PREPARE"
  BY DEF prepare_handler, Takes, DecoderTypes
<1>2. 1 \in Places(msgs, "PREPARE")
  BY <1>1, TakenPlaces DEF Places
<1>3. decodeTASKState = "IDLE" /\ \A j \in DOMAIN msgs : j > 1 => msgs[j].event = "STOP"
  BY <1>2 DEF InLine
<1>4. \A j \in DOMAIN Tail(msgs) : Tail(msgs)[j].event = "STOP"
  <2>1. DOMAIN Tail(msgs) \subseteq Nat \ {0}
    BY <1>1, TakenPlaces, LenProperties
  <2> QED BY <1>1, <1>3, <2>1, TakenPlaces
<1>5. Places(Tail(msgs), "PREPARE") = {} /\ Places(Tail(msgs), "NEXT_FRAME") = {}
  BY <1>4 DEF Places
<1>6. Tail(msgs) \in Seq(Msg) /\ NextFrame \in Msg /\ NextFrame.event = "NEXT_FRAME"
  BY <1>1, TakenPlaces DEF NextFrame, Msg, Events
<1>7. msgs' = Append(Tail(msgs), NextFrame) /\ decodeTASKState' = "BUFFERING"
  BY <1>3 DEF prepare_handler
<1>8. /\ msgs' \in Seq(Msg) /\ Places(msgs', "PREPARE") = {}
      /\ Cardinality(Places(msgs', "NEXT_FRAME")) = 1
  <2>1. Places(msgs', "PREPARE") = Places(Tail(msgs), "PREPARE") /\ msgs' \in Seq(Msg)
    BY <1>6, <1>7, SentPlaces
  <2>2. Cardinality(Places(msgs', "NEXT_FRAME")) = Cardinality(Places(Tail(msgs), "NEXT_FRAME")) + 1
    BY <1>6, <1>7, SentPlaces
  <2>3. Cardinality(Places(Tail(msgs), "NEXT_FRAME")) = 0
    BY <1>5, FS_EmptySet
  <2> QED BY <1>5, <2>1, <2>2, <2>3
<1>9. /\ pcm_buffer_list' = 0 /\ pcm_offset' = 0 /\ pcm_buffer_counter' = 0
      /\ UNCHANGED <<step, reg, irq, file, sbc_buff, end_flag, crossed, stale>>
  BY <1>3 DEF prepare_handler, reader
<1>10. InLine'
  BY <1>8, NoneInLine DEF Places
<1>11. DecoderTypes'
  BY <1>7, <1>8, <1>9, DecoderAssumption DEF DecoderTypes
<1>12. Kept'
  BY <1>2, <1>9 DEF Kept
<1>13. Chain'
  <2>1. step = "idle" /\ ~irq
    BY <1>3 DEF Chain
  <2>2. 0 % CntMod = 0 /\ 0 \in 0 .. Prebuffer /\ 0 <= 0 * FrameSamples
    BY CounterWraps, DecoderAssumption
  <2>3. Waiting("NEXT_FRAME")' = 1
    BY <1>8 DEF Waiting
  <2> QED BY <1>7, <1>9, <2>1, <2>2, <2>3 DEF Chain
<1> QED BY <1>10, <1>11, <1>12, <1>13

LEMMA StopKeeps ==
    ASSUME SoundInv, stop_handler, App_Mode' = App_Mode
    PROVE  SoundInv'
<1> USE DEF SoundInv
<1>1. msgs \in Seq(Msg) /\ msgs # <<>> /\ Head(msgs).event = "STOP" /\ msgs' = Tail(msgs)
      /\ stale' = stale /\ decodeTASKState' = "IDLE"
  BY DEF stop_handler, Takes, DecoderTypes
<1>2. InLine'
  BY <1>1, TakenInLine
<1>3. DecoderTypes'
  BY <1>1, TakenPlaces, DecoderAssumption DEF stop_handler, DecoderTypes
<1>4. Kept'
  <2> SUFFICES ASSUME NEW i \in Places(msgs', "PREPARE") PROVE stale
    BY <1>1 DEF Kept
  <2>1. i + 1 \in Places(msgs, "PREPARE") /\ 1 \in DOMAIN msgs /\ msgs[1].event = "STOP"
    BY <1>1, TakenPlaces
  <2>2. i \in Nat \ {0}
    BY <1>1, TakenPlaces, LenProperties DEF Places
  <2> QED BY <2>1, <2>2 DEF InLine
<1>5. Chain'
  <2>1. step = "idle" /\ step' = step
    BY DEF stop_handler, Takes
  <2>2. 0 <= 0 * FrameSamples
    BY DecoderAssumption
  <2> QED BY <1>1, <2>1, <2>2 DEF stop_handler, Chain
<1> QED BY <1>2, <1>3, <1>4, <1>5

LEMMA DropKeeps ==
    ASSUME SoundInv, DropFrame, App_Mode' = App_Mode
    PROVE  SoundInv'
<1> USE DEF SoundInv
<1>1. msgs \in Seq(Msg) /\ msgs # <<>> /\ msgs' = Tail(msgs)
      /\ stale' = stale /\ decodeTASKState = "IDLE" /\ decodeTASKState' = "IDLE"
  BY DEF DropFrame, Takes, DecoderTypes
<1>2. InLine'
  BY <1>1, TakenInLine
<1>3. DecoderTypes'
  BY <1>1, TakenPlaces DEF DropFrame, DecoderTypes, env, sound, reader
<1>4. Kept'
  BY <1>1, TakenPlaces DEF DropFrame, Kept, reader
<1>5. Chain'
  BY <1>1 DEF DropFrame, Chain, env, sound
<1> QED BY <1>2, <1>3, <1>4, <1>5

LEMMA WaitEndKeeps ==
    ASSUME SoundInv, WaitEnd, App_Mode' = App_Mode
    PROVE  SoundInv'
<1> USE DEF SoundInv
<1>1. /\ Tail(msgs) \in Seq(Msg) /\ Places(Tail(msgs), "PREPARE") = {}
      /\ Cardinality(Places(Tail(msgs), "NEXT_FRAME")) = Waiting("NEXT_FRAME") - 1
      /\ Cardinality(Places(Tail(msgs), "NEXT_FRAME")) \in Nat
  BY PlayingTakes DEF WaitEnd
<1>2. Stop \in Msg /\ Stop.event # "PREPARE" /\ Stop.event # "NEXT_FRAME"
  BY DEF Stop, Msg, Events
<1>3. msgs' = Tail(msgs) \/ msgs' = Append(Tail(msgs), Stop)
  BY DEF WaitEnd
<1>4. /\ msgs' \in Seq(Msg) /\ Places(msgs', "PREPARE") = {}
      /\ Cardinality(Places(msgs', "NEXT_FRAME")) = Waiting("NEXT_FRAME") - 1
  <2>1. CASE msgs' = Tail(msgs)
    BY <1>1, <2>1
  <2>2. CASE msgs' = Append(Tail(msgs), Stop)
    <3>1. msgs' \in Seq(Msg) /\ Places(msgs', "PREPARE") = Places(Tail(msgs), "PREPARE")
      BY <1>1, <1>2, <2>2, SentPlaces
    <3>2. Places(msgs', "NEXT_FRAME") = Places(Tail(msgs), "NEXT_FRAME")
      BY <1>1, <1>2, <2>2, SentPlaces
    <3> QED BY <1>1, <3>1, <3>2
  <2> QED BY <1>3, <2>1, <2>2
<1>5. InLine'
  BY <1>4, NoneInLine DEF Places
<1>6. DecoderTypes'
  BY <1>4 DEF WaitEnd, DecoderTypes, env, sound, reader
<1>7. Kept'
  BY DEF WaitEnd, Kept, reader
<1>8. Chain'
  <2>1. Waiting("NEXT_FRAME")' = Waiting("NEXT_FRAME") - 1 /\ Waiting("NEXT_FRAME") \in Nat
    BY <1>4, PlacesFinite DEF Waiting, DecoderTypes
  <2>2. decodeTASKState = "WAITING_END" /\ decodeTASKState' = "WAITING_END"
        /\ UNCHANGED <<step, reg, pcm_buffer_counter, pcm_buffer_list, pcm_offset, irq, crossed>>
    BY DEF WaitEnd, Takes, sound
  <2>3. step = "idle" /\ pcm_buffer_list + Waiting("NEXT_FRAME") <= Prebuffer + 1
    BY <2>2 DEF Chain
  <2>4. pcm_buffer_list' + Waiting("NEXT_FRAME")' <= Prebuffer + 1
    BY <2>1, <2>2, <2>3, DecoderAssumption DEF DecoderTypes
  <2> QED BY <2>2, <2>3, <2>4 DEF Chain
<1> QED BY <1>5, <1>6, <1>7, <1>8

LEMMA PushKeeps ==
    ASSUME SoundInv, PushFrame, App_Mode' = App_Mode
    PROVE  SoundInv'
<1> USE DEF SoundInv
<1>1. /\ Tail(msgs) \in Seq(Msg) /\ Places(Tail(msgs), "PREPARE") = {}
      /\ Cardinality(Places(Tail(msgs), "NEXT_FRAME")) = Waiting("NEXT_FRAME") - 1
  BY PlayingTakes DEF PushFrame
<1>2. /\ msgs' = Tail(msgs) /\ pcm_buffer_list' = pcm_buffer_list + 1 /\ step' = "pushed" /\ step = "idle"
      /\ decodeTASKState \in {"BUFFERING", "PLAYING"}
      /\ UNCHANGED <<decodeTASKState, reg, pcm_buffer_counter, pcm_offset, irq, file, sbc_buff,
                     end_flag, crossed, stale>>
  BY DEF PushFrame, Takes, env, reader
<1>3. InLine'
  BY <1>1, <1>2, NoneInLine DEF Places
<1>4. DecoderTypes'
  BY <1>1, <1>2 DEF DecoderTypes
<1>5. Kept'
  BY <1>2 DEF Kept
<1>6. Chain'
  <2>1. Waiting("NEXT_FRAME")' = Waiting("NEXT_FRAME") - 1 /\ Waiting("NEXT_FRAME") \in Nat
    BY <1>1, <1>2, PlacesFinite DEF Waiting, DecoderTypes
  <2>2. pcm_offset' <= pcm_buffer_list' * FrameSamples
    <3>1. (pcm_buffer_list + 1) * FrameSamples = pcm_buffer_list * FrameSamples + FrameSamples
      BY DecoderAssumption DEF DecoderTypes
    <3>2. pcm_buffer_list * FrameSamples \in Nat
      BY DecoderAssumption DEF DecoderTypes
    <3> QED BY <1>2, <3>1, <3>2, DecoderAssumption DEF Chain, DecoderTypes
  <2>3. pcm_buffer_list' - 1 = pcm_buffer_list - 0
    BY <1>2 DEF DecoderTypes
  <2>4. ~crossed => pcm_buffer_counter' = (pcm_buffer_list' - 1) % CntMod
    BY <1>2, <2>3 DEF Chain
  <2>5. decodeTASKState = "BUFFERING" =>
          /\ ~irq /\ Waiting("NEXT_FRAME") = 1
          /\ pcm_buffer_counter = pcm_buffer_list /\ pcm_buffer_counter \in 0 .. Prebuffer
    BY <1>2 DEF Chain, DecoderTypes
  <2>6. decodeTASKState = "PLAYING" => pcm_buffer_list + Waiting("NEXT_FRAME") = Prebuffer + 1
    BY DEF Chain
  <2>7. decodeTASKState' = "BUFFERING" =>
          /\ ~irq' /\ Waiting("NEXT_FRAME")' = 0
          /\ pcm_buffer_counter' = pcm_buffer_list' - 1 /\ pcm_buffer_counter' \in 0 .. Prebuffer
    BY <1>2, <2>1, <2>5 DEF DecoderTypes
  <2>8. decodeTASKState' = "PLAYING" => pcm_buffer_list' + Waiting("NEXT_FRAME")' = Prebuffer + 1
    BY <1>2, <2>1, <2>6 DEF DecoderTypes
  <2> QED BY <1>2, <2>2, <2>4, <2>7, <2>8 DEF Chain
<1> QED BY <1>3, <1>4, <1>5, <1>6

LEMMA LoadKeeps ==
    ASSUME SoundInv, LoadCounter, App_Mode' = App_Mode
    PROVE  SoundInv'
<1> USE DEF SoundInv
<1>1. /\ step = "pushed" /\ step' = "loaded" /\ reg' = pcm_buffer_counter
      /\ UNCHANGED <<decodeTASKState, msgs, pcm_buffer_counter, pcm_buffer_list, pcm_offset, irq,
                     file, sbc_buff, end_flag, crossed, stale>>
  BY DEF LoadCounter, env, sound, reader
<1>2. InLine' /\ Kept'
  BY <1>1 DEF InLine, Kept
<1>3. DecoderTypes'
  BY <1>1 DEF DecoderTypes
<1>4. Chain'
  BY <1>1 DEF Chain, Waiting
<1> QED BY <1>2, <1>3, <1>4

\* The interrupt turns frames that waited into frames that are asked for.
LEMMA InterruptKeeps ==
    ASSUME SoundInv, i2s_isr_ram, App_Mode' = App_Mode
    PROVE  SoundInv'
<1> USE DEF SoundInv
<1> DEFINE played == pcm_offset + Least(Half, pcm_buffer_list * FrameSamples - pcm_offset)
           freed == played \div FrameSamples
<1>1. played \in Nat /\ played <= pcm_buffer_list * FrameSamples
  <2>1. pcm_buffer_list * FrameSamples \in Nat
    BY DecoderAssumption DEF DecoderTypes
  <2> QED BY <2>1, DecoderAssumption DEF DecoderTypes, Chain, Least
<1>2. /\ freed \in 0 .. pcm_buffer_list /\ played % FrameSamples \in 0 .. FrameSamples - 1
      /\ played % FrameSamples <= (pcm_buffer_list - freed) * FrameSamples
  BY <1>1, FreedFits, DecoderAssumption DEF DecoderTypes
<1>3. /\ irq /\ pcm_buffer_list > 0
      /\ pcm_buffer_list' = pcm_buffer_list - freed
      /\ pcm_offset' = played % FrameSamples
      /\ pcm_buffer_counter' = (pcm_buffer_counter - freed) % CntMod
      /\ msgs' = msgs \o [i \in 1 .. freed |-> NextFrame]
      /\ UNCHANGED <<decodeTASKState, step, reg, irq, file, sbc_buff, end_flag, crossed, stale>>
  BY DEF i2s_isr_ram, reader
<1> HIDE DEF played, freed
<1>4. decodeTASKState \in {"PLAYING", "WAITING_END"}
  BY <1>3 DEF Chain, DecoderTypes
<1>5. /\ msgs' \in Seq(Msg) /\ Places(msgs', "PREPARE") = Places(msgs, "PREPARE")
      /\ Cardinality(Places(msgs', "NEXT_FRAME")) = Cardinality(Places(msgs, "NEXT_FRAME")) + freed
  <2>1. msgs \in Seq(Msg) /\ freed \in Nat
    BY <1>2 DEF DecoderTypes
  <2> QED BY <1>3, <2>1, AskedPlaces
<1>6. InLine'
  BY <1>4, <1>5, NoneAsked, NoneInLine DEF Places
<1>7. DecoderTypes'
  <2>1. pcm_buffer_counter' \in Int
    BY <1>2, <1>3, DecoderAssumption DEF DecoderTypes
  <2> QED BY <1>2, <1>3, <1>5, <2>1 DEF DecoderTypes
<1>8. Kept'
  BY <1>3, <1>5 DEF Kept
<1>9. Chain'
  <2>1. Waiting("NEXT_FRAME")' = Waiting("NEXT_FRAME") + freed /\ Waiting("NEXT_FRAME") \in Nat
    BY <1>5, PlacesFinite DEF Waiting, DecoderTypes
  <2>2. pcm_buffer_list' + Waiting("NEXT_FRAME")' = pcm_buffer_list + Waiting("NEXT_FRAME")
    BY <1>2, <1>3, <2>1 DEF DecoderTypes
  <2>3. pcm_offset' <= pcm_buffer_list' * FrameSamples
    BY <1>2, <1>3
  <2>4. pcm_buffer_list <= Prebuffer + 1
    BY <1>4, <2>1, DecoderAssumption DEF Chain, DecoderTypes
  <2> DEFINE odd == IF step = "idle" THEN 0 ELSE 1
  <2>5. ~crossed => pcm_buffer_counter' = (pcm_buffer_list' - odd) % CntMod
    <3> SUFFICES ASSUME ~crossed PROVE pcm_buffer_counter' = (pcm_buffer_list' - odd) % CntMod
      OBVIOUS
    <3>1. pcm_buffer_counter = (pcm_buffer_list - odd) % CntMod
      BY <1>4 DEF Chain
    <3>2. odd \in {0, 1}
      OBVIOUS
    <3> HIDE DEF odd
    <3>3. pcm_buffer_list - odd \in Nat /\ pcm_buffer_list - odd < CntMod /\ CntMod > 1
      BY <1>3, <2>4, <3>2, DecoderAssumption DEF DecoderTypes
    <3>4. pcm_buffer_counter = pcm_buffer_list - odd
      BY <3>1, <3>3, CounterWraps, DecoderAssumption
    <3>5. pcm_buffer_counter - freed = pcm_buffer_list' - odd
      BY <1>2, <1>3, <3>2, <3>4 DEF DecoderTypes
    <3> QED BY <1>3, <3>5
  <2> QED BY <1>3, <1>4, <2>2, <2>3, <2>5 DEF Chain
<1> QED BY <1>6, <1>7, <1>8, <1>9

\* A frame that is counted keeps the ring allocated or freed.
LEMMA CountKeepsRing ==
    ASSUME CountFrame
    PROVE  (sbc_buff' = <<>>) <=> (sbc_buff = <<>>)
<1>1. CASE decoder_half_processed
  BY <1>1, FilledIsRing DEF decoder_half_processed
<1>2. CASE UNCHANGED reader
  BY <1>2 DEF reader
<1> QED BY <1>1, <1>2 DEF CountFrame

\* How many frames wait and are asked for when one has been counted.
LEMMA CountedFrames ==
    ASSUME SoundInv, CountFrame
    PROVE  /\ decodeTASKState \in {"BUFFERING", "PLAYING"}
           /\ msgs' \in Seq(Msg) /\ Places(msgs', "PREPARE") = {}
           /\ decodeTASKState = "PLAYING" =>
                /\ decodeTASKState' \in {"PLAYING", "WAITING_END"}
                /\ Waiting("NEXT_FRAME")' = Waiting("NEXT_FRAME")
           /\ decodeTASKState = "BUFFERING" =>
                /\ pcm_buffer_counter' = pcm_buffer_list
                /\ IF pcm_buffer_list > Prebuffer
                   THEN decodeTASKState' \in {"PLAYING", "WAITING_END"}
                        /\ pcm_buffer_list = Prebuffer + 1 /\ Waiting("NEXT_FRAME")' = 0
                   ELSE decodeTASKState' \in {"BUFFERING", "WAITING_END"}
                        /\ ~irq' /\ Waiting("NEXT_FRAME")' = 1
<1> USE DEF SoundInv
<1>1. step = "loaded" /\ decodeTASKState \in {"BUFFERING", "PLAYING"}
  BY DEF CountFrame, Chain, DecoderTypes
<1>2. msgs \in Seq(Msg) /\ Places(msgs, "PREPARE") = {}
  BY <1>1, NoneAsked DEF DecoderTypes
<1>3. NextFrame \in Msg /\ NextFrame.event = "NEXT_FRAME" /\ NextFrame.event # "PREPARE"
  BY DEF NextFrame, Msg, Events
<1>4. /\ Append(msgs, NextFrame) \in Seq(Msg) /\ Places(Append(msgs, NextFrame), "PREPARE") = {}
      /\ Cardinality(Places(Append(msgs, NextFrame), "NEXT_FRAME")) = Waiting("NEXT_FRAME") + 1
  BY <1>2, <1>3, SentPlaces DEF Waiting
<1>5. CASE decodeTASKState = "PLAYING"
  <2>1. UNCHANGED msgs /\ decodeTASKState' \in {"PLAYING", "WAITING_END"}
    BY <1>5 DEF CountFrame, StartSound
  <2> QED BY <1>2, <1>5, <2>1 DEF Waiting
<1>6. CASE decodeTASKState = "BUFFERING"
  <2>1. /\ ~irq /\ Waiting("NEXT_FRAME") = 0 /\ reg = pcm_buffer_counter
        /\ pcm_buffer_counter = pcm_buffer_list - 1 /\ pcm_buffer_counter \in 0 .. Prebuffer
    BY <1>1, <1>6 DEF Chain
  <2>2. pcm_buffer_list \in Nat /\ pcm_buffer_list < CntMod /\ CntMod > 1 /\ reg + 1 = pcm_buffer_list
    BY <2>1, DecoderAssumption DEF DecoderTypes
  <2>3. pcm_buffer_counter' = pcm_buffer_list
    <3>1. pcm_buffer_counter' = pcm_buffer_list % CntMod
      BY <2>2 DEF CountFrame
    <3> QED BY <2>2, <3>1, CounterWraps, DecoderAssumption
  <2>4. CASE pcm_buffer_list > Prebuffer
    <3>1. UNCHANGED msgs /\ decodeTASKState' \in {"PLAYING", "WAITING_END"}
      BY <1>6, <2>3, <2>4 DEF CountFrame, StartSound
    <3>2. pcm_buffer_list = Prebuffer + 1
      BY <2>1, <2>2, <2>4, DecoderAssumption
    <3> QED BY <1>2, <1>6, <2>1, <2>3, <2>4, <3>1, <3>2 DEF Waiting
  <2>5. CASE ~(pcm_buffer_list > Prebuffer)
    <3>1. /\ msgs' = Append(msgs, NextFrame) /\ UNCHANGED irq
          /\ decodeTASKState' \in {"BUFFERING", "WAITING_END"}
      BY <1>6, <2>3, <2>5 DEF CountFrame, StartSound
    <3>2. Waiting("NEXT_FRAME")' = 1
      BY <1>4, <2>1, <3>1 DEF Waiting
    <3> QED BY <1>4, <1>6, <2>1, <2>3, <2>5, <3>1, <3>2
  <2> QED BY <2>4, <2>5
<1> QED BY <1>1, <1>5, <1>6

LEMMA CountKeeps ==
    ASSUME SoundInv, CountFrame, App_Mode' = App_Mode
    PROVE  SoundInv'
<1> USE DEF SoundInv
<1>1. /\ step = "loaded" /\ step' = "idle" /\ reg' = 0
      /\ pcm_buffer_counter' = (reg + 1) % CntMod
      /\ crossed' = (crossed \/ reg # pcm_buffer_counter)
      /\ UNCHANGED <<pcm_buffer_list, pcm_offset, file, stale>>
  BY DEF CountFrame, sound
<1>2. InLine'
  BY CountedFrames, NoneInLine DEF Places
<1>3. DecoderTypes'
  <2>1. end_flag' \in BOOLEAN
    BY DEF CountFrame, decoder_half_processed, reader, DecoderTypes
  <2>2. pcm_buffer_counter' \in Int
    BY <1>1, DecoderAssumption DEF DecoderTypes
  <2>3. crossed' \in BOOLEAN
    BY <1>1 DEF DecoderTypes
  <2>4. decodeTASKState' \in {"IDLE", "BUFFERING", "PLAYING", "WAITING_END"} /\ msgs' \in Seq(Msg)
    BY CountedFrames
  <2> QED BY <1>1, <2>1, <2>2, <2>3, <2>4 DEF DecoderTypes
<1>4. Kept'
  BY <1>1, CountedFrames, CountKeepsRing DEF Kept
<1>5. Chain'
  <2>1. pcm_buffer_list \in Nat /\ Waiting("NEXT_FRAME") \in Nat
    BY PlacesFinite DEF Waiting, DecoderTypes
  <2>2. pcm_buffer_list <= Prebuffer + 1
    BY <1>1, <2>1, CountedFrames, DecoderAssumption DEF Chain, DecoderTypes
  <2>3. ~crossed' => pcm_buffer_counter' = pcm_buffer_list % CntMod
    <3> SUFFICES ASSUME ~crossed' PROVE pcm_buffer_counter' = pcm_buffer_list % CntMod
      OBVIOUS
    <3>1. ~crossed /\ reg = pcm_buffer_counter
      BY <1>1, Zenon
    <3>2. pcm_buffer_counter = (pcm_buffer_list - 1) % CntMod
      BY <1>1, <3>1, CountedFrames DEF Chain
    <3>3. pcm_buffer_list < CntMod /\ CntMod > 1
      BY <2>1, <2>2, DecoderAssumption
    <3>4. (((pcm_buffer_list - 1) % CntMod) + 1) % CntMod = pcm_buffer_list
          /\ pcm_buffer_list % CntMod = pcm_buffer_list
      BY <2>1, <3>3, CounterWraps, DecoderAssumption
    <3>5. pcm_buffer_counter' = (pcm_buffer_counter + 1) % CntMod
      BY <1>1, <3>1
    <3> QED BY <3>2, <3>4, <3>5
  <2>4. pcm_offset' <= pcm_buffer_list' * FrameSamples
    BY <1>1 DEF Chain
  <2>5. CASE decodeTASKState = "PLAYING"
    <3>1. pcm_buffer_list' + Waiting("NEXT_FRAME")' = Prebuffer + 1
      BY <1>1, <2>5, CountedFrames DEF Chain
    <3>2. decodeTASKState' \in {"PLAYING", "WAITING_END"}
      BY <2>5, CountedFrames
    <3>3. pcm_buffer_list' - 0 = pcm_buffer_list' /\ Prebuffer + 1 <= Prebuffer + 1
      BY <1>1, <2>1, DecoderAssumption
    <3> QED BY <1>1, <2>3, <2>4, <3>1, <3>2, <3>3 DEF Chain
  <2>6. CASE decodeTASKState = "BUFFERING" /\ pcm_buffer_list > Prebuffer
    <3>1. /\ decodeTASKState' \in {"PLAYING", "WAITING_END"}
          /\ pcm_buffer_list' + Waiting("NEXT_FRAME")' = Prebuffer + 1
      BY <1>1, <2>6, CountedFrames, DecoderAssumption
    <3>2. pcm_buffer_list' - 0 = pcm_buffer_list' /\ Prebuffer + 1 <= Prebuffer + 1
      BY <1>1, <2>1, DecoderAssumption
    <3> QED BY <1>1, <2>3, <2>4, <3>1, <3>2 DEF Chain
  <2>7. CASE decodeTASKState = "BUFFERING" /\ ~(pcm_buffer_list > Prebuffer)
    <3>1. /\ decodeTASKState' \in {"BUFFERING", "WAITING_END"}
          /\ ~irq' /\ Waiting("NEXT_FRAME")' = 1
          /\ pcm_buffer_counter' = pcm_buffer_list'
      BY <1>1, <2>7, CountedFrames
    <3>2. pcm_buffer_counter' \in 0 .. Prebuffer /\ pcm_buffer_list' + 1 <= Prebuffer + 1
          /\ pcm_buffer_list' - 0 = pcm_buffer_list'
      BY <1>1, <2>1, <2>7, <3>1, DecoderAssumption
    <3> QED BY <1>1, <2>3, <2>4, <3>1, <3>2 DEF Chain
  <2> QED BY <2>5, <2>6, <2>7, CountedFrames
<1> QED BY <1>2, <1>3, <1>4, <1>5

LEMMA SoundBegins == SpeakerInit => SoundInv /\ DemoIdle
<1> SUFFICES ASSUME SpeakerInit PROVE SoundInv /\ DemoIdle
  OBVIOUS
<1> USE DEF SpeakerInit, Init
<1>1. msgs = <<>> /\ msgs \in Seq(Msg) /\ Places(msgs, "PREPARE") = {}
  BY DEF Places
<1>2. DecoderTypes
  <2>1. 0 \in 0 .. FrameSamples - 1
    BY DecoderAssumption
  <2>2. pcm_offset \in 0 .. FrameSamples - 1 /\ pcm_buffer_list \in Nat /\ reg \in Int
        /\ pcm_buffer_counter \in Int
    BY <2>1
  <2> QED BY <1>1, <2>2 DEF DecoderTypes
<1>3. InLine /\ Kept
  BY <1>1 DEF InLine, Kept
<1>4. Chain
  BY DecoderAssumption DEF Chain
<1> QED BY <1>2, <1>3, <1>4 DEF SoundInv, DemoIdle

LEMMA SoundSteps == SoundInv /\ DemoIdle /\ [SpeakerNext]_vars => SoundInv' /\ DemoIdle'
<1> SUFFICES ASSUME SoundInv, DemoIdle, [SpeakerNext]_vars PROVE SoundInv' /\ DemoIdle'
  OBVIOUS
<1>1. CASE Player(Next)
  <2>1. Next /\ App_Mode = "PLAYER" /\ App_Mode' = App_Mode
    BY <1>1 DEF Player
  <2>2. SoundInv'
    BY <2>1, StartKeeps, StopAskedKeeps, PrepareKeeps, StopKeeps, DropKeeps, WaitEndKeeps, PushKeeps,
       LoadKeeps, CountKeeps, InterruptKeeps DEF Next, Handle
  <2> QED BY <2>1, <2>2 DEF DemoIdle
<1>2. CASE CodecTest
  <2>1. UNCHANGED <<decodeTASKState, msgs, step, reg, env, sound, file, reader, crossed, stale, App_Mode>>
        /\ App_Mode = "CODEC_TEST"
    BY <1>2 DEF CodecTest, Test_Codec_demo, Test_codec_demo_stop, Switch, Rx, Tx, dvars
  <2>2. decodeTASKState = "IDLE"
    BY <2>1 DEF DemoIdle
  <2>3. DecoderTypes' /\ InLine' /\ Kept'
    BY <2>1 DEF SoundInv, DecoderTypes, InLine, Kept, env, sound, reader
  <2>4. Chain'
    BY <2>1, <2>2 DEF SoundInv, Chain, env, sound
  <2> QED BY <2>1, <2>2, <2>3, <2>4 DEF SoundInv, DemoIdle
<1>3. CASE UNCHANGED vars
  BY <1>3 DEF vars, dvars, DemoIdle, SoundInv, DecoderTypes, InLine, Kept, Chain, Waiting, env, sound, reader
<1> QED BY <1>1, <1>2, <1>3 DEF SpeakerNext

\* How messages, frames and the counter agree between any two steps.
THEOREM SoundInductive == SpeakerSpec => [](SoundInv /\ DemoIdle)
BY SoundBegins, SoundSteps, PTL DEF SpeakerSpec

\* The chain of frames, for any lengths and any number of sounds and stops (Credit, decoder.c:429-490).
THEOREM CreditAlways == SpeakerSpec => []Credit
<1>1. SoundInv => Credit
  <2> SUFFICES ASSUME SoundInv PROVE Credit
    OBVIOUS
  <2>1. pcm_buffer_list \in Nat /\ Waiting("NEXT_FRAME") \in Nat
    BY PlacesFinite DEF SoundInv, Waiting, DecoderTypes
  <2>2. pcm_buffer_list <= Prebuffer + 1
    <3>1. \/ pcm_buffer_list = 0
          \/ pcm_buffer_counter \in 0 .. Prebuffer
             /\ pcm_buffer_counter = pcm_buffer_list - (IF step = "idle" THEN 0 ELSE 1)
          \/ pcm_buffer_list + Waiting("NEXT_FRAME") <= Prebuffer + 1
      BY <2>1, DecoderAssumption DEF SoundInv, Chain, DecoderTypes
    <3>2. Prebuffer \in Nat
      BY DecoderAssumption
    <3> QED BY <2>1, <3>1, <3>2
  <2>3. pcm_buffer_list % CntMod = pcm_buffer_list /\ pcm_buffer_list - 0 = pcm_buffer_list
    <3>1. CntMod \in Nat /\ CntMod > Prebuffer + 1 /\ Prebuffer \in Nat
      BY DecoderAssumption
    <3>2. pcm_buffer_list < CntMod /\ CntMod > 1
      BY <2>1, <2>2, <3>1
    <3> QED BY <2>1, <3>1, <3>2, CounterWraps
  <2> QED BY <2>2, <2>3 DEF SoundInv, Chain, Credit
<1> QED BY <1>1, SoundInductive, PTL

(***************************************************************************)
(* The bytes in the ring.                                                  *)
(***************************************************************************)

LEMMA FileOK ==
    ASSUME file \in Files
    PROVE  /\ file.len \in Nat /\ file.len < Modulus /\ file.whole \in BOOLEAN
           /\ FrameLen <= Usable(file)
BY DecoderAssumption

\* What is read of a file is what is copied, or 0 at its end.
LEMMA ReadsWhatIsCopied ==
    ASSUME file \in Files, NEW from \in 0 .. file.len
    PROVE  /\ Copied(HalfBuf, from) \in 0 .. HalfBuf /\ from + Copied(HalfBuf, from) <= file.len
           /\ Returned(HalfBuf, from) \in {0, Copied(HalfBuf, from)}
           /\ Copied(HalfBuf, from) # HalfBuf => from + Copied(HalfBuf, from) = file.len
BY Halves, FileOK DEF Copied, Returned, Least

\* The first half of the ring is filled with the begin of the file.
LEMMA FirstHalf ==
    ASSUME file \in Files
    PROVE  /\ Returned(HalfBuf, 0) = Copied(HalfBuf, 0)
           /\ Returned(HalfBuf, 0) \in FrameLen .. HalfBuf
           /\ Returned(HalfBuf, 0) \in {HalfBuf, file.len}
<1>1. CASE file.len >= HalfBuf
  BY <1>1, Halves, FileOK, DecoderAssumption DEF Returned, Copied, Least
<1>2. CASE file.len < HalfBuf
  <2>1. file.len % HalfBuf = file.len
    BY <1>2, Halves, FileOK
  <2>2. ~file.whole
    BY <2>1, FileOK, DecoderAssumption DEF Usable
  <2>3. file.len >= FrameLen
    BY <2>2, FileOK DEF Usable
  <2> QED BY <1>2, <2>2, <2>3, Halves, FileOK, DecoderAssumption DEF Returned, Copied, Least
<1> QED BY <1>1, <1>2, FileOK, Halves

LEMMA StartData ==
    ASSUME SoundInv, test_speaker_from_flash
    PROVE  DataInv'
<1> SUFFICES ASSUME ~stale' PROVE Requested' /\ decodeTASKState' = "IDLE"
  BY DEF DataInv
<1> DEFINE n == Returned(HalfBuf, 0)
<1>1. decodeTASKState' = "IDLE" /\ Places(msgs, "PREPARE") = {} /\ stale' = Has("STOP")
  BY StartFindsIdle DEF test_speaker_from_flash
<1>2. /\ msgs' = Append(msgs, Prepare(n)) /\ store_data_len' = n /\ pos' = Copied(HalfBuf, 0)
      /\ end_flag' = FALSE /\ file' = file
      /\ sbc_buff' = Filled([k \in Ring |-> -1], 0, HalfBuf, 0)
  BY DEF test_speaker_from_flash
<1>3. file \in Files /\ msgs \in Seq(Msg)
  BY DEF SoundInv, DecoderTypes
<1>4. n = Copied(HalfBuf, 0) /\ n \in FrameLen .. HalfBuf /\ n \in {HalfBuf, file.len} /\ n \in Int
  BY <1>3, FirstHalf, Halves, DecoderAssumption
<1>5. Places(msgs', "PREPARE") = {Len(msgs) + 1} /\ msgs'[Len(msgs) + 1].len = n
  <2>1. Prepare(n) \in Msg /\ Prepare(n).len = n
    BY <1>4 DEF Prepare, Msg, Events
  <2>2. msgs'[Len(msgs) + 1] = Prepare(n)
    BY <1>2, <1>3, <2>1, AppendProperties
  <2>3. Places(msgs', "PREPARE") = {Len(msgs) + 1}
    <3> HIDE DEF n
    <3> QED BY <1>1, <1>2, <1>3, <1>4, PrepareInLine
  <2> QED BY <2>1, <2>2, <2>3
<1>6. ReaderOK'
  <2>1. HalfBuf % HalfBuf = 0
    BY Halves
  <2>2. pos' = n /\ store_data_len' = n /\ n \in 0 .. file.len
    <3>1. 0 + n <= file.len
      BY <1>3, <1>4, ReadsWhatIsCopied, FileOK
    <3> QED BY <1>2, <1>3, <1>4, <3>1, FileOK, DecoderAssumption
  <2> HIDE DEF n
  <2> QED BY <1>2, <1>4, <2>1, <2>2, Halves, FileOK, <1>3 DEF ReaderOK
<1>7. Holds(0)'
  <2>1. sbc_buff' = [k \in Ring |-> IF k - 0 \in 0 .. n - 1 THEN 0 + (k - 0) ELSE [j \in Ring |-> -1][k]]
    BY <1>2, <1>4 DEF Filled
  <2> HIDE DEF n
  <2>2. sbc_buff' \in [Ring -> Int]
    BY <1>4, <2>1 DEF Ring
  <2>3. ASSUME NEW s \in 0 .. n - 1 PROVE sbc_buff'[s % BufLen] = s
    <3>1. s % BufLen = s /\ s \in Ring
      BY <1>4, Halves, DecoderAssumption DEF Ring
    <3> QED BY <1>4, <2>1, <3>1
  <2> QED BY <1>2, <2>2, <2>3 DEF Holds
<1>8. store_data_len' \in FrameLen .. BufLen
  BY <1>2, <1>4, Halves, DecoderAssumption
<1> QED BY <1>1, <1>2, <1>5, <1>6, <1>7, <1>8 DEF Requested

\* Steps that leave the reader, the ring and the decoder's position alone.
StillData == UNCHANGED <<current_pos, tot_data_len, data_processed_len, reader, file, stale>>

LEMMA PlayingStays ==
    ASSUME Playing, StillData, decodeTASKState' = decodeTASKState
    PROVE  Playing'
BY DEF Playing, StillData, ReaderOK, Holds, reader

LEMMA StopAskedData ==
    ASSUME SoundInv, DataInv, test_end_speaker
    PROVE  DataInv'
<1>1. Stop \in Msg /\ Stop.event # "PREPARE" /\ msgs \in Seq(Msg)
  BY DEF Stop, Msg, Events, SoundInv, DecoderTypes
<1>2. msgs' = Append(msgs, Stop) /\ decodeTASKState' = decodeTASKState /\ StillData
  BY DEF test_end_speaker, StillData, env
<1>3. Places(msgs', "PREPARE") = Places(msgs, "PREPARE")
  BY <1>1, <1>2, SentPlaces
<1>4. \A i \in Places(msgs, "PREPARE") : msgs'[i] = msgs[i]
  BY <1>1, <1>2, LenProperties, AppendProperties DEF Places
<1>5. ~stale' => Requested'
  BY <1>2, <1>3, <1>4 DEF DataInv, Requested, StillData, ReaderOK, Holds, reader
<1>6. ~stale' /\ decodeTASKState' # "IDLE" => Playing'
  BY <1>2, PlayingStays DEF DataInv, StillData
<1> QED BY <1>5, <1>6 DEF DataInv

LEMMA PrepareData ==
    ASSUME SoundInv, DataInv, prepare_handler, Places(msgs', "PREPARE") = {}
    PROVE  DataInv'
<1> SUFFICES ASSUME ~stale' PROVE Playing'
  BY DEF DataInv, Requested
<1>1. msgs \in Seq(Msg) /\ msgs # <<>> /\ Head(msgs).event = "PREPARE"
  BY DEF prepare_handler, Takes, SoundInv, DecoderTypes
<1>2. 1 \in Places(msgs, "PREPARE") /\ Head(msgs) = msgs[1]
  BY <1>1, TakenPlaces DEF Places
<1>3. decodeTASKState = "IDLE"
  BY <1>2 DEF SoundInv, InLine
<1>4. /\ current_pos' = 0 /\ data_processed_len' = 0 /\ tot_data_len' = Head(msgs).len
      /\ decodeTASKState' = "BUFFERING" /\ UNCHANGED <<file, reader, stale>>
  BY <1>3 DEF prepare_handler
<1>5. /\ ReaderOK /\ Holds(0) /\ Head(msgs).len = store_data_len
      /\ store_data_len \in FrameLen .. BufLen
  BY <1>2, <1>4 DEF DataInv, Requested
<1>6. 0 % BufLen = 0 /\ 0 % FrameLen = 0 /\ FrameLen \in Nat /\ BufLen \in Nat
  <2>1. \A d \in Nat \ {0} : 0 % d = 0
    OBVIOUS
  <2> QED BY <2>1, Halves, DecoderAssumption
<1>7. ReaderOK' /\ Holds(0)'
  BY <1>4, <1>5 DEF ReaderOK, Holds, reader
<1>8. Holds(data_processed_len)'
  BY <1>4, <1>7 DEF Holds
<1> QED BY <1>4, <1>5, <1>6, <1>7, <1>8 DEF Playing, reader

\* One playback is asked for at a time.
LEMMA PrepareEnds ==
    ASSUME SoundInv, SoundInv', prepare_handler
    PROVE  Places(msgs', "PREPARE") = {}
<1>1. decodeTASKState' # "IDLE"
  BY DEF prepare_handler
<1>2. Places(msgs, "PREPARE")' = {}
  BY <1>1 DEF SoundInv, InLine
<1> QED BY <1>2 DEF Places

LEMMA StopData ==
    ASSUME SoundInv, SoundInv', DataInv, stop_handler
    PROVE  DataInv'
BY DEF SoundInv, Kept, stop_handler, DataInv, Requested

LEMMA DropData ==
    ASSUME SoundInv, DataInv, DropFrame
    PROVE  DataInv'
<1>1. /\ msgs \in Seq(Msg) /\ msgs # <<>> /\ msgs' = Tail(msgs) /\ StillData
      /\ decodeTASKState' = "IDLE"
  BY DEF DropFrame, Takes, SoundInv, DecoderTypes, StillData, env
<1>2. \A i \in Places(msgs', "PREPARE") : i + 1 \in Places(msgs, "PREPARE") /\ msgs'[i] = msgs[i + 1]
  BY <1>1, TakenPlaces DEF Places
<1>3. ~stale' => Requested'
  BY <1>1, <1>2 DEF DataInv, Requested, StillData, ReaderOK, Holds, reader
<1> QED BY <1>1, <1>3 DEF DataInv

LEMMA QuietData ==
    ASSUME SoundInv, SoundInv', DataInv, WaitEnd \/ PushFrame \/ LoadCounter \/ i2s_isr_ram
    PROVE  DataInv'
<1>1. StillData /\ decodeTASKState' = decodeTASKState
  BY DEF WaitEnd, PushFrame, LoadCounter, i2s_isr_ram, StillData, env
<1>2. decodeTASKState # "IDLE"
  BY DEF WaitEnd, PushFrame, LoadCounter, i2s_isr_ram, SoundInv, Chain, DecoderTypes
<1>3. Places(msgs, "PREPARE")' = {}
  BY <1>1, <1>2 DEF SoundInv, InLine
<1>4. ~stale' => Playing'
  BY <1>1, <1>2, PlayingStays DEF DataInv, StillData
<1> QED BY <1>3, <1>4 DEF DataInv, Requested

(***************************************************************************)
(* A frame that is decoded, and the refilling that it may call for.        *)
(***************************************************************************)

\* What is added to the ring does not touch what is still to be decoded.
LEMMA RefillHolds ==
    ASSUME SoundInv, ReaderOK, Holds(data_processed_len), ~end_flag, sbc_buff # <<>>,
           decoder_half_processed, file' = file,
           NEW from \in Nat, data_processed_len \in Nat, data_processed_len <= from,
           from <= store_data_len, store_data_len - from < Low
    PROVE  /\ ReaderOK'
           /\ \A s \in from .. store_data_len' - 1 : sbc_buff'[s % BufLen] = s
           /\ sbc_buff' \in [Ring -> Int]
           /\ tot_data_len = store_data_len => tot_data_len' = store_data_len'
           /\ store_data_len' - from <= BufLen /\ store_data_len <= store_data_len'
<1> DEFINE at == store_data_len % BufLen
           n == Copied(HalfBuf, pos)
           got0 == Returned(HalfBuf, pos)
<1>1. file \in Files /\ pos \in 0 .. file.len /\ pos = store_data_len
      /\ (pos % HalfBuf = 0 \/ pos = file.len)
  BY DEF SoundInv, DecoderTypes, ReaderOK
<1>2. /\ n \in 0 .. HalfBuf /\ pos + n <= file.len /\ got0 \in {0, n}
      /\ n # HalfBuf => pos + n = file.len
  BY <1>1, ReadsWhatIsCopied
<1>3. /\ sbc_buff' = Filled(sbc_buff, at, HalfBuf, pos)
      /\ pos' = pos + n /\ store_data_len' = store_data_len + got0
      /\ tot_data_len' = IF got0 > 0 THEN store_data_len' ELSE tot_data_len
      /\ end_flag' = (got0 = 0)
  BY DEF decoder_half_processed
<1>4. sbc_buff' = [k \in Ring |-> IF k - at \in 0 .. n - 1 THEN pos + (k - at) ELSE sbc_buff[k]]
  BY <1>3 DEF Filled
<1> HIDE DEF n, got0
<1>5. BufLen \in Nat \ {0} /\ HalfBuf \in Nat \ {0} /\ BufLen = HalfBuf + HalfBuf /\ Low \in Nat
      /\ Low <= HalfBuf
  BY Halves, DecoderAssumption
<1>6. at \in 0 .. BufLen - 1
  BY <1>1, <1>5, FileOK
<1>7. at + n <= BufLen
  <2>1. CASE pos = file.len
    BY <1>1, <1>2, <1>5, <1>6, <2>1, FileOK
  <2>2. CASE pos % HalfBuf = 0
    <3>1. at \in {0, HalfBuf}
      BY <1>1, <2>2, HalfPlaces, FileOK
    <3> QED BY <1>2, <1>5, <3>1
  <2> QED BY <1>1, <2>1, <2>2
<1>8. ReaderOK'
  <2>1. pos' \in 0 .. file.len /\ store_data_len' \in 0 .. pos'
    BY <1>1, <1>2, <1>3, <1>5, FileOK
  <2>2. ASSUME ~end_flag' PROVE pos' = store_data_len' /\ (pos' % HalfBuf = 0 \/ pos' = file.len)
    <3>1. got0 = n /\ n # 0
      BY <1>2, <1>3, <2>2
    <3>2. pos # file.len
      BY <1>1, <1>2, <3>1, FileOK
    <3>3. pos % HalfBuf = 0
      BY <1>1, <3>2
    <3>4. CASE n = HalfBuf
      <4>1. (pos + HalfBuf) % HalfBuf = 0
        <5>1. pos \in Int /\ HalfBuf \in Nat /\ (pos % HalfBuf) + HalfBuf = HalfBuf
          BY <1>1, <1>5, <3>3, FileOK
        <5> QED BY <1>5, <5>1, RemainderWraps
      <4> QED BY <1>1, <1>3, <3>1, <3>4, <4>1
    <3>5. CASE n # HalfBuf
      BY <1>1, <1>2, <1>3, <3>1, <3>5
    <3> QED BY <3>4, <3>5
  <2> QED BY <2>1, <2>2 DEF ReaderOK
<1>9. sbc_buff' \in [Ring -> Int]
  <2>1. sbc_buff \in [Ring -> Int] /\ at \in Int /\ pos \in Int
    BY <1>1, <1>6, FileOK DEF Holds
  <2> HIDE DEF at
  <2> QED BY <1>4, <2>1 DEF Ring
<1>10. ASSUME NEW s \in from .. store_data_len' - 1
       PROVE  sbc_buff'[s % BufLen] = s
  <2>1. s \in Nat /\ s % BufLen \in Ring
    BY <1>1, <1>2, <1>3, <1>5, FileOK DEF Ring
  <2>2. CASE s < store_data_len
    <3>1. sbc_buff[s % BufLen] = s
      BY <1>1, <2>1, <2>2, FileOK DEF Holds
    <3>2. ASSUME (s % BufLen) - at \in 0 .. n - 1 PROVE FALSE
      <4>1. PICK i \in 0 .. n - 1 : i = (s % BufLen) - at
        BY <3>2
      <4>2. at + i < BufLen /\ i \in Nat
        BY <1>2, <1>5, <1>6, <1>7, <4>1
      <4>3. (store_data_len + i) % BufLen = at + i
        BY <1>1, <1>5, <4>2, RemainderPlus, FileOK
      <4>4. s < store_data_len + i /\ store_data_len + i < s + BufLen
        BY <1>1, <1>2, <1>5, <2>1, <2>2, <4>1, FileOK
      <4>5. s % BufLen # (store_data_len + i) % BufLen
        <5>1. s \in Int /\ store_data_len + i \in Int
          BY <1>1, <2>1, <4>2, FileOK
        <5> QED BY <1>5, <4>4, <5>1, RemainderDiffers
      <4>6. s % BufLen = at + i
        <5>1. s % BufLen \in Int
          BY <2>1 DEF Ring
        <5> QED BY <1>6, <4>1, <5>1
      <4> QED BY <4>3, <4>5, <4>6
    <3> QED BY <1>4, <2>1, <3>1, <3>2
  <2>3. CASE s >= store_data_len
    <3>1. got0 = n
      BY <1>1, <1>2, <1>3, <2>1, <2>3, FileOK
    <3>2. PICK i \in 0 .. n - 1 : s = store_data_len + i
      <4>1. s - store_data_len \in 0 .. n - 1
        BY <1>1, <1>2, <1>3, <2>1, <2>3, <3>1, <1>5, FileOK
      <4> QED BY <4>1, <1>1, <2>1, FileOK
    <3>3. at + i < BufLen /\ i \in Nat
      BY <1>2, <1>5, <1>6, <1>7, <3>2
    <3>4. s % BufLen = at + i
      BY <1>1, <1>5, <3>2, <3>3, RemainderPlus, FileOK
    <3>5. (at + i) - at = i
      BY <1>6, <3>3
    <3> QED BY <1>1, <1>4, <2>1, <3>2, <3>4, <3>5
  <2> QED BY <1>1, <2>1, <2>2, <2>3, FileOK
<1>11. store_data_len' - from <= BufLen /\ store_data_len <= store_data_len'
  BY <1>1, <1>2, <1>3, <1>5, FileOK
<1>12. tot_data_len = store_data_len => tot_data_len' = store_data_len'
  BY <1>1, <1>2, <1>3, FileOK
<1> QED BY <1>8, <1>9, <1>10, <1>11, <1>12

LEMMA Difference ==
    ASSUME NEW limit \in Nat, NEW total \in 0 .. limit, NEW part \in 0 .. total
    PROVE  total - part \in 0 .. limit
OBVIOUS

LEMMA CountData ==
    ASSUME SoundInv, SoundInv', DataInv, CountFrame
    PROVE  DataInv'
<1> SUFFICES ASSUME ~stale' PROVE Playing'
  <2>1. Places(msgs, "PREPARE")' = {}
    BY CountedFrames DEF Places
  <2> QED BY <2>1 DEF DataInv, Requested
<1>1. ~stale /\ file' = file
  BY DEF CountFrame
<1>2. decodeTASKState \in {"BUFFERING", "PLAYING"}
  BY CountedFrames
<1>3. sbc_buff # <<>>
  BY <1>1, <1>2 DEF SoundInv, Kept
<1>4. /\ ReaderOK /\ Holds(data_processed_len) /\ tot_data_len = store_data_len
      /\ data_processed_len \in 0 .. tot_data_len
      /\ tot_data_len - data_processed_len <= BufLen
      /\ current_pos = data_processed_len % BufLen /\ current_pos % FrameLen = 0
      /\ data_processed_len + FrameLen <= tot_data_len
  BY <1>1, <1>2 DEF DataInv, Playing
<1>5. file \in Files /\ store_data_len \in 0 .. file.len
  <2>1. file \in Files
    BY DEF SoundInv, DecoderTypes
  <2> QED BY <1>4, <2>1, FileOK DEF ReaderOK
<1>6. /\ BufLen \in Nat \ {0} /\ FrameLen \in Nat \ {0} /\ Low \in Nat /\ Modulus \in Nat
      /\ file.len \in Nat /\ file.len < Modulus
  BY <1>5, Halves, FileOK, DecoderAssumption
<1>7. \A k \in 0 .. file.len : k % Modulus = k
  BY <1>6
<1>8. data_processed_len' = data_processed_len + FrameLen
  <2>1. data_processed_len + FrameLen \in 0 .. file.len
    BY <1>4, <1>5, <1>6
  <2> QED BY <1>7, <2>1 DEF CountFrame
<1>9. data_processed_len' \in 0 .. store_data_len
  BY <1>4, <1>5, <1>6, <1>8
<1>10. /\ ReaderOK' /\ Holds(data_processed_len)' /\ tot_data_len' = store_data_len'
       /\ store_data_len' - data_processed_len' <= BufLen
       /\ data_processed_len' \in 0 .. store_data_len' /\ store_data_len' \in 0 .. file.len
  <2>1. CASE Unread(tot_data_len, data_processed_len') < Low /\ ~end_flag
    <3>1. Unread(tot_data_len, data_processed_len') = store_data_len - data_processed_len'
      <4>1. store_data_len - data_processed_len' \in 0 .. file.len
        BY <1>5, <1>6, <1>9, Difference
      <4> QED BY <1>4, <1>7, <4>1 DEF Unread
    <3>2. decoder_half_processed
      BY <2>1 DEF CountFrame
    <3>3. PICK from \in Nat : from = data_processed_len'
      BY <1>9
    <3>4. data_processed_len \in Nat /\ data_processed_len <= from /\ from <= store_data_len
          /\ store_data_len - from < Low
      BY <1>4, <1>6, <1>8, <1>9, <2>1, <3>1, <3>3
    <3>5. /\ ReaderOK'
          /\ \A s \in from .. store_data_len' - 1 : sbc_buff'[s % BufLen] = s
          /\ sbc_buff' \in [Ring -> Int]
          /\ tot_data_len' = store_data_len'
          /\ store_data_len' - from <= BufLen /\ store_data_len <= store_data_len'
      BY <1>1, <1>3, <1>4, <2>1, <3>2, <3>4, RefillHolds
    <3>6. Holds(data_processed_len)'
      BY <3>3, <3>5 DEF Holds
    <3>7. store_data_len' \in 0 .. file.len
      BY <1>1, <1>6, <3>5 DEF ReaderOK
    <3>8. data_processed_len' \in 0 .. store_data_len'
      <4>1. store_data_len \in Int /\ store_data_len' \in Int
        BY <1>5, <1>6, <3>7
      <4> QED BY <1>9, <3>5, <4>1
    <3> QED BY <3>3, <3>5, <3>6, <3>7, <3>8
  <2>2. CASE UNCHANGED <<tot_data_len, reader>>
    <3>1. ReaderOK' /\ store_data_len' = store_data_len /\ tot_data_len' = store_data_len'
      BY <1>1, <1>4, <2>2 DEF ReaderOK, reader
    <3>2. Holds(data_processed_len)'
      <4>1. \A s \in data_processed_len' .. store_data_len - 1 : s \in data_processed_len .. store_data_len - 1
        BY <1>4, <1>5, <1>6, <1>8
      <4> QED BY <1>4, <2>2, <4>1 DEF Holds, reader
    <3> QED BY <1>4, <1>5, <1>6, <1>8, <1>9, <3>1, <3>2
  <2> QED BY <2>1, <2>2 DEF CountFrame
<1>11. current_pos' = data_processed_len' % BufLen /\ current_pos' % FrameLen = 0
  <2>1. current_pos \in 0 .. BufLen - 1
    BY <1>4, <1>6
  <2>2. /\ current_pos + FrameLen <= BufLen /\ (current_pos + FrameLen) % FrameLen = 0
        /\ 0 % FrameLen = 0
    BY <1>4, <2>1, FrameFits
  <2>3. current_pos' = Wrap(current_pos + FrameLen)
    BY DEF CountFrame
  <2>6. data_processed_len \in Int /\ FrameLen \in Nat
    BY <1>4, <1>5, <1>6
  <2>4. CASE current_pos + FrameLen < BufLen
    <3>1. (data_processed_len + FrameLen) % BufLen = current_pos + FrameLen
      BY <1>4, <1>6, <2>4, <2>6, RemainderPlus
    <3>2. current_pos' = current_pos + FrameLen
      BY <1>6, <2>1, <2>3, <2>4 DEF Wrap
    <3> QED BY <1>8, <2>2, <3>1, <3>2
  <2>5. CASE current_pos + FrameLen = BufLen
    <3>1. (data_processed_len + FrameLen) % BufLen = 0
      BY <1>4, <1>6, <2>5, <2>6, RemainderWraps
    <3>2. current_pos' = 0
      BY <1>6, <2>3, <2>5 DEF Wrap
    <3> QED BY <1>8, <2>2, <3>1, <3>2
  <2> QED BY <1>6, <2>1, <2>2, <2>4, <2>5
<1>12. decodeTASKState' # "WAITING_END" => data_processed_len' + FrameLen <= tot_data_len'
  <2> SUFFICES ASSUME decodeTASKState' # "WAITING_END"
               PROVE  data_processed_len' + FrameLen <= tot_data_len'
    OBVIOUS
  <2>1. ~(Unread(tot_data_len', data_processed_len') < FrameLen)
    BY DEF CountFrame
  <2>2. Unread(tot_data_len', data_processed_len') = tot_data_len' - data_processed_len'
    <3>1. tot_data_len' - data_processed_len' \in 0 .. file.len
      BY <1>6, <1>10, Difference
    <3> QED BY <1>7, <3>1 DEF Unread
  <2>3. tot_data_len' \in Int /\ data_processed_len' \in Int
    BY <1>6, <1>10
  <2>4. ~(tot_data_len' - data_processed_len' < FrameLen)
    BY <2>1, <2>2
  <2>5. \A t, p \in Int : ~(t - p < FrameLen) => p + FrameLen <= t
    BY <1>6
  <2> QED BY <2>3, <2>4, <2>5
<1> QED BY <1>10, <1>11, <1>12 DEF Playing

LEMMA DataSteps == SoundInv /\ DemoIdle /\ DataInv /\ [SpeakerNext]_vars => DataInv'
<1> SUFFICES ASSUME SoundInv, DemoIdle, DataInv, [SpeakerNext]_vars PROVE DataInv'
  OBVIOUS
<1>1. SoundInv'
  BY SoundSteps
<1>2. CASE Player(Next)
  <2>1. Next /\ App_Mode = "PLAYER" /\ App_Mode' = App_Mode
    BY <1>2 DEF Player
  <2>2. CASE prepare_handler
    <3>1. Places(msgs', "PREPARE") = {}
      BY <2>1, <2>2, <1>1, PrepareEnds
    <3> QED BY <2>2, <3>1, PrepareData
  <2> QED BY <1>1, <2>1, <2>2, StartData, StopAskedData, StopData, DropData, QuietData, CountData
          DEF Next, Handle
<1>3. CASE CodecTest
  <2>1. UNCHANGED <<decodeTASKState, msgs, env, file, reader, stale>>
    BY <1>3 DEF CodecTest, Test_Codec_demo, Test_codec_demo_stop, Switch, Rx, Tx, dvars
  <2> QED BY <2>1 DEF DataInv, Requested, Playing, ReaderOK, Holds, env, reader
<1>4. CASE UNCHANGED vars
  BY <1>4 DEF vars, dvars, DataInv, Requested, Playing, ReaderOK, Holds, env, reader
<1> QED BY <1>2, <1>3, <1>4 DEF SpeakerNext

\* What the decoder reads is the file's, whatever its length and that of ring and frames (RightData, decoder.c:376-395, 496-512).
THEOREM RightDataAlways == SpeakerSpec => []RightData
<1>1. SpeakerInit => SoundInv /\ DemoIdle /\ DataInv
  BY SoundBegins DEF SpeakerInit, Init, DataInv, Requested, Places
<1>2. SoundInv /\ DataInv => RightData
  <2> SUFFICES ASSUME SoundInv, Playing, decodeTASKState # "IDLE", ~stale,
                      NEW j \in 0 .. Unread(tot_data_len, data_processed_len) - 1
               PROVE  sbc_buff # <<>> /\ sbc_buff[(current_pos + j) % BufLen] = data_processed_len + j
    BY DEF DataInv, RightData, SoundInv, Kept
  <2>1. sbc_buff # <<>>
    BY DEF SoundInv, Kept
  <2>2. file \in Files /\ BufLen \in Nat \ {0} /\ Modulus \in Nat
    BY Halves, DecoderAssumption DEF SoundInv, DecoderTypes
  <2>3. /\ data_processed_len \in 0 .. tot_data_len /\ tot_data_len = store_data_len
        /\ store_data_len \in 0 .. file.len /\ Holds(data_processed_len)
        /\ current_pos = data_processed_len % BufLen
    BY <2>2, FileOK DEF Playing, ReaderOK
  <2>4. Unread(tot_data_len, data_processed_len) = tot_data_len - data_processed_len
    <3>1. \A k \in 0 .. file.len : k % Modulus = k
      BY <2>2, FileOK
    <3>2. tot_data_len - data_processed_len \in 0 .. file.len
      BY <2>2, <2>3, FileOK
    <3> QED BY <3>1, <3>2 DEF Unread
  <2>5. data_processed_len + j \in data_processed_len .. store_data_len - 1 /\ j \in Nat
    BY <2>2, <2>3, <2>4, FileOK
  <2>6. (current_pos + j) % BufLen = (data_processed_len + j) % BufLen
    BY <2>2, <2>3, <2>5, RemainderTwice
  <2> QED BY <2>1, <2>3, <2>5, <2>6 DEF Holds
<1>3. SoundInv /\ DemoIdle /\ DataInv /\ [SpeakerNext]_vars => (SoundInv /\ DemoIdle /\ DataInv)'
  BY SoundSteps, DataSteps
<1> QED BY <1>1, <1>2, <1>3, PTL DEF SpeakerSpec

(***************************************************************************)
(* The block ring buffer is a bounded queue, whatever its size.            *)
(***************************************************************************)

Queue == [i \in 1 .. newblockcount |-> buf[Slot(readptr, i)]]

\* The blocks that count lie inside the buffer.
LEMMA SlotRange ==
  ASSUME NEW ptr \in Slots, NEW n \in 0 .. BlockNum
  PROVE  \A i \in 1 .. n : Slot(ptr, i) \in Slots
  BY RingAssumption DEF Slots, Slot

\* At the start no block counts.
LEMMA Started == Setup => RingOK
  BY RingAssumption DEF Setup, RingOK, Slots, Slot

\* A block goes into the slot behind the newest.
LEMMA WriteKeeps ==
  ASSUME NEW d \in Blocks, RingOK, Write(d)
  PROVE  RingOK'
<1>1. newblockcount' = newblockcount + 1 /\ newblockcount' \in 0 .. BlockNum
  BY RingAssumption DEF RingOK, Write
<1>2. writeptr' \in Slots
  BY RingAssumption DEF RingOK, Write, Slots, Succ
<1>3. writeptr' = Slot(readptr', newblockcount' + 1)
  BY <1>1, RingAssumption DEF RingOK, Write, Slots, Succ, Slot
<1> QED
  BY <1>1, <1>2, <1>3, RingAssumption DEF RingOK, Write, Slots

\* The oldest block is given up and the next one is the oldest.
LEMMA ReadKeeps ==
  ASSUME RingOK, Read
  PROVE  RingOK'
<1>1. newblockcount' = newblockcount - 1 /\ newblockcount' \in 0 .. BlockNum
  BY RingAssumption DEF RingOK, Read
<1>2. readptr' \in Slots /\ got' \in Blocks
  BY RingAssumption DEF RingOK, Read, Slots, Succ
<1>3. writeptr' = Slot(readptr', newblockcount' + 1)
  BY <1>1, RingAssumption DEF RingOK, Read, Slots, Succ, Slot
<1> QED
  BY <1>1, <1>2, <1>3 DEF RingOK, Read

\* The invariant that relates the count of blocks to the two positions.
THEOREM RingInvariant == RingSpec => []RingOK
<1>1. Setup => RingOK
  BY Started
<1>2. RingOK /\ [RingNext]_ring => RingOK'
  <2> SUFFICES ASSUME RingOK, [RingNext]_ring
               PROVE  RingOK'
    OBVIOUS
  <2>1. CASE Flush
    BY <2>1, RingAssumption DEF Flush, RingOK, Slots, Slot
  <2>2. ASSUME NEW d \in Blocks, Write(d)
        PROVE  RingOK'
    BY <2>2, WriteKeeps
  <2>3. CASE Read
    BY <2>3, ReadKeeps
  <2>4. CASE UNCHANGED ring
    BY <2>4 DEF ring, RingOK, Slot
  <2> QED
    BY <2>1, <2>2, <2>3, <2>4 DEF RingNext
<1> QED
  BY <1>1, <1>2, PTL DEF RingSpec

\* The blocks that count make a sequence of blocks.
LEMMA QueueType ==
  ASSUME RingOK
  PROVE  /\ Queue \in Seq(Blocks)
         /\ Len(Queue) = newblockcount
         /\ \A i \in 1 .. newblockcount : Slot(readptr, i) \in Slots
<1>1. \A i \in 1 .. newblockcount : Slot(readptr, i) \in Slots
  BY RingAssumption DEF RingOK, Slots, Slot
<1>2. Queue \in [1 .. newblockcount -> Blocks] /\ newblockcount \in Nat
  BY <1>1 DEF RingOK, Queue
<1>3. Queue \in Seq(Blocks)
  BY <1>2
<1>4. Len(Queue) = newblockcount
  BY <1>2
<1> QED
  BY <1>1, <1>3, <1>4

\* A write appends: the slots of the older blocks are not touched.
LEMMA WriteAppends ==
  ASSUME NEW d \in Blocks, RingOK, Write(d)
  PROVE  Queue' = Append(Queue, d)
<1>1. RingOK'
  BY WriteKeeps
<1>2. newblockcount' = newblockcount + 1 /\ newblockcount \in Nat
  BY RingAssumption DEF RingOK, Write
<1>3. \A i \in 1 .. newblockcount : Slot(readptr', i) = Slot(readptr, i) /\ Slot(readptr, i) \in Slots /\ Slot(readptr, i) # writeptr
  BY RingAssumption DEF RingOK, Write, Slots, Slot
<1>4. Slot(readptr', newblockcount') = writeptr
  BY <1>2, RingAssumption DEF RingOK, Write, Slots, Slot
<1>5. Len(Queue) = newblockcount /\ Queue \in Seq(Blocks)
  BY QueueType
<1>6. Len(Queue') = newblockcount + 1 /\ Queue' \in Seq(Blocks)
  <2>1. Queue' \in [1 .. newblockcount + 1 -> Blocks]
    <3>1. \A i \in 1 .. newblockcount' : Slot(readptr', i) \in Slots
      <4>1. readptr' \in Slots /\ newblockcount' \in 0 .. BlockNum
        BY <1>1 DEF RingOK
      <4> QED
        BY <4>1, SlotRange
    <3> QED
      BY <1>1, <1>2, <3>1 DEF RingOK, Queue
  <2> QED
    BY <1>2, <2>1
<1>7. \A i \in 1 .. newblockcount : Queue'[i] = Queue[i]
  BY <1>2, <1>3 DEF Queue, Write, RingOK
<1>8. Queue'[newblockcount + 1] = d
  BY <1>2, <1>4 DEF Queue, Write, RingOK
<1>9. Append(Queue, d) \in Seq(Blocks) /\ Len(Append(Queue, d)) = newblockcount + 1
  BY <1>5
<1>10. \A i \in 1 .. newblockcount + 1 : Queue'[i] = Append(Queue, d)[i]
  BY <1>2, <1>5, <1>7, <1>8
<1> QED
  BY <1>6, <1>9, <1>10, SeqEqual

\* A read hands out the head and leaves the tail.
LEMMA ReadTakes ==
  ASSUME RingOK, Read
  PROVE  Queue # <<>> /\ got' = Head(Queue) /\ Queue' = Tail(Queue)
<1>1. RingOK'
  BY ReadKeeps
<1>2. newblockcount' = newblockcount - 1 /\ newblockcount \in Nat /\ newblockcount > 0
  BY RingAssumption DEF RingOK, Read
<1>3. Len(Queue) = newblockcount /\ Queue \in Seq(Blocks) /\ Queue # <<>>
  BY <1>2, QueueType
<1>4. got' = Head(Queue)
  <2>1. Slot(readptr, 1) = readptr
    BY RingAssumption DEF Slot, RingOK, Slots
  <2>2. Queue[1] = buf[readptr]
    BY <1>2, <2>1 DEF Queue
  <2> QED
    BY <1>3, <2>2 DEF Read
<1>5. \A i \in 1 .. newblockcount - 1 : Slot(readptr', i) = Slot(readptr, i + 1)
  BY RingAssumption DEF RingOK, Read, Slots, Slot, Succ
<1>6. Queue' \in Seq(Blocks) /\ Len(Queue') = newblockcount - 1
  <2>1. \A i \in 1 .. newblockcount' : Slot(readptr', i) \in Slots
    <3>1. readptr' \in Slots /\ newblockcount' \in 0 .. BlockNum
      BY <1>1 DEF RingOK
    <3> QED
      BY <3>1, SlotRange
  <2>2. Queue' \in [1 .. newblockcount - 1 -> Blocks]
    BY <1>1, <1>2, <2>1 DEF RingOK, Queue
  <2> QED
    BY <1>2, <2>2
<1>7. Tail(Queue) \in Seq(Blocks) /\ Len(Tail(Queue)) = newblockcount - 1
  BY <1>2, <1>3
<1>8. \A i \in 1 .. newblockcount - 1 : Queue'[i] = Tail(Queue)[i]
  <2> SUFFICES ASSUME NEW i \in 1 .. newblockcount - 1
               PROVE  Queue'[i] = Tail(Queue)[i]
    OBVIOUS
  <2>1. Queue'[i] = buf[Slot(readptr, i + 1)]
    BY <1>2, <1>5 DEF Queue, Read
  <2>2. Tail(Queue)[i] = Queue[i + 1]
    BY <1>2, <1>3
  <2> QED
    BY <1>2, <2>1, <2>2 DEF Queue
<1> QED
  BY <1>3, <1>4, <1>6, <1>7, <1>8, SeqEqual

\* The ring buffer of ringbuffer.c is a bounded queue, for any number of blocks.
THEOREM RingIsFifo == RingSpec => Echo
<1>1. Setup => Fifo!Init
  <2> SUFFICES ASSUME Setup
               PROVE  Fifo!Init
    OBVIOUS
  <2>1. Queue = <<>>
    BY DEF Setup, Queue
  <2> QED
    BY <2>1 DEF Setup, Fifo!Init, Queue
<1>2. RingOK /\ [RingNext]_ring => [Fifo!Next]_<<Queue, got>>
  <2> SUFFICES ASSUME RingOK, [RingNext]_ring
               PROVE  Fifo!Next \/ UNCHANGED <<Queue, got>>
    OBVIOUS
  <2>1. CASE Flush
    <3>1. Queue' = <<>>
      BY <2>1 DEF Flush, Queue
    <3> QED
      BY <2>1, <3>1 DEF Flush, Fifo!Empty, Fifo!Next, Queue
  <2>2. ASSUME NEW d \in Blocks, Write(d)
        PROVE  Fifo!Next
    <3>1. Queue' = Append(Queue, d)
      BY <2>2, WriteAppends
    <3>2. Len(Queue) < BlockNum
      BY <2>2, QueueType, RingAssumption DEF Write, RingOK
    <3>3. Fifo!Put
      BY <2>2, <3>1, <3>2 DEF Fifo!Put, Queue, Write
    <3> QED
      BY <3>3 DEF Fifo!Next
  <2>3. CASE Read
    <3>1. Fifo!Take
      BY <2>3, ReadTakes DEF Fifo!Take, Queue
    <3> QED
      BY <3>1 DEF Fifo!Next
  <2>4. CASE UNCHANGED ring
    BY <2>4 DEF ring, Queue, Slot
  <2> QED
    BY <2>1, <2>2, <2>3, <2>4 DEF RingNext
<1>3. RingSpec => []RingOK
  BY RingInvariant
<1> QED
  BY <1>1, <1>2, <1>3, PTL DEF RingSpec, Echo, Fifo!Spec, Queue

\* The microphone and the speaker use the ring as a queue, whatever else the interrupt does (Echo, speaker.c:148-190).
THEOREM EchoAlways == SpeakerSpec => Echo
<1>1. SpeakerInit => Setup
  BY DEF SpeakerInit
<1>2. [SpeakerNext]_vars => [RingNext]_ring
  <2> SUFFICES ASSUME [SpeakerNext]_vars PROVE RingNext \/ UNCHANGED ring
    OBVIOUS
  <2>1. CASE Player(Next)
    BY <2>1 DEF Player
  <2>2. CASE CodecTest
    BY <2>2 DEF CodecTest, Test_Codec_demo, Test_codec_demo_stop, Rx, Tx, RingNext
  <2>3. CASE UNCHANGED vars
    BY <2>3 DEF vars
  <2> QED BY <2>1, <2>2, <2>3 DEF SpeakerNext
<1>3. SpeakerSpec => RingSpec
  BY <1>1, <1>2, PTL DEF SpeakerSpec, RingSpec
<1> QED BY <1>3, RingIsFifo
=============================================================================
