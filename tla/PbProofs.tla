------------------------------ MODULE PbProofs ------------------------------
(***************************************************************************)
(* The bearer of PbRemote for any number of links, of tries and of events  *)
(* under way.                                                              *)
(***************************************************************************)
EXTENDS PbData, SequenceTheorems, TLAPS

LEMMA Tries == 0 \in 0 .. TryMax + 1 /\ 1 \in 0 .. TryMax + 1
BY PbAssumption

LEMMA Begins == Init => IInv
<1> SUFFICES ASSUME Init PROVE IInv
  OBVIOUS
<1>1. evts \in Seq(Events) /\ DOMAIN evts = {}
  BY EmptySeq DEF Init
<1> QED
  BY <1>1, Tries DEF Init, IInv, TypeOK, LinkStates, Reports, Own, Watched, Course,
     Idle, Attempt, Client, Search, Loss

(***************************************************************************)
(* How the events under way change: they are appended and taken in order.  *)
(***************************************************************************)

\* An event that is appended leaves the others in place, before it.
LEMMA Appended ==
    ASSUME evts \in Seq(Events), NEW e \in Events, evts' = Append(evts, e)
    PROVE  /\ evts' \in Seq(Events)
           /\ \E n \in Nat : /\ DOMAIN evts' = DOMAIN evts \cup {n} /\ evts'[n] = e
                            /\ \A i \in DOMAIN evts : i \in Nat /\ i < n /\ evts'[i] = evts[i]
<1>1. /\ evts' \in Seq(Events) /\ Len(evts) \in Nat
      /\ DOMAIN evts = 1 .. Len(evts) /\ DOMAIN evts' = 1 .. Len(evts) + 1
      /\ \A i \in DOMAIN evts : evts'[i] = evts[i]
      /\ evts'[Len(evts) + 1] = e
  BY LenProperties, AppendProperties
<1> PICK n \in Nat : n = Len(evts) + 1
  BY <1>1
<1>2. DOMAIN evts' = DOMAIN evts \cup {n} /\ evts'[n] = e
  BY <1>1
<1>3. \A i \in DOMAIN evts : i \in Nat /\ i < n /\ evts'[i] = evts[i]
  BY <1>1
<1> QED BY <1>1, <1>2, <1>3

\* When the first event is taken, the others move up by one.
LEMMA Taken ==
    ASSUME evts \in Seq(Events), evts # <<>>, evts' = Tail(evts)
    PROVE  /\ evts' \in Seq(Events)
           /\ Head(evts) = evts[1] /\ evts[1] \in Events /\ 1 \in DOMAIN evts
           /\ \A i \in DOMAIN evts' :
                 i \in Nat \ {0} /\ i + 1 \in DOMAIN evts /\ evts'[i] = evts[i + 1]
           /\ \A i \in DOMAIN evts : i # 1 =>
                 i \in Nat \ {0, 1} /\ i - 1 \in DOMAIN evts' /\ evts'[i - 1] = evts[i]
<1>1. evts' \in Seq(Events) /\ Len(evts') = Len(evts) - 1
      /\ \A i \in 1 .. Len(evts') : evts'[i] = evts[i + 1]
  BY HeadTailProperties
<1>2. /\ Len(evts) \in Nat \ {0} /\ DOMAIN evts = 1 .. Len(evts)
      /\ DOMAIN evts' = 1 .. Len(evts')
  BY <1>1, LenProperties, EmptySeq
<1>3. Head(evts) = evts[1] /\ evts[1] \in Events
  BY <1>2, ElementOfSeq
<1> QED BY <1>1, <1>2, <1>3

\* What there is under one index changes.
LEMMA LinkTypes ==
    ASSUME TypeOK, NEW l \in Links, NEW s \in LinkStates, link' = [link EXCEPT ![l] = s]
    PROVE  /\ link' \in [Links -> LinkStates] /\ link'[l] = s
           /\ \A m \in Links : m # l => link'[m] = link[m]
BY DEF TypeOK

LEMMA EventTypes ==
    ASSUME TypeOK
    PROVE  \A i \in DOMAIN evts : evts[i] \in Events /\ evts[i].conidx \in Links /\ i \in Nat
<1>1. Len(evts) \in Nat /\ DOMAIN evts = 1 .. Len(evts)
  BY LenProperties DEF TypeOK
<1>2. \A i \in DOMAIN evts : evts[i] \in Events
  BY <1>1, ElementOfSeq DEF TypeOK
<1>3. \A e \in Events : e.conidx \in Links
  BY DEF Events
<1> QED BY <1>1, <1>2, <1>3

-----------------------------------------------------------------------------
(***************************************************************************)
(* What the mesh stack asks for, and the timer.                            *)
(***************************************************************************)

\* Without a bearer and an attempt there is nothing under way.
LEMMA AtRest ==
    ASSUME IInv, ~crossed, bearer = "none"
    PROVE  /\ client_idx = NoLink /\ ~timer /\ ~trying /\ discovering = {}
           /\ \A l \in Links : link[l] # "device"
           /\ \A i \in DOMAIN evts : ~Made(i) /\ ~Registered(i)
           /\ \A i \in DOMAIN evts, l \in Links : Lost(i, l) => ~evts[i].failed
<1>1. client_idx = NoLink /\ ~timer
  BY DEF IInv, Course, Client, Attempt
<1>2. ~trying /\ \A i \in DOMAIN evts : ~Made(i)
  BY <1>1 DEF IInv, Watched
<1>3. \A l \in Links : link[l] # "device"
  BY <1>1, <1>2, PbAssumption DEF IInv, Watched
<1>4. discovering = {} /\ \A i \in DOMAIN evts : ~Registered(i)
  BY <1>1 DEF IInv, Course, Idle, Search
<1>5. \A i \in DOMAIN evts, l \in Links : Lost(i, l) => ~evts[i].failed
  BY DEF IInv, Course, Loss
<1> QED BY <1>1, <1>2, <1>3, <1>4, <1>5

\* An attempt whose connection has not been made.
LEMMA Trying ==
    ASSUME IInv, ~crossed, trying
    PROVE  /\ client_idx = NoLink /\ timer /\ bearer = "opening" /\ discovering = {}
           /\ \A l \in Links : link[l] # "device"
           /\ \A i \in DOMAIN evts : ~Made(i) /\ ~Registered(i)
           /\ \A i \in DOMAIN evts, l \in Links : Lost(i, l) => ~evts[i].failed
<1>1. timer
  BY DEF IInv, Watched
<1>2. client_idx = NoLink /\ bearer = "opening" /\ discovering = {}
  BY <1>1 DEF IInv, Course, Attempt
<1>3. \A i \in DOMAIN evts : ~Made(i)
  BY <1>1 DEF IInv, Course, Attempt
<1>4. \A l \in Links : link[l] # "device"
  BY <1>2, <1>3, PbAssumption DEF IInv, Watched
<1>5. \A i \in DOMAIN evts : ~Registered(i)
  BY <1>2 DEF IInv, Course, Search
<1>6. \A i \in DOMAIN evts, l \in Links : Lost(i, l) => ~evts[i].failed
  BY <1>2, <1>3, PbAssumption DEF IInv, Course, Loss
<1> QED BY <1>1, <1>2, <1>3, <1>4, <1>5, <1>6

\* Nothing is under way, and this remains so when the attempt, if there is
\* one, is known to the timer.
LEMMA RestKeeps ==
    ASSUME UNCHANGED <<evts, link, discovering, client_idx>>,
           client_idx = NoLink, discovering = {},
           \A l \in Links : link[l] # "device",
           \A i \in DOMAIN evts : ~Made(i) /\ ~Registered(i),
           \A i \in DOMAIN evts, l \in Links : Lost(i, l) => ~evts[i].failed,
           timer' = trying', timer' => bearer' = "opening", ~timer' => bearer' = "none",
           timer' \in BOOLEAN
    PROVE  Watched' /\ Course'
<1>1. \A i \in DOMAIN evts : /\ Made(i)' = Made(i) /\ Registered(i)' = Registered(i)
                             /\ \A l \in Links : Lost(i, l)' = Lost(i, l)
  BY DEF Made, Registered, Lost
<1>2. Watched'
  BY <1>1 DEF Watched
<1>3. Idle' /\ Attempt' /\ Client' /\ Search'
  BY <1>1 DEF Idle, Attempt, Client, Search
<1>4. Loss'
  BY <1>1, PbAssumption DEF Loss
<1> QED BY <1>2, <1>3, <1>4 DEF Course

\* The connections and the events about them stay.
LEMMA OwnStays == ASSUME Own, UNCHANGED <<evts, link, client_idx>> PROVE Own'
BY DEF Own, OwnOrLost, LossUnderWay, Lost, Made

LEMMA CreateKeeps ==
    ASSUME IInv, pb_remote_gatt_create PROVE IInv'
<1> USE DEF pb_remote_gatt_create, StartConn, layer
<1>1. TypeOK'
  BY Tries DEF IInv, TypeOK, Reports
<1>2. Own'
  BY OwnStays DEF IInv
<1>3. CASE crossed
  BY <1>1, <1>2, <1>3 DEF IInv, Watched
<1>4. CASE ~crossed
  <2>1. Watched' /\ Course'
    BY <1>4, AtRest, RestKeeps
  <2> QED BY <1>1, <1>2, <2>1 DEF IInv
<1> QED BY <1>3, <1>4

LEMMA CloseKeeps ==
    ASSUME IInv, pb_remote_gatt_close PROVE IInv'
<1> USE DEF pb_remote_gatt_close, layer, central
<1>1. bearer' = bearer /\ report' = "none"
  BY DEF Tell
<1>2. TypeOK'
  BY <1>1 DEF IInv, TypeOK, Reports, DisconnectReq
<1>3. Own'
  BY OwnStays DEF IInv
<1>4. Watched' /\ (~crossed' => Course')
  BY <1>1 DEF IInv, Watched, Course, Idle, Attempt, Client, Search, Loss, Made, Registered, Lost
<1> QED BY <1>2, <1>3, <1>4 DEF IInv

LEMMA TimeoutKeeps ==
    ASSUME IInv, pb_remote_connect_timeout PROVE IInv'
<1> USE DEF pb_remote_connect_timeout, layer
<1>1. bearer' = "none" /\ report' = "failed"
  BY DEF Tell
<1>2. TypeOK'
  BY <1>1 DEF IInv, TypeOK, Reports
<1>3. Own'
  BY OwnStays DEF IInv
<1>4. CASE crossed'
  BY <1>2, <1>3, <1>4 DEF IInv, Watched
<1>5. CASE ~crossed'
  <2>1. \A i \in DOMAIN evts : evts[i].conidx \in Links
    BY EventTypes DEF IInv
  <2>2. ~crossed /\ \A i \in DOMAIN evts : ~Made(i)
    BY <1>5, <2>1 DEF UnderWay, Made
  <2>3. trying
    BY <2>2 DEF IInv, Watched
  <2>4. Watched' /\ Course'
    BY <1>1, <2>2, <2>3, Trying, RestKeeps
  <2> QED BY <1>2, <1>3, <2>4 DEF IInv
<1> QED BY <1>4, <1>5

-----------------------------------------------------------------------------
(***************************************************************************)
(* The link layer.                                                         *)
(***************************************************************************)

\* An event that is appended is told of by these facts.
LEMMA AppendedTells ==
    ASSUME TypeOK, NEW e \in Events, evts' = Append(evts, e)
    PROVE  /\ evts' \in Seq(Events)
           /\ \E n \in Nat :
                 /\ DOMAIN evts' = DOMAIN evts \cup {n} /\ evts'[n] = e /\ n \notin DOMAIN evts
                 /\ Made(n)' <=> e.type = "MASTER_CONNECT"
                 /\ Registered(n)' <=> e.type = "PEER_SVC_REGISTERED"
                 /\ \A l \in Links : Lost(n, l)' <=> e.type = "DISCONNECT" /\ e.conidx = l
                 /\ \A i \in DOMAIN evts :
                       /\ i \in Nat /\ i < n /\ evts'[i] = evts[i] /\ evts[i].conidx \in Links
                       /\ Made(i)' = Made(i) /\ Registered(i)' = Registered(i)
                       /\ \A l \in Links : Lost(i, l)' = Lost(i, l)
<1>1. evts' \in Seq(Events)
  BY Appended DEF TypeOK
<1>2. PICK n \in Nat :
         /\ DOMAIN evts' = DOMAIN evts \cup {n} /\ evts'[n] = e
         /\ \A i \in DOMAIN evts : i \in Nat /\ i < n /\ evts'[i] = evts[i]
  BY Appended DEF TypeOK
<1>3. n \notin DOMAIN evts
  BY <1>2
<1>4. /\ Made(n)' <=> e.type = "MASTER_CONNECT"
      /\ Registered(n)' <=> e.type = "PEER_SVC_REGISTERED"
      /\ \A l \in Links : Lost(n, l)' <=> e.type = "DISCONNECT" /\ e.conidx = l
  BY <1>2 DEF Made, Registered, Lost
<1>5. \A i \in DOMAIN evts :
         /\ Made(i)' = Made(i) /\ Registered(i)' = Registered(i)
         /\ \A l \in Links : Lost(i, l)' = Lost(i, l)
  BY <1>2 DEF Made, Registered, Lost
<1> QED BY <1>1, <1>2, <1>3, <1>4, <1>5, EventTypes

LEMMA EventIs ==
    ASSUME NEW l \in Links, NEW failed \in BOOLEAN,
           NEW type \in {"MASTER_CONNECT", "PEER_SVC_REGISTERED", "DISCONNECT"}
    PROVE  /\ Event(type, l, failed) \in Events
           /\ Event(type, l, failed).type = type /\ Event(type, l, failed).conidx = l
           /\ Event(type, l, failed).failed = failed
BY DEF Event, Events

LEMMA ConnectsKeeps ==
    ASSUME IInv, NEW l \in Links, Connects(l) PROVE IInv'
<1> DEFINE e == Event("MASTER_CONNECT", l, FALSE)
<1>1. e \in Events /\ e.type = "MASTER_CONNECT" /\ e.conidx = l
  BY EventIs
<1> HIDE DEF e
<1>2. /\ evts' = Append(evts, e)
      /\ trying /\ trying' = FALSE /\ link[l] = "none"
      /\ bearer' = bearer /\ report' = "none"
      /\ UNCHANGED <<leaving, discovering, client_idx, try_times, timer, crossed>>
  BY DEF Connects, Tell, e
<1>3. /\ link' \in [Links -> LinkStates] /\ link'[l] = "device"
      /\ \A m \in Links : m # l => link'[m] = link[m]
  BY LinkTypes DEF Connects, LinkStates, IInv
<1>4. PICK n \in Nat :
         /\ DOMAIN evts' = DOMAIN evts \cup {n} /\ evts'[n] = e /\ n \notin DOMAIN evts
         /\ Made(n)' /\ ~Registered(n)' /\ \A m \in Links : ~Lost(n, m)'
         /\ \A i \in DOMAIN evts :
               /\ i \in Nat /\ i < n /\ evts'[i] = evts[i] /\ evts[i].conidx \in Links
               /\ Made(i)' = Made(i) /\ Registered(i)' = Registered(i)
               /\ \A m \in Links : Lost(i, m)' = Lost(i, m)
  BY <1>1, <1>2, AppendedTells DEF IInv
<1>5. TypeOK'
  <2>1. evts' \in Seq(Events)
    BY <1>1, <1>2, AppendedTells DEF IInv
  <2> QED BY <1>2, <1>3, <2>1 DEF IInv, TypeOK, Reports
<1>6. Own'
  <2>1. \A m \in Links : OwnOrLost(m) => OwnOrLost(m)'
    BY <1>3, <1>4 DEF OwnOrLost, LossUnderWay
  <2>2. client_idx' # NoLink => OwnOrLost(client_idx)'
    BY <1>2, <2>1 DEF IInv, Own, TypeOK
  <2>3. ASSUME NEW i \in DOMAIN evts', NEW m \in Links, Made(i)', evts'[i].conidx = m
        PROVE  link'[m] = "device" \/ \E j \in DOMAIN evts' : j > i /\ Lost(j, m)'
    <3>1. CASE i = n
      BY <1>1, <1>3, <1>4, <2>3, <3>1
    <3>2. CASE i # n
      BY <1>3, <1>4, <2>3, <3>2 DEF IInv, Own
    <3> QED BY <3>1, <3>2
  <2> QED BY <2>2, <2>3 DEF Own
<1>7. CASE crossed
  BY <1>2, <1>5, <1>6, <1>7 DEF IInv, Watched
<1>8. CASE ~crossed
  <2>1. /\ client_idx = NoLink /\ timer /\ bearer = "opening" /\ discovering = {}
        /\ \A m \in Links : link[m] # "device"
        /\ \A i \in DOMAIN evts : ~Made(i) /\ ~Registered(i)
        /\ \A i \in DOMAIN evts, m \in Links : Lost(i, m) => ~evts[i].failed
    BY <1>2, <1>8, Trying
  <2>2. Watched'
    BY <1>1, <1>2, <1>3, <1>4, <2>1 DEF Watched
  <2>3. Idle' /\ Attempt' /\ Client' /\ Search'
    BY <1>2, <1>4, <2>1 DEF Idle, Attempt, Client, Search
  <2>4. Loss'
    BY <1>2, <1>4, <2>1, PbAssumption DEF Loss
  <2> QED BY <1>5, <1>6, <2>2, <2>3, <2>4 DEF IInv, Course
<1> QED BY <1>7, <1>8

LEMMA SlaveConnectKeeps ==
    ASSUME IInv, NEW l \in Links, SlaveConnect(l) PROVE IInv'
<1>1. /\ link[l] = "none" /\ bearer' = bearer /\ report' = "none"
      /\ UNCHANGED <<evts, leaving, discovering, client_idx, try_times, timer, trying, crossed>>
  BY DEF SlaveConnect, central, Tell
<1>2. /\ link' \in [Links -> LinkStates] /\ link'[l] = "slave"
      /\ \A m \in Links : m # l => link'[m] = link[m]
  BY LinkTypes DEF SlaveConnect, LinkStates, IInv
<1>3. \A m \in Links : link'[m] = "device" <=> link[m] = "device"
  BY <1>1, <1>2
<1>4. TypeOK'
  BY <1>1, <1>2 DEF IInv, TypeOK, Reports
<1>5. \A i \in DOMAIN evts : /\ Made(i)' = Made(i) /\ Registered(i)' = Registered(i)
                             /\ \A m \in Links : Lost(i, m)' = Lost(i, m)
                             /\ evts[i].conidx \in Links
  BY <1>1, EventTypes DEF Made, Registered, Lost, IInv
<1>6. Own'
  <2>1. \A m \in Links : OwnOrLost(m) => OwnOrLost(m)'
    BY <1>1, <1>3, <1>5 DEF OwnOrLost, LossUnderWay
  <2>2. client_idx' # NoLink => OwnOrLost(client_idx)'
    BY <1>1, <2>1 DEF IInv, Own, TypeOK
  <2> QED BY <1>1, <1>3, <1>5, <2>2 DEF IInv, Own
<1>7. Watched'
  BY <1>1, <1>3, <1>5 DEF IInv, Watched
<1>8. ASSUME ~crossed' PROVE Course'
  <2>1. Idle' /\ Attempt' /\ Client'
    BY <1>1, <1>5, <1>8 DEF IInv, Course, Idle, Attempt, Client
  <2>2. Search'
    <3>1. \A m \in discovering : m \in Links
      BY DEF IInv, TypeOK
    <3>2. client_idx # NoLink => client_idx \in Links
      BY DEF IInv, TypeOK
    <3> QED BY <1>1, <1>3, <1>5, <1>8, <3>1, <3>2 DEF IInv, Course, Search
  <2>3. Loss'
    BY <1>1, <1>3, <1>5, <1>8 DEF IInv, Course, Loss
  <2> QED BY <2>1, <2>2, <2>3 DEF Course
<1> QED BY <1>4, <1>6, <1>7, <1>8 DEF IInv

LEMMA DiscoveredKeeps ==
    ASSUME IInv, NEW l \in Links, NEW failed \in BOOLEAN, Discovered(l, failed) PROVE IInv'
<1> DEFINE e == Event("PEER_SVC_REGISTERED", l, failed)
<1>1. e \in Events /\ e.type = "PEER_SVC_REGISTERED"
  BY EventIs
<1> HIDE DEF e
<1>2. /\ evts' = Append(evts, e)
      /\ l \in discovering /\ discovering' = discovering \ {l}
      /\ bearer' = bearer /\ report' = "none"
      /\ UNCHANGED <<link, leaving, client_idx, try_times, timer, trying, crossed>>
  BY DEF Discovered, central, Tell, e
<1>3. PICK n \in Nat :
         /\ DOMAIN evts' = DOMAIN evts \cup {n} /\ evts'[n] = e /\ n \notin DOMAIN evts
         /\ ~Made(n)' /\ Registered(n)' /\ \A m \in Links : ~Lost(n, m)'
         /\ \A i \in DOMAIN evts :
               /\ i \in Nat /\ i < n /\ evts'[i] = evts[i] /\ evts[i].conidx \in Links
               /\ Made(i)' = Made(i) /\ Registered(i)' = Registered(i)
               /\ \A m \in Links : Lost(i, m)' = Lost(i, m)
  BY <1>1, <1>2, AppendedTells DEF IInv
<1>4. TypeOK'
  <2>1. evts' \in Seq(Events)
    BY <1>1, <1>2, AppendedTells DEF IInv
  <2> QED BY <1>2, <2>1 DEF IInv, TypeOK, Reports
<1>5. Own'
  <2>1. \A m \in Links : OwnOrLost(m) => OwnOrLost(m)'
    BY <1>2, <1>3 DEF OwnOrLost, LossUnderWay
  <2>2. client_idx' # NoLink => OwnOrLost(client_idx)'
    BY <1>2, <2>1 DEF IInv, Own, TypeOK
  <2>3. ASSUME NEW i \in DOMAIN evts', NEW m \in Links, Made(i)', evts'[i].conidx = m
        PROVE  link'[m] = "device" \/ \E j \in DOMAIN evts' : j > i /\ Lost(j, m)'
    BY <1>2, <1>3, <2>3 DEF IInv, Own
  <2> QED BY <2>2, <2>3 DEF Own
<1>6. Watched'
  BY <1>2, <1>3 DEF IInv, Watched
<1>7. ASSUME ~crossed' PROVE Course'
  <2>1. /\ l = client_idx /\ link[l] = "device" /\ bearer = "opening"
        /\ \A i \in DOMAIN evts : ~Registered(i)
    BY <1>2, <1>7 DEF IInv, Course, Search
  <2>2. discovering' = {} /\ client_idx # NoLink /\ ~timer
    BY <1>2, <1>7, <2>1, PbAssumption DEF IInv, Course, Search, Client
  <2>3. \A j \in DOMAIN evts : ~Lost(j, l) /\ \A m \in Links : Lost(j, m) => ~evts[j].failed
    BY <1>2, <1>7, <2>1 DEF IInv, Course, Loss
  <2>4. Idle' /\ Attempt' /\ Client'
    BY <1>2, <2>1, <2>2 DEF Idle, Attempt, Client
  <2>5. Search'
    BY <1>2, <1>3, <2>1, <2>2, <2>3 DEF Search
  <2>6. Loss'
    BY <1>2, <1>3, <1>7, <2>3 DEF IInv, Course, Loss
  <2> QED BY <2>4, <2>5, <2>6 DEF Course
<1> QED BY <1>4, <1>5, <1>6, <1>7 DEF IInv

LEMMA LinkEndsKeeps ==
    ASSUME IInv, NEW l \in Links, NEW failed \in BOOLEAN, LinkEnds(l, failed) PROVE IInv'
<1> DEFINE e == Event("DISCONNECT", l, failed)
<1>1. e \in Events /\ e.type = "DISCONNECT" /\ e.conidx = l /\ e.failed = failed
  BY EventIs
<1> HIDE DEF e
<1>2. /\ evts' = Append(evts, e)
      /\ leaving' = leaving \ {l} /\ discovering' = discovering \ {l}
      /\ bearer' = bearer /\ report' = "none"
      /\ UNCHANGED <<client_idx, try_times, timer, trying, crossed>>
      /\ failed => link[l] = "device" /\ (l \in discovering \/ UnderWay("MASTER_CONNECT", l))
  BY DEF LinkEnds, central, Tell, e
<1>3. /\ link' \in [Links -> LinkStates] /\ link'[l] = "none"
      /\ \A m \in Links : m # l => link'[m] = link[m]
  BY LinkTypes DEF LinkEnds, LinkStates, IInv
<1>4. PICK n \in Nat :
         /\ DOMAIN evts' = DOMAIN evts \cup {n} /\ evts'[n] = e /\ n \notin DOMAIN evts
         /\ ~Made(n)' /\ ~Registered(n)' /\ \A m \in Links : Lost(n, m)' <=> l = m
         /\ \A i \in DOMAIN evts :
               /\ i \in Nat /\ i < n /\ evts'[i] = evts[i] /\ evts[i].conidx \in Links
               /\ Made(i)' = Made(i) /\ Registered(i)' = Registered(i)
               /\ \A m \in Links : Lost(i, m)' = Lost(i, m)
  BY <1>1, <1>2, AppendedTells DEF IInv
<1>5. TypeOK'
  <2>1. evts' \in Seq(Events)
    BY <1>1, <1>2, AppendedTells DEF IInv
  <2> QED BY <1>2, <1>3, <2>1 DEF IInv, TypeOK, Reports
<1>6. Own'
  <2>1. \A m \in Links : OwnOrLost(m) => OwnOrLost(m)'
    BY <1>3, <1>4 DEF OwnOrLost, LossUnderWay
  <2>2. client_idx' # NoLink => OwnOrLost(client_idx)'
    BY <1>2, <2>1 DEF IInv, Own, TypeOK
  <2>3. ASSUME NEW i \in DOMAIN evts', NEW m \in Links, Made(i)', evts'[i].conidx = m
        PROVE  link'[m] = "device" \/ \E j \in DOMAIN evts' : j > i /\ Lost(j, m)'
    <3>1. i \in DOMAIN evts /\ Made(i) /\ evts[i].conidx = m /\ i < n
      BY <1>4, <2>3
    <3>2. CASE m = l
      BY <1>4, <3>1, <3>2
    <3>3. CASE m # l
      BY <1>3, <1>4, <3>1, <3>3 DEF IInv, Own
    <3> QED BY <3>2, <3>3
  <2> QED BY <2>2, <2>3 DEF Own
<1>7. \A m \in Links : link'[m] = "device" => link[m] = "device" /\ m # l
  BY <1>3
<1>8. Watched'
  BY <1>2, <1>4, <1>7 DEF IInv, Watched
<1>9. ASSUME ~crossed' PROVE Course'
  <2>0. ~crossed /\ Course
    BY <1>2, <1>9 DEF IInv
  <2>1. Idle' /\ Attempt' /\ Client'
    BY <1>2, <1>4, <2>0 DEF Course, Idle, Attempt, Client
  <2>2. Search'
    <3>1. \A m \in discovering' : /\ m = client_idx' /\ link'[m] = "device" /\ bearer' = "opening"
                                  /\ \A i \in DOMAIN evts' : ~Registered(i)'
      BY <1>2, <1>3, <1>4, <2>0 DEF IInv, TypeOK, Course, Search
    <3>2. client_idx # NoLink => client_idx \in Links
      BY DEF IInv, TypeOK
    <3>3. ASSUME NEW i \in DOMAIN evts', Registered(i)'
          PROVE  /\ client_idx' # NoLink /\ bearer' = "opening" /\ discovering' = {}
                 /\ \A j \in DOMAIN evts' : /\ Registered(j)' => i = j
                                            /\ Lost(j, client_idx)' => i < j
      <4>1. i \in DOMAIN evts /\ Registered(i) /\ i < n
        BY <1>4, <3>3
      <4>2. client_idx # NoLink /\ bearer = "opening" /\ discovering = {}
        BY <2>0, <4>1 DEF Course, Search
      <4>3. ASSUME NEW j \in DOMAIN evts' PROVE (Registered(j)' => i = j) /\ (Lost(j, client_idx)' => i < j)
        <5>1. CASE j = n
          BY <1>4, <4>1, <5>1
        <5>2. CASE j # n
          BY <1>2, <1>4, <2>0, <3>2, <4>1, <4>2, <5>2 DEF Course, Search
        <5> QED BY <5>1, <5>2
      <4> QED BY <1>2, <4>2, <4>3
    <3> QED BY <3>1, <3>3 DEF Search
  <2>3. ASSUME NEW j \in DOMAIN evts, NEW m \in Links, Lost(j, m)
        PROVE  /\ client_idx' = m => link'[m] # "device"
               /\ \A i \in DOMAIN evts' : Made(i)' /\ evts'[i].conidx = m /\ i < j
                     => link'[m] # "device"
               /\ evts'[j].failed =>
                     /\ bearer' = "opening" /\ discovering' = {}
                     /\ \A i \in DOMAIN evts' : ~Registered(i)'
                     /\ \/ client_idx' = m /\ \A i \in DOMAIN evts' : Lost(i, m)' => j <= i
                        \/ \E k \in DOMAIN evts' :
                              /\ Made(k)' /\ evts'[k].conidx = m /\ k < j
                              /\ \A i \in DOMAIN evts' : Lost(i, m)' /\ k < i => j <= i
    <3>1. client_idx' = m => link'[m] # "device"
      BY <1>2, <1>7, <2>0, <2>3 DEF Course, Loss
    <3>2. \A i \in DOMAIN evts' : Made(i)' /\ evts'[i].conidx = m /\ i < j => link'[m] # "device"
      BY <1>4, <1>7, <2>0, <2>3 DEF Course, Loss
    <3>3. ASSUME evts[j].failed
          PROVE  /\ bearer' = "opening" /\ discovering' = {}
                 /\ \A i \in DOMAIN evts' : ~Registered(i)'
                 /\ \/ client_idx' = m /\ \A i \in DOMAIN evts' : Lost(i, m)' => j <= i
                    \/ \E k \in DOMAIN evts' :
                          /\ Made(k)' /\ evts'[k].conidx = m /\ k < j
                          /\ \A i \in DOMAIN evts' : Lost(i, m)' /\ k < i => j <= i
      <4>1. /\ bearer = "opening" /\ discovering = {} /\ \A i \in DOMAIN evts : ~Registered(i)
            /\ \/ client_idx = m /\ \A i \in DOMAIN evts : Lost(i, m) => j <= i
               \/ \E k \in DOMAIN evts :
                     /\ Made(k) /\ evts[k].conidx = m /\ k < j
                     /\ \A i \in DOMAIN evts : Lost(i, m) /\ k < i => j <= i
        BY <2>0, <2>3, <3>3 DEF Course, Loss
      <4>2. CASE client_idx = m /\ \A i \in DOMAIN evts : Lost(i, m) => j <= i
        BY <1>2, <1>4, <4>1, <4>2
      <4>3. CASE \E k \in DOMAIN evts :
                    /\ Made(k) /\ evts[k].conidx = m /\ k < j
                    /\ \A i \in DOMAIN evts : Lost(i, m) /\ k < i => j <= i
        BY <1>2, <1>4, <4>1, <4>3
      <4> QED BY <4>1, <4>2, <4>3
    <3> QED BY <1>4, <3>1, <3>2, <3>3
  <2>4. ASSUME failed
        PROVE  /\ bearer' = "opening" /\ discovering' = {}
               /\ \A i \in DOMAIN evts' : ~Registered(i)'
               /\ \/ client_idx' = l /\ \A i \in DOMAIN evts' : Lost(i, l)' => n <= i
                  \/ \E k \in DOMAIN evts' :
                        /\ Made(k)' /\ evts'[k].conidx = l /\ k < n
                        /\ \A i \in DOMAIN evts' : Lost(i, l)' /\ k < i => n <= i
    <3>1. CASE l \in discovering
      <4>1. /\ client_idx = l /\ bearer = "opening" /\ discovering' = {}
            /\ \A i \in DOMAIN evts : ~Registered(i)
        BY <1>2, <2>0, <3>1 DEF Course, Search
      <4>2. \A i \in DOMAIN evts : ~Lost(i, l)
        BY <1>2, <2>0, <2>4, <4>1 DEF Course, Loss
      <4> QED BY <1>2, <1>4, <4>1, <4>2
    <3>2. CASE UnderWay("MASTER_CONNECT", l)
      <4>1. PICK k \in DOMAIN evts : Made(k) /\ evts[k].conidx = l
        BY <3>2 DEF UnderWay, Made
      <4>2. timer
        BY <2>0, <4>1 DEF IInv, Watched
      <4>3. /\ client_idx = NoLink /\ bearer = "opening" /\ discovering = {}
            /\ \A i \in DOMAIN evts : ~Registered(i)
        BY <2>0, <4>2 DEF Course, Attempt, Search
      <4>4. \A i \in DOMAIN evts : k < i => ~Lost(i, l)
        BY <1>2, <2>0, <2>4, <4>1 DEF Course, Loss
      <4>5. \A i \in DOMAIN evts' : Lost(i, l)' /\ k < i => i = n
        BY <1>4, <4>4
      <4>6. k \in DOMAIN evts' /\ Made(k)' /\ evts'[k].conidx = l /\ k < n
        BY <1>4, <4>1
      <4> QED BY <1>2, <1>4, <4>3, <4>5, <4>6
    <3> QED BY <1>2, <2>4, <3>1, <3>2
  <2>5. Loss'
    <3> SUFFICES ASSUME NEW j \in DOMAIN evts', NEW m \in Links, Lost(j, m)'
                 PROVE  /\ client_idx' = m => link'[m] # "device"
                        /\ \A i \in DOMAIN evts' : Made(i)' /\ evts'[i].conidx = m /\ i < j
                              => link'[m] # "device"
                        /\ evts'[j].failed =>
                              /\ bearer' = "opening" /\ discovering' = {}
                              /\ \A i \in DOMAIN evts' : ~Registered(i)'
                              /\ \/ client_idx' = m /\ \A i \in DOMAIN evts' : Lost(i, m)' => j <= i
                                 \/ \E k \in DOMAIN evts' :
                                       /\ Made(k)' /\ evts'[k].conidx = m /\ k < j
                                       /\ \A i \in DOMAIN evts' : Lost(i, m)' /\ k < i => j <= i
      BY DEF Loss
    <3>1. CASE j = n
      <4>1. m = l /\ link'[m] # "device" /\ evts'[j].failed = failed
        BY <1>1, <1>3, <1>4, <3>1
      <4> QED BY <2>4, <3>1, <4>1
    <3>2. CASE j # n
      <4>1. j \in DOMAIN evts /\ Lost(j, m)
        BY <1>4, <3>2
      <4> QED BY <2>3, <4>1
    <3> QED BY <3>1, <3>2
  <2> QED BY <2>1, <2>2, <2>5 DEF Course
<1> QED BY <1>5, <1>6, <1>8, <1>9 DEF IInv

-----------------------------------------------------------------------------
(***************************************************************************)
(* The delivery of the first event.                                        *)
(***************************************************************************)

\* What the taking of an event leaves of the predicates about the others.
LEMMA TakenTells ==
    ASSUME TypeOK, evts # <<>>, evts' = Tail(evts)
    PROVE  /\ evts' \in Seq(Events)
           /\ Head(evts) = evts[1] /\ evts[1] \in Events /\ 1 \in DOMAIN evts
           /\ \A i \in DOMAIN evts' :
                 /\ i \in Nat \ {0} /\ i + 1 \in DOMAIN evts /\ evts'[i] = evts[i + 1]
                 /\ Made(i)' = Made(i + 1) /\ Registered(i)' = Registered(i + 1)
                 /\ \A l \in Links : Lost(i, l)' = Lost(i + 1, l)
           /\ \A i \in DOMAIN evts : i # 1 =>
                 /\ i \in Nat \ {0, 1} /\ i - 1 \in DOMAIN evts' /\ evts'[i - 1] = evts[i]
                 /\ Made(i - 1)' = Made(i)
                 /\ \A l \in Links : Lost(i - 1, l)' = Lost(i, l)
BY Taken DEF TypeOK, Made, Registered, Lost

\* No link is left without its device or the report of its loss, except the
\* one whose loss is reported.
LEMMA TakenOwn ==
    ASSUME IInv, evts # <<>>, evts' = Tail(evts), link' = link
    PROVE  /\ \A l \in Links : ~Lost(1, l) /\ OwnOrLost(l) => OwnOrLost(l)'
           /\ \A l \in Links : (\E j \in DOMAIN evts : j > 1 /\ Lost(j, l)) => OwnOrLost(l)'
           /\ \A i \in DOMAIN evts', l \in Links : Made(i)' /\ evts'[i].conidx = l =>
                 link'[l] = "device" \/ \E j \in DOMAIN evts' : j > i /\ Lost(j, l)'
<1>1. /\ \A i \in DOMAIN evts' :
            /\ i \in Nat \ {0} /\ i + 1 \in DOMAIN evts /\ evts'[i] = evts[i + 1]
            /\ Made(i)' = Made(i + 1)
      /\ \A i \in DOMAIN evts : i # 1 =>
            /\ i \in Nat \ {0, 1} /\ i - 1 \in DOMAIN evts'
            /\ \A l \in Links : Lost(i - 1, l)' = Lost(i, l)
  BY TakenTells DEF IInv
<1>2. \A l \in Links : (\E j \in DOMAIN evts : j # 1 /\ Lost(j, l)) => OwnOrLost(l)'
  BY <1>1 DEF OwnOrLost, LossUnderWay
<1>3. \A l \in Links : ~Lost(1, l) /\ OwnOrLost(l) => OwnOrLost(l)'
  BY <1>2 DEF OwnOrLost, LossUnderWay
<1>4. ASSUME NEW i \in DOMAIN evts', NEW l \in Links, Made(i)', evts'[i].conidx = l
      PROVE  link'[l] = "device" \/ \E j \in DOMAIN evts' : j > i /\ Lost(j, l)'
  <2>1. i + 1 \in DOMAIN evts /\ Made(i + 1) /\ evts[i + 1].conidx = l /\ i \in Nat \ {0}
    BY <1>1, <1>4
  <2>2. CASE link[l] = "device"
    BY <2>2
  <2>3. CASE \E j \in DOMAIN evts : j > i + 1 /\ Lost(j, l)
    <3>1. PICK j \in DOMAIN evts : j > i + 1 /\ Lost(j, l)
      BY <2>3
    <3>2. j # 1
      BY <2>1, <3>1
    <3>3. j - 1 \in DOMAIN evts' /\ Lost(j - 1, l)' /\ j \in Nat
      BY <1>1, <3>1, <3>2
    <3>4. j - 1 > i
      BY <2>1, <3>1, <3>3
    <3> QED BY <3>3, <3>4
  <2> QED BY <2>1, <2>2, <2>3 DEF IInv, Own
<1>5. \A j \in DOMAIN evts : j > 1 => j # 1
  BY EventTypes DEF IInv
<1> QED BY <1>2, <1>3, <1>4, <1>5

LEMMA ConnectedKeeps ==
    ASSUME IInv, Deliver, pb_remote_connected(evts[1]) PROVE IInv'
<1>1. /\ evts # <<>> /\ evts' = Tail(evts) /\ link' = link
  BY DEF Deliver
<1>2. /\ evts' \in Seq(Events) /\ evts[1] \in Events /\ 1 \in DOMAIN evts
      /\ \A i \in DOMAIN evts' :
            /\ i \in Nat \ {0} /\ i + 1 \in DOMAIN evts /\ evts'[i] = evts[i + 1]
            /\ Made(i)' = Made(i + 1) /\ Registered(i)' = Registered(i + 1)
            /\ \A l \in Links : Lost(i, l)' = Lost(i + 1, l)
  BY <1>1, TakenTells DEF IInv
<1> PICK c \in Links : c = evts[1].conidx
  BY <1>2 DEF Events
<1>3. /\ Made(1) /\ client_idx' = c /\ timer' = FALSE /\ bearer' = bearer /\ report' = "none"
      /\ discovering' = discovering \cup {l \in Links : l = c /\ link[l] # "none"}
      /\ crossed' = (crossed \/ link[c] = "slave")
      /\ UNCHANGED <<leaving, try_times, trying>>
  BY DEF pb_remote_connected, Connected, Tell, Made
<1>4. TypeOK'
  BY <1>1, <1>2, <1>3 DEF IInv, TypeOK, Reports
<1>5. Own'
  <2>1. link[c] = "device" \/ \E j \in DOMAIN evts : j > 1 /\ Lost(j, c)
    BY <1>2, <1>3 DEF IInv, Own
  <2>2. OwnOrLost(c)'
    BY <1>1, <2>1, TakenOwn DEF OwnOrLost
  <2> QED BY <1>1, <1>3, <2>2, TakenOwn DEF Own
<1>6. CASE crossed'
  BY <1>4, <1>5, <1>6 DEF IInv, Watched
<1>7. CASE ~crossed'
  <2>1. ~crossed /\ link[c] \in {"none", "device"}
    BY <1>3, <1>7 DEF IInv, TypeOK, LinkStates
  <2>2. timer
    BY <1>2, <1>3, <2>1 DEF IInv, Watched
  <2>3. /\ client_idx = NoLink /\ bearer = "opening" /\ discovering = {} /\ trying = FALSE
        /\ \A i \in DOMAIN evts : Made(i) => i = 1
    BY <1>2, <1>3, <2>1, <2>2 DEF IInv, Course, Attempt, TypeOK
  <2>4. \A i \in DOMAIN evts' : ~Made(i)' /\ i + 1 # 1
    BY <1>2, <2>3
  <2>5. \A i \in DOMAIN evts' : ~Registered(i)'
    BY <1>2, <2>1, <2>3 DEF IInv, Course, Search
  <2>6. \A l \in Links : link[l] = "device" => l = c
    BY <2>1, <2>3, PbAssumption DEF IInv, Watched
  <2>7. Watched'
    BY <1>1, <1>3, <2>3, <2>4, <2>6 DEF Watched
  <2>8. Idle' /\ Attempt' /\ Client'
    BY <1>3, <2>3, PbAssumption DEF Idle, Attempt, Client
  <2>9. Search'
    BY <1>1, <1>3, <2>1, <2>3, <2>5 DEF Search
  <2>10. \A j \in DOMAIN evts : j > 1 /\ Lost(j, c) => link[c] # "device"
    BY <1>2, <1>3, <2>1 DEF IInv, Course, Loss
  <2>11. Loss'
    <3> SUFFICES ASSUME NEW j \in DOMAIN evts', NEW l \in Links, Lost(j, l)'
                 PROVE  /\ client_idx' = l => link'[l] # "device"
                        /\ evts'[j].failed =>
                              /\ discovering' = {} /\ client_idx' = l
                              /\ \A i \in DOMAIN evts' : Lost(i, l)' => j <= i
      BY <1>3, <2>3, <2>4, <2>5 DEF Loss
    <3>1. j + 1 \in DOMAIN evts /\ Lost(j + 1, l) /\ j + 1 > 1 /\ evts'[j] = evts[j + 1] /\ j \in Nat
      BY <1>2
    <3>2. client_idx' = l => link'[l] # "device"
      BY <1>1, <1>3, <2>10, <3>1
    <3>3. ASSUME evts'[j].failed
          PROVE  l = c /\ \A i \in DOMAIN evts' : Lost(i, l)' => j <= i
      <4>1. PICK k \in DOMAIN evts :
               /\ Made(k) /\ evts[k].conidx = l
               /\ \A i \in DOMAIN evts : Lost(i, l) /\ k < i => j + 1 <= i
        BY <2>1, <2>3, <3>1, <3>3, PbAssumption DEF IInv, Course, Loss
      <4>2. k = 1 /\ l = c
        BY <2>3, <4>1
      <4>3. ASSUME NEW i \in DOMAIN evts', Lost(i, l)' PROVE j <= i
        <5>1. i \in Nat \ {0} /\ i + 1 \in DOMAIN evts /\ Lost(i + 1, l)
          BY <1>2, <4>3
        <5>2. 1 < i + 1
          BY <5>1
        <5>3. j + 1 <= i + 1
          BY <4>1, <4>2, <5>1, <5>2
        <5> QED BY <3>1, <5>1, <5>3
      <4> QED BY <4>2, <4>3
    <3>4. evts'[j].failed => discovering' = {}
      BY <1>3, <2>1, <2>3, <2>10, <3>1, <3>3
    <3> QED BY <1>3, <3>2, <3>3, <3>4
  <2> QED BY <1>4, <1>5, <2>7, <2>8, <2>9, <2>11 DEF IInv, Course
<1> QED BY <1>6, <1>7

LEMMA RegisteredKeeps ==
    ASSUME IInv, Deliver, SvcRegistered(evts[1]) PROVE IInv'
<1>1. /\ evts # <<>> /\ evts' = Tail(evts) /\ link' = link
  BY DEF Deliver
<1>2. /\ evts' \in Seq(Events) /\ evts[1] \in Events /\ 1 \in DOMAIN evts
      /\ \A i \in DOMAIN evts' :
            /\ i \in Nat \ {0} /\ i + 1 \in DOMAIN evts /\ evts'[i] = evts[i + 1]
            /\ Made(i)' = Made(i + 1) /\ Registered(i)' = Registered(i + 1)
            /\ \A l \in Links : Lost(i, l)' = Lost(i + 1, l)
      /\ \A i \in DOMAIN evts : i # 1 =>
            i - 1 \in DOMAIN evts' /\ evts'[i - 1] = evts[i] /\ Made(i - 1)' = Made(i)
  BY <1>1, TakenTells DEF IInv
<1>3. /\ Registered(1) /\ ~Made(1) /\ \A l \in Links : ~Lost(1, l)
      /\ leaving' \subseteq leaving \cup Links
      /\ report' \in Reports /\ bearer' \in {bearer, "open"}
      /\ UNCHANGED <<discovering, client_idx, try_times, timer, trying, crossed>>
  BY DEF SvcRegistered, DisconnectReq, Tell, central, Registered, Made, Lost, Reports
<1>4. TypeOK'
  BY <1>1, <1>2, <1>3 DEF IInv, TypeOK
<1>5. Own'
  <2>1. client_idx # NoLink => client_idx \in Links
    BY DEF IInv, TypeOK
  <2>2. client_idx' # NoLink => OwnOrLost(client_idx)'
    BY <1>1, <1>3, <2>1, TakenOwn DEF IInv, Own
  <2> QED BY <1>1, <2>2, TakenOwn DEF Own
<1>6. CASE crossed
  BY <1>3, <1>4, <1>5, <1>6 DEF IInv, Watched
<1>7. CASE ~crossed
  <2>1. /\ client_idx # NoLink /\ bearer = "opening" /\ discovering = {} /\ timer = FALSE
        /\ \A i \in DOMAIN evts : Registered(i) => i = 1
    BY <1>2, <1>3, <1>7 DEF IInv, Course, Search, Client, TypeOK
  <2>2. trying = FALSE /\ \A i \in DOMAIN evts : ~Made(i)
    BY <1>7, <2>1 DEF IInv, Watched, TypeOK
  <2>3. \A i \in DOMAIN evts' : ~Made(i)' /\ ~Registered(i)'
    BY <1>2, <2>1, <2>2
  <2>4. Watched'
    BY <1>1, <1>3, <1>7, <2>1, <2>2, <2>3 DEF IInv, Watched
  <2>5. Idle' /\ Attempt' /\ Client' /\ Search'
    BY <1>3, <2>1, <2>3 DEF Idle, Attempt, Client, Search
  <2>6. \A j \in DOMAIN evts, l \in Links : Lost(j, l) =>
           ~evts[j].failed /\ (client_idx = l => link[l] # "device")
    BY <1>2, <1>3, <1>7 DEF IInv, Course, Loss
  <2>7. Loss'
    BY <1>1, <1>2, <1>3, <2>3, <2>6 DEF Loss
  <2> QED BY <1>4, <1>5, <2>4, <2>5, <2>7 DEF IInv, Course
<1> QED BY <1>6, <1>7

\* The loss of another link leaves the bearer alone.
LEMMA OtherKeeps ==
    ASSUME IInv, Deliver, pb_remote_disconnected(evts[1]), evts[1].conidx # client_idx
    PROVE  IInv'
<1>1. /\ evts # <<>> /\ evts' = Tail(evts) /\ link' = link
  BY DEF Deliver
<1>2. /\ evts' \in Seq(Events) /\ evts[1] \in Events /\ 1 \in DOMAIN evts
      /\ \A i \in DOMAIN evts' :
            /\ i \in Nat \ {0} /\ i + 1 \in DOMAIN evts /\ evts'[i] = evts[i + 1]
            /\ Made(i)' = Made(i + 1) /\ Registered(i)' = Registered(i + 1)
            /\ \A l \in Links : Lost(i, l)' = Lost(i + 1, l)
      /\ \A i \in DOMAIN evts : i # 1 =>
            /\ i \in Nat \ {0, 1} /\ i - 1 \in DOMAIN evts' /\ evts'[i - 1] = evts[i]
            /\ Made(i - 1)' = Made(i)
  BY <1>1, TakenTells DEF IInv
<1>3. /\ ~Made(1) /\ ~Registered(1) /\ ~Lost(1, client_idx)
      /\ bearer' = bearer /\ report' = "none"
      /\ UNCHANGED <<leaving, discovering, client_idx, try_times, timer, trying, crossed>>
  BY DEF pb_remote_disconnected, IsClient, Tell, central, Registered, Made, Lost
<1>4. TypeOK'
  BY <1>1, <1>2, <1>3 DEF IInv, TypeOK, Reports
<1>5. client_idx # NoLink => client_idx \in Links
  BY DEF IInv, TypeOK
<1>6. Own'
  <2>1. client_idx' # NoLink => OwnOrLost(client_idx)'
    BY <1>1, <1>3, <1>5, TakenOwn DEF IInv, Own
  <2> QED BY <1>1, <2>1, TakenOwn DEF Own
<1>7. \A i \in DOMAIN evts : Made(i) => i - 1 \in DOMAIN evts' /\ Made(i - 1)' /\ evts'[i - 1] = evts[i]
  BY <1>2, <1>3
<1>8. Watched'
  <2> SUFFICES ASSUME ~crossed PROVE Watched'
    BY <1>3 DEF Watched
  <2>1. timer <=> trying \/ \E i \in DOMAIN evts' : Made(i)'
    BY <1>2, <1>7 DEF IInv, Watched
  <2>2. \A l \in Links : link[l] = "device" =>
           client_idx = l \/ \E i \in DOMAIN evts' : Made(i)' /\ evts'[i].conidx = l
    BY <1>7 DEF IInv, Watched
  <2> QED BY <1>1, <1>3, <2>1, <2>2 DEF Watched
<1>9. ASSUME ~crossed' PROVE Course'
  <2>0. ~crossed /\ Course
    BY <1>3, <1>9 DEF IInv
  <2>1. Idle' /\ Client'
    BY <1>3, <2>0 DEF Course, Idle, Client
  <2>2. Attempt'
    <3>1. ASSUME timer, NEW i \in DOMAIN evts', NEW j \in DOMAIN evts', Made(i)'
          PROVE  ~trying /\ (Made(j)' => i = j)
      <4>1. i + 1 \in DOMAIN evts /\ j + 1 \in DOMAIN evts /\ Made(i + 1) /\ i \in Nat /\ j \in Nat
            /\ (Made(j)' => Made(j + 1))
        BY <1>2, <3>1
      <4>2. ~trying /\ (Made(j + 1) => i + 1 = j + 1)
        BY <2>0, <3>1, <4>1 DEF Course, Attempt
      <4> QED BY <4>1, <4>2
    <3> QED BY <1>3, <2>0, <3>1 DEF Course, Attempt
  <2>3. Search'
    <3>1. \A l \in discovering : /\ l = client_idx /\ link[l] = "device" /\ bearer = "opening"
                                 /\ \A i \in DOMAIN evts' : ~Registered(i)'
      BY <1>2, <2>0 DEF Course, Search
    <3>2. ASSUME NEW i \in DOMAIN evts', Registered(i)'
          PROVE  /\ client_idx # NoLink /\ bearer = "opening" /\ discovering = {}
                 /\ \A j \in DOMAIN evts' : /\ Registered(j)' => i = j
                                            /\ Lost(j, client_idx)' => i < j
      <4>1. i + 1 \in DOMAIN evts /\ Registered(i + 1) /\ i \in Nat
        BY <1>2, <3>2
      <4>2. client_idx # NoLink /\ bearer = "opening" /\ discovering = {}
        BY <2>0, <4>1 DEF Course, Search
      <4>3. ASSUME NEW j \in DOMAIN evts'
            PROVE  (Registered(j)' => i = j) /\ (Lost(j, client_idx)' => i < j)
        <5>1. /\ j + 1 \in DOMAIN evts /\ j \in Nat /\ Registered(j)' = Registered(j + 1)
              /\ Lost(j, client_idx)' = Lost(j + 1, client_idx)
          BY <1>2, <1>3, <1>5, <4>2
        <5>2. (Registered(j + 1) => i + 1 = j + 1) /\ (Lost(j + 1, client_idx) => i + 1 < j + 1)
          BY <2>0, <4>1, <5>1 DEF Course, Search
        <5> QED BY <4>1, <5>1, <5>2
      <4> QED BY <4>2, <4>3
    <3> QED BY <1>1, <1>3, <3>1, <3>2 DEF Search
  <2>4. Loss'
    <3> SUFFICES ASSUME NEW j \in DOMAIN evts', NEW l \in Links, Lost(j, l)'
                 PROVE  /\ client_idx = l => link[l] # "device"
                        /\ \A i \in DOMAIN evts' : Made(i)' /\ evts'[i].conidx = l /\ i < j
                              => link[l] # "device"
                        /\ evts'[j].failed =>
                              /\ bearer = "opening" /\ discovering = {}
                              /\ \A i \in DOMAIN evts' : ~Registered(i)'
                              /\ \/ client_idx = l /\ \A i \in DOMAIN evts' : Lost(i, l)' => j <= i
                                 \/ \E k \in DOMAIN evts' :
                                       /\ Made(k)' /\ evts'[k].conidx = l /\ k < j
                                       /\ \A i \in DOMAIN evts' : Lost(i, l)' /\ k < i => j <= i
      BY <1>1, <1>3 DEF Loss
    <3>1. j + 1 \in DOMAIN evts /\ Lost(j + 1, l) /\ evts'[j] = evts[j + 1] /\ j \in Nat
      BY <1>2
    <3>2. client_idx = l => link[l] # "device"
      BY <2>0, <3>1 DEF Course, Loss
    <3>3. ASSUME NEW i \in DOMAIN evts', Made(i)', evts'[i].conidx = l, i < j
          PROVE  link[l] # "device"
      <4>1. i + 1 \in DOMAIN evts /\ Made(i + 1) /\ evts[i + 1].conidx = l /\ i \in Nat
        BY <1>2, <3>3
      <4>2. i + 1 < j + 1
        BY <3>1, <3>3, <4>1
      <4> QED BY <2>0, <3>1, <4>1, <4>2 DEF Course, Loss
    <3>4. ASSUME evts'[j].failed
          PROVE  /\ bearer = "opening" /\ discovering = {}
                 /\ \A i \in DOMAIN evts' : ~Registered(i)'
                 /\ \/ client_idx = l /\ \A i \in DOMAIN evts' : Lost(i, l)' => j <= i
                    \/ \E k \in DOMAIN evts' :
                          /\ Made(k)' /\ evts'[k].conidx = l /\ k < j
                          /\ \A i \in DOMAIN evts' : Lost(i, l)' /\ k < i => j <= i
      <4>1. /\ bearer = "opening" /\ discovering = {} /\ \A i \in DOMAIN evts : ~Registered(i)
            /\ \/ client_idx = l /\ \A i \in DOMAIN evts : Lost(i, l) => j + 1 <= i
               \/ \E k \in DOMAIN evts :
                     /\ Made(k) /\ evts[k].conidx = l /\ k < j + 1
                     /\ \A i \in DOMAIN evts : Lost(i, l) /\ k < i => j + 1 <= i
        BY <2>0, <3>1, <3>4 DEF Course, Loss
      <4>2. \A i \in DOMAIN evts' : ~Registered(i)'
        BY <1>2, <4>1
      <4>3. CASE client_idx = l /\ \A i \in DOMAIN evts : Lost(i, l) => j + 1 <= i
        <5>1. ASSUME NEW i \in DOMAIN evts', Lost(i, l)' PROVE j <= i
          <6>1. i + 1 \in DOMAIN evts /\ Lost(i + 1, l) /\ i \in Nat
            BY <1>2, <5>1
          <6>2. j + 1 <= i + 1
            BY <4>3, <6>1
          <6> QED BY <3>1, <6>1, <6>2
        <5> QED BY <4>1, <4>2, <4>3, <5>1
      <4>4. CASE \E k \in DOMAIN evts :
                    /\ Made(k) /\ evts[k].conidx = l /\ k < j + 1
                    /\ \A i \in DOMAIN evts : Lost(i, l) /\ k < i => j + 1 <= i
        <5>1. PICK k \in DOMAIN evts :
                 /\ Made(k) /\ evts[k].conidx = l /\ k < j + 1
                 /\ \A i \in DOMAIN evts : Lost(i, l) /\ k < i => j + 1 <= i
          BY <4>4
        <5>2. /\ k \in Nat \ {0, 1} /\ k - 1 \in DOMAIN evts' /\ evts'[k - 1] = evts[k]
              /\ Made(k - 1)'
          BY <1>2, <1>3, <5>1
        <5>3. k - 1 < j
          BY <3>1, <5>1, <5>2
        <5>4. ASSUME NEW i \in DOMAIN evts', Lost(i, l)', k - 1 < i PROVE j <= i
          <6>1. i + 1 \in DOMAIN evts /\ Lost(i + 1, l) /\ i \in Nat
            BY <1>2, <5>4
          <6>2. k < i + 1
            BY <5>2, <5>4, <6>1
          <6>3. j + 1 <= i + 1
            BY <5>1, <6>1, <6>2
          <6> QED BY <3>1, <6>1, <6>3
        <5> QED BY <4>1, <4>2, <5>1, <5>2, <5>3, <5>4
      <4> QED BY <4>1, <4>3, <4>4
    <3> QED BY <3>2, <3>3, <3>4
  <2> QED BY <2>1, <2>2, <2>3, <2>4 DEF Course
<1> QED BY <1>4, <1>6, <1>8, <1>9 DEF IInv

\* The loss of the bearer's own connection: it is tried again or reported, and
\* nothing is left under way.
LEMMA OwnKeeps ==
    ASSUME IInv, Deliver, pb_remote_disconnected(evts[1]), evts[1].conidx = client_idx
    PROVE  IInv'
<1>1. /\ evts # <<>> /\ evts' = Tail(evts) /\ link' = link
  BY DEF Deliver
<1>2. /\ evts' \in Seq(Events) /\ evts[1] \in Events /\ 1 \in DOMAIN evts
      /\ \A i \in DOMAIN evts' :
            /\ i \in Nat \ {0} /\ i + 1 \in DOMAIN evts /\ evts'[i] = evts[i + 1]
            /\ Made(i)' = Made(i + 1) /\ Registered(i)' = Registered(i + 1)
            /\ \A l \in Links : Lost(i, l)' = Lost(i + 1, l)
  BY <1>1, TakenTells DEF IInv
<1> PICK c \in Links : c = evts[1].conidx
  BY <1>2 DEF Events
<1>3. /\ Lost(1, c) /\ client_idx = c /\ client_idx' = NoLink
      /\ UNCHANGED <<leaving, discovering, crossed>>
      /\ \/ /\ evts[1].failed /\ try_times <= TryMax /\ try_times' = try_times + 1
            /\ timer' = TRUE /\ trying' = TRUE /\ bearer' = bearer /\ report' = "none"
         \/ /\ bearer' = "none" /\ report' = "closed"
            /\ UNCHANGED <<try_times, timer, trying>>
  BY DEF pb_remote_disconnected, IsClient, NoClient, Retry, StartConn, Tell, Lost
<1>4. TypeOK'
  <2>1. try_times' \in 0 .. TryMax + 1
    BY <1>3, PbAssumption DEF IInv, TypeOK
  <2> QED BY <1>1, <1>2, <1>3, <2>1 DEF IInv, TypeOK, Reports
<1>5. Own'
  BY <1>1, <1>3, TakenOwn DEF Own
<1>6. CASE crossed
  BY <1>3, <1>4, <1>5, <1>6 DEF IInv, Watched
<1>7. CASE ~crossed
  <2>1. bearer # "none" /\ timer = FALSE
    BY <1>3, <1>7, PbAssumption DEF IInv, Course, Client, TypeOK
  <2>2. trying = FALSE /\ \A i \in DOMAIN evts : ~Made(i)
    BY <1>7, <2>1 DEF IInv, Watched, TypeOK
  <2>3. \A l \in Links : link[l] # "device"
    BY <1>2, <1>3, <1>7, <2>2 DEF IInv, Watched, Course, Loss
  <2>4. discovering = {}
    BY <1>7, <2>3 DEF IInv, TypeOK, Course, Search
  <2>5. \A i \in DOMAIN evts : ~Registered(i)
    <3>1. \A i \in DOMAIN evts : Registered(i) => i < 1
      BY <1>2, <1>3, <1>7 DEF IInv, Course, Search
    <3>2. Lost(1, c) => ~Registered(1)
      BY DEF Lost, Registered
    <3>3. \A i \in DOMAIN evts' : ~Registered(i + 1)
      BY <1>2, <3>1
    <3>4. \A i \in DOMAIN evts : i \in Nat /\ i # 0
      BY <1>1, TakenTells DEF IInv
    <3> QED BY <1>3, <3>1, <3>4
  <2>6. evts[1].failed => bearer = "opening"
    BY <1>2, <1>3, <1>7 DEF IInv, Course, Loss
  <2>7. ASSUME NEW j \in DOMAIN evts, j # 1, NEW l \in Links, Lost(j, l) PROVE ~evts[j].failed
    <3>1. j \in Nat /\ j > 1
      BY <1>1, <2>7, TakenTells DEF IInv
    <3>2. evts[j].failed => client_idx = l /\ \A i \in DOMAIN evts : Lost(i, l) => j <= i
      BY <1>7, <2>2, <2>7 DEF IInv, Course, Loss
    <3> QED BY <1>2, <1>3, <3>1, <3>2
  <2>8. \A i \in DOMAIN evts' : /\ ~Made(i)' /\ ~Registered(i)'
                                /\ \A l \in Links : Lost(i, l)' => ~evts'[i].failed
    <3>1. \A i \in DOMAIN evts' : i + 1 # 1
      BY <1>2
    <3> QED BY <1>2, <2>2, <2>5, <2>7, <3>1
  <2>9. timer' = trying' /\ (timer' => bearer' = "opening") /\ (~timer' => bearer' = "none")
    BY <1>3, <2>1, <2>2, <2>6
  <2>10. Watched'
    BY <1>1, <2>3, <2>8, <2>9 DEF Watched
  <2>11. Idle' /\ Attempt' /\ Client' /\ Search'
    BY <1>3, <2>4, <2>8, <2>9 DEF Idle, Attempt, Client, Search
  <2>12. Loss'
    BY <1>1, <1>3, <2>3, <2>8 DEF Loss
  <2> QED BY <1>4, <1>5, <2>10, <2>11, <2>12 DEF IInv, Course
<1> QED BY <1>6, <1>7

LEMMA DeliverKeeps ==
    ASSUME IInv, Deliver PROVE IInv'
<1>1. Head(evts) = evts[1]
  BY TakenTells DEF Deliver, IInv
<1> QED BY <1>1, ConnectedKeeps, RegisteredKeeps, OtherKeeps, OwnKeeps DEF Deliver

-----------------------------------------------------------------------------
LEMMA Steps == IInv /\ [Next]_vars => IInv'
<1> SUFFICES ASSUME IInv, [Next]_vars PROVE IInv'
  OBVIOUS
<1>1. CASE pb_remote_gatt_create \/ pb_remote_gatt_close \/ pb_remote_connect_timeout \/ Deliver
  BY <1>1, CreateKeeps, CloseKeeps, TimeoutKeeps, DeliverKeeps
<1>2. ASSUME NEW l \in Links, Connects(l) \/ SlaveConnect(l) PROVE IInv'
  BY <1>2, ConnectsKeeps, SlaveConnectKeeps
<1>3. ASSUME NEW l \in Links, NEW failed \in BOOLEAN, Discovered(l, failed) \/ LinkEnds(l, failed)
      PROVE  IInv'
  BY <1>3, DiscoveredKeeps, LinkEndsKeeps
<1>4. CASE UNCHANGED vars
  BY <1>4 DEF vars, layer, central, IInv, TypeOK, Own, OwnOrLost, LossUnderWay, Watched, Course,
     Idle, Attempt, Client, Search, Loss, Made, Registered, Lost
<1> QED BY <1>1, <1>2, <1>3, <1>4 DEF Next

\* Timer, attempt, links, events under way and the stack's view of the bearer
\* agree in every state, for any number of links, of tries and of events.
THEOREM Inductive == Spec => []IInv
BY Begins, Steps, PTL DEF Spec

\* Only the bearer's index is ever asked to end.
LEMMA AsksClient ==
    ASSUME IInv, Next, NEW l \in leaving' \ leaving PROVE client_idx = l /\ l \in Links
<1> USE DEF DisconnectReq
<1>1. CASE pb_remote_gatt_create \/ pb_remote_gatt_close \/ pb_remote_connect_timeout
  BY <1>1 DEF pb_remote_gatt_create, pb_remote_gatt_close, pb_remote_connect_timeout
<1>2. CASE Deliver
  BY <1>2 DEF Deliver, pb_remote_connected, SvcRegistered, pb_remote_disconnected
<1>3. ASSUME NEW m \in Links, NEW failed \in BOOLEAN,
             Connects(m) \/ SlaveConnect(m) \/ Discovered(m, failed) \/ LinkEnds(m, failed)
      PROVE  leaving' \subseteq leaving
  BY <1>3 DEF Connects, SlaveConnect, Discovered, LinkEnds
<1> QED BY <1>1, <1>2, <1>3 DEF Next

\* gap_disconnect_req is only ever asked to end a connection to a device, or what
\* has its index while its loss is still to be reported.
THEOREM OnlyOwnAlways == Spec => OnlyOwn
<1>1. ASSUME IInv, [Next]_vars PROVE [\A l \in leaving' \ leaving : OwnOrLost(l)]_vars
  BY <1>1, AsksClient, PbAssumption DEF IInv, Own
<1> QED BY <1>1, Inductive, PTL DEF Spec, OnlyOwn

\* Unless a connection has crossed its time-out, the timer watches exactly the
\* attempts, and there is no connection but the bearer's.
THEOREM WatchedAlways == Spec => []Watched
<1>1. IInv => Watched
  BY DEF IInv
<1> QED BY <1>1, Inductive, PTL

LEMMA StepFits ==
    ASSUME IInv, Next, ~crossed' PROVE Fits
<1> USE DEF IInv, Fits, Course
<1>1. CASE pb_remote_gatt_create \/ pb_remote_gatt_close
  BY <1>1 DEF pb_remote_gatt_create, pb_remote_gatt_close, Tell
<1>2. CASE pb_remote_connect_timeout
  BY <1>2 DEF pb_remote_connect_timeout, Tell, Attempt
<1>3. ASSUME NEW l \in Links, NEW failed \in BOOLEAN,
             Connects(l) \/ SlaveConnect(l) \/ Discovered(l, failed) \/ LinkEnds(l, failed)
      PROVE  Fits
  BY <1>3 DEF Connects, SlaveConnect, Discovered, LinkEnds, Tell
<1>4. CASE Deliver
  <2>1. Head(evts) = evts[1] /\ 1 \in DOMAIN evts /\ evts[1].conidx \in Links
    BY <1>4, TakenTells, EventTypes DEF Deliver
  <2>2. CASE pb_remote_connected(evts[1])
    BY <2>2 DEF pb_remote_connected, Tell
  <2>3. CASE SvcRegistered(evts[1])
    <3>1. Registered(1) /\ ~crossed
      BY <2>3 DEF SvcRegistered, Registered
    <3> QED BY <2>1, <2>3, <3>1 DEF SvcRegistered, Tell, Search
  <2>4. CASE pb_remote_disconnected(evts[1])
    <3>1. ~crossed /\ (client_idx # NoLink => bearer # "none")
      BY <2>4 DEF pb_remote_disconnected, Client
    <3> QED BY <2>1, <2>4, <3>1, PbAssumption DEF pb_remote_disconnected, IsClient, Tell
  <2> QED BY <1>4, <2>1, <2>2, <2>3, <2>4 DEF Deliver
<1> QED BY <1>1, <1>2, <1>3, <1>4 DEF Next

\* Unless a connection has crossed its time-out, every report answers what the
\* stack asked.
THEOREM ReportsFitAlways == Spec => ReportsFit
<1>1. ASSUME IInv, [Next]_vars PROVE [~crossed' => Fits]_vars
  BY <1>1, StepFits
<1> QED BY <1>1, Inductive, PTL DEF Spec, ReportsFit

-----------------------------------------------------------------------------
\* The bearer under the data is the bearer: all that is proved of it holds here.
THEOREM DataKeepsBearer == DataSpec => Spec
<1>1. DataInit => Init
  BY DEF DataInit
<1>2. [DataNext]_dvars => [Next]_vars
  BY DEF DataNext, dvars, pb_remote_gatt_send, WriteCompleted, DropsWrites, Carries, Next
<1> QED BY <1>1, <1>2, PTL DEF DataSpec, Spec

\* The last number noted is the one of a write that is alone in flight.
Noted ==
    /\ flight \in [Links -> Seq(Writes)]
    /\ \A l \in Links : \A i \in DOMAIN flight[l] :
           flight[l][i].alone => flight[l][i].seq = pb_remote_last_out_seq

DataInv == Noted /\ Named

LEMMA TogetherTypes ==
    ASSUME NEW writes \in Seq(Writes)
    PROVE  /\ Together(writes) \in Seq(Writes)
           /\ \A i \in DOMAIN Together(writes) : ~Together(writes)[i].alone
<1>1. \A i \in DOMAIN writes : writes[i] \in Writes
  OBVIOUS
<1>2. \A i \in DOMAIN writes : /\ [writes[i] EXCEPT !.alone = FALSE] \in Writes
                               /\ ~[writes[i] EXCEPT !.alone = FALSE].alone
  BY <1>1 DEF Writes
<1>3. Len(writes) \in Nat /\ DOMAIN writes = 1 .. Len(writes)
  OBVIOUS
<1>4. Together(writes) \in [1 .. Len(writes) -> Writes]
  BY <1>2, <1>3 DEF Together
<1>5. Together(writes) \in Seq(Writes)
  BY <1>3, <1>4, SeqDef
<1>6. DOMAIN Together(writes) = DOMAIN writes
  BY DEF Together
<1>7. ASSUME NEW i \in DOMAIN Together(writes)
      PROVE  ~Together(writes)[i].alone
  <2>1. i \in DOMAIN writes
    BY <1>6
  <2>2. Together(writes)[i] = [writes[i] EXCEPT !.alone = FALSE]
    BY <2>1 DEF Together
  <2> QED BY <1>2, <2>1, <2>2
<1> QED BY <1>5, <1>7

LEMMA SendKeeps ==
    ASSUME DataInv, NEW s \in Seqs, pb_remote_gatt_send(s) PROVE DataInv'
<1> DEFINE write == [seq |-> s, alone |-> \A l \in Links : flight[l] = <<>>]
<1>1. write \in Writes
  BY DEF Writes
<1>2. \A l \in Links : /\ Together(flight[l]) \in Seq(Writes)
                       /\ \A i \in DOMAIN Together(flight[l]) : ~Together(flight[l])[i].alone
  BY TogetherTypes DEF DataInv, Noted
<1>3. /\ pb_remote_last_out_seq' = s /\ misnamed' = misnamed
      /\ flight' = [l \in Links |-> IF l = client_idx /\ link[l] # "none"
                                     THEN Append(Together(flight[l]), write)
                                     ELSE Together(flight[l])]
  BY DEF pb_remote_gatt_send, NumberNoted
<1> DEFINE t(l) == Together(flight[l])
<1>4. ASSUME NEW l \in Links
      PROVE  /\ flight'[l] \in Seq(Writes)
             /\ \A i \in DOMAIN flight'[l] : flight'[l][i].alone => flight'[l][i].seq = s
  <2>1. t(l) \in Seq(Writes) /\ \A i \in DOMAIN t(l) : ~t(l)[i].alone
    BY <1>2
  <2>2. flight'[l] \in {Append(t(l), write), t(l)}
    BY <1>3
  <2>3. write.seq = s
    OBVIOUS
  <2> HIDE DEF t, write
  <2>4. CASE flight'[l] = t(l)
    BY <2>1, <2>4
  <2>5. CASE flight'[l] = Append(t(l), write)
    <3>1. Append(t(l), write) \in Seq(Writes)
      BY <1>1, <2>1
    <3>2. ASSUME NEW i \in DOMAIN Append(t(l), write)
          PROVE  \/ i \in DOMAIN t(l) /\ Append(t(l), write)[i] = t(l)[i]
                 \/ Append(t(l), write)[i] = write
      BY <1>1, <2>1
    <3> QED BY <2>1, <2>3, <2>5, <3>1, <3>2
  <2> QED BY <2>2, <2>4, <2>5
<1>5. flight' \in [Links -> Seq(Writes)]
  BY <1>3, <1>4
<1> QED BY <1>3, <1>4, <1>5 DEF DataInv, Noted, Named

LEMMA CompletedKeeps ==
    ASSUME DataInv, NEW l \in Links, WriteCompleted(l) PROVE DataInv'
<1>1. flight[l] \in Seq(Writes) /\ flight[l] # <<>>
  BY DEF DataInv, Noted, WriteCompleted
<1>2. /\ flight'[l] = Tail(flight[l]) /\ flight' \in [Links -> Seq(Writes)]
      /\ \A m \in Links : m # l => flight'[m] = flight[m]
      /\ pb_remote_last_out_seq' = pb_remote_last_out_seq
  BY <1>1 DEF DataInv, Noted, WriteCompleted
<1>3. \A i \in DOMAIN Tail(flight[l]) :
         i + 1 \in DOMAIN flight[l] /\ Tail(flight[l])[i] = flight[l][i + 1]
  BY <1>1
<1>4. ASSUME NEW m \in Links, NEW i \in DOMAIN flight'[m], flight'[m][i].alone
      PROVE  flight'[m][i].seq = pb_remote_last_out_seq'
  <2>1. CASE m = l
    <3>1. i \in DOMAIN Tail(flight[l]) /\ flight'[m][i] = Tail(flight[l])[i]
      BY <1>2, <1>4, <2>1
    <3>2. i + 1 \in DOMAIN flight[l] /\ flight'[m][i] = flight[l][i + 1]
      BY <1>3, <3>1
    <3> QED BY <1>2, <1>4, <3>2 DEF DataInv, Noted
  <2>2. CASE m # l
    BY <1>2, <1>4, <2>2 DEF DataInv, Noted
  <2> QED BY <2>1, <2>2
<1>5. Named'
  <2>1. 1 \in DOMAIN flight[l] /\ Head(flight[l]) = flight[l][1]
    BY <1>1
  <2>2. Head(flight[l]).alone => Head(flight[l]).seq = pb_remote_last_out_seq
    BY <2>1 DEF DataInv, Noted
  <2> QED BY <2>2 DEF WriteCompleted, Named
<1> QED BY <1>2, <1>4, <1>5 DEF DataInv, Noted

LEMMA DropsKeeps ==
    ASSUME DataInv, NEW l \in Links, DropsWrites(l) PROVE DataInv'
<1>1. PICK n \in 0 .. Len(flight[l]) : flight' = [flight EXCEPT ![l] = SubSeq(flight[l], 1, n)]
  BY DEF DropsWrites
<1>2. flight[l] \in Seq(Writes) /\ Len(flight[l]) \in Nat /\ DOMAIN flight[l] = 1 .. Len(flight[l])
  BY LenProperties DEF DataInv, Noted
<1>3. /\ SubSeq(flight[l], 1, n) \in Seq(Writes)
      /\ \A i \in DOMAIN SubSeq(flight[l], 1, n) :
            i \in DOMAIN flight[l] /\ SubSeq(flight[l], 1, n)[i] = flight[l][i]
  BY <1>2
<1>4. /\ flight' \in [Links -> Seq(Writes)] /\ flight'[l] = SubSeq(flight[l], 1, n)
      /\ \A m \in Links : m # l => flight'[m] = flight[m]
  BY <1>1, <1>3 DEF DataInv, Noted
<1>5. UNCHANGED <<pb_remote_last_out_seq, misnamed>>
  BY DEF DropsWrites
<1>6. ASSUME NEW m \in Links, NEW i \in DOMAIN flight'[m], flight'[m][i].alone
      PROVE  flight'[m][i].seq = pb_remote_last_out_seq'
  <2>1. i \in DOMAIN flight[m] /\ flight'[m][i] = flight[m][i]
    BY <1>3, <1>4, <1>6
  <2> QED BY <1>5, <1>6, <2>1 DEF DataInv, Noted
<1> QED BY <1>4, <1>5, <1>6 DEF DataInv, Noted, Named

LEMMA DataSteps == DataInv /\ [DataNext]_dvars => DataInv'
<1> SUFFICES ASSUME DataInv, [DataNext]_dvars PROVE DataInv'
  OBVIOUS
<1>1. CASE UNCHANGED data
  BY <1>1 DEF data, DataInv, Noted, Named
<1> QED BY <1>1, SendKeeps, CompletedKeeps, DropsKeeps DEF DataNext, Carries, dvars

\* A write that is awaited before the next is confirmed by its own number.
THEOREM NamedAlways == DataSpec => []Named
<1>1. DataInit => DataInv
  BY DEF DataInit, DataInv, Noted, Named
<1>2. DataInv => Named
  BY DEF DataInv
<1> QED BY <1>1, <1>2, DataSteps, PTL DEF DataSpec
=============================================================================
