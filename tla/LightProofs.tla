---------------------------- MODULE LightProofs ----------------------------
(***************************************************************************)
(* The node and the lamp on it, for every value of the constants: what may *)
(* erase the stored network; that the lamp obeys and can show what it is   *)
(* asked for, for any durations, levels, temperatures and colours.         *)
(***************************************************************************)
EXTENDS Light, NodeProps, TLAPS

-----------------------------------------------------------------------------
(* The node: the invariants of NodeProps *)

\* The durations are positive, and Quick short boots can be counted.
LEMMA Durations ==
    /\ Threshold \in Nat /\ Threshold > 0
    /\ StoreDelay \in Nat /\ StoreDelay > 0
    /\ ProvTime \in Nat /\ ProvTime > 0
    /\ Quick \in Nat /\ Quick > 0
    /\ CntMod \in Nat /\ Quick < CntMod
    /\ Off = -1
BY NodeAssumption DEF Off

\* A bounded sum stays in its bounds.
LEMMA AtMostBounds ==
    ASSUME NEW n \in Nat, NEW limit \in Nat
    PROVE  /\ AtMost(n, limit) \in 0 .. limit
           /\ AtMost(n, limit) <= n
           /\ n <= limit => AtMost(n, limit) = n
           /\ n > limit => AtMost(n, limit) = limit
BY DEF AtMost

\* The node as it leaves the factory.
LEMMA Begins == Init => IInv
<1> SUFFICES ASSUME Init PROVE IInv
  OBVIOUS
<1>1. TypeOK
  <2>1. info \in Nets /\ net \in Nets /\ cause \in Causes
    BY DEF Init, Nets, Causes
  <2>2. led \in Timers(1) /\ store \in Timers(StoreDelay) /\ prov \in Timers(ProvTime)
    BY DEF Init, Timers
  <2>3. 0 \in 0 .. CntMod - 1 /\ 0 \in 0 .. Threshold + 1 /\ 0 \in 0 .. Quick /\ 0 \in 0 .. 2
    BY Durations
  <2> QED BY <2>1, <2>2, <2>3 DEF Init, TypeOK
<1>2. Counted
  BY Durations DEF Init, Counted
<1>3. LedRuns /\ Known /\ Flushed /\ Blinks /\ BoundIsShown
  BY Durations DEF Init, LedRuns, Known, Flushed, Blinks, BoundIsShown
<1> QED BY <1>1, <1>2, <1>3 DEF IInv

\* A restart, for whatever reason, keeps the invariant: the counter in RAM is
\* read back from the flash, and this boot's count becomes the history's.
LEMMA RestartKeeps ==
    ASSUME IInv, NEW why \in Causes, NEW i \in Nets, Restart(why, i)
    PROVE  IInv'
<1> USE Durations DEF IInv
<1>1. TypeOK'
  <2>1. AtMost(brief + 1, Quick) \in 0 .. Quick
    <3>1. brief + 1 \in Nat
      BY DEF TypeOK
    <3> QED BY <3>1, AtMostBounds
  <2>2. brief' \in 0 .. Quick /\ residue' \in 0 .. CntMod - 1
    BY <2>1 DEF Restart, TypeOK
  <2>3. info' \in Nets /\ net' \in Nets
    BY DEF Restart, Nets
  <2>4. stored' \in 0 .. CntMod - 1 /\ count' \in 0 .. CntMod - 1
    BY DEF Restart, TypeOK
  <2>5. led' \in Timers(1) /\ store' \in Timers(StoreDelay) /\ prov' \in Timers(ProvTime)
    BY DEF Restart, Timers
  <2>6. 0 \in 0 .. Threshold + 1 /\ 0 \in 0 .. 2
    OBVIOUS
  <2> QED BY <2>2, <2>3, <2>4, <2>5, <2>6 DEF Restart, TypeOK
<1>2. Counted'
  <2>1. (step' = 0 <=> time' = 0) /\ (~refused' => stored' = count') /\ (step' = 0 => ~refused') /\ (time' > Threshold => count' = 0)
    BY DEF Restart
  <2>2. ASSUME brief' < Quick PROVE stored' <= residue' + brief' + (IF step' = 0 THEN 0 ELSE 1)
    <3>1. CASE time > Threshold
      <4>1. brief' = 0 /\ residue' = (IF refused THEN stored ELSE 0) /\ stored' = stored /\ step' = 0
        BY <3>1 DEF Restart
      <4>2. ~refused => stored = 0
        BY <3>1 DEF Counted
      <4> QED BY <4>1, <4>2 DEF TypeOK
    <3>2. CASE ~(time > Threshold)
      <4>1. brief' = AtMost(brief + 1, Quick) /\ residue' = residue /\ stored' = stored /\ step' = 0
        BY <3>2 DEF Restart
      <4>2. brief \in Nat /\ brief + 1 < Quick /\ brief' = brief + 1
        BY <4>1, <2>2, AtMostBounds DEF TypeOK, AtMost
      <4>3. stored <= residue + brief + (IF step = 0 THEN 0 ELSE 1)
        BY <3>2, <4>2 DEF Counted, TypeOK
      <4> QED BY <4>1, <4>2, <4>3 DEF TypeOK
    <3> QED BY <3>1, <3>2
  <2> QED BY <2>1, <2>2 DEF Counted
<1>3. LedRuns' /\ Known' /\ Flushed' /\ Blinks' /\ BoundIsShown'
  BY DEF Restart, LedRuns, Known, Flushed, Blinks, BoundIsShown
<1> QED BY <1>1, <1>2, <1>3

\* The LED timer counts the boot once, and forgets it after Threshold.
LEMMA LedTimeoutKeeps == ASSUME IInv, LedTimeout PROVE IInv'
<1> USE Durations DEF IInv
<1> DEFINE t == AtMost(time + 1, Threshold + 1)
<1>0. /\ time \in 0 .. Threshold + 1 /\ t \in 0 .. Threshold + 1 /\ t > 0 /\ t >= time
      /\ time <= Threshold => t = time + 1
      /\ t > Threshold => time >= Threshold
  BY AtMostBounds DEF TypeOK, AtMost
<1>1. /\ time' = t /\ led = 0
      /\ led' = IF LedEnds(config, step') THEN Off ELSE 1
      /\ UNCHANGED <<info, net, dirty, phase, inNetwork, config, store, prov, cause, brief, residue>>
  BY DEF LedTimeout, history
<1>2. /\ step' \in 0 .. 2 /\ count' \in 0 .. CntMod - 1
      /\ stored' \in 0 .. CntMod - 1 /\ refused' \in BOOLEAN
      /\ step' # 0 /\ (~refused' => stored' = count')
      /\ t > Threshold => count' = 0
      /\ t <= Threshold /\ brief < Quick => stored' <= residue + brief + 1
      /\ step' = 2 => t > Threshold
  <2>1. CASE CountBoot(t) /\ Count
    <3>1. step = 0 /\ t = 1 /\ step' = 1 /\ count' = (count + 1) % CntMod /\ KvSet(count')
      BY <2>1 DEF CountBoot, Count
    <3>2. stored = count /\ ~refused /\ time = 0
      BY <3>1 DEF Counted
    <3>3. count' \in 0 .. CntMod - 1 /\ count' <= count + 1
      BY <3>1 DEF TypeOK
    <3>4. brief < Quick => stored <= residue + brief
      BY <3>1, <3>2, <1>0 DEF Counted, TypeOK
    <3>5. stored' \in {stored, count'} /\ refused' \in BOOLEAN /\ (~refused' => stored' = count')
      BY <3>1 DEF KvSet
    <3> QED BY <3>1, <3>2, <3>3, <3>4, <3>5 DEF TypeOK
  <2>2. CASE ForgetBoot(t) /\ Forget
    <3>1. t > Threshold /\ step' = 2 /\ count' = 0 /\ KvSet(0)
      BY <2>2 DEF ForgetBoot, Forget
    <3>2. /\ stored' \in {stored, 0} /\ refused' \in BOOLEAN
          /\ ~refused' => stored' = 0
      BY <3>1 DEF KvSet
    <3>3. 0 \in 0 .. CntMod - 1 /\ stored \in 0 .. CntMod - 1
      BY DEF TypeOK
    <3>4. ~(t <= Threshold)
      BY <3>1, <1>0
    <3> QED BY <3>1, <3>2, <3>3, <3>4
  <2>3. CASE ~CountBoot(t) /\ ~ForgetBoot(t) /\ UNCHANGED <<step, count, stored, refused>>
    <3>1. step # 0
      BY <2>3, <1>0 DEF CountBoot, Counted
    <3>2. t > Threshold => count = 0
      BY <2>3 DEF ForgetBoot
    <3>3. step = 2 => t > Threshold
      BY <1>0 DEF LedRuns
    <3> QED BY <2>3, <3>1, <3>2, <3>3, <1>0 DEF Counted, TypeOK
  <2> QED BY <2>1, <2>2, <2>3 DEF LedTimeout
<1>3. TypeOK'
  BY <1>0, <1>1, <1>2 DEF TypeOK, Timers
<1>4. Counted'
  BY <1>0, <1>1, <1>2 DEF Counted
<1>5. LedRuns'
  <2>1. phase # "started" => time <= Threshold /\ time < Threshold
    BY <1>1 DEF LedRuns
  <2> QED BY <1>0, <1>1, <1>2, <2>1 DEF LedRuns, LedEnds
<1>6. Known' /\ Flushed' /\ Blinks' /\ BoundIsShown'
  BY <1>1 DEF Known, Flushed, Blinks, BoundIsShown, LedEnds
<1> QED BY <1>3, <1>4, <1>5, <1>6

\* An event of the stack starts at most a delayed store and changes the status.
LEMMA EventsKeep ==
    ASSUME IInv, Ready \/ InNetwork \/ Started \/ ProvResult
    PROVE  IInv'
<1> USE Durations DEF IInv, history, counter
<1>1. CASE Ready
  BY <1>1 DEF Ready, TypeOK, Counted, LedRuns, Known, Flushed, Blinks, BoundIsShown
<1>2. CASE InNetwork
  BY <1>2 DEF InNetwork, TypeOK, Counted, LedRuns, Known, Flushed, Blinks, BoundIsShown
<1>3. CASE Started
  <2>1. config' \in {0, 1} /\ (net = "bound" => config' = config) /\ led # Off
    BY <1>3 DEF Started, TypeOK, LedRuns
  <2> QED BY <1>3, <2>1 DEF Started, TypeOK, Counted, LedRuns, Known, Flushed, Blinks, BoundIsShown
<1>4. CASE ProvResult
  BY <1>4 DEF ProvResult, TypeOK, Nets, Timers, Counted, LedRuns, Known, Flushed, Blinks, BoundIsShown
<1> QED BY <1>1, <1>2, <1>3, <1>4

\* A change of the network information starts the delayed store anew.
LEMMA UpdateKeeps == ASSUME IInv, Update PROVE IInv'
<1> USE Durations DEF IInv, history, counter
<1>1. PICK type \in {"OTHER", "SUBS_LIST", "BINDING"} : UpdateInd(type)
  BY DEF Update
<1>2. TypeOK'
  <2>1. net' \in Nets /\ config' \in {0, 1}
    BY <1>1 DEF UpdateInd, TypeOK, Nets
  <2>2. prov' \in Timers(ProvTime) /\ store' \in Timers(StoreDelay)
    BY <1>1 DEF UpdateInd, TypeOK, Timers
  <2> QED BY <1>1, <2>1, <2>2 DEF UpdateInd, TypeOK
<1>3. Counted'
  BY <1>1 DEF UpdateInd, Counted
<1>4. LedRuns' /\ Known'
  BY <1>1 DEF UpdateInd, LedRuns, Known
<1>5. Flushed' /\ Blinks' /\ BoundIsShown'
  BY <1>1 DEF UpdateInd, Flushed, Blinks, BoundIsShown
<1> QED BY <1>2, <1>3, <1>4, <1>5

\* The delayed store, and the passing of time.
LEMMA TimeKeeps == ASSUME IInv, StoreTimeout \/ Tick PROVE IInv'
<1> USE Durations DEF IInv, history, counter
<1>1. CASE StoreTimeout
  BY <1>1 DEF StoreTimeout, TypeOK, Timers, Counted, LedRuns, Known, Flushed, Blinks, BoundIsShown
<1>2. CASE Tick
  <2>1. /\ led' \in Timers(1) /\ store' \in Timers(StoreDelay) /\ prov' \in Timers(ProvTime)
        /\ led' = Off <=> led = Off
        /\ store' = Off <=> store = Off
    BY <1>2 DEF Tick, Due, Down, TypeOK, Timers
  <2> QED BY <1>2, <2>1 DEF Tick, TypeOK, Counted, LedRuns, Known, Flushed, Blinks, BoundIsShown
<1> QED BY <1>1, <1>2

\* Every step, and a stutter, keeps the invariant.
LEMMA Steps == IInv /\ [Next]_vars => IInv'
<1> SUFFICES ASSUME IInv, [Next]_vars PROVE IInv'
  OBVIOUS
<1>1. CASE Reboot
  <2>1. info \in Nets /\ "none" \in Nets
    BY DEF IInv, TypeOK, Nets
  <2> QED BY <1>1, <2>1, RestartKeeps
       DEF Reboot, PowerCycle, FatalError, Removed, LongPress, ProvTimeout, Causes
<1>2. CASE Ready \/ InNetwork \/ Started \/ ProvResult
  BY <1>2, EventsKeep
<1>3. CASE Update
  BY <1>3, UpdateKeeps
<1>4. CASE StoreTimeout \/ Tick
  BY <1>4, TimeKeeps
<1>5. CASE LedTimeout
  BY <1>5, LedTimeoutKeeps
<1>6. CASE UNCHANGED vars
  BY <1>6 DEF vars, counter, history, IInv, TypeOK, Counted, LedRuns, Known, Flushed, Blinks, BoundIsShown
<1> QED BY <1>1, <1>2, <1>3, <1>4, <1>5, <1>6 DEF Next

-----------------------------------------------------------------------------
\* The counter, the LED timer, the store of the network and the status agree in
\* every state, for any durations and any number of boots.
THEOREM Inductive == Spec => []IInv
BY Begins, Steps, PTL DEF Spec

\* Every variable stays in its type.
THEOREM TypeCorrect == Spec => []TypeOK
<1>1. IInv => TypeOK
  BY DEF IInv
<1> QED BY <1>1, Inductive, PTL

\* With no store pending, the flash holds what the stack has reported.
THEOREM FlushedAlways == Spec => []Flushed
<1>1. IInv => Flushed
  BY DEF IInv
<1> QED BY <1>1, Inductive, PTL

\* The status LED does not freeze while the node waits for a network.
THEOREM BlinksAlways == Spec => []Blinks
<1>1. IInv => Blinks
  BY DEF IInv
<1> QED BY <1>1, Inductive, PTL

\* A step that erases the stored network is a removal, a long press, a
\* provisioning that did not complete, or the last of Quick short boots.
LEMMA StepExplained ==
    ASSUME IInv, IInv', [Next]_vars, info # "none", info' = "none"
    PROVE  cause' \in {"removed", "pressed", "expired"} \/ brief' + residue' >= Quick
<1> USE Durations
<1>1. CASE Reboot
  <2>1. CASE PowerCycle \/ FatalError
    <3>1. stored >= Quick /\ stored' = stored /\ step' = 0 /\ time' = 0
      BY <2>1 DEF PowerCycle, FatalError, Restart
    <3>2. PICK b, r, s : b = brief' /\ r = residue' /\ s = stored'
      OBVIOUS
    <3>3. b \in 0 .. Quick /\ r \in 0 .. CntMod - 1 /\ s \in 0 .. CntMod - 1
      BY <3>2 DEF IInv, TypeOK
    <3>4. b < Quick => s <= r + b
      BY <3>1, <3>2, <3>3 DEF IInv, Counted
    <3>5. s >= Quick
      BY <3>1, <3>2
    <3>6. b + r >= Quick
      BY <3>3, <3>4, <3>5
    <3> QED BY <3>2, <3>6
  <2>2. CASE Removed \/ LongPress \/ ProvTimeout
    BY <2>2 DEF Removed, LongPress, ProvTimeout, Restart
  <2> QED BY <1>1, <2>1, <2>2 DEF Reboot
<1>2. CASE StoreTimeout
  BY <1>2 DEF StoreTimeout, IInv, Known
<1>3. CASE Ready \/ InNetwork \/ Started \/ ProvResult \/ Update \/ LedTimeout \/ Tick \/ UNCHANGED vars
  BY <1>3 DEF Ready, InNetwork, Started, ProvResult, Update, UpdateInd, LedTimeout, Tick, vars
<1> QED BY <1>1, <1>2, <1>3 DEF Next

\* The stored network is never lost without one of these reasons.
THEOREM LossAlwaysExplained == Spec => LossExplained
<1>1. ASSUME IInv, IInv', [Next]_vars
      PROVE  [info # "none" /\ info' = "none"
                => cause' \in {"removed", "pressed", "expired"} \/ brief' + residue' >= Quick]_vars
  BY <1>1, StepExplained
<1> QED BY <1>1, Inductive, PTL DEF Spec, LossExplained

-----------------------------------------------------------------------------
(* The lamp *)

\* Messages come only to a node that runs and no longer waits for a network.
Asked == by # "none" => phase = "started" /\ config = 1

LampInv == IInv /\ Asked /\ Obeys

-----------------------------------------------------------------------------
\* Every step of the lamp is a step of the node.
LEMMA NodeSteps == [LightNext]_lvars => [Next]_vars
  BY DEF LightNext, lvars, Reset, Start, Join, Bind, Learn, LampTimeout, Message, Dark, Next, Update

LEMMA LampBegins == LightInit => LampInv
  BY Begins DEF LightInit, LampInv, LampStarts, Asked, Obeys

\* A message is shown as far as the PWM takes it.
LEMMA MessageShown ==
  ASSUME LampInv, Message
  PROVE  Asked' /\ Obeys'
<1>1. Asked'
  BY DEF LampInv, IInv, BoundIsShown, Message, Reached, Asked, vars
<1>2. PwmUpdate(led_ctr')
  BY DEF Message, OnOffSet, LightnessSet, TemperatureSet, HslSet
<1>3. Obeys'
  BY <1>2 DEF PwmUpdate, Obeys
<1> QED
  BY <1>1, <1>3

\* The breathing never comes after a message.
LEMMA BreatheObeys ==
  ASSUME LampInv, Breathe, config = 0 \/ phase # "started"
  PROVE  by = "none" /\ by' = "none"
  BY DEF LampInv, Asked, Breathe

\* The steps of the node leave the lamp as it was asked to be, or forget it.
LEMMA NodeStepObeys ==
  ASSUME LampInv,
         \/ Reset \/ Start \/ Join \/ Bind \/ Learn \/ LampTimeout
         \/ Dark(Ready) \/ Dark(ProvResult) \/ Dark(StoreTimeout) \/ Dark(Tick)
  PROVE  Asked' /\ Obeys'
<1>1. CASE Reset
  BY <1>1 DEF Reset, LampStarts, Asked, Obeys
<1>2. CASE Start
  <2>1. CASE inNetwork
    BY <1>2, <2>1 DEF Start, Started, LampInv, Asked, Obeys, light
  <2>2. CASE ~inNetwork
    BY <1>2, <2>2, BreatheObeys DEF Start, Started, Asked, Obeys
  <2> QED
    BY <2>1, <2>2
<1>3. CASE Join \/ Bind
  BY <1>3 DEF Join, Bind, ConfigOk, Asked, Obeys
<1>4. CASE LampTimeout
  <2>1. CASE config = 0
    BY <1>4, <2>1, BreatheObeys DEF LampTimeout, Asked, Obeys
  <2>2. CASE config # 0
    BY <1>4, <2>2 DEF LampTimeout, LedTimeout, LampInv, Asked, Obeys, light
  <2> QED
    BY <2>1, <2>2
<1>5. CASE Learn
  BY <1>5 DEF Learn, UpdateInd, LampInv, Asked, Obeys, light
<1>6. CASE Dark(Ready)
  BY <1>6 DEF Dark, Ready, LampInv, Asked, Obeys, light
<1>7. CASE Dark(ProvResult) \/ Dark(StoreTimeout) \/ Dark(Tick)
  BY <1>7 DEF Dark, ProvResult, StoreTimeout, Tick, LampInv, Asked, Obeys, light
<1> QED
  BY <1>1, <1>2, <1>3, <1>4, <1>5, <1>6, <1>7

LEMMA LampSteps == LampInv /\ [LightNext]_lvars => LampInv'
<1> SUFFICES ASSUME LampInv, [LightNext]_lvars
             PROVE  LampInv'
  OBVIOUS
<1>1. IInv'
  BY NodeSteps, Steps DEF LampInv
<1>2. CASE Message
  BY <1>1, <1>2, MessageShown DEF LampInv
<1>3. CASE \/ Reset \/ Start \/ Join \/ Bind \/ Learn \/ LampTimeout
           \/ Dark(Ready) \/ Dark(ProvResult) \/ Dark(StoreTimeout) \/ Dark(Tick)
  BY <1>1, <1>3, NodeStepObeys DEF LampInv
<1>4. CASE UNCHANGED lvars
  BY <1>1, <1>4 DEF LampInv, Asked, Obeys, lvars, light, vars
<1> QED
  BY <1>2, <1>3, <1>4 DEF LightNext

\* The lamp in the node's life: what the last message asked for stays on it.
THEOREM ObeysAlways == LightSpec => []Obeys
<1>1. LampInv => Obeys
  BY DEF LampInv
<1> QED
  BY <1>1, LampBegins, LampSteps, PTL DEF LightSpec

\* The node under the lamp is the node: its invariant holds here, too.
THEOREM LampKeepsNode == LightSpec => Spec
<1>1. LightInit => Init
  BY DEF LightInit
<1> QED
  BY <1>1, NodeSteps, PTL DEF LightSpec, Spec

-----------------------------------------------------------------------------
\* A duty that is dimmed stays a duty.
LEMMA DimmedFits ==
  ASSUME NEW d \in Nat, d <= 99, NEW level \in Nat, level <= 649
  PROVE  Dimmed(d, level) \in Nat /\ Dimmed(d, level) <= 99
<1> DEFINE x == d * level
<1>1. x \in Nat /\ x <= 99 * 649
  OBVIOUS
<1>2. Dimmed(d, level) = x \div 649
  BY DEF Dimmed
<1> HIDE DEF x
<1> QED
  BY <1>1, <1>2

\* At full light every temperature of the range gives duties.
LEMMA FullFits ==
  ASSUME NEW temp \in Nat, Advertised(temp), NEW c \in Channels
  PROVE  Full(temp)[c] \in Nat /\ Full(temp)[c] <= 99
<1> DEFINE t == temp \div 100
<1>1. t \in Nat /\ 8 <= t /\ t <= 200
  BY DEF Advertised
<1>2. Full(temp) = [r |-> 99, g |-> (3000 + 26 * (t - 8)) \div 100,
                    b |-> IF t > 104 THEN (103 * (t - 104)) \div 100 ELSE 0]
  BY DEF Full
<1> HIDE DEF t
<1> QED
  BY <1>1, <1>2 DEF Channels

\* Within the advertised range every level gives duties that the PWM takes.
LEMMA TintFits ==
  ASSUME NEW temp \in Nat, Advertised(temp), NEW brightness \in Nat, brightness <= 65535
  PROVE  /\ \A c \in Channels : Tinted(temp, brightness)[c] < 100
         /\ Tinted(temp, brightness)["g"] > 0
<1> DEFINE D(c) == Dimmed(Full(temp)[c], Above(brightness))
<1>1. Above(brightness) \in Nat /\ Above(brightness) <= 649
  BY DEF Above
<1>2. ASSUME NEW c \in Channels
      PROVE  D(c) \in Nat /\ D(c) <= 99
  <2> DEFINE d == Full(temp)[c]
             level == Above(brightness)
  <2>1. d \in Nat /\ d <= 99
    BY FullFits
  <2>2. level \in Nat /\ level <= 649
    BY <1>1
  <2> HIDE DEF d, level
  <2>3. Dimmed(d, level) \in Nat /\ Dimmed(d, level) <= 99
    BY <2>1, <2>2, DimmedFits
  <2> QED
    BY <2>3 DEF d, level
<1>3. \A c \in Channels :
        Tinted(temp, brightness)[c] = IF c = "g" /\ D(c) = 0 THEN 1 ELSE D(c)
  BY DEF Tinted
<1> HIDE DEF D
<1> QED
  BY <1>2, <1>3 DEF Channels

\* A byte of colour becomes a duty.
LEMMA RatedFits ==
  ASSUME NEW rgb, \A c \in Channels : rgb[c] \in Nat /\ rgb[c] <= 255
  PROVE  \A c \in Channels : Rated(rgb)[c] < 100
  BY DEF Rated

\* One channel of a colour lies between the two that HSL2RGB computes first.
LEMMA ChannelFits ==
  ASSUME NEW n1 \in Nat, NEW n2 \in Nat, n1 <= n2, n2 <= 225,
         NEW hue \in Int, -5 <= hue, hue <= 20
  PROVE  /\ (255 * HSL2RGBvalue(n1, n2, hue)) \div 1125 \in Nat
         /\ (255 * HSL2RGBvalue(n1, n2, hue)) \div 1125 <= 255
<1> DEFINE k == IF hue > 15 THEN hue - 15 ELSE IF hue < 0 THEN hue + 15 ELSE hue
           w == HSL2RGBvalue(n1, n2, hue)
<1>1. k \in 0 .. 15
  OBVIOUS
<1>2. w = CASE 24 * k < 60 -> 5 * n1 + (n2 - n1) * 2 * k
            [] 24 * k \in 60 .. 179 -> 5 * n2
            [] 24 * k \in 180 .. 239 -> 5 * n1 + (n2 - n1) * 2 * (10 - k)
            [] OTHER -> 5 * n1
  BY DEF HSL2RGBvalue
<1>3. w \in Nat /\ w <= 1125
  <2> HIDE DEF k, w
  <2>1. ASSUME NEW j \in 0 .. 2
        PROVE  5 * n1 + (n2 - n1) * 2 * j \in Nat /\ 5 * n1 + (n2 - n1) * 2 * j <= 1125
    <3>1. j = 0 \/ j = 1 \/ j = 2
      OBVIOUS
    <3> QED
      BY <3>1
  <2>2. CASE k \in 0 .. 2
    <3>1. w = 5 * n1 + (n2 - n1) * 2 * k
      BY <1>2, <2>2
    <3> QED
      BY <2>1, <2>2, <3>1
  <2>3. CASE k \in 3 .. 7
    <3>1. w = 5 * n2
      BY <1>2, <2>3
    <3> QED
      BY <3>1
  <2>4. CASE k = 8
    <3>1. w = 5 * n1 + (n2 - n1) * 2 * 2
      BY <1>2, <2>4
    <3> QED
      BY <2>1, <3>1
  <2>5. CASE k = 9
    <3>1. w = 5 * n1 + (n2 - n1) * 2 * 1
      BY <1>2, <2>5
    <3> QED
      BY <2>1, <3>1
  <2>6. CASE k \in 10 .. 15
    BY <1>2, <2>6
  <2> QED
    BY <1>1, <2>2, <2>3, <2>4, <2>5, <2>6
<1> HIDE DEF k, w
<1>4. (255 * w) \div 1125 \in Nat /\ (255 * w) \div 1125 <= 255
  BY <1>3
<1> QED
  BY <1>4 DEF w

\* HSL2RGB gives bytes.
LEMMA HslFits ==
  ASSUME NEW h \in 0 .. 15, NEW s \in 0 .. 15, NEW l \in 0 .. 15
  PROVE  \A c \in Channels : HSL2RGB(h, s, l)[c] \in Nat /\ HSL2RGB(h, s, l)[c] <= 255
<1> DEFINE cmax == IF 2 * l <= 15 THEN l * (15 + s) ELSE l * (15 - s) + 15 * s
           cmin == 30 * l - cmax
           byte(hue) == (255 * HSL2RGBvalue(cmin, cmax, hue)) \div 1125
<1>1. cmax \in Nat /\ cmax <= 225 /\ cmin \in Nat /\ cmin <= cmax
  <2>1. CASE 2 * l <= 15
    <3>1. l * s \in Nat /\ l * s <= 15 * l
      OBVIOUS
    <3>2. cmax = 15 * l + l * s
      BY <2>1
    <3> QED
      BY <2>1, <3>1, <3>2
  <2>2. CASE ~(2 * l <= 15)
    <3>1. (15 - l) * s \in Nat /\ (15 - l) * s <= (15 - l) * 15
      OBVIOUS
    <3>2. cmax = 15 * l + (15 - l) * s
      BY <2>2
    <3> QED
      BY <2>2, <3>1, <3>2
  <2> QED
    BY <2>1, <2>2
<1>2. CASE s = 0
  BY <1>2 DEF HSL2RGB, All
<1>3. CASE s # 0
  <2>1. HSL2RGB(h, s, l) = [r |-> byte(h + 5), g |-> byte(h), b |-> byte(h - 5)]
    BY <1>3 DEF HSL2RGB
  <2>2. ASSUME NEW hue \in Int, -5 <= hue, hue <= 20
        PROVE  byte(hue) \in Nat /\ byte(hue) <= 255
    <3> HIDE DEF cmax, cmin
    <3>1. cmin \in Nat /\ cmax \in Nat /\ cmin <= cmax /\ cmax <= 225
      BY <1>1
    <3>2. /\ (255 * HSL2RGBvalue(cmin, cmax, hue)) \div 1125 \in Nat
          /\ (255 * HSL2RGBvalue(cmin, cmax, hue)) \div 1125 <= 255
      BY <2>2, <3>1, ChannelFits
    <3> QED
      BY <3>2
  <2> HIDE DEF byte
  <2> QED
    BY <2>1, <2>2 DEF Channels
<1> QED
  BY <1>2, <1>3

-----------------------------------------------------------------------------
\* What is remembered of the messages, and what the last one made of it.
Remembered ==
    /\ on_off_state \in {0, 1}
    /\ lightness \in Nat /\ lightness <= 65535
    /\ ctl_temperature \in Nat

LightInv == Remembered /\ Shows

\* On and off
LEMMA OnOffShows ==
  ASSUME NEW onoff \in {0, 1}, OnOffSet(onoff), Remembered
  PROVE  Remembered' /\ Shows'
<1>1. led_ctr' = All(IF onoff = 0 THEN 0 ELSE 1)
  BY DEF OnOffSet, Rated, All
<1>2. pwm' = led_ctr'
  BY <1>1 DEF OnOffSet, PwmUpdate, All
<1>3. All(0) # All(1)
  BY DEF All, Channels
<1> QED
  BY <1>1, <1>2, <1>3 DEF OnOffSet, Remembered, Shows, All

\* A temperature and a level
LEMMA TintShows ==
  ASSUME NEW temp \in Nat, NEW level \in Nat, level <= 65535,
         led_ctr' = Tinted(temp, level), PwmUpdate(led_ctr'),
         ctl_temperature' = temp, by' = "tint"
  PROVE  Shows'
<1>1. CASE Advertised(temp)
  <2>1. (\A c \in Channels : led_ctr'[c] < 100) /\ led_ctr'["g"] > 0
    BY <1>1, TintFits
  <2>2. pwm'["g"] = led_ctr'["g"]
    BY <2>1 DEF PwmUpdate, Channels
  <2> QED
    BY <2>1, <2>2 DEF Shows
<1> QED
  BY <1>1 DEF Shows

\* A colour
LEMMA ColourShows ==
  ASSUME NEW c \in Colours, HslSet(c), Remembered
  PROVE  Remembered' /\ Shows'
<1>1. c.h \in 0 .. 15 /\ c.s \in 0 .. 15 /\ c.l \in 0 .. 15
  BY LightAssumption
<1>2. \A ch \in Channels : led_ctr'[ch] < 100
  BY <1>1, HslFits, RatedFits DEF HslSet
<1> QED
  BY <1>2 DEF HslSet, Remembered, Shows

LEMMA MessageShows ==
  ASSUME LightInv, Message
  PROVE  Remembered' /\ Shows'
<1>1. ASSUME NEW level \in Lightnesses, LightnessSet(level)
      PROVE  Remembered' /\ Shows'
  BY <1>1, LightAssumption, TintShows DEF LightnessSet, LightInv, Remembered
<1>2. ASSUME NEW temp \in Temps, TemperatureSet(temp)
      PROVE  Remembered' /\ Shows'
  BY <1>2, LightAssumption, TintShows DEF TemperatureSet, LightInv, Remembered
<1> QED
  BY <1>1, <1>2, OnOffShows, ColourShows DEF Message, LightInv

LEMMA LightSteps == LightInv /\ LampInv /\ [LightNext]_lvars => LightInv'
<1> SUFFICES ASSUME LightInv, LampInv, [LightNext]_lvars
             PROVE  Remembered' /\ Shows'
  BY DEF LightInv
<1>1. CASE Message
  BY <1>1, MessageShows
<1>2. CASE UNCHANGED light
  BY <1>2 DEF light, LightInv, Remembered, Shows
<1>3. CASE Reset
  BY <1>3 DEF Reset, LampStarts, Remembered, Shows
<1>4. CASE Join \/ Bind
  BY <1>4 DEF Join, Bind, ConfigOk, LightInv, Remembered, Shows
<1>5. CASE Breathe /\ (config = 0 \/ phase # "started")
  BY <1>5, BreatheObeys DEF Breathe, LightInv, Remembered, Shows
<1>6. Start => UNCHANGED light \/ (Breathe /\ phase # "started")
  BY DEF Start, Started
<1> QED
  BY <1>1, <1>2, <1>3, <1>4, <1>5, <1>6 DEF LightNext, LampTimeout, Learn, Dark, lvars

\* Whatever is asked for in the advertised range can be shown, for every
\* level, temperature and colour.
THEOREM ShowsAlways == LightSpec => []Shows
<1>1. LightInit => LightInv
  BY DEF LightInit, LampStarts, LightInv, Remembered, Shows
<1>2. LightInv => Shows
  BY DEF LightInv
<1> QED
  BY <1>1, <1>2, LampBegins, LampSteps, LightSteps, PTL DEF LightSpec
=============================================================================
