---------------------------- MODULE ButtonProofs ----------------------------
(***************************************************************************)
(* Proofs about the button module, for any buttons and any durations.      *)
(***************************************************************************)
EXTENDS ButtonProps, SequenceTheorems, FiniteSetTheorems, TLAPS

LEMMA Durations ==
    /\ Short \in Nat /\ Long \in Nat /\ LongLong \in Nat
    /\ Multi \in Nat /\ Pressing \in Nat /\ Anti \in Nat /\ CntMod \in Nat
    /\ 0 < Short /\ Short < Long /\ Long < LongLong
    /\ 0 < Multi /\ 0 < Pressing /\ 0 < Anti /\ 0 < CntMod
  BY DurationAssumption

LEMMA InitInv == Init => IInv
<1> SUFFICES ASSUME Init PROVE IInv
  OBVIOUS
<1>1. /\ cnt = 0 /\ held = 0 /\ out = <<>> /\ toggles = <<>> /\ state = "IDLE"
      /\ pressed = {} /\ saved = {} /\ toSend = {} /\ irq = FALSE /\ woken = FALSE
      /\ stateTimer = Off /\ pressing = Off /\ shake = Off
      /\ pins \in Masks /\ last = pins /\ sample = Buttons
  BY DEF Init
<1>2. TypeOK
  <2>1. {} \in Masks /\ Buttons \in Masks
    BY DEF Masks
  <2>2. 0 \in 0 .. CntMod - 1 /\ 0 \in 0 .. LongLong /\ "IDLE" \in States
    BY Durations DEF States
  <2>3. <<>> \in Seq(Msg) /\ <<>> \in Seq(Masks)
    OBVIOUS
  <2>4. \A n : Off \in Timers(n)
    BY DEF Timers
  <2> QED
    BY <1>1, <2>1, <2>2, <2>3, <2>4 DEF TypeOK
<1>3. TimersMatch /\ HeldLongEnough /\ LongPressHeld
  BY <1>1 DEF TimersMatch, HeldLongEnough, LongPressHeld, LongStates, LongLongStates
<1>4. SampleCurrent /\ NothingMissed
  BY <1>1 DEF SampleCurrent, NothingMissed
<1> QED
  BY <1>2, <1>3, <1>4 DEF IInv

\* What button_send_event posts: the messages named, each with a count that fits.
LEMMA SendPosts ==
  ASSUME TypeOK, NEW types \in Seq(Types), NEW p \in Masks, Send(types, p)
  PROVE  /\ out' \in Seq(Msg)
         /\ cnt' \in 0 .. CntMod - 1
         /\ Len(out') = Len(types)
         /\ \A i \in 1 .. Len(types) : out'[i].type = types[i]
<1> DEFINE m(i) == [type   |-> types[i],
                    button |-> Subject(types[i], p),
                    cnt    |-> IF i = 1 THEN cnt ELSE 0]
<1>1. out' = [i \in 1 .. Len(types) |-> m(i)]
  BY DEF Send
<1>2. cnt \in 0 .. CntMod - 1 /\ 0 \in 0 .. CntMod - 1
  BY Durations DEF TypeOK
<1>3. ASSUME NEW i \in 1 .. Len(types)
      PROVE  m(i) \in Msg /\ m(i).type = types[i]
  <2>1. types[i] \in Types /\ Subject(types[i], p) \in Masks
    BY DEF Subject, TypeOK
  <2> QED
    BY <2>1, <1>2 DEF Msg
<1> HIDE DEF m
<1>4. Len(types) \in Nat
  OBVIOUS
<1> QED
  BY <1>1, <1>2, <1>3, <1>4 DEF Send
-----------------------------------------------------------------------------
(* The handlers.  They touch the variables of HandlerOK and nothing else.    *)

HandlerOK ==
    /\ cnt \in 0 .. CntMod - 1 /\ toSend \in Masks /\ state \in States
    /\ stateTimer \in Timers(LongLong + Multi) /\ pressing \in Timers(Pressing)
    /\ out \in Seq(Msg) /\ held \in 0 .. LongLong
    /\ TimersMatch /\ HeldLongEnough /\ LongPressHeld

\* A state and its timers fit together, with p down for h ticks.
Fits(s, t, r, p, h) ==
    /\ s \in States /\ t \in Timers(LongLong + Multi) /\ r \in Timers(Pressing)
    /\ t # Off <=> s \notin LongLongStates \cup {"IDLE"}
    /\ r # Off <=> s \in LongStates \cup LongLongStates
    /\ s \in {"JUST_PRESSED", "COMB_JUST_PRESSED"} => h + t >= Short
    /\ s \in {"PRESSED", "COMB_PRESSED"} => h + t >= Long
    /\ s \in LongStates => h + t >= LongLong
    /\ p = {} <=> s \in {"IDLE", "WAIT_MULTI"}

\* Messages may be sent after h ticks.
LongTypes     == {"LONG_PRESSED", "COMB_LONG_PRESSED"}
LongLongTypes == {"LONG_LONG_PRESSED", "COMB_LONG_LONG_PRESSED"}
MaySay(types, h) ==
    /\ types \in Seq(Types)
    /\ \A i \in 1 .. Len(types) :
          /\ types[i] \in LongTypes => h >= Long
          /\ types[i] \in LongLongTypes => h = LongLong

Others == Types \ (LongTypes \cup LongLongTypes)

LEMMA SayNothing == \A h : MaySay(<<>>, h)
  BY DEF MaySay

LEMMA SayOne == ASSUME NEW m \in Others, NEW h PROVE MaySay(<<m>>, h)
<1>1. m \in Types /\ m \notin LongTypes /\ m \notin LongLongTypes
  BY DEF Others
<1> QED
  BY <1>1 DEF MaySay

LEMMA SayTwo == ASSUME NEW m \in Others, NEW n \in Others, NEW h PROVE MaySay(<<m, n>>, h)
<1>1. /\ m \in Types /\ m \notin LongTypes /\ m \notin LongLongTypes
      /\ n \in Types /\ n \notin LongTypes /\ n \notin LongLongTypes
  BY DEF Others
<1>2. <<m, n>> \in Seq(Types) /\ Len(<<m, n>>) = 2
  BY <1>1
<1>3. ASSUME NEW i \in 1 .. 2 PROVE <<m, n>>[i] \notin LongTypes \cup LongLongTypes
  BY <1>1
<1> QED
  BY <1>2, <1>3 DEF MaySay

\* A row of the state machine whose parts fit leaves everything in order.
LEMMA RowOK ==
  ASSUME TypeOK, NEW s, NEW t, NEW r, NEW types, NEW p \in Masks,
         To(s, t, r, types, p), pressed' = p, held' \in 0 .. LongLong,
         Fits(s, t, r, p, held'), MaySay(types, held')
  PROVE  HandlerOK'
<1>1. types \in Seq(Types)
  BY DEF MaySay
<1>2. Send(types, p) /\ state' = s /\ stateTimer' = t /\ pressing' = r /\ toSend' = toSend
  BY DEF To
<1>3. /\ out' \in Seq(Msg)
      /\ cnt' \in 0 .. CntMod - 1
      /\ Len(out') = Len(types)
      /\ \A i \in 1 .. Len(types) : out'[i].type = types[i]
  BY <1>1, <1>2, SendPosts
<1>4. toSend \in Masks
  BY DEF TypeOK
<1>5. TimersMatch' /\ HeldLongEnough'
  BY <1>2 DEF Fits, TimersMatch, HeldLongEnough
<1>6. LongPressHeld'
  <2> SUFFICES ASSUME NEW i \in 1 .. Len(types)
               PROVE  /\ types[i] \in LongTypes => held' >= Long
                      /\ types[i] \in LongLongTypes => held' = LongLong
    BY <1>3 DEF LongPressHeld, LongTypes, LongLongTypes
  <2> QED
    BY DEF MaySay
<1> QED
  BY <1>2, <1>3, <1>4, <1>5, <1>6 DEF HandlerOK, Fits

\* What the task knows when it calls a state function.
Called(e, p) ==
    /\ pressed' = p
    /\ held' \in 0 .. LongLong
    /\ held' = held \/ p = {} \/ pressed = {}
    /\ e \in {"RELEASED", "SINGLE", "COMB", "TIME_OUT"}
    /\ e = "TIME_OUT" => stateTimer = 0 /\ p = pressed /\ held' = held
    /\ e # "TIME_OUT" => (p = {} <=> e = "RELEASED")

LEMMA HandleOK ==
  ASSUME TypeOK, TimersMatch, HeldLongEnough,
         NEW e, NEW p \in Masks, Called(e, p), Handle(e, p)
  PROVE  HandlerOK'
<1>h. PICK h \in 0 .. LongLong : h = held'
  BY DEF Called
<1>0. /\ held \in Nat /\ h \in Nat /\ held <= LongLong /\ h <= LongLong
      /\ stateTimer \in Timers(LongLong + Multi) /\ pressing \in Timers(Pressing)
      /\ state \in States
  BY Durations, <1>h DEF TypeOK, Called
<1>row. ASSUME NEW s, NEW t, NEW r, NEW types, To(s, t, r, types, p),
               Fits(s, t, r, p, h), MaySay(types, h)
        PROVE  HandlerOK'
  BY <1>row, <1>h, RowOK DEF Called
<1>idle. pressing = Off <=> state \notin LongStates \cup LongLongStates
  BY DEF TimersMatch
<1>press. ASSUME NEW r, NEW types, SinglePress(r, types, p) \/ CombPress(r, types, p),
                 p # {}, r = Off, MaySay(types, h)
          PROVE  HandlerOK'
  <2>1. Short \in 0 .. LongLong + Multi /\ Short # -1 /\ h + Short >= Short
    BY <1>0, Durations
  <2>2. Fits("JUST_PRESSED", Short, Off, p, h)
    BY <2>1, <1>press DEF Fits, Off, Timers, States, PressStates, LongStates, LongLongStates
  <2>3. Fits("COMB_JUST_PRESSED", Short, Off, p, h)
    BY <2>1, <1>press DEF Fits, Off, Timers, States, CombStates, LongStates, LongLongStates
  <2> QED
    BY <2>2, <2>3, <1>press, <1>row DEF SinglePress, CombPress
<1>1. CASE <<state, e>> \in Ignored /\ Ignore(e, p)
  <2>1. Fits(state, Kept(e), pressing, p, h)
    <3> USE DEF Ignored, Kept, Called, Timers, Off, LongStates, LongLongStates
    <3>1. CASE e = "TIME_OUT"
      BY <1>0, <1>h, Durations, <1>1, <3>1 DEF Fits, TimersMatch, HeldLongEnough
    <3>2. CASE e # "TIME_OUT"
      BY <1>0, <1>h, Durations, <1>1, <3>2 DEF Fits, TimersMatch, HeldLongEnough
    <3> QED
      BY <3>1, <3>2
  <2> QED
    BY <2>1, <1>1, <1>row, SayNothing DEF Ignore
<1>off. ASSUME state \notin LongStates \cup LongLongStates PROVE pressing = Off
  BY <1>off, <1>idle
<1>end. ASSUME NEW m \in Others, e \in {"RELEASED", "TIME_OUT"}, NEW t, t = Off, NEW r, r = Off,
               To("IDLE", t, r, <<m>>, p), p = {}
        PROVE  HandlerOK'
  <2>1. Fits("IDLE", Off, Off, p, h)
    BY <1>end DEF Fits, States, LongStates, LongLongStates, Timers
  <2> QED
    BY <2>1, <1>end, <1>row, SayOne
<1>timeout. ASSUME e = "TIME_OUT" PROVE stateTimer = 0 /\ p = pressed /\ h = held
  BY <1>timeout, <1>h DEF Called
<1>terms. /\ Long - Short \in Timers(LongLong + Multi) /\ Long - Short # Off
          /\ LongLong - Long \in Timers(LongLong + Multi) /\ LongLong - Long # Off
          /\ Pressing \in Timers(Pressing) /\ Pressing # Off
          /\ Off \in Timers(LongLong + Multi)
  BY Durations DEF Timers, Off
\* The three timeouts of a press: it has become long enough to be no bounce, a
\* long press, and a long long press.
<1>grow. ASSUME e = "TIME_OUT", state \in {"JUST_PRESSED", "COMB_JUST_PRESSED"},
                NEW s \in {"PRESSED", "COMB_PRESSED"}, To(s, Long - Short, pressing, <<>>, p)
         PROVE  HandlerOK'
  <2>1. h + (Long - Short) >= Long
    BY <1>0, <1>grow, <1>timeout, Durations DEF HeldLongEnough
  <2>2. pressing = Off
    BY <1>grow, <1>off DEF LongStates, LongLongStates
  <2>3. p # {}
    BY <1>grow, <1>timeout DEF HeldLongEnough
  <2>4. Fits(s, Long - Short, pressing, p, h)
    BY <1>0, Durations, <1>terms, <1>grow, <2>1, <2>2, <2>3
       DEF Fits, States, PressStates, CombStates, LongStates, LongLongStates
  <2> QED
    BY <2>4, <1>grow, <1>row, SayNothing
<1>long. ASSUME e = "TIME_OUT", state \in {"PRESSED", "COMB_PRESSED"}, NEW s \in LongStates,
                NEW m \in LongTypes, To(s, LongLong - Long, Pressing, <<m>>, p)
         PROVE  HandlerOK'
  <2>1. h >= Long /\ h + (LongLong - Long) >= LongLong
    BY <1>0, <1>long, <1>timeout, Durations DEF HeldLongEnough
  <2>2. p # {}
    BY <1>long, <1>timeout DEF HeldLongEnough
  <2>3. Fits(s, LongLong - Long, Pressing, p, h)
    BY <1>0, Durations, <1>terms, <1>long, <2>1, <2>2
       DEF Fits, States, PressStates, CombStates, LongStates, LongLongStates
  <2>4. m \in Types /\ m \notin LongLongTypes
    BY DEF Types, LongTypes, LongLongTypes
  <2>5. MaySay(<<m>>, h)
    BY <2>1, <2>4 DEF MaySay
  <2> QED
    BY <2>3, <2>5, <1>long, <1>row
<1>longlong. ASSUME e = "TIME_OUT", state \in LongStates, NEW s \in LongLongStates,
                    NEW m \in LongLongTypes, To(s, Off, pressing, <<m>>, p)
             PROVE  HandlerOK'
  <2>1. h = LongLong
    BY <1>0, <1>longlong, <1>timeout, Durations DEF HeldLongEnough
  <2>2. p # {}
    BY <1>longlong, <1>timeout DEF HeldLongEnough, LongStates
  <2>3. pressing # Off
    BY <1>longlong DEF TimersMatch
  <2>4. Fits(s, Off, pressing, p, h)
    BY <1>0, Durations, <1>terms, <1>longlong, <2>1, <2>2, <2>3
       DEF Fits, States, PressStates, CombStates, LongStates, LongLongStates
  <2>5. m \in Types /\ m \notin LongTypes
    BY DEF Types, LongTypes, LongLongTypes
  <2>6. MaySay(<<m>>, h)
    BY <2>1, <2>5 DEF MaySay
  <2> QED
    BY <2>4, <2>6, <1>longlong, <1>row
\* What a press and a release may post.
<1>others. {"PRESSED", "RELEASED", "SHORT_PRESSED", "MULTI_PRESSED", "LONG_RELEASED",
            "LONG_LONG_RELEASED", "COMB_PRESSED", "COMB_RELEASED", "COMB_SHORT_PRESSED",
            "COMB_LONG_RELEASED", "COMB_LONG_LONG_RELEASED"} \subseteq Others
  BY DEF Others, Types, LongTypes, LongLongTypes
<1>single. ASSUME e \in {"SINGLE", "COMB"} PROVE p # {}
  BY <1>single DEF Called
<1>up. ASSUME e = "RELEASED" PROVE p = {}
  BY <1>up DEF Called
<1>2. CASE state = "IDLE" /\ Idle(e, p)
  BY <1>2, <1>off, <1>single, <1>others, <1>press, SayOne DEF Idle, LongStates, LongLongStates
<1>3. CASE state = "JUST_PRESSED" /\ JustPressed(e, p)
  <2>1. pressing = Off
    BY <1>3, <1>off DEF LongStates, LongLongStates
  <2>2. CASE e = "RELEASED"
    BY <1>3, <2>1, <2>2, <1>up, <1>others, <1>end DEF JustPressed
  <2>3. CASE e = "COMB"
    BY <1>3, <2>1, <2>3, <1>single, <1>others, <1>press, SayOne DEF JustPressed
  <2>4. CASE e = "TIME_OUT"
    BY <1>3, <2>4, <1>grow DEF JustPressed
  <2> QED
    BY <1>3, <2>2, <2>3, <2>4 DEF JustPressed
<1>4. CASE state = "PRESSED" /\ Pressed(e, p)
  <2>1. pressing = Off
    BY <1>4, <1>off DEF LongStates, LongLongStates
  <2>2. CASE e = "RELEASED" /\ Clicked
    <3>1. cnt' \in 0 .. CntMod - 1
      BY <2>2, Durations DEF Clicked, TypeOK
    <3>2. /\ state' = "WAIT_MULTI" /\ stateTimer' = Multi /\ pressing' = Off /\ out' = <<>>
          /\ toSend' \in Masks
      BY <2>1, <2>2 DEF Clicked, TypeOK
    <3>3. stateTimer' \in Timers(LongLong + Multi) /\ stateTimer' # Off
      BY <3>2, Durations DEF Timers, Off
    <3>4. TimersMatch' /\ HeldLongEnough'
      BY <3>2, <3>3, <2>2, <1>up DEF TimersMatch, HeldLongEnough, LongStates, LongLongStates, Called
    <3>5. LongPressHeld' /\ out' \in Seq(Msg)
      BY <3>2 DEF LongPressHeld
    <3> QED
      BY <3>1, <3>2, <3>3, <3>4, <3>5 DEF HandlerOK, States, Timers, Called
  <2>3. CASE e = "COMB"
    BY <1>4, <2>1, <2>3, <1>single, <1>others, <1>press, SayOne DEF Pressed
  <2>4. CASE e = "TIME_OUT"
    BY <1>4, <2>4, <1>long DEF Pressed, LongStates, LongTypes
  <2> QED
    BY <1>4, <2>2, <2>3, <2>4 DEF Pressed
<1>5. CASE state = "WAIT_MULTI" /\ WaitMulti(e, p)
  <2>1. pressing = Off
    BY <1>5, <1>off DEF LongStates, LongLongStates
  <2>2. CASE e = "SINGLE"
    BY <1>5, <2>1, <2>2, <1>single, <1>others, <1>press, SayNothing, SayTwo DEF WaitMulti, Click
  <2>3. CASE e = "COMB"
    BY <1>5, <2>1, <2>3, <1>single, <1>others, <1>press, SayTwo DEF WaitMulti
  <2>4. CASE e = "TIME_OUT"
    <3>1. p = {}
      BY <1>5, <2>4, <1>timeout DEF HeldLongEnough
    <3> QED
      BY <1>5, <2>1, <2>4, <3>1, <1>others, <1>end DEF WaitMulti, Click
  <2> QED
    BY <1>5, <2>2, <2>3, <2>4 DEF WaitMulti
<1>6. CASE state = "LONG_PRESSED" /\ LongPressed(e, p)
  <2>1. CASE e = "RELEASED"
    BY <1>6, <2>1, <1>up, <1>others, <1>end DEF LongPressed
  <2>2. CASE e = "COMB"
    BY <1>6, <2>2, <1>single, <1>others, <1>press, SayTwo DEF LongPressed
  <2>3. CASE e = "TIME_OUT"
    BY <1>6, <2>3, <1>longlong DEF LongPressed, LongStates, LongLongStates, LongLongTypes
  <2> QED
    BY <1>6, <2>1, <2>2, <2>3 DEF LongPressed
<1>7. CASE state = "LONG_LONG_PRESSED" /\ LongLongPressed(e, p)
  <2>1. stateTimer = Off
    BY <1>7 DEF TimersMatch, LongLongStates
  <2>2. CASE e = "RELEASED"
    BY <1>7, <2>1, <2>2, <1>up, <1>others, <1>end DEF LongLongPressed
  <2>3. CASE e = "COMB"
    BY <1>7, <2>3, <1>single, <1>others, <1>press, SayTwo DEF LongLongPressed
  <2> QED
    BY <1>7, <2>2, <2>3 DEF LongLongPressed
<1>8. CASE state = "COMB_JUST_PRESSED" /\ CombJustPressed(e, p)
  <2>1. pressing = Off
    BY <1>8, <1>off DEF LongStates, LongLongStates
  <2>2. CASE e = "RELEASED"
    BY <1>8, <2>1, <2>2, <1>up, <1>others, <1>end DEF CombJustPressed
  <2>3. CASE e \in {"SINGLE", "COMB"}
    BY <1>8, <2>1, <2>3, <1>single, <1>others, <1>press, SayOne, SayTwo DEF CombJustPressed
  <2>4. CASE e = "TIME_OUT"
    BY <1>8, <2>4, <1>grow DEF CombJustPressed
  <2> QED
    BY <1>8, <2>2, <2>3, <2>4 DEF CombJustPressed
<1>9. CASE state = "COMB_PRESSED" /\ CombPressed(e, p)
  <2>1. pressing = Off
    BY <1>9, <1>off DEF LongStates, LongLongStates
  <2>2. CASE e = "RELEASED"
    BY <1>9, <2>1, <2>2, <1>up, <1>others, <1>end DEF CombPressed
  <2>3. CASE e \in {"SINGLE", "COMB"}
    BY <1>9, <2>1, <2>3, <1>single, <1>others, <1>press, SayTwo DEF CombPressed
  <2>4. CASE e = "TIME_OUT"
    BY <1>9, <2>4, <1>long DEF CombPressed, LongStates, LongTypes
  <2> QED
    BY <1>9, <2>2, <2>3, <2>4 DEF CombPressed
<1>10. CASE state = "COMB_LONG_PRESSED" /\ CombLongPressed(e, p)
  <2>1. CASE e = "RELEASED"
    BY <1>10, <2>1, <1>up, <1>others, <1>end DEF CombLongPressed
  <2>2. CASE e \in {"SINGLE", "COMB"}
    BY <1>10, <2>2, <1>single, <1>others, <1>press, SayTwo DEF CombLongPressed
  <2>3. CASE e = "TIME_OUT"
    BY <1>10, <2>3, <1>longlong DEF CombLongPressed, LongStates, LongLongStates, LongLongTypes
  <2> QED
    BY <1>10, <2>1, <2>2, <2>3 DEF CombLongPressed
<1>11. CASE state = "COMB_LONG_LONG_PRESSED" /\ CombLongLongPressed(e, p)
  <2>1. stateTimer = Off
    BY <1>11 DEF TimersMatch, LongLongStates
  <2>2. CASE e = "RELEASED"
    BY <1>11, <2>1, <2>2, <1>up, <1>others, <1>end DEF CombLongLongPressed
  <2>3. CASE e \in {"SINGLE", "COMB"}
    BY <1>11, <2>3, <1>single, <1>others, <1>press, SayTwo DEF CombLongLongPressed
  <2> QED
    BY <1>11, <2>2, <2>3 DEF CombLongLongPressed
<1> QED
  BY <1>1, <1>2, <1>3, <1>4, <1>5, <1>6, <1>7, <1>8, <1>9, <1>10, <1>11 DEF Handle
-----------------------------------------------------------------------------
(* The steps.                                                                *)

\* The part of the invariant that the pins and the queue make up.
InputOK ==
    /\ pins \in Masks /\ last \in Masks /\ sample \in Masks
    /\ irq \in BOOLEAN /\ woken \in BOOLEAN /\ shake \in Timers(Anti)
    /\ toggles \in Seq(Masks) /\ pressed \in Masks /\ saved = pressed
    /\ SampleCurrent /\ NothingMissed

LEMMA Parts == IInv <=> HandlerOK /\ InputOK
  BY DEF IInv, HandlerOK, InputOK, TypeOK

LEMMA Whole == HandlerOK' /\ InputOK' => IInv'
  BY DEF IInv, HandlerOK, InputOK, TypeOK

\* A step outside the task posts nothing and leaves the task as it is.
LEMMA TaskKept ==
  ASSUME IInv, TaskIdle, UNCHANGED <<stateTimer, pressing, held>>
  PROVE  HandlerOK'
<1>1. HandlerOK
  BY Parts
<1>2. out' = <<>> /\ <<>> \in Seq(Msg)
  BY DEF TaskIdle
<1>3. TimersMatch' /\ HeldLongEnough'
  BY <1>1 DEF TaskIdle, HandlerOK, TimersMatch, HeldLongEnough
<1>4. LongPressHeld'
  BY <1>2 DEF LongPressHeld
<1> QED
  BY <1>1, <1>2, <1>3, <1>4 DEF HandlerOK, TaskIdle

\* A step of the task that takes no message leaves the input as it is.
LEMMA InputKept ==
  ASSUME IInv, UNCHANGED <<input, toggles, pressed, saved>>
  PROVE  InputOK'
  BY Parts DEF input, InputOK, SampleCurrent, NothingMissed, Latest

LEMMA EdgeStep == IInv /\ Edge => IInv'
<1> SUFFICES ASSUME IInv, Edge PROVE IInv'
  OBVIOUS
<1>1. PICK p \in Masks : pins' = p /\ irq' = (irq \/ p # last)
  BY DEF Edge
<1>2. TaskIdle /\ UNCHANGED <<last, sample, shake, woken, toggles, stateTimer, pressing, held>>
  BY DEF Edge
<1>3. HandlerOK'
  BY <1>2, TaskKept
<1>4. InputOK
  BY Parts
<1>5. SampleCurrent' /\ irq' \in BOOLEAN
  BY <1>1, <1>2, <1>4 DEF SampleCurrent, InputOK
<1>6. NothingMissed'
  <2>1. CASE p = last /\ irq' = FALSE
    BY <1>1, <1>2, <1>4, <2>1 DEF NothingMissed, SampleCurrent, Latest, InputOK, TaskIdle
  <2>2. CASE irq' = TRUE
    BY <2>2 DEF NothingMissed
  <2> QED
    BY <1>1, <1>5, <2>1, <2>2
<1>7. InputOK'
  BY <1>1, <1>2, <1>4, <1>5, <1>6 DEF InputOK, TaskIdle
<1> QED
  BY <1>3, <1>7, Whole

LEMMA IsrStep == IInv /\ Isr => IInv'
<1> SUFFICES ASSUME IInv, Isr PROVE IInv'
  OBVIOUS
<1>1. HandlerOK'
  BY TaskKept DEF Isr
<1>2. InputOK
  BY Parts
<1>3. Anti \in Timers(Anti) /\ Anti # Off
  BY Durations DEF Timers, Off
<1>4. SampleCurrent' /\ NothingMissed'
  BY <1>3 DEF Isr, SampleCurrent, NothingMissed
<1>5. InputOK'
  BY <1>2, <1>3, <1>4 DEF Isr, InputOK, TaskIdle
<1> QED
  BY <1>1, <1>5, Whole

LEMMA AntiShakeStep == IInv /\ AntiShake => IInv'
<1> SUFFICES ASSUME IInv, AntiShake PROVE IInv'
  OBVIOUS
<1>1. HandlerOK'
  BY TaskKept DEF AntiShake
<1>2. InputOK
  BY Parts
<1>3. shake # Off /\ Off \in Timers(Anti)
  BY DEF AntiShake, Off, Timers
<1>4. SampleCurrent'
  BY <1>2 DEF AntiShake, InputOK, SampleCurrent
<1>5. CASE pins = sample
  <2>1. toggles \in Seq(Masks) /\ pins \in Masks
    BY <1>2 DEF InputOK
  <2>2. toggles' = Append(toggles, pins)
    BY <1>5 DEF AntiShake
  <2>3. /\ toggles' \in Seq(Masks) /\ Len(toggles') = Len(toggles) + 1
        /\ toggles'[Len(toggles')] = pins
        /\ toggles' # <<>>
    BY <2>1, <2>2
  <2>4. Latest' = pins
    BY <2>3 DEF Latest
  <2>5. NothingMissed'
    BY <2>4 DEF NothingMissed, AntiShake
  <2>6. InputOK'
    BY <1>2, <1>3, <1>4, <2>3, <2>5 DEF AntiShake, InputOK, TaskIdle
  <2> QED
    BY <1>1, <2>6, Whole
<1>6. CASE pins # sample
  <2>1. irq = TRUE /\ toggles' = toggles
    BY <1>2, <1>3, <1>6 DEF InputOK, SampleCurrent, AntiShake
  <2>2. NothingMissed'
    BY <2>1 DEF NothingMissed, AntiShake
  <2>3. InputOK'
    BY <1>2, <1>3, <1>4, <2>1, <2>2 DEF AntiShake, InputOK, TaskIdle
  <2> QED
    BY <1>1, <2>3, Whole
<1> QED
  BY <1>5, <1>6

LEMMA TimeoutStep == IInv /\ StateTimeout => IInv'
<1> SUFFICES ASSUME IInv, StateTimeout PROVE IInv'
  OBVIOUS
<1>1. Called("TIME_OUT", pressed) /\ pressed \in Masks
  BY Parts DEF StateTimeout, Called, HandlerOK, InputOK
<1>2. HandlerOK'
  BY <1>1, HandleOK DEF IInv, StateTimeout
<1>3. InputOK'
  BY InputKept DEF StateTimeout
<1> QED
  BY <1>2, <1>3, Whole

LEMMA PressingStep == IInv /\ PressingTimeout => IInv'
<1> SUFFICES ASSUME IInv, PressingTimeout PROVE IInv'
  OBVIOUS
<1> DEFINE m == IF pressed = {} \/ Single(pressed) THEN "LONG_PRESSING" ELSE "COMB_LONG_PRESSING"
<1>0. HandlerOK /\ InputOK
  BY Parts
<1>1. m \in Others
  BY DEF Others, Types, LongTypes, LongLongTypes
<1>2. To(state, stateTimer, Pressing, <<m>>, pressed)
  BY DEF PressingTimeout, To
<1>3. Pressing \in Timers(Pressing) /\ Pressing # Off /\ pressing # Off
  BY Durations DEF Timers, Off, PressingTimeout
<1>4. Fits(state, stateTimer, Pressing, pressed, held)
  BY <1>0, <1>3 DEF HandlerOK, Fits, TimersMatch, HeldLongEnough
<1>5. HandlerOK'
  <2>1. held' = held /\ pressed' = pressed /\ held \in 0 .. LongLong /\ pressed \in Masks
    BY <1>0 DEF PressingTimeout, HandlerOK, InputOK
  <2> HIDE DEF m
  <2> QED
    BY <1>1, <1>2, <1>4, <2>1, SayOne, RowOK DEF IInv
<1>6. InputOK'
  BY InputKept DEF PressingTimeout
<1> QED
  BY <1>5, <1>6, Whole

LEMMA ToggleStep == IInv /\ Toggle => IInv'
<1> SUFFICES ASSUME IInv, Toggle PROVE IInv'
  OBVIOUS
<1>1. HandlerOK /\ InputOK
  BY Parts
<1>2. toggles \in Seq(Masks) /\ toggles # <<>>
  BY <1>1 DEF InputOK, Toggle
<1>3. PICK p \in Masks : p = Head(toggles)
  BY <1>2
<1>4. /\ toggles' = Tail(toggles) /\ pressed' = p /\ saved' = p
      /\ IF p = saved THEN Ignore("NONE", p) ELSE Handle(EventOf(p), p)
      /\ held' = IF p = {} \/ pressed = {} THEN 0 ELSE held
      /\ UNCHANGED input
  BY <1>3 DEF Toggle
<1>5. held \in 0 .. LongLong /\ held' \in 0 .. LongLong /\ 0 <= held
  <2>1. held \in 0 .. LongLong
    BY <1>1 DEF HandlerOK
  <2>2. 0 \in 0 .. LongLong
    BY Durations
  <2> QED
    BY <1>4, <2>1, <2>2
<1>6. HandlerOK'
  <2>1. CASE p = saved
    <3>1. p = pressed
      BY <1>1, <2>1 DEF InputOK
    <3>2. To(state, stateTimer, pressing, <<>>, p)
      BY <1>4, <2>1 DEF Ignore, Kept
    <3>3. Fits(state, stateTimer, pressing, p, held')
      <4>1. CASE pressed = {}
        <5>1. state \in {"IDLE", "WAIT_MULTI"}
          BY <1>1, <4>1 DEF HandlerOK, HeldLongEnough
        <5> QED
          BY <1>1, <3>1, <4>1, <5>1 DEF HandlerOK, Fits, TimersMatch, HeldLongEnough, LongStates
      <4>2. CASE pressed # {}
        <5>1. held' = held
          BY <1>4, <3>1, <4>2
        <5> QED
          BY <1>1, <3>1, <4>2, <5>1 DEF HandlerOK, Fits, TimersMatch, HeldLongEnough
      <4> QED
        BY <4>1, <4>2
    <3> QED
      BY <1>4, <1>5, <3>2, <3>3, SayNothing, RowOK DEF IInv
  <2>2. CASE p # saved
    <3>1. /\ EventOf(p) \in {"RELEASED", "SINGLE", "COMB"}
          /\ p = {} <=> EventOf(p) = "RELEASED"
      BY DEF EventOf
    <3>2. Called(EventOf(p), p)
      BY <1>4, <1>5, <3>1 DEF Called
    <3>3. Handle(EventOf(p), p)
      BY <1>4, <2>2
    <3> QED
      BY <3>2, <3>3, HandleOK DEF IInv
  <2> QED
    BY <2>1, <2>2
<1>7. NothingMissed'
  <2>1. Latest' = Latest
    <3>1. CASE Len(toggles) = 1
      <4>1. toggles' = <<>>
        BY <1>2, <1>4, <3>1
      <4>2. Latest = p
        BY <1>2, <1>3, <3>1 DEF Latest
      <4> QED
        BY <1>4, <4>1, <4>2 DEF Latest
    <3>2. CASE Len(toggles) # 1
      <4>1. Len(toggles) \in Nat /\ Len(toggles) > 1
        <5>1. Len(toggles) \in Nat \ {0}
          BY <1>2, EmptySeq
        <5> QED
          BY <3>2, <5>1
      <4>2. /\ Len(toggles') = Len(toggles) - 1 /\ toggles' # <<>>
            /\ toggles'[Len(toggles) - 1] = toggles[Len(toggles)]
        <5>1. /\ Tail(toggles) \in Seq(Masks)
              /\ Len(Tail(toggles)) = Len(toggles) - 1
              /\ \A i \in 1 .. Len(Tail(toggles)) : Tail(toggles)[i] = toggles[i + 1]
          BY <1>2, HeadTailProperties
        <5>2. Len(toggles) - 1 \in 1 .. Len(Tail(toggles)) /\ Len(toggles) - 1 + 1 = Len(toggles)
          BY <4>1, <5>1
        <5>3. Tail(toggles) # <<>>
          <6>1. Len(Tail(toggles)) # 0
            BY <4>1, <5>1
          <6>2. Len(<<>>) = 0
            BY EmptySeq
          <6> QED
            BY <6>1, <6>2
        <5> QED
          BY <1>4, <5>1, <5>2, <5>3
      <4> QED
        BY <1>2, <4>2 DEF Latest
    <3> QED
      BY <3>1, <3>2
  <2> QED
    BY <1>1, <1>4, <2>1 DEF InputOK, NothingMissed, input
<1>8. Tail(toggles) \in Seq(Masks)
  BY <1>2
<1>9. InputOK'
  BY <1>1, <1>4, <1>7, <1>8 DEF InputOK, SampleCurrent, input
<1> QED
  BY <1>6, <1>9, Whole

\* A timer that runs counts down, one that is off or due stays so.
LEMMA DownTimer ==
  ASSUME NEW limit \in Nat, NEW t \in Timers(limit)
  PROVE  /\ Down(t) \in Timers(limit)
         /\ Down(t) = Off <=> t = Off
         /\ t # Off => Down(t) >= t - 1 /\ Down(t) <= t
  BY DEF Down, Timers, Off

LEMMA TickStep == IInv /\ Tick => IInv'
<1> SUFFICES ASSUME IInv, Tick PROVE IInv'
  OBVIOUS
<1>1. HandlerOK /\ InputOK
  BY Parts
<1>2. /\ stateTimer' = Down(stateTimer) /\ pressing' = Down(pressing) /\ shake' = Down(shake)
      /\ TaskIdle /\ UNCHANGED <<pins, last, irq, sample, woken, toggles>>
      /\ held' = IF pressed # {} /\ held < LongLong THEN held + 1 ELSE held
  BY DEF Tick
<1>3. PICK t : t = stateTimer
  OBVIOUS
<1>4. PICK h : h = held
  OBVIOUS
<1>5. PICK d : d = Down(t)
  OBVIOUS
<1>6. PICK g : g = IF pressed # {} /\ h < LongLong THEN h + 1 ELSE h
  OBVIOUS
<1>7. t \in Timers(LongLong + Multi) /\ h \in 0 .. LongLong
  BY <1>1, <1>3, <1>4 DEF HandlerOK
<1>8. /\ d \in Timers(LongLong + Multi)
      /\ d = Off <=> t = Off
      /\ t # Off => d >= t - 1 /\ d <= t
  BY <1>5, <1>7, Durations, DownTimer
<1>9. g \in 0 .. LongLong /\ g >= h
  BY <1>6, <1>7, Durations
<1>10. TimersMatch'
  <2>1. pressing \in Timers(Pressing) /\ (Down(pressing) = Off <=> pressing = Off)
    BY <1>1, Durations, DownTimer DEF HandlerOK
  <2>2. stateTimer' = Off <=> stateTimer = Off
    BY <1>2, <1>3, <1>5, <1>8
  <2>3. pressing' = Off <=> pressing = Off
    BY <1>2, <2>1
  <2>4. state' = state
    BY <1>2 DEF TaskIdle
  <2> QED
    BY <1>1, <2>2, <2>3, <2>4 DEF HandlerOK, TimersMatch
<1>11. HeldLongEnough'
  <2>1. ASSUME NEW n \in Nat, n <= LongLong, pressed # {}, t # Off, h + t >= n
        PROVE  g + d >= n
    <3>1. t \in Nat /\ d \in Nat
      BY <1>7, <1>8, <2>1, Durations DEF Timers, Off
    <3>2. CASE h < LongLong
      BY <1>6, <1>7, <1>8, <2>1, <3>1, <3>2, Durations
    <3>3. CASE h = LongLong
      BY <1>7, <1>9, <2>1, <3>1, <3>3, Durations
    <3> QED
      BY <1>7, <3>2, <3>3, Durations
  <2>2. state \in PressStates \cup CombStates => pressed # {}
    BY <1>1 DEF HandlerOK, HeldLongEnough, PressStates, CombStates
  <2>3. state \notin LongLongStates \cup {"IDLE"} => t # Off
    BY <1>1, <1>3 DEF HandlerOK, TimersMatch
  <2>4. /\ Short \in Nat /\ Short <= LongLong /\ Long \in Nat /\ Long <= LongLong
        /\ LongLong \in Nat /\ LongLong <= LongLong
    BY Durations
  <2>5. state \in {"JUST_PRESSED", "COMB_JUST_PRESSED"} => g + d >= Short
    BY <1>1, <1>3, <1>4, <2>1, <2>2, <2>3, <2>4
       DEF HandlerOK, HeldLongEnough, PressStates, CombStates, LongLongStates
  <2>6. state \in {"PRESSED", "COMB_PRESSED"} => g + d >= Long
    BY <1>1, <1>3, <1>4, <2>1, <2>2, <2>3, <2>4
       DEF HandlerOK, HeldLongEnough, PressStates, CombStates, LongLongStates
  <2>7. state \in LongStates => g + d >= LongLong
    BY <1>1, <1>3, <1>4, <2>1, <2>2, <2>3, <2>4
       DEF HandlerOK, HeldLongEnough, PressStates, CombStates, LongStates, LongLongStates
  <2>8. stateTimer' = d /\ held' = g /\ state' = state /\ pressed' = pressed
    BY <1>2, <1>3, <1>4, <1>5, <1>6 DEF TaskIdle
  <2> QED
    BY <1>1, <2>5, <2>6, <2>7, <2>8 DEF HandlerOK, HeldLongEnough
<1>12. HandlerOK'
  <2>1. /\ stateTimer' \in Timers(LongLong + Multi) /\ held' \in 0 .. LongLong
        /\ pressing' \in Timers(Pressing)
    BY <1>1, <1>2, <1>3, <1>4, <1>5, <1>6, <1>8, <1>9, Durations, DownTimer DEF HandlerOK
  <2>2. out' = <<>> /\ <<>> \in Seq(Msg)
    BY <1>2 DEF TaskIdle
  <2>3. LongPressHeld'
    BY <2>2 DEF LongPressHeld
  <2> QED
    BY <1>1, <1>2, <1>10, <1>11, <2>1, <2>2, <2>3 DEF HandlerOK, TaskIdle
<1>13. InputOK'
  <2>1. shake \in Timers(Anti)
    BY <1>1 DEF InputOK
  <2>2. Down(shake) \in Timers(Anti) /\ (Down(shake) = Off <=> shake = Off)
    BY <2>1, Durations, DownTimer
  <2> QED
    BY <1>1, <1>2, <2>2 DEF InputOK, SampleCurrent, NothingMissed, Latest, TaskIdle
<1> QED
  BY <1>12, <1>13, Whole

LEMMA StutterStep == IInv /\ UNCHANGED vars => IInv'
<1> SUFFICES ASSUME IInv, UNCHANGED vars PROVE IInv'
  OBVIOUS
<1>1. HandlerOK /\ InputOK
  BY Parts
<1>2. HandlerOK'
  BY <1>1 DEF vars, task, HandlerOK, TimersMatch, HeldLongEnough, LongPressHeld
<1>3. InputOK'
  BY InputKept DEF vars, task
<1> QED
  BY <1>2, <1>3, Whole

-----------------------------------------------------------------------------
(* The order of the messages: each row of the state machine is a step of       *)
(* Gestures.                                                                 *)

OneMove(from, m, to) == Promise!Moves(Promise!OneSteps, "LONG_PRESSING", from, m, to)
CombMove(from, m, to) == Promise!Moves(Promise!CombSteps, "COMB_LONG_PRESSING", from, m, to)

OneTypes == {"LONG_PRESSED", "LONG_LONG_PRESSED", "LONG_RELEASED", "LONG_LONG_RELEASED",
             "PRESSED", "RELEASED", "SHORT_PRESSED", "MULTI_PRESSED"}
CombTypes == {"COMB_PRESSED", "COMB_RELEASED", "COMB_SHORT_PRESSED", "COMB_LONG_PRESSED",
              "COMB_LONG_LONG_PRESSED", "COMB_LONG_RELEASED", "COMB_LONG_LONG_RELEASED"}

\* The messages about a single button.
LEMMA OneTable ==
    /\ OneMove("none", "LONG_PRESSED", "long")
    /\ OneMove("long", "LONG_LONG_PRESSED", "longlong")
    /\ OneMove("long", "LONG_RELEASED", "none")
    /\ OneMove("longlong", "LONG_LONG_RELEASED", "none")
    /\ \A m \in {"PRESSED", "RELEASED", "SHORT_PRESSED", "MULTI_PRESSED"} :
          OneMove("none", m, "none")
    /\ \A from \in {"long", "longlong"} : OneMove(from, "LONG_PRESSING", from)
    /\ \A m \in CombTypes \cup {"COMB_LONG_PRESSING"}, from \in Promise!Phases :
          OneMove(from, m, from)
<1>1. DOMAIN Promise!OneSteps = OneTypes
  BY DEF Promise!OneSteps, OneTypes
<1> QED
  BY <1>1 DEF OneMove, Promise!Moves, Promise!OneSteps, OneTypes, CombTypes

\* The messages about several.
LEMMA CombTable ==
    /\ CombMove("none", "COMB_PRESSED", "down")
    /\ CombMove("down", "COMB_RELEASED", "none")
    /\ CombMove("down", "COMB_SHORT_PRESSED", "none")
    /\ CombMove("down", "COMB_LONG_PRESSED", "long")
    /\ CombMove("long", "COMB_LONG_LONG_PRESSED", "longlong")
    /\ CombMove("long", "COMB_LONG_RELEASED", "none")
    /\ CombMove("longlong", "COMB_LONG_LONG_RELEASED", "none")
    /\ \A from \in {"long", "longlong"} : CombMove(from, "COMB_LONG_PRESSING", from)
    /\ \A m \in OneTypes \cup {"LONG_PRESSING"}, from \in Promise!Phases : CombMove(from, m, from)
<1>1. DOMAIN Promise!CombSteps = CombTypes
  BY DEF Promise!CombSteps, CombTypes
<1> QED
  BY <1>1 DEF CombMove, Promise!Moves, Promise!CombSteps, OneTypes, CombTypes

\* No message leads nowhere, and one or two lead where their steps do.
LEMMA LegalNone ==
  ASSUME NEW steps, NEW repeat, NEW from \in Promise!Phases, NEW ms, Len(ms) = 0
  PROVE  Promise!Legal(steps, repeat, from, from, ms)
<1> DEFINE at == [i \in 0 .. 0 |-> from]
<1>1. at \in [0 .. Len(ms) -> Promise!Phases] /\ at[0] = from /\ at[Len(ms)] = from
  OBVIOUS
<1>2. \A i \in 1 .. Len(ms) : FALSE
  OBVIOUS
<1> HIDE DEF at
<1> QED
  BY <1>1, <1>2 DEF Promise!Legal

LEMMA LegalOne ==
  ASSUME NEW steps, NEW repeat, NEW from \in Promise!Phases, NEW to \in Promise!Phases,
         NEW ms, Len(ms) = 1, Promise!Moves(steps, repeat, from, ms[1].type, to)
  PROVE  Promise!Legal(steps, repeat, from, to, ms)
<1> DEFINE at == [i \in 0 .. 1 |-> IF i = 0 THEN from ELSE to]
<1>1. at \in [0 .. Len(ms) -> Promise!Phases] /\ at[0] = from /\ at[1] = to
  OBVIOUS
<1> HIDE DEF at
<1>2. \A i \in 1 .. Len(ms) : i = 1 /\ i - 1 = 0
  OBVIOUS
<1>3. \A i \in 1 .. Len(ms) : Promise!Moves(steps, repeat, at[i - 1], ms[i].type, at[i])
  BY <1>1, <1>2
<1> QED
  BY <1>1, <1>3 DEF Promise!Legal

LEMMA LegalTwo ==
  ASSUME NEW steps, NEW repeat, NEW from \in Promise!Phases, NEW mid \in Promise!Phases,
         NEW to \in Promise!Phases, NEW ms, Len(ms) = 2,
         Promise!Moves(steps, repeat, from, ms[1].type, mid),
         Promise!Moves(steps, repeat, mid, ms[2].type, to)
  PROVE  Promise!Legal(steps, repeat, from, to, ms)
<1> DEFINE at == [i \in 0 .. 2 |-> IF i = 0 THEN from ELSE IF i = 1 THEN mid ELSE to]
<1>1. /\ at \in [0 .. Len(ms) -> Promise!Phases]
      /\ at[0] = from /\ at[1] = mid /\ at[2] = to
  OBVIOUS
<1> HIDE DEF at
<1>2. \A i \in 1 .. Len(ms) : (i = 1 /\ i - 1 = 0) \/ (i = 2 /\ i - 1 = 1)
  OBVIOUS
<1>3. \A i \in 1 .. Len(ms) : Promise!Moves(steps, repeat, at[i - 1], ms[i].type, at[i])
  BY <1>1, <1>2
<1> QED
  BY <1>1, <1>3 DEF Promise!Legal

\* Of two buttons there is only one combination.
LEMMA OneCombination ==
  ASSUME IsFiniteSet(Buttons), Cardinality(Buttons) <= 2,
         NEW p \in Masks, p # {}, ~Single(p), NEW q \in Masks, q # {}, ~Single(q)
  PROVE  p = q
<1>1. ASSUME NEW m \in Masks, m # {}, ~Single(m) PROVE m = Buttons
  <2>1. /\ IsFiniteSet(m) /\ Cardinality(m) <= Cardinality(Buttons)
        /\ Cardinality(m) = Cardinality(Buttons) => m = Buttons
    BY <1>1, FS_Subset DEF Masks
  <2>2. Cardinality(m) \in Nat /\ Cardinality(m) # 0 /\ Cardinality(Buttons) \in Nat
    BY <1>1, <2>1, FS_CardinalityType, FS_EmptySet
  <2>3. Cardinality(m) # 1
    BY <1>1 DEF Single
  <2> QED
    BY <2>1, <2>2, <2>3
<1> QED
  BY <1>1

LEMMA PhaseTypes ==
  ASSUME NEW s
  PROVE  PhaseOne(s) \in Promise!Phases /\ PhaseComb(s) \in Promise!Phases
BY DEF PhaseOne, PhaseComb, Promise!Phases

\* A row of the state machine whose messages lead from the phases of the state
\* to those of the next one.
LEMMA RowNone ==
  ASSUME PhaseOne(state') = PhaseOne(state), PhaseComb(state') = PhaseComb(state), out' = <<>>
  PROVE  Promise!Next
<1>1. Len(out') = 0
  OBVIOUS
<1> QED
  BY <1>1, PhaseTypes, LegalNone DEF Promise!Next

LEMMA RowOne ==
  ASSUME TypeOK, NEW s, NEW t, NEW r, NEW m \in Types, NEW p \in Masks,
         To(s, t, r, <<m>>, p),
         OneMove(PhaseOne(state), m, PhaseOne(s)),
         CombMove(PhaseComb(state), m, PhaseComb(s))
  PROVE  Promise!Next
<1> DEFINE types == <<m>>
<1>1. types \in Seq(Types) /\ Len(types) = 1 /\ types[1] = m
  OBVIOUS
<1>2. Send(types, p) /\ state' = s
  BY DEF To
<1> HIDE DEF types
<1>3. Len(out') = 1 /\ out'[1].type = m
  BY <1>1, <1>2, SendPosts
<1>4. PhaseOne(state)' = PhaseOne(s) /\ PhaseComb(state)' = PhaseComb(s)
  BY <1>2 DEF PhaseOne, PhaseComb
<1>5. Promise!Legal(Promise!OneSteps, "LONG_PRESSING", PhaseOne(state), PhaseOne(s), out')
  BY <1>3, PhaseTypes, LegalOne DEF OneMove
<1>6. Promise!Legal(Promise!CombSteps, "COMB_LONG_PRESSING", PhaseComb(state), PhaseComb(s), out')
  BY <1>3, PhaseTypes, LegalOne DEF CombMove
<1> QED
  BY <1>4, <1>5, <1>6 DEF Promise!Next

LEMMA RowTwo ==
  ASSUME TypeOK, NEW s, NEW t, NEW r, NEW m \in Types, NEW n \in Types, NEW p \in Masks,
         To(s, t, r, <<m, n>>, p),
         NEW one \in Promise!Phases, NEW comb \in Promise!Phases,
         OneMove(PhaseOne(state), m, one), OneMove(one, n, PhaseOne(s)),
         CombMove(PhaseComb(state), m, comb), CombMove(comb, n, PhaseComb(s))
  PROVE  Promise!Next
<1> DEFINE types == <<m, n>>
<1>1. types \in Seq(Types) /\ Len(types) = 2 /\ types[1] = m /\ types[2] = n
  OBVIOUS
<1>2. Send(types, p) /\ state' = s
  BY DEF To
<1> HIDE DEF types
<1>3. Len(out') = 2 /\ out'[1].type = m /\ out'[2].type = n
  BY <1>1, <1>2, SendPosts
<1>4. PhaseOne(state)' = PhaseOne(s) /\ PhaseComb(state)' = PhaseComb(s)
  BY <1>2 DEF PhaseOne, PhaseComb
<1>5. Promise!Legal(Promise!OneSteps, "LONG_PRESSING", PhaseOne(state), PhaseOne(s), out')
  BY <1>3, PhaseTypes, LegalTwo DEF OneMove
<1>6. Promise!Legal(Promise!CombSteps, "COMB_LONG_PRESSING", PhaseComb(state), PhaseComb(s), out')
  BY <1>3, PhaseTypes, LegalTwo DEF CombMove
<1> QED
  BY <1>4, <1>5, <1>6 DEF Promise!Next

\* Messages that lead from the phases of state s to those of state t.
Leads(types, s, t) ==
    \/ types = <<>> /\ PhaseOne(s) = PhaseOne(t) /\ PhaseComb(s) = PhaseComb(t)
    \/ \E m \in Types :
          /\ types = <<m>>
          /\ OneMove(PhaseOne(s), m, PhaseOne(t)) /\ CombMove(PhaseComb(s), m, PhaseComb(t))
    \/ \E m, n \in Types, one, comb \in Promise!Phases :
          /\ types = <<m, n>>
          /\ OneMove(PhaseOne(s), m, one) /\ OneMove(one, n, PhaseOne(t))
          /\ CombMove(PhaseComb(s), m, comb) /\ CombMove(comb, n, PhaseComb(t))

LEMMA Row ==
  ASSUME TypeOK, NEW s, NEW t, NEW r, NEW types, NEW p \in Masks,
         To(s, t, r, types, p), Leads(types, state, s)
  PROVE  Promise!Next
<1>1. CASE types = <<>> /\ PhaseOne(state) = PhaseOne(s) /\ PhaseComb(state) = PhaseComb(s)
  <2>1. state' = s /\ out' = <<>>
    BY <1>1 DEF To, Send
  <2>2. PhaseOne(state)' = PhaseOne(state) /\ PhaseComb(state)' = PhaseComb(state)
    BY <1>1, <2>1 DEF PhaseOne, PhaseComb
  <2> QED
    BY <2>1, <2>2, RowNone
<1> QED
  BY <1>1, RowOne, RowTwo DEF Leads

\* The phases of the states, and the messages between them.
LEMMA PhaseTable ==
    /\ \A s \in {"IDLE", "JUST_PRESSED", "PRESSED", "WAIT_MULTI"} :
          PhaseOne(s) = "none" /\ PhaseComb(s) = "none"
    /\ PhaseOne("LONG_PRESSED") = "long" /\ PhaseComb("LONG_PRESSED") = "none"
    /\ PhaseOne("LONG_LONG_PRESSED") = "longlong" /\ PhaseComb("LONG_LONG_PRESSED") = "none"
    /\ \A s \in {"COMB_JUST_PRESSED", "COMB_PRESSED"} :
          PhaseOne(s) = "none" /\ PhaseComb(s) = "down"
    /\ PhaseOne("COMB_LONG_PRESSED") = "none" /\ PhaseComb("COMB_LONG_PRESSED") = "long"
    /\ PhaseOne("COMB_LONG_LONG_PRESSED") = "none"
    /\ PhaseComb("COMB_LONG_LONG_PRESSED") = "longlong"
BY DEF PhaseOne, PhaseComb

LEMMA LeadsOne ==
  ASSUME NEW m \in Types, NEW s, NEW t,
         OneMove(PhaseOne(s), m, PhaseOne(t)), CombMove(PhaseComb(s), m, PhaseComb(t))
  PROVE  Leads(<<m>>, s, t)
BY DEF Leads

LEMMA LeadsTwo ==
  ASSUME NEW m \in Types, NEW n \in Types, NEW s, NEW t,
         NEW one \in Promise!Phases, NEW comb \in Promise!Phases,
         OneMove(PhaseOne(s), m, one), OneMove(one, n, PhaseOne(t)),
         CombMove(PhaseComb(s), m, comb), CombMove(comb, n, PhaseComb(t))
  PROVE  Leads(<<m, n>>, s, t)
BY DEF Leads

LEMMA KnownTypes == OneTypes \cup CombTypes \subseteq Types
BY DEF OneTypes, CombTypes, Types

LEMMA KnownPhases == {"none", "down", "long", "longlong"} \subseteq Promise!Phases
BY DEF Promise!Phases

\* The rows of the state machine that post nothing, one message, or two.
LEMMA SilentRows ==
    /\ Leads(<<>>, "JUST_PRESSED", "PRESSED")
    /\ Leads(<<>>, "WAIT_MULTI", "JUST_PRESSED")
    /\ Leads(<<>>, "COMB_JUST_PRESSED", "COMB_PRESSED")
BY PhaseTable DEF Leads

LEMMA SingleRows ==
    /\ Leads(<<"PRESSED">>, "IDLE", "JUST_PRESSED")
    /\ Leads(<<"COMB_PRESSED">>, "IDLE", "COMB_JUST_PRESSED")
    /\ Leads(<<"RELEASED">>, "JUST_PRESSED", "IDLE")
    /\ Leads(<<"COMB_PRESSED">>, "JUST_PRESSED", "COMB_JUST_PRESSED")
    /\ Leads(<<"COMB_PRESSED">>, "PRESSED", "COMB_JUST_PRESSED")
    /\ Leads(<<"LONG_PRESSED">>, "PRESSED", "LONG_PRESSED")
    /\ Leads(<<"SHORT_PRESSED">>, "WAIT_MULTI", "IDLE")
    /\ Leads(<<"MULTI_PRESSED">>, "WAIT_MULTI", "IDLE")
    /\ Leads(<<"LONG_RELEASED">>, "LONG_PRESSED", "IDLE")
    /\ Leads(<<"LONG_LONG_PRESSED">>, "LONG_PRESSED", "LONG_LONG_PRESSED")
    /\ Leads(<<"LONG_LONG_RELEASED">>, "LONG_LONG_PRESSED", "IDLE")
    /\ Leads(<<"COMB_RELEASED">>, "COMB_JUST_PRESSED", "IDLE")
    /\ Leads(<<"COMB_SHORT_PRESSED">>, "COMB_PRESSED", "IDLE")
    /\ Leads(<<"COMB_LONG_PRESSED">>, "COMB_PRESSED", "COMB_LONG_PRESSED")
    /\ Leads(<<"COMB_LONG_RELEASED">>, "COMB_LONG_PRESSED", "IDLE")
    /\ Leads(<<"COMB_LONG_LONG_PRESSED">>, "COMB_LONG_PRESSED", "COMB_LONG_LONG_PRESSED")
    /\ Leads(<<"COMB_LONG_LONG_RELEASED">>, "COMB_LONG_LONG_PRESSED", "IDLE")
BY KnownTypes, KnownPhases, PhaseTable, OneTable, CombTable, LeadsOne
   DEF OneTypes, CombTypes

LEMMA DoubleRows ==
    /\ Leads(<<"SHORT_PRESSED", "PRESSED">>, "WAIT_MULTI", "JUST_PRESSED")
    /\ Leads(<<"MULTI_PRESSED", "PRESSED">>, "WAIT_MULTI", "JUST_PRESSED")
    /\ Leads(<<"COMB_PRESSED", "SHORT_PRESSED">>, "WAIT_MULTI", "COMB_JUST_PRESSED")
    /\ Leads(<<"COMB_PRESSED", "LONG_RELEASED">>, "LONG_PRESSED", "COMB_JUST_PRESSED")
    /\ Leads(<<"COMB_PRESSED", "LONG_LONG_RELEASED">>, "LONG_LONG_PRESSED", "COMB_JUST_PRESSED")
    /\ Leads(<<"COMB_RELEASED", "PRESSED">>, "COMB_JUST_PRESSED", "JUST_PRESSED")
    /\ Leads(<<"COMB_SHORT_PRESSED", "PRESSED">>, "COMB_PRESSED", "JUST_PRESSED")
    /\ Leads(<<"COMB_LONG_RELEASED", "PRESSED">>, "COMB_LONG_PRESSED", "JUST_PRESSED")
    /\ Leads(<<"COMB_LONG_LONG_RELEASED", "PRESSED">>, "COMB_LONG_LONG_PRESSED", "JUST_PRESSED")
BY KnownTypes, KnownPhases, PhaseTable, OneTable, CombTable, LeadsTwo
   DEF OneTypes, CombTypes

\* What the state says of the buttons that are down.
Match(s, p) ==
    /\ p = {} <=> s \in {"IDLE", "WAIT_MULTI"}
    /\ Single(p) <=> s \in PressStates

\* What the task has told the state functions: a time-out of the buttons that
\* are down, or the change to others.
Told(e, p) ==
    \/ e = "TIME_OUT" /\ p = pressed
    \/ e = EventOf(p) /\ p # pressed

LEMMA NoneIsNotOne == ~Single({})
BY FS_EmptySet DEF Single

LEMMA HandleInOrder ==
  ASSUME IsFiniteSet(Buttons), Cardinality(Buttons) <= 2, TypeOK,
         Match(state, pressed), NEW e, NEW p \in Masks, Told(e, p), Handle(e, p)
  PROVE  Match(state', p) /\ Promise!Next
<1> DEFINE Goal == Match(state', p) /\ Promise!Next
<1> SUFFICES Goal
  OBVIOUS
<1> USE DEF Match
<1>up. e = "RELEASED" => p = {}
  BY DEF Told, EventOf
<1>single. e = "SINGLE" => Single(p) /\ p # {}
  BY DEF Told, EventOf
<1>comb. e = "COMB" => ~Single(p) /\ p # {}
  BY DEF Told, EventOf
<1>timeout. e = "TIME_OUT" => p = pressed
  BY DEF Told, EventOf
<1>other. e = "COMB" => state \notin {"COMB_JUST_PRESSED", "COMB_PRESSED", "COMB_LONG_PRESSED",
                                      "COMB_LONG_LONG_PRESSED"}
  <2> SUFFICES ASSUME e = "COMB", state \in CombStates PROVE FALSE
    BY DEF CombStates
  <2>1. pressed # {} /\ ~Single(pressed) /\ pressed \in Masks
    BY DEF CombStates, PressStates, TypeOK
  <2>2. p # pressed
    BY DEF Told
  <2> QED
    BY <2>1, <2>2, <1>comb, OneCombination
<1> USE NoneIsNotOne DEF PressStates
<1>1. CASE <<state, e>> \in Ignored /\ Ignore(e, p)
  <2>1. state' = state /\ out' = <<>>
    BY <1>1 DEF Ignore, To, Send
  <2>2. Match(state, p)
    BY <1>1, <1>up, <1>single, <1>timeout DEF Ignored
  <2> QED
    BY <2>1, <2>2, RowNone
<1>row. ASSUME NEW s, NEW t, NEW r, NEW types,
               To(s, t, r, types, p), Leads(types, state, s), Match(s, p)
        PROVE  Goal
  BY <1>row, Row DEF To
<1>gone. e = "RELEASED" => Match("IDLE", p) /\ Match("WAIT_MULTI", p)
  BY <1>up
<1>alone. e = "SINGLE" => Match("JUST_PRESSED", p)
  BY <1>single
<1>together. e = "COMB" => Match("COMB_JUST_PRESSED", p)
  BY <1>comb
<1>stays. e = "TIME_OUT" => Match(state, p)
  BY <1>timeout
<1>late. e = "TIME_OUT" =>
           /\ state \in PressStates => \A t \in PressStates : Match(t, p)
           /\ state \in CombStates => \A t \in CombStates : Match(t, p)
           /\ state = "WAIT_MULTI" => Match("IDLE", p)
  BY <1>timeout DEF CombStates
<1> HIDE DEF Goal, Match
<1> USE <1>row DEF SinglePress, CombPress
<1>2. CASE state = "IDLE" /\ Idle(e, p)
  <2>1. CASE e = "SINGLE"
    BY <1>2, <2>1, <1>alone, SingleRows DEF Idle
  <2>2. CASE e = "COMB"
    BY <1>2, <2>2, <1>together, SingleRows DEF Idle
  <2> QED
    BY <1>2, <2>1, <2>2 DEF Idle
<1>3. CASE state = "JUST_PRESSED" /\ JustPressed(e, p)
  <2>1. CASE e = "RELEASED"
    BY <1>3, <2>1, <1>gone, SingleRows DEF JustPressed
  <2>2. CASE e = "COMB"
    BY <1>3, <2>2, <1>together, SingleRows DEF JustPressed
  <2>3. CASE e = "TIME_OUT"
    BY <1>3, <2>3, <1>late, SilentRows DEF JustPressed, PressStates
  <2> QED
    BY <1>3, <2>1, <2>2, <2>3 DEF JustPressed
<1>4. CASE state = "PRESSED" /\ Pressed(e, p)
  <2>1. CASE e = "RELEASED" /\ Clicked
    <3>1. state' = "WAIT_MULTI" /\ out' = <<>>
      BY <2>1 DEF Clicked
    <3>2. PhaseOne(state)' = PhaseOne(state) /\ PhaseComb(state)' = PhaseComb(state)
      BY <1>4, <3>1 DEF PhaseOne, PhaseComb
    <3>3. Match("WAIT_MULTI", p)
      BY <2>1, <1>gone
    <3> QED
      BY <3>1, <3>2, <3>3, RowNone DEF Goal
  <2>2. CASE e = "COMB"
    BY <1>4, <2>2, <1>together, SingleRows DEF Pressed
  <2>3. CASE e = "TIME_OUT"
    BY <1>4, <2>3, <1>late, SingleRows DEF Pressed, PressStates
  <2> QED
    BY <1>4, <2>1, <2>2, <2>3 DEF Pressed
<1>5. CASE state = "WAIT_MULTI" /\ WaitMulti(e, p)
  <2>1. CASE e = "SINGLE"
    BY <1>5, <2>1, <1>alone, SilentRows, DoubleRows DEF WaitMulti, Click
  <2>2. CASE e = "COMB"
    BY <1>5, <2>2, <1>together, DoubleRows DEF WaitMulti
  <2>3. CASE e = "TIME_OUT"
    BY <1>5, <2>3, <1>late, SingleRows DEF WaitMulti, Click
  <2> QED
    BY <1>5, <2>1, <2>2, <2>3 DEF WaitMulti
<1>6. CASE state = "LONG_PRESSED" /\ LongPressed(e, p)
  <2>1. CASE e = "RELEASED"
    BY <1>6, <2>1, <1>gone, SingleRows DEF LongPressed
  <2>2. CASE e = "COMB"
    BY <1>6, <2>2, <1>together, DoubleRows DEF LongPressed
  <2>3. CASE e = "TIME_OUT"
    BY <1>6, <2>3, <1>late, SingleRows DEF LongPressed, PressStates
  <2> QED
    BY <1>6, <2>1, <2>2, <2>3 DEF LongPressed
<1>7. CASE state = "LONG_LONG_PRESSED" /\ LongLongPressed(e, p)
  <2>1. CASE e = "RELEASED"
    BY <1>7, <2>1, <1>gone, SingleRows DEF LongLongPressed
  <2>2. CASE e = "COMB"
    BY <1>7, <2>2, <1>together, DoubleRows DEF LongLongPressed
  <2> QED
    BY <1>7, <2>1, <2>2 DEF LongLongPressed
<1>8. CASE state = "COMB_JUST_PRESSED" /\ CombJustPressed(e, p)
  <2>1. CASE e = "RELEASED"
    BY <1>8, <2>1, <1>gone, SingleRows DEF CombJustPressed
  <2>2. CASE e = "SINGLE"
    BY <1>8, <2>2, <1>alone, DoubleRows DEF CombJustPressed
  <2>3. CASE e = "TIME_OUT"
    BY <1>8, <2>3, <1>late, SilentRows DEF CombJustPressed, CombStates
  <2> QED
    BY <1>8, <2>1, <2>2, <2>3, <1>other DEF CombJustPressed
<1>9. CASE state = "COMB_PRESSED" /\ CombPressed(e, p)
  <2>1. CASE e = "RELEASED"
    BY <1>9, <2>1, <1>gone, SingleRows DEF CombPressed
  <2>2. CASE e = "SINGLE"
    BY <1>9, <2>2, <1>alone, DoubleRows DEF CombPressed
  <2>3. CASE e = "TIME_OUT"
    BY <1>9, <2>3, <1>late, SingleRows DEF CombPressed, CombStates
  <2> QED
    BY <1>9, <2>1, <2>2, <2>3, <1>other DEF CombPressed
<1>10. CASE state = "COMB_LONG_PRESSED" /\ CombLongPressed(e, p)
  <2>1. CASE e = "RELEASED"
    BY <1>10, <2>1, <1>gone, SingleRows DEF CombLongPressed
  <2>2. CASE e = "SINGLE"
    BY <1>10, <2>2, <1>alone, DoubleRows DEF CombLongPressed
  <2>3. CASE e = "TIME_OUT"
    BY <1>10, <2>3, <1>late, SingleRows DEF CombLongPressed, CombStates
  <2> QED
    BY <1>10, <2>1, <2>2, <2>3, <1>other DEF CombLongPressed
<1>11. CASE state = "COMB_LONG_LONG_PRESSED" /\ CombLongLongPressed(e, p)
  <2>1. CASE e = "RELEASED"
    BY <1>11, <2>1, <1>gone, SingleRows DEF CombLongLongPressed
  <2>2. CASE e = "SINGLE"
    BY <1>11, <2>2, <1>alone, DoubleRows DEF CombLongLongPressed
  <2> QED
    BY <1>11, <2>1, <2>2, <1>other DEF CombLongLongPressed
<1> QED
  BY <1>1, <1>2, <1>3, <1>4, <1>5, <1>6, <1>7, <1>8, <1>9, <1>10, <1>11 DEF Handle

\* The messages of each step are legal, and the state keeps matching the
\* buttons, as long as no third button makes another combination.
LEMMA OrderKept ==
  ASSUME IsFiniteSet(Buttons), Cardinality(Buttons) <= 2, IInv, StateMatches, [Next]_vars
  PROVE  StateMatches' /\ (Promise!Next \/ UNCHANGED <<out, PhaseOne(state), PhaseComb(state)>>)
<1>1. Match(state, pressed) /\ TypeOK /\ TimersMatch /\ saved = pressed
  BY DEF StateMatches, Match, Single, IInv, TypeOK
<1>2. Match(state', pressed') => StateMatches'
  BY DEF StateMatches, Match, Single
<1>3. CASE Edge \/ Isr \/ AntiShake \/ Tick
  <2>1. TaskIdle
    BY <1>3 DEF Edge, Isr, AntiShake, Tick
  <2> QED
    BY <1>1, <1>2, <2>1, RowNone DEF TaskIdle
<1>4. CASE Toggle
  <2>1. toggles \in Seq(Masks) /\ toggles # <<>>
    BY <1>1, <1>4 DEF TypeOK, Toggle
  <2>2. PICK p \in Masks : p = Head(toggles)
    BY <2>1
  <2>3. pressed' = p /\ IF p = saved THEN Ignore("NONE", p) ELSE Handle(EventOf(p), p)
    BY <1>4, <2>2 DEF Toggle
  <2>4. CASE p = saved
    <3>1. state' = state /\ out' = <<>> /\ pressed' = pressed
      BY <1>1, <2>3, <2>4 DEF Ignore, To, Send
    <3> QED
      BY <1>1, <1>2, <3>1, RowNone
  <2>5. CASE p # saved
    <3>1. Told(EventOf(p), p)
      BY <1>1, <2>5 DEF Told
    <3> QED
      BY <1>1, <1>2, <2>3, <2>5, <3>1, HandleInOrder
  <2> QED
    BY <2>4, <2>5
<1>5. CASE StateTimeout
  <2>1. Told("TIME_OUT", pressed) /\ pressed \in Masks /\ pressed' = pressed
        /\ Handle("TIME_OUT", pressed)
    BY <1>1, <1>5 DEF Told, StateTimeout, TypeOK
  <2> QED
    BY <1>1, <1>2, <2>1, HandleInOrder
<1>6. CASE PressingTimeout
  <2> DEFINE m == IF pressed = {} \/ Single(pressed) THEN "LONG_PRESSING" ELSE "COMB_LONG_PRESSING"
  <2>1. /\ To(state, stateTimer, Pressing, <<m>>, pressed) /\ pressed \in Masks
        /\ state' = state /\ pressed' = pressed
    BY <1>1, <1>6 DEF PressingTimeout, To, TypeOK
  <2>2. state \in LongStates \cup LongLongStates
    BY <1>1, <1>6 DEF PressingTimeout, TimersMatch, Off
  <2>3. pressed # {} /\ (Single(pressed) <=> state \in {"LONG_PRESSED", "LONG_LONG_PRESSED"})
    BY <1>1, <2>2 DEF Match, PressStates, LongStates, LongLongStates
  <2>4. m \in Types
    BY DEF Types
  <2>5. CASE state \in {"LONG_PRESSED", "LONG_LONG_PRESSED"}
    <3>1. m = "LONG_PRESSING" /\ PhaseOne(state) \in {"long", "longlong"}
      BY <2>3, <2>5 DEF PhaseOne
    <3> HIDE DEF m
    <3> QED
      BY <1>1, <1>2, <2>1, <2>4, <3>1, RowOne, PhaseTypes, OneTable, CombTable
  <2>6. CASE state \in {"COMB_LONG_PRESSED", "COMB_LONG_LONG_PRESSED"}
    <3>1. m = "COMB_LONG_PRESSING" /\ PhaseComb(state) \in {"long", "longlong"}
      BY <2>3, <2>6 DEF PhaseComb
    <3> HIDE DEF m
    <3> QED
      BY <1>1, <1>2, <2>1, <2>4, <3>1, RowOne, PhaseTypes, OneTable, CombTable
  <2> QED
    BY <2>2, <2>5, <2>6 DEF LongStates, LongLongStates
<1>7. CASE UNCHANGED vars
  BY <1>1, <1>2, <1>7 DEF vars, task, Match
<1> QED
  BY <1>3, <1>4, <1>5, <1>6, <1>7 DEF Next

-----------------------------------------------------------------------------
(* The theorems.                                                             *)

\* How the timers, the time a button has been down, the messages and the pins
\* agree, after every step of the module.
THEOREM Inductive == Spec => []IInv
<1>1. IInv /\ [Next]_vars => IInv'
  BY EdgeStep, IsrStep, AntiShakeStep, ToggleStep, TimeoutStep, PressingStep, TickStep, StutterStep
     DEF Next
<1> QED
  BY InitInv, <1>1, PTL DEF Spec

\* Every variable keeps its type and every timer its limit, for any durations.
THEOREM TypeCorrect == Spec => []TypeOK
  BY Inductive, PTL DEF IInv

\* A timer runs only in the states that its handler serves: os_timer_stop and
\* os_timer_start are called on every way out of and into them.
THEOREM TimersMatchAlways == Spec => []TimersMatch
  BY Inductive, PTL DEF IInv

\* LONG_PRESSED, which makes the user task erase the network, is posted only
\* when a button has been down for BUTTON_LONG_DURING.
THEOREM LongPressAlways == Spec => []LongPressHeld
  BY Inductive, PTL DEF IInv

\* However the contacts bounce and however late the handlers run, no change of
\* the pins is lost once the interrupt has been taken.
THEOREM NothingMissedAlways == Spec => []NothingMissed
  BY Inductive, PTL DEF IInv

\* With at most two buttons, the state says how many of them are down.
THEOREM StateMatchesAlways ==
  ASSUME IsFiniteSet(Buttons), Cardinality(Buttons) <= 2
  PROVE  Spec => []StateMatches
<1>1. Init => StateMatches
  BY FS_EmptySet DEF Init, StateMatches, PressStates
<1>2. IInv /\ StateMatches /\ [Next]_vars => StateMatches'
  BY OrderKept
<1> QED
  BY <1>1, <1>2, Inductive, PTL DEF Spec

\* With at most two buttons, the messages to the user task are a behaviour of
\* Gestures: every long press begins, repeats, grows and ends in order.
THEOREM InOrderAlways ==
  ASSUME IsFiniteSet(Buttons), Cardinality(Buttons) <= 2
  PROVE  Spec => InOrder
<1>1. Init => Promise!Init
  BY DEF Init, Promise!Init, PhaseOne, PhaseComb
<1>2. IInv /\ StateMatches /\ [Next]_vars
        => [Promise!Next]_<<out, PhaseOne(state), PhaseComb(state)>>
  BY OrderKept
<1> QED
  BY <1>1, <1>2, Inductive, StateMatchesAlways, PTL DEF Spec, InOrder, Promise!Spec
=============================================================================
