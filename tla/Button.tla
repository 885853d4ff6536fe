------------------------------- MODULE Button -------------------------------
(***************************************************************************)
(* The push-button module (components/modules/button/button.c): an         *)
(* interrupt samples the pins, a timer debounces them, and the button task *)
(* turns presses and timeouts into the gestures it posts to the user task. *)
(*                                                                         *)
(* A bit mask of pins is a set of buttons.  A timer holds the ticks left:  *)
(* 0 when it has expired and its handler is due, Off when it is stopped.   *)
(* The handlers run one at a time, in any order and with any delay; only   *)
(* the pins and the interrupt act between them.                            *)
(***************************************************************************)
EXTENDS Integers, Sequences, FiniteSets

CONSTANTS Buttons,    \* button_io_mask
          Anti,       \* 10 ms, the debouncing time
          Short,      \* BUTTON_SHORT_DURING
          Multi,      \* BUTTON_MULTI_INTERVAL
          Pressing,   \* BUTTON_LONG_PRESSING_INTERVAL
          Long,       \* BUTTON_LONG_DURING
          LongLong,   \* BUTTON_LONG_LONG_DURING
          CntMod,     \* the values of pressed_cnt, a uint8_t
          MaxQueue    \* bound: the messages the button task may lag behind

ASSUME DurationAssumption ==
    /\ {Anti, Short, Multi, Pressing, Long, LongLong, CntMod} \subseteq Nat \ {0}
    /\ Short < Long
    /\ Long < LongLong

VARIABLES pins,       \* the buttons held down (PMU_REG_GPIOA_V, active low)
          last,       \* PMU_REG_PORTA_LAST, the pins as the interrupt last saw them
          irq,        \* the interrupt is pending: the pins have differed from last
          sample,     \* curr_button_before_anti_shake
          shake,      \* button_anti_shake_timer
          toggles,    \* BUTTON_TOGGLE messages on their way to the button task
          pressed,    \* current_pressed_button
          saved,      \* last_saved_button
          toSend,     \* button_to_be_send
          cnt,        \* pressed_cnt
          state,      \* current_state
          stateTimer, \* button_state_timer
          pressing,   \* button_pressing_timer
          out,        \* the messages that the last step posted to the user task
          held,       \* history: ticks since the task has seen some button down
          woken       \* history: the interrupt has been taken since power-on

task    == <<pressed, saved, toSend, cnt, state, stateTimer, pressing, out>>
input   == <<pins, last, irq, sample, shake, woken>>
vars    == <<input, toggles, task, held>>

Off == -1
Masks == SUBSET Buttons

PressStates == {"JUST_PRESSED", "PRESSED", "LONG_PRESSED", "LONG_LONG_PRESSED"}
CombStates  == {"COMB_JUST_PRESSED", "COMB_PRESSED", "COMB_LONG_PRESSED",
                "COMB_LONG_LONG_PRESSED"}
States      == {"IDLE", "WAIT_MULTI"} \cup PressStates \cup CombStates
Types == {"PRESSED", "RELEASED", "SHORT_PRESSED", "MULTI_PRESSED", "LONG_PRESSED",
          "LONG_PRESSING", "LONG_RELEASED", "LONG_LONG_PRESSED", "LONG_LONG_RELEASED",
          "COMB_PRESSED", "COMB_RELEASED", "COMB_SHORT_PRESSED", "COMB_LONG_PRESSED",
          "COMB_LONG_PRESSING", "COMB_LONG_RELEASED", "COMB_LONG_LONG_PRESSED",
          "COMB_LONG_LONG_RELEASED"}

Msg == [type : Types, button : Masks, cnt : 0 .. CntMod - 1]

\* What a message is about: a press the buttons now down (p), a click the
\* buttons that were clicked, and a release the buttons that were down.
Clicks == {"SHORT_PRESSED", "MULTI_PRESSED"}
Downs  == {"PRESSED", "LONG_PRESSED", "LONG_PRESSING", "LONG_LONG_PRESSED",
           "COMB_PRESSED", "COMB_LONG_PRESSED", "COMB_LONG_PRESSING",
           "COMB_LONG_LONG_PRESSED"}
Subject(type, p) == IF type \in Downs THEN p
                    ELSE IF type \in Clicks THEN toSend ELSE saved

\* button_send_event posts the count and then clears it: of two messages in a
\* row, the second carries 0.
Send(types, p) ==
    /\ out' = [i \in 1 .. Len(types) |->
                 [type   |-> types[i],
                  button |-> Subject(types[i], p),
                  cnt    |-> IF i = 1 THEN cnt ELSE 0]]
    /\ cnt' = IF types = <<>> THEN cnt ELSE 0

-----------------------------------------------------------------------------
(* The ten state functions.  A handler is given the event e and the buttons  *)
(* now down, p; it leaves a state, the two timers, and the messages it sent. *)

To(s, timer, pressingTimer, types, p) ==
    /\ state' = s
    /\ stateTimer' = timer
    /\ pressing' = pressingTimer
    /\ UNCHANGED toSend
    /\ Send(types, p)

\* A one-shot timer that has called its handler is off.
Kept(e) == IF e = "TIME_OUT" THEN Off ELSE stateTimer

Ignore(e, p) == To(state, Kept(e), pressing, <<>>, p)

\* Mutant: a press starts the state timer only if it finds it stopped.
SinglePressKeepsTimer(pressingTimer, types, p) ==
    To("JUST_PRESSED", IF stateTimer # Off THEN stateTimer ELSE Short, pressingTimer, types, p)
SinglePress(pressingTimer, types, p) == To("JUST_PRESSED", Short, pressingTimer, types, p)
CombPress(pressingTimer, types, p) == To("COMB_JUST_PRESSED", Short, pressingTimer, types, p)

Idle(e, p) ==
    \/ e = "SINGLE" /\ SinglePress(pressing, <<"PRESSED">>, p)
    \/ e = "COMB" /\ CombPress(pressing, <<"COMB_PRESSED">>, p)

JustPressed(e, p) ==
    \/ e = "RELEASED" /\ To("IDLE", Off, pressing, <<"RELEASED">>, p)
    \/ e = "COMB" /\ CombPress(pressing, <<"COMB_PRESSED">>, p)
    \/ e = "TIME_OUT" /\ To("PRESSED", Long - Short, pressing, <<>>, p)

\* Mutant: the timer is stopped as in the other releases, and not started.
ClickedNoTimer ==
    /\ state' = "WAIT_MULTI"
    /\ toSend' = saved
    /\ cnt' = (cnt + 1) % CntMod
    /\ stateTimer' = Off
    /\ out' = <<>>
    /\ UNCHANGED pressing

\* The release of a click is not posted: the button may be clicked again.
Clicked ==
    /\ state' = "WAIT_MULTI"
    /\ toSend' = saved
    /\ cnt' = (cnt + 1) % CntMod
    /\ stateTimer' = Multi
    /\ out' = <<>>
    /\ UNCHANGED pressing

Pressed(e, p) ==
    \/ e = "RELEASED" /\ Clicked
    \/ e = "COMB" /\ CombPress(pressing, <<"COMB_PRESSED">>, p)
    \/ e = "TIME_OUT" /\ To("LONG_PRESSED", LongLong - Long, Pressing, <<"LONG_PRESSED">>, p)

Click == IF cnt > 1 THEN "MULTI_PRESSED" ELSE "SHORT_PRESSED"

WaitMulti(e, p) ==
    \/ e = "SINGLE" /\ p = toSend /\ SinglePress(pressing, <<>>, p)
    \/ e = "SINGLE" /\ p # toSend /\ SinglePress(pressing, <<Click, "PRESSED">>, p)
    \/ e = "COMB" /\ CombPress(pressing, <<"COMB_PRESSED", "SHORT_PRESSED">>, p)
    \/ e = "TIME_OUT" /\ To("IDLE", Off, pressing, <<Click>>, p)

\* Mutant: a second button leaves the repeating timer running.
LongPressedNoStop(e, p) ==
    \/ e = "RELEASED" /\ To("IDLE", Off, Off, <<"LONG_RELEASED">>, p)
    \/ e = "COMB" /\ CombPress(pressing, <<"COMB_PRESSED", "LONG_RELEASED">>, p)
    \/ e = "TIME_OUT" /\ To("LONG_LONG_PRESSED", Off, pressing, <<"LONG_LONG_PRESSED">>, p)

\* Mutant: a second button does not end the long press of the first.
LongPressedNoRelease(e, p) ==
    \/ e = "RELEASED" /\ To("IDLE", Off, Off, <<"LONG_RELEASED">>, p)
    \/ e = "COMB" /\ CombPress(Off, <<"COMB_PRESSED">>, p)
    \/ e = "TIME_OUT" /\ To("LONG_LONG_PRESSED", Off, pressing, <<"LONG_LONG_PRESSED">>, p)

LongPressed(e, p) ==
    \/ e = "RELEASED" /\ To("IDLE", Off, Off, <<"LONG_RELEASED">>, p)
    \/ e = "COMB" /\ CombPress(Off, <<"COMB_PRESSED", "LONG_RELEASED">>, p)
    \/ e = "TIME_OUT" /\ To("LONG_LONG_PRESSED", Off, pressing, <<"LONG_LONG_PRESSED">>, p)

LongLongPressed(e, p) ==
    \/ e = "RELEASED" /\ To("IDLE", stateTimer, Off, <<"LONG_LONG_RELEASED">>, p)
    \/ e = "COMB" /\ CombPress(Off, <<"COMB_PRESSED", "LONG_LONG_RELEASED">>, p)

\* Another combination, which takes three buttons, is taken for a single press.
CombJustPressed(e, p) ==
    \/ e = "RELEASED" /\ To("IDLE", Off, pressing, <<"COMB_RELEASED">>, p)
    \/ e = "SINGLE" /\ SinglePress(pressing, <<"COMB_RELEASED", "PRESSED">>, p)
    \/ e = "COMB" /\ SinglePress(pressing, <<"COMB_PRESSED">>, p)
    \/ e = "TIME_OUT" /\ To("COMB_PRESSED", Long - Short, pressing, <<>>, p)

CombPressed(e, p) ==
    \/ e = "RELEASED" /\ To("IDLE", Off, pressing, <<"COMB_SHORT_PRESSED">>, p)
    \/ e = "SINGLE" /\ SinglePress(pressing, <<"COMB_SHORT_PRESSED", "PRESSED">>, p)
    \/ e = "COMB" /\ CombPress(pressing, <<"COMB_SHORT_PRESSED", "COMB_PRESSED">>, p)
    \/ e = "TIME_OUT" /\ To("COMB_LONG_PRESSED", LongLong - Long, Pressing,
                             <<"COMB_LONG_PRESSED">>, p)

CombLongPressed(e, p) ==
    \/ e = "RELEASED" /\ To("IDLE", Off, Off, <<"COMB_LONG_RELEASED">>, p)
    \/ e = "SINGLE" /\ SinglePress(Off, <<"COMB_LONG_RELEASED", "PRESSED">>, p)
    \/ e = "COMB" /\ CombPress(Off, <<"COMB_LONG_RELEASED", "COMB_PRESSED">>, p)
    \/ e = "TIME_OUT" /\ To("COMB_LONG_LONG_PRESSED", Off, pressing,
                             <<"COMB_LONG_LONG_PRESSED">>, p)

CombLongLongPressed(e, p) ==
    \/ e = "RELEASED" /\ To("IDLE", stateTimer, Off, <<"COMB_LONG_LONG_RELEASED">>, p)
    \/ e = "SINGLE" /\ SinglePress(Off, <<"COMB_LONG_LONG_RELEASED", "PRESSED">>, p)
    \/ e = "COMB" /\ CombPress(Off, <<"COMB_LONG_LONG_RELEASED", "COMB_PRESSED">>, p)

\* The events that a state function has no branch for.
Ignored == {<<"IDLE", "RELEASED">>, <<"IDLE", "TIME_OUT">>, <<"JUST_PRESSED", "SINGLE">>,
            <<"PRESSED", "SINGLE">>, <<"WAIT_MULTI", "RELEASED">>,
            <<"LONG_PRESSED", "SINGLE">>, <<"LONG_LONG_PRESSED", "SINGLE">>,
            <<"LONG_LONG_PRESSED", "TIME_OUT">>, <<"COMB_LONG_LONG_PRESSED", "TIME_OUT">>}

\* button_statemachines
Handle(e, p) ==
    \/ <<state, e>> \in Ignored /\ Ignore(e, p)
    \/ state = "IDLE" /\ Idle(e, p)
    \/ state = "JUST_PRESSED" /\ JustPressed(e, p)
    \/ state = "PRESSED" /\ Pressed(e, p)
    \/ state = "WAIT_MULTI" /\ WaitMulti(e, p)
    \/ state = "LONG_PRESSED" /\ LongPressed(e, p)
    \/ state = "LONG_LONG_PRESSED" /\ LongLongPressed(e, p)
    \/ state = "COMB_JUST_PRESSED" /\ CombJustPressed(e, p)
    \/ state = "COMB_PRESSED" /\ CombPressed(e, p)
    \/ state = "COMB_LONG_PRESSED" /\ CombLongPressed(e, p)
    \/ state = "COMB_LONG_LONG_PRESSED" /\ CombLongLongPressed(e, p)

-----------------------------------------------------------------------------
\* A button may be down at power-on; button_init does not look at the pins.
Init ==
    /\ pins \in Masks
    /\ last = pins /\ irq = FALSE /\ woken = FALSE
    /\ sample = Buttons /\ shake = Off
    /\ toggles = <<>>
    /\ pressed = {} /\ saved = {} /\ toSend = {} /\ cnt = 0
    /\ state = "IDLE" /\ stateTimer = Off /\ pressing = Off
    /\ out = <<>> /\ held = 0

\* What no step outside the button task touches; it posts nothing either.
TaskIdle == out' = <<>> /\ UNCHANGED <<pressed, saved, toSend, cnt, state>>

\* Buttons are pressed and released, and their contacts bounce.
Edge ==
    /\ \E p \in Masks \ {pins} : pins' = p /\ irq' = (irq \/ p # last)
    /\ TaskIdle
    /\ UNCHANGED <<last, sample, shake, woken, toggles, stateTimer, pressing, held>>

\* Mutant: while the timer runs, a new edge neither samples nor restarts it.
IsrOnceDebouncing ==
    /\ irq
    /\ irq' = FALSE /\ woken' = TRUE
    /\ last' = pins
    /\ IF shake = Off THEN sample' = pins /\ shake' = Anti ELSE UNCHANGED <<sample, shake>>
    /\ TaskIdle
    /\ UNCHANGED <<pins, toggles, stateTimer, pressing, held>>

\* pmu_gpio_isr_ram and button_toggle_detected.  The caller clears the pending
\* bit after the pins have been read (driver_pmu.c:1051-1052): a change between
\* the two is taken to set the bit again, since the pins then differ from last.
Isr ==
    /\ irq
    /\ irq' = FALSE /\ woken' = TRUE
    /\ last' = pins
    /\ sample' = pins
    /\ shake' = Anti
    /\ TaskIdle
    /\ UNCHANGED <<pins, toggles, stateTimer, pressing, held>>

\* The pins are steady if they are as the interrupt has sampled them.
AntiShake ==
    /\ shake = 0
    /\ shake' = Off
    /\ toggles' = IF pins = sample THEN Append(toggles, pins) ELSE toggles
    /\ TaskIdle
    /\ UNCHANGED <<pins, last, irq, sample, woken, stateTimer, pressing, held>>

Single(p) == Cardinality(p) = 1

\* Mutant: the test for a power of two is lost.
EventOfNoComb(p) == IF p = {} THEN "RELEASED" ELSE "SINGLE"

EventOf(p) == IF p = {} THEN "RELEASED" ELSE IF Single(p) THEN "SINGLE" ELSE "COMB"

Toggle ==
    /\ toggles # <<>>
    /\ toggles' = Tail(toggles)
    /\ LET p == Head(toggles)
       IN  /\ pressed' = p
           /\ saved' = p
           /\ IF p = saved THEN Ignore("NONE", p) ELSE Handle(EventOf(p), p)
           /\ held' = IF p = {} \/ pressed = {} THEN 0 ELSE held
    /\ UNCHANGED input

StateTimeout ==
    /\ stateTimer = 0
    /\ Handle("TIME_OUT", pressed)
    /\ UNCHANGED <<input, toggles, pressed, saved, held>>

\* The test for a single button also takes no button for one.
PressingTimeout ==
    /\ pressing = 0
    /\ pressing' = Pressing
    /\ Send(<<IF pressed = {} \/ Single(pressed) THEN "LONG_PRESSING" ELSE "COMB_LONG_PRESSING">>,
            pressed)
    /\ UNCHANGED <<input, toggles, pressed, saved, toSend, state, stateTimer, held>>

Down(timer) == IF timer > 0 THEN timer - 1 ELSE timer

Tick ==
    /\ Len(toggles) < MaxQueue
    /\ shake' = Down(shake)
    /\ stateTimer' = Down(stateTimer)
    /\ pressing' = Down(pressing)
    /\ held' = IF pressed # {} /\ held < LongLong THEN held + 1 ELSE held
    /\ TaskIdle
    /\ UNCHANGED <<pins, last, irq, sample, woken, toggles>>

Next == Edge \/ Isr \/ AntiShake \/ Toggle \/ StateTimeout \/ PressingTimeout \/ Tick

Spec == Init /\ [][Next]_vars

\* The interrupt is taken, time passes, and the main loop serves each expired
\* timer and each message; nobody has to press a button.
FairSpec ==
    /\ Spec
    /\ WF_vars(Isr) /\ WF_vars(AntiShake) /\ WF_vars(Toggle)
    /\ WF_vars(StateTimeout) /\ WF_vars(PressingTimeout) /\ WF_vars(Tick)
=============================================================================
