---------------------------- MODULE ButtonProps ----------------------------
(***************************************************************************)
(* What makes the button module correct.                                   *)
(***************************************************************************)
EXTENDS Button

Timers(limit) == {Off} \cup 0 .. limit

\* Every variable has the type its C declaration gives it, and no timer runs
\* longer than the longest time it is ever started with.
TypeOK ==
    /\ pins \in Masks /\ last \in Masks /\ sample \in Masks
    /\ irq \in BOOLEAN /\ woken \in BOOLEAN
    /\ shake \in Timers(Anti)
    /\ toggles \in Seq(Masks)
    /\ pressed \in Masks /\ saved = pressed /\ toSend \in Masks
    /\ cnt \in 0 .. CntMod - 1
    /\ state \in States
    /\ stateTimer \in Timers(LongLong + Multi)
    /\ pressing \in Timers(Pressing)
    /\ out \in Seq(Msg)
    /\ held \in 0 .. LongLong

-----------------------------------------------------------------------------
LongStates  == {"LONG_PRESSED", "COMB_LONG_PRESSED"}
LongLongStates == {"LONG_LONG_PRESSED", "COMB_LONG_LONG_PRESSED"}

\* No handler leaves a timer behind: the state timer runs in exactly the states
\* that a timeout ends, and the repeating timer in exactly the long presses, so
\* no timeout reaches a state that another press has entered meanwhile.
TimersMatch ==
    /\ stateTimer # Off <=> state \notin LongLongStates \cup {"IDLE"}
    /\ pressing # Off <=> state \in LongStates \cup LongLongStates

\* The state says how many buttons are down: none in IDLE and between clicks,
\* one in a press, several in a combination (with at most two buttons in all:
\* from COMB_JUST_PRESSED a third button leads to JUST_PRESSED, line 248).
StateMatches ==
    /\ pressed = {} <=> state \in {"IDLE", "WAIT_MULTI"}
    /\ Cardinality(pressed) = 1 <=> state \in PressStates

\* A long press is reported only if a button has been down for the time it
\* takes, from when the task first saw it: no chain of clicks, bounces or late
\* timers adds up to one.  The user task erases the network on LONG_PRESSED.
LongPressHeld ==
    \A i \in 1 .. Len(out) :
        /\ out[i].type \in {"LONG_PRESSED", "COMB_LONG_PRESSED"} => held >= Long
        /\ out[i].type \in {"LONG_LONG_PRESSED", "COMB_LONG_LONG_PRESSED"} => held = LongLong

\* Once the interrupt has been taken, no change of the pins is missed: it is
\* pending, being debounced, on its way to the task, or seen by the task.
Latest == IF toggles = <<>> THEN pressed ELSE toggles[Len(toggles)]
NothingMissed == woken => irq \/ shake # Off \/ Latest = pins

\* The button that the timers were started for is still down: what is left of the
\* state timer, with the time since it went down, makes the time of the gesture.
HeldLongEnough ==
    /\ state \in {"JUST_PRESSED", "COMB_JUST_PRESSED"} => held + stateTimer >= Short
    /\ state \in {"PRESSED", "COMB_PRESSED"} => held + stateTimer >= Long
    /\ state \in LongStates => held + stateTimer >= LongLong
    /\ pressed = {} <=> state \in {"IDLE", "WAIT_MULTI"}

\* The interrupt and the debouncing timer work on the same sample of the pins.
SampleCurrent ==
    /\ pins # last => irq
    /\ woken => sample = last
    /\ shake # Off => woken

\* The inductive invariant of the module.
IInv == TypeOK /\ TimersMatch /\ HeldLongEnough /\ LongPressHeld /\ SampleCurrent /\ NothingMissed

\* The messages to the user task keep the order that Gestures promises.
PhaseOne(s)  == CASE s = "LONG_PRESSED" -> "long"
                  [] s = "LONG_LONG_PRESSED" -> "longlong"
                  [] OTHER -> "none"
PhaseComb(s) == CASE s \in {"COMB_JUST_PRESSED", "COMB_PRESSED"} -> "down"
                  [] s = "COMB_LONG_PRESSED" -> "long"
                  [] s = "COMB_LONG_LONG_PRESSED" -> "longlong"
                  [] OTHER -> "none"
Promise == INSTANCE Gestures WITH one <- PhaseOne(state), comb <- PhaseComb(state)
InOrder == Promise!Spec

-----------------------------------------------------------------------------
\* However the contacts bounced, once the pins stay as they are the task gets to
\* know it; unless the button was down at power-on and has not moved since.
Tracks == \A p \in Masks : (<>[](pins = p) /\ <>woken) => <>[](pressed = p)

\* A button left alone comes to rest: its timers run out, whatever was going on.
Settles == \A p \in Masks :
    <>[](pressed = p) => <>[](state \in IF p = {} THEN {"IDLE"} ELSE LongLongStates)
=============================================================================
