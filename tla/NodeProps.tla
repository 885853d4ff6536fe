----------------------------- MODULE NodeProps -----------------------------
(***************************************************************************)
(* What makes the node's life in its network correct.                      *)
(***************************************************************************)
EXTENDS Node

Causes == {"power", "fatal", "removed", "pressed", "expired"}
Timers(limit) == {Off} \cup 0 .. limit

\* Every variable has the type of its C declaration; poweron_count wraps.
TypeOK ==
    /\ info \in Nets /\ net \in Nets /\ dirty \in BOOLEAN
    /\ phase \in {"init", "ready", "started"} /\ inNetwork \in BOOLEAN /\ config \in {0, 1}
    /\ stored \in 0 .. CntMod - 1 /\ count \in 0 .. CntMod - 1 /\ step \in 0 .. 2
    /\ time \in 0 .. Threshold + 1
    /\ led \in Timers(1) /\ store \in Timers(StoreDelay) /\ prov \in Timers(ProvTime)
    /\ cause \in Causes /\ refused \in BOOLEAN
    /\ brief \in 0 .. Quick /\ residue \in 0 .. CntMod - 1

-----------------------------------------------------------------------------
\* The stored network is erased only if the node is removed, if the button is
\* held, if provisioning does not complete, or if as many boots in a row as
\* Quick were short, counting as such what a refused reset of the counter left.
LossExplained ==
    [][info # "none" /\ info' = "none"
         => \/ cause' \in {"removed", "pressed", "expired"}
            \/ brief' + residue' >= Quick]_vars

\* What the flash holds of the network is what the stack has, unless a store is
\* pending or the stack has not told of a change: a power failure loses no more
\* than StoreDelay of updates.
Flushed == store = Off /\ ~dirty => info = net

\* A node that shows that it waits for a network goes on showing it: the timer
\* that moves the LED does not end before the binding.
Blinks == config = 0 => led # Off

\* A bound node does not show that it waits for a network.
BoundIsShown == net = "bound" => config = 1

-----------------------------------------------------------------------------
\* What makes these hold, step by step.

\* RAM and flash agree on the counter unless the store has refused; after
\* Threshold it is zero; and before that it has counted no more than the short
\* boots in a row and this one.
Counted ==
    /\ step = 0 <=> time = 0
    /\ ~refused => stored = count
    /\ step = 0 => ~refused
    /\ time > Threshold => count = 0
    /\ time <= Threshold /\ brief < Quick
         => stored <= residue + brief + (IF step = 0 THEN 0 ELSE 1)

\* The LED timer ends only after Threshold, when the stack has started.
LedRuns ==
    /\ led = Off => step = 2
    /\ step = 2 => time > Threshold
    /\ phase # "started" => time <= Threshold /\ (led = 0 => time < Threshold)

\* The stack knows the network that the flash holds.
Known == info # "none" => net # "none"

\* The inductive invariant.
IInv == TypeOK /\ Counted /\ LedRuns /\ Known /\ Flushed /\ Blinks /\ BoundIsShown

-----------------------------------------------------------------------------
\* If the updates ever pause, the network information gets into the flash.
Saved == <>[][~Update]_vars => <>[](dirty \/ info = net)

\* A node that stays on forgets its short power-ons, and so does the flash
\* unless the store refuses.
Forgets == <>[][~Reboot]_vars => <>[](count = 0 /\ (stored = 0 \/ refused))

=============================================================================
