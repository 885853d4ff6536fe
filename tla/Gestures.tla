------------------------------ MODULE Gestures ------------------------------
(***************************************************************************)
(* What the button module promises the user task: the messages of a long   *)
(* press come in order.  A long press begins once, may repeat "pressing"   *)
(* while it lasts, may become a long long press, and ends once, with the   *)
(* release that fits; so does a press of several buttons, which is         *)
(* announced before anything else is said about it.                        *)
(***************************************************************************)
EXTENDS Integers, Sequences

VARIABLES out,   \* the messages of the last step
          one,   \* the long press of a single button: "none", "long" or "longlong"
          comb   \* the press of several: "none", "down", "long" or "longlong"

\* Each kind of message: where it finds the press and where it leaves it.
OneSteps == [
    LONG_PRESSED       |-> <<"none", "long">>,
    LONG_LONG_PRESSED  |-> <<"long", "longlong">>,
    LONG_RELEASED      |-> <<"long", "none">>,
    LONG_LONG_RELEASED |-> <<"longlong", "none">>,
    PRESSED            |-> <<"none", "none">>,
    RELEASED           |-> <<"none", "none">>,
    SHORT_PRESSED      |-> <<"none", "none">>,
    MULTI_PRESSED      |-> <<"none", "none">>]

CombSteps == [
    COMB_PRESSED            |-> <<"none", "down">>,
    COMB_RELEASED           |-> <<"down", "none">>,
    COMB_SHORT_PRESSED      |-> <<"down", "none">>,
    COMB_LONG_PRESSED       |-> <<"down", "long">>,
    COMB_LONG_LONG_PRESSED  |-> <<"long", "longlong">>,
    COMB_LONG_RELEASED      |-> <<"long", "none">>,
    COMB_LONG_LONG_RELEASED |-> <<"longlong", "none">>]

Phases == {"none", "down", "long", "longlong"}

\* A message of kind m leads from one phase to the next; the message that
\* repeats comes only while a long press lasts.
Moves(steps, repeat, from, m, to) ==
    IF m \in DOMAIN steps THEN steps[m] = <<from, to>>
    ELSE to = from /\ (m = repeat => from \in {"long", "longlong"})

\* The messages ms lead from one phase to another.
Legal(steps, repeat, from, to, ms) ==
    \E at \in [0 .. Len(ms) -> Phases] :
        /\ at[0] = from /\ at[Len(ms)] = to
        /\ \A i \in 1 .. Len(ms) : Moves(steps, repeat, at[i - 1], ms[i].type, at[i])

Init == out = <<>> /\ one = "none" /\ comb = "none"

Next == /\ Legal(OneSteps, "LONG_PRESSING", one, one', out')
        /\ Legal(CombSteps, "COMB_LONG_PRESSING", comb, comb', out')

Spec == Init /\ [][Next]_<<out, one, comb>>
=============================================================================
