------------------------------ MODULE AirQueue ------------------------------
(***************************************************************************)
(* What the sender of user advertisements promises: packets go on air one  *)
(* at a time and in the order in which they were accepted.                 *)
(***************************************************************************)
EXTENDS Sequences

CONSTANTS Packets, NoPacket

VARIABLES waiting, air

Init == waiting = <<>> /\ air = NoPacket

Accept == \E p \in Packets : waiting' = Append(waiting, p) /\ UNCHANGED air

AcceptAndSend ==
    /\ air = NoPacket /\ waiting = <<>>
    /\ air' \in Packets /\ UNCHANGED waiting

Send == /\ air = NoPacket /\ waiting # <<>>
        /\ air' = Head(waiting) /\ waiting' = Tail(waiting)

End == air # NoPacket /\ air' = NoPacket /\ UNCHANGED waiting

Next == Accept \/ AcceptAndSend \/ Send \/ End

Spec == Init /\ [][Next]_<<waiting, air>>
=============================================================================
