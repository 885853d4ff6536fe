----------------------------- MODULE BlockFifo -----------------------------
(***************************************************************************)
(* What the block ring buffer (ringbuffer.c) promises: a bounded queue.  A *)
(* block that finds the queue full is dropped; the others come out once    *)
(* and in the order in which they went in.                                 *)
(***************************************************************************)
EXTENDS Naturals, Sequences

CONSTANTS Blocks,    \* what a block can hold
          Capacity   \* how many blocks can wait

VARIABLES queue,     \* the blocks that wait
          got        \* the block handed out last

Init == queue = <<>> /\ got \in Blocks

Put ==
    /\ Len(queue) < Capacity
    /\ \E d \in Blocks : queue' = Append(queue, d)
    /\ UNCHANGED got

Take ==
    /\ queue # <<>>
    /\ got' = Head(queue)
    /\ queue' = Tail(queue)

Empty == queue' = <<>> /\ UNCHANGED got

Next == Put \/ Take \/ Empty

Spec == Init /\ [][Next]_<<queue, got>>
=============================================================================
