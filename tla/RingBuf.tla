------------------------------ MODULE RingBuf ------------------------------
(***************************************************************************)
(* The block ring buffer of the SDK (components/modules/RingBuffer).  The  *)
(* writer hands in a block; the reader asks for the address of the oldest  *)
(* block, uses it and then frees it.  The one user in the repository calls *)
(* both ends from the I2S interrupt (speaker.c), so that every call runs   *)
(* to its end undisturbed.                                                 *)
(***************************************************************************)
EXTENDS Naturals, Sequences

CONSTANTS Blocks,    \* what a block can hold
          BlockNum   \* blocknum

ASSUME RingAssumption == BlockNum \in Nat \ {0} /\ Blocks # {}

VARIABLES buf,            \* blockbufptr, block by block
          writeptr,
          readptr,
          newblockcount,
          got             \* the block that the reader used last

ring == <<buf, writeptr, readptr, newblockcount, got>>

Slots == 0 .. BlockNum - 1

\* ptr++; ptr %= blocknum.
Succ(ptr) == IF ptr = BlockNum - 1 THEN 0 ELSE ptr + 1

\* app_blockRingBuf_setup: the memory of the blocks is not cleared.
Setup ==
    /\ buf \in [Slots -> Blocks]
    /\ writeptr = 0 /\ readptr = 0 /\ newblockcount = 0
    /\ got \in Blocks

\* app_BlockRingBuf_flush
Flush ==
    /\ writeptr' = 0 /\ readptr' = 0 /\ newblockcount' = 0
    /\ UNCHANGED <<buf, got>>

\* Mutant: a full buffer takes one more block.
WriteOneMore(d) ==
    /\ newblockcount <= BlockNum
    /\ newblockcount' = newblockcount + 1
    /\ buf' = [buf EXCEPT ![writeptr] = d]
    /\ writeptr' = Succ(writeptr)
    /\ UNCHANGED <<readptr, got>>

\* app_BlockLoopBuf_write; a full buffer refuses the block.
Write(d) ==
    /\ newblockcount # BlockNum
    /\ newblockcount' = newblockcount + 1
    /\ buf' = [buf EXCEPT ![writeptr] = d]
    /\ writeptr' = Succ(writeptr)
    /\ UNCHANGED <<readptr, got>>

\* app_BlockRingBuf_malloc, the use of the block, app_BlockRingBuf_free.
Read ==
    /\ newblockcount > 0
    /\ got' = buf[readptr]
    /\ newblockcount' = newblockcount - 1
    /\ readptr' = Succ(readptr)
    /\ UNCHANGED <<buf, writeptr>>

RingNext == Flush \/ (\E d \in Blocks : Write(d)) \/ Read

RingSpec == Setup /\ [][RingNext]_ring

-----------------------------------------------------------------------------
\* The slot of the i-th oldest block when the oldest is at ptr.
Slot(ptr, i) == IF ptr + i <= BlockNum THEN ptr + i - 1 ELSE ptr + i - 1 - BlockNum

\* Between the two positions lie the blocks that count, all round the buffer.
RingOK ==
    /\ buf \in [Slots -> Blocks]
    /\ writeptr \in Slots /\ readptr \in Slots
    /\ newblockcount \in 0 .. BlockNum
    /\ got \in Blocks
    /\ writeptr = Slot(readptr, newblockcount + 1)

Fifo == INSTANCE BlockFifo
          WITH queue <- [i \in 1 .. newblockcount |-> buf[Slot(readptr, i)]], Capacity <- BlockNum

\* The ring buffer is a bounded queue: no block is lost, repeated or overtaken
\* on the way round the buffer (ringbuffer.c:113-133).
Echo == Fifo!Spec
=============================================================================
