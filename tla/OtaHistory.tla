----------------------------- MODULE OtaHistory -----------------------------
(***************************************************************************)
(* The update with a history variable: whether a packet has been under way *)
(* whose first part was lost with the buffer.  What such a packet holds    *)
(* when it is executed no handler has written (ota.c:257-266), and what it *)
(* may spoil lasts: packets of a wrong length are kept, and the sequence   *)
(* check starts from a wrong address.  The variable takes no part in the   *)
(* update.                                                                 *)
(***************************************************************************)
EXTENDS OtaProps

VARIABLE headless

hvars == <<vars, headless>>

Remember == headless' = (headless \/ ~HeadKept')

HInit == Init /\ headless = ~HeadKept
HNext == Next /\ Remember

HSpec == HInit /\ [][HNext]_hvars

\* The fairness of FairSpec.
HFairSpec == HSpec /\ WF_vars(peer.gone /\ os_timer_ota_cb)
                   /\ WF_vars(WriteHeader) /\ WF_vars(Restart)

(***************************************************************************)
(* As long as no packet has lost its first part, no step erases or         *)
(* programs the bank that runs, whole or cut by a power failure, whatever  *)
(* base address the peer remembers (ota.c:353-374, 418-459).  A packet     *)
(* that has lost it may be taken for one of any address and length, and    *)
(* the update does not protect the bank from what it does then.            *)
(***************************************************************************)
RunningUntouched ==
    [][~headless' => \A a \in Bank(cur) : flash'[a] = flash[a]]_hvars
=============================================================================
