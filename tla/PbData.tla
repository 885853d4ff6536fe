------------------------------- MODULE PbData -------------------------------
(***************************************************************************)
(* What the bearer of PbRemote carries to the device: writes, each with a  *)
(* number by which the mesh stack wants it confirmed.  The code keeps one  *)
(* number only (pb_remote_central.c:247), whatever is still in flight.     *)
(* What comes from the device is passed on and leaves no trace.            *)
(***************************************************************************)
EXTENDS PbProps

CONSTANTS Seqs,        \* numbers, out_seq
          MaxFlight    \* bound: writes in flight over a link

ASSUME DataAssumption == 0 \in Seqs /\ MaxFlight \in Nat

VARIABLES pb_remote_last_out_seq,
          flight,      \* by link, the writes that are not yet completed: number, and
                       \* (history) whether none was in flight with it
          misnamed     \* history: the write completed last was alone in flight and was
                       \* confirmed by another number

data == <<pb_remote_last_out_seq, flight, misnamed>>
dvars == <<vars, data>>

\* Mutant: the number is not noted.
NumberForgotten(s) == UNCHANGED pb_remote_last_out_seq

NumberNoted(s) == pb_remote_last_out_seq' = s

Writes == [seq : Seqs, alone : BOOLEAN]
Together(writes) == [i \in DOMAIN writes |-> [writes[i] EXCEPT !.alone = FALSE]]

\* The stack sends while it believes that it has a bearer; the write goes over
\* whatever link has the index of the connection, or nowhere.
pb_remote_gatt_send(s) ==
    /\ bearer = "open" /\ \A l \in Links : Len(flight[l]) < MaxFlight
    /\ NumberNoted(s)
    /\ LET write == [seq |-> s, alone |-> \A l \in Links : flight[l] = <<>>]
       IN  flight' = [l \in Links |-> IF l = client_idx /\ link[l] # "none"
                                      THEN Append(Together(flight[l]), write)
                                      ELSE Together(flight[l])]
    /\ UNCHANGED <<vars, misnamed>>

\* GATT_OP_WRITE_CMD: the oldest write of a link is completed, and confirmed by
\* the number that was noted last.
WriteCompleted(l) ==
    /\ flight[l] # <<>>
    /\ LET write == Head(flight[l])
       IN  misnamed' = (write.alone /\ write.seq # pb_remote_last_out_seq)
    /\ flight' = [flight EXCEPT ![l] = Tail(@)]
    /\ UNCHANGED <<vars, pb_remote_last_out_seq>>

\* When a link ends, the completion of what was sent first over it may be under
\* way; the rest is dropped.
DropsWrites(l) ==
    /\ \E failed \in BOOLEAN : LinkEnds(l, failed)
    /\ \E n \in 0 .. Len(flight[l]) : flight' = [flight EXCEPT ![l] = SubSeq(@, 1, n)]
    /\ UNCHANGED <<pb_remote_last_out_seq, misnamed>>

Carries(A) == A /\ UNCHANGED data

DataInit ==
    /\ Init
    /\ pb_remote_last_out_seq = 0 /\ misnamed = FALSE
    /\ flight = [l \in Links |-> <<>>]

DataNext ==
    \/ \E s \in Seqs : pb_remote_gatt_send(s)
    \/ \E l \in Links : WriteCompleted(l)
    \/ Carries(pb_remote_gatt_create) \/ Carries(pb_remote_gatt_close)
    \/ Carries(pb_remote_connect_timeout) \/ Carries(Deliver)
    \/ \E l \in Links : \/ Carries(Connects(l)) \/ Carries(SlaveConnect(l))
                        \/ \E failed \in BOOLEAN : Carries(Discovered(l, failed))
                        \/ DropsWrites(l)

DataSpec == DataInit /\ [][DataNext]_dvars /\ Fairness

-----------------------------------------------------------------------------
\* A write that is awaited before the next is confirmed by its own number, over
\* any number of bearers and lost links; only writes that are in flight together
\* are confirmed by one another's (pb_remote_central.c:134, 247).
Named == ~misnamed
=============================================================================
