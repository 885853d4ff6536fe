----------------------------- MODULE MCSpeaker -----------------------------
(* Files shorter than the sound needs to start, that end inside a page or at *)
(* its end, and that go round the ring more than twice.                      *)
EXTENDS SpeakerProps

files == {[len |-> 5, whole |-> FALSE], [len |-> 13, whole |-> FALSE],
          [len |-> 13, whole |-> TRUE], [len |-> 20, whole |-> FALSE]}
=============================================================================
