---------------------------- MODULE SpeakerProps ----------------------------
(***************************************************************************)
(* What the playback of a sound promises, and why it keeps it.             *)
(***************************************************************************)
EXTENDS Speaker, FiniteSets

\* Messages of one kind in the queue of the audio task.
Places(queue, event) == {i \in DOMAIN queue : queue[i].event = event}
Waiting(event) == Cardinality(Places(msgs, event))

\* Whatever part of the ring is filled when, the data between the place that
\* is decoded and the end of what is stored is the file's, in order, and the
\* ring has not been freed under the decoder; unless the playback was started
\* while an older one was being stopped twice (decoder.c:376-395, 496-512).
RightData ==
    decodeTASKState # "IDLE" /\ ~stale =>
        /\ sbc_buff # <<>>
        /\ \A j \in 0 .. Unread(tot_data_len, data_processed_len) - 1 :
               sbc_buff[(current_pos + j) % BufLen] = data_processed_len + j

\* While a sound plays, every frame is either waiting to be played or asked
\* for: the chain of messages between the interrupt and the task never breaks,
\* and no more than Prebuffer + 1 frames are ever on the heap.  The counter
\* tells their number unless an interrupt crossed its increment, which no lock
\* covers (decoder.c:470-473, speaker.c:229-231).
Credit ==
    /\ decodeTASKState = "PLAYING" => pcm_buffer_list + Waiting("NEXT_FRAME") = Prebuffer + 1
    /\ pcm_buffer_list <= Prebuffer + 1
    /\ decodeTASKState # "IDLE" /\ step = "idle" /\ ~crossed =>
           pcm_buffer_counter = pcm_buffer_list

\* A file of fewer frames than the sound needs to start.
Short == Usable(file) < FrameLen * (Prebuffer + 1)

\* A playback ends by itself and gives its ring back, so that the next one can
\* start; unless the file is short, or the counter has lost an interrupt
\* (decoder.c:523-536).
Ends == sbc_buff # <<>> ~> sbc_buff = <<>> \/ Short \/ crossed \/ stale
-----------------------------------------------------------------------------
\* The inductive invariant.

Events == {"NEXT_FRAME", "STOP", "PREPARE"}
Msg == [event : Events, len : Int]

DecoderTypes ==
    /\ decodeTASKState \in {"IDLE", "BUFFERING", "PLAYING", "WAITING_END"}
    /\ msgs \in Seq(Msg)
    /\ step \in {"idle", "pushed", "loaded"} /\ reg \in Int
    /\ pcm_buffer_counter \in Int
    /\ pcm_buffer_list \in Nat /\ pcm_offset \in 0 .. FrameSamples - 1
    /\ stale \in BOOLEAN /\ crossed \in BOOLEAN
    /\ end_flag \in BOOLEAN
    /\ file \in Files

\* A sound is asked for while nothing plays, and what follows it in the queue
\* are stops.
InLine ==
    \A i \in Places(msgs, "PREPARE") :
        /\ decodeTASKState = "IDLE"
        /\ \A j \in DOMAIN msgs : j > i => msgs[j].event = "STOP"
        /\ ~stale => \A j \in DOMAIN msgs : j < i => msgs[j].event # "STOP"

\* The ring is there for as long as somebody wants it.
Kept ==
    sbc_buff = <<>> /\ (decodeTASKState # "IDLE" \/ Places(msgs, "PREPARE") # {}) => stale

\* Where the frames are that keep the chain going.
Chain ==
    /\ decodeTASKState = "IDLE" =>
           step = "idle" /\ pcm_buffer_list = 0 /\ (irq => App_Mode = "CODEC_TEST")
    /\ decodeTASKState = "BUFFERING" =>
           /\ ~irq
           /\ Waiting("NEXT_FRAME") = (IF step = "idle" THEN 1 ELSE 0)
           /\ pcm_buffer_counter = pcm_buffer_list - (IF step = "idle" THEN 0 ELSE 1)
           /\ pcm_buffer_counter \in 0 .. Prebuffer
           /\ step = "loaded" => reg = pcm_buffer_counter
    /\ decodeTASKState = "PLAYING" => pcm_buffer_list + Waiting("NEXT_FRAME") = Prebuffer + 1
    /\ decodeTASKState = "WAITING_END" =>
           step = "idle" /\ pcm_buffer_list + Waiting("NEXT_FRAME") <= Prebuffer + 1
    /\ pcm_offset <= pcm_buffer_list * FrameSamples
    /\ decodeTASKState # "IDLE" /\ ~crossed =>
           pcm_buffer_counter = (pcm_buffer_list - (IF step = "idle" THEN 0 ELSE 1)) % CntMod

\* In the microphone's demo nothing is decoded.
DemoIdle == App_Mode = "CODEC_TEST" => decodeTASKState = "IDLE"

SoundInv == DecoderTypes /\ InLine /\ Kept /\ Chain

\* How far the reader of the file has come.
ReaderOK ==
    /\ pos \in 0 .. file.len /\ store_data_len \in 0 .. pos
    /\ ~end_flag => pos = store_data_len /\ (pos % HalfBuf = 0 \/ pos = file.len)

\* From byte "from" on, the ring holds what has been read.
Holds(from) ==
    /\ sbc_buff \in [Ring -> Int]
    /\ \A s \in from .. store_data_len - 1 : sbc_buff[s % BufLen] = s

\* A sound that is asked for has half a ring of its bytes, or all of them.
Requested ==
    \A i \in Places(msgs, "PREPARE") :
        /\ ReaderOK /\ Holds(0)
        /\ msgs[i].len = store_data_len
        /\ store_data_len \in FrameLen .. BufLen

\* Between the decoder and the reader lie the file's next bytes.
Playing ==
    /\ ReaderOK /\ Holds(data_processed_len)
    /\ tot_data_len = store_data_len
    /\ data_processed_len \in 0 .. tot_data_len
    /\ tot_data_len - data_processed_len <= BufLen
    /\ current_pos = data_processed_len % BufLen
    /\ current_pos % FrameLen = 0
    /\ decodeTASKState # "WAITING_END" => data_processed_len + FrameLen <= tot_data_len

DataInv == ~stale => Requested /\ (decodeTASKState # "IDLE" => Playing)
=============================================================================
