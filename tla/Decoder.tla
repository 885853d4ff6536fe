------------------------------ MODULE Decoder ------------------------------
(***************************************************************************)
(* Playing a sound from flash: the audio task that decodes one frame per   *)
(* message (components/modules/decoder/decoder.c), the I2S interrupt that  *)
(* plays the frames (peripherals/audio/speaker.c) and the reader of the    *)
(* file that keeps the ring of encoded data filled (decoder.c again).      *)
(* The loop of the audio task itself is not in the repository: the         *)
(* handlers of PREPARE and STOP are those of the sibling decoder           *)
(* (audio_decode/audio_decoder.c), with the end callback of decoder.c.     *)
(* Lengths are counted in a unit of encoded data.                          *)
(***************************************************************************)
EXTENDS Integers, Sequences

CONSTANTS Files,         \* what the flash may hold: [len, whole]
          FrameLen,      \* frame_len
          BufLen,        \* sbc_data_tot_len, the size of the ring
          Low,           \* 1024: less unread data than this calls for more
          Prebuffer,     \* 2: frames decoded before the sound starts, less one
          FrameSamples,  \* pcm_size, in half fifos of the I2S
          Half,          \* I2S_FIFO_DEPTH / 2, in the same unit
          Modulus,       \* 2^32, of the lengths
          CntMod,        \* 256, of pcm_buffer_counter
          MaxMsgs        \* bound: how many messages wait when one more stop is asked for

HalfBuf == BufLen \div 2

\* What read_sbc_from_flash gives of a file: when the last page is empty, a
\* read that reaches it returns 0 for all it has copied (decoder.c:168).
Usable(f) == IF f.whole THEN f.len - (f.len % HalfBuf) ELSE f.len

ASSUME DecoderAssumption ==
    /\ BufLen \in Nat /\ Low \in Nat /\ Modulus \in Nat /\ CntMod \in Nat
    /\ FrameLen \in Nat \ {0} /\ HalfBuf * 2 = BufLen /\ BufLen % FrameLen = 0
    /\ Low + HalfBuf <= BufLen /\ FrameLen <= Low
    /\ FrameSamples \in Nat \ {0} /\ Half \in Nat \ {0}
    /\ Prebuffer \in Nat /\ CntMod > Prebuffer + 1
    /\ \A f \in Files : f.len \in Nat /\ f.whole \in BOOLEAN
                        /\ FrameLen <= Usable(f) /\ f.len < Modulus

VARIABLES
    \* The audio task.
    decodeTASKState,
    msgs,               \* the queue of the audio task
    step,               \* how far the handler of NEXT_FRAME has come
    reg,                \* pcm_buffer_counter in a register
    pcm_buffer_counter,
    current_pos,        \* from data_start
    tot_data_len,
    data_processed_len,
    stop_flag,
    \* The interrupt.
    pcm_buffer_list,    \* how many decoded frames wait
    pcm_offset,         \* how much of the first is played
    irq,                \* whether the interrupt is enabled
    hw,                 \* whether the I2S runs
    \* The reader of the file.
    file,
    sbc_buff,           \* what the ring holds, <<>> when it is not allocated
    pos,                \* last_read_page_idx and last_read_offset, from the end of the header
    store_data_len,
    end_flag,
    \* History.
    crossed,            \* an interrupt came between the load and the store of the counter
    stale               \* the playback was asked for while an earlier one was being stopped

env == <<pcm_buffer_counter, current_pos, tot_data_len, data_processed_len, stop_flag>>
sound == <<pcm_buffer_list, pcm_offset>>
reader == <<sbc_buff, pos, store_data_len, end_flag>>
dvars == <<decodeTASKState, msgs, step, reg, env, sound, irq, hw, file, reader, crossed, stale>>

NextFrame == [event |-> "NEXT_FRAME", len |-> 0]
Stop == [event |-> "STOP", len |-> 0]
Prepare(n) == [event |-> "PREPARE", len |-> n]

Ring == 0 .. BufLen - 1
Least(a, b) == IF a <= b THEN a ELSE b

Init ==
    /\ decodeTASKState = "IDLE" /\ msgs = <<>> /\ step = "idle" /\ reg = 0
    /\ pcm_buffer_counter = 0 /\ current_pos = 0
    /\ tot_data_len = 0 /\ data_processed_len = 0 /\ stop_flag = FALSE
    /\ pcm_buffer_list = 0 /\ pcm_offset = 0 /\ irq = FALSE /\ hw = FALSE
    /\ file \in Files /\ sbc_buff = <<>> /\ pos = 0 /\ store_data_len = 0
    /\ end_flag = FALSE /\ crossed = FALSE /\ stale = FALSE

Has(event) == \E i \in DOMAIN msgs : msgs[i].event = event

-----------------------------------------------------------------------------
\* The reader of the file.

\* read_sbc_from_flash: how much is copied, and what it says.
Copied(n, from) == Least(n, file.len - from)
Returned(n, from) == IF file.whole /\ n > file.len - from THEN 0 ELSE Copied(n, from)

\* The ring with the data of the file from "from" on, put in at "at".
Filled(ring, at, n, from) ==
    [k \in Ring |-> IF k - at \in 0 .. Copied(n, from) - 1 THEN from + (k - at) ELSE ring[k]]

\* test_speaker_from_flash with decoder_start: half of the ring is filled and
\* the task is told.  A playback that still has its ring refuses another.
\* Bound: nobody asks again while a playback runs whose ring has been freed.
test_speaker_from_flash ==
    /\ sbc_buff = <<>>
    /\ stale => decodeTASKState = "IDLE" /\ msgs = <<>>
    /\ sbc_buff' = Filled([k \in Ring |-> -1], 0, HalfBuf, 0)
    /\ pos' = Copied(HalfBuf, 0)
    /\ store_data_len' = Returned(HalfBuf, 0)
    /\ end_flag' = FALSE
    /\ msgs' = Append(msgs, Prepare(store_data_len'))
    /\ hw' = TRUE
    /\ stale' = (decodeTASKState # "IDLE" \/ Has("STOP") \/ Has("PREPARE"))
    /\ crossed' = FALSE
    /\ UNCHANGED <<decodeTASKState, step, reg, env, sound, irq, file>>

\* test_end_speaker
test_end_speaker ==
    /\ Len(msgs) < MaxMsgs
    /\ msgs' = Append(msgs, Stop)
    /\ hw' = FALSE
    /\ UNCHANGED <<decodeTASKState, step, reg, env, sound, irq, file, reader, crossed, stale>>

\* Mutant: the ring is filled up at once.
RefillsAll ==
    LET at == store_data_len % BufLen
        got == Returned(BufLen, pos)
    IN  /\ sbc_buff' = IF sbc_buff = <<>> THEN <<>> ELSE Filled(sbc_buff, at, BufLen, pos)
        /\ pos' = pos + Copied(BufLen, pos)
        /\ store_data_len' = store_data_len + got
        /\ tot_data_len' = IF got > 0 THEN store_data_len' ELSE tot_data_len
        /\ end_flag' = (got = 0)

\* decoder_half_processed: half a ring of new data goes behind what is stored.
\* When the ring was freed under the decoder, the data goes elsewhere.
decoder_half_processed ==
    LET at == store_data_len % BufLen
        got == Returned(HalfBuf, pos)
    IN  /\ sbc_buff' = IF sbc_buff = <<>> THEN <<>> ELSE Filled(sbc_buff, at, HalfBuf, pos)
        /\ pos' = pos + Copied(HalfBuf, pos)
        /\ store_data_len' = store_data_len + got
        /\ tot_data_len' = IF got > 0 THEN store_data_len' ELSE tot_data_len
        /\ end_flag' = (got = 0)

-----------------------------------------------------------------------------
\* The audio task, message by message.

Takes(event) == step = "idle" /\ msgs # <<>> /\ Head(msgs).event = event

\* audio_decoder_prepare_handler: only when nothing plays.
prepare_handler ==
    /\ Takes("PREPARE")
    /\ IF decodeTASKState = "IDLE"
       THEN /\ current_pos' = 0 /\ data_processed_len' = 0
            /\ tot_data_len' = Head(msgs).len
            /\ pcm_buffer_list' = 0 /\ pcm_offset' = 0 /\ pcm_buffer_counter' = 0
            /\ decodeTASKState' = "BUFFERING"
            /\ msgs' = Append(Tail(msgs), NextFrame)
       ELSE /\ msgs' = Tail(msgs)
            /\ UNCHANGED <<decodeTASKState, pcm_buffer_counter, current_pos, tot_data_len,
                           data_processed_len, sound>>
    /\ UNCHANGED <<step, reg, stop_flag, irq, hw, file, reader, crossed, stale>>

\* Mutant: a stop leaves the interrupt on and the frames where they are.
StopKeepsFrames ==
    /\ Takes("STOP")
    /\ msgs' = Tail(msgs)
    /\ decodeTASKState' = "IDLE"
    /\ sbc_buff' = <<>> /\ stop_flag' = FALSE
    /\ UNCHANGED <<step, reg, pcm_buffer_counter, current_pos, tot_data_len, sound, irq,
                   data_processed_len, hw, file, pos, store_data_len, end_flag, crossed, stale>>

\* Mutant: the flag that one stop is under way is never taken back.
StopKeepsFlag ==
    /\ Takes("STOP")
    /\ msgs' = Tail(msgs)
    /\ irq' = FALSE
    /\ pcm_buffer_list' = 0 /\ pcm_offset' = 0
    /\ decodeTASKState' = "IDLE"
    /\ sbc_buff' = <<>>
    /\ UNCHANGED <<step, reg, env, hw, file, pos, store_data_len, end_flag, crossed, stale>>

\* audio_decoder_stop_handler with decoder_end_func; stop_flag is taken to be
\* reset here (the code that resets it is not in the repository).
stop_handler ==
    /\ Takes("STOP")
    /\ msgs' = Tail(msgs)
    /\ irq' = FALSE
    /\ pcm_buffer_list' = 0 /\ pcm_offset' = 0
    /\ decodeTASKState' = "IDLE"
    /\ sbc_buff' = <<>> /\ stop_flag' = FALSE
    /\ UNCHANGED <<step, reg, pcm_buffer_counter, current_pos, tot_data_len,
                   data_processed_len, hw, file, pos, store_data_len, end_flag, crossed, stale>>

\* decoder_play_next_frame_handler when nothing plays.
DropFrame ==
    /\ Takes("NEXT_FRAME") /\ decodeTASKState = "IDLE"
    /\ msgs' = Tail(msgs)
    /\ UNCHANGED <<decodeTASKState, step, reg, env, sound, irq, hw, file, reader, crossed, stale>>

\* ... when the file has been decoded: the last frame played asks for the stop.
WaitEnd ==
    /\ Takes("NEXT_FRAME") /\ decodeTASKState = "WAITING_END"
    /\ IF pcm_buffer_counter = 0 /\ ~stop_flag
       THEN msgs' = Append(Tail(msgs), Stop) /\ stop_flag' = TRUE
       ELSE msgs' = Tail(msgs) /\ UNCHANGED stop_flag
    /\ UNCHANGED <<decodeTASKState, step, reg, pcm_buffer_counter, current_pos, tot_data_len,
                   data_processed_len, sound, irq, hw, file, reader, crossed, stale>>

\* ... otherwise one frame is decoded and handed to the interrupt;
PushFrame ==
    /\ Takes("NEXT_FRAME") /\ decodeTASKState \in {"BUFFERING", "PLAYING"}
    /\ msgs' = Tail(msgs)
    /\ pcm_buffer_list' = pcm_buffer_list + 1
    /\ step' = "pushed"
    /\ UNCHANGED <<decodeTASKState, reg, env, pcm_offset, irq, hw, file, reader, crossed, stale>>

\* pcm_buffer_counter++ is a load
LoadCounter ==
    /\ step = "pushed"
    /\ reg' = pcm_buffer_counter
    /\ step' = "loaded"
    /\ UNCHANGED <<decodeTASKState, msgs, env, sound, irq, hw, file, reader, crossed, stale>>

\* ... the sound starts when Prebuffer + 1 frames wait; until then the task
\* sends itself the next message, and after that the interrupt does.
StartSound(counter) ==
    IF decodeTASKState = "BUFFERING"
    THEN IF counter > Prebuffer
         THEN irq' = TRUE /\ UNCHANGED msgs
         ELSE msgs' = Append(msgs, NextFrame) /\ UNCHANGED irq
    ELSE UNCHANGED <<irq, msgs>>

\* What follows when the frame is counted and done with.
Unread(total, processed) == (total - processed) % Modulus

Wrap(p) == IF p >= BufLen THEN 0 ELSE p

\* ... and a store, after which the frame counts as read.
CountFrame ==
    /\ step = "loaded"
    /\ step' = "idle" /\ reg' = 0
    /\ pcm_buffer_counter' = (reg + 1) % CntMod
    /\ crossed' = (crossed \/ reg # pcm_buffer_counter)
    /\ StartSound(pcm_buffer_counter')
    /\ data_processed_len' = (data_processed_len + FrameLen) % Modulus
    /\ IF Unread(tot_data_len, data_processed_len') < Low /\ ~end_flag
       THEN decoder_half_processed
       ELSE UNCHANGED <<tot_data_len, reader>>
    /\ decodeTASKState' =
         IF Unread(tot_data_len', data_processed_len') < FrameLen THEN "WAITING_END"
         ELSE IF decodeTASKState = "BUFFERING" /\ pcm_buffer_counter' > Prebuffer THEN "PLAYING"
         ELSE decodeTASKState
    /\ current_pos' = Wrap(current_pos + FrameLen)
    /\ UNCHANGED <<sound, stop_flag, hw, file, stale>>

Handle ==
    \/ prepare_handler \/ stop_handler \/ DropFrame \/ WaitEnd
    \/ PushFrame \/ LoadCounter \/ CountFrame

-----------------------------------------------------------------------------
\* i2s_isr_ram: half a fifo of samples is played; every frame that this
\* finishes is freed and asks the task for the next one.
i2s_isr_ram ==
    LET played == pcm_offset + Least(Half, pcm_buffer_list * FrameSamples - pcm_offset)
        freed == played \div FrameSamples
    IN  /\ irq /\ hw /\ pcm_buffer_list > 0
        /\ pcm_buffer_list' = pcm_buffer_list - freed
        /\ pcm_offset' = played % FrameSamples
        /\ pcm_buffer_counter' = (pcm_buffer_counter - freed) % CntMod
        /\ msgs' = msgs \o [i \in 1 .. freed |-> NextFrame]
        /\ UNCHANGED <<decodeTASKState, step, reg, current_pos, tot_data_len,
                       data_processed_len, stop_flag, irq, hw, file, reader, crossed, stale>>

Next == test_speaker_from_flash \/ test_end_speaker \/ Handle \/ i2s_isr_ram
=============================================================================
