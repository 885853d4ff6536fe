------------------------------ MODULE Speaker ------------------------------
(***************************************************************************)
(* The two things that the I2S interrupt (peripherals/audio/speaker.c) is  *)
(* for: it plays what the audio task decodes, or, in the mode CODEC_TEST,  *)
(* it passes what the microphone hears through the block ring buffer to    *)
(* the speaker.  The mode is set outside the repository's sources, before  *)
(* either is used: the two uses never meet.                                *)
(***************************************************************************)
EXTENDS Decoder, RingBuf

VARIABLE App_Mode

vars == <<dvars, ring, App_Mode>>

SpeakerInit == Init /\ Setup /\ App_Mode \in {"CODEC_TEST", "PLAYER"}

\* The playback uses the decoder and leaves the ring of blocks alone.
Player(A) == App_Mode = "PLAYER" /\ A /\ UNCHANGED <<ring, App_Mode>>

\* Test_Codec_demo and Test_codec_demo_stop; the demo is started when it is
\* stopped, so that no interrupt comes into the flush.  Before the flush the demo
\* sets the ring up anew (speaker.c:298), with the same outcome.
Switch(on) ==
    /\ irq # on /\ irq' = on /\ hw' = on
    /\ UNCHANGED <<decodeTASKState, msgs, step, reg, env, sound, file, reader,
                   crossed, stale, App_Mode>>

Test_Codec_demo == Switch(TRUE) /\ Flush
Test_codec_demo_stop == Switch(FALSE) /\ UNCHANGED ring

\* i2s_isr_ram in the test: half a fifo heard, half a fifo wanted.
Rx == irq /\ (\E d \in Blocks : Write(d)) /\ UNCHANGED <<dvars, App_Mode>>
Tx == irq /\ Read /\ UNCHANGED <<dvars, App_Mode>>

CodecTest == App_Mode = "CODEC_TEST" /\ (Test_Codec_demo \/ Test_codec_demo_stop \/ Rx \/ Tx)

SpeakerNext == Player(Next) \/ CodecTest

\* The audio task takes its messages and the I2S asks for samples; nobody has
\* to press a key or to speak.
Fairness == WF_vars(Player(Handle)) /\ WF_vars(Player(i2s_isr_ram))

SpeakerSpec == SpeakerInit /\ [][SpeakerNext]_vars /\ Fairness
=============================================================================
