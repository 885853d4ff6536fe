# Verification of the mesh node's firmware

The repository is the firmware of a Bluetooth mesh light (a "PB-Remote" node): an
application (`src/Node_Led/examples/none_evm/ble_mesh_PB_Remote`, below `app/`) on top
of an SDK (`src/Node_Led/components`, below `sdk/`), a vendored kernel and a closed
Bluetooth stack.  This directory holds TLA+ modules that model the application and the
parts of the SDK that keep state, the TLC configurations that check them, and proofs
checked by TLAPS.  `PROJECT.json` lists the runs, the mutants, the source lines behind
every definition, the hazards and the findings.

## 1. The system

The firmware is a single program: a Bluetooth stack that calls handlers, a user task
that reads a message queue, timers whose handlers run in the stack's context, and a few
interrupt handlers.  What survives a reset is in flash.

| component | files | state | operations | talks to |
|---|---|---|---|---|
| Key-value store | `app/code/kvmgr.c` | two flash blocks of records; in RAM the block states, the free space, the write position | set, get, delete, bulk delete, collect garbage, start, factory reset, custom replica | called by the node; flash driver |
| Push button | `sdk/modules/button/button.c`, the interrupt in `app/code/sig_mesh_led.c` | sampled pins, debouncing timer, ten-state gesture machine, two timers | GPIO interrupt, debouncing, toggle messages, time-outs | posts gestures to the user task |
| Mesh node | `app/code/sig_mesh_led.c`, `sig_mesh_info.c`, `proj_main.c`, `user_task.c` | whether it is provisioned and bound, the delayed store of the network information, the provisioning timer, the counter of short power-ons, the LED timer | mesh events, three timers, long press, boot | key-value store; button; stack |
| OTA update | `sdk/ble/profiles/ble_ota/ota.c`, `ota_service.c`, the flash guard in `sdk/modules/patch/patch.c` | two banks of flash, the session, packets kept in RAM, one timer | commands over GATT, link events, notification, time-out | every link of the stack; ROM |
| PB-Remote bearer | `app/code/pb_remote_central.c` | the connection to the device, tries, a time-out, the number of the last write | create, send, close, GAP and GATT events | stack |
| GAP events and user advertising queue | `proj_main.c:129-208`, `sig_mesh_led.c:835-891`, `sp_start_adv` | which link stopped the advertising; list of packets, a busy flag | GAP events; send, end of advertising | stack, bearer |
| Block ring buffer | `sdk/modules/RingBuffer/ringbuffer.c` | read and write position, count of blocks | set up, flush, write, read | the I2S interrupt |
| Audio playback and speaker | `sdk/modules/decoder/decoder.c`, `sdk/modules/peripherals/audio/speaker.c`, `sdk/modules/audio_decode/audio_decoder.c` | a ring of encoded data with its reader in flash, the list of decoded frames and their counter, the state of the decoding | play, stop, decode a frame, end; the interrupt that plays or loops the microphone back | audio task; block ring buffer |
| Light models and LED | `app/code/mesh_model_msg.c`, `app/userapp/src/led_fun.c`, `sdk/driver/driver_pwm.c` | on/off, lightness, temperature, colour, the duties of three channels, the breathing | set messages; the patterns of the commissioning | stack; mesh node |
| Publish resend | `sig_mesh_led.c:228-320` | one pending message, a timer and a count | publish, reply, time-out | nothing calls it |
| AT command receiver | `app_at.c` | a buffer and its index | UART interrupt, command task | not started |
| User data, quick switch | `sig_mesh_info.c` | records in flash | - | compiled out |
| Sound upload | `sdk/ble/profiles/ble_audio_profile/speaker_service.c` | a session that writes sounds to flash | - | compiled out |
| Low power patches | `sdk/modules/patch/patch.c` | none of their own | sleep and wake | registers |
| Simple peripheral, GATT service | `ble_simple_peripheral.c`, `simple_gatt_service.c` | none that matters | logging | not started |
| Profiles, drivers, codecs, kernel, stack | `sdk/...` | - | - | external |

What the build uses: `pb_remote_central_init` and `simple_peripheral_init` are
commented out (`proj_main.c:430-431`), so the PB-Remote callbacks are never registered in
this application; the OTA module, the ring buffer and the audio modules belong to the SDK and are not in
this application's project.  They are modelled as the modules that the SDK offers.

What is hard, and what correctness means:

- **Power failures** come between and inside flash writes.  The store must keep the value of
  every acknowledged set; the update must always leave an image that boots; the node
  must lose at most the changes of the last two seconds, and erase its network only for a
  reason.
- **Late handlers.**  A timer may be due when the event that stops it arrives, an
  interrupt may fire while an older sample is still in a message queue, and power may
  fail before a delayed store.  No change of a pin may be lost, no time-out may act on a
  press that has ended.
- **Shared session state.**  The update keeps one session for all links; a link that comes
  or goes resets what another link is using.
- **Gestures that decide.**  A long press erases the network: it must not be made up out of
  clicks or bounces.
- **A task and an interrupt.**  The task that decodes a sound and the interrupt that plays it keep each other going with
  messages and a shared counter; if the chain breaks, the sound never ends and no other can start.
- **Two masters of one lamp.**  The mesh's messages and the patterns that show the commissioning drive the
  same three channels; neither may undo what the other has set last.
- **Small integers.**  The power-on counter is a byte, the free space of a block a `uint16_t`,
  and a bound of the update is computed as `(0 - 1) * length`.

## 2. The modules

| module | what it is |
|---|---|
| `KvMgr` | the store, one step per flash write |
| `DurableMap` | what the store promises: a map that survives the loss of power |
| `KvProps`, `MCKv` | properties, inductive invariant; instances |
| `KvProofs` | theorems about the store that hold whenever the power fails |
| `KvMapProofs` | theorems about the map it holds, with collections that are cut and without |
| `Button` | interrupt, debouncing, gesture machine, timers |
| `Gestures` | what the button module promises: the order of its messages |
| `ButtonProps`, `MCButton`, `ButtonProofs` | properties, instances, theorems |
| `Node` | commissioning, delayed store, power-on counter |
| `NodeProps` | its properties |
| `Light` | the lamp, composed with `Node` |
| `MCLight`, `LightProofs` | instance; theorems about the node and the lamp |
| `Ota` | the update session with flash, links, peer and power |
| `OtaProps`, `MCOta`, `OtaProofs` | properties and the inductive invariant, instances, theorems |
| `OtaHistory` | `Ota` with a history of packets that have lost their first part; what it promises while there are none |
| `PbRemote`, `PbProps` | the provisioning bearer and its properties |
| `PbData` | the writes that the bearer carries, composed with `PbRemote` |
| `PbProofs` | theorems about both |
| `GapEvents`, `GapProps` | the handler of GAP events and the queue of user advertisements |
| `AirQueue` | what that queue promises: one packet at a time, in turn |
| `GapProofs` | theorems about both |
| `RingBuf` | the block ring buffer |
| `BlockFifo` | what it promises: a bounded queue |
| `Decoder` | the playback of a sound: audio task, I2S interrupt, reader of the file |
| `Speaker` | the interrupt's two uses: `Decoder` and `RingBuf` |
| `SpeakerProps`, `MCSpeaker` | its properties and their inductive invariant; instance |
| `SpeakerProofs` | theorems about the playback and the ring buffer |

Operators that begin with the comment *Mutant* are plausible mistakes in the operator they
stand before; nothing in a specification uses them.  They are there to show that each property can
fail: each is put in the place of the original, and TLC then refutes the property.

### KvMgr

State: `hdr` and `item` are the flash (block headers and record slots), `blk_state`,
`blk_space`, `clean_blk_nums`, `write_pos`, `gc_triggered` are the fields of `g_kv_mgr`, and
`pc`, `req`, `ret`, `cur`, `old`, `unclean` say where the program is in a call, in the
collection (`gc_*`) or in the start (`boot_*`, `scan_*`, `last_*`).  An action is one flash
write, or a read loop that writes nothing, named after the function it is a part of.
`Crash` may happen between any two; `CutStore` and `CutCopy` leave a torn record.

Abstractions:
- All records have one length, a slot: the application's only key is `POWERON_COUNT_KEY` with a one-byte value.
  Offsets are pairs of block and slot; offset 0, "no origin", is slot 0 of block 0.
- Erasing a block and programming one state byte are atomic; a torn record write leaves
  either a header whose lengths are out of range (`Torn`) or a record whose CRC is wrong (the CRC-8 is assumed to notice).
- Out of memory and flash errors are left out: `raw_read`, `raw_write` and `raw_erase` never report an error.
- `BLK_NUMS` is 2; code compiled in only for more blocks is left out.

### Button

`pins` is what the contacts do, `irq` the latched interrupt, `last` and `sample` what the
debouncing compares, `shake` its timer, `toggles` the messages on their way to the button
task, and `pressed, saved, toSend, cnt, state, stateTimer, pressing` the variables of
button.c.  `out` holds the messages of the last step and `held` (history) how long the
buttons have been down.  The ten state functions are one operator each (`Idle` ... `CombLongLongPressed`).
Time is counted in ticks; a timer that has run out may be handled at any later moment, so
handlers are late by any amount.  `os_timer_start` and `os_timer_stop` are taken to be
effective against an expiry that has not been handled yet.  The interrupt's pending bit is cleared after its handler has read the pins
(driver_pmu.c:1051-1052); a change between the two is taken to set the bit again.

What the model showed, and what limits the properties: with a third button
`button_comb_just_pressed` enters the state of a *single* press (line 248), so that `StateMatches` and
`InOrder` are about at most two buttons (the application configures one, GPIO_PA6).  A second click
that is shorter than 80 ms ends in RELEASED, and the pending click is then never reported.
A button that is down at power-on is not seen until it moves (`button_init` does not sample).
user_task.c compares the type of a message with `BUTTON_WORKING_STATE_LONG_PRESSED`, a member of another enumeration, which
happens to have the value of `BUTTON_LONG_PRESSED`.

`Gestures` describes the messages of one press as a path through phases (pressed, clicked, long, ...); `Promise` in
`ButtonProps` maps the state machine to those phases.

### Node

`info` is the network information in flash and `net` what the stack has; `dirty` says that
the stack has changed it and not told yet.  `store`, `prov`, `led` are the three timers,
`stored` and `count` the counter of power-ons in flash and RAM, `step` and `time` how far
the boot has come.  `cause`, `brief`, `residue` and `refused` are history: why the node
restarted last, how many boots in a row were short, what a refused write left in the counter.
`aos_kv_set` is used as `KvMgr` models it: it stores or refuses; its result is ignored by the code (proj_main.c:360, 365).

Assumed of the stack: it starts within `Threshold` (3 s); for a stored network it
reports MESH_EVT_IN_NETWORK before MESH_EVT_STARTED; `mesh_info_store_into_flash` is atomic.

What the model showed: every restart counts as a power-on, also those that the program
orders itself; a power failure between the store of a provisioned node and its binding leaves it
provisioned with no timer that would erase it; `SUBS_LIST` stops that timer without a binding;
updates that never pause keep the network information out of the flash; `config_net_sta` is only ever 0 or 1, although its comment (proj_main.c:70) lists three values.

### Light

`Light` extends `Node`: every step is one of the node's together with what it does to the lamp (`Start`, `Join`, `Bind`,
`LampTimeout`, ...), or a message of the mesh (`Message`).  `on_off_state`, `lightness`, `ctl_temperature`, `led_ctr` are the variables of mesh_model_msg.c,
`duty` and `reduce` those of the breathing, `pwm` the duties that the channels took: `pwm_update` ignores a duty of 100 or more.
`by` (history) is the kind of message that counts.  The floating point of led_fun.c is computed in exact fractions and then cut.

Assumed: a temperature is below 35200, above which a conversion to a byte is undefined.

What the model showed: `MESH_TEMPERATURE_SET` accepts temperatures above the advertised range, and the duty of green is then ignored
(`Shows` speaks of the range); the on/off state, the lightness and the colour are independent, so that a get message may answer the state before a
binding turned the lamp full white; a second binding replaces a colour that was asked for.

### Ota

`flash` holds two banks of units and `cur` the bank that runs.  `first_loop`, `ota_state`,
`timer`, `check`, `first_pkt`, `recving`, `rbuf` are the static variables of ota.c, `ntf` is
`ota_link_ntf_enable`, and `pc` the position in the REBOOT command, which is one step per
flash operation.  All other handlers are one step; a power failure may cut the flash
operation of any of them (`Cut`: what came before is done, one unit is neither old nor new).
`peer` is the other side: it asks for the base, erases, writes and reboots, waits for answers,
may repeat packets, start over, come back and resume, or leave.

Assumed: the ROM boots the bank with the higher version among those whose header page is whole;
all images have the same length; a copy to the NULL buffer either has no effect or is a fault that
resets the chip; one peer updates at a time.  `Modulus` stands for 2^32.  READ_MEM, WRITE_MEM, READ_DATA
and the contents of user data are left out.

What the model showed: when another link is lost in a session that has kept no packet yet,
`first_loop` stays FALSE and the guard of the flash stays closed, so that the update then fails its check
(`UndisturbedInstalls` therefore speaks of updates that begin their session); `ota_recving_data`
survives its link and makes the next session's first commands part of a packet that was given up.
Neither damages the image that runs as long as packets are assembled from their own parts (`HeadKept`, proved; `OtaHistory` remembers in `headless`
whether that has been so, and `RunningUntouched` speaks of such behaviours only).  `BootsIntact` holds in the run's instance without the condition, but only because the instance is small.
In general nothing bounds the damage: a packet whose first part was lost with the buffer may be taken for one more packet of the header and be
appended to the ones kept (as a repeated one is, see the findings), and what is then written behind the header page may reach the end of the bank and the one
that runs.  TLC finds this with `ImageLen` = 8, `PacketLen` = 3 and `MaxDisturb` = 3 in `Ota.cfg` (for `RunningUntouched` without its condition), where a bank is three packets long; a real bank is
far longer, and a session would have to lose that many packets so.
What such a packet holds is itself bounded in the model (`Assembled`): addresses up to the first behind the banks, and a length of one unit or of a packet, where
the code takes any 32-bit address and any 16-bit length unchecked (ota.c:257-266, 398); the subtraction of the page from a shorter kept length (ota.c:450), which would wrap,
gives nothing to write; and an index that runs past the 512 bytes of the receiving buffer (ota.c:257, `Swallowed`) has no effect, because what lies behind the buffer is not modelled.
A refused erase also asks for the end of the link (ota.c:363, 371), which the model has as one of the losses of a link at any time.
An image that is shorter than the packets that hold its header page cannot be installed: the last packet is short, and the one that should complete
the page falls behind the bound and goes to the flash, so that the page is filled up with whatever follows the buffer
(`ImageLen` = 6, `HeaderLen` = 5, `SectorLen` = 8, `PacketLen` = 4 in `Ota.cfg` violate `UndisturbedInstalls`).  No application is that short;
`LongImage` says so where it is needed.

### PbRemote

`client_idx`, `try_times` and `timer` are the variables of pb_remote_central.c.  The rest is the link layer: `trying`, an attempt under way; `link`, what there is under each
connection index (nothing, a link that another has made to the node, or a device); `evts`, the events on their way, delivered in order some time after what they tell of, as in `GapEvents`;
`discovering` and `leaving`, the links whose services are looked for and those that `gap_disconnect_req` will end.  An index is free again as soon as its link is lost, so that another's link may have it
while `client_idx` still names the one that was lost.  `bearer` is what the mesh stack believes, `report` what the last step told it, and `crossed`
(history) whether a connection was made and not yet reported when the time-out gave it up, or was lost and its index another's by the time it was reported.

Assumed: a connection is found not to be established (0x3e) before anything is heard of the device's services; a
discovery ends with `GATT_OP_PEER_SVC_REGISTERED` or with its link; a request to end an index that has no link does nothing; the stack creates a bearer only when it believes that it has none.

What the model showed: `gatt_bearer_close`, or a device without the service, asks for the end of whatever has the index `client_idx` (pb_remote_central.c:126, 240).  Between the loss of the connection and the delivery of
its event that may be another's link, which is then ended; nothing in the code can tell.  `OnlyOwn` says that this is the only case: an index that is asked to end is a device's, or its loss is
still to be reported.
The time-out can cross a connection, and then the stack is told of a bearer that it has given up, and a second attempt may lose
its timer to the first one's connection (`Watched` and `ReportsFit` therefore speak of behaviours without a
crossing of either kind; `OnlyOwn` and `Answered` hold with them).  `gatt_bearer_close` before the connection has no effect, and a retry forgets one.
Because the first try is counted as 1 and the comparison is `<=`, a bearer is tried four times, not three.

### PbData

`PbData` composes the bearer with the writes it carries: `flight` holds what the GATT layer has not completed, by link, and
`pb_remote_last_out_seq` is the one number that the code keeps.  A write goes over whatever link has the index `client_idx`, or nowhere; when a link is lost, the completions of the first of
its writes may still be under way (`DropsWrites`).  `misnamed` (history) says that a write that was alone in flight was confirmed by another
number; writes that are in flight together are confirmed by one another's (pb_remote_central.c:247), and whether the stack sends so is not visible in
this repository.  What comes from the device is passed on and leaves no trace.

### GapEvents

`evts` are the events on their way, in order; `adv`, `slaves`, `masters` and `air` the link layer; the rest are the variables
of `proj_ble_gap_evt_func` and of the queue.  The order SLAVE_RAW_CONNECT, ADV_END, DISCONNECT is the one that gap_api.h:212 documents.  If the
disconnection came before the end of the advertising, the node would not advertise again.  `GAP_EVT_DISCONNECT` also calls
`pb_remote_disconnected`; the two share no state, and `PbRemote` has that half, with events that are as late as here (and slave links whose events it must ignore).
Advertisements that the stack sends on its own account are not modelled; it is assumed that their ends are not delivered to the application.

### RingBuf

`buf`, `writeptr`, `readptr` and `newblockcount` are the fields of the ring.  The reader's three calls (malloc, use, free) are one
action, because the one user in the sources makes them in one interrupt; `got` is what it used.

### Decoder and Speaker

The audio task takes messages from `msgs`, one action per message, except that `NEXT_FRAME` is three (`PushFrame`, `LoadCounter`, `CountFrame`): the frame is appended with the interrupts
locked, and the counter is incremented after they are released, by a load and a store.  `i2s_isr_ram` may come between any two.
`sbc_buff` says for every place of the ring which part of the file it holds.  `test_speaker_from_flash` and `test_end_speaker` are the
application's calls; they come at any time.  `Speaker` adds the other use of the interrupt, the loop of the microphone through `RingBuf`; the mode `App_Mode` is
set outside the sources and does not change, so that the interrupt's two uses never meet.  The microphone's demo sets the ring up anew (speaker.c:298 clears its positions) and
then flushes it; the two have the same outcome, and the flush is what the model has.

Assumed: the loop of the audio task is not in the repository, so that `PREPARE` and `STOP` are those of audio_decoder.c, with the callbacks of decoder.c,
and `stop_flag` is reset by `STOP`, which no code here does; a frame's length divides the ring's (decoder.c:342 makes it so if the rounded length is even);
the lengths are 32-bit numbers and nothing relates `Modulus` to the ring's length, as 2^32 is no multiple of the real one; a file has a frame at least; the microphone's demo is started when it
is stopped.

What the model showed, and what limits the properties: an interrupt between the load and the store of `pcm_buffer_counter` is lost, and the
playback then never ends (decoder.c:473, history `crossed`); a sound of less than three frames is never heard and never ends
(decoder.c:477, `Short`); the stop at the end of the file and a stop by hand can both be queued, and the second frees the ring of a
sound that was started in between (decoder.c:293, history `stale`); a file that ends with its page loses its tail (decoder.c:168).

## 3. The runs

States are distinct states; every passing run finishes within three minutes on two cores.

| run | instance | states | properties | what it shows |
|---|---|---|---|---|
| `kv_one_key` | 1 key, 2 values, blocks of 4 slots, 3 power failures anywhere, all operations | 174,669 | `IInv`, `GarbageIsDirty`, `Durable`, `FlashDiscipline`, `Completes` | as the application uses the store, it implements `DurableMap` |
| `kv_two_keys` | 2 keys, blocks of 3 slots, 3 power failures anywhere | 164,984 | `OneRecord`, `RefusedOnlyWhenFull`, `LosesOnly` | keys that share a block: a restart after a cut collection may lose one but revives none, and a set is refused only when the garbage is collected |
| `kv_gc_crash` | 2 keys, 1 power failure inside a collection | - | `RecoveryPreserves` (violated) | see the findings |
| `button_two` | 2 buttons, bounces at any time | 54,888 | `LongPressHeld`, `NothingMissed`, `StateMatches`, `InOrder`, `Tracks`, `Settles` | no change is missed, no long press made up, messages in order, buttons left alone come to rest |
| `button_three` | 3 buttons, symmetric | 394,679 | `TimersMatch` | no timer outlives its state, line 248 included |
| `node` | counter modulo 5, 3 short boots erase, times 3/2/4 | 293,056 | `IInv`, `Flushed`, `LossExplained`, `Saved`, `Forgets` | why a network may be lost, and that it is stored |
| `light` | the node with times of 1, two levels, the ends of the range of temperatures, pure red | 187,428 | `Obeys`, `Shows`, `Breathes` | the lamp shows what was asked last, and breathes while there is no network |
| `ota` | header page of 3 units, packets of 2, 2 sectors, an image shorter than the bank | 671,244 | `BootsIntact`, `GuardIsTimed`, `UndisturbedInstalls`, `RunningUntouched`, `Closes` | two updates in a row with two disturbances; the bank that runs is left alone as long as no packet has lost its first part |
| `ota_retry` | a peer that repeats header packets | - | `KeptFits` (violated) | see the findings |
| `pb_remote` | 2 links, 3 tries, 2 events under way, 2 numbers, 2 writes in flight | 1,934,370 | `OnlyOwn`, `Watched`, `Named`, `ReportsFit`, `Answered` | no other link is ended, except under the index of a loss still to be reported; every request is answered, an awaited write is confirmed by its number |
| `gap_events` | 3 links, 2 packets | 102,220 | `Reachable`, `InTurn`, `Sent` | the node stays reachable, packets go on air in turn |
| `speaker` | 4 files, a ring of 4 frames, 3 blocks | 201,856 | `RightData`, `Credit`, `Ends`, `Echo` | the decoder reads the file's bytes, the chain of messages does not break, a sound ends, the ring of blocks is a queue |

**Bounds and why they are enough.**
`Cap` = 4 leaves three usable slots, enough for a live key, the second record of an
update and a collection in between; `Cap` = 3, with two keys, fills a block, so that sets are refused; every order of two blocks being used, collected and cleaned
occurs.  `MaxCrash` = 3 lets a recovery and the recovery of the recovery be cut.  `ItemMax` = 2 makes
the early trigger of the collection happen.  In the Button runs the durations keep the order of the real ones
(anti-shake < short < long < long long); a click count modulo `CntMod` wraps; `MaxQueue` messages may be
under way.  In `node` the counter wraps at `CntMod` instead of 256, and `Quick` boots in a row are few enough
to happen together with a refused write.  In the OTA runs `MaxVersion` stops the peer after two updates, which
makes each bank the running one, and `MaxDisturb` counts losses of links, power failures, retries and
restarts of the peer.  A bank is two sectors; a header page is three units, so that it can be torn, and the two packets that hold it hold
a part of the image too, as with the real lengths.
In `pb_remote` either of two links may be the bearer's, one that a time-out crossed, or somebody else's, and `MaxEvents` lets an index pass from one to the other while events
of the first are under way; `MaxFlight` lets two writes over one link be in flight.  (Without the writes, three links and three events, 36 million states, gave the same results for the safety properties.)  In `gap_events`, `MaxEvents`
keeps new links from coming before older events are delivered, and `MaxWaiting` bounds the queue.
In `speaker` the files are shorter than the sound needs to start, end inside a page or with it, and go round the ring more than twice; a frame is not a
multiple of what an interrupt plays, so that it ends in the middle; the counter wraps at `CntMod` and lengths at `Modulus`; no stop is asked for while
`MaxMsgs` messages wait, and no sound is started while one runs whose ring was freed under it.
In `light` the times of the node are the least that keep it going (its own run has longer ones), `Pulse` makes the breathing go from full to dark at
once, and `Restarts` keeps two of the causes of a restart, since all do the same to the lamp.

**Deadlock** is checked except in the OTA runs: there the peer may leave and the budget of disturbances run out, and nothing is left to happen.

**Symmetry** is used for the three buttons only; that run has no liveness property.

**Fairness.**  `KvMgr`: weak fairness of the program's own steps, none of calls or power failures; the code runs
to its end if the power stays on.  `Button`: weak fairness of the interrupt, the debouncing handler,
the task, both time-outs and time; pins move as they like.  `Node`: weak fairness of the stack's
start, of the report of a pending change, of the three handlers and of time; none of events, resets and
the button.  `Ota`: the time-out handler once the peer has gone (while it sends, it restarts the timer), and the two
steps that end a REBOOT command.  `PbRemote`: the time-out, the delivery of events (they are queued, and delivery is what the stack's main loop does), the end of a discovery and of a link that is asked to
end; none of connections, losses, the stack or the completion of writes.  `GapEvents`: delivery, and the end of an advertisement, which has a duration.
`Light`: the handlers of the node's timers and time.  `Speaker`: the audio task takes its messages, and the I2S
interrupt comes while sound is due; none of the application's calls.

**Liveness**: `Completes`, `Tracks`, `Settles`, `Saved`, `Forgets`, `Breathes`, `Closes`, `Answered`, `Sent`, `Ends`.  `Saved` and `Forgets` say what holds *if* updates
or reboots pause: nothing in the code makes them pause.

## 4. What is proved

TLAPS checks the theorems for all values of the constants, under the assumptions named in
the modules (`ConstantsAssumption`, `DurationAssumption`, `NodeAssumption`, `LightAssumption`, `PbAssumption`, `DataAssumption`, `RingAssumption`, `DecoderAssumption`, ...: numbers are natural,
durations ordered, special values distinct).  They hold for any number of power failures, buttons, keys, boots, links, blocks and files of any length.
The leaves are small enough to be proved in a fifth of the provers' default time (`tlapm --stretch 0.2`), so that the result does not depend on a fast machine.

| theorem | states |
|---|---|
| `KvProofs`: `Inductive` | `IInv` of `KvProps` |
| `TypeCorrect`, `MirroredAlways`, `ReserveAlways`, `DisciplineAlways` | types (`space` never below 0), RAM mirrors flash between calls, one block is always in reserve, flash is programmed legally |
| `GarbageAlways`, `RefusedAlways` | no garbage that the collector would not find; a set is refused only with the garbage collected |
| `KvMapProofs`: `MapInductive` | `MapInv` of `KvProps`, if `CollectionsEnd` |
| `DurableAlways` | the store refines `DurableMap`, if `CollectionsEnd` |
| `RecoveryAlways` | a start changes no key, if `CollectionsEnd` |
| `LossInductive` | `LossInv` of `KvProps`, wherever the power fails |
| `OneRecordAlways` | one record for a key between calls, wherever the power fails |
| `LosesOnlyAlways` | the store refines the map of `DurableMap` whose restarts may lose keys (`LossySpec`), wherever the power fails |
| `ButtonProofs`: `Inductive` | `IInv` of `ButtonProps` |
| `TypeCorrect`, `TimersMatchAlways`, `LongPressAlways`, `NothingMissedAlways` | timers run in exactly the states that need them, no long press is made up, no change of a pin is missed |
| `StateMatchesAlways`, `InOrderAlways` | for at most two buttons: the state says how many are down, and the module refines `Gestures` |
| `LightProofs`: `Inductive` | `IInv` of `NodeProps` |
| `TypeCorrect`, `FlushedAlways`, `BlinksAlways`, `LossAlwaysExplained` | the flash has what the stack has, the LED timer does not end early, a network is lost for a reason only |
| `LampKeepsNode` | the lamp implements `Node`, so that all theorems about the node hold with it |
| `ObeysAlways`, `ShowsAlways` | the lamp shows what was asked last; what is asked for can be shown |
| `OtaProofs`: `GuardIsTimedAlways` | the guard of the flash is never open without the timer that closes it |
| `OtaInductive` | `OtaInv` of `OtaProps`, if `HeadKept` and not `ResendFirst` |
| `BootsIntactAlways`, `RunningUntouchedAlways` | after a power failure at any point a complete image boots, under the same hypotheses; the bank that runs is not changed as long as no packet has lost its first part, if not `ResendFirst` |
| `UndisturbedInstallsAlways` | an update that begins its session and that nothing disturbs boots the new image, under the same hypotheses and `LongImage` |
| `KeptFitsAlways` | no more packets are kept than were allocated, under the same hypotheses |
| `PbProofs`: `Inductive` | `IInv` of `PbProps` |
| `OnlyOwnAlways`, `WatchedAlways`, `ReportsFitAlways` | the three safety properties of the bearer, with events as late as they like |
| `DataKeepsBearer`, `NamedAlways` | the writes leave the bearer alone; an awaited write is confirmed by its own number |
| `GapProofs`: `Inductive` | what the events under way tell, and one packet on air |
| `ReachableAlways`, `InTurnAlways` | the node stays reachable; the queue refines `AirQueue` |
| `SpeakerProofs`: `SoundInductive` | `SoundInv` of `SpeakerProps`: where messages and frames are between two steps |
| `CreditAlways`, `RightDataAlways` | the chain of messages does not break; the decoder reads the file's bytes, in order |
| `RingInvariant`, `RingIsFifo`, `EchoAlways` | between the positions lie the blocks that count; the ring refines `BlockFifo`, alone and under the interrupt |

The arguments:

- **Store.**  `Mirrored` speaks of the moments between calls; to prove it one has to say what holds
  between the writes of a call.  `Running` says it while calls are served (the block in use is filled up to
  `write_pos`, the other is clean and empty), `Collecting` while a block is collected (the target never holds more
  than has been read of the source, so it cannot overflow), `Starting` while the store starts (which
  blocks have been read, formatted and counted as clean, whatever the flash held).  `Contiguous` - the
  records of a block are a prefix, and its last slot is never written - is kept by every step.  `OneReserve`
  follows from all of them and is what makes `Starting` hold after a power failure.
  On `IInv` stand two more invariants.  `Swept` says how far a USED block is known to hold valid records only: all of it while calls are
  served, up to the cursor in a start, or it is about to be marked; with it a collection that skips USED blocks misses nothing.  `Refused`
  follows a refused set into the collector and out again.
- **Map.**  `Durable` compares every step with a step of `DurableMap`, through `Dict`, the map that a restart would find in the flash: of a key's valid
  records the one that no other replaces.  `MapInv` says when that is easy to tell.  A block has one valid record of each key (`One`), or two
  while an update is under way or was cut, and then the second names the first as its origin (`Paired`); a start has left one of them as far as it has read
  (`ReadUpTo`); a collection has copied each record that it has passed and nothing else (`Copied`), which makes the block that it erases and the one that
  it filled hold the same map.  `Updating` and `Deleting` say what a call knows of the records that it is to write or delete.  The proof has a lemma for each
  rule that `Dict` obeys (no record, one, a pair), one for each action, and one that an action which leaves the records of a key alone leaves its value alone.
  The hypothesis `CollectionsEnd` says that no power failure comes between two writes of a collection.  It is needed: copies keep their `origin_off`, so
  that `Paired` fails for what a cut collection leaves, and with it `Durable` (see the findings).  Power failures at all other
  points, inside a record write included, are covered, in any number.
- **Map, where collections are cut.**  Two properties do without the hypothesis.  `LossInv` is `MapInv` except that a start may also be `Aside`: it finds a
  target that was `Abandoned`.  Such a target and its source hold each key at most once (`Once`, damaged records included), since a collection starts from a
  block with one record of each key and has copied each it has passed once (`Copied`); the source is still in use, or empty.  Each record that the
  recovery takes for the origin of a copy and deletes is lost, but of the two blocks one only counts (the source while it is in use, then the target), and there a key has
  no second record that could come back: the step is `Lose` of `DurableMap`.  At the end the start formats the target, or keeps it and has formatted the source; then `Once`
  gives `One`, and `MapInv`'s description holds again before the first call is served (`Reserved`).  Hence `OneRecord` between calls, and `LosesOnly`: from one start to the next the store is
  the map of `DurableMap`, and a start takes keys away at worst.
- **Buttons.**  `TimersMatch` is kept by each of the ten state functions.  `HeldLongEnough` relates what is left of the state
  timer to how long the buttons have been down, and gives `LongPressHeld`.  `SampleCurrent` says that the interrupt and the debouncing handler work on the same
  sample, and gives `NothingMissed`.  For the refinement each of the state functions is shown to lead between the phases of its states
  (`SilentRows`, `SingleRows`, `DoubleRows`); two buttons have one combination only (`OneCombination`), so line 248 is not
  reached, and `StateMatches` is carried along with `IInv`.
- **Node.**  `Counted` bounds the counter in flash by the short boots in a row plus what a refused write has left;
  `LedRuns` and `Known` relate the timer and the networks; `LossExplained` follows as a step property.
- **Bearer.**  `Own` says that an index the code knows or is about to be told of has its device, or that its loss is under way behind; it holds through crossings, and gives `OnlyOwn`.
  `Watched` and `ReportsFit` need the course of a bearer as long as nothing has crossed: `Idle`, `Attempt` (the timer runs, and one connection at most is made),
  `Client` (the index is known), `Search` (services are looked for or their result is under way, before the loss of their link), and `Loss`: the first loss that is reported of an index after its
  connection is that connection's own, so that a retry is started by nothing else.
- **Lamp.**  The duties computed last and the channels agree wherever the duty is accepted, and the breathing stops with the binding, before a message can
  reach a model; `Shows` is arithmetic over the advertised range.
- **Update.**  Every command that opens the guard restarts the timer, and whatever stops the timer closes the guard.
  What boots: the bank that runs is `Fine`, that is whole, and a header in the other bank is older or `Spoilt` - a unit of its page is wrong and not erased,
  so that it can never be completed without an erase.  A step is `Quiet` if it leaves the bank that runs and makes the other header page
  no more complete; all commands are (`FlashAfterQuiet`), so is what a power failure leaves of them (`QuietCut`), and a quiet step keeps the bank fine (`QuietFine`).
  The one step that is not quiet is the write of the header (`HeaderStep`): the page is erased and the image behind it checked (`HeaderInv`), and
  what is written is the header of an image with a version above the running one - which then boots and is whole -, or, as long as the page
  is not complete, spoilt.  This needs to know what the kept packets are (`KeptOK`: of the full length, the version raised once they hold the page;
  `PktInv`: of the image that is sent and no more than the peer has sent), and where writes lie (`Fits`: the bound of the header packets,
  `num` - 1 being -1 at first, drops or lets pass the right ones).
  Two hypotheses.  `HeadKept`: no packet is assembled after its first part was lost with the buffer (as `[]HeadKept`, or for `RunningUntouched` as the premise that `OtaHistory` remembers).  What such a packet holds no handler has written, and without
  the hypothesis both properties fail in some instances (section 2).  `ResendFirst` = FALSE: the peer does not repeat packets of the header page; if it does they are kept twice (see the
  findings).  Packets in two parts, commands taken for the rest of one that the peer gave up, other retries, time-outs, all links' events and power
  failures in every flash operation are covered, in any number.
  That an undisturbed update succeeds needs the opposite, what *is* there: `CleanInv` says, by the number of commands answered, which sectors are erased (`Erasing`),
  that the packets kept are the beginning of the image (`Begins`), that what lies behind the header page is the image up to the last packet and erased from
  there (`Behind`), and that the packet that comes next passes the guard and the check of the order (`Going`).  After the last packet the kept ones and the
  flash are the whole image, and its raised version wins.  `LongImage` is the third hypothesis, found when this proof failed without it (section 2).
  `KeptBound` is the bound of what is kept: a packet below the bound of the header page is a whole one, and it is appended only if it continues what the peer has sent.
- **Writes.**  A write that is alone in flight is the one whose number was noted last; every later one takes that away from it.
- **GAP events.**  The node is in one of five stages - booting, advertising, connected, told of it, knowing the link - and
  each is told by the events that are still under way; `Reachable` is the case that none is.  `OneOnAir` ties the busy flag to the air and to the end of
  the advertisement, and makes every step one of `AirQueue`.
- **Playback.**  `InLine` is about the order of the queue: when a sound is asked for nothing plays, and only stops come behind it.  `Kept` says
  that the ring of encoded data is there for as long as somebody wants it, and `Chain` counts the frames: those that wait and those that are asked for
  are `Prebuffer + 1`, less the one under way.  `DataInv` adds the bytes: from the place that is decoded to the end of what is stored the ring holds
  the file's (`Holds`), the reader stands at a multiple of half the ring or at the end of the file (`ReaderOK`), so that a refill
  does not pass the ring's end, and the places of two bytes less than a round apart differ (`RemainderDiffers`), so that it covers nothing unread.
- **Ring of blocks.**  The write position is the read position plus the count, round the ring; the queue of the refinement is the blocks between them.

Only model-checked: that the single key of `kv_one_key` survives its three power failures inside collections too (`Durable` there; with more failures it need not, see the
findings), what an update does with packets whose first part was lost (`ota`) or with repeated ones (`ota_retry`), and all liveness (out of the prover's reach).

## 5. Findings

- **The recovery can delete the only copy of a key** (`kv_gc_crash`, kvmgr.c:382).  A collection copies a record together
  with the `origin_off` of its last update.  That offset may by then be the place of another live record.  If the power fails
  during the collection, the recovery takes the copy for an update, deletes what is at its origin, and then
  formats the block with the copies.  The application's single key is not safe from it either: a record that collections have carried once
  round the two blocks has its own place as its origin, and the next collection that is cut then loses it.  That takes three power failures inside collections with
  blocks of 3 slots and six with 4, so that `kv_one_key` (4 slots, three failures) stays below it.
  A lost key is the worst of it: no earlier value comes back, no other key changes its value, and nothing is lost between two starts (`LosesOnlyAlways`).
- **A header packet that is repeated is kept twice** (`ota_retry`, ota.c:436), against the comment at ota.c:449.
  The repetition alone is to blame: a peer that does not repeat keeps to the bound, as long as `HeadKept` holds (`KeptFitsAlways`).

## 6. Not modelled, and what is left

Not modelled:

- the closed stack, drivers, kernel, codecs and the profiles this application does not use, except as the external actions of the modules above;
- `kv_block_replica` (kvmgr.c:1006-1131): no caller passes anything to it here;
- the resending of publications (sig_mesh_led.c:228-320): its callers are `app_mesh_send_dev_rst_ind`, which nothing calls, and
  `app_auto_update_led_state`, which only app_at.c and code under `#if 0` in user_task.c call;
- the AT receiver (app_at.c): `app_at_init` is not called and the task's dispatch to it is commented out (user_task.c:28);
- the store of user data and of the quick switch, and the upload of sounds (`SPEAKER_DATA_CTRL` is 0, speaker_service.h:56): compiled out;
- the second decoder of audio_decoder.c, of the same shape as the one modelled, and light_models.c of the SDK's mesh profile, which the application replaces;
- the commands of the update that read and write memory: aids for debugging.

Left to do:

`Node` on the store of `KvMgr`, with the button's gestures as its long press: the assumptions that `Node` makes of the
other two as a composition, as `Light` is one already.
