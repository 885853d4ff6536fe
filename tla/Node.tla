-------------------------------- MODULE Node --------------------------------
(***************************************************************************)
(* The life of the node in its network: the mesh events that              *)
(* mesh_callback_func handles (sig_mesh_led.c), the delayed store of the    *)
(* network information (sig_mesh_info.c), the counter of short power        *)
(* cycles (proj_main.c) and the long press (user_task.c), across resets     *)
(* and power failures.                                                      *)
(*                                                                         *)
(* The mesh stack is closed: it is modelled by the events it delivers and   *)
(* the calls it is given.  The network information is "none", "prov" when   *)
(* the node has been provisioned, "bound" when its models have been bound   *)
(* to an application key too.  The key-value store is the durable map that  *)
(* KvMgr implements; aos_kv_set may refuse, and the callers do not notice.  *)
(*                                                                         *)
(* Time is counted in periods of the LED timer (80 ms).  A timer holds the  *)
(* periods left, 0 when its handler is due, Off when it is stopped.         *)
(***************************************************************************)
EXTENDS Integers

CONSTANTS Threshold,  \* 3000 ms: a longer time on makes the power-on a normal one
          StoreDelay, \* 2000 ms, app_mesh_store_info_timer_start
          ProvTime,   \* 30000 ms, sig_mesh_prov_timer
          Quick,      \* RHRESHOLD, the short power-ons that reset the node
          CntMod      \* the values of poweron_count, a uint8_t

ASSUME NodeAssumption ==
    /\ {Threshold, StoreDelay, ProvTime, Quick} \subseteq Nat \ {0}
    /\ CntMod \in Nat
    /\ Quick < CntMod

VARIABLES info,      \* flash: what the stack has stored at MESH_INFO_STORE_ADDR
          stored,    \* flash: the value of POWERON_COUNT_KEY
          net,       \* the network information in the stack
          dirty,     \* the stack has yet to report a change of it
          phase,     \* the stack: "init", "ready" or "started"
          inNetwork, \* mesh_in_network
          config,    \* config_net_sta
          count,     \* poweron_count
          step,      \* step of ConfigNet_Bulb_Timeout_Handler
          time,      \* time_record, no further than just above Threshold
          led,       \* config_net_led_timer
          store,     \* mesh_store_info_timer
          prov,      \* sig_mesh_prov_timer
          cause,     \* history: what began this boot
          refused,   \* history: the store refused this boot's last write of the counter
          brief,     \* history: boots in a row no longer than Threshold, up to Quick
          residue    \* history: what a refusal left in the counter before them

counter == <<count, step, time, led, stored, refused>>
history == <<cause, brief, residue>>
vars    == <<info, net, dirty, phase, inNetwork, config, store, prov, counter, history>>

Off == -1
Nets == {"none", "prov", "bound"}

AtMost(n, limit) == IF n > limit THEN limit ELSE n

-----------------------------------------------------------------------------
\* Power-on, or platform_reset_patch, with i stored in the flash: all RAM starts
\* anew, app_mesh_led_init reads the counter and may erase the information, and
\* mesh_init loads what is left.
Restart(why, i) ==
    /\ cause' = why
    /\ info' = IF stored >= Quick THEN "none" ELSE i
    /\ net' = info' /\ dirty' = FALSE
    /\ phase' = "init" /\ inNetwork' = FALSE /\ config' = 1
    /\ count' = stored /\ step' = 0 /\ time' = 0 /\ led' = 1 /\ stored' = stored
    /\ store' = Off /\ prov' = Off
    /\ refused' = FALSE
    /\ IF time > Threshold THEN brief' = 0 /\ residue' = IF refused THEN stored ELSE 0
                           ELSE brief' = AtMost(brief + 1, Quick) /\ residue' = residue

PowerCycle == Restart("power", info)

\* MESH_EVT_FATAL_ERROR
FatalError == Restart("fatal", info)

\* MESH_EVT_RESET: mesh_info_clear, then the reset.
Removed == phase = "started" /\ net # "none" /\ Restart("removed", "none")

\* USER_EVT_BUTTON with a long press: flash_erase, then the reset.
LongPress == Restart("pressed", "none")

\* sig_mesh_prov_timer_handler: mesh_info_clear, then the reset.
ProvTimeout == prov = 0 /\ Restart("expired", "none")

Reboot == PowerCycle \/ FatalError \/ Removed \/ LongPress \/ ProvTimeout

-----------------------------------------------------------------------------
\* MESH_EVT_READY: mesh_start.
Ready ==
    /\ phase = "init"
    /\ phase' = "ready"
    /\ UNCHANGED <<info, net, dirty, inNetwork, config, store, prov, counter, history>>

\* MESH_EVT_IN_NETWORK, for a stored network before the stack has started.
InNetwork ==
    /\ phase # "init" /\ net # "none" /\ ~inNetwork
    /\ inNetwork' = TRUE
    /\ UNCHANGED <<info, net, dirty, phase, config, store, prov, counter, history>>

\* MESH_EVT_STARTED
Started ==
    /\ phase = "ready"
    /\ net # "none" => inNetwork
    /\ phase' = "started"
    /\ config' = IF inNetwork THEN config ELSE 0
    /\ UNCHANGED <<info, net, dirty, inNetwork, store, prov, counter, history>>

\* MESH_EVT_PROV_RESULT with success.
ProvResult ==
    /\ phase = "started" /\ net = "none"
    /\ net' = "prov" /\ dirty' = TRUE
    /\ prov' = ProvTime
    /\ UNCHANGED <<info, phase, inNetwork, config, store, counter, history>>

\* Mutant: only a binding is stored.
UpdateIndBindingOnly(type) ==
    /\ phase = "started" /\ net # "none"
    /\ dirty' = FALSE
    /\ net' = IF type = "BINDING" THEN "bound" ELSE net
    /\ prov' = IF type \in {"SUBS_LIST", "BINDING"} THEN Off ELSE prov
    /\ config' = IF type = "BINDING" THEN 1 ELSE config
    /\ store' = IF type = "BINDING" THEN StoreDelay ELSE store
    /\ UNCHANGED <<info, phase, inNetwork, counter, history>>

\* Mutant: a binding does not end the waiting for a network.
UpdateIndKeepsConfig(type) ==
    /\ phase = "started" /\ net # "none"
    /\ dirty' = FALSE
    /\ net' = IF type = "BINDING" THEN "bound" ELSE net
    /\ prov' = IF type \in {"SUBS_LIST", "BINDING"} THEN Off ELSE prov
    /\ store' = StoreDelay
    /\ UNCHANGED <<info, phase, inNetwork, config, counter, history>>

\* MESH_EVT_UPDATE_IND: a key or another state, a subscription, or a binding.
UpdateInd(type) ==
    /\ phase = "started" /\ net # "none"
    /\ dirty' = FALSE
    /\ net' = IF type = "BINDING" THEN "bound" ELSE net
    /\ prov' = IF type \in {"SUBS_LIST", "BINDING"} THEN Off ELSE prov
    /\ config' = IF type = "BINDING" THEN 1 ELSE config
    /\ store' = StoreDelay
    /\ UNCHANGED <<info, phase, inNetwork, counter, history>>

Update == \E type \in {"OTHER", "SUBS_LIST", "BINDING"} : UpdateInd(type)

\* Mutant of StoreTimeout: nothing is stored before the node is bound.
StoreTimeoutBound ==
    /\ store = 0
    /\ info' = IF net = "bound" THEN net ELSE info
    /\ store' = Off
    /\ UNCHANGED <<net, dirty, phase, inNetwork, config, prov, counter, history>>

\* app_mesh_store_info_timer_handler: mesh_info_store_into_flash.
StoreTimeout ==
    /\ store = 0
    /\ info' = net
    /\ store' = Off
    /\ UNCHANGED <<net, dirty, phase, inNetwork, config, prov, counter, history>>

-----------------------------------------------------------------------------
\* aos_kv_set, whose result nobody reads.
KvSet(value) == \/ stored' = value /\ refused' = FALSE
                \/ stored' = stored /\ refused' = TRUE

\* ConfigNet_Bulb_Timeout_Handler counts the power-on, and forgets it after
\* Threshold; then it ends, once the node is not waiting for a network.
CountBoot(t) == step = 0 /\ t = 1
ForgetBoot(t) == ~CountBoot(t) /\ count # 0 /\ t > Threshold

\* Mutants: the counter does not wrap; its reset stays in RAM; the LED timer ends
\* although the node waits for a network, or before the counter is reset.
CountNoWrap ==
    /\ step' = 1
    /\ count' = count + 1
    /\ KvSet(count')

ForgetInRam ==
    /\ step' = 2
    /\ count' = 0
    /\ UNCHANGED <<stored, refused>>

LedEndsAnyhow(status, last) == last = 2
LedEndsEarly(status, last) == status = 1 /\ last = 1

Count ==
    /\ step' = 1
    /\ count' = (count + 1) % CntMod
    /\ KvSet(count')

Forget ==
    /\ step' = 2
    /\ count' = 0
    /\ KvSet(0)

LedEnds(status, last) == status = 1 /\ last = 2

LedTimeout ==
    /\ led = 0
    /\ LET t == AtMost(time + 1, Threshold + 1)
       IN  /\ time' = t
           /\ \/ CountBoot(t) /\ Count
              \/ ForgetBoot(t) /\ Forget
              \/ ~CountBoot(t) /\ ~ForgetBoot(t) /\ UNCHANGED <<step, count, stored, refused>>
    /\ led' = IF LedEnds(config, step') THEN Off ELSE 1
    /\ UNCHANGED <<info, net, dirty, phase, inNetwork, config, store, prov, history>>

Due  == 0 \in {led, store, prov}
Down(timer) == IF timer > 0 THEN timer - 1 ELSE timer

\* A period passes.  The main loop serves every timer in time, and the stack
\* starts before Threshold (assumed of the stack).
Tick ==
    /\ ~Due
    /\ phase # "started" => time < Threshold
    /\ led' = Down(led) /\ store' = Down(store) /\ prov' = Down(prov)
    /\ UNCHANGED <<info, net, dirty, phase, inNetwork, config, count, step, time, stored, refused, history>>

-----------------------------------------------------------------------------
Init ==
    /\ info = "none" /\ stored = 0
    /\ net = "none" /\ dirty = FALSE /\ phase = "init" /\ inNetwork = FALSE /\ config = 1
    /\ count = 0 /\ step = 0 /\ time = 0 /\ led = 1
    /\ store = Off /\ prov = Off
    /\ cause = "power" /\ refused = FALSE /\ brief = 0 /\ residue = 0

Next == \/ Reboot
        \/ Ready \/ InNetwork \/ Started \/ ProvResult \/ Update
        \/ StoreTimeout \/ LedTimeout \/ Tick

Spec == Init /\ [][Next]_vars

\* The stack starts and reports what has changed, time passes and the timers are
\* served.  Nobody has to provision the node, press the button or cut the power.
FairSpec ==
    /\ Spec
    /\ WF_vars(Ready) /\ WF_vars(InNetwork) /\ WF_vars(Started)
    /\ WF_vars(dirty /\ Update)
    /\ WF_vars(ProvTimeout) /\ WF_vars(StoreTimeout) /\ WF_vars(LedTimeout) /\ WF_vars(Tick)
=============================================================================
