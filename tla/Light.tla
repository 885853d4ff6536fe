------------------------------- MODULE Light -------------------------------
(***************************************************************************)
(* The lamp of the node: the model messages that set it                    *)
(* (mesh_model_msg.c), the duties they are turned into and the patterns    *)
(* that show how far the commissioning is (userapp/src/led_fun.c), on the  *)
(* three PWM channels (driver_pwm.c).  Every step is one of Node's, with   *)
(* what it does to the lamp, or a message.                                 *)
(*                                                                         *)
(* Fractions are computed exactly and then cut, which is what the floating *)
(* point of the code does but for its rounding.  The replies repeat the    *)
(* fields that were set; hue, saturation and the UV offset are only kept   *)
(* for them and are left out.                                              *)
(***************************************************************************)
EXTENDS Node

CONSTANTS Lightnesses,  \* levels that are asked for, 0 .. 65535
          Temps,        \* temperatures that are asked for
          Colours,      \* [h, s, l] that are asked for, in fifteenths of 65535
          Pulse,        \* 9, the step of the breathing
          Restarts      \* bound: the causes of a restart; all do the same to the lamp

\* Below 35200 no duty is larger than what a byte holds; above, the conversion
\* of the floating point number is undefined.
ASSUME LightAssumption ==
    /\ \A level \in Lightnesses : level \in Nat /\ level <= 65535
    /\ \A temp \in Temps : temp \in Nat /\ temp < 35200
    /\ Colours \subseteq [h : 0 .. 15, s : 0 .. 15, l : 0 .. 15]
    /\ Pulse \in 1 .. 99

VARIABLES on_off_state,
          lightness,
          ctl_temperature,
          led_ctr,      \* Led_Ctr: the duties computed last
          pwm,          \* the duties of the channels
          duty, reduce, \* duty and reduce_flag of the breathing
          by            \* history: the message that counts: the last one since the node
                        \* was bound or started, "none" before the first

light == <<on_off_state, lightness, ctl_temperature, led_ctr, pwm, duty, reduce, by>>
lvars == <<vars, light>>

Channels == {"r", "g", "b"}
All(d) == [c \in Channels |-> d]

\* mesh_temperature_range_get: 0x320 .. 0x4e20
Advertised(temp) == 800 <= temp /\ temp <= 20000

-----------------------------------------------------------------------------
\* pwm_update, for the three channels: a duty of 100 or more is ignored.
PwmUpdate(d) == pwm' = [c \in Channels |-> IF d[c] < 100 THEN d[c] ELSE pwm[c]]

\* update_led_pwm: 255 becomes 99.
Rated(rgb) == [c \in Channels |-> (rgb[c] * 39) \div 100]

\* Mutant: blue comes in at a lower temperature.
WarmBlue(temp) ==
    LET t == temp \div 100
    IN  [r |-> 99, g |-> (3000 + 26 * (t - 8)) \div 100,
         b |-> IF t > 100 THEN (103 * (t - 100)) \div 100 ELSE 0]

\* color_temperature_set: red is full, green rises with the temperature and
\* blue from the middle on;
Full(temp) ==
    LET t == temp \div 100
    IN  [r |-> 99, g |-> (3000 + 26 * (t - 8)) \div 100,
         b |-> IF t > 104 THEN (103 * (t - 104)) \div 100 ELSE 0]

\* ... then all are dimmed by the level, but green stays on.
Above(brightness) == IF brightness \div 100 <= 6 THEN 10 ELSE brightness \div 100 - 6
Dimmed(d, level) == (d * level) \div 649

Tinted(temp, brightness) ==
    LET dimmed(c) == Dimmed(Full(temp)[c], Above(brightness))
    IN  [c \in Channels |-> IF c = "g" /\ dimmed(c) = 0 THEN 1 ELSE dimmed(c)]

\* HSL2RGBvalue, for n1 and n2 in 225ths and a hue in steps of 24 degrees; the
\* result is in 1125ths.
HSL2RGBvalue(n1, n2, hue) ==
    LET k == IF hue > 15 THEN hue - 15 ELSE IF hue < 0 THEN hue + 15 ELSE hue
    IN  CASE 24 * k < 60 -> 5 * n1 + (n2 - n1) * 2 * k
          [] 24 * k \in 60 .. 179 -> 5 * n2
          [] 24 * k \in 180 .. 239 -> 5 * n1 + (n2 - n1) * 2 * (10 - k)
          [] OTHER -> 5 * n1

HSL2RGB(h, s, l) ==
    LET cmax == IF 2 * l <= 15 THEN l * (15 + s) ELSE l * (15 - s) + 15 * s
        cmin == 30 * l - cmax
        byte(hue) == (255 * HSL2RGBvalue(cmin, cmax, hue)) \div 1125
    IN  IF s = 0 THEN All((255 * l) \div 15)
        ELSE [r |-> byte(h + 5), g |-> byte(h), b |-> byte(h - 5)]

-----------------------------------------------------------------------------
\* Bubls_UnconfigNet_Indacate: down to 0 and up to 99 again.
Breathe ==
    LET up == duty + Pulse
    IN  /\ PwmUpdate(All(duty))
        /\ IF reduce
           THEN /\ duty' = (duty - Pulse) % 256
                /\ reduce' = (duty' # 0)
           ELSE /\ duty' = IF up > 99 THEN 99 ELSE up
                /\ reduce' = (up > 99)
        /\ UNCHANGED <<on_off_state, lightness, ctl_temperature, led_ctr, by>>

\* Bubls_ConfigNet_Ok_Indacate: full white.
ConfigOk ==
    /\ PwmUpdate(All(99))
    /\ by' = "none"
    /\ UNCHANGED <<on_off_state, lightness, ctl_temperature, led_ctr, duty, reduce>>

\* led_pwm_init and mesh_dev_led_ctrl_init, and the static variables.
LampStarts(state, level, temp, duties, channels, d, down, last) ==
    /\ state = 0 /\ level = 65535 /\ temp = 800
    /\ duties = All(0) /\ channels = All(0)
    /\ d = 99 /\ down = TRUE /\ last = "none"

-----------------------------------------------------------------------------
\* A message reaches a model when the stack runs and the model is bound.
Reached == phase = "started" /\ net = "bound"

\* MESH_GEN_ONOFF_SET: a faint white, or dark.
OnOffSet(onoff) ==
    /\ on_off_state' = onoff
    /\ led_ctr' = Rated(All(5 * onoff)) /\ PwmUpdate(led_ctr')
    /\ by' = "onoff"
    /\ UNCHANGED <<lightness, ctl_temperature, duty, reduce>>

\* MESH_LIGHTNESS_SET, at the temperature set last.
LightnessSet(level) ==
    /\ lightness' = level
    /\ led_ctr' = Tinted(ctl_temperature, level) /\ PwmUpdate(led_ctr')
    /\ by' = "tint"
    /\ UNCHANGED <<on_off_state, ctl_temperature, duty, reduce>>

\* MESH_TEMPERATURE_SET, at the lightness set last.
TemperatureSet(temp) ==
    /\ ctl_temperature' = temp
    /\ led_ctr' = Tinted(temp, lightness) /\ PwmUpdate(led_ctr')
    /\ by' = "tint"
    /\ UNCHANGED <<on_off_state, lightness, duty, reduce>>

\* MESH_HSL_SET
HslSet(c) ==
    /\ led_ctr' = Rated(HSL2RGB(c.h, c.s, c.l)) /\ PwmUpdate(led_ctr')
    /\ by' = "colour"
    /\ UNCHANGED <<on_off_state, lightness, ctl_temperature, duty, reduce>>

\* MESH_EVT_RECV_MSG
Message ==
    /\ Reached
    /\ \/ \E onoff \in {0, 1} : OnOffSet(onoff)
       \/ \E level \in Lightnesses : LightnessSet(level)
       \/ \E temp \in Temps : TemperatureSet(temp)
       \/ \E c \in Colours : HslSet(c)
    /\ UNCHANGED vars

-----------------------------------------------------------------------------
\* The steps of the node, with what they do to the lamp.
Reset ==
    /\ Reboot /\ cause' \in Restarts
    /\ LampStarts(on_off_state', lightness', ctl_temperature', led_ctr', pwm', duty', reduce', by')

Start == Started /\ IF inNetwork THEN UNCHANGED light ELSE Breathe

Join == InNetwork /\ ConfigOk

Bind == UpdateInd("BINDING") /\ ConfigOk

Learn == (UpdateInd("OTHER") \/ UpdateInd("SUBS_LIST")) /\ UNCHANGED light

LampTimeout == LedTimeout /\ IF config = 0 THEN Breathe ELSE UNCHANGED light

Dark(A) == A /\ UNCHANGED light

LightInit == Init /\ LampStarts(on_off_state, lightness, ctl_temperature, led_ctr, pwm,
                                duty, reduce, by)

LightNext ==
    \/ Reset \/ Start \/ Join \/ Bind \/ Learn \/ LampTimeout \/ Message
    \/ Dark(Ready) \/ Dark(ProvResult) \/ Dark(StoreTimeout) \/ Dark(Tick)

LightSpec == LightInit /\ [][LightNext]_lvars

\* As for the node: time goes on and its timers are served.
LampTimers == (Reset /\ prov = 0) \/ Dark(StoreTimeout) \/ LampTimeout \/ Dark(Tick)

FairLightSpec == LightSpec /\ WF_lvars(LampTimers)

-----------------------------------------------------------------------------
\* What the last message asked for stays on the lamp: neither the breathing
\* nor a refused duty of an earlier colour replaces it until the node is bound
\* again or restarts (proj_main.c:368, sig_mesh_led.c:618, driver_pwm.c).
Obeys ==
    by # "none" => \A c \in Channels : led_ctr[c] < 100 => pwm[c] = led_ctr[c]

\* What is asked for within the advertised range can be shown, and a lamp that
\* is dimmed is never dark: no order of temperatures and levels makes a duty
\* that the PWM refuses (led_fun.c:72-99).
Shows ==
    /\ by \in {"onoff", "colour"} => \A c \in Channels : led_ctr[c] < 100
    /\ by = "tint" /\ Advertised(ctl_temperature) =>
           (\A c \in Channels : led_ctr[c] < 100) /\ pwm["g"] > 0
    /\ by = "onoff" => (pwm = All(0) <=> on_off_state = 0)

\* A node that waits for its network breathes: the lamp goes dark and full
\* again and again until the node is bound or restarts (led_fun.c:101-122).
Breathes ==
    /\ config = 0 ~> pwm = All(0) \/ config = 1
    /\ config = 0 ~> pwm = All(99) \/ config = 1
=============================================================================
