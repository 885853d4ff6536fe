----------------------------- MODULE DurableMap -----------------------------
(***************************************************************************)
(* What the key-value store promises its callers: a map that survives the  *)
(* loss of power, changed only by the request being served.                *)
(*                                                                         *)
(* A request takes effect at some moment between its call and its          *)
(* acknowledgement, or never if the power fails first; it is acknowledged  *)
(* only with its effect in place, and refused only without one.  A loss of *)
(* power forgets the request and changes nothing else.                     *)
(***************************************************************************)
CONSTANTS Keys, Vals, NoVal, NoReq, Request

VARIABLES
    dict,       \* the map, as a reader would find it after a reboot
    req,        \* the request being served
    phase,      \* "idle"; "called"; "committed", no longer refusable; "ok" or
                \* "refused", about to return; "down", without power
    out         \* what an acknowledged get returns

vars == <<dict, req, phase, out>>

Init ==
    /\ dict = [k \in Keys |-> NoVal]
    /\ req = NoReq /\ phase = "down" /\ out = NoVal

\* The keys a request removes; a prefix or a factory reset removes many.
Removed(r) == CASE r.op = "del" -> {r.key}
                [] r.op = "del_matching" -> r.keys
                [] r.op = "factory" -> Keys
                [] OTHER -> {}

\* The effect, or a part of it: a removal of many keys is not atomic.
Effect(r, d) ==
    \/ r.op = "set" /\ d = [dict EXCEPT ![r.key] = r.val]
    \/ \E K \in SUBSET Removed(r) : d = [k \in Keys |-> IF k \in K THEN NoVal ELSE dict[k]]

\* The effect is in place.
InPlace(r, d) == /\ r.op = "set" => d[r.key] = r.val
                 /\ \A k \in Removed(r) : d[k] = NoVal

\* The removal of many keys is never refused.
Call == /\ phase = "idle"
        /\ req' \in Request
        /\ phase' = IF req'.op \in {"del_matching", "factory"} THEN "committed"
                                                            ELSE "called"
        /\ UNCHANGED <<dict, out>>

TakeEffect == /\ phase \in {"called", "committed"} /\ phase' = "committed"
              /\ Effect(req, dict')
              /\ UNCHANGED <<req, out>>

Acknowledge == /\ phase \in {"called", "committed"} /\ phase' = "ok"
               /\ Effect(req, dict') \/ UNCHANGED dict
               /\ InPlace(req, dict')
               /\ out' = IF req.op = "get" THEN dict[req.key] ELSE NoVal
               /\ UNCHANGED req

\* Of a get or del only when the key is absent; of a set for want of space.
Refuse == /\ phase = "called" /\ phase' = "refused"
          /\ \/ req.op = "set"
             \/ req.op \in {"get", "del"} /\ dict[req.key] = NoVal
          /\ UNCHANGED <<dict, req, out>>

Return == /\ phase \in {"ok", "refused"} /\ phase' = "idle"
          /\ req' = NoReq /\ out' = NoVal
          /\ UNCHANGED dict

\* A factory reset restarts the store before it returns.
Restarted == /\ phase \in {"called", "committed"} /\ phase' = "idle"
             /\ req.op = "factory" /\ InPlace(req, dict)
             /\ req' = NoReq
             /\ UNCHANGED <<dict, out>>

LosePower == /\ phase # "down" /\ phase' = "down"
             /\ req' = NoReq /\ out' = NoVal
             /\ UNCHANGED dict

Recover == /\ phase = "down" /\ phase' = "idle"
           /\ UNCHANGED <<dict, req, out>>

Next == \/ Call \/ TakeEffect \/ Acknowledge \/ Refuse \/ Return
        \/ Restarted \/ LosePower \/ Recover

Spec == Init /\ [][Next]_vars

(***************************************************************************)
(* The same map, if a restart may lose keys.  It never brings an earlier   *)
(* value back, and changes nothing once it serves requests again.          *)
(***************************************************************************)
Lose == /\ phase = "down"
        /\ \E K \in SUBSET Keys : dict' = [k \in Keys |-> IF k \in K THEN NoVal ELSE dict[k]]
        /\ UNCHANGED <<req, phase, out>>

LossySpec == Init /\ [][Next \/ Lose]_vars
=============================================================================
