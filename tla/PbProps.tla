------------------------------ MODULE PbProps ------------------------------
(***************************************************************************)
(* What the mesh stack may rely on from the bearer of PbRemote.            *)
(***************************************************************************)
EXTENDS PbRemote

TypeOK ==
    /\ evts \in Seq(Events) /\ link \in [Links -> LinkStates]
    /\ leaving \subseteq Links /\ discovering \subseteq Links
    /\ client_idx \in Links \cup {NoLink} /\ try_times \in 0 .. TryMax + 1
    /\ timer \in BOOLEAN /\ trying \in BOOLEAN
    /\ bearer \in {"none", "opening", "open"} /\ report \in Reports
    /\ crossed \in BOOLEAN

Made(i) == evts[i].type = "MASTER_CONNECT"
Registered(i) == evts[i].type = "PEER_SVC_REGISTERED"
Lost(i, l) == evts[i].type = "DISCONNECT" /\ evts[i].conidx = l
LossUnderWay(l) == \E i \in DOMAIN evts : Lost(i, l)

(***************************************************************************)
(* gap_disconnect_req is only ever asked to end a connection to a device:  *)
(* never a link that somebody else has made to the node, unless that link  *)
(* took the index of a connection whose loss is still to be reported.      *)
(***************************************************************************)
OwnOrLost(l) == link[l] = "device" \/ LossUnderWay(l)
OnlyOwn == [][\A l \in leaving' \ leaving : OwnOrLost(l)]_vars

(***************************************************************************)
(* Unless a connection has crossed its time-out: the timer watches exactly *)
(* the attempts, there is one connection at most, and it is the bearer's   *)
(* as soon as it is reported.                                              *)
(***************************************************************************)
Watched ==
    ~crossed =>
        /\ timer <=> trying \/ \E i \in DOMAIN evts : Made(i)
        /\ \A l \in Links : link[l] = "device" =>
               client_idx = l \/ \E i \in DOMAIN evts : Made(i) /\ evts[i].conidx = l

(***************************************************************************)
(* The inductive invariant.  A connection that is known or reported has    *)
(* its device, or its loss is reported after it.                           *)
(***************************************************************************)
Own ==
    /\ client_idx # NoLink => OwnOrLost(client_idx)
    /\ \A i \in DOMAIN evts, l \in Links : Made(i) /\ evts[i].conidx = l =>
           link[l] = "device" \/ \E j \in DOMAIN evts : j > i /\ Lost(j, l)

\* No bearer, an attempt, or a connection that is known.
Idle == client_idx = NoLink /\ ~timer => bearer = "none" /\ discovering = {}
Attempt ==
    timer => /\ client_idx = NoLink /\ bearer = "opening" /\ discovering = {}
             /\ \A i, j \in DOMAIN evts : Made(i) => ~trying /\ (Made(j) => i = j)
Client == client_idx # NoLink => bearer # "none" /\ ~timer

\* A bearer is being opened while services are looked for, and until the result
\* is delivered, which is before the loss of the connection.
Search ==
    /\ \A l \in discovering : /\ l = client_idx /\ link[l] = "device" /\ bearer = "opening"
                              /\ \A i \in DOMAIN evts : ~Registered(i)
    /\ \A i \in DOMAIN evts : Registered(i) =>
           /\ client_idx # NoLink /\ bearer = "opening" /\ discovering = {}
           /\ \A j \in DOMAIN evts : /\ Registered(j) => i = j
                                     /\ Lost(j, client_idx) => i < j

\* The first loss that is reported of a connection after it is its own.
Loss ==
    \A j \in DOMAIN evts, l \in Links : Lost(j, l) =>
        /\ client_idx = l => link[l] # "device"
        /\ \A i \in DOMAIN evts : Made(i) /\ evts[i].conidx = l /\ i < j => link[l] # "device"
        /\ evts[j].failed =>
              /\ bearer = "opening" /\ discovering = {} /\ \A i \in DOMAIN evts : ~Registered(i)
              /\ \/ client_idx = l /\ \A i \in DOMAIN evts : Lost(i, l) => j <= i
                 \/ \E k \in DOMAIN evts :
                       /\ Made(k) /\ evts[k].conidx = l /\ k < j
                       /\ \A i \in DOMAIN evts : Lost(i, l) /\ k < i => j <= i

Course == Idle /\ Attempt /\ Client /\ Search /\ Loss
IInv == TypeOK /\ Own /\ Watched /\ (~crossed => Course)

(***************************************************************************)
(* Unless a connection has crossed its time-out, every report answers what *)
(* the stack asked: a bearer is opened or given up only while one is being *)
(* opened, and closed only while there is one.                             *)
(***************************************************************************)
Fits == /\ report' \in {"opened", "failed"} => bearer = "opening"
        /\ report' = "closed" => bearer # "none"
ReportsFit == [][~crossed' => Fits]_vars

(***************************************************************************)
(* A bearer that is being opened is answered for: time-outs and failures,  *)
(* and the retries that follow them, come to an end.                       *)
(***************************************************************************)
Answered == bearer = "opening" ~> bearer # "opening"
=============================================================================
