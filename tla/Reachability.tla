----------------------------- MODULE Reachability -----------------------------
(***************************************************************************)
(* What the policies of a cluster let through, stated port by port and     *)
(* address by address: the reference the evaluator is held against.  A     *)
(* cluster leaves some things open; a world settles them.                  *)
(*   named     the ports a name stands for where the pod has it twice, or  *)
(*             outside the cluster                                         *)
(*   enrolled  the pods in the mesh                                        *)
(*   effect    whether policies and rules that cannot be evaluated allow   *)
(*             all they could, or deny all they could                      *)
(***************************************************************************)
EXTENDS PolicySelection

AllTraffic == Protocols \X Ports

Enrolments == {e \in SUBSET Pods : \A p \in Pods : /\ Mesh[p] = "enrolled" => p \in e
                                                   /\ Mesh[p] = "outside" => p \notin e}

(* The numbers a name is open between, at a destination.                   *)
OpenNumbers(destination) ==
    IF destination = NoPod THEN Ports
    ELSE UNION {NumbersOf(destination, np[1], np[2]) :
                   np \in {pair \in Names \X Protocols :
                       Cardinality(NumbersOf(destination, pair[1], pair[2])) > 1}}

Worlds(destination) ==
    [named : SUBSET OpenNumbers(destination), enrolled : Enrolments, effect : {"allow", "deny"}]

-----------------------------------------------------------------------------
PortTraffic(w, port, destination) ==
    LET numbers == NumbersOf(destination, port.name, port.protocol)
        meant == IF port.name = NoName THEN port.lo..port.hi
                 ELSE IF destination = NoPod THEN w.named
                 ELSE IF Cardinality(numbers) > 1 THEN numbers \intersect w.named
                 ELSE numbers
    IN  {<<port.protocol, n>> : n \in meant}

RuleTraffic(w, rule, destination) ==
    IF rule.noPorts THEN {}
    ELSE IF rule.ports # {} THEN UNION {PortTraffic(w, port, destination) : port \in rule.ports}
    ELSE IF rule.tcpOnly THEN {TCP} \X Ports ELSE AllTraffic

(* The other side is a pod or an address.                                  *)
PeerMeets(w, rule, peer, other) ==
    IF other.kind = "pod"
    THEN /\ other.pod \in peer.pods
         /\ peer.blocks # {} =>
              peer.podIPs /\ \E a \in AddressesOf[other.pod], b \in peer.blocks : InBlock(b, a)
         /\ \/ peer.identity = "none"
            \/ (other.pod \in w.enrolled /\ other.pod \in peer.identities) <=> (peer.identity = "positive")
    ELSE IF peer.blocks # {}
    THEN /\ \E b \in peer.blocks : InBlock(b, other.address)
         /\ peer.unproven => rule.action = w.effect
    ELSE ~peer.selects /\ peer.identity # "positive"

Meets(w, rule, other) ==
    ~rule.matchNone /\ (rule.peers = {} \/ \E peer \in rule.peers : PeerMeets(w, rule, peer, other))

-----------------------------------------------------------------------------
(* One layer of a pod's side.  Denials win over grants.                    *)
LayerTraffic(w, x, layer, direction, pod, destination, other) ==
    LET reach == InReach(x, pod, direction, layer)
        selecting == {n \in reach : pod \in x.policies[n].selects}
        enforced == {n \in selecting : x.policies[n].state = "enforced"}
        vague == {n \in selecting : x.policies[n].state = "effectUnknown"}
                 \union {n \in reach : x.policies[n].state = "selectionUnknown"}
        rules == UNION {{x.policies[n].rules[direction][i] :
                            i \in DOMAIN x.policies[n].rules[direction]} : n \in enforced}
        plain(action) == UNION {RuleTraffic(w, r, destination) :
            r \in {s \in rules : s.action = action /\ ~s.uncertain /\ ~s.disabled /\ Meets(w, s, other)}}
        doubtful(action) ==
            IF \E r \in rules : /\ r.action = action /\ r.uncertain
                                /\ r.uncertainPeers \/ Meets(w, r, other)
            THEN AllTraffic ELSE {}
        isolated == \E n \in enforced : direction \in x.policies[n].isolates
        hostRules ==
            /\ layer = "network"
            /\ \/ pod \in HostNetwork /\ (CiliumSelects(x, pod, direction) \/ CiliumHostPolicies(x))
               \/ other.kind = "pod" /\ other.pod \in HostNetwork /\ CiliumSelects(x, pod, direction)
    IN  IF layer = "authorization" /\ pod \notin w.enrolled THEN AllTraffic
        ELSE IF w.effect = "allow"
        THEN IF hostRules THEN AllTraffic
             ELSE (IF isolated /\ vague = {} THEN plain("allow") \union doubtful("allow") ELSE AllTraffic)
                  \ plain("deny")
        ELSE IF hostRules \/ vague # {} THEN {}
        ELSE (IF isolated THEN plain("allow") ELSE AllTraffic)
             \ (plain("deny") \union doubtful("deny"))

SideTraffic(w, x, direction, pod, destination, other) ==
    LET network == LayerTraffic(w, x, "network", direction, pod, destination, other)
    IN  IF direction = "egress" THEN network
        ELSE {t \in network :
                 t[1] = TCP => t \in LayerTraffic(w, x, "authorization", direction, pod, destination, other)}

PairTraffic(w, x, source, destination) ==
    SideTraffic(w, x, "egress", source, destination, [kind |-> "pod", pod |-> destination])
    \intersect SideTraffic(w, x, "ingress", destination, destination, [kind |-> "pod", pod |-> source])

AddressTraffic(w, x, direction, pod, address) ==
    SideTraffic(w, x, direction, pod, IF direction = "egress" THEN NoPod ELSE pod,
                [kind |-> "address", address |-> address])
=============================================================================
