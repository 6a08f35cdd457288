--------------------------- MODULE PolicySelection ---------------------------
(***************************************************************************)
(* internal/netpol/selection.go: which policies apply to a pod, how sure   *)
(* that is, and which of their rules match the other side, a pod or a      *)
(* block of addresses.  A policy is its normalized form.  A selector is    *)
(* the set of the pods it matches.                                         *)
(***************************************************************************)
EXTENDS PortPermissions, Prefixes, Sequences

CONSTANTS
    Pods, Namespaces,
    NamespaceOf,        \* the namespace of a pod
    AddressesOf,        \* the addresses of a pod
    HostNetwork,        \* the pods in the network of their node
    Mesh,               \* "enrolled", "outside" or "unknown", for each pod
    ClusterWide         \* the scope of a policy that no namespace bounds

Directions == {"ingress", "egress"}
Layers == {"network", "authorization"}
States == {"enforced", "effectUnknown", "selectionUnknown", "inert"}
Identities == {"none", "positive", "negative"}

ASSUME SelectionAssumption ==
    /\ IsFiniteSet(Pods) /\ IsFiniteSet(Namespaces)
    /\ NoPod \notin Pods
    /\ ClusterWide \notin Namespaces
    /\ \A pod \in Pods, name \in Names, protocol \in Protocols : NumbersOf(pod, name, protocol) \subseteq Ports
    /\ NamespaceOf \in [Pods -> Namespaces]
    /\ AddressesOf \in [Pods -> SUBSET Address]
    /\ HostNetwork \subseteq Pods
    /\ Mesh \in [Pods -> {"enrolled", "outside", "unknown"}]

PortSpec ==
    {port \in [protocol : Protocols, lo : Ports, hi : Ports, name : Names \union {NoName}] :
        port.lo <= port.hi}

Peer ==
    {peer \in
        [pods : SUBSET Pods,            \* the pods its selectors match
         selects : BOOLEAN,             \* whether it has a selector
         blocks : SUBSET Block,
         podIPs : BOOLEAN,              \* whether the blocks match pods
         identity : Identities,         \* its constraint on the mesh identity
         identities : SUBSET Pods,      \* the pods whose identity it names
         unproven : BOOLEAN] :          \* identity and blocks: not for addresses
        peer.unproven => peer.blocks # {} /\ peer.identity # "none"}

Rule ==
    [action : {"allow", "deny"}, peers : SUBSET Peer, ports : SUBSET PortSpec,
     noPorts : BOOLEAN, tcpOnly : BOOLEAN, matchNone : BOOLEAN, disabled : BOOLEAN,
     uncertain : BOOLEAN,           \* it carries warnings
     uncertainPeers : BOOLEAN]

Policy ==
    [layer : Layers, scope : Namespaces \union {ClusterWide}, state : States,
     selects : SUBSET Pods, allDirections : BOOLEAN, cilium : BOOLEAN,
     hostPolicy : BOOLEAN, isolates : SUBSET Directions,
     rules : [Directions -> Seq(Rule)]]

Affects(policy, direction) ==
    /\ policy.layer = "network" \/ direction = "ingress"
    /\ \/ policy.state = "selectionUnknown" /\ policy.allDirections
       \/ direction \in policy.isolates
       \/ policy.rules[direction] # <<>>

-----------------------------------------------------------------------------
(* x is the index of a snapshot: x.policies maps names to policies.        *)

(* The policies of the pod's namespace or of the whole cluster, in a layer *)
(* and a direction.                                                        *)
InReach(x, pod, direction, layer) ==
    {n \in DOMAIN x.policies :
        /\ x.policies[n].scope \in {NamespaceOf[pod], ClusterWide}
        /\ x.policies[n].layer = layer
        /\ Affects(x.policies[n], direction)}

Selecting(x, pod, direction, layer) ==
    {n \in InReach(x, pod, direction, layer) :
        /\ x.policies[n].state \in {"enforced", "effectUnknown"}
        /\ pod \in x.policies[n].selects}

CiliumSelects(x, pod, direction) ==
    \E n \in Selecting(x, pod, direction, "network") : x.policies[n].cilium

CiliumHostPolicies(x) ==
    \E n \in DOMAIN x.policies : x.policies[n].state = "inert" /\ x.policies[n].hostPolicy

(* AuthorizationPolicy does not apply outside the mesh; Cilium does not    *)
(* treat a pod in the network of its node by its labels.                   *)
Selection(x, pod, direction, layer) ==
    LET vague == {n \in InReach(x, pod, direction, layer) : x.policies[n].state = "selectionUnknown"}
        selecting == Selecting(x, pod, direction, layer)
        unknown == {n \in selecting : x.policies[n].state = "effectUnknown"}
        applies == layer = "network" \/ Mesh[pod] # "outside"
        meshUnknown == layer = "authorization" /\ Mesh[pod] = "unknown" /\ selecting \union vague # {}
        hostNetwork == /\ layer = "network" /\ pod \in HostNetwork
                       /\ CiliumSelects(x, pod, direction) \/ CiliumHostPolicies(x)
    IN  [policies |-> IF applies THEN selecting \ unknown ELSE {},
         effectUnknown |-> IF applies THEN unknown ELSE {},
         isolated |-> applies /\ \E n \in selecting \ unknown : direction \in x.policies[n].isolates,
         uncertain |-> (applies /\ vague \union unknown # {}) \/ meshUnknown \/ hostNetwork]

-----------------------------------------------------------------------------
(* A pod outside the mesh has no identity.                                 *)
IdentityMatch(peer, pod) ==
    IF peer.identity = "none" THEN "yes"
    ELSE IF Mesh[pod] = "unknown" THEN "unknown"
    ELSE IF (Mesh[pod] = "enrolled" /\ pod \in peer.identities) <=> (peer.identity = "positive")
    THEN "yes" ELSE "no"

PeerMatchesPod(peer, pod) ==
    IF /\ pod \in peer.pods
       /\ peer.blocks # {} =>
            peer.podIPs /\ \E a \in AddressesOf[pod], b \in peer.blocks : InBlock(b, a)
    THEN IdentityMatch(peer, pod) ELSE "no"

(* Addresses have neither labels nor an identity.                          *)
PeerMatchesAddresses(peer) == ~peer.selects /\ peer.identity # "positive"

PeerBlocksIntersect(peer, ref) == \E b \in peer.blocks : IpBlockIntersects(b, ref)

PeerMatchesCIDR(peer, ref) ==
    /\ ~peer.unproven
    /\ IF peer.blocks # {} THEN \E b \in peer.blocks : IpBlockContains(b, ref)
       ELSE PeerMatchesAddresses(peer)

-----------------------------------------------------------------------------
(* A matcher m is made for the peer of one side.  One for a block may be   *)
(* told to match denials that hold for a part of the block only.           *)
PodMatcher(pod) == [kind |-> "pod", pod |-> pod]
CIDRMatcher(ref, partialDeny) == [kind |-> "cidr", ref |-> ref, partialDeny |-> partialDeny]

Enabled(rule) == ~rule.disabled /\ ~rule.matchNone

MatchesWhole(m, rule) ==
    /\ Enabled(rule)
    /\ \/ rule.peers = {}
       \/ m.kind = "pod" /\ \E peer \in rule.peers : PeerMatchesPod(peer, m.pod) = "yes"
       \/ m.kind = "cidr" /\ \E peer \in rule.peers : PeerMatchesCIDR(peer, m.ref)

(* Plausible mistake: a denial counts for the whole block or not at all.   *)
DeniesPartNever(m, rule) == FALSE

DeniesPart(m, rule) ==
    /\ m.kind = "cidr"
    /\ m.partialDeny
    /\ rule.action = "deny"
    /\ Enabled(rule) /\ ~MatchesWhole(m, rule)
    /\ \E peer \in rule.peers : ~peer.unproven /\ PeerBlocksIntersect(peer, m.ref)

Matched(m, rule) == MatchesWhole(m, rule) \/ DeniesPart(m, rule)

MatchUncertain(m, rule) ==
    /\ Enabled(rule)
    /\ \/ /\ m.kind = "pod"
          /\ ~MatchesWhole(m, rule)
          /\ \E peer \in rule.peers : PeerMatchesPod(peer, m.pod) = "unknown"
       \/ /\ m.kind = "cidr"
          /\ \E peer \in rule.peers : peer.unproven /\ PeerBlocksIntersect(peer, m.ref)

(* Plausible mistake: what the rule does match bounds what it could.       *)
CouldMatchListed(m, rule) == MatchesWhole(m, rule)

CouldMatch(m, rule) ==
    \/ rule.uncertainPeers
    \/ /\ ~rule.matchNone
       /\ \/ rule.peers = {}
          \/ m.kind = "pod" /\ \E peer \in rule.peers : PeerMatchesPod(peer, m.pod) # "no"
          \/ m.kind = "cidr" /\ \E peer \in rule.peers :
                IF peer.blocks # {} THEN PeerBlocksIntersect(peer, m.ref)
                ELSE PeerMatchesAddresses(peer)

PeerUncertainty(x, m, pod, direction, layer) ==
    /\ layer = "network"
    /\ m.kind = "pod" /\ m.pod \in HostNetwork
    /\ CiliumSelects(x, pod, direction)
=============================================================================
