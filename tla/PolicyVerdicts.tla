---------------------------- MODULE PolicyVerdicts ----------------------------
(***************************************************************************)
(* internal/netpol/evaluator.go: the verdict on the traffic between two    *)
(* pods, or a pod and a block of addresses.  Each side is the meet of two  *)
(* layers of policies, and a pair is the meet of its two sides.            *)
(***************************************************************************)
EXTENDS PolicySelection

Explicit(id) == id.index > 0
RuleId(n, direction, index) == [policy |-> n, direction |-> direction, index |-> index]
Synthetic(kind, direction) == RuleId(kind, direction, 0)
RuleAt(x, id) == x.policies[id.policy].rules[id.direction][id.index]
RulesOf(x, policies, direction) ==
    UNION {{RuleId(n, direction, i) : i \in DOMAIN x.policies[n].rules[direction]} : n \in policies}

DefaultDeny(layer) == IF layer = "network" THEN "default-deny" ELSE "authorization-default-deny"
DefaultDenies == {DefaultDeny(layer) : layer \in Layers}

Evidence(id, action, ports) == [id |-> id, action |-> action, ports |-> ports]
Unrestricted(direction) ==
    Evidence(Synthetic("unrestricted", direction), "allow", AllPermissions)

PermissionsForRule(rule, destination) ==
    IF rule.matchNone \/ rule.noPorts THEN {}
    ELSE IF rule.tcpOnly /\ rule.ports = {} THEN {Every(TCP, FALSE)}
    ELSE PermissionsForPorts(rule.ports, destination)

StateOf(permissions) ==
    IF permissions = {} THEN "Disallowed"
    ELSE IF KnownPermissions(permissions) THEN "Allowed" ELSE "Unknown"

-----------------------------------------------------------------------------
(* What the policies of one layer that select the pod leave to the peer of *)
(* the matcher m.                                                          *)
RemainingPermissions(isolated, found) ==
    LET granted(action) == UNION {e.ports : e \in {f \in found : f.action = action}}
        open == IF isolated THEN {} ELSE AllPermissions
    IN  SubtractPermissions(Canonical(open \union granted("allow")), Canonical(granted("deny")))

EvidenceOfLayer(layer, direction, isolated, found, left) ==
    found
    \union OnlyIf(~isolated /\ layer = "network", Unrestricted(direction))
    \union OnlyIf(left = {} /\ isolated /\ found = {},
                  Evidence(Synthetic(DefaultDeny(layer), direction), "allow", {}))

LayerDecision(layer, direction, isolated, uncertain, found) ==
    LET left == RemainingPermissions(isolated, found)
    IN  [state |-> StateOf(left),
         permissions |-> left,
         evidence |-> EvidenceOfLayer(layer, direction, isolated, found, left),
         uncertain |-> uncertain]

EvidenceFor(x, id, destination) ==
    Evidence(id, RuleAt(x, id).action, PermissionsForRule(RuleAt(x, id), destination))

EvaluatePolicyLayer(x, layer, direction, pod, destination, m) ==
    LET selection == Selection(x, pod, direction, layer)
        rules == RulesOf(x, selection.policies, direction)
        uncertain ==
            \/ selection.uncertain
            \/ PeerUncertainty(x, m, pod, direction, layer)
            \/ \E r \in rules : \/ RuleAt(x, r).uncertain /\ CouldMatch(m, RuleAt(x, r))
                                \/ MatchUncertain(m, RuleAt(x, r))
    IN  LayerDecision(layer, direction, selection.isolated, uncertain,
            {EvidenceFor(x, id, destination) : id \in {r \in rules : Matched(m, RuleAt(x, r))}})

(* Authorization is about TCP only.                                        *)
CombinedPermissions(network, authorization) ==
    LET tcp == {p \in network : p.protocol = TCP}
    IN  Canonical((network \ tcp) \union IntersectPermissions(tcp, authorization))

CombinedState(network, authorization, permissions) ==
    IF network.state = "Disallowed" THEN "Disallowed"
    ELSE IF KnownPermissions(permissions) THEN "Allowed"
    ELSE IF authorization.state = "Disallowed" \/ permissions = {} THEN "Disallowed"
    ELSE "Unknown"

CombinePolicyLayers(network, authorization) ==
    LET permissions == CombinedPermissions(network.permissions, authorization.permissions)
    IN  [state |-> CombinedState(network, authorization, permissions),
         permissions |-> permissions,
         evidence |-> network.evidence \union authorization.evidence,
         uncertain |-> network.uncertain \/ authorization.uncertain]

DecisionOf(direction, layers) ==
    IF direction = "egress" THEN layers["network"]
    ELSE CombinePolicyLayers(layers["network"], layers["authorization"])

EvaluateLayers(x, direction, pod, destination, m) ==
    DecisionOf(direction,
               [l \in Layers |-> EvaluatePolicyLayer(x, l, direction, pod, destination, m)])

-----------------------------------------------------------------------------
(* Uncertainty is kept apart from the state until the end.                 *)
ApplyUncertainty(uncertain, state) == IF uncertain THEN "PartialData" ELSE state

MeetOfSides(source, destination, egress, ingress) ==
    LET permissions == IntersectPermissions(egress.permissions, ingress.permissions)
        state == IF "Disallowed" \in {egress.state, ingress.state} THEN "Disallowed"
                 ELSE StateOf(permissions)
    IN  [source |-> source,
         destination |-> destination,
         state |-> ApplyUncertainty(egress.uncertain \/ ingress.uncertain, state),
         permissions |-> permissions,
         evidence |-> egress.evidence \union ingress.evidence,
         partialDeny |-> FALSE]

EvaluatePair(x, source, destination) ==
    MeetOfSides(source, destination,
                EvaluateLayers(x, "egress", source, destination, PodMatcher(destination)),
                EvaluateLayers(x, "ingress", destination, destination, PodMatcher(source)))

(* Denials of a part of the block leave only what is certain throughout;   *)
(* what the rules grant is bounded by the verdict without them.            *)
BoundedBy(possible, evidence) ==
    {IF e.action = "deny" THEN e
     ELSE [e EXCEPT !.ports = IntersectPermissions(@, possible)] : e \in evidence}

BlockVerdict(direction, pod, intersected, decision, possible) ==
    LET partial == intersected /\ decision.permissions # possible
    IN  [source |-> IF direction = "egress" THEN pod ELSE NoPod,
         destination |-> IF direction = "egress" THEN NoPod ELSE pod,
         state |-> ApplyUncertainty(decision.uncertain, IF partial THEN "Unknown" ELSE decision.state),
         permissions |-> decision.permissions,
         evidence |-> IF intersected THEN BoundedBy(possible, decision.evidence)
                      ELSE decision.evidence,
         partialDeny |-> partial]

EvaluateCIDRSide(x, direction, pod, ref) ==
    LET decided(partialDeny) ==
            EvaluateLayers(x, direction, pod, IF direction = "egress" THEN NoPod ELSE pod,
                           CIDRMatcher(ref, partialDeny))
        rules == UNION {RulesOf(x, Selection(x, pod, direction, layer).policies, direction) : layer \in Layers}
    IN  BlockVerdict(direction, pod,
                     \E r \in rules : DeniesPart(CIDRMatcher(ref, TRUE), RuleAt(x, r)),
                     decided(TRUE), decided(FALSE).permissions)

-----------------------------------------------------------------------------
AggregateState(pairs, partialData) ==
    LET states == {p.state : p \in pairs}
    IN  IF partialData \/ "PartialData" \in states THEN "PartialData"
        ELSE IF pairs = {} THEN "Unknown"
        ELSE IF Cardinality(states) = 1 THEN CHOOSE s \in states : TRUE
        ELSE "Partial"
=============================================================================
