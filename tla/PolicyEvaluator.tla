---------------------------- MODULE PolicyEvaluator ----------------------------
(***************************************************************************)
(* internal/netpol: the evaluator of network policies, called again and    *)
(* again while the cluster changes.  EvaluateSubject normalizes the        *)
(* policies of a snapshot, finds the pods of its subject, and evaluates    *)
(* their traffic in each direction with every pod, workload, namespace and *)
(* address block, up to a limit.  Between calls it keeps nothing but a     *)
(* cache of normalized policies.                                           *)
(***************************************************************************)
EXTENDS PolicyVerdicts, Reachability, SequencesExt

CONSTANTS
    Catalogue,          \* Catalogue[n]: the versions of policy n, each as it is
                        \* normalized where no Istio root is involved
    IstioConfigs,       \* [root, candidates] of the Istio installation
    InitialConfig,
    ReplicaSets, Deployments, Jobs, NoOwner,
    OwnerOf, DeploymentOf,      \* of a pod, of a replica set
    SelectorOf,                 \* of a deployment or a job: the pods it matches
    WorkloadNamespace,
    AllAddresses,       \* the blocks 0.0.0.0/0 and ::/0
    Limits,             \* values of Options.ResultLimit
    Subjects,
    InitialClusters,    \* functions from names of policies to their versions
    MaxChanges,
    NoResult

Resources == {"pods", "replicasets"}

AllSubjects ==
    {[kind |-> "pod", name |-> p] : p \in Pods}
    \union {[kind |-> "namespace", name |-> n] : n \in Namespaces}
    \union {[kind |-> "deployment", name |-> d] : d \in Deployments}
    \union {[kind |-> "job", name |-> j] : j \in Jobs}

ASSUME EvaluatorAssumption ==
    /\ IsFiniteSet(DOMAIN Catalogue)
    /\ \A n \in DOMAIN Catalogue : Catalogue[n] \in Seq(Policy) \ {<<>>}
    /\ \A cluster \in InitialClusters : \A n \in DOMAIN cluster :
          n \in DOMAIN Catalogue /\ cluster[n] \in DOMAIN Catalogue[n]
    /\ IsFiniteSet(Deployments) /\ IsFiniteSet(Jobs)
    /\ OwnerOf \in [Pods -> ReplicaSets \union Deployments \union Jobs \union {NoOwner}]
    /\ DeploymentOf \in [ReplicaSets -> Deployments \union {NoOwner}]
    /\ SelectorOf \in [Deployments \union Jobs -> SUBSET Pods]
    /\ WorkloadNamespace \in [Deployments \union Jobs -> Namespaces]
    /\ AllAddresses \subseteq Block
    /\ Limits \subseteq Nat \ {0}
    /\ Subjects \subseteq AllSubjects
    /\ InitialConfig \in IstioConfigs
    /\ MaxChanges \in Nat

VARIABLES
    policies,           \* the version of each policy in the cluster
    istio,
    incomplete,         \* the resources that cannot be listed
    cache,              \* the normalized policies kept, by key
    result,             \* of the last call, until the cluster changes or the next
    changes             \* of the cluster, for the bound

vars == <<policies, istio, incomplete, cache, result, changes>>

-----------------------------------------------------------------------------
(* Whether an authorization policy is mesh-wide is decided by the root.    *)
Ambiguous(config, namespace) ==
    Cardinality(config.candidates) > 1 /\ namespace \in config.candidates

(* Plausible mistake: an ambiguous policy is put into the resolved root.   *)
NormalizeIntoRoot(spec, config) ==
    IF spec.layer = "authorization" /\ Ambiguous(config, spec.scope)
    THEN [spec EXCEPT !.scope = config.root, !.state = "selectionUnknown"]
    ELSE spec

Normalize(spec, config) ==
    IF spec.layer # "authorization" THEN spec
    ELSE IF Ambiguous(config, spec.scope)
    THEN [spec EXCEPT !.scope = ClusterWide, !.state = "selectionUnknown"]
    ELSE IF spec.scope = config.root THEN [spec EXCEPT !.scope = ClusterWide]
    ELSE spec

(* Plausible mistake: the root namespace is left out of the key.           *)
CacheKeyOfObject(n, version, config) == [policy |-> n, version |-> version, istio |-> {}]

CacheKey(n, version, config) ==
    [policy |-> n, version |-> version,
     istio |-> IF Catalogue[n][version].layer = "authorization" THEN {config} ELSE {}]

Load(n, version, config) ==
    LET k == CacheKey(n, version, config)
    IN  IF \E e \in cache : e.key = k
        THEN (CHOOSE e \in cache : e.key = k).policy
        ELSE Normalize(Catalogue[n][version], config)

Loaded == [n \in DOMAIN policies |-> Load(n, policies[n], istio)]

(* begin and sweep around the loads of a snapshot: what is left is what    *)
(* the snapshot used.                                                      *)
Swept == {[key |-> CacheKey(n, policies[n], istio), policy |-> Loaded[n]] : n \in DOMAIN policies}

-----------------------------------------------------------------------------
(* A listed subject is not asked for.                                      *)
Gets == IF "pods" \in incomplete THEN BOOLEAN ELSE {TRUE}

(* The snapshot and its index.  A subject that was not listed is asked for *)
(* by itself.                                                              *)
ListedPods(ref, got) ==
    IF "pods" \notin incomplete THEN Pods
    ELSE {p \in Pods : got /\ ref.kind = "pod" /\ ref.name = p}

Index(ref, got) ==
    [pods |-> ListedPods(ref, got),
     replicaSets |-> IF "replicasets" \in incomplete THEN {} ELSE ReplicaSets,
     incomplete |-> incomplete,
     policies |-> Loaded]

OwnedBy(x, workload) ==
    {p \in x.pods : \/ OwnerOf[p] = workload
                    \/ OwnerOf[p] \in x.replicaSets /\ DeploymentOf[OwnerOf[p]] = workload}

OwnershipIncomplete(x, workload) ==
    "pods" \in x.incomplete \/ (workload \in Deployments /\ "replicasets" \in x.incomplete)

(* Without the data on owners, a workload's pods are those it selects.     *)
Fallback(x, workload) == OwnedBy(x, workload) = {} /\ OwnershipIncomplete(x, workload)
PodsForWorkload(x, workload) ==
    IF Fallback(x, workload)
    THEN {p \in x.pods : NamespaceOf[p] = WorkloadNamespace[workload] /\ p \in SelectorOf[workload]}
    ELSE OwnedBy(x, workload)

PodsIn(x, namespace) == {p \in x.pods : NamespaceOf[p] = namespace}

ResolveSubject(x, ref) ==
    CASE ref.kind = "pod" -> {ref.name} \intersect x.pods
      [] ref.kind = "namespace" -> PodsIn(x, ref.name)
      [] OTHER -> PodsForWorkload(x, ref.name)

NotFound(x, ref) == ref.kind = "pod" /\ ref.name \notin x.pods

-----------------------------------------------------------------------------
(* The address blocks the rules of the subject's policies speak of.        *)
SpeakingPolicies(x, pod, direction) ==
    UNION {Selection(x, pod, direction, layer).policies
           \union Selection(x, pod, direction, layer).effectUnknown : layer \in Layers}

CIDRPrimitives(x, subject, direction) ==
    LET ids == UNION {RulesOf(x, SpeakingPolicies(x, pod, direction), direction) : pod \in subject}
        rules == {RuleAt(x, id) : id \in {i \in ids : Enabled(RuleAt(x, i))}}
        peers == UNION {rule.peers : rule \in rules}
        all == \/ \E rule \in rules : rule.peers = {}
               \/ \E peer \in peers : peer.blocks = {} /\ PeerMatchesAddresses(peer)
    IN  (UNION {peer.blocks : peer \in peers}) \union (IF all THEN AllAddresses ELSE {})

(* What the subject is evaluated with, in a fixed order.                   *)
Candidate(kind, name, members, fallback) ==
    [kind |-> kind, name |-> name, members |-> members, fallback |-> fallback]

Candidates(x, subject, direction) ==
    SetToSeq({Candidate("cidr", ref, {NoPod}, FALSE) : ref \in CIDRPrimitives(x, subject, direction)})
    \o SetToSeq({Candidate("pod", p, {p}, FALSE) : p \in x.pods})
    \o SetToSeq({Candidate("namespace", n, PodsIn(x, n), FALSE) : n \in Namespaces})
    \o SetToSeq({Candidate("deployment", d, PodsForWorkload(x, d), Fallback(x, d)) : d \in Deployments})
    \o SetToSeq({Candidate("job", j, PodsForWorkload(x, j), Fallback(x, j)) : j \in Jobs})

-----------------------------------------------------------------------------
(* Plausible mistake: what was evaluated before the limit speaks for all.  *)
PartialListing(x, candidate, truncated) == x.incomplete # {} \/ candidate.fallback
PartialData(x, candidate, truncated) == x.incomplete # {} \/ candidate.fallback \/ truncated

AllowedPairs(pairs) == {p \in pairs : p.state = "Allowed"}

Primitive(x, candidate, pairs, truncated) ==
    [kind |-> candidate.kind, name |-> candidate.name, members |-> candidate.members,
     pairs |-> pairs,
     permissions |-> Canonical(UNION {p.permissions : p \in pairs}),
     state |-> AggregateState(pairs, PartialData(x, candidate, truncated)),
     allowedPairs |-> Cardinality(AllowedPairs(pairs)),
     totalPairs |-> Cardinality(pairs)]

SubjectOf(pair, direction) == IF direction = "ingress" THEN pair.destination ELSE pair.source
OtherOf(pair, direction) == IF direction = "ingress" THEN pair.source ELSE pair.destination

(* The evidence of a rule and the pods of the subject it matched.  Only    *)
(* blocks and pods count: the others repeat the same pairs.                *)
RuleResult(id, holders, primitives, direction) ==
    LET pairs == {p \in UNION {primitives[i].pairs :
                        i \in {j \in DOMAIN primitives : primitives[j].kind \in {"cidr", "pod"}}} :
                    \E e \in p.evidence : e.id = id}
        evidence == {e \in UNION {p.evidence : p \in pairs} : e.id = id}
    IN  [id |-> id,
         evidence |-> evidence,
         permissions |-> Canonical(UNION {e.ports : e \in evidence}),
         subjectPods |-> Cardinality(holders),
         subjectMatches |-> Cardinality({SubjectOf(p, direction) : p \in pairs})]

(* Each layer explains its own isolation.                                  *)
RulesListed(x, pod, direction) ==
    LET isolated(layer) == Selection(x, pod, direction, layer).isolated
    IN  RulesOf(x, SpeakingPolicies(x, pod, direction), direction)
        \union {Synthetic(IF isolated("network") THEN DefaultDeny("network") ELSE "unrestricted", direction)}
        \union OnlyIf(isolated("authorization"), Synthetic(DefaultDeny("authorization"), direction))

BuildRules(x, subject, direction, primitives) ==
    {RuleResult(id, {p \in subject : id \in RulesListed(x, p, direction)}, primitives, direction) :
        id \in UNION {RulesListed(x, p, direction) : p \in subject}}

(* The pairs that the first i of the candidates taken are made of.         *)
PairsOf(subject, taken) ==
    LET upTo[i \in 0..Len(taken)] ==
            IF i = 0 THEN 0 ELSE upTo[i - 1] + Cardinality(subject \X taken[i].members)
    IN  upTo

(* The budget of a direction: so many candidates, and so many pairs.       *)
TakenWithin(limit, x, subject, direction, taken) ==
    LET sides(c) == SetToSeq(subject \X c.members)
        spent == PairsOf(subject, taken)
        used(i) == Smaller(limit, spent[i])
        cut(i) == spent[i] > limit /\ spent[i] > spent[i - 1]
        ends(side) == IF direction = "ingress" THEN <<side[2], side[1]>> ELSE side
        verdicts == {EvaluatePair(x, ends(side)[1], ends(side)[2]) : side \in subject \X x.pods}
        verdict(c, side) ==
            IF c.kind = "cidr" THEN EvaluateCIDRSide(x, direction, side[1], c.name)
            ELSE CHOOSE v \in verdicts : <<v.source, v.destination>> = ends(side)
    IN  [i \in 1..Len(taken) |->
            Primitive(x, taken[i],
                      {verdict(taken[i], sides(taken[i])[k]) : k \in 1..(used(i) - used(i - 1))},
                      cut(i))]

DirectionResult(x, subject, direction, primitives, truncated) ==
    [primitives |-> primitives,
     rules |-> BuildRules(x, subject, direction, primitives),
     truncated |-> truncated]

EvaluateDirection(x, subject, direction, limit) ==
    LET candidates == Candidates(x, subject, direction)
        taken == SubSeq(candidates, 1, Smaller(limit, Len(candidates)))
    IN  DirectionResult(x, subject, direction,
                        TakenWithin(limit, x, subject, direction, taken),
                        \/ limit < Len(candidates)
                        \/ PairsOf(subject, taken)[Len(taken)] > limit)

-----------------------------------------------------------------------------
(* How each primitive of a direction is let through, and how one rule       *)
(* applies to it.                                                          *)
Opposite(direction) == IF direction = "ingress" THEN "egress" ELSE "ingress"
PortsOf(evidence) ==
    Canonical(UNION {IF ~Explicit(e.id) /\ e.id.policy = "unrestricted" THEN AllPermissions
                     ELSE e.ports : e \in evidence})

(* Plausible mistake: what both sides match gets through.                  *)
GrantedBySides(possible, pair) == possible
Granted(possible, pair) == IntersectPermissions(possible, pair.permissions)

(* Default denials are on every denied pair and count for no match.        *)
SpeaksFor(pair, direction) ==
    \E e \in pair.evidence : /\ e.id.direction = direction
                             /\ Explicit(e.id) \/ e.id.policy \notin DefaultDenies

DirectionApplicability(primitive, direction) ==
    LET peerMatches == \E pair \in primitive.pairs : SpeaksFor(pair, direction)
        lets(pair) == IF primitive.kind = "cidr" THEN pair.state = "Allowed"
                      ELSE SpeaksFor(pair, Opposite(direction)) /\ KnownPermissions(pair.permissions)
    IN  [effectiveState |-> primitive.state,
         peerMatches |-> peerMatches,
         oppositeSideAllows |-> peerMatches /\ \A pair \in primitive.pairs : lets(pair)]

PossibleOf(primitive, pair, direction, id) ==
    LET selected == PortsOf({e \in pair.evidence : e.id = id})
        opposite == PortsOf({e \in pair.evidence : e.id.direction = Opposite(direction)})
    IN  IF primitive.kind = "cidr" THEN selected ELSE IntersectPermissions(selected, opposite)

RuleOnPair(pair, id, possible, overlap) ==
    LET guaranteed == {p \in overlap : ~p.unknown}
        varies == pair.partialDeny /\ SubtractPermissions(possible, guaranteed) # {}
        counts == /\ \E e \in pair.evidence : e.id = id /\ e.action # "deny"
                  /\ pair.state # "Disallowed"
    IN  [permissions |-> IF counts THEN guaranteed ELSE {},
         effective |-> counts /\ guaranteed # {} /\ ~varies,
         uncertain |-> counts /\ IF varies THEN TRUE ELSE guaranteed = {} /\ overlap # {}]

RulePair(primitive, pair, direction, id) ==
    LET possible == PossibleOf(primitive, pair, direction, id)
    IN  RuleOnPair(pair, id, possible, Granted(possible, pair))

StateOfRule(primitive, rows) ==
    IF primitive.state = "PartialData" THEN "PartialData"
    ELSE IF rows = {} THEN "Unknown"
    ELSE IF \A row \in rows : row.effective THEN "Allowed"
    ELSE IF \A row \in rows : row.uncertain THEN "Unknown"
    ELSE IF \E row \in rows : row.effective \/ row.uncertain THEN "Partial"
    ELSE "Disallowed"

RuleApplicability(primitive, direction, id) ==
    LET rows == {RulePair(primitive, pair, direction, id) : pair \in primitive.pairs}
    IN  [permissions |-> Canonical(UNION {row.permissions : row \in rows}),
         state |-> StateOfRule(primitive, rows)]

-----------------------------------------------------------------------------
Answer(ref, limit, x) ==
    [ref |-> ref,
     subject |-> ResolveSubject(x, ref),
     directions |-> [d \in Directions |-> EvaluateDirection(x, ResolveSubject(x, ref), d, limit)]]

Init ==
    /\ policies \in InitialClusters
    /\ istio = InitialConfig
    /\ incomplete = {}
    /\ cache = {}
    /\ result = NoResult
    /\ changes = 0

(* The cache is swept before the subject is looked for.                    *)
EvaluateSubject(ref, limit, got) ==
    LET x == Index(ref, got)
    IN  /\ result = NoResult
        /\ cache' = Swept
        /\ result' = IF NotFound(x, ref) THEN NoResult ELSE Answer(ref, limit, x)
        /\ UNCHANGED <<policies, istio, incomplete, changes>>

Change == changes < MaxChanges /\ changes' = changes + 1 /\ result' = NoResult

(* A policy is created, edited or deleted.                                 *)
PolicyChanges(n) ==
    /\ Change
    /\ \/ /\ n \notin DOMAIN policies
          /\ policies' = [m \in DOMAIN policies \union {n} |-> IF m = n THEN 1 ELSE policies[m]]
       \/ /\ n \in DOMAIN policies
          /\ policies[n] + 1 \in DOMAIN Catalogue[n]
          /\ policies' = [policies EXCEPT ![n] = @ + 1]
       \/ /\ n \in DOMAIN policies
          /\ policies' = [m \in DOMAIN policies \ {n} |-> policies[m]]
    /\ UNCHANGED <<istio, incomplete, cache>>

RootChanges(config) ==
    /\ Change
    /\ config # istio
    /\ istio' = config
    /\ UNCHANGED <<policies, incomplete, cache>>

ListingChanges(resources) ==
    /\ Change
    /\ incomplete # resources
    /\ incomplete' = resources
    /\ UNCHANGED <<policies, istio, cache>>

Next ==
    \/ \E ref \in Subjects, limit \in Limits, got \in Gets : EvaluateSubject(ref, limit, got)
    \/ \E n \in DOMAIN Catalogue : PolicyChanges(n)
    \/ \E config \in IstioConfigs : RootChanges(config)
    \/ \E resources \in SUBSET Resources : ListingChanges(resources)

Spec == Init /\ [][Next]_vars

-----------------------------------------------------------------------------
TypeOK ==
    /\ \A n \in DOMAIN policies : n \in DOMAIN Catalogue /\ policies[n] \in DOMAIN Catalogue[n]
    /\ istio \in IstioConfigs
    /\ incomplete \subseteq Resources
    /\ \A e \in cache : e.key.policy \in DOMAIN Catalogue /\ e.policy \in Policy
    /\ changes \in 0..MaxChanges

(* The cluster as it is, every list complete.                              *)
Cluster ==
    [pods |-> Pods, replicaSets |-> ReplicaSets, incomplete |-> {},
     policies |-> [n \in DOMAIN policies |-> Normalize(Catalogue[n][policies[n]], istio)]]

Certain(permissions) == {t \in AllTraffic : Certainly(permissions, t[1], t[2])}
Possible(permissions) == {t \in AllTraffic : Possibly(permissions, t[1], t[2])}

Primitives(direction) == {result.directions[direction].primitives[i] :
                             i \in DOMAIN result.directions[direction].primitives}
Pairs(direction) == UNION {primitive.pairs : primitive \in Primitives(direction)}
Answered == result # NoResult
BetweenPods(pair) == NoPod \notin {pair.source, pair.destination}

(* A verdict on two pods that is not partial data holds, whatever the      *)
(* snapshot leaves open: what it allows gets through, what it does not     *)
(* possibly allow does not, and Allowed is never said of nothing.          *)
VerdictsHold ==
    Answered => \A d \in Directions : \A verdict \in Pairs(d) :
        BetweenPods(verdict) /\ verdict.state # "PartialData" =>
            /\ verdict.state = "Allowed" => Certain(verdict.permissions) # {}
            /\ \A w \in Worlds(verdict.destination) :
                LET traffic == PairTraffic(w, Cluster, verdict.source, verdict.destination)
                IN  Certain(verdict.permissions) \subseteq traffic
                    /\ traffic \subseteq Possible(verdict.permissions)

(* No traffic gets through between pods whose verdict is Disallowed.       *)
DisallowedIsCertain ==
    Answered => \A d \in Directions : \A verdict \in Pairs(d) :
        BetweenPods(verdict) /\ verdict.state = "Disallowed" =>
            \A w \in Worlds(verdict.destination) :
                PairTraffic(w, Cluster, verdict.source, verdict.destination) = {}

(* The known permissions of a block apply throughout its range: to every   *)
(* address of it that is not excepted.                                     *)
CIDRsAreGuaranteed ==
    Answered => \A d \in Directions : \A primitive \in Primitives(d) :
        primitive.kind = "cidr" => \A verdict \in primitive.pairs :
            verdict.state # "PartialData" =>
                \A a \in {b \in Address : InBlock(primitive.name, b)}, w \in Worlds(verdict.destination) :
                    Certain(verdict.permissions)
                        \subseteq AddressTraffic(w, Cluster, d, SubjectOf(verdict, d), a)

MembersOf(primitive) ==
    CASE primitive.kind = "cidr" -> {NoPod}
      [] primitive.kind = "pod" -> {primitive.name}
      [] primitive.kind = "namespace" -> PodsIn(Cluster, primitive.name)
      [] OTHER -> PodsForWorkload(Cluster, primitive.name)

Complete(primitive, direction) ==
    {<<SubjectOf(verdict, direction), OtherOf(verdict, direction)>> : verdict \in primitive.pairs}
    = ResolveSubject(Cluster, result.ref) \X MembersOf(primitive)

Untruncated == \A d \in Directions : ~result.directions[d].truncated

(* A primitive that is not partial data was evaluated with all of its pods *)
(* and all those of the subject.  An answer that does not say it is        *)
(* truncated leaves nothing out.                                           *)
TruncationIsTold ==
    Answered => \A d \in Directions :
        /\ \A primitive \in Primitives(d) : primitive.state # "PartialData" => Complete(primitive, d)
        /\ Untruncated /\ incomplete = {} =>
             /\ \A primitive \in Primitives(d) : Complete(primitive, d)
             /\ Pods \union Namespaces \union Deployments \union Jobs
                \subseteq {primitive.name : primitive \in Primitives(d)}

Lets(id, w, traffic, destination, other) ==
    LET rule == RuleAt(Cluster, id)
    IN  Meets(w, rule, other) /\ RuleTraffic(w, rule, destination) \intersect traffic # {}

Effective(id, verdict, d, block) ==
    LET pod == SubjectOf(verdict, d)
    IN  \A w \in Worlds(verdict.destination) :
            IF BetweenPods(verdict)
            THEN Lets(id, w, PairTraffic(w, Cluster, verdict.source, verdict.destination),
                      verdict.destination, [kind |-> "pod", pod |-> OtherOf(verdict, d)])
            ELSE \A a \in {b \in Address : InBlock(block, b)} :
                    Lets(id, w, AddressTraffic(w, Cluster, d, pod, a),
                         verdict.destination, [kind |-> "address", address |-> a])

OpenToAll(verdict, d, block) ==
    \A w \in Worlds(verdict.destination) :
        IF BetweenPods(verdict)
        THEN PairTraffic(w, Cluster, verdict.source, verdict.destination) # {}
        ELSE \A a \in {b \in Address : InBlock(block, b)} :
                AddressTraffic(w, Cluster, d, SubjectOf(verdict, d), a) # {}

(* A primitive shown as allowed by the opposite side exchanges traffic     *)
(* with every pod of the subject, and a rule shown as effective for a      *)
(* primitive lets something through between the subject and each pod, or   *)
(* each address, of it.  A rule of that side that a verdict cites is listed. *)
RuleRowsHold ==
    Answered => \A d \in Directions : \A primitive \in Primitives(d) :
        /\ \A e \in UNION {verdict.evidence : verdict \in primitive.pairs} :
              e.id.direction = d => \E rule \in result.directions[d].rules : rule.id = e.id
        /\ /\ primitive.state # "PartialData"
           /\ DirectionApplicability(primitive, d).oppositeSideAllows
           => \A verdict \in primitive.pairs : OpenToAll(verdict, d, primitive.name)
        /\ \A rule \in {r \in result.directions[d].rules : Explicit(r.id)} :
            RuleApplicability(primitive, d, rule.id).state = "Allowed" =>
                \A verdict \in primitive.pairs : Effective(rule.id, verdict, d, primitive.name)

(* What a call takes from the cache is what it would have normalized, also *)
(* when the root namespace or a policy has changed since, and of a policy  *)
(* the cache keeps no more than one form.                                  *)
CacheIsCurrent ==
    /\ Loaded = Cluster.policies
    /\ \A e, f \in cache : e.key.policy = f.key.policy => e = f
=============================================================================
