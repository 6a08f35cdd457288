------------------------ MODULE PolicyEvaluatorProofs ------------------------
(***************************************************************************)
(* What the evaluator answers is true of the policies of the cluster, for  *)
(* any policies, pods, ports and addresses.                                *)
(*   - The cache: a cached form is a normalization by its own key, and     *)
(*     equal keys are of equal forms, so a snapshot is of the cluster.     *)
(*   - A verdict: each list of permissions brackets the traffic it is      *)
(*     about.  That is shown for a port, a rule, a layer, a side, and for  *)
(*     two pods or a block of addresses; a layer asks only how a matcher   *)
(*     stands to the rules.                                                *)
(*   - An answer: what is taken of the candidates within the budget, and   *)
(*     of the pairs of each, so that what is missing is told.              *)
(*   - The rows: the evidence of a verdict names rules that match the      *)
(*     other side, and bounds what the row of a rule may claim.            *)
(***************************************************************************)
EXTENDS PolicyEvaluator, PolicyArithmeticProofs

(* A cached form is that of a version of a policy under an Istio           *)
(* configuration, by the key of that version and configuration, whatever   *)
(* the cluster has become since; and of a policy there is one.             *)
Normalized(e) ==
    \E n \in DOMAIN Catalogue : \E v \in DOMAIN Catalogue[n] : \E config \in IstioConfigs :
        e = [key |-> CacheKey(n, v, config), policy |-> Normalize(Catalogue[n][v], config)]

ClusterOK ==
    /\ \A n \in DOMAIN policies : n \in DOMAIN Catalogue /\ policies[n] \in DOMAIN Catalogue[n]
    /\ istio \in IstioConfigs
    /\ incomplete \subseteq Resources
    /\ changes \in 0..MaxChanges

CacheInv ==
    /\ \A e \in cache : Normalized(e)
    /\ \A e, f \in cache : e.key.policy = f.key.policy => e = f

LEMMA Catalogued ==
    \A n \in DOMAIN Catalogue : \A v \in DOMAIN Catalogue[n] : Catalogue[n][v] \in Policy
BY EvaluatorAssumption

LEMMA NormalizeIsPolicy ==
    ASSUME NEW spec \in Policy, NEW config
    PROVE  Normalize(spec, config) \in Policy
BY DEF Normalize, Policy, States

(* Equal keys, equal forms.                                                *)
LEMMA KeyDetermines ==
    ASSUME NEW n \in DOMAIN Catalogue, NEW v \in DOMAIN Catalogue[n], NEW c,
           NEW m, NEW w, NEW d, CacheKey(n, v, c) = CacheKey(m, w, d)
    PROVE  Normalize(Catalogue[n][v], c) = Normalize(Catalogue[m][w], d)
<1>1. n = m /\ v = w
  BY DEF CacheKey
<1>2. CASE Catalogue[n][v].layer = "authorization"
  <2>1. c = d
    BY <1>1, <1>2 DEF CacheKey
  <2> QED
    BY <1>1, <2>1
<1>3. CASE Catalogue[n][v].layer # "authorization"
  BY <1>1, <1>3 DEF Normalize
<1> QED
  BY <1>2, <1>3

LEMMA LoadIsNormalize ==
    ASSUME \A e \in cache : Normalized(e),
           NEW n \in DOMAIN Catalogue, NEW v \in DOMAIN Catalogue[n], NEW config \in IstioConfigs
    PROVE  Load(n, v, config) = Normalize(Catalogue[n][v], config)
<1>1. CASE \E e \in cache : e.key = CacheKey(n, v, config)
  <2> DEFINE e == CHOOSE e \in cache : e.key = CacheKey(n, v, config)
  <2>1. e \in cache /\ e.key = CacheKey(n, v, config)
    BY <1>1
  <2>2. Load(n, v, config) = e.policy
    BY <1>1 DEF Load
  <2> HIDE DEF e
  <2>3. PICK m \in DOMAIN Catalogue : \E w \in DOMAIN Catalogue[m] : \E d \in IstioConfigs :
          e = [key |-> CacheKey(m, w, d), policy |-> Normalize(Catalogue[m][w], d)]
    BY <2>1 DEF Normalized
  <2>4. PICK w \in DOMAIN Catalogue[m], d \in IstioConfigs :
          e = [key |-> CacheKey(m, w, d), policy |-> Normalize(Catalogue[m][w], d)]
    BY <2>3
  <2>5. CacheKey(n, v, config) = CacheKey(m, w, d)
    BY <2>1, <2>4
  <2> QED
    BY <2>2, <2>4, <2>5, KeyDetermines
<1>2. CASE ~\E e \in cache : e.key = CacheKey(n, v, config)
  BY <1>2 DEF Load
<1> QED
  BY <1>1, <1>2

LEMMA LoadedIsCurrent ==
    ASSUME ClusterOK, CacheInv
    PROVE  /\ DOMAIN Loaded = DOMAIN policies
           /\ \A n \in DOMAIN policies : Loaded[n] = Normalize(Catalogue[n][policies[n]], istio)
           /\ Loaded = Cluster.policies
<1>1. \A n \in DOMAIN policies : Load(n, policies[n], istio) = Normalize(Catalogue[n][policies[n]], istio)
  BY LoadIsNormalize DEF ClusterOK, CacheInv
<1>2. Loaded = [n \in DOMAIN policies |-> Load(n, policies[n], istio)]
  BY DEF Loaded
<1>3. Cluster.policies = [n \in DOMAIN policies |-> Normalize(Catalogue[n][policies[n]], istio)]
  BY DEF Cluster
<1> QED
  BY <1>1, <1>2, <1>3

LEMMA InitCluster == Init => ClusterOK /\ CacheInv
<1> SUFFICES ASSUME Init PROVE ClusterOK /\ CacheInv
  OBVIOUS
<1>1. policies \in InitialClusters /\ istio = InitialConfig /\ incomplete = {} /\ cache = {} /\ changes = 0
  BY DEF Init
<1>2. 0 \in 0..MaxChanges
  BY EvaluatorAssumption
<1> QED
  BY <1>1, <1>2, EvaluatorAssumption DEF ClusterOK, CacheInv

LEMMA NextCluster == ClusterOK /\ CacheInv /\ [Next]_vars => ClusterOK' /\ CacheInv'
<1> SUFFICES ASSUME ClusterOK, CacheInv, [Next]_vars PROVE ClusterOK' /\ CacheInv'
  OBVIOUS
<1>1. ASSUME Change PROVE changes' \in 0..MaxChanges
  BY <1>1, EvaluatorAssumption DEF Change, ClusterOK
<1>2. ASSUME NEW ref \in Subjects, NEW limit \in Limits, NEW got \in Gets,
             EvaluateSubject(ref, limit, got)
      PROVE  ClusterOK' /\ CacheInv'
  <2>1. cache' = Swept /\ UNCHANGED <<policies, istio, incomplete, changes>>
    BY <1>2 DEF EvaluateSubject
  <2>2. ClusterOK'
    BY <2>1 DEF ClusterOK
  <2>3. \A e \in Swept : \E n \in DOMAIN policies :
          e = [key |-> CacheKey(n, policies[n], istio), policy |-> Loaded[n]]
    BY DEF Swept
  <2>4. \A e \in Swept : Normalized(e)
    <3> TAKE e \in Swept
    <3>1. PICK n \in DOMAIN policies : e = [key |-> CacheKey(n, policies[n], istio), policy |-> Loaded[n]]
      BY <2>3
    <3>2. Loaded[n] = Normalize(Catalogue[n][policies[n]], istio)
      BY LoadedIsCurrent
    <3> QED
      BY <3>1, <3>2 DEF Normalized, ClusterOK
  <2>5. \A e, f \in Swept : e.key.policy = f.key.policy => e = f
    <3> TAKE e, f \in Swept
    <3>1. PICK n \in DOMAIN policies : e = [key |-> CacheKey(n, policies[n], istio), policy |-> Loaded[n]]
      BY <2>3
    <3>2. PICK m \in DOMAIN policies : f = [key |-> CacheKey(m, policies[m], istio), policy |-> Loaded[m]]
      BY <2>3
    <3>3. e.key.policy = n /\ f.key.policy = m
      BY <3>1, <3>2 DEF CacheKey
    <3> QED
      BY <3>1, <3>2, <3>3
  <2> QED
    BY <2>1, <2>2, <2>4, <2>5 DEF CacheInv, Normalized
<1>3. ASSUME NEW n \in DOMAIN Catalogue, PolicyChanges(n)
      PROVE  ClusterOK' /\ CacheInv'
  <2>1. UNCHANGED <<istio, incomplete, cache>> /\ changes' \in 0..MaxChanges
    BY <1>1, <1>3 DEF PolicyChanges
  <2>2. Catalogue[n] \in Seq(Policy) /\ Catalogue[n] # <<>>
    BY EvaluatorAssumption
  <2>3. 1 \in DOMAIN Catalogue[n]
    BY <2>2
  <2>4. \A m \in DOMAIN policies' : m \in DOMAIN Catalogue /\ policies'[m] \in DOMAIN Catalogue[m]
    <3>1. CASE /\ n \notin DOMAIN policies
               /\ policies' = [m \in DOMAIN policies \union {n} |-> IF m = n THEN 1 ELSE policies[m]]
      BY <2>3, <3>1 DEF ClusterOK
    <3>2. CASE /\ n \in DOMAIN policies
               /\ policies[n] + 1 \in DOMAIN Catalogue[n]
               /\ policies' = [policies EXCEPT ![n] = @ + 1]
      <4> DEFINE next == policies[n] + 1
      <4>1. /\ DOMAIN policies' = DOMAIN policies
            /\ \A m \in DOMAIN policies : policies'[m] = IF m = n THEN next ELSE policies[m]
        BY <3>2
      <4>2. next \in DOMAIN Catalogue[n]
        BY <3>2
      <4> HIDE DEF next
      <4> QED
        BY <4>1, <4>2 DEF ClusterOK
    <3>3. CASE policies' = [m \in DOMAIN policies \ {n} |-> policies[m]]
      BY <3>3 DEF ClusterOK
    <3> QED
      BY <1>3, <3>1, <3>2, <3>3 DEF PolicyChanges
  <2>5. ClusterOK'
    BY <2>1, <2>4 DEF ClusterOK
  <2> QED
    BY <2>1, <2>5 DEF CacheInv, Normalized
<1>4. ASSUME NEW config \in IstioConfigs, RootChanges(config)
      PROVE  ClusterOK' /\ CacheInv'
  <2>1. UNCHANGED <<policies, incomplete, cache>> /\ istio' = config /\ changes' \in 0..MaxChanges
    BY <1>1, <1>4 DEF RootChanges
  <2> QED
    BY <2>1 DEF ClusterOK, CacheInv, Normalized
<1>5. ASSUME NEW resources \in SUBSET Resources, ListingChanges(resources)
      PROVE  ClusterOK' /\ CacheInv'
  <2>1. UNCHANGED <<policies, istio, cache>> /\ incomplete' = resources /\ changes' \in 0..MaxChanges
    BY <1>1, <1>5 DEF ListingChanges
  <2> QED
    BY <2>1 DEF ClusterOK, CacheInv, Normalized
<1>6. ASSUME UNCHANGED vars
      PROVE  ClusterOK' /\ CacheInv'
  BY <1>6 DEF vars, ClusterOK, CacheInv, Normalized
<1> QED
  BY <1>2, <1>3, <1>4, <1>5, <1>6 DEF Next

LEMMA ClusterAlways == Spec => [](ClusterOK /\ CacheInv)
BY InitCluster, NextCluster, PTL DEF Spec

(* Every variable stays within its type.                                   *)
THEOREM EvaluatorTypesOK == Spec => []TypeOK
<1>1. ClusterOK /\ CacheInv => TypeOK
  <2> SUFFICES ASSUME ClusterOK, CacheInv PROVE TypeOK
    OBVIOUS
  <2>1. \A e \in cache : e.key.policy \in DOMAIN Catalogue /\ e.policy \in Policy
    <3> TAKE e \in cache
    <3>0. PICK n \in DOMAIN Catalogue : \E v \in DOMAIN Catalogue[n] : \E config \in IstioConfigs :
            e = [key |-> CacheKey(n, v, config), policy |-> Normalize(Catalogue[n][v], config)]
      BY DEF CacheInv, Normalized
    <3>1. PICK v \in DOMAIN Catalogue[n], config \in IstioConfigs :
            e = [key |-> CacheKey(n, v, config), policy |-> Normalize(Catalogue[n][v], config)]
      BY <3>0
    <3>2. e.key.policy = n
      BY <3>1 DEF CacheKey
    <3>3. Catalogue[n][v] \in Policy
      BY Catalogued
    <3>4. e.policy \in Policy
      BY <3>1, <3>3, NormalizeIsPolicy
    <3> QED
      BY <3>2, <3>4
  <2> QED
    BY <2>1 DEF TypeOK, ClusterOK
<1> QED
  BY <1>1, ClusterAlways, PTL

(* What a call takes from the cache is what it would have normalized       *)
(* itself, after any changes of the cluster, and the cache keeps one form  *)
(* of a policy at most.                                                    *)
THEOREM CacheStaysCurrent == Spec => []CacheIsCurrent
<1>1. ClusterOK /\ CacheInv => CacheIsCurrent
  BY LoadedIsCurrent DEF CacheIsCurrent, CacheInv
<1> QED
  BY <1>1, ClusterAlways, PTL

-----------------------------------------------------------------------------
(* A list brackets some traffic: what it calls known gets through, and what *)
(* gets through it calls possible.                                          *)
Below(list, traffic) ==
    \A q \in Protocols, n \in Ports : Certainly(list, q, n) => <<q, n>> \in traffic
Above(list, traffic) ==
    \A q \in Protocols, n \in Ports : <<q, n>> \in traffic => Possibly(list, q, n)

Destinations == Pods \union {NoPod}

LEMMA AllPermissionsAreAll ==
    /\ \A p \in AllPermissions : WellFormed(p)
    /\ \A q \in Protocols, n \in Ports :
         Certainly(AllPermissions, q, n) /\ Possibly(AllPermissions, q, n)
<1>1. \A q \in Protocols : /\ WellFormed(Every(q, FALSE))
                          /\ \A n \in Ports : Covers(Every(q, FALSE), q, n)
                          /\ ~Every(q, FALSE).unknown
  BY PortBound DEF WellFormed, Permission, Numeric, Every, Span, Covers
<1> QED
  BY <1>1 DEF AllPermissions, Certainly, Possibly

(* One entry of a rule's ports, for whatever a name stands for.            *)
LEMMA PortIsBracketed ==
    ASSUME NEW port \in PortSpec, NEW destination \in Destinations, NEW w \in Worlds(destination)
    PROVE  /\ \A p \in PermissionsForPort(port, destination) : WellFormed(p)
           /\ PortTraffic(w, port, destination) \subseteq AllTraffic
           /\ Below(PermissionsForPort(port, destination), PortTraffic(w, port, destination))
           /\ Above(PermissionsForPort(port, destination), PortTraffic(w, port, destination))
<1> DEFINE numbers == NumbersOf(destination, port.name, port.protocol)
           list == PermissionsForPort(port, destination)
           traffic == PortTraffic(w, port, destination)
<1> USE PortBound
<1>1. /\ port.protocol \in Protocols /\ port.lo \in Ports /\ port.hi \in Ports /\ port.lo <= port.hi
      /\ port.name \in Names \union {NoName}
  BY DEF PortSpec
<1>2. w.named \subseteq OpenNumbers(destination)
  BY DEF Worlds
<1>3. CASE port.name = NoName
  <2>1. list = {Span(port.protocol, port.lo, port.hi, FALSE)}
    BY <1>3 DEF PermissionsForPort
  <2>2. traffic = {<<port.protocol, n>> : n \in port.lo..port.hi}
    BY <1>3 DEF PortTraffic
  <2> QED
    BY <1>1, <2>1, <2>2 DEF Below, Above, Certainly, Possibly, Covers, Span, WellFormed, Permission,
       Numeric, AllTraffic
<1>4. CASE port.name # NoName /\ (destination = NoPod \/ Cardinality(numbers) > 1)
  <2>1. list = {Named(port.protocol, port.name)}
    BY <1>4 DEF PermissionsForPort
  <2>2. traffic \subseteq {<<port.protocol, n>> : n \in Ports}
    <3>1. CASE destination = NoPod
      <4>1. w.named \subseteq Ports
        BY <1>2, <3>1 DEF OpenNumbers
      <4>2. traffic = {<<port.protocol, n>> : n \in w.named}
        BY <1>4, <3>1 DEF PortTraffic
      <4> QED
        BY <4>1, <4>2
    <3>2. CASE destination # NoPod
      <4>1. numbers \subseteq Ports
        BY <1>1, <1>4, <3>2, SelectionAssumption DEF Destinations
      <4>2. traffic = {<<port.protocol, n>> : n \in numbers \intersect w.named}
        BY <1>4, <3>2 DEF PortTraffic
      <4> QED
        BY <4>1, <4>2
    <3> QED
      BY <3>1, <3>2
  <2>3. /\ WellFormed(Named(port.protocol, port.name)) /\ Named(port.protocol, port.name).unknown
        /\ \A n \in Ports : Covers(Named(port.protocol, port.name), port.protocol, n)
    BY <1>1, <1>4 DEF Named, WellFormed, Permission, Numeric, Covers
  <2> QED
    BY <1>1, <2>1, <2>2, <2>3 DEF Below, Above, Certainly, Possibly, AllTraffic
<1>5. CASE port.name # NoName /\ ~(destination = NoPod \/ Cardinality(numbers) > 1)
  <2> DEFINE one(n) == Span(port.protocol, n, n, FALSE)
  <2>1. list = {one(n) : n \in numbers}
    BY <1>5 DEF PermissionsForPort
  <2>2. traffic = {<<port.protocol, n>> : n \in numbers}
    BY <1>5 DEF PortTraffic
  <2>9. \A p : p \in list <=> \E n \in numbers : p = one(n)
    BY <2>1
  <2>3. numbers \subseteq Ports
    BY <1>1, <1>5, SelectionAssumption DEF Destinations
  <2>4. \A n \in numbers : /\ WellFormed(one(n))
                           /\ ~one(n).unknown
                           /\ \A q \in Protocols, k \in Ports :
                                 Covers(one(n), q, k) <=> q = port.protocol /\ k = n
    BY <1>1, <2>3 DEF Span, WellFormed, Permission, Numeric, Covers
  <2> HIDE DEF numbers, list, one
  <2>5. \A p \in list : WellFormed(p)
    BY <2>4, <2>9
  <2>10. traffic \subseteq AllTraffic
    BY <1>1, <2>2, <2>3 DEF AllTraffic
  <2>6. \A q \in Protocols, k \in Ports : <<q, k>> \in traffic <=> q = port.protocol /\ k \in numbers
    BY <2>2
  <2>7. \A q \in Protocols, k \in Ports : Certainly(list, q, k) => q = port.protocol /\ k \in numbers
    BY <2>3, <2>4, <2>9 DEF Certainly
  <2>8. \A q \in Protocols, k \in Ports : q = port.protocol /\ k \in numbers => Possibly(list, q, k)
    BY <2>3, <2>4, <2>9 DEF Possibly
  <2> QED
    BY <2>5, <2>6, <2>7, <2>8, <2>10 DEF Below, Above, list
<1> QED
  BY <1>3, <1>4, <1>5

(* The ports of a rule that applies.                                       *)
LEMMA RuleIsBracketed ==
    ASSUME NEW rule \in Rule, ~rule.matchNone, NEW destination \in Destinations,
           NEW w \in Worlds(destination)
    PROVE  /\ \A p \in PermissionsForRule(rule, destination) : WellFormed(p)
           /\ RuleTraffic(w, rule, destination) \subseteq AllTraffic
           /\ Below(PermissionsForRule(rule, destination), RuleTraffic(w, rule, destination))
           /\ Above(PermissionsForRule(rule, destination), RuleTraffic(w, rule, destination))
<1> DEFINE list == PermissionsForRule(rule, destination)
           traffic == RuleTraffic(w, rule, destination)
<1>0. rule.ports \subseteq PortSpec
  BY DEF Rule
<1>1. CASE rule.noPorts
  BY <1>1 DEF PermissionsForRule, RuleTraffic, Below, Above, Certainly
<1>2. CASE ~rule.noPorts /\ rule.ports = {} /\ rule.tcpOnly
  <2>1. list = {Every(TCP, FALSE)} /\ traffic = {TCP} \X Ports
    BY <1>2 DEF PermissionsForRule, RuleTraffic
  <2>2. TCP \in Protocols
    BY DEF Protocols
  <2>3. /\ WellFormed(Every(TCP, FALSE)) /\ ~Every(TCP, FALSE).unknown
        /\ \A q \in Protocols, n \in Ports : Covers(Every(TCP, FALSE), q, n) <=> q = TCP
    BY <2>2, PortBound DEF WellFormed, Permission, Numeric, Every, Span, Covers
  <2> QED
    BY <2>1, <2>2, <2>3 DEF Below, Above, Certainly, Possibly, AllTraffic
<1>3. CASE ~rule.noPorts /\ rule.ports = {} /\ ~rule.tcpOnly
  <2>1. list = AllPermissions /\ traffic = AllTraffic
    BY <1>3 DEF PermissionsForRule, PermissionsForPorts, RuleTraffic
  <2> QED
    BY <2>1, AllPermissionsAreAll DEF Below, Above, AllTraffic
<1>4. CASE ~rule.noPorts /\ rule.ports # {}
  <2> DEFINE listed == UNION {PermissionsForPort(port, destination) : port \in rule.ports}
  <2>1. list = Canonical(listed)
    BY <1>4 DEF PermissionsForRule, PermissionsForPorts
  <2>2. traffic = UNION {PortTraffic(w, port, destination) : port \in rule.ports}
    BY <1>4 DEF RuleTraffic
  <2>3. \A port \in rule.ports :
          /\ \A p \in PermissionsForPort(port, destination) : WellFormed(p)
          /\ PortTraffic(w, port, destination) \subseteq AllTraffic
          /\ Below(PermissionsForPort(port, destination), PortTraffic(w, port, destination))
          /\ Above(PermissionsForPort(port, destination), PortTraffic(w, port, destination))
    BY <1>0, PortIsBracketed
  <2>4. \A p \in listed : WellFormed(p)
    BY <2>3
  <2>5. listed \in SUBSET Permission
    BY <2>4 DEF WellFormed
  <2>6. \A p \in list : WellFormed(p)
    BY <2>1, <2>4, CanonicalIsWellFormed
  <2>7. traffic \subseteq AllTraffic
    BY <2>2, <2>3
  <2>8. Below(listed, traffic)
    BY <2>2, <2>3 DEF Below, Certainly
  <2>9. Above(listed, traffic)
    BY <2>2, <2>3 DEF Above, Possibly
  <2>10. Below(list, traffic) /\ Above(list, traffic)
    <3> HIDE DEF listed, traffic
    <3> QED
      BY <2>1, <2>5, <2>8, <2>9, CanonicalIsExact DEF Below, Above
  <2> QED
    BY <2>6, <2>7, <2>10
<1> QED
  BY <1>1, <1>2, <1>3, <1>4

-----------------------------------------------------------------------------
LEMMA PermissionIsFinite == IsFiniteSet(Permission)
<1> DEFINE names == Names \union {NoName}
           tuples == (((Protocols \X Ports) \X Ports) \X names) \X BOOLEAN
           f == [t \in tuples |->
                   [protocol |-> t[1][1][1][1], lo |-> t[1][1][1][2], hi |-> t[1][1][2],
                    name |-> t[1][2], unknown |-> t[2]]]
<1>1. IsFiniteSet(Protocols) /\ IsFiniteSet(names) /\ IsFiniteSet(BOOLEAN)
  <2>1. IsFiniteSet({TCP}) /\ IsFiniteSet({NoName}) /\ IsFiniteSet({TRUE}) /\ IsFiniteSet({FALSE})
    BY FS_Singleton
  <2>2. IsFiniteSet({TRUE} \union {FALSE})
    BY <2>1, FS_Union
  <2>3. {TRUE} \union {FALSE} = BOOLEAN
    OBVIOUS
  <2>4. IsFiniteSet({TCP} \union OtherProtocols)
    BY <2>1, PortAssumption, FS_Union
  <2>5. IsFiniteSet(Names \union {NoName})
    BY <2>1, PortAssumption, FS_Union
  <2> QED
    BY <2>2, <2>3, <2>4, <2>5 DEF Protocols
<1>2. IsFiniteSet(Ports)
  BY PortBound, FS_Interval
<1>3. IsFiniteSet(tuples)
  <2> HIDE DEF names
  <2>1. IsFiniteSet(Protocols \X Ports)
    BY <1>1, <1>2, FS_Product
  <2>2. IsFiniteSet((Protocols \X Ports) \X Ports)
    BY <1>2, <2>1, FS_Product
  <2>3. IsFiniteSet(((Protocols \X Ports) \X Ports) \X names)
    BY <1>1, <2>2, FS_Product
  <2> QED
    BY <1>1, <2>3, FS_Product
<1>4. \A p \in Permission : \E t \in tuples : f[t] = p
  <2> TAKE p \in Permission
  <2> DEFINE t == <<<<<<<<p.protocol, p.lo>>, p.hi>>, p.name>>, p.unknown>>
  <2>1. t \in tuples
    BY DEF Permission
  <2>2. f[t] = p
    <3>1. f[t] = [protocol |-> p.protocol, lo |-> p.lo, hi |-> p.hi, name |-> p.name, unknown |-> p.unknown]
      BY <2>1
    <3> QED
      BY <3>1 DEF Permission
  <2> QED
    BY <2>1, <2>2
<1>5. f \in [tuples -> Permission]
  BY DEF Permission
<1>6. f \in Surjection(tuples, Permission)
  <2> HIDE DEF f, tuples
  <2> QED
    BY <1>4, <1>5 DEF Surjection
<1> QED
  <2> HIDE DEF f, tuples
  <2> QED
    BY <1>3, <1>6, FS_Surjection

(* What is left of what is granted when what is denied is taken away.      *)
LEMMA RemainingIsExact ==
    ASSUME NEW isolated \in BOOLEAN, NEW found, \A e \in found : \A p \in e.ports : WellFormed(p)
    PROVE  LET left == RemainingPermissions(isolated, found)
           IN  /\ \A p \in left : WellFormed(p)
               /\ \A q \in Protocols, n \in Ports :
                    /\ Certainly(left, q, n) <=>
                         /\ ~isolated \/ \E e \in found : e.action = "allow" /\ Certainly(e.ports, q, n)
                         /\ ~\E e \in found : e.action = "deny" /\ Possibly(e.ports, q, n)
                    /\ Possibly(left, q, n) <=>
                         /\ ~isolated \/ \E e \in found : e.action = "allow" /\ Possibly(e.ports, q, n)
                         /\ ~\E e \in found : e.action = "deny" /\ Certainly(e.ports, q, n)
<1> DEFINE granted(action) == UNION {e.ports : e \in {f \in found : f.action = action}}
           open == IF isolated THEN {} ELSE AllPermissions
           allowed == open \union granted("allow")
           denied == granted("deny")
           left == RemainingPermissions(isolated, found)
<1>1. left = SubtractPermissions(Canonical(allowed), Canonical(denied))
  BY DEF RemainingPermissions
<1>2. \A q \in Protocols, n \in Ports :
        /\ Certainly(allowed, q, n) <=> ~isolated \/ \E e \in found : e.action = "allow" /\ Certainly(e.ports, q, n)
        /\ Possibly(allowed, q, n) <=> ~isolated \/ \E e \in found : e.action = "allow" /\ Possibly(e.ports, q, n)
  BY AllPermissionsAreAll DEF Certainly, Possibly
<1>3. \A q \in Protocols, n \in Ports :
        /\ Certainly(denied, q, n) <=> \E e \in found : e.action = "deny" /\ Certainly(e.ports, q, n)
        /\ Possibly(denied, q, n) <=> \E e \in found : e.action = "deny" /\ Possibly(e.ports, q, n)
  BY DEF Certainly, Possibly
<1>4. (\A p \in allowed : WellFormed(p)) /\ (\A p \in denied : WellFormed(p))
  BY AllPermissionsAreAll
<1> HIDE DEF allowed, denied
<1>5. allowed \in SUBSET Permission /\ denied \in SUBSET Permission
  BY <1>4 DEF WellFormed
<1>6. (\A p \in Canonical(allowed) : WellFormed(p)) /\ (\A p \in Canonical(denied) : WellFormed(p))
  BY <1>4, CanonicalIsWellFormed
<1>7. Canonical(denied) \in SUBSET Permission
  BY <1>6 DEF WellFormed
<1>8. IsFiniteSet(Canonical(denied))
  BY <1>7, PermissionIsFinite, FS_Subset
<1>9. /\ \A p \in left : WellFormed(p)
      /\ \A q \in Protocols, n \in Ports :
           /\ Certainly(left, q, n) <=> Certainly(Canonical(allowed), q, n) /\ ~Possibly(Canonical(denied), q, n)
           /\ Possibly(left, q, n) <=> Possibly(Canonical(allowed), q, n) /\ ~Certainly(Canonical(denied), q, n)
  BY <1>1, <1>6, <1>8, SubtractPermissionsIsExact
<1> QED
  BY <1>2, <1>3, <1>5, <1>9, CanonicalIsExact

-----------------------------------------------------------------------------
(* The decision of a layer in terms of the rules of the policies it        *)
(* selected.                                                               *)
Snapshot(x) == \A n \in DOMAIN x.policies : x.policies[n] \in Policy

RulesIn(x, names, direction) ==
    UNION {{x.policies[n].rules[direction][i] : i \in DOMAIN x.policies[n].rules[direction]} : n \in names}

LEMMA RulesInIs ==
    ASSUME NEW x, Snapshot(x), NEW names \in SUBSET DOMAIN x.policies, NEW direction \in Directions
    PROVE  /\ RulesIn(x, names, direction) \subseteq Rule
           /\ \A id \in RulesOf(x, names, direction) : RuleAt(x, id) \in RulesIn(x, names, direction)
           /\ \A r \in RulesIn(x, names, direction) : \E id \in RulesOf(x, names, direction) : r = RuleAt(x, id)
<1>1. \A n \in names : x.policies[n].rules[direction] \in Seq(Rule)
  BY DEF Snapshot, Policy
<1>2. \A r \in RulesIn(x, names, direction) : \E n \in names : \E i \in DOMAIN x.policies[n].rules[direction] :
        r = x.policies[n].rules[direction][i]
  BY DEF RulesIn
<1>3. RulesIn(x, names, direction) \subseteq Rule
  BY <1>1, <1>2
<1>4. \A id \in RulesOf(x, names, direction) : \E n \in names : \E i \in DOMAIN x.policies[n].rules[direction] :
        id = RuleId(n, direction, i)
  BY DEF RulesOf
<1>5. \A n \in names : \A i \in DOMAIN x.policies[n].rules[direction] :
        /\ RuleAt(x, RuleId(n, direction, i)) = x.policies[n].rules[direction][i]
        /\ RuleId(n, direction, i) \in RulesOf(x, names, direction)
        /\ x.policies[n].rules[direction][i] \in RulesIn(x, names, direction)
  BY DEF RuleAt, RuleId, RulesOf, RulesIn
<1> QED
  BY <1>2, <1>3, <1>4, <1>5

LEMMA SelectionWithin ==
    ASSUME NEW x, NEW pod, NEW direction, NEW layer
    PROVE  /\ Selection(x, pod, direction, layer).policies \subseteq DOMAIN x.policies
           /\ Selection(x, pod, direction, layer).isolated \in BOOLEAN
BY DEF Selection, Selecting, InReach

LEMMA LayerIs ==
    ASSUME NEW x, Snapshot(x), NEW layer, NEW direction \in Directions, NEW pod,
           NEW destination \in Destinations, NEW w \in Worlds(destination), NEW m
    PROVE  LET selection == Selection(x, pod, direction, layer)
               rules == RulesIn(x, selection.policies, direction)
               decision == EvaluatePolicyLayer(x, layer, direction, pod, destination, m)
               left == decision.permissions
               ports(r) == PermissionsForRule(r, destination)
           IN  /\ rules \subseteq Rule
               /\ \A p \in left : WellFormed(p)
               /\ \A q \in Protocols, n \in Ports :
                    /\ Certainly(left, q, n) <=>
                         /\ ~selection.isolated
                            \/ \E r \in rules : r.action = "allow" /\ Matched(m, r) /\ Certainly(ports(r), q, n)
                         /\ ~\E r \in rules : r.action = "deny" /\ Matched(m, r) /\ Possibly(ports(r), q, n)
                    /\ Possibly(left, q, n) <=>
                         /\ ~selection.isolated
                            \/ \E r \in rules : r.action = "allow" /\ Matched(m, r) /\ Possibly(ports(r), q, n)
                         /\ ~\E r \in rules : r.action = "deny" /\ Matched(m, r) /\ Certainly(ports(r), q, n)
               /\ ~decision.uncertain =>
                    /\ ~selection.uncertain
                    /\ ~PeerUncertainty(x, m, pod, direction, layer)
                    /\ \A r \in rules : ~MatchUncertain(m, r) /\ ~(r.uncertain /\ CouldMatch(m, r))
<1> DEFINE selection == Selection(x, pod, direction, layer)
           rules == RulesIn(x, selection.policies, direction)
           ids == RulesOf(x, selection.policies, direction)
           decision == EvaluatePolicyLayer(x, layer, direction, pod, destination, m)
           found == {EvidenceFor(x, id, destination) : id \in {r \in ids : Matched(m, RuleAt(x, r))}}
           ports(r) == PermissionsForRule(r, destination)
<1>1. selection.policies \in SUBSET DOMAIN x.policies /\ selection.isolated \in BOOLEAN
  BY SelectionWithin
<1>2. /\ rules \subseteq Rule
      /\ \A id \in ids : RuleAt(x, id) \in rules
      /\ \A r \in rules : \E id \in ids : r = RuleAt(x, id)
  <2> HIDE DEF selection
  <2> QED
    BY <1>1, RulesInIs
<1>3. decision.permissions = RemainingPermissions(selection.isolated, found)
  BY DEF EvaluatePolicyLayer, LayerDecision
<1>4. /\ \A e \in found : \E r \in rules : Matched(m, r) /\ e.action = r.action /\ e.ports = ports(r)
      /\ \A r \in rules : Matched(m, r) => \E e \in found : e.action = r.action /\ e.ports = ports(r)
  <2>1. \A e \in found : \E id \in ids : Matched(m, RuleAt(x, id)) /\ e = EvidenceFor(x, id, destination)
    OBVIOUS
  <2>2. \A id \in ids : Matched(m, RuleAt(x, id)) => EvidenceFor(x, id, destination) \in found
    OBVIOUS
  <2>3. \A id : /\ EvidenceFor(x, id, destination).action = RuleAt(x, id).action
               /\ EvidenceFor(x, id, destination).ports = ports(RuleAt(x, id))
    BY DEF EvidenceFor, Evidence
  <2> HIDE DEF found, ids, rules, ports
  <2> QED
    BY <1>2, <2>1, <2>2, <2>3
<1>5. \A r \in rules : Matched(m, r) => \A p \in ports(r) : WellFormed(p)
  <2> TAKE r \in rules
  <2> SUFFICES ASSUME Matched(m, r) PROVE \A p \in ports(r) : WellFormed(p)
    OBVIOUS
  <2>1. ~r.matchNone
    BY DEF Matched, MatchesWhole, DeniesPart, Enabled
  <2>2. r \in Rule
    BY <1>2
  <2> QED
    BY <2>1, <2>2, RuleIsBracketed
<1>6. ~decision.uncertain =>
        /\ ~selection.uncertain
        /\ ~PeerUncertainty(x, m, pod, direction, layer)
        /\ \A r \in rules : ~MatchUncertain(m, r) /\ ~(r.uncertain /\ CouldMatch(m, r))
  <2>1. decision.uncertain =
          (\/ selection.uncertain
           \/ PeerUncertainty(x, m, pod, direction, layer)
           \/ \E r \in ids : \/ RuleAt(x, r).uncertain /\ CouldMatch(m, RuleAt(x, r))
                             \/ MatchUncertain(m, RuleAt(x, r)))
    BY DEF EvaluatePolicyLayer, LayerDecision
  <2> HIDE DEF decision, selection, ids, rules
  <2> QED
    BY <1>2, <2>1
<1>7. \A e \in found : \A p \in e.ports : WellFormed(p)
  <2> HIDE DEF found, rules, ports
  <2> QED
    BY <1>4, <1>5
<1> HIDE DEF found, ports
<1>8. LET left == RemainingPermissions(selection.isolated, found)
      IN  /\ \A p \in left : WellFormed(p)
          /\ \A q \in Protocols, n \in Ports :
               /\ Certainly(left, q, n) <=>
                    /\ ~selection.isolated \/ \E e \in found : e.action = "allow" /\ Certainly(e.ports, q, n)
                    /\ ~\E e \in found : e.action = "deny" /\ Possibly(e.ports, q, n)
               /\ Possibly(left, q, n) <=>
                    /\ ~selection.isolated \/ \E e \in found : e.action = "allow" /\ Possibly(e.ports, q, n)
                    /\ ~\E e \in found : e.action = "deny" /\ Certainly(e.ports, q, n)
  <2> HIDE DEF selection
  <2> QED
    BY <1>1, <1>7, RemainingIsExact
<1>9. \A q, n, action :
        /\ (\E e \in found : e.action = action /\ Certainly(e.ports, q, n)) <=>
              \E r \in rules : r.action = action /\ Matched(m, r) /\ Certainly(ports(r), q, n)
        /\ (\E e \in found : e.action = action /\ Possibly(e.ports, q, n)) <=>
              \E r \in rules : r.action = action /\ Matched(m, r) /\ Possibly(ports(r), q, n)
  <2> HIDE DEF rules
  <2> QED
    BY <1>4
<1> SUFFICES
      /\ rules \subseteq Rule
      /\ \A p \in decision.permissions : WellFormed(p)
      /\ \A q \in Protocols, n \in Ports :
           /\ Certainly(decision.permissions, q, n) <=>
                /\ ~selection.isolated
                   \/ \E r \in rules : r.action = "allow" /\ Matched(m, r) /\ Certainly(ports(r), q, n)
                /\ ~\E r \in rules : r.action = "deny" /\ Matched(m, r) /\ Possibly(ports(r), q, n)
           /\ Possibly(decision.permissions, q, n) <=>
                /\ ~selection.isolated
                   \/ \E r \in rules : r.action = "allow" /\ Matched(m, r) /\ Possibly(ports(r), q, n)
                /\ ~\E r \in rules : r.action = "deny" /\ Matched(m, r) /\ Certainly(ports(r), q, n)
      /\ ~decision.uncertain =>
           /\ ~selection.uncertain
           /\ ~PeerUncertainty(x, m, pod, direction, layer)
           /\ \A r \in rules : ~MatchUncertain(m, r) /\ ~(r.uncertain /\ CouldMatch(m, r))
  BY DEF ports
<1> HIDE DEF rules, decision, selection
<1>10. /\ \A p \in decision.permissions : WellFormed(p)
       /\ \A q \in Protocols, n \in Ports :
            /\ Certainly(decision.permissions, q, n) <=>
                 /\ ~selection.isolated \/ \E e \in found : e.action = "allow" /\ Certainly(e.ports, q, n)
                 /\ ~\E e \in found : e.action = "deny" /\ Possibly(e.ports, q, n)
            /\ Possibly(decision.permissions, q, n) <=>
                 /\ ~selection.isolated \/ \E e \in found : e.action = "allow" /\ Possibly(e.ports, q, n)
                 /\ ~\E e \in found : e.action = "deny" /\ Certainly(e.ports, q, n)
  BY <1>3, <1>8
<1>11. \A q \in Protocols, n \in Ports :
         /\ Certainly(decision.permissions, q, n) <=>
              /\ ~selection.isolated
                 \/ \E r \in rules : r.action = "allow" /\ Matched(m, r) /\ Certainly(ports(r), q, n)
              /\ ~\E r \in rules : r.action = "deny" /\ Matched(m, r) /\ Possibly(ports(r), q, n)
         /\ Possibly(decision.permissions, q, n) <=>
              /\ ~selection.isolated
                 \/ \E r \in rules : r.action = "allow" /\ Matched(m, r) /\ Possibly(ports(r), q, n)
              /\ ~\E r \in rules : r.action = "deny" /\ Matched(m, r) /\ Certainly(ports(r), q, n)
  <2> TAKE q \in Protocols, n \in Ports
  <2>1. /\ (\E e \in found : e.action = "allow" /\ Certainly(e.ports, q, n)) <=>
              \E r \in rules : r.action = "allow" /\ Matched(m, r) /\ Certainly(ports(r), q, n)
        /\ (\E e \in found : e.action = "allow" /\ Possibly(e.ports, q, n)) <=>
              \E r \in rules : r.action = "allow" /\ Matched(m, r) /\ Possibly(ports(r), q, n)
    BY <1>9
  <2>2. /\ (\E e \in found : e.action = "deny" /\ Certainly(e.ports, q, n)) <=>
              \E r \in rules : r.action = "deny" /\ Matched(m, r) /\ Certainly(ports(r), q, n)
        /\ (\E e \in found : e.action = "deny" /\ Possibly(e.ports, q, n)) <=>
              \E r \in rules : r.action = "deny" /\ Matched(m, r) /\ Possibly(ports(r), q, n)
    BY <1>9
  <2>3. /\ Certainly(decision.permissions, q, n) <=>
             /\ ~selection.isolated \/ \E e \in found : e.action = "allow" /\ Certainly(e.ports, q, n)
             /\ ~\E e \in found : e.action = "deny" /\ Possibly(e.ports, q, n)
        /\ Possibly(decision.permissions, q, n) <=>
             /\ ~selection.isolated \/ \E e \in found : e.action = "allow" /\ Possibly(e.ports, q, n)
             /\ ~\E e \in found : e.action = "deny" /\ Certainly(e.ports, q, n)
    BY <1>10
  <2> QED
    BY <2>1, <2>2, <2>3
<1> QED
  BY <1>2, <1>6, <1>10, <1>11

-----------------------------------------------------------------------------
(* What the policies let through, in the same terms.                       *)
Enforced(x, pod, direction, layer) ==
    {n \in {n \in InReach(x, pod, direction, layer) : pod \in x.policies[n].selects} :
        x.policies[n].state = "enforced"}

Vague(x, pod, direction, layer) ==
    {n \in {n \in InReach(x, pod, direction, layer) : pod \in x.policies[n].selects} :
        x.policies[n].state = "effectUnknown"}
    \union {n \in InReach(x, pod, direction, layer) : x.policies[n].state = "selectionUnknown"}

Isolates(x, names, direction) == \E n \in names : direction \in x.policies[n].isolates

HostRules(x, pod, direction, layer, other) ==
    /\ layer = "network"
    /\ \/ pod \in HostNetwork /\ (CiliumSelects(x, pod, direction) \/ CiliumHostPolicies(x))
       \/ other.kind = "pod" /\ other.pod \in HostNetwork /\ CiliumSelects(x, pod, direction)

Applies(w, r, action, other) ==
    r.action = action /\ ~r.uncertain /\ ~r.disabled /\ Meets(w, r, other)
Doubtful(w, r, action, other) ==
    r.action = action /\ r.uncertain /\ (r.uncertainPeers \/ Meets(w, r, other))

(* A world for which a certain selection leaves the policies no effect.    *)
LEMMA NoEffectOutside ==
    ASSUME NEW x, NEW pod \in Pods, NEW direction, NEW layer, NEW destination,
           NEW w \in Worlds(destination), layer = "authorization", pod \notin w.enrolled,
           ~Selection(x, pod, direction, layer).uncertain
    PROVE  /\ Selection(x, pod, direction, layer).policies = {}
           /\ ~Selection(x, pod, direction, layer).isolated
<1>1. Mesh[pod] # "enrolled"
  BY DEF Worlds, Enrolments
<1>2. CASE Mesh[pod] = "outside"
  BY <1>2 DEF Selection
<1>3. CASE Mesh[pod] = "unknown"
  <2>1. Selecting(x, pod, direction, layer) = {}
    BY <1>3 DEF Selection
  <2> QED
    BY <2>1 DEF Selection
<1> QED
  BY <1>1, <1>2, <1>3, SelectionAssumption

LEMMA CertainSelection ==
    ASSUME NEW x, NEW pod, NEW direction, NEW layer, layer = "network" \/ Mesh[pod] # "outside",
           ~Selection(x, pod, direction, layer).uncertain
    PROVE  LET enforced == Enforced(x, pod, direction, layer)
           IN  /\ Selection(x, pod, direction, layer).policies = enforced
               /\ Selection(x, pod, direction, layer).isolated <=> Isolates(x, enforced, direction)
               /\ Vague(x, pod, direction, layer) = {}
               /\ layer = "network" =>
                    ~(pod \in HostNetwork /\ (CiliumSelects(x, pod, direction) \/ CiliumHostPolicies(x)))
<1> DEFINE reach == InReach(x, pod, direction, layer)
           vague == {n \in reach : x.policies[n].state = "selectionUnknown"}
           selecting == Selecting(x, pod, direction, layer)
           unknown == {n \in selecting : x.policies[n].state = "effectUnknown"}
           selection == Selection(x, pod, direction, layer)
<1>1. /\ selection.policies = selecting \ unknown
      /\ selection.isolated <=> \E n \in selecting \ unknown : direction \in x.policies[n].isolates
      /\ vague = {} /\ unknown = {}
      /\ layer = "network" =>
           ~(pod \in HostNetwork /\ (CiliumSelects(x, pod, direction) \/ CiliumHostPolicies(x)))
  BY DEF Selection
<1>2. selecting \ unknown = Enforced(x, pod, direction, layer)
  BY DEF Selecting, Enforced
<1>3. Vague(x, pod, direction, layer) = vague \union unknown
  BY DEF Selecting, Vague
<1> HIDE DEF selecting, unknown, vague, selection
<1> QED
  BY <1>1, <1>2, <1>3 DEF Isolates, selection

LEMMA LayerTrafficIs ==
    ASSUME NEW w, NEW x, NEW layer, NEW direction, NEW pod, NEW destination, NEW other,
           Vague(x, pod, direction, layer) = {}, ~HostRules(x, pod, direction, layer, other),
           layer = "authorization" => pod \in w.enrolled,
           w.effect \in {"allow", "deny"}
    PROVE  LET enforced == Enforced(x, pod, direction, layer)
               rules == RulesIn(x, enforced, direction)
               granted(t) ==
                   IF Isolates(x, enforced, direction)
                   THEN \E r \in rules : Applies(w, r, "allow", other) /\ t \in RuleTraffic(w, r, destination)
                   ELSE t \in AllTraffic
               denied(t) == \E r \in rules : Applies(w, r, "deny", other) /\ t \in RuleTraffic(w, r, destination)
               traffic == LayerTraffic(w, x, layer, direction, pod, destination, other)
           IN  /\ w.effect = "allow" => \A t : t \in traffic <=>
                    /\ granted(t) \/ (t \in AllTraffic /\ \E r \in rules : Doubtful(w, r, "allow", other))
                    /\ ~denied(t)
               /\ w.effect = "deny" => \A t : t \in traffic <=>
                    /\ granted(t)
                    /\ ~denied(t) /\ ~(t \in AllTraffic /\ \E r \in rules : Doubtful(w, r, "deny", other))
<1> DEFINE enforced == Enforced(x, pod, direction, layer)
           rules == RulesIn(x, enforced, direction)
           plain(action) == UNION {RuleTraffic(w, r, destination) :
             r \in {s \in rules : s.action = action /\ ~s.uncertain /\ ~s.disabled /\ Meets(w, s, other)}}
           doubtful(action) ==
             IF \E r \in rules : /\ r.action = action /\ r.uncertain
                                 /\ r.uncertainPeers \/ Meets(w, r, other)
             THEN AllTraffic ELSE {}
           isolated == \E n \in enforced : direction \in x.policies[n].isolates
           hostRules == HostRules(x, pod, direction, layer, other)
           traffic == LayerTraffic(w, x, layer, direction, pod, destination, other)
           denied(t) == \E r \in rules : Applies(w, r, "deny", other) /\ t \in RuleTraffic(w, r, destination)
           granted(t) ==
             IF Isolates(x, enforced, direction)
             THEN \E r \in rules : Applies(w, r, "allow", other) /\ t \in RuleTraffic(w, r, destination)
             ELSE t \in AllTraffic
<1>1. traffic =
        IF layer = "authorization" /\ pod \notin w.enrolled THEN AllTraffic
        ELSE IF w.effect = "allow"
        THEN IF hostRules THEN AllTraffic
             ELSE (IF isolated /\ Vague(x, pod, direction, layer) = {}
                   THEN plain("allow") \union doubtful("allow") ELSE AllTraffic)
                  \ plain("deny")
        ELSE IF hostRules \/ Vague(x, pod, direction, layer) # {} THEN {}
        ELSE (IF isolated THEN plain("allow") ELSE AllTraffic) \ (plain("deny") \union doubtful("deny"))
  BY DEF LayerTraffic, Enforced, Vague, RulesIn, HostRules
<1>2. traffic = IF w.effect = "allow"
                THEN (IF isolated THEN plain("allow") \union doubtful("allow") ELSE AllTraffic) \ plain("deny")
                ELSE (IF isolated THEN plain("allow") ELSE AllTraffic) \ (plain("deny") \union doubtful("deny"))
  <2> HIDE DEF plain, doubtful, isolated, traffic
  <2> QED
    BY <1>1
<1>3. \A t, action : t \in plain(action) <=>
        \E r \in rules : Applies(w, r, action, other) /\ t \in RuleTraffic(w, r, destination)
  BY DEF Applies
<1>4. \A t, action : t \in doubtful(action) <=> t \in AllTraffic /\ \E r \in rules : Doubtful(w, r, action, other)
  BY DEF Doubtful
<1>5. isolated <=> Isolates(x, enforced, direction)
  BY DEF Isolates
<1> HIDE DEF plain, doubtful, isolated, traffic
<1>6. ASSUME w.effect = "allow", NEW t
      PROVE  t \in traffic <=>
               /\ granted(t) \/ (t \in AllTraffic /\ \E r \in rules : Doubtful(w, r, "allow", other))
               /\ ~denied(t)
  <2>1. t \in plain("deny") <=> denied(t)
    BY <1>3
  <2>2. (IF isolated THEN t \in plain("allow") ELSE t \in AllTraffic) <=> granted(t)
    BY <1>3, <1>5
  <2>3. t \in doubtful("allow") <=> t \in AllTraffic /\ \E r \in rules : Doubtful(w, r, "allow", other)
    BY <1>4
  <2>4. t \in traffic <=>
          (IF isolated THEN t \in plain("allow") \/ t \in doubtful("allow") ELSE t \in AllTraffic) /\ t \notin plain("deny")
    BY <1>2, <1>6
  <2> HIDE DEF denied, granted, rules
  <2>5. t \in doubtful("allow") => t \in AllTraffic
    BY <2>3
  <2>6. ~isolated => (granted(t) <=> t \in AllTraffic)
    BY <2>2
  <2>7. isolated => (granted(t) <=> t \in plain("allow"))
    BY <2>2
  <2> QED
    BY <2>1, <2>3, <2>4, <2>5, <2>6, <2>7
<1>7. ASSUME w.effect = "deny", NEW t
      PROVE  t \in traffic <=>
               /\ granted(t)
               /\ ~denied(t) /\ ~(t \in AllTraffic /\ \E r \in rules : Doubtful(w, r, "deny", other))
  <2>1. t \in plain("deny") <=> denied(t)
    BY <1>3
  <2>2. (IF isolated THEN t \in plain("allow") ELSE t \in AllTraffic) <=> granted(t)
    BY <1>3, <1>5
  <2>3. t \in doubtful("deny") <=> t \in AllTraffic /\ \E r \in rules : Doubtful(w, r, "deny", other)
    BY <1>4
  <2>4. t \in traffic <=>
          (IF isolated THEN t \in plain("allow") ELSE t \in AllTraffic) /\ t \notin plain("deny") /\ t \notin doubtful("deny")
    BY <1>2, <1>7
  <2> HIDE DEF denied, granted, rules
  <2> QED
    BY <2>1, <2>2, <2>3, <2>4
<1> SUFFICES
      /\ w.effect = "allow" => \A t : t \in traffic <=>
           /\ granted(t) \/ (t \in AllTraffic /\ \E r \in rules : Doubtful(w, r, "allow", other))
           /\ ~denied(t)
      /\ w.effect = "deny" => \A t : t \in traffic <=>
           /\ granted(t)
           /\ ~denied(t) /\ ~(t \in AllTraffic /\ \E r \in rules : Doubtful(w, r, "deny", other))
  BY DEF traffic
<1> HIDE DEF denied, granted, rules
<1> QED
  BY <1>6, <1>7

-----------------------------------------------------------------------------
(* How the rules that a matcher settles stand to the other side: those it  *)
(* matches bound from below what gets through, or from above.              *)
Settled(m, r) == ~MatchUncertain(m, r) /\ ~(r.uncertain /\ CouldMatch(m, r))

MatchesBelow(w, m, other) ==
    \A r \in Rule : Settled(m, r) =>
        /\ r.action = "allow" /\ Matched(m, r) => Applies(w, r, "allow", other)
        /\ Applies(w, r, "deny", other) => Matched(m, r)
        /\ ~Doubtful(w, r, "deny", other)

MatchesAbove(w, m, other) ==
    \A r \in Rule : Settled(m, r) =>
        /\ Applies(w, r, "allow", other) => Matched(m, r)
        /\ r.action = "deny" /\ Matched(m, r) => Applies(w, r, "deny", other)
        /\ ~Doubtful(w, r, "allow", other)

(* A decision without uncertainty, and the policies of its layer.          *)
LEMMA LayerIsBracketed ==
    ASSUME NEW x, Snapshot(x), NEW layer \in Layers, NEW direction \in Directions, NEW pod \in Pods,
           NEW destination \in Destinations, NEW w \in Worlds(destination), NEW m, NEW other,
           other.kind = "pod" => m.kind = "pod" /\ m.pod = other.pod,
           ~EvaluatePolicyLayer(x, layer, direction, pod, destination, m).uncertain
    PROVE  LET list == EvaluatePolicyLayer(x, layer, direction, pod, destination, m).permissions
               traffic == LayerTraffic(w, x, layer, direction, pod, destination, other)
           IN  /\ \A p \in list : WellFormed(p)
               /\ traffic \subseteq AllTraffic
               /\ MatchesBelow(w, m, other) => Below(list, traffic)
               /\ MatchesAbove(w, m, other) => Above(list, traffic)
<1> DEFINE selection == Selection(x, pod, direction, layer)
           selected == RulesIn(x, selection.policies, direction)
           enforced == Enforced(x, pod, direction, layer)
           rules == RulesIn(x, enforced, direction)
           isolated == Isolates(x, enforced, direction)
           list == EvaluatePolicyLayer(x, layer, direction, pod, destination, m).permissions
           traffic == LayerTraffic(w, x, layer, direction, pod, destination, other)
           ports(r) == PermissionsForRule(r, destination)
<1>1. /\ selected \subseteq Rule
      /\ \A p \in list : WellFormed(p)
      /\ \A q \in Protocols, n \in Ports :
           /\ Certainly(list, q, n) <=>
                /\ ~selection.isolated
                   \/ \E r \in selected : r.action = "allow" /\ Matched(m, r) /\ Certainly(ports(r), q, n)
                /\ ~\E r \in selected : r.action = "deny" /\ Matched(m, r) /\ Possibly(ports(r), q, n)
           /\ Possibly(list, q, n) <=>
                /\ ~selection.isolated
                   \/ \E r \in selected : r.action = "allow" /\ Matched(m, r) /\ Possibly(ports(r), q, n)
                /\ ~\E r \in selected : r.action = "deny" /\ Matched(m, r) /\ Certainly(ports(r), q, n)
      /\ ~selection.uncertain
      /\ ~PeerUncertainty(x, m, pod, direction, layer)
      /\ \A r \in selected : Settled(m, r)
  BY LayerIs DEF Settled
<1>2. CASE layer = "authorization" /\ pod \notin w.enrolled
  <2>1. selection.policies = {} /\ ~selection.isolated
    BY <1>1, <1>2, NoEffectOutside
  <2>2. selected = {}
    BY <2>1 DEF RulesIn
  <2>3. \A q \in Protocols, n \in Ports : Possibly(list, q, n)
    <3> HIDE DEF list, selected, selection
    <3> QED
      BY <1>1, <2>1, <2>2
  <2>4. traffic = AllTraffic
    BY <1>2 DEF LayerTraffic
  <2> HIDE DEF list, traffic
  <2> QED
    BY <1>1, <2>3, <2>4 DEF Below, Above, AllTraffic, list, traffic
<1>3. CASE ~(layer = "authorization" /\ pod \notin w.enrolled)
  <2>1. layer = "network" \/ Mesh[pod] # "outside"
    BY <1>3 DEF Worlds, Enrolments, Layers
  <2>2. /\ selection.policies = enforced
        /\ selection.isolated <=> isolated
        /\ Vague(x, pod, direction, layer) = {}
        /\ layer = "network" =>
             ~(pod \in HostNetwork /\ (CiliumSelects(x, pod, direction) \/ CiliumHostPolicies(x)))
    BY <1>1, <2>1, CertainSelection
  <2>3. ~HostRules(x, pod, direction, layer, other)
    BY <1>1, <2>2 DEF HostRules, PeerUncertainty
  <2>4. w.effect \in {"allow", "deny"}
    BY DEF Worlds
  <2> DEFINE granted(t) ==
               IF isolated
               THEN \E r \in rules : Applies(w, r, "allow", other) /\ t \in RuleTraffic(w, r, destination)
               ELSE t \in AllTraffic
             denied(t) == \E r \in rules : Applies(w, r, "deny", other) /\ t \in RuleTraffic(w, r, destination)
  <2>5. /\ w.effect = "allow" => \A t : t \in traffic <=>
             /\ granted(t) \/ (t \in AllTraffic /\ \E r \in rules : Doubtful(w, r, "allow", other))
             /\ ~denied(t)
        /\ w.effect = "deny" => \A t : t \in traffic <=>
             /\ granted(t)
             /\ ~denied(t) /\ ~(t \in AllTraffic /\ \E r \in rules : Doubtful(w, r, "deny", other))
    BY <1>3, <2>2, <2>3, <2>4, LayerTrafficIs
  <2>6. selected = rules
    BY <2>2
  <2>7. /\ \A r \in rules : r \in Rule /\ Settled(m, r)
        /\ \A q \in Protocols, n \in Ports :
             /\ Certainly(list, q, n) <=>
                  /\ ~isolated
                     \/ \E r \in rules : r.action = "allow" /\ Matched(m, r) /\ Certainly(ports(r), q, n)
                  /\ ~\E r \in rules : r.action = "deny" /\ Matched(m, r) /\ Possibly(ports(r), q, n)
             /\ Possibly(list, q, n) <=>
                  /\ ~isolated
                     \/ \E r \in rules : r.action = "allow" /\ Matched(m, r) /\ Possibly(ports(r), q, n)
                  /\ ~\E r \in rules : r.action = "deny" /\ Matched(m, r) /\ Certainly(ports(r), q, n)
    <3> HIDE DEF selection, selected, rules, isolated, list, ports
    <3> QED
      BY <1>1, <2>2, <2>6
  <2>8. \A r \in rules : ~r.matchNone =>
          /\ RuleTraffic(w, r, destination) \subseteq AllTraffic
          /\ \A q \in Protocols, n \in Ports :
               /\ Certainly(ports(r), q, n) => <<q, n>> \in RuleTraffic(w, r, destination)
               /\ <<q, n>> \in RuleTraffic(w, r, destination) => Possibly(ports(r), q, n)
    <3> TAKE r \in rules
    <3> HAVE ~r.matchNone
    <3>1. r \in Rule
      BY <2>7
    <3> QED
      BY <3>1, RuleIsBracketed DEF Below, Above
  <2>9. \A r, action : Applies(w, r, action, other) => ~r.matchNone /\ r.action = action
    BY DEF Applies, Meets
  <2>10. \A r : Matched(m, r) => ~r.matchNone
    BY DEF Matched, MatchesWhole, DeniesPart, Enabled
  <2>11. \A q \in Protocols, n \in Ports : <<q, n>> \in AllTraffic
    BY DEF AllTraffic
  <2> HIDE DEF rules, isolated, list, traffic, ports
  <2>12. \A t : granted(t) => t \in AllTraffic
    BY <2>8, <2>9
  <2>13. traffic \subseteq AllTraffic
    <3> HIDE DEF granted, denied
    <3> QED
      BY <2>4, <2>5, <2>12
  <2>14. ASSUME MatchesBelow(w, m, other), NEW q \in Protocols, NEW n \in Ports, Certainly(list, q, n)
         PROVE  <<q, n>> \in traffic
    <3>1. granted(<<q, n>>)
      <4>1. CASE ~isolated
        BY <2>11, <4>1
      <4>2. CASE isolated
        <5>1. PICK r \in rules : r.action = "allow" /\ Matched(m, r) /\ Certainly(ports(r), q, n)
          BY <2>7, <2>14, <4>2
        <5>2. Applies(w, r, "allow", other)
          BY <2>7, <2>14, <5>1 DEF MatchesBelow
        <5>3. <<q, n>> \in RuleTraffic(w, r, destination)
          BY <2>8, <2>10, <5>1
        <5> QED
          BY <4>2, <5>2, <5>3
      <4> QED
        BY <4>1, <4>2
    <3>2. ~denied(<<q, n>>)
      <4> SUFFICES ASSUME NEW r \in rules, Applies(w, r, "deny", other), <<q, n>> \in RuleTraffic(w, r, destination)
                   PROVE  FALSE
        OBVIOUS
      <4>1. Matched(m, r) /\ r.action = "deny"
        BY <2>7, <2>9, <2>14 DEF MatchesBelow
      <4>2. Possibly(ports(r), q, n)
        BY <2>8, <2>10, <4>1
      <4> QED
        BY <2>7, <2>14, <4>1, <4>2
    <3>3. ~\E r \in rules : Doubtful(w, r, "deny", other)
      BY <2>7, <2>14 DEF MatchesBelow
    <3> HIDE DEF granted, denied
    <3> QED
      BY <2>4, <2>5, <3>1, <3>2, <3>3
  <2>15. ASSUME MatchesAbove(w, m, other), NEW q \in Protocols, NEW n \in Ports, <<q, n>> \in traffic
         PROVE  Possibly(list, q, n)
    <3>1. ~\E r \in rules : Doubtful(w, r, "allow", other)
      BY <2>7, <2>15 DEF MatchesAbove
    <3>2. granted(<<q, n>>) /\ ~denied(<<q, n>>)
      <4> HIDE DEF granted, denied
      <4> QED
        BY <2>4, <2>5, <2>15, <3>1
    <3>3. ~isolated \/ \E r \in rules : r.action = "allow" /\ Matched(m, r) /\ Possibly(ports(r), q, n)
      <4> SUFFICES ASSUME isolated
                   PROVE  \E r \in rules : r.action = "allow" /\ Matched(m, r) /\ Possibly(ports(r), q, n)
        OBVIOUS
      <4>1. PICK r \in rules : Applies(w, r, "allow", other) /\ <<q, n>> \in RuleTraffic(w, r, destination)
        BY <3>2
      <4>2. Matched(m, r) /\ r.action = "allow"
        BY <2>7, <2>9, <2>15, <4>1 DEF MatchesAbove
      <4> QED
        BY <2>8, <2>10, <4>1, <4>2
    <3>4. ~\E r \in rules : r.action = "deny" /\ Matched(m, r) /\ Certainly(ports(r), q, n)
      <4> SUFFICES ASSUME NEW r \in rules, r.action = "deny", Matched(m, r), Certainly(ports(r), q, n)
                   PROVE  FALSE
        OBVIOUS
      <4>1. Applies(w, r, "deny", other)
        BY <2>7, <2>15 DEF MatchesAbove
      <4>2. <<q, n>> \in RuleTraffic(w, r, destination)
        BY <2>8, <2>10
      <4> QED
        BY <3>2, <4>1, <4>2
    <3> HIDE DEF granted, denied
    <3> QED
      BY <2>7, <3>3, <3>4
  <2> QED
    BY <1>1, <2>13, <2>14, <2>15 DEF Below, Above, list, traffic
<1> QED
  BY <1>2, <1>3

Pod(p) == [kind |-> "pod", pod |-> p]

LEMMA PodPeersSettled ==
    ASSUME NEW p \in Pods, NEW peer \in Peer, NEW r, NEW destination, NEW w \in Worlds(destination)
    PROVE  /\ PeerMatchesPod(peer, p) = "yes" => PeerMeets(w, r, peer, Pod(p))
           /\ PeerMeets(w, r, peer, Pod(p)) => PeerMatchesPod(peer, p) # "no"
           /\ PeerMatchesPod(peer, p) \in {"yes", "no", "unknown"}
<1> DEFINE within == /\ p \in peer.pods
                     /\ peer.blocks # {} =>
                          peer.podIPs /\ \E a \in AddressesOf[p], b \in peer.blocks : InBlock(b, a)
           named == p \in w.enrolled /\ p \in peer.identities
<1>1. PeerMatchesPod(peer, p) = IF within THEN IdentityMatch(peer, p) ELSE "no"
  BY DEF PeerMatchesPod
<1>2. PeerMeets(w, r, peer, Pod(p)) <=>
        within /\ (peer.identity = "none" \/ (named <=> (peer.identity = "positive")))
  BY DEF PeerMeets, Pod
<1>3. Mesh[p] \in {"enrolled", "outside", "unknown"}
  BY SelectionAssumption
<1>4. /\ Mesh[p] = "enrolled" => p \in w.enrolled
      /\ Mesh[p] = "outside" => p \notin w.enrolled
  BY DEF Worlds, Enrolments
<1>5. Mesh[p] # "unknown" => (named <=> Mesh[p] = "enrolled" /\ p \in peer.identities)
  BY <1>3, <1>4
<1>6. /\ IdentityMatch(peer, p) = "yes" => peer.identity = "none" \/ (named <=> (peer.identity = "positive"))
      /\ peer.identity = "none" \/ (named <=> (peer.identity = "positive")) => IdentityMatch(peer, p) # "no"
      /\ IdentityMatch(peer, p) \in {"yes", "no", "unknown"}
  <2> HIDE DEF named
  <2> QED
    BY <1>5 DEF IdentityMatch
<1> HIDE DEF within, named
<1> QED
  BY <1>1, <1>2, <1>6

(* The policies that a matcher for a pod settles.                          *)
LEMMA PodMatcherSettles ==
    ASSUME NEW p \in Pods, NEW destination, NEW w \in Worlds(destination)
    PROVE  MatchesBelow(w, PodMatcher(p), Pod(p)) /\ MatchesAbove(w, PodMatcher(p), Pod(p))
<1> DEFINE m == PodMatcher(p)
<1>1. m.kind = "pod" /\ m.pod = p /\ ~(m.kind = "cidr")
  BY DEF PodMatcher
<1> HIDE DEF m
<1>2. ASSUME NEW r \in Rule, Settled(m, r)
      PROVE  /\ Matched(m, r) <=> ~r.uncertain /\ ~r.disabled /\ Meets(w, r, Pod(p))
             /\ ~(r.uncertain /\ (r.uncertainPeers \/ Meets(w, r, Pod(p))))
  <2>1. r.peers \subseteq Peer
    BY DEF Rule
  <2>2. \A peer \in r.peers :
          /\ PeerMatchesPod(peer, p) = "yes" => PeerMeets(w, r, peer, Pod(p))
          /\ PeerMeets(w, r, peer, Pod(p)) => PeerMatchesPod(peer, p) # "no"
          /\ PeerMatchesPod(peer, p) \in {"yes", "no", "unknown"}
    BY <2>1, PodPeersSettled
  <2>3. Matched(m, r) <=>
          Enabled(r) /\ (r.peers = {} \/ \E peer \in r.peers : PeerMatchesPod(peer, p) = "yes")
    BY <1>1 DEF Matched, MatchesWhole, DeniesPart
  <2>4. Meets(w, r, Pod(p)) <=>
          ~r.matchNone /\ (r.peers = {} \/ \E peer \in r.peers : PeerMeets(w, r, peer, Pod(p)))
    BY DEF Meets
  <2>5. Enabled(r) /\ (\E peer \in r.peers : PeerMatchesPod(peer, p) = "unknown") => Matched(m, r)
    BY <1>1, <1>2 DEF Settled, MatchUncertain, Matched
  <2>6. r.uncertain => ~r.uncertainPeers /\ ~(~r.matchNone /\ (r.peers = {} \/ \E peer \in r.peers : PeerMatchesPod(peer, p) # "no"))
    BY <1>1, <1>2 DEF Settled, CouldMatch
  <2> QED
    BY <2>2, <2>3, <2>4, <2>5, <2>6 DEF Enabled
<1> QED
  BY <1>2 DEF MatchesBelow, MatchesAbove, Applies, Doubtful, m

-----------------------------------------------------------------------------
(* The meet of the two layers, for TCP.                                    *)
LEMMA CombinedIsExact ==
    ASSUME NEW network, NEW authorization,
           \A p \in network : WellFormed(p), \A p \in authorization : WellFormed(p)
    PROVE  LET list == CombinedPermissions(network, authorization)
           IN  /\ \A p \in list : WellFormed(p)
               /\ \A q \in Protocols, n \in Ports :
                    /\ Certainly(list, q, n) <=>
                         Certainly(network, q, n) /\ (q = TCP => Certainly(authorization, q, n))
                    /\ Possibly(list, q, n) <=>
                         Possibly(network, q, n) /\ (q = TCP => Possibly(authorization, q, n))
<1> DEFINE tcp == {p \in network : p.protocol = TCP}
           both == IntersectPermissions(tcp, authorization)
           union == (network \ tcp) \union both
           list == CombinedPermissions(network, authorization)
<1>1. list = Canonical(union)
  BY DEF CombinedPermissions
<1>2. \A p \in tcp : WellFormed(p)
  OBVIOUS
<1>3. /\ \A p \in both : WellFormed(p)
      /\ \A q \in Protocols, n \in Ports :
           /\ Certainly(both, q, n) <=> Certainly(tcp, q, n) /\ Certainly(authorization, q, n)
           /\ Possibly(both, q, n) <=> Possibly(tcp, q, n) /\ Possibly(authorization, q, n)
  <2> HIDE DEF tcp
  <2> QED
    BY <1>2, ListsStayWellFormed, IntersectionIsExact
<1> HIDE DEF both
<1>4. \A p \in union : WellFormed(p)
  BY <1>3
<1>5. \A q \in Protocols, n \in Ports :
        /\ Certainly(tcp, q, n) <=> q = TCP /\ Certainly(network, q, n)
        /\ Possibly(tcp, q, n) <=> q = TCP /\ Possibly(network, q, n)
        /\ Certainly(network \ tcp, q, n) <=> q # TCP /\ Certainly(network, q, n)
        /\ Possibly(network \ tcp, q, n) <=> q # TCP /\ Possibly(network, q, n)
  BY DEF Certainly, Possibly, Covers
<1>6. \A q \in Protocols, n \in Ports :
        /\ Certainly(union, q, n) <=> Certainly(network \ tcp, q, n) \/ Certainly(both, q, n)
        /\ Possibly(union, q, n) <=> Possibly(network \ tcp, q, n) \/ Possibly(both, q, n)
  <2> HIDE DEF tcp
  <2> QED
    BY DEF Certainly, Possibly
<1> HIDE DEF union, tcp
<1>7. \A p \in list : WellFormed(p)
  BY <1>1, <1>4, CanonicalIsWellFormed
<1>8. union \in SUBSET Permission
  BY <1>4 DEF WellFormed
<1>9. \A q \in Protocols, n \in Ports :
        /\ Certainly(list, q, n) <=> Certainly(union, q, n)
        /\ Possibly(list, q, n) <=> Possibly(union, q, n)
  BY <1>1, <1>8, CanonicalIsExact
<1>10. \A q \in Protocols, n \in Ports :
         /\ Certainly(list, q, n) <=> Certainly(network, q, n) /\ (q = TCP => Certainly(authorization, q, n))
         /\ Possibly(list, q, n) <=> Possibly(network, q, n) /\ (q = TCP => Possibly(authorization, q, n))
  <2> HIDE DEF list
  <2> QED
    BY <1>3, <1>5, <1>6, <1>9
<1> QED
  BY <1>7, <1>10

LEMMA SideIsBracketed ==
    ASSUME NEW x, Snapshot(x), NEW direction \in Directions, NEW pod \in Pods,
           NEW destination \in Destinations, NEW w \in Worlds(destination), NEW m, NEW other,
           other.kind = "pod" => m.kind = "pod" /\ m.pod = other.pod,
           ~EvaluateLayers(x, direction, pod, destination, m).uncertain
    PROVE  LET list == EvaluateLayers(x, direction, pod, destination, m).permissions
               traffic == SideTraffic(w, x, direction, pod, destination, other)
           IN  /\ \A p \in list : WellFormed(p)
               /\ traffic \subseteq AllTraffic
               /\ MatchesBelow(w, m, other) => Below(list, traffic)
               /\ MatchesAbove(w, m, other) => Above(list, traffic)
<1> DEFINE layer(l) == EvaluatePolicyLayer(x, l, direction, pod, destination, m)
           decision == EvaluateLayers(x, direction, pod, destination, m)
           list == decision.permissions
           of(l) == LayerTraffic(w, x, l, direction, pod, destination, other)
           traffic == SideTraffic(w, x, direction, pod, destination, other)
<1>1. "network" \in Layers /\ "authorization" \in Layers
  BY DEF Layers
<1>2. \A l \in Layers : ~layer(l).uncertain =>
        /\ \A p \in layer(l).permissions : WellFormed(p)
        /\ of(l) \subseteq AllTraffic
        /\ MatchesBelow(w, m, other) => Below(layer(l).permissions, of(l))
        /\ MatchesAbove(w, m, other) => Above(layer(l).permissions, of(l))
  BY LayerIsBracketed
<1>3. CASE direction = "egress"
  <2>1. decision = layer("network")
    BY <1>1, <1>3 DEF EvaluateLayers, DecisionOf
  <2>2. traffic = of("network")
    BY <1>3 DEF SideTraffic
  <2> HIDE DEF layer, of
  <2> QED
    BY <1>1, <1>2, <2>1, <2>2
<1>4. CASE direction = "ingress"
  <2>1. decision = CombinePolicyLayers(layer("network"), layer("authorization"))
    BY <1>1, <1>4 DEF EvaluateLayers, DecisionOf
  <2>2. /\ list = CombinedPermissions(layer("network").permissions, layer("authorization").permissions)
        /\ ~layer("network").uncertain /\ ~layer("authorization").uncertain
    <3> HIDE DEF layer
    <3>1. /\ decision.permissions =
               CombinedPermissions(layer("network").permissions, layer("authorization").permissions)
          /\ decision.uncertain = (layer("network").uncertain \/ layer("authorization").uncertain)
      BY <2>1 DEF CombinePolicyLayers
    <3> QED
      BY <3>1
  <2>3. traffic = {t \in of("network") : t[1] = TCP => t \in of("authorization")}
    BY <1>4 DEF SideTraffic
  <2> HIDE DEF layer, of, decision, traffic
  <2>4. /\ \A p \in list : WellFormed(p)
        /\ \A q \in Protocols, n \in Ports :
             /\ Certainly(list, q, n) <=>
                  /\ Certainly(layer("network").permissions, q, n)
                  /\ q = TCP => Certainly(layer("authorization").permissions, q, n)
             /\ Possibly(list, q, n) <=>
                  /\ Possibly(layer("network").permissions, q, n)
                  /\ q = TCP => Possibly(layer("authorization").permissions, q, n)
    BY <1>1, <1>2, <2>2, CombinedIsExact
  <2>5. \A q, n : <<q, n>> \in traffic <=> <<q, n>> \in of("network") /\ (q = TCP => <<q, n>> \in of("authorization"))
    BY <2>3
  <2>6. traffic \subseteq AllTraffic
    BY <1>1, <1>2, <2>2, <2>3
  <2>7. MatchesBelow(w, m, other) => Below(list, traffic)
    BY <1>1, <1>2, <2>2, <2>4, <2>5 DEF Below
  <2>8. MatchesAbove(w, m, other) => Above(list, traffic)
    BY <1>1, <1>2, <2>2, <2>4, <2>5 DEF Above
  <2> QED
    BY <2>4, <2>6, <2>7, <2>8 DEF decision, traffic
<1> QED
  BY <1>3, <1>4 DEF Directions

LEMMA WorldExists ==
    ASSUME NEW destination
    PROVE  \E w : w \in Worlds(destination)
<1> DEFINE enrolled == {p \in Pods : Mesh[p] = "enrolled"}
           w == [named |-> {}, enrolled |-> enrolled, effect |-> "deny"]
<1>1. enrolled \in Enrolments
  BY DEF Enrolments
<1>2. w \in Worlds(destination)
  <2> HIDE DEF enrolled
  <2> QED
    BY <1>1 DEF Worlds
<1> QED
  BY <1>2

(* A pair of pods.                                                         *)
LEMMA PairIsBracketed ==
    ASSUME NEW x, Snapshot(x), NEW source \in Pods, NEW destination \in Pods,
           EvaluatePair(x, source, destination).state # "PartialData"
    PROVE  LET verdict == EvaluatePair(x, source, destination)
           IN  /\ \A p \in verdict.permissions : WellFormed(p)
               /\ \A w \in Worlds(destination) :
                    LET traffic == PairTraffic(w, x, source, destination)
                    IN  traffic \subseteq AllTraffic /\ Below(verdict.permissions, traffic)
                        /\ Above(verdict.permissions, traffic)
<1> DEFINE verdict == EvaluatePair(x, source, destination)
           egress == EvaluateLayers(x, "egress", source, destination, PodMatcher(destination))
           ingress == EvaluateLayers(x, "ingress", destination, destination, PodMatcher(source))
<1>1. verdict = MeetOfSides(source, destination, egress, ingress)
  BY DEF EvaluatePair
<1>2. /\ verdict.permissions = IntersectPermissions(egress.permissions, ingress.permissions)
      /\ ~(egress.uncertain \/ ingress.uncertain)
  <2> HIDE DEF egress, ingress
  <2> QED
    BY <1>1 DEF MeetOfSides, ApplyUncertainty
<1>3. \A p : PodMatcher(p).kind = "pod" /\ PodMatcher(p).pod = p /\ Pod(p).kind = "pod" /\ Pod(p).pod = p
  BY DEF PodMatcher, Pod
<1>4. "egress" \in Directions /\ "ingress" \in Directions /\ destination \in Destinations
  BY DEF Directions, Destinations
<1>5. ASSUME NEW w \in Worlds(destination)
      PROVE  LET out == SideTraffic(w, x, "egress", source, destination, Pod(destination))
                 in == SideTraffic(w, x, "ingress", destination, destination, Pod(source))
             IN  /\ \A p \in egress.permissions : WellFormed(p)
                 /\ \A p \in ingress.permissions : WellFormed(p)
                 /\ out \subseteq AllTraffic /\ in \subseteq AllTraffic
                 /\ Below(egress.permissions, out) /\ Above(egress.permissions, out)
                 /\ Below(ingress.permissions, in) /\ Above(ingress.permissions, in)
  <2>1. /\ MatchesBelow(w, PodMatcher(source), Pod(source)) /\ MatchesAbove(w, PodMatcher(source), Pod(source))
        /\ MatchesBelow(w, PodMatcher(destination), Pod(destination))
        /\ MatchesAbove(w, PodMatcher(destination), Pod(destination))
    BY PodMatcherSettles
  <2>2. /\ \A p \in egress.permissions : WellFormed(p)
        /\ SideTraffic(w, x, "egress", source, destination, Pod(destination)) \subseteq AllTraffic
        /\ Below(egress.permissions, SideTraffic(w, x, "egress", source, destination, Pod(destination)))
        /\ Above(egress.permissions, SideTraffic(w, x, "egress", source, destination, Pod(destination)))
    BY <1>2, <1>3, <1>4, <2>1, SideIsBracketed
  <2>3. /\ \A p \in ingress.permissions : WellFormed(p)
        /\ SideTraffic(w, x, "ingress", destination, destination, Pod(source)) \subseteq AllTraffic
        /\ Below(ingress.permissions, SideTraffic(w, x, "ingress", destination, destination, Pod(source)))
        /\ Above(ingress.permissions, SideTraffic(w, x, "ingress", destination, destination, Pod(source)))
    BY <1>2, <1>3, <1>4, <2>1, SideIsBracketed
  <2> QED
    BY <2>2, <2>3
<1>6. \E w : w \in Worlds(destination)
  BY WorldExists
<1>7. (\A p \in egress.permissions : WellFormed(p)) /\ (\A p \in ingress.permissions : WellFormed(p))
  BY <1>5, <1>6
<1> HIDE DEF egress, ingress
<1>8. /\ \A p \in verdict.permissions : WellFormed(p)
      /\ \A q \in Protocols, n \in Ports :
           /\ Certainly(verdict.permissions, q, n) <=>
                Certainly(egress.permissions, q, n) /\ Certainly(ingress.permissions, q, n)
           /\ Possibly(verdict.permissions, q, n) <=>
                Possibly(egress.permissions, q, n) /\ Possibly(ingress.permissions, q, n)
  BY <1>2, <1>7, ListsStayWellFormed, IntersectionIsExact
<1>9. ASSUME NEW w \in Worlds(destination)
      PROVE  LET traffic == PairTraffic(w, x, source, destination)
             IN  traffic \subseteq AllTraffic /\ Below(verdict.permissions, traffic) /\ Above(verdict.permissions, traffic)
  <2> DEFINE out == SideTraffic(w, x, "egress", source, destination, Pod(destination))
             in == SideTraffic(w, x, "ingress", destination, destination, Pod(source))
  <2>1. PairTraffic(w, x, source, destination) = out \intersect in
    BY DEF PairTraffic, Pod
  <2>2. /\ out \subseteq AllTraffic
        /\ Below(egress.permissions, out) /\ Above(egress.permissions, out)
        /\ Below(ingress.permissions, in) /\ Above(ingress.permissions, in)
    BY <1>5
  <2> HIDE DEF out, in, verdict
  <2> QED
    BY <1>8, <2>1, <2>2 DEF Below, Above
<1> QED
  BY <1>8, <1>9

-----------------------------------------------------------------------------
(* What is listed is finite.                                               *)
LEMMA FiniteRange ==
    ASSUME NEW S, IsFiniteSet(S), NEW f, DOMAIN f = S
    PROVE  IsFiniteSet({f[s] : s \in S})
<1> DEFINE T == {f[s] : s \in S}
           g == [s \in S |-> f[s]]
<1>1. g \in Surjection(S, T)
  BY DEF Surjection
<1> HIDE DEF g, T
<1>2. IsFiniteSet(T)
  BY <1>1, FS_Surjection
<1> QED
  BY <1>2 DEF T

LEMMA BlockIsFinite == IsFiniteSet(Block)
<1> DEFINE prefixes(f) == {p \in [family : {f}, addr : 0..(2 ^ Width[f] - 1), bits : 0..Width[f]] :
                             p.addr % Size(f, p.bits) = 0}
           all == [f \in Families |-> prefixes(f)]
<1>1. ASSUME NEW f \in Families
      PROVE  IsFiniteSet(prefixes(f))
  <2> DEFINE tuples == (0..(2 ^ Width[f] - 1)) \X (0..Width[f])
             g == [t \in tuples |-> [family |-> f, addr |-> t[1], bits |-> t[2]]]
             records == {g[t] : t \in tuples}
  <2>1. Width[f] \in Nat /\ 2 ^ Width[f] \in Nat
    BY WidthAssumption, PowerIsNat
  <2>2. IsFiniteSet(0..(2 ^ Width[f] - 1)) /\ IsFiniteSet(0..Width[f])
    <3> DEFINE top == 2 ^ Width[f] - 1
    <3>1. top \in Int
      BY <2>1
    <3> HIDE DEF top
    <3>2. IsFiniteSet(0..top) /\ IsFiniteSet(0..Width[f])
      BY <2>1, <3>1, FS_Interval
    <3> QED
      BY <3>2 DEF top
  <2>3. IsFiniteSet(tuples)
    BY <2>2, FS_Product
  <2>4. IsFiniteSet(records)
    <3> HIDE DEF tuples
    <3>1. DOMAIN g = tuples
      OBVIOUS
    <3> HIDE DEF g
    <3> QED
      BY <2>3, <3>1, FiniteRange
  <2>5. prefixes(f) \subseteq records
    <3> SUFFICES ASSUME NEW p \in prefixes(f) PROVE p \in records
      OBVIOUS
    <3>1. /\ p = [family |-> f, addr |-> p.addr, bits |-> p.bits]
          /\ <<p.addr, p.bits>> \in tuples
      OBVIOUS
    <3>2. g[<<p.addr, p.bits>>] = [family |-> f, addr |-> p.addr, bits |-> p.bits]
      BY <3>1
    <3> HIDE DEF g, tuples
    <3> QED
      BY <3>1, <3>2
  <2> HIDE DEF records, prefixes
  <2> QED
    BY <2>4, <2>5, FS_Subset
<1>2. IsFiniteSet({all[f] : f \in Families})
  <2>1. DOMAIN all = Families
    OBVIOUS
  <2> HIDE DEF all
  <2> QED
    BY <2>1, WidthAssumption, FiniteRange
<1>3. Prefix = UNION {all[f] : f \in Families}
  BY DEF Prefix
<1>4. IsFiniteSet(Prefix)
  <2>1. \A T \in {all[f] : f \in Families} : IsFiniteSet(T)
    BY <1>1
  <2> HIDE DEF all
  <2> QED
    BY <1>2, <1>3, <2>1, FS_UNION
<1> DEFINE tuples == Prefix \X SUBSET Prefix
           g == [t \in tuples |-> [prefix |-> t[1], except |-> t[2]]]
<1>5. IsFiniteSet(tuples)
  BY <1>4, FS_SUBSET, FS_Product
<1>6. Block \subseteq {g[t] : t \in tuples}
  <2> SUFFICES ASSUME NEW b \in Block PROVE b \in {g[t] : t \in tuples}
    OBVIOUS
  <2>1. <<b.prefix, b.except>> \in tuples /\ b = [prefix |-> b.prefix, except |-> b.except]
    BY DEF Block
  <2>2. g[<<b.prefix, b.except>>] = [prefix |-> b.prefix, except |-> b.except]
    BY <2>1
  <2> HIDE DEF g, tuples
  <2> QED
    BY <2>1, <2>2
<1>7. DOMAIN g = tuples
  OBVIOUS
<1> HIDE DEF g, tuples
<1>8. IsFiniteSet({g[t] : t \in tuples})
  BY <1>5, <1>7, FiniteRange
<1> QED
  BY <1>6, <1>8, FS_Subset

LEMMA SetToSeqLists ==
    ASSUME NEW S, IsFiniteSet(S)
    PROVE  /\ SetToSeq(S) \in Seq(S)
           /\ Len(SetToSeq(S)) = Cardinality(S) /\ Cardinality(S) \in Nat
           /\ \A e \in S : \E i \in 1..Cardinality(S) : SetToSeq(S)[i] = e
<1> DEFINE n == Cardinality(S)
<1>1. n \in Nat /\ ExistsBijection(1..n, S)
  BY FS_CardinalityType
<1>2. \E f \in [1..n -> S] : IsInjective(f)
  BY <1>1 DEF ExistsBijection, Bijection, Injection, Surjection, IsInjective
<1>3. SetToSeq(S) \in [1..n -> S] /\ IsInjective(SetToSeq(S))
  BY <1>2 DEF SetToSeq
<1>4. SetToSeq(S) \in Injection(1..n, S)
  BY <1>3 DEF Injection, IsInjective
<1>5. IsFiniteSet(1..n) /\ Cardinality(1..n) = n
  BY <1>1, FS_Interval
<1>6. SetToSeq(S) \in Surjection(1..n, S)
  BY <1>4, <1>5, FS_Injection
<1> QED
  BY <1>1, <1>3, <1>6 DEF Surjection

-----------------------------------------------------------------------------
(* What a direction is evaluated with.                                     *)
Lists(s, S) == s \in Seq(S) /\ \A e \in S : \E i \in 1..Len(s) : s[i] = e

LEMMA SetIsListed ==
    ASSUME NEW S, IsFiniteSet(S)
    PROVE  Lists(SetToSeq(S), S)
BY SetToSeqLists DEF Lists

LEMMA ConcatLists ==
    ASSUME NEW S, NEW T, NEW s, NEW t, Lists(s, S), Lists(t, T)
    PROVE  Lists(s \o t, S \union T)
<1> s \in Seq(S) /\ t \in Seq(T)
  BY DEF Lists
<1>1. s \o t \in Seq(S \union T) /\ Len(s \o t) = Len(s) + Len(t)
  OBVIOUS
<1>2. \A i \in 1..Len(s) : i \in 1..Len(s \o t) /\ (s \o t)[i] = s[i]
  OBVIOUS
<1>3. \A i \in 1..Len(t) : Len(s) + i \in 1..Len(s \o t) /\ (s \o t)[Len(s) + i] = t[i]
  OBVIOUS
<1> QED
  BY <1>1, <1>2, <1>3 DEF Lists

CIDRCandidates(x, subject, direction) ==
    {Candidate("cidr", ref, {NoPod}, FALSE) : ref \in CIDRPrimitives(x, subject, direction)}
PodCandidates(x) == {Candidate("pod", p, {p}, FALSE) : p \in x.pods}
NamespaceCandidates(x) == {Candidate("namespace", n, PodsIn(x, n), FALSE) : n \in Namespaces}
DeploymentCandidates(x) == {Candidate("deployment", d, PodsForWorkload(x, d), Fallback(x, d)) : d \in Deployments}
JobCandidates(x) == {Candidate("job", j, PodsForWorkload(x, j), Fallback(x, j)) : j \in Jobs}

CandidateSet(x, subject, direction) ==
    (((CIDRCandidates(x, subject, direction) \union PodCandidates(x)) \union NamespaceCandidates(x))
     \union DeploymentCandidates(x)) \union JobCandidates(x)

LEMMA CIDRPrimitivesAreBlocks ==
    ASSUME NEW x, Snapshot(x), NEW subject, NEW direction \in Directions
    PROVE  CIDRPrimitives(x, subject, direction) \subseteq Block
<1> DEFINE speaking(pod) == SpeakingPolicies(x, pod, direction)
           ids == UNION {RulesOf(x, speaking(pod), direction) : pod \in subject}
           rules == {RuleAt(x, id) : id \in {i \in ids : Enabled(RuleAt(x, i))}}
           peers == UNION {rule.peers : rule \in rules}
<1>1. \A pod \in subject : speaking(pod) \in SUBSET DOMAIN x.policies
  BY DEF SpeakingPolicies, Selection, Selecting, InReach
<1>2. \A pod \in subject : \A id \in RulesOf(x, speaking(pod), direction) : RuleAt(x, id) \in Rule
  <2> TAKE pod \in subject
  <2> HIDE DEF speaking
  <2> QED
    BY <1>1, RulesInIs
<1>3. rules \subseteq Rule
  <2> HIDE DEF speaking
  <2> QED
    BY <1>2
<1>4. peers \subseteq Peer
  <2> HIDE DEF rules
  <2>1. \A r \in Rule : r.peers \subseteq Peer
    BY DEF Rule
  <2> QED
    BY <1>3, <2>1
<1>5. \A b \in CIDRPrimitives(x, subject, direction) :
        b \in AllAddresses \/ \E peer \in peers : b \in peer.blocks
  BY DEF CIDRPrimitives
<1> HIDE DEF peers
<1>6. \A peer \in Peer : peer.blocks \subseteq Block
  BY DEF Peer
<1>7. AllAddresses \subseteq Block
  BY EvaluatorAssumption
<1> QED
  BY <1>4, <1>5, <1>6, <1>7

LEMMA CIDRPrimitivesAreFinite ==
    ASSUME NEW x, Snapshot(x), NEW subject, NEW direction \in Directions
    PROVE  IsFiniteSet(CIDRPrimitives(x, subject, direction))
BY CIDRPrimitivesAreBlocks, BlockIsFinite, FS_Subset

LEMMA CandidatesAreListed ==
    ASSUME NEW x, Snapshot(x), x.pods \subseteq Pods, NEW subject, NEW direction \in Directions
    PROVE  Lists(Candidates(x, subject, direction), CandidateSet(x, subject, direction))
<1>1. IsFiniteSet(CIDRCandidates(x, subject, direction))
  <2> DEFINE S == CIDRPrimitives(x, subject, direction)
             f == [ref \in S |-> Candidate("cidr", ref, {NoPod}, FALSE)]
  <2>1. IsFiniteSet(S) /\ DOMAIN f = S
    BY CIDRPrimitivesAreFinite
  <2>2. CIDRCandidates(x, subject, direction) = {f[s] : s \in S}
    BY DEF CIDRCandidates
  <2> HIDE DEF f, S
  <2> QED
    BY <2>1, <2>2, FiniteRange
<1>2. IsFiniteSet(PodCandidates(x))
  <2> DEFINE S == x.pods
             f == [p \in S |-> Candidate("pod", p, {p}, FALSE)]
  <2>1. IsFiniteSet(S) /\ DOMAIN f = S
    BY SelectionAssumption, FS_Subset
  <2>2. PodCandidates(x) = {f[s] : s \in S}
    BY DEF PodCandidates
  <2> HIDE DEF f, S
  <2> QED
    BY <2>1, <2>2, FiniteRange
<1>3. IsFiniteSet(NamespaceCandidates(x))
  <2> DEFINE f == [n \in Namespaces |-> Candidate("namespace", n, PodsIn(x, n), FALSE)]
  <2>1. IsFiniteSet(Namespaces) /\ DOMAIN f = Namespaces
    BY SelectionAssumption
  <2>2. NamespaceCandidates(x) = {f[s] : s \in Namespaces}
    BY DEF NamespaceCandidates
  <2> HIDE DEF f
  <2> QED
    BY <2>1, <2>2, FiniteRange
<1>4. IsFiniteSet(DeploymentCandidates(x))
  <2> DEFINE f == [d \in Deployments |-> Candidate("deployment", d, PodsForWorkload(x, d), Fallback(x, d))]
  <2>1. IsFiniteSet(Deployments) /\ DOMAIN f = Deployments
    BY EvaluatorAssumption
  <2>2. DeploymentCandidates(x) = {f[s] : s \in Deployments}
    BY DEF DeploymentCandidates
  <2> HIDE DEF f
  <2> QED
    BY <2>1, <2>2, FiniteRange
<1>5. IsFiniteSet(JobCandidates(x))
  <2> DEFINE f == [j \in Jobs |-> Candidate("job", j, PodsForWorkload(x, j), Fallback(x, j))]
  <2>1. IsFiniteSet(Jobs) /\ DOMAIN f = Jobs
    BY EvaluatorAssumption
  <2>2. JobCandidates(x) = {f[s] : s \in Jobs}
    BY DEF JobCandidates
  <2> HIDE DEF f
  <2> QED
    BY <2>1, <2>2, FiniteRange
<1> DEFINE a == SetToSeq(CIDRCandidates(x, subject, direction))
           b == SetToSeq(PodCandidates(x))
           c == SetToSeq(NamespaceCandidates(x))
           d == SetToSeq(DeploymentCandidates(x))
           e == SetToSeq(JobCandidates(x))
<1>6. /\ Lists(a, CIDRCandidates(x, subject, direction)) /\ Lists(b, PodCandidates(x))
      /\ Lists(c, NamespaceCandidates(x)) /\ Lists(d, DeploymentCandidates(x)) /\ Lists(e, JobCandidates(x))
  BY <1>1, <1>2, <1>3, <1>4, <1>5, SetIsListed
<1>7. Candidates(x, subject, direction) = (((a \o b) \o c) \o d) \o e
  BY DEF Candidates, CIDRCandidates, PodCandidates, NamespaceCandidates, DeploymentCandidates,
         JobCandidates
<1> HIDE DEF a, b, c, d, e
<1>8. Lists(a \o b, CIDRCandidates(x, subject, direction) \union PodCandidates(x))
  BY <1>6, ConcatLists
<1>9. Lists((a \o b) \o c, (CIDRCandidates(x, subject, direction) \union PodCandidates(x))
                            \union NamespaceCandidates(x))
  BY <1>6, <1>8, ConcatLists
<1>10. Lists(((a \o b) \o c) \o d, ((CIDRCandidates(x, subject, direction) \union PodCandidates(x))
                                     \union NamespaceCandidates(x)) \union DeploymentCandidates(x))
  BY <1>6, <1>9, ConcatLists
<1>11. Lists((((a \o b) \o c) \o d) \o e, CandidateSet(x, subject, direction))
  BY <1>6, <1>10, ConcatLists DEF CandidateSet
<1> QED
  BY <1>7, <1>11

-----------------------------------------------------------------------------
(* The budget of pairs: what the first i of the candidates taken need.     *)
IsSpent(f, n, subject, taken) ==
    f = [i \in 0..n |-> IF i = 0 THEN 0 ELSE f[i - 1] + Cardinality(subject \X taken[i].members)]

LEMMA SpentExists ==
    ASSUME NEW subject, NEW taken
    PROVE  \A n \in Nat : \E f : IsSpent(f, n, subject, taken)
<1> DEFINE S == {n \in Nat : \E f : IsSpent(f, n, subject, taken)}
           size(i) == Cardinality(subject \X taken[i].members)
<1>1. 0 \in S
  <2>1. IsSpent([i \in 0..0 |-> 0], 0, subject, taken)
    BY DEF IsSpent
  <2> QED
    BY <2>1
<1>2. ASSUME NEW n \in Nat, n \in S PROVE n + 1 \in S
  <2>1. PICK f : IsSpent(f, n, subject, taken)
    BY <1>2
  <2>2. f = [i \in 0..n |-> IF i = 0 THEN 0 ELSE f[i - 1] + size(i)]
    BY <2>1 DEF IsSpent
  <2> HIDE DEF size
  <2> DEFINE next == f[n] + size(n + 1)
             g == [i \in 0..(n + 1) |-> IF i = n + 1 THEN next ELSE f[i]]
  <2>3. \A i \in 0..(n + 1) : g[i] = IF i = 0 THEN 0 ELSE g[i - 1] + size(i)
    <3> TAKE i \in 0..(n + 1)
    <3>1. CASE i = n + 1
      <4>1. g[i] = next /\ g[i - 1] = f[n] /\ i # 0
        BY <3>1
      <4> QED
        BY <3>1, <4>1
    <3>2. CASE i # n + 1
      <4>1. i \in 0..n /\ g[i] = f[i] /\ (i # 0 => g[i - 1] = f[i - 1])
        BY <3>2
      <4> HIDE DEF g
      <4> QED
        BY <2>2, <4>1
    <3> QED
      BY <3>1, <3>2
  <2>4. g = [i \in 0..(n + 1) |-> IF i = 0 THEN 0 ELSE g[i - 1] + size(i)]
    <3>1. g = [i \in 0..(n + 1) |-> g[i]]
      OBVIOUS
    <3> HIDE DEF g
    <3> QED
      BY <2>3, <3>1
  <2> HIDE DEF g
  <2>5. IsSpent(g, n + 1, subject, taken)
    BY <2>4 DEF IsSpent, size
  <2> QED
    BY <2>5
<1>3. Nat \subseteq S
  <2> HIDE DEF S
  <2> QED
    BY <1>1, <1>2, Induction
<1> QED
  BY <1>3

LEMMA SpentIs ==
    ASSUME NEW subject, NEW taken, Len(taken) \in Nat,
           \A i \in 1..Len(taken) : Cardinality(subject \X taken[i].members) \in Nat
    PROVE  LET spent == PairsOf(subject, taken)
           IN  /\ spent[0] = 0
               /\ \A i \in 0..Len(taken) : spent[i] \in Nat
               /\ \A i \in 1..Len(taken) : spent[i] = spent[i - 1] + Cardinality(subject \X taken[i].members)
               /\ \A i \in 0..Len(taken) : spent[i] <= spent[Len(taken)]
<1> DEFINE n == Len(taken)
           size(i) == Cardinality(subject \X taken[i].members)
           spent == PairsOf(subject, taken)
<1>1. spent = CHOOSE f : IsSpent(f, n, subject, taken)
  BY DEF PairsOf, IsSpent
<1>2. \E f : IsSpent(f, n, subject, taken)
  BY SpentExists
<1>3. IsSpent(spent, n, subject, taken)
  BY <1>1, <1>2
<1>4. spent = [i \in 0..n |-> IF i = 0 THEN 0 ELSE spent[i - 1] + size(i)]
  BY <1>3 DEF IsSpent
<1>5. n \in Nat /\ \A i \in 1..n : size(i) \in Nat
  OBVIOUS
<1> HIDE DEF n, size, spent
<1>6. spent[0] = 0 /\ \A i \in 1..n : spent[i] = spent[i - 1] + size(i)
  <2>1. \A i \in 0..n : spent[i] = IF i = 0 THEN 0 ELSE spent[i - 1] + size(i)
    BY <1>4
  <2>2. 0 \in 0..n /\ \A i \in 1..n : i \in 0..n /\ i # 0
    BY <1>5
  <2> QED
    BY <2>1, <2>2
<1>7. \A i \in 0..n : spent[i] \in Nat
  <2> DEFINE S == {i \in Nat : i \in 0..n => spent[i] \in Nat}
  <2>1. 0 \in S
    BY <1>6
  <2>2. \A i \in Nat : i \in S => i + 1 \in S
    <3> TAKE i \in Nat
    <3> SUFFICES ASSUME i \in S, i + 1 \in 0..n PROVE spent[i + 1] \in Nat
      OBVIOUS
    <3>1. i \in 0..n /\ i + 1 \in 1..n /\ (i + 1) - 1 = i
      BY <1>5
    <3>2. spent[i] \in Nat
      BY <3>1
    <3>3. spent[i + 1] = spent[i] + size(i + 1) /\ size(i + 1) \in Nat
      BY <1>5, <1>6, <3>1
    <3> QED
      BY <3>2, <3>3
  <2> HIDE DEF S
  <2>3. Nat \subseteq S
    BY <2>1, <2>2, Induction
  <2> QED
    BY <1>5, <2>3 DEF S
<1>8. \A i \in 0..n : spent[i] <= spent[n]
  <2> DEFINE S == {k \in Nat : k \in 0..n => spent[n - k] <= spent[n]}
  <2>1. 0 \in S
    <3>1. n - 0 = n /\ n \in 0..n
      BY <1>5
    <3>2. spent[n] \in Nat
      BY <1>7, <3>1
    <3> QED
      BY <3>1, <3>2
  <2>2. \A k \in Nat : k \in S => k + 1 \in S
    <3> TAKE k \in Nat
    <3> SUFFICES ASSUME k \in S, k + 1 \in 0..n PROVE spent[n - (k + 1)] <= spent[n]
      OBVIOUS
    <3>1. k \in 0..n /\ n - k \in 1..n /\ (n - k) - 1 = n - (k + 1)
          /\ n - (k + 1) \in 0..n /\ n - k \in 0..n /\ n \in 0..n
      BY <1>5
    <3>2. spent[n - k] <= spent[n]
      BY <3>1
    <3>3. spent[n - k] = spent[n - (k + 1)] + size(n - k) /\ size(n - k) \in Nat
      BY <1>5, <1>6, <3>1
    <3>4. spent[n] \in Nat /\ spent[n - k] \in Nat /\ spent[n - (k + 1)] \in Nat
      BY <1>7, <3>1
    <3> QED
      BY <3>2, <3>3, <3>4
  <2> HIDE DEF S
  <2>3. Nat \subseteq S
    BY <2>1, <2>2, Induction
  <2> TAKE i \in 0..n
  <2>4. n - i \in Nat /\ n - i \in 0..n /\ n - (n - i) = i
    BY <1>5
  <2>5. n - i \in S
    BY <2>3, <2>4
  <2> QED
    BY <2>4, <2>5 DEF S
<1> QED
  BY <1>6, <1>7, <1>8 DEF n, size, spent

-----------------------------------------------------------------------------
(* What a primitive's pairs are.  A side is a pod of the subject and the   *)
(* other end.                                                              *)
Ends(direction, side) == IF direction = "ingress" THEN <<side[2], side[1]>> ELSE side
VerdictOn(x, direction, c, side) ==
    IF c.kind = "cidr" THEN EvaluateCIDRSide(x, direction, side[1], c.name)
    ELSE EvaluatePair(x, Ends(direction, side)[1], Ends(direction, side)[2])
VerdictsOn(x, subject, direction, c) ==
    {VerdictOn(x, direction, c, side) : side \in subject \X c.members}
PairVerdicts(x, subject, direction) ==
    {EvaluatePair(x, Ends(direction, side)[1], Ends(direction, side)[2]) : side \in subject \X x.pods}

LEMMA VerdictEnds ==
    ASSUME NEW x, NEW source, NEW destination
    PROVE  /\ EvaluatePair(x, source, destination).source = source
           /\ EvaluatePair(x, source, destination).destination = destination
BY DEF EvaluatePair, MeetOfSides

LEMMA ChosenIs ==
    ASSUME NEW x, NEW subject, NEW direction, NEW side \in subject \X x.pods
    PROVE  (CHOOSE v \in PairVerdicts(x, subject, direction) :
                <<v.source, v.destination>> = Ends(direction, side))
           = EvaluatePair(x, Ends(direction, side)[1], Ends(direction, side)[2])
<1> DEFINE verdicts == PairVerdicts(x, subject, direction)
           found == EvaluatePair(x, Ends(direction, side)[1], Ends(direction, side)[2])
<1>1. found \in verdicts
  BY DEF PairVerdicts
<1>2. \A s \in subject \X x.pods : Ends(direction, s) = <<Ends(direction, s)[1], Ends(direction, s)[2]>>
  BY DEF Ends
<1>3. <<found.source, found.destination>> = Ends(direction, side)
  BY <1>2, VerdictEnds
<1>4. \A v \in verdicts : <<v.source, v.destination>> = Ends(direction, side) => v = found
  <2> TAKE v \in verdicts
  <2>1. PICK s \in subject \X x.pods : v = EvaluatePair(x, Ends(direction, s)[1], Ends(direction, s)[2])
    BY DEF PairVerdicts
  <2>2. <<v.source, v.destination>> = Ends(direction, s)
    BY <1>2, <2>1, VerdictEnds
  <2> QED
    BY <2>1, <2>2
<1> HIDE DEF verdicts, found
<1>5. (CHOOSE v \in verdicts : <<v.source, v.destination>> = Ends(direction, side)) = found
  BY <1>1, <1>3, <1>4
<1> QED
  BY <1>5 DEF verdicts, found

LEMMA TakenIs ==
    ASSUME NEW x, NEW limit \in Nat \ {0}, NEW subject, IsFiniteSet(subject), NEW direction,
           NEW taken, Len(taken) \in Nat,
           \A i \in 1..Len(taken) : /\ IsFiniteSet(taken[i].members)
                                    /\ taken[i].kind # "cidr" => taken[i].members \subseteq x.pods
    PROVE  LET primitives == TakenWithin(limit, x, subject, direction, taken)
           IN  /\ DOMAIN primitives = 1..Len(taken)
               /\ \A i \in 1..Len(taken) : \E cut \in BOOLEAN : \E pairs :
                    /\ primitives[i] = Primitive(x, taken[i], pairs, cut)
                    /\ pairs \subseteq VerdictsOn(x, subject, direction, taken[i])
                    /\ ~cut => pairs = VerdictsOn(x, subject, direction, taken[i])
                    /\ PairsOf(subject, taken)[Len(taken)] <= limit => ~cut
<1> DEFINE primitives == TakenWithin(limit, x, subject, direction, taken)
           n == Len(taken)
           sides(c) == SetToSeq(subject \X c.members)
           spent == PairsOf(subject, taken)
           used(i) == Smaller(limit, spent[i])
           cutAt(i) == spent[i] > limit /\ spent[i] > spent[i - 1]
           chosen(c, side) ==
               IF c.kind = "cidr" THEN EvaluateCIDRSide(x, direction, side[1], c.name)
               ELSE CHOOSE v \in PairVerdicts(x, subject, direction) :
                        <<v.source, v.destination>> = Ends(direction, side)
           pairsAt(i) == {chosen(taken[i], sides(taken[i])[k]) : k \in 1..(used(i) - used(i - 1))}
<1>1. primitives = [i \in 1..n |-> Primitive(x, taken[i], pairsAt(i), cutAt(i))]
  BY DEF TakenWithin, PairVerdicts, Ends
<1>2. ASSUME NEW i \in 1..n
      PROVE  /\ pairsAt(i) \subseteq VerdictsOn(x, subject, direction, taken[i])
             /\ ~cutAt(i) => pairsAt(i) = VerdictsOn(x, subject, direction, taken[i])
             /\ spent[n] <= limit => ~cutAt(i)
  <2> DEFINE c == taken[i]
             all == subject \X c.members
             size == Cardinality(all)
             count == used(i) - used(i - 1)
  <2>1. \A j \in 1..n : IsFiniteSet(subject \X taken[j].members) /\ Cardinality(subject \X taken[j].members) \in Nat
    <3> TAKE j \in 1..n
    <3>1. IsFiniteSet(taken[j].members)
      OBVIOUS
    <3>2. IsFiniteSet(subject \X taken[j].members)
      BY <3>1, FS_Product
    <3> QED
      BY <3>2, FS_CardinalityType
  <2>2. /\ spent[i] \in Nat /\ spent[i - 1] \in Nat /\ spent[n] \in Nat
        /\ spent[i] = spent[i - 1] + size /\ spent[i] <= spent[n]
    <3>1. /\ \A j \in 0..n : spent[j] \in Nat
          /\ \A j \in 1..n : spent[j] = spent[j - 1] + Cardinality(subject \X taken[j].members)
          /\ \A j \in 0..n : spent[j] <= spent[n]
      <4>1. \A j \in 1..Len(taken) : Cardinality(subject \X taken[j].members) \in Nat
        BY <2>1
      <4>2. Len(taken) \in Nat
        OBVIOUS
      <4> HIDE DEF primitives, sides, used, cutAt, chosen, pairsAt
      <4> QED
        BY ONLY <4>1, <4>2, SpentIs
    <3>2. n \in Nat /\ i \in 1..n /\ i \in 0..n /\ i - 1 \in 0..n /\ n \in 0..n
      OBVIOUS
    <3> HIDE DEF spent, n
    <3> QED
      BY <3>1, <3>2
  <2>3. /\ size \in Nat /\ sides(c) \in Seq(all) /\ Len(sides(c)) = size
        /\ \A e \in all : \E k \in 1..size : sides(c)[k] = e
    BY <2>1, SetToSeqLists
  <2>4. \A k \in 1..size : sides(c)[k] \in all
    BY <2>3
  <2>5. \A side \in all : chosen(c, side) = VerdictOn(x, direction, c, side)
    <3> TAKE side \in all
    <3>1. CASE c.kind = "cidr"
      BY <3>1 DEF VerdictOn
    <3>2. CASE c.kind # "cidr"
      <4>1. side \in subject \X x.pods
        BY <3>2
      <4> QED
        BY <3>2, <4>1, ChosenIs DEF VerdictOn
    <3> QED
      BY <3>1, <3>2
  <2> DEFINE verdict(k) == chosen(c, sides(c)[k])
  <2>6. /\ \A k \in 1..size : verdict(k) \in VerdictsOn(x, subject, direction, c)
        /\ \A v \in VerdictsOn(x, subject, direction, c) : \E k \in 1..size : v = verdict(k)
    <3> HIDE DEF chosen, sides, all, size
    <3>1. VerdictsOn(x, subject, direction, c) = {VerdictOn(x, direction, c, side) : side \in all}
      BY DEF VerdictsOn, all
    <3> QED
      BY <2>3, <2>4, <2>5, <3>1
  <2>7. \A v : v \in pairsAt(i) <=> \E k \in 1..count : v = verdict(k)
    OBVIOUS
  <2>8. count \in Int /\ count <= size
    <3> HIDE DEF spent, size
    <3> QED
      BY <2>2, <2>3 DEF Smaller
  <2>9. ~cutAt(i) => count = size
    <3> HIDE DEF spent, size
    <3> QED
      BY <2>2, <2>3 DEF Smaller
  <2>10. spent[n] <= limit => ~cutAt(i)
    <3> HIDE DEF spent, size
    <3> QED
      BY <2>2
  <2> HIDE DEF pairsAt, cutAt, size, count, verdict, c
  <2>11. pairsAt(i) \subseteq VerdictsOn(x, subject, direction, c)
    BY <2>3, <2>6, <2>7, <2>8
  <2>12. ~cutAt(i) => VerdictsOn(x, subject, direction, c) \subseteq pairsAt(i)
    BY <2>6, <2>7, <2>9
  <2> QED
    BY <2>10, <2>11, <2>12 DEF c
<1> QED
  BY <1>1, <1>2

LEMMA CandidateIs ==
    ASSUME NEW x, x.pods \subseteq Pods, NEW subject, NEW direction,
           NEW c \in CandidateSet(x, subject, direction)
    PROVE  /\ IsFiniteSet(c.members)
           /\ \/ c.kind = "cidr" /\ c.members = {NoPod}
              \/ c.kind = "pod" /\ c.members = {c.name} /\ c.name \in x.pods
              \/ c.kind = "namespace" /\ c.members = PodsIn(x, c.name)
              \/ /\ c.kind \in {"deployment", "job"}
                 /\ c.members = PodsForWorkload(x, c.name) /\ c.fallback = Fallback(x, c.name)
           /\ c.kind # "cidr" => c.members \subseteq x.pods
<1>1. \/ c.kind = "cidr" /\ c.members = {NoPod}
      \/ c.kind = "pod" /\ c.members = {c.name} /\ c.name \in x.pods
      \/ c.kind = "namespace" /\ c.members = PodsIn(x, c.name)
      \/ /\ c.kind \in {"deployment", "job"}
         /\ c.members = PodsForWorkload(x, c.name) /\ c.fallback = Fallback(x, c.name)
  BY DEF CandidateSet, CIDRCandidates, PodCandidates, NamespaceCandidates, DeploymentCandidates,
     JobCandidates, Candidate
<1>2. c.kind # "cidr" => c.members \subseteq x.pods
  BY <1>1 DEF PodsIn, PodsForWorkload, OwnedBy
<1>3. IsFiniteSet(x.pods)
  BY SelectionAssumption, FS_Subset
<1>4. IsFiniteSet(c.members)
  <2>1. CASE c.kind = "cidr"
    <3>1. c.members = {NoPod}
      BY <1>1, <2>1
    <3> QED
      BY <3>1, FS_Singleton
  <2>2. CASE c.kind # "cidr"
    BY <1>2, <1>3, <2>2, FS_Subset
  <2> QED
    BY <2>1, <2>2
<1> QED
  BY <1>1, <1>2, <1>4

(* A direction of an answer: a primitive is made of verdicts on its        *)
(* candidate, on all of it unless that is told, no candidate is left out   *)
(* unless that is told, and there is a row for each rule that is listed    *)
(* for a pod of the subject.                                               *)
MadeOf(primitive, pairs, cut, x, subject, direction, c) ==
    /\ primitive = Primitive(x, c, pairs, cut)
    /\ pairs \subseteq VerdictsOn(x, subject, direction, c)
    /\ ~cut => pairs = VerdictsOn(x, subject, direction, c)

Consists(answer, x, subject, direction) ==
    /\ \A i \in DOMAIN answer.primitives :
          \E c \in CandidateSet(x, subject, direction) : \E cut \in BOOLEAN : \E pairs :
             MadeOf(answer.primitives[i], pairs, cut, x, subject, direction, c) /\ (~answer.truncated => ~cut)
    /\ ~answer.truncated =>
          \A c \in CandidateSet(x, subject, direction) :
             \E i \in DOMAIN answer.primitives : answer.primitives[i].name = c.name
    /\ {rule.id : rule \in answer.rules} = UNION {RulesListed(x, p, direction) : p \in subject}

LEMMA RowsAreOfRules ==
    ASSUME NEW x, NEW subject, NEW direction, NEW primitives
    PROVE  {rule.id : rule \in BuildRules(x, subject, direction, primitives)}
           = UNION {RulesListed(x, p, direction) : p \in subject}
<1> DEFINE ids == UNION {RulesListed(x, p, direction) : p \in subject}
           row(id) == RuleResult(id, {p \in subject : id \in RulesListed(x, p, direction)}, primitives, direction)
<1>1. BuildRules(x, subject, direction, primitives) = {row(id) : id \in ids}
  BY DEF BuildRules
<1>2. \A id : row(id).id = id
  BY DEF RuleResult
<1> HIDE DEF ids, row
<1>3. {rule.id : rule \in {row(id) : id \in ids}} = ids
  BY <1>2
<1> QED
  BY <1>1, <1>3 DEF ids

LEMMA DirectionIs ==
    ASSUME NEW x, Snapshot(x), x.pods \subseteq Pods, NEW subject \in SUBSET x.pods,
           NEW direction \in Directions, NEW limit \in Nat \ {0}
    PROVE  Consists(EvaluateDirection(x, subject, direction, limit), x, subject, direction)
<1> DEFINE answer == EvaluateDirection(x, subject, direction, limit)
           candidates == Candidates(x, subject, direction)
           set == CandidateSet(x, subject, direction)
           taken == SubSeq(candidates, 1, Smaller(limit, Len(candidates)))
           primitives == TakenWithin(limit, x, subject, direction, taken)
<1>1. /\ answer.primitives = primitives
      /\ ~answer.truncated => ~(limit < Len(candidates)) /\ ~(PairsOf(subject, taken)[Len(taken)] > limit)
  BY DEF EvaluateDirection, DirectionResult
<1>2. candidates \in Seq(set) /\ \A c \in set : \E i \in 1..Len(candidates) : candidates[i] = c
  BY CandidatesAreListed DEF Lists
<1>3. Smaller(limit, Len(candidates)) \in 0..Len(candidates)
  <2> HIDE DEF candidates, set
  <2> QED
    BY <1>2 DEF Smaller
<1>4. /\ Len(taken) = Smaller(limit, Len(candidates))
      /\ \A i \in 1..Len(taken) : taken[i] = candidates[i]
  <2> HIDE DEF candidates, set
  <2> QED
    BY <1>2, <1>3
<1>5. Len(taken) \in Nat /\ \A i \in 1..Len(taken) : taken[i] \in set
  <2> HIDE DEF candidates, set, taken
  <2>1. Len(taken) \in Nat /\ Len(taken) <= Len(candidates) /\ Len(candidates) \in Nat
    BY <1>2, <1>3, <1>4
  <2>2. \A i \in 1..Len(taken) : i \in 1..Len(candidates)
    BY <2>1
  <2>3. \A i \in 1..Len(candidates) : candidates[i] \in set
    BY <1>2
  <2> QED
    BY <1>4, <2>1, <2>2, <2>3
<1>6. \A i \in 1..Len(taken) : /\ IsFiniteSet(taken[i].members)
                               /\ taken[i].kind # "cidr" => taken[i].members \subseteq x.pods
  <2> HIDE DEF taken
  <2> QED
    BY <1>5, CandidateIs
<1>7. IsFiniteSet(subject)
  BY SelectionAssumption, FS_Subset
<1> HIDE DEF taken, candidates
<1>8. /\ DOMAIN primitives = 1..Len(taken)
      /\ \A i \in 1..Len(taken) : \E cut \in BOOLEAN : \E pairs :
            /\ primitives[i] = Primitive(x, taken[i], pairs, cut)
            /\ pairs \subseteq VerdictsOn(x, subject, direction, taken[i])
            /\ ~cut => pairs = VerdictsOn(x, subject, direction, taken[i])
            /\ PairsOf(subject, taken)[Len(taken)] <= limit => ~cut
  BY <1>5, <1>6, <1>7, TakenIs
<1>9. PairsOf(subject, taken)[Len(taken)] \in Nat
  <2>1. \A i \in 1..Len(taken) : Cardinality(subject \X taken[i].members) \in Nat
    <3> TAKE i \in 1..Len(taken)
    <3>1. IsFiniteSet(subject \X taken[i].members)
      BY <1>6, <1>7, FS_Product
    <3> QED
      BY <3>1, FS_CardinalityType
  <2>2. \A i \in 0..Len(taken) : PairsOf(subject, taken)[i] \in Nat
    BY <1>5, <2>1, SpentIs
  <2> QED
    BY <1>5, <2>2
<1>10. ~answer.truncated => PairsOf(subject, taken)[Len(taken)] <= limit
  BY <1>1, <1>9
<1>11. ~answer.truncated => Len(taken) = Len(candidates)
  BY <1>1, <1>2, <1>4 DEF Smaller
<1>12. \A i \in 1..Len(taken) : primitives[i].name = taken[i].name
  <2> TAKE i \in 1..Len(taken)
  <2>1. PICK cut \in BOOLEAN : \E pairs : primitives[i] = Primitive(x, taken[i], pairs, cut)
    BY <1>8
  <2>2. PICK pairs : primitives[i] = Primitive(x, taken[i], pairs, cut)
    BY <2>1
  <2> QED
    BY <2>2 DEF Primitive
<1>15. {rule.id : rule \in answer.rules} = UNION {RulesListed(x, p, direction) : p \in subject}
  <2>1. answer.rules = BuildRules(x, subject, direction, primitives)
    BY DEF EvaluateDirection, DirectionResult, taken, candidates
  <2> HIDE DEF primitives, answer
  <2> QED
    BY <2>1, RowsAreOfRules
<1> HIDE DEF primitives, answer, set
<1>13. \A i \in DOMAIN answer.primitives :
          \E c \in set : \E cut \in BOOLEAN : \E pairs :
             /\ answer.primitives[i] = Primitive(x, c, pairs, cut)
             /\ pairs \subseteq VerdictsOn(x, subject, direction, c)
             /\ ~cut => pairs = VerdictsOn(x, subject, direction, c)
             /\ ~answer.truncated => ~cut
  <2> TAKE i \in DOMAIN answer.primitives
  <2>1. i \in 1..Len(taken) /\ answer.primitives[i] = primitives[i]
    BY <1>1, <1>8
  <2>2. PICK cut \in BOOLEAN : \E pairs :
            /\ primitives[i] = Primitive(x, taken[i], pairs, cut)
            /\ pairs \subseteq VerdictsOn(x, subject, direction, taken[i])
            /\ ~cut => pairs = VerdictsOn(x, subject, direction, taken[i])
            /\ PairsOf(subject, taken)[Len(taken)] <= limit => ~cut
    BY <1>8, <2>1
  <2>3. PICK pairs :
            /\ primitives[i] = Primitive(x, taken[i], pairs, cut)
            /\ pairs \subseteq VerdictsOn(x, subject, direction, taken[i])
            /\ ~cut => pairs = VerdictsOn(x, subject, direction, taken[i])
            /\ PairsOf(subject, taken)[Len(taken)] <= limit => ~cut
    BY <2>2
  <2>4. taken[i] \in set
    BY <1>5, <2>1
  <2>5. ~answer.truncated => ~cut
    BY <1>10, <2>3
  <2> QED
    BY <2>1, <2>3, <2>4, <2>5
<1>14. ~answer.truncated => \A c \in set : \E i \in DOMAIN answer.primitives : answer.primitives[i].name = c.name
  <2> SUFFICES ASSUME ~answer.truncated, NEW c \in set
               PROVE  \E i \in DOMAIN answer.primitives : answer.primitives[i].name = c.name
    OBVIOUS
  <2>1. PICK i \in 1..Len(candidates) : candidates[i] = c
    BY <1>2
  <2>2. i \in 1..Len(taken) /\ taken[i] = c
    BY <1>4, <1>11, <2>1
  <2> QED
    BY <1>1, <1>8, <1>12, <2>2
<1> QED
  BY <1>13, <1>14, <1>15 DEF answer, set, Consists, MadeOf

-----------------------------------------------------------------------------
(* What gets through depends on the policies of an index only.             *)
LayerBody(w, policies_, reach, selects, hosts, layer, direction, pod, destination, other) ==
    LET selecting == {n \in reach : pod \in policies_[n].selects}
        enforced == {n \in selecting : policies_[n].state = "enforced"}
        vague == {n \in selecting : policies_[n].state = "effectUnknown"}
                 \union {n \in reach : policies_[n].state = "selectionUnknown"}
        rules == UNION {{policies_[n].rules[direction][i] :
                            i \in DOMAIN policies_[n].rules[direction]} : n \in enforced}
        plain(action) == UNION {RuleTraffic(w, r, destination) :
            r \in {s \in rules : s.action = action /\ ~s.uncertain /\ ~s.disabled /\ Meets(w, s, other)}}
        doubtful(action) ==
            IF \E r \in rules : /\ r.action = action /\ r.uncertain
                                /\ r.uncertainPeers \/ Meets(w, r, other)
            THEN AllTraffic ELSE {}
        isolated == \E n \in enforced : direction \in policies_[n].isolates
        hostRules ==
            /\ layer = "network"
            /\ \/ pod \in HostNetwork /\ (selects \/ hosts)
               \/ other.kind = "pod" /\ other.pod \in HostNetwork /\ selects
    IN  IF layer = "authorization" /\ pod \notin w.enrolled THEN AllTraffic
        ELSE IF w.effect = "allow"
        THEN IF hostRules THEN AllTraffic
             ELSE (IF isolated /\ vague = {} THEN plain("allow") \union doubtful("allow") ELSE AllTraffic)
                  \ plain("deny")
        ELSE IF hostRules \/ vague # {} THEN {}
        ELSE (IF isolated THEN plain("allow") ELSE AllTraffic)
             \ (plain("deny") \union doubtful("deny"))

LEMMA SameLayer ==
    ASSUME NEW x, NEW y, x.policies = y.policies, NEW w, NEW layer, NEW direction, NEW pod,
           NEW destination, NEW other
    PROVE  LayerTraffic(w, x, layer, direction, pod, destination, other)
           = LayerTraffic(w, y, layer, direction, pod, destination, other)
<1>1. \A z : LayerTraffic(w, z, layer, direction, pod, destination, other)
             = LayerBody(w, z.policies, InReach(z, pod, direction, layer), CiliumSelects(z, pod, direction),
                         CiliumHostPolicies(z), layer, direction, pod, destination, other)
  BY DEF LayerTraffic, LayerBody
<1>2. \A l : InReach(x, pod, direction, l) = InReach(y, pod, direction, l)
  BY DEF InReach
<1>3. CiliumSelects(x, pod, direction) = CiliumSelects(y, pod, direction)
  <2>1. Selecting(x, pod, direction, "network") = Selecting(y, pod, direction, "network")
    BY <1>2 DEF Selecting
  <2> QED
    BY <2>1 DEF CiliumSelects
<1>4. CiliumHostPolicies(x) = CiliumHostPolicies(y)
  BY DEF CiliumHostPolicies
<1> QED
  BY <1>1, <1>2, <1>3, <1>4

LEMMA SamePair ==
    ASSUME NEW x, NEW y, x.policies = y.policies, NEW w, NEW source, NEW destination
    PROVE  PairTraffic(w, x, source, destination) = PairTraffic(w, y, source, destination)
<1>1. \A direction, pod, other :
        SideTraffic(w, x, direction, pod, destination, other) = SideTraffic(w, y, direction, pod, destination, other)
  BY SameLayer DEF SideTraffic
<1> QED
  BY <1>1 DEF PairTraffic

-----------------------------------------------------------------------------
(* The index of a call made while the cluster was as it is.                *)
Current(x) ==
    /\ x.policies = Cluster.policies
    /\ x.incomplete = incomplete
    /\ x.pods \subseteq Pods
    /\ incomplete = {} => x.pods = Pods /\ x.replicaSets = ReplicaSets

AnswerInv ==
    result # NoResult =>
        \E ref \in Subjects : \E limit \in Limits : \E x : Current(x) /\ result = Answer(ref, limit, x)

LEMMA IndexIsCurrent ==
    ASSUME ClusterOK, CacheInv, NEW ref, NEW got
    PROVE  Current(Index(ref, got))
<1>1. Loaded = Cluster.policies
  BY LoadedIsCurrent
<1>2. ListedPods(ref, got) \subseteq Pods /\ (incomplete = {} => ListedPods(ref, got) = Pods)
  BY DEF ListedPods
<1> QED
  BY <1>1, <1>2 DEF Current, Index

LEMMA CurrentIsKept ==
    ASSUME UNCHANGED <<policies, istio, incomplete>>, NEW x, Current(x)
    PROVE  Current(x)'
<1>1. Cluster' = Cluster
  BY DEF Cluster
<1> QED
  BY <1>1 DEF Current

LEMMA SnapshotOfCurrent ==
    ASSUME ClusterOK, NEW x, Current(x)
    PROVE  Snapshot(x)
<1>1. \A n \in DOMAIN Cluster.policies : Cluster.policies[n] \in Policy
  <2>1. Cluster.policies = [n \in DOMAIN policies |-> Normalize(Catalogue[n][policies[n]], istio)]
    BY DEF Cluster
  <2>2. \A n \in DOMAIN policies : Catalogue[n][policies[n]] \in Policy
    BY Catalogued DEF ClusterOK
  <2>3. \A n \in DOMAIN policies : Normalize(Catalogue[n][policies[n]], istio) \in Policy
    BY <2>2, NormalizeIsPolicy
  <2> QED
    BY <2>1, <2>3
<1> QED
  BY <1>1 DEF Current, Snapshot

LEMMA NextAnswer == ClusterOK /\ CacheInv /\ AnswerInv /\ [Next]_vars => AnswerInv'
<1> SUFFICES ASSUME ClusterOK, CacheInv, AnswerInv, [Next]_vars PROVE AnswerInv'
  OBVIOUS
<1>1. ASSUME NEW ref \in Subjects, NEW limit \in Limits, NEW got \in Gets, EvaluateSubject(ref, limit, got)
      PROVE  AnswerInv'
  <2>1. /\ result' = NoResult \/ result' = Answer(ref, limit, Index(ref, got))
        /\ UNCHANGED <<policies, istio, incomplete>>
    BY <1>1 DEF EvaluateSubject
  <2>2. PICK x : x = Index(ref, got)
    OBVIOUS
  <2>3. Current(x)
    BY <2>2, IndexIsCurrent
  <2>4. Current(x)'
    BY <2>1, <2>3, CurrentIsKept
  <2>5. result' = NoResult \/ result' = Answer(ref, limit, x)
    BY <2>1, <2>2
  <2> QED
    BY <2>4, <2>5 DEF AnswerInv
<1>2. ASSUME result' = NoResult
      PROVE  AnswerInv'
  BY <1>2 DEF AnswerInv
<1>3. ASSUME UNCHANGED vars
      PROVE  AnswerInv'
  <2>1. UNCHANGED <<policies, istio, incomplete>> /\ result' = result
    BY <1>3 DEF vars
  <2> SUFFICES ASSUME result # NoResult
               PROVE  \E ref \in Subjects : \E limit \in Limits : \E x : Current(x)' /\ result' = Answer(ref, limit, x)
    BY <2>1 DEF AnswerInv
  <2>2. PICK ref \in Subjects : \E limit \in Limits : \E x : Current(x) /\ result = Answer(ref, limit, x)
    BY DEF AnswerInv
  <2>3. PICK limit \in Limits : \E x : Current(x) /\ result = Answer(ref, limit, x)
    BY <2>2
  <2>4. PICK x : Current(x) /\ result = Answer(ref, limit, x)
    BY <2>3
  <2>5. Current(x)'
    BY <2>1, <2>4, CurrentIsKept
  <2> QED
    BY <2>1, <2>4, <2>5
<1> QED
  BY <1>1, <1>2, <1>3 DEF Next, PolicyChanges, RootChanges, ListingChanges, Change

LEMMA AnswerAlways == Spec => [](ClusterOK /\ CacheInv /\ AnswerInv)
<1>1. Init => AnswerInv
  BY DEF Init, AnswerInv
<1> QED
  BY <1>1, InitCluster, NextCluster, NextAnswer, PTL DEF Spec

-----------------------------------------------------------------------------
(* What an answer consists of.                                             *)
LEMMA ResolvedWithin ==
    ASSUME NEW x, NEW ref
    PROVE  ResolveSubject(x, ref) \subseteq x.pods
BY DEF ResolveSubject, PodsIn, PodsForWorkload, OwnedBy

LEMMA AnswerConsists ==
    ASSUME ClusterOK, AnswerInv, result # NoResult
    PROVE  \E x : \E ref \in Subjects :
             /\ Current(x) /\ Snapshot(x) /\ x.pods \subseteq Pods
             /\ result.ref = ref
             /\ ResolveSubject(x, ref) \in SUBSET x.pods
             /\ \A d \in Directions : Consists(result.directions[d], x, ResolveSubject(x, ref), d)
<1>1. PICK ref \in Subjects : \E limit \in Limits : \E x : Current(x) /\ result = Answer(ref, limit, x)
  BY DEF AnswerInv
<1>2. PICK limit \in Limits : \E x : Current(x) /\ result = Answer(ref, limit, x)
  BY <1>1
<1>3. PICK x : Current(x) /\ result = Answer(ref, limit, x)
  BY <1>2
<1>4. Snapshot(x) /\ x.pods \subseteq Pods
  BY <1>3, SnapshotOfCurrent DEF Current
<1>5. ResolveSubject(x, ref) \in SUBSET x.pods
  BY ResolvedWithin
<1>6. /\ result.ref = ref
      /\ \A d \in Directions : result.directions[d] = EvaluateDirection(x, ResolveSubject(x, ref), d, limit)
  BY <1>3 DEF Answer
<1>7. limit \in Nat \ {0}
  BY EvaluatorAssumption
<1>8. \A d \in Directions :
        Consists(EvaluateDirection(x, ResolveSubject(x, ref), d, limit), x, ResolveSubject(x, ref), d)
  BY <1>4, <1>5, <1>7, DirectionIs
<1>9. \A d \in Directions : Consists(result.directions[d], x, ResolveSubject(x, ref), d)
  BY <1>6, <1>8
<1> QED
  BY <1>3, <1>4, <1>5, <1>6, <1>9

LEMMA MadeWithin ==
    ASSUME NEW primitive, NEW pairs, NEW cut, NEW x, NEW subject, NEW d, NEW c,
           MadeOf(primitive, pairs, cut, x, subject, d, c)
    PROVE  /\ primitive.kind = c.kind /\ primitive.name = c.name /\ primitive.pairs = pairs
           /\ primitive.pairs \subseteq VerdictsOn(x, subject, d, c)
           /\ primitive.state = AggregateState(pairs, PartialData(x, c, cut))
BY DEF MadeOf, Primitive

LEMMA BlockVerdictEnds ==
    ASSUME NEW x, NEW d, NEW pod, NEW ref
    PROVE  /\ EvaluateCIDRSide(x, d, pod, ref).source = IF d = "egress" THEN pod ELSE NoPod
           /\ EvaluateCIDRSide(x, d, pod, ref).destination = IF d = "egress" THEN NoPod ELSE pod
BY DEF EvaluateCIDRSide, BlockVerdict

(* A verdict on two pods is that of their evaluation.                      *)
LEMMA VerdictIsOfPods ==
    ASSUME NEW x, NEW subject \in SUBSET x.pods, x.pods \subseteq Pods, NEW d \in Directions,
           NEW c \in CandidateSet(x, subject, d), NEW verdict \in VerdictsOn(x, subject, d, c),
           BetweenPods(verdict)
    PROVE  \E s, t \in Pods : verdict = EvaluatePair(x, s, t)
<1>1. PICK side \in subject \X c.members : verdict = VerdictOn(x, d, c, side)
  BY DEF VerdictsOn
<1>2. c.kind # "cidr"
  <2> SUFFICES ASSUME c.kind = "cidr" PROVE FALSE
    OBVIOUS
  <2>1. verdict = EvaluateCIDRSide(x, d, side[1], c.name)
    BY <1>1 DEF VerdictOn
  <2> QED
    BY <2>1, BlockVerdictEnds DEF BetweenPods
<1>3. side[1] \in Pods /\ side[2] \in Pods
  BY <1>2, CandidateIs
<1>4. verdict = EvaluatePair(x, Ends(d, side)[1], Ends(d, side)[2])
  BY <1>1, <1>2 DEF VerdictOn
<1>5. Ends(d, side)[1] \in Pods /\ Ends(d, side)[2] \in Pods
  BY <1>3 DEF Ends
<1> QED
  BY <1>4, <1>5

(* What such a verdict says holds of the policies of the index.            *)
LEMMA PairVerdictHolds ==
    ASSUME NEW x, Snapshot(x), NEW s \in Pods, NEW t \in Pods,
           EvaluatePair(x, s, t).state # "PartialData"
    PROVE  LET verdict == EvaluatePair(x, s, t)
           IN  /\ verdict.state = "Allowed" => Certain(verdict.permissions) # {}
               /\ \A w \in Worlds(t) :
                    LET traffic == PairTraffic(w, x, s, t)
                    IN  Certain(verdict.permissions) \subseteq traffic
                        /\ traffic \subseteq Possible(verdict.permissions)
<1> DEFINE verdict == EvaluatePair(x, s, t)
           permissions == verdict.permissions
<1>1. /\ \A p \in permissions : WellFormed(p)
      /\ \A w \in Worlds(t) :
           LET traffic == PairTraffic(w, x, s, t)
           IN  traffic \subseteq AllTraffic /\ Below(permissions, traffic) /\ Above(permissions, traffic)
  BY PairIsBracketed
<1>2. verdict.state = "Allowed" => KnownPermissions(permissions)
  BY DEF EvaluatePair, MeetOfSides, ApplyUncertainty, StateOf
<1> HIDE DEF verdict, permissions
<1>3. KnownPermissions(permissions) => Certain(permissions) # {}
  <2> SUFFICES ASSUME NEW p \in permissions, ~p.unknown
               PROVE  Certain(permissions) # {}
    BY DEF KnownPermissions
  <2>1. p.protocol \in Protocols /\ p.lo \in Ports /\ p.hi \in Ports /\ p.lo <= p.hi
    BY <1>1 DEF WellFormed, Permission
  <2>2. Covers(p, p.protocol, p.lo)
    BY <2>1 DEF Covers, Ports
  <2>3. <<p.protocol, p.lo>> \in AllTraffic
    BY <2>1 DEF AllTraffic
  <2>4. <<p.protocol, p.lo>> \in Certain(permissions)
    BY <2>2, <2>3 DEF Certain, Certainly
  <2> QED
    BY <2>4
<1>4. ASSUME NEW w \in Worlds(t)
      PROVE  LET traffic == PairTraffic(w, x, s, t)
             IN  Certain(permissions) \subseteq traffic /\ traffic \subseteq Possible(permissions)
  <2> DEFINE traffic == PairTraffic(w, x, s, t)
  <2>1. traffic \subseteq AllTraffic /\ Below(permissions, traffic) /\ Above(permissions, traffic)
    BY <1>1
  <2> HIDE DEF traffic
  <2>2. Certain(permissions) \subseteq traffic
    <3> SUFFICES ASSUME NEW a \in Certain(permissions) PROVE a \in traffic
      OBVIOUS
    <3>1. a \in AllTraffic /\ Certainly(permissions, a[1], a[2])
      BY DEF Certain
    <3>2. a[1] \in Protocols /\ a[2] \in Ports /\ a = <<a[1], a[2]>>
      BY <3>1 DEF AllTraffic
    <3> QED
      BY <2>1, <3>1, <3>2 DEF Below
  <2>3. traffic \subseteq Possible(permissions)
    <3> SUFFICES ASSUME NEW a \in traffic PROVE a \in Possible(permissions)
      OBVIOUS
    <3>1. a \in AllTraffic
      BY <2>1
    <3>2. a[1] \in Protocols /\ a[2] \in Ports /\ a = <<a[1], a[2]>>
      BY <3>1 DEF AllTraffic
    <3>3. Possibly(permissions, a[1], a[2])
      BY <2>1, <3>2 DEF Above
    <3> QED
      BY <3>1, <3>3 DEF Possible
  <2> QED
    BY <2>2, <2>3 DEF traffic
<1> QED
  BY <1>2, <1>3, <1>4 DEF verdict, permissions

(* A verdict on two pods that is not partial data holds of the cluster:    *)
(* what it calls known gets through whatever the snapshot leaves open,     *)
(* nothing else than what it calls possible does, and it is not Allowed    *)
(* for nothing.                                                            *)
THEOREM VerdictsAlwaysHold == Spec => []VerdictsHold
<1>1. ClusterOK /\ CacheInv /\ AnswerInv => VerdictsHold
  <2> SUFFICES ASSUME ClusterOK, AnswerInv, result # NoResult, NEW d \in Directions,
                      NEW verdict \in Pairs(d), BetweenPods(verdict), verdict.state # "PartialData"
               PROVE  /\ verdict.state = "Allowed" => Certain(verdict.permissions) # {}
                      /\ \A w \in Worlds(verdict.destination) :
                           LET traffic == PairTraffic(w, Cluster, verdict.source, verdict.destination)
                           IN  Certain(verdict.permissions) \subseteq traffic
                               /\ traffic \subseteq Possible(verdict.permissions)
    BY DEF VerdictsHold, Answered
  <2>1. PICK x : \E ref \in Subjects :
           /\ Current(x) /\ Snapshot(x) /\ x.pods \subseteq Pods
           /\ ResolveSubject(x, ref) \in SUBSET x.pods
           /\ Consists(result.directions[d], x, ResolveSubject(x, ref), d)
    BY AnswerConsists
  <2>2. PICK ref \in Subjects :
           /\ Current(x) /\ Snapshot(x) /\ x.pods \subseteq Pods
           /\ ResolveSubject(x, ref) \in SUBSET x.pods
           /\ Consists(result.directions[d], x, ResolveSubject(x, ref), d)
    BY <2>1
  <2>3. PICK i \in DOMAIN result.directions[d].primitives :
           verdict \in result.directions[d].primitives[i].pairs
    BY DEF Pairs, Primitives
  <2>4. PICK c \in CandidateSet(x, ResolveSubject(x, ref), d) : \E cut \in BOOLEAN : \E pairs :
           MadeOf(result.directions[d].primitives[i], pairs, cut, x, ResolveSubject(x, ref), d, c)
    BY <2>2 DEF Consists
  <2>5. verdict \in VerdictsOn(x, ResolveSubject(x, ref), d, c)
    BY <2>3, <2>4, MadeWithin
  <2>6. PICK s \in Pods, t \in Pods : verdict = EvaluatePair(x, s, t)
    BY <2>2, <2>5, VerdictIsOfPods
  <2>7. verdict.source = s /\ verdict.destination = t
    BY <2>6, VerdictEnds
  <2>8. x.policies = Cluster.policies
    BY <2>2 DEF Current
  <2>9. \A w : PairTraffic(w, x, s, t) = PairTraffic(w, Cluster, s, t)
    BY <2>8, SamePair
  <2>10. /\ verdict.state = "Allowed" => Certain(verdict.permissions) # {}
         /\ \A w \in Worlds(t) :
              LET traffic == PairTraffic(w, x, s, t)
              IN  Certain(verdict.permissions) \subseteq traffic
                  /\ traffic \subseteq Possible(verdict.permissions)
    BY <2>2, <2>6, PairVerdictHolds
  <2> QED
    BY <2>7, <2>9, <2>10
<1> QED
  BY <1>1, AnswerAlways, PTL

-----------------------------------------------------------------------------
(* With every list complete the index resolves as the cluster does.        *)
LEMMA SameResolution ==
    ASSUME NEW x, Current(x), incomplete = {}
    PROVE  /\ \A workload : PodsForWorkload(x, workload) = PodsForWorkload(Cluster, workload)
           /\ \A n : PodsIn(x, n) = PodsIn(Cluster, n)
           /\ \A ref : ResolveSubject(x, ref) = ResolveSubject(Cluster, ref)
<1>1. x.pods = Cluster.pods /\ x.replicaSets = Cluster.replicaSets /\ x.incomplete = Cluster.incomplete
  BY DEF Current, Cluster
<1>2. \A workload : OwnedBy(x, workload) = OwnedBy(Cluster, workload)
  BY <1>1 DEF OwnedBy
<1>3. \A workload : ~Fallback(x, workload) /\ ~Fallback(Cluster, workload)
  <2>1. x.incomplete = {} /\ Cluster.incomplete = {}
    BY <1>1 DEF Cluster
  <2> QED
    BY <2>1 DEF Fallback, OwnershipIncomplete
<1>4. \A workload : PodsForWorkload(x, workload) = PodsForWorkload(Cluster, workload)
  BY <1>2, <1>3 DEF PodsForWorkload
<1>5. \A n : PodsIn(x, n) = PodsIn(Cluster, n)
  BY <1>1 DEF PodsIn
<1>6. \A ref : ResolveSubject(x, ref) = ResolveSubject(Cluster, ref)
  BY <1>1, <1>4, <1>5 DEF ResolveSubject
<1> QED
  BY <1>4, <1>5, <1>6

(* The verdict on a side is on its two ends.                               *)
LEMMA SideOfVerdict ==
    ASSUME NEW x, NEW subject, NEW d \in Directions, NEW c, c.kind = "cidr" => c.members = {NoPod},
           NEW side \in subject \X c.members
    PROVE  /\ SubjectOf(VerdictOn(x, d, c, side), d) = side[1]
           /\ OtherOf(VerdictOn(x, d, c, side), d) = side[2]
<1>1. CASE c.kind = "cidr"
  <2>1. side[2] = NoPod /\ VerdictOn(x, d, c, side) = EvaluateCIDRSide(x, d, side[1], c.name)
    BY <1>1 DEF VerdictOn
  <2> QED
    BY <2>1, BlockVerdictEnds DEF SubjectOf, OtherOf, Directions
<1>2. CASE c.kind # "cidr"
  <2>1. VerdictOn(x, d, c, side) = EvaluatePair(x, Ends(d, side)[1], Ends(d, side)[2])
    BY <1>2 DEF VerdictOn
  <2>2. /\ d = "ingress" => Ends(d, side)[1] = side[2] /\ Ends(d, side)[2] = side[1]
        /\ d = "egress" => Ends(d, side)[1] = side[1] /\ Ends(d, side)[2] = side[2]
    BY DEF Ends
  <2> QED
    BY <2>1, <2>2, VerdictEnds DEF SubjectOf, OtherOf, Directions
<1> QED
  BY <1>1, <1>2

LEMMA WholeIsComplete ==
    ASSUME NEW x, Current(x), incomplete = {}, NEW d \in Directions,
           NEW c \in CandidateSet(x, ResolveSubject(x, result.ref), d), NEW primitive,
           primitive.kind = c.kind, primitive.name = c.name,
           primitive.pairs = VerdictsOn(x, ResolveSubject(x, result.ref), d, c)
    PROVE  Complete(primitive, d)
<1> DEFINE subject == ResolveSubject(x, result.ref)
<1>1. x.pods \subseteq Pods
  BY DEF Current
<1>2. \/ c.kind = "cidr" /\ c.members = {NoPod}
      \/ c.kind = "pod" /\ c.members = {c.name}
      \/ c.kind = "namespace" /\ c.members = PodsIn(x, c.name)
      \/ c.kind \in {"deployment", "job"} /\ c.members = PodsForWorkload(x, c.name)
  BY <1>1, CandidateIs
<1>3. c.members = MembersOf(primitive)
  <2>1. PodsIn(x, c.name) = PodsIn(Cluster, c.name) /\ PodsForWorkload(x, c.name) = PodsForWorkload(Cluster, c.name)
    BY SameResolution
  <2> QED
    BY <1>2, <2>1 DEF MembersOf
<1>4. subject = ResolveSubject(Cluster, result.ref)
  BY SameResolution
<1> DEFINE ends(v) == <<SubjectOf(v, d), OtherOf(v, d)>>
<1>5. \A side \in subject \X c.members :
        /\ VerdictOn(x, d, c, side) \in primitive.pairs
        /\ ends(VerdictOn(x, d, c, side)) = side
  <2> TAKE side \in subject \X c.members
  <2>1. VerdictOn(x, d, c, side) \in primitive.pairs
    BY DEF VerdictsOn
  <2>2. SubjectOf(VerdictOn(x, d, c, side), d) = side[1] /\ OtherOf(VerdictOn(x, d, c, side), d) = side[2]
    BY <1>2, SideOfVerdict
  <2> QED
    BY <2>1, <2>2
<1>6. \A v \in primitive.pairs : \E side \in subject \X c.members : v = VerdictOn(x, d, c, side)
  BY DEF VerdictsOn
<1> HIDE DEF subject
<1>7. {ends(v) : v \in primitive.pairs} = subject \X c.members
  <2> HIDE DEF ends
  <2> QED
    BY <1>5, <1>6
<1> QED
  BY <1>3, <1>4, <1>7 DEF Complete

LEMMA AllAreCandidates ==
    ASSUME NEW x, x.pods = Pods, NEW subject, NEW d,
           NEW n \in Pods \union Namespaces \union Deployments \union Jobs
    PROVE  \E c \in CandidateSet(x, subject, d) : c.name = n
<1> DEFINE set == CandidateSet(x, subject, d)
<1>1. CASE n \in Pods
  <2>1. Candidate("pod", n, {n}, FALSE) \in set
    BY <1>1 DEF CandidateSet, PodCandidates
  <2> QED
    BY <2>1 DEF Candidate
<1>2. CASE n \in Namespaces
  <2>1. Candidate("namespace", n, PodsIn(x, n), FALSE) \in set
    BY <1>2 DEF CandidateSet, NamespaceCandidates
  <2> QED
    BY <2>1 DEF Candidate
<1>3. CASE n \in Deployments
  <2>1. Candidate("deployment", n, PodsForWorkload(x, n), Fallback(x, n)) \in set
    BY <1>3 DEF CandidateSet, DeploymentCandidates
  <2> QED
    BY <2>1 DEF Candidate
<1>4. CASE n \in Jobs
  <2>1. Candidate("job", n, PodsForWorkload(x, n), Fallback(x, n)) \in set
    BY <1>4 DEF CandidateSet, JobCandidates
  <2> QED
    BY <2>1 DEF Candidate
<1> QED
  BY <1>1, <1>2, <1>3, <1>4

(* A primitive that is not partial data covers every pair of its pods and  *)
(* the subject's, at any limits, and an answer that does not say it is     *)
(* truncated leaves out no pair and no pod, namespace or workload.         *)
THEOREM TruncationIsAlwaysTold == Spec => []TruncationIsTold
<1>1. ClusterOK /\ CacheInv /\ AnswerInv => TruncationIsTold
  <2> SUFFICES ASSUME ClusterOK, AnswerInv, result # NoResult, NEW d \in Directions
               PROVE  /\ \A primitive \in Primitives(d) :
                            primitive.state # "PartialData" => Complete(primitive, d)
                      /\ Untruncated /\ incomplete = {} =>
                           /\ \A primitive \in Primitives(d) : Complete(primitive, d)
                           /\ Pods \union Namespaces \union Deployments \union Jobs
                              \subseteq {primitive.name : primitive \in Primitives(d)}
    BY DEF TruncationIsTold, Answered
  <2>1. PICK x : /\ Current(x) /\ x.pods \subseteq Pods
                 /\ Consists(result.directions[d], x, ResolveSubject(x, result.ref), d)
    BY AnswerConsists
  <2> DEFINE subject == ResolveSubject(x, result.ref)
             set == CandidateSet(x, subject, d)
  <2>2. \A primitive \in Primitives(d) : \E c \in set : \E cut \in BOOLEAN : \E pairs :
          /\ MadeOf(primitive, pairs, cut, x, subject, d, c)
          /\ ~result.directions[d].truncated => ~cut
    BY <2>1 DEF Primitives, Consists
  <2>3. ASSUME NEW primitive \in Primitives(d),
               primitive.state # "PartialData" \/ (incomplete = {} /\ ~result.directions[d].truncated)
        PROVE  Complete(primitive, d)
    <3>1. PICK c \in set : \E cut \in BOOLEAN : \E pairs :
            /\ MadeOf(primitive, pairs, cut, x, subject, d, c)
            /\ ~result.directions[d].truncated => ~cut
      BY <2>2
    <3>2. PICK cut \in BOOLEAN : \E pairs :
            /\ MadeOf(primitive, pairs, cut, x, subject, d, c)
            /\ ~result.directions[d].truncated => ~cut
      BY <3>1
    <3>3. PICK pairs :
            /\ MadeOf(primitive, pairs, cut, x, subject, d, c)
            /\ ~result.directions[d].truncated => ~cut
      BY <3>2
    <3>4. primitive.state # "PartialData" => x.incomplete = {} /\ ~cut
      <4>1. primitive.state = AggregateState(pairs, PartialData(x, c, cut))
        BY <3>3, MadeWithin
      <4>2. PartialData(x, c, cut) => primitive.state = "PartialData"
        BY <4>1 DEF AggregateState
      <4> QED
        BY <4>2 DEF PartialData
    <3>5. incomplete = {} /\ ~cut
      BY <2>1, <2>3, <3>3, <3>4 DEF Current
    <3>6. primitive.kind = c.kind /\ primitive.name = c.name /\ primitive.pairs = VerdictsOn(x, subject, d, c)
      BY <3>3, <3>5, MadeWithin DEF MadeOf
    <3> QED
      BY <2>1, <3>5, <3>6, WholeIsComplete
  <2>4. ASSUME Untruncated, incomplete = {}
        PROVE  Pods \union Namespaces \union Deployments \union Jobs
               \subseteq {primitive.name : primitive \in Primitives(d)}
    <3> SUFFICES ASSUME NEW n \in Pods \union Namespaces \union Deployments \union Jobs
                 PROVE  \E primitive \in Primitives(d) : primitive.name = n
      OBVIOUS
    <3>1. ~result.directions[d].truncated /\ x.pods = Pods
      BY <2>1, <2>4 DEF Untruncated, Current
    <3>2. PICK c \in set : c.name = n
      BY <3>1, AllAreCandidates
    <3>3. PICK i \in DOMAIN result.directions[d].primitives : result.directions[d].primitives[i].name = c.name
      BY <2>1, <3>1, <3>2 DEF Consists
    <3> QED
      BY <3>2, <3>3 DEF Primitives
  <2>5. Untruncated => ~result.directions[d].truncated
    BY DEF Untruncated
  <2> QED
    BY <2>3, <2>4, <2>5
<1> QED
  BY <1>1, AnswerAlways, PTL

-----------------------------------------------------------------------------
(* The rules that a matcher for a block settles, at an address of it.  The *)
(* bound is from below only: denials for a part of the block count for all *)
(* of it.                                                                  *)
At(a) == [kind |-> "address", address |-> a]

LEMMA BlockPeersSettled ==
    ASSUME NEW ref \in Block, NEW a \in Address, InBlock(ref, a), NEW peer \in Peer, NEW w, NEW r
    PROVE  /\ PeerMatchesCIDR(peer, ref) => PeerMeets(w, r, peer, At(a))
           /\ PeerMeets(w, r, peer, At(a)) => \/ PeerMatchesCIDR(peer, ref)
                                             \/ PeerBlocksIntersect(peer, ref)
           /\ PeerMeets(w, r, peer, At(a)) => IF peer.blocks # {} THEN PeerBlocksIntersect(peer, ref)
                                             ELSE PeerMatchesAddresses(peer)
<1>1. peer.blocks \subseteq Block /\ (peer.unproven => peer.blocks # {})
  BY DEF Peer
<1>2. PeerMeets(w, r, peer, At(a)) <=>
        IF peer.blocks # {}
        THEN (\E b \in peer.blocks : InBlock(b, a)) /\ (peer.unproven => r.action = w.effect)
        ELSE PeerMatchesAddresses(peer)
  BY DEF PeerMeets, At, PeerMatchesAddresses
<1>3. PeerMatchesCIDR(peer, ref) <=>
        /\ ~peer.unproven
        /\ IF peer.blocks # {} THEN \E b \in peer.blocks : IpBlockContains(b, ref)
           ELSE PeerMatchesAddresses(peer)
  BY DEF PeerMatchesCIDR
<1>4. \A b \in peer.blocks : IpBlockContains(b, ref) => InBlock(b, a)
  BY <1>1, ContainmentIsSound
<1>5. \A b \in peer.blocks : InBlock(b, a) => IpBlockIntersects(b, ref)
  BY <1>1, IntersectionOfBlocksIsExact
<1>6. (\E b \in peer.blocks : InBlock(b, a)) => PeerBlocksIntersect(peer, ref)
  BY <1>5 DEF PeerBlocksIntersect
<1> QED
  BY <1>1, <1>2, <1>3, <1>4, <1>6

LEMMA BlockMatcherSettles ==
    ASSUME NEW ref \in Block, NEW a \in Address, InBlock(ref, a), NEW w
    PROVE  MatchesBelow(w, CIDRMatcher(ref, TRUE), At(a))
<1> DEFINE m == CIDRMatcher(ref, TRUE)
           other == At(a)
<1>1. m.kind = "cidr" /\ m.ref = ref /\ m.partialDeny /\ ~(m.kind = "pod")
  BY DEF CIDRMatcher
<1> HIDE DEF m, other
<1>2. ASSUME NEW r \in Rule, Settled(m, r)
      PROVE  /\ r.action = "allow" /\ Matched(m, r) => Applies(w, r, "allow", other)
             /\ Applies(w, r, "deny", other) => Matched(m, r)
             /\ ~Doubtful(w, r, "deny", other)
  <2>1. r.peers \subseteq Peer
    BY DEF Rule
  <2>2. \A peer \in r.peers :
          /\ PeerMatchesCIDR(peer, ref) => PeerMeets(w, r, peer, other)
          /\ PeerMeets(w, r, peer, other) => PeerMatchesCIDR(peer, ref) \/ PeerBlocksIntersect(peer, ref)
          /\ PeerMeets(w, r, peer, other) => IF peer.blocks # {} THEN PeerBlocksIntersect(peer, ref)
                                             ELSE PeerMatchesAddresses(peer)
    BY <2>1, BlockPeersSettled DEF other
  <2>3. MatchesWhole(m, r) <=>
          Enabled(r) /\ (r.peers = {} \/ \E peer \in r.peers : PeerMatchesCIDR(peer, ref))
    BY <1>1 DEF MatchesWhole
  <2>4. DeniesPart(m, r) <=>
          /\ r.action = "deny" /\ Enabled(r) /\ ~MatchesWhole(m, r)
          /\ \E peer \in r.peers : ~peer.unproven /\ PeerBlocksIntersect(peer, ref)
    BY <1>1 DEF DeniesPart
  <2>5. Enabled(r) => ~\E peer \in r.peers : peer.unproven /\ PeerBlocksIntersect(peer, ref)
    BY <1>1, <1>2 DEF Settled, MatchUncertain
  <2>6. r.uncertain =>
          /\ ~r.uncertainPeers
          /\ ~(/\ ~r.matchNone
               /\ \/ r.peers = {}
                  \/ \E peer \in r.peers : IF peer.blocks # {} THEN PeerBlocksIntersect(peer, ref)
                                           ELSE PeerMatchesAddresses(peer))
    BY <1>1, <1>2 DEF Settled, CouldMatch
  <2>7. Meets(w, r, other) <=>
          ~r.matchNone /\ (r.peers = {} \/ \E peer \in r.peers : PeerMeets(w, r, peer, other))
    BY DEF Meets
  <2>8. r.uncertain => ~Meets(w, r, other) /\ ~r.uncertainPeers
    BY <2>2, <2>6, <2>7
  <2>9. MatchesWhole(m, r) => Meets(w, r, other)
    BY <2>2, <2>3, <2>7 DEF Enabled
  <2>10. ASSUME r.action = "allow", Matched(m, r)
         PROVE  Applies(w, r, "allow", other)
    <3>1. MatchesWhole(m, r)
      BY <2>4, <2>10 DEF Matched
    <3> QED
      BY <2>3, <2>8, <2>9, <2>10, <3>1 DEF Applies, Enabled
  <2>11. ASSUME Applies(w, r, "deny", other)
         PROVE  Matched(m, r)
    <3>1. r.action = "deny" /\ Enabled(r) /\ (r.peers = {} \/ \E peer \in r.peers : PeerMeets(w, r, peer, other))
      BY <2>7, <2>11 DEF Applies, Enabled
    <3>2. \/ MatchesWhole(m, r)
          \/ \E peer \in r.peers : PeerBlocksIntersect(peer, ref)
      BY <2>2, <2>3, <3>1
    <3> QED
      BY <2>4, <2>5, <3>1, <3>2 DEF Matched
  <2> QED
    BY <2>8, <2>10, <2>11 DEF Doubtful
<1> QED
  BY <1>2 DEF MatchesBelow, m, other

(* The verdict on a block, at each of its addresses.                       *)
LEMMA BlockVerdictHolds ==
    ASSUME NEW x, Snapshot(x), NEW d \in Directions, NEW pod \in Pods, NEW ref \in Block,
           EvaluateCIDRSide(x, d, pod, ref).state # "PartialData",
           NEW a \in Address, InBlock(ref, a),
           NEW w \in Worlds(IF d = "egress" THEN NoPod ELSE pod)
    PROVE  Certain(EvaluateCIDRSide(x, d, pod, ref).permissions) \subseteq AddressTraffic(w, x, d, pod, a)
<1> DEFINE destination == IF d = "egress" THEN NoPod ELSE pod
           m == CIDRMatcher(ref, TRUE)
           decision == EvaluateLayers(x, d, pod, destination, m)
           verdict == EvaluateCIDRSide(x, d, pod, ref)
           traffic == SideTraffic(w, x, d, pod, destination, At(a))
<1>1. /\ verdict.permissions = decision.permissions
      /\ decision.uncertain => verdict.state = "PartialData"
  <2> HIDE DEF decision
  <2>1. PICK intersected \in BOOLEAN : \E possible : verdict = BlockVerdict(d, pod, intersected, decision, possible)
    BY DEF EvaluateCIDRSide, decision
  <2>2. PICK possible : verdict = BlockVerdict(d, pod, intersected, decision, possible)
    BY <2>1
  <2> HIDE DEF verdict
  <2> QED
    BY <2>2 DEF BlockVerdict, ApplyUncertainty
<1>2. destination \in Destinations
  BY DEF Destinations
<1>3. ~(At(a).kind = "pod") /\ w \in Worlds(destination)
  BY DEF At
<1>4. ~decision.uncertain
  BY <1>1
<1>5. MatchesBelow(w, m, At(a))
  BY BlockMatcherSettles
<1>6. Below(decision.permissions, traffic)
  <2> HIDE DEF destination, m
  <2> QED
    BY <1>2, <1>3, <1>4, <1>5, SideIsBracketed
<1>7. AddressTraffic(w, x, d, pod, a) = traffic
  BY DEF AddressTraffic, At
<1> HIDE DEF decision, verdict, traffic
<1>8. Certain(decision.permissions) \subseteq traffic
  <2> SUFFICES ASSUME NEW t \in Certain(decision.permissions) PROVE t \in traffic
    OBVIOUS
  <2>1. t \in AllTraffic /\ Certainly(decision.permissions, t[1], t[2])
    BY DEF Certain
  <2>2. t[1] \in Protocols /\ t[2] \in Ports /\ t = <<t[1], t[2]>>
    BY <2>1 DEF AllTraffic
  <2> QED
    BY <1>6, <2>1, <2>2 DEF Below
<1> QED
  BY <1>1, <1>7, <1>8 DEF verdict

LEMMA SameAddress ==
    ASSUME NEW x, NEW y, x.policies = y.policies, NEW w, NEW d, NEW pod, NEW a
    PROVE  AddressTraffic(w, x, d, pod, a) = AddressTraffic(w, y, d, pod, a)
BY SameLayer DEF AddressTraffic, SideTraffic

(* The blocks of the candidates are those of the rules.                    *)
LEMMA BlockCandidate ==
    ASSUME NEW x, Snapshot(x), NEW subject, NEW d \in Directions,
           NEW c \in CandidateSet(x, subject, d), c.kind = "cidr"
    PROVE  c.name \in Block
<1>1. c \in CIDRCandidates(x, subject, d)
  BY DEF CandidateSet, PodCandidates, NamespaceCandidates, DeploymentCandidates, JobCandidates,
         Candidate
<1>2. c.name \in CIDRPrimitives(x, subject, d)
  BY <1>1 DEF CIDRCandidates, Candidate
<1> QED
  BY <1>2, CIDRPrimitivesAreBlocks

(* What a verdict on a block that is not partial data calls known gets     *)
(* through at every address of the block that is not excepted, whatever    *)
(* the snapshot leaves open: a denial of any part of the block takes from  *)
(* all of it, and a grant counts when it holds for all of it.              *)
THEOREM CIDRsAreAlwaysGuaranteed == Spec => []CIDRsAreGuaranteed
<1>1. ClusterOK /\ CacheInv /\ AnswerInv => CIDRsAreGuaranteed
  <2> SUFFICES ASSUME ClusterOK, AnswerInv, result # NoResult, NEW d \in Directions,
                      NEW primitive \in Primitives(d), primitive.kind = "cidr",
                      NEW verdict \in primitive.pairs, verdict.state # "PartialData",
                      NEW a \in {b \in Address : InBlock(primitive.name, b)},
                      NEW w \in Worlds(verdict.destination)
               PROVE  Certain(verdict.permissions)
                          \subseteq AddressTraffic(w, Cluster, d, SubjectOf(verdict, d), a)
    BY DEF CIDRsAreGuaranteed, Answered
  <2>1. PICK x : \E ref \in Subjects :
           /\ Current(x) /\ Snapshot(x) /\ x.pods \subseteq Pods
           /\ ResolveSubject(x, ref) \in SUBSET x.pods
           /\ Consists(result.directions[d], x, ResolveSubject(x, ref), d)
    BY AnswerConsists
  <2>2. PICK ref \in Subjects :
           /\ Current(x) /\ Snapshot(x) /\ x.pods \subseteq Pods
           /\ ResolveSubject(x, ref) \in SUBSET x.pods
           /\ Consists(result.directions[d], x, ResolveSubject(x, ref), d)
    BY <2>1
  <2>3. PICK i \in DOMAIN result.directions[d].primitives : primitive = result.directions[d].primitives[i]
    BY DEF Primitives
  <2>4. PICK c \in CandidateSet(x, ResolveSubject(x, ref), d) : \E cut \in BOOLEAN : \E pairs :
           MadeOf(primitive, pairs, cut, x, ResolveSubject(x, ref), d, c)
    BY <2>2, <2>3 DEF Consists
  <2>5. /\ c.kind = "cidr" /\ c.name = primitive.name
        /\ verdict \in VerdictsOn(x, ResolveSubject(x, ref), d, c)
    BY <2>4, MadeWithin
  <2>6. c.name \in Block
    BY <2>2, <2>5, BlockCandidate
  <2>7. PICK side \in ResolveSubject(x, ref) \X c.members : verdict = VerdictOn(x, d, c, side)
    BY <2>5 DEF VerdictsOn
  <2> DEFINE pod == side[1]
  <2>8. pod \in Pods /\ verdict = EvaluateCIDRSide(x, d, pod, c.name)
    BY <2>2, <2>5, <2>7 DEF VerdictOn
  <2> HIDE DEF pod
  <2>9. /\ verdict.source = IF d = "egress" THEN pod ELSE NoPod
        /\ verdict.destination = IF d = "egress" THEN NoPod ELSE pod
    BY <2>8, BlockVerdictEnds
  <2>10. SubjectOf(verdict, d) = pod
    BY <2>9 DEF SubjectOf, Directions
  <2>11. Certain(verdict.permissions) \subseteq AddressTraffic(w, x, d, pod, a)
    BY <2>2, <2>5, <2>6, <2>8, <2>9, BlockVerdictHolds
  <2>12. AddressTraffic(w, x, d, pod, a) = AddressTraffic(w, Cluster, d, pod, a)
    BY <2>2, SameAddress DEF Current
  <2> QED
    BY <2>10, <2>11, <2>12
<1> QED
  BY <1>1, AnswerAlways, PTL

-----------------------------------------------------------------------------
(* What the evidence of a verdict shows: a rule that is listed for the     *)
(* pod, and, when it is not synthetic, one that matches the other side and *)
(* covers the ports it is cited with.                                      *)
Shows(e, x, direction, pod, destination, m) ==
    /\ e = Evidence(e.id, e.action, e.ports)
    /\ e.id.direction = direction
    /\ e.id \in RulesListed(x, pod, direction)
    /\ \A p \in e.ports : WellFormed(p)
    /\ Explicit(e.id) =>
         /\ RuleAt(x, e.id) \in Rule
         /\ Matched(m, RuleAt(x, e.id))
         /\ e.action = RuleAt(x, e.id).action
         /\ \A q \in Protocols, n \in Ports :
              Certainly(e.ports, q, n) => Certainly(PermissionsForRule(RuleAt(x, e.id), destination), q, n)

LEMMA LayerShows ==
    ASSUME NEW x, Snapshot(x), NEW layer \in Layers, NEW direction \in Directions, NEW pod,
           NEW destination \in Destinations, NEW m,
           NEW e \in EvaluatePolicyLayer(x, layer, direction, pod, destination, m).evidence
    PROVE  /\ Shows(e, x, direction, pod, destination, m)
           /\ /\ Explicit(e.id)
              /\ ~EvaluatePolicyLayer(x, layer, direction, pod, destination, m).uncertain
              => Settled(m, RuleAt(x, e.id))
<1> DEFINE selection == Selection(x, pod, direction, layer)
           ids == RulesOf(x, selection.policies, direction)
           found == {EvidenceFor(x, id, destination) : id \in {r \in ids : Matched(m, RuleAt(x, r))}}
           left == RemainingPermissions(selection.isolated, found)
           decision == EvaluatePolicyLayer(x, layer, direction, pod, destination, m)
           free == OnlyIf(~selection.isolated /\ layer = "network", Unrestricted(direction))
           closed == OnlyIf(left = {} /\ selection.isolated /\ found = {},
                            Evidence(Synthetic(DefaultDeny(layer), direction), "allow", {}))
<1>1. decision.evidence = (found \union free) \union closed
  BY DEF EvaluatePolicyLayer, LayerDecision, EvidenceOfLayer
<1>2. ASSUME e \in found
      PROVE  /\ Shows(e, x, direction, pod, destination, m)
             /\ ~decision.uncertain => Settled(m, RuleAt(x, e.id))
  <2>1. PICK id \in ids : Matched(m, RuleAt(x, id)) /\ e = EvidenceFor(x, id, destination)
    BY <1>2
  <2> HIDE DEF found, left, free, closed
  <2>2. e.id = id /\ e.action = RuleAt(x, id).action /\ e.ports = PermissionsForRule(RuleAt(x, id), destination)
    BY <2>1 DEF EvidenceFor, Evidence
  <2>3. selection.policies \in SUBSET DOMAIN x.policies
    BY SelectionWithin
  <2>4. RuleAt(x, id) \in RulesIn(x, selection.policies, direction) /\ RuleAt(x, id) \in Rule
    <3> HIDE DEF selection
    <3> QED
      BY <2>3, RulesInIs
  <2>5. id.direction = direction
    <3> HIDE DEF selection
    <3> QED
      BY DEF RulesOf, RuleId
  <2>6. id \in RulesListed(x, pod, direction)
    <3>1. selection.policies \subseteq SpeakingPolicies(x, pod, direction)
      BY DEF SpeakingPolicies
    <3> HIDE DEF selection
    <3>2. id \in RulesOf(x, SpeakingPolicies(x, pod, direction), direction)
      BY <3>1 DEF RulesOf
    <3> QED
      BY <3>2 DEF RulesListed
  <2>7. PICK w : w \in Worlds(destination)
    BY WorldExists
  <2>8. ~RuleAt(x, id).matchNone
    BY <2>1 DEF Matched, MatchesWhole, DeniesPart, Enabled
  <2>9. \A p \in e.ports : WellFormed(p)
    BY <2>2, <2>4, <2>7, <2>8, RuleIsBracketed
  <2>10. ~decision.uncertain => Settled(m, RuleAt(x, id))
    <3>1. ~decision.uncertain =>
            \A r \in RulesIn(x, selection.policies, direction) :
              ~MatchUncertain(m, r) /\ ~(r.uncertain /\ CouldMatch(m, r))
      BY <2>7, LayerIs
    <3> HIDE DEF selection, decision
    <3> QED
      BY <2>4, <3>1 DEF Settled
  <2>11. e = Evidence(e.id, e.action, e.ports)
    BY <2>1, <2>2 DEF EvidenceFor
  <2> QED
    BY <2>1, <2>2, <2>4, <2>5, <2>6, <2>9, <2>10, <2>11 DEF Shows
<1>3. ASSUME e \in free
      PROVE  Shows(e, x, direction, pod, destination, m) /\ ~Explicit(e.id)
  <2>1. ~selection.isolated /\ layer = "network" /\ e = Unrestricted(direction)
    BY <1>3 DEF OnlyIf
  <2>2. e.id = Synthetic("unrestricted", direction) /\ e.ports = AllPermissions
    BY <2>1 DEF Unrestricted, Evidence
  <2>3. e.id \in RulesListed(x, pod, direction)
    BY <2>1, <2>2 DEF RulesListed
  <2>4. e.id.direction = direction /\ ~Explicit(e.id)
    BY <2>2 DEF Synthetic, RuleId, Explicit
  <2>5. \A p \in e.ports : WellFormed(p)
    BY <2>2, AllPermissionsAreAll
  <2>6. e = Evidence(e.id, e.action, e.ports)
    BY <2>1 DEF Unrestricted, Evidence
  <2> QED
    BY <2>3, <2>4, <2>5, <2>6 DEF Shows
<1>4. ASSUME e \in closed
      PROVE  Shows(e, x, direction, pod, destination, m) /\ ~Explicit(e.id)
  <2>1. selection.isolated /\ e = Evidence(Synthetic(DefaultDeny(layer), direction), "allow", {})
    BY <1>4 DEF OnlyIf
  <2>2. e.id = Synthetic(DefaultDeny(layer), direction) /\ e.ports = {}
    BY <2>1 DEF Evidence
  <2>3. e.id \in RulesListed(x, pod, direction)
    <3>1. CASE layer = "network"
      BY <2>1, <2>2, <3>1 DEF RulesListed
    <3>2. CASE layer = "authorization"
      BY <2>1, <2>2, <3>2 DEF RulesListed, OnlyIf
    <3> QED
      BY <3>1, <3>2 DEF Layers
  <2>4. e.id.direction = direction /\ ~Explicit(e.id)
    BY <2>2 DEF Synthetic, RuleId, Explicit
  <2>5. e = Evidence(e.id, e.action, e.ports)
    BY <2>1 DEF Evidence
  <2> QED
    BY <2>2, <2>3, <2>4, <2>5 DEF Shows
<1> HIDE DEF found, free, closed
<1> QED
  BY <1>1, <1>2, <1>3, <1>4

LEMMA SideShows ==
    ASSUME NEW x, Snapshot(x), NEW direction \in Directions, NEW pod,
           NEW destination \in Destinations, NEW m,
           NEW e \in EvaluateLayers(x, direction, pod, destination, m).evidence
    PROVE  /\ Shows(e, x, direction, pod, destination, m)
           /\ Explicit(e.id) /\ ~EvaluateLayers(x, direction, pod, destination, m).uncertain
              => Settled(m, RuleAt(x, e.id))
<1> DEFINE layer(l) == EvaluatePolicyLayer(x, l, direction, pod, destination, m)
           decision == EvaluateLayers(x, direction, pod, destination, m)
<1>1. PICK l \in Layers : e \in layer(l).evidence /\ (layer(l).uncertain => decision.uncertain)
  <2>1. CASE direction = "egress"
    <3>1. decision = layer("network") /\ "network" \in Layers
      BY <2>1 DEF EvaluateLayers, DecisionOf, Layers
    <3> HIDE DEF layer, decision
    <3> QED
      BY <3>1 DEF decision
  <2>2. CASE direction # "egress"
    <3>1. decision = CombinePolicyLayers(layer("network"), layer("authorization"))
          /\ "network" \in Layers /\ "authorization" \in Layers
      BY <2>2 DEF EvaluateLayers, DecisionOf, Layers
    <3> HIDE DEF layer
    <3>2. /\ decision.evidence = layer("network").evidence \union layer("authorization").evidence
          /\ decision.uncertain = (layer("network").uncertain \/ layer("authorization").uncertain)
      BY <3>1 DEF CombinePolicyLayers
    <3>3. e \in layer("network").evidence \/ e \in layer("authorization").evidence
      BY <3>2
    <3>4. (layer("network").uncertain => decision.uncertain) /\ (layer("authorization").uncertain => decision.uncertain)
      BY <3>2
    <3> HIDE DEF decision
    <3> QED
      BY <3>1, <3>3, <3>4
  <2> QED
    BY <2>1, <2>2
<1> QED
  BY <1>1, LayerShows

LEMMA DecisionIs ==
    ASSUME NEW x, Snapshot(x), NEW direction \in Directions, NEW pod,
           NEW destination \in Destinations, NEW m
    PROVE  LET decision == EvaluateLayers(x, direction, pod, destination, m)
           IN  /\ \A p \in decision.permissions : WellFormed(p)
               /\ decision.state = "Allowed" => KnownPermissions(decision.permissions)
<1> DEFINE layer(l) == EvaluatePolicyLayer(x, l, direction, pod, destination, m)
           decision == EvaluateLayers(x, direction, pod, destination, m)
<1>1. PICK w : w \in Worlds(destination)
  BY WorldExists
<1>2. \A l : \A p \in layer(l).permissions : WellFormed(p)
  BY <1>1, LayerIs
<1>3. \A l : layer(l).state = "Allowed" => KnownPermissions(layer(l).permissions)
  BY DEF EvaluatePolicyLayer, LayerDecision, StateOf
<1>4. CASE direction = "egress"
  <2>1. decision = layer("network")
    BY <1>4 DEF EvaluateLayers, DecisionOf, Layers
  <2> HIDE DEF layer, decision
  <2> QED
    BY <1>2, <1>3, <2>1 DEF decision
<1>5. CASE direction # "egress"
  <2>1. decision = CombinePolicyLayers(layer("network"), layer("authorization"))
    BY <1>5 DEF EvaluateLayers, DecisionOf, Layers
  <2> HIDE DEF layer
  <2>2. /\ decision.permissions =
             CombinedPermissions(layer("network").permissions, layer("authorization").permissions)
        /\ decision.state = CombinedState(layer("network"), layer("authorization"), decision.permissions)
    BY <2>1 DEF CombinePolicyLayers
  <2>3. \A p \in decision.permissions : WellFormed(p)
    BY <1>2, <2>2, CombinedIsExact
  <2>4. decision.state = "Allowed" => KnownPermissions(decision.permissions)
    BY <2>2 DEF CombinedState
  <2> QED
    BY <2>3, <2>4
<1> QED
  BY <1>4, <1>5

(* What the cited rules of a side show of the other end.                   *)
Cites(verdict, x, d, pod, m) ==
    /\ \A e \in verdict.evidence : \A p \in e.ports : WellFormed(p)
    /\ \A e \in verdict.evidence : e.id.direction = d =>
         /\ Shows(e, x, d, pod, verdict.destination, m)
         /\ Explicit(e.id) /\ verdict.state # "PartialData" => Settled(m, RuleAt(x, e.id))

LEMMA PairCites ==
    ASSUME NEW x, Snapshot(x), NEW s \in Pods, NEW t \in Pods, NEW d \in Directions
    PROVE  LET verdict == EvaluatePair(x, s, t)
           IN  Cites(verdict, x, d, SubjectOf(verdict, d), PodMatcher(OtherOf(verdict, d)))
<1> DEFINE verdict == EvaluatePair(x, s, t)
           egress == EvaluateLayers(x, "egress", s, t, PodMatcher(t))
           ingress == EvaluateLayers(x, "ingress", t, t, PodMatcher(s))
<1>1. verdict = MeetOfSides(s, t, egress, ingress)
  BY DEF EvaluatePair
<1> HIDE DEF egress, ingress
<1>2. /\ verdict.source = s /\ verdict.destination = t
      /\ verdict.evidence = egress.evidence \union ingress.evidence
      /\ verdict.state # "PartialData" => ~(egress.uncertain \/ ingress.uncertain)
  BY <1>1 DEF MeetOfSides, ApplyUncertainty
<1>3. t \in Destinations /\ "egress" \in Directions /\ "ingress" \in Directions
  BY DEF Destinations, Directions
<1>4. \A e \in egress.evidence :
        /\ Shows(e, x, "egress", s, t, PodMatcher(t))
        /\ Explicit(e.id) /\ ~egress.uncertain => Settled(PodMatcher(t), RuleAt(x, e.id))
  BY <1>3, SideShows DEF egress
<1>5. \A e \in ingress.evidence :
        /\ Shows(e, x, "ingress", t, t, PodMatcher(s))
        /\ Explicit(e.id) /\ ~ingress.uncertain => Settled(PodMatcher(s), RuleAt(x, e.id))
  BY <1>3, SideShows DEF ingress
<1>6. \A e \in verdict.evidence : \A p \in e.ports : WellFormed(p)
  BY <1>2, <1>4, <1>5 DEF Shows
<1>7. (\A e \in egress.evidence : e.id.direction = "egress") /\ (\A e \in ingress.evidence : e.id.direction = "ingress")
  BY <1>4, <1>5 DEF Shows
<1>8. CASE d = "egress"
  <2>1. SubjectOf(verdict, d) = s /\ OtherOf(verdict, d) = t
    BY <1>2, <1>8 DEF SubjectOf, OtherOf
  <2> HIDE DEF verdict
  <2> QED
    BY <1>2, <1>4, <1>6, <1>7, <1>8, <2>1 DEF Cites, verdict
<1>9. CASE d = "ingress"
  <2>1. SubjectOf(verdict, d) = t /\ OtherOf(verdict, d) = s
    BY <1>2, <1>9 DEF SubjectOf, OtherOf
  <2> HIDE DEF verdict
  <2> QED
    BY <1>2, <1>5, <1>6, <1>7, <1>9, <2>1 DEF Cites, verdict
<1> QED
  BY <1>8, <1>9 DEF Directions

(* Evidence that is bounded shows no more.                                 *)
LEMMA BoundedShows ==
    ASSUME NEW x, NEW direction, NEW pod, NEW destination, NEW m, NEW f,
           Shows(f, x, direction, pod, destination, m),
           NEW possible, \A p \in possible : WellFormed(p),
           NEW e, e = [f EXCEPT !.ports = IntersectPermissions(f.ports, possible)]
    PROVE  Shows(e, x, direction, pod, destination, m) /\ e.id = f.id
<1>1. f = [id |-> f.id, action |-> f.action, ports |-> f.ports]
  BY DEF Shows, Evidence
<1> DEFINE ports == IntersectPermissions(f.ports, possible)
<1>2. \A p \in f.ports : WellFormed(p)
  BY DEF Shows
<1>3. \A p \in ports : WellFormed(p)
  BY <1>2, ListsStayWellFormed
<1>4. \A q \in Protocols, n \in Ports : Certainly(ports, q, n) => Certainly(f.ports, q, n)
  BY <1>2, IntersectionIsExact
<1> HIDE DEF ports
<1>5. e = [f EXCEPT !.ports = ports]
  BY DEF ports
<1>6. e = [id |-> f.id, action |-> f.action, ports |-> ports]
  BY <1>1, <1>5
<1>7. e.id = f.id /\ e.action = f.action /\ e.ports = ports
  BY <1>6
<1>8. e = Evidence(e.id, e.action, e.ports)
  BY <1>6, <1>7 DEF Evidence
<1> QED
  BY <1>3, <1>4, <1>7, <1>8 DEF Shows

LEMMA BlockCites ==
    ASSUME NEW x, Snapshot(x), NEW d \in Directions, NEW pod \in Pods, NEW ref
    PROVE  LET verdict == EvaluateCIDRSide(x, d, pod, ref)
           IN  /\ Cites(verdict, x, d, pod, CIDRMatcher(ref, TRUE))
               /\ \A p \in verdict.permissions : WellFormed(p)
               /\ verdict.state = "Allowed" => KnownPermissions(verdict.permissions)
<1> DEFINE destination == IF d = "egress" THEN NoPod ELSE pod
           m == CIDRMatcher(ref, TRUE)
           decision == EvaluateLayers(x, d, pod, destination, m)
           possible == EvaluateLayers(x, d, pod, destination, CIDRMatcher(ref, FALSE)).permissions
           verdict == EvaluateCIDRSide(x, d, pod, ref)
<1>1. destination \in Destinations
  BY DEF Destinations
<1>2. PICK intersected \in BOOLEAN : verdict = BlockVerdict(d, pod, intersected, decision, possible)
  BY DEF EvaluateCIDRSide
<1>3. /\ \A p \in decision.permissions : WellFormed(p)
      /\ decision.state = "Allowed" => KnownPermissions(decision.permissions)
      /\ \A p \in possible : WellFormed(p)
  <2> HIDE DEF destination
  <2> QED
    BY <1>1, DecisionIs
<1>4. \A e \in decision.evidence :
        /\ Shows(e, x, d, pod, destination, m)
        /\ Explicit(e.id) /\ ~decision.uncertain => Settled(m, RuleAt(x, e.id))
  <2> HIDE DEF destination, m
  <2> QED
    BY <1>1, SideShows
<1> HIDE DEF decision, possible, verdict, m
<1>5. /\ verdict.destination = destination
      /\ verdict.permissions = decision.permissions
      /\ verdict.evidence = IF intersected THEN BoundedBy(possible, decision.evidence) ELSE decision.evidence
      /\ decision.uncertain => verdict.state = "PartialData"
      /\ verdict.state = "Allowed" => decision.state = "Allowed"
  BY <1>2 DEF BlockVerdict, ApplyUncertainty
<1>6. ASSUME NEW e \in verdict.evidence
      PROVE  \E f \in decision.evidence : e.id = f.id /\ Shows(e, x, d, pod, destination, m)
  <2>1. CASE ~intersected
    BY <1>4, <1>5, <2>1
  <2>2. CASE intersected
    <3>1. PICK f \in decision.evidence :
             e = IF f.action = "deny" THEN f ELSE [f EXCEPT !.ports = IntersectPermissions(f.ports, possible)]
      BY <1>5, <2>2 DEF BoundedBy
    <3>2. Shows(f, x, d, pod, destination, m)
      BY <1>4
    <3>3. CASE f.action = "deny"
      BY <3>1, <3>2, <3>3
    <3>4. CASE f.action # "deny"
      <4>1. e = [f EXCEPT !.ports = IntersectPermissions(f.ports, possible)]
        BY <3>1, <3>4
      <4>2. Shows(e, x, d, pod, destination, m) /\ e.id = f.id
        BY <1>3, <3>2, <4>1, BoundedShows
      <4> QED
        BY <4>2
    <3> QED
      BY <3>3, <3>4
  <2> QED
    BY <2>1, <2>2
<1> HIDE DEF destination
<1>7. \A e \in verdict.evidence : \A p \in e.ports : WellFormed(p)
  BY <1>6 DEF Shows
<1>8. \A e \in verdict.evidence :
        /\ Shows(e, x, d, pod, verdict.destination, m)
        /\ Explicit(e.id) /\ verdict.state # "PartialData" => Settled(m, RuleAt(x, e.id))
  BY <1>4, <1>5, <1>6
<1>9. Cites(verdict, x, d, pod, m)
  BY <1>7, <1>8 DEF Cites
<1> QED
  BY <1>3, <1>5, <1>9 DEF verdict, m

-----------------------------------------------------------------------------
(* A list that knows a permission knows some traffic.                      *)
LEMMA KnownIsCertain ==
    ASSUME NEW list, \A p \in list : WellFormed(p), KnownPermissions(list)
    PROVE  \E q \in Protocols, n \in Ports : Certainly(list, q, n)
<1>1. PICK p \in list : ~p.unknown
  BY DEF KnownPermissions
<1>2. p.protocol \in Protocols /\ p.lo \in Ports /\ p.hi \in Ports /\ p.lo <= p.hi
  BY DEF WellFormed, Permission
<1>3. Covers(p, p.protocol, p.lo)
  BY <1>2 DEF Covers, Ports
<1> QED
  BY <1>1, <1>2, <1>3 DEF Certainly

(* The ports of some of the evidence.                                      *)
LEMMA PortsOfIs ==
    ASSUME NEW evidence, \A e \in evidence : \A p \in e.ports : WellFormed(p)
    PROVE  /\ \A p \in PortsOf(evidence) : WellFormed(p)
           /\ \A q \in Protocols, n \in Ports :
                (\A e \in evidence : Explicit(e.id)) /\ Certainly(PortsOf(evidence), q, n)
                => \E e \in evidence : Certainly(e.ports, q, n)
<1> DEFINE ports(e) == IF ~Explicit(e.id) /\ e.id.policy = "unrestricted" THEN AllPermissions ELSE e.ports
           list == UNION {ports(e) : e \in evidence}
<1>1. \A e \in evidence : \A p \in ports(e) : WellFormed(p)
  BY AllPermissionsAreAll
<1>2. \A e \in evidence : Explicit(e.id) => ports(e) = e.ports
  OBVIOUS
<1>3. PortsOf(evidence) = Canonical(list)
  BY DEF PortsOf
<1> HIDE DEF ports
<1>4. \A p \in list : \E e \in evidence : p \in ports(e)
  OBVIOUS
<1> HIDE DEF list
<1>5. \A p \in list : WellFormed(p)
  BY <1>1, <1>4
<1>6. list \in SUBSET Permission
  BY <1>5 DEF WellFormed
<1>7. \A p \in PortsOf(evidence) : WellFormed(p)
  BY <1>3, <1>5, CanonicalIsWellFormed
<1>8. \A q \in Protocols, n \in Ports : Certainly(PortsOf(evidence), q, n) => Certainly(list, q, n)
  BY <1>3, <1>6, CanonicalIsExact
<1>9. ASSUME NEW q \in Protocols, NEW n \in Ports, \A e \in evidence : Explicit(e.id),
             Certainly(PortsOf(evidence), q, n)
      PROVE  \E e \in evidence : Certainly(e.ports, q, n)
  <2>1. PICK p \in list : ~p.unknown /\ Covers(p, q, n)
    BY <1>8, <1>9 DEF Certainly
  <2>2. PICK e \in evidence : p \in ports(e)
    BY <1>4
  <2>3. p \in e.ports
    BY <1>2, <1>9, <2>2
  <2> QED
    BY <2>1, <2>3 DEF Certainly
<1> QED
  BY <1>7, <1>9

(* What a rule possibly lets through on a pair, it is cited with.          *)
LEMMA PossibleIsCited ==
    ASSUME NEW primitive, NEW pair, \A e \in pair.evidence : \A p \in e.ports : WellFormed(p),
           NEW direction, NEW id, Explicit(id)
    PROVE  LET possible == PossibleOf(primitive, pair, direction, id)
           IN  /\ \A p \in possible : WellFormed(p)
               /\ \A q \in Protocols, n \in Ports : Certainly(possible, q, n) =>
                    \E e \in pair.evidence : e.id = id /\ Certainly(e.ports, q, n)
<1> DEFINE cited == {e \in pair.evidence : e.id = id}
           across == {e \in pair.evidence : e.id.direction = Opposite(direction)}
           selected == PortsOf(cited)
           opposite == PortsOf(across)
           possible == PossibleOf(primitive, pair, direction, id)
<1>1. possible = IF primitive.kind = "cidr" THEN selected ELSE IntersectPermissions(selected, opposite)
  BY DEF PossibleOf
<1>2. /\ \A e \in cited : \A p \in e.ports : WellFormed(p)
      /\ \A e \in across : \A p \in e.ports : WellFormed(p)
      /\ \A e \in cited : Explicit(e.id)
  OBVIOUS
<1>3. \A e \in cited : e \in pair.evidence /\ e.id = id
  OBVIOUS
<1> HIDE DEF cited, across, possible
<1>4. /\ \A p \in selected : WellFormed(p)
      /\ \A p \in opposite : WellFormed(p)
      /\ \A q \in Protocols, n \in Ports : Certainly(selected, q, n) => \E e \in cited : Certainly(e.ports, q, n)
  BY <1>2, PortsOfIs
<1> HIDE DEF selected, opposite
<1>5. \A p \in possible : WellFormed(p)
  <2>1. \A p \in IntersectPermissions(selected, opposite) : WellFormed(p)
    BY <1>4, ListsStayWellFormed
  <2> QED
    BY <1>1, <1>4, <2>1
<1>6. \A q \in Protocols, n \in Ports : Certainly(possible, q, n) => Certainly(selected, q, n)
  <2>1. \A q \in Protocols, n \in Ports :
          Certainly(IntersectPermissions(selected, opposite), q, n) => Certainly(selected, q, n)
    BY <1>4, IntersectionIsExact
  <2> QED
    BY <1>1, <2>1
<1> QED
  BY <1>3, <1>4, <1>5, <1>6 DEF possible

(* A row that is effective lets some of the pair's traffic through.        *)
LEMMA RowLets ==
    ASSUME NEW x, NEW d, NEW pod, NEW m, NEW verdict, Cites(verdict, x, d, pod, m),
           verdict.state # "PartialData", \A p \in verdict.permissions : WellFormed(p),
           verdict.destination \in Destinations,
           NEW primitive, NEW id, Explicit(id), id.direction = d,
           RulePair(primitive, verdict, d, id).effective,
           NEW w \in Worlds(verdict.destination), NEW other, MatchesBelow(w, m, other),
           NEW traffic, Below(verdict.permissions, traffic)
    PROVE  /\ Meets(w, RuleAt(x, id), other)
           /\ RuleTraffic(w, RuleAt(x, id), verdict.destination) \intersect traffic # {}
<1> DEFINE rule == RuleAt(x, id)
           possible == PossibleOf(primitive, verdict, d, id)
           overlap == IntersectPermissions(possible, verdict.permissions)
<1>1. /\ \E e \in verdict.evidence : e.id = id /\ e.action # "deny"
      /\ \E p \in overlap : ~p.unknown
  <2> HIDE DEF possible
  <2>1. RulePair(primitive, verdict, d, id) = RuleOnPair(verdict, id, possible, overlap)
    BY DEF RulePair, Granted, possible
  <2> HIDE DEF overlap
  <2>2. RuleOnPair(verdict, id, possible, overlap).effective
    BY <2>1
  <2>3. /\ \E e \in verdict.evidence : e.id = id /\ e.action # "deny"
        /\ {p \in overlap : ~p.unknown} # {}
    BY <2>2 DEF RuleOnPair
  <2> QED
    BY <2>3
<1>2. \A e \in verdict.evidence : e.id = id => Shows(e, x, d, pod, verdict.destination, m) /\ Settled(m, rule)
  BY DEF Cites
<1>3. PICK e \in verdict.evidence : e.id = id /\ e.action # "deny"
  BY <1>1
<1> HIDE DEF rule
<1>4. rule \in Rule /\ Matched(m, rule) /\ Settled(m, rule) /\ rule.action = "allow" /\ ~rule.matchNone
  <2>1. rule \in Rule /\ Matched(m, rule) /\ Settled(m, rule) /\ rule.action = e.action
    BY <1>2, <1>3 DEF Shows, rule
  <2>2. rule.action \in {"allow", "deny"}
    BY <2>1 DEF Rule
  <2>3. ~rule.matchNone
    BY <2>1 DEF Matched, MatchesWhole, DeniesPart, Enabled
  <2> QED
    BY <1>3, <2>1, <2>2, <2>3
<1>5. Meets(w, rule, other)
  BY <1>4 DEF MatchesBelow, Applies
<1>6. /\ \A p \in possible : WellFormed(p)
      /\ \A q \in Protocols, n \in Ports : Certainly(possible, q, n) =>
           \E f \in verdict.evidence : f.id = id /\ Certainly(f.ports, q, n)
  <2>1. \A item \in verdict.evidence : \A p \in item.ports : WellFormed(p)
    BY DEF Cites
  <2>2. /\ \A p \in PossibleOf(primitive, verdict, d, id) : WellFormed(p)
        /\ \A protocol \in Protocols, port \in Ports :
             Certainly(PossibleOf(primitive, verdict, d, id), protocol, port) =>
             \E f \in verdict.evidence : f.id = id /\ Certainly(f.ports, protocol, port)
    BY ONLY <2>1, Explicit(id), PossibleIsCited DEF Explicit
  <2> QED
    BY <2>2
<1> HIDE DEF possible
<1>7. PICK q \in Protocols, n \in Ports : Certainly(overlap, q, n)
  <2>1. \A p \in overlap : WellFormed(p)
    BY <1>6, ListsStayWellFormed
  <2> HIDE DEF overlap
  <2> QED
    BY <1>1, <2>1, KnownIsCertain DEF KnownPermissions
<1>8. Certainly(possible, q, n) /\ Certainly(verdict.permissions, q, n)
  BY <1>6, <1>7, IntersectionIsExact
<1>9. PICK f \in verdict.evidence : f.id = id /\ Certainly(f.ports, q, n)
  BY <1>6, <1>8
<1>10. Certainly(PermissionsForRule(rule, verdict.destination), q, n)
  BY <1>2, <1>9 DEF Shows, rule
<1>11. <<q, n>> \in RuleTraffic(w, rule, verdict.destination)
  BY <1>4, <1>10, RuleIsBracketed DEF Below
<1>12. <<q, n>> \in traffic
  BY <1>8 DEF Below
<1> QED
  BY <1>5, <1>11, <1>12 DEF rule

LEMMA KnownGetsThrough ==
    ASSUME NEW list, \A p \in list : WellFormed(p), KnownPermissions(list),
           NEW traffic, Below(list, traffic)
    PROVE  traffic # {}
BY KnownIsCertain DEF Below

(* The rows of a verdict on two pods, and of one on a block.               *)
RowsHold(verdict, d, block) ==
    /\ KnownPermissions(verdict.permissions) => OpenToAll(verdict, d, block)
    /\ \A primitive, id :
          /\ Explicit(id) /\ id.direction = d
          /\ RulePair(primitive, verdict, d, id).effective
          => Effective(id, verdict, d, block)

LEMMA PodRowsHold ==
    ASSUME NEW x, Snapshot(x), x.policies = Cluster.policies, NEW s \in Pods, NEW t \in Pods,
           NEW d \in Directions, NEW block, EvaluatePair(x, s, t).state # "PartialData"
    PROVE  RowsHold(EvaluatePair(x, s, t), d, block)
<1> DEFINE verdict == EvaluatePair(x, s, t)
           pod == SubjectOf(verdict, d)
           m == PodMatcher(OtherOf(verdict, d))
           other == Pod(OtherOf(verdict, d))
           traffic(w) == PairTraffic(w, Cluster, s, t)
<1>1. /\ \A p \in verdict.permissions : WellFormed(p)
      /\ \A w \in Worlds(t) : Below(verdict.permissions, traffic(w))
  <2>1. \A w : PairTraffic(w, x, s, t) = PairTraffic(w, Cluster, s, t)
    BY SamePair
  <2>2. /\ \A p \in verdict.permissions : WellFormed(p)
        /\ \A w \in Worlds(t) : Below(verdict.permissions, PairTraffic(w, x, s, t))
    BY PairIsBracketed
  <2> QED
    BY <2>1, <2>2
<1>2. Cites(verdict, x, d, pod, m)
  BY PairCites
<1>3. verdict.source = s /\ verdict.destination = t
  BY VerdictEnds
<1>4. BetweenPods(verdict)
  BY <1>3, SelectionAssumption DEF BetweenPods
<1>5. OtherOf(verdict, d) \in Pods /\ t \in Destinations
  BY <1>3 DEF OtherOf, Destinations
<1>6. \A w \in Worlds(t) : MatchesBelow(w, m, other)
  BY <1>5, PodMatcherSettles
<1>7. \A id : RuleAt(x, id) = RuleAt(Cluster, id)
  BY DEF RuleAt
<1> HIDE DEF verdict, pod, m, traffic
<1>8. KnownPermissions(verdict.permissions) => OpenToAll(verdict, d, block)
  <2> SUFFICES ASSUME KnownPermissions(verdict.permissions), NEW w \in Worlds(verdict.destination)
               PROVE  PairTraffic(w, Cluster, verdict.source, verdict.destination) # {}
    BY <1>4 DEF OpenToAll
  <2>1. traffic(w) # {}
    BY <1>1, <1>3, KnownGetsThrough
  <2> QED
    BY <1>3, <2>1 DEF traffic
<1>9. ASSUME NEW primitive, NEW id, Explicit(id), id.direction = d,
             RulePair(primitive, verdict, d, id).effective
      PROVE  Effective(id, verdict, d, block)
  <2> SUFFICES ASSUME NEW w \in Worlds(verdict.destination)
               PROVE  Lets(id, w, PairTraffic(w, Cluster, verdict.source, verdict.destination),
                           verdict.destination, [kind |-> "pod", pod |-> OtherOf(verdict, d)])
    BY <1>4 DEF Effective
  <2>1. w \in Worlds(t) /\ Below(verdict.permissions, traffic(w)) /\ MatchesBelow(w, m, other)
    BY <1>1, <1>3, <1>6
  <2>2. verdict.state # "PartialData"
    BY DEF verdict
  <2> HIDE DEF other
  <2>3. /\ Meets(w, RuleAt(x, id), other)
        /\ RuleTraffic(w, RuleAt(x, id), verdict.destination) \intersect traffic(w) # {}
    BY <1>1, <1>2, <1>3, <1>5, <1>9, <2>1, <2>2, RowLets
  <2>4. traffic(w) = PairTraffic(w, Cluster, verdict.source, verdict.destination)
    BY <1>3 DEF traffic
  <2> QED
    BY <1>7, <2>3, <2>4 DEF Lets, other, Pod
<1> QED
  BY <1>8, <1>9 DEF RowsHold, verdict

LEMMA BlockRowsHold ==
    ASSUME NEW x, Snapshot(x), x.policies = Cluster.policies, NEW d \in Directions,
           NEW pod \in Pods, NEW block \in Block, EvaluateCIDRSide(x, d, pod, block).state # "PartialData"
    PROVE  RowsHold(EvaluateCIDRSide(x, d, pod, block), d, block)
<1> DEFINE verdict == EvaluateCIDRSide(x, d, pod, block)
           m == CIDRMatcher(block, TRUE)
           traffic(w, a) == AddressTraffic(w, Cluster, d, pod, a)
           within == {b \in Address : InBlock(block, b)}
<1>1. /\ Cites(verdict, x, d, pod, m)
      /\ \A p \in verdict.permissions : WellFormed(p)
  BY BlockCites
<1>2. /\ verdict.source = IF d = "egress" THEN pod ELSE NoPod
      /\ verdict.destination = IF d = "egress" THEN NoPod ELSE pod
  BY BlockVerdictEnds
<1>3. SubjectOf(verdict, d) = pod /\ ~BetweenPods(verdict) /\ verdict.destination \in Destinations
  BY <1>2 DEF SubjectOf, BetweenPods, Destinations, Directions
<1>4. \A a \in within : \A w : MatchesBelow(w, m, At(a))
  BY BlockMatcherSettles
<1>5. \A a \in within, w \in Worlds(verdict.destination) : Below(verdict.permissions, traffic(w, a))
  <2> TAKE a \in within, w \in Worlds(verdict.destination)
  <2>1. w \in Worlds(IF d = "egress" THEN NoPod ELSE pod)
    BY <1>2
  <2>2. Certain(verdict.permissions) \subseteq AddressTraffic(w, x, d, pod, a)
    BY <2>1, BlockVerdictHolds
  <2>3. AddressTraffic(w, x, d, pod, a) = traffic(w, a)
    BY SameAddress
  <2> HIDE DEF verdict, traffic
  <2> QED
    BY <2>2, <2>3 DEF Below, Certain, AllTraffic
<1>6. \A id : RuleAt(x, id) = RuleAt(Cluster, id)
  BY DEF RuleAt
<1> HIDE DEF verdict, m, traffic
<1>7. KnownPermissions(verdict.permissions) => OpenToAll(verdict, d, block)
  <2> SUFFICES ASSUME KnownPermissions(verdict.permissions), NEW w \in Worlds(verdict.destination),
                      NEW a \in within
               PROVE  AddressTraffic(w, Cluster, d, SubjectOf(verdict, d), a) # {}
    BY <1>3 DEF OpenToAll
  <2> HIDE DEF within
  <2>1. traffic(w, a) # {}
    BY <1>1, <1>5, KnownGetsThrough
  <2> QED
    BY <1>3, <2>1 DEF traffic
<1>8. ASSUME NEW primitive, NEW id, Explicit(id), id.direction = d,
             RulePair(primitive, verdict, d, id).effective
      PROVE  Effective(id, verdict, d, block)
  <2> SUFFICES ASSUME NEW w \in Worlds(verdict.destination), NEW a \in within
               PROVE  Lets(id, w, AddressTraffic(w, Cluster, d, SubjectOf(verdict, d), a),
                           verdict.destination, [kind |-> "address", address |-> a])
    BY <1>3 DEF Effective
  <2> HIDE DEF within
  <2>1. Below(verdict.permissions, traffic(w, a)) /\ MatchesBelow(w, m, At(a))
    BY <1>4, <1>5
  <2>2. verdict.state # "PartialData"
    BY DEF verdict
  <2>3. /\ Meets(w, RuleAt(x, id), At(a))
        /\ RuleTraffic(w, RuleAt(x, id), verdict.destination) \intersect traffic(w, a) # {}
    BY <1>1, <1>3, <1>8, <2>1, <2>2, RowLets
  <2>4. traffic(w, a) = AddressTraffic(w, Cluster, d, SubjectOf(verdict, d), a)
    BY <1>3 DEF traffic
  <2> QED
    BY <1>6, <2>3, <2>4 DEF Lets, At
<1> QED
  BY <1>7, <1>8 DEF RowsHold, verdict

(* A verdict of a primitive is on a pod of the subject and on a pod or the *)
(* primitive's block; its rows hold, and the rules of that side it cites   *)
(* are listed for that pod.                                                *)
LEMMA VerdictOfPrimitive ==
    ASSUME NEW x, Current(x), Snapshot(x), x.pods \subseteq Pods, NEW subject \in SUBSET x.pods,
           NEW d \in Directions, NEW answer, Consists(answer, x, subject, d),
           NEW i \in DOMAIN answer.primitives, NEW verdict \in answer.primitives[i].pairs
    PROVE  LET primitive == answer.primitives[i]
           IN  /\ \A e \in verdict.evidence : e.id.direction = d => \E rule \in answer.rules : rule.id = e.id
               /\ primitive.kind = "cidr" /\ verdict.state = "Allowed" => KnownPermissions(verdict.permissions)
               /\ primitive.state # "PartialData" => RowsHold(verdict, d, primitive.name)
<1> DEFINE primitive == answer.primitives[i]
           pod == SubjectOf(verdict, d)
<1>1. PICK c \in CandidateSet(x, subject, d) : \E cut \in BOOLEAN : \E pairs :
         MadeOf(primitive, pairs, cut, x, subject, d, c)
  BY DEF Consists
<1>2. PICK cut \in BOOLEAN : \E pairs : MadeOf(primitive, pairs, cut, x, subject, d, c)
  BY <1>1
<1>3. PICK pairs : MadeOf(primitive, pairs, cut, x, subject, d, c)
  BY <1>2
<1> HIDE DEF primitive
<1>4. /\ primitive.kind = c.kind /\ primitive.name = c.name /\ primitive.pairs = pairs
      /\ primitive.pairs \subseteq VerdictsOn(x, subject, d, c)
      /\ primitive.state = AggregateState(pairs, PartialData(x, c, cut))
  BY <1>3, MadeWithin
<1>5. verdict \in pairs /\ verdict \in VerdictsOn(x, subject, d, c)
  BY <1>4 DEF primitive
<1>6. primitive.state # "PartialData" => verdict.state # "PartialData"
  BY <1>4, <1>5 DEF AggregateState
<1>7. PICK side \in subject \X c.members : verdict = VerdictOn(x, d, c, side)
  BY <1>5 DEF VerdictsOn
<1>8. x.policies = Cluster.policies
  BY DEF Current
<1>9. side[1] \in subject /\ side[2] \in c.members /\ side[1] \in Pods
  BY <1>7
<1>10. pod \in subject
  <2>1. c.kind = "cidr" => c.members = {NoPod}
    BY CandidateIs
  <2>2. pod = side[1]
    BY <1>7, <2>1, SideOfVerdict
  <2> QED
    BY <1>9, <2>2
<1>11. (\E m : Cites(verdict, x, d, pod, m))
       => \A e \in verdict.evidence : e.id.direction = d => \E rule \in answer.rules : rule.id = e.id
  <2> SUFFICES ASSUME NEW m, Cites(verdict, x, d, pod, m), NEW e \in verdict.evidence, e.id.direction = d
               PROVE  \E rule \in answer.rules : rule.id = e.id
    OBVIOUS
  <2>1. e.id \in RulesListed(x, pod, d)
    BY DEF Cites, Shows
  <2>2. e.id \in UNION {RulesListed(x, p, d) : p \in subject}
    BY <1>10, <2>1
  <2> QED
    BY <2>2 DEF Consists
<1> HIDE DEF pod
<1>12. CASE c.kind = "cidr"
  <2>1. c.name \in Block
    BY <1>12, BlockCandidate
  <2>2. verdict = EvaluateCIDRSide(x, d, side[1], c.name)
    BY <1>7, <1>12 DEF VerdictOn
  <2>3. pod = side[1]
    <3>1. c.members = {NoPod}
      BY <1>12, CandidateIs
    <3> QED
      BY <1>7, <3>1, SideOfVerdict DEF pod
  <2>4. /\ Cites(verdict, x, d, pod, CIDRMatcher(c.name, TRUE))
        /\ verdict.state = "Allowed" => KnownPermissions(verdict.permissions)
    BY <1>9, <2>2, <2>3, BlockCites
  <2>5. verdict.state # "PartialData" => RowsHold(verdict, d, c.name)
    BY <1>8, <1>9, <2>1, <2>2, BlockRowsHold
  <2> QED
    BY <1>4, <1>6, <1>11, <2>4, <2>5 DEF primitive
<1>13. CASE c.kind # "cidr"
  <2>1. verdict = EvaluatePair(x, Ends(d, side)[1], Ends(d, side)[2])
    BY <1>7, <1>13 DEF VerdictOn
  <2>2. side[2] \in Pods
    BY <1>9, <1>13, CandidateIs
  <2>3. PICK s \in Pods, t \in Pods : verdict = EvaluatePair(x, s, t)
    BY <1>9, <2>1, <2>2 DEF Ends
  <2>4. \E m : Cites(verdict, x, d, pod, m)
    BY <2>3, PairCites DEF pod
  <2>5. verdict.state # "PartialData" => RowsHold(verdict, d, c.name)
    BY <1>8, <2>3, PodRowsHold
  <2> QED
    BY <1>4, <1>6, <1>11, <1>13, <2>4, <2>5 DEF primitive
<1> QED
  BY <1>12, <1>13

(* The rows an answer shows hold of the cluster: a primitive that the      *)
(* opposite side is said to allow exchanges traffic with every pod of the  *)
(* subject, a rule said to be effective for a primitive lets something     *)
(* through with each pod or address of it, whatever the snapshot leaves    *)
(* open, and a rule that a verdict cites has its row.                      *)
THEOREM RuleRowsAlwaysHold == Spec => []RuleRowsHold
<1>1. ClusterOK /\ CacheInv /\ AnswerInv => RuleRowsHold
  <2> SUFFICES ASSUME ClusterOK, AnswerInv, result # NoResult, NEW d \in Directions,
                      NEW primitive \in Primitives(d)
               PROVE  /\ \A e \in UNION {verdict.evidence : verdict \in primitive.pairs} :
                            e.id.direction = d => \E rule \in result.directions[d].rules : rule.id = e.id
                      /\ /\ primitive.state # "PartialData"
                         /\ DirectionApplicability(primitive, d).oppositeSideAllows
                         => \A verdict \in primitive.pairs : OpenToAll(verdict, d, primitive.name)
                      /\ \A rule \in {r \in result.directions[d].rules : Explicit(r.id)} :
                            RuleApplicability(primitive, d, rule.id).state = "Allowed" =>
                                \A verdict \in primitive.pairs : Effective(rule.id, verdict, d, primitive.name)
    BY DEF RuleRowsHold, Answered
  <2> DEFINE answer == result.directions[d]
  <2>1. PICK x : \E ref \in Subjects :
           /\ Current(x) /\ Snapshot(x) /\ x.pods \subseteq Pods
           /\ ResolveSubject(x, ref) \in SUBSET x.pods
           /\ Consists(answer, x, ResolveSubject(x, ref), d)
    BY AnswerConsists
  <2>2. PICK ref \in Subjects :
           /\ Current(x) /\ Snapshot(x) /\ x.pods \subseteq Pods
           /\ ResolveSubject(x, ref) \in SUBSET x.pods
           /\ Consists(answer, x, ResolveSubject(x, ref), d)
    BY <2>1
  <2>3. PICK i \in DOMAIN answer.primitives : primitive = answer.primitives[i]
    BY DEF Primitives
  <2> HIDE DEF answer
  <2>4. \A verdict \in primitive.pairs :
          /\ \A e \in verdict.evidence : e.id.direction = d => \E rule \in answer.rules : rule.id = e.id
          /\ primitive.kind = "cidr" /\ verdict.state = "Allowed" => KnownPermissions(verdict.permissions)
          /\ primitive.state # "PartialData" => RowsHold(verdict, d, primitive.name)
    <3> TAKE verdict \in primitive.pairs
    <3>1. PICK subject : subject = ResolveSubject(x, ref)
      OBVIOUS
    <3>2. verdict \in answer.primitives[i].pairs
      BY <2>3
    <3>3. /\ \A e \in verdict.evidence : e.id.direction = d => \E rule \in answer.rules : rule.id = e.id
          /\ answer.primitives[i].kind = "cidr" /\ verdict.state = "Allowed"
             => KnownPermissions(verdict.permissions)
          /\ answer.primitives[i].state # "PartialData" => RowsHold(verdict, d, answer.primitives[i].name)
      BY ONLY <2>2, <2>3, <3>1, <3>2, d \in Directions, VerdictOfPrimitive
    <3> QED
      BY <2>3, <3>3
  <2>5. ASSUME primitive.state # "PartialData", DirectionApplicability(primitive, d).oppositeSideAllows,
               NEW verdict \in primitive.pairs
        PROVE  OpenToAll(verdict, d, primitive.name)
    <3>1. IF primitive.kind = "cidr" THEN verdict.state = "Allowed" ELSE KnownPermissions(verdict.permissions)
      BY <2>5 DEF DirectionApplicability
    <3>2. KnownPermissions(verdict.permissions)
      BY <2>4, <3>1
    <3> QED
      BY <2>4, <2>5, <3>2 DEF RowsHold
  <2>6. \A rule \in answer.rules : rule.id.direction = d
    <3> TAKE rule \in answer.rules
    <3>1. rule.id \in UNION {RulesListed(x, p, d) : p \in ResolveSubject(x, ref)}
      BY <2>2 DEF Consists
    <3>2. PICK p : rule.id \in RulesListed(x, p, d)
      BY <3>1
    <3>3. \A names : \A id \in RulesOf(x, names, d) : id.direction = d
      BY DEF RulesOf, RuleId
    <3>4. \A kind : Synthetic(kind, d).direction = d
      BY DEF Synthetic, RuleId
    <3> QED
      BY <3>2, <3>3, <3>4 DEF RulesListed, OnlyIf
  <2>7. ASSUME NEW rule \in answer.rules, Explicit(rule.id),
               RuleApplicability(primitive, d, rule.id).state = "Allowed",
               NEW verdict \in primitive.pairs
        PROVE  Effective(rule.id, verdict, d, primitive.name)
    <3> DEFINE rows == {RulePair(primitive, pair, d, rule.id) : pair \in primitive.pairs}
    <3>1. RuleApplicability(primitive, d, rule.id).state = StateOfRule(primitive, rows)
      BY DEF RuleApplicability
    <3>2. RulePair(primitive, verdict, d, rule.id) \in rows
      OBVIOUS
    <3> HIDE DEF rows
    <3>3. primitive.state # "PartialData" /\ \A row \in rows : row.effective
      BY <2>7, <3>1 DEF StateOfRule
    <3>4. RulePair(primitive, verdict, d, rule.id).effective
      BY <3>2, <3>3
    <3> QED
      BY <2>4, <2>6, <2>7, <3>3, <3>4 DEF RowsHold
  <2> QED
    BY <2>4, <2>5, <2>7 DEF answer
<1> QED
  BY <1>1, AnswerAlways, PTL

=============================================================================
