--------------------------- MODULE MCPolicyEvaluator ---------------------------
(***************************************************************************)
(* Two pods of a shop, one of unknown enrolment in the mesh, a database in *)
(* the mesh whose UDP port "http" is ambiguous, and an agent in the        *)
(* network of its node.  One policy or two of each kind bear on them.      *)
(***************************************************************************)
EXTENDS PolicyEvaluator

CONSTANTS web1, web2, db, agent, shop, data, replicas, web, job

MCPods == {web1, web2, db, agent}
MCNamespaceOf == web1 :> shop @@ web2 :> shop @@ db :> data @@ agent :> data
Addr(n) == [family |-> "v4", addr |-> n]
MCAddressesOf == web1 :> {Addr(0)} @@ web2 :> {Addr(1)} @@ db :> {Addr(2)} @@ agent :> {Addr(3)}
MCMesh == web1 :> "enrolled" @@ web2 :> "unknown" @@ db :> "enrolled" @@ agent :> "outside"
MCNumbersOf(pod, name, protocol) ==
    IF pod = db /\ name = "http" THEN IF protocol = "UDP" THEN {1, 2} ELSE {2}
    ELSE IF pod = web1 /\ protocol = "TCP" THEN {1} ELSE {}

MCWidth == [v4 |-> 2, v6 |-> 0]
V4(addr, bits) == [family |-> "v4", addr |-> addr, bits |-> bits]
V6 == [family |-> "v6", addr |-> 0, bits |-> 0]
Of(prefix, except) == [prefix |-> prefix, except |-> except]
MCAllAddresses == {Of(V4(0, 0), {}), Of(V6, {})}

MCOwnerOf == web1 :> replicas @@ web2 :> web @@ db :> NoOwner @@ agent :> job
MCDeploymentOf == replicas :> web
MCSelectorOf == web :> {web1, web2} @@ job :> {agent}
MCWorkloadNamespace == web :> shop @@ job :> data
MCSubjects ==
    {[kind |-> "pod", name |-> db], [kind |-> "namespace", name |-> data],
     [kind |-> "deployment", name |-> web], [kind |-> "job", name |-> job]}
MCInitialConfig == [root |-> "none", candidates |-> {}]
MCIstioConfigs ==
    {MCInitialConfig, [root |-> shop, candidates |-> {}],
     [root |-> "none", candidates |-> {shop, data}]}

-----------------------------------------------------------------------------
Port(protocol, lo, hi) == [protocol |-> protocol, lo |-> lo, hi |-> hi, name |-> NoName]
Http(protocol) == [protocol |-> protocol, lo |-> 1, hi |-> 1, name |-> "http"]

PeerPods(pods) ==
    [pods |-> pods, selects |-> TRUE, blocks |-> {}, podIPs |-> FALSE,
     identity |-> "none", identities |-> {}, unproven |-> FALSE]
PeerBlock(prefix, except) == [PeerPods(Pods) EXCEPT !.selects = FALSE, !.blocks = {Of(prefix, except)}]
PeerIdentity(sign, pods) == [PeerPods(Pods) EXCEPT !.selects = FALSE, !.identity = sign, !.identities = pods]

Plain(action, peers, ports) ==
    [action |-> action, peers |-> peers, ports |-> ports, noPorts |-> FALSE, tcpOnly |-> FALSE,
     matchNone |-> FALSE, disabled |-> FALSE, uncertain |-> FALSE, uncertainPeers |-> FALSE]
Authz(action, peers, ports) == [Plain(action, peers, ports) EXCEPT !.tcpOnly = TRUE]

Network(scope, selects, isolates, ingress, egress) ==
    [layer |-> "network", scope |-> scope, state |-> "enforced", selects |-> selects,
     allDirections |-> FALSE, cilium |-> FALSE, hostPolicy |-> FALSE, isolates |-> isolates,
     rules |-> [ingress |-> ingress, egress |-> egress]]
Cilium(scope, selects, isolates, ingress, egress) ==
    [Network(scope, selects, isolates, ingress, egress) EXCEPT !.cilium = TRUE]
Authorization(scope, selects, isolates, ingress) ==
    [Network(scope, selects, isolates, ingress, <<>>) EXCEPT !.layer = "authorization"]

In == {"ingress"}
Out == {"egress"}

ToHttp == Network(data, {db}, In, <<Plain("allow", {PeerPods({web1, agent})}, {Http("UDP"), Port("TCP", 1, 2)})>>, <<>>)
ToHttpLater == Network(data, {db}, In, <<Plain("allow", {PeerPods(Pods)}, {Http("TCP")})>>, <<>>)
NamedUDP == Network(data, {db}, In, <<Plain("allow", {}, {Http("UDP")})>>, <<>>)
Leaving ==
    Network(shop, {web1}, Out, <<>>,
            <<Plain("allow", {PeerBlock(V4(0, 0), {V4(2, 1)})}, {Port("TCP", 1, 2), Http("UDP")}),
              Plain("allow", {PeerPods({db})}, {})>>)
DenyHttp ==
    Cilium(data, {db}, {}, <<Plain("allow", {}, {}), Plain("deny", {PeerPods({web1})}, {Http("UDP")}),
                             Plain("deny", {PeerPods({web1})}, {Port("TCP", 2, 2)})>>, <<>>)
DenyBlock ==
    Cilium(shop, {web1, web2}, {}, <<>>,
           <<Plain("allow", {PeerBlock(V4(0, 0), {})}, {}),
             Plain("deny", {PeerBlock(V4(2, 1), {V4(3, 2)})}, {Port("TCP", 2, 3), Http("UDP")})>>)
Fqdn ==
    Cilium(shop, {web2}, Out, <<>>,
           <<[Plain("allow", {PeerPods({})}, {}) EXCEPT !.uncertain = TRUE, !.uncertainPeers = TRUE,
                                                         !.matchNone = TRUE],
             [Plain("allow", {PeerPods({db})}, {Port("TCP", 1, 1)}) EXCEPT !.noPorts = TRUE]>>)
NodePolicy ==
    [Cilium(ClusterWide, {}, {}, <<>>, <<>>) EXCEPT !.state = "inert", !.hostPolicy = TRUE]
WebOnly == Authorization(data, {db}, In, <<Authz("allow", {PeerIdentity("positive", {web1, web2})}, {Port("TCP", 2, 2)})>>)
NobodyYet == Authorization(data, {db}, In, <<>>)
OutsideRoot == Authorization(shop, Pods, {}, <<Authz("deny", {PeerIdentity("negative", {web1, db})}, {})>>)
WebAndBlock ==
    Authorization(data, {db}, In,
        <<Authz("allow", {[PeerIdentity("positive", {web1}) EXCEPT !.blocks = {Of(V4(0, 1), {})},
                                                                  !.podIPs = TRUE, !.unproven = TRUE]}, {})>>)
When ==
    Authorization(data, {db}, {},
        <<[Authz("deny", {PeerIdentity("positive", {web1})}, {}) EXCEPT !.disabled = TRUE, !.uncertain = TRUE]>>)
OddAction == [Authorization(data, {db}, {}, <<Authz("allow", {}, {})>>) EXCEPT !.state = "effectUnknown"]
Targeted == [Authorization(data, {}, In, <<>>) EXCEPT !.state = "selectionUnknown"]

MCCatalogue ==
    "named" :> <<ToHttp, ToHttpLater>> @@ "namedUDP" :> <<NamedUDP>> @@ "leaving" :> <<Leaving>>
    @@ "denyHttp" :> <<DenyHttp>> @@ "denyBlock" :> <<DenyBlock>> @@ "fqdn" :> <<Fqdn>>
    @@ "node" :> <<NodePolicy>> @@ "web" :> <<WebOnly, NobodyYet>> @@ "root" :> <<OutsideRoot>>
    @@ "block" :> <<WebAndBlock>> @@ "when" :> <<When>> @@ "odd" :> <<OddAction, Targeted>>

MCClusters ==
    {[n \in names |-> 1] : names \in {
        {"named", "leaving"}, {"named", "denyHttp"}, {"leaving", "denyBlock"}, {"fqdn", "denyHttp"},
        {"web", "named"}, {"root", "web"}, {"block", "denyBlock"}, {"when", "web"}, {"odd", "named"},
        {"node", "leaving"}, {"namedUDP", "web", "denyHttp"}}}
=============================================================================
