SPECIFICATION Spec
CONSTANTS
    web1 = web1
    web2 = web2
    db = db
    agent = agent
    shop = shop
    data = data
    replicas = replicas
    web = web
    job = job
    TCP = "TCP"
    OtherProtocols = {"UDP"}
    MaxPort = 3
    Names = {"http"}
    NoName = "none"
    NoPod = outside
    NumbersOf <- MCNumbersOf
    Families = {"v4", "v6"}
    Width <- MCWidth
    Pods <- MCPods
    Namespaces = {shop, data}
    NamespaceOf <- MCNamespaceOf
    AddressesOf <- MCAddressesOf
    HostNetwork = {agent}
    Mesh <- MCMesh
    ClusterWide = every
    Catalogue <- MCCatalogue
    IstioConfigs <- MCIstioConfigs
    ReplicaSets = {replicas}
    Deployments = {web}
    Jobs = {job}
    NoOwner = nobody
    OwnerOf <- MCOwnerOf
    DeploymentOf <- MCDeploymentOf
    SelectorOf <- MCSelectorOf
    WorkloadNamespace <- MCWorkloadNamespace
    AllAddresses <- MCAllAddresses
    Limits = {8, 100}
    InitialClusters <- MCClusters
    MaxChanges = 0
    Subjects <- MCSubjects
    InitialConfig <- MCInitialConfig
    NoResult = none
INVARIANT
    DisallowedIsCertain
CHECK_DEADLOCK FALSE
