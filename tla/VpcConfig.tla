------------------------------ MODULE VpcConfig ------------------------------
(***************************************************************************)
(* What a Kubernetes LoadBalancer service asks of its VPC load balancer:   *)
(* the records of vpc_sdk_base.go and the pure helpers of vpc_config.go    *)
(* that filter nodes and subnets and validate a service.  Strings that the *)
(* code only compares are kept as opaque values; a pool name               *)
(* "<protocol>-<port>-<nodePort>" is kept as its three fields.             *)
(***************************************************************************)
EXTENDS Naturals, FiniteSets

CONSTANTS
    ExtPort,      \* external ports a service may expose
    NodePort,     \* node ports (service ports and health check ports)
    PoolId,       \* identifiers the VPC gives to pools
    Node,         \* Kubernetes nodes, each standing for its internal IP
    Labels,       \* Labels[n]: the labels of node n, a function label -> value
    Addressed,    \* nodes that have an internal IP (label or status address)
    Subnets,      \* every VPC subnet of the account
    VpcName,      \* ConfigVpc.VpcName
    SubnetNames,  \* ConfigVpc.SubnetNames, as the set of the listed names
    NameInfix,    \* pairs <<a, b>> of names where a occurs inside b
    Services      \* the values the Kubernetes service takes during a run

\* "UDP" stands for every protocol but TCP: validateService refuses them all.
ServicePort == [protocol: {"TCP", "UDP"}, port: ExtPort, nodePort: NodePort]

\* A name that does not parse (a pool made by somebody else) has protocol
\* "other".
VpcPoolNameFields ==
    [protocol: {"tcp", "udp", "other"}, port: ExtPort, nodePort: NodePort]

HealthMonitor == [type: {"tcp", "http"}, port: NodePort]

Member == [target: Node, port: NodePort]

VpcLoadBalancerPool ==
    [id: PoolId, name: VpcPoolNameFields, hm: HealthMonitor,
     proxy: {"v1", "disabled"}, members: SUBSET Member]

\* A listener is identified by its port and the pool it was created for.
VpcLoadBalancerListener ==
    [protocol: {"tcp", "udp", "other"}, port: ExtPort, pool: PoolId]

VpcSubnet ==
    [id: STRING, name: STRING, cidr: STRING, zone: STRING, vpc: STRING]

\* The service specification and the annotations this provider reads.
\* selector.label = "" stands for no (or no allowed) node selector label;
\* nodePorts is false when allocateLoadBalancerNodePorts is.
Service ==
    [ports: SUBSET ServicePort, policy: {"Local", "Cluster"},
     healthCheckNodePort: NodePort \cup {0}, proxyProtocol: BOOLEAN,
     nodePorts: BOOLEAN, public: BOOLEAN, subnets: SUBSET STRING, zone: STRING,
     selector: [label: STRING, value: STRING]]

ASSUME PortAssumption ==
    /\ ExtPort \subseteq Nat \ {0}
    /\ NodePort \subseteq Nat \ {0}
    /\ PoolId \subseteq Nat \ {0}

ASSUME NodeAssumption == Addressed \subseteq Node

ASSUME SubnetAssumption == Subnets \subseteq VpcSubnet

\* Kubernetes refuses a service with two ports of one number and protocol.
ASSUME ServiceAssumption ==
    /\ Services \subseteq Service /\ Services # {}
    /\ \A s \in Services : \A p, q \in s.ports :
          p.port = q.port /\ p.protocol = q.protocol => p = q

-----------------------------------------------------------------------------
(* Pool names *)

Lower(protocol) == IF protocol = "TCP" THEN "tcp" ELSE "udp"

genLoadBalancerPoolName(kubePort) ==
    [protocol |-> Lower(kubePort.protocol),
     port     |-> kubePort.port,
     nodePort |-> kubePort.nodePort]

\* extractFieldsFromPoolName returns no error.
Parses(name) == name.protocol \in {"tcp", "udp"}

isServicePortEqualListener(kubePort, listener) ==
    /\ listener.port = kubePort.port
    /\ listener.protocol = Lower(kubePort.protocol)

isServicePortEqualPoolName(kubePort, name) ==
    /\ name.port = kubePort.port
    /\ name.protocol = Lower(kubePort.protocol)

getServicePoolNames(svc) == {genLoadBalancerPoolName(kp) : kp \in svc.ports}

-----------------------------------------------------------------------------
(* Nodes *)

findNodesMatchingLabelValue(nodes, label, value) ==
    {n \in nodes : label \in DOMAIN Labels[n] /\ Labels[n][label] = value}

filterNodesByZone(nodes, zone) ==
    IF zone = "" THEN nodes ELSE findNodesMatchingLabelValue(nodes, "zone", zone)

filterNodesByEdgeLabel(nodes) ==
    LET edge == findNodesMatchingLabelValue(nodes, "dedicated", "edge")
    IN  IF edge = {} THEN nodes ELSE edge

\* The nodes a service may use: its node selector alone when it has one,
\* otherwise its zone and then the edge label.
FilterNodes(svc, nodes) ==
    IF svc.selector.label # ""
    THEN findNodesMatchingLabelValue(nodes, svc.selector.label, svc.selector.value)
    ELSE filterNodesByEdgeLabel(filterNodesByZone(nodes, svc.zone))

getNodeIDs(nodes) == nodes \cap Addressed

NodeList(svc, nodes) == getNodeIDs(FilterNodes(svc, nodes))

-----------------------------------------------------------------------------
(* Subnets.  An empty result stands for the error return of the code. *)

filterSubnetsByVpcName(subnets) == {s \in subnets : s.vpc = VpcName}

\* The code asks whether the name occurs anywhere in the configured list.
filterSubnetsByName(subnets) ==
    {s \in subnets : \E n \in SubnetNames : s.name = n \/ <<s.name, n>> \in NameInfix}

ClusterSubnets == filterSubnetsByName(filterSubnetsByVpcName(Subnets))

getSubnetIDs(subnets) == {s.id : s \in subnets}

validateServiceSubnets(wanted, vpc, subnets) ==
    LET Match(e) == {s \in subnets : \/ e = s.id
                                     \/ s.vpc = vpc /\ e \in {s.name, s.cidr}}
    IN  IF \E e \in wanted : Match(e) = {} \/ \E s \in Match(e) : s.vpc # vpc
        THEN {}
        ELSE {s.id : s \in UNION {Match(e) : e \in wanted}}

validateServiceZone(zone, subnets) == {s.id : s \in {x \in subnets : x.zone = zone}}

\* The subnets CreateLoadBalancer places the load balancer in.
SubnetList(svc) ==
    CASE ClusterSubnets = {} -> {}
      [] ClusterSubnets # {} /\ svc.subnets # {} ->
            validateServiceSubnets(svc.subnets, VpcName, filterSubnetsByVpcName(Subnets))
      [] ClusterSubnets # {} /\ svc.subnets = {} /\ svc.zone # "" ->
            validateServiceZone(svc.zone, ClusterSubnets)
      [] OTHER -> getSubnetIDs(ClusterSubnets)

\* Mutant: a change of the subnets annotation goes unnoticed.
SubnetsMayChange(svc, lbSubnets) == TRUE

\* The load balancer's own VPC: that of its subnets.
validateServiceSubnetsNotUpdated(svc, lbSubnets) ==
    svc.subnets = {}
    \/ \E s \in Subnets :
          /\ s.id \in lbSubnets
          /\ validateServiceSubnets(svc.subnets, s.vpc, Subnets) = lbSubnets

-----------------------------------------------------------------------------
(* Service validation and options *)

isServiceConfigurationSupported(svc) == svc.nodePorts

validateService(svc) == \A kp \in svc.ports : kp.protocol = "TCP"

\* Mutant: a public service may become private and keep its load balancer.
TypeMayChange(svc, lbPublic) == TRUE

validateServiceTypeNotUpdated(svc, lbPublic) == svc.public = lbPublic

getServiceHealthCheckNodePort(svc) ==
    IF svc.policy = "Local" THEN svc.healthCheckNodePort ELSE 0

genLoadBalancerHealthMonitor(nodePort, healthCheckPort) ==
    IF healthCheckPort > 0 THEN [type |-> "http", port |-> healthCheckPort]
                           ELSE [type |-> "tcp",  port |-> nodePort]

genLoadBalancerMembers(nodePort, nodeList) ==
    {[target |-> n, port |-> nodePort] : n \in nodeList}

=============================================================================
