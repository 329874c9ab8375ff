-------------------------- MODULE MCVpcLoadBalancer --------------------------
(* Instances of VpcLoadBalancer for TLC. *)
EXTENDS VpcLoadBalancer, TLC

CONSTANTS n1, n2

MCNode == {n1, n2}

\* Two ordinary nodes in two zones.
MCLabels == (n1 :> [zone |-> "z1"]) @@ (n2 :> [zone |-> "z2"])

\* n1 is an edge node.
MCEdgeLabels == (n1 :> [zone |-> "z1", dedicated |-> "edge"])
                  @@ (n2 :> [zone |-> "z2"])

\* Subnet s-10 is configured; s-1 occurs inside its name; s-2 is in another
\* VPC.
MCSubnets ==
    {[id |-> "id-1", name |-> "s-1", cidr |-> "c-1", zone |-> "z1", vpc |-> "vpc"],
     [id |-> "id-10", name |-> "s-10", cidr |-> "c-10", zone |-> "z2", vpc |-> "vpc"],
     [id |-> "id-2", name |-> "s-2", cidr |-> "c-2", zone |-> "z1", vpc |-> "other"]}

MCNameInfix == {<<"s-1", "s-10">>}

Tcp(e, n) == [protocol |-> "TCP", port |-> e, nodePort |-> n]

\* A public service with no annotation.
Plain(ports) ==
    [ports |-> ports, policy |-> "Cluster", healthCheckNodePort |-> 0,
     proxyProtocol |-> FALSE, nodePorts |-> TRUE, public |-> TRUE, subnets |-> {}, zone |-> "",
     selector |-> [label |-> "", value |-> ""]]

Local(svc, port) == [svc EXCEPT !.policy = "Local", !.healthCheckNodePort = port]

\* Port 1 alone; ports 1 and 2, port 1 on another node port, with a local
\* traffic policy and proxy protocol; port 2 alone, in zone z2.
\* Further services are told apart from the first by the validations and filters.
MCServices ==
    {Plain({Tcp(1, 11)}),
     Local([Plain({Tcp(1, 12), Tcp(2, 11)}) EXCEPT !.proxyProtocol = TRUE], 13),
     [Plain({Tcp(1, 11)}) EXCEPT !.public = FALSE,
                                 !.selector = [label |-> "zone", value |-> "z1"]],
     [Plain({Tcp(1, 11)}) EXCEPT !.subnets = {"s-1", "c-1"}],
     [Plain({Tcp(1, 11)}) EXCEPT !.subnets = {"id-2"}],
     [Plain({Tcp(1, 11)}) EXCEPT !.nodePorts = FALSE],
     [Plain({Tcp(2, 11)}) EXCEPT !.proxyProtocol = TRUE, !.zone = "z2"],
     Plain({[protocol |-> "UDP", port |-> 1, nodePort |-> 11]})}

MCTwoServices ==
    {Plain({Tcp(1, 11)}), Local(Plain({Tcp(1, 12), Tcp(2, 11)}), 13)}

\* Port 1, another port, and port 1 again on another node port.
MCThreeServices == {Plain({Tcp(1, 11)}), Plain({Tcp(2, 11)}), Plain({Tcp(1, 12)})}

=============================================================================
