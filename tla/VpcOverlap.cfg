\* Both callers inside the provider at once.
CONSTANTS
    ExtPort = {1, 2}
    NodePort = {11, 12, 13}
    PoolId = {1, 2, 3, 4, 5, 6}
    n1 = n1
    n2 = n2
    Node <- MCNode
    Labels <- MCLabels
    Addressed <- MCNode
    Subnets <- MCSubnets
    VpcName = "vpc"
    SubnetNames = {"s-10"}
    NameInfix <- MCNameInfix
    Services <- MCTwoServices
    Overlap = TRUE
    MaxPolls = 1
    MaxChanges = 2
    MaxFaults = 0
SPECIFICATION Spec
INVARIANTS ListenerTargetsOwnPort PortInv
PROPERTIES RoutesImplemented
CHECK_DEADLOCK FALSE
