\* A subnet whose name occurs inside a configured name.
CONSTANTS
    ExtPort = {1, 2}
    NodePort = {11, 12, 13}
    PoolId = {1, 2, 3, 4, 5}
    n1 = n1
    n2 = n2
    Node <- MCNode
    Labels <- MCLabels
    Addressed <- MCNode
    Subnets <- MCSubnets
    VpcName = "vpc"
    SubnetNames = {"s-10"}
    NameInfix <- MCNameInfix
    Services <- MCTwoServices
    Overlap = FALSE
    MaxPolls = 2
    MaxChanges = 2
    MaxFaults = 0
SPECIFICATION Spec
INVARIANTS OnlyConfiguredSubnets
CHECK_DEADLOCK FALSE
