\* A node update that overlaps a service update.
CONSTANTS
    ExtPort = {1, 2}
    NodePort = {11, 12, 13}
    PoolId = {1, 2, 3, 4, 5, 6}
    n1 = n1
    n2 = n2
    Node <- MCNode
    Labels <- MCLabels
    Addressed <- MCNode
    Subnets <- MCSubnets
    VpcName = "vpc"
    SubnetNames = {"s-10"}
    NameInfix <- MCNameInfix
    Services <- MCTwoServices
    Overlap = TRUE
    MaxPolls = 2
    MaxChanges = 2
    MaxFaults = 0
SPECIFICATION Spec
PROPERTIES UpdateChangesOnlyHosts
CHECK_DEADLOCK FALSE
