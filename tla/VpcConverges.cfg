\* Retries bring the load balancer to the wanted state.
CONSTANTS
    ExtPort = {1, 2}
    NodePort = {11, 12, 13}
    PoolId = {1, 2, 3, 4, 5}
    n1 = n1
    n2 = n2
    Node <- MCNode
    Labels <- MCEdgeLabels
    Addressed <- MCNode
    Subnets <- MCSubnets
    VpcName = "vpc"
    SubnetNames = {"s-10"}
    NameInfix <- MCNameInfix
    Services <- MCTwoServices
    Overlap = FALSE
    MaxPolls = 2
    MaxChanges = 2
    MaxFaults = 1
SPECIFICATION FairSpec
PROPERTIES Converges
CHECK_DEADLOCK FALSE
