SPECIFICATION HFairSpec
CONSTANTS
    t1 = t1  t2 = t2  t3 = t3  w1 = w1  w2 = w2
    l1 = l1  l2 = l2  l3 = l3  l4 = l4  l5 = l5
    Tasks = {t1, t2, t3}
    Workers = {w1}
    LeaseIds = {l1, l2, l3}
    TypeOf <- MCTypeOf
    PriorityOf <- MCPriorityOf
    WorkerTypeOf <- MCWorkerTypeOf
    MaxAttempts <- MCMaxAttempts
    MaxCapacity = 2
    LeaseDuration = 1
    Delays = {0}
    FailDelay = 2
    MaxFailures = 1
    Reclaimer = Reclaimer
    NoTask = NoTask
    NoLease = NoLease
INVARIANT FirstDeliveryInOrder
PROPERTY AbandonedTaskReturns
CHECK_DEADLOCK FALSE
