SPECIFICATION Spec
CONSTANTS
    worker = worker
    admin = admin
    worker2 = worker2
    p1 = p1
    p2 = p2
    e1 = e1
    e2 = e2
    e3 = e3
    None = None
    Runs = {worker, admin, worker2}
    Workers = {worker, worker2}
    Replicas = {p1, p2}
    ReplicaOf <- MCReplicaOf
    Events = {e1, e2, e3}
    At <- MCAt
    PerSecond = 2
    Unknown = {}
    Free = {e1}
    Poison = {e3}
    Modes = {"usage_history", "call_logs"}
    Limit = 2
    MaxFaults = 2
INVARIANTS
    TypeOK
    BilledOnce
    OneSync
    RunningIsTrue
    NoEventSkipped
