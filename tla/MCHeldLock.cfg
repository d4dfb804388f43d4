SPECIFICATION Spec
CONSTANTS
    Tasks = {"tenderlink", "main_loop", "rpc", "verifier"}
    Programs <- MCPrograms
    Slots = 2
    Worker = "worker"
    None = "none"
INVARIANT WorkerIsNotWaitedFor
CHECK_DEADLOCK FALSE
