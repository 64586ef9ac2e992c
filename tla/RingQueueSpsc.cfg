\* One producer thread, one consumer thread: rq_cloudA, rq_cloudB,
\* rq_fuse_cloud, solve_task_queue_ and mqtt_task_queue_.
CONSTANTS
    Capacity = 3
    Producers = {p1}
    Consumers = {c1}
    Items = {f1, f2, f3, f4}
    NoItem = none
SPECIFICATION Spec
INVARIANTS NoSlotRace ExactlyOnce SizeNeverUnderestimates
PROPERTY ImplementsFifo
