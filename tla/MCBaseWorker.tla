---------------------------- MODULE MCBaseWorker ----------------------------
(* BaseWorker on files, environments and requests that each get one thing   *)
(* right or wrong.                                                          *)
EXTENDS BaseWorker

NoBlocks == <<>>

MCFiles ==
    {NoBlocks,
     [amqp10 |-> [settleMode |-> "settled", credit |-> 1024]],
     [message |-> [sizeMode |-> "distribution", sizes |-> <<<<0, 1>>, <<64, 0>>, <<128, 2>>>>]],
     [top |-> [duration |-> "soon"]],
     [amqp10 |-> [credit |-> 1025]]}

MCEnvs ==
    {[queues |-> [rate |-> 0]],
     [events |-> [enabled |-> FALSE, rate |-> 0]]}

MCBodies ==
    {NoBlocks,
     [duration |-> "0"],
     [duration |-> "never"],
     [workers |-> [queues |-> DefaultWorker("queues", 10)]],
     [workers |-> [events |-> DefaultWorker("events", 10)], rpc |-> [timeout |-> 1]],
     [workers |-> [queues |-> [enabled |-> TRUE, rate |-> 10]]],
     [message |-> [sizeMode |-> "fixed", sizeBytes |-> 64]],
     [message |-> [sizeMode |-> "distribution", reorderWindow |-> 100,
                   sizes |-> <<<<64, 1>>, <<128, -2>>>>]],
     [thresholds |-> [throughput |-> 1]]}
=============================================================================
