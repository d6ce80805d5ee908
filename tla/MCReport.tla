------------------------------ MODULE MCReport ------------------------------
(* Report on runs that each trip one gate, or just miss it. *)
EXTENDS Report

Names == {"queues", "credit_flow", "events", "commands"}

Rates == [n \in Names |-> 40]

Thresholds(fidelity) ==
    [loss |-> 0, eventsLoss |-> 5, duplication |-> 10, errorRate |-> 1, throughput |-> 50,
     downtime |-> 10, memory |-> 2, fidelity |-> fidelity,
     latency |-> [p \in Percentiles |-> 100]]

MCConfigs ==
    {[thresholds |-> Thresholds(1), rate |-> Rates, enabled |-> {"queues", "credit_flow"}],
     [thresholds |-> Thresholds(0), rate |-> Rates, enabled |-> {"queues", "events", "commands"}]}

MCMemories ==
    <<{[baseline |-> 100, peak |-> 200]}, {[baseline |-> 0, peak |-> 300]}>>

Clean ==
    [sent |-> 400, received |-> 400, lost |-> 0, extraLost |-> 0, duplicated |-> 0,
     corrupted |-> 0, fidelity |-> 0, dropped |-> 0, errors |-> 0, downtime |-> 0,
     success |-> 0, timeout |-> 0, error |-> 0, samples |-> 1,
     latency |-> [p \in Percentiles |-> 100]]

Idle == [Clean EXCEPT !.sent = 0, !.received = 0, !.samples = 0]

Group(name, w) ==
    [n \in Names |->
        IF n = name THEN <<w, Clean>> ELSE <<Clean>>]

Each(w) == [n \in Names |-> <<w>>]

FirstGroups ==
    {Each(Idle), Each(Clean), Each([Clean EXCEPT !.fidelity = 1]),
     Each([Clean EXCEPT !.sent = 199]), Group("queues", [Clean EXCEPT !.downtime = 2]),
     Group("queues", [Clean EXCEPT !.lost = 4]),
     Group("queues", [Clean EXCEPT !.lost = 5]),
     Group("events", [Clean EXCEPT !.extraLost = 41]),
     Group("events", [Clean EXCEPT !.dropped = 1]),
     Group("queues", [Clean EXCEPT !.latency["p50"] = 101]),
     Group("queues", [Clean EXCEPT !.latency["p99"] = 101, !.samples = 2]),
     Group("queues", [Idle EXCEPT !.received = 10, !.duplicated = 50]),
     Group("commands", [Clean EXCEPT !.success = 99, !.timeout = 2, !.lost = 50]),
     Group("commands", [Clean EXCEPT !.corrupted = 1, !.errors = 17])}

MCGroups == <<FirstGroups, {Each(Clean), Each([Clean EXCEPT !.corrupted = 1])}>>
=============================================================================
