---------------------------- MODULE FanOutProofs ----------------------------
(***************************************************************************)
(* The subTrackers of the events and the events store worker are exact,    *)
(* for any number of subscribers, messages and failures and any window.    *)
(***************************************************************************)
EXTENDS FanOut, TLAPS

TypeInv ==
    /\ pattern = "events" => ~durable
    /\ seq \in Nat /\ wire \subseteq Nat /\ log \in Seq(Nat)
    /\ pos \in [Consumers -> Nat] /\ cursor \in [Consumers -> Nat]
    /\ con \in [Consumers -> {"connect", "receive", "done"}]
    /\ link \in [Consumers -> {"none", "up", "broken", "stalled"}]
    /\ buffer \in [Consumers -> Seq(Nat)] /\ hand \in [Consumers -> SUBSET Nat]
    /\ trackers \in [Consumers -> SubTrackers]
    /\ arrived \in [Consumers -> SUBSET Nat] /\ DOMAIN excused = Consumers

-----------------------------------------------------------------------------
(* The inductive invariants. *)

(* Every sequence is minted once, and taken by the broker once. *)
LogInv ==
    /\ wire \subseteq 1 .. seq
    /\ \A i \in 1 .. Len(log) : log[i] \in (1 .. seq) \ wire
    /\ \A i, j \in 1 .. Len(log) : log[i] = log[j] => i = j

(* The subTracker s has counted the sequences A that arrived, and has       *)
(* forgotten only what is more than Window behind.                          *)
Counts(s, A) ==
    /\ A \subseteq 1 .. s.lastSeq
    /\ s.lastSeq # 0 => s.lastSeq \in A
    /\ Cardinality(A) = s.uniqueCount
    /\ s.seen \subseteq A
    /\ \A m \in A \ s.seen : m + Window < s.lastSeq

CountInv == \A c \in Consumers : Counts(trackers[c], arrived[c])

(* Links and positions. *)
Linked(c) ==
    /\ cursor[c] <= pos[c] /\ pos[c] <= Len(log)
    /\ con[c] # "receive" => link[c] = "none" /\ buffer[c] = <<>>
    /\ arrived[c] \cup Range(buffer[c]) \subseteq Taken
    /\ \A i \in 1 .. pos[c] : log[i] \in arrived[c] \cup excused[c] \cup Range(buffer[c])

LinkInv == \A c \in Consumers : Linked(c)

(* The subscriber of events never meets a sequence twice. *)
Fresh(c) ==
    /\ \A i \in pos[c] + 1 .. Len(log) : log[i] \notin arrived[c]
    /\ \A j \in 1 .. Len(buffer[c]) :
           /\ buffer[c][j] \notin arrived[c]
           /\ \E i \in 1 .. pos[c] : buffer[c][j] = log[i]
    /\ \A j, k \in 1 .. Len(buffer[c]) : buffer[c][j] = buffer[c][k] => j = k

EventsInv == pattern = "events" => \A c \in Consumers : Fresh(c)

(* The durable consumer has handled the log up to k since it resumed, and   *)
(* its tracker still remembers what it will meet again.                     *)
Handled(c, k) ==
    /\ cursor[c] <= k /\ k + Len(buffer[c]) <= pos[c]
    /\ link[c] = "up" => k + Len(buffer[c]) = pos[c]
    /\ \A j \in 1 .. Len(buffer[c]) : buffer[c][j] = log[k + j]
    /\ \A i \in cursor[c] + 1 .. k : log[i] \in arrived[c]
    /\ \A i \in k + 1 .. Len(log) : log[i] \in arrived[c] => log[i] \in trackers[c].seen

(* What arrived of the log after the cursor is the first part of it. *)
Resumed(c) ==
    /\ \A i, j \in cursor[c] + 1 .. Len(log) :
           i < j /\ log[j] \in arrived[c] => log[i] \in arrived[c]
    /\ con[c] = "receive" => \E k \in 0 .. Len(log) : Handled(c, k)

StoreInv == pattern # "events" => \A c \in Consumers : Resumed(c)

-----------------------------------------------------------------------------
(* A step, and what it leaves alone. *)

(* The steps that neither the log nor a consumer takes part in. *)
Aside == TransfersLost \/ Producer \/ Engine \/ StopRun \/ UNCHANGED vars

LEMMA AsideUnchanged ==
    ASSUME Aside
    PROVE  UNCHANGED <<config, log, consumerVars>>
BY Zenon DEF Aside, TransfersLost, Producer, ProducerReturns, Send, SendReturns, SendFails,
       ProducerUnchanged, Engine, WarmupStart, CancelProducers, ResetAfterWarmup,
       captureWorkerSnapshots, ConsumersStopped, EngineGoto, StopRun, vars, consumerVars,
       brokerVars

LEMMA AsideWire ==
    ASSUME TypeInv, LogInv, Aside
    PROVE  /\ seq' \in Nat /\ seq <= seq'
           /\ wire' \subseteq 1 .. seq'
           /\ \A m \in 1 .. seq : m \notin wire => m \notin wire'
<1> USE DEF TypeInv, LogInv
<1>1. CASE TransfersLost
  <2>1. seq' = seq /\ wire' \subseteq wire
    BY <1>1, Zenon DEF TransfersLost, producerVars
  <2> QED BY <2>1
<1>2. CASE Send
  <2>1. seq' = seq + 1 /\ wire' = wire \cup {seq + 1}
    BY <1>2, Zenon DEF Send
  <2> QED BY <2>1
<1>3. CASE \/ ProducerReturns \/ SendReturns \/ SendFails \/ Engine \/ StopRun \/ UNCHANGED vars
  <2>1. UNCHANGED <<seq, wire>>
    BY <1>3, Zenon
    DEF ProducerReturns, SendReturns, SendFails, Engine, WarmupStart, CancelProducers,
        ResetAfterWarmup, captureWorkerSnapshots, ConsumersStopped, EngineGoto, StopRun,
        vars, producerVars, brokerVars
  <2> QED BY <2>1
<1> QED BY <1>1, <1>2, <1>3, Zenon DEF Aside, Producer

(* What a step of consumer c, or of its subscription, leaves alone. *)
OfConsumer(c) == Deliver(c) \/ NoCredit(c) \/ DisconnectConsumer(c) \/ Consumer(c)

LEMMA OfConsumerUnchanged ==
    ASSUME NEW c \in Consumers, OfConsumer(c)
    PROVE  UNCHANGED <<config, seq, wire, log>>
BY Zenon
DEF OfConsumer, Deliver, NoCredit, DisconnectConsumer, Consumer, Connect, Receive, ReceiveFails,
    recordTracked, BrokerUnchanged, ConsumerUnchanged, producerVars, brokerVars

LEMMA Steps ==
    ASSUME [Next]_vars
    PROVE  BrokerTake \/ Aside \/ \E c \in Consumers : OfConsumer(c)
BY Zenon DEF Next, Aside, OfConsumer

-----------------------------------------------------------------------------
(* What each step of a consumer or of its subscription does to it. *)

LEMMA Others ==
    ASSUME TypeInv, NEW c \in Consumers, OfConsumer(c), NEW d \in Consumers, d # c
    PROVE  /\ pos'[d] = pos[d] /\ cursor'[d] = cursor[d] /\ con'[d] = con[d] /\ link'[d] = link[d]
           /\ buffer'[d] = buffer[d] /\ trackers'[d] = trackers[d] /\ arrived'[d] = arrived[d]
           /\ excused'[d] = excused[d] /\ hand'[d] = hand[d]
<1> USE DEF TypeInv, consumerVars
<1>1. CASE Deliver(c) \/ DisconnectConsumer(c)
  BY <1>1, Zenon DEF Deliver, DisconnectConsumer, BrokerUnchanged
<1>2. CASE NoCredit(c)
  BY <1>2, Zenon DEF NoCredit, BrokerUnchanged
<1>3. CASE Connect(c)
  BY <1>3, Zenon DEF Connect
<1>4. CASE Receive(c)
  BY <1>4, Zenon DEF Receive, AcceptMessage, cleanupConn
<1>5. CASE recordTracked(c)
  BY <1>5, Zenon DEF recordTracked, AcceptMessage, cleanupConn
<1>6. CASE ReceiveFails(c)
  BY <1>6, Zenon DEF ReceiveFails, cleanupConn
<1> QED BY <1>1, <1>2, <1>3, <1>4, <1>5, <1>6, Zenon DEF OfConsumer, Consumer

LEMMA DeliverAt ==
    ASSUME TypeInv, NEW c \in Consumers, Deliver(c)
    PROVE  /\ link[c] = "up" /\ pos[c] < Len(log)
           /\ pos'[c] = pos[c] + 1 /\ buffer'[c] = Append(buffer[c], log[pos[c] + 1])
           /\ cursor' = cursor /\ con' = con /\ link' = link /\ trackers' = trackers
           /\ arrived' = arrived /\ excused' = excused
BY Zenon DEF TypeInv, Deliver, BrokerUnchanged

LEMMA NoCreditAt ==
    ASSUME TypeInv, NEW c \in Consumers, NoCredit(c)
    PROVE  /\ link[c] = "up"
           /\ \E lost \in Nat :
                  /\ pos'[c] = pos[c] + lost /\ pos[c] + lost <= Len(log)
                  /\ excused'[c] = excused[c] \cup {log[i] : i \in pos[c] + 1 .. pos[c] + lost}
           /\ pattern # "events" => link'[c] = "stalled"
           /\ link'[c] \in {"up", "stalled"}
           /\ cursor' = cursor /\ con' = con /\ trackers' = trackers
           /\ arrived' = arrived /\ buffer' = buffer
<1>1. /\ cursor' = cursor /\ con' = con /\ trackers' = trackers
      /\ arrived' = arrived /\ buffer' = buffer /\ link[c] = "up"
  BY Zenon DEF NoCredit, BrokerUnchanged
<1>2. /\ pattern # "events" => link'[c] = "stalled"
      /\ link'[c] \in {"up", "stalled"}
  BY <1>1, Zenon DEF NoCredit, TypeInv
<1> DEFINE lost == IF pattern = "events" THEN 1 ELSE Ring
<1>3. lost \in Nat
  BY FanOutBounds, Zenon
<1>4. /\ Len(log) - pos[c] >= lost
      /\ pos' = [pos EXCEPT ![c] = @ + lost]
      /\ excused' = [excused EXCEPT ![c] = @ \cup {log[i] : i \in pos[c] + 1 .. pos[c] + lost}]
  BY Zenon DEF NoCredit
<1> HIDE DEF lost
<1>5. pos[c] \in Nat /\ Len(log) \in Nat
  BY DEF TypeInv
<1>6. /\ pos'[c] = pos[c] + lost /\ pos[c] + lost <= Len(log)
      /\ excused'[c] = excused[c] \cup {log[i] : i \in pos[c] + 1 .. pos[c] + lost}
  BY <1>3, <1>4, <1>5 DEF TypeInv
<1> QED BY <1>1, <1>2, <1>3, <1>6, Zenon

LEMMA DisconnectAt ==
    ASSUME TypeInv, NEW c \in Consumers, DisconnectConsumer(c)
    PROVE  /\ link[c] = "up" /\ link'[c] = "broken"
           /\ pos' = pos /\ buffer' = buffer /\ cursor' = cursor /\ con' = con
           /\ trackers' = trackers /\ arrived' = arrived /\ excused' = excused
BY Zenon DEF TypeInv, DisconnectConsumer, BrokerUnchanged

LEMMA ConnectAt ==
    ASSUME TypeInv, NEW c \in Consumers, Connect(c)
    PROVE  /\ con[c] = "connect"
           /\ buffer' = buffer /\ trackers' = trackers /\ arrived' = arrived
           /\ \/ /\ con'[c] = "done" /\ pos' = pos /\ cursor' = cursor /\ link' = link
                 /\ excused' = excused
              \/ /\ con'[c] = "receive" /\ link'[c] = "up"
                 /\ \E p \in StartPositions(c) :
                        /\ pos'[c] = p /\ cursor'[c] = p
                        /\ excused'[c] = excused[c] \cup {log[i] : i \in pos[c] + 1 .. p}
BY Zenon DEF TypeInv, Connect

LEMMA ReceiveAt ==
    ASSUME TypeInv, NEW c \in Consumers, Receive(c)
    PROVE  /\ con[c] = "receive" /\ buffer[c] # <<>> /\ pos' = pos /\ cursor' = cursor
           /\ trackers'[c] = record(trackers[c], Head(buffer[c]))
           /\ arrived'[c] = arrived[c] \cup {Head(buffer[c])}
           /\ \/ buffer'[c] = Tail(buffer[c]) /\ con' = con /\ link' = link /\ excused' = excused
              \/ /\ con'[c] = "connect" /\ link'[c] = "none" /\ buffer'[c] = <<>>
                 /\ excused'[c] = excused[c] \cup Range(Tail(buffer[c]))
BY Zenon DEF TypeInv, Receive, AcceptMessage, cleanupConn

LEMMA TrackedAt ==
    ASSUME TypeInv, NEW c \in Consumers, recordTracked(c)
    PROVE  /\ pos' = pos /\ cursor' = cursor /\ trackers' = trackers /\ arrived' = arrived
           /\ \/ buffer' = buffer /\ con' = con /\ link' = link /\ excused' = excused
              \/ /\ con'[c] = "connect" /\ link'[c] = "none" /\ buffer'[c] = <<>>
                 /\ excused'[c] = excused[c] \cup Range(buffer[c])
BY Zenon DEF TypeInv, recordTracked, AcceptMessage, cleanupConn

LEMMA ReceiveFailsAt ==
    ASSUME TypeInv, NEW c \in Consumers, ReceiveFails(c)
    PROVE  /\ con[c] = "receive" /\ con'[c] = "connect"
           /\ link'[c] = "none" /\ buffer'[c] = <<>>
           /\ excused'[c] = excused[c] \cup Range(buffer[c])
           /\ pos' = pos /\ cursor' = cursor /\ trackers' = trackers /\ arrived' = arrived
BY Zenon DEF TypeInv, ReceiveFails, cleanupConn

-----------------------------------------------------------------------------
(* What record does to a subTracker. *)

LEMMA PruneCounts ==
    ASSUME NEW s \in SubTrackers, NEW A \in SUBSET Nat, Counts(s, A)
    PROVE  prune(s) \in SubTrackers /\ Counts(prune(s), A)
<1>1. CASE ~(s.lastSeq > Window)
  BY <1>1, Zenon DEF prune
<1>2. CASE s.lastSeq > Window
  <2> DEFINE low == s.lastSeq - Window
  <2>1. low \in Nat /\ s.lastSeq \in Nat /\ Window \in Nat /\ s.seen \subseteq Nat
    BY <1>2, WindowAssumption DEF SubTrackers
  <2>2. prune(s) = [s EXCEPT !.seen = @ \ (s.pruneLow .. low - 1), !.pruneLow = low]
    BY <1>2, Zenon DEF prune
  <2>3. \A k \in s.pruneLow .. low - 1 : k + Window < s.lastSeq
    BY <2>1 DEF SubTrackers
  <2> HIDE DEF low
  <2>4. /\ prune(s) \in SubTrackers
        /\ prune(s).lastSeq = s.lastSeq /\ prune(s).uniqueCount = s.uniqueCount
        /\ prune(s).seen = s.seen \ (s.pruneLow .. low - 1)
    BY <2>1, <2>2, Zenon DEF SubTrackers
  <2> QED BY <2>3, <2>4, Zenon DEF Counts
<1> QED BY <1>1, <1>2, Zenon

(* t is s with the new sequence m, before it is pruned. *)
Added(s, m, t) ==
    /\ record(s, m) = prune(t)
    /\ t.seen = s.seen \cup {m} /\ t.uniqueCount = s.uniqueCount + 1
    /\ t.lastSeq \in {m, s.lastSeq} /\ s.lastSeq <= t.lastSeq /\ m <= t.lastSeq

LEMMA RecordNew ==
    ASSUME NEW s \in SubTrackers, NEW m \in Nat, m \notin s.seen
    PROVE  \E t \in SubTrackers : Added(s, m, t)
<1> DEFINE last == IF m > s.lastSeq THEN m ELSE s.lastSeq
           u == [s EXCEPT !.seen = @ \cup {m}]
           v == [u EXCEPT !.uniqueCount = @ + 1]
           t == [v EXCEPT !.lastSeq = last]
<1>1. record(s, m) = prune([s EXCEPT !.seen = @ \cup {m}, !.uniqueCount = @ + 1,
                                     !.lastSeq = IF m > @ THEN m ELSE @])
  BY Zenon DEF record, isDup
<1>2. record(s, m) = prune(t)
  BY <1>1, Zenon DEF SubTrackers
<1>3. last \in Nat /\ last \in {m, s.lastSeq} /\ s.lastSeq <= last /\ m <= last
  BY DEF SubTrackers
<1> HIDE DEF last
<1>4. /\ u \in SubTrackers /\ u.seen = s.seen \cup {m}
      /\ u.uniqueCount = s.uniqueCount /\ u.lastSeq = s.lastSeq
  BY Zenon DEF SubTrackers
<1> HIDE DEF u
<1>5. /\ v \in SubTrackers /\ v.seen = s.seen \cup {m}
      /\ v.uniqueCount = s.uniqueCount + 1 /\ v.lastSeq = s.lastSeq
  BY <1>4 DEF SubTrackers
<1> HIDE DEF v
<1>6. /\ t \in SubTrackers /\ t.seen = s.seen \cup {m}
      /\ t.uniqueCount = s.uniqueCount + 1 /\ t.lastSeq = last
  BY <1>3, <1>5, Zenon DEF SubTrackers
<1> HIDE DEF t
<1> QED BY <1>2, <1>3, <1>6, Zenon DEF Added

LEMMA RecordType ==
    ASSUME NEW s \in SubTrackers, NEW m \in Nat
    PROVE  record(s, m) \in SubTrackers
<1>1. CASE m \in s.seen
  BY <1>1, Zenon DEF record, isDup
<1>2. CASE m \notin s.seen
  <2>1. PICK t \in SubTrackers : Added(s, m, t)
    BY <1>2, RecordNew, Zenon
  <2>2. CASE ~(t.lastSeq > Window)
    BY <2>1, <2>2, Zenon DEF prune, Added
  <2>3. CASE t.lastSeq > Window
    <3> DEFINE low == t.lastSeq - Window
    <3>1. low \in Nat
      BY <2>3, WindowAssumption DEF SubTrackers
    <3>2. prune(t) = [t EXCEPT !.seen = @ \ (t.pruneLow .. low - 1), !.pruneLow = low]
      BY <2>3, Zenon DEF prune
    <3> HIDE DEF low
    <3>3. prune(t) \in SubTrackers
      BY <3>1, <3>2, Zenon DEF SubTrackers
    <3> QED BY <2>1, <3>3, Zenon DEF Added
  <2> QED BY <2>2, <2>3, Zenon
<1> QED BY <1>1, <1>2, Zenon

-----------------------------------------------------------------------------
(* Positions: what the subscription went past arrived, waits in the buffer, *)
(* or passed the consumer by.                                               *)

LEMMA RangeEmpty == Range(<<>>) = {}
BY DEF Range

LEMMA RangeAppend ==
    ASSUME NEW s \in Seq(Nat), NEW e \in Nat
    PROVE  Range(Append(s, e)) = Range(s) \cup {e}
<1>1. /\ DOMAIN Append(s, e) = 1 .. Len(s) + 1 /\ DOMAIN s = 1 .. Len(s)
      /\ Append(s, e)[Len(s) + 1] = e
      /\ \A i \in 1 .. Len(s) : Append(s, e)[i] = s[i]
  OBVIOUS
<1>2. \A i \in 1 .. Len(s) + 1 : i \in 1 .. Len(s) \/ i = Len(s) + 1
  OBVIOUS
<1>3. 1 .. Len(s) \subseteq 1 .. Len(s) + 1 /\ Len(s) + 1 \in 1 .. Len(s) + 1
  OBVIOUS
<1> QED BY <1>1, <1>2, <1>3, Zenon DEF Range

LEMMA RangeTail ==
    ASSUME NEW s \in Seq(Nat), s # <<>>
    PROVE  Range(s) = {Head(s)} \cup Range(Tail(s))
<1>1. /\ DOMAIN s = 1 .. Len(s) /\ DOMAIN Tail(s) = 1 .. Len(s) - 1
      /\ Head(s) = s[1] /\ \A i \in 1 .. Len(s) - 1 : Tail(s)[i] = s[i + 1]
      /\ Len(s) \in Nat \ {0}
  OBVIOUS
<1>2. ASSUME NEW i \in 1 .. Len(s) PROVE s[i] \in {Head(s)} \cup Range(Tail(s))
  <2>1. CASE i = 1
    BY <1>1, <2>1, Zenon
  <2>2. CASE i # 1
    <3>1. i - 1 \in 1 .. Len(s) - 1 /\ (i - 1) + 1 = i
      BY <1>1, <2>2
    <3>2. Tail(s)[i - 1] = s[i]
      BY <1>1, <3>1, Zenon
    <3> QED BY <1>1, <3>1, <3>2, Zenon DEF Range
  <2> QED BY <2>1, <2>2, Zenon
<1>3. ASSUME NEW i \in 1 .. Len(s) - 1 PROVE Tail(s)[i] \in Range(s)
  <2>1. i + 1 \in 1 .. Len(s)
    BY <1>1
  <2> QED BY <1>1, <2>1, Zenon DEF Range
<1>4. Head(s) \in Range(s)
  BY <1>1 DEF Range
<1>5. Range(s) \subseteq {Head(s)} \cup Range(Tail(s))
  BY <1>1, <1>2 DEF Range
<1>6. Range(Tail(s)) \subseteq Range(s)
  BY <1>1, <1>3, Zenon DEF Range
<1> QED BY <1>4, <1>5, <1>6, Zenon

LEMMA LinkInit ==
    ASSUME Init
    PROVE  LinkInv
<1>1. log = <<>> /\ Len(log) = 0
  BY Zenon DEF Init
<1>2. ASSUME NEW c \in Consumers PROVE Linked(c)
  <2>1. /\ pos[c] = 0 /\ cursor[c] = 0 /\ link[c] = "none" /\ buffer[c] = <<>>
        /\ arrived[c] = {} /\ con[c] \in {"connect", "done"}
    BY Zenon DEF Init
  <2> QED BY <1>1, <2>1, RangeEmpty DEF Linked
<1> QED BY <1>2, Zenon DEF LinkInv

LEMMA LinkedStep ==
    ASSUME TypeInv, LogInv, LinkInv, TypeInv', NEW c \in Consumers, OfConsumer(c), log' = log
    PROVE  Linked(c)'
<1>0. Linked(c)
  BY Zenon DEF LinkInv
<1>t. /\ pos[c] \in Nat /\ cursor[c] \in Nat /\ Len(log) \in Nat /\ log \in Seq(Nat)
      /\ buffer[c] \in Seq(Nat)
  BY DEF TypeInv
<1>1. CASE Deliver(c)
  <2> DEFINE e == log[pos[c] + 1]
  <2>0. /\ pos'[c] = pos[c] + 1 /\ pos[c] < Len(log) /\ buffer'[c] = Append(buffer[c], e)
        /\ cursor' = cursor /\ con' = con /\ arrived' = arrived /\ excused' = excused
        /\ link[c] = "up"
    BY <1>1, DeliverAt, Zenon
  <2>1. e \in Nat /\ e \in Taken
    <3>1. pos[c] + 1 \in DOMAIN log /\ log[pos[c] + 1] \in Nat
      BY <1>t, <2>0
    <3> QED BY <3>1, Zenon DEF Taken, Range
  <2> HIDE DEF e
  <2>2. Range(buffer'[c]) = Range(buffer[c]) \cup {e}
    BY <1>t, <2>0, <2>1, RangeAppend, Zenon
  <2>3. \A i \in 1 .. pos'[c] : i \in 1 .. pos[c] \/ (i = pos[c] + 1 /\ log[i] = e)
    BY <1>t, <2>0 DEF e
  <2>4. cursor[c] <= pos'[c] /\ pos'[c] <= Len(log)
    <3>1. cursor[c] <= pos[c]
      BY <1>0, Zenon DEF Linked
    <3> QED BY <1>t, <2>0, <3>1
  <2>5. con[c] = "receive" /\ Taken' = Taken
    BY <1>0, <2>0, Zenon DEF Linked, Taken
  <2>6. arrived[c] \cup Range(buffer'[c]) \subseteq Taken
    BY <1>0, <2>1, <2>2, Zenon DEF Linked
  <2>7. \A i \in 1 .. pos'[c] : log[i] \in arrived[c] \cup excused[c] \cup Range(buffer'[c])
    BY <1>0, <2>2, <2>3, Zenon DEF Linked
  <2> QED BY <2>0, <2>4, <2>5, <2>6, <2>7, Zenon DEF Linked
<1>2. CASE NoCredit(c)
  <2>1. PICK lost \in Nat :
            /\ pos'[c] = pos[c] + lost /\ pos[c] + lost <= Len(log)
            /\ excused'[c] = excused[c] \cup {log[i] : i \in pos[c] + 1 .. pos[c] + lost}
    BY <1>2, NoCreditAt, Zenon
  <2>2. \A i \in 1 .. pos'[c] : i \in 1 .. pos[c] \/ i \in pos[c] + 1 .. pos[c] + lost
    BY <1>t, <2>1
  <2>3. cursor'[c] <= pos'[c] /\ pos'[c] <= Len(log') /\ con'[c] = "receive"
    <3>1. cursor' = cursor /\ con' = con /\ link[c] = "up"
      BY <1>2, NoCreditAt, Zenon
    <3>2. cursor[c] <= pos[c] /\ con[c] = "receive"
      BY <1>0, <3>1, Zenon DEF Linked
    <3> QED BY <1>t, <2>1, <3>1, <3>2
  <2>4. buffer' = buffer /\ arrived' = arrived /\ Taken' = Taken
    BY <1>2, NoCreditAt, Zenon DEF Taken
  <2>5. \A i \in 1 .. pos'[c] : log[i] \in arrived[c] \cup excused'[c] \cup Range(buffer[c])
    BY <1>0, <2>1, <2>2, Zenon DEF Linked
  <2>6. arrived[c] \cup Range(buffer[c]) \subseteq Taken
    BY <1>0, Zenon DEF Linked
  <2> QED BY <2>3, <2>4, <2>5, <2>6, Zenon DEF Linked
<1>3. CASE DisconnectConsumer(c)
  <2>1. con[c] = "receive"
    BY <1>0, <1>3, DisconnectAt, Zenon DEF Linked
  <2> QED BY <1>0, <1>3, <2>1, DisconnectAt, Zenon DEF Linked, Taken
<1>4. CASE Connect(c)
  <2>1. CASE con'[c] = "done" /\ UNCHANGED <<pos, cursor, link, excused>>
    BY <1>0, <1>4, <2>1, ConnectAt, Zenon DEF Linked, Taken
  <2>2. ASSUME NEW p \in StartPositions(c), con'[c] = "receive",
               pos'[c] = p /\ cursor'[c] = p,
               excused'[c] = excused[c] \cup {log[i] : i \in pos[c] + 1 .. p}
        PROVE  Linked(c)'
    <3>1. p \in Nat /\ p <= Len(log)
      BY <1>0, <1>t DEF StartPositions, Linked
    <3>2. \A i \in 1 .. p : i \in 1 .. pos[c] \/ i \in pos[c] + 1 .. p
      BY <1>t, <3>1
    <3>3. buffer' = buffer /\ arrived' = arrived /\ Taken' = Taken
      BY <1>4, ConnectAt, Zenon DEF Taken
    <3>4. \A i \in 1 .. p : log[i] \in arrived[c] \cup excused'[c] \cup Range(buffer[c])
      BY <1>0, <2>2, <3>2, Zenon DEF Linked
    <3>5. cursor'[c] <= pos'[c] /\ pos'[c] <= Len(log')
      BY <2>2, <3>1
    <3>6. arrived[c] \cup Range(buffer[c]) \subseteq Taken
      BY <1>0, Zenon DEF Linked
    <3> QED BY <2>2, <3>3, <3>4, <3>5, <3>6, Zenon DEF Linked
  <2> QED BY <1>4, <2>1, <2>2, ConnectAt, Zenon
<1>5. CASE Receive(c)
  <2>1. Range(buffer[c]) = {Head(buffer[c])} \cup Range(Tail(buffer[c]))
    BY <1>t, <1>5, ReceiveAt, RangeTail, Zenon
  <2>2. /\ arrived'[c] = arrived[c] \cup {Head(buffer[c])} /\ con[c] = "receive"
        /\ cursor' = cursor /\ pos' = pos
    BY <1>5, ReceiveAt, Zenon
  <2>3. Taken' = Taken /\ arrived[c] \cup Range(buffer[c]) \subseteq Taken
    BY <1>0, Zenon DEF Linked, Taken
  <2>4. CASE buffer'[c] = Tail(buffer[c]) /\ con' = con /\ link' = link /\ excused' = excused
    BY <1>0, <2>1, <2>2, <2>3, <2>4, Zenon DEF Linked
  <2>5. CASE /\ con'[c] = "connect" /\ link'[c] = "none" /\ buffer'[c] = <<>>
             /\ excused'[c] = excused[c] \cup Range(Tail(buffer[c]))
    BY <1>0, RangeEmpty, <2>1, <2>2, <2>3, <2>5, Zenon DEF Linked
  <2> QED BY <1>5, <2>4, <2>5, ReceiveAt, Zenon
<1>6. CASE ReceiveFails(c)
  BY <1>0, <1>6, ReceiveFailsAt, RangeEmpty, Zenon DEF Linked, Taken
<1>7. CASE recordTracked(c)
  BY <1>0, <1>7, TrackedAt, RangeEmpty, Zenon DEF Linked, Taken
<1> QED BY <1>1, <1>2, <1>3, <1>4, <1>5, <1>6, <1>7, Zenon DEF OfConsumer, Consumer

LEMMA HeadTaken ==
    ASSUME TypeInv, LogInv, LinkInv, NEW c \in Consumers, buffer[c] # <<>>
    PROVE  /\ Head(buffer[c]) \in Nat \ {0} /\ Head(buffer[c]) = buffer[c][1]
           /\ Len(buffer[c]) \in Nat \ {0}
<1>1. buffer[c] \in Seq(Nat) /\ log \in Seq(Nat)
  BY Zenon DEF TypeInv
<1>2. Head(buffer[c]) = buffer[c][1] /\ Len(buffer[c]) \in Nat \ {0}
  BY <1>1
<1>3. Head(buffer[c]) \in Taken
  BY <1>1, RangeTail, Zenon DEF LinkInv, Linked
<1>4. Taken \subseteq 1 .. seq
  BY <1>1 DEF LogInv, Taken, Range
<1> QED BY <1>2, <1>3, <1>4 DEF TypeInv

(* What the consumer takes from its buffer is new, or remembered. *)
NewOrSeen(c) == Head(buffer[c]) \in arrived[c] => Head(buffer[c]) \in trackers[c].seen

-----------------------------------------------------------------------------
(* Events: the subscription never goes back. *)

LEMMA EventsInit ==
    ASSUME Init
    PROVE  EventsInv
<1>1. Len(log) = 0
  BY Zenon DEF Init
<1>2. ASSUME NEW c \in Consumers PROVE Fresh(c)
  <2>1. buffer[c] = <<>> /\ arrived[c] = {} /\ pos[c] = 0
    BY Zenon DEF Init
  <2> QED BY <1>1, <2>1 DEF Fresh
<1> QED BY <1>2, Zenon DEF EventsInv

(* An empty buffer leaves only the log to be asked about. *)
LEMMA FreshEmpty ==
    ASSUME NEW c \in Consumers, buffer'[c] = <<>>, log' = log,
           \A i \in pos'[c] + 1 .. Len(log) : log[i] \notin arrived'[c]
    PROVE  Fresh(c)'
BY DEF Fresh

LEMMA FreshStep ==
    ASSUME TypeInv, LogInv, LinkInv, TypeInv', NEW c \in Consumers, OfConsumer(c), log' = log,
           Fresh(c), pattern = "events"
    PROVE  Fresh(c)'
<1>0. /\ pos[c] \in Nat /\ Len(log) \in Nat /\ pos[c] <= Len(log) /\ Linked(c)
      /\ buffer[c] \in Seq(Nat) /\ Len(buffer[c]) \in Nat
  BY DEF TypeInv, LinkInv, Linked
<1>1. CASE Deliver(c)
  <2> DEFINE e == log[pos[c] + 1]
  <2>1. /\ pos'[c] = pos[c] + 1 /\ pos[c] < Len(log) /\ arrived' = arrived
        /\ buffer'[c] = Append(buffer[c], e)
    BY <1>1, DeliverAt, Zenon
  <2>2. e \in Nat /\ e \notin arrived[c]
    <3>1. pos[c] + 1 \in 1 .. Len(log) /\ pos[c] + 1 \in pos[c] + 1 .. Len(log)
      BY <1>0, <2>1
    <3>2. log[pos[c] + 1] \in Nat
      BY <3>1 DEF TypeInv
    <3> QED BY <3>1, <3>2, Zenon DEF Fresh
  <2>3. \A i \in 1 .. pos[c] : log[i] # e
    <3>1. pos[c] + 1 \in 1 .. Len(log)
          /\ \A i \in 1 .. pos[c] : i \in 1 .. Len(log) /\ i # pos[c] + 1
      BY <1>0, <2>1
    <3> QED BY <3>1, Zenon DEF LogInv
  <2>4. \A i \in pos'[c] + 1 .. Len(log) : log[i] \notin arrived[c]
    <3>1. \A i \in pos'[c] + 1 .. Len(log) : i \in pos[c] + 1 .. Len(log)
      BY <1>0, <2>1
    <3> QED BY <3>1, Zenon DEF Fresh
  <2>5. e = log[pos'[c]] /\ pos'[c] \in 1 .. pos'[c]
    BY <1>0, <2>1
  <2> HIDE DEF e
  <2>6. /\ Len(buffer'[c]) = Len(buffer[c]) + 1 /\ buffer'[c][Len(buffer[c]) + 1] = e
        /\ \A j \in 1 .. Len(buffer[c]) : buffer'[c][j] = buffer[c][j]
    BY <1>0, <2>1, <2>2
  <2>7. \A j \in 1 .. Len(buffer'[c]) : j \in 1 .. Len(buffer[c]) \/ j = Len(buffer[c]) + 1
    BY <1>0, <2>6
  <2>8. \A i \in 1 .. pos[c] : i \in 1 .. pos'[c]
    BY <1>0, <2>1
  <2>9. \A j \in 1 .. Len(buffer[c]) :
            /\ buffer[c][j] \notin arrived[c] /\ buffer[c][j] # e
            /\ \E i \in 1 .. pos'[c] : buffer[c][j] = log[i]
    BY <2>3, <2>8, Zenon DEF Fresh
  <2>10. \A j \in 1 .. Len(buffer'[c]) :
             /\ buffer'[c][j] \notin arrived[c]
             /\ \E i \in 1 .. pos'[c] : buffer'[c][j] = log[i]
    BY <2>2, <2>5, <2>6, <2>7, <2>9
  <2>11. \A j, k \in 1 .. Len(buffer'[c]) : buffer'[c][j] = buffer'[c][k] => j = k
    BY <2>6, <2>7, <2>9, Zenon DEF Fresh
  <2> QED BY <2>1, <2>4, <2>10, <2>11, Zenon DEF Fresh
<1>2. CASE NoCredit(c)
  <2>1. PICK lost \in Nat : pos'[c] = pos[c] + lost
    BY <1>2, NoCreditAt, Zenon
  <2>2. arrived' = arrived /\ buffer' = buffer
    BY <1>2, NoCreditAt, Zenon
  <2>3. /\ \A i \in pos'[c] + 1 .. Len(log) : i \in pos[c] + 1 .. Len(log)
        /\ \A i \in 1 .. pos[c] : i \in 1 .. pos'[c]
    BY <1>0, <2>1
  <2> QED BY <2>2, <2>3, Zenon DEF Fresh
<1>3. CASE DisconnectConsumer(c)
  <2>1. UNCHANGED <<log, pos, buffer, arrived>>
    BY <1>3, DisconnectAt, Zenon
  <2> QED BY <2>1, Zenon DEF Fresh
<1>4. CASE Connect(c)
  <2>1. buffer'[c] = <<>> /\ arrived' = arrived
    BY <1>0, <1>4, ConnectAt, Zenon DEF Linked
  <2>2. CASE pos' = pos
    BY <2>1, <2>2, FreshEmpty, Zenon DEF Fresh
  <2>3. CASE pos'[c] \in StartPositions(c)
    <3>1. pos'[c] = Len(log)
      BY <2>3, Zenon DEF TypeInv, StartPositions
    <3> QED BY <1>0, <2>1, <3>1, FreshEmpty
  <2> QED BY <1>4, <2>2, <2>3, ConnectAt, Zenon
<1>5. CASE Receive(c)
  <2>1. /\ pos' = pos /\ arrived'[c] = arrived[c] \cup {Head(buffer[c])}
        /\ buffer'[c] = Tail(buffer[c]) \/ buffer'[c] = <<>>
        /\ buffer[c] # <<>>
    BY <1>5, ReceiveAt, Zenon
  <2>2. Head(buffer[c]) = buffer[c][1] /\ Len(buffer[c]) \in Nat \ {0} /\ 1 \in 1 .. Len(buffer[c])
    BY <2>1, HeadTaken
  <2>3. \A i \in pos[c] + 1 .. Len(log) : log[i] # buffer[c][1]
    <3>1. PICK h \in 1 .. pos[c] : buffer[c][1] = log[h]
      BY <2>2, Zenon DEF Fresh
    <3>2. \A i \in pos[c] + 1 .. Len(log) : i \in 1 .. Len(log) /\ i # h
      BY <1>0
    <3>3. h \in 1 .. Len(log)
      BY <1>0
    <3> QED BY <3>1, <3>2, <3>3, Zenon DEF LogInv
  <2>4. \A i \in pos'[c] + 1 .. Len(log) : log[i] \notin arrived'[c]
    BY <2>1, <2>2, <2>3, Zenon DEF Fresh
  <2>5. CASE buffer'[c] = Tail(buffer[c])
    <3>1. /\ Len(buffer'[c]) = Len(buffer[c]) - 1
          /\ \A j \in 1 .. Len(buffer[c]) - 1 : buffer'[c][j] = buffer[c][j + 1]
      BY <1>0, <2>1, <2>5
    <3>2. \A j \in 1 .. Len(buffer[c]) - 1 : j + 1 \in 1 .. Len(buffer[c]) /\ j + 1 # 1
      BY <1>0
    <3>3. \A j \in 1 .. Len(buffer'[c]) :
              /\ buffer'[c][j] \notin arrived'[c]
              /\ \E i \in 1 .. pos[c] : buffer'[c][j] = log[i]
      BY <2>1, <2>2, <3>1, <3>2 DEF Fresh
    <3>4. ASSUME NEW j \in 1 .. Len(buffer'[c]), NEW k \in 1 .. Len(buffer'[c]),
                 buffer'[c][j] = buffer'[c][k]
          PROVE  j = k
      <4>1. j \in 1 .. Len(buffer[c]) - 1 /\ k \in 1 .. Len(buffer[c]) - 1
        BY <3>1, Zenon
      <4>2. buffer[c][j + 1] = buffer[c][k + 1]
        BY <3>1, <3>4, <4>1, Zenon
      <4>3. j + 1 = k + 1
        BY <3>2, <4>1, <4>2, Zenon DEF Fresh
      <4> QED BY <4>1, <4>3
    <3> QED BY <2>1, <2>4, <3>3, <3>4, Zenon DEF Fresh
  <2> QED BY <2>1, <2>4, <2>5, FreshEmpty, Zenon
<1>6. CASE ReceiveFails(c)
  BY <1>6, ReceiveFailsAt, FreshEmpty, Zenon DEF Fresh
<1>7. CASE recordTracked(c)
  <2>1. pos' = pos /\ arrived' = arrived /\ (buffer' = buffer \/ buffer'[c] = <<>>)
    BY <1>7, TrackedAt, Zenon
  <2>2. CASE buffer' = buffer
    BY <2>1, <2>2, Zenon DEF Fresh
  <2>3. CASE buffer'[c] = <<>>
    BY <2>1, <2>3, FreshEmpty, Zenon DEF Fresh
  <2> QED BY <2>1, <2>2, <2>3, Zenon
<1> QED BY <1>1, <1>2, <1>3, <1>4, <1>5, <1>6, <1>7, Zenon DEF OfConsumer, Consumer

LEMMA EventsNew ==
    ASSUME TypeInv, LogInv, LinkInv, EventsInv, pattern = "events",
           NEW c \in Consumers, Receive(c)
    PROVE  NewOrSeen(c)
<1>1. Head(buffer[c]) = buffer[c][1] /\ 1 \in 1 .. Len(buffer[c])
  BY HeadTaken, ReceiveAt
<1> QED BY <1>1 DEF EventsInv, Fresh, NewOrSeen

-----------------------------------------------------------------------------
(* Events store: what the subscription repeats, the tracker remembers. *)

LEMMA StoreInit ==
    ASSUME Init
    PROVE  StoreInv
<1>1. Len(log) = 0
  BY Zenon DEF Init
<1>2. ASSUME NEW c \in Consumers PROVE Resumed(c)
  <2>1. con[c] \in {"connect", "done"} /\ arrived[c] = {}
    BY Zenon DEF Init
  <2> QED BY <2>1, Zenon DEF Resumed
<1> QED BY <1>2, Zenon DEF StoreInv

LEMMA StoreNew ==
    ASSUME TypeInv, LogInv, LinkInv, StoreInv, pattern # "events",
           NEW c \in Consumers, Receive(c)
    PROVE  NewOrSeen(c)
<1>1. /\ Head(buffer[c]) = buffer[c][1] /\ 1 \in 1 .. Len(buffer[c]) /\ con[c] = "receive"
      /\ Len(buffer[c]) \in Nat \ {0}
  BY HeadTaken, ReceiveAt
<1>2. PICK k \in 0 .. Len(log) : Handled(c, k)
  BY <1>1, Zenon DEF StoreInv, Resumed
<1>3. pos[c] \in Nat /\ Len(log) \in Nat /\ pos[c] <= Len(log)
  BY DEF TypeInv, LinkInv, Linked
<1>4. k + 1 \in k + 1 .. Len(log)
  BY <1>1, <1>2, <1>3 DEF Handled
<1> QED BY <1>1, <1>2, <1>4, Zenon DEF Handled, NewOrSeen

(* A tracker forgets only what is more than Window behind the highest. *)
LEMMA Forgotten ==
    ASSUME TypeInv, CountInv, NEW c \in Consumers,
           NEW m \in arrived[c], m \notin trackers[c].seen
    PROVE  m + Window < Max(arrived[c])
<1>1. Counts(trackers[c], arrived[c]) /\ trackers[c].lastSeq \in Nat
  BY Zenon DEF CountInv, TypeInv, SubTrackers
<1>2. m + Window < trackers[c].lastSeq
  BY <1>1, Zenon DEF Counts
<1>3. trackers[c].lastSeq # 0
  BY <1>1 DEF Counts
<1>4. trackers[c].lastSeq \in arrived[c] /\ \A k \in arrived[c] : trackers[c].lastSeq >= k
  BY <1>1, <1>3 DEF Counts
<1>5. ASSUME NEW x \in arrived[c], \A k \in arrived[c] : x >= k
      PROVE  x = trackers[c].lastSeq
  <2>1. x \in Nat /\ x >= trackers[c].lastSeq /\ trackers[c].lastSeq >= x
    BY <1>4, <1>5, Zenon DEF TypeInv
  <2> QED BY <1>1, <2>1
<1>6. Max(arrived[c]) = trackers[c].lastSeq
  BY <1>4, <1>5, Zenon DEF Max
<1> QED BY <1>2, <1>6, Zenon

(* The next delivery of a durable consumer that has handled the log up to k. *)
LEMMA ResumedReceive ==
    ASSUME TypeInv, LogInv, LinkInv, CountInv, NEW c \in Consumers, Receive(c), log' = log,
           Resumed(c), NewOrSeen(c)
    PROVE  Resumed(c)'
<1> DEFINE m == Head(buffer[c])
<1>1. /\ pos[c] \in Nat /\ cursor[c] \in Nat /\ Len(log) \in Nat /\ pos[c] <= Len(log)
      /\ buffer[c] \in Seq(Nat)
  BY DEF TypeInv, LinkInv, Linked
<1>2. /\ con[c] = "receive" /\ buffer[c] # <<>> /\ pos' = pos /\ cursor' = cursor
      /\ trackers'[c] = record(trackers[c], m) /\ arrived'[c] = arrived[c] \cup {m}
      /\ \/ buffer'[c] = Tail(buffer[c]) /\ con' = con /\ link' = link
         \/ con'[c] = "connect"
  BY ReceiveAt, Zenon
<1>3. PICK k \in 0 .. Len(log) : Handled(c, k)
  BY <1>2, Zenon DEF Resumed
<1>4. Len(buffer[c]) \in Nat \ {0} /\ m = buffer[c][1] /\ 1 \in 1 .. Len(buffer[c])
  BY <1>2, HeadTaken
<1>5. m = log[k + 1] /\ k + 1 \in cursor[c] + 1 .. Len(log) /\ k + 1 \in 1 .. Len(log)
  <2>1. /\ cursor[c] <= k /\ k + Len(buffer[c]) <= pos[c]
        /\ buffer[c][1] = log[k + 1]
    BY <1>3, <1>4, Zenon DEF Handled
  <2>2. k \in Nat /\ k + 1 <= Len(log)
    BY <1>1, <1>4, <2>1
  <2> QED BY <1>1, <1>4, <2>1, <2>2
<1> HIDE DEF m
<1>6. \A i \in cursor[c] + 1 .. k + 1 : log[i] \in arrived'[c]
  <2>1. \A i \in cursor[c] + 1 .. k + 1 : i \in cursor[c] + 1 .. k \/ i = k + 1
    BY <1>1, <1>3
  <2> QED BY <1>2, <1>3, <1>5, <2>1, Zenon DEF Handled
<1>7. \A j \in 1 .. Len(log) : log[j] = m => j = k + 1
  BY <1>5, Zenon DEF LogInv
<1>8. \A i, j \in cursor[c] + 1 .. Len(log) :
          i < j /\ log[j] \in arrived'[c] => log[i] \in arrived'[c]
  <2> SUFFICES ASSUME NEW i \in cursor[c] + 1 .. Len(log), NEW j \in cursor[c] + 1 .. Len(log),
                      i < j, log[j] \in arrived'[c]
               PROVE  log[i] \in arrived'[c]
    BY Zenon
  <2>1. CASE log[j] \in arrived[c]
    BY <1>2, <2>1, Zenon DEF Resumed
  <2>2. CASE log[j] = m
    <3>1. j = k + 1
      BY <1>1, <1>7, <2>2
    <3>2. i \in cursor[c] + 1 .. k + 1
      BY <1>1, <1>3, <3>1
    <3> QED BY <1>6, <3>2, Zenon
  <2> QED BY <1>2, <2>1, <2>2, Zenon
<1>9. \A i \in (k + 1) + 1 .. Len(log) : log[i] \in arrived'[c] => log[i] \in trackers'[c].seen
  <2> SUFFICES ASSUME NEW i \in (k + 1) + 1 .. Len(log), log[i] \in arrived'[c]
               PROVE  log[i] \in trackers'[c].seen
    BY Zenon
  <2>1. /\ i \in k + 1 .. Len(log) /\ i \in 1 .. Len(log) /\ i \in cursor[c] + 1 .. Len(log)
        /\ k + 1 < i
    BY <1>1, <1>3, <1>5
  <2>2. log[i] \in arrived[c]
    BY <1>2, <1>7, <2>1
  <2>3. m \in arrived[c]
    BY <1>5, <2>1, <2>2, Zenon DEF Resumed
  <2>4. trackers'[c] = trackers[c]
    BY <1>2, <2>3, Zenon DEF NewOrSeen, m, record, isDup
  <2> QED BY <1>3, <2>1, <2>2, <2>4, Zenon DEF Handled
<1>10. CASE buffer'[c] = Tail(buffer[c]) /\ con' = con /\ link' = link
  <2>1. /\ Len(buffer'[c]) = Len(buffer[c]) - 1
        /\ \A j \in 1 .. Len(buffer[c]) - 1 : buffer'[c][j] = buffer[c][j + 1]
    BY <1>1, <1>2, <1>10
  <2>2. /\ cursor[c] <= k + 1 /\ (k + 1) + Len(buffer'[c]) <= pos[c]
        /\ link[c] = "up" => (k + 1) + Len(buffer'[c]) = pos[c]
    <3>1. (k + 1) + Len(buffer'[c]) = k + Len(buffer[c])
      <4>1. k \in Nat /\ Len(buffer[c]) \in Nat /\ Len(buffer'[c]) = Len(buffer[c]) - 1
        BY <1>3, <1>4, <2>1
      <4>2. \A a, b \in Nat : (a + 1) + (b - 1) = a + b
        OBVIOUS
      <4> QED BY <4>1, <4>2, Zenon
    <3>2. cursor[c] <= k + 1
      BY <1>1, <1>3 DEF Handled
    <3> QED BY <1>3, <3>1, <3>2, Zenon DEF Handled
  <2>3. ASSUME NEW j \in 1 .. Len(buffer'[c]) PROVE buffer'[c][j] = log[(k + 1) + j]
    <3>1. j \in 1 .. Len(buffer[c]) - 1 /\ j + 1 \in 1 .. Len(buffer[c])
      BY <1>4, <2>1
    <3>2. k + (j + 1) = (k + 1) + j
      BY <1>3
    <3>3. buffer[c][j + 1] = log[k + (j + 1)]
      BY <1>3, <3>1, Zenon DEF Handled
    <3> QED BY <2>1, <3>1, <3>2, <3>3, Zenon
  <2>4. Handled(c, k + 1)'
    BY <1>2, <1>6, <1>9, <1>10, <2>2, <2>3, Zenon DEF Handled
  <2>5. k + 1 \in 0 .. Len(log')
    BY <1>5
  <2> QED BY <1>2, <1>8, <2>4, <2>5, Zenon DEF Resumed
<1>11. CASE con'[c] = "connect"
  BY <1>2, <1>8, <1>11, Zenon DEF Resumed
<1> QED BY <1>2, <1>10, <1>11, Zenon

(* A subscription that resumes where it may. *)
LEMMA ResumedConnect ==
    ASSUME TypeInv, LinkInv, CountInv, NEW c \in Consumers, Connect(c), log' = log, Resumed(c)
    PROVE  Resumed(c)'
<1>1. /\ pos[c] \in Nat /\ cursor[c] \in Nat /\ Len(log) \in Nat
      /\ pos[c] <= Len(log) /\ cursor[c] <= pos[c]
  BY DEF TypeInv, LinkInv, Linked
<1>2. buffer[c] = <<>> /\ buffer' = buffer /\ trackers' = trackers /\ arrived' = arrived
  BY ConnectAt, Zenon DEF LinkInv, Linked
<1>3. CASE con'[c] = "done" /\ cursor' = cursor
  BY <1>2, <1>3, Zenon DEF Resumed
<1>4. ASSUME NEW p \in StartPositions(c), pos'[c] = p, cursor'[c] = p
      PROVE  Resumed(c)'
  <2>1. p \in cursor[c] .. Len(log)
    BY <1>1 DEF StartPositions
  <2>2. \A i \in p + 1 .. Len(log) : log[i] \in arrived[c] => log[i] \in trackers[c].seen
    <3>1. CASE p = Len(log)
      BY <1>1, <3>1
    <3>2. CASE \A i \in p + 1 .. Len(log) :
                   log[i] \notin {m \in arrived[c] : m + Window < Max(arrived[c])}
      BY <3>2, Forgotten, Zenon
    <3> QED BY <3>1, <3>2, Zenon DEF StartPositions
  <2>3. \A i \in p + 1 .. Len(log) : i \in cursor[c] + 1 .. Len(log)
    BY <1>1, <2>1
  <2>4. /\ Len(buffer'[c]) = 0 /\ p + 0 = p /\ p <= p /\ p \in 0 .. Len(log)
        /\ \A i : i \notin 1 .. 0 /\ i \notin p + 1 .. p
    BY <1>1, <1>2, <2>1
  <2>5. Handled(c, p)'
    BY <1>2, <1>4, <2>2, <2>4, Zenon DEF Handled
  <2>6. \A i, j \in p + 1 .. Len(log) : i < j /\ log[j] \in arrived[c] => log[i] \in arrived[c]
    BY <2>3, Zenon DEF Resumed
  <2> QED BY <1>2, <1>4, <2>4, <2>5, <2>6, Zenon DEF Resumed
<1> QED BY <1>3, <1>4, ConnectAt, Zenon

LEMMA ResumedStep ==
    ASSUME TypeInv, LogInv, LinkInv, CountInv, TypeInv', NEW c \in Consumers, OfConsumer(c),
           log' = log, pattern # "events", Resumed(c), Receive(c) => NewOrSeen(c)
    PROVE  Resumed(c)'
<1>0. /\ pos[c] \in Nat /\ Len(log) \in Nat /\ pos[c] <= Len(log) /\ Linked(c)
      /\ buffer[c] \in Seq(Nat) /\ Len(buffer[c]) \in Nat
  BY DEF TypeInv, LinkInv, Linked
<1>1. CASE Deliver(c)
  <2> DEFINE e == log[pos[c] + 1]
  <2>1. /\ link[c] = "up" /\ pos'[c] = pos[c] + 1 /\ pos[c] < Len(log)
        /\ buffer'[c] = Append(buffer[c], e)
        /\ UNCHANGED <<cursor, con, link, trackers, arrived>>
    BY <1>1, DeliverAt, Zenon
  <2>2. con[c] = "receive"
    BY <1>0, <2>1, Zenon DEF Linked
  <2>3. PICK k \in 0 .. Len(log) : Handled(c, k)
    BY <2>2, Zenon DEF Resumed
  <2>4. e \in Nat
    BY <1>0, <2>1 DEF TypeInv
  <2>5. k + (Len(buffer[c]) + 1) = pos[c] + 1
    <3>1. k + Len(buffer[c]) = pos[c]
      BY <2>1, <2>3, Zenon DEF Handled
    <3> QED BY <1>0, <3>1
  <2>6. e = log[k + (Len(buffer[c]) + 1)]
    BY <2>5, Zenon
  <2> HIDE DEF e
  <2>7. /\ Len(buffer'[c]) = Len(buffer[c]) + 1 /\ buffer'[c][Len(buffer[c]) + 1] = e
        /\ \A j \in 1 .. Len(buffer[c]) : buffer'[c][j] = buffer[c][j]
    BY <1>0, <2>1, <2>4
  <2>8. \A j \in 1 .. Len(buffer'[c]) : j \in 1 .. Len(buffer[c]) \/ j = Len(buffer[c]) + 1
    BY <1>0, <2>7
  <2>9. \A j \in 1 .. Len(buffer'[c]) : buffer'[c][j] = log[k + j]
    BY <2>3, <2>6, <2>7, <2>8, Zenon DEF Handled
  <2>10. k + Len(buffer'[c]) = pos'[c] /\ k + Len(buffer'[c]) <= pos'[c]
    BY <1>0, <2>1, <2>5, <2>7
  <2>11. Handled(c, k)'
    BY <2>1, <2>3, <2>9, <2>10, Zenon DEF Handled
  <2> QED BY <2>1, <2>3, <2>11, Zenon DEF Resumed
<1>2. CASE NoCredit(c)
  <2>1. /\ link[c] = "up" /\ link'[c] = "stalled"
        /\ UNCHANGED <<cursor, con, buffer, trackers, arrived>>
        /\ \E lost \in Nat : pos'[c] = pos[c] + lost
    BY <1>2, NoCreditAt, Zenon
  <2>2. con[c] = "receive"
    BY <1>0, <2>1, Zenon DEF Linked
  <2>3. PICK k \in 0 .. Len(log) : Handled(c, k)
    BY <2>2, Zenon DEF Resumed
  <2>4. k + Len(buffer[c]) <= pos'[c]
    BY <1>0, <2>1, <2>3 DEF Handled
  <2>5. Handled(c, k)'
    BY <2>1, <2>3, <2>4, Zenon DEF Handled
  <2> QED BY <2>1, <2>3, <2>5, Zenon DEF Resumed
<1>3. CASE DisconnectConsumer(c)
  <2>1. /\ link[c] = "up" /\ link'[c] = "broken"
        /\ UNCHANGED <<pos, cursor, con, buffer, trackers, arrived>>
    BY <1>3, DisconnectAt, Zenon
  <2>2. \A k : Handled(c, k) => Handled(c, k)'
    BY <2>1, Zenon DEF Handled
  <2> QED BY <2>1, <2>2, Zenon DEF Resumed
<1>4. CASE Connect(c)
  BY <1>4, ResumedConnect, Zenon
<1>5. CASE Receive(c)
  BY <1>5, ResumedReceive, Zenon
<1>6. CASE ReceiveFails(c)
  BY <1>6, ReceiveFailsAt, Zenon DEF Resumed
<1>7. CASE recordTracked(c)
  BY <1>7, TrackedAt, Zenon DEF Resumed, Handled
<1> QED BY <1>1, <1>2, <1>3, <1>4, <1>5, <1>6, <1>7, Zenon DEF OfConsumer, Consumer

-----------------------------------------------------------------------------
(* The log, which takes the least of what is on the wire, and the whole      *)
(* state.                                                                    *)
INSTANCE WellFoundedInduction

LEMMA MinMember ==
    ASSUME NEW S \in SUBSET Nat, S # {}
    PROVE  Min(S) \in S /\ \A m \in S : Min(S) <= m
<1> DEFINE R == OpToRel(<, Nat)
<1>1. IsWellFoundedOn(R, Nat)
  BY NatLessThanWellFounded, Zenon
<1>2. \A a, b \in Nat : a < b => <<a, b>> \in R
  BY Zenon DEF OpToRel
<1> HIDE DEF R
<1>3. PICK n \in S : \A m \in S : ~(<<m, n>> \in R)
  BY <1>1, WFMin, Zenon
<1>4. ASSUME NEW m \in S PROVE n <= m
  <2>1. ~(m < n)
    BY <1>2, <1>3, Zenon
  <2> QED BY <2>1
<1> QED BY <1>4, Zenon DEF Min

LEMMA TakesOne ==
    ASSUME TypeInv, BrokerTake
    PROVE  /\ \E m \in wire : wire' = wire \ {m} /\ log' = Append(log, m)
           /\ UNCHANGED <<config, seq, consumerVars>>
<1>1. ASSUME NEW part \in {{m \in wire : m >= since}, {m \in wire : m < since}}, part # {}
      PROVE  Min(part) \in wire
  <2>1. part \in SUBSET wire /\ part \in SUBSET Nat
    BY Zenon DEF TypeInv
  <2> QED BY <1>1, <2>1, MinMember, Zenon
<1>2. UNCHANGED <<config, seq, consumerVars>>
  BY Zenon DEF BrokerTake, producerVars
<1>3. PICK part \in {{m \in wire : m >= since}, {m \in wire : m < since}} :
          part # {} /\ wire' = wire \ {Min(part)} /\ log' = Append(log, Min(part))
  BY Zenon DEF BrokerTake
<1> QED BY <1>1, <1>2, <1>3, Zenon

LEMMA LogInit ==
    ASSUME Init
    PROVE  LogInv
BY DEF Init, LogInv

LEMMA LogStep ==
    ASSUME TypeInv, LogInv, [Next]_vars
    PROVE  LogInv'
<1> USE DEF TypeInv
<1>1. CASE BrokerTake
  <2>1. PICK m \in wire : wire' = wire \ {m} /\ log' = Append(log, m)
    BY <1>1, TakesOne, Zenon
  <2>2. seq' = seq
    BY <1>1, TakesOne, Zenon
  <2>3. /\ Len(log') = Len(log) + 1 /\ log'[Len(log) + 1] = m
        /\ \A i \in 1 .. Len(log) : log'[i] = log[i]
    BY <2>1
  <2>4. \A i \in 1 .. Len(log) : log'[i] \in (1 .. seq) \ wire
    BY <2>3, Zenon DEF LogInv
  <2>5. \A i \in 1 .. Len(log') : i \in 1 .. Len(log) \/ i = Len(log) + 1
    BY <2>3
  <2>6. \A i \in 1 .. Len(log') : log'[i] \in (1 .. seq) \ wire'
    BY <2>1, <2>3, <2>4, <2>5, Zenon DEF LogInv
  <2>7. \A i, j \in 1 .. Len(log') : log'[i] = log'[j] => i = j
    BY <2>1, <2>3, <2>4, <2>5 DEF LogInv
  <2>8. wire' \subseteq 1 .. seq
    BY <2>1, Zenon DEF LogInv
  <2> QED BY <2>2, <2>6, <2>7, <2>8, Zenon DEF LogInv
<1>2. CASE Aside
  <2>1. log' = log
    BY <1>2, AsideUnchanged, Zenon
  <2>2. 1 .. seq \subseteq 1 .. seq'
    BY <1>2, AsideWire
  <2> QED BY <1>2, <2>1, <2>2, AsideWire, Zenon DEF LogInv
<1>3. ASSUME NEW c \in Consumers, OfConsumer(c)
      PROVE  LogInv'
  BY <1>3, OfConsumerUnchanged, Zenon DEF LogInv
<1> QED BY <1>1, <1>2, <1>3, Steps, Zenon

LEMMA TypeInit ==
    ASSUME Init
    PROVE  TypeInv
<1>1. pattern = "events" => ~durable
  BY Zenon DEF Init
<1>2. hand = [c \in Consumers |-> {}] /\ {} \in SUBSET Nat
  BY Zenon DEF Init
<1>3. hand \in [Consumers -> SUBSET Nat]
  BY <1>2, Zenon
<1> HIDE DEF Consumers
<1> QED BY <1>1, <1>3 DEF Init, TypeInv, newSubTracker, SubTrackers

(* The types of what AcceptMessage changes. *)
Consuming ==
    /\ con \in [Consumers -> {"connect", "receive", "done"}]
    /\ link \in [Consumers -> {"none", "up", "broken", "stalled"}]
    /\ buffer \in [Consumers -> Seq(Nat)] /\ DOMAIN excused = Consumers

LEMMA AcceptType ==
    ASSUME Consuming, NEW c \in Consumers, NEW left \in Seq(Nat), AcceptMessage(c, left)
    PROVE  Consuming'
<1> USE DEF Consuming
<1>1. CASE UNCHANGED <<con, link, excused>> /\ buffer' = [buffer EXCEPT ![c] = left]
  BY <1>1, Zenon
<1>2. CASE con' = [con EXCEPT ![c] = "connect"] /\ cleanupConn(c, left)
  BY <1>2 DEF cleanupConn
<1> QED BY <1>1, <1>2, Zenon DEF AcceptMessage

LEMMA TypeStep ==
    ASSUME TypeInv, LogInv, LinkInv, [Next]_vars
    PROVE  TypeInv'
<1>1. CASE BrokerTake
  <2>1. PICK m \in wire : wire' = wire \ {m} /\ log' = Append(log, m)
    BY <1>1, TakesOne, Zenon
  <2>2. UNCHANGED <<config, seq, consumerVars>>
    BY <1>1, TakesOne, Zenon
  <2>3. wire' \subseteq Nat /\ log' \in Seq(Nat)
    BY <2>1 DEF TypeInv
  <2> QED BY <2>2, <2>3, Zenon DEF TypeInv, config, consumerVars
<1>2. CASE Aside
  <2>1. seq' \in Nat /\ wire' \subseteq Nat
    BY <1>2, AsideWire
  <2>2. UNCHANGED <<config, log, consumerVars>>
    BY <1>2, AsideUnchanged, Zenon
  <2> QED BY <2>1, <2>2, Zenon DEF TypeInv, config, consumerVars
<1>3. ASSUME NEW c \in Consumers, OfConsumer(c)
      PROVE  TypeInv'
  <2>1. UNCHANGED <<config, seq, wire, log>>
    BY <1>3, OfConsumerUnchanged, Zenon
  <2> SUFFICES
        /\ pos' \in [Consumers -> Nat] /\ cursor' \in [Consumers -> Nat]
        /\ con' \in [Consumers -> {"connect", "receive", "done"}]
        /\ link' \in [Consumers -> {"none", "up", "broken", "stalled"}]
        /\ buffer' \in [Consumers -> Seq(Nat)] /\ hand' \in [Consumers -> SUBSET Nat]
        /\ trackers' \in [Consumers -> SubTrackers]
        /\ arrived' \in [Consumers -> SUBSET Nat] /\ DOMAIN excused' = Consumers
    BY <2>1, Zenon DEF TypeInv, config
  <2> USE DEF TypeInv
  <2>2. CASE Deliver(c)
    <3>1. log[pos[c] + 1] \in Nat
      BY <2>2, DeliverAt
    <3> QED BY <2>2, <3>1 DEF Deliver, BrokerUnchanged
  <2>3. CASE NoCredit(c)
    <3> DEFINE lost == IF pattern = "events" THEN 1 ELSE Ring
    <3>1. lost \in Nat
      BY FanOutBounds, Zenon
    <3>2. /\ pos' = [pos EXCEPT ![c] = @ + lost]
          /\ excused' = [excused EXCEPT ![c] =
                             @ \cup {log[i] : i \in pos[c] + 1 .. pos[c] + lost}]
          /\ link' = link \/ link' = [link EXCEPT ![c] = "stalled"]
          /\ UNCHANGED <<cursor, con, buffer, hand, trackers, arrived>>
      BY <2>3, Zenon DEF NoCredit, BrokerUnchanged
    <3> HIDE DEF lost
    <3>3. /\ pos' \in [Consumers -> Nat] /\ DOMAIN excused' = Consumers
      BY <3>1, <3>2
    <3>4. link' \in [Consumers -> {"none", "up", "broken", "stalled"}]
      BY <3>2, Zenon
    <3> QED BY <3>2, <3>3, <3>4, Zenon
  <2>4. CASE DisconnectConsumer(c)
    BY <2>4, Zenon DEF DisconnectConsumer, BrokerUnchanged
  <2>5. CASE Connect(c)
    <3>1. \A p \in StartPositions(c) : p \in Nat
      BY DEF StartPositions
    <3>2. UNCHANGED <<buffer, hand, trackers, arrived>>
      BY <2>5, Zenon DEF Connect
    <3>3. CASE UNCHANGED <<pos, cursor, link, excused>> /\ con' = [con EXCEPT ![c] = "done"]
      BY <3>2, <3>3, Zenon
    <3>4. ASSUME NEW p \in StartPositions(c),
                 /\ pos' = [pos EXCEPT ![c] = p] /\ cursor' = [cursor EXCEPT ![c] = p]
                 /\ con' = [con EXCEPT ![c] = "receive"] /\ link' = [link EXCEPT ![c] = "up"]
                 /\ excused' = [excused EXCEPT ![c] = @ \cup {log[i] : i \in pos[c] + 1 .. p}]
          PROVE  /\ pos' \in [Consumers -> Nat] /\ cursor' \in [Consumers -> Nat]
                 /\ con' \in [Consumers -> {"connect", "receive", "done"}]
                 /\ link' \in [Consumers -> {"none", "up", "broken", "stalled"}]
                 /\ DOMAIN excused' = Consumers
      BY <3>1, <3>4, Zenon
    <3> QED BY <2>5, <3>2, <3>3, <3>4, Zenon DEF Connect
  <2>6. CASE Receive(c)
    <3>1. Head(buffer[c]) \in Nat /\ Tail(buffer[c]) \in Seq(Nat)
      BY <2>6 DEF Receive
    <3>2. record(trackers[c], Head(buffer[c])) \in SubTrackers
      BY <3>1, RecordType, Zenon
    <3>3. /\ UNCHANGED <<pos, cursor>>
          /\ trackers' = [trackers EXCEPT ![c] = record(trackers[c], Head(buffer[c]))]
          /\ arrived' = [arrived EXCEPT ![c] = arrived[c] \cup {Head(buffer[c])}]
          /\ hand' = hand \/ hand' = [hand EXCEPT ![c] = {Head(buffer[c])}]
      BY <2>6, Zenon DEF Receive
    <3>4. /\ trackers' \in [Consumers -> SubTrackers] /\ arrived' \in [Consumers -> SUBSET Nat]
          /\ hand' \in [Consumers -> SUBSET Nat]
      <4>1. {Head(buffer[c])} \in SUBSET Nat
        BY <3>1, Zenon
      <4>2. arrived[c] \cup {Head(buffer[c])} \in SUBSET Nat
        BY <3>1, Zenon
      <4>3. trackers' \in [Consumers -> SubTrackers]
        BY <3>2, <3>3, Zenon
      <4>4. arrived' \in [Consumers -> SUBSET Nat]
        BY <3>3, <4>2, Zenon
      <4>5. hand' \in [Consumers -> SUBSET Nat]
        <5>1. CASE hand' = hand
          BY <5>1, Zenon
        <5>2. CASE hand' = [hand EXCEPT ![c] = {Head(buffer[c])}]
          BY <4>1, <5>2, Zenon
        <5> QED BY <3>3, <5>1, <5>2, Zenon
      <4> QED BY <4>3, <4>4, <4>5, Zenon
    <3>5. Consuming'
      <4>1. \/ UNCHANGED <<con, link, excused>> /\ buffer' = [buffer EXCEPT ![c] = Tail(@)]
            \/ AcceptMessage(c, Tail(buffer[c]))
        BY <2>6, Zenon DEF Receive
      <4>2. CASE UNCHANGED <<con, link, excused>> /\ buffer' = [buffer EXCEPT ![c] = Tail(@)]
        BY <3>1, <4>2, Zenon DEF Consuming
      <4>3. CASE AcceptMessage(c, Tail(buffer[c]))
        BY <3>1, <4>3, AcceptType, Zenon DEF Consuming
      <4> QED BY <4>1, <4>2, <4>3, Zenon
    <3> QED BY <3>3, <3>4, <3>5, Zenon DEF Consuming
  <2>7. CASE ReceiveFails(c)
    BY <2>7 DEF ReceiveFails, cleanupConn
  <2>8. CASE recordTracked(c)
    <3>1. AcceptMessage(c, buffer[c]) /\ buffer[c] \in Seq(Nat)
      BY <2>8, Zenon DEF recordTracked
    <3>2. Consuming'
      BY <3>1, AcceptType, Zenon DEF Consuming
    <3>3. hand' = [hand EXCEPT ![c] = {}] /\ UNCHANGED <<pos, cursor, trackers, arrived>>
      BY <2>8, Zenon DEF recordTracked
    <3> QED BY <3>2, <3>3, Zenon DEF Consuming
  <2> QED BY <1>3, <2>2, <2>3, <2>4, <2>5, <2>6, <2>7, <2>8, Zenon DEF OfConsumer, Consumer
<1> QED BY <1>1, <1>2, <1>3, Steps, Zenon

(* The broker takes one more message, which nobody was given yet. *)
LEMMA LogGrows ==
    ASSUME TypeInv, LogInv, LinkInv, BrokerTake
    PROVE  /\ Len(log') = Len(log) + 1
           /\ \A i \in 1 .. Len(log) : log'[i] = log[i]
           /\ Taken \subseteq Taken'
           /\ \A c \in Consumers : log'[Len(log) + 1] \notin arrived[c]
<1>1. PICK m \in wire : log' = Append(log, m)
  BY TakesOne, Zenon
<1>2. m \in Nat /\ log \in Seq(Nat)
  BY Zenon DEF TypeInv
<1>3. /\ Len(log') = Len(log) + 1 /\ log'[Len(log) + 1] = m
      /\ \A i \in 1 .. Len(log) : log'[i] = log[i]
  BY <1>1, <1>2
<1>4. Taken' = Taken \cup {m}
  BY <1>1, <1>2, RangeAppend, Zenon DEF Taken
<1>5. m \notin Taken
  BY <1>2 DEF LogInv, Taken, Range
<1> QED BY <1>3, <1>4, <1>5, Zenon DEF LinkInv, Linked

LEMMA LinkStep ==
    ASSUME TypeInv, LogInv, LinkInv, TypeInv', [Next]_vars
    PROVE  LinkInv'
<1>1. ASSUME BrokerTake, NEW c \in Consumers PROVE Linked(c)'
  <2>1. UNCHANGED consumerVars
    BY <1>1, TakesOne, Zenon
  <2>2. /\ Len(log') = Len(log) + 1 /\ \A i \in 1 .. Len(log) : log'[i] = log[i]
        /\ Taken \subseteq Taken'
    BY <1>1, LogGrows, Zenon
  <2>3. pos[c] \in Nat /\ Len(log) \in Nat /\ Linked(c)
    BY DEF TypeInv, LinkInv
  <2>4. pos[c] <= Len(log') /\ \A i \in 1 .. pos[c] : log'[i] = log[i]
    BY <2>2, <2>3 DEF Linked
  <2> QED BY <2>1, <2>2, <2>3, <2>4, Zenon DEF Linked, consumerVars
<1>2. ASSUME Aside, NEW c \in Consumers PROVE Linked(c)'
  <2>1. UNCHANGED <<log, consumerVars>>
    BY <1>2, AsideUnchanged, Zenon
  <2> QED BY <2>1, Zenon DEF LinkInv, Linked, consumerVars, Taken
<1>3. ASSUME NEW c \in Consumers, OfConsumer(c), NEW d \in Consumers PROVE Linked(d)'
  <2>1. log' = log
    BY <1>3, OfConsumerUnchanged, Zenon
  <2>2. CASE d = c
    BY <1>3, <2>1, <2>2, LinkedStep, Zenon
  <2>3. CASE d # c
    <3>1. Linked(d)
      BY Zenon DEF LinkInv
    <3> QED BY <1>3, <2>1, <2>3, <3>1, Others DEF Linked, Taken
  <2> QED BY <2>2, <2>3, Zenon
<1> QED BY <1>1, <1>2, <1>3, Steps, Zenon DEF LinkInv

LEMMA EventsStep ==
    ASSUME TypeInv, LogInv, LinkInv, EventsInv, TypeInv', [Next]_vars
    PROVE  EventsInv'
<1>0. pattern' = pattern
  BY TakesOne, AsideUnchanged, OfConsumerUnchanged, Steps, Zenon DEF config
<1> SUFFICES ASSUME pattern = "events", NEW d \in Consumers
             PROVE  Fresh(d)'
  BY <1>0, Zenon DEF EventsInv
<1>1. Fresh(d) /\ Linked(d) /\ pos[d] \in Nat /\ Len(log) \in Nat
  BY DEF EventsInv, LinkInv, TypeInv
<1>2. CASE BrokerTake
  <2>1. UNCHANGED consumerVars
    BY <1>2, TakesOne, Zenon
  <2>2. /\ Len(log') = Len(log) + 1 /\ \A i \in 1 .. Len(log) : log'[i] = log[i]
        /\ log'[Len(log) + 1] \notin arrived[d]
    BY <1>2, LogGrows, Zenon
  <2>3. /\ \A i \in pos[d] + 1 .. Len(log') : i \in pos[d] + 1 .. Len(log) \/ i = Len(log) + 1
        /\ \A i \in pos[d] + 1 .. Len(log) : log'[i] = log[i]
        /\ \A i \in 1 .. pos[d] : log'[i] = log[i]
    BY <1>1, <2>2 DEF Linked
  <2>4. \A i \in pos[d] + 1 .. Len(log') : log'[i] \notin arrived[d]
    BY <1>1, <2>2, <2>3, Zenon DEF Fresh
  <2>5. \A j \in 1 .. Len(buffer[d]) :
            /\ buffer[d][j] \notin arrived[d]
            /\ \E i \in 1 .. pos[d] : buffer[d][j] = log'[i]
    BY <1>1, <2>3, Zenon DEF Fresh
  <2>6. \A j, k \in 1 .. Len(buffer[d]) : buffer[d][j] = buffer[d][k] => j = k
    BY <1>1, Zenon DEF Fresh
  <2>7. buffer' = buffer /\ arrived' = arrived /\ pos' = pos
    BY <2>1, Zenon DEF consumerVars
  <2> QED BY <2>4, <2>5, <2>6, <2>7, Zenon DEF Fresh
<1>3. CASE Aside
  BY <1>1, <1>3, AsideUnchanged, Zenon DEF Fresh, consumerVars
<1>4. ASSUME NEW c \in Consumers, OfConsumer(c) PROVE Fresh(d)'
  <2>1. log' = log
    BY <1>4, OfConsumerUnchanged, Zenon
  <2>2. CASE d = c
    BY <1>1, <1>4, <2>1, <2>2, FreshStep, Zenon
  <2>3. CASE d # c
    <3>1. pos'[d] = pos[d] /\ buffer'[d] = buffer[d] /\ arrived'[d] = arrived[d]
      BY <1>4, <2>3, Others, Zenon
    <3>2. \A i \in pos'[d] + 1 .. Len(log') : log'[i] \notin arrived'[d]
      BY <1>1, <2>1, <3>1, Zenon DEF Fresh
    <3>3. \A j \in 1 .. Len(buffer'[d]) :
              /\ buffer'[d][j] \notin arrived'[d]
              /\ \E i \in 1 .. pos'[d] : buffer'[d][j] = log'[i]
      <4>1. \A j \in 1 .. Len(buffer[d]) :
                buffer[d][j] \notin arrived[d] /\ \E i \in 1 .. pos[d] : buffer[d][j] = log[i]
        BY <1>1, Zenon DEF Fresh
      <4> QED BY <2>1, <3>1, <4>1
    <3>4. \A j, k \in 1 .. Len(buffer'[d]) : buffer'[d][j] = buffer'[d][k] => j = k
      BY <1>1, <3>1, Zenon DEF Fresh
    <3> QED BY <3>2, <3>3, <3>4, Zenon DEF Fresh
  <2> QED BY <2>2, <2>3, Zenon
<1> QED BY <1>2, <1>3, <1>4, Steps, Zenon

LEMMA StoreStep ==
    ASSUME TypeInv, LogInv, LinkInv, CountInv, StoreInv, TypeInv', [Next]_vars
    PROVE  StoreInv'
<1>0. pattern' = pattern
  BY TakesOne, AsideUnchanged, OfConsumerUnchanged, Steps, Zenon DEF config
<1> SUFFICES ASSUME pattern # "events", NEW d \in Consumers
             PROVE  Resumed(d)'
  BY <1>0, Zenon DEF StoreInv
<1>1. /\ Resumed(d) /\ Linked(d) /\ pos[d] \in Nat /\ cursor[d] \in Nat /\ Len(log) \in Nat
      /\ Len(buffer[d]) \in Nat
  BY DEF StoreInv, LinkInv, TypeInv
<1>2. CASE BrokerTake
  <2>1. UNCHANGED <<pos, cursor, con, link, buffer, trackers, arrived>>
    BY <1>2, TakesOne, Zenon DEF consumerVars
  <2>2. /\ Len(log') = Len(log) + 1 /\ \A i \in 1 .. Len(log) : log'[i] = log[i]
        /\ log'[Len(log) + 1] \notin arrived[d]
    BY <1>2, LogGrows, Zenon
  <2>3. ASSUME NEW n \in Nat, NEW i \in n + 1 .. Len(log'), log'[i] \in arrived[d]
        PROVE  i \in n + 1 .. Len(log) /\ log'[i] = log[i]
    BY <1>1, <2>2, <2>3
  <2>4. ASSUME NEW i \in cursor[d] + 1 .. Len(log'), NEW j \in cursor[d] + 1 .. Len(log'),
               i < j, log'[j] \in arrived[d]
        PROVE  log'[i] \in arrived[d]
    <3>1. j \in cursor[d] + 1 .. Len(log) /\ log'[j] = log[j]
      BY <1>1, <2>3, <2>4, Zenon
    <3>2. i \in cursor[d] + 1 .. Len(log) /\ log'[i] = log[i]
      BY <1>1, <2>2, <2>4, <3>1
    <3> QED BY <1>1, <2>4, <3>1, <3>2, Zenon DEF Resumed
  <2>5. ASSUME NEW k \in 0 .. Len(log), Handled(d, k)
        PROVE  Handled(d, k)' /\ k \in 0 .. Len(log')
    <3>1. \A j \in 1 .. Len(buffer[d]) : buffer[d][j] = log'[k + j]
      <4>1. \A j \in 1 .. Len(buffer[d]) : k + j \in 1 .. Len(log)
        BY <1>1, <2>5 DEF Handled, Linked
      <4> QED BY <2>2, <2>5, <4>1 DEF Handled
    <3>2. \A i \in cursor[d] + 1 .. k : log'[i] \in arrived[d]
      <4>1. \A i \in cursor[d] + 1 .. k : i \in 1 .. Len(log)
        BY <1>1
      <4> QED BY <2>2, <2>5, <4>1, Zenon DEF Handled
    <3>3. \A i \in k + 1 .. Len(log') : log'[i] \in arrived[d] => log'[i] \in trackers[d].seen
      <4>1. k \in Nat
        OBVIOUS
      <4> QED BY <2>3, <2>5, <4>1, Zenon DEF Handled
    <3>4. k \in 0 .. Len(log')
      BY <1>1, <2>2
    <3> QED BY <2>1, <2>5, <3>1, <3>2, <3>3, <3>4, Zenon DEF Handled
  <2> QED BY <1>1, <2>1, <2>4, <2>5, Zenon DEF Resumed
<1>3. CASE Aside
  <2>1. UNCHANGED <<log, pos, cursor, con, link, buffer, trackers, arrived>>
    BY <1>3, AsideUnchanged, Zenon DEF consumerVars
  <2> QED BY <1>1, <2>1, Zenon DEF Resumed, Handled
<1>4. ASSUME NEW c \in Consumers, OfConsumer(c) PROVE Resumed(d)'
  <2>1. log' = log
    BY <1>4, OfConsumerUnchanged, Zenon
  <2>2. CASE d = c
    BY <1>1, <1>4, <2>1, <2>2, ResumedStep, StoreNew, Zenon
  <2>3. CASE d # c
    <3>1. /\ pos'[d] = pos[d] /\ cursor'[d] = cursor[d] /\ con'[d] = con[d] /\ link'[d] = link[d]
          /\ buffer'[d] = buffer[d] /\ trackers'[d] = trackers[d] /\ arrived'[d] = arrived[d]
      BY <1>4, <2>3, Others, Zenon
    <3>2. \A k : Handled(d, k) => Handled(d, k)'
      BY <2>1, <3>1, Zenon DEF Handled
    <3> QED BY <1>1, <2>1, <3>1, <3>2, Zenon DEF Resumed
  <2> QED BY <2>2, <2>3, Zenon
<1> QED BY <1>2, <1>3, <1>4, Steps, Zenon

-----------------------------------------------------------------------------
(* Counting, with the facts about finite sets. *)
INSTANCE FiniteSetTheorems

LEMMA UpTo ==
    ASSUME NEW n \in Nat
    PROVE  IsFiniteSet(1 .. n) /\ Cardinality(1 .. n) = n
<1>1. 1 \in Int /\ n \in Int
  OBVIOUS
<1>2. IsFiniteSet(1 .. n) /\ Cardinality(1 .. n) = IF 1 > n THEN 0 ELSE n - 1 + 1
  BY <1>1, FS_Interval, Zenon
<1>3. (IF 1 > n THEN 0 ELSE n - 1 + 1) = n
  OBVIOUS
<1> QED BY <1>2, <1>3

LEMMA RecordCounts ==
    ASSUME NEW s \in SubTrackers, NEW A \in SUBSET Nat, Counts(s, A), NEW m \in Nat \ {0},
           m \in A => m \in s.seen
    PROVE  Counts(record(s, m), A \cup {m})
<1>1. CASE m \in s.seen
  <2>1. A \cup {m} = A
    BY <1>1, Zenon DEF Counts
  <2> QED BY <1>1, <2>1, Zenon DEF record, isDup
<1>2. CASE m \notin s.seen
  <2>1. PICK t \in SubTrackers : Added(s, m, t)
    BY <1>2, RecordNew, Zenon
  <2> USE <2>1 DEF Added
  <2>2. t.lastSeq \in Nat /\ s.lastSeq \in Nat
    BY Zenon DEF SubTrackers
  <2>4. A \cup {m} \subseteq 1 .. t.lastSeq
    <3>1. \A k \in 1 .. s.lastSeq : k \in 1 .. t.lastSeq
      BY <2>2
    <3>2. m \in 1 .. t.lastSeq
      BY <2>2
    <3> QED BY <3>1, <3>2, Zenon DEF Counts
  <2>5. t.lastSeq \in A \cup {m}
    BY <2>2 DEF Counts
  <2>6. IsFiniteSet(A)
    <3>1. A \in SUBSET (1 .. s.lastSeq)
      BY Zenon DEF Counts
    <3>2. IsFiniteSet(1 .. s.lastSeq)
      BY <2>2, UpTo, Zenon
    <3> QED BY <3>1, <3>2, FS_Subset, Zenon
  <2>7. m \notin A
    BY <1>2, Zenon
  <2>8. Cardinality(A \cup {m}) = t.uniqueCount
    BY <2>6, <2>7, FS_AddElement, Zenon DEF Counts
  <2>9. t.seen \subseteq A \cup {m}
    BY Zenon DEF Counts
  <2>10. \A k \in (A \cup {m}) \ t.seen : k + Window < t.lastSeq
    BY <2>2, WindowAssumption DEF Counts
  <2>11. Counts(t, A \cup {m})
    BY <2>4, <2>5, <2>8, <2>9, <2>10, Zenon DEF Counts
  <2>12. A \cup {m} \in SUBSET Nat
    BY Zenon
  <2> QED BY <2>11, <2>12, PruneCounts, Zenon
<1> QED BY <1>1, <1>2, Zenon

(* What missing computes from a subTracker that counts A. *)
LEMMA MissingCounts ==
    ASSUME NEW s \in SubTrackers, NEW A \in SUBSET Nat, Counts(s, A)
    PROVE  missing(s) = Cardinality((1 .. s.lastSeq) \ A)
<1>1. s.lastSeq \in Nat /\ s.uniqueCount \in Nat
  BY Zenon DEF SubTrackers
<1>2. IsFiniteSet(1 .. s.lastSeq) /\ Cardinality(1 .. s.lastSeq) = s.lastSeq
  BY <1>1, UpTo, Zenon
<1>3. (1 .. s.lastSeq) \cap A = A
  BY Zenon DEF Counts
<1>4. Cardinality((1 .. s.lastSeq) \ A) = s.lastSeq - s.uniqueCount
  <2>1. Cardinality((1 .. s.lastSeq) \ A)
            = Cardinality(1 .. s.lastSeq) - Cardinality((1 .. s.lastSeq) \cap A)
    BY <1>2, FS_Difference, Zenon
  <2> QED BY <1>2, <1>3, <2>1, Zenon DEF Counts
<1>5. s.uniqueCount <= s.lastSeq
  BY <1>2, FS_Subset, Zenon DEF Counts
<1> QED BY <1>1, <1>4, <1>5 DEF missing

LEMMA MissingGap ==
    ASSUME TypeInv, CountInv
    PROVE  MissingIsExact
<1> SUFFICES ASSUME NEW c \in Consumers
             PROVE  missing(trackers[c]) = Cardinality(Gap(c))
  BY Zenon DEF MissingIsExact
<1>1. /\ trackers[c] \in SubTrackers /\ arrived[c] \in SUBSET Nat
      /\ Counts(trackers[c], arrived[c])
  BY Zenon DEF TypeInv, CountInv
<1> QED BY <1>1, MissingCounts, Zenon DEF Gap

LEMMA CountInit ==
    ASSUME Init
    PROVE  CountInv
<1>1. ASSUME NEW c \in Consumers PROVE Counts(trackers[c], arrived[c])
  <2>1. trackers[c] = newSubTracker /\ arrived[c] = {}
    BY Zenon DEF Init
  <2> QED BY <2>1, FS_EmptySet DEF Counts, newSubTracker
<1> QED BY <1>1, Zenon DEF CountInv

LEMMA CountStep ==
    ASSUME TypeInv, LogInv, LinkInv, CountInv, [Next]_vars,
           \A c \in Consumers : Receive(c) => NewOrSeen(c)
    PROVE  CountInv'
<1>1. CASE BrokerTake \/ Aside
  <2>1. UNCHANGED <<trackers, arrived>>
    <3>1. UNCHANGED consumerVars
      BY <1>1, TakesOne, AsideUnchanged, Zenon
    <3> QED BY <3>1, Zenon DEF consumerVars
  <2> QED BY <2>1, Zenon DEF CountInv
<1>2. ASSUME NEW c \in Consumers, OfConsumer(c), NEW d \in Consumers
      PROVE  Counts(trackers'[d], arrived'[d])
  <2>1. Counts(trackers[d], arrived[d])
    BY Zenon DEF CountInv
  <2>2. CASE d # c
    <3>1. trackers'[d] = trackers[d] /\ arrived'[d] = arrived[d]
      BY <1>2, <2>2, Others, Zenon
    <3> QED BY <2>1, <3>1, Zenon
  <2>3. CASE d = c /\ Receive(c)
    <3>1. /\ trackers'[c] = record(trackers[c], Head(buffer[c])) /\ buffer[c] # <<>>
          /\ arrived'[c] = arrived[c] \cup {Head(buffer[c])}
      BY <2>3, ReceiveAt, Zenon
    <3>2. Head(buffer[c]) \in Nat \ {0}
      BY <3>1, HeadTaken
    <3>3. trackers[c] \in SubTrackers /\ arrived[c] \in SUBSET Nat
      BY Zenon DEF TypeInv
    <3>4. Head(buffer[c]) \in arrived[c] => Head(buffer[c]) \in trackers[c].seen
      BY <2>3 DEF NewOrSeen
    <3>5. Counts(record(trackers[c], Head(buffer[c])), arrived[c] \cup {Head(buffer[c])})
      BY <2>1, <2>3, <3>2, <3>3, <3>4, RecordCounts, Zenon
    <3> QED BY <2>3, <3>1, <3>5, Zenon
  <2>4. CASE d = c /\ ~Receive(c)
    <3>1. trackers' = trackers /\ arrived' = arrived
      <4>1. Deliver(c) \/ NoCredit(c) \/ DisconnectConsumer(c) \/ Connect(c) \/ ReceiveFails(c)
               \/ recordTracked(c)
        BY <1>2, <2>4, Zenon DEF OfConsumer, Consumer
      <4> QED BY <4>1, DeliverAt, NoCreditAt, DisconnectAt, ConnectAt, ReceiveFailsAt, TrackedAt,
                 Zenon
    <3> QED BY <2>1, <3>1, Zenon
  <2> QED BY <2>2, <2>3, <2>4
<1> QED BY <1>1, <1>2, Steps DEF CountInv

-----------------------------------------------------------------------------
(* What the tracker makes of the sequences it is told. *)

Windows == SUBSET (0 .. W - 1)

States ==
    [highContiguous : Nat, window : Windows, received : Nat, duplicates : Nat, outOfOrder : Nat,
     confirmedLost : Nat, pendingLost : SUBSET Nat, lastReportedLost : Nat, lastSeen : Nat]

(* The state ps has marked the sequences K, none of them above L, and takes *)
(* none of them for lost.                                                   *)
Marks(ps, K, L) ==
    /\ ps.highContiguous <= L /\ \A i \in ps.window : ps.highContiguous + 1 + i <= L
    /\ \A m \in K : m > ps.highContiguous => m - ps.highContiguous - 1 \in ps.window
    /\ \A m \in ps.pendingLost : m \in 1 .. ps.highContiguous /\ m \notin K
    /\ ps.confirmedLost = Cardinality(ps.pendingLost)

LEMMA MarksFewer ==
    ASSUME NEW ps \in States, NEW K, NEW L \in Nat, Marks(ps, K, L),
           NEW K2 \in SUBSET K, NEW L2 \in Nat, L <= L2
    PROVE  Marks(ps, K2, L2)
<1>1. ps.highContiguous \in Nat /\ ps.window \subseteq Nat
  BY FanOutBounds DEF States, Windows
<1>2. ps.highContiguous <= L2 /\ \A i \in ps.window : ps.highContiguous + 1 + i <= L2
  BY <1>1 DEF Marks
<1> QED BY <1>2, Zenon DEF Marks

(* The run that advanceContiguous passes over, and what it leaves. *)
LEMMA Run ==
    ASSUME NEW w \in Windows
    PROVE  /\ T!SeenRun(w) \in Nat
           /\ \A i \in 0 .. T!SeenRun(w) - 1 : i \in w
<1> DEFINE S == (0 .. W) \ w
<1>1. S \subseteq Nat /\ S # {}
  BY FanOutBounds DEF Windows
<1>2. PICK n \in S : \A y \in S : n <= y
  <2> HIDE DEF S
  <2> QED BY <1>1, MinMember, Zenon
<1>3. n \in 0 .. W /\ n \notin w /\ \A i \in 0 .. n - 1 : i \in w
  BY <1>2, FanOutBounds
<1>4. T!SeenRun(w) \in 0 .. W /\ \A i \in 0 .. T!SeenRun(w) - 1 : i \in w
  BY <1>3, Zenon DEF T!SeenRun, T!getBit
<1> QED BY <1>4, FanOutBounds

LEMMA Shift ==
    ASSUME NEW w \in Windows, NEW n \in Nat
    PROVE  /\ T!shiftLeft(w, n) \in Windows
           /\ \A i \in Nat : i \in T!shiftLeft(w, n) <=> i + n \in w
BY FanOutBounds DEF T!shiftLeft, Windows

LEMMA AdvanceMarks ==
    ASSUME NEW ps \in States, NEW K \in SUBSET Nat, NEW L \in Nat, Marks(ps, K, L)
    PROVE  T!advanceContiguous(ps) \in States /\ Marks(T!advanceContiguous(ps), K, L)
<1> DEFINE h == ps.highContiguous
           w == ps.window
           k == T!SeenRun(w)
           n == h + k
           v == T!shiftLeft(w, k)
           new == [ps EXCEPT !.highContiguous = n, !.window = v]
<1>1. h \in Nat /\ w \in Windows /\ w \subseteq Nat /\ ps.pendingLost \subseteq Nat
  BY FanOutBounds DEF States, Windows
<1>2. k \in Nat /\ \A i \in 0 .. k - 1 : i \in w
  BY <1>1, Run, Zenon
<1>3. v \in Windows /\ v \subseteq Nat /\ \A i \in Nat : i \in v <=> i + k \in w
  <2>1. v \in Windows /\ \A i \in Nat : i \in v <=> i + k \in w
    BY <1>1, <1>2, Shift, Zenon
  <2> QED BY <2>1, FanOutBounds DEF Windows
<1>4. n \in Nat
  BY <1>1, <1>2
<1>5. T!advanceContiguous(ps) = new
  BY Zenon DEF T!advanceContiguous
<1>6. /\ new \in States /\ new.highContiguous = n /\ new.window = v
      /\ new.pendingLost = ps.pendingLost /\ new.confirmedLost = ps.confirmedLost
  <2> HIDE DEF n, v
  <2> QED BY <1>3, <1>4, ZenonT(30) DEF States
<1>7. /\ h <= L /\ \A i \in w : h + 1 + i <= L
      /\ \A m \in K : m > h => m - h - 1 \in w
      /\ \A m \in ps.pendingLost : m \in 1 .. h /\ m \notin K
      /\ ps.confirmedLost = Cardinality(ps.pendingLost)
  BY Zenon DEF Marks
<1> HIDE DEF h, w, k, v, new
<1>8. n <= L
  <2>1. CASE k = 0
    BY <1>1, <1>7, <2>1
  <2>2. CASE k # 0
    <3>1. k - 1 \in w
      BY <1>2, <2>2
    <3>2. h + 1 + (k - 1) <= L
      BY <1>7, <3>1, Zenon
    <3> QED BY <1>1, <1>2, <3>2
  <2> QED BY <2>1, <2>2, Zenon
<1>9. \A i \in v : n + 1 + i <= L
  <2> SUFFICES ASSUME NEW i \in v PROVE n + 1 + i <= L
    BY Zenon
  <2>1. i \in Nat /\ i + k \in w
    BY <1>3, Zenon
  <2>2. h + 1 + (i + k) <= L
    BY <1>7, <2>1, Zenon
  <2> QED BY <1>1, <1>2, <2>1, <2>2
<1>10. \A m \in K : m > n => m - n - 1 \in v
  <2> SUFFICES ASSUME NEW m \in K, m > n PROVE m - n - 1 \in v
    BY Zenon
  <2>1. m - h - 1 \in w
    BY <1>1, <1>2, <1>7
  <2>2. m - n - 1 \in Nat /\ (m - n - 1) + k = m - h - 1
    BY <1>1, <1>2
  <2> QED BY <1>3, <2>1, <2>2, Zenon
<1>11. \A m \in ps.pendingLost : m \in 1 .. n /\ m \notin K
  BY <1>1, <1>2, <1>7
<1> HIDE DEF n
<1>12. Marks(new, K, L)
  BY <1>6, <1>7, <1>8, <1>9, <1>10, <1>11, Zenon DEF Marks
<1> QED BY <1>5, <1>6, <1>12, Zenon

(* What every Record does first touches only counters. *)
LEMMA ArriveFields ==
    ASSUME NEW ps \in States, NEW m \in Nat
    PROVE  /\ T!Arrive(ps, m) \in States
           /\ T!Arrive(ps, m).highContiguous = ps.highContiguous
           /\ T!Arrive(ps, m).window = ps.window
           /\ T!Arrive(ps, m).pendingLost = ps.pendingLost
           /\ T!Arrive(ps, m).confirmedLost = ps.confirmedLost
<1> DEFINE r == ps.received + 1
           o == ps.outOfOrder + (IF m < ps.lastSeen THEN 1 ELSE 0)
<1>1. r \in Nat /\ o \in Nat
  BY DEF States
<1>2. T!Arrive(ps, m) = [ps EXCEPT !.received = r, !.outOfOrder = o, !.lastSeen = m]
  BY Zenon DEF T!Arrive
<1> HIDE DEF r, o
<1> QED BY <1>1, <1>2, ZenonT(30) DEF States

LEMMA ArriveMarks ==
    ASSUME NEW ps \in States, NEW m \in Nat, NEW K, NEW L, Marks(ps, K, L)
    PROVE  T!Arrive(ps, m) \in States /\ Marks(T!Arrive(ps, m), K, L)
BY ArriveFields, Zenon DEF Marks

(* The first sequence of a producer. *)
LEMMA FirstMarks ==
    ASSUME NEW L \in Nat, NEW m \in 1 .. L
    PROVE  T!NewProducer(m) \in States /\ Marks(T!NewProducer(m), {m}, L)
<1> DEFINE h == m - 1
           w == T!setBit({}, 0)
           ps == [highContiguous |-> h, window |-> w, received |-> 1, duplicates |-> 0,
                  outOfOrder |-> 0, confirmedLost |-> 0, pendingLost |-> {},
                  lastReportedLost |-> 0, lastSeen |-> m]
<1>1. /\ h \in Nat /\ m \in Nat /\ w = {0} /\ w \in Windows
      /\ h <= L /\ h + 1 + 0 <= L /\ m - h - 1 = 0
  BY FanOutBounds DEF T!setBit, Windows
<1>2. 0 \in Nat /\ 1 \in Nat /\ {} \in SUBSET Nat /\ Cardinality({}) = 0
  BY FS_EmptySet
<1> HIDE DEF h, w
<1>3. /\ ps \in States /\ ps.highContiguous = h /\ ps.window = w
      /\ ps.pendingLost = {} /\ ps.confirmedLost = 0
  BY <1>1, <1>2, ZenonT(30) DEF States
<1>4. T!NewProducer(m) = T!advanceContiguous(ps)
  BY Zenon DEF T!NewProducer, h, w
<1> HIDE DEF ps
<1>5. Marks(ps, {m}, L)
  BY <1>1, <1>2, <1>3, Zenon DEF Marks
<1>6. {m} \in SUBSET Nat
  BY <1>1, Zenon
<1> QED BY <1>3, <1>4, <1>5, <1>6, AdvanceMarks, Zenon

(* A pending sequence that arrives after all. *)
LEMMA RecoverMarks ==
    ASSUME NEW ps \in States, NEW K \in SUBSET Nat, NEW L \in Nat, Marks(ps, K, L),
           NEW m \in Nat, m <= ps.highContiguous
    PROVE  LET P == ps.pendingLost \ {m}
               new == [ps EXCEPT !.pendingLost = P, !.confirmedLost = Cardinality(P)]
           IN  new \in States /\ Marks(new, K \cup {m}, L)
<1> DEFINE h == ps.highContiguous
           P == ps.pendingLost \ {m}
           n == Cardinality(P)
           new == [ps EXCEPT !.pendingLost = P, !.confirmedLost = n]
<1>1. h \in Nat /\ P \in SUBSET Nat
  BY Zenon DEF States
<1>2. P \subseteq 1 .. h
  BY Zenon DEF Marks
<1>3. n \in Nat
  BY <1>1, <1>2, UpTo, FS_Subset, FS_CardinalityType, Zenon
<1>4. /\ new \in States /\ new.highContiguous = h /\ new.window = ps.window
      /\ new.pendingLost = P /\ new.confirmedLost = n
  <2> HIDE DEF P, n
  <2> QED BY <1>1, <1>3, ZenonT(30) DEF States
<1>5. \A x \in K \cup {m} : x > h => x - h - 1 \in ps.window
  <2>1. ~(m > h)
    BY <1>1
  <2> QED BY <2>1, Zenon DEF Marks
<1>6. \A x \in P : x \in 1 .. h /\ x \notin K \cup {m}
  BY Zenon DEF Marks
<1> HIDE DEF new
<1>7. Marks(new, K \cup {m}, L)
  BY <1>4, <1>5, <1>6, Zenon DEF Marks
<1> QED BY <1>4, <1>7, Zenon DEF new

(* A sequence inside the window. *)
LEMMA InWindowMarks ==
    ASSUME NEW ps \in States, NEW K \in SUBSET Nat, NEW L \in Nat, Marks(ps, K, L),
           NEW m \in 1 .. L, m > ps.highContiguous, T!Offset(ps, m) < W
    PROVE  LET new == [ps EXCEPT !.window = T!setBit(@, T!Offset(ps, m))]
           IN  new \in States /\ Marks(new, K \cup {m}, L)
<1> DEFINE h == ps.highContiguous
           w == ps.window \cup {m - h - 1}
           new == [ps EXCEPT !.window = w]
<1>1. h \in Nat /\ m \in Nat /\ ps.pendingLost \in SUBSET Nat /\ ps.window \in Windows
  BY DEF States
<1>2. w \in Windows
  BY <1>1, FanOutBounds DEF Windows, T!Offset
<1>3. new = [ps EXCEPT !.window = T!setBit(@, T!Offset(ps, m))]
  BY Zenon DEF T!setBit, T!Offset
<1>4. /\ new \in States /\ new.highContiguous = h /\ new.window = w
      /\ new.pendingLost = ps.pendingLost /\ new.confirmedLost = ps.confirmedLost
  <2> HIDE DEF w
  <2> QED BY <1>2, Zenon DEF States
<1>5. \A i \in w : h + 1 + i <= L
  <2>1. h + 1 + (m - h - 1) <= L
    BY <1>1
  <2> QED BY <2>1, Zenon DEF Marks
<1>6. \A x \in K \cup {m} : x > h => x - h - 1 \in w
  BY Zenon DEF Marks
<1>7. \A x \in ps.pendingLost : x \in 1 .. h /\ x \notin K \cup {m}
  <2>1. m \notin 1 .. h
    BY <1>1
  <2> QED BY <2>1, Zenon DEF Marks
<1> HIDE DEF new, w
<1>8. Marks(new, K \cup {m}, L)
  BY <1>4, <1>5, <1>6, <1>7, Zenon DEF Marks
<1> QED BY <1>3, <1>4, <1>8, Zenon

(* A slide: what it evicts is not marked, and what was marked above the new *)
(* watermark keeps its bit.                                                 *)
LEMMA SlideMarks ==
    ASSUME NEW ps \in States, NEW K \in SUBSET Nat, NEW L \in Nat, Marks(ps, K, L),
           NEW m \in 1 .. L, T!NewHigh(m) > ps.highContiguous
    PROVE  LET P == ps.pendingLost \cup T!Evicted(ps, m)
               new == [ps EXCEPT !.pendingLost = P, !.confirmedLost = Cardinality(P),
                                 !.window = T!shiftLeft(@, T!SlideDist(ps, m)),
                                 !.highContiguous = T!NewHigh(m)]
           IN  new \in States /\ Marks(new, K, L) /\ new.highContiguous = T!NewHigh(m)
<1> DEFINE h == ps.highContiguous
           w == ps.window
           n == T!NewHigh(m)
           d == T!SlideDist(ps, m)
           E == T!Evicted(ps, m)
           P == ps.pendingLost \cup E
           q == Cardinality(P)
           v == T!shiftLeft(w, d)
           new == [ps EXCEPT !.pendingLost = P, !.confirmedLost = q, !.window = v,
                             !.highContiguous = n]
<1>1. h \in Nat /\ w \in Windows /\ ps.pendingLost \in SUBSET Nat
  BY Zenon DEF States
<1>2. /\ n \in Nat /\ n > h /\ n <= L /\ d \in Nat /\ d <= n - h
      /\ d # n - h => d = W
  BY <1>1, FanOutBounds DEF T!NewHigh, T!SlideDist
<1>3. \A x \in E : x \in Nat /\ x > h /\ x <= h + d /\ x - h - 1 \notin w
  <2>1. E = {h + 1 + i : i \in {j \in 0 .. d - 1 : j \notin w}}
    BY Zenon DEF T!Evicted, T!getBit
  <2> HIDE DEF h, d, w, E
  <2>2. ASSUME NEW i \in {j \in 0 .. d - 1 : j \notin w}
        PROVE  LET x == h + 1 + i
               IN  x \in Nat /\ x > h /\ x <= h + d /\ x - h - 1 \notin w
    <3>1. i \in 0 .. d - 1 /\ i \notin w
      OBVIOUS
    <3>2. h + 1 + i \in Nat /\ h + 1 + i > h /\ h + 1 + i <= h + d /\ (h + 1 + i) - h - 1 = i
      BY <1>1, <1>2, <3>1
    <3> QED BY <3>1, <3>2, Zenon
  <2> QED BY <2>1, <2>2, Zenon
<1>4. v \in Windows /\ \A i \in Nat : i \in v <=> i + d \in w
  BY <1>1, <1>2, Shift, Zenon
<1>5. w \subseteq 0 .. W - 1 /\ v \subseteq 0 .. W - 1 /\ v \subseteq Nat
  <2>1. w \subseteq 0 .. W - 1 /\ v \subseteq 0 .. W - 1
    BY <1>1, <1>4, Zenon DEF Windows
  <2> QED BY <2>1, FanOutBounds
<1>6. /\ h <= L /\ \A i \in w : h + 1 + i <= L
      /\ \A x \in K : x > h => x - h - 1 \in w
      /\ \A x \in ps.pendingLost : x \in 1 .. h /\ x \notin K
  BY Zenon DEF Marks
<1> HIDE DEF h, w, n, d, E, v
<1>7. \A x \in P : x \in 1 .. n /\ x \notin K
  <2>1. ASSUME NEW x \in ps.pendingLost PROVE x \in 1 .. n /\ x \notin K
    BY <1>1, <1>2, <1>6
  <2>2. ASSUME NEW x \in E PROVE x \in 1 .. n /\ x \notin K
    <3>1. x \in Nat /\ x > h /\ x <= h + d /\ x - h - 1 \notin w
      BY <1>3, Zenon
    <3>2. x \notin K
      BY <1>6, <3>1, Zenon
    <3> QED BY <1>1, <1>2, <3>1, <3>2
  <2> QED BY <2>1, <2>2, Zenon
<1>8. P \in SUBSET Nat /\ q \in Nat
  <2>1. P \subseteq 1 .. n
    BY <1>7, Zenon
  <2>2. q \in Nat
    BY <1>2, <2>1, UpTo, FS_Subset, FS_CardinalityType, Zenon
  <2> QED BY <1>1, <1>3, <2>2, Zenon
<1>9. \A i \in v : n + 1 + i <= L
  <2> SUFFICES ASSUME NEW i \in v PROVE n + 1 + i <= L
    BY Zenon
  <2>1. i \in Nat /\ i + d \in w
    BY <1>4, <1>5, Zenon
  <2>2. i + d \in 0 .. W - 1 /\ h + 1 + (i + d) <= L
    BY <1>5, <1>6, <2>1, Zenon
  <2>3. d = n - h
    BY <1>1, <1>2, <2>1, <2>2, FanOutBounds
  <2> QED BY <1>1, <1>2, <2>1, <2>2, <2>3
<1>10. \A x \in K : x > n => x - n - 1 \in v
  <2> SUFFICES ASSUME NEW x \in K, x > n PROVE x - n - 1 \in v
    BY Zenon
  <2>1. x - h - 1 \in w
    BY <1>1, <1>2, <1>6
  <2>2. x - h - 1 \in 0 .. W - 1
    BY <1>5, <2>1, Zenon
  <2>3. d = n - h
    BY <1>1, <1>2, <2>2, FanOutBounds
  <2>4. x - n - 1 \in Nat /\ (x - n - 1) + d = x - h - 1
    BY <1>1, <1>2, <2>3
  <2> QED BY <1>4, <2>1, <2>4, Zenon
<1> HIDE DEF P, q
<1>11. /\ new \in States /\ new.highContiguous = n /\ new.window = v
       /\ new.pendingLost = P /\ new.confirmedLost = q
  BY <1>2, <1>4, <1>8, ZenonT(30) DEF States
<1> HIDE DEF new
<1>12. Marks(new, K, L)
  BY <1>2, <1>7, <1>9, <1>10, <1>11, Zenon DEF Marks, q
<1> QED BY <1>11, <1>12, Zenon DEF new, P, q, E, v, n, d, w

(* A sequence W or more past the watermark moves the window and is itself   *)
(* not marked.                                                              *)
LEMMA BeyondMarks ==
    ASSUME NEW ps \in States, NEW K \in SUBSET Nat, NEW L \in Nat, Marks(ps, K, L),
           NEW m \in 1 .. L, T!Offset(ps, m) >= W
    PROVE  T!slideWindow(ps, m) \in States /\ Marks(T!slideWindow(ps, m), K, L)
<1>1. CASE T!NewHigh(m) <= ps.highContiguous
  <2>1. ~(T!Offset(ps, m) < W)
    <3>1. ps.highContiguous \in Nat
      BY Zenon DEF States
    <3> QED BY <3>1, FanOutBounds DEF T!Offset
  <2>2. T!slideWindow(ps, m) = ps
    BY <1>1, <2>1, Zenon DEF T!slideWindow, T!SetIfInWindow
  <2> QED BY <2>2, Zenon
<1>2. CASE ~(T!NewHigh(m) <= ps.highContiguous)
  <2> DEFINE P == ps.pendingLost \cup T!Evicted(ps, m)
             slid == [ps EXCEPT !.pendingLost = P, !.confirmedLost = Cardinality(P),
                                !.window = T!shiftLeft(@, T!SlideDist(ps, m)),
                                !.highContiguous = T!NewHigh(m)]
  <2>1. T!NewHigh(m) > ps.highContiguous
    <3>1. ps.highContiguous \in Nat
      BY Zenon DEF States
    <3> QED BY <1>2, <3>1, FanOutBounds DEF T!NewHigh
  <2>2. slid \in States /\ Marks(slid, K, L) /\ slid.highContiguous = T!NewHigh(m)
    BY <2>1, SlideMarks, Zenon
  <2>3. T!slideWindow(ps, m) = T!advanceContiguous(T!SetIfInWindow(slid, m))
    BY <1>2, Zenon DEF T!slideWindow, T!Cardinality, Cardinality
  <2> HIDE DEF slid
  <2>4. ~(T!Offset(slid, m) < W)
    BY <2>2, FanOutBounds DEF T!Offset, T!NewHigh
  <2>5. T!SetIfInWindow(slid, m) = slid
    BY <2>4, Zenon DEF T!SetIfInWindow
  <2> QED BY <2>2, <2>3, <2>5, AdvanceMarks, Zenon
<1> QED BY <1>1, <1>2, Zenon

(* A sequence that is already marked or was passed over. *)
LEMMA DuplicateMarks ==
    ASSUME NEW ps \in States, NEW K \in SUBSET Nat, NEW L \in Nat, Marks(ps, K, L), NEW m \in Nat,
           \/ m <= ps.highContiguous /\ m \notin ps.pendingLost
           \/ m > ps.highContiguous /\ T!Offset(ps, m) \in ps.window
    PROVE  LET new == [ps EXCEPT !.duplicates = @ + 1]
           IN  new \in States /\ Marks(new, K \cup {m}, L)
<1> DEFINE h == ps.highContiguous
           d == ps.duplicates + 1
           new == [ps EXCEPT !.duplicates = d]
<1>1. h \in Nat /\ d \in Nat
  BY DEF States
<1>2. /\ new \in States /\ new.highContiguous = h /\ new.window = ps.window
      /\ new.pendingLost = ps.pendingLost /\ new.confirmedLost = ps.confirmedLost
  <2> HIDE DEF d
  <2> QED BY <1>1, Zenon DEF States
<1>3. \A x \in K \cup {m} : x > h => x - h - 1 \in ps.window
  <2>1. m > h => m - h - 1 \in ps.window
    <3>1. CASE m <= h
      BY <1>1, <3>1
    <3>2. CASE T!Offset(ps, m) \in ps.window
      BY <3>2, Zenon DEF T!Offset
    <3> QED BY <3>1, <3>2, Zenon
  <2> QED BY <2>1, Zenon DEF Marks
<1>4. \A x \in ps.pendingLost : x \in 1 .. h /\ x \notin K \cup {m}
  <2>1. m > h => m \notin 1 .. h
    BY <1>1
  <2> QED BY <2>1, Zenon DEF Marks
<1> HIDE DEF new
<1>5. Marks(new, K \cup {m}, L)
  BY <1>2, <1>3, <1>4, Zenon DEF Marks
<1> QED BY <1>2, <1>5, Zenon DEF new

(* What Record makes of the channel's state: the sequence is marked, unless *)
(* it is beyond the window.                                                 *)
LEMMA RecordMarks ==
    ASSUME NEW K \in SUBSET Nat, NEW L \in Nat, NEW m \in 1 .. L, T!Record(Channel, m),
           IF Channel \in DOMAIN producers
           THEN producers[Channel] \in States /\ Marks(producers[Channel], K, L)
           ELSE K = {}
    PROVE  /\ Channel \in DOMAIN producers' /\ producers'[Channel] \in States
           /\ Marks(producers'[Channel], IF Beyond(m) THEN K ELSE K \cup {m}, L)
<1> DEFINE old == producers[Channel]
           ps == T!Arrive(old, m)
           all == IF Beyond(m) THEN K ELSE K \cup {m}
<1>0. m \in Nat
  OBVIOUS
<1>1. ASSUME NEW new, T!Put(Channel, new)
      PROVE  Channel \in DOMAIN producers' /\ producers'[Channel] = new
  BY <1>1, Zenon DEF T!Put
<1>2. CASE T!RecordFirst(Channel, m)
  <2>1. Channel \notin DOMAIN producers /\ T!Put(Channel, T!NewProducer(m))
    BY <1>2, Zenon DEF T!RecordFirst, T!Known
  <2>2. all = {m}
    BY <2>1, Zenon DEF Beyond
  <2>3. T!NewProducer(m) \in States /\ Marks(T!NewProducer(m), all, L)
    BY <2>2, FirstMarks, Zenon
  <2> HIDE DEF all
  <2> QED BY <1>1, <2>1, <2>3, Zenon DEF all
<1>3. CASE \/ T!RecordRecovered(Channel, m) \/ T!RecordDuplicate(Channel, m)
           \/ T!RecordBeyondWindow(Channel, m) \/ T!RecordInWindow(Channel, m)
  <2>1. Channel \in DOMAIN producers
    BY <1>3, Zenon
    DEF T!RecordRecovered, T!RecordDuplicate, T!RecordBeyondWindow, T!RecordInWindow,
        T!CanRecord, T!Known
  <2>2. old \in States /\ Marks(old, K, L)
    BY <2>1, Zenon
  <2>3. /\ ps \in States /\ Marks(ps, K, L)
        /\ ps.highContiguous = old.highContiguous /\ ps.window = old.window
        /\ ps.pendingLost = old.pendingLost
    <3> HIDE DEF old
    <3> QED BY <1>0, <2>2, ArriveFields, ArriveMarks, Zenon
  <2>4. old.highContiguous \in Nat /\ T!Offset(ps, m) = T!Offset(old, m)
    BY <2>2, <2>3, Zenon DEF States, T!Offset
  <2>5. ASSUME T!Offset(old, m) < W PROVE all = K \cup {m}
    <3>1. ~(T!Offset(old, m) >= W)
      BY <2>4, <2>5, FanOutBounds DEF T!Offset
    <3> QED BY <3>1, Zenon DEF Beyond
  <2>6. m <= old.highContiguous => T!Offset(old, m) < W
    BY <2>4, FanOutBounds DEF T!Offset
  <2> HIDE DEF all
  <2>7. CASE T!RecordRecovered(Channel, m)
    <3> DEFINE P == old.pendingLost \ {m}
               new == [ps EXCEPT !.pendingLost = P, !.confirmedLost = Cardinality(P)]
    <3>1. m <= old.highContiguous /\ T!Put(Channel, new)
      BY <2>7, Zenon DEF T!RecordRecovered, T!Cardinality, Cardinality
    <3>2. new \in States /\ Marks(new, K \cup {m}, L)
      <4> HIDE DEF old, ps
      <4> QED BY <1>0, <2>3, <3>1, RecoverMarks, Zenon
    <3> HIDE DEF new, old
    <3> QED BY <1>1, <2>5, <2>6, <3>1, <3>2, Zenon DEF old, all
  <2>8. CASE T!RecordDuplicate(Channel, m)
    <3> DEFINE new == [ps EXCEPT !.duplicates = @ + 1]
    <3>1. /\ T!Put(Channel, new)
          /\ \/ m <= old.highContiguous /\ m \notin old.pendingLost
             \/ /\ m > old.highContiguous /\ T!Offset(old, m) < W
                /\ T!Offset(old, m) \in old.window
      BY <2>8, Zenon DEF T!RecordDuplicate, T!getBit
    <3>2. new \in States /\ Marks(new, K \cup {m}, L)
      <4> HIDE DEF old, ps
      <4> QED BY <1>0, <2>3, <2>4, <3>1, DuplicateMarks, Zenon
    <3> HIDE DEF new, old
    <3> QED BY <1>1, <2>5, <2>6, <3>1, <3>2, Zenon DEF old, all
  <2>9. CASE T!RecordBeyondWindow(Channel, m)
    <3>1. T!Offset(old, m) >= W /\ T!Put(Channel, T!slideWindow(ps, m))
      BY <2>9, Zenon DEF T!RecordBeyondWindow
    <3>2. T!slideWindow(ps, m) \in States /\ Marks(T!slideWindow(ps, m), K, L)
      <4> HIDE DEF old, ps
      <4> QED BY <2>3, <2>4, <3>1, BeyondMarks, Zenon
    <3>3. all = K
      BY <2>1, <3>1, Zenon DEF all, Beyond
    <3> HIDE DEF ps
    <3> QED BY <1>1, <3>1, <3>2, <3>3, Zenon DEF all
  <2>10. CASE T!RecordInWindow(Channel, m)
    <3> DEFINE mid == [ps EXCEPT !.window = T!setBit(@, T!Offset(ps, m))]
    <3>1. /\ m > old.highContiguous /\ T!Offset(old, m) < W
          /\ T!Put(Channel, T!advanceContiguous(mid))
      BY <2>10, Zenon DEF T!RecordInWindow
    <3>2. mid \in States /\ Marks(mid, K \cup {m}, L) /\ K \cup {m} \in SUBSET Nat
      <4> HIDE DEF old, ps
      <4> QED BY <1>0, <2>3, <2>4, <3>1, InWindowMarks, Zenon
    <3> HIDE DEF mid
    <3>3. /\ T!advanceContiguous(mid) \in States
          /\ Marks(T!advanceContiguous(mid), K \cup {m}, L)
      BY <3>2, AdvanceMarks, Zenon
    <3> QED BY <1>1, <2>5, <3>1, <3>3, Zenon DEF all
  <2> QED BY <1>3, <2>7, <2>8, <2>9, <2>10, Zenon DEF all
<1> QED BY <1>2, <1>3, Zenon DEF T!Record

(* The arrivals that the tracker has been told of and keeps account of. *)
Told == arrived[Durable] \ (unmarked \cup hand[Durable])

Tracked ==
    IF Channel \in DOMAIN producers
    THEN producers[Channel] \in States /\ Marks(producers[Channel], Told, trackers[Durable].lastSeq)
    ELSE Told = {}

(* Only the durable consumer of the store has deliveries in hand, one at a  *)
(* time, and only it tells the tracker.                                     *)
TrackInv ==
    /\ pattern = "events" =>
           Channel \notin DOMAIN producers /\ \A c \in Consumers : hand[c] = {}
    /\ pattern # "events" =>
           /\ \A c \in Consumers \ {Durable} : con[c] = "done" /\ hand[c] = {}
           /\ hand[Durable] \subseteq arrived[Durable] /\ \A x, y \in hand[Durable] : x = y
           /\ Tracked

LEMMA TrackInit ==
    ASSUME Init
    PROVE  TrackInv
<1>1. DOMAIN producers = {}
  BY DEF Init, T!Init
<1>2. /\ arrived[Durable] = {} /\ \A c \in Consumers : hand[c] = {}
      /\ Durable \in Consumers
  BY Zenon DEF Init, Consumers
<1>3. ASSUME pattern # "events", NEW c \in Consumers \ {Durable} PROVE con[c] = "done"
  <2>1. c \notin Started
    BY <1>3, Zenon DEF Started
  <2> QED BY <2>1, Zenon DEF Init
<1> QED BY <1>1, <1>2, <1>3, Zenon DEF TrackInv, Tracked, Told

(* The tracker and its history, in the steps that are not a consumer's. *)
LEMMA AsideTracker ==
    ASSUME BrokerTake \/ Aside
    PROVE  \/ UNCHANGED <<producers, unmarked>>
           \/ producers' = [p \in {} |-> p] /\ unmarked' = arrived[Durable]
           \/ /\ unmarked' = unmarked
              /\ producers' = [p \in DOMAIN producers |->
                     [producers[p] EXCEPT !.lastReportedLost = producers[p].confirmedLost]]
<1>1. CASE BrokerTake \/ TransfersLost \/ Producer \/ StopRun \/ UNCHANGED vars
  BY <1>1, Zenon
  DEF BrokerTake, TransfersLost, Producer, ProducerReturns, Send, SendReturns, SendFails,
      ProducerUnchanged, StopRun, vars, countVars, trackerVars
<1>2. CASE WarmupStart \/ CancelProducers \/ ConsumersStopped
  BY <1>2, Zenon DEF WarmupStart, CancelProducers, ConsumersStopped, countVars, trackerVars
<1>3. CASE ResetAfterWarmup
  BY <1>3, Zenon DEF ResetAfterWarmup, T!Reset, countVars, trackerVars
<1>4. CASE captureWorkerSnapshots
  BY <1>4, Zenon DEF captureWorkerSnapshots, T!DetectGaps, T!Known
<1> QED BY <1>1, <1>2, <1>3, <1>4, Zenon DEF Aside, Engine

LEMMA AsideTrack ==
    ASSUME TypeInv, TrackInv, BrokerTake \/ Aside
    PROVE  TrackInv'
<1>1. UNCHANGED <<pattern, con, hand, arrived, trackers>>
  <2>1. UNCHANGED <<config, consumerVars>>
    BY TakesOne, AsideUnchanged, Zenon
  <2> QED BY <2>1, Zenon DEF config, consumerVars
<1>2. CASE UNCHANGED <<producers, unmarked>>
  BY <1>1, <1>2, Zenon DEF TrackInv, Tracked, Told
<1>3. CASE producers' = [p \in {} |-> p] /\ unmarked' = arrived[Durable]
  <2>1. DOMAIN producers' = {}
    BY <1>3, Zenon
  <2>2. Told' = {}
    BY <1>1, <1>3, Zenon DEF Told
  <2> QED BY <1>1, <2>1, <2>2, Zenon DEF TrackInv, Tracked
<1>4. CASE /\ unmarked' = unmarked
           /\ producers' = [p \in DOMAIN producers |->
                  [producers[p] EXCEPT !.lastReportedLost = producers[p].confirmedLost]]
  <2>1. DOMAIN producers' = DOMAIN producers /\ Told' = Told
    BY <1>1, <1>4, Zenon DEF Told
  <2>2. ASSUME pattern # "events", Channel \in DOMAIN producers PROVE Tracked'
    <3> DEFINE old == producers[Channel]
               new == [old EXCEPT !.lastReportedLost = old.confirmedLost]
    <3>1. old \in States /\ Marks(old, Told, trackers[Durable].lastSeq)
      BY <2>2, Zenon DEF TrackInv, Tracked
    <3>2. producers'[Channel] = new
      BY <1>4, <2>2, Zenon
    <3> HIDE DEF old
    <3>3. /\ new \in States /\ new.highContiguous = old.highContiguous /\ new.window = old.window
          /\ new.pendingLost = old.pendingLost /\ new.confirmedLost = old.confirmedLost
      BY <3>1, ZenonT(30) DEF States
    <3> HIDE DEF new
    <3>4. Marks(new, Told, trackers[Durable].lastSeq)
      BY <3>1, <3>3, Zenon DEF Marks
    <3> QED BY <1>1, <2>1, <2>2, <3>2, <3>3, <3>4, Zenon DEF Tracked
  <2>3. ASSUME pattern # "events", Channel \notin DOMAIN producers PROVE Tracked'
    BY <2>1, <2>3, Zenon DEF TrackInv, Tracked
  <2> QED BY <1>1, <2>1, <2>2, <2>3, Zenon DEF TrackInv
<1> QED BY <1>2, <1>3, <1>4, AsideTracker, Zenon

(* The highest sequence of a consumer does not fall. *)
LEMMA HighestGrows ==
    ASSUME TypeInv, CountInv, TypeInv', CountInv', NEW c \in Consumers,
           arrived[c] \subseteq arrived'[c]
    PROVE  /\ trackers[c].lastSeq \in Nat /\ trackers'[c].lastSeq \in Nat
           /\ trackers[c].lastSeq <= trackers'[c].lastSeq
<1> DEFINE a == trackers[c].lastSeq
           b == trackers'[c].lastSeq
<1>1. a \in Nat /\ b \in Nat
  BY Zenon DEF TypeInv, SubTrackers
<1>2. (a # 0 => a \in arrived[c]) /\ arrived'[c] \subseteq 1 .. b
  BY Zenon DEF CountInv, Counts
<1>3. a # 0 => a \in 1 .. b
  BY <1>2, Zenon
<1> HIDE DEF a, b
<1>4. a <= b
  BY <1>1, <1>3
<1> QED BY <1>1, <1>4, Zenon DEF a, b

(* A step that tells the tracker nothing. *)
LEMMA TrackedFewer ==
    ASSUME TypeInv, CountInv, TypeInv', CountInv', Tracked, producers' = producers,
           Told' \subseteq Told, arrived[Durable] \subseteq arrived'[Durable]
    PROVE  Tracked'
<1>1. Durable \in Consumers
  BY Zenon DEF Consumers
<1>2. /\ trackers[Durable].lastSeq \in Nat /\ trackers'[Durable].lastSeq \in Nat
      /\ trackers[Durable].lastSeq <= trackers'[Durable].lastSeq
  BY <1>1, HighestGrows, Zenon
<1>3. CASE Channel \in DOMAIN producers
  <2>1. producers[Channel] \in States /\ Marks(producers[Channel], Told, trackers[Durable].lastSeq)
    BY <1>3, Zenon DEF Tracked
  <2>2. Marks(producers[Channel], Told', trackers'[Durable].lastSeq)
    BY <1>2, <2>1, MarksFewer, Zenon
  <2> QED BY <1>3, <2>1, <2>2, Zenon DEF Tracked
<1>4. CASE Channel \notin DOMAIN producers
  BY <1>4, Zenon DEF Tracked
<1> QED BY <1>3, <1>4, Zenon

LEMMA ReceiveTrack ==
    ASSUME TypeInv, CountInv, TypeInv', CountInv', TrackInv, pattern # "events",
           NEW c \in Consumers, Receive(c)
    PROVE  /\ c = Durable /\ Tracked'
           /\ hand'[c] \subseteq arrived'[c] /\ \A x, y \in hand'[c] : x = y
<1> DEFINE h == Head(buffer[c])
<1>1. /\ con[c] = "receive" /\ hand[c] = {} /\ hand'[c] = {h}
      /\ arrived'[c] = arrived[c] \cup {h} /\ UNCHANGED <<producers, unmarked>>
  BY Zenon DEF TypeInv, Receive, trackerVars
<1>2. c = Durable
  BY <1>1, Zenon DEF TrackInv
<1> HIDE DEF h
<1>3. Told' \subseteq Told
  BY <1>1, <1>2, Zenon DEF Told
<1>4. Tracked'
  BY <1>1, <1>2, <1>3, TrackedFewer, Zenon DEF TrackInv
<1> QED BY <1>1, <1>2, <1>4, Zenon

LEMMA TrackedTrack ==
    ASSUME TypeInv, CountInv, TrackInv, NEW c \in Consumers, recordTracked(c)
    PROVE  pattern # "events" /\ c = Durable /\ hand'[c] = {} /\ Tracked'
<1>1. PICK m \in hand[c] :
          T!Record(Channel, m) /\ unmarked' = unmarked \cup (IF Beyond(m) THEN {m} ELSE {})
  BY Zenon DEF recordTracked
<1>2. pattern # "events" /\ c = Durable
  BY <1>1, Zenon DEF TrackInv
<1>3. hand'[c] = {} /\ UNCHANGED <<trackers, arrived>>
  BY Zenon DEF TypeInv, recordTracked
<1> DEFINE L == trackers[Durable].lastSeq
           K == Told
<1>4. L \in Nat /\ arrived[Durable] \subseteq 1 .. L /\ arrived[Durable] \subseteq Nat
  BY <1>2, Zenon DEF TypeInv, SubTrackers, CountInv, Counts
<1>5. /\ m \in 1 .. L /\ \A x \in hand[Durable] : x = m
      /\ K \in SUBSET Nat
  BY <1>1, <1>2, <1>4, Zenon DEF TrackInv, Told
<1>6. IF Channel \in DOMAIN producers
      THEN producers[Channel] \in States /\ Marks(producers[Channel], K, L)
      ELSE K = {}
  BY <1>2, Zenon DEF TrackInv, Tracked
<1> DEFINE all == IF Beyond(m) THEN K ELSE K \cup {m}
<1>7. Told' \in SUBSET all
  <2>1. ASSUME NEW x \in Told' PROVE x \in all
    <3>1. x \in arrived[Durable] /\ x \notin unmarked'
      BY <1>3, <2>1, Zenon DEF Told
    <3>2. x # m => x \in K
      BY <1>1, <1>5, <3>1, Zenon DEF Told
    <3>3. x = m => ~Beyond(m)
      BY <1>1, <3>1, Zenon
    <3> QED BY <3>2, <3>3, Zenon
  <2> QED BY <2>1, Zenon
<1> HIDE DEF K, L
<1>8. /\ Channel \in DOMAIN producers' /\ producers'[Channel] \in States
      /\ Marks(producers'[Channel], all, L)
  BY <1>1, <1>4, <1>5, <1>6, RecordMarks, Zenon
<1> HIDE DEF all
<1>9. Marks(producers'[Channel], Told', L)
  <2>1. L <= L
    BY <1>4
  <2> QED BY <1>4, <1>7, <1>8, <2>1, MarksFewer, Zenon
<1>10. trackers'[Durable].lastSeq = L
  BY <1>3, Zenon DEF L
<1> QED BY <1>2, <1>3, <1>8, <1>9, <1>10, Zenon DEF Tracked

LEMMA OfConsumerTrack ==
    ASSUME TypeInv, CountInv, TypeInv', CountInv', TrackInv, NEW c \in Consumers, OfConsumer(c)
    PROVE  TrackInv'
<1>0. pattern' = pattern /\ Durable \in Consumers
  BY OfConsumerUnchanged, Zenon DEF config, Consumers
<1>1. \A d \in Consumers :
          d # c => con'[d] = con[d] /\ hand'[d] = hand[d] /\ arrived'[d] = arrived[d]
  BY Others, Zenon
<1>2. CASE Deliver(c) \/ NoCredit(c) \/ DisconnectConsumer(c) \/ Connect(c) \/ ReceiveFails(c)
  <2>1. UNCHANGED <<hand, trackers, arrived, producers, unmarked>>
    BY <1>2, Zenon
    DEF Deliver, NoCredit, DisconnectConsumer, BrokerUnchanged, Connect, ReceiveFails, countVars,
        trackerVars
  <2>2. con[c] = "done" => con'[c] = "done"
    <3>1. CASE Deliver(c) \/ NoCredit(c) \/ DisconnectConsumer(c)
      BY <3>1, Zenon DEF Deliver, NoCredit, DisconnectConsumer, BrokerUnchanged
    <3>2. CASE Connect(c) \/ ReceiveFails(c)
      BY <3>2, Zenon DEF Connect, ReceiveFails
    <3> QED BY <1>2, <3>1, <3>2, Zenon
  <2>3. ASSUME pattern # "events" PROVE Tracked'
    BY <2>1, <2>3, Zenon DEF TrackInv, Tracked, Told
  <2> QED BY <1>0, <1>1, <2>1, <2>2, <2>3, Zenon DEF TrackInv
<1>3. CASE Receive(c)
  <2>1. CASE pattern = "events"
    <3>1. UNCHANGED <<hand, producers>>
      BY <1>3, <2>1, Zenon DEF Receive, trackerVars
    <3> QED BY <1>0, <2>1, <3>1, Zenon DEF TrackInv
  <2>2. CASE pattern # "events"
    <3>1. /\ c = Durable /\ hand'[c] \subseteq arrived'[c] /\ \A x, y \in hand'[c] : x = y
          /\ Tracked'
      BY <1>3, <2>2, ReceiveTrack, Zenon
    <3> QED BY <1>0, <1>1, <2>2, <3>1, Zenon DEF TrackInv
  <2> QED BY <2>1, <2>2, Zenon
<1>4. CASE recordTracked(c)
  <2>1. pattern # "events" /\ c = Durable /\ hand'[c] = {} /\ Tracked'
    BY <1>4, TrackedTrack, Zenon
  <2> QED BY <1>0, <1>1, <2>1, Zenon DEF TrackInv
<1> QED BY <1>2, <1>3, <1>4, Zenon DEF OfConsumer, Consumer

LEMMA TrackStep ==
    ASSUME TypeInv, CountInv, TypeInv', CountInv', TrackInv, [Next]_vars
    PROVE  TrackInv'
BY Steps, AsideTrack, OfConsumerTrack, Zenon

LEMMA TrackedLoss ==
    ASSUME TypeInv, CountInv, TrackInv, MissingIsExact
    PROVE  SnapshotLoss
<1> DEFINE ps == producers[Channel]
           L == trackers[Durable].lastSeq
<1>1. ExtraLost = Max({Cardinality(Gap(c)) : c \in Started})
  <2>1. Started \subseteq Consumers
    BY Zenon DEF Started, Consumers
  <2>2. {missing(trackers[c]) : c \in Started} = {Cardinality(Gap(c)) : c \in Started}
    BY <2>1, Zenon DEF MissingIsExact
  <2> QED BY <2>2, Zenon DEF ExtraLost
<1>2. CASE Channel \notin DOMAIN producers
  <2>1. Pending = {} /\ Cardinality(Pending) = 0
    BY <1>2, FS_EmptySet, Zenon DEF Pending
  <2>2. Lost = ExtraLost + 0
    BY <1>2, Zenon DEF Lost
  <2> QED BY <1>1, <2>1, <2>2, Zenon DEF SnapshotLoss
<1>3. CASE Channel \in DOMAIN producers
  <2>1. /\ ps \in States /\ Marks(ps, Told, L) /\ Durable \in Consumers
    BY <1>3, Zenon DEF TrackInv, Tracked, Consumers
  <2>2. Pending = ps.pendingLost /\ Lost = ExtraLost + ps.confirmedLost
    BY <1>3, Zenon DEF Pending, Lost
  <2>3. Lost = Max({Cardinality(Gap(c)) : c \in Started}) + Cardinality(Pending)
    BY <1>1, <2>1, <2>2, Zenon DEF Marks
  <2>4. ASSUME NEW m \in Pending
        PROVE  m \in Gap(Durable) \cup unmarked \cup hand[Durable]
    <3>1. ps.highContiguous \in Nat /\ L \in Nat
      BY <2>1, Zenon DEF States, TypeInv, SubTrackers
    <3>2. m \in 1 .. ps.highContiguous /\ m \notin Told /\ ps.highContiguous <= L
      BY <2>1, <2>2, Zenon DEF Marks
    <3>3. m \in 1 .. L
      BY <3>1, <3>2
    <3> QED BY <3>2, <3>3, Zenon DEF Gap, Told
  <2> QED BY <2>3, <2>4, Zenon DEF SnapshotLoss
<1> QED BY <1>2, <1>3, Zenon

-----------------------------------------------------------------------------

FanOutInv == TypeInv /\ LogInv /\ LinkInv /\ CountInv /\ EventsInv /\ StoreInv /\ TrackInv

(* The inductive invariant, for every number of subscribers and messages,  *)
(* every window and every schedule of failures: record has counted what    *)
(* arrived, and what a subscription may still deliver is new or remembered *)
(* by the subTracker (drainSub, drainDurable, record), and the tracker has *)
(* marked what it was told within its window (recordTracked).              *)
THEOREM Invariance == Spec => []FanOutInv
<1>1. Init => FanOutInv
  BY TypeInit, LogInit, LinkInit, CountInit, EventsInit, StoreInit, TrackInit, Zenon DEF FanOutInv
<1>2. FanOutInv /\ [Next]_vars => FanOutInv'
  <2> SUFFICES ASSUME FanOutInv, [Next]_vars PROVE FanOutInv'
    BY Zenon
  <2> USE DEF FanOutInv
  <2>1. TypeInv' /\ LogInv'
    BY TypeStep, LogStep, Zenon
  <2>2. LinkInv' /\ EventsInv' /\ StoreInv'
    BY <2>1, LinkStep, EventsStep, StoreStep, Zenon
  <2>3. CountInv'
    BY CountStep, EventsNew, StoreNew, Zenon
  <2>4. TrackInv'
    BY <2>1, <2>3, TrackStep, Zenon
  <2> QED BY <2>1, <2>2, <2>3, <2>4, Zenon
<1> QED BY <1>1, <1>2, PTL DEF Spec

(* missing reports the number of sequences that a consumer was not given,  *)
(* although record forgets what left its window: through reconnections,    *)
(* redelivery after a resume, late transfers and the warmup.               *)
THEOREM MissingCountsTheGap == Spec => []MissingIsExact
<1>1. FanOutInv => MissingIsExact
  BY MissingGap, Zenon DEF FanOutInv
<1> QED BY <1>1, Invariance, PTL

(* A sequence that the subscription went past and the consumer was not     *)
(* given passed it by, or is prefetched: the worker itself drops none      *)
(* (subscribeLoop, consumeLoop and their drains).                          *)
THEOREM WorkerLosesNone == Spec => []LossIsExplained
<1>1. FanOutInv => LossIsExplained
  BY Zenon DEF FanOutInv, LinkInv, Linked, LossIsExplained, Gap, Offered
<1> QED BY <1>1, Invariance, PTL

(* The loss in a snapshot is the worst gap and, for the store, what the    *)
(* tracker took for lost; of what arrived, the tracker takes for lost only *)
(* what it was told before its reset or beyond its window, and what it has *)
(* yet to be told (captureWorkerSnapshots, ExtraLost, recordTracked).      *)
THEOREM SnapshotCountsTheLoss == Spec => []SnapshotLoss
<1>1. FanOutInv => SnapshotLoss
  BY MissingGap, TrackedLoss, Zenon DEF FanOutInv
<1> QED BY <1>1, Invariance, PTL
=============================================================================
