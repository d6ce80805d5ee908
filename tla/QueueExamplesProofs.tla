------------------------- MODULE QueueExamplesProofs -------------------------
(***************************************************************************)
(* Both properties of QueueExamples, for any number of messages and of     *)
(* runs.                                                                   *)
(***************************************************************************)
EXTENDS QueueExamples, SequenceTheorems, TLAPS

Kinds == {"msg", "presettled", "unsettled", "release-me", "reject-me", "accept-me"}
Body == Kinds \X Nat
Own == {m \in queue : m.run = run}

-----------------------------------------------------------------------------
(* A run that is done has received what it sent.                           *)

TypeInv ==
    /\ program \in {"basic", "settlement", "ack"}
    /\ run \in Nat /\ next \in Nat \ {0}
    /\ pc \in {"off", "sending", "receiving", "checking", "done", "failed"}
    /\ queue \subseteq [run : Nat, body : Body, count : Nat]
    /\ pc = "sending" => next <= Len(ToSend)
    /\ pc \in {"receiving", "checking"} => next = Len(ToSend) + 1

(* What the run has sent unsettled and not received is in the queue. *)
Kept ==
    Running =>
        \A i \in 1 .. next - 1 :
            \/ ToSend[i][1] = "presettled"
            \/ <<run, ToSend[i]>> \in got
            \/ \E m \in queue : m.run = run /\ m.body = ToSend[i]

ArrivedInv == TypeInv /\ Kept /\ DoneMeansArrived

(* The bodies of a program are a sequence of at least one. *)
LEMMA ToSendType ==
    ASSUME program \in {"basic", "settlement", "ack"}
    PROVE  ToSend \in Seq(Body) /\ Len(ToSend) >= 1
<1>1. \A k \in Kinds : Up(k, Total) \in Seq(Body) /\ Len(Up(k, Total)) = Total
  <2> TAKE k \in Kinds
  <2>1. \A i \in 1 .. Total : <<k, i>> \in Body
    BY ExampleBounds DEF Body
  <2> QED BY <2>1, ExampleBounds, IsASeq DEF Up
<1>2. CASE program = "basic"
  <2>1. ToSend = Up("msg", Total)
    BY <1>2 DEF ToSend
  <2>2. Up("msg", Total) \in Seq(Body) /\ Len(Up("msg", Total)) = Total
    BY <1>1 DEF Kinds
  <2> QED BY <2>1, <2>2, ExampleBounds
<1>3. CASE program = "settlement"
  <2>1. ToSend = Up("presettled", Total) \o Up("unsettled", Total)
    BY <1>3 DEF ToSend
  <2>2. \A s, t \in Seq(Body) : s \o t \in Seq(Body) /\ Len(s \o t) = Len(s) + Len(t)
    OBVIOUS
  <2>3. Up("presettled", Total) \in Seq(Body) /\ Len(Up("presettled", Total)) = Total
    BY <1>1 DEF Kinds
  <2>4. Up("unsettled", Total) \in Seq(Body) /\ Len(Up("unsettled", Total)) = Total
    BY <1>1 DEF Kinds
  <2> QED BY <2>1, <2>2, <2>3, <2>4, ExampleBounds
<1>4. CASE program = "ack"
  <2>1. ToSend = <<<<"release-me", 1>>, <<"reject-me", 1>>, <<"accept-me", 1>>>>
    BY <1>4 DEF ToSend
  <2>2. <<"release-me", 1>> \in Body /\ <<"reject-me", 1>> \in Body
          /\ <<"accept-me", 1>> \in Body
    BY DEF Body, Kinds
  <2>3. \A a, b, c \in Body : <<a, b, c>> \in Seq(Body) /\ Len(<<a, b, c>>) = 3
    OBVIOUS
  <2> QED BY <2>1, <2>2, <2>3
<1> QED BY <1>2, <1>3, <1>4

(* A message delivered once more is the same message. *)
LEMMA Redelivered ==
    ASSUME NEW m \in [run : Nat, body : Body, count : Nat]
    PROVE  LET c == [m EXCEPT !.count = @ + 1] IN
           /\ c \in [run : Nat, body : Body, count : Nat]
           /\ c.run = m.run /\ c.body = m.body /\ c.count = m.count + 1
OBVIOUS

(* The program is chosen once, and with it what it sends. *)
LEMMA SameProgram ==
    ASSUME program' = program
    PROVE  ToSend' = ToSend /\ Bodies' = Bodies
BY DEF ToSend, Bodies, Up

LEMMA TypeStep ==
    ASSUME TypeInv, [Next]_vars
    PROVE  TypeInv'
<1>0. program' = program
  BY DEF Next, vars, Start, Crash, Send, LosePresettled, SendFails, Receive, ReceiveTimesOut,
     SettleFails, QueueIsEmpty, NotEmpty, CheckFails, Fatal, Sent, Settle, Release,
     AcceptReleased, Handled, Done
<1>1. ToSend' = ToSend /\ Bodies' = Bodies /\ ToSend \in Seq(Body) /\ Len(ToSend) >= 1
  BY <1>0, SameProgram, ToSendType DEF TypeInv
<1>2. pc = "sending" => Message \in [run : Nat, body : Body, count : Nat]
  <2>1. pc = "sending" => next \in 1 .. Len(ToSend)
    BY <1>1 DEF TypeInv
  <2>2. pc = "sending" => ToSend[next] \in Body
    BY <1>1, <2>1
  <2> QED BY <2>2 DEF Message, TypeInv
<1>3. Len(ToSend) \in Nat
  BY <1>1
<1>4. CASE Start
  BY <1>0, <1>1, <1>3, <1>4 DEF Start, TypeInv
<1>5. CASE Crash \/ ReceiveTimesOut
  BY <1>0, <1>1, <1>3, <1>5 DEF Crash, ReceiveTimesOut, Fatal, TypeInv
<1>6. CASE SendFails
  BY <1>0, <1>1, <1>2, <1>3, <1>6 DEF SendFails, Fatal, TypeInv
<1>7. CASE Send \/ LosePresettled
  <2>1. queue' \subseteq [run : Nat, body : Body, count : Nat]
    BY <1>2, <1>7 DEF Send, LosePresettled, TypeInv
  <2> QED BY <2>1, <1>0, <1>1, <1>3, <1>7 DEF Send, LosePresettled, Sent, TypeInv
<1>8. CASE SettleFails \/ NotEmpty
  <2>1. PICK m \in queue : queue' = (queue \ {m}) \cup {[m EXCEPT !.count = @ + 1]}
    BY <1>8 DEF SettleFails, NotEmpty, Waiting
  <2>2. queue' \subseteq [run : Nat, body : Body, count : Nat]
    BY <2>1, Redelivered DEF TypeInv
  <2> QED BY <2>2, <1>0, <1>1, <1>3, <1>8 DEF SettleFails, NotEmpty, Fatal, TypeInv
<1>9. CASE Receive
  <2>1. PICK m \in queue : Settle(m) \/ Release(m) \/ AcceptReleased(m)
    BY <1>9 DEF Receive, Waiting
  <2>2. queue' \subseteq [run : Nat, body : Body, count : Nat]
    BY <2>1, Redelivered DEF TypeInv, Settle, Release, AcceptReleased
  <2> QED BY <2>1, <2>2, <1>0, <1>1, <1>3, <1>9
       DEF Receive, Settle, Release, AcceptReleased, Handled, Fatal, TypeInv
<1>10. CASE QueueIsEmpty \/ CheckFails
  BY <1>0, <1>1, <1>3, <1>10 DEF QueueIsEmpty, CheckFails, Done, TypeInv
<1>11. CASE UNCHANGED vars
  BY <1>1, <1>11 DEF vars, progVars, TypeInv
<1> QED BY <1>4, <1>5, <1>6, <1>7, <1>8, <1>9, <1>10, <1>11 DEF Next

LEMMA KeptStep ==
    ASSUME ArrivedInv, [Next]_vars
    PROVE  Kept' /\ DoneMeansArrived'
<1>0. TypeInv /\ TypeInv'
  BY TypeStep DEF ArrivedInv
<1>1. program' = program
  BY DEF Next, vars, Start, Crash, Send, LosePresettled, SendFails, Receive, ReceiveTimesOut,
     SettleFails, QueueIsEmpty, NotEmpty, CheckFails, Fatal, Sent, Settle, Release,
     AcceptReleased, Handled, Done
<1>2. ToSend' = ToSend /\ Bodies' = Bodies /\ ToSend \in Seq(Body)
  BY <1>0, <1>1, SameProgram, ToSendType DEF TypeInv
<1>3. CASE Start
  <2>1. pc' = "sending" /\ next' = 1
    BY <1>3 DEF Start
  <2> QED BY <2>1 DEF Kept, DoneMeansArrived
<1>4. CASE Crash \/ SendFails \/ ReceiveTimesOut \/ SettleFails \/ NotEmpty
  <2>1. pc' = "failed"
    BY <1>4 DEF Crash, SendFails, ReceiveTimesOut, SettleFails, NotEmpty, Fatal
  <2> QED BY <2>1 DEF Kept, Running, DoneMeansArrived
<1>5. CASE Send \/ LosePresettled
  <2>1. /\ pc' \in {"sending", "receiving"} /\ pc = "sending"
        /\ next' = next + 1 /\ run' = run /\ got' = got /\ queue \subseteq queue'
    BY <1>5 DEF Send, LosePresettled, Sent
  <2>2. ToSend[next][1] = "presettled"
          \/ \E m \in queue' : m.run = run' /\ m.body = ToSend[next]
    <3>1. CASE LosePresettled
      BY <3>1 DEF LosePresettled
    <3>2. CASE Send
      <4>1. Message \in queue' /\ Message.run = run /\ Message.body = ToSend[next]
        BY <3>2 DEF Send, Message
      <4> QED BY <2>1, <4>1
    <3> QED BY <1>5, <3>1, <3>2
  <2>3. \A i \in 1 .. next' - 1 : i \in 1 .. next - 1 \/ i = next
    BY <1>0, <2>1 DEF TypeInv
  <2>4. ASSUME NEW i \in 1 .. next - 1
        PROVE  \/ ToSend[i][1] = "presettled"
               \/ <<run', ToSend[i]>> \in got'
               \/ \E m \in queue' : m.run = run' /\ m.body = ToSend[i]
    BY <2>1 DEF Kept, Running, ArrivedInv
  <2>5. Kept'
    BY <1>2, <2>2, <2>3, <2>4 DEF Kept
  <2> QED BY <2>1, <2>5 DEF DoneMeansArrived
<1>6. CASE Receive
  <2>1. PICK m \in queue : Settle(m) \/ Release(m) \/ AcceptReleased(m)
    BY <1>6 DEF Receive, Waiting
  <2>2. CASE pc' = "failed"
    BY <2>2 DEF Kept, Running, DoneMeansArrived
  <2>3. CASE pc' # "failed"
    <3>1. /\ pc = "receiving" /\ pc' \in {"receiving", "checking"}
          /\ next' = next /\ run' = run /\ got' = got \cup {<<m.run, m.body>>}
      BY <1>6, <2>1, <2>3 DEF Receive, Settle, Release, AcceptReleased, Handled, Fatal
    <3>2. queue \ {m} \subseteq queue'
      BY <2>1, <2>3 DEF Settle, Release, AcceptReleased, Fatal
    <3>3. Kept'
      BY <1>2, <3>1, <3>2 DEF Kept, Running, ArrivedInv
    <3> QED BY <3>1, <3>3 DEF DoneMeansArrived
  <2> QED BY <2>2, <2>3
<1>7. CASE QueueIsEmpty
  <2>1. /\ pc = "checking" /\ Waiting = {} /\ pc' = "done"
        /\ run' = run /\ got' = got
    BY <1>7 DEF QueueIsEmpty, Done
  <2>2. \A m \in queue : m.run # run
    BY <2>1 DEF Waiting
  <2>3. \A i \in DOMAIN ToSend : i \in 1 .. next - 1
    BY <1>0, <1>2, <2>1 DEF TypeInv
  <2>4. \A i \in DOMAIN ToSend : ToSend[i][1] = "presettled" \/ <<run, ToSend[i]>> \in got
    BY <2>1, <2>2, <2>3 DEF Kept, Running, ArrivedInv
  <2>5. \A b \in Bodies' : b[1] # "presettled" => <<run', b>> \in got'
    BY <1>2, <2>1, <2>4 DEF Bodies
  <2> QED BY <2>1, <2>5 DEF Kept, Running, DoneMeansArrived
<1>8. CASE CheckFails
  <2>1. pc' = "done" /\ fault' = "slow"
    BY <1>8 DEF CheckFails, Done
  <2> QED BY <2>1 DEF Kept, Running, DoneMeansArrived
<1>9. CASE UNCHANGED vars
  BY <1>2, <1>9 DEF vars, progVars, Kept, Running, DoneMeansArrived, ArrivedInv
<1> QED BY <1>3, <1>4, <1>5, <1>6, <1>7, <1>8, <1>9 DEF Next

(* A run that says it is done, having found the queue empty, has received    *)
(* each message it sent unsettled, whatever earlier runs left in the queue.  *)
THEOREM Arrived == Spec => []DoneMeansArrived
<1>1. Init => ArrivedInv
  <2> SUFFICES ASSUME Init PROVE ArrivedInv
    OBVIOUS
  <2>1. TypeInv
    BY DEF Init, TypeInv
  <2> QED BY <2>1 DEF Init, ArrivedInv, Kept, Running, DoneMeansArrived
<1>2. ArrivedInv /\ [Next]_vars => ArrivedInv'
  BY TypeStep, KeptStep DEF ArrivedInv
<1>3. ArrivedInv => DoneMeansArrived
  BY DEF ArrivedInv
<1> QED BY <1>1, <1>2, <1>3, PTL DEF Spec

-----------------------------------------------------------------------------
(* A run of ack that meets no fault does not fail.                         *)

(* Of the run's own messages there is one for each body still to be seen,  *)
(* and no other; the released one carries the mark of its first delivery.  *)
OneEach ==
    /\ \A m \in Own : m.body \in Bodies \ seen
    /\ \A m, n \in Own : m.body = n.body => m = n
    /\ \A m \in Own : m.body[1] = "release-me" /\ released => m.count >= 1

AckInv ==
    program = "ack" =>
        /\ \A m \in queue : m.run <= run
        /\ Running => fault = "none" /\ OneEach /\ seen \subseteq Bodies
        /\ pc = "sending" =>
             /\ seen = {} /\ ~released
             /\ \A m \in Own : \E i \in 1 .. next - 1 : m.body = ToSend[i]
             /\ \A i \in 1 .. next - 1 : \E m \in Own : m.body = ToSend[i]
        /\ pc = "receiving" =>
             /\ seen # Bodies
             /\ \A b \in Bodies \ seen : \E m \in Own : m.body = b
        /\ pc = "checking" => seen = Bodies
        /\ pc = "failed" => fault # "none"

FaultInv == TypeInv /\ AckInv

(* The three bodies of ack are different, and none is pre-settled. *)
LEMMA AckBodies ==
    ASSUME program = "ack"
    PROVE  /\ Len(ToSend) = 3 /\ DOMAIN ToSend = 1 .. 3
           /\ \A i, j \in 1 .. 3 : ToSend[i] = ToSend[j] => i = j
           /\ \A i \in 1 .. 3 : ToSend[i] \in Bodies /\ ToSend[i][1] # "presettled"
           /\ \A b \in Bodies : \E i \in 1 .. 3 : b = ToSend[i]
           /\ \A a, b \in Bodies : a[1] = "release-me" /\ b[1] = "release-me" => a = b
           /\ Waiting = Own
<1>1. ToSend = <<<<"release-me", 1>>, <<"reject-me", 1>>, <<"accept-me", 1>>>>
  BY DEF ToSend
<1>2. /\ Len(ToSend) = 3 /\ DOMAIN ToSend = 1 .. 3
      /\ ToSend[1] = <<"release-me", 1>> /\ ToSend[2] = <<"reject-me", 1>>
      /\ ToSend[3] = <<"accept-me", 1>>
  BY <1>1
<1>3. \A i \in 1 .. 3 : i = 1 \/ i = 2 \/ i = 3
  OBVIOUS
<1>4. /\ ToSend[1][1] = "release-me" /\ ToSend[2][1] = "reject-me"
      /\ ToSend[3][1] = "accept-me"
  BY <1>2
<1>5. \A i, j \in 1 .. 3 : ToSend[i] = ToSend[j] => i = j
  BY <1>3, <1>4
<1>6. \A i \in 1 .. 3 : ToSend[i] \in Bodies /\ ToSend[i][1] # "presettled"
  BY <1>2, <1>3, <1>4 DEF Bodies
<1>7. \A b \in Bodies : \E i \in 1 .. 3 : b = ToSend[i]
  BY <1>2 DEF Bodies
<1>8. \A a, b \in Bodies : a[1] = "release-me" /\ b[1] = "release-me" => a = b
  BY <1>3, <1>4, <1>7
<1>9. Waiting = Own
  BY DEF Waiting, Own, Channel
<1> QED BY <1>2, <1>5, <1>6, <1>7, <1>8, <1>9

LEMMA AckStep ==
    ASSUME FaultInv, [Next]_vars
    PROVE  AckInv'
<1>0. TypeInv /\ TypeInv' /\ AckInv
  BY TypeStep DEF FaultInv
<1>1. program' = program
  BY DEF Next, vars, Start, Crash, Send, LosePresettled, SendFails, Receive, ReceiveTimesOut,
     SettleFails, QueueIsEmpty, NotEmpty, CheckFails, Fatal, Sent, Settle, Release,
     AcceptReleased, Handled, Done
<1> SUFFICES ASSUME program = "ack" PROVE AckInv'
  BY <1>1 DEF AckInv
<1>2. ToSend' = ToSend /\ Bodies' = Bodies
  BY <1>1, SameProgram
<1>2a. pc = "sending" => next \in 1 .. 3
  <2>1. Len(ToSend) = 3
    BY AckBodies
  <2> QED BY <1>0, <2>1 DEF TypeInv
<1>3. CASE Start
  <2>1. /\ pc' = "sending" /\ next' = 1 /\ seen' = {} /\ ~released'
        /\ fault' = "none" /\ run' = run + 1 /\ queue' = queue
    BY <1>3 DEF Start
  <2>2. \A m \in queue : m.run \in Nat /\ m.run <= run
    BY <1>0 DEF TypeInv, AckInv
  <2>3. Own' = {} /\ \A m \in queue' : m.run <= run'
    BY <1>0, <2>1, <2>2 DEF Own, TypeInv
  <2> QED BY <2>1, <2>3 DEF AckInv, OneEach
<1>4. CASE Crash \/ SendFails \/ SettleFails
  <2>1. pc' = "failed" /\ fault' # "none" /\ run' = run
    BY <1>4 DEF Crash, SendFails, SettleFails, Fatal
  <2>2. \A m \in queue' : m.run <= run'
    <3>1. CASE Crash
      BY <1>0, <2>1, <3>1 DEF Crash, AckInv
    <3>2. CASE SendFails
      <4>1. queue' = queue \cup {Message} /\ Message.run = run
        BY <3>2 DEF SendFails, Message
      <4> QED BY <1>0, <2>1, <4>1 DEF AckInv, TypeInv
    <3>3. CASE SettleFails
      <4>1. PICK m \in queue : queue' = (queue \ {m}) \cup {[m EXCEPT !.count = @ + 1]}
        BY <3>3 DEF SettleFails, Waiting
      <4> QED BY <1>0, <2>1, <4>1, Redelivered DEF AckInv, TypeInv
    <3> QED BY <1>4, <3>1, <3>2, <3>3
  <2> QED BY <2>1, <2>2 DEF AckInv, Running
<1>5. ~LosePresettled
  BY <1>2a, AckBodies DEF LosePresettled
<1>6. CASE Send
  <2>1. /\ pc = "sending" /\ next' = next + 1 /\ run' = run /\ fault' = fault
        /\ seen' = seen /\ released' = released /\ seen = {} /\ ~released
        /\ pc' = IF next = 3 THEN "receiving" ELSE "sending"
    BY <1>0, <1>6, AckBodies DEF Send, Sent, AckInv
  <2>2. next \in 1 .. 3
    BY <1>2a, <2>1
  <2>3. queue' = queue \cup {Message} /\ Message.run = run /\ Message.body = ToSend[next]
    BY <1>6 DEF Send, Message
  <2>4. Own' = Own \cup {Message}
    BY <2>1, <2>3 DEF Own
  <2>5. \A m \in Own : \E i \in 1 .. next - 1 : m.body = ToSend[i]
    BY <1>0, <2>1 DEF AckInv
  <2>6. \A m \in Own : m.body # Message.body
    <3> TAKE m \in Own
    <3>1. PICK i \in 1 .. next - 1 : m.body = ToSend[i]
      BY <2>5
    <3>2. i \in 1 .. 3 /\ i # next
      BY <2>2, <3>1
    <3> QED BY <2>2, <2>3, <3>1, <3>2, AckBodies
  <2>7. OneEach'
    <3>1. OneEach
      BY <1>0, <2>1 DEF AckInv, Running
    <3>2. Message.body \in Bodies
      BY <2>2, <2>3, AckBodies
    <3>3. \A m \in Own' : m.body \in Bodies' \ seen'
      BY <1>2, <2>1, <2>4, <3>1, <3>2 DEF OneEach
    <3>4. \A m, n \in Own' : m.body = n.body => m = n
      BY <2>4, <2>6, <3>1 DEF OneEach
    <3> QED BY <2>1, <3>3, <3>4 DEF OneEach
  <2>8. \A i \in 1 .. next' - 1 : i \in 1 .. next - 1 \/ i = next
    BY <2>1, <2>2
  <2>9. \A i \in 1 .. next' - 1 : \E m \in Own' : m.body = ToSend[i]
    <3>1. \A i \in 1 .. next - 1 : \E m \in Own : m.body = ToSend[i]
      BY <1>0, <2>1 DEF AckInv
    <3> QED BY <2>3, <2>4, <2>8, <3>1
  <2>10. \A m \in Own' : \E i \in 1 .. next' - 1 : m.body = ToSend[i]
    <3>1. next \in 1 .. next' - 1 /\ \A i \in 1 .. next - 1 : i \in 1 .. next' - 1
      BY <2>1, <2>2
    <3> QED BY <2>3, <2>4, <2>5, <3>1
  <2>11. pc' = "receiving" => \A b \in Bodies : \E m \in Own' : m.body = b
    <3>1. pc' = "receiving" => \A i \in 1 .. 3 : i \in 1 .. next' - 1
      BY <2>1, <2>2
    <3> QED BY <2>9, <3>1, AckBodies
  <2>12. Bodies # {}
    BY AckBodies, <2>2
  <2>13. \A m \in queue' : m.run <= run'
    BY <1>0, <2>1, <2>3 DEF AckInv, TypeInv
  <2> QED BY <1>0, <1>2, <2>1, <2>7, <2>9, <2>10, <2>11, <2>12, <2>13 DEF AckInv, Running
<1>7. CASE Receive
  <2>1. PICK m \in Own : Settle(m) \/ Release(m) \/ AcceptReleased(m)
    BY <1>7, AckBodies DEF Receive
  <2>2. /\ pc = "receiving" /\ fault = "none" /\ OneEach /\ seen \subseteq Bodies
        /\ \A b \in Bodies \ seen : \E n \in Own : n.body = b
    BY <1>0, <1>7 DEF Receive, AckInv, Running
  <2>3. m \in queue /\ m.run = run /\ m.body \in Bodies \ seen
    BY <2>2 DEF Own, OneEach
  <2>4. \A n \in queue : n.run <= run
    BY <1>0 DEF AckInv
  <2>5. CASE Settle(m) \/ (AcceptReleased(m) /\ m.count >= 1)
    <3>1. /\ queue' = queue \ {m} /\ seen' = seen \cup {m.body} /\ run' = run
          /\ released' = released /\ fault' = "none"
          /\ pc' = IF seen' = Bodies THEN "checking" ELSE "receiving"
      <4>1. m.count \in Nat
        BY <1>0, <2>3 DEF TypeInv
      <4>2. queue' = queue \ {m} /\ Handled(m, seen \cup {m.body}) /\ released' = released
        BY <2>5, <4>1 DEF Settle, AcceptReleased
      <4> QED BY <2>2, <4>2 DEF Handled
    <3>2. Own' = Own \ {m}
      BY <3>1 DEF Own
    <3>3. \A n \in Own' : n.body # m.body
      BY <2>2, <3>2 DEF OneEach
    <3>4. OneEach'
      BY <1>2, <2>2, <3>1, <3>2, <3>3 DEF OneEach
    <3>5. \A b \in Bodies \ seen' : \E n \in Own' : n.body = b
      BY <2>2, <3>1, <3>2
    <3>6. \A n \in queue' : n.run <= run'
      BY <2>4, <3>1
    <3>7. seen' \subseteq Bodies
      BY <2>2, <2>3, <3>1
    <3> QED BY <1>2, <3>1, <3>4, <3>5, <3>6, <3>7 DEF AckInv, Running
  <2>6. CASE Release(m)
    <3> DEFINE c == [m EXCEPT !.count = @ + 1]
    <3>1. /\ queue' = (queue \ {m}) \cup {c} /\ seen' = seen /\ run' = run
          /\ released' = TRUE /\ fault' = "none" /\ m.body[1] = "release-me"
          /\ pc' = "receiving"
      BY <1>0, <2>2, <2>3, <2>6 DEF Release, Handled, AckInv
    <3>2. c.run = run /\ c.body = m.body /\ c.count >= 1
      BY <1>0, <2>3, Redelivered DEF TypeInv
    <3> HIDE DEF c
    <3>3. Own' = (Own \ {m}) \cup {c}
      BY <3>1, <3>2 DEF Own
    <3>4. \A n \in Own \ {m} : n.body # m.body /\ n.body \in Bodies \ seen
      BY <2>2 DEF OneEach
    <3>5. \A n \in Own \ {m} : n.body[1] # "release-me"
      BY <2>3, <3>1, <3>4, AckBodies
    <3>6. \A n \in Own' : n.body \in Bodies' \ seen'
      BY <1>2, <2>3, <3>1, <3>2, <3>3, <3>4
    <3>7. \A n, p \in Own' : n.body = p.body => n = p
      BY <2>2, <3>2, <3>3, <3>4 DEF OneEach
    <3>8. \A n \in Own' : n.body[1] = "release-me" => n.count >= 1
      BY <3>2, <3>3, <3>5
    <3>9. OneEach'
      BY <3>6, <3>7, <3>8 DEF OneEach
    <3>10. \A b \in Bodies \ seen' : \E n \in Own' : n.body = b
      BY <2>2, <3>1, <3>2, <3>3
    <3>11. \A n \in queue' : n.run <= run'
      BY <1>0, <2>4, <3>1, <3>2 DEF TypeInv
    <3>12. seen' # Bodies /\ seen' \subseteq Bodies
      BY <1>0, <2>2, <3>1 DEF AckInv
    <3> QED BY <1>2, <3>1, <3>9, <3>10, <3>11, <3>12 DEF AckInv, Running
  <2>7. CASE AcceptReleased(m) /\ ~(m.count >= 1)
    BY <2>1, <2>2, <2>7 DEF AcceptReleased, OneEach
  <2> QED BY <2>1, <2>5, <2>6, <2>7
<1>8. ~ReceiveTimesOut
  <2>1. SUFFICES ASSUME ReceiveTimesOut PROVE FALSE
    OBVIOUS
  <2>2. /\ Own = {} /\ seen \subseteq Bodies /\ seen # Bodies
        /\ \A b \in Bodies \ seen : \E m \in Own : m.body = b
    BY <1>0, <2>1, AckBodies DEF ReceiveTimesOut, AckInv, Running
  <2> QED BY <2>2
<1>9. ~NotEmpty
  <2>1. SUFFICES ASSUME NotEmpty PROVE FALSE
    OBVIOUS
  <2>2. seen = Bodies /\ \A m \in Own : m.body \in Bodies \ seen
    BY <1>0, <2>1 DEF NotEmpty, AckInv, Running, OneEach
  <2>3. \E m \in Own : TRUE
    BY <2>1, AckBodies DEF NotEmpty
  <2> QED BY <2>2, <2>3
<1>10. CASE QueueIsEmpty \/ CheckFails
  <2>1. pc' = "done" /\ run' = run /\ queue' = queue
    BY <1>10 DEF QueueIsEmpty, CheckFails, Done
  <2> QED BY <1>0, <2>1 DEF AckInv, Running
<1>11. CASE UNCHANGED vars
  <2>1. Own' = Own /\ (OneEach <=> OneEach')
    BY <1>2, <1>11 DEF vars, progVars, Own, OneEach
  <2> QED BY <1>0, <1>2, <1>11, <2>1 DEF vars, progVars, AckInv, Running
<1> QED BY <1>3, <1>4, <1>5, <1>6, <1>7, <1>8, <1>9, <1>10, <1>11 DEF Next

(* With a channel of its own a run of ack fails only if the world made it    *)
(* fail: what the runs before it left behind is not met again.               *)
THEOREM NoFalseAlarm == Spec => []OwnChannelNoFalseAlarm
<1>1. Init => FaultInv
  <2> SUFFICES ASSUME Init PROVE FaultInv
    OBVIOUS
  <2>1. TypeInv
    BY DEF Init, TypeInv
  <2> QED BY <2>1 DEF Init, FaultInv, AckInv, Running
<1>2. FaultInv /\ [Next]_vars => FaultInv'
  BY TypeStep, AckStep DEF FaultInv
<1>3. FaultInv => OwnChannelNoFalseAlarm
  BY DEF FaultInv, AckInv, OwnChannelNoFalseAlarm
<1> QED BY <1>1, <1>2, <1>3, PTL DEF Spec
=============================================================================
