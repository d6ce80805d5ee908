---------------------------- MODULE QueueExamples ----------------------------
(***************************************************************************)
(* The queue programs of examples/go/queues, started again and again: each *)
(* run sends its messages, receives until it has seen every body, makes    *)
(* sure that the queue is empty, and says so; any error ends it.           *)
(*   basic      - basic-send-receive: unsettled sends, every receive       *)
(*                accepted                                                 *)
(*   settlement - settlement-modes: pre-settled sends first, then          *)
(*                unsettled ones                                           *)
(*   ack        - ack-release-redelivery: one message is released and      *)
(*                comes again, one is rejected, one accepted               *)
(* A message is told by the run that sent it and its body.  The queue is   *)
(* the broker's, and survives the program.                                 *)
(***************************************************************************)
EXTENDS Integers, Sequences, FiniteSets

CONSTANTS
    Total,       \* messages of basic, and of each sender of settlement
    MaxRuns      \* bound: times the program is started
ASSUME ExampleBounds == Total \in Nat \ {0} /\ MaxRuns \in Nat

VARIABLES
    program,     \* which program it is
    run,         \* how many times it was started
    pc,          \* where it stands
    next,        \* index of the message to send
    queue,       \* the broker's messages, with their delivery-count
    seen,        \* bodies the run has done with
    released,    \* releasedOnce
    got,         \* history: messages the run has received
    fault        \* history: what went wrong in the run, if anything

progVars == <<pc, next, seen, released>>
vars == <<program, run, progVars, queue, got, fault>>

Up(kind, n) == [i \in 1 .. n |-> <<kind, i>>]

ToSend ==
    CASE program = "basic"      -> Up("msg", Total)
      [] program = "settlement" -> Up("presettled", Total) \o Up("unsettled", Total)
      [] program = "ack"        -> <<<<"release-me", 1>>, <<"reject-me", 1>>, <<"accept-me", 1>>>>

Bodies == {ToSend[i] : i \in DOMAIN ToSend}

(* Fault: one channel for all runs. *)
SharedChannel(r) == 0

(* ack takes a channel of its own in every run. *)
Channel(r) == IF program = "ack" THEN r ELSE 0

Waiting == {m \in queue : Channel(m.run) = Channel(run)}

Running == pc \in {"sending", "receiving", "checking"}

(* log.Fatal; why is "none" when the program found fault, not the world. *)
Fatal(why) ==
    /\ pc' = "failed"
    /\ fault' = IF fault = "none" THEN why ELSE fault
    /\ UNCHANGED <<program, run, next, seen, released, got>>

Start ==
    /\ ~Running /\ run < MaxRuns
    /\ run' = run + 1
    /\ pc' = "sending" /\ next' = 1 /\ seen' = {} /\ released' = FALSE
    /\ got' = {} /\ fault' = "none"
    /\ UNCHANGED <<program, queue>>

(* The broker is away, a call fails, or the program is stopped. *)
Crash ==
    /\ Running
    /\ Fatal("crash")
    /\ UNCHANGED queue

-----------------------------------------------------------------------------
(* Sending. *)

Message == [run |-> run, body |-> ToSend[next], count |-> 0]

Sent ==
    /\ IF next = Len(ToSend) THEN pc' = "receiving" ELSE UNCHANGED pc
    /\ next' = next + 1
    /\ UNCHANGED <<program, run, seen, released, got>>

(* Send returns when the broker has accepted the message, or, pre-settled,  *)
(* when the frame is written.                                               *)
Send ==
    /\ pc = "sending"
    /\ queue' = queue \cup {Message}
    /\ Sent /\ UNCHANGED fault

(* A pre-settled message is lost on its way, and nobody is told. *)
LosePresettled ==
    /\ pc = "sending" /\ ToSend[next][1] = "presettled"
    /\ Sent /\ fault' = "lost"
    /\ UNCHANGED queue

(* The acceptance is lost: the program ends, the message is stored. *)
SendFails ==
    /\ pc = "sending" /\ ToSend[next][1] # "presettled"
    /\ queue' = queue \cup {Message}
    /\ Fatal("crash")

-----------------------------------------------------------------------------
(* Receiving: whichever message the broker hands out. *)

Handled(m, bodies) ==
    /\ seen' = bodies
    /\ got' = got \cup {<<m.run, m.body>>}
    /\ pc' = IF bodies = Bodies THEN "checking" ELSE pc
    /\ UNCHANGED <<program, run, next, fault>>

(* Accepted or rejected: the broker drops it. *)
Settle(m) ==
    /\ m.body[1] # "release-me"
    /\ queue' = queue \ {m}
    /\ Handled(m, seen \cup {m.body}) /\ UNCHANGED released

(* First sight of release-me: back into the queue, to come again. *)
Release(m) ==
    /\ m.body[1] = "release-me" /\ ~released
    /\ queue' = (queue \ {m}) \cup {[m EXCEPT !.count = @ + 1]}
    /\ released' = TRUE
    /\ Handled(m, seen)

(* The copy that comes must be one that was delivered before. *)
AcceptReleased(m) ==
    /\ m.body[1] = "release-me" /\ released
    /\ \/ m.count >= 1 /\ queue' = queue \ {m} /\ Handled(m, seen \cup {m.body})
          /\ UNCHANGED released
       \/ m.count < 1 /\ Fatal("none") /\ UNCHANGED queue

Receive ==
    /\ pc = "receiving"
    /\ \E m \in Waiting : Settle(m) \/ Release(m) \/ AcceptReleased(m)

(* Nothing comes for 30 seconds. *)
ReceiveTimesOut ==
    /\ pc = "receiving" /\ Waiting = {}
    /\ Fatal("none") /\ UNCHANGED queue

(* The disposition does not reach the broker, and the link is lost: the     *)
(* message is there again, delivered once more.                             *)
SettleFails ==
    /\ pc = "receiving"
    /\ \E m \in Waiting : queue' = (queue \ {m}) \cup {[m EXCEPT !.count = @ + 1]}
    /\ Fatal("crash")

-----------------------------------------------------------------------------
(* The last Receive, which must time out. *)

Done ==
    /\ pc' = "done"
    /\ UNCHANGED <<program, run, next, seen, released, queue, got>>

(* Fault: the queue is not looked at once more. *)
DoneUnchecked == pc = "checking" /\ Done /\ UNCHANGED fault

QueueIsEmpty == pc = "checking" /\ Waiting = {} /\ Done /\ UNCHANGED fault

(* A message is there; it goes back when the program ends. *)
NotEmpty ==
    /\ pc = "checking"
    /\ \E m \in Waiting : queue' = (queue \ {m}) \cup {[m EXCEPT !.count = @ + 1]}
    /\ Fatal("none")

(* It is not handed out within two seconds, or the call fails: any error    *)
(* is taken for an empty queue.                                             *)
CheckFails ==
    /\ pc = "checking" /\ Waiting # {}
    /\ Done /\ fault' = "slow"

-----------------------------------------------------------------------------

Init ==
    /\ program \in {"basic", "settlement", "ack"}
    /\ run = 0 /\ pc = "off" /\ next = 1
    /\ queue = {} /\ seen = {} /\ released = FALSE
    /\ got = {} /\ fault = "none"

Next ==
    \/ Start \/ Crash
    \/ Send \/ LosePresettled \/ SendFails
    \/ Receive \/ ReceiveTimesOut \/ SettleFails
    \/ QueueIsEmpty \/ NotEmpty \/ CheckFails

Spec == Init /\ [][Next]_vars

-----------------------------------------------------------------------------

(* A run that says "Done." has received each message that it sent unsettled *)
(* (basic main.go:113 "no loss"), not just one of the same body that an     *)
(* earlier run has left in the queue: the last look at the queue tells them *)
(* apart, if the broker answers it in time.                                 *)
DoneMeansArrived ==
    pc = "done" /\ fault # "slow" =>
        \A b \in Bodies : b[1] # "presettled" => <<run, b>> \in got

(* ack-release-redelivery main.go:35: with a channel of its own a run that  *)
(* meets no fault succeeds, whatever earlier runs have left behind.         *)
OwnChannelNoFalseAlarm ==
    program = "ack" /\ pc = "failed" => fault # "none"
=============================================================================
