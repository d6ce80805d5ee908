------------------------------ MODULE RpcProofs ------------------------------
(***************************************************************************)
(* The safety of the request/reply worker, for any number of requesters,   *)
(* responders, requests and failures.  The count of outcomes is a sum over *)
(* the requesters, so the first part is about SumFunction.                 *)
(***************************************************************************)
EXTENDS Rpc, FiniteSetTheorems, WellFoundedInduction, TLAPS

-----------------------------------------------------------------------------
(* Induction over a finite set, and what the fold behind SumFunction gives. *)

LEMMA LeastNat ==
    ASSUME NEW S \in SUBSET Nat, S # {}
    PROVE  \E n \in S : \A m \in S : n <= m
<1> DEFINE R == OpToRel(<, Nat)
<1>1. IsWellFoundedOn(R, Nat)
  BY NatLessThanWellFounded, Zenon
<1>2. \A a, b \in Nat : a < b => <<a, b>> \in R
  BY Zenon DEF OpToRel
<1> HIDE DEF R
<1>3. PICK n \in S : \A m \in S : ~(<<m, n>> \in R)
  BY <1>1, WFMin, Zenon
<1>4. ASSUME NEW m \in S PROVE n <= m
  <2>1. ~(m < n)
    BY <1>2, <1>3, Zenon
  <2> QED BY <2>1
<1> QED BY <1>4, Zenon

(* Induction, for a property that is given as the set of its members. *)
LEMMA SetInduction ==
    ASSUME NEW S, 0 \in S, \A n \in Nat : n \in S => n + 1 \in S
    PROVE  Nat \subseteq S
<1> SUFFICES ASSUME Nat \ S # {} PROVE FALSE
  BY Zenon
<1>1. PICK n \in Nat \ S : \A m \in Nat \ S : n <= m
  BY LeastNat, Zenon
<1>2. n # 0 /\ n - 1 \in Nat
  BY <1>1
<1>3. n - 1 \in S
  BY <1>1, <1>2
<1>4. (n - 1) + 1 = n
  BY <1>1
<1> QED BY <1>1, <1>2, <1>3, <1>4, Zenon

Picked(s) == CHOOSE x \in s : TRUE

(* The sums of f over the sets in D, from those over smaller ones, g. *)
SumStep(f, D, g) == [s \in D |-> IF s = {} THEN 0 ELSE f[Picked(s)] + g[s \ {Picked(s)}]]

UpTo(S, n) == {s \in SUBSET S : Cardinality(s) <= n}

LEMMA SmallerSet ==
    ASSUME NEW S, IsFiniteSet(S), NEW s \in SUBSET S, s # {}
    PROVE  /\ Picked(s) \in s /\ s \ {Picked(s)} \in SUBSET S
           /\ IsFiniteSet(s) /\ Cardinality(s) \in Nat
           /\ Cardinality(s \ {Picked(s)}) = Cardinality(s) - 1
           /\ Cardinality(s) - 1 \in Nat
<1>1. Picked(s) \in s
  BY Zenon DEF Picked
<1>2. IsFiniteSet(s)
  BY FS_Subset, Zenon
<1>3. /\ IsFiniteSet(s \ {Picked(s)})
      /\ Cardinality(s \ {Picked(s)}) = Cardinality(s) - 1
  BY <1>1, <1>2, FS_RemoveElement, Zenon
<1>4. Cardinality(s) \in Nat /\ Cardinality(s \ {Picked(s)}) \in Nat
  BY <1>2, <1>3, FS_CardinalityType, Zenon
<1> QED BY <1>1, <1>2, <1>3, <1>4, Zenon

(* Induction over the subsets of a finite set. *)
LEMMA SubsetInduction ==
    ASSUME NEW S, IsFiniteSet(S), NEW P, {} \in P,
           \A s \in SUBSET S : s # {} /\ s \ {Picked(s)} \in P => s \in P
    PROVE  SUBSET S \subseteq P
<1> DEFINE N == {n \in Nat : UpTo(S, n) \subseteq P}
<1>1. 0 \in N
  <2>1. ASSUME NEW s \in UpTo(S, 0) PROVE s = {}
    <3>1. s \in SUBSET S /\ Cardinality(s) <= 0
      BY Zenon DEF UpTo
    <3>2. s # {} => Cardinality(s) \in Nat /\ Cardinality(s) - 1 \in Nat
      BY <3>1, SmallerSet, Zenon
    <3> QED BY <3>1, <3>2
  <2> QED BY <2>1, Zenon
<1>2. ASSUME NEW n \in Nat, n \in N
      PROVE  n + 1 \in N
  <2>1. ASSUME NEW s \in UpTo(S, n + 1), s # {}
        PROVE  s \in P
    <3>1. s \in SUBSET S /\ Cardinality(s) <= n + 1
      BY Zenon DEF UpTo
    <3>2. s \ {Picked(s)} \in SUBSET S /\ Cardinality(s \ {Picked(s)}) <= n
      BY <2>1, <3>1, SmallerSet
    <3>3. s \ {Picked(s)} \in P
      BY <1>2, <3>2, Zenon DEF UpTo
    <3> QED BY <2>1, <3>1, <3>3, Zenon
  <2>2. UpTo(S, n + 1) \subseteq P
    BY <2>1, Zenon
  <2> QED BY <2>2
<1>3. Nat \subseteq N
  <2> HIDE DEF N
  <2> QED BY <1>1, <1>2, SetInduction, Zenon
<1>4. Cardinality(S) \in Nat
  BY FS_CardinalityType, Zenon
<1>5. UpTo(S, Cardinality(S)) = SUBSET S
  BY FS_Subset, Zenon DEF UpTo
<1> QED BY <1>3, <1>4, <1>5

LEMMA SumExists ==
    ASSUME NEW S, IsFiniteSet(S), NEW f \in [S -> Int]
    PROVE  \E g \in [SUBSET S -> Int] : g = SumStep(f, SUBSET S, g)
<1> DEFINE N == {n \in Nat : \E g \in [UpTo(S, n) -> Int] : g = SumStep(f, UpTo(S, n), g)}
<1>1. 0 \in N
  <2>1. ASSUME NEW s \in UpTo(S, 0) PROVE s = {}
    <3>1. s \in SUBSET S /\ Cardinality(s) <= 0
      BY Zenon DEF UpTo
    <3>2. s # {} => Cardinality(s) \in Nat /\ Cardinality(s) - 1 \in Nat
      BY <3>1, SmallerSet, Zenon
    <3> QED BY <3>1, <3>2
  <2> DEFINE g == [s \in UpTo(S, 0) |-> 0]
  <2>2. g = SumStep(f, UpTo(S, 0), g)
    BY <2>1, Zenon DEF SumStep
  <2> QED BY <2>2
<1>2. ASSUME NEW n \in Nat, n \in N
      PROVE  n + 1 \in N
  <2>1. PICK g \in [UpTo(S, n) -> Int] : g = SumStep(f, UpTo(S, n), g)
    BY <1>2, Zenon
  <2> DEFINE h == SumStep(f, UpTo(S, n + 1), g)
  <2>2. ASSUME NEW s \in UpTo(S, n + 1), s # {}
        PROVE  Picked(s) \in S /\ s \ {Picked(s)} \in UpTo(S, n)
    <3>1. s \in SUBSET S /\ Cardinality(s) <= n + 1
      BY Zenon DEF UpTo
    <3>2. /\ Picked(s) \in S /\ s \ {Picked(s)} \in SUBSET S
          /\ Cardinality(s \ {Picked(s)}) <= n
      BY <2>2, <3>1, SmallerSet
    <3> QED BY <3>2, Zenon DEF UpTo
  <2>3. h \in [UpTo(S, n + 1) -> Int]
    <3>1. ASSUME NEW s \in UpTo(S, n + 1)
          PROVE  (IF s = {} THEN 0 ELSE f[Picked(s)] + g[s \ {Picked(s)}]) \in Int
      <4>1. CASE s = {}
        BY <4>1
      <4>2. CASE s # {}
        <5>1. f[Picked(s)] \in Int /\ g[s \ {Picked(s)}] \in Int
          BY <2>2, <4>2, Zenon
        <5> QED BY <4>2, <5>1
      <4> QED BY <4>1, <4>2, Zenon
    <3> QED BY <3>1, Zenon DEF SumStep
  <2>4. ASSUME NEW s \in UpTo(S, n)
        PROVE  s \in UpTo(S, n + 1) /\ h[s] = g[s]
    <3>1. s \in UpTo(S, n + 1)
      <4>1. s \in SUBSET S /\ IsFiniteSet(s) /\ Cardinality(s) <= n
        BY FS_Subset, Zenon DEF UpTo
      <4>2. Cardinality(s) \in Nat
        BY <4>1, FS_CardinalityType, Zenon
      <4> QED BY <4>1, <4>2 DEF UpTo
    <3>2. g[s] = IF s = {} THEN 0 ELSE f[Picked(s)] + g[s \ {Picked(s)}]
      BY <2>1, Zenon DEF SumStep
    <3>3. h[s] = IF s = {} THEN 0 ELSE f[Picked(s)] + g[s \ {Picked(s)}]
      BY <3>1, Zenon DEF SumStep
    <3> QED BY <3>1, <3>2, <3>3
  <2>5. ASSUME NEW s \in UpTo(S, n + 1)
        PROVE  h[s] = IF s = {} THEN 0 ELSE f[Picked(s)] + h[s \ {Picked(s)}]
    <3>1. h[s] = IF s = {} THEN 0 ELSE f[Picked(s)] + g[s \ {Picked(s)}]
      BY Zenon DEF SumStep
    <3> HIDE DEF h
    <3> QED BY <3>1, <2>2, <2>4, Zenon
  <2>6. h = SumStep(f, UpTo(S, n + 1), h)
    <3> HIDE DEF h
    <3> QED BY <2>3, <2>5, Zenon DEF SumStep
  <2> HIDE DEF h
  <2> QED BY <2>3, <2>6
<1>3. Nat \subseteq N
  <2> HIDE DEF N
  <2> QED BY <1>1, <1>2, SetInduction, Zenon
<1>4. Cardinality(S) \in Nat
  BY FS_CardinalityType, Zenon
<1>5. UpTo(S, Cardinality(S)) = SUBSET S
  BY FS_Subset, Zenon DEF UpTo
<1> QED BY <1>3, <1>4, <1>5, Zenon

(* What the fold behind SumFunction computes. *)
LEMMA SumUnfolds ==
    ASSUME NEW S, IsFiniteSet(S), NEW f \in [S -> Int]
    PROVE  \E g \in [SUBSET S -> Int] :
               g = SumStep(f, SUBSET S, g) /\ SumFunction(f) = g[S]
<1> DEFINE g == CHOOSE h : h = SumStep(f, SUBSET S, h)
<1>1. \E h : h = SumStep(f, SUBSET S, h)
  BY SumExists, Zenon
<1>2. g = SumStep(f, SUBSET S, g)
  BY <1>1, Zenon
<1>3. SumFunction(f) = g[S]
  BY Zenon DEF SumFunction, SumFunctionOnSet, FoldFunctionOnSet, MapThenFoldSet, SumStep, Picked
<1> HIDE DEF g
<1>4. \A s \in SUBSET S : g[s] = IF s = {} THEN 0 ELSE f[Picked(s)] + g[s \ {Picked(s)}]
  BY <1>2, Zenon DEF SumStep
<1> DEFINE P == {s \in SUBSET S : g[s] \in Int}
<1>5. {} \in P
  <2>1. {} \in SUBSET S
    BY Zenon
  <2>2. g[{}] = 0
    BY <1>4, <2>1, Zenon
  <2> QED BY <2>1, <2>2
<1>6. ASSUME NEW s \in SUBSET S, s # {}, s \ {Picked(s)} \in P
      PROVE  s \in P
  <2>1. f[Picked(s)] \in Int /\ g[s \ {Picked(s)}] \in Int
    BY <1>6, SmallerSet, Zenon
  <2>2. g[s] = f[Picked(s)] + g[s \ {Picked(s)}]
    BY <1>4, <1>6, Zenon
  <2> QED BY <2>1, <2>2
<1>7. SUBSET S \subseteq P
  <2> HIDE DEF P
  <2> QED BY <1>5, <1>6, SubsetInduction, Zenon
<1>8. g \in [SUBSET S -> Int]
  BY <1>2, <1>7, Zenon DEF SumStep
<1> QED BY <1>2, <1>3, <1>8

LEMMA SumOfZeros ==
    ASSUME NEW S, IsFiniteSet(S)
    PROVE  SumFunction([x \in S |-> 0]) = 0
<1> DEFINE f == [x \in S |-> 0]
<1>0. f \in [S -> Int]
  OBVIOUS
<1>1. PICK g \in [SUBSET S -> Int] : g = SumStep(f, SUBSET S, g) /\ SumFunction(f) = g[S]
  <2> HIDE DEF f
  <2> QED BY <1>0, SumUnfolds, Zenon
<1>2. \A s \in SUBSET S : g[s] = IF s = {} THEN 0 ELSE f[Picked(s)] + g[s \ {Picked(s)}]
  BY <1>1, Zenon DEF SumStep
<1> DEFINE P == {s \in SUBSET S : g[s] = 0}
<1>3. {} \in P
  BY <1>2, Zenon
<1>4. ASSUME NEW s \in SUBSET S, s # {}, s \ {Picked(s)} \in P
      PROVE  s \in P
  <2>1. f[Picked(s)] = 0 /\ g[s \ {Picked(s)}] = 0
    BY <1>4, SmallerSet, Zenon
  <2>2. g[s] = f[Picked(s)] + g[s \ {Picked(s)}]
    BY <1>2, <1>4, Zenon
  <2> HIDE DEF f
  <2> QED BY <2>1, <2>2
<1>5. SUBSET S \subseteq P
  <2> HIDE DEF P
  <2> QED BY <1>3, <1>4, SubsetInduction, Zenon
<1> QED BY <1>1, <1>5, Zenon

(* One more at one place is one more in the sum. *)
LEMMA SumOfIncrement ==
    ASSUME NEW S, IsFiniteSet(S), NEW f \in [S -> Int], NEW q \in S
    PROVE  /\ SumFunction(f) \in Int
           /\ SumFunction([f EXCEPT ![q] = @ + 1]) = SumFunction(f) + 1
<1> DEFINE f2 == [f EXCEPT ![q] = @ + 1]
<1>1. PICK g \in [SUBSET S -> Int] : g = SumStep(f, SUBSET S, g) /\ SumFunction(f) = g[S]
  BY SumUnfolds, Zenon
<1>2. \A s \in SUBSET S : g[s] = IF s = {} THEN 0 ELSE f[Picked(s)] + g[s \ {Picked(s)}]
  BY <1>1, Zenon DEF SumStep
<1>3. f2 \in [S -> Int] /\ \A x \in S : f2[x] = IF x = q THEN f[x] + 1 ELSE f[x]
  OBVIOUS
<1> HIDE DEF f2
<1>4. PICK h \in [SUBSET S -> Int] : h = SumStep(f2, SUBSET S, h) /\ SumFunction(f2) = h[S]
  BY <1>3, SumUnfolds, Zenon
<1>5. \A s \in SUBSET S : h[s] = IF s = {} THEN 0 ELSE f2[Picked(s)] + h[s \ {Picked(s)}]
  BY <1>4, Zenon DEF SumStep
<1> DEFINE P == {s \in SUBSET S : h[s] = IF q \in s THEN g[s] + 1 ELSE g[s]}
<1>6. {} \in P
  BY <1>2, <1>5, Zenon
<1>7. ASSUME NEW s \in SUBSET S, s # {}, s \ {Picked(s)} \in P
      PROVE  s \in P
  <2>1. Picked(s) \in s /\ Picked(s) \in S
    BY <1>7, SmallerSet, Zenon
  <2>2. g[s] = f[Picked(s)] + g[s \ {Picked(s)}] /\ h[s] = f2[Picked(s)] + h[s \ {Picked(s)}]
    BY <1>2, <1>5, <1>7, Zenon
  <2>3. CASE Picked(s) = q
    <3>1. h[s \ {Picked(s)}] = g[s \ {Picked(s)}] /\ f2[Picked(s)] = f[Picked(s)] + 1
      BY <1>3, <1>7, <2>1, <2>3, Zenon
    <3> QED BY <2>1, <2>2, <2>3, <3>1
  <2>4. CASE Picked(s) # q
    <3>1. /\ h[s \ {Picked(s)}] = IF q \in s THEN g[s \ {Picked(s)}] + 1 ELSE g[s \ {Picked(s)}]
          /\ f2[Picked(s)] = f[Picked(s)]
      BY <1>3, <1>7, <2>1, <2>4, Zenon
    <3>2. h[s] = IF q \in s THEN g[s] + 1 ELSE g[s]
      BY <2>1, <2>2, <3>1
    <3> QED BY <3>2, Zenon
  <2> QED BY <2>3, <2>4, Zenon
<1>8. SUBSET S \subseteq P
  <2> HIDE DEF P
  <2> QED BY <1>6, <1>7, SubsetInduction, Zenon
<1>9. SumFunction(f2) = SumFunction(f) + 1
  BY <1>1, <1>4, <1>8, Zenon
<1> QED BY <1>1, <1>9 DEF f2

-----------------------------------------------------------------------------
(* The inductive invariants. *)

Waiting == {"sending", "await"}

TypeInv ==
    /\ num \in [Requesters -> Nat]
    /\ req \in [Requesters -> {"off", "connect", "ready"} \cup Waiting]
    /\ DOMAIN mine = Requesters /\ DOMAIN inbox = Requesters
    /\ sent \in Nat /\ success \in Nat /\ timeout \in Nat /\ error \in Nat /\ cancelled \in Nat

(* A reply node is alone in naming its requester; of the requests that name *)
(* it only the current one may still be answered, and only once.            *)
NodeInv ==
    \A q \in Requesters :
        /\ \A id \in mine[q] : id[1] = q
        /\ \A id \in mine[q] \cap pending :
               id = Current(q) /\ req[q] \in Waiting /\ inbox[q] = {}
        /\ \A reply \in inbox[q] : reply.id = Current(q) /\ req[q] \in Waiting
        /\ \A r1, r2 \in inbox[q] : r1 = r2

UnderWay == {q \in Requesters : req[q] \in Waiting}
Awaiting == {q \in Requesters : req[q] = "await"}

OutcomeInv ==
    /\ SumFunction(num) = success + timeout + error + cancelled + Cardinality(UnderWay)
    /\ success + timeout + Cardinality(Awaiting) <= sent

-----------------------------------------------------------------------------
LEMMA TypeInit ==
    ASSUME Init
    PROVE  TypeInv
BY Zenon DEF Init, TypeInv

LEMMA TypeStep ==
    ASSUME TypeInv, [Next]_vars
    PROVE  TypeInv'
<1> USE DEF TypeInv, Waiting
<1> USE DEF vars, requesterVars, responderVars, brokerVars, counters, trackerVars, engineVars
<1>1. ASSUME NEW id, NEW e, Respond(id, e)
      PROVE  DOMAIN inbox' = Requesters
  BY <1>1 DEF Respond
<1>2. CASE BrokerTimeout
  BY <1>1, <1>2, Zenon DEF BrokerTimeout
<1>3. ASSUME NEW q \in Requesters, Requester(q)
      PROVE  TypeInv'
  <2>1. CASE RequesterReturns(q) \/ connect(q)
    BY <2>1, Zenon DEF RequesterReturns, connect, RequesterGoto, RequestUnchanged, teardown
  <2>2. CASE Send(q)
    BY <2>2 DEF Send, RequesterGoto
  <2>3. CASE SendReturns(q)
    BY <2>3 DEF SendReturns, RequesterGoto, RequestUnchanged
  <2>4. CASE LinkFails(q) \/ RequestCancelled(q) \/ ReplyTimeout(q)
    BY <2>4 DEF LinkFails, RequestCancelled, ReplyTimeout, RequesterGoto, RequestUnchanged, teardown
  <2>5. CASE accountReply(q)
    <3>1. /\ UNCHANGED <<num, mine, sent, timeout, cancelled>>
          /\ req' = [req EXCEPT ![q] = "ready"] /\ DOMAIN inbox' = Requesters
      BY <2>5, Zenon DEF accountReply, RequesterGoto, RequestUnchanged
    <3>2. success' \in Nat /\ error' \in Nat
      BY <2>5 DEF accountReply
    <3> QED BY <3>1, <3>2, Zenon
  <2> QED BY <1>3, <2>1, <2>2, <2>3, <2>4, <2>5 DEF Requester
<1>4. ASSUME NEW r \in Responders, Responder(r)
      PROVE  TypeInv'
  <2>1. UNCHANGED <<num, req, mine, sent, success, timeout, error, cancelled>>
    BY <1>4, Zenon
    DEF Responder, ResponderConnect, ReceiveRequest, ReceiveRequestFails, Reply, ReplyFails,
                ResponderGoto
  <2>2. DOMAIN inbox' = Requesters
    BY <1>1, <1>4, Zenon
    DEF Responder, ResponderConnect, ReceiveRequest, ReceiveRequestFails, Reply,
                      ReplyFails
  <2> QED BY <2>1, <2>2, Zenon
<1>5. CASE Engine \/ StopRun \/ UNCHANGED vars
  BY <1>5 DEF Engine, CancelProducers, StartMeasurement, CancelConsumers, ConsumersStopped,
              EngineGoto, StopRun
<1> QED BY <1>2, <1>3, <1>4, <1>5 DEF Next

-----------------------------------------------------------------------------
LEMMA NodeInit ==
    ASSUME Init
    PROVE  NodeInv
BY Zenon DEF Init, NodeInv

(* A response, whoever sends it: at most one gets to the node, and it is    *)
(* for the current request.                                                 *)
LEMMA RespondStep ==
    ASSUME TypeInv, NodeInv, NEW id, NEW e, Respond(id, e), UNCHANGED <<req, num, mine, round>>
    PROVE  NodeInv'
<1>1. ASSUME NEW q \in Requesters PROVE Current(q)' = Current(q)
  BY Zenon DEF Current
<1>2. CASE ~(id \in pending /\ id \in mine[id[1]]) \/ id[1] \notin Requesters
  <2>1. pending' = pending \ {id} /\ \A q \in Requesters : inbox'[q] = inbox[q]
    BY <1>2, Zenon DEF Respond, TypeInv
  <2> QED BY <1>1, <2>1 DEF NodeInv
<1>3. CASE id \in pending /\ id \in mine[id[1]] /\ id[1] \in Requesters
  <2> DEFINE p == id[1]
  <2>1. /\ inbox'[p] = inbox[p] \cup {[id |-> id, executed |-> e]}
        /\ \A q \in Requesters : q # p => inbox'[q] = inbox[q]
        /\ pending' = pending \ {id}
    BY <1>3, Zenon DEF Respond, TypeInv
  <2>2. id = Current(p) /\ req[p] \in Waiting /\ inbox[p] = {}
    BY <1>3, Zenon DEF NodeInv
  <2>3. inbox'[p] = {[id |-> id, executed |-> e]}
    BY <2>1, <2>2, Zenon
  <2>4. \A r \in inbox'[p] : r.id = id
    BY <2>3
  <2>5. mine[p] \cap pending' = {}
    BY <1>3, <2>1, <2>2 DEF NodeInv
  <2> HIDE DEF p
  <2>6. ASSUME NEW q \in Requesters
        PROVE  /\ \A i \in mine'[q] : i[1] = q
               /\ \A i \in mine'[q] \cap pending' :
                      i = Current(q)' /\ req'[q] \in Waiting /\ inbox'[q] = {}
               /\ \A r \in inbox'[q] : r.id = Current(q)' /\ req'[q] \in Waiting
               /\ \A r1, r2 \in inbox'[q] : r1 = r2
    <3>1. CASE q = p
      BY <3>1, <1>1, <2>2, <2>3, <2>4, <2>5, Zenon DEF NodeInv
    <3>2. CASE q # p
      BY <3>2, <1>1, <2>1 DEF NodeInv
    <3> QED BY <3>1, <3>2, Zenon
  <2> QED BY <2>6, Zenon DEF NodeInv
<1> QED BY <1>2, <1>3, Zenon

LEMMA NodeStep ==
    ASSUME TypeInv, NodeInv, [Next]_vars
    PROVE  NodeInv'
<1> USE DEF vars, requesterVars, responderVars, brokerVars, counters, trackerVars, engineVars
<1>1. ASSUME UNCHANGED <<req, num, mine, round, inbox>>, pending' \subseteq pending
      PROVE  NodeInv'
  BY <1>1 DEF NodeInv, Current
<1>2. CASE BrokerTimeout
  BY <1>1, <1>2, RespondStep, Zenon DEF BrokerTimeout
<1>3. ASSUME NEW q \in Requesters, Requester(q)
      PROVE  NodeInv'
  <2>1. \A p \in Requesters : p # q => /\ req'[p] = req[p] /\ num'[p] = num[p] /\ mine'[p] = mine[p]
                                       /\ inbox'[p] = inbox[p] /\ Current(p)' = Current(p)
    <3>1. UNCHANGED round
      BY <1>3, Zenon DEF Requester, RequesterReturns, connect, Send, SendReturns, LinkFails,
                         RequestCancelled, ReplyTimeout, accountReply, RequesterGoto,
                         RequestUnchanged, teardown
    <3>2. \/ req' = req
          \/ \E w : req' = [req EXCEPT ![q] = w]
      BY <1>3, Zenon DEF Requester, RequesterReturns, connect, Send, SendReturns, LinkFails,
                         RequestCancelled, ReplyTimeout, accountReply, RequesterGoto
    <3>3. \/ num' = num
          \/ \E w : num' = [num EXCEPT ![q] = w]
      BY <1>3, Zenon DEF Requester, RequesterReturns, connect, Send, SendReturns, LinkFails,
                         RequestCancelled, ReplyTimeout, accountReply, RequestUnchanged, teardown
    <3>4. \/ mine' = mine
          \/ \E w : mine' = [mine EXCEPT ![q] = w]
      BY <1>3, Zenon DEF Requester, RequesterReturns, connect, Send, SendReturns, LinkFails,
                         RequestCancelled, ReplyTimeout, accountReply, RequestUnchanged, teardown
    <3>5. \/ inbox' = inbox
          \/ \E w : inbox' = [inbox EXCEPT ![q] = w]
      BY <1>3, Zenon DEF Requester, RequesterReturns, connect, Send, SendReturns, LinkFails,
                         RequestCancelled, ReplyTimeout, accountReply, RequestUnchanged, teardown
    <3>6. \A p \in Requesters : p # q =>
              req'[p] = req[p] /\ num'[p] = num[p] /\ mine'[p] = mine[p] /\ inbox'[p] = inbox[p]
      BY <3>2, <3>3, <3>4, <3>5, Zenon DEF TypeInv
    <3> QED BY ONLY <3>1, <3>6 DEF Current
  <2>2. ASSUME pending' \subseteq pending,
               /\ \A id \in mine'[q] : id[1] = q
               /\ \A id \in mine'[q] \cap pending' :
                      id = Current(q)' /\ req'[q] \in Waiting /\ inbox'[q] = {}
               /\ \A reply \in inbox'[q] : reply.id = Current(q)' /\ req'[q] \in Waiting
               /\ \A r1, r2 \in inbox'[q] : r1 = r2
        PROVE  NodeInv'
    BY <2>1, <2>2 DEF NodeInv
  <2>3. CASE \/ RequesterReturns(q) \/ LinkFails(q) \/ RequestCancelled(q) \/ ReplyTimeout(q)
    <3>1. mine'[q] = {} /\ inbox'[q] = {} /\ pending' = pending
      BY <2>3, Zenon DEF RequesterReturns, LinkFails, RequestCancelled, ReplyTimeout, teardown,
                  RequestUnchanged, TypeInv
    <3> QED BY <3>1, <2>2, Zenon
  <2>4. CASE connect(q) \/ SendReturns(q)
    <3>1. /\ UNCHANGED <<mine, inbox, pending, num, round>>
          /\ req[q] \in Waiting => req'[q] \in Waiting
      BY <2>4, Zenon DEF connect, SendReturns, RequesterGoto, RequestUnchanged, TypeInv, Waiting
    <3>2. Current(q)' = Current(q)
      BY <3>1, Zenon DEF Current
    <3> QED BY <3>1, <3>2, <2>2 DEF NodeInv
  <2>5. CASE Send(q)
    <3> DEFINE new == <<q, round, num[q] + 1>>
    <3>1. Current(q)' = new /\ req'[q] = "sending" /\ inbox' = inbox /\ req[q] = "ready"
      BY <2>5, Zenon DEF Send, RequesterGoto, Current, TypeInv
    <3>2. mine[q] \cap pending = {} /\ inbox[q] = {}
      BY <3>1, Zenon DEF NodeInv, Waiting
    <3>3. \/ mine'[q] = mine[q] \cup {new} /\ pending' = pending \cup {new}
          \/ mine'[q] = mine[q] /\ pending' = pending
      BY <2>5, Zenon DEF Send, TypeInv
    <3>4. new[1] = q
      BY Zenon
    <3> HIDE DEF new
    <3>5. /\ \A id \in mine'[q] : id[1] = q
          /\ \A id \in mine'[q] \cap pending' :
                 id = Current(q)' /\ req'[q] \in Waiting /\ inbox'[q] = {}
      BY <3>1, <3>2, <3>3, <3>4, Zenon DEF NodeInv, Waiting
    <3>6. inbox'[q] = {}
      BY <3>1, <3>2, Zenon
    <3>7. ASSUME NEW p \in Requesters, p # q
          PROVE  mine'[p] \cap pending' \subseteq mine[p] \cap pending
      BY <2>1, <3>3, <3>4, <3>7 DEF NodeInv
    <3> QED BY <2>1, <3>5, <3>6, <3>7 DEF NodeInv
  <2>6. CASE accountReply(q)
    <3>1. /\ UNCHANGED <<mine, pending, num, round>> /\ req[q] = "await"
          /\ \E reply \in inbox[q] : inbox' = [inbox EXCEPT ![q] = @ \ {reply}]
      BY <2>6, Zenon DEF accountReply, RequesterGoto, RequestUnchanged
    <3>2. inbox'[q] = {}
      BY <3>1 DEF NodeInv, TypeInv
    <3>3. mine[q] \cap pending = {}
      BY <3>1, Zenon DEF NodeInv
    <3> QED BY <3>1, <3>2, <3>3, <2>2, Zenon DEF NodeInv
  <2> QED BY <1>3, <2>3, <2>4, <2>5, <2>6 DEF Requester
<1>4. ASSUME NEW r \in Responders, Responder(r)
      PROVE  NodeInv'
  <2>1. UNCHANGED <<req, num, mine, round>>
    BY <1>4, Zenon
    DEF Responder, ResponderConnect, ReceiveRequest, ReceiveRequestFails, Reply, ReplyFails,
                ResponderGoto
  <2>2. \/ UNCHANGED <<pending, inbox>>
        \/ Respond(held[r], TRUE)
    <3>1. CASE ResponderConnect(r) \/ ReceiveRequest(r) \/ ReceiveRequestFails(r)
      BY <3>1, Zenon DEF ResponderConnect, ReceiveRequest, ReceiveRequestFails
    <3>2. CASE Reply(r) \/ ReplyFails(r)
      BY <3>2, Zenon DEF Reply, ReplyFails
    <3> QED BY <1>4, <3>1, <3>2, Zenon DEF Responder
  <2> QED BY <1>1, <2>1, <2>2, RespondStep, Zenon
<1>5. CASE StartMeasurement
  <2>1. /\ UNCHANGED <<mine, inbox, pending>>
        /\ \A q \in Requesters : req[q] \notin Waiting
    BY <1>5, Zenon DEF StartMeasurement, EngineGoto, AllOff, Waiting
  <2> QED BY <2>1, Zenon DEF NodeInv
<1>6. CASE CancelProducers \/ CancelConsumers \/ ConsumersStopped \/ StopRun \/ UNCHANGED vars
  <2>1. UNCHANGED <<req, num, mine, round, inbox, pending>>
    BY <1>6, Zenon DEF CancelProducers, CancelConsumers, ConsumersStopped, EngineGoto, StopRun
  <2> QED BY <1>1, <2>1, Zenon
<1> QED BY <1>2, <1>3, <1>4, <1>5, <1>6 DEF Next, Engine

-----------------------------------------------------------------------------
LEMMA WaitingFinite ==
    /\ IsFiniteSet(UnderWay) /\ Cardinality(UnderWay) \in Nat
    /\ IsFiniteSet(Awaiting) /\ Cardinality(Awaiting) \in Nat
<1>1. UnderWay \in SUBSET Requesters /\ Awaiting \in SUBSET Requesters
  BY Zenon DEF UnderWay, Awaiting
<1> QED BY <1>1, RequestersAssumption, FS_Subset, FS_CardinalityType, Zenon

LEMMA OutcomeInit ==
    ASSUME Init
    PROVE  OutcomeInv
<1>1. UnderWay = {} /\ Awaiting = {} /\ num = [q \in Requesters |-> 0]
  BY Zenon DEF Init, UnderWay, Awaiting, Waiting
<1>2. SumFunction(num) = 0
  BY <1>1, RequestersAssumption, SumOfZeros, Zenon
<1>3. sent = 0 /\ success = 0 /\ timeout = 0 /\ error = 0 /\ cancelled = 0
  BY Zenon DEF Init
<1> QED BY <1>1, <1>2, <1>3, FS_EmptySet DEF OutcomeInv

(* Two finite sets that differ in q at most. *)
LEMMA OneMoves ==
    ASSUME NEW S, IsFiniteSet(S), NEW U, NEW q, \A p : p # q => (p \in U <=> p \in S)
    PROVE  /\ (q \in S <=> q \in U) => Cardinality(U) = Cardinality(S)
           /\ q \in U /\ q \notin S => Cardinality(U) = Cardinality(S) + 1
           /\ q \in S /\ q \notin U => Cardinality(U) = Cardinality(S) - 1
<1>1. CASE q \in S <=> q \in U
  <2>1. U = S
    BY <1>1
  <2> QED BY <1>1, <2>1, Zenon
<1>2. CASE q \in U /\ q \notin S
  <2>1. U = S \cup {q}
    BY <1>2, Zenon
  <2> QED BY <1>2, <2>1, FS_AddElement, Zenon
<1>3. CASE q \in S /\ q \notin U
  <2>1. U = S \ {q}
    BY <1>3, Zenon
  <2> QED BY <1>3, <2>1, FS_RemoveElement, Zenon
<1> QED BY <1>1, <1>2, <1>3

(* How a step of requester q moves it in and out of the two sets. *)
LEMMA Moves ==
    ASSUME TypeInv, NEW q \in Requesters, NEW l, req' = [req EXCEPT ![q] = l]
    PROVE  /\ (req[q] \in Waiting <=> l \in Waiting) =>
                  Cardinality(UnderWay') = Cardinality(UnderWay)
           /\ l \in Waiting /\ req[q] \notin Waiting =>
                  Cardinality(UnderWay') = Cardinality(UnderWay) + 1
           /\ req[q] \in Waiting /\ l \notin Waiting =>
                  Cardinality(UnderWay') = Cardinality(UnderWay) - 1
           /\ (req[q] = "await" <=> l = "await") => Cardinality(Awaiting') = Cardinality(Awaiting)
           /\ l = "await" /\ req[q] # "await" => Cardinality(Awaiting') = Cardinality(Awaiting) + 1
           /\ req[q] = "await" /\ l # "await" => Cardinality(Awaiting') = Cardinality(Awaiting) - 1
<1>1. \A p \in Requesters : req'[p] = IF p = q THEN l ELSE req[p]
  BY Zenon DEF TypeInv
<1>2. /\ \A p : p # q => (p \in UnderWay' <=> p \in UnderWay)
      /\ \A p : p # q => (p \in Awaiting' <=> p \in Awaiting)
      /\ q \in UnderWay <=> req[q] \in Waiting
      /\ q \in UnderWay' <=> l \in Waiting
      /\ q \in Awaiting <=> req[q] = "await"
      /\ q \in Awaiting' <=> l = "await"
  BY <1>1, Zenon DEF UnderWay, Awaiting
<1>3. /\ (q \in UnderWay <=> q \in UnderWay') => Cardinality(UnderWay') = Cardinality(UnderWay)
      /\ q \in UnderWay' /\ q \notin UnderWay => Cardinality(UnderWay') = Cardinality(UnderWay) + 1
      /\ q \in UnderWay /\ q \notin UnderWay' => Cardinality(UnderWay') = Cardinality(UnderWay) - 1
  BY <1>2, WaitingFinite, OneMoves, Zenon
<1>4. /\ (q \in Awaiting <=> q \in Awaiting') => Cardinality(Awaiting') = Cardinality(Awaiting)
      /\ q \in Awaiting' /\ q \notin Awaiting => Cardinality(Awaiting') = Cardinality(Awaiting) + 1
      /\ q \in Awaiting /\ q \notin Awaiting' => Cardinality(Awaiting') = Cardinality(Awaiting) - 1
  BY <1>2, WaitingFinite, OneMoves, Zenon
<1> QED BY <1>2, <1>3, <1>4, Zenon

LEMMA OutcomeStep ==
    ASSUME TypeInv, OutcomeInv, [Next]_vars
    PROVE  OutcomeInv'
<1> USE DEF vars, requesterVars, responderVars, brokerVars, counters, trackerVars, engineVars
<1> DEFINE total == SumFunction(num)
           under == Cardinality(UnderWay)
           await == Cardinality(Awaiting)
<1>0. /\ sent \in Nat /\ success \in Nat /\ timeout \in Nat /\ error \in Nat /\ cancelled \in Nat
      /\ under \in Nat /\ await \in Nat
  BY WaitingFinite, Zenon DEF TypeInv
<1>1. /\ total = success + timeout + error + cancelled + under
      /\ success + timeout + await <= sent
  BY Zenon DEF OutcomeInv
<1>2. CASE UNCHANGED <<num, req, sent, success, timeout, error, cancelled>>
  BY <1>2, Zenon DEF OutcomeInv, UnderWay, Awaiting
<1>3. ASSUME NEW q \in Requesters, Requester(q)
      PROVE  OutcomeInv'
  <2>1. CASE RequesterReturns(q) \/ connect(q)
    <3>1. PICK l \in {"off", "ready"} : req' = [req EXCEPT ![q] = l]
      BY <2>1, Zenon DEF RequesterReturns, connect, RequesterGoto
    <3>2. /\ UNCHANGED <<num, sent, success, timeout, error, cancelled>>
          /\ req[q] \in {"connect", "ready"}
      BY <2>1, Zenon DEF RequesterReturns, connect, RequestUnchanged
    <3>3. req[q] \notin Waiting /\ l \notin Waiting /\ req[q] # "await" /\ l # "await"
      BY <3>1, <3>2, Zenon DEF Waiting
    <3>4. Cardinality(UnderWay') = under /\ Cardinality(Awaiting') = await
      BY <3>1, <3>3, Moves, Zenon
    <3> QED BY <3>2, <3>4, Zenon DEF OutcomeInv
  <2>2. CASE Send(q)
    <3>1. /\ num' = [num EXCEPT ![q] = @ + 1] /\ req' = [req EXCEPT ![q] = "sending"]
          /\ req[q] = "ready" /\ UNCHANGED <<sent, success, timeout, error, cancelled>>
      BY <2>2, Zenon DEF Send, RequesterGoto
    <3>2. Cardinality(UnderWay') = under + 1 /\ Cardinality(Awaiting') = await
      BY <3>1, <1>0, Moves, Zenon DEF Waiting
    <3>3. SumFunction(num') = total + 1
      <4>1. num \in [Requesters -> Int]
        BY DEF TypeInv
      <4> QED BY <3>1, <4>1, RequestersAssumption, SumOfIncrement, Zenon
    <3> HIDE DEF total, under, await
    <3>4. SumFunction(num') = success' + timeout' + error' + cancelled' + Cardinality(UnderWay')
      BY <3>1, <3>2, <3>3, <1>0, <1>1
    <3>5. success' + timeout' + Cardinality(Awaiting') <= sent'
      BY <3>1, <3>2, <1>1, Zenon
    <3> QED BY <3>4, <3>5, Zenon DEF OutcomeInv
  <2>3. CASE SendReturns(q)
    <3>1. /\ sent' = sent + 1 /\ req' = [req EXCEPT ![q] = "await"]
          /\ req[q] = "sending" /\ UNCHANGED <<num, success, timeout, error, cancelled>>
      BY <2>3, Zenon DEF SendReturns, RequesterGoto, RequestUnchanged
    <3>2. Cardinality(UnderWay') = under /\ Cardinality(Awaiting') = await + 1
      BY <3>1, <1>0, Moves, Zenon DEF Waiting
    <3>3. SumFunction(num') = success' + timeout' + error' + cancelled' + Cardinality(UnderWay')
      BY <3>1, <3>2, <1>1, Zenon
    <3> HIDE DEF under, await, total
    <3>4. success' + timeout' + Cardinality(Awaiting') <= sent'
      BY <3>1, <3>2, <1>0, <1>1
    <3> QED BY <3>3, <3>4, Zenon DEF OutcomeInv
  <2>4. ASSUME NEW l \in {"off", "connect", "ready"}, req' = [req EXCEPT ![q] = l],
               req[q] \in Waiting, num' = num, sent' = sent,
               \/ /\ success' = success + 1 /\ UNCHANGED <<timeout, error, cancelled>>
                  /\ req[q] = "await"
               \/ /\ timeout' = timeout + 1 /\ UNCHANGED <<success, error, cancelled>>
                  /\ req[q] = "await"
               \/ error' = error + 1 /\ UNCHANGED <<success, timeout, cancelled>>
               \/ cancelled' = cancelled + 1 /\ UNCHANGED <<success, timeout, error>>
        PROVE  OutcomeInv'
    <3>1. /\ Cardinality(UnderWay') = under - 1
          /\ req[q] = "await" => Cardinality(Awaiting') = await - 1
          /\ req[q] # "await" => Cardinality(Awaiting') = await
      BY <2>4, Moves, Zenon DEF Waiting
    <3> HIDE DEF under, await, total
    <3>2. total = success' + timeout' + error' + cancelled' + Cardinality(UnderWay')
      BY <2>4, <3>1, <1>0, <1>1
    <3>3. success' + timeout' + Cardinality(Awaiting') <= sent'
      BY <2>4, <3>1, <1>0, <1>1
    <3> QED BY <2>4, <3>2, <3>3, Zenon DEF OutcomeInv, total
  <2>5. CASE LinkFails(q) \/ RequestCancelled(q) \/ ReplyTimeout(q)
    BY <2>4, <2>5, Zenon
    DEF LinkFails, RequestCancelled, ReplyTimeout, RequesterGoto, RequestUnchanged,
                      Waiting
  <2>6. CASE accountReply(q)
    <3>1. /\ req' = [req EXCEPT ![q] = "ready"] /\ req[q] = "await"
          /\ UNCHANGED <<num, sent, timeout, cancelled>>
      BY <2>6, Zenon DEF accountReply, RequesterGoto, RequestUnchanged
    <3>2. \/ success' = success + 1 /\ error' = error
          \/ error' = error + 1 /\ success' = success
      BY <2>6, Zenon DEF accountReply
    <3> QED BY <2>4, <3>1, <3>2, Zenon DEF Waiting
  <2> QED BY <1>3, <2>1, <2>2, <2>3, <2>5, <2>6 DEF Requester
<1>4. CASE BrokerTimeout \/ StopRun \/ UNCHANGED vars \/ \E r \in Responders : Responder(r)
  <2>1. UNCHANGED <<num, req, sent, success, timeout, error, cancelled>>
    BY <1>4, Zenon DEF BrokerTimeout, StopRun, Responder, ResponderConnect, ReceiveRequest,
                ReceiveRequestFails, Reply, ReplyFails, ResponderGoto
  <2> QED BY <1>2, <2>1, Zenon
<1>5. CASE CancelProducers \/ CancelConsumers \/ ConsumersStopped
  <2>1. UNCHANGED <<num, req, sent, success, timeout, error, cancelled>>
    BY <1>5, Zenon DEF CancelProducers, CancelConsumers, ConsumersStopped
  <2> QED BY <1>2, <2>1, Zenon
<1>6. CASE StartMeasurement
  <2>1. /\ num' = [q \in Requesters |-> 0] /\ req' = [q \in Requesters |-> "connect"]
        /\ sent' = 0 /\ success' = 0 /\ timeout' = 0 /\ error' = 0 /\ cancelled' = 0
    BY <1>6, Zenon DEF StartMeasurement
  <2>2. UnderWay' = {} /\ Awaiting' = {}
    BY <2>1, Zenon DEF UnderWay, Awaiting, Waiting
  <2>3. SumFunction(num') = 0
    BY <2>1, RequestersAssumption, SumOfZeros, Zenon
  <2> QED BY <2>1, <2>2, <2>3, FS_EmptySet DEF OutcomeInv
<1> QED BY <1>3, <1>4, <1>5, <1>6 DEF Next, Engine

-----------------------------------------------------------------------------
RpcInv == TypeInv /\ NodeInv /\ OutcomeInv

(* Requesters, responders, broker and engine keep RpcInv, whatever the      *)
(* interleaving (rpcRequester.run, rpcResponder.run, StopProducers,         *)
(* ResetAfterWarmup).                                                       *)
THEOREM Invariance == Spec => []RpcInv
<1>1. Init => RpcInv
  BY TypeInit, NodeInit, OutcomeInit DEF RpcInv
<1>2. RpcInv /\ [Next]_vars => RpcInv'
  BY TypeStep, NodeStep, OutcomeStep DEF RpcInv
<1> QED BY <1>1, <1>2, PTL DEF Spec

(* doOne never meets the reply to another request: rebuilding the links     *)
(* after a timeout or a failure leaves late replies without a node.         *)
THEOREM NoStrayReply == Spec => []ReplyIsToCurrent
<1>1. RpcInv => ReplyIsToCurrent
  BY Zenon DEF RpcInv, NodeInv, ReplyIsToCurrent, Waiting
<1> QED BY <1>1, Invariance, PTL

(* The counters of doOne and accountReply account for every request of the  *)
(* round exactly once, with any number of requesters, also across the reset *)
(* after the warmup.                                                        *)
THEOREM EveryRequestCountsOnce == Spec => []OneOutcomeEach
<1>1. RpcInv => OneOutcomeEach
  <2> SUFFICES ASSUME RpcInv PROVE OneOutcomeEach
    BY Zenon
  <2>1. success + timeout <= sent
    BY WaitingFinite DEF RpcInv, TypeInv, OutcomeInv
  <2> QED BY <2>1, Zenon DEF RpcInv, OutcomeInv, OneOutcomeEach, UnderWay, Waiting
<1> QED BY <1>1, Invariance, PTL
=============================================================================
