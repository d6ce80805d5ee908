---------------------------- MODULE TrackerProofs ----------------------------
(***************************************************************************)
(* Proofs about the tracker for any producers, sequences and window size.  *)
(* The lemmas say what each way out of Record does to one producer state;  *)
(* TrackerInv is the inductive invariant, Accounts and Metered its parts.  *)
(***************************************************************************)
EXTENDS TrackerAudit, TLAPS, FiniteSetTheorems, WellFoundedInduction

(* A nonempty set of naturals has a least element. *)
LEMMA LeastNat ==
    ASSUME NEW S, S \subseteq Nat, S # {}
    PROVE  \E x \in S : \A y \in S : x <= y
<1> DEFINE T == {0 .. x : x \in S}
           R == StrictSubsetOrdering(Nat)
<1>1. T \subseteq FiniteSubsetsOf(Nat)
  <2>1. SUFFICES ASSUME NEW x \in S PROVE 0 .. x \in FiniteSubsetsOf(Nat)
    BY Zenon
  <2>2. IsFiniteSet(0 .. x)
    BY FS_Interval
  <2>3. QED BY <2>2 DEF FiniteSubsetsOf
<1>2. T # {}
  BY Zenon
<1>3. \E t \in T : \A u \in T : ~ (<<u, t>> \in R)
  <2>1. IsWellFoundedOn(R, FiniteSubsetsOf(Nat))
    BY FS_StrictSubsetOrderingWellFounded, Zenon
  <2> HIDE DEF R, T
  <2>2. QED BY <1>1, <1>2, <2>1, WFMin, Zenon
<1>4. PICK x \in S : \A y \in S : ~ (<<0 .. y, 0 .. x>> \in R)
  BY <1>3, Zenon
<1>5. ASSUME NEW y \in S, y < x PROVE FALSE
  <2>1. 0 .. y \subseteq 0 .. x /\ 0 .. y # 0 .. x
    BY <1>5
  <2>2. <<0 .. y, 0 .. x>> \in R
    BY <2>1 DEF StrictSubsetOrdering
  <2>3. QED BY <1>4, <2>2, Zenon
<1>6. QED BY <1>5

(* The run that advanceContiguous passes over is the leading run of set     *)
(* bits: it exists in every window and the bit after it is clear.           *)
LEMMA SeenRunIsLeadingRun ==
    ASSUME NEW window \in Windows
    PROVE  /\ SeenRun(window) \in 0 .. W
           /\ SeenRun(window) \notin window
           /\ \A i \in 0 .. SeenRun(window) - 1 : i \in window
<1> DEFINE S == (0 .. W) \ window
<1>1. W \in S
  BY WAssumption DEF Windows
<1>2. PICK n \in S : \A y \in S : n <= y
  <2>1. S \subseteq Nat /\ S # {}
    BY <1>1, WAssumption
  <2> HIDE DEF S
  <2>2. QED BY <2>1, LeastNat, Zenon
<1>3. /\ n \in 0 .. W
      /\ ~getBit(window, n)
      /\ \A i \in 0 .. n - 1 : getBit(window, i)
  BY <1>2, WAssumption DEF getBit
<1>4. QED BY <1>3, Zenon DEF SeenRun, getBit

(* Shifting moves every bit down by n and keeps the bits in the window. *)
LEMMA ShiftLeftMembers ==
    ASSUME NEW window \in Windows, NEW n \in Nat
    PROVE  /\ shiftLeft(window, n) \in Windows
           /\ \A i \in Nat : i \in shiftLeft(window, n) <=> i + n \in window
BY WAssumption DEF shiftLeft, Windows

(* advanceContiguous changes the watermark and the window, nothing else. *)
LEMMA AdvanceFields ==
    ASSUME NEW ps \in ProducerState
    PROVE  /\ advanceContiguous(ps) \in ProducerState
           /\ advanceContiguous(ps).highContiguous = ps.highContiguous + SeenRun(ps.window)
           /\ advanceContiguous(ps).window = shiftLeft(ps.window, SeenRun(ps.window))
           /\ advanceContiguous(ps).pendingLost = ps.pendingLost
           /\ advanceContiguous(ps).confirmedLost = ps.confirmedLost
           /\ advanceContiguous(ps).lastReportedLost = ps.lastReportedLost
<1> DEFINE n == ps.highContiguous + SeenRun(ps.window)
           w == shiftLeft(ps.window, SeenRun(ps.window))
           next == [ps EXCEPT !.highContiguous = n, !.window = w]
<1>1. ps.window \in Windows /\ ps.highContiguous \in Nat
  BY Zenon DEF ProducerState
<1>2. SeenRun(ps.window) \in Nat
  BY <1>1, SeenRunIsLeadingRun, WAssumption
<1>3. n \in Nat
  BY <1>1, <1>2
<1>4. w \in Windows
  BY <1>1, <1>2, ShiftLeftMembers, Zenon
<1>5. advanceContiguous(ps) = next
  BY Zenon DEF advanceContiguous
<1>6. /\ next \in ProducerState
      /\ next.highContiguous = n
      /\ next.window = w
      /\ next.pendingLost = ps.pendingLost
      /\ next.confirmedLost = ps.confirmedLost
      /\ next.lastReportedLost = ps.lastReportedLost
  <2> HIDE DEF n, w
  <2>1. QED BY <1>3, <1>4, Zenon DEF ProducerState
<1>7. QED BY <1>5, <1>6, Zenon

(* A new producer starts with the first sequence behind the watermark and   *)
(* an empty window.                                                         *)
LEMMA NewProducerFields ==
    ASSUME NEW seq \in Nat
    PROVE  NewProducer(seq) =
               [highContiguous |-> seq, window |-> {}, received |-> 1, duplicates |-> 0,
                outOfOrder |-> 0, confirmedLost |-> 0, pendingLost |-> {},
                lastReportedLost |-> 0, lastSeen |-> seq]
<1>1. setBit({}, 0) \in Windows
  BY WAssumption DEF setBit, Windows
<1>2. SeenRun(setBit({}, 0)) = 1
  BY <1>1, SeenRunIsLeadingRun, WAssumption DEF setBit
<1>3. shiftLeft(setBit({}, 0), 1) = {}
  BY DEF shiftLeft, setBit
<1> DEFINE ps == [highContiguous |-> seq - 1, window |-> setBit({}, 0),
                  received |-> 1, duplicates |-> 0, outOfOrder |-> 0,
                  confirmedLost |-> 0, pendingLost |-> {},
                  lastReportedLost |-> 0, lastSeen |-> seq]
<1>4. ps.window = setBit({}, 0) /\ ps.highContiguous = seq - 1
  BY Zenon
<1>5. advanceContiguous(ps) = [ps EXCEPT !.highContiguous = seq, !.window = {}]
  <2> HIDE DEF ps
  <2>1. advanceContiguous(ps) =
            [ps EXCEPT !.highContiguous = ps.highContiguous + SeenRun(ps.window),
                       !.window = shiftLeft(ps.window, SeenRun(ps.window))]
    BY Zenon DEF advanceContiguous
  <2>2. ps.highContiguous + SeenRun(ps.window) = seq
    BY <1>2, <1>4
  <2>3. shiftLeft(ps.window, SeenRun(ps.window)) = {}
    BY <1>2, <1>3, <1>4, Zenon
  <2>4. QED BY <2>1, <2>2, <2>3, Zenon
<1>6. QED BY <1>5, ZenonT(30) DEF NewProducer

-----------------------------------------------------------------------------

(* What a producer's state says about its arrivals; b, arr, edg and skp are *)
(* its base, arrived, edge and skipped.                                     *)
Accounts(ps, b, arr, edg, skp) ==
    /\ b <= ps.highContiguous
    /\ \A s \in arr : s <= ps.highContiguous + W + 1
    /\ \A i \in ps.window : ps.highContiguous + 1 + i \in arr
    /\ \A s \in arr \ edg : s > ps.highContiguous => s - ps.highContiguous - 1 \in ps.window
    /\ \A s \in b .. ps.highContiguous : s \in arr \/ s \in skp \/ s \in ps.pendingLost
    /\ \A s \in ps.pendingLost : /\ b <= s
                                 /\ s <= ps.highContiguous
                                 /\ s \notin arr \/ s \in edg
    /\ ps.confirmedLost = Cardinality(ps.pendingLost)

(* The types of the fields the arguments below rest on. *)
LEMMA StateFields ==
    ASSUME NEW ps \in ProducerState
    PROVE  /\ ps.highContiguous \in Nat
           /\ ps.window \in Windows
           /\ ps.pendingLost \in SeqSets
           /\ ps.confirmedLost \in Nat
           /\ ps.lastReportedLost \in Nat
BY Zenon DEF ProducerState

(* advanceContiguous keeps the account and leaves the first bit clear. *)
LEMMA AdvanceAccounts ==
    ASSUME NEW ps \in ProducerState, NEW b \in Nat,
           NEW arr \in SUBSET Nat, NEW edg \in SUBSET Nat, NEW skp \in SUBSET Nat,
           Accounts(ps, b, arr, edg, skp)
    PROVE  /\ Accounts(advanceContiguous(ps), b, arr, edg, skp)
           /\ 0 \notin advanceContiguous(ps).window
<1> DEFINE k == SeenRun(ps.window)
           h == ps.highContiguous
           w == ps.window
           nh == advanceContiguous(ps).highContiguous
           nw == advanceContiguous(ps).window
<1>1. h \in Nat /\ w \in Windows /\ w \subseteq Nat
  BY StateFields, WAssumption DEF Windows
<1>2. k \in Nat /\ k \notin w /\ \A i \in 0 .. k - 1 : i \in w
  BY <1>1, SeenRunIsLeadingRun, WAssumption
<1>3. nh = h + k /\ nw \in Windows /\ \A i \in Nat : i \in nw <=> i + k \in w
  BY <1>1, <1>2, AdvanceFields, ShiftLeftMembers, ZenonT(30)
<1>4. 0 \notin nw
  BY <1>2, <1>3
<1>5. nw \subseteq Nat
  BY <1>3, WAssumption DEF Windows
<1>6. /\ b <= h
      /\ \A s \in arr : s <= h + W + 1
      /\ \A i \in w : h + 1 + i \in arr
      /\ \A s \in arr \ edg : s > h => s - h - 1 \in w
      /\ \A s \in b .. h : s \in arr \/ s \in skp \/ s \in ps.pendingLost
      /\ \A s \in ps.pendingLost : b <= s /\ s <= h /\ (s \notin arr \/ s \in edg)
      /\ ps.confirmedLost = Cardinality(ps.pendingLost)
  BY Zenon DEF Accounts
<1>7. ps.pendingLost \subseteq Nat
  BY StateFields, Zenon DEF SeqSets
<1> HIDE DEF k, h, w, nh, nw
<1>8. b <= nh /\ \A s \in arr : s <= nh + W + 1
  BY <1>1, <1>2, <1>3, <1>6, WAssumption
<1>9. \A i \in nw : nh + 1 + i \in arr
  <2>1. SUFFICES ASSUME NEW i \in nw PROVE nh + 1 + i \in arr
    BY Zenon
  <2>2. i + k \in w
    BY <1>3, <1>5, Zenon
  <2>3. h + 1 + (i + k) \in arr
    BY <1>6, <2>2, Zenon
  <2>4. h + 1 + (i + k) = nh + 1 + i
    BY <1>1, <1>2, <1>3, <1>5
  <2>5. QED BY <2>3, <2>4, Zenon
<1>10. \A s \in arr \ edg : s > nh => s - nh - 1 \in nw
  <2>1. SUFFICES ASSUME NEW s \in arr \ edg, s > nh PROVE s - nh - 1 \in nw
    BY Zenon
  <2>2. s - h - 1 \in w
    BY <1>1, <1>2, <1>3, <1>6, <2>1
  <2>3. s - nh - 1 \in Nat /\ (s - nh - 1) + k = s - h - 1
    BY <1>1, <1>2, <1>3, <2>1
  <2>4. QED BY <1>3, <2>2, <2>3, Zenon
<1>11. \A s \in b .. nh : s \in arr \/ s \in skp \/ s \in ps.pendingLost
  <2>1. SUFFICES ASSUME NEW s \in b .. nh, s > h PROVE s \in arr
    BY <1>1, <1>6
  <2>2. s - h - 1 \in 0 .. k - 1
    BY <1>1, <1>2, <1>3, <2>1
  <2>3. h + 1 + (s - h - 1) \in arr
    BY <1>2, <1>6, <2>2, Zenon
  <2>4. h + 1 + (s - h - 1) = s
    BY <1>1, <1>2, <1>3
  <2>5. QED BY <2>3, <2>4, Zenon
<1>12. \A s \in ps.pendingLost : b <= s /\ s <= nh /\ (s \notin arr \/ s \in edg)
  BY <1>1, <1>2, <1>3, <1>6, <1>7
<1>13. QED
  BY <1>4, <1>6, <1>8, <1>9, <1>10, <1>11, <1>12, AdvanceFields DEF Accounts, nh, nw

(* What every Record does first touches only counters. *)
LEMMA ArriveFields ==
    ASSUME NEW ps \in ProducerState, NEW seq \in Nat
    PROVE  /\ Arrive(ps, seq) \in ProducerState
           /\ Arrive(ps, seq).highContiguous = ps.highContiguous
           /\ Arrive(ps, seq).window = ps.window
           /\ Arrive(ps, seq).pendingLost = ps.pendingLost
           /\ Arrive(ps, seq).confirmedLost = ps.confirmedLost
           /\ Arrive(ps, seq).lastReportedLost = ps.lastReportedLost
<1> DEFINE r == ps.received + 1
           o == ps.outOfOrder + (IF seq < ps.lastSeen THEN 1 ELSE 0)
<1>1. r \in Nat /\ o \in Nat
  BY DEF ProducerState
<1>2. Arrive(ps, seq) = [ps EXCEPT !.received = r, !.outOfOrder = o, !.lastSeen = seq]
  BY Zenon DEF Arrive
<1> HIDE DEF r, o
<1>3. QED BY <1>1, <1>2, ZenonT(30) DEF ProducerState

(* Sequences at or below some number are finitely many. *)
LEMMA PendingFinite ==
    ASSUME NEW S \in SUBSET Nat, NEW h \in Nat, \A s \in S : s <= h
    PROVE  IsFiniteSet(S) /\ Cardinality(S) \in Nat
<1>1. IsFiniteSet(0 .. h)
  BY FS_Interval
<1>2. S \subseteq 0 .. h
  OBVIOUS
<1>3. QED BY <1>1, <1>2, FS_Subset, FS_CardinalityType, Zenon

(* The states that Record reaches for a pending sequence, for a duplicate   *)
(* and for a sequence that gets its bit.                                    *)
Recovered(old, seq) ==
    [Arrive(old, seq) EXCEPT !.pendingLost = old.pendingLost \ {seq},
                             !.confirmedLost = Cardinality(old.pendingLost \ {seq})]

Duplicated(old, seq) == [Arrive(old, seq) EXCEPT !.duplicates = @ + 1]

Marked(old, seq) ==
    LET ps == Arrive(old, seq)
    IN  advanceContiguous([ps EXCEPT !.window = setBit(@, Offset(ps, seq))])

(* Recovery: the late arrival of a pending sequence. *)
LEMMA RecoverAccounts ==
    ASSUME NEW old \in ProducerState, NEW b \in Nat, NEW seq \in Nat,
           NEW arr \in SUBSET Nat, NEW edg \in SUBSET Nat, NEW skp \in SUBSET Nat,
           Accounts(old, b, arr, edg, skp), 0 \notin old.window,
           seq <= old.highContiguous
    PROVE  /\ Recovered(old, seq) \in ProducerState
           /\ Accounts(Recovered(old, seq), b, arr \cup {seq}, edg, skp)
           /\ 0 \notin Recovered(old, seq).window
           /\ Recovered(old, seq).highContiguous = old.highContiguous
           /\ Recovered(old, seq).lastReportedLost = old.lastReportedLost
           /\ Recovered(old, seq).confirmedLost <= old.confirmedLost
<1> DEFINE new == Recovered(old, seq)
           P == old.pendingLost \ {seq}
           c == Cardinality(P)
           mid == Arrive(old, seq)
<1>1. old.pendingLost \in SUBSET Nat /\ old.highContiguous \in Nat
  BY StateFields, Zenon DEF SeqSets
<1>2. P \in SeqSets
  BY <1>1, Zenon DEF SeqSets
<1>3. IsFiniteSet(old.pendingLost)
  BY <1>1, PendingFinite, Zenon DEF Accounts
<1>4. c \in Nat /\ c <= Cardinality(old.pendingLost)
  BY <1>3, FS_Subset, FS_CardinalityType, Zenon
<1>5. /\ mid \in ProducerState
      /\ mid.highContiguous = old.highContiguous
      /\ mid.window = old.window
      /\ mid.lastReportedLost = old.lastReportedLost
  BY ArriveFields, Zenon
<1>6. /\ new \in ProducerState
      /\ new.pendingLost = P
      /\ new.confirmedLost = c
      /\ new.highContiguous = old.highContiguous
      /\ new.window = old.window
      /\ new.lastReportedLost = old.lastReportedLost
  <2> HIDE DEF mid
  <2>1. new = [mid EXCEPT !.pendingLost = P, !.confirmedLost = c]
    BY Zenon DEF mid, Recovered
  <2> HIDE DEF P, c, new
  <2>2. QED BY <1>2, <1>4, <1>5, <2>1, ZenonT(30) DEF ProducerState
<1>7. Accounts(new, b, arr \cup {seq}, edg, skp)
  BY <1>1, <1>6, WAssumption DEF Accounts
<1>8. QED BY <1>4, <1>6, <1>7, Zenon DEF Accounts

(* A duplicate: a sequence behind the watermark that is not pending, or one *)
(* that has its bit set.                                                    *)
LEMMA DuplicateAccounts ==
    ASSUME NEW old \in ProducerState, NEW b \in Nat, NEW seq \in Nat,
           NEW arr \in SUBSET Nat, NEW edg \in SUBSET Nat, NEW skp \in SUBSET Nat,
           Accounts(old, b, arr, edg, skp), 0 \notin old.window,
           \/ seq <= old.highContiguous /\ seq \notin old.pendingLost
           \/ seq > old.highContiguous /\ getBit(old.window, Offset(old, seq))
    PROVE  /\ Duplicated(old, seq) \in ProducerState
           /\ Accounts(Duplicated(old, seq), b, arr \cup {seq}, edg, skp)
           /\ 0 \notin Duplicated(old, seq).window
           /\ Duplicated(old, seq).highContiguous = old.highContiguous
           /\ Duplicated(old, seq).lastReportedLost = old.lastReportedLost
           /\ Duplicated(old, seq).confirmedLost = old.confirmedLost
<1> DEFINE new == Duplicated(old, seq)
           mid == Arrive(old, seq)
           d == mid.duplicates + 1
<1>1. old.pendingLost \in SUBSET Nat /\ old.highContiguous \in Nat
  BY StateFields, Zenon DEF SeqSets
<1>2. /\ mid \in ProducerState
      /\ mid.highContiguous = old.highContiguous
      /\ mid.window = old.window
      /\ mid.pendingLost = old.pendingLost
      /\ mid.confirmedLost = old.confirmedLost
      /\ mid.lastReportedLost = old.lastReportedLost
  BY ArriveFields, Zenon
<1>3. d \in Nat
  <2> HIDE DEF mid
  <2>1. QED BY <1>2 DEF ProducerState
<1>4. /\ new \in ProducerState
      /\ new.highContiguous = old.highContiguous
      /\ new.window = old.window
      /\ new.pendingLost = old.pendingLost
      /\ new.confirmedLost = old.confirmedLost
      /\ new.lastReportedLost = old.lastReportedLost
  <2> HIDE DEF mid
  <2>1. new = [mid EXCEPT !.duplicates = d]
    BY Zenon DEF mid, Duplicated
  <2> HIDE DEF d, new
  <2>2. QED BY <1>2, <1>3, <2>1, Zenon DEF ProducerState
<1>5. CASE seq <= old.highContiguous /\ seq \notin old.pendingLost
  BY <1>1, <1>4, <1>5, WAssumption DEF Accounts
<1>6. CASE seq > old.highContiguous /\ getBit(old.window, Offset(old, seq))
  <2>1. old.highContiguous + 1 + Offset(old, seq) = seq
    BY <1>1 DEF Offset
  <2>2. seq \in arr
    BY <1>6, <2>1, Zenon DEF Accounts, getBit
  <2>3. arr \cup {seq} = arr
    BY <2>2, Zenon
  <2>4. QED BY <1>4, <2>3, Zenon DEF Accounts
<1>7. QED BY <1>5, <1>6, Zenon

(* An unseen sequence inside the window gets its bit. *)
LEMMA InWindowAccounts ==
    ASSUME NEW old \in ProducerState, NEW b \in Nat, NEW seq \in Nat,
           NEW arr \in SUBSET Nat, NEW edg \in SUBSET Nat, NEW skp \in SUBSET Nat,
           Accounts(old, b, arr, edg, skp),
           seq > old.highContiguous, Offset(old, seq) < W
    PROVE  /\ Marked(old, seq) \in ProducerState
           /\ Accounts(Marked(old, seq), b, arr \cup {seq}, edg, skp)
           /\ 0 \notin Marked(old, seq).window
           /\ Marked(old, seq).highContiguous >= old.highContiguous
           /\ Marked(old, seq).lastReportedLost = old.lastReportedLost
           /\ Marked(old, seq).confirmedLost = old.confirmedLost
<1> DEFINE new == Marked(old, seq)
           ps == Arrive(old, seq)
           w == old.window \cup {seq - old.highContiguous - 1}
           mid == [ps EXCEPT !.window = w]
<1>1. /\ old.pendingLost \in SUBSET Nat
      /\ old.highContiguous \in Nat
      /\ old.window \in Windows
  BY StateFields, Zenon DEF SeqSets
<1>2. /\ ps \in ProducerState
      /\ ps.highContiguous = old.highContiguous
      /\ ps.window = old.window
      /\ ps.pendingLost = old.pendingLost
      /\ ps.confirmedLost = old.confirmedLost
      /\ ps.lastReportedLost = old.lastReportedLost
  BY ArriveFields, Zenon
<1> HIDE DEF ps
<1>3. w \in Windows
  BY <1>1, WAssumption DEF Windows, Offset
<1>4. new = advanceContiguous(mid)
  <2>1. setBit(ps.window, Offset(ps, seq)) = w
    BY <1>2, Zenon DEF setBit, Offset
  <2>2. [ps EXCEPT !.window = setBit(@, Offset(ps, seq))] = mid
    BY <2>1, Zenon
  <2>3. QED BY <2>2, Zenon DEF Marked, ps
<1>5. /\ mid \in ProducerState
      /\ mid.highContiguous = old.highContiguous
      /\ mid.window = w
      /\ mid.pendingLost = old.pendingLost
      /\ mid.confirmedLost = old.confirmedLost
      /\ mid.lastReportedLost = old.lastReportedLost
  <2> HIDE DEF w
  <2>1. QED BY <1>2, <1>3, Zenon DEF ProducerState
<1>6. Accounts(mid, b, arr \cup {seq}, edg, skp)
  <2> DEFINE h == old.highContiguous
             A == arr \cup {seq}
  <2>1. \A i \in w : h + 1 + i \in A
    <3>1. SUFFICES ASSUME NEW i \in w, i \notin old.window PROVE h + 1 + i = seq
      BY Zenon DEF Accounts
    <3>2. QED BY <1>1, <3>1
  <2>2. \A s \in A \ edg : s > h => s - h - 1 \in w
    BY Zenon DEF Accounts
  <2>3. \A s \in A : s <= h + W + 1
    BY <1>1, WAssumption DEF Accounts, Offset
  <2>4. \A s \in old.pendingLost : b <= s /\ s <= h /\ (s \notin A \/ s \in edg)
    BY <1>1 DEF Accounts
  <2>5. /\ b <= h
        /\ \A s \in b .. h : s \in A \/ s \in skp \/ s \in old.pendingLost
        /\ old.confirmedLost = Cardinality(old.pendingLost)
    BY Zenon DEF Accounts
  <2> HIDE DEF w, A, mid
  <2>6. QED BY <1>5, <2>1, <2>2, <2>3, <2>4, <2>5 DEF Accounts, A
<1>7. SeenRun(w) \in Nat
  BY <1>3, SeenRunIsLeadingRun, WAssumption
<1>8. /\ new \in ProducerState
      /\ new.highContiguous = old.highContiguous + SeenRun(w)
      /\ new.lastReportedLost = old.lastReportedLost
      /\ new.confirmedLost = old.confirmedLost
  <2> HIDE DEF w, mid
  <2>1. QED BY <1>4, <1>5, AdvanceFields
<1>9. Accounts(new, b, arr \cup {seq}, edg, skp) /\ 0 \notin new.window
  <2> HIDE DEF w, mid
  <2>1. arr \cup {seq} \in SUBSET Nat
    BY Zenon
  <2>2. QED BY <1>4, <1>5, <1>6, <2>1, AdvanceAccounts
<1>10. QED BY <1>1, <1>7, <1>8, <1>9

(* The state slideWindow reaches before it advances, when it does slide. *)
Slid(ps, seq) ==
    [ps EXCEPT !.pendingLost = @ \cup Evicted(ps, seq),
               !.confirmedLost = Cardinality(ps.pendingLost \cup Evicted(ps, seq)),
               !.window = shiftLeft(@, SlideDist(ps, seq)),
               !.highContiguous = NewHigh(seq)]

(* A slide moves the window by one position at least and by W at most; when *)
(* the cap does not bite it is the way to the new watermark.                *)
LEMMA SlideDistRange ==
    ASSUME NEW ps \in ProducerState, NEW seq \in Nat, NewHigh(seq) > ps.highContiguous
    PROVE  /\ SlideDist(ps, seq) \in 1 .. W
           /\ SlideDist(ps, seq) <= NewHigh(seq) - ps.highContiguous
           /\ SlideDist(ps, seq) # W => SlideDist(ps, seq) = NewHigh(seq) - ps.highContiguous
           /\ NewHigh(seq) \in Nat
           /\ NewHigh(seq) = seq - W - 1
BY StateFields, WAssumption DEF SlideDist, NewHigh

(* What a slide makes pending: the unseen sequences it shifts out. *)
LEMMA EvictedMembers ==
    ASSUME NEW ps \in ProducerState, NEW seq \in Nat, NewHigh(seq) > ps.highContiguous
    PROVE  /\ Evicted(ps, seq) \in SUBSET Nat
           /\ \A s \in Nat :
                  s \in Evicted(ps, seq)
                      <=> /\ s > ps.highContiguous
                          /\ s <= ps.highContiguous + SlideDist(ps, seq)
                          /\ s - ps.highContiguous - 1 \notin ps.window
<1> DEFINE h == ps.highContiguous
           d == SlideDist(ps, seq)
           J == {j \in 0 .. d - 1 : j \notin ps.window}
<1>1. h \in Nat /\ d \in Nat
  BY StateFields, SlideDistRange, WAssumption
<1>2. Evicted(ps, seq) = {h + 1 + i : i \in J}
  BY Zenon DEF Evicted, getBit
<1> HIDE DEF h, d
<1>3. ASSUME NEW s \in Nat, s > h, s <= h + d, s - h - 1 \notin ps.window
      PROVE  s \in {h + 1 + i : i \in J}
  <2>1. s - h - 1 \in J
    BY <1>1, <1>3
  <2>2. h + 1 + (s - h - 1) = s
    BY <1>1
  <2>3. QED BY <2>1, <2>2, Zenon
<1>4. ASSUME NEW i \in J
      PROVE  /\ h + 1 + i \in Nat
             /\ h + 1 + i > h
             /\ h + 1 + i <= h + d
             /\ (h + 1 + i) - h - 1 = i
             /\ i \notin ps.window
  BY <1>1
<1> HIDE DEF J
<1>5. ASSUME NEW s \in {h + 1 + i : i \in J}
      PROVE  s \in Nat /\ s > h /\ s <= h + d /\ s - h - 1 \notin ps.window
  BY <1>4
<1>6. QED BY <1>2, <1>3, <1>5, Zenon DEF h, d

(* The slide itself keeps the account: an evicted clear bit is a sequence   *)
(* that did not arrive or forced a slide, and what the cap leaves out is    *)
(* skipped.                                                                 *)
LEMMA SlideAccounts ==
    ASSUME NEW ps \in ProducerState, NEW b \in Nat, NEW seq \in Nat,
           NEW arr \in SUBSET Nat, NEW edg \in SUBSET Nat, NEW skp \in SUBSET Nat,
           Accounts(ps, b, arr, edg, skp), NewHigh(seq) > ps.highContiguous
    PROVE  /\ Slid(ps, seq) \in ProducerState
           /\ Slid(ps, seq).highContiguous = NewHigh(seq)
           /\ Slid(ps, seq).lastReportedLost = ps.lastReportedLost
           /\ Slid(ps, seq).confirmedLost
                  <= ps.confirmedLost + Cardinality(Evicted(ps, seq))
           /\ Cardinality(Evicted(ps, seq)) \in Nat
           /\ Accounts(Slid(ps, seq), b, arr \cup {seq}, edg \cup {seq},
                       skp \cup (ps.highContiguous + W + 1 .. NewHigh(seq)))
<1> DEFINE h == ps.highContiguous
           n == NewHigh(seq)
           d == SlideDist(ps, seq)
           w == ps.window
           E == Evicted(ps, seq)
           old == ps.pendingLost
           P == old \cup E
           c == Cardinality(P)
           nw == shiftLeft(w, d)
           A == arr \cup {seq}
           G == edg \cup {seq}
           K == skp \cup (h + W + 1 .. n)
<1>1. h \in Nat /\ w \in Windows /\ old \in SUBSET Nat
  BY StateFields, Zenon DEF SeqSets
<1>2. /\ d \in 1 .. W
      /\ d <= n - h
      /\ d # W => d = n - h
      /\ n \in Nat
      /\ n = seq - W - 1
      /\ n > h
  BY SlideDistRange, Zenon
<1>3. /\ E \in SUBSET Nat
      /\ \A s \in Nat : s \in E <=> s > h /\ s <= h + d /\ s - h - 1 \notin w
  BY EvictedMembers, Zenon
<1>4. nw \in Windows /\ \A i \in Nat : i \in nw <=> i + d \in w
  <2>1. d \in Nat
    BY <1>2, WAssumption
  <2> HIDE DEF d, w
  <2>2. QED BY <1>1, <2>1, ShiftLeftMembers, Zenon
<1>5. /\ b <= h
      /\ \A s \in arr : s <= h + W + 1
      /\ \A i \in w : h + 1 + i \in arr
      /\ \A s \in arr \ edg : s > h => s - h - 1 \in w
      /\ \A s \in b .. h : s \in arr \/ s \in skp \/ s \in old
      /\ \A s \in old : b <= s /\ s <= h /\ (s \notin arr \/ s \in edg)
      /\ ps.confirmedLost = Cardinality(old)
  BY Zenon DEF Accounts
<1>6. w \subseteq 0 .. W - 1 /\ nw \subseteq 0 .. W - 1
  BY <1>1, <1>4, Zenon DEF Windows
<1> HIDE DEF h, n, d, w, E, old, nw
<1>7. /\ IsFiniteSet(old)
      /\ IsFiniteSet(E)
      /\ P \in SUBSET Nat
      /\ Cardinality(old) \in Nat
      /\ Cardinality(E) \in Nat
  <2>1. \A s \in E : s <= h + d
    BY <1>3, Zenon
  <2>2. h + d \in Nat
    BY <1>1, <1>2, WAssumption
  <2>3. QED BY <1>1, <1>3, <1>5, <2>1, <2>2, PendingFinite, Zenon
<1>8. c \in Nat /\ c <= Cardinality(old) + Cardinality(E)
  <2>1. /\ IsFiniteSet(P)
        /\ c = Cardinality(old) + Cardinality(E) - Cardinality(old \cap E)
    BY <1>7, FS_Union, Zenon
  <2>2. IsFiniteSet(old \cap E)
    BY <1>7, FS_Intersection, Zenon
  <2>3. c \in Nat /\ Cardinality(old \cap E) \in Nat
    BY <2>1, <2>2, FS_CardinalityType, Zenon
  <2>4. QED BY <1>7, <2>1, <2>3
<1>9. /\ Slid(ps, seq) \in ProducerState
      /\ Slid(ps, seq).highContiguous = n
      /\ Slid(ps, seq).window = nw
      /\ Slid(ps, seq).pendingLost = P
      /\ Slid(ps, seq).confirmedLost = c
      /\ Slid(ps, seq).lastReportedLost = ps.lastReportedLost
  <2>1. Slid(ps, seq) = [ps EXCEPT !.pendingLost = P, !.confirmedLost = c,
                                   !.window = nw, !.highContiguous = n]
    BY Zenon DEF Slid, old, E, nw, n, d, w
  <2>2. P \in SeqSets
    BY <1>7, Zenon DEF SeqSets
  <2> HIDE DEF P, c
  <2>3. QED BY <1>2, <1>4, <1>8, <2>1, <2>2, ZenonT(30) DEF ProducerState
<1>10. b <= n /\ \A s \in A : s <= n + W + 1
  BY <1>1, <1>2, <1>5, WAssumption
<1>11. \A i \in nw : n + 1 + i \in A
  <2>1. SUFFICES ASSUME NEW i \in nw PROVE n + 1 + i \in arr
    BY Zenon
  <2>2. i \in Nat /\ i + d \in w
    BY <1>4, <1>6, WAssumption
  <2>3. i + d < W
    BY <1>2, <1>6, <2>2, WAssumption
  <2>4. h + 1 + (i + d) = n + 1 + i
    BY <1>1, <1>2, <2>2, <2>3, WAssumption
  <2>5. QED BY <1>5, <2>2, <2>4, Zenon
<1>12. \A s \in A \ G : s > n => s - n - 1 \in nw
  <2>1. SUFFICES ASSUME NEW s \in arr \ edg, s > n PROVE s - n - 1 \in nw
    BY Zenon
  <2>2. s - h - 1 \in w
    BY <1>1, <1>2, <1>5, <2>1
  <2>3. s - h - 1 < W
    <3>1. \A i \in w : i < W
      BY <1>6, WAssumption
    <3>2. QED BY <2>2, <3>1, Zenon
  <2>4. s - n - 1 \in Nat /\ (s - n - 1) + d = s - h - 1
    BY <1>1, <1>2, <2>1, <2>3, WAssumption
  <2>5. QED BY <1>4, <2>2, <2>4, Zenon
<1>13. \A s \in b .. n : s \in A \/ s \in K \/ s \in P
  <2>1. SUFFICES ASSUME NEW s \in b .. n, s > h PROVE s \in A \/ s \in K \/ s \in P
    BY <1>1, <1>5
  <2>2. CASE s <= h + d
    <3>1. CASE s - h - 1 \in w
      <4>1. h + 1 + (s - h - 1) = s
        BY <1>1, <1>2
      <4>2. QED BY <1>5, <3>1, <4>1, Zenon
    <3>2. CASE s - h - 1 \notin w
      BY <1>2, <1>3, <2>1, <2>2, <3>2
    <3>3. QED BY <3>1, <3>2, Zenon
  <2>3. CASE s > h + d
    BY <1>1, <1>2, <2>1, <2>3, WAssumption
  <2>4. QED BY <1>1, <1>2, <2>2, <2>3, WAssumption
<1>14. \A s \in P : b <= s /\ s <= n /\ (s \notin A \/ s \in G)
  <2>1. ASSUME NEW s \in old
        PROVE  b <= s /\ s <= n /\ (s \notin A \/ s \in G)
    BY <1>1, <1>2, <1>5
  <2>2. ASSUME NEW s \in E
        PROVE  b <= s /\ s <= n /\ (s \notin A \/ s \in G)
    <3>1. s \in Nat /\ s > h /\ s <= h + d /\ s - h - 1 \notin w
      BY <1>3, Zenon
    <3>2. b <= s /\ s <= n /\ s # seq
      BY <1>1, <1>2, <1>5, <3>1, WAssumption
    <3>3. s \notin arr \/ s \in edg
      BY <1>5, <3>1, Zenon
    <3>4. QED BY <3>2, <3>3, Zenon
  <2>3. QED BY <2>1, <2>2, Zenon
<1>15. Accounts(Slid(ps, seq), b, A, G, K)
  <2> HIDE DEF P, A, G, K, c
  <2>1. QED BY <1>9, <1>10, <1>11, <1>12, <1>13, <1>14, Zenon DEF Accounts, c
<1>16. QED BY <1>5, <1>7, <1>8, <1>9, <1>15, Zenon DEF h, n, E

(* An arrival W or more past the watermark. *)
LEMMA BeyondAccounts ==
    ASSUME NEW old \in ProducerState, NEW b \in Nat, NEW seq \in Nat,
           NEW arr \in SUBSET Nat, NEW edg \in SUBSET Nat, NEW skp \in SUBSET Nat,
           Accounts(old, b, arr, edg, skp), 0 \notin old.window,
           seq > old.highContiguous, Offset(old, seq) >= W,
           NEW new, new = slideWindow(Arrive(old, seq), seq)
    PROVE  /\ new \in ProducerState
           /\ Accounts(new, b, arr \cup {seq}, edg \cup {seq},
                       skp \cup (old.highContiguous + W + 1 .. NewHigh(seq)))
           /\ 0 \notin new.window
           /\ new.highContiguous >= old.highContiguous
           /\ new.lastReportedLost = old.lastReportedLost
           /\ Cardinality(Evicted(old, seq)) \in Nat
           /\ new.confirmedLost <= old.confirmedLost + Cardinality(Evicted(old, seq))
<1> DEFINE ps == Arrive(old, seq)
           h == old.highContiguous
<1>1. h \in Nat /\ old.confirmedLost \in Nat /\ old.pendingLost \in SUBSET Nat
  BY StateFields, Zenon DEF SeqSets
<1>2. /\ ps \in ProducerState
      /\ ps.highContiguous = h
      /\ ps.window = old.window
      /\ ps.pendingLost = old.pendingLost
      /\ ps.confirmedLost = old.confirmedLost
      /\ ps.lastReportedLost = old.lastReportedLost
  BY ArriveFields, Zenon
<1>3. Accounts(ps, b, arr, edg, skp)
  <2> HIDE DEF ps
  <2>1. QED BY <1>2, Zenon DEF Accounts
<1>4. Evicted(old, seq) = Evicted(ps, seq)
  <2> HIDE DEF ps
  <2>1. QED BY <1>2, Zenon DEF Evicted, SlideDist
<1>5. new = slideWindow(ps, seq)
  BY Zenon
<1> HIDE DEF ps
<1>6. NewHigh(seq) = seq - W - 1 /\ NewHigh(seq) \in Int
  BY WAssumption DEF NewHigh
<1>7. CASE NewHigh(seq) <= h
  <2>1. seq = h + W + 1 /\ NewHigh(seq) = h
    BY <1>1, <1>6, <1>7, WAssumption DEF Offset
  <2>2. new = ps
    <3>1. Offset(ps, seq) = W
      BY <1>1, <1>2, <2>1, WAssumption DEF Offset
    <3>2. SetIfInWindow(ps, seq) = ps
      BY <3>1, WAssumption DEF SetIfInWindow
    <3>3. QED BY <1>2, <1>5, <1>7, <3>2, Zenon DEF slideWindow
  <2>3. Evicted(ps, seq) = {}
    <3>1. SlideDist(ps, seq) = 0
      BY <1>1, <1>2, <2>1, WAssumption DEF SlideDist
    <3>2. QED BY <3>1 DEF Evicted
  <2>4. Cardinality(Evicted(old, seq)) = 0
    BY <1>4, <2>3, FS_EmptySet, Zenon
  <2>5. h + W + 1 .. NewHigh(seq) = {}
    BY <1>1, <2>1, WAssumption
  <2>6. Accounts(ps, b, arr \cup {seq}, edg \cup {seq},
                 skp \cup (h + W + 1 .. NewHigh(seq)))
    <3>1. \A s \in arr \cup {seq} : s <= h + W + 1
      BY <1>1, <1>2, <1>3, <2>1, WAssumption DEF Accounts
    <3>2. \A s \in (arr \cup {seq}) \ (edg \cup {seq}) : s \in arr \ edg
      BY Zenon
    <3>3. \A s \in old.pendingLost : s # seq
      BY <1>1, <1>2, <1>3, <2>1, WAssumption DEF Accounts
    <3>4. QED BY <1>2, <1>3, <2>5, <3>1, <3>2, <3>3, Zenon DEF Accounts
  <2>7. QED BY <1>1, <1>2, <2>2, <2>4, <2>6
<1>8. CASE NewHigh(seq) > h
  <2> DEFINE mid == Slid(ps, seq)
             A == arr \cup {seq}
             G == edg \cup {seq}
             K == skp \cup (h + W + 1 .. NewHigh(seq))
  <2>1. /\ mid \in ProducerState
        /\ mid.highContiguous = NewHigh(seq)
        /\ mid.lastReportedLost = ps.lastReportedLost
        /\ mid.confirmedLost <= ps.confirmedLost + Cardinality(Evicted(ps, seq))
        /\ Cardinality(Evicted(ps, seq)) \in Nat
        /\ Accounts(mid, b, A, G, K)
    BY <1>2, <1>3, <1>8, SlideAccounts, ZenonT(30)
  <2> HIDE DEF mid
  <2>2. SetIfInWindow(mid, seq) = mid
    <3>1. Offset(mid, seq) = W
      BY <1>6, <2>1, WAssumption DEF Offset
    <3>2. QED BY <3>1, WAssumption DEF SetIfInWindow
  <2>3. new = advanceContiguous(mid)
    <3>1. ~ (NewHigh(seq) <= ps.highContiguous)
      BY <1>1, <1>2, <1>6, <1>8
    <3>2. slideWindow(ps, seq) = advanceContiguous(SetIfInWindow(mid, seq))
      BY <3>1, Zenon DEF slideWindow, mid, Slid
    <3>3. QED BY <1>5, <2>2, <3>2, Zenon
  <2>4. A \in SUBSET Nat /\ G \in SUBSET Nat /\ K \in SUBSET Nat
    <3>1. (h + W + 1 .. NewHigh(seq)) \subseteq Nat
      BY <1>1, <1>6, WAssumption
    <3>2. QED BY <3>1, Zenon
  <2> HIDE DEF A, G, K
  <2>5. Accounts(new, b, A, G, K) /\ 0 \notin new.window
    BY <2>1, <2>3, <2>4, AdvanceAccounts
  <2>6. SeenRun(mid.window) \in Nat
    <3>1. mid.window \in Windows
      BY <2>1, StateFields, Zenon
    <3>2. QED BY <3>1, SeenRunIsLeadingRun, WAssumption
  <2>7. /\ new \in ProducerState
        /\ new.highContiguous = NewHigh(seq) + SeenRun(mid.window)
        /\ new.lastReportedLost = old.lastReportedLost
        /\ new.confirmedLost = mid.confirmedLost
    BY <1>2, <2>1, <2>3, AdvanceFields
  <2>8. new.highContiguous >= h
    BY <1>1, <1>6, <1>8, <2>6, <2>7
  <2>9. QED BY <1>2, <1>4, <2>1, <2>5, <2>7, <2>8, Zenon DEF A, G, K
<1>9. QED BY <1>1, <1>6, <1>7, <1>8

-----------------------------------------------------------------------------

(* The live metric, for a producer with state ps: what DetectGaps has still *)
(* to add fits between the metric and the suspicions counted so far.        *)
Metered(ps, metric, suspicions) ==
    /\ ps.lastReportedLost <= metric
    /\ metric + (ps.confirmedLost - ps.lastReportedLost) <= suspicions

(* The inductive invariant. *)
TrackerInv ==
    /\ TypeOK
    /\ \A p \in Known :
           /\ Accounts(producers[p], base[p], arrived[p], edge[p], skipped[p])
           /\ 0 \notin producers[p].window
           /\ Metered(producers[p], lostMetric[p], suspected[p])
    /\ \A p \in Producers \ Known : arrived[p] = {}
    /\ \A p \in Producers : lostMetric[p] <= suspected[p]

(* The invariant holds of a new tracker. *)
LEMMA InitInv == AuditInit => TrackerInv
<1> SUFFICES ASSUME AuditInit PROVE TrackerInv
  BY Zenon
<1>1. Known = {}
  BY Zenon DEF AuditInit, Init, Known
<1>2. TypeOK
  BY <1>1, BoundsAssumption DEF TypeOK, AuditInit, Init
<1>3. QED BY <1>1, <1>2 DEF TrackerInv, AuditInit

(* What Record does to the producer it is called for. *)
LEMMA RecordedProducer ==
    ASSUME TrackerInv, NEW p \in Producers, NEW seq \in Seqs, AuditRecord(p, seq),
           NEW new, Put(p, new)
    PROVE  /\ new \in ProducerState
           /\ Accounts(new, base'[p], arrived'[p], edge'[p], skipped'[p])
           /\ 0 \notin new.window
           /\ Metered(new, lostMetric[p], suspected'[p])
           /\ suspected'[p] \in Nat
           /\ suspected'[p] >= suspected[p]
           /\ skipped'[p] \in SUBSET Nat
           /\ p \in Known => new.highContiguous >= producers[p].highContiguous
<1> DEFINE old == producers[p]
           b == base[p]
           arr == arrived[p]
           edg == edge[p]
           skp == skipped[p]
           m == lostMetric[p]
           sus == suspected[p]
           newBase == base'[p]
           newArr == arrived'[p]
           newEdg == edge'[p]
           newSkp == skipped'[p]
           newSus == suspected'[p]
<1>1. /\ seq \in Nat
      /\ b \in Nat
      /\ arr \in SUBSET Nat
      /\ edg \in SUBSET Nat
      /\ skp \in SUBSET Nat
      /\ m \in Nat
      /\ sus \in Nat
      /\ m <= sus
  BY SeqsAssumption, Zenon DEF TrackerInv, TypeOK
<1>2. /\ newArr = arr \cup {seq}
      /\ newBase = (IF p \in Known THEN b ELSE seq)
      /\ newEdg = (IF Beyond(p, seq) THEN edg \cup {seq} ELSE edg)
      /\ newSkp = (IF Beyond(p, seq) THEN skp \cup Uninspected(p, seq) ELSE skp)
      /\ newSus = (IF Beyond(p, seq)
                          THEN sus + Cardinality(Evicted(old, seq)) ELSE sus)
  BY Zenon DEF AuditRecord, TrackerInv, TypeOK
<1>3. ASSUME ~Beyond(p, seq)
      PROVE  /\ newEdg = edg
             /\ newSkp = skp
             /\ newSus = sus
             /\ newSus \in Nat
             /\ newSus >= sus
             /\ newSkp \in SUBSET Nat
  <2>1. newEdg = edg /\ newSkp = skp /\ newSus = sus
    BY <1>2, <1>3, Zenon
  <2>2. sus \in Nat /\ skp \in SUBSET Nat
    BY <1>1, Zenon
  <2> HIDE DEF skp
  <2>3. QED BY <2>1, <2>2
<1>4. ASSUME NEW ps, Put(p, ps) PROVE ps = new
  <2>1. producers'[p] = ps /\ producers'[p] = new
    BY <1>4, Zenon DEF Put
  <2>2. QED BY <2>1, Zenon
<1>5. ASSUME p \in Known
      PROVE  /\ old \in ProducerState
             /\ Accounts(old, b, arr, edg, skp)
             /\ 0 \notin old.window
             /\ Metered(old, m, sus)
             /\ newBase = b
             /\ old.highContiguous \in Nat
             /\ old.confirmedLost \in Nat
             /\ old.lastReportedLost \in Nat
  BY <1>2, <1>5, StateFields, Zenon DEF TrackerInv, TypeOK
<1> SUFFICES /\ new \in ProducerState
             /\ Accounts(new, newBase, newArr, newEdg, newSkp)
             /\ 0 \notin new.window
             /\ Metered(new, m, newSus)
             /\ newSus \in Nat
             /\ newSus >= sus
             /\ newSkp \in SUBSET Nat
             /\ p \in Known => new.highContiguous >= old.highContiguous
  BY Zenon
<1> HIDE DEF old, b, arr, edg, skp, m, sus, newBase, newArr, newEdg, newSkp, newSus
<1>6. CASE RecordFirst(p, seq)
  <2>1. p \notin Known /\ new = NewProducer(seq)
    BY <1>4, <1>6, Zenon DEF RecordFirst
  <2>2. arr = {} /\ ~Beyond(p, seq)
    BY <2>1, Zenon DEF TrackerInv, Beyond, arr
  <2>3. new = [highContiguous |-> seq, window |-> {}, received |-> 1, duplicates |-> 0,
               outOfOrder |-> 0, confirmedLost |-> 0, pendingLost |-> {},
               lastReportedLost |-> 0, lastSeen |-> seq]
    BY <1>1, <2>1, NewProducerFields, Zenon
  <2>4. new \in ProducerState
    BY <1>1, <2>3, Zenon DEF ProducerState, Windows, SeqSets
  <2>5. Accounts(new, seq, {seq}, edg, skp)
    BY <1>1, <2>3, FS_EmptySet, WAssumption DEF Accounts
  <2>6. Metered(new, m, sus)
    BY <1>1, <2>3 DEF Metered
  <2>7. newBase = seq /\ newArr = {seq} /\ new.window = {}
    BY <1>2, <2>1, <2>2, <2>3
  <2>8. Accounts(new, newBase, newArr, newEdg, newSkp)
    BY <1>3, <2>2, <2>5, <2>7, Zenon
  <2>9. Metered(new, m, newSus)
    BY <1>3, <2>2, <2>6, Zenon
  <2>10. QED BY <1>3, <2>1, <2>2, <2>4, <2>7, <2>8, <2>9, Zenon
<1>7. CASE RecordRecovered(p, seq)
  <2>1. /\ p \in Known
        /\ seq <= old.highContiguous
        /\ new = Recovered(old, seq)
    BY <1>4, <1>7, Zenon DEF RecordRecovered, CanRecord, Recovered, old
  <2>2. /\ new \in ProducerState
        /\ Accounts(new, b, arr \cup {seq}, edg, skp)
        /\ 0 \notin new.window
        /\ new.highContiguous = old.highContiguous
        /\ new.lastReportedLost = old.lastReportedLost
        /\ new.confirmedLost <= old.confirmedLost
    <3>1. /\ old \in ProducerState
          /\ Accounts(old, b, arr, edg, skp)
          /\ 0 \notin old.window
      BY <1>5, <2>1, Zenon
    <3>2. QED BY <1>1, <2>1, <3>1, RecoverAccounts, Zenon
  <2>3. old.highContiguous \in Nat /\ ~Beyond(p, seq)
    BY <1>1, <1>5, <2>1, StateFields DEF Beyond, old
  <2>4. Metered(new, m, sus)
    <3>1. new.confirmedLost \in Nat
      BY <2>2, StateFields, Zenon
    <3>2. QED BY <1>1, <1>5, <2>1, <2>2, <3>1 DEF Metered
  <2>5. Accounts(new, newBase, newArr, newEdg, newSkp)
    BY <1>2, <1>3, <1>5, <2>1, <2>2, <2>3, Zenon
  <2>6. Metered(new, m, newSus)
    BY <1>3, <2>3, <2>4, Zenon
  <2>7. new.highContiguous >= old.highContiguous
    BY <1>5, <2>1, <2>2
  <2>8. QED BY <1>3, <2>2, <2>3, <2>5, <2>6, <2>7, Zenon
<1>8. CASE RecordDuplicate(p, seq)
  <2>1. /\ p \in Known
        /\ \/ seq <= old.highContiguous /\ seq \notin old.pendingLost
           \/ seq > old.highContiguous /\ getBit(old.window, Offset(old, seq))
        /\ new = Duplicated(old, seq)
    BY <1>4, <1>8, Zenon DEF RecordDuplicate, CanRecord, Duplicated, old
  <2>2. /\ new \in ProducerState
        /\ Accounts(new, b, arr \cup {seq}, edg, skp)
        /\ 0 \notin new.window
        /\ new.highContiguous = old.highContiguous
        /\ new.lastReportedLost = old.lastReportedLost
        /\ new.confirmedLost = old.confirmedLost
    <3>1. /\ old \in ProducerState
          /\ Accounts(old, b, arr, edg, skp)
          /\ 0 \notin old.window
      BY <1>5, <2>1, Zenon
    <3>2. QED BY <1>1, <2>1, <3>1, DuplicateAccounts, ZenonT(30)
  <2>3. old.highContiguous \in Nat
    BY <1>5, <2>1, StateFields, Zenon
  <2>4. ~Beyond(p, seq)
    BY <1>1, <1>8, <2>3, WAssumption DEF Beyond, RecordDuplicate, Offset, old
  <2>5. Metered(new, m, sus)
    BY <1>5, <2>1, <2>2, Zenon DEF Metered
  <2>6. Accounts(new, newBase, newArr, newEdg, newSkp)
    BY <1>2, <1>3, <1>5, <2>1, <2>2, <2>4, Zenon
  <2>7. Metered(new, m, newSus)
    BY <1>3, <2>4, <2>5, Zenon
  <2>8. new.highContiguous >= old.highContiguous
    BY <1>5, <2>1, <2>2
  <2>9. QED BY <1>3, <2>2, <2>4, <2>6, <2>7, <2>8, Zenon
<1>9. CASE RecordInWindow(p, seq)
  <2>1. /\ p \in Known
        /\ seq > old.highContiguous
        /\ Offset(old, seq) < W
        /\ new = Marked(old, seq)
    BY <1>4, <1>9, Zenon DEF RecordInWindow, CanRecord, Marked, old
  <2>2. /\ new \in ProducerState
        /\ Accounts(new, b, arr \cup {seq}, edg, skp)
        /\ 0 \notin new.window
        /\ new.highContiguous >= old.highContiguous
        /\ new.lastReportedLost = old.lastReportedLost
        /\ new.confirmedLost = old.confirmedLost
    <3>1. /\ old \in ProducerState
          /\ Accounts(old, b, arr, edg, skp)
          /\ 0 \notin old.window
      BY <1>5, <2>1, Zenon
    <3>2. QED BY <1>1, <2>1, <3>1, InWindowAccounts, ZenonT(30)
  <2>3. old.highContiguous \in Nat
    BY <1>5, <2>1, StateFields, Zenon
  <2>4. ~Beyond(p, seq)
    BY <1>1, <2>1, <2>3, WAssumption DEF Beyond, Offset, old
  <2>5. Metered(new, m, sus)
    BY <1>5, <2>1, <2>2, Zenon DEF Metered
  <2>6. Accounts(new, newBase, newArr, newEdg, newSkp)
    BY <1>2, <1>3, <1>5, <2>1, <2>2, <2>4
  <2>7. Metered(new, m, newSus)
    BY <1>3, <2>4, <2>5, Zenon
  <2>8. new.highContiguous >= old.highContiguous
    BY <1>5, <2>1, <2>2, Zenon
  <2>9. QED BY <1>3, <2>2, <2>4, <2>6, <2>7, <2>8
<1>10. CASE RecordBeyondWindow(p, seq)
  <2> DEFINE e == Cardinality(Evicted(old, seq))
             K == skp \cup (old.highContiguous + W + 1 .. NewHigh(seq))
  <2>1. /\ p \in Known
        /\ seq > old.highContiguous
        /\ Offset(old, seq) >= W
        /\ new = slideWindow(Arrive(old, seq), seq)
    BY <1>4, <1>10, Zenon DEF RecordBeyondWindow, CanRecord, old
  <2>2. /\ new \in ProducerState
        /\ Accounts(new, b, arr \cup {seq}, edg \cup {seq}, K)
        /\ 0 \notin new.window
        /\ new.highContiguous >= old.highContiguous
        /\ new.lastReportedLost = old.lastReportedLost
        /\ e \in Nat
        /\ new.confirmedLost <= old.confirmedLost + e
    <3>1. /\ old \in ProducerState
          /\ Accounts(old, b, arr, edg, skp)
          /\ 0 \notin old.window
      BY <1>5, <2>1, Zenon
    <3>2. QED BY <1>1, <2>1, <3>1, BeyondAccounts, ZenonT(30)
  <2>3. /\ Beyond(p, seq)
        /\ newEdg = edg \cup {seq}
        /\ newSkp = K
        /\ newSus = sus + e
    BY <1>2, <2>1, Zenon DEF Beyond, Uninspected, old
  <2>4. K \in SUBSET Nat
    <3>1. old.highContiguous \in Nat /\ NewHigh(seq) \in Int
      BY <1>1, <1>5, <2>1, StateFields, WAssumption DEF NewHigh
    <3>2. (old.highContiguous + W + 1 .. NewHigh(seq)) \subseteq Nat
      BY <3>1, WAssumption
    <3>3. QED BY <1>1, <3>2, Zenon
  <2>5. /\ new.confirmedLost \in Nat
        /\ old.confirmedLost \in Nat
        /\ old.lastReportedLost \in Nat
    BY <1>5, <2>1, <2>2, StateFields, Zenon
  <2>6. Metered(new, m, sus + e)
    <3>1. /\ old.lastReportedLost <= m
          /\ m + (old.confirmedLost - old.lastReportedLost) <= sus
      BY <1>5, <2>1, Zenon DEF Metered
    <3>2. /\ m \in Nat
          /\ sus \in Nat
          /\ e \in Nat
          /\ new.confirmedLost <= old.confirmedLost + e
          /\ new.lastReportedLost = old.lastReportedLost
      BY <1>1, <2>2, Zenon
    <3> HIDE DEF e
    <3>3. m + (new.confirmedLost - new.lastReportedLost) <= sus + e
      BY <2>5, <3>1, <3>2
    <3>4. QED BY <3>1, <3>2, <3>3, Zenon DEF Metered
  <2> HIDE DEF K, e
  <2>7. newSus \in Nat /\ newSus >= sus
    <3>1. sus \in Nat /\ e \in Nat
      BY <1>1, <2>2, Zenon
    <3>2. QED BY <2>3, <3>1
  <2>8. Accounts(new, newBase, newArr, newEdg, newSkp)
    BY <1>2, <1>5, <2>1, <2>2, <2>3, ZenonT(30)
  <2>9. QED BY <2>1, <2>2, <2>3, <2>4, <2>6, <2>7, <2>8
<1>11. QED
  BY <1>6, <1>7, <1>8, <1>9, <1>10 DEF AuditRecord, Record

(* Every way out of Record replaces one producer state. *)
LEMMA RecordPuts ==
    ASSUME NEW p, NEW seq, Record(p, seq)
    PROVE  /\ \E new : Put(p, new)
           /\ resets' = resets
<1>1. RecordFirst(p, seq) => \E new : Put(p, new)
  BY Zenon DEF RecordFirst
<1>2. RecordRecovered(p, seq) => \E new : Put(p, new)
  BY Zenon DEF RecordRecovered
<1>3. RecordDuplicate(p, seq) => \E new : Put(p, new)
  BY Zenon DEF RecordDuplicate
<1>4. RecordInWindow(p, seq) => \E new : Put(p, new)
  BY Zenon DEF RecordInWindow
<1>5. RecordBeyondWindow(p, seq) => \E new : Put(p, new)
  BY Zenon DEF RecordBeyondWindow
<1>6. QED
  BY <1>1, <1>2, <1>3, <1>4, <1>5, Zenon
  DEF Record, RecordFirst, RecordRecovered, RecordDuplicate, RecordInWindow, RecordBeyondWindow

(* Record preserves the invariant. *)
LEMMA RecordInv ==
    ASSUME TrackerInv, NEW p \in Producers, NEW seq \in Seqs, AuditRecord(p, seq)
    PROVE  TrackerInv'
<1>1. PICK new : Put(p, new)
  BY RecordPuts, Zenon DEF AuditRecord
<1>2. /\ Known' = Known \cup {p}
      /\ producers'[p] = new
      /\ \A q \in Known : q # p => producers'[q] = producers[q]
  BY <1>1, Zenon DEF Put, Known
<1>3. /\ new \in ProducerState
      /\ Accounts(new, base'[p], arrived'[p], edge'[p], skipped'[p])
      /\ 0 \notin new.window
      /\ Metered(new, lostMetric[p], suspected'[p])
      /\ suspected'[p] \in Nat
      /\ suspected'[p] >= suspected[p]
      /\ skipped'[p] \in SUBSET Nat
  BY <1>1, RecordedProducer, Zenon
<1>4. resets' = resets /\ lostMetric' = lostMetric
  BY RecordPuts, Zenon DEF AuditRecord
<1>5. \A q \in Producers : q # p => /\ arrived'[q] = arrived[q]
                                    /\ base'[q] = base[q]
                                    /\ edge'[q] = edge[q]
                                    /\ skipped'[q] = skipped[q]
                                    /\ suspected'[q] = suspected[q]
  BY Zenon DEF AuditRecord, TrackerInv, TypeOK
<1>6. Known' \subseteq Producers /\ \A q \in Known' : producers'[q] \in ProducerState
  BY <1>2, <1>3, Zenon DEF TrackerInv, TypeOK
<1>7. TypeOK'
  <2>1. seq \in Nat
    BY SeqsAssumption, Zenon
  <2>2. /\ arrived' \in [Producers -> SUBSET Seqs]
        /\ edge' \in [Producers -> SUBSET Seqs]
    BY Zenon DEF AuditRecord, TrackerInv, TypeOK
  <2>3. base' \in [Producers -> Nat]
    BY <2>1, Zenon DEF AuditRecord, TrackerInv, TypeOK
  <2>4. skipped' \in [Producers -> SUBSET Nat]
    <3>1. \A q \in Producers : skipped'[q] \in SUBSET Nat
      BY <1>3, <1>5, Zenon DEF TrackerInv, TypeOK
    <3>2. skipped' = [q \in Producers |-> skipped'[q]]
      BY Zenon DEF AuditRecord, TrackerInv, TypeOK
    <3>3. QED BY <3>1, <3>2, Zenon
  <2>5. suspected' \in [Producers -> Nat]
    <3>1. \A q \in Producers : suspected'[q] \in Nat
      BY <1>3, <1>5, Zenon DEF TrackerInv, TypeOK
    <3>2. suspected' = [q \in Producers |-> suspected'[q]]
      BY Zenon DEF AuditRecord, TrackerInv, TypeOK
    <3>3. QED BY <3>1, <3>2, Zenon
  <2>6. resets' \in 0 .. MaxResets /\ lostMetric' \in [Producers -> Nat]
    BY <1>4, Zenon DEF TrackerInv, TypeOK
  <2>7. QED BY <1>6, <2>2, <2>3, <2>4, <2>5, <2>6, Zenon DEF TypeOK
<1>8. ASSUME NEW q \in Known'
      PROVE  /\ Accounts(producers'[q], base'[q], arrived'[q], edge'[q], skipped'[q])
             /\ 0 \notin producers'[q].window
             /\ Metered(producers'[q], lostMetric'[q], suspected'[q])
  <2>1. CASE q = p
    BY <1>2, <1>3, <1>4, <2>1, Zenon
  <2>2. CASE q # p
    <3>1. q \in Known /\ q \in Producers
      BY <1>2, <2>2, Zenon DEF TrackerInv, TypeOK
    <3>2. /\ producers'[q] = producers[q]
          /\ arrived'[q] = arrived[q]
          /\ base'[q] = base[q]
          /\ edge'[q] = edge[q]
          /\ skipped'[q] = skipped[q]
          /\ suspected'[q] = suspected[q]
          /\ lostMetric'[q] = lostMetric[q]
      BY <1>2, <1>4, <1>5, <2>2, <3>1, Zenon
    <3>3. QED BY <3>1, <3>2, Zenon DEF TrackerInv
  <2>3. QED BY <2>1, <2>2, Zenon
<1>9. \A q \in Producers \ Known' : arrived'[q] = {}
  BY <1>2, <1>5, Zenon DEF TrackerInv
<1>10. \A q \in Producers : lostMetric'[q] <= suspected'[q]
  <2>1. SUFFICES ASSUME NEW q \in Producers PROVE lostMetric[q] <= suspected'[q]
    BY <1>4, Zenon
  <2>2. lostMetric[q] \in Nat /\ suspected[q] \in Nat /\ lostMetric[q] <= suspected[q]
    BY Zenon DEF TrackerInv, TypeOK
  <2>3. suspected'[q] \in Nat /\ suspected'[q] >= suspected[q]
    BY <1>3, <1>5, <2>2
  <2>4. QED BY <2>2, <2>3
<1>11. QED BY <1>7, <1>8, <1>9, <1>10, Zenon DEF TrackerInv

(* DetectGaps preserves the invariant: the delta moves to the metric. *)
LEMMA DetectGapsInv ==
    ASSUME TrackerInv, AuditDetectGaps
    PROVE  TrackerInv'
<1>1. /\ Known' = Known
      /\ \A p \in Known : producers'[p] =
             [producers[p] EXCEPT !.lastReportedLost = producers[p].confirmedLost]
      /\ UNCHANGED <<resets, arrived, base, edge, skipped, suspected>>
  BY Zenon DEF AuditDetectGaps, DetectGaps, Known
<1>2. ASSUME NEW p \in Known
      PROVE  /\ producers'[p] \in ProducerState
             /\ producers'[p].highContiguous = producers[p].highContiguous
             /\ producers'[p].window = producers[p].window
             /\ producers'[p].pendingLost = producers[p].pendingLost
             /\ producers'[p].confirmedLost = producers[p].confirmedLost
             /\ producers'[p].lastReportedLost = producers[p].confirmedLost
  <2> DEFINE ps == producers[p]
             c == ps.confirmedLost
  <2>1. ps \in ProducerState /\ c \in Nat
    BY StateFields, Zenon DEF TrackerInv, TypeOK
  <2>2. producers'[p] = [ps EXCEPT !.lastReportedLost = c]
    BY <1>1, Zenon
  <2> HIDE DEF ps
  <2>3. c = ps.confirmedLost
    BY Zenon
  <2> HIDE DEF c
  <2>4. /\ producers'[p] \in ProducerState
        /\ producers'[p].highContiguous = ps.highContiguous
        /\ producers'[p].window = ps.window
        /\ producers'[p].pendingLost = ps.pendingLost
        /\ producers'[p].confirmedLost = ps.confirmedLost
        /\ producers'[p].lastReportedLost = c
    BY <2>1, <2>2, Zenon DEF ProducerState
  <2>5. QED BY <2>3, <2>4, Zenon DEF ps
<1>3. ASSUME NEW p \in Producers
      PROVE  /\ lostMetric'[p] = lostMetric[p] + (IF p \in Known THEN Delta(producers[p]) ELSE 0)
             /\ lostMetric'[p] \in Nat
             /\ lostMetric'[p] <= suspected[p]
             /\ p \in Known => Metered(producers'[p], lostMetric'[p], suspected[p])
  <2>1. /\ lostMetric'[p] = lostMetric[p] + (IF p \in Known THEN Delta(producers[p]) ELSE 0)
        /\ lostMetric[p] \in Nat
        /\ suspected[p] \in Nat
        /\ lostMetric[p] <= suspected[p]
    BY Zenon DEF AuditDetectGaps, TrackerInv, TypeOK
  <2>2. CASE p \in Known
    <3>1. /\ producers[p].confirmedLost \in Nat
          /\ producers[p].lastReportedLost \in Nat
          /\ Metered(producers[p], lostMetric[p], suspected[p])
      BY <2>2, StateFields, Zenon DEF TrackerInv, TypeOK
    <3>2. QED BY <1>2, <2>1, <2>2, <3>1 DEF Metered, Delta
  <2>3. CASE p \notin Known
    BY <2>1, <2>3
  <2>4. QED BY <2>2, <2>3, Zenon
<1>4. lostMetric' \in [Producers -> Nat]
  <2>1. lostMetric' = [p \in Producers |-> lostMetric'[p]]
    BY Zenon DEF AuditDetectGaps
  <2>2. QED BY <1>3, <2>1, Zenon
<1>5. TypeOK'
  BY <1>1, <1>2, <1>4, Zenon DEF TrackerInv, TypeOK
<1>6. ASSUME NEW p \in Known
      PROVE  /\ Accounts(producers'[p], base[p], arrived[p], edge[p], skipped[p])
             /\ 0 \notin producers'[p].window
  BY <1>2 DEF TrackerInv, Accounts
<1>7. \A p \in Known : Metered(producers'[p], lostMetric'[p], suspected[p])
  BY <1>3, Zenon DEF TrackerInv, TypeOK
<1>8. QED BY <1>1, <1>3, <1>5, <1>6, <1>7 DEF TrackerInv

(* Reset preserves the invariant. *)
LEMMA ResetInv ==
    ASSUME TrackerInv, AuditReset
    PROVE  TrackerInv'
<1>1. Known' = {}
  BY Zenon DEF AuditReset, Reset, Known
<1>2. TypeOK'
  BY <1>1, BoundsAssumption DEF AuditReset, Reset, TrackerInv, TypeOK
<1>3. QED BY <1>1, <1>2, Zenon DEF AuditReset, TrackerInv

(* So does a step that changes nothing. *)
LEMMA StutterInv ==
    ASSUME TrackerInv, UNCHANGED vars
    PROVE  TrackerInv'
BY Zenon DEF vars, TrackerInv, TypeOK, Known

(* The three facts together, for every behaviour of the tracker. *)
THEOREM Invariance == AuditSpec => []TrackerInv
<1>1. TrackerInv /\ [AuditNext]_vars => TrackerInv'
  BY RecordInv, DetectGapsInv, ResetInv, StutterInv, Zenon DEF AuditNext
<1>2. QED BY InitInv, <1>1, PTL DEF AuditSpec

-----------------------------------------------------------------------------

(* The producer states, the metric and the history keep their types: in     *)
(* particular no set bit ever lies outside the reorder window.              *)
THEOREM TypeCorrect == AuditSpec => []TypeOK
<1>1. TrackerInv => TypeOK
  BY Zenon DEF TrackerInv
<1>2. QED BY <1>1, Invariance, PTL

(* The pending losses bracket the true ones: slideWindow misses only what a *)
(* slide jumped over, and accuses only arrivals that themselves forced one. *)
THEOREM LossIsBracketed == AuditSpec => []LossBracket
<1>1. TrackerInv => LossBracket
  <2> SUFFICES ASSUME TrackerInv, NEW p \in Known
               PROVE  /\ Tracked(p) \ (arrived[p] \cup skipped[p]) \subseteq producers[p].pendingLost
                      /\ producers[p].pendingLost \subseteq (Tracked(p) \ arrived[p]) \cup edge[p]
    BY Zenon DEF LossBracket
  <2>1. Accounts(producers[p], base[p], arrived[p], edge[p], skipped[p])
    BY Zenon DEF TrackerInv
  <2>2. /\ base[p] \in Nat
        /\ producers[p].highContiguous \in Nat
        /\ producers[p].pendingLost \in SUBSET Nat
    BY StateFields, Zenon DEF TrackerInv, TypeOK, SeqSets
  <2>3. QED BY <2>1, <2>2 DEF Accounts, Tracked
<1>2. QED BY <1>1, Invariance, PTL

(* The reported loss is the number of pending sequences, all of them behind *)
(* the watermark, whatever the evictions and recoveries were.               *)
THEOREM LossIsCounted == AuditSpec => []LossCounted
<1>1. TrackerInv => LossCounted
  <2> SUFFICES ASSUME TrackerInv, NEW p \in Known
               PROVE  /\ producers[p].confirmedLost = Cardinality(producers[p].pendingLost)
                      /\ producers[p].pendingLost \subseteq Tracked(p)
    BY Zenon DEF LossCounted
  <2>1. Accounts(producers[p], base[p], arrived[p], edge[p], skipped[p])
    BY Zenon DEF TrackerInv
  <2>2. /\ base[p] \in Nat
        /\ producers[p].highContiguous \in Nat
        /\ producers[p].pendingLost \in SUBSET Nat
    BY StateFields, Zenon DEF TrackerInv, TypeOK, SeqSets
  <2>3. QED BY <2>1, <2>2 DEF Accounts, Tracked
<1>2. QED BY <1>1, Invariance, PTL

(* advanceContiguous and slideWindow keep the window next to the traffic:   *)
(* its first bit is clear and no arrival is more than W + 1 above it.       *)
THEOREM WindowIsAnchored == AuditSpec => []WindowAnchored
<1>1. TrackerInv => WindowAnchored
  BY Zenon DEF TrackerInv, Accounts, WindowAnchored, getBit
<1>2. QED BY <1>1, Invariance, PTL

(* Every set bit is an arrival, and every arrival above the watermark has   *)
(* its bit unless it forced a slide.                                        *)
THEOREM WindowIsFaithful == AuditSpec => []WindowFaithful
<1>1. TrackerInv => WindowFaithful
  BY Zenon DEF TrackerInv, Accounts, WindowFaithful, getBit, Offset
<1>2. QED BY <1>1, Invariance, PTL

(* The deltas of DetectGaps neither miss a reported loss nor count one      *)
(* twice, however the recoveries fall between its calls.                    *)
THEOREM MetricIsLive == AuditSpec => []LiveLossMetric
<1>1. TrackerInv => LiveLossMetric
  BY Zenon DEF TrackerInv, Metered, LiveLossMetric
<1>2. QED BY <1>1, Invariance, PTL

(* Record flags only what had arrived, what lies below the first sequence   *)
(* seen, and what a slide jumped over.                                      *)
THEOREM DuplicatesAreJustified == AuditSpec => DuplicatesJustified
<1> DEFINE Justified ==
               \A p \in Producers, seq \in Seqs :
                   RecordDuplicate(p, seq)
                       => seq \in arrived[p] \cup skipped[p] \/ seq < base[p]
<1>1. TrackerInv => Justified
  <2> SUFFICES ASSUME TrackerInv, NEW p \in Producers, NEW seq \in Seqs,
                      RecordDuplicate(p, seq)
               PROVE  seq \in arrived[p] \cup skipped[p] \/ seq < base[p]
    BY Zenon
  <2> DEFINE h == producers[p].highContiguous
  <2>1. /\ p \in Known
        /\ \/ seq <= h /\ seq \notin producers[p].pendingLost
           \/ getBit(producers[p].window, seq - h - 1)
    BY Zenon DEF RecordDuplicate, CanRecord, Offset
  <2>2. Accounts(producers[p], base[p], arrived[p], edge[p], skipped[p])
    BY <2>1, Zenon DEF TrackerInv
  <2>3. seq \in Nat /\ base[p] \in Nat /\ h \in Nat
    BY <2>1, StateFields, SeqsAssumption, Zenon DEF TrackerInv, TypeOK
  <2>4. CASE seq <= h /\ seq \notin producers[p].pendingLost
    BY <2>2, <2>3, <2>4 DEF Accounts
  <2>5. CASE getBit(producers[p].window, seq - h - 1)
    <3>1. h + 1 + (seq - h - 1) = seq
      BY <2>3
    <3>2. QED BY <2>2, <2>5, <3>1, Zenon DEF Accounts, getBit
  <2>6. QED BY <2>1, <2>4, <2>5, Zenon
<1>2. QED BY <1>1, Invariance, PTL DEF DuplicatesJustified

(* Record and DetectGaps never lower a watermark or forget a producer.      *)
THEOREM WatermarksRise == AuditSpec => WatermarkRises
<1> DEFINE Rises ==
               Reset \/ \A p \in Known :
                            /\ p \in DOMAIN producers'
                            /\ producers'[p].highContiguous >= producers[p].highContiguous
<1>1. TrackerInv /\ [AuditNext]_vars => [Rises]_vars
  <2> SUFFICES ASSUME TrackerInv, AuditNext, ~Reset, NEW p \in Known
               PROVE  /\ p \in DOMAIN producers'
                      /\ producers'[p].highContiguous >= producers[p].highContiguous
    BY Zenon
  <2>1. producers[p].highContiguous \in Nat
    BY StateFields, Zenon DEF TrackerInv, TypeOK
  <2>2. CASE AuditDetectGaps
    <3>1. /\ p \in DOMAIN producers'
          /\ producers'[p] = [producers[p] EXCEPT !.lastReportedLost = producers[p].confirmedLost]
      BY <2>2, Zenon DEF AuditDetectGaps, DetectGaps, Known
    <3>2. producers'[p].highContiguous = producers[p].highContiguous
      BY <3>1, Zenon DEF TrackerInv, TypeOK, ProducerState
    <3>3. QED BY <2>1, <3>1, <3>2
  <2>3. ASSUME NEW q \in Producers, NEW seq \in Seqs, AuditRecord(q, seq)
        PROVE  /\ p \in DOMAIN producers'
               /\ producers'[p].highContiguous >= producers[p].highContiguous
    <3>1. PICK new : Put(q, new)
      BY <2>3, RecordPuts, Zenon DEF AuditRecord
    <3>2. p \in DOMAIN producers' /\ producers'[p] = IF p = q THEN new ELSE producers[p]
      BY <3>1, Zenon DEF Put
    <3>3. q \in Known => new.highContiguous >= producers[q].highContiguous
      BY <2>3, <3>1, RecordedProducer, Zenon
    <3>4. QED BY <2>1, <3>2, <3>3
  <2>4. QED BY <2>2, <2>3, Zenon DEF AuditNext, AuditReset
<1>2. QED BY <1>1, Invariance, PTL DEF AuditSpec, WatermarkRises
=============================================================================
