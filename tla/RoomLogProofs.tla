--------------------------- MODULE RoomLogProofs ---------------------------
(***************************************************************************)
(* What verify_log lets through, for logs of any length.  It is a fold of  *)
(* a loop body over the log; its value is reached by induction over sets   *)
(* of numbers (Climb), since a library theorem that takes the induction    *)
(* hypothesis as an operator cannot be used here.                          *)
(***************************************************************************)
EXTENDS RoomLog, TLAPS, WellFoundedInduction

(***************************************************************************)
(* Induction: the least element of a set of numbers.                       *)
(***************************************************************************)
Less == {ss \in Nat \X Nat : ss[1] < ss[2]}

LEMMA LessIsWellFounded == IsWellFoundedOn(Less, Nat)
<1>1. OpToRel(<, Nat) = Less
  BY DEF OpToRel, Less
<1> QED
  BY <1>1, NatLessThanWellFounded

LEMMA LeastExists ==
    ASSUME NEW T, T \subseteq Nat, T # {}
    PROVE  \E x \in T : \A y \in T : x <= y
<1>1. PICK x \in T : \A y \in T : ~ (<<y, x>> \in Less)
  BY LessIsWellFounded, WFMin
<1>2. \A y \in T : ~ (y < x)
  BY <1>1 DEF Less
<1> QED
  BY <1>2

\* Induction up to n, over a set in place of a predicate.
Climbs(T, n) == \A k \in Nat : k < n /\ k \in T => k + 1 \in T

LEMMA Climb ==
    ASSUME NEW n, n \in Nat, NEW T, 0 \in T, Climbs(T, n)
    PROVE  n \in T
<1> SUFFICES ASSUME n \notin T PROVE FALSE
  OBVIOUS
<1> DEFINE S == {k \in 0..n : k \notin T}
<1>1. S \subseteq Nat /\ S # {}
  OBVIOUS
<1>2. PICK x \in S : \A y \in S : x <= y
  BY <1>1, LeastExists
<1>3. x # 0 /\ x \in Nat
  BY <1>2
<1>4. x - 1 \in 0..n /\ x - 1 \notin S /\ x - 1 \in Nat /\ x - 1 < n
  BY <1>2, <1>3
<1>5. x - 1 \in T
  BY <1>4
<1>6. (x - 1) + 1 \in T
  BY <1>4, <1>5 DEF Climbs
<1>7. (x - 1) + 1 = x
  BY <1>3
<1> QED
  BY <1>2, <1>6, <1>7

\* The largest of the first numbers.
LEMMA Top ==
    ASSUME NEW n \in Nat, NEW S \in SUBSET (1..n + 1), n + 1 \in S
    PROVE  Max(S) = n + 1 /\ S \ {n + 1} \in SUBSET (1..n)
<1>1. \A y \in S : y \in Int /\ n + 1 >= y
  OBVIOUS
<1>2. Max(S) \in S /\ \A y \in S : Max(S) >= y
  BY <1>1 DEF Max
<1>3. ASSUME NEW m \in S, \A y \in S : m >= y PROVE m = n + 1
  BY <1>1, <1>3
<1>4. Max(S) = n + 1
  BY <1>2, <1>3
<1>5. S \ {n + 1} \in SUBSET (1..n)
  OBVIOUS
<1> QED
  BY <1>4, <1>5

(***************************************************************************)
(* The fold of the replay.                                                 *)
(***************************************************************************)
Solves(iter, base, s, n) ==
    iter = [S \in SUBSET (1..n) |->
              IF S = {} THEN base ELSE Replay(iter[S \ {Max(S)}], s[Max(S)])]

Turn(iter, base, s, S) ==
    iter[S] = IF S = {} THEN base ELSE Replay(iter[S \ {Max(S)}], s[Max(S)])

Cuts(n) == SUBSET (1..n)

LEMMA SolvesAt ==
    ASSUME NEW base, NEW s, NEW n, NEW iter, Solves(iter, base, s, n),
           NEW S, S \in Cuts(n)
    PROVE  Turn(iter, base, s, S)
<1> DEFINE F(R) == IF R = {} THEN base ELSE Replay(iter[R \ {Max(R)}], s[Max(R)])
<1>1. iter = [R \in Cuts(n) |-> F(R)]
  BY DEF Solves, Cuts
<1> HIDE DEF F
<1>2. iter[S] = F(S)
  BY <1>1
<1> QED
  BY <1>2 DEF F, Turn

LEMMA Solution ==
    ASSUME NEW base, NEW s, NEW n \in Nat
    PROVE  \E iter : Solves(iter, base, s, n)
<1> DEFINE T == {k \in 0..n : \E iter : Solves(iter, base, s, k)}
<1>1. 0 \in T
  <2> DEFINE iter == [S \in SUBSET (1..0) |-> base]
  <2>1. Solves(iter, base, s, 0)
    <3>1. \A S \in SUBSET (1..0) : S = {}
      OBVIOUS
    <3> QED
      BY <3>1 DEF Solves
  <2> QED
    BY <2>1
<1>2. ASSUME NEW k \in Nat, k < n, k \in T PROVE k + 1 \in T
  <2>1. PICK iter : Solves(iter, base, s, k)
    BY <1>2
  <2> DEFINE more == [S \in SUBSET (1..k + 1) |->
                        IF k + 1 \in S THEN Replay(iter[S \ {k + 1}], s[k + 1]) ELSE iter[S]]
             F(S) == IF S = {} THEN base ELSE Replay(more[S \ {Max(S)}], s[Max(S)])
  <2>2. \A S \in SUBSET (1..k) : S \in SUBSET (1..k + 1) /\ more[S] = iter[S]
    OBVIOUS
  <2>3. ASSUME NEW S \in SUBSET (1..k + 1), k + 1 \in S PROVE more[S] = F(S)
    <3>1. Max(S) = k + 1 /\ S \ {k + 1} \in SUBSET (1..k)
      BY <1>2, <2>3, Top
    <3>2. more[S] = Replay(iter[S \ {k + 1}], s[k + 1])
      BY <2>3
    <3> HIDE DEF more
    <3> QED
      BY <2>2, <2>3, <3>1, <3>2
  <2>4. ASSUME NEW S \in SUBSET (1..k + 1), k + 1 \notin S PROVE more[S] = F(S)
    <3>0. S \in SUBSET (1..k)
      <4>1. \A x \in 1..k + 1 : x # k + 1 => x \in 1..k
        OBVIOUS
      <4> QED
        BY <2>4, <4>1
    <3>1. S \ {Max(S)} \in SUBSET (1..k)
      BY <3>0
    <3>2. Turn(iter, base, s, S)
      <4>1. S \in Cuts(k)
        BY <3>0 DEF Cuts
      <4> QED
        BY <2>1, <4>1, SolvesAt
    <3> HIDE DEF more
    <3> QED
      BY <2>2, <3>0, <3>1, <3>2 DEF Turn
  <2>5. more = [S \in SUBSET (1..k + 1) |-> F(S)]
    <3>1. more = [S \in SUBSET (1..k + 1) |-> more[S]]
      OBVIOUS
    <3> HIDE DEF more, F
    <3> QED
      BY <2>3, <2>4, <3>1
  <2>6. Solves(more, base, s, k + 1)
    BY <2>5 DEF Solves
  <2> QED
    BY <1>2, <2>6
<1> HIDE DEF T
<1>3. n \in T
  BY <1>1, <1>2, Climb DEF Climbs
<1> QED
  BY <1>3 DEF T

LEMMA FoldIs ==
    ASSUME NEW base, NEW s, NEW n \in Nat, DOMAIN s = 1..n
    PROVE  FoldLeft(Replay, base, s) = (CHOOSE iter : Solves(iter, base, s, n))[1..n]
BY DEF FoldLeft, MapThenFoldSet, Solves

\* One more element, one more replay.
Turns(iter, base, s, n) ==
    /\ iter[1..0] = base
    /\ \A k \in Nat : k < n => iter[1..k + 1] = Replay(iter[1..k], s[k + 1])

LEMMA SolutionTurns ==
    ASSUME NEW base, NEW s, NEW n, n \in Nat, NEW iter, Solves(iter, base, s, n)
    PROVE  Turns(iter, base, s, n)
<1>1. iter[1..0] = base
  <2>1. {} \in SUBSET (1..n) /\ 1..0 = {}
    OBVIOUS
  <2>2. Turn(iter, base, s, {})
    BY <2>1, SolvesAt DEF Cuts
  <2> QED
    BY <2>1, <2>2 DEF Turn
<1>2. ASSUME NEW k \in Nat, k < n PROVE iter[1..k + 1] = Replay(iter[1..k], s[k + 1])
  <2>1. 1..k + 1 \in Cuts(n) /\ 1..k + 1 # {}
    BY <1>2 DEF Cuts
  <2>2. Max(1..k + 1) = k + 1
    BY Top
  <2>3. (1..k + 1) \ {k + 1} = 1..k
    OBVIOUS
  <2>4. ASSUME NEW S, S \in Cuts(n), S # {}
        PROVE  iter[S] = Replay(iter[S \ {Max(S)}], s[Max(S)])
    <3>1. Turn(iter, base, s, S)
      BY <2>4, SolvesAt
    <3> QED
      BY <2>4, <3>1 DEF Turn
  <2> QED
    BY <2>1, <2>2, <2>3, <2>4, Zenon
<1> QED
  BY <1>1, <1>2 DEF Turns

LEMMA FoldEmpty == ASSUME NEW base PROVE FoldLeft(Replay, base, <<>>) = base
<1>1. DOMAIN <<>> = 1..0
  OBVIOUS
<1> DEFINE iter == CHOOSE i : Solves(i, base, <<>>, 0)
<1>2. Solves(iter, base, <<>>, 0)
  BY Solution
<1>3. FoldLeft(Replay, base, <<>>) = iter[1..0]
  BY <1>1, FoldIs
<1> HIDE DEF iter
<1>4. 0 \in Nat
  OBVIOUS
<1>5. Turns(iter, base, <<>>, 0)
  BY ONLY <1>2, <1>4, SolutionTurns
<1>6. iter[1..0] = base
  BY <1>5 DEF Turns
<1> QED
  BY ONLY <1>3, <1>6

LEMMA FoldAppend ==
    ASSUME NEW base, NEW S, NEW s \in Seq(S), NEW x \in S
    PROVE  FoldLeft(Replay, base, Append(s, x)) = Replay(FoldLeft(Replay, base, s), x)
<1> DEFINE n == Len(s)
           t == Append(s, x)
           short == CHOOSE i : Solves(i, base, s, n)
           long == CHOOSE i : Solves(i, base, t, n + 1)
           T == {k \in 0..n : short[1..k] = long[1..k]}
<1>1. n \in Nat /\ n + 1 \in Nat /\ DOMAIN s = 1..n /\ DOMAIN t = 1..n + 1
  OBVIOUS
<1>2. t[n + 1] = x /\ \A k \in Nat : k < n => t[k + 1] = s[k + 1]
  OBVIOUS
<1>3. Solves(short, base, s, n) /\ Solves(long, base, t, n + 1)
  BY <1>1, Solution
<1>4. FoldLeft(Replay, base, s) = short[1..n] /\ FoldLeft(Replay, base, t) = long[1..n + 1]
  BY <1>1, FoldIs
<1> HIDE DEF n, t, short, long
<1>5. Turns(short, base, s, n) /\ Turns(long, base, t, n + 1)
  BY <1>1, <1>3, SolutionTurns
<1>6. 0 \in T
  BY <1>1, <1>5 DEF Turns
<1>7. ASSUME NEW k \in Nat, k < n, k \in T PROVE k + 1 \in T
  <2>1. short[1..k + 1] = long[1..k + 1]
    BY <1>1, <1>2, <1>5, <1>7 DEF Turns
  <2> QED
    BY <1>1, <1>7, <2>1
<1> HIDE DEF T
<1>8. n \in T
  BY <1>1, <1>6, <1>7, Climb DEF Climbs
<1>9. short[1..n] = long[1..n]
  BY <1>8 DEF T
<1> QED
  BY <1>1, <1>2, <1>4, <1>5, <1>9 DEF t, Turns

(***************************************************************************)
(* verify_log.                                                             *)
(***************************************************************************)
LEMMA VerifyFirst == ASSUME NEW e PROVE VerifyLog(<<e>>) = OpenRoom(e)
<1>1. <<e>> # <<>> /\ Head(<<e>>) = e /\ Tail(<<e>>) = <<>>
  OBVIOUS
<1> QED
  BY <1>1, FoldEmpty DEF VerifyLog

LEMMA VerifyNext ==
    ASSUME NEW l \in Seq(Entry), NEW e \in Entry, l # <<>>
    PROVE  VerifyLog(Append(l, e)) = Replay(VerifyLog(l), e)
<1>1. /\ Append(l, e) # <<>> /\ Head(Append(l, e)) = Head(l)
      /\ Tail(l) \in Seq(Entry)
  OBVIOUS
<1>2. Tail(Append(l, e)) = Append(Tail(l), e)
  OBVIOUS
<1>3. VerifyLog(l) = FoldLeft(Replay, OpenRoom(Head(l)), Tail(l))
  BY DEF VerifyLog
<1>4. VerifyLog(Append(l, e)) = FoldLeft(Replay, OpenRoom(Head(l)), Append(Tail(l), e))
  BY <1>1, <1>2 DEF VerifyLog
<1>5. ASSUME NEW base
      PROVE  FoldLeft(Replay, base, Append(Tail(l), e)) = Replay(FoldLeft(Replay, base, Tail(l)), e)
  <2>1. Tail(l) \in Seq(Entry) /\ e \in Entry
    BY <1>1
  <2> QED
    BY ONLY <2>1, FoldAppend, ZenonT(60)
<1> QED
  BY <1>3, <1>4, <1>5

(***************************************************************************)
(* Operations, entries, rooms.                                             *)
(***************************************************************************)

\* The kinds of RoomOp are told apart by their type, and only invite and
\* kick name a member.
LEMMA OpKinds ==
    ASSUME NEW op \in Op
    PROVE  /\ op.type \in {"create", "leave", "invite", "kick"}
           /\ op.type = "create" <=> op = Create
           /\ op.type \in {"invite", "kick"} => op.member \in Peer
  BY DEF Op, Create, Leave, Invite, Kick

LEMMA HashType ==
    ASSUME NEW e \in Entry
    PROVE  Hash(e) \in ChainHash
  <1>1. [author |-> e.author, op |-> e.op, signer |-> e.signer] \in Link
    BY DEF Entry, Link
  <1>2. e.prev \in Seq(Link)
    BY DEF Entry, ChainHash
  <1> QED
    BY <1>1, <1>2 DEF Hash, ChainHash

\* A room is never the record that stands for an error.
LEMMA RoomNotRejected ==
    ASSUME NEW r \in Room
    PROVE  r # Rejected
  BY DEF Room, Rejected

LEMMA ReplayType ==
    ASSUME NEW r \in Room, NEW e \in Entry,
           e.prev = r.head, VerifySignature(e), Authorised(r, e)
    PROVE  /\ Replay(r, e) \in Room
           /\ Replay(r, e) = [id |-> r.id, founder |-> r.founder,
                              members |-> MembersAfter(r, e),
                              head |-> Hash(e), length |-> r.length + 1]
  <1>1. Replay(r, e) = [id |-> r.id, founder |-> r.founder,
                        members |-> MembersAfter(r, e),
                        head |-> Hash(e), length |-> r.length + 1]
    BY RoomNotRejected DEF Replay, Room
  <1>2. e.author \in Peer /\ e.op \in Op
    BY DEF Entry
  <1>3. MembersAfter(r, e) \subseteq Peer
    BY <1>2, OpKinds DEF MembersAfter, Room
  <1>4. r.length + 1 \in Nat \ {0}
    BY DEF Room
  <1> QED
    BY <1>1, <1>3, <1>4, HashType DEF Room

LEMMA OpenType ==
    ASSUME NEW e \in Entry, OpenRoom(e) # Rejected
    PROVE  /\ e.prev = Genesis /\ VerifySignature(e) /\ e.op = Create
           /\ OpenRoom(e) \in Room
           /\ OpenRoom(e) = [id |-> Hash(e), founder |-> e.author, members |-> {e.author},
                             head |-> Hash(e), length |-> 1]
  <1>1. e.author \in Peer
    BY DEF Entry
  <1> QED
    BY <1>1, HashType DEF OpenRoom, Room

(***************************************************************************)
(* What verify_log says of any log: an accepted one is a chain.  A hash is *)
(* as long as the number of entries it commits to, so in a chain entry i   *)
(* names a hash of length i - 1.                                           *)
(***************************************************************************)
LEMMA FirstEntries ==
    ASSUME NEW l \in Seq(Entry)
    PROVE  /\ SubSeq(l, 1, 0) = <<>> /\ SubSeq(l, 1, Len(l)) = l
           /\ \A k \in 0..Len(l) : /\ SubSeq(l, 1, k) \in Seq(Entry)
                                   /\ Len(SubSeq(l, 1, k)) = k
                                   /\ \A i \in 1..k : SubSeq(l, 1, k)[i] = l[i]
           /\ \A k \in Nat : k < Len(l) =>
                SubSeq(l, 1, k + 1) = Append(SubSeq(l, 1, k), l[k + 1])
  BY SMTT(30)

\* The first entry follows nothing, every other the one before it.
Chained(l) ==
    /\ l[1].prev = Genesis
    /\ \A i \in 2..Len(l) : l[i].prev = Hash(l[i - 1])

Ordered(l) ==
    /\ VerifyLog(l) \in Room \cup {Rejected}
    /\ VerifyLog(l) # Rejected =>
         /\ l # <<>> /\ VerifyLog(l).head = Hash(l[Len(l)])
         /\ Chained(l)
         /\ \A i \in 1..Len(l) : Len(l[i].prev) = i - 1

LEMMA OrderedFirst == ASSUME NEW e \in Entry PROVE Ordered(<<e>>)
  <1>1. VerifyLog(<<e>>) = OpenRoom(e)
    BY VerifyFirst
  <1>2. Len(Genesis) = 0 /\ <<e>>[1] = e /\ Len(<<e>>) = 1 /\ <<e>> # <<>>
    BY DEF Genesis
  <1>3. OpenRoom(e) # Rejected => OpenRoom(e) \in Room /\ OpenRoom(e).head = Hash(e) /\ e.prev = Genesis
    BY OpenType
  <1>4. e.prev = Genesis => Chained(<<e>>)
    BY <1>2 DEF Chained
  <1> QED
    BY <1>1, <1>2, <1>3, <1>4 DEF Ordered

LEMMA OrderedNext ==
    ASSUME NEW l \in Seq(Entry), NEW e \in Entry, l # <<>>, Ordered(l)
    PROVE  Ordered(Append(l, e))
  <1> DEFINE r == VerifyLog(l)
             m == Append(l, e)
             n == Len(l)
  <1>1. VerifyLog(m) = Replay(r, e)
    BY VerifyNext
  <1>2. /\ m # <<>> /\ n \in Nat \ {0} /\ Len(m) = n + 1 /\ m[n + 1] = e
        /\ l[n] \in Entry /\ \A i \in 1..n : m[i] = l[i]
    OBVIOUS
  <1>3. CASE Replay(r, e) = Rejected
    BY <1>1, <1>3 DEF Ordered
  <1>4. CASE Replay(r, e) # Rejected
    <2>1. r # Rejected /\ e.prev = r.head /\ VerifySignature(e) /\ Authorised(r, e)
      BY <1>4 DEF Replay
    <2>2. /\ r \in Room /\ r.head = Hash(l[n]) /\ Chained(l)
          /\ \A i \in 1..n : Len(l[i].prev) = i - 1
      BY <2>1 DEF Ordered
    <2>3. Replay(r, e) \in Room /\ Replay(r, e).head = Hash(e)
      BY <2>1, <2>2, ReplayType
    <2>4. Len(e.prev) = n
      <3>1. l[n].prev \in Seq(Link) /\ Len(l[n].prev) = n - 1
        <4>1. l[n].prev \in Seq(Link)
          BY <1>2 DEF Entry, ChainHash
        <4>2. n \in 1..n
          BY <1>2
        <4> QED
          BY <2>2, <4>1, <4>2
      <3>2. Len(Hash(l[n])) = n
        BY <1>2, <3>1 DEF Hash
      <3> QED
        BY <2>1, <2>2, <3>2
    <2> HIDE DEF r, m, n
    <2>5. ASSUME NEW i \in 1..n + 1 PROVE Len(m[i].prev) = i - 1
      <3>1. CASE i = n + 1
        BY <1>2, <2>4, <3>1
      <3>2. CASE i # n + 1
        BY <1>2, <2>2, <3>2, SMTT(30)
      <3> QED
        BY <3>1, <3>2
    <2>6. m[1].prev = Genesis
      BY <1>2, <2>2 DEF Chained, n
    <2>7. ASSUME NEW i \in 2..n + 1 PROVE m[i].prev = Hash(m[i - 1])
      <3>1. CASE i = n + 1
        <4>1. i - 1 = n /\ n \in 1..n
          BY <1>2, <3>1
        <4> QED
          BY <1>2, <2>1, <2>2, <3>1, <4>1
      <3>2. CASE i # n + 1
        <4>1. i \in 2..n /\ i - 1 \in 1..n /\ i \in 1..n
          BY <1>2, <3>2
        <4>2. l[i].prev = Hash(l[i - 1])
          BY <2>2, <4>1 DEF Chained, n
        <4> QED
          BY <1>2, <4>1, <4>2
      <3> QED
        BY <3>1, <3>2
    <2>8. Chained(m)
      BY <1>2, <2>6, <2>7 DEF Chained
    <2>9. Ordered(m)
      BY <1>1, <1>2, <2>3, <2>5, <2>8 DEF Ordered
    <2> QED
      BY <2>9 DEF m
  <1> QED
    BY <1>3, <1>4

\* Whatever a peer or a hub hands over, verify_log answers with a room whose
\* members are peers or turns it down; and in what it accepts the first entry
\* names the genesis and every other one the hash of the entry before it.
THEOREM VerifyLogOrders == \A l \in Seq(Entry) : Ordered(l)
  <1> SUFFICES ASSUME NEW l \in Seq(Entry) PROVE Ordered(l)
    OBVIOUS
  <1> DEFINE n == Len(l)
             p(k) == SubSeq(l, 1, k)
             T == {k \in 0..n : k = 0 \/ Ordered(p(k))}
  <1>1. n \in Nat /\ 0 \in T
    OBVIOUS
  <1>2. ASSUME NEW k \in Nat, k < n, k \in T PROVE k + 1 \in T
    <2>1. p(k) \in Seq(Entry) /\ Len(p(k)) = k /\ p(k + 1) = Append(p(k), l[k + 1])
      BY <1>2, FirstEntries
    <2>2. l[k + 1] \in Entry
      BY <1>2
    <2>3. k = 0 \/ Ordered(p(k))
      BY <1>2
    <2>4. p(0) = <<>>
      BY FirstEntries
    <2> HIDE DEF p
    <2>5. CASE k = 0
      <3>0. p(k) = <<>> /\ \A x : Append(<<>>, x) = <<x>>
        BY <2>4, <2>5
      <3>1. p(k + 1) = <<l[k + 1]>>
        BY <2>1, <3>0
      <3>2. Ordered(p(k + 1))
        BY <2>2, <3>1, OrderedFirst
      <3> QED
        BY <1>1, <1>2, <3>2
    <2>6. CASE k # 0
      <3>1. p(k) # <<>> /\ Ordered(p(k))
        BY <2>1, <2>3, <2>6
      <3>2. Ordered(p(k + 1))
        BY <2>1, <2>2, <3>1, OrderedNext
      <3> QED
        BY <1>1, <1>2, <3>2
    <2> QED
      BY <2>5, <2>6
  <1> HIDE DEF T, n
  <1>3. n \in T
    BY <1>1, <1>2, Climb DEF Climbs
  <1>4. CASE n = 0
    BY <1>4 DEF Ordered, VerifyLog, n
  <1>5. CASE n # 0
    <2>1. Ordered(p(n))
      BY <1>3, <1>5 DEF T
    <2> QED
      BY <2>1, FirstEntries DEF n
  <1> QED
    BY <1>4, <1>5
=============================================================================
