--------------------------- MODULE HistoryProofs ---------------------------
(***************************************************************************)
(* What Store::history shows, for any table: the rows come out in one      *)
(* order, the loop over them is characterised by its last word on every    *)
(* message, and from that what an op that arrives may change and when two  *)
(* endpoints show the same.                                                *)
(***************************************************************************)
EXTENDS ConversationProofs, FiniteSetTheorems

(***************************************************************************)
(* Induction, and the fold that SequencesExt defines over sets of indices. *)
(***************************************************************************)
\* Induction up to n, over a set in place of a predicate.
Climbs(T, n) == \A k \in Nat : k < n /\ k \in T => k + 1 \in T

LEMMA Climb ==
    ASSUME NEW n, n \in Nat, NEW T, 0 \in T, Climbs(T, n)
    PROVE  n \in T
<1> SUFFICES ASSUME n \notin T PROVE FALSE
  OBVIOUS
<1> DEFINE S == {k \in 0..n : k \notin T}
<1>1. S \subseteq Nat /\ S # {}
  OBVIOUS
<1>2. PICK x \in S : \A y \in S : x <= y
  BY <1>1, LeastExists
<1>3. x # 0 /\ x \in Nat
  BY <1>2
<1>4. x - 1 \in 0..n /\ x - 1 \notin S /\ x - 1 \in Nat /\ x - 1 < n
  BY <1>2, <1>3
<1>5. x - 1 \in T
  BY <1>4
<1>6. (x - 1) + 1 \in T
  BY <1>4, <1>5 DEF Climbs
<1>7. (x - 1) + 1 = x
  BY <1>3
<1> QED
  BY <1>2, <1>6, <1>7

\* The largest of the first numbers.
LEMMA Top ==
    ASSUME NEW n \in Nat, NEW S \in SUBSET (1..n + 1), n + 1 \in S
    PROVE  Max(S) = n + 1 /\ S \ {n + 1} \in SUBSET (1..n)
<1>1. \A y \in S : y \in Int /\ n + 1 >= y
  OBVIOUS
<1>2. Max(S) \in S /\ \A y \in S : Max(S) >= y
  BY <1>1 DEF Max
<1>3. ASSUME NEW m \in S, \A y \in S : m >= y PROVE m = n + 1
  BY <1>1, <1>3
<1>4. Max(S) = n + 1
  BY <1>2, <1>3
<1>5. S \ {n + 1} \in SUBSET (1..n)
  OBVIOUS
<1> QED
  BY <1>4, <1>5

(***************************************************************************)
(* The loop over the rows.                                                  *)
(***************************************************************************)
Solves(iter, base, s, n) ==
    iter = [S \in SUBSET (1..n) |->
              IF S = {} THEN base ELSE ApplyOp(iter[S \ {Max(S)}], s[Max(S)])]

Turn(iter, base, s, S) ==
    iter[S] = IF S = {} THEN base ELSE ApplyOp(iter[S \ {Max(S)}], s[Max(S)])

Cuts(n) == SUBSET (1..n)

LEMMA SolvesAt ==
    ASSUME NEW base, NEW s, NEW n, NEW iter, Solves(iter, base, s, n),
           NEW S, S \in Cuts(n)
    PROVE  Turn(iter, base, s, S)
<1> DEFINE F(R) == IF R = {} THEN base ELSE ApplyOp(iter[R \ {Max(R)}], s[Max(R)])
<1>1. iter = [R \in Cuts(n) |-> F(R)]
  BY DEF Solves, Cuts
<1> HIDE DEF F
<1>2. iter[S] = F(S)
  BY <1>1
<1> QED
  BY <1>2 DEF F, Turn

LEMMA Solution ==
    ASSUME NEW base, NEW s, NEW n \in Nat
    PROVE  \E iter : Solves(iter, base, s, n)
<1> DEFINE T == {k \in 0..n : \E iter : Solves(iter, base, s, k)}
<1>1. 0 \in T
  <2> DEFINE iter == [S \in SUBSET (1..0) |-> base]
  <2>1. Solves(iter, base, s, 0)
    <3>1. \A S \in SUBSET (1..0) : S = {}
      OBVIOUS
    <3> QED
      BY <3>1 DEF Solves
  <2> QED
    BY <2>1
<1>2. ASSUME NEW k \in Nat, k < n, k \in T PROVE k + 1 \in T
  <2>1. PICK iter : Solves(iter, base, s, k)
    BY <1>2
  <2> DEFINE more == [S \in SUBSET (1..k + 1) |->
                        IF k + 1 \in S THEN ApplyOp(iter[S \ {k + 1}], s[k + 1]) ELSE iter[S]]
             F(S) == IF S = {} THEN base ELSE ApplyOp(more[S \ {Max(S)}], s[Max(S)])
  <2>2. \A S \in SUBSET (1..k) : S \in SUBSET (1..k + 1) /\ more[S] = iter[S]
    OBVIOUS
  <2>3. ASSUME NEW S \in SUBSET (1..k + 1), k + 1 \in S PROVE more[S] = F(S)
    <3>1. Max(S) = k + 1 /\ S \ {k + 1} \in SUBSET (1..k)
      BY <1>2, <2>3, Top
    <3>2. more[S] = ApplyOp(iter[S \ {k + 1}], s[k + 1])
      BY <2>3
    <3> HIDE DEF more
    <3> QED
      BY <2>2, <2>3, <3>1, <3>2
  <2>4. ASSUME NEW S \in SUBSET (1..k + 1), k + 1 \notin S PROVE more[S] = F(S)
    <3>0. S \in SUBSET (1..k)
      <4>1. \A x \in 1..k + 1 : x # k + 1 => x \in 1..k
        OBVIOUS
      <4> QED
        BY <2>4, <4>1
    <3>1. S \ {Max(S)} \in SUBSET (1..k)
      BY <3>0
    <3>2. Turn(iter, base, s, S)
      <4>1. S \in Cuts(k)
        BY <3>0 DEF Cuts
      <4> QED
        BY <2>1, <4>1, SolvesAt
    <3> HIDE DEF more
    <3> QED
      BY <2>2, <3>0, <3>1, <3>2 DEF Turn
  <2>5. more = [S \in SUBSET (1..k + 1) |-> F(S)]
    <3>1. more = [S \in SUBSET (1..k + 1) |-> more[S]]
      OBVIOUS
    <3> HIDE DEF more, F
    <3> QED
      BY <2>3, <2>4, <3>1
  <2>6. Solves(more, base, s, k + 1)
    BY <2>5 DEF Solves
  <2> QED
    BY <1>2, <2>6
<1> HIDE DEF T
<1>3. n \in T
  BY <1>1, <1>2, Climb DEF Climbs
<1> QED
  BY <1>3 DEF T

LEMMA FoldIs ==
    ASSUME NEW base, NEW s, NEW n \in Nat, DOMAIN s = 1..n
    PROVE  FoldLeft(ApplyOp, base, s) = (CHOOSE iter : Solves(iter, base, s, n))[1..n]
BY DEF FoldLeft, MapThenFoldSet, Solves

\* One more element, one more turn of the loop.
Turns(iter, base, s, n) ==
    /\ iter[1..0] = base
    /\ \A k \in Nat : k < n => iter[1..k + 1] = ApplyOp(iter[1..k], s[k + 1])

LEMMA SolutionTurns ==
    ASSUME NEW base, NEW s, NEW n, n \in Nat, NEW iter, Solves(iter, base, s, n)
    PROVE  Turns(iter, base, s, n)
<1>1. iter[1..0] = base
  <2>1. {} \in SUBSET (1..n) /\ 1..0 = {}
    OBVIOUS
  <2>2. Turn(iter, base, s, {})
    BY <2>1, SolvesAt DEF Cuts
  <2> QED
    BY <2>1, <2>2 DEF Turn
<1>2. ASSUME NEW k \in Nat, k < n PROVE iter[1..k + 1] = ApplyOp(iter[1..k], s[k + 1])
  <2>1. 1..k + 1 \in Cuts(n) /\ 1..k + 1 # {}
    BY <1>2 DEF Cuts
  <2>2. Max(1..k + 1) = k + 1
    BY Top
  <2>3. (1..k + 1) \ {k + 1} = 1..k
    OBVIOUS
  <2>4. ASSUME NEW S, S \in Cuts(n), S # {}
        PROVE  iter[S] = ApplyOp(iter[S \ {Max(S)}], s[Max(S)])
    <3>1. Turn(iter, base, s, S)
      BY <2>4, SolvesAt
    <3> QED
      BY <2>4, <3>1 DEF Turn
  <2> QED
    BY <2>1, <2>2, <2>3, <2>4, Zenon
<1> QED
  BY <1>1, <1>2 DEF Turns

LEMMA FoldEmpty == ASSUME NEW base PROVE FoldLeft(ApplyOp, base, <<>>) = base
<1>1. DOMAIN <<>> = 1..0
  OBVIOUS
<1> DEFINE iter == CHOOSE i : Solves(i, base, <<>>, 0)
<1>2. Solves(iter, base, <<>>, 0)
  BY Solution
<1>3. FoldLeft(ApplyOp, base, <<>>) = iter[1..0]
  BY <1>1, FoldIs
<1> HIDE DEF iter
<1>4. 0 \in Nat
  OBVIOUS
<1>5. Turns(iter, base, <<>>, 0)
  BY ONLY <1>2, <1>4, SolutionTurns
<1>6. iter[1..0] = base
  BY <1>5 DEF Turns
<1> QED
  BY ONLY <1>3, <1>6

LEMMA FoldAppend ==
    ASSUME NEW base, NEW S, NEW s \in Seq(S), NEW x \in S
    PROVE  FoldLeft(ApplyOp, base, Append(s, x)) = ApplyOp(FoldLeft(ApplyOp, base, s), x)
<1> DEFINE n == Len(s)
           t == Append(s, x)
           short == CHOOSE i : Solves(i, base, s, n)
           long == CHOOSE i : Solves(i, base, t, n + 1)
           T == {k \in 0..n : short[1..k] = long[1..k]}
<1>1. n \in Nat /\ n + 1 \in Nat /\ DOMAIN s = 1..n /\ DOMAIN t = 1..n + 1
  OBVIOUS
<1>2. t[n + 1] = x /\ \A k \in Nat : k < n => t[k + 1] = s[k + 1]
  OBVIOUS
<1>3. Solves(short, base, s, n) /\ Solves(long, base, t, n + 1)
  BY <1>1, Solution
<1>4. FoldLeft(ApplyOp, base, s) = short[1..n] /\ FoldLeft(ApplyOp, base, t) = long[1..n + 1]
  BY <1>1, FoldIs
<1> HIDE DEF n, t, short, long
<1>5. Turns(short, base, s, n) /\ Turns(long, base, t, n + 1)
  BY <1>1, <1>3, SolutionTurns
<1>6. 0 \in T
  BY <1>1, <1>5 DEF Turns
<1>7. ASSUME NEW k \in Nat, k < n, k \in T PROVE k + 1 \in T
  <2>1. short[1..k + 1] = long[1..k + 1]
    BY <1>1, <1>2, <1>5, <1>7 DEF Turns
  <2> QED
    BY <1>1, <1>7, <2>1
<1> HIDE DEF T
<1>8. n \in T
  BY <1>1, <1>6, <1>7, Climb DEF Climbs
<1>9. short[1..n] = long[1..n]
  BY <1>8 DEF T
<1> QED
  BY <1>1, <1>2, <1>4, <1>5, <1>9 DEF t, Turns

(***************************************************************************)

(***************************************************************************)
(* The order of the query.                                                 *)
(***************************************************************************)
\* What every table is: rows with ids, no id twice.
Tidy(rows) ==
    /\ rows \in Seq(Ops(rows))
    /\ \A op \in Ops(rows) : op.id \in Id
    /\ \A i, j \in DOMAIN rows : rows[i].id = rows[j].id => i = j

LEMMA FitsTidy == ASSUME NEW rows, NEW room, TableFits(rows, room) PROVE Tidy(rows)
BY DEF TableFits, IdFits, Tidy

LEMMA TidyRows ==
    ASSUME NEW rows, Tidy(rows)
    PROVE  /\ Len(rows) \in Nat /\ DOMAIN rows = 1..Len(rows)
           /\ \A i \in DOMAIN rows : /\ rows[i] \in Ops(rows) /\ rows[i].id \in Id
                                     /\ i \in Nat
                                     /\ rows[i].id.ts \in Nat /\ rows[i].id.seq \in Nat
<1>1. rows \in Seq(Ops(rows))
  BY DEF Tidy
<1>2. Len(rows) \in Nat /\ DOMAIN rows = 1..Len(rows)
  BY <1>1
<1>3. \A i \in DOMAIN rows : rows[i] \in Ops(rows)
  BY DEF Ops
<1>4. \A id \in Id : id.ts \in Nat /\ id.seq \in Nat
  BY DEF Id
<1> QED
  BY <1>2, <1>3, <1>4 DEF Tidy

\* The query's order is total: no two rows come out in either order.
LEMMA BeforeIsTotal ==
    ASSUME NEW rows, Tidy(rows), NEW i \in DOMAIN rows, NEW j \in DOMAIN rows
    PROVE  /\ ~Before(rows, i, i)
           /\ i = j \/ Before(rows, i, j) \/ Before(rows, j, i)
           /\ ~(Before(rows, i, j) /\ Before(rows, j, i))
           /\ \A k \in DOMAIN rows : Before(rows, i, j) /\ Before(rows, j, k) => Before(rows, i, k)
<1>1. \A k \in DOMAIN rows : k \in Nat /\ rows[k].id.ts \in Nat /\ rows[k].id.seq \in Nat
  BY TidyRows
<1> QED
  BY <1>1 DEF Before

LEMMA UpTo == ASSUME NEW n \in Nat PROVE IsFiniteSet(1..n) /\ Cardinality(1..n) = n
<1>1. IsFiniteSet(1..n) /\ Cardinality(1..n) = IF 1 > n THEN 0 ELSE n - 1 + 1
  BY FS_Interval
<1>2. (IF 1 > n THEN 0 ELSE n - 1 + 1) = n
  OBVIOUS
<1> QED
  BY <1>1, <1>2

Lower(rows, i) == {j \in DOMAIN rows : Before(rows, j, i)}

LEMMA LowerSize ==
    ASSUME NEW rows, Tidy(rows), NEW i \in DOMAIN rows
    PROVE  /\ IsFiniteSet(Lower(rows, i)) /\ Cardinality(Lower(rows, i)) \in Nat
           /\ Rank(rows, i) = 1 + Cardinality(Lower(rows, i))
           /\ Rank(rows, i) \in 1..Len(rows)
<1> DEFINE n == Len(rows)
<1>1. n \in Nat /\ DOMAIN rows = 1..n
  BY TidyRows
<1>2. IsFiniteSet(1..n) /\ Cardinality(1..n) = n
  BY <1>1, UpTo
<1>3. Lower(rows, i) \in SUBSET (1..n) /\ i \notin Lower(rows, i) /\ i \in 1..n
  BY <1>1, BeforeIsTotal DEF Lower
<1>4. IsFiniteSet(Lower(rows, i)) /\ Cardinality(Lower(rows, i)) <= n
  BY <1>2, <1>3, FS_Subset
<1>5. Cardinality(Lower(rows, i)) \in Nat
  BY <1>4, FS_CardinalityType
<1>6. Cardinality(Lower(rows, i)) # n
  BY <1>2, <1>3, FS_Subset
<1>7. Rank(rows, i) = 1 + Cardinality(Lower(rows, i))
  BY DEF Rank, Lower
<1> HIDE DEF n
<1>8. 1 + Cardinality(Lower(rows, i)) \in 1..n
  BY <1>1, <1>4, <1>5, <1>6
<1> QED
  BY <1>4, <1>5, <1>7, <1>8 DEF n

LEMMA RankOrders ==
    ASSUME NEW rows, Tidy(rows), NEW i \in DOMAIN rows, NEW j \in DOMAIN rows,
           Before(rows, i, j)
    PROVE  Rank(rows, i) < Rank(rows, j)
<1>1. Lower(rows, i) \in SUBSET Lower(rows, j)
  BY BeforeIsTotal DEF Lower
<1>2. i \in Lower(rows, j) /\ i \notin Lower(rows, i)
  BY BeforeIsTotal DEF Lower
<1>3. IsFiniteSet(Lower(rows, j)) /\ Cardinality(Lower(rows, j)) \in Nat
      /\ Rank(rows, j) = 1 + Cardinality(Lower(rows, j))
  BY LowerSize
<1>4. Cardinality(Lower(rows, i)) \in Nat /\ Rank(rows, i) = 1 + Cardinality(Lower(rows, i))
  BY LowerSize
<1>5. Cardinality(Lower(rows, i)) <= Cardinality(Lower(rows, j))
      /\ Cardinality(Lower(rows, i)) # Cardinality(Lower(rows, j))
  BY <1>1, <1>2, <1>3, FS_Subset
<1> QED
  BY <1>3, <1>4, <1>5

\* The row that comes out as number k.
At(rows, k) == CHOOSE i \in DOMAIN rows : Rank(rows, i) = k

LEMMA RanksAreTaken ==
    ASSUME NEW rows, Tidy(rows)
    PROVE  /\ \A i, j \in DOMAIN rows : Rank(rows, i) = Rank(rows, j) => i = j
           /\ \A k \in 1..Len(rows) : At(rows, k) \in DOMAIN rows /\ Rank(rows, At(rows, k)) = k
           /\ \A i \in DOMAIN rows : At(rows, Rank(rows, i)) = i
<1> DEFINE n == Len(rows)
           f == [i \in 1..n |-> Rank(rows, i)]
<1>1. n \in Nat /\ DOMAIN rows = 1..n
  BY TidyRows
<1>2. ASSUME NEW i \in DOMAIN rows, NEW j \in DOMAIN rows, Rank(rows, i) = Rank(rows, j)
      PROVE  i = j
  <2>1. Rank(rows, i) \in 1..n /\ Rank(rows, j) \in 1..n
    BY LowerSize
  <2>2. ~Before(rows, i, j)
    BY <1>1, <1>2, <2>1, RankOrders
  <2>3. ~Before(rows, j, i)
    BY <1>1, <1>2, <2>1, RankOrders
  <2> QED
    BY <2>2, <2>3, BeforeIsTotal
<1>3. IsFiniteSet(1..n) /\ Cardinality(1..n) = n
  BY <1>1, UpTo
<1>4. \A i \in 1..n : Rank(rows, i) \in 1..n
  BY <1>1, LowerSize
<1>5. f \in Injection(1..n, 1..n)
  <2>1. f \in [1..n -> 1..n]
    BY <1>4
  <2>2. \A a, b \in 1..n : f[a] = f[b] => a = b
    BY <1>1, <1>2
  <2> HIDE DEF f
  <2> QED
    BY <2>1, <2>2 DEF Injection, IsInjective
<1>6. f \in Surjection(1..n, 1..n)
  <2> HIDE DEF f
  <2> QED
    BY <1>3, <1>5, FS_Injection
<1>7. ASSUME NEW k \in 1..n PROVE \E i \in DOMAIN rows : Rank(rows, i) = k
  <2>1. \E i \in 1..n : f[i] = k
    <3> HIDE DEF f
    <3> QED
      BY <1>6 DEF Surjection
  <2> QED
    BY <1>1, <2>1
<1>8. ASSUME NEW k \in 1..n PROVE At(rows, k) \in DOMAIN rows /\ Rank(rows, At(rows, k)) = k
  BY <1>7 DEF At
<1>9. ASSUME NEW i \in DOMAIN rows PROVE At(rows, Rank(rows, i)) = i
  <2>1. Rank(rows, i) \in 1..n
    BY LowerSize
  <2>2. At(rows, Rank(rows, i)) \in DOMAIN rows
        /\ Rank(rows, At(rows, Rank(rows, i))) = Rank(rows, i)
    BY <1>8, <2>1
  <2> QED
    BY <1>2, <2>2
<1> QED
  BY <1>2, <1>8, <1>9

LEMMA InOrderIs ==
    ASSUME NEW rows, Tidy(rows)
    PROVE  /\ DOMAIN InOrder(rows) = 1..Len(rows) /\ Len(rows) \in Nat
           /\ InOrder(rows) \in Seq(Ops(rows)) /\ Len(InOrder(rows)) = Len(rows)
           /\ \A k \in 1..Len(rows) : InOrder(rows)[k] = rows[At(rows, k)]
           /\ Ops(InOrder(rows)) = Ops(rows)
<1> DEFINE n == Len(rows)
           s == InOrder(rows)
<1>1. n \in Nat /\ DOMAIN rows = 1..n
  BY TidyRows
<1>2. s = [k \in 1..n |-> rows[At(rows, k)]]
  BY <1>1 DEF InOrder, At
<1>3. \A k \in 1..n : At(rows, k) \in DOMAIN rows
  BY RanksAreTaken
<1>4. \A k \in 1..n : rows[At(rows, k)] \in Ops(rows)
  BY <1>3 DEF Ops
<1>5. ASSUME NEW S, NEW f \in [1..n -> S] PROVE f \in Seq(S) /\ Len(f) = n
  BY <1>1
<1>6. DOMAIN s = 1..n /\ \A k \in 1..n : s[k] = rows[At(rows, k)]
  BY <1>2
<1>7. s \in [1..n -> Ops(rows)]
  BY <1>2, <1>4
<1> HIDE DEF s
<1>8. s \in Seq(Ops(rows)) /\ Len(s) = n
  BY <1>5, <1>7
<1>9. Ops(s) \subseteq Ops(rows)
  BY <1>4, <1>6 DEF Ops
<1>10. ASSUME NEW op \in Ops(rows) PROVE op \in Ops(s)
  <2>1. PICK i \in DOMAIN rows : rows[i] = op
    BY DEF Ops
  <2>2. Rank(rows, i) \in 1..n /\ At(rows, Rank(rows, i)) = i
    BY LowerSize, RanksAreTaken
  <2>3. s[Rank(rows, i)] = op
    BY <1>6, <2>1, <2>2
  <2> QED
    BY <1>6, <2>2, <2>3 DEF Ops
<1> QED
  BY <1>1, <1>6, <1>8, <1>9, <1>10 DEF s

\* Same ops, same history: the order of arrival decides only among rows alike
\* in both columns.
LEMMA OrderIsOfOps ==
    ASSUME NEW p, NEW q, Tidy(p), Tidy(q), Ops(p) = Ops(q), ~Tied(p)
    PROVE  InOrder(p) = InOrder(q)
<1> DEFINE g == [i \in DOMAIN p |-> CHOOSE j \in DOMAIN q : q[j] = p[i]]
<1>1. ASSUME NEW i \in DOMAIN p PROVE g[i] \in DOMAIN q /\ q[g[i]] = p[i]
  <2>1. \E j \in DOMAIN q : q[j] = p[i]
    BY DEF Ops
  <2> QED
    BY <2>1
<1>2. ASSUME NEW i \in DOMAIN p, NEW j \in DOMAIN p, g[i] = g[j] PROVE i = j
  <2>1. p[i] = p[j]
    BY <1>1, <1>2
  <2> QED
    BY <2>1 DEF Tidy
<1>3. ASSUME NEW j \in DOMAIN q PROVE \E i \in DOMAIN p : g[i] = j
  <2>1. PICK i \in DOMAIN p : p[i] = q[j]
    BY DEF Ops
  <2>2. g[i] \in DOMAIN q /\ q[g[i]].id = q[j].id
    BY <1>1, <2>1
  <2> QED
    BY <2>2 DEF Tidy
<1>4. DOMAIN g = DOMAIN p
  OBVIOUS
<1> HIDE DEF g
<1>5. ASSUME NEW i \in DOMAIN p, NEW j \in DOMAIN p, i # j
      PROVE  Before(p, i, j) <=> Before(q, g[i], g[j])
  <2>1. p[i].id # p[j].id /\ p[i] \in Ops(p) /\ p[j] \in Ops(p)
    BY <1>5 DEF Tidy, Ops
  <2>2. ~(p[i].id.ts = p[j].id.ts /\ p[i].id.seq = p[j].id.seq)
    BY <2>1 DEF Tied
  <2> QED
    BY <1>1, <2>2 DEF Before
<1>6. ASSUME NEW i \in DOMAIN p PROVE Rank(p, i) = Rank(q, g[i])
  <2> DEFINE S == Lower(p, i)
             T == Lower(q, g[i])
             h == [j \in S |-> g[j]]
  <2>0. S \subseteq DOMAIN p /\ \A j \in S : j # i /\ Before(p, j, i)
    BY BeforeIsTotal DEF Lower
  <2>1. h \in [S -> T]
    <3>1. ASSUME NEW j \in S PROVE g[j] \in T
      BY <1>1, <1>5, <2>0 DEF Lower
    <3> QED
      BY <3>1
  <2>2. \A a, b \in S : h[a] = h[b] => a = b
    BY <1>2, <2>0
  <2>3. ASSUME NEW k \in T PROVE \E j \in S : h[j] = k
    <3>1. k \in DOMAIN q /\ Before(q, k, g[i])
      BY DEF Lower
    <3>2. PICK j \in DOMAIN p : g[j] = k
      BY <1>3, <3>1
    <3>3. j # i
      BY <1>1, <3>1, <3>2, BeforeIsTotal
    <3>4. j \in S
      BY <1>5, <3>1, <3>2, <3>3 DEF Lower
    <3> QED
      BY <3>2, <3>4
  <2> HIDE DEF h
  <2>4. h \in Bijection(S, T)
    BY <2>1, <2>2, <2>3 DEF Bijection, Injection, Surjection, IsInjective
  <2>5. ExistsBijection(S, T)
    BY <2>4 DEF ExistsBijection
  <2>6. IsFiniteSet(S)
    BY LowerSize
  <2> HIDE DEF S, T
  <2>7. Cardinality(S) = Cardinality(T)
    BY <2>5, <2>6, FS_Bijection, ZenonT(60)
  <2> QED
    BY <1>1, <2>7, LowerSize DEF S, T
<1>7. Len(p) = Len(q)
  <2>1. /\ Len(p) \in Nat /\ DOMAIN p = 1..Len(p) /\ Len(q) \in Nat /\ DOMAIN q = 1..Len(q)
    BY TidyRows
  <2>2. g \in Bijection(DOMAIN p, DOMAIN q)
    <3>1. g \in [DOMAIN p -> DOMAIN q]
      <4>1. g = [i \in DOMAIN p |-> g[i]]
        BY DEF g
      <4> QED
        BY <1>1, <4>1
    <3> QED
      BY <1>2, <1>3, <1>4, <3>1 DEF Bijection, Injection, Surjection, IsInjective
  <2>3. ExistsBijection(DOMAIN p, DOMAIN q)
    BY <2>2 DEF ExistsBijection
  <2>4. Cardinality(DOMAIN p) = Cardinality(DOMAIN q)
    BY <2>1, <2>3, UpTo, FS_Bijection
  <2> QED
    BY <2>1, <2>4, UpTo
<1>8. ASSUME NEW k \in 1..Len(p) PROVE InOrder(p)[k] = InOrder(q)[k]
  <2>1. At(p, k) \in DOMAIN p /\ Rank(p, At(p, k)) = k
    BY RanksAreTaken
  <2>2. g[At(p, k)] \in DOMAIN q /\ Rank(q, g[At(p, k)]) = k /\ q[g[At(p, k)]] = p[At(p, k)]
    BY <1>1, <1>6, <2>1
  <2>3. At(q, k) = g[At(p, k)]
    BY <2>2, RanksAreTaken
  <2> QED
    BY <1>7, <2>2, <2>3, InOrderIs
<1>9. /\ InOrder(p) = [k \in 1..Len(p) |-> InOrder(p)[k]]
      /\ InOrder(q) = [k \in 1..Len(q) |-> InOrder(q)[k]]
  BY TidyRows DEF InOrder
<1> QED
  BY <1>7, <1>8, <1>9

(***************************************************************************)
(* What the loop makes of a sequence of ops: for every message the last op *)
(* that touches it, for every reaction its last toggle.                    *)
(***************************************************************************)
Changer(op, id) == op.kind \in {"edit", "delete"} /\ op.target = id /\ IsAuthors(op)
Toggle(op, id, p) == op.kind = "react" /\ op.target = id /\ op.id.sender = p
Word(op) == IF op.kind = "delete" THEN NoText ELSE op.id

\* The op at j writes the message at c, or changes it later on.
Touches(s, c, j) == j = c \/ (c < j /\ Changer(s[j], s[c].id))

\* Message m is the one at c, in the words of the op at k.
Says(s, m, c, k) ==
    /\ c \in DOMAIN s /\ IsMessage(s[c]) /\ m.id = s[c].id
    /\ k \in DOMAIN s /\ Touches(s, c, k)
    /\ \A j \in DOMAIN s : Touches(s, c, j) => j <= k
    /\ m.text = Word(s[k])
    /\ m.deleted <=> \E j \in DOMAIN s : Touches(s, c, j) /\ s[j].kind = "delete"

On(s, id, p) ==
    \E k \in DOMAIN s : /\ Toggle(s[k], id, p) /\ s[k].on
                        /\ \A j \in DOMAIN s : Toggle(s[j], id, p) => j <= k

Shown == [id : Id, text : Id \cup {NoText}, deleted : BOOLEAN]

Listed(s, messages) ==
    /\ messages \in Seq(Shown)
    /\ \A i \in DOMAIN messages : \E c, k \in DOMAIN s : Says(s, messages[i], c, k)
    /\ \A c \in DOMAIN s : IsMessage(s[c]) => \E i \in DOMAIN messages : messages[i].id = s[c].id
    /\ \A i, j \in DOMAIN messages : messages[i].id = messages[j].id => i = j

Reacted(s, reactions) == \A id, p : <<id, p>> \in reactions <=> On(s, id, p)

Loop(s, fold) ==
    /\ fold = [messages |-> fold.messages, reactions |-> fold.reactions]
    /\ Listed(s, fold.messages)
    /\ Reacted(s, fold.reactions)

\* t is s and one op more.
Grows(s, x, t) ==
    /\ Len(s) \in Nat /\ DOMAIN s = 1..Len(s) /\ DOMAIN t = 1..Len(s) + 1
    /\ \A i \in 1..Len(s) : t[i] = s[i]
    /\ t[Len(s) + 1] = x

LEMMA GrowsIn ==
    ASSUME NEW s, NEW x, NEW t, Grows(s, x, t)
    PROVE  /\ \A i \in DOMAIN s : i \in DOMAIN t /\ t[i] = s[i] /\ i \in Nat /\ i < Len(s) + 1
           /\ \A i \in DOMAIN t : i \in DOMAIN s \/ i = Len(s) + 1
           /\ Len(s) + 1 \in DOMAIN t /\ t[Len(s) + 1] = x
           /\ Len(s) + 1 \in Nat /\ Len(s) + 1 \notin DOMAIN s
BY DEF Grows

LEMMA SaysStill ==
    ASSUME NEW s, NEW x, NEW t, Grows(s, x, t), NEW m, NEW c, NEW k, Says(s, m, c, k),
           ~Changer(x, m.id)
    PROVE  Says(t, m, c, k)
<1>1. /\ \A i \in DOMAIN s : i \in DOMAIN t /\ t[i] = s[i] /\ i \in Nat /\ i < Len(s) + 1
      /\ \A i \in DOMAIN t : i \in DOMAIN s \/ i = Len(s) + 1
      /\ t[Len(s) + 1] = x /\ Len(s) + 1 \notin DOMAIN s
  BY GrowsIn
<1>2. c \in DOMAIN s /\ k \in DOMAIN s /\ m.id = s[c].id
  BY DEF Says
<1>3. \A j \in DOMAIN s : Touches(t, c, j) <=> Touches(s, c, j)
  BY <1>1, <1>2 DEF Touches
<1>4. ~Touches(t, c, Len(s) + 1)
  BY <1>1, <1>2 DEF Touches
<1>5. \A j \in DOMAIN t : Touches(t, c, j) => j \in DOMAIN s /\ Touches(s, c, j) /\ t[j] = s[j]
  BY <1>1, <1>3, <1>4
<1>6. (\E j \in DOMAIN t : Touches(t, c, j) /\ t[j].kind = "delete")
        <=> (\E j \in DOMAIN s : Touches(s, c, j) /\ s[j].kind = "delete")
  BY <1>1, <1>3, <1>5
<1> QED
  BY <1>1, <1>2, <1>3, <1>5, <1>6 DEF Says

LEMMA SaysAnew ==
    ASSUME NEW s, NEW x, NEW t, Grows(s, x, t), NEW m, NEW c, NEW k, Says(s, m, c, k),
           Changer(x, m.id), NEW new, new.id = m.id, new.text = Word(x),
           new.deleted <=> (m.deleted \/ x.kind = "delete")
    PROVE  Says(t, new, c, Len(s) + 1)
<1> DEFINE n == Len(s) + 1
<1>1. /\ \A i \in DOMAIN s : i \in DOMAIN t /\ t[i] = s[i] /\ i \in Nat /\ i < n
      /\ \A i \in DOMAIN t : i \in DOMAIN s \/ i = n
      /\ t[n] = x /\ n \in DOMAIN t /\ n \in Nat /\ n \notin DOMAIN s
  BY GrowsIn
<1> HIDE DEF n
<1>2. c \in DOMAIN s /\ m.id = s[c].id /\ IsMessage(s[c])
  BY DEF Says
<1>3. \A j \in DOMAIN s : Touches(t, c, j) <=> Touches(s, c, j)
  BY <1>1, <1>2 DEF Touches
<1>4. Touches(t, c, n)
  BY <1>1, <1>2 DEF Touches
<1>5. \A j \in DOMAIN t : j <= n
  BY <1>1
<1>6. (\E j \in DOMAIN t : Touches(t, c, j) /\ t[j].kind = "delete")
        <=> \/ \E j \in DOMAIN s : Touches(s, c, j) /\ s[j].kind = "delete"
            \/ x.kind = "delete"
  BY <1>1, <1>3, <1>4
<1>7. m.deleted <=> \E j \in DOMAIN s : Touches(s, c, j) /\ s[j].kind = "delete"
  BY DEF Says
<1>8. Says(t, new, c, n)
  BY <1>1, <1>2, <1>4, <1>5, <1>6, <1>7 DEF Says
<1> QED
  BY <1>8 DEF n

LEMMA SaysFirst ==
    ASSUME NEW s, NEW x, NEW t, Grows(s, x, t), IsMessage(x),
           NEW m, m.id = x.id, m.text = x.id, ~m.deleted
    PROVE  Says(t, m, Len(s) + 1, Len(s) + 1)
<1> DEFINE n == Len(s) + 1
<1>1. /\ \A i \in DOMAIN t : i <= n
      /\ t[n] = x /\ n \in DOMAIN t /\ n \in Nat
  BY GrowsIn
<1> HIDE DEF n
<1>2. x.kind # "delete"
  BY DEF IsMessage
<1>3. Touches(t, n, n) /\ \A j \in DOMAIN t : Touches(t, n, j) => j = n
  BY <1>1 DEF Touches, Grows, n
<1>4. Says(t, m, n, n)
  BY <1>1, <1>2, <1>3 DEF Says, Word
<1> QED
  BY <1>4 DEF n

\* A toggle has the last word on its own reaction and on no other.
LEMMA OnStep ==
    ASSUME NEW s, NEW x, NEW t, Grows(s, x, t), NEW id, NEW p
    PROVE  /\ Toggle(x, id, p) => (On(t, id, p) <=> x.on)
           /\ ~Toggle(x, id, p) => (On(t, id, p) <=> On(s, id, p))
<1> DEFINE n == Len(s) + 1
<1>1. /\ \A i \in DOMAIN s : i \in DOMAIN t /\ t[i] = s[i] /\ i \in Nat /\ i < n
      /\ \A i \in DOMAIN t : i \in DOMAIN s \/ i = n
      /\ t[n] = x /\ n \in DOMAIN t /\ n \in Nat /\ n \notin DOMAIN s
  BY GrowsIn
<1> HIDE DEF n
<1>2. ASSUME Toggle(x, id, p) PROVE On(t, id, p) <=> x.on
  <2>1. \A i \in DOMAIN t : i <= n /\ (n <= i => i = n)
    BY <1>1
  <2>2. ASSUME On(t, id, p) PROVE x.on
    <3>1. PICK k \in DOMAIN t : t[k].on /\ \A j \in DOMAIN t : Toggle(t[j], id, p) => j <= k
      BY <2>2 DEF On
    <3>2. n <= k
      BY <1>1, <1>2, <3>1
    <3>3. k = n
      BY <2>1, <3>2
    <3> QED
      BY <1>1, <3>1, <3>3
  <2>3. ASSUME x.on PROVE On(t, id, p)
    BY <1>1, <1>2, <2>1, <2>3 DEF On
  <2> QED
    BY <2>2, <2>3
<1>3. ASSUME ~Toggle(x, id, p) PROVE On(t, id, p) <=> On(s, id, p)
  <2>1. ~Toggle(t[n], id, p)
    BY <1>1, <1>3
  <2>2. \A j \in DOMAIN t : Toggle(t[j], id, p) => j \in DOMAIN s /\ t[j] = s[j]
    BY <1>1, <2>1
  <2>3. ASSUME On(t, id, p) PROVE On(s, id, p)
    <3>1. PICK k \in DOMAIN t :
            /\ Toggle(t[k], id, p) /\ t[k].on
            /\ \A j \in DOMAIN t : Toggle(t[j], id, p) => j <= k
      BY <2>3 DEF On
    <3>2. k \in DOMAIN s /\ t[k] = s[k]
      BY <2>2, <3>1
    <3>3. \A j \in DOMAIN s : Toggle(s[j], id, p) => j <= k
      BY <1>1, <3>1
    <3> QED
      BY <3>1, <3>2, <3>3 DEF On
  <2>4. ASSUME On(s, id, p) PROVE On(t, id, p)
    <3>1. PICK k \in DOMAIN s :
            /\ Toggle(s[k], id, p) /\ s[k].on
            /\ \A j \in DOMAIN s : Toggle(s[j], id, p) => j <= k
      BY <2>4 DEF On
    <3>2. \A j \in DOMAIN t : Toggle(t[j], id, p) => j <= k
      BY <2>2, <3>1
    <3> QED
      BY <1>1, <3>1, <3>2 DEF On
  <2> QED
    BY <2>3, <2>4
<1> QED
  BY <1>2, <1>3

LEMMA MessageStep ==
    ASSUME NEW s, NEW x, NEW t, Grows(s, x, t), NEW ms, Listed(s, ms),
           IsMessage(x), x.id \in Id, \A i \in DOMAIN s : s[i].id # x.id
    PROVE  Listed(t, Append(ms, [id |-> x.id, text |-> x.id, deleted |-> FALSE]))
<1> DEFINE m == [id |-> x.id, text |-> x.id, deleted |-> FALSE]
           new == Append(ms, m)
           n == Len(ms)
<1>1. ms \in Seq(Shown)
  BY DEF Listed
<1>2. m \in Shown /\ m.id = x.id /\ m.text = x.id /\ ~m.deleted
  BY DEF Shown
<1> HIDE DEF m
<1>3. /\ n \in Nat /\ DOMAIN ms = 1..n /\ DOMAIN new = 1..n + 1 /\ new \in Seq(Shown)
      /\ new[n + 1] = m /\ \A i \in DOMAIN ms : new[i] = ms[i]
  BY <1>1, <1>2
<1> HIDE DEF new, n
<1>4. \A i \in DOMAIN new : i \in DOMAIN ms \/ i = n + 1
  BY <1>3
<1>5. \A id : ~Changer(x, id)
  BY DEF Changer, IsMessage
<1>6. \A c \in DOMAIN s : c \in DOMAIN t /\ t[c] = s[c]
  BY GrowsIn
<1>7. ASSUME NEW i \in DOMAIN new PROVE \E c, k \in DOMAIN t : Says(t, new[i], c, k)
  <2>1. CASE i \in DOMAIN ms
    <3>1. PICK c \in DOMAIN s, k \in DOMAIN s : Says(s, ms[i], c, k)
      BY <2>1 DEF Listed
    <3>2. Says(t, ms[i], c, k)
      BY <1>5, <3>1, SaysStill
    <3> QED
      BY <1>3, <1>6, <2>1, <3>2
  <2>2. CASE i = n + 1
    <3>1. Says(t, m, Len(s) + 1, Len(s) + 1) /\ Len(s) + 1 \in DOMAIN t
      BY <1>2, SaysFirst, GrowsIn
    <3> QED
      BY <1>3, <2>2, <3>1
  <2> QED
    BY <1>4, <2>1, <2>2
<1>8. ASSUME NEW c \in DOMAIN t, IsMessage(t[c]) PROVE \E i \in DOMAIN new : new[i].id = t[c].id
  <2>1. CASE c \in DOMAIN s
    <3>1. PICK i \in DOMAIN ms : ms[i].id = s[c].id
      BY <1>6, <1>8, <2>1 DEF Listed
    <3> QED
      BY <1>3, <1>6, <2>1, <3>1
  <2>2. CASE c \notin DOMAIN s
    <3>1. t[c] = x
      BY <2>2, GrowsIn
    <3>2. n + 1 \in DOMAIN new
      BY <1>3
    <3> QED
      BY <1>2, <1>3, <3>1, <3>2
  <2> QED
    BY <2>1, <2>2
<1>9. \A i \in DOMAIN ms : ms[i].id # x.id
  BY DEF Listed, Says
<1>10. \A i, j \in DOMAIN new : new[i].id = new[j].id => i = j
  <2> SUFFICES ASSUME NEW i \in DOMAIN new, NEW j \in DOMAIN new, new[i].id = new[j].id
               PROVE  i = j
    OBVIOUS
  <2>1. CASE i \in DOMAIN ms /\ j \in DOMAIN ms
    BY <1>3, <2>1 DEF Listed
  <2>2. CASE i \in DOMAIN ms /\ j = n + 1
    BY <1>2, <1>3, <1>9, <2>2
  <2>3. CASE i = n + 1 /\ j \in DOMAIN ms
    BY <1>2, <1>3, <1>9, <2>3
  <2> QED
    BY <1>4, <2>1, <2>2, <2>3
<1>11. Listed(t, new)
  BY <1>3, <1>7, <1>8, <1>10 DEF Listed
<1> QED
  BY <1>11 DEF new, m

LEMMA ChangeStep ==
    ASSUME NEW s, NEW x, NEW t, Grows(s, x, t), NEW ms, Listed(s, ms),
           x.kind \in {"edit", "delete"}, IsAuthors(x), x.id \in Id,
           NEW gone \in BOOLEAN, gone <=> x.kind = "delete"
    PROVE  Listed(t, Rewrite(ms, x.target, Word(x), gone))
<1> DEFINE new == Rewrite(ms, x.target, Word(x), gone)
           n == Len(ms)
<1>1. ms \in Seq(Shown) /\ n \in Nat /\ DOMAIN ms = 1..n
  BY DEF Listed
<1>2. Word(x) \in Id \cup {NoText}
  BY DEF Word
<1>3. ASSUME NEW m \in Shown
      PROVE  LET o == [m EXCEPT !.text = Word(x), !.deleted = @ \/ gone] IN
             /\ o \in Shown /\ o.id = m.id /\ o.text = Word(x) /\ o.deleted = (m.deleted \/ gone)
  BY <1>2 DEF Shown
<1>4. DOMAIN new = DOMAIN ms
  BY DEF Rewrite
<1>5. ASSUME NEW i \in DOMAIN ms
      PROVE  /\ new[i] \in Shown /\ new[i].id = ms[i].id
             /\ ms[i].id = x.target =>
                  new[i].text = Word(x) /\ new[i].deleted = (ms[i].deleted \/ gone)
             /\ ms[i].id # x.target => new[i] = ms[i]
  <2>1. ms[i] \in Shown
    BY <1>1
  <2>2. new[i] = IF ms[i].id = x.target
                 THEN [ms[i] EXCEPT !.text = Word(x), !.deleted = @ \/ gone]
                 ELSE ms[i]
    BY DEF Rewrite
  <2> HIDE DEF new
  <2> QED
    BY <1>3, <2>1, <2>2, ZenonT(60)
<1>6. new \in Seq(Shown)
  <2>1. new = [i \in 1..n |-> new[i]]
    BY <1>1 DEF Rewrite
  <2> HIDE DEF new
  <2>2. new \in [1..n -> Shown]
    BY <1>1, <1>5, <2>1
  <2> QED
    BY <1>1, <2>2
<1> HIDE DEF new
<1>7. \A c \in DOMAIN s : c \in DOMAIN t /\ t[c] = s[c]
  BY GrowsIn
<1>8. Len(s) + 1 \in DOMAIN t /\ t[Len(s) + 1] = x /\ \A c \in DOMAIN t : c \in DOMAIN s \/ t[c] = x
  BY GrowsIn
<1>9. ASSUME NEW i \in DOMAIN new PROVE \E c, k \in DOMAIN t : Says(t, new[i], c, k)
  <2>1. PICK c \in DOMAIN s, k \in DOMAIN s : Says(s, ms[i], c, k)
    BY <1>4 DEF Listed
  <2>2. CASE ms[i].id = x.target
    <3>1. Changer(x, ms[i].id)
      BY <2>2 DEF Changer
    <3>2. /\ new[i].id = ms[i].id /\ new[i].text = Word(x)
          /\ new[i].deleted <=> (ms[i].deleted \/ x.kind = "delete")
      BY <1>4, <1>5, <2>2
    <3>3. Says(t, new[i], c, Len(s) + 1)
      BY <2>1, <3>1, <3>2, SaysAnew
    <3> QED
      BY <1>7, <1>8, <3>3
  <2>3. CASE ms[i].id # x.target
    <3>1. ~Changer(x, ms[i].id)
      BY <2>3 DEF Changer
    <3>2. Says(t, ms[i], c, k)
      BY <2>1, <3>1, SaysStill
    <3> QED
      BY <1>4, <1>5, <1>7, <2>3, <3>2
  <2> QED
    BY <2>2, <2>3
<1>10. ASSUME NEW c \in DOMAIN t, IsMessage(t[c]) PROVE \E i \in DOMAIN new : new[i].id = t[c].id
  <2>1. c \in DOMAIN s
    BY <1>8, <1>10 DEF IsMessage
  <2>2. PICK i \in DOMAIN ms : ms[i].id = s[c].id
    BY <1>7, <1>10, <2>1 DEF Listed
  <2> QED
    BY <1>4, <1>5, <1>7, <2>1, <2>2
<1>11. \A i, j \in DOMAIN new : new[i].id = new[j].id => i = j
  BY <1>4, <1>5 DEF Listed
<1>12. Listed(t, new)
  BY <1>6, <1>9, <1>10, <1>11 DEF Listed
<1> QED
  BY <1>12 DEF new

LEMMA QuietStep ==
    ASSUME NEW s, NEW x, NEW t, Grows(s, x, t), NEW ms, Listed(s, ms),
           ~IsMessage(x), \A id : ~Changer(x, id)
    PROVE  Listed(t, ms)
<1>1. \A c \in DOMAIN s : c \in DOMAIN t /\ t[c] = s[c]
  BY GrowsIn
<1>2. \A c \in DOMAIN t : c \in DOMAIN s \/ t[c] = x
  BY GrowsIn
<1>3. ASSUME NEW i \in DOMAIN ms PROVE \E c, k \in DOMAIN t : Says(t, ms[i], c, k)
  <2>1. PICK c \in DOMAIN s, k \in DOMAIN s : Says(s, ms[i], c, k)
    BY DEF Listed
  <2>2. Says(t, ms[i], c, k)
    BY <2>1, SaysStill
  <2> QED
    BY <1>1, <2>2
<1>4. ASSUME NEW c \in DOMAIN t, IsMessage(t[c]) PROVE \E i \in DOMAIN ms : ms[i].id = t[c].id
  <2>1. c \in DOMAIN s
    BY <1>2, <1>4
  <2> QED
    BY <1>1, <1>4, <2>1 DEF Listed
<1> QED
  BY <1>3, <1>4 DEF Listed

LEMMA LoopOf ==
    ASSUME NEW s, NEW ms, NEW rs, Listed(s, ms), Reacted(s, rs)
    PROVE  Loop(s, [messages |-> ms, reactions |-> rs])
<1> DEFINE fold == [messages |-> ms, reactions |-> rs]
<1>1. fold.messages = ms /\ fold.reactions = rs
  OBVIOUS
<1> HIDE DEF fold
<1>2. fold = [messages |-> ms, reactions |-> rs]
  BY DEF fold
<1>3. Loop(s, fold)
  BY <1>1, <1>2 DEF Loop
<1> QED
  BY <1>3 DEF fold

\* One turn of the loop keeps what it stands for.
LEMMA LoopStep ==
    ASSUME NEW s, NEW x, NEW t, Grows(s, x, t), NEW fold, Loop(s, fold),
           x.id \in Id, \A i \in DOMAIN s : s[i].id # x.id
    PROVE  Loop(t, ApplyOp(fold, x))
<1> DEFINE ms == fold.messages
           rs == fold.reactions
<1>1. fold = [messages |-> ms, reactions |-> rs] /\ Listed(s, ms) /\ Reacted(s, rs)
  BY DEF Loop
<1> HIDE DEF ms, rs
<1>2. ASSUME NEW v
      PROVE  /\ [fold EXCEPT !.messages = v] = [messages |-> v, reactions |-> rs]
             /\ [fold EXCEPT !.reactions = v] = [messages |-> ms, reactions |-> v]
  BY <1>1
<1>3. ASSUME x.kind # "react" PROVE Reacted(t, rs)
  <2>1. \A id, p : ~Toggle(x, id, p)
    BY <1>3 DEF Toggle
  <2> QED
    BY <1>1, <2>1, OnStep DEF Reacted
<1>4. CASE IsMessage(x)
  <2> DEFINE new == Append(ms, [id |-> x.id, text |-> x.id, deleted |-> FALSE])
  <2>1. ApplyOp(fold, x) = [fold EXCEPT !.messages = new]
    BY <1>1, <1>4 DEF ApplyOp, IsMessage
  <2>2. Listed(t, new)
    BY <1>1, <1>4, MessageStep
  <2>3. Reacted(t, rs)
    BY <1>3, <1>4 DEF IsMessage
  <2> HIDE DEF new
  <2>4. ApplyOp(fold, x) = [messages |-> new, reactions |-> rs]
    BY <1>2, <2>1
  <2> QED
    BY <2>2, <2>3, <2>4, LoopOf
<1>5. CASE x.kind = "edit" /\ IsAuthors(x)
  <2> DEFINE new == Rewrite(ms, x.target, x.id, FALSE)
  <2>1. ApplyOp(fold, x) = [fold EXCEPT !.messages = new]
    BY <1>1, <1>5 DEF ApplyOp, IsMessage
  <2>2. Listed(t, new)
    <3>1. Word(x) = x.id
      BY <1>5 DEF Word
    <3>2. Listed(t, Rewrite(ms, x.target, Word(x), FALSE))
      BY <1>1, <1>5, ChangeStep
    <3> QED
      BY <3>1, <3>2
  <2>3. Reacted(t, rs)
    BY <1>3, <1>5
  <2> HIDE DEF new
  <2>4. ApplyOp(fold, x) = [messages |-> new, reactions |-> rs]
    BY <1>2, <2>1
  <2> QED
    BY <2>2, <2>3, <2>4, LoopOf
<1>6. CASE x.kind = "delete" /\ IsAuthors(x)
  <2> DEFINE new == Rewrite(ms, x.target, NoText, TRUE)
  <2>1. ApplyOp(fold, x) = [fold EXCEPT !.messages = new]
    BY <1>1, <1>6 DEF ApplyOp, IsMessage
  <2>2. Listed(t, new)
    <3>1. Word(x) = NoText
      BY <1>6 DEF Word
    <3>2. Listed(t, Rewrite(ms, x.target, Word(x), TRUE))
      BY <1>1, <1>6, ChangeStep
    <3> QED
      BY <3>1, <3>2
  <2>3. Reacted(t, rs)
    BY <1>3, <1>6
  <2> HIDE DEF new
  <2>4. ApplyOp(fold, x) = [messages |-> new, reactions |-> rs]
    BY <1>2, <2>1
  <2> QED
    BY <2>2, <2>3, <2>4, LoopOf
<1>7. CASE x.kind = "react"
  <2> DEFINE on == rs \cup {<<x.target, x.id.sender>>}
             off == rs \ {<<x.target, x.id.sender>>}
  <2>1. ApplyOp(fold, x) = IF x.on THEN [fold EXCEPT !.reactions = on]
                                   ELSE [fold EXCEPT !.reactions = off]
    BY <1>1, <1>7 DEF ApplyOp, IsMessage
  <2>2. Listed(t, ms)
    BY <1>1, <1>7, QuietStep DEF IsMessage, Changer
  <2>3. \A id, p : Toggle(x, id, p) <=> <<id, p>> = <<x.target, x.id.sender>>
    BY <1>7 DEF Toggle
  <2>4. x.on => Reacted(t, on)
    BY <1>1, <2>3, OnStep, ZenonT(60) DEF Reacted
  <2>5. ~x.on => Reacted(t, off)
    BY <1>1, <2>3, OnStep, ZenonT(60) DEF Reacted
  <2> HIDE DEF on, off
  <2>6. CASE x.on
    <3>1. ApplyOp(fold, x) = [messages |-> ms, reactions |-> on]
      BY <1>2, <2>1, <2>6
    <3> QED
      BY <2>2, <2>4, <2>6, <3>1, LoopOf
  <2>7. CASE ~x.on
    <3>1. ApplyOp(fold, x) = [messages |-> ms, reactions |-> off]
      BY <1>2, <2>1, <2>7
    <3> QED
      BY <2>2, <2>5, <2>7, <3>1, LoopOf
  <2> QED
    BY <2>6, <2>7
<1>8. CASE ~IsMessage(x) /\ x.kind # "react" /\ ~(x.kind \in {"edit", "delete"} /\ IsAuthors(x))
  <2>1. ApplyOp(fold, x) = fold
    BY <1>8 DEF ApplyOp
  <2>2. Listed(t, ms)
    BY <1>1, <1>8, QuietStep DEF Changer
  <2>3. Reacted(t, rs)
    BY <1>3, <1>8
  <2>4. Loop(t, [messages |-> ms, reactions |-> rs])
    BY <2>2, <2>3, LoopOf
  <2> QED
    BY <1>1, <2>1, <2>4
<1> QED
  BY <1>4, <1>5, <1>6, <1>7, <1>8

Blank == [messages |-> <<>>, reactions |-> {}]
Folded(s) == FoldLeft(ApplyOp, Blank, s)

LEMMA FoldedAppend ==
    ASSUME NEW S, NEW s \in Seq(S), NEW x \in S
    PROVE  Folded(Append(s, x)) = ApplyOp(Folded(s), x)
BY FoldAppend, ZenonT(60) DEF Folded

LEMMA LoopBase == Loop(<<>>, Folded(<<>>))
<1>1. Folded(<<>>) = Blank
  BY FoldEmpty DEF Folded
<1>2. Blank.messages = <<>> /\ Blank.reactions = {}
      /\ Blank = [messages |-> Blank.messages, reactions |-> Blank.reactions]
  BY DEF Blank
<1>3. DOMAIN <<>> = {} /\ <<>> \in Seq(Shown)
  OBVIOUS
<1>4. Listed(<<>>, <<>>)
  BY <1>3 DEF Listed
<1>5. Reacted(<<>>, {})
  BY <1>3 DEF Reacted, On
<1> QED
  BY <1>1, <1>2, <1>4, <1>5 DEF Loop

LEMMA FirstOps ==
    ASSUME NEW S, NEW l \in Seq(S)
    PROVE  /\ SubSeq(l, 1, 0) = <<>> /\ SubSeq(l, 1, Len(l)) = l
           /\ \A k \in 0..Len(l) : /\ SubSeq(l, 1, k) \in Seq(S)
                                   /\ Len(SubSeq(l, 1, k)) = k
                                   /\ \A i \in 1..k : SubSeq(l, 1, k)[i] = l[i]
           /\ \A k \in Nat : k < Len(l) =>
                SubSeq(l, 1, k + 1) = Append(SubSeq(l, 1, k), l[k + 1])
OBVIOUS

LEMMA LoopMeans == \A s : Tidy(s) => Loop(s, Folded(s))
<1> SUFFICES ASSUME NEW s, Tidy(s) PROVE Loop(s, Folded(s))
  OBVIOUS
<1> DEFINE n == Len(s)
           p(k) == SubSeq(s, 1, k)
           T == {k \in 0..n : Loop(p(k), Folded(p(k)))}
<1>1. s \in Seq(Ops(s)) /\ n \in Nat /\ DOMAIN s = 1..n
  BY TidyRows DEF Tidy
<1>2. 0 \in T
  <2>1. p(0) = <<>>
    BY <1>1, FirstOps
  <2>2. Loop(p(0), Folded(p(0)))
    BY <2>1, LoopBase
  <2> HIDE DEF p
  <2> QED
    BY <1>1, <2>2
<1>3. ASSUME NEW k \in Nat, k < n, k \in T PROVE k + 1 \in T
  <2> DEFINE x == s[k + 1]
  <2>1. /\ p(k) \in Seq(Ops(s)) /\ Len(p(k)) = k /\ \A i \in 1..k : p(k)[i] = s[i]
        /\ p(k + 1) = Append(p(k), x)
    BY <1>1, <1>3, FirstOps
  <2>2. x \in Ops(s) /\ x.id \in Id
    BY <1>1, <1>3, TidyRows
  <2>3. Loop(p(k), Folded(p(k)))
    BY <1>3
  <2>4. \A i \in 1..k : s[i].id # x.id
    BY <1>1, <1>3, SMTT(30) DEF Tidy
  <2> HIDE DEF p, x, n
  <2>5. Grows(p(k), x, p(k + 1))
    BY <1>3, <2>1, <2>2, SMTT(30) DEF Grows
  <2>6. \A i \in DOMAIN p(k) : p(k)[i].id # x.id
    <3>1. DOMAIN p(k) = 1..k
      BY <2>1
    <3> QED
      BY <2>1, <2>4, <3>1
  <2>7. Folded(p(k + 1)) = ApplyOp(Folded(p(k)), x)
    <3>1. p(k) \in Seq(Ops(s)) /\ x \in Ops(s)
      BY <2>1, <2>2
    <3>2. Folded(Append(p(k), x)) = ApplyOp(Folded(p(k)), x)
      BY ONLY <3>1, FoldedAppend, Zenon
    <3> QED
      BY ONLY <2>1, <3>2
  <2>8. Loop(p(k + 1), Folded(p(k + 1)))
    BY <2>2, <2>3, <2>5, <2>6, <2>7, LoopStep
  <2> QED
    BY <1>1, <1>3, <2>8
<1> HIDE DEF T, n
<1>4. n \in T
  BY <1>1, <1>2, <1>3, Climb DEF Climbs
<1> QED
  BY <1>1, <1>4, FirstOps DEF T, n

(***************************************************************************)
(* What the history of a table shows, in terms of its rows.                *)
(***************************************************************************)
\* The row at j writes the message at c, or its author changed it there later.
Bears(rows, c, j) == j = c \/ (Before(rows, c, j) /\ Changer(rows[j], rows[c].id))

\* Message m is the row at c, in the words of the row at k.
Tells(rows, m, c, k) ==
    /\ c \in DOMAIN rows /\ IsMessage(rows[c]) /\ m.id = rows[c].id
    /\ k \in DOMAIN rows /\ Bears(rows, c, k)
    /\ \A j \in DOMAIN rows : Bears(rows, c, j) => j = k \/ Before(rows, j, k)
    /\ m.text = Word(rows[k])
    /\ m.deleted \in BOOLEAN
    /\ m.deleted <=> \E j \in DOMAIN rows : Bears(rows, c, j) /\ rows[j].kind = "delete"

Toggled(rows, id, p) ==
    \E k \in DOMAIN rows :
       /\ Toggle(rows[k], id, p) /\ rows[k].on
       /\ \A j \in DOMAIN rows : Toggle(rows[j], id, p) => j = k \/ Before(rows, j, k)

Historic(rows, h) ==
    /\ Len(h) \in Nat /\ DOMAIN h = 1..Len(h)
    /\ \A i \in DOMAIN h : \E c, k \in DOMAIN rows : Tells(rows, h[i], c, k)
    /\ \A c \in DOMAIN rows : IsMessage(rows[c]) => \E i \in DOMAIN h : h[i].id = rows[c].id
    /\ \A i, j \in DOMAIN h : h[i].id = h[j].id => i = j
    /\ \A i \in DOMAIN h : \A p \in Peers : p \in h[i].reactors <=> Toggled(rows, h[i].id, p)

\* The sequence the loop runs over is a table itself, in the query's order.
LEMMA OrderedRows ==
    ASSUME NEW rows, Tidy(rows)
    PROVE  /\ Tidy(InOrder(rows))
           /\ \A k \in 1..Len(rows) : /\ At(rows, k) \in DOMAIN rows
                                      /\ InOrder(rows)[k] = rows[At(rows, k)]
           /\ \A i \in DOMAIN rows : \E k \in 1..Len(rows) : At(rows, k) = i
           /\ \A k, l \in 1..Len(rows) : /\ k < l <=> Before(rows, At(rows, k), At(rows, l))
                                         /\ At(rows, k) = At(rows, l) => k = l
<1> DEFINE n == Len(rows)
           s == InOrder(rows)
<1>1. /\ n \in Nat /\ DOMAIN s = 1..n /\ s \in Seq(Ops(s)) /\ Ops(s) = Ops(rows)
      /\ \A k \in 1..n : s[k] = rows[At(rows, k)]
  BY InOrderIs
<1>2. \A k \in 1..n : At(rows, k) \in DOMAIN rows /\ Rank(rows, At(rows, k)) = k
  BY RanksAreTaken
<1>3. ASSUME NEW i \in DOMAIN rows PROVE \E k \in 1..n : At(rows, k) = i
  <2>1. Rank(rows, i) \in 1..n /\ At(rows, Rank(rows, i)) = i
    BY LowerSize, RanksAreTaken
  <2> QED
    BY <2>1
<1>4. \A k, l \in 1..n : At(rows, k) = At(rows, l) => k = l
  BY <1>2
<1>5. ASSUME NEW k \in 1..n, NEW l \in 1..n
      PROVE  k < l <=> Before(rows, At(rows, k), At(rows, l))
  <2>1. ASSUME Before(rows, At(rows, k), At(rows, l)) PROVE k < l
    BY <1>2, <2>1, RankOrders
  <2>2. ASSUME k < l PROVE Before(rows, At(rows, k), At(rows, l))
    <3>1. k \in Nat /\ l \in Nat /\ At(rows, k) # At(rows, l)
      BY <1>1, <1>2, <2>2
    <3>2. ~Before(rows, At(rows, l), At(rows, k))
      <4> SUFFICES ASSUME Before(rows, At(rows, l), At(rows, k)) PROVE FALSE
        OBVIOUS
      <4>1. l < k
        BY <1>2, RankOrders
      <4> QED
        BY <2>2, <3>1, <4>1
    <3> QED
      BY <1>2, <3>1, <3>2, BeforeIsTotal
  <2> QED
    BY <2>1, <2>2
<1>6. Tidy(s)
  <2>1. \A op \in Ops(s) : op.id \in Id
    BY <1>1 DEF Tidy
  <2>2. \A i, j \in DOMAIN s : s[i].id = s[j].id => i = j
    <3> HIDE DEF s
    <3> SUFFICES ASSUME NEW i \in DOMAIN s, NEW j \in DOMAIN s, s[i].id = s[j].id PROVE i = j
      OBVIOUS
    <3>1. rows[At(rows, i)].id = rows[At(rows, j)].id
          /\ At(rows, i) \in DOMAIN rows /\ At(rows, j) \in DOMAIN rows
      BY <1>1, <1>2
    <3>2. At(rows, i) = At(rows, j)
      BY <3>1 DEF Tidy
    <3> QED
      BY <1>1, <1>4, <3>2
  <2> QED
    BY <1>1, <2>1, <2>2 DEF Tidy
<1> QED
  BY <1>1, <1>2, <1>3, <1>4, <1>5, <1>6

LEMMA TellsOf ==
    ASSUME NEW rows, Tidy(rows), NEW s, s = InOrder(rows), NEW m, m.deleted \in BOOLEAN,
           NEW a \in DOMAIN s, NEW b \in DOMAIN s, Says(s, m, a, b)
    PROVE  Tells(rows, m, At(rows, a), At(rows, b))
<1> DEFINE n == Len(rows)
<1>1. DOMAIN s = 1..n /\ n \in Nat
  BY InOrderIs
<1>2. \A k \in 1..n : At(rows, k) \in DOMAIN rows /\ s[k] = rows[At(rows, k)]
  BY OrderedRows
<1>3. \A i \in DOMAIN rows : \E k \in 1..n : At(rows, k) = i
  BY OrderedRows
<1>4. \A k, l \in 1..n : k < l <=> Before(rows, At(rows, k), At(rows, l))
  BY OrderedRows
<1>5. \A k, l \in 1..n : At(rows, k) = At(rows, l) => k = l
  BY OrderedRows
<1> HIDE DEF n
<1>6. \A j \in 1..n : Touches(s, a, j) <=> Bears(rows, At(rows, a), At(rows, j))
  BY <1>1, <1>2, <1>4, <1>5 DEF Touches, Bears
<1>7. ASSUME NEW i \in DOMAIN rows, Bears(rows, At(rows, a), i)
      PROVE  i = At(rows, b) \/ Before(rows, i, At(rows, b))
  <2>1. PICK j \in 1..n : At(rows, j) = i
    BY <1>3
  <2>2. Touches(s, a, j)
    BY <1>6, <1>7, <2>1
  <2>3. j <= b
    BY <1>1, <2>2 DEF Says
  <2>4. j = b \/ j < b
    BY <1>1, <2>3
  <2> QED
    BY <1>1, <1>4, <2>1, <2>4
<1>8. m.deleted <=> \E j \in 1..n : Touches(s, a, j) /\ s[j].kind = "delete"
  BY <1>1 DEF Says
<1>9. (\E j \in 1..n : Touches(s, a, j) /\ s[j].kind = "delete")
        <=> (\E i \in DOMAIN rows : Bears(rows, At(rows, a), i) /\ rows[i].kind = "delete")
  <2>1. ASSUME NEW j \in 1..n, Touches(s, a, j), s[j].kind = "delete"
        PROVE  \E i \in DOMAIN rows : Bears(rows, At(rows, a), i) /\ rows[i].kind = "delete"
    BY <1>2, <1>6, <2>1
  <2>2. ASSUME NEW i \in DOMAIN rows, Bears(rows, At(rows, a), i), rows[i].kind = "delete"
        PROVE  \E j \in 1..n : Touches(s, a, j) /\ s[j].kind = "delete"
    BY <1>2, <1>3, <1>6, <2>2
  <2> QED
    BY <2>1, <2>2
<1>10. IsMessage(s[a]) /\ m.id = s[a].id /\ Touches(s, a, b) /\ m.text = Word(s[b])
  BY DEF Says
<1> QED
  BY <1>1, <1>2, <1>6, <1>7, <1>8, <1>9, <1>10 DEF Tells

LEMMA OnOf ==
    ASSUME NEW rows, Tidy(rows), NEW id, NEW p
    PROVE  On(InOrder(rows), id, p) <=> Toggled(rows, id, p)
<1> DEFINE n == Len(rows)
           s == InOrder(rows)
<1>1. DOMAIN s = 1..n /\ n \in Nat
  BY InOrderIs
<1>2. \A k \in 1..n : At(rows, k) \in DOMAIN rows /\ s[k] = rows[At(rows, k)]
  BY OrderedRows
<1>3. \A i \in DOMAIN rows : \E k \in 1..n : At(rows, k) = i
  BY OrderedRows
<1>4. \A k, l \in 1..n : k < l <=> Before(rows, At(rows, k), At(rows, l))
  BY OrderedRows
<1>5. \A k, l \in 1..n : k <= l <=> At(rows, k) = At(rows, l) \/ Before(rows, At(rows, k), At(rows, l))
  <2>1. \A k, l \in 1..n : At(rows, k) = At(rows, l) => k = l
    BY OrderedRows
  <2>2. \A k, l \in 1..n : k <= l <=> k = l \/ k < l
    BY <1>1
  <2> QED
    BY <1>4, <2>1, <2>2
<1> HIDE DEF n, s
<1>6. ASSUME On(s, id, p) PROVE Toggled(rows, id, p)
  <2>1. PICK k \in 1..n :
          /\ Toggle(s[k], id, p) /\ s[k].on
          /\ \A j \in 1..n : Toggle(s[j], id, p) => j <= k
    BY <1>1, <1>6 DEF On
  <2>2. \A i \in DOMAIN rows : Toggle(rows[i], id, p) => i = At(rows, k) \/ Before(rows, i, At(rows, k))
    BY <1>2, <1>3, <1>5, <2>1
  <2> QED
    BY <1>2, <2>1, <2>2 DEF Toggled
<1>7. ASSUME Toggled(rows, id, p) PROVE On(s, id, p)
  <2>1. PICK i \in DOMAIN rows :
          /\ Toggle(rows[i], id, p) /\ rows[i].on
          /\ \A j \in DOMAIN rows : Toggle(rows[j], id, p) => j = i \/ Before(rows, j, i)
    BY <1>7 DEF Toggled
  <2>2. PICK k \in 1..n : At(rows, k) = i
    BY <1>3
  <2>3. \A j \in 1..n : Toggle(s[j], id, p) => j <= k
    BY <1>2, <1>5, <2>1, <2>2
  <2> QED
    BY <1>1, <1>2, <2>1, <2>2, <2>3 DEF On
<1> QED
  BY <1>6, <1>7 DEF s

\* Store::history, for any table: every message once, in the words of the last
\* change its author made to it, deleted if one of those is a delete, and with
\* the reactions whose last toggle is on.
THEOREM HistoryMeans == \A rows : Tidy(rows) => Historic(rows, History(rows))
<1> SUFFICES ASSUME NEW rows, Tidy(rows) PROVE Historic(rows, History(rows))
  OBVIOUS
<1> DEFINE s == InOrder(rows)
           ms == Folded(s).messages
           rs == Folded(s).reactions
           h == History(rows)
           n == Len(rows)
<1>1. Listed(s, ms) /\ Reacted(s, rs)
  <2>1. Tidy(s)
    BY OrderedRows
  <2> QED
    BY <2>1, LoopMeans DEF Loop
<1>2. h = [i \in DOMAIN ms |-> [id |-> ms[i].id, text |-> ms[i].text, deleted |-> ms[i].deleted,
                               reactors |-> {p \in Peers : <<ms[i].id, p>> \in rs}]]
  BY DEF History, Folded, Blank
<1>3. /\ DOMAIN s = 1..n
      /\ \A k \in 1..n : At(rows, k) \in DOMAIN rows /\ s[k] = rows[At(rows, k)]
      /\ \A i \in DOMAIN rows : \E k \in 1..n : At(rows, k) = i
  BY OrderedRows, InOrderIs
<1> HIDE DEF s, ms, rs, h, n
<1>4. ms \in Seq(Shown) /\ Len(ms) \in Nat /\ DOMAIN ms = 1..Len(ms)
  BY <1>1 DEF Listed
<1>5. DOMAIN h = DOMAIN ms
  BY <1>2
<1>6. ASSUME NEW i \in DOMAIN h
      PROVE  /\ h[i].id = ms[i].id /\ h[i].text = ms[i].text /\ h[i].deleted = ms[i].deleted
             /\ \A p \in Peers : p \in h[i].reactors <=> <<ms[i].id, p>> \in rs
             /\ h[i].deleted \in BOOLEAN
  <2>1. h[i] = [id |-> ms[i].id, text |-> ms[i].text, deleted |-> ms[i].deleted,
                reactors |-> {p \in Peers : <<ms[i].id, p>> \in rs}]
    BY <1>2
  <2>2. ms[i] \in Shown
    BY <1>4, <1>5
  <2>3. ms[i].deleted \in BOOLEAN
    BY <2>2 DEF Shown
  <2> QED
    BY <2>1, <2>3
<1>7. ASSUME NEW i \in DOMAIN h PROVE \E c, k \in DOMAIN rows : Tells(rows, h[i], c, k)
  <2>1. PICK a \in DOMAIN s, b \in DOMAIN s : Says(s, ms[i], a, b)
    BY <1>1, <1>5 DEF Listed
  <2>2. ms[i].deleted <=> h[i].deleted
    BY <1>6
  <2>3. Says(s, h[i], a, b)
    BY <1>6, <2>1, <2>2 DEF Says
  <2>4. Tells(rows, h[i], At(rows, a), At(rows, b))
    BY <1>6, <2>3, TellsOf DEF s
  <2> QED
    BY <1>3, <2>4
<1>8. ASSUME NEW c \in DOMAIN rows, IsMessage(rows[c])
      PROVE  \E i \in DOMAIN h : h[i].id = rows[c].id
  <2>1. PICK k \in 1..n : At(rows, k) = c
    BY <1>3
  <2>2. s[k] = rows[c] /\ k \in DOMAIN s
    BY <1>3, <2>1
  <2>3. PICK i \in DOMAIN ms : ms[i].id = s[k].id
    BY <1>1, <1>8, <2>2 DEF Listed
  <2> QED
    BY <1>5, <1>6, <2>2, <2>3
<1>9. \A i, j \in DOMAIN h : h[i].id = h[j].id => i = j
  BY <1>1, <1>5, <1>6 DEF Listed
<1>10. ASSUME NEW i \in DOMAIN h, NEW p \in Peers
       PROVE  p \in h[i].reactors <=> Toggled(rows, h[i].id, p)
  BY <1>1, <1>6, OnOf DEF Reacted, s
<1>11. Len(h) = Len(ms)
  BY <1>4, <1>5
<1> QED
  BY <1>4, <1>5, <1>7, <1>8, <1>9, <1>10, <1>11 DEF Historic, h

(***************************************************************************)
(* Same ops, same history; and what an op that arrives may change.         *)
(***************************************************************************)
Neat == \A e \in Peers : Tidy(table[e])

LEMMA TablesNeat == IdInv => Neat
BY FitsTidy DEF IdInv, Typed, Rows, Neat

\* Two endpoints that hold the same ops show the same history, however the ops
\* reached them: the query's order is one of the ops and not of the rows, but
\* for ops alike in both columns (Store::history).
THEOREM SameOpsSameHistory == Spec => []EndsAgree
<1>1. Neat => EndsAgree
  <2> SUFFICES ASSUME Neat, NEW e \in Peers, NEW f \in Peers,
                      Ops(table[e]) = Ops(table[f]), ~Tied(table[e])
               PROVE  History(table[e]) = History(table[f])
    BY DEF EndsAgree
  <2>1. InOrder(table[e]) = InOrder(table[f])
    BY OrderIsOfOps DEF Neat
  <2> QED
    BY <2>1 DEF History
<1> QED
  BY <1>1, TablesNeat, IdInit, IdStep, PTL DEF Spec

LEMMA AppendShows ==
    ASSUME NEW rows, Tidy(rows), NEW op, Tidy(Append(rows, op)),
           NEW m \in Range(History(rows)), NEW w \in Range(History(Append(rows, op))),
           m.id = w.id
    PROVE  /\ m.deleted => w.deleted
           /\ op.id.sender # m.id.sender => m.text = w.text /\ m.deleted = w.deleted
<1> DEFINE new == Append(rows, op)
           n == Len(rows) + 1
<1>1. /\ DOMAIN new = 1..n /\ DOMAIN rows = 1..Len(rows) /\ Len(rows) \in Nat
      /\ \A i \in DOMAIN rows : i \in DOMAIN new /\ new[i] = rows[i]
      /\ \A i \in DOMAIN new : i \in DOMAIN rows \/ i = n
      /\ n \notin DOMAIN rows /\ new[n] = op
  BY AppendOps DEF Tidy
<1>2. PICK c \in DOMAIN rows, k \in DOMAIN rows : Tells(rows, m, c, k)
  BY HistoryMeans DEF Historic, Range
<1>3. Tidy(new) /\ w \in Range(History(new))
  OBVIOUS
<1> HIDE DEF new, n
<1>4. PICK d \in DOMAIN new, l \in DOMAIN new : Tells(new, w, d, l)
  BY <1>3, HistoryMeans DEF Historic, Range
<1>5. d = c
  <2>1. new[c].id = new[d].id
    BY <1>1, <1>2, <1>4 DEF Tells
  <2> QED
    BY <1>1, <1>3, <2>1 DEF Tidy
<1>6. \A i, j \in DOMAIN rows : Before(new, i, j) <=> Before(rows, i, j)
  BY <1>1 DEF Before
<1>7. \A j \in DOMAIN rows : Bears(new, c, j) <=> Bears(rows, c, j)
  BY <1>1, <1>6 DEF Bears
<1>8. m.deleted \in BOOLEAN /\ w.deleted \in BOOLEAN
  BY <1>2, <1>4 DEF Tells
<1>9. m.deleted <=> \E j \in DOMAIN rows : Bears(rows, c, j) /\ rows[j].kind = "delete"
  BY <1>2 DEF Tells
<1>10. w.deleted <=> \E j \in DOMAIN new : Bears(new, c, j) /\ new[j].kind = "delete"
  BY <1>4, <1>5 DEF Tells
<1>11. m.deleted => w.deleted
  BY <1>1, <1>7, <1>9, <1>10
<1>12. ASSUME op.id.sender # m.id.sender PROVE m.text = w.text /\ m.deleted = w.deleted
  <2>1. ~Bears(new, c, n)
    <3>1. m.id = new[c].id
      BY <1>1, <1>2 DEF Tells
    <3>2. ~Changer(op, m.id)
      BY <1>12 DEF Changer, IsAuthors
    <3> QED
      BY <1>1, <3>1, <3>2 DEF Bears
  <2>2. \A j \in DOMAIN new : Bears(new, c, j) => j \in DOMAIN rows /\ Bears(rows, c, j) /\ new[j] = rows[j]
    BY <1>1, <1>7, <2>1
  <2>3. w.deleted => m.deleted
    BY <1>9, <1>10, <2>2
  <2>4. l \in DOMAIN rows /\ Bears(rows, c, l)
    BY <1>4, <1>5, <2>2 DEF Tells
  <2>5. l = k \/ Before(rows, l, k)
    BY <1>2, <2>4 DEF Tells
  <2>6. Bears(rows, c, k)
    BY <1>2 DEF Tells
  <2>7. k = l \/ Before(new, k, l)
    BY <1>1, <1>4, <1>5, <1>7, <2>6 DEF Tells
  <2>8. k = l
    BY <1>6, <2>4, <2>5, <2>7, BeforeIsTotal
  <2>9. m.text = Word(rows[k]) /\ w.text = Word(new[l])
    BY <1>2, <1>4 DEF Tells
  <2> QED
    BY <1>1, <1>8, <1>11, <2>3, <2>8, <2>9
<1> QED
  BY <1>11, <1>12

LEMMA EmptyHistory == Range(History(<<>>)) = {}
<1>1. Tidy(<<>>)
  <2>1. Ops(<<>>) = {} /\ DOMAIN <<>> = {} /\ \A S : <<>> \in Seq(S)
    BY EmptyFits
  <2> QED
    BY <2>1 DEF Tidy
<1>2. Historic(<<>>, History(<<>>))
  BY <1>1, HistoryMeans
<1>3. DOMAIN <<>> = {}
  OBVIOUS
<1>4. \A i \in DOMAIN History(<<>>) : FALSE
  BY <1>2, <1>3 DEF Historic
<1> QED
  BY <1>4 DEF Range

\* What a step may do to a table.
Kept(rows, new) ==
    \/ new = rows \/ new = <<>>
    \/ \E op : new = Append(rows, op) /\ ~Known(rows, op.id)

LEMMA RecordKeeps == ASSUME NEW rows, NEW op PROVE Kept(rows, Record(rows, op))
BY DEF Kept, Record

LEMMA TableStep ==
    ASSUME Typed, [Next]_vars, NEW e \in Peers
    PROVE  Kept(table[e], table'[e])
<1>1. DOMAIN table = Peers
  BY DEF Typed, Rows
<1>2. ASSUME NEW f, NEW op, table' = [table EXCEPT ![f] = Record(@, op)] PROVE Kept(table[e], table'[e])
  <2>1. table'[e] = table[e] \/ table'[e] = Record(table[e], op)
    BY <1>1, <1>2
  <2> QED
    BY <2>1, RecordKeeps DEF Kept
<1>3. ASSUME NEW f \in Peers, Write(f) PROVE Kept(table[e], table'[e])
  <2>1. PICK op \in NewOps(f) : table' = [table EXCEPT ![f] = Record(@, op)]
    BY <1>3 DEF Write
  <2> QED
    BY <1>2, <2>1
<1>4. ASSUME NEW f \in Peers, Accept(f) PROVE Kept(table[e], table'[e])
  <2>1. PICK op \in mail[f] : table' = [table EXCEPT ![f] = Record(@, op)]
    BY <1>4 DEF Accept
  <2> QED
    BY <1>2, <2>1
<1>5. CASE Offer
  <2>1. PICK f, op : table' = [table EXCEPT ![f] = Record(@, op)]
    BY <1>5 DEF Offer
  <2> QED
    BY <1>2, <2>1
<1>6. CASE Open
  <2>1. PICK f, op : table' = [table EXCEPT ![f] = Record(@, op)]
    BY <1>6 DEF Open
  <2> QED
    BY <1>2, <2>1
<1>7. ASSUME NEW f \in Peers, Clear(f) \/ Forget(f) \/ Wipe(f) PROVE Kept(table[e], table'[e])
  <2>1. table' = [table EXCEPT ![f] = <<>>]
    BY <1>7 DEF Clear, Forget, Wipe, Empty
  <2>2. table'[e] = table[e] \/ table'[e] = <<>>
    BY <1>1, <2>1
  <2> QED
    BY <2>2 DEF Kept
<1>8. CASE table' = table
  BY <1>8 DEF Kept
<1>9. CASE Announce \/ Chunk \/ Finish \/ Break
  BY <1>8, <1>9 DEF Announce, Chunk, Finish, Break
<1>10. ASSUME NEW f \in Peers, Unlink(f) \/ Restart(f) \/ Tick(f) \/ SetBack(f)
       PROVE  Kept(table[e], table'[e])
  BY <1>8, <1>10 DEF Unlink, Restart, Tick, SetBack
<1>11. ASSUME NEW p \in Sources, PickFile(p) \/ EditFile(p)
       PROVE  Kept(table[e], table'[e])
  BY <1>8, <1>11 DEF PickFile, EditFile
<1>12. CASE UNCHANGED vars
  BY <1>8, <1>12 DEF vars
<1> QED
  BY <1>3, <1>4, <1>5, <1>6, <1>7, <1>9, <1>10, <1>11, <1>12 DEF Next, Attachment

LEMMA ShownStep ==
    ASSUME IdInv, [Next]_vars, NEW e \in Peers, table'[e] # table[e],
           NEW m \in Range(History(table[e])), NEW w \in Range(History(table'[e])),
           m.id = w.id
    PROVE  /\ m.deleted => w.deleted
           /\ <<m.text, m.deleted>> # <<w.text, w.deleted>>
                => \E op \in Added(e) : op.id.sender = m.id.sender
<1>1. Typed /\ Neat /\ Neat'
  <2>1. IdInv'
    BY IdStep
  <2>2. Neat'
    BY <2>1, FitsTidy DEF IdInv, Typed, Rows, Neat
  <2> QED
    BY <2>2, TablesNeat DEF IdInv
<1>2. Kept(table[e], table'[e])
  BY <1>1, TableStep
<1>3. table'[e] # <<>>
  BY EmptyHistory
<1>4. PICK op : table'[e] = Append(table[e], op) /\ ~Known(table[e], op.id)
  BY <1>2, <1>3 DEF Kept
<1>5. Tidy(table[e]) /\ Tidy(Append(table[e], op))
  BY <1>1, <1>4 DEF Neat
<1>6. /\ m.deleted => w.deleted
      /\ op.id.sender # m.id.sender => m.text = w.text /\ m.deleted = w.deleted
  BY <1>4, <1>5, AppendShows
<1>7. op \in Added(e)
  <2>1. Ops(table'[e]) = Ops(table[e]) \cup {op}
    BY <1>4, <1>5, AppendOps DEF Tidy
  <2>2. op \notin Ops(table[e])
    BY <1>4 DEF Known
  <2> QED
    BY <2>1, <2>2 DEF Added
<1> QED
  BY <1>6, <1>7

\* Whatever arrives and in what order: the text of a message that is shown
\* changes, and it is deleted, only by an op of its author (Store::history).
THEOREM OnlyTheAuthor == Spec => AuthorOnly
<1>1. IdInv /\ [Next]_vars =>
        [\A e \in Peers :
           table'[e] # table[e] =>
           \A m \in Range(History(table[e])), n \in Range(History(table'[e])) :
             (m.id = n.id /\ <<m.text, m.deleted>> # <<n.text, n.deleted>>)
               => \E op \in Added(e) : op.id.sender = m.id.sender]_vars
  BY ShownStep
<1> QED
  BY <1>1, IdInit, IdStep, PTL DEF Spec, AuthorOnly

\* A message once shown as deleted stays so, even if an edit comes in that the
\* delete overtook (Store::history).
THEOREM DeletedForGood == Spec => DeletedStays
<1>1. IdInv /\ [Next]_vars =>
        [\A e \in Peers :
           table'[e] # table[e] =>
           \A m \in Range(History(table[e])), n \in Range(History(table'[e])) :
             (m.id = n.id /\ m.deleted) => n.deleted]_vars
  BY ShownStep
<1> QED
  BY <1>1, IdInit, IdStep, PTL DEF Spec, DeletedStays

(***************************************************************************)
(* The last word.  The fold goes by clocks; Chron says that these order an *)
(* endpoint's ops as it minted them.                                       *)
(***************************************************************************)
\* Some row of a choice comes out last.
LEMMA LastRow ==
    ASSUME NEW rows, Tidy(rows), NEW J, J \subseteq DOMAIN rows, J # {}
    PROVE  \E k \in J : \A j \in J : j = k \/ Before(rows, j, k)
<1> DEFINE S == {Rank(rows, j) : j \in J}
<1>1. Len(rows) \in Nat
  BY TidyRows
<1>2. S \subseteq 0..Len(rows) /\ S # {}
  <2>1. \A j \in J : Rank(rows, j) \in 1..Len(rows)
    BY LowerSize
  <2>2. 1..Len(rows) \subseteq 0..Len(rows)
    BY <1>1
  <2> QED
    BY <2>1, <2>2
<1>3. PICK r \in S : \A q \in S : q <= r
  BY <1>1, <1>2, LargestExists
<1>4. PICK k \in J : r = Rank(rows, k)
  OBVIOUS
<1>5. ASSUME NEW j \in J, j # k PROVE Before(rows, j, k)
  <2>1. Rank(rows, j) <= Rank(rows, k)
    BY <1>3, <1>4
  <2>2. Rank(rows, j) \in Nat /\ Rank(rows, k) \in Nat
    <3>1. j \in DOMAIN rows /\ k \in DOMAIN rows
      OBVIOUS
    <3>2. Rank(rows, j) \in 1..Len(rows) /\ Rank(rows, k) \in 1..Len(rows)
      BY <3>1, LowerSize
    <3> QED
      BY ONLY <1>1, <3>2
  <2>3. ~Before(rows, k, j)
    <3> SUFFICES ASSUME Before(rows, k, j) PROVE FALSE
      OBVIOUS
    <3>1. Rank(rows, k) < Rank(rows, j)
      BY RankOrders
    <3> QED
      BY <2>1, <2>2, <3>1
  <2> QED
    BY <1>5, <2>3, BeforeIsTotal
<1> QED
  BY <1>5

\* Among ops of one endpoint whose clock was never set back, the row that comes
\* out last is the op that was minted last.
LEMMA LatestIs ==
    ASSUME IdInv, Chron, NEW rows, Tidy(rows), NEW a \in Peers \ rewound,
           NEW J, J \subseteq DOMAIN rows,
           \A j \in J : OpOK(rows[j]) /\ rows[j].id.sender = a,
           NEW k \in J, \A j \in J : j = k \/ Before(rows, j, k),
           NEW ops, ops = {rows[j] : j \in J}
    PROVE  Latest(ops) = rows[k]
<1> DEFINE s == minted[a]
<1>1. s \in Seq(Handed(a)) /\ DOMAIN s \subseteq Nat
  BY DEF IdInv, Ids
<1>2. \A i, j \in DOMAIN s : i < j => Earlier(s[i], s[j])
  BY DEF Chron, Sorted
<1> HIDE DEF s
<1>3. ASSUME NEW j \in J PROVE Nth(rows[j]) \in DOMAIN s /\ s[Nth(rows[j])] = rows[j].id
  <2>1. rows[j].id \in Range(s)
    BY DEF OpOK, s
  <2>2. \E n \in DOMAIN s : s[n] = rows[j].id
    BY <2>1 DEF Range
  <2> QED
    BY <2>2 DEF Nth, s
<1>4. ASSUME NEW j \in J PROVE Nth(rows[j]) <= Nth(rows[k])
  <2> SUFFICES ASSUME ~(Nth(rows[j]) <= Nth(rows[k])) PROVE FALSE
    OBVIOUS
  <2>1. Nth(rows[k]) < Nth(rows[j])
    BY <1>1, <1>3
  <2>2. Earlier(rows[k].id, rows[j].id)
    BY <1>2, <1>3, <2>1
  <2>3. Before(rows, k, j)
    BY <2>2 DEF Earlier, Before
  <2>4. k \in DOMAIN rows /\ j \in DOMAIN rows
    OBVIOUS
  <2> QED
    BY <2>3, <2>4, BeforeIsTotal
<1>5. rows[k] \in ops /\ \A o \in ops : Nth(o) <= Nth(rows[k])
  BY <1>4
<1>6. ASSUME NEW op \in ops, \A o \in ops : Nth(o) <= Nth(op) PROVE op = rows[k]
  <2>1. PICK j \in J : op = rows[j]
    OBVIOUS
  <2>2. Nth(rows[k]) <= Nth(rows[j])
    BY <1>5, <1>6, <2>1
  <2>3. Nth(rows[k]) = Nth(rows[j])
    BY <1>1, <1>3, <1>4, <2>2
  <2>4. rows[k].id = rows[j].id
    BY <1>3, <2>3
  <2> QED
    BY <2>1, <2>4 DEF Tidy
<1> QED
  BY <1>5, <1>6 DEF Latest

LEMMA LastWordHolds == IdInv /\ Chron => LastWord
<1> SUFFICES ASSUME IdInv, Chron, NEW e \in Peers
             PROVE  LET shown == History(table[e]) IN
    /\ {m.id : m \in Range(shown)} = Messages(e) /\ Len(shown) = Cardinality(Messages(e))
    /\ \A m \in Range(shown) :
         /\ m.id.sender \notin rewound =>
              LET last == Latest(Changes(e, m.id)) IN
              /\ m.text = IF last.kind = "delete" THEN NoText ELSE last.id
              /\ m.deleted = \E op \in Changes(e, m.id) : op.kind = "delete"
         /\ \A p \in Peers \ rewound :
              LET toggles == Reactions(e, m.id, p) IN
              p \in m.reactors <=> toggles # {} /\ Latest(toggles).on
  BY DEF LastWord
<1> DEFINE rows == table[e]
           h == History(rows)
<1>1. Tidy(rows) /\ Historic(rows, h)
  BY TablesNeat, HistoryMeans DEF Neat
<1>2. \A j \in DOMAIN rows : OpOK(rows[j])
  BY DEF Chron, Ops
<1>3. Len(h) \in Nat /\ DOMAIN h = 1..Len(h)
  BY <1>1 DEF Historic
<1>4. \A id : id \in Messages(e) <=> \E c \in DOMAIN rows : IsMessage(rows[c]) /\ id = rows[c].id
  BY DEF Messages, Ops
<1> HIDE DEF h
<1>5. ASSUME NEW i \in DOMAIN h PROVE h[i].id \in Messages(e)
  <2>1. PICK c, k \in DOMAIN rows : Tells(rows, h[i], c, k)
    BY <1>1 DEF Historic
  <2> QED
    BY <1>4, <2>1 DEF Tells
<1>6. ASSUME NEW id \in Messages(e) PROVE \E i \in DOMAIN h : h[i].id = id
  BY <1>1, <1>4 DEF Historic
<1>7. {m.id : m \in Range(h)} = Messages(e)
  BY <1>5, <1>6 DEF Range
<1>8. Len(h) = Cardinality(Messages(e))
  <2> DEFINE f == [i \in 1..Len(h) |-> h[i].id]
  <2>1. f \in [1..Len(h) -> Messages(e)]
    BY <1>3, <1>5
  <2>2. \A i, j \in 1..Len(h) : f[i] = f[j] => i = j
    BY <1>1, <1>3 DEF Historic
  <2>3. \A id \in Messages(e) : \E i \in 1..Len(h) : f[i] = id
    BY <1>3, <1>6
  <2> HIDE DEF f
  <2>4. f \in Bijection(1..Len(h), Messages(e))
    BY <2>1, <2>2, <2>3 DEF Bijection, Injection, Surjection, IsInjective
  <2>5. ExistsBijection(1..Len(h), Messages(e))
    BY <2>4 DEF ExistsBijection
  <2> QED
    BY <1>3, <2>5, UpTo, FS_Bijection
<1>9. ASSUME NEW m \in Range(h), m.id.sender \notin rewound
      PROVE  /\ m.text = Word(Latest(Changes(e, m.id)))
             /\ m.deleted = \E op \in Changes(e, m.id) : op.kind = "delete"
  <2>1. PICK c \in DOMAIN rows, k \in DOMAIN rows : Tells(rows, m, c, k)
    BY <1>1 DEF Historic, Range
  <2> DEFINE J == {j \in DOMAIN rows : Bears(rows, c, j)}
  <2>2. m.id = rows[c].id /\ m.id.sender \in Peers \ rewound
    BY <1>2, <1>9, <2>1 DEF Tells, OpOK
  <2>3. ASSUME NEW j \in DOMAIN rows
        PROVE  Bears(rows, c, j) <=> rows[j].id = m.id \/ Changer(rows[j], m.id)
    <3>1. rows[j].id = m.id => j = c
      BY <1>1, <2>2 DEF Tidy
    <3>2. ASSUME Changer(rows[j], m.id) PROVE Before(rows, c, j)
      <4>1. OpOK(rows[j]) /\ rows[j].target = m.id /\ rows[j].id.sender = m.id.sender
        BY <1>2, <3>2 DEF Changer, IsAuthors
      <4>2. Earlier(rows[c].id, rows[j].id)
        BY <2>2, <3>2, <4>1 DEF OpOK, Changer
      <4> QED
        BY <4>2 DEF Earlier, Before
    <3> QED
      BY <2>2, <3>1, <3>2 DEF Bears
  <2>4. Changes(e, m.id) = {rows[j] : j \in J}
    <3>1. \A op : op \in Changes(e, m.id)
                    <=> op \in Ops(rows) /\ (op.id = m.id \/ Changer(op, m.id))
      BY DEF Changes, Changer
    <3>2. \A op : op \in Ops(rows) <=> \E j \in DOMAIN rows : op = rows[j]
      BY DEF Ops
    <3> QED
      BY <2>3, <3>1, <3>2
  <2>5. \A j \in J : OpOK(rows[j]) /\ rows[j].id.sender = m.id.sender
    BY <1>2, <2>3 DEF Changer, IsAuthors
  <2>6. k \in J /\ (\A j \in J : j = k \/ Before(rows, j, k))
    BY <2>1 DEF Tells
  <2>7. J \subseteq DOMAIN rows
    OBVIOUS
  <2>8. m.deleted \in BOOLEAN /\ (m.deleted <=> \E j \in J : rows[j].kind = "delete")
    BY <2>1 DEF Tells
  <2> HIDE DEF J, rows
  <2>9. Latest(Changes(e, m.id)) = rows[k]
    BY <1>1, <2>2, <2>4, <2>5, <2>6, <2>7, LatestIs
  <2>10. (\E j \in J : rows[j].kind = "delete") <=> (\E op \in Changes(e, m.id) : op.kind = "delete")
    BY <2>4
  <2> QED
    BY <2>1, <2>8, <2>9, <2>10 DEF Tells
<1>10. ASSUME NEW m \in Range(h), NEW p \in Peers \ rewound
       PROVE  p \in m.reactors
                <=> Reactions(e, m.id, p) # {} /\ Latest(Reactions(e, m.id, p)).on
  <2> DEFINE J == {j \in DOMAIN rows : Toggle(rows[j], m.id, p)}
             toggles == Reactions(e, m.id, p)
  <2>1. toggles = {rows[j] : j \in J}
    <3>1. \A op : op \in toggles <=> op \in Ops(rows) /\ Toggle(op, m.id, p)
      BY DEF Reactions, Toggle
    <3>2. \A op : op \in Ops(rows) <=> \E j \in DOMAIN rows : op = rows[j]
      BY DEF Ops
    <3> HIDE DEF toggles
    <3> QED
      BY <3>1, <3>2
  <2>2. \A j \in J : OpOK(rows[j]) /\ rows[j].id.sender = p
    BY <1>2 DEF Toggle
  <2>3. p \in m.reactors <=> Toggled(rows, m.id, p)
    BY <1>1 DEF Historic, Range
  <2>4. Toggled(rows, m.id, p)
          <=> \E k \in J : rows[k].on /\ \A j \in J : j = k \/ Before(rows, j, k)
    BY DEF Toggled
  <2>5. J \subseteq DOMAIN rows
    OBVIOUS
  <2> HIDE DEF J, toggles, rows
  <2>6. ASSUME NEW k \in J, \A j \in J : j = k \/ Before(rows, j, k)
        PROVE  Latest(toggles) = rows[k] /\ toggles # {}
    <3>1. Latest(toggles) = rows[k]
      BY <1>1, <2>1, <2>2, <2>5, <2>6, LatestIs
    <3> QED
      BY <2>1, <3>1
  <2>7. ASSUME toggles # {}
        PROVE  \E k \in J : \A j \in J : j = k \/ Before(rows, j, k)
    <3>1. J # {}
      BY <2>1, <2>7
    <3> QED
      BY <1>1, <2>5, <3>1, LastRow
  <2>8. ASSUME Toggled(rows, m.id, p) PROVE toggles # {} /\ Latest(toggles).on
    <3>1. PICK k \in J : rows[k].on /\ \A j \in J : j = k \/ Before(rows, j, k)
      BY <2>4, <2>8
    <3> QED
      BY <2>6, <3>1
  <2>9. ASSUME toggles # {}, Latest(toggles).on PROVE Toggled(rows, m.id, p)
    <3>1. PICK k \in J : \A j \in J : j = k \/ Before(rows, j, k)
      BY <2>7, <2>9
    <3>2. rows[k].on
      BY <2>6, <2>9, <3>1
    <3> QED
      BY <2>4, <3>1, <3>2
  <2> QED
    BY <2>3, <2>8, <2>9 DEF toggles
<1> QED
  BY <1>7, <1>8, <1>9, <1>10 DEF h, Word

\* What either end shows of a message is the last thing its author said about
\* it, and of every reaction the last toggle, "last" as the author minted them
\* and in whatever order they came, for authors whose clock was never set back;
\* and every message that came is shown, once (Store::record, Store::history,
\* Counter::mint).
THEOREM LastWordCounts == Spec => []LastWord
<1>1. Init => IdInv /\ Chron
  BY IdInit, ChronInit
<1>2. (IdInv /\ Chron) /\ [Next]_vars => (IdInv /\ Chron)'
  BY IdStep, ChronStep
<1> QED
  BY <1>1, <1>2, LastWordHolds, PTL DEF Spec
=============================================================================
