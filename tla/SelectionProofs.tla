--------------------------- MODULE SelectionProofs ---------------------------
(***************************************************************************)
(* For any number of conversations, any messages and any commands, in      *)
(* every order of keys, clicks and events: the list and its lookup agree,  *)
(* a command that names a message goes where the message is, only the user *)
(* and removals move the selection, the screen catches up with the store   *)
(* wherever two tasks did not speak at once, and what arrives unseen is    *)
(* marked as long as a fold shows the whole conversation.                  *)
(***************************************************************************)
EXTENDS Selection, SequenceTheorems, FiniteSetTheorems, TLAPS

Entry   == [id : Nat, deleted : BOOLEAN]
Row     == [log : Seq(Entry), cursor : Nat, unread : Nat \cup {None}]
Message == [home : Keys, mine : BOOLEAN]
Pending == [kind : {"reply", "edit"}, target : Nat]
Left    == [keys : SUBSET Keys, messages : Nat, commands : Nat, removals : Nat, overlays : Nat]

LogTask   == [kind : {"log"}, peer : Keys, entries : Seq(Entry)]
Removal   == [kind : {"clear", "forget"}, peer : Keys]
Wiping    == [kind : {"wipe"}, peer : {None}]
Task      == {None} \cup LogTask \cup Removal \cup Wiping
OnePeer   == [kind : {"send", "reply", "edit", "react", "delete", "clear", "forget"},
              peer : Keys, target : Nat \cup {None}]
AnyPeer   == [kind : {"wipe", "other"}, peer : Keys \cup {None}, target : {None}]

\* What the prover needs to know of every variable.
ListTypes ==
  /\ peers \in Seq(Keys) /\ sel \in Nat
  /\ index \in [Keys -> Nat \cup {None}]
  /\ row \in [Keys -> Row]

(***************************************************************************)
(* The list, the lookup and the rows.                                      *)
(***************************************************************************)
Lookup(list, at) ==
  /\ \A k \in Keys : (at[k] = None) = (k \notin Range(list))
  /\ \A i \in DOMAIN list : at[list[i]] = i - 1

Cursors(rows) == \A k \in Keys : rows[k].cursor <= LastOf(Len(rows[k].log))

LEMMA LookupParts ==
  LookupIsList <=> Lookup(peers, index) /\ sel <= LastOf(Len(peers)) /\ Cursors(row)
BY DEF LookupIsList, Lookup, Cursors, Shown

LEMMA LastOfType == \A n \in Nat : LastOf(n) \in Nat /\ LastOf(n) <= n /\ (n > 0 => LastOf(n) < n)
BY DEF LastOf

LEMMA LeastType == \A a, b \in Nat : /\ Least(a, b) \in Nat
                                     /\ Least(a, b) <= a /\ Least(a, b) <= b
BY DEF Least

LEMMA InRange ==
  ASSUME NEW S, NEW s \in Seq(S)
  PROVE  \A x : x \in Range(s) <=> \E i \in 1..Len(s) : s[i] = x
BY DEF Range

LEMMA SeqNarrows ==
  ASSUME NEW S, NEW T, NEW s \in Seq(S), \A i \in 1..Len(s) : s[i] \in T
  PROVE  s \in Seq(T)
OBVIOUS

LEMMA RangeOfAppend ==
  ASSUME NEW S, NEW s \in Seq(S), NEW e \in S
  PROVE  Range(Append(s, e)) = Range(s) \cup {e}
<1>1. /\ Append(s, e) \in Seq(S) /\ Len(Append(s, e)) = Len(s) + 1 /\ Len(s) \in Nat
      /\ \A i \in 1..Len(s) : Append(s, e)[i] = s[i]
      /\ Append(s, e)[Len(s) + 1] = e
  OBVIOUS
<1>2. ASSUME NEW x PROVE x \in Range(Append(s, e)) <=> x \in Range(s) \/ x = e
  <2>1. x \in Range(Append(s, e)) <=> \E i \in 1..(Len(s) + 1) : Append(s, e)[i] = x
    <3>1. x \in Range(Append(s, e)) <=> \E i \in 1..Len(Append(s, e)) : Append(s, e)[i] = x
      <4>1. Append(s, e) \in Seq(S)
        OBVIOUS
      <4> HIDE DEF Range
      <4> QED
        BY <4>1, InRange
    <3>2. 1..Len(Append(s, e)) = 1..(Len(s) + 1)
      BY <1>1
    <3> QED
      BY <3>1, <3>2
  <2>2. x \in Range(s) <=> \E i \in 1..Len(s) : s[i] = x
    BY InRange
  <2> QED
    BY <2>1, <2>2, <1>1
<1> QED
  BY <1>2

\* A listed conversation is found at its place, and an unlisted one gets the
\* last place; nothing before it moves.
LEMMA Enlisted ==
  ASSUME ListTypes, Lookup(peers, index), NEW k \in Keys, Enlist(k)
  PROVE  /\ peers' \in Seq(Keys) /\ index' \in [Keys -> Nat \cup {None}]
         /\ Lookup(peers', index')
         /\ Len(peers) <= Len(peers')
         /\ \A i \in 1..Len(peers) : peers'[i] = peers[i]
         /\ Found(k) = k
         /\ Range(peers) \subseteq Range(peers') /\ k \in Range(peers')
<1> USE KeysAssumption
<1>1. /\ peers \in Seq(Keys) /\ index \in [Keys -> Nat \cup {None}]
      /\ Len(peers) \in Nat /\ DOMAIN peers = 1..Len(peers)
      /\ \A i \in 1..Len(peers) : peers[i] \in Keys
  BY DEF ListTypes
<1>2. CASE index[k] = None
  <2>1. peers' = Append(peers, k) /\ index' = [index EXCEPT ![k] = Len(peers)]
    BY <1>2 DEF Enlist
  <2>2. /\ peers' \in Seq(Keys) /\ Len(peers') = Len(peers) + 1
        /\ \A i \in 1..Len(peers) : peers'[i] = peers[i]
        /\ peers'[Len(peers) + 1] = k
        /\ DOMAIN peers' = 1..(Len(peers) + 1)
    BY <2>1, <1>1
  <2>3. k \notin Range(peers)
    BY <1>2 DEF Lookup
  <2>4. Range(peers') = Range(peers) \cup {k}
    BY <1>1, <2>1, RangeOfAppend
  <2>5. \A j \in Keys : (index'[j] = None) = (j \notin Range(peers'))
    BY <2>1, <2>4, <1>1 DEF Lookup
  <2>6. ASSUME NEW i \in DOMAIN peers' PROVE index'[peers'[i]] = i - 1
    <3>1. CASE i = Len(peers) + 1
      BY <3>1, <2>1, <2>2, <1>1
    <3>2. CASE i \in 1..Len(peers)
      <4>1. peers[i] # k
        BY <2>3, <3>2, <1>1 DEF Range
      <4> QED
        BY <4>1, <3>2, <2>1, <2>2, <1>1 DEF Lookup
    <3> QED
      BY <3>1, <3>2, <2>2, <1>1
  <2>7. Found(k) = k
    BY <1>2 DEF Found
  <2>8. index' \in [Keys -> Nat \cup {None}]
    BY <2>1, <1>1
  <2>9. Lookup(peers', index')
    BY <2>5, <2>6 DEF Lookup
  <2> QED
    BY <2>2, <2>4, <2>7, <2>8, <2>9, <1>1
<1>3. CASE index[k] # None
  <2>1. peers' = peers /\ index' = index
    BY <1>3 DEF Enlist
  <2>2. k \in Range(peers)
    BY <1>3 DEF Lookup
  <2>3. PICK i \in DOMAIN peers : peers[i] = k
    BY <2>2 DEF Range
  <2>4. index[k] = i - 1
    BY <2>3 DEF Lookup
  <2>5. Found(k) = k
    BY <1>3, <2>3, <2>4, <1>1 DEF Found
  <2> QED
    BY <2>1, <2>2, <2>5, <1>1
<1> QED
  BY <1>2, <1>3

Distinct(list) == \A i, j \in DOMAIN list : list[i] = list[j] => i = j

LEMMA LookupIsDistinct ==
  ASSUME NEW list \in Seq(Keys), NEW at, Lookup(list, at)
  PROVE  Distinct(list)
BY DEF Distinct, Lookup

\* Positions turns a list without repetitions into its lookup.
LEMMA PositionsLookup ==
  ASSUME NEW list \in Seq(Keys), Distinct(list)
  PROVE  Positions(list) \in [Keys -> Nat \cup {None}] /\ Lookup(list, Positions(list))
<1> USE KeysAssumption
<1>1. Len(list) \in Nat /\ DOMAIN list = 1..Len(list) /\ \A i \in 1..Len(list) : list[i] \in Keys
  OBVIOUS
<1>2. ASSUME NEW i \in 1..Len(list) PROVE Place(list, list[i]) = i
  <2>1. Place(list, list[i]) \in 1..Len(list) /\ list[Place(list, list[i])] = list[i]
    BY <1>1 DEF Place
  <2> QED
    BY <2>1, <1>1 DEF Distinct
<1>3. ASSUME NEW k \in Keys
      PROVE  Positions(list)[k] = IF k \in Range(list) THEN Place(list, k) - 1 ELSE None
  BY DEF Positions
<1>4. ASSUME NEW k \in Range(list)
      PROVE  k \in Keys /\ Place(list, k) - 1 \in Nat /\ Place(list, k) - 1 # None
  <2>1. PICK i \in 1..Len(list) : list[i] = k
    BY <1>1, InRange
  <2> QED
    BY <2>1, <1>1, <1>2
<1>5. \A i \in 1..Len(list) : list[i] \in Range(list)
  BY <1>1, InRange
<1>6. \A i \in DOMAIN list : Positions(list)[list[i]] = i - 1
  BY <1>1, <1>2, <1>3, <1>5
<1>7. \A k \in Keys : (Positions(list)[k] = None) = (k \notin Range(list))
  BY <1>3, <1>4
<1>8. Positions(list) \in [Keys -> Nat \cup {None}]
  BY <1>4 DEF Positions
<1> QED
  BY <1>6, <1>7, <1>8 DEF Lookup

\* The list without one of its rows: the rows above it stay where they are.
LEMMA WithoutOne ==
  ASSUME NEW list \in Seq(Keys), Distinct(list), NEW k \in Keys, k \in Range(list)
  PROVE  /\ Without(list, k) \in Seq(Keys) /\ Distinct(Without(list, k))
         /\ Len(Without(list, k)) = Len(list) - 1
         /\ Place(list, k) \in 1..Len(list) /\ list[Place(list, k)] = k
         /\ \A i \in 1..(Place(list, k) - 1) : Without(list, k)[i] = list[i]
         /\ \A j : j \in Range(Without(list, k)) <=> j \in Range(list) \ {k}
<1> DEFINE n == Place(list, k)
           rest == Without(list, k)
<1>1. Len(list) \in Nat /\ DOMAIN list = 1..Len(list) /\ \A i \in 1..Len(list) : list[i] \in Keys
  OBVIOUS
<1>2. n \in 1..Len(list) /\ list[n] = k
  BY <1>1, InRange DEF Place
<1>3. rest = [i \in 1..(Len(list) - 1) |-> IF i < n THEN list[i] ELSE list[i + 1]]
  BY DEF Without
<1> HIDE DEF n, rest
<1>4. Len(list) - 1 \in Nat
  BY <1>1, <1>2
<1>5. \A i \in 1..(Len(list) - 1) : rest[i] = (IF i < n THEN list[i] ELSE list[i + 1])
  BY <1>3
<1>6. \A i \in 1..(Len(list) - 1) : rest[i] \in Keys
  BY <1>1, <1>2, <1>5
<1>7. rest \in [1..(Len(list) - 1) -> Keys]
  BY <1>3, <1>6
<1>8. rest \in Seq(Keys) /\ Len(rest) = Len(list) - 1 /\ DOMAIN rest = 1..(Len(list) - 1)
  BY <1>4, <1>7, SeqDef
<1>9. Distinct(rest)
  <2> SUFFICES ASSUME NEW i \in 1..(Len(list) - 1), NEW j \in 1..(Len(list) - 1), rest[i] = rest[j]
               PROVE  i = j
    BY <1>8 DEF Distinct
  <2>1. rest[i] = list[IF i < n THEN i ELSE i + 1] /\ rest[j] = list[IF j < n THEN j ELSE j + 1]
    BY <1>5
  <2>2. (IF i < n THEN i ELSE i + 1) \in 1..Len(list) /\ (IF j < n THEN j ELSE j + 1) \in 1..Len(list)
    BY <1>1
  <2>3. (IF i < n THEN i ELSE i + 1) = (IF j < n THEN j ELSE j + 1)
    BY <2>1, <2>2, <1>1 DEF Distinct
  <2> QED
    BY <2>3, <1>1, <1>2
<1>10. ASSUME NEW i \in 1..(Len(list) - 1) PROVE rest[i] # k
  <2>1. CASE i < n
    BY <2>1, <1>1, <1>2, <1>5 DEF Distinct
  <2>2. CASE ~(i < n)
    BY <2>2, <1>1, <1>2, <1>5 DEF Distinct
  <2> QED
    BY <2>1, <2>2
<1>11. k \notin Range(rest)
  BY <1>8, <1>10, InRange
<1>12. \A i \in 1..(n - 1) : rest[i] = list[i]
  BY <1>1, <1>2, <1>5
<1>13. ASSUME NEW j \in Range(list) \ {k} PROVE j \in Range(rest)
  <2>1. PICK i \in 1..Len(list) : list[i] = j
    BY <1>1, InRange
  <2>2. i # n
    BY <2>1, <1>2, <1>13
  <2>3. CASE i < n
    <3>1. i \in 1..(Len(list) - 1) /\ rest[i] = j
      BY <2>1, <2>3, <1>1, <1>2, <1>5
    <3> QED
      BY <3>1, <1>8, InRange
  <2>4. CASE i > n
    <3>1. i - 1 \in 1..(Len(list) - 1) /\ ~(i - 1 < n) /\ (i - 1) + 1 = i
      BY <2>1, <2>4, <1>1, <1>2
    <3>2. rest[i - 1] = j
      BY <3>1, <2>1, <1>5
    <3> QED
      BY <3>1, <3>2, <1>8, InRange
  <2> QED
    BY <2>1, <2>2, <2>3, <2>4, <1>1, <1>2
<1>14. ASSUME NEW j \in Range(rest) PROVE j \in Range(list)
  <2>1. PICK i \in 1..(Len(list) - 1) : rest[i] = j
    BY <1>8, InRange
  <2>2. \E h \in 1..Len(list) : list[h] = j
    <3>1. i \in 1..Len(list) /\ i + 1 \in 1..Len(list) /\ (j = list[i] \/ j = list[i + 1])
      BY <2>1, <1>1, <1>5
    <3> QED
      BY <3>1
  <2> QED
    BY <2>2, <1>1, InRange
<1>15. \A j : j \in Range(rest) <=> j \in Range(list) \ {k}
  BY <1>11, <1>13, <1>14
<1> QED
  BY <1>2, <1>8, <1>9, <1>12, <1>15 DEF n, rest

(***************************************************************************)
(* The sequences of a conversation.                                        *)
(***************************************************************************)
Skipped(s, k) == IF Len(s[k]) > LogLimit THEN Len(s[k]) - LogLimit ELSE 0

\* What a fold carries: the last messages of the store, one entry each.
LEMMA HistoryEntries ==
  ASSUME NEW s \in [Keys -> Seq(Nat)], NEW d, NEW k \in Keys
  PROVE  /\ History(s, d, k) \in Seq(Entry)
         /\ \A i \in DOMAIN History(s, d, k) :
              /\ Skipped(s, k) + i \in DOMAIN s[k]
              /\ History(s, d, k)[i].id = s[k][Skipped(s, k) + i]
         /\ s[k] = <<>> => History(s, d, k) = <<>>
         /\ Len(History(s, d, k)) = Len(s[k]) - Skipped(s, k)
<1> DEFINE all  == [i \in DOMAIN s[k] |-> [id |-> s[k][i], deleted |-> s[k][i] \in d]]
           skip == Skipped(s, k)
           n    == Len(s[k])
<1>1. s[k] \in Seq(Nat) /\ n \in Nat /\ DOMAIN s[k] = 1..n /\ \A i \in 1..n : s[k][i] \in Nat
  OBVIOUS
<1>2. all \in [1..n -> Entry]
  BY <1>1 DEF Entry
<1>3. all \in Seq(Entry) /\ Len(all) = n
  BY <1>1, <1>2, SeqDef
<1>4. skip \in Nat /\ skip <= n
  BY <1>1, LimitsAssumption DEF Skipped
<1>5. History(s, d, k) = SubSeq(all, skip + 1, n)
  BY <1>3 DEF History, Skipped
<1>6. \A i \in 1..n : all[i] \in Entry /\ all[i].id = s[k][i]
  BY <1>1, <1>2
<1> HIDE DEF all, skip, n
<1>7. /\ SubSeq(all, skip + 1, n) \in Seq(Entry)
      /\ Len(SubSeq(all, skip + 1, n)) = n - skip
      /\ \A i \in 1..(n - skip) : SubSeq(all, skip + 1, n)[i] = all[skip + i]
  <2>1. skip + 1 \in Int /\ n \in Int /\ \A i \in (skip + 1)..n : all[i] \in Entry
    BY <1>1, <1>4, <1>6
  <2>2. /\ SubSeq(all, skip + 1, n) \in Seq(Entry)
        /\ Len(SubSeq(all, skip + 1, n)) = IF skip + 1 <= n THEN n - (skip + 1) + 1 ELSE 0
        /\ \A i \in 1..(n - (skip + 1) + 1) : SubSeq(all, skip + 1, n)[i] = all[(skip + 1) + i - 1]
    BY <2>1, SubSeqProperties, SMTT(30)
  <2>3. n - (skip + 1) + 1 = n - skip
    BY <1>1, <1>4
  <2>4. (IF skip + 1 <= n THEN n - (skip + 1) + 1 ELSE 0) = n - skip
    BY <1>1, <1>4
  <2>5. \A i \in 1..(n - skip) : (skip + 1) + i - 1 = skip + i
    BY <1>1, <1>4
  <2> QED
    BY <2>2, <2>3, <2>4, <2>5
<1>8. DOMAIN History(s, d, k) = 1..(n - skip)
  BY <1>5, <1>7
<1>9. ASSUME NEW i \in 1..(n - skip)
      PROVE  skip + i \in 1..n /\ History(s, d, k)[i].id = s[k][skip + i]
  <2>1. skip + i \in 1..n
    BY <1>1, <1>4
  <2>2. History(s, d, k)[i] = all[skip + i]
    BY <1>5, <1>7
  <2> QED
    BY <1>6, <2>1, <2>2
<1>10. ASSUME s[k] = <<>> PROVE History(s, d, k) = <<>>
  <2>1. n = 0
    BY <1>10 DEF n
  <2>2. Len(History(s, d, k)) = 0 /\ History(s, d, k) \in Seq(Entry)
    BY <2>1, <1>4, <1>5, <1>7
  <2> QED
    BY <2>2
<1>11. DOMAIN s[k] = 1..n
  BY <1>1
<1>12. Len(History(s, d, k)) = Len(s[k]) - Skipped(s, k)
  BY <1>5, <1>7 DEF n, skip
<1> QED
  BY <1>5, <1>7, <1>8, <1>9, <1>10, <1>11, <1>12 DEF skip

\* A fold depends on nothing but the conversation's own messages.
LEMMA HistoryOwn ==
  ASSUME NEW s, NEW d, NEW r, NEW e, NEW k, s[k] = r[k],
         \A i \in DOMAIN s[k] : (s[k][i] \in d) = (s[k][i] \in e)
  PROVE  History(s, d, k) = History(r, e, k)
<1>1. [i \in DOMAIN s[k] |-> [id |-> s[k][i], deleted |-> s[k][i] \in d]]
        = [i \in DOMAIN r[k] |-> [id |-> r[k][i], deleted |-> r[k][i] \in e]]
  OBVIOUS
<1> QED
  BY <1>1 DEF History

\* z is s with x at i: what comes after it has moved by one place.
Put(s, i, x, z) ==
  /\ z \in Seq(Nat) /\ Len(z) = Len(s) + 1
  /\ \A j \in 1..(Len(s) + 1) : z[j] = IF j < i THEN s[j] ELSE IF j = i THEN x ELSE s[j - 1]

LEMMA InsertAtPlaces ==
  ASSUME NEW s \in Seq(Nat), NEW i \in 1..(Len(s) + 1), NEW x \in Nat
  PROVE  Put(s, i, x, InsertAt(s, i, x))
<1> DEFINE front == SubSeq(s, 1, i - 1)
           back  == SubSeq(s, i, Len(s))
<1>1. Len(s) \in Nat /\ DOMAIN s = 1..Len(s) /\ \A j \in 1..Len(s) : s[j] \in Nat
  OBVIOUS
<1>2. front \in Seq(Nat) /\ Len(front) = i - 1 /\ \A j \in 1..(i - 1) : front[j] = s[j]
  <2>1. 1 \in Int /\ i - 1 \in Int /\ \A j \in 1..(i - 1) : s[j] \in Nat
    BY <1>1
  <2>2. /\ front \in Seq(Nat) /\ Len(front) = IF 1 <= i - 1 THEN (i - 1) - 1 + 1 ELSE 0
        /\ \A j \in 1..((i - 1) - 1 + 1) : front[j] = s[1 + j - 1]
    BY <2>1, SubSeqProperties
  <2> QED
    BY <2>2, <1>1
<1>3. /\ back \in Seq(Nat) /\ Len(back) = Len(s) - i + 1
      /\ \A j \in 1..(Len(s) - i + 1) : back[j] = s[i + j - 1]
  <2>1. i \in Int /\ Len(s) \in Int /\ \A j \in i..Len(s) : s[j] \in Nat
    BY <1>1
  <2>2. /\ back \in Seq(Nat) /\ Len(back) = IF i <= Len(s) THEN Len(s) - i + 1 ELSE 0
        /\ \A j \in 1..(Len(s) - i + 1) : back[j] = s[i + j - 1]
    BY <2>1, SubSeqProperties
  <2> QED
    BY <2>2, <1>1
<1> DEFINE upto  == front \o <<x>>
           whole == upto \o back
<1>4. InsertAt(s, i, x) = whole
  BY DEF InsertAt
<1> HIDE DEF front, back
<1>5. /\ upto \in Seq(Nat) /\ Len(upto) = i
      /\ \A j \in 1..i : upto[j] = IF j < i THEN front[j] ELSE x
  BY <1>1, <1>2
<1> HIDE DEF upto
<1>6. /\ whole \in Seq(Nat) /\ Len(whole) = Len(s) + 1
      /\ \A j \in 1..(Len(s) + 1) : whole[j] = IF j <= i THEN upto[j] ELSE back[j - i]
  <2>1. /\ whole \in Seq(Nat)
        /\ Len(whole) = Len(upto) + Len(back)
        /\ \A j \in 1..(Len(upto) + Len(back)) :
             whole[j] = IF j <= Len(upto) THEN upto[j] ELSE back[j - Len(upto)]
    BY <1>3, <1>5, ConcatProperties, ZenonT(60)
  <2>2. Len(upto) = i /\ i + Len(back) = Len(s) + 1
    BY <1>1, <1>3, <1>5
  <2> QED
    BY <2>1, <2>2
<1> HIDE DEF whole
<1>7. ASSUME NEW j \in 1..(Len(s) + 1)
      PROVE  InsertAt(s, i, x)[j] = IF j < i THEN s[j] ELSE IF j = i THEN x ELSE s[j - 1]
  <2>1. CASE j < i
    <3>1. j \in 1..(i - 1) /\ j \in 1..Len(s)
      BY <2>1, <1>1
    <3>2. InsertAt(s, i, x)[j] = s[j]
      <4>1. InsertAt(s, i, x)[j] = upto[j]
        BY <2>1, <1>1, <1>4, <1>6
      <4>2. upto[j] = front[j]
        BY <2>1, <3>1, <1>1, <1>5, SMTT(30)
      <4>3. front[j] = s[j]
        BY <3>1, <1>2
      <4> QED
        BY <4>1, <4>2, <4>3
    <3> QED
      BY <2>1, <3>2
  <2>2. CASE j = i
    BY <2>2, <1>1, <1>4, <1>5, <1>6
  <2>3. CASE j > i
    <3>1. j - i \in 1..(Len(s) - i + 1) /\ j - 1 \in 1..Len(s)
      BY <2>3, <1>1
    <3>2. InsertAt(s, i, x)[j] = s[i + (j - i) - 1]
      <4>1. InsertAt(s, i, x)[j] = back[j - i]
        BY <2>3, <1>1, <1>4, <1>6
      <4> QED
        BY <4>1, <3>1, <1>3
    <3>3. i + (j - i) - 1 = j - 1
      BY <1>1
    <3> QED
      BY <2>3, <3>2, <3>3, <1>1
  <2> QED
    BY <2>1, <2>2, <2>3, <1>1
<1> QED
  BY <1>4, <1>6, <1>7 DEF Put

LEMMA InsertAtOne ==
  ASSUME NEW s \in Seq(Nat), NEW i \in 1..(Len(s) + 1), NEW x \in Nat
  PROVE  /\ InsertAt(s, i, x) \in Seq(Nat)
         /\ \A j \in DOMAIN InsertAt(s, i, x) :
              InsertAt(s, i, x)[j] = x \/ \E h \in DOMAIN s : InsertAt(s, i, x)[j] = s[h]
<1> DEFINE z == InsertAt(s, i, x)
<1>0. Put(s, i, x, z)
  BY InsertAtPlaces
<1>1. /\ z \in Seq(Nat) /\ Len(z) = Len(s) + 1 /\ Len(s) \in Nat /\ i \in 1..(Len(s) + 1)
      /\ \A j \in 1..(Len(s) + 1) : z[j] = IF j < i THEN s[j] ELSE IF j = i THEN x ELSE s[j - 1]
  BY <1>0 DEF Put
<1> HIDE DEF z
<1>2. ASSUME NEW j \in DOMAIN z PROVE z[j] = x \/ \E h \in DOMAIN s : z[j] = s[h]
  <2>1. j \in 1..(Len(s) + 1) /\ DOMAIN s = 1..Len(s)
    BY <1>1
  <2>2. CASE j < i
    <3>1. z[j] = s[j] /\ j \in 1..Len(s)
      BY <2>1, <2>2, <1>1
    <3> QED
      BY <3>1, <2>1
  <2>3. CASE j > i
    <3>1. z[j] = s[j - 1] /\ j - 1 \in 1..Len(s)
      BY <2>1, <2>3, <1>1, SMTT(30)
    <3> QED
      BY <3>1, <2>1
  <2>4. CASE j = i
    BY <2>1, <2>4, <1>1
  <2> QED
    BY <2>1, <2>2, <2>3, <2>4, <1>1
<1> QED
  BY <1>1, <1>2 DEF z

\* A new element is one more, and repeats nothing.
LEMMA InsertAtNew ==
  ASSUME NEW s \in Seq(Nat), NEW i \in 1..(Len(s) + 1), NEW x \in Nat,
         Distinct(s), x \notin Range(s)
  PROVE  Distinct(InsertAt(s, i, x)) /\ Range(InsertAt(s, i, x)) = Range(s) \cup {x}
<1> DEFINE z == InsertAt(s, i, x)
           at(j) == IF j < i THEN j ELSE j + 1
<1>0. Put(s, i, x, z)
  BY InsertAtPlaces
<1>1. /\ z \in Seq(Nat) /\ Len(z) = Len(s) + 1 /\ Len(s) \in Nat /\ i \in 1..(Len(s) + 1)
      /\ \A j \in 1..(Len(s) + 1) : z[j] = IF j < i THEN s[j] ELSE IF j = i THEN x ELSE s[j - 1]
      /\ DOMAIN s = 1..Len(s)
  BY <1>0 DEF Put
<1> HIDE DEF z
<1>2. DOMAIN z = 1..(Len(s) + 1) /\ z[i] = x
  BY <1>1
<1>3. ASSUME NEW j \in 1..(Len(s) + 1), j # i
      PROVE  \E h \in 1..Len(s) : z[j] = s[h] /\ j = at(h)
  <2>1. CASE j < i
    <3>1. z[j] = s[j] /\ j \in 1..Len(s) /\ j = at(j)
      BY <2>1, <1>1
    <3> QED
      BY <3>1
  <2>2. CASE j > i
    <3>1. z[j] = s[j - 1] /\ j - 1 \in 1..Len(s) /\ j = at(j - 1)
      BY <2>2, <1>1
    <3> QED
      BY <3>1
  <2> QED
    BY <2>1, <2>2, <1>3, <1>1
<1>4. ASSUME NEW h \in 1..Len(s) PROVE at(h) \in 1..(Len(s) + 1) /\ z[at(h)] = s[h]
  <2>1. CASE h < i
    BY <2>1, <1>1, SMTT(30)
  <2>2. CASE ~(h < i)
    <3>1. at(h) = h + 1 /\ h + 1 \in 1..(Len(s) + 1) /\ h + 1 > i /\ (h + 1) - 1 = h
      BY <2>2, <1>1
    <3> HIDE DEF at
    <3>2. z[h + 1] = s[(h + 1) - 1]
      BY <3>1, <1>1
    <3> QED
      BY <3>1, <3>2
  <2> QED
    BY <2>1, <2>2
<1>5. \A h \in 1..Len(s) : s[h] # x
  BY <1>1 DEF Range
<1> HIDE DEF at
<1>9. \A y : y \in Range(z) <=> \E j \in 1..(Len(s) + 1) : z[j] = y
  BY <1>2 DEF Range
<1>10. \A y : y \in Range(s) <=> \E h \in 1..Len(s) : s[h] = y
  BY <1>1 DEF Range
<1>6. ASSUME NEW a \in 1..(Len(s) + 1), NEW b \in 1..(Len(s) + 1), z[a] = z[b] PROVE a = b
  <2>1. CASE a = i \/ b = i
    BY <2>1, <1>2, <1>3, <1>5, <1>6
  <2>2. CASE a # i /\ b # i
    <3>1. PICK g \in 1..Len(s) : z[a] = s[g] /\ a = at(g)
      BY <2>2, <1>3
    <3>2. PICK h \in 1..Len(s) : z[b] = s[h] /\ b = at(h)
      BY <2>2, <1>3
    <3>3. g = h
      BY <3>1, <3>2, <1>6, <1>1 DEF Distinct
    <3> QED
      BY <3>1, <3>2, <3>3
  <2> QED
    BY <2>1, <2>2
<1>7. Distinct(z)
  BY <1>2, <1>6 DEF Distinct
<1>8. ASSUME NEW y PROVE y \in Range(z) <=> y \in Range(s) \/ y = x
  <2>1. y \in Range(z) => y \in Range(s) \/ y = x
    BY <1>2, <1>3, <1>9, <1>10
  <2>2. y \in Range(s) => y \in Range(z)
    BY <1>4, <1>9, <1>10
  <2>3. x \in Range(z)
    BY <1>1, <1>2, <1>9
  <2> QED
    BY <2>1, <2>2, <2>3
<1> QED
  BY <1>7, <1>8 DEF z

(***************************************************************************)
(* Whatever happens to the list, it stays a list and its lookup stays its  *)
(* lookup.                                                                 *)
(***************************************************************************)
Listed == ListTypes /\ LookupIsList

LEMMA ListedFacts ==
  ASSUME Listed
  PROVE  /\ Len(peers) \in Nat /\ DOMAIN peers = 1..Len(peers)
         /\ \A i \in 1..Len(peers) : peers[i] \in Keys
         /\ Selected \in Keys \cup {None} /\ (Selected # None <=> peers # <<>>)
         /\ \A k \in Keys : Len(row[k].log) \in Nat
<1>1. peers \in Seq(Keys) /\ sel \in Nat /\ sel <= LastOf(Len(peers)) /\ row \in [Keys -> Row]
  BY LookupParts DEF Listed, ListTypes
<1>2. Len(peers) \in Nat /\ DOMAIN peers = 1..Len(peers) /\ \A i \in 1..Len(peers) : peers[i] \in Keys
  BY <1>1
<1>3. Len(peers) > 0 <=> peers # <<>>
  BY <1>1
<1>4. Len(peers) > 0 => sel < Len(peers) /\ sel + 1 \in 1..Len(peers)
  BY <1>1, <1>2 DEF LastOf
<1>5. Selected \in Keys \cup {None} /\ (Selected # None <=> peers # <<>>)
  BY <1>1, <1>2, <1>3, <1>4, KeysAssumption DEF Selected
<1> QED
  BY <1>1, <1>2, <1>5 DEF Row

LEMMA ListedInit == Init => Listed
<1> SUFFICES ASSUME Init PROVE Listed
  OBVIOUS
<1>1. /\ peers = <<>> /\ index = [k \in Keys |-> None] /\ row = [k \in Keys |-> Blank] /\ sel = 0
  BY DEF Init
<1>2. Blank \in Row /\ Blank.cursor = 0 /\ Blank.log = <<>>
  BY DEF Blank, Row
<1>3. ListTypes
  BY <1>1, <1>2 DEF ListTypes
<1>4. Lookup(peers, index)
  BY <1>1 DEF Lookup, Range
<1>5. sel <= LastOf(Len(peers)) /\ Cursors(row)
  BY <1>1, <1>2 DEF LastOf, Cursors
<1> QED
  BY <1>3, <1>4, <1>5, LookupParts DEF Listed

LEMMA ListedSame ==
  ASSUME Listed, UNCHANGED <<peers, index, row, sel>>
  PROVE  Listed'
BY DEF Listed, ListTypes, LookupIsList, Shown

\* A change of one row that leaves its cursor inside its log.
LEMMA ListedRow ==
  ASSUME Listed, UNCHANGED <<peers, index>>,
         NEW k \in Keys, NEW r \in Row, r.cursor <= LastOf(Len(r.log)),
         row' = [row EXCEPT ![k] = r],
         sel' \in Nat, sel' <= LastOf(Len(peers))
  PROVE  Listed'
<1>1. ListTypes'
  BY DEF Listed, ListTypes
<1>2. Cursors(row')
  BY LookupParts DEF Listed, ListTypes, Cursors
<1>3. Lookup(peers', index')
  BY LookupParts DEF Listed
<1>4. sel' <= LastOf(Len(peers'))
  OBVIOUS
<1>5. LookupIsList'
  BY <1>2, <1>3, <1>4 DEF LookupIsList, Lookup, Cursors, Shown
<1> QED
  BY <1>1, <1>5 DEF Listed

LEMMA ListedMention ==
  ASSUME Listed, NEW k \in Keys, ApplyMention(k)
  PROVE  /\ Listed' /\ (Selected # None => Selected' = Selected)
         /\ Range(peers) \subseteq Range(peers')
<1>1. ListTypes /\ Lookup(peers, index) /\ sel <= LastOf(Len(peers)) /\ Cursors(row)
  BY LookupParts DEF Listed
<1>2. Enlist(k) /\ row' = row /\ sel' = sel
  BY DEF ApplyMention
<1>3. /\ peers' \in Seq(Keys) /\ index' \in [Keys -> Nat \cup {None}] /\ Lookup(peers', index')
      /\ Len(peers) <= Len(peers') /\ \A i \in 1..Len(peers) : peers'[i] = peers[i]
      /\ Range(peers) \subseteq Range(peers')
  BY <1>1, <1>2, Enlisted
<1>4. Len(peers) \in Nat /\ Len(peers') \in Nat /\ sel \in Nat
  BY <1>1, <1>3 DEF ListTypes
<1>5. sel' <= LastOf(Len(peers'))
  BY <1>1, <1>2, <1>3, <1>4 DEF LastOf
<1>6. ListTypes'
  BY <1>1, <1>2, <1>3 DEF ListTypes
<1>7. LookupIsList'
  BY <1>1, <1>2, <1>3, <1>5 DEF LookupIsList, Lookup, Cursors, Shown
<1>8. Selected # None => Selected' = Selected
  BY <1>2, <1>3, <1>4 DEF Selected
<1> QED
  BY <1>3, <1>6, <1>7, <1>8 DEF Listed

LEMMA WholeRow ==
  ASSUME NEW p \in Row, NEW l, NEW c, NEW u
  PROVE  [p EXCEPT !.log = l, !.cursor = c, !.unread = u]
           = [log |-> l, cursor |-> c, unread |-> u]
<1>1. SUFFICES ASSUME NEW r, r = [p EXCEPT !.log = l, !.cursor = c, !.unread = u]
               PROVE  r = [log |-> l, cursor |-> c, unread |-> u]
  OBVIOUS
<1>2. p = [log |-> p.log, cursor |-> p.cursor, unread |-> p.unread]
  BY DEF Row
<1> QED
  BY <1>1, <1>2

\* A fold that is longer than what is shown of another conversation than the
\* selected one leaves a mark, and no fold takes a mark away.
Marks(k, entries) ==
  \/ row'[k].unread # None
  \/ row[k].unread = None /\ (Len(entries) <= Len(row[k].log) \/ Selected = k)

LEMMA ListedLog ==
  ASSUME Listed, NEW k \in Keys, NEW entries \in Seq(Entry), ApplyLog(k, entries)
  PROVE  /\ Listed' /\ (Selected # None => Selected' = Selected)
         /\ row'[k].log = entries /\ Marks(k, entries)
         /\ \A j \in Keys \ {k} : row'[j] = row[j]
         /\ Range(peers) \cup {k} \subseteq Range(peers')
<1>1. ListTypes /\ Lookup(peers, index) /\ sel <= LastOf(Len(peers)) /\ Cursors(row)
  BY LookupParts DEF Listed
<1>2. Enlist(k) /\ sel' = sel
  BY DEF ApplyLog
<1>3. /\ peers' \in Seq(Keys) /\ index' \in [Keys -> Nat \cup {None}] /\ Lookup(peers', index')
      /\ Len(peers) <= Len(peers') /\ \A i \in 1..Len(peers) : peers'[i] = peers[i]
      /\ Found(k) = k /\ Range(peers) \cup {k} \subseteq Range(peers')
  <2>1. Range(peers) \subseteq Range(peers') /\ k \in Range(peers')
    BY <1>1, <1>2, Enlisted
  <2> QED
    BY <2>1, <1>1, <1>2, Enlisted
<1>4. PICK c \in Nat, u \in Nat \cup {None} :
        /\ c <= LastOf(Len(entries))
        /\ u # None \/ (row[k].unread = None /\ (Len(entries) <= Len(row[k].log) \/ Selected = k))
        /\ row' = [row EXCEPT ![k] = [log |-> entries, cursor |-> c, unread |-> u]]
  <2> DEFINE p      == row[k]
             before == Len(p.log)
             kept   == IF p.cursor + 1 >= before THEN LastOf(Len(entries)) ELSE p.cursor
             news   == Len(entries) > before /\ Selected # k
             c      == Least(kept, LastOf(Len(entries)))
             u      == IF news /\ p.unread = None THEN before ELSE p.unread
  <2>1. p \in Row /\ before \in Nat /\ Len(entries) \in Nat
    BY <1>1 DEF ListTypes, Row
  <2>2. LastOf(Len(entries)) \in Nat
    BY <2>1, LastOfType
  <2>3. kept \in Nat
    BY <2>1, <2>2 DEF Row
  <2>4. c \in Nat /\ c <= LastOf(Len(entries))
    <3> HIDE DEF kept
    <3> QED
      BY <2>2, <2>3, LeastType
  <2>5. u \in Nat \cup {None}
    BY <2>1 DEF Row
  <2>6. row' = [row EXCEPT ![k] = [p EXCEPT !.log = entries, !.cursor = c, !.unread = u]]
    BY <1>3 DEF ApplyLog
  <2>7. [p EXCEPT !.log = entries, !.cursor = c, !.unread = u]
          = [log |-> entries, cursor |-> c, unread |-> u]
    <3> HIDE DEF c, u, p
    <3>1. p \in Row
      BY <2>1
    <3> QED
      BY <3>1, WholeRow, ZenonT(60)
  <2>8. u # None \/ (p.unread = None /\ (Len(entries) <= before \/ Selected = k))
    BY <2>1, KeysAssumption
  <2> HIDE DEF c, u
  <2> QED
    BY <2>4, <2>5, <2>6, <2>7, <2>8
<1>5. [log |-> entries, cursor |-> c, unread |-> u] \in Row
  BY DEF Row
<1>6. ListTypes'
  BY <1>1, <1>2, <1>3, <1>4, <1>5 DEF ListTypes
<1>7. Cursors(row')
  BY <1>1, <1>4 DEF Cursors, ListTypes
<1>8. Len(peers) \in Nat /\ Len(peers') \in Nat /\ sel \in Nat
  BY <1>1, <1>3 DEF ListTypes
<1>9. sel' <= LastOf(Len(peers'))
  BY <1>1, <1>2, <1>3, <1>8 DEF LastOf
<1>10. LookupIsList'
  BY <1>3, <1>7, <1>9 DEF LookupIsList, Lookup, Cursors, Shown
<1>11. Selected # None => Selected' = Selected
  BY <1>2, <1>3, <1>8 DEF Selected
<1>12. row'[k].log = entries /\ \A j \in Keys \ {k} : row'[j] = row[j]
  BY <1>1, <1>4 DEF ListTypes
<1>13. Marks(k, entries)
  <2>1. row'[k].unread = u
    BY <1>1, <1>4 DEF ListTypes
  <2> QED
    BY <2>1, <1>4 DEF Marks
<1> QED
  BY <1>3, <1>6, <1>10, <1>11, <1>12, <1>13 DEF Listed

\* The selection is where it was, or a row at it or above it is gone.
Moved == /\ peers' # peers
         /\ \E i \in 1..(sel + 1) : peers[i] \notin Range(peers')

LEMMA ListedForgotten ==
  ASSUME Listed, NEW k \in Keys, ApplyForgotten(k)
  PROVE  /\ Listed' /\ row'[k].log = <<>>
         /\ \A j \in Keys \ {k} : row'[j] = row[j]
         /\ Selected' = Selected \/ Moved
         /\ Range(peers) \ {k} \subseteq Range(peers')
<1>1. Lookup(peers, index) /\ sel <= LastOf(Len(peers)) /\ Cursors(row)
  BY LookupParts DEF Listed
<1>2. peers \in Seq(Keys) /\ sel \in Nat /\ Len(peers) \in Nat /\ row \in [Keys -> Row]
  BY DEF Listed, ListTypes
<1>3. Distinct(peers)
  BY <1>1, <1>2, LookupIsDistinct
<1>4. /\ peers' = Without(peers, k) /\ index' = Positions(peers')
      /\ row' = [row EXCEPT ![k] = Blank] /\ sel' = Least(sel, LastOf(Len(peers')))
  BY DEF ApplyForgotten
<1>5. Blank \in Row /\ Blank.cursor = 0 /\ Blank.log = <<>>
  BY DEF Blank, Row
<1>6. /\ peers' \in Seq(Keys) /\ Distinct(peers')
      /\ Selected' = Selected \/ Moved
      /\ Range(peers) \ {k} \subseteq Range(peers')
  <2>1. CASE k \notin Range(peers)
    <3>1. peers' = peers
      BY <1>4, <2>1 DEF Without
    <3>2. sel' = sel
      <4>1. sel <= LastOf(Len(peers')) /\ LastOf(Len(peers')) \in Nat
        BY <3>1, <1>1, <1>2, LastOfType
      <4> QED
        BY <4>1, <1>2, <1>4 DEF Least
    <3> QED
      BY <3>1, <3>2, <1>2, <1>3 DEF Selected
  <2>2. CASE k \in Range(peers)
    <3> DEFINE n == Place(peers, k)
    <3>1. /\ peers' \in Seq(Keys) /\ Distinct(peers') /\ Len(peers') = Len(peers) - 1
          /\ n \in 1..Len(peers) /\ peers[n] = k
          /\ \A j : j \in Range(peers') <=> j \in Range(peers) \ {k}
          /\ \A i \in 1..(n - 1) : peers'[i] = peers[i]
      BY <1>2, <1>3, <1>4, <2>2, WithoutOne
    <3> HIDE DEF n
    <3>2. CASE n <= sel + 1
      <4>1. n \in 1..(sel + 1) /\ peers' # peers
        BY <3>1, <3>2, <1>2
      <4> QED
        BY <4>1, <3>1 DEF Moved
    <3>3. CASE n > sel + 1
      <4>1. sel <= LastOf(Len(peers')) /\ LastOf(Len(peers')) \in Nat
        BY <3>1, <3>3, <1>2 DEF LastOf
      <4>2. sel' = sel
        BY <4>1, <1>2, <1>4 DEF Least
      <4>3. sel < Len(peers) /\ sel < Len(peers') /\ peers'[sel + 1] = peers[sel + 1]
        BY <3>1, <3>3, <1>2
      <4> QED
        BY <4>2, <4>3, <3>1 DEF Selected
    <3> QED
      BY <3>1, <3>2, <3>3, <1>2
  <2> QED
    BY <2>1, <2>2
<1>7. index' \in [Keys -> Nat \cup {None}] /\ Lookup(peers', index')
  BY <1>4, <1>6, PositionsLookup
<1>8. Len(peers') \in Nat
  BY <1>6
<1>9. LastOf(Len(peers')) \in Nat
  BY <1>8, LastOfType
<1>10. sel' \in Nat /\ sel' <= LastOf(Len(peers'))
  BY <1>2, <1>4, <1>9, LeastType
<1>11. ListTypes'
  BY <1>2, <1>4, <1>5, <1>6, <1>7, <1>10 DEF ListTypes
<1>12. Cursors(row')
  BY <1>1, <1>2, <1>4, <1>5 DEF Cursors, LastOf
<1>13. LookupIsList'
  BY <1>7, <1>10, <1>12 DEF LookupIsList, Lookup, Cursors, Shown
<1>14. row'[k].log = <<>> /\ \A j \in Keys \ {k} : row'[j] = row[j]
  BY <1>2, <1>4, <1>5
<1> QED
  BY <1>6, <1>11, <1>13, <1>14 DEF Listed

LEMMA ListedWiped ==
  ASSUME Listed, ApplyWiped
  PROVE  /\ Listed' /\ \A k \in Keys : Shown(k)' = <<>>
         /\ Selected = None \/ Moved
<1>1. peers' = <<>> /\ index' = [k \in Keys |-> None] /\ row' = [k \in Keys |-> Blank] /\ sel' = 0
  BY DEF ApplyWiped
<1>2. Blank \in Row /\ Blank.cursor = 0 /\ Blank.log = <<>>
  BY DEF Blank, Row
<1>3. ListTypes'
  BY <1>1, <1>2 DEF ListTypes
<1>4. Lookup(peers', index')
  BY <1>1 DEF Lookup, Range
<1>5. sel' <= LastOf(Len(peers')) /\ Cursors(row')
  BY <1>1, <1>2 DEF LastOf, Cursors
<1>6. LookupIsList'
  BY <1>4, <1>5 DEF LookupIsList, Lookup, Cursors, Shown
<1>7. \A k \in Keys : Shown(k)' = <<>>
  BY <1>1, <1>2 DEF Shown
<1>8. Selected = None \/ Moved
  <2>1. 1 \in 1..(sel + 1)
    BY DEF Listed, ListTypes
  <2>2. peers[1] \notin Range(peers')
    BY <1>1 DEF Range
  <2> QED
    BY <2>1, <2>2, <1>1, ListedFacts DEF Moved
<1> QED
  BY <1>3, <1>6, <1>7, <1>8 DEF Listed

\* Selecting a row takes its mark away and nothing else.
LEMMA ListedLook ==
  ASSUME Listed, NEW s \in 0..(Len(peers) - 1), Look(s), UNCHANGED <<peers, index>>
  PROVE  /\ Listed' /\ \A k \in Keys : row'[k].log = row[k].log
         /\ \A k \in Keys : k # Selected' => row'[k].unread = row[k].unread
<1>1. /\ peers \in Seq(Keys) /\ Len(peers) \in Nat /\ row \in [Keys -> Row]
      /\ \A i \in 1..Len(peers) : peers[i] \in Keys
  BY ListedFacts DEF Listed, ListTypes
<1>2. s + 1 \in 1..Len(peers) /\ s \in Nat /\ s <= LastOf(Len(peers))
  BY <1>1 DEF LastOf
<1> DEFINE k == peers[s + 1]
           r == [row[k] EXCEPT !.unread = None]
<1>3. k \in Keys
  BY <1>1, <1>2
<1>4. row[k] \in Row /\ row[k].cursor <= LastOf(Len(row[k].log))
  BY <1>1, <1>3, LookupParts DEF Listed, Cursors
<1>5. sel' = s /\ row' = [row EXCEPT ![k] = r]
  BY DEF Look
<1> HIDE DEF k
<1>6. r \in Row /\ r.cursor = row[k].cursor /\ r.log = row[k].log
  BY <1>4 DEF Row
<1>7. Listed'
  <2> HIDE DEF r
  <2> QED
    BY <1>2, <1>3, <1>4, <1>5, <1>6, ListedRow
<1>8. \A j \in Keys : row'[j].log = row[j].log
  BY <1>1, <1>3, <1>5, <1>6
<1>9. Selected' = k
  BY <1>1, <1>2, <1>5 DEF Selected, k
<1>10. \A j \in Keys : j # k => row'[j].unread = row[j].unread
  BY <1>1, <1>3, <1>5
<1> QED
  BY <1>7, <1>8, <1>9, <1>10

\* Pointing at a message moves the cursor of the selected conversation.
LEMMA ListedPoint ==
  ASSUME Listed, Selected # None, NEW c \in Nat, Point(c), UNCHANGED <<peers, index, sel>>
  PROVE  /\ Listed' /\ \A k \in Keys : row'[k].log = row[k].log
         /\ \A k \in Keys : row'[k].unread = row[k].unread
<1> DEFINE k == Selected
           b == Least(c, LastOf(Len(row[k].log)))
           r == [row[k] EXCEPT !.cursor = b]
<1>1. k \in Keys /\ Len(row[k].log) \in Nat
  BY ListedFacts
<1>2. row[k] \in Row /\ row \in [Keys -> Row] /\ sel \in Nat /\ sel <= LastOf(Len(peers))
  BY <1>1, LookupParts DEF Listed, ListTypes
<1>3. row' = [row EXCEPT ![k] = r]
  BY DEF Point
<1> HIDE DEF k
<1>4. b \in Nat /\ b <= LastOf(Len(row[k].log))
  BY <1>1, LastOfType, LeastType
<1> HIDE DEF b
<1>5. r \in Row /\ r.cursor = b /\ r.log = row[k].log /\ r.unread = row[k].unread
  BY <1>2, <1>4 DEF Row
<1>6. Listed'
  <2> HIDE DEF r
  <2> QED
    BY <1>1, <1>2, <1>3, <1>4, <1>5, ListedRow
<1>7. \A j \in Keys : row'[j].log = row[j].log /\ row'[j].unread = row[j].unread
  BY <1>1, <1>2, <1>3, <1>5
<1> QED
  BY <1>6, <1>7

(***************************************************************************)
(* The store, the tasks and the commands.                                  *)
(***************************************************************************)
In(ms, id, k) == id \in DOMAIN ms /\ ms[id].home = k

Stored ==
  /\ stored \in [Keys -> Seq(Nat)] /\ messages \in Seq(Message) /\ deleted \subseteq DOMAIN messages
  /\ \A k \in Keys : \A i \in DOMAIN stored[k] : In(messages, stored[k][i], k)

Doing ==
  /\ doing \in [Tasks -> Task]
  /\ \A t \in Tasks : doing[t] \in LogTask =>
       \A i \in DOMAIN doing[t].entries : In(messages, doing[t].entries[i].id, doing[t].peer)

Rows == \A k \in Keys : \A i \in DOMAIN row[k].log : In(messages, row[k].log[i].id, k)

Queue == commands \in Seq(OnePeer \cup AnyPeer) /\ Len(commands) <= MaxQueue

Writing ==
  /\ pending \in {None} \cup Pending
  /\ pending # None =>
       /\ pending.target \in DOMAIN messages
       /\ pending.kind = "edit" => messages[pending.target].mine
       /\ ~moved => messages[pending.target].home = Selected

Others ==
  /\ left \in Left /\ cleared \subseteq Keys /\ crossed \subseteq Keys /\ moved \in BOOLEAN
  /\ focus \in {"peers", "chat", "input"} /\ overlay \in BOOLEAN

Sound == Listed /\ Stored /\ Doing /\ Rows /\ Queue /\ Writing /\ Others

\* What a step does to the messages: none is lost or changed, and only those
\* of the named conversations come, go or get deleted.
Grows == \A id \in DOMAIN messages : id \in DOMAIN messages' /\ messages'[id] = messages[id]

Only(S) == \A j \in Keys \ S : /\ stored'[j] = stored[j]
                               /\ \A i \in DOMAIN stored[j] :
                                    (stored[j][i] \in deleted) = (stored[j][i] \in deleted')

LEMMA AtStays == ASSUME Grows PROVE \A id, k : In(messages, id, k) => In(messages', id, k)
BY DEF Grows, In

LEMMA TaskKinds ==
  /\ \A d \in LogTask : d.kind = "log" /\ d.peer \in Keys /\ d.entries \in Seq(Entry)
  /\ \A d \in Removal : d.kind \in {"clear", "forget"} /\ d.peer \in Keys
  /\ \A d \in Wiping : d.kind = "wipe"
  /\ None \notin LogTask \cup Removal \cup Wiping
<1>1. None \notin LogTask \cup Removal \cup Wiping
  BY NoTaskAssumption DEF LogTask, Removal, Wiping, Entry
<1> QED
  BY <1>1 DEF LogTask, Removal, Wiping

LEMMA Spent ==
  ASSUME left \in Left, NEW kind \in {"messages", "commands", "removals", "overlays"}, Spend(kind)
  PROVE  left' \in Left
BY DEF Left, Spend

LEMMA InsertStores ==
  ASSUME Stored, Others, NEW k \in Keys, NEW mine \in BOOLEAN, Insert(k, mine)
  PROVE  Stored' /\ Grows /\ Only({k}) /\ left' \in Left
<1> DEFINE x == Len(messages) + 1
           m == [home |-> k, mine |-> mine]
<1>1. /\ messages \in Seq(Message) /\ Len(messages) \in Nat /\ m \in Message
      /\ messages' = Append(messages, m) /\ UNCHANGED deleted
  BY DEF Stored, Insert, Message
<1>2. /\ messages' \in Seq(Message) /\ DOMAIN messages' = 1..x /\ messages'[x] = m
      /\ DOMAIN messages = 1..Len(messages)
      /\ \A id \in 1..Len(messages) : messages'[id] = messages[id]
  BY <1>1
<1>3. Grows
  BY <1>1, <1>2 DEF Grows
<1>4. In(messages', x, k)
  BY <1>1, <1>2 DEF In
<1>5. stored \in [Keys -> Seq(Nat)] /\ stored[k] \in Seq(Nat)
  BY DEF Stored
<1>6. PICK i \in 1..(Len(stored[k]) + 1) : stored' = [stored EXCEPT ![k] = InsertAt(@, i, x)]
  BY DEF Insert
<1>7. x \in Nat
  BY <1>1
<1> HIDE DEF x, m
<1>8. /\ InsertAt(stored[k], i, x) \in Seq(Nat)
      /\ \A j \in DOMAIN InsertAt(stored[k], i, x) :
           InsertAt(stored[k], i, x)[j] = x \/ \E h \in DOMAIN stored[k] : InsertAt(stored[k], i, x)[j] = stored[k][h]
  BY <1>5, <1>6, <1>7, InsertAtOne
<1>9. /\ stored' \in [Keys -> Seq(Nat)] /\ stored'[k] = InsertAt(stored[k], i, x)
      /\ \A j \in Keys \ {k} : stored'[j] = stored[j]
  BY <1>5, <1>6, <1>8
<1>10. ASSUME NEW j \in Keys, NEW h \in DOMAIN stored'[j] PROVE In(messages', stored'[j][h], j)
  <2>1. \A id : In(messages, id, j) => In(messages', id, j)
    BY <1>3, AtStays
  <2>2. \A g \in DOMAIN stored[j] : In(messages, stored[j][g], j)
    BY DEF Stored
  <2>3. CASE j = k
    BY <2>1, <2>2, <2>3, <1>4, <1>8, <1>9
  <2>4. CASE j # k
    BY <2>1, <2>2, <2>4, <1>9
  <2> QED
    BY <2>3, <2>4
<1>11. deleted' \subseteq DOMAIN messages'
  BY <1>1, <1>2, <1>3 DEF Stored, Grows
<1>12. Only({k})
  BY <1>1, <1>9 DEF Only
<1>13. left' \in Left
  BY Spent DEF Insert, Others
<1> QED
  BY <1>2, <1>3, <1>9, <1>10, <1>11, <1>12, <1>13 DEF Stored

LEMMA StrikeStores ==
  ASSUME Stored, NEW k \in Keys, NEW id, Strike(k, id)
  PROVE  Stored' /\ Grows /\ Only({k})
<1>1. UNCHANGED <<stored, messages>> /\ deleted' \in {deleted, deleted \cup {id}}
  BY DEF Strike
<1>2. /\ stored \in [Keys -> Seq(Nat)] /\ \A j \in Keys : stored[j] \in Seq(Nat)
      /\ \A j \in Keys : \A i \in DOMAIN stored[j] : In(messages, stored[j][i], j)
  BY DEF Stored
<1>3. id \in Range(stored[k]) => In(messages, id, k)
  BY <1>2 DEF Range
<1>4. deleted' \subseteq DOMAIN messages'
  BY <1>1, <1>3 DEF Stored, Strike, In
<1>5. Only({k})
  <2> SUFFICES ASSUME NEW j \in Keys \ {k}, NEW i \in DOMAIN stored[j]
               PROVE  (stored[j][i] \in deleted) = (stored[j][i] \in deleted')
    BY <1>1 DEF Only
  <2>1. In(messages, stored[j][i], j)
    BY <1>2
  <2>2. id \in Range(stored[k]) => stored[j][i] # id
    BY <2>1, <1>3 DEF In
  <2> QED
    BY <2>2 DEF Strike
<1>6. Grows
  BY <1>1 DEF Grows
<1>7. \A j \in Keys : \A i \in DOMAIN stored'[j] : In(messages', stored'[j][i], j)
  BY <1>1, <1>2 DEF In
<1> QED
  BY <1>1, <1>4, <1>5, <1>6, <1>7 DEF Stored

LEMMA DropStores ==
  ASSUME Stored, Others, NEW S \in SUBSET Keys, Drop(S)
  PROVE  /\ Stored' /\ Grows /\ Only(S) /\ cleared' \subseteq Keys
         /\ cleared \cup S \subseteq cleared'
         /\ \A k \in S : stored'[k] = <<>>
<1>1. /\ stored' = [k \in Keys |-> IF k \in S THEN <<>> ELSE stored[k]]
      /\ cleared' = cleared \cup S /\ messages' = messages /\ deleted' = deleted
  BY DEF Drop
<1>2. stored' \in [Keys -> Seq(Nat)]
  BY <1>1 DEF Stored
<1>3. \A j \in Keys : \A i \in DOMAIN stored'[j] : In(messages', stored'[j][i], j)
  BY <1>1 DEF Stored, In
<1>4. Grows /\ Only(S)
  BY <1>1 DEF Grows, Only
<1> QED
  BY <1>1, <1>2, <1>3, <1>4 DEF Stored, Others

LEMMA SameStores ==
  ASSUME Stored, UNCHANGED store
  PROVE  Stored' /\ Grows /\ Only({})
BY DEF Stored, store, In, Grows, Only

\* A fold is told about the conversation it was read from.
LEMMA FoldDoes ==
  ASSUME Stored', Doing, Grows, NEW t \in Tasks, NEW k \in Keys, Fold(t, k)
  PROVE  /\ Doing' /\ doing'[t] \in LogTask /\ doing'[t].peer = k /\ doing'[t].entries = Current(k)'
         /\ \A u \in Tasks \ {t} : doing'[u] = doing[u]
<1>1. stored' \in [Keys -> Seq(Nat)] /\ \A i \in DOMAIN stored'[k] : In(messages', stored'[k][i], k)
  BY DEF Stored
<1> DEFINE e == History(stored', deleted', k)
           d == [kind |-> "log", peer |-> k, entries |-> e]
<1>2. e \in Seq(Entry) /\ \A i \in DOMAIN e : In(messages', e[i].id, k)
  <2>1. /\ e \in Seq(Entry)
        /\ \A i \in DOMAIN e : /\ Skipped(stored', k) + i \in DOMAIN stored'[k]
                               /\ e[i].id = stored'[k][Skipped(stored', k) + i]
    BY <1>1, HistoryEntries
  <2> HIDE DEF e
  <2> QED
    BY <2>1, <1>1
<1>3. doing' = [doing EXCEPT ![t] = d] /\ doing \in [Tasks -> Task] /\ e = Current(k)'
  BY DEF Fold, Doing, Current
<1> HIDE DEF e
<1>4. d \in LogTask /\ d.entries = e /\ d.peer = k
  BY <1>2 DEF LogTask
<1> HIDE DEF d
<1>5. doing' \in [Tasks -> Task] /\ doing'[t] = d /\ \A u \in Tasks \ {t} : doing'[u] = doing[u]
  BY <1>3, <1>4 DEF Task
<1>6. ASSUME NEW u \in Tasks, doing'[u] \in LogTask, NEW i \in DOMAIN doing'[u].entries
      PROVE  In(messages', doing'[u].entries[i].id, doing'[u].peer)
  <2>1. CASE u = t
    BY <2>1, <1>2, <1>4, <1>5, <1>6
  <2>2. CASE u # t
    BY <2>2, <1>5, <1>6, AtStays DEF Doing
  <2> QED
    BY <2>1, <2>2
<1> QED
  BY <1>3, <1>4, <1>5, <1>6 DEF Doing

LEMMA TaskChanges ==
  ASSUME Doing, Grows, NEW t \in Tasks, NEW d \in Task \ LogTask, doing' = [doing EXCEPT ![t] = d]
  PROVE  /\ Doing' /\ doing'[t] = d
         /\ \A u \in Tasks \ {t} : doing'[u] = doing[u]
<1>1. /\ doing' \in [Tasks -> Task] /\ doing'[t] = d
      /\ \A u \in Tasks \ {t} : doing'[u] = doing[u]
  BY DEF Doing
<1>2. ASSUME NEW u \in Tasks, doing'[u] \in LogTask, NEW i \in DOMAIN doing'[u].entries
      PROVE  In(messages', doing'[u].entries[i].id, doing'[u].peer)
  BY <1>1, <1>2, AtStays DEF Doing
<1> QED
  BY <1>1, <1>2 DEF Doing

LEMMA DoingSame ==
  ASSUME Doing, Grows, UNCHANGED doing
  PROVE  Doing'
BY AtStays DEF Doing

(***************************************************************************)
(* What the user does.                                                     *)
(***************************************************************************)
\* A command that was issued belongs where its message is.
Issued ==
  Len(commands') > Len(commands) =>
    LET c == Last(commands') IN
    c.target # None =>
      /\ \/ messages[c.target].home = c.peer
         \/ moved /\ c.kind \in {"edit", "reply"}
      /\ c.kind \in {"edit", "delete"} => messages[c.target].mine

\* An edit or a reply is begun on a message of the selected conversation.
Begun ==
  /\ pending' \in Pending /\ Selected' = Selected
  /\ In(messages, pending'.target, Selected)
  /\ pending'.kind = "edit" => messages[pending'.target].mine

UserEffect ==
  /\ Listed' /\ (\A k \in Keys : row'[k].log = row[k].log)
  /\ \A k \in Keys : k # Selected' => row'[k].unread = row[k].unread
  /\ UNCHANGED <<peers, store, doing, cleared>>
  /\ Queue' /\ left' \in Left /\ focus' \in {"peers", "chat", "input"} /\ overlay' \in BOOLEAN
  /\ Watch /\ Issued
  /\ pending' \in {None, pending} \/ Begun
  /\ Selected' = Selected \/ UNCHANGED commands

LEMMA QueueSame ==
  ASSUME Queue, UNCHANGED commands
  PROVE  Queue' /\ Issued
<1>1. Len(commands) \in Nat
  BY DEF Queue
<1> QED
  BY <1>1 DEF Queue, Issued

LEMMA QueueGrows ==
  ASSUME Queue, NEW c \in OnePeer \cup AnyPeer, Issue(c)
  PROVE  Queue' /\ Last(commands') = c
<1>1. /\ commands \in Seq(OnePeer \cup AnyPeer) /\ Len(commands) \in Nat /\ MaxQueue \in Nat
      /\ Len(commands) < MaxQueue /\ commands' = Append(commands, c)
  BY LimitsAssumption DEF Queue, Issue
<1>2. /\ commands' \in Seq(OnePeer \cup AnyPeer) /\ Len(commands') = Len(commands) + 1
      /\ commands'[Len(commands) + 1] = c
  BY <1>1
<1> QED
  BY <1>1, <1>2 DEF Queue, Last

\* The steps that change neither the list nor the selection.
LEMMA SameLists ==
  ASSUME Sound, UNCHANGED <<peers, index, row, sel>>
  PROVE  /\ Listed' /\ (\A k \in Keys : row'[k].log = row[k].log) /\ Selected' = Selected
         /\ \A k \in Keys : k # Selected' => row'[k].unread = row[k].unread
BY ListedSame DEF Sound, Selected

\* The message under the cursor.
LEMMA CursorFacts ==
  ASSUME Sound, OnMessage
  PROVE  /\ Selected \in Keys /\ CursorEntry.id \in Nat /\ In(messages, CursorEntry.id, Selected)
<1>1. Selected \in Keys /\ row[Selected] \in Row /\ row[Selected].cursor < Len(row[Selected].log)
  BY ListedFacts DEF OnMessage, Sound, Listed, ListTypes
<1>2. /\ row[Selected].cursor \in Nat /\ row[Selected].log \in Seq(Entry)
      /\ Len(row[Selected].log) \in Nat
  BY <1>1 DEF Row
<1>3. row[Selected].cursor + 1 \in 1..Len(row[Selected].log)
  BY <1>1, <1>2
<1>4. CursorEntry \in Entry /\ In(messages, CursorEntry.id, Selected)
  BY <1>1, <1>2, <1>3 DEF CursorEntry, Sound, Rows
<1> QED
  BY <1>1, <1>4 DEF Entry

LEMMA LookIsUser ==
  ASSUME Sound, NEW s \in 0..(Len(peers) - 1), Look(s), UNCHANGED <<peers, index, pending, overlay>>,
         focus' \in {"peers", "chat", "input"}, Free
  PROVE  UserEffect
<1>1. /\ Listed' /\ \A k \in Keys : row'[k].log = row[k].log
      /\ \A k \in Keys : k # Selected' => row'[k].unread = row[k].unread
  BY ListedLook DEF Sound
<1>2. Queue' /\ Issued
  BY QueueSame DEF Sound, Free, Rest
<1> QED
  BY <1>1, <1>2 DEF UserEffect, Free, Rest, Sound, Others

LEMMA PointIsUser ==
  ASSUME Sound, Selected # None, NEW c \in Nat, Point(c),
         UNCHANGED <<peers, index, sel, pending, overlay>>,
         focus' \in {"peers", "chat", "input"}, Free
  PROVE  UserEffect
<1>1. /\ Listed' /\ \A k \in Keys : row'[k].log = row[k].log
      /\ \A k \in Keys : row'[k].unread = row[k].unread
  BY ListedPoint DEF Sound
<1>2. Queue' /\ Issued
  BY QueueSame DEF Sound, Free, Rest
<1>3. Selected' = Selected
  BY DEF Selected
<1> QED
  BY <1>1, <1>2, <1>3 DEF UserEffect, Free, Rest, Sound, Others

LEMMA TurnIsUser ==
  ASSUME Sound, peers # <<>>, NEW delta \in {-1, 1}, Look((sel + delta) % Len(peers)),
         UNCHANGED <<peers, index, focus, pending, overlay>>, Free
  PROVE  UserEffect
<1>1. Len(peers) \in Nat /\ Len(peers) # 0 /\ sel \in Nat
  <2>1. peers \in Seq(Keys) /\ sel \in Nat
    BY DEF Sound, Listed, ListTypes
  <2> QED
    BY <2>1
<1>2. (sel + delta) % Len(peers) \in 0..(Len(peers) - 1)
  BY <1>1
<1> QED
  BY <1>2, LookIsUser DEF Sound, Others

LEMMA PlainIsUser ==
  ASSUME Sound, UNCHANGED <<peers, index, row, sel>>, pending' \in {None, pending},
         focus' \in {"peers", "chat", "input"}, overlay' \in BOOLEAN, Free
  PROVE  UserEffect
<1>1. Queue' /\ Issued
  BY QueueSame DEF Sound, Free, Rest
<1> QED
  BY <1>1, SameLists DEF UserEffect, Free, Rest, Sound, Others

\* A step that issues one command.
LEMMA CommandIsUser ==
  ASSUME Sound, UNCHANGED <<peers, index, row, sel>>, pending' \in {None, pending},
         focus' \in {"peers", "chat", "input"}, overlay' \in BOOLEAN,
         UNCHANGED <<store, doing, cleared>>, Watch,
         NEW kind \in {"commands", "removals"}, Spend(kind),
         NEW c \in OnePeer \cup AnyPeer, Issue(c),
         c.target # None =>
           /\ \/ messages[c.target].home = c.peer
              \/ moved /\ c.kind \in {"edit", "reply"}
           /\ c.kind \in {"edit", "delete"} => messages[c.target].mine
  PROVE  UserEffect
<1>1. Queue' /\ Last(commands') = c
  BY QueueGrows DEF Sound
<1>2. Issued
  BY <1>1 DEF Issued
<1>3. left' \in Left
  BY Spent DEF Sound, Others
<1> QED
  BY <1>1, <1>2, <1>3, SameLists DEF UserEffect

LEMMA ChatActionIsUser ==
  ASSUME Sound, ChatAction
  PROVE  UserEffect
<1> DEFINE e == CursorEntry
<1>1. /\ OnMessage /\ overlay' = FALSE
      /\ UNCHANGED <<peers, index, row, sel, store, doing, cleared>> /\ Watch
  BY DEF ChatAction
<1>2. Selected \in Keys /\ e.id \in Nat /\ In(messages, e.id, Selected)
  BY <1>1, CursorFacts
<1>3. ASSUME NEW kind \in {"reply", "edit"}, Compose(kind), kind = "edit" => Changeable
      PROVE  UserEffect
  <2>1. pending' = [kind |-> kind, target |-> e.id] /\ focus' = "input" /\ UNCHANGED <<commands, left>>
    BY <1>3 DEF Compose
  <2>2. Selected' = Selected
    BY <1>1 DEF Selected
  <2>3. kind = "edit" => messages[e.id].mine
    BY <1>3 DEF Changeable
  <2> HIDE DEF e
  <2>4. Begun
    BY <1>2, <2>1, <2>2, <2>3 DEF Begun, Pending
  <2>5. Queue' /\ Issued
    BY <2>1, QueueSame DEF Sound
  <2> QED
    BY <1>1, <2>1, <2>4, <2>5, SameLists DEF UserEffect, Sound, Others
<1>4. ASSUME NEW kind \in {"delete", "react"}, Act(kind), kind = "delete" => Changeable
      PROVE  UserEffect
  <2> DEFINE c == Command(kind, Selected, e.id)
  <2>1. Issue(c) /\ Spend("commands") /\ UNCHANGED <<pending, focus>>
    BY <1>4 DEF Act, Send
  <2>2. kind = "delete" => messages[e.id].mine
    BY <1>4 DEF Changeable
  <2> HIDE DEF e
  <2>3. c \in OnePeer /\ c.target = e.id /\ c.peer = Selected /\ c.kind = kind
    BY <1>2 DEF Command, OnePeer
  <2>4. messages[c.target].home = c.peer /\ (c.kind \in {"edit", "delete"} => messages[c.target].mine)
    BY <1>2, <2>2, <2>3 DEF In
  <2> HIDE DEF c
  <2> QED
    BY <1>1, <2>1, <2>3, <2>4, CommandIsUser DEF Sound, Others
<1>5. \/ Compose("reply")
      \/ Changeable /\ Compose("edit")
      \/ Changeable /\ Act("delete")
      \/ Act("react")
  BY DEF ChatAction
<1> QED
  BY <1>3, <1>4, <1>5

LEMMA SubmitIsUser ==
  ASSUME Sound, Submit
  PROVE  UserEffect
<1> DEFINE c == IF pending = None THEN Command("send", Selected, None)
                ELSE Command(pending.kind, Selected, pending.target)
<1>1. /\ Selected # None /\ Issue(c) /\ Spend("commands") /\ pending' = None
      /\ UNCHANGED <<peers, index, row, sel, focus, overlay, store, doing, cleared>> /\ Watch
  BY DEF Submit, Send
<1>2. Selected \in Keys
  BY <1>1, ListedFacts DEF Sound
<1>3. /\ c \in OnePeer
      /\ c.target # None =>
           /\ \/ messages[c.target].home = c.peer
              \/ moved /\ c.kind \in {"edit", "reply"}
           /\ c.kind \in {"edit", "delete"} => messages[c.target].mine
  <2>1. CASE pending = None
    <3>1. c = [kind |-> "send", peer |-> Selected, target |-> None]
      BY <2>1 DEF Command
    <3> HIDE DEF c
    <3> QED
      BY <3>1, <1>2 DEF OnePeer
  <2>2. CASE pending # None
    <3>1. c = [kind |-> pending.kind, peer |-> Selected, target |-> pending.target]
      BY <2>2 DEF Command
    <3>2. /\ pending.kind \in {"reply", "edit"} /\ pending.target \in Nat
          /\ pending.kind = "edit" => messages[pending.target].mine
          /\ ~moved => messages[pending.target].home = Selected
      BY <2>2 DEF Sound, Writing, Pending
    <3> HIDE DEF c
    <3>3. c \in OnePeer /\ c.kind = pending.kind /\ c.peer = Selected /\ c.target = pending.target
      BY <3>1, <3>2, <1>2 DEF OnePeer
    <3> QED
      BY <3>2, <3>3
  <2> QED
    BY <2>1, <2>2
<1> HIDE DEF c
<1> QED
  BY <1>1, <1>3, CommandIsUser DEF Sound, Others

LEMMA SlashIsUser ==
  ASSUME Sound, Slash
  PROVE  UserEffect
<1>1. UNCHANGED <<peers, index, row, sel, focus, pending, overlay, store, doing, cleared>> /\ Watch
  BY DEF Slash, ui
<1>2. Selected \in Keys \cup {None}
  BY ListedFacts DEF Sound
<1>3. PICK kind \in {"commands", "removals"}, c \in OnePeer \cup AnyPeer :
        Spend(kind) /\ Issue(c) /\ c.target = None
  <2>1. ASSUME NEW k \in {"clear", "forget"}, Selected # None
        PROVE  Command(k, Selected, None) \in OnePeer
    BY <2>1, <1>2 DEF Command, OnePeer
  <2>2. Command("wipe", None, None) \in AnyPeer
    BY DEF Command, AnyPeer
  <2>3. ASSUME NEW peer \in {Selected, None} PROVE Command("other", peer, None) \in AnyPeer
    BY <1>2 DEF Command, AnyPeer
  <2>4. \A k, peer : Command(k, peer, None).target = None
    BY DEF Command
  <2> QED
    BY <2>1, <2>2, <2>3, <2>4 DEF Slash, Send
<1> QED
  BY <1>1, <1>3, CommandIsUser DEF Sound, Others

LEMMA UserSteps ==
  ASSUME Sound, UserNext
  PROVE  UserEffect
<1>1. focus \in {"peers", "chat", "input"} /\ overlay \in BOOLEAN
  BY DEF Sound, Others
<1>2. CASE Dismiss \/ Tab \/ Escape \/ ClickInput \/ SubmitNothing
  BY <1>1, <1>2, PlainIsUser DEF Dismiss, Tab, Escape, ClickInput, SubmitNothing
<1>3. CASE SelectPeer
  BY <1>3, TurnIsUser DEF SelectPeer
<1>4. CASE Wheel
  BY <1>4, TurnIsUser DEF Wheel
<1>5. CASE ClickPeer
  <2>1. focus' = "peers" /\ UNCHANGED <<peers, index, pending, overlay>> /\ Free
    BY <1>5 DEF ClickPeer
  <2>2. ASSUME NEW s \in 0..(Len(peers) - 1), Look(s) PROVE UserEffect
    BY <2>1, <2>2, LookIsUser
  <2>3. CASE UNCHANGED <<sel, row>>
    BY <2>1, <2>3, <1>1, PlainIsUser
  <2> QED
    BY <2>2, <2>3, <1>5 DEF ClickPeer
<1>6. CASE MoveCursor
  <2>1. /\ Selected # None /\ row[Selected].log # <<>> /\ focus = "chat"
        /\ UNCHANGED <<peers, index, sel, focus, pending, overlay>> /\ Free
    BY <1>6 DEF MoveCursor
  <2>2. row[Selected].cursor \in Nat
    BY <2>1, ListedFacts DEF Sound, Listed, ListTypes, Row
  <2>3. PICK delta \in {-1, 1} :
          Point(IF row[Selected].cursor + delta < 0 THEN 0 ELSE row[Selected].cursor + delta)
    BY <1>6 DEF MoveCursor
  <2>4. (IF row[Selected].cursor + delta < 0 THEN 0 ELSE row[Selected].cursor + delta) \in Nat
    BY <2>2
  <2> QED
    BY <2>1, <2>3, <2>4, PointIsUser
<1>7. CASE ClickChat
  <2>1. focus' = "chat" /\ UNCHANGED <<peers, index, sel, pending, overlay>> /\ Free
    BY <1>7 DEF ClickChat
  <2>2. ASSUME Selected # None, NEW owner \in DrawnRows, Point(owner) PROVE UserEffect
    <3>1. Len(row[Selected].log) \in Nat /\ LogLimit \in Nat
      BY <2>2, ListedFacts, LimitsAssumption DEF Sound
    <3>2. owner \in Nat
      BY <3>1 DEF DrawnRows
    <3> QED
      BY <2>1, <2>2, <3>2, PointIsUser
  <2>3. CASE UNCHANGED row
    BY <2>1, <2>3, <1>1, PlainIsUser
  <2> QED
    BY <2>2, <2>3, <1>7 DEF ClickChat
<1>8. CASE ShowOverlay
  <2>1. Queue' /\ Issued
    BY <1>8, QueueSame DEF ShowOverlay, Rest, Sound
  <2>2. left' \in Left
    BY <1>8, Spent DEF ShowOverlay, Sound, Others
  <2> QED
    BY <1>8, <2>1, <2>2, SameLists DEF ShowOverlay, Rest, UserEffect, Sound, Others
<1> QED
  BY <1>2, <1>3, <1>4, <1>5, <1>6, <1>7, <1>8, ChatActionIsUser, SubmitIsUser, SlashIsUser DEF UserNext

(***************************************************************************)
(* What the tasks do.                                                      *)
(***************************************************************************)
OthersKeep(t) == \A u \in Tasks \ {t} : doing'[u] = doing[u]

\* The three things a step of a task does to the store and to the tasks.
Reads(t, k) ==
  /\ doing[t] = None \/ (doing[t] \in Removal /\ doing[t].peer = k)
  /\ Only({k}) /\ OthersKeep(t)
  /\ doing'[t] \in LogTask /\ doing'[t].peer = k /\ doing'[t].entries = Current(k)'

Empties(S) ==
  /\ doing["dispatch"] = None
  /\ Only(S) /\ (\A k \in S : stored'[k] = <<>>) /\ OthersKeep("dispatch")
  /\ doing'["dispatch"] \in Removal \cup Wiping /\ S \subseteq cleared'
  /\ \A k \in Keys : About("dispatch", k)' <=> k \in S

StoreEffect ==
  /\ UNCHANGED ui /\ Watch
  /\ Queue' /\ Len(commands') <= Len(commands) /\ left' \in Left
  /\ cleared \subseteq cleared' /\ cleared' \subseteq Keys
  /\ Stored' /\ Grows /\ Doing'
  /\ \/ \E t \in Tasks, k \in Keys : Reads(t, k)
     \/ \E S \in SUBSET Keys : Empties(S)
     \/ Only({}) /\ UNCHANGED doing

LEMMA FoldReads ==
  ASSUME Sound, Stored', Grows, NEW t \in Tasks, NEW k \in Keys, Only({k}), Fold(t, k),
         doing[t] = None \/ (doing[t] \in Removal /\ doing[t].peer = k)
  PROVE  Doing' /\ Reads(t, k)
<1>1. /\ Doing' /\ doing'[t] \in LogTask /\ doing'[t].peer = k /\ doing'[t].entries = Current(k)'
      /\ \A u \in Tasks \ {t} : doing'[u] = doing[u]
  BY FoldDoes DEF Sound
<1> QED
  BY <1>1 DEF Reads, OthersKeep

LEMMA ReceiveStores ==
  ASSUME Sound, NEW k \in Keys, Receive(k)
  PROVE  StoreEffect
<1>1. /\ doing["network"] = None /\ Fold("network", k) /\ Watch
      /\ UNCHANGED <<ui, commands, cleared>>
  BY DEF Receive
<1>2. Stored' /\ Grows /\ Only({k}) /\ left' \in Left
  <2>1. CASE Insert(k, FALSE)
    BY <2>1, InsertStores DEF Sound
  <2>2. CASE /\ \E id \in Range(stored[k]) : ~messages[id].mine /\ Strike(k, id)
             /\ UNCHANGED left
    BY <2>2, StrikeStores DEF Sound, Others
  <2>3. CASE UNCHANGED <<store, left>>
    BY <2>3, SameStores DEF Sound, Others, Only
  <2> QED
    BY <2>1, <2>2, <2>3 DEF Receive
<1>3. "network" \in Tasks
  BY DEF Tasks
<1>4. Doing' /\ Reads("network", k)
  BY <1>1, <1>2, <1>3, FoldReads
<1>5. Queue' /\ Len(commands') <= Len(commands)
  <2>1. Len(commands) \in Nat
    BY DEF Sound, Queue
  <2> QED
    BY <2>1, <1>1, QueueSame DEF Sound
<1> QED
  BY <1>1, <1>2, <1>3, <1>4, <1>5 DEF StoreEffect, Sound, Others

LEMMA RereadStores ==
  ASSUME Sound, Reread
  PROVE  StoreEffect
<1> DEFINE d == doing["dispatch"]
<1>1. /\ d # None /\ d.kind = "clear" /\ Fold("dispatch", d.peer) /\ Watch
      /\ UNCHANGED store /\ UNCHANGED <<ui, commands, cleared, left>>
  BY DEF Reread
<1>2. "dispatch" \in Tasks /\ d \in Task
  BY DEF Tasks, Sound, Doing
<1> HIDE DEF d
<1>3. d \in Removal /\ d.peer \in Keys
  BY <1>1, <1>2, TaskKinds DEF Task
<1>4. Stored' /\ Grows /\ Only({d.peer})
  BY <1>1, SameStores DEF Sound, Only
<1>5. Doing' /\ Reads("dispatch", d.peer)
  BY <1>1, <1>2, <1>3, <1>4, FoldReads DEF d
<1>6. Queue' /\ Len(commands') <= Len(commands)
  <2>1. Len(commands) \in Nat
    BY DEF Sound, Queue
  <2> QED
    BY <2>1, <1>1, QueueSame DEF Sound
<1> QED
  BY <1>1, <1>2, <1>3, <1>4, <1>5, <1>6 DEF StoreEffect, Sound, Others

LEMMA DispatchStores ==
  ASSUME Sound, Dispatch
  PROVE  StoreEffect
<1> DEFINE c == Head(commands)
<1>1. /\ doing["dispatch"] = None /\ commands # <<>> /\ commands' = Tail(commands)
      /\ UNCHANGED ui /\ Watch
  BY DEF Dispatch
<1>2. "dispatch" \in Tasks
  BY DEF Tasks
<1>3. c \in OnePeer \cup AnyPeer /\ Queue' /\ Len(commands') <= Len(commands)
  <2>1. /\ commands \in Seq(OnePeer \cup AnyPeer) /\ Len(commands) \in Nat
        /\ Len(commands) <= MaxQueue /\ MaxQueue \in Nat
    BY LimitsAssumption DEF Sound, Queue
  <2>2. c \in OnePeer \cup AnyPeer /\ commands' \in Seq(OnePeer \cup AnyPeer)
        /\ Len(commands') = Len(commands) - 1
    BY <2>1, <1>1
  <2> QED
    BY <2>1, <2>2 DEF Queue
<1>4. c.kind \notin {"wipe", "other"} => c.peer \in Keys
  BY <1>3 DEF OnePeer, AnyPeer
<1> HIDE DEF c
<1>5. ASSUME c.peer \in Keys, Fold("dispatch", c.peer), UNCHANGED cleared,
             \/ Insert(c.peer, TRUE)
             \/ UNCHANGED <<store, left>>
             \/ Strike(c.peer, c.target) /\ UNCHANGED left
      PROVE  StoreEffect
  <2>1. Stored' /\ Grows /\ Only({c.peer}) /\ left' \in Left
    BY <1>5, InsertStores, StrikeStores, SameStores DEF Sound, Others, Only
  <2>2. Doing' /\ Reads("dispatch", c.peer)
    BY <1>1, <1>2, <1>5, <2>1, FoldReads
  <2> QED
    BY <1>1, <1>2, <1>3, <1>5, <2>1, <2>2 DEF StoreEffect, Sound, Others
<1>6. ASSUME NEW S \in SUBSET Keys, NEW d \in Removal \cup Wiping, Drop(S), UNCHANGED left,
             doing' = [doing EXCEPT !["dispatch"] = d],
             \A k \in Keys : d.peer = k \/ d.kind = "wipe" <=> k \in S
      PROVE  StoreEffect
  <2>1. /\ Stored' /\ Grows /\ Only(S) /\ cleared' \subseteq Keys
        /\ cleared \cup S \subseteq cleared' /\ \A k \in S : stored'[k] = <<>>
    BY <1>6, DropStores DEF Sound
  <2>2. d \in Task \ LogTask
    BY TaskKinds DEF Task
  <2>3. Doing' /\ doing'["dispatch"] = d /\ \A u \in Tasks \ {"dispatch"} : doing'[u] = doing[u]
    BY <1>2, <1>6, <2>1, <2>2, TaskChanges DEF Sound
  <2>4. Empties(S)
    BY <1>1, <1>6, <2>1, <2>3, TaskKinds DEF Empties, OthersKeep, About
  <2> QED
    BY <1>1, <1>3, <1>6, <2>1, <2>3, <2>4 DEF StoreEffect, Sound, Others
<1>7. CASE c.kind \in {"clear", "forget"} /\ UNCHANGED left
           /\ Drop({c.peer}) /\ Removed(c.kind, c.peer)
  <2> DEFINE d == [kind |-> c.kind, peer |-> c.peer]
  <2>1. c.peer \in Keys /\ d \in Removal
    BY <1>4, <1>7 DEF Removal
  <2>2. \A k \in Keys : d.peer = k \/ d.kind = "wipe" <=> k \in {c.peer}
    BY <1>7
  <2>3. doing' = [doing EXCEPT !["dispatch"] = d]
    BY <1>7 DEF Removed
  <2> HIDE DEF d
  <2> QED
    BY <2>1, <2>2, <2>3, <1>6, <1>7
<1>8. CASE c.kind = "wipe" /\ UNCHANGED left /\ Drop(Keys) /\ Removed("wipe", None)
  <2> DEFINE d == [kind |-> "wipe", peer |-> None]
  <2>1. d \in Wiping /\ d.kind = "wipe"
    BY DEF Wiping
  <2>2. doing' = [doing EXCEPT !["dispatch"] = d]
    BY <1>8 DEF Removed
  <2> HIDE DEF d
  <2> QED
    BY <2>1, <2>2, <1>6, <1>8
<1>9. CASE c.kind = "other" /\ UNCHANGED <<store, doing, cleared, left>>
  <2>1. Stored' /\ Grows /\ Only({}) /\ Doing'
    BY <1>9, SameStores, DoingSame DEF Sound
  <2> QED
    BY <1>1, <1>3, <1>9, <2>1 DEF StoreEffect, Sound, Others
<1>10. \/ c.kind \in {"send", "reply"} /\ Insert(c.peer, TRUE)
            /\ Fold("dispatch", c.peer) /\ UNCHANGED cleared
       \/ c.kind \in {"edit", "react"} /\ UNCHANGED <<store, left>>
            /\ Fold("dispatch", c.peer) /\ UNCHANGED cleared
       \/ c.kind = "delete" /\ Strike(c.peer, c.target) /\ UNCHANGED left
            /\ Fold("dispatch", c.peer) /\ UNCHANGED cleared
       \/ c.kind \in {"clear", "forget"} /\ UNCHANGED left
            /\ Drop({c.peer}) /\ Removed(c.kind, c.peer)
       \/ c.kind = "wipe" /\ UNCHANGED left /\ Drop(Keys) /\ Removed("wipe", None)
       \/ c.kind = "other" /\ UNCHANGED <<store, doing, cleared, left>>
  BY DEF Dispatch, c
<1> QED
  BY <1>4, <1>5, <1>7, <1>8, <1>9, <1>10

\* What a conversation shows once the interface has been told.
TellEffect(t) ==
  /\ Listed' /\ Rows' /\ Doing' /\ doing'[t] = None /\ OthersKeep(t) /\ Watch
  /\ UNCHANGED <<store, commands, cleared, left, focus, overlay, pending>>
  /\ Selected = None \/ Selected' = Selected \/ (Moved /\ doing[t] \notin LogTask)
  /\ \A k \in Keys : ~About(t, k) =>
       /\ Shown(k)' = Shown(k) /\ row'[k].unread = row[k].unread
       /\ k \in Range(peers) => k \in Range(peers')
  /\ \A k \in Keys : About(t, k) =>
       /\ Shown(k)' = IF doing[t] \in LogTask THEN doing[t].entries ELSE <<>>
       /\ doing[t] \in LogTask => Marks(k, doing[t].entries) /\ k \in Range(peers')

LEMMA TellTells ==
  ASSUME Sound, NEW t \in Tasks, Tell(t)
  PROVE  TellEffect(t)
<1> DEFINE d == doing[t]
<1>1. /\ d # None /\ d.kind # "clear" /\ doing' = [doing EXCEPT ![t] = None]
      /\ UNCHANGED <<focus, overlay, commands, store, cleared, left>> /\ Watch
  BY DEF Tell
<1>2. /\ Grows /\ messages' = messages
  BY <1>1, SameStores DEF Sound, store
<1>3. Doing' /\ doing'[t] = None /\ OthersKeep(t)
  <2>1. None \in Task \ LogTask
    BY TaskKinds DEF Task
  <2> QED
    BY <1>1, <1>2, <2>1, TaskChanges DEF OthersKeep, Sound
<1>4. d \in LogTask \cup Removal \cup Wiping
  BY <1>1 DEF Sound, Doing, Task
<1>5. CASE d.kind = "log" /\ ApplyLog(d.peer, d.entries)
  <2>1. d \in LogTask /\ d.peer \in Keys /\ d.entries \in Seq(Entry)
    BY <1>4, <1>5, TaskKinds
  <2>2. \A i \in DOMAIN d.entries : In(messages, d.entries[i].id, d.peer)
    BY <2>1 DEF Sound, Doing
  <2>3. \A k \in Keys : About(t, k) <=> k = d.peer
    BY <1>1, <1>5 DEF About
  <2> HIDE DEF d
  <2>4. /\ Listed' /\ (Selected # None => Selected' = Selected)
        /\ row'[d.peer].log = d.entries /\ \A j \in Keys \ {d.peer} : row'[j] = row[j]
        /\ Marks(d.peer, d.entries) /\ Range(peers) \cup {d.peer} \subseteq Range(peers')
    BY <1>5, <2>1, ListedLog DEF Sound
  <2>5. UNCHANGED pending
    BY <1>5 DEF ApplyLog
  <2>7. Rows'
    BY <1>2, <2>1, <2>2, <2>4 DEF Rows, Sound
  <2>8. \A k \in Keys : ~About(t, k) =>
          /\ Shown(k)' = Shown(k) /\ row'[k].unread = row[k].unread
          /\ k \in Range(peers) => k \in Range(peers')
    BY <2>3, <2>4 DEF Shown
  <2>9. \A k \in Keys : About(t, k) =>
          /\ Shown(k)' = IF d \in LogTask THEN d.entries ELSE <<>>
          /\ d \in LogTask => Marks(k, d.entries) /\ k \in Range(peers')
    BY <2>1, <2>3, <2>4 DEF Shown
  <2> QED
    BY <1>1, <1>3, <2>4, <2>5, <2>7, <2>8, <2>9 DEF TellEffect, d
<1>6. CASE d.kind = "forget" /\ ApplyForgotten(d.peer)
  <2>1. d \in Removal /\ d.peer \in Keys /\ d \notin LogTask
    BY <1>4, <1>6, TaskKinds
  <2>2. \A k \in Keys : About(t, k) <=> k = d.peer
    BY <1>1, <1>6 DEF About
  <2> HIDE DEF d
  <2>3. /\ Listed' /\ row'[d.peer].log = <<>> /\ \A j \in Keys \ {d.peer} : row'[j] = row[j]
        /\ Selected' = Selected \/ Moved
        /\ Range(peers) \ {d.peer} \subseteq Range(peers')
    BY <1>6, <2>1, ListedForgotten DEF Sound
  <2>4. UNCHANGED pending
    BY <1>6 DEF ApplyForgotten
  <2>6. Rows'
    BY <1>2, <2>1, <2>3 DEF Rows, Sound
  <2>7. \A k \in Keys : ~About(t, k) =>
          /\ Shown(k)' = Shown(k) /\ row'[k].unread = row[k].unread
          /\ k \in Range(peers) => k \in Range(peers')
    BY <2>2, <2>3 DEF Shown
  <2>8. \A k \in Keys : About(t, k) =>
          /\ Shown(k)' = IF d \in LogTask THEN d.entries ELSE <<>>
          /\ d \in LogTask => Marks(k, d.entries) /\ k \in Range(peers')
    BY <2>1, <2>2, <2>3 DEF Shown
  <2> QED
    BY <1>1, <1>3, <2>1, <2>3, <2>4, <2>6, <2>7, <2>8 DEF TellEffect, d
<1>7. CASE d.kind = "wipe" /\ ApplyWiped
  <2>1. d \notin LogTask /\ \A k \in Keys : About(t, k)
    BY <1>1, <1>7, TaskKinds DEF About
  <2> HIDE DEF d
  <2>2. /\ Listed' /\ \A k \in Keys : Shown(k)' = <<>>
        /\ Selected = None \/ Moved
    BY <1>7, ListedWiped DEF Sound
  <2>3. UNCHANGED pending
    BY <1>7 DEF ApplyWiped
  <2>4. Rows'
    BY <2>2 DEF Rows, Shown
  <2> QED
    BY <1>1, <1>3, <2>1, <2>2, <2>3, <2>4 DEF TellEffect, d
<1> QED
  BY <1>5, <1>6, <1>7 DEF Tell

(***************************************************************************)
(* Sound is inductive.                                                     *)
(***************************************************************************)
LEMMA SoundInit == Init => Sound
<1> SUFFICES ASSUME Init PROVE Sound
  OBVIOUS
<1>1. Listed
  BY ListedInit
<1>2. Stored
  BY DEF Init, Stored
<1>3. Doing
  <2>1. doing = [t \in Tasks |-> None] /\ None \in Task \ LogTask
    BY TaskKinds DEF Init, Task
  <2> QED
    BY <2>1 DEF Doing
<1>4. Rows
  BY DEF Init, Rows, Blank
<1>5. Queue
  BY LimitsAssumption DEF Init, Queue
<1>6. Writing
  BY DEF Init, Writing
<1>7. Others
  BY BudgetsAssumption DEF Init, Others, Left
<1> QED
  BY <1>1, <1>2, <1>3, <1>4, <1>5, <1>6, <1>7 DEF Sound

\* What is pending stays on a message of the selected conversation, as long as
\* nobody moves the selection.
LEMMA WritingStays ==
  ASSUME Sound, Grows, Watch, pending' \in {None, pending} \/ (Begun /\ UNCHANGED messages)
  PROVE  Writing' /\ moved' \in BOOLEAN /\ crossed' \subseteq Keys
<1>1. /\ moved' \in BOOLEAN /\ crossed' \subseteq Keys
      /\ ~moved' /\ pending' # None /\ pending' = pending => ~moved /\ Selected' = Selected
  BY Zenon DEF Watch
<1>2. CASE pending' = None
  BY <1>1, <1>2 DEF Writing
<1>3. CASE pending' # None /\ pending' = pending
  <2>1. /\ pending \in Pending /\ pending.target \in DOMAIN messages
        /\ pending.kind = "edit" => messages[pending.target].mine
        /\ ~moved => messages[pending.target].home = Selected
    BY <1>3 DEF Sound, Writing
  <2>2. pending.target \in DOMAIN messages' /\ messages'[pending.target] = messages[pending.target]
    BY <2>1 DEF Grows
  <2>3. ~moved' => ~moved /\ Selected' = Selected
    BY <1>1, <1>3
  <2> QED
    BY <1>1, <1>3, <2>1, <2>2, <2>3 DEF Writing
<1>4. CASE Begun /\ UNCHANGED messages
  BY <1>1, <1>4 DEF Begun, In, Writing
<1> QED
  BY <1>1, <1>2, <1>3, <1>4

\* Every step of the tasks, one of three kinds.
LEMMA TaskSteps ==
  ASSUME Sound, TaskNext
  PROVE  \/ StoreEffect
         \/ \E t \in Tasks : TellEffect(t)
         \/ \E k \in Keys : Mention(k)
<1>1. left.keys \subseteq Keys
  BY DEF Sound, Others, Left
<1> QED
  BY <1>1, DispatchStores, RereadStores, ReceiveStores, TellTells DEF TaskNext

LEMMA MentionLists ==
  ASSUME Sound, NEW k \in Keys, Mention(k)
  PROVE  /\ Listed' /\ (Selected # None => Selected' = Selected)
         /\ UNCHANGED <<row, pending, focus, overlay, commands, store, doing, cleared, left>> /\ Watch
         /\ Range(peers) \subseteq Range(peers')
<1>1. ApplyMention(k) /\ UNCHANGED <<focus, overlay, commands, store, doing, cleared, left>> /\ Watch
  BY DEF Mention
<1>2. UNCHANGED <<row, pending>>
  BY <1>1 DEF ApplyMention
<1> QED
  BY <1>1, <1>2, ListedMention DEF Sound

LEMMA RowsStay ==
  ASSUME Rows, Grows, \A k \in Keys : row'[k].log = row[k].log
  PROVE  Rows'
BY AtStays DEF Rows

LEMMA SoundNext == Sound /\ [Next]_vars => Sound'
<1> SUFFICES ASSUME Sound, [Next]_vars PROVE Sound'
  OBVIOUS
<1>1. CASE UserNext
  <2>1. UserEffect
    BY <1>1, UserSteps
  <2>2. Stored' /\ Grows
    BY <2>1, SameStores DEF UserEffect, Sound
  <2>3. Doing' /\ Rows'
    BY <2>1, <2>2, DoingSame, RowsStay DEF UserEffect, Sound
  <2>4. Writing' /\ moved' \in BOOLEAN /\ crossed' \subseteq Keys
    BY <2>1, <2>2, WritingStays DEF UserEffect, store
  <2>5. Others'
    BY <2>1, <2>4 DEF UserEffect, Others, Sound
  <2> QED
    BY <2>1, <2>2, <2>3, <2>4, <2>5 DEF UserEffect, Sound
<1>2. CASE StoreEffect
  <2>1. UNCHANGED <<peers, index, row, sel, focus, pending, overlay>> /\ Grows /\ Watch
    BY <1>2 DEF StoreEffect, ui
  <2>2. Listed' /\ Rows'
    BY <2>1, ListedSame, RowsStay DEF Sound
  <2>3. Writing' /\ moved' \in BOOLEAN /\ crossed' \subseteq Keys
    BY <2>1, WritingStays
  <2>4. Others'
    BY <1>2, <2>1, <2>3 DEF StoreEffect, Others, Sound
  <2> QED
    BY <1>2, <2>2, <2>3, <2>4 DEF StoreEffect, Sound
<1>3. ASSUME NEW t \in Tasks, TellEffect(t) PROVE Sound'
  <2>1. Stored' /\ Grows
    BY <1>3, SameStores DEF TellEffect, Sound
  <2>2. Queue'
    BY <1>3, QueueSame DEF TellEffect, Sound
  <2>3. Writing' /\ moved' \in BOOLEAN /\ crossed' \subseteq Keys
    BY <1>3, <2>1, WritingStays DEF TellEffect
  <2>4. Others'
    BY <1>3, <2>3 DEF TellEffect, Others, Sound
  <2> QED
    BY <1>3, <2>1, <2>2, <2>3, <2>4 DEF TellEffect, Sound
<1>4. ASSUME NEW k \in Keys, Mention(k) PROVE Sound'
  <2>1. /\ Listed' /\ Watch
        /\ UNCHANGED <<row, pending, focus, overlay, commands, store, doing, cleared, left>>
    BY <1>4, MentionLists
  <2>2. Stored' /\ Grows
    BY <2>1, SameStores DEF Sound
  <2>3. Doing' /\ Rows' /\ Queue'
    BY <2>1, <2>2, DoingSame, RowsStay, QueueSame DEF Sound
  <2>4. Writing' /\ moved' \in BOOLEAN /\ crossed' \subseteq Keys
    BY <2>1, <2>2, WritingStays
  <2>5. Others'
    BY <2>1, <2>4 DEF Others, Sound
  <2> QED
    BY <2>1, <2>2, <2>3, <2>4, <2>5 DEF Sound
<1>5. CASE UNCHANGED vars
  <2>1. /\ UNCHANGED <<peers, index, row, sel, focus, pending, overlay>>
        /\ UNCHANGED store /\ UNCHANGED <<messages, commands, doing, cleared, crossed, moved, left>>
    BY <1>5 DEF vars, ui, store, history
  <2>2. Stored' /\ Grows
    BY <2>1, SameStores DEF Sound
  <2>3. Listed' /\ Doing' /\ Rows' /\ Queue'
    BY <2>1, <2>2, ListedSame, DoingSame, RowsStay, QueueSame DEF Sound
  <2>4. Selected' = Selected
    BY <2>1 DEF Selected
  <2>5. Writing' /\ Others'
    BY <2>1, <2>4 DEF Sound, Writing, Others
  <2> QED
    BY <2>2, <2>3, <2>5 DEF Sound
<1> QED
  BY <1>1, <1>2, <1>3, <1>4, <1>5, TaskSteps DEF Next

(***************************************************************************)
(* The screen and the store: a task about a conversation carries what the  *)
(* store holds of it, as long as no two tasks are about it.                *)
(***************************************************************************)
Settled(k) ==
  /\ \A t \in Tasks : About(t, k) =>
       IF doing[t] \in LogTask THEN doing[t].entries = Current(k) ELSE stored[k] = <<>>
  /\ ~Busy(k) => Shown(k) = Current(k)

Told == \A k \in Keys : k \notin crossed => Settled(k) /\ ~Contended(k)

LEMMA EmptyShows ==
  ASSUME Stored
  PROVE  \A k \in Keys : stored[k] = <<>> => Current(k) = <<>>
BY HistoryEntries DEF Stored, Current

LEMMA ToldInit == Init => Told
<1> SUFFICES ASSUME Init, NEW k \in Keys PROVE Settled(k) /\ ~Contended(k)
  BY DEF Told
<1>1. Current(k) = <<>>
  BY SoundInit, EmptyShows DEF Sound, Init
<1>2. \A t \in Tasks : ~About(t, k)
  BY DEF Init, About
<1>3. Shown(k) = <<>>
  BY DEF Init, Shown, Blank
<1> QED
  BY <1>1, <1>2, <1>3 DEF Settled, Busy, Contended, Tasks

\* It is enough to look at conversations nobody has crossed.
LEMMA ToldStep ==
  ASSUME Told, Watch, \A k \in Keys : k \notin crossed /\ ~Contended(k)' => Settled(k)'
  PROVE  Told'
<1> SUFFICES ASSUME NEW k \in Keys, k \notin crossed' PROVE Settled(k)' /\ ~Contended(k)'
  BY DEF Told
<1>1. /\ ~Contended(k)'
      /\ k \notin crossed \/ (~Busy(k)' /\ Shown(k)' = Current(k)')
  BY DEF Watch
<1>2. CASE k \notin crossed
  BY <1>1, <1>2
<1>3. CASE ~Busy(k)' /\ Shown(k)' = Current(k)'
  BY <1>3, <1>1 DEF Settled, Busy
<1> QED
  BY <1>1, <1>2, <1>3

\* A fold of a conversation no step touched is what it was.
LEMMA CurrentStays ==
  ASSUME Stored, NEW S, Only(S)
  PROVE  \A k \in Keys \ S : stored'[k] = stored[k] /\ Current(k)' = Current(k)
<1> SUFFICES ASSUME NEW k \in Keys \ S
             PROVE  stored'[k] = stored[k] /\ Current(k)' = Current(k)
  OBVIOUS
<1>1. stored'[k] = stored[k] /\ \A i \in DOMAIN stored[k] : (stored[k][i] \in deleted) = (stored[k][i] \in deleted')
  BY DEF Only
<1>2. History(stored, deleted, k) = History(stored', deleted', k)
  BY <1>1, HistoryOwn
<1> QED
  BY <1>1, <1>2 DEF Current

LEMMA AboutStays ==
  ASSUME NEW t, doing'[t] = doing[t]
  PROVE  \A k \in Keys : About(t, k)' <=> About(t, k)
BY DEF About

\* A step that leaves a conversation, its tasks and its log alone.
LEMMA SettledStays ==
  ASSUME NEW k \in Keys, Settled(k),
         stored'[k] = stored[k], Current(k)' = Current(k), Shown(k)' = Shown(k),
         \A t \in Tasks : (About(t, k)' <=> About(t, k)) /\ (About(t, k) => doing'[t] = doing[t])
  PROVE  Settled(k)'
BY DEF Settled, Busy

LEMMA ToldReads ==
  ASSUME Sound, Told, UNCHANGED ui, Watch, NEW t \in Tasks, NEW k \in Keys, Reads(t, k)
  PROVE  Told'
<1>1. \A j \in Keys : Shown(j)' = Shown(j)
  BY DEF ui, Shown
<1>2. \A j \in Keys \ {k} : stored'[j] = stored[j] /\ Current(j)' = Current(j)
  BY CurrentStays DEF Reads, Sound
<1>3. \A u \in Tasks \ {t} : doing'[u] = doing[u]
  BY DEF Reads, OthersKeep
<1>4. /\ doing'[t] \in LogTask /\ doing'[t].peer = k /\ doing'[t].entries = Current(k)'
      /\ doing'[t] # None /\ doing'[t].kind = "log"
  BY TaskKinds DEF Reads
<1>5. \A j \in Keys : About(t, j)' <=> j = k
  BY <1>4 DEF About
<1>6. \A j \in Keys \ {k} : ~About(t, j)
  BY TaskKinds DEF Reads, About
<1>7. ASSUME NEW j \in Keys, j \notin crossed, ~Contended(j)' PROVE Settled(j)'
  <2>1. CASE j # k
    <3>1. Settled(j)
      BY <1>7 DEF Told
    <3>2. \A u \in Tasks : (About(u, j)' <=> About(u, j)) /\ (About(u, j) => doing'[u] = doing[u])
      BY <2>1, <1>3, <1>5, <1>6, AboutStays
    <3> QED
      BY <3>1, <3>2, <2>1, <1>1, <1>2, SettledStays
  <2>2. CASE j = k
    <3>1. \A u \in Tasks \ {t} : ~About(u, k)'
      BY <1>5, <1>7, <2>2 DEF Contended, Tasks
    <3>2. About(t, k)'
      BY <1>5
    <3> QED
      BY <3>1, <3>2, <1>4, <2>2 DEF Settled, Busy
  <2> QED
    BY <2>1, <2>2
<1> QED
  BY <1>7, ToldStep

LEMMA ToldEmpties ==
  ASSUME Sound, Told, UNCHANGED ui, Watch, NEW S \in SUBSET Keys, Empties(S)
  PROVE  Told'
<1>1. \A j \in Keys : Shown(j)' = Shown(j)
  BY DEF ui, Shown
<1>2. \A j \in Keys \ S : stored'[j] = stored[j] /\ Current(j)' = Current(j)
  BY CurrentStays DEF Empties, Sound
<1>3. doing'["network"] = doing["network"] /\ "network" \in Tasks
  BY DEF Empties, OthersKeep, Tasks
<1>4. /\ doing["dispatch"] = None
      /\ doing'["dispatch"] \in Removal \cup Wiping
      /\ \A k \in Keys : About("dispatch", k)' <=> k \in S
      /\ \A k \in S : stored'[k] = <<>>
  BY DEF Empties
<1>5. doing'["dispatch"] \notin LogTask
  BY <1>4, TaskKinds
<1>6. ASSUME NEW j \in Keys, j \notin crossed, ~Contended(j)' PROVE Settled(j)'
  <2>1. Settled(j)
    BY <1>6 DEF Told
  <2>2. CASE j \notin S
    <3>1. \A u \in Tasks : (About(u, j)' <=> About(u, j)) /\ (About(u, j) => doing'[u] = doing[u])
      BY <2>2, <1>3, <1>4, AboutStays DEF Tasks, About
    <3> QED
      BY <3>1, <2>1, <2>2, <1>1, <1>2, SettledStays
  <2>3. CASE j \in S
    <3>1. About("dispatch", j)' /\ ~About("network", j)'
      BY <2>3, <1>4, <1>6 DEF Contended, Tasks
    <3>2. stored'[j] = <<>>
      BY <2>3, <1>4
    <3> QED
      BY <3>1, <3>2, <1>5 DEF Settled, Busy, Tasks
  <2> QED
    BY <2>2, <2>3
<1> QED
  BY <1>6, ToldStep

LEMMA ToldTells ==
  ASSUME Sound, Told, NEW t \in Tasks, TellEffect(t)
  PROVE  Told'
<1>1. /\ doing'[t] = None /\ (\A u \in Tasks \ {t} : doing'[u] = doing[u]) /\ Watch
      /\ stored' = stored /\ deleted' = deleted
  BY DEF TellEffect, OthersKeep, store
<1>2. \A j \in Keys : Current(j)' = Current(j)
  BY <1>1 DEF Current
<1>3. \A j \in Keys : ~About(t, j)'
  BY <1>1 DEF About
<1>4. ASSUME NEW j \in Keys, j \notin crossed, ~Contended(j)' PROVE Settled(j)'
  <2>1. Settled(j) /\ ~Contended(j)
    BY <1>4 DEF Told
  <2>2. CASE ~About(t, j)
    <3>1. \A u \in Tasks : (About(u, j)' <=> About(u, j)) /\ (About(u, j) => doing'[u] = doing[u])
      BY <2>2, <1>1, <1>3, AboutStays
    <3>2. Shown(j)' = Shown(j)
      BY <2>2 DEF TellEffect
    <3> QED
      BY <3>1, <3>2, <2>1, <1>1, <1>2, SettledStays
  <2>3. CASE About(t, j)
    <3>1. \A u \in Tasks \ {t} : ~About(u, j)
      BY <2>1, <2>3 DEF Contended, Tasks
    <3>2. \A u \in Tasks : ~About(u, j)'
      BY <3>1, <1>1, <1>3, AboutStays
    <3>3. Shown(j)' = IF doing[t] \in LogTask THEN doing[t].entries ELSE <<>>
      BY <2>3 DEF TellEffect
    <3>4. Shown(j)' = Current(j)
      BY <2>1, <2>3, <3>3, EmptyShows DEF Settled, Sound
    <3> QED
      BY <3>2, <3>4, <1>2 DEF Settled, Busy
  <2> QED
    BY <2>2, <2>3
<1> QED
  BY <1>1, <1>4, ToldStep

\* A step that touches neither the store nor the tasks nor any log.
LEMMA ToldQuiet ==
  ASSUME Sound, Told, Watch, UNCHANGED <<store, doing>>, \A k \in Keys : row'[k].log = row[k].log
  PROVE  Told'
<1>1. /\ stored' = stored /\ deleted' = deleted /\ doing' = doing
      /\ \A k \in Keys : Shown(k)' = Shown(k) /\ Current(k)' = Current(k)
  BY DEF store, Shown, Current
<1>2. ASSUME NEW k \in Keys, k \notin crossed, ~Contended(k)' PROVE Settled(k)'
  <2>1. Settled(k)
    BY <1>2 DEF Told
  <2>2. \A t \in Tasks : About(t, k)' <=> About(t, k)
    BY <1>1, AboutStays
  <2> QED
    BY <2>1, <2>2, <1>1, SettledStays
<1> QED
  BY <1>2, ToldStep

LEMMA ToldNext == Sound /\ Told /\ [Next]_vars => Told'
<1> SUFFICES ASSUME Sound, Told, [Next]_vars PROVE Told'
  OBVIOUS
<1>1. CASE UserNext
  BY <1>1, UserSteps, ToldQuiet DEF UserEffect
<1>2. CASE StoreEffect
  <2>1. UNCHANGED ui /\ Watch
    BY <1>2 DEF StoreEffect
  <2>2. CASE Only({}) /\ UNCHANGED doing
    <3>1. \A k \in Keys : stored'[k] = stored[k] /\ Current(k)' = Current(k) /\ Shown(k)' = Shown(k)
      BY <2>1, <2>2, CurrentStays DEF Sound, ui, Shown
    <3>2. ASSUME NEW k \in Keys, k \notin crossed PROVE Settled(k)'
      <4>1. Settled(k) /\ \A t \in Tasks : About(t, k)' <=> About(t, k)
        BY <2>2, <3>2, AboutStays DEF Told
      <4> QED
        BY <4>1, <3>1, <2>2, SettledStays
    <3> QED
      BY <3>2, <2>1, ToldStep
  <2> QED
    BY <1>2, <2>1, <2>2, ToldReads, ToldEmpties DEF StoreEffect
<1>3. ASSUME NEW k \in Keys, Mention(k) PROVE Told'
  BY <1>3, MentionLists, ToldQuiet
<1>4. CASE UNCHANGED vars
  <2>1. UNCHANGED <<row, stored, deleted, doing, crossed>>
    BY <1>4 DEF vars, ui, store, history
  <2> QED
    BY <2>1 DEF Told, Settled, Busy, Contended, About, Shown, Current
<1> QED
  BY <1>1, <1>2, <1>3, <1>4, TaskSteps, ToldTells DEF Next

(***************************************************************************)
(* The marks.  A fold of a conversation that fits in one repeats nothing   *)
(* and lacks only messages that came after all of its own; of two such     *)
(* folds the shorter is part of the longer.                                *)
(***************************************************************************)
NoTwice(log) == \A i, j \in DOMAIN log : log[i].id = log[j].id => i = j

CutOf(list, log) ==
  /\ NoTwice(log) /\ Ids(log) \subseteq Range(list)
  /\ \A a \in Ids(log), b \in Range(list) : b < a => b \in Ids(log)

Cut(k, log) == CutOf(stored[k], log)

LEMMA IdsOf ==
  ASSUME NEW log \in Seq(Entry)
  PROVE  /\ \A a : a \in Ids(log) <=> \E i \in 1..Len(log) : log[i].id = a
         /\ Ids(log) \subseteq Nat
<1>1. DOMAIN log = 1..Len(log) /\ \A i \in 1..Len(log) : log[i] \in Entry
  OBVIOUS
<1> QED
  BY <1>1 DEF Ids, Entry

LEMMA IdsCount ==
  ASSUME NEW log \in Seq(Entry), NoTwice(log)
  PROVE  IsFiniteSet(Ids(log)) /\ Cardinality(Ids(log)) = Len(log)
<1> DEFINE f == [i \in 1..Len(log) |-> log[i].id]
<1>1. Len(log) \in Nat /\ DOMAIN log = 1..Len(log)
  OBVIOUS
<1>2. f \in [1..Len(log) -> Ids(log)] /\ \A a \in Ids(log) : \E i \in 1..Len(log) : f[i] = a
  BY IdsOf
<1>3. \A i, j \in 1..Len(log) : f[i] = f[j] => i = j
  BY <1>1 DEF NoTwice
<1> HIDE DEF f
<1>4. f \in Bijection(1..Len(log), Ids(log))
  BY <1>2, <1>3 DEF Bijection, Injection, Surjection, IsInjective
<1>5. ExistsBijection(1..Len(log), Ids(log))
  BY <1>4 DEF ExistsBijection
<1>6. IsFiniteSet(1..Len(log)) /\ Cardinality(1..Len(log)) = Len(log)
  <2>1. 1 \in Int /\ Len(log) \in Int
    BY <1>1
  <2>2. /\ IsFiniteSet(1..Len(log))
        /\ Cardinality(1..Len(log)) = IF 1 > Len(log) THEN 0 ELSE Len(log) - 1 + 1
    BY ONLY <2>1, FS_Interval
  <2> QED
    BY <2>2, <1>1
<1> QED
  BY <1>5, <1>6, FS_Bijection

LEMMA ShorterIsPart ==
  ASSUME Stored, NEW k \in Keys, NEW l \in Seq(Entry), NEW m \in Seq(Entry),
         Cut(k, l), Cut(k, m), Len(l) <= Len(m)
  PROVE  Ids(l) \subseteq Ids(m)
<1> SUFFICES ASSUME NEW a \in Ids(l), a \notin Ids(m) PROVE FALSE
  OBVIOUS
<1>1. /\ Ids(l) \subseteq Range(stored[k]) /\ Ids(m) \subseteq Range(stored[k])
      /\ \A x \in Ids(l), b \in Range(stored[k]) : b < x => b \in Ids(l)
      /\ \A x \in Ids(m), b \in Range(stored[k]) : b < x => b \in Ids(m)
  BY DEF Cut, CutOf
<1>2. Ids(l) \subseteq Nat /\ Ids(m) \subseteq Nat
  BY IdsOf
<1>3. ASSUME NEW b \in Ids(m) PROVE b \in Ids(l)
  <2>1. ~(a < b) /\ a # b
    BY <1>1
  <2>2. b < a
    BY <2>1, <1>2
  <2> QED
    BY <2>2, <1>1
<1>4. Ids(m) \in SUBSET Ids(l) /\ Ids(m) # Ids(l)
  BY <1>3
<1>5. /\ IsFiniteSet(Ids(l)) /\ Cardinality(Ids(l)) = Len(l)
      /\ IsFiniteSet(Ids(m)) /\ Cardinality(Ids(m)) = Len(m)
  BY IdsCount DEF Cut, CutOf
<1>6. Cardinality(Ids(m)) <= Cardinality(Ids(l)) /\ Cardinality(Ids(m)) # Cardinality(Ids(l))
  BY <1>4, <1>5, FS_Subset
<1>7. Len(l) \in Nat /\ Len(m) \in Nat
  OBVIOUS
<1> QED
  BY <1>5, <1>6, <1>7

\* The fold of a conversation that fits in one, and of one that does not.
LEMMA WholeFold ==
  ASSUME NEW s \in [Keys -> Seq(Nat)], NEW d, NEW k \in Keys,
         Distinct(s[k]), Len(s[k]) <= LogLimit
  PROVE  CutOf(s[k], History(s, d, k))
<1> DEFINE l == History(s, d, k)
<1>1. /\ s[k] \in Seq(Nat) /\ Len(s[k]) \in Nat /\ DOMAIN s[k] = 1..Len(s[k])
      /\ LogLimit \in Nat
  <2>1. s[k] \in Seq(Nat)
    OBVIOUS
  <2> QED
    BY <2>1, LimitsAssumption
<1>2. Skipped(s, k) = 0
  <2>1. ~(Len(s[k]) > LogLimit)
    BY <1>1
  <2> QED
    BY <2>1 DEF Skipped
<1>3. /\ l \in Seq(Entry) /\ Len(l) = Len(s[k]) - Skipped(s, k)
      /\ \A i \in DOMAIN l : l[i].id = s[k][Skipped(s, k) + i]
  BY HistoryEntries
<1> HIDE DEF l
<1>4. DOMAIN l = 1..Len(s[k]) /\ \A i \in 1..Len(s[k]) : l[i].id = s[k][i]
  BY <1>1, <1>2, <1>3, SMTT(30)
<1>5. Ids(l) = Range(s[k])
  BY <1>1, <1>4 DEF Ids, Range
<1>6. NoTwice(l)
  BY <1>1, <1>4 DEF NoTwice, Distinct
<1> QED
  BY <1>5, <1>6 DEF CutOf, l

LEMMA FullFold ==
  ASSUME NEW s \in [Keys -> Seq(Nat)], NEW d, NEW k \in Keys, Len(s[k]) > LogLimit
  PROVE  Len(History(s, d, k)) = LogLimit
<1>1. Len(s[k]) \in Nat /\ LogLimit \in Nat
  <2>1. s[k] \in Seq(Nat)
    OBVIOUS
  <2> QED
    BY <2>1, LimitsAssumption
<1>2. Len(History(s, d, k)) = Len(s[k]) - Skipped(s, k)
  BY HistoryEntries
<1>3. Skipped(s, k) = Len(s[k]) - LogLimit
  BY DEF Skipped
<1> QED
  BY <1>1, <1>2, <1>3

\* All a step does to the messages of a conversation that is not emptied.
Keeps(k) ==
  \/ stored'[k] = stored[k]
  \/ \E i \in 1..(Len(stored[k]) + 1) : stored'[k] = InsertAt(stored[k], i, Len(messages) + 1)

LEMMA InsertKeeps ==
  ASSUME Stored, NEW k \in Keys, NEW j \in Keys, NEW mine, Insert(j, mine)
  PROVE  Keeps(k)
<1>1. PICK i \in 1..(Len(stored[j]) + 1) :
        stored' = [stored EXCEPT ![j] = InsertAt(@, i, Len(messages) + 1)]
  BY DEF Insert
<1>2. stored'[k] = IF k = j THEN InsertAt(stored[j], i, Len(messages) + 1) ELSE stored[k]
  BY <1>1 DEF Stored
<1> QED
  BY <1>2 DEF Keeps

LEMMA NextKeeps ==
  ASSUME Sound, [Next]_vars, NEW k \in Keys \ cleared'
  PROVE  k \notin cleared /\ Keeps(k)
<1>0. Stored /\ left.keys \subseteq Keys
  BY DEF Sound, Others, Left
<1>1. CASE UserNext
  BY <1>1, UserSteps DEF UserEffect, Keeps, store
<1>2. ASSUME NEW j \in Keys, Receive(j) PROVE k \notin cleared /\ Keeps(k)
  BY <1>0, <1>2, InsertKeeps DEF Receive, Strike, store, Keeps
<1>3. CASE Dispatch
  <2> DEFINE c == Head(commands)
  <2>1. \/ c.kind \in {"send", "reply"} /\ Insert(c.peer, TRUE)
             /\ Fold("dispatch", c.peer) /\ UNCHANGED cleared
        \/ c.kind \in {"edit", "react"} /\ UNCHANGED <<store, left>>
             /\ Fold("dispatch", c.peer) /\ UNCHANGED cleared
        \/ c.kind = "delete" /\ Strike(c.peer, c.target) /\ UNCHANGED left
             /\ Fold("dispatch", c.peer) /\ UNCHANGED cleared
        \/ c.kind \in {"clear", "forget"} /\ UNCHANGED left
             /\ Drop({c.peer}) /\ Removed(c.kind, c.peer)
        \/ c.kind = "wipe" /\ UNCHANGED left /\ Drop(Keys) /\ Removed("wipe", None)
        \/ c.kind = "other" /\ UNCHANGED <<store, doing, cleared, left>>
    BY <1>3 DEF Dispatch
  <2>2. c.kind \in {"send", "reply"} => c.peer \in Keys
    <3>1. c \in OnePeer \cup AnyPeer
      <4>1. commands \in Seq(OnePeer \cup AnyPeer) /\ commands # <<>>
        BY <1>3 DEF Dispatch, Sound, Queue
      <4> QED
        BY <4>1
    <3> HIDE DEF c
    <3> QED
      BY <3>1 DEF OnePeer, AnyPeer
  <2> HIDE DEF c
  <2>3. CASE c.kind \in {"send", "reply"} /\ Insert(c.peer, TRUE) /\ UNCHANGED cleared
    BY <2>2, <2>3, <1>0, InsertKeeps
  <2>4. CASE (Strike(c.peer, c.target) \/ UNCHANGED store) /\ UNCHANGED cleared
    BY <2>4 DEF Strike, store, Keeps
  <2>5. ASSUME NEW S, Drop(S) PROVE k \notin cleared /\ Keeps(k)
    BY <2>5 DEF Drop, Keeps
  <2> QED
    BY <2>1, <2>3, <2>4, <2>5
<1>4. CASE Reread
  BY <1>4 DEF Reread, store, Keeps
<1>5. ASSUME NEW t \in Tasks, Tell(t) PROVE k \notin cleared /\ Keeps(k)
  BY <1>5 DEF Tell, store, Keeps
<1>6. ASSUME NEW j, Mention(j) PROVE k \notin cleared /\ Keeps(k)
  BY <1>6 DEF Mention, store, Keeps
<1>7. CASE UNCHANGED vars
  BY <1>7 DEF vars, store, history, Keeps
<1> QED
  BY <1>0, <1>1, <1>2, <1>3, <1>4, <1>5, <1>6, <1>7 DEF Next, TaskNext

\* What holds of every conversation that was never emptied: only folds are
\* about it, the folds are cuts while it fits in one, a message on the screen
\* that was never seen is marked, or the fold is full, and an unlisted
\* conversation shows nothing.
Folded(k) == \A t \in Tasks : About(t, k) => doing[t] \in LogTask /\ doing[t].peer = k

Whole(k) ==
  /\ Distinct(stored[k])
  /\ Len(stored[k]) <= LogLimit =>
       /\ Cut(k, Shown(k))
       /\ \A t \in Tasks : About(t, k) => Cut(k, doing[t].entries)

Known(k) == row[k].unread # None \/ Ids(Shown(k)) \subseteq seen[k]

Marked(k) ==
  /\ Len(stored[k]) <= LogLimit => Known(k)
  /\ Len(stored[k]) > LogLimit /\ k \notin crossed => Known(k) \/ Len(Shown(k)) = LogLimit

InSight(k) ==
  /\ k \notin Range(peers) => Shown(k) = <<>>
  /\ k = Selected => Ids(Shown(k)) \subseteq seen[k]

Noticed == \A k \in Keys \ cleared : Folded(k) /\ Whole(k) /\ Marked(k) /\ InSight(k)

LEMMA NoIds == Ids(<<>>) = {}
BY DEF Ids

LEMMA NoticedInit == Init => Noticed
<1> SUFFICES ASSUME Init, NEW k \in Keys PROVE Folded(k) /\ Whole(k) /\ Marked(k) /\ InSight(k)
  BY DEF Noticed
<1>1. stored[k] = <<>> /\ Shown(k) = <<>> /\ \A t \in Tasks : ~About(t, k)
  BY DEF Init, Shown, Blank, About
<1>2. Cut(k, <<>>) /\ Distinct(<<>>)
  BY NoIds DEF Cut, CutOf, NoTwice, Distinct
<1>3. Ids(Shown(k)) \subseteq seen[k]
  BY <1>1, NoIds
<1> QED
  BY <1>1, <1>2, <1>3 DEF Folded, Whole, Marked, Known, InSight

\* A message that comes in is newer than all there were: what was a cut stays
\* one.
LEMMA CutStays ==
  ASSUME Stored, NEW k \in Keys, Distinct(stored[k]), Keeps(k)
  PROVE  /\ Distinct(stored'[k]) /\ Len(stored[k]) <= Len(stored'[k])
         /\ \A log : Cut(k, log) => Cut(k, log)'
<1> DEFINE x == Len(messages) + 1
<1>1. /\ stored[k] \in Seq(Nat) /\ x \in Nat /\ Len(stored[k]) \in Nat
      /\ \A i \in DOMAIN stored[k] : stored[k][i] \in 1..Len(messages)
  BY DEF Stored, In
<1>2. \A a \in Range(stored[k]) : a \in Nat /\ a < x
  BY <1>1 DEF Range
<1>3. CASE stored'[k] = stored[k]
  <2>1. \A log : Cut(k, log) => Cut(k, log)'
    BY <1>3 DEF Cut, CutOf, NoTwice, Ids
  <2> QED
    BY <1>1, <1>3, <2>1
<1>4. ASSUME NEW i \in 1..(Len(stored[k]) + 1), stored'[k] = InsertAt(stored[k], i, x)
      PROVE  /\ Distinct(stored'[k]) /\ Len(stored[k]) <= Len(stored'[k])
             /\ Range(stored'[k]) = Range(stored[k]) \cup {x}
  <2>1. x \notin Range(stored[k])
    BY <1>2
  <2> HIDE DEF x
  <2>2. Distinct(stored'[k]) /\ Range(stored'[k]) = Range(stored[k]) \cup {x}
    <3>1. stored[k] \in Seq(Nat) /\ x \in Nat /\ Distinct(stored[k])
      BY <1>1
    <3>2. /\ Distinct(InsertAt(stored[k], i, x))
          /\ Range(InsertAt(stored[k], i, x)) = Range(stored[k]) \cup {x}
      BY <3>1, <2>1, InsertAtNew
    <3> QED
      BY <3>2, <1>4
  <2>3. Put(stored[k], i, x, stored'[k])
    BY <1>1, <1>4, InsertAtPlaces
  <2>4. Len(stored'[k]) = Len(stored[k]) + 1
    BY <2>3 DEF Put
  <2> QED
    BY <2>2, <2>4, <1>1
<1>5. ASSUME Range(stored'[k]) = Range(stored[k]) \cup {x}, NEW log, Cut(k, log) PROVE Cut(k, log)'
  <2>1. NoTwice(log) /\ Ids(log) \subseteq Range(stored[k])
    BY <1>5 DEF Cut, CutOf
  <2>2. ASSUME NEW a \in Ids(log), NEW b \in Range(stored[k]) \cup {x}, b < a PROVE b \in Ids(log)
    <3>1. a \in Nat /\ a < x
      BY <2>1, <1>2
    <3>2. b # x
      BY <3>1, <2>2, <1>1
    <3> QED
      BY <3>2, <2>2, <1>5 DEF Cut, CutOf
  <2> HIDE DEF x
  <2>3. \A a \in Ids(log), b \in Range(stored'[k]) : b < a => b \in Ids(log)
    BY <2>2, <1>5
  <2> QED
    BY <2>1, <2>3, <1>5 DEF Cut, CutOf, NoTwice, Ids
<1> QED
  BY <1>3, <1>4, <1>5 DEF Keeps

\* What was seen stays seen while the conversation is listed, and what the
\* selected one shows is seen.
LEMMA AtIsListed ==
  ASSUME NEW list \in Seq(Keys), NEW at \in Nat, at < Len(list)
  PROVE  list[at + 1] \in Range(list)
<1>1. at + 1 \in 1..Len(list)
  OBVIOUS
<1> QED
  BY <1>1, InRange

LEMMA SeenStays ==
  ASSUME Listed', Watch, NEW k \in Keys
  PROVE  /\ k \in Range(peers') => seen[k] \subseteq seen'[k]
         /\ k = Selected' => Ids(Shown(k)') \subseteq seen'[k]
<1>1. seen'[k] = CASE k = Selected' -> seen[k] \cup Ids(row'[k].log)
                   [] k \notin Range(peers') -> {}
                   [] OTHER -> seen[k]
  BY Zenon DEF Watch
<1>2. Shown(k)' = row'[k].log
  BY DEF Shown
<1>3. k = Selected' => k \in Range(peers')
  <2> SUFFICES ASSUME k = Selected' PROVE k \in Range(peers')
    OBVIOUS
  <2>1. peers' \in Seq(Keys) /\ sel' \in Nat /\ sel' < Len(peers') /\ k = peers'[sel' + 1]
    BY KeysAssumption DEF Listed, ListTypes, Selected
  <2> QED
    BY <2>1, AtIsListed
<1>4. CASE k = Selected'
  <2>1. seen'[k] = seen[k] \cup Ids(row'[k].log)
    BY <1>1, <1>3, <1>4, Zenon
  <2>2. Ids(Shown(k)') = Ids(row'[k].log)
    BY <1>2
  <2> QED
    BY <2>1, <2>2
<1>5. CASE k # Selected' /\ k \in Range(peers')
  <2>1. seen'[k] = seen[k]
    BY <1>1, <1>5, Zenon
  <2> QED
    BY <2>1, <1>5
<1> QED
  BY <1>4, <1>5

\* A conversation leaves `crossed' showing what is stored.
LEMMA CrossedLeaves ==
  ASSUME Watch, NEW k \in Keys, k \in crossed, k \notin crossed'
  PROVE  Shown(k)' = Current(k)'
BY DEF Watch

\* A step that leaves what is shown of a conversation alone.
LEMMA MarkedStays ==
  ASSUME Sound, Sound', Watch, NEW k \in Keys, Marked(k), InSight(k)',
         Len(stored[k]) <= Len(stored'[k]), Shown(k)' = Shown(k),
         k # Selected' => row'[k].unread = row[k].unread
  PROVE  Marked(k)'
<1>1. Len(stored[k]) \in Nat /\ Len(stored'[k]) \in Nat /\ LogLimit \in Nat
  BY LimitsAssumption DEF Sound, Stored
<1>2. Known(k) => Known(k)'
  <2>1. CASE k = Selected'
    BY <2>1, SeenStays DEF Known, Sound
  <2>2. CASE k \notin Range(peers')
    <3>1. Shown(k)' = <<>>
      BY <2>2 DEF InSight
    <3>2. Ids(Shown(k)') \subseteq seen'[k]
      BY <3>1, NoIds
    <3> QED
      BY <3>2 DEF Known, Ids
  <2>3. CASE k # Selected' /\ k \in Range(peers')
    <3>1. seen[k] \subseteq seen'[k]
      BY <2>3, SeenStays DEF Sound
    <3> QED
      BY <2>3, <3>1 DEF Known, Ids
  <2> QED
    BY <2>1, <2>2, <2>3
<1>3. k \in crossed /\ k \notin crossed' /\ Len(stored'[k]) > LogLimit => Len(Shown(k)') = LogLimit
  <2> SUFFICES ASSUME k \in crossed, k \notin crossed', Len(stored'[k]) > LogLimit
               PROVE  Len(Shown(k)') = LogLimit
    OBVIOUS
  <2>1. Shown(k)' = Current(k)'
    BY CrossedLeaves
  <2>2. Len(Current(k)') = LogLimit
    <3>1. stored' \in [Keys -> Seq(Nat)]
      BY DEF Sound, Stored
    <3> QED
      BY <3>1, FullFold DEF Current
  <2> QED
    BY <2>1, <2>2
<1> QED
  BY <1>1, <1>2, <1>3 DEF Marked

LEMMA InSightStays ==
  ASSUME Listed', Watch, NEW k \in Keys, InSight(k), Shown(k)' = Shown(k),
         k \in Range(peers) => k \in Range(peers')
  PROVE  InSight(k)'
BY SeenStays DEF InSight

\* A step of the store: the one task about the conversation that may be new
\* carries a fold of what is stored.
LEMMA WholeStays ==
  ASSUME Sound, Sound', NEW k \in Keys, Whole(k), Folded(k)', Keeps(k), Shown(k)' = Shown(k),
         \A t \in Tasks : About(t, k)' =>
           \/ About(t, k) /\ doing'[t] = doing[t]
           \/ doing'[t].entries = Current(k)'
  PROVE  Whole(k)'
<1>1. /\ Distinct(stored'[k]) /\ Len(stored[k]) <= Len(stored'[k])
      /\ \A log : Cut(k, log) => Cut(k, log)'
  BY CutStays DEF Sound, Whole
<1>2. Len(stored[k]) \in Nat /\ Len(stored'[k]) \in Nat /\ LogLimit \in Nat
  BY LimitsAssumption DEF Sound, Stored
<1>3. ASSUME Len(stored'[k]) <= LogLimit
      PROVE  Cut(k, Shown(k))' /\ \A t \in Tasks : About(t, k)' => Cut(k, doing[t].entries)'
  <2>1. Cut(k, Shown(k)) /\ \A t \in Tasks : About(t, k) => Cut(k, doing[t].entries)
    BY <1>1, <1>2, <1>3 DEF Whole
  <2>2. CutOf(stored'[k], Shown(k)')
    BY <1>1, <2>1 DEF Cut
  <2>3. CutOf(stored'[k], Current(k)')
    <3>1. stored' \in [Keys -> Seq(Nat)]
      BY DEF Sound, Stored
    <3> QED
      BY <3>1, <1>1, <1>3, WholeFold DEF Current
  <2>4. ASSUME NEW t \in Tasks, About(t, k)' PROVE CutOf(stored'[k], doing'[t].entries)
    <3>1. CASE About(t, k) /\ doing'[t] = doing[t]
      BY <3>1, <2>1, <1>1 DEF Cut
    <3>2. CASE doing'[t].entries = Current(k)'
      BY <3>2, <2>3
    <3> QED
      BY <3>1, <3>2, <2>4
  <2> QED
    BY <2>2, <2>4 DEF Cut
<1> QED
  BY <1>1, <1>3 DEF Whole

LEMMA NoticedStore ==
  ASSUME Sound, Sound', Noticed, StoreEffect, NEW k \in Keys \ cleared, k \notin cleared', Keeps(k)
  PROVE  Folded(k)' /\ Whole(k)' /\ Marked(k)' /\ InSight(k)'
<1>1. Folded(k) /\ Whole(k) /\ Marked(k) /\ InSight(k)
  BY DEF Noticed
<1>2. Watch /\ UNCHANGED <<peers, row, sel>> /\ Shown(k)' = Shown(k)
  BY DEF StoreEffect, ui, Shown
<1>3. InSight(k)'
  BY <1>1, <1>2, InSightStays DEF Sound
<1>4. Len(stored[k]) <= Len(stored'[k])
  BY <1>1, CutStays DEF Sound, Whole
<1>5. Marked(k)'
  BY <1>1, <1>2, <1>3, <1>4, MarkedStays
<1>6. \A t \in Tasks : About(t, k)' =>
        /\ doing'[t] \in LogTask /\ doing'[t].peer = k
        /\ \/ About(t, k) /\ doing'[t] = doing[t]
           \/ doing'[t].entries = Current(k)'
  <2> SUFFICES ASSUME NEW t \in Tasks, About(t, k)'
               PROVE  /\ doing'[t] \in LogTask /\ doing'[t].peer = k
                      /\ \/ About(t, k) /\ doing'[t] = doing[t]
                         \/ doing'[t].entries = Current(k)'
    OBVIOUS
  <2>1. CASE doing'[t] = doing[t]
    BY <2>1, <1>1, AboutStays DEF Folded
  <2>2. ASSUME NEW u \in Tasks, NEW j \in Keys, Reads(u, j), doing'[t] # doing[t]
        PROVE  doing'[t] \in LogTask /\ doing'[t].peer = k /\ doing'[t].entries = Current(k)'
    <3>1. t = u
      BY <2>2 DEF Reads, OthersKeep
    <3>2. doing'[t] \in LogTask /\ doing'[t].peer = j /\ doing'[t].entries = Current(j)'
      BY <3>1, <2>2 DEF Reads
    <3>3. j = k
      BY <3>2, TaskKinds DEF About
    <3> QED
      BY <3>2, <3>3
  <2>3. ASSUME NEW S \in SUBSET Keys, Empties(S) PROVE doing'[t] = doing[t]
    <3>1. k \notin S
      BY <2>3 DEF Empties
    <3> QED
      BY <3>1, <2>3 DEF Empties, OthersKeep
  <2> QED
    BY <2>1, <2>2, <2>3 DEF StoreEffect
<1>7. Folded(k)'
  BY <1>6 DEF Folded
<1>8. Whole(k)'
  BY <1>1, <1>2, <1>6, <1>7, WholeStays
<1> QED
  BY <1>3, <1>5, <1>7, <1>8

\* A step that touches neither the store nor the tasks nor any log, nor the
\* mark of a conversation that is not selected.
LEMMA NoticedQuiet ==
  ASSUME Sound, Sound', Noticed, Watch, UNCHANGED <<store, doing, cleared>>,
         NEW k \in Keys \ cleared, row'[k].log = row[k].log,
         k # Selected' => row'[k].unread = row[k].unread,
         k \in Range(peers) => k \in Range(peers')
  PROVE  Folded(k)' /\ Whole(k)' /\ Marked(k)' /\ InSight(k)'
<1>1. Folded(k) /\ Whole(k) /\ Marked(k) /\ InSight(k)
  BY DEF Noticed
<1>2. Shown(k)' = Shown(k) /\ stored' = stored /\ doing' = doing
  BY DEF Shown, store
<1>3. InSight(k)'
  BY <1>1, <1>2, InSightStays DEF Sound
<1>4. Len(stored[k]) <= Len(stored'[k]) /\ Keeps(k)
  BY <1>2 DEF Keeps, Sound, Stored
<1>5. Marked(k)'
  BY <1>1, <1>2, <1>3, <1>4, MarkedStays
<1>6. \A t \in Tasks : About(t, k)' <=> About(t, k)
  BY <1>2, AboutStays
<1>7. Folded(k)'
  BY <1>1, <1>2, <1>6 DEF Folded
<1>8. Whole(k)'
  BY <1>1, <1>2, <1>4, <1>6, <1>7, WholeStays
<1> QED
  BY <1>3, <1>5, <1>7, <1>8

\* The interface is told of a fold of the conversation.
LEMMA MarkedTold ==
  ASSUME Sound, Sound', Told, NEW k \in Keys, Folded(k), Whole(k), Marked(k), InSight(k),
         NEW t \in Tasks, TellEffect(t), About(t, k)
  PROVE  Marked(k)' /\ InSight(k)'
<1> DEFINE l == doing[t].entries
<1>1. doing[t] \in LogTask /\ l \in Seq(Entry)
  BY TaskKinds DEF Folded
<1>2. /\ Shown(k)' = l /\ Marks(k, l) /\ k \in Range(peers') /\ Watch
      /\ stored' = stored /\ Current(k)' = Current(k)
      /\ Selected = None \/ Selected' = Selected
  BY <1>1 DEF TellEffect, store, Current
<1>3. seen[k] \subseteq seen'[k] /\ (k = Selected' => Ids(l) \subseteq seen'[k])
  BY <1>2, SeenStays DEF Sound
<1>4. InSight(k)'
  BY <1>2, <1>3 DEF InSight
<1>5. stored \in [Keys -> Seq(Nat)] /\ Len(stored[k]) \in Nat /\ LogLimit \in Nat
  BY LimitsAssumption DEF Sound, Stored
<1>6. Shown(k) \in Seq(Entry)
  BY DEF Sound, Listed, ListTypes, Row, Shown
<1> HIDE DEF l
<1>7. ASSUME Len(stored[k]) <= LogLimit PROVE row'[k].unread # None \/ Ids(l) \subseteq seen'[k]
  <2> SUFFICES ASSUME row'[k].unread = None PROVE Ids(l) \subseteq seen'[k]
    OBVIOUS
  <2>1. row[k].unread = None /\ (Len(l) <= Len(Shown(k)) \/ Selected = k)
    BY <1>2 DEF Marks, Shown
  <2>2. Cut(k, Shown(k)) /\ Cut(k, l)
    BY <1>7 DEF Whole, l
  <2>3. Ids(Shown(k)) \subseteq seen[k]
    BY <1>7, <2>1 DEF Marked, Known
  <2>4. CASE Len(l) <= Len(Shown(k))
    <3>1. Ids(l) \subseteq Ids(Shown(k))
      BY <2>2, <2>4, <1>1, <1>6, ShorterIsPart DEF Sound, l
    <3> QED
      BY <3>1, <2>3, <1>3
  <2>5. CASE Selected = k
    <3>1. Selected' = k
      BY <2>5, <1>2, KeysAssumption
    <3> QED
      BY <3>1, <1>3
  <2> QED
    BY <2>1, <2>4, <2>5
<1>8. ASSUME Len(stored[k]) > LogLimit, k \notin crossed' PROVE Len(l) = LogLimit
  <2>1. l = Current(k)
    <3>1. CASE k \in crossed
      BY <3>1, <1>2, <1>8, CrossedLeaves
    <3>2. CASE k \notin crossed
      BY <3>2, <1>1 DEF Told, Settled, l
    <3> QED
      BY <3>1, <3>2
  <2> QED
    BY <2>1, <1>5, <1>8, FullFold DEF Current
<1>9. Marked(k)'
  <2>1. Ids(Shown(k)') = Ids(l)
    BY <1>2
  <2>2. Len(stored'[k]) <= LogLimit => row'[k].unread # None \/ Ids(l) \subseteq seen'[k]
    BY <1>2, <1>7
  <2>3. Len(stored'[k]) > LogLimit /\ k \notin crossed' => Len(l) = LogLimit
    BY <1>2, <1>8
  <2> QED
    BY <1>2, <2>2, <2>3 DEF Marked, Known
<1> QED
  BY <1>4, <1>9

LEMMA NoticedTell ==
  ASSUME Sound, Sound', Told, Noticed, NEW t \in Tasks, TellEffect(t), NEW k \in Keys \ cleared
  PROVE  Folded(k)' /\ Whole(k)' /\ Marked(k)' /\ InSight(k)'
<1>1. Folded(k) /\ Whole(k) /\ Marked(k) /\ InSight(k)
  BY DEF Noticed
<1>2. /\ doing'[t] = None /\ (\A u \in Tasks \ {t} : doing'[u] = doing[u]) /\ Watch
      /\ stored' = stored
  BY DEF TellEffect, OthersKeep, store
<1>3. \A u \in Tasks : About(u, k)' => u # t /\ About(u, k) /\ doing'[u] = doing[u]
  BY <1>2 DEF About
<1>4. Folded(k)'
  BY <1>1, <1>3 DEF Folded
<1>5. Keeps(k) /\ Len(stored[k]) <= Len(stored'[k])
  BY <1>2 DEF Keeps, Sound, Stored
<1>6. CASE ~About(t, k)
  <2>1. /\ Shown(k)' = Shown(k) /\ row'[k].unread = row[k].unread
        /\ k \in Range(peers) => k \in Range(peers')
    BY <1>6 DEF TellEffect
  <2>2. InSight(k)'
    BY <1>1, <1>2, <2>1, InSightStays DEF Sound
  <2>3. Marked(k)'
    BY <1>1, <1>2, <1>5, <2>1, <2>2, MarkedStays
  <2>4. Whole(k)'
    BY <1>1, <1>3, <1>4, <1>5, <2>1, WholeStays
  <2> QED
    BY <1>4, <2>2, <2>3, <2>4
<1>7. CASE About(t, k)
  <2>1. Marked(k)' /\ InSight(k)'
    BY <1>1, <1>7, MarkedTold
  <2>2. doing[t] \in LogTask /\ Shown(k)' = doing[t].entries
    BY <1>1, <1>7 DEF Folded, TellEffect
  <2>3. Whole(k)'
    <3>1. ASSUME Len(stored[k]) <= LogLimit
          PROVE  /\ CutOf(stored'[k], Shown(k)')
                 /\ \A u \in Tasks : About(u, k)' => CutOf(stored'[k], doing'[u].entries)
      <4>1. \A u \in Tasks : About(u, k) => CutOf(stored[k], doing[u].entries)
        BY <1>1, <3>1 DEF Whole, Cut
      <4> QED
        BY <4>1, <1>2, <1>3, <1>7, <2>2
    <3> QED
      BY <3>1, <1>1, <1>2 DEF Whole, Cut
  <2> QED
    BY <1>4, <2>1, <2>3
<1> QED
  BY <1>6, <1>7

LEMMA NoticedNext == Sound /\ Sound' /\ Told /\ Noticed /\ [Next]_vars => Noticed'
<1> SUFFICES ASSUME Sound, Sound', Told, Noticed, [Next]_vars, NEW k \in Keys \ cleared'
             PROVE  Folded(k)' /\ Whole(k)' /\ Marked(k)' /\ InSight(k)'
  BY DEF Noticed
<1>1. k \in Keys \ cleared /\ Keeps(k)
  BY NextKeeps
<1>2. CASE UserNext
  <2>1. UserEffect
    BY <1>2, UserSteps
  <2>2. /\ Watch /\ UNCHANGED <<store, doing, cleared>> /\ row'[k].log = row[k].log
        /\ k # Selected' => row'[k].unread = row[k].unread
        /\ k \in Range(peers) => k \in Range(peers')
    BY <2>1 DEF UserEffect
  <2> QED
    BY <2>2, <1>1, NoticedQuiet
<1>3. CASE StoreEffect
  BY <1>1, <1>3, NoticedStore
<1>4. ASSUME NEW t \in Tasks, TellEffect(t)
      PROVE  Folded(k)' /\ Whole(k)' /\ Marked(k)' /\ InSight(k)'
  BY <1>1, <1>4, NoticedTell
<1>5. ASSUME NEW j \in Keys, Mention(j)
      PROVE  Folded(k)' /\ Whole(k)' /\ Marked(k)' /\ InSight(k)'
  <2>1. Watch /\ UNCHANGED <<row, store, doing, cleared>> /\ Range(peers) \subseteq Range(peers')
    BY <1>5, MentionLists
  <2> QED
    BY <2>1, <1>1, NoticedQuiet
<1>6. CASE UNCHANGED vars
  <2>1. UNCHANGED <<row, peers, sel, stored, doing, seen, crossed>>
    BY <1>6 DEF vars, ui, store, history
  <2>2. Folded(k) /\ Whole(k) /\ Marked(k) /\ InSight(k)
    BY <1>1 DEF Noticed
  <2> QED
    BY <2>1, <2>2 DEF Folded, Whole, Marked, InSight, Known, Cut, About, Shown, Selected
<1> QED
  BY <1>2, <1>3, <1>4, <1>5, <1>6, TaskSteps DEF Next

(***************************************************************************)
(* The theorems.                                                           *)
(***************************************************************************)
LEMMA Invariant == Spec => [](Sound /\ Told)
BY SoundInit, SoundNext, ToldInit, ToldNext, PTL DEF Spec

LEMMA NoticedInvariant == Spec => []Noticed
BY Invariant, NoticedInit, NoticedNext, PTL DEF Spec

LEMMA SoundIsTyped == Sound => TypeOK
<1> SUFFICES ASSUME Sound PROVE TypeOK
  OBVIOUS
<1>1. peers \in Seq(Keys) /\ sel \in Nat /\ index \in [Keys -> Nat \cup {None}]
  BY DEF Sound, Listed, ListTypes
<1>2. ASSUME NEW k \in Keys
      PROVE  /\ Shown(k) \in Seq([id : DOMAIN messages, deleted : BOOLEAN])
             /\ row[k].cursor \in Nat /\ row[k].unread \in Nat \cup {None}
             /\ stored[k] \in Seq(DOMAIN messages)
  <2>1. row[k] \in Row /\ stored[k] \in Seq(Nat)
    BY DEF Sound, Listed, ListTypes, Stored
  <2>2. row[k].log \in Seq(Entry) /\ row[k].cursor \in Nat /\ row[k].unread \in Nat \cup {None}
    BY <2>1 DEF Row
  <2>3. \A i \in 1..Len(stored[k]) : stored[k][i] \in DOMAIN messages
    BY <2>1 DEF Sound, Stored, In
  <2>4. stored[k] \in Seq(DOMAIN messages)
    BY <2>1, <2>3, SeqNarrows
  <2>5. \A i \in 1..Len(row[k].log) : row[k].log[i] \in [id : DOMAIN messages, deleted : BOOLEAN]
    <3> SUFFICES ASSUME NEW i \in 1..Len(row[k].log)
                 PROVE  row[k].log[i] \in [id : DOMAIN messages, deleted : BOOLEAN]
      OBVIOUS
    <3>1. row[k].log[i] \in Entry
      BY <2>2
    <3>2. row[k].log[i].id \in DOMAIN messages
      BY <2>2 DEF Sound, Rows, In
    <3> QED
      BY <3>1, <3>2 DEF Entry
  <2>6. row[k].log \in Seq([id : DOMAIN messages, deleted : BOOLEAN])
    <3> DEFINE T == [id : DOMAIN messages, deleted : BOOLEAN]
               l == row[k].log
    <3>1. l \in Seq(Entry) /\ \A i \in 1..Len(l) : l[i] \in T
      BY <2>2, <2>5
    <3> HIDE DEF T, l
    <3>2. l \in Seq(T)
      BY <3>1, SeqNarrows
    <3> QED
      BY <3>2 DEF T, l
  <2> QED
    BY <2>2, <2>4, <2>6 DEF Shown
<1>3. pending = None \/ pending \in [kind : {"reply", "edit"}, target : DOMAIN messages]
  BY DEF Sound, Writing, Pending
<1>4. Len(commands) <= MaxQueue
  BY DEF Sound, Queue
<1>5. messages \in Seq([home : Keys, mine : BOOLEAN]) /\ deleted \subseteq DOMAIN messages
  BY DEF Sound, Stored, Message
<1>6. /\ cleared \subseteq Keys /\ crossed \subseteq Keys /\ moved \in BOOLEAN
      /\ focus \in {"peers", "chat", "input"} /\ overlay \in BOOLEAN
  BY DEF Sound, Others
<1> QED
  BY <1>1, <1>2, <1>3, <1>4, <1>5, <1>6 DEF TypeOK

\* Every key, click and event leaves the interface and the store in a state of
\* the right shape (ui.rs, main.rs:244-268, 419-510).
THEOREM TypeCorrect == Spec => []TypeOK
BY Invariant, SoundIsTyped, PTL

\* The list and its lookup never part, and no position dangles
\* (ui.rs:366-475).
THEOREM ListCorrect == Spec => []LookupIsList
<1>1. Sound => LookupIsList
  BY DEF Sound, Listed
<1> QED
  BY <1>1, Invariant, PTL

\* What the screen shows of a conversation is what the store holds, once its
\* tasks have spoken and unless two of them were about it at once
\* (main.rs:244-268, 469-486).
THEOREM ScreenCatchesUp == Spec => []ShownIsStored
<1>1. Told => ShownIsStored
  BY DEF Told, Settled, ShownIsStored
<1> QED
  BY <1>1, Invariant, PTL

\* A message that arrived while the user looked elsewhere leaves a mark, as long
\* as the conversation fits in one fold; beyond that a full fold hides it, and so
\* may an old fold that is told last (ui.rs:424-442).
THEOREM NothingArrivesUnseen == Spec => []UnreadIsMarked
<1>1. Sound /\ Noticed => UnreadIsMarked
  <2> SUFFICES ASSUME Sound, Noticed, NEW k \in Range(peers), k # Selected, k \notin cleared,
                      ~(Ids(Shown(k)) \subseteq seen[k]), row[k].unread = None
               PROVE  Len(stored[k]) > LogLimit /\ (Len(Shown(k)) = LogLimit \/ k \in crossed)
    BY DEF UnreadIsMarked
  <2>1. k \in Keys
    BY ListedFacts DEF Sound, Range
  <2>2. Len(stored[k]) \in Nat /\ LogLimit \in Nat
    BY <2>1, LimitsAssumption DEF Sound, Stored
  <2> QED
    BY <2>1, <2>2 DEF Noticed, Marked, Known
<1> QED
  BY <1>1, Invariant, NoticedInvariant, PTL

\* No command goes to a conversation its message is not in, unless the user
\* went away from a message half written, and nothing of the peer's is edited
\* or deleted (ui.rs:584-622, 686-715).
THEOREM CommandsStayHome == Spec => OpsStayHome
<1>1. Sound /\ [Next]_vars => [Issued]_vars
  <2> SUFFICES ASSUME Sound, [Next]_vars PROVE [Issued]_vars
    OBVIOUS
  <2>1. CASE UserNext
    BY <2>1, UserSteps DEF UserEffect
  <2>2. Len(commands) \in Nat
    BY DEF Sound, Queue
  <2>3. CASE StoreEffect
    <3>1. Len(commands') <= Len(commands) /\ Len(commands') \in Nat
      BY <2>3 DEF StoreEffect, Queue
    <3> QED
      BY <2>2, <3>1 DEF Issued
  <2>4. CASE UNCHANGED commands
    BY <2>2, <2>4 DEF Issued
  <2> QED
    BY <2>1, <2>3, <2>4, TaskSteps, MentionLists DEF Next, TellEffect
<1>2. [][Issued]_vars => OpsStayHome
  BY DEF Issued, OpsStayHome
<1> QED
  BY <1>1, <1>2, Invariant, PTL DEF Spec

\* The selection is on the conversation the user put it on, until that one or
\* one above it is removed (ui.rs:462-475, 643-660).
THEOREM SelectionStays == Spec => SelectionIsTheUsers
<1> DEFINE Stays == Selected # None /\ Selected' # Selected =>
                      IF peers' = peers THEN UNCHANGED <<store, doing, commands>>
                      ELSE \E i \in 1..(sel + 1) : peers[i] \notin Range(peers')
<1>1. Sound /\ [Next]_vars => [Stays]_vars
  <2> SUFFICES ASSUME Sound, [Next]_vars PROVE [Stays]_vars
    OBVIOUS
  <2>1. CASE UserNext
    BY <2>1, UserSteps DEF UserEffect
  <2>2. CASE Selected = None \/ Selected' = Selected \/ Moved
    BY <2>2 DEF Moved
  <2>3. CASE StoreEffect
    BY <2>3 DEF StoreEffect, ui, Selected
  <2> QED
    BY <2>1, <2>2, <2>3, TaskSteps, MentionLists DEF Next, TellEffect
<1>2. [][Stays]_vars => SelectionIsTheUsers
  BY DEF SelectionIsTheUsers
<1> HIDE DEF Stays
<1> QED
  BY <1>1, <1>2, Invariant, PTL DEF Spec

=============================================================================
