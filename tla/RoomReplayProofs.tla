-------------------------- MODULE RoomReplayProofs --------------------------
(***************************************************************************)
(* For every set of peers and every log length: the replay loop of         *)
(* verify_log accepts exactly the well-formed logs and returns exactly the *)
(* membership their positions spell, and no step of it lets someone in or  *)
(* out without the signature that takes.                                   *)
(***************************************************************************)
EXTENDS RoomReplay, RoomLogProofs

\* A received entry is an entry: the hashes it may name are chain hashes.
LEMMA IncomingType ==
    ASSUME log \in Seq(Entry)
    PROVE  Incoming \subseteq Entry
  <1>1. Genesis \in ChainHash
    BY DEF Genesis, ChainHash
  <1>2. KnownHash \subseteq ChainHash
    BY <1>1, HashType DEF KnownHash
  <1> QED
    BY <1>2 DEF Incoming, Entry

(***************************************************************************)
(* What appending an entry changes about the meaning of a log.             *)
(***************************************************************************)

\* The membership after the first n entries does not depend on later ones.
LEMMA MembersStable ==
    ASSUME NEW l \in Seq(Entry), NEW e \in Entry,
           l # << >>, NEW n \in 0..Len(l)
    PROVE  MembersAt(Append(l, e), n) = MembersAt(l, n)
  <1>1. \A i \in 1..Len(l) : Append(l, e)[i] = l[i]
    OBVIOUS
  <1>2. Len(l) >= 1
    OBVIOUS
  <1>3. Founder(Append(l, e)) = Founder(l)
    BY <1>1, <1>2 DEF Founder
  <1>4. \A i \in 2..n : Append(l, e)[i] = l[i] /\ \A j \in (i+1)..n : Append(l, e)[j] = l[j]
    BY <1>1
  <1> QED
    BY <1>3, <1>4 DEF MembersAt

\* One more entry adds whom it admits and takes out whom it removes.
LEMMA MembersGrow ==
    ASSUME NEW l \in Seq(Entry), NEW e \in Entry, l # << >>,
           \A p \in Peer : Removes(e, p) => p # Founder(l)
    PROVE  MembersAt(Append(l, e), Len(l) + 1)
             = {p \in Peer : \/ Admits(e, p)
                             \/ p \in MembersAt(l, Len(l)) /\ ~ Removes(e, p)}
  <1> DEFINE m == Append(l, e)  n == Len(l)
  <1>1. \A i \in 1..n : m[i] = l[i]
    OBVIOUS
  <1>2. m[n+1] = e /\ n \in Nat /\ n >= 1
    OBVIOUS
  <1>3. Founder(m) = Founder(l)
    BY <1>1, <1>2 DEF Founder
  <1>4. ASSUME NEW p \in Peer
        PROVE  p \in MembersAt(m, n+1)
                 <=> Admits(e, p) \/ (p \in MembersAt(l, n) /\ ~ Removes(e, p))
    <2>1. CASE p = Founder(l)
      BY <2>1, <1>3 DEF MembersAt
    <2>2. CASE p # Founder(l)
      <3> DEFINE Since(k, i, q) == /\ Admits(q[i], p)
                                   /\ \A j \in (i+1)..k : ~ Removes(q[j], p)
      <3>1. p \in MembersAt(m, n+1) <=> \E i \in 2..(n+1) : Since(n+1, i, m)
        BY <2>2, <1>3 DEF MembersAt
      <3>2. p \in MembersAt(l, n) <=> \E i \in 2..n : Since(n, i, l)
        BY <2>2 DEF MembersAt
      <3>3. Since(n+1, n+1, m) <=> Admits(e, p)
        BY <1>2
      <3>4. ASSUME NEW i \in 2..n
            PROVE  Since(n+1, i, m) <=> (Since(n, i, l) /\ ~ Removes(e, p))
        <4>1. (i+1)..(n+1) = ((i+1)..n) \cup {n+1}
          BY <1>2
        <4>2. \A j \in (i+1)..n : m[j] = l[j]
          BY <1>1
        <4>3. m[i] = l[i]
          BY <1>1, <1>2
        <4> HIDE DEF m, n
        <4> QED
          BY <4>1, <4>2, <4>3, <1>2
      <3>5. 2..(n+1) = (2..n) \cup {n+1}
        BY <1>2
      <3> HIDE DEF m, n, Since
      <3> QED
        BY <3>1, <3>2, <3>3, <3>4, <3>5
    <2> QED BY <2>1, <2>2
  <1>5. MembersAt(m, n+1) \subseteq Peer
    BY DEF MembersAt
  <1> QED
    BY <1>4, <1>5

\* An appended entry leaves what the earlier ones were permitted alone.
LEMMA FollowsStable ==
    ASSUME NEW l \in Seq(Entry), NEW e \in Entry, l # << >>,
           NEW i \in 2..Len(l)
    PROVE  Follows(Append(l, e), i) <=> Follows(l, i)
  <1>1. Append(l, e)[1] = l[1] /\ Append(l, e)[i-1] = l[i-1] /\ Append(l, e)[i] = l[i]
    OBVIOUS
  <1>2. MembersAt(Append(l, e), i-1) = MembersAt(l, i-1)
    BY MembersStable
  <1> QED
    BY <1>1, <1>2 DEF Follows, Permitted, Founder

LEMMA WellFormedGrows ==
    ASSUME NEW l \in Seq(Entry), NEW e \in Entry, l # << >>
    PROVE  WellFormed(Append(l, e))
             <=> /\ WellFormed(l)
                 /\ VerifySignature(e)
                 /\ Follows(Append(l, e), Len(l) + 1)
  <1> DEFINE m == Append(l, e)
  <1>1. m # << >> /\ Len(m) = Len(l) + 1 /\ Len(l) >= 1 /\ Len(l) \in Nat
    OBVIOUS
  <1>2. \A i \in 1..Len(l) : m[i] = l[i]
    OBVIOUS
  <1>3. m[Len(l) + 1] = e
    OBVIOUS
  <1>4. \A i \in 2..Len(l) : Follows(m, i) <=> Follows(l, i)
    BY FollowsStable
  <1>5. 1..Len(m) = (1..Len(l)) \cup {Len(l) + 1}
    BY <1>1
  <1>6. 2..Len(m) = (2..Len(l)) \cup {Len(l) + 1}
    BY <1>1
  <1> HIDE DEF m
  <1>7. (\A i \in 1..Len(m) : VerifySignature(m[i]))
          <=> (\A i \in 1..Len(l) : VerifySignature(l[i])) /\ VerifySignature(e)
    BY <1>2, <1>3, <1>5
  <1>8. (\A i \in 2..Len(m) : Follows(m, i))
          <=> (\A i \in 2..Len(l) : Follows(l, i)) /\ Follows(m, Len(l) + 1)
    BY <1>4, <1>6
  <1>9. m[1] = l[1]
    BY <1>1, <1>2
  <1> QED
    BY <1>1, <1>7, <1>8, <1>9 DEF WellFormed, m

(***************************************************************************)
(* What a replay stands for.  The meaning of a log says nothing of the     *)
(* room's head, and a turn of the loop compares nothing else with the      *)
(* entry's prev: the head is the last hash.                                *)
(***************************************************************************)
Stands(l, r) ==
    /\ r \in Room \cup {Rejected}
    /\ r # Rejected <=> WellFormed(l)
    /\ r # Rejected => /\ r.members = MembersAt(l, Len(l))
                       /\ r.founder = Founder(l)
                       /\ r.length = Len(l)
                       /\ r.head = Hash(l[Len(l)])

\* The first entry opens a room iff it is a signed Create that follows nothing.
LEMMA FirstStands == ASSUME NEW e \in Entry PROVE Stands(<<e>>, OpenRoom(e))
  <1> DEFINE l == <<e>>
             r == OpenRoom(e)
  <1>1. l # << >> /\ Len(l) = 1 /\ l[1] = e
    OBVIOUS
  <1> HIDE DEF l
  <1>2. WellFormed(l) <=> e.prev = Genesis /\ VerifySignature(e) /\ e.op = Create
    BY <1>1 DEF WellFormed
  <1>3. CASE r # Rejected
    <2>1. /\ e.prev = Genesis /\ VerifySignature(e) /\ e.op = Create /\ r \in Room
          /\ r = [id |-> Hash(e), founder |-> e.author, members |-> {e.author},
                  head |-> Hash(e), length |-> 1]
      BY <1>3, OpenType
    <2>2. MembersAt(l, 1) = {e.author}
      BY <1>1 DEF MembersAt, Founder, Entry
    <2>3. Stands(l, r)
      BY <1>1, <1>2, <1>3, <2>1, <2>2 DEF Stands, Founder
    <2> QED
      BY <2>3 DEF l
  <1>4. CASE r = Rejected
    <2>1. Rejected # [id |-> Hash(e), founder |-> e.author, members |-> {e.author},
                      head |-> Hash(e), length |-> 1]
      BY DEF Rejected
    <2>2. ~ (e.prev = Genesis /\ VerifySignature(e) /\ e.op = Create)
      BY <1>4, <2>1 DEF OpenRoom
    <2>3. Stands(l, r)
      BY <1>2, <1>4, <2>2 DEF Stands
    <2> QED
      BY <2>3 DEF l
  <1> QED
    BY <1>3, <1>4

\* What the loop checks of an entry is what the log means by permitted.
LEMMA AuthorisedIsPermitted ==
    ASSUME NEW l \in Seq(Entry), NEW r, Stands(l, r), r # Rejected, NEW e \in Entry
    PROVE  Follows(Append(l, e), Len(l) + 1)
             <=> e.prev = r.head /\ Authorised(r, e)
  <1> DEFINE m == Append(l, e)
             n == Len(l)
  <1>1. /\ l # << >>
        /\ r.members = MembersAt(l, n)
        /\ r.founder = l[1].author
        /\ r.head = Hash(l[n])
    BY DEF Stands, WellFormed, Founder
  <1>2. m[n+1] = e /\ m[n] = l[n] /\ m[1] = l[1] /\ (n+1) - 1 = n
    BY <1>1
  <1>3. MembersAt(m, n) = r.members
    BY <1>1, MembersStable
  <1>4. e.op \in Op /\ e.author \in Peer
    BY DEF Entry
  <1> HIDE DEF m, n
  <1>5. Follows(m, n+1) <=> /\ e.prev = r.head
                            /\ e.op # Create
                            /\ e.op.type \in {"invite", "kick"} => e.author = r.founder
                            /\ \A p \in Peer : Removes(e, p) => p # r.founder
                            /\ e.op.type = "leave" => e.author \in r.members
    BY <1>1, <1>2, <1>3 DEF Follows, Permitted, Founder
  <1>6. CASE e.op.type = "invite"
    BY <1>4, <1>5, <1>6, OpKinds DEF Authorised, IsAdmin, Removes, m, n
  <1>7. CASE e.op.type = "kick"
    BY <1>4, <1>5, <1>7, OpKinds DEF Authorised, IsAdmin, Removes, m, n
  <1>8. CASE e.op.type = "leave"
    BY <1>4, <1>5, <1>8, OpKinds DEF Authorised, IsAdmin, Removes, m, n
  <1>9. CASE e.op.type = "create"
    BY <1>4, <1>5, <1>9, OpKinds DEF Authorised, m, n
  <1> QED
    BY <1>4, <1>6, <1>7, <1>8, <1>9, OpKinds

\* The members the loop computes are the ones the new position spells.
LEMMA MembersAgree ==
    ASSUME NEW l \in Seq(Entry), NEW r, Stands(l, r), r # Rejected,
           NEW e \in Entry, Authorised(r, e)
    PROVE  MembersAfter(r, e) = MembersAt(Append(l, e), Len(l) + 1)
  <1>1. /\ l # << >>
        /\ r.members = MembersAt(l, Len(l))
        /\ r.founder = Founder(l)
    BY DEF Stands, WellFormed
  <1>2. e.op \in Op /\ e.author \in Peer
    BY DEF Entry
  <1>3. \A p \in Peer : Removes(e, p) => p # Founder(l)
    BY <1>1, <1>2, OpKinds DEF Authorised, Removes
  <1>4. MembersAt(Append(l, e), Len(l) + 1)
          = {p \in Peer : \/ Admits(e, p)
                          \/ p \in r.members /\ ~ Removes(e, p)}
    BY <1>1, <1>3, MembersGrow
  <1>5. r.members \subseteq Peer
    BY <1>1 DEF MembersAt
  <1>6. CASE e.op.type = "invite"
    BY <1>2, <1>4, <1>5, <1>6, OpKinds DEF MembersAfter, Admits, Removes
  <1>7. CASE e.op.type = "kick"
    BY <1>2, <1>4, <1>5, <1>7, OpKinds DEF MembersAfter, Admits, Removes
  <1>8. CASE e.op.type = "leave"
    BY <1>2, <1>4, <1>5, <1>8, OpKinds DEF MembersAfter, Admits, Removes
  <1> QED
    BY <1>2, <1>6, <1>7, <1>8 DEF Authorised

\* Every later entry is accepted iff it follows the head and is permitted.
LEMMA NextStands ==
    ASSUME NEW l \in Seq(Entry), NEW r, Stands(l, r), l # << >>, NEW e \in Entry
    PROVE  Stands(Append(l, e), Replay(r, e))
  <1> DEFINE m == Append(l, e)
             s == Replay(r, e)
  <1>1. /\ Len(m) = Len(l) + 1 /\ m[Len(l) + 1] = e /\ m[1] = l[1]
    OBVIOUS
  <1>2. WellFormed(m) <=> WellFormed(l) /\ VerifySignature(e) /\ Follows(m, Len(l) + 1)
    BY WellFormedGrows
  <1>3. CASE r = Rejected
    <2>1. s = Rejected
      BY <1>3 DEF Replay
    <2>2. ~ WellFormed(m)
      BY <1>2, <1>3 DEF Stands
    <2> QED
      BY <2>1, <2>2 DEF Stands
  <1>4. CASE r # Rejected /\ ~ (e.prev = r.head /\ VerifySignature(e) /\ Authorised(r, e))
    <2>1. s = Rejected
      BY <1>4 DEF Replay
    <2>2. ~ WellFormed(m)
      BY <1>2, <1>4, AuthorisedIsPermitted
    <2> QED
      BY <2>1, <2>2 DEF Stands
  <1>5. CASE r # Rejected /\ e.prev = r.head /\ VerifySignature(e) /\ Authorised(r, e)
    <2>1. r \in Room /\ WellFormed(l) /\ r.founder = Founder(l) /\ r.length = Len(l)
      BY <1>5 DEF Stands
    <2>2. /\ s \in Room
          /\ s = [id |-> r.id, founder |-> r.founder, members |-> MembersAfter(r, e),
                  head |-> Hash(e), length |-> r.length + 1]
      BY <1>5, <2>1, ReplayType
    <2>3. s # Rejected
      BY <2>2, RoomNotRejected
    <2>4. s.members = MembersAt(m, Len(m))
      BY <1>1, <1>5, <2>2, MembersAgree
    <2>5. WellFormed(m)
      BY <1>2, <1>5, <2>1, AuthorisedIsPermitted
    <2>6. s.founder = Founder(m) /\ s.length = Len(m) /\ s.head = Hash(m[Len(m)])
      BY <1>1, <2>1, <2>2 DEF Founder
    <2> HIDE DEF m, s
    <2>7. Stands(m, s)
      BY <2>2, <2>3, <2>4, <2>5, <2>6 DEF Stands
    <2> QED
      BY <2>7 DEF m, s
  <1> QED
    BY <1>3, <1>4, <1>5

(***************************************************************************)
(* The inductive invariant: the room the loop has built stands for what it *)
(* has read, and is what verify_log makes of it in one go.                 *)
(***************************************************************************)
IInv ==
    /\ log \in Seq(Entry) /\ Len(log) <= MaxLog
    /\ Stands(log, room)
    /\ VerifyLog(log) = room

LEMMA InitInv == Init => IInv
  <1> SUFFICES ASSUME Init PROVE IInv
    OBVIOUS
  <1>1. log = << >> /\ room = Rejected
    BY DEF Init
  <1>2. log \in Seq(Entry) /\ Len(log) <= MaxLog /\ VerifyLog(log) = room
    BY <1>1, MaxLogAssumption DEF VerifyLog
  <1>3. Stands(log, room)
    BY <1>1 DEF Stands, WellFormed
  <1> QED
    BY <1>2, <1>3 DEF IInv

LEMMA StepInv == IInv /\ [Next]_vars => IInv'
  <1> SUFFICES ASSUME IInv, [Next]_vars PROVE IInv'
    OBVIOUS
  <1>1. ASSUME NEW e \in Entry, Len(log) < MaxLog, ReadFirst(e) PROVE IInv'
    <2>1. log' = <<e>> /\ room' = OpenRoom(e) /\ log = << >>
      BY <1>1 DEF ReadFirst
    <2>2. log' \in Seq(Entry) /\ Len(log') <= MaxLog
      BY <1>1, <2>1, MaxLogAssumption
    <2> QED
      BY <2>1, <2>2, FirstStands, VerifyFirst DEF IInv
  <1>2. ASSUME NEW e \in Entry, Len(log) < MaxLog, ReadNext(e) PROVE IInv'
    <2>1. log # << >> /\ log' = Append(log, e) /\ room' = Replay(room, e)
      BY <1>2 DEF ReadNext
    <2>2. log \in Seq(Entry) /\ Stands(log, room) /\ VerifyLog(log) = room
      BY DEF IInv
    <2>3. log' \in Seq(Entry) /\ Len(log') <= MaxLog
      BY <1>2, <2>1, <2>2, MaxLogAssumption
    <2>4. Stands(log', room')
      BY <2>1, <2>2, NextStands
    <2>5. VerifyLog(log') = room'
      BY <2>1, <2>2, VerifyNext
    <2> QED
      BY <2>3, <2>4, <2>5 DEF IInv
  <1>3. CASE Next
    <2>1. PICK e \in Incoming : Len(log) < MaxLog /\ (ReadFirst(e) \/ ReadNext(e))
      BY <1>3 DEF Next
    <2>2. e \in Entry
      BY IncomingType DEF IInv
    <2> QED
      BY <1>1, <1>2, <2>1, <2>2
  <1>4. CASE UNCHANGED vars
    BY <1>4 DEF vars, IInv
  <1> QED
    BY <1>3, <1>4

\* The loop's invariant, from which the theorems follow.
LEMMA ReplayInvariant == Spec => []IInv
  BY InitInv, StepInv, PTL DEF Spec

\* The loop keeps its state typed: a room has a founder, a set of peers for
\* members and a positive length, or there is no room.
THEOREM ReplayTyped == Spec => []TypeOK
  <1>1. IInv => TypeOK
    BY DEF IInv, TypeOK, Stands
  <1> QED
    BY <1>1, ReplayInvariant, PTL

\* verify_log accepts a log iff every entry was signed by its author, follows
\* the one before it and was permitted, and returns the members it spells.
THEOREM ReplayCorrect == Spec => []ReplayIsMeaning
  <1>1. IInv => ReplayIsMeaning
    BY DEF IInv, ReplayIsMeaning, Stands
  <1> QED
    BY <1>1, ReplayInvariant, PTL

\* What the callers of verify_log use, a function of the whole log, is what the
\* loop has built when it has read that log.
THEOREM LoopIsVerifyLog == Spec => []VerifyLogIsLoop
  <1>1. IInv => VerifyLogIsLoop
    BY DEF IInv, VerifyLogIsLoop
  <1> QED
    BY <1>1, ReplayInvariant, PTL

(***************************************************************************)
(* Tampering.  In a log that is accepted entry i names a hash of length    *)
(* i - 1 (VerifyLogOrders), so an entry has one place it can stand at.     *)
(***************************************************************************)
LEMMA TamperEvident ==
    ASSUME NEW l \in Seq(Entry), VerifyLog(l) # Rejected,
           NEW k \in 1..Len(l), NEW f \in [1..k -> 1..Len(l)],
           VerifyLog([i \in 1..k |-> l[f[i]]]) # Rejected
    PROVE  IsPrefix([i \in 1..k |-> l[f[i]]], l)
  <1> DEFINE other == [i \in 1..k |-> l[f[i]]]
  <1>1. k \in Nat /\ DOMAIN other = 1..k /\ \A i \in 1..k : other[i] = l[f[i]] /\ f[i] \in 1..Len(l)
    OBVIOUS
  <1>2. other \in Seq(Entry) /\ Len(other) = k
    <2>1. \A i \in 1..k : l[f[i]] \in Entry
      OBVIOUS
    <2> QED
      BY <2>1
  <1>3. VerifyLog(other) # Rejected
    OBVIOUS
  <1> HIDE DEF other
  <1>4. \A i \in 1..Len(l) : Len(l[i].prev) = i - 1
    BY VerifyLogOrders DEF Ordered
  <1>5. \A i \in 1..k : Len(other[i].prev) = i - 1
    BY <1>2, <1>3, VerifyLogOrders DEF Ordered
  <1>6. ASSUME NEW i \in 1..k PROVE f[i] = i
    <2>1. f[i] \in 1..Len(l) /\ other[i] = l[f[i]] /\ i \in Int
      BY <1>1
    <2>2. Len(l[f[i]].prev) = f[i] - 1 /\ Len(other[i].prev) = i - 1
      BY <1>4, <1>5, <2>1
    <2> QED
      BY <2>1, <2>2, SMTT(30)
  <1>7. \A i \in 1..k : other[i] = l[i]
    BY <1>1, <1>6
  <1>8. SubSeq(other, 1, k) = SubSeq(l, 1, k)
    BY <1>2, <1>7, SMTT(30)
  <1>9. IsPrefix(other, l)
    BY <1>2, <1>8 DEF IsPrefix
  <1> QED
    BY <1>9 DEF other

\* Dropping, repeating or reordering entries of an accepted log gives a log
\* that verify_log refuses, or cuts the tail off.
THEOREM TamperingShows == Spec => []OnlyPrefixesVerify
  <1>1. IInv => OnlyPrefixesVerify
    <2> SUFFICES ASSUME IInv, room # Rejected, NEW f \in Picks,
                        VerifyLog([i \in DOMAIN f |-> log[f[i]]]) # Rejected
                 PROVE  IsPrefix([i \in DOMAIN f |-> log[f[i]]], log)
      BY DEF OnlyPrefixesVerify
    <2>1. PICK k \in 1..Len(log) : f \in [1..k -> 1..Len(log)]
      BY DEF Picks
    <2>2. DOMAIN f = 1..k
      BY <2>1
    <2>3. log \in Seq(Entry) /\ VerifyLog(log) # Rejected
      BY DEF IInv
    <2> QED
      BY <2>1, <2>2, <2>3, TamperEvident
  <1> QED
    BY <1>1, ReplayInvariant, PTL

(***************************************************************************)
(* verify_log by itself: what the loop shows of a log it has read holds of *)
(* any log of any length.                                                  *)
(***************************************************************************)

\* verify_log accepts exactly the well-formed logs, of any length and wherever
\* they come from, and returns the members and the founder they spell.
THEOREM VerifyLogMeans ==
    \A l \in Seq(Entry) : Stands(l, VerifyLog(l))
  <1>0. Stands(<< >>, VerifyLog(<< >>))
    BY DEF Stands, WellFormed, VerifyLog
  <1> SUFFICES ASSUME NEW l \in Seq(Entry), l # << >> PROVE Stands(l, VerifyLog(l))
    BY <1>0
  <1> DEFINE n == Len(l)
             p(k) == SubSeq(l, 1, k)
             T == {k \in 0..n : k = 0 \/ Stands(p(k), VerifyLog(p(k)))}
  <1>1. n \in Nat /\ n # 0 /\ 0 \in T
    OBVIOUS
  <1>2. ASSUME NEW k \in Nat, k < n, k \in T PROVE k + 1 \in T
    <2>1. p(k) \in Seq(Entry) /\ Len(p(k)) = k /\ p(k + 1) = Append(p(k), l[k + 1])
      BY <1>2, FirstEntries
    <2>2. l[k + 1] \in Entry
      BY <1>2
    <2>3. k = 0 \/ Stands(p(k), VerifyLog(p(k)))
      BY <1>2
    <2>4. p(0) = <<>>
      BY FirstEntries
    <2> HIDE DEF p
    <2>5. CASE k = 0
      <3>1. p(k) = <<>> /\ \A x : Append(<<>>, x) = <<x>>
        BY <2>4, <2>5
      <3>2. p(k + 1) = <<l[k + 1]>>
        BY <2>1, <3>1
      <3>3. Stands(p(k + 1), VerifyLog(p(k + 1)))
        BY <2>2, <3>2, FirstStands, VerifyFirst
      <3> QED
        BY <1>1, <1>2, <3>3
    <2>6. CASE k # 0
      <3>1. p(k) # <<>> /\ Stands(p(k), VerifyLog(p(k)))
        BY <2>1, <2>3, <2>6
      <3>2. Stands(p(k + 1), VerifyLog(p(k + 1)))
        BY <2>1, <2>2, <3>1, NextStands, VerifyNext
      <3> QED
        BY <1>1, <1>2, <3>2
    <2> QED
      BY <2>5, <2>6
  <1> HIDE DEF T, n
  <1>3. n \in T
    BY <1>1, <1>2, Climb DEF Climbs
  <1>4. Stands(p(n), VerifyLog(p(n)))
    BY <1>1, <1>3 DEF T
  <1> QED
    BY <1>4, FirstEntries DEF n

(***************************************************************************)
(* The step.                                                               *)
(***************************************************************************)
LEMMA EarnedStep ==
    ASSUME IInv, Next, room # Rejected, room' # Rejected
    PROVE  EarnedBy(log'[Len(log')])
  <1>1. /\ room \in Room /\ log \in Seq(Entry) /\ log # << >>
        /\ room.members = MembersAt(log, Len(log)) /\ room.founder = Founder(log)
    BY DEF IInv, Stands, WellFormed
  <1>2. log[1] \in Entry
    BY <1>1
  <1>3. room.founder \in room.members
    BY <1>1, <1>2 DEF MembersAt, Founder, Entry
  <1>5. ASSUME NEW e \in Entry, ReadNext(e)
        PROVE  /\ log' = Append(log, e) /\ e.signer = e.author
               /\ e.op \in Op /\ Authorised(room, e)
               /\ room' = [id |-> room.id, founder |-> room.founder,
                           members |-> MembersAfter(room, e),
                           head |-> Hash(e), length |-> room.length + 1]
    <2>1. log' = Append(log, e) /\ room' = Replay(room, e)
      BY <1>5 DEF ReadNext
    <2>2. e.prev = room.head /\ VerifySignature(e) /\ Authorised(room, e)
      BY <2>1 DEF Replay
    <2> QED
      BY <1>1, <2>1, <2>2, ReplayType DEF VerifySignature, Entry
  <1>6. PICK e \in Incoming : ReadFirst(e) \/ ReadNext(e)
    BY DEF Next
  <1>7. e \in Entry /\ ReadNext(e)
    BY <1>1, <1>6, IncomingType DEF ReadFirst
  <1>8. log'[Len(log')] = e
    BY <1>1, <1>5, <1>7
  <1>9. /\ e.signer = e.author /\ e.op \in Op /\ Authorised(room, e)
        /\ room'.members = MembersAfter(room, e)
        /\ room'.id = room.id /\ room'.founder = room.founder
    BY <1>5, <1>7
  <1>10. CASE e.op.type = "invite"
    BY <1>3, <1>8, <1>9, <1>10 DEF EarnedBy, Authorised, MembersAfter, IsAdmin
  <1>11. CASE e.op.type = "kick"
    BY <1>3, <1>8, <1>9, <1>11 DEF EarnedBy, Authorised, MembersAfter, IsAdmin
  <1>12. CASE e.op.type = "leave"
    BY <1>3, <1>8, <1>9, <1>12 DEF EarnedBy, Authorised, MembersAfter
  <1> QED
    BY <1>9, <1>10, <1>11, <1>12 DEF Authorised

\* Nobody is put into or taken out of a room without the signature that takes,
\* and the founder is always in it, at every turn of the loop.
THEOREM MembershipEarned == Spec => MembershipIsEarned
  <1>1. IInv /\ [Next]_vars =>
          [(room # Rejected /\ room' # Rejected) => EarnedBy(log'[Len(log')])]_vars
    BY EarnedStep
  <1> QED
    BY <1>1, ReplayInvariant, PTL DEF Spec, MembershipIsEarned
=============================================================================
