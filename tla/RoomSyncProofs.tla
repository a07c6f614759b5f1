--------------------------- MODULE RoomSyncProofs ---------------------------
(***************************************************************************)
(* For any number of endpoints, commands, tasks and restarts, with or      *)
(* without a hub: every copy of a log replays, nobody is told of what the  *)
(* hub does not have, memory and disk agree at rest, and a log in memory   *)
(* gets shorter for the named causes only.  These steps leave verify_log   *)
(* closed: none depends on what it accepts.  That whoever is told is a     *)
(* peer does: it rests on what RoomLogProofs shows of verify_log's answers.*)
(***************************************************************************)
EXTENDS RoomSync, RoomLogProofs

Good(log) == log = NoLog \/ VerifyLog(log) # Rejected

\* A task is a record of these five fields.
Shaped(t) == t = [peer |-> t.peer, kind |-> t.kind, pc |-> t.pc, log |-> t.log, notify |-> t.notify]

\* What every task knows, whatever others do.  The last two conjuncts: what it
\* took from the hub, or from a frame when all have a hub, the hub has.
TaskOK(t) ==
    /\ Shaped(t) /\ t.log \in Log /\ Good(t.log)
    /\ t.kind \in {"append", "absorb", "fetch"}
    /\ t.pc \in {"publish", "notify"} => t.kind = "append"
    /\ t.pc = "get" => t.kind = "fetch"
    /\ t.kind = "append" => t.peer \in Peer
    /\ t.kind = "fetch" => t.peer \in withHub
    /\ t.pc = "notify" /\ t.peer \in withHub => Len(hub) >= Len(t.log)
    /\ t.kind # "append" /\ withHub = Peer => Len(hub) >= Len(t.log)

FrameOK(m) ==
    /\ m.log \in Log /\ Good(m.log) /\ m.from \in Peer
    /\ m.from \in withHub => Len(hub) >= Len(m.log)

Shared ==
    /\ withHub \subseteq Peer /\ hub \in Log /\ Good(hub)
    /\ disk \in [Peer -> Log] /\ mem \in [Peer -> Log]
    /\ \A p \in Peer : Good(disk[p]) /\ Good(mem[p])
    /\ \A t \in tasks : TaskOK(t)
    /\ \A m \in net : FrameOK(m)

Publishing(p) == \E t \in TasksOf(p) : t.pc = "publish"
Calm == cut = {} /\ ~Mixed

\* What an endpoint that never ran two tasks at once knows of its one task.
PeerOK(p) ==
    /\ \A t, u \in TasksOf(p) : t = u
    /\ TasksOf(p) = {} => mem[p] = disk[p]
    /\ \A t \in TasksOf(p) :
         /\ disk[p] = IF t.pc = "show" THEN t.log ELSE mem[p]
         /\ t.pc = "publish" => mem[p] = t.log
         /\ Calm /\ t.pc \in {"save", "show"} => Len(t.log) >= Len(mem[p])
    /\ Calm /\ withHub = Peer /\ ~Publishing(p) => Len(hub) >= Len(mem[p])

RoomInv == Shared /\ \A p \in Peer \ raced : PeerOK(p)

-----------------------------------------------------------------------------
(* Facts about logs and tasks.                                             *)

LEMMA LogLength == \A log \in Log : Len(log) \in Nat /\ (Len(log) = 0 <=> log = NoLog)
BY DEF Log, NoLog

LEMMA AppendLog ==
    ASSUME NEW log \in Log, NEW p \in Peer, NEW op \in Op
    PROVE  /\ Append(log, NewEntry(p, HeadHash(log), op)) \in Log
           /\ Len(Append(log, NewEntry(p, HeadHash(log), op))) = Len(log) + 1
<1>1. log \in Seq(Entry)
  BY DEF Log
<1>2. HeadHash(log) \in ChainHash
  <2>1. CASE log = NoLog
    BY <2>1 DEF HeadHash, Genesis, ChainHash
  <2>2. CASE log # NoLog
    <3>1. log[Len(log)] \in Entry
      BY <1>1, <2>2 DEF NoLog
    <3>2. Hash(log[Len(log)]) \in ChainHash
      <4> DEFINE e == log[Len(log)]
      <4>1. e.prev \in Seq(Link) /\ [author |-> e.author, op |-> e.op, signer |-> e.signer] \in Link
        BY <3>1 DEF Entry, Link, ChainHash
      <4> QED
        BY <4>1 DEF Hash, ChainHash
    <3> QED
      BY <2>2, <3>2 DEF HeadHash
  <2> QED
    BY <2>1, <2>2
<1>3. NewEntry(p, HeadHash(log), op) \in Entry
  BY <1>2 DEF NewEntry, Entry
<1> HIDE DEF Entry
<1> QED
  BY <1>1, <1>3 DEF Log

LEMMA NextIs ==
    ASSUME NEW t, Shaped(t), NEW pc, NEW u, u = [t EXCEPT !.pc = pc]
    PROVE  /\ Shaped(u) /\ u.pc = pc
           /\ u.peer = t.peer /\ u.kind = t.kind /\ u.log = t.log /\ u.notify = t.notify
BY DEF Shaped

LEMMA NextPc ==
    ASSUME NEW t, Shaped(t), NEW pc
    PROVE  LET u == [t EXCEPT !.pc = pc] IN
           /\ Shaped(u) /\ u.pc = pc
           /\ u.peer = t.peer /\ u.kind = t.kind /\ u.log = t.log /\ u.notify = t.notify
<1> DEFINE u == [t EXCEPT !.pc = pc]
<1>1. t = [peer |-> t.peer, kind |-> t.kind, pc |-> t.pc, log |-> t.log, notify |-> t.notify]
  BY DEF Shaped
<1>2. u = [peer |-> t.peer, kind |-> t.kind, pc |-> pc, log |-> t.log, notify |-> t.notify]
  BY <1>1
<1> HIDE DEF u
<1> QED
  BY <1>2 DEF Shaped

\* As long as the hub does not lose anything, old tasks and frames are fine.
Grown == withHub' = withHub /\ hub' \in Log /\ Len(hub') >= Len(hub)

LEMMA OldStay ==
    ASSUME Shared, Grown
    PROVE  /\ \A t : TaskOK(t) => TaskOK(t)'
           /\ \A m : FrameOK(m) => FrameOK(m)'
<1>1. Len(hub) \in Nat /\ Len(hub') \in Nat
  BY LogLength DEF Shared, Grown
<1>2. ASSUME NEW t, TaskOK(t) PROVE TaskOK(t)'
  <2>1. t.log \in Log
    BY <1>2 DEF TaskOK
  <2>2. Len(t.log) \in Nat
    BY <2>1, LogLength
  <2> QED
    BY <1>1, <1>2, <2>2 DEF TaskOK, Grown
<1>3. ASSUME NEW m, FrameOK(m) PROVE FrameOK(m)'
  <2>1. m.log \in Log
    BY <1>3 DEF FrameOK
  <2>2. Len(m.log) \in Nat
    BY <2>1, LogLength
  <2> QED
    BY <1>1, <1>3, <2>2 DEF FrameOK, Grown
<1> QED
  BY <1>2, <1>3

\* An endpoint a step does not touch.
LEMMA PeerStays ==
    ASSUME Shared, Grown, NEW p \in Peer, PeerOK(p),
           TasksOf(p)' = TasksOf(p), disk'[p] = disk[p], mem'[p] = mem[p], cut \subseteq cut'
    PROVE  PeerOK(p)'
<1>1. Len(hub) \in Nat /\ Len(hub') \in Nat /\ Len(mem[p]) \in Nat
  BY LogLength DEF Shared, Grown
<1>2. Calm' => Calm
  BY DEF Calm, Mixed, Grown
<1>3. Publishing(p)' <=> Publishing(p)
  BY DEF Publishing
<1> QED
  BY <1>1, <1>2, <1>3 DEF PeerOK, Grown

\* An endpoint with a single task.
LEMMA PeerWithTask ==
    ASSUME NEW p, NEW u, TasksOf(p)' = {u},
           disk'[p] = IF u.pc = "show" THEN u.log ELSE mem'[p],
           u.pc = "publish" => mem'[p] = u.log,
           Calm' /\ u.pc \in {"save", "show"} => Len(u.log) >= Len(mem'[p]),
           Calm' /\ withHub' = Peer /\ u.pc # "publish" => Len(hub') >= Len(mem'[p])
    PROVE  PeerOK(p)'
<1>1. ~Publishing(p)' => u.pc # "publish"
  BY DEF Publishing
<1> QED
  BY <1>1 DEF PeerOK

\* An endpoint with none.
LEMMA PeerAtRest ==
    ASSUME NEW p, TasksOf(p)' = {}, mem'[p] = disk'[p],
           Calm' /\ withHub' = Peer => Len(hub') >= Len(mem'[p])
    PROVE  PeerOK(p)'
BY DEF PeerOK

LEMMA Alone ==
    ASSUME NEW t \in tasks, PeerOK(t.peer)
    PROVE  TasksOf(t.peer) = {t}
BY DEF PeerOK, TasksOf

LEMMA TasksContinue ==
    ASSUME NEW t \in tasks, NEW u, u.peer = t.peer, Continue(t, u)
    PROVE  /\ \A q : q # t.peer => TasksOf(q)' = TasksOf(q)
           /\ TasksOf(t.peer) = {t} => TasksOf(t.peer)' = {u}
           /\ \A v \in tasks' : v \in tasks \/ v = u
BY DEF Continue, TasksOf

LEMMA TasksEnd ==
    ASSUME NEW t \in tasks, End(t)
    PROVE  /\ \A q : q # t.peer => TasksOf(q)' = TasksOf(q)
           /\ TasksOf(t.peer) = {t} => TasksOf(t.peer)' = {}
           /\ tasks' \subseteq tasks
BY DEF End, TasksOf

LEMMA TasksBegin ==
    ASSUME NEW t, Begin(t)
    PROVE  /\ \A q : q # t.peer => TasksOf(q)' = TasksOf(q)
           /\ raced \subseteq raced'
           /\ t.peer \notin raced' => TasksOf(t.peer) = {} /\ TasksOf(t.peer)' = {t}
           /\ \A v \in tasks' : v \in tasks \/ v = t
<1>1. tasks' = tasks \cup {t}
  BY DEF Begin
<1>2. /\ raced \subseteq raced'
      /\ t.peer \notin raced' => TasksOf(t.peer) = {}
  BY DEF Begin
<1> QED
  BY <1>1, <1>2 DEF TasksOf

\* A step of one endpoint q leaves the rest as it is.
LEMMA StepOfOne ==
    ASSUME RoomInv, Grown, Good(hub'), NEW q,
           disk' \in [Peer -> Log], mem' \in [Peer -> Log],
           \A p \in Peer : Good(disk'[p]) /\ Good(mem'[p]),
           \A p \in Peer : p # q => /\ TasksOf(p)' = TasksOf(p)
                                    /\ disk'[p] = disk[p] /\ mem'[p] = mem[p],
           cut \subseteq cut', raced \subseteq raced',
           \A v \in tasks' : v \in tasks \/ TaskOK(v)',
           \A m \in net' : m \in net \/ FrameOK(m)',
           q \in Peer \ raced' => PeerOK(q)'
    PROVE  RoomInv'
<1>1. \A v \in tasks' : TaskOK(v)'
  BY OldStay DEF RoomInv, Shared
<1>2. \A m \in net' : FrameOK(m)'
  BY OldStay DEF RoomInv, Shared
<1>3. Shared'
  BY <1>1, <1>2 DEF RoomInv, Shared, Grown
<1>4. ASSUME NEW p \in Peer \ raced' PROVE PeerOK(p)'
  <2>1. CASE p = q
    BY <2>1, <1>4
  <2>2. CASE p # q
    <3>1. PeerOK(p) /\ Shared
      BY <1>4 DEF RoomInv
    <3> QED
      BY <2>2, <3>1, <1>4, PeerStays
  <2> QED
    BY <2>1, <2>2
<1> QED
  BY <1>3, <1>4 DEF RoomInv

-----------------------------------------------------------------------------
(* append.                                                                 *)

LEMMA StartAppendKeeps ==
    ASSUME RoomInv, NEW p \in Peer, NEW op \in Op, StartAppend(p, op)
    PROVE  RoomInv'
<1>1. PICK log, t :
        /\ log = Append(disk[p], NewEntry(p, HeadHash(disk[p]), op))
        /\ t = [peer |-> p, kind |-> "append", pc |-> "save", log |-> log,
                notify |-> (Members(disk[p]) \cup Members(log)) \ {p}]
        /\ VerifyLog(log) # Rejected /\ Begin(t)
        /\ UNCHANGED <<withHub, copies, net, cut, crashes>>
  BY DEF StartAppend
<1>2. disk[p] \in Log /\ Len(disk[p]) \in Nat
  BY LogLength DEF RoomInv, Shared
<1>3. log \in Log /\ Len(log) = Len(disk[p]) + 1
  BY <1>1, <1>2, AppendLog
<1>4. /\ t.peer = p /\ t.kind = "append" /\ t.pc = "save" /\ t.log = log
      /\ Shaped(t)
  <2>1. t = [peer |-> p, kind |-> "append", pc |-> "save", log |-> log,
             notify |-> (Members(disk[p]) \cup Members(log)) \ {p}]
    BY <1>1
  <2> QED
    BY ONLY <2>1 DEF Shaped
<1>5. Grown
  BY <1>1, LogLength DEF Grown, copies, RoomInv, Shared
<1>6. TaskOK(t)'
  BY <1>1, <1>3, <1>4 DEF TaskOK, Good
<1>7. ASSUME p \in Peer \ raced' PROVE PeerOK(p)'
  <2>1. TasksOf(p) = {} /\ TasksOf(p)' = {t} /\ PeerOK(p)
    BY <1>1, <1>4, <1>7, TasksBegin DEF RoomInv
  <2>2. mem[p] = disk[p]
    BY <2>1 DEF PeerOK
  <2>3. Calm' /\ withHub' = Peer => Len(hub') >= Len(mem'[p])
    BY <1>1, <2>1 DEF PeerOK, Calm, Mixed, Publishing, copies
  <2>4. disk'[p] = mem'[p] /\ Len(t.log) >= Len(mem'[p])
    BY <1>1, <1>2, <1>3, <1>4, <2>2 DEF copies
  <2> QED
    BY <1>4, <2>1, <2>3, <2>4, PeerWithTask
<1> QED
  <2>1. /\ \A q : q # p => TasksOf(q)' = TasksOf(q)
        /\ raced \subseteq raced'
        /\ \A v \in tasks' : v \in tasks \/ v = t
    BY <1>1, <1>4, TasksBegin
  <2>2. /\ Good(hub') /\ disk' \in [Peer -> Log] /\ mem' \in [Peer -> Log]
        /\ \A q \in Peer : Good(disk'[q]) /\ Good(mem'[q])
        /\ cut' = cut /\ net' = net /\ disk' = disk /\ mem' = mem
    BY <1>1 DEF copies, RoomInv, Shared
  <2> QED
    BY <1>5, <1>6, <1>7, <2>1, <2>2, StepOfOne

\* The step a task takes on: what Shared says of it.
LEMMA TaskIs ==
    ASSUME RoomInv, NEW t \in tasks
    PROVE  /\ TaskOK(t) /\ Len(t.log) \in Nat /\ Len(hub) \in Nat
           /\ \A p \in Peer : Len(mem[p]) \in Nat
           /\ t.peer \in Peer \ raced => PeerOK(t.peer) /\ TasksOf(t.peer) = {t}
<1>1. TaskOK(t)
  BY DEF RoomInv, Shared
<1>2. Len(t.log) \in Nat
  BY <1>1, LogLength DEF TaskOK
<1>3. Len(hub) \in Nat /\ \A p \in Peer : Len(mem[p]) \in Nat
  BY LogLength DEF RoomInv, Shared
<1> QED
  BY <1>1, <1>2, <1>3, Alone DEF RoomInv

\* put_room, taken: the hub has what the endpoint shows.
LEMMA PublishKeeps ==
    ASSUME RoomInv, NEW t \in tasks, Publish(t)
    PROVE  RoomInv'
<1> DEFINE u == [t EXCEPT !.pc = "notify"]
<1>1. /\ t.pc = "publish" /\ Len(t.log) > Len(hub) /\ hub' = t.log /\ Continue(t, u)
      /\ UNCHANGED <<withHub, disk, mem, net, cut, raced, counts>>
  BY DEF Publish
<1>2. TaskOK(t) /\ Len(t.log) \in Nat /\ Len(hub) \in Nat
  BY TaskIs
<1>3. /\ Shaped(u) /\ u.pc = "notify" /\ u.peer = t.peer
      /\ u.kind = t.kind /\ u.log = t.log
  BY <1>2, NextPc, SMTT(30) DEF TaskOK
<1> HIDE DEF u
<1>4. Grown /\ Good(hub')
  BY <1>1, <1>2 DEF Grown, TaskOK
<1>5. TaskOK(u)'
  BY <1>1, <1>2, <1>3 DEF TaskOK
<1>6. ASSUME t.peer \in Peer \ raced' PROVE PeerOK(t.peer)'
  <2>1. PeerOK(t.peer) /\ TasksOf(t.peer) = {t}
    BY <1>1, <1>6, TaskIs
  <2>2. TasksOf(t.peer)' = {u}
    BY <1>1, <1>3, <2>1, TasksContinue
  <2>3. disk[t.peer] = mem[t.peer] /\ mem[t.peer] = t.log
    BY <1>1, <2>1 DEF PeerOK
  <2>4. Len(hub') >= Len(mem'[t.peer])
    BY <1>1, <1>2, <2>3
  <2> QED
    BY <1>1, <1>3, <2>2, <2>3, <2>4, PeerWithTask
<1> QED
  <2>1. /\ \A q : q # t.peer => TasksOf(q)' = TasksOf(q)
        /\ \A v \in tasks' : v \in tasks \/ v = u
    BY <1>1, <1>3, TasksContinue
  <2>2. /\ disk' \in [Peer -> Log] /\ mem' \in [Peer -> Log]
        /\ \A q \in Peer : Good(disk'[q]) /\ Good(mem'[q])
        /\ cut' = cut /\ net' = net /\ disk' = disk /\ mem' = mem
        /\ raced \subseteq raced'
    BY <1>1 DEF RoomInv, Shared
  <2> QED
    BY <1>4, <1>5, <1>6, <2>1, <2>2, StepOfOne

\* An append that ends early: cut is set, and the hub has lost nothing.
LEMMA CutShort ==
    ASSUME RoomInv, NEW t \in tasks, t.pc = "publish", End(t), cut' = cut \cup {t.log},
           hub' \in {hub, IF Len(t.log) > Len(hub) THEN t.log ELSE hub},
           UNCHANGED <<withHub, disk, mem, net, raced>>
    PROVE  RoomInv'
<1>1. TaskOK(t) /\ Len(t.log) \in Nat /\ Len(hub) \in Nat
  BY TaskIs
<1>2. Grown /\ Good(hub')
  BY <1>1 DEF Grown, TaskOK, RoomInv, Shared
<1>3. ASSUME t.peer \in Peer \ raced' PROVE PeerOK(t.peer)'
  <2>1. PeerOK(t.peer) /\ TasksOf(t.peer) = {t}
    BY <1>3, TaskIs
  <2>2. TasksOf(t.peer)' = {}
    BY <2>1, TasksEnd
  <2>3. disk'[t.peer] = mem'[t.peer]
    BY <2>1 DEF PeerOK
  <2>4. ~Calm'
    BY DEF Calm
  <2> QED
    BY <2>2, <2>3, <2>4, PeerAtRest
<1> QED
  <2>1. (\A q : q # t.peer => TasksOf(q)' = TasksOf(q)) /\ tasks' \subseteq tasks
    BY TasksEnd
  <2>2. /\ disk' \in [Peer -> Log] /\ mem' \in [Peer -> Log]
        /\ \A q \in Peer : Good(disk'[q]) /\ Good(mem'[q])
    BY DEF RoomInv, Shared
  <2> QED
    BY <1>2, <1>3, <2>1, <2>2, StepOfOne

LEMMA PublishRefusedKeeps ==
    ASSUME RoomInv, NEW t \in tasks, PublishRefused(t)
    PROVE  RoomInv'
BY CutShort DEF PublishRefused, copies

LEMMA PublishFailsKeeps ==
    ASSUME RoomInv, NEW t \in tasks, PublishFails(t)
    PROVE  RoomInv'
BY CutShort DEF PublishFails

\* The frames that go out carry what the hub has.
LEMMA NotifyKeeps ==
    ASSUME RoomInv, NEW t \in tasks, Notify(t)
    PROVE  RoomInv'
<1>1. /\ t.pc = "notify" /\ End(t) /\ UNCHANGED <<withHub, copies, cut, raced, counts>>
      /\ net' = net \cup {[from |-> t.peer, to |-> q, log |-> t.log] : q \in t.notify}
  BY DEF Notify
<1>2. TaskOK(t) /\ Len(t.log) \in Nat /\ Len(hub) \in Nat
  BY TaskIs
<1>3. Grown /\ Good(hub')
  BY <1>1, <1>2 DEF Grown, RoomInv, Shared, copies
<1>4. ASSUME NEW m \in net' PROVE m \in net \/ FrameOK(m)'
  <2>1. SUFFICES ASSUME m \notin net PROVE FrameOK(m)'
    OBVIOUS
  <2>2. PICK q \in t.notify : m = [from |-> t.peer, to |-> q, log |-> t.log]
    BY <1>1, <1>4, <2>1
  <2>3. m.from = t.peer /\ m.log = t.log
    BY <2>2
  <2> QED
    BY <1>1, <1>2, <2>3 DEF FrameOK, TaskOK, copies
<1>5. ASSUME t.peer \in Peer \ raced' PROVE PeerOK(t.peer)'
  <2>1. PeerOK(t.peer) /\ TasksOf(t.peer) = {t}
    BY <1>1, <1>5, TaskIs
  <2>2. TasksOf(t.peer)' = {}
    BY <1>1, <2>1, TasksEnd
  <2>3. disk[t.peer] = mem[t.peer]
    BY <1>1, <2>1 DEF PeerOK
  <2>4. Calm' /\ withHub' = Peer => Len(hub') >= Len(mem'[t.peer])
    BY <1>1, <2>1 DEF PeerOK, Calm, Mixed, Publishing, copies
  <2> QED
    BY <1>1, <2>2, <2>3, <2>4, PeerAtRest DEF copies
<1> QED
  <2>1. (\A q : q # t.peer => TasksOf(q)' = TasksOf(q)) /\ tasks' \subseteq tasks
    BY <1>1, TasksEnd
  <2>2. /\ disk' \in [Peer -> Log] /\ mem' \in [Peer -> Log]
        /\ \A q \in Peer : Good(disk'[q]) /\ Good(mem'[q])
        /\ cut' = cut /\ disk' = disk /\ mem' = mem
        /\ raced \subseteq raced'
    BY <1>1 DEF RoomInv, Shared, copies
  <2> QED
    BY <1>3, <1>4, <1>5, <2>1, <2>2, StepOfOne

-----------------------------------------------------------------------------
(* absorb_room and fetch_room.                                             *)

LEMMA StartAbsorbKeeps ==
    ASSUME RoomInv, NEW m \in net, StartAbsorb(m)
    PROVE  RoomInv'
<1>1. PICK t :
        /\ t = [peer |-> m.to, kind |-> "absorb", pc |-> "save", log |-> m.log, notify |-> {}]
        /\ Begin(t)
        /\ UNCHANGED <<withHub, copies, cut, crashes>>
  BY DEF StartAbsorb, counts
<1>2. net' \subseteq net /\ Len(m.log) > Len(mem[m.to])
  BY DEF StartAbsorb, Acceptable
<1>3. /\ t.peer = m.to /\ t.kind = "absorb" /\ t.pc = "save" /\ t.log = m.log
      /\ Shaped(t)
  <2>1. t = [peer |-> m.to, kind |-> "absorb", pc |-> "save", log |-> m.log, notify |-> {}]
    BY <1>1
  <2> QED
    BY ONLY <2>1 DEF Shaped
<1>4. FrameOK(m) /\ Len(m.log) \in Nat /\ Len(hub) \in Nat
  BY LogLength DEF RoomInv, Shared, FrameOK
<1>5. Grown /\ Good(hub')
  BY <1>1, <1>4 DEF Grown, copies, RoomInv, Shared
<1>6. TaskOK(t)'
  BY <1>1, <1>3, <1>4 DEF TaskOK, FrameOK, copies
<1>7. ASSUME m.to \in Peer \ raced' PROVE PeerOK(m.to)'
  <2>1. TasksOf(m.to) = {} /\ TasksOf(m.to)' = {t} /\ PeerOK(m.to)
    BY <1>1, <1>3, <1>7, TasksBegin DEF RoomInv
  <2>2. mem[m.to] = disk[m.to] /\ Len(mem[m.to]) \in Nat
    BY <1>7, <2>1, LogLength DEF PeerOK, RoomInv, Shared
  <2>3. Calm' /\ withHub' = Peer => Len(hub') >= Len(mem'[m.to])
    BY <1>1, <2>1 DEF PeerOK, Calm, Mixed, Publishing, copies
  <2>4. disk'[m.to] = mem'[m.to] /\ Len(t.log) >= Len(mem'[m.to])
    BY <1>1, <1>2, <1>3, <1>4, <2>2 DEF copies
  <2> QED
    BY <1>3, <2>1, <2>3, <2>4, PeerWithTask
<1> QED
  <2>1. /\ \A q : q # m.to => TasksOf(q)' = TasksOf(q)
        /\ raced \subseteq raced'
        /\ \A v \in tasks' : v \in tasks \/ v = t
    BY <1>1, <1>3, TasksBegin
  <2>2. /\ disk' \in [Peer -> Log] /\ mem' \in [Peer -> Log]
        /\ \A q \in Peer : Good(disk'[q]) /\ Good(mem'[q])
        /\ cut' = cut /\ disk' = disk /\ mem' = mem
    BY <1>1 DEF copies, RoomInv, Shared
  <2> QED
    BY <1>2, <1>5, <1>6, <1>7, <2>1, <2>2, StepOfOne

\* A frame that goes away changes no copy.
LEMMA FrameGone ==
    ASSUME RoomInv, NEW m \in net, net' = net \ {m},
           UNCHANGED <<withHub, copies, tasks, cut, raced, counts>>
    PROVE  RoomInv'
<1>1. Grown /\ Good(hub')
  BY LogLength DEF Grown, copies, RoomInv, Shared
<1>2. \A q : TasksOf(q)' = TasksOf(q)
  BY DEF TasksOf
<1>3. ASSUME m.to \in Peer \ raced' PROVE PeerOK(m.to)'
  <2>1. PeerOK(m.to) /\ Shared
    BY <1>3 DEF RoomInv
  <2> QED
    BY <1>1, <1>2, <1>3, <2>1, PeerStays DEF copies
<1> QED
  <2>1. /\ disk' \in [Peer -> Log] /\ mem' \in [Peer -> Log]
        /\ \A q \in Peer : Good(disk'[q]) /\ Good(mem'[q])
        /\ cut' = cut /\ disk' = disk /\ mem' = mem
        /\ raced \subseteq raced' /\ tasks' = tasks /\ net' \subseteq net
    BY DEF copies, RoomInv, Shared
  <2> QED
    BY <1>1, <1>2, <1>3, <2>1, StepOfOne

LEMMA IgnoreUpdateKeeps ==
    ASSUME RoomInv, NEW m \in net, IgnoreUpdate(m)
    PROVE  RoomInv'
BY FrameGone DEF IgnoreUpdate

LEMMA LoseUpdateKeeps ==
    ASSUME RoomInv, NEW m \in net, LoseUpdate(m)
    PROVE  RoomInv'
BY FrameGone DEF LoseUpdate

LEMMA FetchTaskIs ==
    ASSUME NEW p
    PROVE  /\ Shaped(FetchTask(p)) /\ FetchTask(p).peer = p /\ FetchTask(p).kind = "fetch"
           /\ FetchTask(p).pc = "get" /\ FetchTask(p).log = NoLog
BY DEF FetchTask, Shaped

LEMMA FetchTaskOK ==
    ASSUME RoomInv, NEW p \in withHub, withHub' = withHub, hub' = hub
    PROVE  TaskOK(FetchTask(p))'
<1>1. NoLog \in Log /\ Len(NoLog) = 0 /\ Len(hub) \in Nat
  BY LogLength DEF Log, NoLog, RoomInv, Shared
<1> QED
  BY <1>1, FetchTaskIs DEF TaskOK, Good

LEMMA StartFetchKeeps ==
    ASSUME RoomInv, NEW p \in Peer, StartFetch(p)
    PROVE  RoomInv'
<1>1. /\ p \in withHub /\ Begin(FetchTask(p))
      /\ UNCHANGED <<withHub, copies, net, cut, counts>>
  BY DEF StartFetch
<1>2. Grown /\ Good(hub')
  BY <1>1, LogLength DEF Grown, copies, RoomInv, Shared
<1>3. TaskOK(FetchTask(p))'
  BY <1>1, FetchTaskOK DEF copies
<1>4. ASSUME p \in Peer \ raced' PROVE PeerOK(p)'
  <2>1. TasksOf(p) = {} /\ TasksOf(p)' = {FetchTask(p)} /\ PeerOK(p)
    BY <1>1, <1>4, FetchTaskIs, TasksBegin DEF RoomInv
  <2>2. mem'[p] = disk'[p]
    BY <1>1, <2>1 DEF PeerOK, copies
  <2>3. Calm' /\ withHub' = Peer => Len(hub') >= Len(mem'[p])
    BY <1>1, <2>1 DEF PeerOK, Calm, Mixed, Publishing, copies
  <2> QED
    BY <2>1, <2>2, <2>3, FetchTaskIs, PeerWithTask
<1> QED
  <2>1. /\ \A q : q # p => TasksOf(q)' = TasksOf(q)
        /\ raced \subseteq raced'
        /\ \A v \in tasks' : v \in tasks \/ v = FetchTask(p)
    BY <1>1, FetchTaskIs, TasksBegin
  <2>2. /\ disk' \in [Peer -> Log] /\ mem' \in [Peer -> Log]
        /\ \A q \in Peer : Good(disk'[q]) /\ Good(mem'[q])
        /\ cut' = cut /\ disk' = disk /\ mem' = mem /\ net' = net
    BY <1>1 DEF copies, RoomInv, Shared
  <2> QED
    BY <1>2, <1>3, <1>4, <2>1, <2>2, StepOfOne

\* A fetch that comes to nothing.
LEMMA FetchEnds ==
    ASSUME RoomInv, NEW t \in tasks, t.pc = "get", End(t),
           UNCHANGED <<withHub, copies, net, cut, raced, counts>>
    PROVE  RoomInv'
<1>1. Grown /\ Good(hub')
  BY LogLength DEF Grown, copies, RoomInv, Shared
<1>2. ASSUME t.peer \in Peer \ raced' PROVE PeerOK(t.peer)'
  <2>1. PeerOK(t.peer) /\ TasksOf(t.peer) = {t}
    BY <1>2, TaskIs
  <2>2. TasksOf(t.peer)' = {}
    BY <2>1, TasksEnd
  <2>3. disk'[t.peer] = mem'[t.peer]
    BY <2>1 DEF PeerOK, copies
  <2>4. Calm' /\ withHub' = Peer => Len(hub') >= Len(mem'[t.peer])
    BY <2>1 DEF PeerOK, Calm, Mixed, Publishing, copies
  <2> QED
    BY <2>2, <2>3, <2>4, PeerAtRest
<1> QED
  <2>1. (\A q : q # t.peer => TasksOf(q)' = TasksOf(q)) /\ tasks' \subseteq tasks
    BY TasksEnd
  <2>2. /\ disk' \in [Peer -> Log] /\ mem' \in [Peer -> Log]
        /\ \A q \in Peer : Good(disk'[q]) /\ Good(mem'[q])
        /\ cut' = cut /\ disk' = disk /\ mem' = mem /\ net' = net
        /\ raced \subseteq raced'
    BY DEF copies, RoomInv, Shared
  <2> QED
    BY <1>1, <1>2, <2>1, <2>2, StepOfOne

LEMMA GetFailsKeeps ==
    ASSUME RoomInv, NEW t \in tasks, GetFails(t)
    PROVE  RoomInv'
BY FetchEnds DEF GetFails

\* What the hub has is at least what this endpoint shows.
LEMMA GetKeeps ==
    ASSUME RoomInv, NEW t \in tasks, Get(t)
    PROVE  RoomInv'
<1>1. CASE End(t)
  BY <1>1, FetchEnds DEF Get
<1>2. CASE ~End(t)
  <2>1. PICK h, v :
          /\ h = hub /\ v = [t EXCEPT !.pc = "save", !.log = h] /\ Continue(t, v)
          /\ t.pc = "get" /\ UNCHANGED <<withHub, copies, net, cut, raced, counts>>
    BY <1>2 DEF Get
  <2>2. TaskOK(t) /\ Len(t.log) \in Nat /\ Len(hub) \in Nat /\ hub \in Log /\ Good(hub)
    BY TaskIs DEF RoomInv, Shared
  <2>3. /\ Shaped(v) /\ v.pc = "save" /\ v.peer = t.peer
        /\ v.kind = t.kind /\ v.log = hub
    <3>1. t = [peer |-> t.peer, kind |-> t.kind, pc |-> t.pc, log |-> t.log, notify |-> t.notify]
      BY <2>2 DEF TaskOK, Shaped
    <3>2. v = [t EXCEPT !.pc = "save", !.log = h]
      BY <2>1
    <3>3. v = [peer |-> t.peer, kind |-> t.kind, pc |-> "save", log |-> h, notify |-> t.notify]
      BY ONLY <3>1, <3>2
    <3>4. /\ Shaped(v) /\ v.pc = "save" /\ v.log = h
          /\ v.peer = t.peer /\ v.kind = t.kind
      BY ONLY <3>3 DEF Shaped
    <3> QED
      BY <2>1, <3>4
  <2>4. t.kind = "fetch" /\ t.peer \in withHub /\ t.peer \in Peer
    BY <2>1, <2>2 DEF TaskOK, RoomInv, Shared
  <2>5. Grown /\ Good(hub')
    BY <2>1, <2>2 DEF Grown, copies
  <2>6. TaskOK(v)'
    BY <2>1, <2>2, <2>3, <2>4 DEF TaskOK, copies
  <2>7. ASSUME t.peer \in Peer \ raced' PROVE PeerOK(t.peer)'
    <3>1. PeerOK(t.peer) /\ TasksOf(t.peer) = {t}
      BY <2>1, <2>7, TaskIs
    <3>2. TasksOf(t.peer)' = {v}
      BY <2>1, <2>3, <3>1, TasksContinue
    <3>3. disk'[t.peer] = mem'[t.peer]
      BY <2>1, <3>1 DEF PeerOK, copies
    <3>4. Calm' => Len(hub') >= Len(mem'[t.peer])
      BY <2>1, <2>4, <3>1 DEF PeerOK, Calm, Mixed, Publishing, copies
    <3>5. v.log = hub'
      BY <2>1, <2>3 DEF copies
    <3> QED
      BY <2>3, <3>2, <3>3, <3>4, <3>5, PeerWithTask
  <2> QED
    <3>1. /\ \A q : q # t.peer => TasksOf(q)' = TasksOf(q)
          /\ \A w \in tasks' : w \in tasks \/ w = v
      BY <2>1, <2>3, TasksContinue
    <3>2. /\ disk' \in [Peer -> Log] /\ mem' \in [Peer -> Log]
          /\ \A q \in Peer : Good(disk'[q]) /\ Good(mem'[q])
          /\ cut' = cut /\ disk' = disk /\ mem' = mem /\ net' = net
          /\ raced \subseteq raced'
      BY <2>1 DEF copies, RoomInv, Shared
    <3> QED
      BY <2>5, <2>6, <2>7, <3>1, <3>2, StepOfOne
<1> QED
  BY <1>1, <1>2

-----------------------------------------------------------------------------
(* What all three end with, and a restart.                                 *)

LEMMA SaveKeeps ==
    ASSUME RoomInv, NEW t \in tasks, Save(t)
    PROVE  RoomInv'
<1> DEFINE u == [t EXCEPT !.pc = "show"]
<1>1. /\ t.pc = "save" /\ disk' = [disk EXCEPT ![t.peer] = t.log] /\ Continue(t, u)
      /\ UNCHANGED <<withHub, hub, mem, net, cut, raced, counts>>
  BY DEF Save
<1>2. TaskOK(t) /\ Len(t.log) \in Nat /\ Len(hub) \in Nat
  BY TaskIs
<1>3. /\ Shaped(u) /\ u.pc = "show" /\ u.peer = t.peer
      /\ u.kind = t.kind /\ u.log = t.log
  BY <1>2, NextPc, SMTT(30) DEF TaskOK
<1> HIDE DEF u
<1>4. Grown /\ Good(hub')
  BY <1>1, <1>2 DEF Grown, RoomInv, Shared
<1>5. TaskOK(u)'
  BY <1>1, <1>2, <1>3 DEF TaskOK
<1>6. /\ disk' \in [Peer -> Log]
      /\ \A q \in Peer : disk'[q] = IF q = t.peer THEN t.log ELSE disk[q]
  BY <1>1, <1>2 DEF TaskOK, RoomInv, Shared
<1>7. ASSUME t.peer \in Peer \ raced' PROVE PeerOK(t.peer)'
  <2>1. PeerOK(t.peer) /\ TasksOf(t.peer) = {t}
    BY <1>1, <1>7, TaskIs
  <2>2. TasksOf(t.peer)' = {u}
    BY <1>1, <1>3, <2>1, TasksContinue
  <2>3. disk'[t.peer] = u.log
    BY <1>3, <1>6, <1>7
  <2>4. Calm' => Len(u.log) >= Len(mem'[t.peer])
    BY <1>1, <1>3, <2>1 DEF PeerOK, Calm, Mixed
  <2>5. Calm' /\ withHub' = Peer => Len(hub') >= Len(mem'[t.peer])
    BY <1>1, <2>1 DEF PeerOK, Calm, Mixed, Publishing
  <2> QED
    BY <1>3, <2>2, <2>3, <2>4, <2>5, PeerWithTask
<1> QED
  <2>1. /\ \A q : q # t.peer => TasksOf(q)' = TasksOf(q)
        /\ \A v \in tasks' : v \in tasks \/ v = u
    BY <1>1, <1>3, TasksContinue
  <2>2. /\ mem' \in [Peer -> Log] /\ mem' = mem
        /\ \A q \in Peer : Good(disk'[q]) /\ Good(mem'[q])
        /\ cut' = cut /\ net' = net /\ raced \subseteq raced'
    BY <1>1, <1>2, <1>6 DEF TaskOK, RoomInv, Shared
  <2> QED
    BY <1>4, <1>5, <1>6, <1>7, <2>1, <2>2, StepOfOne

\* Before the members are told of it, the hub gets what an append shows.
LEMMA ShowKeeps ==
    ASSUME RoomInv, NEW t \in tasks, Show(t)
    PROVE  RoomInv'
<1>1. /\ t.pc = "show" /\ mem' = [mem EXCEPT ![t.peer] = t.log]
      /\ UNCHANGED <<withHub, hub, disk, net, cut, raced, counts>>
  BY DEF Show
<1>2. TaskOK(t) /\ Len(t.log) \in Nat /\ Len(hub) \in Nat
  BY TaskIs
<1>3. Grown /\ Good(hub')
  BY <1>1, <1>2 DEF Grown, RoomInv, Shared
<1>4. /\ mem' \in [Peer -> Log]
      /\ \A q \in Peer : mem'[q] = IF q = t.peer THEN t.log ELSE mem[q]
  BY <1>1, <1>2 DEF TaskOK, RoomInv, Shared
<1>5. /\ disk' \in [Peer -> Log] /\ disk' = disk
      /\ \A q \in Peer : Good(disk'[q]) /\ Good(mem'[q])
      /\ cut' = cut /\ net' = net /\ raced \subseteq raced'
  BY <1>1, <1>2, <1>4 DEF TaskOK, RoomInv, Shared
<1>6. ASSUME t.peer \in Peer \ raced'
      PROVE  /\ PeerOK(t.peer) /\ TasksOf(t.peer) = {t}
             /\ disk'[t.peer] = t.log /\ mem'[t.peer] = t.log
  <2>1. PeerOK(t.peer) /\ TasksOf(t.peer) = {t}
    BY <1>1, <1>6, TaskIs
  <2> QED
    BY <1>1, <1>4, <1>5, <1>6, <2>1 DEF PeerOK
<1>7. CASE t.kind = "append"
  <2> DEFINE next == IF t.peer \in withHub THEN "publish" ELSE "notify"
  <2>1. PICK pc, u : pc = next /\ u = [t EXCEPT !.pc = pc] /\ Continue(t, u)
    BY <1>7 DEF Show
  <2>2. /\ Shaped(u) /\ u.pc = pc /\ u.peer = t.peer
        /\ u.kind = t.kind /\ u.log = t.log
    <3>1. Shaped(t) /\ u = [t EXCEPT !.pc = pc]
      BY <1>2, <2>1 DEF TaskOK
    <3> QED
      BY <3>1, NextIs
  <2>3. TaskOK(u)'
    BY <1>1, <1>2, <1>7, <2>1, <2>2 DEF TaskOK
  <2>4. ASSUME t.peer \in Peer \ raced' PROVE PeerOK(t.peer)'
    <3>1. TasksOf(t.peer)' = {u}
      BY <1>6, <2>1, <2>2, <2>4, TasksContinue
    <3>2. u.pc \in {"publish", "notify"} /\ (withHub' = Peer => u.pc = "publish")
      BY <1>1, <2>1, <2>2, <2>4
    <3> QED
      BY <1>6, <2>2, <2>4, <3>1, <3>2, PeerWithTask
  <2>5. /\ \A q : q # t.peer => TasksOf(q)' = TasksOf(q)
        /\ \A v \in tasks' : v \in tasks \/ v = u
    BY <2>1, <2>2, TasksContinue
  <2> HIDE DEF next
  <2> QED
    BY <1>3, <1>4, <1>5, <2>3, <2>4, <2>5, StepOfOne
<1>8. CASE t.kind # "append"
  <2>1. End(t)
    BY <1>8 DEF Show
  <2>2. ASSUME t.peer \in Peer \ raced' PROVE PeerOK(t.peer)'
    <3>1. TasksOf(t.peer)' = {}
      BY <1>6, <2>1, <2>2, TasksEnd
    <3>2. withHub' = Peer => Len(hub') >= Len(mem'[t.peer])
      BY <1>1, <1>2, <1>6, <1>8, <2>2 DEF TaskOK
    <3> QED
      BY <1>6, <2>2, <3>1, <3>2, PeerAtRest
  <2>3. (\A q : q # t.peer => TasksOf(q)' = TasksOf(q)) /\ tasks' \subseteq tasks
    BY <2>1, TasksEnd
  <2> QED
    BY <1>3, <1>4, <1>5, <2>2, <2>3, StepOfOne
<1> QED
  BY <1>7, <1>8

\* What an endpoint that never raced finds on its disk: what it showed, or
\* what it was about to show.
LEMMA StoredIsNoShorter ==
    ASSUME RoomInv, NEW p \in Peer \ raced, Calm
    PROVE  Len(disk[p]) >= Len(mem[p])
<1>1. PeerOK(p) /\ Len(mem[p]) \in Nat
  BY LogLength DEF RoomInv, Shared
<1>2. CASE TasksOf(p) = {}
  BY <1>1, <1>2 DEF PeerOK
<1>3. CASE TasksOf(p) # {}
  <2>1. PICK t \in TasksOf(p) : TRUE
    BY <1>3
  <2>2. disk[p] = IF t.pc = "show" THEN t.log ELSE mem[p]
    BY <1>1, <2>1 DEF PeerOK
  <2>3. t.pc = "show" => Len(t.log) >= Len(mem[p])
    BY <1>1, <2>1 DEF PeerOK
  <2> QED
    BY <1>1, <2>2, <2>3
<1> QED
  BY <1>2, <1>3

LEMMA RestartIs ==
    ASSUME RoomInv, NEW p \in Peer, Restart(p)
    PROVE  /\ mem' = [mem EXCEPT ![p] = disk[p]]
           /\ UNCHANGED <<withHub, hub, disk, net, raced>>
           /\ cut' = cut \cup {t.log : t \in {u \in TasksOf(p) : u.kind = "append"}}
           /\ tasks' = (tasks \ TasksOf(p))
                 \cup (IF p \in withHub /\ disk[p] # NoLog THEN {FetchTask(p)} ELSE {})
<1>1. Good(disk[p])
  BY DEF RoomInv, Shared
<1>2. (IF VerifyLog(disk[p]) = Rejected THEN NoLog ELSE disk[p]) = disk[p]
  BY <1>1 DEF Good
<1> QED
  BY <1>2 DEF Restart

LEMMA RestartKeeps ==
    ASSUME RoomInv, NEW p \in Peer, Restart(p)
    PROVE  RoomInv'
<1>1. /\ mem' = [mem EXCEPT ![p] = disk[p]]
      /\ UNCHANGED <<withHub, hub, disk, net, raced>>
      /\ cut' = cut \cup {t.log : t \in {u \in TasksOf(p) : u.kind = "append"}}
      /\ tasks' = (tasks \ TasksOf(p))
            \cup (IF p \in withHub /\ disk[p] # NoLog THEN {FetchTask(p)} ELSE {})
  BY RestartIs
<1>2. Grown /\ Good(hub')
  BY <1>1, LogLength DEF Grown, RoomInv, Shared
<1>3. /\ disk' \in [Peer -> Log] /\ mem' \in [Peer -> Log] /\ disk' = disk
      /\ \A q \in Peer : mem'[q] = IF q = p THEN disk[p] ELSE mem[q]
      /\ \A q \in Peer : Good(disk'[q]) /\ Good(mem'[q])
      /\ cut \subseteq cut' /\ net' = net /\ raced' = raced
  BY <1>1 DEF RoomInv, Shared
<1>4. FetchTask(p).peer = p /\ FetchTask(p).kind = "fetch" /\ FetchTask(p).pc = "get"
  BY FetchTaskIs
<1>5. /\ \A q : q # p => TasksOf(q)' = TasksOf(q)
      /\ TasksOf(p)' = IF p \in withHub /\ disk[p] # NoLog THEN {FetchTask(p)} ELSE {}
  BY <1>1, <1>4 DEF TasksOf
<1>6. ASSUME NEW v \in tasks' PROVE v \in tasks \/ TaskOK(v)'
  <2>1. CASE v \in tasks
    BY <2>1
  <2>2. CASE v \notin tasks
    <3>1. p \in withHub /\ v = FetchTask(p)
      BY <1>1, <1>6, <2>2
    <3> QED
      BY <1>1, <3>1, FetchTaskOK
  <2> QED
    BY <2>1, <2>2
<1>7. ASSUME p \in Peer \ raced' PROVE PeerOK(p)'
  <2>1. PeerOK(p) /\ mem'[p] = disk'[p]
    BY <1>3, <1>7 DEF RoomInv
  <2>2. ASSUME Calm', withHub' = Peer PROVE Len(hub') >= Len(mem'[p])
    <3>1. Calm /\ withHub = Peer /\ ~ \E t \in TasksOf(p) : t.kind = "append"
      BY <1>1, <2>2 DEF Calm, Mixed
    <3>2. \A t \in TasksOf(p) : TaskOK(t)
      BY DEF RoomInv, Shared, TasksOf
    <3>3. ~Publishing(p)
      BY <3>1, <3>2 DEF Publishing, TaskOK
    <3>4. Len(hub) >= Len(mem[p])
      BY <2>1, <3>1, <3>3 DEF PeerOK
    <3>5. CASE TasksOf(p) = {}
      BY <1>1, <2>1, <3>4, <3>5 DEF PeerOK
    <3>6. CASE TasksOf(p) # {}
      <4>1. PICK t \in TasksOf(p) : TRUE
        BY <3>6
      <4>2. disk[p] = IF t.pc = "show" THEN t.log ELSE mem[p]
        BY <2>1, <4>1 DEF PeerOK
      <4>3. Len(hub) >= Len(t.log)
        BY <3>1, <3>2, <4>1 DEF TaskOK
      <4> QED
        BY <1>1, <2>1, <3>4, <4>2, <4>3
    <3> QED
      BY <3>5, <3>6
  <2>3. CASE p \in withHub /\ disk[p] # NoLog
    BY <1>4, <1>5, <2>1, <2>2, <2>3, PeerWithTask
  <2>4. CASE ~(p \in withHub /\ disk[p] # NoLog)
    BY <1>5, <2>1, <2>2, <2>4, PeerAtRest
  <2> QED
    BY <2>3, <2>4
<1> QED
  BY <1>2, <1>3, <1>5, <1>6, <1>7, StepOfOne

-----------------------------------------------------------------------------
(* The specification.                                                      *)

LEMMA InitRoom == Init => RoomInv
<1> SUFFICES ASSUME Init PROVE RoomInv
  OBVIOUS
<1>1. NoLog \in Log /\ Len(NoLog) = 0 /\ Good(NoLog)
  BY LogLength DEF Log, NoLog, Good
<1>2. withHub \subseteq Peer
  BY HubAssumption DEF Init
<1>3. Shared
  BY <1>1, <1>2 DEF Init, Shared
<1>4. \A p \in Peer : PeerOK(p)
  BY <1>1 DEF Init, PeerOK, TasksOf
<1> QED
  BY <1>3, <1>4 DEF RoomInv

\* A step that changes nothing.
LEMMA StutterRoom == RoomInv /\ UNCHANGED vars => RoomInv'
<1> SUFFICES ASSUME RoomInv, UNCHANGED vars PROVE RoomInv'
  OBVIOUS
<1>1. /\ withHub' = withHub /\ hub' = hub /\ disk' = disk /\ mem' = mem
      /\ tasks' = tasks /\ net' = net /\ cut' = cut /\ raced' = raced
  BY DEF vars, copies
<1> QED
  BY <1>1 DEF RoomInv, Shared, TaskOK, FrameOK, PeerOK, TasksOf, Publishing, Calm, Mixed

LEMMA NextRoom == RoomInv /\ [Next]_vars => RoomInv'
<1> SUFFICES ASSUME RoomInv, [Next]_vars PROVE RoomInv'
  OBVIOUS
<1>1. ASSUME NEW p \in Peer, NEW op \in Op, StartAppend(p, op) PROVE RoomInv'
  BY <1>1, StartAppendKeeps
<1>2. ASSUME NEW m \in net, StartAbsorb(m) \/ IgnoreUpdate(m) \/ LoseUpdate(m) PROVE RoomInv'
  BY <1>2, StartAbsorbKeeps, IgnoreUpdateKeeps, LoseUpdateKeeps
<1>3. ASSUME NEW p \in Peer, StartFetch(p) \/ Restart(p) PROVE RoomInv'
  BY <1>3, StartFetchKeeps, RestartKeeps
<1>4. ASSUME NEW t \in tasks, TaskNext(t) PROVE RoomInv'
  <2>1. CASE Save(t) \/ Show(t)
    BY <2>1, SaveKeeps, ShowKeeps
  <2>2. CASE Publish(t) \/ PublishRefused(t) \/ PublishFails(t)
    BY <2>2, PublishKeeps, PublishRefusedKeeps, PublishFailsKeeps
  <2>3. CASE Notify(t)
    BY <2>3, NotifyKeeps
  <2>4. CASE Get(t) \/ GetFails(t)
    BY <2>4, GetKeeps, GetFailsKeeps
  <2> QED
    BY <1>4, <2>1, <2>2, <2>3, <2>4 DEF TaskNext
<1>5. CASE UNCHANGED vars
  BY <1>5, StutterRoom
<1> QED
  BY <1>1, <1>2, <1>3, <1>4, <1>5 DEF Next

LEMMA RoomInvariant == Spec => []RoomInv
BY InitRoom, NextRoom, PTL DEF Spec

\* No copy of a log, on a disk, in a memory, at the hub, in hand or in flight,
\* is one that verify_log turns down (append's check before anything is saved,
\* absorb_room's, fetch_room's and load_rooms').
THEOREM EveryCopyReplays == Spec => []EveryCopyVerifies
<1>1. RoomInv => EveryCopyVerifies
  BY DEF RoomInv, Shared, TaskOK, FrameOK, Good, EveryCopyVerifies, Copies
<1> QED
  BY <1>1, RoomInvariant, PTL

\* An endpoint started with --hub tells nobody of what the hub does not have:
\* append's order of publish_room and the notices.
THEOREM PublishedFirst == Spec => []ToldIsPublished
<1>1. RoomInv => ToldIsPublished
  BY DEF RoomInv, Shared, FrameOK, ToldIsPublished
<1> QED
  BY <1>1, RoomInvariant, PTL

\* Memory and disk agree at rest: save_room and show_room of append,
\* absorb_room and fetch_room, and load_rooms after a crash between the two.
THEOREM MemoryMatchesDisk == Spec => []MemoryIsDisk
<1>1. RoomInv => MemoryIsDisk
  BY DEF RoomInv, PeerOK, MemoryIsDisk
<1> QED
  BY <1>1, RoomInvariant, PTL

\* What a step may do to the length of a log in memory, an endpoint at a time.
LEMMA ShrinkStep ==
    ASSUME RoomInv, [Next]_vars, NEW p \in Peer, Len(mem'[p]) < Len(mem[p])
    PROVE  cut # {} \/ Mixed \/ p \in raced
<1> SUFFICES ASSUME cut = {}, ~Mixed, p \notin raced PROVE FALSE
  OBVIOUS
<1>1. Calm /\ PeerOK(p) /\ Len(mem[p]) \in Nat
  BY LogLength DEF Calm, RoomInv, Shared
<1>2. mem' # mem
  BY <1>1
<1>3. ASSUME NEW t \in tasks, Show(t) PROVE FALSE
  <2>1. t.pc = "show" /\ mem' = [mem EXCEPT ![t.peer] = t.log] /\ mem \in [Peer -> Log]
    BY <1>3 DEF Show, RoomInv, Shared
  <2>2. CASE t.peer # p
    BY <1>1, <2>1, <2>2
  <2>3. CASE t.peer = p
    <3>1. t \in TasksOf(p) /\ Len(t.log) \in Nat
      BY <2>3, TaskIs DEF TasksOf
    <3>2. Len(t.log) >= Len(mem[p])
      BY <1>1, <2>1, <3>1 DEF PeerOK
    <3> QED
      BY <1>1, <2>1, <2>3, <3>1, <3>2
  <2> QED
    BY <2>2, <2>3
<1>4. ASSUME NEW q \in Peer, Restart(q) PROVE FALSE
  <2>1. mem' = [mem EXCEPT ![q] = disk[q]] /\ mem \in [Peer -> Log] /\ Len(disk[p]) \in Nat
    BY <1>4, RestartIs, LogLength DEF RoomInv, Shared
  <2>2. Len(disk[p]) >= Len(mem[p])
    BY <1>1, StoredIsNoShorter
  <2> QED
    BY <1>1, <2>1, <2>2
<1>5. (\E t \in tasks : Show(t)) \/ (\E q \in Peer : Restart(q))
  <2>1. CASE \E q \in Peer, op \in Op : StartAppend(q, op)
    BY <1>2, <2>1 DEF StartAppend, copies
  <2>2. CASE \E m \in net : StartAbsorb(m) \/ IgnoreUpdate(m) \/ LoseUpdate(m)
    BY <1>2, <2>2 DEF StartAbsorb, IgnoreUpdate, LoseUpdate, copies
  <2>3. CASE \E q \in Peer : StartFetch(q)
    BY <1>2, <2>3 DEF StartFetch, copies
  <2>4. CASE \E t \in tasks : Save(t) \/ Publish(t) \/ PublishRefused(t) \/ PublishFails(t) \/ Notify(t)
    BY <1>2, <2>4 DEF Save, Publish, PublishRefused, PublishFails, Notify, copies
  <2>5. CASE \E t \in tasks : Get(t) \/ GetFails(t)
    BY <1>2, <2>5 DEF Get, GetFails, copies
  <2>6. CASE UNCHANGED vars
    BY <1>2, <2>6 DEF vars, copies
  <2> QED
    BY <2>1, <2>2, <2>3, <2>4, <2>5, <2>6 DEF Next, TaskNext
<1> QED
  BY <1>3, <1>4, <1>5

\* A log in memory gets shorter only after an append that the hub never took,
\* where part of the peers run without a hub, or by two tasks of one endpoint
\* that ran at a time; restarts, lost and repeated frames, a hub that is away
\* and any number of other endpoints are no cause.
THEOREM ShrinksAreExplained == Spec => ShrinkNeedsCause
<1>1. RoomInv /\ [Next]_vars
        => \A p \in Peer : Len(mem'[p]) < Len(mem[p]) => cut # {} \/ Mixed \/ p \in raced
  BY ShrinkStep
<1>2. RoomInv /\ [Next]_vars
        => [\A p \in Peer : Len(mem'[p]) < Len(mem[p]) => cut # {} \/ Mixed \/ p \in raced]_vars
  BY <1>1
<1> QED
  BY <1>2, RoomInvariant, PTL DEF Spec, ShrinkNeedsCause

-----------------------------------------------------------------------------
(* Types.  Whom an append tells comes out of a replay.                     *)

LEMMA MembersArePeers == \A log \in Log : Members(log) \subseteq Peer
<1> SUFFICES ASSUME NEW log \in Log PROVE Members(log) \subseteq Peer
  OBVIOUS
<1>1. VerifyLog(log) \in Room \cup {Rejected}
  BY VerifyLogOrders DEF Log, Ordered
<1>2. CASE VerifyLog(log) = Rejected
  BY <1>2 DEF Members
<1>3. CASE VerifyLog(log) # Rejected
  <2>1. VerifyLog(log) \in Room
    BY <1>1, <1>3
  <2>2. \A room \in Room : room.members \subseteq Peer
    BY DEF Room
  <2> QED
    BY <1>3, <2>1, <2>2 DEF Members
<1> QED
  BY <1>2, <1>3

\* A task with its counter moved on is a task.
LEMMA TaskMoves ==
    ASSUME NEW t \in Task, NEW pc \in {"save", "show", "publish", "notify", "get"}
    PROVE  [t EXCEPT !.pc = pc] \in Task
BY DEF Task

LEMMA ContinueTyped ==
    ASSUME TypeOK, NEW t \in tasks, NEW u \in Task, Continue(t, u)
    PROVE  \A v \in tasks' : v \in Task
BY DEF Continue, TypeOK

LEMMA EndTyped ==
    ASSUME TypeOK, NEW t \in tasks, End(t)
    PROVE  \A v \in tasks' : v \in Task
BY DEF End, TypeOK

LEMMA BeginTyped ==
    ASSUME TypeOK, NEW t \in Task, Begin(t)
    PROVE  (\A v \in tasks' : v \in Task) /\ raced' \subseteq Peer
<1>1. t.peer \in Peer
  BY DEF Task
<1> QED
  BY <1>1 DEF Begin, TypeOK

LEMMA FetchTaskTyped == \A p \in Peer : FetchTask(p) \in Task
BY DEF FetchTask, Task, Log, NoLog

LEMMA StartAppendTyped ==
    ASSUME TypeOK, NEW p \in Peer, NEW op \in Op, StartAppend(p, op)
    PROVE  TypeOK'
<1>1. PICK log, t :
        /\ log = Append(disk[p], NewEntry(p, HeadHash(disk[p]), op))
        /\ t = [peer |-> p, kind |-> "append", pc |-> "save", log |-> log,
                notify |-> (Members(disk[p]) \cup Members(log)) \ {p}]
        /\ Begin(t)
        /\ UNCHANGED <<withHub, copies, net, cut, crashes>>
  BY DEF StartAppend
<1>2. disk[p] \in Log
  BY DEF TypeOK
<1>3. log \in Log
  BY <1>1, <1>2, AppendLog
<1>4. (Members(disk[p]) \cup Members(log)) \ {p} \in SUBSET Peer
  BY <1>2, <1>3, MembersArePeers
<1>5. t \in Task
  BY <1>1, <1>3, <1>4 DEF Task
<1>6. (\A v \in tasks' : v \in Task) /\ raced' \subseteq Peer
  BY <1>1, <1>5, BeginTyped
<1>7. commands' \in 0..MaxCommands
  BY RoomBoundAssumption DEF StartAppend, TypeOK
<1> QED
  BY <1>1, <1>6, <1>7 DEF TypeOK, copies

LEMMA NotifyTyped ==
    ASSUME TypeOK, NEW t \in tasks, Notify(t)
    PROVE  TypeOK'
<1>1. t \in Task
  BY DEF TypeOK
<1>2. t.peer \in Peer /\ t.log \in Log /\ t.notify \subseteq Peer
  BY <1>1 DEF Task
<1>3. ASSUME NEW m \in net' PROVE m \in Update
  <2>1. CASE m \in net
    BY <2>1 DEF TypeOK
  <2>2. CASE m \notin net
    <3>1. PICK q \in t.notify : m = [from |-> t.peer, to |-> q, log |-> t.log]
      BY <1>3, <2>2 DEF Notify
    <3> QED
      BY <1>2, <3>1 DEF Update
  <2> QED
    BY <2>1, <2>2
<1>4. \A v \in tasks' : v \in Task
  BY EndTyped DEF Notify
<1> QED
  BY <1>3, <1>4 DEF Notify, TypeOK, copies, counts

LEMMA StartAbsorbTyped ==
    ASSUME TypeOK, NEW m \in net, StartAbsorb(m)
    PROVE  TypeOK'
<1>1. m \in Update
  BY DEF TypeOK
<1>2. PICK t : /\ t = [peer |-> m.to, kind |-> "absorb", pc |-> "save", log |-> m.log,
                       notify |-> {}]
               /\ Begin(t)
  BY DEF StartAbsorb
<1>3. m.to \in Peer /\ m.log \in Log
  BY <1>1 DEF Update
<1>4. t \in Task
  BY <1>2, <1>3 DEF Task
<1>5. (\A v \in tasks' : v \in Task) /\ raced' \subseteq Peer
  BY <1>2, <1>4, BeginTyped
<1>6. net' \subseteq net
  BY DEF StartAbsorb
<1> QED
  BY <1>5, <1>6 DEF StartAbsorb, TypeOK, copies, counts

LEMMA GetTyped ==
    ASSUME TypeOK, NEW t \in tasks, Get(t)
    PROVE  TypeOK'
<1>1. t \in Task /\ hub \in Log
  BY DEF TypeOK
<1>2. [t EXCEPT !.pc = "save", !.log = hub] \in Task
  BY <1>1 DEF Task
<1>3. \A v \in tasks' : v \in Task
  BY <1>2, ContinueTyped, EndTyped DEF Get
<1> QED
  BY <1>3 DEF Get, TypeOK, copies, counts

LEMMA ShowTyped ==
    ASSUME TypeOK, NEW t \in tasks, Show(t)
    PROVE  TypeOK'
<1>1. t \in Task
  BY DEF TypeOK
<1>2. t.log \in Log
  BY <1>1 DEF Task
<1>3. [t EXCEPT !.pc = IF t.peer \in withHub THEN "publish" ELSE "notify"] \in Task
  BY <1>1, TaskMoves
<1>4. \A v \in tasks' : v \in Task
  BY <1>3, ContinueTyped, EndTyped DEF Show
<1>5. mem' \in [Peer -> Log]
  BY <1>2 DEF Show, TypeOK
<1> QED
  BY <1>4, <1>5 DEF Show, TypeOK, copies, counts

LEMMA SaveTyped ==
    ASSUME TypeOK, NEW t \in tasks, Save(t)
    PROVE  TypeOK'
<1>1. t \in Task
  BY DEF TypeOK
<1>2. t.log \in Log /\ [t EXCEPT !.pc = "show"] \in Task
  BY <1>1, TaskMoves DEF Task
<1>3. \A v \in tasks' : v \in Task
  BY <1>2, ContinueTyped DEF Save
<1>4. disk' \in [Peer -> Log]
  BY <1>2 DEF Save, TypeOK
<1> QED
  BY <1>3, <1>4 DEF Save, TypeOK, copies, counts

\* put_room, taken, refused or failed.
LEMMA PublishTyped ==
    ASSUME TypeOK, NEW t \in tasks, Publish(t) \/ PublishRefused(t) \/ PublishFails(t)
    PROVE  TypeOK'
<1>1. t \in Task
  BY DEF TypeOK
<1>2. t.log \in Log /\ [t EXCEPT !.pc = "notify"] \in Task
  BY <1>1, TaskMoves DEF Task
<1>3. \A v \in tasks' : v \in Task
  BY <1>2, ContinueTyped, EndTyped DEF Publish, PublishRefused, PublishFails
<1>4. hub' \in Log /\ cut' \subseteq Log
  BY <1>2 DEF Publish, PublishRefused, PublishFails, TypeOK, copies
<1> QED
  BY <1>3, <1>4 DEF Publish, PublishRefused, PublishFails, TypeOK, copies, counts

LEMMA RestartTyped ==
    ASSUME TypeOK, NEW p \in Peer, Restart(p)
    PROVE  TypeOK'
<1>1. disk[p] \in Log /\ NoLog \in Log
  BY DEF TypeOK, Log, NoLog
<1>2. mem' \in [Peer -> Log]
  BY <1>1 DEF Restart, TypeOK
<1>3. \A v \in tasks' : v \in Task
  BY FetchTaskTyped DEF Restart, TypeOK
<1>4. crashes' \in 0..MaxCrashes
  BY RoomBoundAssumption DEF Restart, TypeOK
<1>5. cut' = cut \cup {t.log : t \in {u \in TasksOf(p) : u.kind = "append"}}
  BY DEF Restart
<1>6. cut' \subseteq Log
  BY <1>5 DEF TypeOK, Task, TasksOf
<1>7. UNCHANGED <<withHub, hub, disk, net, raced, commands>>
  BY DEF Restart
<1> QED
  BY <1>2, <1>3, <1>4, <1>6, <1>7 DEF TypeOK

LEMMA InitTyped == Init => TypeOK
<1>1. NoLog \in Log
  BY DEF NoLog, Log
<1>2. 0 \in 0..MaxCommands /\ 0 \in 0..MaxCrashes
  BY RoomBoundAssumption
<1> QED
  BY <1>1, <1>2, HubAssumption DEF Init, TypeOK

LEMMA NextTyped == TypeOK /\ [Next]_vars => TypeOK'
<1> SUFFICES ASSUME TypeOK, [Next]_vars PROVE TypeOK'
  OBVIOUS
<1>1. CASE \E p \in Peer, op \in Op : StartAppend(p, op)
  BY <1>1, StartAppendTyped
<1>2. CASE \E m \in net : StartAbsorb(m)
  BY <1>2, StartAbsorbTyped
<1>3. CASE \E m \in net : IgnoreUpdate(m) \/ LoseUpdate(m)
  BY <1>3 DEF IgnoreUpdate, LoseUpdate, TypeOK, copies, counts
<1>4. CASE \E p \in Peer : StartFetch(p)
  BY <1>4, FetchTaskTyped, BeginTyped DEF StartFetch, TypeOK, copies, counts
<1>5. CASE \E p \in Peer : Restart(p)
  BY <1>5, RestartTyped
<1>6. CASE \E t \in tasks : Save(t) \/ Show(t)
  BY <1>6, SaveTyped, ShowTyped
<1>7. CASE \E t \in tasks : Publish(t) \/ PublishRefused(t) \/ PublishFails(t)
  BY <1>7, PublishTyped
<1>8. CASE \E t \in tasks : Notify(t) \/ Get(t)
  BY <1>8, NotifyTyped, GetTyped
<1>9. CASE \E t \in tasks : GetFails(t)
  BY <1>9, EndTyped DEF GetFails, TypeOK, copies, counts
<1>10. CASE UNCHANGED vars
  BY <1>10 DEF vars, copies, counts, TypeOK
<1> QED
  BY <1>1, <1>2, <1>3, <1>4, <1>5, <1>6, <1>7, <1>8, <1>9, <1>10 DEF Next, TaskNext

\* Whoever is told of a room is a peer, and what is stored, shown, published
\* or on its way is a log of entries: append takes those to notify from two
\* replays, so this rests on what verify_log may answer.
THEOREM RoomTyped == Spec => []TypeOK
BY InitTyped, NextTyped, PTL DEF Spec
=============================================================================
