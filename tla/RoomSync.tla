------------------------------ MODULE RoomSync ------------------------------
(***************************************************************************)
(* How the copies of one room's log move: every endpoint keeps one on disk *)
(* and one in memory, the hub keeps one, and RoomUpdated frames carry      *)
(* whole logs.  Three kinds of task write an endpoint's copies: append (a  *)
(* room command), absorb_room (a RoomUpdated frame) and fetch_room (at     *)
(* start, and when an op comes from someone not known as a member).        *)
(*                                                                         *)
(* One action is one lock section or one HTTP request: a task reads, then  *)
(* saves to disk, then shows in memory, and nothing is held in between, so *)
(* tasks of one endpoint interleave.  Every log is of one room, the one    *)
(* the founder creates; rooms do not interact.                             *)
(***************************************************************************)
EXTENDS RoomLog, FiniteSets

CONSTANTS
    Founder,      \* who creates the room
    Writers,      \* peers that issue room commands
    MaxLog,       \* bound on the length of a log
    MaxCommands,  \* bound on the room commands issued
    MaxTasks,     \* bound on the tasks of one endpoint at a time
    MaxCrashes,   \* bound on restarts
    HubChoices,   \* the sets of peers that may have been started with --hub
    HubFails,     \* whether requests to the hub may fail
    NetFails      \* whether a frame may be lost, or read twice

ASSUME FounderAssumption == Founder \in Peer /\ Writers \subseteq Peer
ASSUME RoomBoundAssumption ==
    /\ MaxLog \in Nat
    /\ MaxCommands \in Nat
    /\ MaxTasks \in Nat
    /\ MaxCrashes \in Nat
ASSUME HubAssumption == HubChoices \subseteq SUBSET Peer /\ HubFails \in BOOLEAN
ASSUME NetAssumption == NetFails \in BOOLEAN

VARIABLES
    withHub,   \* peers started with --hub
    hub,       \* the log in the hub's registry; << >> is none
    disk,      \* per peer: the log in the local store; << >> is none
    mem,       \* per peer: the log whose replay is in App.rooms
    tasks,     \* running append, absorb_room and fetch_room calls
    net,       \* RoomUpdated frames on a connection or in a mailbox
    cut,       \* history: logs whose append ended before the members were told
    raced,     \* history: peers that ran two tasks at a time
    commands,  \* room commands issued so far
    crashes

copies == <<hub, disk, mem>>
counts == <<commands, crashes>>
vars == <<withHub, copies, tasks, net, cut, raced, counts>>

NoLog == << >>
Members(log) == LET room == VerifyLog(log) IN IF room = Rejected THEN {} ELSE room.members

TasksOf(p) == {t \in tasks : t.peer = p}

HasSlot(p) == Cardinality(TasksOf(p)) < MaxTasks

\* A task of p begins. Anything else of p that is running now races with it.
Begin(t) ==
    /\ tasks' = tasks \cup {t}
    /\ raced' = IF TasksOf(t.peer) = {} THEN raced ELSE raced \cup {t.peer}

Continue(t, next) == tasks' = (tasks \ {t}) \cup {next}
End(t) == tasks' = tasks \ {t}

Init ==
    /\ withHub \in HubChoices
    /\ hub = NoLog
    /\ disk = [p \in Peer |-> NoLog]
    /\ mem = [p \in Peer |-> NoLog]
    /\ tasks = {} /\ net = {} /\ cut = {} /\ raced = {}
    /\ commands = 0 /\ crashes = 0

-----------------------------------------------------------------------------
(* append: read the stored log, add one signed entry, replay the result.   *)

HeadHash(log) == IF log = NoLog THEN Genesis ELSE Hash(log[Len(log)])

\* The room is created once; every other command starts from the store.
MayBegin(p, op) ==
    IF op = Create
    THEN /\ p = Founder
         /\ \A q \in Peer : disk[q] = NoLog
         /\ tasks = {}
    ELSE disk[p] # NoLog

\* Wrong: an entry this endpoint cannot itself accept is passed on.
StartAppendUnverified(p, op) ==
    /\ p \in Writers
    /\ commands < MaxCommands
    /\ commands' = commands + 1
    /\ HasSlot(p)
    /\ Len(disk[p]) < MaxLog
    /\ MayBegin(p, op)
    /\ LET log == Append(disk[p], NewEntry(p, HeadHash(disk[p]), op))
       IN  Begin([peer |-> p, kind |-> "append", pc |-> "save", log |-> log,
                  notify |-> (Members(disk[p]) \cup Members(log)) \ {p}])
    /\ UNCHANGED <<withHub, copies, net, cut, crashes>>

\* Wrong: only those who are in the room now are told.
StartAppendTellingMembers(p, op) ==
    /\ p \in Writers
    /\ commands < MaxCommands
    /\ commands' = commands + 1
    /\ HasSlot(p)
    /\ Len(disk[p]) < MaxLog
    /\ MayBegin(p, op)
    /\ LET log == Append(disk[p], NewEntry(p, HeadHash(disk[p]), op))
       IN  /\ VerifyLog(log) # Rejected
           /\ Begin([peer |-> p, kind |-> "append", pc |-> "save", log |-> log,
                     notify |-> Members(log) \ {p}])
    /\ UNCHANGED <<withHub, copies, net, cut, crashes>>

\* Whoever was in the room and whoever is in it now.
StartAppend(p, op) ==
    /\ p \in Writers
    /\ commands < MaxCommands
    /\ commands' = commands + 1
    /\ HasSlot(p)
    /\ Len(disk[p]) < MaxLog
    /\ MayBegin(p, op)
    /\ LET log == Append(disk[p], NewEntry(p, HeadHash(disk[p]), op))
       IN  /\ VerifyLog(log) # Rejected
           /\ Begin([peer |-> p, kind |-> "append", pc |-> "save", log |-> log,
                     notify |-> (Members(disk[p]) \cup Members(log)) \ {p}])
    /\ UNCHANGED <<withHub, copies, net, cut, crashes>>

\* put_room: the registry takes a log only in place of a shorter one.
Publish(t) ==
    /\ t.pc = "publish"
    /\ Len(t.log) > Len(hub)
    /\ hub' = t.log
    /\ Continue(t, [t EXCEPT !.pc = "notify"])
    /\ UNCHANGED <<withHub, disk, mem, net, cut, raced, counts>>

\* 409: the stored log is at least this long. The error ends the append.
PublishRefused(t) ==
    /\ t.pc = "publish"
    /\ Len(t.log) <= Len(hub)
    /\ End(t)
    /\ cut' = cut \cup {t.log}
    /\ UNCHANGED <<withHub, copies, net, raced, counts>>

\* The hub is away, or took the log and its answer was lost.
PublishFails(t) ==
    /\ HubFails
    /\ t.pc = "publish"
    /\ hub' \in {hub, IF Len(t.log) > Len(hub) THEN t.log ELSE hub}
    /\ End(t)
    /\ cut' = cut \cup {t.log}
    /\ UNCHANGED <<withHub, disk, mem, net, raced, counts>>

Notify(t) ==
    /\ t.pc = "notify"
    /\ net' = net \cup {[from |-> t.peer, to |-> q, log |-> t.log] : q \in t.notify}
    /\ End(t)
    /\ UNCHANGED <<withHub, copies, cut, raced, counts>>

-----------------------------------------------------------------------------
(* absorb_room: a log handed over by a peer.                               *)

\* Wrong: any valid log is taken, a stale one too.
AcceptableStale(p, log) ==
    /\ VerifyLog(log) # Rejected
    /\ mem[p] # NoLog \/ p \in Members(log)

\* Verified, of a room known or one that has this endpoint in it, and longer
\* than what is held in memory.
Acceptable(p, log) ==
    /\ Len(log) > Len(mem[p])
    /\ VerifyLog(log) # Rejected
    /\ mem[p] # NoLog \/ p \in Members(log)

\* A frame that is still in the mailbox after a lost DELETE is read again.
StartAbsorb(m) ==
    /\ m \in net
    /\ HasSlot(m.to)
    /\ net' = net \ {m} \/ (NetFails /\ net' = net)
    /\ Acceptable(m.to, m.log)
    /\ Begin([peer |-> m.to, kind |-> "absorb", pc |-> "save", log |-> m.log,
              notify |-> {}])
    /\ UNCHANGED <<withHub, copies, cut, counts>>

\* Turned down; the frame is gone all the same, from the mailbox too.
IgnoreUpdate(m) ==
    /\ m \in net
    /\ net' = net \ {m}
    /\ ~ Acceptable(m.to, m.log)
    /\ UNCHANGED <<withHub, copies, tasks, cut, raced, counts>>

\* The connection it was sent on ends, or no mailbox takes it.
LoseUpdate(m) ==
    /\ NetFails
    /\ m \in net
    /\ net' = net \ {m}
    /\ UNCHANGED <<withHub, copies, tasks, cut, raced, counts>>

-----------------------------------------------------------------------------
(* fetch_room: whatever the hub has replaces whatever is held.             *)

FetchTask(p) == [peer |-> p, kind |-> "fetch", pc |-> "get", log |-> NoLog, notify |-> {}]

\* accept: a room op from someone this endpoint's replay does not contain.
StartFetch(p) ==
    /\ p \in withHub
    /\ HasSlot(p)
    /\ \E q \in Peer \ {p} : mem[q] # NoLog /\ q \notin Members(mem[p])
    /\ FetchTask(p) \notin tasks
    /\ Begin(FetchTask(p))
    /\ UNCHANGED <<withHub, copies, net, cut, counts>>

\* Wrong: the chain of hashes is kept in place of the entries.
GetHead(t) ==
    /\ t.pc = "get"
    /\ IF hub # NoLog /\ VerifyLog(hub) # Rejected
       THEN Continue(t, [t EXCEPT !.pc = "save", !.log = VerifyLog(hub).head])
       ELSE End(t)
    /\ UNCHANGED <<withHub, copies, net, cut, raced, counts>>

Get(t) ==
    /\ t.pc = "get"
    /\ IF hub # NoLog /\ VerifyLog(hub) # Rejected
       THEN Continue(t, [t EXCEPT !.pc = "save", !.log = hub])
       ELSE End(t)
    /\ UNCHANGED <<withHub, copies, net, cut, raced, counts>>

GetFails(t) ==
    /\ HubFails
    /\ t.pc = "get"
    /\ End(t)
    /\ UNCHANGED <<withHub, copies, net, cut, raced, counts>>

-----------------------------------------------------------------------------
(* What all three end with: save_room, then show_room.                     *)

Save(t) ==
    /\ t.pc = "save"
    /\ disk' = [disk EXCEPT ![t.peer] = t.log]
    /\ Continue(t, [t EXCEPT !.pc = "show"])
    /\ UNCHANGED <<withHub, hub, mem, net, cut, raced, counts>>

\* Wrong: the members are told before the hub has the log.
ShowTellingFirst(t) ==
    /\ t.pc = "show"
    /\ mem' = [mem EXCEPT ![t.peer] = t.log]
    /\ IF t.kind = "append"
       THEN Continue(t, [t EXCEPT !.pc = "notify"])
       ELSE End(t)
    /\ UNCHANGED <<withHub, hub, disk, net, cut, raced, counts>>

Show(t) ==
    /\ t.pc = "show"
    /\ mem' = [mem EXCEPT ![t.peer] = t.log]
    /\ IF t.kind = "append"
       THEN Continue(t, [t EXCEPT !.pc = IF t.peer \in withHub THEN "publish" ELSE "notify"])
       ELSE End(t)
    /\ UNCHANGED <<withHub, hub, disk, net, cut, raced, counts>>

\* Wrong: what is stored is not shown, only fetched anew.
RestartEmpty(p) ==
    /\ crashes < MaxCrashes
    /\ crashes' = crashes + 1
    /\ mem' = [mem EXCEPT ![p] = NoLog]
    /\ tasks' = (tasks \ TasksOf(p))
                  \cup (IF p \in withHub /\ disk[p] # NoLog THEN {FetchTask(p)} ELSE {})
    /\ cut' = cut \cup {t.log : t \in {u \in TasksOf(p) : u.kind = "append"}}
    /\ UNCHANGED <<withHub, hub, disk, net, raced, commands>>

\* load_rooms: show what is stored, then ask the hub.
Restart(p) ==
    /\ crashes < MaxCrashes
    /\ crashes' = crashes + 1
    /\ mem' = [mem EXCEPT ![p] = IF VerifyLog(disk[p]) = Rejected THEN NoLog ELSE disk[p]]
    /\ tasks' = (tasks \ TasksOf(p))
                  \cup (IF p \in withHub /\ disk[p] # NoLog THEN {FetchTask(p)} ELSE {})
    /\ cut' = cut \cup {t.log : t \in {u \in TasksOf(p) : u.kind = "append"}}
    /\ UNCHANGED <<withHub, hub, disk, net, raced, commands>>

-----------------------------------------------------------------------------
TaskNext(t) ==
    \/ Save(t) \/ Show(t)
    \/ Publish(t) \/ PublishRefused(t) \/ PublishFails(t) \/ Notify(t)
    \/ Get(t) \/ GetFails(t)

Next ==
    \/ \E p \in Peer, op \in Op : StartAppend(p, op)
    \/ \E m \in net : StartAbsorb(m) \/ IgnoreUpdate(m) \/ LoseUpdate(m)
    \/ \E p \in Peer : StartFetch(p) \/ Restart(p)
    \/ \E t \in tasks : TaskNext(t)

Spec == Init /\ [][Next]_vars

\* A task runs to its end, and a frame that has been sent is read: each peer's
\* session and mailbox loop keep reading, whatever else the endpoint does.
FairSpec ==
    /\ Spec
    /\ \A p \in Peer : WF_vars(\E t \in TasksOf(p) : TaskNext(t))
    /\ \A p \in Peer : SF_vars(\E m \in net : m.to = p /\ (StartAbsorb(m) \/ IgnoreUpdate(m)))

-----------------------------------------------------------------------------
Log == Seq(Entry)
Task == [peer : Peer, kind : {"append", "absorb", "fetch"},
         pc : {"save", "show", "publish", "notify", "get"},
         log : Log, notify : SUBSET Peer]
Update == [from : Peer, to : Peer, log : Log]

TypeOK ==
    /\ withHub \subseteq Peer
    /\ hub \in Log
    /\ disk \in [Peer -> Log]
    /\ mem \in [Peer -> Log]
    /\ \A t \in tasks : t \in Task
    /\ \A m \in net : m \in Update
    /\ cut \subseteq Log
    /\ raced \subseteq Peer
    /\ commands \in 0..MaxCommands
    /\ crashes \in 0..MaxCrashes

\* No copy anywhere, in hand or in flight, fails to replay: an entry that its
\* author could not itself accept goes to nobody.
Copies == {hub} \cup {disk[p] : p \in Peer} \cup {mem[p] : p \in Peer}
            \cup {t.log : t \in tasks} \cup {m.log : m \in net}
EveryCopyVerifies == \A log \in Copies \ {NoLog} : VerifyLog(log) # Rejected

\* A member is told to look only after the hub has what there is to see, so an
\* endpoint that asks the hub upon a frame never finds less than it was told.
ToldIsPublished ==
    \A m \in net : m.from \in withHub => Len(hub) >= Len(m.log)

\* What an endpoint holds in memory gets shorter only if some append never
\* reached the hub, if part of the peers run without one, or if two of its own
\* tasks ran at the same time: then a stale copy replaces a newer one.
Mixed == withHub # {} /\ withHub # Peer
ShrinkNeedsCause ==
    [][\A p \in Peer : Len(mem'[p]) < Len(mem[p]) => cut # {} \/ Mixed \/ p \in raced]_vars

\* At rest an endpoint shows what it would show after a restart, unless two of
\* its tasks crossed between the disk and the memory.
MemoryIsDisk ==
    \A p \in Peer : TasksOf(p) = {} /\ p \notin raced => mem[p] = disk[p]

\* The logs that appends can make, and whom one is to reach: whoever was in the
\* room before and whoever is in it now, so those invited and those kicked too.
Appends[n \in Nat] ==
    IF n = 0 THEN {NoLog}
    ELSE {log \in {Append(held, NewEntry(p, HeadHash(held), op)) :
                     held \in Appends[n - 1], p \in Writers, op \in Op} :
            VerifyLog(log) # Rejected}
Told(log) == (Members(Front(log)) \cup Members(log)) \ {Last(log).author}

\* What p holds parted from the log: by an append that did not come through, or,
\* where not everybody has a hub that turns one of two down, by any other.
Parted(p, log) ==
    \E n \in 1..Len(mem[p]) :
        LET other == SubSeq(mem[p], 1, n) IN
        /\ ~ IsPrefix(other, log) /\ ~ IsPrefix(log, other)
        /\ other \in cut \/ withHub # Peer

\* Whoever is to be told of an append gets it into the log it holds, if the
\* append came through, nothing crashed (and, by NetFails, no frame was lost) and
\* what it holds has not parted from that log (main.rs:907-914). Who knows nothing
\* of the room takes only a log it is a member by (main.rs:204-210).
MembersLearn ==
    \A n \in 1..MaxLog : \A log \in Appends[n] : \A p \in Told(log) :
        (/\ \E t \in tasks : t.kind = "append" /\ t.log = log
         /\ mem[p] # NoLog \/ p \in Members(log))
            ~> (\/ IsPrefix(log, mem[p])
                \/ log \in cut \/ Parted(p, log) \/ crashes > 0)

\* "What stops a stale copy undoing a kick": somebody who is out of the room
\* comes back in only by an invitation after what was held.
RemovalSticks ==
    [][\A p, q \in Peer :
         (mem[p] # NoLog /\ q \notin Members(mem[p]) /\ q \in Members(mem'[p]))
            => IsPrefix(mem[p], mem'[p])]_vars
=============================================================================
