------------------------------- MODULE Session -------------------------------
(***************************************************************************)
(* Live delivery: dial_peer and reconnect_loop, the two sessions at the    *)
(* ends of a connection, the live map, the outbound broadcast channel and  *)
(* deliver_to.                                                             *)
(*                                                                         *)
(* Both ends may dial, so two connections of one pair may overlap.  A      *)
(* session is one task; between its await points other tasks run, and the  *)
(* live map and the broadcast channel are touched at different moments.    *)
(* One action is one such moment.  A connection delivers frames in order   *)
(* and loses a tail of them when it closes.  Nicknames, the link display   *)
(* and attachments (streams of their own) are left out.                    *)
(***************************************************************************)
EXTENDS Integers, Sequences, FiniteSets

CONSTANTS
    Peer, Conn,
    NoConn,      \* no entry in the live map
    Msg,         \* ops, each of one peer for another
    From, To,
    Contacts,    \* per peer: whom it knows at the start
    WithHub,     \* peers with a mailbox to fall back on
    QueueCap,    \* the broadcast channel's capacity, 256 in the code
    MaxFaults    \* bound on connections lost and processes restarted

ASSUME PeerAssumption == Peer # {} /\ NoConn \notin Conn
ASSUME MsgAssumption == From \in [Msg -> Peer] /\ To \in [Msg -> Peer]
ASSUME ContactAssumption ==
    /\ Contacts \in [Peer -> SUBSET Peer]
    /\ \A e \in Peer : e \notin Contacts[e]
    /\ \A m \in Msg : From[m] # To[m]
    /\ WithHub \subseteq Peer
ASSUME SessionBoundAssumption == QueueCap \in Nat \ {0} /\ MaxFaults \in Nat

VARIABLES
    dialing,   \* per peer: dials in flight
    ends,      \* per connection: the peer that dialled and the one that accepts
    status,    \* per connection: "open" or "closed"
    stage,     \* per peer and connection: where the session stands
    live,      \* App.live: per peer and peer, a connection
    queue,     \* per session: broadcasts its receiver has not taken yet
    wire,      \* per peer and connection: frames on their way to that peer
    reading,   \* per session: where read_frame stands in the stream
    store,     \* per peer: ops recorded from others
    shown,     \* per op: what became of deliver_to
    carried,   \* history: per op, connections whose session was given it
    lagged,    \* history: sessions whose receiver missed a broadcast
    doubled,   \* history: pairs that had two sessions at a time at one end
    faults

linkVars == <<dialing, ends, status>>
sessVars == <<stage, live, queue, wire, reading>>
histVars == <<carried, lagged, doubled>>
vars == <<linkVars, sessVars, store, shown, histVars, faults>>

Stage == {"none", "greeting", "listed", "select", "over", "dropped"}
Ended == {"none", "over", "dropped"}

EndsOf(c) == {ends[c].dialer, ends[c].acceptor}
Other(e, c) == IF e = ends[c].dialer THEN ends[c].acceptor ELSE ends[c].dialer

\* A connection nobody uses or remembers may stand for a new one.
Free(c) ==
    /\ status[c] = "closed"
    /\ \A e \in Peer : stage[e][c] \in Ended
    /\ \A e, p \in Peer : live[e][p] # c

\* Stands in the record of a connection that was never made.
Anybody == CHOOSE e \in Peer : TRUE

Init ==
    /\ dialing = [e \in Peer |-> {}]
    /\ ends = [c \in Conn |-> [dialer |-> Anybody, acceptor |-> Anybody]]
    /\ status = [c \in Conn |-> "closed"]
    /\ stage = [e \in Peer |-> [c \in Conn |-> "none"]]
    /\ live = [e \in Peer |-> [p \in Peer |-> NoConn]]
    /\ queue = [e \in Peer |-> [c \in Conn |-> << >>]]
    /\ wire = [e \in Peer |-> [c \in Conn |-> << >>]]
    /\ reading = [e \in Peer |-> [c \in Conn |-> "between"]]
    /\ store = [e \in Peer |-> {}]
    /\ shown = [m \in Msg |-> "none"]
    /\ carried = [m \in Msg |-> {}]
    /\ lagged = {} /\ doubled = {}
    /\ faults = 0

-----------------------------------------------------------------------------
(* Dialling.                                                               *)

\* record makes a contact of whoever an op comes from or is for.
Known(e) == Contacts[e] \cup {From[m] : m \in store[e]}
                        \cup {To[m] : m \in {n \in Msg : From[n] = e /\ shown[n] # "none"}}

\* dial_peer, for a contact that is neither connected nor being dialled.
Dial(e, p) ==
    /\ p \in Known(e)
    /\ live[e][p] = NoConn
    /\ p \notin dialing[e]
    /\ dialing' = [dialing EXCEPT ![e] = @ \cup {p}]
    /\ UNCHANGED <<ends, status, sessVars, store, shown, histVars, faults>>

DialFails(e, p) ==
    /\ p \in dialing[e]
    /\ dialing' = [dialing EXCEPT ![e] = @ \ {p}]
    /\ UNCHANGED <<ends, status, sessVars, store, shown, histVars, faults>>

\* The dialer's session opens the stream and says hello.
Connect(e, p, c) ==
    /\ p \in dialing[e]
    /\ Free(c)
    /\ dialing' = [dialing EXCEPT ![e] = @ \ {p}]
    /\ ends' = [ends EXCEPT ![c] = [dialer |-> e, acceptor |-> p]]
    /\ status' = [status EXCEPT ![c] = "open"]
    /\ stage' = [x \in Peer |-> [stage[x] EXCEPT ![c] = IF x = e THEN "greeting" ELSE "none"]]
    /\ queue' = [x \in Peer |-> [queue[x] EXCEPT ![c] = << >>]]
    /\ wire' = [x \in Peer |-> [wire[x] EXCEPT ![c] = << >>]]
    /\ reading' = [x \in Peer |-> [reading[x] EXCEPT ![c] = "between"]]
    /\ carried' = [m \in Msg |-> carried[m] \ {c}]
    /\ lagged' = {s \in lagged : s[2] # c}
    /\ UNCHANGED <<live, store, shown, doubled, faults>>

\* accept_loop: the acceptor's session takes the stream and says hello.
Accept(e, c) ==
    /\ status[c] = "open"
    /\ e = ends[c].acceptor
    /\ stage[e][c] = "none"
    /\ stage' = [stage EXCEPT ![e][c] = "greeting"]
    /\ UNCHANGED <<linkVars, live, queue, wire, reading, store, shown, histVars, faults>>

-----------------------------------------------------------------------------
(* A session, from the hello to its end.                                   *)

Broken(e, c) == status[c] = "closed" \/ stage[Other(e, c)][c] \in {"over", "dropped"}

Overlaps(e, c) ==
    \E d \in Conn \ {c} : /\ stage[e][d] \in {"listed", "select"}
                          /\ Other(e, d) = Other(e, c)

\* The other's hello: this connection is now the one in the live map,
\* whichever was there.
Greet(e, c) ==
    /\ stage[e][c] = "greeting"
    /\ stage[Other(e, c)][c] # "none"
    /\ stage' = [stage EXCEPT ![e][c] = "listed"]
    /\ live' = [live EXCEPT ![e][Other(e, c)] = c]
    /\ doubled' = IF Overlaps(e, c) THEN doubled \cup {<<e, Other(e, c)>>} ELSE doubled
    /\ UNCHANGED <<linkVars, queue, wire, reading, store, shown, carried, lagged, faults>>

\* The session's end, as far as the session's own state goes.
Finish(e, c, how) ==
    /\ stage' = [stage EXCEPT ![e][c] = how]
    /\ queue' = [queue EXCEPT ![e][c] = << >>]
    /\ wire' = [wire EXCEPT ![e][c] = << >>]
    /\ reading' = [reading EXCEPT ![e][c] = "between"]

GreetingFails(e, c) ==
    /\ stage[e][c] = "greeting"
    /\ Broken(e, c)
    /\ Finish(e, c, "over")
    /\ UNCHANGED <<linkVars, live, store, shown, histVars, faults>>

\* Only from here on does the session see what is broadcast.
Subscribe(e, c) ==
    /\ stage[e][c] = "listed"
    /\ stage' = [stage EXCEPT ![e][c] = "select"]
    /\ UNCHANGED <<linkVars, live, queue, wire, reading, store, shown, histVars, faults>>

\* read_frame has the length and waits for the rest.
ReadLength(e, c) ==
    /\ stage[e][c] = "select"
    /\ reading[e][c] = "between"
    /\ wire[e][c] # << >>
    /\ reading' = [reading EXCEPT ![e][c] = "inside"]
    /\ UNCHANGED <<linkVars, stage, live, queue, wire, store, shown, histVars, faults>>

\* Wrong: the op is read and not recorded.
ReadFrameUnrecorded(e, c) ==
    /\ stage[e][c] = "select"
    /\ reading[e][c] = "inside"
    /\ wire[e][c] # << >>
    /\ wire' = [wire EXCEPT ![e][c] = Tail(@)]
    /\ reading' = [reading EXCEPT ![e][c] = "between"]
    /\ UNCHANGED <<linkVars, stage, live, queue, store, shown, histVars, faults>>

\* accept records the op; a second copy of it is ignored by its id.
ReadFrame(e, c) ==
    /\ stage[e][c] = "select"
    /\ reading[e][c] = "inside"
    /\ wire[e][c] # << >>
    /\ store' = [store EXCEPT ![e] = @ \cup {Head(wire[e][c])}]
    /\ wire' = [wire EXCEPT ![e][c] = Tail(@)]
    /\ reading' = [reading EXCEPT ![e][c] = "between"]
    /\ UNCHANGED <<linkVars, stage, live, queue, shown, histVars, faults>>

\* Out of step, read_frame takes the middle of a frame for a length, and
\* what follows for a payload.
ReadGarbage(e, c) ==
    /\ stage[e][c] = "select"
    /\ reading[e][c] = "lost"
    /\ wire[e][c] # << >>
    /\ wire' = [wire EXCEPT ![e][c] = Tail(@)]
    /\ UNCHANGED <<linkVars, stage, live, queue, reading, store, shown, histVars, faults>>

\* Wrong: nobody is left in the live map.
UnlistAll(e, c) == live' = [live EXCEPT ![e] = [p \in Peer |-> NoConn]]

Unlist(e, c) == live' = [live EXCEPT ![e][Other(e, c)] = NoConn]

\* Wrong: the entry in the live map is left to the next session.
ReadEndsListed(e, c) ==
    /\ stage[e][c] = "select"
    /\ \/ wire[e][c] = << >> /\ Broken(e, c)
       \/ reading[e][c] = "lost"
    /\ Finish(e, c, "over")
    /\ UNCHANGED <<linkVars, live, store, shown, histVars, faults>>

\* The end of the stream, a lost connection or a frame that does not decode.
\* The peer's entry is removed, even one that a newer connection has made.
ReadEnds(e, c) ==
    /\ stage[e][c] = "select"
    /\ \/ wire[e][c] = << >> /\ Broken(e, c)
       \/ reading[e][c] = "lost"
    /\ Finish(e, c, "over")
    /\ Unlist(e, c)
    /\ UNCHANGED <<linkVars, store, shown, histVars, faults>>

\* select! drops a read_frame that was under way whenever a broadcast comes.
Interrupted(e, c) ==
    reading' = [reading EXCEPT ![e][c] = IF @ = "inside" THEN "lost" ELSE @]

\* Wrong: a frame for another peer is written to this one too.
WriteToAll(e, c) ==
    /\ stage[e][c] = "select"
    /\ queue[e][c] # << >>
    /\ LET m == Head(queue[e][c])
           p == Other(e, c)
       IN  wire' = IF Broken(e, c) THEN wire
                   ELSE [wire EXCEPT ![p][c] = Append(@, m)]
    /\ queue' = [queue EXCEPT ![e][c] = Tail(@)]
    /\ Interrupted(e, c)
    /\ UNCHANGED <<linkVars, stage, live, store, shown, histVars, faults>>

\* Wrong: what is for this peer is skipped.
WriteOthers(e, c) ==
    /\ stage[e][c] = "select"
    /\ queue[e][c] # << >>
    /\ LET m == Head(queue[e][c])
           p == Other(e, c)
       IN  wire' = IF To[m] = p \/ Broken(e, c) THEN wire
                   ELSE [wire EXCEPT ![p][c] = Append(@, m)]
    /\ queue' = [queue EXCEPT ![e][c] = Tail(@)]
    /\ Interrupted(e, c)
    /\ UNCHANGED <<linkVars, stage, live, store, shown, histVars, faults>>

\* A broadcast for another peer is skipped. One for this peer is written, and
\* goes nowhere when the connection is gone and this end has not noticed.
Write(e, c) ==
    /\ stage[e][c] = "select"
    /\ queue[e][c] # << >>
    /\ LET m == Head(queue[e][c])
           p == Other(e, c)
       IN  wire' = IF To[m] # p \/ Broken(e, c) THEN wire
                   ELSE [wire EXCEPT ![p][c] = Append(@, m)]
    /\ queue' = [queue EXCEPT ![e][c] = Tail(@)]
    /\ Interrupted(e, c)
    /\ UNCHANGED <<linkVars, stage, live, store, shown, histVars, faults>>

\* The error of write_frame leaves the session by `?', past the lines that
\* take the peer out of the live map.
WriteFails(e, c) ==
    /\ stage[e][c] = "select"
    /\ queue[e][c] # << >>
    /\ To[Head(queue[e][c])] = Other(e, c)
    /\ Broken(e, c)
    /\ Finish(e, c, "dropped")
    /\ UNCHANGED <<linkVars, live, store, shown, histVars, faults>>

-----------------------------------------------------------------------------
(* deliver_to.                                                             *)

\* The live map decides how an op travels.
Route(m) ==
    /\ shown[m] = "none"
    /\ shown' = [shown EXCEPT ![m] =
                   IF live[From[m]][To[m]] # NoConn THEN "routed"
                   ELSE IF From[m] \in WithHub THEN "mailbox" ELSE "failed"]
    /\ UNCHANGED <<linkVars, sessVars, store, histVars, faults>>

\* Wrong: the channel has no capacity.
ReceivedAll(q, m) == Append(q, m)

\* A receiver holds the last QueueCap broadcasts.
Received(q, m) == IF Len(q) < QueueCap THEN Append(q, m) ELSE Append(Tail(q), m)

\* The op is broadcast to whoever is subscribed and reported as sent.
Broadcast(m) ==
    /\ shown[m] = "routed"
    /\ shown' = [shown EXCEPT ![m] = "wire"]
    /\ LET e == From[m]
           there == {c \in Conn : stage[e][c] = "select"}
       IN  /\ queue' = [queue EXCEPT ![e] =
                          [c \in Conn |-> IF c \in there THEN Received(@[c], m) ELSE @[c]]]
           /\ carried' = [carried EXCEPT ![m] = {c \in there : Other(e, c) = To[m]}]
           /\ lagged' = lagged \cup {<<e, c>> : c \in {d \in there : Len(queue[e][d]) = QueueCap}}
    /\ UNCHANGED <<linkVars, stage, live, wire, reading, store, doubled, faults>>

-----------------------------------------------------------------------------
(* What may go wrong outside.                                              *)

Lose(c) ==
    /\ faults < MaxFaults
    /\ status[c] = "open"
    /\ faults' = faults + 1
    /\ status' = [status EXCEPT ![c] = "closed"]
    /\ UNCHANGED <<dialing, ends, sessVars, store, shown, histVars>>

\* Frames that had not arrived when the connection closed.
LoseTail(e, c) ==
    /\ status[c] = "closed"
    /\ wire[e][c] # << >>
    /\ wire' = [wire EXCEPT ![e][c] = SubSeq(@, 1, Len(@) - 1)]
    /\ UNCHANGED <<linkVars, stage, live, queue, reading, store, shown, histVars, faults>>

\* A restart keeps the store. An op that was recorded and not yet sent is
\* never sent: there is no outbox.
Restart(e) ==
    /\ faults < MaxFaults
    /\ faults' = faults + 1
    /\ dialing' = [dialing EXCEPT ![e] = {}]
    /\ status' = [c \in Conn |-> IF e \in EndsOf(c) THEN "closed" ELSE status[c]]
    /\ stage' = [stage EXCEPT ![e] = [c \in Conn |-> IF @[c] = "none" THEN "none" ELSE "over"]]
    /\ live' = [live EXCEPT ![e] = [p \in Peer |-> NoConn]]
    /\ queue' = [queue EXCEPT ![e] = [c \in Conn |-> << >>]]
    /\ wire' = [wire EXCEPT ![e] = [c \in Conn |-> << >>]]
    /\ reading' = [reading EXCEPT ![e] = [c \in Conn |-> "between"]]
    /\ shown' = [m \in Msg |-> IF From[m] = e /\ shown[m] = "routed" THEN "gone" ELSE shown[m]]
    /\ UNCHANGED <<ends, store, histVars>>

-----------------------------------------------------------------------------
SessionStep(e, c) ==
    \/ ReadLength(e, c) \/ ReadFrame(e, c) \/ ReadGarbage(e, c) \/ ReadEnds(e, c)
    \/ Write(e, c) \/ WriteFails(e, c)

Next ==
    \/ \E e, p \in Peer : Dial(e, p) \/ DialFails(e, p)
    \/ \E e, p \in Peer, c \in Conn : Connect(e, p, c)
    \/ \E e \in Peer, c \in Conn :
          \/ Accept(e, c) \/ Greet(e, c) \/ GreetingFails(e, c) \/ Subscribe(e, c)
          \/ SessionStep(e, c)
          \/ LoseTail(e, c)
    \/ \E m \in Msg : Route(m) \/ Broadcast(m)
    \/ \E c \in Conn : Lose(c)
    \/ \E e \in Peer : Restart(e)

Spec == Init /\ [][Next]_vars

\* Every task runs: the reconnect loop goes round, both ends greet, a session's
\* select! takes whatever is ready. Of infinitely many dials to an endpoint
\* that is there one lands.
FairSpec ==
    /\ Spec
    /\ \A e, p \in Peer :
          /\ WF_vars(Dial(e, p))
          /\ SF_vars(\E c \in Conn : Connect(e, p, c))
    /\ \A e \in Peer, c \in Conn :
          /\ WF_vars(Accept(e, c))
          /\ WF_vars(Greet(e, c) \/ GreetingFails(e, c))
          /\ WF_vars(Subscribe(e, c))
          /\ WF_vars(SessionStep(e, c))

-----------------------------------------------------------------------------
TypeOK ==
    /\ dialing \in [Peer -> SUBSET Peer]
    /\ ends \in [Conn -> [dialer : Peer, acceptor : Peer]]
    /\ status \in [Conn -> {"open", "closed"}]
    /\ stage \in [Peer -> [Conn -> Stage]]
    /\ live \in [Peer -> [Peer -> Conn \cup {NoConn}]]
    /\ queue \in [Peer -> [Conn -> Seq(Msg)]]
    /\ \A e \in Peer, c \in Conn : Len(queue[e][c]) <= QueueCap
    /\ wire \in [Peer -> [Conn -> Seq(Msg)]]
    /\ reading \in [Peer -> [Conn -> {"between", "inside", "lost"}]]
    /\ store \in [Peer -> SUBSET Msg]
    /\ shown \in [Msg -> {"none", "routed", "wire", "mailbox", "failed", "gone"}]
    /\ carried \in [Msg -> SUBSET Conn]
    /\ lagged \subseteq Peer \X Conn
    /\ doubled \subseteq Peer \X Peer
    /\ faults \in 0..MaxFaults

\* What the live map holds for a peer is a session with that peer that is
\* running, or one that ended in a failed write; nothing else is left behind.
LiveIsSession ==
    \A e, p \in Peer : \A c \in Conn :
        live[e][p] = c => /\ EndsOf(c) = {e, p}
                          /\ stage[e][c] \in {"listed", "select", "dropped"}

\* An op is broadcast to every session of its sender, yet nobody but the
\* addressee records it.
OnlyAddressee == \A p \in Peer : \A m \in store[p] : To[m] = p

\* A peer with a session that runs is treated as offline only if two
\* connections of the pair overlapped: the end of one unlists the other.
UnlistedNeedsTwo ==
    \A e \in Peer, c \in Conn :
        stage[e][c] \in {"listed", "select"} /\ live[e][Other(e, c)] = NoConn
            => <<e, Other(e, c)>> \in doubled

InSeq(m, s) == \E i \in 1..Len(s) : s[i] = m

Intact(m, c) ==
    /\ status[c] = "open"
    /\ stage[From[m]][c] = "select"
    /\ <<From[m], c>> \notin lagged
    /\ stage[To[m]][c] \in {"greeting", "listed", "select"}
    /\ reading[To[m]][c] # "lost"

\* An op that a session took is in its queue, on the wire or at its
\* destination, as long as the connection lasts, the receiver did not lag and
\* the reader was not interrupted inside a frame. Nothing else loses one.
Custody ==
    \A m \in Msg : \A c \in carried[m] :
        Intact(m, c) => \/ InSeq(m, queue[From[m]][c])
                        \/ InSeq(m, wire[To[m]][c])
                        \/ m \in store[To[m]]

\* An op shown as Wire, "Straight down a live QUIC connection" (ui.rs:74), was
\* handed to a session with its addressee, but for three ways to be in the live
\* map and not to listen: a session that has not subscribed yet, one that ended in
\* a failed write, and one whose entry went between the look at the map and the
\* broadcast (deliver_to).
Deaf(e, c) == c = NoConn \/ stage[e][c] \in {"listed", "dropped"}
WireIsTakenUnlessDeaf ==
    [][\A m \in Msg :
          shown[m] # "wire" /\ shown'[m] = "wire"
             => carried'[m] # {} \/ Deaf(From[m], live[From[m]][To[m]])]_vars

Linked(e, p) ==
    \E c \in Conn : /\ EndsOf(c) = {e, p}
                    /\ status[c] = "open"
                    /\ stage[e][c] = "select" /\ stage[p][c] = "select"

Stuck(e, p) == \E c \in Conn : live[e][p] = c /\ stage[e][c] = "dropped"

\* A contact is found again after any connection is lost, unless everybody who
\* would dial lost it in the middle of a write.
ComesBackUnlessStuck ==
    \A e, p \in Peer :
        p \in Contacts[e] =>
            []<>(Linked(e, p) \/ (Stuck(e, p) /\ (e \in Known(p) => Stuck(p, e))))

\* "This redials anything known and not currently connected, so coming back
\* online is enough."
ComesBack ==
    \A e, p \in Peer : p \in Contacts[e] => []<>Linked(e, p)

\* An op that a session took arrives, or that session does not stay intact.
CarriedArrives ==
    \A m \in Msg : \A c \in Conn :
        c \in carried[m] ~> (m \in store[To[m]] \/ c \notin carried[m] \/ ~ Intact(m, c))
=============================================================================
