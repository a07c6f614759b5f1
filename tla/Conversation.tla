---------------------------- MODULE Conversation ----------------------------
(***************************************************************************)
(* Two endpoints in one conversation: ops minted, recorded, carried in any *)
(* order and more than once; attachments on streams of their own; the      *)
(* conversation cleared, forgotten or wiped on either side; restarts; and  *)
(* wall clocks that need not agree and may be set back.                    *)
(*                                                                         *)
(* Source: dispatch, accept and forget of crates/wicara/src/main.rs, all   *)
(* of crates/wicara/src/files.rs, crates/wicara/src/store.rs.  An action   *)
(* is one stretch of code between two points where other tasks can run.    *)
(***************************************************************************)
EXTENDS OpStore

CONSTANTS
  Short,       \* the first four bytes of an endpoint's key, which others may share
  Sources,     \* the paths of the files users send, all outside `files/'
  Owner,       \* whose file a source is
  SafeName,    \* the name of a source, as safe_name leaves it
  Chunks,      \* what one chunk of a file may hold
  Contents,    \* what each source may hold, chunk by chunk
  MaxFile,     \* files.rs MAX_FILE, in chunks
  Idle,        \* no attachment is under way
  Absent,      \* no file, or no recorded path
  MaxSeq,      \* bound on the ops of one behaviour
  MaxClock,    \* bound on the clocks
  Budgets      \* how often a behaviour may do what is unbounded in the code

ASSUME PeersAssumption ==
  IsFiniteSet(Peers) /\ \A e \in Peers : Peers # {e}
Budget == [writes : Nat, files : Nat, removals : Nat, restarts : Nat, rewinds : Nat, rewrites : Nat]
ASSUME BoundsAssumption ==
  /\ MaxFile \in Nat /\ MaxSeq \in Nat /\ MaxClock \in Nat \ {0}
  /\ Budgets \subseteq Budget /\ \A b \in Budgets : b.writes + b.files <= MaxSeq
ASSUME SourcesAssumption ==
  \A p \in Sources : Owner[p] \in Peers /\ \A c \in Contents[p] : c \in Seq(Chunks)

VARIABLES
  table,      \* each endpoint's ops table, in row order
  counter,    \* the last sequence number minted by the running process
  clock,      \* each endpoint's wall clock
  paths,      \* settings `file:<id>': where an attachment is on this machine
  disk,       \* the files of each machine: the user's own, and those in `files/'
  mail,       \* ops sent to an endpoint, live or through the hub
  xfer,       \* the attachment under way
  doomed,     \* files of a removed conversation, not unlinked yet
  minted,     \* history: the ids an endpoint handed out, in order
  rewound,    \* history: endpoints whose clock was ever set back
  twice,      \* history: endpoints that handed out an id a second time
  offers,     \* history: the ids and names of the attachments there were
  stray,      \* history: files whose transfer broke off or outlived its message
  left        \* what is left of the budget

history == <<minted, rewound, twice, offers, stray>>
vars == <<table, counter, clock, paths, disk, mail, xfer, doomed, history, left>>

Peer(e) == CHOOSE p \in Peers : p # e

\* Display prints four bytes of the sender and the sequence number. That is the
\* setting of an attachment (file_key), and with its name the file receive makes.
Display(id)        == <<Short[id.sender], id.seq>>
FileName(id, name) == <<Display(id), name>>

Settings == {Short[e] : e \in Peers} \X (1..MaxSeq)
Files    == Settings \X {SafeName[p] : p \in Sources}
Paths    == Files \cup Sources

\* The attachment under way: the header, what the file holds, what arrived.
Stages == {"measured", "recorded", "header", "bytes"}
Xfers  == [from : Peers, path : Sources, stage : Stages, live : BOOLEAN, id : Id \cup {Absent},
           size : Nat, hash : Seq(Chunks), data : Seq(Chunks), got : Seq(Chunks)]

ASSUME SentinelsAssumption ==
  Idle \notin Xfers /\ Absent \notin Paths /\ Absent \notin Seq(Chunks) /\ Sources \cap Files = {}

Init ==
  /\ left    \in Budgets
  /\ table   = [e \in Peers |-> <<>>]
  /\ counter = [e \in Peers |-> 0]
  /\ clock   = [e \in Peers |-> 1]
  /\ paths   = [e \in Peers |-> [s \in Settings |-> Absent]]
  /\ \E held \in [Sources -> UNION {Contents[p] : p \in Sources}] :
       /\ \A p \in Sources : held[p] \in Contents[p]
       /\ disk = [e \in Peers |-> [p \in Paths |->
                   IF left.files > 0 /\ p \in Sources /\ e = Owner[p] THEN held[p] ELSE Absent]]
  /\ mail    = [e \in Peers |-> {}]
  /\ xfer    = Idle
  /\ doomed  = [e \in Peers |-> {}]
  /\ minted  = [e \in Peers |-> <<>>]
  /\ rewound = {}
  /\ twice   = {}
  /\ offers  = {}
  /\ stray   = [e \in Peers |-> {}]

Spend(what) == left[what] > 0 /\ left' = [left EXCEPT ![what] = @ - 1]

(***************************************************************************)
(* Counter::mint.                                                          *)
(***************************************************************************)
\* Wrong: the clock is not part of the id.
NextIdUntimed(e) == [sender |-> e, seq |-> counter[e] + 1, ts |-> 1]

NextId(e) == [sender |-> e, seq |-> counter[e] + 1, ts |-> clock[e]]

Mint(e) ==
  /\ counter' = [counter EXCEPT ![e] = @ + 1]
  /\ minted'  = [minted EXCEPT ![e] = Append(@, NextId(e))]
  /\ twice'   = IF NextId(e) \in Range(minted[e]) THEN twice \cup {e} ELSE twice

(***************************************************************************)
(* dispatch: Send, Edit, Delete and React mint, record and deliver.  The   *)
(* target may be any message of the table: nothing between the interface   *)
(* and the fold checks whose it is.                                        *)
(***************************************************************************)
Messages(e) == {op.id : op \in {o \in Ops(table[e]) : IsMessage(o)}}

NewOps(e) ==
  {Chat(NextId(e))}
    \cup {Edit(NextId(e), m) : m \in Messages(e)}
    \cup {Delete(NextId(e), m) : m \in Messages(e)}
    \cup {React(NextId(e), m, on) : m \in Messages(e), on \in BOOLEAN}

\* dispatch takes one command at a time, and unlinking is part of a command.
Free(e) == doomed[e] = {}

Write(e) ==
  /\ Free(e)
  /\ \E op \in NewOps(e) :
       /\ Spend("writes") /\ Mint(e)
       /\ table' = [table EXCEPT ![e] = Record(@, op)]
       /\ mail'  = [mail EXCEPT ![Peer(e)] = @ \cup {op}]
       /\ UNCHANGED <<clock, paths, disk, xfer, doomed, rewound, offers, stray>>

\* App::accept: ops come in any order, and again after they were recorded.
Accept(e) ==
  \E op \in mail[e] :
    /\ table' = [table EXCEPT ![e] = Record(@, op)]
    /\ UNCHANGED <<counter, clock, paths, disk, mail, xfer, doomed, history, left>>

(***************************************************************************)
(* files::send and files::receive.                                         *)
(***************************************************************************)
PickFile(p) ==
  LET held == disk[Owner[p]][p] IN
  /\ xfer = Idle /\ Free(Owner[p])
  /\ held # Absent /\ Len(held) <= MaxFile
  /\ xfer' = [from |-> Owner[p], path |-> p, stage |-> "measured", live |-> TRUE, id |-> Absent,
              size |-> Len(held), hash |-> <<>>, data |-> <<>>, got |-> <<>>]
  /\ UNCHANGED <<table, counter, clock, paths, disk, mail, doomed, history, left>>

Stage(stage) == xfer # Idle /\ xfer.stage = stage
Held         == disk[xfer.from][xfer.path]
Incoming     == FileName(xfer.id, SafeName[xfer.path])

\* The file is read for its hash; then the header is minted and recorded.
Offer ==
  /\ Stage("measured")
  /\ LET e == xfer.from IN
       /\ Held # Absent
       /\ Spend("files") /\ Mint(e)
       /\ table'  = [table EXCEPT ![e] = Record(@, File(NextId(e), xfer.size, Held))]
       /\ offers' = offers \cup {[id |-> NextId(e), name |-> SafeName[xfer.path]]}
       /\ xfer'   = [xfer EXCEPT !.stage = "recorded", !.hash = Held, !.id = NextId(e)]
  /\ UNCHANGED <<clock, paths, disk, mail, doomed, rewound, stray>>

\* The sender's own path is recorded for its attachment; the header goes out
\* if the connection is still there.
Announce ==
  /\ Stage("recorded")
  /\ paths' = [paths EXCEPT ![xfer.from][Display(xfer.id)] = xfer.path]
  /\ xfer'  = IF xfer.live THEN [xfer EXCEPT !.stage = "header"] ELSE Idle
  /\ UNCHANGED <<table, counter, clock, disk, mail, doomed, history, left>>

\* receive records the header and creates the file, emptying one of that name;
\* the sender opens its own.
Open ==
  /\ Stage("header") /\ xfer.size <= MaxFile /\ Held # Absent
  /\ LET to == Peer(xfer.from) IN
       /\ table' = [table EXCEPT ![to] = Record(@, File(xfer.id, xfer.size, xfer.hash))]
       /\ disk'  = [disk EXCEPT ![to][Incoming] = <<>>]
  /\ xfer' = [xfer EXCEPT !.stage = "bytes", !.data = Held]
  /\ UNCHANGED <<counter, clock, paths, mail, doomed, history, left>>

\* Wrong: a refused file stays.
DiscardNothing(to) == UNCHANGED disk

Discard(to) == disk' = [disk EXCEPT ![to][Incoming] = Absent]

Chunk ==
  /\ Stage("bytes") /\ Len(xfer.got) < Len(xfer.data)
  /\ LET to  == Peer(xfer.from)
         got == Append(xfer.got, xfer.data[Len(xfer.got) + 1])
     IN  IF Len(got) > xfer.size
         THEN Discard(to) /\ xfer' = Idle
         ELSE /\ disk' = [disk EXCEPT ![to][Incoming] = IF @ = Absent THEN Absent ELSE got]
              /\ xfer' = [xfer EXCEPT !.got = got]
  /\ UNCHANGED <<table, counter, clock, paths, mail, doomed, history, left>>

\* Wrong: the length alone is compared.
FinishUnhashed ==
  /\ Stage("bytes")
  /\ LET to == Peer(xfer.from) IN
       IF Len(xfer.got) # xfer.size
       THEN Discard(to) /\ UNCHANGED paths
       ELSE paths' = [paths EXCEPT ![to][Display(xfer.id)] = Incoming] /\ UNCHANGED disk
  /\ xfer' = Idle
  /\ UNCHANGED <<table, counter, clock, mail, doomed, history, left>>

\* The stream ends: with the file, or early when its sender cannot read on.
Finish ==
  /\ Stage("bytes")
  /\ LET to == Peer(xfer.from) IN
       IF Len(xfer.got) # xfer.size \/ xfer.got # xfer.hash
       THEN Discard(to) /\ UNCHANGED paths
       ELSE paths' = [paths EXCEPT ![to][Display(xfer.id)] = Incoming] /\ UNCHANGED disk
  /\ xfer' = Idle
  /\ UNCHANGED <<table, counter, clock, mail, doomed, history, left>>

\* The connection is lost, or one end stops.  What arrived stays on disk.
Receiving(e) == IF Stage("bytes") /\ e = Peer(xfer.from) THEN {Incoming} ELSE {}

Break ==
  /\ xfer # Idle /\ xfer' = Idle
  /\ stray' = [e \in Peers |-> stray[e] \cup Receiving(e)]
  /\ UNCHANGED <<table, counter, clock, paths, disk, mail, doomed, minted, rewound, twice, offers, left>>

(***************************************************************************)
(* Store::clear, forget and wipe, then unlink_all.  The files are those    *)
(* the settings of the conversation's attachments lead to; one without a   *)
(* setting, and one that is arriving, is not among them.  The settings of  *)
(* all its messages go, or all there are.                                  *)
(***************************************************************************)
Named(e)   == {Display(op.id) : op \in {o \in Ops(table[e]) : o.kind = "file"}}
FilesOf(e) == {paths[e][s] : s \in Named(e)} \ {Absent}

Empty(e, settings) ==
  /\ Free(e) /\ Spend("removals")
  /\ table'  = [table EXCEPT ![e] = <<>>]
  /\ paths'  = [paths EXCEPT ![e] = [s \in Settings |-> IF s \in settings THEN Absent ELSE @[s]]]
  /\ doomed' = [doomed EXCEPT ![e] = FilesOf(e)]
  /\ UNCHANGED <<counter, clock, disk, mail, minted, rewound, twice, offers>>

SettingsOf(e) == {Display(id) : id \in Messages(e)}

Clear(e) ==
  /\ Empty(e, SettingsOf(e))
  /\ stray' = [stray EXCEPT ![e] = @ \cup Receiving(e)]
  /\ UNCHANGED xfer

\* forget and wipe close the connection first.  That ends a transfer whose
\* header is out; one that still hashes its file goes on and finds out later.
HangUp ==
  /\ xfer'  = CASE xfer = Idle -> Idle
                [] Stage("measured") \/ Stage("recorded") -> [xfer EXCEPT !.live = FALSE]
                [] OTHER -> Idle
  /\ stray' = [e \in Peers |-> stray[e] \cup Receiving(e)]

Forget(e) == Empty(e, SettingsOf(e)) /\ HangUp
Wipe(e)   == Empty(e, Settings) /\ HangUp

Unlink(e) ==
  /\ ~Free(e)
  /\ disk'   = [disk EXCEPT ![e] = [p \in Paths |-> IF p \in doomed[e] THEN Absent ELSE @[p]]]
  /\ doomed' = [doomed EXCEPT ![e] = {}]
  /\ UNCHANGED <<table, counter, clock, paths, mail, xfer, history, left>>

(***************************************************************************)
(* Restarts, clocks, and the user's own file.                              *)
(***************************************************************************)
Restart(e) ==
  /\ clock[e] < MaxClock
  /\ Spend("restarts")
  /\ counter' = [counter EXCEPT ![e] = Resume(table[e], e)]
  /\ clock'   = [clock EXCEPT ![e] = @ + 1]     \* it takes more than a millisecond
  /\ xfer'    = IF xfer # Idle /\ xfer.from # e /\ ~Stage("bytes") /\ ~Stage("header")
                THEN [xfer EXCEPT !.live = FALSE] ELSE Idle
  /\ stray'   = [p \in Peers |-> stray[p] \cup Receiving(p)
                                   \cup (IF p = e THEN doomed[e] \ Sources ELSE {})]
  /\ doomed'  = [doomed EXCEPT ![e] = {}]
  /\ UNCHANGED <<table, paths, disk, mail, minted, rewound, twice, offers>>

Tick(e) ==
  /\ clock[e] < MaxClock
  /\ clock' = [clock EXCEPT ![e] = @ + 1]
  /\ UNCHANGED <<table, counter, paths, disk, mail, xfer, doomed, history, left>>

SetBack(e) ==
  /\ clock[e] > 1 /\ Spend("rewinds")
  /\ clock'   = [clock EXCEPT ![e] = @ - 1]
  /\ rewound' = rewound \cup {e}
  /\ UNCHANGED <<table, counter, paths, disk, mail, xfer, doomed, minted, twice, offers, stray>>

\* The user changes the file, also while it is being read.
EditFile(p) ==
  LET held == disk[Owner[p]][p] IN
  /\ held # Absent /\ Spend("rewrites")
  /\ \E c \in Contents[p] \ {held} :
       /\ disk' = [disk EXCEPT ![Owner[p]][p] = c]
       /\ xfer' = IF Stage("bytes") /\ xfer.path = p THEN [xfer EXCEPT !.data = c] ELSE xfer
  /\ UNCHANGED <<table, counter, clock, paths, mail, doomed, history>>

Attachment == Offer \/ Announce \/ Open \/ Chunk \/ Finish \/ Break

Next ==
  \/ Attachment
  \/ \E e \in Peers :
       \/ Write(e) \/ Accept(e)
       \/ Clear(e) \/ Forget(e) \/ Wipe(e) \/ Unlink(e)
       \/ Restart(e) \/ Tick(e) \/ SetBack(e)
  \/ \E p \in Sources : PickFile(p) \/ EditFile(p)

Spec == Init /\ [][Next]_vars
-----------------------------------------------------------------------------
TypeOK ==
  /\ \A e \in Peers : /\ \A op \in Ops(table[e]) : op.id \in Id
                      /\ \A i, j \in DOMAIN table[e] :
                           table[e][i].id = table[e][j].id => i = j
  /\ counter \in [Peers -> 0..MaxSeq]
  /\ clock \in [Peers -> 1..MaxClock]
  /\ paths \in [Peers -> [Settings -> Paths \cup {Absent}]]
  /\ \A e \in Peers, p \in Paths : disk[e][p] = Absent \/ disk[e][p] \in Seq(Chunks)
  /\ \A e \in Peers : /\ minted[e] \in Seq([sender : {e}, seq : 1..MaxSeq, ts : 1..MaxClock])
                      /\ doomed[e] \subseteq Paths
  /\ rewound \subseteq Peers /\ twice \subseteq Peers
  /\ offers \subseteq [id : Id, name : {SafeName[p] : p \in Sources}]
  /\ stray \in [Peers -> SUBSET Files]
  /\ xfer \in Xfers \cup {Idle}

\* A message shows the text of the change its author made last, among those
\* that arrived, and each peer's last reaction; it is deleted once its author
\* said so.  "Last" is the order in which the author minted the ops: the fold
\* goes by clocks (store.rs:201), which agrees as long as none was set back.
Nth(op)     == CHOOSE n \in DOMAIN minted[op.id.sender] : minted[op.id.sender][n] = op.id
Latest(ops) == CHOOSE op \in ops : \A o \in ops : Nth(o) <= Nth(op)

Changes(e, id) ==
  {op \in Ops(table[e]) : \/ op.id = id
                          \/ op.kind \in {"edit", "delete"} /\ op.target = id /\ IsAuthors(op)}
Reactions(e, id, p) ==
  {op \in Ops(table[e]) : op.kind = "react" /\ op.target = id /\ op.id.sender = p}

LastWord ==
  \A e \in Peers :
    LET shown == History(table[e]) IN
    /\ {m.id : m \in Range(shown)} = Messages(e) /\ Len(shown) = Cardinality(Messages(e))
    /\ \A m \in Range(shown) :
         /\ m.id.sender \notin rewound =>
              LET last == Latest(Changes(e, m.id)) IN
              /\ m.text = IF last.kind = "delete" THEN NoText ELSE last.id
              /\ m.deleted = \E op \in Changes(e, m.id) : op.kind = "delete"
         /\ \A p \in Peers \ rewound :
              LET toggles == Reactions(e, m.id, p) IN
              p \in m.reactors <=> toggles # {} /\ Latest(toggles).on

\* Two endpoints that hold the same ops show the same conversation, however
\* the ops reached them, unless two of the ops are alike in both of the columns
\* the query orders by (store.rs:201).
Tied(rows) == \E p, q \in Ops(rows) : /\ p.id # q.id
                                      /\ p.id.ts = q.id.ts /\ p.id.seq = q.id.seq
EndsAgree ==
  \A e, f \in Peers :
    Ops(table[e]) = Ops(table[f]) /\ table[e] # table[f] /\ ~Tied(table[e])
      => History(table[e]) = History(table[f])

\* Whatever arrives, and however late, only an op of its author changes the
\* text of a message that is shown already, or deletes it (store.rs:191-193).
Added(e) == Ops(table'[e]) \ Ops(table[e])
AuthorOnly ==
  [][\A e \in Peers :
       table'[e] # table[e] =>
       \A m \in Range(History(table[e])), n \in Range(History(table'[e])) :
         (m.id = n.id /\ <<m.text, m.deleted>> # <<n.text, n.deleted>>)
           => \E op \in Added(e) : op.id.sender = m.id.sender]_vars

\* A message shown as deleted is never shown again with a text, by an edit
\* that was overtaken by the delete or in any other way.
DeletedStays ==
  [][\A e \in Peers :
       table'[e] # table[e] =>
       \A m \in Range(History(table[e])), n \in Range(History(table'[e])) :
         (m.id = n.id /\ m.deleted) => n.deleted]_vars

\* An id is handed out again only by an endpoint whose clock was set back:
\* neither a cleared conversation nor a restart is enough (wire.rs:12-14,
\* store.rs:55-56).
NoIdTwice == twice \subseteq rewound

\* The attachments that share a setting. Their files share it too, and are one
\* file if the names are alike.
Under(s) == {o \in offers : Display(o.id) = s}
MintedTwice(s) == \E o \in Under(s) : o.id.sender \in twice

\* A recorded path of an attachment that arrived leads to bytes with the hash of
\* its header, unless another attachment has the same setting: a sequence number
\* used for two, or two senders with the same four bytes (files.rs:162-170).
Reused(s) == MintedTwice(s) \/ \E o, q \in Under(s) : o # q
PathTruthful ==
  \A e \in Peers : \A op \in Ops(table[e]) :
    LET path == paths[e][Display(op.id)] IN
    op.kind = "file" /\ op.id.sender # e /\ path # Absent
      => disk[e][path] = op.hash \/ Reused(Display(op.id))

\* Every file that came in belongs to a message whose setting leads to it or to
\* the transfer under way, or is about to be unlinked; unless its transfer broke
\* off, or ran while the conversation was removed, or a restart came before the
\* unlinking, or its setting was overwritten for an attachment of another name or
\* sender, or its id was not new (files.rs:133-165, store.rs:356-363, 468-471).
Contested(s) ==
  MintedTwice(s) \/ \E o, q \in Under(s) : o.name # q.name \/ o.id.sender # q.id.sender
OrphanNeedsCause ==
  \A e \in Peers : \A f \in Files :
    disk[e][f] # Absent =>
      \/ f[1] \in Named(e) /\ paths[e][f[1]] = f
      \/ f \in Receiving(e) \cup doomed[e] \cup stray[e]
      \/ Contested(f[1])

\* Removing a conversation takes the files it brought (store.rs:356-357, and
\* main.rs:467-468, "a photo that arrived in a conversation you deleted"), so
\* the user's own file is not among them.
OwnFileStays == \A p \in Sources : disk[Owner[p]][p] # Absent
=============================================================================
