# Verification of wicara

wicara is a terminal messenger. Two endpoints that are both online talk over an
authenticated QUIC connection (iroh). What is written to somebody who is not
there is sealed to that peer's prekey and left on a *hub*, an HTTP server that
is not trusted with content or membership. Rooms are signed, hash-chained
membership logs that every endpoint replays for itself.

This directory holds TLA+ models translated from the Rust source under `src/`,
the TLC configurations that check them, and proofs for TLAPS.

## 1. The system

| Part | Source | State | Operations |
|---|---|---|---|
| Room log | `wicara-core/src/room.rs` | none: a log is a list of entries | `RoomEntry::new`, `hash`, `verify_signature`, `verify_log` |
| Room logs in motion | `wicara/src/main.rs` `append`, `absorb_room`, `fetch_room`, `load_rooms`, `show_room`, `publish_room`; hub `put_room`, `get_room` | the log in each endpoint's store, its replay in `App.rooms`, the hub's `rooms` table | a room command, a log handed over by a peer, a refresh from the hub, a restart |
| Offline mail | `main.rs` `deliver_to`, `mail_to`, `mailbox_loop`; `wicara/src/hub.rs`; `wicara-hub/src/main.rs`, `store.rs` | the hub's `mail` table, each client's batch in hand and local store | post, fetch, delete, sweep, the two client tasks |
| Prekey directory | the same files | the hub's `prekeys` table | publish at start, fetch before sealing |
| Sessions | `main.rs` `session`, `dial_peer`, `accept_loop`, `reconnect_loop`, `deliver`, `forget` | `live`, `dialing`, the `outbound` broadcast channel | connect, hello, select over frames and broadcasts, disconnect |
| Framing, ids | `wicara-core/src/wire.rs` | bytes of a stream; the `Counter` | `read_frame`, `write_frame`, `mint` |
| Op store | `wicara/src/store.rs` | the `ops`, `contacts`, `rooms`, `settings` tables | `record`, `history`, `forget`, `clear`, `wipe` |
| File transfer | `wicara/src/files.rs` | a stream, a partial file | `send`, `accept_loop`, `receive` |
| Terminal UI | `wicara/src/ui.rs` | peers in a list, a selected index, pending edit or reply, delivery marks | keys, slash commands, events |
| Identity, vault, e2e | `identity.rs`, `vault.rs`, `e2e.rs` | keys | load or create, seal, open, sign |

How they interact. `dispatch` takes a command from the UI, mints an id, records
the op and calls `deliver`, which goes to every member of a room or to one peer.
`deliver_to` broadcasts the op to the live sessions if the peer is in `live`,
and otherwise spawns `mail_to`. `session` and `mailbox_loop` both end in
`accept`, which checks the sender, asks `fetch_room` about strangers, takes room
logs through `absorb_room` and records ops through the store. The store, the
`live` map, the rooms and the prekeys are mutexes that are taken for one
statement at a time and never held across an `await`. So the tasks of one
endpoint interleave at every request and at every lock.

What is hard here, and what makes each part correct:

* **Room log.** A log comes from whoever hands it over. `verify_log` must accept
  exactly the chains in which every entry was signed by its author, follows the
  one before it and was permitted when it was written.
* **Room logs in motion.** Three kinds of task read a log, write the disk, write
  the memory and tell others, with requests in between that can fail or be
  refused. Copies must stay valid; a member must learn of what happened; a
  person who was removed must stay removed.
* **Mail.** The letter's only copy is the hub's row until the recipient has
  stored it. Requests time out with unknown effect, batches are absorbed one by
  one and deleted by id, either side may crash, mail expires. Nothing the hub
  accepted may be lost, and what can be delivered must be.
* **Sessions, framing.** The live map, the broadcast channel and the connection
  change at different moments; what was reported as sent must have been sent.
* **Op store, files.** Ops arrive in any order and twice, and are folded by the
  clocks they were minted with, which two machines do not share and a user may
  set back. Sequence numbers start again after a conversation was emptied. An
  attachment arrives on a stream of its own, while its conversation may be
  removed, the process restarted, or the file changed. What is shown, which
  bytes a message leads to and what stays on disk must survive all of it.
* **Terminal UI.** The list, the selection and the cursors are positions into
  vectors that events replace. Two tasks read the store and tell the screen what
  they read, in an order nobody fixes. A key must act on what the user sees.

`PROJECT.json` lists the hazards one by one, at the line where each bites, with
the properties that would catch it going wrong.

## 2. The modules

| Module | Models | Checked by |
|---|---|---|
| `RoomLog` | entries, hashes, `verify_log`; no state | `RoomReplay`, `RoomSync` |
| `RoomLogProofs` | proofs about `RoomLog` | tlapm |
| `RoomReplay` | `verify_log`'s loop, entry by entry, over arbitrary input, and the declarative meaning of a log | `RoomReplay.cfg` |
| `RoomReplayProofs` | proofs about `RoomReplay` | tlapm |
| `OfflineDelivery` | the abstract promise of the mailbox: accepted, held, delivered | as a property of `Mailbox` |
| `Mailbox` | sender tasks, hub handlers, recipient loops, crashes | `MailboxFaults.cfg` |
| `MailboxQuota` | `Mailbox` with two histories that count the posts past a quota's count | `MailboxPromise.cfg` |
| `MCMailbox` | two endpoints that write to one another, for TLC | |
| `MCMailboxQuota` | the same with the histories | |
| `MailboxProofs` | proofs about `Mailbox` and `MailboxQuota` | tlapm |
| `Session` | dialling, the two sessions of each connection, the live map, the broadcast channel, `deliver_to` | `SessionSafety.cfg`, `SessionLive.cfg`, `SessionRedial.cfg` |
| `MCSession` | who writes to whom, for TLC | |
| `SessionProofs` | proofs about `Session` | tlapm |
| `RoomSync` | the copies of one room's log on the hub, on disk, in memory, in flight, and the tasks that move them | `RoomRaces.cfg`, `RoomLearns.cfg`, `RoomRefetch.cfg` |
| `RoomSyncProofs` | proofs about `RoomSync` | tlapm |
| `OpStore` | ids, ops, `record`, `history` with its ORDER BY and its fold; no state | `Conversation` |
| `Conversation` | two stores of one conversation: ops and attachments minted, carried, recorded; removals, restarts, clocks | `Conversation.cfg`, `ConversationSentFile.cfg` |
| `MCConversation` | contents of files and budgets, for TLC | |
| `ConversationProofs` | proofs about `Conversation`: types, ids, files | tlapm |
| `HistoryProofs` | proofs about `History`, and about `Conversation`'s properties of what is shown | tlapm |
| `Selection` | the terminal interface: list, lookup, selection, cursors, pending edits, every key, click and event; the two tasks that fold the store for it | `Selection.cfg` |
| `MCSelection` | budgets and symmetry, for TLC | |
| `SelectionProofs` | proofs about `Selection` | tlapm |

A definition whose name ends in a description of a mistake and whose comment
begins with "Wrong:" is a plausible bug, not part of the model. It stands before
the definition it would replace and shows that a property tells the two apart;
`PROJECT.json` pairs them.

### RoomLog and RoomReplay

A BLAKE3 hash is modelled as the sequence of links it commits to, which makes it
injective. A signature is the key that made it, over exactly the entry's
content, so an entry is authentic when `signer = author`. `VerifyLog` is the
whole function, a fold of `Replay` over the tail; `RoomReplay` runs the same
loop as a state machine whose next entry may name any hash seen so far (or
none), any author, any op and any signer: everything a hub, a peer or a buggy
client can hand over. `WellFormed` and `MembersAt` say what a log means by
quantifying over its positions, without replaying it.

### Mailbox

| Variable | In the code |
|---|---|
| `mail` | the hub's `mail` table; a row is an id and a letter |
| `published` | the owners in the hub's `prekeys` table |
| `handler[l]` | where the hub's `post_mail` stands with letter `l`: received, after each quota count, inserted or refused |
| `task[l]` | the sender's `mail_to` task |
| `shown[l]` | the last `Delivery` the sender's UI was told |
| `loop[p]`, `batch[p]`, `collected[p]` | `mailbox_loop`: where it stands, fetched rows not yet absorbed, ids to delete |
| `store[p]` | received ops in the local store |
| `late` | DELETE requests that are still under way though their client gave up |
| `swept`, `owners` | history: letters deleted for their age; letters each row id was ever given to |

Each action is one critical section. The hub's two quota counts and the insert
are three actions because each takes the store's lock afresh. `GiveUp` is every
error a `mail_to` task can end with, the timeout included, and leaves the
request to go its own way: it may have been handled, may still be, or never.
`PutMail` takes the id sqlite gives to an `INTEGER PRIMARY KEY` without
AUTOINCREMENT: one more than the largest in the table, so the id of a deleted
last row is used again. `Sweep` deletes the rows up to some id, because ids and
reception times grow together. A crash of a client loses its tasks and keeps its
store; a crash of the hub loses the requests in hand and keeps its table.

Letters in `Doubtful` may fail to be absorbed, any number of times: an envelope
that does not open, or a room op whose sender the chain does not (yet) put in
the room. `Certain` are the others. `MayExpire` switches the sweep on, `MayLag`
the late DELETE.

`MailboxQuota` extends `Mailbox` and adds two history variables, conjoined to
every step: `abreast[p]` is the largest number of posts for `p` that were ever at
once past `pending_for` and not inserted, `abreastFrom[s][p]` the same of one
sender's posts past `pending_from`. They say how far the counts were raced. A
step of `Mailbox` determines their next values and no guard reads them, so they
take no step away.

### RoomSync

| Variable | In the code |
|---|---|
| `hub` | the row of the room in the hub's `rooms` table |
| `disk[p]`, `mem[p]` | the room's row in the local store; the log whose replay is in `App.rooms` |
| `tasks` | `append`, `absorb_room` and `fetch_room` calls with their program counters and the log in hand |
| `net` | `RoomUpdated` frames, on a connection or in a mailbox |
| `withHub` | who was started with `--hub` |
| `cut`, `raced` | history: the logs of appends that ended before anyone was told; endpoints that ran two tasks at once |

Every task reads, then saves, then shows; an append then publishes and notifies.
Each of these is one action, so tasks of one endpoint interleave as they do at
the locks and requests of the code. `Publish`, `PublishRefused` and
`PublishFails` are the hub's 204, its 409 and everything else, the lost answer
of a request that was handled included. With `NetFails` a frame may be lost or
be read twice. One room is modelled: rooms share no state but the store's lock.

### Session

| Variable | In the code |
|---|---|
| `dialing[e]` | `App.dialing` |
| `ends[c]`, `status[c]` | who dialled connection `c` and who accepted; whether iroh holds it open |
| `stage[e][c]` | where `session` stands at that end: greeting, listed (in `live`, not subscribed), in its `select!`, over, or dropped (left by `?`) |
| `live[e][p]` | `App.live` |
| `queue[e][c]` | what the session's `outbound` receiver has not taken yet |
| `wire[e][c]`, `reading[e][c]` | frames on their way to `e`; where `read_frame` stands: between frames, inside one, or out of step |
| `store[e]`, `shown[m]` | ops recorded from others; where `deliver_to` stands with `m`, up to what the UI was told |
| `carried[m]`, `lagged`, `doubled` | history: connections whose session was given `m`; receivers that missed a broadcast; pairs that had two sessions at once at one end |

`Route` and `Broadcast` are two actions because `deliver_to` looks into `live`
and sends afterwards, while sessions come and go in other threads. Entering the
live map (`Greet`) and subscribing (`Subscribe`) are two for the same reason.
`Interrupted` is what `select!` does to a `read_frame` that has read the length
and not the payload when a broadcast comes: the future is dropped and the bytes
are gone. From then on the stream is out of step (`ReadGarbage`) until the
session ends. `ReadEnds` and `WriteFails` differ as they do in the code: the
first takes the peer out of the live map, whoever's entry that is, the second
does not. A connection that nobody uses or remembers may be used for a new one
(`Free`), which is what makes a small set of connections enough.

### OpStore and Conversation

| Variable | In the code |
|---|---|
| `table[e]` | the `ops` table, in the order of its row ids |
| `counter[e]` | `Counter`: the last sequence number minted by the running process |
| `clock[e]` | `SystemTime::now` as `mint` reads it |
| `paths[e]` | the settings `file:<id>`: where an attachment lies on this machine |
| `disk[e]` | the users' own files (`Sources`) and the files in `files/`, by name |
| `mail[e]` | ops sent to `e`, on a connection or through the hub; any may come any number of times, in any order |
| `xfer` | the attachment under way: who sends it, where `send` and `receive` stand, what was read for the hash, what the receiver has |
| `doomed[e]` | paths that `clear`, `forget` or `wipe` returned and `unlink_all` has not reached |
| `minted`, `rewound`, `twice`, `offers`, `stray` | history: ids handed out; clocks ever set back; ids handed out again; ids and names of the attachments there were; files whose transfer broke off or outlived its message |

The text of a message is the id of the op that wrote it, so two texts are never
confused. One emoji stands for all: reactions with different ones do not meet.
`History` is the query's order (`ts_ms`, `seq`, then the row id, because the
query names no further key) and a fold of `ApplyOp`. `Resume` is what
`Store::open` makes of `SELECT MAX(seq)`.

`files::send` is four actions: the length is taken (`PickFile`), the file is read
for its hash and the header minted and recorded (`Offer`), the sender's own path
recorded and the header written (`Announce`), and the bytes (`Open`, `Chunk`,
`Finish`). `Break` is every `?` on either side. `Clear`, `Forget` and `Wipe` are
the transaction in the store, `Unlink` what follows; the last two close the
connection first (`HangUp`), which does not stop a `send` that is still hashing.

`Display` of an id is the first four bytes of the sender (`Short`) and the
sequence number: two senders may be alike in the four bytes, and the timestamp is
left out. The setting `file:<id>` of an attachment is that (`file_key`), and the
file `receive` makes is that and the name the sender gave, as `safe_name` leaves
it (`FileName`). So an attachment may share the setting of an earlier one, with
its file if the name is the same, and without it otherwise: then `set_file_path`
leaves the older file named by nothing. `SafeName` is a constant function from
the files users send to names, which need not differ. `FilesOf` is what a removal
returns to be unlinked, `SettingsOf` the settings it deletes.

### Selection

| Variable | In the code |
|---|---|
| `peers`, `index`, `sel`, `focus`, `pending` | `Ui.peers`, `index`, `sel`, `focus`, `pending`; positions count from 0 |
| `row[k]` | the `log`, `cursor` and `unread` of a `Peer` |
| `overlay` | one of `help`, `members`, `net` is up |
| `commands` | the channel to `dispatch` |
| `stored`, `messages`, `deleted` | the store as `Store::history` returns it |
| `doing[t]` | the `dispatch` task, and a session or mailbox task, between its access to the store and the event it sends |
| `seen`, `moved`, `cleared`, `crossed` | history: messages that were on the screen; whether the selection changed under a half-written edit; conversations that were emptied; conversations two tasks were about at once |

`ApplyLog`, `ApplyForgotten`, `ApplyWiped`, `ApplyMention` are the arms of
`Ui::apply`; the keys and clicks are actions of their own. A send of an event and
its arrival are one step: the channel keeps the order and loses nothing, and the
interface drains it before every frame. `Fold` reads the store under its lock and
`Tell` speaks after it, as `send_log` does, so the two tasks may speak in the
other order than they read.

## 3. The runs

| Run | Result | Instance |
|---|---|---|
| `room_replay` | passes, 27 thousand states | three keys, logs of up to four entries. Four reach every rule: create, invite, then kick or leave, then a second time what is no longer allowed |
| `mailbox_promise` | passes, 29 thousand states | two endpoints, two letters one way, one of them doubtful, quotas of one, so that a post is refused by either count and two posts can race it; one crash of either side, no expiry and no late DELETE |
| `mailbox_faults` | passes, 182 thousand states | the same with sweeps and late DELETEs, and quotas of two |
| `room_races` | passes, 3 million states, two minutes | two endpoints, two tasks each at a time, three commands, one restart, a failing hub, lost and repeated frames, all or part or none of the endpoints with a hub |
| `room_learns` | passes, 12 thousand states | two endpoints, four commands, one task each at a time, failing hub, no loss of frames; all, part or none with a hub, so that logs fork |
| `session_safety` | passes, 225 thousand states | three peers, three ops, of which two from one peer to different ones, two connections at a time, a channel of one place: one is enough to lag. No lost connection or restart; sessions still end by going out of step |
| `session_live` | passes, 53 thousand states, half a minute | two peers, one op, two connections at a time, one lost connection or restart |
| `conversation` | passes, 1.1 million states, over a minute | two endpoints whose keys begin alike; one has two files to send, of one or two chunks, the other one whose name is that of the first; each behaviour spends one of five budgets: three ops and a clock set back; two ops with a removal, a restart and a clock set back; two attachments with a removal and a restart; one attachment with a removal, a restart and a rewrite of the file; one op and one attachment. Two attachments are enough for one to take the setting of the other, in each of the ways there are. Clocks of two values: one is a tie, two an order |
| `selection` | passes, 561 thousand states, two minutes | three conversations, logs of two messages at most (so the limit is reached), one waiting command; five budgets: three messages while the user looks around; one message and two commands; an overlay; one removal among three conversations; one message, one command and one removal among two |
| `session_redial` | violation | the instance of `session_live` |
| `room_refetch` | violation | the smallest instance that shows it |
| `sent_file_deleted` | violation | `conversation` with its attachments only |

Deadlock is not checked: a log has a last entry, all letters may have been
delivered and all room commands issued, and an endpoint that has nothing to do
rests. A poll that finds nothing changes nothing and is a stuttering step.

**room_replay.** `ReplayIsMeaning`: `verify_log` accepts exactly the well-formed
logs and returns the membership their positions spell. `VerifyLogIsLoop`: the
function the callers use is the loop. `OnlyPrefixesVerify`: whoever drops,
repeats or reorders the entries of an accepted log gets a refused one, unless
all that was done is to cut the tail: "the hub can withhold a log but cannot
forge membership". `MembershipIsEarned`: who comes and goes, by whose signature.

**mailbox_promise.** `NothingLost`: an accepted letter is on the hub or in the
recipient's store. `KeepsPromise`: under the refinement mapping `Status` the
mailbox implements `OfflineDelivery!FairSpec`, which knows nothing of requests,
ids, batches or crashes; this includes that a letter that can be absorbed is.
`ProvisionalIsSettled`: the UI says "mailbox" before anything was sent, and in
the end either the hub has the letter or the UI was told otherwise, or the
process died. `MailboxDrains`: delivered mail does not stay on the hub, whatever
DELETE fails and whatever undeliverable letter lies in front. `MailboxOvershoot`:
the mail that waits for a recipient is at most the quota and `Excess`, that is
the posts that were past the count at once, less the one there was room for.
Without a race the excess is nothing, so the quota itself is kept.
`SenderOvershoot`, the same of one sender, whose posts race for longer because the
second count comes in between, is proved and not checked: with letters of one
sender only and the two quotas alike it follows from the other.

**mailbox_faults.** `LossNeedsReuse`: with every fault on, the only way to lose
mail is that one row id was given to two letters.

**room_races.** `EveryCopyVerifies`: every log on the hub, on disk, in memory, in
hand and in flight replays. `ToldIsPublished`: a frame from an endpoint with a
hub is never ahead of the hub. `MemoryIsDisk`: at rest, an endpoint shows what
it would show after a restart, unless two of its tasks crossed.
`ShrinkNeedsCause`: a log in memory gets shorter only after an append that the
hub did not get or that failed, with part of the peers without a hub, or when
two tasks of that endpoint crossed. The property is as strong as the code
allows: `room_refetch` shows the first cause at work.

**room_learns.** `MembersLearn`: whoever is to be told of an append, the invited
and the kicked included (`Told`), comes to hold a log that continues the one it
made, entry by entry. The exceptions are what the code does. The append may not
come through (`cut`), or something may crash. What the peer holds may have parted
from that log (`Parted`): if ann leaves and fay invites ann from one head, and no
hub turns one of the two down, the logs are of one length, each ignores the
other's frame (`main.rs:210`), and neither learns of the other's entry. And who
knows nothing of the room takes only a log that it is a member by, so the
invited must hear the invitation before the kick. A copy at another entry counts
as parted only if that entry's append was cut or not everybody has a hub; with a
hub for all there is no other way.

**session_safety.** `LiveIsSession`: the live map, which decides how an op
travels and whether a peer is dialled, holds sessions that run, or that ended in
a failed write, and nothing else. `UnlistedNeedsTwo`: the reverse may fail, but
only after two connections of the pair overlapped, when the end of one unlists
the other. `OnlyAddressee`: though each broadcast goes to every session, nobody
else records it. `Custody`: an op that a session took is in its queue, on the
wire or stored, as long as the connection and both sessions last, the receiver
did not lag and the reader is not out of step: these are all the ways in which
an op shown as sent on that session gets lost. An op that was broadcast between
`Greet` and `Subscribe` was taken by no session; it is shown as sent all the same.
`WireIsTakenUnlessDeaf` says that this is one of three ways to be shown as sent
and to go nowhere: the session behind the entry has not subscribed yet, it ended
in a failed write and left the entry, or the entry went between the look at
`live` and the broadcast. The comment on `Delivery::Wire` knows none of them.

**session_live.** `ComesBackUnlessStuck`: whatever happens, a pair of which one
knows the other is connected again and again, unless everybody who would dial has
an entry left by a failed write. `CarriedArrives`: an op that was taken arrives, or that session
does not stay intact.

**conversation.** `LastWord`: what the fold shows is each author's last change and
each peer's last reaction, in the order they were minted; for an author whose
clock was set back this is false (see below). `EndsAgree`:
two endpoints with the same ops show the same conversation, however the ops
came, unless two ops agree in both columns of the ORDER BY. `AuthorOnly` and
`DeletedStays`: what is on the screen changes by its author's op only, and a
deleted message does not come back with a late edit. `NoIdTwice`: an id is
handed out twice only if the clock went back, though the sequence numbers do
start again after a removal and a restart. `PathTruthful`: a recorded path leads
to bytes with the hash of the header, unless another attachment has the same
setting (`Reused`): of the same sender, whose sequence number came again, or of
one with the same four bytes. `OrphanNeedsCause`: the ways in which a file stays
behind to which no message's setting leads: a transfer that broke off
(`files.rs:142` returns past the removal), one that ran while the conversation
was removed, a restart before the unlinking, and an attachment with the same
setting but another name or another sender (`Contested`). Of the same name and
sender it overwrites the file, and nothing is left behind. Both properties except
an id that was handed out twice as well. That takes an attachment on either side
of a removal, a restart and a clock set back in between; TLC finds it in an
instance with all of these in one budget, which is too large for the run, and the
theorems cover it (section 5). Each of the other exceptions is met in the run:
without it TLC finds the property violated there.

**selection.** `LookupIsList`: list and lookup agree and no position dangles.
`SelectionIsTheUsers`: only the user's keys and clicks and the removal of the
selected row or one above it change what is selected. A row removed above the
selection does shift it by one (`ui.rs:471` keeps the position, not the
conversation), which is why the property has that exception. `OpsStayHome`: a
command that names a message goes to that message's conversation and edits or
deletes only what is ours, unless the selection changed while an edit or a
reply was being written, which stays pending across a change of selection.
`ShownIsStored`: with no task about a conversation, the screen shows what the
store holds, unless two tasks were about it at once: then the older fold may be
told last, or a `Forgotten` after the message that came behind it, until the
next fold. `UnreadIsMarked`: a message nobody saw leaves a mark, as long as a
fold shows the whole conversation. `apply_log` marks a log that has grown, so
once the conversation is longer than a fold (`LogLimit`) there are two ways
round it: a full fold does not grow when a message comes, and of two tasks the
one with the older, shorter fold may be told last. The second needs two
conversations, three messages and a command, more than the run has; the proof
found it (section 5).

### What the violations show

* `session_redial`: the connection is lost, a broadcast for that peer comes
  before the reader notices, and `write_frame` fails. `session` returns past the
  line that takes the peer out of `live`. From then on `dial_peer` takes the peer
  for connected and `deliver_to` reports `Wire` for ops that go nowhere, until
  the other side dials or the process is restarted.
* `room_refetch`: the founder's kick is saved and shown, the PUT fails, and the
  next `fetch_room` (at the next start, or when the kicked member writes)
  replaces the longer log with the hub's: the kicked member is back.
* `sent_file_deleted`: `send` records the sender's own path for the attachment,
  so that the interface can show it. `clear`, `forget` and `wipe` collect every
  recorded path and `unlink_all` removes them, the user's original included.

Some exceptions in the properties above are behaviours of the code worth
knowing, without a run of their own. Mail is lost when the hub's row
id is used again (`LossNeedsReuse`): row 1 is fetched, the sweep deletes it, the
next letter is inserted with id 1, and the recipient deletes id 1. A room forks
when a member leaves while the founder appends from the same head, and the
longer log brings the member back (`ShrinkNeedsCause`). With the hub away,
`append` returns before the loop that tells the members, so those who are
connected do not learn of it either (the exception `cut` of `MembersLearn`). An edit
minted after the clock was set back is sorted before its message and dropped, on
both ends (`LastWord`): `history` orders by `ts_ms` before `seq` (`store.rs:201`),
though `wire.rs:10` calls `seq` the ordering authority. Two ops alike in both are
in the order in which they came to this machine, so the two ends may disagree
(`Tied`); `MessageId::sort_key` (`wire.rs:37-41`) has the sender's key as a third
part "to break ties deterministically", and the query does not use it. After a
clear and a restart a new attachment takes the setting of an older one that the
other end still shows, and with it the older message leads to the new file
(`Reused`).

Other places where a comment says more than the code does, each seen in the state
space of the run named:

* `wicara-hub/src/main.rs:45-46`, "This is the limit that actually caps the disk
  one recipient can cost" (`mailbox_promise`). Two posts are counted before either
  is inserted, and both find room for the last letter: `pending_from`,
  `pending_for` and `put_mail` lock the store one by one. `MailboxOvershoot` is
  what holds.
* `main.rs:1050`, "drains the mailbox on a timer" (`mailbox_promise`, with
  quotas of two and a `ReplyCap` of one). The hub answers a fetch with the whole mailbox
  and admits 2,000 envelopes of 64 KiB, but `fetch_mail` reads 32 MiB at most.
  Beyond that every fetch fails, nothing is collected, so nothing is deleted,
  and the mailbox stays as it is until the sweep removes what nobody has read.
* `ui.rs:78`, "saved locally and nowhere else" (`mailbox_promise`). The sender's
  request times out, and the hub files it: `GiveUp`, then `PutMail`. A user who
  writes it again is read twice.
* `ui.rs:74`, "Straight down a live QUIC connection" (`session_safety`). An op
  sent between the insert into `live` and `outbound.subscribe()` is shown as
  `Wire`, taken by nobody, not mailed, and not sent again.
* `ui.rs:514`, "The key that dismissed it should not also do something else"
  (`selection`). The condition below it excepts every character: one typed over
  the help, the members or the network overlay both closes it and acts.

## 4. Fairness

`Mailbox!Fairness`: an endpoint that is down is started again; `mailbox_loop`
goes round (weak fairness of each of its steps, the loop is one task and every
request has a 20 s timeout); of infinitely many DELETEs one gets through (strong
fairness of `DeleteMail`: the loop polls every `DRAIN_EVERY` for ever); a
`mail_to` task ends. Nothing is assumed of posts, of the publication of prekeys
or of the hub's handlers: none of the liveness properties needs them. Fetches
that fail change nothing, so weak fairness of `Fetch` says that one gets through
in the end.

`RoomSync!FairSpec`: some task of each endpoint that can step does, and an
endpoint that can read a frame again and again reads one in the end; sessions
and `mailbox_loop` read for as long as the process runs, and the bound
`MaxTasks` disables reading from time to time, hence strong fairness. Commands
and restarts are not fair.

`Session!FairSpec`: `reconnect_loop` goes round for ever, so a dial that can
start does; of infinitely many dials of an endpoint that is there one lands
(strong fairness of `Connect`, since dials may fail in between); the accept loop
and the sessions' tasks run. A session's `select!` is one unit of fairness: which
branch it takes is not assumed. The liveness of redialling holds with the faults
bounded by `MaxFaults`; nothing is assumed of `Route` and `Broadcast`.

## 5. The proofs

All proofs hold for every value of the constants, under the assumptions the
modules name (`MaxLogAssumption`, `AddressAssumption`, `BoundAssumption`,
`SwitchAssumption`, `PeerAssumption`, `MsgAssumption`, `ContactAssumption`,
`SessionBoundAssumption`, those of `RoomSync`, `Selection` and `Conversation`:
the types of the constants, and that nobody writes to or knows themselves).
`Conversation` assumes besides that there is somebody to talk to (no set of
peers is a single one, `PeersAssumption`), that every file to be sent belongs to
a peer and holds chunks (`SourcesAssumption`), and that its markers are none of
the things they stand beside (`SentinelsAssumption`): no transfer, no path or
file content, and the users' own files are none of those in `files/`. Of `Short`
and `SafeName` nothing is assumed. TLC evaluates all of the assumptions on the
runs.

`RoomLogProofs`. What `VerifyLog` answers, for any log: `VerifyLogOrders` says
that it turns a log down or returns a founder and members that are peers, and
that a log it accepts is a chain (`Chained`): the first entry names `Genesis`,
every other one the hash of the entry before it. Hence the entry at place i names
a hash of i - 1 links. It is
a fold over the log, and the library's induction theorems take the induction
hypothesis as an operator, which no prover here can be given. So the induction is
over a set: the numbers up to the length whose prefix has the property contain 0
and are closed under the next (`Climb`, from the least element of what is left,
which well-foundedness gives). That there is a function such as the fold's definition
chooses (`MapThenFoldSet`) is proved the same way.

`RoomReplayProofs`. The invariant is `TypeOK` together with `ReplayIsMeaning`
and three facts about the accepted log (its head hash is that of its last entry,
its identity that of its first, the founder is a member); the step adds one
entry and shows that `MembersAt` and `WellFormed`, which quantify over all
positions, change exactly as the loop's record does. Results: `ReplayTyped`,
`ReplayCorrect` (`[]ReplayIsMeaning`), `MembershipEarned` (`MembershipIsEarned`,
an action property, from the same invariant). The invariant also says that the
loop's room is what `VerifyLog` returns for the entries read so far, by the turn
of the fold in `RoomLogProofs`: `LoopIsVerifyLog` (`VerifyLogIsLoop`). With it
the meaning passes from the loop to the function: `VerifyLogMeans` says of every
log of any length, reachable or not, that `verify_log` accepts it iff it is well
formed, and with the members it spells. `TamperingShows` (`OnlyPrefixesVerify`)
is the argument from `VerifyLogOrders`: each entry of an accepted log names a hash
of a length of its own, so there is one place it can stand at.

`MailboxProofs`. `MailboxTyped` proves `TypeOK`. `LossTakesReuse` proves
`LossNeedsReuse` with all faults on; the invariant behind it is `OwnersInv`:
every row, every row in a batch and every id waiting to be deleted, in hand or
late, belongs to a letter that `owners` remembers under that id, and the ids
waiting to be deleted belong to letters that are stored. `NothingLost` alone is
not inductive, since it does not say what a DELETE in flight is about to remove.
`NoLoss` proves `NothingLost` itself under `~MayExpire` and `~MayLag`, where ids
are still reused; its invariant `RowsInHandStay` says that what is in hand is
still in the table, because then only its recipient deletes a row. Under the same
hypotheses `ImplementsPromise` proves the safety half of `KeepsPromise`: each step
is one of `OfflineDelivery`, or none. It needs `Filed` besides: what is filed or
stored was accepted, and a letter whose task has yet to post it was not, so
`PutMail` finds it `"unsent"`; a second absorb of a letter, after a DELETE that
failed, changes no status.

`MailboxQuotaKept` and `SenderQuotaKept` prove `MailboxOvershoot` and
`SenderOvershoot` for any quotas and any number of posts. The count of the rows
alone is not inductive, since an insert looks at nothing: `QuotaInv` counts the
rows and the posts that are past the count together, of which an insert takes
one from the second to the first. A post that finds room finds fewer rows than
the quota, so with those past the count already they are within the quota and
all of those but one; and of those there were never more than the history says
(`WithinAdmit`). Deletes, sweeps, crashes and refusals only make the two sets
smaller (`WithinFewer`). TLC checked `QuotaInv` before it was proved, on
the instance of `mailbox_promise` and with two senders, three letters and quotas
of one and two.

`SessionProofs`. All safety properties of `Session`. `LiveEntries` and
`UnlistedTakesTwo` share the invariant `LiveInv`: a session exists only at the
ends of its connection (`Placed`), each running session is the one in the live
map or the pair overlapped (`LiveOrTwo`), and two that run at once were noticed
(`TwoAreSeen`). `AddresseeAlone` needs the same of what is on the wire
(`WireAddressed`). `CustodyIsKept` needs `LiveInv`, because an op is only in
custody if the other end is already there when it is taken (`Met`), and `Took`:
ends that were there do not come back once they are gone, so a connection that
is not intact stays so. `WireNeedsEar` proves `WireIsTakenUnlessDeaf`, an action
property, from `LiveInv`: an entry of the live map is that of a session with the
peer it is filed under, so unless it is one of the three, the broadcast that is
shown as sent put the op into that session's queue.

`SelectionProofs`. All six properties of `Selection`, for any number of
conversations, messages, commands and removals. The invariant `Sound` says that
list and lookup agree (`Listed`), that every message in the store, in a row, in
the hands of a task and under a pending edit is one of its conversation
(`Stored`, `Rows`, `Doing`, `Writing`), and the types. `OpsStayHome` needs all
of these: the id a key acts on was read from the store by a task long before.
`Told` says that a task in progress carries what the store holds
of its conversation, or that this is empty, as long as nobody crossed it; that,
and not `ShownIsStored` alone, is what a step preserves. The step is proved over
three kinds of effect (`Reads`, `Empties`, `TellEffect`), one lemma each, with
one lemma for each action that says which effect it has. Results: `TypeCorrect`,
`ListCorrect`, `SelectionStays`, `CommandsStayHome`, `ScreenCatchesUp`. The only
assumption beyond the types of the constants is that `None` is neither a
conversation, a number nor a task.

The sixth, `NothingArrivesUnseen` (`UnreadIsMarked`), has an invariant of its own,
`Noticed`, for conversations that were never emptied. `apply_log` compares two
lengths, so what must be known is that a fold that is no longer has nothing in it
that the other lacks. While a conversation fits in a fold this is so: every fold
on the screen or in the hands of a task is a `Cut`, which repeats nothing and
lacks nothing but the newest messages, and of two cuts the shorter is part of the
longer (`ShorterIsPart`, by counting). So even an old fold that is told after a
newer one brings nothing unseen. Beyond the limit folds slide and are no cuts;
there the argument is that of `Told`, and it holds only where no two tasks
crossed. An earlier statement of the property excused nothing but a full fold.
It holds on the run's instance and is false: a task folds the store, the
conversation outgrows a fold, a second task tells a full one, the user is
elsewhere, and the first task tells its shorter fold last. The step of the proof
that failed was this one, and TLC then found the behaviour in 14 states.

`RoomSyncProofs`. All safety properties of `RoomSync`, for any number of
endpoints, commands, tasks and restarts, and with every request and frame allowed
to fail: `EveryCopyReplays`, `PublishedFirst`, `MemoryMatchesDisk`,
`ShrinksAreExplained`, `RoomTyped`. The first four share `RoomInv`, of two parts.
`Shared` says of every
task and frame what holds whatever others do: its log replays, and what came
from the hub, or from a frame when all have a hub, the hub still has in at least
that length, because `put_room` never takes a shorter one. `PeerOK` says of an
endpoint that never ran two tasks at once what its one task knows: memory and
disk differ only between `Save` and `Show`, what it is about to save is no
shorter than what is shown (unless `cut` or `Mixed`), and if all have a hub then
what is shown was published, or is about to be. None of `MemoryIsDisk` and
`ShrinkNeedsCause` is inductive without it: a restart shows what was saved by a
task that is gone. `verify_log` stays closed in all of that; the argument does not
depend on what it accepts. `RoomTyped` (`TypeOK`) does: whom `append` tells is
taken from two replays, and that these are peers is `VerifyLogOrders`.

`ConversationProofs`. For any number of peers, contents of files and budgets:
`ConversationTyped` (`TypeOK`, by which no table holds an id twice),
`IdsAreNew` (`NoIdTwice`), `PathsAreTrue` (`PathTruthful`) and
`OrphansHaveCauses` (`OrphanNeedsCause`). The types are not inductive as they
stand: that a
restart leaves the counter within its range needs every op in a table, on its
way and in a transfer to carry a sequence number no larger than what the budget
has been used for (`Room`), and that `Resume` has a largest number to find
(`LargestExists`, from the well-foundedness of `<`, without induction). `Fresh`
is the argument for the ids: what an endpoint handed out is older than its clock,
or as old and with a number no larger than its counter. A restart may lower the
counter, if a removal took the largest of our ops, but not before the clock has
moved; only an endpoint whose clock was set back falls out of `Fresh`. The model
lets a restart take at least one tick of the clock that stamps the ids, a
millisecond, and the theorem rests on it.

A path is true by `Filed`, a statement about each setting (`Sound`) that holds as
long as one attachment has it: all headers give one hash (`OneHash`), the
transfer under way gives that hash too and has its file to itself, no path
recorded and none about to be unlinked (`InHand`), and a file whose path is
recorded holds the bytes of that hash and is not about to be unlinked
(`Arrived`). This last is why a removal followed by a transfer under the same
setting cannot put new bytes under an old message. A step of a transfer is about
one setting and leaves the others alone (`OneSetting`); a second attachment under
a setting makes it `Reused` from then on, since `offers` only grows. `Filed`
needs besides what holds of shared settings too: a path recorded under one is the
sender's own file, if an attachment of ours has it, or a file of that setting and
of a name and a sender that an attachment there was had (`Placed`, `Came`). That
`OrphanNeedsCause` is kept needs `Accounted`: a file that is still being received
has a message already, or will be a stray (`Landing`), and a header whose id is
that of the transfer under way was not recorded before it (`HeaderOnly`), unless
ids came twice. By `Came`, whatever overwrites the path of a file that arrived
was offered under another name, or by another sender, and `Contested` says so
(`Overwritten`).

`HistoryProofs`. What `Store::history` shows, for any table of ops with distinct
ids, and what follows for the conversation. The rank of a row, one more than the
number of rows before it, is a bijection to the places (`RanksAreTaken`: an
injection between finite sets of one size), so `InOrder` is the table sorted
(`InOrderIs`). The fold is followed by the same induction as in `RoomLogProofs`,
with `Listed` and `Reacted` as what the loop has built of the rows so far.
`HistoryMeans` is the result: the history holds every message once, in the words
of the last op that may change it (its author's edits and deletes after it),
deleted iff one of these deletes, with the reactions whose last toggle is on.
`SameOpsSameHistory` (`EndsAgree`) needs only that the order is one of the ops and
not of the rows they lie in, if no two are alike in both columns (`OrderIsOfOps`).
`OnlyTheAuthor` (`AuthorOnly`) and `DeletedForGood` (`DeletedStays`) compare two
histories by `HistoryMeans`, over a table that grew by one row at its end: the
row's place in the order may be anywhere. `LastWordCounts` (`LastWord`) is about
the order of minting and not that of the query, so it needs that these agree:
`Chron` says that the ids of an author whose clock was never set back grow in the
order they were minted, and that what changes a message of one's own was minted
after it.

Only model-checked: the liveness properties, `ProvisionalIsSettled`,
`MailboxDrains`, `MembersLearn`, `ComesBackUnlessStuck`, `CarriedArrives` and the
fairness half of `KeepsPromise` (fairness and ENABLED are out of the prover's
reach). Every invariant and every action property of the passing runs is the
statement of a theorem.

## 6. What the models leave out

* Content: timestamps, names, room names, payloads. Two letters differ only in
  who sent them to whom.
* Cryptography is ideal: hashes are injective, signatures cannot be made with
  another's key, an envelope opens for its recipient only.
* Other rooms (see `RoomSync`), and forgotten or wiped rooms.
* In `Conversation`: nicknames and settings other than `file:` keys; different
  emoji; how `safe_name` cleans a name (which names it makes alike is a constant);
  more than one attachment at a time (they share the id counter, and a setting
  only if their senders are alike, which both properties of files except).
* In `Selection`: drawing, the input line and its caret, scrolling, labels,
  delivery marks and transfer bars. The commands `/room`, `/leave`, `/name`,
  `/nick`, `/connect` and `/send` are one (`other`): they leave the list alone
  until an event mentions a conversation (`Mention`).
* `MAX_MAIL_REPLY` is the count `ReplyCap` of letters; the runs set it
  above what the quotas admit. Below, `MailboxDrains` is false: every fetch fails.
* In `Session`: nickname frames and the link display; what a write that fails
  half-way leaves behind; flow control, so that two ends that write to one
  another at once never wait. Ops are between two peers; a room's op is one for
  each member. `forget` and attachments are in `Conversation`, which has no
  connections: a frame in `mail` arrives by whatever way.
* The parts marked `not_modelled` in `PROJECT.json`. Identity file, vault,
  end-to-end encryption and argument parsing are sequential, keep no state of
  interest, or are taken as ideal; iroh is external.

## 7. Plan

Modelled: the room log, its copies in motion, offline mail, sessions, the op
store with attachments and removals, the interface; proved: every safety property
of these, with the quotas as counts. What remains worth doing:

* Sessions, mailbox and store composed through `accept` and `forget`: each op is
  recorded once whichever way it came, and what was shown as sent is on the way,
  at the hub, stored, or lost for a named cause. The crash between `record` and
  `deliver` is a hazard of that composition.
* The hub in bytes rather than letters: whether a mailbox that no longer fits a
  reply could be read piece by piece.
