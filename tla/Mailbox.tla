------------------------------- MODULE Mailbox -------------------------------
(***************************************************************************)
(* Offline delivery: the sender's mail_to task, the hub's mail handlers    *)
(* and its one table of mail, and each recipient's mailbox_loop.           *)
(*                                                                         *)
(* One action is one critical section: the hub takes its store's lock      *)
(* afresh for each of the two quota counts and for the insert, and a       *)
(* client holds nothing across an HTTP request.  A request that times out  *)
(* at the client may have been handled, may never arrive, or, when MayLag, *)
(* may still be handled later.  A letter is one sealed op for one          *)
(* recipient; the code makes one for each peer it cannot reach.            *)
(***************************************************************************)
EXTENDS Integers, FiniteSets

CONSTANTS
    Peer,               \* endpoints
    Letter,             \* sealed ops
    From, To,           \* who sealed a letter, and for whom
    Oversize,           \* letters over MAX_ENVELOPE
    Doubtful,           \* letters whose absorb may fail: an envelope that does
                        \* not open, a room op from someone not known as a member
    QuotaPerSender, QuotaPerRecipient,
    ReplyCap,           \* letters that fit MAX_MAIL_REPLY
    MaxRow,             \* bound on row ids
    MaxCrashes,         \* bound on the crashes of clients and of the hub
    MayExpire,          \* whether mail may outlive its TTL while it waits
    MayLag              \* whether the hub may see a DELETE its client gave up on

ASSUME AddressAssumption ==
    /\ From \in [Letter -> Peer]
    /\ To \in [Letter -> Peer]
ASSUME BoundAssumption ==
    /\ QuotaPerSender \in Nat
    /\ QuotaPerRecipient \in Nat
    /\ ReplyCap \in Nat
    /\ MaxRow \in Nat
    /\ MaxCrashes \in Nat
ASSUME SwitchAssumption == MayExpire \in BOOLEAN /\ MayLag \in BOOLEAN

VARIABLES
    mail,       \* the hub's mail table, all recipients together
    published,  \* peers whose prekey the hub has
    handler,    \* per letter: where the hub's post_mail stands
    task,       \* per letter: the sender's mail_to task
    shown,      \* per letter: the delivery state the sender's UI was told
    loop,       \* per peer: where mailbox_loop stands
    batch,      \* per peer: fetched rows not yet absorbed
    collected,  \* per peer: ids of absorbed rows, to be deleted
    store,      \* per peer: received ops in the local store (survives a crash)
    late,       \* DELETE requests still on their way after a timeout
    swept,      \* letters the TTL sweep has deleted
    owners,     \* history: the letters each row id was ever given to
    crashes

hubVars    == <<mail, published, handler, late, swept, owners>>
senderVars == <<task, shown>>
loopVars   == <<loop, batch, collected, store>>
vars == <<hubVars, senderVars, loopVars, crashes>>

RowId == 1..MaxRow
Row == [id : RowId, letter : Letter]

HandlerState == {"none", "sent", "sender quota", "mailbox quota", "insert",
                 "accepted", "refused", "dropped"}
TaskState == {"idle", "prekey", "posting", "ended", "dead"}
LoopState == {"down", "starting", "idle", "absorbing", "clearing"}

RowsFor(p) == {r \in mail : To[r.letter] = p}
RowsFromTo(s, p) == {r \in RowsFor(p) : From[r.letter] = s}

Init ==
    /\ mail = {} /\ published = {} /\ late = {} /\ swept = {}
    /\ owners = [n \in RowId |-> {}]
    /\ handler = [l \in Letter |-> "none"]
    /\ task = [l \in Letter |-> "idle"]
    /\ shown = [l \in Letter |-> "none"]
    /\ loop = [p \in Peer |-> "down"]
    /\ batch = [p \in Peer |-> {}]
    /\ collected = [p \in Peer |-> {}]
    /\ store = [p \in Peer |-> {}]
    /\ crashes = 0

-----------------------------------------------------------------------------
(* The sender: deliver_to and mail_to.                                     *)

\* The UI is told "mailbox" before anything has left, and the task spawned.
Dispatch(l) ==
    /\ loop[From[l]] # "down"
    /\ task[l] = "idle"
    /\ task' = [task EXCEPT ![l] = "prekey"]
    /\ shown' = [shown EXCEPT ![l] = "mailbox"]
    /\ UNCHANGED <<hubVars, loopVars, crashes>>

\* With the recipient's prekey in hand the op is sealed and posted.
Seal(l) ==
    /\ task[l] = "prekey"
    /\ To[l] \in published
    /\ task' = [task EXCEPT ![l] = "posting"]
    /\ handler' = [handler EXCEPT ![l] = "sent"]
    /\ UNCHANGED <<mail, published, late, swept, owners, shown, loopVars, crashes>>

\* Wrong: the UI is left with the provisional state.
GiveUpSilently(l) ==
    /\ task[l] \in {"prekey", "posting"}
    /\ task' = [task EXCEPT ![l] = "ended"]
    /\ UNCHANGED <<hubVars, shown, loopVars, crashes>>

\* An error of any kind ends the task: no prekey, a refusal, a timeout. The
\* request, if one was sent, goes its own way.
GiveUp(l) ==
    /\ task[l] \in {"prekey", "posting"}
    /\ task' = [task EXCEPT ![l] = "ended"]
    /\ shown' = [shown EXCEPT ![l] = "failed"]
    /\ UNCHANGED <<hubVars, loopVars, crashes>>

\* The hub's 202 arrives. The UI was told already.
Confirm(l) ==
    /\ task[l] = "posting"
    /\ handler[l] = "accepted"
    /\ task' = [task EXCEPT ![l] = "ended"]
    /\ UNCHANGED <<hubVars, shown, loopVars, crashes>>

-----------------------------------------------------------------------------
(* The hub: post_mail, and the sweep.                                      *)

HandlerStep(l, from, to) ==
    /\ handler[l] = from
    /\ handler' = [handler EXCEPT ![l] = to]

ReceivePost(l) ==
    /\ HandlerStep(l, "sent", IF l \in Oversize THEN "refused" ELSE "sender quota")
    /\ UNCHANGED <<mail, published, late, swept, owners, senderVars, loopVars, crashes>>

CheckSenderQuota(l) ==
    /\ HandlerStep(l, "sender quota",
                   IF Cardinality(RowsFromTo(From[l], To[l])) >= QuotaPerSender
                   THEN "refused" ELSE "mailbox quota")
    /\ UNCHANGED <<mail, published, late, swept, owners, senderVars, loopVars, crashes>>

\* Wrong: one more than the quota may wait.
CheckMailboxQuotaLate(l) ==
    /\ HandlerStep(l, "mailbox quota",
                   IF Cardinality(RowsFor(To[l])) > QuotaPerRecipient
                   THEN "refused" ELSE "insert")
    /\ UNCHANGED <<mail, published, late, swept, owners, senderVars, loopVars, crashes>>

CheckMailboxQuota(l) ==
    /\ HandlerStep(l, "mailbox quota",
                   IF Cardinality(RowsFor(To[l])) >= QuotaPerRecipient
                   THEN "refused" ELSE "insert")
    /\ UNCHANGED <<mail, published, late, swept, owners, senderVars, loopVars, crashes>>

\* INTEGER PRIMARY KEY without AUTOINCREMENT: one more than the largest id in
\* the table at this moment, so the id of a deleted last row is used again.
IsNextRow(n) ==
    /\ \A r \in mail : r.id < n
    /\ n = 1 \/ \E r \in mail : r.id = n - 1

PutMail(l) ==
    /\ HandlerStep(l, "insert", "accepted")
    /\ \E n \in RowId :
          /\ IsNextRow(n)
          /\ mail' = mail \cup {[id |-> n, letter |-> l]}
          /\ owners' = [owners EXCEPT ![n] = @ \cup {l}]
    /\ UNCHANGED <<published, late, swept, senderVars, loopVars, crashes>>

\* Rows get their ids and their received_ms together, so the rows older than
\* any cutoff are the ones up to some id.
Sweep ==
    /\ MayExpire
    /\ \E last \in mail :
          LET old == {r \in mail : r.id <= last.id}
          IN  /\ mail' = mail \ old
              /\ swept' = swept \cup {r.letter : r \in old}
    /\ UNCHANGED <<published, handler, late, owners, senderVars, loopVars, crashes>>

\* delete_mail: scoped to the caller's own rows.
Deleted(p, ids) == {r \in RowsFor(p) : r.id \in ids}

DeleteLate ==
    /\ \E d \in late : /\ mail' = mail \ Deleted(d.peer, d.ids)
                       /\ late' = late \ {d}
    /\ UNCHANGED <<published, handler, swept, owners, senderVars, loopVars, crashes>>

-----------------------------------------------------------------------------
(* The recipient: mailbox_loop.                                            *)

LoopStep(p, from, to) ==
    /\ loop[p] = from
    /\ loop' = [loop EXCEPT ![p] = to]

Start(p) ==
    /\ LoopStep(p, "down", "starting")
    /\ UNCHANGED <<hubVars, senderVars, batch, collected, store, crashes>>

\* The prekey is published once, at start; failure is a warning, not a retry.
PublishPrekey(p) ==
    /\ LoopStep(p, "starting", "idle")
    /\ published' \in {published, published \cup {p}}
    /\ UNCHANGED <<mail, handler, late, swept, owners, senderVars, batch, collected, store, crashes>>

\* A reply over the limit is an error of the whole fetch; so is a lost one,
\* which changes nothing and is a stuttering step.
Fetch(p) ==
    /\ RowsFor(p) # {}
    /\ Cardinality(RowsFor(p)) <= ReplyCap
    /\ LoopStep(p, "idle", "absorbing")
    /\ batch' = [batch EXCEPT ![p] = RowsFor(p)]
    /\ UNCHANGED <<hubVars, senderVars, collected, store, crashes>>

\* Rows are absorbed in the order of their ids.
IsNextOf(p, r) ==
    /\ loop[p] = "absorbing"
    /\ r \in batch[p]
    /\ \A q \in batch[p] : r.id <= q.id

\* Wrong: what is recorded is the row's id.
AbsorbRecordingRow(p) ==
    /\ \E r \in Row :
          /\ IsNextOf(p, r)
          /\ store' = [store EXCEPT ![p] = @ \cup {r.id}]
          /\ batch' = [batch EXCEPT ![p] = @ \ {r}]
          /\ collected' = [collected EXCEPT ![p] = @ \cup {r.id}]
    /\ UNCHANGED <<hubVars, senderVars, loop, crashes>>

\* Decrypted, checked and recorded: the row may be deleted.
Absorb(p) ==
    /\ \E r \in Row :
          /\ IsNextOf(p, r)
          /\ store' = [store EXCEPT ![p] = @ \cup {r.letter}]
          /\ batch' = [batch EXCEPT ![p] = @ \ {r}]
          /\ collected' = [collected EXCEPT ![p] = @ \cup {r.id}]
    /\ UNCHANGED <<hubVars, senderVars, loop, crashes>>

\* Wrong: a row that could not be absorbed is deleted with the others.
AbsorbFailsCollected(p) ==
    /\ \E r \in Row :
          /\ IsNextOf(p, r)
          /\ r.letter \in Doubtful
          /\ batch' = [batch EXCEPT ![p] = @ \ {r}]
          /\ collected' = [collected EXCEPT ![p] = @ \cup {r.id}]
    /\ UNCHANGED <<hubVars, senderVars, loop, store, crashes>>

\* Wrong: the first failure ends the batch.
AbsorbFailsAll(p) ==
    /\ \E r \in Row :
          /\ IsNextOf(p, r)
          /\ r.letter \in Doubtful
          /\ batch' = [batch EXCEPT ![p] = {}]
    /\ UNCHANGED <<hubVars, senderVars, loop, collected, store, crashes>>

\* Left on the hub for the next poll; the rest of the batch goes on.
AbsorbFails(p) ==
    /\ \E r \in Row :
          /\ IsNextOf(p, r)
          /\ r.letter \in Doubtful
          /\ batch' = [batch EXCEPT ![p] = @ \ {r}]
    /\ UNCHANGED <<hubVars, senderVars, loop, collected, store, crashes>>

\* Wrong: what was collected is never deleted.
FinishBatchKeeping(p) ==
    /\ batch[p] = {}
    /\ LoopStep(p, "absorbing", "idle")
    /\ collected' = [collected EXCEPT ![p] = {}]
    /\ UNCHANGED <<hubVars, senderVars, batch, store, crashes>>

\* All rows seen. With nothing collected no request is made.
FinishBatch(p) ==
    /\ batch[p] = {}
    /\ LoopStep(p, "absorbing", IF collected[p] = {} THEN "idle" ELSE "clearing")
    /\ UNCHANGED <<hubVars, senderVars, batch, collected, store, crashes>>

DeleteMail(p) ==
    /\ LoopStep(p, "clearing", "idle")
    /\ mail' = mail \ Deleted(p, collected[p])
    /\ collected' = [collected EXCEPT ![p] = {}]
    /\ UNCHANGED <<published, handler, late, swept, owners, senderVars, batch, store, crashes>>

\* What may become of a DELETE whose client no longer waits for it.
Abandoned(p) ==
    \/ late' = late
    \/ /\ MayLag
       /\ loop[p] = "clearing"
       /\ late' = late \cup {[peer |-> p, ids |-> collected[p]]}

DeleteFails(p) ==
    /\ LoopStep(p, "clearing", "idle")
    /\ collected' = [collected EXCEPT ![p] = {}]
    /\ Abandoned(p)
    /\ UNCHANGED <<mail, published, handler, swept, owners, senderVars, batch, store, crashes>>

-----------------------------------------------------------------------------
(* Crashes. A client loses its tasks and keeps its store; the hub loses    *)
(* the requests it was handling and keeps its table.                       *)

Crash(p) ==
    /\ crashes < MaxCrashes
    /\ loop[p] # "down"
    /\ crashes' = crashes + 1
    /\ loop' = [loop EXCEPT ![p] = "down"]
    /\ batch' = [batch EXCEPT ![p] = {}]
    /\ collected' = [collected EXCEPT ![p] = {}]
    /\ task' = [l \in Letter |->
                  IF From[l] = p /\ task[l] \in {"prekey", "posting"}
                  THEN "dead" ELSE task[l]]
    /\ Abandoned(p)
    /\ UNCHANGED <<mail, published, handler, swept, owners, shown, store>>

HubCrash ==
    /\ crashes < MaxCrashes
    /\ crashes' = crashes + 1
    /\ handler' = [l \in Letter |->
                     IF handler[l] \in {"sent", "sender quota", "mailbox quota", "insert"}
                     THEN "dropped" ELSE handler[l]]
    /\ UNCHANGED <<mail, published, late, swept, owners, senderVars, loopVars>>

-----------------------------------------------------------------------------
SenderNext == \E l \in Letter : Dispatch(l) \/ Seal(l) \/ GiveUp(l) \/ Confirm(l)

HubNext ==
    \/ \E l \in Letter : \/ ReceivePost(l) \/ CheckSenderQuota(l)
                         \/ CheckMailboxQuota(l) \/ PutMail(l)
    \/ Sweep
    \/ DeleteLate

LoopNext ==
    \E p \in Peer : \/ Start(p) \/ PublishPrekey(p) \/ Fetch(p)
                    \/ Absorb(p) \/ AbsorbFails(p) \/ FinishBatch(p)
                    \/ DeleteMail(p) \/ DeleteFails(p)

CrashNext == (\E p \in Peer : Crash(p)) \/ HubCrash

Next == SenderNext \/ HubNext \/ LoopNext \/ CrashNext

Spec == Init /\ [][Next]_vars

\* An endpoint is started again sooner or later, its loop goes round, and its
\* requests do not fail for ever: a poll is retried every DRAIN_EVERY, so a
\* fetch gets through, and of infinitely many DELETEs one does. A mail_to task
\* ends, by its 20 s timeout if by nothing else. Nothing is assumed of posts.
Fairness ==
    /\ \A p \in Peer :
          /\ WF_vars(Start(p))
          /\ WF_vars(PublishPrekey(p))
          /\ WF_vars(Fetch(p))
          /\ WF_vars(Absorb(p) \/ AbsorbFails(p))
          /\ WF_vars(FinishBatch(p))
          /\ WF_vars(DeleteMail(p) \/ DeleteFails(p))
          /\ SF_vars(DeleteMail(p))
    /\ \A l \in Letter : WF_vars(GiveUp(l) \/ Confirm(l))

FairSpec == Spec /\ Fairness

-----------------------------------------------------------------------------
TypeOK ==
    /\ mail \subseteq Row
    /\ published \subseteq Peer
    /\ handler \in [Letter -> HandlerState]
    /\ task \in [Letter -> TaskState]
    /\ shown \in [Letter -> {"none", "mailbox", "failed"}]
    /\ loop \in [Peer -> LoopState]
    /\ batch \in [Peer -> SUBSET Row]
    /\ collected \in [Peer -> SUBSET RowId]
    /\ store \in [Peer -> SUBSET Letter]
    /\ late \subseteq [peer : Peer, ids : SUBSET RowId]
    /\ swept \subseteq Letter
    /\ owners \in [RowId -> SUBSET Letter]
    /\ crashes \in 0..MaxCrashes

OnHub(l) == \E r \in mail : r.letter = l
Stored(l) == l \in store[To[l]]
Certain == Letter \ Doubtful

\* A letter the hub took is still there, in the recipient's store, or deleted
\* for its age: mailbox_loop deletes a row only after its op is stored.
NothingLost ==
    \A l \in Letter :
        handler[l] = "accepted" => OnHub(l) \/ Stored(l) \/ l \in swept

\* Whatever times out, crashes, expires or arrives late, the only way mail is
\* lost is that the hub gave the id of a deleted row to another letter.
NoReuse == \A n \in RowId : \A k, l \in owners[n] : k = l
LossNeedsReuse == NoReuse => NothingLost

\* Why that is so: every id in hand is that of a letter in the store.
TakenBy(p, n) == \E l \in owners[n] : To[l] = p /\ l \in store[p]
OwnersInv ==
    /\ \A r \in mail : r.letter \in owners[r.id]
    /\ \A p \in Peer : \A r \in batch[p] : r.letter \in owners[r.id] /\ To[r.letter] = p
    /\ \A p \in Peer : \A n \in collected[p] : TakenBy(p, n)
    /\ \A d \in late : \A n \in d.ids : TakenBy(d.peer, n)

\* With no sweep and no late DELETE no id is given twice while it is in hand:
\* only its recipient deletes a row, and only the one that was absorbed.
RowsInHandStay ==
    /\ late = {}
    /\ \A r, s \in mail : r.id = s.id => r = s
    /\ \A p \in Peer : batch[p] \subseteq RowsFor(p)
    /\ \A p \in Peer : loop[p] # "absorbing" => batch[p] = {}
    /\ \A p \in Peer : \A n \in collected[p] :
          \E r \in RowsFor(p) : r.id = n /\ r.letter \in store[p]

\* "Mailbox" is shown before anything is sent: in the end the hub has taken
\* the op or the sender was told it failed, unless the sender's process died.
ProvisionalIsSettled ==
    \A l \in Letter :
        shown[l] = "mailbox" ~> \/ handler[l] = "accepted"
                                \/ shown[l] = "failed"
                                \/ task[l] = "dead"

\* Mail its recipient can take does not stay on the hub, however often the
\* DELETE fails and whatever undeliverable mail lies in front of it.
MailboxDrains ==
    \A l \in Certain : OnHub(l) ~> ~ OnHub(l)

\* Mail is delivered: the mailbox implements the abstract promise.
Status ==
    [l \in Letter |-> IF Stored(l) THEN "delivered"
                      ELSE IF OnHub(l) THEN "held"
                      ELSE IF handler[l] = "accepted" THEN "lost"
                      ELSE "unsent"]

Promise == INSTANCE OfflineDelivery WITH status <- Status
KeepsPromise == Promise!FairSpec
=============================================================================
