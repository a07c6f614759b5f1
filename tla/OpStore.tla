------------------------------ MODULE OpStore ------------------------------
(***************************************************************************)
(* One conversation as a table of operations, and the fold that turns the  *)
(* table into what is shown: Store::record and Store::history of           *)
(* crates/wicara/src/store.rs over the ids of crates/wicara-core/src/wire.rs. *)
(* Everything here is a pure operator; Conversation.tla runs it.           *)
(*                                                                         *)
(* A table is a sequence of operations in the order they were inserted,    *)
(* which is the order of SQLite's row ids.  The text of a message is       *)
(* abstracted to the id of the operation that wrote it, and one emoji      *)
(* stands for all of them: reactions with different emoji never meet.      *)
(***************************************************************************)
EXTENDS Integers, Sequences, FiniteSets, SequencesExt

CONSTANTS
  Peers,     \* endpoint keys
  NoText     \* the body of a message whose author deleted it

(***************************************************************************)
(* Ids and operations.                                                     *)
(***************************************************************************)
Id == [sender: Peers, seq: Nat, ts: Nat]

Chat(id)              == [kind |-> "chat", id |-> id]
Edit(id, target)      == [kind |-> "edit", id |-> id, target |-> target]
Delete(id, target)    == [kind |-> "delete", id |-> id, target |-> target]
React(id, target, on) == [kind |-> "react", id |-> id, target |-> target, on |-> on]
File(id, size, hash)  == [kind |-> "file", id |-> id, size |-> size, hash |-> hash]

IsMessage(op) == op.kind \in {"chat", "file"}

\* Wrong: an op may change anybody's message.
IsAuthorsAny(op) == TRUE

\* Only the author of a message may change it.
IsAuthors(op) == op.target.sender = op.id.sender

Ops(table) == {table[i] : i \in DOMAIN table}

(***************************************************************************)
(* Store::record.  The primary key is the whole id, and an insert that     *)
(* meets a stored id is ignored.                                           *)
(***************************************************************************)
Known(table, id) == \E op \in Ops(table) : op.id = id

\* Wrong: the insert does not ignore what is stored.
RecordAgain(table, op) == Append(table, op)

Record(table, op) == IF Known(table, op.id) THEN table ELSE Append(table, op)

\* Store::open: the highest sequence number of one's own stored operations.
Resume(table, me) ==
  LET mine == {op.id.seq : op \in {o \in Ops(table) : o.id.sender = me}} IN
  IF mine = {} THEN 0 ELSE CHOOSE n \in mine : \A k \in mine : k <= n

(***************************************************************************)
(* Store::history.  ORDER BY ts_ms, seq; rows equal in both come in the    *)
(* order of their insertion, because the query names no further key.       *)
(***************************************************************************)
\* Wrong: ops of the same millisecond stay in the order of their insertion.
BeforeByClock(table, i, j) ==
  \/ table[i].id.ts < table[j].id.ts
  \/ table[i].id.ts = table[j].id.ts /\ i < j

Before(table, i, j) ==
  LET p == table[i].id
      q == table[j].id
  IN  \/ p.ts < q.ts
      \/ p.ts = q.ts /\ p.seq < q.seq
      \/ p.ts = q.ts /\ p.seq = q.seq /\ i < j

Rank(table, i) == 1 + Cardinality({j \in DOMAIN table : Before(table, j, i)})

\* Wrong: the order of arrival.
InOrderAsInserted(table) == table

InOrder(table) ==
  [k \in DOMAIN table |-> table[CHOOSE i \in DOMAIN table : Rank(table, i) = k]]

\* Wrong: an edit brings a deleted message back.
RewriteReviving(messages, target, text, deleted) ==
  [i \in DOMAIN messages |->
     IF messages[i].id = target
     THEN [messages[i] EXCEPT !.text = text, !.deleted = deleted]
     ELSE messages[i]]

Rewrite(messages, target, text, deleted) ==
  [i \in DOMAIN messages |->
     IF messages[i].id = target
     THEN [messages[i] EXCEPT !.text = text, !.deleted = @ \/ deleted]
     ELSE messages[i]]

ApplyOp(fold, op) ==
  CASE IsMessage(op) ->
         [fold EXCEPT !.messages = Append(@, [id |-> op.id, text |-> op.id, deleted |-> FALSE])]
    [] op.kind = "edit" /\ IsAuthors(op) ->
         [fold EXCEPT !.messages = Rewrite(@, op.target, op.id, FALSE)]
    [] op.kind = "delete" /\ IsAuthors(op) ->
         [fold EXCEPT !.messages = Rewrite(@, op.target, NoText, TRUE)]
    [] op.kind = "react" /\ op.on ->
         [fold EXCEPT !.reactions = @ \cup {<<op.target, op.id.sender>>}]
    [] op.kind = "react" /\ ~op.on ->
         [fold EXCEPT !.reactions = @ \ {<<op.target, op.id.sender>>}]
    [] OTHER -> fold

\* The conversation as it stands, oldest message first.
History(table) ==
  LET fold == FoldLeft(ApplyOp, [messages |-> <<>>, reactions |-> {}], InOrder(table))
      Reactors(id) == {p \in Peers : <<id, p>> \in fold.reactions}
  IN  [i \in DOMAIN fold.messages |->
         [id       |-> fold.messages[i].id,
          text     |-> fold.messages[i].text,
          deleted  |-> fold.messages[i].deleted,
          reactors |-> Reactors(fold.messages[i].id)]]
=============================================================================
