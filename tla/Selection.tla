----------------------------- MODULE Selection -----------------------------
(***************************************************************************)
(* The terminal interface as a machine: the list of conversations, which   *)
(* one is selected, which message the cursor is on, what the next Enter    *)
(* will do; fed by keys, by the mouse and by the events of the tasks that  *)
(* read and write the store.                                               *)
(*                                                                         *)
(* Source: Ui of crates/wicara/src/ui.rs; send_log, dispatch and forget of *)
(* crates/wicara/src/main.rs.  The store appears as what Store::history    *)
(* returns.  A sender of an event and the interface share one step: the    *)
(* channel between them keeps the order and loses nothing.  Positions      *)
(* (sel, cursor, unread) count from 0, as in the code.                     *)
(***************************************************************************)
EXTENDS Integers, Sequences, FiniteSets, SequencesExt

CONSTANTS
  Keys,        \* conversations: endpoint keys and room ids
  None,        \* no selection, nothing pending, no task, no unread mark
  LogLimit,    \* HISTORY_ON_START: a Log carries so many messages at most
  MaxQueue,    \* bound: commands waiting for dispatch
  Budgets      \* bounds: what a behaviour may spend, chosen at its start

ASSUME KeysAssumption == IsFiniteSet(Keys) /\ None \notin Keys \cup Nat
ASSUME NoTaskAssumption ==
  None \notin [kind : {"log"}, peer : Keys, entries : Seq([id : Nat, deleted : BOOLEAN])]
         \cup [kind : {"clear", "forget"}, peer : Keys] \cup [kind : {"wipe"}, peer : {None}]
ASSUME LimitsAssumption ==
  /\ LogLimit \in Nat \ {0} /\ MaxQueue \in Nat \ {0}
ASSUME BudgetsAssumption ==
  Budgets \subseteq [keys : SUBSET Keys, messages : Nat, commands : Nat, removals : Nat, overlays : Nat]

VARIABLES
  peers,      \* Ui.peers: the keys, in the order of the list
  index,      \* Ui.index: key to position, None for no entry
  row,        \* what a Peer holds besides its key
  sel,        \* Ui.sel
  focus,      \* Ui.focus
  pending,    \* Ui.pending
  overlay,    \* Ui.help, members or net
  commands,   \* the channel from the interface to dispatch
  stored,     \* the messages of each conversation, in the order of the fold
  messages,   \* every message there ever was: its conversation and whether it is ours
  deleted,    \* messages deleted by their author
  doing,      \* a task between reading the store and telling the interface
  seen,       \* history: messages that were on the screen
  moved,      \* history: the selection changed under what is pending
  cleared,    \* history: conversations that were emptied
  crossed,    \* history: conversations two tasks told about at once
  left        \* what is left of the budget

ui      == <<peers, index, row, sel, focus, pending, overlay>>
store   == <<stored, messages, deleted>>
history == <<seen, moved, cleared, crossed>>
vars    == <<ui, commands, store, doing, history, left>>

\* Takes one of a kind from the budget.
Spend(kind) == left[kind] > 0 /\ left' = [left EXCEPT ![kind] = @ - 1]

Tasks == {"dispatch", "network"}
Blank == [log |-> <<>>, cursor |-> 0, unread |-> None]

Selected == IF sel < Len(peers) THEN peers[sel + 1] ELSE None
Ids(log) == {log[i].id : i \in DOMAIN log}

Init ==
  /\ peers = <<>> /\ index = [k \in Keys |-> None] /\ row = [k \in Keys |-> Blank]
  /\ sel = 0 /\ focus = "input" /\ pending = None /\ overlay = FALSE
  /\ commands = <<>>
  /\ stored = [k \in Keys |-> <<>>] /\ messages = <<>> /\ deleted = {}
  /\ doing = [t \in Tasks |-> None]
  /\ seen = [k \in Keys |-> {}] /\ moved = FALSE /\ cleared = {} /\ crossed = {}
  /\ left \in Budgets

Least(a, b) == IF a < b THEN a ELSE b

\* Wrong: an ordinary subtraction.
LastOfWrapping(n) == n - 1
LastOf(n) == IF n = 0 THEN 0 ELSE n - 1     \* len().saturating_sub(1)

(***************************************************************************)
(* Ui::apply.                                                              *)
(***************************************************************************)
\* Wrong: a new conversation goes to the top of the list.
EnlistFirst(k) ==
  /\ peers' = IF index[k] = None THEN <<k>> \o peers ELSE peers
  /\ index' = IF index[k] # None THEN index
              ELSE [j \in Keys |-> CASE j = k          -> 0
                                    [] index[j] = None -> None
                                    [] OTHER           -> index[j] + 1]

\* peer_mut: the row the lookup leads to, a new one at the end if it has none.
Enlist(k) ==
  /\ peers' = IF index[k] = None THEN Append(peers, k) ELSE peers
  /\ index' = IF index[k] = None THEN [index EXCEPT ![k] = Len(peers)] ELSE index

Found(k) == IF index[k] = None THEN k ELSE peers[index[k] + 1]

\* Known, Connected, Path, Disconnected, Note and Room.
ApplyMention(k) == Enlist(k) /\ UNCHANGED <<row, sel, pending>>

\* Wrong: a fold that is no longer than the last brings nothing new.
ApplyLogLonger(k, entries) ==
  LET p      == row[Found(k)]
      before == Len(p.log)
      news   == Len(entries) > before /\ Selected # k
  IN  /\ Enlist(k)
      /\ row' = IF Len(entries) <= before THEN row ELSE
                [row EXCEPT ![Found(k)] =
                   [p EXCEPT !.log    = entries,
                             !.cursor = LastOf(Len(entries)),
                             !.unread = IF news /\ @ = None THEN before ELSE @]]
      /\ UNCHANGED <<sel, pending>>

\* Wrong: the first fold of a conversation is history, not news.
ApplyLogFirstQuiet(k, entries) ==
  LET p      == row[Found(k)]
      before == Len(p.log)
      kept   == IF p.cursor + 1 >= before THEN LastOf(Len(entries)) ELSE p.cursor
      news   == Len(entries) > before /\ before > 0 /\ Selected # k
  IN  /\ Enlist(k)
      /\ row' = [row EXCEPT ![Found(k)] =
                   [p EXCEPT !.log    = entries,
                             !.cursor = Least(kept, LastOf(Len(entries))),
                             !.unread = IF news /\ @ = None THEN before ELSE @]]
      /\ UNCHANGED <<sel, pending>>

ApplyLog(k, entries) ==
  LET p      == row[Found(k)]
      before == Len(p.log)
      kept   == IF p.cursor + 1 >= before THEN LastOf(Len(entries)) ELSE p.cursor
      news   == Len(entries) > before /\ Selected # k
  IN  /\ Enlist(k)
      /\ row' = [row EXCEPT ![Found(k)] =
                   [p EXCEPT !.log    = entries,
                             !.cursor = Least(kept, LastOf(Len(entries))),
                             !.unread = IF news /\ @ = None THEN before ELSE @]]
      /\ UNCHANGED <<sel, pending>>

Place(list, k) == CHOOSE i \in DOMAIN list : list[i] = k

\* A list that holds k once, without it.
Without(list, k) ==
  IF k \notin Range(list) THEN list
  ELSE [i \in 1..(Len(list) - 1) |-> IF i < Place(list, k) THEN list[i] ELSE list[i + 1]]

Positions(list) ==
  [k \in Keys |-> IF k \in Range(list) THEN Place(list, k) - 1 ELSE None]

\* Wrong: the rows behind the removed one keep their old positions.
ApplyForgottenStale(k) ==
  /\ peers' = Without(peers, k)
  /\ index' = [index EXCEPT ![k] = None]
  /\ row'   = [row EXCEPT ![k] = Blank]
  /\ sel'   = Least(sel, LastOf(Len(peers')))
  /\ UNCHANGED pending

ApplyForgotten(k) ==
  /\ peers' = Without(peers, k)
  /\ index' = Positions(peers')
  /\ row'   = [row EXCEPT ![k] = Blank]
  /\ sel'   = Least(sel, LastOf(Len(peers')))
  /\ UNCHANGED pending

ApplyWiped ==
  /\ peers' = <<>> /\ index' = [k \in Keys |-> None] /\ row' = [k \in Keys |-> Blank]
  /\ sel' = 0 /\ UNCHANGED pending

(***************************************************************************)
(* Store::history as send_log asks for it, and what the properties need to *)
(* know of a step.                                                         *)
(***************************************************************************)
History(s, d, k) ==
  LET all  == [i \in DOMAIN s[k] |-> [id |-> s[k][i], deleted |-> s[k][i] \in d]]
      skip == IF Len(all) > LogLimit THEN Len(all) - LogLimit ELSE 0
  IN  SubSeq(all, skip + 1, Len(all))

About(t, k) == doing[t] # None /\ (doing[t].peer = k \/ doing[t].kind = "wipe")
Busy(k)     == \E t \in Tasks : About(t, k)
Contended(k) == \A t \in Tasks : About(t, k)
Shown(k)    == row[k].log
Current(k)  == History(stored, deleted, k)

Watch ==
  /\ seen'  = [k \in Keys |-> CASE k = Selected'            -> seen[k] \cup Ids(row'[k].log)
                                [] k \notin Range(peers')   -> {}
                                [] OTHER                    -> seen[k]]
  /\ moved' = (pending' # None /\ pending' = pending /\ (moved \/ Selected' # Selected))
  /\ crossed' = {k \in Keys : \/ Contended(k)'
                              \/ k \in crossed /\ (Busy(k)' \/ Shown(k)' # Current(k)')}

(***************************************************************************)
(* The tasks: the store is read under its lock, the interface is told      *)
(* afterwards (send_log; forget and dispatch for a removal).               *)
(***************************************************************************)
Fold(t, k) == doing' = [doing EXCEPT ![t] = [kind |-> "log", peer |-> k,
                                             entries |-> History(stored', deleted', k)]]

\* A message goes where its clock puts it, which need not be the end.
Insert(k, mine) ==
  /\ Spend("messages")
  /\ messages' = Append(messages, [home |-> k, mine |-> mine])
  /\ \E i \in 1..(Len(stored[k]) + 1) :
       stored' = [stored EXCEPT ![k] = InsertAt(@, i, Len(messages) + 1)]
  /\ UNCHANGED deleted

Strike(k, id) ==
  /\ deleted' = IF id \in Range(stored[k]) THEN deleted \cup {id} ELSE deleted
  /\ UNCHANGED <<stored, messages>>

\* A session or the mailbox loop records what a peer wrote.
Receive(k) ==
  /\ doing["network"] = None
  /\ \/ Insert(k, FALSE)
     \/ \E id \in Range(stored[k]) : ~messages[id].mine /\ Strike(k, id) /\ UNCHANGED left
     \/ UNCHANGED <<store, left>>    \* an edit, a reaction, an attachment complete
  /\ Fold("network", k)
  /\ UNCHANGED <<ui, commands, cleared>> /\ Watch

Drop(keys) ==
  /\ stored' = [k \in Keys |-> IF k \in keys THEN <<>> ELSE stored[k]]
  /\ cleared' = cleared \cup keys
  /\ UNCHANGED <<messages, deleted>>

Removed(kind, k) == doing' = [doing EXCEPT !["dispatch"] = [kind |-> kind, peer |-> k]]

\* dispatch takes the next command.
Dispatch ==
  /\ doing["dispatch"] = None /\ commands # <<>> /\ commands' = Tail(commands)
  /\ LET c == Head(commands) IN
       \/ c.kind \in {"send", "reply"} /\ Insert(c.peer, TRUE)
            /\ Fold("dispatch", c.peer) /\ UNCHANGED cleared
       \/ c.kind \in {"edit", "react"} /\ UNCHANGED <<store, left>>
            /\ Fold("dispatch", c.peer) /\ UNCHANGED cleared
       \/ c.kind = "delete" /\ Strike(c.peer, c.target) /\ UNCHANGED left
            /\ Fold("dispatch", c.peer) /\ UNCHANGED cleared
       \/ c.kind \in {"clear", "forget"} /\ UNCHANGED left
            /\ Drop({c.peer}) /\ Removed(c.kind, c.peer)
       \/ c.kind = "wipe" /\ UNCHANGED left /\ Drop(Keys) /\ Removed("wipe", None)
       \/ c.kind = "other" /\ UNCHANGED <<store, doing, cleared, left>>
  /\ UNCHANGED ui /\ Watch

\* The files are gone; a cleared conversation is read once more.
Reread ==
  /\ doing["dispatch"] # None /\ doing["dispatch"].kind = "clear"
  /\ UNCHANGED store /\ Fold("dispatch", doing["dispatch"].peer)
  /\ UNCHANGED <<ui, commands, cleared, left>> /\ Watch

Tell(t) ==
  /\ doing[t] # None /\ doing[t].kind # "clear"
  /\ LET d == doing[t] IN
       \/ d.kind = "log" /\ ApplyLog(d.peer, d.entries)
       \/ d.kind = "forget" /\ ApplyForgotten(d.peer)
       \/ d.kind = "wipe" /\ ApplyWiped
  /\ doing' = [doing EXCEPT ![t] = None]
  /\ UNCHANGED <<focus, overlay, commands, store, cleared, left>> /\ Watch

Mention(k) ==
  /\ ApplyMention(k)
  /\ UNCHANGED <<focus, overlay, commands, store, doing, cleared, left>> /\ Watch

(***************************************************************************)
(* Ui::on_key and Ui::on_mouse.  A key that finds an overlay takes it away *)
(* and does nothing else, unless it is a character.                        *)
(***************************************************************************)
Rest == UNCHANGED <<commands, store, doing, cleared>> /\ Watch
Free == Rest /\ UNCHANGED left

Dismiss ==
  /\ overlay /\ overlay' = FALSE
  /\ UNCHANGED <<peers, index, row, sel, focus, pending>> /\ Free

Tab ==
  /\ ~overlay
  /\ focus' \in {"peers", "chat", "input"} \ {focus}     \* Tab and BackTab
  /\ UNCHANGED <<peers, index, row, sel, pending, overlay>> /\ Free

Escape ==
  /\ ~overlay /\ pending' = None
  /\ UNCHANGED <<peers, index, row, sel, focus, overlay>> /\ Free

\* select_peer, and a click in the list.
Look(s) == sel' = s /\ row' = [row EXCEPT ![peers[s + 1]].unread = None]

SelectPeer ==
  /\ ~overlay /\ focus = "peers" /\ peers # <<>>
  /\ \E delta \in {-1, 1} : Look((sel + delta) % Len(peers))
  /\ UNCHANGED <<peers, index, focus, pending, overlay>> /\ Free

Wheel ==
  /\ peers # <<>> /\ \E delta \in {-1, 1} : Look((sel + delta) % Len(peers))
  /\ UNCHANGED <<peers, index, focus, pending, overlay>> /\ Free

ClickPeer ==
  /\ focus' = "peers"
  /\ \/ \E s \in 0..(Len(peers) - 1) : Look(s)
     \/ UNCHANGED <<sel, row>>
  /\ UNCHANGED <<peers, index, pending, overlay>> /\ Free

Point(c) == row' = [row EXCEPT ![Selected].cursor = Least(c, LastOf(Len(row[Selected].log)))]

MoveCursor ==
  /\ ~overlay /\ focus = "chat" /\ Selected # None /\ row[Selected].log # <<>>
  /\ \E delta \in {-1, 1} :
       LET c == row[Selected].cursor + delta IN Point(IF c < 0 THEN 0 ELSE c)
  /\ UNCHANGED <<peers, index, sel, focus, pending, overlay>> /\ Free

\* The rows are those of the last frame that drew a conversation; under an
\* overlay that may be another one.
DrawnRows == IF overlay THEN 0..(LogLimit - 1) ELSE 0..(Len(row[Selected].log) - 1)

ClickChat ==
  /\ focus' = "chat"
  /\ \/ Selected # None /\ \E owner \in DrawnRows : Point(owner)
     \/ UNCHANGED row
  /\ UNCHANGED <<peers, index, sel, pending, overlay>> /\ Free

ClickInput ==
  /\ focus' = "input"
  /\ UNCHANGED <<peers, index, row, sel, pending, overlay>> /\ Free

CursorEntry == row[Selected].log[row[Selected].cursor + 1]
OnMessage   == Selected # None /\ row[Selected].cursor < Len(row[Selected].log)
\* Wrong: any message can be edited and deleted.
ChangeableByAny == ~CursorEntry.deleted
Changeable == messages[CursorEntry.id].mine /\ ~CursorEntry.deleted

\* "other" is every command that leaves store and list alone: /room, /leave,
\* /name, /nick, /connect, /send, and a removal without its "yes".
Command(kind, peer, target) == [kind |-> kind, peer |-> peer, target |-> target]
Issue(c) == Len(commands) < MaxQueue /\ commands' = Append(commands, c)
Send(c)  == Issue(c) /\ Spend("commands")

\* chat_action: r, e, d and 1 to 5.
Compose(kind) ==
  /\ pending' = [kind |-> kind, target |-> CursorEntry.id]
  /\ focus' = "input" /\ UNCHANGED <<commands, left>>

Act(kind) ==
  /\ Send(Command(kind, Selected, CursorEntry.id))
  /\ UNCHANGED <<pending, focus>>

ChatAction ==
  /\ focus = "chat" /\ OnMessage
  /\ \/ Compose("reply")
     \/ Changeable /\ Compose("edit")
     \/ Changeable /\ Act("delete")
     \/ Act("react")
  /\ overlay' = FALSE
  /\ UNCHANGED <<peers, index, row, sel, store, doing, cleared>> /\ Watch

\* submit: Enter on a line of text, or on none.
Submit ==
  /\ ~overlay /\ Selected # None
  /\ Send(IF pending = None THEN Command("send", Selected, None)
                            ELSE Command(pending.kind, Selected, pending.target))
  /\ pending' = None
  /\ UNCHANGED <<peers, index, row, sel, focus, overlay, store, doing, cleared>> /\ Watch

SubmitNothing ==
  /\ ~overlay /\ pending # None /\ pending' = None
  /\ UNCHANGED <<peers, index, row, sel, focus, overlay>> /\ Free

\* slash: Enter on a command.  What is pending stays.
Slash ==
  /\ ~overlay
  /\ \/ Spend("removals") /\ Selected # None
          /\ \E kind \in {"clear", "forget"} : Issue(Command(kind, Selected, None))
     \/ Spend("removals") /\ Issue(Command("wipe", None, None))
     \/ \E peer \in {Selected, None} : Send(Command("other", peer, None))
  /\ UNCHANGED <<ui, store, doing, cleared>> /\ Watch

\* /help, /net and /members.
ShowOverlay ==
  /\ ~overlay /\ overlay' = TRUE /\ Spend("overlays")
  /\ UNCHANGED <<peers, index, row, sel, focus, pending>> /\ Rest

UserNext ==
  \/ Dismiss \/ Tab \/ Escape \/ SelectPeer \/ Wheel \/ ClickPeer \/ MoveCursor \/ ClickChat
  \/ ClickInput \/ ChatAction \/ Submit \/ SubmitNothing \/ Slash \/ ShowOverlay

TaskNext ==
  \/ Dispatch \/ Reread
  \/ \E t \in Tasks : Tell(t)
  \/ \E k \in left.keys : Receive(k) \/ Mention(k)

Next == UserNext \/ TaskNext

Spec == Init /\ [][Next]_vars
-----------------------------------------------------------------------------
TypeOK ==
  /\ peers \in Seq(Keys) /\ sel \in Nat
  /\ index \in [Keys -> Nat \cup {None}]
  /\ \A k \in Keys : /\ Shown(k) \in Seq([id : DOMAIN messages, deleted : BOOLEAN])
                     /\ row[k].cursor \in Nat /\ row[k].unread \in Nat \cup {None}
                     /\ stored[k] \in Seq(DOMAIN messages)
  /\ focus \in {"peers", "chat", "input"} /\ overlay \in BOOLEAN
  /\ pending = None \/ pending \in [kind : {"reply", "edit"}, target : DOMAIN messages]
  /\ Len(commands) <= MaxQueue
  /\ messages \in Seq([home : Keys, mine : BOOLEAN]) /\ deleted \subseteq DOMAIN messages
  /\ cleared \subseteq Keys /\ crossed \subseteq Keys /\ moved \in BOOLEAN

\* The lookup gives every listed conversation its own row and no other, and
\* neither the selection nor a cursor dangles past the end (ui.rs:462-475 and
\* the test at ui.rs:2263).
LookupIsList ==
  /\ \A k \in Keys : (index[k] = None) = (k \notin Range(peers))
  /\ \A i \in DOMAIN peers : index[peers[i]] = i - 1
  /\ sel <= LastOf(Len(peers))
  /\ \A k \in Keys : row[k].cursor <= LastOf(Len(Shown(k)))

\* Nothing moves the selection to another conversation but the user's keys and
\* clicks, and the removal of the selected row or of one above it.
SelectionIsTheUsers ==
  [][Selected # None /\ Selected' # Selected =>
       IF peers' = peers THEN UNCHANGED <<store, doing, commands>>
       ELSE \E i \in 1..(sel + 1) : peers[i] \notin Range(peers')]_vars

\* A command that names a message goes to the conversation the message is in,
\* and edits or deletes only what is ours; an edit or a reply goes elsewhere
\* only if the selection changed while it was being written (ui.rs:584-622,
\* 686-715).
OpsStayHome ==
  [][Len(commands') > Len(commands) =>
       LET c == Last(commands') IN
       c.target # None =>
         /\ \/ messages[c.target].home = c.peer
            \/ moved /\ c.kind \in {"edit", "reply"}
         /\ c.kind \in {"edit", "delete"} => messages[c.target].mine]_vars

\* With no task about a conversation, the screen holds what the store holds,
\* unless two tasks told about it at once and none has since (main.rs:244-268,
\* 469-486): the older of two folds may be told last, and a removal may be told
\* after a message that came behind it.
ShownIsStored ==
  \A k \in Keys :
    ~Busy(k) /\ k \notin crossed => Shown(k) = Current(k)

\* A message that never was on the screen leaves a mark on its conversation,
\* unless the conversation was emptied, or has more messages than a fold shows
\* and so either fills the fold, which then does not grow, or was told about by
\* two tasks at once, the older and shorter fold last (ui.rs:424-442).
UnreadIsMarked ==
  \A k \in Range(peers) :
    k # Selected /\ ~(Ids(Shown(k)) \subseteq seen[k])
      => \/ row[k].unread # None \/ k \in cleared
         \/ Len(stored[k]) > LogLimit /\ (Len(Shown(k)) = LogLimit \/ k \in crossed)
=============================================================================
