------------------------------- MODULE RoomLog -------------------------------
(***************************************************************************)
(* A room is a signed, hash-chained membership log (wicara-core/room.rs).  *)
(* This module translates the entry format and verify_log, the replay that *)
(* every copy of a log goes through: what a peer hands over, what the hub  *)
(* returns, what the local store held, and what this endpoint appended.    *)
(*                                                                         *)
(* A BLAKE3 hash is modelled injectively: it commits to the entry and, by  *)
(* `prev', to everything before it, so the hash of an entry IS the         *)
(* sequence of records from the first entry of its chain up to itself.     *)
(* An Ed25519 signature is the key that made it over exactly this content: *)
(* an entry altered after signing, or signed with another key, is one      *)
(* whose `signer' is not its `author'.  ts_ms and the room's name are not  *)
(* told apart by anything here and are left out.                           *)
(***************************************************************************)
EXTENDS Integers, Sequences, SequencesExt

CONSTANT Peer    \* Ed25519 public keys; an endpoint is its key

Create == [type |-> "create"]
Leave  == [type |-> "leave"]
Invite(p) == [type |-> "invite", member |-> p]
Kick(p)   == [type |-> "kick", member |-> p]

\* RoomOp. Only invite and kick carry a member.
Op == {Create, Leave} \cup {Invite(p) : p \in Peer} \cup {Kick(p) : p \in Peer}

\* What a hash commits to for one position of the chain.
Link == [author : Peer, op : Op, signer : Peer]
ChainHash == Seq(Link)
Genesis == << >>

\* RoomEntry.
Entry == [prev : ChainHash, author : Peer, op : Op, signer : Peer]

\* RoomEntry::new signs with the author's own key.
NewEntry(who, head, op) ==
    [prev |-> head, author |-> who, op |-> op, signer |-> who]

\* RoomEntry::hash covers prev, author, op and the signature.
Hash(e) == Append(e.prev, [author |-> e.author, op |-> e.op, signer |-> e.signer])

\* Wrong: the signature is not looked at.
VerifySignatureSkipped(e) == TRUE

VerifySignature(e) == e.signer = e.author

-----------------------------------------------------------------------------
(* Room: what a replay says a log stands for.  Rejected stands for the     *)
(* error verify_log returns instead of a Room.                             *)
Room == [id : ChainHash, founder : Peer, members : SUBSET Peer,
         head : ChainHash, length : Nat \ {0}]
Rejected == [length |-> 0]

IsAdmin(room, who) == room.founder = who

\* Wrong: the first entry is not counted.
OpenRoomUncounted(e) ==
    IF e.prev = Genesis /\ VerifySignature(e) /\ e.op = Create
    THEN [id |-> Hash(e), founder |-> e.author, members |-> {e.author},
          head |-> Hash(e), length |-> 0]
    ELSE Rejected

\* The first entry: a signed Create that follows nothing.
OpenRoom(e) ==
    IF e.prev = Genesis /\ VerifySignature(e) /\ e.op = Create
    THEN [id |-> Hash(e), founder |-> e.author, members |-> {e.author},
          head |-> Hash(e), length |-> 1]
    ELSE Rejected

\* Wrong: one may leave a room one is not in.
AuthorisedStranger(room, e) ==
    \/ e.op.type = "invite" /\ IsAdmin(room, e.author)
    \/ e.op.type = "kick" /\ IsAdmin(room, e.author) /\ e.op.member # room.founder
    \/ e.op.type = "leave" /\ e.author # room.founder

\* Authorisation is per op: the founder acts on others, a member on itself.
Authorised(room, e) ==
    \/ /\ e.op.type = "invite"
       /\ IsAdmin(room, e.author)
    \/ /\ e.op.type = "kick"
       /\ IsAdmin(room, e.author)
       /\ e.op.member # room.founder
    \/ /\ e.op.type = "leave"
       /\ e.author \in room.members
       /\ e.author # room.founder

MembersAfter(room, e) ==
    CASE e.op.type = "invite" -> room.members \cup {e.op.member}
      [] e.op.type = "kick"   -> room.members \ {e.op.member}
      [] OTHER                -> room.members \ {e.author}

\* Wrong: prev is not compared with the head.
ReplayUnchained(room, e) ==
    IF room # Rejected /\ VerifySignature(e) /\ Authorised(room, e)
    THEN [room EXCEPT !.members = MembersAfter(room, e),
                      !.head = Hash(e),
                      !.length = @ + 1]
    ELSE Rejected

\* One turn of the loop: bail at the first entry that does not hold up.
Replay(room, e) ==
    IF /\ room # Rejected
       /\ e.prev = room.head
       /\ VerifySignature(e)
       /\ Authorised(room, e)
    THEN [room EXCEPT !.members = MembersAfter(room, e),
                      !.head = Hash(e),
                      !.length = @ + 1]
    ELSE Rejected

\* Wrong: the loop skips two entries instead of one.
VerifyLogSkipping(log) ==
    IF log = << >> THEN Rejected
    ELSE FoldLeft(Replay, OpenRoom(Head(log)), SubSeq(log, 3, Len(log)))

VerifyLog(log) ==
    IF log = << >> THEN Rejected
    ELSE FoldLeft(Replay, OpenRoom(Head(log)), Tail(log))
=============================================================================
