----------------------------- MODULE RoomReplay -----------------------------
(***************************************************************************)
(* The replay loop of verify_log, one entry at a time, over everything a   *)
(* hub or a peer may hand over: entries that name a stale or foreign hash, *)
(* that carry another key's signature, that their author had no right to   *)
(* write.  The loop stops at the first entry that does not hold up.  `log' *)
(* is what has been read so far and `room' what the loop has built of it.  *)
(*                                                                         *)
(* The second half states what a membership log means without replaying   *)
(* it, by quantifying over its positions; the two must agree.              *)
(***************************************************************************)
EXTENDS RoomLog

CONSTANT MaxLog    \* bound on the length of the log that is read

ASSUME MaxLogAssumption == MaxLog \in Nat

VARIABLES log, room

vars == <<log, room>>

\* Hashes a received entry may name: none, or that of any entry read so far.
KnownHash == {Genesis} \cup {Hash(log[i]) : i \in 1..Len(log)}

\* Whatever may arrive as the next entry of a log.
Incoming == [prev : KnownHash, author : Peer, op : Op, signer : Peer]

Init == log = << >> /\ room = Rejected

ReadFirst(e) ==
    /\ log = << >>
    /\ log' = <<e>>
    /\ room' = OpenRoom(e)

ReadNext(e) ==
    /\ log # << >>
    /\ room # Rejected
    /\ log' = Append(log, e)
    /\ room' = Replay(room, e)

Next == /\ Len(log) < MaxLog
        /\ \E e \in Incoming : ReadFirst(e) \/ ReadNext(e)

Spec == Init /\ [][Next]_vars

-----------------------------------------------------------------------------
(* What a log means, position by position.                                 *)

Founder(l) == l[1].author

Removes(e, p) ==
    \/ e.op.type = "kick" /\ e.op.member = p
    \/ e.op.type = "leave" /\ e.author = p

Admits(e, p) == e.op.type = "invite" /\ e.op.member = p

\* The members after the first n entries: the founder, and everyone whose
\* last invitation was not followed by a kick or a leave.
MembersAt(l, n) ==
    {p \in Peer :
        \/ p = Founder(l)
        \/ \E i \in 2..n : /\ Admits(l[i], p)
                           /\ \A j \in (i+1)..n : ~ Removes(l[j], p)}

\* Entry i had a right to be written, given the entries before it.
Permitted(l, i) ==
    /\ l[i].op.type \in {"invite", "kick"} => l[i].author = Founder(l)
    /\ \A p \in Peer : Removes(l[i], p) => p # Founder(l)
    /\ l[i].op.type = "leave" => l[i].author \in MembersAt(l, i - 1)

Follows(l, i) ==
    /\ l[i].prev = Hash(l[i-1])
    /\ l[i].op # Create
    /\ Permitted(l, i)

WellFormed(l) ==
    /\ l # << >>
    /\ l[1].prev = Genesis
    /\ l[1].op = Create
    /\ \A i \in 1..Len(l) : VerifySignature(l[i])
    /\ \A i \in 2..Len(l) : Follows(l, i)

-----------------------------------------------------------------------------
TypeOK ==
    /\ log \in Seq(Entry)
    /\ Len(log) <= MaxLog
    /\ room \in Room \cup {Rejected}

\* verify_log accepts exactly the logs whose every entry was signed by its
\* author, follows the one before it and was permitted when it was written,
\* and the membership it returns is the one the positions of the log spell.
ReplayIsMeaning ==
    /\ room # Rejected <=> WellFormed(log)
    /\ room # Rejected => /\ room.members = MembersAt(log, Len(log))
                          /\ room.founder = Founder(log)
                          /\ room.length = Len(log)

\* The whole-log function the callers use computes what the loop does.
VerifyLogIsLoop == VerifyLog(log) = room

\* The chain is tamper evident: whoever drops, repeats or reorders entries of
\* an accepted log gets a log verify_log refuses, unless all it did was to cut
\* the tail off. This is what "the hub can withhold but cannot forge" rests on.
Picks == UNION {[1..k -> 1..Len(log)] : k \in 1..Len(log)}
OnlyPrefixesVerify ==
    room # Rejected =>
        \A f \in Picks :
            LET other == [i \in DOMAIN f |-> log[f[i]]]
            IN  VerifyLog(other) # Rejected => IsPrefix(other, log)

\* No entry takes someone out of a room but one they or the founder signed,
\* nobody comes in but by the founder's invitation, and the room's identity
\* and founder never change, whatever the hub or a peer puts into the log.
EarnedBy(e) ==
    /\ \A p \in room.members \ room'.members :
          p # room.founder /\ e.signer \in {p, room.founder}
    /\ \A p \in room'.members \ room.members : e.signer = room.founder
    /\ room'.id = room.id
    /\ room'.founder = room.founder
    /\ room.founder \in room'.members

MembershipIsEarned ==
    [][ (room # Rejected /\ room' # Rejected) => EarnedBy(log'[Len(log')]) ]_vars
=============================================================================
