------------------------- MODULE ConversationProofs -------------------------
(***************************************************************************)
(* For any peers, files and budgets: the stores, files and transfers have  *)
(* their types, no table holds an id twice, no endpoint hands out an id    *)
(* twice unless its clock was set back, a recorded path leads to the bytes *)
(* that were announced, and a file without a message has a named cause.    *)
(* The order of a history and its fold stay closed (see HistoryProofs).    *)
(*                                                                         *)
(* An id is minted from the clock and a counter.  A restart sets the       *)
(* counter back to the largest of ours in the table, which a removal may   *)
(* have made smaller than what was handed out; but it also takes time.     *)
(* Fresh is that argument as an invariant.                                 *)
(***************************************************************************)
EXTENDS Conversation, TLAPS, WellFoundedInduction

(***************************************************************************)
(* The largest of a bounded set of numbers, by the least of their          *)
(* distances to the bound.                                                 *)
(***************************************************************************)
Less == {ss \in Nat \X Nat : ss[1] < ss[2]}

LEMMA LessIsWellFounded == IsWellFoundedOn(Less, Nat)
<1>1. OpToRel(<, Nat) = Less
  BY DEF OpToRel, Less
<1> QED
  BY <1>1, NatLessThanWellFounded

LEMMA LeastExists ==
    ASSUME NEW T, T \subseteq Nat, T # {}
    PROVE  \E x \in T : \A y \in T : x <= y
<1>1. PICK x \in T : \A y \in T : ~ (<<y, x>> \in Less)
  BY LessIsWellFounded, WFMin
<1>2. \A y \in T : ~ (y < x)
  BY <1>1 DEF Less
<1> QED
  BY <1>2

LEMMA LargestExists ==
    ASSUME NEW b \in Nat, NEW S, S \subseteq 0..b, S # {}
    PROVE  \E n \in S : \A k \in S : k <= n
<1> DEFINE T == {b - k : k \in S}
<1>1. T \subseteq Nat
  OBVIOUS
<1>2. T # {}
  <2>1. PICK k : k \in S
    OBVIOUS
  <2>2. b - k \in T
    BY <2>1
  <2> QED
    BY <2>2
<1> HIDE DEF T
<1>3. PICK x \in T : \A y \in T : x <= y
  BY <1>1, <1>2, LeastExists
<1>4. PICK n \in S : x = b - n
  BY DEF T
<1>5. ASSUME NEW k \in S PROVE k <= n
  <2>1. b - k \in T
    BY DEF T
  <2> QED
    BY <1>3, <1>4, <2>1
<1> QED
  BY <1>5

(***************************************************************************)
(* Types.  The room left for sequence numbers is what the budget allows.   *)
(***************************************************************************)
Room == MaxSeq - (left.writes + left.files)

IdFits(id, room) == id \in Id /\ id.seq >= 1 /\ id.seq <= room

TableFits(rows, room) ==
    /\ rows \in Seq(Ops(rows))
    /\ \A op \in Ops(rows) : IdFits(op.id, room)
    /\ \A i, j \in DOMAIN rows : rows[i].id = rows[j].id => i = j

LEMMA AppendOps ==
    ASSUME NEW rows, rows \in Seq(Ops(rows)), NEW op
    PROVE  /\ Append(rows, op) \in Seq(Ops(Append(rows, op)))
           /\ Ops(Append(rows, op)) = Ops(rows) \cup {op}
           /\ DOMAIN Append(rows, op) = 1..(Len(rows) + 1) /\ DOMAIN rows = 1..Len(rows)
           /\ \A i \in DOMAIN rows : Append(rows, op)[i] = rows[i]
           /\ Append(rows, op)[Len(rows) + 1] = op
<1> DEFINE S == Ops(rows) \cup {op}
           new == Append(rows, op)
<1>1. rows \in Seq(S)
  OBVIOUS
<1>2. /\ new \in Seq(S) /\ Len(new) = Len(rows) + 1 /\ Len(rows) \in Nat
      /\ DOMAIN new = 1..(Len(rows) + 1) /\ DOMAIN rows = 1..Len(rows)
      /\ \A i \in 1..Len(rows) : new[i] = rows[i]
      /\ new[Len(rows) + 1] = op
  BY <1>1
<1> HIDE DEF new
<1>3. Ops(new) = S
  BY <1>2 DEF Ops
<1> QED
  BY <1>2, <1>3 DEF new

LEMMA RecordFits ==
    ASSUME NEW rows, NEW room, NEW op, TableFits(rows, room), IdFits(op.id, room)
    PROVE  /\ TableFits(Record(rows, op), room)
           /\ Ops(rows) \subseteq Ops(Record(rows, op))
           /\ Ops(Record(rows, op)) \subseteq Ops(rows) \cup {op}
<1>1. CASE Known(rows, op.id)
  BY <1>1 DEF Record
<1>2. CASE ~Known(rows, op.id)
  <2> DEFINE new == Append(rows, op)
  <2>1. /\ new \in Seq(Ops(new)) /\ Ops(new) = Ops(rows) \cup {op}
        /\ DOMAIN new = 1..(Len(rows) + 1) /\ DOMAIN rows = 1..Len(rows)
        /\ \A i \in DOMAIN rows : new[i] = rows[i]
        /\ new[Len(rows) + 1] = op /\ Len(rows) \in Nat
    BY AppendOps DEF TableFits
  <2> HIDE DEF new
  <2>2. \A i \in DOMAIN rows : rows[i].id # op.id
    BY <1>2 DEF Known, Ops
  <2>3. ASSUME NEW i \in DOMAIN new, NEW j \in DOMAIN new, new[i].id = new[j].id PROVE i = j
    <3>1. (i \in DOMAIN rows \/ i = Len(rows) + 1) /\ (j \in DOMAIN rows \/ j = Len(rows) + 1)
      BY <2>1
    <3> QED
      BY <2>1, <2>2, <2>3, <3>1 DEF TableFits
  <2>4. TableFits(new, room)
    BY <2>1, <2>3 DEF TableFits
  <2>5. Record(rows, op) = new
    BY <1>2 DEF Record, new
  <2> QED
    BY <2>1, <2>4, <2>5
<1> QED
  BY <1>1, <1>2

LEMMA FitsMore ==
    ASSUME NEW room \in Int, NEW more \in Int, room <= more
    PROVE  /\ \A id : IdFits(id, room) => IdFits(id, more)
           /\ \A rows : TableFits(rows, room) => TableFits(rows, more)
<1>1. ASSUME NEW id, IdFits(id, room) PROVE IdFits(id, more)
  <2>1. id.seq \in Nat
    BY <1>1 DEF IdFits, Id
  <2> QED
    BY <1>1, <2>1 DEF IdFits
<1> QED
  BY <1>1 DEF TableFits

LEMMA EmptyFits == ASSUME NEW room PROVE TableFits(<<>>, room) /\ Ops(<<>>) = {}
<1>1. Ops(<<>>) = {}
  BY DEF Ops
<1> QED
  BY <1>1 DEF TableFits

LEMMA ResumeFits ==
    ASSUME NEW rows, NEW room \in Nat, TableFits(rows, room), NEW e
    PROVE  Resume(rows, e) \in Nat /\ Resume(rows, e) <= room
<1> DEFINE mine == {op.id.seq : op \in {o \in Ops(rows) : o.id.sender = e}}
<1>1. mine \subseteq 0..room
  <2>1. ASSUME NEW op \in Ops(rows) PROVE op.id.seq \in 0..room
    <3>1. op.id \in Id /\ op.id.seq >= 1 /\ op.id.seq <= room
      BY <2>1 DEF TableFits, IdFits
    <3>2. op.id.seq \in Nat
      BY <3>1 DEF Id
    <3> QED
      BY <3>1, <3>2
  <2> QED
    BY <2>1
<1>2. Resume(rows, e) = IF mine = {} THEN 0 ELSE CHOOSE n \in mine : \A k \in mine : k <= n
  BY DEF Resume
<1> HIDE DEF mine
<1>3. CASE mine = {}
  BY <1>2, <1>3
<1>4. CASE mine # {}
  <2>1. \E n \in mine : \A k \in mine : k <= n
    BY <1>1, <1>4, LargestExists
  <2>2. Resume(rows, e) \in mine
    BY <1>2, <1>4, <2>1
  <2>3. Resume(rows, e) \in 0..room
    BY <1>1, <2>2
  <2> HIDE DEF Resume
  <2> QED
    BY <2>3
<1> QED
  BY <1>3, <1>4

-----------------------------------------------------------------------------
(* Rows, ops on their way, and counters.                                   *)

Rows ==
    /\ left \in Budget /\ Room \in Nat
    /\ DOMAIN table = Peers /\ \A e \in Peers : TableFits(table[e], Room)
    /\ DOMAIN mail = Peers /\ \A e \in Peers : \A op \in mail[e] : IdFits(op.id, Room)
    /\ counter \in [Peers -> Nat] /\ \A e \in Peers : counter[e] <= Room
    /\ xfer # Idle /\ xfer.stage # "measured" => IdFits(xfer.id, Room)

LEMMA SpendRoom ==
    ASSUME left \in Budget, NEW what, Spend(what),
           what \in {"writes", "files", "removals", "restarts", "rewinds", "rewrites"}
    PROVE  /\ left' \in Budget /\ Room' >= Room /\ Room \in Int
           /\ what \in {"writes", "files"} => Room' = Room + 1
<1>1. MaxSeq \in Nat
  BY BoundsAssumption
<1>2. CASE what = "writes"
  BY <1>1, <1>2 DEF Spend, Budget, Room
<1>3. CASE what = "files"
  BY <1>1, <1>3 DEF Spend, Budget, Room
<1>4. CASE what = "removals"
  BY <1>1, <1>4 DEF Spend, Budget, Room
<1>5. CASE what = "restarts"
  BY <1>1, <1>5 DEF Spend, Budget, Room
<1>6. CASE what = "rewinds"
  BY <1>1, <1>6 DEF Spend, Budget, Room
<1>7. CASE what = "rewrites"
  BY <1>1, <1>7 DEF Spend, Budget, Room
<1> QED
  BY <1>2, <1>3, <1>4, <1>5, <1>6, <1>7

LEMMA RowsStep ==
    ASSUME Rows, left' \in Budget, Room' \in Int, Room' >= Room,
           DOMAIN table' = Peers,
           \A e \in Peers : table'[e] = table[e] \/ TableFits(table'[e], Room'),
           DOMAIN mail' = Peers,
           \A e \in Peers : \A op \in mail'[e] : op \in mail[e] \/ IdFits(op.id, Room'),
           counter' \in [Peers -> Nat],
           \A e \in Peers : counter'[e] = counter[e] \/ counter'[e] <= Room',
           xfer' # Idle /\ xfer'.stage # "measured" =>
              \/ IdFits(xfer'.id, Room')
              \/ xfer # Idle /\ xfer.stage # "measured" /\ xfer'.id = xfer.id
    PROVE  Rows'
<1>1. Room \in Nat /\ Room' \in Nat
  BY DEF Rows
<1>2. /\ \A id : IdFits(id, Room) => IdFits(id, Room')
      /\ \A rows : TableFits(rows, Room) => TableFits(rows, Room')
  BY <1>1, FitsMore
<1>3. \A e \in Peers : TableFits(table'[e], Room')
  BY <1>2 DEF Rows
<1>4. \A e \in Peers : \A op \in mail'[e] : IdFits(op.id, Room')
  BY <1>2 DEF Rows
<1>5. \A e \in Peers : counter'[e] <= Room'
  BY <1>1 DEF Rows
<1>6. xfer' # Idle /\ xfer'.stage # "measured" => IdFits(xfer'.id, Room')
  BY <1>2 DEF Rows
<1> QED
  BY <1>1, <1>3, <1>4, <1>5, <1>6 DEF Rows

\* The id minted next fits as soon as its cost is paid.
LEMMA NextIdFits ==
    ASSUME Rows, clock \in [Peers -> 1..MaxClock], NEW e \in Peers,
           Room' = Room + 1
    PROVE  /\ IdFits(NextId(e), Room') /\ counter[e] + 1 \in Nat /\ counter[e] + 1 <= Room'
           /\ NextId(e).seq = counter[e] + 1 /\ NextId(e).ts = clock[e] /\ NextId(e).sender = e
<1>1. /\ counter[e] \in Nat /\ counter[e] <= Room /\ Room \in Nat /\ clock[e] \in 1..MaxClock
      /\ MaxClock \in Nat
  BY BoundsAssumption DEF Rows
<1>2. NextId(e).seq = counter[e] + 1 /\ NextId(e).ts = clock[e] /\ NextId(e).sender = e
  BY DEF NextId
<1>3. NextId(e) \in Id
  BY <1>1 DEF NextId, Id
<1> QED
  BY <1>1, <1>2, <1>3 DEF IdFits

Clocks == clock \in [Peers -> 1..MaxClock]

Places ==
    /\ paths \in [Peers -> [Settings -> Paths \cup {Absent}]]
    /\ disk \in [Peers -> [Paths -> Seq(Chunks) \cup {Absent}]]
    /\ doomed \in [Peers -> SUBSET Paths]
    /\ stray \in [Peers -> SUBSET Files]
    /\ xfer = Idle \/ xfer \in Xfers

Typed == Rows /\ Clocks /\ Places

\* What [xfer EXCEPT ...] leaves alone.
LEMMA XferFields ==
    ASSUME NEW x \in Xfers
    PROVE  x = [from |-> x.from, path |-> x.path, stage |-> x.stage, live |-> x.live, id |-> x.id,
                size |-> x.size, hash |-> x.hash, data |-> x.data, got |-> x.got]
BY DEF Xfers

LEMMA XferMoves ==
    ASSUME NEW x \in Xfers
    PROVE  /\ \A v \in BOOLEAN : LET y == [x EXCEPT !.live = v] IN
                /\ y \in Xfers /\ y.id = x.id /\ y.stage = x.stage /\ y.from = x.from /\ y.path = x.path
                /\ y.size = x.size /\ y.hash = x.hash /\ y.data = x.data /\ y.got = x.got
           /\ \A v \in Stages : LET y == [x EXCEPT !.stage = v] IN
                /\ y \in Xfers /\ y.id = x.id /\ y.stage = v /\ y.from = x.from /\ y.path = x.path
                /\ y.size = x.size /\ y.hash = x.hash /\ y.data = x.data /\ y.got = x.got
           /\ \A v \in Seq(Chunks) : LET y == [x EXCEPT !.got = v] IN
                /\ y \in Xfers /\ y.id = x.id /\ y.stage = x.stage /\ y.from = x.from /\ y.path = x.path
                /\ y.size = x.size /\ y.hash = x.hash /\ y.data = x.data /\ y.got = v
           /\ \A v \in Seq(Chunks) : LET y == [x EXCEPT !.data = v] IN
                /\ y \in Xfers /\ y.id = x.id /\ y.stage = x.stage /\ y.from = x.from /\ y.path = x.path
                /\ y.size = x.size /\ y.hash = x.hash /\ y.data = v /\ y.got = x.got
<1> HIDE DEF Stages
<1> USE DEF Xfers
<1>1. ASSUME NEW v \in BOOLEAN PROVE LET y == [x EXCEPT !.live = v] IN
                /\ y \in Xfers /\ y.id = x.id /\ y.stage = x.stage /\ y.from = x.from /\ y.path = x.path
                /\ y.size = x.size /\ y.hash = x.hash /\ y.data = x.data /\ y.got = x.got
  OBVIOUS
<1>2. ASSUME NEW v \in Stages PROVE LET y == [x EXCEPT !.stage = v] IN
                /\ y \in Xfers /\ y.id = x.id /\ y.stage = v /\ y.from = x.from /\ y.path = x.path
                /\ y.size = x.size /\ y.hash = x.hash /\ y.data = x.data /\ y.got = x.got
  OBVIOUS
<1>3. ASSUME NEW v \in Seq(Chunks) PROVE LET y == [x EXCEPT !.got = v] IN
                /\ y \in Xfers /\ y.id = x.id /\ y.stage = x.stage /\ y.from = x.from /\ y.path = x.path
                /\ y.size = x.size /\ y.hash = x.hash /\ y.data = x.data /\ y.got = v
  OBVIOUS
<1>4. ASSUME NEW v \in Seq(Chunks) PROVE LET y == [x EXCEPT !.data = v] IN
                /\ y \in Xfers /\ y.id = x.id /\ y.stage = x.stage /\ y.from = x.from /\ y.path = x.path
                /\ y.size = x.size /\ y.hash = x.hash /\ y.data = v /\ y.got = x.got
  OBVIOUS
<1> QED
  BY <1>1, <1>2, <1>3, <1>4

LEMMA RoomIs == ASSUME Rows PROVE Room \in Nat /\ Room <= MaxSeq /\ MaxSeq \in Nat
BY BoundsAssumption DEF Rows, Room, Budget

LEMMA SettingFits ==
    ASSUME Rows, NEW id, IdFits(id, Room)
    PROVE  /\ Display(id) \in Settings
           /\ \A p \in Sources : FileName(id, SafeName[p]) \in Files
<1>1. id.sender \in Peers /\ id.seq \in 1..MaxSeq
  BY RoomIs DEF IdFits, Id
<1>2. Display(id) \in Settings
  BY <1>1 DEF Display, Settings
<1> QED
  BY <1>2 DEF FileName, Files

LEMMA NamedSettings == ASSUME Rows, NEW e \in Peers PROVE Named(e) \subseteq Settings
<1>1. \A op \in Ops(table[e]) : Display(op.id) \in Settings
  BY SettingFits DEF Rows, TableFits
<1> QED
  BY <1>1 DEF Named

LEMMA FilesPaths == ASSUME Typed, NEW e \in Peers PROVE FilesOf(e) \subseteq Paths
BY NamedSettings DEF Typed, Places, FilesOf

LEMMA XferIs ==
    ASSUME Typed, xfer # Idle
    PROVE  /\ xfer \in Xfers /\ xfer.from \in Peers /\ xfer.stage \in Stages
           /\ xfer.path \in Sources /\ xfer.path \in Paths
           /\ xfer.stage # "measured" => /\ IdFits(xfer.id, Room) /\ Display(xfer.id) \in Settings
                                         /\ Incoming \in Files /\ Incoming \in Paths
                                         /\ Incoming[1] = Display(xfer.id)
                                         /\ Incoming[2] = SafeName[xfer.path]
<1>1. xfer \in Xfers
  BY DEF Typed, Places
<1>2. xfer.from \in Peers /\ xfer.stage \in Stages /\ xfer.path \in Sources
  BY <1>1 DEF Xfers
<1>3. Incoming[1] = Display(xfer.id) /\ Incoming[2] = SafeName[xfer.path]
  BY DEF Incoming, FileName
<1>4. CASE xfer.stage # "measured"
  <2>1. IdFits(xfer.id, Room) /\ Rows
    BY <1>4 DEF Typed, Rows
  <2>2. Display(xfer.id) \in Settings /\ Incoming \in Files
    BY <1>2, <2>1, SettingFits DEF Incoming
  <2> QED
    BY <1>1, <1>2, <1>3, <2>1, <2>2 DEF Paths
<1> QED
  BY <1>1, <1>2, <1>4 DEF Paths

LEMMA ReceivingFiles == ASSUME Typed, NEW e PROVE Receiving(e) \subseteq Files
BY XferIs DEF Receiving, Stage

LEMMA HeldIs ==
    ASSUME Typed
    PROVE  /\ xfer # Idle /\ Held # Absent => Held \in Seq(Chunks)
           /\ \A p \in Sources : disk[Owner[p]][p] # Absent => disk[Owner[p]][p] \in Seq(Chunks)
<1>1. \A e \in Peers, p \in Paths : disk[e][p] \in Seq(Chunks) \cup {Absent}
  BY DEF Typed, Places
<1>2. \A p \in Sources : Owner[p] \in Peers /\ p \in Paths
  BY SourcesAssumption DEF Paths
<1>3. xfer # Idle => xfer.from \in Peers /\ xfer.path \in Paths
  BY XferIs
<1> QED
  BY <1>1, <1>2, <1>3 DEF Held

\* A step that mints nothing and records nothing.
LEMMA RowsSame ==
    ASSUME Rows, UNCHANGED <<table, counter, mail>>,
           left' \in Budget, Room' \in Int, Room' >= Room,
           xfer' # Idle /\ xfer'.stage # "measured" =>
              xfer # Idle /\ xfer.stage # "measured" /\ xfer'.id = xfer.id
    PROVE  Rows'
BY RowsStep DEF Rows

LEMMA LeftSame ==
    ASSUME Rows, left' = left
    PROVE  left' \in Budget /\ Room' = Room /\ Room' \in Int /\ Room' >= Room
BY DEF Rows, Room

\* Writing: dispatch.
LEMMA WriteTyped ==
    ASSUME Typed, NEW e \in Peers, Write(e)
    PROVE  Typed'
<1>1. PICK op \in NewOps(e) :
        /\ Spend("writes") /\ Mint(e)
        /\ table' = [table EXCEPT ![e] = Record(@, op)]
        /\ mail'  = [mail EXCEPT ![Peer(e)] = @ \cup {op}]
        /\ UNCHANGED <<clock, paths, disk, xfer, doomed, rewound, offers, stray>>
  BY DEF Write
<1>2. op.id = NextId(e)
  BY DEF NewOps, Chat, Edit, Delete, React
<1>3. left' \in Budget /\ Room \in Nat /\ Room' = Room + 1
  BY <1>1, SpendRoom DEF Typed, Rows
<1>4. IdFits(op.id, Room') /\ counter[e] + 1 \in Nat /\ counter[e] + 1 <= Room'
  BY <1>2, <1>3, NextIdFits DEF Typed, Clocks
<1>5. TableFits(Record(table[e], op), Room')
  <2>1. TableFits(table[e], Room')
    BY <1>3, FitsMore DEF Typed, Rows
  <2> QED
    BY <1>4, <2>1, RecordFits
<1>6. counter' = [counter EXCEPT ![e] = counter[e] + 1]
  BY <1>1 DEF Mint
<1>7. Rows'
  <2>1. DOMAIN table' = Peers /\ \A f \in Peers : table'[f] = table[f] \/ TableFits(table'[f], Room')
    BY <1>1, <1>5 DEF Typed, Rows
  <2>2. DOMAIN mail' = Peers
    BY <1>1 DEF Typed, Rows
  <2>3. \A f \in Peers : \A o \in mail'[f] : o \in mail[f] \/ o = op
    BY <1>1 DEF Typed, Rows
  <2>4. /\ counter' \in [Peers -> Nat]
        /\ \A f \in Peers : counter'[f] = counter[f] \/ counter'[f] <= Room'
    BY <1>4, <1>6 DEF Typed, Rows
  <2> QED
    BY <1>1, <1>3, <1>4, <2>1, <2>2, <2>3, <2>4, RowsStep DEF Typed
<1> QED
  BY <1>1, <1>7 DEF Typed, Clocks, Places

\* Accepting, from whatever way.
LEMMA AcceptTyped ==
    ASSUME Typed, NEW e \in Peers, Accept(e)
    PROVE  Typed'
<1>1. PICK op \in mail[e] :
        /\ table' = [table EXCEPT ![e] = Record(@, op)]
        /\ UNCHANGED <<counter, clock, paths, disk, mail, xfer, doomed, history, left>>
  BY DEF Accept
<1>2. left' \in Budget /\ Room' = Room /\ Room' \in Int /\ Room' >= Room
  BY <1>1, LeftSame DEF Typed
<1>3. TableFits(Record(table[e], op), Room')
  BY <1>2, RecordFits DEF Typed, Rows
<1>4. Rows'
  <2>1. DOMAIN table' = Peers /\ \A f \in Peers : table'[f] = table[f] \/ TableFits(table'[f], Room')
    BY <1>1, <1>3 DEF Typed, Rows
  <2> QED
    BY <1>1, <1>2, <2>1, RowsStep DEF Typed, Rows
<1> QED
  BY <1>1, <1>4 DEF Typed, Clocks, Places, history

\* The attachment under way.
LEMMA PickFileTyped ==
    ASSUME Typed, NEW p \in Sources, PickFile(p)
    PROVE  Typed'
<1>1. PICK held :
        /\ held = disk[Owner[p]][p] /\ held # Absent
        /\ xfer' = [from |-> Owner[p], path |-> p, stage |-> "measured", live |-> TRUE, id |-> Absent,
                    size |-> Len(held), hash |-> <<>>, data |-> <<>>, got |-> <<>>]
        /\ UNCHANGED <<table, counter, clock, paths, disk, mail, doomed, history, left>>
  BY DEF PickFile
<1>2. Len(held) \in Nat /\ Owner[p] \in Peers
  BY <1>1, HeldIs, SourcesAssumption
<1>3. <<>> \in Seq(Chunks)
  OBVIOUS
<1>4. xfer' \in Xfers /\ xfer'.stage = "measured"
  BY <1>1, <1>2, <1>3 DEF Xfers, Stages
<1>5. Rows'
  BY <1>1, <1>4, LeftSame, RowsSame DEF Typed
<1> QED
  BY <1>1, <1>4, <1>5 DEF Typed, Clocks, Places, history

LEMMA OfferTyped ==
    ASSUME Typed, Offer
    PROVE  Typed'
<1>1. PICK e : e = xfer.from
  OBVIOUS
<1>2. /\ xfer # Idle /\ xfer.stage = "measured" /\ Held # Absent /\ Spend("files") /\ Mint(e)
      /\ table' = [table EXCEPT ![e] = Record(@, File(NextId(e), xfer.size, Held))]
      /\ xfer'  = [xfer EXCEPT !.stage = "recorded", !.hash = Held, !.id = NextId(e)]
      /\ UNCHANGED <<clock, paths, disk, mail, doomed, rewound, stray>>
  BY <1>1 DEF Offer, Stage
<1>3. e \in Peers /\ xfer \in Xfers
  BY <1>1, <1>2, XferIs
<1>4. Held \in Seq(Chunks)
  BY <1>2, <1>3, HeldIs
<1>5. left' \in Budget /\ Room \in Nat /\ Room' = Room + 1
  BY <1>2, SpendRoom DEF Typed, Rows
<1>6. IdFits(NextId(e), Room') /\ counter[e] + 1 \in Nat /\ counter[e] + 1 <= Room'
  BY <1>3, <1>5, NextIdFits DEF Typed, Clocks
<1>7. TableFits(Record(table[e], File(NextId(e), xfer.size, Held)), Room')
  <2>1. TableFits(table[e], Room')
    BY <1>3, <1>5, FitsMore DEF Typed, Rows
  <2>2. File(NextId(e), xfer.size, Held).id = NextId(e)
    BY DEF File
  <2> QED
    BY <1>6, <2>1, <2>2, RecordFits
<1>8. counter' = [counter EXCEPT ![e] = counter[e] + 1]
  BY <1>2 DEF Mint
<1>9. /\ xfer' = [from |-> xfer.from, path |-> xfer.path, stage |-> "recorded", live |-> xfer.live, id |-> NextId(e),
                  size |-> xfer.size, hash |-> Held, data |-> xfer.data, got |-> xfer.got]
      /\ xfer' \in Xfers /\ xfer'.id = NextId(e)
  <2>1. xfer = [from |-> xfer.from, path |-> xfer.path, stage |-> xfer.stage, live |-> xfer.live, id |-> xfer.id,
                size |-> xfer.size, hash |-> xfer.hash, data |-> xfer.data, got |-> xfer.got]
    BY <1>3, XferFields
  <2>2. xfer' = [xfer EXCEPT !.stage = "recorded", !.hash = Held, !.id = NextId(e)]
    BY <1>2
  <2>3. xfer' = [from |-> xfer.from, path |-> xfer.path, stage |-> "recorded", live |-> xfer.live, id |-> NextId(e),
                 size |-> xfer.size, hash |-> Held, data |-> xfer.data, got |-> xfer.got]
    BY ONLY <2>1, <2>2
  <2>4. NextId(e) \in Id
    BY <1>6 DEF IdFits
  <2> QED
    BY <1>3, <1>4, <2>3, <2>4 DEF Xfers, Stages
<1>10. Rows'
  <2>1. DOMAIN table' = Peers /\ \A f \in Peers : table'[f] = table[f] \/ TableFits(table'[f], Room')
    BY <1>2, <1>7 DEF Typed, Rows
  <2>2. /\ counter' \in [Peers -> Nat]
        /\ \A f \in Peers : counter'[f] = counter[f] \/ counter'[f] <= Room'
    BY <1>6, <1>8 DEF Typed, Rows
  <2>3. IdFits(xfer'.id, Room')
    BY <1>2, <1>6, <1>9 DEF NextId
  <2>4. DOMAIN mail' = Peers /\ \A f \in Peers : \A o \in mail'[f] : o \in mail[f]
    BY <1>2 DEF Typed, Rows
  <2>5. Room' \in Int /\ Room' >= Room
    BY <1>5
  <2> QED
    BY <1>5, <2>1, <2>2, <2>3, <2>4, <2>5, RowsStep DEF Typed
<1> QED
  BY <1>2, <1>9, <1>10 DEF Typed, Clocks, Places

LEMMA AnnounceTyped ==
    ASSUME Typed, Announce
    PROVE  Typed'
<1>1. /\ xfer # Idle /\ xfer.stage = "recorded"
      /\ paths' = [paths EXCEPT ![xfer.from][Display(xfer.id)] = xfer.path]
      /\ xfer'  = IF xfer.live THEN [xfer EXCEPT !.stage = "header"] ELSE Idle
      /\ UNCHANGED <<table, counter, clock, disk, mail, doomed, history, left>>
  BY DEF Announce, Stage
<1>2. xfer \in Xfers /\ Display(xfer.id) \in Settings /\ xfer.path \in Paths
  BY <1>1, XferIs
<1>3. xfer' = Idle \/ (xfer' \in Xfers /\ xfer'.id = xfer.id)
  BY <1>1, <1>2, XferMoves DEF Stages
<1>4. Rows'
  BY <1>1, <1>3, LeftSame, RowsSame DEF Typed
<1>5. paths' \in [Peers -> [Settings -> Paths \cup {Absent}]]
  BY <1>1, <1>2 DEF Typed, Places
<1> QED
  BY <1>1, <1>3, <1>4, <1>5 DEF Typed, Clocks, Places, history

LEMMA OpenTyped ==
    ASSUME Typed, Open
    PROVE  Typed'
<1>1. PICK to, op :
        /\ to = Peer(xfer.from) /\ op = File(xfer.id, xfer.size, xfer.hash)
        /\ xfer # Idle /\ xfer.stage = "header" /\ Held # Absent
        /\ table' = [table EXCEPT ![to] = Record(@, op)]
        /\ disk'  = [disk EXCEPT ![to][Incoming] = <<>>]
        /\ xfer' = [xfer EXCEPT !.stage = "bytes", !.data = Held]
        /\ UNCHANGED <<counter, clock, paths, mail, doomed, history, left>>
  BY DEF Open, Stage
<1>2. xfer \in Xfers /\ xfer.from \in Peers /\ IdFits(xfer.id, Room)
  BY <1>1, XferIs
<1>3. Held \in Seq(Chunks)
  BY <1>1, <1>2, HeldIs
<1>4. /\ xfer' = [from |-> xfer.from, path |-> xfer.path, stage |-> "bytes", live |-> xfer.live, id |-> xfer.id,
                  size |-> xfer.size, hash |-> xfer.hash, data |-> Held, got |-> xfer.got]
      /\ xfer' \in Xfers /\ xfer'.id = xfer.id
  <2>1. xfer = [from |-> xfer.from, path |-> xfer.path, stage |-> xfer.stage, live |-> xfer.live, id |-> xfer.id,
                size |-> xfer.size, hash |-> xfer.hash, data |-> xfer.data, got |-> xfer.got]
    BY <1>2, XferFields
  <2>2. xfer' = [xfer EXCEPT !.stage = "bytes", !.data = Held]
    BY <1>1
  <2>3. xfer' = [from |-> xfer.from, path |-> xfer.path, stage |-> "bytes", live |-> xfer.live, id |-> xfer.id,
                 size |-> xfer.size, hash |-> xfer.hash, data |-> Held, got |-> xfer.got]
    BY ONLY <2>1, <2>2
  <2> QED
    BY <1>2, <1>3, <2>3 DEF Xfers, Stages
<1>5. left' \in Budget /\ Room' = Room /\ Room' \in Int /\ Room' >= Room
  BY <1>1, LeftSame DEF Typed
<1>6. ASSUME to \in Peers PROVE TableFits(Record(table[to], op), Room')
  <2>1. op.id = xfer.id
    BY <1>1 DEF File
  <2>2. TableFits(table[to], Room') /\ IdFits(op.id, Room')
    BY <1>2, <1>5, <1>6, <2>1 DEF Typed, Rows
  <2> QED
    BY <2>2, RecordFits
<1>7. Rows'
  <2>1. DOMAIN table' = Peers /\ \A f \in Peers : table'[f] = table[f] \/ TableFits(table'[f], Room')
    BY <1>1, <1>6 DEF Typed, Rows
  <2> QED
    BY <1>1, <1>4, <1>5, <2>1, RowsStep DEF Typed, Rows
<1>8. disk' \in [Peers -> [Paths -> Seq(Chunks) \cup {Absent}]]
  <2>1. <<>> \in Seq(Chunks)
    OBVIOUS
  <2> QED
    BY <1>1, <2>1 DEF Typed, Places
<1> QED
  BY <1>1, <1>4, <1>7, <1>8 DEF Typed, Clocks, Places, history

LEMMA DiscardTyped ==
    ASSUME Typed, NEW to, Discard(to)
    PROVE  disk' \in [Peers -> [Paths -> Seq(Chunks) \cup {Absent}]]
BY DEF Discard, Typed, Places

LEMMA ChunkTyped ==
    ASSUME Typed, Chunk
    PROVE  Typed'
<1>1. PICK to, got :
        /\ to = Peer(xfer.from) /\ got = Append(xfer.got, xfer.data[Len(xfer.got) + 1])
        /\ xfer # Idle /\ xfer.stage = "bytes" /\ Len(xfer.got) < Len(xfer.data)
        /\ IF Len(got) > xfer.size
           THEN Discard(to) /\ xfer' = Idle
           ELSE /\ disk' = [disk EXCEPT ![to][Incoming] = IF @ = Absent THEN Absent ELSE got]
                /\ xfer' = [xfer EXCEPT !.got = got]
        /\ UNCHANGED <<table, counter, clock, paths, mail, doomed, history, left>>
  BY DEF Chunk, Stage
<1>2. xfer \in Xfers /\ xfer.got \in Seq(Chunks) /\ xfer.data \in Seq(Chunks)
  BY <1>1, XferIs DEF Xfers
<1>3. got \in Seq(Chunks)
  <2>1. xfer.data[Len(xfer.got) + 1] \in Chunks
    BY <1>1, <1>2
  <2> QED
    BY <1>1, <1>2, <2>1
<1>4. xfer' = Idle \/ (xfer' \in Xfers /\ xfer'.id = xfer.id)
  <2>1. CASE xfer' = Idle
    BY <2>1
  <2>2. CASE xfer' # Idle
    <3>1. xfer' = [xfer EXCEPT !.got = got]
      BY <1>1, <2>2
    <3> QED
      BY <1>2, <1>3, <3>1 DEF Xfers
  <2> QED
    BY <2>1, <2>2
<1>5. disk' \in [Peers -> [Paths -> Seq(Chunks) \cup {Absent}]]
  <2>1. CASE Len(got) > xfer.size
    BY <1>1, <2>1, DiscardTyped
  <2>2. CASE ~(Len(got) > xfer.size)
    <3>1. PICK k : k = Incoming
      OBVIOUS
    <3>2. disk' = [disk EXCEPT ![to][k] = IF disk[to][k] = Absent THEN Absent ELSE got]
      BY <1>1, <2>2, <3>1
    <3> QED
      BY <1>3, <3>2 DEF Typed, Places
  <2> QED
    BY <2>1, <2>2
<1>6. Rows'
  BY <1>1, <1>4, LeftSame, RowsSame DEF Typed
<1> QED
  BY <1>1, <1>4, <1>5, <1>6 DEF Typed, Clocks, Places, history

LEMMA FinishTyped ==
    ASSUME Typed, Finish
    PROVE  Typed'
<1>1. PICK to :
        /\ to = Peer(xfer.from) /\ xfer # Idle /\ xfer.stage = "bytes"
        /\ \/ Discard(to) /\ UNCHANGED paths
           \/ paths' = [paths EXCEPT ![to][Display(xfer.id)] = Incoming] /\ UNCHANGED disk
        /\ xfer' = Idle
        /\ UNCHANGED <<table, counter, clock, mail, doomed, history, left>>
  BY DEF Finish, Stage
<1>2. Display(xfer.id) \in Settings /\ Incoming \in Paths
  BY <1>1, XferIs
<1>3. disk' \in [Peers -> [Paths -> Seq(Chunks) \cup {Absent}]]
  BY <1>1, DiscardTyped DEF Typed, Places
<1>4. paths' \in [Peers -> [Settings -> Paths \cup {Absent}]]
  <2>1. CASE UNCHANGED paths
    BY <2>1 DEF Typed, Places
  <2>2. CASE paths' = [paths EXCEPT ![to][Display(xfer.id)] = Incoming]
    <3>1. PICK s \in Settings, n \in Paths : s = Display(xfer.id) /\ n = Incoming
      BY <1>2
    <3>2. paths' = [paths EXCEPT ![to][s] = n]
      BY <2>2, <3>1
    <3> QED
      BY <3>2 DEF Typed, Places
  <2> QED
    BY <1>1, <2>1, <2>2
<1>5. Rows'
  BY <1>1, LeftSame, RowsSame DEF Typed
<1> QED
  BY <1>1, <1>3, <1>4, <1>5 DEF Typed, Clocks, Places, history

LEMMA BreakTyped ==
    ASSUME Typed, Break
    PROVE  Typed'
<1>1. /\ xfer' = Idle
      /\ stray' = [e \in Peers |-> stray[e] \cup Receiving(e)]
      /\ UNCHANGED <<table, counter, clock, paths, disk, mail, doomed, minted, rewound, twice, offers, left>>
  BY DEF Break
<1>2. stray' \in [Peers -> SUBSET Files]
  BY <1>1, ReceivingFiles DEF Typed, Places
<1>3. Rows'
  BY <1>1, LeftSame, RowsSame DEF Typed
<1> QED
  BY <1>1, <1>2, <1>3 DEF Typed, Clocks, Places

\* Removals.
LEMMA EmptyTyped ==
    ASSUME Typed, NEW e \in Peers, NEW settings, Empty(e, settings), xfer' = Idle \/ xfer' \in Xfers,
           xfer' # Idle /\ xfer'.stage # "measured" =>
              xfer # Idle /\ xfer.stage # "measured" /\ xfer'.id = xfer.id,
           stray' \in [Peers -> SUBSET Files]
    PROVE  Typed'
<1>1. /\ Spend("removals")
      /\ table'  = [table EXCEPT ![e] = <<>>]
      /\ paths'  = [paths EXCEPT ![e] = [s \in Settings |-> IF s \in settings THEN Absent ELSE @[s]]]
      /\ doomed' = [doomed EXCEPT ![e] = FilesOf(e)]
      /\ UNCHANGED <<counter, clock, disk, mail, minted, rewound, twice, offers>>
  BY DEF Empty
<1>2. left' \in Budget /\ Room' >= Room /\ Room \in Int /\ Room' \in Int
  <2>1. left \in Budget
    BY DEF Typed, Rows
  <2>2. left' \in Budget /\ Room' >= Room /\ Room \in Int
    BY <1>1, <2>1, SpendRoom
  <2>3. Room' \in Int
    BY <2>2, BoundsAssumption DEF Room, Budget
  <2> QED
    BY <2>2, <2>3
<1>3. DOMAIN table' = Peers /\ \A f \in Peers : table'[f] = table[f] \/ TableFits(table'[f], Room')
  <2>1. DOMAIN table = Peers
    BY DEF Typed, Rows
  <2>2. DOMAIN table' = Peers /\ \A f \in Peers : table'[f] = table[f] \/ table'[f] = <<>>
    BY <1>1, <2>1
  <2> QED
    BY <2>2, EmptyFits
<1>4. Rows'
  BY <1>1, <1>2, <1>3, RowsStep DEF Typed, Rows
<1>5. paths' \in [Peers -> [Settings -> Paths \cup {Absent}]]
  <2>1. [s \in Settings |-> IF s \in settings THEN Absent ELSE paths[e][s]] \in [Settings -> Paths \cup {Absent}]
    BY DEF Typed, Places
  <2> QED
    BY <1>1, <2>1 DEF Typed, Places
<1>6. doomed' \in [Peers -> SUBSET Paths]
  BY <1>1, FilesPaths DEF Typed, Places
<1> QED
  BY <1>1, <1>4, <1>5, <1>6 DEF Typed, Clocks, Places

LEMMA ClearTyped ==
    ASSUME Typed, NEW e \in Peers, Clear(e)
    PROVE  Typed'
<1>1. stray' \in [Peers -> SUBSET Files]
  BY ReceivingFiles DEF Clear, Typed, Places
<1>2. xfer' = xfer /\ Empty(e, SettingsOf(e))
  BY DEF Clear
<1>3. xfer' = Idle \/ xfer' \in Xfers
  BY <1>2 DEF Typed, Places
<1>4. PICK settings : Empty(e, settings)
  BY <1>2
<1> QED
  BY <1>1, <1>2, <1>3, <1>4, EmptyTyped

LEMMA HangUpTyped ==
    ASSUME Typed, HangUp
    PROVE  /\ xfer' = Idle \/ xfer' \in Xfers
           /\ xfer' # Idle => xfer # Idle /\ xfer'.stage = xfer.stage /\ xfer'.id = xfer.id
           /\ stray' \in [Peers -> SUBSET Files]
<1>1. stray' \in [Peers -> SUBSET Files]
  BY ReceivingFiles DEF HangUp, Typed, Places
<1>2. xfer' = Idle \/ (xfer # Idle /\ xfer' = [xfer EXCEPT !.live = FALSE])
  BY DEF HangUp, Stage
<1>3. CASE xfer # Idle /\ xfer' = [xfer EXCEPT !.live = FALSE]
  <2>1. xfer \in Xfers
    BY <1>3, XferIs
  <2> QED
    BY <1>1, <1>3, <2>1 DEF Xfers
<1> QED
  BY <1>1, <1>2, <1>3

LEMMA RemovalTyped ==
    ASSUME Typed, NEW e \in Peers, Forget(e) \/ Wipe(e)
    PROVE  Typed'
<1>1. HangUp /\ (Empty(e, SettingsOf(e)) \/ Empty(e, Settings))
  BY DEF Forget, Wipe
<1>2. PICK settings : Empty(e, settings)
  BY <1>1
<1> QED
  BY <1>1, <1>2, HangUpTyped, EmptyTyped

LEMMA UnlinkTyped ==
    ASSUME Typed, NEW e \in Peers, Unlink(e)
    PROVE  Typed'
<1>1. /\ disk'   = [disk EXCEPT ![e] = [p \in Paths |-> IF p \in doomed[e] THEN Absent ELSE @[p]]]
      /\ doomed' = [doomed EXCEPT ![e] = {}]
      /\ UNCHANGED <<table, counter, clock, paths, mail, xfer, history, left>>
  BY DEF Unlink
<1>2. Rows'
  BY <1>1, LeftSame, RowsSame DEF Typed
<1>3. disk' \in [Peers -> [Paths -> Seq(Chunks) \cup {Absent}]]
  <2>1. [p \in Paths |-> IF p \in doomed[e] THEN Absent ELSE disk[e][p]]
           \in [Paths -> Seq(Chunks) \cup {Absent}]
    BY DEF Typed, Places
  <2> QED
    BY <1>1, <2>1 DEF Typed, Places
<1> QED
  BY <1>1, <1>2, <1>3 DEF Typed, Clocks, Places, history

\* Restarts and clocks.
LEMMA RestartTyped ==
    ASSUME Typed, NEW e \in Peers, Restart(e)
    PROVE  Typed'
<1>1. /\ clock[e] < MaxClock /\ Spend("restarts")
      /\ counter' = [counter EXCEPT ![e] = Resume(table[e], e)]
      /\ clock'   = [clock EXCEPT ![e] = @ + 1]
      /\ xfer' = Idle \/ (xfer # Idle /\ xfer' = [xfer EXCEPT !.live = FALSE])
      /\ stray'   = [p \in Peers |-> stray[p] \cup Receiving(p)
                                       \cup (IF p = e THEN doomed[e] \ Sources ELSE {})]
      /\ doomed'  = [doomed EXCEPT ![e] = {}]
      /\ UNCHANGED <<table, paths, disk, mail, minted, rewound, twice, offers>>
  BY DEF Restart
<1>2. left' \in Budget /\ Room' >= Room /\ Room \in Nat /\ Room' \in Int
  BY <1>1, SpendRoom, BoundsAssumption DEF Typed, Rows, Room, Budget
<1>3. Resume(table[e], e) \in Nat /\ Resume(table[e], e) <= Room'
  <2>1. Resume(table[e], e) \in Nat /\ Resume(table[e], e) <= Room
    BY <1>2, ResumeFits DEF Typed, Rows
  <2> QED
    BY <1>2, <2>1
<1>4. xfer' = Idle \/ (xfer # Idle /\ xfer' \in Xfers /\ xfer'.stage = xfer.stage /\ xfer'.id = xfer.id)
  <2>1. CASE xfer # Idle /\ xfer' = [xfer EXCEPT !.live = FALSE]
    <3>1. xfer \in Xfers
      BY <2>1, XferIs
    <3> QED
      BY <2>1, <3>1 DEF Xfers
  <2> QED
    BY <1>1, <2>1
<1>5. Rows'
  <2>1. /\ counter' \in [Peers -> Nat]
        /\ \A f \in Peers : counter'[f] = counter[f] \/ counter'[f] <= Room'
    BY <1>1, <1>3 DEF Typed, Rows
  <2> QED
    BY <1>1, <1>2, <1>4, <2>1, RowsStep DEF Typed, Rows
<1>6. clock' \in [Peers -> 1..MaxClock]
  BY <1>1, BoundsAssumption DEF Typed, Clocks
<1>7. stray' \in [Peers -> SUBSET Files]
  <2>1. doomed[e] \ Sources \subseteq Files
    BY DEF Typed, Places, Paths
  <2> QED
    BY <1>1, <2>1, ReceivingFiles DEF Typed, Places
<1> QED
  BY <1>1, <1>4, <1>5, <1>6, <1>7 DEF Typed, Clocks, Places

LEMMA ClockTyped ==
    ASSUME Typed, NEW e \in Peers, Tick(e) \/ SetBack(e)
    PROVE  Typed'
<1>1. UNCHANGED <<table, counter, paths, disk, mail, xfer, doomed, stray>>
  BY DEF Tick, SetBack, history
<1>2. left' \in Budget /\ Room' >= Room /\ Room' \in Int
  <2>1. CASE Tick(e)
    BY <2>1, LeftSame DEF Tick, Typed
  <2>2. CASE SetBack(e)
    BY <2>2, SpendRoom, BoundsAssumption DEF SetBack, Typed, Rows, Room, Budget
  <2> QED
    BY <2>1, <2>2
<1>3. clock' \in [Peers -> 1..MaxClock]
  BY BoundsAssumption DEF Tick, SetBack, Typed, Clocks
<1>4. Rows'
  BY <1>1, <1>2, RowsSame DEF Typed
<1> QED
  BY <1>1, <1>3, <1>4 DEF Typed, Clocks, Places

LEMMA EditFileTyped ==
    ASSUME Typed, NEW p \in Sources, EditFile(p)
    PROVE  Typed'
<1>1. PICK c \in Contents[p] :
        /\ Spend("rewrites")
        /\ disk' = [disk EXCEPT ![Owner[p]][p] = c]
        /\ xfer' = IF Stage("bytes") /\ xfer.path = p THEN [xfer EXCEPT !.data = c] ELSE xfer
        /\ UNCHANGED <<table, counter, clock, paths, mail, doomed, history>>
  BY DEF EditFile
<1>2. c \in Seq(Chunks) /\ Owner[p] \in Peers
  BY SourcesAssumption
<1>3. left' \in Budget /\ Room' >= Room /\ Room' \in Int
  BY <1>1, SpendRoom, BoundsAssumption DEF Typed, Rows, Room, Budget
<1>4. \/ xfer' = xfer
      \/ xfer # Idle /\ xfer' \in Xfers /\ xfer'.stage = xfer.stage /\ xfer'.id = xfer.id
  <2>1. CASE Stage("bytes") /\ xfer.path = p
    <3>1. xfer # Idle /\ xfer \in Xfers /\ xfer' = [xfer EXCEPT !.data = c]
      BY <1>1, <2>1, XferIs DEF Stage
    <3> QED
      BY <1>2, <3>1 DEF Xfers
  <2>2. CASE ~(Stage("bytes") /\ xfer.path = p)
    BY <1>1, <2>2
  <2> QED
    BY <2>1, <2>2
<1>5. Rows'
  BY <1>1, <1>3, <1>4, RowsSame DEF Typed
<1>6. disk' \in [Peers -> [Paths -> Seq(Chunks) \cup {Absent}]]
  BY <1>1, <1>2 DEF Typed, Places
<1>7. xfer' = Idle \/ xfer' \in Xfers
  BY <1>4 DEF Typed, Places
<1> QED
  BY <1>1, <1>5, <1>6, <1>7 DEF Typed, Clocks, Places, history

LEMMA TypedInit == Init => Typed
<1> SUFFICES ASSUME Init PROVE Typed
  OBVIOUS
<1>1. left \in Budget /\ Room \in Nat
  BY BoundsAssumption DEF Init, Budget, Room
<1>2. Rows
  BY <1>1, EmptyFits DEF Init, Rows
<1>3. Clocks
  BY BoundsAssumption DEF Init, Clocks
<1>4. disk \in [Peers -> [Paths -> Seq(Chunks) \cup {Absent}]]
  <2>1. PICK held \in [Sources -> UNION {Contents[p] : p \in Sources}] :
          /\ \A p \in Sources : held[p] \in Contents[p]
          /\ disk = [e \in Peers |-> [p \in Paths |->
               IF left.files > 0 /\ p \in Sources /\ e = Owner[p] THEN held[p] ELSE Absent]]
    BY DEF Init
  <2>2. \A p \in Sources : held[p] \in Seq(Chunks)
    BY <2>1, SourcesAssumption
  <2> QED
    BY <2>1, <2>2
<1>5. paths \in [Peers -> [Settings -> Paths \cup {Absent}]]
  BY DEF Init
<1> QED
  BY <1>2, <1>3, <1>4, <1>5 DEF Init, Typed, Places

LEMMA TypedStep == Typed /\ [Next]_vars => Typed'
<1> SUFFICES ASSUME Typed, [Next]_vars PROVE Typed'
  OBVIOUS
<1>1. CASE Attachment
  BY <1>1, OfferTyped, AnnounceTyped, OpenTyped, ChunkTyped, FinishTyped, BreakTyped DEF Attachment
<1>2. ASSUME NEW e \in Peers, Write(e) \/ Accept(e) PROVE Typed'
  BY <1>2, WriteTyped, AcceptTyped
<1>3. ASSUME NEW e \in Peers, Clear(e) \/ Forget(e) \/ Wipe(e) \/ Unlink(e) PROVE Typed'
  BY <1>3, ClearTyped, RemovalTyped, UnlinkTyped
<1>4. ASSUME NEW e \in Peers, Restart(e) \/ Tick(e) \/ SetBack(e) PROVE Typed'
  BY <1>4, RestartTyped, ClockTyped
<1>5. ASSUME NEW p \in Sources, PickFile(p) \/ EditFile(p) PROVE Typed'
  BY <1>5, PickFileTyped, EditFileTyped
<1>6. CASE UNCHANGED vars
  <2>1. Rows'
    BY <1>6, LeftSame, RowsSame DEF Typed, vars
  <2> QED
    BY <1>6, <2>1 DEF Typed, Clocks, Places, vars, history
<1> QED
  BY <1>1, <1>2, <1>3, <1>4, <1>5, <1>6 DEF Next

\* Types of the history, by the way the ids come about.
Handed(e) == [sender : {e}, seq : 1..MaxSeq, ts : 1..MaxClock]

Ids ==
    /\ DOMAIN minted = Peers /\ \A e \in Peers : minted[e] \in Seq(Handed(e))
    /\ rewound \subseteq Peers /\ twice \subseteq Peers
    /\ offers \subseteq [id : Id, name : {SafeName[p] : p \in Sources}]
    /\ \A o \in offers : o.id \in Range(minted[o.id.sender])

\* What an endpoint whose clock was never set back has handed out is older
\* than its clock, or has a smaller sequence number than the next.
Behind(id, e) == id.ts < clock[e] \/ (id.ts = clock[e] /\ id.seq <= counter[e])
Fresh == \A e \in Peers \ rewound : \A id \in Range(minted[e]) : Behind(id, e)

IdInv == Typed /\ Ids /\ Fresh /\ NoIdTwice

LEMMA AppendRange ==
    ASSUME NEW S, NEW s \in Seq(S), NEW x
    PROVE  /\ Range(Append(s, x)) = Range(s) \cup {x}
           /\ \A T : S \subseteq T /\ x \in T => Append(s, x) \in Seq(T)
           /\ \A v \in Range(s) : v \in S
<1> DEFINE T == S \cup {x}
           new == Append(s, x)
<1>1. s \in Seq(T) /\ x \in T
  OBVIOUS
<1>2. /\ Len(new) = Len(s) + 1 /\ Len(s) \in Nat
      /\ DOMAIN new = 1..(Len(s) + 1) /\ DOMAIN s = 1..Len(s)
      /\ \A i \in 1..Len(s) : new[i] = s[i] /\ s[i] \in S
      /\ new[Len(s) + 1] = x
  BY <1>1
<1> HIDE DEF new
<1>3. Range(new) = Range(s) \cup {x} /\ \A v \in Range(s) : v \in S
  BY <1>2 DEF Range
<1>4. ASSUME NEW R, S \subseteq R, x \in R PROVE Append(s, x) \in Seq(R)
  <2>1. s \in Seq(R)
    BY <1>4
  <2> QED
    BY <1>4, <2>1
<1> QED
  BY <1>3, <1>4 DEF new

LEMMA MintIds ==
    ASSUME IdInv, NEW e \in Peers, Mint(e), Spend("writes") \/ Spend("files"),
           UNCHANGED <<clock, rewound>>,
           \/ offers' = offers
           \/ \E p \in Sources : offers' = offers \cup {[id |-> NextId(e), name |-> SafeName[p]]}
    PROVE  Ids' /\ Fresh' /\ NoIdTwice'
<1>1. /\ counter' = [counter EXCEPT ![e] = counter[e] + 1]
      /\ minted'  = [minted EXCEPT ![e] = Append(minted[e], NextId(e))]
      /\ twice'   = IF NextId(e) \in Range(minted[e]) THEN twice \cup {e} ELSE twice
  BY DEF Mint
<1>2. Typed /\ Rows /\ Clocks
  BY DEF IdInv, Typed
<1>3. left' \in Budget /\ Room' = Room + 1
  BY <1>2, SpendRoom DEF Rows
<1>4. Room' <= MaxSeq /\ MaxSeq \in Nat
  BY <1>3, BoundsAssumption DEF Room, Budget
<1>5. /\ IdFits(NextId(e), Room') /\ counter[e] \in Nat /\ clock[e] \in 1..MaxClock
      /\ NextId(e).seq = counter[e] + 1 /\ NextId(e).ts = clock[e] /\ NextId(e).sender = e
      /\ counter[e] + 1 <= Room'
  BY <1>2, <1>3, NextIdFits DEF Clocks, Rows
<1>6. NextId(e) \in Handed(e)
  BY <1>3, <1>4, <1>5, RoomIs, <1>2 DEF NextId, Handed
<1>7. minted[e] \in Seq(Handed(e)) /\ DOMAIN minted = Peers
  BY DEF IdInv, Ids
<1>8. /\ Range(Append(minted[e], NextId(e))) = Range(minted[e]) \cup {NextId(e)}
      /\ Append(minted[e], NextId(e)) \in Seq(Handed(e))
      /\ \A id \in Range(minted[e]) : id \in Handed(e)
  BY <1>6, <1>7, AppendRange
<1>9. /\ DOMAIN minted' = Peers
      /\ \A f \in Peers : minted'[f] = IF f = e THEN Append(minted[e], NextId(e)) ELSE minted[f]
  BY <1>1, <1>7
<1>10. Ids'
  <2>1. NextId(e) \in Id
    BY <1>5 DEF IdFits
  <2>2. offers' \subseteq [id : Id, name : {SafeName[p] : p \in Sources}]
    BY <2>1 DEF IdInv, Ids
  <2>3. ASSUME NEW o \in offers' PROVE o.id \in Range(minted'[o.id.sender])
    <3>1. CASE o \in offers
      <4>1. o.id \in Id /\ o.id \in Range(minted[o.id.sender])
        BY <3>1 DEF IdInv, Ids
      <4>2. o.id.sender \in Peers
        BY <4>1 DEF Id
      <4> QED
        BY <1>8, <1>9, <4>1, <4>2
    <3>2. CASE o.id = NextId(e)
      BY <1>5, <1>8, <1>9, <3>2
    <3> QED
      BY <2>3, <3>1, <3>2
  <2>4. \A f \in Peers : minted'[f] \in Seq(Handed(f))
    BY <1>8, <1>9 DEF IdInv, Ids
  <2>5. rewound' \subseteq Peers /\ twice' \subseteq Peers
    BY <1>1 DEF IdInv, Ids
  <2> QED
    BY <1>9, <2>2, <2>3, <2>4, <2>5 DEF Ids, Handed
<1>11. ASSUME NEW f \in Peers \ rewound', NEW id \in Range(minted'[f]) PROVE Behind(id, f)'
  <2>1. CASE f # e
    BY <1>1, <1>2, <1>9, <1>11, <2>1 DEF IdInv, Fresh, Behind, Rows
  <2>2. CASE f = e /\ id = NextId(e)
    BY <1>1, <1>2, <1>5, <2>2 DEF Behind, Rows
  <2>3. CASE f = e /\ id # NextId(e)
    <3>1. id \in Range(minted[e])
      BY <1>8, <1>9, <1>11, <2>3
    <3>2. Behind(id, e) /\ id.seq \in Nat
      BY <1>8, <1>11, <2>3, <3>1 DEF IdInv, Fresh, Handed
    <3>3. counter'[e] = counter[e] + 1
      BY <1>1, <1>2 DEF Rows
    <3> QED
      BY <1>5, <2>3, <3>2, <3>3 DEF Behind
  <2> QED
    BY <2>1, <2>2, <2>3
<1>12. NoIdTwice'
  <2>1. CASE NextId(e) \in Range(minted[e])
    <3>1. ~Behind(NextId(e), e)
      BY <1>5 DEF Behind
    <3>2. e \in rewound
      BY <2>1, <3>1 DEF IdInv, Fresh
    <3> QED
      BY <1>1, <3>2 DEF IdInv, NoIdTwice
  <2>2. CASE NextId(e) \notin Range(minted[e])
    BY <1>1, <2>2 DEF IdInv, NoIdTwice
  <2> QED
    BY <2>1, <2>2
<1> QED
  BY <1>10, <1>11, <1>12 DEF Fresh

LEMMA IdsStay ==
    ASSUME IdInv, UNCHANGED <<minted, twice, offers>>, rewound \subseteq rewound', rewound' \subseteq Peers,
           \A e \in Peers \ rewound' :
              \/ clock'[e] = clock[e] /\ counter'[e] = counter[e]
              \/ clock'[e] = clock[e] + 1
    PROVE  Ids' /\ Fresh' /\ NoIdTwice'
<1>1. Ids' /\ NoIdTwice'
  BY DEF IdInv, Ids, NoIdTwice
<1>2. ASSUME NEW e \in Peers \ rewound', NEW id \in Range(minted'[e]) PROVE Behind(id, e)'
  <2>1. Behind(id, e)
    BY <1>2 DEF IdInv, Fresh
  <2>2. id \in Handed(e)
    <3>1. minted[e] \in Seq(Handed(e))
      BY DEF IdInv, Ids
    <3> QED
      BY <1>2, <3>1, AppendRange
  <2>3. clock[e] \in Nat /\ id.ts \in Nat
    BY <1>2, <2>2, BoundsAssumption DEF IdInv, Typed, Clocks, Handed
  <2> QED
    BY <1>2, <2>1, <2>3 DEF Behind
<1> QED
  BY <1>1, <1>2 DEF Fresh

LEMMA IdStep == IdInv /\ [Next]_vars => IdInv'
<1> SUFFICES ASSUME IdInv, [Next]_vars PROVE IdInv'
  OBVIOUS
<1>1. Typed' /\ Typed
  BY TypedStep DEF IdInv
<1> SUFFICES Ids' /\ Fresh' /\ NoIdTwice'
  BY <1>1 DEF IdInv
<1>2. rewound \subseteq Peers
  BY DEF IdInv, Ids
<1>3. ASSUME NEW e \in Peers, Write(e) PROVE Ids' /\ Fresh' /\ NoIdTwice'
  BY <1>3, MintIds DEF Write
<1>4. CASE Offer
  <2>1. PICK e : e = xfer.from
    OBVIOUS
  <2>2. /\ e \in Peers /\ Mint(e) /\ Spend("files") /\ UNCHANGED <<clock, rewound>>
        /\ xfer.path \in Sources
        /\ offers' = offers \cup {[id |-> NextId(e), name |-> SafeName[xfer.path]]}
    BY <1>1, <1>4, <2>1, XferIs DEF Offer, Stage
  <2> QED
    BY <2>2, MintIds
<1>5. CASE Announce \/ Open \/ Chunk \/ Finish \/ Break
  BY <1>2, <1>5, IdsStay DEF Announce, Open, Chunk, Finish, Break, history
<1>6. ASSUME NEW e \in Peers, Accept(e) \/ Clear(e) \/ Forget(e) \/ Wipe(e) \/ Unlink(e)
      PROVE  Ids' /\ Fresh' /\ NoIdTwice'
  BY <1>2, <1>6, IdsStay DEF Accept, Clear, Forget, Wipe, Empty, Unlink, history
<1>7. ASSUME NEW e \in Peers, Restart(e) \/ Tick(e) PROVE Ids' /\ Fresh' /\ NoIdTwice'
  <2>1. /\ clock' = [clock EXCEPT ![e] = @ + 1] /\ UNCHANGED <<minted, twice, rewound, offers>>
        /\ \A f \in Peers : f # e => counter'[f] = counter[f]
    BY <1>1, <1>7 DEF Restart, Tick, history, Typed, Rows
  <2>2. \A f \in Peers : clock'[f] = IF f = e THEN clock[e] + 1 ELSE clock[f]
    BY <1>1, <2>1 DEF Typed, Clocks
  <2> QED
    BY <1>2, <2>1, <2>2, IdsStay
<1>8. ASSUME NEW e \in Peers, SetBack(e) PROVE Ids' /\ Fresh' /\ NoIdTwice'
  <2>1. /\ clock' = [clock EXCEPT ![e] = @ - 1] /\ rewound' = rewound \cup {e}
        /\ UNCHANGED <<minted, twice, counter, offers>>
    BY <1>8 DEF SetBack
  <2>2. \A f \in Peers \ rewound' : clock'[f] = clock[f]
    BY <1>1, <2>1 DEF Typed, Clocks
  <2> QED
    BY <1>2, <2>1, <2>2, IdsStay
<1>9. ASSUME NEW p \in Sources, PickFile(p) \/ EditFile(p) PROVE Ids' /\ Fresh' /\ NoIdTwice'
  BY <1>2, <1>9, IdsStay DEF PickFile, EditFile, history
<1>10. CASE UNCHANGED vars
  BY <1>2, <1>10, IdsStay DEF vars, history
<1> QED
  BY <1>3, <1>4, <1>5, <1>6, <1>7, <1>8, <1>9, <1>10 DEF Next, Attachment

LEMMA IdInit == Init => IdInv
<1> SUFFICES ASSUME Init PROVE IdInv
  OBVIOUS
<1>1. DOMAIN minted = Peers /\ \A e \in Peers : minted[e] = <<>>
  BY DEF Init
<1>2. \A e \in Peers : minted[e] \in Seq(Handed(e)) /\ Range(minted[e]) = {}
  <2> SUFFICES ASSUME NEW e \in Peers
               PROVE  minted[e] \in Seq(Handed(e)) /\ Range(minted[e]) = {}
    OBVIOUS
  <2>1. minted[e] = <<>>
    BY <1>1
  <2>2. \A S : <<>> \in Seq(S)
    OBVIOUS
  <2>3. DOMAIN <<>> = {}
    OBVIOUS
  <2>4. Range(<<>>) = {}
    BY ONLY <2>3 DEF Range
  <2> QED
    BY <2>1, <2>2, <2>4
<1>3. rewound = {} /\ twice = {} /\ offers = {}
  BY DEF Init
<1> QED
  BY <1>1, <1>2, <1>3, TypedInit DEF IdInv, Ids, Fresh, NoIdTwice

\* Type correctness of the stores, clocks, files, transfers and ids of both
\* ends; no table holds an id twice (Store::record).
THEOREM ConversationTyped == Spec => []TypeOK
<1>1. IdInv => TypeOK
  <2> SUFFICES ASSUME IdInv PROVE TypeOK
    OBVIOUS
  <2>1. \A e \in Peers : /\ \A op \in Ops(table[e]) : op.id \in Id
                         /\ \A i, j \in DOMAIN table[e] :
                              table[e][i].id = table[e][j].id => i = j
    BY DEF IdInv, Typed, Rows, TableFits, IdFits
  <2>2. counter \in [Peers -> 0..MaxSeq]
    <3>1. \A e \in Peers : counter[e] \in 0..MaxSeq
      BY RoomIs DEF IdInv, Typed, Rows
    <3> QED
      BY <3>1 DEF IdInv, Typed, Rows
  <2>3. \A e \in Peers, p \in Paths : disk[e][p] = Absent \/ disk[e][p] \in Seq(Chunks)
    BY DEF IdInv, Typed, Places
  <2>4. xfer \in Xfers \cup {Idle}
    BY DEF IdInv, Typed, Places
  <2>5. \A e \in Peers : /\ minted[e] \in Seq([sender : {e}, seq : 1..MaxSeq, ts : 1..MaxClock])
                         /\ doomed[e] \subseteq Paths
    BY DEF IdInv, Ids, Handed, Typed, Places
  <2> QED
    BY <2>1, <2>2, <2>3, <2>4, <2>5 DEF TypeOK, IdInv, Ids, Typed, Clocks, Places
<1> QED
  BY <1>1, IdInit, IdStep, PTL DEF Spec

\* No removal and no restart makes an endpoint hand out an id again; it takes a
\* clock that was set back (Counter::mint, Store::open).
THEOREM IdsAreNew == Spec => []NoIdTwice
<1>1. IdInv => NoIdTwice
  BY DEF IdInv
<1> QED
  BY <1>1, IdInit, IdStep, PTL DEF Spec

(***************************************************************************)
(* In order.  Whose clock was never set back has ids that grow in the      *)
(* order of minting, and an op of one's own is minted after the message it *)
(* changes; every id on its way was handed out by its sender.              *)
(***************************************************************************)
Earlier(p, q) == p.ts < q.ts \/ (p.ts = q.ts /\ p.seq < q.seq)

Sorted ==
    \A e \in Peers \ rewound : \A i, j \in DOMAIN minted[e] :
        i < j => Earlier(minted[e][i], minted[e][j])

OpOK(op) ==
    /\ op.id.sender \in Peers /\ op.id \in Range(minted[op.id.sender])
    /\ op.kind \in {"edit", "delete"} /\ IsAuthors(op) /\ op.id.sender \notin rewound
         => Earlier(op.target, op.id)

Chron ==
    /\ Sorted
    /\ \A e \in Peers : \A op \in Ops(table[e]) : OpOK(op)
    /\ \A e \in Peers : \A op \in mail[e] : OpOK(op)
    /\ xfer # Idle /\ xfer.stage # "measured" =>
          xfer.id.sender \in Peers /\ xfer.id \in Range(minted[xfer.id.sender])

LEMMA ChronKept ==
    ASSUME Chron, rewound \subseteq rewound', Sorted',
           \A e \in Peers : Range(minted[e]) \subseteq Range(minted'[e]),
           \A e \in Peers : \A op \in Ops(table'[e]) :
              op \in Ops(table[e]) \/ op \in mail[e] \/ OpOK(op)',
           \A e \in Peers : \A op \in mail'[e] : op \in mail[e] \/ OpOK(op)',
           xfer' # Idle /\ xfer'.stage # "measured" =>
              \/ xfer'.id.sender \in Peers /\ xfer'.id \in Range(minted'[xfer'.id.sender])
              \/ xfer # Idle /\ xfer.stage # "measured" /\ xfer'.id = xfer.id
    PROVE  Chron'
<1>1. \A op : OpOK(op) => OpOK(op)'
  BY DEF OpOK
<1> QED
  BY <1>1 DEF Chron

LEMMA SortedStays ==
    ASSUME Chron, minted' = minted, rewound \subseteq rewound'
    PROVE  Sorted' /\ \A e \in Peers : Range(minted[e]) \subseteq Range(minted'[e])
BY DEF Chron, Sorted

LEMMA MintSorts ==
    ASSUME IdInv, Chron, NEW e \in Peers, Mint(e), UNCHANGED rewound
    PROVE  /\ Sorted' /\ \A f \in Peers : Range(minted[f]) \subseteq Range(minted'[f])
           /\ NextId(e) \in Range(minted'[e]) /\ NextId(e).sender = e
           /\ e \notin rewound => \A id \in Range(minted[e]) : Earlier(id, NextId(e))
<1> DEFINE s == minted[e]
           new == Append(s, NextId(e))
           n == Len(s)
<1>1. NextId(e).seq = counter[e] + 1 /\ NextId(e).ts = clock[e] /\ NextId(e).sender = e
  BY DEF NextId
<1>2. DOMAIN minted = Peers /\ s \in Seq(Handed(e)) /\ counter[e] \in Nat
  BY DEF IdInv, Ids, Typed, Rows
<1>3. minted' = [minted EXCEPT ![e] = new]
  BY DEF Mint
<1>4. ASSUME e \notin rewound, NEW id \in Range(s) PROVE Earlier(id, NextId(e))
  <2>1. Behind(id, e)
    BY <1>4 DEF IdInv, Fresh
  <2>2. id \in Handed(e)
    BY <1>2, <1>4, AppendRange
  <2>3. id.seq \in 1..MaxSeq
    BY <2>2 DEF Handed
  <2> QED
    BY <1>1, <1>2, <2>1, <2>3, BoundsAssumption DEF Behind, Earlier
<1>5. Range(new) = Range(s) \cup {NextId(e)}
  BY <1>2, AppendRange
<1>6. \A f \in Peers : minted'[f] = IF f = e THEN new ELSE minted[f]
  BY <1>2, <1>3
<1>7. /\ n \in Nat /\ DOMAIN new = 1..n + 1 /\ DOMAIN s = 1..n
      /\ new[n + 1] = NextId(e) /\ \A i \in 1..n : new[i] = s[i]
  BY <1>2
<1> HIDE DEF new, n
<1>8. ASSUME e \notin rewound, NEW i \in DOMAIN new, NEW j \in DOMAIN new, i < j
      PROVE  Earlier(new[i], new[j])
  <2>1. i \in 1..n
    BY <1>7, <1>8
  <2>2. CASE j = n + 1
    <3>1. s[i] \in Range(s)
      BY <1>7, <2>1 DEF Range
    <3> QED
      BY <1>4, <1>7, <1>8, <2>1, <2>2, <3>1
  <2>3. CASE j # n + 1
    <3>1. j \in 1..n
      BY <1>7, <2>3
    <3> QED
      BY <1>7, <1>8, <2>1, <3>1 DEF Chron, Sorted
  <2> QED
    BY <2>2, <2>3
<1>9. Sorted'
  <2> SUFFICES ASSUME NEW f \in Peers \ rewound', NEW i \in DOMAIN minted'[f],
                      NEW j \in DOMAIN minted'[f], i < j
               PROVE  Earlier(minted'[f][i], minted'[f][j])
    BY DEF Sorted, Earlier
  <2>1. CASE f = e
    BY <1>6, <1>8, <2>1
  <2>2. CASE f # e
    <3>1. minted'[f] = minted[f] /\ f \in Peers \ rewound
      BY <1>6, <2>2
    <3> QED
      BY <3>1 DEF Chron, Sorted
  <2> QED
    BY <2>1, <2>2
<1> QED
  BY <1>1, <1>4, <1>5, <1>6, <1>9

LEMMA RecordOps ==
    ASSUME NEW rows, rows \in Seq(Ops(rows)), NEW op
    PROVE  \A o \in Ops(Record(rows, op)) : o \in Ops(rows) \/ o = op
BY AppendOps DEF Record

LEMMA RecordAt ==
    ASSUME Typed, NEW f, NEW op, table' = [table EXCEPT ![f] = Record(@, op)], NEW e \in Peers
    PROVE  \A o \in Ops(table'[e]) : o \in Ops(table[e]) \/ (e = f /\ o = op)
<1>1. DOMAIN table = Peers /\ table[e] \in Seq(Ops(table[e]))
  BY DEF Typed, Rows, TableFits
<1>2. CASE e = f
  <2>1. table'[e] = Record(table[e], op)
    BY <1>1, <1>2
  <2> QED
    BY <1>1, <1>2, <2>1, RecordOps
<1>3. CASE e # f
  BY <1>1, <1>3
<1> QED
  BY <1>2, <1>3

LEMMA WriteChron ==
    ASSUME IdInv, Chron, NEW e \in Peers, Write(e)
    PROVE  Chron'
<1>1. PICK op \in NewOps(e) :
        /\ Mint(e) /\ table' = [table EXCEPT ![e] = Record(@, op)]
        /\ mail'  = [mail EXCEPT ![Peer(e)] = @ \cup {op}]
        /\ UNCHANGED <<xfer, rewound>>
  BY DEF Write
<1>2. Typed /\ DOMAIN mail = Peers
  BY DEF IdInv, Typed, Rows
<1>3. /\ Sorted' /\ \A f \in Peers : Range(minted[f]) \subseteq Range(minted'[f])
      /\ NextId(e) \in Range(minted'[e]) /\ NextId(e).sender = e
      /\ e \notin rewound => \A id \in Range(minted[e]) : Earlier(id, NextId(e))
  BY <1>1, MintSorts
<1>4. op.id = NextId(e)
  BY DEF NewOps, Chat, Edit, Delete, React
<1>5. op.kind \in {"edit", "delete"} => op.target \in Messages(e)
  BY DEF NewOps, Chat, Edit, Delete, React
<1>6. ASSUME op.kind \in {"edit", "delete"}, IsAuthors(op), e \notin rewound
      PROVE  Earlier(op.target, op.id)
  <2>1. PICK o \in Ops(table[e]) : op.target = o.id
    BY <1>5, <1>6 DEF Messages
  <2>2. o.id.sender = e
    BY <1>3, <1>4, <1>6, <2>1 DEF IsAuthors
  <2>3. o.id \in Range(minted[e])
    BY <2>2 DEF Chron, OpOK
  <2> QED
    BY <1>3, <1>4, <1>6, <2>1, <2>3
<1>7. OpOK(op)'
  BY <1>1, <1>3, <1>4, <1>6 DEF OpOK
<1>8. \A f \in Peers : \A o \in Ops(table'[f]) : o \in Ops(table[f]) \/ o = op
  BY <1>1, <1>2, RecordAt
<1>9. \A f \in Peers : \A o \in mail'[f] : o \in mail[f] \/ o = op
  BY <1>1, <1>2
<1> QED
  BY <1>1, <1>3, <1>7, <1>8, <1>9, ChronKept

LEMMA OfferChron ==
    ASSUME IdInv, Chron, Offer
    PROVE  Chron'
<1>1. PICK e : e = xfer.from
  OBVIOUS
<1>2. PICK op : op = File(NextId(e), xfer.size, Held)
  OBVIOUS
<1>3. /\ xfer # Idle /\ xfer.stage = "measured" /\ Mint(e)
      /\ table' = [table EXCEPT ![e] = Record(@, op)]
      /\ xfer'  = [xfer EXCEPT !.stage = "recorded", !.hash = Held, !.id = NextId(e)]
      /\ UNCHANGED <<mail, rewound>>
  BY <1>1, <1>2 DEF Offer, Stage
<1>4. Typed /\ e \in Peers /\ xfer \in Xfers
  BY <1>1, <1>3, XferIs DEF IdInv
<1>5. /\ Sorted' /\ \A f \in Peers : Range(minted[f]) \subseteq Range(minted'[f])
      /\ NextId(e) \in Range(minted'[e]) /\ NextId(e).sender = e
  BY <1>3, <1>4, MintSorts
<1>6. OpOK(op)'
  BY <1>2, <1>4, <1>5 DEF OpOK, File
<1>7. \A f \in Peers : \A o \in Ops(table'[f]) : o \in Ops(table[f]) \/ o = op
  BY <1>3, <1>4, RecordAt
<1>8. xfer'.id = NextId(e)
  BY <1>3, <1>4 DEF Xfers
<1> QED
  BY <1>3, <1>4, <1>5, <1>6, <1>7, <1>8, ChronKept

LEMMA OpenChron ==
    ASSUME IdInv, Chron, Open
    PROVE  Chron'
<1>1. PICK to, op :
        /\ to = Peer(xfer.from) /\ op = File(xfer.id, xfer.size, xfer.hash)
        /\ xfer # Idle /\ xfer.stage = "header"
        /\ table' = [table EXCEPT ![to] = Record(@, op)]
        /\ xfer' = [xfer EXCEPT !.stage = "bytes", !.data = Held]
        /\ UNCHANGED <<mail, minted, rewound>>
  BY DEF Open, Stage, history
<1>2. Typed /\ xfer \in Xfers
  BY <1>1, XferIs DEF IdInv
<1>3. OpOK(op)'
  BY <1>1 DEF OpOK, File, Chron
<1>4. \A f \in Peers : \A o \in Ops(table'[f]) : o \in Ops(table[f]) \/ o = op
  <2>1. table' = [table EXCEPT ![to] = Record(@, op)]
    BY <1>1
  <2> QED
    BY ONLY <1>2, <2>1, RecordAt
<1>5. xfer'.id = xfer.id
  BY <1>1, <1>2 DEF Xfers
<1> QED
  BY <1>1, <1>3, <1>4, <1>5, SortedStays, ChronKept

LEMMA AcceptChron ==
    ASSUME IdInv, Chron, NEW e \in Peers, Accept(e)
    PROVE  Chron'
<1>1. PICK op \in mail[e] :
        /\ table' = [table EXCEPT ![e] = Record(@, op)]
        /\ UNCHANGED <<mail, xfer, minted, rewound>>
  BY DEF Accept, history
<1>2. Typed
  BY DEF IdInv
<1>3. ASSUME NEW f \in Peers, NEW o \in Ops(table'[f]) PROVE o \in Ops(table[f]) \/ o \in mail[f]
  <2>1. o \in Ops(table[f]) \/ (f = e /\ o = op)
    BY <1>1, <1>2, RecordAt
  <2> QED
    BY <2>1
<1> QED
  BY <1>1, <1>3, SortedStays, ChronKept

LEMMA RemovalChron ==
    ASSUME IdInv, Chron, NEW e \in Peers, NEW settings, Empty(e, settings),
           xfer' # Idle => xfer # Idle /\ xfer'.stage = xfer.stage /\ xfer'.id = xfer.id
    PROVE  Chron'
<1>1. table' = [table EXCEPT ![e] = <<>>] /\ UNCHANGED <<mail, minted, rewound>>
  BY DEF Empty
<1>2. DOMAIN table = Peers
  BY DEF IdInv, Typed, Rows
<1>3. \A f \in Peers : table'[f] = table[f] \/ table'[f] = <<>>
  BY <1>1, <1>2
<1>4. \A f \in Peers : \A o \in Ops(table'[f]) : o \in Ops(table[f])
  BY <1>3, EmptyFits
<1> QED
  BY <1>1, <1>4, SortedStays, ChronKept

\* What a hang-up, a restart or the next stage does to the transfer.
XferGoesOn ==
    xfer' # Idle /\ xfer'.stage # "measured" =>
       xfer # Idle /\ xfer.stage # "measured" /\ xfer'.id = xfer.id

LEMMA OtherChron ==
    ASSUME Chron, UNCHANGED <<table, mail, minted>>, rewound \subseteq rewound', XferGoesOn
    PROVE  Chron'
BY SortedStays, ChronKept DEF XferGoesOn

LEMMA ChronStep == IdInv /\ Chron /\ [Next]_vars => Chron'
<1> SUFFICES ASSUME IdInv, Chron, [Next]_vars PROVE Chron'
  OBVIOUS
<1>1. Typed
  BY DEF IdInv
<1>2. ASSUME xfer # Idle, NEW v \in BOOLEAN, xfer' = [xfer EXCEPT !.live = v]
      PROVE  xfer'.stage = xfer.stage /\ xfer'.id = xfer.id
  BY <1>1, <1>2, XferIs DEF Xfers
<1>3. ASSUME NEW e \in Peers, Clear(e) \/ Forget(e) \/ Wipe(e) PROVE Chron'
  <2>1. CASE Clear(e)
    BY <2>1, RemovalChron DEF Clear
  <2>2. CASE Forget(e) \/ Wipe(e)
    <3>1. HangUp /\ \E settings : Empty(e, settings)
      BY <2>2 DEF Forget, Wipe
    <3>2. xfer' # Idle => xfer # Idle /\ xfer'.stage = xfer.stage /\ xfer'.id = xfer.id
      <4>1. xfer' = Idle \/ (xfer # Idle /\ xfer' = [xfer EXCEPT !.live = FALSE])
        BY <3>1 DEF HangUp, Stage
      <4> QED
        BY <1>2, <4>1
    <3> QED
      BY <3>1, <3>2, RemovalChron
  <2> QED
    BY <1>3, <2>1, <2>2
<1>4. CASE Announce \/ Chunk \/ Finish \/ Break
  <2>1. UNCHANGED <<table, mail, minted, rewound>>
    BY <1>4 DEF Announce, Chunk, Finish, Break, history
  <2>2. XferGoesOn
    <3>1. CASE Announce
      <4>1. /\ xfer # Idle /\ xfer.stage = "recorded"
            /\ xfer' = Idle \/ xfer' = [xfer EXCEPT !.stage = "header"]
        BY <3>1 DEF Announce, Stage
      <4> QED
        BY <1>1, <4>1, XferIs DEF XferGoesOn, Xfers
    <3>2. CASE Chunk
      <4>1. /\ xfer # Idle /\ xfer.stage = "bytes"
            /\ xfer' = Idle \/ \E v : xfer' = [xfer EXCEPT !.got = v]
        BY <3>2 DEF Chunk, Stage
      <4> QED
        BY <1>1, <4>1, XferIs DEF XferGoesOn, Xfers
    <3>3. CASE Finish \/ Break
      BY <3>3 DEF XferGoesOn, Finish, Break
    <3> QED
      BY <1>4, <3>1, <3>2, <3>3
  <2> QED
    BY <2>1, <2>2, OtherChron
<1>5. ASSUME NEW e \in Peers, Unlink(e) \/ Restart(e) \/ Tick(e) \/ SetBack(e) PROVE Chron'
  <2>1. UNCHANGED <<table, mail, minted>> /\ rewound \subseteq rewound'
    BY <1>5 DEF Unlink, Restart, Tick, SetBack, history
  <2>2. XferGoesOn
    <3>1. CASE Restart(e)
      <4>1. xfer' = Idle \/ (xfer # Idle /\ xfer' = [xfer EXCEPT !.live = FALSE])
        BY <3>1 DEF Restart
      <4> QED
        BY <1>2, <4>1 DEF XferGoesOn
    <3>2. CASE Unlink(e) \/ Tick(e) \/ SetBack(e)
      BY <3>2 DEF XferGoesOn, Unlink, Tick, SetBack
    <3> QED
      BY <1>5, <3>1, <3>2
  <2> QED
    BY <2>1, <2>2, OtherChron
<1>6. ASSUME NEW p \in Sources, PickFile(p) \/ EditFile(p) PROVE Chron'
  <2>1. UNCHANGED <<table, mail, minted, rewound>>
    BY <1>6 DEF PickFile, EditFile, history
  <2>2. XferGoesOn
    <3>1. CASE PickFile(p)
      <4>1. \E h : xfer' = [from |-> Owner[p], path |-> p, stage |-> "measured", live |-> TRUE, id |-> Absent,
                           size |-> Len(h), hash |-> <<>>, data |-> <<>>, got |-> <<>>]
        BY <3>1 DEF PickFile
      <4> QED
        BY <4>1 DEF XferGoesOn
    <3>2. CASE EditFile(p)
      <4>1. xfer' = xfer \/ \E c : Stage("bytes") /\ xfer' = [xfer EXCEPT !.data = c]
        BY <3>2 DEF EditFile
      <4> QED
        BY <1>1, <4>1, XferIs DEF XferGoesOn, Xfers, Stage
    <3> QED
      BY <1>6, <3>1, <3>2
  <2> QED
    BY <2>1, <2>2, OtherChron
<1>7. CASE UNCHANGED vars
  BY <1>7, OtherChron DEF vars, history, XferGoesOn
<1> QED
  BY <1>3, <1>4, <1>5, <1>6, <1>7, WriteChron, OfferChron, OpenChron, AcceptChron DEF Next, Attachment

LEMMA ChronInit == Init => Chron
<1> SUFFICES ASSUME Init PROVE Chron
  OBVIOUS
<1>1. \A e \in Peers : table[e] = <<>> /\ mail[e] = {} /\ minted[e] = <<>>
  BY DEF Init
<1>2. xfer = Idle /\ DOMAIN <<>> = {}
  BY DEF Init
<1> QED
  BY <1>1, <1>2, EmptyFits DEF Chron, Sorted

(***************************************************************************)
(* Attachments.  A setting, four bytes of a sender and a sequence number,  *)
(* stands for one header and one file as long as one attachment has it:    *)
(* the receiver records a path only for bytes that have the hash the       *)
(* header gave, and later nothing but a removal touches them.  Sound is    *)
(* that, for one setting; Placed says which paths an endpoint can have     *)
(* under it at all, and Came whose files it can hold or unlink.            *)
(***************************************************************************)
Out    == xfer # Idle /\ xfer.stage # "measured"
Parcel == [id |-> xfer.id, name |-> SafeName[xfer.path]]

Headers(e, s) == {op \in Ops(table[e]) : op.kind = "file" /\ Display(op.id) = s}

Ours(e, s) == \E o \in Under(s) : o.id.sender = e
Came(e, f) == \E o \in Under(f[1]) : o.name = f[2] /\ o.id.sender # e

Placed(e, s) ==
    \/ paths[e][s] = Absent
    \/ paths[e][s] \in Sources /\ Ours(e, s)
    \/ paths[e][s] \in Files /\ paths[e][s][1] = s /\ Came(e, paths[e][s])

Underway ==
    /\ Out => xfer.id.sender = xfer.from /\ Parcel \in offers
    /\ xfer # Idle /\ xfer.stage # "bytes" => xfer.got = <<>>

Offered ==
    \A e \in Peers : \A op \in Ops(table[e]) : op.kind = "file" => \E o \in offers : o.id = op.id

Shape ==
    /\ Underway /\ Offered
    /\ \A e \in Peers : \A op \in mail[e] : op.kind # "file"
    /\ \A e \in Peers, s \in Settings : Placed(e, s)
    /\ \A e \in Peers, f \in Files : f \in doomed[e] => Came(e, f)

OneHash(s) == \A e, f \in Peers : \A p \in Headers(e, s), q \in Headers(f, s) : p.hash = q.hash

\* The transfer under way has this setting.
InHand(s) ==
    Out /\ Display(xfer.id) = s =>
      /\ \A e \in Peers : \A p \in Headers(e, s) : p.hash = xfer.hash
      /\ \A e \in Peers : /\ paths[e][s] \notin Files
                          /\ \A f \in Files : f[1] = s => f \notin doomed[e]
      /\ xfer.stage = "bytes" => disk[Peer(xfer.from)][Incoming] = xfer.got

Arrived(s) ==
    \A e \in Peers : paths[e][s] \in Files =>
      paths[e][s] \notin doomed[e] /\ \A p \in Headers(e, s) : p.hash = disk[e][paths[e][s]]

Sound(s) == OneHash(s) /\ InHand(s) /\ Arrived(s)

Filed == Shape /\ \A s \in Settings : Reused(s) \/ Sound(s)

LEMMA PeerIs == ASSUME NEW e \in Peers PROVE Peer(e) \in Peers /\ Peer(e) # e
<1>1. \E p \in Peers : p # e
  BY PeersAssumption
<1> QED
  BY <1>1 DEF Peer

LEMMA FileIs ==
    /\ \A f \in Files : f \in Paths /\ f \notin Sources /\ f # Absent /\ f[1] \in Settings
    /\ \A p \in Sources : p \in Paths /\ p \notin Files /\ p # Absent
    /\ Absent \notin Files /\ Absent \notin Sources
BY SentinelsAssumption DEF Files, Paths

\* What was offered stays so, and a setting that was used again stays so.
LEMMA OfferGrows ==
    ASSUME offers \subseteq offers', twice \subseteq twice'
    PROVE  /\ \A s : /\ Under(s) \subseteq Under(s)' /\ (Reused(s) => Reused(s)')
                     /\ (Contested(s) => Contested(s)')
           /\ \A e, s : Ours(e, s) => Ours(e, s)'
           /\ \A e, f : Came(e, f) => Came(e, f)'
<1>1. \A s : Under(s) \subseteq Under(s)'
  BY DEF Under
<1>2. \A s : MintedTwice(s) => MintedTwice(s)'
  BY <1>1 DEF MintedTwice
<1> QED
  BY <1>1, <1>2 DEF Reused, Contested, Ours, Came

LEMMA MintGrows == ASSUME NEW e, Mint(e) PROVE twice \subseteq twice'
BY DEF Mint

\* An attachment offered under a setting that one had before makes it reused.
LEMMA OfferReuses ==
    ASSUME IdInv, NEW e \in Peers, Mint(e), NEW new, new.id = NextId(e),
           offers' = offers \cup {new}, NEW s, s = Display(NextId(e)), Under(s) # {}
    PROVE  Reused(s)'
<1>1. PICK o \in Under(s) : TRUE
  OBVIOUS
<1>2. o \in Under(s)' /\ new \in Under(s)'
  BY DEF Under
<1>3. CASE o # new
  BY <1>2, <1>3 DEF Reused
<1>4. CASE o = new
  <2>1. NextId(e) \in Range(minted[NextId(e).sender]) /\ NextId(e).sender = e
    BY <1>1, <1>4 DEF Under, IdInv, Ids, NextId
  <2>2. e \in twice'
    BY <2>1 DEF Mint
  <2> QED
    BY <1>2, <2>1, <2>2 DEF Reused, MintedTwice
<1> QED
  BY <1>3, <1>4

\* A setting that a table, a path or a transfer names was offered.
LEMMA HeadersOffered ==
    ASSUME Filed, NEW e \in Peers, NEW s \in Settings
    PROVE  Headers(e, s) # {} \/ paths[e][s] \in Files => Under(s) # {}
<1>1. ASSUME NEW op \in Headers(e, s) PROVE Under(s) # {}
  <2>1. PICK o \in offers : o.id = op.id
    BY <1>1 DEF Headers, Filed, Shape, Offered
  <2> QED
    BY <1>1, <2>1 DEF Headers, Under
<1>2. ASSUME paths[e][s] \in Files PROVE Under(s) # {}
  BY <1>2, FileIs DEF Filed, Shape, Placed, Came
<1> QED
  BY <1>1, <1>2

\* A step that brings no header, no bytes and no path; it may remove them.
NoHeader == \A e \in Peers : \A op \in Ops(table'[e]) : op \in Ops(table[e]) \/ op.kind # "file"
Goes(e) ==
    /\ \A s \in Settings : \/ paths'[e][s] = paths[e][s] \/ paths'[e][s] = Absent
                           \/ paths'[e][s] \in Sources /\ Ours(e, s)
    /\ \A f \in Files :
         /\ f \in doomed'[e] => f \in doomed[e] \/ (paths[e][f[1]] = f /\ paths'[e][f[1]] = Absent)
         /\ disk'[e][f] = disk[e][f] \/ (f \in doomed[e] /\ disk'[e][f] = Absent)

XferStays ==
    /\ Out' => /\ Out /\ xfer'.id = xfer.id /\ xfer'.from = xfer.from /\ xfer'.path = xfer.path
               /\ xfer'.hash = xfer.hash /\ xfer'.got = xfer.got
               /\ xfer'.stage = "bytes" => xfer.stage = "bytes"
    /\ xfer' # Idle /\ xfer'.stage # "bytes" => xfer'.got = <<>>

LEMMA NothingComes ==
    ASSUME Filed, Typed, offers \subseteq offers', twice \subseteq twice',
           NoHeader, \A e \in Peers : Goes(e), XferStays,
           \A e \in Peers : \A op \in mail'[e] : op \in mail[e] \/ op.kind # "file"
    PROVE  Filed'
<1>0. /\ \A s : Reused(s) => Reused(s)'
      /\ \A e, s : Ours(e, s) => Ours(e, s)'
      /\ \A e, f : Came(e, f) => Came(e, f)'
  BY OfferGrows
<1>1. Underway' /\ Offered'
  <2>1. Out' => Parcel' = Parcel
    BY DEF XferStays, Parcel
  <2> QED
    BY <2>1 DEF Filed, Shape, Underway, XferStays, Out, Offered, NoHeader
<1>2. ASSUME NEW e \in Peers, NEW s \in Settings PROVE Placed(e, s)'
  <2>1. Goes(e) /\ Placed(e, s)
    BY DEF Filed, Shape
  <2> QED
    BY <1>0, <2>1 DEF Goes, Placed
<1>3. ASSUME NEW e \in Peers, NEW f \in Files, f \in doomed'[e] PROVE Came(e, f)'
  <2>1. Goes(e) /\ Placed(e, f[1]) /\ (f \in doomed[e] => Came(e, f))
    BY FileIs DEF Filed, Shape
  <2>2. paths[e][f[1]] = f => Came(e, f)
    BY <2>1, FileIs DEF Placed
  <2> QED
    BY <1>0, <1>3, <2>1, <2>2 DEF Goes
<1>4. Shape'
  BY <1>1, <1>2, <1>3 DEF Filed, Shape
<1>5. \A s : \A e \in Peers : Headers(e, s)' \subseteq Headers(e, s)
  BY DEF NoHeader, Headers
<1>6. ASSUME NEW s \in Settings, ~Reused(s)' PROVE Sound(s)'
  <2>1. Sound(s)
    BY <1>0, <1>6 DEF Filed
  <2>2. ASSUME NEW e \in Peers
        PROVE  /\ paths'[e][s] \in Files => paths'[e][s] = paths[e][s]
               /\ \A f \in Files : /\ f[1] = s /\ f \in doomed'[e]
                                        => f \in doomed[e] \/ (paths[e][s] = f /\ paths'[e][s] = Absent)
                                   /\ f \notin doomed[e] => disk'[e][f] = disk[e][f]
    BY FileIs DEF Goes
  <2>3. OneHash(s)'
    BY <1>5, <2>1 DEF Sound, OneHash
  <2>4. InHand(s)'
    <3> SUFFICES ASSUME Out', Display(xfer'.id) = s
                 PROVE  /\ \A e \in Peers : \A p \in Headers(e, s)' : p.hash = xfer'.hash
                        /\ \A e \in Peers : /\ paths'[e][s] \notin Files
                                            /\ \A f \in Files : f[1] = s => f \notin doomed'[e]
                        /\ xfer'.stage = "bytes" => disk'[Peer(xfer'.from)][Incoming'] = xfer'.got
      BY DEF InHand
    <3>1. /\ Out /\ Display(xfer.id) = s /\ xfer'.from = xfer.from /\ xfer'.hash = xfer.hash
          /\ xfer'.got = xfer.got /\ (xfer'.stage = "bytes" => xfer.stage = "bytes")
          /\ Incoming' = Incoming
      BY DEF XferStays, Incoming
    <3>2. Peer(xfer.from) \in Peers /\ Incoming \in Files /\ Incoming[1] = s
      BY <3>1, XferIs, PeerIs DEF Out
    <3>3. /\ \A e \in Peers : \A p \in Headers(e, s) : p.hash = xfer.hash
          /\ \A e \in Peers : /\ paths[e][s] \notin Files
                              /\ \A f \in Files : f[1] = s => f \notin doomed[e]
          /\ xfer.stage = "bytes" => disk[Peer(xfer.from)][Incoming] = xfer.got
      BY <2>1, <3>1 DEF Sound, InHand
    <3>4. \A e \in Peers : /\ paths'[e][s] \notin Files
                           /\ \A f \in Files : f[1] = s => f \notin doomed'[e]
      BY <2>2, <3>3
    <3> QED
      BY <1>5, <2>2, <3>1, <3>2, <3>3, <3>4
  <2>5. Arrived(s)'
    <3> SUFFICES ASSUME NEW e \in Peers, paths'[e][s] \in Files
                 PROVE  /\ paths'[e][s] \notin doomed'[e]
                        /\ \A p \in Headers(e, s)' : p.hash = disk'[e][paths'[e][s]]
      BY DEF Arrived
    <3>1. PICK f \in Files : paths'[e][s] = f /\ paths[e][s] = f
      BY <2>2
    <3>2. f \notin doomed[e] /\ \A p \in Headers(e, s) : p.hash = disk[e][f]
      BY <2>1, <3>1 DEF Sound, Arrived
    <3>3. f[1] = s
      BY <3>1, FileIs DEF Filed, Shape, Placed
    <3>4. f \notin doomed'[e] /\ disk'[e][f] = disk[e][f]
      BY <2>2, <3>1, <3>2, <3>3, FileIs
    <3> QED
      BY <1>5, <3>1, <3>2, <3>4
  <2> QED
    BY <2>3, <2>4, <2>5 DEF Sound
<1> QED
  BY <1>4, <1>6 DEF Filed

\* What is done to the transfer while nothing arrives.
LEMMA LiveStays ==
    ASSUME Filed, Typed, xfer # Idle, NEW v \in BOOLEAN, xfer' = [xfer EXCEPT !.live = v]
    PROVE  XferStays
<1>1. xfer \in Xfers
  BY XferIs
<1>2. /\ xfer'.stage = xfer.stage /\ xfer'.id = xfer.id /\ xfer'.from = xfer.from
      /\ xfer'.path = xfer.path /\ xfer'.hash = xfer.hash /\ xfer'.got = xfer.got
  BY <1>1, XferMoves
<1> QED
  BY <1>2 DEF XferStays, Out, Filed, Shape, Underway

LEMMA XferSame == ASSUME Filed, xfer' = xfer \/ xfer' = Idle PROVE XferStays
BY DEF XferStays, Out, Filed, Shape, Underway

LEMMA WriteFiled ==
    ASSUME IdInv, Filed, NEW e \in Peers, Write(e)
    PROVE  Filed'
<1>1. PICK op \in NewOps(e) :
        /\ Mint(e) /\ table' = [table EXCEPT ![e] = Record(@, op)]
        /\ mail'  = [mail EXCEPT ![Peer(e)] = @ \cup {op}]
        /\ UNCHANGED <<xfer, paths, disk, doomed, offers>>
  BY DEF Write
<1>2. Typed /\ DOMAIN mail = Peers
  BY DEF IdInv, Typed, Rows
<1>3. op.kind # "file"
  BY DEF NewOps, Chat, Edit, Delete, React
<1>4. \A f \in Peers : \A o \in Ops(table'[f]) : o \in Ops(table[f]) \/ o = op
  BY <1>1, <1>2, RecordAt
<1>5. NoHeader /\ \A f \in Peers : Goes(f)
  BY <1>1, <1>3, <1>4 DEF Goes, NoHeader
<1>6. \A f \in Peers : \A o \in mail'[f] : o \in mail[f] \/ o = op
  BY <1>1, <1>2
<1>7. XferStays
  BY <1>1, XferSame
<1> QED
  BY <1>1, <1>2, <1>3, <1>5, <1>6, <1>7, MintGrows, NothingComes

LEMMA AcceptFiled ==
    ASSUME IdInv, Filed, NEW e \in Peers, Accept(e)
    PROVE  Filed'
<1>1. PICK op \in mail[e] :
        /\ table' = [table EXCEPT ![e] = Record(@, op)]
        /\ UNCHANGED <<paths, disk, mail, xfer, doomed, offers, twice>>
  BY DEF Accept, history
<1>2. Typed
  BY DEF IdInv
<1>3. op.kind # "file"
  BY DEF Filed, Shape
<1>4. \A f \in Peers : \A o \in Ops(table'[f]) : o \in Ops(table[f]) \/ o = op
  BY <1>1, <1>2, RecordAt
<1>5. NoHeader /\ \A f \in Peers : Goes(f)
  BY <1>1, <1>3, <1>4 DEF Goes, NoHeader
<1>6. XferStays
  BY <1>1, XferSame
<1> QED
  BY <1>1, <1>2, <1>5, <1>6, NothingComes

LEMMA NamedIn == ASSUME NEW e PROVE Named(e) \subseteq SettingsOf(e)
BY DEF Named, SettingsOf, Messages, IsMessage

\* A removal dooms what the paths lead to, and takes those paths.
LEMMA EmptyFiled ==
    ASSUME IdInv, Filed, NEW e \in Peers, NEW settings, Empty(e, settings),
           Named(e) \subseteq settings, XferStays
    PROVE  Filed'
<1>1. /\ table'  = [table EXCEPT ![e] = <<>>]
      /\ paths'  = [paths EXCEPT ![e] = [s \in Settings |-> IF s \in settings THEN Absent ELSE paths[e][s]]]
      /\ doomed' = [doomed EXCEPT ![e] = FilesOf(e)]
      /\ UNCHANGED <<disk, mail, offers, twice>>
  BY DEF Empty
<1>2. Typed /\ DOMAIN table = Peers /\ DOMAIN paths = Peers /\ DOMAIN doomed = Peers
  BY DEF IdInv, Typed, Rows, Places
<1>3. NoHeader
  <2>1. \A f \in Peers : table'[f] = table[f] \/ table'[f] = <<>>
    BY <1>1, <1>2
  <2> QED
    BY <2>1, EmptyFits DEF NoHeader
<1>4. ASSUME NEW f \in Peers PROVE Goes(f)
  <2>1. CASE f # e
    <3>1. paths'[f] = paths[f] /\ doomed'[f] = doomed[f] /\ disk'[f] = disk[f]
      BY <1>1, <1>2, <2>1
    <3> QED
      BY <3>1 DEF Goes
  <2>2. CASE f = e
    <3>1. /\ doomed'[e] = FilesOf(e) /\ disk'[e] = disk[e]
          /\ \A s \in Settings : paths'[e][s] = IF s \in settings THEN Absent ELSE paths[e][s]
      BY <1>1, <1>2
    <3>2. ASSUME NEW k \in Files, k \in FilesOf(e)
          PROVE  paths[e][k[1]] = k /\ paths'[e][k[1]] = Absent
      <4>1. PICK n \in Named(e) : k = paths[e][n]
        BY <3>2 DEF FilesOf
      <4>2. n \in Settings /\ Placed(e, n) /\ n \in settings
        BY <1>2, NamedSettings DEF Filed, Shape, Typed
      <4>3. n = k[1]
        BY <4>1, <4>2, FileIs DEF Placed
      <4> QED
        BY <3>1, <4>1, <4>2, <4>3
    <3> QED
      BY <2>2, <3>1, <3>2 DEF Goes
  <2> QED
    BY <2>1, <2>2
<1> QED
  BY <1>1, <1>2, <1>3, <1>4, NothingComes

LEMMA RemovalFiled ==
    ASSUME IdInv, Filed, NEW e \in Peers, Clear(e) \/ Forget(e) \/ Wipe(e)
    PROVE  Filed'
<1>1. Typed /\ Named(e) \subseteq Settings /\ Named(e) \subseteq SettingsOf(e)
  BY NamedSettings, NamedIn DEF IdInv, Typed
<1>2. PICK settings : Empty(e, settings) /\ Named(e) \subseteq settings
  BY <1>1 DEF Clear, Forget, Wipe
<1>3. CASE Clear(e)
  <2>1. XferStays
    BY <1>3, XferSame DEF Clear
  <2> QED
    BY <1>2, <2>1, EmptyFiled
<1>4. CASE Forget(e) \/ Wipe(e)
  <2>1. HangUp
    BY <1>4 DEF Forget, Wipe
  <2>2. XferStays
    <3>1. xfer' = Idle \/ (xfer # Idle /\ xfer' = [xfer EXCEPT !.live = FALSE])
      BY <2>1 DEF HangUp, Stage
    <3> QED
      BY <1>1, <3>1, XferSame, LiveStays
  <2> QED
    BY <1>2, <2>2, EmptyFiled
<1> QED
  BY <1>3, <1>4

LEMMA UnlinkFiled ==
    ASSUME IdInv, Filed, NEW e \in Peers, Unlink(e)
    PROVE  Filed'
<1>1. /\ disk'   = [disk EXCEPT ![e] = [p \in Paths |-> IF p \in doomed[e] THEN Absent ELSE disk[e][p]]]
      /\ doomed' = [doomed EXCEPT ![e] = {}]
      /\ UNCHANGED <<table, paths, mail, xfer, offers, twice>>
  BY DEF Unlink, history
<1>2. Typed /\ DOMAIN disk = Peers /\ DOMAIN doomed = Peers
  BY DEF IdInv, Typed, Places
<1>3. ASSUME NEW f \in Peers PROVE Goes(f)
  <2>1. \A k \in Files : disk'[f][k] = disk[f][k] \/ (k \in doomed[f] /\ disk'[f][k] = Absent)
    BY <1>1, <1>2, FileIs
  <2>2. doomed'[f] \subseteq doomed[f]
    BY <1>1, <1>2
  <2> QED
    BY <1>1, <2>1, <2>2 DEF Goes
<1>4. XferStays /\ NoHeader
  BY <1>1, XferSame DEF NoHeader
<1> QED
  BY <1>1, <1>2, <1>3, <1>4, NothingComes

\* Steps that do not touch what came in.
LEMMA OtherFiled ==
    ASSUME IdInv, Filed, XferStays, UNCHANGED <<table, mail, offers, twice>>,
           \A e \in Peers : doomed'[e] \subseteq doomed[e],
           \A e \in Peers, f \in Files : disk'[e][f] = disk[e][f],
           \A e \in Peers, s \in Settings :
             paths'[e][s] = paths[e][s] \/ (Ours(e, s) /\ paths'[e][s] \in Sources)
    PROVE  Filed'
<1>1. Typed
  BY DEF IdInv
<1>2. NoHeader /\ \A e \in Peers : Goes(e)
  BY DEF Goes, NoHeader
<1> QED
  BY <1>1, <1>2, NothingComes

LEMMA AnnounceFiled ==
    ASSUME IdInv, Filed, Announce
    PROVE  Filed'
<1>1. PICK e, s, p :
        /\ e = xfer.from /\ s = Display(xfer.id) /\ p = xfer.path
        /\ xfer # Idle /\ xfer.stage = "recorded"
        /\ paths' = [paths EXCEPT ![e][s] = p]
        /\ xfer' = Idle \/ xfer' = [xfer EXCEPT !.stage = "header"]
        /\ UNCHANGED <<table, disk, mail, doomed, offers, twice>>
  BY DEF Announce, Stage, history
<1>2. /\ Typed /\ xfer \in Xfers /\ xfer.got = <<>> /\ p \in Sources /\ s \in Settings
      /\ Ours(e, s)
  <2>1. Typed /\ xfer \in Xfers /\ xfer.got = <<>> /\ p \in Sources /\ s \in Settings
    BY <1>1, XferIs DEF IdInv, Filed, Shape, Underway
  <2>2. Parcel \in offers /\ Parcel.id = xfer.id /\ xfer.id.sender = e
    BY <1>1 DEF Filed, Shape, Underway, Out, Parcel
  <2> QED
    BY <1>1, <2>1, <2>2 DEF Ours, Under
<1>3. XferStays
  <2>1. CASE xfer' = [xfer EXCEPT !.stage = "header"]
    <3>1. /\ xfer'.stage = "header" /\ xfer'.id = xfer.id /\ xfer'.from = xfer.from
          /\ xfer'.path = xfer.path /\ xfer'.hash = xfer.hash /\ xfer'.got = xfer.got
      BY <1>2, <2>1 DEF Xfers
    <3> QED
      BY <1>1, <1>2, <3>1 DEF XferStays, Out
  <2> QED
    BY <1>1, <2>1, XferSame
<1>4. \A f \in Peers, t \in Settings :
        paths'[f][t] = paths[f][t] \/ (Ours(f, t) /\ paths'[f][t] \in Sources)
  BY <1>1, <1>2 DEF Typed, Places
<1> QED
  BY <1>1, <1>3, <1>4, OtherFiled

LEMMA QuietFiled ==
    ASSUME IdInv, Filed, NEW e \in Peers,
           Break \/ Restart(e) \/ Tick(e) \/ SetBack(e) \/ UNCHANGED vars
    PROVE  Filed'
<1>1. Typed /\ DOMAIN doomed = Peers
  BY DEF IdInv, Typed, Places
<1>2. UNCHANGED <<table, mail, paths, disk, offers, twice>>
  BY DEF Break, Restart, Tick, SetBack, vars, history
<1>3. \A f \in Peers : doomed'[f] \subseteq doomed[f]
  <2>1. doomed' = doomed \/ doomed' = [doomed EXCEPT ![e] = {}]
    BY DEF Break, Restart, Tick, SetBack, vars, history
  <2> QED
    BY <1>1, <2>1
<1>4. XferStays
  <2>1. CASE Break \/ Tick(e) \/ SetBack(e) \/ UNCHANGED vars
    BY <2>1, XferSame DEF Break, Tick, SetBack, vars
  <2>2. CASE Restart(e)
    <3>1. xfer' = Idle \/ (xfer # Idle /\ xfer' = [xfer EXCEPT !.live = FALSE])
      BY <2>2 DEF Restart
    <3> QED
      BY <1>1, <3>1, XferSame, LiveStays
  <2> QED
    BY <2>1, <2>2
<1> QED
  BY <1>2, <1>3, <1>4, OtherFiled

LEMMA UserFiled ==
    ASSUME IdInv, Filed, NEW p \in Sources, PickFile(p) \/ EditFile(p)
    PROVE  Filed'
<1>1. Typed
  BY DEF IdInv
<1>2. UNCHANGED <<table, mail, paths, doomed, offers, twice>>
  BY DEF PickFile, EditFile, history
<1>3. \A f \in Peers, k \in Files : disk'[f][k] = disk[f][k]
  <2>1. disk' = disk \/ \E c : disk' = [disk EXCEPT ![Owner[p]][p] = c]
    BY DEF PickFile, EditFile
  <2>2. PICK e : e = Owner[p]
    OBVIOUS
  <2>3. \A f \in Peers, k \in Files : k # p /\ k \in Paths
    BY FileIs
  <2>4. ASSUME NEW c, disk' = [disk EXCEPT ![e][p] = c], NEW f \in Peers, NEW k \in Files
        PROVE  disk'[f][k] = disk[f][k]
    BY <1>1, <2>3, <2>4 DEF Typed, Places
  <2> QED
    BY <2>1, <2>2, <2>4
<1>4. XferStays
  <2>1. CASE PickFile(p)
    <3>1. \E h : xfer' = [from |-> Owner[p], path |-> p, stage |-> "measured", live |-> TRUE, id |-> Absent,
                          size |-> Len(h), hash |-> <<>>, data |-> <<>>, got |-> <<>>]
      BY <2>1 DEF PickFile
    <3> QED
      BY <3>1 DEF XferStays, Out
  <2>2. CASE EditFile(p)
    <3>1. xfer' = xfer \/ \E c : Stage("bytes") /\ xfer' = [xfer EXCEPT !.data = c]
      BY <2>2 DEF EditFile
    <3>2. CASE \E c : Stage("bytes") /\ xfer' = [xfer EXCEPT !.data = c]
      <4>1. PICK c : xfer' = [xfer EXCEPT !.data = c]
        BY <3>2
      <4>2. xfer # Idle /\ xfer.stage = "bytes" /\ xfer \in Xfers
        BY <1>1, <3>2, XferIs DEF Stage
      <4>3. /\ xfer'.stage = "bytes" /\ xfer'.id = xfer.id /\ xfer'.from = xfer.from
            /\ xfer'.path = xfer.path /\ xfer'.hash = xfer.hash /\ xfer'.got = xfer.got
        BY <4>1, <4>2 DEF Xfers
      <4> QED
        BY <4>2, <4>3 DEF XferStays, Out
    <3> QED
      BY <3>1, <3>2, XferSame
  <2> QED
    BY <2>1, <2>2
<1> QED
  BY <1>2, <1>3, <1>4, OtherFiled

\* A step of a transfer is about one setting.
Elsewhere(n) ==
    /\ \A e \in Peers : \A op \in Ops(table'[e]) :
         op \in Ops(table[e]) \/ op.kind # "file" \/ Display(op.id) = n
    /\ \A e \in Peers, s \in Settings : s # n => paths'[e][s] = paths[e][s]
    /\ \A e \in Peers, f \in Files : f[1] # n => disk'[e][f] = disk[e][f]
    /\ doomed' = doomed /\ mail' = mail
    /\ Out' => Display(xfer'.id) = n

LEMMA OneSetting ==
    ASSUME Filed, NEW n \in Settings, Elsewhere(n), offers \subseteq offers', twice \subseteq twice',
           Underway', Offered', \A e \in Peers : Placed(e, n)', Reused(n)' \/ Sound(n)'
    PROVE  Filed'
<1>1. ASSUME NEW e \in Peers, NEW s \in Settings, s # n PROVE Placed(e, s)'
  <2>1. Placed(e, s)
    BY DEF Filed, Shape
  <2> QED
    BY <1>1, <2>1, OfferGrows DEF Placed, Elsewhere
<1>2. Shape'
  BY <1>1, OfferGrows DEF Filed, Shape, Elsewhere
<1>3. ASSUME NEW s \in Settings, s # n, ~Reused(s)' PROVE Sound(s)'
  <2>1. Sound(s)
    BY <1>3, OfferGrows DEF Filed
  <2>2. \A e \in Peers : Headers(e, s)' \subseteq Headers(e, s)
    BY <1>3 DEF Headers, Elsewhere
  <2>3. OneHash(s)'
    BY <1>3, <2>1, <2>2 DEF Sound, OneHash
  <2>4. InHand(s)'
    BY <1>3 DEF InHand, Elsewhere
  <2>5. Arrived(s)'
    <3> SUFFICES ASSUME NEW e \in Peers, paths'[e][s] \in Files
                 PROVE  /\ paths'[e][s] \notin doomed'[e]
                        /\ \A p \in Headers(e, s)' : p.hash = disk'[e][paths'[e][s]]
      BY DEF Arrived
    <3>1. paths'[e][s] = paths[e][s] /\ paths[e][s][1] = s
      BY <1>3, FileIs DEF Elsewhere, Filed, Shape, Placed
    <3> QED
      BY <1>3, <2>1, <2>2, <3>1 DEF Sound, Arrived, Elsewhere
  <2> QED
    BY <2>3, <2>4, <2>5 DEF Sound
<1> QED
  BY <1>2, <1>3 DEF Filed

LEMMA OfferFiled ==
    ASSUME IdInv, Chron, Filed, Offer
    PROVE  Filed'
<1>1. PICK e, n, op, new :
        /\ e = xfer.from /\ n = Display(NextId(e)) /\ op = File(NextId(e), xfer.size, Held)
        /\ new = [id |-> NextId(e), name |-> SafeName[xfer.path]]
  OBVIOUS
<1>2. /\ xfer # Idle /\ xfer.stage = "measured" /\ Mint(e) /\ Spend("files")
      /\ table' = [table EXCEPT ![e] = Record(@, op)]
      /\ offers' = offers \cup {new}
      /\ xfer'  = [xfer EXCEPT !.stage = "recorded", !.hash = Held, !.id = NextId(e)]
      /\ UNCHANGED <<paths, disk, mail, doomed>>
  BY <1>1 DEF Offer, Stage
<1>3. Typed /\ e \in Peers /\ xfer \in Xfers /\ xfer.got = <<>>
  BY <1>1, <1>2, XferIs DEF IdInv, Filed, Shape, Underway
<1>4. n \in Settings
  <2>1. IdFits(NextId(e), Room')
    BY <1>2, <1>3, SpendRoom, NextIdFits DEF Typed, Rows, Clocks
  <2>2. left' \in Budget
    BY <1>2, <1>3, SpendRoom DEF Typed, Rows
  <2>3. Room' \in Int /\ Room' <= MaxSeq /\ MaxSeq \in Nat
    BY <2>2, BoundsAssumption DEF Room, Budget
  <2>4. NextId(e).sender = e /\ NextId(e).seq \in 1..MaxSeq
    BY <2>1, <2>3 DEF IdFits, Id, NextId
  <2> QED
    BY <1>1, <1>3, <2>4 DEF Display, Settings
<1>5. offers \subseteq offers' /\ twice \subseteq twice'
  BY <1>2, MintGrows
<1>6. Under(n) # {} => Reused(n)'
  <2>1. new.id = NextId(e)
    BY <1>1
  <2> QED
    BY <1>1, <1>2, <1>3, <2>1, OfferReuses
<1>7. \A f \in Peers : \A o \in Ops(table'[f]) : o \in Ops(table[f]) \/ o = op
  BY <1>2, <1>3, RecordAt
<1>8. op.kind = "file" /\ Display(op.id) = n /\ op.hash = Held /\ op.id = NextId(e)
  BY <1>1 DEF File
<1>9. /\ xfer'.stage = "recorded" /\ xfer'.id = NextId(e) /\ xfer'.from = e
      /\ xfer'.path = xfer.path /\ xfer'.hash = Held /\ xfer'.got = xfer.got
  BY <1>1, <1>2, <1>3 DEF Xfers
<1>10. Elsewhere(n)
  <2>1. Display(xfer'.id) = n
    BY <1>1, <1>9
  <2> QED
    BY <1>2, <1>7, <1>8, <2>1 DEF Elsewhere
<1>11. Underway' /\ Offered'
  <2>1. Parcel' = new /\ new.id = NextId(e) /\ NextId(e).sender = e
    BY <1>1, <1>9 DEF Parcel, NextId
  <2>2. Underway'
    BY <1>2, <1>3, <1>9, <2>1 DEF Underway, Out
  <2>3. Offered'
    BY <1>2, <1>7, <1>8, <2>1 DEF Offered, Filed, Shape
  <2> QED
    BY <2>2, <2>3
<1>12. \A f \in Peers : Placed(f, n) /\ Placed(f, n)'
  BY <1>2, <1>4, <1>5, OfferGrows DEF Filed, Shape, Placed
<1>13. ASSUME ~Reused(n)' PROVE Sound(n)'
  <2>1. Under(n) = {}
    BY <1>6, <1>13
  <2>2. \A f \in Peers : \A p \in Headers(f, n)' : p = op
    BY <1>4, <1>7, <2>1, HeadersOffered DEF Headers
  <2>3. \A f \in Peers : /\ paths'[f][n] \notin Files
                         /\ \A k \in Files : k[1] = n => k \notin doomed'[f]
    BY <1>2, <1>4, <2>1, HeadersOffered DEF Filed, Shape, Came
  <2> QED
    BY <1>8, <1>9, <2>2, <2>3 DEF Sound, OneHash, InHand, Arrived
<1> QED
  BY <1>4, <1>5, <1>10, <1>11, <1>12, <1>13, OneSetting

\* The transfer under way, and the file it fills.
LEMMA Carried ==
    ASSUME IdInv, Filed, Out, NEW to, to = Peer(xfer.from)
    PROVE  /\ Typed /\ xfer \in Xfers /\ xfer.from \in Peers /\ to \in Peers /\ to # xfer.from
           /\ xfer.id.sender = xfer.from /\ Display(xfer.id) \in Settings
           /\ Incoming \in Files /\ Incoming \in Paths /\ Incoming[1] = Display(xfer.id)
           /\ Parcel \in offers /\ Parcel \in Under(Display(xfer.id)) /\ Came(to, Incoming)
<1>1. /\ Typed /\ xfer \in Xfers /\ xfer.from \in Peers /\ Display(xfer.id) \in Settings
      /\ Incoming \in Files /\ Incoming \in Paths
      /\ Incoming[1] = Display(xfer.id) /\ Incoming[2] = SafeName[xfer.path]
  BY XferIs DEF IdInv, Out
<1>2. to \in Peers /\ to # xfer.from
  BY <1>1, PeerIs
<1>3. /\ xfer.id.sender = xfer.from /\ Parcel \in offers
      /\ Parcel.id = xfer.id /\ Parcel.name = SafeName[xfer.path]
  BY DEF Filed, Shape, Underway, Parcel
<1> QED
  BY <1>1, <1>2, <1>3 DEF Under, Came

LEMMA OpenFiled ==
    ASSUME IdInv, Chron, Filed, Open
    PROVE  Filed'
<1>1. PICK to, n, f, op :
        /\ to = Peer(xfer.from) /\ n = Display(xfer.id) /\ f = Incoming
        /\ op = File(xfer.id, xfer.size, xfer.hash)
        /\ xfer # Idle /\ xfer.stage = "header"
        /\ table' = [table EXCEPT ![to] = Record(@, op)]
        /\ disk'  = [disk EXCEPT ![to][f] = <<>>]
        /\ xfer' = [xfer EXCEPT !.stage = "bytes", !.data = Held]
        /\ UNCHANGED <<paths, mail, doomed, offers, twice>>
  BY DEF Open, Stage, history
<1>2. Out
  BY <1>1 DEF Out
<1>3. /\ Typed /\ xfer \in Xfers /\ to \in Peers /\ to # xfer.from /\ xfer.got = <<>>
      /\ n \in Settings /\ f \in Files /\ f \in Paths /\ f[1] = n /\ Parcel \in offers
      /\ Parcel.id = xfer.id
  BY <1>1, <1>2, Carried DEF Filed, Shape, Underway, Parcel
<1>4. \A e \in Peers : \A o \in Ops(table'[e]) : o \in Ops(table[e]) \/ o = op
  <2>1. table' = [table EXCEPT ![to] = Record(@, op)]
    BY <1>1
  <2> QED
    BY ONLY <1>3, <2>1, RecordAt
<1>5. op.kind = "file" /\ Display(op.id) = n /\ op.hash = xfer.hash /\ op.id = xfer.id
  BY <1>1 DEF File
<1>6. /\ xfer'.stage = "bytes" /\ xfer'.id = xfer.id /\ xfer'.from = xfer.from
      /\ xfer'.path = xfer.path /\ xfer'.hash = xfer.hash /\ xfer'.got = xfer.got
      /\ Parcel' = Parcel /\ Incoming' = f
  <2>1. /\ xfer'.stage = "bytes" /\ xfer'.id = xfer.id /\ xfer'.from = xfer.from
        /\ xfer'.path = xfer.path /\ xfer'.hash = xfer.hash /\ xfer'.got = xfer.got
    BY <1>1, <1>3 DEF Xfers
  <2> QED
    BY <1>1, <2>1 DEF Parcel, Incoming
<1>7. \A e \in Peers, k \in Files :
        disk'[e][k] = IF e = to /\ k = f THEN <<>> ELSE disk[e][k]
  BY <1>1, <1>3, FileIs DEF Typed, Places
<1>8. Elsewhere(n)
  BY <1>1, <1>3, <1>4, <1>5, <1>6, <1>7 DEF Elsewhere
<1>9. Underway' /\ Offered'
  <2>1. Underway'
    BY <1>1, <1>2, <1>6 DEF Underway, Out, Filed, Shape
  <2>2. Offered'
    BY <1>1, <1>3, <1>4, <1>5 DEF Offered, Filed, Shape
  <2> QED
    BY <2>1, <2>2
<1>10. \A e \in Peers : Placed(e, n)'
  BY <1>1, <1>3, OfferGrows DEF Filed, Shape, Placed
<1>11. ASSUME ~Reused(n)' PROVE Sound(n)'
  <2>1. OneHash(n) /\ InHand(n)
    BY <1>1, <1>3, <1>11, OfferGrows DEF Filed, Sound
  <2>2. \A e \in Peers : \A p \in Headers(e, n)' : p.hash = xfer.hash
    BY <1>1, <1>2, <1>4, <1>5, <2>1 DEF Headers, InHand
  <2>3. \A e \in Peers : /\ paths'[e][n] \notin Files
                         /\ \A k \in Files : k[1] = n => k \notin doomed'[e]
    BY <1>1, <1>2, <2>1 DEF InHand
  <2>4. disk'[Peer(xfer'.from)][Incoming'] = xfer'.got
    BY <1>1, <1>3, <1>6, <1>7
  <2> QED
    BY <1>6, <2>2, <2>3, <2>4 DEF Sound, OneHash, InHand, Arrived
<1> QED
  BY <1>1, <1>3, <1>8, <1>9, <1>10, <1>11, OneSetting

LEMMA ChunkFiled ==
    ASSUME IdInv, Filed, Chunk
    PROVE  Filed'
<1>0. PICK to, n, f : to = Peer(xfer.from) /\ n = Display(xfer.id) /\ f = Incoming
  OBVIOUS
<1>1. PICK got :
        /\ xfer # Idle /\ xfer.stage = "bytes"
        /\ \/ disk' = [disk EXCEPT ![to][f] = Absent] /\ xfer' = Idle
           \/ /\ disk' = [disk EXCEPT ![to][f] = IF disk[to][f] = Absent THEN Absent ELSE got]
              /\ xfer' = [xfer EXCEPT !.got = got]
        /\ UNCHANGED <<table, paths, mail, doomed, offers, twice>>
  <2>1. PICK got : got = Append(xfer.got, xfer.data[Len(xfer.got) + 1])
    OBVIOUS
  <2>2. /\ xfer # Idle /\ xfer.stage = "bytes"
        /\ \/ disk' = [disk EXCEPT ![to][f] = Absent] /\ xfer' = Idle
           \/ /\ disk' = [disk EXCEPT ![to][f] = IF @ = Absent THEN Absent ELSE got]
              /\ xfer' = [xfer EXCEPT !.got = got]
        /\ UNCHANGED <<table, paths, mail, doomed, history>>
    BY <1>0, <2>1 DEF Chunk, Stage, Discard
  <2> QED
    BY <2>2 DEF history
<1>2. Out
  BY <1>1 DEF Out
<1>3. /\ Typed /\ xfer \in Xfers /\ to \in Peers /\ xfer.got \in Seq(Chunks)
      /\ n \in Settings /\ f \in Files /\ f \in Paths /\ f[1] = n
  BY <1>0, <1>2, Carried DEF Xfers
<1>4. \A e \in Peers, k \in Files :
        disk'[e][k] = IF e = to /\ k = f THEN disk'[to][f] ELSE disk[e][k]
  BY <1>1, <1>3, FileIs DEF Typed, Places
<1>5. ASSUME xfer' # Idle
      PROVE  /\ xfer'.stage = "bytes" /\ xfer'.id = xfer.id /\ xfer'.from = xfer.from
             /\ xfer'.path = xfer.path /\ xfer'.hash = xfer.hash /\ xfer'.got = got
             /\ Parcel' = Parcel /\ Incoming' = f
             /\ disk[to][f] # Absent => disk'[to][f] = got
  <2>1. /\ xfer' = [xfer EXCEPT !.got = got]
        /\ disk' = [disk EXCEPT ![to][f] = IF disk[to][f] = Absent THEN Absent ELSE got]
    BY <1>1, <1>5
  <2>2. disk[to][f] # Absent => disk'[to][f] = got
    BY <1>3, <2>1 DEF Typed, Places
  <2>3. /\ xfer'.stage = "bytes" /\ xfer'.id = xfer.id /\ xfer'.from = xfer.from
        /\ xfer'.path = xfer.path /\ xfer'.hash = xfer.hash /\ xfer'.got = got
    BY <1>1, <1>3, <2>1 DEF Xfers
  <2> QED
    BY <1>0, <2>2, <2>3 DEF Parcel, Incoming
<1>6. \A s : \A e \in Peers : Headers(e, s)' = Headers(e, s)
  BY <1>1 DEF Headers
<1>7. Elsewhere(n)
  BY <1>0, <1>1, <1>3, <1>4, <1>5 DEF Elsewhere, Out
<1>8. Underway' /\ Offered'
  BY <1>1, <1>2, <1>5 DEF Underway, Out, Offered, Filed, Shape
<1>9. \A e \in Peers : Placed(e, n)'
  BY <1>1, <1>3, OfferGrows DEF Filed, Shape, Placed
<1>10. ASSUME ~Reused(n)' PROVE Sound(n)'
  <2>1. OneHash(n) /\ InHand(n)
    BY <1>1, <1>3, <1>10, OfferGrows DEF Filed, Sound
  <2>2. /\ \A e \in Peers : \A p \in Headers(e, n) : p.hash = xfer.hash
        /\ \A e \in Peers : /\ paths[e][n] \notin Files
                            /\ \A k \in Files : k[1] = n => k \notin doomed[e]
        /\ disk[to][f] = xfer.got
    BY <1>0, <1>1, <1>2, <2>1 DEF InHand
  <2>3. disk[to][f] # Absent
    BY <1>3, <2>2, SentinelsAssumption
  <2>4. InHand(n)'
    BY <1>0, <1>1, <1>5, <1>6, <2>2, <2>3 DEF InHand, Out
  <2>5. OneHash(n)'
    BY <1>6, <2>1 DEF OneHash
  <2> QED
    BY <1>1, <2>2, <2>4, <2>5 DEF Sound, Arrived
<1> QED
  BY <1>1, <1>3, <1>7, <1>8, <1>9, <1>10, OneSetting

LEMMA FinishFiled ==
    ASSUME IdInv, Chron, Filed, Finish
    PROVE  Filed'
<1>1. PICK to, n, f :
        /\ to = Peer(xfer.from) /\ n = Display(xfer.id) /\ f = Incoming
        /\ xfer # Idle /\ xfer.stage = "bytes"
        /\ \/ disk' = [disk EXCEPT ![to][f] = Absent] /\ paths' = paths
           \/ xfer.got = xfer.hash /\ paths' = [paths EXCEPT ![to][n] = f] /\ disk' = disk
        /\ xfer' = Idle
        /\ UNCHANGED <<table, mail, doomed, offers, twice>>
  BY DEF Finish, Stage, Discard, history
<1>2. Out
  BY <1>1 DEF Out
<1>3. /\ Typed /\ to \in Peers /\ n \in Settings /\ f \in Files /\ f \in Paths /\ f[1] = n
      /\ Came(to, f)
  BY <1>1, <1>2, Carried
<1>4. /\ \A e \in Peers, k \in Files :
           disk'[e][k] = IF e = to /\ k = f THEN disk'[to][f] ELSE disk[e][k]
      /\ \A e \in Peers, s \in Settings :
           paths'[e][s] = IF e = to /\ s = n THEN paths'[to][n] ELSE paths[e][s]
  BY <1>1, <1>3, FileIs DEF Typed, Places
<1>5. \A s : \A e \in Peers : Headers(e, s)' = Headers(e, s)
  BY <1>1 DEF Headers
<1>6. Elsewhere(n) /\ Underway' /\ Offered'
  BY <1>1, <1>3, <1>4 DEF Elsewhere, Out, Underway, Offered, Filed, Shape
<1>7. \/ paths' = paths
      \/ paths'[to][n] = f /\ disk'[to][f] = disk[to][f] /\ xfer.got = xfer.hash
  BY <1>1, <1>3 DEF Typed, Places
<1>8. ASSUME NEW e \in Peers PROVE Placed(e, n)'
  <2>1. Placed(e, n) /\ \A k : Ours(e, k) => Ours(e, k)'
    BY <1>1, <1>3, OfferGrows DEF Filed, Shape
  <2>2. \A k : Came(e, k) => Came(e, k)'
    BY <1>1, OfferGrows
  <2>3. paths'[e][n] = paths[e][n] \/ (e = to /\ paths'[e][n] = f)
    BY <1>3, <1>4, <1>7
  <2> QED
    BY <1>3, <2>1, <2>2, <2>3 DEF Placed
<1>9. ASSUME ~Reused(n)' PROVE Sound(n)'
  <2>1. OneHash(n) /\ InHand(n)
    BY <1>1, <1>3, <1>9, OfferGrows DEF Filed, Sound
  <2>2. /\ \A e \in Peers : \A p \in Headers(e, n) : p.hash = xfer.hash
        /\ \A e \in Peers : /\ paths[e][n] \notin Files
                            /\ \A k \in Files : k[1] = n => k \notin doomed[e]
        /\ disk[to][f] = xfer.got
    BY <1>1, <1>2, <2>1 DEF InHand
  <2>3. Arrived(n)'
    <3> SUFFICES ASSUME NEW e \in Peers, paths'[e][n] \in Files
                 PROVE  /\ paths'[e][n] \notin doomed'[e]
                        /\ \A p \in Headers(e, n)' : p.hash = disk'[e][paths'[e][n]]
      BY DEF Arrived
    <3>1. e = to /\ paths'[e][n] = f /\ disk'[to][f] = disk[to][f] /\ xfer.got = xfer.hash
      BY <1>3, <1>4, <1>7, <2>2
    <3> QED
      BY <1>1, <1>3, <1>5, <2>2, <3>1
  <2>4. OneHash(n)'
    BY <1>5, <2>1 DEF OneHash
  <2> QED
    BY <1>1, <2>3, <2>4 DEF Sound, InHand, Out
<1> QED
  BY <1>1, <1>3, <1>6, <1>8, <1>9, OneSetting

LEMMA FiledStep == IdInv /\ Chron /\ Filed /\ [Next]_vars => Filed'
<1> SUFFICES ASSUME IdInv, Chron, Filed, [Next]_vars PROVE Filed'
  OBVIOUS
<1>1. CASE Attachment
  <2>1. CASE Break
    <3>1. xfer.from \in Peers
      BY <2>1, XferIs DEF Break, IdInv
    <3> QED
      BY <2>1, <3>1, QuietFiled
  <2> QED
    BY <1>1, <2>1, OfferFiled, AnnounceFiled, OpenFiled, ChunkFiled, FinishFiled DEF Attachment
<1>2. ASSUME NEW e \in Peers,
             \/ Write(e) \/ Accept(e)
             \/ Clear(e) \/ Forget(e) \/ Wipe(e) \/ Unlink(e)
             \/ Restart(e) \/ Tick(e) \/ SetBack(e)
      PROVE  Filed'
  BY <1>2, WriteFiled, AcceptFiled, RemovalFiled, UnlinkFiled, QuietFiled
<1>3. ASSUME NEW p \in Sources, PickFile(p) \/ EditFile(p) PROVE Filed'
  BY <1>3, UserFiled
<1>4. CASE UNCHANGED vars
  BY <1>4, XferSame, OtherFiled DEF vars, history
<1> QED
  BY <1>1, <1>2, <1>3, <1>4 DEF Next

LEMMA FiledInit == Init => Filed
<1> SUFFICES ASSUME Init PROVE Filed
  OBVIOUS
<1>1. /\ \A e \in Peers : table[e] = <<>> /\ mail[e] = {} /\ doomed[e] = {}
      /\ \A e \in Peers, s \in Settings : paths[e][s] = Absent
      /\ xfer = Idle
  BY DEF Init
<1>2. \A e \in Peers, s \in Settings : Headers(e, s) = {}
  BY <1>1, EmptyFits DEF Headers
<1>3. Shape
  BY <1>1, EmptyFits DEF Shape, Underway, Out, Offered, Placed
<1>4. ASSUME NEW s \in Settings PROVE Sound(s)
  BY <1>1, <1>2, FileIs DEF Sound, OneHash, InHand, Arrived, Out
<1> QED
  BY <1>3, <1>4 DEF Filed

\* A path recorded for an attachment that came in leads to bytes with the hash
\* its header gave, through every cut, removal, restart and change of the file,
\* as long as no other attachment has the setting: no id handed out twice, no
\* sequence number used again, no second sender with the same four bytes
\* (files::receive, file_key, Display).
THEOREM PathsAreTrue == Spec => []PathTruthful
<1>1. Init => IdInv /\ Chron /\ Filed
  BY IdInit, ChronInit, FiledInit
<1>2. (IdInv /\ Chron /\ Filed) /\ [Next]_vars => (IdInv /\ Chron /\ Filed)'
  BY IdStep, ChronStep, FiledStep
<1>3. IdInv /\ Filed => PathTruthful
  <2> SUFFICES ASSUME IdInv, Filed, NEW e \in Peers, NEW op \in Ops(table[e]),
                      op.kind = "file", op.id.sender # e, paths[e][Display(op.id)] # Absent,
                      ~Reused(Display(op.id))
               PROVE  disk[e][paths[e][Display(op.id)]] = op.hash
    BY DEF PathTruthful
  <2>1. PICK s : s = Display(op.id)
    OBVIOUS
  <2>2. s \in Settings
    BY <2>1, SettingFits DEF IdInv, Typed, Rows, TableFits
  <2>3. Placed(e, s) /\ Sound(s) /\ op \in Headers(e, s)
    BY <2>1, <2>2 DEF Filed, Shape, Headers
  <2>4. \E o \in Under(s) : o.id.sender # e
    BY <2>1 DEF Filed, Shape, Offered, Under
  <2>5. paths[e][s] \in Files
    BY <2>1, <2>3, <2>4 DEF Placed, Ours, Reused
  <2> QED
    BY <2>1, <2>3, <2>5 DEF Sound, Arrived
<1> QED
  BY <1>1, <1>2, <1>3, PTL DEF Spec

(***************************************************************************)
(* Files without a message.  Landing: the file of the transfer under way   *)
(* has a message on its side already, so nothing is lost when its path is  *)
(* recorded.  HeaderOnly: the receiver may have dropped the header, but    *)
(* only for another op with the very same id.                              *)
(***************************************************************************)
Owned(e, f) ==
    \/ f[1] \in Named(e) /\ paths[e][f[1]] = f
    \/ f \in Receiving(e) \cup doomed[e] \cup stray[e]
    \/ Contested(f[1])

Landing ==
    \A e \in Peers : \A f \in Receiving(e) :
      f[1] \in Named(e) \/ f \in stray[e] \/ Contested(f[1])

HeaderOnly ==
    Out => \A e \in Peers : \A op \in Ops(table[e]) \cup mail[e] :
             op.kind # "file" /\ op.id = xfer.id => xfer.from \in twice

Accounted == OrphanNeedsCause /\ Landing /\ HeaderOnly

\* What every step does about one file.
Minds(e, f) ==
    /\ disk'[e][f] # Absent => disk[e][f] # Absent \/ f \in Receiving(e)'
    /\ f \in Receiving(e)' => f \in Receiving(e) \/ f[1] \in Named(e)' \/ Contested(f[1])'
    /\ f \in Receiving(e) /\ disk'[e][f] # Absent =>
         \/ f \in Receiving(e)' \cup stray'[e]
         \/ f[1] \in Named(e) => f[1] \in Named(e)' /\ paths'[e][f[1]] = f
    /\ f[1] \in Named(e) =>
         \/ f[1] \in Named(e)'
         \/ (paths[e][f[1]] = f => f \in doomed'[e]) /\ (f \in Receiving(e)' => f \in stray'[e])
    /\ f[1] \in Named(e) /\ paths[e][f[1]] = f =>
         paths'[e][f[1]] = f \/ f \in doomed'[e] \/ Contested(f[1])'
    /\ f \in doomed[e] /\ disk'[e][f] # Absent => f \in doomed'[e] \cup stray'[e]
    /\ stray[e] \subseteq stray'[e]

LEMMA AllMinded ==
    ASSUME Typed', OrphanNeedsCause, Landing, offers \subseteq offers', twice \subseteq twice',
           \A e \in Peers, f \in Files : Minds(e, f)
    PROVE  OrphanNeedsCause' /\ Landing'
<1>0. \A s : Contested(s) => Contested(s)'
  BY OfferGrows
<1>1. ASSUME NEW e \in Peers, NEW f \in Files, disk'[e][f] # Absent PROVE Owned(e, f)'
  <2>1. Minds(e, f)
    OBVIOUS
  <2>2. CASE disk[e][f] = Absent
    BY <1>1, <2>1, <2>2 DEF Minds, Owned
  <2>3. CASE disk[e][f] # Absent
    <3>1. Owned(e, f)
      BY <2>3 DEF OrphanNeedsCause, Owned
    <3>2. CASE f[1] \in Named(e) /\ paths[e][f[1]] = f
      BY <2>1, <3>2 DEF Minds, Owned
    <3>3. CASE f \in Receiving(e)
      <4>1. f[1] \in Named(e) \/ f \in stray[e] \/ Contested(f[1])
        BY <3>3 DEF Landing
      <4> QED
        BY <1>0, <1>1, <2>1, <3>3, <4>1 DEF Minds, Owned
    <3>4. CASE f \in doomed[e] \cup stray[e] \/ Contested(f[1])
      BY <1>0, <1>1, <2>1, <3>4 DEF Minds, Owned
    <3> QED
      BY <3>1, <3>2, <3>3, <3>4 DEF Owned
  <2> QED
    BY <2>2, <2>3
<1>2. ASSUME NEW e \in Peers, NEW f \in Receiving(e)'
      PROVE  f[1] \in Named(e)' \/ f \in stray'[e] \/ Contested(f[1])'
  <2>1. f \in Files
    <3>1. Stage("bytes")' /\ f = FileName(xfer'.id, SafeName[xfer'.path])
      BY <1>2 DEF Receiving, Incoming
    <3>2. xfer'.path \in Sources
      BY <3>1 DEF Typed, Places, Xfers, Stage
    <3>3. IdFits(xfer'.id, Room')
      BY <3>1 DEF Typed, Rows, Stage
    <3>4. xfer'.id.sender \in Peers /\ xfer'.id.seq \in 1..MaxSeq
      BY <3>3, BoundsAssumption DEF IdFits, Id, Typed, Rows, Room, Budget
    <3>5. Display(xfer'.id) \in Settings
      BY <3>4 DEF Display, Settings
    <3> QED
      BY <3>1, <3>2, <3>5 DEF FileName, Files
  <2>2. Minds(e, f)
    BY <2>1
  <2>3. f \in Receiving(e) => f[1] \in Named(e) \/ f \in stray[e] \/ Contested(f[1])
    BY DEF Landing
  <2> QED
    BY <1>0, <2>2, <2>3 DEF Minds
<1> QED
  BY <1>1, <1>2 DEF OrphanNeedsCause, Owned, Landing

OutStays == Out' => Out /\ xfer'.id = xfer.id /\ xfer'.from = xfer.from

LEMMA HeaderOnlyStays ==
    ASSUME HeaderOnly, OutStays, twice \subseteq twice',
           \A e \in Peers : \A o \in Ops(table'[e]) \cup mail'[e] :
              \/ o \in Ops(table[e]) \cup mail[e] \/ o.kind = "file"
              \/ Out /\ o.id = xfer.id => xfer.from \in twice'
    PROVE  HeaderOnly'
BY DEF HeaderOnly, OutStays

LEMMA NamedGrows ==
    ASSUME NEW e, \A o \in Ops(table[e]) : o \in Ops(table'[e])
    PROVE  Named(e) \subseteq Named(e)'
BY DEF Named

\* Record takes nothing away.
LEMMA RecordLosesNone ==
    ASSUME Typed, NEW f, NEW op, table' = [table EXCEPT ![f] = Record(@, op)], NEW e \in Peers
    PROVE  \A o \in Ops(table[e]) : o \in Ops(table'[e])
<1>1. DOMAIN table = Peers /\ table[e] \in Seq(Ops(table[e]))
  BY DEF Typed, Rows, TableFits
<1>2. CASE e = f
  <2>1. table'[e] = Record(table[e], op)
    BY <1>1, <1>2
  <2> QED
    BY <1>1, <2>1, AppendOps DEF Record
<1>3. CASE e # f
  <2>1. table'[e] = table[e]
    BY <1>1, <1>3
  <2> QED
    BY <2>1
<1> QED
  BY <1>2, <1>3

\* Steps that move no file and no bytes.
LEMMA StillMinds ==
    ASSUME UNCHANGED <<disk, paths, doomed, stray, xfer>>, NEW e \in Peers, NEW f,
           Named(e) \subseteq Named(e)'
    PROVE  Minds(e, f)
<1>1. Receiving(e)' = Receiving(e)
  BY DEF Receiving, Stage, Incoming
<1> QED
  BY <1>1 DEF Minds

LEMMA WriteKept ==
    ASSUME IdInv, Chron, Filed, Accounted, Typed', NEW e \in Peers, Write(e)
    PROVE  Accounted'
<1>1. PICK op \in NewOps(e) :
        /\ Mint(e) /\ table' = [table EXCEPT ![e] = Record(@, op)]
        /\ mail'  = [mail EXCEPT ![Peer(e)] = @ \cup {op}]
        /\ UNCHANGED <<xfer, paths, disk, doomed, stray, offers>>
  BY DEF Write
<1>2. Typed /\ DOMAIN mail = Peers
  BY DEF IdInv, Typed, Rows
<1>3. op.id = NextId(e) /\ NextId(e).sender = e
  BY DEF NewOps, Chat, Edit, Delete, React, NextId
<1>4. twice \subseteq twice' /\ (NextId(e) \in Range(minted[e]) => e \in twice')
  BY <1>1 DEF Mint
<1>5. ASSUME Out, op.id = xfer.id PROVE xfer.from \in twice'
  <2>1. xfer.id.sender = xfer.from /\ xfer.id \in Range(minted[xfer.id.sender])
    BY <1>5 DEF Filed, Shape, Underway, Chron, Out
  <2> QED
    BY <1>3, <1>4, <1>5, <2>1
<1>6. \A f \in Peers : \A o \in Ops(table'[f]) : o \in Ops(table[f]) \/ o = op
  BY <1>1, <1>2, RecordAt
<1>7. \A f \in Peers : \A o \in mail'[f] : o \in mail[f] \/ o = op
  BY <1>1, <1>2
<1>8. HeaderOnly'
  BY <1>1, <1>4, <1>5, <1>6, <1>7, HeaderOnlyStays DEF Accounted, OutStays, Out
<1>9. \A f \in Peers, k \in Files : Minds(f, k)
  BY <1>1, <1>2, RecordLosesNone, NamedGrows, StillMinds
<1> QED
  BY <1>1, <1>4, <1>8, <1>9, AllMinded DEF Accounted

LEMMA AcceptKept ==
    ASSUME IdInv, Accounted, Typed', NEW e \in Peers, Accept(e)
    PROVE  Accounted'
<1>1. PICK op \in mail[e] :
        /\ table' = [table EXCEPT ![e] = Record(@, op)]
        /\ UNCHANGED <<paths, disk, mail, xfer, doomed, stray, offers, twice>>
  BY DEF Accept, history
<1>2. Typed
  BY DEF IdInv
<1>3. \A f \in Peers : \A o \in Ops(table'[f]) : o \in Ops(table[f]) \/ (f = e /\ o = op)
  BY <1>1, <1>2, RecordAt
<1>4. HeaderOnly'
  BY <1>1, <1>3, HeaderOnlyStays DEF Accounted, OutStays, Out
<1>5. \A f \in Peers, k \in Files : Minds(f, k)
  BY <1>1, <1>2, RecordLosesNone, NamedGrows, StillMinds
<1> QED
  BY <1>1, <1>4, <1>5, AllMinded DEF Accounted

LEMMA OfferKept ==
    ASSUME IdInv, Chron, Accounted, Typed', Offer
    PROVE  Accounted'
<1>1. PICK e, op : e = xfer.from /\ op = File(NextId(e), xfer.size, Held)
  OBVIOUS
<1>2. /\ xfer # Idle /\ xfer.stage = "measured" /\ Mint(e)
      /\ table' = [table EXCEPT ![e] = Record(@, op)]
      /\ xfer'  = [xfer EXCEPT !.stage = "recorded", !.hash = Held, !.id = NextId(e)]
      /\ offers \subseteq offers'
      /\ UNCHANGED <<paths, disk, mail, doomed, stray>>
  BY <1>1 DEF Offer, Stage
<1>3. Typed /\ e \in Peers /\ xfer \in Xfers
  BY <1>1, <1>2, XferIs DEF IdInv
<1>4. xfer'.stage = "recorded" /\ xfer'.id = NextId(e) /\ xfer'.from = e
  BY <1>1, <1>2, <1>3 DEF Xfers
<1>5. \A f \in Peers : \A o \in Ops(table'[f]) : o \in Ops(table[f]) \/ o.kind = "file"
  <2>1. op.kind = "file"
    BY <1>1 DEF File
  <2>2. \A f \in Peers : \A o \in Ops(table'[f]) : o \in Ops(table[f]) \/ o = op
    BY <1>2, <1>3, RecordAt
  <2> QED
    BY <2>1, <2>2
<1>6. twice \subseteq twice' /\ (NextId(e) \in Range(minted[e]) => e \in twice')
  BY <1>2 DEF Mint
<1>7. ASSUME NEW f \in Peers, NEW o \in Ops(table[f]) \cup mail[f], o.id = NextId(e)
      PROVE  e \in twice'
  <2>1. o.id \in Range(minted[o.id.sender])
    BY DEF Chron, OpOK
  <2>2. o.id.sender = e
    BY <1>7 DEF NextId
  <2> QED
    BY <1>6, <1>7, <2>1, <2>2
<1>8. HeaderOnly'
  BY <1>2, <1>4, <1>5, <1>7 DEF HeaderOnly
<1>9. ASSUME NEW f \in Peers, NEW k \in Files PROVE Minds(f, k)
  <2>1. Receiving(f) = {} /\ Receiving(f)' = {}
    BY <1>2, <1>4 DEF Receiving, Stage
  <2>2. Named(f) \subseteq Named(f)'
    BY <1>2, <1>3, RecordLosesNone, NamedGrows
  <2> QED
    BY <1>2, <2>1, <2>2 DEF Minds
<1> QED
  BY <1>2, <1>6, <1>8, <1>9, AllMinded DEF Accounted

LEMMA OpenKept ==
    ASSUME IdInv, Filed, Accounted, Typed', Open
    PROVE  Accounted'
<1>0. PICK to, n, g, op :
        /\ to = Peer(xfer.from) /\ n = Display(xfer.id) /\ g = Incoming
        /\ op = File(xfer.id, xfer.size, xfer.hash)
  OBVIOUS
<1>1. /\ xfer # Idle /\ xfer.stage = "header"
      /\ table' = [table EXCEPT ![to] = Record(@, op)]
      /\ disk'  = [disk EXCEPT ![to][g] = <<>>]
      /\ xfer' = [xfer EXCEPT !.stage = "bytes", !.data = Held]
      /\ Held # Absent
      /\ UNCHANGED <<paths, mail, doomed, offers, twice, stray>>
  BY <1>0 DEF Open, Stage, history
<1>2. Out
  BY <1>1 DEF Out
<1>3. /\ Typed /\ xfer \in Xfers /\ to \in Peers /\ xfer.id.sender = xfer.from
      /\ g \in Files /\ g \in Paths /\ g[1] = n /\ Parcel \in Under(n) /\ Parcel.id = xfer.id
  BY <1>0, <1>2, Carried DEF Parcel
<1>4. /\ xfer' # Idle /\ xfer'.stage = "bytes" /\ xfer'.id = xfer.id /\ xfer'.from = xfer.from
      /\ Incoming' = g
  <2>1. Held \in Seq(Chunks)
    BY <1>1, <1>3, HeldIs
  <2>2. PICK y \in Xfers : y = [xfer EXCEPT !.stage = "bytes"]
    BY <1>3, XferMoves DEF Stages
  <2>3. /\ y.stage = "bytes" /\ y.id = xfer.id /\ y.from = xfer.from /\ y.path = xfer.path
    BY <1>3, <2>2 DEF Xfers
  <2>4. xfer' = [y EXCEPT !.data = Held]
    BY <1>1, <1>3, <2>2 DEF Xfers
  <2>5. /\ xfer' \in Xfers /\ xfer'.stage = "bytes" /\ xfer'.id = xfer.id /\ xfer'.from = xfer.from
        /\ xfer'.path = xfer.path
    BY <2>1, <2>3, <2>4, XferMoves
  <2> QED
    BY <1>0, <2>5, SentinelsAssumption DEF Incoming
<1>5. \A f \in Peers : \A o \in Ops(table'[f]) : o \in Ops(table[f]) \/ o = op
  <2>1. table' = [table EXCEPT ![to] = Record(@, op)]
    BY <1>1
  <2> QED
    BY ONLY <1>3, <2>1, RecordAt
<1>6. HeaderOnly'
  <2>1. op.kind = "file"
    BY <1>0 DEF File
  <2>2. OutStays
    BY <1>2, <1>4 DEF OutStays
  <2> QED
    BY <1>1, <1>5, <2>1, <2>2, HeaderOnlyStays DEF Accounted
<1>7. \A f \in Peers, k \in Files :
        disk'[f][k] = IF f = to /\ k = g THEN <<>> ELSE disk[f][k]
  BY <1>1, <1>3, FileIs DEF Typed, Places
<1>8. n \in Named(to)' \/ Contested(n)'
  <2>1. DOMAIN table = Peers /\ table[to] \in Seq(Ops(table[to]))
    BY <1>3 DEF Typed, Rows, TableFits
  <2>2. table'[to] = Record(table[to], op) /\ op.id = xfer.id /\ op.kind = "file"
    BY <1>0, <1>1, <1>3, <2>1 DEF File
  <2>3. CASE Known(table[to], op.id)
    <3>1. PICK o \in Ops(table[to]) : o.id = xfer.id
      BY <2>2, <2>3 DEF Known
    <3>2. table'[to] = table[to]
      BY <2>2, <2>3 DEF Record
    <3>3. CASE o.kind = "file"
      BY <1>0, <3>1, <3>2, <3>3 DEF Named
    <3>4. CASE o.kind # "file"
      <4>1. xfer.from \in twice
        BY <1>2, <1>3, <3>1, <3>4 DEF Accounted, HeaderOnly
      <4>2. MintedTwice(n)
        BY <1>3, <4>1 DEF MintedTwice
      <4> QED
        BY <1>1, <4>2, OfferGrows DEF Contested
    <3> QED
      BY <3>3, <3>4
  <2>4. CASE ~Known(table[to], op.id)
    <3>1. op \in Ops(table'[to])
      BY <2>1, <2>2, <2>4, AppendOps DEF Record
    <3> QED
      BY <1>0, <2>2, <3>1 DEF Named
  <2> QED
    BY <2>3, <2>4
<1>9. ASSUME NEW f \in Peers, NEW k \in Files PROVE Minds(f, k)
  <2>1. Receiving(f) = {} /\ Receiving(f)' = IF f = to THEN {g} ELSE {}
    BY <1>0, <1>1, <1>4 DEF Receiving, Stage
  <2>2. Named(f) \subseteq Named(f)'
    <3>1. table' = [table EXCEPT ![to] = Record(@, op)]
      BY <1>1
    <3> QED
      BY ONLY <1>3, <3>1, RecordLosesNone, NamedGrows, f \in Peers
  <2>3. disk'[f][k] # Absent => disk[f][k] # Absent \/ k \in Receiving(f)'
    BY <1>7, <2>1
  <2> QED
    BY <1>1, <1>3, <1>8, <2>1, <2>2, <2>3 DEF Minds
<1> QED
  BY <1>1, <1>6, <1>9, AllMinded DEF Accounted

\* A path that is recorded over a file that came in is that of an attachment of
\* another name or sender.
LEMMA Overwritten ==
    ASSUME IdInv, Filed, Out, NEW e \in Peers, NEW f \in Files, f[1] = Display(xfer.id),
           paths[e][f[1]] = f, e = xfer.from \/ f # Incoming
    PROVE  Contested(f[1])
<1>1. Placed(e, f[1])
  BY FileIs DEF Filed, Shape
<1>2. PICK o \in Under(f[1]) : o.name = f[2] /\ o.id.sender # e
  BY <1>1, FileIs DEF Placed, Came
<1>3. /\ Parcel \in Under(f[1]) /\ Parcel.id.sender = xfer.from /\ Incoming \in Files
      /\ Incoming[1] = f[1] /\ Incoming[2] = Parcel.name
  BY Carried DEF Parcel, Incoming, FileName
<1>4. CASE e = xfer.from
  BY <1>2, <1>3, <1>4 DEF Contested
<1>5. CASE f # Incoming
  <2>1. f[2] # Incoming[2]
    BY <1>3, <1>5 DEF Files
  <2> QED
    BY <1>2, <1>3, <2>1 DEF Contested
<1> QED
  BY <1>4, <1>5

LEMMA AnnounceKept ==
    ASSUME IdInv, Filed, Accounted, Typed', Announce
    PROVE  Accounted'
<1>1. PICK e, n, p :
        /\ e = xfer.from /\ n = Display(xfer.id) /\ p = xfer.path
        /\ xfer # Idle /\ xfer.stage = "recorded"
        /\ paths' = [paths EXCEPT ![e][n] = p]
        /\ xfer' = Idle \/ xfer' = [xfer EXCEPT !.stage = "header"]
        /\ UNCHANGED <<table, disk, mail, doomed, stray, offers, twice>>
  BY DEF Announce, Stage, history
<1>2. Typed /\ xfer \in Xfers /\ Out
  BY <1>1, XferIs DEF IdInv, Out
<1>3. xfer' = Idle \/ (xfer'.stage = "header" /\ xfer'.id = xfer.id /\ xfer'.from = xfer.from)
  BY <1>1, <1>2 DEF Xfers
<1>4. HeaderOnly'
  BY <1>1, <1>3, HeaderOnlyStays DEF Accounted, OutStays, Out
<1>5. ASSUME NEW f \in Peers, NEW k \in Files PROVE Minds(f, k)
  <2>1. Receiving(f) = {} /\ Receiving(f)' = {}
    BY <1>1, <1>3 DEF Receiving, Stage
  <2>2. paths[f][k[1]] = k => paths'[f][k[1]] = k \/ Contested(k[1])'
    <3>1. paths'[f][k[1]] = paths[f][k[1]] \/ (f = e /\ k[1] = n)
      BY <1>1, <1>2, FileIs DEF Typed, Places
    <3>2. f = e /\ k[1] = n /\ paths[f][k[1]] = k => Contested(k[1])
      BY <1>1, <1>2, Overwritten
    <3> QED
      BY <1>1, <3>1, <3>2, OfferGrows
  <2>3. Named(f)' = Named(f)
    BY <1>1 DEF Named
  <2> QED
    BY <1>1, <2>1, <2>2, <2>3 DEF Minds
<1> QED
  BY <1>1, <1>4, <1>5, AllMinded DEF Accounted

LEMMA ChunkKept ==
    ASSUME IdInv, Filed, Accounted, Typed', Chunk
    PROVE  Accounted'
<1>0. PICK to, n, g, got :
        /\ to = Peer(xfer.from) /\ n = Display(xfer.id) /\ g = Incoming
        /\ got = Append(xfer.got, xfer.data[Len(xfer.got) + 1])
  OBVIOUS
<1>1. /\ xfer # Idle /\ xfer.stage = "bytes" /\ Len(xfer.got) < Len(xfer.data)
      /\ \/ disk' = [disk EXCEPT ![to][g] = Absent] /\ xfer' = Idle
         \/ /\ disk' = [disk EXCEPT ![to][g] = IF @ = Absent THEN Absent ELSE got]
            /\ xfer' = [xfer EXCEPT !.got = got]
      /\ UNCHANGED <<table, paths, mail, doomed, offers, twice, stray>>
  BY <1>0 DEF Chunk, Stage, Discard, history
<1>2. /\ Typed /\ xfer \in Xfers /\ to \in Peers /\ g \in Files /\ g \in Paths
      /\ xfer.got \in Seq(Chunks) /\ xfer.data \in Seq(Chunks)
  <2>1. Out
    BY <1>1 DEF Out
  <2> QED
    BY <1>0, <2>1, Carried DEF Xfers
<1>3. got \in Seq(Chunks)
  <2>1. xfer.data[Len(xfer.got) + 1] \in Chunks
    BY <1>1, <1>2
  <2> QED
    BY <1>0, <1>2, <2>1
<1>4. \/ disk' = [disk EXCEPT ![to][g] = Absent] /\ xfer' = Idle
      \/ /\ xfer' # Idle /\ xfer'.stage = "bytes" /\ xfer'.id = xfer.id /\ xfer'.from = xfer.from
         /\ xfer'.path = xfer.path
         /\ disk' = [disk EXCEPT ![to][g] = IF @ = Absent THEN Absent ELSE got]
  <2>1. CASE xfer' = [xfer EXCEPT !.got = got]
    <3>1. /\ xfer' \in Xfers /\ xfer'.stage = xfer.stage /\ xfer'.id = xfer.id
          /\ xfer'.from = xfer.from /\ xfer'.path = xfer.path
      BY <1>2, <1>3, <2>1, XferMoves
    <3> QED
      BY <1>1, <3>1, SentinelsAssumption
  <2> QED
    BY <1>1, <2>1
<1>5. HeaderOnly'
  BY <1>1, <1>4, HeaderOnlyStays DEF Accounted, OutStays, Out
<1>6. ASSUME NEW f \in Peers, NEW k \in Files PROVE Minds(f, k)
  <2>1. Receiving(f) = (IF f = to THEN {g} ELSE {}) /\ (Receiving(f)' = Receiving(f) \/ xfer' = Idle)
    BY <1>0, <1>1, <1>4 DEF Receiving, Stage, Incoming
  <2>2. xfer' = Idle => Receiving(f)' = {}
    BY DEF Receiving, Stage
  <2>3. /\ disk'[f][k] # Absent => disk[f][k] # Absent
        /\ xfer' = Idle /\ f = to /\ k = g => disk'[f][k] = Absent
    <3>1. f \in DOMAIN disk /\ k \in DOMAIN disk[f] /\ to \in DOMAIN disk /\ g \in DOMAIN disk[to]
      BY <1>2, FileIs DEF Typed, Places
    <3>2. CASE disk' = [disk EXCEPT ![to][g] = Absent] /\ xfer' = Idle
      BY <3>1, <3>2
    <3>3. CASE /\ xfer' # Idle
               /\ disk' = [disk EXCEPT ![to][g] = IF @ = Absent THEN Absent ELSE got]
      BY <3>1, <3>3
    <3> QED
      BY <1>4, <3>2, <3>3
  <2>4. Named(f)' = Named(f)
    BY <1>1 DEF Named
  <2> QED
    BY <1>1, <2>1, <2>2, <2>3, <2>4 DEF Minds
<1> QED
  BY <1>1, <1>5, <1>6, AllMinded DEF Accounted

LEMMA FinishKept ==
    ASSUME IdInv, Filed, Accounted, Typed', Finish
    PROVE  Accounted'
<1>0. PICK to, n, g : to = Peer(xfer.from) /\ n = Display(xfer.id) /\ g = Incoming
  OBVIOUS
<1>1. /\ xfer # Idle /\ xfer.stage = "bytes"
      /\ \/ disk' = [disk EXCEPT ![to][g] = Absent] /\ paths' = paths
         \/ paths' = [paths EXCEPT ![to][n] = g] /\ disk' = disk
      /\ xfer' = Idle
      /\ UNCHANGED <<table, mail, doomed, offers, twice, stray>>
  BY <1>0 DEF Finish, Stage, Discard, history
<1>2. Out
  BY <1>1 DEF Out
<1>3. Typed /\ to \in Peers /\ n \in Settings /\ g \in Files /\ g \in Paths /\ g[1] = n
  BY <1>0, <1>2, Carried
<1>4. HeaderOnly'
  BY <1>1 DEF HeaderOnly, Out
<1>5. ASSUME NEW f \in Peers, NEW k \in Files PROVE Minds(f, k)
  <2>1. Receiving(f) = (IF f = to THEN {g} ELSE {}) /\ Receiving(f)' = {}
    BY <1>0, <1>1 DEF Receiving, Stage
  <2>2. /\ disk'[f][k] # Absent => disk[f][k] # Absent
        /\ paths'[f][k[1]] = paths[f][k[1]] \/ (f = to /\ k[1] = n /\ paths'[f][k[1]] = g)
        /\ f = to /\ k = g => disk'[f][k] = Absent \/ paths'[f][k[1]] = k
    <3>1. /\ f \in DOMAIN disk /\ k \in DOMAIN disk[f] /\ to \in DOMAIN disk /\ g \in DOMAIN disk[to]
          /\ f \in DOMAIN paths /\ k[1] \in DOMAIN paths[f]
          /\ to \in DOMAIN paths /\ n \in DOMAIN paths[to]
      BY <1>3, FileIs DEF Typed, Places
    <3>2. CASE disk' = [disk EXCEPT ![to][g] = Absent] /\ paths' = paths
      BY <3>1, <3>2
    <3>3. CASE paths' = [paths EXCEPT ![to][n] = g] /\ disk' = disk
      BY <1>3, <3>1, <3>3
    <3> QED
      BY <1>1, <3>2, <3>3
  <2>3. paths[f][k[1]] = k => paths'[f][k[1]] = k \/ Contested(k[1])'
    <3>1. k[1] = n /\ k # g /\ paths[f][k[1]] = k => Contested(k[1])
      BY <1>0, <1>2, Overwritten
    <3> QED
      BY <1>1, <2>2, <3>1, OfferGrows
  <2>4. Named(f)' = Named(f)
    BY <1>1 DEF Named
  <2> QED
    BY <1>1, <2>1, <2>2, <2>3, <2>4 DEF Minds
<1> QED
  BY <1>1, <1>4, <1>5, AllMinded DEF Accounted

\* Removals.  What was arriving at this end is not named any more.
LEMMA EmptyKept ==
    ASSUME IdInv, Accounted, Typed', NEW e \in Peers, NEW settings, Empty(e, settings), OutStays,
           \A f \in Peers : /\ stray[f] \subseteq stray'[f] /\ Receiving(f)' \subseteq Receiving(f)
                            /\ Receiving(f) \subseteq Receiving(f)' \cup stray'[f],
           Receiving(e) \subseteq stray'[e]
    PROVE  Accounted'
<1>1. /\ doomed[e] = {}
      /\ table'  = [table EXCEPT ![e] = <<>>]
      /\ paths'  = [paths EXCEPT ![e] = [s \in Settings |-> IF s \in settings THEN Absent ELSE paths[e][s]]]
      /\ doomed' = [doomed EXCEPT ![e] = FilesOf(e)]
      /\ UNCHANGED <<disk, mail, offers, twice>>
  BY DEF Empty, Free
<1>2. Typed /\ DOMAIN table = Peers /\ DOMAIN paths = Peers /\ DOMAIN doomed = Peers
  BY DEF IdInv, Typed, Rows, Places
<1>3. \A f \in Peers : \A o \in Ops(table'[f]) : o \in Ops(table[f])
  <2>1. \A f \in Peers : table'[f] = table[f] \/ table'[f] = <<>>
    BY <1>1, <1>2
  <2> QED
    BY <2>1, EmptyFits
<1>4. HeaderOnly'
  BY <1>1, <1>3, HeaderOnlyStays DEF Accounted
<1>5. ASSUME NEW f \in Peers, NEW k \in Files PROVE Minds(f, k)
  <2>1. CASE f # e
    <3>1. table'[f] = table[f] /\ paths'[f] = paths[f] /\ doomed'[f] = doomed[f] /\ disk'[f] = disk[f]
      BY <1>1, <1>2, <2>1
    <3>2. Named(f)' = Named(f)
      BY <3>1 DEF Named
    <3> QED
      BY <3>1, <3>2 DEF Minds
  <2>2. CASE f = e
    <3>1. k[1] \in Named(e) /\ paths[e][k[1]] = k => k \in doomed'[e]
      BY <1>1, <1>2, FileIs DEF FilesOf
    <3> QED
      BY <1>1, <2>2, <3>1 DEF Minds
  <2> QED
    BY <2>1, <2>2
<1> QED
  BY <1>1, <1>4, <1>5, AllMinded DEF Accounted

LEMMA RemovalKept ==
    ASSUME IdInv, Accounted, Typed', NEW e \in Peers, Clear(e) \/ Forget(e) \/ Wipe(e)
    PROVE  Accounted'
<1>1. Typed /\ DOMAIN stray = Peers
  BY DEF IdInv, Typed, Places
<1>2. PICK settings : Empty(e, settings)
  BY DEF Clear, Forget, Wipe
<1>3. CASE Clear(e)
  <2>1. xfer' = xfer /\ stray' = [stray EXCEPT ![e] = stray[e] \cup Receiving(e)]
    BY <1>3 DEF Clear
  <2>2. \A f \in Peers : Receiving(f)' = Receiving(f)
    BY <2>1 DEF Receiving, Stage, Incoming
  <2>3. /\ \A f \in Peers : /\ stray[f] \subseteq stray'[f] /\ Receiving(f)' \subseteq Receiving(f)
                            /\ Receiving(f) \subseteq Receiving(f)' \cup stray'[f]
        /\ Receiving(e) \subseteq stray'[e]
    BY <1>1, <2>1, <2>2
  <2>4. OutStays
    BY <2>1 DEF OutStays, Out
  <2> QED
    BY <1>2, <2>3, <2>4, EmptyKept
<1>4. CASE Forget(e) \/ Wipe(e)
  <2>1. /\ xfer' = Idle \/ (/\ xfer # Idle /\ xfer.stage \in {"measured", "recorded"}
                            /\ xfer' = [xfer EXCEPT !.live = FALSE])
        /\ stray' = [f \in Peers |-> stray[f] \cup Receiving(f)]
    <3>1. HangUp
      BY <1>4 DEF Forget, Wipe
    <3>2. stray' = [f \in Peers |-> stray[f] \cup Receiving(f)]
      BY <3>1 DEF HangUp
    <3>3. xfer' = Idle \/ (/\ xfer # Idle /\ xfer.stage \in {"measured", "recorded"}
                           /\ xfer' = [xfer EXCEPT !.live = FALSE])
      BY <3>1 DEF HangUp, Stage
    <3> QED
      BY <3>2, <3>3
  <2>2. xfer' = Idle \/ (/\ xfer # Idle /\ xfer'.stage = xfer.stage /\ xfer.stage # "bytes"
                         /\ xfer'.id = xfer.id /\ xfer'.from = xfer.from)
    <3>1. CASE xfer # Idle /\ xfer' = [xfer EXCEPT !.live = FALSE]
      BY <1>1, <2>1, <3>1, XferIs, XferMoves
    <3> QED
      BY <2>1, <3>1
  <2>3. \A f \in Peers : Receiving(f)' = {} /\ stray'[f] = stray[f] \cup Receiving(f)
    BY <2>1, <2>2 DEF Receiving, Stage
  <2>4. OutStays
    BY <2>2 DEF OutStays, Out
  <2> QED
    BY <1>2, <2>3, <2>4, EmptyKept
<1> QED
  BY <1>3, <1>4

LEMMA UnlinkKept ==
    ASSUME IdInv, Accounted, Typed', NEW e \in Peers, Unlink(e)
    PROVE  Accounted'
<1>1. /\ disk'   = [disk EXCEPT ![e] = [p \in Paths |-> IF p \in doomed[e] THEN Absent ELSE disk[e][p]]]
      /\ doomed' = [doomed EXCEPT ![e] = {}]
      /\ UNCHANGED <<table, paths, mail, xfer, stray, offers, twice>>
  BY DEF Unlink, history
<1>2. DOMAIN disk = Peers /\ DOMAIN doomed = Peers
  BY DEF IdInv, Typed, Places
<1>3. ASSUME NEW f \in Peers, NEW k \in Files PROVE Minds(f, k)
  <2>1. /\ disk'[f][k] = IF f = e /\ k \in doomed[e] THEN Absent ELSE disk[f][k]
        /\ doomed'[f] = IF f = e THEN {} ELSE doomed[f]
    BY <1>1, <1>2, FileIs
  <2>2. Receiving(f)' = Receiving(f) /\ Named(f)' = Named(f)
    BY <1>1 DEF Receiving, Stage, Incoming, Named
  <2> QED
    BY <1>1, <2>1, <2>2 DEF Minds
<1>4. HeaderOnly'
  BY <1>1, HeaderOnlyStays DEF Accounted, OutStays, Out
<1> QED
  BY <1>1, <1>3, <1>4, AllMinded DEF Accounted

\* The connection is lost, or an end is restarted.
LEMMA CutKept ==
    ASSUME IdInv, Accounted, Typed', NEW e \in Peers, Break \/ Restart(e)
    PROVE  Accounted'
<1>1. Typed /\ DOMAIN doomed = Peers
  BY DEF IdInv, Typed, Places
<1>2. /\ xfer' = Idle \/ (/\ xfer # Idle /\ xfer.stage # "bytes"
                          /\ xfer' = [xfer EXCEPT !.live = FALSE])
      /\ \A f \in Peers : stray[f] \cup Receiving(f) \subseteq stray'[f]
      /\ UNCHANGED <<table, paths, disk, mail, offers, twice>>
  <2>1. xfer' = Idle \/ (/\ xfer # Idle /\ xfer.stage # "bytes"
                         /\ xfer' = [xfer EXCEPT !.live = FALSE])
    BY DEF Break, Restart, Stage
  <2>2. \A f \in Peers : stray[f] \cup Receiving(f) \subseteq stray'[f]
    BY DEF Break, Restart
  <2>3. UNCHANGED <<table, paths, disk, mail, offers, twice>>
    BY DEF Break, Restart
  <2> QED
    BY <2>1, <2>2, <2>3
<1>3. xfer' = Idle \/ (/\ xfer # Idle /\ xfer'.stage = xfer.stage /\ xfer.stage # "bytes"
                       /\ xfer'.id = xfer.id /\ xfer'.from = xfer.from)
  <2>1. CASE xfer # Idle /\ xfer' = [xfer EXCEPT !.live = FALSE]
    BY <1>1, <1>2, <2>1, XferIs, XferMoves
  <2> QED
    BY <1>2, <2>1
<1>4. ASSUME NEW f \in Peers, NEW k \in Files PROVE k \in doomed[f] => k \in doomed'[f] \cup stray'[f]
  <2>1. CASE Break
    BY <2>1 DEF Break
  <2>2. CASE Restart(e)
    <3>1. /\ doomed' = [doomed EXCEPT ![e] = {}]
          /\ stray' = [p \in Peers |-> stray[p] \cup Receiving(p)
                                         \cup (IF p = e THEN doomed[e] \ Sources ELSE {})]
      BY <2>2 DEF Restart
    <3> QED
      BY <1>1, <3>1, FileIs
  <2> QED
    BY <2>1, <2>2
<1>5. ASSUME NEW f \in Peers, NEW k \in Files PROVE Minds(f, k)
  <2>1. Receiving(f)' = {} /\ Named(f)' = Named(f)
    BY <1>2, <1>3 DEF Receiving, Stage, Named
  <2> QED
    BY <1>2, <1>4, <2>1 DEF Minds
<1>6. HeaderOnly'
  BY <1>2, <1>3, HeaderOnlyStays DEF Accounted, OutStays, Out
<1> QED
  BY <1>2, <1>5, <1>6, AllMinded DEF Accounted

\* Steps that touch neither a table nor a file that came in.
LEMMA StillKept ==
    ASSUME IdInv, Accounted, Typed',
           UNCHANGED <<table, paths, mail, doomed, stray, offers, twice>>,
           \A e \in Peers, f \in Files : disk'[e][f] = disk[e][f],
           \A e \in Peers : Receiving(e)' = Receiving(e), OutStays
    PROVE  Accounted'
<1>1. HeaderOnly'
  BY HeaderOnlyStays DEF Accounted
<1>2. ASSUME NEW f \in Peers, NEW k \in Files PROVE Minds(f, k)
  <2>1. Named(f)' = Named(f)
    BY DEF Named
  <2> QED
    BY <2>1 DEF Minds
<1> QED
  BY <1>1, <1>2, AllMinded DEF Accounted

LEMMA ClockKept ==
    ASSUME IdInv, Accounted, Typed', NEW e \in Peers, Tick(e) \/ SetBack(e) \/ UNCHANGED vars
    PROVE  Accounted'
<1>1. UNCHANGED <<table, paths, mail, doomed, stray, offers, twice, disk, xfer>>
  BY DEF Tick, SetBack, vars, history
<1> QED
  BY <1>1, StillKept DEF Receiving, Stage, Incoming, OutStays, Out

LEMMA UserKept ==
    ASSUME IdInv, Accounted, Typed', NEW p \in Sources, PickFile(p) \/ EditFile(p)
    PROVE  Accounted'
<1>1. Typed
  BY DEF IdInv
<1>2. UNCHANGED <<table, paths, mail, doomed, stray, offers, twice>>
  BY DEF PickFile, EditFile, history
<1>3. \A f \in Peers, k \in Files : disk'[f][k] = disk[f][k]
  <2>1. disk' = disk \/ \E c : disk' = [disk EXCEPT ![Owner[p]][p] = c]
    BY DEF PickFile, EditFile
  <2>2. PICK e : e = Owner[p]
    OBVIOUS
  <2>3. \A f \in Peers, k \in Files : k # p /\ k \in Paths
    BY FileIs
  <2>4. ASSUME NEW c, disk' = [disk EXCEPT ![e][p] = c], NEW f \in Peers, NEW k \in Files
        PROVE  disk'[f][k] = disk[f][k]
    BY <1>1, <2>3, <2>4 DEF Typed, Places
  <2> QED
    BY <2>1, <2>2, <2>4
<1>4. (\A e \in Peers : Receiving(e)' = Receiving(e)) /\ OutStays
  <2>1. CASE PickFile(p)
    <3>1. xfer = Idle
      BY <2>1 DEF PickFile
    <3>2. \E h : xfer' = [from |-> Owner[p], path |-> p, stage |-> "measured", live |-> TRUE, id |-> Absent,
                          size |-> Len(h), hash |-> <<>>, data |-> <<>>, got |-> <<>>]
      BY <2>1 DEF PickFile
    <3>3. xfer'.stage = "measured"
      BY <3>2
    <3> QED
      BY <3>1, <3>3 DEF Receiving, Stage, OutStays, Out
  <2>2. CASE EditFile(p)
    <3>1. PICK c \in Contents[p] :
            xfer' = IF Stage("bytes") /\ xfer.path = p THEN [xfer EXCEPT !.data = c] ELSE xfer
      BY <2>2 DEF EditFile
    <3>2. CASE Stage("bytes") /\ xfer.path = p
      <4>1. xfer # Idle /\ xfer \in Xfers /\ xfer' = [xfer EXCEPT !.data = c] /\ c \in Seq(Chunks)
        BY <1>1, <3>1, <3>2, XferIs, SourcesAssumption DEF Stage
      <4>2. /\ xfer' \in Xfers /\ xfer'.stage = xfer.stage /\ xfer'.id = xfer.id
            /\ xfer'.from = xfer.from /\ xfer'.path = xfer.path
        BY <4>1, XferMoves
      <4> QED
        BY <4>1, <4>2, SentinelsAssumption DEF Receiving, Stage, Incoming, OutStays, Out
    <3>3. CASE ~(Stage("bytes") /\ xfer.path = p)
      BY <3>1, <3>3 DEF Receiving, Stage, Incoming, OutStays, Out
    <3> QED
      BY <3>2, <3>3
  <2> QED
    BY <2>1, <2>2
<1> QED
  BY <1>2, <1>3, <1>4, StillKept

LEMMA KeptStep == IdInv /\ Chron /\ Filed /\ Accounted /\ [Next]_vars => Accounted'
<1> SUFFICES ASSUME IdInv, Chron, Filed, Accounted, [Next]_vars PROVE Accounted'
  OBVIOUS
<1>1. Typed'
  BY TypedStep DEF IdInv
<1>2. CASE Attachment
  <2>1. CASE Break
    <3>1. xfer.from \in Peers
      BY <2>1, XferIs DEF Break, IdInv
    <3> QED
      BY <1>1, <2>1, <3>1, CutKept
  <2> QED
    BY <1>1, <1>2, <2>1, OfferKept, AnnounceKept, OpenKept, ChunkKept, FinishKept DEF Attachment
<1>3. ASSUME NEW e \in Peers,
             \/ Write(e) \/ Accept(e)
             \/ Clear(e) \/ Forget(e) \/ Wipe(e) \/ Unlink(e)
             \/ Restart(e) \/ Tick(e) \/ SetBack(e)
      PROVE  Accounted'
  BY <1>1, <1>3, WriteKept, AcceptKept, RemovalKept, UnlinkKept, CutKept, ClockKept
<1>4. ASSUME NEW p \in Sources, PickFile(p) \/ EditFile(p) PROVE Accounted'
  BY <1>1, <1>4, UserKept
<1>5. CASE UNCHANGED vars
  <2>1. UNCHANGED <<table, paths, mail, doomed, stray, offers, twice, disk, xfer>>
    BY <1>5 DEF vars, history
  <2> QED
    BY <1>1, <2>1, StillKept DEF Receiving, Stage, Incoming, OutStays, Out
<1> QED
  BY <1>2, <1>3, <1>4, <1>5 DEF Next

LEMMA KeptInit == Init => Accounted
<1> SUFFICES ASSUME Init PROVE Accounted
  OBVIOUS
<1>1. xfer = Idle
  BY DEF Init
<1>2. \A e \in Peers, f \in Files : disk[e][f] = Absent
  BY FileIs DEF Init
<1> QED
  BY <1>1, <1>2 DEF Accounted, OrphanNeedsCause, Landing, HeaderOnly, Out, Receiving, Stage

\* A file that came in belongs to a message whose setting leads to it or to the
\* transfer under way, or is about to be unlinked; any other was left by a cut
\* transfer, a removal while it arrived, a restart before the unlinking, another
\* attachment with the same setting but another name or sender, or an id that
\* was not new (files::receive, set_file_path, Store::clear, unlink_all).
THEOREM OrphansHaveCauses == Spec => []OrphanNeedsCause
<1>1. Init => IdInv /\ Chron /\ Filed /\ Accounted
  BY IdInit, ChronInit, FiledInit, KeptInit
<1>2. (IdInv /\ Chron /\ Filed /\ Accounted) /\ [Next]_vars => (IdInv /\ Chron /\ Filed /\ Accounted)'
  BY IdStep, ChronStep, FiledStep, KeptStep
<1>3. Accounted => OrphanNeedsCause
  BY DEF Accounted
<1> QED
  BY <1>1, <1>2, <1>3, PTL DEF Spec
=============================================================================
