---------------------------- MODULE SessionProofs ----------------------------
(***************************************************************************)
(* For any peers, connections, ops and channel capacity, whoever dials     *)
(* whom and whatever fails: what the live map holds is a session, a peer   *)
(* with a session is listed unless two overlapped, ops reach nobody but    *)
(* their addressee, and an op that a session took is never lost while the  *)
(* two ends stay intact.                                                   *)
(***************************************************************************)
EXTENDS Session, SequenceTheorems, TLAPS

USE DEF linkVars, sessVars, histVars

LEMMA EndTypes ==
    ASSUME ends \in [Conn -> [dialer : Peer, acceptor : Peer]], NEW e \in Peer, NEW c \in Conn
    PROVE  Other(e, c) \in Peer /\ EndsOf(c) \subseteq Peer
  BY DEF Other, EndsOf

LEMMA SeqFacts ==
    ASSUME NEW s \in Seq(Msg), NEW m \in Msg
    PROVE  /\ Append(s, m) \in Seq(Msg)
           /\ Len(Append(s, m)) = Len(s) + 1
           /\ s # << >> => /\ Tail(s) \in Seq(Msg)
                           /\ Head(s) \in Msg
                           /\ Len(Tail(s)) = Len(s) - 1
                           /\ SubSeq(s, 1, Len(s) - 1) \in Seq(Msg)
  <1>1. ASSUME s # << >> PROVE SubSeq(s, 1, Len(s) - 1) \in Seq(Msg)
    BY <1>1
  <1> QED
    BY <1>1

LEMMA ReceivedType ==
    ASSUME NEW s \in Seq(Msg), NEW m \in Msg, Len(s) <= QueueCap
    PROVE  Received(s, m) \in Seq(Msg) /\ Len(Received(s, m)) <= QueueCap
  <1>0. QueueCap \in Nat \ {0} /\ Len(s) \in Nat
    BY SessionBoundAssumption
  <1>1. CASE Len(s) < QueueCap
    BY <1>0, <1>1, SeqFacts DEF Received
  <1>2. CASE ~(Len(s) < QueueCap)
    <2>1. s # << >>
      BY <1>0, <1>2
    <2>2. Tail(s) \in Seq(Msg) /\ Len(Tail(s)) = Len(s) - 1
      BY <2>1, SeqFacts
    <2> QED
      BY <1>0, <1>2, <2>2, SeqFacts DEF Received
  <1> QED
    BY <1>1, <1>2

LEMMA TypeInit == Init => TypeOK
  <1> SUFFICES ASSUME Init PROVE TypeOK
    OBVIOUS
  <1>1. Anybody \in Peer
    BY PeerAssumption DEF Anybody
  <1>2. faults \in 0..MaxFaults /\ QueueCap \in Nat
    BY SessionBoundAssumption DEF Init
  <1>3. \A e \in Peer, c \in Conn : Len(queue[e][c]) <= QueueCap
    BY <1>2, SMTT(30) DEF Init
  <1> QED
    BY <1>1, <1>2, <1>3 DEF Init, TypeOK, Stage

LEMMA TypeStep == TypeOK /\ [Next]_vars => TypeOK'
  <1> SUFFICES ASSUME TypeOK, [Next]_vars PROVE TypeOK'
    OBVIOUS
  <1> USE DEF TypeOK, Stage
  <1>0. QueueCap \in Nat /\ MaxFaults \in Nat
    BY SessionBoundAssumption
  <1>1. ASSUME NEW e \in Peer, NEW p \in Peer, Dial(e, p) PROVE TypeOK'
    BY <1>1, SMTT(30) DEF Dial
  <1>2. ASSUME NEW e \in Peer, NEW p \in Peer, DialFails(e, p) PROVE TypeOK'
    BY <1>2 DEF DialFails
  <1>3. ASSUME NEW e \in Peer, NEW p \in Peer, NEW c \in Conn, Connect(e, p, c) PROVE TypeOK'
    <2>1. \A x \in Peer, d \in Conn : Len(queue'[x][d]) <= QueueCap
      BY <1>0, <1>3 DEF Connect
    <2>2. lagged' \subseteq Peer \X Conn /\ carried' \in [Msg -> SUBSET Conn]
      BY <1>3 DEF Connect
    <2>3. /\ queue' \in [Peer -> [Conn -> Seq(Msg)]]
          /\ wire' \in [Peer -> [Conn -> Seq(Msg)]]
      BY <1>3, SMTT(30) DEF Connect
    <2>4. /\ reading' \in [Peer -> [Conn -> {"between", "inside", "lost"}]]
          /\ stage' \in [Peer -> [Conn -> Stage]]
          /\ dialing' \in [Peer -> SUBSET Peer]
          /\ ends' \in [Conn -> [dialer : Peer, acceptor : Peer]]
          /\ status' \in [Conn -> {"open", "closed"}]
      BY <1>3, SMTT(30) DEF Connect
    <2> QED
      BY <1>3, <2>1, <2>2, <2>3, <2>4 DEF Connect
  <1>4. ASSUME NEW e \in Peer, NEW c \in Conn, Accept(e, c) PROVE TypeOK'
    BY <1>4 DEF Accept
  <1>5. ASSUME NEW e \in Peer, NEW c \in Conn, Greet(e, c) PROVE TypeOK'
    <2>1. Other(e, c) \in Peer
      BY EndTypes
    <2>2. doubled' \subseteq doubled \cup {<<e, Other(e, c)>>}
      <3>1. CASE Overlaps(e, c)
        BY <1>5, <3>1 DEF Greet
      <3>2. CASE ~ Overlaps(e, c)
        BY <1>5, <3>2 DEF Greet
      <3> QED
        BY <3>1, <3>2
    <2>3. doubled' \subseteq Peer \X Peer
      BY <2>1, <2>2, SMTT(30)
    <2>4. /\ stage' \in [Peer -> [Conn -> Stage]]
          /\ live' \in [Peer -> [Peer -> Conn \cup {NoConn}]]
      BY <1>5, <2>1 DEF Greet
    <2> QED
      BY <1>5, <2>3, <2>4 DEF Greet
  <1>6. ASSUME NEW e \in Peer, NEW c \in Conn, NEW how \in {"over", "dropped"}, Finish(e, c, how)
        PROVE  /\ stage' \in [Peer -> [Conn -> Stage]]
               /\ queue' \in [Peer -> [Conn -> Seq(Msg)]]
               /\ \A x \in Peer, d \in Conn : Len(queue'[x][d]) <= QueueCap
               /\ wire' \in [Peer -> [Conn -> Seq(Msg)]]
               /\ reading' \in [Peer -> [Conn -> {"between", "inside", "lost"}]]
    BY <1>0, <1>6 DEF Finish
  <1>7. ASSUME NEW e \in Peer, NEW c \in Conn, GreetingFails(e, c) PROVE TypeOK'
    BY <1>6, <1>7 DEF GreetingFails
  <1>8. ASSUME NEW e \in Peer, NEW c \in Conn, Subscribe(e, c) PROVE TypeOK'
    BY <1>8 DEF Subscribe
  <1>9. ASSUME NEW e \in Peer, NEW c \in Conn, ReadLength(e, c) PROVE TypeOK'
    BY <1>9 DEF ReadLength
  <1>10. ASSUME NEW e \in Peer, NEW c \in Conn, ReadFrame(e, c) PROVE TypeOK'
    <2>1. Head(wire[e][c]) \in Msg /\ Tail(wire[e][c]) \in Seq(Msg)
      BY <1>10, SeqFacts DEF ReadFrame
    <2> QED
      BY <1>10, <2>1 DEF ReadFrame
  <1>11. ASSUME NEW e \in Peer, NEW c \in Conn, ReadGarbage(e, c) PROVE TypeOK'
    <2>1. Tail(wire[e][c]) \in Seq(Msg)
      BY <1>11, SeqFacts DEF ReadGarbage
    <2> QED
      BY <1>11, <2>1 DEF ReadGarbage
  <1>12. ASSUME NEW e \in Peer, NEW c \in Conn, ReadEnds(e, c) PROVE TypeOK'
    BY <1>6, <1>12, EndTypes DEF ReadEnds, Unlist
  <1>13. ASSUME NEW e \in Peer, NEW c \in Conn, Write(e, c) PROVE TypeOK'
    <2>1. Head(queue[e][c]) \in Msg /\ Other(e, c) \in Peer
      BY <1>13, SeqFacts, EndTypes DEF Write
    <2>2. Tail(queue[e][c]) \in Seq(Msg) /\ Len(Tail(queue[e][c])) <= QueueCap
      <3>1. Len(queue[e][c]) \in Nat /\ Len(queue[e][c]) <= QueueCap
        OBVIOUS
      <3>2. Tail(queue[e][c]) \in Seq(Msg) /\ Len(Tail(queue[e][c])) = Len(queue[e][c]) - 1
        BY <1>13, SeqFacts DEF Write
      <3> QED
        BY <1>0, <3>1, <3>2
    <2>3. /\ queue' \in [Peer -> [Conn -> Seq(Msg)]]
          /\ \A x \in Peer, d \in Conn : Len(queue'[x][d]) <= QueueCap
      BY <1>13, <2>2 DEF Write
    <2>4. wire' \in [Peer -> [Conn -> Seq(Msg)]]
      BY <1>13, <2>1, SeqFacts, SMTT(30) DEF Write
    <2>5. reading' \in [Peer -> [Conn -> {"between", "inside", "lost"}]]
      <3> DEFINE now == IF reading[e][c] = "inside" THEN "lost" ELSE reading[e][c]
      <3>1. reading' = [reading EXCEPT ![e][c] = now]
        BY <1>13 DEF Write, Interrupted
      <3>2. reading[e][c] \in {"between", "inside", "lost"}
        OBVIOUS
      <3>3. now \in {"between", "inside", "lost"}
        BY <3>2
      <3> HIDE DEF now
      <3> QED
        BY <3>1, <3>3
    <2> QED
      BY <1>13, <2>3, <2>4, <2>5 DEF Write
  <1>14. ASSUME NEW e \in Peer, NEW c \in Conn, WriteFails(e, c) PROVE TypeOK'
    BY <1>6, <1>14 DEF WriteFails
  <1>15. ASSUME NEW m \in Msg, Route(m) PROVE TypeOK'
    BY <1>15 DEF Route
  <1>16. ASSUME NEW m \in Msg, Broadcast(m) PROVE TypeOK'
    <2>1. From[m] \in Peer
      BY MsgAssumption
    <2>2. /\ queue' \in [Peer -> [Conn -> Seq(Msg)]]
          /\ \A x \in Peer, d \in Conn : Len(queue'[x][d]) <= QueueCap
      BY <1>16, <2>1, ReceivedType DEF Broadcast
    <2>3. carried' \in [Msg -> SUBSET Conn] /\ lagged' \subseteq Peer \X Conn
      BY <1>16, <2>1, SMTT(30) DEF Broadcast
    <2> QED
      BY <1>16, <2>2, <2>3 DEF Broadcast
  <1>17. ASSUME NEW c \in Conn, Lose(c) PROVE TypeOK'
    <2>1. faults' \in 0..MaxFaults
      BY <1>0, <1>17 DEF Lose
    <2> QED
      BY <1>17, <2>1 DEF Lose
  <1>18. ASSUME NEW e \in Peer, NEW c \in Conn, LoseTail(e, c) PROVE TypeOK'
    <2>1. SubSeq(wire[e][c], 1, Len(wire[e][c]) - 1) \in Seq(Msg)
      BY <1>18, SeqFacts, SMTT(30) DEF LoseTail
    <2> QED
      BY <1>18, <2>1 DEF LoseTail
  <1>19. ASSUME NEW e \in Peer, Restart(e) PROVE TypeOK'
    <2>1. faults' \in 0..MaxFaults
      BY <1>0, <1>19 DEF Restart
    <2>2. /\ queue' \in [Peer -> [Conn -> Seq(Msg)]]
          /\ \A x \in Peer, d \in Conn : Len(queue'[x][d]) <= QueueCap
          /\ wire' \in [Peer -> [Conn -> Seq(Msg)]]
      BY <1>0, <1>19 DEF Restart
    <2>3. /\ stage' \in [Peer -> [Conn -> Stage]]
          /\ live' \in [Peer -> [Peer -> Conn \cup {NoConn}]]
          /\ reading' \in [Peer -> [Conn -> {"between", "inside", "lost"}]]
      BY <1>19 DEF Restart
    <2> QED
      BY <1>19, <2>1, <2>2, <2>3 DEF Restart
  <1>20. CASE UNCHANGED vars
    BY <1>20 DEF vars
  <1> QED
    BY <1>1, <1>2, <1>3, <1>4, <1>5, <1>7, <1>8, <1>9, <1>10, <1>11, <1>12, <1>13,
       <1>14, <1>15, <1>16, <1>17, <1>18, <1>19, <1>20 DEF Next, SessionStep

\* Type correctness of both ends of every connection.
THEOREM SessionTyped == Spec => []TypeOK
  BY TypeInit, TypeStep, PTL DEF Spec

(***************************************************************************)
(* The live map.  LiveIsSession is inductive once one knows that only the  *)
(* two ends of a connection have a session on it.  For UnlistedNeedsTwo    *)
(* one must know which session the entry belongs to, and that two sessions *)
(* with one peer were noticed (TwoAreSeen).                                *)
(***************************************************************************)

Runs(e, c) == stage[e][c] \in {"listed", "select"}

Placed == \A e \in Peer, c \in Conn : stage[e][c] # "none" => e \in EndsOf(c)

Met == \A e \in Peer, c \in Conn : Runs(e, c) => stage[Other(e, c)][c] # "none"

LiveOrTwo ==
    \A e \in Peer, c \in Conn :
        Runs(e, c) => live[e][Other(e, c)] = c \/ <<e, Other(e, c)>> \in doubled

TwoAreSeen ==
    \A e \in Peer : \A c, d \in Conn :
        Runs(e, c) /\ Runs(e, d) /\ c # d /\ Other(e, c) = Other(e, d)
            => <<e, Other(e, c)>> \in doubled

LiveInv == TypeOK /\ Placed /\ Met /\ LiveIsSession /\ LiveOrTwo /\ TwoAreSeen

LEMMA OtherEnd ==
    ASSUME NEW e \in Peer, NEW p \in Peer, NEW c \in Conn
    PROVE  /\ EndsOf(c) = {e, p} => Other(e, c) = p
           /\ e \in EndsOf(c) => EndsOf(c) = {e, Other(e, c)}
  BY DEF EndsOf, Other

LEMMA NestedType ==
    ASSUME TypeOK
    PROVE  /\ stage \in [Peer -> [Conn -> Stage]]
           /\ live \in [Peer -> [Peer -> Conn \cup {NoConn}]]
  BY DEF TypeOK

LEMMA LiveInit == Init => LiveInv
  <1> SUFFICES ASSUME Init PROVE LiveInv
    OBVIOUS
  <1>1. TypeOK
    BY TypeInit
  <1>2. \A e \in Peer, c \in Conn : stage[e][c] = "none"
    BY DEF Init
  <1>3. LiveIsSession
    BY PeerAssumption DEF LiveIsSession, Init
  <1> QED
    BY <1>1, <1>2, <1>3 DEF LiveInv, Placed, Met, LiveOrTwo, TwoAreSeen, Runs

\* A step that touches neither sessions nor the live map.
LEMMA LiveStill ==
    ASSUME LiveInv, TypeOK', UNCHANGED <<ends, stage, live, doubled>>
    PROVE  LiveInv'
  <1>1. \A e \in Peer, c \in Conn : /\ Other(e, c)' = Other(e, c)
                                     /\ EndsOf(c)' = EndsOf(c)
                                     /\ Runs(e, c)' = Runs(e, c)
    BY DEF Other, EndsOf, Runs
  <1>2. Placed' /\ Met'
    BY <1>1 DEF LiveInv, Placed, Met
  <1>3. LiveIsSession'
    BY <1>1 DEF LiveInv, LiveIsSession
  <1>4. LiveOrTwo' /\ TwoAreSeen'
    BY <1>1 DEF LiveInv, LiveOrTwo, TwoAreSeen
  <1> QED
    BY <1>2, <1>3, <1>4 DEF LiveInv

\* A step by which no session starts to run and the live map stays.
LEMMA LiveFewer ==
    ASSUME LiveInv, TypeOK', UNCHANGED <<ends, live, doubled>>,
           \A e \in Peer, c \in Conn :
              \/ stage'[e][c] = stage[e][c]
              \/ /\ ~ Runs(e, c)
                 /\ stage'[e][c] \in {"greeting", "over"}
                 /\ stage[e][c] = "none" => e \in EndsOf(c)
                 /\ stage[e][c] # "dropped"
              \/ stage[e][c] = "listed" /\ stage'[e][c] = "select"
              \/ stage[e][c] = "select" /\ stage'[e][c] = "dropped"
    PROVE  LiveInv'
  <1> USE DEF LiveInv
  <1>0. /\ \A e \in Peer, c \in Conn : Other(e, c)' = Other(e, c) /\ EndsOf(c)' = EndsOf(c)
        /\ \A e \in Peer, c \in Conn : Runs(e, c)' => Runs(e, c)
        /\ \A e \in Peer, c \in Conn : stage'[e][c] = "none" => stage[e][c] = "none"
        /\ \A e \in Peer, c \in Conn : Other(e, c) \in Peer
    BY EndTypes DEF Other, EndsOf, Runs, TypeOK, Stage
  <1>1. Placed'
    BY <1>0 DEF Placed, Runs
  <1>2. Met'
    BY <1>0 DEF Met
  <1>3. LiveIsSession'
    <2> SUFFICES ASSUME NEW x \in Peer, NEW y \in Peer, NEW d \in Conn, live'[x][y] = d
                 PROVE  EndsOf(d)' = {x, y} /\ stage'[x][d] \in {"listed", "select", "dropped"}
      BY DEF LiveIsSession
    <2>1. EndsOf(d) = {x, y} /\ stage[x][d] \in {"listed", "select", "dropped"}
      BY DEF LiveIsSession
    <2> QED
      BY <1>0, <2>1 DEF Runs
  <1>4. LiveOrTwo'
    BY <1>0 DEF LiveOrTwo
  <1>5. TwoAreSeen'
    <2> SUFFICES ASSUME NEW e \in Peer, NEW c \in Conn, NEW d \in Conn,
                        Runs(e, c)', Runs(e, d)', c # d, Other(e, c)' = Other(e, d)'
                 PROVE  <<e, Other(e, c)'>> \in doubled'
      BY DEF TwoAreSeen
    <2>1. Runs(e, c) /\ Runs(e, d) /\ Other(e, c) = Other(e, d) /\ Other(e, c)' = Other(e, c)
      BY <1>0
    <2>2. <<e, Other(e, c)>> \in doubled
      BY <2>1 DEF TwoAreSeen
    <2> QED
      BY <2>1, <2>2
  <1> QED
    BY <1>1, <1>2, <1>3, <1>4, <1>5

LEMMA LiveConnect ==
    ASSUME LiveInv, TypeOK', NEW e \in Peer, NEW p \in Peer, NEW c \in Conn, Connect(e, p, c)
    PROVE  LiveInv'
  <1> USE DEF LiveInv
  <1>1. /\ \A x, y \in Peer : live[x][y] # c
        /\ live' = live /\ doubled' = doubled
        /\ ends'[c] = [dialer |-> e, acceptor |-> p]
        /\ \A x \in Peer : stage'[x][c] = IF x = e THEN "greeting" ELSE "none"
    <2>1. /\ \A x, y \in Peer : live[x][y] # c
          /\ live' = live /\ doubled' = doubled
      BY DEF Connect, Free
    <2>2. ends'[c] = [dialer |-> e, acceptor |-> p]
      BY DEF Connect, TypeOK
    <2>3. \A x \in Peer : stage'[x][c] = IF x = e THEN "greeting" ELSE "none"
      BY NestedType DEF Connect
    <2> QED
      BY <2>1, <2>2, <2>3
  <1>2. \A x \in Peer, d \in Conn :
           d # c => /\ stage'[x][d] = stage[x][d]
                    /\ Other(x, d)' = Other(x, d)
                    /\ EndsOf(d)' = EndsOf(d)
    BY DEF Connect, TypeOK, Other, EndsOf
  <1>3. \A x \in Peer, d \in Conn : Runs(x, d)' => d # c /\ Runs(x, d)
    BY <1>1, <1>2 DEF Runs
  <1>4. \A x \in Peer, d \in Conn : Other(x, d) \in Peer
    BY EndTypes DEF TypeOK
  <1>5. Placed'
    <2> SUFFICES ASSUME NEW x \in Peer, NEW d \in Conn, stage'[x][d] # "none"
                 PROVE  x \in EndsOf(d)'
      BY DEF Placed
    <2>1. CASE d = c
      BY <1>1, <2>1 DEF EndsOf
    <2>2. CASE d # c
      BY <1>2, <2>2 DEF Placed
    <2> QED
      BY <2>1, <2>2
  <1>6. Met'
    BY <1>2, <1>3, <1>4, SMTT(30) DEF Met
  <1>7. LiveIsSession'
    <2> SUFFICES ASSUME NEW x \in Peer, NEW y \in Peer, NEW d \in Conn, live'[x][y] = d
                 PROVE  EndsOf(d)' = {x, y} /\ stage'[x][d] \in {"listed", "select", "dropped"}
      BY DEF LiveIsSession
    <2>1. live[x][y] = d /\ d # c
      BY <1>1
    <2>2. EndsOf(d) = {x, y} /\ stage[x][d] \in {"listed", "select", "dropped"}
      BY <2>1 DEF LiveIsSession
    <2> QED
      BY <1>2, <2>1, <2>2
  <1>8. LiveOrTwo' /\ TwoAreSeen'
    BY <1>1, <1>2, <1>3 DEF LiveOrTwo, TwoAreSeen
  <1> QED
    BY <1>5, <1>6, <1>7, <1>8

LEMMA LiveGreet ==
    ASSUME LiveInv, TypeOK', NEW e \in Peer, NEW c \in Conn, Greet(e, c)
    PROVE  LiveInv'
  <1> USE DEF LiveInv
  <1> DEFINE q == Other(e, c)
  <1>1. /\ q \in Peer /\ e \in EndsOf(c) /\ EndsOf(c) = {e, q}
        /\ stage[e][c] = "greeting" /\ stage[q][c] # "none"
    <2>1. stage[e][c] = "greeting" /\ stage[q][c] # "none"
      BY DEF Greet
    <2>2. q \in Peer
      BY EndTypes DEF TypeOK
    <2>3. e \in EndsOf(c)
      BY <2>1 DEF Placed
    <2> QED
      BY <2>1, <2>2, <2>3, OtherEnd
  <1>2. \A x \in Peer, d \in Conn : Other(x, d)' = Other(x, d) /\ EndsOf(d)' = EndsOf(d)
    BY DEF Greet, Other, EndsOf
  <1>3. \A x \in Peer, d \in Conn :
           stage'[x][d] = IF x = e /\ d = c THEN "listed" ELSE stage[x][d]
    <2>1. stage' = [stage EXCEPT ![e][c] = "listed"]
      BY DEF Greet
    <2> QED
      BY <2>1, NestedType
  <1>4. \A x, y \in Peer : live'[x][y] = IF x = e /\ y = q THEN c ELSE live[x][y]
    <2>1. live' = [live EXCEPT ![e][q] = c]
      BY DEF Greet
    <2> QED
      BY <1>1, <2>1, NestedType
  <1>5. /\ doubled \subseteq doubled'
        /\ Overlaps(e, c) => <<e, q>> \in doubled'
    <2>1. CASE Overlaps(e, c)
      BY <2>1 DEF Greet
    <2>2. CASE ~ Overlaps(e, c)
      BY <2>2 DEF Greet
    <2> QED
      BY <2>1, <2>2
  <1>6. \A d \in Conn : d # c /\ Runs(e, d) /\ Other(e, d) = q => <<e, q>> \in doubled'
    BY <1>5 DEF Overlaps, Runs
  <1>7. \A x \in Peer, d \in Conn : Runs(x, d)' => (x = e /\ d = c) \/ Runs(x, d)
    BY <1>3 DEF Runs
  <1>8. \A x \in Peer, d \in Conn : Other(x, d) \in Peer
    BY EndTypes DEF TypeOK
  <1> HIDE DEF q
  <1>9. Placed'
    BY <1>1, <1>2, <1>3 DEF Placed
  <1>10. Met'
    <2> SUFFICES ASSUME NEW x \in Peer, NEW d \in Conn, Runs(x, d)'
                 PROVE  (stage[Other(x, d)][d] # "none")'
      BY DEF Met
    <2>1. stage[Other(x, d)][d] # "none"
      <3>1. CASE x = e /\ d = c
        BY <1>1, <3>1 DEF q
      <3>2. CASE Runs(x, d)
        BY <3>2 DEF Met
      <3> QED
        BY <1>7, <3>1, <3>2
    <2> QED
      BY <1>2, <1>3, <1>8, <2>1
  <1>11. LiveIsSession'
    <2> SUFFICES ASSUME NEW x \in Peer, NEW y \in Peer, NEW d \in Conn, live'[x][y] = d
                 PROVE  EndsOf(d)' = {x, y} /\ stage'[x][d] \in {"listed", "select", "dropped"}
      BY DEF LiveIsSession
    <2>1. CASE x = e /\ y = q
      BY <1>1, <1>2, <1>3, <1>4, <2>1
    <2>2. CASE ~(x = e /\ y = q)
      <3>1. live[x][y] = d
        BY <1>4, <2>2
      <3>2. EndsOf(d) = {x, y} /\ stage[x][d] \in {"listed", "select", "dropped"}
        BY <3>1 DEF LiveIsSession
      <3> QED
        BY <1>2, <1>3, <3>2
    <2> QED
      BY <2>1, <2>2
  <1>12. LiveOrTwo'
    <2> SUFFICES ASSUME NEW x \in Peer, NEW d \in Conn, Runs(x, d)'
                 PROVE  live'[x][Other(x, d)] = d \/ <<x, Other(x, d)>> \in doubled'
      BY <1>2 DEF LiveOrTwo
    <2>1. CASE x = e /\ d = c
      BY <1>1, <1>4, <2>1 DEF q
    <2>2. CASE ~(x = e /\ d = c) /\ x = e /\ Other(x, d) = q
      BY <1>6, <1>7, <2>2
    <2>3. CASE ~(x = e /\ Other(x, d) = q) /\ Runs(x, d)
      BY <1>4, <1>5, <1>8, <2>3 DEF LiveOrTwo
    <2> QED
      BY <1>7, <2>1, <2>2, <2>3 DEF q
  <1>13. TwoAreSeen'
    <2> SUFFICES ASSUME NEW x \in Peer, NEW a \in Conn, NEW b \in Conn,
                        Runs(x, a)', Runs(x, b)', a # b, Other(x, a) = Other(x, b)
                 PROVE  <<x, Other(x, a)>> \in doubled'
      BY <1>2 DEF TwoAreSeen
    <2>1. CASE Runs(x, a) /\ Runs(x, b)
      BY <1>5, <2>1 DEF TwoAreSeen
    <2>2. CASE x = e /\ (a = c \/ b = c)
      <3>1. Other(x, a) = q
        BY <2>2 DEF q
      <3> QED
        BY <1>6, <1>7, <2>2, <3>1
    <2> QED
      BY <1>7, <2>1, <2>2
  <1> QED
    BY <1>9, <1>10, <1>11, <1>12, <1>13

LEMMA LiveReadEnds ==
    ASSUME LiveInv, TypeOK', NEW e \in Peer, NEW c \in Conn, ReadEnds(e, c)
    PROVE  LiveInv'
  <1> USE DEF LiveInv
  <1> DEFINE q == Other(e, c)
  <1>1. q \in Peer /\ Runs(e, c) /\ EndsOf(c) = {e, q}
    <2>1. Runs(e, c) /\ stage[e][c] # "none"
      BY DEF ReadEnds, Runs
    <2>2. q \in Peer
      BY EndTypes DEF TypeOK
    <2> QED
      BY <2>1, <2>2, OtherEnd DEF Placed
  <1>2. \A x \in Peer, d \in Conn : Other(x, d)' = Other(x, d) /\ EndsOf(d)' = EndsOf(d)
    BY DEF ReadEnds, Other, EndsOf
  <1>3. \A x \in Peer, d \in Conn :
           stage'[x][d] = IF x = e /\ d = c THEN "over" ELSE stage[x][d]
    <2>1. stage' = [stage EXCEPT ![e][c] = "over"]
      BY DEF ReadEnds, Finish
    <2> QED
      BY <2>1, NestedType
  <1>4. \A x, y \in Peer : live'[x][y] = IF x = e /\ y = q THEN NoConn ELSE live[x][y]
    <2>1. live' = [live EXCEPT ![e][q] = NoConn]
      BY DEF ReadEnds, Unlist
    <2> QED
      BY <1>1, <2>1, NestedType
  <1>5. \A x \in Peer, d \in Conn : Runs(x, d)' => ~(x = e /\ d = c) /\ Runs(x, d)
    BY <1>3 DEF Runs
  <1>6. doubled' = doubled
    BY DEF ReadEnds
  <1>7. \A x \in Peer, d \in Conn : Other(x, d) \in Peer
    BY EndTypes DEF TypeOK
  <1>8. Other(e, c) = q
    OBVIOUS
  <1> HIDE DEF q
  <1>9. Placed' /\ Met'
    <2>1. Placed'
      BY <1>1, <1>2, <1>3 DEF Placed
    <2>2. \A x \in Peer, d \in Conn : stage[x][d] # "none" => stage'[x][d] # "none"
      BY <1>3
    <2>3. Met'
      BY <1>2, <1>5, <1>7, <2>2 DEF Met
    <2> QED
      BY <2>1, <2>3
  <1>10. LiveIsSession'
    <2> SUFFICES ASSUME NEW x \in Peer, NEW y \in Peer, NEW d \in Conn, live'[x][y] = d
                 PROVE  EndsOf(d)' = {x, y} /\ stage'[x][d] \in {"listed", "select", "dropped"}
      BY DEF LiveIsSession
    <2>1. ~(x = e /\ y = q) /\ live[x][y] = d
      BY <1>4, PeerAssumption
    <2>2. EndsOf(d) = {x, y} /\ stage[x][d] \in {"listed", "select", "dropped"}
      BY <2>1 DEF LiveIsSession
    <2>3. ~(x = e /\ d = c)
      BY <1>8, <2>1, <2>2, OtherEnd
    <2> QED
      BY <1>2, <1>3, <2>2, <2>3
  <1>11. LiveOrTwo'
    <2> SUFFICES ASSUME NEW x \in Peer, NEW d \in Conn, Runs(x, d)'
                 PROVE  live'[x][Other(x, d)] = d \/ <<x, Other(x, d)>> \in doubled'
      BY <1>2 DEF LiveOrTwo
    <2>1. ~(x = e /\ d = c) /\ Runs(x, d)
      BY <1>5
    <2>2. CASE x = e /\ Other(x, d) = q
      BY <1>1, <1>6, <1>8, <2>1, <2>2 DEF TwoAreSeen
    <2>3. CASE ~(x = e /\ Other(x, d) = q)
      BY <1>4, <1>6, <1>7, <2>1, <2>3 DEF LiveOrTwo
    <2> QED
      BY <2>2, <2>3
  <1>12. TwoAreSeen'
    BY <1>2, <1>5, <1>6 DEF TwoAreSeen
  <1> QED
    BY <1>9, <1>10, <1>11, <1>12

LEMMA LiveRestart ==
    ASSUME LiveInv, TypeOK', NEW e \in Peer, Restart(e)
    PROVE  LiveInv'
  <1> USE DEF LiveInv
  <1>1. \A x \in Peer, d \in Conn : /\ Other(x, d)' = Other(x, d)
                                     /\ EndsOf(d)' = EndsOf(d)
                                     /\ Other(x, d) \in Peer
    BY EndTypes DEF Restart, Other, EndsOf, TypeOK
  <1>2. \A x \in Peer, d \in Conn :
           stage'[x][d] = IF x = e /\ stage[x][d] # "none" THEN "over" ELSE stage[x][d]
    BY SMTT(30) DEF Restart, TypeOK
  <1>3. \A x, y \in Peer : live'[x][y] = IF x = e THEN NoConn ELSE live[x][y]
    BY DEF Restart, TypeOK
  <1>4. \A x \in Peer, d \in Conn : Runs(x, d)' => x # e /\ Runs(x, d)
    BY <1>2 DEF Runs
  <1>5. doubled' = doubled
    BY DEF Restart
  <1>6. Placed' /\ Met'
    BY <1>1, <1>2, <1>4, SMTT(30) DEF Placed, Met
  <1>7. LiveIsSession'
    <2> SUFFICES ASSUME NEW x \in Peer, NEW y \in Peer, NEW d \in Conn, live'[x][y] = d
                 PROVE  EndsOf(d)' = {x, y} /\ stage'[x][d] \in {"listed", "select", "dropped"}
      BY DEF LiveIsSession
    <2>1. x # e /\ live[x][y] = d
      BY <1>3, PeerAssumption
    <2>2. EndsOf(d) = {x, y} /\ stage[x][d] \in {"listed", "select", "dropped"}
      BY <2>1 DEF LiveIsSession
    <2> QED
      BY <1>1, <1>2, <2>1, <2>2
  <1>8. LiveOrTwo'
    <2> SUFFICES ASSUME NEW x \in Peer, NEW d \in Conn, Runs(x, d)'
                 PROVE  live'[x][Other(x, d)] = d \/ <<x, Other(x, d)>> \in doubled'
      BY <1>1 DEF LiveOrTwo
    <2> QED
      BY <1>1, <1>3, <1>4, <1>5 DEF LiveOrTwo
  <1>9. TwoAreSeen'
    BY <1>1, <1>4, <1>5 DEF TwoAreSeen
  <1> QED
    BY <1>6, <1>7, <1>8, <1>9

LEMMA LiveStep == LiveInv /\ [Next]_vars => LiveInv'
  <1> SUFFICES ASSUME LiveInv, [Next]_vars PROVE LiveInv'
    OBVIOUS
  <1>0. TypeOK /\ TypeOK'
    BY TypeStep DEF LiveInv
  <1>1. ASSUME NEW e \in Peer, NEW p \in Peer, Dial(e, p) \/ DialFails(e, p) PROVE LiveInv'
    BY <1>0, <1>1, LiveStill DEF Dial, DialFails
  <1>2. ASSUME NEW e \in Peer, NEW p \in Peer, NEW c \in Conn, Connect(e, p, c) PROVE LiveInv'
    BY <1>0, <1>2, LiveConnect
  <1>3. ASSUME NEW e \in Peer, NEW c \in Conn,
               Accept(e, c) \/ GreetingFails(e, c) \/ Subscribe(e, c) \/ WriteFails(e, c)
        PROVE  LiveInv'
    <2>1. CASE Accept(e, c)
      <3>1. stage[e][c] = "none" /\ e \in EndsOf(c) /\ ~ Runs(e, c)
        BY <2>1 DEF Accept, EndsOf, Runs
      <3>2. stage' = [stage EXCEPT ![e][c] = "greeting"] /\ UNCHANGED <<ends, live, doubled>>
        BY <2>1 DEF Accept
      <3>3. \A x \in Peer, d \in Conn :
               stage'[x][d] = IF x = e /\ d = c THEN "greeting" ELSE stage[x][d]
        BY <1>0, <3>2, NestedType
      <3> QED
        BY <1>0, <3>1, <3>2, <3>3, LiveFewer
    <2>2. CASE GreetingFails(e, c)
      <3>1. stage[e][c] = "greeting" /\ ~ Runs(e, c)
        BY <2>2 DEF GreetingFails, Runs
      <3>2. stage' = [stage EXCEPT ![e][c] = "over"] /\ UNCHANGED <<ends, live, doubled>>
        BY <2>2 DEF GreetingFails, Finish
      <3>3. \A x \in Peer, d \in Conn :
               stage'[x][d] = IF x = e /\ d = c THEN "over" ELSE stage[x][d]
        BY <1>0, <3>2, NestedType
      <3> QED
        BY <1>0, <3>1, <3>2, <3>3, LiveFewer
    <2>3. CASE Subscribe(e, c)
      <3>1. stage[e][c] = "listed"
        BY <2>3 DEF Subscribe
      <3>2. stage' = [stage EXCEPT ![e][c] = "select"] /\ UNCHANGED <<ends, live, doubled>>
        BY <2>3 DEF Subscribe
      <3>3. \A x \in Peer, d \in Conn :
               stage'[x][d] = IF x = e /\ d = c THEN "select" ELSE stage[x][d]
        BY <1>0, <3>2, NestedType
      <3> QED
        BY <1>0, <3>1, <3>2, <3>3, LiveFewer
    <2>4. CASE WriteFails(e, c)
      <3>1. stage[e][c] = "select"
        BY <2>4 DEF WriteFails
      <3>2. stage' = [stage EXCEPT ![e][c] = "dropped"] /\ UNCHANGED <<ends, live, doubled>>
        BY <2>4 DEF WriteFails, Finish
      <3>3. \A x \in Peer, d \in Conn :
               stage'[x][d] = IF x = e /\ d = c THEN "dropped" ELSE stage[x][d]
        BY <1>0, <3>2, NestedType
      <3> QED
        BY <1>0, <3>1, <3>2, <3>3, LiveFewer
    <2> QED
      BY <1>3, <2>1, <2>2, <2>3, <2>4
  <1>4. ASSUME NEW e \in Peer, NEW c \in Conn, Greet(e, c) PROVE LiveInv'
    BY <1>0, <1>4, LiveGreet
  <1>5. ASSUME NEW e \in Peer, NEW c \in Conn, ReadEnds(e, c) PROVE LiveInv'
    BY <1>0, <1>5, LiveReadEnds
  <1>6. ASSUME NEW e \in Peer, NEW c \in Conn,
               ReadLength(e, c) \/ ReadFrame(e, c) \/ ReadGarbage(e, c) \/ Write(e, c)
                  \/ LoseTail(e, c)
        PROVE  LiveInv'
    BY <1>0, <1>6, LiveStill DEF ReadLength, ReadFrame, ReadGarbage, Write, LoseTail
  <1>7. ASSUME NEW m \in Msg, Route(m) \/ Broadcast(m) PROVE LiveInv'
    BY <1>0, <1>7, LiveStill DEF Route, Broadcast
  <1>8. ASSUME NEW c \in Conn, Lose(c) PROVE LiveInv'
    BY <1>0, <1>8, LiveStill DEF Lose
  <1>9. ASSUME NEW e \in Peer, Restart(e) PROVE LiveInv'
    BY <1>0, <1>9, LiveRestart
  <1>10. CASE UNCHANGED vars
    BY <1>0, <1>10, LiveStill DEF vars
  <1> QED
    BY <1>1, <1>2, <1>3, <1>4, <1>5, <1>6, <1>7, <1>8, <1>9, <1>10 DEF Next, SessionStep

LEMMA LiveInvariant == Spec => []LiveInv
  BY LiveInit, LiveStep, PTL DEF Spec

\* An entry in the live map is a session with that peer, running or ended in a
\* failed write.
THEOREM LiveEntries == Spec => []LiveIsSession
  <1>1. LiveInv => LiveIsSession
    BY DEF LiveInv
  <1> QED
    BY <1>1, LiveInvariant, PTL

\* Only overlapping connections make a peer with a running session look offline.
THEOREM UnlistedTakesTwo == Spec => []UnlistedNeedsTwo
  <1>1. LiveInv => UnlistedNeedsTwo
    <2> SUFFICES ASSUME LiveInv, NEW e \in Peer, NEW c \in Conn,
                        stage[e][c] \in {"listed", "select"}, live[e][Other(e, c)] = NoConn
                 PROVE  <<e, Other(e, c)>> \in doubled
      BY DEF UnlistedNeedsTwo
    <2> QED
      BY PeerAssumption DEF LiveInv, LiveOrTwo, Runs
  <1> QED
    BY <1>1, LiveInvariant, PTL

LEMMA WireIsBroadcast ==
    ASSUME TypeOK, Next, NEW m \in Msg, shown[m] # "wire", shown'[m] = "wire"
    PROVE  Broadcast(m)
  <1>1. shown' # shown
    OBVIOUS
  <1>2. ASSUME NEW n \in Msg, Route(n) PROVE FALSE
    <2>1. shown'[m] = shown[m] \/ shown'[m] \in {"routed", "mailbox", "failed"}
      BY <1>2 DEF Route, TypeOK
    <2> QED
      BY <2>1
  <1>3. ASSUME NEW e \in Peer, Restart(e) PROVE FALSE
    <2>1. shown'[m] = shown[m] \/ shown'[m] = "gone"
      BY <1>3 DEF Restart
    <2> QED
      BY <2>1
  <1>4. ASSUME NEW n \in Msg, Broadcast(n) PROVE n = m
    BY <1>4 DEF Broadcast, TypeOK
  <1>5. ASSUME NEW e \in Peer, NEW c \in Conn, SessionStep(e, c) PROVE FALSE
    BY <1>1, <1>5 DEF SessionStep, ReadLength, ReadFrame, ReadGarbage, ReadEnds, Write, WriteFails
  <1>6. ASSUME NEW e \in Peer, NEW c \in Conn,
               \/ Accept(e, c) \/ Greet(e, c) \/ GreetingFails(e, c) \/ Subscribe(e, c)
               \/ LoseTail(e, c)
        PROVE  FALSE
    BY <1>1, <1>6 DEF Accept, Greet, GreetingFails, Subscribe, LoseTail
  <1>7. ASSUME NEW e \in Peer, NEW p \in Peer, NEW c \in Conn, Connect(e, p, c) PROVE FALSE
    BY <1>1, <1>7 DEF Connect
  <1>8. ASSUME NEW e \in Peer, NEW p \in Peer, Dial(e, p) \/ DialFails(e, p) PROVE FALSE
    BY <1>1, <1>8 DEF Dial, DialFails
  <1>9. ASSUME NEW c \in Conn, Lose(c) PROVE FALSE
    BY <1>1, <1>9 DEF Lose
  <1> QED
    BY <1>2, <1>3, <1>4, <1>5, <1>6, <1>7, <1>8, <1>9 DEF Next

\* What deliver_to shows as Wire was handed to a session, unless the entry it
\* saw was of one that did not listen yet, or no more, or is gone: the live map
\* holds no other (LiveIsSession).
THEOREM WireNeedsEar == Spec => WireIsTakenUnlessDeaf
  <1>1. ASSUME LiveInv, Next, NEW m \in Msg, shown[m] # "wire", shown'[m] = "wire"
        PROVE  carried'[m] # {} \/ Deaf(From[m], live[From[m]][To[m]])
    <2>1. TypeOK /\ LiveIsSession /\ From[m] \in Peer /\ To[m] \in Peer
      BY <1>1, MsgAssumption DEF LiveInv
    <2>2. Broadcast(m)
      BY <1>1, <2>1, WireIsBroadcast
    <2> DEFINE e == From[m]
               c == live[e][To[m]]
    <2>3. CASE c \in Conn /\ stage[e][c] = "select"
      <3>1. EndsOf(c) = {e, To[m]}
        BY <2>1, <2>3 DEF LiveIsSession
      <3>2. Other(e, c) = To[m]
        BY <2>1, <2>3, <3>1, OtherEnd
      <3>3. c \in carried'[m]
        BY <1>1, <2>1, <2>2, <2>3, <3>2 DEF Broadcast, TypeOK
      <3> QED
        BY <3>3
    <2>4. CASE c \in Conn /\ stage[e][c] # "select"
      BY <2>1, <2>4 DEF LiveIsSession, Deaf
    <2>5. c \in Conn \cup {NoConn}
      BY <2>1 DEF TypeOK
    <2> QED
      BY <2>3, <2>4, <2>5 DEF Deaf
  <1>2. LiveInv /\ [Next]_vars =>
          [\A m \in Msg : shown[m] # "wire" /\ shown'[m] = "wire"
              => carried'[m] # {} \/ Deaf(From[m], live[From[m]][To[m]])]_vars
    BY <1>1
  <1> QED
    BY <1>2, LiveInvariant, PTL DEF Spec, WireIsTakenUnlessDeaf

(***************************************************************************)
(* What travels.  OnlyAddressee needs the same of what is on the wire.     *)
(* For Custody one must know that an op is only taken by sessions with its *)
(* addressee, and that the ends of such a connection were both there, so   *)
(* that neither comes back once it is gone (Took).                         *)
(***************************************************************************)

WireAddressed ==
    \A p \in Peer, c \in Conn : \A m \in Msg : InSeq(m, wire[p][c]) => To[m] = p

Addressed == WireAddressed /\ OnlyAddressee

Took ==
    \A m \in Msg : \A c \in carried[m] :
        /\ Other(From[m], c) = To[m]
        /\ stage[From[m]][c] \in {"select", "over", "dropped"}
        /\ stage[To[m]][c] # "none"

Held(m, c) == \/ InSeq(m, queue[From[m]][c])
              \/ InSeq(m, wire[To[m]][c])
              \/ m \in store[To[m]]

LEMMA InSeqFacts ==
    ASSUME NEW s \in Seq(Msg), NEW m \in Msg, NEW n \in Msg
    PROVE  /\ InSeq(m, Append(s, n)) <=> InSeq(m, s) \/ m = n
           /\ s # << >> => /\ InSeq(Head(s), s)
                           /\ InSeq(m, s) <=> m = Head(s) \/ InSeq(m, Tail(s))
                           /\ InSeq(m, SubSeq(s, 1, Len(s) - 1)) => InSeq(m, s)
           /\ ~ InSeq(m, << >>)
  <1>1. InSeq(m, Append(s, n)) <=> InSeq(m, s) \/ m = n
    <2>1. /\ Len(s) \in Nat
          /\ Len(Append(s, n)) = Len(s) + 1
          /\ \A i \in 1..Len(s) : Append(s, n)[i] = s[i]
          /\ Append(s, n)[Len(s) + 1] = n
      OBVIOUS
    <2>2. ASSUME InSeq(m, s) PROVE InSeq(m, Append(s, n))
      <3>1. PICK i \in 1..Len(s) : s[i] = m
        BY <2>2 DEF InSeq
      <3>2. i \in 1..Len(Append(s, n)) /\ Append(s, n)[i] = m
        BY <2>1, <3>1
      <3> QED
        BY <3>2 DEF InSeq
    <2>3. InSeq(n, Append(s, n))
      <3>1. Len(s) + 1 \in 1..Len(Append(s, n))
        BY <2>1
      <3> QED
        BY <2>1, <3>1 DEF InSeq
    <2>4. ASSUME InSeq(m, Append(s, n)), m # n PROVE InSeq(m, s)
      <3>1. PICK i \in 1..Len(Append(s, n)) : Append(s, n)[i] = m
        BY <2>4 DEF InSeq
      <3>2. i \in 1..Len(s) /\ s[i] = m
        BY <2>1, <2>4, <3>1
      <3> QED
        BY <3>2 DEF InSeq
    <2> QED
      BY <2>2, <2>3, <2>4
  <1>2. ASSUME s # << >> PROVE InSeq(Head(s), s)
    <2>1. 1 \in 1..Len(s) /\ Head(s) = s[1]
      BY <1>2
    <2> QED
      BY <2>1 DEF InSeq
  <1>3. ASSUME s # << >> PROVE InSeq(m, s) <=> m = Head(s) \/ InSeq(m, Tail(s))
    <2>1. /\ Len(s) \in Nat \ {0}
          /\ Len(Tail(s)) = Len(s) - 1
          /\ \A i \in 1..Len(s) - 1 : Tail(s)[i] = s[i + 1]
          /\ Head(s) = s[1]
      BY <1>3
    <2>2. ASSUME InSeq(m, s), m # Head(s) PROVE InSeq(m, Tail(s))
      <3>1. PICK i \in 1..Len(s) : s[i] = m
        BY <2>2 DEF InSeq
      <3>2. i - 1 \in 1..Len(Tail(s)) /\ Tail(s)[i - 1] = m
        BY <2>1, <2>2, <3>1
      <3> QED
        BY <3>2 DEF InSeq
    <2>3. ASSUME InSeq(m, Tail(s)) PROVE InSeq(m, s)
      <3>1. PICK i \in 1..Len(Tail(s)) : Tail(s)[i] = m
        BY <2>3 DEF InSeq
      <3>2. i + 1 \in 1..Len(s) /\ s[i + 1] = m
        BY <2>1, <3>1, SMTT(30)
      <3> QED
        BY <3>2 DEF InSeq
    <2> QED
      BY <1>2, <1>3, <2>2, <2>3
  <1>4. ASSUME s # << >>, InSeq(m, SubSeq(s, 1, Len(s) - 1)) PROVE InSeq(m, s)
    <2>1. PICK k \in Nat : Len(s) = k + 1
      <3>1. Len(s) \in Nat /\ Len(s) # 0
        BY <1>4
      <3>2. Len(s) - 1 \in Nat /\ Len(s) = (Len(s) - 1) + 1
        BY <3>1
      <3> QED
        BY <3>2
    <2> DEFINE t == SubSeq(s, 1, k)
    <2>2. 1 \in Int /\ k \in Int /\ \A i \in 1..k : s[i] \in Msg
      BY <2>1
    <2>3. /\ Len(t) = IF 1 <= k THEN k - 1 + 1 ELSE 0
          /\ \A i \in 1..k - 1 + 1 : t[i] = s[1 + i - 1]
      BY <2>2, SubSeqProperties
    <2>4. Len(s) - 1 = k
      BY <2>1
    <2>5. InSeq(m, t)
      BY <1>4, <2>4
    <2> HIDE DEF t
    <2>6. Len(t) = k /\ \A i \in 1..k : t[i] = s[i]
      BY <2>3
    <2>7. PICK i \in 1..Len(t) : t[i] = m
      BY <2>5 DEF InSeq
    <2>8. i \in 1..Len(s) /\ s[i] = m
      BY <2>1, <2>6, <2>7
    <2> QED
      BY <2>8, ZenonT(60) DEF InSeq
  <1>5. ~ InSeq(m, << >>)
    BY DEF InSeq
  <1> QED
    BY <1>1, <1>2, <1>3, <1>4, <1>5

LEMMA InReceived ==
    ASSUME NEW s \in Seq(Msg), NEW m \in Msg, NEW n \in Msg
    PROVE  /\ InSeq(n, Received(s, n))
           /\ InSeq(m, s) /\ Len(s) < QueueCap => InSeq(m, Received(s, n))
  <1>1. CASE Len(s) < QueueCap
    BY <1>1, InSeqFacts DEF Received
  <1>2. CASE ~(Len(s) < QueueCap)
    <2>1. Len(s) \in Nat /\ QueueCap \in Nat \ {0} /\ s # << >>
      BY <1>2, SessionBoundAssumption
    <2>2. Tail(s) \in Seq(Msg)
      BY <2>1
    <2> QED
      BY <1>2, <2>2, InSeqFacts DEF Received
  <1> QED
    BY <1>1, <1>2

LEMMA AddressStep == TypeOK /\ Addressed /\ [Next]_vars => Addressed'
  <1> SUFFICES ASSUME TypeOK, Addressed, [Next]_vars PROVE Addressed'
    OBVIOUS
  <1>0. /\ wire \in [Peer -> [Conn -> Seq(Msg)]]
        /\ store \in [Peer -> SUBSET Msg]
        /\ \A e \in Peer, c \in Conn : Other(e, c) \in Peer
    BY EndTypes DEF TypeOK
  \* It is enough that what is new on a wire or in a store is for that peer.
  <1>1. ASSUME \A p \in Peer, c \in Conn : \A m \in Msg :
                  InSeq(m, wire'[p][c]) => InSeq(m, wire[p][c]) \/ To[m] = p,
               \A p \in Peer : \A m \in store'[p] : m \in store[p] \/ To[m] = p
        PROVE  Addressed'
    BY <1>1 DEF Addressed, WireAddressed, OnlyAddressee
  <1>2. ASSUME wire' = wire, store' = store PROVE Addressed'
    BY <1>1, <1>2
  <1>3. ASSUME NEW e \in Peer, NEW c \in Conn, NEW s \in Seq(Msg),
               \A m \in Msg : InSeq(m, s) => InSeq(m, wire[e][c]) \/ To[m] = e,
               wire' = [wire EXCEPT ![e][c] = s],
               \A p \in Peer : \A m \in store'[p] : m \in store[p] \/ To[m] = p
        PROVE  Addressed'
    <2>1. \A p \in Peer, d \in Conn :
             wire'[p][d] = IF p = e /\ d = c THEN s ELSE wire[p][d]
      BY <1>0, <1>3
    <2> QED
      BY <1>1, <1>3, <2>1
  <1>4. ASSUME NEW e \in Peer, NEW c \in Conn, NEW how, Finish(e, c, how), store' = store
        PROVE  Addressed'
    <2>1. /\ << >> \in Seq(Msg) /\ wire' = [wire EXCEPT ![e][c] = << >>]
          /\ \A m \in Msg : ~ InSeq(m, << >>)
      BY <1>4 DEF Finish, InSeq
    <2> QED
      BY <1>3, <1>4, <2>1
  <1>5. ASSUME NEW e \in Peer, NEW p \in Peer, NEW c \in Conn, Connect(e, p, c) PROVE Addressed'
    <2>1. \A x \in Peer, d \in Conn :
             wire'[x][d] = IF d = c THEN << >> ELSE wire[x][d]
      BY <1>0, <1>5 DEF Connect
    <2>2. \A m \in Msg : ~ InSeq(m, << >>)
      BY DEF InSeq
    <2>3. store' = store
      BY <1>5 DEF Connect
    <2> QED
      BY <1>1, <2>1, <2>2, <2>3
  <1>6. ASSUME NEW e \in Peer, NEW c \in Conn, ReadFrame(e, c) PROVE Addressed'
    <2>1. /\ wire[e][c] \in Seq(Msg) /\ wire[e][c] # << >>
          /\ wire' = [wire EXCEPT ![e][c] = Tail(wire[e][c])]
          /\ store' = [store EXCEPT ![e] = @ \cup {Head(wire[e][c])}]
      BY <1>0, <1>6 DEF ReadFrame
    <2>2. Head(wire[e][c]) \in Msg /\ Tail(wire[e][c]) \in Seq(Msg)
      BY <2>1
    <2>3. To[Head(wire[e][c])] = e
      BY <2>1, <2>2, InSeqFacts DEF Addressed, WireAddressed
    <2>4. \A m \in Msg : InSeq(m, Tail(wire[e][c])) => InSeq(m, wire[e][c])
      BY <2>1, InSeqFacts
    <2>5. \A p \in Peer : \A m \in store'[p] : m \in store[p] \/ To[m] = p
      BY <1>0, <2>1, <2>3
    <2> QED
      BY <1>3, <2>1, <2>2, <2>4, <2>5
  <1>7. ASSUME NEW e \in Peer, NEW c \in Conn, ReadGarbage(e, c) PROVE Addressed'
    <2>1. /\ wire[e][c] \in Seq(Msg) /\ wire[e][c] # << >>
          /\ wire' = [wire EXCEPT ![e][c] = Tail(wire[e][c])]
          /\ store' = store
      BY <1>0, <1>7 DEF ReadGarbage
    <2>2. Tail(wire[e][c]) \in Seq(Msg)
      BY <2>1
    <2>3. \A m \in Msg : InSeq(m, Tail(wire[e][c])) => InSeq(m, wire[e][c])
      BY <2>1, InSeqFacts
    <2> QED
      BY <1>3, <2>1, <2>2, <2>3
  <1>8. ASSUME NEW e \in Peer, NEW c \in Conn, LoseTail(e, c) PROVE Addressed'
    <2> DEFINE s == SubSeq(wire[e][c], 1, Len(wire[e][c]) - 1)
    <2>1. /\ wire[e][c] \in Seq(Msg) /\ wire[e][c] # << >>
          /\ wire' = [wire EXCEPT ![e][c] = s]
          /\ store' = store
      BY <1>0, <1>8 DEF LoseTail
    <2>2. s \in Seq(Msg)
      BY <2>1, SeqFacts
    <2>3. \A m \in Msg : InSeq(m, s) => InSeq(m, wire[e][c])
      BY <2>1, InSeqFacts
    <2> QED
      BY <1>3, <2>1, <2>2, <2>3
  <1>9. ASSUME NEW e \in Peer, NEW c \in Conn, Write(e, c) PROVE Addressed'
    <2> DEFINE n == Head(queue[e][c])
               p == Other(e, c)
    <2>1. n \in Msg /\ p \in Peer /\ store' = store
      <3>1. queue[e][c] \in Seq(Msg) /\ queue[e][c] # << >> /\ store' = store
        BY <1>9 DEF Write, TypeOK
      <3> QED
        BY <1>0, <3>1
    <2>2. CASE wire' = wire
      BY <1>2, <2>1, <2>2
    <2>3. CASE To[n] = p /\ wire' = [wire EXCEPT ![p][c] = Append(@, n)]
      <3>1. wire[p][c] \in Seq(Msg) /\ Append(wire[p][c], n) \in Seq(Msg)
        BY <1>0, <2>1
      <3>2. wire' = [wire EXCEPT ![p][c] = Append(wire[p][c], n)]
        BY <2>3
      <3>3. \A m \in Msg : InSeq(m, Append(wire[p][c], n)) => InSeq(m, wire[p][c]) \/ To[m] = p
        BY <2>1, <2>3, <3>1, InSeqFacts
      <3> HIDE DEF n, p
      <3> QED
        BY <1>3, <2>1, <3>1, <3>2, <3>3, ZenonT(60)
    <2>4. \/ wire' = wire
          \/ To[n] = p /\ wire' = [wire EXCEPT ![p][c] = Append(@, n)]
      <3>1. CASE To[n] # p \/ Broken(e, c)
        BY <1>9, <3>1 DEF Write
      <3>2. CASE To[n] = p /\ ~ Broken(e, c)
        BY <1>9, <3>2 DEF Write
      <3> QED
        BY <3>1, <3>2
    <2> QED
      BY <2>2, <2>3, <2>4
  <1>10. ASSUME NEW e \in Peer, Restart(e) PROVE Addressed'
    <2>1. \A x \in Peer, d \in Conn :
             wire'[x][d] = IF x = e THEN << >> ELSE wire[x][d]
      BY <1>0, <1>10 DEF Restart
    <2>2. \A m \in Msg : ~ InSeq(m, << >>)
      BY DEF InSeq
    <2>3. store' = store
      BY <1>10 DEF Restart
    <2> QED
      BY <1>1, <2>1, <2>2, <2>3
  <1>11. ASSUME NEW e \in Peer, NEW p \in Peer, Dial(e, p) \/ DialFails(e, p) PROVE Addressed'
    BY <1>2, <1>11 DEF Dial, DialFails
  <1>12. ASSUME NEW e \in Peer, NEW c \in Conn,
                Accept(e, c) \/ Greet(e, c) \/ Subscribe(e, c) \/ ReadLength(e, c)
         PROVE  Addressed'
    BY <1>2, <1>12 DEF Accept, Greet, Subscribe, ReadLength
  <1>13. ASSUME NEW e \in Peer, NEW c \in Conn,
                GreetingFails(e, c) \/ ReadEnds(e, c) \/ WriteFails(e, c)
         PROVE  Addressed'
    BY <1>4, <1>13 DEF GreetingFails, ReadEnds, WriteFails
  <1>14. ASSUME NEW m \in Msg, Route(m) \/ Broadcast(m) PROVE Addressed'
    BY <1>2, <1>14 DEF Route, Broadcast
  <1>15. ASSUME NEW c \in Conn, Lose(c) PROVE Addressed'
    BY <1>2, <1>15 DEF Lose
  <1>16. CASE UNCHANGED vars
    BY <1>2, <1>16 DEF vars
  <1>17. ASSUME NEW e \in Peer, NEW c \in Conn, SessionStep(e, c) PROVE Addressed'
    BY <1>6, <1>7, <1>9, <1>12, <1>13, <1>17 DEF SessionStep
  <1> QED
    BY <1>5, <1>8, <1>10, <1>11, <1>12, <1>13, <1>14, <1>15, <1>16, <1>17 DEF Next

\* Nobody but its addressee ever records an op.
THEOREM AddresseeAlone == Spec => []OnlyAddressee
  <1>1. Init => TypeOK /\ Addressed
    BY TypeInit DEF Init, Addressed, WireAddressed, OnlyAddressee, InSeq
  <1>2. TypeOK /\ Addressed /\ [Next]_vars => TypeOK' /\ Addressed'
    BY TypeStep, AddressStep
  <1>3. Addressed => OnlyAddressee
    BY DEF Addressed
  <1> QED
    BY <1>1, <1>2, <1>3, PTL DEF Spec

CustodyInv == LiveInv /\ Took /\ Custody

\* A step that sets back no session and loses nothing on an intact connection.
LEMMA CustodyKept ==
    ASSUME CustodyInv, ends' = ends, carried' = carried,
           \A e \in Peer, c \in Conn :
              /\ stage[e][c] # "none" => stage'[e][c] # "none"
              /\ stage[e][c] \in {"select", "over", "dropped"}
                    => stage'[e][c] \in {"select", "over", "dropped"},
           \A m \in Msg : \A c \in carried[m] :
              Intact(m, c)' => Intact(m, c) /\ (Held(m, c) => Held(m, c)')
    PROVE  Took' /\ Custody'
  <1>1. \A e \in Peer, c \in Conn : Other(e, c)' = Other(e, c)
    BY DEF Other
  <1>2. \A m \in Msg : From[m] \in Peer /\ To[m] \in Peer /\ carried[m] \subseteq Conn
    BY MsgAssumption DEF CustodyInv, LiveInv, TypeOK
  <1>3. Took'
    BY <1>1, <1>2 DEF CustodyInv, Took
  <1>4. \A m \in Msg : \A c \in carried[m] : Intact(m, c) => Held(m, c)
    BY DEF CustodyInv, Custody, Held
  <1>5. Custody'
    BY <1>4 DEF Custody, Held
  <1> QED
    BY <1>3, <1>5

LEMMA CustodyStep == CustodyInv /\ [Next]_vars => Took' /\ Custody'
  <1> SUFFICES ASSUME CustodyInv, [Next]_vars PROVE Took' /\ Custody'
    OBVIOUS
  <1>1. /\ ends \in [Conn -> [dialer : Peer, acceptor : Peer]]
        /\ status \in [Conn -> {"open", "closed"}]
        /\ stage \in [Peer -> [Conn -> Stage]]
        /\ queue \in [Peer -> [Conn -> Seq(Msg)]]
        /\ wire \in [Peer -> [Conn -> Seq(Msg)]]
        /\ reading \in [Peer -> [Conn -> {"between", "inside", "lost"}]]
        /\ store \in [Peer -> SUBSET Msg]
        /\ carried \in [Msg -> SUBSET Conn]
    BY DEF CustodyInv, LiveInv, TypeOK
  <1>2. \A m \in Msg : /\ From[m] \in Peer /\ To[m] \in Peer /\ From[m] # To[m]
                        /\ carried[m] \subseteq Conn
    BY <1>1, MsgAssumption, ContactAssumption
  <1>3. \A m \in Msg : \A c \in carried[m] :
           /\ Other(From[m], c) = To[m]
           /\ stage[From[m]][c] \in {"select", "over", "dropped"}
           /\ stage[To[m]][c] # "none"
    BY DEF CustodyInv, Took
  <1>4. ASSUME UNCHANGED <<ends, status, stage, queue, wire, reading, store, carried, lagged>>
        PROVE  Took' /\ Custody'
    BY <1>4, CustodyKept DEF Intact, Held
  \* A session that gets on, with nothing taken from the queues and the wires.
  <1>5. ASSUME NEW e \in Peer, NEW c \in Conn,
               \/ stage[e][c] = "none" /\ stage' = [stage EXCEPT ![e][c] = "greeting"]
               \/ stage[e][c] = "greeting" /\ stage' = [stage EXCEPT ![e][c] = "listed"]
               \/ stage[e][c] = "listed" /\ stage' = [stage EXCEPT ![e][c] = "select"],
               UNCHANGED <<ends, status, queue, wire, reading, store, carried, lagged>>
        PROVE  Took' /\ Custody'
    <2>1. /\ \A x \in Peer, d \in Conn : ~(x = e /\ d = c) => stage'[x][d] = stage[x][d]
          /\ stage[e][c] \notin {"select", "over", "dropped"}
          /\ stage'[e][c] \in {"greeting", "listed", "select"}
          /\ stage[e][c] = "none" \/ stage[e][c] \in {"greeting", "listed", "select"}
      <3>1. /\ stage[e][c] \in {"none", "greeting", "listed"}
            /\ \E v \in {"greeting", "listed", "select"} : stage' = [stage EXCEPT ![e][c] = v]
        BY <1>5
      <3>2. PICK v \in {"greeting", "listed", "select"} : stage' = [stage EXCEPT ![e][c] = v]
        BY <3>1
      <3>3. \A x \in Peer, d \in Conn :
               stage'[x][d] = IF x = e /\ d = c THEN v ELSE stage[x][d]
        BY <1>1, <3>2
      <3> QED
        BY <3>1, <3>3
    <2>2. \A m \in Msg : \A d \in carried[m] :
             Intact(m, d)' => Intact(m, d) /\ (Held(m, d) => Held(m, d)')
      <3> SUFFICES ASSUME NEW m \in Msg, NEW d \in carried[m], Intact(m, d)'
                   PROVE  Intact(m, d) /\ (Held(m, d) => Held(m, d)')
        OBVIOUS
      <3>1. ~(From[m] = e /\ d = c)
        BY <1>3, <2>1
      <3>2. stage[From[m]][d] = stage'[From[m]][d]
        BY <1>2, <2>1, <3>1
      <3>3. stage[To[m]][d] \in {"greeting", "listed", "select"}
        <4>1. CASE To[m] = e /\ d = c
          BY <1>3, <2>1, <4>1
        <4>2. CASE ~(To[m] = e /\ d = c)
          BY <1>2, <2>1, <4>2 DEF Intact
        <4> QED
          BY <4>1, <4>2
      <3>4. Intact(m, d)
        BY <1>5, <3>2, <3>3 DEF Intact
      <3> QED
        BY <1>5, <3>4 DEF Held
    <2>3. \A x \in Peer, d \in Conn :
              /\ stage[x][d] # "none" => stage'[x][d] # "none"
              /\ stage[x][d] \in {"select", "over", "dropped"}
                    => stage'[x][d] \in {"select", "over", "dropped"}
      BY <2>1
    <2> QED
      BY <1>5, <2>2, <2>3, CustodyKept
  \* The end of a session.
  <1>6. ASSUME NEW e \in Peer, NEW c \in Conn, NEW how \in {"over", "dropped"},
               Finish(e, c, how), stage[e][c] # "none",
               UNCHANGED <<ends, status, store, carried, lagged>>
        PROVE  Took' /\ Custody'
    <2>1. /\ \A x \in Peer, d \in Conn :
                ~(x = e /\ d = c) => /\ stage'[x][d] = stage[x][d]
                                     /\ queue'[x][d] = queue[x][d]
                                     /\ wire'[x][d] = wire[x][d]
                                     /\ reading'[x][d] = reading[x][d]
          /\ stage'[e][c] \in {"over", "dropped"}
      BY <1>1, <1>6 DEF Finish
    <2>2. \A m \in Msg : \A d \in carried[m] :
             Intact(m, d)' => Intact(m, d) /\ (Held(m, d) => Held(m, d)')
      <3> SUFFICES ASSUME NEW m \in Msg, NEW d \in carried[m], Intact(m, d)'
                   PROVE  Intact(m, d) /\ (Held(m, d) => Held(m, d)')
        OBVIOUS
      <3>1. ~(From[m] = e /\ d = c) /\ ~(To[m] = e /\ d = c)
        BY <2>1 DEF Intact
      <3> QED
        BY <1>2, <1>6, <2>1, <3>1 DEF Intact, Held
    <2>3. \A x \in Peer, d \in Conn :
              /\ stage[x][d] # "none" => stage'[x][d] # "none"
              /\ stage[x][d] \in {"select", "over", "dropped"}
                    => stage'[x][d] \in {"select", "over", "dropped"}
      BY <2>1
    <2> QED
      BY <1>6, <2>2, <2>3, CustodyKept
  <1>7. ASSUME NEW e \in Peer, NEW p \in Peer, NEW c \in Conn, Connect(e, p, c)
        PROVE  Took' /\ Custody'
    <2>1. \A x \in Peer, d \in Conn :
             d # c => /\ Other(x, d)' = Other(x, d)
                      /\ status'[d] = status[d]
                      /\ stage'[x][d] = stage[x][d]
                      /\ queue'[x][d] = queue[x][d]
                      /\ wire'[x][d] = wire[x][d]
                      /\ reading'[x][d] = reading[x][d]
                      /\ <<x, d>> \in lagged => <<x, d>> \in lagged'
      BY <1>1, <1>7 DEF Connect, Other
    <2>2. /\ \A m \in Msg : carried'[m] = carried[m] \ {c}
          /\ store' = store
      BY <1>1, <1>7 DEF Connect
    <2>3. Took'
      <3> SUFFICES ASSUME NEW m \in Msg, NEW d \in carried'[m]
                   PROVE  /\ Other(From[m], d)' = To[m]
                          /\ stage'[From[m]][d] \in {"select", "over", "dropped"}
                          /\ stage'[To[m]][d] # "none"
        BY DEF Took
      <3>1. d # c /\ d \in carried[m] /\ d \in Conn
        BY <1>2, <2>2
      <3>2. /\ Other(From[m], d) = To[m]
            /\ stage[From[m]][d] \in {"select", "over", "dropped"}
            /\ stage[To[m]][d] # "none"
        BY <1>3, <3>1
      <3>3. Other(From[m], d)' = Other(From[m], d)
        BY <1>2, <2>1, <3>1
      <3>4. stage'[From[m]][d] = stage[From[m]][d] /\ stage'[To[m]][d] = stage[To[m]][d]
        BY <1>2, <2>1, <3>1
      <3> QED
        BY <3>2, <3>3, <3>4
    <2>4. Custody'
      <3> SUFFICES ASSUME NEW m \in Msg, NEW d \in carried'[m], Intact(m, d)'
                   PROVE  Held(m, d)'
        BY DEF Custody, Held
      <3>1. d # c /\ d \in carried[m] /\ d \in Conn
        BY <1>2, <2>2
      <3>2. /\ From[m] \in Peer /\ To[m] \in Peer /\ store' = store
            /\ Intact(m, d)'
        BY <1>2, <2>2
      <3>3. /\ status'[d] = status[d]
            /\ \A x \in {From[m], To[m]} :
                  /\ stage'[x][d] = stage[x][d] /\ queue'[x][d] = queue[x][d]
                  /\ wire'[x][d] = wire[x][d] /\ reading'[x][d] = reading[x][d]
                  /\ <<x, d>> \in lagged => <<x, d>> \in lagged'
        BY <2>1, <3>1, <3>2, SMTT(30)
      <3>4. Intact(m, d)
        BY ONLY <3>2, <3>3 DEF Intact
      <3>5. Held(m, d)
        BY <3>1, <3>4 DEF CustodyInv, Custody, Held
      <3> QED
        BY ONLY <3>2, <3>3, <3>5 DEF Held
    <2> QED
      BY <2>3, <2>4
  \* From here on no session's state changes but by a restart.
  <1>8. ASSUME UNCHANGED <<ends, stage, carried>>,
               \A m \in Msg : \A c \in carried[m] :
                  Intact(m, c)' => Intact(m, c) /\ (Held(m, c) => Held(m, c)')
        PROVE  Took' /\ Custody'
    BY <1>8, CustodyKept
  <1>9. ASSUME NEW e \in Peer, NEW c \in Conn, ReadLength(e, c) PROVE Took' /\ Custody'
    <2>1. /\ \A x \in Peer, d \in Conn : reading'[x][d] # "lost" => reading[x][d] # "lost"
          /\ UNCHANGED <<ends, status, stage, queue, wire, store, carried, lagged>>
      BY <1>1, <1>9 DEF ReadLength
    <2> QED
      BY <1>2, <1>8, <2>1 DEF Intact, Held
  <1>10. ASSUME NEW e \in Peer, NEW c \in Conn, ReadFrame(e, c) PROVE Took' /\ Custody'
    <2>1. /\ UNCHANGED <<ends, status, stage, queue, carried, lagged>>
          /\ \A x \in Peer, d \in Conn : reading'[x][d] # "lost" => reading[x][d] # "lost"
          /\ \A x \in Peer, d \in Conn :
                wire'[x][d] = IF x = e /\ d = c THEN Tail(wire[x][d]) ELSE wire[x][d]
          /\ \A x \in Peer : store[x] \subseteq store'[x]
          /\ Head(wire[e][c]) \in store'[e]
          /\ wire[e][c] \in Seq(Msg) /\ wire[e][c] # << >>
      BY <1>1, <1>10, ZenonT(60) DEF ReadFrame
    <2>2. \A m \in Msg : InSeq(m, wire[e][c]) => InSeq(m, Tail(wire[e][c])) \/ m \in store'[e]
      BY <2>1, InSeqFacts
    <2>3. \A m \in Msg : \A d \in carried[m] :
             Intact(m, d)' => Intact(m, d) /\ (Held(m, d) => Held(m, d)')
      <3> SUFFICES ASSUME NEW m \in Msg, NEW d \in carried[m], Intact(m, d)'
                   PROVE  Intact(m, d) /\ (Held(m, d) => Held(m, d)')
        OBVIOUS
      <3>1. Intact(m, d)
        BY <1>2, <2>1 DEF Intact
      <3>2. Held(m, d) => Held(m, d)'
        BY <1>2, <2>1, <2>2 DEF Held
      <3> QED
        BY <3>1, <3>2
    <2> QED
      BY <1>8, <2>1, <2>3
  <1>11. ASSUME NEW e \in Peer, NEW c \in Conn, ReadGarbage(e, c) PROVE Took' /\ Custody'
    <2>1. /\ UNCHANGED <<ends, status, stage, queue, reading, store, carried, lagged>>
          /\ \A x \in Peer, d \in Conn : ~(x = e /\ d = c) => wire'[x][d] = wire[x][d]
          /\ reading[e][c] = "lost"
      BY <1>1, <1>11 DEF ReadGarbage
    <2> QED
      BY <1>2, <1>8, <2>1 DEF Intact, Held
  <1>12. ASSUME NEW e \in Peer, NEW c \in Conn, Write(e, c) PROVE Took' /\ Custody'
    <2> DEFINE n == Head(queue[e][c])
               p == Other(e, c)
    <2>1. /\ UNCHANGED <<ends, status, stage, store, carried, lagged>>
          /\ \A x \in Peer, d \in Conn : reading'[x][d] # "lost" => reading[x][d] # "lost"
          /\ \A x \in Peer, d \in Conn :
                queue'[x][d] = IF x = e /\ d = c THEN Tail(queue[x][d]) ELSE queue[x][d]
          /\ queue[e][c] \in Seq(Msg) /\ queue[e][c] # << >>
      <3>1. /\ UNCHANGED <<ends, status, stage, store, carried, lagged>>
            /\ queue[e][c] \in Seq(Msg) /\ queue[e][c] # << >>
        BY <1>1, <1>12 DEF Write
      <3>2. \A x \in Peer, d \in Conn : reading'[x][d] # "lost" => reading[x][d] # "lost"
        BY <1>1, <1>12 DEF Write, Interrupted
      <3>3. queue' = [queue EXCEPT ![e][c] = Tail(queue[e][c])]
        BY <1>12 DEF Write
      <3>4. \A x \in Peer, d \in Conn :
               queue'[x][d] = IF x = e /\ d = c THEN Tail(queue[x][d]) ELSE queue[x][d]
        BY <1>1, <3>3
      <3> QED
        BY <3>1, <3>2, <3>4
    <2>2. n \in Msg /\ p \in Peer
      BY <1>1, <2>1, EndTypes
    <2>3. \A m \in Msg : InSeq(m, queue[e][c]) => InSeq(m, Tail(queue[e][c])) \/ m = n
      BY <2>1, InSeqFacts
    <2>4. /\ \A x \in Peer, d \in Conn, m \in Msg : InSeq(m, wire[x][d]) => InSeq(m, wire'[x][d])
          /\ To[n] = p /\ ~ Broken(e, c) => InSeq(n, wire'[p][c])
      <3>1. CASE To[n] = p /\ ~ Broken(e, c)
        <4>1. wire' = [wire EXCEPT ![p][c] = Append(@, n)]
          BY <1>12, <3>1 DEF Write
        <4>2. \A x \in Peer, d \in Conn :
                 wire'[x][d] = IF x = p /\ d = c THEN Append(wire[x][d], n) ELSE wire[x][d]
          BY <1>1, <2>2, <4>1
        <4>3. wire[p][c] \in Seq(Msg)
          BY <1>1, <2>2
        <4> HIDE DEF n, p
        <4> QED
          BY <2>2, <4>2, <4>3, InSeqFacts
      <3>2. CASE ~(To[n] = p /\ ~ Broken(e, c))
        <4>1. wire' = wire
          BY <1>12, <3>2 DEF Write
        <4> QED
          BY <3>2, <4>1
      <3> QED
        BY <3>1, <3>2
    <2>5. \A m \in Msg : \A d \in carried[m] :
             Intact(m, d)' => Intact(m, d) /\ (Held(m, d) => Held(m, d)')
      <3> SUFFICES ASSUME NEW m \in Msg, NEW d \in carried[m], Intact(m, d)'
                   PROVE  Intact(m, d) /\ (Held(m, d) => Held(m, d)')
        OBVIOUS
      <3>1. Intact(m, d)
        BY <1>2, <2>1 DEF Intact
      <3>2. ASSUME From[m] = e, d = c, m = n PROVE InSeq(m, wire'[To[m]][d])
        <4>1. To[n] = p
          BY <1>3, <3>2
        <4>2. ~ Broken(e, c)
          BY <3>1, <3>2, <4>1 DEF Broken, Intact
        <4> QED
          BY <2>4, <3>2, <4>1, <4>2
      <3> HIDE DEF n, p
      <3>3. CASE InSeq(m, queue[From[m]][d])
        <4>1. InSeq(m, queue'[From[m]][d]) \/ (From[m] = e /\ d = c /\ m = n)
          BY <1>2, <2>1, <2>3, <3>3
        <4> QED
          BY <3>1, <3>2, <4>1 DEF Held
      <3>4. CASE ~ InSeq(m, queue[From[m]][d])
        BY <1>2, <2>1, <2>4, <3>1, <3>4 DEF Held
      <3> QED
        BY <3>3, <3>4
    <2> QED
      BY <1>8, <2>1, <2>5
  <1>13. ASSUME NEW n \in Msg, Broadcast(n) PROVE Took' /\ Custody'
    <2> DEFINE e == From[n]
               there == {c \in Conn : stage[e][c] = "select"}
    <2>1. /\ UNCHANGED <<ends, status, stage, wire, reading, store>>
          /\ \A x \in Peer, d \in Conn :
                queue'[x][d] = IF x = e /\ d \in there THEN Received(queue[x][d], n)
                               ELSE queue[x][d]
          /\ carried' = [carried EXCEPT ![n] = {c \in there : Other(e, c) = To[n]}]
          /\ lagged' = lagged \cup {<<e, c>> : c \in {d \in there : Len(queue[e][d]) = QueueCap}}
      BY <1>1, <1>2, <1>13 DEF Broadcast
    <2>2. /\ carried'[n] = {c \in there : Other(e, c) = To[n]}
          /\ \A m \in Msg \ {n} : carried'[m] = carried[m]
      BY <1>1, <2>1
    <2>3. \A x \in Peer, d \in Conn : Other(x, d)' = Other(x, d)
      BY <2>1 DEF Other
    <2>4. \A d \in there : stage[Other(e, d)][d] # "none"
      BY <1>2 DEF CustodyInv, LiveInv, Met, Runs
    <2>5. Took'
      <3> SUFFICES ASSUME NEW m \in Msg, NEW d \in carried'[m]
                   PROVE  /\ Other(From[m], d) = To[m]
                          /\ stage[From[m]][d] \in {"select", "over", "dropped"}
                          /\ stage[To[m]][d] # "none"
        BY <2>1 DEF Took, Other
      <3>1. CASE m = n
        BY <2>2, <2>4, <3>1
      <3>2. CASE m # n
        BY <1>3, <2>2, <3>2
      <3> QED
        BY <3>1, <3>2
    <2>6. Custody'
      <3> SUFFICES ASSUME NEW m \in Msg, NEW d \in carried'[m], Intact(m, d)'
                   PROVE  Held(m, d)'
        BY DEF Custody, Held
      <3>1. CASE m = n
        <4>1. d \in Conn /\ d \in there /\ queue[e][d] \in Seq(Msg) /\ e \in Peer
          BY <1>1, <1>2, <2>2, <3>1
        <4>2. InSeq(n, Received(queue[e][d], n))
          BY <4>1, InReceived
        <4> QED
          BY <2>1, <3>1, <4>1, <4>2 DEF Held
      <3>2. CASE m # n
        <4>1. d \in carried[m] /\ d \in Conn /\ From[m] \in Peer
          BY <1>2, <2>2, <3>2
        <4>2. Intact(m, d)
          BY <2>1, <3>2 DEF Intact
        <4>3. Held(m, d)
          BY <4>1, <4>2 DEF CustodyInv, Custody, Held
        <4>4. ASSUME From[m] = e, d \in there, InSeq(m, queue[e][d])
              PROVE  InSeq(m, Received(queue[e][d], n))
          <5>1. <<e, d>> \notin lagged'
            BY <4>4 DEF Intact
          <5>2. Len(queue[e][d]) # QueueCap
            BY <2>1, <4>4, <5>1
          <5>3. Len(queue[e][d]) <= QueueCap /\ queue[e][d] \in Seq(Msg)
            BY <1>2, <4>1 DEF CustodyInv, LiveInv, TypeOK
          <5>4. Len(queue[e][d]) < QueueCap
            BY <5>2, <5>3, SessionBoundAssumption
          <5> QED
            BY <4>4, <5>3, <5>4, InReceived
        <4>5. InSeq(m, queue[From[m]][d]) => InSeq(m, queue'[From[m]][d])
          BY <2>1, <4>1, <4>4
        <4> QED
          BY <2>1, <4>3, <4>5 DEF Held
      <3> QED
        BY <3>1, <3>2
    <2> QED
      BY <2>5, <2>6
  <1>14. ASSUME NEW c \in Conn, Lose(c) PROVE Took' /\ Custody'
    <2>1. /\ UNCHANGED <<ends, stage, queue, wire, reading, store, carried, lagged>>
          /\ \A d \in Conn : status'[d] = "open" => status[d] = "open"
      BY <1>1, <1>14 DEF Lose
    <2> QED
      BY <1>2, <1>8, <2>1 DEF Intact, Held
  <1>15. ASSUME NEW e \in Peer, NEW c \in Conn, LoseTail(e, c) PROVE Took' /\ Custody'
    <2>1. /\ UNCHANGED <<ends, status, stage, queue, reading, store, carried, lagged>>
          /\ \A x \in Peer, d \in Conn : ~(x = e /\ d = c) => wire'[x][d] = wire[x][d]
          /\ status[c] = "closed"
      BY <1>1, <1>15 DEF LoseTail
    <2> QED
      BY <1>2, <1>8, <2>1 DEF Intact, Held
  <1>16. ASSUME NEW e \in Peer, Restart(e) PROVE Took' /\ Custody'
    <2>1. /\ UNCHANGED <<ends, store, carried, lagged>>
          /\ \A x \in Peer, d \in Conn :
                x # e => /\ stage'[x][d] = stage[x][d]
                         /\ queue'[x][d] = queue[x][d]
                         /\ wire'[x][d] = wire[x][d]
                         /\ reading'[x][d] = reading[x][d]
          /\ \A d \in Conn : stage'[e][d] = IF stage[e][d] = "none" THEN "none" ELSE "over"
          /\ \A d \in Conn : status'[d] = "open" => status[d] = "open"
      BY <1>1, <1>16 DEF Restart
    <2>2. \A m \in Msg : \A d \in carried[m] :
             Intact(m, d)' => Intact(m, d) /\ (Held(m, d) => Held(m, d)')
      <3> SUFFICES ASSUME NEW m \in Msg, NEW d \in carried[m], Intact(m, d)'
                   PROVE  Intact(m, d) /\ (Held(m, d) => Held(m, d)')
        OBVIOUS
      <3>1. From[m] # e /\ To[m] # e
        BY <1>2, <2>1 DEF Intact
      <3> QED
        BY <1>2, <2>1, <3>1 DEF Intact, Held
    <2>3. \A x \in Peer, d \in Conn :
              /\ stage[x][d] # "none" => stage'[x][d] # "none"
              /\ stage[x][d] \in {"select", "over", "dropped"}
                    => stage'[x][d] \in {"select", "over", "dropped"}
      BY <2>1
    <2> QED
      BY <2>1, <2>2, <2>3, CustodyKept
  <1>17. ASSUME NEW e \in Peer, NEW p \in Peer, Dial(e, p) \/ DialFails(e, p)
         PROVE  Took' /\ Custody'
    BY <1>4, <1>17 DEF Dial, DialFails
  <1>18. ASSUME NEW e \in Peer, NEW c \in Conn, Accept(e, c) \/ Greet(e, c) \/ Subscribe(e, c)
         PROVE  Took' /\ Custody'
    BY <1>5, <1>18 DEF Accept, Greet, Subscribe
  <1>19. ASSUME NEW e \in Peer, NEW c \in Conn,
                GreetingFails(e, c) \/ ReadEnds(e, c) \/ WriteFails(e, c)
         PROVE  Took' /\ Custody'
    BY <1>6, <1>19 DEF GreetingFails, ReadEnds, WriteFails
  <1>20. ASSUME NEW m \in Msg, Route(m) PROVE Took' /\ Custody'
    BY <1>4, <1>20 DEF Route
  <1>21. CASE UNCHANGED vars
    BY <1>4, <1>21 DEF vars
  <1>22. ASSUME NEW e \in Peer, NEW c \in Conn, SessionStep(e, c) PROVE Took' /\ Custody'
    BY <1>9, <1>10, <1>11, <1>12, <1>19, <1>22 DEF SessionStep
  <1> QED
    BY <1>7, <1>13, <1>14, <1>15, <1>16, <1>17, <1>18, <1>19, <1>20, <1>21, <1>22 DEF Next

\* An op that a session took is not lost while both ends stay intact.
THEOREM CustodyIsKept == Spec => []Custody
  <1>1. Init => CustodyInv
    BY LiveInit DEF Init, CustodyInv, Took, Custody
  <1>2. CustodyInv /\ [Next]_vars => CustodyInv'
    BY LiveStep, CustodyStep DEF CustodyInv
  <1>3. CustodyInv => Custody
    BY DEF CustodyInv
  <1> QED
    BY <1>1, <1>2, <1>3, PTL DEF Spec
=============================================================================
