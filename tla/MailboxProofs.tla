---------------------------- MODULE MailboxProofs ----------------------------
(***************************************************************************)
(* For any endpoints, letters, quotas and bounds: offline mail is lost     *)
(* only by the hub giving a row id away twice, and not at all while no     *)
(* mail expires and no DELETE is handled after its client gave it up.      *)
(***************************************************************************)
EXTENDS MailboxQuota, FiniteSetTheorems, TLAPS

USE DEF hubVars, senderVars, loopVars

LEMMA Addresses == \A l \in Letter : From[l] \in Peer /\ To[l] \in Peer
  BY AddressAssumption

LEMMA TypeInit == Init => TypeOK
  <1> SUFFICES ASSUME Init PROVE TypeOK
    OBVIOUS
  <1>1. 0 \in 0..MaxCrashes
    BY BoundAssumption
  <1> QED
    BY <1>1 DEF Init, TypeOK, HandlerState, TaskState, LoopState

LEMMA TypeStep == TypeOK /\ [Next]_vars => TypeOK'
  <1> SUFFICES ASSUME TypeOK, [Next]_vars PROVE TypeOK'
    OBVIOUS
  <1> USE DEF TypeOK
  <1>1. ASSUME NEW l \in Letter, Dispatch(l) PROVE TypeOK'
    BY <1>1 DEF Dispatch, TaskState
  <1>2. ASSUME NEW l \in Letter, Seal(l) PROVE TypeOK'
    BY <1>2 DEF Seal, TaskState, HandlerState
  <1>3. ASSUME NEW l \in Letter, GiveUp(l) PROVE TypeOK'
    BY <1>3 DEF GiveUp, TaskState
  <1>4. ASSUME NEW l \in Letter, Confirm(l) PROVE TypeOK'
    BY <1>4 DEF Confirm, TaskState
  <1>5. ASSUME NEW l \in Letter, ReceivePost(l) PROVE TypeOK'
    BY <1>5 DEF ReceivePost, HandlerStep, HandlerState
  <1>6. ASSUME NEW l \in Letter, CheckSenderQuota(l) PROVE TypeOK'
    BY <1>6 DEF CheckSenderQuota, HandlerStep, HandlerState
  <1>7. ASSUME NEW l \in Letter, CheckMailboxQuota(l) PROVE TypeOK'
    BY <1>7 DEF CheckMailboxQuota, HandlerStep, HandlerState
  <1>8. ASSUME NEW l \in Letter, PutMail(l) PROVE TypeOK'
    <2>1. PICK n \in RowId : /\ mail' = mail \cup {[id |-> n, letter |-> l]}
                             /\ owners' = [owners EXCEPT ![n] = @ \cup {l}]
      BY <1>8 DEF PutMail
    <2>2. mail' \subseteq Row
      BY <2>1 DEF Row
    <2>3. owners' \in [RowId -> SUBSET Letter]
      BY <2>1
    <2>4. handler' \in [Letter -> HandlerState]
      BY <1>8 DEF PutMail, HandlerStep, HandlerState
    <2> QED
      BY <1>8, <2>2, <2>3, <2>4 DEF PutMail
  <1>9. ASSUME Sweep PROVE TypeOK'
    <2>1. mail' \subseteq mail /\ swept' \subseteq Letter
      BY <1>9 DEF Sweep, Row
    <2> QED
      BY <1>9, <2>1 DEF Sweep
  <1>10. ASSUME DeleteLate PROVE TypeOK'
    <2>1. mail' \subseteq mail /\ late' \subseteq late
      BY <1>10 DEF DeleteLate
    <2> QED
      BY <1>10, <2>1 DEF DeleteLate
  <1>11. ASSUME NEW p \in Peer, Start(p) PROVE TypeOK'
    BY <1>11 DEF Start, LoopStep, LoopState
  <1>12. ASSUME NEW p \in Peer, PublishPrekey(p) PROVE TypeOK'
    BY <1>12 DEF PublishPrekey, LoopStep, LoopState
  <1>13. ASSUME NEW p \in Peer, Fetch(p) PROVE TypeOK'
    BY <1>13 DEF Fetch, LoopStep, LoopState, RowsFor
  <1>14. ASSUME NEW p \in Peer, Absorb(p) PROVE TypeOK'
    <2>1. PICK r \in Row : /\ store' = [store EXCEPT ![p] = @ \cup {r.letter}]
                           /\ batch' = [batch EXCEPT ![p] = @ \ {r}]
                           /\ collected' = [collected EXCEPT ![p] = @ \cup {r.id}]
      BY <1>14 DEF Absorb
    <2>2. r.letter \in Letter /\ r.id \in RowId
      BY DEF Row
    <2> QED
      BY <1>14, <2>1, <2>2 DEF Absorb
  <1>15. ASSUME NEW p \in Peer, AbsorbFails(p) PROVE TypeOK'
    BY <1>15 DEF AbsorbFails
  <1>16. ASSUME NEW p \in Peer, FinishBatch(p) PROVE TypeOK'
    BY <1>16 DEF FinishBatch, LoopStep, LoopState
  <1>17. ASSUME NEW p \in Peer, DeleteMail(p) PROVE TypeOK'
    BY <1>17 DEF DeleteMail, LoopStep, LoopState
  <1>18. ASSUME NEW p \in Peer, Abandoned(p)
         PROVE  late' \subseteq [peer : Peer, ids : SUBSET RowId]
    BY <1>18 DEF Abandoned
  <1>19. ASSUME NEW p \in Peer, DeleteFails(p) PROVE TypeOK'
    BY <1>18, <1>19 DEF DeleteFails, LoopStep, LoopState
  <1>20. ASSUME NEW p \in Peer, Crash(p) PROVE TypeOK'
    <2>1. crashes' \in 0..MaxCrashes
      BY <1>20, BoundAssumption DEF Crash
    <2>2. task' \in [Letter -> TaskState]
      BY <1>20 DEF Crash, TaskState
    <2>3. loop' \in [Peer -> LoopState]
      BY <1>20 DEF Crash, LoopState
    <2> QED
      BY <1>18, <1>20, <2>1, <2>2, <2>3 DEF Crash
  <1>21. ASSUME HubCrash PROVE TypeOK'
    <2>1. crashes' \in 0..MaxCrashes
      <3>1. crashes < MaxCrashes /\ crashes' = crashes + 1 /\ crashes \in 0..MaxCrashes
        BY <1>21 DEF HubCrash
      <3> QED
        BY <3>1, BoundAssumption
    <2>2. handler' \in [Letter -> HandlerState]
      BY <1>21 DEF HubCrash, HandlerState
    <2> QED
      BY <1>21, <2>1, <2>2 DEF HubCrash
  <1>22. CASE UNCHANGED vars
    BY <1>22 DEF vars
  <1> QED
    BY <1>1, <1>2, <1>3, <1>4, <1>5, <1>6, <1>7, <1>8, <1>9, <1>10, <1>11, <1>12,
       <1>13, <1>14, <1>15, <1>16, <1>17, <1>19, <1>20, <1>21, <1>22
       DEF Next, SenderNext, HubNext, LoopNext, CrashNext

\* Type correctness of the three parties' state.
THEOREM MailboxTyped == Spec => []TypeOK
  BY TypeInit, TypeStep, PTL DEF Spec

(***************************************************************************)
(* Loss takes a reused id.  NothingLost is not inductive: a DELETE deletes *)
(* by id, so one must know what every id in hand, be it in a client's      *)
(* collected list or in a late request, was given to (OwnersInv).          *)
(***************************************************************************)

ReuseInv == TypeOK /\ OwnersInv /\ LossNeedsReuse

\* The history of ids, and the stores, only grow.
Grows == /\ \A n \in RowId : owners[n] \subseteq owners'[n]
         /\ \A p \in Peer : store[p] \subseteq store'[p]

LEMMA TakenStays ==
    ASSUME TypeOK, Grows, NEW p \in Peer, NEW n \in RowId, TakenBy(p, n)
    PROVE  TakenBy(p, n)'
  BY DEF TakenBy, Grows, TypeOK

\* What it takes to keep NothingLost (unless an id was reused) in a step: the
\* hub accepts only what it files, and a row leaves the hub for a reason.
LEMMA LossStep ==
    ASSUME TypeOK, TypeOK', LossNeedsReuse, Grows, swept \subseteq swept',
           \A l \in Letter : handler'[l] = "accepted" =>
                handler[l] = "accepted" \/ \E r \in mail' : r.letter = l,
           NoReuse => \A r \in mail \ mail' :
                r.letter \in swept' \/ r.letter \in store'[To[r.letter]]
    PROVE  LossNeedsReuse'
  <1> SUFFICES ASSUME NoReuse', NEW l \in Letter, handler'[l] = "accepted"
               PROVE  OnHub(l)' \/ Stored(l)' \/ l \in swept'
    BY DEF LossNeedsReuse, NothingLost
  <1>1. NoReuse
    BY DEF NoReuse, Grows, TypeOK
  <1>2. CASE handler[l] = "accepted"
    <2>1. OnHub(l) \/ Stored(l) \/ l \in swept
      BY <1>1, <1>2 DEF LossNeedsReuse, NothingLost
    <2>2. CASE OnHub(l)
      BY <1>1, <2>2 DEF OnHub, Stored
    <2>3. CASE Stored(l)
      BY <2>3, Addresses DEF Stored, Grows
    <2> QED
      BY <2>1, <2>2, <2>3
  <1>3. CASE handler[l] # "accepted"
    BY <1>3 DEF OnHub
  <1> QED
    BY <1>2, <1>3

LEMMA ReuseInit == Init => ReuseInv
  <1> SUFFICES ASSUME Init PROVE ReuseInv
    OBVIOUS
  <1>1. OwnersInv /\ NothingLost
    BY DEF Init, OwnersInv, NothingLost
  <1> QED
    BY <1>1, TypeInit DEF ReuseInv, LossNeedsReuse

\* Steps that touch no row, no id in hand and no store.
NoRowStep ==
    /\ UNCHANGED <<mail, owners, batch, collected, store, late, swept>>
    /\ \A l \in Letter : handler'[l] = "accepted" => handler[l] = "accepted"

LEMMA NoRowSteps ==
    ASSUME TypeOK,
           \/ SenderNext
           \/ \E l \in Letter : ReceivePost(l) \/ CheckSenderQuota(l) \/ CheckMailboxQuota(l)
           \/ \E p \in Peer : Start(p) \/ PublishPrekey(p) \/ FinishBatch(p)
           \/ HubCrash
    PROVE  NoRowStep
  <1> USE DEF NoRowStep
  <1>1. ASSUME NEW l \in Letter, NEW s \in HandlerState, NEW t \in HandlerState,
               HandlerStep(l, s, t), t # "accepted"
        PROVE  \A k \in Letter : handler'[k] = "accepted" => handler[k] = "accepted"
    BY <1>1 DEF HandlerStep, TypeOK
  <1>2. CASE SenderNext
    BY <1>2 DEF SenderNext, Dispatch, Seal, GiveUp, Confirm, TypeOK
  <1>3. ASSUME NEW l \in Letter, ReceivePost(l) PROVE NoRowStep
    BY <1>1, <1>3 DEF ReceivePost, HandlerState
  <1>4. ASSUME NEW l \in Letter, CheckSenderQuota(l) PROVE NoRowStep
    BY <1>1, <1>4 DEF CheckSenderQuota, HandlerState
  <1>5. ASSUME NEW l \in Letter, CheckMailboxQuota(l) PROVE NoRowStep
    BY <1>1, <1>5 DEF CheckMailboxQuota, HandlerState
  <1>6. ASSUME NEW p \in Peer, Start(p) \/ PublishPrekey(p) \/ FinishBatch(p) PROVE NoRowStep
    BY <1>6 DEF Start, PublishPrekey, FinishBatch
  <1>7. CASE HubCrash
    BY <1>7 DEF HubCrash
  <1> QED
    BY <1>2, <1>3, <1>4, <1>5, <1>6, <1>7

LEMMA ReuseQuiet ==
    ASSUME ReuseInv, TypeOK', NoRowStep PROVE ReuseInv'
  <1>1. OwnersInv'
    BY DEF ReuseInv, NoRowStep, OwnersInv, TakenBy
  <1>2. LossNeedsReuse'
    BY LossStep DEF ReuseInv, NoRowStep, Grows, OnHub
  <1> QED
    BY <1>1, <1>2 DEF ReuseInv

LEMMA ReusePut ==
    ASSUME ReuseInv, TypeOK', NEW l \in Letter, PutMail(l) PROVE ReuseInv'
  <1> USE DEF ReuseInv
  <1>1. PICK n \in RowId : /\ mail' = mail \cup {[id |-> n, letter |-> l]}
                           /\ owners' = [owners EXCEPT ![n] = @ \cup {l}]
    BY DEF PutMail
  <1>2. /\ UNCHANGED <<batch, collected, store, late, swept>>
        /\ handler' = [handler EXCEPT ![l] = "accepted"]
    BY DEF PutMail, HandlerStep
  <1>3. Grows
    BY <1>1, <1>2 DEF Grows, TypeOK
  <1>4. \A r \in mail' : r.letter \in owners'[r.id]
    BY <1>1 DEF OwnersInv, TypeOK, Row
  <1>5. \A p \in Peer : \A r \in batch'[p] : r.letter \in owners'[r.id] /\ To[r.letter] = p
    BY <1>2, <1>3 DEF OwnersInv, TypeOK, Row, Grows
  <1>6. \A p \in Peer : \A i \in collected'[p] : TakenBy(p, i)'
    BY <1>2, <1>3, TakenStays DEF OwnersInv, TypeOK
  <1>7. \A d \in late' : \A i \in d.ids : TakenBy(d.peer, i)'
    BY <1>2, <1>3, TakenStays DEF OwnersInv, TypeOK
  <1>8. LossNeedsReuse'
    <2>1. \A k \in Letter : handler'[k] = "accepted" =>
             handler[k] = "accepted" \/ \E r \in mail' : r.letter = k
      <3>1. [id |-> n, letter |-> l] \in mail' /\ [id |-> n, letter |-> l].letter = l
        BY <1>1
      <3>2. \A k \in Letter : k # l => handler'[k] = handler[k]
        BY <1>2 DEF TypeOK
      <3> QED
        BY <3>1, <3>2
    <2> QED
      BY <1>1, <1>2, <1>3, <2>1, LossStep
  <1> QED
    BY <1>4, <1>5, <1>6, <1>7, <1>8 DEF OwnersInv

LEMMA ReuseSweep ==
    ASSUME ReuseInv, TypeOK', Sweep PROVE ReuseInv'
  <1> USE DEF ReuseInv
  <1>1. /\ mail' \subseteq mail /\ swept \subseteq swept'
        /\ \A r \in mail \ mail' : r.letter \in swept'
        /\ UNCHANGED <<handler, owners, batch, collected, store, late>>
    BY DEF Sweep
  <1>2. OwnersInv'
    BY <1>1 DEF OwnersInv, TakenBy
  <1>3. LossNeedsReuse'
    BY <1>1, LossStep DEF Grows
  <1> QED
    BY <1>2, <1>3

\* Deleting rows by ids that were all taken by the recipient.
LEMMA TakenRows ==
    ASSUME TypeOK, OwnersInv, NoReuse, NEW p \in Peer, NEW ids \in SUBSET RowId,
           \A n \in ids : TakenBy(p, n)
    PROVE  \A r \in Deleted(p, ids) : r.letter \in store[To[r.letter]]
  <1> SUFFICES ASSUME NEW r \in Deleted(p, ids) PROVE r.letter \in store[To[r.letter]]
    OBVIOUS
  <1>1. r \in mail /\ To[r.letter] = p /\ r.id \in ids
    BY DEF Deleted, RowsFor
  <1>2. PICK l \in owners[r.id] : To[l] = p /\ l \in store[p]
    BY <1>1 DEF TakenBy
  <1>3. r.letter \in owners[r.id] /\ r.id \in RowId
    BY <1>1 DEF OwnersInv, TypeOK, Row
  <1> QED
    BY <1>1, <1>2, <1>3 DEF NoReuse

LEMMA ReuseDelete ==
    ASSUME ReuseInv, TypeOK', NEW p \in Peer, DeleteMail(p) PROVE ReuseInv'
  <1> USE DEF ReuseInv
  <1>1. /\ mail' = mail \ Deleted(p, collected[p])
        /\ collected' = [collected EXCEPT ![p] = {}]
        /\ UNCHANGED <<handler, owners, batch, store, late, swept>>
    BY DEF DeleteMail
  <1>2. OwnersInv'
    BY <1>1 DEF OwnersInv, TakenBy, TypeOK
  <1>3. collected[p] \subseteq RowId /\ \A n \in collected[p] : TakenBy(p, n)
    BY DEF OwnersInv, TypeOK
  <1>4. NoReuse => \A r \in mail \ mail' : r.letter \in store'[To[r.letter]]
    BY <1>1, <1>3, TakenRows
  <1>5. LossNeedsReuse'
    BY <1>1, <1>4, LossStep DEF Grows
  <1> QED
    BY <1>2, <1>5

LEMMA ReuseLate ==
    ASSUME ReuseInv, TypeOK', DeleteLate PROVE ReuseInv'
  <1> USE DEF ReuseInv
  <1>1. PICK d \in late : /\ mail' = mail \ Deleted(d.peer, d.ids)
                          /\ late' = late \ {d}
    BY DEF DeleteLate
  <1>2. UNCHANGED <<handler, owners, batch, collected, store, swept>>
    BY DEF DeleteLate
  <1>3. OwnersInv'
    BY <1>1, <1>2 DEF OwnersInv, TakenBy
  <1>4. d.peer \in Peer /\ d.ids \subseteq RowId /\ \A n \in d.ids : TakenBy(d.peer, n)
    BY DEF OwnersInv, TypeOK
  <1>5. NoReuse => \A r \in mail \ mail' : r.letter \in store'[To[r.letter]]
    BY <1>1, <1>2, <1>4, TakenRows
  <1>6. LossNeedsReuse'
    BY <1>1, <1>2, <1>5, LossStep DEF Grows
  <1> QED
    BY <1>3, <1>6

LEMMA ReuseFetch ==
    ASSUME ReuseInv, TypeOK', NEW p \in Peer, Fetch(p) PROVE ReuseInv'
  <1> USE DEF ReuseInv
  <1>1. /\ batch' = [batch EXCEPT ![p] = RowsFor(p)]
        /\ UNCHANGED <<mail, handler, owners, collected, store, late, swept>>
    BY DEF Fetch
  <1>2. OwnersInv'
    BY <1>1 DEF OwnersInv, TakenBy, TypeOK, RowsFor
  <1>3. LossNeedsReuse'
    BY <1>1, LossStep DEF Grows
  <1> QED
    BY <1>2, <1>3

LEMMA ReuseAbsorb ==
    ASSUME ReuseInv, TypeOK', NEW p \in Peer, Absorb(p) PROVE ReuseInv'
  <1> USE DEF ReuseInv
  <1>1. PICK r \in Row : /\ r \in batch[p]
                         /\ store' = [store EXCEPT ![p] = @ \cup {r.letter}]
                         /\ batch' = [batch EXCEPT ![p] = @ \ {r}]
                         /\ collected' = [collected EXCEPT ![p] = @ \cup {r.id}]
    BY DEF Absorb, IsNextOf
  <1>2. UNCHANGED <<mail, handler, owners, late, swept>>
    BY DEF Absorb
  <1>3. Grows
    BY <1>1, <1>2 DEF Grows, TypeOK
  <1>4. TakenBy(p, r.id)'
    BY <1>1, <1>2, SMTT(30) DEF TakenBy, OwnersInv, TypeOK
  <1>5. \A q \in Peer : \A n \in collected'[q] : TakenBy(q, n)'
    <2> SUFFICES ASSUME NEW q \in Peer, NEW n \in collected'[q] PROVE TakenBy(q, n)'
      OBVIOUS
    <2>1. n \in collected[q] \/ (q = p /\ n = r.id)
      BY <1>1 DEF TypeOK
    <2>2. CASE n \in collected[q]
      BY <1>3, <2>2, TakenStays DEF OwnersInv, TypeOK
    <2> QED
      BY <1>4, <2>1, <2>2
  <1>6. \A d \in late' : \A n \in d.ids : TakenBy(d.peer, n)'
    BY <1>2, <1>3, TakenStays DEF OwnersInv, TypeOK
  <1>7. \A q \in Peer : \A s \in batch'[q] : s.letter \in owners'[s.id] /\ To[s.letter] = q
    BY <1>1, <1>2 DEF OwnersInv, TypeOK
  <1>8. LossNeedsReuse'
    BY <1>2, <1>3, LossStep
  <1> QED
    BY <1>2, <1>5, <1>6, <1>7, <1>8 DEF OwnersInv

\* A client that gives up or dies keeps nothing in hand; the DELETE it leaves
\* behind names ids it had collected.
LEMMA ReuseAbandon ==
    ASSUME ReuseInv, TypeOK', NEW p \in Peer,
           AbsorbFails(p) \/ DeleteFails(p) \/ Crash(p)
    PROVE  ReuseInv'
  <1> USE DEF ReuseInv
  <1>1. /\ UNCHANGED <<mail, handler, owners, store, swept>>
        /\ \A q \in Peer : batch'[q] \subseteq batch[q] /\ collected'[q] \subseteq collected[q]
    BY SMTT(30) DEF AbsorbFails, DeleteFails, Crash, TypeOK
  <1>2. \A d \in late' : d \in late \/ d = [peer |-> p, ids |-> collected[p]]
    BY DEF AbsorbFails, DeleteFails, Crash, Abandoned
  <1>3. OwnersInv'
    BY <1>1, <1>2 DEF OwnersInv, TakenBy
  <1>4. LossNeedsReuse'
    BY <1>1, LossStep DEF Grows
  <1> QED
    BY <1>3, <1>4

LEMMA ReuseStep == ReuseInv /\ [Next]_vars => ReuseInv'
  <1> SUFFICES ASSUME ReuseInv, [Next]_vars PROVE ReuseInv'
    OBVIOUS
  <1>1. TypeOK /\ TypeOK'
    BY TypeStep DEF ReuseInv
  <1>2. CASE UNCHANGED vars
    BY <1>1, <1>2, ReuseQuiet DEF vars, NoRowStep
  <1>3. CASE NoRowStep
    BY <1>1, <1>3, ReuseQuiet
  <1>4. ASSUME NEW l \in Letter, PutMail(l) PROVE ReuseInv'
    BY <1>1, <1>4, ReusePut
  <1>5. CASE Sweep \/ DeleteLate
    BY <1>1, <1>5, ReuseSweep, ReuseLate
  <1>6. ASSUME NEW p \in Peer,
               \/ Fetch(p) \/ Absorb(p) \/ DeleteMail(p)
               \/ AbsorbFails(p) \/ DeleteFails(p) \/ Crash(p)
        PROVE  ReuseInv'
    BY <1>1, <1>6, ReuseFetch, ReuseAbsorb, ReuseDelete, ReuseAbandon
  <1> QED
    BY <1>1, <1>2, <1>3, <1>4, <1>5, <1>6, NoRowSteps
       DEF Next, HubNext, LoopNext, CrashNext

\* Mail is lost only if the hub gives one row id to two letters.
THEOREM LossTakesReuse == Spec => []LossNeedsReuse
  <1>1. ReuseInv => LossNeedsReuse
    BY DEF ReuseInv
  <1> QED
    BY <1>1, ReuseInit, ReuseStep, PTL DEF Spec

(***************************************************************************)
(* With no sweep and no late DELETE nothing is lost at all.  An id in hand *)
(* is then still that of the row it was fetched from (RowsInHandStay).     *)
(***************************************************************************)

QuietInv == TypeOK /\ RowsInHandStay /\ NothingLost

LEMMA QuietInit == Init => QuietInv
  <1> SUFFICES ASSUME Init PROVE QuietInv
    OBVIOUS
  <1>1. RowsInHandStay /\ NothingLost
    BY DEF Init, RowsInHandStay, NothingLost
  <1> QED
    BY <1>1, TypeInit DEF QuietInv

LEMMA QuietNoRow ==
    ASSUME QuietInv, TypeOK', NoRowStep,
           \A p \in Peer : loop'[p] # "absorbing" => loop[p] # "absorbing" \/ batch[p] = {}
    PROVE  QuietInv'
  BY DEF QuietInv, NoRowStep, RowsInHandStay, NothingLost, OnHub, Stored, RowsFor

LEMMA QuietPut ==
    ASSUME QuietInv, TypeOK', NEW l \in Letter, PutMail(l) PROVE QuietInv'
  <1> USE DEF QuietInv
  <1>1. PICK n \in RowId : /\ \A r \in mail : r.id < n
                           /\ mail' = mail \cup {[id |-> n, letter |-> l]}
    BY DEF PutMail, IsNextRow
  <1>2. /\ UNCHANGED <<loop, batch, collected, store, late, swept>>
        /\ handler' = [handler EXCEPT ![l] = "accepted"]
    BY DEF PutMail, HandlerStep
  <1>3. \A r \in mail : r.id # n
    BY <1>1 DEF TypeOK, Row, RowId
  <1>4. \A r, s \in mail' : r.id = s.id => r = s
    BY <1>1, <1>3 DEF RowsInHandStay
  <1>5. \A p \in Peer : RowsFor(p) \subseteq RowsFor(p)'
    BY <1>1 DEF RowsFor
  <1>6. RowsInHandStay'
    BY <1>2, <1>4, <1>5 DEF RowsInHandStay, TypeOK
  <1>7. NothingLost'
    <2>1. [id |-> n, letter |-> l] \in mail' /\ [id |-> n, letter |-> l].letter = l
      BY <1>1
    <2>2. OnHub(l)'
      BY <2>1 DEF OnHub
    <2>3. \A k \in Letter : k # l => handler'[k] = handler[k]
      BY <1>2 DEF TypeOK
    <2>4. \A k \in Letter : OnHub(k) => OnHub(k)'
      BY <1>1 DEF OnHub
    <2> QED
      BY <1>2, <2>2, <2>3, <2>4 DEF NothingLost, Stored
  <1> QED
    BY <1>6, <1>7

LEMMA QuietFetch ==
    ASSUME QuietInv, TypeOK', NEW p \in Peer, Fetch(p) PROVE QuietInv'
  <1> USE DEF QuietInv
  <1>1. /\ batch' = [batch EXCEPT ![p] = RowsFor(p)]
        /\ loop' = [loop EXCEPT ![p] = "absorbing"]
        /\ UNCHANGED <<mail, handler, collected, store, late, swept>>
    BY DEF Fetch, LoopStep
  <1>2. RowsInHandStay'
    BY <1>1 DEF RowsInHandStay, RowsFor, TypeOK
  <1> QED
    BY <1>1, <1>2 DEF NothingLost, OnHub, Stored

LEMMA QuietAbsorb ==
    ASSUME QuietInv, TypeOK', NEW p \in Peer, Absorb(p) PROVE QuietInv'
  <1> USE DEF QuietInv
  <1>1. PICK r \in Row : /\ r \in batch[p]
                         /\ store' = [store EXCEPT ![p] = @ \cup {r.letter}]
                         /\ batch' = [batch EXCEPT ![p] = @ \ {r}]
                         /\ collected' = [collected EXCEPT ![p] = @ \cup {r.id}]
    BY DEF Absorb, IsNextOf
  <1>2. UNCHANGED <<mail, handler, loop, late, swept>>
    BY DEF Absorb
  <1>3. r \in RowsFor(p)
    BY <1>1 DEF RowsInHandStay
  <1>4. \A q \in Peer : store[q] \subseteq store'[q] /\ batch'[q] \subseteq batch[q]
    BY <1>1 DEF TypeOK
  <1>5. \A q \in Peer : \A n \in collected'[q] : n \in collected[q] \/ (q = p /\ n = r.id)
    BY <1>1 DEF TypeOK
  <1>6. r.letter \in store'[p]
    BY <1>1 DEF TypeOK
  <1>7. \A q \in Peer : \A n \in collected'[q] :
           \E s \in RowsFor(q) : s.id = n /\ s.letter \in store'[q]
    BY <1>3, <1>4, <1>5, <1>6 DEF RowsInHandStay
  <1>8. RowsInHandStay'
    BY <1>2, <1>4, <1>7 DEF RowsInHandStay, RowsFor
  <1>9. NothingLost'
    BY <1>2, <1>4, Addresses DEF NothingLost, OnHub, Stored
  <1> QED
    BY <1>8, <1>9

LEMMA QuietDelete ==
    ASSUME QuietInv, TypeOK', NEW p \in Peer, DeleteMail(p) PROVE QuietInv'
  <1> USE DEF QuietInv
  <1>1. /\ mail' = mail \ Deleted(p, collected[p])
        /\ collected' = [collected EXCEPT ![p] = {}]
        /\ loop[p] = "clearing" /\ loop' = [loop EXCEPT ![p] = "idle"]
        /\ UNCHANGED <<handler, batch, store, late, swept>>
    BY DEF DeleteMail, LoopStep
  <1>2. \A q \in Peer : q # p => RowsFor(q)' = RowsFor(q)
    BY <1>1 DEF RowsFor, Deleted
  <1>3. batch[p] = {}
    BY <1>1 DEF RowsInHandStay
  <1>4. \A q \in Peer : q # p => collected'[q] = collected[q]
    BY <1>1 DEF TypeOK
  <1>5. collected'[p] = {}
    BY <1>1 DEF TypeOK
  <1>6. \A q \in Peer : loop'[q] # "absorbing" => batch'[q] = {}
    BY <1>1, <1>3 DEF RowsInHandStay, TypeOK
  <1>7. RowsInHandStay'
    BY <1>1, <1>2, <1>3, <1>4, <1>5, <1>6 DEF RowsInHandStay
  <1>8. ASSUME NEW r \in Deleted(p, collected[p]) PROVE r.letter \in store[To[r.letter]]
    <2>1. r \in mail /\ To[r.letter] = p /\ r.id \in collected[p]
      BY DEF Deleted, RowsFor
    <2>2. PICK s \in RowsFor(p) : s.id = r.id /\ s.letter \in store[p]
      BY <2>1 DEF RowsInHandStay
    <2>3. s = r
      BY <2>1, <2>2 DEF RowsInHandStay, RowsFor
    <2> QED
      BY <2>1, <2>2, <2>3
  <1>9. NothingLost'
    BY <1>1, <1>8 DEF NothingLost, OnHub, Stored
  <1> QED
    BY <1>7, <1>9

LEMMA QuietAbandon ==
    ASSUME QuietInv, TypeOK', ~ MayLag, NEW p \in Peer,
           AbsorbFails(p) \/ DeleteFails(p) \/ Crash(p)
    PROVE  QuietInv'
  <1> USE DEF QuietInv
  <1>1. UNCHANGED <<mail, handler, store, late, swept>>
    BY DEF AbsorbFails, DeleteFails, Crash, Abandoned
  <1>2. \A q \in Peer : batch'[q] \subseteq batch[q] /\ collected'[q] \subseteq collected[q]
    BY SMTT(30) DEF AbsorbFails, DeleteFails, Crash, TypeOK
  <1>3. \A q \in Peer : loop'[q] # "absorbing" => loop[q] # "absorbing" \/ batch'[q] = {}
    BY DEF AbsorbFails, DeleteFails, LoopStep, Crash, TypeOK
  <1>4. RowsInHandStay'
    BY <1>1, <1>2, <1>3 DEF RowsInHandStay, RowsFor
  <1>5. NothingLost'
    BY <1>1 DEF NothingLost, OnHub, Stored
  <1> QED
    BY <1>4, <1>5

LEMMA QuietStep ==
    ASSUME ~ MayExpire, ~ MayLag
    PROVE  QuietInv /\ [Next]_vars => QuietInv'
  <1> SUFFICES ASSUME QuietInv, [Next]_vars PROVE QuietInv'
    OBVIOUS
  <1>1. TypeOK /\ TypeOK' /\ late = {}
    BY TypeStep DEF QuietInv, RowsInHandStay
  <1>2. CASE UNCHANGED vars
    BY <1>1, <1>2, QuietNoRow DEF vars, NoRowStep
  <1>3. CASE SenderNext \/ HubCrash \/ \E l \in Letter :
               ReceivePost(l) \/ CheckSenderQuota(l) \/ CheckMailboxQuota(l)
    <2>1. loop' = loop
      BY <1>3 DEF SenderNext, Dispatch, Seal, GiveUp, Confirm, HubCrash,
                  ReceivePost, CheckSenderQuota, CheckMailboxQuota
    <2> QED
      BY <1>1, <1>3, <2>1, NoRowSteps, QuietNoRow
  <1>4. ASSUME NEW p \in Peer, Start(p) \/ PublishPrekey(p) \/ FinishBatch(p)
        PROVE  QuietInv'
    <2>1. \A q \in Peer : loop'[q] # "absorbing" => loop[q] # "absorbing" \/ batch[q] = {}
      BY <1>1, <1>4 DEF Start, PublishPrekey, FinishBatch, LoopStep, TypeOK
    <2> QED
      BY <1>1, <1>4, <2>1, NoRowSteps, QuietNoRow
  <1>5. ASSUME NEW l \in Letter, PutMail(l) PROVE QuietInv'
    BY <1>1, <1>5, QuietPut
  <1>6. ~ Sweep /\ ~ DeleteLate
    BY <1>1 DEF Sweep, DeleteLate
  <1>7. ASSUME NEW p \in Peer,
               \/ Fetch(p) \/ Absorb(p) \/ DeleteMail(p)
               \/ AbsorbFails(p) \/ DeleteFails(p) \/ Crash(p)
        PROVE  QuietInv'
    BY <1>1, <1>7, QuietFetch, QuietAbsorb, QuietDelete, QuietAbandon
  <1> QED
    BY <1>2, <1>3, <1>4, <1>5, <1>6, <1>7 DEF Next, HubNext, LoopNext, CrashNext

\* Without sweeps and late DELETEs, no letter the hub took is ever lost,
\* whatever crashes, times out or turns out not to open.
THEOREM NoLoss ==
    ASSUME ~ MayExpire, ~ MayLag
    PROVE  Spec => []NothingLost
  <1>1. QuietInv => NothingLost
    BY DEF QuietInv
  <1> QED
    BY <1>1, QuietInit, QuietStep, PTL DEF Spec

(***************************************************************************)
(* Under the same hypotheses each step of the mailbox is one of            *)
(* OfflineDelivery, or none: only put_mail accepts a letter, once, and     *)
(* only the first absorb of it delivers it.                                *)
(***************************************************************************)

\* What is filed or stored was accepted, and what is yet to be posted was not.
Filed == /\ swept = {}
         /\ \A l \in Letter : OnHub(l) \/ Stored(l) => handler[l] = "accepted"
         /\ \A l \in Letter : task[l] \in {"idle", "prekey"} => handler[l] = "none"

PromiseInv == QuietInv /\ Filed

LEMMA FiledInit == Init => Filed
  BY Addresses DEF Init, Filed, OnHub, Stored

\* The handler of a letter goes on from "none" only by the task that posts it,
\* and never from "accepted".
HandlersGoOn ==
    /\ swept' = swept
    /\ \A l \in Letter : handler[l] = "accepted" => handler'[l] = "accepted"
    /\ \A l \in Letter : task'[l] \in {"idle", "prekey"} =>
          task[l] \in {"idle", "prekey"} /\ (handler[l] = "none" => handler'[l] = "none")

LEMMA FiledKept ==
    ASSUME Filed, HandlersGoOn,
           \A l \in Letter : OnHub(l)' \/ Stored(l)' =>
                OnHub(l) \/ Stored(l) \/ handler'[l] = "accepted"
    PROVE  Filed'
  BY DEF Filed, HandlersGoOn

\* No step but Sweep is excepted.
LEMMA HandlerSteps ==
    ASSUME TypeOK, Filed, [Next]_vars, ~ Sweep
    PROVE  HandlersGoOn
  <1> USE DEF HandlersGoOn
  <1>1. ASSUME NEW l \in Letter, NEW s, NEW t, HandlerStep(l, s, t),
               s \notin {"none", "accepted"}, task' = task, swept' = swept
        PROVE  HandlersGoOn
    BY <1>1 DEF HandlerStep, TypeOK
  <1>2. ASSUME NEW l \in Letter, Dispatch(l) \/ GiveUp(l) \/ Confirm(l) PROVE HandlersGoOn
    BY <1>2 DEF Dispatch, GiveUp, Confirm, TypeOK
  <1>3. ASSUME NEW l \in Letter, Seal(l) PROVE HandlersGoOn
    BY <1>3 DEF Seal, Filed, TypeOK
  <1>4. ASSUME NEW l \in Letter,
               ReceivePost(l) \/ CheckSenderQuota(l) \/ CheckMailboxQuota(l) \/ PutMail(l)
        PROVE  HandlersGoOn
    <2>1. task' = task /\ swept' = swept
      BY <1>4 DEF ReceivePost, CheckSenderQuota, CheckMailboxQuota, PutMail
    <2>2. CASE ReceivePost(l)
      BY <1>1, <2>1, <2>2 DEF ReceivePost
    <2>3. CASE CheckSenderQuota(l)
      BY <1>1, <2>1, <2>3 DEF CheckSenderQuota
    <2>4. CASE CheckMailboxQuota(l)
      BY <1>1, <2>1, <2>4 DEF CheckMailboxQuota
    <2>5. CASE PutMail(l)
      BY <1>1, <2>1, <2>5 DEF PutMail
    <2> QED
      BY <1>4, <2>2, <2>3, <2>4, <2>5
  <1>5. CASE DeleteLate \/ LoopNext \/ UNCHANGED vars
    BY <1>5 DEF DeleteLate, LoopNext, Start, PublishPrekey, Fetch, Absorb, AbsorbFails,
                FinishBatch, DeleteMail, DeleteFails, vars
  <1>6. ASSUME NEW p \in Peer, Crash(p) PROVE HandlersGoOn
    BY <1>6 DEF Crash, TypeOK
  <1>7. CASE HubCrash
    BY <1>7 DEF HubCrash, TypeOK
  <1> QED
    BY <1>2, <1>3, <1>4, <1>5, <1>6, <1>7 DEF Next, SenderNext, HubNext, CrashNext

\* No letter has the status "lost".
LEMMA StatusIs ==
    ASSUME NothingLost, NothingLost', Filed, Filed'
    PROVE  /\ Status = [l \in Letter |-> IF Stored(l) THEN "delivered"
                                         ELSE IF OnHub(l) THEN "held" ELSE "unsent"]
           /\ Status' = [l \in Letter |-> IF Stored(l)' THEN "delivered"
                                          ELSE IF OnHub(l)' THEN "held" ELSE "unsent"]
  BY DEF Status, NothingLost, Filed

\* One letter goes on from one status to the next.
LEMMA StatusMoves ==
    ASSUME NothingLost, NothingLost', Filed, Filed', NEW l \in Letter,
           \A k \in Letter : k # l => /\ Stored(k)' <=> Stored(k)
                                      /\ ~Stored(k) => (OnHub(k)' <=> OnHub(k)),
           \/ Stored(l) /\ Stored(l)'
           \/ ~Stored(l) /\ ~Stored(l)' /\ OnHub(l)'
           \/ ~Stored(l) /\ OnHub(l) /\ Stored(l)'
    PROVE  [Promise!Next]_Status
  <1>1. CASE Stored(l) /\ Stored(l)'
    <2>1. Status' = Status
      BY <1>1, StatusIs
    <2> QED
      BY <2>1
  <1>2. CASE ~Stored(l) /\ ~Stored(l)' /\ OnHub(l)' /\ OnHub(l)
    <2>1. Status' = Status
      BY <1>2, StatusIs
    <2> QED
      BY <2>1
  <1>3. CASE ~Stored(l) /\ ~Stored(l)' /\ OnHub(l)' /\ ~OnHub(l)
    <2>1. Status[l] = "unsent" /\ Status' = [Status EXCEPT ![l] = "held"]
      BY <1>3, StatusIs
    <2> QED
      BY <2>1 DEF Promise!Next, Promise!Accept
  <1>4. CASE ~Stored(l) /\ OnHub(l) /\ Stored(l)'
    <2>1. Status[l] = "held" /\ Status' = [Status EXCEPT ![l] = "delivered"]
      BY <1>4, StatusIs
    <2> QED
      BY <2>1 DEF Promise!Next, Promise!Deliver
  <1> QED
    BY <1>1, <1>2, <1>3, <1>4

\* A step that changes no table and no store, or deletes what is stored.
LEMMA StatusStays ==
    ASSUME NothingLost, NothingLost', Filed, Filed',
           \A k \in Letter : /\ Stored(k)' <=> Stored(k)
                             /\ ~Stored(k) => (OnHub(k)' <=> OnHub(k))
    PROVE  Status' = Status
  BY StatusIs

LEMMA PromiseStep ==
    ASSUME ~ MayExpire, ~ MayLag, PromiseInv, [Next]_vars
    PROVE  Filed' /\ [Promise!Next]_Status
  <1> USE DEF PromiseInv
  <1>1. /\ TypeOK /\ TypeOK' /\ RowsInHandStay /\ NothingLost /\ NothingLost'
        /\ Filed /\ late = {}
    BY QuietStep, TypeStep DEF QuietInv, RowsInHandStay
  <1>2. ~ Sweep /\ ~ DeleteLate
    BY <1>1 DEF Sweep, DeleteLate
  <1>3. HandlersGoOn
    BY <1>1, <1>2, HandlerSteps
  <1>4. ASSUME UNCHANGED <<mail, store>> PROVE Filed' /\ [Promise!Next]_Status
    <2>1. /\ \A k \in Letter : OnHub(k)' <=> OnHub(k)
          /\ \A k \in Letter : Stored(k)' <=> Stored(k)
      BY <1>4 DEF OnHub, Stored
    <2>2. Filed'
      BY <1>1, <1>3, <2>1, FiledKept
    <2>3. Status' = Status
      BY <1>1, <2>1, <2>2, StatusStays
    <2> QED
      BY <2>2, <2>3
  <1>5. ASSUME NEW l \in Letter, PutMail(l) PROVE Filed' /\ [Promise!Next]_Status
    <2>1. PICK n \in RowId : mail' = mail \cup {[id |-> n, letter |-> l]}
      BY <1>5 DEF PutMail
    <2>2. /\ handler[l] = "insert" /\ handler' = [handler EXCEPT ![l] = "accepted"]
          /\ store' = store
      BY <1>5 DEF PutMail, HandlerStep
    <2>3. [id |-> n, letter |-> l].letter = l
      OBVIOUS
    <2>4. \A k \in Letter : OnHub(k)' <=> OnHub(k) \/ k = l
      BY <2>1, <2>3 DEF OnHub
    <2>5. \A k \in Letter : Stored(k)' <=> Stored(k)
      BY <2>2 DEF Stored
    <2>6. handler'[l] = "accepted"
      BY <1>1, <2>2 DEF TypeOK
    <2>7. Filed'
      BY <1>1, <1>3, <2>4, <2>5, <2>6, FiledKept
    <2>8. ~Stored(l)
      BY <1>1, <2>2 DEF Filed
    <2> QED
      BY <1>1, <2>4, <2>5, <2>7, <2>8, StatusMoves
  <1>6. ASSUME NEW p \in Peer, Absorb(p) PROVE Filed' /\ [Promise!Next]_Status
    <2>1. PICK r \in Row : r \in batch[p] /\ store' = [store EXCEPT ![p] = @ \cup {r.letter}]
      BY <1>6 DEF Absorb, IsNextOf
    <2>2. mail' = mail
      BY <1>6 DEF Absorb
    <2>3. r \in mail /\ To[r.letter] = p /\ r.letter \in Letter
      BY <1>1, <2>1 DEF RowsInHandStay, RowsFor, Row
    <2>4. OnHub(r.letter)
      BY <2>3 DEF OnHub
    <2>5. \A k \in Letter : OnHub(k)' <=> OnHub(k)
      BY <2>2 DEF OnHub
    <2>6. \A k \in Letter : Stored(k)' <=> Stored(k) \/ k = r.letter
      BY <1>1, <2>1, <2>3, Addresses DEF Stored, TypeOK
    <2>7. Filed'
      BY <1>1, <1>3, <2>3, <2>4, <2>5, <2>6, FiledKept
    <2> QED
      BY <1>1, <2>3, <2>4, <2>5, <2>6, <2>7, StatusMoves
  <1>7. ASSUME NEW p \in Peer, DeleteMail(p) PROVE Filed' /\ [Promise!Next]_Status
    <2>1. mail' = mail \ Deleted(p, collected[p]) /\ store' = store
      BY <1>7 DEF DeleteMail
    <2>2. ASSUME NEW r \in Deleted(p, collected[p]) PROVE Stored(r.letter)
      <3>1. r \in mail /\ To[r.letter] = p /\ r.id \in collected[p]
        BY DEF Deleted, RowsFor
      <3>2. PICK s \in RowsFor(p) : s.id = r.id /\ s.letter \in store[p]
        BY <1>1, <3>1 DEF RowsInHandStay
      <3>3. s = r
        BY <1>1, <3>1, <3>2 DEF RowsInHandStay, RowsFor
      <3> QED
        BY <3>1, <3>2, <3>3 DEF Stored
    <2>3. \A k \in Letter : Stored(k)' <=> Stored(k)
      BY <2>1 DEF Stored
    <2>4. \A k \in Letter : /\ OnHub(k)' => OnHub(k)
                            /\ ~Stored(k) /\ OnHub(k) => OnHub(k)'
      BY <2>1, <2>2 DEF OnHub
    <2>5. Filed'
      BY <1>1, <1>3, <2>3, <2>4, FiledKept
    <2>6. Status' = Status
      BY <1>1, <2>3, <2>4, <2>5, StatusStays
    <2> QED
      BY <2>5, <2>6
  <1>8. CASE SenderNext \/ HubCrash \/ UNCHANGED vars \/ \E l \in Letter :
               ReceivePost(l) \/ CheckSenderQuota(l) \/ CheckMailboxQuota(l)
    <2>1. UNCHANGED <<mail, store>>
      BY <1>8 DEF SenderNext, Dispatch, Seal, GiveUp, Confirm, HubCrash, vars,
                  ReceivePost, CheckSenderQuota, CheckMailboxQuota
    <2> QED
      BY <1>4, <2>1
  <1>9. CASE \E p \in Peer : \/ Start(p) \/ PublishPrekey(p) \/ Fetch(p) \/ AbsorbFails(p)
                             \/ FinishBatch(p) \/ DeleteFails(p) \/ Crash(p)
    <2>1. UNCHANGED <<mail, store>>
      BY <1>9 DEF Start, PublishPrekey, Fetch, AbsorbFails, FinishBatch, DeleteFails, Crash
    <2> QED
      BY <1>4, <2>1
  <1> QED
    BY <1>2, <1>5, <1>6, <1>7, <1>8, <1>9 DEF Next, HubNext, LoopNext, CrashNext

\* The safety half of KeepsPromise: a letter that the hub took is held until
\* the recipient has stored it, and is delivered once, whatever requests time
\* out, processes crash and letters turn out not to open.
THEOREM ImplementsPromise ==
    ASSUME ~ MayExpire, ~ MayLag
    PROVE  Spec => Promise!Spec
  <1>1. Init => PromiseInv /\ Promise!Init
    <2>1. Init => (\A l \in Letter : ~OnHub(l) /\ ~Stored(l) /\ handler[l] # "accepted")
      BY Addresses DEF Init, OnHub, Stored
    <2>2. Init => Promise!Init
      BY <2>1 DEF Promise!Init, Status
    <2> QED
      BY <2>2, QuietInit, FiledInit DEF PromiseInv
  <1>2. PromiseInv /\ [Next]_vars => PromiseInv' /\ [Promise!Next]_Status
    <2> SUFFICES ASSUME PromiseInv, [Next]_vars PROVE PromiseInv' /\ [Promise!Next]_Status
      OBVIOUS
    <2>1. QuietInv'
      BY QuietStep DEF PromiseInv
    <2> QED
      BY <2>1, PromiseStep DEF PromiseInv
  <1> QED
    BY <1>1, <1>2, PTL DEF Spec, Promise!Spec

(***************************************************************************)
(* The quotas.  What is inductive counts the mail that waits together with *)
(* the posts that are already admitted: a count that finds room for one    *)
(* more says nothing of the others that found the same room, of which      *)
(* there were never more than abreast.                                     *)
(***************************************************************************)

LEMMA LargerFacts ==
    ASSUME NEW m \in Nat, NEW n \in Nat
    PROVE  /\ Larger(m, n) \in Nat /\ m <= Larger(m, n) /\ n <= Larger(m, n)
           /\ Excess(m) \in Nat /\ Excess(m) <= Excess(Larger(m, n))
  BY DEF Larger, Excess

\* Mail that leaves and posts that are dropped make room.
LEMMA WithinFewer ==
    ASSUME NEW rows, NEW adm, NEW most, NEW q \in Nat, Within(rows, adm, most, q),
           NEW rows2, NEW adm2, rows2 \subseteq rows, adm2 \subseteq adm,
           NEW most2, most2 = Larger(most, Cardinality(adm2))
    PROVE  Within(rows2, adm2, most2, q)
  <1> DEFINE r == Cardinality(rows)   a == Cardinality(adm)
             r2 == Cardinality(rows2) a2 == Cardinality(adm2)
  <1>1. /\ IsFiniteSet(rows2) /\ IsFiniteSet(adm2)
        /\ r \in Nat /\ a \in Nat /\ r2 \in Nat /\ a2 \in Nat
        /\ r2 <= r /\ a2 <= a
    BY FS_Subset, FS_CardinalityType DEF Within
  <1>2. most \in Nat /\ r + a <= q + Excess(most)
    BY DEF Within
  <1>3. /\ most2 \in Nat /\ a2 <= most2
        /\ Excess(most) \in Nat /\ Excess(most2) \in Nat /\ Excess(most) <= Excess(most2)
    BY <1>1, <1>2, LargerFacts
  <1> HIDE DEF r, a, r2, a2
  <1>4. r2 + a2 <= q + Excess(most2)
    BY <1>1, <1>2, <1>3
  <1> QED
    BY <1>1, <1>3, <1>4 DEF Within, r2, a2

\* A post is admitted while there was room for one.
LEMMA WithinAdmit ==
    ASSUME NEW rows, NEW adm, NEW most, NEW q \in Nat, Within(rows, adm, most, q),
           NEW rows2, NEW adm2, NEW x, rows2 \subseteq rows, adm2 \subseteq adm \cup {x},
           ~ (Cardinality(rows) >= q),
           NEW most2, most2 = Larger(most, Cardinality(adm2))
    PROVE  Within(rows2, adm2, most2, q)
  <1> DEFINE r2 == Cardinality(rows2) a2 == Cardinality(adm2)
  <1>1. IsFiniteSet(rows) /\ IsFiniteSet(adm) /\ most \in Nat
    BY DEF Within
  <1>2. IsFiniteSet(adm \cup {x})
    BY <1>1, FS_AddElement
  <1>3. /\ IsFiniteSet(rows2) /\ IsFiniteSet(adm2)
        /\ r2 \in Nat /\ a2 \in Nat /\ r2 <= Cardinality(rows) /\ Cardinality(rows) \in Nat
    BY <1>1, <1>2, FS_Subset, FS_CardinalityType
  <1>4. most2 \in Nat /\ a2 <= most2
    BY <1>1, <1>3, LargerFacts
  <1> HIDE DEF r2, a2
  <1>5. r2 + 1 <= q
    BY <1>3
  <1>6. a2 <= Excess(most2) + 1 /\ Excess(most2) \in Nat
    BY <1>3, <1>4 DEF Excess
  <1>7. r2 + a2 <= q + Excess(most2)
    BY <1>3, <1>5, <1>6
  <1> QED
    BY <1>3, <1>4, <1>7 DEF Within, r2, a2

\* An admitted post becomes a row.
LEMMA WithinFile ==
    ASSUME NEW rows, NEW adm, NEW most, NEW q \in Nat, Within(rows, adm, most, q),
           NEW rows2, NEW adm2, NEW x \in adm, NEW y,
           rows2 \subseteq rows \cup {y}, adm2 \subseteq adm \ {x},
           NEW most2, most2 = Larger(most, Cardinality(adm2))
    PROVE  Within(rows2, adm2, most2, q)
  <1> DEFINE r == Cardinality(rows)   a == Cardinality(adm)
             r2 == Cardinality(rows2) a2 == Cardinality(adm2)
  <1>1. IsFiniteSet(rows) /\ IsFiniteSet(adm) /\ most \in Nat /\ r + a <= q + Excess(most)
    BY DEF Within
  <1>2. r \in Nat /\ a \in Nat
    BY <1>1, FS_CardinalityType
  <1>3. /\ IsFiniteSet(rows \cup {y}) /\ Cardinality(rows \cup {y}) \in Nat
        /\ Cardinality(rows \cup {y}) <= r + 1
    <2>1. /\ IsFiniteSet(rows \cup {y})
          /\ Cardinality(rows \cup {y}) = IF y \in rows THEN r ELSE r + 1
      BY <1>1, FS_AddElement
    <2>2. Cardinality(rows \cup {y}) \in Nat
      BY <2>1, FS_CardinalityType
    <2> HIDE DEF r
    <2> QED
      BY <1>2, <2>1, <2>2
  <1>4. IsFiniteSet(adm \ {x}) /\ Cardinality(adm \ {x}) = a - 1
    BY <1>1, FS_RemoveElement
  <1>5. IsFiniteSet(rows2) /\ r2 \in Nat /\ r2 <= Cardinality(rows \cup {y})
    BY <1>3, FS_Subset, FS_CardinalityType
  <1>6. IsFiniteSet(adm2) /\ a2 \in Nat /\ a2 <= a - 1
    BY <1>4, FS_Subset, FS_CardinalityType
  <1>7. /\ most2 \in Nat /\ a2 <= most2
        /\ Excess(most) \in Nat /\ Excess(most2) \in Nat /\ Excess(most) <= Excess(most2)
    BY <1>1, <1>6, LargerFacts
  <1> HIDE DEF r, a, r2, a2
  <1>8. r2 <= r + 1
    BY <1>2, <1>3, <1>5
  <1>9. r2 + a2 <= q + Excess(most2)
    BY <1>1, <1>2, <1>5, <1>6, <1>7, <1>8
  <1> QED
    BY <1>5, <1>6, <1>7, <1>9 DEF Within, r2, a2

\* Both quotas, of one recipient and of one sender for that recipient.
MailboxWithin(p) == Within(RowsFor(p), AdmittedTo(p), abreast[p], QuotaPerRecipient)
SenderWithin(s, p) ==
    Within(RowsFromTo(s, p), AdmittedFrom(s, p), abreastFrom[s][p], QuotaPerSender)

LEMMA Remembered ==
    ASSUME Remember, NEW p \in Peer
    PROVE  /\ abreast'[p] = Larger(abreast[p], Cardinality(AdmittedTo(p)'))
           /\ \A s \in Peer : abreastFrom'[s][p]
                = Larger(abreastFrom[s][p], Cardinality(AdmittedFrom(s, p)'))
  BY DEF Remember

\* What the three lemmas say of a mailbox and of a sender's share of it.
LEMMA MailboxFewer ==
    ASSUME QuotaInv, Remember, NEW p \in Peer,
           RowsFor(p)' \subseteq RowsFor(p),
           AdmittedTo(p)' \subseteq AdmittedTo(p)
    PROVE  MailboxWithin(p)'
  <1>1. MailboxWithin(p) /\ QuotaPerRecipient \in Nat
    BY BoundAssumption DEF QuotaInv, MailboxWithin
  <1>2. abreast'[p] = Larger(abreast[p], Cardinality(AdmittedTo(p)'))
    BY Remembered
  <1> QED
    BY <1>1, <1>2, WithinFewer DEF MailboxWithin

LEMMA MailboxAdmit ==
    ASSUME QuotaInv, Remember, NEW p \in Peer,
           NEW x,
           RowsFor(p)' \subseteq RowsFor(p),
           AdmittedTo(p)' \subseteq AdmittedTo(p) \cup {x},
           ~ (Cardinality(RowsFor(p)) >= QuotaPerRecipient)
    PROVE  MailboxWithin(p)'
  <1>1. MailboxWithin(p) /\ QuotaPerRecipient \in Nat
    BY BoundAssumption DEF QuotaInv, MailboxWithin
  <1>2. abreast'[p] = Larger(abreast[p], Cardinality(AdmittedTo(p)'))
    BY Remembered
  <1> QED
    BY <1>1, <1>2, WithinAdmit DEF MailboxWithin

LEMMA MailboxFile ==
    ASSUME QuotaInv, Remember, NEW p \in Peer,
           NEW x \in AdmittedTo(p),
           NEW y,
           RowsFor(p)' \subseteq RowsFor(p) \cup {y},
           AdmittedTo(p)' \subseteq AdmittedTo(p) \ {x}
    PROVE  MailboxWithin(p)'
  <1>1. MailboxWithin(p) /\ QuotaPerRecipient \in Nat
    BY BoundAssumption DEF QuotaInv, MailboxWithin
  <1>2. abreast'[p] = Larger(abreast[p], Cardinality(AdmittedTo(p)'))
    BY Remembered
  <1> QED
    BY <1>1, <1>2, WithinFile DEF MailboxWithin

LEMMA SenderFewer ==
    ASSUME QuotaInv, Remember, NEW s \in Peer, NEW p \in Peer,
           RowsFromTo(s, p)' \subseteq RowsFromTo(s, p),
           AdmittedFrom(s, p)' \subseteq AdmittedFrom(s, p)
    PROVE  SenderWithin(s, p)'
  <1>1. SenderWithin(s, p) /\ QuotaPerSender \in Nat
    BY BoundAssumption DEF QuotaInv, SenderWithin
  <1>2. abreastFrom'[s][p] = Larger(abreastFrom[s][p], Cardinality(AdmittedFrom(s, p)'))
    BY Remembered
  <1> QED
    BY <1>1, <1>2, WithinFewer DEF SenderWithin

LEMMA SenderAdmit ==
    ASSUME QuotaInv, Remember, NEW s \in Peer, NEW p \in Peer,
           NEW x,
           RowsFromTo(s, p)' \subseteq RowsFromTo(s, p),
           AdmittedFrom(s, p)' \subseteq AdmittedFrom(s, p) \cup {x},
           ~ (Cardinality(RowsFromTo(s, p)) >= QuotaPerSender)
    PROVE  SenderWithin(s, p)'
  <1>1. SenderWithin(s, p) /\ QuotaPerSender \in Nat
    BY BoundAssumption DEF QuotaInv, SenderWithin
  <1>2. abreastFrom'[s][p] = Larger(abreastFrom[s][p], Cardinality(AdmittedFrom(s, p)'))
    BY Remembered
  <1> QED
    BY <1>1, <1>2, WithinAdmit DEF SenderWithin

LEMMA SenderFile ==
    ASSUME QuotaInv, Remember, NEW s \in Peer, NEW p \in Peer,
           NEW x \in AdmittedFrom(s, p),
           NEW y,
           RowsFromTo(s, p)' \subseteq RowsFromTo(s, p) \cup {y},
           AdmittedFrom(s, p)' \subseteq AdmittedFrom(s, p) \ {x}
    PROVE  SenderWithin(s, p)'
  <1>1. SenderWithin(s, p) /\ QuotaPerSender \in Nat
    BY BoundAssumption DEF QuotaInv, SenderWithin
  <1>2. abreastFrom'[s][p] = Larger(abreastFrom[s][p], Cardinality(AdmittedFrom(s, p)'))
    BY Remembered
  <1> QED
    BY <1>1, <1>2, WithinFile DEF SenderWithin

\* Steps that file nothing and let no post past a count.
NoPost ==
    /\ mail' \subseteq mail
    /\ \A l \in Letter :
          /\ handler'[l] = "insert" => handler[l] = "insert"
          /\ handler'[l] \in {"mailbox quota", "insert"}
                => handler[l] \in {"mailbox quota", "insert"}

LEMMA QuotaQuiet ==
    ASSUME QuotaInv, Remember, NoPost
    PROVE  QuotaInv'
  <1> SUFFICES ASSUME NEW p \in Peer
               PROVE  /\ MailboxWithin(p)'
                      /\ \A s \in Peer : SenderWithin(s, p)'
    BY DEF QuotaInv, MailboxWithin, SenderWithin
  <1>1. RowsFor(p)' \subseteq RowsFor(p) /\ AdmittedTo(p)' \subseteq AdmittedTo(p)
    BY DEF NoPost, RowsFor, AdmittedTo
  <1>2. MailboxWithin(p)'
    BY <1>1, MailboxFewer
  <1>3. ASSUME NEW s \in Peer PROVE SenderWithin(s, p)'
    <2>1. /\ RowsFromTo(s, p)' \subseteq RowsFromTo(s, p)
          /\ AdmittedFrom(s, p)' \subseteq AdmittedFrom(s, p)
      BY DEF NoPost, RowsFor, RowsFromTo, AdmittedFrom
    <2> QED
      BY <2>1, SenderFewer
  <1> QED
    BY <1>2, <1>3

LEMMA QuotaSenderCount ==
    ASSUME TypeOK, QuotaInv, Remember, NEW l \in Letter, CheckSenderQuota(l)
    PROVE  QuotaInv'
  <1>1. mail' = mail /\ handler[l] = "sender quota"
    BY DEF CheckSenderQuota, HandlerStep
  <1>2. CASE Cardinality(RowsFromTo(From[l], To[l])) >= QuotaPerSender
    <2>1. handler' = [handler EXCEPT ![l] = "refused"]
      BY <1>2 DEF CheckSenderQuota, HandlerStep
    <2>2. NoPost
      BY <1>1, <2>1 DEF NoPost, TypeOK
    <2> QED
      BY <2>2, QuotaQuiet
  <1>3. CASE ~ (Cardinality(RowsFromTo(From[l], To[l])) >= QuotaPerSender)
    <2>1. handler' = [handler EXCEPT ![l] = "mailbox quota"]
      BY <1>3 DEF CheckSenderQuota, HandlerStep
    <2>2. \A k \in Letter : handler'[k] = IF k = l THEN "mailbox quota" ELSE handler[k]
      BY <2>1 DEF TypeOK
    <2> SUFFICES ASSUME NEW p \in Peer
                 PROVE  /\ MailboxWithin(p)'
                        /\ \A s \in Peer : SenderWithin(s, p)'
      BY DEF QuotaInv, MailboxWithin, SenderWithin
    <2>3. RowsFor(p)' \subseteq RowsFor(p) /\ AdmittedTo(p)' \subseteq AdmittedTo(p)
      BY <1>1, <2>2 DEF RowsFor, AdmittedTo
    <2>4. MailboxWithin(p)'
      BY <2>3, MailboxFewer
    <2>5. ASSUME NEW s \in Peer PROVE SenderWithin(s, p)'
      <3>1. RowsFromTo(s, p)' \subseteq RowsFromTo(s, p)
        BY <1>1 DEF RowsFor, RowsFromTo
      <3>2. CASE s = From[l] /\ p = To[l]
        <4>1. AdmittedFrom(s, p)' \subseteq AdmittedFrom(s, p) \cup {l}
          BY <2>2 DEF AdmittedFrom
        <4> QED
          BY <1>3, <3>1, <3>2, <4>1, SenderAdmit
      <3>3. CASE ~ (s = From[l] /\ p = To[l])
        <4>1. AdmittedFrom(s, p)' \subseteq AdmittedFrom(s, p)
          BY <2>2, <3>3 DEF AdmittedFrom
        <4> QED
          BY <3>1, <4>1, SenderFewer
      <3> QED
        BY <3>2, <3>3
    <2> QED
      BY <2>4, <2>5
  <1> QED
    BY <1>2, <1>3

LEMMA QuotaMailboxCount ==
    ASSUME TypeOK, QuotaInv, Remember, NEW l \in Letter, CheckMailboxQuota(l)
    PROVE  QuotaInv'
  <1>1. mail' = mail /\ handler[l] = "mailbox quota"
    BY DEF CheckMailboxQuota, HandlerStep
  <1>2. CASE Cardinality(RowsFor(To[l])) >= QuotaPerRecipient
    <2>1. handler' = [handler EXCEPT ![l] = "refused"]
      BY <1>2 DEF CheckMailboxQuota, HandlerStep
    <2>2. NoPost
      BY <1>1, <2>1 DEF NoPost, TypeOK
    <2> QED
      BY <2>2, QuotaQuiet
  <1>3. CASE ~ (Cardinality(RowsFor(To[l])) >= QuotaPerRecipient)
    <2>1. handler' = [handler EXCEPT ![l] = "insert"]
      BY <1>3 DEF CheckMailboxQuota, HandlerStep
    <2>2. \A k \in Letter : handler'[k] = IF k = l THEN "insert" ELSE handler[k]
      BY <2>1 DEF TypeOK
    <2> SUFFICES ASSUME NEW p \in Peer
                 PROVE  /\ MailboxWithin(p)'
                        /\ \A s \in Peer : SenderWithin(s, p)'
      BY DEF QuotaInv, MailboxWithin, SenderWithin
    <2>3. RowsFor(p)' \subseteq RowsFor(p)
      BY <1>1 DEF RowsFor
    <2>4. MailboxWithin(p)'
      <3>1. CASE p = To[l]
        <4>1. AdmittedTo(p)' \subseteq AdmittedTo(p) \cup {l}
          BY <2>2 DEF AdmittedTo
        <4>2. ~ (Cardinality(RowsFor(p)) >= QuotaPerRecipient)
          BY <1>3, <3>1
        <4> QED
          BY <2>3, <4>1, <4>2, MailboxAdmit
      <3>2. CASE p # To[l]
        <4>1. AdmittedTo(p)' \subseteq AdmittedTo(p)
          BY <2>2, <3>2 DEF AdmittedTo
        <4> QED
          BY <2>3, <4>1, MailboxFewer
      <3> QED
        BY <3>1, <3>2
    <2>5. ASSUME NEW s \in Peer PROVE SenderWithin(s, p)'
      <3>1. /\ RowsFromTo(s, p)' \subseteq RowsFromTo(s, p)
            /\ AdmittedFrom(s, p)' \subseteq AdmittedFrom(s, p)
        BY <1>1, <2>2 DEF RowsFor, RowsFromTo, AdmittedFrom
      <3> QED
        BY <3>1, SenderFewer
    <2> QED
      BY <2>4, <2>5
  <1> QED
    BY <1>2, <1>3

LEMMA QuotaPut ==
    ASSUME TypeOK, QuotaInv, Remember, NEW l \in Letter, PutMail(l)
    PROVE  QuotaInv'
  <1>1. PICK n \in RowId : mail' = mail \cup {[id |-> n, letter |-> l]}
    BY DEF PutMail
  <1>2. handler[l] = "insert" /\ handler' = [handler EXCEPT ![l] = "accepted"]
    BY DEF PutMail, HandlerStep
  <1>3. \A k \in Letter : handler'[k] = IF k = l THEN "accepted" ELSE handler[k]
    BY <1>2 DEF TypeOK
  <1> DEFINE y == [id |-> n, letter |-> l]
  <1>4. y.letter = l
    OBVIOUS
  <1>5. mail' = mail \cup {y}
    BY <1>1
  <1> HIDE DEF y
  <1> SUFFICES ASSUME NEW p \in Peer
               PROVE  /\ MailboxWithin(p)'
                      /\ \A s \in Peer : SenderWithin(s, p)'
    BY DEF QuotaInv, MailboxWithin, SenderWithin
  <1>6. CASE p = To[l]
    <2>1. RowsFor(p)' \subseteq RowsFor(p) \cup {y}
      BY <1>5 DEF RowsFor
    <2>2. l \in AdmittedTo(p) /\ AdmittedTo(p)' \subseteq AdmittedTo(p) \ {l}
      BY <1>2, <1>3, <1>6 DEF AdmittedTo
    <2>3. MailboxWithin(p)'
      BY <2>1, <2>2, MailboxFile
    <2>4. ASSUME NEW s \in Peer PROVE SenderWithin(s, p)'
      <3>1. CASE s = From[l]
        <4>1. RowsFromTo(s, p)' \subseteq RowsFromTo(s, p) \cup {y}
          BY <1>5 DEF RowsFor, RowsFromTo
        <4>2. l \in AdmittedFrom(s, p)
          BY <1>2, <1>6, <3>1 DEF AdmittedFrom
        <4>3. AdmittedFrom(s, p)' \subseteq AdmittedFrom(s, p) \ {l}
          BY <1>3 DEF AdmittedFrom
        <4> QED
          BY <4>1, <4>2, <4>3, SenderFile
      <3>2. CASE s # From[l]
        <4>1. /\ RowsFromTo(s, p)' \subseteq RowsFromTo(s, p)
              /\ AdmittedFrom(s, p)' \subseteq AdmittedFrom(s, p)
          BY <1>3, <1>4, <1>5, <3>2 DEF RowsFor, RowsFromTo, AdmittedFrom
        <4> QED
          BY <4>1, SenderFewer
      <3> QED
        BY <3>1, <3>2
    <2> QED
      BY <2>3, <2>4
  <1>7. CASE p # To[l]
    <2>1. RowsFor(p)' \subseteq RowsFor(p) /\ AdmittedTo(p)' \subseteq AdmittedTo(p)
      BY <1>3, <1>4, <1>5, <1>7 DEF RowsFor, AdmittedTo
    <2>2. MailboxWithin(p)'
      BY <2>1, MailboxFewer
    <2>3. ASSUME NEW s \in Peer PROVE SenderWithin(s, p)'
      <3>1. /\ RowsFromTo(s, p)' \subseteq RowsFromTo(s, p)
            /\ AdmittedFrom(s, p)' \subseteq AdmittedFrom(s, p)
        BY <1>3, <2>1 DEF RowsFromTo, AdmittedFrom
      <3> QED
        BY <3>1, SenderFewer
    <2> QED
      BY <2>2, <2>3
  <1> QED
    BY <1>6, <1>7

LEMMA QuotaOthers ==
    ASSUME TypeOK,
           \/ SenderNext \/ LoopNext \/ CrashNext \/ Sweep \/ DeleteLate
           \/ \E l \in Letter : ReceivePost(l)
           \/ UNCHANGED vars
    PROVE  NoPost
  <1>1. ASSUME NEW l \in Letter, Dispatch(l) \/ Seal(l) \/ GiveUp(l) \/ Confirm(l)
        PROVE  NoPost
    BY <1>1 DEF Dispatch, Seal, GiveUp, Confirm, NoPost, TypeOK
  <1>2. ASSUME NEW l \in Letter, ReceivePost(l) PROVE NoPost
    BY <1>2 DEF ReceivePost, HandlerStep, NoPost, TypeOK
  <1>3. CASE Sweep \/ DeleteLate
    BY <1>3 DEF Sweep, DeleteLate, NoPost
  <1>4. ASSUME NEW p \in Peer, \/ Start(p) \/ PublishPrekey(p) \/ Fetch(p)
                               \/ Absorb(p) \/ AbsorbFails(p) \/ FinishBatch(p)
        PROVE  NoPost
    BY <1>4 DEF Start, PublishPrekey, Fetch, Absorb, AbsorbFails, FinishBatch, NoPost
  <1>5. ASSUME NEW p \in Peer, DeleteMail(p) \/ DeleteFails(p) \/ Crash(p) PROVE NoPost
    BY <1>5 DEF DeleteMail, DeleteFails, Crash, NoPost
  <1>6. CASE HubCrash
    BY <1>6 DEF HubCrash, NoPost
  <1>7. CASE UNCHANGED vars
    BY <1>7 DEF vars, NoPost
  <1> QED
    BY <1>1, <1>2, <1>3, <1>4, <1>5, <1>6, <1>7 DEF SenderNext, LoopNext, CrashNext

LEMMA QuotaStep ==
    ASSUME TypeOK, QuotaInv, [Next /\ Remember]_quotaVars
    PROVE  QuotaInv'
  <1>1. CASE Next /\ Remember
    BY <1>1, QuotaOthers, QuotaQuiet, QuotaSenderCount, QuotaMailboxCount, QuotaPut
       DEF Next, HubNext
  <1>2. CASE UNCHANGED quotaVars
    <2>1. QuotaInv' = QuotaInv
      BY <1>2 DEF quotaVars, vars, QuotaInv, RowsFor, RowsFromTo, AdmittedTo, AdmittedFrom
    <2> QED
      BY <2>1
  <1> QED
    BY <1>1, <1>2

LEMMA QuotaStart == QuotaInit => QuotaInv
  <1> SUFFICES ASSUME QuotaInit PROVE QuotaInv
    OBVIOUS
  <1>1. ASSUME NEW q \in Nat PROVE Within({}, {}, 0, q)
    BY <1>1, FS_EmptySet DEF Within, Excess
  <1>2. ASSUME NEW p \in Peer
        PROVE  /\ RowsFor(p) = {} /\ AdmittedTo(p) = {} /\ abreast[p] = 0
               /\ \A s \in Peer : /\ RowsFromTo(s, p) = {} /\ AdmittedFrom(s, p) = {}
                                  /\ abreastFrom[s][p] = 0
    BY <1>2 DEF QuotaInit, Init, RowsFor, RowsFromTo, AdmittedTo, AdmittedFrom
  <1> QED
    BY <1>1, <1>2, BoundAssumption DEF QuotaInv

\* The count and the posts past it, which insert whatever others do, are together
\* within the quota and what raced: the count alone is not inductive (post_mail).
LEMMA QuotaInvariant == QuotaSpec => []QuotaInv
  <1>1. QuotaInit => TypeOK /\ QuotaInv
    BY TypeInit, QuotaStart DEF QuotaInit
  <1>2. TypeOK /\ QuotaInv /\ [Next /\ Remember]_quotaVars => TypeOK' /\ QuotaInv'
    <2>1. [Next /\ Remember]_quotaVars => [Next]_vars
      BY DEF quotaVars
    <2> QED
      BY <2>1, TypeStep, QuotaStep
  <1> QED
    BY <1>1, <1>2, PTL DEF QuotaSpec

LEMMA WithinSays ==
    ASSUME NEW rows, NEW adm, NEW most, NEW q \in Nat, Within(rows, adm, most, q)
    PROVE  Cardinality(rows) <= q + Excess(most)
  <1>1. /\ Cardinality(rows) \in Nat /\ Cardinality(adm) \in Nat /\ most \in Nat
        /\ Cardinality(rows) + Cardinality(adm) <= q + Excess(most)
    BY FS_CardinalityType DEF Within
  <1>2. Excess(most) \in Nat
    BY <1>1 DEF Excess
  <1> QED
    BY <1>1, <1>2

\* However many posts there are, and whatever else goes on, a mailbox holds no
\* more than its quota and the posts that were past the count together with one
\* that found room: the insert is not one step with the count (post_mail).
THEOREM MailboxQuotaKept == QuotaSpec => []MailboxOvershoot
  <1>1. QuotaInv => MailboxOvershoot
    BY WithinSays, BoundAssumption DEF QuotaInv, MailboxOvershoot
  <1> QED
    BY <1>1, QuotaInvariant, PTL

\* The same of one sender's mail for one recipient.
THEOREM SenderQuotaKept == QuotaSpec => []SenderOvershoot
  <1>1. QuotaInv => SenderOvershoot
    BY WithinSays, BoundAssumption DEF QuotaInv, SenderOvershoot
  <1> QED
    BY <1>1, QuotaInvariant, PTL
=============================================================================
