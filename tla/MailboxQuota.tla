---------------------------- MODULE MailboxQuota ----------------------------
(***************************************************************************)
(* The hub's two quotas as counts.  post_mail counts the mail that waits   *)
(* under one lock and inserts under another, so posts that are handled at  *)
(* the same time can each find room for the last letter.  Two history      *)
(* variables remember how many of them ever did so together; everything    *)
(* else is Mailbox, unchanged.                                             *)
(***************************************************************************)
EXTENDS Mailbox

VARIABLES
    abreast,      \* per recipient: the most posts that were ever at once past
                  \* the mailbox count and not in the table
    abreastFrom   \* the same of one sender's posts for one recipient, past the
                  \* sender's count

quotaVars == <<vars, abreast, abreastFrom>>

\* Posts that have been counted and will be inserted whatever others do.
AdmittedTo(p) == {l \in Letter : To[l] = p /\ handler[l] = "insert"}
AdmittedFrom(s, p) ==
    {l \in Letter : /\ From[l] = s /\ To[l] = p
                    /\ handler[l] \in {"mailbox quota", "insert"}}

Larger(m, n) == IF m < n THEN n ELSE m

QuotaInit ==
    /\ Init
    /\ abreast = [p \in Peer |-> 0]
    /\ abreastFrom = [s \in Peer |-> [p \in Peer |-> 0]]

Remember ==
    /\ abreast' = [p \in Peer |-> Larger(abreast[p], Cardinality(AdmittedTo(p)'))]
    /\ abreastFrom' =
         [s \in Peer |-> [p \in Peer |->
            Larger(abreastFrom[s][p], Cardinality(AdmittedFrom(s, p)'))]]

QuotaSpec == QuotaInit /\ [][Next /\ Remember]_quotaVars
QuotaFairSpec == QuotaSpec /\ Fairness

-----------------------------------------------------------------------------
\* Of n posts that find room for one letter, all but one are too many.
Excess(n) == IF n = 0 THEN 0 ELSE n - 1

\* A quota q with the mail that counts against it, the posts that have been
\* admitted against it, and the most there ever were of those at once.
Within(rows, admitted, most, q) ==
    /\ IsFiniteSet(rows) /\ IsFiniteSet(admitted)
    /\ most \in Nat
    /\ Cardinality(admitted) <= most
    /\ Cardinality(rows) + Cardinality(admitted) <= q + Excess(most)

QuotaInv ==
    \A p \in Peer :
        /\ Within(RowsFor(p), AdmittedTo(p), abreast[p], QuotaPerRecipient)
        /\ \A s \in Peer :
              Within(RowsFromTo(s, p), AdmittedFrom(s, p), abreastFrom[s][p],
                     QuotaPerSender)

\* A mailbox is fuller than its quota by no more than the posts that raced one
\* another through the counts; handled one at a time, they keep the quota.
MailboxOvershoot ==
    \A p \in Peer :
        Cardinality(RowsFor(p)) <= QuotaPerRecipient + Excess(abreast[p])

\* The same of what one sender may leave for one recipient. The second count
\* and the insert come after the first, so posts race for longer here.
SenderOvershoot ==
    \A s, p \in Peer :
        Cardinality(RowsFromTo(s, p)) <= QuotaPerSender + Excess(abreastFrom[s][p])
=============================================================================
