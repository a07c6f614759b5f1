------------------------------ MODULE MCMailbox ------------------------------
(* Two endpoints that write to one another: l3 goes back, the rest forth.  *)
EXTENDS Mailbox

CONSTANTS ann, ben, l3

MCFrom == [l \in Letter |-> IF l = l3 THEN ben ELSE ann]
MCTo   == [l \in Letter |-> IF l = l3 THEN ann ELSE ben]
=============================================================================
