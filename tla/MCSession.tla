------------------------------ MODULE MCSession ------------------------------
(* ann writes to ben and to cay, ben writes back. At the start only ann    *)
(* knows the others. Connections are interchangeable.                      *)
EXTENDS Session, TLC

CONSTANTS ann, ben, cay, back, aside

MCFrom == [m \in Msg |-> IF m = back THEN ben ELSE ann]
MCTo == [m \in Msg |-> IF m = back THEN ann ELSE IF m = aside THEN cay ELSE ben]
MCContacts == [e \in Peer |-> IF e = ann THEN Peer \ {ann} ELSE {}]
Interchangeable == Permutations(Conn)
=============================================================================
