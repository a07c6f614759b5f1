--------------------------- MODULE MCConversation ---------------------------
(* ann has two files to send, ben one; the keys of the two begin alike.     *)
(* Files of one or two chunks, two of them of the same length.  A behaviour *)
(* is about one of: ops, removals and restarts, attachments, ops on those.  *)
EXTENDS Conversation

CONSTANTS ann, ben, pic, doc, cat

MCShort    == [e \in {ann, ben} |-> "1a2b3c4d"]
MCOwner    == [p \in {pic, doc, cat} |-> IF p = cat THEN ben ELSE ann]
MCSafeName == [p \in {pic, doc, cat} |-> IF p = doc THEN "doc" ELSE "pic"]
MCContents == [p \in {pic, doc, cat} |-> IF p = pic THEN {<<1>>, <<1, 2>>, <<2>>} ELSE {<<2>>}]

Talk     == [writes |-> 3, files |-> 0, removals |-> 0, restarts |-> 0, rewinds |-> 1, rewrites |-> 0]
Removals == [writes |-> 2, files |-> 0, removals |-> 1, restarts |-> 1, rewinds |-> 1, rewrites |-> 0]
Transfer == [writes |-> 0, files |-> 2, removals |-> 1, restarts |-> 1, rewinds |-> 0, rewrites |-> 0]
Rewrites == [writes |-> 0, files |-> 1, removals |-> 1, restarts |-> 1, rewinds |-> 0, rewrites |-> 1]
Mixed    == [writes |-> 1, files |-> 1, removals |-> 0, restarts |-> 0, rewinds |-> 0, rewrites |-> 0]
MCSentFile == {Transfer}
MCBudgets  == {Talk, Removals, Transfer, Rewrites, Mixed}
=============================================================================
