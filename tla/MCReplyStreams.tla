--------------------------- MODULE MCReplyStreams ---------------------------
(* Small instances of ReplyStreams. *)
EXTENDS ReplyStreams

CONSTANTS resumer, fresh, t1, t2, t3, s1, s2

\* t3 belongs to another session, whose backlog can push out the first one.
MCSessionOf == [x \in Clients \cup Tasks |-> IF x = t3 THEN s2 ELSE s1]
=============================================================================
