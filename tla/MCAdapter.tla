------------------------------ MODULE MCAdapter ------------------------------
(* One session with its chat, and one client that resumes. *)
EXTENDS Adapter

CONSTANTS t1, t2, chat, reasoning, session, resumer

MCChatOf == [t \in Tasks |-> chat]
MCSessionOf == [c \in Chats |-> session]
MCClientSession == [cl \in Clients |-> session]
=============================================================================
