------------------------------ MODULE MCTurns ------------------------------
(* Small instances of Turns: one session with a chat and a reasoning thread. *)
EXTENDS Turns, TLC

CONSTANTS t1, t2, t3, chat, reasoning, session

MCSessionOf == [c \in Chats |-> session]
\* t3 is a final transcript chunk, the others are chat messages.
MCChatOf == [t \in Tasks |-> IF t = t3 THEN reasoning ELSE chat]
\* Every task a chat message of the one chat.
MCOneChat == [t \in Tasks |-> chat]

\* Nothing tells two chat messages of one chat apart but the order of their
\* events, so exchanging their task ids changes no safety property.
ChatTasks == Permutations({t1, t2})

Replies == {"message"}
RepliesAndNotices == {"message", "notice"}
RepliesAndChunks == {"message", "chunk"}
=============================================================================
