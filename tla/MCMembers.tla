----------------------------- MODULE MCMembers -----------------------------
(* A small instance of Members: two provisioning runs, a pair-code, an unpair *)
(* and a revocation of one member, and what TLC tells its states apart by.    *)
EXTENDS Members

CONSTANTS first, again, pairing, unpair, revoke, tailnet

MCKindOf ==
  [c \in Commands |-> IF c \in {first, again} THEN "provision"
                      ELSE IF c = pairing THEN "paircode"
                      ELSE IF c = unpair THEN "unpair" ELSE "revoke"]

\* One run is for a loopback URL, everything else for the tailnet name.
MCFirstLocal == [c \in Commands |-> IF c = first THEN Local ELSE tailnet]

Ongoing(commands) == {c \in commands : Running(c)}

\* Neither a step nor a property looks at the hook, the cold start or the warning
\* of a command that is over, and once commands have overlapped none looks at the
\* rest of the history or at how a command ended: RollbackUndoesOwnRun alone speaks
\* of such behaviours, and only of the account and of who is undoing.
Seen ==
  <<host, profile, gateway, draft, apart, Ongoing({c \in Commands : hook[c]}),
    IF apart
    THEN <<pc, handed, revoked, Ongoing(cold), Ongoing(warned), stuck, leftover>>
    ELSE [c \in Commands |-> IF pc[c] \in {"failed", "killed"} THEN "done" ELSE pc[c]]>>
=============================================================================
