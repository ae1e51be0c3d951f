------------------------------- MODULE Display -------------------------------
(***************************************************************************)
(* What a client that shows a draft while it is written may count on: the  *)
(* text it shows is one on which two drafts in a row agreed, or the final  *)
(* one.  It says nothing of parts and deltas.                              *)
(***************************************************************************)
EXTENDS Sequences, SequencesExt

CONSTANTS Tasks, Texts

VARIABLES
  shown,  \* the text of each task as its client shows it
  last,   \* the draft that came last, while one is being written
  begun,  \* tasks with a draft that is being written
  torn    \* tasks with something lost, repeated or replaced: no promise

vars == <<shown, last, begun, torn>>

Init ==
  /\ shown = [t \in Tasks |-> << >>]
  /\ last = [t \in Tasks |-> << >>]
  /\ begun = {}
  /\ torn = {}

\* An empty text takes nothing back; the first draft starts an empty display.
Show(t, text) ==
  shown' = [shown EXCEPT ![t] = IF text # << >> THEN text
                                ELSE IF t \in begun THEN @ ELSE << >>]

Draft(t, text) ==
  /\ Show(t, LongestCommonPrefix({last[t], text}))
  /\ last' = [last EXCEPT ![t] = text]
  /\ begun' = begun \cup {t}

Ends(t) ==
  /\ last' = [last EXCEPT ![t] = << >>]
  /\ begun' = begun \ {t}

Final(t, text) == Show(t, text) /\ Ends(t)

\* The draft is given up; what is shown stays.
GiveUp(t) == Ends(t) /\ UNCHANGED shown

Tear(t) == Ends(t) /\ torn' = torn \cup {t} /\ shown' = [shown EXCEPT ![t] = << >>]

GiveUpAll ==
  /\ last' = [t \in Tasks |-> << >>]
  /\ begun' = {}
  /\ UNCHANGED <<shown, torn>>

Next ==
  \/ \E t \in Tasks \ torn :
       \/ /\ UNCHANGED torn
          /\ GiveUp(t) \/ \E text \in Texts : Draft(t, text) \/ Final(t, text)
       \/ Tear(t)
  \/ GiveUpAll

Spec == Init /\ [][Next]_vars
=============================================================================
