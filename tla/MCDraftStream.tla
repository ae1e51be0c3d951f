---------------------------- MODULE MCDraftStream ----------------------------
(* A draft on the event stream and one on a callback URL. *)
EXTENDS DraftStream

CONSTANTS streamed, posted

\* Drafts that grow, shrink, are rewritten, lose a trailing cursor, or are empty.
MCTexts == {<< >>, <<1>>, <<1, 2>>, <<1, 3>>}
=============================================================================
