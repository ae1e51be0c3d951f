------------------------- MODULE MCCallbackDelivery -------------------------
(* A reply and a typing status to one client. *)
EXTENDS CallbackDelivery

CONSTANTS reply, typing

\* Success, redirect, refusal, and the two kinds of retryable failure.
MCStatuses == {204, 302, 404, 429, 503}
=============================================================================
