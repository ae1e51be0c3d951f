---------------------------- MODULE MCLibraryModel ----------------------------
(* A streamed request and one that is not. *)
EXTENDS LibraryModel

CONSTANTS streamed, plain
=============================================================================
