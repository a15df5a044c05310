---------------------------- MODULE MCCommentReader ---------------------------
(***************************************************************************)
(* The comment reader for TLC.                                             *)
(***************************************************************************)
EXTENDS ReaderProperties
=============================================================================
