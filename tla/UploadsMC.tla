----------------------------- MODULE UploadsMC ------------------------------
(***************************************************************************)
(* Uploads for TLC: its constants are numbers, given in the cfg files.     *)
(***************************************************************************)
EXTENDS Uploads
=============================================================================
