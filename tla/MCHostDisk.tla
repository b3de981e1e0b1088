----------------------------- MODULE MCHostDisk -----------------------------
(***************************************************************************)
(* The cards of MCDisk, as images of a host too.                           *)
(***************************************************************************)
EXTENDS MCDisk, HostDisk
=============================================================================
