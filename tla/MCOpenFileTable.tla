-------------------------- MODULE MCOpenFileTable --------------------------
(* OpenFileTable with tables of a few entries, for TLC. *)
EXTENDS OpenFileTable

MCInode == {0, 1}
MCFlag == {0, 3}
MCOffset == {0, 1}
=============================================================================
