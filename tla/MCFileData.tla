----------------------------- MODULE MCFileData -----------------------------
(* FileData on two files and blocks of two words, for TLC. *)
EXTENDS FileData

MCFile == {1, 2}
MCDatum == {9}
MCLengths == {4, 5}
=============================================================================
