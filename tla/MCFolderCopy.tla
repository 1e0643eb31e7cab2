----------------------------- MODULE MCFolderCopy -----------------------------
(* A small instance of FolderCopy for TLC. *)
EXTENDS FolderCopy

MCSizes == <<{3, 4}, {0, 5}>>
=============================================================================
