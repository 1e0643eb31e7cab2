-------------------------- MODULE MCSharedFolders --------------------------
(* A small instance of SharedFolders for TLC. *)
EXTENDS SharedFolders

\* Two containers and a folder, all of one name: the containers compete for it,
\* the folder has it in the other table.
MCPaths  == {"e1", "e2", "n"}
MCKindOf == [p \in MCPaths |-> IF p = "n" THEN "nf" ELSE "ef"]
MCNameOf == [p \in MCPaths |-> "e"]
=============================================================================
