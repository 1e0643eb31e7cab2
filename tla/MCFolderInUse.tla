---------------------------- MODULE MCFolderInUse ----------------------------
(* A folder with two folders, one of which has one more. *)
EXTENDS FolderInUse, TLC

MCNames   == {"C:", "Docs", "a", "b", "f"}
MCHome    == <<"C:", "Docs">>
MCSubs    == (<<>> :> <<"a", "b">>) @@ (<<"a">> :> <<"b">>)
             @@ (<<"a", "b">> :> <<>>) @@ (<<"b">> :> <<>>)
MCFilesIn == (<<>> :> <<"f", "a">>) @@ (<<"a">> :> <<>>)
             @@ (<<"a", "b">> :> <<"f">>) @@ (<<"b">> :> <<"f">>)

ThreadSymmetry == Permutations(Threads)
=============================================================================
