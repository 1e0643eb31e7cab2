-------------------------- MODULE MCEncryptedFolder --------------------------
(* Values for model checking RoomyFolder.  Offsets and sizes are scaled down *)
(* from bytes: what matters is their order, sums and wrap-around.            *)
EXTENDS RoomyFolder

MCDirs   == {"root", "sub"}
MCParent == [d \in {"sub"} |-> "root"]
MCUnder  == [d \in MCDirs |-> IF d = "root" THEN MCDirs ELSE {"sub"}]

\* A flat folder with one file, and an empty one.
MCSources ==
  {[dir |-> "sub", dirs |-> {"sub"}, files |-> [p \in {<<"sub", "a">>} |-> 1]],
   [dir |-> "sub", dirs |-> {"sub"}, files |-> NoTree]}

\* Three levels of folders, for the commands on whole trees.
DeepDirs   == {"root", "sub", "deep"}
DeepParent == [d \in {"sub", "deep"} |-> IF d = "sub" THEN "root" ELSE "sub"]
DeepUnder  == [d \in DeepDirs |-> CASE d = "root" -> DeepDirs
                                   [] d = "sub"  -> {"sub", "deep"}
                                   [] d = "deep" -> {"deep"}]

\* Empty, flat, and with a file at the top, further down, and at both places.
DeepSources ==
  {[dir |-> "sub", dirs |-> ds, files |-> [p \in ps |-> 5]] :
     ds \in {{"sub", "deep"}},
     ps \in SUBSET {<<"sub", "a">>, <<"deep", "a">>}}
  \cup {[dir |-> "sub", dirs |-> {"sub"}, files |-> [p \in {<<"sub", "a">>} |-> 5]]}
=============================================================================
