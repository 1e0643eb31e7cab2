------------------------------ MODULE FolderTree ------------------------------
(***************************************************************************)
(* The tree of a folder as FileFolder.h looks things up in it, and the     *)
(* paths the host's commands are made of.                                  *)
(*                                                                         *)
(* A path is the sequence of what stands between its backslashes: names,   *)
(* and the empty text after a backslash at the end.  A tree is the name of *)
(* its root, and the paths of its folders and files below the root; the    *)
(* root itself is the empty path.  Where the code follows a path name by   *)
(* name, this is whether the path is one of the tree's, because with a     *)
(* path a tree has all its beginnings.                                     *)
(***************************************************************************)
EXTENDS Naturals, Sequences, FiniteSets

CONSTANTS
  Names,    \* what can stand between two backslashes, but for nothing
  Dotted,   \* the names with a dot in them
  RestOf    \* what is left of a name from where another begins in it, for the
            \* pairs <<name, other>> where it does

Upward  == ".."   \* the name that stands for the folder above
Nothing == ""     \* what stands after a backslash at the end

ASSUME FolderTreeAssumption ==
  /\ Nothing \notin Names
  /\ Dotted \subseteq Names /\ Upward \in Dotted
  /\ DOMAIN RestOf \subseteq Names \X Names
  /\ \A n \in Names : <<n, n>> \in DOMAIN RestOf /\ RestOf[<<n, n>>] = n
  /\ \A p \in DOMAIN RestOf : RestOf[p] \in Names

AllButLast(path) == SubSeq(path, 1, Len(path) - 1)
LastOf(path)     == path[Len(path)]
From(path, i)    == SubSeq(path, i, Len(path))
StartsWith(path, start) ==
  Len(start) <= Len(path) /\ SubSeq(path, 1, Len(start)) = start

\* Without the backslash at the end.
EndsOpen(path) == path # <<>> /\ LastOf(path) = Nothing
Popped(path)   == IF EndsOpen(path) THEN AllButLast(path) ELSE path

\* Folders are in folders, and so is a file's.
IsTree(t) ==
  /\ t.name \in Names \ {Upward}
  /\ t.folders \subseteq Seq(Names) /\ t.files \subseteq Seq(Names)
  /\ <<>> \in t.folders
  /\ \A p \in t.folders : p # <<>> => AllButLast(p) \in t.folders
  /\ \A p \in t.files : p # <<>> /\ AllButLast(p) \in t.folders
  /\ t.folders \cap t.files = {}

-----------------------------------------------------------------------------
(* GetFolder and GetFile *)

\* StringSplit: what is empty, which is at the end, is no part of the way.
Split(path) == SubSeq(path, 1, Cardinality({i \in DOMAIN path : path[i] # Nothing}))

\* A first name with a dot in it is taken for "." or "..", and then a first
\* name that is the root's for the root; both are dropped.
DropDot(way)     == IF way # <<>> /\ Head(way) \in Dotted THEN Tail(way)
                                                          ELSE way
DropRoot(t, way) == IF way # <<>> /\ Head(way) = t.name THEN Tail(way)
                                                        ELSE way

FolderWay(t, path) == DropRoot(t, DropDot(Split(path)))
HasFolder(t, path) == FolderWay(t, path) \in t.folders

FileWay(t, path) ==
  FolderWay(t, AllButLast(Split(path))) \o <<LastOf(Split(path))>>
HasFile(t, path) == Split(path) # <<>> /\ FileWay(t, path) \in t.files

-----------------------------------------------------------------------------
(* Paths in a command *)

\* What is typed as a path: a number of "..\" and what follows.  "..\" alone
\* is Relative(1, <<Nothing>>), and ".." is Relative(0, <<Upward>>).
Relative(ups, down) == [ups |-> ups, down |-> down]
Written(rel) == [i \in 1 .. rel.ups |-> Upward] \o rel.down

\* Every "..\" is counted, and at most two backslashes are at the end.
IsRelative(rel) ==
  LET down == rel.down IN
  /\ rel.ups \in Nat /\ down \in Seq(Names \cup {Nothing})
  /\ down = <<>> => rel.ups = 0
  /\ down # <<>> /\ Head(down) = Nothing => rel.ups > 0
  /\ down # <<>> /\ Head(down) = Upward => Len(down) = 1
  /\ \A i \in DOMAIN down :
       down[i] = Nothing => i + 1 >= Len(down) /\ EndsOpen(down)

\* CombinePath: every "..\" at the beginning takes a name off the end, but not
\* the first, which ends in a colon; with nothing after them, a backslash
\* stays at the end.
CombinePath(dir, rel) ==
  IF rel.down = <<>> THEN dir
  ELSE Popped(SubSeq(dir, 1, IF rel.ups < Len(dir) THEN Len(dir) - rel.ups
                                                   ELSE 1)) \o rel.down

\* ExtractParams takes one backslash off the end of a parameter, and what is
\* left of a "..\" is not one.
Param(rel) ==
  IF ~EndsOpen(rel.down)        THEN rel
  ELSE IF Len(rel.down) = 1 THEN Relative(rel.ups - 1, <<Upward>>)
  ELSE Relative(rel.ups, AllButLast(rel.down))

\* Where a name begins for the first time in a path, in whatever name of it,
\* and the path from there (wstring::find, and substr of the result).
BeginsIn(path, name) ==
  {i \in DOMAIN path : <<path[i], name>> \in DOMAIN RestOf}
FromFirst(path, name) ==
  LET i == CHOOSE x \in BeginsIn(path, name) :
             \A y \in BeginsIn(path, name) : x <= y
  IN  <<RestOf[<<path[i], name>>]>> \o From(path, i + 1)
=============================================================================
