----------------------------- MODULE FolderInUse -----------------------------
(***************************************************************************)
(* A public folder that server threads use: each access writes its tree    *)
(* down by a traversal, which the other host reads; each pull, and the     *)
(* main thread's save, asks for the path of something in it.               *)
(*                                                                         *)
(* The folder stores one path, its own.  A traversal makes it longer and   *)
(* shorter as it goes, and lets the subfolders it is in point to it; who   *)
(* asks for a path meanwhile is told a wrong one, and two traversals can   *)
(* leave the path wrong for good.  Nothing in the code keeps them apart:   *)
(* "overlapped" tells that it has happened.                                *)
(*                                                                         *)
(* A path is the sequence of its names, and lengths are counted in names.  *)
(***************************************************************************)
EXTENDS Naturals, Sequences

CONSTANTS
  Threads,     \* the server threads
  Names,
  Home,        \* where the folder is
  Subs,        \* the names of each folder's folders, in their order
  FilesIn,     \* and of its files
  MaxAccesses  \* bound: accesses in all

Folders     == DOMAIN Subs
ButLast(p)  == SubSeq(p, 1, Len(p) - 1)
Child(p, i) == Append(p, Subs[p][i])

Nul == "nul"   \* what a string is filled up with

ASSUME FolderInUseAssumption ==
  /\ Nul \notin Names /\ Home \in Seq(Names) \ {<<>>} /\ MaxAccesses \in Nat
  /\ Folders \subseteq Seq(Names) /\ <<>> \in Folders
  /\ Subs \in [Folders -> Seq(Names)] /\ FilesIn \in [Folders -> Seq(Names)]
  /\ \A p \in Folders : \A i \in DOMAIN Subs[p] : Child(p, i) \in Folders
  \* Every folder is one of the folder it is in, once.
  /\ \A p \in Folders \ {<<>>} : /\ ButLast(p) \in Folders
                                 /\ \E i \in DOMAIN Subs[ButLast(p)] :
                                      p = Child(ButLast(p), i)
  /\ \A p \in Folders : \A i, j \in DOMAIN Subs[p] :
       Subs[p][i] = Subs[p][j] => i = j

VARIABLES
  iterPath,    \* *m_iteratorPath of the root
  hooked,      \* the folders below whose m_iteratorPath points to it, too
  stack,       \* each thread's calls of Traverse
  wrote,       \* what its last access has written
  told,        \* the last path that was asked for
  overlapped,  \* two traversals were under way at one time
  accesses     \* count, for the bound

vars == <<iterPath, hooked, stack, wrote, told, overlapped, accesses>>

Init ==
  /\ iterPath = Home /\ hooked = {}
  /\ stack = [t \in Threads |-> <<>>] /\ wrote = [t \in Threads |-> <<>>]
  /\ told = [of |-> <<>>, is |-> Home, alone |-> TRUE]
  /\ overlapped = FALSE /\ accesses = 0

Inside    == {t \in Threads : stack[t] # <<>>}
Top(t)    == stack[t][Len(stack[t])]
Hooked(p) == p = <<>> \/ p \in hooked

-----------------------------------------------------------------------------
(* The tree, written and read *)

RootName == Home[Len(Home)]

\* What SaveStructure writes of a folder before its folders, and after them.
Written(p) ==
  [name  |-> IF p = <<>> THEN RootName ELSE p[Len(p)],
   files |-> FilesIn[p], pop |-> FALSE]
Pop == [name |-> "", files |-> <<>>, pop |-> TRUE]

\* Faulty: the stack stays.
NotPopped(l) == l

\* LoadStructure: the first folder is the root; the others belong to the one
\* on top of the stack, which is told here by its path and its height.
Popped(l) ==
  [l EXCEPT !.at = IF @ = <<>> THEN @ ELSE ButLast(@), !.height = @ - 1]
Parsed(l, line) ==
  LET new == Append(l.at, line.name)
      D   == DOMAIN l.subs \cup {new}
  IN
  IF l.height = 0
    THEN [l EXCEPT !.height = 1, !.files = [p \in {<<>>} |-> line.files]]
    ELSE [at |-> new, height |-> l.height + 1,
          subs  |-> [p \in D |-> CASE p = new  -> <<>>
                                   [] p = l.at -> Append(l.subs[p], line.name)
                                   [] OTHER    -> l.subs[p]],
          files |-> [p \in D |-> IF p = new THEN line.files ELSE l.files[p]]]
NothingRead ==
  LET empty == [p \in {<<>>} |-> <<>>]
  IN  [at |-> <<>>, height |-> 0, subs |-> empty, files |-> empty]
Read(l, line) == IF line.pop THEN Popped(l) ELSE Parsed(l, line)
LoadStructure(lines) ==
  LET load[i \in 0 .. Len(lines)] ==
        IF i = 0 THEN NothingRead ELSE Read(load[i - 1], lines[i])
  IN  load[Len(lines)]

-----------------------------------------------------------------------------
(* Traverse *)

\* Faulty: the path is as long as the folders below have left it.
NotResized(path, n) == path

Resize(path, n) ==
  [i \in 1 .. n |-> IF i <= Len(path) THEN path[i] ELSE Nul]

Frame(p, hook, path) ==
  [at |-> p, size |-> IF hook THEN Len(path) ELSE 0, next |-> 1]

\* The call on top goes on after the new one.
Deeper(s, frame) == Append([s EXCEPT ![Len(s)].next = @ + 1], frame)

Write(t, line) == wrote' = [wrote EXCEPT ![t] = Append(@, line)]

\* AccessNormalFolder, up to the root's lines.
Access(t) ==
  /\ stack[t] = <<>> /\ accesses < MaxAccesses
  /\ stack' = [stack EXCEPT ![t] = <<Frame(<<>>, TRUE, iterPath)>>]
  /\ wrote' = [wrote EXCEPT ![t] = <<Written(<<>>)>>]
  /\ overlapped' = (overlapped \/ Inside # {})
  /\ accesses' = accesses + 1
  /\ UNCHANGED <<iterPath, hooked, told>>

\* The next folder takes over the pointer, null or not, and its name is added
\* when there is a path.
Descend(t) ==
  LET at    == Top(t).at
      i     == Top(t).next
      child == Child(at, i)
      path  == IF Hooked(at) THEN Append(iterPath, Subs[at][i]) ELSE iterPath
  IN
  /\ stack[t] # <<>> /\ i \in DOMAIN Subs[at]
  /\ hooked' = IF Hooked(at) THEN hooked \cup {child} ELSE hooked \ {child}
  /\ iterPath' = path
  /\ stack' = [stack EXCEPT ![t] = Deeper(@, Frame(child, Hooked(at), path))]
  /\ Write(t, Written(child))
  /\ UNCHANGED <<told, overlapped, accesses>>

AtEnd(t) == stack[t] # <<>> /\ Top(t).next = Len(Subs[Top(t).at]) + 1

\* Back in the folder above: the pointer is cut, and the path, if that folder
\* has one.
Ascend(t) ==
  LET above == stack[t][Len(stack[t]) - 1] IN
  /\ AtEnd(t) /\ Len(stack[t]) > 1
  /\ hooked' = hooked \ {Top(t).at}
  /\ iterPath' = IF Hooked(above.at) THEN Resize(iterPath, above.size)
                                     ELSE iterPath
  /\ stack' = [stack EXCEPT ![t] = ButLast(@)]
  /\ Write(t, Pop)
  /\ UNCHANGED <<told, overlapped, accesses>>

Finish(t) ==
  /\ AtEnd(t) /\ Len(stack[t]) = 1
  /\ stack' = [stack EXCEPT ![t] = <<>>]
  /\ Write(t, Pop)
  /\ UNCHANGED <<iterPath, hooked, told, overlapped, accesses>>

-----------------------------------------------------------------------------
(* Path *)

\* The path of the next folder above that has one, and the names from there.
Path(p) ==
  LET k == CHOOSE i \in 0 .. Len(p) :
             /\ Hooked(SubSeq(p, 1, i))
             /\ \A j \in i + 1 .. Len(p) : ~Hooked(SubSeq(p, 1, j))
  IN  iterPath \o SubSeq(p, k + 1, Len(p))

Tell(p, name) ==
  /\ told' = [of |-> p \o name, is |-> Path(p) \o name,
              alone |-> Inside = {} /\ ~overlapped]
  /\ UNCHANGED <<iterPath, hooked, stack, wrote, overlapped, accesses>>

\* GetNormalFstream, which opens what is at that path.
Pull(t, p, i) == stack[t] = <<>> /\ Tell(p, <<FilesIn[p][i]>>)

\* FileSharingServer::Save, in the main thread.
Save == Tell(<<>>, <<>>)

-----------------------------------------------------------------------------
Next ==
  \/ \E t \in Threads :
       \/ Access(t) \/ Descend(t) \/ Ascend(t) \/ Finish(t)
       \/ \E p \in Folders : \E i \in DOMAIN FilesIn[p] : Pull(t, p, i)
  \/ Save

Spec == Init /\ [][Next]_vars

-----------------------------------------------------------------------------
(* Properties *)

\* Traversals that do not overlap leave the folder's path, and all pointers to
\* it, as they were.
PathComesHome ==
  ~overlapped /\ Inside = {} => iterPath = Home /\ hooked = {}

\* What asks for a path while no traversal is under way, and after none have
\* overlapped, is told where the file is.
PathsAreRight == told.alone => told.is = Home \o told.of

\* The other host reads the folder's tree from what an access has written,
\* even when accesses overlap.
TreesArriveWhole ==
  \A t \in Threads : stack[t] = <<>> /\ wrote[t] # <<>> =>
    LET l == LoadStructure(wrote[t])
    IN  l.subs = Subs /\ l.files = FilesIn /\ l.height = 0
=============================================================================
