----------------------------- MODULE HostSession -----------------------------
(***************************************************************************)
(* The commands of a host's user who visits other hosts: where the session *)
(* is (m_suffix, m_curServ, m_root, m_isNormalFolder, m_fsaCurrentDir),    *)
(* what directory the console shows, and what a pull asks the other host   *)
(* for and where it puts what comes.                                       *)
(*                                                                         *)
(* Every member is set by some commands and believed by others, and most   *)
(* paths are cut by searching a text for a name.  The console changes its  *)
(* own directory by the same "cd" it then sends to the host.               *)
(*                                                                         *)
(* The other host's tables, the transfer itself and the talk with the      *)
(* console are SharedFolders, FileTransfer and LocalConnection.            *)
(***************************************************************************)
EXTENDS FolderTree

CONSTANTS
  Hosts,      \* the hosts a scan has listed
  NameOfHost,
  Folders,    \* what they share
  OwnerOf, KindOf, TreeOf,
  LocalDirs,  \* absolute paths of directories of the user's own
  Typed       \* paths a user types in a command

Kinds     == {"ef", "nf"}
FS        == "FS:"
NoHost    == "no host"
NoRoot    == "no folder"
EmptyRoot == "empty folder"

ASSUME HostSessionAssumption ==
  /\ FS \in Names
  /\ NameOfHost \in [Hosts -> Names]
  /\ OwnerOf \in [Folders -> Hosts] /\ KindOf \in [Folders -> Kinds]
  /\ \A f \in Folders : IsTree(TreeOf[f])
  /\ \A f, g \in Folders :
       /\ OwnerOf[f] = OwnerOf[g] /\ KindOf[f] = KindOf[g]
       /\ TreeOf[f].name = TreeOf[g].name
       => f = g
  /\ NoHost \notin Hosts /\ NoRoot \notin Folders /\ EmptyRoot \notin Folders
  /\ LocalDirs \subseteq Seq(Names)
  /\ Typed \subseteq [ups : Nat, down : Seq(Names \cup {Nothing})]
  /\ \A rel \in Typed : IsRelative(rel)

VARIABLES
  local,    \* m_currentDir
  suffix,   \* m_suffix: "-fsa" from goto to leave
  curServ,  \* m_curServ
  root,     \* m_root: the folder whose tree it is
  normal,   \* m_isNormalFolder
  dir,      \* m_fsaCurrentDir
  shown,    \* the directory the console shows
  saved,    \* what the last pull asked for: what the user meant, where the
            \* answer goes, and what it is (no file, if the host has none)
  alive     \* the host's process runs

where == <<suffix, curServ, root, normal, dir>>
vars  == <<local, where, shown, saved, alive>>

Init ==
  /\ local \in LocalDirs /\ shown = local
  /\ suffix = "" /\ curServ = NoHost
  /\ root = NoRoot /\ normal = FALSE /\ dir = <<>>
  /\ saved = {} /\ alive = TRUE

HostDir(h) == <<FS, NameOfHost[h]>>
Home(f)    == HostDir(OwnerOf[f]) \o <<TreeOf[f].name>>

\* What m_root points to; a tree that could not be read has neither name nor
\* content.
EmptyTree == [name |-> "", folders |-> {<<>>}, files |-> {}]
Tree      == IF root = EmptyRoot THEN EmptyTree ELSE TreeOf[root]
NamesRoot(path) == root = EmptyRoot \/ BeginsIn(path, Tree.name) # {}

Inside  == alive /\ suffix = "-fsa"
Outside == alive /\ suffix = ""

-----------------------------------------------------------------------------
(* Going to a host and leaving it *)

\* The console goes there by itself, the host only while outside.
ChangeDirectory(d) ==
  /\ alive
  /\ shown' = d
  /\ local' = IF suffix = "" THEN d ELSE local
  /\ UNCHANGED <<where, saved, alive>>

\* All is set before the host is asked for its overview, and stays so when it
\* does not answer.
Goto(h) ==
  /\ Outside
  /\ dir' = HostDir(h) /\ shown' = dir'
  /\ curServ' = h /\ suffix' = "-fsa"
  /\ UNCHANGED <<local, root, normal, saved, alive>>

\* The user is asked twice, whether to leave and whether to close; his second
\* answer is not looked at.
Leave(close) ==
  /\ Inside
  /\ root' = IF close THEN NoRoot ELSE root
  /\ curServ' = NoHost /\ dir' = <<>> /\ suffix' = "" /\ shown' = local
  /\ UNCHANGED <<local, normal, saved, alive>>

Quit ==
  /\ Outside
  /\ alive' = FALSE
  /\ UNCHANGED <<local, where, shown, saved>>

-----------------------------------------------------------------------------
(* Access to a folder *)

\* Faulty: the console is not told.
OpenedQuietly(f) ==
  /\ root' = f
  /\ dir' = Append(dir, TreeOf[f].name) /\ shown' = dir

Opened(f) ==
  /\ root' = f
  /\ dir' = Append(dir, TreeOf[f].name) /\ shown' = dir'

\* The kind is noted before the request.
Access(kind) == Inside /\ normal' = (kind = "nf")

AccessFolder(f) ==
  /\ Access(KindOf[f]) /\ curServ = OwnerOf[f]
  /\ Opened(f)
  /\ UNCHANGED <<local, suffix, curServ, saved, alive>>

\* No such folder, a wrong password, or no answer.
AccessNone(kind) ==
  /\ Access(kind)
  /\ UNCHANGED <<local, suffix, curServ, root, dir, shown, saved, alive>>

\* An answer that is no tree: the new root is in place when reading it throws.
AccessNoTree(kind) ==
  /\ Access(kind)
  /\ root' = EmptyRoot
  /\ UNCHANGED <<local, suffix, curServ, dir, shown, saved, alive>>

AskPassword ==
  /\ Inside
  /\ normal' = FALSE
  /\ UNCHANGED <<local, suffix, curServ, root, dir, shown, saved, alive>>

Close ==
  /\ Inside /\ root # NoRoot
  /\ dir' = HostDir(curServ) /\ shown' = dir'
  /\ root' = NoRoot
  /\ UNCHANGED <<local, suffix, curServ, normal, saved, alive>>

-----------------------------------------------------------------------------
(* Changing the directory *)

\* The console tries the path in its own working directory first, where a path
\* that only goes up always leads somewhere.
ConsoleGoes(rel) ==
  LET path == Popped(CombinePath(shown, rel))
  IN  shown' \in IF \A i \in DOMAIN rel.down : rel.down[i] \in {Nothing, Upward}
                   THEN {path} ELSE {path, shown}

\* The host looks where the path would lead for the names of the other host
\* and of the root, but for the folder from the root on.
Moves(path) ==
  IF NamesRoot(path) THEN dir' = path /\ shown' = path
                     ELSE shown' = dir /\ UNCHANGED dir

Cd(rel) ==
  LET path == Popped(CombinePath(dir, rel)) IN
  /\ Inside
  /\ IF BeginsIn(path, NameOfHost[curServ]) = {}
       THEN shown' = dir /\ UNCHANGED <<dir, alive>>
     ELSE IF root = NoRoot
       THEN /\ alive' = (DropDot(Split(Written(rel))) = <<>>)
            /\ ConsoleGoes(rel) /\ UNCHANGED dir
     ELSE IF ~HasFolder(Tree, Written(rel))
       THEN ConsoleGoes(rel) /\ UNCHANGED <<dir, alive>>
     ELSE Moves(path) /\ UNCHANGED alive
  /\ UNCHANGED <<local, suffix, curServ, root, normal, saved>>

-----------------------------------------------------------------------------
(* Pulling *)

\* What the other host sends for a path: the first name chooses a folder of
\* the kind, the rest is looked up in it.
Serve(kind, path) ==
  {<<f, FileWay(TreeOf[f], Tail(path))>> : f \in
     {g \in Folders : /\ Len(path) > 1
                      /\ OwnerOf[g] = curServ /\ KindOf[g] = kind
                      /\ TreeOf[g].name = Head(path)
                      /\ HasFile(TreeOf[g], Tail(path))}}

\* Faulty: the flag is not looked at.
PublicKind == "nf"

Kind == IF normal THEN "nf" ELSE "ef"
Asked(from, at, path) == [from |-> from, at |-> at, got |-> Serve(Kind, path)]

\* GetFileName: the whole path, when that ends in a backslash.
FileName(way) == IF EndsOpen(way) THEN way ELSE <<LastOf(way)>>

PulledFile(from, way, to) == {Asked(from, to \o FileName(way), way)}

\* Faulty: as for a public folder.
NoPrefix(way) == <<>>

\* What stands in front of the last backslash: the path of the folder above;
\* for the root the root's name, which GetFile then drops; and for a path that
\* ends in a backslash the folder itself, so that its name comes twice.
Prefix(way) == IF normal THEN <<>>
               ELSE IF Len(way) = 1 THEN way ELSE AllButLast(way)

\* The path to ask for is cut from the local one, where the folder's name
\* first occurs.
PulledFolder(from, way, to) ==
  LET at   == FolderWay(Tree, way)
      name == IF at = <<>> THEN Tree.name ELSE LastOf(at)
      Local(p) == to \o <<name>> \o From(p, Len(at) + 1)
  IN  {Asked(from \o From(p, Len(at) + 1), Local(p),
             Prefix(way) \o FromFirst(Local(p), name)) :
         p \in {q \in Tree.files : StartsWith(q, at)}}

\* A file goes first.
Pulled(from, way, to) ==
  IF HasFile(Tree, way)        THEN PulledFile(from, way, to)
  ELSE IF HasFolder(Tree, way) THEN PulledFolder(from, way, to)
  ELSE {}

\* The path "to" alone is typed as Relative(0, <<>>).  A path in which the
\* root's name is not found throws.
PullPath(rel, to) ==
  LET path == CombinePath(dir, Param(rel)) IN
  /\ Inside /\ root # NoRoot
  /\ saved' = IF root = EmptyRoot \/ ~NamesRoot(path) THEN {}
              ELSE Pulled(path, FromFirst(path, Tree.name), to)
  /\ UNCHANGED <<local, where, shown, alive>>

PullAll ==
  /\ Inside /\ root # NoRoot
  /\ saved' = IF root = EmptyRoot THEN {}
              ELSE Pulled(HostDir(curServ) \o <<Tree.name>>, <<Tree.name>>,
                          local)
  /\ UNCHANGED <<local, where, shown, alive>>

-----------------------------------------------------------------------------
Next ==
  \/ \E d \in LocalDirs : ChangeDirectory(d)
  \/ \E h \in Hosts : Goto(h)
  \/ \E close \in BOOLEAN : Leave(close)
  \/ \E f \in Folders : AccessFolder(f)
  \/ \E kind \in Kinds : AccessNone(kind) \/ AccessNoTree(kind)
  \/ \E rel \in Typed : Cd(rel)
  \/ \E rel \in Typed, to \in LocalDirs : PullPath(rel, to)
  \/ PullAll \/ AskPassword \/ Close \/ Quit

Spec == Init /\ [][Next]_vars
=============================================================================
