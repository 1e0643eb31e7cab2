---------------------------- MODULE CarefulSession ----------------------------
(***************************************************************************)
(* The session of a user who keeps clear of what HostSession gets wrong,   *)
(* and what it then promises.  He                                          *)
(*   - accesses a folder only with none open, and closes it when he leaves;*)
(*   - asks for a password only then, or in a protected folder;            *)
(*   - goes up one folder at a time by "..\", and down from the root only; *)
(*   - ends no path he pulls in two backslashes;                           *)
(*   - pulls from within the folder, of a public one the root or a file,   *)
(*     and to directories that do not have the folder's name in theirs;    *)
(*   - visits hosts and folders whose names mislead no search.             *)
(* The hosts he visits answer.                                             *)
(***************************************************************************)
EXTENDS HostSession

Hides(path, name) == BeginsIn(path, name) # {}

PlainHost(h) == ~Hides(<<FS>>, NameOfHost[h])

\* Nothing in front of the root has its name in it, and nothing that is looked
\* up below the root is taken for "." or for the root.
Plain(f) ==
  LET t == TreeOf[f] IN
  /\ ~Hides(HostDir(OwnerOf[f]), t.name)
  /\ t.name \notin Dotted /\ <<t.name>> \notin t.files
  /\ \A p \in t.folders :
       p # <<>> => Head(p) \notin Dotted /\ Head(p) # t.name

CarefulDown(rel) ==
  /\ root # NoRoot /\ dir = Home(root)
  /\ rel.ups = 0 /\ rel.down \in TreeOf[root].folders

\* The way below the root of a path from the root on.
Below(path) == From(path, 4)

NameAt(f, way) == IF way = <<>> THEN TreeOf[f].name ELSE LastOf(way)

CarefulPull(path, to) ==
  /\ root # NoRoot /\ path \in Seq(Names) /\ StartsWith(path, Home(root))
  /\ Below(path) \in TreeOf[root].folders =>
       /\ ~Hides(to, NameAt(root, Below(path)))
       /\ KindOf[root] = "nf" => Below(path) = <<>>

CarefulNext ==
  \/ \E d \in LocalDirs : suffix = "" /\ ChangeDirectory(d)
  \/ \E h \in Hosts : PlainHost(h) /\ Goto(h)
  \/ Leave(TRUE)
  \/ \E f \in Folders : root = NoRoot /\ Plain(f) /\ AccessFolder(f)
  \/ \E kind \in Kinds : root = NoRoot /\ AccessNone(kind)
  \/ (root = NoRoot \/ ~normal) /\ AskPassword
  \/ Cd(Relative(1, <<Nothing>>))
  \/ \E rel \in Typed : CarefulDown(rel) /\ Cd(rel)
  \/ \E rel \in Typed, to \in LocalDirs :
       CarefulPull(CombinePath(dir, Param(rel)), to) /\ PullPath(rel, to)
  \/ root # NoRoot /\ CarefulPull(Home(root), local) /\ PullAll
  \/ Close \/ Quit

CarefulSpec == Init /\ [][CarefulNext]_vars

-----------------------------------------------------------------------------
(* Properties *)

\* What the commands leave in the members fits together: a folder is open only
\* at the host that shares it and m_isNormalFolder is its kind,
\* m_fsaCurrentDir is the directory of one of its folders, and the console
\* shows that directory, or the user's own one outside.
SessionAgrees ==
  /\ local \in LocalDirs /\ suffix \in {"", "-fsa"} /\ alive \in BOOLEAN
  /\ suffix = "" => /\ curServ = NoHost /\ root = NoRoot
                    /\ dir = <<>> /\ shown = local
  /\ suffix = "-fsa" => curServ \in Hosts /\ PlainHost(curServ) /\ shown = dir
  /\ suffix = "-fsa" /\ root = NoRoot => dir = HostDir(curServ)
  /\ root # NoRoot =>
       /\ root \in Folders /\ OwnerOf[root] = curServ /\ Plain(root)
       /\ normal = (KindOf[root] = "nf")
       /\ \E way \in TreeOf[root].folders : dir = Home(root) \o way

\* Every file of a pull is saved, and is the one that the path in the command
\* names, or the one at this place in the folder it names; no two are saved to
\* one place.
AsNamed(pulled) ==
  /\ \A s \in pulled : \E f \in Folders : \E p \in TreeOf[f].files :
       /\ s.from = Home(f) \o p /\ s.got = {<<f, p>>}
       /\ LastOf(s.at) = LastOf(p)
  /\ \A s, t \in pulled : s.at = t.at => s = t

SavedAsNamed == AsNamed(saved)

\* The commands carry out the stages of a visit: in particular, what a pull
\* fetches is a file of the folder that is open, or all the files of one of
\* its folders.
Stages == INSTANCE SessionStages WITH
  host    <- curServ,
  folder  <- root,
  place   <- Below(dir),
  fetched <- UNION {s.got : s \in saved}

ImplementsStages == Stages!Spec

\* Every file of a folder that is pulled arrives.  Stated of the commands of
\* any user, as the manual does: "pull <from> <to>", from being the path of
\* the file or folder to get.
PulledFilesArrive == \A s \in saved : s.got # {}
=============================================================================
