----------------------------- MODULE SessionStages -----------------------------
(***************************************************************************)
(* What a user is promised of a visit to another host: he is outside, or   *)
(* at a host, or in a folder of it and there at one of its folders, and    *)
(* what he fetches is a file of the folder he is in, or all the files of   *)
(* one of its folders.                                                     *)
(***************************************************************************)
EXTENDS FolderTree

CONSTANTS
  Hosts,
  Folders,  \* what the hosts share
  OwnerOf,
  TreeOf

NoHost == "no host"
NoRoot == "no folder"

VARIABLES
  host,     \* the host visited
  folder,   \* the folder accessed
  place,    \* the way from its root to where the user is
  fetched   \* what the last command fetched: pairs of a folder and a file's way

vars == <<host, folder, place, fetched>>

Init ==
  host = NoHost /\ folder = NoRoot /\ place = <<>> /\ fetched = {}

\* The file at a path of a folder, or the files below it.
FilesAt(f, way) ==
  IF way \in TreeOf[f].files
    THEN {way} ELSE {p \in TreeOf[f].files : StartsWith(p, way)}

Visit(h) ==
  /\ host = NoHost
  /\ host' = h
  /\ UNCHANGED <<folder, place, fetched>>

Open(f) ==
  /\ folder = NoRoot /\ host = OwnerOf[f]
  /\ folder' = f
  /\ UNCHANGED <<host, place, fetched>>

Walk ==
  /\ folder # NoRoot
  /\ place' \in TreeOf[folder].folders
  /\ UNCHANGED <<host, folder, fetched>>

Fetch ==
  /\ folder # NoRoot
  /\ \E way \in TreeOf[folder].folders \cup TreeOf[folder].files :
       fetched' = {folder} \X FilesAt(folder, way)
  /\ UNCHANGED <<host, folder, place>>

\* What was named is not there.
Miss ==
  /\ folder # NoRoot
  /\ fetched' = {}
  /\ UNCHANGED <<host, folder, place>>

Shut ==
  /\ folder # NoRoot
  /\ folder' = NoRoot /\ place' = <<>>
  /\ UNCHANGED <<host, fetched>>

Part ==
  /\ host # NoHost
  /\ host' = NoHost /\ folder' = NoRoot /\ place' = <<>>
  /\ UNCHANGED fetched

Next ==
  \/ \E h \in Hosts : Visit(h)
  \/ \E f \in Folders : Open(f)
  \/ Walk \/ Fetch \/ Miss \/ Shut \/ Part

Spec == Init /\ [][Next]_vars
=============================================================================
