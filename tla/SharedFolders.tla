---------------------------- MODULE SharedFolders ----------------------------
(***************************************************************************)
(* The folders a host shares: two tables, of protected and of public       *)
(* folders, each with a lock and a ready flag, and the session file they   *)
(* are saved to.                                                           *)
(*                                                                         *)
(* Only the host's main thread shares folders, so only it takes the locks. *)
(* Server threads answer requests meanwhile.  They take no lock: a request *)
(* looks at a flag, which AddFolder lowers first and raises last, and then *)
(* reads a table.                                                          *)
(*                                                                         *)
(* A folder object is called by its path.  What leaves a function as an    *)
(* exception is "wide" (a pointer to wchar_t), which AddFolder catches,    *)
(* "string" (std::wstring) or "other" (a pointer to char, bad_alloc).      *)
(***************************************************************************)
EXTENDS Naturals, FiniteSets, Sequences, Functions

CONSTANTS
  Paths,    \* containers and folders the user may share
  KindOf,   \* of a path: "ef" for a container, "nf" for a folder
  NameOf,   \* the name it is shared under
  Clients   \* server threads

Kinds == {"ef", "nf"}
None  == "none"

ASSUME SharedFoldersAssumption ==
  /\ KindOf \in [Paths -> Kinds]
  /\ DOMAIN NameOf = Paths
  /\ None \notin Paths

VARIABLES
  main,     \* where the main thread is and the path it shares
  ready,    \* m_efReady, m_nfReady
  lock,     \* m_efLock, m_nfLock
  table,    \* m_encryptedFolders, m_normalFolders: paths by name
  client,   \* the request of a server thread and how far it is
  early,    \* threads whose request was under way when a flag was lowered
  session,  \* the session file; "empty" from when it is opened to write
            \* to when it has been written
  kept,     \* the tables as the user last chose to save them
  bound     \* an object that failed to load still has the ports

tables == <<ready, lock, table>>
users  == <<client, early>>
file   == <<session, kept>>
vars   == <<main, tables, users, file, bound>>

NoFolders == [k \in Kinds |-> [n \in {} |-> None]]
AllReady  == [k \in Kinds |-> TRUE]
AllFree   == [k \in Kinds |-> "free"]

NoFile    == [state |-> "none"]

At(place)    == [main EXCEPT !.at = place]
MainAt(place) == main.at = place
Menu == [at |-> "menu", path |-> None]
Idle == [at |-> "idle", path |-> None]
Kind == KindOf[main.path]
Name == NameOf[main.path]

Quiet   == [task |-> None, name |-> None, steps |-> <<>>, found |-> None,
            torn |-> FALSE]
Busy(c) == client[c] # Quiet

Init ==
  /\ main = Menu
  /\ ready = AllReady /\ lock = AllFree /\ table = NoFolders
  /\ client = [c \in Clients |-> Quiet] /\ early = {}
  /\ session = NoFile /\ kept = NoFolders /\ bound = FALSE

-----------------------------------------------------------------------------
(* AddFolder, on the main thread *)

\* The flag goes down before the lock is waited for.
Share(path) ==
  /\ MainAt("idle")
  /\ main' = [at |-> "wait", path |-> path]
  /\ ready' = [ready EXCEPT ![KindOf[path]] = FALSE]
  /\ early' = {c \in Clients : client[c].steps # <<>>}
  /\ UNCHANGED <<lock, table, client, file, bound>>

\* WaitToLock tries again for ever.
TakeLock ==
  /\ MainAt("wait") /\ lock[Kind] = "free"
  /\ main' = At("open")
  /\ lock' = [lock EXCEPT ![Kind] = "held"]
  /\ UNCHANGED <<ready, table, users, file, bound>>

Shared == Name \in DOMAIN table[Kind]

Opens ==
  /\ MainAt("open")
  /\ main' = At(IF Shared THEN "refuse" ELSE "insert")
  /\ UNCHANGED <<tables, users, file, bound>>

\* A folder that is none any more, or that the working directory of the
\* process has and the host's current directory has not.
FolderIsNone ==
  /\ MainAt("open") /\ Kind = "nf" /\ ~Shared
  /\ main' = At("throw-wide")
  /\ UNCHANGED <<tables, users, file, bound>>

\* A wrong password, with which the tree does not begin as it should, or a file
\* that is no container.
ContainerIsNone ==
  /\ MainAt("open") /\ Kind = "ef"
  /\ main' = At("throw-other")
  /\ UNCHANGED <<tables, users, file, bound>>

Reading(c, k) ==
  Busy(c) /\ client[c].steps # <<>> /\ Head(client[c].steps) = <<"find", k>>

Added(path) ==
  [table EXCEPT ![KindOf[path]] =
     [n \in DOMAIN @ \cup {NameOf[path]} |->
        IF n = NameOf[path] THEN path ELSE @[n]]]

\* The end of the insertion that "insert" stands for.
Insert ==
  /\ MainAt("insert")
  /\ main' = At("release")
  /\ table' = Added(main.path)
  /\ client' = [c \in Clients |->
                  IF Reading(c, Kind) THEN [client[c] EXCEPT !.torn = TRUE]
                  ELSE client[c]]
  /\ UNCHANGED <<ready, lock, early, file, bound>>

Release ==
  /\ main.at \in {"release", "refuse"}
  /\ main' = At(IF MainAt("release") THEN "raise" ELSE "refused")
  /\ lock' = [lock EXCEPT ![Kind] = "free"]
  /\ UNCHANGED <<ready, table, users, file, bound>>

\* Faulty: the flag stays down for a name that is shared already.
RaiseForNew ==
  /\ main.at \in {"raise", "refused"}
  /\ main' = At(IF MainAt("raise") THEN "idle" ELSE "throw-string")
  /\ ready' = [ready EXCEPT ![Kind] = MainAt("raise")]
  /\ UNCHANGED <<lock, table, users, file, bound>>

\* The object of a name that is shared already is deleted and a text thrown.
Raise ==
  /\ main.at \in {"raise", "refused"}
  /\ main' = At(IF MainAt("raise") THEN "idle" ELSE "throw-string")
  /\ ready' = [ready EXCEPT ![Kind] = TRUE]
  /\ UNCHANGED <<lock, table, users, file, bound>>

Throws == {"throw-wide", "throw-string", "throw-other"}

\* Faulty: the handler that is commented out, and none.
CatchesAll == Throws
CatchesNone == {}

Catches == {"throw-wide"}

\* The handler releases the lock and leaves the flag down.  Launch catches
\* everything and goes on.
Unwind ==
  /\ main.at \in Throws
  /\ main' = Idle
  /\ lock' = IF main.at \in Catches THEN [lock EXCEPT ![Kind] = "free"]
                                    ELSE lock
  /\ UNCHANGED <<ready, table, users, file, bound>>

-----------------------------------------------------------------------------
(* Requests, on the server threads *)

LookAndFind(k) == <<<<"look", k>>, <<"find", k>>>>

\* Faulty: the flag of protected folders serves for both.
OneFlag(task) ==
  CASE task = "get-overview" -> LookAndFind("ef") \o <<<<"find", "nf">>>>
    [] task \in {"access-ef", "transfer"} -> LookAndFind("ef")
    [] OTHER -> <<<<"look", "ef">>, <<"find", "nf">>>>

\* The flags a request looks at and the tables it reads.  GetNormalFolder looks
\* at m_efReady; transferring a public file looks at m_nfReady before.
Steps(task) ==
  CASE task = "get-overview" -> LookAndFind("ef") \o LookAndFind("nf")
    [] task = "access-ef" -> LookAndFind("ef")
    [] task = "access-nf" -> <<<<"look", "ef">>, <<"find", "nf">>>>
    [] task = "transfer"  -> <<<<"look", "ef">>>> \o LookAndFind("ef")
    [] task = "transfer:n" ->
         <<<<"look", "nf">>, <<"look", "ef">>, <<"find", "nf">>>>

Tasks == {"get-overview", "access-ef", "access-nf", "transfer", "transfer:n"}

\* A request for the password of a folder looks for it as access-ef does.
Ask(c, task, name) ==
  /\ main.at # "menu" /\ ~Busy(c)
  /\ client' = [client EXCEPT ![c] = [Quiet EXCEPT !.task = task,
                                        !.name = name, !.steps = Steps(task)]]
  /\ UNCHANGED <<main, tables, early, file, bound>>

Becomes(c, request) ==
  /\ client' = [client EXCEPT ![c] = request]
  /\ early' = IF request.steps = <<>> THEN early \ {c} ELSE early

\* What is not available is left out of an overview, and answered with
\* "nullptr" otherwise.
Look(c) ==
  /\ Busy(c) /\ client[c].steps # <<>> /\ Head(client[c].steps)[1] = "look"
  /\ LET rest == Tail(client[c].steps)
     IN  Becomes(c, IF ready[Head(client[c].steps)[2]]
                    THEN [client[c] EXCEPT !.steps = rest]
                    ELSE IF client[c].task = "get-overview" /\ Len(rest) > 1
                         THEN [client[c] EXCEPT !.steps = Tail(rest)]
                         ELSE Quiet)
  /\ UNCHANGED <<main, tables, file, bound>>

\* A table that is changed while it is read may look like anything between what
\* it was and what it will be.
Findable(c, k) ==
  LET there == IF client[c].name \in DOMAIN table[k]
               THEN {table[k][client[c].name]} ELSE {None}
  IN  IF client[c].torn \/ (MainAt("insert") /\ Kind = k)
      THEN there \cup {None} ELSE there

Find(c) ==
  /\ \E k \in Kinds :
       /\ Reading(c, k)
       /\ IF client[c].task = "get-overview"
          THEN LET rest == Tail(client[c].steps)
               IN  Becomes(c, IF rest = <<>> THEN Quiet
                              ELSE [client[c] EXCEPT !.steps = rest,
                                                     !.torn = FALSE])
          ELSE \E p \in Findable(c, k) :
                 Becomes(c, IF p = None THEN Quiet
                            ELSE [client[c] EXCEPT !.steps = <<>>,
                                    !.found = p, !.torn = FALSE])
  /\ UNCHANGED <<main, tables, file, bound>>

\* The folder that was found is read, turn after turn.
Finish(c) ==
  /\ client[c].found # None
  /\ client' = [client EXCEPT ![c] = Quiet]
  /\ UNCHANGED <<main, tables, early, file, bound>>

Serving == \E c \in Clients :
             \/ \E task \in Tasks, p \in Paths : Ask(c, task, NameOf[p])
             \/ Look(c) \/ Find(c) \/ Finish(c)

-----------------------------------------------------------------------------
(* Sessions *)

\* All public folders, the number of protected ones, and the ones the user
\* confirmed with the password typed, which nobody verifies.
SessionOf(confirmed, right) ==
  [state  |-> "empty",
   normal |-> table["nf"],
   count  |-> Cardinality(DOMAIN table["ef"]),
   lines  |-> [n \in confirmed |-> [path  |-> table["ef"][n],
                                    right |-> n \in right]]]

\* Save asks about every protected folder; then the session file is opened,
\* which empties it, and its password asked for before it is written.
BeginSave(confirmed, right) ==
  /\ MainAt("idle")
  /\ main' = At("save")
  /\ session' = SessionOf(confirmed, right)
  /\ kept' = [table EXCEPT !["ef"] = Restrict(@, confirmed)]
  /\ UNCHANGED <<tables, users, bound>>

EndSave ==
  /\ MainAt("save")
  /\ main' = Idle
  /\ session' = [session EXCEPT !.state = "saved"]
  /\ UNCHANGED <<tables, users, kept, bound>>

\* Faulty: containers that do not open are left out.
LoadedRest(saved) ==
  LET good == {n \in DOMAIN saved.lines : saved.lines[n].right}
  IN  {[k \in Kinds |-> IF k = "nf" THEN saved.normal
                        ELSE [n \in good |-> saved.lines[n].path]]}

\* What loading may yield: LoadEncryptedFolder reads as many lines as were
\* counted and opens each, and an exception leaves nothing.
Loaded(saved) ==
  IF /\ Cardinality(DOMAIN saved.lines) = saved.count
     /\ \A n \in DOMAIN saved.lines : saved.lines[n].right
  THEN {[k \in Kinds |-> IF k = "nf" THEN saved.normal
                         ELSE [n \in DOMAIN saved.lines |->
                                 saved.lines[n].path]]}
  ELSE {}

OpenSession ==
  /\ MainAt("menu") /\ session.state = "saved" /\ ~bound
  /\ main' = Idle
  /\ table' \in Loaded(session)
  /\ UNCHANGED <<ready, lock, users, file, bound>>

\* The constructor binds the ports before it loads folders, and nobody closes
\* them when it throws: the next attempt throws at the ports.
SessionFails ==
  /\ MainAt("menu") /\ session.state = "saved" /\ Loaded(session) = {}
  /\ bound' = TRUE
  /\ UNCHANGED <<main, tables, users, file>>

NewSession ==
  /\ MainAt("menu")
  /\ main' = Idle
  /\ UNCHANGED <<tables, users, file, bound>>

\* The process ends: quit, or anything else.  Whether the ports of a failed
\* attempt are in the way of a new session is the system's choice; if so,
\* that may end it too.
EndProcess ==
  /\ ~MainAt("menu") \/ bound
  /\ main' = Menu
  /\ ready' = AllReady /\ lock' = AllFree /\ table' = NoFolders
  /\ client' = [c \in Clients |-> Quiet] /\ early' = {} /\ bound' = FALSE
  /\ UNCHANGED file

Sessions ==
  \/ \E confirmed \in SUBSET DOMAIN table["ef"] :
       \E right \in SUBSET confirmed : BeginSave(confirmed, right)
  \/ EndSave \/ OpenSession \/ SessionFails \/ NewSession \/ EndProcess

-----------------------------------------------------------------------------

Sharing ==
  \/ TakeLock \/ Opens \/ FolderIsNone \/ ContainerIsNone
  \/ Insert \/ Release \/ Raise \/ Unwind

Next ==
  \/ \E path \in Paths : Share(path)
  \/ Sharing
  \/ Serving
  \/ Sessions

Spec == Init /\ [][Next]_vars

\* The commands of the host come to an end if nothing in them waits for ever.
FairSpec == Spec /\ WF_vars(Sharing)

\* Opening a container or scanning a folder takes longer than a request that is
\* under way takes to look up its folder, and what the user shares is there and
\* opens with the password given.
CalmSharing ==
  \/ TakeLock
  \/ early = {} /\ Opens
  \/ FolderIsNone
  \/ Insert \/ Release \/ Raise \/ Unwind

CalmNext ==
  \/ \E path \in Paths : Share(path)
  \/ CalmSharing
  \/ Serving
  \/ Sessions

CalmSpec ==
  /\ Init /\ [][CalmNext]_vars
  /\ WF_vars(CalmSharing)
  /\ \A c \in Clients : WF_vars(Look(c) \/ Find(c))

-----------------------------------------------------------------------------
(* Properties *)

Places == {"menu", "idle", "wait", "open", "refuse", "insert", "release",
           "refused", "raise", "save"} \cup Throws

FoldersOf(k) ==
  {t \in UNION {[names -> Paths] : names \in SUBSET Range(NameOf)} :
     \A n \in DOMAIN t : KindOf[t[n]] = k /\ NameOf[t[n]] = n}

\* The type invariant: a table has folders of its kind under their names.
TypeOK ==
  /\ main.at \in Places /\ main.path \in Paths \cup {None}
  /\ ready \in [Kinds -> BOOLEAN] /\ lock \in [Kinds -> {"free", "held"}]
  /\ \A k \in Kinds : table[k] \in FoldersOf(k) /\ kept[k] \in FoldersOf(k)
  /\ \A c \in Clients : client[c].found \in Paths \cup {None}
  /\ early \subseteq Clients
  /\ session.state \in {"none", "empty", "saved"}
  /\ bound \in BOOLEAN

\* AddFolder changes a table while no request that looked at the table's flag
\* reads it: the flag is down from before the container is opened until the
\* lock is released (FileSharingServer.cpp, 237-313).  Access to a public
\* folder looks at the other flag.
TablesReadAlone ==
  MainAt("insert") =>
    \A c \in Clients : Reading(c, Kind) => client[c].task = "access-nf"

\* FileSharingServer.h, 47: requests read m_normalFolders only if m_nfReady.
PublicTableReadAlone ==
  MainAt("insert") /\ Kind = "nf" => \A c \in Clients : ~Reading(c, "nf")

\* Neither a lock nobody holds is released, nor one twice: what is thrown for a
\* name that is shared already passes the handler (249-268, 288-303).
NeverUnlockedTwice ==
  main.at \in {"release", "refuse"} \cup Catches => lock[Kind] = "held"

\* Between commands requests for protected folders, and through GetNormalFolder
\* all access to public ones, are answered, also after a share was refused.
ServedAgain == MainAt("idle") => ready["ef"]

\* A session opens as the user chose to save it or not at all: a host never
\* starts with some of the folders (98-203, 605-637).
SessionIsAsSaved ==
  [][MainAt("menu") /\ main'.at = "idle" => table' \in {NoFolders, kept}]_vars

\* Every share comes back to the user, whatever became of those before.
ShareReturns == MainAt("wait") ~> main.at \in {"idle", "menu"}
=============================================================================
