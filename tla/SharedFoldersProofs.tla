-------------------------- MODULE SharedFoldersProofs --------------------------
(***************************************************************************)
(* Proofs of the safety properties of SharedFolders, for any folders,      *)
(* names and number of server threads.  What concerns the locks and the    *)
(* session file holds whatever the user does; that tables are read alone,  *)
(* requests served between commands and no share waits in vain, in the     *)
(* calm regime.                                                            *)
(***************************************************************************)
EXTENDS SharedFolders, SequenceTheorems, TLAPS

USE SharedFoldersAssumption

-----------------------------------------------------------------------------
(* What is left of a request *)

ToLook(k) == <<"look", k>>
ToFind(k) == <<"find", k>>

\* The steps a request of a task may still have before it.
Rests(task) ==
  CASE task = "get-overview" ->
         {<<ToLook("ef"), ToFind("ef"), ToLook("nf"), ToFind("nf")>>,
          <<ToFind("ef"), ToLook("nf"), ToFind("nf")>>,
          <<ToLook("nf"), ToFind("nf")>>, <<ToFind("nf")>>}
    [] task = "access-ef" -> {<<ToLook("ef"), ToFind("ef")>>, <<ToFind("ef")>>}
    [] task = "access-nf" -> {<<ToLook("ef"), ToFind("nf")>>, <<ToFind("nf")>>}
    [] task = "transfer"  ->
         {<<ToLook("ef"), ToLook("ef"), ToFind("ef")>>,
          <<ToLook("ef"), ToFind("ef")>>, <<ToFind("ef")>>}
    [] task = "transfer:n" ->
         {<<ToLook("nf"), ToLook("ef"), ToFind("nf")>>,
          <<ToLook("ef"), ToFind("nf")>>, <<ToFind("nf")>>}

\* A request that has not passed the flag of kind k.
Fresh(task, s, k) ==
  s # <<>> /\ task # "access-nf" =>
    /\ Head(s) # ToFind(k)
    /\ task = "transfer:n" /\ k = "nf" => Len(s) # 2

LEMMA PairsTogether ==
  ASSUME NEW a, NEW b, NEW c, NEW d
  PROVE  <<a, b>> \o <<c, d>> = <<a, b, c, d>>
<1> DEFINE S == {a, b, c, d}
           l == <<a, b>> \o <<c, d>>
<1>1. <<a, b>> \in Seq(S) /\ <<c, d>> \in Seq(S) /\ <<a, b, c, d>> \in Seq(S)
  OBVIOUS
<1>2. l \in Seq(S) /\ Len(l) = 4
  BY <1>1
<1>3. Len(l) = Len(<<a, b, c, d>>)
  BY <1>2
<1>4. \A i \in 1 .. Len(l) : l[i] = <<a, b, c, d>>[i]
  BY <1>1, <1>2
<1> QED
  BY <1>1, <1>2, <1>3, <1>4, SeqEqual, Zenon

LEMMA OneInFront ==
  ASSUME NEW a, NEW b, NEW c
  PROVE  <<a>> \o <<b, c>> = <<a, b, c>>
<1> DEFINE S == {a, b, c}
           l == <<a>> \o <<b, c>>
<1>1. <<a>> \in Seq(S) /\ <<b, c>> \in Seq(S) /\ <<a, b, c>> \in Seq(S)
  OBVIOUS
<1>2. l \in Seq(S) /\ Len(l) = 3
  BY <1>1
<1>3. Len(l) = Len(<<a, b, c>>)
  BY <1>2
<1>4. \A i \in 1 .. Len(l) : l[i] = <<a, b, c>>[i]
  BY <1>1, <1>2
<1> QED
  BY <1>1, <1>2, <1>3, <1>4, SeqEqual, Zenon

LEMMA LongTail ==
  ASSUME NEW a, NEW b, NEW c, NEW d
  PROVE  Tail(<<a, b, c, d>>) = <<b, c, d>>
OBVIOUS

LEMMA ShortTail ==
  ASSUME NEW a, NEW b, NEW c
  PROVE  Tail(<<a, b, c>>) = <<b, c>>
OBVIOUS

LEMMA StepsDiffer ==
  ASSUME NEW k, NEW j
  PROVE  /\ ToLook(k)[1] = "look" /\ ToLook(k)[2] = k
         /\ ToFind(k)[1] = "find" /\ ToLook(k) # ToFind(j)
         /\ ToFind(k) = ToFind(j) => k = j
BY DEF ToLook, ToFind

LEMMA RequestsBegin ==
  ASSUME NEW task \in Tasks
  PROVE  /\ Steps(task) \in Rests(task)
         /\ \A k \in Kinds : Fresh(task, Steps(task), k)
<1>1. CASE task = "get-overview"
  <2>1. Steps(task) = <<ToLook("ef"), ToFind("ef"), ToLook("nf"), ToFind("nf")>>
    <3>1. Steps(task) = <<ToLook("ef"), ToFind("ef")>>
                          \o <<ToLook("nf"), ToFind("nf")>>
      BY <1>1 DEF Steps, LookAndFind, ToLook, ToFind
    <3> QED
      BY <3>1, PairsTogether
  <2> QED
    BY <1>1, <2>1 DEF Rests, Fresh, ToLook, ToFind
<1>2. CASE task = "access-ef"
  <2>1. Steps(task) = <<ToLook("ef"), ToFind("ef")>>
    BY <1>2 DEF Steps, LookAndFind, ToLook, ToFind
  <2> QED
    BY <1>2, <2>1 DEF Rests, Fresh, ToLook, ToFind
<1>3. CASE task = "access-nf"
  <2>1. Steps(task) = <<ToLook("ef"), ToFind("nf")>>
    BY <1>3 DEF Steps, ToLook, ToFind
  <2> QED
    BY <1>3, <2>1 DEF Rests, Fresh, ToLook, ToFind
<1>4. CASE task = "transfer"
  <2>1. Steps(task) = <<ToLook("ef"), ToLook("ef"), ToFind("ef")>>
    BY <1>4, OneInFront DEF Steps, LookAndFind, ToLook, ToFind
  <2> QED
    BY <1>4, <2>1 DEF Rests, Fresh, ToLook, ToFind
<1>5. CASE task = "transfer:n"
  <2>1. Steps(task) = <<ToLook("nf"), ToLook("ef"), ToFind("nf")>>
    BY <1>5 DEF Steps, ToLook, ToFind
  <2>2. Len(Steps(task)) = 3 /\ Head(Steps(task)) = ToLook("nf")
    BY <2>1
  <2>3. \A k \in Kinds : Fresh(task, Steps(task), k)
    BY <2>2 DEF Fresh, ToLook, ToFind
  <2> QED
    BY <1>5, <2>1, <2>3 DEF Rests
<1> QED
  BY <1>1, <1>2, <1>3, <1>4, <1>5 DEF Tasks

\* A step is taken, and for an overview the one after it passed over.
LEMMA RequestsGoOn ==
  ASSUME NEW task \in Tasks, NEW s \in Rests(task)
  PROVE  /\ s # <<>> /\ Tail(s) \in Rests(task) \cup {<<>>}
         /\ Head(s)[1] = "look" =>
              /\ Tail(s) # <<>> /\ Head(s) = ToLook(Head(s)[2])
              /\ Head(s)[2] \in Kinds
              /\ \A k \in Kinds : Fresh(task, s, k) /\ Head(s)[2] # k
                                    => Fresh(task, Tail(s), k)
         /\ task = "get-overview" /\ Head(s)[1] = "look" /\ Len(Tail(s)) > 1 =>
              /\ Tail(Tail(s)) \in Rests(task)
              /\ \A k \in Kinds : Fresh(task, Tail(Tail(s)), k)
         /\ Head(s)[1] = "find" =>
              /\ \A k \in Kinds : Fresh(task, s, k) => Fresh(task, Tail(s), k)
<1>1. CASE task = "get-overview"
  <2>1. CASE s = <<ToLook("ef"), ToFind("ef"), ToLook("nf"), ToFind("nf")>>
    <3>1. Tail(s) = <<ToFind("ef"), ToLook("nf"), ToFind("nf")>>
      BY <2>1, LongTail
    <3>2. Tail(Tail(s)) = <<ToLook("nf"), ToFind("nf")>>
      BY <3>1, ShortTail
    <3> QED
      BY <1>1, <2>1, <3>1, <3>2 DEF Rests, Fresh, ToLook, ToFind, Kinds
  <2>2. CASE s = <<ToFind("ef"), ToLook("nf"), ToFind("nf")>>
    <3>1. Tail(s) = <<ToLook("nf"), ToFind("nf")>>
      BY <2>2
    <3> QED
      BY <1>1, <2>2, <3>1 DEF Rests, Fresh, ToLook, ToFind, Kinds
  <2>3. CASE s = <<ToLook("nf"), ToFind("nf")>>
    <3>1. Tail(s) = <<ToFind("nf")>>
      BY <2>3
    <3> QED
      BY <1>1, <2>3, <3>1 DEF Rests, Fresh, ToLook, ToFind, Kinds
  <2>4. CASE s = <<ToFind("nf")>>
    BY <1>1, <2>4 DEF Rests, Fresh, ToLook, ToFind, Kinds
  <2> QED
    BY <1>1, <2>1, <2>2, <2>3, <2>4 DEF Rests
<1>2. CASE task = "access-ef"
  <2>1. CASE s = <<ToLook("ef"), ToFind("ef")>>
    BY <1>2, <2>1 DEF Rests, Fresh, ToLook, ToFind, Kinds
  <2>2. CASE s = <<ToFind("ef")>>
    BY <1>2, <2>2 DEF Rests, Fresh, ToLook, ToFind, Kinds
  <2> QED
    BY <1>2, <2>1, <2>2 DEF Rests
<1>3. CASE task = "access-nf"
  <2>1. CASE s = <<ToLook("ef"), ToFind("nf")>>
    BY <1>3, <2>1 DEF Rests, Fresh, ToLook, ToFind, Kinds
  <2>2. CASE s = <<ToFind("nf")>>
    BY <1>3, <2>2 DEF Rests, Fresh, ToLook, ToFind, Kinds
  <2> QED
    BY <1>3, <2>1, <2>2 DEF Rests
<1>4. CASE task = "transfer"
  <2>1. CASE s = <<ToLook("ef"), ToLook("ef"), ToFind("ef")>>
    <3>1. Tail(s) = <<ToLook("ef"), ToFind("ef")>>
      BY <2>1
    <3> QED
      BY <1>4, <2>1, <3>1 DEF Rests, Fresh, ToLook, ToFind, Kinds
  <2>2. CASE s = <<ToLook("ef"), ToFind("ef")>>
    BY <1>4, <2>2 DEF Rests, Fresh, ToLook, ToFind, Kinds
  <2>3. CASE s = <<ToFind("ef")>>
    BY <1>4, <2>3 DEF Rests, Fresh, ToLook, ToFind, Kinds
  <2> QED
    BY <1>4, <2>1, <2>2, <2>3 DEF Rests
<1>5. CASE task = "transfer:n"
  <2>1. CASE s = <<ToLook("nf"), ToLook("ef"), ToFind("nf")>>
    <3>1. Tail(s) = <<ToLook("ef"), ToFind("nf")>>
      BY <2>1
    <3> QED
      BY <1>5, <2>1, <3>1 DEF Rests, Fresh, ToLook, ToFind, Kinds
  <2>2. CASE s = <<ToLook("ef"), ToFind("nf")>>
    BY <1>5, <2>2 DEF Rests, Fresh, ToLook, ToFind, Kinds
  <2>3. CASE s = <<ToFind("nf")>>
    BY <1>5, <2>3 DEF Rests, Fresh, ToLook, ToFind, Kinds
  <2> QED
    BY <1>5, <2>1, <2>2, <2>3 DEF Rests
<1> QED
  BY <1>1, <1>2, <1>3, <1>4, <1>5 DEF Tasks

-----------------------------------------------------------------------------
(* Locks, tables and the session file, whatever the user does *)

Left == {<<>>} \cup UNION {Rests(t) : t \in Tasks}
Requests ==
  [task : Tasks \cup {None}, name : Range(NameOf) \cup {None}, steps : Left,
   found : Paths \cup {None}, torn : BOOLEAN]

\* A request is at some step of its task; the flags and tables are functions of
\* the kind; and the main thread shares some path wherever that matters.
Formed ==
  /\ TypeOK
  /\ table = [k \in Kinds |-> table[k]] /\ kept = [k \in Kinds |-> kept[k]]
  /\ client \in [Clients -> Requests]
  /\ \A c \in Clients : client[c].steps # <<>> =>
       client[c].task \in Tasks /\ client[c].steps \in Rests(client[c].task)
  /\ ~(main.at \in {"menu", "idle", "save"}) => main.path \in Paths
  /\ main = [at |-> main.at, path |-> main.path]

LocksHeld ==
  main.at \in {"open", "insert", "release", "refuse", "throw-wide"}
    => lock[Kind] = "held"

\* What a session file that is there would load, if it loads.
SessionKept ==
  /\ "state" \in DOMAIN session
  /\ session.state # "none" =>
       /\ {"normal", "lines"} \subseteq DOMAIN session
       /\ kept["nf"] = session.normal
       /\ kept["ef"] = [n \in DOMAIN session.lines |-> session.lines[n].path]
  /\ MainAt("save") => session.state # "none"
  /\ MainAt("menu") => table = NoFolders

Sound == Formed /\ LocksHeld /\ SessionKept

LEMMA LeftHas ==
  /\ <<>> \in Left
  /\ \A t \in Tasks : Rests(t) \subseteq Left
<1>1. <<>> \in Left
  BY DEF Left
<1>2. ASSUME NEW t \in Tasks PROVE Rests(t) \subseteq Left
  BY Zenon DEF Left
<1> QED
  BY <1>1, <1>2

LEMMA QuietIs == Quiet \in Requests /\ Quiet.steps = <<>>
BY LeftHas DEF Quiet, Requests

LEMMA SoundInit == Init => Sound
<1> SUFFICES ASSUME Init PROVE Sound
  OBVIOUS
<1>1. TypeOK
  <2>1. \A k \in Kinds : NoFolders[k] \in FoldersOf(k)
    BY DEF NoFolders, FoldersOf, Kinds
  <2> QED
    BY <2>1 DEF Init, TypeOK, Menu, AllReady, AllFree, Quiet, NoFile, Places
<1>2. Formed
  BY <1>1, QuietIs DEF Init, Formed, Menu, NoFolders
<1> QED
  BY <1>2 DEF Init, Sound, LocksHeld, SessionKept, Menu, NoFile, MainAt

Unnamed == {"menu", "idle", "save"}

\* What the main thread does but for changing a table or the session file.
LEMMA MainMoves ==
  ASSUME Sound, UNCHANGED <<table, client, file, bound>>,
         main' = [at |-> main'.at, path |-> main'.path],
         main'.at \in Places \ {"menu", "save"},
         main'.path \in Paths \cup {None},
         main'.at \in Unnamed \/ main'.path \in Paths,
         ready' \in [Kinds -> BOOLEAN], lock' \in [Kinds -> {"free", "held"}],
         early' \subseteq Clients, LocksHeld'
  PROVE  Sound'
<1>1. TypeOK'
  BY DEF Sound, Formed, TypeOK, FoldersOf, file
<1>2. Formed'
  BY <1>1 DEF Sound, Formed, Unnamed, file
<1>3. SessionKept'
  BY DEF Sound, SessionKept, MainAt, file
<1> QED
  BY <1>2, <1>3 DEF Sound

LEMMA ShareKeeps ==
  ASSUME Sound, NEW path \in Paths, Share(path)
  PROVE  Sound'
<1>1. /\ main'.at = "wait" /\ main'.path = path
      /\ main' = [at |-> main'.at, path |-> main'.path]
      /\ UNCHANGED <<lock, table, client, file, bound>>
  BY DEF Share
<1>2. ready' \in [Kinds -> BOOLEAN] /\ early' \subseteq Clients
  BY DEF Share, Sound, Formed, TypeOK
<1>3. LocksHeld'
  BY <1>1 DEF LocksHeld
<1>4. main'.at \in Places \ {"menu", "save"}
        /\ lock' \in [Kinds -> {"free", "held"}]
  BY <1>1 DEF Sound, Formed, TypeOK, Places
<1> QED
  BY <1>1, <1>2, <1>3, <1>4, MainMoves

\* Where AddFolder goes on.
LEMMA Goes ==
  ASSUME Sound, ~(main.at \in Unnamed), NEW place, main' = At(place)
  PROVE  /\ main'.at = place /\ main'.path = main.path /\ main.path \in Paths
         /\ main' = [at |-> main'.at, path |-> main'.path]
         /\ Kind' = Kind /\ Kind \in Kinds
BY DEF Sound, Formed, At, Unnamed, Kind

LEMMA LockKeeps ==
  ASSUME Sound, TakeLock \/ Release
  PROVE  Sound'
<1>1. UNCHANGED <<ready, table, users, file, bound>>
  BY DEF TakeLock, Release
<1>2. /\ ready' \in [Kinds -> BOOLEAN] /\ early' \subseteq Clients
      /\ lock \in [Kinds -> {"free", "held"}]
  BY <1>1 DEF Sound, Formed, TypeOK, users
<1>3. CASE TakeLock
  <2>1. /\ main.at = "wait" /\ main' = At("open")
        /\ lock' = [lock EXCEPT ![Kind] = "held"]
    BY <1>3 DEF TakeLock, MainAt
  <2>2. /\ main'.at = "open" /\ main'.path \in Paths /\ Kind' = Kind
        /\ Kind \in Kinds /\ main' = [at |-> main'.at, path |-> main'.path]
    BY <2>1, Goes DEF Unnamed
  <2>3. LocksHeld' /\ lock' \in [Kinds -> {"free", "held"}]
    BY <1>2, <2>1, <2>2 DEF LocksHeld
  <2> QED
    BY <1>1, <1>2, <2>2, <2>3, MainMoves DEF users, Places
<1>4. CASE Release
  <2>1. /\ main.at \in {"release", "refuse"}
        /\ main' = At(IF MainAt("release") THEN "raise" ELSE "refused")
        /\ lock' = [lock EXCEPT ![Kind] = "free"]
    BY <1>4 DEF Release
  <2>2. /\ main'.at \in {"raise", "refused"} /\ main'.path \in Paths
        /\ main' = [at |-> main'.at, path |-> main'.path]
    BY <2>1, Goes DEF Unnamed
  <2>3. LocksHeld' /\ lock' \in [Kinds -> {"free", "held"}]
    BY <1>2, <2>1, <2>2 DEF LocksHeld
  <2> QED
    BY <1>1, <1>2, <2>2, <2>3, MainMoves DEF users, Places
<1> QED
  BY <1>3, <1>4

\* Opening, in its ways out.
LEMMA OpenKeeps ==
  ASSUME Sound, Opens \/ FolderIsNone \/ ContainerIsNone
  PROVE  Sound'
<1>1. /\ main.at = "open" /\ UNCHANGED <<tables, users, file, bound>>
      /\ \E place \in {"refuse", "insert", "throw-wide", "throw-other"} :
           main' = At(place)
  BY DEF Opens, FolderIsNone, ContainerIsNone, MainAt
<1>2. /\ main'.at \in {"refuse", "insert", "throw-wide", "throw-other"}
      /\ main'.path \in Paths /\ Kind' = Kind
      /\ main' = [at |-> main'.at, path |-> main'.path]
  BY <1>1, Goes DEF Unnamed
<1>3. LocksHeld'
  BY <1>1, <1>2 DEF Sound, LocksHeld, tables
<1>4. /\ ready' \in [Kinds -> BOOLEAN] /\ lock' \in [Kinds -> {"free", "held"}]
      /\ early' \subseteq Clients
  BY <1>1 DEF Sound, Formed, TypeOK, tables, users
<1> QED
  BY <1>1, <1>2, <1>3, <1>4, MainMoves DEF tables, users, Places, Throws

LEMMA EndKeeps ==
  ASSUME Sound, Raise \/ Unwind
  PROVE  Sound'
<1>1. ready \in [Kinds -> BOOLEAN] /\ lock \in [Kinds -> {"free", "held"}]
  BY DEF Sound, Formed, TypeOK
<1>2. CASE Raise
  <2>1. /\ main.at \in {"raise", "refused"}
        /\ \E place \in {"idle", "throw-string"} : main' = At(place)
        /\ ready' = [ready EXCEPT ![Kind] = TRUE]
        /\ UNCHANGED <<lock, table, users, file, bound>>
    BY <1>2 DEF Raise
  <2>2. /\ main'.at \in {"idle", "throw-string"} /\ main'.path \in Paths
        /\ main' = [at |-> main'.at, path |-> main'.path]
    BY <2>1, Goes DEF Unnamed
  <2>3. LocksHeld' /\ ready' \in [Kinds -> BOOLEAN] /\ early' \subseteq Clients
    BY <1>1, <2>1, <2>2 DEF LocksHeld, Sound, Formed, TypeOK, users
  <2> QED
    BY <1>1, <2>1, <2>2, <2>3, MainMoves DEF users, Places, Throws
<1>3. CASE Unwind
  <2>1. /\ main' = Idle /\ UNCHANGED <<ready, table, users, file, bound>>
        /\ lock' = [lock EXCEPT ![Kind] = "free"] \/ lock' = lock
    BY <1>3 DEF Unwind
  <2>2. /\ main'.at = "idle" /\ main'.path = None
        /\ main' = [at |-> main'.at, path |-> main'.path]
    BY <2>1 DEF Idle
  <2>3. /\ LocksHeld' /\ early' \subseteq Clients
        /\ lock' \in [Kinds -> {"free", "held"}]
    BY <1>1, <2>1, <2>2 DEF LocksHeld, Sound, Formed, TypeOK, users
  <2> QED
    BY <1>1, <2>1, <2>2, <2>3, MainMoves DEF users, Places, Unnamed
<1> QED
  BY <1>2, <1>3

\* The one step that changes a table.
LEMMA InsertKeeps ==
  ASSUME Sound, Insert
  PROVE  Sound'
<1>1. /\ main.at = "insert" /\ main' = At("release")
        /\ table' = Added(main.path)
      /\ UNCHANGED <<ready, lock, early, file, bound>>
  BY DEF Insert, MainAt
<1>2. /\ main'.at = "release" /\ main'.path = main.path /\ main.path \in Paths
      /\ main' = [at |-> main'.at, path |-> main'.path]
      /\ Kind' = Kind /\ Kind \in Kinds
  BY <1>1, Goes DEF Unnamed
<1>3. \A c \in Clients : \/ client'[c] = client[c]
                         \/ client'[c] = [client[c] EXCEPT !.torn = TRUE]
  BY DEF Insert
<1>4. /\ client' \in [Clients -> Requests]
      /\ \A c \in Clients : /\ client'[c].steps = client[c].steps
                            /\ client'[c].task = client[c].task
                            /\ client'[c].found = client[c].found
  <2>1. client' = [c \in Clients |-> client'[c]]
    BY DEF Insert
  <2>2. \A c \in Clients : client[c] \in Requests
    BY DEF Sound, Formed
  <2>3. \A c \in Clients : client'[c] \in Requests
    BY <1>3, <2>2 DEF Requests
  <2> QED
    BY <1>3, <2>1, <2>2, <2>3 DEF Requests
<1>5. table' = [k \in Kinds |-> table'[k]]
        /\ \A k \in Kinds : table'[k] \in FoldersOf(k)
  <2> DEFINE t == table[Kind]
             u == [n \in DOMAIN t \cup {Name} |-> IF n = Name THEN main.path
                                                             ELSE t[n]]
  <2>1. /\ table = [k \in Kinds |-> table[k]]
        /\ \A k \in Kinds : table[k] \in FoldersOf(k)
    BY DEF Sound, Formed, TypeOK
  <2>2. table' = [table EXCEPT ![Kind] = u]
    BY <1>1 DEF Added, Kind, Name
  <2>3. Name \in Range(NameOf) /\ NameOf[main.path] = Name
          /\ KindOf[main.path] = Kind
    BY <1>2 DEF Name, Kind, Range
  <2>4. /\ DOMAIN t \subseteq Range(NameOf)
        /\ \A n \in DOMAIN t : t[n] \in Paths /\ KindOf[t[n]] = Kind
             /\ NameOf[t[n]] = n
    BY <1>2, <2>1 DEF FoldersOf
  <2>5. u \in FoldersOf(Kind)
    <3>1. u \in [DOMAIN t \cup {Name} -> Paths]
      BY <1>2, <2>4
    <3>2. DOMAIN t \cup {Name} \in SUBSET Range(NameOf)
      BY <2>3, <2>4
    <3>3. \A n \in DOMAIN u : KindOf[u[n]] = Kind /\ NameOf[u[n]] = n
      BY <2>3, <2>4
    <3> HIDE DEF u, t
    <3> QED
      BY <3>1, <3>2, <3>3 DEF FoldersOf
  <2> HIDE DEF u, t
  <2> QED
    BY <1>2, <2>1, <2>2, <2>5
<1>6. TypeOK'
  BY <1>1, <1>2, <1>4, <1>5 DEF Sound, Formed, TypeOK, FoldersOf, file, Places
<1>7. Formed'
  BY <1>1, <1>2, <1>4, <1>5, <1>6 DEF Sound, Formed, file
<1>8. LocksHeld' /\ SessionKept'
  BY <1>1, <1>2 DEF Sound, LocksHeld, SessionKept, MainAt, file
<1> QED
  BY <1>7, <1>8 DEF Sound

\* A request that goes on.
LEMMA RequestMoves ==
  ASSUME Sound, UNCHANGED <<main, tables, file, bound>>, NEW c \in Clients,
         NEW request \in Requests, client' = [client EXCEPT ![c] = request],
         request.steps # <<>> =>
           request.task \in Tasks /\ request.steps \in Rests(request.task),
         early' \subseteq Clients
  PROVE  Sound'
<1>1. /\ client' \in [Clients -> Requests]
      /\ \A d \in Clients : client'[d] = IF d = c THEN request ELSE client[d]
  BY DEF Sound, Formed
<1>2. \A d \in Clients : client'[d].found \in Paths \cup {None}
  <2>1. request.found \in Paths \cup {None}
    BY DEF Requests
  <2> QED
    BY <1>1, <2>1 DEF Sound, Formed, TypeOK
<1>3. TypeOK'
  BY <1>2 DEF Sound, Formed, TypeOK, FoldersOf, file, tables
<1>4. Formed'
  BY <1>1, <1>3 DEF Sound, Formed, file, tables
<1> QED
  BY <1>4 DEF Sound, LocksHeld, SessionKept, MainAt, Kind, file, tables

\* What Ask, Look and Find make of a request.
LEMMA RequestLooked ==
  ASSUME NEW r \in Requests, NEW t \in Left
  PROVE  LET q == [r EXCEPT !.steps = t]
         IN  q \in Requests /\ q.steps = t /\ q.task = r.task
BY DEF Requests

LEMMA RequestRead ==
  ASSUME NEW r \in Requests, NEW t \in Left
  PROVE  LET q == [r EXCEPT !.steps = t, !.torn = FALSE]
         IN  q \in Requests /\ q.steps = t /\ q.task = r.task
BY DEF Requests

LEMMA AskKeeps ==
  ASSUME Sound, NEW c \in Clients, NEW task \in Tasks, NEW p \in Paths,
         Ask(c, task, NameOf[p])
  PROVE  Sound'
<1> DEFINE q == [Quiet EXCEPT !.task = task, !.name = NameOf[p],
                              !.steps = Steps(task)]
<1>1. Steps(task) \in Rests(task) /\ Steps(task) \in Left
  BY RequestsBegin, LeftHas
<1>2. NameOf[p] \in Range(NameOf)
  BY DEF Range
<1>3. q \in Requests /\ q.steps = Steps(task) /\ q.task = task
  BY <1>1, <1>2, QuietIs DEF Requests
<1>4. /\ client' = [client EXCEPT ![c] = q] /\ early' \subseteq Clients
      /\ UNCHANGED <<main, tables, file, bound>>
  BY DEF Ask, Sound, Formed, TypeOK
<1> HIDE DEF q
<1> QED
  BY <1>1, <1>3, <1>4, RequestMoves

LEMMA LookKeeps ==
  ASSUME Sound, NEW c \in Clients, Look(c)
  PROVE  Sound'
<1> DEFINE r == client[c]
           s == client[c].steps
           With(t) == [client[c] EXCEPT !.steps = t]
<1>1. /\ r \in Requests /\ r.task \in Tasks /\ s \in Rests(r.task) /\ s # <<>>
      /\ Head(s)[1] = "look"
  BY DEF Look, Sound, Formed
<1>2. /\ Tail(s) \in Rests(r.task)
      /\ r.task = "get-overview" /\ Len(Tail(s)) > 1
           => Tail(Tail(s)) \in Rests(r.task)
  BY <1>1, RequestsGoOn
<1>3. \E request \in {Quiet, With(Tail(s))} \cup
           (IF r.task = "get-overview" /\ Len(Tail(s)) > 1
              THEN {With(Tail(Tail(s)))} ELSE {}) :
        Becomes(c, request)
  BY DEF Look
<1>4. \A t \in Rests(r.task) : /\ With(t) \in Requests /\ With(t).steps = t
                               /\ With(t).task = r.task
  <2> TAKE t \in Rests(r.task)
  <2>1. t \in Left
    BY <1>1, LeftHas
  <2> QED
    BY <1>1, <2>1, RequestLooked
<1>5. PICK request : /\ Becomes(c, request) /\ request \in Requests
                     /\ request.steps # <<>> => request.task \in Tasks
                                  /\ request.steps \in Rests(request.task)
  <2> HIDE DEF r, s, With
  <2> QED
    BY <1>1, <1>2, <1>3, <1>4, QuietIs
<1>6. /\ client' = [client EXCEPT ![c] = request] /\ early' \subseteq Clients
      /\ UNCHANGED <<main, tables, file, bound>>
  BY <1>5 DEF Becomes, Look, Sound, Formed, TypeOK
<1> QED
  BY <1>5, <1>6, RequestMoves

LEMMA FindKeeps ==
  ASSUME Sound, NEW c \in Clients, Find(c)
  PROVE  Sound'
<1> DEFINE r == client[c]
           s == client[c].steps
<1>1. PICK k \in Kinds :
        /\ Reading(c, k)
        /\ IF r.task = "get-overview"
           THEN Becomes(c, IF Tail(s) = <<>> THEN Quiet
                           ELSE [r EXCEPT !.steps = Tail(s), !.torn = FALSE])
           ELSE \E p \in Findable(c, k) :
                  Becomes(c, IF p = None THEN Quiet
                             ELSE [r EXCEPT !.steps = <<>>, !.found = p,
                                            !.torn = FALSE])
  BY DEF Find
<1>2. /\ r \in Requests /\ r.task \in Tasks /\ s \in Rests(r.task) /\ s # <<>>
  BY <1>1 DEF Reading, Sound, Formed
<1>3. Tail(s) \in Rests(r.task) \cup {<<>>}
  BY <1>2, RequestsGoOn
<1>4. Findable(c, k) \subseteq Paths \cup {None}
  <2>1. table[k] \in FoldersOf(k)
    BY DEF Sound, Formed, TypeOK
  <2>2. \A n \in DOMAIN table[k] : table[k][n] \in Paths
    BY <2>1 DEF FoldersOf
  <2> QED
    BY <2>2 DEF Findable
<1>5. Tail(s) \in Left
  BY <1>2, <1>3, LeftHas
<1>6. PICK request : /\ Becomes(c, request) /\ request \in Requests
                     /\ request.steps # <<>> => request.task \in Tasks
                                  /\ request.steps \in Rests(request.task)
  <2>1. CASE r.task = "get-overview"
    <3> DEFINE q == [r EXCEPT !.steps = Tail(s), !.torn = FALSE]
    <3>1. q \in Requests /\ q.steps = Tail(s) /\ q.task = r.task
      BY <1>2, <1>5, RequestRead
    <3>2. Becomes(c, Quiet) \/ Becomes(c, q)
      BY <1>1, <2>1
    <3> HIDE DEF r, s, q
    <3> QED
      BY <1>2, <1>3, <3>1, <3>2, QuietIs
  <2>2. CASE r.task # "get-overview"
    <3>1. PICK p \in Findable(c, k) :
            Becomes(c, IF p = None THEN Quiet
                       ELSE [r EXCEPT !.steps = <<>>, !.found = p,
                                      !.torn = FALSE])
      BY <1>1, <2>2
    <3> DEFINE q == [r EXCEPT !.steps = <<>>, !.found = p, !.torn = FALSE]
    <3>2. q \in Requests /\ q.steps = <<>>
      <4>1. p \in Paths \cup {None}
        BY <1>4
      <4> QED
        BY <1>2, <4>1, LeftHas DEF Requests
    <3>3. Becomes(c, Quiet) \/ Becomes(c, q)
      BY <3>1
    <3> HIDE DEF r, s, q
    <3> QED
      BY <3>2, <3>3, QuietIs
  <2> QED
    BY <2>1, <2>2
<1>7. /\ client' = [client EXCEPT ![c] = request] /\ early' \subseteq Clients
      /\ UNCHANGED <<main, tables, file, bound>>
  BY <1>6 DEF Becomes, Find, Sound, Formed, TypeOK
<1> QED
  BY <1>6, <1>7, RequestMoves

LEMMA FinishKeeps ==
  ASSUME Sound, NEW c \in Clients, Finish(c)
  PROVE  Sound'
<1>1. /\ client' = [client EXCEPT ![c] = Quiet] /\ early' \subseteq Clients
      /\ UNCHANGED <<main, tables, file, bound>>
  BY DEF Finish, Sound, Formed, TypeOK
<1> QED
  BY <1>1, QuietIs, RequestMoves

LEMMA EmptyTables ==
  /\ NoFolders = [k \in Kinds |-> NoFolders[k]]
  /\ \A k \in Kinds : NoFolders[k] \in FoldersOf(k)
<1>1. \A k \in Kinds : NoFolders[k] \in FoldersOf(k)
  BY DEF NoFolders, FoldersOf, Kinds
<1> QED
  BY <1>1 DEF NoFolders

LEMMA SaveKeeps ==
  ASSUME Sound,
         \/ EndSave
         \/ \E confirmed \in SUBSET DOMAIN table["ef"] :
              \E right \in SUBSET confirmed : BeginSave(confirmed, right)
  PROVE  Sound'
<1>1. CASE EndSave
  <2>1. /\ main' = Idle /\ session' = [session EXCEPT !.state = "saved"]
        /\ UNCHANGED <<tables, users, kept, bound>> /\ MainAt("save")
    BY <1>1 DEF EndSave
  <2>2. main'.at = "idle" /\ main'.path = None
          /\ main' = [at |-> "idle", path |-> None]
    BY <2>1 DEF Idle
  <2>3. /\ session'.state = "saved" /\ DOMAIN session' = DOMAIN session
        /\ session'.normal = session.normal /\ session'.lines = session.lines
    BY <2>1 DEF Sound, SessionKept
  <2>4. TypeOK'
    BY <2>1, <2>2, <2>3
       DEF Sound, Formed, TypeOK, FoldersOf, tables, users, Places
  <2>5. Formed'
    BY <2>1, <2>2, <2>4 DEF Sound, Formed, tables, users
  <2>6. SessionKept'
    BY <2>1, <2>2, <2>3 DEF Sound, SessionKept, MainAt
  <2> QED
    BY <2>2, <2>5, <2>6 DEF Sound, LocksHeld
<1>2. CASE \E confirmed \in SUBSET DOMAIN table["ef"] :
             \E right \in SUBSET confirmed : BeginSave(confirmed, right)
  <2>1. PICK confirmed \in SUBSET DOMAIN table["ef"] :
          \E right \in SUBSET confirmed : BeginSave(confirmed, right)
    BY <1>2
  <2>2. PICK right \in SUBSET confirmed : BeginSave(confirmed, right)
    BY <2>1
  <2> DEFINE some == Restrict(table["ef"], confirmed)
  <2>3. /\ main.at = "idle" /\ main' = At("save")
        /\ session' = SessionOf(confirmed, right)
        /\ kept' = [table EXCEPT !["ef"] = some]
        /\ UNCHANGED <<tables, users, bound>>
    BY <2>2 DEF BeginSave, MainAt
  <2>4. /\ table = [k \in Kinds |-> table[k]]
        /\ \A k \in Kinds : table[k] \in FoldersOf(k)
    BY DEF Sound, Formed, TypeOK
  <2>5. some \in FoldersOf("ef") /\ some = [n \in confirmed |-> table["ef"][n]]
    BY <2>4 DEF FoldersOf, Restrict, Kinds
  <2>6. /\ kept' = [k \in Kinds |-> kept'[k]]
        /\ kept'["ef"] = some /\ kept'["nf"] = table["nf"]
        /\ \A k \in Kinds : kept'[k] \in FoldersOf(k)
    <3> HIDE DEF some
    <3> QED
      BY <2>3, <2>4, <2>5 DEF Kinds
  <2>7. /\ DOMAIN session' = {"state", "normal", "count", "lines"}
        /\ session'.state = "empty" /\ session'.normal = table["nf"]
        /\ DOMAIN session'.lines = confirmed
        /\ \A n \in confirmed : session'.lines[n].path = table["ef"][n]
    BY <2>3 DEF SessionOf
  <2>8. /\ main'.at = "save" /\ main'.path = main.path
        /\ main' = [at |-> main'.at, path |-> main'.path]
    BY <2>3 DEF Sound, Formed, At
  <2>9. TypeOK'
    BY <2>3, <2>6, <2>7, <2>8
       DEF Sound, Formed, TypeOK, FoldersOf, tables, users, Places
  <2>10. Formed'
    BY <2>3, <2>6, <2>8, <2>9 DEF Sound, Formed, tables, users
  <2>11. SessionKept'
    BY <2>5, <2>6, <2>7, <2>8 DEF SessionKept, MainAt
  <2> QED
    BY <2>8, <2>10, <2>11 DEF Sound, LocksHeld
<1> QED
  BY <1>1, <1>2

\* What is loaded is what the user chose to keep.
LEMMA LoadedIsKept ==
  ASSUME Sound, session.state = "saved"
  PROVE  Loaded(session) \subseteq {kept}
<1>1. /\ kept = [k \in Kinds |-> kept[k]] /\ kept["nf"] = session.normal
      /\ kept["ef"] = [n \in DOMAIN session.lines |-> session.lines[n].path]
  BY DEF Sound, Formed, SessionKept
<1>2. [k \in Kinds |-> IF k = "nf" THEN session.normal
                       ELSE [n \in DOMAIN session.lines |->
                               session.lines[n].path]]
        = kept
  BY <1>1 DEF Kinds
<1> QED
  BY <1>2 DEF Loaded

LEMMA SessionKeeps ==
  ASSUME Sound, OpenSession \/ SessionFails \/ NewSession \/ EndProcess
  PROVE  Sound'
<1>1. CASE OpenSession
  <2>1. /\ main' = Idle /\ session.state = "saved" /\ table' \in Loaded(session)
        /\ UNCHANGED <<ready, lock, users, file, bound>>
    BY <1>1 DEF OpenSession
  <2>2. table' = kept
    BY <2>1, LoadedIsKept
  <2>3. main'.at = "idle" /\ main'.path = None
          /\ main' = [at |-> "idle", path |-> None]
    BY <2>1 DEF Idle
  <2>4. TypeOK'
    BY <2>1, <2>2, <2>3
       DEF Sound, Formed, TypeOK, FoldersOf, users, file, Places
  <2>5. Formed'
    BY <2>1, <2>2, <2>3, <2>4 DEF Sound, Formed, users, file
  <2> QED
    BY <2>1, <2>3, <2>5 DEF Sound, LocksHeld, SessionKept, MainAt, file
<1>2. CASE SessionFails
  BY <1>2
     DEF SessionFails, Sound, Formed, TypeOK, FoldersOf, LocksHeld,
         SessionKept, MainAt, Kind, tables, users, file
<1>3. CASE NewSession
  <2>1. /\ main' = Idle /\ UNCHANGED <<tables, users, file, bound>>
    BY <1>3 DEF NewSession
  <2>2. main'.at = "idle" /\ main'.path = None
          /\ main' = [at |-> "idle", path |-> None]
    BY <2>1 DEF Idle
  <2>3. TypeOK'
    BY <2>1, <2>2
       DEF Sound, Formed, TypeOK, FoldersOf, tables, users, file, Places
  <2>4. Formed'
    BY <2>1, <2>2, <2>3 DEF Sound, Formed, tables, users, file
  <2> QED
    BY <2>1, <2>2, <2>4 DEF Sound, LocksHeld, SessionKept, MainAt, file
<1>4. CASE EndProcess
  <2>1. /\ main' = Menu /\ ready' = AllReady /\ lock' = AllFree
        /\ table' = NoFolders /\ client' = [c \in Clients |-> Quiet]
        /\ early' = {} /\ bound' = FALSE /\ UNCHANGED file
    BY <1>4 DEF EndProcess
  <2>2. main'.at = "menu" /\ main'.path = None
          /\ main' = [at |-> "menu", path |-> None]
    BY <2>1 DEF Menu
  <2>3. TypeOK'
    <3>1. \A c \in Clients : client'[c].found = None
      BY <2>1 DEF Quiet
    <3> QED
      BY <2>1, <2>2, <3>1, EmptyTables
         DEF Sound, Formed, TypeOK, FoldersOf, AllReady, AllFree, file, Places
  <2>4. Formed'
    BY <2>1, <2>2, <2>3, EmptyTables, QuietIs DEF Sound, Formed, file
  <2> QED
    BY <2>1, <2>2, <2>4 DEF Sound, LocksHeld, SessionKept, MainAt, file
<1> QED
  BY <1>1, <1>2, <1>3, <1>4

LEMMA SoundStep == Sound /\ [Next]_vars => Sound'
<1> SUFFICES ASSUME Sound, [Next]_vars PROVE Sound'
  OBVIOUS
<1>1. CASE \E path \in Paths : Share(path)
  BY <1>1, ShareKeeps
<1>2. CASE Sharing
  BY <1>2, LockKeeps, OpenKeeps, EndKeeps, InsertKeeps DEF Sharing
<1>3. CASE Serving
  BY <1>3, AskKeeps, LookKeeps, FindKeeps, FinishKeeps DEF Serving
<1>4. CASE Sessions
  BY <1>4, SaveKeeps, SessionKeeps DEF Sessions
<1>5. CASE UNCHANGED vars
  BY <1>5
     DEF vars, tables, users, file, Sound, Formed, TypeOK, FoldersOf, LocksHeld,
              SessionKept, MainAt, Kind
<1> QED
  BY <1>1, <1>2, <1>3, <1>4, <1>5 DEF Next

\* The flags and locks, the tables and the session file stay what they are
\* made for, whatever the user does.
THEOREM AlwaysSound == Spec => []Sound
<1> QED
  BY SoundInit, SoundStep, PTL DEF Spec

\* The variables keep their types, whoever shares, asks, saves or loads.
THEOREM FoldersAreTyped == Spec => []TypeOK
<1>1. Sound => TypeOK
  BY DEF Sound, Formed
<1> QED
  BY <1>1, AlwaysSound, PTL

\* No lock is released twice, or by who does not hold it.
THEOREM NeverUnlocksTwice == Spec => []NeverUnlockedTwice
<1>1. Sound => NeverUnlockedTwice
  BY DEF Sound, LocksHeld, NeverUnlockedTwice, Catches
<1> QED
  BY <1>1, AlwaysSound, PTL

\* A session opens as it was saved or not at all.
THEOREM SessionsOpenAsSaved == Spec => SessionIsAsSaved
<1>1. ASSUME Sound, [Next]_vars
      PROVE  [MainAt("menu") /\ main'.at = "idle"
                => table' \in {NoFolders, kept}]_vars
  <2> SUFFICES ASSUME Next, main.at = "menu", main'.at = "idle"
               PROVE  table' \in {NoFolders, kept}
    BY <1>1 DEF MainAt
  <2>1. table = NoFolders
    BY <1>1 DEF Sound, SessionKept, MainAt
  <2>2. CASE OpenSession
    BY <1>1, <2>2, LoadedIsKept DEF OpenSession
  <2>3. CASE ~OpenSession
    <3>1. UNCHANGED table
      <4>1. ~(\E path \in Paths : Share(path)) /\ ~Sharing
        BY DEF Share, Sharing, TakeLock, Opens, FolderIsNone, ContainerIsNone,
               Insert, Release, Raise, Unwind, Throws, MainAt
      <4>2. CASE Serving
        BY <4>2 DEF Serving, Ask, Look, Find, Finish, tables
      <4>3. CASE Sessions
        BY <2>3, <4>3
           DEF Sessions, BeginSave, EndSave, SessionFails, NewSession,
               EndProcess, Menu, MainAt, tables
      <4> QED
        BY <4>1, <4>2, <4>3 DEF Next
    <3> QED
      BY <2>1, <3>1
  <2> QED
    BY <2>2, <2>3
<1> QED
  BY <1>1, AlwaysSound, PTL DEF Spec, SessionIsAsSaved

-----------------------------------------------------------------------------
(* Requests against shares, in the calm regime *)

Working == {"wait", "open", "insert", "release", "refuse", "refused", "raise"}

\* The flag of what is shared is down, and the other one of protected folders
\* is up.
FlagsFit ==
  /\ main.at \in Working => ~ready[Kind]
  /\ ~ready["ef"] => main.at \in Working /\ Kind = "ef"

\* Up to the insertion, who was not under way when the flag went down has not
\* passed it; and at the insertion nobody else is left.
FlagStops ==
  /\ main.at \in {"wait", "open", "insert"} =>
       \A c \in Clients \ early :
         Fresh(client[c].task, client[c].steps, Kind)
  /\ MainAt("insert") => early = {}

Calm == Sound /\ FlagsFit /\ FlagStops

LEMMA CalmInit == Init => Calm
<1>1. Init => FlagsFit /\ FlagStops
  BY DEF Init, FlagsFit, FlagStops, Menu, AllReady, Working, MainAt, Kinds
<1> QED
  BY <1>1, SoundInit DEF Calm

LEMMA ShareIsCalm ==
  ASSUME Calm, NEW path \in Paths, Share(path)
  PROVE  FlagsFit' /\ FlagStops'
<1>1. /\ main.at = "idle" /\ main'.at = "wait" /\ main'.path = path
      /\ ready' = [ready EXCEPT ![KindOf[path]] = FALSE]
      /\ early' = {c \in Clients : client[c].steps # <<>>}
      /\ UNCHANGED client
  BY DEF Share, MainAt
<1>2. ready \in [Kinds -> BOOLEAN] /\ KindOf[path] \in Kinds
        /\ Kind' = KindOf[path]
  BY <1>1 DEF Calm, Sound, Formed, TypeOK, Kind
<1>3. FlagsFit'
  BY <1>1, <1>2 DEF Calm, FlagsFit, Working, Kinds
<1>4. FlagStops'
  BY <1>1 DEF FlagStops, Fresh, MainAt
<1> QED
  BY <1>3, <1>4

LEMMA WorkIsCalm ==
  ASSUME Calm, CalmSharing
  PROVE  FlagsFit' /\ FlagStops'
<1> USE DEF Unnamed, MainAt, Working
<1>1. ready \in [Kinds -> BOOLEAN]
  BY DEF Calm, Sound, Formed, TypeOK
<1>2. CASE TakeLock
  <2>1. main.at = "wait" /\ main' = At("open")
          /\ UNCHANGED <<ready, early, client>>
    BY <1>2 DEF TakeLock, users
  <2>2. main'.at = "open" /\ Kind' = Kind
    BY <2>1, Goes DEF Calm
  <2> QED
    BY <2>1, <2>2 DEF Calm, FlagsFit, FlagStops
<1>3. CASE early = {} /\ Opens
  <2>1. /\ main.at = "open" /\ UNCHANGED <<ready, early, client>>
        /\ main' = At("refuse") \/ main' = At("insert")
    BY <1>3 DEF Opens, tables, users
  <2>2. main'.at \in {"refuse", "insert"} /\ Kind' = Kind
    BY <2>1, Goes DEF Calm
  <2> QED
    BY <1>3, <2>1, <2>2 DEF Calm, FlagsFit, FlagStops
<1>4. CASE FolderIsNone
  <2>1. /\ main.at = "open" /\ UNCHANGED <<ready, early, client>>
        /\ main' = At("throw-wide") /\ Kind = "nf"
    BY <1>4 DEF FolderIsNone, tables, users
  <2>2. main'.at = "throw-wide"
    BY <2>1, Goes DEF Calm
  <2> QED
    BY <2>1, <2>2 DEF Calm, FlagsFit, FlagStops
<1>5. CASE Insert
  <2>1. main.at = "insert" /\ main' = At("release") /\ UNCHANGED ready
    BY <1>5 DEF Insert
  <2>2. main'.at = "release" /\ Kind' = Kind
    BY <2>1, Goes DEF Calm
  <2> QED
    BY <2>1, <2>2 DEF Calm, FlagsFit, FlagStops
<1>6. CASE Release
  <2>1. /\ main.at \in {"release", "refuse"} /\ UNCHANGED ready
        /\ main' = At("raise") \/ main' = At("refused")
    BY <1>6 DEF Release
  <2>2. main'.at \in {"raise", "refused"} /\ Kind' = Kind
    BY <2>1, Goes DEF Calm
  <2> QED
    BY <2>1, <2>2 DEF Calm, FlagsFit, FlagStops
<1>7. CASE Raise
  <2>1. /\ main.at \in {"raise", "refused"}
        /\ main' = At("idle") \/ main' = At("throw-string")
        /\ ready' = [ready EXCEPT ![Kind] = TRUE]
    BY <1>7 DEF Raise
  <2>2. main'.at \in {"idle", "throw-string"} /\ Kind \in Kinds
    BY <2>1, Goes DEF Calm
  <2>3. ready'["ef"]
    BY <1>1, <2>1, <2>2 DEF Calm, FlagsFit, Kinds
  <2> QED
    BY <2>2, <2>3 DEF FlagsFit, FlagStops
<1>8. CASE Unwind
  <2>1. main.at \in Throws /\ main' = Idle /\ UNCHANGED ready
    BY <1>8 DEF Unwind
  <2> QED
    BY <2>1 DEF Calm, FlagsFit, FlagStops, Idle, Throws
<1> QED
  BY <1>2, <1>3, <1>4, <1>5, <1>6, <1>7, <1>8 DEF CalmSharing

\* A request that goes on and has not passed the flag before.
LEMMA RequestIsCalm ==
  ASSUME Calm, UNCHANGED <<main, tables>>, NEW c \in Clients, NEW request,
         client' = [client EXCEPT ![c] = request],
         early' = IF request.steps = <<>> THEN early \ {c} ELSE early,
         main.at \in {"wait", "open", "insert"} /\ c \notin early =>
           Fresh(request.task, request.steps, Kind)
  PROVE  FlagsFit' /\ FlagStops'
<1>1. \A d \in Clients : client'[d] = IF d = c THEN request ELSE client[d]
  BY DEF Calm, Sound, Formed
<1>2. request.steps = <<>> => Fresh(request.task, request.steps, Kind)
  BY DEF Fresh
<1>3. Kind' = Kind
  BY DEF Kind
<1> QED
  BY <1>1, <1>2, <1>3 DEF Calm, FlagsFit, FlagStops, MainAt, tables

LEMMA ServingIsCalm ==
  ASSUME Calm, Serving
  PROVE  FlagsFit' /\ FlagStops'
<1>1. PICK c \in Clients :
        \/ \E task \in Tasks, p \in Paths : Ask(c, task, NameOf[p])
        \/ Look(c) \/ Find(c) \/ Finish(c)
  BY DEF Serving
<1> DEFINE r == client[c]
           s == client[c].steps
<1>2. /\ r \in Requests
      /\ s # <<>> => r.task \in Tasks /\ s \in Rests(r.task)
      /\ main.at \in {"wait", "open", "insert"} =>
           Kind \in Kinds /\ ~ready[Kind]
             /\ (c \notin early => Fresh(r.task, s, Kind))
  BY DEF Calm, Sound, Formed, FlagsFit, FlagStops, Working, Kind
<1>3. Fresh(Quiet.task, Quiet.steps, Kind)
  BY DEF Quiet, Fresh
<1>4. CASE \E task \in Tasks, p \in Paths : Ask(c, task, NameOf[p])
  <2>1. PICK task \in Tasks, p \in Paths : Ask(c, task, NameOf[p])
    BY <1>4
  <2> DEFINE q == [Quiet EXCEPT !.task = task, !.name = NameOf[p],
                                !.steps = Steps(task)]
  <2>2. q.task = task /\ q.steps = Steps(task)
    BY DEF Quiet
  <2>3. Steps(task) \in Rests(task)
          /\ (Kind \in Kinds => Fresh(task, Steps(task), Kind))
    BY RequestsBegin
  <2>4. Steps(task) # <<>>
    BY <2>3, RequestsGoOn
  <2>5. client' = [client EXCEPT ![c] = q] /\ UNCHANGED <<main, tables, early>>
    BY <2>1 DEF Ask
  <2> HIDE DEF q, r, s
  <2> QED
    BY <1>2, <2>2, <2>3, <2>4, <2>5, RequestIsCalm
<1>5. CASE Look(c)
  <2>1. /\ s # <<>> /\ Head(s)[1] = "look" /\ UNCHANGED <<main, tables>>
        /\ IF ready[Head(s)[2]] THEN Becomes(c, [r EXCEPT !.steps = Tail(s)])
           ELSE IF r.task = "get-overview" /\ Len(Tail(s)) > 1
           THEN Becomes(c, [r EXCEPT !.steps = Tail(Tail(s))])
           ELSE Becomes(c, Quiet)
    BY <1>5 DEF Look
  <2>2. /\ \A k \in Kinds : Fresh(r.task, s, k) /\ Head(s)[2] # k
                              => Fresh(r.task, Tail(s), k)
        /\ r.task = "get-overview" /\ Len(Tail(s)) > 1 =>
             \A k \in Kinds : Fresh(r.task, Tail(Tail(s)), k)
    BY <1>2, <2>1, RequestsGoOn
  <2>3. \A t : [r EXCEPT !.steps = t].task = r.task
          /\ [r EXCEPT !.steps = t].steps = t
    BY <1>2 DEF Requests
  <2>4. CASE ready[Head(s)[2]]
    <3> DEFINE q == [r EXCEPT !.steps = Tail(s)]
    <3>1. Becomes(c, q) /\ q.task = r.task /\ q.steps = Tail(s)
      BY <2>1, <2>3, <2>4
    <3>2. main.at \in {"wait", "open", "insert"} /\ c \notin early
            => Fresh(q.task, q.steps, Kind)
      BY <1>2, <2>2, <2>4, <3>1
    <3> HIDE DEF q, r, s
    <3> QED
      BY <2>1, <3>1, <3>2, RequestIsCalm DEF Becomes
  <2>5. CASE ~ready[Head(s)[2]] /\ r.task = "get-overview" /\ Len(Tail(s)) > 1
    <3> DEFINE q == [r EXCEPT !.steps = Tail(Tail(s))]
    <3>1. Becomes(c, q) /\ q.task = r.task /\ q.steps = Tail(Tail(s))
      BY <2>1, <2>3, <2>5
    <3>2. main.at \in {"wait", "open", "insert"} /\ c \notin early
            => Fresh(q.task, q.steps, Kind)
      BY <1>2, <2>2, <2>5, <3>1
    <3> HIDE DEF q, r, s
    <3> QED
      BY <2>1, <3>1, <3>2, RequestIsCalm DEF Becomes
  <2>6. CASE ~ready[Head(s)[2]] /\ ~(r.task = "get-overview"
          /\ Len(Tail(s)) > 1)
    <3>1. Becomes(c, Quiet)
      BY <2>1, <2>6
    <3> QED
      BY <1>3, <2>1, <3>1, RequestIsCalm DEF Becomes
  <2> QED
    BY <2>4, <2>5, <2>6
<1>6. CASE Find(c)
  <2>1. PICK k \in Kinds : Reading(c, k)
    BY <1>6 DEF Find
  <2>2. s # <<>> /\ Head(s)[1] = "find" /\ UNCHANGED <<main, tables>>
    <3>1. s # <<>> /\ Head(s) = <<"find", k>>
      BY <2>1 DEF Reading
    <3>2. UNCHANGED <<main, tables>>
      BY <1>6 DEF Find
    <3> QED
      BY <3>1, <3>2
  <2>3. \A j \in Kinds : Fresh(r.task, s, j) => Fresh(r.task, Tail(s), j)
    BY <1>2, <2>2, RequestsGoOn
  <2>4. PICK q : Becomes(c, q) /\ \/ q.steps = <<>>
                                  \/ q.steps = Tail(s) /\ q.task = r.task
    <3>1. Quiet.steps = <<>>
      BY DEF Quiet
    <3>2. LET q == [r EXCEPT !.steps = Tail(s), !.torn = FALSE]
          IN  q.steps = Tail(s) /\ q.task = r.task
      BY <1>2 DEF Requests
    <3>3. \A p : [r EXCEPT !.steps = <<>>, !.found = p, !.torn = FALSE].steps
            = <<>>
      BY <1>2 DEF Requests
    <3>4. \/ Becomes(c, Quiet)
          \/ Becomes(c, [r EXCEPT !.steps = Tail(s), !.torn = FALSE])
          \/ \E p : Becomes(c, [r EXCEPT !.steps = <<>>, !.found = p, !.torn
            = FALSE])
      BY <1>6 DEF Find
    <3> HIDE DEF r, s
    <3> QED
      BY <3>1, <3>2, <3>3, <3>4
  <2>5. main.at \in {"wait", "open", "insert"} /\ c \notin early
          => Fresh(q.task, q.steps, Kind)
    BY <1>2, <2>3, <2>4 DEF Fresh
  <2> HIDE DEF r, s
  <2> QED
    BY <2>2, <2>4, <2>5, RequestIsCalm DEF Becomes
<1>7. CASE Finish(c)
  <2>1. /\ client' = [client EXCEPT ![c] = Quiet]
        /\ UNCHANGED <<main, tables, early>>
    BY <1>7 DEF Finish
  <2>2. \A d \in Clients : client'[d] = IF d = c THEN Quiet ELSE client[d]
    BY <2>1 DEF Calm, Sound, Formed
  <2>3. Kind' = Kind
    BY <2>1 DEF Kind
  <2> QED
    BY <1>3, <2>1, <2>2, <2>3 DEF Calm, FlagsFit, FlagStops, MainAt, tables
<1> QED
  BY <1>1, <1>4, <1>5, <1>6, <1>7

LEMMA SessionsAreCalm ==
  ASSUME Calm, Sessions
  PROVE  FlagsFit' /\ FlagStops'
<1> USE DEF Working, MainAt
<1>1. \/ main'.at \in Unnamed /\ ready["ef"] /\ UNCHANGED ready
      \/ main'.at = "menu" /\ ready' = AllReady
      \/ UNCHANGED <<main, ready, early, client>>
  <2>1. ASSUME NEW confirmed \in SUBSET DOMAIN table["ef"],
               NEW right \in SUBSET confirmed, BeginSave(confirmed, right)
        PROVE  main'.at = "save" /\ ready["ef"] /\ UNCHANGED ready
    BY <2>1 DEF BeginSave, At, Calm, Sound, Formed, FlagsFit, tables
  <2>2. ASSUME EndSave \/ OpenSession \/ NewSession
        PROVE  main'.at = "idle" /\ ready["ef"] /\ UNCHANGED ready
    BY <2>2 DEF EndSave, OpenSession, NewSession, Idle, Calm, FlagsFit, tables
  <2>3. SessionFails => UNCHANGED <<main, ready, early, client>>
    BY DEF SessionFails, tables, users
  <2>4. EndProcess => main'.at = "menu" /\ ready' = AllReady
    BY DEF EndProcess, Menu
  <2> QED
    BY <2>1, <2>2, <2>3, <2>4 DEF Sessions, Unnamed
<1>2. UNCHANGED main => Kind' = Kind
  BY DEF Kind
<1> QED
  BY <1>1, <1>2 DEF Calm, FlagsFit, FlagStops, Unnamed, AllReady, Kinds

LEMMA CalmStep == Calm /\ [CalmNext]_vars => Calm'
<1> SUFFICES ASSUME Calm, [CalmNext]_vars PROVE Calm'
  OBVIOUS
<1>1. [Next]_vars
  BY DEF CalmNext, CalmSharing, Next, Sharing
<1>2. Sound'
  BY <1>1, SoundStep DEF Calm
<1>3. FlagsFit' /\ FlagStops'
  <2>1. CASE UNCHANGED vars
    BY <2>1 DEF vars, tables, users, Calm, FlagsFit, FlagStops, MainAt, Kind
  <2> QED
    BY <2>1, ShareIsCalm, WorkIsCalm, ServingIsCalm, SessionsAreCalm
       DEF CalmNext
<1> QED
  BY <1>2, <1>3 DEF Calm

\* While containers open and the user alone shares, a flag that is down has
\* stopped every request that has not passed it.
THEOREM AlwaysCalm == CalmSpec => []Calm
<1> QED
  BY CalmInit, CalmStep, PTL DEF CalmSpec

\* No table changes under a request that looked at its flag.
THEOREM TablesAreReadAlone == CalmSpec => []TablesReadAlone
<1>1. Calm => TablesReadAlone
  <2> SUFFICES ASSUME Calm, MainAt("insert"), NEW c
        \in Clients, Reading(c, Kind)
               PROVE  client[c].task = "access-nf"
    BY DEF TablesReadAlone
  <2>1. Fresh(client[c].task, client[c].steps, Kind)
    BY DEF Calm, FlagStops, MainAt
  <2> QED
    BY <2>1 DEF Fresh, Reading, ToFind
<1> QED
  BY <1>1, AlwaysCalm, PTL

\* Between commands requests for protected folders are answered.
THEOREM AlwaysServedAgain == CalmSpec => []ServedAgain
<1>1. Calm => ServedAgain
  BY DEF Calm, FlagsFit, ServedAgain, MainAt, Working
<1> QED
  BY <1>1, AlwaysCalm, PTL

-----------------------------------------------------------------------------
(* Locks come back *)

\* A lock is held only in the share that took it.
HeldInShare(k) ==
  lock[k] = "held" =>
    /\ main.at \in {"open", "insert", "release", "refuse", "throw-wide"}
    /\ Kind = k

\* A share that waits for the lock of its kind waits for a free one.
NeverWaitsInVain(k) == MainAt("wait") /\ Kind = k => lock[k] = "free"

LEMMA HeldInShareInit ==
  ASSUME Init, NEW k \in Kinds
  PROVE  HeldInShare(k)
BY DEF Init, HeldInShare, AllFree

\* Every way out of a share releases its lock but one, and that is no way out
\* for a public folder.
LEMMA HeldInShareStep ==
  ASSUME Sound, NEW k \in Kinds, HeldInShare(k), [Next]_vars,
         k = "nf" \/ ~ContainerIsNone
  PROVE  HeldInShare(k)'
<1> USE DEF MainAt, At, HeldInShare
<1>1. /\ lock \in [Kinds -> {"free", "held"}]
      /\ ~(main.at \in {"menu", "idle", "save"}) => Kind \in Kinds
  BY SharedFoldersAssumption DEF Sound, Formed, TypeOK, Kind
<1>2. ASSUME NEW path \in Paths, Share(path)
      PROVE  HeldInShare(k)'
  BY <1>2 DEF Share
<1>3. CASE TakeLock
  BY <1>1, <1>3 DEF TakeLock, Kind
<1>4. CASE Opens
  BY <1>4 DEF Opens, tables, Kind
<1>5. CASE FolderIsNone
  BY <1>5 DEF FolderIsNone, tables, Kind
<1>6. CASE ContainerIsNone
  <2>1. k = "nf" /\ Kind = "ef" /\ UNCHANGED lock
    BY <1>6 DEF ContainerIsNone, tables
  <2> QED
    BY <2>1
<1>7. CASE Insert
  BY <1>7 DEF Insert, Kind
<1>8. CASE Release
  BY <1>1, <1>8 DEF Release, Kind
<1>9. CASE Raise
  BY <1>9 DEF Raise, Kind
<1>10. CASE Unwind
  BY <1>1, <1>10 DEF Unwind, Idle, Throws, Catches
<1>11. CASE Serving
  BY <1>11 DEF Serving, Ask, Look, Find, Finish, tables, Kind
<1>12. CASE Sessions
  <2>1. \/ main.at \in {"menu", "idle", "save"} /\ UNCHANGED lock
           /\ main'.at \in {"menu", "idle", "save"}
        \/ main'.at = "menu" /\ lock' = AllFree
    BY <1>12
       DEF Sessions, BeginSave, EndSave, OpenSession, SessionFails, NewSession,
           EndProcess, Menu, Idle, tables, Sound, Formed
  <2>2. main.at \in {"menu", "idle", "save"} => lock[k] # "held"
    OBVIOUS
  <2> QED
    BY <2>1, <2>2 DEF AllFree
<1>13. CASE UNCHANGED vars
  BY <1>13 DEF vars, tables, Kind
<1> QED
  BY <1>2, <1>3, <1>4, <1>5, <1>6, <1>7, <1>8, <1>9, <1>10, <1>11, <1>12,
     <1>13 DEF Next, Sharing

LEMMA HeldIsNotWaitedFor ==
  ASSUME Sound, NEW k \in Kinds, HeldInShare(k)
  PROVE  NeverWaitsInVain(k)
BY DEF Sound, Formed, TypeOK, HeldInShare, NeverWaitsInVain, MainAt

\* Sharing a public folder never waits for a lock that nobody will release:
\* whichever way the shares before it ended, through the handlers or past them,
\* their lock was released (FileSharingServer.cpp, 249-313).
THEOREM NoPublicShareWaitsInVain == Spec => []NeverWaitsInVain("nf")
<1>1. Init => HeldInShare("nf")
  BY HeldInShareInit DEF Kinds
<1>2. Sound /\ HeldInShare("nf") /\ [Next]_vars => HeldInShare("nf")'
  BY HeldInShareStep DEF Kinds
<1>3. Sound /\ HeldInShare("nf") => NeverWaitsInVain("nf")
  BY HeldIsNotWaitedFor DEF Kinds
<1> QED
  BY <1>1, <1>2, <1>3, AlwaysSound, PTL DEF Spec

LEMMA CalmOpens ==
  ASSUME Sound, [CalmNext]_vars
  PROVE  ~ContainerIsNone
<1> SUFFICES ASSUME ContainerIsNone
             PROVE  FALSE
  OBVIOUS
<1>1. main.at = "open" /\ main'.at = "throw-other"
  BY Goes DEF ContainerIsNone, MainAt, Unnamed
<1>2. ASSUME NEW place, main' = At(place)
      PROVE  place = "throw-other"
  BY <1>1, <1>2, Goes DEF Unnamed
<1> USE <1>1, <1>2 DEF MainAt
<1>3. CASE (\E path \in Paths : Share(path)) \/ TakeLock
  BY <1>3 DEF Share, TakeLock
<1>4. CASE early = {} /\ Opens
  BY <1>4 DEF Opens
<1>5. CASE FolderIsNone
  BY <1>5 DEF FolderIsNone
<1>6. CASE Insert \/ Release \/ Raise \/ Unwind
  BY <1>6 DEF Insert, Release, Raise, Unwind, Throws
<1>7. CASE Serving
  BY <1>7 DEF Serving, Ask, Look, Find, Finish
<1>8. CASE Sessions
  BY <1>8
     DEF Sessions, BeginSave, EndSave, OpenSession, SessionFails, NewSession,
         EndProcess, Menu, Idle
<1>9. CASE UNCHANGED vars
  BY <1>9 DEF vars
<1> QED
  BY <1>3, <1>4, <1>5, <1>6, <1>7, <1>8, <1>9 DEF CalmNext, CalmSharing

\* Nor does sharing a protected folder, as long as containers open.
THEOREM NoShareWaitsInVain ==
  CalmSpec => [](\A k \in Kinds : NeverWaitsInVain(k))
<1> DEFINE Held == \A k \in Kinds : HeldInShare(k)
<1>1. Init => Held
  BY HeldInShareInit
<1>2. Sound /\ Held /\ [CalmNext]_vars => Held'
  <2> SUFFICES ASSUME Sound, [CalmNext]_vars, NEW k \in Kinds, HeldInShare(k)
               PROVE  HeldInShare(k)'
    OBVIOUS
  <2>1. [Next]_vars
    BY DEF CalmNext, CalmSharing, Next, Sharing
  <2> QED
    BY <2>1, CalmOpens, HeldInShareStep
<1>3. Sound /\ Held => \A k \in Kinds : NeverWaitsInVain(k)
  BY HeldIsNotWaitedFor
<1>4. Calm => Sound
  BY DEF Calm
<1> HIDE DEF Held
<1> QED
  BY <1>1, <1>2, <1>3, <1>4, AlwaysCalm, PTL DEF CalmSpec

=============================================================================
