-------------------------- MODULE CarefulSessionProofs --------------------------
(***************************************************************************)
(* Proofs of CarefulSession: where the session is, that what is pulled is  *)
(* what was named, and that the commands implement the stages of a visit,  *)
(* for any hosts, trees and names.                                         *)
(*                                                                         *)
(* The first lemmas are about paths: what FromFirst, GetFolder and GetFile *)
(* make of a path that begins with a plain folder's name.                  *)
(***************************************************************************)
EXTENDS CarefulSession, SequenceTheorems, FiniteSetTheorems, TLAPS

-----------------------------------------------------------------------------
(* Paths *)

LEMMA FromType ==
  ASSUME NEW path \in Seq(Names), NEW i \in Nat, i > 0
  PROVE  From(path, i) \in Seq(Names)
BY DEF From

\* What follows a beginning of a path is the rest of it.
LEMMA FromConcat ==
  ASSUME NEW s \in Seq(Names), NEW t \in Seq(Names)
  PROVE  From(s \o t, Len(s) + 1) = t
<1> DEFINE r == From(s \o t, Len(s) + 1)
<1>1. Len(s \o t) = Len(s) + Len(t) /\ s \o t \in Seq(Names)
  OBVIOUS
<1>2. r \in Seq(Names) /\ Len(r) = Len(t)
  BY <1>1 DEF From
<1>3. \A i \in 1 .. Len(t) : r[i] = t[i]
  BY <1>1 DEF From
<1> QED
  BY <1>2, <1>3, SeqEqual

\* A path is its beginning and what follows it.
LEMMA StartAndRest ==
  ASSUME NEW path \in Seq(Names), NEW start \in Seq(Names),
         StartsWith(path, start)
  PROVE  path = start \o From(path, Len(start) + 1)
<1> DEFINE m == Len(path)
           k == Len(start)
<1>1. m \in Nat /\ k \in Nat /\ k <= m /\ SubSeq(path, 1, k) = start
  BY LenProperties DEF StartsWith
<1>2. SubSeq(path, 1, k) \o SubSeq(path, k + 1, m) = SubSeq(path, 1, m)
  <2>1. 1 \in 1 .. Len(path) + 1 /\ k \in 1 - 1 .. Len(path)
        /\ m \in k .. Len(path)
    BY <1>1
  <2> QED
    BY <2>1, ConcatAdjacentSubSeq
<1>3. SubSeq(path, 1, m) = path
  BY SubSeqFull
<1> QED
  BY <1>1, <1>2, <1>3 DEF From

LEMMA ButLastAndLast ==
  ASSUME NEW path \in Seq(Names), path # <<>>
  PROVE  /\ AllButLast(path) \in Seq(Names)
         /\ LastOf(path) \in Names
         /\ path = AllButLast(path) \o <<LastOf(path)>>
<1> DEFINE m == Len(path)
<1>1. m \in Nat /\ m > 0
  BY EmptySeq
<1>2. \A i \in 1 .. m - 1 : path[i] \in Names
  BY <1>1, ElementOfSeq
<1>3. AllButLast(path) \in Seq(Names)
  <2>1. 1 \in Int /\ m - 1 \in Int
    BY <1>1
  <2> QED
    BY <1>2, <2>1, SubSeqProperties DEF AllButLast
<1>4. LastOf(path) \in Names
  BY <1>1, ElementOfSeq DEF LastOf
<1>5. SubSeq(path, 1, m) = SubSeq(path, 1, m - 1) \o <<path[m]>>
  <2>1. 1 \in 1 .. Len(path) /\ m \in 1 .. Len(path)
    BY <1>1
  <2> QED
    BY <2>1, SubSeqRecursiveSecond
<1>6. SubSeq(path, 1, m) = path
  BY SubSeqFull
<1> QED
  BY <1>3, <1>4, <1>5, <1>6 DEF AllButLast, LastOf

LEMMA AppendedComesOff ==
  ASSUME NEW S, NEW s \in Seq(S), NEW n \in S
  PROVE  AllButLast(s \o <<n>>) = s /\ LastOf(s \o <<n>>) = n
<1> DEFINE r == s \o <<n>>
<1>1. <<n>> \in Seq(S) /\ Len(<<n>>) = 1 /\ <<n>>[1] = n
  OBVIOUS
<1>2. /\ r \in Seq(S) /\ Len(r) = Len(s) + 1 /\ Len(s) \in Nat
      /\ \A i \in 1 .. Len(s) + 1 :
           r[i] = IF i <= Len(s) THEN s[i] ELSE <<n>>[i - Len(s)]
  BY <1>1, ConcatProperties, LenProperties
<1> HIDE DEF r
<1>3. LastOf(r) = n
  BY <1>1, <1>2 DEF LastOf
<1>4. AllButLast(r) = SubSeq(r, 1, Len(s))
  BY <1>2 DEF AllButLast
<1>5. /\ SubSeq(r, 1, Len(s)) \in Seq(S)
      /\ Len(SubSeq(r, 1, Len(s))) = Len(s)
      /\ \A i \in 1 .. Len(s) : SubSeq(r, 1, Len(s))[i] = r[i]
  <2>1. \A i \in 1 .. Len(s) : r[i] \in S
    BY <1>2, ElementOfSeq
  <2> QED
    BY <1>2, <2>1, SubSeqProperties
<1>6. \A i \in 1 .. Len(s) : SubSeq(r, 1, Len(s))[i] = s[i]
  BY <1>2, <1>5
<1>7. SubSeq(r, 1, Len(s)) = s
  BY <1>5, <1>6, SeqEqual
<1> QED
  BY <1>3, <1>4, <1>7 DEF r

LEMMA ButLastOfAppended ==
  ASSUME NEW s \in Seq(Names), NEW n \in Names
  PROVE  AllButLast(s \o <<n>>) = s /\ LastOf(s \o <<n>>) = n
BY AppendedComesOff

\* A path of names has no backslash at its end, and splits into its names.
LEMMA NamesOnly ==
  ASSUME NEW path \in Seq(Names)
  PROVE  ~EndsOpen(path) /\ Popped(path) = path /\ Split(path) = path
<1>1. Len(path) \in Nat /\ \A i \in 1 .. Len(path) : path[i] \in Names
  BY ElementOfSeq, LenProperties
<1>2. Nothing \notin Names
  BY FolderTreeAssumption DEF FolderTreeAssumption
<1>3. ~EndsOpen(path)
  <2>1. path # <<>> => Len(path) \in 1 .. Len(path)
    BY <1>1, EmptySeq
  <2> QED
    BY <1>1, <1>2, <2>1 DEF EndsOpen, LastOf
<1>4. Split(path) = path
  <2>1. {i \in DOMAIN path : path[i] # Nothing} = 1 .. Len(path)
    BY <1>1, <1>2
  <2>2. Cardinality(1 .. Len(path)) = Len(path)
    <3>1. ASSUME NEW m \in Nat
          PROVE  Cardinality(1 .. m) = m
      <4>1. Cardinality(1 .. m) = IF 1 > m THEN 0 ELSE m - 1 + 1
        BY FS_Interval
      <4> QED
        BY <4>1
    <3> QED
      BY <1>1, <3>1
  <2>3. Split(path) = SubSeq(path, 1, Len(path))
    BY <2>1, <2>2 DEF Split
  <2> QED
    BY <2>3, SubSeqFull
<1> QED
  BY <1>3, <1>4 DEF Popped

\* "..\" takes one name off, and its backslash is taken off again.
LEMMA UpTakesOneOff ==
  ASSUME NEW path \in Seq(Names), Len(path) >= 2
  PROVE  Popped(CombinePath(path, Relative(1, <<Nothing>>))) = AllButLast(path)
<1> DEFINE rel == Relative(1, <<Nothing>>)
           s   == AllButLast(path)
           S   == Names \cup {Nothing}
<1>1. rel.ups = 1 /\ rel.down = <<Nothing>> /\ rel.down # <<>>
  BY DEF Relative
<1>2. Len(path) \in Nat /\ path # <<>>
  BY LenProperties, EmptySeq
<1>3. s \in Seq(Names) /\ Popped(s) = s
  BY <1>2, ButLastAndLast, NamesOnly
<1>4. CombinePath(path, rel) = s \o <<Nothing>>
  <2>1. CombinePath(path, rel)
          = Popped(SubSeq(path, 1, Len(path) - 1)) \o <<Nothing>>
    <3> HIDE DEF rel, s
    <3> QED
      BY <1>1, <1>2 DEF CombinePath
  <2> QED
    BY <1>3, <2>1 DEF AllButLast
<1>5. s \in Seq(S) /\ Nothing \in S
  BY <1>3
<1>6. AllButLast(s \o <<Nothing>>) = s /\ LastOf(s \o <<Nothing>>) = Nothing
  <2> HIDE DEF s, S
  <2> QED
    BY <1>5, AppendedComesOff
<1>7. s \o <<Nothing>> # <<>>
  <2> HIDE DEF s
  <2> QED
    BY <1>5, LenProperties, EmptySeq
<1> HIDE DEF s, rel
<1>8. Popped(CombinePath(path, rel)) = s
  BY <1>4, <1>6, <1>7 DEF Popped, EndsOpen
<1> QED
  BY <1>8 DEF rel, s

\* Taking the last name off a path with something in front.
LEMMA ButLastConcat ==
  ASSUME NEW s \in Seq(Names), NEW t \in Seq(Names), t # <<>>
  PROVE  /\ AllButLast(s \o t) = s \o AllButLast(t)
         /\ LastOf(s \o t) = LastOf(t)
<1> DEFINE b == AllButLast(t)
           l == LastOf(t)
<1>1. b \in Seq(Names) /\ l \in Names /\ t = b \o <<l>>
  BY ButLastAndLast
<1> HIDE DEF b, l
<1>2. s \o b \in Seq(Names) /\ <<l>> \in Seq(Names)
  BY <1>1, ConcatProperties
<1>3. s \o t = (s \o b) \o <<l>>
  BY <1>1, <1>2, ConcatAssociative
<1>4. AllButLast((s \o b) \o <<l>>) = s \o b /\ LastOf((s \o b) \o <<l>>) = l
  BY <1>1, <1>2, ButLastOfAppended
<1>5. AllButLast(s \o t) = s \o b /\ LastOf(s \o t) = l
  BY <1>3, <1>4
<1> QED
  BY <1>5 DEF b, l

LEMMA HeadTailConcat ==
  ASSUME NEW n \in Names, NEW path \in Seq(Names)
  PROVE  /\ <<n>> \o path \in Seq(Names) /\ <<n>> \o path # <<>>
         /\ Head(<<n>> \o path) = n /\ Tail(<<n>> \o path) = path
         /\ Len(<<n>> \o path) = Len(path) + 1
<1> DEFINE s == <<n>> \o path
<1>1. s \in Seq(Names) /\ Len(s) = Len(path) + 1 /\ s[1] = n
  OBVIOUS
<1>2. \A i \in 1 .. Len(path) : s[i + 1] = path[i]
  OBVIOUS
<1> HIDE DEF s
<1>3. s # <<>> /\ Head(s) = n
  BY <1>1
<1>4. Tail(s) \in Seq(Names) /\ Len(Tail(s)) = Len(path)
  BY <1>1, <1>3
<1>5. \A i \in 1 .. Len(path) : Tail(s)[i] = path[i]
  BY <1>1, <1>2, <1>3
<1>6. Tail(s) = path
  BY <1>4, <1>5, SeqEqual
<1> QED
  BY <1>1, <1>3, <1>6 DEF s

\* GetFolder splits it into the one name for the folder above.
LEMMA UpAlone == Split(Written(Relative(1, <<Nothing>>))) = <<Upward>>
<1> DEFINE rel == Relative(1, <<Nothing>>)
           up  == <<Upward>>
           r   == Written(rel)
           S   == {Upward, Nothing}
<1>1. r = up \o <<Nothing>>
  <2>1. [i \in 1 .. 1 |-> Upward] = <<Upward>>
    OBVIOUS
  <2>2. rel.ups = 1 /\ rel.down = <<Nothing>>
    BY DEF Relative
  <2> HIDE DEF rel
  <2> QED
    BY <2>1, <2>2 DEF Written
<1>2. up \in Seq(S) /\ <<Nothing>> \in Seq(S) /\ Len(up) = 1 /\ up[1] = Upward
      /\ Len(<<Nothing>>) = 1 /\ <<Nothing>>[1] = Nothing
  OBVIOUS
<1> HIDE DEF r, rel, up, S
<1>3. r \in Seq(S) /\ Len(r) = 2 /\ r[1] = Upward /\ r[2] = Nothing
  <2>1. /\ up \o <<Nothing>> \in Seq(S) /\ Len(up \o <<Nothing>>) = 2
        /\ \A i \in 1 .. 2 : (up \o <<Nothing>>)[i] =
             IF i <= 1 THEN up[i] ELSE <<Nothing>>[i - 1]
    BY <1>2, ConcatProperties
  <2> QED
    BY <1>1, <1>2, <2>1
<1>4. Upward # Nothing
  BY DEF Upward, Nothing
<1>5. {i \in DOMAIN r : r[i] # Nothing} = {1}
  BY <1>3, <1>4
<1>6. Split(r) = SubSeq(r, 1, 1)
  BY <1>5, FS_Singleton DEF Split
<1>7. SubSeq(r, 1, 1) = up
  <2>1. SubSeq(r, 1, 1) = SubSeq(up, 1, 1)
    <3>1. 1 \in 1 .. Len(up)
      BY <1>2
    <3> QED
      BY <1>1, <1>2, <3>1, SubSeqOfConcat1
  <2> QED
    BY <1>2, <2>1, SubSeqFull
<1> QED
  BY <1>6, <1>7 DEF r, rel, up

-----------------------------------------------------------------------------
(* Searching a path for a name *)

\* A name that nothing in front hides is found where it stands.
LEMMA FoundWhereItStands ==
  ASSUME NEW to \in Seq(Names), NEW n \in Names, NEW rest \in Seq(Names),
         ~Hides(to, n)
  PROVE  /\ BeginsIn(to \o <<n>> \o rest, n) # {}
         /\ FromFirst(to \o <<n>> \o rest, n) = <<n>> \o rest
<1> DEFINE path == to \o <<n>> \o rest
           B    == BeginsIn(path, n)
           k    == Len(to) + 1
<1>1. /\ path \in Seq(Names) /\ Len(path) = Len(to) + 1 + Len(rest)
      /\ Len(to) \in Nat /\ Len(rest) \in Nat /\ path[k] = n
      /\ \A i \in 1 .. Len(to) : path[i] = to[i]
  BY LenProperties
<1>2. k \in B
  BY <1>1, FolderTreeAssumption DEF BeginsIn, FolderTreeAssumption
<1>3. \A i \in B : i \in Nat /\ k <= i
  <2> SUFFICES ASSUME NEW i \in B, ~(k <= i)
               PROVE  FALSE
    BY <1>1 DEF BeginsIn
  <2>1. i \in 1 .. Len(to) /\ <<to[i], n>> \in DOMAIN RestOf
    BY SMTT(30), <1>1 DEF BeginsIn
  <2>2. i \in BeginsIn(to, n)
    BY <2>1, LenProperties DEF BeginsIn
  <2> QED
    BY <2>2 DEF Hides
<1> DEFINE c == CHOOSE x \in B : \A y \in B : x <= y
<1>4. c = k
  <2>1. k \in Nat /\ \A y \in B : k <= y
    BY <1>1, <1>3
  <2>2. c \in B /\ \A y \in B : c <= y
    <3> HIDE DEF B, k
    <3> QED BY <1>2, <2>1
  <2>3. c \in Nat /\ k <= c /\ c <= k
    BY <1>2, <1>3, <2>2
  <2> HIDE DEF c, B
  <2> QED
    BY <1>1, <2>3
<1>5. RestOf[<<path[k], n>>] = n
  BY <1>1, FolderTreeAssumption DEF FolderTreeAssumption
<1>6. From(path, k + 1) = rest
  <2>1. to \o <<n>> \in Seq(Names) /\ Len(to \o <<n>>) = k
    BY <1>1
  <2> QED
    BY <2>1, FromConcat
<1>7. FromFirst(path, n) = <<RestOf[<<path[c], n>>]>> \o From(path, c + 1)
  BY DEF FromFirst
<1>8. FromFirst(path, n) = <<n>> \o rest
  <2> HIDE DEF c, path, k, B
  <2> QED BY <1>4, <1>5, <1>6, <1>7
<1> QED
  BY <1>2, <1>8

-----------------------------------------------------------------------------
(* Looking up what is in a plain folder *)

LEMMA PlainTree ==
  ASSUME NEW f \in Folders, Plain(f)
  PROVE  /\ IsTree(TreeOf[f]) /\ TreeOf[f].name \in Names
         /\ TreeOf[f].folders \subseteq Seq(Names)
         /\ TreeOf[f].files \subseteq Seq(Names)
         /\ HostDir(OwnerOf[f]) \in Seq(Names)
         /\ Len(HostDir(OwnerOf[f])) = 2
         /\ Home(f) \in Seq(Names) /\ Len(Home(f)) = 3
         /\ OwnerOf[f] \in Hosts /\ KindOf[f] \in Kinds
<1>1. IsTree(TreeOf[f]) /\ OwnerOf[f] \in Hosts /\ KindOf[f] \in Kinds
  BY HostSessionAssumption DEF HostSessionAssumption
<1>2. /\ TreeOf[f].name \in Names /\ TreeOf[f].folders \subseteq Seq(Names)
      /\ TreeOf[f].files \subseteq Seq(Names)
  BY <1>1 DEF IsTree
<1>3. FS \in Names /\ NameOfHost[OwnerOf[f]] \in Names
  BY <1>1, HostSessionAssumption DEF HostSessionAssumption
<1> QED
  BY <1>1, <1>2, <1>3 DEF HostDir, Home

\* With the root's name in front, the rest is the way.
LEMMA WayFromName ==
  ASSUME NEW f \in Folders, Plain(f), NEW way \in Seq(Names)
  PROVE  FolderWay(TreeOf[f], <<TreeOf[f].name>> \o way) = way
<1> DEFINE n == TreeOf[f].name
<1>1. n \in Names /\ n \notin Dotted
  BY PlainTree DEF Plain
<1>2. /\ <<n>> \o way # <<>> /\ Head(<<n>> \o way) = n
      /\ Tail(<<n>> \o way) = way
  BY <1>1, HeadTailConcat
<1>3. Split(<<n>> \o way) = <<n>> \o way
  BY <1>1, HeadTailConcat, NamesOnly
<1> QED
  BY <1>1, <1>2, <1>3 DEF FolderWay, DropDot, DropRoot

LEMMA FileFromName ==
  ASSUME NEW f \in Folders, Plain(f), NEW way \in Seq(Names)
  PROVE  LET path == <<TreeOf[f].name>> \o way IN
         /\ HasFile(TreeOf[f], path) <=> way \in TreeOf[f].files
         /\ way # <<>> => FileWay(TreeOf[f], path) = way
<1> DEFINE n    == TreeOf[f].name
           path == <<n>> \o way
<1>1. n \in Names /\ IsTree(TreeOf[f])
  BY PlainTree
<1>2. path # <<>> /\ path \in Seq(Names) /\ Split(path) = path
  BY <1>1, HeadTailConcat, NamesOnly
<1>3. CASE way = <<>>
  <2>1. path = <<n>>
    BY <1>1, <1>3
  <2>2. AllButLast(path) = <<>> /\ LastOf(path) = n
    BY <1>1, <2>1 DEF AllButLast, LastOf
  <2>3. FileWay(TreeOf[f], path) = <<n>>
    <3>1. Split(<<>>) = <<>>
      <4>1. <<>> \in Seq(Names)
        OBVIOUS
      <4> QED
        BY <4>1, NamesOnly
    <3>2. FolderWay(TreeOf[f], <<>>) = <<>>
      BY <3>1 DEF FolderWay, DropDot, DropRoot
    <3>3. <<>> \o <<n>> = <<n>>
      BY <1>1, ConcatEmptySeq
    <3> HIDE DEF path, n
    <3> QED
      BY <1>2, <2>2, <3>2, <3>3 DEF FileWay
  <2>4. <<n>> \notin TreeOf[f].files /\ <<>> \notin TreeOf[f].files
    BY <1>1 DEF Plain, IsTree
  <2> QED
    BY <1>2, <1>3, <2>3, <2>4 DEF HasFile
<1>4. CASE way # <<>>
  <2>1. /\ AllButLast(path) = <<n>> \o AllButLast(way)
        /\ LastOf(path) = LastOf(way)
    <3>1. <<n>> \in Seq(Names)
      BY <1>1
    <3> QED
      BY <1>4, <3>1, ButLastConcat
  <2>2. /\ AllButLast(way) \in Seq(Names)
        /\ way = AllButLast(way) \o <<LastOf(way)>>
    BY <1>4, ButLastAndLast
  <2>3. FolderWay(TreeOf[f], <<n>> \o AllButLast(way)) = AllButLast(way)
    BY <2>2, WayFromName
  <2>4. FileWay(TreeOf[f], path) = way
    BY <1>2, <2>1, <2>2, <2>3 DEF FileWay
  <2> QED
    BY <1>2, <1>4, <2>4 DEF HasFile
<1> QED
  BY <1>3, <1>4

\* Without it, a file's way is looked up as it is.
LEMMA FileAsItIs ==
  ASSUME NEW f \in Folders, Plain(f), NEW p \in TreeOf[f].files
  PROVE  HasFile(TreeOf[f], p) /\ FileWay(TreeOf[f], p) = p
<1> DEFINE b == AllButLast(p)
<1>1. /\ p \in Seq(Names) /\ p # <<>> /\ b \in TreeOf[f].folders
      /\ Split(p) = p /\ Split(b) = b
  BY PlainTree, NamesOnly DEF IsTree
<1>2. b # <<>> => Head(b) \notin Dotted /\ Head(b) # TreeOf[f].name
  BY <1>1 DEF Plain
<1>3. FolderWay(TreeOf[f], b) = b
  BY <1>1, <1>2 DEF FolderWay, DropDot, DropRoot
<1>4. p = b \o <<LastOf(p)>>
  BY <1>1, ButLastAndLast
<1>5. FileWay(TreeOf[f], p) = p
  BY <1>1, <1>3, <1>4 DEF FileWay
<1> QED
  BY <1>1, <1>5 DEF HasFile

\* What a host sends for a file's way, with the folder's name in front once,
\* or twice as in the pull of a whole protected folder.
LEMMA ServesTheFile ==
  ASSUME NEW f \in Folders, Plain(f), NEW p \in TreeOf[f].files,
         curServ = OwnerOf[f],
         NEW q, q = p \/ q = <<TreeOf[f].name>> \o p
  PROVE  Serve(KindOf[f], <<TreeOf[f].name>> \o q) = {<<f, p>>}
<1> DEFINE n    == TreeOf[f].name
           path == <<n>> \o q
<1>1. n \in Names /\ p \in Seq(Names) /\ p # <<>>
  BY PlainTree DEF IsTree
<1>2. q \in Seq(Names) /\ q # <<>>
  BY <1>1, HeadTailConcat
<1>3. Head(path) = n /\ Tail(path) = q /\ Len(path) > 1
  BY <1>1, <1>2, HeadTailConcat, EmptySeq
<1>4. HasFile(TreeOf[f], q) /\ FileWay(TreeOf[f], q) = p
  <2>1. CASE q = p
    BY <2>1, FileAsItIs
  <2>2. CASE q = <<n>> \o p
    BY <1>1, <2>2, FileFromName
  <2> QED
    BY <2>1, <2>2
<1>5. ASSUME NEW g \in Folders, OwnerOf[g] = curServ, KindOf[g] = KindOf[f],
             TreeOf[g].name = n
      PROVE  g = f
  BY <1>5, HostSessionAssumption DEF HostSessionAssumption
<1> HIDE DEF path
<1>6. {g \in Folders : /\ Len(path) > 1
                       /\ OwnerOf[g] = curServ /\ KindOf[g] = KindOf[f]
                       /\ TreeOf[g].name = Head(path)
                       /\ HasFile(TreeOf[g], Tail(path))} = {f}
  BY <1>3, <1>4, <1>5
<1>7. Serve(KindOf[f], path) = {<<g, FileWay(TreeOf[g], Tail(path))>> : g \in {f}}
  BY <1>6 DEF Serve
<1>8. Serve(KindOf[f], path) = {<<f, p>>}
  BY <1>3, <1>4, <1>7
<1> QED
  BY <1>8 DEF path

-----------------------------------------------------------------------------
(* Pulling *)

\* One file of a folder that is pulled.
LEMMA FileOfPulledFolder ==
  ASSUME NEW f \in Folders, root = f, Plain(f), curServ = OwnerOf[f],
         normal = (KindOf[f] = "nf"),
         NEW way \in TreeOf[f].folders, NEW to \in Seq(Names),
         ~Hides(to, NameAt(f, way)), KindOf[f] = "nf" => way = <<>>,
         NEW p \in TreeOf[f].files, StartsWith(p, way)
  PROVE  LET n     == TreeOf[f].name
             rel   == From(p, Len(way) + 1)
             Local == to \o <<NameAt(f, way)>> \o rel
         IN  /\ (Home(f) \o way) \o rel = Home(f) \o p
             /\ LastOf(Local) = LastOf(p)
             /\ p = way \o rel /\ rel \in Seq(Names)
             /\ Serve(Kind, Prefix(<<n>> \o way)
                              \o FromFirst(Local, NameAt(f, way))) = {<<f, p>>}
<1> DEFINE n     == TreeOf[f].name
           l     == NameAt(f, way)
           rel   == From(p, Len(way) + 1)
           Local == to \o <<l>> \o rel
<1>1. /\ n \in Names /\ way \in Seq(Names) /\ p \in Seq(Names)
      /\ Home(f) \in Seq(Names) /\ KindOf[f] \in Kinds
      /\ way \notin TreeOf[f].files
  BY PlainTree DEF IsTree
<1>2. p = way \o rel
  BY <1>1, StartAndRest
<1>3. rel \in Seq(Names)
  <2>1. Len(way) + 1 \in Nat /\ Len(way) + 1 > 0
    BY <1>1, LenProperties
  <2> QED
    BY <1>1, <2>1, FromType
<1>4. rel # <<>>
  <2> SUFFICES ASSUME rel = <<>> PROVE FALSE
    OBVIOUS
  <2>1. way \o <<>> = way
    BY <1>1, ConcatEmptySeq
  <2> HIDE DEF rel
  <2> QED
    BY <1>1, <1>2, <2>1
<1>5. l \in Names
  BY <1>1, ButLastAndLast DEF NameAt
<1> HIDE DEF rel, l
<1>6. (Home(f) \o way) \o rel = Home(f) \o p
  BY <1>1, <1>2, <1>3, ConcatAssociative
<1>7. LastOf(Local) = LastOf(p)
  <2>1. to \o <<l>> \in Seq(Names)
    BY <1>5
  <2> QED
    BY <1>1, <1>2, <1>3, <1>4, <2>1, ButLastConcat
<1>8. FromFirst(Local, l) = <<l>> \o rel
  BY <1>3, <1>5, FoundWhereItStands DEF l
<1>9. Kind = KindOf[f]
  BY <1>1 DEF Kind, Kinds
<1>10. \E q : /\ q = p \/ q = <<n>> \o p
              /\ Prefix(<<n>> \o way) \o (<<l>> \o rel) = <<n>> \o q
  <2>1. CASE way = <<>>
    <3>1. l = n /\ rel = p /\ <<n>> \o way = <<n>>
      <4>1. <<>> \o rel = rel /\ <<n>> \o <<>> = <<n>>
        BY <1>1, <1>3, ConcatEmptySeq
      <4> QED
        BY <1>2, <2>1, <4>1 DEF l, NameAt
    <3>2. <<n>> \o p \in Seq(Names) /\ Len(<<n>>) = 1
      BY <1>1
    <3>3. CASE normal
      BY <3>1, <3>2, <3>3, ConcatEmptySeq DEF Prefix
    <3>4. CASE ~normal
      BY <3>1, <3>2, <3>4 DEF Prefix
    <3> QED
      BY <3>3, <3>4
  <2>2. CASE way # <<>>
    <3> DEFINE b == AllButLast(way)
    <3>1. b \in Seq(Names) /\ way = b \o <<l>>
      BY <1>1, <2>2, ButLastAndLast DEF l, NameAt
    <3>2. AllButLast(<<n>> \o way) = <<n>> \o b
      <4>1. <<n>> \in Seq(Names)
        BY <1>1
      <4> QED
        BY <1>1, <2>2, <4>1, ButLastConcat
    <3>3. ~normal
      BY <2>2
    <3>4. Len(<<n>> \o way) # 1
      BY <1>1, <2>2, HeadTailConcat, EmptySeq
    <3>5. Prefix(<<n>> \o way) = <<n>> \o b
      BY <3>2, <3>3, <3>4 DEF Prefix
    <3> HIDE DEF b
    <3>6. (<<n>> \o b) \o (<<l>> \o rel) = <<n>> \o p
      <4>1. /\ <<n>> \in Seq(Names) /\ <<l>> \in Seq(Names)
            /\ <<l>> \o rel \in Seq(Names)
        BY <1>1, <1>3, <1>5
      <4>2. (<<n>> \o b) \o (<<l>> \o rel) = <<n>> \o (b \o (<<l>> \o rel))
        BY <3>1, <4>1, ConcatAssociative
      <4>3. b \o (<<l>> \o rel) = (b \o <<l>>) \o rel
        BY <1>3, <3>1, <4>1, ConcatAssociative
      <4> QED
        BY <1>2, <3>1, <4>2, <4>3
    <3> QED
      BY <3>5, <3>6
  <2> QED
    BY <2>1, <2>2
<1>11. Serve(Kind, Prefix(<<n>> \o way) \o FromFirst(Local, l)) = {<<f, p>>}
  <2>1. PICK q : /\ q = p \/ q = <<n>> \o p
                 /\ Prefix(<<n>> \o way) \o (<<l>> \o rel) = <<n>> \o q
    BY <1>10
  <2>2. Serve(KindOf[f], <<n>> \o q) = {<<f, p>>}
    BY <2>1, ServesTheFile
  <2> QED
    BY <1>8, <1>9, <2>1, <2>2
<1> QED
  BY <1>2, <1>3, <1>6, <1>7, <1>11 DEF rel, l

\* A whole pull, of the path from the root's name on.
LEMMA PulledIsNamed ==
  ASSUME NEW f \in Folders, root = f, Plain(f), curServ = OwnerOf[f],
         normal = (KindOf[f] = "nf"),
         NEW way \in Seq(Names), NEW to \in Seq(Names),
         way \in TreeOf[f].folders =>
           ~Hides(to, NameAt(f, way)) /\ (KindOf[f] = "nf" => way = <<>>)
  PROVE  LET S   == Pulled(Home(f) \o way, <<TreeOf[f].name>> \o way, to)
             got == UNION {s.got : s \in S}
         IN  /\ AsNamed(S)
             /\ \/ got = {}
                \/ /\ way \in TreeOf[f].folders \cup TreeOf[f].files
                   /\ got = {f} \X Stages!FilesAt(f, way)
<1> DEFINE n   == TreeOf[f].name
           pth == <<n>> \o way
           S   == Pulled(Home(f) \o way, pth, to)
           got == UNION {s.got : s \in S}
<1>1. /\ n \in Names /\ Home(f) \in Seq(Names) /\ KindOf[f] \in Kinds
      /\ TreeOf[f].folders \cap TreeOf[f].files = {}
  BY PlainTree DEF IsTree
<1>2. Tree = TreeOf[f]
  BY HostSessionAssumption DEF HostSessionAssumption, Tree
<1>3. HasFile(TreeOf[f], pth) <=> way \in TreeOf[f].files
  BY FileFromName
<1>4. FolderWay(TreeOf[f], pth) = way
  BY WayFromName
<1>5. CASE way \in TreeOf[f].files
  <2> DEFINE at == to \o <<LastOf(pth)>>
  <2>1. S = {Asked(Home(f) \o way, at, pth)}
    <3>1. ~EndsOpen(pth)
      BY <1>1, HeadTailConcat, NamesOnly
    <3> QED
      BY <1>2, <1>3, <1>5, <3>1 DEF Pulled, PulledFile, FileName
  <2>2. Serve(Kind, pth) = {<<f, way>>}
    <3>1. Kind = KindOf[f]
      BY <1>1 DEF Kind, Kinds
    <3> QED
      BY <1>5, <3>1, ServesTheFile
  <2>3. LastOf(at) = LastOf(way)
    <3>1. way # <<>>
      BY <1>5, PlainTree DEF IsTree
    <3>2. <<n>> \in Seq(Names)
      BY <1>1
    <3>3. LastOf(pth) = LastOf(way) /\ LastOf(way) \in Names
      BY <3>1, <3>2, ButLastConcat, ButLastAndLast
    <3> QED
      BY <3>3, ButLastOfAppended
  <2> HIDE DEF pth, at
  <2>4. S = {[from |-> Home(f) \o way, at |-> at, got |-> {<<f, way>>}]}
    BY <2>1, <2>2 DEF Asked
  <2> HIDE DEF S
  <2>5. AsNamed(S)
    BY SMTT(30), <1>5, <2>3, <2>4 DEF AsNamed
  <2>6. got = {<<f, way>>}
    BY <2>4
  <2>7. Stages!FilesAt(f, way) = {way}
    BY <1>5 DEF Stages!FilesAt
  <2>8. got = {f} \X Stages!FilesAt(f, way)
    BY <2>6, <2>7
  <2> QED
    BY <1>5, <2>5, <2>8 DEF S, pth
<1>6. CASE way \in TreeOf[f].folders
  <2> DEFINE Rel(p)   == From(p, Len(way) + 1)
             l        == NameAt(f, way)
             Local(p) == to \o <<l>> \o Rel(p)
             A(p)     == Asked((Home(f) \o way) \o Rel(p), Local(p),
                               Prefix(pth) \o FromFirst(Local(p), l))
             F        == {p \in TreeOf[f].files : StartsWith(p, way)}
  <2>1. S = {A(p) : p \in F}
    <3>1. ~HasFile(Tree, pth) /\ HasFolder(Tree, pth)
      BY <1>1, <1>2, <1>3, <1>4, <1>6 DEF HasFolder
    <3>2. S = PulledFolder(Home(f) \o way, pth, to)
      BY <3>1 DEF Pulled
    <3> HIDE DEF pth
    <3> QED
      BY <1>2, <1>4, <3>2 DEF PulledFolder, NameAt
  <2>2. ASSUME NEW p \in F
        PROVE  /\ A(p).from = Home(f) \o p /\ A(p).got = {<<f, p>>}
               /\ A(p).at = Local(p) /\ LastOf(Local(p)) = LastOf(p)
               /\ p = way \o Rel(p) /\ Rel(p) \in Seq(Names)
    <3>1. /\ (Home(f) \o way) \o Rel(p) = Home(f) \o p
          /\ LastOf(Local(p)) = LastOf(p)
          /\ p = way \o Rel(p) /\ Rel(p) \in Seq(Names)
          /\ Serve(Kind, Prefix(pth) \o FromFirst(Local(p), l)) = {<<f, p>>}
      <4>1. p \in TreeOf[f].files /\ StartsWith(p, way)
        OBVIOUS
      <4>2. ~Hides(to, NameAt(f, way)) /\ (KindOf[f] = "nf" => way = <<>>)
        BY <1>6
      <4> HIDE DEF F, S, got, A
      <4>3. p = way \o Rel(p)
        BY <1>6, <4>1, PlainTree, StartAndRest
      <4>4. (Home(f) \o way) \o Rel(p) = Home(f) \o p
        BY ZenonT(60), <1>6, <4>1, <4>2, FileOfPulledFolder
      <4>5. LastOf(Local(p)) = LastOf(p)
        BY <1>6, <4>1, <4>2, FileOfPulledFolder
      <4>6. Rel(p) \in Seq(Names)
        BY <1>6, <4>1, <4>2, FileOfPulledFolder
      <4>7. Serve(Kind, Prefix(pth) \o FromFirst(Local(p), l)) = {<<f, p>>}
        BY <1>6, <4>1, <4>2, FileOfPulledFolder
      <4> QED
        BY <4>3, <4>4, <4>5, <4>6, <4>7
    <3> HIDE DEF Rel, Local, pth, l
    <3> QED
      BY <3>1 DEF Asked
  <2>3. ASSUME NEW p \in F, NEW q \in F, Local(p) = Local(q)
        PROVE  p = q
    <3>1. to \o <<l>> \in Seq(Names)
      <4>1. l \in Names
        BY <1>1, ButLastAndLast DEF NameAt
      <4> HIDE DEF l
      <4> QED
        BY <4>1
    <3>2. Rel(p) \in Seq(Names) /\ Rel(q) \in Seq(Names)
      BY <2>2
    <3>3. Rel(p) = Rel(q)
      <4> HIDE DEF l, Rel
      <4> QED
        BY <2>3, <3>1, <3>2, ConcatSimplifications
    <3> QED
      BY <2>2, <3>3
  <2> HIDE DEF A, Local, Rel, S
  <2>4. AsNamed(S)
    <3>1. ASSUME NEW s \in S
          PROVE  \E p \in TreeOf[f].files :
                   /\ s.from = Home(f) \o p /\ s.got = {<<f, p>>}
                   /\ LastOf(s.at) = LastOf(p)
      <4>1. PICK p \in F : s = A(p)
        BY <2>1
      <4> QED
        BY <2>2, <4>1
    <3>2. ASSUME NEW s \in S, NEW t \in S, s.at = t.at
          PROVE  s = t
      <4>1. PICK p \in F : s = A(p)
        BY <2>1
      <4>2. PICK q \in F : t = A(q)
        BY <2>1
      <4>3. Local(p) = Local(q)
        BY <2>2, <3>2, <4>1, <4>2
      <4> QED
        BY <2>3, <4>1, <4>2, <4>3
    <3> QED
      BY <3>1, <3>2 DEF AsNamed
  <2>5. got = {<<f, p>> : p \in F}
    BY <2>1, <2>2
  <2>6. Stages!FilesAt(f, way) = F
    BY <1>1, <1>6 DEF Stages!FilesAt, Stages!StartsWith, StartsWith
  <2>7. got = {f} \X Stages!FilesAt(f, way)
    BY <2>5, <2>6
  <2> QED
    BY <1>6, <2>4, <2>7 DEF S
<1>7. CASE way \notin TreeOf[f].files /\ way \notin TreeOf[f].folders
  <2>1. S = {}
    BY <1>2, <1>3, <1>4, <1>7 DEF Pulled, HasFolder
  <2> HIDE DEF S
  <2>2. AsNamed(S) /\ got = {}
    BY <2>1 DEF AsNamed
  <2> QED
    BY <2>2 DEF S
<1> QED
  BY <1>5, <1>6, <1>7

-----------------------------------------------------------------------------
(* What one step does *)

\* A path within a folder is its root's path and a way, and the code finds the
\* way from the root's name.
LEMMA PathWithin ==
  ASSUME NEW f \in Folders, Plain(f), NEW path \in Seq(Names),
         StartsWith(path, Home(f))
  PROVE  /\ Below(path) \in Seq(Names)
         /\ path = Home(f) \o Below(path)
         /\ BeginsIn(path, TreeOf[f].name) # {}
         /\ FromFirst(path, TreeOf[f].name) = <<TreeOf[f].name>> \o Below(path)
<1> DEFINE n == TreeOf[f].name
           h == HostDir(OwnerOf[f])
           w == Below(path)
<1>1. /\ n \in Names /\ h \in Seq(Names) /\ Home(f) \in Seq(Names)
      /\ Len(Home(f)) = 3 /\ ~Hides(h, n)
  BY PlainTree DEF Plain
<1>2. path = Home(f) \o w
  <2>1. path = Home(f) \o From(path, Len(Home(f)) + 1)
    BY <1>1, StartAndRest
  <2>2. Len(Home(f)) + 1 = 4
    BY <1>1
  <2> QED
    BY <2>1, <2>2 DEF Below
<1>3. w \in Seq(Names)
  BY FromType DEF Below
<1>4. Home(f) = h \o <<n>>
  BY DEF Home
<1> HIDE DEF h, w
<1>5. /\ BeginsIn(h \o <<n>> \o w, n) # {}
      /\ FromFirst(h \o <<n>> \o w, n) = <<n>> \o w
  BY <1>1, <1>3, FoundWhereItStands
<1> QED
  BY <1>2, <1>3, <1>4, <1>5 DEF w

\* Where an open folder's user is.
LEMMA WhereInside ==
  ASSUME SessionAgrees, root # NoRoot
  PROVE  /\ root \in Folders /\ root # EmptyRoot /\ Plain(root)
         /\ curServ = OwnerOf[root] /\ curServ # NoHost
         /\ suffix = "-fsa" /\ shown = dir
         /\ normal = (KindOf[root] = "nf") /\ Tree = TreeOf[root]
         /\ StartsWith(dir, Home(root)) /\ dir \in Seq(Names)
         /\ Below(dir) \in TreeOf[root].folders
         /\ dir = Home(root) \o Below(dir)
<1>1. /\ root \in Folders /\ root # EmptyRoot /\ Plain(root)
      /\ suffix = "-fsa" /\ shown = dir /\ curServ = OwnerOf[root]
      /\ curServ # NoHost /\ normal = (KindOf[root] = "nf")
  BY HostSessionAssumption DEF SessionAgrees, HostSessionAssumption
<1>2. PICK way \in TreeOf[root].folders : dir = Home(root) \o way
  BY DEF SessionAgrees
<1>3. /\ way \in Seq(Names) /\ Home(root) \in Seq(Names)
      /\ Len(Home(root)) = 3
  BY <1>1, <1>2, PlainTree
<1>4. Below(dir) = way
  <2>1. From(Home(root) \o way, Len(Home(root)) + 1) = way
    BY <1>3, FromConcat
  <2>2. Len(Home(root)) + 1 = 4
    BY <1>3
  <2> QED
    BY <1>2, <2>1, <2>2 DEF Below
<1>5. dir \in Seq(Names) /\ StartsWith(dir, Home(root))
  <2> DEFINE h == Home(root)
  <2>1. h \in Seq(Names) /\ Len(h) = 3 /\ dir = h \o way
    BY <1>2, <1>3
  <2> HIDE DEF h
  <2>2. dir \in Seq(Names) /\ Len(dir) = 3 + Len(way) /\ Len(way) \in Nat
    <3>1. h \o way \in Seq(Names) /\ Len(h \o way) = Len(h) + Len(way)
      BY <1>3, <2>1, ConcatProperties
    <3> QED
      BY <1>3, <2>1, <3>1, LenProperties
  <2>3. SubSeq(dir, 1, 3) = SubSeq(h, 1, 3)
    <3>1. 1 \in 1 .. Len(h) /\ 3 \in 1 .. Len(h)
      BY <2>1
    <3> QED
      BY <1>3, <2>1, <3>1, SubSeqOfConcat1
  <2>4. SubSeq(h, 1, 3) = h
    BY <2>1, SubSeqFull
  <2> QED
    BY <2>1, <2>2, <2>3, <2>4 DEF StartsWith, h
<1> QED
  BY <1>1, <1>2, <1>4, <1>5 DEF Tree

\* A careful pull of a path.
LEMMA CarefulPullIsNamed ==
  ASSUME SessionAgrees, NEW path \in Seq(Names), NEW to \in LocalDirs,
         CarefulPull(path, to)
  PROVE  LET S   == Pulled(path, <<TreeOf[root].name>> \o Below(path), to)
             got == UNION {s.got : s \in S}
         IN  /\ AsNamed(S)
             /\ \/ got = {}
                \/ \E way \in TreeOf[root].folders \cup TreeOf[root].files :
                     got = {root} \X Stages!FilesAt(root, way)
<1>1. /\ root \in Folders /\ Plain(root) /\ curServ = OwnerOf[root]
      /\ normal = (KindOf[root] = "nf")
  BY WhereInside DEF CarefulPull
<1>2. Below(path) \in Seq(Names) /\ path = Home(root) \o Below(path)
  BY <1>1, PathWithin DEF CarefulPull
<1>3. Below(path) \in TreeOf[root].folders =>
        /\ ~Hides(to, NameAt(root, Below(path)))
        /\ KindOf[root] = "nf" => Below(path) = <<>>
  BY DEF CarefulPull
<1>4. to \in Seq(Names)
  BY HostSessionAssumption DEF HostSessionAssumption
<1> DEFINE w == Below(path)
           S == Pulled(Home(root) \o w, <<TreeOf[root].name>> \o w, to)
           got == UNION {s.got : s \in S}
<1>5. /\ AsNamed(S)
      /\ \/ got = {}
         \/ /\ w \in TreeOf[root].folders \cup TreeOf[root].files
            /\ got = {root} \X Stages!FilesAt(root, w)
  BY <1>1, <1>2, <1>3, <1>4, PulledIsNamed
<1> QED
  BY <1>2, <1>5

\* Both kinds of pull leave what was named, and fetch a file or a folder.
LEMMA PullKeepsPromise ==
  ASSUME SessionAgrees,
         \/ \E rel \in Typed, to \in LocalDirs :
              CarefulPull(CombinePath(dir, Param(rel)), to) /\ PullPath(rel, to)
         \/ CarefulPull(Home(root), local) /\ PullAll
  PROVE  /\ SavedAsNamed'
         /\ \/ UNION {s.got : s \in saved'} = {}
            \/ \E way \in TreeOf[root].folders \cup TreeOf[root].files :
                 UNION {s.got : s \in saved'}
                   = {root} \X Stages!FilesAt(root, way)
<1> DEFINE Promise(S) ==
      /\ AsNamed(S)
      /\ \/ UNION {s.got : s \in S} = {}
         \/ \E way \in TreeOf[root].folders \cup TreeOf[root].files :
              UNION {s.got : s \in S} = {root} \X Stages!FilesAt(root, way)
<1>1. ASSUME NEW path \in Seq(Names), NEW to \in LocalDirs,
             CarefulPull(path, to)
      PROVE  Promise(Pulled(path, <<TreeOf[root].name>> \o Below(path), to))
  BY <1>1, CarefulPullIsNamed
<1> HIDE DEF Promise
<1>2. ASSUME NEW rel \in Typed, NEW to \in LocalDirs,
             CarefulPull(CombinePath(dir, Param(rel)), to), PullPath(rel, to)
      PROVE  Promise(saved')
  <2> DEFINE path == CombinePath(dir, Param(rel))
  <2>1. /\ root # NoRoot /\ root \in Folders /\ root # EmptyRoot /\ Plain(root)
        /\ Tree = TreeOf[root]
    BY <1>2, WhereInside DEF CarefulPull, PullPath
  <2>2. path \in Seq(Names)
    BY <1>2 DEF CarefulPull
  <2> HIDE DEF path
  <2>3. /\ BeginsIn(path, TreeOf[root].name) # {}
        /\ FromFirst(path, TreeOf[root].name)
             = <<TreeOf[root].name>> \o Below(path)
    BY <1>2, <2>1, <2>2, PathWithin DEF CarefulPull, path
  <2>4. saved' = Pulled(path, FromFirst(path, Tree.name), to)
    BY <1>2, <2>1, <2>3 DEF PullPath, NamesRoot, path
  <2>5. CarefulPull(path, to)
    BY <1>2 DEF path
  <2> QED
    BY <1>1, <2>1, <2>2, <2>3, <2>4, <2>5
<1>3. ASSUME CarefulPull(Home(root), local), PullAll
      PROVE  Promise(saved')
  <2>1. /\ root # NoRoot /\ root \in Folders /\ root # EmptyRoot /\ Plain(root)
        /\ Tree = TreeOf[root] /\ curServ = OwnerOf[root]
        /\ local \in LocalDirs
    BY <1>3, WhereInside DEF CarefulPull, SessionAgrees
  <2>2. Home(root) \in Seq(Names) /\ TreeOf[root].name \in Names
        /\ Len(Home(root)) = 3
    BY <2>1, PlainTree
  <2>3. <<TreeOf[root].name>> \o Below(Home(root)) = <<TreeOf[root].name>>
    <3>1. Below(Home(root)) = <<>>
      BY <2>2, SubSeqEmpty DEF Below, From
    <3> QED
      BY <2>2, <3>1, ConcatEmptySeq
  <2>4. saved' = Pulled(Home(root), <<TreeOf[root].name>>, local)
    BY <1>3, <2>1 DEF PullAll, Home
  <2> QED
    BY <1>1, <1>3, <2>1, <2>2, <2>3, <2>4
<1>4. Promise(saved')
  BY <1>2, <1>3
<1> QED
  BY <1>4 DEF Promise, SavedAsNamed

\* Going up from a folder of an open root leads to the folder above, or from
\* the root nowhere.
LEMMA UpKeepsWithin ==
  ASSUME SessionAgrees, Cd(Relative(1, <<Nothing>>))
  PROVE  /\ UNCHANGED <<local, suffix, curServ, root, normal, saved, alive>>
         /\ shown' = dir'
         /\ \/ dir' = dir
            \/ /\ root # NoRoot
               /\ \E way \in TreeOf[root].folders : dir' = Home(root) \o way
<1> DEFINE rel  == Relative(1, <<Nothing>>)
           path == Popped(CombinePath(dir, rel))
<1>1. rel.ups = 1 /\ rel.down = <<Nothing>>
  BY DEF Relative
<1>2. suffix = "-fsa" /\ curServ \in Hosts /\ PlainHost(curServ) /\ shown = dir
  BY DEF Cd, Inside, SessionAgrees
<1>3. FS \in Names /\ NameOfHost[curServ] \in Names
  BY <1>2, HostSessionAssumption DEF HostSessionAssumption
<1>4. UNCHANGED <<local, suffix, curServ, root, normal, saved>>
  BY DEF Cd
<1>5. CASE root = NoRoot
  <2>1. dir = <<FS, NameOfHost[curServ]>>
    BY <1>2, <1>5 DEF SessionAgrees, HostDir
  <2>2. path = <<FS>>
    <3>1. dir \in Seq(Names) /\ Len(dir) = 2 /\ dir[1] = FS
      BY <1>3, <2>1
    <3>2. /\ SubSeq(dir, 1, 1) \in Seq(Names) /\ Len(SubSeq(dir, 1, 1)) = 1
          /\ SubSeq(dir, 1, 1)[1] = FS
      BY <1>3, <3>1
    <3>3. <<FS>> \in Seq(Names) /\ Len(<<FS>>) = 1 /\ <<FS>>[1] = FS
      BY <1>3
    <3>4. SubSeq(dir, 1, 1) = <<FS>>
      <4> DEFINE s == SubSeq(dir, 1, 1)
                 t == <<FS>>
      <4>1. /\ s \in Seq(Names) /\ t \in Seq(Names) /\ Len(s) = Len(t)
            /\ \A i \in 1 .. Len(s) : s[i] = t[i]
        BY <3>2, <3>3
      <4> HIDE DEF s, t
      <4>2. s = t
        BY <4>1, SeqEqual
      <4> QED
        BY <4>2 DEF s, t
    <3>5. path = SubSeq(dir, 1, 1)
      <4>1. path = AllButLast(dir)
        BY <3>1, UpTakesOneOff
      <4> HIDE DEF path
      <4> QED
        BY <3>1, <4>1 DEF AllButLast
    <3> QED
      BY <3>4, <3>5
  <2>3. BeginsIn(path, NameOfHost[curServ]) = {}
    BY <1>2, <2>2 DEF PlainHost, Hides
  <2> HIDE DEF path
  <2>4. shown' = dir /\ UNCHANGED <<dir, alive>>
    BY <2>3 DEF Cd, path
  <2> QED
    BY <1>4, <2>4
<1>6. CASE root # NoRoot
  <2> DEFINE way == Below(dir)
             h   == HostDir(OwnerOf[root])
             n   == TreeOf[root].name
  <2>1. /\ root \in Folders /\ root # EmptyRoot /\ Plain(root)
        /\ curServ = OwnerOf[root] /\ Tree = TreeOf[root]
        /\ dir \in Seq(Names) /\ way \in TreeOf[root].folders
        /\ dir = Home(root) \o way
    BY <1>6, WhereInside
  <2>2. /\ h \in Seq(Names) /\ n \in Names /\ way \in Seq(Names)
        /\ <<n>> \in Seq(Names) /\ h # <<>>
        /\ <<>> \in TreeOf[root].folders /\ n # Upward
    BY <1>3, <2>1, PlainTree DEF IsTree, HostDir
  <2>3. dir = h \o (<<n>> \o way) /\ <<n>> \o way # <<>>
        /\ <<n>> \o way \in Seq(Names)
    <3> HIDE DEF h, way
    <3>1. dir = (h \o <<n>>) \o way
      BY <2>1 DEF Home, h
    <3> QED
      BY <2>2, <3>1, ConcatAssociative, HeadTailConcat
  <2>4. AllButLast(dir) = h \o AllButLast(<<n>> \o way)
    <3> HIDE DEF h, way
    <3> QED
      BY <2>2, <2>3, ButLastConcat
  <2>5. path = AllButLast(dir)
    <3>1. dir # <<>> /\ Len(dir) \in Nat /\ Len(dir) > 1
      <4>1. Len(dir) = Len(h) + Len(<<n>> \o way) /\ Len(h) > 0
            /\ Len(<<n>> \o way) > 0 /\ Len(h) \in Nat
            /\ Len(<<n>> \o way) \in Nat
        <5> HIDE DEF h, way
        <5> QED
          BY <2>2, <2>3, ConcatProperties, EmptySeq
      <4> QED
        BY <2>1, <4>1, EmptySeq
    <3> QED
      BY <2>1, <3>1, UpTakesOneOff
  <2>6. /\ BeginsIn(path, NameOfHost[curServ]) # {}
    <3> DEFINE rest == AllButLast(<<n>> \o way)
    <3>1. rest \in Seq(Names)
      BY <2>3, ButLastAndLast
    <3>2. path = h \o rest
      BY <2>4, <2>5
    <3>3. h = <<FS, NameOfHost[curServ]>>
      BY <2>1 DEF HostDir
    <3>4. 2 \in DOMAIN path /\ path[2] = NameOfHost[curServ]
      <4> HIDE DEF rest, path
      <4> QED
        BY <1>3, <3>1, <3>2, <3>3, LenProperties
    <3> QED
      BY <1>3, <3>4, FolderTreeAssumption DEF BeginsIn, FolderTreeAssumption
  <2>7. HasFolder(TreeOf[root], Written(rel))
    <3>2. Split(Written(rel)) = <<Upward>>
      BY UpAlone
    <3>3. DropDot(<<Upward>>) = <<>>
      BY FolderTreeAssumption DEF DropDot, FolderTreeAssumption
    <3>4. FolderWay(TreeOf[root], Written(rel)) = <<>>
      BY <3>2, <3>3 DEF FolderWay, DropRoot
    <3> QED
      BY <2>2, <3>4 DEF HasFolder
  <2>8. Moves(path) /\ UNCHANGED alive
    <3> HIDE DEF path
    <3> QED
      BY <1>6, <2>1, <2>6, <2>7 DEF Cd, path
  <2>9. CASE way = <<>>
    <3>1. path = h
      <4>1. <<n>> \o way = <<>> \o <<n>> /\ <<>> \in Seq(Names)
        BY <2>2, <2>9, ConcatEmptySeq
      <4>2. AllButLast(<<n>> \o way) = <<>>
        BY <2>2, <4>1, ButLastOfAppended
      <4> HIDE DEF h
      <4> QED
        BY <2>2, <2>4, <2>5, <4>2, ConcatEmptySeq
    <3>2. BeginsIn(path, n) = {}
      BY <2>1, <3>1 DEF Plain, Hides
    <3> HIDE DEF path
    <3>3. shown' = dir /\ UNCHANGED dir
      BY <2>1, <2>8, <3>2 DEF Moves, NamesRoot
    <3> QED
      BY <1>4, <2>8, <3>3
  <2>10. CASE way # <<>>
    <3> DEFINE up == AllButLast(way)
    <3>1. up \in TreeOf[root].folders
      BY <2>1, <2>10, PlainTree DEF IsTree
    <3>2. path = Home(root) \o up
      <4>1. AllButLast(<<n>> \o way) = <<n>> \o up
        BY <2>2, <2>10, ButLastConcat
      <4>2. up \in Seq(Names)
        BY <2>2, <2>10, ButLastAndLast
      <4> HIDE DEF h, up
      <4>3. path = h \o (<<n>> \o up)
        BY <2>4, <2>5, <4>1
      <4>4. h \o (<<n>> \o up) = (h \o <<n>>) \o up
        BY SMTT(30), <2>2, <4>2, ConcatAssociative
      <4> QED
        BY <4>3, <4>4 DEF h, Home
    <3>3. (dir' = path /\ shown' = path) \/ (shown' = dir /\ UNCHANGED dir)
      BY <2>8 DEF Moves
    <3> HIDE DEF path
    <3> QED
      BY <1>4, <1>6, <2>8, <3>1, <3>2, <3>3
  <2> QED
    BY <2>9, <2>10
<1> QED
  BY <1>5, <1>6

\* Going down from the root leads to the folder that was named.
LEMMA DownKeepsWithin ==
  ASSUME SessionAgrees, NEW rel \in Typed, CarefulDown(rel), Cd(rel)
  PROVE  /\ UNCHANGED <<local, suffix, curServ, root, normal, saved, alive>>
         /\ shown' = dir'
         /\ \/ dir' = dir
            \/ /\ root # NoRoot
               /\ \E way \in TreeOf[root].folders : dir' = Home(root) \o way
<1> DEFINE path == Popped(CombinePath(dir, rel))
           w    == rel.down
<1>1. /\ root \in Folders /\ root # EmptyRoot /\ Plain(root) /\ root # NoRoot
      /\ curServ = OwnerOf[root] /\ Tree = TreeOf[root] /\ shown = dir
      /\ dir = Home(root) /\ w \in TreeOf[root].folders /\ rel.ups = 0
  BY WhereInside DEF CarefulDown
<1>2. /\ w \in Seq(Names)
      /\ Home(root) \in Seq(Names) /\ Len(Home(root)) = 3
      /\ Upward \in Dotted
  BY <1>1, PlainTree, FolderTreeAssumption DEF FolderTreeAssumption
<1>3. path = Home(root) \o w
  <2>1. SubSeq(dir, 1, 3) = dir /\ Popped(dir) = dir
    BY <1>1, <1>2, SubSeqFull, NamesOnly
  <2>2. CombinePath(dir, rel) = IF w = <<>> THEN dir ELSE dir \o w
    <3>1. (IF rel.ups < Len(dir) THEN Len(dir) - rel.ups ELSE 1) = 3
      BY <1>1, <1>2
    <3> QED
      BY <2>1, <3>1 DEF CombinePath, w
  <2>3. CombinePath(dir, rel) = Home(root) \o w
    BY <1>1, <1>2, <2>2, ConcatEmptySeq
  <2> QED
    BY <1>2, <2>3, ConcatProperties, NamesOnly
<1> HIDE DEF w, path
<1>4. Written(rel) = w
  <2>1. [i \in 1 .. 0 |-> Upward] = <<>>
    OBVIOUS
  <2>2. Written(rel) = <<>> \o w
    BY <1>1, <2>1 DEF Written, w
  <2> QED
    BY <1>2, <2>2, ConcatEmptySeq
<1>5. HasFolder(TreeOf[root], w)
  BY <1>1, <1>2, NamesOnly
  DEF Plain, HasFolder, FolderWay, DropDot, DropRoot
<1>6. UNCHANGED <<local, suffix, curServ, root, normal, saved>>
  BY DEF Cd
<1>7. /\ (shown' = dir /\ UNCHANGED dir) \/ Moves(path)
      /\ UNCHANGED alive
  BY <1>1, <1>4, <1>5 DEF Cd, path
<1>8. shown' = dir' /\ (dir' = dir \/ dir' = path)
  BY <1>7 DEF Moves
<1>9. shown' = dir' /\ (dir' = dir \/ dir' = Home(root) \o w)
  BY <1>3, <1>8
<1>10. w \in TreeOf[root].folders
  BY <1>1 DEF w
<1> QED
  BY <1>1, <1>6, <1>7, <1>9, <1>10

-----------------------------------------------------------------------------
(* Where the session is *)

LEMMA SessionInit == Init => SessionAgrees
BY HostSessionAssumption DEF Init, SessionAgrees, HostSessionAssumption

\* The one action that opens a folder: the host's directory becomes the root's.
LEMMA OpenedAgrees ==
  ASSUME SessionAgrees, NEW f \in Folders, root = NoRoot, Plain(f),
         AccessFolder(f)
  PROVE  SessionAgrees'
<1>1. /\ f # NoRoot /\ curServ = OwnerOf[f] /\ suffix = "-fsa"
      /\ curServ \in Hosts /\ dir = HostDir(curServ)
  BY HostSessionAssumption
  DEF SessionAgrees, AccessFolder, Access, Inside, HostSessionAssumption
<1>2. /\ root' = f /\ dir' = Append(dir, TreeOf[f].name) /\ shown' = dir'
      /\ normal' = (KindOf[f] = "nf")
      /\ UNCHANGED <<local, suffix, curServ, saved, alive>>
  BY DEF AccessFolder, Access, Opened
<1>3. dir' = Home(f) \o <<>> /\ <<>> \in TreeOf[f].folders
  <2>1. dir \in Seq(Names) /\ TreeOf[f].name \in Names
        /\ Home(f) \in Seq(Names) /\ <<>> \in TreeOf[f].folders
    BY <1>1, PlainTree DEF IsTree
  <2>2. Append(dir, TreeOf[f].name) = dir \o <<TreeOf[f].name>>
    BY <2>1
  <2>3. dir' = Home(f)
    BY <1>1, <1>2, <2>2 DEF Home
  <2> QED
    BY <2>1, <2>3, ConcatEmptySeq
<1>4. \E way \in TreeOf[f].folders : dir' = Home(f) \o way
  BY <1>3
<1> QED
  BY <1>1, <1>2, <1>4 DEF SessionAgrees, Plain, PlainHost, Home, HostDir, Hides

\* One step per action.
LEMMA SessionStep ==
  ASSUME SessionAgrees, [CarefulNext]_vars
  PROVE  SessionAgrees'
<1>1. ASSUME NEW d \in LocalDirs, suffix = "", ChangeDirectory(d)
      PROVE  SessionAgrees'
  BY <1>1 DEF SessionAgrees, ChangeDirectory, where
<1>2. ASSUME NEW h \in Hosts, PlainHost(h), Goto(h)
      PROVE  SessionAgrees'
  BY <1>2 DEF SessionAgrees, Goto, Outside
<1>3. ASSUME Leave(TRUE)
      PROVE  SessionAgrees'
  BY <1>3 DEF SessionAgrees, Leave, Inside
<1>4. ASSUME NEW f \in Folders, root = NoRoot, Plain(f), AccessFolder(f)
      PROVE  SessionAgrees'
  BY <1>4, OpenedAgrees
<1>5. ASSUME NEW kind \in Kinds, root = NoRoot, AccessNone(kind)
      PROVE  SessionAgrees'
  BY <1>5 DEF SessionAgrees, AccessNone, Access, Inside
<1>6. ASSUME root = NoRoot \/ ~normal, AskPassword
      PROVE  SessionAgrees'
  BY <1>6 DEF SessionAgrees, AskPassword, Inside
<1>7. ASSUME Cd(Relative(1, <<Nothing>>))
      PROVE  SessionAgrees'
  <2>1. suffix = "-fsa" /\ shown = dir
    BY <1>7 DEF Cd, Inside, SessionAgrees
  <2> QED
    BY <1>7, <2>1, UpKeepsWithin DEF SessionAgrees
<1>8. ASSUME NEW rel \in Typed, CarefulDown(rel), Cd(rel)
      PROVE  SessionAgrees'
  <2>1. suffix = "-fsa" /\ shown = dir
    BY <1>8 DEF Cd, Inside, SessionAgrees
  <2> QED
    BY <1>8, <2>1, DownKeepsWithin DEF SessionAgrees
<1>9. ASSUME NEW rel \in Typed, NEW to \in LocalDirs, PullPath(rel, to)
      PROVE  SessionAgrees'
  BY <1>9 DEF SessionAgrees, PullPath, where
<1>10. ASSUME PullAll
       PROVE  SessionAgrees'
  BY <1>10 DEF SessionAgrees, PullAll, where
<1>11. ASSUME Close
       PROVE  SessionAgrees'
  BY <1>11 DEF SessionAgrees, Close, Inside
<1>12. ASSUME Quit
       PROVE  SessionAgrees'
  BY <1>12 DEF SessionAgrees, Quit, Outside, where
<1>13. ASSUME UNCHANGED vars
       PROVE  SessionAgrees'
  BY <1>13 DEF SessionAgrees, vars, where
<1> QED
  BY <1>1, <1>2, <1>3, <1>4, <1>5, <1>6, <1>7, <1>8, <1>9, <1>10, <1>11,
     <1>12, <1>13 DEF CarefulNext

\* The folder, the directory, the kind, and what the console shows fit
\* together, for any hosts, folders and names.
THEOREM SessionAlwaysAgrees == CarefulSpec => []SessionAgrees
<1>1. SessionAgrees /\ [CarefulNext]_vars => SessionAgrees'
  BY SessionStep
<1> QED
  BY SessionInit, <1>1, PTL DEF CarefulSpec

-----------------------------------------------------------------------------
(* What is pulled is what was named *)

LEMMA SavedStep ==
  ASSUME SessionAgrees, SavedAsNamed, [CarefulNext]_vars
  PROVE  SavedAsNamed'
<1>1. CASE UNCHANGED saved
  BY <1>1 DEF SavedAsNamed, AsNamed
<1>2. ASSUME NEW rel \in Typed, NEW to \in LocalDirs,
             CarefulPull(CombinePath(dir, Param(rel)), to), PullPath(rel, to)
      PROVE  SavedAsNamed'
  BY <1>2, PullKeepsPromise
<1>3. ASSUME CarefulPull(Home(root), local), PullAll
      PROVE  SavedAsNamed'
  BY <1>3, PullKeepsPromise
<1>4. ASSUME NEW rel \in Typed, Cd(rel) \/ Cd(Relative(1, <<Nothing>>))
      PROVE  UNCHANGED saved
  BY <1>4 DEF Cd
<1>5. ASSUME Cd(Relative(1, <<Nothing>>))
      PROVE  UNCHANGED saved
  BY <1>5 DEF Cd
<1> QED
  BY <1>1, <1>2, <1>3, <1>4, <1>5
  DEF CarefulNext, ChangeDirectory, Goto, Leave, AccessFolder, AccessNone,
      AskPassword, Close, Quit, vars

\* A careful user's pull saves exactly the files that its path names, each in
\* a place of its own.
THEOREM PullsAreAsNamed == CarefulSpec => []SavedAsNamed
<1>1. Init => SessionAgrees /\ SavedAsNamed
  BY SessionInit DEF Init, SavedAsNamed, AsNamed
<1>2. SessionAgrees /\ SavedAsNamed /\ [CarefulNext]_vars
        => (SessionAgrees /\ SavedAsNamed)'
  BY SessionStep, SavedStep
<1> QED
  BY <1>1, <1>2, PTL DEF CarefulSpec

-----------------------------------------------------------------------------
(* The stages of a visit *)

LEMMA BelowPaths ==
  /\ Below(<<>>) = <<>>
  /\ \A h \in Hosts : Below(HostDir(h)) = <<>>
  /\ \A f \in Folders : Plain(f) =>
       \A way \in TreeOf[f].folders : Below(Home(f) \o way) = way
<1>1. \A s \in Seq(Names) : Len(s) < 4 => Below(s) = <<>>
  BY SubSeqEmpty DEF Below, From
<1>2. ASSUME NEW f \in Folders, Plain(f), NEW way \in TreeOf[f].folders
      PROVE  Below(Home(f) \o way) = way
  <2>1. /\ way \in Seq(Names) /\ Home(f) \in Seq(Names)
        /\ Len(Home(f)) = 3
    BY <1>2, PlainTree
  <2>2. From(Home(f) \o way, Len(Home(f)) + 1) = way
    BY <2>1, FromConcat
  <2>3. Len(Home(f)) + 1 = 4
    BY <2>1
  <2> QED
    BY <2>2, <2>3 DEF Below
<1>3. <<>> \in Seq(Names) /\ Len(<<>>) < 4
  OBVIOUS
<1>4. ASSUME NEW h \in Hosts
      PROVE  Below(HostDir(h)) = <<>>
  <2>1. HostDir(h) \in Seq(Names) /\ Len(HostDir(h)) < 4
    BY HostSessionAssumption DEF HostSessionAssumption, HostDir
  <2> QED
    BY <1>1, <2>1, Zenon
<1> QED
  <2>1. Below(<<>>) = <<>>
    BY <1>1, <1>3, Zenon
  <2> QED
    BY <1>2, <1>4, <2>1, Zenon

\* Moving within the open folder is a walk, or nothing.
LEMMA MoveIsWalk ==
  ASSUME SessionAgrees, UNCHANGED <<curServ, root, saved>>,
         \/ dir' = dir
         \/ /\ root # NoRoot
            /\ \E way \in TreeOf[root].folders : dir' = Home(root) \o way
  PROVE  Stages!Walk \/ UNCHANGED Stages!vars
<1>1. CASE dir' = dir
  BY <1>1 DEF Stages!vars, Below, From
<1>2. ASSUME root # NoRoot, NEW way \in TreeOf[root].folders,
             dir' = Home(root) \o way
      PROVE  Stages!Walk
  <2>1. root \in Folders /\ Plain(root)
    BY <1>2, WhereInside
  <2>2. Below(dir') = way
    BY <1>2, <2>1, BelowPaths
  <2> QED
    BY <1>2, <2>2 DEF Stages!Walk, Stages!NoRoot, NoRoot, Below, From
<1> QED
  BY <1>1, <1>2

LEMMA StageStep ==
  ASSUME SessionAgrees, SessionAgrees', [CarefulNext]_vars
  PROVE  [Stages!Next]_(Stages!vars)
<1> DEFINE Step == Stages!Next \/ UNCHANGED Stages!vars
<1> USE DEF Stages!NoHost, NoHost, Stages!NoRoot, NoRoot
<1>1. ASSUME UNCHANGED <<curServ, root, dir, saved>>
      PROVE  Step
  BY <1>1 DEF Stages!vars, Below, From
<1>2. ASSUME NEW h \in Hosts, PlainHost(h), Goto(h)
      PROVE  Stages!Visit(h)
  <2>1. curServ = NoHost /\ dir = <<>>
    BY <1>2 DEF SessionAgrees, Goto, Outside
  <2>2. Below(dir) = <<>> /\ Below(dir') = <<>>
    BY <1>2, <2>1, BelowPaths DEF Goto
  <2> QED
    BY <1>2, <2>1, <2>2 DEF Goto, Stages!Visit, Below, From
<1>3. ASSUME Leave(TRUE)
      PROVE  Stages!Part
  <2>1. curServ # NoHost
    BY <1>3, HostSessionAssumption
    DEF SessionAgrees, Leave, Inside, HostSessionAssumption
  <2>2. Below(dir') = <<>>
    BY <1>3, BelowPaths DEF Leave
  <2> QED
    BY <1>3, <2>1, <2>2 DEF Leave, Stages!Part, Below, From
<1>4. ASSUME NEW f \in Folders, root = NoRoot, Plain(f), AccessFolder(f)
      PROVE  Stages!Open(f)
  <2>1. curServ = OwnerOf[f] /\ dir = HostDir(OwnerOf[f])
        /\ OwnerOf[f] \in Hosts /\ root' = f
        /\ UNCHANGED <<curServ, saved>>
    BY <1>4, PlainTree
    DEF SessionAgrees, AccessFolder, Access, Inside, Opened
  <2>2. Below(dir) = <<>>
    BY <2>1, BelowPaths
  <2>3. Below(dir') = <<>>
    <3>1. /\ dir \in Seq(Names) /\ TreeOf[f].name \in Names
          /\ Home(f) \in Seq(Names) /\ <<>> \in TreeOf[f].folders
      BY <1>4, <2>1, PlainTree DEF IsTree
    <3>2. dir' = Home(f) \o <<>>
      <4>1. dir' = Append(dir, TreeOf[f].name)
        BY <1>4 DEF AccessFolder, Opened
      <4>2. Append(dir, TreeOf[f].name) = dir \o <<TreeOf[f].name>>
        BY <3>1
      <4>3. dir' = Home(f)
        BY <2>1, <4>1, <4>2 DEF Home
      <4> QED
        BY <3>1, <4>3, ConcatEmptySeq
    <3> QED
      BY <1>4, <3>1, <3>2, BelowPaths
  <2> QED
    BY <1>4, <2>1, <2>2, <2>3 DEF Stages!Open, Below, From
<1>5. ASSUME Cd(Relative(1, <<Nothing>>))
      PROVE  Step
  BY <1>5, UpKeepsWithin, MoveIsWalk DEF Stages!Next
<1>6. ASSUME NEW rel \in Typed, CarefulDown(rel), Cd(rel)
      PROVE  Step
  BY <1>6, DownKeepsWithin, MoveIsWalk DEF Stages!Next
<1>7. ASSUME \/ \E rel \in Typed, to \in LocalDirs :
                  CarefulPull(CombinePath(dir, Param(rel)), to) /\ PullPath(rel, to)
             \/ CarefulPull(Home(root), local) /\ PullAll
      PROVE  Stages!Fetch \/ Stages!Miss
  <2>1. root # NoRoot /\ UNCHANGED <<curServ, root, dir>>
    BY <1>7 DEF PullPath, PullAll, where
  <2>2. \/ UNION {s.got : s \in saved'} = {}
        \/ \E way \in TreeOf[root].folders \cup TreeOf[root].files :
             UNION {s.got : s \in saved'}
               = {root} \X Stages!FilesAt(root, way)
    BY <1>7, PullKeepsPromise
  <2> QED
    BY <2>1, <2>2 DEF Stages!Fetch, Stages!Miss, Below, From
<1>8. ASSUME Close
      PROVE  Stages!Shut
  <2>1. curServ \in Hosts
    BY <1>8 DEF SessionAgrees, Close, Inside
  <2>2. Below(dir') = <<>>
    BY <1>8, <2>1, BelowPaths DEF Close
  <2> QED
    BY <1>8, <2>2 DEF Close, Stages!Shut, Below, From
<1>9. CASE UNCHANGED vars
  BY <1>1, <1>9 DEF vars, where
<1>10. CASE CarefulNext
  <2>1. ASSUME \/ \E d \in LocalDirs : ChangeDirectory(d)
               \/ \E kind \in Kinds : AccessNone(kind)
               \/ AskPassword \/ Quit
        PROVE  UNCHANGED <<curServ, root, dir, saved>>
    BY <2>1 DEF ChangeDirectory, AccessNone, AskPassword, Quit, where
  <2> QED
    BY <1>1, <1>2, <1>3, <1>4, <1>5, <1>6, <1>7, <1>8, <1>10, <2>1
    DEF CarefulNext, Stages!Next
<1> QED
  BY <1>9, <1>10

\* A careful user's commands are the stages of a visit, whatever the hosts
\* share: he is in the folder he accessed, and fetches what is there.
THEOREM CommandsAreStages == CarefulSpec => ImplementsStages
<1>1. Init => Stages!Init
  BY BelowPaths
  DEF Init, Stages!Init, Stages!NoHost, NoHost, Stages!NoRoot, NoRoot
<1>2. SessionAgrees /\ SessionAgrees' /\ [CarefulNext]_vars
        => [Stages!Next]_(Stages!vars)
  BY StageStep
<1> QED
  BY <1>1, <1>2, SessionAlwaysAgrees, PTL
  DEF CarefulSpec, ImplementsStages, Stages!Spec
=============================================================================
