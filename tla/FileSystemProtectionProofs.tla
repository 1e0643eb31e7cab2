--------------------- MODULE FileSystemProtectionProofs ----------------------
(***************************************************************************)
(* Proofs about the two components of the library FileSystemProtection     *)
(* that need no container's blocks.                                        *)
(*                                                                         *)
(* FolderInUse, for every tree, every number of threads and every number   *)
(* of accesses.  As long as no two traversals have overlapped at most one  *)
(* thread is in one, its calls stand on each other as the folders do, the  *)
(* path is the folder's own with the names down to where the thread is,    *)
(* and the folders on the way have it, no others.  Overlapped or not, what *)
(* the other host has read after each line is the part of the tree that    *)
(* the thread has been to, and where in it the thread is.  The reading is  *)
(* a recursive function: the invariant speaks of every function with its   *)
(* equation, and a line more is one step of it, so that the induction over *)
(* the lines is the one over the behaviour.                                *)
(*                                                                         *)
(* FolderCopy, for any number of files of any sizes, any threshold and     *)
(* block, and any number of runs of the program that end too soon: a       *)
(* folder is restored as it was copied.                                    *)
(***************************************************************************)
EXTENDS FolderInUse, FolderCopy, SequenceTheorems, WellFoundedInduction,
        TLAPS

-----------------------------------------------------------------------------
(* FolderInUse: what holds of the calls *)

Frames == [at : Folders, size : Nat, next : Nat]

\* The calls s of one thread, and what they have made of the path.
Stacked(s) ==
  /\ \A i \in 1 .. Len(s) :
       Len(s[i].at) = i - 1 /\ s[i].size = Len(Home) + i - 1
  /\ \A i \in 2 .. Len(s) : ButLast(s[i].at) = s[i - 1].at

Left(s, path, hooks) ==
  /\ path = Home \o s[Len(s)].at
  /\ hooks = {s[i].at : i \in 2 .. Len(s)}

Apart ==
  /\ stack \in [Threads -> Seq(Frames)]
  /\ \A t, u \in Threads : stack[t] # <<>> /\ stack[u] # <<>> => t = u
  /\ (\A t \in Threads : stack[t] = <<>>) => iterPath = Home /\ hooked = {}
  /\ \A t \in Threads :
       stack[t] # <<>> => /\ Stacked(stack[t])
                          /\ Left(stack[t], iterPath, hooked)

IInv == (~overlapped => Apart) /\ PathsAreRight

-----------------------------------------------------------------------------
(* Sequences and paths *)

LEMMA Concatenated ==
  ASSUME NEW S, NEW h \in Seq(S), NEW p \in Seq(S)
  PROVE  /\ h \o p \in Seq(S)
         /\ Len(h \o p) = Len(h) + Len(p)
         /\ \A i \in 1 .. Len(h) : (h \o p)[i] = h[i]
         /\ \A i \in 1 .. Len(p) : (h \o p)[Len(h) + i] = p[i]
OBVIOUS

LEMMA ButLastIs ==
  ASSUME NEW S, NEW p \in Seq(S), p # <<>>
  PROVE  /\ ButLast(p) \in Seq(S)
         /\ Len(ButLast(p)) = Len(p) - 1
         /\ \A i \in 1 .. Len(p) - 1 : ButLast(p)[i] = p[i]
<1>1. Len(p) - 1 \in Nat /\ Len(p) \in Nat
      OBVIOUS
<1>2. ButLast(p) = [i \in 1 .. Len(p) - 1 |-> p[i]]
      BY <1>1 DEF ButLast
<1>3. \A i \in 1 .. Len(p) - 1 : p[i] \in S
      BY <1>1
<1> QED BY <1>1, <1>2, <1>3

LEMMA ButLastOfAppend ==
  ASSUME NEW S, NEW p \in Seq(S), NEW x \in S
  PROVE  ButLast(Append(p, x)) = p
BY DEF ButLast

LEMMA SameSequence ==
  ASSUME NEW S, NEW T, NEW p \in Seq(S), NEW q \in Seq(T), Len(p) = Len(q),
         \A i \in 1 .. Len(p) : p[i] = q[i]
  PROVE  p = q
OBVIOUS

\* Cutting the last name of a path leaves the path of the folder above.
LEMMA Cut ==
  ASSUME NEW h \in Seq(Names), NEW p \in Seq(Names), p # <<>>
  PROVE  Resize(h \o p, Len(h) + Len(p) - 1) = h \o ButLast(p)
<1> DEFINE n == Len(h) + Len(p) - 1
           r == Resize(h \o p, n)
           b == ButLast(p)
           q == h \o b
<1>1. n \in Nat /\ Len(p) \in Nat /\ Len(h) \in Nat /\ Len(p) > 0
      OBVIOUS
<1>2. /\ h \o p \in Seq(Names) /\ Len(h \o p) = n + 1
      /\ \A i \in 1 .. Len(h) : (h \o p)[i] = h[i]
      /\ \A i \in 1 .. Len(p) : (h \o p)[Len(h) + i] = p[i]
      BY <1>1, Concatenated
<1>3. /\ b \in Seq(Names) /\ Len(b) = Len(p) - 1
      /\ \A i \in 1 .. Len(p) - 1 : b[i] = p[i]
      BY ButLastIs
<1>4. r = [i \in 1 .. n |-> IF i <= Len(h \o p) THEN (h \o p)[i] ELSE Nul]
      BY DEF Resize
<1> HIDE DEF b, r
<1>5. /\ q \in Seq(Names) /\ Len(q) = Len(h) + Len(b)
      /\ \A i \in 1 .. Len(h) : q[i] = h[i]
      /\ \A i \in 1 .. Len(b) : q[Len(h) + i] = b[i]
  <2> SUFFICES ASSUME NEW c \in Seq(Names)
               PROVE  /\ h \o c \in Seq(Names)
                      /\ Len(h \o c) = Len(h) + Len(c)
                      /\ \A i \in 1 .. Len(h) : (h \o c)[i] = h[i]
                      /\ \A i \in 1 .. Len(c) : (h \o c)[Len(h) + i] = c[i]
      BY <1>3
  <2> QED BY Concatenated
<1> DEFINE w == h \o p
<1> HIDE DEF q, n, w
<1>6. n = Len(h) + Len(p) - 1 /\ Len(q) = n
      BY <1>1, <1>3, <1>5 DEF n
<1>7. \A i \in 1 .. n : r[i] = w[i] /\ w[i] \in Names
      BY <1>1, <1>2, <1>4 DEF w
<1>8. r \in Seq(Names) /\ Len(r) = n
  <2>1. r = [i \in 1 .. n |-> w[i]]
        BY <1>4, <1>7
  <2>2. [i \in 1 .. n |-> w[i]] \in Seq(Names)
        BY <1>1, <1>7
  <2>3. Len([i \in 1 .. n |-> w[i]]) = n
        BY <1>1
  <2> QED BY <2>1, <2>2, <2>3
<1>9. ASSUME NEW i \in 1 .. n PROVE r[i] = q[i]
  <2>1. CASE i <= Len(h)
        BY <1>1, <1>2, <1>5, <1>7, <2>1 DEF w
  <2>2. CASE i > Len(h)
    <3> DEFINE k == i - Len(h)
    <3>1. k \in 1 .. Len(b) /\ k \in 1 .. Len(p) /\ i = Len(h) + k
          BY <1>1, <1>3, <1>6, <2>2
    <3> HIDE DEF k
    <3>2. q[i] = p[k]
          BY <1>3, <1>5, <3>1
    <3>3. w[i] = p[k]
          BY <1>2, <3>1 DEF w
    <3> QED BY <1>7, <3>2, <3>3
  <2>3. i \in Nat
        BY <1>1
  <2> QED BY <1>1, <2>1, <2>2, <2>3
<1>10. r = q
      BY <1>5, <1>6, <1>8, <1>9, SameSequence
<1> QED BY <1>10 DEF r, q, n, b

\* A folder in a folder.
LEMMA ChildIs ==
  ASSUME NEW p \in Folders, NEW i \in DOMAIN Subs[p]
  PROVE  /\ Child(p, i) \in Folders /\ Child(p, i) \in Seq(Names)
         /\ Child(p, i) # <<>> /\ Len(Child(p, i)) = Len(p) + 1
         /\ ButLast(Child(p, i)) = p
         /\ Home \o Child(p, i) = Append(Home \o p, Subs[p][i])
<1>1. p \in Seq(Names) /\ Home \in Seq(Names) /\ Subs[p] \in Seq(Names)
      BY FolderInUseAssumption
<1>2. Subs[p][i] \in Names
      BY <1>1
<1>3. Child(p, i) \in Folders
      BY FolderInUseAssumption
<1>4. Home \o Append(p, Subs[p][i]) = Append(Home \o p, Subs[p][i])
      BY <1>1, <1>2
<1> QED BY <1>1, <1>2, <1>3, <1>4, ButLastOfAppend DEF Child

LEMMA Facts ==
  /\ Home \in Seq(Names) /\ Len(Home) \in Nat /\ <<>> \in Folders
  /\ \A p \in Seq(Names) : /\ Home \o p \in Seq(Names)
                            /\ Len(Home \o p) = Len(Home) + Len(p)
  /\ Folders \subseteq Seq(Names) /\ \A p \in Folders : Subs[p] \in Seq(Names)
BY FolderInUseAssumption

-----------------------------------------------------------------------------
(* The calls of one thread *)

LEMMA DeeperIs ==
  ASSUME NEW s \in Seq(Frames), s # <<>>, NEW f \in Frames
  PROVE  /\ Deeper(s, f) \in Seq(Frames) /\ Deeper(s, f) # <<>>
         /\ Len(Deeper(s, f)) = Len(s) + 1
         /\ \A i \in 1 .. Len(s) : /\ Deeper(s, f)[i].at = s[i].at
                                   /\ Deeper(s, f)[i].size = s[i].size
         /\ Deeper(s, f)[Len(s) + 1] = f
<1> DEFINE n == Len(s)
           r == [s EXCEPT ![n].next = @ + 1]
<1>1. n \in Nat \ {0} /\ s[n] \in Frames
      OBVIOUS
<1>2. [s[n] EXCEPT !.next = @ + 1] \in Frames
  <2> SUFFICES ASSUME NEW e \in Frames
               PROVE  [e EXCEPT !.next = @ + 1] \in Frames
      BY <1>1
  <2> QED BY DEF Frames
<1>3. r \in Seq(Frames) /\ Len(r) = n
      BY <1>1, <1>2
<1>4. \A i \in 1 .. n : r[i].at = s[i].at /\ r[i].size = s[i].size
      BY <1>1 DEF Frames
<1>5. Deeper(s, f) = Append(r, f)
      BY DEF Deeper
<1> HIDE DEF r
<1> QED BY <1>1, <1>3, <1>4, <1>5

\* The folders a thread is in all have the path.
LEMMA OnTheWay ==
  ASSUME NEW s \in Seq(Frames), Stacked(s), Left(s, iterPath, hooked),
         NEW i \in 1 .. Len(s)
  PROVE  Hooked(s[i].at)
<1>1. CASE i = 1
  <2>1. s[i] \in Frames /\ Len(s[i].at) = i - 1
        BY DEF Stacked
  <2>2. s[i].at \in Seq(Names)
        BY <2>1, Facts DEF Frames
  <2> QED BY <1>1, <2>1, <2>2 DEF Hooked
<1>2. CASE i # 1
      BY <1>2 DEF Left, Hooked
<1> QED BY <1>1, <1>2

\* A thread is where the calls below lead; the top's folder is one of the tree.
LEMMA OnTop ==
  ASSUME NEW s \in Seq(Frames), s # <<>>, Stacked(s), Left(s, iterPath, hooked)
  PROVE  /\ Len(s) \in 1 .. Len(s) /\ Hooked(s[Len(s)].at)
         /\ s[Len(s)].at \in Folders /\ s[Len(s)].at \in Seq(Names)
         /\ Len(s[Len(s)].at) = Len(s) - 1
<1>1. Len(s) \in 1 .. Len(s)
      OBVIOUS
<1>2. s[Len(s)] \in Frames
      BY <1>1
<1> QED BY <1>1, <1>2, OnTheWay, Facts DEF Stacked, Frames

-----------------------------------------------------------------------------
(* One step of a traversal that is alone *)

LEMMA AccessKeeps ==
  ASSUME Apart, NEW t \in Threads, Access(t), ~overlapped'
  PROVE  Apart'
<1> DEFINE f == Frame(<<>>, TRUE, iterPath)
<1>1. /\ stack' = [stack EXCEPT ![t] = <<f>>]
      /\ \A u \in Threads : stack[u] = <<>>
      BY DEF Access, Inside, Apart
<1>2. iterPath' = Home /\ hooked' = {} /\ iterPath = Home
      BY <1>1 DEF Access, Apart
<1>3. f = [at |-> <<>>, size |-> Len(Home), next |-> 1] /\ f \in Frames
      BY <1>2, Facts DEF Frame, Frames
<1> HIDE DEF f
<1>4. <<f>> \in Seq(Frames) /\ <<f>> # <<>> /\ Len(<<f>>) = 1 /\ <<f>>[1] = f
      BY <1>3
<1>5. stack' \in [Threads -> Seq(Frames)]
      BY <1>1, <1>4 DEF Apart
<1>6. stack'[t] = <<f>> /\ \A u \in Threads : u # t => stack'[u] = <<>>
      BY <1>1 DEF Apart
<1>7. Stacked(<<f>>)
      BY <1>3, <1>4, Facts DEF Stacked
<1>8. Left(<<f>>, iterPath', hooked')
  <2>1. Home \o <<>> = Home
        BY Facts
  <2>2. 2 .. 1 = {}
        OBVIOUS
  <2> QED BY <1>2, <1>3, <1>4, <2>1, <2>2 DEF Left
<1>9. Stacked(stack'[t]) /\ Left(stack'[t], iterPath', hooked')
      BY <1>6, <1>7, <1>8
<1>10. stack'[t] # <<>>
       BY <1>4, <1>6
<1> QED BY <1>5, <1>6, <1>9, <1>10 DEF Apart

LEMMA DescendKeeps ==
  ASSUME Apart, NEW t \in Threads, Descend(t)
  PROVE  Apart'
<1> DEFINE s     == stack[t]
           n     == Len(s)
           here  == s[n].at
           i     == s[n].next
           child == Child(here, i)
           f     == Frame(child, TRUE, iterPath')
           r     == Deeper(s, f)
<1>1. s \in Seq(Frames) /\ s # <<>> /\ Stacked(s) /\ Left(s, iterPath, hooked)
      BY DEF Apart, Descend
<1>2. /\ n \in Nat \ {0} /\ Hooked(here) /\ here \in Folders
      /\ here \in Seq(Names) /\ Len(here) = n - 1
      BY <1>1, OnTop
<1>3. /\ i \in DOMAIN Subs[here] /\ hooked' = hooked \cup {child}
      /\ iterPath' = Append(iterPath, Subs[here][i])
      /\ stack' = [stack EXCEPT ![t] = r]
      BY <1>2 DEF Descend, Top
<1>4. /\ child \in Folders /\ child \in Seq(Names) /\ Len(child) = n
      /\ ButLast(child) = here
      /\ Home \o child = Append(Home \o here, Subs[here][i])
  <2> HIDE DEF here, i
  <2>1. /\ child \in Folders /\ child \in Seq(Names)
        /\ Len(child) = Len(here) + 1
        /\ ButLast(child) = here
        /\ Home \o child = Append(Home \o here, Subs[here][i])
        BY <1>2, <1>3, ChildIs
  <2> QED BY <1>2, <2>1
<1>5. iterPath' = Home \o child
      BY <1>1, <1>3, <1>4 DEF Left
<1>6. Len(iterPath') = Len(Home) + n
      BY <1>4, <1>5, Facts
<1>7. f = [at |-> child, size |-> Len(Home) + n, next |-> 1] /\ f \in Frames
  <2>1. f = [at |-> child, size |-> Len(iterPath'), next |-> 1]
        BY DEF Frame
  <2>2. Len(Home) + n \in Nat
        BY <1>2, Facts
  <2> HIDE DEF f, child
  <2> QED BY <1>4, <1>6, <2>1, <2>2 DEF Frames
<1> HIDE DEF f
<1>8. /\ r \in Seq(Frames) /\ r # <<>> /\ Len(r) = n + 1 /\ r[n + 1] = f
      /\ \A j \in 1 .. n : r[j].at = s[j].at /\ r[j].size = s[j].size
      BY <1>1, <1>7, DeeperIs
<1> HIDE DEF r, child, here, i
<1>9. Stacked(r)
  <2>1. ASSUME NEW j \in 1 .. Len(r)
        PROVE  Len(r[j].at) = j - 1 /\ r[j].size = Len(Home) + j - 1
    <3>1. CASE j = n + 1
          BY SMTT(30), <1>2, <1>4, <1>7, <1>8, <3>1, Facts
    <3>2. CASE j # n + 1
      <4>1. j \in 1 .. n
            BY <1>2, <1>8, <3>2
      <4>2. Len(s[j].at) = j - 1 /\ s[j].size = Len(Home) + j - 1
            BY <1>1, <4>1 DEF Stacked
      <4> QED BY <1>8, <4>1, <4>2
    <3> QED BY <3>1, <3>2
  <2>2. ASSUME NEW j \in 2 .. Len(r)
        PROVE  ButLast(r[j].at) = r[j - 1].at
    <3>1. CASE j = n + 1
      <4>1. j - 1 = n /\ n \in 1 .. n
            BY <1>2, <3>1
      <4>2. r[j].at = child /\ r[n].at = here
            BY <1>7, <1>8, <3>1, <4>1 DEF here
      <4> QED BY <1>4, <4>1, <4>2
    <3>2. CASE j # n + 1
      <4>1. j \in 2 .. n /\ j \in 1 .. n /\ j - 1 \in 1 .. n
            BY <1>2, <1>8, <3>2
      <4> QED BY <1>1, <1>8, <4>1 DEF Stacked
    <3> QED BY <3>1, <3>2
  <2> QED BY <2>1, <2>2 DEF Stacked
<1>10. Left(r, iterPath', hooked')
  <2>1. iterPath' = Home \o r[Len(r)].at
        BY <1>5, <1>7, <1>8
  <2>2. hooked' = {r[j].at : j \in 2 .. Len(r)}
    <3>1. hooked = {s[j].at : j \in 2 .. n}
          BY <1>1 DEF Left
    <3>2. \A j \in 2 .. n : r[j].at = s[j].at
          BY <1>2, <1>8
    <3>3. r[n + 1].at = child /\ 2 .. Len(r) = (2 .. n) \cup {n + 1}
          BY <1>2, <1>7, <1>8
    <3>4. {r[j].at : j \in 2 .. Len(r)}
             = {r[j].at : j \in 2 .. n} \cup {child}
          BY <3>3
    <3>5. {r[j].at : j \in 2 .. n} = {s[j].at : j \in 2 .. n}
          BY <3>2
    <3> QED BY <1>3, <3>1, <3>4, <3>5
  <2> QED BY <2>1, <2>2 DEF Left
<1>11. stack'[t] = r /\ \A u \in Threads : u # t => stack'[u] = <<>>
       BY <1>1, <1>3 DEF Apart
<1>12. stack' \in [Threads -> Seq(Frames)]
       BY <1>3, <1>8 DEF Apart
<1>13. Stacked(stack'[t]) /\ Left(stack'[t], iterPath', hooked')
       BY <1>9, <1>10, <1>11
<1> QED BY <1>8, <1>11, <1>12, <1>13 DEF Apart

LEMMA AscendKeeps ==
  ASSUME Apart, NEW t \in Threads, Ascend(t)
  PROVE  Apart'
<1> DEFINE s == stack[t]
           n == Len(s)
           r == ButLast(s)
<1>1. s \in Seq(Frames) /\ s # <<>> /\ Stacked(s) /\ Left(s, iterPath, hooked)
      BY DEF Apart, Ascend, AtEnd
<1>2. n \in Nat /\ n > 1
  <2>1. Len(stack[t]) > 1
        BY DEF Ascend
  <2> QED BY <1>1, <2>1
<1>3. /\ n - 1 \in 1 .. n /\ n \in 1 .. n /\ n \in 2 .. n
      BY <1>2
<1>4. /\ Hooked(s[n - 1].at)
      /\ s[n].at \in Seq(Names) /\ Len(s[n].at) = n - 1
      BY <1>1, <1>3, OnTheWay, OnTop
<1>5. /\ hooked' = hooked \ {s[n].at}
      /\ iterPath' = Resize(iterPath, s[n - 1].size)
      /\ stack' = [stack EXCEPT ![t] = r]
      BY <1>4 DEF Ascend, Top
<1>6. iterPath' = Home \o s[n - 1].at
  <2>1. s[n - 1].size = Len(Home) + n - 2
    <3>1. s[n - 1].size = Len(Home) + (n - 1) - 1
          BY <1>1, <1>3 DEF Stacked
    <3> QED BY <1>2, <3>1, Facts
  <2>2. ButLast(s[n].at) = s[n - 1].at
        BY <1>1, <1>3 DEF Stacked
  <2>3. iterPath = Home \o s[n].at
        BY <1>1 DEF Left
  <2>4. Len(Home) + Len(s[n].at) - 1 = Len(Home) + n - 2
        BY <1>2, <1>4, Facts
  <2>5. s[n].at # <<>>
    <3>1. Len(s[n].at) # 0
          BY <1>2, <1>4
    <3> QED BY <3>1
  <2>6. Resize(Home \o s[n].at, Len(Home) + Len(s[n].at) - 1)
          = Home \o ButLast(s[n].at)
        BY <1>4, <2>5, Cut, Facts
  <2> QED BY <1>5, <2>1, <2>2, <2>3, <2>4, <2>6
<1>7. /\ r \in Seq(Frames) /\ Len(r) = n - 1 /\ r # <<>>
      /\ \A j \in 1 .. n - 1 : r[j] = s[j]
  <2>1. /\ r \in Seq(Frames) /\ Len(r) = n - 1
        /\ \A j \in 1 .. n - 1 : r[j] = s[j]
        BY <1>1, ButLastIs
  <2>2. Len(r) # 0
    <3> HIDE DEF n, r
    <3> QED BY <1>2, <2>1
  <2>3. r # <<>>
        BY <2>2
  <2> QED BY <2>1, <2>3
<1> HIDE DEF r
<1>8. Stacked(r)
  <2>1. ASSUME NEW j \in 1 .. Len(r)
        PROVE  Len(r[j].at) = j - 1 /\ r[j].size = Len(Home) + j - 1
    <3>1. j \in 1 .. n - 1 /\ j \in 1 .. n
          BY <1>2, <1>7
    <3> QED BY <1>1, <1>7, <3>1 DEF Stacked
  <2>2. ASSUME NEW j \in 2 .. Len(r)
        PROVE  ButLast(r[j].at) = r[j - 1].at
    <3>1. j \in 1 .. n - 1 /\ j - 1 \in 1 .. n - 1 /\ j \in 2 .. n
          BY <1>2, <1>7
    <3> QED BY <1>1, <1>7, <3>1 DEF Stacked
  <2> QED BY <2>1, <2>2 DEF Stacked
<1>9. Left(r, iterPath', hooked')
  <2>1. iterPath' = Home \o r[Len(r)].at
    <3>1. Len(r) = n - 1 /\ n - 1 \in 1 .. n - 1
          BY <1>2, <1>7
    <3> QED BY <1>6, <1>7, <3>1
  <2>2. hooked' = {r[j].at : j \in 2 .. Len(r)}
    <3>1. hooked = {s[j].at : j \in 2 .. n}
          BY <1>1 DEF Left
    <3>2. \A j \in 2 .. n - 1 : r[j].at = s[j].at
          BY <1>2, <1>7
    <3>3. 2 .. n = (2 .. n - 1) \cup {n}
          BY <1>2
    <3>4. \A j \in 2 .. n - 1 : s[j].at # s[n].at
      <4>1. ASSUME NEW j \in 2 .. n - 1 PROVE s[j].at # s[n].at
        <5>1. j \in 1 .. n
              BY <1>2
        <5>2. Len(s[j].at) = j - 1
              BY <1>1, <5>1 DEF Stacked
        <5>3. j - 1 # n - 1
              BY <1>2
        <5> QED BY <1>4, <5>2, <5>3
      <4> QED BY <4>1
    <3>5. {s[j].at : j \in 2 .. n} \ {s[n].at}
            = {s[j].at : j \in 2 .. n - 1}
          BY <3>3, <3>4
    <3>6. {r[j].at : j \in 2 .. n - 1} = {s[j].at : j \in 2 .. n - 1}
          BY <3>2
    <3> QED BY <1>5, <1>7, <3>1, <3>5, <3>6
  <2> QED BY <2>1, <2>2 DEF Left
<1>10. stack'[t] = r /\ \A u \in Threads : u # t => stack'[u] = <<>>
       BY <1>1, <1>5 DEF Apart
<1>11. stack' \in [Threads -> Seq(Frames)]
       BY <1>5, <1>7 DEF Apart
<1>12. Stacked(stack'[t]) /\ Left(stack'[t], iterPath', hooked')
       BY <1>8, <1>9, <1>10
<1> QED BY <1>7, <1>10, <1>11, <1>12 DEF Apart

LEMMA FinishKeeps ==
  ASSUME Apart, NEW t \in Threads, Finish(t)
  PROVE  Apart'
<1> DEFINE s == stack[t]
<1>1. /\ s \in Seq(Frames) /\ s # <<>> /\ Stacked(s)
      /\ Left(s, iterPath, hooked) /\ Len(s) = 1
      BY DEF Apart, Finish, AtEnd
<1>2. s[1].at \in Seq(Names) /\ Len(s[1].at) = 0
      BY <1>1, OnTop
<1>3. s[1].at = <<>>
      BY <1>2
<1>4. iterPath = Home /\ hooked = {}
  <2>1. Home \o <<>> = Home /\ 2 .. 1 = {}
        BY Facts
  <2> QED BY <1>1, <1>3, <2>1 DEF Left
<1>5. stack' = [stack EXCEPT ![t] = <<>>] /\ UNCHANGED <<iterPath, hooked>>
      BY DEF Finish
<1>6. \A u \in Threads : stack'[u] = <<>>
      BY <1>1, <1>5 DEF Apart
<1>7. <<>> \in Seq(Frames)
      OBVIOUS
<1>8. stack' \in [Threads -> Seq(Frames)]
      BY <1>5, <1>7 DEF Apart
<1> QED BY <1>4, <1>5, <1>6, <1>8 DEF Apart

-----------------------------------------------------------------------------
(* Asking for a path *)

LEMMA TellKeeps ==
  ASSUME IInv, NEW p \in Folders, NEW name \in Seq(Names), Tell(p, name)
  PROVE  PathsAreRight'
<1> SUFFICES ASSUME told'.alone PROVE told'.is = Home \o told'.of
  BY DEF PathsAreRight
<1>1. /\ told'.of = p \o name /\ told'.is = Path(p) \o name
      /\ told'.alone = (Inside = {} /\ ~overlapped)
      BY DEF Tell
<1>2. Inside = {} /\ ~overlapped
      BY <1>1
<1>3. iterPath = Home /\ hooked = {}
      BY <1>2 DEF IInv, Apart, Inside
<1>4. p \in Seq(Names) /\ Home \in Seq(Names)
      BY Facts
<1>5. \A i \in 0 .. Len(p) : Hooked(SubSeq(p, 1, i)) <=> i = 0
  <2> SUFFICES ASSUME NEW i \in 0 .. Len(p)
               PROVE  Hooked(SubSeq(p, 1, i)) <=> i = 0
      OBVIOUS
  <2>1. Hooked(SubSeq(p, 1, i)) <=> SubSeq(p, 1, i) = <<>>
        BY <1>3 DEF Hooked
  <2>2. Len(SubSeq(p, 1, i)) = i
        BY <1>4
  <2>3. i = 0 => SubSeq(p, 1, i) = <<>>
        BY <1>4
  <2> QED BY <2>1, <2>2, <2>3
<1> DEFINE Nearest(i) == /\ Hooked(SubSeq(p, 1, i))
                         /\ \A j \in i + 1 .. Len(p) : ~Hooked(SubSeq(p, 1, j))
           k == CHOOSE i \in 0 .. Len(p) : Nearest(i)
<1>6. Nearest(0) /\ 0 \in 0 .. Len(p)
  <2>1. Len(p) \in Nat /\ 0 \in 0 .. Len(p)
        BY <1>4
  <2>2. \A j \in 0 + 1 .. Len(p) : j \in 0 .. Len(p) /\ j # 0
        BY <2>1
  <2> QED BY <1>5, <2>1, <2>2
<1>7. \A i \in 0 .. Len(p) : Nearest(i) => i = 0
      BY <1>5
<1>8. Path(p) = iterPath \o SubSeq(p, k + 1, Len(p))
      BY DEF Path
<1> HIDE DEF Nearest
<1>9. k = 0
      BY <1>6, <1>7
<1> HIDE DEF k
<1>10. SubSeq(p, k + 1, Len(p)) = p
       BY <1>4, <1>9
<1>11. (Home \o p) \o name = Home \o (p \o name)
       BY <1>4
<1> QED BY <1>1, <1>3, <1>8, <1>10, <1>11

LEMMA TellKeepsApart ==
  ASSUME Apart, NEW p, NEW name, Tell(p, name)
  PROVE  Apart'
BY DEF Apart, Tell

-----------------------------------------------------------------------------
(* The theorems *)

LEMMA InitHolds == Init => IInv
<1> SUFFICES ASSUME Init PROVE IInv
  OBVIOUS
<1>1. Home \o <<>> = Home /\ <<>> \in Seq(Frames)
      BY Facts
<1>2. PathsAreRight
      BY <1>1 DEF Init, PathsAreRight
<1>3. Apart
      BY <1>1 DEF Init, Apart
<1> QED BY <1>2, <1>3 DEF IInv

LEMMA StepKeeps == IInv /\ [Next]_vars => IInv'
<1> SUFFICES ASSUME IInv, [Next]_vars PROVE IInv'
  OBVIOUS
<1>1. ASSUME NEW t \in Threads, Access(t) PROVE IInv'
  <2>1. ~overlapped' => ~overlapped
        BY <1>1 DEF Access
  <2>2. PathsAreRight'
        BY <1>1 DEF IInv, PathsAreRight, Access
  <2> QED BY <1>1, <2>1, <2>2, AccessKeeps DEF IInv
<1>2. ASSUME NEW t \in Threads, Descend(t) PROVE IInv'
  <2>1. PathsAreRight' /\ overlapped' = overlapped
        BY <1>2 DEF IInv, PathsAreRight, Descend
  <2> QED BY <1>2, <2>1, DescendKeeps DEF IInv
<1>3. ASSUME NEW t \in Threads, Ascend(t) PROVE IInv'
  <2>1. PathsAreRight' /\ overlapped' = overlapped
        BY <1>3 DEF IInv, PathsAreRight, Ascend
  <2> QED BY <1>3, <2>1, AscendKeeps DEF IInv
<1>4. ASSUME NEW t \in Threads, Finish(t) PROVE IInv'
  <2>1. PathsAreRight' /\ overlapped' = overlapped
        BY <1>4 DEF IInv, PathsAreRight, Finish
  <2> QED BY <1>4, <2>1, FinishKeeps DEF IInv
<1>5. ASSUME NEW p \in Folders, NEW name \in Seq(Names), Tell(p, name)
      PROVE  IInv'
  <2>1. overlapped' = overlapped
        BY <1>5 DEF Tell
  <2> QED BY <1>5, <2>1, TellKeeps, TellKeepsApart DEF IInv
<1>6. ASSUME NEW t \in Threads, NEW p \in Folders,
             NEW i \in DOMAIN FilesIn[p], Pull(t, p, i)
      PROVE  IInv'
  <2>1. FilesIn[p] \in Seq(Names)
        BY FolderInUseAssumption
  <2>2. FilesIn[p][i] \in Names
        BY <2>1
  <2>3. <<FilesIn[p][i]>> \in Seq(Names)
        BY <2>2
  <2>4. Tell(p, <<FilesIn[p][i]>>)
        BY <1>6 DEF Pull
  <2> QED BY <1>5, <2>3, <2>4
<1>7. CASE Save
  <2>1. <<>> \in Folders /\ <<>> \in Seq(Names)
        BY Facts
  <2> QED BY <1>5, <1>7, <2>1 DEF Save
<1>8. CASE UNCHANGED vars
      BY <1>8 DEF vars, IInv, Apart, PathsAreRight
<1> QED BY <1>1, <1>2, <1>3, <1>4, <1>6, <1>7, <1>8 DEF Next

LEMMA Invariance == Spec => []IInv
BY InitHolds, StepKeeps, PTL DEF Spec

\* A traversal that no other overlaps gives the folder its path back, and takes
\* it from all folders below (Traverse, FileFolder.h:226-261), for every tree.
THEOREM PathsComeHome == Spec => []PathComesHome
<1>1. IInv => PathComesHome
      BY DEF IInv, Apart, PathComesHome, Inside
<1> QED BY <1>1, Invariance, PTL

\* Path (FileFolder.h:782-792) tells where a file or a folder is, as long as no
\* traversals overlap and none is under way.
THEOREM PathsToldAreRight == Spec => []PathsAreRight
<1>1. IInv => PathsAreRight
      BY DEF IInv
<1> QED BY <1>1, Invariance, PTL

-----------------------------------------------------------------------------
(* FolderInUse: what arrives of the tree *)

Lines == {Written(p) : p \in Folders} \cup {Pop}

\* The calls s of a thread stand on each other as the folders do, whatever
\* other threads do to the path meanwhile.
Nested(s) ==
  /\ \A i \in 1 .. Len(s) : /\ Len(s[i].at) = i - 1
                            /\ s[i].next \in 1 .. Len(Subs[s[i].at]) + 1
  /\ \A i \in 2 .. Len(s) : ButLast(s[i].at) = s[i - 1].at

\* How many of the folders of p the thread has been to, once it has been to p.
OnStack(s, p) == Len(p) < Len(s) /\ s[Len(p) + 1].at = p
Seen(s, p)    == IF OnStack(s, p) THEN s[Len(p) + 1].next - 1
                                  ELSE Len(Subs[p])

\* D is the folders it has been to,
Grown(D, s) ==
  /\ D \subseteq Folders /\ <<>> \in D
  /\ \A p \in D \ {<<>>} : ButLast(p) \in D
  /\ \A i \in 1 .. Len(s) : s[i].at \in D
  /\ \A p \in D : \A i \in DOMAIN Subs[p] :
       Child(p, i) \in D <=> i <= Seen(s, p)

\* which is what the other host has read of the tree from the lines so far.
ReadSoFar(D, s) ==
  [at |-> s[Len(s)].at, height |-> Len(s),
   subs |-> [p \in D |-> SubSeq(Subs[p], 1, Seen(s, p))],
   files |-> [p \in D |-> FilesIn[p]]]
Arrived(l, s) == \E D : Grown(D, s) /\ l = ReadSoFar(D, s)

\* The function of LoadStructure.
Loads(g, lines) ==
  g = [i \in 0 .. Len(lines) |->
         IF i = 0 THEN NothingRead ELSE Read(g[i - 1], lines[i])]

Arriving(lines, s) ==
  /\ \E g : Loads(g, lines)
  /\ \A g : Loads(g, lines) => Arrived(g[Len(lines)], s)

Whole(l) == l.subs = Subs /\ l.files = FilesIn /\ l.height = 0

CallsOK ==
  /\ iterPath \in Seq(Names \cup {Nul})
  /\ stack \in [Threads -> Seq(Frames)] /\ wrote \in [Threads -> Seq(Lines)]
  /\ \A t \in Threads : Nested(stack[t])

TreeInv ==
  /\ CallsOK
  /\ \A t \in Threads : stack[t] # <<>> => Arriving(wrote[t], stack[t])
  /\ TreesArriveWhole

-----------------------------------------------------------------------------
(* The reading *)

LEMMA LoadStructureIs ==
  ASSUME NEW lines, \E g : Loads(g, lines)
  PROVE  \E g : Loads(g, lines) /\ LoadStructure(lines) = g[Len(lines)]
<1> DEFINE h == CHOOSE g : Loads(g, lines)
<1>1. Loads(h, lines)
      OBVIOUS
<1>2. LoadStructure(lines) = h[Len(lines)]
      BY DEF LoadStructure, Loads
<1> QED BY <1>1, <1>2

\* One line more: what was read before is read on.
LEMMA ReadsOn ==
  ASSUME NEW S, NEW lines \in Seq(S), NEW line \in S, \E g : Loads(g, lines)
  PROVE  LET more == Append(lines, line)
         IN  /\ \E h : Loads(h, more)
             /\ \A h : Loads(h, more) =>
                  \E g : /\ Loads(g, lines)
                         /\ h[Len(more)] = Read(g[Len(lines)], line)
<1> DEFINE n    == Len(lines)
           more == Append(lines, line)
<1>1. /\ n \in Nat /\ Len(more) = n + 1 /\ more[n + 1] = line
      /\ \A i \in 1 .. n : more[i] = lines[i]
      OBVIOUS
<1> HIDE DEF n, more
<1>2. \E h : Loads(h, more)
  <2>1. PICK g : Loads(g, lines)
        OBVIOUS
  <2>2. g = [i \in 0 .. n |->
               IF i = 0 THEN NothingRead ELSE Read(g[i - 1], lines[i])]
        BY <2>1 DEF Loads, n
  <2> DEFINE h == [i \in 0 .. n + 1 |->
                     IF i <= n THEN g[i] ELSE Read(g[n], line)]
             k == [i \in 0 .. n + 1 |->
                     IF i = 0 THEN NothingRead ELSE Read(h[i - 1], more[i])]
  <2>3. ASSUME NEW i \in 0 .. n + 1 PROVE h[i] = k[i]
    <3>1. CASE i = 0
          BY <1>1, <2>2, <3>1
    <3>2. CASE i \in 1 .. n
      <4>1. g[i] = Read(g[i - 1], lines[i])
            BY <1>1, <2>2, <3>2
      <4>2. h[i] = g[i] /\ h[i - 1] = g[i - 1] /\ i # 0
            BY <1>1, <3>2
      <4> HIDE DEF h
      <4> QED BY <1>1, <3>2, <4>1, <4>2
    <3>3. CASE i = n + 1
      <4>1. h[i] = Read(g[n], line) /\ h[i - 1] = g[n] /\ i # 0
            BY <1>1, <3>3
      <4> HIDE DEF h
      <4> QED BY <1>1, <3>3, <4>1
    <3> QED BY <1>1, <3>1, <3>2, <3>3
  <2>4. h = k
    <3> HIDE DEF h, k
    <3>1. h = [i \in 0 .. n + 1 |-> h[i]] /\ k = [i \in 0 .. n + 1 |-> k[i]]
          BY DEF h, k
    <3> QED BY <2>3, <3>1
  <2>5. Loads(h, more)
    <3> HIDE DEF h
    <3> QED BY <1>1, <2>4 DEF Loads
  <2> QED BY <2>5
<1>3. ASSUME NEW h, Loads(h, more)
      PROVE  \E g : Loads(g, lines) /\ h[n + 1] = Read(g[n], line)
  <2>1. h = [i \in 0 .. n + 1 |->
               IF i = 0 THEN NothingRead ELSE Read(h[i - 1], more[i])]
        BY <1>1, <1>3 DEF Loads
  <2> DEFINE g == [i \in 0 .. n |-> h[i]]
             k == [i \in 0 .. n |->
                     IF i = 0 THEN NothingRead ELSE Read(g[i - 1], lines[i])]
  <2>2. ASSUME NEW i \in 0 .. n PROVE g[i] = k[i]
    <3>1. CASE i = 0
          BY <1>1, <2>1, <3>1
    <3>2. CASE i \in 1 .. n
      <4>1. h[i] = Read(h[i - 1], more[i])
            BY <1>1, <2>1, <3>2
      <4>2. g[i] = h[i] /\ g[i - 1] = h[i - 1] /\ i # 0 /\ i \in 0 .. n
            BY <1>1, <3>2
      <4>3. k[i] = Read(g[i - 1], lines[i])
        <5> HIDE DEF g
        <5> QED BY <4>2
      <4> HIDE DEF g, k
      <4> QED BY <1>1, <3>2, <4>1, <4>2, <4>3
    <3> QED BY <1>1, <3>1, <3>2
  <2>3. g = k
    <3>1. g = [i \in 0 .. n |-> g[i]] /\ k = [i \in 0 .. n |-> k[i]]
          OBVIOUS
    <3> HIDE DEF g, k
    <3> QED BY <2>2, <3>1
  <2>4. Loads(g, lines)
    <3> HIDE DEF g
    <3> QED BY <2>3 DEF Loads, n
  <2>5. h[n + 1] = Read(g[n], line)
    <3>1. h[n + 1] = Read(h[n], more[n + 1])
          BY <1>1, <2>1
    <3>2. g[n] = h[n]
          BY <1>1
    <3> QED BY <1>1, <3>1, <3>2
  <2> QED BY <2>4, <2>5
<1> QED BY <1>1, <1>2, <1>3 DEF n, more

\* The lines so far read on by one more, when that keeps what has arrived.
LEMMA ArrivingOn ==
  ASSUME NEW lines \in Seq(Lines), NEW line \in Lines, NEW s, NEW r,
         Arriving(lines, s),
         \A l : Arrived(l, s) => Arrived(Read(l, line), r)
  PROVE  Arriving(Append(lines, line), r)
<1>1. \E h : Loads(h, Append(lines, line))
      BY ReadsOn DEF Arriving
<1>2. ASSUME NEW h, Loads(h, Append(lines, line))
      PROVE  Arrived(h[Len(Append(lines, line))], r)
  <2>1. PICK g : /\ Loads(g, lines)
                 /\ h[Len(Append(lines, line))] = Read(g[Len(lines)], line)
        BY <1>2, ReadsOn DEF Arriving
  <2> QED BY <2>1 DEF Arriving
<1> QED BY <1>1, <1>2 DEF Arriving


-----------------------------------------------------------------------------
(* The folders a thread is in, and those it has been to *)

\* The next of the folders and what is read of those before.
LEMMA Prefixes ==
  ASSUME NEW S, NEW q \in Seq(S)
  PROVE  /\ SubSeq(q, 1, 0) = <<>> /\ SubSeq(q, 1, Len(q)) = q
         /\ \A i \in 1 .. Len(q) :
              SubSeq(q, 1, i) = Append(SubSeq(q, 1, i - 1), q[i])
<1>1. SubSeq(q, 1, 0) = <<>>
      OBVIOUS
<1>2. SubSeq(q, 1, Len(q)) = q
      OBVIOUS
<1>3. ASSUME NEW i \in 1 .. Len(q)
      PROVE  SubSeq(q, 1, i) = Append(SubSeq(q, 1, i - 1), q[i])
  <2> DEFINE a == SubSeq(q, 1, i)
             c == SubSeq(q, 1, i - 1)
             b == Append(c, q[i])
  <2>1. /\ i \in Nat /\ i - 1 \in Nat /\ Len(q) \in Nat /\ i <= Len(q)
        /\ \A j \in 1 .. i : q[j] \in S
        OBVIOUS
  <2>2. a = [j \in 1 .. i |-> q[j]] /\ c = [j \in 1 .. i - 1 |-> q[j]]
        BY <2>1
  <2> HIDE DEF a, c
  <2>3. /\ a \in Seq(S) /\ Len(a) = i /\ \A j \in 1 .. i : a[j] = q[j]
        BY <2>1, <2>2
  <2>4. /\ c \in Seq(S) /\ Len(c) = i - 1 /\ \A j \in 1 .. i - 1 : c[j] = q[j]
    <3>1. \A j \in 1 .. i - 1 : q[j] \in S
          BY <2>1
    <3> QED BY <2>1, <2>2, <3>1
  <2>5. /\ b \in Seq(S) /\ Len(b) = i /\ b[i] = q[i]
        /\ \A j \in 1 .. i - 1 : b[j] = q[j]
        BY <2>1, <2>4
  <2> HIDE DEF b
  <2>6. \A j \in 1 .. i : a[j] = b[j]
        BY <2>1, <2>3, <2>5
  <2>7. a = b
        BY <2>3, <2>5, <2>6, SameSequence
  <2> QED BY <2>7 DEF a, b, c
<1> QED BY <1>1, <1>2, <1>3

LEMMA DeeperNext ==
  ASSUME NEW s \in Seq(Frames), s # <<>>, NEW f \in Frames
  PROVE  /\ Deeper(s, f)[Len(s)].next = s[Len(s)].next + 1
         /\ \A i \in 1 .. Len(s) - 1 : Deeper(s, f)[i].next = s[i].next
<1> DEFINE n == Len(s)
           r == [s EXCEPT ![n].next = @ + 1]
<1>1. n \in Nat \ {0} /\ \A i \in 1 .. n : s[i] \in Frames
      OBVIOUS
<1>2. r \in Seq(Frames) /\ Len(r) = n
  <2> SUFFICES ASSUME NEW e \in Frames
               PROVE  [e EXCEPT !.next = @ + 1] \in Frames
      BY <1>1
  <2> QED BY DEF Frames
<1>3. r[n].next = s[n].next + 1 /\ \A i \in 1 .. n - 1 : r[i] = s[i]
      BY <1>1 DEF Frames
<1>4. Deeper(s, f) = Append(r, f)
      BY DEF Deeper
<1> HIDE DEF r
<1> QED BY <1>1, <1>2, <1>3, <1>4

\* Where the thread is, and what is next.
LEMMA NestedTop ==
  ASSUME NEW s \in Seq(Frames), s # <<>>, Nested(s)
  PROVE  /\ Len(s) \in Nat \ {0} /\ s[Len(s)] \in Frames
         /\ s[Len(s)].at \in Folders /\ s[Len(s)].at \in Seq(Names)
         /\ Len(s[Len(s)].at) = Len(s) - 1
         /\ Subs[s[Len(s)].at] \in Seq(Names)
         /\ s[Len(s)].next \in 1 .. Len(Subs[s[Len(s)].at]) + 1
<1>1. Len(s) \in Nat \ {0} /\ Len(s) \in 1 .. Len(s)
      OBVIOUS
<1>2. s[Len(s)] \in Frames
      BY <1>1
<1> QED BY <1>1, <1>2, Facts DEF Nested, Frames

LEMMA DeeperNested ==
  ASSUME NEW s \in Seq(Frames), s # <<>>, Nested(s), NEW f \in Frames,
         s[Len(s)].next \in DOMAIN Subs[s[Len(s)].at],
         f.at = Child(s[Len(s)].at, s[Len(s)].next), f.next = 1
  PROVE  Nested(Deeper(s, f))
<1> DEFINE n    == Len(s)
           r    == Deeper(s, f)
           here == s[n].at
           i    == s[n].next
<1>1. /\ n \in Nat \ {0} /\ here \in Folders /\ Len(here) = n - 1
      /\ Subs[here] \in Seq(Names) /\ i \in 1 .. Len(Subs[here])
      BY NestedTop
<1>2. f.at \in Folders /\ Len(f.at) = n /\ ButLast(f.at) = here
  <2> HIDE DEF here, i
  <2>1. f.at = Child(here, i) /\ i \in DOMAIN Subs[here]
        BY DEF here, i
  <2> QED BY <1>1, <2>1, ChildIs
<1>3. /\ Len(r) = n + 1 /\ r[n + 1] = f /\ r[n].next = i + 1
      /\ \A j \in 1 .. n : r[j].at = s[j].at
      /\ \A j \in 1 .. n - 1 : r[j].next = s[j].next
      BY DeeperIs, DeeperNext
<1> HIDE DEF r
<1>4. ASSUME NEW j \in 1 .. Len(r)
      PROVE  /\ Len(r[j].at) = j - 1
             /\ r[j].next \in 1 .. Len(Subs[r[j].at]) + 1
  <2>1. CASE j = n + 1
    <3>1. Len(Subs[f.at]) \in Nat
          BY <1>2, Facts
    <3> QED BY <1>1, <1>2, <1>3, <2>1, <3>1
  <2>2. CASE j = n
    <3>1. r[j].at = here /\ r[j].next = i + 1
          BY <1>1, <1>3, <2>2
    <3> HIDE DEF here, i
    <3> QED BY <1>1, <2>2, <3>1
  <2>3. CASE j \in 1 .. n - 1
    <3>1. j \in 1 .. n
          BY <1>1, <2>3
    <3> QED BY <1>3, <2>3, <3>1 DEF Nested
  <2> QED BY <1>1, <1>3, <2>1, <2>2, <2>3
<1>5. ASSUME NEW j \in 2 .. Len(r)
      PROVE  ButLast(r[j].at) = r[j - 1].at
  <2>1. CASE j = n + 1
    <3>1. r[j - 1].at = here
          BY <1>1, <1>3, <2>1
    <3> QED BY <1>2, <1>3, <2>1, <3>1
  <2>2. CASE j \in 2 .. n
    <3>1. j \in 1 .. n /\ j - 1 \in 1 .. n
          BY <1>1, <2>2
    <3> QED BY <1>3, <2>2, <3>1 DEF Nested
  <2> QED BY <1>1, <1>3, <2>1, <2>2
<1> QED BY <1>4, <1>5 DEF Nested, r

LEMMA AboveNested ==
  ASSUME NEW s \in Seq(Frames), s # <<>>, Nested(s)
  PROVE  /\ ButLast(s) \in Seq(Frames) /\ Nested(ButLast(s))
         /\ Len(ButLast(s)) = Len(s) - 1
         /\ \A i \in 1 .. Len(s) - 1 : ButLast(s)[i] = s[i]
<1> DEFINE n == Len(s)
           r == ButLast(s)
<1>1. /\ r \in Seq(Frames) /\ Len(r) = n - 1 /\ n \in Nat
      /\ \A i \in 1 .. n - 1 : r[i] = s[i]
      BY ButLastIs
<1> HIDE DEF r
<1>2. \A i \in 1 .. n - 1 : i \in 1 .. n
      BY <1>1
<1>3. \A i \in 2 .. n - 1 :
        i \in 1 .. n - 1 /\ i - 1 \in 1 .. n - 1 /\ i \in 2 .. n
      BY <1>1
<1>4. Nested(r)
      BY <1>1, <1>2, <1>3 DEF Nested
<1> QED BY <1>1, <1>4 DEF r


\* What is seen of each folder when one more is entered,
LEMMA SeenDeeper ==
  ASSUME NEW s \in Seq(Frames), s # <<>>, Nested(s), NEW f \in Frames,
         s[Len(s)].next \in DOMAIN Subs[s[Len(s)].at],
         f.at = Child(s[Len(s)].at, s[Len(s)].next), f.next = 1
  PROVE  /\ Seen(s, s[Len(s)].at) = s[Len(s)].next - 1
         /\ Seen(Deeper(s, f), s[Len(s)].at) = s[Len(s)].next
         /\ Seen(Deeper(s, f), f.at) = 0
         /\ \A p \in Folders \ {s[Len(s)].at, f.at} :
              Seen(Deeper(s, f), p) = Seen(s, p)
<1> DEFINE n    == Len(s)
           r    == Deeper(s, f)
           here == s[n].at
           i    == s[n].next
<1>1. /\ n \in Nat \ {0} /\ here \in Folders /\ Len(here) = n - 1
      /\ Subs[here] \in Seq(Names) /\ i \in 1 .. Len(Subs[here])
      BY NestedTop
<1>2. f.at \in Folders /\ Len(f.at) = n
  <2> HIDE DEF here, i
  <2>1. f.at = Child(here, i) /\ i \in DOMAIN Subs[here]
        BY DEF here, i
  <2> QED BY <1>1, <2>1, ChildIs
<1>3. /\ Len(r) = n + 1 /\ r[n + 1] = f /\ r[n].next = i + 1
      /\ \A j \in 1 .. n : r[j].at = s[j].at
      /\ \A j \in 1 .. n - 1 : r[j].next = s[j].next
      BY DeeperIs, DeeperNext
<1> HIDE DEF r
<1>4. Seen(s, here) = i - 1
  <2>1. Len(here) < n /\ Len(here) + 1 = n
        BY <1>1
  <2> QED BY <2>1 DEF Seen, OnStack
<1>5. Seen(r, here) = i
  <2>1. /\ Len(here) < Len(r) /\ Len(here) + 1 = n
        /\ r[n].at = here /\ r[n].next - 1 = i
    <3>1. r[n].at = here
          BY <1>1, <1>3
    <3> HIDE DEF here, i
    <3> QED BY <1>1, <1>3, <3>1
  <2> HIDE DEF here, i
  <2> QED BY <2>1 DEF Seen, OnStack
<1>6. Seen(r, f.at) = 0
      BY <1>1, <1>2, <1>3 DEF Seen, OnStack
<1>7. ASSUME NEW p \in Folders, p # here, p # f.at
      PROVE  Seen(r, p) = Seen(s, p)
  <2>1. Len(p) \in Nat
        BY Facts
  <2>2. CASE Len(p) + 1 \in 1 .. n - 1
    <3>1. Len(p) + 1 \in 1 .. n /\ Len(p) < n /\ Len(p) < n + 1
          BY <1>1, <2>1, <2>2
    <3> QED BY <1>3, <2>2, <3>1 DEF Seen, OnStack
  <2>3. CASE Len(p) + 1 = n
    <3>1. s[n].at # p /\ r[n].at # p
          BY <1>1, <1>3, <1>7
    <3> QED BY <2>3, <3>1 DEF Seen, OnStack
  <2>4. CASE Len(p) + 1 = n + 1
    <3>1. r[n + 1].at # p /\ ~(Len(p) < n)
          BY <1>1, <1>3, <1>7, <2>1, <2>4
    <3> QED BY <2>4, <3>1 DEF Seen, OnStack
  <2>5. CASE Len(p) + 1 > n + 1
    <3>1. ~(Len(p) < Len(r)) /\ ~(Len(p) < n)
          BY <1>1, <1>3, <2>1, <2>5
    <3> QED BY <3>1 DEF Seen, OnStack
  <2> QED BY <1>1, <2>1, <2>2, <2>3, <2>4, <2>5
<1> QED BY <1>4, <1>5, <1>6, <1>7 DEF r

\* and when one is left, of which all has been seen.
LEMMA SeenAbove ==
  ASSUME NEW s \in Seq(Frames), s # <<>>, Nested(s),
         s[Len(s)].next = Len(Subs[s[Len(s)].at]) + 1, NEW p \in Folders
  PROVE  Seen(ButLast(s), p) = Seen(s, p)
<1> DEFINE n    == Len(s)
           r    == ButLast(s)
           here == s[n].at
<1>1. /\ n \in Nat \ {0} /\ here \in Folders /\ Len(here) = n - 1
      /\ Len(Subs[here]) \in Nat /\ Len(p) \in Nat
      BY NestedTop, Facts
<1>2. Len(r) = n - 1 /\ \A i \in 1 .. n - 1 : r[i] = s[i]
      BY AboveNested
<1> HIDE DEF r
<1>3. CASE Len(p) + 1 \in 1 .. n - 1
  <2>1. Len(p) < n /\ Len(p) < n - 1
        BY <1>1, <1>3
  <2> QED BY <1>2, <1>3, <2>1 DEF Seen, OnStack, r
<1>4. CASE Len(p) + 1 = n
  <2>1. Len(p) < n /\ ~(Len(p) < n - 1)
        BY <1>1, <1>4
  <2>2. CASE p = here
    <3>1. s[n].next - 1 = Len(Subs[p])
          BY <1>1, <2>2
    <3> QED BY <1>2, <1>4, <2>1, <2>2, <3>1 DEF Seen, OnStack, r
  <2>3. CASE p # here
        BY <1>2, <1>4, <2>1, <2>3 DEF Seen, OnStack, r
  <2> QED BY <2>2, <2>3
<1>5. CASE Len(p) + 1 > n
  <2>1. ~(Len(p) < n) /\ ~(Len(p) < n - 1)
        BY <1>1, <1>5
  <2> QED BY <1>2, <2>1 DEF Seen, OnStack, r
<1> QED BY <1>1, <1>3, <1>4, <1>5

LEMMA GrownDeeper ==
  ASSUME NEW s \in Seq(Frames), s # <<>>, Nested(s), NEW f \in Frames,
         s[Len(s)].next \in DOMAIN Subs[s[Len(s)].at],
         f.at = Child(s[Len(s)].at, s[Len(s)].next), f.next = 1,
         NEW D, Grown(D, s)
  PROVE  f.at \notin D /\ Grown(D \cup {f.at}, Deeper(s, f))
<1> DEFINE n    == Len(s)
           r    == Deeper(s, f)
           here == s[n].at
           i    == s[n].next
           E    == D \cup {f.at}
<1>1. /\ n \in Nat \ {0} /\ here \in Folders /\ here \in Seq(Names)
      /\ Subs[here] \in Seq(Names) /\ i \in 1 .. Len(Subs[here])
      BY NestedTop
<1>2. /\ f.at = Child(here, i) /\ f.at \in Folders /\ f.at # <<>>
      /\ f.at \in Seq(Names) /\ ButLast(f.at) = here
  <2> HIDE DEF here, i
  <2>1. f.at = Child(here, i) /\ i \in DOMAIN Subs[here]
        BY DEF here, i
  <2> QED BY <1>1, <2>1, ChildIs
<1>3. /\ Len(r) = n + 1 /\ r[n + 1] = f
      /\ \A j \in 1 .. n : r[j].at = s[j].at
      BY DeeperIs
<1>4. /\ Seen(s, here) = i - 1 /\ Seen(r, here) = i /\ Seen(r, f.at) = 0
      /\ \A p \in Folders \ {here, f.at} : Seen(r, p) = Seen(s, p)
      BY SeenDeeper
<1>5. /\ D \subseteq Folders /\ <<>> \in D
      /\ \A p \in D \ {<<>>} : ButLast(p) \in D
      /\ \A j \in 1 .. n : s[j].at \in D
      /\ \A p \in D : \A j \in DOMAIN Subs[p] :
           Child(p, j) \in D <=> j <= Seen(s, p)
      BY DEF Grown
<1>6. here \in D
      BY <1>1, <1>5
<1> HIDE DEF r, here, i
<1>7. f.at \notin D
      BY <1>1, <1>2, <1>4, <1>5, <1>6
<1>8. \A p \in E \ {<<>>} : ButLast(p) \in E
      BY <1>2, <1>5, <1>6
<1>9. \A j \in 1 .. Len(r) : r[j].at \in E
      BY <1>1, <1>3, <1>5
<1>10. ASSUME NEW p \in E, NEW j \in DOMAIN Subs[p]
       PROVE  Child(p, j) \in E <=> j <= Seen(r, p)
  <2>1. /\ p \in Folders /\ Child(p, j) # <<>> /\ ButLast(Child(p, j)) = p
        /\ Len(Child(p, j)) = Len(p) + 1 /\ Len(p) \in Nat
        /\ Subs[p] \in Seq(Names) /\ j \in 1 .. Len(Subs[p])
    <3>1. p \in Folders
          BY <1>2, <1>5
    <3> QED BY <3>1, ChildIs, Facts
  <2>2. CASE p = f.at
    <3>1. Child(p, j) # f.at
          BY <2>1, <2>2
    <3>2. Child(p, j) \notin D
          BY <1>5, <1>7, <2>1, <2>2
    <3> QED BY <1>4, <2>1, <2>2, <3>1, <3>2
  <2>3. CASE p = here
    <3>1. CASE j = i
          BY <1>2, <1>4, <2>1, <2>3, <3>1
    <3>2. CASE j # i
      <4>1. Subs[here][j] # Subs[here][i]
        <5>1. \A k, m \in DOMAIN Subs[here] :
                Subs[here][k] = Subs[here][m] => k = m
              BY <1>1, FolderInUseAssumption
        <5> QED BY <1>1, <2>1, <2>3, <3>2, <5>1
      <4>2. Child(here, j) # f.at
        <5>1. /\ Child(here, j) = Append(here, Subs[here][j])
              /\ Child(here, i) = Append(here, Subs[here][i])
              BY DEF Child
        <5>2. Subs[here][j] \in Names /\ Subs[here][i] \in Names
              BY <1>1, <2>1, <2>3
        <5> QED BY <1>1, <1>2, <4>1, <5>1, <5>2
      <4>3. Child(here, j) \in D <=> j <= i - 1
            BY <1>4, <1>5, <1>6, <2>3
      <4> QED BY <1>1, <1>4, <2>1, <2>3, <3>2, <4>2, <4>3
    <3> QED BY <3>1, <3>2
  <2>4. CASE p # f.at /\ p # here
    <3>1. Child(p, j) # f.at
          BY <1>2, <2>1, <2>4
    <3>2. p \in D /\ Seen(r, p) = Seen(s, p)
          BY <1>4, <2>1, <2>4
    <3> QED BY <1>5, <3>1, <3>2
  <2> QED BY <2>2, <2>3, <2>4
<1>11. E \subseteq Folders /\ <<>> \in E
       BY <1>2, <1>5
<1>12. Grown(E, r)
       BY <1>8, <1>9, <1>10, <1>11 DEF Grown
<1> QED BY <1>7, <1>12 DEF r

LEMMA GrownAbove ==
  ASSUME NEW s \in Seq(Frames), s # <<>>, Nested(s),
         s[Len(s)].next = Len(Subs[s[Len(s)].at]) + 1, NEW D, Grown(D, s)
  PROVE  Grown(D, ButLast(s))
<1>1. \A p \in Folders : Seen(ButLast(s), p) = Seen(s, p)
      BY SeenAbove
<1>2. /\ Len(ButLast(s)) = Len(s) - 1 /\ Len(s) \in Nat
      /\ \A i \in 1 .. Len(s) - 1 : ButLast(s)[i] = s[i]
      BY AboveNested
<1>3. \A i \in 1 .. Len(s) - 1 : i \in 1 .. Len(s)
      BY <1>2
<1>4. \A i \in 1 .. Len(ButLast(s)) : ButLast(s)[i].at \in D
      BY <1>2, <1>3 DEF Grown
<1>5. \A p \in D : p \in Folders
      BY DEF Grown
<1> QED BY <1>1, <1>4, <1>5 DEF Grown


-----------------------------------------------------------------------------
(* Each line keeps what has arrived equal to what has been seen *)

\* One line read on: of the folder that is entered, or of the end of one.
LEMMA DeeperArrives ==
  ASSUME NEW s \in Seq(Frames), s # <<>>, Nested(s), NEW f \in Frames,
         s[Len(s)].next \in DOMAIN Subs[s[Len(s)].at],
         f.at = Child(s[Len(s)].at, s[Len(s)].next), f.next = 1,
         NEW l, Arrived(l, s)
  PROVE  Arrived(Read(l, Written(f.at)), Deeper(s, f))
<1> DEFINE n     == Len(s)
           r     == Deeper(s, f)
           here  == s[n].at
           i     == s[n].next
           child == f.at
           line  == Written(child)
           name  == Subs[here][i]
<1>1. /\ n \in Nat \ {0} /\ here \in Folders /\ here \in Seq(Names)
      /\ Subs[here] \in Seq(Names) /\ i \in 1 .. Len(Subs[here])
      BY NestedTop
<1>2. /\ child \in Folders /\ child # <<>> /\ child \in Seq(Names)
      /\ child = Append(here, name) /\ child[Len(child)] = name
      /\ child # here
  <2> HIDE DEF here, i, child
  <2>1. child = Child(here, i) /\ i \in DOMAIN Subs[here]
        BY DEF here, i, child
  <2>2. name \in Names
        BY <1>1
  <2> QED BY <1>1, <2>1, <2>2, ChildIs DEF Child
<1>3. Len(r) = n + 1 /\ r[n + 1] = f
      BY DeeperIs
<1>4. /\ Seen(s, here) = i - 1 /\ Seen(r, here) = i /\ Seen(r, child) = 0
      /\ \A p \in Folders \ {here, child} : Seen(r, p) = Seen(s, p)
      BY SeenDeeper
<1>5. PICK D : Grown(D, s) /\ l = ReadSoFar(D, s)
      BY DEF Arrived
<1> DEFINE E == D \cup {child}
<1>6. child \notin D /\ Grown(E, r)
      BY <1>5, GrownDeeper
<1>7. D \subseteq Folders /\ here \in D
      BY <1>1, <1>5 DEF Grown
<1>8. /\ l.at = here /\ l.height = n /\ DOMAIN l.subs = D
      /\ \A p \in D : l.subs[p] = SubSeq(Subs[p], 1, Seen(s, p))
      /\ \A p \in D : l.files[p] = FilesIn[p]
      BY <1>5 DEF ReadSoFar
<1>9. line.name = name /\ line.files = FilesIn[child] /\ ~line.pop
      BY <1>2 DEF Written
<1> HIDE DEF here, i, child, line, r, name, n
<1>10. Read(l, line) =
         [at |-> child, height |-> n + 1,
          subs |-> [p \in E |-> CASE p = child -> <<>>
                                  [] p = l.at -> Append(l.subs[p], name)
                                  [] OTHER    -> l.subs[p]],
          files |-> [p \in E |-> IF p = child THEN FilesIn[child]
                                              ELSE l.files[p]]]
       BY <1>1, <1>2, <1>8, <1>9 DEF Read, Parsed
<1>11. ASSUME NEW p \in E
       PROVE  (CASE p = child -> <<>>
                 [] p = l.at -> Append(l.subs[p], name)
                 [] OTHER    -> l.subs[p]) = SubSeq(Subs[p], 1, Seen(r, p))
  <2>1. p \in Folders /\ Subs[p] \in Seq(Names)
        BY <1>2, <1>7, Facts
  <2>2. CASE p = child
    <3>1. SubSeq(Subs[p], 1, 0) = <<>>
          BY <2>1, Prefixes
    <3> QED BY <1>2, <1>4, <1>8, <2>2, <3>1
  <2>3. CASE p = here
    <3>1. /\ SubSeq(Subs[here], 1, i)
                = Append(SubSeq(Subs[here], 1, i - 1), Subs[here][i])
          BY <1>1, Prefixes
    <3>2. l.subs[p] = SubSeq(Subs[here], 1, i - 1)
          BY <1>4, <1>7, <1>8, <2>3
    <3>3. p # child /\ p = l.at /\ Seen(r, p) = i
          BY <1>2, <1>4, <1>8, <2>3
    <3>4. name = Subs[here][i]
          BY DEF name
    <3>5. Append(l.subs[p], name) = SubSeq(Subs[p], 1, Seen(r, p))
          BY <2>3, <3>1, <3>2, <3>3, <3>4
    <3> QED BY <3>3, <3>5
  <2>4. CASE p # child /\ p # here
        BY <1>4, <1>8, <2>1, <2>4
  <2> QED BY <2>2, <2>3, <2>4
<1>12. \A p \in E : (IF p = child THEN FilesIn[child] ELSE l.files[p])
                      = FilesIn[p]
       BY <1>8
<1>13. /\ [p \in E |-> CASE p = child -> <<>>
                        [] p = l.at -> Append(l.subs[p], name)
                        [] OTHER    -> l.subs[p]]
            = [p \in E |-> SubSeq(Subs[p], 1, Seen(r, p))]
       /\ [p \in E |-> IF p = child THEN FilesIn[child] ELSE l.files[p]]
            = [p \in E |-> FilesIn[p]]
       BY <1>11, <1>12
<1>14. Read(l, line) = ReadSoFar(E, r)
       BY <1>1, <1>3, <1>10, <1>13 DEF ReadSoFar, child
<1> QED BY <1>6, <1>14 DEF Arrived, child, r, line

\* A folder that is not the first one to be read is left.
LEMMA AboveArrives ==
  ASSUME NEW s \in Seq(Frames), s # <<>>, Len(s) > 1, Nested(s),
         s[Len(s)].next = Len(Subs[s[Len(s)].at]) + 1, NEW l, Arrived(l, s)
  PROVE  Arrived(Read(l, Pop), ButLast(s))
<1> DEFINE n == Len(s)
           r == ButLast(s)
<1>1. PICK D : Grown(D, s) /\ l = ReadSoFar(D, s)
      BY DEF Arrived
<1>2. Grown(D, r)
      BY <1>1, GrownAbove
<1>3. /\ n \in Nat /\ n > 1 /\ Len(s[n].at) = n - 1
      /\ s[n].at \in Seq(Names) /\ Len(r) = n - 1 /\ r[n - 1] = s[n - 1]
  <2>1. n \in Nat /\ Len(s[n].at) = n - 1 /\ s[n].at \in Seq(Names)
        BY NestedTop
  <2>2. n - 1 \in 1 .. n - 1
        BY <2>1
  <2> QED BY <2>1, <2>2, AboveNested
<1>4. ButLast(s[n].at) = s[n - 1].at /\ s[n].at # <<>>
  <2>1. n \in 2 .. n
        BY <1>3
  <2>2. s[n].at # <<>>
        BY <1>3
  <2> QED BY <2>1, <2>2 DEF Nested
<1>5. \A p \in D : Seen(r, p) = Seen(s, p)
  <2>1. \A p \in D : p \in Folders
        BY <1>1 DEF Grown
  <2> QED BY <2>1, SeenAbove
<1> HIDE DEF n, r
<1>6. [p \in D |-> SubSeq(Subs[p], 1, Seen(s, p))]
        = [p \in D |-> SubSeq(Subs[p], 1, Seen(r, p))]
      BY <1>5
<1>7. Popped(l) = [l EXCEPT !.at = ButLast(s[n].at), !.height = n - 1]
      BY <1>1, <1>4 DEF Popped, ReadSoFar, n
<1>8. Popped(l) = [at |-> s[n - 1].at, height |-> n - 1,
                   subs |-> [p \in D |-> SubSeq(Subs[p], 1, Seen(s, p))],
                   files |-> [p \in D |-> FilesIn[p]]]
      BY <1>1, <1>4, <1>7 DEF ReadSoFar
<1>9. Read(l, Pop) = Popped(l)
      BY DEF Read, Pop
<1>10. Read(l, Pop) = ReadSoFar(D, r)
       BY <1>3, <1>6, <1>8, <1>9 DEF ReadSoFar
<1> QED BY <1>2, <1>10 DEF Arrived, r

\* The first line, of the folder itself.
LEMMA FirstArrives ==
  ASSUME NEW f \in Frames, f.at = <<>>, f.next = 1
  PROVE  Nested(<<f>>) /\ Arriving(<<Written(<<>>)>>, <<f>>)
<1> DEFINE s     == <<f>>
           line  == Written(<<>>)
           lines == <<line>>
           D     == {<<>>}
<1>1. /\ Len(s) = 1 /\ s[1] = f /\ <<>> \in Folders /\ Len(Subs[<<>>]) \in Nat
      /\ \A i \in 1 .. Len(s) : i = 1
      BY Facts
<1> HIDE DEF s
<1>2. Nested(s)
      BY <1>1 DEF Nested
<1>3. Seen(s, <<>>) = 0
      BY <1>1 DEF Seen, OnStack
<1>4. Grown(D, s)
  <2>1. \A i \in DOMAIN Subs[<<>>] : Child(<<>>, i) \notin D /\ ~(i <= 0)
    <3>1. \A i \in DOMAIN Subs[<<>>] : i \in 1 .. Len(Subs[<<>>])
          BY Facts
    <3> QED BY <1>1, <3>1, ChildIs
  <2> QED BY <1>1, <1>3, <2>1 DEF Grown
<1>5. Read(NothingRead, line) = ReadSoFar(D, s)
  <2>1. Read(NothingRead, line) =
          [at |-> <<>>, height |-> 1, subs |-> [p \in D |-> <<>>],
           files |-> [p \in D |-> FilesIn[<<>>]]]
        BY DEF Read, Parsed, NothingRead, Written
  <2>2. SubSeq(Subs[<<>>], 1, 0) = <<>>
        BY <1>1, Facts, Prefixes
  <2>3. /\ [p \in D |-> <<>>] = [p \in D |-> SubSeq(Subs[p], 1, Seen(s, p))]
        /\ [p \in D |-> FilesIn[<<>>]] = [p \in D |-> FilesIn[p]]
        BY <1>3, <2>2
  <2> QED BY <1>1, <2>1, <2>3 DEF ReadSoFar
<1>6. Arrived(Read(NothingRead, line), s)
      BY <1>4, <1>5 DEF Arrived
<1>7. lines = Append(<<>>, line) /\ line \in Lines /\ <<>> \in Seq(Lines)
      BY Facts DEF Lines
<1>8. /\ \E g : Loads(g, <<>>)
      /\ \A g : Loads(g, <<>>) => g[Len(<<>>)] = NothingRead
  <2>1. 0 .. Len(<<>>) = {0} /\ Len(<<>>) = 0
        OBVIOUS
  <2> DEFINE g0 == [i \in {0} |-> NothingRead]
  <2>2. \A g : Loads(g, <<>>) <=>
          g = [i \in {0} |-> IF i = 0 THEN NothingRead
                                      ELSE Read(g[i - 1], <<>>[i])]
        BY <2>1 DEF Loads
  <2>3. \A g : Loads(g, <<>>) <=> g = g0
    <3>1. \A g : [i \in {0} |-> IF i = 0 THEN NothingRead
                                      ELSE Read(g[i - 1], <<>>[i])] = g0
          OBVIOUS
    <3> QED BY <2>2, <3>1
  <2>4. g0[0] = NothingRead
        OBVIOUS
  <2> HIDE DEF g0
  <2> QED BY <2>1, <2>3, <2>4
<1> HIDE DEF line
<1>9. Arriving(Append(<<>>, line), s)
  <2>1. \E h : Loads(h, Append(<<>>, line))
        BY <1>7, <1>8, ReadsOn
  <2>2. ASSUME NEW h, Loads(h, Append(<<>>, line))
        PROVE  Arrived(h[Len(Append(<<>>, line))], s)
    <3>1. PICK g : /\ Loads(g, <<>>)
                   /\ h[Len(Append(<<>>, line))] = Read(g[Len(<<>>)], line)
          BY <1>7, <1>8, <2>2, ReadsOn
    <3> QED BY <1>6, <1>8, <3>1
  <2> QED BY <2>1, <2>2 DEF Arriving
<1> QED BY <1>2, <1>7, <1>9 DEF s, line


\* Once all of the root's folders have been seen, the whole tree has.
LEMMA AllGrown ==
  ASSUME NEW s, NEW D, Grown(D, s),
         \A p \in Folders : Seen(s, p) = Len(Subs[p])
  PROVE  D = Folders
<1> DEFINE Missing == {p \in Folders : p \notin D}
           T       == {Len(p) : p \in Missing}
<1>1. SUFFICES ASSUME Missing # {} PROVE FALSE
      BY DEF Grown
<1>2. T \subseteq Nat /\ T # {}
  <2>1. \A p \in Missing : Len(p) \in Nat
        BY Facts
  <2> HIDE DEF Missing
  <2> QED BY <1>1, <2>1
<1>3. PICK p \in Missing : \A q \in Missing : ~(Len(q) < Len(p))
  <2>1. PICK m \in T : \A k \in T : <<k, m>> \notin OpToRel(<, Nat)
    <3> HIDE DEF T
    <3> QED BY <1>2, NatLessThanWellFounded, WFMin
  <2>2. \A k \in T : ~(k < m)
    <3> HIDE DEF T
    <3> QED BY <1>2, <2>1 DEF OpToRel
  <2> QED BY <2>2
<1>4. p \in Folders /\ p \notin D /\ p # <<>> /\ p \in Seq(Names)
      BY Facts DEF Grown
<1>5. PICK i \in DOMAIN Subs[ButLast(p)] : p = Child(ButLast(p), i)
      BY <1>4, FolderInUseAssumption
<1>6. ButLast(p) \in Folders
      BY <1>4, FolderInUseAssumption
<1>7. Len(ButLast(p)) < Len(p)
  <2>1. Len(ButLast(p)) = Len(p) - 1 /\ Len(p) \in Nat
        BY <1>4, ButLastIs
  <2> QED BY <2>1
<1>8. ButLast(p) \in D
      BY <1>3, <1>6, <1>7
<1>9. i <= Len(Subs[ButLast(p)])
      BY <1>5, <1>6, Facts
<1>10. Child(ButLast(p), i) \in D
       BY <1>6, <1>8, <1>9 DEF Grown
<1> QED BY <1>4, <1>5, <1>10

\* The last line.
LEMMA LastArrives ==
  ASSUME NEW s \in Seq(Frames), Len(s) = 1, Nested(s),
         s[Len(s)].next = Len(Subs[s[Len(s)].at]) + 1, NEW l, Arrived(l, s)
  PROVE  Whole(Read(l, Pop))
<1>1. PICK D : Grown(D, s) /\ l = ReadSoFar(D, s)
      BY DEF Arrived
<1>2. s # <<>>
      BY DEF Whole
<1>3. s[1].at = <<>> /\ s[1].next - 1 = Len(Subs[<<>>])
  <2>1. Len(s[1].at) = 0 /\ s[1].at \in Seq(Names)
        BY <1>2, NestedTop
  <2>2. s[1].at = <<>> /\ Len(Subs[<<>>]) \in Nat
        BY <2>1, Facts
  <2> QED BY <2>2
<1>4. ASSUME NEW p \in Folders
      PROVE  Seen(s, p) = Len(Subs[p])
  <2>1. Len(p) \in Nat
        BY Facts
  <2>2. CASE p = <<>>
        BY <1>3, <2>2 DEF Seen, OnStack
  <2>3. CASE p # <<>>
    <3>1. ~(Len(p) < 1)
          BY <2>1, <2>3, Facts
    <3> QED BY <3>1 DEF Seen, OnStack
  <2> QED BY <2>2, <2>3
<1>5. D = Folders
      BY <1>1, <1>4, AllGrown
<1>6. [p \in D |-> SubSeq(Subs[p], 1, Seen(s, p))] = Subs
  <2>1. \A p \in Folders : SubSeq(Subs[p], 1, Seen(s, p)) = Subs[p]
        BY <1>4, Facts, Prefixes
  <2>2. Subs = [p \in Folders |-> Subs[p]]
        BY FolderInUseAssumption
  <2> QED BY <1>5, <2>1, <2>2
<1>7. [p \in D |-> FilesIn[p]] = FilesIn
      BY <1>5, FolderInUseAssumption
<1>8. l = [at |-> <<>>, height |-> 1, subs |-> Subs, files |-> FilesIn]
      BY <1>1, <1>3, <1>6, <1>7 DEF ReadSoFar
<1>9. Read(l, Pop) = Popped(l)
      BY DEF Read, Pop
<1>10. /\ Popped(l).subs = l.subs /\ Popped(l).files = l.files
       /\ Popped(l).height = 0
       BY <1>8 DEF Popped
<1> QED BY <1>8, <1>9, <1>10 DEF Whole

-----------------------------------------------------------------------------
(* One step of any thread, alone or not *)

LEMMA CallsInit == Init => TreeInv
<1> SUFFICES ASSUME Init PROVE TreeInv
    OBVIOUS
<1>1. Home \in Seq(Names \cup {Nul})
  <2>1. Names \subseteq Names \cup {Nul} /\ Home \in Seq(Names)
        BY Facts
  <2> QED BY <2>1
<1>2. Nested(<<>>)
      BY DEF Nested
<1> QED BY <1>1, <1>2 DEF Init, TreeInv, CallsOK, TreesArriveWhole

\* What the step of one thread must leave to keep TreeInv.
LEMMA OneThread ==
  ASSUME TreeInv, NEW t \in Threads, NEW s \in Seq(Frames),
         NEW lines \in Seq(Lines), Nested(s),
         stack' = [stack EXCEPT ![t] = s],
         wrote' = [wrote EXCEPT ![t] = lines],
         iterPath' \in Seq(Names \cup {Nul}),
         s # <<>> => Arriving(lines, s),
         s = <<>> => Whole(LoadStructure(lines))
  PROVE  TreeInv'
<1>1. /\ stack'[t] = s /\ wrote'[t] = lines
      /\ \A u \in Threads : u # t => /\ stack'[u] = stack[u]
                                     /\ wrote'[u] = wrote[u]
      /\ stack' \in [Threads -> Seq(Frames)]
      /\ wrote' \in [Threads -> Seq(Lines)]
      BY DEF TreeInv, CallsOK
<1>2. \A u \in Threads : Nested(stack'[u])
      BY <1>1 DEF TreeInv, CallsOK
<1>3. \A u \in Threads :
        stack'[u] # <<>> => Arriving(wrote'[u], stack'[u])
      BY <1>1 DEF TreeInv
<1>4. \A u \in Threads : stack'[u] = <<>> /\ wrote'[u] # <<>> =>
                           Whole(LoadStructure(wrote'[u]))
      BY <1>1 DEF TreeInv, TreesArriveWhole, Whole
<1>5. CallsOK'
      BY <1>1, <1>2 DEF CallsOK
<1>6. TreesArriveWhole'
      BY <1>4 DEF TreesArriveWhole, Whole
<1> QED BY <1>3, <1>5, <1>6 DEF TreeInv

LEMMA TreeAccess ==
  ASSUME TreeInv, NEW t \in Threads, Access(t)
  PROVE  TreeInv'
<1> DEFINE f == Frame(<<>>, TRUE, iterPath)
<1>1. f.at = <<>> /\ f.next = 1 /\ f \in Frames
  <2>1. Len(iterPath) \in Nat
        BY DEF TreeInv, CallsOK
  <2> QED BY <2>1, Facts DEF Frame, Frames
<1>2. /\ stack' = [stack EXCEPT ![t] = <<f>>]
      /\ wrote' = [wrote EXCEPT ![t] = <<Written(<<>>)>>]
      /\ iterPath' = iterPath
      BY DEF Access
<1> HIDE DEF f
<1>3. Nested(<<f>>) /\ Arriving(<<Written(<<>>)>>, <<f>>)
      BY <1>1, FirstArrives
<1>4. <<f>> \in Seq(Frames) /\ <<f>> # <<>>
      BY <1>1
<1>5. <<Written(<<>>)>> \in Seq(Lines)
  <2>1. Written(<<>>) \in Lines
        BY Facts DEF Lines
  <2> QED BY <2>1
<1>6. iterPath' \in Seq(Names \cup {Nul})
      BY <1>2 DEF TreeInv, CallsOK
<1> QED BY <1>2, <1>3, <1>4, <1>5, <1>6, OneThread

LEMMA TreeDescend ==
  ASSUME TreeInv, NEW t \in Threads, Descend(t)
  PROVE  TreeInv'
<1> DEFINE s     == stack[t]
           n     == Len(s)
           here  == s[n].at
           i     == s[n].next
           child == Child(here, i)
           f     == Frame(child, Hooked(here), iterPath')
           r     == Deeper(s, f)
<1>1. s \in Seq(Frames) /\ s # <<>> /\ Nested(s) /\ wrote[t] \in Seq(Lines)
      BY DEF TreeInv, CallsOK, Descend
<1>2. /\ here \in Folders /\ Subs[here] \in Seq(Names)
      BY <1>1, NestedTop
<1>3. /\ i \in DOMAIN Subs[here]
      /\ iterPath' = IF Hooked(here) THEN Append(iterPath, Subs[here][i])
                                     ELSE iterPath
      /\ stack' = [stack EXCEPT ![t] = r]
      /\ wrote' = [wrote EXCEPT ![t] = Append(wrote[t], Written(child))]
      BY DEF Descend, Top, Write
<1>4. child \in Folders
  <2> HIDE DEF here, i
  <2> QED BY <1>2, <1>3, ChildIs
<1>5. iterPath' \in Seq(Names \cup {Nul})
  <2>1. Subs[here][i] \in Names
        BY <1>2, <1>3
  <2>2. iterPath \in Seq(Names \cup {Nul})
        BY DEF TreeInv, CallsOK
  <2> HIDE DEF here, i
  <2> QED BY <1>3, <2>1, <2>2
<1>6. f \in Frames /\ f.at = child /\ f.next = 1
  <2>1. Len(iterPath') \in Nat
        BY <1>5
  <2> HIDE DEF child, here
  <2> QED BY <1>4, <2>1 DEF Frame, Frames
<1> HIDE DEF f
<1>7. Nested(r) /\ r \in Seq(Frames) /\ r # <<>>
      BY <1>1, <1>3, <1>6, DeeperNested, DeeperIs
<1>8. \A l : Arrived(l, s) => Arrived(Read(l, Written(child)), r)
  <2> HIDE DEF r
  <2> SUFFICES ASSUME NEW l, Arrived(l, s)
               PROVE  Arrived(Read(l, Written(child)), r)
      OBVIOUS
  <2>1. Arrived(Read(l, Written(f.at)), Deeper(s, f))
        BY <1>1, <1>3, <1>6, DeeperArrives
  <2> QED BY <1>6, <2>1 DEF r
<1>9. Written(child) \in Lines
      BY <1>4 DEF Lines
<1> DEFINE lines == Append(wrote[t], Written(child))
<1>10. lines \in Seq(Lines)
       BY <1>1, <1>9
<1>11. Arriving(lines, r)
  <2>1. Arriving(wrote[t], s)
        BY <1>1 DEF TreeInv
  <2> HIDE DEF r, s, child
  <2> QED BY <1>1, <1>8, <1>9, <2>1, ArrivingOn
<1> HIDE DEF r, lines
<1>12. wrote' = [wrote EXCEPT ![t] = lines]
       BY <1>3 DEF lines
<1> QED BY <1>3, <1>5, <1>7, <1>10, <1>11, <1>12, OneThread

LEMMA TreeAscend ==
  ASSUME TreeInv, NEW t \in Threads, Ascend(t)
  PROVE  TreeInv'
<1> DEFINE s == stack[t]
           n == Len(s)
           r == ButLast(s)
           lines == Append(wrote[t], Pop)
<1>1. /\ s \in Seq(Frames) /\ s # <<>> /\ Nested(s) /\ n > 1
      /\ wrote[t] \in Seq(Lines) /\ Pop \in Lines
      /\ iterPath \in Seq(Names \cup {Nul})
      BY DEF TreeInv, CallsOK, Ascend, AtEnd, Lines
<1>2. s[n].next = Len(Subs[s[n].at]) + 1
      BY DEF Ascend, AtEnd, Top
<1>3. /\ stack' = [stack EXCEPT ![t] = r]
      /\ wrote' = [wrote EXCEPT ![t] = lines]
      /\ iterPath' = iterPath \/ iterPath' = Resize(iterPath, s[n - 1].size)
      BY DEF Ascend, Write
<1>4. iterPath' \in Seq(Names \cup {Nul})
  <2>1. n \in Nat /\ n - 1 \in 1 .. n
        BY <1>1
  <2>2. s[n - 1] \in Frames
        BY <1>1, <2>1
  <2>3. s[n - 1].size \in Nat
        BY <2>2 DEF Frames
  <2>4. ASSUME NEW k \in Nat
        PROVE  Resize(iterPath, k) \in Seq(Names \cup {Nul})
        BY <1>1 DEF Resize
  <2> QED BY <1>1, <1>3, <2>3, <2>4
<1>5. r \in Seq(Frames) /\ Nested(r) /\ Len(r) = n - 1 /\ r # <<>>
  <2>1. r \in Seq(Frames) /\ Nested(r) /\ Len(r) = n - 1
        BY <1>1, AboveNested
  <2>2. n \in Nat
        BY <1>1
  <2> HIDE DEF r, n
  <2> QED BY <1>1, <2>1, <2>2
<1>6. \A l : Arrived(l, s) => Arrived(Read(l, Pop), r)
      BY <1>1, <1>2, AboveArrives
<1>7. lines \in Seq(Lines)
      BY <1>1
<1>8. Arriving(lines, r)
  <2>1. Arriving(wrote[t], s)
        BY <1>1 DEF TreeInv
  <2> HIDE DEF r, s
  <2> QED BY <1>1, <1>6, <2>1, ArrivingOn
<1> HIDE DEF r, lines
<1> QED BY <1>3, <1>4, <1>5, <1>7, <1>8, OneThread

LEMMA TreeFinish ==
  ASSUME TreeInv, NEW t \in Threads, Finish(t)
  PROVE  TreeInv'
<1> DEFINE s == stack[t]
           lines == Append(wrote[t], Pop)
<1>1. /\ s \in Seq(Frames) /\ s # <<>> /\ Nested(s) /\ Len(s) = 1
      /\ wrote[t] \in Seq(Lines) /\ Pop \in Lines
      /\ iterPath \in Seq(Names \cup {Nul})
      BY DEF TreeInv, CallsOK, Finish, AtEnd, Lines
<1>2. s[Len(s)].next = Len(Subs[s[Len(s)].at]) + 1
      BY DEF Finish, AtEnd, Top
<1>3. /\ stack' = [stack EXCEPT ![t] = <<>>]
      /\ wrote' = [wrote EXCEPT ![t] = lines] /\ iterPath' = iterPath
      BY DEF Finish, Write
<1>4. Arriving(wrote[t], s)
      BY <1>1 DEF TreeInv
<1>5. lines \in Seq(Lines)
      BY <1>1
<1>6. Whole(LoadStructure(lines))
  <2>1. \E h : Loads(h, lines)
        BY <1>1, <1>4, ReadsOn DEF Arriving
  <2>2. PICK h : Loads(h, lines) /\ LoadStructure(lines) = h[Len(lines)]
    <3> HIDE DEF lines
    <3> QED BY <2>1, LoadStructureIs
  <2>3. PICK g : /\ Loads(g, wrote[t])
                 /\ h[Len(lines)] = Read(g[Len(wrote[t])], Pop)
        BY <1>1, <1>4, <2>2, ReadsOn DEF Arriving
  <2>4. Arrived(g[Len(wrote[t])], s)
        BY <1>4, <2>3 DEF Arriving
  <2>5. Whole(Read(g[Len(wrote[t])], Pop))
        BY <1>1, <1>2, <2>4, LastArrives
  <2> QED BY <2>2, <2>3, <2>5
<1>7. Nested(<<>>) /\ <<>> \in Seq(Frames)
      BY DEF Nested
<1> HIDE DEF lines
<1> QED BY <1>1, <1>3, <1>5, <1>6, <1>7, OneThread

LEMMA TreeNext == TreeInv /\ [Next]_vars => TreeInv'
<1> SUFFICES ASSUME TreeInv, [Next]_vars PROVE TreeInv'
    OBVIOUS
<1>1. CASE UNCHANGED <<iterPath, stack, wrote>>
      BY <1>1 DEF TreeInv, CallsOK, TreesArriveWhole
<1>2. ASSUME NEW t \in Threads, NEW p \in Folders,
             NEW i \in DOMAIN FilesIn[p], Pull(t, p, i)
      PROVE  TreeInv'
      BY <1>1, <1>2 DEF Pull, Tell
<1>3. CASE Save
      BY <1>1, <1>3 DEF Save, Tell
<1>4. CASE UNCHANGED vars
      BY <1>1, <1>4 DEF vars
<1> QED BY <1>2, <1>3, <1>4, TreeAccess, TreeDescend, TreeAscend, TreeFinish
        DEF Next

\* The other host reads every tree as it is, however many threads write theirs
\* at one time and whatever that does to the path.
THEOREM TreesAlwaysArrive == Spec => []TreesArriveWhole
<1>1. TreeInv => TreesArriveWhole
      BY DEF TreeInv
<1> QED BY <1>1, CallsInit, TreeNext, PTL DEF Spec

-----------------------------------------------------------------------------
(* FolderCopy: sequences *)

Beginning(w, m) == [i \in 1 .. m |-> w[i]]
Piece(w, m, n)  == [i \in 1 .. n |-> w[m + i]]

LEMMA BeginningTyped ==
  ASSUME NEW S, NEW w \in Seq(S), NEW m \in Nat, m <= Len(w)
  PROVE  Beginning(w, m) \in Seq(S) /\ Len(Beginning(w, m)) = m
BY DEF Beginning

LEMMA PieceTyped ==
  ASSUME NEW S, NEW w \in Seq(S), NEW m \in Nat, NEW n \in Nat,
         m + n <= Len(w)
  PROVE  Piece(w, m, n) \in Seq(S) /\ Len(Piece(w, m, n)) = n
BY DEF Piece

LEMMA PiecesJoin ==
  ASSUME NEW S, NEW w \in Seq(S), NEW m \in Nat, NEW n \in Nat,
         m + n <= Len(w)
  PROVE  Beginning(w, m) \o Piece(w, m, n) = Beginning(w, m + n)
<1> DEFINE a == Beginning(w, m)
           b == Piece(w, m, n)
           c == Beginning(w, m + n)
           l == a \o b
<1>1. a \in Seq(S) /\ Len(a) = m /\ m \in Nat
  BY BeginningTyped
<1>2. b \in Seq(S) /\ Len(b) = n /\ n \in Nat
  BY PieceTyped
<1>3. c \in Seq(S) /\ Len(c) = m + n
  BY BeginningTyped
<1>4. \A i \in 1 .. m : a[i] = w[i]
  BY DEF Beginning
<1>5. \A i \in 1 .. n : b[i] = w[m + i]
  BY DEF Piece
<1>6. \A i \in 1 .. m + n : c[i] = w[i]
  BY DEF Beginning
<1> HIDE DEF a, b, c
<1>7. /\ l \in Seq(S) /\ Len(l) = Len(a) + Len(b)
      /\ \A i \in 1 .. Len(a) + Len(b) :
           l[i] = IF i <= Len(a) THEN a[i] ELSE b[i - Len(a)]
  BY <1>1, <1>2, ConcatProperties
<1>8. \A i \in 1 .. m + n : l[i] = c[i]
  <2> TAKE i \in 1 .. m + n
  <2>1. i <= m \/ i > m
    OBVIOUS
  <2>2. CASE i <= m
    <3>1. l[i] = a[i] /\ i \in 1 .. m
      BY <1>1, <1>2, <1>7, <2>2
    <3> QED
      BY <1>4, <1>6, <3>1
  <2>3. CASE i > m
    <3>1. i - m \in 1 .. n
      BY <1>1, <1>2, <2>3
    <3>3. l[i] = b[i - m]
      BY <1>1, <1>2, <1>7, <2>3
    <3>4. b[i - m] = w[i]
      BY <1>1, <1>5, <3>1
    <3> QED
      BY <1>6, <3>3, <3>4
  <2> QED
    BY <2>1, <2>2, <2>3
<1> HIDE DEF l
<1>9. l = c
  BY <1>1, <1>2, <1>3, <1>7, <1>8, SeqEqual
<1> QED
  BY <1>9 DEF l, a, b, c

LEMMA AllOfIt ==
  ASSUME NEW S, NEW w \in Seq(S)
  PROVE  Beginning(w, Len(w)) = w
BY DEF Beginning

LEMMA NoneOfIt ==
  ASSUME NEW w
  PROVE  Beginning(w, 0) = <<>>
BY DEF Beginning

USE FolderCopyAssumption

-----------------------------------------------------------------------------
(* The inductive invariant *)

Keys     == Passwords \cup {NoKey}
Versions == [version : Nat, size : Nat]
Plain    == (Files \X Nat \X Nat) \cup {<<>>}
Cells    == Keys \X Nat \X Nat \X Plain
Copies   == [iv : Nat, data : Seq(Cells)]

\* What is read of a file, and what the cipher makes of it.
Reads(f, s, u)      == IF f \in u THEN <<>> ELSE Bytes(f, s)
Enciphered(k, n, w) == [i \in 1 .. Len(w) |-> Cipher(k, n, i, w[i])]

CopyHolds(c, k, n, f, src, u) ==
  /\ n \in 1 .. Len(c)
  /\ c[n].data = Enciphered(k, n, Reads(f, src[f], u))

Typed ==
  /\ source \in [Files -> Versions] /\ edits \in Nat
  /\ copies \in Seq(Copies) /\ \A n \in 1 .. Len(copies) : copies[n].iv = n
  /\ restored \in [Files -> Seq(Plain)]
  /\ at \in {"menu", "encrypt", "copy", "record", "decrypt", "restore",
             "restored"}
  /\ key \in Keys /\ next \in Nat \ {0} /\ names \in Seq(Nat)
  /\ unread \in SUBSET Files

RecordForm ==
  /\ record = [state |-> record.state, key |-> record.key,
               names |-> record.names, unread |-> record.unread,
               of |-> record.of]
  /\ record.state \in {"torn", "whole"} /\ record.key \in Keys
  /\ record.names \in Seq(Nat) /\ Len(record.names) = Count
  /\ record.unread \in SUBSET Files /\ record.of \in [Files -> Versions]

\* A record names whole copies, from the moment it is opened.
RecordHolds ==
  record # NoRecord =>
    /\ RecordForm
    /\ \A f \in Files :
         CopyHolds(copies, record.key, record.names[f], f, record.of,
                   record.unread)

JobForm ==
  /\ job = [file |-> job.file, name |-> job.name, told |-> job.told,
            input |-> job.input, read |-> job.read]
  /\ job.file = next - 1 /\ job.file \in DOMAIN names
  /\ job.name = names[job.file] /\ job.name \in 1 .. Len(copies)
  /\ job.read \in 0 .. Len(job.input)

\* What has been copied is whole but for the file in hand, whose copy is the
\* last one and as long as what has been read.
CopiesHold ==
  at \in {"encrypt", "copy", "record"} =>
    /\ Len(names) = next - 1 /\ next - 1 <= Count
    /\ unread \in SUBSET DOMAIN names
    /\ \A f \in DOMAIN names : (at = "copy" /\ f = next - 1) \/
         CopyHolds(copies, key, names[f], f, source, unread)

InCopy ==
  at = "copy" =>
    /\ JobForm /\ job.name = Len(copies)
    /\ job.told = IF job.file \in unread THEN Unopened
                                         ELSE source[job.file].size
    /\ job.input = Reads(job.file, source[job.file], unread)
    /\ copies[job.name].data =
         Beginning(Enciphered(key, job.name, job.input), job.read)
    /\ \A f \in DOMAIN names : f = job.file \/ names[f] # job.name
    /\ record # NoRecord => \A f \in Files : record.names[f] # job.name

InRecord == at = "record" => next > Count /\ record # NoRecord

\* What has been restored is whole but for the file in hand.
RestoringHolds ==
  at \in {"decrypt", "restore"} =>
    /\ record # NoRecord /\ key = record.key /\ unread = record.unread
    /\ Len(names) <= Count /\ next <= Len(names) + 1
    /\ record.state = "whole" => Len(names) = Count
    /\ \A f \in DOMAIN names : names[f] = record.names[f]
    /\ \A f \in 1 .. next - 1 : (at = "restore" /\ f = next - 1) \/
         restored[f] = Reads(f, record.of[f], unread)

InRestore ==
  at = "restore" =>
    /\ JobForm /\ job.input = copies[job.name].data
    /\ job.told = Len(job.input)
    /\ restored[job.file] =
         Beginning(Reads(job.file, record.of[job.file], unread), job.read)

Sound ==
  /\ Typed /\ RecordHolds /\ CopiesHold /\ InCopy /\ InRecord
  /\ RestoringHolds /\ InRestore /\ RestoredAsCopied

-----------------------------------------------------------------------------
(* The cipher and its cycles *)

LEMMA ReadsTyped ==
  ASSUME NEW f \in Files, NEW s \in Versions, NEW u
  PROVE  Reads(f, s, u) \in Seq(Plain)
BY DEF Reads, Bytes, Byte, Versions, Plain

LEMMA EncipheredTyped ==
  ASSUME NEW k \in Keys, NEW n \in Nat, NEW w \in Seq(Plain)
  PROVE  /\ Enciphered(k, n, w) \in Seq(Cells)
         /\ Len(Enciphered(k, n, w)) = Len(w)
BY DEF Enciphered, Cipher, Cells

\* With the same password, vector and place every byte comes back.
LEMMA ComesBack ==
  ASSUME NEW k, NEW n, NEW i, NEW b
  PROVE  Decipher(k, n, i, Cipher(k, n, i, b)) = b
BY DEF Cipher, Decipher

\* A cycle takes what is there, and the last one takes the rest.
LEMMA Cycle ==
  ASSUME job.read \in 0 .. Len(job.input), Len(job.input) \in Nat,
         job.told = Unopened \/ job.told \in Nat
  PROVE  /\ Given \in Nat /\ job.read + Given <= Len(job.input)
         /\ LastOne => job.read + Given = Len(job.input)
BY DEF Given, LastOne, ByBlocks, Least, Unopened

-----------------------------------------------------------------------------
(* A record goes on to hold, and so does the form of a job *)

LEMMA RecordStays ==
  ASSUME RecordHolds, record' = record,
         Len(copies) \in Nat, Len(copies') \in Nat,
         Len(copies) <= Len(copies'),
         record # NoRecord => \A f \in Files :
           copies'[record.names[f]] = copies[record.names[f]]
  PROVE  RecordHolds'
<1> SUFFICES ASSUME record # NoRecord
             PROVE  /\ RecordForm'
                    /\ \A f \in Files :
                         CopyHolds(copies', record.key, record.names[f], f,
                                   record.of, record.unread)
  BY DEF RecordHolds
<1>1. RecordForm'
  BY DEF RecordHolds, RecordForm
<1>2. ASSUME NEW f \in Files
      PROVE  CopyHolds(copies', record.key, record.names[f], f, record.of,
                       record.unread)
  <2>1. CopyHolds(copies, record.key, record.names[f], f, record.of,
                  record.unread)
    BY DEF RecordHolds
  <2>2. record.names[f] \in 1 .. Len(copies')
    BY <2>1 DEF CopyHolds
  <2> QED
    BY <2>1, <2>2 DEF CopyHolds
<1> QED
  BY <1>1, <1>2

LEMMA JobGoesOn ==
  ASSUME JobForm, NEW m \in Nat, job.read + m <= Len(job.input),
         Len(job.input) \in Nat,
         job' = [job EXCEPT !.read = @ + m], Len(copies') = Len(copies),
         next' = next, names' = names
  PROVE  /\ JobForm'
         /\ job'.file = job.file /\ job'.name = job.name
         /\ job'.told = job.told /\ job'.input = job.input
         /\ job'.read = job.read + m
<1>1. job' = [file |-> job.file, name |-> job.name, told |-> job.told,
              input |-> job.input, read |-> job.read + m]
  BY DEF JobForm
<1>2. /\ job'.file = job.file /\ job'.name = job.name
      /\ job'.told = job.told /\ job'.input = job.input
      /\ job'.read = job.read + m
  BY <1>1
<1>3. job.read + m \in 0 .. Len(job.input)
  BY DEF JobForm
<1>4. JobForm'
  BY <1>1, <1>2, <1>3 DEF JobForm
<1> QED
  BY <1>2, <1>4

-----------------------------------------------------------------------------
(* CopyInit and the steps of the user *)

LEMMA SoundInit == CopyInit => Sound
<1> SUFFICES ASSUME CopyInit
             PROVE  Sound
  OBVIOUS
<1>1. source \in [Files -> Versions]
  <2>1. \A f \in Files : Sizes[f] \in SUBSET Nat
    BY DEF Files
  <2>2. \A f \in Files : source[f] \in Versions
    BY <2>1 DEF CopyInit, Versions
  <2> QED
    BY <2>2 DEF CopyInit
<1>2. Typed
  BY <1>1 DEF CopyInit, Typed, Keys, Copies
<1> QED
  BY <1>2 DEF CopyInit, Sound, RecordHolds, CopiesHold, InCopy, InRecord,
              RestoringHolds, InRestore, RestoredAsCopied

LEMMA EditKeepsSound ==
  ASSUME Sound, NEW f \in Files, NEW size \in Sizes[f], Edit(f, size)
  PROVE  Sound'
<1>1. size \in Nat
  BY DEF Files
<1>2. Typed'
  <2>1. /\ UNCHANGED <<copies, restored, at, key, next, names, unread>>
        /\ edits' = edits + 1
        /\ source' = [source EXCEPT ![f] = [version |-> edits', size |-> size]]
    BY DEF Edit, program
  <2>2. edits' \in Nat
    BY <2>1 DEF Sound, Typed
  <2>3. source' \in [Files -> Versions]
    BY <1>1, <2>1, <2>2 DEF Sound, Typed, Versions
  <2> QED
    BY <2>1, <2>2, <2>3 DEF Sound, Typed
<1>3. RecordHolds'
  BY DEF Sound, RecordHolds, Edit, RecordForm, CopyHolds
<1>4. at' \in {"menu", "restored"}
  BY DEF Edit, program, Idle
<1>5. RestoredAsCopied'
  BY DEF Sound, RestoredAsCopied, Edit, program
<1> QED
  BY <1>2, <1>3, <1>4, <1>5
  DEF Sound, CopiesHold, InCopy, InRecord, RestoringHolds, InRestore

LEMMA EndKeepsSound ==
  ASSUME Sound, End
  PROVE  Sound'
<1>1. Typed'
  BY DEF Sound, Typed, End, Forget, disk, Keys
<1>2. RecordHolds'
  BY DEF Sound, RecordHolds, End, disk, RecordForm, CopyHolds
<1> QED
  BY <1>1, <1>2
  DEF Sound, End, CopiesHold, InCopy, InRecord, RestoringHolds, InRestore,
      RestoredAsCopied

LEMMA EncryptFolderKeepsSound ==
  ASSUME Sound, NEW password \in Passwords, EncryptFolder(password)
  PROVE  Sound'
<1>1. Typed'
  BY DEF Sound, Typed, EncryptFolder, disk, Keys
<1>2. RecordHolds'
  BY DEF Sound, RecordHolds, EncryptFolder, disk, RecordForm, CopyHolds
<1>3. CopiesHold'
  BY DEF EncryptFolder, CopiesHold
<1> QED
  BY <1>1, <1>2, <1>3
  DEF Sound, EncryptFolder, InCopy, InRecord, RestoringHolds, InRestore,
      RestoredAsCopied

LEMMA DecryptFolderKeepsSound ==
  ASSUME Sound, NEW count \in 0 .. Count, DecryptFolder(count)
  PROVE  Sound'
<1>1. record # NoRecord /\ RecordForm
  BY DEF Sound, RecordHolds, DecryptFolder, NoRecord
<1>2. /\ names' \in Seq(Nat) /\ Len(names') = count
      /\ \A f \in DOMAIN names' : names'[f] = record.names[f]
  <2>1. record.names \in Seq(Nat) /\ count \in 0 .. Len(record.names)
    BY <1>1 DEF RecordForm
  <2>2. names' = SubSeq(record.names, 1, count)
    BY DEF DecryptFolder
  <2> QED
    BY <2>1, <2>2
<1>3. Typed'
  <2>1. /\ UNCHANGED <<source, edits, copies, record, restored>>
        /\ at' = "decrypt" /\ next' = 1
        /\ key' = record.key /\ unread' = record.unread
    BY DEF DecryptFolder, disk
  <2>2. key' \in Keys /\ unread' \in SUBSET Files
    BY <1>1, <2>1 DEF RecordForm
  <2> QED
    BY <1>2, <2>1, <2>2 DEF Sound, Typed
<1>4. RecordHolds'
  BY DEF Sound, RecordHolds, DecryptFolder, disk, RecordForm, CopyHolds
<1>5. RestoringHolds'
  BY <1>1, <1>2 DEF DecryptFolder, disk, RestoringHolds
<1> QED
  BY <1>3, <1>4, <1>5
  DEF Sound, DecryptFolder, CopiesHold, InCopy, InRecord, InRestore,
      RestoredAsCopied

-----------------------------------------------------------------------------
(* The steps of encrypt-folder *)

LEMMA CopyKeepsSound ==
  ASSUME Sound, NEW opens \in BOOLEAN, Copy(opens)
  PROVE  Sound'
<1> DEFINE n == Len(copies) + 1
<1>1. /\ copies \in Seq(Copies) /\ Len(copies) \in Nat
      /\ Len(names) = next - 1 /\ next \in Files /\ names \in Seq(Nat)
      /\ DOMAIN names = 1 .. next - 1
      /\ unread \in SUBSET (1 .. next - 1) /\ at = "encrypt"
      /\ source[next] \in Versions
      /\ next \in Nat /\ n \in Nat /\ next <= Count
  BY DEF Sound, Typed, CopiesHold, Copy, Files
<1>2. /\ copies' = Append(copies, [iv |-> n, data |-> <<>>])
      /\ names' = Append(names, n) /\ next' = next + 1 /\ at' = "copy"
      /\ unread' = IF opens THEN unread ELSE unread \cup {next}
      /\ job' = [file |-> next, name |-> n,
                 told |-> IF opens THEN source[next].size ELSE Unopened,
                 input |-> IF opens THEN Bytes(next, source[next]) ELSE <<>>,
                 read |-> 0]
  BY DEF Copy, Take
<1>2a. /\ source' = source /\ edits' = edits /\ record' = record
       /\ restored' = restored /\ key' = key
  BY DEF Copy
<1>2b. next' = next + 1 /\ at' = "copy"
  BY DEF Copy
<1>3. /\ copies' \in Seq(Copies) /\ Len(copies') = n
      /\ copies'[n] = [iv |-> n, data |-> <<>>]
      /\ \A i \in 1 .. Len(copies) : copies'[i] = copies[i]
  BY <1>1, <1>2 DEF Copies
<1>4. /\ names' \in Seq(Nat) /\ Len(names') = next
      /\ names'[next] = n /\ DOMAIN names' = 1 .. next
      /\ \A f \in 1 .. next - 1 : names'[f] = names[f]
  <2> HIDE DEF n
  <2> QED
    BY <1>1, <1>2
<1>5. unread' \in SUBSET Files /\ unread' \in SUBSET DOMAIN names'
  BY <1>1, <1>2, <1>4 DEF Files
<1>6. Typed'
  <2>1. \A i \in 1 .. Len(copies') : copies'[i].iv = i
    <3> TAKE i \in 1 .. Len(copies')
    <3>1. i \in 1 .. Len(copies) \/ i = n
      BY <1>1, <1>3
    <3>2. CASE i \in 1 .. Len(copies)
      BY <1>3, <3>2 DEF Sound, Typed
    <3>3. CASE i = n
      BY <1>3, <3>3
    <3> QED
      BY <3>1, <3>2, <3>3
  <2>2. next' \in Nat \ {0}
    BY <1>1, <1>2b
  <2> QED
    BY <1>2a, <1>2b, <1>3, <1>4, <1>5, <2>1, <2>2 DEF Sound, Typed
<1>7. RecordHolds'
  <2>1. record # NoRecord => \A f \in Files :
          record.names[f] \in 1 .. Len(copies)
    BY DEF Sound, RecordHolds, CopyHolds
  <2>2. Len(copies') \in Nat /\ Len(copies) <= Len(copies')
    BY <1>1, <1>3
  <2> QED
    BY <1>1, <1>2a, <1>3, <2>1, <2>2, RecordStays DEF Sound
<1>8. \A f \in 1 .. next - 1 :
        Reads(f, source[f], unread') = Reads(f, source[f], unread)
  BY <1>1, <1>2 DEF Reads
<1>9. \A f \in 1 .. next - 1 :
        CopyHolds(copies, key, names[f], f, source, unread)
  BY <1>1 DEF Sound, CopiesHold
<1>10. \A f \in 1 .. next - 1 :
         CopyHolds(copies', key', names'[f], f, source', unread')
  <2> TAKE f \in 1 .. next - 1
  <2>1. names[f] \in 1 .. Len(copies)
    BY <1>9 DEF CopyHolds
  <2>2. names'[f] = names[f] /\ copies'[names[f]] = copies[names[f]]
    BY <1>3, <1>4, <2>1
  <2>3. names[f] \in 1 .. Len(copies')
    BY <1>1, <1>3, <2>1
  <2>4. copies[names[f]].data
          = Enciphered(key, names[f], Reads(f, source[f], unread))
    BY <1>9 DEF CopyHolds
  <2> QED
    BY <1>2a, <1>8, <2>2, <2>3, <2>4 DEF CopyHolds
<1>11. CopiesHold'
  <2>1. Len(names') = next' - 1 /\ next' - 1 <= Count
    BY <1>1, <1>2b, <1>4
  <2>2. \A f \in DOMAIN names' : (at' = "copy" /\ f = next' - 1) \/
          CopyHolds(copies', key', names'[f], f, source', unread')
    <3> TAKE f \in DOMAIN names'
    <3>1. f \in 1 .. next - 1 \/ f = next' - 1
      BY <1>1, <1>2b, <1>4
    <3> QED
      BY <1>2b, <1>10, <3>1
  <2> QED
    BY <1>5, <2>1, <2>2 DEF CopiesHold
<1>12. JobForm'
  BY <1>1, <1>2, <1>3, <1>4 DEF JobForm, Bytes, Versions, Files
<1>13. /\ job'.told = IF next \in unread' THEN Unopened ELSE source[next].size
       /\ job'.input = Reads(next, source[next], unread')
  <2>1. next \notin unread
    BY <1>1
  <2>2. opens <=> next \notin unread'
    BY <1>2, <2>1
  <2> QED
    BY <1>2, <2>2 DEF Reads
<1>14. \A f \in DOMAIN names' : f = next \/ names'[f] # n
  BY <1>1, <1>4, <1>9 DEF CopyHolds
<1>15. record # NoRecord => \A f \in Files : record.names[f] # n
  BY <1>1 DEF Sound, RecordHolds, CopyHolds
<1>16. copies'[n].data = Beginning(Enciphered(key, n, job'.input), 0)
  BY <1>3, NoneOfIt
<1>17. InCopy'
  BY <1>2, <1>2a, <1>3, <1>12, <1>13, <1>14, <1>15, <1>16 DEF InCopy
<1> QED
  BY <1>2b, <1>6, <1>7, <1>11, <1>17
  DEF Sound, InRecord, RestoringHolds, InRestore, RestoredAsCopied

LEMMA EncryptKeepsSound ==
  ASSUME Sound, Encrypt
  PROVE  Sound'
<1> DEFINE f == job.file
           n == job.name
           w == Enciphered(key, n, job.input)
           piece == Piece(w, job.read, Given)
<1>1. /\ at = "copy" /\ JobForm /\ n = Len(copies) /\ n \in 1 .. Len(copies)
      /\ copies \in Seq(Copies) /\ copies[n].iv = n /\ n \in Nat
      /\ key \in Keys /\ f \in Files /\ source[f] \in Versions
      /\ Len(names) = next - 1 /\ next \in Nat /\ f = next - 1
      /\ f \in DOMAIN names /\ names[f] = n
  BY DEF Sound, Typed, CopiesHold, InCopy, JobForm, Encrypt, Files
<1>2. /\ job.input = Reads(f, source[f], unread) /\ job.input \in Seq(Plain)
      /\ job.told = Unopened \/ job.told \in Nat
  BY <1>1, ReadsTyped DEF Sound, InCopy, Versions
<1>3. w \in Seq(Cells) /\ Len(w) = Len(job.input)
  BY <1>1, <1>2, EncipheredTyped
<1>4. /\ Given \in Nat /\ job.read \in Nat
      /\ job.read + Given <= Len(job.input)
      /\ LastOne => job.read + Given = Len(job.input)
  BY <1>1, <1>2, Cycle DEF JobForm
<1>5. /\ Beginning(w, job.read + Given) \in Seq(Cells)
      /\ Beginning(w, job.read) \o piece = Beginning(w, job.read + Given)
  <2> HIDE DEF w
  <2>1. job.read + Given <= Len(w) /\ job.read + Given \in Nat
    BY <1>3, <1>4
  <2> QED
    BY <1>3, <1>4, <2>1, BeginningTyped, PiecesJoin
<1>6. piece = [i \in 1 .. Given |->
                 Cipher(key, copies[n].iv, Ahead + i, job.input[job.read + i])]
  <2>1. \A i \in 1 .. Given : job.read + i \in 1 .. Len(job.input)
    BY <1>2, <1>4
  <2>2. \A i \in 1 .. Given :
          w[job.read + i]
            = Cipher(key, n, job.read + i, job.input[job.read + i])
    BY <2>1 DEF Enciphered
  <2> QED
    BY <1>1, <2>2 DEF Piece, Ahead
<1> HIDE DEF w, piece
<1>7. copies[n].data = Beginning(w, job.read)
  BY <1>1 DEF Sound, InCopy, w
<1>8. copies' = [copies EXCEPT ![n].data = Beginning(w, job.read + Given)]
  BY <1>5, <1>6, <1>7 DEF Encrypt
<1>10. /\ copies' \in Seq(Copies) /\ Len(copies') = Len(copies)
       /\ copies'[n].data = Beginning(w, job.read + Given)
       /\ \A i \in 1 .. Len(copies) : copies'[i].iv = copies[i].iv
       /\ \A i \in 1 .. Len(copies) : i # n => copies'[i] = copies[i]
  <2> DEFINE new == Beginning(w, job.read + Given)
  <2>1. new \in Seq(Cells) /\ copies' = [copies EXCEPT ![n].data = new]
    BY <1>5, <1>8
  <2> HIDE DEF new
  <2>2. copies[n] \in Copies
    BY <1>1
  <2>3. /\ [copies[n] EXCEPT !.data = new] \in Copies
        /\ [copies[n] EXCEPT !.data = new].iv = copies[n].iv
        /\ [copies[n] EXCEPT !.data = new].data = new
    BY <2>1, <2>2 DEF Copies
  <2>4. copies' = [copies EXCEPT ![n] = [copies[n] EXCEPT !.data = new]]
    BY <2>1
  <2>5. /\ copies' \in Seq(Copies) /\ Len(copies') = Len(copies)
        /\ copies'[n] = [copies[n] EXCEPT !.data = new]
        /\ \A i \in 1 .. Len(copies) : i # n => copies'[i] = copies[i]
    BY <1>1, <2>3, <2>4
  <2> QED
    BY <2>3, <2>5 DEF new
<1>11. UNCHANGED <<source, edits, record, restored, key, next, names, unread>>
  BY DEF Encrypt
<1>12. Handled("encrypt")
  BY DEF Encrypt
<1>13. Typed'
  BY <1>1, <1>10, <1>11, <1>12 DEF Sound, Typed, Handled
<1>14. RecordHolds'
  <2>1. record # NoRecord => \A g \in Files :
          record.names[g] \in 1 .. Len(copies) /\ record.names[g] # n
    BY <1>1 DEF Sound, InCopy, RecordHolds, CopyHolds
  <2>2. Len(copies) \in Nat /\ Len(copies') \in Nat
    BY <1>1, <1>10
  <2> QED
    BY <1>10, <1>11, <2>1, <2>2, RecordStays DEF Sound
<1>15. \A g \in DOMAIN names : g = f \/ names[g] # n
  BY <1>1 DEF Sound, InCopy
<1>16. \A g \in DOMAIN names : g = f \/
         CopyHolds(copies', key, names[g], g, source, unread)
  BY <1>1, <1>10, <1>11, <1>15 DEF Sound, CopiesHold, CopyHolds
<1>17. /\ Len(names) = next - 1 /\ next - 1 <= Count
       /\ unread \in SUBSET DOMAIN names
  BY <1>1 DEF Sound, CopiesHold
<1>18. CASE LastOne
  <2>1. at' = "encrypt"
    BY <1>12, <1>18 DEF Handled
  <2>2. copies'[n].data = w
    BY <1>3, <1>4, <1>10, <1>18, AllOfIt
  <2>3. CopyHolds(copies', key, names'[f], f, source, unread')
    BY <1>1, <1>2, <1>10, <1>11, <2>2 DEF CopyHolds, w
  <2>4. CopiesHold'
    BY <1>11, <1>16, <1>17, <2>1, <2>3 DEF CopiesHold
  <2> QED
    BY <1>13, <1>14, <2>1, <2>4
    DEF Sound, InCopy, InRecord, RestoringHolds, InRestore, RestoredAsCopied
<1>19. CASE ~LastOne
  <2>1. at' = "copy" /\ job' = [job EXCEPT !.read = @ + Given]
    BY <1>1, <1>12, <1>19 DEF Handled
  <2>a. /\ JobForm /\ Given \in Nat /\ job.read + Given <= Len(job.input)
        /\ Len(job.input) \in Nat /\ Len(copies') = Len(copies)
        /\ next' = next /\ names' = names
    BY <1>1, <1>2, <1>4, <1>10, <1>11
  <2>2. /\ job'.file = f /\ job'.name = n /\ job'.told = job.told
        /\ job'.input = job.input /\ job'.read = job.read + Given
    BY <2>1, <2>a, JobGoesOn
  <2>3. JobForm'
    BY <2>1, <2>a, JobGoesOn
  <2>4. CopiesHold'
    BY <1>1, <1>11, <1>16, <1>17, <2>1 DEF CopiesHold
  <2>5. /\ job'.told = IF f \in unread' THEN Unopened ELSE source'[f].size
        /\ job'.input = Reads(f, source'[f], unread')
        /\ record' # NoRecord => \A g \in Files : record'.names[g] # n
    BY <1>1, <1>11, <2>2 DEF Sound, InCopy
  <2>6. InCopy'
    BY <1>1, <1>10, <1>11, <1>15, <2>2, <2>3, <2>5 DEF InCopy, w
  <2> QED
    BY <1>13, <1>14, <2>1, <2>4, <2>6
    DEF Sound, InRecord, RestoringHolds, InRestore, RestoredAsCopied
<1> QED
  BY <1>18, <1>19

LEMMA OpenRecordKeepsSound ==
  ASSUME Sound, OpenRecord
  PROVE  Sound'
<1>1. /\ at = "encrypt" /\ Len(names) = Count /\ names \in Seq(Nat)
      /\ DOMAIN names = Files /\ key \in Keys /\ unread \in SUBSET Files
      /\ source \in [Files -> Versions] /\ next > Count
  BY DEF Sound, Typed, CopiesHold, OpenRecord, Files
<1>2. /\ record' = [state |-> "torn", key |-> key, names |-> names,
                    unread |-> unread, of |-> source]
      /\ at' = "record"
      /\ UNCHANGED <<source, edits, copies, restored, key, next, names,
                     unread, job>>
  BY DEF OpenRecord
<1>3. Typed'
  BY <1>2 DEF Sound, Typed
<1>4. \A f \in Files : CopyHolds(copies, key, names[f], f, source, unread)
  BY <1>1 DEF Sound, CopiesHold
<1>5. RecordHolds'
  BY <1>1, <1>2, <1>4 DEF RecordHolds, RecordForm, CopyHolds
<1>6. CopiesHold'
  BY <1>1, <1>2, <1>4 DEF Sound, CopiesHold, CopyHolds
<1>7. InRecord'
  <2>1. record'.state # "none"
    BY <1>2
  <2> QED
    BY <1>1, <1>2, <2>1 DEF InRecord, NoRecord
<1> QED
  BY <1>2, <1>3, <1>5, <1>6, <1>7
  DEF Sound, InCopy, RestoringHolds, InRestore, RestoredAsCopied

LEMMA CloseRecordKeepsSound ==
  ASSUME Sound, CloseRecord
  PROVE  Sound'
<1>1. record # NoRecord /\ RecordForm
  BY DEF Sound, InRecord, RecordHolds, CloseRecord
<1>2. Typed'
  BY DEF Sound, Typed, CloseRecord, Forget, Keys
<1>3. record' = [state |-> "whole", key |-> record.key,
                 names |-> record.names, unread |-> record.unread,
                 of |-> record.of]
  BY <1>1 DEF CloseRecord, RecordForm
<1>4. RecordHolds'
  BY <1>1, <1>3
  DEF Sound, RecordHolds, CloseRecord, RecordForm, CopyHolds
<1> QED
  BY <1>2, <1>4
  DEF Sound, CloseRecord, CopiesHold, InCopy, InRecord, RestoringHolds,
      InRestore, RestoredAsCopied

-----------------------------------------------------------------------------
(* The steps of decrypt-folder *)

LEMMA RestoreKeepsSound ==
  ASSUME Sound, Restore
  PROVE  Sound'
<1> DEFINE n    == names[next]
           data == copies[n].data
<1>1. /\ at = "decrypt" /\ record # NoRecord /\ RecordForm
      /\ Len(names) <= Count /\ next \in DOMAIN names /\ next \in Files
      /\ names \in Seq(Nat) /\ n = record.names[next]
  <2>1. /\ at = "decrypt" /\ record # NoRecord /\ RecordForm
        /\ Len(names) <= Count /\ next \in DOMAIN names
        /\ names \in Seq(Nat)
    BY DEF Sound, Typed, RestoringHolds, RecordHolds, Restore
  <2>2. n = record.names[next]
    BY <2>1 DEF Sound, RestoringHolds
  <2>3. DOMAIN names = 1 .. Len(names) /\ Len(names) \in Nat
    BY <2>1
  <2>4. next \in Files
    BY <2>1, <2>3 DEF Files
  <2> QED
    BY <2>1, <2>2, <2>4
<1>2. /\ n \in 1 .. Len(copies) /\ copies \in Seq(Copies)
      /\ data \in Seq(Cells) /\ Len(data) \in Nat
  <2>1. n \in 1 .. Len(copies)
    BY <1>1 DEF Sound, RecordHolds, CopyHolds
  <2>2. copies \in Seq(Copies)
    BY DEF Sound, Typed
  <2> HIDE DEF n
  <2>3. copies[n] \in Copies
    BY <2>1, <2>2
  <2>4. copies[n].data \in Seq(Cells)
    BY <2>3 DEF Copies
  <2> QED
    BY <2>1, <2>2, <2>4
<1>3. /\ restored' = [restored EXCEPT ![next] = <<>>] /\ next' = next + 1
      /\ at' = "restore"
      /\ job' = [file |-> next, name |-> n, told |-> Len(data),
                 input |-> data, read |-> 0]
      /\ UNCHANGED <<source, edits, copies, record, key, names, unread>>
  BY DEF Restore, Take
<1>4. Typed'
  BY <1>1, <1>3 DEF Sound, Typed
<1>5. RecordHolds'
  BY <1>3 DEF Sound, RecordHolds, RecordForm, CopyHolds
<1>6. RestoringHolds'
  BY <1>1, <1>3 DEF Sound, Typed, RestoringHolds
<1>7. JobForm'
  <2> HIDE DEF data, n
  <2>1. next' - 1 = next /\ 0 \in 0 .. Len(data)
    BY <1>1, <1>2, <1>3 DEF Files
  <2> QED
    BY <1>1, <1>2, <1>3, <2>1 DEF JobForm, n
<1>8. restored'[next] = <<>>
  BY <1>1, <1>3 DEF Sound, Typed
<1>9. InRestore'
  BY <1>3, <1>7, <1>8, NoneOfIt DEF InRestore
<1> QED
  BY <1>3, <1>4, <1>5, <1>6, <1>9
  DEF Sound, CopiesHold, InCopy, InRecord, RestoredAsCopied

LEMMA DecryptKeepsSound ==
  ASSUME Sound, Decrypt
  PROVE  Sound'
<1> DEFINE f == job.file
           n == job.name
           w == Reads(f, record.of[f], unread)
           piece == Piece(w, job.read, Given)
<1>1. /\ at = "restore" /\ JobForm /\ record # NoRecord /\ RecordForm
      /\ f \in DOMAIN names /\ names \in Seq(Nat) /\ Len(names) <= Count
      /\ f = next - 1 /\ next \in Nat /\ n = names[f]
      /\ names[f] = record.names[f] /\ key = record.key /\ key \in Keys
      /\ unread = record.unread /\ n \in 1 .. Len(copies)
      /\ copies[n].iv = n /\ n \in Nat
  <2>1. /\ at = "restore" /\ JobForm /\ record # NoRecord /\ RecordForm
        /\ names \in Seq(Nat) /\ Len(names) <= Count /\ next \in Nat
        /\ key = record.key /\ key \in Keys /\ unread = record.unread
    BY DEF Sound, Typed, RestoringHolds, RecordHolds, InRestore, Decrypt
  <2>2. /\ f \in DOMAIN names /\ f = next - 1 /\ n = names[f]
        /\ n \in 1 .. Len(copies)
    BY <2>1 DEF JobForm
  <2>3. names[f] = record.names[f]
    BY <2>1, <2>2 DEF Sound, RestoringHolds
  <2>4. copies[n].iv = n /\ n \in Nat
    BY <2>2 DEF Sound, Typed
  <2> QED
    BY <2>1, <2>2, <2>3, <2>4
<1>2. f \in Files /\ record.of[f] \in Versions
  <2>1. DOMAIN names = 1 .. Len(names) /\ Len(names) \in Nat
    BY <1>1
  <2>2. f \in Files
    BY <1>1, <2>1 DEF Files
  <2> QED
    BY <1>1, <2>2 DEF RecordForm
<1>3. w \in Seq(Plain)
  BY <1>2, ReadsTyped
<1>4. job.input = Enciphered(key, n, w)
  BY <1>1, <1>2 DEF Sound, InRestore, RecordHolds, CopyHolds
<1>5. Len(job.input) = Len(w) /\ job.told \in Nat
  <2>1. Len(job.input) = Len(w)
    <3> HIDE DEF w
    <3> QED
      BY <1>1, <1>3, <1>4, EncipheredTyped
  <2> QED
    BY <1>1, <1>3, <2>1 DEF Sound, InRestore
<1>6. /\ Given \in Nat /\ job.read \in Nat
      /\ job.read + Given <= Len(w)
      /\ LastOne => job.read + Given = Len(w)
  BY <1>1, <1>3, <1>5, Cycle DEF JobForm
<1>7. /\ Beginning(w, job.read + Given) \in Seq(Plain)
      /\ Beginning(w, job.read) \o piece = Beginning(w, job.read + Given)
  <2> HIDE DEF w
  <2>1. job.read + Given <= Len(w) /\ job.read + Given \in Nat
    BY <1>3, <1>6
  <2> QED
    BY <1>3, <1>6, <2>1, BeginningTyped, PiecesJoin
<1>8. piece = [i \in 1 .. Given |->
                 Decipher(key, copies[n].iv, AheadToDecipher + i,
                          job.input[job.read + i])]
  <2> HIDE DEF w
  <2>1. \A i \in 1 .. Given :
          job.input[job.read + i]
            = Cipher(key, n, job.read + i, w[job.read + i])
    <3>1. \A i \in 1 .. Given : job.read + i \in 1 .. Len(w)
      BY <1>3, <1>6
    <3> QED
      BY <1>4, <3>1 DEF Enciphered
  <2>2. \A i \in 1 .. Given :
          Decipher(key, copies[n].iv, AheadToDecipher + i,
                   job.input[job.read + i]) = w[job.read + i]
    BY <1>1, <2>1, ComesBack DEF AheadToDecipher, Ahead
  <2> QED
    BY <2>2 DEF Piece
<1> HIDE DEF w, piece
<1>9. restored[f] = Beginning(w, job.read)
  BY <1>1 DEF Sound, InRestore, w
<1>10. restored' = [restored EXCEPT ![f] = Beginning(w, job.read + Given)]
  BY <1>7, <1>8, <1>9 DEF Decrypt
<1>12. /\ restored' \in [Files -> Seq(Plain)]
       /\ restored'[f] = Beginning(w, job.read + Given)
       /\ \A g \in Files : g # f => restored'[g] = restored[g]
  BY <1>2, <1>7, <1>10 DEF Sound, Typed
<1>13. UNCHANGED <<source, edits, copies, record, key, next, names, unread>>
  BY DEF Decrypt
<1>14. Handled("decrypt")
  BY DEF Decrypt
<1>15. Typed'
  BY <1>1, <1>12, <1>13, <1>14 DEF Sound, Typed, Handled
<1>16. RecordHolds'
  BY <1>13 DEF Sound, RecordHolds, RecordForm, CopyHolds
<1>17. \A g \in 1 .. next - 1 : g = f \/
         restored'[g] = Reads(g, record.of[g], unread)
  <2> TAKE g \in 1 .. next - 1
  <2>1. g \in Files
    BY <1>1 DEF Files
  <2>2. g = f \/ restored[g] = Reads(g, record.of[g], unread)
    BY <1>1 DEF Sound, RestoringHolds
  <2> QED
    BY <1>12, <2>1, <2>2
<1>18. CASE LastOne
  <2>1. at' = "decrypt"
    BY <1>14, <1>18 DEF Handled
  <2>2. restored'[f] = Reads(f, record.of[f], unread)
    BY <1>3, <1>6, <1>12, <1>18, AllOfIt DEF w
  <2>3. RestoringHolds'
    BY <1>1, <1>13, <1>17, <2>1, <2>2 DEF Sound, RestoringHolds
  <2> QED
    BY <1>15, <1>16, <2>1, <2>3
    DEF Sound, CopiesHold, InCopy, InRecord, InRestore, RestoredAsCopied
<1>19. CASE ~LastOne
  <2>1. at' = "restore" /\ job' = [job EXCEPT !.read = @ + Given]
    BY <1>1, <1>14, <1>19 DEF Handled
  <2>a. /\ JobForm /\ Given \in Nat /\ job.read + Given <= Len(job.input)
        /\ Len(job.input) \in Nat /\ Len(copies') = Len(copies)
        /\ next' = next /\ names' = names
    BY <1>1, <1>3, <1>5, <1>6, <1>13
  <2>2. /\ job'.file = f /\ job'.name = n /\ job'.told = job.told
        /\ job'.input = job.input /\ job'.read = job.read + Given
    BY <2>1, <2>a, JobGoesOn
  <2>3. JobForm'
    BY <2>1, <2>a, JobGoesOn
  <2>4. RestoringHolds'
    BY <1>1, <1>13, <1>17, <2>1 DEF Sound, RestoringHolds
  <2>5. job'.input = copies'[n].data /\ job'.told = Len(job'.input)
    BY <1>1, <1>13, <2>2 DEF Sound, InRestore
  <2>6. InRestore'
    BY <1>12, <1>13, <2>2, <2>3, <2>5 DEF InRestore, w
  <2> QED
    BY <1>15, <1>16, <2>1, <2>4, <2>6
    DEF Sound, CopiesHold, InCopy, InRecord, RestoredAsCopied
<1> QED
  BY <1>18, <1>19

LEMMA DecryptEndsKeepsSound ==
  ASSUME Sound, DecryptEnds
  PROVE  Sound'
<1>1. at' = (IF record.state = "whole" THEN "restored" ELSE "menu")
  BY DEF DecryptEnds
<1>2. Typed'
  BY <1>1 DEF Sound, Typed, DecryptEnds, Forget, disk, Keys
<1>3. RecordHolds'
  BY DEF Sound, RecordHolds, DecryptEnds, disk, RecordForm, CopyHolds
<1>4. RestoredAsCopied'
  <2> SUFFICES ASSUME at' = "restored"
               PROVE  RestoredAsCopied'
    BY DEF RestoredAsCopied
  <2>1. \A f \in Files : restored[f] = Reads(f, record.of[f], unread)
    BY <1>1 DEF Sound, Typed, RestoringHolds, DecryptEnds, Files
  <2> QED
    BY <2>1 DEF DecryptEnds, disk, Reads, RestoredAsCopied
<1> QED
  BY <1>1, <1>2, <1>3, <1>4
  DEF Sound, CopiesHold, InCopy, InRecord, RestoringHolds, InRestore

LEMMA StutterKeepsSound ==
  ASSUME Sound, UNCHANGED copyVars
  PROVE  Sound'
BY DEF Sound, copyVars, disk, program, Typed, RecordHolds, RecordForm,
       CopyHolds,
       CopiesHold, InCopy, JobForm, InRecord, RestoringHolds, InRestore,
       RestoredAsCopied

LEMMA SoundStep == Sound /\ [CopyNext]_copyVars => Sound'
<1> SUFFICES ASSUME Sound, [CopyNext]_copyVars
             PROVE  Sound'
  OBVIOUS
<1> QED
  BY EditKeepsSound, EndKeepsSound, EncryptFolderKeepsSound,
     DecryptFolderKeepsSound, CopyKeepsSound, EncryptKeepsSound,
     OpenRecordKeepsSound, CloseRecordKeepsSound, RestoreKeepsSound,
     DecryptKeepsSound, DecryptEndsKeepsSound, StutterKeepsSound
  DEF CopyNext, Working

-----------------------------------------------------------------------------
(* FolderCopy: a command comes nearer to its end *)

\* What a command has before it: two stages for every file that it has not
\* come to, one more for the file in hand, and what comes after the last.
StagesLeft ==
  CASE at = "encrypt" -> 2 * (Count - next) + 4
    [] at = "copy"    -> 2 * (Count - next) + 5
    [] at = "record"  -> 1
    [] at = "decrypt" -> 2 * (Len(names) - next) + 3
    [] at = "restore" -> 2 * (Len(names) - next) + 4
    [] OTHER          -> 0

\* Of the file in hand.
BytesLeft ==
  IF at \in {"copy", "restore"} THEN Len(job.input) - job.read ELSE 0

Nearer ==
  \/ StagesLeft' < StagesLeft
  \/ StagesLeft' = StagesLeft /\ BytesLeft' < BytesLeft

Counting ==
  /\ StagesLeft \in Nat /\ BytesLeft \in Nat
  /\ StagesLeft = 0 <=> Idle

LEMMA InHand ==
  ASSUME Sound, at \in {"copy", "restore"}
  PROVE  /\ JobForm /\ job.input \in Seq(Plain \cup Cells)
         /\ Len(job.input) \in Nat
         /\ job.told = Unopened \/ job.told \in Nat
<1>1. CASE at = "copy"
  <2>1. /\ JobForm /\ job.file \in Files /\ source[job.file] \in Versions
        /\ job.input = Reads(job.file, source[job.file], unread)
        /\ job.told = IF job.file \in unread THEN Unopened
                                             ELSE source[job.file].size
    BY <1>1 DEF Sound, Typed, CopiesHold, InCopy, JobForm, Files
  <2>2. job.input \in Seq(Plain)
    BY <2>1, ReadsTyped
  <2> QED
    BY <2>1, <2>2 DEF Versions
<1>2. CASE at = "restore"
  <2>1. /\ JobForm /\ copies \in Seq(Copies) /\ job.name \in 1 .. Len(copies)
        /\ job.input = copies[job.name].data /\ job.told = Len(job.input)
    BY <1>2 DEF Sound, Typed, InRestore, JobForm
  <2>2. copies[job.name] \in Copies
    BY ONLY <2>1
  <2>3. job.input \in Seq(Cells)
    BY ONLY <2>1, <2>2 DEF Copies
  <2> QED
    BY <2>1, <2>3
<1> QED
  BY <1>1, <1>2

\* A cycle that is not the last one takes something.
LEMMA CycleTakes ==
  ASSUME ~LastOne
  PROVE  Given # 0
BY FolderCopyAssumption DEF LastOne

LEMMA CycleIsNearer ==
  ASSUME Sound, at \in {"copy", "restore"}, NEW place, ~LastOne,
         Handled(place), UNCHANGED <<next, names>>
  PROVE  Nearer
<1>1. /\ JobForm /\ Len(job.input) \in Nat
      /\ job.told = Unopened \/ job.told \in Nat
  BY InHand
<1>2. /\ Given \in Nat /\ job.read + Given <= Len(job.input)
      /\ job.read \in Nat /\ Given # 0
  BY <1>1, Cycle, CycleTakes DEF JobForm
<1>3. at' = at /\ job' = [job EXCEPT !.read = @ + Given]
  BY DEF Handled
<1>4. job'.input = job.input /\ job'.read = job.read + Given
  BY <1>1, <1>3 DEF JobForm
<1>5. BytesLeft' < BytesLeft
  BY ONLY at \in {"copy", "restore"}, <1>1, <1>2, <1>3, <1>4 DEF BytesLeft
<1>6. StagesLeft' = StagesLeft
  BY <1>3 DEF StagesLeft
<1> QED
  BY <1>5, <1>6 DEF Nearer

LEMMA CountingHolds ==
  ASSUME Sound
  PROVE  Counting
<1>1. Count \in Nat /\ next \in Nat /\ Len(names) \in Nat
  BY FolderCopyAssumption DEF Sound, Typed
<1>2. StagesLeft \in Nat /\ (StagesLeft = 0 <=> Idle)
  <2>1. /\ at \in {"encrypt", "copy", "record"} => next <= Count + 1
        /\ at \in {"decrypt", "restore"} => next <= Len(names) + 1
    BY <1>1 DEF Sound, CopiesHold, RestoringHolds
  <2>2. at \in {"menu", "encrypt", "copy", "record", "decrypt", "restore",
                "restored"}
    BY DEF Sound, Typed
  <2>3. CASE at \in {"menu", "restored"}
    BY ONLY <2>3 DEF StagesLeft, Idle
  <2>4. CASE at \in {"encrypt", "copy", "record"}
    BY ONLY <1>1, <2>1, <2>4 DEF StagesLeft, Idle
  <2>5. CASE at \in {"decrypt", "restore"}
    BY ONLY <1>1, <2>1, <2>5 DEF StagesLeft, Idle
  <2> QED
    BY <2>2, <2>3, <2>4, <2>5
<1>3. BytesLeft \in Nat
  <2>1. at \in {"copy", "restore"} =>
          Len(job.input) \in Nat /\ job.read \in 0 .. Len(job.input)
    BY InHand DEF Sound, InCopy, InRestore, JobForm
  <2> QED
    BY ONLY <2>1 DEF BytesLeft
<1> QED
  BY <1>2, <1>3 DEF Counting

LEMMA WorkingIsNearer ==
  ASSUME Sound, Working
  PROVE  Nearer
<1>1. Count \in Nat /\ next \in Nat /\ Len(names) \in Nat
  BY FolderCopyAssumption DEF Sound, Typed
<1>2. ASSUME NEW opens \in BOOLEAN, Copy(opens)
      PROVE  Nearer
  <2>1. at = "encrypt" /\ at' = "copy" /\ next' = next + 1
    BY <1>2 DEF Copy
  <2> QED
    BY ONLY <1>1, <2>1 DEF Nearer, StagesLeft
<1>3. CASE Encrypt
  <2>1. at = "copy" /\ Handled("encrypt") /\ UNCHANGED <<next, names>>
    BY <1>3 DEF Encrypt
  <2>2. CASE LastOne
    <3>1. at' = "encrypt"
      BY <2>1, <2>2 DEF Handled
    <3> QED
      BY ONLY <1>1, <2>1, <3>1 DEF Nearer, StagesLeft
  <2> QED
    BY <2>1, <2>2, CycleIsNearer
<1>4. CASE OpenRecord
  <2>1. at = "encrypt" /\ next > Count /\ at' = "record"
    BY <1>4 DEF OpenRecord
  <2>2. next <= Count + 1
    BY <1>1, <2>1 DEF Sound, CopiesHold
  <2> QED
    BY ONLY <1>1, <2>1, <2>2 DEF Nearer, StagesLeft
<1>5. CASE CloseRecord
  BY ONLY <1>5 DEF CloseRecord, Nearer, StagesLeft
<1>6. CASE Restore
  <2>1. /\ at = "decrypt" /\ at' = "restore" /\ next' = next + 1
        /\ names' = names
    BY <1>6 DEF Restore
  <2> QED
    BY ONLY <1>1, <2>1 DEF Nearer, StagesLeft
<1>7. CASE Decrypt
  <2>1. at = "restore" /\ Handled("decrypt") /\ UNCHANGED <<next, names>>
    BY <1>7 DEF Decrypt
  <2>2. CASE LastOne
    <3>1. at' = "decrypt"
      BY <2>1, <2>2 DEF Handled
    <3> QED
      BY ONLY <1>1, <2>1, <3>1 DEF Nearer, StagesLeft
  <2> QED
    BY <2>1, <2>2, CycleIsNearer
<1>8. CASE DecryptEnds
  <2>1. at = "decrypt" /\ next > Len(names) /\ at' \in {"restored", "menu"}
    BY <1>8 DEF DecryptEnds
  <2>2. next <= Len(names) + 1
    BY <2>1 DEF Sound, RestoringHolds
  <2> QED
    BY ONLY <1>1, <2>1, <2>2 DEF Nearer, StagesLeft
<1> QED
  BY <1>2, <1>3, <1>4, <1>5, <1>6, <1>7, <1>8 DEF Working

-----------------------------------------------------------------------------
(* Theorems *)

\* Every copy that a record names, torn or whole, is the file that the record
\* was written for, enciphered with the record's password and the copy's own
\* vector, whatever later runs of EncryptFolder write into the same folder and
\* wherever they end (FileSystemProtectionAPI.cpp, 446-511).
THEOREM RecordsNameWholeCopies == CopySpec => []RecordHolds
<1>1. Sound => RecordHolds
  BY DEF Sound
<1> QED
  BY SoundInit, SoundStep, <1>1, PTL DEF CopySpec

\* What decrypt-folder restores is what encrypt-folder copied, byte by byte, for
\* files of any size, any threshold and any block
\* (FileSystemProtectionAPI.cpp, 74-159, 254-348, 568-609).
THEOREM RestoresAsCopied == CopySpec => []RestoredAsCopied
<1>1. Sound => RestoredAsCopied
  BY DEF Sound
<1> QED
  BY SoundInit, SoundStep, <1>1, PTL DEF CopySpec

\* Every step of the program brings the command nearer to its end: it has one
\* stage less before it, or as many and less of the file in hand; and it has
\* none before it exactly when the program waits for a command.  So neither
\* the files nor the bytes of one keep it for ever, files that cannot be
\* opened and files of whole blocks included
\* (FileSystemProtectionAPI.cpp, 74-159, 254-348, 446-610).
THEOREM CommandsWearOff ==
  CopySpec => []Counting /\ [][Working => Nearer]_copyVars
<1>1. Sound => Counting
  BY CountingHolds
<1>2. Sound /\ [CopyNext]_copyVars => [Working => Nearer]_copyVars
  BY WorkingIsNearer
<1> QED
  BY SoundInit, SoundStep, <1>1, <1>2, PTL DEF CopySpec

=============================================================================
