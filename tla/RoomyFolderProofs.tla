-------------------------- MODULE RoomyFolderProofs --------------------------
(***************************************************************************)
(* In the regime of RoomySpec no file of an encrypted folder is ever lost, *)
(* whatever the number of folders, files, sizes and commands.              *)
(*                                                                         *)
(* The first part is about the operators of FreeSpace, for every free      *)
(* list.  The second is about the container: what storing a block, giving  *)
(* one back and writing a master record keep true of the blocks and the    *)
(* free list.  The third shows that Inductive is an invariant, one action  *)
(* at a time, and draws the properties from it.                            *)
(***************************************************************************)
EXTENDS RoomyFolder, FiniteSetTheorems, WellFoundedInduction, TLAPS

-----------------------------------------------------------------------------
(* Arithmetic on size_t *)

\* A value in range is stored as it is.
LEMMA WrapSmall ==
  ASSUME NEW x \in Nat, x < Limit
  PROVE  Wrap(x) = x
BY FreeSpaceAssumption DEF Wrap

\* Every result is in range.
LEMMA WrapWord ==
  ASSUME NEW x \in Int
  PROVE  Wrap(x) \in Word
BY FreeSpaceAssumption DEF Wrap, Word

LEMMA OverheadNat == Overhead \in Nat /\ Overhead > ExtraData
BY FreeSpaceAssumption DEF Overhead

-----------------------------------------------------------------------------
(* The first and the last entry exist *)

\* A set of naturals that is not empty has a least element.
LEMMA HasMin ==
  ASSUME NEW S, S \subseteq Nat, S # {}
  PROVE  \E m \in S : \A x \in S : m <= x
<1> DEFINE T == {0 .. x : x \in S}
<1>1. T \subseteq FiniteSubsetsOf(Nat) /\ T # {}
  <2>1. \A x \in S : 0 .. x \subseteq Nat /\ IsFiniteSet(0 .. x)
    BY FS_Interval
  <2> QED BY <2>1 DEF FiniteSubsetsOf
<1>2. PICK t \in T : \A u \in T : <<u, t>> \notin StrictSubsetOrdering(Nat)
  <2> HIDE DEF T
  <2> QED BY <1>1, FS_StrictSubsetOrderingWellFounded, WFMin
<1>3. PICK m \in S : t = 0 .. m
  OBVIOUS
<1>4. ASSUME NEW x \in S, x < m
      PROVE  FALSE
  <2>1. 0 .. x \in T
    OBVIOUS
  <2>2. 0 .. x \subseteq 0 .. m /\ m \in 0 .. m /\ m \notin 0 .. x
    BY <1>4
  <2>3. 0 .. x \in SUBSET Nat /\ 0 .. m \in SUBSET Nat
    OBVIOUS
  <2>4. <<0 .. x, 0 .. m>> \in StrictSubsetOrdering(Nat)
    BY <2>2, <2>3 DEF StrictSubsetOrdering
  <2> QED BY <2>1, <2>4, <1>2, <1>3
<1> QED BY <1>4

\* A set of machine words that is not empty has a greatest element.
LEMMA HasMax ==
  ASSUME NEW S, S \subseteq Word, S # {}
  PROVE  \E m \in S : \A x \in S : x <= m
<1> DEFINE T == {Limit - x : x \in S}
<1>1. T \subseteq Nat /\ T # {}
  <2>1. \A x \in S : Limit - x \in Nat
    BY FreeSpaceAssumption DEF Word
  <2> QED BY <2>1
<1>2. PICK t \in T : \A u \in T : t <= u
  <2> HIDE DEF T
  <2> QED BY <1>1, HasMin
<1>3. PICK m \in S : t = Limit - m
  OBVIOUS
<1>4. \A x \in S : Limit - m <= Limit - x
  BY <1>2, <1>3
<1> QED BY <1>4, FreeSpaceAssumption DEF Word

-----------------------------------------------------------------------------
(* Lookup *)

\* begin() of a free list that is not empty is its lowest entry.
LEMMA FirstHoleIsLeast ==
  ASSUME NEW s, DOMAIN s \subseteq Word, DOMAIN s # {}
  PROVE  FirstHole(s) \in DOMAIN s /\ \A x \in DOMAIN s : FirstHole(s) <= x
<1>1. DOMAIN s \subseteq Nat
  BY DEF Word
<1> QED BY <1>1, HasMin DEF FirstHole

\* --end() of a free list that is not empty is its highest entry.
LEMMA LastHoleIsGreatest ==
  ASSUME NEW s, DOMAIN s \subseteq Word, DOMAIN s # {}
  PROVE  LastHole(s) \in DOMAIN s /\ \A x \in DOMAIN s : x <= LastHole(s)
BY HasMax DEF LastHole

\* prev() is the highest entry below.
LEMMA PrevHoleIsNearest ==
  ASSUME NEW s, DOMAIN s \subseteq Word, NEW o, Before(s, o) # {}
  PROVE  /\ PrevHole(s, o) \in DOMAIN s
         /\ PrevHole(s, o) < o
         /\ \A x \in DOMAIN s : x < o => x <= PrevHole(s, o)
<1> DEFINE below == Restrict(s, Before(s, o))
<1>1. DOMAIN below = Before(s, o)
  BY DEF Restrict
<1>2. DOMAIN below \subseteq Word
  BY <1>1 DEF Before
<1>3. LastHole(below) \in DOMAIN below
      /\ \A x \in DOMAIN below : x <= LastHole(below)
  BY <1>1, <1>2, LastHoleIsGreatest
<1> QED BY <1>1, <1>3 DEF PrevHole, Before

\* next() is the lowest entry above.
LEMMA NextHoleIsNearest ==
  ASSUME NEW s, DOMAIN s \subseteq Word, NEW o, After(s, o) # {}
  PROVE  /\ NextHole(s, o) \in DOMAIN s
         /\ o < NextHole(s, o)
         /\ \A x \in DOMAIN s : o < x => NextHole(s, o) <= x
<1> DEFINE above == Restrict(s, After(s, o))
<1>1. DOMAIN above = After(s, o)
  BY DEF Restrict
<1>2. DOMAIN above \subseteq Word
  BY <1>1 DEF After
<1>3. FirstHole(above) \in DOMAIN above
      /\ \A x \in DOMAIN above : FirstHole(above) <= x
  BY <1>1, <1>2, FirstHoleIsLeast
<1> QED BY <1>1, <1>3 DEF NextHole, After

-----------------------------------------------------------------------------
(* Cutting and giving back *)

\* What AddFile leaves of the free list when the block fits in the first entry
\* with a byte to spare: that entry, shortened from below.
LEMMA TakeShortensFirst ==
  ASSUME NEW s, IsSpace(s), Disjoint(s), DOMAIN s # {},
         NEW length \in Nat, NEW hole, hole = FirstHole(s),
         length + Overhead < s[hole],
         NEW next, next = hole + length + Overhead, next < Limit
  PROVE  /\ next \notin DOMAIN s
         /\ Take(s, length)
              = [o \in (DOMAIN s \ {hole}) \cup {next} |->
                   IF o = next THEN s[hole] - length - Overhead ELSE s[o]]
<1> DEFINE left == s[hole] - length - Overhead
<1> USE FreeSpaceAssumption
<1>1. hole \in DOMAIN s /\ \A x \in DOMAIN s : hole <= x
  BY FirstHoleIsLeast DEF IsSpace
<1>2. hole \in Word /\ s[hole] \in Word
  BY <1>1 DEF IsSpace
<1>3. EncryptReturns(length) = length + ExtraData
  <2>1. length + ExtraData < Limit
    BY <1>2 DEF Overhead, Word
  <2> QED BY <2>1, WrapSmall DEF EncryptReturns
<1>4. Wrap(s[hole] - EncryptReturns(length) - PtrSize) = left
  <2>1. left \in Nat /\ left < Limit
    BY <1>2 DEF Overhead, Word
  <2>2. s[hole] - EncryptReturns(length) - PtrSize = left
    BY <1>2, <1>3 DEF Overhead, Word
  <2> QED BY <2>1, <2>2, WrapSmall
<1>5. Wrap(hole + EncryptReturns(length) + PtrSize) = next
  <2>1. hole + EncryptReturns(length) + PtrSize = next
    BY <1>2, <1>3 DEF Overhead, Word
  <2> QED BY <2>1, <1>2, WrapSmall DEF Overhead, Word
<1>6. next \notin DOMAIN s /\ left # 0
  <2>1. next < EndOf(s, hole) /\ hole < next
    BY <1>2 DEF EndOf, Overhead, Word
  <2>2. next \in DOMAIN s => EndOf(s, hole) <= next
    BY <2>1, <1>1 DEF Disjoint
  <2>3. EndOf(s, hole) \in Int /\ next \in Int
    BY <1>2 DEF EndOf, Overhead, Word
  <2> QED BY <2>1, <2>2, <2>3, <1>2 DEF Overhead, Word
<1>7. Take(s, length) = Insert(Erase(s, {hole}), next, left)
  BY <1>4, <1>5, <1>6 DEF Take
<1> HIDE DEF left
<1>8. Insert(Erase(s, {hole}), next, left)
        = [o \in (DOMAIN s \ {hole}) \cup {next} |->
             IF o = next THEN left ELSE s[o]]
  BY <1>6 DEF Insert, Erase, Restrict
<1> QED BY <1>6, <1>7, <1>8 DEF left

\* The block [offset, next) lies between the extents of s.
Between(s, offset, next) ==
  \A o \in DOMAIN s : EndOf(s, o) <= offset \/ next <= o

\* Where the entry of a freed block starts: at the entry that ends where the
\* block starts, if there is one.
Joined(s, offset, at) ==
  IF \E o \in DOMAIN s : EndOf(s, o) = offset
  THEN at \in DOMAIN s /\ EndOf(s, at) = offset
  ELSE at = offset

\* The free list after a block [offset, next) was given back: one entry covers
\* the block and the entries next to it, the others are as they were.
Freed(s, next, at) ==
  [o \in (DOMAIN s \ {next}) \cup {at} |->
     IF o # at THEN s[o]
     ELSE IF next \in DOMAIN s THEN Wrap(next - at + s[next])
                               ELSE next - at - Overhead]

\* One iteration of the loop of Remove merges the freed block with the entries
\* that touch it and changes nothing else.
LEMMA ReleaseJoinsNeighbours ==
  ASSUME NEW s, IsSpace(s), Disjoint(s),
         NEW offset \in Nat, NEW size \in Nat,
         offset + size + Overhead < Limit,
         Between(s, offset, offset + size + Overhead)
  PROVE  \E at \in Nat :
           /\ at <= offset
           /\ Joined(s, offset, at)
           /\ Release(s, offset, size)
                = Freed(s, offset + size + Overhead, at)
<1> DEFINE next == offset + size + Overhead
           with == Insert(s, offset, size)
           prev == PrevHole(with, offset)
           at   == IF MergedWithPrev(with, offset) THEN prev ELSE offset
           mid  == MergePrev(with, offset)
<1> USE FreeSpaceAssumption
<1>1. Overhead \in Nat /\ Overhead > 0 /\ Overhead = ExtraData + PtrSize
  BY DEF Overhead
<1>2. \A o \in DOMAIN s : /\ o \in Nat /\ s[o] \in Nat /\ o < Limit /\ s[o] < Limit
                          /\ EndOf(s, o) \in Nat /\ o < EndOf(s, o)
                          /\ EndOf(s, o) = o + s[o] + Overhead
  BY <1>1 DEF IsSpace, Word, EndOf
<1>3. next \in Nat /\ offset < next /\ next < Limit
  BY <1>1
<1>4. \A o \in DOMAIN s : EndOf(s, o) <= offset \/ next <= o
  BY DEF Between
<1>5. offset \notin DOMAIN s
  BY <1>2, <1>3, <1>4
<1>6. /\ DOMAIN with = DOMAIN s \cup {offset}
      /\ with[offset] = size
      /\ \A o \in DOMAIN s : with[o] = s[o]
      /\ with = [o \in DOMAIN with |-> with[o]]
  BY <1>5 DEF Insert
<1>7. DOMAIN with \subseteq Word
  BY <1>6, <1>3 DEF IsSpace, Word
<1> HIDE DEF with
<1>8. ASSUME Before(with, offset) # {}
      PROVE  /\ prev \in DOMAIN s /\ prev < offset
             /\ \A o \in DOMAIN s : o < offset => o <= prev
             /\ EndOf(s, prev) <= offset
             /\ Mergeable(with, prev, offset) <=> EndOf(s, prev) = offset
  <2>1. /\ prev \in DOMAIN with /\ prev < offset
        /\ \A x \in DOMAIN with : x < offset => x <= prev
    BY <1>7, <1>8, PrevHoleIsNearest
  <2>2. prev \in DOMAIN s /\ EndOf(s, prev) <= offset
    BY <2>1, <1>2, <1>3, <1>4, <1>6
  <2>3. prev + ExtraData + with[prev] + PtrSize = EndOf(s, prev)
    BY <2>2, <1>1, <1>2, <1>6
  <2>4. Wrap(EndOf(s, prev)) = EndOf(s, prev)
    BY <2>2, <1>2, <1>3, WrapSmall
  <2> QED BY <2>1, <2>2, <2>3, <2>4, <1>6 DEF Mergeable
<1>9. /\ at \in Nat /\ at <= offset
      /\ Joined(s, offset, at)
      /\ at # offset => at \in DOMAIN s
  <2>1. CASE MergedWithPrev(with, offset)
    <3>1. at = prev /\ prev \in DOMAIN s /\ prev < offset /\ EndOf(s, prev) = offset
      BY <2>1, <1>8 DEF MergedWithPrev
    <3> QED BY <3>1, <1>2 DEF Joined
  <2>2. CASE ~MergedWithPrev(with, offset)
    <3>1. ASSUME NEW o \in DOMAIN s, EndOf(s, o) = offset
          PROVE  FALSE
      <4>1. o \in Before(with, offset)
        BY <3>1, <1>2, <1>6 DEF Before
      <4>2. o <= prev /\ prev \in DOMAIN s /\ EndOf(s, prev) # offset /\ prev < offset
        BY <4>1, <3>1, <1>2, <1>8, <2>2 DEF MergedWithPrev
      <4>3. o < prev
        BY <4>2, <3>1, <1>2
      <4> QED BY <4>2, <4>3, <3>1, <1>2 DEF Disjoint
    <3> QED BY <2>2, <3>1 DEF Joined
  <2> QED BY <2>1, <2>2
<1>10. /\ DOMAIN mid = DOMAIN s \cup {at}
       /\ mid[at] = next - at - Overhead
       /\ \A o \in DOMAIN s \ {at} : mid[o] = s[o]
       /\ mid = [o \in DOMAIN mid |-> mid[o]]
  <2>1. CASE MergedWithPrev(with, offset)
    <3>1. at = prev /\ prev \in DOMAIN s /\ prev < offset /\ EndOf(s, prev) = offset
      BY <2>1, <1>8 DEF MergedWithPrev
    <3>2. mid = Merge(with, prev, offset)
      BY <2>1 DEF MergePrev
    <3>3. Wrap(with[prev] + with[offset] + Overhead) = next - prev - Overhead
      <4>1. with[prev] + with[offset] + Overhead = next - prev - Overhead
        <5>1. /\ with[prev] = s[prev] /\ with[offset] = size
              /\ prev + s[prev] + Overhead = offset
              /\ prev \in Nat /\ s[prev] \in Nat
          BY <3>1, <1>2, <1>6
        <5> HIDE DEF prev
        <5> QED BY <5>1, <1>1
      <4>2. next - prev - Overhead \in Nat /\ next - prev - Overhead < Limit
        BY <3>1, <1>1, <1>2, <1>3
      <4> QED BY <4>1, <4>2, WrapSmall
    <3> DEFINE value == next - prev - Overhead
    <3>4. mid = Insert(Erase(with, {prev, offset}), prev, value)
      BY <3>2, <3>3 DEF Merge
    <3> HIDE DEF value, prev, at, mid, next
    <3>5. mid = [o \in (DOMAIN with \ {prev, offset}) \cup {prev} |->
                   IF o = prev THEN value ELSE with[o]]
      BY <3>4 DEF Insert, Erase, Restrict
    <3>6. DOMAIN mid = DOMAIN s \cup {at} /\ mid[at] = value
      BY <3>1, <3>5, <1>5, <1>6
    <3>7. \A o \in DOMAIN s \ {at} : mid[o] = s[o]
      BY <3>1, <3>5, <1>5, <1>6
    <3> QED BY <3>1, <3>5, <3>6, <3>7 DEF value
  <2>2. CASE ~MergedWithPrev(with, offset)
    <3>1. at = offset /\ mid = with
      BY <2>2 DEF MergePrev
    <3> QED BY <3>1, <1>1, <1>5, <1>6
  <2> QED BY <2>1, <2>2
<1>11. DOMAIN mid \subseteq Word
  BY <1>10, <1>9, <1>3 DEF IsSpace, Word
<1> HIDE DEF mid
<1>12. Wrap(at + ExtraData + mid[at] + PtrSize) = next
  <2>1. at + ExtraData + mid[at] + PtrSize = next
    <3> HIDE DEF at
    <3> QED BY <1>1, <1>3, <1>9, <1>10
  <2> QED BY <2>1, <1>3, WrapSmall
<1>13. \A o \in DOMAIN s : at < o => next <= o
  <2> SUFFICES ASSUME NEW o \in DOMAIN s, at < o
               PROVE  next <= o
    OBVIOUS
  <2> HIDE DEF at
  <2>1. at # offset => at \in DOMAIN s /\ EndOf(s, at) = offset
    BY <1>9, <1>5 DEF Joined
  <2>2. offset <= o
    BY <2>1, <1>2, <1>9 DEF Disjoint
  <2> QED BY <2>2, <1>2, <1>3, <1>4
<1>14. CASE next \in DOMAIN s
  <2> HIDE DEF at
  <2>1. next \in After(mid, at)
    BY <1>14, <1>10, <1>9, <1>3 DEF After
  <2>2. /\ NextHole(mid, at) \in DOMAIN mid
        /\ at < NextHole(mid, at)
        /\ NextHole(mid, at) <= next
    BY <2>1, <1>11, NextHoleIsNearest DEF After
  <2>3. NextHole(mid, at) \in DOMAIN s /\ next <= NextHole(mid, at)
    BY <2>2, <1>9, <1>10, <1>13
  <2>4. NextHole(mid, at) = next
    BY <2>2, <2>3, <1>2, <1>3
  <2>5. Mergeable(mid, at, next)
    BY <1>12 DEF Mergeable
  <2>6. MergeNext(mid, at) = Merge(mid, at, next)
    BY <2>1, <2>4, <2>5 DEF MergeNext
  <2>7. next # at /\ mid[next] = s[next]
    BY <1>14, <1>10, <1>9, <1>3
  <2>8. mid[at] + mid[next] + Overhead = next - at + s[next]
    BY <2>7, <1>14, <1>10, <1>9, <1>1, <1>2, <1>3
  <2>9. MergeNext(mid, at)
          = Insert(Erase(mid, {at, next}), at, Wrap(next - at + s[next]))
    BY <2>6, <2>8 DEF Merge
  <2> DEFINE value == Wrap(next - at + s[next])
  <2> HIDE DEF value, next
  <2>10. MergeNext(mid, at)
           = [o \in (DOMAIN mid \ {at, next}) \cup {at} |->
                IF o = at THEN value ELSE mid[o]]
    BY <2>9 DEF Insert, Erase, Restrict, value
  <2>11. MergeNext(mid, at) = Freed(s, next, at)
    BY <2>10, <1>10, <1>14, <2>7 DEF Freed, value
  <2>12. Release(s, offset, size) = MergeNext(mid, at)
    BY DEF Release, at, mid, with
  <2> QED BY <2>11, <2>12, <1>9 DEF next
<1>15. CASE next \notin DOMAIN s
  <2>1. MergeNext(mid, at) = mid
    <3>1. ASSUME After(mid, at) # {}, Mergeable(mid, at, NextHole(mid, at))
          PROVE  FALSE
      <4>1. NextHole(mid, at) = next
        BY <3>1, <1>12 DEF Mergeable
      <4>2. NextHole(mid, at) \in DOMAIN mid /\ at < NextHole(mid, at)
        BY <3>1, <1>11, NextHoleIsNearest
      <4> HIDE DEF at
      <4> QED BY <4>1, <4>2, <1>10, <1>15, <1>9, <1>3
    <3> QED BY <3>1 DEF MergeNext
  <2>2. Release(s, offset, size) = mid
    BY <2>1 DEF Release, at, mid, with
  <2> HIDE DEF at, next
  <2>3. mid = Freed(s, next, at)
    BY <1>10, <1>15 DEF Freed
  <2> QED BY <2>2, <2>3, <1>9 DEF next
<1> QED BY <1>14, <1>15

-----------------------------------------------------------------------------
(* Extents *)

\* Sizes and ends of the blocks of a tree are numbers.
LEMMA BlockNumbers ==
  ASSUME NEW tree, NEW content, IsTree(tree, content), NEW p \in DOMAIN tree
  PROVE  /\ tree[p] \in Nat /\ tree[p] < Limit /\ content[p].size \in Nat
         /\ BlockEnd(tree, content, p) \in Nat
         /\ tree[p] < BlockEnd(tree, content, p)
<1>1. tree[p] \in Nat /\ tree[p] < Limit /\ content[p].size \in Nat
  BY FreeSpaceAssumption DEF IsTree, Word
<1> QED BY <1>1, OverheadNat, FreeSpaceAssumption DEF BlockEnd

\* Offsets, sizes and ends of the entries of a free list are numbers.
LEMMA HoleNumbers ==
  ASSUME NEW space, IsSpace(space), NEW o \in DOMAIN space
  PROVE  /\ o \in Nat /\ o < Limit /\ space[o] \in Nat /\ space[o] < Limit
         /\ EndOf(space, o) \in Nat /\ o < EndOf(space, o)
<1>1. o \in Nat /\ o < Limit /\ space[o] \in Nat /\ space[o] < Limit
  BY FreeSpaceAssumption DEF IsSpace, Word
<1> QED BY <1>1, OverheadNat, FreeSpaceAssumption DEF EndOf

\* A block occupies its data and the overhead.
LEMMA LengthOfBlock ==
  ASSUME NEW p, NEW serial, NEW size
  PROVE  Length(Block(p, serial, size)) = size + Overhead
BY DEF Length, Block

\* Writing an extent leaves the ones that lie clear of it.
LEMMA WriteSpares ==
  ASSUME NEW d, NEW offset, NEW extent, NEW x \in DOMAIN d,
         x # offset,
         x + Length(d[x]) <= offset \/ offset + Length(extent) <= x
  PROVE  /\ x \in DOMAIN Write(d, offset, extent)
         /\ Write(d, offset, extent)[x] = d[x]
BY DEF Write, Spared, Restrict

\* What was written is there.
LEMMA WriteWrites ==
  ASSUME NEW d, NEW offset, NEW extent
  PROVE  /\ offset \in DOMAIN Write(d, offset, extent)
         /\ Write(d, offset, extent)[offset] = extent
         /\ DOMAIN Write(d, offset, extent) \subseteq DOMAIN d \cup {offset}
BY DEF Write, Spared, Restrict

\* A master record written above the blocks leaves them whole.
LEMMA RecordSparesBlocks ==
  ASSUME NEW tree, NEW content, NEW d, SoundBlocks(tree, content, d),
         NEW offset \in Nat, BlocksBelow(tree, content, offset), NEW extent
  PROVE  SoundBlocks(tree, content, Write(d, offset, extent))
<1>1. ASSUME NEW p \in Stored(tree)
      PROVE  /\ tree[p] \in DOMAIN Write(d, offset, extent)
             /\ Write(d, offset, extent)[tree[p]]
                  = Block(p, content[p].serial, content[p].size)
  <2>1. /\ tree[p] \in DOMAIN d
        /\ d[tree[p]] = Block(p, content[p].serial, content[p].size)
    BY <1>1 DEF SoundBlocks, BlocksWhole
  <2>2. p \in DOMAIN tree
    BY <1>1 DEF Stored
  <2>3. tree[p] + (content[p].size + Overhead) <= offset /\ tree[p] < offset
    <3>1. BlockEnd(tree, content, p) <= offset
      BY <1>1 DEF BlocksBelow
    <3> QED BY <3>1, <2>2, BlockNumbers, OverheadNat DEF SoundBlocks, BlockEnd
  <2>4. tree[p] # offset
    BY <2>2, <2>3, BlockNumbers DEF SoundBlocks
  <2> QED BY <2>1, <2>3, <2>4, LengthOfBlock, WriteSpares
<1> QED BY <1>1 DEF SoundBlocks, BlocksWhole

-----------------------------------------------------------------------------
(* Storing a block *)

\* Every block lies below the last free entry, which has no end on the device.
LEMMA BlocksBelowTail ==
  ASSUME NEW tree, NEW content, NEW d, SoundBlocks(tree, content, d),
         NEW space, NEW offset, SoundSpace(tree, content, space, offset)
  PROVE  /\ LastHole(space) \in DOMAIN space
         /\ \A o \in DOMAIN space : o <= LastHole(space)
         /\ BlocksBelow(tree, content, LastHole(space))
<1> DEFINE tail == LastHole(space)
<1>1. tail \in DOMAIN space /\ \A o \in DOMAIN space : o <= tail
  BY LastHoleIsGreatest DEF SoundSpace, IsSpace
<1>2. ASSUME NEW p \in Stored(tree)
      PROVE  BlockEnd(tree, content, p) <= tail
  <2>1. p \in DOMAIN tree
    BY DEF Stored
  <2>2. /\ tree[p] \in Nat /\ BlockEnd(tree, content, p) \in Nat
        /\ tree[p] < BlockEnd(tree, content, p)
    BY <2>1, BlockNumbers DEF SoundBlocks
  <2>3. tail \in Nat /\ space[tail] \in Nat
    BY <1>1, HoleNumbers DEF SoundSpace
  <2>4. BlockEnd(tree, content, p) <= DiskSize
    BY DEF SoundBlocks, BlocksBelow
  <2>5. DiskSize <= tail + space[tail]
    BY DEF SoundSpace, EndOfSpace
  <2>6. tree[p] < EndOf(space, tail)
    <3> HIDE DEF tail
    <3> QED BY <2>2, <2>3, <2>4, <2>5, OverheadNat, EncryptedFolderAssumption
            DEF EndOf
  <2>7. BlockEnd(tree, content, p) <= tail \/ EndOf(space, tail) <= tree[p]
    BY <1>1 DEF SoundSpace, HolesClear
  <2>8. EndOf(space, tail) \in Nat
    BY <1>1, HoleNumbers DEF SoundSpace
  <2> QED BY <2>2, <2>6, <2>7, <2>8
<1> QED BY <1>1, <1>2 DEF BlocksBelow

\* AddFile puts a block that fits at the start of the first free entry: the
\* blocks stay whole and apart, and so does the free list, with the master
\* record's offset at its new last entry.
LEMMA StoreKeepsSound ==
  ASSUME NEW tree, NEW content, NEW d, SoundBlocks(tree, content, d),
         NEW space, NEW offset, SoundSpace(tree, content, space, offset),
         NEW path \in Paths, path \notin Stored(tree),
         NEW serial, NEW length \in Nat,
         length + Overhead < space[FirstHole(space)],
         LastHole(space) + length + Overhead <= DiskSize,
         NEW tree2, tree2 = Put(tree, path, FirstHole(space)),
         NEW content2, DOMAIN content2 = DOMAIN tree2,
         content2[path].serial = serial, content2[path].size = length,
         \A p \in DOMAIN tree \ {path} : content2[p] = content[p]
  PROVE  /\ Take(space, length) # NoSpace
         /\ SoundBlocks(tree2, content2,
                        Write(d, FirstHole(space), Block(path, serial, length)))
         /\ SoundSpace(tree2, content2, Take(space, length),
                       LastHole(Take(space, length)))
         /\ FirstHole(space) \in Word /\ FirstHole(space) # 0
         /\ LastHole(Take(space, length)) \in Word
<1> DEFINE hole   == FirstHole(space)
           tail   == LastHole(space)
           next   == hole + length + Overhead
           space2 == Take(space, length)
           tail2  == LastHole(space2)
           d2     == Write(d, hole, Block(path, serial, length))
<1> USE EncryptedFolderAssumption
<1>1. Overhead \in Nat /\ Overhead > 0
  BY OverheadNat, FreeSpaceAssumption
<1>2. hole \in DOMAIN space /\ \A o \in DOMAIN space : hole <= o
  BY FirstHoleIsLeast DEF SoundSpace, IsSpace
<1>3. tail \in DOMAIN space /\ \A o \in DOMAIN space : o <= tail
  BY BlocksBelowTail
<1>4. \A o \in DOMAIN space :
        /\ o \in Nat /\ o < Limit /\ space[o] \in Nat /\ space[o] < Limit
        /\ EndOf(space, o) \in Nat /\ o < EndOf(space, o)
        /\ EndOf(space, o) = o + space[o] + Overhead
        /\ FirstOffset <= o
  BY HoleNumbers DEF SoundSpace, EndOf
<1>5. /\ next \in Nat /\ hole < next /\ next < EndOf(space, hole)
      /\ next <= DiskSize /\ next < Limit /\ hole # 0
  <2> HIDE DEF hole, tail
  <2>1. hole \in Nat /\ tail \in Nat /\ hole <= tail /\ FirstOffset <= hole
    BY <1>2, <1>3, <1>4
  <2>2. length + Overhead < space[hole] /\ tail + length + Overhead <= DiskSize
    BY DEF hole, tail
  <2>3. space[hole] \in Nat /\ EndOf(space, hole) = hole + space[hole] + Overhead
    BY <1>2, <1>4
  <2> QED BY <2>1, <2>2, <2>3, <1>1, FreeSpaceAssumption
<1>6. /\ next \notin DOMAIN space
      /\ space2 = [o \in (DOMAIN space \ {hole}) \cup {next} |->
                     IF o = next THEN space[hole] - length - Overhead
                     ELSE space[o]]
  <2>1. IsSpace(space) /\ Disjoint(space) /\ DOMAIN space # {}
    BY DEF SoundSpace
  <2>2. length + Overhead < space[hole] /\ next = hole + length + Overhead
    OBVIOUS
  <2> HIDE DEF next
  <2> QED BY SMTT(30), <2>1, <2>2, <1>5, TakeShortensFirst
<1> HIDE DEF space2, d2, next
<1>7. /\ DOMAIN space2 = (DOMAIN space \ {hole}) \cup {next}
      /\ EndOf(space2, next) = EndOf(space, hole)
      /\ space2[next] \in Nat /\ space2[next] < Limit
      /\ next + space2[next] = hole + space[hole]
      /\ \A o \in DOMAIN space \ {hole} :
           space2[o] = space[o] /\ EndOf(space2, o) = EndOf(space, o)
  <2>1. space2[next] = space[hole] - length - Overhead
    BY <1>6
  <2>2. next = hole + length + Overhead /\ length + Overhead < space[hole]
    BY DEF next
  <2>3. hole \in Nat /\ space[hole] \in Nat /\ space[hole] < Limit
    BY <1>2, <1>4
  <2> HIDE DEF hole
  <2> QED BY <1>1, <1>5, <1>6, <2>1, <2>2, <2>3, FreeSpaceAssumption DEF EndOf
<1>8. \A o \in DOMAIN space \ {hole} : hole < o /\ EndOf(space, hole) <= o /\ next < o
  <2> SUFFICES ASSUME NEW o \in DOMAIN space \ {hole}
               PROVE  hole < o /\ EndOf(space, hole) <= o /\ next < o
    OBVIOUS
  <2> HIDE DEF hole
  <2>1. hole < o
    <3>1. hole <= o /\ hole # o
      BY <1>2
    <3>2. hole \in Nat /\ o \in Nat
      BY <1>2, <1>4
    <3> QED BY ONLY <3>1, <3>2
  <2>2. EndOf(space, hole) <= o
    BY <2>1, <1>2 DEF SoundSpace, Disjoint
  <2> QED BY <2>1, <2>2, <1>2, <1>4, <1>5
<1>9. IsSpace(space2) /\ DOMAIN space2 # {}
  <2>1. space2 = [o \in DOMAIN space2 |-> space2[o]]
    BY <1>6
  <2>2. \A o \in DOMAIN space2 : o \in Word /\ space2[o] \in Word
    BY <1>4, <1>5, <1>7, FreeSpaceAssumption DEF Word
  <2> QED BY <2>1, <2>2, <1>7 DEF IsSpace
<1>10. /\ tail2 \in DOMAIN space2 /\ \A o \in DOMAIN space2 : o <= tail2
       /\ tail2 \in Word
  BY <1>9, LastHoleIsGreatest DEF IsSpace
<1>11. /\ tail <= tail2 /\ next <= tail2
       /\ (tail2 = next /\ tail = hole) \/ (tail2 = tail /\ tail # hole)
  <2> HIDE DEF hole, tail, tail2
  <2>1. CASE tail = hole
    <3>1. DOMAIN space \subseteq {hole}
      BY <2>1, <1>2, <1>3, <1>4
    <3>2. DOMAIN space2 = {next}
      BY <3>1, <1>7
    <3>3. tail2 = next
      BY <3>2, <1>10
    <3>4. hole \in Nat /\ hole < next /\ next \in Nat
      BY <1>2, <1>4, <1>5
    <3> QED BY <3>3, <3>4, <2>1
  <2>2. CASE tail # hole
    <3>1. tail \in DOMAIN space2 /\ next < tail
      BY <2>2, <1>3, <1>7, <1>8
    <3>2. tail <= tail2 /\ tail2 <= tail
      BY <3>1, <1>3, <1>4, <1>5, <1>7, <1>10
    <3> QED BY <3>1, <3>2, <2>2, <1>3, <1>4, <1>5, <1>7, <1>10
  <2> QED BY <2>1, <2>2
<1>12. EndOfSpace(space2) = EndOfSpace(space)
  BY <1>11, <1>7, <1>3, <1>2 DEF EndOfSpace
<1>13. Disjoint(space2) /\ Apart(space2)
  <2> SUFFICES ASSUME NEW o1 \in DOMAIN space2, NEW o2 \in DOMAIN space2, o1 < o2
               PROVE  EndOf(space2, o1) <= o2 /\ EndOf(space2, o1) # o2
    BY DEF Disjoint, Apart
  <2> HIDE DEF hole
  <2>1. CASE o1 = next
    <3>1. o2 \in DOMAIN space /\ hole < o2
      BY <2>1, <1>5, <1>7, <1>8
    <3>2. EndOf(space, hole) <= o2 /\ EndOf(space, hole) # o2
      BY <3>1, <1>2 DEF SoundSpace, Disjoint, Apart
    <3> QED BY <3>2, <2>1, <1>7
  <2>2. CASE o1 # next
    <3>1. o1 \in DOMAIN space \ {hole} /\ next < o1
      BY <2>2, <1>7, <1>8
    <3>2. o2 \in DOMAIN space
      BY <3>1, <1>4, <1>5, <1>7
    <3> QED BY <3>1, <3>2, <1>7 DEF SoundSpace, Disjoint, Apart
  <2> QED BY <2>1, <2>2
<1>14. /\ DOMAIN tree2 = DOMAIN tree \cup {path} /\ tree2[path] = hole
       /\ \A p \in DOMAIN tree \ {path} : tree2[p] = tree[p]
       /\ tree2 = [p \in DOMAIN tree2 |-> tree2[p]]
  BY DEF Put
<1>15. Stored(tree2) = Stored(tree) \cup {path}
  BY <1>5, <1>14 DEF Stored
<1>16. /\ BlockEnd(tree2, content2, path) = next
       /\ \A p \in Stored(tree) : /\ p \in DOMAIN tree /\ p # path
                                 /\ tree2[p] = tree[p]
                                 /\ content2[p] = content[p]
                                 /\ BlockEnd(tree2, content2, p)
                                      = BlockEnd(tree, content, p)
                                 /\ tree[p] \in Nat
                                 /\ BlockEnd(tree, content, p) \in Nat
                                 /\ tree[p] < BlockEnd(tree, content, p)
  <2>1. \A p \in Stored(tree) : p \in DOMAIN tree /\ p # path
    BY DEF Stored
  <2>2. \A p \in Stored(tree) : tree2[p] = tree[p] /\ content2[p] = content[p]
    BY <2>1, <1>14
  <2> QED BY <2>1, <2>2, <1>14, BlockNumbers DEF BlockEnd, SoundBlocks, next
\* A block that was there lies before the hole or behind its end.
<1>17. ASSUME NEW p \in Stored(tree)
       PROVE  \/ BlockEnd(tree, content, p) <= hole
              \/ EndOf(space, hole) <= tree[p] /\ next < tree[p]
  <2>1. BlockEnd(tree, content, p) <= hole \/ EndOf(space, hole) <= tree[p]
    BY <1>2, <1>17 DEF SoundSpace, HolesClear
  <2> QED BY <2>1, <1>2, <1>4, <1>5, <1>16
<1>18. IsTree(tree2, content2)
  <2>1. DOMAIN tree2 \subseteq Paths /\ DOMAIN content2 = DOMAIN tree2
    BY <1>14 DEF SoundBlocks, IsTree
  <2>2. hole \in Word
    BY <1>2 DEF SoundSpace, IsSpace
  <2>3. \A p \in DOMAIN tree2 : tree2[p] \in Word /\ content2[p].size \in Nat
    BY <1>14, <2>2 DEF SoundBlocks, IsTree
  <2> QED BY <2>1, <2>3, <1>14 DEF IsTree
<1>19. BlocksWhole(tree2, content2, d2)
  <2> SUFFICES ASSUME NEW p \in Stored(tree2)
               PROVE  /\ tree2[p] \in DOMAIN d2
                      /\ d2[tree2[p]]
                           = Block(p, content2[p].serial, content2[p].size)
    BY DEF BlocksWhole
  <2>1. CASE p = path
    BY <2>1, <1>14, WriteWrites DEF d2
  <2>2. CASE p # path
    <3>1. p \in Stored(tree)
      BY <2>2, <1>15
    <3>2. /\ tree[p] \in DOMAIN d
          /\ d[tree[p]] = Block(p, content[p].serial, content[p].size)
      BY <3>1 DEF SoundBlocks, BlocksWhole
    <3>3. Length(d[tree[p]]) = content[p].size + Overhead
      BY <3>2, LengthOfBlock
    <3>4. tree[p] + (content[p].size + Overhead) = BlockEnd(tree, content, p)
      BY <3>1, <1>1, <1>16, BlockNumbers DEF BlockEnd, SoundBlocks
    <3>5. hole + Length(Block(path, serial, length)) = next
      BY <1>1, <1>2, <1>4, LengthOfBlock DEF next
    <3>6. /\ tree[p] # hole
          /\ \/ tree[p] + Length(d[tree[p]]) <= hole
             \/ hole + Length(Block(path, serial, length)) <= tree[p]
      <4> HIDE DEF hole
      <4> QED BY <3>1, <3>3, <3>4, <3>5, <1>2, <1>4, <1>5, <1>16, <1>17
    <3>7. tree[p] \in DOMAIN d2 /\ d2[tree[p]] = d[tree[p]]
      BY <3>2, <3>6, WriteSpares DEF d2
    <3> QED BY <3>1, <3>2, <3>7, <1>16
  <2> QED BY <2>1, <2>2
<1>20. BlocksBelow(tree2, content2, DiskSize)
  BY <1>5, <1>15, <1>16 DEF BlocksBelow, SoundBlocks
<1>21. \A p \in Stored(tree2) : FirstOffset <= tree2[p]
  BY <1>2, <1>4, <1>14, <1>15, <1>16 DEF SoundBlocks
<1>22. \A p, q \in Stored(tree2) :
         p # q => \/ BlockEnd(tree2, content2, p) <= tree2[q]
                  \/ BlockEnd(tree2, content2, q) <= tree2[p]
  <2> SUFFICES ASSUME NEW p \in Stored(tree2), NEW q \in Stored(tree2), p # q
               PROVE  \/ BlockEnd(tree2, content2, p) <= tree2[q]
                      \/ BlockEnd(tree2, content2, q) <= tree2[p]
    OBVIOUS
  <2> HIDE DEF hole
  <2>1. CASE p # path /\ q # path
    BY <2>1, <1>15, <1>16 DEF SoundBlocks
  <2>2. CASE p = path
    <3>1. q \in Stored(tree)
      BY <2>2, <1>15
    <3> QED BY <3>1, <2>2, <1>5, <1>14, <1>16, <1>17
  <2>3. CASE q = path
    <3>1. p \in Stored(tree)
      BY <2>3, <1>15
    <3> QED BY <3>1, <2>3, <1>5, <1>14, <1>16, <1>17
  <2> QED BY <2>1, <2>2, <2>3
<1>23. HolesClear(tree2, content2, space2)
  <2> SUFFICES ASSUME NEW p \in Stored(tree2), NEW o \in DOMAIN space2
               PROVE  \/ BlockEnd(tree2, content2, p) <= o
                      \/ EndOf(space2, o) <= tree2[p]
    BY DEF HolesClear
  <2> HIDE DEF hole
  <2>1. CASE p = path
    <3>1. o = next \/ (o \in Nat /\ next < o)
      BY <1>4, <1>7, <1>8
    <3>2. BlockEnd(tree2, content2, p) = next
      BY <2>1, <1>16
    <3> QED BY <3>1, <3>2, <1>5
  <2>2. CASE p # path /\ o = next
    <3>1. p \in Stored(tree)
      BY <2>2, <1>15
    <3> QED BY <3>1, <2>2, <1>2, <1>4, <1>5, <1>7, <1>16, <1>17
  <2>3. CASE p # path /\ o # next
    <3>1. p \in Stored(tree) /\ o \in DOMAIN space \ {hole}
      BY <2>3, <1>7, <1>15
    <3> QED BY <3>1, <1>7, <1>16 DEF SoundSpace, HolesClear
  <2> QED BY <2>1, <2>2, <2>3
<1>24. BlocksBelow(tree2, content2, tail2)
  <2> SUFFICES ASSUME NEW p \in Stored(tree2)
               PROVE  BlockEnd(tree2, content2, p) <= tail2
    BY DEF BlocksBelow
  <2>1. CASE p = path
    BY <2>1, <1>11, <1>16
  <2>2. CASE p # path
    <3>1. p \in Stored(tree)
      BY <2>2, <1>15
    <3>2. BlockEnd(tree, content, p) <= tail
      BY <3>1, BlocksBelowTail DEF BlocksBelow
    <3>3. tail \in Nat /\ tail2 \in Nat /\ tail <= tail2
      BY <1>3, <1>4, <1>10, <1>11, FreeSpaceAssumption DEF Word
    <3> HIDE DEF tail, tail2
    <3> QED BY <3>1, <3>2, <3>3, <1>16
  <2> QED BY <2>1, <2>2
<1>25. SoundBlocks(tree2, content2, d2)
  BY <1>18, <1>19, <1>20, <1>21, <1>22 DEF SoundBlocks
<1>26. \A o \in DOMAIN space2 : FirstOffset <= o
  BY <1>2, <1>4, <1>5, <1>7
<1>27. tail2 <= tail2
  BY <1>10, FreeSpaceAssumption DEF Word
\* The hole starts where the block does; what ended there still does, and the
\* block ends where the shortened entry starts.
<1>28. Seamless(tree2, content2, space2)
  <2> HIDE DEF hole, tail, tail2
  <2>1. Starts(tree2, space2) = Starts(tree, space) \cup {next}
    BY <1>2, <1>7, <1>14, <1>15, <1>16 DEF Starts
  <2>2. \A p \in Stored(tree2) :
          BlockEnd(tree2, content2, p) \in Starts(tree2, space2)
    BY <2>1, <1>15, <1>16 DEF SoundSpace, Seamless
  <2>3. ASSUME NEW o \in DOMAIN space2 \ {tail2}
        PROVE  EndOf(space2, o) \in Starts(tree2, space2)
    <3>1. CASE o = next
      <4>1. hole # tail /\ EndOf(space2, o) = EndOf(space, hole)
        BY <2>3, <3>1, <1>7, <1>11
      <4> QED BY <4>1, <2>1, <1>2 DEF SoundSpace, Seamless, tail
    <3>2. CASE o # next
      <4>1. /\ o \in DOMAIN space \ {tail}
            /\ EndOf(space2, o) = EndOf(space, o)
        BY <2>3, <3>2, <1>7, <1>11
      <4> QED BY <4>1, <2>1 DEF SoundSpace, Seamless, tail
    <3> QED BY <3>1, <3>2
  <2> QED BY <2>1, <2>2, <2>3 DEF SoundSpace, Seamless, tail2
<1>29. space2 # NoSpace
  BY <1>9 DEF NoSpace
<1>30. hole \in Word
  BY <1>2 DEF SoundSpace, IsSpace
<1>31. SoundSpace(tree2, content2, space2, tail2)
  BY <1>9, <1>12, <1>13, <1>23, <1>24, <1>26, <1>27, <1>28 DEF SoundSpace
<1> QED BY <1>5, <1>10, <1>25, <1>29, <1>30, <1>31 DEF d2, space2

-----------------------------------------------------------------------------
(* Giving a block back *)

\* Remove of a file that does not wrap the last free entry: the other blocks
\* stay whole and apart, and so does the free list.
LEMMA DiscardKeepsSound ==
  ASSUME NEW tree, NEW content, NEW d, SoundBlocks(tree, content, d),
         NEW space, NEW offset, SoundSpace(tree, content, space, offset),
         NEW p \in Stored(tree),
         NEW space2, space2 = Release(space, tree[p], content[p].size),
         EndOfSpace(space2) = EndOfSpace(space), offset \in Word
  PROVE  /\ SoundBlocks(Drop(tree, {p}), Drop(content, {p}), d)
         /\ SoundSpace(Drop(tree, {p}), Drop(content, {p}), space2, offset)
<1> DEFINE first == tree[p]
           next  == BlockEnd(tree, content, p)
           tail  == LastHole(space)
           tree2 == Drop(tree, {p})
           content2 == Drop(content, {p})
<1> USE EncryptedFolderAssumption
<1>1. Overhead \in Nat /\ Overhead > 0
  BY OverheadNat, FreeSpaceAssumption
<1>2. p \in DOMAIN tree
  BY DEF Stored
<1>3. /\ first \in Nat /\ next \in Nat /\ first < next /\ next <= DiskSize
      /\ content[p].size \in Nat /\ next = first + content[p].size + Overhead
      /\ FirstOffset <= first
  BY <1>2, BlockNumbers DEF SoundBlocks, BlocksBelow, BlockEnd
<1>4. \A o \in DOMAIN space :
        /\ o \in Nat /\ o < Limit /\ space[o] \in Nat /\ space[o] < Limit
        /\ EndOf(space, o) \in Nat /\ o < EndOf(space, o)
        /\ EndOf(space, o) = o + space[o] + Overhead
        /\ FirstOffset <= o
  BY HoleNumbers DEF SoundSpace, EndOf
<1>5. tail \in DOMAIN space /\ (\A o \in DOMAIN space : o <= tail) /\ next <= tail
  BY BlocksBelowTail DEF BlocksBelow
<1>6. \A o \in DOMAIN space : next <= o \/ EndOf(space, o) <= first
  BY DEF SoundSpace, HolesClear
<1> HIDE DEF first, next, tail
<1>7. PICK at \in Nat : /\ at <= first /\ Joined(space, first, at)
                       /\ space2 = Freed(space, next, at)
  <2>1. IsSpace(space) /\ Disjoint(space)
    BY DEF SoundSpace
  <2>2. Between(space, first, first + content[p].size + Overhead)
    BY <1>3, <1>6 DEF Between
  <2>3. first + content[p].size + Overhead < Limit
    BY <1>3, FreeSpaceAssumption
  <2> QED BY <2>1, <2>2, <2>3, <1>3, ReleaseJoinsNeighbours DEF first
<1>8. /\ DOMAIN space2 = (DOMAIN space \ {next}) \cup {at}
      /\ \A o \in DOMAIN space2 \ {at} :
           /\ o \in DOMAIN space /\ o # next
           /\ space2[o] = space[o] /\ EndOf(space2, o) = EndOf(space, o)
      /\ space2[at] = IF next \in DOMAIN space THEN Wrap(next - at + space[next])
                                              ELSE next - at - Overhead
  BY <1>7 DEF Freed, EndOf
<1>9. at # first => at \in DOMAIN space /\ EndOf(space, at) = first
  BY <1>7 DEF Joined
<1>10. FirstOffset <= at /\ at < next /\ at < Limit
  BY <1>3, <1>4, <1>7, <1>9, FreeSpaceAssumption
<1>11. next - at - Overhead \in Nat
  <2>1. CASE at = first
    BY <2>1, <1>1, <1>3
  <2>2. CASE at # first
    BY <2>2, <1>1, <1>3, <1>4, <1>9
  <2> QED BY <2>1, <2>2
<1>12. IsSpace(space2)
  <2>1. \A o \in DOMAIN space2 \ {at} : o \in Word /\ space2[o] \in Word
    BY <1>8 DEF SoundSpace, IsSpace
  <2>2. at \in Word /\ space2[at] \in Word
    <3>1. at \in Word
      BY <1>10, FreeSpaceAssumption DEF Word
    <3>2. CASE next \in DOMAIN space
      <4>1. next - at + space[next] \in Int
        BY <3>2, <1>3, <1>4, <1>7
      <4> QED BY <3>1, <3>2, <4>1, <1>8, WrapWord
    <3>3. CASE next \notin DOMAIN space
      <4>1. next - at - Overhead < Limit
        BY <1>1, <1>3, <1>7, FreeSpaceAssumption
      <4> QED BY <3>1, <3>3, <4>1, <1>8, <1>11, FreeSpaceAssumption DEF Word
    <3> QED BY <3>2, <3>3
  <2>3. space2 = [o \in DOMAIN space2 |-> space2[o]]
    BY <1>7 DEF Freed
  <2> QED BY <2>1, <2>2, <2>3 DEF IsSpace
\* Where the joined entry ends: at the block's end, or where the entry after the
\* block ended.
<1>13. \/ /\ next \notin DOMAIN space /\ EndOf(space2, at) = next
       \/ /\ next \in DOMAIN space /\ EndOf(space2, at) = EndOf(space, next)
  <2>1. CASE next \notin DOMAIN space
    BY <2>1, <1>1, <1>3, <1>7, <1>8, <1>11 DEF EndOf
  <2>2. CASE next \in DOMAIN space /\ next # tail
    <3>1. EndOf(space, next) <= tail /\ tail < Limit
      <4>1. next < tail
        BY <2>2, <1>3, <1>4, <1>5
      <4> QED BY <4>1, <2>2, <1>4, <1>5 DEF SoundSpace, Disjoint
    <3>2. next - at + space[next] \in Nat /\ next - at + space[next] < Limit
      BY <3>1, <2>2, <1>1, <1>3, <1>4, <1>5, <1>7, <1>10, FreeSpaceAssumption
    <3>3. space2[at] = next - at + space[next]
      BY <3>2, <2>2, <1>8, WrapSmall
    <3> QED BY <3>3, <2>2, <1>1, <1>3, <1>4, <1>7 DEF EndOf
  <2>3. CASE next = tail
    <3>1. LastHole(space2) = at
      <4>1. DOMAIN space2 # {}
        BY <1>8
      <4>2. /\ LastHole(space2) \in DOMAIN space2
            /\ \A o \in DOMAIN space2 : o <= LastHole(space2)
        BY <4>1, <1>12, LastHoleIsGreatest DEF IsSpace
      <4>3. ASSUME LastHole(space2) # at
            PROVE  FALSE
        <5> DEFINE last == LastHole(space2)
        <5>1. last \in DOMAIN space /\ last # next /\ at <= last /\ last <= next
          BY <4>2, <4>3, <1>5, <1>8, <2>3
        <5>2. last \in Nat /\ at < last /\ last < next
          <6> HIDE DEF last
          <6>1. last # at
            BY <4>3 DEF last
          <6> QED BY <5>1, <6>1, <1>3, <1>4, <1>7
        <5>3. EndOf(space, last) <= first
          BY <5>1, <5>2, <1>3, <1>4, <1>6
        <5>4. CASE at = first
          BY <5>1, <5>2, <5>3, <5>4, <1>3, <1>4
        <5>5. CASE at # first
          <6>1. EndOf(space, at) <= last
            BY <5>1, <5>2, <5>5, <1>9 DEF SoundSpace, Disjoint
          <6> QED BY <6>1, <5>1, <5>3, <5>5, <1>3, <1>4, <1>9
        <5> QED BY <5>4, <5>5
      <4> QED BY <4>3
    <3>2. at + space2[at] = next + space[next]
      BY <3>1, <2>3 DEF EndOfSpace, tail
    <3> QED BY <3>2, <2>3, <1>1, <1>3, <1>4, <1>5, <1>7, <1>12, HoleNumbers, <1>8
            DEF EndOf
  <2> QED BY <2>1, <2>2, <2>3
<1>14. EndOf(space2, at) \in Nat
  BY <1>3, <1>4, <1>13
\* The other entries lie before the joined one or behind it.
<1>15. ASSUME NEW o \in DOMAIN space2 \ {at}
       PROVE  /\ o < at => EndOf(space2, o) <= at /\ EndOf(space2, o) # at
              /\ at < o => EndOf(space2, at) <= o /\ EndOf(space2, at) # o
  <2>1. o \in DOMAIN space /\ o # next /\ EndOf(space2, o) = EndOf(space, o)
    BY <1>8
  <2>2. CASE o < at
    <3>1. CASE at = first
      <4>1. EndOf(space, o) <= first
        BY <2>1, <2>2, <3>1, <1>3, <1>4, <1>6
      <4>2. EndOf(space, o) # first
        BY <2>1, <2>2, <3>1, <1>4, <1>7 DEF Joined
      <4> QED BY <4>1, <4>2, <2>1, <2>2, <3>1, <1>3, <1>4
    <3>2. CASE at # first
      <4>1. EndOf(space, o) <= at /\ EndOf(space, o) # at
        BY <2>1, <2>2, <3>2, <1>9 DEF SoundSpace, Disjoint, Apart
      <4> QED BY <4>1, <2>1, <2>2, <1>4, <1>7
    <3> QED BY <3>1, <3>2
  <2>3. CASE at < o
    <3>1. next < o
      <4>1. ASSUME EndOf(space, o) <= first
            PROVE  FALSE
        <5>1. CASE at = first
          BY <4>1, <5>1, <2>1, <2>3, <1>3, <1>4
        <5>2. CASE at # first
          <6>1. EndOf(space, at) <= o
            BY <5>2, <2>1, <2>3, <1>9 DEF SoundSpace, Disjoint
          <6> QED BY <6>1, <4>1, <5>2, <2>1, <1>3, <1>4, <1>9
        <5> QED BY <5>1, <5>2
      <4> QED BY <4>1, <2>1, <1>3, <1>4, <1>6
    <3>2. CASE next \notin DOMAIN space
      BY <3>1, <3>2, <2>1, <2>3, <1>3, <1>4, <1>7, <1>13
    <3>3. CASE next \in DOMAIN space
      <4>1. EndOf(space, next) <= o /\ EndOf(space, next) # o
        BY <3>1, <3>3, <2>1 DEF SoundSpace, Disjoint, Apart
      <4> QED BY <4>1, <3>3, <2>1, <2>3, <1>4, <1>7, <1>13
    <3> QED BY <3>2, <3>3
  <2>4. o \in Nat
    BY <2>1, <1>4
  <2> QED BY <2>2, <2>3, <2>4, <1>7
<1>16. Disjoint(space2) /\ Apart(space2)
  <2> SUFFICES ASSUME NEW o1 \in DOMAIN space2, NEW o2 \in DOMAIN space2, o1 < o2
               PROVE  EndOf(space2, o1) <= o2 /\ EndOf(space2, o1) # o2
    BY DEF Disjoint, Apart
  <2>1. CASE o1 = at
    BY <2>1, <1>7, <1>15
  <2>2. CASE o2 = at
    BY <2>2, <1>7, <1>15
  <2>3. CASE o1 # at /\ o2 # at
    BY <2>3, <1>8 DEF SoundSpace, Disjoint, Apart
  <2> QED BY <2>1, <2>2, <2>3
<1>17. /\ DOMAIN tree2 = DOMAIN tree \ {p} /\ DOMAIN content2 = DOMAIN tree2
       /\ tree2 = [q \in DOMAIN tree2 |-> tree2[q]]
       /\ \A q \in DOMAIN tree2 : tree2[q] = tree[q] /\ content2[q] = content[q]
  BY DEF Drop, Restrict, SoundBlocks, IsTree
<1> HIDE DEF tree2, content2
<1>18. /\ Stored(tree2) = Stored(tree) \ {p}
       /\ \A q \in Stored(tree2) :
            /\ q \in DOMAIN tree2 /\ q \in DOMAIN tree /\ q \in Stored(tree) /\ q # p
            /\ BlockEnd(tree2, content2, q) = BlockEnd(tree, content, q)
            /\ tree2[q] = tree[q] /\ content2[q] = content[q]
            /\ tree[q] \in Nat /\ BlockEnd(tree, content, q) \in Nat
            /\ tree[q] < BlockEnd(tree, content, q)
  BY <1>17, BlockNumbers DEF Stored, BlockEnd, SoundBlocks
<1>19. SoundBlocks(tree2, content2, d)
  <2>1. IsTree(tree2, content2)
    BY <1>17 DEF SoundBlocks, IsTree
  <2>2. BlocksWhole(tree2, content2, d)
    BY <1>18 DEF SoundBlocks, BlocksWhole
  <2>3. BlocksBelow(tree2, content2, DiskSize)
    BY <1>18 DEF SoundBlocks, BlocksBelow
  <2>4. \A q \in Stored(tree2) : FirstOffset <= tree2[q]
    BY <1>18 DEF SoundBlocks
  <2>5. \A q, r \in Stored(tree2) :
          q # r => \/ BlockEnd(tree2, content2, q) <= tree2[r]
                   \/ BlockEnd(tree2, content2, r) <= tree2[q]
    BY <1>18 DEF SoundBlocks
  <2> QED BY <2>1, <2>2, <2>3, <2>4, <2>5 DEF SoundBlocks
<1>20. HolesClear(tree2, content2, space2)
  <2> SUFFICES ASSUME NEW q \in Stored(tree2), NEW o \in DOMAIN space2
               PROVE  \/ BlockEnd(tree2, content2, q) <= o
                      \/ EndOf(space2, o) <= tree2[q]
    BY DEF HolesClear
  <2>1. \A x \in DOMAIN space : \/ BlockEnd(tree, content, q) <= x
                               \/ EndOf(space, x) <= tree[q]
    BY <1>18 DEF SoundSpace, HolesClear
  <2>2. BlockEnd(tree, content, q) <= first \/ next <= tree[q]
    BY <1>18 DEF SoundBlocks, first, next
  <2>3. CASE o # at
    BY <2>1, <2>3, <1>8, <1>18
  <2>4. CASE o = at
    <3>1. BlockEnd(tree, content, q) <= at \/ next <= tree[q]
      BY <2>1, <2>2, <1>3, <1>4, <1>7, <1>9, <1>18
    <3>2. next <= tree[q] => EndOf(space2, at) <= tree[q]
      BY <2>1, <1>3, <1>4, <1>13, <1>18
    <3> QED BY <3>1, <3>2, <2>4, <1>18
  <2> QED BY <2>3, <2>4
<1>21. LastHole(space2) <= offset
  <2>1. /\ LastHole(space2) \in DOMAIN space2 /\ LastHole(space2) \in Nat
    BY <1>8, <1>12, LastHoleIsGreatest, FreeSpaceAssumption DEF IsSpace, Word
  <2>2. LastHole(space2) <= tail
    BY <2>1, <1>3, <1>4, <1>5, <1>8, <1>10
  <2>3. tail <= offset /\ tail \in Nat /\ offset \in Nat
    BY <1>4, <1>5, FreeSpaceAssumption DEF SoundSpace, tail, Word
  <2> QED BY <2>1, <2>2, <2>3
<1>22. BlocksBelow(tree2, content2, offset)
  BY <1>18 DEF SoundSpace, BlocksBelow
<1>23. (\A o \in DOMAIN space2 : FirstOffset <= o) /\ DOMAIN space2 # {}
  BY <1>4, <1>8, <1>10
\* Only two starts go: the block's, when the entry before it takes the block in,
\* and that of the entry behind it.  Nothing else ended at either.
<1>24. Seamless(tree2, content2, space2)
  <2> DEFINE starts  == Starts(tree, space)
             starts2 == Starts(tree2, space2)
             last2   == LastHole(space2)
  <2>1. /\ \A x \in starts : \/ x \in starts2
                             \/ x = first /\ at # first
                             \/ x = next
        /\ next \in starts => next \in DOMAIN space \/ next \in starts2
    <3>1. ASSUME NEW q \in Stored(tree), q # p
          PROVE  tree[q] \in starts2
      BY <3>1, <1>18 DEF Starts
    <3>2. ASSUME NEW x \in DOMAIN space, x # next
          PROVE  x \in starts2
      BY <3>2, <1>8 DEF Starts
    <3>3. at \in starts2
      BY <1>8 DEF Starts
    <3>4. first = tree[p] /\ first # next
      BY <1>3 DEF first
    <3> HIDE DEF starts2
    <3> QED BY <3>1, <3>2, <3>3, <3>4 DEF Starts
  <2>2. /\ FirstOffset \in starts /\ next \in starts
        /\ \A q \in Stored(tree) : BlockEnd(tree, content, q) \in starts
        /\ \A o \in DOMAIN space \ {tail} : EndOf(space, o) \in starts
    BY DEF SoundSpace, Seamless, next, tail
  <2>3. /\ last2 \in DOMAIN space2 /\ last2 \in Nat
        /\ \A o \in DOMAIN space2 : o <= last2
    BY <1>8, <1>12, LastHoleIsGreatest, FreeSpaceAssumption DEF IsSpace, Word
  <2>4. at \in starts2
    BY <1>8 DEF Starts
  <2> HIDE DEF starts, starts2, last2
  <2>5. FirstOffset \in starts2
    BY <2>1, <2>2, <2>4, <1>3, <1>7, <1>10
  <2>6. ASSUME NEW q \in Stored(tree2)
        PROVE  BlockEnd(tree2, content2, q) \in starts2
    <3> DEFINE end == BlockEnd(tree, content, q)
    <3>1. /\ q \in Stored(tree) /\ q # p /\ BlockEnd(tree2, content2, q) = end
          /\ tree[q] \in Nat /\ end \in Nat /\ tree[q] < end
      BY <1>18
    <3>2. end # next
      <4>1. end <= first \/ next <= tree[q]
        BY <3>1 DEF SoundBlocks, first, next
      <4> HIDE DEF end
      <4> QED BY <4>1, <3>1, <1>3
    <3>3. ASSUME at # first PROVE end # first
      <4>1. end <= at \/ first <= tree[q]
        BY <3>1, <3>3, <1>9 DEF SoundSpace, HolesClear
      <4> HIDE DEF end
      <4> QED BY <4>1, <3>1, <3>3, <1>3, <1>7
    <3>4. end \in starts
      BY <3>1, <2>2
    <3> QED BY <3>1, <3>2, <3>3, <3>4, <2>1
  <2>7. ASSUME NEW o \in DOMAIN space2 \ {last2}, o # at
        PROVE  EndOf(space2, o) \in starts2
    <3> DEFINE end == EndOf(space, o)
    <3>1. /\ o \in DOMAIN space /\ o # next /\ EndOf(space2, o) = end
          /\ o \in Nat /\ end \in Nat /\ o < end
      BY <2>7, <1>4, <1>8
    <3>2. o # tail
      <4>1. CASE last2 \in DOMAIN space
        BY <4>1, <2>3, <2>7, <3>1, <1>5
      <4>2. CASE last2 = at
        BY <4>2, <2>3, <2>7, <3>1, <1>3, <1>5, <1>7, <1>10
      <4> QED BY <4>1, <4>2, <2>3, <1>8
    <3>3. end # next
      <4>1. next <= o \/ end <= first
        BY <3>1, <1>6
      <4> HIDE DEF end
      <4> QED BY <4>1, <3>1, <1>3
    <3>4. ASSUME at # first PROVE end # first
      <4>1. CASE o < at
        <5>1. end <= at
          BY <4>1, <3>1, <3>4, <1>9 DEF SoundSpace, Disjoint
        <5> HIDE DEF end
        <5> QED BY <5>1, <3>1, <3>4, <1>3, <1>7
      <4>2. CASE at < o
        <5>1. first <= o
          BY <4>2, <3>1, <3>4, <1>9 DEF SoundSpace, Disjoint
        <5> HIDE DEF end
        <5> QED BY <5>1, <3>1, <1>3
      <4> QED BY <4>1, <4>2, <2>7, <3>1, <1>7
    <3>5. end \in starts
      BY <3>1, <3>2, <2>2
    <3> QED BY <3>1, <3>3, <3>4, <3>5, <2>1
  <2>8. ASSUME at # last2
        PROVE  EndOf(space2, at) \in starts2
    <3>1. CASE next \notin DOMAIN space
      BY <3>1, <2>1, <2>2, <1>13
    <3>2. CASE next \in DOMAIN space
      <4> DEFINE end == EndOf(space, next)
      <4>1. EndOf(space2, at) = end /\ next < end /\ end \in Nat
        BY <3>2, <1>4, <1>13
      <4>2. next # tail
        <5>1. ASSUME next = tail PROVE FALSE
          <6>1. last2 \in DOMAIN space /\ last2 # next /\ last2 <= next
            BY <5>1, <2>3, <2>8, <1>5, <1>8
          <6>2. at < last2
            <7>1. at \in DOMAIN space2
              BY <1>8
            <7>2. at <= last2
              BY <7>1, <2>3
            <7> QED BY ONLY <7>2, <2>3, <2>8, at \in Nat
          <6>3. end <= last2
            BY <6>2, <4>1, <2>3, <2>8, <1>15
          <6> HIDE DEF end
          <6> QED BY <6>1, <6>3, <4>1, <2>3, <1>3
        <5> QED BY <5>1
      <4>3. end \in starts
        BY <4>2, <3>2, <2>2
      <4> HIDE DEF end
      <4> QED BY <4>1, <4>3, <2>1, <1>3
    <3> QED BY <3>1, <3>2
  <2> QED BY <2>5, <2>6, <2>7, <2>8 DEF Seamless, starts2, last2
<1>25. SoundSpace(tree2, content2, space2, offset)
  BY <1>12, <1>16, <1>20, <1>21, <1>22, <1>23, <1>24 DEF SoundSpace
<1> QED BY <1>19, <1>25 DEF tree2, content2

-----------------------------------------------------------------------------
(* Inductive is an invariant: the actions *)

\* In a sound container AddFile of something that fits does what its name says.
LEMMA AddFileStores ==
  ASSUME SoundBlocks(files, want, disk),
         SoundSpace(files, want, free, curOffset),
         NEW path, NEW data, NEW serial, NEW length \in Nat,
         Fits(length), RoomOnDevice(length),
         AddFile(free, path, data, path, serial, length),
         Take(free, length) # NoSpace,
         data = 0 \/ files'[path] = FirstHole(free)
  PROVE  /\ mode' = mode /\ changed' = TRUE /\ header' = pending
         /\ UNCHANGED <<dirs, pending>>
         /\ files' = Put(files, path, FirstHole(free))
         /\ free' = Take(free, length)
         /\ curOffset' = LastHole(Take(free, length))
         /\ disk' = Write(disk, FirstHole(free), Block(path, serial, length))
<1> DEFINE hole == FirstHole(free)
<1>1. hole \in DOMAIN free /\ LastHole(free) \in DOMAIN free /\ hole <= LastHole(free)
  BY FirstHoleIsLeast, LastHoleIsGreatest DEF SoundSpace, IsSpace
<1>2. /\ hole \in Nat /\ LastHole(free) \in Nat /\ free[hole] \in Nat
      /\ Overhead \in Nat
  BY <1>1, HoleNumbers, OverheadNat, FreeSpaceAssumption DEF SoundSpace
<1>3. length + Overhead < free[hole]
  BY DEF Fits
<1>4. LastHole(free) + length + Overhead <= DiskSize
  BY DEF RoomOnDevice
<1> HIDE DEF hole
<1>5. Written(free, length) = length
  BY <1>2, <1>3 DEF Written, hole
<1>6. ~(hole + Written(free, length) + Overhead > DiskSize)
  BY <1>1, <1>2, <1>4, <1>5, EncryptedFolderAssumption
<1>7. /\ disk' = Write(disk, hole, Block(path, serial, length))
      /\ files' = Put(files, path, IF data = 0 THEN hole ELSE data)
      /\ free' = Take(free, length)
      /\ curOffset' = LastHole(Take(free, length)) /\ mode' = mode
  BY <1>5, <1>6 DEF AddFile, StoreIn, hole
<1>8. files' = Put(files, path, hole)
  BY <1>7 DEF Put, hole
<1> QED BY <1>7, <1>8 DEF AddFile, hole

\* add of a new name.
LEMMA AddNewFileKeeps ==
  ASSUME Inductive, NEW path \in Paths, NEW length \in Sizes,
         RoomyAddNewFile(path, length)
  PROVE  Inductive'
<1> USE EncryptedFolderAssumption
<1>1. /\ mode = "open" /\ todo = {} /\ todo' = {}
      /\ Fits(length) /\ RoomOnDevice(length)
      /\ path[1] \in dirs /\ path \notin DOMAIN files
      /\ want' = Put(want, path, [serial |-> adds', size |-> length])
      /\ files'[path] = FirstHole(free)
  BY DEF RoomyAddNewFile, AddNewFile, Ready
<1>2. PICK data \in FreshData : AddFile(free, path, data, path, adds', length)
  BY DEF RoomyAddNewFile, AddNewFile
<1>3. SoundOpen
  BY <1>1 DEF Inductive
<1>4. SoundBlocks(files, want, disk) /\ SoundSpace(files, want, free, curOffset)
  BY <1>3 DEF SoundOpen
<1>5. length \in Nat
  OBVIOUS
<1> DEFINE hole   == FirstHole(free)
           files2 == Put(files, path, hole)
<1>6. /\ DOMAIN want' = DOMAIN files2
      /\ want'[path].serial = adds' /\ want'[path].size = length
      /\ \A p \in DOMAIN files \ {path} : want'[p] = want[p]
  BY <1>1, <1>4 DEF Put, SoundBlocks, IsTree
<1>7. length + Overhead < free[hole] /\ LastHole(free) + length + Overhead <= DiskSize
  BY <1>1 DEF Fits, RoomOnDevice
<1>8. path \notin Stored(files)
  BY <1>1 DEF Stored
<1>9. /\ Take(free, length) # NoSpace
      /\ SoundBlocks(files2, want', Write(disk, hole, Block(path, adds', length)))
      /\ SoundSpace(files2, want', Take(free, length),
                    LastHole(Take(free, length)))
      /\ hole \in Word /\ hole # 0
      /\ LastHole(Take(free, length)) \in Word
  BY <1>4, <1>5, <1>6, <1>7, <1>8, StoreKeepsSound
<1>10. /\ mode' = "open" /\ changed' = TRUE /\ header' = pending
       /\ dirs' = dirs /\ pending' = pending
       /\ files' = files2 /\ free' = Take(free, length)
       /\ curOffset' = LastHole(Take(free, length))
       /\ disk' = Write(disk, hole, Block(path, adds', length))
  BY <1>1, <1>2, <1>4, <1>5, <1>9, AddFileStores
<1>11. SoundJobs'
  <2>1. \A p \in DOMAIN files2 : files2[p] # 0 /\ p[1] \in dirs
    BY <1>1, <1>3, <1>9 DEF SoundOpen, SoundJobs, Put
  <2> QED BY <2>1, <1>1, <1>10 DEF SoundJobs
<1>12. SoundOpen'
  BY <1>9, <1>10, <1>11 DEF SoundOpen
<1>13. DOMAIN disk' \subseteq Word
  BY <1>9, <1>10, WriteWrites DEF Inductive
<1> QED BY <1>9, <1>10, <1>12, <1>13 DEF Inductive

\* One file of a folder command that adds.
LEMMA AddNextKeeps ==
  ASSUME Inductive, RoomyAddNext
  PROVE  Inductive'
<1> USE EncryptedFolderAssumption
<1>1. mode = "open" /\ want' = want /\ SoundOpen
  BY DEF RoomyAddNext, AddNext, Inductive
<1>2. PICK job \in todo :
        /\ job.op = "add"
        /\ AddFile(free, job.path, files[job.path], job.from, job.serial, job.size)
        /\ todo' = IF mode' = "open" THEN todo \ {job} ELSE {}
  BY DEF RoomyAddNext, AddNext
<1> DEFINE path   == job.path
           serial == want[path].serial
           length == want[path].size
           hole   == FirstHole(free)
           files2 == Put(files, path, hole)
<1>3. /\ path \in DOMAIN files /\ files[path] = 0 /\ path[1] \in dirs
      /\ job = Job(path, path[1], path, serial, length)
  BY <1>1, <1>2 DEF SoundOpen, SoundJobs
<1>4. job.from = path /\ job.serial = serial /\ job.size = length
  BY <1>3 DEF Job
<1>5. SoundBlocks(files, want, disk) /\ SoundSpace(files, want, free, curOffset)
  BY <1>1 DEF SoundOpen
<1>6. path \in Paths /\ length \in Nat /\ path \notin Stored(files)
  BY <1>3, <1>5 DEF SoundBlocks, IsTree, Stored
<1>7. Fits(length) /\ RoomOnDevice(length)
  BY <1>2, <1>4 DEF RoomyAddNext
<1>8. length + Overhead < free[hole] /\ LastHole(free) + length + Overhead <= DiskSize
  BY <1>7 DEF Fits, RoomOnDevice
<1>9. AddFile(free, path, 0, path, serial, length)
  BY <1>2, <1>3, <1>4
<1> HIDE DEF serial, length
<1>10. DOMAIN want = DOMAIN files2
  BY <1>3, <1>5 DEF Put, SoundBlocks, IsTree
<1>11. /\ Take(free, length) # NoSpace
       /\ SoundBlocks(files2, want, Write(disk, hole, Block(path, serial, length)))
       /\ SoundSpace(files2, want, Take(free, length),
                     LastHole(Take(free, length)))
       /\ hole \in Word /\ hole # 0
       /\ LastHole(Take(free, length)) \in Word
  <2> HIDE DEF path
  <2> QED BY <1>5, <1>6, <1>8, <1>10, StoreKeepsSound DEF serial, length
<1>12. /\ mode' = "open" /\ changed' = TRUE /\ header' = pending
       /\ dirs' = dirs /\ pending' = pending
       /\ files' = files2 /\ free' = Take(free, length)
       /\ curOffset' = LastHole(Take(free, length))
       /\ disk' = Write(disk, hole, Block(path, serial, length))
  BY <1>1, <1>5, <1>6, <1>7, <1>9, <1>11, AddFileStores
<1>13. todo' = todo \ {job}
  BY <1>2, <1>12
<1>14. SoundJobs'
  <2>1. DOMAIN files2 = DOMAIN files /\ files2[path] = hole
        /\ \A p \in DOMAIN files \ {path} : files2[p] = files[p]
    BY <1>3 DEF Put
  <2>2. ASSUME NEW j \in todo'
        PROVE  /\ j.path \in DOMAIN files'
               /\ \/ j.op = "remove" /\ files'[j.path] # 0
                  \/ /\ j.op = "add" /\ files'[j.path] = 0 /\ j.path[1] \in dirs'
                     /\ j = Job(j.path, j.path[1], j.path,
                                want'[j.path].serial, want'[j.path].size)
    <3>1. j \in todo /\ j # job
      BY <1>13
    <3>2. j.path # path
      BY <3>1, <1>1 DEF SoundOpen, SoundJobs
    <3>3. files'[j.path] = files[j.path] /\ j.path \in DOMAIN files
      BY <3>1, <3>2, <2>1, <1>1, <1>12 DEF SoundOpen, SoundJobs
    <3> QED BY <3>1, <3>3, <2>1, <1>1, <1>12 DEF SoundOpen, SoundJobs
  <2>3. \A j, k \in todo' : j.path = k.path => j = k
    BY <1>1, <1>13 DEF SoundOpen, SoundJobs
  <2>4. ASSUME NEW p \in DOMAIN files'
        PROVE  \/ files'[p] # 0 /\ p[1] \in dirs'
               \/ \E j \in todo' : j.path = p
    <3>1. CASE p = path
      BY <3>1, <2>1, <1>3, <1>11, <1>12
    <3>2. CASE p # path
      <4>1. files'[p] = files[p] /\ p \in DOMAIN files
        BY <3>2, <2>1, <1>12
      <4>2. \/ files[p] # 0 /\ p[1] \in dirs
            \/ \E j \in todo : j.path = p
        BY <4>1, <1>1 DEF SoundOpen, SoundJobs
      <4> QED BY <4>1, <4>2, <3>2, <1>12, <1>13
    <3> QED BY <3>1, <3>2
  <2> QED BY <2>2, <2>3, <2>4 DEF SoundJobs
<1>15. SoundOpen'
  BY <1>1, <1>11, <1>12, <1>14 DEF SoundOpen
<1>16. DOMAIN disk' \subseteq Word
  BY <1>11, <1>12, WriteWrites DEF Inductive
<1> QED BY <1>11, <1>12, <1>15, <1>16 DEF Inductive

\* Removing a stored file leaves the rest of the container sound.
LEMMA DiscardKeeps ==
  ASSUME SoundBlocks(files, want, disk),
         SoundSpace(files, want, free, curOffset), curOffset \in Word,
         NEW path \in Stored(files), KeepsEnd(path), Discard(path)
  PROVE  /\ files' = Drop(files, {path}) /\ want' = Drop(want, {path})
         /\ changed' = TRUE /\ header' = pending
         /\ UNCHANGED <<mode, dirs, curOffset, disk, pending>>
         /\ SoundBlocks(files', want', disk)
         /\ SoundSpace(files', want', free', curOffset)
<1>1. files[path] # 0 /\ path \in DOMAIN files
  BY DEF Stored
<1>2. SizesAt(files[path]) = {want[path].size}
  <2>1. /\ files[path] \in DOMAIN disk
        /\ disk[files[path]] = Block(path, want[path].serial, want[path].size)
    BY DEF SoundBlocks, BlocksWhole
  <2>2. IsBlock(disk, files[path]) /\ disk[files[path]].size = want[path].size
    BY <2>1 DEF IsBlock, Block
  <2> QED BY <2>2 DEF SizesAt
<1>3. free' = Release(free, files[path], want[path].size)
  BY <1>1, <1>2 DEF Discard, Released
<1>4. EndOfSpace(free') = EndOfSpace(free)
  BY <1>1, <1>2, <1>3 DEF KeepsEnd
<1>5. /\ files' = Drop(files, {path}) /\ want' = Drop(want, {path})
      /\ changed' = TRUE /\ header' = pending
      /\ UNCHANGED <<mode, dirs, curOffset, disk, pending>>
  BY <1>1 DEF Discard
<1>6. /\ SoundBlocks(Drop(files, {path}), Drop(want, {path}), disk)
      /\ SoundSpace(Drop(files, {path}), Drop(want, {path}), free', curOffset)
  BY <1>3, <1>4, DiscardKeepsSound
<1> QED BY <1>5, <1>6

\* delete of a file.
LEMMA RemoveFileKeeps ==
  ASSUME Inductive, NEW path \in Paths, RoomyRemoveFile(path)
  PROVE  Inductive'
<1>1. /\ mode = "open" /\ todo = {} /\ todo' = {} /\ path \in DOMAIN files
      /\ KeepsEnd(path) /\ Discard(path)
  BY DEF RoomyRemoveFile, RemoveFile, Ready
<1>2. SoundOpen /\ curOffset \in Word
  BY <1>1 DEF Inductive
<1>3. path \in Stored(files)
  BY <1>1, <1>2 DEF SoundOpen, SoundJobs, Stored
<1>4. /\ files' = Drop(files, {path}) /\ want' = Drop(want, {path})
      /\ changed' = TRUE /\ header' = pending
      /\ UNCHANGED <<mode, dirs, curOffset, disk, pending>>
      /\ SoundBlocks(files', want', disk)
      /\ SoundSpace(files', want', free', curOffset)
  BY <1>1, <1>2, <1>3, DiscardKeeps DEF SoundOpen
<1>5. SoundJobs'
  BY <1>1, <1>2, <1>4 DEF SoundOpen, SoundJobs, Drop, Restrict
<1>6. SoundOpen'
  BY <1>4, <1>5 DEF SoundOpen
<1> QED BY <1>1, <1>4, <1>6 DEF Inductive

\* One file of a folder command that deletes.
LEMMA RemoveNextKeeps ==
  ASSUME Inductive, RoomyRemoveNext
  PROVE  Inductive'
<1>1. mode = "open" /\ SoundOpen /\ curOffset \in Word
  BY DEF RoomyRemoveNext, RemoveNext, Inductive
<1>2. PICK job \in todo :
        /\ job.op = "remove" /\ Discard(job.path) /\ todo' = todo \ {job}
        /\ KeepsEnd(job.path)
  BY DEF RoomyRemoveNext, RemoveNext
<1> DEFINE path == job.path
<1>3. path \in Stored(files)
  BY <1>1, <1>2 DEF SoundOpen, SoundJobs, Stored
<1>4. /\ files' = Drop(files, {path}) /\ want' = Drop(want, {path})
      /\ changed' = TRUE /\ header' = pending
      /\ UNCHANGED <<mode, dirs, curOffset, disk, pending>>
      /\ SoundBlocks(files', want', disk)
      /\ SoundSpace(files', want', free', curOffset)
  BY <1>1, <1>2, <1>3, DiscardKeeps DEF SoundOpen
<1>5. /\ DOMAIN files' = DOMAIN files \ {path}
      /\ \A p \in DOMAIN files \ {path} : files'[p] = files[p] /\ want'[p] = want[p]
  BY <1>1, <1>4 DEF Drop, Restrict, SoundOpen, SoundBlocks, IsTree
<1>6. \A j \in todo' : j \in todo /\ j.path # path
  BY <1>1, <1>2 DEF SoundOpen, SoundJobs
<1>7. SoundJobs'
  <2>1. ASSUME NEW j \in todo'
        PROVE  /\ j.path \in DOMAIN files'
               /\ \/ j.op = "remove" /\ files'[j.path] # 0
                  \/ /\ j.op = "add" /\ files'[j.path] = 0 /\ j.path[1] \in dirs'
                     /\ j = Job(j.path, j.path[1], j.path,
                                want'[j.path].serial, want'[j.path].size)
    BY <1>1, <1>4, <1>5, <1>6 DEF SoundOpen, SoundJobs
  <2>2. \A j, k \in todo' : j.path = k.path => j = k
    BY <1>1, <1>6 DEF SoundOpen, SoundJobs
  <2>3. ASSUME NEW p \in DOMAIN files'
        PROVE  \/ files'[p] # 0 /\ p[1] \in dirs'
               \/ \E j \in todo' : j.path = p
    BY <1>1, <1>2, <1>4, <1>5 DEF SoundOpen, SoundJobs
  <2> QED BY <2>1, <2>2, <2>3 DEF SoundJobs
<1>8. SoundOpen'
  BY <1>4, <1>7 DEF SoundOpen
<1> QED BY <1>1, <1>4, <1>8 DEF Inductive

\* delete of a folder: its files wait for their turn.
LEMMA RemoveFolderKeeps ==
  ASSUME Inductive, NEW dir \in Dirs, RoomyRemoveFolder(dir)
  PROVE  Inductive'
<1>1. /\ mode = "open" /\ todo = {}
      /\ dirs' = dirs \ Under[dir]
      /\ todo' = {[op |-> "remove", path |-> p] :
                    p \in {q \in DOMAIN files : q[1] \in Under[dir]}}
      /\ UNCHANGED <<mode, files, free, curOffset, changed, storage, want>>
  BY DEF RoomyRemoveFolder, RemoveFolder, Ready
<1>2. SoundOpen
  BY <1>1 DEF Inductive
<1>3. todo' # {}
  BY <1>1 DEF RoomyRemoveFolder
<1>4. \A p \in DOMAIN files : files[p] # 0 /\ p[1] \in dirs
  BY <1>1, <1>2 DEF SoundOpen, SoundJobs
<1>5. SoundJobs'
  <2>1. ASSUME NEW j \in todo'
        PROVE  j.path \in DOMAIN files' /\ j.op = "remove" /\ files'[j.path] # 0
    BY <1>1, <1>4
  <2>2. \A j, k \in todo' : j.path = k.path => j = k
    BY <1>1
  <2>3. ASSUME NEW p \in DOMAIN files'
        PROVE  \/ files'[p] # 0 /\ p[1] \in dirs'
               \/ \E j \in todo' : j.path = p
    <3>1. CASE p[1] \in Under[dir]
      <4>1. [op |-> "remove", path |-> p] \in todo'
        BY <3>1, <1>1
      <4> QED BY <4>1
    <3>2. CASE p[1] \notin Under[dir]
      BY <3>2, <1>1, <1>4
    <3> QED BY <3>1, <3>2
  <2> QED BY <2>1, <2>2, <2>3 DEF SoundJobs
<1>6. SoundOpen'
  BY <1>1, <1>2, <1>3, <1>5 DEF SoundOpen, storage
<1>7. dirs' \subseteq Dirs
  BY <1>1 DEF Inductive
<1> QED BY <1>1, <1>6, <1>7 DEF Inductive, storage

\* In a new, flat folder every file is one job that reads the file itself.
LEMMA FlatJobs ==
  ASSUME NEW source \in Sources, source.dirs = {source.dir},
         source.dir \notin dirs, Parent[source.dir] \in dirs,
         \A p \in DOMAIN files : p[1] \in dirs,
         NEW reachable, NEW serial
  PROVE  /\ JobsOfNew(source, reachable, serial)
              = {Job(p, p[1], p, serial, source.files[p]) : p \in DOMAIN source.files}
         /\ JobsOfExisting(source, {}, reachable, serial) = {}
         /\ DOMAIN source.files \cap DOMAIN files = {}
         /\ \A p \in DOMAIN source.files : p[1] = source.dir
<1> USE EncryptedFolderAssumption
<1> DEFINE dir == source.dir
<1>1. dir \in Dirs /\ dir \in Under[dir]
  OBVIOUS
<1>2. \A p \in DOMAIN source.files : p[1] = dir /\ p = <<dir, p[2]>>
  <2>1. DOMAIN source.files \subseteq {dir} \X Names
    OBVIOUS
  <2> HIDE DEF dir
  <2> QED BY <2>1
<1>3. NewTops(source) = {dir}
  BY DEF NewTops
<1>4. ASSUME NEW p \in DOMAIN source.files
      PROVE  Opened(source, p, dir, reachable, serial)
               = Job(p, dir, p, serial, source.files[p])
  BY <1>2 DEF Opened
<1>5. \A top \in NewTops(source) :
        /\ {q \in DOMAIN source.files : q[1] = top} = DOMAIN source.files
        /\ Under[top] \cap source.dirs = {dir}
  BY <1>1, <1>2, <1>3
<1>6. JobsOfNew(source, reachable, serial)
        = {Opened(source, p, v, reachable, serial) : p \in DOMAIN source.files, v \in {dir}}
  BY <1>3, <1>5 DEF JobsOfNew
<1>7. JobsOfNew(source, reachable, serial)
        = {Job(p, p[1], p, serial, source.files[p]) : p \in DOMAIN source.files}
  BY <1>2, <1>4, <1>6
<1>8. {q \in DOMAIN source.files : q[1] \in dirs} = {}
  BY <1>2
<1>9. JobsOfExisting(source, {}, reachable, serial) = {}
  BY <1>8 DEF JobsOfExisting
<1> QED BY <1>2, <1>7, <1>9

\* add of a folder: its files wait for their turn.
LEMMA AddFolderKeeps ==
  ASSUME Inductive, NEW source \in Sources, RoomyAddFolder(source)
  PROVE  Inductive'
<1> USE EncryptedFolderAssumption
<1> DEFINE old == DOMAIN files
           new == DOMAIN source.files
<1>1. /\ mode = "open" /\ todo = {} /\ new # {}
      /\ source.dirs = {source.dir} /\ source.dir \notin dirs
      /\ Parent[source.dir] \in dirs
      /\ dirs' = dirs \cup source.dirs
      /\ \A p \in new : files'[p] = 0
      /\ UNCHANGED <<mode, free, curOffset, changed, storage>>
  BY DEF RoomyAddFolder, AddFolder, Ready
<1>2. SoundOpen
  BY <1>1 DEF Inductive
<1>3. \A p \in old : files[p] # 0 /\ p[1] \in dirs
  BY <1>1, <1>2 DEF SoundOpen, SoundJobs
<1>4. old \cap new = {} /\ \A p \in new : p[1] = source.dir
  BY <1>1, <1>3, FlatJobs
<1>5. PICK replace \in SUBSET (new \cap old), reachable \in BOOLEAN,
           fresh \in [new \ old -> FreshData] :
        /\ files' = [p \in old \cup (new \ old) |->
                       IF p \in new \ old THEN fresh[p] ELSE files[p]]
        /\ want' = [p \in old \cup (new \ old) |->
                      IF p \in (new \ old) \cup replace
                      THEN [serial |-> adds', size |-> source.files[p]]
                      ELSE want[p]]
        /\ todo' = JobsOfNew(source, reachable, adds')
                     \cup JobsOfExisting(source, replace, reachable, adds')
  BY DEF RoomyAddFolder, AddFolder
<1>6. /\ DOMAIN files' = old \cup new /\ DOMAIN want' = old \cup new
      /\ files' = [p \in DOMAIN files' |-> files'[p]]
      /\ \A p \in old : files'[p] = files[p] /\ want'[p] = want[p]
      /\ \A p \in new : files'[p] = 0
      /\ \A p \in new : /\ want'[p].serial = adds'
                        /\ want'[p].size = source.files[p]
  <2>1. /\ DOMAIN files' = old \cup new /\ DOMAIN want' = old \cup new
        /\ files' = [p \in DOMAIN files' |-> files'[p]]
        /\ \A p \in old : files'[p] = files[p] /\ want'[p] = want[p]
    BY <1>4, <1>5
  <2>2. ASSUME NEW p \in new
        PROVE  want'[p].serial = adds' /\ want'[p].size = source.files[p]
    <3> HIDE DEF new, old
    <3>1. p \in new \ old
      BY <1>4
    <3>2. want'[p] = [serial |-> adds', size |-> source.files[p]]
      BY <3>1, <1>5
    <3> QED BY <3>2
  <2> QED BY <2>1, <2>2, <1>1
<1>7. todo' = {Job(p, p[1], p, adds', source.files[p]) : p \in new}
  <2>1. replace = {}
    BY <1>4
  <2> QED BY <2>1, <1>1, <1>3, <1>5, FlatJobs
<1>8. Stored(files') = Stored(files)
  BY <1>6 DEF Stored
<1>9. \A p \in Stored(files) :
        /\ files'[p] = files[p] /\ want'[p] = want[p]
        /\ BlockEnd(files', want', p) = BlockEnd(files, want, p)
  BY <1>6 DEF Stored, BlockEnd
<1>10. IsTree(files', want')
  <2>1. new \subseteq Paths
    BY DEF Paths
  <2>2. \A p \in new : source.files[p] \in Nat
    OBVIOUS
  <2>3. old \subseteq Paths /\ \A p \in old : files[p] \in Word /\ want[p].size \in Nat
    BY <1>2 DEF SoundOpen, SoundBlocks, IsTree
  <2>4. 0 \in Word
    BY FreeSpaceAssumption DEF Word
  <2>5. \A p \in DOMAIN files' : files'[p] \in Word /\ want'[p].size \in Nat
    <3> SUFFICES ASSUME NEW p \in DOMAIN files'
                 PROVE  files'[p] \in Word /\ want'[p].size \in Nat
      OBVIOUS
    <3>1. CASE p \in old
      BY <3>1, <2>3, <1>6
    <3>2. CASE p \in new
      <4>1. files'[p] = 0 /\ want'[p].size = source.files[p]
        BY <3>2, <1>6
      <4> QED BY <4>1, <3>2, <2>2, <2>4
    <3> QED BY <3>1, <3>2, <1>6
  <2> QED BY <2>1, <2>3, <2>5, <1>6 DEF IsTree
<1>11. SoundBlocks(files', want', disk)
  BY <1>2, <1>8, <1>9, <1>10
     DEF SoundOpen, SoundBlocks, BlocksWhole, BlocksBelow
<1>12. SoundSpace(files', want', free, curOffset)
  <2>1. Starts(files', free) = Starts(files, free)
    BY <1>8, <1>9 DEF Starts
  <2>2. Seamless(files', want', free)
    BY <2>1, <1>2, <1>8, <1>9 DEF SoundOpen, SoundSpace, Seamless
  <2> QED BY <2>2, <1>2, <1>8, <1>9
          DEF SoundOpen, SoundSpace, HolesClear, BlocksBelow
<1>13. todo' # {}
  BY <1>1, <1>7
<1>14. SoundJobs'
  <2>1. ASSUME NEW j \in todo'
        PROVE  /\ j.path \in DOMAIN files' /\ j.op = "add"
               /\ files'[j.path] = 0 /\ j.path[1] \in dirs'
               /\ j = Job(j.path, j.path[1], j.path,
                          want'[j.path].serial, want'[j.path].size)
    <3>1. PICK p \in new : j = Job(p, p[1], p, adds', source.files[p])
      BY <1>7
    <3>2. j.path = p /\ j.op = "add"
      BY <3>1 DEF Job
    <3>3. want'[p].serial = adds' /\ want'[p].size = source.files[p]
      BY <1>6
    <3>4. p[1] \in dirs'
      BY <1>1, <1>4
    <3>5. j = Job(p, p[1], p, want'[p].serial, want'[p].size)
      BY <3>1, <3>3
    <3> QED BY <3>2, <3>4, <3>5, <1>6
  <2>2. \A j, k \in todo' : j.path = k.path => j = k
    BY <1>7 DEF Job
  <2>3. ASSUME NEW p \in DOMAIN files'
        PROVE  \/ files'[p] # 0 /\ p[1] \in dirs'
               \/ \E j \in todo' : j.path = p
    <3>1. CASE p \in old
      BY <3>1, <1>1, <1>3, <1>6
    <3>2. CASE p \in new
      <4>1. Job(p, p[1], p, adds', source.files[p]) \in todo'
        BY <3>2, <1>7
      <4> QED BY <4>1 DEF Job
    <3> QED BY <3>1, <3>2, <1>6
  <2> QED BY <2>1, <2>2, <2>3 DEF SoundJobs
<1>15. SoundOpen'
  BY <1>1, <1>11, <1>12, <1>13, <1>14 DEF SoundOpen, storage
<1>16. dirs' \subseteq Dirs
  BY <1>1 DEF Inductive
<1> QED BY <1>1, <1>15, <1>16 DEF Inductive, storage

\* The free list of a new container is one entry.
LEMMA RestIsOneHole ==
  ASSUME NEW offset
  PROVE  /\ DOMAIN Rest(offset) = {offset} /\ Rest(offset)[offset] = MaxWord
         /\ Rest(offset) = [o \in DOMAIN Rest(offset) |-> Rest(offset)[o]]
         /\ offset \in Word => LastHole(Rest(offset)) = offset
<1>1. /\ DOMAIN Rest(offset) = {offset} /\ Rest(offset)[offset] = MaxWord
      /\ Rest(offset) = [o \in DOMAIN Rest(offset) |-> Rest(offset)[o]]
  BY DEF Rest, Insert, NoSpace
<1> QED BY <1>1, LastHoleIsGreatest

\* One file of the folder being encrypted.
LEMMA EncryptNextKeeps ==
  ASSUME Inductive, NEW path \in Paths, NEW length \in Sizes,
         EncryptNext(path, length)
  PROVE  Inductive'
<1> USE EncryptedFolderAssumption
<1> DEFINE next   == curOffset + length + Overhead
           serial == adds + 1
<1>1. /\ mode = "encrypting" /\ path[1] \in dirs /\ path \notin DOMAIN files
      /\ next <= DiskSize
      /\ files' = Put(files, path, curOffset)
      /\ want' = Put(want, path, [serial |-> serial, size |-> length])
      /\ disk' = Write(disk, curOffset, Block(path, serial, length))
      /\ curOffset' = Wrap(curOffset + EncryptReturns(length) + PtrSize)
      /\ UNCHANGED <<mode, dirs, free, changed, todo, header, pending>>
  BY DEF EncryptNext
<1>2. SoundEncrypting
  BY <1>1 DEF Inductive
<1>3. /\ length \in Nat /\ Overhead \in Nat /\ Overhead > 0
      /\ curOffset \in Nat /\ FirstOffset <= curOffset /\ curOffset \in Word
  BY <1>2, OverheadNat, FreeSpaceAssumption DEF Inductive, SoundEncrypting, Word
<1>4. /\ next \in Nat /\ curOffset < next /\ next < Limit /\ next \in Word
      /\ FirstOffset <= next /\ curOffset # 0
  BY <1>1, <1>3, FreeSpaceAssumption DEF Word
<1>5. curOffset' = next
  <2>1. length + ExtraData \in Nat /\ length + ExtraData < Limit
    BY <1>3, <1>4, FreeSpaceAssumption DEF Overhead
  <2>2. EncryptReturns(length) = length + ExtraData
    BY <2>1, WrapSmall DEF EncryptReturns
  <2>3. curOffset + EncryptReturns(length) + PtrSize = next
    BY <2>2, <1>3, FreeSpaceAssumption DEF Overhead
  <2> QED BY <2>3, <1>1, <1>4, WrapSmall
<1> HIDE DEF next, serial
<1>6. /\ DOMAIN files' = DOMAIN files \cup {path}
      /\ DOMAIN want' = DOMAIN want \cup {path}
      /\ files'[path] = curOffset
      /\ want'[path].serial = serial /\ want'[path].size = length
      /\ files' = [p \in DOMAIN files' |-> files'[p]]
      /\ \A p \in DOMAIN files : p # path /\ files'[p] = files[p] /\ want'[p] = want[p]
  BY <1>1, <1>2 DEF Put, SoundEncrypting, SoundBlocks, IsTree
<1>7. /\ Stored(files') = Stored(files) \cup {path}
      /\ BlockEnd(files', want', path) = next
  BY <1>4, <1>6 DEF Stored, BlockEnd, next
<1>8. ASSUME NEW p \in Stored(files)
      PROVE  /\ p # path /\ files'[p] = files[p] /\ want'[p] = want[p]
             /\ BlockEnd(files', want', p) = BlockEnd(files, want, p)
             /\ BlockEnd(files, want, p) <= curOffset
             /\ BlockEnd(files, want, p) \in Nat
             /\ files[p] < BlockEnd(files, want, p) /\ files[p] \in Nat
  <2>1. p \in DOMAIN files
    BY DEF Stored
  <2>2. files'[p] = files[p] /\ want'[p] = want[p] /\ p # path
    BY <2>1, <1>6
  <2>3. BlockEnd(files, want, p) <= curOffset
    BY <1>2 DEF SoundEncrypting, BlocksBelow
  <2> QED BY <2>1, <2>2, <2>3, <1>2, BlockNumbers
          DEF BlockEnd, SoundEncrypting, SoundBlocks
<1>9. IsTree(files', want')
  <2>1. \A p \in DOMAIN files' : files'[p] \in Word /\ want'[p].size \in Nat
    BY <1>2, <1>3, <1>6 DEF SoundEncrypting, SoundBlocks, IsTree
  <2> QED BY <2>1, <1>2, <1>6 DEF SoundEncrypting, SoundBlocks, IsTree
<1>10. BlocksWhole(files', want', disk')
  <2> SUFFICES ASSUME NEW p \in Stored(files')
               PROVE  /\ files'[p] \in DOMAIN disk'
                      /\ disk'[files'[p]] = Block(p, want'[p].serial, want'[p].size)
    BY DEF BlocksWhole
  <2>1. CASE p = path
    BY <2>1, <1>1, <1>6, WriteWrites
  <2>2. CASE p # path
    <3>1. p \in Stored(files)
      BY <2>2, <1>7
    <3>2. SoundBlocks(files, want, Write(disk, curOffset, Block(path, serial, length)))
      BY <1>2, <1>3, RecordSparesBlocks DEF SoundEncrypting
    <3> QED BY <3>1, <3>2, <1>1, <1>8 DEF SoundBlocks, BlocksWhole
  <2> QED BY <2>1, <2>2
<1>11. \A p, q \in Stored(files') :
         p # q => \/ BlockEnd(files', want', p) <= files'[q]
                  \/ BlockEnd(files', want', q) <= files'[p]
  <2> SUFFICES ASSUME NEW p \in Stored(files'), NEW q \in Stored(files'), p # q
               PROVE  \/ BlockEnd(files', want', p) <= files'[q]
                      \/ BlockEnd(files', want', q) <= files'[p]
    OBVIOUS
  <2>1. CASE p # path /\ q # path
    BY <2>1, <1>2, <1>7, <1>8 DEF SoundEncrypting, SoundBlocks
  <2>2. CASE p = path
    BY <2>2, <1>6, <1>7, <1>8
  <2>3. CASE q = path
    BY <2>3, <1>6, <1>7, <1>8
  <2> QED BY <2>1, <2>2, <2>3
<1>12. BlocksBelow(files', want', next)
  <2> SUFFICES ASSUME NEW p \in Stored(files')
               PROVE  BlockEnd(files', want', p) <= next
    BY DEF BlocksBelow
  <2>1. CASE p = path
    BY <2>1, <1>4, <1>7
  <2>2. CASE p # path
    BY <2>2, <1>3, <1>4, <1>7, <1>8
  <2> QED BY <2>1, <2>2
<1>13. BlocksBelow(files', want', DiskSize)
  <2> SUFFICES ASSUME NEW p \in Stored(files')
               PROVE  BlockEnd(files', want', p) <= DiskSize
    BY DEF BlocksBelow
  <2>1. BlockEnd(files', want', p) <= next /\ BlockEnd(files', want', p) \in Nat
    BY <1>4, <1>7, <1>8, <1>12 DEF BlocksBelow
  <2> QED BY <2>1, <1>1, <1>4
<1>14. \A p \in Stored(files') : FirstOffset <= files'[p]
  BY <1>2, <1>3, <1>6, <1>7, <1>8 DEF SoundEncrypting, SoundBlocks
<1>15. SoundBlocks(files', want', disk')
  BY <1>9, <1>10, <1>11, <1>13, <1>14 DEF SoundBlocks
<1>16. AllStored(dirs', files')
  <2> SUFFICES ASSUME NEW p \in DOMAIN files'
               PROVE  files'[p] # 0 /\ p[1] \in dirs
    BY <1>1 DEF AllStored
  <2>1. CASE p = path
    BY <2>1, <1>1, <1>4, <1>6
  <2>2. CASE p # path
    BY <2>2, <1>2, <1>6 DEF SoundEncrypting, AllStored
  <2> QED BY <2>1, <2>2
<1>17. Seamless(files', want', Rest(next))
  <2>1. DOMAIN Rest(curOffset) = {curOffset} /\ DOMAIN Rest(next) = {next}
    BY RestIsOneHole
  <2>2. Starts(files', Rest(next)) = Starts(files, Rest(curOffset)) \cup {next}
    BY <2>1, <1>6, <1>7, <1>8 DEF Starts
  <2>3. LastHole(Rest(next)) = next
    BY <1>4, RestIsOneHole
  <2> QED BY <2>1, <2>2, <2>3, <1>2, <1>7, <1>8 DEF SoundEncrypting, Seamless
<1>18. SoundEncrypting'
  BY <1>1, <1>2, <1>4, <1>5, <1>12, <1>15, <1>16, <1>17 DEF SoundEncrypting
<1>19. DOMAIN disk' \subseteq Word
  BY <1>1, <1>3, WriteWrites DEF Inductive
<1> QED BY <1>1, <1>4, <1>5, <1>18, <1>19 DEF Inductive

\* The end of encrypt-folder.
LEMMA EndEncryptKeeps ==
  ASSUME Inductive, EndEncrypt
  PROVE  Inductive'
<1> USE EncryptedFolderAssumption
<1> DEFINE space == Rest(curOffset)
           rec   == Record(dirs, files, space, want)
<1>1. /\ mode = "encrypting" /\ mode' = "closed"
      /\ disk' = Write(disk, curOffset, rec)
      /\ header' = curOffset /\ pending' = curOffset /\ Idle'
  BY DEF EndEncrypt, Forget, Idle, Rest
<1>2. SoundEncrypting /\ curOffset \in Word
  BY <1>1 DEF Inductive
<1>3. curOffset \in Nat /\ Overhead \in Nat
  BY <1>2, OverheadNat, FreeSpaceAssumption DEF Word
<1>4. /\ rec.kind = "record" /\ rec.dirs = dirs /\ rec.files = files
      /\ rec.want = want /\ rec.free = space
      /\ rec = Record(rec.dirs, rec.files, rec.free, rec.want)
  BY DEF Record
<1>5. DOMAIN space = {curOffset} /\ space[curOffset] = MaxWord
      /\ space = [o \in DOMAIN space |-> space[o]]
  BY RestIsOneHole
<1> HIDE DEF space, rec
<1>6. disk'[curOffset] = rec /\ curOffset \in DOMAIN disk'
  BY <1>1, WriteWrites
<1>7. SoundBlocks(files, want, disk')
  BY <1>1, <1>2, <1>3, RecordSparesBlocks DEF SoundEncrypting
<1>8. MaxWord \in Word /\ MaxWord \in Nat /\ MaxWord = Limit - 1
  BY FreeSpaceAssumption DEF MaxWord, Word
<1>9. EndOf(space, curOffset) = curOffset + MaxWord + Overhead
  BY <1>5 DEF EndOf
<1>10. LastHole(space) = curOffset
  BY <1>2, RestIsOneHole DEF space
<1>11. SoundSpace(files, want, space, curOffset)
  <2>1. IsSpace(space)
    BY <1>2, <1>5, <1>8 DEF IsSpace
  <2>2. Disjoint(space) /\ Apart(space)
    BY <1>3, <1>5 DEF Disjoint, Apart
  <2>3. BlocksBelow(files, want, curOffset) /\ HolesClear(files, want, space)
    BY <1>2, <1>5 DEF SoundEncrypting, BlocksBelow, HolesClear
  <2>4. EndOfSpace(space) >= DiskSize
    BY <1>3, <1>5, <1>8, <1>10, FreeSpaceAssumption DEF EndOfSpace
  <2>5. \A o \in DOMAIN space : FirstOffset <= o
    BY <1>2, <1>5 DEF SoundEncrypting
  <2>6. Seamless(files, want, space)
    BY <1>2 DEF SoundEncrypting, space
  <2> QED BY <2>1, <2>2, <2>3, <2>4, <2>5, <2>6, <1>3, <1>5, <1>10
          DEF SoundSpace
<1>12. SoundRecord(disk', curOffset)
  BY <1>2, <1>4, <1>6, <1>7, <1>11
     DEF SoundRecord, IsRecord, SoundEncrypting, Inductive
<1>13. DOMAIN disk' \subseteq Word
  BY <1>1, <1>2, WriteWrites DEF Inductive
<1>14. 0 \in Word
  BY FreeSpaceAssumption DEF Word
<1> QED BY <1>1, <1>2, <1>12, <1>13, <1>14 DEF Inductive, Idle

\* open -ef.
LEMMA OpenKeeps ==
  ASSUME Inductive, Open
  PROVE  Inductive'
<1>1. /\ mode = "closed" /\ mode' = "open"
      /\ dirs' = disk[header].dirs /\ files' = disk[header].files
      /\ free' = disk[header].free /\ want' = disk[header].want
      /\ curOffset' = header
      /\ UNCHANGED <<changed, todo, disk, header, pending>>
  BY DEF Open, storage
<1>2. Idle /\ header = pending /\ SoundRecord(disk, header)
  BY <1>1 DEF Inductive
<1>3. SoundBlocks(files', want', disk') /\ SoundSpace(files', want', free', curOffset')
  BY <1>1, <1>2 DEF SoundRecord
<1>4. SoundJobs'
  BY <1>1, <1>2 DEF SoundRecord, AllStored, SoundJobs, Idle
<1>5. IsRecord(disk', pending') /\ disk'[pending'] = MasterRecord'
  BY <1>1, <1>2 DEF SoundRecord, MasterRecord
<1>6. SoundOpen'
  BY <1>1, <1>2, <1>3, <1>4, <1>5 DEF SoundOpen
<1> QED BY <1>1, <1>2, <1>6 DEF Inductive, Idle, SoundRecord

\* Saving.
LEMMA SaveKeeps ==
  ASSUME Inductive, Save
  PROVE  Inductive'
<1>1. /\ mode = "open" /\ todo = {}
      /\ disk' = Write(disk, curOffset, MasterRecord)
      /\ header' = pending /\ pending' = curOffset /\ changed' = FALSE
      /\ UNCHANGED <<mode, dirs, files, free, curOffset, todo, want>>
  BY DEF Save, Ready
<1>2. SoundOpen /\ curOffset \in Word /\ pending \in Word
  BY <1>1 DEF Inductive
<1>3. curOffset \in Nat
  BY <1>2, FreeSpaceAssumption DEF Word
<1>4. BlocksBelow(files, want, curOffset)
  BY <1>2 DEF SoundOpen, SoundSpace
<1>5. SoundBlocks(files, want, disk')
  BY <1>1, <1>2, <1>3, <1>4, RecordSparesBlocks DEF SoundOpen
<1>6. curOffset \in DOMAIN disk' /\ disk'[curOffset] = MasterRecord
  BY <1>1, WriteWrites
<1>7. IsRecord(disk', curOffset)
  BY <1>6 DEF IsRecord, MasterRecord, Record
<1>8. MasterRecord' = MasterRecord
  BY <1>1 DEF MasterRecord
<1>9. SoundJobs'
  BY <1>1, <1>2 DEF SoundOpen, SoundJobs
<1>10. SoundOpen'
  BY <1>1, <1>2, <1>5, <1>6, <1>7, <1>8, <1>9 DEF SoundOpen
<1>11. DOMAIN disk' \subseteq Word
  BY <1>1, <1>2, WriteWrites DEF Inductive
<1> QED BY <1>1, <1>2, <1>10, <1>11 DEF Inductive

\* Leaving an open container whose master record is up to date.
LEMMA LeavingKeeps ==
  ASSUME Inductive, mode = "open", todo = {}, ~changed,
         mode' = "closed", header' = pending, pending' = pending,
         disk' = disk, Forget
  PROVE  Inductive'
<1>1. SoundOpen /\ pending \in Word
  BY DEF Inductive
<1>2. pending = curOffset /\ IsRecord(disk, pending) /\ disk[pending] = MasterRecord
  BY <1>1 DEF SoundOpen
<1>3. /\ disk[pending].dirs = dirs /\ disk[pending].files = files
      /\ disk[pending].free = free /\ disk[pending].want = want
      /\ disk[pending] = Record(dirs, files, free, want)
  BY <1>2 DEF MasterRecord, Record
<1>4. AllStored(dirs, files)
  BY <1>1 DEF SoundOpen, SoundJobs, AllStored
<1>5. SoundRecord(disk', header')
  BY <1>1, <1>2, <1>3, <1>4 DEF SoundRecord, SoundOpen, Inductive
<1>6. Idle'
  BY DEF Forget, Idle
<1>7. 0 \in Word
  BY FreeSpaceAssumption DEF Word
<1> QED BY <1>1, <1>5, <1>6, <1>7 DEF Inductive, Idle

\* Every step of the regime keeps Inductive.
LEMMA InductiveStep ==
  ASSUME Inductive, [RoomyNext]_vars
  PROVE  Inductive'
<1> USE EncryptedFolderAssumption
<1>1. ASSUME NEW folders \in Trees, BeginEncrypt(folders)
      PROVE  Inductive'
  <2>1. /\ mode = "none" /\ mode' = "encrypting" /\ dirs' = folders
        /\ curOffset' = FirstOffset
        /\ UNCHANGED <<files, free, changed, todo, disk, header, pending, want>>
    BY <1>1 DEF BeginEncrypt, storage
  <2>2. Idle
    BY <2>1 DEF Inductive
  <2>3. folders \subseteq Dirs
    BY DEF Trees
  <2>4. DOMAIN files' = {} /\ DOMAIN want' = {} /\ files' = [p \in DOMAIN files' |-> files'[p]]
    BY <2>1, <2>2 DEF Idle, NoTree
  <2>5. Stored(files') = {}
    BY <2>4 DEF Stored
  <2>6. SoundBlocks(files', want', disk')
    BY <2>4, <2>5 DEF SoundBlocks, IsTree, BlocksWhole, BlocksBelow
  <2>7. FirstOffset \in Word
    BY FreeSpaceAssumption DEF Word
  <2>8. Seamless(files', want', Rest(FirstOffset))
    <3>1. DOMAIN Rest(FirstOffset) = {FirstOffset}
      BY RestIsOneHole
    <3>2. LastHole(Rest(FirstOffset)) = FirstOffset
      BY <2>7, RestIsOneHole
    <3> QED BY <3>1, <3>2, <2>5 DEF Seamless, Starts
  <2>9. SoundEncrypting'
    BY <2>1, <2>2, <2>4, <2>5, <2>6, <2>8
       DEF SoundEncrypting, Idle, AllStored, BlocksBelow
  <2> QED BY <2>1, <2>2, <2>3, <2>7, <2>9 DEF Inductive, Idle
<1>2. ASSUME NEW path \in Paths, ReadFile(path)
      PROVE  Inductive'
  <2>1. /\ mode = "open" /\ header' = pending
        /\ UNCHANGED <<mode, dirs, files, free, curOffset, changed, todo,
                       disk, pending, want>>
    BY <1>2 DEF ReadFile, Ready, memory
  <2>2. SoundJobs' <=> SoundJobs
    BY <2>1 DEF SoundJobs
  <2>3. MasterRecord' = MasterRecord
    BY <2>1 DEF MasterRecord
  <2>4. SoundOpen'
    BY <2>1, <2>2, <2>3 DEF SoundOpen, Inductive
  <2> QED BY <2>1, <2>4 DEF Inductive
<1>3. ASSUME CloseUnchanged
      PROVE  Inductive'
  BY <1>3, LeavingKeeps DEF CloseUnchanged, Ready
<1>4. ASSUME RoomyKill
      PROVE  Inductive'
  <2>1. /\ mode = "open" /\ todo = {} /\ ~changed /\ header = pending
        /\ mode' = "closed" /\ pending' = header /\ header' = header
        /\ disk' = disk /\ Forget
    BY <1>4 DEF RoomyKill, Kill, Settled, Inductive
  <2> QED BY <2>1, LeavingKeeps
<1>5. ASSUME KillInEncrypt
      PROVE  Inductive'
  <2>1. /\ mode' = "none" /\ disk' = NoSpace /\ Idle'
        /\ UNCHANGED <<header, pending>>
    BY <1>5 DEF KillInEncrypt, Forget, Idle
  <2>2. DOMAIN disk' = {} /\ 0 \in Word
    BY <2>1, FreeSpaceAssumption DEF NoSpace, Word
  <2> QED BY <2>1, <2>2 DEF Inductive, Idle
<1>6. ASSUME UNCHANGED vars
      PROVE  Inductive'
  <2>1. UNCHANGED <<mode, dirs, files, free, curOffset, changed, todo,
                    disk, header, pending, want>>
    BY <1>6 DEF vars, memory, storage
  <2>2. SoundJobs' <=> SoundJobs
    BY <2>1 DEF SoundJobs
  <2>3. MasterRecord' = MasterRecord
    BY <2>1 DEF MasterRecord
  <2>4. SoundOpen' <=> SoundOpen
    BY <2>1, <2>2, <2>3 DEF SoundOpen
  <2>5. SoundEncrypting' <=> SoundEncrypting
    BY <2>1 DEF SoundEncrypting
  <2> QED BY <2>1, <2>4, <2>5 DEF Inductive, Idle
<1>7. CASE Encrypting
  BY <1>7, <1>1, EncryptNextKeeps, EndEncryptKeeps DEF Encrypting
<1>8. CASE RoomyCommands
  BY <1>8, <1>2, AddNewFileKeeps, RemoveFileKeeps, RemoveFolderKeeps,
     AddFolderKeeps, RemoveNextKeeps, AddNextKeeps DEF RoomyCommands
<1>9. CASE Open \/ Save \/ CloseUnchanged
  BY <1>9, <1>3, OpenKeeps, SaveKeeps
<1>10. CASE RoomyKill \/ KillInEncrypt
  BY <1>10, <1>4, <1>5
<1> QED BY <1>6, <1>7, <1>8, <1>9, <1>10 DEF RoomyNext

-----------------------------------------------------------------------------
(* Where the contents come from *)

\* A content added under a path was given.
LEMMA PutGiven ==
  ASSUME NEW last \in Nat, NEW content, IsGiven(content, last),
         NEW path, NEW size \in Lengths
  PROVE  IsGiven(Put(content, path, [serial |-> last + 1, size |-> size]),
                 last + 1)
<1> DEFINE value == [serial |-> last + 1, size |-> size]
           content2 == Put(content, path, value)
<1>1. value.serial \in 1 .. last + 1 /\ value.size \in Lengths
  OBVIOUS
<1>2. /\ DOMAIN content2 = DOMAIN content \cup {path}
      /\ content2[path] = value
      /\ \A p \in DOMAIN content \ {path} : content2[p] = content[p]
  BY DEF Put
<1>3. \A p \in DOMAIN content :
        content[p].serial \in 1 .. last + 1 /\ content[p].size \in Lengths
  BY DEF IsGiven
<1> HIDE DEF value, content2
<1>4. IsGiven(content2, last + 1)
  BY <1>1, <1>2, <1>3 DEF IsGiven
<1> QED BY <1>4 DEF content2, value

\* What is left after a file was removed was given.
LEMMA DropGiven ==
  ASSUME NEW last, NEW content, IsGiven(content, last), NEW paths
  PROVE  IsGiven(Drop(content, paths), last)
BY DEF IsGiven, Drop, Restrict

\* The files of a folder given to add were given.
LEMMA AddFolderGives ==
  ASSUME Inductive, Given, NEW source \in Sources, RoomyAddFolder(source)
  PROVE  adds' = adds + 1 /\ adds < MaxAdds /\ IsGiven(want', adds')
<1>1. /\ mode = "open" /\ adds' = adds + 1 /\ adds < MaxAdds /\ adds \in Nat
      /\ IsGiven(want, adds)
  BY EncryptedFolderAssumption
     DEF RoomyAddFolder, AddFolder, Ready, Given
<1> DEFINE new == DOMAIN source.files \ DOMAIN files
<1>2. PICK replace \in SUBSET (DOMAIN source.files \cap DOMAIN files) :
        want' = [p \in DOMAIN files \cup new |->
                   IF p \in new \cup replace
                   THEN [serial |-> adds', size |-> source.files[p]]
                   ELSE want[p]]
  BY DEF RoomyAddFolder, AddFolder
<1>3. ASSUME NEW p \in DOMAIN want', p \in new \cup replace
      PROVE  want'[p].serial \in 1 .. adds' /\ want'[p].size \in Lengths
  <2>1. want'[p] = [serial |-> adds', size |-> source.files[p]]
    BY <1>2, <1>3
  <2>2. p \in DOMAIN source.files
    BY <1>3
  <2>3. source.files[p] \in Lengths
    BY <2>2 DEF Lengths
  <2> QED BY <2>1, <2>3, <1>1
<1>4. ASSUME NEW p \in DOMAIN want', p \notin new \cup replace
      PROVE  want'[p].serial \in 1 .. adds' /\ want'[p].size \in Lengths
  <2>1. DOMAIN want = DOMAIN files
    BY <1>1 DEF Inductive, SoundOpen, SoundBlocks, IsTree
  <2>2. want'[p] = want[p] /\ p \in DOMAIN want
    BY <2>1, <1>2, <1>4
  <2> QED BY <2>2, <1>1 DEF IsGiven
<1> QED BY <1>1, <1>3, <1>4 DEF IsGiven

\* Every step of the regime keeps Given.
LEMMA GivenStep ==
  ASSUME Inductive, Given, [RoomyNext]_vars
  PROVE  Given'
<1> USE EncryptedFolderAssumption
<1>1. adds \in Nat /\ adds <= MaxAdds
  BY DEF Given
<1>2. IsGiven(NoTree, adds)
  BY DEF IsGiven, NoTree
<1>3. \A length \in Sizes : length \in Lengths
  BY DEF Lengths
\* A step that stores one more file.
<1>4. ASSUME NEW path, NEW length \in Sizes,
             mode # "closed", mode' # "closed",
             adds < MaxAdds, adds' = adds + 1,
             want' = Put(want, path, [serial |-> adds', size |-> length])
      PROVE  Given'
  BY <1>1, <1>3, <1>4, PutGiven DEF Given
\* A step that forgets files or leaves them as they are.
<1>5. ASSUME mode # "closed", mode' # "closed", adds' = adds,
             want' = want \/ want' = NoTree
                \/ \E paths : want' = Drop(want, paths)
      PROVE  Given'
  BY <1>2, <1>5, DropGiven DEF Given
<1>6. ASSUME NEW folders \in Trees, BeginEncrypt(folders)
      PROVE  Given'
  BY <1>5, <1>6 DEF BeginEncrypt
<1>7. ASSUME NEW path \in Paths, NEW length \in Sizes,
             EncryptNext(path, length)
      PROVE  Given'
  BY <1>4, <1>7 DEF EncryptNext
<1>8. ASSUME EndEncrypt
      PROVE  Given'
  <2>1. /\ mode = "encrypting" /\ mode' = "closed" /\ adds' = adds
        /\ disk'[header'].want = want
    BY <1>8, WriteWrites DEF EndEncrypt, Record
  <2> QED BY <2>1 DEF Given
<1>9. ASSUME NEW path \in Paths, NEW length \in Sizes,
             RoomyAddNewFile(path, length)
      PROVE  Given'
  <2>1. Inductive' /\ mode = "open" /\ todo' = todo
    BY <1>9, AddNewFileKeeps DEF RoomyAddNewFile, AddNewFile, Ready
  <2>2. mode' # "closed"
    BY <1>9, <2>1 DEF RoomyAddNewFile, AddNewFile, AddFile, StoreIn
  <2> QED BY <1>4, <1>9, <2>1, <2>2 DEF RoomyAddNewFile, AddNewFile
<1>10. ASSUME NEW path \in Paths, RoomyRemoveFile(path)
       PROVE  Given'
  BY <1>5, <1>10 DEF RoomyRemoveFile, RemoveFile, Discard, Ready
<1>11. ASSUME NEW path \in Paths, ReadFile(path)
       PROVE  Given'
  BY <1>5, <1>11 DEF ReadFile, Ready, memory
<1>12. ASSUME NEW dir \in Dirs, RoomyRemoveFolder(dir)
       PROVE  Given'
  BY <1>5, <1>12 DEF RoomyRemoveFolder, RemoveFolder, Ready
<1>13. ASSUME NEW source \in Sources, RoomyAddFolder(source)
       PROVE  Given'
  <2>1. mode = "open" /\ mode' = mode
    BY <1>13 DEF RoomyAddFolder, AddFolder, Ready
  <2>2. adds' = adds + 1 /\ adds < MaxAdds /\ IsGiven(want', adds')
    BY <1>13, AddFolderGives
  <2> QED BY <1>1, <2>1, <2>2 DEF Given
<1>14. ASSUME RoomyRemoveNext
       PROVE  Given'
  BY <1>5, <1>14 DEF RoomyRemoveNext, RemoveNext, Discard
<1>15. ASSUME RoomyAddNext
       PROVE  Given'
  BY <1>5, <1>15 DEF RoomyAddNext, AddNext, AddFile, StoreIn
<1>16. ASSUME Open
       PROVE  Given'
  BY <1>16 DEF Open, Given
<1>17. ASSUME Save
       PROVE  Given'
  BY <1>5, <1>17 DEF Save, Ready
<1>18. ASSUME CloseUnchanged \/ RoomyKill
       PROVE  Given'
  <2>1. /\ mode = "open" /\ todo = {} /\ ~changed /\ mode' = "closed"
        /\ header' = pending /\ disk' = disk /\ adds' = adds
    <3>1. mode \in {"none", "encrypting", "closed", "open"}
      BY DEF Inductive
    <3> QED BY <3>1, <1>18
            DEF CloseUnchanged, RoomyKill, Kill, Settled, Ready
  <2>2. disk[pending].want = want
    BY <2>1 DEF Inductive, SoundOpen, MasterRecord, Record
  <2> QED BY <2>1, <2>2 DEF Given
<1>19. ASSUME KillInEncrypt
       PROVE  Given'
  BY <1>5, <1>19 DEF KillInEncrypt, Forget
<1>20. ASSUME UNCHANGED vars
       PROVE  Given'
  BY <1>20 DEF vars, memory, storage, Given
<1>21. CASE Encrypting
  BY <1>21, <1>6, <1>7, <1>8 DEF Encrypting
<1>22. CASE RoomyCommands
  BY <1>22, <1>9, <1>10, <1>11, <1>12, <1>13, <1>14, <1>15 DEF RoomyCommands
<1> QED BY <1>16, <1>17, <1>18, <1>19, <1>20, <1>21, <1>22 DEF RoomyNext

-----------------------------------------------------------------------------
(* The regime implements FolderStore *)

\* What the user was told the files of a tree hold.
Promised(tree, content) ==
  [p \in Stored(tree) |->
     [path |-> p, serial |-> content[p].serial, size |-> content[p].size]]

\* Sound blocks decrypt to what was promised.
LEMMA SoundBlocksDecrypt ==
  ASSUME NEW tree, NEW content, NEW d, SoundBlocks(tree, content, d)
  PROVE  Decrypted(tree, d) = Promised(tree, content)
<1>1. ASSUME NEW p \in Stored(tree)
      PROVE  ContentAt(d, tree[p])
               = [path |-> p, serial |-> content[p].serial,
                  size |-> content[p].size]
  <2>1. /\ tree[p] \in DOMAIN d
        /\ d[tree[p]] = Block(p, content[p].serial, content[p].size)
    BY DEF SoundBlocks, BlocksWhole
  <2> QED BY <2>1 DEF ContentAt, IsBlock, Block
<1> QED BY <1>1 DEF Decrypted, Promised

\* The user sees what was promised.
Shown ==
  /\ mode # "closed" => Visible = Promised(files, want)
  /\ mode = "closed" =>
       Visible = Promised(disk[header].files, disk[header].want)

\* Whatever the phase, the files in sight decrypt to what was promised.
LEMMA VisibleIsPromised == Inductive => Shown
<1> SUFFICES ASSUME Inductive PROVE Shown
  OBVIOUS
<1>1. CASE mode = "none"
  <2>1. Stored(files) = {}
    BY <1>1 DEF Inductive, Idle, NoTree, Stored
  <2> QED BY <1>1, <2>1 DEF Shown, Visible, Decrypted, Promised
<1>2. CASE mode = "encrypting"
  BY <1>2, SoundBlocksDecrypt DEF Shown, Visible, Inductive, SoundEncrypting
<1>3. CASE mode = "closed"
  BY <1>3, SoundBlocksDecrypt DEF Shown, Visible, Inductive, SoundRecord
<1>4. CASE mode = "open"
  BY <1>4, SoundBlocksDecrypt DEF Shown, Visible, Inductive, SoundOpen
<1> QED BY <1>1, <1>2, <1>3, <1>4 DEF Inductive

\* A step that stores one file is a Store of the abstract folder.
LEMMA StoreMaps ==
  ASSUME Shown, Shown', Given',
         mode \in {"encrypting", "open"}, mode' = mode,
         NEW path \in Paths, path \notin Stored(files),
         Stored(files') = Stored(files) \cup {path}, path \in DOMAIN want',
         \A p \in Stored(files) : want'[p] = want[p]
  PROVE  Abstract!Store(path)
<1>1. Visible = Promised(files, want) /\ Visible' = Promised(files', want')
  BY DEF Shown
<1>2. /\ DOMAIN Visible = Stored(files)
      /\ DOMAIN Visible' = Stored(files) \cup {path}
  BY <1>1 DEF Promised
<1>3. \A p \in Stored(files) : Visible'[p] = Visible[p]
  BY <1>1 DEF Promised
<1>4. Visible'[path] = [path |-> path, serial |-> want'[path].serial,
                        size |-> want'[path].size]
  BY <1>1 DEF Promised
<1>5. want'[path].serial \in 1 .. MaxAdds /\ want'[path].size \in Lengths
  BY EncryptedFolderAssumption DEF Given, IsGiven
<1>6. Visible'[path] \in Contents[path]
  BY <1>4, <1>5 DEF Contents
<1> HIDE DEF Visible
<1> QED BY <1>2, <1>3, <1>6 DEF Abstract!Store

\* A step that removes one file is a Delete of the abstract folder.
LEMMA DeleteMaps ==
  ASSUME Shown, Shown', mode = "open", mode' = mode,
         NEW path \in Stored(files),
         Stored(files') = Stored(files) \ {path},
         \A p \in Stored(files') : want'[p] = want[p]
  PROVE  Abstract!Delete(path)
<1>1. Visible = Promised(files, want) /\ Visible' = Promised(files', want')
  BY DEF Shown
<1>2. Visible' = [p \in DOMAIN Visible \ {path} |-> Visible[p]]
  BY <1>1 DEF Promised
<1>3. path \in DOMAIN Visible
  BY <1>1 DEF Promised
<1> QED BY <1>2, <1>3 DEF Abstract!Delete

\* Every other step of an open container leaves the contents alone.
LEMMA OtherStepsStutter ==
  ASSUME Shown, Shown', mode # "closed", mode' # "closed",
         Stored(files') = Stored(files),
         \A p \in Stored(files) : want'[p] = want[p]
  PROVE  Visible' = Visible
<1>1. Visible = Promised(files, want) /\ Visible' = Promised(files', want')
  BY DEF Shown
<1>2. Promised(files', want') = Promised(files, want)
  BY DEF Promised
<1> QED BY <1>1, <1>2

\* add of a file, and one file of a folder given to encrypt-folder or to add.
LEMMA StoringMaps ==
  ASSUME Inductive, Inductive', Given', Shown, Shown',
         \/ \E path \in Paths, length \in Sizes :
              EncryptNext(path, length) \/ RoomyAddNewFile(path, length)
         \/ RoomyAddNext
  PROVE  \E path \in Paths : Abstract!Store(path)
<1>1. ASSUME NEW path \in Paths, NEW value, value # 0,
             files' = Put(files, path, value), path \notin Stored(files),
             mode \in {"encrypting", "open"}, mode' = mode,
             path \in DOMAIN want',
             \A p \in Stored(files) : want'[p] = want[p]
      PROVE  Abstract!Store(path)
  <2>1. Stored(files') = Stored(files) \cup {path}
    BY <1>1 DEF Stored, Put
  <2> QED BY <1>1, <2>1, StoreMaps
<1>2. ASSUME NEW path \in Paths, NEW length \in Sizes,
             EncryptNext(path, length)
      PROVE  Abstract!Store(path)
  <2>1. mode = "encrypting" /\ mode' = mode /\ path \notin DOMAIN files
        /\ files' = Put(files, path, curOffset)
        /\ want' = Put(want, path, [serial |-> adds', size |-> length])
    BY <1>2 DEF EncryptNext
  <2>2. DOMAIN want = DOMAIN files /\ FirstOffset <= curOffset
        /\ curOffset \in Nat
    BY <2>1, FreeSpaceAssumption
       DEF Inductive, SoundEncrypting, SoundBlocks, IsTree, Word
  <2>3. curOffset # 0
    BY <2>2, EncryptedFolderAssumption
  <2>4. \A p \in Stored(files) : want'[p] = want[p]
    BY <2>1, <2>2 DEF Stored, Put
  <2>5. path \notin Stored(files) /\ path \in DOMAIN want'
    BY <2>1 DEF Stored, Put
  <2> QED BY <2>1, <2>3, <2>4, <2>5, <1>1
<1>3. ASSUME NEW path, NEW data, NEW from, NEW serial, NEW length,
             mode = "open", AddFile(free, path, data, from, serial, length)
      PROVE  /\ mode' = "open"
             /\ \E value : files' = Put(files, path, value)
  <2>1. mode' \in {"none", "encrypting", "closed", "open"}
    BY DEF Inductive
  <2> QED BY <2>1, <1>3 DEF AddFile, StoreIn
<1>4. ASSUME NEW path \in Paths, NEW length \in Sizes,
             RoomyAddNewFile(path, length)
      PROVE  Abstract!Store(path)
  <2>1. /\ mode = "open" /\ todo' = {} /\ path \notin DOMAIN files
        /\ want' = Put(want, path, [serial |-> adds', size |-> length])
        /\ \E data : AddFile(free, path, data, path, adds', length)
    BY <1>4 DEF RoomyAddNewFile, AddNewFile, Ready
  <2>2. PICK value : mode' = "open" /\ files' = Put(files, path, value)
    BY <2>1, <1>3
  <2>3. path \in DOMAIN files' /\ files'[path] = value
    BY <2>2 DEF Put
  <2>4. value # 0
    BY <2>1, <2>2, <2>3 DEF Inductive, SoundOpen, SoundJobs
  <2>5. DOMAIN want = DOMAIN files
    BY <2>1 DEF Inductive, SoundOpen, SoundBlocks, IsTree
  <2>6. \A p \in Stored(files) : want'[p] = want[p]
    BY <2>1, <2>5 DEF Stored, Put
  <2>7. path \notin Stored(files) /\ path \in DOMAIN want'
    BY <2>1 DEF Stored, Put
  <2> QED BY <2>1, <2>2, <2>4, <2>6, <2>7, <1>1
<1>5. ASSUME RoomyAddNext
      PROVE  \E path \in Paths : Abstract!Store(path)
  <2>1. mode = "open" /\ want' = want /\ SoundJobs
    BY <1>5 DEF RoomyAddNext, AddNext, Inductive, SoundOpen
  <2>2. PICK job \in todo :
          /\ job.op = "add"
          /\ AddFile(free, job.path, files[job.path], job.from, job.serial,
                     job.size)
          /\ todo' = IF mode' = "open" THEN todo \ {job} ELSE {}
    BY <1>5 DEF RoomyAddNext, AddNext
  <2> DEFINE path == job.path
  <2>3. path \in DOMAIN files /\ files[path] = 0
    BY <2>1, <2>2 DEF SoundJobs
  <2>4. PICK value : mode' = "open" /\ files' = Put(files, path, value)
    BY <2>1, <2>2, <1>3
  <2>5. todo' = todo \ {job}
    BY <2>2, <2>4
  <2>6. path \in DOMAIN files' /\ files'[path] = value
    BY <2>4 DEF Put
  <2>7. SoundJobs'
    BY <2>4 DEF Inductive, SoundOpen
  <2>8. \A other \in todo' : other.path # path
    BY <2>1, <2>5 DEF SoundJobs
  <2>9. value # 0
    BY <2>6, <2>7, <2>8 DEF SoundJobs
  <2>10. path \in Paths /\ path \in DOMAIN want' /\ path \notin Stored(files)
    BY <2>1, <2>3 DEF Inductive, SoundOpen, SoundBlocks, IsTree, Stored
  <2> HIDE DEF path
  <2>11. Abstract!Store(path)
    BY <2>1, <2>4, <2>9, <2>10, <1>1
  <2> QED BY <2>10, <2>11
<1> QED BY <1>2, <1>4, <1>5

\* delete of a file, and one file of a folder that is deleted.
LEMMA DeletingMaps ==
  ASSUME Inductive, Shown, Shown',
         RoomyRemoveNext \/ \E path \in Paths : RoomyRemoveFile(path)
  PROVE  \E path \in Paths : Abstract!Delete(path)
<1>1. /\ mode = "open" /\ SoundJobs
      /\ DOMAIN files \subseteq Paths /\ DOMAIN want = DOMAIN files
  BY DEF RoomyRemoveNext, RemoveNext, RoomyRemoveFile, Ready, Inductive,
         SoundOpen, SoundBlocks, IsTree
<1>2. PICK path \in DOMAIN files : files[path] # 0 /\ Discard(path)
  <2>1. CASE RoomyRemoveNext
    BY <2>1, <1>1 DEF RoomyRemoveNext, RemoveNext, SoundJobs
  <2>2. CASE \E path \in Paths : RoomyRemoveFile(path)
    BY <2>2, <1>1 DEF RoomyRemoveFile, RemoveFile, Ready, SoundJobs
  <2> QED BY <2>1, <2>2
<1>3. /\ mode' = mode
      /\ files' = Drop(files, {path}) /\ want' = Drop(want, {path})
  BY <1>2 DEF Discard
<1>4. Stored(files') = Stored(files) \ {path} /\ path \in Stored(files)
  BY <1>2, <1>3 DEF Stored, Drop, Restrict
<1>5. \A p \in Stored(files') : want'[p] = want[p]
  BY <1>1, <1>3, <1>4 DEF Stored, Drop, Restrict
<1> QED BY <1>1, <1>3, <1>4, <1>5, DeleteMaps

\* Setting up a folder command, decrypting a file and saving change no content.
LEMMA PreparingStutters ==
  ASSUME Inductive, Shown, Shown',
         \/ \E path \in Paths : ReadFile(path)
         \/ \E dir \in Dirs : RoomyRemoveFolder(dir)
         \/ \E source \in Sources : RoomyAddFolder(source)
         \/ Save
  PROVE  mode' = mode /\ Visible' = Visible
<1>1. ASSUME mode = "open", mode' = mode, files' = files, want' = want
      PROVE  Visible' = Visible
  BY <1>1, OtherStepsStutter
<1>2. ASSUME NEW path \in Paths, ReadFile(path)
      PROVE  mode' = mode /\ Visible' = Visible
  <2>1. mode = "open" /\ mode' = mode /\ files' = files /\ want' = want
    BY <1>2 DEF ReadFile, Ready, memory
  <2> QED BY <2>1, <1>1
<1>3. ASSUME NEW dir \in Dirs, RoomyRemoveFolder(dir)
      PROVE  mode' = mode /\ Visible' = Visible
  <2>1. mode = "open" /\ mode' = mode /\ files' = files /\ want' = want
    BY <1>3 DEF RoomyRemoveFolder, RemoveFolder, Ready
  <2> QED BY <2>1, <1>1
<1>4. ASSUME NEW source \in Sources, RoomyAddFolder(source)
      PROVE  mode' = mode /\ Visible' = Visible
  <2> DEFINE new == DOMAIN source.files
  <2>1. /\ mode = "open" /\ mode' = mode /\ todo = {}
        /\ source.dirs = {source.dir} /\ source.dir \notin dirs
        /\ Parent[source.dir] \in dirs
        /\ \A p \in new : files'[p] = 0
    BY <1>4 DEF RoomyAddFolder, AddFolder, Ready
  <2>2. \A p \in DOMAIN files : p[1] \in dirs
    BY <2>1 DEF Inductive, SoundOpen, SoundJobs
  <2>3. new \cap DOMAIN files = {}
    BY <2>1, <2>2, FlatJobs
  <2>4. /\ DOMAIN files' = DOMAIN files \cup new
        /\ \A p \in DOMAIN files : files'[p] = files[p] /\ want'[p] = want[p]
    <3> HIDE DEF new
    <3>1. PICK replace \in SUBSET (new \cap DOMAIN files),
               fresh \in [new \ DOMAIN files -> FreshData] :
            /\ files' = [p \in DOMAIN files \cup (new \ DOMAIN files) |->
                           IF p \in new \ DOMAIN files THEN fresh[p]
                                                      ELSE files[p]]
            /\ want' = [p \in DOMAIN files \cup (new \ DOMAIN files) |->
                          IF p \in (new \ DOMAIN files) \cup replace
                          THEN [serial |-> adds', size |-> source.files[p]]
                          ELSE want[p]]
      BY <1>4 DEF RoomyAddFolder, AddFolder, new
    <3> QED BY <2>3, <3>1
  <2>5. Stored(files') = Stored(files)
    BY <2>1, <2>4 DEF Stored
  <2>6. \A p \in Stored(files) : want'[p] = want[p]
    BY <2>4 DEF Stored
  <2> QED BY <2>1, <2>5, <2>6, OtherStepsStutter
<1>5. ASSUME Save
      PROVE  mode' = mode /\ Visible' = Visible
  <2>1. mode = "open" /\ mode' = mode /\ files' = files /\ want' = want
    BY <1>5 DEF Save, Ready
  <2> QED BY <2>1, <1>1
<1> QED BY <1>2, <1>3, <1>4, <1>5

\* The steps from one phase of the container's life to another keep the
\* contents, except that giving up encrypt-folder leaves none.
LEMMA PhasesMap ==
  ASSUME Inductive, Shown, Shown',
         \/ \E folders \in Trees : BeginEncrypt(folders)
         \/ EndEncrypt \/ Open \/ CloseUnchanged \/ RoomyKill \/ KillInEncrypt
  PROVE  \/ Abstract!Begin \/ Abstract!Finish \/ Abstract!GiveUp
         \/ Abstract!OpenStore \/ Abstract!CloseStore
<1> HIDE DEF Visible
<1>1. ASSUME NEW folders \in Trees, BeginEncrypt(folders)
      PROVE  Abstract!Begin
  <2>1. /\ mode = "none" /\ mode' = "encrypting"
        /\ files' = files /\ want' = want
    BY <1>1 DEF BeginEncrypt
  <2>2. Visible' = Visible
    BY <2>1, OtherStepsStutter
  <2> QED BY <2>1, <2>2 DEF Abstract!Begin
<1>2. ASSUME EndEncrypt
      PROVE  Abstract!Finish
  <2>1. /\ mode = "encrypting" /\ mode' = "closed"
        /\ disk'[header'].files = files /\ disk'[header'].want = want
    BY <1>2, WriteWrites DEF EndEncrypt, Record
  <2>2. Visible' = Visible
    BY <2>1 DEF Shown
  <2> QED BY <2>1, <2>2 DEF Abstract!Finish
<1>3. ASSUME Open
      PROVE  Abstract!OpenStore
  <2>1. /\ mode = "closed" /\ mode' = "open"
        /\ files' = disk[header].files /\ want' = disk[header].want
    BY <1>3 DEF Open
  <2>2. Visible' = Visible
    BY <2>1 DEF Shown
  <2> QED BY <2>1, <2>2 DEF Abstract!OpenStore
<1>4. ASSUME CloseUnchanged \/ RoomyKill
      PROVE  Abstract!CloseStore
  <2>1. /\ mode = "open" /\ todo = {} /\ ~changed /\ mode' = "closed"
        /\ header' = pending /\ disk' = disk
    <3>1. mode \in {"none", "encrypting", "closed", "open"}
      BY DEF Inductive
    <3> QED BY <3>1, <1>4
            DEF CloseUnchanged, RoomyKill, Kill, Settled, Ready
  <2>2. disk[pending].files = files /\ disk[pending].want = want
    BY <2>1 DEF Inductive, SoundOpen, MasterRecord, Record
  <2>3. Visible' = Visible
    BY <2>1, <2>2 DEF Shown
  <2> QED BY <2>1, <2>3 DEF Abstract!CloseStore
<1>5. ASSUME KillInEncrypt
      PROVE  Abstract!GiveUp
  <2>1. mode = "encrypting" /\ mode' = "none" /\ files' = NoTree
    BY <1>5 DEF KillInEncrypt, Forget
  <2>2. Stored(files') = {}
    BY <2>1 DEF Stored, NoTree
  <2>3. Visible' = Promised(files', want')
    BY <2>1 DEF Shown
  <2>4. Visible' = [p \in {} |-> 0]
    BY <2>2, <2>3 DEF Promised
  <2> QED BY <2>1, <2>4 DEF Abstract!GiveUp
<1> QED BY <1>1, <1>2, <1>3, <1>4, <1>5

\* Every step of the regime is one step of the abstract folder, or none.
LEMMA StepsMap ==
  ASSUME Inductive, Inductive', Given', Shown, Shown', [RoomyNext]_vars
  PROVE  [Abstract!StoreNext]_<<mode, Visible>>
<1> HIDE DEF Visible
<1>1. CASE UNCHANGED vars
  <2>1. UNCHANGED <<mode, files, want, disk, header>>
    BY <1>1 DEF vars, memory, storage
  <2>2. Visible' = Visible
    BY <2>1 DEF Shown
  <2> QED BY <2>1, <2>2
<1>2. CASE RoomyNext
  BY <1>2, StoringMaps, DeletingMaps, PreparingStutters, PhasesMap
     DEF RoomyNext, Encrypting, RoomyCommands, Abstract!StoreNext
<1> QED BY <1>1, <1>2

-----------------------------------------------------------------------------
(* The theorems *)

\* The regime never leaves the states Inductive describes.
THEOREM RegimeIsSound == RoomySpec => []Inductive
<1>1. Init => Inductive
  <2>1. DOMAIN NoSpace = {} /\ 0 \in Word
    BY FreeSpaceAssumption DEF NoSpace, Word
  <2> QED BY <2>1 DEF Init, Inductive, Idle
<1>2. Inductive /\ [RoomyNext]_vars => Inductive'
  BY InductiveStep
<1> QED BY <1>1, <1>2, PTL DEF RoomySpec

\* Every file of an open container decrypts to what was added under its name
\* (AddFile, Remove and Save overwrite no block of another file).
THEOREM FilesAlwaysReadBack == RoomySpec => []FilesReadBack
<1>1. Inductive => FilesReadBack
  BY DEF Inductive, SoundOpen, SoundBlocks, FilesReadBack
<1> QED BY <1>1, RegimeIsSound, PTL

\* Free entries overlap neither a block nor each other.
THEOREM FreeSpaceIsAlwaysFree == RoomySpec => []FreeSpaceIsFree
<1>1. Inductive => FreeSpaceIsFree
  BY DEF Inductive, SoundOpen, SoundSpace, FreeSpaceIsFree
<1> QED BY <1>1, RegimeIsSound, PTL

\* Every byte of a container belongs to a block or to a free entry.
THEOREM NoSpaceEverLeaks == RoomySpec => []NoSpaceLeaks
<1>1. Inductive => NoSpaceLeaks
  BY DEF Inductive, SoundOpen, SoundSpace, NoSpaceLeaks
<1> QED BY <1>1, RegimeIsSound, PTL

\* Remove leaves no two free entries that touch.
THEOREM HolesAreAlwaysApart == RoomySpec => []HolesAreApart
<1>1. Inductive => HolesAreApart
  BY DEF Inductive, SoundOpen, SoundSpace, HolesAreApart
<1> QED BY <1>1, RegimeIsSound, PTL

\* The offset of the next master record is above every block.
THEOREM RecordIsAlwaysClear == RoomySpec => []RecordClearOfBlocks
<1>1. Inductive => RecordClearOfBlocks
  BY DEF Inductive, SoundOpen, SoundSpace, RecordClearOfBlocks
<1> QED BY <1>1, RegimeIsSound, PTL

\* An unchanged container is the one that Open would give.
THEOREM CleanAlwaysMeansSaved == RoomySpec => []CleanMeansSaved
<1>1. Inductive => CleanMeansSaved
  BY DEF Inductive, SoundOpen, CleanMeansSaved
<1> QED BY <1>1, RegimeIsSound, PTL

\* A closed container opens and every file in it reads back.
THEOREM ClosedContainerIsAlwaysWhole == RoomySpec => []ClosedContainerIsWhole
<1>1. Inductive => ClosedContainerIsWhole
  BY DEF Inductive, SoundRecord, AllStored, SoundBlocks, Stored,
         ClosedContainerIsWhole
<1> QED BY <1>1, RegimeIsSound, PTL

\* Every content was added by a command, with a length the user has.
THEOREM ContentsAreGiven == RoomySpec => []Given
<1>1. Init => Given
  BY EncryptedFolderAssumption DEF Init, Given, IsGiven, NoTree
<1>2. Inductive /\ Given /\ [RoomyNext]_vars => Given'
  BY GivenStep
<1> QED BY <1>1, <1>2, RegimeIsSound, PTL DEF RoomySpec

\* In the regime the encrypted folder is a map from paths to contents that only
\* add and delete change, one path at a time (EncryptFolder, AddFile, Remove,
\* Save, Open and Close implement FolderStore).
THEOREM RegimeImplementsStore == RoomySpec => ImplementsStore
<1>1. Init => Abstract!StoreInit
  <2> SUFFICES ASSUME Init PROVE Abstract!StoreInit
    OBVIOUS
  <2>1. Stored(files) = {} /\ mode = "none"
    BY DEF Init, Stored, NoTree
  <2>2. Visible = [p \in {} |-> 0]
    BY <2>1 DEF Visible, Decrypted
  <2> QED BY <2>1, <2>2 DEF Abstract!StoreInit
<1>2. /\ Inductive /\ Shown /\ [RoomyNext]_vars
      /\ Inductive' /\ Given' /\ Shown'
      => [Abstract!StoreNext]_<<mode, Visible>>
  BY StepsMap
<1> QED BY <1>1, <1>2, RegimeIsSound, ContentsAreGiven, VisibleIsPromised,
           PTL DEF RoomySpec, ImplementsStore, Abstract!StoreSpec,
                   Abstract!storeVars

\* Commands that store files are counted, whatever the user does.
LEMMA AddsAreCounted == Spec => [](adds \in Nat)
<1>1. Init => adds \in Nat
  BY DEF Init
<1>2. adds \in Nat /\ [Next]_vars => (adds \in Nat)'
  <2> SUFFICES ASSUME adds \in Nat, [Next]_vars PROVE (adds \in Nat)'
    OBVIOUS
  <2>1. adds' = adds \/ adds' = adds + 1
    BY DEF Next, Encrypting, Commands, Sessions, Kills, BeginEncrypt,
           EncryptNext, EndEncrypt, Open, Save, CloseUnchanged,
           CloseDiscarding, Kill, DeleteMissing, KillInSave, KillInEncrypt,
           ReadFile, AddNewFile, AddFileReplaceExists, RemoveFile, Discard,
           RemoveFolder, RemoveNext, AddFolder, AddNext, vars
  <2> QED BY <2>1
<1> QED BY <1>1, <1>2, PTL DEF Spec

\* Whatever the user does, in the regime or out of it, only a step that writes a
\* block or a process that ends at a bad moment costs the container its master
\* record (Save, Close, Remove and the seeks of a read never do).
THEOREM OnlyAddsCostTheContainer == Spec => OnlyAddsLoseContainer
<1> DEFINE Bad == \/ adds' # adds
                  \/ \E job \in todo : job.op = "add"
                  \/ mode' = "closed" /\ (header # pending \/ changed)
<1>1. ASSUME adds \in Nat, [Next]_vars, mode = "open", Openable, ~Openable'
      PROVE  Bad
  <2>1. IsRecord(disk, pending)
    BY <1>1 DEF Openable
  <2>2. CASE UNCHANGED vars
    BY <2>1, <2>2, <1>1 DEF Openable, IsRecord, vars, memory, storage
  <2>3. CASE Encrypting \/ Open
    BY <2>3, <1>1
       DEF Encrypting, BeginEncrypt, EncryptNext, EndEncrypt, Open
\* A step that leaves the device and the header of the stream alone.
  <2>4. ASSUME mode' = mode, disk' = disk, pending' = pending
        PROVE  FALSE
    BY <2>1, <2>4, <1>1 DEF Openable, IsRecord
\* A step that ends the session with what the stream holds.
  <2>5. ASSUME mode' = "closed", disk' = disk, header' = pending
        PROVE  FALSE
    BY <2>1, <2>5, <1>1 DEF Openable, IsRecord
\* A step that ends it with what has reached the device.
  <2>6. ASSUME mode' = "closed", disk' = disk, header' = header
        PROVE  Bad
    <3>1. CASE header = pending
      BY <2>5, <2>6, <3>1
    <3>2. CASE header # pending
      BY <2>6, <3>2
    <3> QED BY <3>1, <3>2
  <2>7. CASE Save
    <3>1. IsRecord(disk', curOffset)
      BY <2>7, WriteWrites DEF Save, IsRecord, MasterRecord, Record
    <3> QED BY <3>1, <2>7, <1>1 DEF Save, Openable
  <2>8. CASE CloseUnchanged \/ CloseDiscarding
    BY <2>8, <2>5 DEF CloseUnchanged, CloseDiscarding
  <2>9. CASE Kill \/ DeleteMissing
    BY <2>9, <2>6 DEF Kill, DeleteMissing
  <2>10. CASE KillInSave \/ KillInEncrypt
    BY <2>10, <1>1 DEF KillInSave, KillInEncrypt
  <2>11. CASE \E path \in Paths : RemoveFile(path) \/ ReadFile(path)
    BY <2>11, <2>4 DEF RemoveFile, ReadFile, Discard, memory
  <2>12. CASE RemoveNext \/ \E dir \in Dirs : RemoveFolder(dir)
    BY <2>12, <2>4 DEF RemoveNext, RemoveFolder, Discard, storage
  <2>13. CASE AddNext
    BY <2>13 DEF AddNext
  <2>14. CASE \/ \E path \in Paths, length \in Sizes :
                 AddNewFile(path, length) \/ AddFileReplaceExists(path, length)
              \/ \E source \in Sources : AddFolder(source)
    <3>1. adds' = adds + 1
      BY <2>14 DEF AddNewFile, AddFileReplaceExists, AddFolder
    <3> QED BY <3>1, <1>1
  <2> HIDE DEF Bad
  <2> QED BY <1>1, <2>2, <2>3, <2>7, <2>8, <2>9, <2>10, <2>11, <2>12, <2>13,
             <2>14 DEF Next, Commands, Sessions, Kills
<1>2. adds \in Nat /\ [Next]_vars
        => [mode = "open" /\ Openable /\ ~Openable' => Bad]_vars
  BY <1>1
<1> QED BY <1>2, AddsAreCounted, PTL DEF Spec, OnlyAddsLoseContainer

\* Every offset and size stays a size_t.
THEOREM TypesAreKept == RoomySpec => []TypeOK
<1>1. Inductive => TypeOK
  <2> SUFFICES ASSUME Inductive PROVE TypeOK
    OBVIOUS
  <2>1. CASE mode = "none" \/ mode = "closed"
    BY <2>1 DEF Inductive, Idle, TypeOK, Modes, NoTree, NoSpace
  <2>2. CASE mode = "encrypting"
    BY <2>2 DEF Inductive, SoundEncrypting, SoundBlocks, IsTree, TypeOK, Modes,
                NoSpace
  <2>3. CASE mode = "open"
    BY <2>3 DEF Inductive, SoundOpen, SoundBlocks, SoundSpace, SoundJobs, IsTree,
                IsSpace, TypeOK, Modes
  <2> QED BY <2>1, <2>2, <2>3 DEF Inductive
<1> QED BY <1>1, RegimeIsSound, PTL

=============================================================================
