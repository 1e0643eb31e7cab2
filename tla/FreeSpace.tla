------------------------------ MODULE FreeSpace ------------------------------
(***************************************************************************)
(* The free-space list of an encrypted folder (EncryptedFolder::           *)
(* m_freeSpace).  The source keeps a std::set of {offset, size} ordered by *)
(* offset; offsets are therefore unique and inserting an offset that is    *)
(* already there changes nothing.  Here the set is a function from offset  *)
(* to size.  "size" counts data bytes only: an extent of size s occupies   *)
(* s + Overhead bytes of the container, because every block carries an IV, *)
(* two length fields (ExtraData) and the offset of the next block (Ptr).   *)
(*                                                                         *)
(* All arithmetic is on size_t and wraps at Limit (2^64 in the program).   *)
(***************************************************************************)
EXTENDS Integers, FiniteSets, Functions

CONSTANTS
  Limit,       \* one more than ULLONG_MAX
  ExtraData,   \* _EXTRA_DATA: IV length, IV and data length of a block
  PtrSize      \* bytes of the next-block offset that ends a block

ASSUME FreeSpaceAssumption ==
  /\ Limit \in Nat \ {0}
  /\ ExtraData \in Nat \ {0}
  /\ PtrSize \in Nat \ {0}

Word == 0 .. Limit - 1

\* ULLONG_MAX: the size given to the extent after the last block, and what
\* tellg() of a stream that did not open (-1) becomes in a size_t.
MaxWord == Limit - 1

Wrap(x) == x % Limit

Overhead == ExtraData + PtrSize

-----------------------------------------------------------------------------
(* std::set operations *)

NoSpace == [o \in {} |-> 0]

Insert(space, offset, size) ==
  IF offset \in DOMAIN space
  THEN space
  ELSE [o \in DOMAIN space \cup {offset} |->
          IF o = offset THEN size ELSE space[o]]

Erase(space, offsets) == Restrict(space, DOMAIN space \ offsets)

\* *m_freeSpace.begin() and *--m_freeSpace.end()
FirstHole(space) ==
  CHOOSE o \in DOMAIN space : \A x \in DOMAIN space : o <= x

LastHole(space) ==
  CHOOSE o \in DOMAIN space : \A x \in DOMAIN space : x <= o

Before(space, offset) == {o \in DOMAIN space : o < offset}
After(space, offset)  == {o \in DOMAIN space : offset < o}

\* std::prev and std::next of the iterator at offset
PrevHole(space, offset) == LastHole(Restrict(space, Before(space, offset)))
NextHole(space, offset) == FirstHole(Restrict(space, After(space, offset)))

IsSpace(space) ==
  DOMAIN space \subseteq Word /\ space \in [DOMAIN space -> Word]

\* The first byte after the extent at offset.
EndOf(space, offset) == offset + space[offset] + Overhead

\* No byte belongs to two extents.
Disjoint(space) ==
  \A o1, o2 \in DOMAIN space : o1 < o2 => EndOf(space, o1) <= o2

\* No two extents touch.
Apart(space) ==
  \A o1, o2 \in DOMAIN space : o1 < o2 => EndOf(space, o1) # o2

-----------------------------------------------------------------------------
(* EncryptedFolder::Merge and the part of EncryptedFolder::Remove that     *)
(* gives one block back.                                                   *)

\* Merge(b1, b2).second for b1.offset < b2.offset
Mergeable(space, a, b) == Wrap(a + ExtraData + space[a] + PtrSize) = b

\* Faulty: the block headers between the two extents are not counted.
MergeDataOnly(space, a, b) ==
  Insert(Erase(space, {a, b}), a, Wrap(space[a] + space[b]))

\* Faulty: the next-block offset is counted twice.
MergePointerTwice(space, a, b) ==
  Insert(Erase(space, {a, b}), a,
         Wrap(space[a] + space[b] + Overhead + PtrSize))

\* The two entries erased and Merge(b1, b2).first inserted.
Merge(space, a, b) ==
  Insert(Erase(space, {a, b}), a, Wrap(space[a] + space[b] + Overhead))

\* Where the freed block's entry is once it was merged with its predecessor.
MergedWithPrev(space, offset) ==
  /\ Before(space, offset) # {}
  /\ Mergeable(space, PrevHole(space, offset), offset)

MergePrev(space, offset) ==
  IF MergedWithPrev(space, offset)
  THEN Merge(space, PrevHole(space, offset), offset)
  ELSE space

MergeNext(space, offset) ==
  IF /\ After(space, offset) # {}
     /\ Mergeable(space, offset, NextHole(space, offset))
  THEN Merge(space, offset, NextHole(space, offset))
  ELSE space

\* One iteration of the loop of Remove: insert the block, merge it with the
\* entry before it, then merge the result with the entry after it.
Release(space, offset, size) ==
  LET with == Insert(space, offset, size)
      at   == IF MergedWithPrev(with, offset)
              THEN PrevHole(with, offset)
              ELSE offset
  IN  MergeNext(MergePrev(with, offset), at)

-----------------------------------------------------------------------------
(* The free-list part of one iteration of EncryptedFolder::AddFile: the    *)
(* first entry always, whatever its size, is cut by the length Encrypt     *)
(* returns, which is the length of the whole source file plus ExtraData    *)
(* and not what was written.                                               *)

EncryptReturns(length) == Wrap(length + ExtraData)

\* Faulty: the next-block offset that AddFile writes itself is forgotten.
TakeWithoutPointer(space, length) ==
  LET hole == FirstHole(space)
      left == Wrap(space[hole] - EncryptReturns(length))
      rest == Erase(space, {hole})
  IN  IF left = 0
      THEN rest
      ELSE Insert(rest, Wrap(hole + EncryptReturns(length)), left)

Take(space, length) ==
  LET hole == FirstHole(space)
      left == Wrap(space[hole] - EncryptReturns(length) - PtrSize)
      rest == Erase(space, {hole})
  IN  IF left = 0
      THEN rest
      ELSE Insert(rest, Wrap(hole + EncryptReturns(length) + PtrSize), left)

\* min(freeSpaceSize, fileSize): the bytes Encrypt really writes
Written(space, length) ==
  LET room == space[FirstHole(space)]
  IN  IF room < length THEN room ELSE length
=============================================================================
