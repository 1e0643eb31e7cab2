--------------------------- MODULE EncryptedFolder ---------------------------
(***************************************************************************)
(* A folder encrypted into one container file, as the console edits it:    *)
(* encrypt-folder, open, add, delete, decrypt, close.                      *)
(*                                                                         *)
(* Container (stable storage)                                              *)
(*   disk     extents written at an offset: the blocks of files and the    *)
(*            master records (free list + folder tree).  A write destroys  *)
(*            every extent it touches; an offset without an extent holds   *)
(*            bytes that no longer mean anything.                          *)
(*   header   the first 8 bytes, the offset of the current master record,  *)
(*            as stored on the device                                      *)
(*   pending  the same 8 bytes as the open stream sees them: Save writes   *)
(*            them last and they stay in the stream's buffer until the     *)
(*            next seek or the close                                       *)
(* Memory of the process (class EncryptedFolder)                           *)
(*   mode, dirs, files (m_root: the folders, and the m_data of each file), *)
(*   free (m_freeSpace), curOffset (m_curOffset), changed (m_changed),     *)
(*   todo (the files a folder command has still to process)                *)
(* Auxiliary                                                               *)
(*   want     what the user put into each file of the tree: the serial     *)
(*            number of the command that did, and the length               *)
(*   adds     the number of those commands so far                          *)
(***************************************************************************)
EXTENDS FreeSpace

CONSTANTS
  Dirs,         \* folders that can exist inside the container
  Root,         \* the root folder
  Parent,       \* the parent of every other folder
  Under,        \* the folders at or below a folder
  Names,        \* file names
  Sizes,        \* lengths of source files
  FreshData,    \* what m_data of a new File<size_t> may hold: no constructor
                \* of File sets it
  GarbageSizes, \* lengths read where no block starts
  FirstOffset,  \* where the first block starts, after the header
  RecordSize,   \* bytes of a master record
  DiskSize,     \* bytes the device can hold
  Sources,      \* folders on the user's disk that add can be given
  MaxAdds       \* bound: commands that store files

Paths == Dirs \X Names

ASSUME EncryptedFolderAssumption ==
  /\ Root \in Dirs
  /\ Parent \in [Dirs \ {Root} -> Dirs]
  /\ Under \in [Dirs -> SUBSET Dirs] /\ \A d \in Dirs : d \in Under[d]
  /\ Sizes \subseteq Nat
  /\ FreshData \subseteq Word /\ FreshData # {}
  /\ GarbageSizes \subseteq Word /\ GarbageSizes # {}
  /\ FirstOffset \in Nat \ {0}
  /\ RecordSize \in Nat \ {0}
  /\ DiskSize \in Nat
  /\ FirstOffset <= DiskSize
  /\ DiskSize < Limit
  /\ \A s \in Sources : /\ s.dir \in s.dirs /\ s.dirs \subseteq Dirs \ {Root}
                         /\ DOMAIN s.files \subseteq s.dirs \X Names
                         /\ s.files \in [DOMAIN s.files -> Nat]
  /\ MaxAdds \in Nat

VARIABLES
  mode, dirs, files, free, curOffset, changed, todo,
  disk, header, pending,
  want, adds

memory  == <<mode, dirs, files, free, curOffset, changed, todo>>
storage == <<disk, header, pending>>
vars    == <<memory, storage, want, adds>>

-----------------------------------------------------------------------------
(* Extents *)

Garbage == 0     \* the serial of bytes nobody put there

Block(path, serial, size) ==
  [kind |-> "block", path |-> path, serial |-> serial, size |-> size]

IsBlock(d, o)  == o \in DOMAIN d /\ d[o].kind = "block"
IsRecord(d, o) == o \in DOMAIN d /\ d[o].kind = "record"

Length(extent) ==
  IF extent.kind = "block" THEN extent.size + Overhead ELSE RecordSize

\* What is left of the container when length bytes are written at offset.
Spared(d, offset, length) ==
  Restrict(d, {x \in DOMAIN d : \/ x + Length(d[x]) <= offset
                                \/ offset + length <= x})

Write(d, offset, extent) ==
  LET spared == Spared(d, offset, Length(extent))
  IN  [x \in DOMAIN spared \cup {offset} |->
         IF x = offset THEN extent ELSE spared[x]]

NoTree == [p \in {} |-> 0]

Put(tree, path, value) ==
  [p \in DOMAIN tree \cup {path} |-> IF p = path THEN value ELSE tree[p]]

Drop(tree, paths) == Restrict(tree, DOMAIN tree \ paths)

Record(folders, tree, space, content) ==
  [kind |-> "record", dirs |-> folders, files |-> tree, free |-> space,
   want |-> content]

MasterRecord == Record(dirs, files, free, want)

-----------------------------------------------------------------------------
(* Life of the container *)

Init ==
  /\ mode = "none"
  /\ dirs = {} /\ files = NoTree /\ free = NoSpace /\ want = NoTree
  /\ curOffset = 0 /\ changed = FALSE /\ todo = {}
  /\ disk = NoSpace /\ header = 0 /\ pending = 0
  /\ adds = 0

Forget ==
  /\ dirs' = {} /\ files' = NoTree /\ free' = NoSpace /\ want' = NoTree
  /\ curOffset' = 0 /\ changed' = FALSE /\ todo' = {}

\* EncryptFolder writes the placeholder header and starts at offset 8.
BeginEncrypt(folders) ==
  /\ mode = "none"
  /\ mode' = "encrypting"
  /\ dirs' = folders
  /\ curOffset' = FirstOffset
  /\ UNCHANGED <<files, free, changed, todo, storage, want, adds>>

\* One file of the folder being encrypted goes to the end of the container.
EncryptNext(path, length) ==
  /\ mode = "encrypting"
  /\ path[1] \in dirs /\ path \notin DOMAIN files
  /\ adds < MaxAdds
  /\ curOffset + length + Overhead <= DiskSize
  /\ adds' = adds + 1
  /\ files' = Put(files, path, curOffset)
  /\ want' = Put(want, path, [serial |-> adds', size |-> length])
  /\ disk' = Write(disk, curOffset, Block(path, adds', length))
  /\ curOffset' = Wrap(curOffset + EncryptReturns(length) + PtrSize)
  /\ UNCHANGED <<mode, dirs, free, changed, todo, header, pending>>

\* Everything after the last block is free, the master record goes there,
\* and the command deletes the EncryptedFolder, which closes the stream.
EndEncrypt ==
  /\ mode = "encrypting"
  /\ mode' = "closed"
  /\ disk' = Write(disk, curOffset,
                   Record(dirs, files, Insert(NoSpace, curOffset, MaxWord), want))
  /\ header' = curOffset /\ pending' = curOffset
  /\ Forget
  /\ UNCHANGED adds

\* Faulty: m_curOffset is not read from the header.
OpenAtFirstBlock ==
  /\ mode = "closed"
  /\ IsRecord(disk, header)
  /\ mode' = "open"
  /\ dirs'  = disk[header].dirs
  /\ files' = disk[header].files
  /\ free'  = disk[header].free
  /\ want'  = disk[header].want
  /\ curOffset' = FirstOffset
  /\ UNCHANGED <<changed, todo, storage, adds>>

Open ==
  /\ mode = "closed"
  /\ IsRecord(disk, header)
  /\ mode' = "open"
  /\ dirs'  = disk[header].dirs
  /\ files' = disk[header].files
  /\ free'  = disk[header].free
  /\ want'  = disk[header].want
  /\ curOffset' = header
  /\ UNCHANGED <<changed, todo, storage, adds>>

Ready == mode = "open" /\ todo = {}

\* Faulty: the header gets the start of the last free entry and not the offset
\* the record was written at.
SaveWrongHeader ==
  /\ Ready /\ changed
  /\ disk' = Write(disk, curOffset, MasterRecord)
  /\ header' = pending
  /\ pending' = LastHole(free)
  /\ changed' = FALSE
  /\ UNCHANGED <<mode, dirs, files, free, curOffset, todo, want, adds>>

\* SaveChanges answered with y.  seekp(m_curOffset) flushes the stream; the
\* header is the last thing written.
Save ==
  /\ Ready /\ changed
  /\ disk' = Write(disk, curOffset, MasterRecord)
  /\ header' = pending
  /\ pending' = curOffset
  /\ changed' = FALSE
  /\ UNCHANGED <<mode, dirs, files, free, curOffset, todo, want, adds>>

\* Faulty: the stream is deleted without being closed.
CloseUnflushed ==
  /\ Ready /\ ~changed
  /\ mode' = "closed"
  /\ pending' = header
  /\ Forget
  /\ UNCHANGED <<disk, header, adds>>

\* Close with nothing to save: SaveChanges does not even ask.
CloseUnchanged ==
  /\ Ready /\ ~changed
  /\ mode' = "closed"
  /\ header' = pending
  /\ Forget
  /\ UNCHANGED <<disk, pending, adds>>

\* Close with SaveChanges answered with n: the changes are given up.
CloseDiscarding ==
  /\ Ready /\ changed
  /\ mode' = "closed"
  /\ header' = pending
  /\ Forget
  /\ UNCHANGED <<disk, pending, adds>>

\* The process ends without closing: what the stream still buffers is lost.
Kill ==
  /\ mode \in {"open", "filling", "wild"}
  /\ mode' = "closed"
  /\ pending' = header
  /\ Forget
  /\ UNCHANGED <<disk, header, adds>>

\* delete of a name that does not exist: RemoveFile returns false and
\* RemoveFolder dereferences the null folder, which ends the process.
DeleteMissing ==
  /\ Ready
  /\ mode' = "closed"
  /\ pending' = header
  /\ Forget
  /\ UNCHANGED <<disk, header, adds>>

\* The process ends while Save writes the master record.
KillInSave ==
  /\ Ready /\ changed
  /\ mode' = "closed"
  /\ disk' = Spared(disk, curOffset, RecordSize)
  /\ header' = pending
  /\ Forget
  /\ UNCHANGED <<pending, adds>>

\* The process ends while EncryptFolder runs; the user starts over.
KillInEncrypt ==
  /\ mode = "encrypting"
  /\ mode' = "none"
  /\ disk' = NoSpace
  /\ Forget
  /\ UNCHANGED <<header, pending, adds>>

\* open -ef and decrypt -ef of a stored file: they seek, which flushes.
ReadFile(path) ==
  /\ Ready /\ path \in DOMAIN files
  /\ header' = pending
  /\ UNCHANGED <<memory, disk, pending, want, adds>>

-----------------------------------------------------------------------------
(* EncryptedFolder::AddFile and EncryptedFolder::Remove *)

\* Faulty: m_curOffset stays where the last master record was.
StoreInKeepingOffset(space, path, data, from, serial, length) ==
  LET hole  == FirstHole(space)
      bytes == Written(space, length)
  IN  /\ hole + bytes + Overhead <= DiskSize
      /\ disk' = Write(disk, hole, Block(from, serial, bytes))
      /\ files' = Put(files, path, IF data = 0 THEN hole ELSE data)
      /\ free' = Take(space, length)
      /\ UNCHANGED <<curOffset, mode>>

\* Store length bytes in the first free extent.  data is the file's m_data
\* and is set only when it is 0.  Encrypt returns the length of the whole
\* source, so the loop over the extents ends after its first iteration.
\* Taking the last entry away makes --m_freeSpace.end() undefined ("wild").
\* A source that did not open has length 2^64 - 1; in an entry larger than the
\* device the loop of Encrypt writes until nothing can be written any more
\* ("filling").  A readable source that does not fit on the device is not
\* modelled.
StoreIn(space, path, data, from, serial, length) ==
  LET hole  == FirstHole(space)
      rest  == Take(space, length)
      bytes == Written(space, length)
  IN  \/ /\ hole + bytes + Overhead <= DiskSize
         /\ disk' = Write(disk, hole, Block(from, serial, bytes))
         /\ files' = Put(files, path, IF data = 0 THEN hole ELSE data)
         /\ free' = rest
         /\ \/ rest # NoSpace /\ curOffset' = LastHole(rest) /\ UNCHANGED mode
            \/ rest = NoSpace /\ mode' = "wild" /\ UNCHANGED curOffset
      \/ /\ length = MaxWord
         /\ hole + bytes + Overhead > DiskSize
         /\ disk' = Spared(disk, hole, DiskSize + RecordSize)
         /\ mode' = "filling"
         /\ UNCHANGED <<files, free, curOffset>>

AddFile(space, path, data, from, serial, length) ==
  /\ StoreIn(space, path, data, from, serial, length)
  /\ changed' = TRUE
  /\ header' = pending
  /\ UNCHANGED <<dirs, pending>>

\* The data length Remove reads in the block at offset.
SizesAt(offset) ==
  IF IsBlock(disk, offset) THEN {disk[offset].size} ELSE GarbageSizes

\* The free list after Remove(file) when the block at m_data has this size.
Released(data, size) ==
  IF data = 0 THEN free ELSE Release(free, data, size)

-----------------------------------------------------------------------------
(* Commands on one file *)

\* add: a name the folder does not have.
AddNewFile(path, length) ==
  /\ Ready
  /\ path[1] \in dirs /\ path \notin DOMAIN files
  /\ adds < MaxAdds
  /\ adds' = adds + 1
  /\ want' = Put(want, path, [serial |-> adds', size |-> length])
  /\ \E data \in FreshData : AddFile(free, path, data, path, adds', length)
  /\ UNCHANGED todo

\* add: a name the folder has, and the user confirms.  Remove gives the block
\* back but leaves m_data as it is.
AddFileReplaceExists(path, length) ==
  /\ Ready
  /\ path \in DOMAIN files
  /\ adds < MaxAdds
  /\ adds' = adds + 1
  /\ want' = Put(want, path, [serial |-> adds', size |-> length])
  /\ \E size \in SizesAt(files[path]) :
       AddFile(Released(files[path], size), path, files[path], path, adds',
               length)
  /\ UNCHANGED todo

\* Faulty: m_changed is not set.
DiscardSilently(path) ==
  /\ \E size \in SizesAt(files[path]) : free' = Released(files[path], size)
  /\ files' = Drop(files, {path})
  /\ want' = Drop(want, {path})
  /\ header' = IF files[path] = 0 THEN header ELSE pending
  /\ UNCHANGED <<mode, dirs, changed, curOffset, disk, pending, adds>>

\* The effect of Remove(file) followed by delete file.
Discard(path) ==
  /\ \E size \in SizesAt(files[path]) : free' = Released(files[path], size)
  /\ files' = Drop(files, {path})
  /\ want' = Drop(want, {path})
  /\ changed' = TRUE
  /\ header' = IF files[path] = 0 THEN header ELSE pending
  /\ UNCHANGED <<mode, dirs, curOffset, disk, pending, adds>>

\* delete: a file.
RemoveFile(path) ==
  /\ Ready
  /\ path \in DOMAIN files
  /\ Discard(path)
  /\ UNCHANGED todo

-----------------------------------------------------------------------------
(* Commands on folders: each sets up the files it visits, one step a file. *)

\* delete: a folder.  m_changed is set only by the files in it.
RemoveFolder(dir) ==
  /\ Ready
  /\ dir \in dirs \ {Root}
  /\ dirs' = dirs \ Under[dir]
  /\ todo' = {[op |-> "remove", path |-> p] :
                p \in {q \in DOMAIN files : q[1] \in Under[dir]}}
  /\ UNCHANGED <<mode, files, free, curOffset, changed, storage, want, adds>>

RemoveNext ==
  /\ mode = "open"
  /\ \E job \in todo :
       /\ job.op = "remove"
       /\ Discard(job.path)
       /\ todo' = todo \ {job}

\* Folders of a source tree that the container does not have although it has
\* their parent: AddFolder hooks each of them in with everything below.
NewTops(source) ==
  {d \in source.dirs : d \notin dirs /\ Parent[d] \in dirs}

\* from: the file whose bytes the job really reads
Job(path, visit, from, serial, length) ==
  [op |-> "add", path |-> path, visit |-> visit, from |-> from,
   serial |-> serial, size |-> length]

Unreadable(path, visit) == Job(path, visit, path, Garbage, MaxWord)

\* What opening the path File::Path() yields for the file called path while
\* the traversal of a new folder is at folder visit.  The folder given to add
\* keeps its storage path, which moves on to visit while the file list does
\* not.  Every other file has a new parent by then; reachable says whether
\* the path through that parent leads to the source.
Opened(source, path, visit, reachable, serial) ==
  LET from == IF path[1] = source.dir /\ source.dir \notin dirs
              THEN <<visit, path[2]>>
              ELSE path
      real == IF path[1] = source.dir /\ source.dir \notin dirs
              THEN from \in DOMAIN source.files
              ELSE reachable
  IN  IF real THEN Job(path, visit, from, serial, source.files[from])
              ELSE Unreadable(path, visit)

\* In a new folder the files at its top are stored once for every folder below
\* it; the files further down never are.
JobsOfNew(source, reachable, serial) ==
  UNION {{Opened(source, p, v, reachable, serial) :
            p \in {q \in DOMAIN source.files : q[1] = top},
            v \in Under[top] \cap source.dirs} : top \in NewTops(source)}

\* In a folder that exists, new names are stored from the re-parented path and
\* the names the user agrees to replace from the source.
JobsOfExisting(source, replace, reachable, serial) ==
  LET here == {q \in DOMAIN source.files : q[1] \in dirs}
  IN  {Opened(source, p, p[1], reachable, serial) :
         p \in here \ DOMAIN files}
      \cup
      {Job(p, p[1], p, serial, source.files[p]) : p \in replace}

\* source.dir is the folder given to add, source.dirs it and the folders below
\* it, source.files the lengths of its files.
AddFolder(source) ==
  LET inTree == DOMAIN source.files \cap DOMAIN files
      new    == DOMAIN source.files \ DOMAIN files
  IN  /\ Ready
      /\ Parent[source.dir] \in dirs
      /\ adds < MaxAdds
      /\ adds' = adds + 1
      /\ dirs' = dirs \cup source.dirs
      /\ \E replace \in SUBSET inTree, reachable \in BOOLEAN,
            fresh \in [new -> FreshData] :
           /\ files' = [p \in DOMAIN files \cup new |->
                          IF p \in new THEN fresh[p] ELSE files[p]]
           /\ want' = [p \in DOMAIN files \cup new |->
                         IF p \in new \cup replace
                         THEN [serial |-> adds', size |-> source.files[p]]
                         ELSE want[p]]
           /\ todo' = JobsOfNew(source, reachable, adds')
                        \cup JobsOfExisting(source, replace, reachable, adds')
      /\ UNCHANGED <<mode, free, curOffset, changed, storage>>

\* The traversal is in pre-order: the visit of the folder itself comes first.
AddNext ==
  /\ mode = "open"
  /\ \E job \in todo :
       /\ job.op = "add"
       /\ \/ job.visit = job.path[1]
          \/ \A other \in todo : other.visit # other.path[1]
       /\ AddFile(free, job.path, files[job.path], job.from, job.serial,
                  job.size)
       /\ todo' = IF mode' = "open" THEN todo \ {job} ELSE {}
  /\ UNCHANGED <<want, adds>>

-----------------------------------------------------------------------------
\* Closed under Parent, so that every folder of a tree hangs on the root.
Trees == {ds \in SUBSET Dirs :
            Root \in ds /\ \A d \in ds \ {Root} : Parent[d] \in ds}

Encrypting ==
  \/ \E folders \in Trees : BeginEncrypt(folders)
  \/ \E path \in Paths, length \in Sizes : EncryptNext(path, length)
  \/ EndEncrypt

Commands ==
  \/ \E path \in Paths, length \in Sizes :
       AddNewFile(path, length) \/ AddFileReplaceExists(path, length)
  \/ \E path \in Paths : RemoveFile(path) \/ ReadFile(path)
  \/ \E dir \in Dirs : RemoveFolder(dir)
  \/ \E source \in Sources : AddFolder(source)
  \/ RemoveNext
  \/ AddNext
  \/ DeleteMissing

Sessions == Open \/ Save \/ CloseUnchanged \/ CloseDiscarding

Kills == Kill \/ KillInSave \/ KillInEncrypt

Next == Encrypting \/ Commands \/ Sessions \/ Kills

\* Whatever the user asks for, in any order, with a process that may end.
Spec == Init /\ [][Next]_vars
=============================================================================
