----------------------------- MODULE RoomyFolder -----------------------------
(***************************************************************************)
(* What the encrypted folder promises, and the regime in which it keeps    *)
(* the promises.                                                           *)
(*                                                                         *)
(* Spec (EncryptedFolder) lets the user do anything.  RoomySpec restricts  *)
(* the user, never the program: files go only into a first hole larger     *)
(* than their whole block; nothing is replaced in place; freeing the run   *)
(* at the end of the container does not wrap the size of the last entry;   *)
(* folders given to add are flat, new and not empty; folders deleted are   *)
(* not empty; new File objects are zeroed; changes are saved, and the      *)
(* process ends only when they are and the header has reached the device.  *)
(* The restrictions are needed: the specifications after RoomySpec drop    *)
(* one each, and every one of them violates a property below.              *)
(***************************************************************************)
EXTENDS EncryptedFolder

Fits(length) == length + Overhead < free[FirstHole(free)]

RoomOnDevice(length) == LastHole(free) + length + Overhead <= DiskSize

EndOfSpace(space) == LastHole(space) + space[LastHole(space)]

\* Giving the file's block back leaves the end of the last entry in place.
KeepsEnd(path) ==
  \/ files[path] = 0
  \/ \A size \in SizesAt(files[path]) :
       EndOfSpace(Release(free, files[path], size)) = EndOfSpace(free)

Settled == ~changed /\ header = pending

RoomyAddNewFile(path, length) ==
  /\ Ready
  /\ Fits(length) /\ RoomOnDevice(length)
  /\ AddNewFile(path, length)
  /\ files'[path] = FirstHole(free)

RoomyRemoveFile(path) ==
  /\ Ready /\ path \in DOMAIN files
  /\ KeepsEnd(path)
  /\ RemoveFile(path)

\* Folders are removed from containers in which no run can wrap the last entry,
\* and only with files in them: m_changed is set per file.
RoomyRemoveFolder(dir) ==
  /\ Ready
  /\ \E p \in DOMAIN files : p[1] \in Under[dir]
  /\ EndOfSpace(free) < FirstOffset + Limit
  /\ RemoveFolder(dir)

RoomyRemoveNext ==
  /\ \A job \in todo : job.op = "remove" => KeepsEnd(job.path)
  /\ RemoveNext

\* Flat, new, not empty, and small enough for the first hole to take its files.
RoomyAddFolder(source) ==
  /\ Ready
  /\ DOMAIN source.files # {}
  /\ source.dirs = {source.dir} /\ source.dir \notin dirs
  /\ \A p \in DOMAIN source.files :
       LET bytes == Cardinality(DOMAIN source.files)
                      * (source.files[p] + Overhead)
       IN  /\ bytes < free[FirstHole(free)]
           /\ LastHole(free) + bytes <= DiskSize
  /\ AddFolder(source)
  /\ \A p \in DOMAIN source.files : files'[p] = 0

RoomyAddNext ==
  /\ \A job \in todo :
       job.op = "add" => Fits(job.size) /\ RoomOnDevice(job.size)
  /\ AddNext

RoomyKill == Settled /\ todo = {} /\ Kill

RoomyCommands ==
  \/ \E path \in Paths, length \in Sizes : RoomyAddNewFile(path, length)
  \/ \E path \in Paths : RoomyRemoveFile(path) \/ ReadFile(path)
  \/ \E dir \in Dirs : RoomyRemoveFolder(dir)
  \/ \E source \in Sources : RoomyAddFolder(source)
  \/ RoomyRemoveNext
  \/ RoomyAddNext

RoomyNext ==
  \/ Encrypting
  \/ RoomyCommands
  \/ Open \/ Save \/ CloseUnchanged
  \/ RoomyKill \/ KillInEncrypt

RoomySpec == Init /\ [][RoomyNext]_vars

\* The regime with one restriction dropped.
TightSpec ==     \* files go into whatever the first hole is
  Init /\ [][RoomyNext \/ \E path \in Paths, length \in Sizes :
                /\ Ready /\ RoomOnDevice(length)
                /\ AddNewFile(path, length)]_vars
DirtySpec ==     \* new File objects hold what the heap held
  Init /\ [][RoomyNext \/ \E path \in Paths, length \in Sizes :
                /\ Ready /\ Fits(length) /\ RoomOnDevice(length)
                /\ AddNewFile(path, length)]_vars
ReplacingSpec == \* files are replaced in place
  Init /\ [][RoomyNext \/ \E path \in Paths, length \in Sizes :
                /\ Ready /\ Fits(length) /\ RoomOnDevice(length)
                /\ AddFileReplaceExists(path, length)]_vars
DiscardingSpec == \* changes may be declined
  Init /\ [][RoomyNext \/ CloseDiscarding]_vars
UnflushedSpec ==  \* the process may end right after a save
  Init /\ [][RoomyNext \/ (~changed /\ Kill)]_vars
MistypingSpec ==  \* delete may name something that is not there
  Init /\ [][RoomyNext \/ DeleteMissing]_vars
FoldersSpec ==    \* any folder may be added or deleted
  Init /\ [][\/ RoomyNext
            \/ \E source \in Sources : AddFolder(source)
            \/ \E dir \in Dirs : RemoveFolder(dir)
            \/ AddNext]_vars

-----------------------------------------------------------------------------
(* Properties *)

Modes == {"none", "encrypting", "closed", "open", "filling", "wild"}

\* The type invariant: every offset and every size of the free list and of
\* the tree is a size_t, and files live in folders of the tree.
TypeOK ==
  /\ mode \in Modes
  /\ dirs \subseteq Dirs
  /\ DOMAIN files \subseteq Paths /\ \A p \in DOMAIN files : files[p] \in Word
  /\ DOMAIN want = DOMAIN files
  /\ DOMAIN free \subseteq Word /\ \A o \in DOMAIN free : free[o] \in Word
  /\ curOffset \in Word /\ header \in Word /\ pending \in Word
  /\ changed \in BOOLEAN
  /\ \A job \in todo : job.path \in DOMAIN files
  /\ DOMAIN disk \subseteq Word

\* The files of a tree that have a block: AddFolder has not still to store
\* them.
Stored(tree) == {p \in DOMAIN tree : tree[p] # 0}

BlockEnd(tree, sizes, p) == tree[p] + sizes[p].size + Overhead

\* What decrypting a file of the tree yields is what was added under its name.
BlocksWhole(tree, content, d) ==
  \A p \in Stored(tree) :
    /\ tree[p] \in DOMAIN d
    /\ d[tree[p]] = Block(p, content[p].serial, content[p].size)

HolesClear(tree, sizes, space) ==
  \A p \in Stored(tree), o \in DOMAIN space :
    BlockEnd(tree, sizes, p) <= o \/ EndOf(space, o) <= tree[p]

BlocksBelow(tree, sizes, offset) ==
  \A p \in Stored(tree) : BlockEnd(tree, sizes, p) <= offset

\* Every file of an open container decrypts to what was added, through every
\* add, delete, folder command, save and reopen: no block is overwritten by
\* another block or by the master record (AddFile, Remove, Save).
FilesReadBack == mode = "open" => BlocksWhole(files, want, disk)

\* The bytes AddFile may write next belong to no file: free entries overlap
\* neither a block nor each other (Merge, Remove and the entry AddFile cuts).
FreeSpaceIsFree ==
  mode = "open" => Disjoint(free) /\ HolesClear(files, want, free)

\* Where the blocks of a tree and the entries of a free list start.
Starts(tree, space) == {tree[p] : p \in Stored(tree)} \cup DOMAIN space

\* From the header to the last free entry blocks and holes follow each other.
Seamless(tree, sizes, space) ==
  /\ FirstOffset \in Starts(tree, space)
  /\ \A p \in Stored(tree) : BlockEnd(tree, sizes, p) \in Starts(tree, space)
  /\ \A o \in DOMAIN space \ {LastHole(space)} :
       EndOf(space, o) \in Starts(tree, space)

\* No byte is lost: between the header and the last free entry every block and
\* every hole ends where another one starts.
NoSpaceLeaks == mode = "open" => Seamless(files, want, free)

\* Remove merges on both sides, so no two free entries ever touch.
HolesAreApart == mode = "open" => Apart(free)

\* Save writes the master record at m_curOffset, which stays inside the last
\* free entry and above every block whatever is added and removed since the
\* offset was set (only AddFile sets it).
RecordClearOfBlocks ==
  mode = "open" =>
    LastHole(free) <= curOffset /\ BlocksBelow(files, want, curOffset)

\* m_changed = false, which makes SaveChanges skip the question, means that
\* reopening the container would give the tree and free list in memory.
CleanMeansSaved ==
  mode = "open" /\ todo = {} /\ ~changed =>
    IsRecord(disk, pending) /\ disk[pending] = MasterRecord

\* A closed container opens, and every file of its master record reads back:
\* closing, reopening and the end of the process lose nothing.
ClosedContainerIsWhole ==
  mode = "closed" =>
    /\ IsRecord(disk, header)
    /\ Stored(disk[header].files) = DOMAIN disk[header].files
    /\ BlocksWhole(disk[header].files, disk[header].want, disk)

\* The master record that the next Open reads, if the stream is closed first.
Openable == IF mode = "open" THEN IsRecord(disk, pending)
                             ELSE IsRecord(disk, header)

\* Whatever the user does, a container stops being openable only in a step that
\* writes a block (AddFile), or when the process ends at a bad moment: deleting,
\* reading, saving, closing and reopening never cost the master record.
OnlyAddsLoseContainer ==
  [][mode = "open" /\ Openable /\ ~Openable'
       => \/ adds' # adds
          \/ \E job \in todo : job.op = "add"
          \/ mode' = "closed" /\ (header # pending \/ changed)]_vars

-----------------------------------------------------------------------------
(* The inductive invariant behind the properties *)

IsTree(tree, content) ==
  /\ DOMAIN tree \subseteq Paths /\ tree \in [DOMAIN tree -> Word]
  /\ DOMAIN content = DOMAIN tree
  /\ \A p \in DOMAIN tree : content[p].size \in Nat

\* The blocks of a tree lie apart, behind the header and on the device, and
\* hold what they should.
SoundBlocks(tree, content, d) ==
  /\ IsTree(tree, content)
  /\ BlocksWhole(tree, content, d)
  /\ BlocksBelow(tree, content, DiskSize)
  /\ \A p \in Stored(tree) : FirstOffset <= tree[p]
  /\ \A p, q \in Stored(tree) :
       p # q => \/ BlockEnd(tree, content, p) <= tree[q]
                \/ BlockEnd(tree, content, q) <= tree[p]

\* The free list is apart from itself and from the blocks and leaves no gap
\* between them, its last entry has no end on the device, and a master record at
\* offset hits no block.
SoundSpace(tree, content, space, offset) ==
  /\ IsSpace(space) /\ DOMAIN space # {}
  /\ \A o \in DOMAIN space : FirstOffset <= o
  /\ Disjoint(space) /\ Apart(space)
  /\ HolesClear(tree, content, space)
  /\ EndOfSpace(space) >= DiskSize
  /\ LastHole(space) <= offset
  /\ BlocksBelow(tree, content, offset)
  /\ Seamless(tree, content, space)

AllStored(folders, tree) ==
  \A p \in DOMAIN tree : tree[p] # 0 /\ p[1] \in folders

\* A container that opens: what Open will find at offset.
SoundRecord(d, offset) ==
  /\ IsRecord(d, offset)
  /\ d[offset] = Record(d[offset].dirs, d[offset].files, d[offset].free,
                       d[offset].want)
  /\ d[offset].dirs \subseteq Dirs
  /\ AllStored(d[offset].dirs, d[offset].files)
  /\ SoundBlocks(d[offset].files, d[offset].want, d)
  /\ SoundSpace(d[offset].files, d[offset].want, d[offset].free, offset)

\* A folder command has one job for each file it has still to process.
SoundJobs ==
  /\ \A job \in todo :
       /\ job.path \in DOMAIN files
       /\ \/ job.op = "remove" /\ files[job.path] # 0
          \/ /\ job.op = "add" /\ files[job.path] = 0 /\ job.path[1] \in dirs
             /\ job = Job(job.path, job.path[1], job.path,
                          want[job.path].serial, want[job.path].size)
  /\ \A j, k \in todo : j.path = k.path => j = k
  /\ \A p \in DOMAIN files :
       \/ files[p] # 0 /\ p[1] \in dirs
       \/ \E job \in todo : job.path = p

Idle ==
  /\ dirs = {} /\ files = NoTree /\ want = NoTree /\ free = NoSpace
  /\ curOffset = 0 /\ changed = FALSE /\ todo = {}

\* The free list of a new container whose last block ends at offset.
Rest(offset) == Insert(NoSpace, offset, MaxWord)

\* A new container: everything so far lies below the offset.
SoundEncrypting ==
  /\ free = NoSpace /\ changed = FALSE /\ todo = {}
  /\ AllStored(dirs, files)
  /\ SoundBlocks(files, want, disk)
  /\ BlocksBelow(files, want, curOffset)
  /\ Seamless(files, want, Rest(curOffset))
  /\ FirstOffset <= curOffset /\ curOffset <= DiskSize

SoundOpen ==
  /\ SoundBlocks(files, want, disk)
  /\ SoundSpace(files, want, free, curOffset)
  /\ SoundJobs
  /\ todo = {} /\ ~changed =>
       pending = curOffset /\ IsRecord(disk, pending)
         /\ disk[pending] = MasterRecord

\* What every state of the regime satisfies: each phase of the container's life
\* leaves the blocks, the free list and the record as the next one needs them
\* (EncryptFolder, Open, AddFile, Remove, Save, Close).
Inductive ==
  /\ mode \in {"none", "encrypting", "closed", "open"}
  /\ dirs \subseteq Dirs /\ DOMAIN disk \subseteq Word
  /\ curOffset \in Word /\ header \in Word /\ pending \in Word
  /\ changed \in BOOLEAN
  /\ mode = "none" => Idle
  /\ mode = "encrypting" => SoundEncrypting
  /\ mode = "closed" => Idle /\ header = pending /\ SoundRecord(disk, header)
  /\ mode = "open" => SoundOpen

-----------------------------------------------------------------------------
(* The abstract folder this one implements in the regime *)

ContentAt(d, o) == IF IsBlock(d, o)
                   THEN [path |-> d[o].path, serial |-> d[o].serial,
                         size |-> d[o].size]
                   ELSE [path |-> <<>>, serial |-> Garbage, size |-> 0]

\* What decrypting the files of a tree yields.
Decrypted(tree, d) == [p \in Stored(tree) |-> ContentAt(d, tree[p])]

\* The lengths of the files a user adds, one by one or with their folder.
Lengths ==
  Sizes \cup UNION {{s.files[p] : p \in DOMAIN s.files} : s \in Sources}

\* What can be added under each path.
Contents ==
  [p \in Paths |-> [path : {p}, serial : 1 .. MaxAdds, size : Lengths]]

Visible == IF mode = "closed"
           THEN IF IsRecord(disk, header)
                THEN Decrypted(disk[header].files, disk)
                ELSE NoTree
           ELSE Decrypted(files, disk)

\* Each file was given its content by one of the first last commands, and has a
\* length the user can give it.
IsGiven(content, last) ==
  \A p \in DOMAIN content :
    content[p].serial \in 1 .. last /\ content[p].size \in Lengths

\* What every file of the tree and of the master record holds was added.
Given ==
  /\ adds \in 0 .. MaxAdds
  /\ mode # "closed" => IsGiven(want, adds)
  /\ mode = "closed" => IsGiven(disk[header].want, adds)

Abstract == INSTANCE FolderStore WITH session <- mode, content <- Visible

\* The encrypted folder is a map from paths to contents: a step changes the
\* content of at most one path, and closing and reopening changes none.
ImplementsStore == Abstract!StoreSpec
=============================================================================
