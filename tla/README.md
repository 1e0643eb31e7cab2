# Verification of the file sharing system

TLA+ modules that model the programs under `src/FileSharing`, the TLC
configurations that check them on small instances, and TLAPS proofs about them.
`PROJECT.json` maps every definition to the lines it models and lists the runs,
the mutants, the findings and the hazards.

## 1. The system

`FileSystemProtection` is a console that encrypts a folder into one container
file (`*.ef`) and edits it. `FileSharingHost` shares plain and encrypted folders
with other hosts on the network; its user types commands into
`FileSharingClient`, a console that talks to the host over shared memory.

| # | Component | State | Operations | Interacts with |
|---|---|---|---|---|
| A | Encrypted folder container (`FolderToSingleFileEncryption.*`, `FileFolder.h`) | on disk: header offset, blocks, master record; in memory: folder tree with `m_data` offsets, `m_freeSpace`, `m_curOffset`, `m_changed` | `EncryptFolder`, `OpenEncryptedFolder`, `Save`, `Close`, `AddNewFile`, `AddFileReplaceExists`, `AddFolder`, `RemoveFile`, `RemoveFolder`, `DecryptFile`, `Read` | the console commands with the suffix `-ef`; C and D open and read containers |
| B | Server and its threads (`Server.h`, `Server.cpp`) | client map by address, per-address `ServerThread` with `m_conns`, `m_incoming`, `m_trash`, `m_isLoop`; the server's trash queue; two kinds of lock | listen, `Add`, `_Loop`, `GarbageCollect`, `Stop`, `ForceStop`, the collector thread, `Close` | calls C once per connection and turn |
| C | Request handler and transfers (`FileSharingServer.cpp`, `Connection.cpp`, `FileSharingHost.cpp`) | per connection: request, response, bytes sent, `maxWait`, time-out; on the client: bytes received, idle count | `Launch` handler, `Transfer`, `EncryptedFileTransfer`, `FileTransfer`, `FastFileTransfer` | reads the folders of D, the stream of A |
| D | Shared folders, their locks and the saved session (`FileSharingServer.*`, `FileSharingServerTask.cpp`) | two folder tables, a lock and a ready flag for each | `AddFolder` (two kinds), `GetEncryptedFolder`, `GetNormalFolder`, `Save`, `LoadUserFile`, the `Execute` tasks | the host's user, remote requests through C |
| E | Host and console over shared memory (`WindowsFileMapping.h`, `FileSharingHost.cpp`, `FileSharingClient.cpp`) | two one-slot buffers whose first bytes are the handshake | `InitSend`, `InitRecv`, `LocalSend`, `LocalRecv`, `StartSend`, `EndSend`, prompts | all host commands |
| F | Discovery (`UDPConnection.*`, `FileSharingHost.cpp`, 580-670) | a socket with one destination address and one message; the list of hosts seen (`m_sharedServ`) | `Loop` of a scan, `Recv` in the loop of `Launch` | E, G |
| G | Host session commands (`FileSharingHostTask.cpp`) | current host, folder and directory (`m_suffix`, `m_curServ`, `m_root`, `m_isNormalFolder`, `m_fsaCurrentDir`), passwords received | `goto`, `access`, `cd`, `pull`, `close`, `leave`, `ask-pw`, `give-pw`, ... | C on the remote side, the tree below |
| T | Folder tree and path lookup (`FileFolder.h`, `CommonFuction.h`) | folders with parent, files and a path iterator that a traversal lends to subfolders | `GetFolder`, `GetFile`, `Traverse`, `Path`, `SaveStructure`, `LoadStructure` | A, C, D and G use it |
| H | Folder-to-folder encryption (`FileSystemProtectionAPI.*`) | on disk: the folder of copies and its master record; in a command: the file in hand, the names of the copies | `encrypt-folder`, `decrypt-folder` | the same console as A; T |
| I | Text, path, adapter helpers (`CommonFuction.h`, `File.h`, `AdapterInfo.h`) | none | splitting, joining, waiting for a lock | everything |

How they interact. The container (A) is a class that three programs use: the
single-folder console, the host when it shares a container (D) and its server
threads when a remote host reads one (C). The server (B) owns the threads; once
per turn and connection it calls the handler (C), which looks folders up in the
tables of D and answers. The host's main thread is also the client: a command
of G opens a connection to another host's server and waits for the answer, and a
pull runs the client half of C. Everything the user sees or types goes through
E; the end of a command is the end of E's response.

Threads of a host process: the main thread (D, E, G and the client half of C),
the listening thread, the collector thread and one detached thread per client
address (B and the server half of C). Discovery (F) has no thread: the main
thread answers datagrams between two commands and runs a scan as a command. The
console is a process of its own.

What is hard in this code:

- the server's threads are detached, and sleeps take the place of joins and of
  a lock on a thread's own lists (`Server.cpp`, 246-313, 403-470);
- a handler keeps its state between turns in three unions and in small integers
  with several meanings (`FileSharingServer.cpp`, 349-380, 639-842);
- both ends of a transfer rely on the other's block arithmetic, and on the
  server closing the connection, for their end;
- server threads read tables that the main thread changes, behind flags instead
  of locks, and an exception may leave a lock held (`FileSharingServer.cpp`,
  237-347);
- two processes hand messages over in shared memory with the first bytes of the
  message as the flag (`WindowsFileMapping.h`, `FileSharingHost.cpp`, 130-332);
- a session's commands set members that later commands believe, and cut paths
  by searching a text for a name (`FileSharingHostTask.cpp`, 640-980);
- a public folder has one path, which every traversal by whatever thread makes
  longer and shorter (`FileFolder.h`, 225-300);
- a discovery answer looks like a question and is answered
  (`FileSharingHost.cpp`, 590-625);
- a folder of copies may be encrypted into again, and the program may end
  anywhere in it; the record alone says which copies belong together
  (`FileSystemProtectionAPI.cpp`, 446-609);
- the container is edited in place with unsigned arithmetic on offsets, and its
  index reaches the file only when the user saves.

What makes each component correct, in a sentence:

- A: every file decrypts to what was added, no byte belongs to two blocks or to
  none, and closing, reopening or ending the process loses nothing;
- B: every accepted connection is served to its end by exactly one thread, and
  no object is freed under a thread or twice;
- C: a pull that reports success has the whole file, and both ends come to an
  end;
- D: no table changes under a request, no lock stays held, a folder in use stays
  shared, and a session opens as it was saved;
- E: the user sees what the host says, the host takes answers for what it asked,
  and every line comes back to the prompt;
- F: a scan finds the hosts that answer, and answering ends;
- G: host, folder and directory change together, and what is pulled is what the
  path in the command names;
- H: what is decrypted is what was encrypted, byte by byte, and nothing of a
  later run that did not come to its end;
- T: a tree is read as it was written, and a path leads to the file it is asked
  of, whoever else walks the tree.

## 2. Plan

The order is by what a defect costs: data first, then the host's availability,
then what the user is shown.

1. `FreeSpace`, `EncryptedFolder`, `RoomyFolder`, `FolderStore` (A). Done, proved.
2. `ServerThreads`, `PromptServer` (B). Done, safety proved.
3. `RequestHandler`, `FileTransfer` (C). Done, safety proved.
4. `LocalConnection` (E). Done, safety proved.
5. `SharedFolders` (D). Done, proved.
6. `FolderTree`, `HostSession`, `CarefulSession`, `SessionStages` (G, T). Done,
   proved.
7. `FolderInUse` (T with C and D): server threads in one public folder. Done,
   proved.
8. `Discovery` (F). Done, safety proved.
9. `FolderCopy` (H). Done, safety proved.

What is left, in this order: server threads that share an encrypted folder's
stream and the cipher context of the last password verified (a data race with
no defined outcome in the stream itself, so only the context can be modelled);
the block chain that the client decrypts after a protected pull
(`FileEncryption.h`), on top of `FileTransfer`; the passwords of `give-pw`.
Every safety property that a passing run checks is proved. A proof worth adding: the
refinement's converse for `CarefulSession` (every stage is some command).

The number of runs a project can afford is small, so a run that showed a
violation has made room for each new component; those violations are in section
7 with the specification and property under which TLC finds them.

## 3. Modules and the code

`PROJECT.json` gives the lines of every definition. Operators whose comment
begins with "Faulty" are changed forms of a definition near them,
used to test that a property notices; no action uses them.

### A. Container: `FreeSpace`, `EncryptedFolder`, `RoomyFolder`, `FolderStore`

`FreeSpace` is `m_freeSpace`, a map from offset to size, with the operators that
change it: `Take` (the entry `AddFile` cuts, with the size that wraps at `Limit`)
and `Release` (`Remove` with `Merge` on both sides). `EncryptedFolder` is the
class: `files` is the tree's `m_data` by path, `disk` the extents of the
container file, `header` the first eight bytes on the device and `pending` the
same bytes in the open stream. A block is its path, a serial number and a
length; writing destroys every extent it touches, so overwriting shows as a
block that is gone.

| Action | Code |
|---|---|
| `BeginEncrypt`, `EncryptNext`, `EndEncrypt` | `EncryptFolder`: header, a block per file, master record, header |
| `Open`, `CloseUnchanged`, `CloseDiscarding` | `OpenEncryptedFolder`, `Close` with and without the question of `SaveChanges` |
| `Save` | `Save`: record at `m_curOffset`, then the header, which stays in the stream's buffer |
| `AddNewFile`, `AddFileReplaceExists` | the functions of that name through `AddFile` |
| `AddFolder` then `AddNext` | the folder command: the tree at once, then a file at a time |
| `RemoveFile`, `RemoveFolder` then `RemoveNext`, `DeleteMissing` | delete of a file, a folder, and of a name that is not there |
| `ReadFile` | `DecryptFile` and `Read`, which flush the stream |
| `Kill`, `KillInSave`, `KillInEncrypt` | the end of the process; `quit -ef` with the question answered n is such an end (`Console.cpp`, 438) |

`Spec` lets the user do anything. `RoomySpec` restricts the user, never the
program: room in the first hole, no replacing, flat and new folders, saving
before leaving. `TightSpec`, `ReplacingSpec` and their neighbours drop one
restriction each. Not in the model: chains of more than one block when garbage
is read as a next-block offset in `Remove`; a source that can be read and does
not fit the device; the verification of the key, so opening with a wrong
password is not a state of A (it is one of D).

`FolderStore` is what the container promises, a map from paths to contents
changed one path at a time and kept by closing and reopening. `Abstract` in
`RoomyFolder` maps to it: the content of a path is what the bytes at its offset
decrypt to, taken from memory when the container is open and from the master
record when it is closed.

### B. Server: `ServerThreads`, `PromptServer`

`ServerThreads` has the state, the actions and nothing else; `PromptServer` puts
the three kinds of thread together, in every interleaving (`Spec`) and as the
sleeps intend (`PromptSpec`), and has the properties.

| Actions | Code |
|---|---|
| `Accept`, `RefuseHandshake`, `HandOver`, `NotFound`, `CreateServer` | the listening loop and `Add` |
| `Test`, `Turn`, `TurnThrows`, `Sweep`, `Drain`, `StopServer` | a thread's `_Loop`: its test, one call of the handler for each connection, `GarbageCollect`, `m_incoming`, `Stop` |
| `ForceStop`, `ForceStopped` | what a handler that throws leads to |
| `Collect` ... `CollectEnd` | the collector thread: delete or restart for each address on the queue |

The critical sections of `m_incomingLock` are single steps; `m_lock` is a
variable because the collector and `ForceStop` hold it over several. Reads of a
container without a lock (`Add` of `m_conns`, the collector of
`m_trash.empty()`) are atomic here, for a torn one has no defined outcome.
An exception in the listening thread itself would end the process and is left
out.

### C. Transfer: `RequestHandler`, `FileTransfer`

`RequestHandler` is one connection's handler. A turn has three phases (`pc`):
read, answer, clock; `maxWait`, `sendBytes`, `response` and the unions `var1`
to `var3` are the members of `ClientResource`. `FileTransfer` adds the network,
which may lose the connection at any time, and the client's function:
`FirstRecord`, `FirstNothing`, `ReceiveBlock`, `ReceiveWhole`, `ReceiveLast`,
`FastEnd` for `FastFileTransfer`, `ReceiveSlow`, `SlowEnd` for `FileTransfer`,
and `Request...` for `Request`.

What is abstracted: a byte is its position in the file, a header is one unit
that carries the size; `SSL_write` writes all or nothing (its default mode) and
`SSL_read` some of what is there; the branch that reads one byte at a time on an
error is part of `ReadFails`; the file does not change while it is sent. A file
that is there may not open, on either side, and neither side looks: on the
server (`opens`, `OpenedStream`, `Read`) the stream gives nothing and the
handler's buffer goes out as it is, on the client (`stores`) nothing is written.
The task "sto" sets the time-out from the request (`ParseStore`), to a number of
milliseconds or to none; no function of the host sends it, so it comes from
another client, by `Request`'s way of asking. A is decrypted by the client after the pull and not here. The code
after `maxWait == 0` at `FileSharingServer.cpp`, 678, does nothing. The header
can be missed by the client when it finds the socket readable without a record:
it then goes by `total = 1` (`FirstNothing`). A reset instead of an orderly
close is `Break`.

### D. Shared folders: `SharedFolders`

`main` is where the main thread is in `AddFolder`, `Save` or between commands;
`ready`, `lock` and `table` are the flags, mutexes and maps by kind. A request
is the list of flags and tables its code looks at (`Steps`), consumed one by
one; after `Find` it holds a pointer until `Finish`. `Throws` tells the three
types an exception can have from each other because `AddFolder` catches one:
a release build throws the program's own errors as plain literals, of which
"File must be a structure file." is a narrow one. `EndProcess` clears
everything but the session file. A request that found its folder only holds it
here; what a traversal does to a public folder is `FolderInUse`.

### E. Host and console: `LocalConnection`

`toClient` and `toHost` are the two mapped buffers. Each wait loop of the code
is a step whose guard is the loop's condition, and each store another process
could see is a step: the first word, the second word and the text of a prompt
are written by `HostAnnounces`, `HostSaysWhat` and `HostWritesText`. A word is a
pair of bytes because `IsReadyToSend` and its relatives look at one byte in
some places and two in others. A command is the sequence of calls it makes
(`CallsOf`) and the parts of its response (`Replies`).

The last part of a response may begin with U+2500, of which `scan`, `show` and trees
draw their lines, and which has a low byte of zero. `EndSend` looks at this byte
(`IsTaken`), takes such a part for received as soon as it is written, and takes the end
mark down: the console leaves its loop without the part, and the part stays in the
buffer, where the next response finds it and is dropped (651). `cut` is a history
variable, the line at which this happened first (`CutsShort`). `RepliesAreShown` says of
that line that all but the last part is shown and the last is in the buffer; it and the
other properties but `TransferIsFollowed` are stated up to the next line (`Uncut`),
for from then on the host and the console are out of step and nothing of them is
promised (section 7).

Not in it: an exception
between `StartClientTrack` and `EndClientTrack`; the first word of `StartSend`
and `EndSend` is one flag, which is exact; lines that the console handles alone
touch nothing shared; the UDP part of `Launch`'s loop belongs to F.

### G. Host session: `FolderTree`, `HostSession`, `CarefulSession`, `SessionStages`

`FolderTree` is `GetFolder`, `GetFile`, `CombinePath` and the search for a name
in a path. A path is the sequence of what stands between its backslashes: names,
and an empty one (`Nothing`) after a backslash at its end. Such a backslash matters:
`CombinePath` leaves it when nothing follows a "..\", `cd` then takes it off (902), and
`pull` does not (864-866), so that `PullFolder` (741) cuts its prefix behind the
folder's name and not in front of it. But one backslash at the end of a parameter of
`pull` never gets that far: `ExtractParams` (`CommonFuction.h`, 279-282; `Param`) has
taken it off. So `pull ..\ to` asks for "..", which `CombinePath` appends as a name
(there is no such folder, nothing is fetched), and `pull a\ to` is `pull a to`; it takes
two backslashes, `pull a\\ to` or `pull ..\\ to`, to ask for the doubled folder
(`Prefix`). All of these are typed in `CarefulSession.cfg`. Where the
code searches a text with `find`, it may meet a name inside a longer one:
`RestOf` says for which pairs of names this happens and what is left of the
longer one, which is all the search can tell of the letters.

| Action of `HostSession` | Code (`FileSharingHostTask.cpp`) |
|---|---|
| `ChangeDirectory`, `Goto`, `Leave`, `Quit` | `cd` outside, `goto`, `leave` with its two questions, `quit` |
| `AccessFolder`, `AccessNone`, `AccessNoTree` | `access` with a tree, with no folder or a wrong password, and with an answer that is no tree |
| `AskPassword`, `Close` | `ask-pw`, `close` |
| `Cd` | `cd` inside: the console goes first (`ConsoleGoes`), then the host's branches |
| `PullPath`, `PullAll` | `pull` with and without a path: `PulledFile`, `PulledFolder`, and what the other host finds for each path (`Serve`) |

`shown` is the directory in the console's prompt; `saved` is a history of the
last pull: what the user meant (`from`), where it is put (`at`), what came
(`got`). The other host answers from `TreeOf` at once; its tables and the
transfer are D and C. `HostSession.Spec` is any user; `CarefulSpec` is one who
keeps to what the comment of `CarefulSession` lists, each item of which keeps
clear of one observation of section 7. `SessionStages` is what such a user is
promised: outside, at a host, in a folder of it, at a place in it, and what he
fetches is a file of the folder he is in or the files of one of its folders.
The mapping drops suffix, kind, texts and the console.

### T. A folder that is traversed: `FolderInUse`

A traversal is a stack of calls (`stack`); `Descend` and `Ascend` are the two
halves of a call of `Traverse`: lend the pointer and add the name, then cut the
path to the length it had and take the pointer back. `hooked` are the folders whose
`m_iteratorPath` points to the root's; the pointer is only ever null or that
one. A length is counted in names; `Resize` fills up with `Nul`, as
`wstring::resize` does. `wrote` is what `SaveStructure` has written, and
`LoadStructure` reads it with the stack of the code. `Pull` and `Save` ask for a
path (`Path`) between a thread's traversals or while others are in one. Two
steps are atomic that the code does not make so: a change of the string and one
of the pointer; the torn string has no defined outcome.

### F. Discovery: `Discovery`

`pc` is where a host's main thread is: in `Launch`'s loop, where it answers
(`Answer`), or in `Loop` of a scan, which sends (`Ask`, or `AskLater` when the
socket cannot) and then reads what is there (`Hear`, `Drained`) 10 times. `dest`
is `m_destAddr`, `info` the one message of the socket. `net` is a set: a
datagram is lost or late, never doubled, and `ask`, a history field, tells the
question and the receiver it descends from. `Launch` and `Stop` start and end a
host's process; a started host may have another name and port. A host's own
broadcast reaches itself, and it answers itself.

### H. A folder of copies: `FolderCopy`

| Action | Code (`FileSystemProtectionAPI.cpp`) |
|---|---|
| `EncryptFolder` | `EncryptFolderTask` up to the traversal |
| `Copy`, `Encrypt` | one file of the traversal: `EncryptFile` up to the vector, and each cycle of it, the only one or one block |
| `OpenRecord`, `CloseRecord` | opening the record, which empties it, and writing and closing it |
| `DecryptFolder` | `OpenEncryptedFolder` and the making of the folders |
| `Restore`, `Decrypt`, `DecryptEnds` | one file: `DecryptFile` up to the vector, its cycles; the end |
| `Edit`, `End` | the user changes a file; the program ends, at any step |

The files are numbered in the order of the traversal, which writing and reading the
record keep (`TreesArriveWhole` of `FolderInUse`). A copy's name, an enciphered time
in the code, is its number; its vector is the same number. A byte is named
by its file, the file's version and its place, and an enciphered byte tells with what
password, vector and place in the stream it was made; deciphered with others it
is garbage (`Decipher`). `record.unread` and `record.of` are history: which
files could not be opened, and what the folder was. A record that was not
written to its end is read as a beginning of it.

## 4. Runs

Run one with `tlc -workers 2 -config X.cfg M`, where `M` is the module of the run
in `PROJECT.json`.

| Run | Shows |
|---|---|
| `RoomyFolder` | In the regime: every file reads back, free space is free and never lost, the record hits no block, an unchanged container is a saved one, a closed one is whole, and every step is a step of `FolderStore`. |
| `AnyFolder` | Whatever the user does: only a step that writes a block, or an end of the process, costs the record. |
| `PromptServer` | Threads, objects and connections in the schedules the sleeps intend: safety, and that every connection ends and the map empties. |
| `AnySchedule` | In every schedule a connection handed over to a thread that is stopping is still tended by someone. |
| `FileTransfer` | All requests at all interesting sizes over a network that may break. |
| `Console` | Two lines with all kinds of prompts, transfers and displays. |
| `SharedFolders` | Sharing, requests, saving and loading in the calm regime. |
| `CarefulSession` | A careful user's commands keep the session's members in agreement, save what they name, and implement `SessionStages`. |
| `PulledSubfolder` (violation) | A folder inside a public folder is pulled without its files. |
| `FolderInUse` | Traversals one after the other leave the path as it was, whoever asks afterwards is told right, and a tree is read whole even when they overlap. |
| `Discovery` | Two hosts that scan, end and start anew: answers do not multiply, lists are recent, scans end. |
| `FolderCopy` | Folders are encrypted, in part or whole, changed and decrypted: what is restored is what the record was written for, and commands end. |

### Bounds and why they are enough

- **Container.** `Limit = 1000` stands for 2^64 and `DiskSize = 60` for the device:
  far apart, as in reality, so that a size wraps only when the code subtracts too
  much. Two file sizes, 1 and 6, with an overhead of 4: a freed large block
  takes a small one and leaves a usable rest, a freed small one is too tight.
  Four commands that store files give three neighbours to delete in any order
  with one more file above them, which is every case of the two-sided merge. Two
  folders of two names suffice in the regime, where folders are flat; `AnyFolder`
  has three levels and two commands. What new `File` objects hold is `{0}` in
  the regime and `{0, 4}` in `AnyFolder`.
- **Server.** A connection's thread, the listening thread and the collector meet
  on one address; two connections from it give the case of one handed over while
  the other ends, a third (in `AnySchedule`) one more restart, and another
  address gives the trash queue two entries. `Servs` and `Threads` are as many as
  those connections can make live, counting those not yet freed; symmetry is
  used in `AnySchedule` only, which has no liveness property.
- **Transfer.** A plain file opens at both ends, or at one only; a "sto" asks for some
  time-out or for none. `Block = 3` and `Thres = 6` keep the ratio of 64 and 128 MiB. The sizes
  are 0, 1, one block, the threshold, one above, and multiples of the block and
  their neighbours. `MaxWaitLoop` and `MaxPolls` are 3: the first, a middle and
  the last turn. `Capacity = 1` lets a socket be unwritable with something under
  way. `MaxContent = 8` is above the size of every protected file here, so only
  the endless headers of a large one are cut.
- **Console.** What is left in a buffer by one line is met by the next, so two
  lines; with three (`MaxCommands = 3`, 4 185 907 states, three minutes) TLC finds no
  error either. Responses have one part or several, and the last is
  letters, the terminating zero alone, or a line of U+2500. `Blocks = 1`: the only text the host displays is one short message.
- **Shared folders.** Two containers compete for one name and a folder has it in the
  other table. One server thread: threads write neither each other's state nor
  what the main thread reads, and every property speaks of one of them.
- **Session.** Two hosts, four folders: a public and a protected one of one name at one
  host, that name again at the other, and one folder whose subfolders are named
  like it or have a dot. One of the two local directories has a folder's name
  within a name of it. Trees have three levels and a file of one name in each,
  so that a file taken for another shows. What is typed goes up at most two
  names and down at most two, and ends in no backslash, in one or in two; "..\"
  and ".." are among it. `PulledSubfolder` has one host, one public folder and names of
  which none is in another, so that nothing but the missing prefix can mislead.
- **Folder in use.** Two threads and three accesses: two that overlap and one
  after them, which meets the path they left. The tree has a folder with a folder
  and one after it, so that a path not cut shows in the next; a file and a folder
  share a name. With no overlap one thread's steps are all there is to see.
- **Discovery.** Two hosts; three starts, so that one is started anew with another name;
  two questions a scan, the last one and one before it; two scans, by one host
  or one by each; three datagrams in flight. The proofs have no such bound.
- **Folder of copies.** `Thres = 4` and `Block = 2`: sizes 0, 3, 4 and 5 are nothing, below
  the threshold, at it and of whole blocks, and above it with a rest. Four copies of
  two files are two runs of `encrypt-folder`, of which each may end anywhere;
  one change between them. In the code the threshold is no multiple of the
  block; the proof is for any.

### Regimes

- `RoomySpec` (container): each restriction is one the code needs; the
  specifications after it in `RoomyFolder` drop one each; `AnyFolder` drops
  all.
- `PromptSpec` (server): a thread that put its address on the queue has left its
  loop before the collector, which sleeps 16 ms, comes to it; and a handler does
  not throw in a pass that has closed a connection. Without the first a
  ServerThread can have two threads and be freed under one; without the second
  a connection is deleted twice.
- `calm` (console): a history variable that is true as long as a process ran
  alone from one of its sleeps to the next. It guards what the user sees, and that
  the greeting comes first; not the rest of `CommandsInTurn` and not
  `TransferIsFollowed`, which hold in every interleaving.
- `Uncut` (console): up to the line typed after the first response that is cut short
  by its own last part. The proofs have this regime in the properties, not as a
  hypothesis about responses.
- `CalmSpec` (shared folders): opening a container takes longer than a lookup
  that was under way when the flag went down, and containers open with the
  password given. `FairSpec` drops both.
- `CarefulSpec` (session): the user keeps to the list in `CarefulSession` and
  the hosts answer. `Spec` is any user; `PulledSubfolder` is under it.
- `overlapped` (folder in use): a history variable, set for good when a traversal
  begins during another. `PathComesHome` and `PathsAreRight` hold up to then,
  which is what the comment at `FileSharingServer.h`, 50-51, relies on; nothing in the
  code keeps two threads apart. `TreesArriveWhole` holds always.

### Fairness

Safety properties assume none. `PromptServer`: threads and collector go on, the
listening thread finishes what it accepted, and a connection's handler closes it
some time, which is what `EveryConnectionIsClosed` of `FileTransfer` shows;
clients owe nothing. `FileTransfer`: the handler is called turn after turn and
the client's loop runs; a socket that is looked at again and again is writable
some time, a write to a lost connection fails some time, the clock passes the
time-out; the network owes nothing. `Console`: both processes run and the user
answers what is asked but need not type another line. `SharedFolders`: the
share that was begun goes on unless it waits for a lock, and lookups end; users'
commands and ends of the process are not fair.
`FairSpec` is fair to the share alone, so that what stops is the lock and nothing
else. `Discovery`: a scan that sends has its socket writable again and again, so
`SF` of `Ask`, which `AskLater` interrupts; and finds its queue empty some
time, so `WF` of `Drained`: a host sleeps 32 ms between two datagrams and
reads without a sleep. Nothing is assumed of the network, of answers, of users.
`FolderCopy`: the program goes on; the user and the end of the program are not fair.
`CarefulSession` and `FolderInUse` state no liveness: every command is one step
there.

`EveryPullReturns` and `EveryConnectionIsClosed` exclude two requests
(`ComesToAnEnd`): a protected file above the threshold, for which the code has
no branch, answers with one header after another and never ends; and a "sto"
that asks for no time-out, which has no answer and then nothing that would close
its connection.

### Properties

Every property of a passing run has at least one faulty form of a definition,
beside the definition, under which TLC finds it violated; `PROJECT.json` lists
them under `mutants`.

## 5. Proofs

`RoomyFolderProofs`, `PromptServerProofs`, `FileTransferProofs`,
`LocalConnectionProofs`, `SharedFoldersProofs`, `CarefulSessionProofs`,
`DiscoveryProofs` and `FileSystemProtectionProofs` (`FolderInUse` and `FolderCopy`),
checked by `tlapm`; the assumptions are the named ones on the constants, which TLC
also evaluates. The theorems that have a hypothesis besides are named below.

**Container.** `RoomySpec` keeps `Inductive`, for every tree, set of sizes, word
width and device below it. `FilesReadBack` is not inductive by itself, for a
write may destroy a block; it needs that the hole a block goes into overlaps no
other block (`SoundSpace`) and that the record's offset is above all of them.
That in turn has to survive `Release`, so the free list must be apart from
itself, end beyond the device and leave no gap (`Seamless`): a freed block takes
two starts away at most, its own and that of the entry behind it, and nothing
else can have ended there without an overlap. A closed container has to open, so
`SoundRecord` states of the record on disk what `SoundOpen` states of memory.
Its first part proves once what `Take` and `Release` do to a list that is
disjoint and apart (`TakeShortensFirst`, `ReleaseJoinsNeighbours`); the second
lifts it to blocks (`StoreKeepsSound`,
`DiscardKeepsSound`), then to commands, one lemma each, then to
`InductiveStep`. From `RegimeIsSound` follow `TypesAreKept`,
`FilesAlwaysReadBack`, `FreeSpaceIsAlwaysFree`, `NoSpaceEverLeaks`,
`HolesAreAlwaysApart`, `RecordIsAlwaysClear`, `CleanAlwaysMeansSaved`,
`ClosedContainerIsAlwaysWhole`. The refinement `RegimeImplementsStore` rests on
them: in every phase the user sees what was promised (`VisibleIsPromised`), what
was promised is among what can be added (`ContentsAreGiven`), and there is one
lemma each for the steps that store, delete, prepare and change the phase
(`StoringMaps`, `DeletingMaps`, `PreparingStutters`, `PhasesMap`).
`OnlyAddsCostTheContainer` is about `Spec`, the user who does anything.

**Server.** `PromptSpec` keeps `SoundServer`, for any clients, addresses, objects
and threads. `OneThreadPerServer` needs to know that an object whose address is
on the queue has no thread but one about to leave, which `PromptSpec` lets the
collector not meet (`SoundQueue`); that an address is on the queue once; and
that the map and the live objects are each other's inverse (`SoundMap`).
`DeletedOnce` needs every connection to be in one list at most
(`SoundConnections`). There is a lemma for each action; from `ServerIsSound`
follow `ServerIsTyped`, `OneThread`, `ThreadsEndInTime`, `OnlyEmptyOnesGo` and
`DeletesOnce`.

`NoConnectionIsForgotten` is about `Spec`, where a ServerThread may have two
threads and be freed under one. Even then a live one that was told to stop is on
the queue, or has a thread that will put it there or delete it (`StopsAreTold`),
and a connection is in the lists of one live ServerThread (`ListsAreOwn`) from the
moment the listening thread lets go of it (`HeldIsNew`) until it is deleted
(`NoneIsLost`): these and the two about the map and the lock are `AnyServer`, which
every action keeps. The theorem has one hypothesis, `[]PortsAreFree`: a client uses a
port again only when the host has deleted the connection that had it. The code
needs it, for `Add` refuses a port that is still in `m_conns` and its caller does not
look, and `Drain` forgets one of two connections with one port; no client of this
program picks its port, so this is a promise of the client's system, not of the code.
The hypothesis is used in two places, `AddLists` and `DrainTakesAll`. The ports of
`AnySchedule` all differ, so it holds there.

**Transfer.** For any sizes of the file, of a block, of the threshold, of a
socket's buffer and of the parts a request arrives in; of requests only what
`PullFile` does with them is assumed (`FileTransferAssumption`: a plain file is
pulled by `FastFileTransfer`, a protected one by `FileTransfer`). `Inductive` has
one clause for each reason a pull can be trusted. `Members` says which member of
each union is live in which `maxWait`; `SendsBlocks` and `SendsWhole` say how far
the stream is ahead of what was sent, which is the block in `response`;
`Underway` that content, buffer and wire hold, one after the other, exactly what
was sent, behind the header as long as it is not received; `OnlyHeaders` that
an empty file, or a large protected one, is never closed while the connection is
up, so that `FastEnd` and `SlowEnd` (`Told`) find all of a file sent. Then there is
one lemma for each action of the handler, the network and the client;
`UnderwayGrows` and `ReceiveKeeps` are the facts about what they do to the
wire. What was sent is what the stream gave: `PullsAreWhole` says that it arrives
whole and in order, which is the file only if both ends could open theirs; no
theorem says that a pull that returns true has the file, for that is not so
(section 7). `OnlyForAReason` and `UnionsAreSound` follow like it.

**Host and console.** For any commands, any calls they make of the console, any
responses and any number of lines; a command is named apart from the other
data (`LocalConnectionAssumption`), as the host tells "cd" and "quit" from the
rest. No lock protects the two buffers, so the invariants say for each place of
one process where the other may be and what the buffers hold. `TransferIsFollowed`
needs `Followed` only: the console's word that it follows is up only while it is
in the loop, the host begins a transfer only when it sees that word, and the
console leaves the loop only when the host has taken its mark down. `CommandsInTurn` needs all of `Sound`: until the greeting is there
nothing is in hand (`Opening`), and from then on (`Greeted`) the line of the console
is the line of the host (`ClientInTurn`), what the host is to read has been sent and
no more (`HostInTurn`), a question in the buffer has no answer yet (`AskedInTurn`)
and both are in the loop of a transfer together (`TrackedInTurn`). Both hold in
every interleaving. The rest holds while no process is interrupted between two sleeps
(`calm`), as the properties themselves say: the host gets the greeting, which is part of
`Answered` and, after a response that is cut short, of `CutInTurn`; `Answered` counts questions and
answers alike, `Worded` and `Displayed` say that what has been said is what has been
shown and what the buffer holds now, `DirShown` the same of the directory. There
is one lemma for the steps of each process per invariant, with a case for each
action. `RepliesAreAllShown` has the hypothesis `Blocks = 1` (`BlocksCounted` turns it
into what the steps need, `OneBlock`): a second block may be lost (section 7), and
the code's one caller has none.

A response may end in any part, also in one that `EndSend` takes for received before
it is (`CutsShort`). The invariants are therefore said of the lines up to the first
such response, its own included: `JustCut` and `CutInTurn` say where the two
processes are from the moment the end mark goes down too early, until a line is typed,
and `Kept` that the last part is in the buffer all that time; `CutShown` and `CutOver`
are what the user has seen then and who goes on. `EndIsCut` and `ClientIsCut` are the
two steps into and through this state, and `NoneIsCut` gives back the plain invariants
where it has not come about. `TransfersAreFollowed`, `LinesAreTakenInTurn` and
`AnswersAlwaysFit` have no hypothesis.

`SomeoneAlwaysGoesOn` is what of `EveryLineReturns` is safety: host and console never
wait for each other, but at the prompt, after `quit` and for an empty answer.
`HostWaits` and `ClientWaits` list where each is stuck; TLC finds them true exactly where
no step of `HostSteps` or `ClientSteps` is enabled, which the prover cannot say.
`Awaited` names what keeps the other going at each of these places: a question
that was taken and left is answered (`AnswerDue`), the console has the mark of a transfer
before it or is in the loop (`TrackDue`), a loop that shows a text is left before
anything else is asked (`TextDue`), a line that was sent hears something before the end mark
goes down (`LineDue`). Any number of blocks will do here. It has the hypothesis `DisplayIsFollowed`: after a displayed text a command asks for something or
begins a transfer. It is so in `Console.cfg` and at the code's one caller, and TLC
finds both waiting without it (section 7).

**Shared folders.** For any folders, names and number of server threads. `Spec`
keeps `Sound`, in three parts: the flags, the locks, the tables and what is left of a
request have their forms (`Formed`); the main thread releases a lock only where
it holds it, whichever way it leaves (`LocksHeld`); and what was kept of the tables
when the session was saved is what the file says (`SessionKept`). From it
follow `FoldersAreTyped`, `NeverUnlocksTwice` and `SessionsOpenAsSaved`. In the
calm regime `Calm` adds which flags are down where (`FlagsFit`) and what a flag that
is down has stopped (`FlagStops`): a request that was under way when it went down
is in `early` until it is done, and any other has not passed it (`Fresh`), so it has
its look still before it. `Rests` lists what can be left of each task's steps;
`RequestsBegin` and `RequestsGoOn` are the facts about them. `TablesAreReadAlone`
and `AlwaysServedAgain` follow.
What of `ShareReturns` is safety needs a third invariant, `HeldInShare`: a lock is held
only in the share that took it. Every way out of a share keeps it but that of a container
that does not open (line 262), and that is no way out for a public folder. So a public
folder never waits for a lock that nobody will release, whatever the user does
(`NoPublicShareWaitsInVain`), and a protected one does not in the calm regime
(`NoShareWaitsInVain`). Outside the regime TLC finds a protected one waiting in
vain (section 7, `ShareReturns`).

**Session.** `CarefulSpec` keeps `SessionAgrees`, which is inductive; for any
hosts, trees, names and any relation of names in names. The work is in the
paths: `FoundWhereItStands` (the search finds a name at the place it was put at
if nothing in front has it), `FileAsItIs` and `ServesTheFile` (a path made of the
folder's name and a way in it is found by the other host, twice named or not),
`FileOfPulledFolder`, `UpKeepsWithin` and `DownKeepsWithin` (`cd` leads from
folder to folder). From it `SavedAsNamed`, and then the refinement: initial
states map to initial states (`CommandsAreStages`) and every command to a stage
or a stutter (`StageStep`), with `PullKeepsPromise` for the commands that fetch.

**Folder in use.** For any tree and any number of threads and accesses. While no two
have overlapped (`Apart`): at most one thread is in a traversal, the calls on its
stack are the folders down to where it is, each of which remembers the length of
the path at its depth, the path is the folder's own with those names, and the
folders below the root that have it are exactly those. `Ascend` then cuts the
path to what it was before `Descend`. `PathsAreRight` is kept beside it.

`TreesAlwaysArrive` needs no such condition: whatever becomes of the path, the calls
of a thread are its own (`CallsOK`). What a reader has after the lines written so far
is the part of the tree that the thread has been to, and where the reader stands is
the thread's own place (`Arrived`, with `Grown` for what has been visited and
`ReadSoFar` for what it reads as); a line more is one call of `Parse` or one
`pop_back` (`ArrivingOn`). The reading is a recursive function over
the lines, of which the prover knows only what its equation says, so `Arrived` is
said of every function with that equation (`Loads`) and of one that has it, and
grows by one line with the step that writes it: the induction is over the behaviour.
At the end nothing is missing, since a missing folder of the least depth would have
its parent, whose subfolders have all been visited (`AllGrown`).
That takes of the tree that every folder but the root is one of its parent's, once
(`FolderInUseAssumption`), as names in a directory are.

**Discovery.** For any hosts and any bounds: types, where the scan's loop stands
(`Scanning`), questions are numbered up to `asked` (`Numbered`), whoever can still
be heard is in `recent` (`Audible`), and the two properties. `TypeOK` has in it
that the destination is the broadcast address between steps, without which an
answer would go to everyone and `AnswersDoNotMultiply` would not be inductive.

**Folder of copies.** `CopySpec`, for any number of files of any sizes, any threshold, block,
passwords and number of runs. `RestoredAsCopied` needs that a record, from the moment it
is opened, names copies that are whole (`RecordHolds`), and that no later step
writes into one of them: a copy in hand is the last of the folder, and its name
in no record (`InCopy`). A copy in hand is as long as what has been read of the file
and is the beginning of the file enciphered; `PiecesJoin` says what a cycle adds
to it, `Cycle` that the last one takes the rest. `RestoringHolds` and
`InRestore` say the same of decrypting, where `ComesBack` undoes the cipher. One lemma
for each action; `RecordsNameWholeCopies` and `RestoresAsCopied` follow. `CommandsWearOff`
is what of `EveryCommandEnds` is safety: each step of the program leaves fewer stages
before the command (`StagesLeft`), or as many and less of the file in hand
(`BytesLeft`), and none are left exactly when the program waits for the user. It rests
on a cycle that is not the last one taking a block (`CycleTakes`); that a step can be
taken, and is, stays with TLC.

**Only model-checked.** The liveness properties: liveness under fairness and
ENABLED are beyond the prover. Of three of them the part that is safety is proved
(`SomeoneAlwaysGoesOn`, `CommandsWearOff`, `NoShareWaitsInVain`). Proved and in no run:
`HolesAreApart`, `PathsAreRight`, `RecordHolds`, `SomeoneGoesOn`,
`Counting`, `Nearer`, `NeverWaitsInVain` and the type invariants of `RoomyFolder`,
`PromptServer`, `SharedFolders` and `Discovery`, which are parts of the
inductive invariants.

## 6. Not modelled, and why

- The other half of `FileEncryption.h` (`DecryptFile` of a chain of blocks,
  `TempFile`), which the client uses after a protected pull.
- Of `FileSystemProtectionAPI.cpp`: `EncryptFile` of two streams, `DecryptFile` with a
  size, and the functions named `...ToFile` and `...FromFile`, which the header
  marks "removed" (66) and nobody calls.
- I, text, path and adapter helpers, but for those in `FolderTree` and the lock
  helpers. The loop in which a host learns its own address by a datagram to
  itself (`FileSharingServer.cpp`, 21-49) runs before anything else does.
- `give-pw`, `show-pw` and the requests behind them (`PasswordRequest`,
  `PasswordResponse`, `GivePassword`): lists of texts that no other command reads;
  what was met in them is in section 7. `show`, `info`, `test`, `send` change no
  member.
- Two server threads in one encrypted folder: its one file stream is sought and read
  by both, which is a data race without a defined outcome.
- Datagrams that arrive twice; a router may do it, but two hosts of one network,
  which is all a broadcast reaches, see none.
- Cryptography: a cipher is the identity up to its length; a password is right or
  wrong.
- Vendored libraries, the build, the user interface's text.

## 7. Findings

One has a run (`findings` in `PROJECT.json`): `PulledSubfolder`. Its trace is `Goto`,
`AccessFolder` of a public folder, and `PullPath` of the folder "a" in it: `PullFolder` cuts
the path to ask for from the local one where "a" first occurs, and the line that would
put the way from the shared folder in front is commented out for public folders
(`FileSharingHostTask.cpp`, 758-760), so the other host is asked for `a\f`, looks for
a shared folder "a" and finds none. TLC finds these, too, when the named specification and
property take the place of those in the named configuration:

| Configuration | Specification, property | What the code does | What the source says |
|---|---|---|---|
| `RoomyFolder.cfg` | `TightSpec`, `FreeSpaceIsFree` | A block as long as the first hole, or longer, makes the hole's size wrap (`FolderToSingleFileEncryption.cpp`, 710). | nothing; blocks are lost |
| `RoomyFolder.cfg` | `ReplacingSpec`, `FilesReadBack` | Replacing a file frees its block and stores the new bytes in the first hole, but `m_data` is only set when it is 0 and keeps the old offset: the file decrypts to something else (`FolderToSingleFileEncryption.cpp`, 708). | `FolderToSingleFileEncryption.h`, 129: "//replace if file exists." |
| `FileTransfer.cfg` | `FairSpec`, `TrueMeansPulled` | A pull whose connection closes before the header returns true (`FileSharingHost.cpp`, 574). So does one of a file that the server cannot open: the stream at `FileSharingServer.cpp`, 579, is never looked at, the header says OK, and as many bytes follow as the file has, none of them its own. So does one whose own file the client cannot open (502). | `FileSharingHost.h`, 98: "//return true on success" |
| `SharedFolders.cfg` | `FairSpec`, `ShareReturns` | A share with a wrong password throws what nobody here catches, with the lock held: the next share waits for ever (`FileSharingServer.cpp`, 240 and 262). | `FileFolder.h`, 461: "File must be a structure file." is for the user to see |
| `SharedFolders.cfg` | `CalmSpec`, `PublicTableReadAlone` | `GetNormalFolder` looks at `m_efReady`: a public folder's table is read while it changes (`FileSharingServer.cpp`, 333). | `FileSharingServer.h`, 47 |

The others were met while modelling. Where only a specification and a property are
named, TLC finds the violation with the constants of `RoomyFolder.cfg`.

Container

- Declining to save after a delete leaves the saved record pointing at blocks
  that may have been reused (`DiscardingSpec`, `ClosedContainerIsWhole`).
- Deleting or adding a folder without files leaves `m_changed` false: the change is
  lost without a question (`FoldersSpec`, `CleanMeansSaved`). Adding a nested
  folder stores its top files again and again and never ends.
- Deleting a name that does not exist reads a null folder (`MistypingSpec`,
  `ClosedContainerIsWhole`: what was not saved is gone).
- `m_data` of a new `File` is not initialised and decides whether the offset is
  recorded (`DirtySpec` with `FreshData = {0, 4}`, `FilesReadBack`).
- After a save the header is still in the stream's buffer: a process that ends
  then leaves the old header (`UnflushedSpec`, `ClosedContainerIsWhole`).

Server and transfer

- `Add` refuses a connection whose port is still in `m_conns` of a connection that is
  ending; the refused one is in no list.
- A handler that throws makes its thread delete every connection of the address
  without releasing their sockets and resources.
- A request whose answer met an unwritable socket once is not answered any more
  (`FileSharingServer.cpp`, 822); only the time-out ends it.
- An empty file is opened again in every turn.
- A large protected file is answered with headers without end.
- A "sto" may set the time-out to any number of 64 bits (`FileSharingServer.cpp`, 703-711),
  `ULLONG_MAX` among them, and has no answer: such a connection is never closed
  while its client stays (`FileTransfer.cfg`, `FairSpec`, `EveryConnectionIsClosed` with
  the second part of `ComesToAnEnd` dropped).

Console

- If the last part of a response begins with U+2500, whose low byte is zero,
  `EndSend` (`WindowsFileMapping.h`, 152) takes the buffer for empty: the console leaves
  without the part, which is shown with the next line in place of that line's own
  response (`FileSharingHost.cpp`, 651). `scan`, `show` and trees draw lines of it. In
  `Console.cfg` with `Uncut` dropped TLC finds `CommandsInTurn` and `RepliesAreShown`
  violated, and with three lines `AnswersFit` and `EveryLineReturns` as well: a line may
  be taken for the answer to a question, and a console wait for good.
- A host that looks between the console's clearing of the greeting and its own
  takes the greeting for a command, and every response is one line late.
- An empty password or answer is no message: both processes wait for each other.
- A prompt torn between its words leaves both waiting, or shows an older text.
- A text of `ClientDisplay` that takes several blocks may lose its last one, which the
  host does not wait for, though the console may still sleep since the block
  before (`Console.cfg` with `Blocks = 2`, `RepliesAreShown`); the one caller's text is
  short (`FileSharingHostTask.cpp`, 221).
- A command that displayed a text and then asked for nothing would leave both waiting:
  the response meets the text's mark in the buffer and is dropped (651), and the
  console shows texts for good. So would two texts in a row, when the first has
  several blocks: the console is in its loop and never takes the second's mark. No
  command does either (`Console.cfg` with such calls, `SomeoneGoesOn`).

Shared folders

- Declining one protected folder at save makes the session file unopenable: it
  counts all and has lines for the confirmed ones. The password typed for a
  folder at save is not verified, with the same effect.
- The session file is emptied before its own password is asked for.
- A session that fails to load keeps its ports bound, so the next attempt of the
  process fails at the ports.
- A public folder that fails to be shared leaves `m_nfReady` down until one is
  shared successfully; a protected one leaves `m_efReady` down, which blocks
  public folders too, because `GetNormalFolder` looks at that flag.

Host session and folder tree (line numbers of `FileSharingHostTask.cpp` unless said)

- A name in front of a folder's that contains it (a host "MyDocs" with a folder
  "Docs", a local directory) is where `find` cuts the path: the pull asks for
  another file or none (`Spec`, `SavedAsNamed`).
- `leave` with the question to close declined keeps `m_root`: at the next host a
  pull looks things up in the former folder (`Spec`, `SessionAgrees`).
- `cd` with a name in it before any folder was accessed reads a null `m_root`
  and ends the host's process. `cd ..` without a backslash at its end is appended
  literally, and so is `pull ..\ <to>`, whose backslash `ExtractParams` takes off: nothing is
  pulled. `pull a\\ <to>` in a protected folder, with two backslashes, asks for `Docs\a\a\f`
  (`PulledSubfolder.cfg` with a protected folder in place of the public one and such a
  path among `Typed`). A second `access` is appended to the directory of the first.
- `ask-pw` in a public folder makes the next pull ask for a protected one.
- `GivePassword` by name tests the wrong way round (327): it answers that a name is
  unknown if it is known, and ambiguous if it is unknown, and never sends. Of several passwords for one folder the first is kept. A wrong
  one is not noticed at the pull, which then decrypts to nonsense.
- `AcessEncryptedFolder` calls `VerifyKey` of the folder before it tests whether
  there is one (`FileSharingServerTask.cpp`, 96-101).
- Two overlapping traversals of a public folder can leave its path wrong for ever:
  each cuts it to a length it found while the other had made it longer, and
  every later pull opens a file elsewhere; a comment calls the table critical "if
  host access" only (`FileSharingServer.h`, 50-51). TLC finds it as `FolderInUse` with
  `~overlapped` dropped from `PathComesHome`.
- `TempFile`'s constructor opens its argument, not the name it made
  (`FileEncryption.h`, 22). `OpenEncryptedFolderFromFile` subtracts 32 from the
  size of the record (`FileSystemProtectionAPI.cpp`, 696).

Folder of copies (`FileSystemProtectionAPI.cpp`)

- A file that cannot be opened becomes an empty copy, and an empty file after
  decrypting, without a word (91, 96). The master record is emptied before
  it is written (500): a program that ends there leaves the former copies without
  one.
- `decrypt-folder` says that it decrypted to the target's subfolder of the folder's name,
  but restores into the target itself (`Console.cpp`, 295; the `Path` of the
  loaded root is empty).
- `DecryptFile` with a size (350-443) loses a block of every file at or above the
  threshold; `EncryptFile` of streams returns the size without the vector
  ("return num bytes written to fout", `FileSystemProtectionAPI.h`, 23). Nobody calls
  them.

Discovery

- An answer is answered by any host that is not scanning: two hosts send one
  datagram to and fro for ever, one per question, until the network loses it;
  and a host its own broadcast to itself.
- The list is keyed by address and keeps the first answer: a late one of a host
  that has since been started with another name and port hides the right one for
  that scan.
