----------------------------- MODULE FolderCopy -----------------------------
(***************************************************************************)
(* The commands encrypt-folder and decrypt-folder of the console, without  *)
(* "-ef": a folder is encrypted file by file into a folder of copies, and  *)
(* a master record that says which copy is whose is written at the end.    *)
(*                                                                         *)
(* The program may end at any step.  What it leaves stays: the copies, the *)
(* record, and what has been restored so far; the next run of it may       *)
(* encrypt into the same folder of copies again.  A copy gets a name of    *)
(* its own, which is here its place in the sequence of all copies.         *)
(*                                                                         *)
(* The files are numbered as the traversal comes to them, in the order of  *)
(* the record.  A byte is its place in a version of a file.  The cipher is *)
(* a stream: what becomes of a byte depends on the password, the file's    *)
(* vector and the byte's place in the stream, and only with these it comes *)
(* back.  The vectors are random, here the copies' names.  While a command *)
(* runs the files do not change; another program may keep one of them from *)
(* being opened, but not what the command itself writes or has written.    *)
(***************************************************************************)
EXTENDS Integers, Sequences

CONSTANTS
  Count,      \* how many files there are in the user's folder
  Sizes,      \* the sizes each of them may have
  Passwords,
  Thres,      \* a smaller file is encrypted in one cycle,
  Block,      \* another by blocks of this size
  MaxEdits,   \* bound: changes to files in all
  MaxCopies   \* bound: copies in all

ASSUME FolderCopyAssumption ==
  /\ Count \in Nat /\ Thres \in Nat /\ Block \in Nat \ {0}
  /\ Sizes \in [1 .. Count -> SUBSET Nat]
  /\ MaxEdits \in Nat /\ MaxCopies \in Nat

Files == 1 .. Count

VARIABLES
  source,    \* the version of each file and its size
  edits,     \* count, and the version of what is new
  copies,    \* the files in the folder of copies: vector and data
  record,    \* MasterRecord.est: the password, the names of the copies, and,
             \* to state properties, which files could not be opened and what
             \* the folder was
  restored,  \* the files in the folder they are decrypted to
  at,        \* where the program is
  key,       \* the password that was given
  next,      \* the file that the traversal comes to next
  names,     \* File::Data of the files it has: the name of the copy
  unread,    \* those of them that could not be opened
  job        \* the file in hand, its copy's name, the size that was
             \* told, what there is to read, and how much has been read

disk     == <<source, edits, copies, record, restored>>
program  == <<at, key, next, names, unread, job>>
copyVars == <<disk, program>>

NoRecord == [state |-> "none"]
NoJob    == [file |-> 0]
NoKey    == "none"
Unopened == -1   \* tellg of a stream that is not open: the largest size_t

CopyInit ==
  /\ source \in
       [Files -> [version : {0}, size : UNION {Sizes[f] : f \in Files}]]
  /\ \A f \in Files : source[f].size \in Sizes[f]
  /\ edits = 0
  /\ copies = <<>> /\ record = NoRecord
  /\ restored = [f \in Files |-> <<>>]
  /\ at = "menu" /\ key = NoKey
  /\ next = 1 /\ names = <<>> /\ unread = {} /\ job = NoJob

\* The program waits for a command.
Idle == at \in {"menu", "restored"}

Forget == key' = NoKey /\ next' = 1 /\ names' = <<>> /\ job' = NoJob

\* What a version of a file reads.
Byte(f, version, i) == <<f, version, i>>
Bytes(f, s)         == [i \in 1 .. s.size |-> Byte(f, s.version, i)]

-----------------------------------------------------------------------------
(* The cipher *)

Cipher(k, iv, i, b)   == <<k, iv, i, b>>
Decipher(k, iv, i, c) == IF <<c[1], c[2], c[3]>> = <<k, iv, i>> THEN c[4]
                                                                ELSE <<>>

\* Where in its stream the context is for the next byte that is read.
Ahead == job.read

\* Faulty: every block begins a stream.
BlockByBlock == 0

AheadToDecipher == Ahead

-----------------------------------------------------------------------------
(* A file goes through the cipher *)

Least(a, b) == IF a < b THEN a ELSE b

\* The program has what a read has given: all, when the size that was told is
\* below the threshold, or a block.
ByBlocks == job.told = Unopened \/ job.told >= Thres
Given    == LET left == Len(job.input) - job.read
            IN  IF ByBlocks THEN Least(Block, left) ELSE left

\* Faulty: the end is told by the size, as the container's Encrypt does.
LastByTold ==
  \/ ~ByBlocks
  \/ job.told # Unopened /\ job.told - job.read < Block

\* A block that is not whole is the last.
LastOne == ~ByBlocks \/ Given < Block

Take(f, name, told, input) ==
  job' = [file |-> f, name |-> name, told |-> told, input |-> input,
          read |-> 0]

Handled(place) ==
  IF LastOne THEN /\ at' = place /\ job' = NoJob
             ELSE /\ UNCHANGED at
                  /\ job' = [job EXCEPT !.read = @ + Given]

-----------------------------------------------------------------------------
(* The user and other programs *)

Edit(f, size) ==
  /\ Idle /\ edits < MaxEdits
  /\ edits' = edits + 1
  /\ source' = [source EXCEPT ![f] = [version |-> edits', size |-> size]]
  /\ UNCHANGED <<copies, record, restored, program>>

\* The window is closed.  What had been written stays.
End ==
  /\ at # "menu"
  /\ at' = "menu" /\ unread' = {} /\ Forget
  /\ UNCHANGED disk

-----------------------------------------------------------------------------
(* encrypt-folder *)

\* The folder is listed and the folder of copies made, if it is not there.
EncryptFolder(password) ==
  /\ Idle /\ Len(copies) + Count <= MaxCopies
  /\ at' = "encrypt" /\ key' = password
  /\ next' = 1 /\ names' = <<>> /\ unread' = {}
  /\ UNCHANGED <<disk, job>>

\* EncryptFile, up to the vector in front of the copy.  Nobody looks whether
\* the file was opened.
Copy(opens) ==
  /\ at = "encrypt" /\ next \in Files
  /\ copies' = Append(copies, [iv |-> Len(copies) + 1, data |-> <<>>])
  /\ names' = Append(names, Len(copies) + 1)
  /\ next' = next + 1
  /\ IF opens
     THEN /\ Take(next, Len(copies) + 1, source[next].size,
                  Bytes(next, source[next]))
          /\ UNCHANGED unread
     ELSE /\ Take(next, Len(copies) + 1, Unopened, <<>>)
          /\ unread' = unread \cup {next}
  /\ at' = "copy"
  /\ UNCHANGED <<source, edits, record, restored, key>>

\* A cycle of EncryptFile.
Encrypt ==
  /\ at = "copy"
  /\ copies' = [copies EXCEPT ![job.name].data = @ \o
       [i \in 1 .. Given |->
          Cipher(key, copies[job.name].iv, Ahead + i,
                 job.input[job.read + i])]]
  /\ Handled("encrypt")
  /\ UNCHANGED <<source, edits, record, restored, key, next, names, unread>>

\* The record is opened for writing, which empties it, and is written when it
\* is closed.
OpenRecord ==
  /\ at = "encrypt" /\ next > Count
  /\ record' = [state |-> "torn", key |-> key, names |-> names,
                unread |-> unread, of |-> source]
  /\ at' = "record"
  /\ UNCHANGED <<source, edits, copies, restored, key, next, names, unread,
                 job>>

CloseRecord ==
  /\ at = "record"
  /\ record' = [record EXCEPT !.state = "whole"]
  /\ at' = "menu" /\ unread' = {} /\ Forget
  /\ UNCHANGED <<source, edits, copies, restored>>

-----------------------------------------------------------------------------
(* decrypt-folder *)

\* With another password, or no record, the command fails and changes nothing.
\* A record that was not written to its end may be read as its beginning.
DecryptFolder(count) ==
  /\ Idle /\ record.state # "none"
  /\ record.state = "whole" => count = Count
  /\ at' = "decrypt" /\ key' = record.key
  /\ next' = 1 /\ names' = SubSeq(record.names, 1, count)
  /\ unread' = record.unread
  /\ UNCHANGED <<disk, job>>

\* DecryptFile, up to the vector.  The file to be written is emptied.
Restore ==
  /\ at = "decrypt" /\ next \in DOMAIN names
  /\ restored' = [restored EXCEPT ![next] = <<>>]
  /\ next' = next + 1
  /\ LET data == copies[names[next]].data
     IN  Take(next, names[next], Len(data), data)
  /\ at' = "restore"
  /\ UNCHANGED <<source, edits, copies, record, key, names, unread>>

\* A cycle of DecryptFile.
Decrypt ==
  /\ at = "restore"
  /\ restored' = [restored EXCEPT ![job.file] = @ \o
       [i \in 1 .. Given |->
          Decipher(key, copies[job.name].iv, AheadToDecipher + i,
                   job.input[job.read + i])]]
  /\ Handled("decrypt")
  /\ UNCHANGED <<source, edits, copies, record, key, next, names, unread>>

DecryptEnds ==
  /\ at = "decrypt" /\ next > Len(names)
  /\ at' = IF record.state = "whole" THEN "restored" ELSE "menu"
  /\ Forget
  /\ UNCHANGED <<disk, unread>>

-----------------------------------------------------------------------------
Working ==
  \/ \E opens \in BOOLEAN : Copy(opens)
  \/ Encrypt \/ OpenRecord \/ CloseRecord
  \/ Restore \/ Decrypt \/ DecryptEnds

CopyNext ==
  \/ \E f \in Files : \E size \in Sizes[f] : Edit(f, size)
  \/ \E password \in Passwords : EncryptFolder(password)
  \/ \E count \in 0 .. Count : DecryptFolder(count)
  \/ Working
  \/ End

CopySpec == CopyInit /\ [][CopyNext]_copyVars

\* The program goes on.  Nothing is assumed of the user and other programs.
FairCopySpec == CopySpec /\ WF_copyVars(Working)

-----------------------------------------------------------------------------
(* Properties *)

\* Once decrypt-folder is done with a whole record, every file reads as it did
\* when the folder was last encrypted to its end, whatever was encrypted in
\* part since, by runs that ended too soon and with what passwords, and
\* whatever its size is to the threshold and the block; but for files that
\* could not be opened, which are empty (FileSystemProtectionAPI.cpp, 446-610).
RestoredAsCopied ==
  at = "restored" => \A f \in Files :
    restored[f] = IF f \in unread THEN <<>> ELSE Bytes(f, record.of[f])

\* A command comes to its end, files that cannot be opened and files of whole
\* blocks included.
EveryCommandEnds == ~Idle ~> Idle
=============================================================================
