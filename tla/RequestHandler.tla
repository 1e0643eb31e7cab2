--------------------------- MODULE RequestHandler ---------------------------
(***************************************************************************)
(* The handler of one connection of the file sharing server.               *)
(*                                                                         *)
(* A ServerThread calls it once in each of its turns.  A turn has three    *)
(* parts, which pc follows: it reads from the request ("read"), answers it *)
(* once it has ended ("answer", "send") and looks at the time ("clock").   *)
(* A connection closed in a turn is shut down and deleted at its end.      *)
(*                                                                         *)
(* What goes over the wire is a sequence of units: a number above zero is  *)
(* the byte of that position of the file or answer, the header "OK" with a *)
(* size is one unit, and Text is no data: a word of the server, or a byte  *)
(* of a buffer that nothing was read into.                                 *)
(* SSL_write writes all or nothing, as its default mode has it; the reader *)
(* takes as much of it as it likes.  A file does not change during its     *)
(* transfer.                                                               *)
(***************************************************************************)
EXTENDS Integers, Sequences

CONSTANTS
  Block,        \* BLOCK_SIZE
  Thres,        \* THRES_SIZE: a larger file goes block by block
  MaxWaitLoop,  \* MAX_WAIT_LOOP
  Capacity,     \* a socket with more units than these is not writable
  Asks          \* requests: what they want, by which function, its size, the
                \* number of parts the request arrives in, whether the server
                \* can open the file and the client its own, and the time-out
                \* that is asked for

\* A sendBytes of 1 marks a protected file until its header is sent.
ASSUME RequestHandlerAssumption ==
  /\ Block \in Nat \ {0, 1} /\ Thres \in Nat \ 0 .. Block - 1
  /\ MaxWaitLoop \in Nat \ {0, 1} /\ Capacity \in Nat
  /\ \A a \in Asks :
       /\ a.want \in {"answer", "plain", "protected", "missing", "nothing",
                       "store"}
       /\ a.via \in {"request", "fast", "slow"}
       /\ a.size \in Nat /\ a.parts \in Nat \ {0}
       /\ a.want \in {"answer", "protected"} => a.size > 0
       /\ a.opens \in BOOLEAN /\ a.stores \in BOOLEAN
       /\ a.want # "plain" => a.opens
       /\ a.wait \in {"short", "none"}
       /\ a.want = "store" => a.parts = 1

VARIABLES
  ask,         \* the request of this connection
  arrived,     \* how many of its parts are there to be read
  taken,       \* how many have been read into ClientResource::request
  link,        \* "up", "left" by the client, or "broken"
  wire,        \* units sent and not yet received
  pc,          \* where the turn is; "closed" when the connection is deleted
  closing,     \* Server::Close was called
  endRequest, maxWait, sendBytes, response,
  timeout,     \* "short" for a number of milliseconds, "none" for ULLONG_MAX
  var1,        \* union of the start time and totalBytes
  var2,        \* union of the clock, the size flag and the folder
  var3,        \* union of the stream and the folder's file
  pos          \* how far the stream has been read

request  == <<ask, arrived, taken>>
progress == <<endRequest, maxWait, sendBytes, response, timeout>>
unions   == <<var1, var2, var3>>
handler  == <<request, link, wire, pc, closing, progress, unions, pos>>

Start == -1                  \* var1 holds the time the connection began
Text  == 0
OkHeader(total) == -10 - total
IsHeader(unit)  == unit <= -10
TotalOf(unit)   == -10 - unit

Bytes(from, to) == [i \in 1 .. to - from + 1 |-> from + i - 1]
Least(a, b) == IF a < b THEN a ELSE b

HandlerInit ==
  /\ ask \in Asks /\ arrived = 0 /\ taken = 0
  /\ link = "up" /\ wire = <<>>
  /\ pc = "read" /\ closing = FALSE
  /\ endRequest = FALSE /\ maxWait = MaxWaitLoop
  /\ sendBytes = 0 /\ response = <<>> /\ timeout = "short"
  /\ var1 = Start /\ var2 = "zero" /\ var3 = "null"
  /\ pos = 0

-----------------------------------------------------------------------------
(* Reading the request *)

\* The two zero bytes that end a request are in its last part.
ReadPart ==
  /\ pc = "read" /\ ~endRequest /\ taken < arrived
  /\ taken' = taken + 1
  /\ endRequest' = (taken' = ask.parts)
  /\ pc' = IF endRequest' THEN "answer" ELSE "clock"
  /\ UNCHANGED <<ask, arrived, link, wire, closing, maxWait, sendBytes,
                 response, timeout, unions, pos>>

\* The socket is readable, but SSL_read has no record yet or never will.
ReadNothing ==
  /\ pc = "read" /\ ~endRequest
  /\ pc' = "clock"
  /\ UNCHANGED <<request, link, wire, closing, progress, unions, pos>>

\* Close and return: the clock is not looked at.
ReadFails ==
  /\ pc = "read" /\ ~endRequest /\ link = "broken"
  /\ closing' = TRUE /\ pc' = "closed"
  /\ UNCHANGED <<request, link, wire, progress, unions, pos>>

\* A request that does not go on is taken for complete.
ReadIdle ==
  /\ pc = "read" /\ ~endRequest /\ taken = arrived /\ link = "up"
  /\ maxWait' = maxWait - 1
  /\ endRequest' = (maxWait' = 0)
  /\ pc' = IF endRequest' THEN "answer" ELSE "clock"
  /\ UNCHANGED <<request, link, wire, closing, sendBytes, response, timeout,
                 unions, pos>>

ReadDone ==
  /\ pc = "read" /\ endRequest
  /\ pc' = "answer"
  /\ UNCHANGED <<request, link, wire, closing, progress, unions, pos>>

-----------------------------------------------------------------------------
(* Finding out what is wanted, as long as there is no response *)

\* What the request that was read asks for.  The beginning of a request is
\* some other command, or the path of no file; a "sto" is one record.
Wanted ==
  IF taken = ask.parts THEN {ask.want}
  ELSE IF taken = 0 THEN {"nothing"}
  ELSE {"answer", "missing"}

Parse(want) == pc = "answer" /\ response = <<>> /\ want \in Wanted

ParseDone ==
  /\ pc = "answer" /\ response # <<>>
  /\ pc' = "send"
  /\ UNCHANGED <<request, link, wire, closing, progress, unions, pos>>

\* Execute, which has nothing to say to an empty command.
ParseTask ==
  /\ \/ /\ Parse("answer")
        /\ response' = IF taken = ask.parts THEN Bytes(1, ask.size)
                       ELSE <<Text>>
     \/ /\ Parse("nothing")
        /\ response' = <<>>
  /\ maxWait' = 0
  /\ pc' = "send"
  /\ UNCHANGED <<request, link, wire, closing, endRequest, sendBytes, timeout,
                 unions, pos>>

\* "sto" sets the time-out to the number behind it, any of 64 bits, and goes
\* on as an empty command, in every turn.  No function of the host sends it.
ParseStore ==
  /\ Parse("store")
  /\ timeout' = ask.wait
  /\ response' = <<>> /\ maxWait' = 0
  /\ pc' = "send"
  /\ UNCHANGED <<request, link, wire, closing, endRequest, sendBytes, unions,
                 pos>>

\* Faulty: the time-out stays.
TransferTimeoutKept == timeout

\* A transfer has no time-out: var1 and var2 are needed for other things.
TransferTimeout == "none"

\* Faulty: an empty file is not found.
OpenedStreamFilled == IF ask.size = 0 THEN "null" ELSE "stream"

\* A file that is there but cannot be opened gives a stream that has failed,
\* and not a null pointer.
OpenedStream == IF ask.opens THEN "stream" ELSE "failed"

\* GetNormalFstream.  The block of a large file is not read yet: a sendBytes
\* of BLOCK_SIZE says that there is nothing left of it.
ParsePlain ==
  /\ Parse("plain")
  /\ maxWait' = -1 /\ timeout' = TransferTimeout
  /\ var1' = ask.size /\ var3' = OpenedStream
  /\ pos' = 0
  /\ IF ask.size > Thres
     THEN /\ sendBytes' = Block
          /\ response' = [i \in 1 .. Block |-> Text]
          /\ var2' = "flag"
     ELSE UNCHANGED <<sendBytes, response>> /\ var2' = "zero"
  /\ pc' = "send"
  /\ UNCHANGED <<request, link, wire, closing, endRequest>>

\* GetEncryptedFstream: the stream is the folder's own.
ParseProtected ==
  /\ Parse("protected")
  /\ maxWait' = -1 /\ timeout' = TransferTimeout
  /\ var1' = ask.size /\ var2' = "folder" /\ var3' = "file"
  /\ sendBytes' = 1
  /\ pc' = "send"
  /\ UNCHANGED <<request, link, wire, closing, endRequest, response, pos>>

\* Not shared, not there, or its table not ready.
ParseMissing ==
  /\ Parse("missing")
  /\ maxWait' = -1 /\ timeout' = TransferTimeout
  /\ \/ sendBytes' = 1
     \/ UNCHANGED sendBytes
  /\ pc' = "send"
  /\ UNCHANGED <<request, link, wire, closing, endRequest, response, unions,
                 pos>>

-----------------------------------------------------------------------------
(* Sending *)

\* What becomes of the wire when units are written to it.
Put(units) == wire' = IF link = "up" THEN wire \o units ELSE wire

\* How ClientConnection::Send ends: it has written all, the socket was not
\* writable, SSL_write wants to be called again, or the connection is lost.
Outcomes == {"sent", "unready", "pending", "failed"}

Ends(outcome) ==
  /\ outcome = "sent" => Len(wire) <= Capacity /\ link # "broken"
  /\ outcome = "failed" => link # "up"

Rest(units, from) == SubSeq(units, from + 1, Len(units))

SendNullptr ==
  /\ pc = "send" /\ maxWait = -1 /\ var3 = "null"
  /\ response' = <<Text>> /\ maxWait' = 0 /\ timeout' = "short"
  /\ Put(<<Text>>)
  /\ closing' = TRUE /\ pc' = "clock"
  /\ UNCHANGED <<request, link, endRequest, sendBytes, unions, pos>>

\* Nobody looks whether the header was written.  The first one is the first
\* that goes over the connection, so nothing is in its way.
SendHeader ==
  /\ pc = "send" /\ maxWait = -1 /\ var3 # "null"
  /\ IF Len(wire) <= Capacity THEN Put(<<OkHeader(var1)>>) ELSE UNCHANGED wire
  /\ IF sendBytes = 1
     THEN maxWait' = -3 /\ sendBytes' = 0
     ELSE maxWait' = -2 /\ UNCHANGED sendBytes
  /\ UNCHANGED <<request, link, pc, closing, endRequest, response, timeout,
                 unions, pos>>

\* Faulty: in every turn.
BlockIsSentAlways == TRUE

\* Transfer reads the next block when the last one is sent.
BlockIsSent == sendBytes = Block

BlockLength == Least(Block, var1)

\* Faulty: the end of a large file closes nothing.
NothingIsLeftUnseen == FALSE

NothingIsLeft == var1' = 0

\* fin.read: a stream that has failed leaves the buffer as it was.
Read(from, to) ==
  IF var3 = "failed" THEN [i \in 1 .. to - from + 1 |-> Text]
  ELSE Bytes(from, to)

\* Transfer of a large file.
TransferBlocks(outcome) ==
  LET block == IF BlockIsSent THEN Read(pos + 1, pos + BlockLength)
               ELSE response
      from  == IF BlockIsSent THEN 0 ELSE sendBytes
      now   == IF outcome = "sent" THEN Len(block) ELSE from
  IN  /\ pc = "send" /\ maxWait = -2 /\ var2 # "zero" /\ Ends(outcome)
      /\ response' = block
      /\ pos' = IF BlockIsSent THEN pos + Len(block) ELSE pos
      /\ sendBytes' = now /\ var1' = var1 - (now - from)
      /\ IF outcome = "sent" THEN Put(Rest(block, from)) ELSE UNCHANGED wire
      /\ closing' = (outcome = "failed" \/ NothingIsLeft)
      /\ pc' = "clock"
      /\ UNCHANGED <<request, link, endRequest, maxWait, timeout, var2, var3>>

\* A response in one piece, from sendBytes on; writing nothing ends nothing.
SendAll(whole, outcome) ==
  /\ Ends(outcome)
  /\ response' = whole
  /\ sendBytes' = IF outcome = "sent" THEN Len(whole) ELSE sendBytes
  /\ IF outcome = "sent" THEN Put(Rest(whole, sendBytes)) ELSE UNCHANGED wire
  /\ closing' = \/ outcome = "failed"
                \/ outcome = "sent" /\ sendBytes < Len(whole)

\* Transfer of a small file.
TransferWhole(outcome) ==
  LET read == Len(response) # var1
  IN  /\ pc = "send" /\ maxWait = -2 /\ var2 = "zero"
      /\ SendAll(IF read THEN Read(pos + 1, pos + var1) ELSE response, outcome)
      /\ pos' = IF read THEN pos + var1 ELSE pos
      /\ pc' = "clock"
      /\ UNCHANGED <<request, link, endRequest, maxWait, timeout, unions>>

AfterRead == "null"

\* EncryptedFileTransfer.  A large file has no branch of its own: nothing is
\* read, so the next turn parses the request again and sends another header.
TransferProtected(outcome) ==
  /\ pc = "send" /\ maxWait = -3
  /\ IF var1 > Thres
     THEN UNCHANGED <<response, sendBytes, wire, closing, var3>>
     ELSE /\ SendAll(IF Len(response) # var1 THEN Bytes(1, var1) ELSE response,
                     outcome)
          /\ var3' = IF Len(response) # var1 THEN AfterRead ELSE var3
  /\ pc' = "clock"
  /\ UNCHANGED <<request, link, endRequest, maxWait, timeout, var1, var2,
                 pos>>

\* The answer of a task.  A socket that is not writable makes maxWait 1, which
\* no later turn has a case for.  Writing nothing does not fail.
Respond(outcome) ==
  /\ pc = "send" /\ maxWait = 0
  /\ outcome = "failed" => response # <<>>
  /\ SendAll(response, outcome)
  /\ maxWait' = IF outcome = "unready" THEN 1 ELSE 0
  /\ pc' = "clock"
  /\ UNCHANGED <<request, link, endRequest, timeout, unions, pos>>

RespondNoMore ==
  /\ pc = "send" /\ maxWait > 0
  /\ pc' = "clock"
  /\ UNCHANGED <<request, link, wire, closing, progress, unions, pos>>

Transmit(outcome) ==
  \/ TransferBlocks(outcome)
  \/ TransferWhole(outcome)
  \/ TransferProtected(outcome)
  \/ Respond(outcome)

-----------------------------------------------------------------------------
(* The end of a turn *)

\* The clock is read into var2 unless there is no time-out.
ReadClock == var2' = IF timeout = "short" THEN "time" ELSE var2

Tick ==
  /\ pc = "clock"
  /\ ReadClock
  /\ pc' = IF closing THEN "closed" ELSE "read"
  /\ UNCHANGED <<request, link, wire, closing, progress, var1, var3, pos>>

Expire ==
  /\ pc = "clock" /\ timeout = "short"
  /\ ReadClock
  /\ closing' = TRUE /\ pc' = "closed"
  /\ UNCHANGED <<request, link, wire, progress, var1, var3, pos>>

Handle ==
  \/ ReadPart \/ ReadNothing \/ ReadFails \/ ReadIdle \/ ReadDone
  \/ ParseDone \/ ParseTask \/ ParseStore
  \/ ParsePlain \/ ParseProtected \/ ParseMissing
  \/ SendNullptr \/ SendHeader \/ RespondNoMore
  \/ \E outcome \in Outcomes : Transmit(outcome)
  \/ Tick \/ Expire
=============================================================================
