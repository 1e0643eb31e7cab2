---------------------------- MODULE FileTransfer ----------------------------
(***************************************************************************)
(* A request to another host from end to end: the handler on the server,   *)
(* and the function that made the request on the client.  FastFileTransfer *)
(* pulls a plain file, FileTransfer the blocks of a protected one, Request *)
(* asks for a task.  All three are called on the host's main thread, which *)
(* waits for them.                                                         *)
(***************************************************************************)
EXTENDS RequestHandler

CONSTANTS
  MaxPolls,   \* limitWait of Request, 20 in the code
  MaxContent  \* bound: what FileTransfer writes beyond is not kept

\* PullFile: a plain file is pulled by FastFileTransfer, a protected one by
\* FileTransfer.  Everything else a host asks for it asks with Request.
ASSUME FileTransferAssumption ==
  /\ MaxPolls \in Nat \ {0} /\ MaxContent \in Nat
  /\ \A a \in Asks :
       /\ a.want = "plain" => a.via = "fast"
       /\ a.want = "protected" =>
            a.via = "slow" /\ (a.size <= Thres => a.size <= MaxContent)
       /\ a.want \in {"answer", "nothing", "store"} => a.via = "request"

VARIABLES
  puller,   \* where the client's function is
  total,    \* the size it goes by
  buffer,   \* what it received and has not written to the file
  content,  \* what it gave the stream of its file to write
  told,     \* it received the header
  polls,    \* how often Request found nothing to read
  result    \* "none" until it returns, then "true" or "false"

client == <<puller, total, buffer, content, told, polls, result>>
vars   == <<handler, client>>

Init ==
  /\ HandlerInit
  /\ puller = "start" /\ total = 1
  /\ buffer = <<>> /\ content = <<>>
  /\ told = FALSE /\ polls = 0 /\ result = "none"

-----------------------------------------------------------------------------
(* The network *)

\* A part of the request reaches the server.
Arrive ==
  /\ puller # "start" /\ link = "up" /\ arrived < ask.parts
  /\ arrived' = arrived + 1
  /\ UNCHANGED <<ask, taken, link, wire, pc, closing, progress, unions, pos,
                 client>>

\* The connection is lost and all that is under way.
Break ==
  /\ link = "up"
  /\ link' = "broken" /\ wire' = <<>>
  /\ UNCHANGED <<request, pc, closing, progress, unions, pos, client>>

-----------------------------------------------------------------------------
(* The client *)

Hidden == <<request, pc, closing, progress, unions, pos>>

\* delete conn, and the function returns.
Return(answer) ==
  /\ puller' = "done" /\ result' = answer
  /\ link' = IF link = "up" THEN "left" ELSE link
  /\ wire' = <<>>

SendRequest ==
  /\ puller = "start"
  /\ puller' = "wait"
  /\ UNCHANGED <<Hidden, link, wire, total, buffer, content, told, polls,
                 result>>

SendRequestFails ==
  /\ puller = "start" /\ link = "broken"
  /\ Return("false")
  /\ UNCHANGED <<Hidden, total, buffer, content, told, polls>>

\* Nothing will come any more.
AtEnd == wire = <<>> /\ (link = "broken" \/ pc = "closed")

\* IsReadyRead: there is something, or the end, to be read.
Readable == wire # <<>> \/ AtEnd

\* How the rest is received, once total is what it will be.
Loop(size) ==
  IF ask.via = "slow" THEN "slow"
  ELSE IF size > Thres THEN "blocks" ELSE "whole"

\* The first record is the header, with nothing behind it in the record, or a
\* word that says no.
FirstRecord ==
  /\ puller = "wait" /\ ask.via # "request" /\ wire # <<>>
  /\ IF IsHeader(Head(wire))
     THEN /\ total' = TotalOf(Head(wire)) /\ told' = TRUE
          /\ puller' = Loop(total') /\ wire' = Tail(wire)
          /\ UNCHANGED <<link, result>>
     ELSE /\ Return("false")
          /\ UNCHANGED <<total, told>>
  /\ UNCHANGED <<Hidden, buffer, content, polls>>

\* The socket is readable but no record is complete, or it is at its end: the
\* header is not looked for again and total stays 1.
FirstNothing ==
  /\ puller = "wait" /\ ask.via # "request" /\ Readable
  /\ puller' = Loop(total)
  /\ UNCHANGED <<Hidden, link, wire, total, buffer, content, told, polls,
                 result>>

\* SSL_read gives some of what is there, and room for it was offered.
Receive(n, room) ==
  /\ n \in 1 .. Least(room, Len(wire))
  /\ wire' = Rest(wire, n)

\* FastFileTransfer writes as many bytes of its buffer as total says, received
\* or not.
WriteOut ==
  content' = content \o
    [i \in 1 .. total |-> IF i <= Len(buffer') THEN buffer'[i] ELSE Text]

\* A large file: a full block is written, and the end of the stream awaited.
ReceiveBlock(n) ==
  /\ puller = "blocks" /\ Receive(n, Block - Len(buffer))
  /\ LET got == buffer \o SubSeq(wire, 1, n)
     IN  IF Len(got) = Block
         THEN /\ content' = content \o got /\ buffer' = <<>>
              /\ total' = total - Block
         ELSE /\ buffer' = got /\ UNCHANGED <<content, total>>
  /\ UNCHANGED <<Hidden, link, puller, told, polls, result>>

\* A small file: its last byte ends it.
ReceiveWhole(n) ==
  /\ puller = "whole" /\ Receive(n, total - Len(buffer))
  /\ buffer' = buffer \o SubSeq(wire, 1, n)
  /\ Len(buffer') < total
  /\ UNCHANGED <<Hidden, link, puller, total, content, told, polls, result>>

\* There was no room left, which Recv answers with 0 as at the end.
ReceiveLast ==
  /\ puller = "whole" /\ Len(buffer) + Len(wire) >= total
  /\ buffer' = buffer \o SubSeq(wire, 1, total - Len(buffer))
  /\ WriteOut
  /\ Return("true")
  /\ UNCHANGED <<Hidden, total, told, polls>>

FastEnd ==
  /\ puller \in {"blocks", "whole"} /\ AtEnd
  /\ UNCHANGED buffer
  /\ WriteOut
  /\ Return("true")
  /\ UNCHANGED <<Hidden, total, told, polls>>

UpTo(n, units) == SubSeq(units, 1, Least(n, Len(units)))

\* FileTransfer writes whatever comes.
ReceiveSlow(n) ==
  /\ puller = "slow" /\ Receive(n, Len(wire))
  /\ content' = UpTo(MaxContent, content \o SubSeq(wire, 1, n))
  /\ UNCHANGED <<Hidden, link, puller, total, buffer, told, polls, result>>

SlowEnd ==
  /\ puller = "slow" /\ AtEnd
  /\ Return("true")
  /\ UNCHANGED <<Hidden, total, buffer, content, told, polls>>

\* Request appends whatever comes, and gives up when it has found nothing
\* MaxPolls times in all.
RequestReceives(n) ==
  /\ puller = "wait" /\ ask.via = "request" /\ Receive(n, Len(wire))
  /\ content' = content \o SubSeq(wire, 1, n)
  /\ UNCHANGED <<Hidden, link, puller, total, buffer, told, polls, result>>

RequestPolls ==
  /\ puller = "wait" /\ ask.via = "request"
  /\ Readable \/ polls > 0 \/ content # <<>>
  /\ polls' = polls + 1
  /\ IF polls' = MaxPolls
     THEN Return("true")
     ELSE UNCHANGED <<puller, result, link, wire>>
  /\ UNCHANGED <<Hidden, total, buffer, content, told>>

RequestEnd ==
  /\ puller = "wait" /\ ask.via = "request" /\ AtEnd
  /\ Return("true")
  /\ UNCHANGED <<Hidden, total, buffer, content, told, polls>>

Pull ==
  \/ SendRequest \/ SendRequestFails
  \/ FirstRecord \/ FirstNothing
  \/ \E n \in 1 .. Len(wire) :
       \/ ReceiveBlock(n) \/ ReceiveWhole(n)
       \/ ReceiveSlow(n) \/ RequestReceives(n)
  \/ ReceiveLast \/ FastEnd \/ SlowEnd
  \/ RequestPolls \/ RequestEnd

-----------------------------------------------------------------------------

Next ==
  \/ Handle /\ UNCHANGED client
  \/ Pull
  \/ Arrive
  \/ Break

Spec == Init /\ [][Next]_vars

\* The ServerThread goes on calling the handler, and the client's function has
\* no time-out of its own.  A socket that is looked at again and again is
\* writable some time, a write to a lost connection fails some time, and the
\* clock passes the time-out.  The network owes nothing.
Fairness ==
  /\ WF_vars(Handle /\ UNCHANGED client)
  /\ SF_vars(Expire /\ UNCHANGED client)
  /\ SF_vars(Transmit("sent") /\ UNCHANGED client)
  /\ SF_vars(Transmit("failed") /\ UNCHANGED client)
  /\ WF_vars(Pull)

FairSpec == Spec /\ Fairness

-----------------------------------------------------------------------------
(* Properties *)

\* The type invariant.
TypeOK ==
  /\ ask \in Asks /\ arrived \in 0 .. ask.parts /\ taken \in 0 .. arrived
  /\ link \in {"up", "left", "broken"} /\ wire \in Seq(Int)
  /\ pc \in {"read", "answer", "send", "clock", "closed"}
  /\ closing \in BOOLEAN /\ endRequest \in BOOLEAN
  /\ maxWait \in -3 .. MaxWaitLoop /\ sendBytes \in Nat
  /\ response \in Seq(Nat) /\ timeout \in {"short", "none"}
  /\ var1 \in Nat \cup {Start} /\ var2 \in {"zero", "flag", "time", "folder"}
  /\ var3 \in {"null", "stream", "failed", "file"}
  /\ pos \in Nat
  /\ puller \in {"start", "wait", "blocks", "whole", "slow", "done"}
  /\ total \in Nat /\ buffer \in Seq(Int) /\ content \in Seq(Int)
  /\ told \in BOOLEAN /\ polls \in 0 .. MaxPolls
  /\ result \in {"none", "true", "false"}

TheFile == Bytes(1, ask.size)

\* What the client's file holds: nothing when it could not be opened, which
\* nobody looks at (FileSharingHost.cpp, 502).
Stored == IF ask.stores THEN content ELSE <<>>

\* What is to be there: nobody looks whether the server's stream is open
\* (FileSharingServer.cpp, 579), and one that is not gives as many bytes of the
\* handler's buffer as the file has.
Due ==
  IF ~ask.stores THEN <<>>
  ELSE [i \in 1 .. ask.size |-> IF ask.opens THEN i ELSE Text]

\* A pull that was told the size and returns true has each byte the server's
\* stream gave, all and in order, unless the connection broke: the file when
\* both ends could open theirs, as many bytes that are not the file's when the
\* server could not, and nothing when the client could not.  The block
\* arithmetic of Transfer and of FastFileTransfer agree at every size
\* (FileSharingServer.cpp, 384-507).
PulledWhole ==
  result = "true" /\ told /\ link # "broken" => Stored = Due

\* A pull fails only for a reason: the file is not shared, the request came in
\* too slowly, or the connection broke.
FailuresHaveReasons ==
  result = "false" => \/ ask.want = "missing"
                      \/ taken < ask.parts
                      \/ link = "broken"

\* The members of the three unions are read as what was written to them: the
\* clock must not be stored in var2 as long as it is the size flag or the
\* folder of a transfer, and ~_ExtendResource, which deletes var3 as a stream,
\* must not find a file of the shared folder in it.
UnionsAreReadAsWritten ==
  /\ maxWait = -2 /\ pc # "closed" =>
       /\ var1 >= 0 /\ var3 \in {"stream", "failed"}
       /\ var2 = IF ask.size > Thres THEN "flag" ELSE "zero"
  /\ maxWait = -3 /\ pc # "closed" => var1 = ask.size /\ var2 = "folder"
  /\ pc = "closed" => var3 # "file"

\* A large protected file has no transfer, and a "sto" may ask for a connection
\* without a time-out (FileSharingServer.cpp, 703-711): these two do not end.
ComesToAnEnd ==
  /\ ~(ask.want = "protected" /\ ask.size > Thres)
  /\ ~(ask.want = "store" /\ ask.wait = "none")

\* Every function that asks something of a host returns: they poll without a
\* limit of their own and rely on the server closing the connection.  Not so
\* for the two requests that do not come to an end.
EveryPullReturns == ComesToAnEnd ~> puller = "done"

\* The handler closes every connection, so that its thread can end, but those
\* of the two requests that do not come to an end.
EveryConnectionIsClosed == ComesToAnEnd ~> pc = "closed"

\* FileSharingHost.h, 98: a pull returns true on success.
TrueMeansPulled ==
  result = "true" /\ ask.via # "request" => Stored = TheFile
=============================================================================
