------------------------- MODULE FileTransferProofs -------------------------
(***************************************************************************)
(* What a pull is promised, for every size of a block, threshold and file. *)
(***************************************************************************)
EXTENDS FileTransfer, TLAPS

-----------------------------------------------------------------------------
(* The inductive invariant *)

\* What the stream of a request gives for a position: of a file that could not
\* be opened, nothing.
Given(a, i) == IF a.opens THEN i ELSE Text

\* The units of s are those the stream of a gives behind the first n.
Follow(a, s, n) == \A i \in 1 .. Len(s) : s[i] = Given(a, n + i)

\* All it gives for the file.
Whole == [i \in 1 .. ask.size |-> Given(ask, i)]

Total  == ask.size
Large  == Total > Thres
Serves == taken = ask.parts /\ ask.want \in {"plain", "protected"}

\* An empty file is opened again in every turn, a large protected one is never
\* sent: both are answered with headers only.
Endless == Serves /\ (Total = 0 \/ (ask.want = "protected" /\ Large))
Blockwise == Serves /\ ask.want = "plain" /\ Large
AtOnce    == Serves /\ 0 < Total /\ ~Large

Formed ==
  /\ ask \in Asks /\ arrived \in 0 .. ask.parts /\ taken \in 0 .. arrived
  /\ link \in {"up", "left", "broken"} /\ wire \in Seq(Int)
  /\ pc \in {"read", "answer", "send", "clock", "closed"}
  /\ closing \in BOOLEAN /\ endRequest \in BOOLEAN
  /\ maxWait \in Int /\ sendBytes \in Nat
  /\ response \in Seq(Nat) /\ timeout \in {"short", "none"}
  /\ var1 \in Int /\ pos \in Nat
  /\ puller \in {"start", "wait", "blocks", "whole", "slow", "done"}
  /\ told \in BOOLEAN /\ result \in {"none", "true", "false"}

\* The request has ended before anything is answered.
Ended ==
  /\ taken = ask.parts => endRequest
  /\ pc \in {"answer", "send"} => endRequest
  /\ ~endRequest => /\ maxWait > 0 /\ response = <<>> /\ sendBytes = 0
                    /\ timeout = "short" /\ wire = <<>> /\ pos = 0
                    /\ (pc # "closed" => ~closing)
                    /\ result = "false" => link = "broken"

\* Where no file is served there is no header.
NotServed ==
  ~Serves => /\ var3 = "null" /\ ~told /\ maxWait >= -1
             /\ \A i \in 1 .. Len(wire) : wire[i] >= 0

Unparsed ==
  /\ pc = "answer" /\ ~closing /\ response = <<>> /\ sendBytes = 0
  /\ wire = <<>> /\ ~told /\ var3 = "null" /\ pos = 0 /\ maxWait > 0

\* The member of each union, from the parsing of the request to its end.
Members ==
  /\ maxWait = -1 => pc = "send"
  /\ IF ask.want = "plain"
     THEN /\ var3 = OpenedStream /\ maxWait \in {-1, -2}
          /\ var2 = IF Large THEN "flag" ELSE "zero"
     ELSE /\ var2 = "folder" /\ maxWait \in {-1, -3}
          /\ var3 = IF response = <<>> THEN "file" ELSE "null"

OnlyHeaders ==
  /\ var1 = Total /\ response = <<>>
  /\ closing => /\ pc \in {"clock", "closed"} /\ link # "up"
                /\ ask.want = "plain"
  /\ pc = "closed" => closing
  /\ sendBytes = IF maxWait = -1 /\ ask.want = "protected" THEN 1 ELSE 0
  /\ \A i \in 1 .. Len(wire) : wire[i] = OkHeader(Total)

\* Nothing but the header is on its way.
JustParsed ==
  /\ ~closing /\ var1 = Total /\ pos = 0 /\ wire = <<>> /\ ~told

\* A block has been sent whole, and the next is to be read, or it was read and
\* is to be sent.
SendsBlocks ==
  /\ var1 \in 0 .. Total /\ response # <<>>
  /\ maxWait = -1 => JustParsed /\ sendBytes = Block
  /\ ~closing => /\ var1 > 0
                 /\ \/ sendBytes = Block /\ pos = Total - var1
                    \/ /\ sendBytes = 0 /\ pos = Total - var1 + Len(response)
                       /\ Len(response) = Least(Block, var1)
                       /\ Follow(ask, response, Total - var1)
  /\ closing => (pc \in {"clock", "closed"} /\ (link = "up" => var1 = 0))
  /\ pc = "closed" => closing

\* The file is read at once, and sent at once or not yet.
SendsWhole ==
  /\ var1 = Total
  /\ maxWait = -1 =>
       /\ JustParsed /\ response = <<>>
       /\ sendBytes = IF ask.want = "protected" THEN 1 ELSE 0
  /\ \/ response = <<>> /\ pc = "send" /\ pos = 0 /\ ~closing
     \/ Len(response) = Total /\ Follow(ask, response, 0)
  /\ maxWait # -1 =>
       /\ sendBytes \in {0, Total}
       /\ IF closing THEN link = "up" => sendBytes = Total ELSE sendBytes = 0
  /\ closing => pc \in {"clock", "closed"}
  /\ pc = "closed" => closing

\* How much of the file has been written to the connection.
Sent == IF maxWait = -1 THEN 0 ELSE IF Large THEN Total - var1 ELSE sendBytes

\* The header and the bytes sent are on the way, or the bytes between what was
\* received and what was sent are.
Underway ==
  maxWait # -1 /\ link = "up" =>
    /\ puller \in {"start", "wait"} =>
         /\ Len(wire) = Sent + 1 /\ wire[1] = OkHeader(Total)
         /\ \A i \in 1 .. Sent : wire[i + 1] = Given(ask, i)
    /\ told =>
         /\ content \in Seq(Int) /\ buffer \in Seq(Int)
         /\ Len(content) + Len(buffer) + Len(wire) = Sent
         /\ Follow(ask, content, 0) /\ Follow(ask, buffer, Len(content))
         /\ Follow(ask, wire, Len(content) + Len(buffer))
         /\ puller = Loop(Total)
         /\ total = Total - (IF puller = "slow" THEN 0 ELSE Len(content))
         /\ puller = "blocks" => Len(buffer) < Block
         /\ puller = "whole" => content = <<>>
         /\ puller = "slow" => buffer = <<>>

Served ==
  Serves =>
    \/ timeout = "short" /\ Unparsed
    \/ /\ timeout = "none" /\ Members
       /\ Endless => OnlyHeaders
       /\ Blockwise => SendsBlocks
       /\ AtOnce => SendsWhole
       /\ ~Endless => Underway

\* The client's function, from its start to its return.
Pulling ==
  /\ link # "up" => wire = <<>>
  /\ link = "left" => puller = "done"
  /\ puller = "done" => link # "up" /\ result # "none"
  /\ puller # "done" => result = "none"
  /\ told => ask.via # "request"
  /\ puller \in {"start", "wait"} /\ ask.via # "request" =>
       ~told /\ total = 1 /\ buffer = <<>> /\ content = <<>>
  /\ told /\ Endless /\ puller # "done" /\ ask.want = "plain" =>
       puller = "whole" /\ total = 0 /\ content = <<>>
  /\ told /\ Endless /\ puller # "done" /\ ask.want = "protected" =>
       puller = "slow"

Inductive ==
  /\ Formed /\ Ended /\ NotServed /\ Served /\ Pulling
  /\ PulledWhole /\ FailuresHaveReasons

-----------------------------------------------------------------------------
(* Constants and sequences *)

\* What is assumed of a request.
LEMMA Requests ==
  ASSUME NEW a \in Asks
  PROVE  /\ a.want \in {"answer", "plain", "protected", "missing", "nothing",
                         "store"}
         /\ a.via \in {"request", "fast", "slow"}
         /\ a.size \in Nat /\ a.parts \in Nat \ {0}
         /\ a.want \in {"answer", "protected"} => a.size > 0
         /\ a.opens \in BOOLEAN /\ (a.want # "plain" => a.opens)
         /\ a.stores \in BOOLEAN
         /\ a.wait \in {"short", "none"}
         /\ a.want = "plain" => a.via = "fast"
         /\ a.want = "protected" => a.via = "slow"
         /\ a.want = "protected" /\ a.size <= Thres => a.size <= MaxContent
         /\ a.want \in {"answer", "nothing", "store"} => a.via = "request"
BY RequestHandlerAssumption, FileTransferAssumption

\* What is assumed of the sizes.
LEMMA Numbers ==
  /\ Block \in Nat /\ Block > 1 /\ Thres \in Nat /\ Thres >= Block
  /\ MaxWaitLoop \in Nat /\ MaxWaitLoop > 1 /\ Capacity \in Nat
  /\ MaxContent \in Nat /\ MaxPolls \in Nat
BY RequestHandlerAssumption, FileTransferAssumption

\* The bytes of an answer from one position to another.
LEMMA BytesFollow ==
  ASSUME NEW n \in Nat, NEW m \in Nat, n <= m
  PROVE  /\ Bytes(n + 1, m) \in Seq(Nat) /\ Len(Bytes(n + 1, m)) = m - n
         /\ \A i \in 1 .. m - n : Bytes(n + 1, m)[i] = n + i
BY DEF Bytes

\* A file that can be opened is what is to be given.
LEMMA FileFollows ==
  ASSUME NEW m \in Nat, ask.opens
  PROVE  /\ Bytes(0 + 1, m) \in Seq(Nat) /\ Len(Bytes(0 + 1, m)) = m - 0
         /\ Follow(ask, Bytes(0 + 1, m), 0)
<1>1. 0 \in Nat /\ 0 <= m
  OBVIOUS
<1>2. /\ Bytes(0 + 1, m) \in Seq(Nat) /\ Len(Bytes(0 + 1, m)) = m - 0
      /\ \A i \in 1 .. m - 0 : Bytes(0 + 1, m)[i] = 0 + i
  BY <1>1, BytesFollow
<1>3. \A i \in Nat : Given(ask, i) = i
  BY DEF Given
<1> QED BY <1>2, <1>3 DEF Follow

\* What the stream gives from one position to another.
LEMMA ReadFollows ==
  ASSUME NEW n \in Nat, NEW m \in Nat, n <= m,
         ask.opens \in BOOLEAN, var3 = OpenedStream
  PROVE  /\ Read(n + 1, m) \in Seq(Nat) /\ Len(Read(n + 1, m)) = m - n
         /\ Follow(ask, Read(n + 1, m), n)
<1>1. CASE ask.opens
  <2>1. Read(n + 1, m) = Bytes(n + 1, m)
    BY <1>1 DEF Read, OpenedStream
  <2>2. \A i \in Nat : Given(ask, i) = i
    BY <1>1 DEF Given
  <2>3. /\ Bytes(n + 1, m) \in Seq(Nat) /\ Len(Bytes(n + 1, m)) = m - n
        /\ \A i \in 1 .. m - n : Bytes(n + 1, m)[i] = n + i
    BY BytesFollow
  <2> QED BY <2>1, <2>2, <2>3 DEF Follow
<1>2. CASE ~ask.opens
  <2>1. Read(n + 1, m) = [i \in 1 .. m - (n + 1) + 1 |-> Text]
    BY <1>2 DEF Read, OpenedStream
  <2>2. m - (n + 1) + 1 = m - n /\ m - n \in Nat
    OBVIOUS
  <2>3. \A i \in Nat : Given(ask, i) = Text
    BY <1>2 DEF Given
  <2>4. Text \in Nat
    BY DEF Text
  <2> QED BY <2>1, <2>2, <2>3, <2>4 DEF Follow
<1> QED BY <1>1, <1>2

\* What follows nothing is all there is to give.
LEMMA FollowIsDue ==
  ASSUME NEW s \in Seq(Int), Follow(ask, s, 0), Len(s) = ask.size
  PROVE  s = Whole
BY DEF Follow, Whole

\* Two pieces of the file that follow each other are one.
LEMMA FollowConcat ==
  ASSUME NEW s \in Seq(Int), NEW t \in Seq(Int), NEW n \in Nat,
         Follow(ask, s, n), Follow(ask, t, n + Len(s))
  PROVE  /\ s \o t \in Seq(Int) /\ Len(s \o t) = Len(s) + Len(t)
         /\ Follow(ask, s \o t, n)
BY DEF Follow

\* What is taken from the front of a sequence, and what is left.
LEMMA Split ==
  ASSUME NEW s \in Seq(Int), NEW n \in 0 .. Len(s)
  PROVE  /\ SubSeq(s, 1, n) \in Seq(Int) /\ Len(SubSeq(s, 1, n)) = n
         /\ \A i \in 1 .. n : SubSeq(s, 1, n)[i] = s[i]
         /\ Rest(s, n) \in Seq(Int) /\ Len(Rest(s, n)) = Len(s) - n
         /\ \A i \in 1 .. Len(s) - n : Rest(s, n)[i] = s[n + i]
BY DEF Rest

\* A piece of the file in two.
LEMMA FollowSplit ==
  ASSUME NEW s \in Seq(Int), NEW n \in 0 .. Len(s), NEW k \in Nat,
         Follow(ask, s, k)
  PROVE  Follow(ask, SubSeq(s, 1, n), k) /\ Follow(ask, Rest(s, n), k + n)
<1>1. n \in Nat /\ Len(s) \in Nat
  OBVIOUS
<1>2. Follow(ask, SubSeq(s, 1, n), k)
  <2>1. ASSUME NEW i \in 1 .. n
        PROVE  SubSeq(s, 1, n)[i] = Given(ask, k + i)
    <3>1. \A j \in 1 .. n : SubSeq(s, 1, n)[j] = s[j]
      BY Split
    <3>2. SubSeq(s, 1, n)[i] = s[i]
      BY <2>1, <3>1
    <3>3. i \in 1 .. Len(s)
      BY <1>1, <2>1
    <3> QED BY <3>2, <3>3 DEF Follow
  <2>2. Len(SubSeq(s, 1, n)) = n
    BY Split
  <2> QED BY <2>1, <2>2 DEF Follow
<1>3. ASSUME NEW i \in 1 .. Len(s) - n
      PROVE  Rest(s, n)[i] = Given(ask, k + n + i)
  <2>1. Rest(s, n)[i] = s[n + i] /\ n + i \in 1 .. Len(s)
    BY <1>1, Split
  <2>2. s[n + i] = Given(ask, k + (n + i))
    BY <2>1 DEF Follow
  <2> QED BY <1>1, <2>1, <2>2
<1>4. Len(Rest(s, n)) = Len(s) - n
  BY Split
<1> QED BY <1>2, <1>3, <1>4 DEF Follow

\* The request of this connection.
LEMMA Asked ==
  Formed => /\ ask.size \in Nat /\ ask.parts \in Nat \ {0}
            /\ arrived \in Nat /\ taken \in Nat /\ taken <= arrived
            /\ arrived <= ask.parts
            /\ ask.want = "plain" => ask.via = "fast"
            /\ ask.want = "protected" => ask.via = "slow" /\ ask.size > 0
            /\ ask.want = "protected" /\ ask.size <= Thres =>
                 ask.size <= MaxContent
            /\ ask.want \in {"answer", "nothing", "store"} =>
                 ask.via = "request"
            /\ ask.opens \in BOOLEAN /\ (ask.want # "plain" => ask.opens)
            /\ ask.stores \in BOOLEAN /\ ask.wait \in {"short", "none"}
<1> SUFFICES ASSUME Formed
             PROVE  Asked!2
  OBVIOUS
<1>1. ask \in Asks /\ arrived \in 0 .. ask.parts /\ taken \in 0 .. arrived
  BY DEF Formed
<1>2. ask.parts \in Nat \ {0}
  BY <1>1, Requests
<1>3. arrived \in Nat /\ taken \in Nat /\ taken <= arrived
      /\ arrived <= ask.parts
  BY <1>1, <1>2
<1> QED BY <1>1, <1>2, <1>3, Requests

-----------------------------------------------------------------------------
(* Reading the request *)

USE DEF client, request, progress, unions

\* The last part ends the request, and only then is a file served.
LEMMA ReadPartKeeps ==
  Inductive /\ ReadPart /\ UNCHANGED client => Inductive'
<1> SUFFICES ASSUME Inductive, ReadPart, UNCHANGED client
             PROVE  Inductive'
  OBVIOUS
<1> USE Asked, Numbers DEF Inductive, ReadPart
<1>1. Formed'
  <2>1. endRequest' \in BOOLEAN /\ pc' \in {"answer", "clock"}
    BY Zenon
  <2>2. taken' \in 0 .. arrived'
    <3>1. taken \in Nat /\ arrived \in Nat /\ taken < arrived
      BY Asked
    <3>2. taken' = taken + 1 /\ arrived' = arrived
      OBVIOUS
    <3> QED BY <3>1, <3>2
  <2> QED BY <2>1, <2>2 DEF Formed
<1>2. Ended'
  BY DEF Formed, Ended
<1>3. NotServed'
  BY DEF Formed, Ended, NotServed, Serves
<1>4. Served'
  BY DEF Formed, Ended, NotServed, Served, Serves, Unparsed
<1>5. Pulling'
  BY DEF Pulling, Ended, NotServed, Endless, Serves, Total, Large
<1>6. PulledWhole'
  BY DEF PulledWhole, Stored, Due
<1>7. FailuresHaveReasons'
  BY DEF FailuresHaveReasons, Ended
<1> QED BY <1>1, <1>2, <1>3, <1>4, <1>5, <1>6, <1>7

\* Nothing changes but the place in the turn.
LEMMA ReadNothingKeeps ==
  Inductive /\ ReadNothing /\ UNCHANGED client => Inductive'
<1> SUFFICES ASSUME Inductive, ReadNothing, UNCHANGED client
             PROVE  Inductive'
  OBVIOUS
<1> USE Asked, Numbers DEF Inductive, ReadNothing
<1>1. Formed'
  BY DEF Formed
<1>2. Ended'
  BY DEF Formed, Ended
<1>3. NotServed'
  BY DEF Formed, Ended, NotServed, Serves
<1>4. Served'
  BY DEF Formed, Ended, NotServed, Served, Serves, Unparsed
<1>5. Pulling'
  BY DEF Pulling, Ended, NotServed, Endless, Serves, Total, Large
<1>6. PulledWhole'
  BY DEF PulledWhole, Stored, Due
<1>7. FailuresHaveReasons'
  BY DEF FailuresHaveReasons, Ended
<1> QED BY <1>1, <1>2, <1>3, <1>4, <1>5, <1>6, <1>7

\* A request that is not read whole is not served.
LEMMA ReadFailsKeeps ==
  Inductive /\ ReadFails /\ UNCHANGED client => Inductive'
<1> SUFFICES ASSUME Inductive, ReadFails, UNCHANGED client
             PROVE  Inductive'
  OBVIOUS
<1> USE Asked, Numbers DEF Inductive, ReadFails
<1>1. Formed'
  BY DEF Formed
<1>2. Ended'
  BY DEF Formed, Ended
<1>3. NotServed'
  BY DEF Formed, Ended, NotServed, Serves
<1>4. Served'
  BY DEF Formed, Ended, NotServed, Served, Serves, Unparsed
<1>5. Pulling'
  BY DEF Pulling, Ended, NotServed, Endless, Serves, Total, Large
<1>6. PulledWhole'
  BY DEF PulledWhole, Stored, Due
<1>7. FailuresHaveReasons'
  BY DEF FailuresHaveReasons, Ended
<1> QED BY <1>1, <1>2, <1>3, <1>4, <1>5, <1>6, <1>7

\* Waiting may end a request that is not whole.
LEMMA ReadIdleKeeps ==
  Inductive /\ ReadIdle /\ UNCHANGED client => Inductive'
<1> SUFFICES ASSUME Inductive, ReadIdle, UNCHANGED client
             PROVE  Inductive'
  OBVIOUS
<1> USE Asked, Numbers DEF Inductive, ReadIdle
<1>1. Formed'
  <2>1. endRequest' \in BOOLEAN /\ pc' \in {"answer", "clock"}
    BY Zenon
  <2>2. maxWait \in Int /\ maxWait > 0 /\ maxWait' = maxWait - 1
    BY DEF Formed, Ended
  <2>3. maxWait' \in Int
    BY <2>2
  <2> QED BY <2>1, <2>3 DEF Formed
<1>2. Ended'
  <2>0. maxWait \in Int /\ maxWait > 0 /\ maxWait' = maxWait - 1
    BY DEF Formed, Ended
  <2>1. ~endRequest' => maxWait' # 0 /\ pc' = "clock"
    BY Zenon
  <2>2. taken # ask.parts
    BY DEF Ended
  <2>3. ~endRequest' => maxWait' > 0
    BY <2>0, <2>1
  <2> QED BY <2>1, <2>2, <2>3 DEF Ended
<1>3. NotServed'
  <2>0. maxWait \in Int /\ maxWait > 0 /\ maxWait' = maxWait - 1
    BY DEF Formed, Ended
  <2>1. maxWait' >= -1
    BY <2>0
  <2>2. ~Serves
    BY DEF Ended, Serves
  <2> QED BY <2>1, <2>2 DEF NotServed, Serves
<1>4. Served'
  BY DEF Formed, Ended, NotServed, Served, Serves, Unparsed
<1>5. Pulling'
  BY DEF Pulling, Ended, NotServed, Endless, Serves, Total, Large
<1>6. PulledWhole'
  BY DEF PulledWhole, Stored, Due
<1>7. FailuresHaveReasons'
  BY DEF FailuresHaveReasons, Ended
<1> QED BY <1>1, <1>2, <1>3, <1>4, <1>5, <1>6, <1>7

\* A request is read once.
LEMMA ReadDoneKeeps ==
  Inductive /\ ReadDone /\ UNCHANGED client => Inductive'
<1> SUFFICES ASSUME Inductive, ReadDone, UNCHANGED client
             PROVE  Inductive'
  OBVIOUS
<1> USE Asked, Numbers DEF Inductive, ReadDone
<1>1. Formed'
  BY DEF Formed
<1>2. Ended'
  BY DEF Formed, Ended
<1>3. NotServed'
  BY DEF Formed, Ended, NotServed, Serves
<1>4. Served'
  <2>1. CASE ~Serves \/ timeout = "short"
    BY <2>1 DEF Formed, Ended, NotServed, Served, Serves, Unparsed
  <2>2. CASE Serves /\ timeout = "none"
    <3>1. Serves' /\ timeout' = "none"
      BY <2>2 DEF Serves
    <3>2. Members'
      BY <2>2 DEF Served, Members, OpenedStream, Formed, Large, Total
    <3>3. Endless' => OnlyHeaders'
      BY <2>2 DEF Served, Members, Formed, OnlyHeaders, Endless, Serves,
                  Large, Total
    <3>4. Blockwise' => SendsBlocks'
      BY <2>2 DEF Served, Members, Formed, SendsBlocks, JustParsed, Serves,
                  Blockwise, Large, Total
    <3>5. AtOnce' => SendsWhole'
      BY <2>2 DEF Served, Members, Formed, SendsWhole, JustParsed, Serves,
                  AtOnce, Large, Total
    <3>6. ~Endless' => Underway'
      BY <2>2 DEF Served, Underway, Endless, Serves, Sent, Loop, Large, Total
    <3> QED BY <3>1, <3>2, <3>3, <3>4, <3>5, <3>6 DEF Served
  <2> QED BY <2>1, <2>2 DEF Formed
<1>5. Pulling'
  BY DEF Pulling, Ended, NotServed, Endless, Serves, Total, Large
<1>6. PulledWhole'
  BY DEF PulledWhole, Stored, Due
<1>7. FailuresHaveReasons'
  BY DEF FailuresHaveReasons, Ended
<1> QED BY <1>1, <1>2, <1>3, <1>4, <1>5, <1>6, <1>7

-----------------------------------------------------------------------------
(* Parsing it *)

\* With a response at hand the request is not parsed again.
LEMMA ParseDoneKeeps ==
  Inductive /\ ParseDone /\ UNCHANGED client => Inductive'
<1> SUFFICES ASSUME Inductive, ParseDone, UNCHANGED client
             PROVE  Inductive'
  OBVIOUS
<1> USE Asked, Numbers DEF Inductive, ParseDone
<1>1. Formed'
  BY DEF Formed
<1>2. Ended'
  BY DEF Formed, Ended
<1>3. NotServed'
  BY DEF Formed, Ended, NotServed, Serves
<1>4. Served'
  <2>1. CASE ~Serves \/ timeout = "short"
    BY <2>1 DEF Formed, Ended, NotServed, Served, Serves, Unparsed
  <2>2. CASE Serves /\ timeout = "none"
    <3>1. Serves' /\ timeout' = "none"
      BY <2>2 DEF Serves
    <3>2. Members'
      BY <2>2 DEF Served, Members, OpenedStream, Formed, Large, Total
    <3>3. Endless' => OnlyHeaders'
      BY <2>2 DEF Served, Members, Formed, OnlyHeaders, Endless, Serves,
                  Large, Total
    <3>4. Blockwise' => SendsBlocks'
      BY <2>2 DEF Served, Members, Formed, SendsBlocks, JustParsed, Serves,
                  Blockwise, Large, Total
    <3>5. AtOnce' => SendsWhole'
      BY <2>2 DEF Served, Members, Formed, SendsWhole, JustParsed, Serves,
                  AtOnce, Large, Total
    <3>6. ~Endless' => Underway'
      BY <2>2 DEF Served, Underway, Endless, Serves, Sent, Loop, Large, Total
    <3> QED BY <3>1, <3>2, <3>3, <3>4, <3>5, <3>6 DEF Served
  <2> QED BY <2>1, <2>2 DEF Formed
<1>5. Pulling'
  BY DEF Pulling, Ended, NotServed, Endless, Serves, Total, Large
<1>6. PulledWhole'
  BY DEF PulledWhole, Stored, Due
<1>7. FailuresHaveReasons'
  BY DEF FailuresHaveReasons, Ended
<1> QED BY <1>1, <1>2, <1>3, <1>4, <1>5, <1>6, <1>7

\* A task serves no file.
LEMMA ParseTaskKeeps ==
  Inductive /\ ParseTask /\ UNCHANGED client => Inductive'
<1> SUFFICES ASSUME Inductive, ParseTask, UNCHANGED client
             PROVE  Inductive'
  OBVIOUS
<1> USE DEF Inductive
<1>0. ~Serves /\ endRequest
  BY DEF ParseTask, Parse, Wanted, Serves, Ended
<1>1. Formed'
  <2>1. response' \in Seq(Nat)
    <3>1. Bytes(1, ask.size) \in Seq(Nat) /\ <<Text>> \in Seq(Nat)
      BY Asked DEF Bytes, Text
    <3>2. <<>> \in Seq(Nat)
      OBVIOUS
    <3> QED BY <3>1, <3>2 DEF ParseTask
  <2>2. /\ pc' = "send" /\ maxWait' = 0
        /\ UNCHANGED <<ask, arrived, taken, link, wire, closing, endRequest>>
        /\ UNCHANGED <<sendBytes, timeout, var1, pos, puller, told, result>>
    BY DEF ParseTask
  <2> QED BY <2>1, <2>2 DEF Formed
<1>2. Ended'
  BY <1>0 DEF Ended, ParseTask
<1>3. NotServed'
  BY <1>0 DEF NotServed, Serves, ParseTask
<1>4. Served'
  BY <1>0 DEF Served, Serves, ParseTask
<1>5. Pulling'
  BY <1>0 DEF Pulling, ParseTask, NotServed, Endless, Serves, Total, Large
<1>6. PulledWhole'
  BY DEF ParseTask, PulledWhole, Stored, Due
<1>7. FailuresHaveReasons'
  BY DEF ParseTask, FailuresHaveReasons
<1> QED BY <1>1, <1>2, <1>3, <1>4, <1>5, <1>6, <1>7

\* Nor does a "sto", whatever time-out it sets.
LEMMA ParseStoreKeeps ==
  Inductive /\ ParseStore /\ UNCHANGED client => Inductive'
<1> SUFFICES ASSUME Inductive, ParseStore, UNCHANGED client
             PROVE  Inductive'
  OBVIOUS
<1> USE DEF Inductive
<1>0. ~Serves /\ endRequest
  BY DEF ParseStore, Parse, Wanted, Serves, Ended
<1>1. Formed'
  <2>1. response' \in Seq(Nat) /\ timeout' \in {"short", "none"}
    BY Asked DEF ParseStore
  <2>2. /\ pc' = "send" /\ maxWait' = 0
        /\ UNCHANGED <<ask, arrived, taken, link, wire, closing, endRequest>>
        /\ UNCHANGED <<sendBytes, var1, pos, puller, told, result>>
    BY DEF ParseStore
  <2> QED BY <2>1, <2>2 DEF Formed
<1>2. Ended'
  BY <1>0 DEF Ended, ParseStore
<1>3. NotServed'
  BY <1>0 DEF NotServed, Serves, ParseStore
<1>4. Served'
  BY <1>0 DEF Served, Serves, ParseStore
<1>5. Pulling'
  BY <1>0 DEF Pulling, ParseStore, NotServed, Endless, Serves, Total, Large
<1>6. PulledWhole'
  BY DEF ParseStore, PulledWhole, Stored, Due
<1>7. FailuresHaveReasons'
  BY DEF ParseStore, FailuresHaveReasons
<1> QED BY <1>1, <1>2, <1>3, <1>4, <1>5, <1>6, <1>7

\* Nor does a path that leads nowhere.
LEMMA ParseMissingKeeps ==
  Inductive /\ ParseMissing /\ UNCHANGED client => Inductive'
<1> SUFFICES ASSUME Inductive, ParseMissing, UNCHANGED client
             PROVE  Inductive'
  OBVIOUS
<1> USE DEF Inductive
<1>0. ~Serves /\ endRequest
  BY DEF ParseMissing, Parse, Wanted, Serves, Ended
<1>1. Formed'
  <2>1. /\ pc' = "send" /\ maxWait' = -1 /\ timeout' = "none"
        /\ sendBytes' \in Nat
        /\ UNCHANGED <<ask, arrived, taken, link, wire, closing, endRequest>>
        /\ UNCHANGED <<response, var1, pos, puller, told, result>>
    BY DEF ParseMissing, TransferTimeout, Formed
  <2> QED BY <2>1 DEF Formed
<1>2. Ended'
  BY <1>0 DEF Ended, ParseMissing
<1>3. NotServed'
  BY <1>0 DEF NotServed, Serves, ParseMissing
<1>4. Served'
  BY <1>0 DEF Served, Serves, ParseMissing
<1>5. Pulling'
  BY <1>0 DEF Pulling, ParseMissing, NotServed, Endless, Serves, Total, Large
<1>6. PulledWhole'
  BY DEF ParseMissing, PulledWhole, Stored, Due
<1>7. FailuresHaveReasons'
  BY DEF ParseMissing, FailuresHaveReasons
<1> QED BY <1>1, <1>2, <1>3, <1>4, <1>5, <1>6, <1>7

\* The unions take the size, the flag and the stream; for an empty file in
\* every turn.
LEMMA ParsePlainKeeps ==
  Inductive /\ ParsePlain /\ UNCHANGED client => Inductive'
<1> SUFFICES ASSUME Inductive, ParsePlain, UNCHANGED client
             PROVE  Inductive'
  OBVIOUS
<1> USE DEF Inductive
<1>0. Serves /\ Serves' /\ endRequest /\ ask.want = "plain" /\ ask' = ask
  BY DEF ParsePlain, Parse, Wanted, Serves, Ended
<1>a. Total \in Nat /\ Block \in Nat /\ Thres \in Nat /\ Block > 0
  BY Asked, Numbers DEF Total
<1>b. response = <<>>
  BY DEF ParsePlain, Parse
<1>1. Formed'
  <2>1. response' \in Seq(Nat)
    <3>1. [i \in 1 .. Block |-> Text] \in Seq(Nat)
      BY <1>a DEF Text
    <3>2. response \in Seq(Nat)
      BY DEF Formed
    <3> QED BY <3>1, <3>2 DEF ParsePlain
  <2>2. /\ pc' = "send" /\ maxWait' = -1 /\ timeout' = "none" /\ var1' = Total
        /\ pos' = 0 /\ sendBytes' \in Nat
        /\ UNCHANGED <<ask, arrived, taken, link, wire, closing, endRequest>>
        /\ UNCHANGED <<puller, told, result>>
    BY <1>a DEF ParsePlain, TransferTimeout, Formed, Total
  <2> QED BY <1>a, <2>1, <2>2 DEF Formed
<1>2. Ended'
  BY <1>0 DEF Ended, ParsePlain
<1>3. NotServed'
  BY <1>0 DEF NotServed
<1>4. Served'
  <2>1. timeout' = "none" /\ maxWait' = -1 /\ pc' = "send" /\ var1' = Total
        /\ pos' = 0 /\ closing' = closing /\ wire' = wire /\ told' = told
    BY DEF ParsePlain, TransferTimeout, client, Total
  <2>2. Members'
    BY <1>0, <2>1 DEF Members, ParsePlain, OpenedStream, Total, Large
  <2>3. Unparsed \/ (Members /\ (Endless => OnlyHeaders)
                      /\ (Blockwise => SendsBlocks)
                      /\ (AtOnce => SendsWhole))
    BY <1>0 DEF Served
  <2>4. pc = "answer"
    BY DEF ParsePlain, Parse
  <2>5. Unparsed \/ (OnlyHeaders /\ Total = 0)
    BY <1>0, <1>a, <1>b, <2>3, <2>4 DEF Members, SendsBlocks, SendsWhole,
       Endless, Blockwise, AtOnce
  <2>6. Endless' => OnlyHeaders'
    <3>1. sendBytes = 0
      BY <1>0, <2>5 DEF Unparsed, OnlyHeaders
    <3>2. Endless' => sendBytes' = sendBytes /\ response' = response
      BY <1>0, <1>a DEF ParsePlain, Endless, Total
    <3>3. Unparsed \/ OnlyHeaders
      BY <2>5
    <3> QED BY <1>0, <1>b, <2>1, <2>4, <3>1, <3>2, <3>3
            DEF OnlyHeaders, Unparsed, Total
  <2>7. Blockwise' => SendsBlocks'
    BY <1>0, <1>a, <1>b, <2>1, <2>5 DEF SendsBlocks, JustParsed, OnlyHeaders,
       Unparsed, Blockwise, Total, Large, ParsePlain
  <2>8. AtOnce' => SendsWhole'
    BY <1>0, <1>a, <1>b, <2>1, <2>5 DEF SendsWhole, JustParsed, OnlyHeaders,
       Unparsed, AtOnce, Total, Large, ParsePlain
  <2>9. Underway'
    BY <2>1 DEF Underway
  <2> QED BY <1>0, <2>1, <2>2, <2>6, <2>7, <2>8, <2>9 DEF Served
<1>5. Pulling'
  BY <1>0 DEF Pulling, ParsePlain, Endless, Serves, Total, Large
<1>6. PulledWhole'
  BY DEF ParsePlain, PulledWhole, Stored, Due
<1>7. FailuresHaveReasons'
  BY DEF ParsePlain, FailuresHaveReasons
<1> QED BY <1>1, <1>2, <1>3, <1>4, <1>5, <1>6, <1>7

\* The unions take the size, the folder and its file; for a large one in
\* every turn.
LEMMA ParseProtectedKeeps ==
  Inductive /\ ParseProtected /\ UNCHANGED client => Inductive'
<1> SUFFICES ASSUME Inductive, ParseProtected, UNCHANGED client
             PROVE  Inductive'
  OBVIOUS
<1> USE DEF Inductive
<1>0. Serves /\ Serves' /\ endRequest /\ ask.want = "protected" /\ ask' = ask
  BY DEF ParseProtected, Parse, Wanted, Serves, Ended
<1>a. Total \in Nat /\ Total > 0 /\ Thres \in Nat
  BY <1>0, Asked, Numbers DEF Total
<1>b. response = <<>>
  BY DEF ParseProtected, Parse
<1>1. Formed'
  <2>1. /\ pc' = "send" /\ maxWait' = -1 /\ timeout' = "none" /\ var1' = Total
        /\ sendBytes' = 1
        /\ UNCHANGED <<ask, arrived, taken, link, wire, closing, endRequest>>
        /\ UNCHANGED <<response, pos, puller, told, result>>
    BY DEF ParseProtected, TransferTimeout, Total
  <2> QED BY <1>a, <2>1 DEF Formed
<1>2. Ended'
  BY <1>0 DEF Ended, ParseProtected
<1>3. NotServed'
  BY <1>0 DEF NotServed
<1>4. Served'
  <2>1. timeout' = "none" /\ maxWait' = -1 /\ pc' = "send" /\ var1' = Total
        /\ pos' = pos /\ closing' = closing /\ wire' = wire /\ told' = told
        /\ sendBytes' = 1 /\ response' = response
    BY DEF ParseProtected, TransferTimeout, client, Total
  <2>2. Members'
    BY <1>0, <1>b, <2>1 DEF Members, ParseProtected, Total, Large
  <2>3. Unparsed \/ (Members /\ (Endless => OnlyHeaders)
                      /\ (Blockwise => SendsBlocks)
                      /\ (AtOnce => SendsWhole))
    BY <1>0 DEF Served
  <2>4. pc = "answer"
    BY DEF ParseProtected, Parse
  <2>5. Unparsed \/ (OnlyHeaders /\ Large)
    BY <1>0, <1>a, <1>b, <2>3, <2>4 DEF SendsWhole, Endless, AtOnce
  <2>6. Endless' => OnlyHeaders'
    BY <1>0, <1>a, <1>b, <2>1, <2>5 DEF OnlyHeaders, Unparsed, Endless, Total,
       Large
  <2>7. ~Blockwise'
    BY <1>0 DEF Blockwise
  <2>8. AtOnce' => SendsWhole'
    BY <1>0, <1>a, <1>b, <2>1, <2>5 DEF SendsWhole, JustParsed,
       Unparsed, AtOnce, Total, Large
  <2>9. Underway'
    BY <2>1 DEF Underway
  <2> QED BY <1>0, <2>1, <2>2, <2>6, <2>7, <2>8, <2>9 DEF Served
<1>5. Pulling'
  BY <1>0 DEF Pulling, ParseProtected, Endless, Serves, Total, Large
<1>6. PulledWhole'
  BY DEF ParseProtected, PulledWhole, Stored, Due
<1>7. FailuresHaveReasons'
  BY DEF ParseProtected, FailuresHaveReasons
<1> QED BY <1>1, <1>2, <1>3, <1>4, <1>5, <1>6, <1>7

-----------------------------------------------------------------------------
(* Sending, and the end of a turn *)

\* Only where no file was found is there no stream.
LEMMA SendNullptrKeeps ==
  Inductive /\ SendNullptr /\ UNCHANGED client => Inductive'
<1> SUFFICES ASSUME Inductive, SendNullptr, UNCHANGED client
             PROVE  Inductive'
  OBVIOUS
<1> USE DEF Inductive
<1>0. ~Serves /\ endRequest
  <2>1. pc = "send" /\ maxWait = -1 /\ var3 = "null" /\ endRequest
    BY DEF SendNullptr, Ended
  <2>2. Serves => Members /\ ask.want = "protected" /\ response # <<>>
    BY <2>1 DEF Served, Unparsed, Members, OpenedStream, Serves
  <2>3. Serves => Endless \/ AtOnce
    BY <2>2, Asked, Numbers DEF Endless, AtOnce, Large, Total
  <2> QED BY <2>1, <2>2, <2>3 DEF Served, Unparsed, OnlyHeaders, SendsWhole
<1>a. wire \in Seq(Int) /\ <<Text>> \in Seq(Int) /\ <<Text>> \in Seq(Nat)
  <2>1. wire \in Seq(Int)
    BY DEF Formed
  <2>2. Text \in Nat /\ Text \in Int
    BY DEF Text
  <2> QED BY <2>1, <2>2
<1>b. wire' = wire \/ (link = "up" /\ wire' = wire \o <<Text>>)
  BY DEF SendNullptr, Put
<1>c. wire' \in Seq(Int)
  BY <1>a, <1>b
<1>1. Formed'
  <2>1. /\ pc' = "clock" /\ maxWait' = 0 /\ timeout' = "short"
        /\ closing' = TRUE /\ response' = <<Text>>
        /\ UNCHANGED <<ask, arrived, taken, link, endRequest>>
        /\ UNCHANGED <<sendBytes, var1, pos, puller, told, result>>
    BY DEF SendNullptr
  <2> QED BY <1>a, <1>c, <2>1 DEF Formed
<1>2. Ended'
  BY <1>0 DEF Ended, SendNullptr
<1>3. NotServed'
  <2>1. \A i \in 1 .. Len(wire') : wire'[i] >= 0
    BY <1>0, <1>a, <1>b DEF NotServed, Text
  <2> QED BY <1>0, <2>1 DEF NotServed, SendNullptr
<1>4. Served'
  BY <1>0 DEF Served, Serves, SendNullptr
<1>5. Pulling'
  BY <1>0, <1>b DEF Pulling, SendNullptr, NotServed, Endless, Serves, Total,
     Large
<1>6. PulledWhole'
  BY DEF SendNullptr, PulledWhole, Stored, Due
<1>7. FailuresHaveReasons'
  BY DEF SendNullptr, FailuresHaveReasons
<1> QED BY <1>1, <1>2, <1>3, <1>4, <1>5, <1>6, <1>7

\* The header is the first that goes over the connection.
LEMMA SendHeaderKeeps ==
  Inductive /\ SendHeader /\ UNCHANGED client => Inductive'
<1> SUFFICES ASSUME Inductive, SendHeader, UNCHANGED client
             PROVE  Inductive'
  OBVIOUS
<1> USE DEF Inductive
<1>0. /\ Serves /\ timeout = "none" /\ endRequest /\ maxWait = -1 /\ pc = "send"
      /\ var1 = Total /\ ~closing
  BY Asked, Numbers DEF SendHeader, Served, Members, Unparsed, Serves, Ended,
     NotServed, OnlyHeaders, SendsBlocks, SendsWhole, JustParsed, Endless,
     Blockwise, AtOnce, Total, Large
<1>a. /\ wire \in Seq(Int) /\ Total \in Nat /\ OkHeader(Total) \in Int
      /\ <<OkHeader(Total)>> \in Seq(Int) /\ OkHeader(Total) <= -10
  <2>1. wire \in Seq(Int) /\ Total \in Nat
    BY Asked DEF Formed, Total
  <2>2. OkHeader(Total) \in Int /\ OkHeader(Total) <= -10
    BY <2>1 DEF OkHeader
  <2> QED BY <2>1, <2>2
<1>b. /\ UNCHANGED <<ask, arrived, taken, link, pc, closing, endRequest>>
      /\ UNCHANGED <<response, timeout, var1, var2, var3, pos>>
      /\ UNCHANGED <<puller, total, buffer, content, told, polls, result>>
  BY DEF SendHeader
<1>c. \/ wire' = wire /\ ~(Len(wire) <= Capacity /\ link = "up")
      \/ link = "up" /\ wire' = wire \o <<OkHeader(Total)>>
  BY <1>0 DEF SendHeader, Put
<1>d. wire' \in Seq(Int)
  <2>1. OkHeader(Total) \in Int /\ wire \in Seq(Int)
    BY <1>a DEF OkHeader, Formed
  <2>2. wire \o <<OkHeader(Total)>> \in Seq(Int)
    BY <2>1
  <2> QED BY <1>c, <2>1, <2>2
<1>e. IF sendBytes = 1 THEN maxWait' = -3 /\ sendBytes' = 0
                       ELSE maxWait' = -2 /\ sendBytes' = sendBytes
  BY DEF SendHeader
<1>1. Formed'
  <2>1. maxWait' \in Int /\ sendBytes' \in Nat
    BY <1>e DEF Formed
  <2> QED BY <1>b, <1>d, <2>1 DEF Formed
<1>2. Ended'
  BY <1>0, <1>b DEF Ended
<1>3. NotServed'
  BY <1>0, <1>b DEF NotServed, Serves
<1>4. Served'
  <2>1. Members'
    BY <1>0, <1>b, <1>e, Asked, Numbers DEF Members, OpenedStream, Served, Unparsed,
       OnlyHeaders, SendsBlocks, SendsWhole, Endless, Blockwise, AtOnce,
       Serves, Total, Large
  <2>2. Endless => OnlyHeaders'
    <3>1. CASE Endless
      <4>1. OnlyHeaders /\ Members
        BY <1>0, <3>1 DEF Served, Unparsed
      <4>2. \A i \in 1 .. Len(wire') : wire'[i] = OkHeader(Total)
        BY <1>a, <1>c, <4>1 DEF OnlyHeaders
      <4> QED BY <1>0, <1>b, <1>e, <4>1, <4>2 DEF OnlyHeaders, Members, Total,
                 Large
    <3> QED BY <3>1
  <2>3. Blockwise => SendsBlocks'
    BY <1>0, <1>b, <1>e, Numbers DEF Served, Unparsed, SendsBlocks, JustParsed,
       Blockwise, Total
  <2>4. AtOnce => SendsWhole'
    BY <1>0, <1>b, <1>e DEF Served, Unparsed, Members, SendsWhole, JustParsed,
       AtOnce, Total
  <2>5. ~Endless => Underway'
    <3>1. CASE ~Endless
      <4>1. wire = <<>> /\ ~told
        BY <1>0, <1>a, <3>1 DEF Served, Unparsed, SendsBlocks, SendsWhole,
           JustParsed, Endless, Blockwise, AtOnce, Serves, Total
      <4>2. link = "up" => wire' = <<OkHeader(Total)>>
        BY <1>a, <1>c, <4>1, Numbers
      <4>3. Sent' = 0
        BY <1>0, <1>a, <1>b, <1>e, <3>1 DEF Sent, Large, Total, Served,
           Unparsed, SendsWhole, AtOnce, Endless, Serves
      <4> QED BY <1>b, <4>1, <4>2, <4>3 DEF Underway, Total
    <3> QED BY <3>1
  <2>6. /\ Endless' = Endless /\ Blockwise' = Blockwise /\ AtOnce' = AtOnce
        /\ Serves' = Serves
    BY <1>b DEF Endless, Blockwise, AtOnce, Serves, Total, Large
  <2> QED BY <1>0, <1>b, <2>1, <2>2, <2>3, <2>4, <2>5, <2>6 DEF Served
<1>5. Pulling'
  <2>1. link # "up" => wire' = wire
    BY <1>c
  <2> QED BY <1>b, <2>1 DEF Pulling, Endless, Serves, Total, Large
<1>6. PulledWhole'
  BY DEF SendHeader, PulledWhole, Stored, Due
<1>7. FailuresHaveReasons'
  BY DEF SendHeader, FailuresHaveReasons
<1> QED BY <1>1, <1>2, <1>3, <1>4, <1>5, <1>6, <1>7

\* A turn that does nothing.
LEMMA RespondNoMoreKeeps ==
  Inductive /\ RespondNoMore /\ UNCHANGED client => Inductive'
<1> SUFFICES ASSUME Inductive, RespondNoMore, UNCHANGED client
             PROVE  Inductive'
  OBVIOUS
<1> USE Asked, Numbers DEF Inductive, RespondNoMore
<1>1. Formed'
  BY DEF Formed
<1>2. Ended'
  BY DEF Formed, Ended
<1>3. NotServed'
  BY DEF Formed, Ended, NotServed, Serves
<1>4. Served'
  BY DEF Formed, Ended, NotServed, Served, Serves, Unparsed,
         Members
<1>5. Pulling'
  BY DEF Pulling, Ended, NotServed, Endless, Serves, Total, Large
<1>6. PulledWhole'
  BY DEF PulledWhole, Stored, Due
<1>7. FailuresHaveReasons'
  BY DEF FailuresHaveReasons, Ended
<1> QED BY <1>1, <1>2, <1>3, <1>4, <1>5, <1>6, <1>7

\* A transfer has no clock, so the union that would hold it is its own.
LEMMA TickKeeps ==
  Inductive /\ Tick /\ UNCHANGED client => Inductive'
<1> SUFFICES ASSUME Inductive, Tick, UNCHANGED client
             PROVE  Inductive'
  OBVIOUS
<1> USE Asked, Numbers DEF Inductive, Tick
<1>1. Formed'
  BY DEF Formed
<1>2. Ended'
  BY DEF Formed, Ended
<1>3. NotServed'
  BY DEF Formed, Ended, NotServed, Serves
<1>4. Served'
  <2>1. CASE ~Serves \/ timeout = "short"
    BY <2>1 DEF Formed, Ended, NotServed, Served, Serves, Unparsed
  <2>2. CASE Serves /\ timeout = "none"
    <3>1. Serves' /\ timeout' = "none"
      BY <2>2 DEF Serves
    <3>2. Members'
      BY <2>2 DEF Served, Members, OpenedStream, Formed, ReadClock, Large, Total
    <3>3. Endless' => OnlyHeaders'
      BY <2>2 DEF Served, Members, Formed, OnlyHeaders, Endless, Serves,
                  Large, Total
    <3>4. Blockwise' => SendsBlocks'
      BY <2>2 DEF Served, Members, Formed, SendsBlocks, JustParsed, Serves,
                  Blockwise, Large, Total
    <3>5. AtOnce' => SendsWhole'
      BY <2>2 DEF Served, Members, Formed, SendsWhole, JustParsed, Serves,
                  AtOnce, Large, Total
    <3>6. ~Endless' => Underway'
      BY <2>2 DEF Served, Underway, Endless, Serves, Sent, Loop, Large, Total
    <3> QED BY <3>1, <3>2, <3>3, <3>4, <3>5, <3>6 DEF Served
  <2> QED BY <2>1, <2>2 DEF Formed
<1>5. Pulling'
  BY DEF Pulling, Ended, NotServed, Endless, Serves, Total, Large
<1>6. PulledWhole'
  BY DEF PulledWhole, Stored, Due
<1>7. FailuresHaveReasons'
  BY DEF FailuresHaveReasons, Ended
<1> QED BY <1>1, <1>2, <1>3, <1>4, <1>5, <1>6, <1>7

\* Nor does a transfer expire.
LEMMA ExpireKeeps ==
  Inductive /\ Expire /\ UNCHANGED client => Inductive'
<1> SUFFICES ASSUME Inductive, Expire, UNCHANGED client
             PROVE  Inductive'
  OBVIOUS
<1> USE Asked, Numbers DEF Inductive, Expire
<1>1. Formed'
  BY DEF Formed
<1>2. Ended'
  BY DEF Formed, Ended
<1>3. NotServed'
  BY DEF Formed, Ended, NotServed, Serves
<1>4. Served'
  BY DEF Formed, Ended, NotServed, Served, Serves, Unparsed
<1>5. Pulling'
  BY DEF Pulling, Ended, NotServed, Endless, Serves, Total, Large
<1>6. PulledWhole'
  BY DEF PulledWhole, Stored, Due
<1>7. FailuresHaveReasons'
  BY DEF FailuresHaveReasons, Ended
<1> QED BY <1>1, <1>2, <1>3, <1>4, <1>5, <1>6, <1>7

-----------------------------------------------------------------------------
(* The network *)

\* What arrives is not read yet.
LEMMA ArriveKeeps ==
  Inductive /\ Arrive => Inductive'
<1> SUFFICES ASSUME Inductive, Arrive
             PROVE  Inductive'
  OBVIOUS
<1> USE Asked, Numbers DEF Inductive, Arrive
<1>1. Formed'
  BY DEF Formed
<1>2. Ended'
  BY DEF Formed, Ended
<1>3. NotServed'
  BY DEF Formed, Ended, NotServed, Serves
<1>4. Served'
  <2>1. CASE ~Serves \/ timeout = "short"
    BY <2>1 DEF Formed, Ended, NotServed, Served, Serves, Unparsed
  <2>2. CASE Serves /\ timeout = "none"
    <3>1. Serves' /\ timeout' = "none"
      BY <2>2 DEF Serves
    <3>2. Members'
      BY <2>2 DEF Served, Members, OpenedStream, Formed, Large, Total
    <3>3. Endless' => OnlyHeaders'
      BY <2>2 DEF Served, Members, Formed, OnlyHeaders, Endless, Serves,
                  Large, Total
    <3>4. Blockwise' => SendsBlocks'
      BY <2>2 DEF Served, Members, Formed, SendsBlocks, JustParsed, Serves,
                  Blockwise, Large, Total
    <3>5. AtOnce' => SendsWhole'
      BY <2>2 DEF Served, Members, Formed, SendsWhole, JustParsed, Serves,
                  AtOnce, Large, Total
    <3>6. ~Endless' => Underway'
      BY <2>2 DEF Served, Underway, Endless, Serves, Sent, Loop, Large, Total
    <3> QED BY <3>1, <3>2, <3>3, <3>4, <3>5, <3>6 DEF Served
  <2> QED BY <2>1, <2>2 DEF Formed
<1>5. Pulling'
  BY DEF Pulling, Ended, NotServed, Endless, Serves, Total, Large
<1>6. PulledWhole'
  BY DEF PulledWhole, Stored, Due
<1>7. FailuresHaveReasons'
  BY DEF FailuresHaveReasons, Ended
<1> QED BY <1>1, <1>2, <1>3, <1>4, <1>5, <1>6, <1>7

\* With the connection all that was on its way is lost.
LEMMA BreakKeeps ==
  Inductive /\ Break => Inductive'
<1> SUFFICES ASSUME Inductive, Break
             PROVE  Inductive'
  OBVIOUS
<1> USE Asked, Numbers DEF Inductive, Break
<1>1. Formed'
  BY DEF Formed
<1>2. Ended'
  BY DEF Formed, Ended
<1>3. NotServed'
  BY DEF Formed, Ended, NotServed, Serves
<1>4. Served'
  <2>1. CASE ~Serves \/ timeout = "short"
    BY <2>1 DEF Formed, Ended, NotServed, Served, Serves, Unparsed
  <2>2. CASE Serves /\ timeout = "none"
    <3>1. Serves' /\ timeout' = "none"
      BY <2>2 DEF Serves
    <3>2. Members'
      BY <2>2 DEF Served, Members, OpenedStream, Formed, Large, Total
    <3>3. Endless' => OnlyHeaders'
      BY <2>2 DEF Served, Members, Formed, OnlyHeaders, Endless, Serves,
                  Large, Total
    <3>4. Blockwise' => SendsBlocks'
      BY <2>2 DEF Served, Members, Formed, SendsBlocks, JustParsed, Serves,
                  Blockwise, Large, Total
    <3>5. AtOnce' => SendsWhole'
      BY <2>2 DEF Served, Members, Formed, SendsWhole, JustParsed, Serves,
                  AtOnce, Large, Total
    <3>6. ~Endless' => Underway'
      BY <2>2 DEF Served, Underway, Endless, Serves, Sent, Loop, Large, Total
    <3> QED BY <3>1, <3>2, <3>3, <3>4, <3>5, <3>6 DEF Served
  <2> QED BY <2>1, <2>2 DEF Formed
<1>5. Pulling'
  BY DEF Pulling, Ended, NotServed, Endless, Serves, Total, Large
<1>6. PulledWhole'
  BY DEF PulledWhole, Stored, Due
<1>7. FailuresHaveReasons'
  BY DEF FailuresHaveReasons, Ended
<1> QED BY <1>1, <1>2, <1>3, <1>4, <1>5, <1>6, <1>7

-----------------------------------------------------------------------------
(* Sending the file *)

\* What is added to the wire goes on where the last stopped.
LEMMA UnderwayGrows ==
  ASSUME Formed, Underway, NEW more \in Seq(Nat), maxWait # -1, Sent \in Nat,
         Follow(ask, more, Sent), Sent' = Sent + Len(more),
         wire' = IF link = "up" THEN wire \o more ELSE wire,
         UNCHANGED <<ask, link, maxWait, client>>
  PROVE  Underway'
<1> SUFFICES ASSUME link = "up"
             PROVE  Underway'
  BY DEF Underway
<1>1. more \in Seq(Int) /\ wire \in Seq(Int) /\ wire' = wire \o more
  BY DEF Formed
<1>2. wire' \in Seq(Int) /\ Len(wire') = Len(wire) + Len(more)
  BY <1>1
<1>3. ASSUME puller \in {"start", "wait"}
      PROVE  /\ Len(wire') = Sent' + 1 /\ wire'[1] = OkHeader(Total)
             /\ \A i \in 1 .. Sent' : wire'[i + 1] = Given(ask, i)
  <2>1. /\ Len(wire) = Sent + 1 /\ wire[1] = OkHeader(Total)
        /\ \A i \in 1 .. Sent : wire[i + 1] = Given(ask, i)
    BY <1>3 DEF Underway
  <2>2. Len(wire') = Sent' + 1 /\ wire'[1] = OkHeader(Total)
    BY <1>1, <1>2, <2>1
  <2>3. ASSUME NEW i \in 1 .. Sent'
        PROVE  wire'[i + 1] = Given(ask, i)
    <3>1. CASE i <= Sent
      BY <1>1, <2>1, <3>1
    <3>2. CASE i > Sent
      <4>1. PICK j \in 1 .. Len(more) : i = Sent + j
        <5>1. i \in Int /\ Len(more) \in Nat /\ i <= Sent + Len(more)
          BY <1>1
        <5>2. i - Sent \in 1 .. Len(more) /\ i = Sent + (i - Sent)
          BY <3>2, <5>1
        <5> QED BY <5>2
      <4>2. wire'[Len(wire) + j] = more[j]
        BY <1>1
      <4>3. more[j] = Given(ask, Sent + j)
        BY DEF Follow
      <4> QED BY <2>1, <4>1, <4>2, <4>3
    <3>3. i \in Int
      BY <1>1
    <3>4. i <= Sent \/ i > Sent
      BY <3>3
    <3> QED BY <3>1, <3>2, <3>4
  <2> QED BY <2>2, <2>3
<1>4. ASSUME told
      PROVE  /\ Len(content) + Len(buffer) + Len(wire') = Sent'
             /\ Follow(ask, wire', Len(content) + Len(buffer))
  <2>1. /\ content \in Seq(Int) /\ buffer \in Seq(Int)
        /\ Len(content) + Len(buffer) + Len(wire) = Sent
        /\ Follow(ask, wire, Len(content) + Len(buffer))
    BY <1>4 DEF Underway
  <2> DEFINE m == Len(content) + Len(buffer)
  <2>2. m \in Nat /\ Len(wire) \in Nat
    BY <1>1, <2>1
  <2>3. Follow(ask, more, m + Len(wire)) /\ Follow(ask, wire, m)
    BY <2>1
  <2> HIDE DEF m
  <2>4. Follow(ask, wire', m)
    BY <1>1, <2>2, <2>3, FollowConcat
  <2>5. m + Len(wire') = Sent'
    <3>1. Len(content) \in Nat /\ Len(buffer) \in Nat /\ Len(more) \in Nat
      BY <1>1, <2>1
    <3> QED BY <1>2, <2>1, <2>2, <3>1 DEF m
  <2> QED BY <2>4, <2>5 DEF m
<1>5. /\ Total' = Total /\ Loop(Total)' = Loop(Total)
      /\ UNCHANGED <<link, maxWait, puller, told, content, buffer, total>>
  BY DEF Total, Loop
<1> QED BY <1>3, <1>4, <1>5 DEF Underway

\* A block is read where the last ended, and sent whole or not at all; the
\* connection is closed when none is left.
LEMMA TransferBlocksKeeps ==
  ASSUME NEW outcome \in Outcomes,
         Inductive, TransferBlocks(outcome), UNCHANGED client
  PROVE  Inductive'
<1> USE DEF Inductive
<1> DEFINE n == Least(Block, var1)
           k == Total - var1
<1>1. /\ pc = "send" /\ maxWait = -2 /\ var2 # "zero" /\ pc' = "clock"
      /\ UNCHANGED <<ask, arrived, taken, link, endRequest, maxWait, timeout>>
      /\ UNCHANGED <<var2, var3>>
      /\ UNCHANGED <<puller, total, buffer, content, told, polls, result>>
  BY DEF TransferBlocks
<1>2. /\ Serves /\ timeout = "none" /\ Blockwise /\ ~Endless /\ ~AtOnce
      /\ endRequest /\ Total \in Nat /\ ask.want = "plain"
  <2>1. Serves /\ timeout = "none" /\ Members /\ endRequest
    BY <1>1 DEF NotServed, Served, Unparsed, Ended
  <2>2. ask.want = "plain" /\ Large
    BY <1>1, <2>1 DEF Members, Serves
  <2>3. Total \in Nat /\ Total > 0
    BY <2>2, Asked, Numbers DEF Large, Total
  <2> QED BY <2>1, <2>2, <2>3 DEF Blockwise, Endless, AtOnce
<1>3. /\ SendsBlocks /\ Underway /\ Members /\ ~closing
      /\ var1 \in 1 .. Total
  BY <1>1, <1>2 DEF Served, Unparsed, SendsBlocks
<1>4. n \in 1 .. var1 /\ (n < var1 => n = Block) /\ n <= Block /\ k \in Nat
  BY <1>2, <1>3, Numbers DEF Least
<1> HIDE DEF n, k
<1>5. /\ response' \in Seq(Nat) /\ Len(response') = n /\ Follow(ask, response', k)
      /\ pos' = k + n
  <2>1. CASE BlockIsSent
    <3>1. pos = k
      BY <1>3, <2>1, Numbers DEF SendsBlocks, BlockIsSent, k
    <3> DEFINE e == k + n
    <3>2. response' = Read(k + 1, e)
      BY <2>1, <3>1 DEF TransferBlocks, BlockLength, n
    <3>3. e \in Nat /\ k <= e /\ e - k = n
      BY <1>4
    <3>4. /\ Read(k + 1, e) \in Seq(Nat) /\ Len(Read(k + 1, e)) = e - k
          /\ Follow(ask, Read(k + 1, e), k)
      <4> HIDE DEF e
      <4>1. ask.opens \in BOOLEAN /\ var3 = OpenedStream
        BY <1>2, <1>3, Asked DEF Members
      <4> QED BY <1>4, <3>3, <4>1, ReadFollows
    <3>5. pos' = pos + Len(response')
      BY <2>1 DEF TransferBlocks
    <3> HIDE DEF e
    <3>6. /\ response' \in Seq(Nat) /\ Len(response') = n
          /\ Follow(ask, response', k)
      BY <3>2, <3>3, <3>4
    <3> QED BY <3>1, <3>5, <3>6
  <2>2. CASE ~BlockIsSent
    <3>1. response' = response /\ pos' = pos
      BY <2>2 DEF TransferBlocks
    <3>2. /\ sendBytes = 0 /\ pos = k + Len(response)
          /\ Len(response) = n /\ Follow(ask, response, k)
      BY <1>3, <2>2 DEF SendsBlocks, BlockIsSent, k, n
    <3> QED BY <3>1, <3>2 DEF Formed
  <2> QED BY <2>1, <2>2
<1>6. BlockIsSent \/ sendBytes = 0
  BY <1>3 DEF SendsBlocks, BlockIsSent
<1>7. /\ IF outcome = "sent"
         THEN sendBytes' = n /\ var1' = var1 - n
         ELSE sendBytes' = 0 /\ var1' = var1
      /\ wire' = IF outcome = "sent" /\ link = "up" THEN wire \o response'
                                                    ELSE wire
      /\ closing' = (outcome = "failed" \/ var1' = 0)
      /\ outcome = "failed" => link # "up"
  <2>1. Rest(response', 0) = response'
    BY <1>5 DEF Rest
  <2>2. outcome = "sent" => sendBytes' = Len(response')
    BY DEF TransferBlocks
  <2>3. outcome # "sent" => sendBytes' = 0
    BY <1>6 DEF TransferBlocks
  <2>4. outcome = "sent" => var1' = var1 - Len(response')
    BY <1>5, <1>6 DEF TransferBlocks
  <2>5. outcome # "sent" => var1' = var1
    BY <1>3, <1>6 DEF TransferBlocks
  <2>6. outcome = "sent" =>
          wire' = IF link = "up" THEN wire \o response' ELSE wire
    BY <1>6, <2>1 DEF TransferBlocks, Put
  <2>7. outcome # "sent" => wire' = wire
    BY DEF TransferBlocks
  <2>8. /\ closing' = (outcome = "failed" \/ var1' = 0)
        /\ outcome = "failed" => link # "up"
    BY DEF TransferBlocks, NothingIsLeft, Ends
  <2> QED BY <1>5, <2>2, <2>3, <2>4, <2>5, <2>6, <2>7, <2>8
<1>8. wire' \in Seq(Int) /\ closing' \in BOOLEAN
  <2>1. wire \in Seq(Int) /\ response' \in Seq(Int)
    BY <1>5 DEF Formed
  <2>2. wire' = wire \/ wire' = wire \o response'
    BY <1>7
  <2>3. closing' = (outcome = "failed" \/ var1' = 0)
    BY <1>7
  <2>4. closing' \in BOOLEAN
    BY <2>3, Zenon
  <2>5. wire \o response' \in Seq(Int)
    BY <2>1
  <2> QED BY <2>1, <2>2, <2>4, <2>5
<1>9. Formed'
  <2>1. sendBytes' \in Nat /\ var1' \in Int /\ pos' \in Nat
    BY <1>2, <1>3, <1>4, <1>5, <1>7
  <2> QED BY <1>1, <1>5, <1>8, <2>1 DEF Formed
<1>10. Ended'
  BY <1>1, <1>2 DEF Ended
<1>11. /\ Serves' /\ NotServed' /\ Total' = Total /\ Large' = Large
       /\ Endless' = Endless /\ Blockwise' = Blockwise /\ AtOnce' = AtOnce
  BY <1>1, <1>2 DEF NotServed, Serves, Total, Large, Endless, Blockwise,
     AtOnce
<1>12. SendsBlocks'
  <2>1. var1' \in 0 .. Total /\ response' # <<>> /\ maxWait' # -1
    BY <1>1, <1>2, <1>3, <1>4, <1>5, <1>7
  <2>2. closing' <=> (outcome = "failed" \/ var1' = 0)
    BY <1>7
  <2>3. closing' => (link' = "up" => var1' = 0)
    BY <1>1, <1>7, <2>2
  <2>4. ASSUME ~closing'
        PROVE  /\ var1' > 0
               /\ \/ sendBytes' = Block /\ pos' = Total - var1'
                  \/ /\ sendBytes' = 0
                     /\ pos' = Total - var1' + Len(response')
                     /\ Len(response') = Least(Block, var1')
                     /\ Follow(ask, response', Total - var1')
    <3>1. var1' > 0 /\ outcome # "failed"
      BY <2>1, <2>2, <2>4, <1>2
    <3>2. CASE outcome = "sent"
      <4>1. n < var1 /\ sendBytes' = n /\ var1' = var1 - n
        BY <1>3, <1>4, <1>7, <3>1, <3>2
      <4>2. n = Block
        BY <1>4, <4>1
      <4>3. Total - var1' = k + n
        BY <1>2, <1>3, <1>4, <4>1 DEF k
      <4> QED BY <1>5, <3>1, <4>1, <4>2, <4>3
    <3>3. CASE outcome # "sent"
      BY <1>5, <1>7, <3>1, <3>3 DEF n, k
    <3> QED BY <3>2, <3>3
  <2> QED BY <1>1, <1>11, <2>1, <2>3, <2>4 DEF SendsBlocks
<1>13. Underway'
  <2>1. Sent = k /\ Sent' = Total - var1' /\ k \in Nat
    BY <1>1, <1>2, <1>4, <1>11 DEF Sent, Blockwise, k
  <2>2. CASE outcome = "sent"
    <3>1. Sent' = Sent + Len(response')
      BY <1>2, <1>3, <1>4, <1>5, <1>7, <2>1, <2>2 DEF k
    <3>2. wire' = IF link = "up" THEN wire \o response' ELSE wire
      BY <1>7, <2>2
    <3> QED BY <1>1, <1>3, <1>5, <2>1, <3>1, <3>2, UnderwayGrows DEF client
  <2>3. CASE outcome # "sent"
    <3>1. Sent' = Sent /\ wire' = wire
      BY <1>7, <2>1, <2>3 DEF k
    <3> QED BY <1>1, <1>3, <1>11, <3>1 DEF Underway, Loop
  <2> QED BY <2>2, <2>3
<1>14. Served'
  <2>1. Members'
    BY <1>1, <1>2, <1>3, <1>11 DEF Members, OpenedStream
  <2> QED BY <1>1, <1>2, <1>11, <1>12, <1>13, <2>1 DEF Served
<1>15. Pulling'
  <2>1. link # "up" => wire' = wire
    BY <1>7
  <2> QED BY <1>1, <1>11, <2>1 DEF Pulling
<1>16. PulledWhole' /\ FailuresHaveReasons'
  BY <1>1 DEF PulledWhole, FailuresHaveReasons, Stored, Due
<1> QED BY <1>9, <1>10, <1>11, <1>14, <1>15, <1>16

\* A file that is sent at once.
LEMMA SendAllKeeps ==
  ASSUME Formed, AtOnce, SendsWhole, Underway, pc = "send",
         maxWait \in {-2, -3}, NEW whole \in Seq(Nat), Len(whole) = Total,
         Follow(ask, whole, 0), NEW outcome, SendAll(whole, outcome),
         pc' = "clock", UNCHANGED <<ask, taken, link, maxWait, var1, client>>
  PROVE  /\ SendsWhole' /\ Underway' /\ response' = whole
         /\ sendBytes' \in Nat /\ closing' \in BOOLEAN
         /\ wire' \in Seq(Int) /\ (link # "up" => wire' = wire)
<1>1. /\ Total \in Nat /\ Total > 0 /\ sendBytes = 0 /\ ~closing /\ ~Large
      /\ Total' = Total /\ AtOnce' /\ Large' = Large
  <2>1. Total \in Nat
    BY Asked DEF Total
  <2> QED BY <2>1 DEF AtOnce, SendsWhole, Total, Serves, Large
<1>2. Rest(whole, 0) = whole
  BY DEF Rest
<1>3. /\ response' = whole
      /\ outcome = "sent" => /\ sendBytes' = Total
                             /\ wire' = IF link = "up" THEN wire \o whole
                                                       ELSE wire
      /\ outcome # "sent" => sendBytes' = 0 /\ wire' = wire
      /\ outcome = "failed" => link # "up"
  BY <1>1, <1>2 DEF SendAll, Put, Ends
<1>4. closing' <=> outcome = "failed" \/ outcome = "sent"
  BY <1>1 DEF SendAll
<1>5. closing' \in BOOLEAN
  BY DEF SendAll, Zenon
<1>6. wire' \in Seq(Int)
  <2>1. wire \in Seq(Int) /\ whole \in Seq(Int)
    BY DEF Formed
  <2>2. wire \o whole \in Seq(Int)
    BY <2>1
  <2> QED BY <1>3, <2>1, <2>2
<1>7. SendsWhole'
  BY <1>1, <1>3, <1>4 DEF SendsWhole
<1>8. Underway'
  <2>1. Sent = sendBytes /\ Sent' = sendBytes'
    BY <1>1 DEF Sent
  <2>2. CASE outcome = "sent"
    <3>1. Sent = 0 /\ Sent' = Total
      BY <1>1, <1>3, <2>1, <2>2
    <3>2. Sent \in Nat /\ Follow(ask, whole, Sent) /\ Sent' = Sent + Len(whole)
      BY <1>1, <3>1
    <3>3. /\ wire' = IF link = "up" THEN wire \o whole ELSE wire
          /\ UNCHANGED <<ask, link, maxWait, client>> /\ maxWait # -1
      BY <1>3, <2>2
    <3> QED BY <3>2, <3>3, UnderwayGrows
  <2>3. CASE outcome # "sent"
    BY <1>1, <1>3, <2>1, <2>3 DEF Underway, Loop
  <2> QED BY <2>2, <2>3
<1> QED BY <1>1, <1>3, <1>5, <1>6, <1>7, <1>8

\* A small file is read once, an empty one is never sent.
LEMMA TransferWholeKeeps ==
  ASSUME NEW outcome \in Outcomes,
         Inductive, TransferWhole(outcome), UNCHANGED client
  PROVE  Inductive'
<1> USE DEF Inductive
<1>0. /\ pc = "send" /\ pc' = "clock"
      /\ UNCHANGED <<ask, arrived, taken, link, endRequest, maxWait, timeout>>
      /\ UNCHANGED <<var1, var2>>
      /\ UNCHANGED <<puller, total, buffer, content, told, polls, result>>
      /\ maxWait = -2 /\ var2 = "zero" /\ var3' = var3
  BY DEF TransferWhole, SendAll
<1>1. /\ Serves /\ timeout = "none" /\ Members /\ endRequest
      /\ ask.want = "plain" /\ ~Large /\ Total \in Nat
  <2>1. Serves /\ timeout = "none" /\ Members /\ endRequest
    BY <1>0 DEF NotServed, Served, Unparsed, Ended
  <2>2. Total \in Nat
    BY Asked DEF Total
  <2> QED BY <1>0, <2>1, <2>2 DEF Members, Serves
<1>2. /\ Serves' /\ Total' = Total /\ Large' = Large /\ Endless' = Endless
      /\ AtOnce' = AtOnce /\ Blockwise' = Blockwise /\ ~Blockwise
      /\ (Endless <=> Total = 0) /\ (AtOnce <=> Total > 0)
  BY <1>0, <1>1 DEF Serves, Total, Large, Endless, AtOnce, Blockwise
<1> DEFINE whole == IF Len(response) # var1 THEN Read(pos + 1, pos + var1)
                                            ELSE response
<1>3. /\ SendAll(whole, outcome)
      /\ pos' = IF Len(response) # var1 THEN pos + var1 ELSE pos
  BY DEF TransferWhole
<1>4. ASSUME Total > 0
      PROVE  /\ response' \in Seq(Nat) /\ sendBytes' \in Nat
             /\ closing' \in BOOLEAN /\ pos' \in Nat /\ wire' \in Seq(Int)
             /\ (link # "up" => wire' = wire) /\ Served'
  <2>1. AtOnce /\ SendsWhole /\ Underway /\ var1 = Total
    BY <1>0, <1>1, <1>2, <1>4 DEF Served, Unparsed, SendsWhole
  <2>2. /\ whole \in Seq(Nat) /\ Len(whole) = Total /\ Follow(ask, whole, 0)
        /\ pos' \in Nat
    <3>1. CASE response = <<>>
      <4>1. pos = 0
        BY <1>0, <1>1, <1>4, <2>1, <3>1 DEF SendsWhole
      <4>2. whole = Read(0 + 1, Total) /\ pos' = Total
        BY <1>1, <1>3, <1>4, <2>1, <3>1, <4>1
      <4>3. /\ Read(0 + 1, Total) \in Seq(Nat)
            /\ Len(Read(0 + 1, Total)) = Total - 0
            /\ Follow(ask, Read(0 + 1, Total), 0)
        <5>1. ask.opens \in BOOLEAN /\ var3 = OpenedStream
          BY <1>1, Asked DEF Members
        <5> QED BY <1>1, <5>1, ReadFollows
      <4> QED BY <1>1, <4>2, <4>3
    <3>2. CASE response # <<>>
      BY <1>3, <2>1, <3>2 DEF SendsWhole, Formed
    <3> QED BY <3>1, <3>2
  <2> HIDE DEF whole
  <2>3. /\ SendsWhole' /\ Underway' /\ response' = whole
        /\ sendBytes' \in Nat /\ closing' \in BOOLEAN
        /\ wire' \in Seq(Int) /\ (link # "up" => wire' = wire)
    BY <1>0, <1>3, <2>1, <2>2, SendAllKeeps
  <2>4. Members'
    BY <1>0, <1>1, <1>2 DEF Members, OpenedStream
  <2> QED BY <1>0, <1>1, <1>2, <1>4, <2>2, <2>3, <2>4 DEF Served
<1>6. ASSUME Total = 0
      PROVE  /\ response' \in Seq(Nat) /\ sendBytes' \in Nat
             /\ closing' \in BOOLEAN /\ pos' \in Nat /\ wire' \in Seq(Int)
             /\ (link # "up" => wire' = wire) /\ Served'
  <2>1. /\ OnlyHeaders /\ response = <<>> /\ var1 = 0 /\ sendBytes = 0
        /\ ~closing
    BY <1>0, <1>1, <1>2, <1>6 DEF Served, Unparsed, OnlyHeaders
  <2>2. /\ response' = <<>> /\ sendBytes' = 0 /\ wire' = wire
        /\ closing' = (outcome = "failed") /\ pos' = pos
        /\ outcome = "failed" => link # "up"
    <3>1. whole = <<>> /\ Len(whole) = 0
      BY <2>1
    <3>2. wire \in Seq(Int) /\ Rest(<<>>, 0) = <<>> /\ wire \o <<>> = wire
      BY DEF Formed, Rest
    <3>3. closing' = (outcome = "failed")
      <4>1. closing' = (\/ outcome = "failed"
                        \/ outcome = "sent" /\ sendBytes < Len(whole))
        BY <1>3 DEF SendAll
      <4>2. ~(sendBytes < Len(whole))
        BY <2>1, <3>1
      <4> QED BY <4>1, <4>2, Zenon
    <3> QED BY <1>3, <2>1, <3>1, <3>2, <3>3 DEF SendAll, Put, Ends
  <2>3. OnlyHeaders'
    BY <1>0, <1>1, <1>2, <2>1, <2>2 DEF OnlyHeaders, Members
  <2>4. Members'
    BY <1>0, <1>1, <1>2 DEF Members, OpenedStream
  <2>5. Served'
    BY <1>0, <1>1, <1>2, <1>6, <2>3, <2>4 DEF Served
  <2>6. /\ response' \in Seq(Nat) /\ sendBytes' \in Nat
        /\ closing' \in BOOLEAN /\ pos' \in Nat /\ wire' \in Seq(Int)
    <3>1. closing' \in BOOLEAN
      BY <2>2, Zenon
    <3> QED BY <2>2, <3>1 DEF Formed
  <2> QED BY <2>2, <2>5, <2>6
<1>5. /\ response' \in Seq(Nat) /\ sendBytes' \in Nat /\ closing' \in BOOLEAN
      /\ pos' \in Nat /\ wire' \in Seq(Int) /\ (link # "up" => wire' = wire)
  BY <1>1, <1>4, <1>6
<1>7. Served'
  BY <1>1, <1>4, <1>6
<1>8. Formed' /\ (link # "up" => wire' = wire)
  BY <1>0, <1>5 DEF Formed
<1>9. Ended'
  BY <1>0, <1>1 DEF Ended
<1>10. NotServed'
  BY <1>0, <1>1 DEF NotServed, Serves
<1>11. Pulling'
  BY <1>0, <1>8 DEF Pulling, Endless, Serves, Total, Large
<1>12. PulledWhole' /\ FailuresHaveReasons'
  BY <1>0 DEF PulledWhole, FailuresHaveReasons, Stored, Due
<1> QED BY <1>7, <1>8, <1>9, <1>10, <1>11, <1>12

\* A protected file is read once and then let go; a large one is not read.
LEMMA TransferProtectedKeeps ==
  ASSUME NEW outcome \in Outcomes,
         Inductive, TransferProtected(outcome), UNCHANGED client
  PROVE  Inductive'
<1> USE DEF Inductive
<1>0. /\ pc = "send" /\ pc' = "clock"
      /\ UNCHANGED <<ask, arrived, taken, link, endRequest, maxWait, timeout>>
      /\ UNCHANGED <<var1, var2>>
      /\ UNCHANGED <<puller, total, buffer, content, told, polls, result>>
      /\ maxWait = -3 /\ pos' = pos
  BY DEF TransferProtected
<1>1. /\ Serves /\ timeout = "none" /\ Members /\ endRequest
      /\ ask.want = "protected" /\ Total \in Nat /\ Total > 0 /\ var1 = Total
      /\ Thres \in Nat
  <2>1. Serves /\ timeout = "none" /\ Members /\ endRequest
    BY <1>0 DEF NotServed, Served, Unparsed, Ended
  <2>2. ask.want = "protected"
    BY <1>0, <2>1 DEF Members, Serves
  <2>3. Total \in Nat /\ Total > 0 /\ Thres \in Nat
    BY <2>2, Asked, Numbers DEF Total
  <2>4. Endless \/ AtOnce
    BY <2>1, <2>2, <2>3 DEF Endless, AtOnce
  <2> QED BY <1>0, <2>1, <2>2, <2>3, <2>4 DEF Served, Unparsed, OnlyHeaders,
             SendsWhole
<1>2. /\ Serves' /\ Total' = Total /\ Large' = Large /\ Endless' = Endless
      /\ AtOnce' = AtOnce /\ Blockwise' = Blockwise /\ ~Blockwise
      /\ (Endless <=> Large) /\ (AtOnce <=> ~Large)
  BY <1>0, <1>1 DEF Serves, Total, Large, Endless, AtOnce, Blockwise
<1>4. ASSUME ~Large
      PROVE  /\ response' \in Seq(Nat) /\ sendBytes' \in Nat
             /\ closing' \in BOOLEAN /\ pos' \in Nat /\ wire' \in Seq(Int)
             /\ (link # "up" => wire' = wire) /\ Served'
  <2> DEFINE whole == IF Len(response) # Total THEN Bytes(0 + 1, Total)
                                               ELSE response
  <2>1. /\ SendAll(whole, outcome)
        /\ var3' = IF Len(response) # Total THEN "null" ELSE var3
    BY <1>1, <1>4 DEF TransferProtected, AfterRead, Large
  <2>2. AtOnce /\ SendsWhole /\ Underway
    BY <1>0, <1>1, <1>2, <1>4 DEF Served, Unparsed
  <2>3. /\ whole \in Seq(Nat) /\ Len(whole) = Total /\ Follow(ask, whole, 0)
        /\ var3' = "null"
    <3>1. CASE response = <<>>
      <4>1. whole = Bytes(0 + 1, Total) /\ var3' = "null"
        BY <1>1, <2>1, <3>1
      <4>2. /\ Bytes(0 + 1, Total) \in Seq(Nat)
            /\ Len(Bytes(0 + 1, Total)) = Total - 0
            /\ Follow(ask, Bytes(0 + 1, Total), 0)
        <5>1. ask.opens
          BY <1>0, <1>1, Asked
        <5> QED BY <1>1, <5>1, FileFollows
      <4> QED BY <1>1, <4>1, <4>2
    <3>2. CASE response # <<>>
      <4>1. Len(response) = Total /\ Follow(ask, response, 0) /\ var3 = "null"
        BY <1>1, <2>2, <3>2 DEF SendsWhole, Members
      <4> QED BY <2>1, <4>1 DEF Formed
    <3> QED BY <3>1, <3>2
  <2> HIDE DEF whole
  <2>4. /\ SendsWhole' /\ Underway' /\ response' = whole
        /\ sendBytes' \in Nat /\ closing' \in BOOLEAN
        /\ wire' \in Seq(Int) /\ (link # "up" => wire' = wire)
    BY <1>0, <2>1, <2>2, <2>3, SendAllKeeps
  <2>5. response' # <<>>
    BY <1>1, <2>3, <2>4
  <2>6. Members'
    BY <1>0, <1>1, <1>2, <2>3, <2>5 DEF Members
  <2>7. Served'
    BY <1>0, <1>1, <1>2, <1>4, <2>4, <2>6 DEF Served
  <2> QED BY <1>0, <2>3, <2>4, <2>7 DEF Formed
<1>6. ASSUME Large
      PROVE  /\ response' \in Seq(Nat) /\ sendBytes' \in Nat
             /\ closing' \in BOOLEAN /\ pos' \in Nat /\ wire' \in Seq(Int)
             /\ (link # "up" => wire' = wire) /\ Served'
  <2>1. UNCHANGED <<response, sendBytes, wire, closing, var3>>
    BY <1>1, <1>6 DEF TransferProtected, Large
  <2>2. OnlyHeaders
    BY <1>0, <1>1, <1>2, <1>6 DEF Served, Unparsed
  <2>3. OnlyHeaders' /\ Members'
    BY <1>0, <1>1, <1>2, <2>1, <2>2 DEF OnlyHeaders, Members
  <2>4. Served'
    BY <1>0, <1>1, <1>2, <1>6, <2>3 DEF Served
  <2> QED BY <1>0, <2>1, <2>4 DEF Formed
<1>5. /\ response' \in Seq(Nat) /\ sendBytes' \in Nat /\ closing' \in BOOLEAN
      /\ pos' \in Nat /\ wire' \in Seq(Int) /\ (link # "up" => wire' = wire)
  BY <1>4, <1>6
<1>7. Served'
  BY <1>4, <1>6
<1>8. Formed' /\ (link # "up" => wire' = wire)
  BY <1>0, <1>5 DEF Formed
<1>9. Ended'
  BY <1>0, <1>1 DEF Ended
<1>10. NotServed'
  BY <1>0, <1>1 DEF NotServed, Serves
<1>11. Pulling'
  BY <1>0, <1>8 DEF Pulling, Endless, Serves, Total, Large
<1>12. PulledWhole' /\ FailuresHaveReasons'
  BY <1>0 DEF PulledWhole, FailuresHaveReasons, Stored, Due
<1> QED BY <1>7, <1>8, <1>9, <1>10, <1>11, <1>12

\* The answer of a task has no header in it.
LEMMA RespondKeeps ==
  ASSUME NEW outcome \in Outcomes,
         Inductive, Respond(outcome), UNCHANGED client
  PROVE  Inductive'
<1> USE DEF Inductive
<1>0. /\ pc = "send" /\ pc' = "clock"
      /\ UNCHANGED <<ask, arrived, taken, link, endRequest, timeout>>
      /\ UNCHANGED <<var1, var2, var3, pos>>
      /\ UNCHANGED <<puller, total, buffer, content, told, polls, result>>
      /\ maxWait = 0 /\ maxWait' \in {0, 1} /\ response' = response
  BY DEF Respond, SendAll
<1>1. ~Serves /\ endRequest
  BY <1>0 DEF Served, Unparsed, Members, Ended, Serves
<1>2. /\ sendBytes' \in {sendBytes, Len(response)}
      /\ \/ wire' = wire
         \/ link = "up" /\ wire' = wire \o Rest(response, sendBytes)
  BY DEF Respond, SendAll, Put
<1>3. closing' \in BOOLEAN
  <2>1. closing' = (\/ outcome = "failed"
                    \/ outcome = "sent" /\ sendBytes < Len(response))
    BY DEF Respond, SendAll
  <2> QED BY <2>1, Zenon
<1>4. /\ Rest(response, sendBytes) \in Seq(Nat)
      /\ Rest(response, sendBytes) \in Seq(Int)
  BY DEF Formed, Rest
<1>5. wire \o Rest(response, sendBytes) \in Seq(Int)
  BY <1>4 DEF Formed
<1>6. \A i \in 1 .. Len(wire') : wire'[i] >= 0
  <2>1. CASE wire' = wire
    BY <1>1, <2>1 DEF NotServed
  <2>2. CASE wire' = wire \o Rest(response, sendBytes)
    BY <1>1, <1>4, <2>2 DEF NotServed, Formed
  <2> QED BY <1>2, <2>1, <2>2
<1>8. Formed' /\ (link # "up" => wire' = wire)
  <2>1. Len(response) \in Nat /\ sendBytes \in Nat /\ wire \in Seq(Int)
    BY DEF Formed
  <2>2. sendBytes' \in Nat /\ wire' \in Seq(Int)
    BY <1>2, <1>5, <2>1
  <2> QED BY <1>0, <1>2, <1>3, <2>2 DEF Formed
<1>9. Ended'
  BY <1>0, <1>1 DEF Ended
<1>10. NotServed'
  BY <1>0, <1>1, <1>6 DEF NotServed, Serves
<1>7. Served'
  BY <1>0, <1>1 DEF Served, Serves
<1>11. Pulling'
  BY <1>0, <1>8 DEF Pulling, Endless, Serves, Total, Large
<1>12. PulledWhole' /\ FailuresHaveReasons'
  BY <1>0 DEF PulledWhole, FailuresHaveReasons, Stored, Due
<1> QED BY <1>7, <1>8, <1>9, <1>10, <1>11, <1>12

-----------------------------------------------------------------------------
(* The client's function *)

\* A pull that was told the size: the file is served, and once the connection
\* is closed by the server the whole of it was sent.
LEMMA Told ==
  ASSUME Inductive, told, puller # "done"
  PROVE  /\ link \in {"up", "broken"} /\ Serves
         /\ endRequest /\ Total \in Nat /\ timeout = "none"
         /\ ~Endless => Underway /\ maxWait # -1 /\ Sent \in 0 .. Total
         /\ pc = "closed" /\ link = "up" => ~Endless /\ Sent = Total
<1> USE DEF Inductive
<1>1. link \in {"up", "broken"} /\ Serves /\ endRequest
  BY DEF Formed, Pulling, NotServed, Ended, Serves
<1>2. Total \in Nat
  BY Asked DEF Total
<1>3. timeout = "none" /\ Members
  BY <1>1 DEF Served, Unparsed
<1>4. Endless \/ Blockwise \/ AtOnce
  BY <1>1, <1>2 DEF Endless, Blockwise, AtOnce, Serves
<1>5. CASE Endless
  <2>1. OnlyHeaders
    BY <1>1, <1>3, <1>5 DEF Served
  <2> QED BY <1>1, <1>2, <1>3, <1>5, <2>1 DEF OnlyHeaders
<1>6. CASE ~Endless
  <2>1. Underway
    BY <1>1, <1>3, <1>6 DEF Served, Unparsed
  <2>2. CASE Blockwise
    <3>1. SendsBlocks /\ Large
      BY <1>1, <1>3, <2>2 DEF Served, Unparsed, Blockwise
    <3>2. maxWait # -1
      BY <3>1 DEF SendsBlocks, JustParsed
    <3> QED BY <1>1, <1>2, <1>3, <1>6, <2>1, <3>1, <3>2 DEF SendsBlocks, Sent
  <2>3. CASE AtOnce
    <3>1. SendsWhole /\ ~Large
      BY <1>1, <1>3, <2>3 DEF Served, Unparsed, AtOnce
    <3>2. maxWait # -1
      BY <3>1 DEF SendsWhole, JustParsed
    <3> QED BY <1>1, <1>2, <1>3, <1>6, <2>1, <3>1, <3>2 DEF SendsWhole, Sent
  <2> QED BY <1>4, <1>6, <2>2, <2>3
<1> QED BY <1>5, <1>6

\* What the client does takes units from the wire, or leaves the connection.
LEMMA ClientKeeps ==
  ASSUME Inductive, UNCHANGED Hidden,
         link' = link \/ (link = "up" /\ link' = "left"),
         wire' \in Seq(Int),
         \A i \in 1 .. Len(wire') :
           \E j \in 1 .. Len(wire) : wire'[i] = wire[j],
         puller' \in {"start", "wait", "blocks", "whole", "slow", "done"},
         told' \in BOOLEAN, result' \in {"none", "true", "false"},
         told' => told \/ (Serves /\ wire # <<>>),
         Serves /\ ~Endless /\ timeout = "none" => Underway',
         ~endRequest /\ result' = "false" => link' = "broken"
  PROVE  /\ Formed' /\ Ended' /\ NotServed' /\ Served'
         /\ Serves' = Serves /\ Endless' = Endless /\ ask' = ask
<1> USE DEF Inductive
<1>1. /\ UNCHANGED <<ask, arrived, taken, pc, closing, endRequest, maxWait>>
      /\ UNCHANGED <<sendBytes, response, timeout, var1, var2, var3, pos>>
  BY DEF Hidden
<1>2. wire = <<>> => wire' = <<>>
  <2> SUFFICES ASSUME wire = <<>>, wire' # <<>>
               PROVE  FALSE
    OBVIOUS
  <2>1. 1 \in 1 .. Len(wire') /\ Len(wire) = 0
    OBVIOUS
  <2> QED BY <2>1
<1>3. /\ Serves' = Serves /\ Endless' = Endless /\ Total' = Total
      /\ Large' = Large /\ Blockwise' = Blockwise /\ AtOnce' = AtOnce
  BY <1>1 DEF Serves, Endless, Total, Large, Blockwise, AtOnce
<1>4. Formed'
  BY <1>1 DEF Formed
<1>5. Ended'
  BY <1>1, <1>2 DEF Ended
<1>6. NotServed'
  <2> SUFFICES ASSUME ~Serves
               PROVE  NotServed'
    BY <1>3 DEF NotServed
  <2>1. var3 = "null" /\ ~told' /\ maxWait >= -1
    BY DEF NotServed
  <2>2. ASSUME NEW i \in 1 .. Len(wire')
        PROVE  wire'[i] >= 0
    BY DEF NotServed
  <2> QED BY <1>1, <2>1, <2>2 DEF NotServed
<1>7. Served'
  <2> SUFFICES ASSUME Serves
               PROVE  Served'
    BY <1>3 DEF Served
  <2>1. CASE timeout = "short" /\ Unparsed
    BY <1>1, <1>2, <2>1 DEF Served, Unparsed
  <2>2. CASE timeout = "none" /\ Members
    <3>1. Members'
      BY <1>1, <1>3, <2>2 DEF Members, OpenedStream
    <3>2. Endless => OnlyHeaders'
      <4> SUFFICES ASSUME Endless
                   PROVE  OnlyHeaders'
        OBVIOUS
      <4>1. OnlyHeaders
        BY <2>2 DEF Served
      <4>2. ASSUME NEW i \in 1 .. Len(wire')
            PROVE  wire'[i] = OkHeader(Total)
        BY <4>1 DEF OnlyHeaders
      <4>3. link # "up" => link' # "up"
        OBVIOUS
      <4> QED BY <1>1, <1>3, <4>1, <4>2, <4>3 DEF OnlyHeaders
    <3>3. JustParsed => JustParsed'
      BY <1>1, <1>2, <1>3 DEF JustParsed
    <3>4. link' = "up" => link = "up"
      OBVIOUS
    <3>5. Blockwise => SendsBlocks'
      <4>1. Blockwise => SendsBlocks
        BY <2>2 DEF Served
      <4> QED BY <1>1, <1>3, <3>3, <3>4, <4>1 DEF SendsBlocks
    <3>6. AtOnce => SendsWhole'
      <4>1. AtOnce => SendsWhole
        BY <2>2 DEF Served
      <4> QED BY <1>1, <1>3, <3>3, <3>4, <4>1 DEF SendsWhole
    <3> QED BY <1>1, <1>3, <2>2, <3>1, <3>2, <3>5, <3>6 DEF Served
  <2> QED BY <2>1, <2>2 DEF Served
<1> QED BY <1>1, <1>3, <1>4, <1>5, <1>6, <1>7

\* The client's function returns.
LEMMA ReturnKeeps ==
  ASSUME Inductive, UNCHANGED Hidden, NEW answer \in {"true", "false"},
         Return(answer), told' = told,
         answer = "true" /\ told /\ link # "broken" => content' = Whole,
         answer = "false" =>
           \/ link = "broken"
           \/ endRequest /\ (ask.want = "missing" \/ taken < ask.parts)
  PROVE  Inductive'
<1> USE DEF Inductive
<1>1. /\ puller' = "done" /\ result' = answer /\ wire' = <<>>
      /\ link' = link \/ (link = "up" /\ link' = "left")
      /\ link' # "up"
  BY DEF Return
<1>2. /\ wire' \in Seq(Int) /\ told \in BOOLEAN
      /\ \A i \in 1 .. Len(wire') : \E j \in 1 .. Len(wire) : wire'[i] = wire[j]
  BY <1>1 DEF Formed
<1>3. Underway'
  BY <1>1 DEF Underway
<1>4. ~endRequest /\ result' = "false" => link' = "broken"
  BY <1>1
<1>5. /\ Formed' /\ Ended' /\ NotServed' /\ Served' /\ ask' = ask
  BY <1>1, <1>2, <1>3, <1>4, ClientKeeps
<1>6. taken' = taken
  BY DEF Hidden
<1>7. Pulling'
  BY <1>1, <1>5 DEF Pulling
<1>8. PulledWhole'
  <2>1. result' = "true" /\ told' /\ link' # "broken" => content' = Whole
    BY <1>1
  <2>2. Whole = [i \in 1 .. ask.size |-> IF ask.opens THEN i ELSE Text]
    BY DEF Whole, Given
  <2> QED BY <1>5, <2>1, <2>2 DEF PulledWhole, Stored, Due
<1>9. FailuresHaveReasons'
  BY <1>1, <1>5, <1>6 DEF FailuresHaveReasons
<1> QED BY <1>5, <1>7, <1>8, <1>9

\* The request goes out.
LEMMA SendRequestKeeps ==
  Inductive /\ SendRequest => Inductive'
<1> SUFFICES ASSUME Inductive, SendRequest
             PROVE  Inductive'
  OBVIOUS
<1> USE DEF Inductive
<1>1. /\ puller = "start" /\ puller' = "wait" /\ UNCHANGED Hidden
      /\ UNCHANGED <<link, wire, total, buffer, content, told, polls, result>>
  BY DEF SendRequest
<1>2. /\ wire' \in Seq(Int) /\ told \in BOOLEAN
      /\ result' \in {"none", "true", "false"}
      /\ \A i \in 1 .. Len(wire') : \E j \in 1 .. Len(wire) : wire'[i] = wire[j]
  BY <1>1 DEF Formed
<1>3. ask' = ask /\ maxWait' = maxWait /\ Sent' = Sent /\ Total' = Total
  BY <1>1 DEF Hidden, Sent, Total, Large
<1>4. Serves /\ ~Endless /\ timeout = "none" => Underway'
  <2>1. Serves /\ ~Endless /\ timeout = "none" => Underway
    BY DEF Served, Unparsed
  <2> QED BY <1>1, <1>3, <2>1 DEF Underway
<1>5. ~endRequest /\ result' = "false" => link' = "broken"
  BY <1>1 DEF Ended
<1>6. /\ Formed' /\ Ended' /\ NotServed' /\ Served'
      /\ Endless' = Endless /\ ask' = ask
  BY <1>1, <1>2, <1>4, <1>5, ClientKeeps
<1>7. Pulling'
  BY <1>1, <1>6 DEF Pulling
<1>8. PulledWhole' /\ FailuresHaveReasons'
  BY <1>1, <1>6 DEF PulledWhole, FailuresHaveReasons, Stored, Due, Hidden
<1> QED BY <1>6, <1>7, <1>8

\* A request that is not sent has failed for the connection.
LEMMA SendRequestFailsKeeps ==
  Inductive /\ SendRequestFails => Inductive'
BY ReturnKeeps DEF SendRequestFails

\* Without a header nothing is promised.
LEMMA FirstNothingKeeps ==
  Inductive /\ FirstNothing => Inductive'
<1> SUFFICES ASSUME Inductive, FirstNothing
             PROVE  Inductive'
  OBVIOUS
<1> USE DEF Inductive
<1>1. /\ puller = "wait" /\ ask.via # "request" /\ puller' = Loop(total)
      /\ UNCHANGED Hidden
      /\ UNCHANGED <<link, wire, total, buffer, content, told, polls, result>>
  BY DEF FirstNothing
<1>2. /\ wire' \in Seq(Int) /\ told \in BOOLEAN
      /\ result' \in {"none", "true", "false"}
      /\ \A i \in 1 .. Len(wire') : \E j \in 1 .. Len(wire) : wire'[i] = wire[j]
      /\ puller' \in {"blocks", "whole", "slow"}
  BY <1>1 DEF Formed, Loop
<1>3. ~told /\ result = "none"
  BY <1>1 DEF Pulling
<1>4. Underway'
  BY <1>1, <1>2, <1>3 DEF Underway
<1>5. ~endRequest /\ result' = "false" => link' = "broken"
  BY <1>1, <1>3
<1>6. /\ Formed' /\ Ended' /\ NotServed' /\ Served'
      /\ Endless' = Endless /\ ask' = ask
  BY <1>1, <1>2, <1>4, <1>5, ClientKeeps
<1>7. Pulling'
  BY <1>1, <1>2, <1>3, <1>6 DEF Pulling
<1>8. PulledWhole' /\ FailuresHaveReasons'
  BY <1>1, <1>3, <1>6 DEF PulledWhole, FailuresHaveReasons
<1> QED BY <1>6, <1>7, <1>8

\* The header tells the size; no other record is taken for one, and one that
\* is none comes where no file is served.
LEMMA FirstRecordKeeps ==
  Inductive /\ FirstRecord => Inductive'
<1> SUFFICES ASSUME Inductive, FirstRecord
             PROVE  Inductive'
  OBVIOUS
<1> USE DEF Inductive
<1>1. /\ puller = "wait" /\ ask.via # "request" /\ wire # <<>>
      /\ UNCHANGED Hidden /\ UNCHANGED <<buffer, content, polls>>
  BY DEF FirstRecord
<1>2. /\ wire \in Seq(Int) /\ Len(wire) \in Nat \ {0} /\ Head(wire) = wire[1]
      /\ wire[1] \in Int /\ endRequest /\ link = "up" /\ result = "none"
      /\ ~told /\ content = <<>> /\ buffer = <<>>
  BY <1>1 DEF Formed, Ended, Pulling
<1>3. /\ Total \in Nat /\ Total' = Total /\ Large' = Large /\ Sent' = Sent
      /\ Loop(Total)' = Loop(Total)
  BY <1>1, Asked DEF Hidden, Total, Large, Sent, Loop
<1>4. CASE IsHeader(Head(wire))
  <2>1. /\ total' = TotalOf(Head(wire)) /\ told' = TRUE
        /\ puller' = Loop(total') /\ wire' = Tail(wire)
        /\ UNCHANGED <<link, result>>
    BY <1>4 DEF FirstRecord, Loop
  <2>2. Serves /\ timeout = "none"
    <3>1. wire[1] < 0
      BY <1>2, <1>4 DEF IsHeader
    <3>2. Serves
      BY <1>2, <3>1 DEF NotServed
    <3> QED BY <1>1, <3>2 DEF Served, Unparsed
  <2>3. wire[1] = OkHeader(Total)
    <3>1. CASE Endless
      BY <1>2, <2>2, <3>1 DEF Served, Unparsed, OnlyHeaders
    <3>2. CASE ~Endless
      <4>1. Endless \/ Blockwise \/ AtOnce
        BY <1>3, <2>2 DEF Endless, Blockwise, AtOnce, Serves
      <4>2. Underway /\ maxWait # -1
        BY <1>1, <2>2, <3>2, <4>1
           DEF Served, Unparsed, SendsBlocks, SendsWhole, JustParsed
      <4> QED BY <1>1, <1>2, <4>2 DEF Underway
    <3> QED BY <3>1, <3>2
  <2>4. total' = Total
    BY <1>2, <1>3, <2>1, <2>3 DEF OkHeader, TotalOf
  <2>5. /\ wire' \in Seq(Int) /\ Len(wire') = Len(wire) - 1
        /\ \A i \in 1 .. Len(wire') :
             i + 1 \in 1 .. Len(wire) /\ wire'[i] = wire[i + 1]
    BY <1>2, <2>1
  <2>6. ~Endless => Underway'
    <3> SUFFICES ASSUME ~Endless
                 PROVE  Underway'
      OBVIOUS
    <3>1. Endless \/ Blockwise \/ AtOnce
      BY <1>3, <2>2 DEF Endless, Blockwise, AtOnce, Serves
    <3>2. Underway /\ maxWait # -1
      BY <1>1, <2>2, <3>1
         DEF Served, Unparsed, SendsBlocks, SendsWhole, JustParsed
    <3>3. /\ Len(wire) = Sent + 1
          /\ \A i \in 1 .. Sent : wire[i + 1] = Given(ask, i)
      BY <1>1, <1>2, <3>2 DEF Underway
    <3>4. Sent \in Nat
      <4>1. Sent \in Int
        BY <1>3 DEF Sent, Formed
      <4> QED BY <1>2, <3>3, <4>1
    <3>5. Len(wire') = Sent /\ Follow(ask, wire', 0)
      BY <2>5, <3>3, <3>4 DEF Follow
    <3>6. puller' = Loop(Total) /\ puller' \in {"blocks", "whole", "slow"}
      BY <2>1, <2>4 DEF Loop
    <3>7. /\ content' = <<>> /\ buffer' = <<>> /\ Len(<<>>) = 0
          /\ Follow(ask, <<>>, 0)
      BY <1>1, <1>2 DEF Follow
    <3>8. 0 < Block /\ ask' = ask
      BY <1>1, Numbers DEF Hidden
    <3> HIDE DEF Sent
    <3> QED BY <1>3, <2>4, <3>4, <3>5, <3>6, <3>7, <3>8 DEF Underway
  <2>7. puller' \in {"blocks", "whole", "slow"}
    BY <2>1 DEF Loop
  <2>8. /\ Formed' /\ Ended' /\ NotServed' /\ Served'
        /\ Endless' = Endless /\ ask' = ask
    <3>1. /\ link' = link \/ (link = "up" /\ link' = "left")
          /\ puller' \in {"start", "wait", "blocks", "whole", "slow", "done"}
          /\ told' \in BOOLEAN /\ result' \in {"none", "true", "false"}
          /\ told' => told \/ (Serves /\ wire # <<>>)
          /\ Serves /\ ~Endless /\ timeout = "none" => Underway'
          /\ ~endRequest /\ result' = "false" => link' = "broken"
          /\ \A i \in 1 .. Len(wire') :
               \E j \in 1 .. Len(wire) : wire'[i] = wire[j]
      BY <1>1, <1>2, <2>1, <2>2, <2>5, <2>6, <2>7
    <3> QED BY <1>1, <2>5, <3>1, ClientKeeps
  <2>9. Pulling'
    <3>1. Endless /\ ask.want = "plain" => puller' = "whole" /\ total' = 0
      <4>1. ask.want = "plain" => ask.via = "fast"
        BY Asked
      <4>2. Thres \in Nat
        BY Numbers
      <4> QED BY <2>1, <2>4, <4>1, <4>2 DEF Endless, Loop
    <3>2. ask.want = "protected" => puller' = "slow"
      BY <2>1, Asked DEF Loop
    <3> QED BY <1>1, <1>2, <2>1, <2>7, <2>8, <3>1, <3>2 DEF Pulling
  <2> QED BY <1>2, <2>1, <2>8, <2>9 DEF PulledWhole, FailuresHaveReasons
<1>5. CASE ~IsHeader(Head(wire))
  <2>1. Return("false") /\ told' = told
    BY <1>5 DEF FirstRecord
  <2>2. wire[1] # OkHeader(Total)
    BY <1>2, <1>3, <1>5 DEF IsHeader, OkHeader
  <2>3. ~Serves
    <3> SUFFICES ASSUME Serves
                 PROVE  FALSE
      OBVIOUS
    <3>1. timeout = "none"
      BY <1>1 DEF Served, Unparsed
    <3>2. CASE Endless
      BY <1>2, <2>2, <3>1, <3>2 DEF Served, OnlyHeaders
    <3>3. CASE ~Endless
      <4>1. Endless \/ Blockwise \/ AtOnce
        BY <1>3 DEF Endless, Blockwise, AtOnce, Serves
      <4>2. Underway /\ maxWait # -1
        BY <1>1, <3>1, <3>3, <4>1
           DEF Served, Unparsed, SendsBlocks, SendsWhole, JustParsed
      <4> QED BY <1>1, <1>2, <2>2, <4>2 DEF Underway
    <3> QED BY <3>2, <3>3
  <2>4. ask.want = "missing" \/ taken < ask.parts
    <3>1. /\ taken \in Nat /\ ask.parts \in Nat /\ taken <= ask.parts
          /\ ask.want \in {"answer", "nothing", "store"} =>
               ask.via = "request"
      BY Asked
    <3>2. ask.want \in {"answer", "plain", "protected", "missing", "nothing",
                        "store"}
      BY Requests DEF Formed
    <3> QED BY <1>1, <2>3, <3>1, <3>2 DEF Serves
  <2> QED BY <1>1, <1>2, <2>1, <2>4, ReturnKeeps
<1> QED BY <1>4, <1>5

\* Part of what is on the wire is received.
LEMMA ReceiveKeeps ==
  ASSUME Inductive, UNCHANGED Hidden, NEW n \in 1 .. Len(wire),
         UNCHANGED <<link, puller, told, polls, result>>,
         puller \in {"wait", "blocks", "whole", "slow"},
         puller = "wait" => ask.via = "request",
         puller = "whole" => total' = total /\ content' = content,
         wire' = Rest(wire, n),
         told /\ ~Endless /\ link = "up" =>
           /\ content' \in Seq(Int) /\ buffer' \in Seq(Int)
           /\ Len(content') + Len(buffer') = Len(content) + Len(buffer) + n
           /\ Follow(ask, content', 0) /\ Follow(ask, buffer', Len(content'))
           /\ total' = Total - (IF puller = "slow" THEN 0 ELSE Len(content'))
           /\ puller = "blocks" => Len(buffer') < Block
           /\ puller = "whole" => content' = <<>>
           /\ puller = "slow" => buffer' = <<>>
  PROVE  Inductive'
<1> USE DEF Inductive
<1>1. /\ wire \in Seq(Int) /\ Len(wire) \in Nat /\ n \in 0 .. Len(wire)
      /\ n \in Nat
  <2>1. wire \in Seq(Int)
    BY DEF Formed
  <2>2. Len(wire) \in Nat
    BY <2>1
  <2> QED BY <2>1, <2>2
<1>2. /\ wire' \in Seq(Int) /\ Len(wire') = Len(wire) - n
      /\ \A i \in 1 .. Len(wire') : wire'[i] = wire[n + i]
  <2>1. /\ Rest(wire, n) \in Seq(Int) /\ Len(Rest(wire, n)) = Len(wire) - n
        /\ \A i \in 1 .. Len(wire) - n : Rest(wire, n)[i] = wire[n + i]
    BY <1>1, Split
  <2>2. wire' = Rest(wire, n)
    OBVIOUS
  <2> HIDE DEF Rest
  <2> QED BY <2>1, <2>2
<1>3. \A i \in 1 .. Len(wire') : \E j \in 1 .. Len(wire) : wire'[i] = wire[j]
  <2> TAKE i \in 1 .. Len(wire')
  <2>1. n + i \in 1 .. Len(wire)
    BY <1>1, <1>2
  <2> QED BY <1>2, <2>1
<1>4. result = "none" /\ (ask.via = "request" => ~told)
  BY DEF Pulling
<1>5. UNCHANGED <<Total, Sent>> /\ Loop(Total)' = Loop(Total)
  BY DEF Hidden, Total, Large, Sent, Loop
<1>6. Serves /\ ~Endless /\ timeout = "none" => Underway'
  <2> SUFFICES ASSUME Serves, ~Endless, timeout = "none"
               PROVE  Underway'
    OBVIOUS
  <2>1. CASE ~told
    <3>1. ask.via # "request"
      BY Asked DEF Serves
    <3> QED BY <2>1, <3>1 DEF Underway
  <2>2. CASE link # "up"
    BY <2>2 DEF Underway
  <2>3. CASE told /\ link = "up"
    <3>1. Underway /\ maxWait # -1 /\ Sent \in Nat
      BY <2>3, Told
    <3> DEFINE m == Len(content) + Len(buffer)
               q == Len(content') + Len(buffer')
    <3>2. m + Len(wire) = Sent /\ Follow(ask, wire, m) /\ puller = Loop(Total)
      BY <2>3, <3>1 DEF Underway
    <3>3. /\ content \in Seq(Int) /\ buffer \in Seq(Int)
          /\ content' \in Seq(Int) /\ buffer' \in Seq(Int)
      BY <2>3, <3>1 DEF Underway
    <3>4. m \in Nat
      BY <3>3
    <3>5. q = m + n
      BY <2>3
    <3>6. q + Len(wire') = Sent' /\ Follow(ask, wire', q)
      <4> HIDE DEF m, q
      <4>1. Follow(ask, Rest(wire, n), m + n)
        BY <1>1, <3>2, <3>4, FollowSplit
      <4>2. Follow(ask, wire', q)
        BY <3>5, <4>1
      <4>3. Sent' = Sent /\ Len(wire') = Len(wire) - n
        BY <1>2, <1>5
      <4> HIDE DEF Sent
      <4>4. q + Len(wire') = m + Len(wire)
        BY <1>1, <3>4, <3>5, <4>3
      <4> QED BY <3>2, <4>2, <4>3, <4>4
    <3>7. puller' = Loop(Total)' /\ puller' \notin {"start", "wait"}
      BY <1>5, <3>2 DEF Loop
    <3>8. ask' = ask
      BY DEF Hidden
    <3> HIDE DEF Sent
    <3> QED BY <1>5, <2>3, <3>3, <3>6, <3>7, <3>8 DEF Underway
  <2> QED BY <2>1, <2>2, <2>3
<1>7. /\ Formed' /\ Ended' /\ NotServed' /\ Served'
      /\ Endless' = Endless /\ ask' = ask
  <2>1. told' \in BOOLEAN /\ result' \in {"none", "true", "false"}
    BY DEF Formed
  <2> QED BY <1>2, <1>3, <1>4, <1>6, <2>1, ClientKeeps
<1>8. Pulling'
  <2>1. link # "up" => wire = <<>>
    BY DEF Pulling
  <2>2. link # "up" => wire' = <<>>
    BY <1>1, <2>1
  <2> QED BY <1>7, <2>2 DEF Pulling
<1>9. PulledWhole' /\ FailuresHaveReasons'
  BY <1>4 DEF PulledWhole, FailuresHaveReasons
<1> QED BY <1>7, <1>8, <1>9

\* What was received and what is received next are the bytes of the file.
LEMMA Appended ==
  ASSUME NEW s \in Seq(Int), NEW k \in Nat, Follow(ask, s, k),
         NEW w \in Seq(Int), Follow(ask, w, k + Len(s)), NEW n \in 0 .. Len(w)
  PROVE  /\ s \o SubSeq(w, 1, n) \in Seq(Int)
         /\ Len(s \o SubSeq(w, 1, n)) = Len(s) + n
         /\ Follow(ask, s \o SubSeq(w, 1, n), k)
<1> DEFINE t == SubSeq(w, 1, n)
<1>1. t \in Seq(Int) /\ Len(t) = n
  BY Split
<1>2. k + Len(s) \in Nat
  OBVIOUS
<1>3. Follow(ask, t, k + Len(s))
  <2> DEFINE m == k + Len(s)
  <2>1. m \in Nat /\ Follow(ask, w, m)
    BY <1>2
  <2> HIDE DEF m
  <2>2. Follow(ask, SubSeq(w, 1, n), m)
    BY <2>1, FollowSplit
  <2> QED BY <2>2 DEF m
<1> HIDE DEF t
<1>4. /\ s \o t \in Seq(Int) /\ Len(s \o t) = Len(s) + Len(t)
      /\ Follow(ask, s \o t, k)
  BY <1>1, <1>3, FollowConcat
<1> QED BY <1>1, <1>4 DEF t

\* Blocks are written as they fill up.
LEMMA ReceiveBlockKeeps ==
  ASSUME Inductive, NEW n \in 1 .. Len(wire), ReceiveBlock(n)
  PROVE  Inductive'
<1> USE DEF Inductive
<1> DEFINE got == buffer \o SubSeq(wire, 1, n)
<1>1. /\ puller = "blocks" /\ wire' = Rest(wire, n) /\ UNCHANGED Hidden
      /\ n \in 1 .. Least(Block - Len(buffer), Len(wire))
      /\ UNCHANGED <<link, puller, told, polls, result>>
      /\ IF Len(got) = Block
         THEN content' = content \o got /\ buffer' = <<>>
              /\ total' = total - Block
         ELSE buffer' = got /\ content' = content /\ total' = total
  BY DEF ReceiveBlock, Receive
<1>2. told /\ ~Endless /\ link = "up" =>
        /\ content' \in Seq(Int) /\ buffer' \in Seq(Int)
        /\ Len(content') + Len(buffer') = Len(content) + Len(buffer) + n
        /\ Follow(ask, content', 0) /\ Follow(ask, buffer', Len(content'))
        /\ total' = Total - Len(content') /\ Len(buffer') < Block
  <2> SUFFICES ASSUME told, ~Endless, link = "up"
               PROVE  <1>2!2
    OBVIOUS
  <2>1. Underway /\ maxWait # -1 /\ Total \in Nat
    BY <1>1, Told
  <2>2. /\ content \in Seq(Int) /\ buffer \in Seq(Int) /\ wire \in Seq(Int)
        /\ Follow(ask, content, 0) /\ Follow(ask, buffer, Len(content))
        /\ Follow(ask, wire, Len(content) + Len(buffer)) /\ Len(buffer) < Block
        /\ total = Total - Len(content)
    BY <1>1, <2>1 DEF Underway, Formed
  <2>3. /\ Len(content) \in Nat /\ Len(buffer) \in Nat /\ Len(wire) \in Nat
        /\ Block \in Nat /\ Block > 1 /\ n \in 0 .. Len(wire) /\ n \in Nat
    BY <2>2, Numbers
  <2>4. n <= Block - Len(buffer)
    BY <1>1, <2>3 DEF Least
  <2>5. /\ got \in Seq(Int) /\ Len(got) = Len(buffer) + n
        /\ Follow(ask, got, Len(content))
    BY <2>2, <2>3, Appended
  <2> HIDE DEF got
  <2>6. CASE Len(got) = Block
    <3>1. /\ content' = content \o got /\ buffer' = <<>>
          /\ total' = total - Block
      BY <1>1, <2>6
    <3>2. Follow(ask, got, 0 + Len(content))
      BY <2>3, <2>5
    <3>3. /\ content \o got \in Seq(Int)
          /\ Len(content \o got) = Len(content) + Len(got)
          /\ Follow(ask, content \o got, 0)
      BY <2>2, <2>5, <3>2, FollowConcat
    <3>4. buffer' \in Seq(Int) /\ Len(buffer') = 0
          /\ Follow(ask, buffer', Len(content'))
      BY <3>1 DEF Follow
    <3>5. total' = Total - Len(content')
      BY <2>1, <2>2, <2>3, <2>6, <3>1, <3>3
    <3>6. Len(content') + Len(buffer') = Len(content) + Len(buffer) + n
      BY <2>3, <2>5, <3>1, <3>3, <3>4
    <3> QED BY <2>3, <3>1, <3>3, <3>4, <3>5, <3>6
  <2>7. CASE Len(got) # Block
    <3>1. buffer' = got /\ content' = content /\ total' = total
      BY <1>1, <2>7
    <3>2. Len(buffer) + n < Block
      BY <2>3, <2>4, <2>5, <2>7
    <3>3. Len(content') + Len(buffer') = Len(content) + Len(buffer) + n
      BY <2>3, <2>5, <3>1
    <3> QED BY <2>2, <2>5, <3>1, <3>2, <3>3
  <2> QED BY <2>6, <2>7
<1> HIDE DEF got
<1> QED BY <1>1, <1>2, ReceiveKeeps

\* A small file is gathered.
LEMMA ReceiveWholeKeeps ==
  ASSUME Inductive, NEW n \in 1 .. Len(wire), ReceiveWhole(n)
  PROVE  Inductive'
<1> USE DEF Inductive
<1>1. /\ puller = "whole" /\ wire' = Rest(wire, n) /\ UNCHANGED Hidden
      /\ UNCHANGED <<link, puller, told, polls, result>>
      /\ buffer' = buffer \o SubSeq(wire, 1, n)
      /\ content' = content /\ total' = total
  BY DEF ReceiveWhole, Receive
<1>2. told /\ ~Endless /\ link = "up" =>
        /\ content' \in Seq(Int) /\ buffer' \in Seq(Int)
        /\ Len(content') + Len(buffer') = Len(content) + Len(buffer) + n
        /\ Follow(ask, content', 0) /\ Follow(ask, buffer', Len(content'))
        /\ total' = Total - Len(content') /\ content' = <<>>
  <2> SUFFICES ASSUME told, ~Endless, link = "up"
               PROVE  <1>2!2
    OBVIOUS
  <2>1. Underway /\ maxWait # -1 /\ Total \in Nat
    BY <1>1, Told
  <2>2. /\ content \in Seq(Int) /\ buffer \in Seq(Int) /\ wire \in Seq(Int)
        /\ Follow(ask, content, 0) /\ Follow(ask, buffer, Len(content))
        /\ Follow(ask, wire, Len(content) + Len(buffer)) /\ content = <<>>
        /\ total = Total - Len(content)
    BY <1>1, <2>1 DEF Underway, Formed
  <2>3. /\ Len(content) \in Nat /\ Len(buffer) \in Nat /\ Len(wire) \in Nat
        /\ n \in 0 .. Len(wire) /\ n \in Nat
    BY <2>2
  <2>4. /\ buffer' \in Seq(Int) /\ Len(buffer') = Len(buffer) + n
        /\ Follow(ask, buffer', Len(content))
    BY <1>1, <2>2, <2>3, Appended
  <2> QED BY <1>1, <2>2, <2>3, <2>4
<1> QED BY <1>1, <1>2, ReceiveKeeps

\* A protected file is written as it comes, and fits.
LEMMA ReceiveSlowKeeps ==
  ASSUME Inductive, NEW n \in 1 .. Len(wire), ReceiveSlow(n)
  PROVE  Inductive'
<1> USE DEF Inductive
<1> DEFINE got == content \o SubSeq(wire, 1, n)
<1>1. /\ puller = "slow" /\ wire' = Rest(wire, n) /\ UNCHANGED Hidden
      /\ UNCHANGED <<link, puller, told, polls, result>>
      /\ content' = UpTo(MaxContent, got)
      /\ buffer' = buffer /\ total' = total
  BY DEF ReceiveSlow, Receive
<1>2. told /\ ~Endless /\ link = "up" =>
        /\ content' \in Seq(Int) /\ buffer' \in Seq(Int)
        /\ Len(content') + Len(buffer') = Len(content) + Len(buffer) + n
        /\ Follow(ask, content', 0) /\ Follow(ask, buffer', Len(content'))
        /\ total' = Total - 0 /\ buffer' = <<>>
  <2> SUFFICES ASSUME told, ~Endless, link = "up"
               PROVE  <1>2!2
    OBVIOUS
  <2>1. Underway /\ maxWait # -1 /\ Total \in Nat /\ Serves
        /\ Sent \in 0 .. Total
    BY <1>1, Told
  <2>2. /\ content \in Seq(Int) /\ wire \in Seq(Int) /\ buffer = <<>>
        /\ Len(content) + 0 + Len(wire) = Sent
        /\ Follow(ask, content, 0) /\ Follow(ask, wire, Len(content) + 0)
        /\ total = Total /\ puller = Loop(Total)
    <3>1. Len(<<>>) = 0
      OBVIOUS
    <3>2. buffer = <<>>
      BY <1>1, <2>1 DEF Underway
    <3> QED BY <1>1, <2>1, <3>1, <3>2 DEF Underway, Formed
  <2>3. /\ Len(content) \in Nat /\ Len(wire) \in Nat
        /\ n \in 0 .. Len(wire) /\ n \in Nat
    BY <2>2
  <2>4. Follow(ask, wire, 0 + Len(content))
    BY <2>2, <2>3
  <2>5. /\ got \in Seq(Int) /\ Len(got) = Len(content) + n
        /\ Follow(ask, got, 0)
    BY <2>2, <2>3, <2>4, Appended
  <2> HIDE DEF got
  <2>6. Total <= MaxContent /\ MaxContent \in Nat
    <3>1. ask.via = "slow"
      BY <1>1, <2>2 DEF Loop
    <3>2. ask.want = "protected"
      BY <2>1, <3>1, Asked DEF Serves
    <3>3. ~Large /\ Thres \in Nat
      BY <2>1, <3>2, Numbers DEF Endless
    <3> QED BY <2>1, <3>2, <3>3, Asked, Numbers DEF Large, Total
  <2>7. Len(got) <= MaxContent
    <3> HIDE DEF Sent
    <3> QED BY <2>1, <2>2, <2>3, <2>5, <2>6
  <2>8. content' = got
    <3>1. Least(MaxContent, Len(got)) = Len(got)
      BY <2>5, <2>6, <2>7 DEF Least
    <3>2. SubSeq(got, 1, Len(got)) = got
      BY <2>5
    <3> QED BY <1>1, <3>1, <3>2 DEF UpTo
  <2>9. Follow(ask, buffer', Len(content')) /\ buffer' = <<>> /\ Len(<<>>) = 0
    BY <1>1, <2>2 DEF Follow
  <2>10. Len(content') + Len(buffer') = Len(content) + Len(buffer) + n
    BY <2>2, <2>3, <2>5, <2>8, <2>9
  <2>11. total' = Total - 0
    BY <1>1, <2>1, <2>2
  <2> QED BY <2>5, <2>8, <2>9, <2>10, <2>11
<1> HIDE DEF got
<1> QED BY <1>1, <1>2, ReceiveKeeps

\* The answer of a task.
LEMMA RequestReceivesKeeps ==
  ASSUME Inductive, NEW n \in 1 .. Len(wire), RequestReceives(n)
  PROVE  Inductive'
<1> USE DEF Inductive
<1>1. /\ puller = "wait" /\ wire' = Rest(wire, n) /\ UNCHANGED Hidden
      /\ UNCHANGED <<link, puller, told, polls, result>>
      /\ ask.via = "request"
  BY DEF RequestReceives, Receive
<1>2. ~told
  BY <1>1 DEF Pulling
<1> QED BY <1>1, <1>2, ReceiveKeeps

\* The function writes the rest of its buffer and returns.
LEMMA WriteOutWrites ==
  ASSUME content \in Seq(Int), buffer' \in Seq(Int), Len(buffer') = total,
         Len(content) + total = ask.size,
         Follow(ask, content, 0), Follow(ask, buffer', Len(content)), WriteOut
  PROVE  content' = Whole
<1> DEFINE b == [i \in 1 .. total |->
                   IF i <= Len(buffer') THEN buffer'[i] ELSE Text]
<1>1. b = buffer' /\ total \in Nat
  OBVIOUS
<1>2. content' = content \o buffer'
  BY <1>1 DEF WriteOut
<1>3. Follow(ask, buffer', 0 + Len(content))
  OBVIOUS
<1>4. /\ content \o buffer' \in Seq(Int) /\ Follow(ask, content \o buffer', 0)
      /\ Len(content \o buffer') = Len(content) + Len(buffer')
  BY <1>3, FollowConcat
<1>5. Len(content \o buffer') = ask.size
  BY <1>4
<1>6. content \o buffer' = Whole
  BY <1>4, <1>5, FollowIsDue
<1> QED BY <1>2, <1>6

\* The last byte of a small file has come: it is written out.
LEMMA ReceiveLastKeeps ==
  Inductive /\ ReceiveLast => Inductive'
<1> SUFFICES ASSUME Inductive, ReceiveLast
             PROVE  Inductive'
  OBVIOUS
<1> USE DEF Inductive
<1>1. /\ puller = "whole" /\ Len(buffer) + Len(wire) >= total
      /\ buffer' = buffer \o SubSeq(wire, 1, total - Len(buffer))
      /\ WriteOut /\ Return("true") /\ UNCHANGED Hidden /\ told' = told
  BY DEF ReceiveLast
<1>2. told /\ link # "broken" => content' = Whole
  <2> SUFFICES ASSUME told, link # "broken"
               PROVE  content' = Whole
    OBVIOUS
  <2>1. link = "up" /\ Serves /\ Total \in Nat
    BY <1>1, Told
  <2>2. CASE Endless
    <3>1. ask.want = "plain"
      BY <1>1, <2>1, <2>2 DEF Serves, Pulling
    <3>2. Total = 0 /\ total = 0 /\ content = <<>>
      BY <1>1, <2>2, <3>1 DEF Endless, Pulling
    <3> DEFINE b == [i \in 1 .. total |->
                       IF i <= Len(buffer') THEN buffer'[i] ELSE Text]
    <3>3. content' = content \o b
      BY <1>1 DEF WriteOut
    <3>4. b = <<>>
      BY <3>2
    <3> HIDE DEF b
    <3>5. content' = <<>>
      BY <3>2, <3>3, <3>4
    <3>6. Whole = <<>>
      BY <3>2 DEF Whole, Total
    <3> QED BY <3>5, <3>6
  <2>3. CASE ~Endless
    <3>1. Underway /\ maxWait # -1 /\ Sent \in 0 .. Total
      BY <1>1, <2>3, Told
    <3>2. /\ content = <<>> /\ buffer \in Seq(Int) /\ wire \in Seq(Int)
          /\ Len(content) + Len(buffer) + Len(wire) = Sent
          /\ Follow(ask, content, 0) /\ Follow(ask, buffer, Len(content))
          /\ Follow(ask, wire, Len(content) + Len(buffer))
          /\ total = Total - Len(content)
      BY <1>1, <2>1, <3>1 DEF Underway, Formed
    <3> HIDE DEF Sent
    <3>3. /\ Len(content) = 0 /\ Len(buffer) \in Nat /\ Len(wire) \in Nat
          /\ total = Total /\ Len(content) \in Nat
      BY <2>1, <3>2
    <3> DEFINE n == total - Len(buffer)
    <3>4. n \in 0 .. Len(wire) /\ Len(buffer) + n = total
      BY <1>1, <2>1, <3>1, <3>2, <3>3
    <3> HIDE DEF n
    <3>5. buffer' = buffer \o SubSeq(wire, 1, n)
      BY <1>1 DEF n
    <3>6. /\ buffer' \in Seq(Int) /\ Len(buffer') = Len(buffer) + n
          /\ Follow(ask, buffer', Len(content))
      BY <3>2, <3>3, <3>4, <3>5, Appended
    <3>7. content \in Seq(Int)
      BY <3>2
    <3>8. Len(content) + total = ask.size
      BY <2>1, <3>3 DEF Total
    <3> QED BY <1>1, <3>2, <3>4, <3>6, <3>7, <3>8, WriteOutWrites
  <2> QED BY <2>2, <2>3
<1> QED BY <1>1, <1>2, ReturnKeeps

\* The server has closed the connection, so all was sent: what is left in the
\* buffer is the rest of the file.
LEMMA FastEndKeeps ==
  Inductive /\ FastEnd => Inductive'
<1> SUFFICES ASSUME Inductive, FastEnd
             PROVE  Inductive'
  OBVIOUS
<1> USE DEF Inductive
<1>1. /\ puller \in {"blocks", "whole"} /\ AtEnd /\ buffer' = buffer
      /\ WriteOut /\ Return("true") /\ UNCHANGED Hidden /\ told' = told
  BY DEF FastEnd
<1>2. told /\ link # "broken" => content' = Whole
  <2> SUFFICES ASSUME told, link # "broken"
               PROVE  content' = Whole
    OBVIOUS
  <2>1. wire = <<>> /\ pc = "closed"
    BY <1>1 DEF AtEnd
  <2>2. /\ link = "up" /\ Serves /\ Total \in Nat /\ ~Endless /\ Underway
        /\ Sent = Total /\ maxWait # -1
    BY <1>1, <2>1, Told
  <2>3. /\ content \in Seq(Int) /\ buffer \in Seq(Int)
        /\ Len(content) + Len(buffer) + Len(wire) = Sent
        /\ Follow(ask, content, 0) /\ Follow(ask, buffer, Len(content))
        /\ total = Total - Len(content)
    BY <1>1, <2>2 DEF Underway
  <2> HIDE DEF Sent
  <2>4. Len(content) \in Nat /\ Len(buffer) \in Nat /\ Len(wire) = 0
    BY <2>1, <2>3
  <2>5. Len(buffer) = total /\ Len(content) + total = ask.size
    BY <2>2, <2>3, <2>4 DEF Total
  <2> QED BY <1>1, <2>3, <2>5, WriteOutWrites
<1> QED BY <1>1, <1>2, ReturnKeeps

\* Here all was written already.
LEMMA SlowEndKeeps ==
  Inductive /\ SlowEnd => Inductive'
<1> SUFFICES ASSUME Inductive, SlowEnd
             PROVE  Inductive'
  OBVIOUS
<1> USE DEF Inductive
<1>1. /\ puller = "slow" /\ AtEnd /\ content' = content
      /\ Return("true") /\ UNCHANGED Hidden /\ told' = told
  BY DEF SlowEnd
<1>2. told /\ link # "broken" => content' = Whole
  <2> SUFFICES ASSUME told, link # "broken"
               PROVE  content' = Whole
    OBVIOUS
  <2>1. wire = <<>> /\ pc = "closed"
    BY <1>1 DEF AtEnd
  <2>2. /\ link = "up" /\ Serves /\ Total \in Nat /\ ~Endless /\ Underway
        /\ Sent = Total /\ maxWait # -1
    BY <1>1, <2>1, Told
  <2>3. /\ content \in Seq(Int) /\ buffer = <<>>
        /\ Len(content) + Len(buffer) + Len(wire) = Sent
        /\ Follow(ask, content, 0)
    BY <1>1, <2>2 DEF Underway
  <2> HIDE DEF Sent
  <2>4. Len(content) = ask.size
    BY <2>1, <2>2, <2>3 DEF Total
  <2> QED BY <1>1, <2>3, <2>4, FollowIsDue
<1> QED BY <1>1, <1>2, ReturnKeeps

\* Request gives up, or goes on.
LEMMA RequestPollsKeeps ==
  Inductive /\ RequestPolls => Inductive'
<1> SUFFICES ASSUME Inductive, RequestPolls
             PROVE  Inductive'
  OBVIOUS
<1> USE DEF Inductive
<1>1. ask.via = "request" /\ UNCHANGED Hidden
      /\ UNCHANGED <<total, buffer, content, told>> /\ ~told
  BY DEF RequestPolls, Pulling
<1>2. CASE Return("true")
  BY <1>1, <1>2, ReturnKeeps
<1>3. CASE UNCHANGED <<puller, result, link, wire>>
  <2>1. /\ UNCHANGED <<ask, arrived, taken, pc, closing, endRequest, maxWait>>
        /\ UNCHANGED <<sendBytes, response, timeout, var1, var2, var3, pos>>
        /\ UNCHANGED <<puller, total, buffer, content, told, result>>
        /\ UNCHANGED <<link, wire>>
    BY <1>1, <1>3 DEF Hidden
  <2>2. Formed' /\ Ended' /\ NotServed'
    BY <2>1 DEF Formed, Ended, NotServed, Serves
  <2>3. Served'
    <3>1. ~Serves
      BY <1>1, Asked DEF Serves
    <3> QED BY <2>1, <3>1 DEF Served, Serves
  <2>4. Pulling' /\ PulledWhole' /\ FailuresHaveReasons'
    BY <2>1 DEF Pulling, PulledWhole, FailuresHaveReasons, Endless, Serves,
       Total, Large, Stored, Due
  <2> QED BY <2>2, <2>3, <2>4
<1> QED BY <1>2, <1>3 DEF RequestPolls

\* Request has its answer.
LEMMA RequestEndKeeps ==
  Inductive /\ RequestEnd => Inductive'
<1> SUFFICES ASSUME Inductive, RequestEnd
             PROVE  Inductive'
  OBVIOUS
<1>1. ask.via = "request" /\ UNCHANGED Hidden /\ told' = told /\ ~told
      /\ Return("true")
  BY DEF RequestEnd, Inductive, Pulling
<1> QED BY <1>1, ReturnKeeps

-----------------------------------------------------------------------------
(* The theorems *)

\* A connection begins with nothing read, sent or told.
LEMMA InductiveInit ==
  Init => Inductive
<1> SUFFICES ASSUME Init
             PROVE  Inductive
  OBVIOUS
<1>1. /\ ask \in Asks /\ arrived = 0 /\ taken = 0 /\ ask.parts \in Nat \ {0}
      /\ link = "up" /\ wire = <<>> /\ pc = "read" /\ closing = FALSE
      /\ endRequest = FALSE /\ maxWait = MaxWaitLoop /\ sendBytes = 0
      /\ response = <<>> /\ timeout = "short" /\ var1 = -1
      /\ var3 = "null" /\ pos = 0 /\ puller = "start" /\ total = 1
      /\ buffer = <<>> /\ content = <<>> /\ told = FALSE /\ result = "none"
  BY Requests DEF Init, HandlerInit, Start
<1>2. maxWait \in Int /\ maxWait > 0
  BY <1>1, Numbers
<1>3. ~Serves
  BY <1>1 DEF Serves
<1>4. Formed /\ Ended
  <2>1. 0 \in 0 .. ask.parts /\ 0 \in 0 .. 0 /\ 0 # ask.parts
    BY <1>1
  <2>2. arrived \in 0 .. ask.parts /\ taken \in 0 .. arrived
    BY <1>1, <2>1
  <2>3. /\ wire \in Seq(Int) /\ response \in Seq(Nat)
        /\ sendBytes \in Nat /\ pos \in Nat /\ var1 \in Int
    BY <1>1
  <2>4. Formed
    BY <1>1, <1>2, <2>2, <2>3 DEF Formed
  <2> QED BY <1>1, <1>2, <2>1, <2>4 DEF Ended
<1>5. NotServed /\ Served
  BY <1>1, <1>2, <1>3 DEF NotServed, Served
<1>6. Pulling /\ PulledWhole /\ FailuresHaveReasons
  BY <1>1, <1>3 DEF Pulling, PulledWhole, FailuresHaveReasons, Endless
<1> QED BY <1>4, <1>5, <1>6 DEF Inductive

\* A step of the handler.
LEMMA HandleKeeps ==
  Inductive /\ Handle /\ UNCHANGED client => Inductive'
<1> SUFFICES ASSUME Inductive, Handle, UNCHANGED client
             PROVE  Inductive'
  OBVIOUS
<1>1. CASE ReadPart \/ ReadNothing \/ ReadFails \/ ReadIdle \/ ReadDone
  BY <1>1, ReadPartKeeps, ReadNothingKeeps, ReadFailsKeeps, ReadIdleKeeps,
     ReadDoneKeeps
<1>2. CASE \/ ParseDone \/ ParseTask \/ ParseStore \/ ParsePlain
           \/ ParseProtected \/ ParseMissing
  BY <1>2, ParseDoneKeeps, ParseTaskKeeps, ParseStoreKeeps, ParsePlainKeeps,
     ParseProtectedKeeps, ParseMissingKeeps
<1>3. CASE SendNullptr \/ SendHeader \/ RespondNoMore \/ Tick \/ Expire
  BY <1>3, SendNullptrKeeps, SendHeaderKeeps, RespondNoMoreKeeps, TickKeeps,
     ExpireKeeps
<1>4. CASE \E outcome \in Outcomes : Transmit(outcome)
  <2> PICK outcome \in Outcomes : Transmit(outcome)
    BY <1>4
  <2> QED BY TransferBlocksKeeps, TransferWholeKeeps, TransferProtectedKeeps,
             RespondKeeps DEF Transmit
<1> QED BY <1>1, <1>2, <1>3, <1>4 DEF Handle

\* A step of the client's function.
LEMMA PullKeeps ==
  Inductive /\ Pull => Inductive'
<1> SUFFICES ASSUME Inductive, Pull
             PROVE  Inductive'
  OBVIOUS
<1>1. CASE \/ SendRequest \/ SendRequestFails \/ FirstRecord \/ FirstNothing
  BY <1>1, SendRequestKeeps, SendRequestFailsKeeps, FirstRecordKeeps,
     FirstNothingKeeps
<1>2. CASE \E n \in 1 .. Len(wire) :
             \/ ReceiveBlock(n) \/ ReceiveWhole(n)
             \/ ReceiveSlow(n) \/ RequestReceives(n)
  <2> PICK n \in 1 .. Len(wire) : \/ ReceiveBlock(n) \/ ReceiveWhole(n)
                                  \/ ReceiveSlow(n) \/ RequestReceives(n)
    BY <1>2
  <2> QED BY ReceiveBlockKeeps, ReceiveWholeKeeps, ReceiveSlowKeeps,
             RequestReceivesKeeps
<1>3. CASE ReceiveLast \/ FastEnd \/ SlowEnd
  BY <1>3, ReceiveLastKeeps, FastEndKeeps, SlowEndKeeps
<1>4. CASE RequestPolls \/ RequestEnd
  BY <1>4, RequestPollsKeeps, RequestEndKeeps
<1> QED BY <1>1, <1>2, <1>3, <1>4 DEF Pull

\* A step of neither.
LEMMA StutterKeeps ==
  Inductive /\ UNCHANGED vars => Inductive'
<1> SUFFICES ASSUME Inductive, UNCHANGED vars
             PROVE  Inductive'
  OBVIOUS
<1> USE DEF Inductive
<1>1. /\ UNCHANGED <<ask, arrived, taken, link, wire, pc, closing>>
      /\ UNCHANGED <<endRequest, maxWait, sendBytes, response, timeout>>
      /\ UNCHANGED <<var1, var2, var3, pos, puller, total, buffer, content>>
      /\ UNCHANGED <<told, polls, result>>
  BY DEF vars, handler
<1>2. /\ UNCHANGED <<Serves, Endless, Blockwise, AtOnce, Total, Large, Sent>>
      /\ Loop(Total)' = Loop(Total)
  BY <1>1 DEF Serves, Endless, Blockwise, AtOnce, Total, Large, Sent, Loop
<1>3. Formed' /\ Ended'
  BY <1>1 DEF Formed, Ended
<1>4. NotServed' /\ Members' = Members /\ Unparsed' = Unparsed
  BY <1>1, <1>2 DEF NotServed, Members, OpenedStream, Unparsed
<1>5. OnlyHeaders => OnlyHeaders'
  BY <1>1, <1>2 DEF OnlyHeaders
<1>6. SendsBlocks => SendsBlocks'
  BY <1>1, <1>2 DEF SendsBlocks, JustParsed
<1>7. SendsWhole => SendsWhole'
  BY <1>1, <1>2 DEF SendsWhole, JustParsed
<1>8. Underway => Underway'
  BY <1>1, <1>2 DEF Underway
<1>9. Served'
  BY <1>1, <1>2, <1>4, <1>5, <1>6, <1>7, <1>8 DEF Served
<1>10. Pulling' /\ PulledWhole' /\ FailuresHaveReasons'
  BY <1>1, <1>2 DEF Pulling, PulledWhole, FailuresHaveReasons, Stored, Due
<1> QED BY <1>3, <1>4, <1>9, <1>10

\* The invariant of the whole exchange: what either side believes of the bytes
\* sent, under way and received, be they the file's or, of a stream that did
\* not open, none of its (FileSharingServer.cpp, 384-507 and 639-842).
THEOREM TransferInvariant ==
  Spec => []Inductive
<1>1. Inductive /\ [Next]_vars => Inductive'
  BY HandleKeeps, PullKeeps, ArriveKeeps, BreakKeeps, StutterKeeps DEF Next
<1> QED BY <1>1, InductiveInit, PTL DEF Spec

\* A pull that was told the size and returns true has all that the server's
\* stream gave, in order, unless the connection broke, at every size of the
\* file, of a block and of the threshold: the file, if both ends opened theirs.
\* If the server could not, it has as many bytes that are not the file's, and
\* if the client could not, nothing.
THEOREM PullsAreWhole ==
  Spec => []PulledWhole
BY TransferInvariant, PTL DEF Inductive

\* A pull fails only if the file is not shared, if the request came in too
\* slowly to be read whole, or if the connection broke.
THEOREM OnlyForAReason ==
  Spec => []FailuresHaveReasons
BY TransferInvariant, PTL DEF Inductive

\* The members of the unions are read as what was written to them, in every
\* turn of a transfer and when the connection is deleted.
THEOREM UnionsAreSound ==
  Spec => []UnionsAreReadAsWritten
<1>1. Inductive => UnionsAreReadAsWritten
  <2> SUFFICES ASSUME Inductive
               PROVE  UnionsAreReadAsWritten
    OBVIOUS
  <2> USE DEF Inductive
  <2>0. Total \in Nat
    BY Asked DEF Total
  <2>1. CASE ~Serves
    BY <2>1 DEF NotServed, UnionsAreReadAsWritten
  <2>2. CASE Serves /\ timeout = "short"
    BY <2>2 DEF Served, Unparsed, UnionsAreReadAsWritten
  <2>3. CASE Serves /\ timeout = "none"
    <3>1. Members /\ (Endless \/ Blockwise \/ AtOnce)
      BY <2>0, <2>3 DEF Served, Unparsed, Serves, Endless, Blockwise, AtOnce
    <3>2. var1 \in Nat /\ (ask.want = "protected" => var1 = Total)
      BY <2>0, <2>3, <3>1 DEF Served, Unparsed, OnlyHeaders, SendsBlocks,
         SendsWhole, Blockwise
    <3>3. pc = "closed" => var3 # "file"
      <4>1. pc = "closed" /\ ask.want = "protected" => response # <<>>
        BY <2>0, <2>3, <3>1 DEF Served, Unparsed, OnlyHeaders, SendsWhole,
           AtOnce, Blockwise
      <4> QED BY <2>3, <3>1, <4>1 DEF Members, OpenedStream, Serves
    <3> QED BY <2>3, <3>1, <3>2, <3>3
            DEF Members, OpenedStream, Serves, UnionsAreReadAsWritten, Total,
                Large
  <2> QED BY <2>1, <2>2, <2>3 DEF Formed
<1> QED BY <1>1, TransferInvariant, PTL

=============================================================================
