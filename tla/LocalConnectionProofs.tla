------------------------- MODULE LocalConnectionProofs -------------------------
(***************************************************************************)
(* Proofs about LocalConnection, for any commands, any number of parts of  *)
(* a response and any number of lines.                                     *)
(*                                                                         *)
(* Two processes take turns over two buffers that no lock protects, so the *)
(* inductive invariants say where one process may be, and what the buffers *)
(* hold, for every place of the other.  Each builds on those before it:    *)
(*                                                                         *)
(*   Followed     the console's loop that shows a transfer,                *)
(*   Opening      what is so before the host got the console's greeting,   *)
(*   InTurn       and after it, whatever is interrupted where,             *)
(*   Counted,     while no process is interrupted between two sleeps:      *)
(*   Answered     questions and answers are counted alike,                 *)
(*   Worded       the words at the front of the host's buffer,             *)
(*   Displayed,   and what has been said is what has been shown, but for   *)
(*   DirShown     what the buffer holds now,                               *)
(*   Showing,     and, with Worded, that where one of the two waits the    *)
(*   Awaited      other goes on.                                           *)
(*                                                                         *)
(* They hold up to the first response that is cut short: its last part     *)
(* begins with U+2500 and is taken for received while the console has not  *)
(* looked.  From then to the next line, CutInTurn, CutShown and CutOver    *)
(* say what holds: the host waits, and that part is in the buffer.         *)
(***************************************************************************)
EXTENDS LocalConnection, TLAPS

-----------------------------------------------------------------------------
(* Words *)

\* What is left of Max16 when its low byte is cleared.
High == <<0, 255>>

Words == {Zero, Ascii, Rule, Max16, High}

LEMMA WordsDiffer ==
  /\ Zero # Ascii /\ Zero # Rule /\ Zero # Max16 /\ Zero # One /\ Zero # High
  /\ Ascii # Rule /\ Ascii # Max16 /\ Ascii # One /\ Ascii # High
  /\ Rule # Max16 /\ Rule # High /\ Max16 # One /\ Max16 # High
BY DEF Zero, Ascii, Rule, Max16, One, High

LEMMA LowBytes ==
  /\ \A w \in Words : LowByteIsZero(w) <=> w \in {Zero, Rule, High}
  /\ ClearLowByte(Zero) = Zero /\ ClearLowByte(Ascii) = Zero
  /\ ClearLowByte(Rule) = Rule /\ ClearLowByte(Max16) = High
  /\ ClearLowByte(High) = High
  /\ \A w \in {Zero, Ascii, Max16, One} : LowByteIsZero(w) <=> w = Zero
BY DEF Zero, Ascii, Rule, Max16, One, High, Words, LowByteIsZero, ClearLowByte

-----------------------------------------------------------------------------
(* Types *)

Payload == [kind : DataKinds, of : Nat, n : Nat]
Seconds == Kinds \cup {"zero", "text", "prefix"}
Buffers == [w0 : Words, w1 : Seconds, data : Payload, open : BOOLEAN]

BuffersTyped ==
  /\ toClient \in Buffers /\ got \in Buffers
  /\ toHost \in [w0 : {Zero, Ascii, Max16, One}, data : Payload]

RestTyped ==
  /\ msg \in Payload /\ line \in Payload /\ dir \in Payload
  /\ calls \in Seq(Kinds) /\ left \in Nat /\ asked \in Nat
  /\ sentDir \in Nat /\ typed \in Nat /\ given \in Nat
  /\ said \in Seq(Payload) /\ shown \in Seq(Payload)
  /\ reply \in Seq({Zero, Ascii, Rule}) /\ part \in Nat

\* A response under way has parts left.
PartsLeft ==
  /\ hostAt \notin {"start", "greeting", "greeted", "listen", "gone"} =>
       reply \in Replies \cup {<<Ascii>>}
  /\ hostAt = "reply" => part < Len(reply)
  /\ hostAt \notin {"start", "greeting", "greeted", "listen", "gone", "reply",
                    "end"} => part = 0
  /\ hostAt \notin {"start", "greeting", "greeted", "listen", "gone", "call",
                    "reply", "end"} => calls # <<>>
  /\ hostAt = "text" => left \in Nat \ {0}

LEMMA ReplyFacts ==
  ASSUME NEW r \in Replies \cup {<<Ascii>>}
  PROVE  /\ r \in Seq({Zero, Ascii, Rule}) /\ Len(r) \in Nat /\ Len(r) > 0
         /\ r[1] \in {Ascii, Rule}
         /\ \A i \in 1 .. Len(r) : r[i] \in {Zero, Ascii, Rule}
<1>1. CASE r \in Replies
  BY <1>1, LocalConnectionAssumption
<1>2. CASE r = <<Ascii>>
  BY <1>2, WordsDiffer
<1> QED  BY <1>1, <1>2

LEMMA AppendTyped ==
  ASSUME NEW S, NEW s \in Seq(S), NEW d \in S, NEW t, t = s \/ t = Append(s, d)
  PROVE  t \in Seq(S)
OBVIOUS

LEMMA DataIs ==
  ASSUME NEW kind, NEW of, NEW n, NEW d, d = Data(kind, of, n)
  PROVE  d.kind = kind /\ d.of = of /\ d.n = n
BY DEF Data

LEMMA NothingIs ==
  Nothing.kind = "nothing" /\ Nothing.of = 0 /\ Nothing.n = 0
BY DEF Nothing, Data

LEMMA DataTyped ==
  ASSUME NEW kind \in DataKinds, NEW of \in Nat, NEW n \in Nat
  PROVE  Data(kind, of, n) \in Payload
BY DEF Data, Payload

Typed == BuffersTyped /\ RestTyped

TypesHold == Typed /\ PartsLeft

LEMMA NextCall ==
  ASSUME calls \in Seq(Kinds), calls # <<>>
  PROVE  /\ Head(calls) \in Kinds /\ Tail(calls) \in Seq(Kinds)
         /\ Waiting(Head(calls)) \in {"ask", "track", "display"}
         /\ Waiting(Head(calls)) = "ask" => Head(calls) \in Prompts
BY DEF Waiting, Kinds, Prompts

LEMMA TypesInit == Init => TypesHold
BY DataTyped
   DEF Init, TypesHold, Typed, BuffersTyped, RestTyped, PartsLeft, Buffers,
       Seconds, Kinds, Words, Payload, DataKinds, OtherData, Nothing, Data

LEMMA HostTypes ==
  ASSUME TypesHold, HostSteps
  PROVE  TypesHold'
<1> USE WordsDiffer, LowBytes
    DEF TypesHold, Typed, BuffersTyped, RestTyped, PartsLeft, Buffers,
        Seconds, Words, hostVars, clientVars, HostGoes, ReadyToSend,
        ReadyToRecv, LocalSend
<1>p. /\ \A d \in Payload : d.kind \in DataKinds /\ d.of \in Nat /\ d.n \in Nat
      /\ OtherData \subseteq DataKinds /\ Nothing \in Payload
  BY DEF Payload, DataKinds, OtherData, Nothing, Data
<1>h. calls # <<>> =>
         /\ Head(calls) \in Kinds /\ Tail(calls) \in Seq(Kinds)
         /\ Waiting(Head(calls)) \in {"ask", "track", "display"}
  BY NextCall
<1>1. CASE HostStarts
  BY <1>1, <1>p, DataTyped DEF HostStarts, OtherData
<1>2. CASE HostGreets
  BY <1>2 DEF HostGreets
<1>3. CASE HostIsGreeted
  BY <1>3 DEF HostIsGreeted
<1>4. CASE HostExecutes
  <2>1. calls' \in Seq(Kinds)
    <3>1. toHost.data.kind \in DOMAIN CallsOf =>
            CallsOf[toHost.data.kind] \subseteq Seq(Kinds)
      BY LocalConnectionAssumption
    <3>2. {<<>>} \subseteq Seq(Kinds)
      OBVIOUS
    <3> QED  BY <1>4, <3>1, <3>2 DEF HostExecutes, CallsFor
  <2>2. reply' \in Replies \cup {<<Ascii>>}
    BY <1>4 DEF HostExecutes, RepliesFor
  <2>3. reply' \in Seq({Zero, Ascii, Rule}) /\ Len(reply') > 0
    BY <2>2, ReplyFacts
  <2>a. BuffersTyped'
    BY <1>4, <2>1, <2>3 DEF HostExecutes
  <2>c. RestTyped'
    BY <1>4, <2>1, <2>3 DEF HostExecutes
  <2>b. PartsLeft'
    BY <1>4, <2>2, <2>3 DEF HostExecutes
  <2> QED  BY <2>a, <2>b, <2>c
<1>5. CASE HostExits
  BY <1>5 DEF HostExits
<1>6. CASE HostDrops
  BY <1>6 DEF HostDrops
<1>7. CASE HostReplies
  <2>1. Len(reply) > 0
    BY <1>7, ReplyFacts DEF HostReplies
  <2> QED  BY <1>7, <2>1 DEF HostReplies
<1>8. CASE HostSendsPart
  <2>1. Data("reply", msg.of, part + 1) \in Payload
    <3>1. "reply" \in DataKinds
      BY DEF DataKinds, OtherData
    <3> QED  BY <1>p, <3>1, DataTyped
  <2>2. reply[part + 1] \in {Zero, Ascii, Rule}
    BY <1>8, ReplyFacts DEF HostSendsPart
  <2>a. BuffersTyped'
    BY <1>8, <2>1, <2>2 DEF HostSendsPart
  <2>4. /\ UNCHANGED <<msg, calls, reply, left, asked, sentDir, clientVars>>
        /\ part' = part + 1
        /\ \/ said' = said
           \/ said' = Append(said, Data("reply", msg.of, part + 1))
    BY <1>8 DEF HostSendsPart
  <2>5. said' \in Seq(Payload)
    <3>1. said \in Seq(Payload)
      OBVIOUS
    <3> QED  BY <3>1, <2>1, <2>4, AppendTyped
  <2>c. RestTyped'
    BY <2>4, <2>5
  <2>3. Len(reply) \in Nat
    BY ReplyFacts
  <2>b. PartsLeft'
    BY <1>8, <2>3 DEF HostSendsPart
  <2> QED  BY <2>a, <2>b, <2>c
<1>9. CASE HostEndsSend
  BY <1>9 DEF HostEndsSend
<1>10. CASE HostCalls
  BY <1>10, <1>h DEF HostCalls
<1>11. CASE HostAnnounces
  <2>a. BuffersTyped'
    BY <1>11 DEF HostAnnounces
  <2>1. /\ UNCHANGED <<msg, calls, reply, part, left, sentDir, said,
                        clientVars>>
        /\ asked' = asked + 1
    BY <1>11 DEF HostAnnounces
  <2>c. RestTyped'
    BY <2>1
  <2>b. PartsLeft'
    BY <1>11 DEF HostAnnounces
  <2> QED  BY <2>a, <2>b, <2>c
<1>12. CASE HostSaysWhat
  BY <1>12, <1>h DEF HostSaysWhat
<1>13. CASE HostWritesText
  <2>0. {"dir", "query"} \subseteq DataKinds
    BY DEF DataKinds, OtherData
  <2>1. /\ Data("dir", msg.of, sentDir + 1) \in Payload
        /\ Data("query", msg.of, asked) \in Payload
    BY <1>p, <2>0, DataTyped
  <2>2. /\ UNCHANGED <<msg, calls, reply, part, left, asked, clientVars>>
        /\ UNCHANGED toHost /\ sentDir' \in {sentDir, sentDir + 1}
        /\ \E d \in Payload : /\ toClient' = [toClient EXCEPT !.data = d]
                              /\ \/ said' = said
                                 \/ said' = Append(said, toClient'.data)
    BY <1>13, <2>1 DEF HostWritesText
  <2>a. BuffersTyped'
    BY <2>2
  <2>3. said' \in Seq(Payload)
    <3>1. said \in Seq(Payload) /\ toClient'.data \in Payload
      BY <2>a
    <3> QED  BY <3>1, <2>2, AppendTyped
  <2>c. RestTyped'
    BY <2>2, <2>3
  <2>b. PartsLeft'
    BY <1>13, <2>1 DEF HostWritesText
  <2> QED  BY <2>a, <2>b, <2>c
<1>14. CASE HostReadsAnswer
  BY <1>14 DEF HostReadsAnswer
<1>15. CASE HostClearsAnswer
  <2>a. Typed'
    BY <1>15, <1>h DEF HostClearsAnswer
  <2>b. PartsLeft'
    BY <1>15, <1>h DEF HostClearsAnswer
  <2> QED  BY <2>a, <2>b
<1>16. CASE HostWritesPrefix
  BY <1>16, <1>p, DataTyped DEF HostWritesPrefix, HostWrites, OtherData
<1>17. CASE HostSendsPrefix
  BY <1>17 DEF HostSendsPrefix, HostWrites
<1>18. CASE HostWritesNumbers
  BY <1>18, <1>p, DataTyped DEF HostWritesNumbers, HostWrites, OtherData, Kinds
<1>19. CASE HostSendsTrack
  BY <1>19 DEF HostSendsTrack, HostWrites
<1>20. CASE HostTracks
  BY <1>20 DEF HostTracks, HostWrites, Kinds
<1>21. CASE HostEndsTrack
  BY <1>21 DEF HostEndsTrack, HostWrites
<1>22. CASE HostSeesTrackEnd
  BY <1>22 DEF HostSeesTrackEnd, HostWrites
<1>23. CASE HostClearsTrack
  <2>a. Typed'
    BY <1>23, <1>h DEF HostClearsTrack
  <2>b. PartsLeft'
    BY <1>23, <1>h DEF HostClearsTrack
  <2> QED  BY <2>a, <2>b
<1>24. CASE HostWritesDisplay
  BY <1>24 DEF HostWritesDisplay, HostWrites, Kinds
<1>25. CASE HostSendsDisplay
  BY <1>25 DEF HostSendsDisplay, HostWrites
<1>26. CASE HostBeginsText
  <2>1. Blocks \in Nat \ {0}
    BY LocalConnectionAssumption
  <2>a. Typed'
    BY <1>26, <2>1, <1>p DEF HostBeginsText, Kinds
  <2>2. /\ hostAt = "display sent" /\ hostAt' = "text" /\ left' = Blocks
        /\ UNCHANGED <<calls, reply, part>>
    BY <1>26 DEF HostBeginsText
  <2>b. PartsLeft'
    BY <2>1, <2>2
  <2> QED  BY <2>a, <2>b
<1>27. CASE HostDisplays
  <2>1. Data("display", msg.of, left) \in Payload
    BY <1>p, DataTyped DEF OtherData
  <2>a. BuffersTyped'
    BY <1>27, <1>h, <2>1 DEF HostDisplays
  <2>c. RestTyped'
    BY <1>27, <1>h, <2>1 DEF HostDisplays
  <2>b. PartsLeft'
    BY <1>27, <1>h, <2>1 DEF HostDisplays
  <2> QED  BY <2>a, <2>b, <2>c
<1> QED
  BY <1>1, <1>2, <1>3, <1>4, <1>5, <1>6, <1>7, <1>8, <1>9, <1>10, <1>11,
     <1>12, <1>13, <1>14, <1>15, <1>16, <1>17, <1>18, <1>19, <1>20, <1>21,
     <1>22, <1>23, <1>24, <1>25, <1>26, <1>27 DEF HostSteps

LEMMA ClientTypes ==
  ASSUME TypesHold, ClientSteps \/ UserTypes
  PROVE  TypesHold'
<1> USE WordsDiffer, LowBytes
    DEF TypesHold, Typed, BuffersTyped, RestTyped, PartsLeft, Buffers,
        Seconds, Words, hostVars, clientVars, ClientGoes, ReadyToSend,
        ReadyToRecv, SendLine
<1>p. {Nothing, Data("hello", 0, 0), Data("cd", 0, 0)} \subseteq Payload
  <2>1. {"nothing", "hello", "cd"} \subseteq DataKinds
    BY DEF OtherData, DataKinds
  <2> QED  BY <2>1, DataTyped DEF Nothing
<1>q. \A kind \in {"password", "query", "empty"} :
        Data(kind, typed, given + 1) \in Payload
  <2>1. {"password", "query", "empty"} \subseteq DataKinds
    BY DEF OtherData, DataKinds
  <2>2. typed \in Nat /\ given + 1 \in Nat
    OBVIOUS
  <2> QED  BY <2>1, <2>2, DataTyped
<1>1. CASE ClientStarts
  <2>a. BuffersTyped'
    BY <1>1, <1>p DEF ClientStarts
  <2>b. RestTyped'
    BY <1>1, <1>p DEF ClientStarts
  <2>c. PartsLeft'
    BY <1>1, <1>p DEF ClientStarts
  <2> QED  BY <2>a, <2>b, <2>c
<1>2. CASE ClientGreets
  BY <1>2, <1>p DEF ClientGreets
<1>3. CASE ClientSendsDir
  <2>a. BuffersTyped'
    BY <1>3, <1>p DEF ClientSendsDir
  <2>b. RestTyped'
    BY <1>3, <1>p DEF ClientSendsDir
  <2>c. PartsLeft'
    BY <1>3, <1>p DEF ClientSendsDir
  <2> QED  BY <2>a, <2>b, <2>c
<1>4. CASE ClientIsReady
  <2>a. BuffersTyped'
    BY <1>4 DEF ClientIsReady
  <2>b. RestTyped'
    BY <1>4 DEF ClientIsReady
  <2>c. PartsLeft'
    BY <1>4 DEF ClientIsReady
  <2> QED  BY <2>a, <2>b, <2>c
<1>5. CASE ClientSends
  BY <1>5 DEF ClientSends
<1>6. CASE ClientHears
  BY <1>6 DEF ClientHears
<1>7. CASE ClientIsDone
  BY <1>7 DEF ClientIsDone
<1>8. CASE ClientReceives
  <2>1. /\ got' \in Buffers
        /\ UNCHANGED <<toHost, hostVars, line, typed, given, dir>>
        /\ toClient' = [toClient EXCEPT !.w0 = Zero]
        /\ shown' = shown \/ shown' = Append(shown, got'.data)
    BY <1>8 DEF ClientReceives
  <2>2. got'.data \in Payload
    BY <2>1
  <2>3. shown' \in Seq(Payload)
    <3>1. shown \in Seq(Payload)
      OBVIOUS
    <3> QED  BY <3>1, <2>1, <2>2, AppendTyped
  <2> QED  BY <2>1, <2>3
<1>9. CASE UserGivesPassword
  <2>1. PICK kind \in {"password", "empty"} :
               ClientAnswers("password", Data(kind, typed, given + 1))
    BY <1>9 DEF UserGivesPassword
  <2> QED  BY <1>9, <2>1, <1>q DEF UserGivesPassword, ClientAnswers
<1>10. CASE UserAnswers
  <2>1. PICK kind \in {"query", "empty"} :
               /\ line' = Data(kind, typed, given + 1)
               /\ ClientAnswers("query", line')
    BY <1>10 DEF UserAnswers
  <2> QED  BY <1>10, <2>1, <1>q DEF UserAnswers, ClientAnswers
<1>11. CASE ClientTakesDir
  BY <1>11 DEF ClientTakesDir, ClientAnswers
<1>12. CASE ClientTracks
  <2>a. BuffersTyped'
    BY <1>12 DEF ClientTracks
  <2>b. RestTyped'
    BY <1>12 DEF ClientTracks
  <2>c. PartsLeft'
    BY <1>12 DEF ClientTracks
  <2> QED  BY <2>a, <2>b, <2>c
<1>13. CASE ClientEndsTrack
  <2>a. BuffersTyped'
    BY <1>13 DEF ClientEndsTrack
  <2>b. RestTyped'
    BY <1>13 DEF ClientEndsTrack
  <2>c. PartsLeft'
    BY <1>13 DEF ClientEndsTrack
  <2> QED  BY <2>a, <2>b, <2>c
<1>14. CASE ClientSeesDisplay
  BY <1>14 DEF ClientSeesDisplay
<1>15. CASE ClientShows
  <2>1. shown \in Seq(Payload) /\ toClient.data \in Payload
    OBVIOUS
  <2>2. shown' \in Seq(Payload)
    BY <1>15, <2>1, AppendTyped DEF ClientShows
  <2>a. BuffersTyped'
    BY <1>15, <1>p DEF ClientShows
  <2>b. RestTyped'
    BY <1>15, <2>2 DEF ClientShows
  <2>c. PartsLeft'
    BY <1>15 DEF ClientShows
  <2> QED  BY <2>a, <2>b, <2>c
<1>16. CASE ClientEndsDisplay
  BY <1>16 DEF ClientEndsDisplay
<1>17. CASE UserTypes
  <2>1. PICK c \in DOMAIN CallsOf \cup {"quit"} : line' = Data(c, typed', 0)
    BY <1>17 DEF UserTypes
  <2>2. line' \in Payload
    BY <1>17, <2>1, DataTyped DEF UserTypes, DataKinds, OtherData
  <2> QED  BY <1>17, <2>2 DEF UserTypes
<1> QED
  BY <1>1, <1>2, <1>3, <1>4, <1>5, <1>6, <1>7, <1>8, <1>9, <1>10, <1>11,
     <1>12, <1>13, <1>14, <1>15, <1>16, <1>17 DEF ClientSteps

\* What StartSend and writing a text leave alone.
LEMMA CallBegins ==
  ASSUME TypesHold, HostCalls
  PROVE  /\ hostAt = "call" /\ hostAt' \in {"ask", "track", "display"}
         /\ hostAt' = "ask" => Head(calls) \in Prompts
BY NextCall DEF HostCalls, TypesHold, Typed, RestTyped

LEMMA TextWritten ==
  ASSUME TypesHold, HostWritesText
  PROVE  /\ hostAt = "ask text" /\ hostAt' = "answer"
         /\ toClient'.w0 = toClient.w0 /\ toClient'.w1 = toClient.w1
         /\ toClient'.open = toClient.open
         /\ UNCHANGED <<toHost, msg, calls, reply, asked, greeting, clientVars>>
         /\ IF Head(calls) = "dir"
              THEN /\ said' = said
                   /\ toClient'.data = Data("dir", msg.of, sentDir')
              ELSE /\ said' = Append(said, toClient'.data)
                   /\ sentDir' = sentDir
BY DEF HostWritesText, HostGoes, TypesHold, Typed, BuffersTyped, Buffers

LEMMA TypesStep == TypesHold /\ [Next]_vars => TypesHold'
<1>1. CASE UNCHANGED vars
  BY <1>1
     DEF vars, hostVars, clientVars, TypesHold, Typed, BuffersTyped,
         RestTyped, PartsLeft
<1> QED  BY <1>1, HostTypes, ClientTypes DEF Next, HostRuns, ClientRuns

-----------------------------------------------------------------------------
(* Transfers *)

\* The console leaves the loop of a transfer only when the host is past it.
Followed ==
  /\ hostAt = "start" => clientAt = "off"
  /\ toHost.w0 = Max16 => clientAt = "tracks"
  /\ hostAt = "transfer" => clientAt = "tracks" /\ toClient.w1 = "track"

LEMMA FollowedStep ==
  ASSUME TypesHold, Followed, [Next]_vars
  PROVE  Followed'
<1> USE WordsDiffer
    DEF TypesHold, Typed, BuffersTyped, Buffers, Words, Followed, hostVars,
        clientVars, HostGoes, ClientGoes
<1>1. CASE HostStarts
  BY <1>1 DEF HostStarts
<1>2. CASE HostGreets
  BY <1>2 DEF HostGreets
<1>3. CASE HostIsGreeted
  BY <1>3 DEF HostIsGreeted
<1>4. CASE HostExecutes
  BY <1>4 DEF HostExecutes
<1>5. CASE HostExits
  BY <1>5 DEF HostExits
<1>6. CASE HostDrops
  BY <1>6 DEF HostDrops
<1>7. CASE HostReplies
  BY <1>7 DEF HostReplies
<1>8. CASE HostSendsPart
  BY <1>8 DEF HostSendsPart
<1>9. CASE HostEndsSend
  BY <1>9 DEF HostEndsSend
<1>10. CASE HostCalls
  BY <1>10, NextCall DEF HostCalls, RestTyped
<1>11. CASE HostAnnounces
  BY <1>11 DEF HostAnnounces
<1>12. CASE HostSaysWhat
  BY <1>12 DEF HostSaysWhat
<1>13. CASE HostWritesText
  BY <1>13 DEF HostWritesText
<1>14. CASE HostReadsAnswer
  BY <1>14 DEF HostReadsAnswer
<1>15. CASE HostClearsAnswer
  BY <1>15 DEF HostClearsAnswer
<1>16. CASE HostWritesPrefix
  BY <1>16 DEF HostWritesPrefix, HostWrites
<1>17. CASE HostSendsPrefix
  BY <1>17 DEF HostSendsPrefix, HostWrites
<1>18. CASE HostWritesNumbers
  BY <1>18 DEF HostWritesNumbers, HostWrites
<1>19. CASE HostSendsTrack
  BY <1>19 DEF HostSendsTrack, HostWrites
<1>20. CASE HostTracks
  BY <1>20 DEF HostTracks, HostWrites
<1>21. CASE HostEndsTrack
  BY <1>21 DEF HostEndsTrack, HostWrites
<1>22. CASE HostSeesTrackEnd
  BY <1>22 DEF HostSeesTrackEnd, HostWrites
<1>23. CASE HostClearsTrack
  BY <1>23 DEF HostClearsTrack
<1>24. CASE HostWritesDisplay
  BY <1>24 DEF HostWritesDisplay, HostWrites
<1>25. CASE HostSendsDisplay
  BY <1>25 DEF HostSendsDisplay, HostWrites
<1>26. CASE HostBeginsText
  BY <1>26 DEF HostBeginsText
<1>27. CASE HostDisplays
  BY <1>27 DEF HostDisplays
<1>28. CASE ClientStarts
  BY <1>28 DEF ClientStarts
<1>29. CASE ClientGreets
  BY <1>29 DEF ClientGreets, SendLine
<1>30. CASE ClientSendsDir
  BY <1>30 DEF ClientSendsDir, SendLine
<1>31. CASE ClientIsReady
  BY <1>31 DEF ClientIsReady
<1>32. CASE ClientSends
  BY <1>32 DEF ClientSends, SendLine
<1>33. CASE ClientHears
  BY <1>33 DEF ClientHears
<1>34. CASE ClientIsDone
  BY <1>34 DEF ClientIsDone
<1>35. CASE ClientReceives
  BY <1>35 DEF ClientReceives, Handler, Kinds
<1>36. CASE UserGivesPassword
  BY <1>36 DEF UserGivesPassword, ClientAnswers, SendLine
<1>37. CASE UserAnswers
  BY <1>37 DEF UserAnswers, ClientAnswers, SendLine
<1>38. CASE ClientTakesDir
  BY <1>38 DEF ClientTakesDir, ClientAnswers, SendLine
<1>39. CASE ClientTracks
  BY <1>39 DEF ClientTracks
<1>40. CASE ClientEndsTrack
  BY <1>40 DEF ClientEndsTrack
<1>41. CASE ClientSeesDisplay
  BY <1>41 DEF ClientSeesDisplay
<1>42. CASE ClientShows
  BY <1>42 DEF ClientShows
<1>43. CASE ClientEndsDisplay
  BY <1>43 DEF ClientEndsDisplay
<1>44. CASE UserTypes
  BY <1>44 DEF UserTypes
<1>45. CASE UNCHANGED vars
  BY <1>45 DEF vars
<1> QED
  BY <1>1, <1>2, <1>3, <1>4, <1>5, <1>6, <1>7, <1>8, <1>9, <1>10, <1>11,
     <1>12, <1>13, <1>14, <1>15, <1>16, <1>17, <1>18, <1>19, <1>20, <1>21,
     <1>22, <1>23, <1>24, <1>25, <1>26, <1>27, <1>28, <1>29, <1>30, <1>31,
     <1>32, <1>33, <1>34, <1>35, <1>36, <1>37, <1>38, <1>39, <1>40, <1>41,
     <1>42, <1>43, <1>44, <1>45
     DEF Next, HostRuns, ClientRuns, HostSteps, ClientSteps

\* The console is in the loop that shows a transfer while the host writes the
\* numbers of one, however the two processes are interrupted.
THEOREM TransfersAreFollowed == Spec => []TransferIsFollowed
<1>1. Init => TypesHold /\ Followed
  BY TypesInit, WordsDiffer DEF Init, Followed
<1>2. TypesHold /\ Followed /\ [Next]_vars => (TypesHold /\ Followed)'
  BY TypesStep, FollowedStep
<1>3. Followed => TransferIsFollowed
  BY DEF Followed, TransferIsFollowed
<1> QED  BY <1>1, <1>2, <1>3, PTL DEF Spec

-----------------------------------------------------------------------------
(* Lines *)

Greeted == greeting.kind = "hello"

\* The host has announced what it asks for, and has no answer yet.
Asking == {"ask code", "ask text", "answer"}

\* The host reads, or has just read, what the console writes.
Reading == Asking \cup {"answered", "tracking", "transfer", "track end",
                        "track over"}
Idle == {"start", "greeting", "greeted", "listen", "end", "gone"}

\* The console is within a command.
Following == Kinds \cup {"recv", "tracks", "displays"}

\* Until the console's "hello" is there neither has a line in hand.
Opening ==
  /\ hostAt = "start" => clientAt = "off"
  /\ hostAt \in {"start", "greeting"} =>
       /\ greeting = Nothing /\ msg = Nothing
       /\ ~toClient.open /\ toClient.w1 \in {"zero", "text"}
       /\ clientAt # "cd" => toHost.w0 = Zero
  /\ clientAt \in {"off", "init", "hello", "cd", "cd reply"} => typed = 0
  /\ \/ clientAt \in {"off", "init", "hello", "cd", "cd reply", "prompt"}
     \/ typed > 0 /\ clientAt \in Following \cup {"ready", "sent", "gone"}
  /\ hostAt = "greeting" =>
       /\ clientAt \in {"init", "hello", "cd"}
       /\ clientAt \in {"hello", "cd"} => toClient.w0 = Zero
       /\ clientAt = "cd" => toHost.w0 = Ascii
  /\ hostAt \in Asking \cup {"ask"} => Head(calls) \in Prompts

\* Where the console is, the host is in the command of the same line.
ClientInTurn ==
  /\ clientAt \notin {"off", "init", "hello"}
  /\ clientAt = "cd" =>
       /\ hostAt \in {"greeted", "listen"}
       /\ toClient.w0 = Zero /\ msg = Nothing
       /\ hostAt = "listen" => toHost.w0 = Zero
  /\ clientAt = "cd reply" =>
       /\ msg.of = 0
       /\ \/ /\ hostAt = "listen" /\ toHost.w0 # Zero /\ toClient.w0 = Zero
             /\ toHost.data.kind = "cd" /\ toHost.data.of = 0
          \/ /\ hostAt \in {"call", "reply"} /\ toHost.w0 = Zero
             /\ toClient.w0 = Zero /\ calls = <<>> /\ reply = <<Ascii>>
          \/ hostAt = "end" /\ toHost.w0 = Zero /\ toClient.w0 = Ascii
  /\ clientAt \in {"prompt", "ready"} =>
       hostAt \in {"listen", "end"} /\ toClient.w0 = Zero /\ toHost.w0 = Zero
  /\ clientAt = "prompt" => msg.of = typed
  /\ clientAt = "ready" =>
       line.of = typed /\ line.kind \in DOMAIN CallsOf \cup {"quit"}
  /\ clientAt = "sent" =>
       \/ /\ hostAt \in {"listen", "end"} /\ toClient.w0 = Zero
          /\ toHost.w0 = Ascii /\ toHost.data.of = typed
          /\ toHost.data.kind \in DOMAIN CallsOf
       \/ msg.of = typed /\ toHost.w0 = Zero
  /\ clientAt = "gone" =>
       \/ /\ hostAt \in {"listen", "end", "gone"} /\ toClient.w0 = Zero
          /\ toHost.w0 # Zero /\ toHost.data.kind = "quit"
       \/ /\ hostAt \in {"listen", "call", "reply", "end"}
          /\ toHost.w0 = Zero /\ toClient.w0 \in {Zero, Ascii}
          /\ calls = <<>> /\ reply = <<Ascii>>
  /\ clientAt \in Following => msg.of = typed

\* Where the host is, the console has sent what it is to read, and no more.
HostInTurn ==
  /\ msg.kind \in DOMAIN CallsOf \cup {"nothing", "cd", "quit"}
  /\ hostAt \notin {"start", "greeting"}
  /\ hostAt = "greeted" => clientAt = "cd" /\ toHost.w0 # Zero
  /\ hostAt = "gone" => clientAt = "gone"
  /\ hostAt = "listen" /\ toHost.w0 # Zero =>
       clientAt \in {"cd reply", "sent", "gone"}
  /\ hostAt \notin Idle \cup Reading => toHost.w0 = Zero
  /\ hostAt = "end" =>
       /\ toHost.w0 # Zero => clientAt \in {"sent", "gone"}
       /\ toClient.w0 \in {Zero, Ascii, Rule}
  /\ hostAt \notin {"greeted", "listen", "gone", "call"} => toClient.open
  /\ hostAt = "call" /\ ~toClient.open =>
       clientAt \in {"cd reply", "sent", "gone"}
  /\ ~toClient.open => toClient.w0 = Zero

\* A question in the buffer has no answer yet.
AskedInTurn ==
  /\ clientAt \in Prompts =>
       hostAt \in Asking /\ toHost.w0 = Zero /\ toClient.w0 = Zero
  /\ toClient.w0 = Max16 =>
       IF hostAt \in Asking THEN toHost.w0 = Zero
                            ELSE toClient.w1 \notin Prompts
  /\ hostAt = "prefix written" => toClient.w1 \notin Prompts
  /\ hostAt = "display written" => toClient.w1 = "display"

\* The two are in the loop of a transfer together.
TrackedInTurn ==
  /\ clientAt = "track" => hostAt = "tracking" /\ toHost.w0 = Zero
  /\ clientAt = "tracks" =>
       hostAt \in {"tracking", "transfer", "track end"} /\ toHost.w0 = Max16
  /\ toClient.w1 = "track" <=>
       hostAt \in {"numbers written", "tracking", "transfer"}
  /\ hostAt = "numbers written" => toClient.w0 = Zero
  /\ hostAt = "tracking" =>
       /\ toClient.w0 = Max16 => toHost.w0 = Zero /\ clientAt # "track"
       /\ toHost.w0 # Zero => clientAt = "tracks"

InTurn == ClientInTurn /\ HostInTurn /\ AskedInTurn /\ TrackedInTurn

Sound == TypesHold /\ Followed /\ Opening /\ (Greeted => InTurn)

LEMMA PartFacts ==
  ASSUME TypesHold, hostAt = "reply"
  PROVE  /\ part + 1 \in 1 .. Len(reply)
         /\ reply[part + 1] \in {Zero, Ascii, Rule}
         /\ part = 0 => reply[part + 1] # Zero
         /\ reply = <<Ascii>> =>
              part + 1 = Len(reply) /\ reply[part + 1] = Ascii
<1>1. reply \in Replies \cup {<<Ascii>>} /\ part < Len(reply) /\ part \in Nat
  BY DEF TypesHold, Typed, RestTyped, PartsLeft
<1>2. Len(reply) \in Nat /\ part + 1 \in 1 .. Len(reply)
  BY <1>1, ReplyFacts
<1>3. reply[part + 1] \in {Zero, Ascii, Rule}
  BY <1>1, <1>2, ReplyFacts
<1>4. part = 0 => reply[part + 1] # Zero
  BY <1>1, ReplyFacts, WordsDiffer
<1>5. reply = <<Ascii>> => part + 1 = Len(reply) /\ reply[part + 1] = Ascii
  BY <1>1, <1>2
<1> QED  BY <1>2, <1>3, <1>4, <1>5

LEMMA HostOpens ==
  ASSUME Sound, HostSteps
  PROVE  Opening'
<1> USE WordsDiffer, LowBytes, NextCall, NothingIs
    DEF Sound, TypesHold, Typed, BuffersTyped, Buffers, Seconds, Words,
        Followed, Opening, Greeted, Asking, Reading, Idle, Following, Kinds,
        Prompts, InTurn, ClientInTurn, HostInTurn, AskedInTurn, TrackedInTurn,
        Data, hostVars, clientVars, HostGoes, ClientGoes, ReadyToSend,
        ReadyToRecv
<1>1. CASE HostStarts
  BY <1>1 DEF HostStarts, LocalSend
<1>2. CASE HostGreets
  BY <1>2 DEF HostGreets
<1>3. CASE HostIsGreeted
  BY <1>3 DEF HostIsGreeted
<1>4. CASE HostExecutes
  BY <1>4 DEF HostExecutes
<1>5. CASE HostExits
  BY <1>5 DEF HostExits
<1>6. CASE HostDrops
  BY <1>6 DEF HostDrops
<1>7. CASE HostReplies
  BY <1>7 DEF HostReplies
<1>8. CASE HostSendsPart
  BY <1>8 DEF HostSendsPart, LocalSend
<1>9. CASE HostEndsSend
  BY <1>9 DEF HostEndsSend, IsTaken
<1>10. CASE HostCalls
  BY <1>10, CallBegins DEF HostCalls
<1>11. CASE HostAnnounces
  BY <1>11 DEF HostAnnounces
<1>12. CASE HostSaysWhat
  BY <1>12 DEF HostSaysWhat
<1>13. CASE HostWritesText
  BY <1>13, TextWritten
<1>14. CASE HostReadsAnswer
  BY <1>14 DEF HostReadsAnswer
<1>15. CASE HostClearsAnswer
  BY <1>15 DEF HostClearsAnswer
<1>16. CASE HostWritesPrefix
  BY <1>16 DEF HostWritesPrefix, HostWrites
<1>17. CASE HostSendsPrefix
  BY <1>17 DEF HostSendsPrefix, HostWrites
<1>18. CASE HostWritesNumbers
  BY <1>18 DEF HostWritesNumbers, HostWrites
<1>19. CASE HostSendsTrack
  BY <1>19 DEF HostSendsTrack, HostWrites
<1>20. CASE HostTracks
  BY <1>20 DEF HostTracks, HostWrites
<1>21. CASE HostEndsTrack
  BY <1>21 DEF HostEndsTrack, HostWrites
<1>22. CASE HostSeesTrackEnd
  BY <1>22 DEF HostSeesTrackEnd, HostWrites
<1>23. CASE HostClearsTrack
  BY <1>23 DEF HostClearsTrack
<1>24. CASE HostWritesDisplay
  BY <1>24 DEF HostWritesDisplay, HostWrites
<1>25. CASE HostSendsDisplay
  BY <1>25 DEF HostSendsDisplay, HostWrites
<1>26. CASE HostBeginsText
  BY <1>26 DEF HostBeginsText
<1>27. CASE HostDisplays
  BY <1>27 DEF HostDisplays
<1> QED
  BY <1>1, <1>2, <1>3, <1>4, <1>5, <1>6, <1>7, <1>8, <1>9, <1>10, <1>11,
     <1>12, <1>13, <1>14, <1>15, <1>16, <1>17, <1>18, <1>19, <1>20, <1>21,
     <1>22, <1>23, <1>24, <1>25, <1>26, <1>27
     DEF HostSteps, ClientSteps

LEMMA HostKeepsTurn ==
  ASSUME Sound, Greeted => ~CutsShort, HostSteps
  PROVE  Greeted' => InTurn'
<1> USE WordsDiffer, LowBytes, NextCall, NothingIs
    DEF Sound, TypesHold, Typed, BuffersTyped, Buffers, Seconds, Words,
        Followed, Opening, Greeted, Asking, Reading, Idle, Following, Kinds,
        Prompts, InTurn, ClientInTurn, HostInTurn, AskedInTurn, TrackedInTurn,
        Data, hostVars, clientVars, HostGoes, ClientGoes, ReadyToSend,
        ReadyToRecv
<1>o. {"cd", "quit", "empty"} \cap DOMAIN CallsOf = {}
  BY LocalConnectionAssumption DEF OtherData
<1>1. CASE HostStarts
  BY <1>1 DEF HostStarts, LocalSend
<1>2. CASE HostGreets
  <2>1. Greeted' => clientAt = "cd" /\ toHost.w0 = Ascii /\ toClient.w0 = Zero
    BY <1>2 DEF HostGreets
  <2>2. Greeted' => ClientInTurn'
    BY <1>2, <2>1 DEF HostGreets
  <2>3. Greeted' => HostInTurn'
    BY <1>2, <2>1 DEF HostGreets
  <2>4. Greeted' => AskedInTurn' /\ TrackedInTurn'
    BY <1>2, <2>1 DEF HostGreets
  <2> QED  BY <2>2, <2>3, <2>4
<1>3. CASE HostIsGreeted
  BY <1>3 DEF HostIsGreeted
<1>4. CASE HostExecutes
  <2>1. toHost.data.kind \in {"cd", "quit"} =>
           calls' = <<>> /\ reply' = <<Ascii>>
    BY <1>4, <1>o DEF HostExecutes, CallsFor, RepliesFor
  <2>2. /\ hostAt = "listen" /\ hostAt' = "call" /\ toHost.w0 # Zero
        /\ toHost'.w0 = Zero /\ msg' = toHost.data
        /\ UNCHANGED <<toClient, greeting, clientVars>>
    BY <1>4 DEF HostExecutes
  <2>3. Greeted' => Greeted /\ clientAt \in {"cd reply", "sent", "gone"}
    BY <2>2
  <2>4. Greeted' => ClientInTurn'
    <3>1. CASE clientAt = "cd reply"
      BY <2>1, <2>2, <3>1
    <3>2. CASE clientAt = "sent"
      BY <2>2, <3>2
    <3>3. CASE clientAt = "gone"
      <4>1. Greeted' => toHost.data.kind = "quit" /\ toClient.w0 = Zero
        BY <2>2, <2>3, <3>3
      <4>2. Greeted' => calls' = <<>> /\ reply' = <<Ascii>>
        BY ONLY <2>1, <4>1
      <4>3. clientAt' = "gone"
        BY ONLY <2>2, <3>3 DEF clientVars
      <4> QED  BY ONLY <2>2, <4>1, <4>2, <4>3, WordsDiffer
               DEF ClientInTurn, Following, Kinds
    <3> QED  BY <2>3, <3>1, <3>2, <3>3
  <2>5. Greeted' => HostInTurn'
    BY <2>1, <2>2, <2>3
  <2>6. Greeted' => AskedInTurn' /\ TrackedInTurn'
    BY <2>2, <2>3
  <2> QED  BY <2>4, <2>5, <2>6
<1>5. CASE HostExits
  BY <1>5, <1>o DEF HostExits
<1>6. CASE HostDrops
  BY <1>6 DEF HostDrops
<1>7. CASE HostReplies
  BY <1>7 DEF HostReplies
<1>8. CASE HostSendsPart
  <2>1. toClient.w0 = Zero /\ hostAt = "reply"
    BY <1>8 DEF HostSendsPart
  <2>2. /\ reply[part + 1] \in {Zero, Ascii, Rule}
        /\ reply = <<Ascii>> => part + 1 = Len(reply) /\ reply[part + 1] = Ascii
    BY <2>1, PartFacts
  <2>5. toClient' = IF reply[part + 1] = Zero THEN toClient
                    ELSE [toClient EXCEPT !.w0 = reply[part + 1], !.w1 = "text",
                            !.data = Data("reply", msg.of, part + 1)]
    BY <1>8, <2>1 DEF HostSendsPart, LocalSend
  <2>6. /\ hostAt = "reply"
        /\ hostAt' = IF part + 1 = Len(reply) THEN "end" ELSE "reply"
    BY <1>8 DEF HostSendsPart
  <2>7. UNCHANGED <<toHost, msg, calls, reply, greeting, clientVars>>
    BY <1>8 DEF HostSendsPart
  <2> QED  BY <2>1, <2>2, <2>5, <2>6, <2>7
<1>9. CASE HostEndsSend
  BY <1>9 DEF HostEndsSend, IsTaken, CutsShort
<1>10. CASE HostCalls
  BY <1>10, CallBegins DEF HostCalls
<1>11. CASE HostAnnounces
  BY <1>11 DEF HostAnnounces
<1>12. CASE HostSaysWhat
  BY <1>12 DEF HostSaysWhat
<1>13. CASE HostWritesText
  BY <1>13, TextWritten
<1>14. CASE HostReadsAnswer
  BY <1>14 DEF HostReadsAnswer
<1>15. CASE HostClearsAnswer
  BY <1>15 DEF HostClearsAnswer
<1>16. CASE HostWritesPrefix
  BY <1>16 DEF HostWritesPrefix, HostWrites
<1>17. CASE HostSendsPrefix
  BY <1>17 DEF HostSendsPrefix, HostWrites
<1>18. CASE HostWritesNumbers
  BY <1>18 DEF HostWritesNumbers, HostWrites
<1>19. CASE HostSendsTrack
  BY <1>19 DEF HostSendsTrack, HostWrites
<1>20. CASE HostTracks
  BY <1>20 DEF HostTracks, HostWrites
<1>21. CASE HostEndsTrack
  BY <1>21 DEF HostEndsTrack, HostWrites
<1>22. CASE HostSeesTrackEnd
  BY <1>22 DEF HostSeesTrackEnd, HostWrites
<1>23. CASE HostClearsTrack
  BY <1>23 DEF HostClearsTrack
<1>24. CASE HostWritesDisplay
  BY <1>24 DEF HostWritesDisplay, HostWrites
<1>25. CASE HostSendsDisplay
  BY <1>25 DEF HostSendsDisplay, HostWrites
<1>26. CASE HostBeginsText
  BY <1>26 DEF HostBeginsText
<1>27. CASE HostDisplays
  BY <1>27 DEF HostDisplays
<1> QED
  BY <1>1, <1>2, <1>3, <1>4, <1>5, <1>6, <1>7, <1>8, <1>9, <1>10, <1>11,
     <1>12, <1>13, <1>14, <1>15, <1>16, <1>17, <1>18, <1>19, <1>20, <1>21,
     <1>22, <1>23, <1>24, <1>25, <1>26, <1>27
     DEF HostSteps, ClientSteps

LEMMA ClientOpens ==
  ASSUME Sound, ClientSteps \/ UserTypes
  PROVE  Opening'
<1> USE WordsDiffer, LowBytes, NextCall, NothingIs
    DEF Sound, TypesHold, Typed, BuffersTyped, Buffers, Seconds, Words,
        Followed, Opening, Greeted, Asking, Reading, Idle, Following, Kinds,
        Prompts, InTurn, ClientInTurn, HostInTurn, AskedInTurn, TrackedInTurn,
        Data, hostVars, clientVars, HostGoes, ClientGoes, ReadyToSend,
        ReadyToRecv
<1>1. CASE ClientStarts
  BY <1>1 DEF ClientStarts
<1>2. CASE ClientGreets
  BY <1>2 DEF ClientGreets, SendLine
<1>3. CASE ClientSendsDir
  BY <1>3 DEF ClientSendsDir, SendLine
<1>4. CASE ClientIsReady
  BY <1>4 DEF ClientIsReady
<1>5. CASE ClientSends
  BY <1>5 DEF ClientSends, SendLine
<1>6. CASE ClientHears
  BY <1>6 DEF ClientHears
<1>7. CASE ClientIsDone
  BY <1>7 DEF ClientIsDone
<1>8. CASE ClientReceives
  BY <1>8 DEF ClientReceives, Handler
<1>9. CASE UserGivesPassword
  BY <1>9 DEF UserGivesPassword, ClientAnswers, SendLine
<1>10. CASE UserAnswers
  BY <1>10 DEF UserAnswers, ClientAnswers, SendLine
<1>11. CASE ClientTakesDir
  BY <1>11 DEF ClientTakesDir, ClientAnswers, SendLine
<1>12. CASE ClientTracks
  BY <1>12 DEF ClientTracks
<1>13. CASE ClientEndsTrack
  BY <1>13 DEF ClientEndsTrack
<1>14. CASE ClientSeesDisplay
  BY <1>14 DEF ClientSeesDisplay
<1>15. CASE ClientShows
  BY <1>15 DEF ClientShows
<1>16. CASE ClientEndsDisplay
  BY <1>16 DEF ClientEndsDisplay
<1>17. CASE UserTypes
  <2>1. typed \in Nat
    BY DEF RestTyped
  <2>2. typed' = typed + 1
    BY <1>17 DEF UserTypes
  <2>3. typed' > 0
    BY ONLY <2>1, <2>2
  <2> QED  BY <1>17, <2>3 DEF UserTypes
<1> QED
  BY <1>1, <1>2, <1>3, <1>4, <1>5, <1>6, <1>7, <1>8, <1>9, <1>10, <1>11,
     <1>12, <1>13, <1>14, <1>15, <1>16, <1>17
     DEF HostSteps, ClientSteps

LEMMA ClientKeepsTurn ==
  ASSUME Sound, ClientSteps \/ UserTypes
  PROVE  Greeted' => InTurn'
<1> USE WordsDiffer, LowBytes, NextCall, NothingIs
    DEF Sound, TypesHold, Typed, BuffersTyped, Buffers, Seconds, Words,
        Followed, Opening, Greeted, Asking, Reading, Idle, Following, Kinds,
        Prompts, InTurn, ClientInTurn, HostInTurn, AskedInTurn, TrackedInTurn,
        Data, hostVars, clientVars, HostGoes, ClientGoes, ReadyToSend,
        ReadyToRecv
<1>o. {"cd", "quit", "empty"} \cap DOMAIN CallsOf = {}
  BY LocalConnectionAssumption DEF OtherData
<1>1. CASE ClientStarts
  BY <1>1 DEF ClientStarts
<1>2. CASE ClientGreets
  BY <1>2 DEF ClientGreets, SendLine
<1>3. CASE ClientSendsDir
  <2>1. Greeted => toHost.w0 = Zero /\ hostAt = "listen" /\ msg.of = 0
    BY <1>3 DEF ClientSendsDir
  <2>2. Greeted => toHost'.w0 = Ascii /\ toHost'.data = Data("cd", 0, 0)
    BY <1>3, <2>1 DEF ClientSendsDir, SendLine
  <2>3. /\ clientAt = "cd" /\ clientAt' = "cd reply"
        /\ UNCHANGED <<toClient, hostVars, typed>>
    BY <1>3 DEF ClientSendsDir
  <2>4. Greeted => /\ toHost'.w0 = Ascii /\ toHost'.data.kind = "cd"
                   /\ toHost'.data.of = 0
    BY ONLY <2>2, DataIs
  <2> QED  BY <2>1, <2>3, <2>4
<1>4. CASE ClientIsReady
  BY <1>4 DEF ClientIsReady
<1>5. CASE ClientSends
  BY <1>5, <1>o DEF ClientSends, SendLine
<1>6. CASE ClientHears
  BY <1>6 DEF ClientHears
<1>7. CASE ClientIsDone
  BY <1>7 DEF ClientIsDone
<1>8. CASE ClientReceives
  BY <1>8 DEF ClientReceives, Handler
<1>9. CASE UserGivesPassword
  BY <1>9 DEF UserGivesPassword, ClientAnswers, SendLine
<1>10. CASE UserAnswers
  BY <1>10 DEF UserAnswers, ClientAnswers, SendLine
<1>11. CASE ClientTakesDir
  BY <1>11 DEF ClientTakesDir, ClientAnswers, SendLine
<1>12. CASE ClientTracks
  BY <1>12 DEF ClientTracks
<1>13. CASE ClientEndsTrack
  BY <1>13 DEF ClientEndsTrack
<1>14. CASE ClientSeesDisplay
  BY <1>14 DEF ClientSeesDisplay
<1>15. CASE ClientShows
  BY <1>15 DEF ClientShows
<1>16. CASE ClientEndsDisplay
  BY <1>16 DEF ClientEndsDisplay
<1>17. CASE UserTypes
  <2>1. PICK c \in DOMAIN CallsOf \cup {"quit"} : line' = Data(c, typed', 0)
    BY <1>17 DEF UserTypes
  <2>2. line'.of = typed' /\ line'.kind \in DOMAIN CallsOf \cup {"quit"}
    BY <2>1
  <2> QED  BY <1>17, <2>2 DEF UserTypes
<1> QED
  BY <1>1, <1>2, <1>3, <1>4, <1>5, <1>6, <1>7, <1>8, <1>9, <1>10, <1>11,
     <1>12, <1>13, <1>14, <1>15, <1>16, <1>17
     DEF HostSteps, ClientSteps

LEMMA SoundInit == Init => Sound
<1>1. Init => TypesHold
  BY TypesInit
<1>2. Init => Followed /\ Opening /\ ~Greeted
  BY WordsDiffer, NothingIs DEF Init, Followed, Opening, Greeted, Asking
<1> QED  BY <1>1, <1>2 DEF Sound

LEMMA SoundStep ==
  ASSUME Sound, HostRuns /\ Greeted => ~CutsShort, [Next]_vars
  PROVE  Sound'
<1>1. TypesHold' /\ Followed'
  BY TypesStep, FollowedStep DEF Sound
<1>2. CASE HostRuns
  BY <1>1, <1>2, HostOpens, HostKeepsTurn DEF Sound, HostRuns
<1>3. CASE ClientSteps \/ UserTypes
  BY <1>1, <1>3, ClientOpens, ClientKeepsTurn DEF Sound
<1>4. CASE UNCHANGED vars
  <2> USE <1>4 DEF vars, hostVars, clientVars, Sound
  <2>1. Opening'
    BY DEF Opening
  <2>2. Greeted' = Greeted
    BY DEF Greeted
  <2>3. ClientInTurn => ClientInTurn'
    BY DEF ClientInTurn
  <2>4. HostInTurn => HostInTurn'
    BY DEF HostInTurn
  <2>5. AskedInTurn /\ TrackedInTurn => AskedInTurn' /\ TrackedInTurn'
    BY DEF AskedInTurn, TrackedInTurn
  <2> QED  BY <1>1, <2>1, <2>2, <2>3, <2>4, <2>5 DEF InTurn
<1> QED  BY <1>2, <1>3, <1>4 DEF Next, HostRuns, ClientRuns

-----------------------------------------------------------------------------
(* Answers *)

\* The host is in a command, and waits for no answer.
Working == {"call", "ask", "answered", "track", "prefix written", "numbers",
            "numbers written", "tracking", "transfer", "track end",
            "track over", "display", "display written", "display sent",
            "text"}

\* No answer is given outside a command.
Counted ==
  /\ hostAt = "start" => toClient.w0 = Zero
  /\ hostAt = "greeting" /\ clientAt = "init" => toClient.w0 = Ascii
  /\ hostAt = "greeting" /\ clientAt = "cd" => toHost.data.kind = "hello"
  /\ clientAt \in {"off", "init", "hello", "cd", "cd reply", "sent", "gone"} =>
       given = 0
  /\ clientAt \in Following \cup {"ready", "sent"} => line.of = typed

\* What the host took for an answer is one to what it had asked.
Fits(a) == IF a.to.kind = "dir" THEN a.answer.of = a.to.of
                                ELSE a.answer = a.to

\* The console has given an answer to every question but the one that is
\* under way.
Answered ==
  /\ hostAt \notin {"start", "greeting"} => Greeted
  /\ hostAt \in {"ask code", "ask text"} =>
       asked = given + 1 /\ toClient.w0 = Max16
  /\ hostAt \in {"ask text", "answer"} => toClient.w1 = Head(calls)
  /\ hostAt = "answer" /\ toClient.w0 = Max16 => asked = given + 1
  /\ clientAt \in Prompts =>
       hostAt = "answer" /\ asked = given + 1 /\ clientAt = Head(calls)
  /\ hostAt = "answer" /\ toHost.w0 # Zero =>
       /\ asked = given
       /\ Fits([to     |-> Data(Head(calls), msg.of, asked),
                answer |-> toHost.data])
  /\ hostAt \in Working => asked = given
  /\ \A a \in answers : Fits(a)

LEMMA SameFits ==
  ASSUME NEW kind \in Prompts \ {"dir"}, NEW of, NEW n, NEW d,
         d = Data(kind, of, n)
  PROVE  Fits([to |-> Data(kind, of, n), answer |-> d])
BY DataIs DEF Fits, Prompts

LEMMA DirFits ==
  ASSUME NEW of, NEW n, NEW d, d.of = of
  PROVE  Fits([to |-> Data("dir", of, n), answer |-> d])
BY DataIs DEF Fits

LEMMA CountedStep ==
  ASSUME Sound, Counted, HostSteps \/ ClientSteps \/ UserTypes
  PROVE  Counted'
<1> USE WordsDiffer, LowBytes, NothingIs
    DEF Sound, TypesHold, Typed, BuffersTyped, Buffers, Seconds, Words,
        Followed, Opening, Asking, Following, Kinds, Prompts, Counted, Data,
        hostVars, clientVars, HostGoes, ClientGoes, ReadyToSend, ReadyToRecv
<1>1. CASE HostStarts
  BY <1>1 DEF HostStarts, LocalSend
<1>2. CASE HostGreets
  BY <1>2 DEF HostGreets
<1>3. CASE HostIsGreeted
  BY <1>3 DEF HostIsGreeted
<1>4. CASE HostExecutes
  BY <1>4 DEF HostExecutes
<1>5. CASE HostExits
  BY <1>5 DEF HostExits
<1>6. CASE HostDrops
  BY <1>6 DEF HostDrops
<1>7. CASE HostReplies
  BY <1>7 DEF HostReplies
<1>8. CASE HostSendsPart
  BY <1>8 DEF HostSendsPart, LocalSend
<1>9. CASE HostEndsSend
  BY <1>9 DEF HostEndsSend, IsTaken
<1>10. CASE HostCalls
  BY <1>10, CallBegins DEF HostCalls
<1>11. CASE HostAnnounces
  BY <1>11 DEF HostAnnounces
<1>12. CASE HostSaysWhat
  BY <1>12 DEF HostSaysWhat
<1>13. CASE HostWritesText
  BY <1>13, TextWritten
<1>14. CASE HostReadsAnswer
  BY <1>14 DEF HostReadsAnswer
<1>15. CASE HostClearsAnswer
  BY <1>15 DEF HostClearsAnswer
<1>16. CASE HostWritesPrefix
  BY <1>16 DEF HostWritesPrefix, HostWrites
<1>17. CASE HostSendsPrefix
  BY <1>17 DEF HostSendsPrefix, HostWrites
<1>18. CASE HostWritesNumbers
  BY <1>18 DEF HostWritesNumbers, HostWrites
<1>19. CASE HostSendsTrack
  BY <1>19 DEF HostSendsTrack, HostWrites
<1>20. CASE HostTracks
  BY <1>20 DEF HostTracks, HostWrites
<1>21. CASE HostEndsTrack
  BY <1>21 DEF HostEndsTrack, HostWrites
<1>22. CASE HostSeesTrackEnd
  BY <1>22 DEF HostSeesTrackEnd, HostWrites
<1>23. CASE HostClearsTrack
  BY <1>23 DEF HostClearsTrack
<1>24. CASE HostWritesDisplay
  BY <1>24 DEF HostWritesDisplay, HostWrites
<1>25. CASE HostSendsDisplay
  BY <1>25 DEF HostSendsDisplay, HostWrites
<1>26. CASE HostBeginsText
  BY <1>26 DEF HostBeginsText
<1>27. CASE HostDisplays
  BY <1>27 DEF HostDisplays
<1>28. CASE ClientStarts
  BY <1>28 DEF ClientStarts
<1>29. CASE ClientGreets
  BY <1>29 DEF ClientGreets, SendLine
<1>30. CASE ClientSendsDir
  BY <1>30 DEF ClientSendsDir, SendLine
<1>31. CASE ClientIsReady
  BY <1>31 DEF ClientIsReady
<1>32. CASE ClientSends
  BY <1>32 DEF ClientSends, SendLine
<1>33. CASE ClientHears
  BY <1>33 DEF ClientHears
<1>34. CASE ClientIsDone
  BY <1>34 DEF ClientIsDone
<1>35. CASE ClientReceives
  BY <1>35 DEF ClientReceives, Handler
<1>36. CASE UserGivesPassword
  BY <1>36 DEF UserGivesPassword, ClientAnswers, SendLine
<1>37. CASE UserAnswers
  <2>1. PICK kind \in {"query", "empty"} :
               /\ line' = Data(kind, typed, given + 1)
               /\ ClientAnswers("query", line')
    BY <1>37 DEF UserAnswers
  <2>2. line'.of = typed
    BY ONLY <2>1, DataIs
  <2>3. clientAt' = "recv" /\ UNCHANGED <<hostVars, typed, toClient>>
    BY <2>1 DEF ClientAnswers
  <2> QED  BY <2>2, <2>3
<1>38. CASE ClientTakesDir
  BY <1>38 DEF ClientTakesDir, ClientAnswers, SendLine
<1>39. CASE ClientTracks
  BY <1>39 DEF ClientTracks
<1>40. CASE ClientEndsTrack
  BY <1>40 DEF ClientEndsTrack
<1>41. CASE ClientSeesDisplay
  BY <1>41 DEF ClientSeesDisplay
<1>42. CASE ClientShows
  BY <1>42 DEF ClientShows
<1>43. CASE ClientEndsDisplay
  BY <1>43 DEF ClientEndsDisplay
<1>44. CASE UserTypes
  <2>0. PICK c \in DOMAIN CallsOf \cup {"quit"} : line' = Data(c, typed', 0)
    BY <1>44 DEF UserTypes
  <2>1. line'.of = typed'
    BY ONLY <2>0, DataIs
  <2> QED  BY <1>44, <2>1 DEF UserTypes
<1> QED
  BY <1>1, <1>2, <1>3, <1>4, <1>5, <1>6, <1>7, <1>8, <1>9, <1>10, <1>11,
     <1>12, <1>13, <1>14, <1>15, <1>16, <1>17, <1>18, <1>19, <1>20, <1>21,
     <1>22, <1>23, <1>24, <1>25, <1>26, <1>27, <1>28, <1>29, <1>30, <1>31,
     <1>32, <1>33, <1>34, <1>35, <1>36, <1>37, <1>38, <1>39, <1>40, <1>41,
     <1>42, <1>43, <1>44
     DEF HostSteps, ClientSteps

LEMMA HostKeepsAnswered ==
  ASSUME Sound, Counted, calm => Answered, HostSteps,
         calm' = (calm /\ ClientSleeps)
  PROVE  calm' => Answered'
<1> USE WordsDiffer, LowBytes, NothingIs
    DEF Sound, TypesHold, Typed, BuffersTyped, RestTyped, Buffers, Seconds,
        Words, Followed, Opening, Greeted, Asking, Working, Following, Kinds,
        Prompts, InTurn, ClientInTurn, HostInTurn, AskedInTurn, TrackedInTurn,
        Counted, Answered, ClientSleeps, hostVars, clientVars, HostGoes,
        ClientGoes, ReadyToSend, ReadyToRecv
<1>1. CASE HostStarts
  BY <1>1 DEF HostStarts, LocalSend
<1>2. CASE HostGreets
  BY <1>2 DEF HostGreets
<1>3. CASE HostIsGreeted
  BY <1>3 DEF HostIsGreeted
<1>4. CASE HostExecutes
  BY <1>4 DEF HostExecutes
<1>5. CASE HostExits
  BY <1>5 DEF HostExits
<1>6. CASE HostDrops
  BY <1>6 DEF HostDrops
<1>7. CASE HostReplies
  BY <1>7 DEF HostReplies
<1>8. CASE HostSendsPart
  BY <1>8 DEF HostSendsPart, LocalSend
<1>9. CASE HostEndsSend
  BY <1>9 DEF HostEndsSend, IsTaken
<1>10. CASE HostCalls
  BY <1>10, CallBegins DEF HostCalls
<1>11. CASE HostAnnounces
  BY <1>11 DEF HostAnnounces
<1>12. CASE HostSaysWhat
  BY <1>12 DEF HostSaysWhat
<1>13. CASE HostWritesText
  BY <1>13 DEF HostWritesText
<1>14. CASE HostReadsAnswer
  BY <1>14 DEF HostReadsAnswer
<1>15. CASE HostClearsAnswer
  BY <1>15 DEF HostClearsAnswer
<1>16. CASE HostWritesPrefix
  BY <1>16 DEF HostWritesPrefix, HostWrites
<1>17. CASE HostSendsPrefix
  BY <1>17 DEF HostSendsPrefix, HostWrites
<1>18. CASE HostWritesNumbers
  BY <1>18 DEF HostWritesNumbers, HostWrites
<1>19. CASE HostSendsTrack
  BY <1>19 DEF HostSendsTrack, HostWrites
<1>20. CASE HostTracks
  BY <1>20 DEF HostTracks, HostWrites
<1>21. CASE HostEndsTrack
  BY <1>21 DEF HostEndsTrack, HostWrites
<1>22. CASE HostSeesTrackEnd
  BY <1>22 DEF HostSeesTrackEnd, HostWrites
<1>23. CASE HostClearsTrack
  BY <1>23 DEF HostClearsTrack
<1>24. CASE HostWritesDisplay
  BY <1>24 DEF HostWritesDisplay, HostWrites
<1>25. CASE HostSendsDisplay
  BY <1>25 DEF HostSendsDisplay, HostWrites
<1>26. CASE HostBeginsText
  BY <1>26 DEF HostBeginsText
<1>27. CASE HostDisplays
  BY <1>27 DEF HostDisplays
<1> QED
  BY <1>1, <1>2, <1>3, <1>4, <1>5, <1>6, <1>7, <1>8, <1>9, <1>10, <1>11,
     <1>12, <1>13, <1>14, <1>15, <1>16, <1>17, <1>18, <1>19, <1>20, <1>21,
     <1>22, <1>23, <1>24, <1>25, <1>26, <1>27
     DEF HostSteps, ClientSteps

LEMMA ClientKeepsAnswered ==
  ASSUME Sound, Counted, calm => Answered, ClientSteps \/ UserTypes,
         calm' = (calm /\ HostSleeps)
  PROVE  calm' => Answered'
<1> USE WordsDiffer, LowBytes, NothingIs
    DEF Sound, TypesHold, Typed, BuffersTyped, RestTyped, Buffers, Seconds,
        Words, Followed, Opening, Greeted, Asking, Working, Following, Kinds,
        Prompts, InTurn, ClientInTurn, HostInTurn, AskedInTurn, TrackedInTurn,
        Counted, Answered, HostSleeps, hostVars, clientVars, HostGoes,
        ClientGoes, ReadyToSend, ReadyToRecv
<1>1. CASE ClientStarts
  BY <1>1 DEF ClientStarts
<1>2. CASE ClientGreets
  BY <1>2 DEF ClientGreets, SendLine
<1>3. CASE ClientSendsDir
  BY <1>3 DEF ClientSendsDir, SendLine
<1>4. CASE ClientIsReady
  BY <1>4 DEF ClientIsReady
<1>5. CASE ClientSends
  BY <1>5 DEF ClientSends, SendLine
<1>6. CASE ClientHears
  BY <1>6 DEF ClientHears
<1>7. CASE ClientIsDone
  BY <1>7 DEF ClientIsDone
<1>8. CASE ClientReceives
  BY <1>8 DEF ClientReceives, Handler
<1>9. CASE UserGivesPassword
  <2>1. PICK kind \in {"password", "empty"} :
               ClientAnswers("password", Data(kind, typed, given + 1))
    BY <1>9 DEF UserGivesPassword
  <2>2. calm /\ calm' =>
          /\ hostAt = "answer" /\ asked = given + 1 /\ Head(calls) = "password"
          /\ toHost.w0 = Zero /\ toClient.w0 = Zero /\ msg.of = typed
    BY <2>1 DEF ClientAnswers
  <2>3. calm /\ calm' => /\ toHost'.w0 # Zero => kind # "empty"
                        /\ toHost'.data = Data(kind, typed, given + 1)
    BY <2>1, <2>2, DataIs DEF ClientAnswers, SendLine
  <2>4. calm /\ calm' /\ toHost'.w0 # Zero =>
          Fits([to     |-> Data(Head(calls), msg.of, asked),
                answer |-> toHost'.data])
    <3>1. calm /\ calm' /\ toHost'.w0 # Zero =>
            toHost'.data = Data("password", msg.of, asked)
      BY ONLY <2>1, <2>2, <2>3
    <3> QED  BY ONLY <2>2, <3>1, SameFits DEF Prompts
  <2>5. /\ clientAt' = "recv" /\ given' = given + 1
        /\ UNCHANGED <<toClient, hostVars, typed>>
    BY <2>1 DEF ClientAnswers
  <2> QED  BY <2>2, <2>4, <2>5
<1>10. CASE UserAnswers
  <2>1. PICK kind \in {"query", "empty"} :
               /\ line' = Data(kind, typed, given + 1)
               /\ ClientAnswers("query", line')
    BY <1>10 DEF UserAnswers
  <2>2. calm /\ calm' =>
          /\ hostAt = "answer" /\ asked = given + 1 /\ Head(calls) = "query"
          /\ toHost.w0 = Zero /\ toClient.w0 = Zero /\ msg.of = typed
    BY <2>1 DEF ClientAnswers
  <2>3. calm /\ calm' => /\ toHost'.w0 # Zero => kind # "empty"
                        /\ toHost'.data = Data(kind, typed, given + 1)
    BY <2>1, <2>2, DataIs DEF ClientAnswers, SendLine
  <2>4. calm /\ calm' /\ toHost'.w0 # Zero =>
          Fits([to     |-> Data(Head(calls), msg.of, asked),
                answer |-> toHost'.data])
    <3>1. calm /\ calm' /\ toHost'.w0 # Zero =>
            toHost'.data = Data("query", msg.of, asked)
      BY ONLY <2>1, <2>2, <2>3
    <3> QED  BY ONLY <2>2, <3>1, SameFits DEF Prompts
  <2>5. /\ clientAt' = "recv" /\ given' = given + 1
        /\ UNCHANGED <<toClient, hostVars, typed>>
    BY <2>1 DEF ClientAnswers
  <2> QED  BY <2>2, <2>4, <2>5
<1>11. CASE ClientTakesDir
  <2>1. ClientAnswers("dir", line)
    BY <1>11 DEF ClientTakesDir
  <2>2. calm /\ calm' =>
          /\ hostAt = "answer" /\ asked = given + 1 /\ Head(calls) = "dir"
          /\ toHost.w0 = Zero /\ toClient.w0 = Zero
          /\ msg.of = typed /\ line.of = typed
    BY <2>1 DEF ClientAnswers
  <2>3. calm /\ calm' => toHost'.data = line
    BY <2>1, <2>2, DataIs DEF ClientAnswers, SendLine
  <2>4. calm /\ calm' /\ toHost'.w0 # Zero =>
          Fits([to     |-> Data(Head(calls), msg.of, asked),
                answer |-> toHost'.data])
    <3>1. calm /\ calm' /\ toHost'.w0 # Zero => toHost'.data.of = msg.of
      BY ONLY <2>1, <2>2, <2>3
    <3> QED  BY ONLY <2>2, <3>1, DirFits
  <2>5. /\ clientAt' = "recv" /\ given' = given + 1
        /\ UNCHANGED <<toClient, hostVars, typed>>
    BY <2>1 DEF ClientAnswers
  <2> QED  BY <2>2, <2>4, <2>5
<1>12. CASE ClientTracks
  BY <1>12 DEF ClientTracks
<1>13. CASE ClientEndsTrack
  BY <1>13 DEF ClientEndsTrack
<1>14. CASE ClientSeesDisplay
  BY <1>14 DEF ClientSeesDisplay
<1>15. CASE ClientShows
  BY <1>15 DEF ClientShows
<1>16. CASE ClientEndsDisplay
  BY <1>16 DEF ClientEndsDisplay
<1>17. CASE UserTypes
  BY <1>17 DEF UserTypes
<1> QED
  BY <1>1, <1>2, <1>3, <1>4, <1>5, <1>6, <1>7, <1>8, <1>9, <1>10, <1>11,
     <1>12, <1>13, <1>14, <1>15, <1>16, <1>17
     DEF HostSteps, ClientSteps

LEMMA AnsweredStep ==
  ASSUME Sound, Counted, calm => Answered, [Next]_vars
  PROVE  Counted' /\ (calm' => Answered')
<1>1. CASE HostSteps /\ calm' = (calm /\ ClientSleeps)
  BY <1>1, CountedStep, HostKeepsAnswered
<1>2. CASE (ClientSteps \/ UserTypes) /\ calm' = (calm /\ HostSleeps)
  BY <1>2, CountedStep, ClientKeepsAnswered
<1>3. CASE UNCHANGED vars
  <2> USE <1>3 DEF vars, hostVars, clientVars
  <2>1. Counted'
    BY DEF Counted
  <2>2. calm' => Answered'
    BY DEF Answered, Greeted
  <2> QED  BY <2>1, <2>2
<1> QED  BY <1>1, <1>2, <1>3 DEF Next, HostRuns, ClientRuns

Exchanged == Sound /\ Counted /\ (calm => Answered)

LEMMA ExchangedInit == Init => Exchanged
<1>1. Init => Counted
  BY WordsDiffer DEF Init, Counted, Following, Kinds
<1>2. Init => Answered
  BY WordsDiffer DEF Init, Answered, Prompts, Working
<1> QED  BY <1>1, <1>2, SoundInit DEF Exchanged

-----------------------------------------------------------------------------
(* A response that is cut short *)

\* A response was cut short, for the first time, and no line typed since.
JustCut == cut # 0 /\ cut = typed

\* Until the next line is typed the host waits for it, and the part the
\* console did not receive is in the buffer.
CutInTurn ==
  /\ cut \in 0 .. typed
  /\ cut # 0 => /\ hostAt \notin {"start", "greeting"}
                /\ calm => Greeted
  /\ JustCut /\ Greeted =>
       /\ hostAt = "listen" /\ toHost.w0 = Zero
       /\ toClient.w0 = Rule /\ ~toClient.open
       /\ clientAt \in {"sent", "recv", "prompt", "display", "displays"}
       /\ msg.of = typed
       /\ msg.kind \in DOMAIN CallsOf \cup {"nothing", "cd", "quit"}
       /\ calm => \A a \in answers : Fits(a)

\* Up to the first response that is cut short, and after it.
Kept == TypesHold /\ CutInTurn /\ (cut = 0 => Exchanged)

LEMMA UncutIs ==
  ASSUME TypesHold, CutInTurn
  PROVE  Uncut <=> cut = 0 \/ JustCut
BY DEF TypesHold, Typed, RestTyped, CutInTurn, Uncut, JustCut

\* A step after which no response was cut short cuts none.
LEMMA NoneIsCut ==
  ASSUME Kept, [Next]_vars, cut' = 0
  PROVE  cut = 0 /\ Exchanged /\ (HostRuns /\ Greeted => ~CutsShort)
<1>1. cut \in Nat /\ cut <= typed
  BY DEF Kept, CutInTurn, TypesHold, Typed, RestTyped
<1>2. cut = 0
  BY <1>1 DEF Next, HostRuns, ClientRuns, vars
<1>3. HostRuns /\ CutsShort => typed = 0
  BY <1>2 DEF HostRuns
<1>4. Greeted /\ CutsShort => typed # 0
  <2>1. Opening /\ (Greeted => InTurn) /\ typed \in Nat
    BY <1>2 DEF Kept, Exchanged, Sound, TypesHold, Typed, RestTyped
  <2> SUFFICES ASSUME Greeted, CutsShort, typed = 0
               PROVE  FALSE
    OBVIOUS
  <2>2. hostAt = "end" /\ toClient.w0 = Rule
    BY DEF CutsShort
  <2>3. clientAt \in {"off", "init", "hello", "cd", "cd reply", "prompt"}
    <3>1. ~(typed > 0)
      BY ONLY typed = 0
    <3> QED  BY ONLY <2>1, <3>1 DEF Opening
  <2> QED
    BY ONLY <2>1, <2>2, <2>3, Greeted, WordsDiffer DEF InTurn, ClientInTurn
<1> QED  BY <1>2, <1>3, <1>4 DEF Kept

\* What ends a response that is cut short.
LEMMA EndIsCut ==
  ASSUME HostSteps, CutsShort
  PROVE  HostEndsSend
BY DEF CutsShort, HostSteps, HostStarts, HostGreets, HostIsGreeted,
       HostExecutes, HostExits, HostDrops, HostReplies, HostSendsPart,
       HostCalls, HostAnnounces, HostSaysWhat, HostWritesText,
       HostReadsAnswer, HostClearsAnswer, HostWritesPrefix, HostSendsPrefix,
       HostWritesNumbers, HostSendsTrack, HostTracks, HostEndsTrack,
       HostSeesTrackEnd, HostClearsTrack, HostWritesDisplay,
       HostSendsDisplay, HostBeginsText, HostDisplays, HostWrites, HostGoes

\* The host's steps change nothing of the console's own state, but that they
\* start it.
LEMMA HostLeavesClient ==
  ASSUME HostSteps
  PROVE  /\ UNCHANGED <<got, line, typed, given, dir, shown>>
         /\ hostAt # "start" => clientAt' = clientAt
BY DEF HostSteps, HostStarts, HostGreets, HostIsGreeted, HostExecutes,
       HostExits, HostDrops, HostReplies, HostSendsPart, HostEndsSend,
       HostCalls, HostAnnounces, HostSaysWhat, HostWritesText,
       HostReadsAnswer, HostClearsAnswer, HostWritesPrefix, HostSendsPrefix,
       HostWritesNumbers, HostSendsTrack, HostTracks, HostEndsTrack,
       HostSeesTrackEnd, HostClearsTrack, HostWritesDisplay,
       HostSendsDisplay, HostBeginsText, HostDisplays, HostWrites, HostGoes,
       clientVars

\* Once it has begun the host neither starts nor greets again.
LEMMA GreetedOnce ==
  ASSUME TypesHold, HostSteps, hostAt \notin {"start", "greeting"}
  PROVE  hostAt' \notin {"start", "greeting"} /\ greeting' = greeting
<1>1. calls # <<>> => Waiting(Head(calls)) \in {"ask", "track", "display"}
  BY NextCall DEF TypesHold, Typed, RestTyped
<1> QED
  BY <1>1
     DEF HostSteps, HostStarts, HostGreets, HostIsGreeted,
         HostExecutes, HostExits, HostDrops, HostReplies, HostSendsPart,
         HostEndsSend, HostCalls, HostAnnounces, HostSaysWhat, HostWritesText,
         HostReadsAnswer, HostClearsAnswer, HostWritesPrefix, HostSendsPrefix,
         HostWritesNumbers, HostSendsTrack, HostTracks, HostEndsTrack,
         HostSeesTrackEnd, HostClearsTrack, HostWritesDisplay,
         HostSendsDisplay, HostBeginsText, HostDisplays, HostWrites, HostGoes

\* The host does nothing while it waits for a line.
LEMMA HostListens ==
  ASSUME HostSteps, hostAt = "listen", toHost.w0 = Zero
  PROVE  FALSE
BY DEF HostSteps, HostStarts, HostGreets, HostIsGreeted, HostExecutes,
       HostExits, HostDrops, HostReplies, HostSendsPart, HostEndsSend,
       HostCalls, HostAnnounces, HostSaysWhat, HostWritesText,
       HostReadsAnswer, HostClearsAnswer, HostWritesPrefix, HostSendsPrefix,
       HostWritesNumbers, HostSendsTrack, HostTracks, HostEndsTrack,
       HostSeesTrackEnd, HostClearsTrack, HostWritesDisplay,
       HostSendsDisplay, HostBeginsText, HostDisplays, HostWrites, HostGoes,
       ReadyToRecv

\* Before the next line the console may still hear of the response, leave the
\* loop of a text and come to its prompt.
LEMMA ClientIsCut ==
  ASSUME TypesHold, ClientSteps, ~toClient.open, toClient.w0 # Zero,
         clientAt \in {"sent", "recv", "prompt", "display", "displays"}
  PROVE  /\ clientAt' \in {"sent", "recv", "prompt", "display", "displays"}
         /\ UNCHANGED <<toHost, typed, hostVars>>
         /\ toClient.w1 # "display" => UNCHANGED <<toClient, shown, dir>>
         /\ toClient'.w0 = toClient.w0 /\ toClient'.open = toClient.open
BY DEF ClientSteps, ClientStarts, ClientGreets, ClientSendsDir,
       ClientIsReady, ClientSends, ClientHears, ClientIsDone, ClientReceives,
       UserGivesPassword, UserAnswers, ClientTakesDir, ClientAnswers,
       ClientTracks, ClientEndsTrack, ClientSeesDisplay, ClientShows,
       ClientEndsDisplay, ClientGoes, ReadyToRecv, hostVars, TypesHold, Typed,
       BuffersTyped, Buffers

\* The console's steps change nothing of the host's own state.
LEMMA ClientLeavesHost ==
  ASSUME ClientSteps \/ UserTypes
  PROVE  UNCHANGED hostVars
BY DEF ClientSteps, ClientStarts, ClientGreets, ClientSendsDir, ClientIsReady,
       ClientSends, ClientHears, ClientIsDone, ClientReceives,
       UserGivesPassword, UserAnswers, ClientTakesDir, ClientAnswers,
       ClientTracks, ClientEndsTrack, ClientSeesDisplay, ClientShows,
       ClientEndsDisplay, UserTypes

\* The response is cut short,
LEMMA HostCuts ==
  ASSUME Kept, HostRuns, cut = 0, CutsShort
  PROVE  CutInTurn'
<1>1. /\ hostAt = "end" /\ hostAt' = "listen" /\ toClient.w0 = Rule
      /\ toClient'.w0 = Rule /\ ~toClient'.open
      /\ UNCHANGED <<toHost, msg, greeting, answers, clientVars>>
      /\ cut' = typed /\ typed' = typed
  BY EndIsCut
     DEF HostRuns, CutsShort, HostEndsSend, HostGoes, clientVars, Kept,
         TypesHold, Typed, BuffersTyped, Buffers
<1>2. typed \in Nat /\ cut' \in 0 .. typed'
  BY <1>1 DEF Kept, TypesHold, Typed, RestTyped
<1>3. calm' => calm
  BY DEF HostRuns
<1>4. Exchanged
  BY DEF Kept
<1>5. calm => Greeted
  BY <1>1, <1>4 DEF Exchanged, Answered
<1>6. Greeted =>
        /\ toHost.w0 = Zero /\ msg.of = typed
        /\ clientAt \in {"sent", "recv", "prompt", "display", "displays"}
        /\ msg.kind \in DOMAIN CallsOf \cup {"nothing", "cd", "quit"}
  <2> SUFFICES ASSUME Greeted
               PROVE  /\ toHost.w0 = Zero /\ msg.of = typed
                      /\ clientAt \in {"sent", "recv", "prompt", "display",
                                       "displays"}
                      /\ msg.kind \in DOMAIN CallsOf \cup
                                      {"nothing", "cd", "quit"}
    OBVIOUS
  <2> QED
    BY <1>1, <1>4, WordsDiffer
       DEF Exchanged, Sound, Opening, Asking, InTurn, HostInTurn,
           ClientInTurn, AskedInTurn, TrackedInTurn, Prompts, Following, Kinds, CutsShort
<1>7. calm => \A a \in answers : Fits(a)
  BY <1>4 DEF Exchanged, Answered
<1>8. (\A a \in answers : Fits(a)) => (\A a \in answers' : Fits(a))
  BY <1>1
<1> QED
  BY <1>1, <1>2, <1>3, <1>5, <1>6, <1>7, <1>8 DEF CutInTurn, Greeted, clientVars

\* and so it stays until the next line.
LEMMA CutStep ==
  ASSUME Kept, [Next]_vars
  PROVE  CutInTurn'
<1>1. typed \in Nat /\ cut \in 0 .. typed
  BY DEF Kept, CutInTurn, TypesHold, Typed, RestTyped
<1>2. CASE HostRuns
  <2>1. typed' = typed
    BY <1>2, HostLeavesClient DEF HostRuns
  <2>2. calm' => calm
    BY <1>2 DEF HostRuns
  <2>3. CASE cut # 0
    <3>1. cut' = cut /\ HostSteps
      BY <1>2, <2>3 DEF HostRuns
    <3>2. hostAt' \notin {"start", "greeting"} /\ greeting' = greeting
      BY <2>3, <3>1, GreetedOnce DEF Kept, CutInTurn
    <3>3. ~(JustCut /\ Greeted)
      BY <3>1, HostListens DEF Kept, CutInTurn
    <3> QED
      BY <1>1, <2>1, <2>2, <2>3, <3>1, <3>2, <3>3
         DEF Kept, CutInTurn, JustCut, Greeted
  <2>4. CASE cut = 0 /\ ~CutsShort
    <3>1. cut' = 0
      BY <1>2, <2>4 DEF HostRuns
    <3> QED  BY <1>1, <2>1, <3>1 DEF CutInTurn, JustCut
  <2> QED  BY <1>2, <2>3, <2>4, HostCuts
<1>3. CASE ClientRuns
  <2>1. cut' = cut /\ ClientSteps /\ (calm' => calm)
    BY <1>3 DEF ClientRuns
  <2>2. UNCHANGED hostVars
    BY <2>1, ClientLeavesHost
  <2>3. typed' = typed
    BY <2>1
       DEF ClientSteps, ClientStarts, ClientGreets, ClientSendsDir,
           ClientIsReady, ClientSends, ClientHears, ClientIsDone,
           ClientReceives, UserGivesPassword, UserAnswers, ClientTakesDir,
           ClientAnswers, ClientTracks, ClientEndsTrack, ClientSeesDisplay,
           ClientShows, ClientEndsDisplay
  <2>4. JustCut /\ Greeted =>
          /\ clientAt' \in {"sent", "recv", "prompt", "display", "displays"}
          /\ toHost' = toHost /\ toClient'.w0 = toClient.w0
          /\ toClient'.open = toClient.open
    BY <2>1, ClientIsCut, WordsDiffer DEF Kept, CutInTurn
  <2>5. Greeted' = Greeted /\ JustCut' = JustCut
    BY <2>1, <2>2, <2>3 DEF Greeted, JustCut, hostVars
  <2> QED
    BY <1>1, <2>1, <2>2, <2>3, <2>4, <2>5 DEF Kept, CutInTurn, hostVars
<1>4. CASE UserTypes /\ calm' = (calm /\ HostSleeps) /\ UNCHANGED cut
  <2>1. /\ typed' = typed + 1 /\ cut' = cut
        /\ UNCHANGED hostVars /\ (calm' => calm)
    BY <1>4 DEF UserTypes
  <2>2. cut' \in 0 .. typed' /\ ~JustCut'
    BY <1>1, <2>1 DEF JustCut
  <2> QED  BY <2>1, <2>2 DEF Kept, CutInTurn, Greeted, hostVars
<1>5. CASE UNCHANGED vars
  BY <1>5 DEF vars, hostVars, clientVars, Kept, CutInTurn, JustCut, Greeted
<1> QED  BY <1>2, <1>3, <1>4, <1>5 DEF Next

LEMMA KeptInit == Init => Kept
<1>1. Init => cut = 0 /\ typed = 0
  BY DEF Init
<1> QED
  BY <1>1, ExchangedInit, TypesInit DEF Kept, CutInTurn, JustCut

LEMMA KeptStep ==
  ASSUME Kept, [Next]_vars
  PROVE  Kept'
<1>1. TypesHold'
  BY TypesStep DEF Kept
<1>2. CutInTurn'
  BY CutStep
<1>3. ASSUME cut' = 0
      PROVE  Exchanged'
  <2>1. Exchanged /\ (HostRuns /\ Greeted => ~CutsShort)
    BY <1>3, NoneIsCut
  <2> QED  BY <2>1, SoundStep, AnsweredStep DEF Exchanged
<1> QED  BY <1>1, <1>2, <1>3 DEF Kept

\* A host that is not interrupted gets the console's greeting; and one that got
\* it executes what was typed, as a command and before the next prompt, however
\* the two processes are interrupted, up to the line that is typed after the
\* first response that is cut short.
THEOREM LinesAreTakenInTurn == Spec => []CommandsInTurn
<1>1. Kept => CommandsInTurn
  <2> SUFFICES ASSUME Kept
               PROVE  CommandsInTurn
    OBVIOUS
  <2>1. calm /\ hostAt \notin {"start", "greeting"} => Greeted
    <3>1. cut = 0 \/ cut # 0
      OBVIOUS
    <3> QED  BY <3>1 DEF Kept, CutInTurn, Exchanged, Answered
  <2>2. Uncut <=> cut = 0 \/ JustCut
    BY UncutIs DEF Kept
  <2>3. Greeted /\ cut = 0 =>
          /\ msg.kind \in DOMAIN CallsOf \cup {"nothing", "cd", "quit"}
          /\ clientAt = "prompt" => msg.of = typed
    BY DEF Kept, Exchanged, Sound, InTurn, ClientInTurn, HostInTurn
  <2>4. Greeted /\ JustCut =>
          /\ msg.kind \in DOMAIN CallsOf \cup {"nothing", "cd", "quit"}
          /\ clientAt = "prompt" => msg.of = typed
    BY DEF Kept, CutInTurn
  <2> QED  BY <2>1, <2>2, <2>3, <2>4 DEF CommandsInTurn, Greeted
<1> QED  BY KeptInit, KeptStep, <1>1, PTL DEF Spec

\* As long as no process is interrupted between two sleeps, and up to the line
\* after the first response that is cut short, what the host takes for an
\* answer is the one to what it asked last: the bytes it finds in the console's
\* buffer were written there for this question.
THEOREM AnswersAlwaysFit == Spec => []AnswersFit
<1>1. Kept => AnswersFit
  <2> SUFFICES ASSUME Kept, calm, Uncut
               PROVE  \A a \in answers : Fits(a)
    BY DEF AnswersFit, Fits
  <2>1. CASE cut = 0
    BY <2>1 DEF Kept, Exchanged, Answered
  <2>2. CASE JustCut
    BY <2>2 DEF Kept, CutInTurn, JustCut
  <2> QED  BY <2>1, <2>2, UncutIs DEF Kept
<1> QED  BY KeptInit, KeptStep, <1>1, PTL DEF Spec

-----------------------------------------------------------------------------
(* Responses *)

\* The second word says what the buffer is for.
Worded ==
  /\ hostAt = "greeting" => toClient.w1 = "text"
  /\ hostAt = "prefix written" => toClient.w1 = "prefix"
  /\ hostAt = "ask text" => Head(calls) # "password"
  /\ hostAt \in {"track end", "track over"} => toClient.w1 = "zero"
  /\ hostAt \in {"display written", "display sent"} => toClient.w1 = "display"
  /\ Greeted =>
       /\ toClient.w0 # High
       /\ toClient.w0 \in {Ascii, Rule} => toClient.w1 = "text"
       /\ hostAt = "end" => toClient.w1 = "text"
       /\ hostAt = "reply" /\ part # 0 => toClient.w1 = "text"
       /\ ~toClient.open => toClient.w1 = "text"
       /\ hostAt \in Asking \cup {"answered"} => toClient.w0 \in {Zero, Max16}

\* The buffer's words are still those of what went before.
Between == {"ask code", "ask text", "display written", "display sent"}

\* What the host has said and the console not yet shown.
Unseen ==
  IF hostAt \in Between THEN <<>>
  ELSE IF toClient.w1 = "display"
    THEN IF toClient.data.kind = "display" THEN <<toClient.data>> ELSE <<>>
  ELSE IF toClient.w0 = Zero \/ (toClient.w0 = Max16 /\ toClient.w1 # "query")
    THEN <<>> ELSE <<toClient.data>>

\* The console has got to a line, and shows what its command says.
UnderWay ==
  \/ clientAt \in Following
  \/ clientAt = "prompt" /\ typed > 0
  \/ clientAt = "sent" /\ toHost.w0 = Zero

\* The console has shown all that was said but for what the buffer holds.
Displayed ==
  /\ clientAt = "sent" => shown = <<>>
  /\ UnderWay => said = shown \o Unseen
  /\ hostAt \notin Between /\ toClient.w1 = "display" =>
       /\ toClient.data = Nothing \/ toClient.data.kind = "display"
       /\ toClient.w0 = Zero => clientAt \in {"display", "displays"}
  /\ hostAt = "display sent" => toClient.w0 = Max16
  /\ hostAt = "text" => toClient.w1 = "display"

\* The console has the last directory, unless it is on its way.
DirShown ==
  /\ hostAt = "answer" /\ Head(calls) = "dir" /\ toClient.w0 = Max16 =>
       toClient.data.n = sentDir
  /\ clientAt = "dir" => got.data.n = sentDir
  /\ sentDir > 0 =>
       \/ dir.n = sentDir
       \/ hostAt = "answer" /\ Head(calls) = "dir" /\ asked = given + 1

\* No block is a later one.  It is so when a text has only one.
OneBlock == ~IsLaterBlock(toClient.data)

\* Blocks are numbered down to one.
BlocksCounted ==
  toClient.data.kind = "display" => toClient.data.n \in Nat \ {0}

LEMMA BlocksCountedStep ==
  ASSUME TypesHold, BlocksCounted, [Next]_vars
  PROVE  BlocksCounted'
<1> USE NothingIs
    DEF TypesHold, Typed, BuffersTyped, RestTyped, PartsLeft, Buffers,
        BlocksCounted, hostVars, clientVars, HostGoes, ClientGoes
<1>1. toClient' = toClient => BlocksCounted'
  OBVIOUS
<1>2. ASSUME NEW kind, NEW of, NEW n, toClient'.data = Data(kind, of, n),
             kind = "display" => n \in Nat \ {0}
      PROVE  BlocksCounted'
  BY <1>2, DataIs
<1>3. toClient'.data \in {toClient.data, Nothing} => BlocksCounted'
  OBVIOUS
<1>4. CASE HostStarts
  BY <1>2, <1>4 DEF HostStarts, LocalSend
<1>5. CASE HostSendsPart
  <2>1. toClient'.data \in {toClient.data, Data("reply", msg.of, part + 1)}
    BY <1>5 DEF HostSendsPart, LocalSend
  <2> QED  BY <1>2, <1>3, <2>1
<1>6. CASE HostWritesText
  <2>1. toClient'.data \in {Data("dir", msg.of, sentDir + 1),
                            Data("query", msg.of, asked)}
    BY <1>6 DEF HostWritesText
  <2> QED  BY <1>2, <2>1
<1>7. CASE HostWritesPrefix
  <2>1. toClient'.data = Data("prefix", msg.of, asked)
    BY <1>7 DEF HostWritesPrefix, HostWrites
  <2> QED  BY <1>2, <2>1
<1>8. CASE HostWritesNumbers
  <2>1. toClient'.data = Data("numbers", msg.of, 0)
    BY <1>8 DEF HostWritesNumbers, HostWrites
  <2> QED  BY <1>2, <2>1
<1>9. CASE HostDisplays
  <2>1. toClient'.data = Data("display", msg.of, left) /\ left \in Nat \ {0}
    BY <1>9 DEF HostDisplays
  <2> QED  BY <1>2, <2>1
<1>10. CASE \/ HostGreets \/ HostIsGreeted \/ HostExecutes \/ HostExits
            \/ HostDrops \/ HostReplies \/ HostEndsSend \/ HostCalls
            \/ HostAnnounces \/ HostSaysWhat \/ HostReadsAnswer
            \/ HostClearsAnswer
  BY <1>3, <1>10
     DEF HostGreets, HostIsGreeted, HostExecutes, HostExits, HostDrops,
         HostReplies, HostEndsSend, HostCalls, HostAnnounces, HostSaysWhat,
         HostReadsAnswer, HostClearsAnswer
<1>11. CASE \/ HostSendsPrefix \/ HostSendsTrack \/ HostTracks
            \/ HostEndsTrack \/ HostSeesTrackEnd \/ HostClearsTrack
            \/ HostWritesDisplay \/ HostSendsDisplay \/ HostBeginsText
  BY <1>3, <1>11
     DEF HostSendsPrefix, HostSendsTrack, HostTracks, HostEndsTrack,
         HostSeesTrackEnd, HostClearsTrack, HostWritesDisplay,
         HostSendsDisplay, HostBeginsText, HostWrites
<1>12. CASE ClientSteps
  BY <1>3, <1>12
     DEF ClientSteps, ClientStarts, ClientGreets, ClientSendsDir,
         ClientIsReady, ClientSends, ClientHears, ClientIsDone,
         ClientReceives, UserGivesPassword, UserAnswers, ClientTakesDir,
         ClientAnswers, ClientTracks, ClientEndsTrack, ClientSeesDisplay,
         ClientShows, ClientEndsDisplay
<1>13. CASE UserTypes \/ UNCHANGED vars
  BY <1>1, <1>13 DEF UserTypes, vars
<1> QED
  BY <1>4, <1>5, <1>6, <1>7, <1>8, <1>9, <1>10, <1>11, <1>12, <1>13
     DEF Next, HostRuns, ClientRuns, HostSteps

LEMMA OneMore ==
  ASSUME NEW S, NEW s \in Seq(S), NEW d \in S, NEW t, NEW u,
         t = s \o <<>>, u = Append(t, d)
  PROVE  u = s \o <<d>>
OBVIOUS

LEMMA OneShown ==
  ASSUME NEW S, NEW s \in Seq(S), NEW d \in S, NEW t, NEW u,
         t = s \o <<d>>, u = Append(s, d)
  PROVE  t = u \o <<>>
OBVIOUS

LEMMA WordedStep ==
  ASSUME Exchanged, Worded, HostSteps \/ ClientSteps \/ UserTypes
  PROVE  Worded'
<1> USE WordsDiffer, LowBytes, NothingIs
    DEF Exchanged, Sound, TypesHold, Typed, BuffersTyped, RestTyped, Buffers,
        Seconds, Words, Followed, Opening, Greeted, Asking, Following, Kinds,
        Prompts, InTurn, ClientInTurn, HostInTurn, AskedInTurn, TrackedInTurn,
        Counted, Worded, hostVars, clientVars, HostGoes, ClientGoes,
        ReadyToSend, ReadyToRecv
<1>1. CASE HostStarts
  BY <1>1 DEF HostStarts, LocalSend
<1>2. CASE HostGreets
  BY <1>2 DEF HostGreets
<1>3. CASE HostIsGreeted
  BY <1>3 DEF HostIsGreeted
<1>4. CASE HostExecutes
  BY <1>4 DEF HostExecutes
<1>5. CASE HostExits
  BY <1>5 DEF HostExits
<1>6. CASE HostDrops
  BY <1>6 DEF HostDrops
<1>7. CASE HostReplies
  <2>1. hostAt = "call" => part = 0
    BY DEF PartsLeft
  <2> QED  BY <1>7, <2>1 DEF HostReplies
<1>8. CASE HostSendsPart
  <2>1. toClient.w0 = Zero /\ hostAt = "reply" /\ hostAt' \in {"reply", "end"}
    BY <1>8 DEF HostSendsPart
  <2>2. /\ reply[part + 1] \in {Zero, Ascii, Rule}
        /\ part = 0 => reply[part + 1] # Zero
    BY <2>1, PartFacts
  <2>3. \/ reply[part + 1] = Zero /\ toClient' = toClient
        \/ toClient'.w0 = reply[part + 1] /\ toClient'.w1 = "text"
    BY <1>8, <2>1 DEF HostSendsPart, LocalSend
  <2>4. UNCHANGED greeting /\ toClient'.open = toClient.open
    BY <1>8, <2>1 DEF HostSendsPart, LocalSend
  <2>5. Greeted => toClient'.w1 = "text"
    BY <2>2, <2>3, <2>1
  <2>6. toClient'.w0 \in {Zero, Ascii, Rule}
    BY <2>1, <2>2, <2>3
  <2> QED  BY <2>1, <2>4, <2>5, <2>6
<1>9. CASE HostEndsSend
  BY <1>9 DEF HostEndsSend, IsTaken
<1>10. CASE HostCalls
  BY <1>10, CallBegins DEF HostCalls
<1>11. CASE HostAnnounces
  BY <1>11 DEF HostAnnounces
<1>12. CASE HostSaysWhat
  BY <1>12 DEF HostSaysWhat
<1>13. CASE HostWritesText
  BY <1>13, TextWritten
<1>14. CASE HostReadsAnswer
  BY <1>14 DEF HostReadsAnswer
<1>15. CASE HostClearsAnswer
  BY <1>15 DEF HostClearsAnswer
<1>16. CASE HostWritesPrefix
  BY <1>16 DEF HostWritesPrefix, HostWrites
<1>17. CASE HostSendsPrefix
  BY <1>17 DEF HostSendsPrefix, HostWrites
<1>18. CASE HostWritesNumbers
  BY <1>18 DEF HostWritesNumbers, HostWrites
<1>19. CASE HostSendsTrack
  BY <1>19 DEF HostSendsTrack, HostWrites
<1>20. CASE HostTracks
  BY <1>20 DEF HostTracks, HostWrites
<1>21. CASE HostEndsTrack
  BY <1>21 DEF HostEndsTrack, HostWrites
<1>22. CASE HostSeesTrackEnd
  BY <1>22 DEF HostSeesTrackEnd, HostWrites
<1>23. CASE HostClearsTrack
  BY <1>23 DEF HostClearsTrack
<1>24. CASE HostWritesDisplay
  BY <1>24 DEF HostWritesDisplay, HostWrites
<1>25. CASE HostSendsDisplay
  BY <1>25 DEF HostSendsDisplay, HostWrites
<1>26. CASE HostBeginsText
  BY <1>26 DEF HostBeginsText
<1>27. CASE HostDisplays
  BY <1>27 DEF HostDisplays
<1>28. CASE ClientStarts
  BY <1>28 DEF ClientStarts
<1>29. CASE ClientGreets
  BY <1>29 DEF ClientGreets, SendLine
<1>30. CASE ClientSendsDir
  BY <1>30 DEF ClientSendsDir, SendLine
<1>31. CASE ClientIsReady
  BY <1>31 DEF ClientIsReady
<1>32. CASE ClientSends
  BY <1>32 DEF ClientSends, SendLine
<1>33. CASE ClientHears
  BY <1>33 DEF ClientHears
<1>34. CASE ClientIsDone
  BY <1>34 DEF ClientIsDone
<1>35. CASE ClientReceives
  BY <1>35 DEF ClientReceives, Handler
<1>36. CASE UserGivesPassword
  BY <1>36 DEF UserGivesPassword, ClientAnswers, SendLine
<1>37. CASE UserAnswers
  BY <1>37 DEF UserAnswers, ClientAnswers, SendLine
<1>38. CASE ClientTakesDir
  BY <1>38 DEF ClientTakesDir, ClientAnswers, SendLine
<1>39. CASE ClientTracks
  BY <1>39 DEF ClientTracks
<1>40. CASE ClientEndsTrack
  BY <1>40 DEF ClientEndsTrack
<1>41. CASE ClientSeesDisplay
  BY <1>41 DEF ClientSeesDisplay
<1>42. CASE ClientShows
  BY <1>42 DEF ClientShows
<1>43. CASE ClientEndsDisplay
  BY <1>43 DEF ClientEndsDisplay
<1>44. CASE UserTypes
  BY <1>44 DEF UserTypes
<1> QED
  BY <1>1, <1>2, <1>3, <1>4, <1>5, <1>6, <1>7, <1>8, <1>9, <1>10, <1>11,
     <1>12, <1>13, <1>14, <1>15, <1>16, <1>17, <1>18, <1>19, <1>20, <1>21,
     <1>22, <1>23, <1>24, <1>25, <1>26, <1>27, <1>28, <1>29, <1>30, <1>31,
     <1>32, <1>33, <1>34, <1>35, <1>36, <1>37, <1>38, <1>39, <1>40, <1>41,
     <1>42, <1>43, <1>44
     DEF HostSteps, ClientSteps

LEMMA HostKeepsDisplayed ==
  ASSUME Exchanged, Worded, calm => Displayed, HostSteps, OneBlock,
         calm' = (calm /\ ClientSleeps)
  PROVE  calm' => Displayed'
<1> USE WordsDiffer, LowBytes, NothingIs
    DEF Exchanged, Sound, TypesHold, Typed, BuffersTyped, RestTyped, Buffers,
        Seconds, Words, Followed, Opening, Greeted, Asking, Following, Kinds,
        Prompts, InTurn, ClientInTurn, HostInTurn, AskedInTurn, TrackedInTurn,
        Counted, Worded, Answered, Working, Displayed, UnderWay, Unseen,
        Between, ClientSleeps, OneBlock, hostVars, clientVars, HostGoes,
        ClientGoes, ReadyToSend, ReadyToRecv
<1>1. CASE HostStarts
  BY <1>1 DEF HostStarts, LocalSend
<1>2. CASE HostGreets
  BY <1>2 DEF HostGreets
<1>3. CASE HostIsGreeted
  BY <1>3 DEF HostIsGreeted
<1>4. CASE HostExecutes
  <2>1. /\ hostAt = "listen" /\ hostAt' = "call" /\ toHost.w0 # Zero
        /\ said' = <<>> /\ UNCHANGED <<clientVars, toClient>>
    BY <1>4 DEF HostExecutes
  <2>2. calm' => clientAt \in {"cd reply", "sent", "gone"}
    BY <2>1
  <2>3. calm' /\ UnderWay' => toClient.w0 = Zero /\ shown' = <<>>
    BY <2>1, <2>2
  <2>4. calm' /\ UnderWay' => Unseen' = <<>>
    BY <2>1, <2>2, <2>3
  <2>5. calm' /\ UnderWay' => said' = shown' \o Unseen'
    BY ONLY <2>1, <2>3, <2>4
  <2> QED  BY <2>1, <2>2, <2>5
<1>5. CASE HostExits
  BY <1>5 DEF HostExits
<1>6. CASE HostDrops
  BY <1>6 DEF HostDrops
<1>7. CASE HostReplies
  BY <1>7 DEF HostReplies
<1>8. CASE HostSendsPart
  <2>1. toClient.w0 = Zero /\ hostAt = "reply" /\ hostAt' \in {"reply", "end"}
    BY <1>8 DEF HostSendsPart
  <2>2. reply[part + 1] \in {Zero, Ascii, Rule}
    BY <2>1, PartFacts
  <2> DEFINE text == Data("reply", msg.of, part + 1)
  <2>3. \/ toClient' = toClient /\ said' = said
        \/ /\ toClient'.w0 = reply[part + 1] /\ toClient'.w1 = "text"
           /\ toClient'.data = text /\ said' = Append(said, text)
           /\ reply[part + 1] # Zero
    BY <1>8, <2>1 DEF HostSendsPart, LocalSend
  <2>4. UNCHANGED <<clientVars, toHost>>
    BY <1>8 DEF HostSendsPart
  <2>5. calm' => /\ calm /\ Unseen = <<>>
                 /\ \/ said' = said /\ Unseen' = <<>>
                    \/ said' = Append(said, text) /\ Unseen' = <<text>>
    BY <2>1, <2>2, <2>3
  <2>6. calm' /\ UnderWay' => UnderWay /\ said = shown \o <<>>
    BY <2>1, <2>4, <2>5
  <2>7. text \in Payload /\ shown \in Seq(Payload)
    <3>1. "reply" \in DataKinds
      BY DEF DataKinds, OtherData
    <3>2. msg \in Payload /\ part \in Nat
      OBVIOUS
    <3>3. msg.of \in Nat /\ part + 1 \in Nat
      BY ONLY <3>2 DEF Payload
    <3> QED  BY <3>1, <3>3, DataTyped
  <2>8. calm' /\ UnderWay' => said' = shown' \o Unseen'
    <3>1. shown' = shown
      BY <2>4
    <3>2. said' = Append(said, text) /\ said = shown \o <<>> =>
            said' = shown \o <<text>>
      BY ONLY <2>7, OneMore
    <3> QED  BY ONLY <3>1, <3>2, <2>5, <2>6
  <2>9. toClient' = toClient \/ toClient'.w1 = "text"
    BY <2>3
  <2>10. clientAt' = clientAt /\ shown' = shown
    BY <2>4
  <2> QED  BY <2>1, <2>5, <2>8, <2>9, <2>10
<1>9. CASE HostEndsSend
  BY <1>9 DEF HostEndsSend, IsTaken
<1>10. CASE HostCalls
  BY <1>10, CallBegins DEF HostCalls
<1>11. CASE HostAnnounces
  BY <1>11 DEF HostAnnounces
<1>12. CASE HostSaysWhat
  BY <1>12 DEF HostSaysWhat
<1>13. CASE HostWritesText
  <2>1. /\ hostAt = "ask text" /\ hostAt' = "answer"
        /\ UNCHANGED <<clientVars, toHost>>
        /\ toClient'.w0 = toClient.w0 /\ toClient'.w1 = toClient.w1
    BY <1>13, TextWritten
  <2>0. /\ Head(calls) = "dir" => said' = said
        /\ Head(calls) # "dir" => said' = Append(said, toClient'.data)
    BY <1>13, TextWritten
  <2>2. calm' => /\ calm /\ Unseen = <<>> /\ toClient.w0 = Max16
                 /\ toClient.w1 = Head(calls)
                 /\ Head(calls) \in {"dir", "query"}
    BY <2>1
  <2>3. calm' =>
          Unseen' = IF Head(calls) = "dir" THEN <<>> ELSE <<toClient'.data>>
    BY <2>1, <2>2
  <2>4. calm' /\ UnderWay' => UnderWay /\ said = shown \o <<>>
    BY <2>1, <2>2
  <2>5. toClient'.data \in Payload /\ shown \in Seq(Payload)
    BY HostTypes
  <2>6. calm' /\ UnderWay' => said' = shown' \o Unseen'
    <3>1. shown' = shown
      BY <2>1
    <3>2. said' = Append(said, toClient'.data) /\ said = shown \o <<>> =>
            said' = shown \o <<toClient'.data>>
      BY ONLY <2>5, OneMore
    <3> QED  BY ONLY <3>1, <3>2, <2>0, <2>3, <2>4
  <2> QED  BY <2>1, <2>2, <2>6
<1>14. CASE HostReadsAnswer
  BY <1>14 DEF HostReadsAnswer
<1>15. CASE HostClearsAnswer
  BY <1>15 DEF HostClearsAnswer
<1>16. CASE HostWritesPrefix
  BY <1>16 DEF HostWritesPrefix, HostWrites
<1>17. CASE HostSendsPrefix
  BY <1>17 DEF HostSendsPrefix, HostWrites
<1>18. CASE HostWritesNumbers
  BY <1>18 DEF HostWritesNumbers, HostWrites
<1>19. CASE HostSendsTrack
  BY <1>19 DEF HostSendsTrack, HostWrites
<1>20. CASE HostTracks
  BY <1>20 DEF HostTracks, HostWrites
<1>21. CASE HostEndsTrack
  BY <1>21 DEF HostEndsTrack, HostWrites
<1>22. CASE HostSeesTrackEnd
  BY <1>22 DEF HostSeesTrackEnd, HostWrites
<1>23. CASE HostClearsTrack
  BY <1>23 DEF HostClearsTrack
<1>24. CASE HostWritesDisplay
  BY <1>24 DEF HostWritesDisplay, HostWrites
<1>25. CASE HostSendsDisplay
  BY <1>25 DEF HostSendsDisplay, HostWrites
<1>26. CASE HostBeginsText
  BY <1>26 DEF HostBeginsText
<1>27. CASE HostDisplays
  <2>1. /\ hostAt = "text" /\ UNCHANGED <<clientVars, toHost>>
        /\ toClient'.w0 = toClient.w0 /\ toClient'.w1 = toClient.w1
        /\ toClient'.data = Data("display", msg.of, left)
        /\ hostAt' \in {"call", "text"} /\ toClient.data = Nothing
    BY <1>27 DEF HostDisplays
  <2>2. said' = Append(said, toClient'.data)
    BY <1>27 DEF HostDisplays
  <2>3. toClient'.data.kind = "display"
    BY ONLY <2>1, DataIs
  <2>4. calm' => calm /\ toClient.w1 = "display" /\ Unseen = <<>>
    BY <2>1
  <2>5. calm' => Unseen' = <<toClient'.data>>
    BY <2>1, <2>3, <2>4
  <2>6. calm' /\ UnderWay' => UnderWay /\ said = shown \o <<>>
    BY <2>1, <2>4
  <2>7. toClient'.data \in Payload /\ shown \in Seq(Payload)
    BY HostTypes
  <2>8. calm' /\ UnderWay' => said' = shown' \o Unseen'
    <3>1. shown' = shown
      BY <2>1
    <3>2. said' = Append(said, toClient'.data) /\ said = shown \o <<>> =>
            said' = shown \o <<toClient'.data>>
      BY ONLY <2>7, OneMore
    <3> QED  BY ONLY <3>1, <3>2, <2>2, <2>5, <2>6
  <2> QED  BY <2>1, <2>3, <2>4, <2>8
<1> QED
  BY <1>1, <1>2, <1>3, <1>4, <1>5, <1>6, <1>7, <1>8, <1>9, <1>10, <1>11,
     <1>12, <1>13, <1>14, <1>15, <1>16, <1>17, <1>18, <1>19, <1>20, <1>21,
     <1>22, <1>23, <1>24, <1>25, <1>26, <1>27
     DEF HostSteps, ClientSteps

LEMMA ClientKeepsDisplayed ==
  ASSUME Exchanged, Worded, calm => Displayed, ClientSteps \/ UserTypes,
         calm' = (calm /\ HostSleeps)
  PROVE  calm' => Displayed'
<1> USE WordsDiffer, LowBytes, NothingIs
    DEF Exchanged, Sound, TypesHold, Typed, BuffersTyped, RestTyped, Buffers,
        Seconds, Words, Followed, Opening, Greeted, Asking, Following, Kinds,
        Prompts, InTurn, ClientInTurn, HostInTurn, AskedInTurn, TrackedInTurn,
        Counted, Worded, Answered, Working, Displayed, UnderWay, Unseen,
        Between, HostSleeps, hostVars, clientVars, HostGoes, ClientGoes,
        ReadyToSend, ReadyToRecv
<1>1. CASE ClientStarts
  BY <1>1 DEF ClientStarts
<1>2. CASE ClientGreets
  BY <1>2 DEF ClientGreets, SendLine
<1>3. CASE ClientSendsDir
  BY <1>3 DEF ClientSendsDir, SendLine
<1>4. CASE ClientIsReady
  <2>1. calm => toClient.w0 = Ascii /\ toClient.w1 = "text" /\ typed = 0
    BY <1>4 DEF ClientIsReady
  <2>2. ~UnderWay' \/ ~calm
    <3>1. clientAt' = "prompt" /\ typed' = typed
      BY <1>4 DEF ClientIsReady
    <3>2. ~calm \/ ~(typed' > 0)
      BY ONLY <2>1, <3>1
    <3> QED  BY <3>1, <3>2
  <2> QED  BY <1>4, <2>1, <2>2 DEF ClientIsReady
<1>5. CASE ClientSends
  <2>1. "empty" \notin DOMAIN CallsOf
    BY LocalConnectionAssumption DEF OtherData
  <2>2. calm => toHost'.w0 # Zero
    BY <1>5, <2>1 DEF ClientSends, SendLine
  <2> QED  BY <1>5, <2>2 DEF ClientSends
<1>6. CASE ClientHears
  BY <1>6 DEF ClientHears
<1>7. CASE ClientIsDone
  BY <1>7 DEF ClientIsDone
<1>8. CASE ClientReceives
  <2>1. /\ clientAt = "recv" /\ toClient.w0 # Zero
        /\ UNCHANGED <<toHost, hostVars>>
        /\ toClient'.w0 = Zero /\ toClient'.w1 = toClient.w1
        /\ toClient'.data = toClient.data
        /\ shown' = IF IsShown(toClient) THEN Append(shown, toClient.data)
                                         ELSE shown
        /\ clientAt' = Handler(toClient)
    BY <1>8 DEF ClientReceives
  <2>2. clientAt' \in Following
    BY <2>1 DEF Handler
  <2>3. calm' => /\ calm /\ hostAt \notin Between /\ said = shown \o Unseen
                 /\ toClient.w1 # "text" => toClient.w0 = Max16
    BY <2>1
  <2>4. calm' => \/ ~IsShown(toClient) /\ Unseen' = Unseen
                 \/ /\ IsShown(toClient) /\ Unseen = <<toClient.data>>
                    /\ Unseen' = <<>>
    BY <2>1, <2>3 DEF IsShown
  <2>5. toClient.data \in Payload /\ shown \in Seq(Payload)
    OBVIOUS
  <2>6. calm' => said' = shown' \o Unseen'
    <3>1. said = shown \o <<toClient.data>>
            /\ shown' = Append(shown, toClient.data) =>
            said = shown' \o <<>>
      BY ONLY <2>5, OneShown
    <3>2. said' = said
      BY <2>1
    <3> QED  BY ONLY <3>1, <3>2, <2>1, <2>3, <2>4
  <2>7. calm' /\ toClient.w1 = "display" => clientAt' = "display"
    BY <2>1, <2>3 DEF Handler
  <2> QED  BY <2>1, <2>2, <2>3, <2>6, <2>7
<1>9. CASE UserGivesPassword
  BY <1>9 DEF UserGivesPassword, ClientAnswers, SendLine
<1>10. CASE UserAnswers
  BY <1>10 DEF UserAnswers, ClientAnswers, SendLine
<1>11. CASE ClientTakesDir
  BY <1>11 DEF ClientTakesDir, ClientAnswers, SendLine
<1>12. CASE ClientTracks
  BY <1>12 DEF ClientTracks
<1>13. CASE ClientEndsTrack
  BY <1>13 DEF ClientEndsTrack
<1>14. CASE ClientSeesDisplay
  BY <1>14 DEF ClientSeesDisplay
<1>15. CASE ClientShows
  <2>1. /\ clientAt = "displays" /\ toClient.w1 = "display"
        /\ toClient.data # Nothing
        /\ UNCHANGED <<toHost, hostVars, clientAt>>
        /\ toClient'.w0 = toClient.w0 /\ toClient'.w1 = toClient.w1
        /\ toClient'.data = Nothing /\ shown' = Append(shown, toClient.data)
    BY <1>15 DEF ClientShows
  <2>2. calm' => /\ calm /\ hostAt \notin Between /\ said = shown \o Unseen
                 /\ Unseen = <<toClient.data>>
    BY <2>1
  <2>3. calm' => Unseen' = <<>>
    BY <2>1
  <2>4. toClient.data \in Payload /\ shown \in Seq(Payload)
    OBVIOUS
  <2>5. calm' => said' = shown' \o Unseen'
    <3>1. said = shown \o <<toClient.data>> => said = shown' \o <<>>
      BY ONLY <2>1, <2>4, OneShown
    <3>2. said' = said
      BY <2>1
    <3> QED  BY ONLY <3>1, <3>2, <2>2, <2>3
  <2> QED  BY <2>1, <2>2, <2>5
<1>16. CASE ClientEndsDisplay
  BY <1>16 DEF ClientEndsDisplay
<1>17. CASE UserTypes
  BY <1>17 DEF UserTypes
<1> QED
  BY <1>1, <1>2, <1>3, <1>4, <1>5, <1>6, <1>7, <1>8, <1>9, <1>10, <1>11,
     <1>12, <1>13, <1>14, <1>15, <1>16, <1>17
     DEF HostSteps, ClientSteps

LEMMA HostKeepsDir ==
  ASSUME Exchanged, Worded, calm => DirShown, HostSteps,
         calm' = (calm /\ ClientSleeps)
  PROVE  calm' => DirShown'
<1> USE WordsDiffer, LowBytes, NothingIs
    DEF Exchanged, Sound, TypesHold, Typed, BuffersTyped, RestTyped, Buffers,
        Seconds, Words, Followed, Opening, Greeted, Asking, Following, Kinds,
        Prompts, InTurn, ClientInTurn, HostInTurn, AskedInTurn, TrackedInTurn,
        Counted, Worded, Answered, Working, DirShown, ClientSleeps, hostVars,
        clientVars, HostGoes, ClientGoes, ReadyToSend, ReadyToRecv
<1>1. CASE HostStarts
  BY <1>1 DEF HostStarts, LocalSend
<1>2. CASE HostGreets
  BY <1>2 DEF HostGreets
<1>3. CASE HostIsGreeted
  BY <1>3 DEF HostIsGreeted
<1>4. CASE HostExecutes
  BY <1>4 DEF HostExecutes
<1>5. CASE HostExits
  BY <1>5 DEF HostExits
<1>6. CASE HostDrops
  BY <1>6 DEF HostDrops
<1>7. CASE HostReplies
  BY <1>7 DEF HostReplies
<1>8. CASE HostSendsPart
  BY <1>8 DEF HostSendsPart, LocalSend
<1>9. CASE HostEndsSend
  BY <1>9 DEF HostEndsSend, IsTaken
<1>10. CASE HostCalls
  BY <1>10, CallBegins DEF HostCalls
<1>11. CASE HostAnnounces
  BY <1>11 DEF HostAnnounces
<1>12. CASE HostSaysWhat
  BY <1>12 DEF HostSaysWhat
<1>13. CASE HostWritesText
  <2>1. /\ hostAt = "ask text" /\ hostAt' = "answer"
        /\ UNCHANGED <<clientVars, toHost, calls, asked>>
    BY <1>13, TextWritten
  <2>2. CASE Head(calls) = "dir"
    <3>1. toClient'.data = Data("dir", msg.of, sentDir')
      BY <1>13, <2>2, TextWritten
    <3>2. toClient'.data.n = sentDir'
      BY ONLY <3>1, DataIs
    <3> QED  BY <2>1, <2>2, <3>2
  <2>3. CASE Head(calls) # "dir"
    <3>1. sentDir' = sentDir
      BY <1>13, <2>3, TextWritten
    <3> QED  BY <2>1, <2>3, <3>1
  <2> QED  BY <2>2, <2>3
<1>14. CASE HostReadsAnswer
  <2>1. /\ hostAt = "answer" /\ hostAt' = "answered" /\ toHost.w0 # Zero
        /\ UNCHANGED <<sentDir, clientVars>>
    BY <1>14 DEF HostReadsAnswer
  <2>2. calm' => calm /\ asked = given
    BY <2>1
  <2>3. given # given + 1
    <3>1. given \in Nat
      OBVIOUS
    <3> QED  BY ONLY <3>1
  <2>4. calm' /\ sentDir > 0 => dir.n = sentDir
    BY <2>1, <2>2, <2>3
  <2> QED  BY <2>1, <2>4
<1>15. CASE HostClearsAnswer
  BY <1>15 DEF HostClearsAnswer
<1>16. CASE HostWritesPrefix
  BY <1>16 DEF HostWritesPrefix, HostWrites
<1>17. CASE HostSendsPrefix
  BY <1>17 DEF HostSendsPrefix, HostWrites
<1>18. CASE HostWritesNumbers
  BY <1>18 DEF HostWritesNumbers, HostWrites
<1>19. CASE HostSendsTrack
  BY <1>19 DEF HostSendsTrack, HostWrites
<1>20. CASE HostTracks
  BY <1>20 DEF HostTracks, HostWrites
<1>21. CASE HostEndsTrack
  BY <1>21 DEF HostEndsTrack, HostWrites
<1>22. CASE HostSeesTrackEnd
  BY <1>22 DEF HostSeesTrackEnd, HostWrites
<1>23. CASE HostClearsTrack
  BY <1>23 DEF HostClearsTrack
<1>24. CASE HostWritesDisplay
  BY <1>24 DEF HostWritesDisplay, HostWrites
<1>25. CASE HostSendsDisplay
  BY <1>25 DEF HostSendsDisplay, HostWrites
<1>26. CASE HostBeginsText
  BY <1>26 DEF HostBeginsText
<1>27. CASE HostDisplays
  BY <1>27 DEF HostDisplays
<1> QED
  BY <1>1, <1>2, <1>3, <1>4, <1>5, <1>6, <1>7, <1>8, <1>9, <1>10, <1>11,
     <1>12, <1>13, <1>14, <1>15, <1>16, <1>17, <1>18, <1>19, <1>20, <1>21,
     <1>22, <1>23, <1>24, <1>25, <1>26, <1>27
     DEF HostSteps, ClientSteps

LEMMA ClientKeepsDir ==
  ASSUME Exchanged, Worded, calm => DirShown, ClientSteps \/ UserTypes,
         calm' = (calm /\ HostSleeps)
  PROVE  calm' => DirShown'
<1> USE WordsDiffer, LowBytes, NothingIs
    DEF Exchanged, Sound, TypesHold, Typed, BuffersTyped, RestTyped, Buffers,
        Seconds, Words, Followed, Opening, Greeted, Asking, Following, Kinds,
        Prompts, InTurn, ClientInTurn, HostInTurn, AskedInTurn, TrackedInTurn,
        Counted, Worded, Answered, Working, DirShown, HostSleeps, hostVars,
        clientVars, HostGoes, ClientGoes, ReadyToSend, ReadyToRecv
<1>1. CASE ClientStarts
  BY <1>1 DEF ClientStarts
<1>2. CASE ClientGreets
  BY <1>2 DEF ClientGreets, SendLine
<1>3. CASE ClientSendsDir
  BY <1>3 DEF ClientSendsDir, SendLine
<1>4. CASE ClientIsReady
  BY <1>4 DEF ClientIsReady
<1>5. CASE ClientSends
  BY <1>5 DEF ClientSends, SendLine
<1>6. CASE ClientHears
  BY <1>6 DEF ClientHears
<1>7. CASE ClientIsDone
  BY <1>7 DEF ClientIsDone
<1>8. CASE ClientReceives
  BY <1>8 DEF ClientReceives, Handler
<1>9. CASE UserGivesPassword
  BY <1>9 DEF UserGivesPassword, ClientAnswers, SendLine
<1>10. CASE UserAnswers
  BY <1>10 DEF UserAnswers, ClientAnswers, SendLine
<1>11. CASE ClientTakesDir
  <2>1. /\ clientAt = "dir" /\ clientAt' = "recv" /\ dir' = got.data
        /\ UNCHANGED <<hostVars, toClient>>
    BY <1>11 DEF ClientTakesDir, ClientAnswers
  <2> QED  BY <2>1
<1>12. CASE ClientTracks
  BY <1>12 DEF ClientTracks
<1>13. CASE ClientEndsTrack
  BY <1>13 DEF ClientEndsTrack
<1>14. CASE ClientSeesDisplay
  BY <1>14 DEF ClientSeesDisplay
<1>15. CASE ClientShows
  BY <1>15 DEF ClientShows
<1>16. CASE ClientEndsDisplay
  BY <1>16 DEF ClientEndsDisplay
<1>17. CASE UserTypes
  BY <1>17 DEF UserTypes
<1> QED
  BY <1>1, <1>2, <1>3, <1>4, <1>5, <1>6, <1>7, <1>8, <1>9, <1>10, <1>11,
     <1>12, <1>13, <1>14, <1>15, <1>16, <1>17
     DEF HostSteps, ClientSteps

LEMMA ShownStep ==
  ASSUME Exchanged, Worded, calm => Displayed /\ DirShown, OneBlock,
         [Next]_vars
  PROVE  Worded' /\ (calm' => Displayed' /\ DirShown')
<1>1. CASE HostSteps /\ calm' = (calm /\ ClientSleeps)
  BY <1>1, WordedStep, HostKeepsDisplayed, HostKeepsDir
<1>2. CASE (ClientSteps \/ UserTypes) /\ calm' = (calm /\ HostSleeps)
  BY <1>2, WordedStep, ClientKeepsDisplayed, ClientKeepsDir
<1>3. CASE UNCHANGED vars
  <2> USE <1>3 DEF vars, hostVars, clientVars
  <2>1. Worded'
    BY DEF Worded, Greeted
  <2>2. calm' => Displayed'
    BY DEF Displayed, UnderWay, Unseen
  <2>3. calm' => DirShown'
    BY DEF DirShown
  <2> QED  BY <2>1, <2>2, <2>3
<1> QED  BY <1>1, <1>2, <1>3 DEF Next, HostRuns, ClientRuns

\* What the console has not shown of a response that was cut short is in the
\* buffer; and a text was not among it.
CutShown ==
  JustCut /\ calm =>
    /\ said = Append(shown, toClient.data) /\ toClient.w1 = "text"
    /\ sentDir > 0 => dir.n = sentDir

Heard ==
  /\ Kept /\ BlocksCounted /\ CutShown
  /\ cut = 0 => Worded /\ (calm => Displayed /\ DirShown)

\* When the response is cut short,
LEMMA HostCutsShown ==
  ASSUME Heard, HostRuns, cut = 0, CutsShort
  PROVE  CutShown'
<1>1. /\ hostAt = "end" /\ toClient.w0 = Rule
      /\ toClient'.data = toClient.data /\ toClient'.w1 = toClient.w1
      /\ UNCHANGED <<said, sentDir, shown, dir>>
  BY EndIsCut
     DEF HostRuns, CutsShort, HostEndsSend, HostGoes, clientVars, Heard, Kept,
         TypesHold, Typed, BuffersTyped, Buffers
<1> SUFFICES ASSUME calm', JustCut'
             PROVE  /\ said' = Append(shown', toClient'.data)
                    /\ toClient'.w1 = "text"
                    /\ sentDir' > 0 => dir'.n = sentDir'
  BY DEF CutShown
<1>2. calm
  BY DEF HostRuns
<1>3. /\ Exchanged /\ Worded /\ Displayed /\ DirShown /\ Greeted
      /\ InTurn /\ Opening
  BY <1>1, <1>2, HostLeavesClient
     DEF Heard, Kept, Exchanged, Sound, Answered, JustCut, TypesHold, Typed,
         RestTyped
<1>4. toClient.w1 = "text" /\ Unseen = <<toClient.data>>
  BY <1>1, <1>3, WordsDiffer DEF Worded, Unseen, Between
<1>5. UnderWay
  BY <1>1, <1>3, WordsDiffer
     DEF UnderWay, InTurn, HostInTurn, ClientInTurn, AskedInTurn,
         TrackedInTurn, Following, Kinds, Opening, Asking, Prompts
<1>6. said = shown \o <<toClient.data>>
  BY <1>3, <1>4, <1>5 DEF Displayed
<1>7. shown \in Seq(Payload) /\ toClient.data \in Payload
  BY DEF Heard, Kept, TypesHold, Typed, RestTyped, BuffersTyped, Buffers
<1>8. said = Append(shown, toClient.data)
  BY ONLY <1>6, <1>7
<1>9. sentDir > 0 => dir.n = sentDir
  BY <1>1, <1>3 DEF DirShown
<1> QED  BY <1>1, <1>4, <1>8, <1>9

\* and until the next line.
LEMMA CutShownStep ==
  ASSUME Heard, [Next]_vars
  PROVE  CutShown'
<1>1. typed \in Nat /\ cut \in 0 .. typed
  BY DEF Heard, Kept, CutInTurn, TypesHold, Typed, RestTyped
<1>2. CASE HostRuns
  <2>1. typed' = typed /\ (calm' => calm) /\ HostSteps
    BY <1>2, HostLeavesClient DEF HostRuns
  <2>2. CASE cut # 0
    <3>1. cut' = cut
      BY <1>2, <2>2 DEF HostRuns
    <3>2. ~(JustCut /\ calm)
      BY <2>1, HostListens DEF Heard, Kept, CutInTurn, JustCut
    <3> QED  BY <2>1, <3>1, <3>2 DEF CutShown, JustCut
  <2>3. CASE cut = 0 /\ ~CutsShort
    BY <1>2, <2>3 DEF HostRuns, CutShown, JustCut
  <2> QED  BY <1>2, <2>2, <2>3, HostCutsShown
<1>3. CASE ClientRuns
  <2>1. cut' = cut /\ ClientSteps /\ (calm' => calm)
    BY <1>3 DEF ClientRuns
  <2>2. JustCut /\ calm =>
          /\ UNCHANGED <<typed, hostVars, toClient, shown, dir>>
    BY <2>1, ClientIsCut, WordsDiffer
       DEF Heard, Kept, CutInTurn, JustCut, CutShown
  <2>3. typed' = typed
    BY <2>1
       DEF ClientSteps, ClientStarts, ClientGreets, ClientSendsDir,
           ClientIsReady, ClientSends, ClientHears, ClientIsDone,
           ClientReceives, UserGivesPassword, UserAnswers, ClientTakesDir,
           ClientAnswers, ClientTracks, ClientEndsTrack, ClientSeesDisplay,
           ClientShows, ClientEndsDisplay
  <2> QED
    BY <2>1, <2>2, <2>3 DEF Heard, CutShown, JustCut, hostVars
<1>4. CASE UserTypes /\ calm' = (calm /\ HostSleeps) /\ UNCHANGED cut
  <2>1. typed' = typed + 1 /\ cut' = cut
    BY <1>4 DEF UserTypes
  <2>2. ~JustCut'
    BY <1>1, <2>1 DEF JustCut
  <2> QED  BY <2>2 DEF CutShown
<1>5. CASE UNCHANGED vars
  BY <1>5 DEF vars, hostVars, clientVars, Heard, CutShown, JustCut
<1> QED  BY <1>2, <1>3, <1>4, <1>5 DEF Next

LEMMA HeardStep ==
  ASSUME Heard, [Next]_vars, Blocks = 1
  PROVE  Heard'
<1>1. Kept' /\ CutShown'
  BY KeptStep, CutShownStep DEF Heard
<1>2. BlocksCounted'
  BY BlocksCountedStep DEF Heard, Kept
<1>3. ASSUME cut' = 0
      PROVE  Worded' /\ (calm' => Displayed' /\ DirShown')
  <2>1. cut = 0 /\ Exchanged
    BY <1>3, NoneIsCut DEF Heard
  <2>2. Worded /\ (calm => Displayed /\ DirShown)
    BY <2>1 DEF Heard
  <2>3. OneBlock
    BY DEF Heard, BlocksCounted, OneBlock, IsLaterBlock
  <2> QED  BY <2>1, <2>2, <2>3, ShownStep
<1> QED  BY <1>1, <1>2, <1>3 DEF Heard

\* As long as no process is interrupted between two sleeps, the user who is
\* asked for something, or for the next line, has seen what the host said of
\* the command, in order and whole; and the line begins with the directory
\* that the host sent last.  Of the first response that is cut short the last
\* part alone is missing, and no more is said of the lines after it.  If what
\* ClientDisplay sends is one block, for the last of several may be written
\* over while the console sleeps.
THEOREM RepliesAreAllShown ==
  ASSUME Blocks = 1
  PROVE  Spec => []RepliesAreShown
<1>1. Init => Heard
  <2>1. Init => Worded
    BY WordsDiffer, NothingIs DEF Init, Worded, Greeted
  <2>2. Init => Displayed /\ DirShown
    BY WordsDiffer DEF Init, Displayed, DirShown, UnderWay, Following, Kinds
  <2>3. Init => BlocksCounted
    BY NothingIs DEF Init, BlocksCounted
  <2>4. Init => CutShown
    BY DEF Init, CutShown, JustCut
  <2> QED  BY <2>1, <2>2, <2>3, <2>4, KeptInit DEF Heard
<1>2. Heard /\ [Next]_vars => Heard'
  BY HeardStep
<1>3. Heard => RepliesAreShown
  <2> SUFFICES ASSUME Heard, calm, Uncut, typed > 0,
                      clientAt \in {"prompt", "password", "query"}
               PROVE  /\ msg.of = typed
                      /\ said = IF cut = typed
                                  THEN Append(shown, toClient.data) ELSE shown
                      /\ clientAt = "prompt" /\ sentDir > 0 => dir.n = sentDir
    BY DEF RepliesAreShown
  <2>1. cut = 0 \/ JustCut
    BY UncutIs DEF Heard, Kept
  <2>2. CASE JustCut
    BY <2>2 DEF Heard, Kept, CutInTurn, CutShown, JustCut
  <2>3. CASE cut = 0
    <3>1. cut # typed
      BY <2>3 DEF Heard, Kept, TypesHold, Typed, RestTyped
    <3>2. Exchanged /\ Worded /\ Displayed /\ DirShown
      BY <2>3 DEF Heard, Kept
    <3> USE DEF Exchanged, Sound, Answered
    <3>3. Greeted /\ msg.of = typed
      BY <3>2 DEF Opening, InTurn, ClientInTurn, Following, Kinds
    <3>4. clientAt = "prompt" =>
            hostAt \in {"listen", "end"} /\ toClient.w0 = Zero
      BY <3>2, <3>3 DEF InTurn, ClientInTurn
    <3>5. clientAt # "prompt" =>
            /\ hostAt = "answer" /\ toClient.w0 = Zero
            /\ toClient.w1 = clientAt
      BY <3>2, <3>3 DEF InTurn, AskedInTurn, Prompts
    <3>6. Unseen = <<>>
      BY <3>2, <3>4, <3>5 DEF Displayed, Unseen, Between
    <3>7. said = shown \o <<>>
      BY <3>2, <3>6 DEF Displayed, UnderWay, Following, Kinds
    <3>8. said = shown
      <4>1. shown \in Seq(Payload)
        BY <3>2 DEF TypesHold, Typed, RestTyped
      <4> QED  BY ONLY <4>1, <3>7
    <3>9. clientAt = "prompt" /\ sentDir > 0 => dir.n = sentDir
      BY <3>2, <3>4 DEF DirShown
    <3> QED  BY <3>1, <3>3, <3>8, <3>9
  <2> QED  BY <2>1, <2>2, <2>3
<1> QED  BY <1>1, <1>2, <1>3, PTL DEF Spec

-----------------------------------------------------------------------------
(* Someone goes on *)

\* After a text of ClientDisplay the command asks for something or begins a
\* transfer.
GoesOnShowing(s) ==
  \A i \in 1 .. Len(s) : s[i] = "display" => i < Len(s) /\ s[i + 1] # "display"

\* So do all commands: the console shows a text until the next message, and
\* a response that finds it at that is dropped.  The one caller asks for a
\* password next (FileSharingHostTask.cpp, 221).
DisplayIsFollowed ==
  \A c \in DOMAIN CallsOf : \A s \in CallsOf[c] : GoesOnShowing(s)

\* Where a process waits for what only the other one can do, or has stopped;
\* the console at its prompt waits for the user.
HostWaits ==
  \/ hostAt = "greeting" /\ ~LowByteIsZero(toClient.w0)
  \/ hostAt \in {"listen", "answer", "track over"} /\ ~ReadyToRecv(toHost)
  \/ /\ hostAt \in {"reply", "ask", "track", "numbers", "display"}
     /\ ~ReadyToSend(toClient)
  \/ hostAt = "end" /\ ~IsTaken(toClient)
  \/ hostAt = "tracking" /\ toHost.w0 # Max16
  \/ hostAt = "track end" /\ toHost.w0 # One
  \/ hostAt = "text" /\ toClient.data # Nothing
  \/ hostAt = "gone"

ClientWaits ==
  \/ clientAt \in {"off", "prompt", "gone"}
  \/ clientAt \in {"cd", "ready"} /\ ~ReadyToSend(toHost)
  \/ clientAt \in {"cd reply", "sent"} /\ ~ReadyToRecv(toClient)
  \/ clientAt = "recv" /\ toClient.open /\ ~ReadyToRecv(toClient)
  \/ clientAt = "tracks" /\ toClient.w1 = "track"
  \/ clientAt = "display" /\ toClient.w1 # "display"
  \/ /\ clientAt = "displays" /\ toClient.w1 = "display"
     /\ toClient.data = Nothing

\* The two wait for each other only where the console is at its prompt or has
\* quit, or was given an empty answer, which is no message: up to the line that
\* is typed after the first response that was cut short.
SomeoneGoesOn ==
  calm /\ Uncut /\ HostWaits /\ ClientWaits =>
    clientAt \in {"prompt", "gone"} \/ toHost.data.kind = "empty"

\* A text to show is the call in hand, and not the last one.
Showing ==
  /\ GoesOnShowing(calls)
  /\ hostAt \in {"display", "display written", "display sent", "text"} =>
       Head(calls) = "display"

\* Between two calls nothing is in the buffer but a text to show.
CallReady ==
  /\ hostAt = "call" =>
       IF toClient.w1 = "display" THEN calls # <<>> /\ Head(calls) # "display"
                                  ELSE toClient.w0 = Zero
  /\ hostAt \in {"answered", "track over"} => toClient.w0 = Zero
  /\ hostAt = "track over" => toHost.w0 = One

\* A question that the console has taken and left is answered.
AnswerDue ==
  hostAt = "answer" /\ toClient.w0 # Max16 /\ clientAt \notin Prompts =>
    toHost.w0 # Zero \/ toHost.data.kind = "empty"

\* The console is told to follow a transfer, and tells when it is over.
TrackDue ==
  /\ hostAt = "tracking" =>
       toClient.w0 = Max16 \/ clientAt \in {"track", "tracks"}
  /\ hostAt = "track end" => clientAt = "tracks" \/ toHost.w0 = One

\* The console is told to show a text, and leaves its loop before it is asked
\* anything else.
TextDue ==
  /\ toClient.w1 = "display" =>
       hostAt \in {"display written", "display sent", "text", "call", "ask",
                   "ask code", "track"}
  /\ hostAt = "display sent" => toClient.w0 = Max16
  /\ hostAt = "text" =>
       /\ toClient.w1 = "display"
       /\ toClient.w0 = Max16 \/ clientAt \in {"display", "displays"}
  /\ clientAt \in {"display", "displays"} =>
       \/ /\ toClient.w1 = "display" /\ toClient.w0 = Zero
          /\ hostAt \in {"text", "call", "ask", "track"}
       \/ toClient.w1 = "display" /\ hostAt = "ask code"
       \/ /\ clientAt = "displays" /\ toClient.w1 # "display"
          /\ \/ hostAt = "prefix written"
             \/ /\ toClient.w0 = Max16
                /\ hostAt \in {"ask text", "answer", "numbers"}

\* A line that was sent is answered by something the console hears, and the
\* end mark is down when the host is done with it.
LineDue ==
  /\ hostAt = "listen" /\ clientAt \in Following => ~toClient.open
  /\ clientAt = "sent" /\ toHost.w0 = Zero =>
       /\ hostAt # "listen"
       /\ hostAt = "end" \/ (hostAt = "reply" /\ part > 0) =>
            toClient.w0 # Zero

Awaited ==
  clientAt # "gone" => CallReady /\ AnswerDue /\ TrackDue /\ TextDue /\ LineDue

\* What is used of sequences.
LEMMA HeadIs ==
  ASSUME NEW S, NEW s \in Seq(S), Len(s) > 0
  PROVE  s # <<>> /\ Head(s) = s[1]
OBVIOUS

LEMMA ShowingStep ==
  ASSUME DisplayIsFollowed, TypesHold, Showing, [Next]_vars
  PROVE  Showing'
<1>1. GoesOnShowing(<<>>)
  BY DEF GoesOnShowing
<1>2. calls \in Seq(Kinds)
  BY DEF TypesHold, Typed, RestTyped
<1>3. calls # <<>> => GoesOnShowing(Tail(calls))
  <2> SUFFICES ASSUME calls # <<>>, NEW i \in 1 .. Len(Tail(calls)),
                      Tail(calls)[i] = "display"
               PROVE  /\ i < Len(Tail(calls))
                      /\ Tail(calls)[i + 1] # "display"
    BY DEF GoesOnShowing
  <2>1. /\ Len(Tail(calls)) = Len(calls) - 1 /\ Len(calls) \in Nat
        /\ \A j \in 1 .. Len(calls) - 1 : Tail(calls)[j] = calls[j + 1]
    BY <1>2
  <2>2. i + 1 \in 1 .. Len(calls) /\ calls[i + 1] = "display"
    BY <2>1
  <2>3. i + 1 < Len(calls) /\ calls[(i + 1) + 1] # "display"
    BY <2>2 DEF Showing, GoesOnShowing
  <2> HIDE DEF Showing
  <2> QED  BY <2>1, <2>3
<1>4. GoesOnShowing(calls')
  <2>1. CASE HostExecutes
    <3>1. calls' \in CallsFor(msg')
      BY <2>1 DEF HostExecutes
    <3> QED  BY <1>1, <3>1 DEF CallsFor, DisplayIsFollowed
  <2>2. CASE calls' \in {calls, Tail(calls)} /\ (calls' # calls => calls # <<>>)
    BY <1>3, <2>2 DEF Showing
  <2>3. CASE HostClearsAnswer \/ HostClearsTrack \/ HostDisplays
    <3>1. calls # <<>>
      BY <2>3 DEF HostClearsAnswer, HostClearsTrack, HostDisplays, HostGoes,
                  TypesHold, PartsLeft
    <3>2. calls' \in {calls, Tail(calls)}
      BY <2>3 DEF HostClearsAnswer, HostClearsTrack, HostDisplays
    <3> QED  BY <2>2, <3>1, <3>2
  <2>4. CASE /\ HostSteps
             /\ ~HostExecutes /\ ~HostClearsAnswer /\ ~HostClearsTrack
             /\ ~HostDisplays
    <3>1. calls' = calls
      BY <2>4 DEF HostSteps, HostStarts, HostGreets, HostIsGreeted, HostExits,
           HostDrops, HostReplies, HostSendsPart, HostEndsSend, HostCalls,
           HostAnnounces, HostSaysWhat, HostWritesText, HostReadsAnswer,
           HostWritesPrefix, HostSendsPrefix, HostWritesNumbers,
           HostSendsTrack, HostTracks, HostEndsTrack, HostSeesTrackEnd,
           HostWritesDisplay, HostSendsDisplay, HostBeginsText, HostWrites
    <3> QED  BY <2>2, <3>1
  <2>5. CASE ClientSteps \/ UserTypes \/ UNCHANGED vars
    <3>1. calls' = calls
      BY <2>5, ClientLeavesHost DEF vars, hostVars
    <3> QED  BY <2>2, <3>1
  <2> QED  BY <2>1, <2>3, <2>4, <2>5 DEF Next, HostRuns, ClientRuns
<1>5. ASSUME hostAt' \in {"display", "display written", "display sent", "text"}
      PROVE  Head(calls') = "display"
  <2>1. CASE HostSteps
    <3>1. CASE HostCalls
      <4>1. calls # <<>> /\ hostAt' = Waiting(Head(calls)) /\ calls' = calls
        BY <3>1 DEF HostCalls
      <4>2. Head(calls) \in Kinds
        BY <1>2, <4>1, NextCall
      <4> QED  BY <1>5, <4>1, <4>2 DEF Waiting, Prompts, Kinds
    <3>2. CASE ~HostCalls
      <4>1. hostAt \in {"display", "display written", "display sent", "text"}
            /\ (hostAt' # "call" => calls' = calls)
        BY <1>5, <2>1, <3>2
           DEF HostSteps, HostStarts, HostGreets, HostIsGreeted, HostExecutes,
               HostExits, HostDrops, HostReplies, HostSendsPart, HostEndsSend,
               HostAnnounces, HostSaysWhat, HostWritesText, HostReadsAnswer,
               HostClearsAnswer, HostWritesPrefix, HostSendsPrefix,
               HostWritesNumbers, HostSendsTrack, HostTracks, HostEndsTrack,
               HostSeesTrackEnd, HostClearsTrack, HostWritesDisplay,
               HostSendsDisplay, HostBeginsText, HostDisplays, HostWrites,
               HostGoes
      <4> QED  BY <1>5, <4>1 DEF Showing
    <3> QED  BY <3>1, <3>2
  <2>2. CASE ClientSteps \/ UserTypes \/ UNCHANGED vars
    <3>1. calls' = calls /\ hostAt' = hostAt
      BY <2>2, ClientLeavesHost DEF vars, hostVars
    <3> QED  BY <1>5, <3>1 DEF Showing
  <2> QED  BY <2>1, <2>2 DEF Next, HostRuns, ClientRuns
<1> QED  BY <1>4, <1>5 DEF Showing

LEMMA HostKeepsAwaited ==
  ASSUME Exchanged, Worded, Showing, calm => Awaited, HostSteps,
         Greeted => ~CutsShort, calm' = (calm /\ ClientSleeps)
  PROVE  calm' => Awaited'
<1> USE WordsDiffer, LowBytes
    DEF Exchanged, Sound, TypesHold, Typed, BuffersTyped, RestTyped, PartsLeft,
        Buffers, Seconds, Words, Followed, Opening, Greeted, Asking, Working,
        Following, Kinds, Prompts, InTurn, ClientInTurn, HostInTurn,
        AskedInTurn, TrackedInTurn, Counted, Answered, Worded, Awaited,
        CallReady, AnswerDue, TrackDue, TextDue, LineDue, ClientSleeps,
        hostVars, clientVars, HostGoes, ClientGoes, ReadyToSend, ReadyToRecv
<1>1. CASE HostStarts
  BY <1>1 DEF HostStarts, LocalSend
<1>2. CASE HostGreets
  BY <1>2 DEF HostGreets
<1>3. CASE HostIsGreeted
  BY <1>3 DEF HostIsGreeted
<1>4. CASE HostExecutes
  BY <1>4 DEF HostExecutes
<1>5. CASE HostExits
  BY <1>5 DEF HostExits
<1>6. CASE HostDrops
  BY <1>6 DEF HostDrops
<1>7. CASE HostReplies
  <2>1. hostAt = "call" /\ part = 0 /\ ~(part > 0)
    <3>1. hostAt = "call" /\ part = 0
      BY <1>7 DEF HostReplies, PartsLeft
    <3> QED  BY ONLY <3>1
  <2>2. /\ hostAt' = "reply" /\ calls = <<>> /\ toClient.w0 = Zero
        /\ toClient' = [toClient EXCEPT !.open = TRUE]
        /\ UNCHANGED <<toHost, part, calls, clientVars>>
    BY <1>7 DEF HostReplies
  <2>3. calm /\ clientAt # "gone" => toClient.w1 # "display"
    BY <2>1, <2>2
  <2> QED  BY <2>1, <2>2, <2>3
<1>8. CASE HostSendsPart
  <2>1. toClient.w0 = Zero /\ hostAt = "reply" /\ part' = part + 1
    BY <1>8 DEF HostSendsPart
  <2>2. /\ reply[part + 1] \in {Zero, Ascii, Rule}
        /\ part = 0 => reply[part + 1] # Zero
    BY <2>1, PartFacts
  <2>3. \/ reply[part + 1] = Zero /\ toClient' = toClient
        \/ toClient'.w0 = reply[part + 1] /\ toClient'.w1 = "text"
    BY <1>8, <2>1 DEF HostSendsPart, LocalSend
  <2>4. /\ hostAt' \in {"reply", "end"} /\ toClient'.open = toClient.open
        /\ UNCHANGED <<toHost, msg, calls, reply, greeting, clientVars>>
    BY <1>8, <2>1 DEF HostSendsPart, LocalSend
  <2>5. part = 0 => toClient'.w0 # Zero
    BY <2>2, <2>3
  <2>6. part # 0 /\ calm' => ~(clientAt = "sent" /\ toHost.w0 = Zero)
    <3>1. part # 0 => part > 0
      <4>1. part \in Nat
        BY DEF RestTyped
      <4> QED  BY ONLY <4>1
    <3> QED
      BY ONLY <2>1, <3>1, calm' = (calm /\ ClientSleeps), calm => Awaited,
              WordsDiffer
         DEF Awaited, LineDue
  <2> QED  BY <2>1, <2>3, <2>4, <2>5, <2>6
<1>9. CASE HostEndsSend
  BY <1>9 DEF HostEndsSend, IsTaken, CutsShort
<1>10. CASE HostCalls
  <2>1. /\ hostAt = "call" /\ calls # <<>>
        /\ hostAt' \in {"ask", "track", "display"}
        /\ hostAt' = Waiting(Head(calls))
        /\ hostAt' = "ask" => Head(calls) \in Prompts
    BY <1>10, CallBegins DEF HostCalls
  <2>2. calm /\ clientAt # "gone" /\ toClient.w1 = "display" =>
          hostAt' # "display"
    <3>1. Head(calls) \in Kinds
      BY <2>1, NextCall
    <3>2. calm /\ clientAt # "gone" /\ toClient.w1 = "display" =>
            Head(calls) # "display"
      BY <2>1
    <3> QED  BY ONLY <2>1, <3>1, <3>2 DEF Waiting, Kinds, Prompts
  <2>3. /\ toClient' = [toClient EXCEPT !.open = TRUE]
        /\ UNCHANGED <<toHost, msg, calls, reply, part, asked, greeting,
                       clientVars>>
    BY <1>10 DEF HostCalls
  <2> QED  BY <2>1, <2>2, <2>3
<1>11. CASE HostAnnounces
  BY <1>11 DEF HostAnnounces
<1>12. CASE HostSaysWhat
  BY <1>12 DEF HostSaysWhat
<1>13. CASE HostWritesText
  BY <1>13, TextWritten
<1>14. CASE HostReadsAnswer
  BY <1>14 DEF HostReadsAnswer
<1>15. CASE HostClearsAnswer
  BY <1>15 DEF HostClearsAnswer
<1>16. CASE HostWritesPrefix
  BY <1>16 DEF HostWritesPrefix, HostWrites
<1>17. CASE HostSendsPrefix
  BY <1>17 DEF HostSendsPrefix, HostWrites
<1>18. CASE HostWritesNumbers
  BY <1>18 DEF HostWritesNumbers, HostWrites
<1>19. CASE HostSendsTrack
  BY <1>19 DEF HostSendsTrack, HostWrites
<1>20. CASE HostTracks
  BY <1>20 DEF HostTracks, HostWrites
<1>21. CASE HostEndsTrack
  BY <1>21 DEF HostEndsTrack, HostWrites
<1>22. CASE HostSeesTrackEnd
  BY <1>22 DEF HostSeesTrackEnd, HostWrites
<1>23. CASE HostClearsTrack
  BY <1>23 DEF HostClearsTrack
<1>24. CASE HostWritesDisplay
  BY <1>24 DEF HostWritesDisplay, HostWrites
<1>25. CASE HostSendsDisplay
  BY <1>25 DEF HostSendsDisplay, HostWrites
<1>26. CASE HostBeginsText
  BY <1>26 DEF HostBeginsText
<1>27. CASE HostDisplays
  <2>1. calls # <<>> /\ Head(calls) = "display" /\ calls \in Seq(Kinds)
    BY <1>27 DEF HostDisplays, Showing
  <2>2. Len(calls) \in Nat /\ Len(calls) > 0 /\ calls[1] = "display"
    BY ONLY <2>1
  <2>3. Tail(calls) # <<>> /\ Head(Tail(calls)) # "display"
    <3>1. 1 \in 1 .. Len(calls)
      BY ONLY <2>2
    <3>2. 1 < Len(calls) /\ calls[1 + 1] # "display"
      BY ONLY Showing, <2>2, <3>1 DEF Showing, GoesOnShowing
    <3>3. Len(Tail(calls)) = Len(calls) - 1 /\ Tail(calls)[1] = calls[1 + 1]
      BY ONLY <2>1, <2>2, <3>2
    <3>4. Tail(calls) \in Seq(Kinds)
      BY ONLY <2>1, <2>2, NextCall
    <3>5. Tail(calls) # <<>> /\ Head(Tail(calls)) = Tail(calls)[1]
      BY ONLY <2>2, <3>2, <3>3, <3>4, HeadIs
    <3> QED  BY ONLY <3>2, <3>3, <3>5
  <2>4. /\ hostAt = "text" /\ hostAt' \in {"text", "call"}
        /\ hostAt' = "call" => calls' = Tail(calls)
        /\ toClient' = [toClient EXCEPT !.data =
                         Data("display", msg.of, left)]
        /\ UNCHANGED <<toHost, msg, reply, part, asked, greeting, clientVars>>
    BY <1>27 DEF HostDisplays
  <2> QED  BY <2>3, <2>4
<1> QED
  BY <1>1, <1>2, <1>3, <1>4, <1>5, <1>6, <1>7, <1>8, <1>9, <1>10, <1>11,
     <1>12, <1>13, <1>14, <1>15, <1>16, <1>17, <1>18, <1>19, <1>20, <1>21,
     <1>22, <1>23, <1>24, <1>25, <1>26, <1>27
     DEF HostSteps, ClientSteps

LEMMA ClientKeepsAwaited ==
  ASSUME Exchanged, Worded, Showing, calm => Awaited,
         ClientSteps \/ UserTypes, calm' = (calm /\ HostSleeps)
  PROVE  calm' => Awaited'
<1> USE WordsDiffer, LowBytes
    DEF Exchanged, Sound, TypesHold, Typed, BuffersTyped, RestTyped, PartsLeft,
        Buffers, Seconds, Words, Followed, Opening, Greeted, Asking, Working,
        Following, Kinds, Prompts, InTurn, ClientInTurn, HostInTurn,
        AskedInTurn, TrackedInTurn, Counted, Answered, Worded, Awaited,
        CallReady, AnswerDue, TrackDue, TextDue, LineDue, HostSleeps,
        hostVars, clientVars, HostGoes, ClientGoes, ReadyToSend, ReadyToRecv
<1>1. CASE ClientStarts
  BY <1>1 DEF ClientStarts
<1>2. CASE ClientGreets
  BY <1>2 DEF ClientGreets, SendLine
<1>3. CASE ClientSendsDir
  BY <1>3 DEF ClientSendsDir, SendLine
<1>4. CASE ClientIsReady
  BY <1>4 DEF ClientIsReady
<1>5. CASE ClientSends
  <2>1. clientAt = "ready" /\ toHost.w0 = Zero
    BY <1>5 DEF ClientSends
  <2>2. calm => line.kind \in DOMAIN CallsOf \cup {"quit"}
    BY <2>1
  <2>3. calm => line.kind # "empty"
    BY <2>2, LocalConnectionAssumption DEF OtherData
  <2>4. calm => toHost'.w0 = Ascii
    BY <1>5, <2>1, <2>3 DEF ClientSends, SendLine
  <2>5. /\ clientAt' \in {"sent", "gone"}
        /\ UNCHANGED <<toClient, hostVars>>
    BY <1>5 DEF ClientSends
  <2> QED  BY <2>1, <2>4, <2>5
<1>6. CASE ClientHears
  BY <1>6 DEF ClientHears
<1>7. CASE ClientIsDone
  BY <1>7 DEF ClientIsDone
<1>8. CASE ClientReceives
  BY <1>8 DEF ClientReceives, Handler
<1>9. CASE UserGivesPassword
  <2>1. PICK kind \in {"password", "empty"} :
               ClientAnswers("password", Data(kind, typed, given + 1))
    BY <1>9 DEF UserGivesPassword
  <2>2. calm /\ calm' => toHost.w0 = Zero
    BY <2>1 DEF ClientAnswers
  <2>3. calm /\ calm' => toHost'.w0 # Zero \/ toHost'.data.kind = "empty"
    BY <2>2, <2>1, DataIs DEF ClientAnswers, SendLine
  <2>4. /\ clientAt = "password" /\ clientAt' = "recv"
        /\ UNCHANGED <<toClient, hostVars>>
    BY <2>1 DEF ClientAnswers
  <2> QED  BY <2>3, <2>4
<1>10. CASE UserAnswers
  <2>1. PICK kind \in {"query", "empty"} :
               ClientAnswers("query", Data(kind, typed, given + 1))
    BY <1>10 DEF UserAnswers
  <2>2. calm /\ calm' => toHost.w0 = Zero
    BY <2>1 DEF ClientAnswers
  <2>3. calm /\ calm' => toHost'.w0 # Zero \/ toHost'.data.kind = "empty"
    BY <2>2, <2>1, DataIs DEF ClientAnswers, SendLine
  <2>4. /\ clientAt = "query" /\ clientAt' = "recv"
        /\ UNCHANGED <<toClient, hostVars>>
    BY <2>1 DEF ClientAnswers
  <2> QED  BY <2>3, <2>4
<1>11. CASE ClientTakesDir
  BY <1>11 DEF ClientTakesDir, ClientAnswers, SendLine
<1>12. CASE ClientTracks
  BY <1>12 DEF ClientTracks
<1>13. CASE ClientEndsTrack
  BY <1>13 DEF ClientEndsTrack
<1>14. CASE ClientSeesDisplay
  BY <1>14 DEF ClientSeesDisplay
<1>15. CASE ClientShows
  BY <1>15 DEF ClientShows
<1>16. CASE ClientEndsDisplay
  BY <1>16 DEF ClientEndsDisplay
<1>17. CASE UserTypes
  BY <1>17 DEF UserTypes
<1> QED
  BY <1>1, <1>2, <1>3, <1>4, <1>5, <1>6, <1>7, <1>8, <1>9, <1>10, <1>11,
     <1>12, <1>13, <1>14, <1>15, <1>16, <1>17
     DEF HostSteps, ClientSteps

LEMMA AwaitedInit == Init => Showing /\ Awaited
<1>1. GoesOnShowing(<<>>)
  BY DEF GoesOnShowing
<1> QED
  BY <1>1, WordsDiffer
     DEF Init, Showing, Awaited, CallReady, AnswerDue, TrackDue, TextDue,
         LineDue, Following, Kinds

LEMMA WordedKept ==
  ASSUME Exchanged, Worded, [Next]_vars
  PROVE  Worded'
<1>1. CASE HostSteps \/ ClientSteps \/ UserTypes
  BY <1>1, WordedStep
<1>2. CASE UNCHANGED vars
  BY <1>2 DEF vars, hostVars, clientVars, Worded, Greeted
<1> QED  BY <1>1, <1>2 DEF Next, HostRuns, ClientRuns

LEMMA AwaitedStep ==
  ASSUME Exchanged, Worded, Showing, calm => Awaited,
         HostRuns /\ Greeted => ~CutsShort, [Next]_vars
  PROVE  calm' => Awaited'
<1>1. CASE HostRuns
  BY <1>1, HostKeepsAwaited DEF HostRuns
<1>2. CASE (ClientSteps \/ UserTypes) /\ calm' = (calm /\ HostSleeps)
  BY <1>2, ClientKeepsAwaited
<1>3. CASE UNCHANGED vars
  BY <1>3 DEF vars, hostVars, clientVars, Awaited, CallReady, AnswerDue,
              TrackDue, TextDue, LineDue
<1> QED  BY <1>1, <1>2, <1>3 DEF Next, HostRuns, ClientRuns

LEMMA NotBothWait ==
  ASSUME Exchanged, Worded, Awaited, calm
  PROVE  HostWaits /\ ClientWaits =>
           clientAt \in {"prompt", "gone"} \/ toHost.data.kind = "empty"
<1> SUFFICES ASSUME HostWaits, ClientWaits,
                    clientAt \notin {"prompt", "gone"},
                    toHost.data.kind # "empty"
             PROVE  FALSE
  OBVIOUS
<1>1. Awaited /\ Answered /\ Counted /\ Opening /\ (Greeted => InTurn)
  BY DEF Exchanged, Sound
<1>2. toClient.w0 \in Words
  BY DEF Exchanged, Sound, TypesHold, Typed, BuffersTyped, Buffers
<1> USE <1>1, <1>2, WordsDiffer, LowBytes
    DEF Awaited, CallReady, AnswerDue, TrackDue, TextDue, LineDue, Answered,
        Counted, Opening, InTurn, ClientInTurn, HostInTurn, AskedInTurn,
        TrackedInTurn, Asking, Following, Kinds, Prompts, Idle, Reading,
        Words, ReadyToSend, ReadyToRecv, ClientWaits
<1>3. CASE hostAt = "greeting" /\ ~LowByteIsZero(toClient.w0)
  BY <1>3
<1>4. CASE hostAt = "listen" /\ ~ReadyToRecv(toHost)
  BY <1>4
<1>5. CASE hostAt = "answer" /\ ~ReadyToRecv(toHost)
  BY <1>5
<1>6. CASE hostAt = "track over" /\ ~ReadyToRecv(toHost)
  BY <1>6
<1>7. CASE /\ hostAt \in {"reply", "ask", "track", "numbers", "display"}
           /\ ~ReadyToSend(toClient)
  BY <1>7
<1>8. CASE hostAt = "end" /\ ~IsTaken(toClient)
  BY <1>8 DEF IsTaken
<1>9. CASE hostAt = "tracking" /\ toHost.w0 # Max16
  BY <1>9
<1>10. CASE hostAt = "track end" /\ toHost.w0 # One
  BY <1>10
<1>11. CASE hostAt = "text" /\ toClient.data # Nothing
  BY <1>11
<1>12. CASE hostAt = "gone"
  BY <1>12
<1> QED
  BY ONLY HostWaits, <1>3, <1>4, <1>5, <1>6, <1>7, <1>8, <1>9, <1>10, <1>11,
          <1>12
     DEF HostWaits

\* After a response that is cut short the console has nothing to wait for.
CutOver == JustCut /\ calm => clientAt \in {"sent", "recv", "prompt"}

GoesOn ==
  /\ Kept /\ CutOver /\ Showing
  /\ cut = 0 => Worded /\ (calm => Awaited)

LEMMA CutOverStep ==
  ASSUME GoesOn, [Next]_vars
  PROVE  CutOver'
<1>1. typed \in Nat /\ cut \in 0 .. typed
  BY DEF GoesOn, Kept, CutInTurn, TypesHold, Typed, RestTyped
<1>2. CASE HostRuns
  <2>1. /\ typed' = typed /\ (hostAt # "start" => clientAt' = clientAt)
        /\ (calm' => calm) /\ HostSteps
    BY <1>2, HostLeavesClient DEF HostRuns
  <2>2. CASE cut # 0
    <3>1. cut' = cut /\ hostAt # "start"
      BY <1>2, <2>2 DEF HostRuns, GoesOn, Kept, CutInTurn
    <3>2. ~(JustCut /\ calm)
      BY <2>1, HostListens DEF GoesOn, Kept, CutInTurn, JustCut
    <3> QED  BY <2>1, <3>1, <3>2 DEF CutOver, JustCut
  <2>3. CASE cut = 0 /\ ~CutsShort
    BY <1>2, <2>3 DEF HostRuns, CutOver, JustCut
  <2>4. CASE cut = 0 /\ CutsShort
    <3> SUFFICES ASSUME calm
                 PROVE  clientAt \in {"sent", "recv", "prompt"}
      BY <2>1, <2>4 DEF CutOver, CutsShort
    <3>1. /\ CutInTurn' /\ hostAt = "end" /\ Greeted /\ Exchanged /\ Awaited
          /\ toClient.w0 = Rule
      BY <1>2, <2>4, HostCuts
         DEF GoesOn, Kept, CutsShort, Exchanged, Answered
    <3> QED
      BY <3>1, WordsDiffer
         DEF Exchanged, Sound, InTurn, HostInTurn, ClientInTurn, AskedInTurn,
             TrackedInTurn, Awaited, TextDue, Prompts, Opening, Asking,
             Following, Kinds
  <2> QED  BY <2>2, <2>3, <2>4
<1>3. CASE ClientRuns
  <2>1. cut' = cut /\ ClientSteps /\ (calm' => calm)
    BY <1>3 DEF ClientRuns
  <2>2. CASE JustCut /\ calm
    <3>1. clientAt \in {"sent", "recv", "prompt"} /\ ~toClient.open
      BY <2>2 DEF GoesOn, CutOver, Kept, CutInTurn, JustCut
    <3> QED
      BY <2>1, <3>1
         DEF CutOver, ClientSteps, ClientStarts, ClientGreets, ClientSendsDir,
             ClientIsReady, ClientSends, ClientHears, ClientIsDone,
             ClientReceives, UserGivesPassword, UserAnswers, ClientTakesDir,
             ClientAnswers, ClientTracks, ClientEndsTrack, ClientSeesDisplay,
             ClientShows, ClientEndsDisplay, ClientGoes
  <2>3. typed' = typed
    BY <2>1
       DEF ClientSteps, ClientStarts, ClientGreets, ClientSendsDir,
           ClientIsReady, ClientSends, ClientHears, ClientIsDone,
           ClientReceives, UserGivesPassword, UserAnswers, ClientTakesDir,
           ClientAnswers, ClientTracks, ClientEndsTrack, ClientSeesDisplay,
           ClientShows, ClientEndsDisplay
  <2> QED  BY <2>1, <2>2, <2>3 DEF CutOver, JustCut
<1>4. CASE UserTypes /\ calm' = (calm /\ HostSleeps) /\ UNCHANGED cut
  <2>1. typed' = typed + 1 /\ cut' = cut
    BY <1>4 DEF UserTypes
  <2> QED  BY <1>1, <2>1 DEF CutOver, JustCut
<1>5. CASE UNCHANGED vars
  BY <1>5 DEF vars, hostVars, clientVars, GoesOn, CutOver, JustCut
<1> QED  BY <1>2, <1>3, <1>4, <1>5 DEF Next

LEMMA GoesOnStep ==
  ASSUME DisplayIsFollowed, GoesOn, [Next]_vars
  PROVE  GoesOn'
<1>1. Kept' /\ CutOver'
  BY KeptStep, CutOverStep DEF GoesOn
<1>2. Showing'
  BY ShowingStep DEF GoesOn, Kept
<1>3. ASSUME cut' = 0
      PROVE  Worded' /\ (calm' => Awaited')
  <2>1. cut = 0 /\ Exchanged /\ (HostRuns /\ Greeted => ~CutsShort)
    BY <1>3, NoneIsCut DEF GoesOn
  <2>2. Worded /\ Showing /\ (calm => Awaited)
    BY <2>1 DEF GoesOn
  <2> QED  BY <2>1, <2>2, WordedKept, AwaitedStep
<1> QED  BY <1>1, <1>2, <1>3 DEF GoesOn

\* As long as no process is interrupted between two sleeps, and up to the line
\* after the first response that is cut short, host and console never wait for
\* each other, but for the console at its prompt and an empty password or
\* answer (the loops of FileSharingHost.cpp, 130-332 and 618-685, and of
\* FileSharingClient.cpp, 120-279): however long the responses and the texts
\* shown are.  If no text is shown last or before another text.
THEOREM SomeoneAlwaysGoesOn ==
  ASSUME DisplayIsFollowed
  PROVE  Spec => []SomeoneGoesOn
<1>1. Init => GoesOn
  BY KeptInit, AwaitedInit, WordsDiffer, NothingIs
     DEF Init, Worded, Greeted, GoesOn, CutOver, JustCut
<1>2. GoesOn /\ [Next]_vars => GoesOn'
  BY GoesOnStep
<1>3. GoesOn => SomeoneGoesOn
  <2> SUFFICES ASSUME GoesOn, calm, Uncut, HostWaits, ClientWaits
               PROVE  \/ clientAt \in {"prompt", "gone"}
                      \/ toHost.data.kind = "empty"
    BY DEF SomeoneGoesOn
  <2>1. CASE cut = 0
    BY <2>1, NotBothWait DEF GoesOn, Kept
  <2>2. CASE JustCut
    <3>1. /\ clientAt \in {"sent", "recv", "prompt"} /\ ~toClient.open
          /\ toClient.w0 = Rule
      BY <2>2 DEF GoesOn, CutOver, Kept, CutInTurn, JustCut
    <3> QED  BY <3>1, WordsDiffer DEF ClientWaits, ReadyToRecv
  <2> QED  BY <2>1, <2>2, UncutIs DEF GoesOn, Kept
<1> QED  BY <1>1, <1>2, <1>3, PTL DEF Spec
=============================================================================
