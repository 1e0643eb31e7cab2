--------------------------- MODULE LocalConnection ---------------------------
(***************************************************************************)
(* The host and its console, two processes that talk over shared memory.   *)
(*                                                                         *)
(* There are two buffers.  In each the first word w0 says whether it is    *)
(* full: who sends writes it, who receives clears it.  The console sends a *)
(* line and shows what comes back until the host takes the end mark down.  *)
(* While it executes a command the host may ask for things: a first word   *)
(* of WCHAR_MAX announces it and the second word w1 says what.             *)
(*                                                                         *)
(* A word is the pair of its bytes, for some tests of the code look at the *)
(* low byte only.  Every store that can be told apart is a step; a memcpy  *)
(* is one, and so is LocalRecv, whose sender waits until it has cleared w0 *)
(* (only the greeting is sent without waiting, so it is received in two).  *)
(* Where a process sleeps in a loop until something holds, it has a step   *)
(* whose guard is that.                                                    *)
(***************************************************************************)
EXTENDS Naturals, Sequences

CONSTANTS
  CallsOf,      \* of a command: what executing it may ask of the console
  Replies,      \* first words of the parts of a response
  MaxCommands,  \* bound: lines typed
  Blocks        \* parts of the text of ClientDisplay

Zero  == <<0, 0>>
Ascii == <<65, 0>>       \* every character below 256 stands for this one
Rule  == <<0, 37>>       \* U+2500, of which tables and trees are drawn
Max16 == <<255, 255>>    \* WCHAR_MAX
One   == <<1, 0>>

LowByteIsZero(w) == w[1] = 0
ClearLowByte(w)  == <<0, w[2]>>

Kinds == {"password", "dir", "query", "track", "display"}

\* What a buffer may hold apart from a command.
OtherData ==
  {"nothing", "hello", "cd", "quit", "reply", "dir", "query", "password",
   "empty", "prefix", "numbers", "display"}

ASSUME LocalConnectionAssumption ==
  /\ MaxCommands \in Nat /\ Blocks \in Nat \ {0}
  /\ DOMAIN CallsOf \cap OtherData = {}
  /\ \A c \in DOMAIN CallsOf : CallsOf[c] \subseteq Seq(Kinds)
  /\ Replies \subseteq Seq({Zero, Ascii, Rule})
  /\ \A r \in Replies : Len(r) > 0 /\ r[1] # Zero

VARIABLES
  toClient,  \* the buffer of the host: w0, w1, data, and whether the end
             \* mark is up
  toHost,    \* the buffer of the console: w0 and data
  hostAt, msg, calls, reply, part, left, asked,
  greeting,  \* what the host printed as the console's greeting
  clientAt, got, line, typed, given,
  dir,       \* the directory the console shows before each line,
  sentDir,   \* and how many the host has sent
  said,      \* what the host wrote to be shown for this command,
  shown,     \* and what the console showed
  answers,   \* what the host took as answers, each with what it had asked
  calm,      \* whether each process ran from one sleep to the next alone
  cut        \* the first line whose response was cut short: its end mark
             \* was taken down over its last part; 0 if there is none

hostVars   == <<hostAt, msg, calls, reply, part, left, asked, greeting,
                sentDir, said, answers>>
clientVars == <<clientAt, got, line, typed, given, dir, shown>>
vars       == <<toClient, toHost, hostVars, clientVars, calm, cut>>

\* What is in a buffer behind its control words: a kind, the command it
\* belongs to, and a number among those of its kind.
Data(kind, of, n) == [kind |-> kind, of |-> of, n |-> n]
Nothing == Data("nothing", 0, 0)

ReadyToSend(buf) == buf.w0 = Zero
ReadyToRecv(buf) == buf.w0 # Zero

\* LocalSend leaves a buffer alone whose low byte is not zero.  The second
\* word of a text is the code of nothing.
LocalSend(buf, w0, data) ==
  IF LowByteIsZero(buf.w0)
    THEN [buf EXCEPT !.w0 = w0, !.w1 = "text", !.data = data] ELSE buf

SendLine(data) ==
  toHost' = IF LowByteIsZero(toHost.w0)
              THEN [w0 |-> IF data.kind = "empty" THEN Zero ELSE Ascii,
                    data |-> data]
              ELSE toHost

Init ==
  /\ toClient = [w0 |-> Zero, w1 |-> "zero", data |-> Nothing, open |-> FALSE]
  /\ toHost = [w0 |-> Zero, data |-> Nothing]
  /\ hostAt = "start" /\ msg = Nothing /\ calls = <<>> /\ reply = <<>>
  /\ part = 0 /\ left = 0 /\ asked = 0 /\ greeting = Nothing
  /\ clientAt = "off" /\ got = toClient /\ line = Nothing
  /\ typed = 0 /\ given = 0 /\ dir = Nothing /\ sentDir = 0
  /\ said = <<>> /\ shown = <<>> /\ answers = {}
  /\ calm = TRUE /\ cut = 0

-----------------------------------------------------------------------------
(* The host: opening the connection *)

HostGoes(from, to) == hostAt = from /\ hostAt' = to

\* InitSend, the greeting, and starting the console.
HostStarts ==
  /\ HostGoes("start", "greeting")
  /\ toClient' = LocalSend(toClient, Ascii, Data("hello", 0, 0))
  /\ clientAt' = "init"
  /\ UNCHANGED <<toHost, msg, calls, reply, part, left, asked, greeting,
                 sentDir, said, answers, got, line, typed, given, dir, shown>>

\* The console has taken the greeting; the host takes what it finds.
HostGreets ==
  /\ HostGoes("greeting", "greeted") /\ LowByteIsZero(toClient.w0)
  /\ greeting' = IF toHost.w0 = Zero THEN Nothing ELSE toHost.data
  /\ UNCHANGED <<toClient, toHost, msg, calls, reply, part, left, asked,
                 sentDir, said, answers, clientVars>>

\* Faulty: LocalRecv does not clear what it received.
HostKeepsGreeting ==
  /\ HostGoes("greeted", "listen")
  /\ UNCHANGED <<toClient, toHost, msg, calls, reply, part, left, asked,
                 greeting, sentDir, said, answers, clientVars>>

HostIsGreeted ==
  /\ HostGoes("greeted", "listen")
  /\ toHost' = [toHost EXCEPT !.w0 = Zero]
  /\ UNCHANGED <<toClient, msg, calls, reply, part, left, asked, greeting,
                 sentDir, said, answers, clientVars>>

(* The host: a command and its response *)

\* A line the host does not know is answered by a line that says so; so is
\* "quit" from within a share, where no task has this name.  Their answers,
\* and the one to the first "cd", fit the buffer.
CallsFor(data) ==
  IF data.kind \in DOMAIN CallsOf THEN CallsOf[data.kind] ELSE {<<>>}

RepliesFor(data) ==
  IF data.kind \in DOMAIN CallsOf THEN Replies ELSE {<<Ascii>>}

\* A command: what it asks for and answers depends on its parameters, on
\* other hosts and on the answers.
HostExecutes ==
  /\ HostGoes("listen", "call") /\ ReadyToRecv(toHost)
  /\ msg' = toHost.data /\ toHost' = [toHost EXCEPT !.w0 = Zero]
  /\ calls' \in CallsFor(msg') /\ reply' \in RepliesFor(msg')
  /\ part' = 0 /\ asked' = 0 /\ said' = <<>>
  /\ UNCHANGED <<toClient, left, greeting, sentDir, answers, clientVars>>

HostExits ==
  /\ HostGoes("listen", "gone") /\ ReadyToRecv(toHost)
  /\ toHost.data.kind = "quit"
  /\ UNCHANGED <<toClient, toHost, msg, calls, reply, part, left, asked,
                 greeting, sentDir, said, answers, clientVars>>

\* A response for which there is no room is dropped (l. 651).
HostDrops ==
  /\ HostGoes("call", "listen") /\ calls = <<>> /\ ~ReadyToSend(toClient)
  /\ UNCHANGED <<toClient, toHost, msg, calls, reply, part, left, asked,
                 greeting, sentDir, said, answers, clientVars>>

HostReplies ==
  /\ HostGoes("call", "reply") /\ calls = <<>> /\ ReadyToSend(toClient)
  /\ toClient' = [toClient EXCEPT !.open = TRUE]
  /\ UNCHANGED <<toHost, msg, calls, reply, part, left, asked, greeting,
                 sentDir, said, answers, clientVars>>

\* The parts of a response in turn.  One that is but the terminating zero
\* leaves the buffer empty.
HostSendsPart ==
  /\ hostAt = "reply" /\ ReadyToSend(toClient)
  /\ LET n == part + 1
         text == Data("reply", msg.of, n) IN
       /\ part' = n
       /\ hostAt' = IF n = Len(reply) THEN "end" ELSE "reply"
       /\ IF reply[n] = Zero
            THEN UNCHANGED <<toClient, said>>
            ELSE /\ toClient' = LocalSend(toClient, reply[n], text)
                 /\ said' = Append(said, text)
  /\ UNCHANGED <<toHost, msg, calls, reply, left, asked, greeting, sentDir,
                 answers, clientVars>>

\* Faulty: EndSend does not wait, or does not take the end mark down.
IsTakenAtOnce(buf) == TRUE

HostLeavesMark ==
  /\ HostGoes("end", "listen") /\ LowByteIsZero(toClient.w0)
  /\ UNCHANGED <<toClient, toHost, msg, calls, reply, part, left, asked,
                 greeting, sentDir, said, answers, clientVars>>

\* EndSend waits for the low byte.
IsTaken(buf) == LowByteIsZero(buf.w0)

HostEndsSend ==
  /\ HostGoes("end", "listen") /\ IsTaken(toClient)
  /\ toClient' = [toClient EXCEPT !.open = FALSE]
  /\ UNCHANGED <<toHost, msg, calls, reply, part, left, asked, greeting,
                 sentDir, said, answers, clientVars>>

-----------------------------------------------------------------------------
(* The host: InputPassword, ChangeClientDir and QueryClient *)

Prompts == {"password", "dir", "query"}

\* StartSend, with which every call begins.
Waiting(call) == IF call \in Prompts THEN "ask" ELSE call

HostCalls ==
  /\ hostAt = "call" /\ calls # <<>>
  /\ hostAt' = Waiting(Head(calls))
  /\ toClient' = [toClient EXCEPT !.open = TRUE]
  /\ UNCHANGED <<toHost, msg, calls, reply, part, left, asked, greeting,
                 sentDir, said, answers, clientVars>>

HostAnnounces ==
  /\ HostGoes("ask", "ask code") /\ ReadyToSend(toClient)
  /\ toClient' = [toClient EXCEPT !.w0 = Max16]
  /\ asked' = asked + 1
  /\ UNCHANGED <<toHost, msg, calls, reply, part, left, greeting, sentDir,
                 said, answers, clientVars>>

HostSaysWhat ==
  /\ hostAt = "ask code"
  /\ hostAt' = IF Head(calls) = "password" THEN "answer" ELSE "ask text"
  /\ toClient' = [toClient EXCEPT !.w1 = Head(calls)]
  /\ UNCHANGED <<toHost, msg, calls, reply, part, left, asked, greeting,
                 sentDir, said, answers, clientVars>>

HostWritesText ==
  /\ HostGoes("ask text", "answer")
  /\ IF Head(calls) = "dir"
       THEN /\ sentDir' = sentDir + 1 /\ UNCHANGED said
            /\ toClient' =
                 [toClient EXCEPT !.data = Data("dir", msg.of, sentDir')]
       ELSE /\ toClient' =
                 [toClient EXCEPT !.data = Data("query", msg.of, asked)]
            /\ said' = Append(said, toClient'.data) /\ UNCHANGED sentDir
  /\ UNCHANGED <<toHost, msg, calls, reply, part, left, asked, greeting,
                 answers, clientVars>>

\* The answer is read and the low byte of the own buffer cleared,
HostReadsAnswer ==
  /\ HostGoes("answer", "answered") /\ ReadyToRecv(toHost)
  /\ answers' = {[to |-> Data(Head(calls), msg.of, asked),
                  answer |-> toHost.data]}
  /\ toClient' = [toClient EXCEPT !.w0 = ClearLowByte(@)]
  /\ UNCHANGED <<toHost, msg, calls, reply, part, left, asked, greeting,
                 sentDir, said, clientVars>>

\* Faulty: the answer stays where it is.
HostLeavesAnswer ==
  /\ HostGoes("answered", "call")
  /\ calls' = Tail(calls)
  /\ UNCHANGED <<toClient, toHost, msg, reply, part, left, asked, greeting,
                 sentDir, said, answers, clientVars>>

\* then the buffer the answer was in.
HostClearsAnswer ==
  /\ HostGoes("answered", "call")
  /\ toHost' = [toHost EXCEPT !.w0 = Zero]
  /\ calls' = Tail(calls)
  /\ UNCHANGED <<toClient, msg, reply, part, left, asked, greeting, sentDir,
                 said, answers, clientVars>>

-----------------------------------------------------------------------------
(* The host: StartClientTrack and EndClientTrack *)

\* A step that writes its own buffer and nothing else.
HostWrites(from, to, guard, buf) ==
  /\ HostGoes(from, to) /\ guard /\ toClient' = buf
  /\ UNCHANGED <<toHost, msg, calls, reply, part, left, asked, greeting,
                 sentDir, said, answers, clientVars>>

HostWritesPrefix ==
  HostWrites("track", "prefix written", ReadyToSend(toClient),
    [toClient EXCEPT !.data = Data("prefix", msg.of, asked), !.w1 = "prefix"])

HostSendsPrefix ==
  HostWrites("prefix written", "numbers", TRUE,
             [toClient EXCEPT !.w0 = Max16])

HostWritesNumbers ==
  HostWrites("numbers", "numbers written", ReadyToSend(toClient),
    [toClient EXCEPT !.data = Data("numbers", msg.of, 0), !.w1 = "track"])

HostSendsTrack ==
  HostWrites("numbers written", "tracking", TRUE,
             [toClient EXCEPT !.w0 = Max16])

\* Faulty: nobody waits for the console.
HostTracksAtOnce ==
  HostWrites("tracking", "transfer", TRUE, [toClient EXCEPT !.w1 = "track"])

\* The console follows: the transfer begins.
HostTracks ==
  HostWrites("tracking", "transfer", toHost.w0 = Max16,
             [toClient EXCEPT !.w1 = "track"])

HostEndsTrack ==
  HostWrites("transfer", "track end", TRUE, [toClient EXCEPT !.w1 = "zero"])

HostSeesTrackEnd ==
  HostWrites("track end", "track over", toHost.w0 = One,
             [toClient EXCEPT !.w0 = Zero])

HostClearsTrack ==
  /\ HostGoes("track over", "call") /\ ReadyToRecv(toHost)
  /\ toHost' = [toHost EXCEPT !.w0 = Zero]
  /\ calls' = Tail(calls)
  /\ UNCHANGED <<toClient, msg, reply, part, left, asked, greeting, sentDir,
                 said, answers, clientVars>>

(* The host: ClientDisplay *)

HostWritesDisplay ==
  HostWrites("display", "display written", ReadyToSend(toClient),
             [toClient EXCEPT !.w1 = "display"])

HostSendsDisplay ==
  HostWrites("display written", "display sent", TRUE,
             [toClient EXCEPT !.w0 = Max16])

HostBeginsText ==
  /\ HostGoes("display sent", "text")
  /\ toClient' = [toClient EXCEPT !.data = Nothing, !.w1 = "display"]
  /\ left' = Blocks
  /\ UNCHANGED <<toHost, msg, calls, reply, part, asked, greeting, sentDir,
                 said, answers, clientVars>>

\* The next block when the last one was shown; nobody waits for the last.
HostDisplays ==
  /\ hostAt = "text" /\ toClient.data = Nothing
  /\ toClient' = [toClient EXCEPT !.data = Data("display", msg.of, left)]
  /\ said' = Append(said, toClient'.data)
  /\ left' = left - 1
  /\ hostAt' = IF left' = 0 THEN "call" ELSE "text"
  /\ calls' = IF left' = 0 THEN Tail(calls) ELSE calls
  /\ UNCHANGED <<toHost, msg, reply, part, asked, greeting, sentDir, answers,
                 clientVars>>

-----------------------------------------------------------------------------
(* The console: opening the connection *)

ClientGoes(from, to) == clientAt = from /\ clientAt' = to

\* InitSend with its memset, InitRecv, and taking the greeting.
ClientStarts ==
  /\ ClientGoes("init", "hello")
  /\ toHost' = [w0 |-> Zero, data |-> Nothing]
  /\ toClient' = [toClient EXCEPT !.w0 = Zero]
  /\ UNCHANGED <<hostVars, got, line, typed, given, dir, shown>>

ClientGreets ==
  /\ ClientGoes("hello", "cd") /\ SendLine(Data("hello", 0, 0))
  /\ UNCHANGED <<toClient, hostVars, got, line, typed, given, dir, shown>>

\* The directory the console was started in, as the first command.
ClientSendsDir ==
  /\ ClientGoes("cd", "cd reply") /\ ReadyToSend(toHost)
  /\ line' = Data("cd", 0, 0) /\ SendLine(line')
  /\ UNCHANGED <<toClient, hostVars, got, typed, given, dir, shown>>

ClientIsReady ==
  /\ ClientGoes("cd reply", "prompt") /\ ReadyToRecv(toClient)
  /\ toClient' = [toClient EXCEPT !.w0 = ClearLowByte(@)]
  /\ UNCHANGED <<toHost, hostVars, got, line, typed, given, dir, shown>>

(* The console: a line and its response *)

UserTypes ==
  /\ ClientGoes("prompt", "ready") /\ typed < MaxCommands
  /\ typed' = typed + 1
  /\ \E c \in DOMAIN CallsOf \cup {"quit"} : line' = Data(c, typed', 0)
  /\ UNCHANGED <<toClient, toHost, hostVars, got, given, dir, shown>>

ClientSends ==
  /\ clientAt = "ready" /\ ReadyToSend(toHost)
  /\ clientAt' = IF line.kind = "quit" THEN "gone" ELSE "sent"
  /\ SendLine(line)
  /\ given' = 0 /\ shown' = <<>>
  /\ UNCHANGED <<toClient, hostVars, got, line, typed, dir>>

ClientHears ==
  /\ ClientGoes("sent", "recv") /\ ReadyToRecv(toClient)
  /\ UNCHANGED <<toClient, toHost, hostVars, got, line, typed, given, dir,
                 shown>>

ClientIsDone ==
  /\ ClientGoes("recv", "prompt") /\ ~toClient.open
  /\ UNCHANGED <<toClient, toHost, hostVars, got, line, typed, given, dir,
                 shown>>

\* LocalRecv, and where the words received lead.
Handler(buf) ==
  IF buf.w0 # Max16 THEN "recv"
  ELSE IF buf.w1 \in Kinds THEN buf.w1 ELSE "recv"

IsShown(buf) == buf.w0 # Max16 \/ buf.w1 = "query"

ClientReceives ==
  /\ clientAt = "recv" /\ toClient.open /\ ReadyToRecv(toClient)
  /\ got' = toClient
  /\ toClient' = [toClient EXCEPT !.w0 = Zero]
  /\ shown' = IF IsShown(got') THEN Append(shown, got'.data) ELSE shown
  /\ clientAt' = Handler(got')
  /\ UNCHANGED <<toHost, hostVars, line, typed, given, dir>>

(* The console: what the host asks for *)

ClientAnswers(prompt, data) ==
  /\ ClientGoes(prompt, "recv")
  /\ given' = given + 1
  /\ SendLine(data)
  /\ UNCHANGED <<toClient, hostVars, got, typed, shown>>

\* An empty password is one zero byte, an empty line a zero word.
UserGivesPassword ==
  /\ \E kind \in {"password", "empty"} :
       ClientAnswers("password", Data(kind, typed, given + 1))
  /\ UNCHANGED <<line, dir>>

\* The answer takes the place of the line that was typed.
UserAnswers ==
  /\ \E kind \in {"query", "empty"} :
       /\ line' = Data(kind, typed, given + 1)
       /\ ClientAnswers("query", line')
  /\ UNCHANGED dir

\* The last line, whatever it was, says that the directory has arrived.
ClientTakesDir ==
  /\ dir' = got.data
  /\ ClientAnswers("dir", line)
  /\ UNCHANGED line

ClientTracks ==
  /\ ClientGoes("track", "tracks") /\ toClient.w1 = "track"
  /\ toHost' = [toHost EXCEPT !.w0 = Max16]
  /\ UNCHANGED <<toClient, hostVars, got, line, typed, given, dir, shown>>

ClientEndsTrack ==
  /\ clientAt \in {"track", "tracks"} /\ toClient.w1 # "track"
  /\ clientAt' = "recv"
  /\ toHost' = [toHost EXCEPT !.w0 = One]
  /\ UNCHANGED <<toClient, hostVars, got, line, typed, given, dir, shown>>

\* The loop of a display begins when the second word says so again, shows
\* each text it finds, and ends with the next message.
ClientSeesDisplay ==
  /\ ClientGoes("display", "displays") /\ toClient.w1 = "display"
  /\ UNCHANGED <<toClient, toHost, hostVars, got, line, typed, given, dir,
                 shown>>

ClientShows ==
  /\ clientAt = "displays" /\ toClient.w1 = "display"
  /\ toClient.data # Nothing
  /\ shown' = Append(shown, toClient.data)
  /\ toClient' = [toClient EXCEPT !.data = Nothing]
  /\ UNCHANGED <<toHost, hostVars, clientAt, got, line, typed, given, dir>>

ClientEndsDisplay ==
  /\ ClientGoes("displays", "recv") /\ toClient.w1 # "display"
  /\ UNCHANGED <<toClient, toHost, hostVars, got, line, typed, given, dir,
                 shown>>

-----------------------------------------------------------------------------
(* Both *)

\* Where the host sleeps between two looks at a buffer, or waits for a peer.
HostSleeps ==
  \/ hostAt \in {"start", "greeting", "listen", "ask", "answer", "track",
                 "numbers", "tracking", "transfer", "track end",
                 "track over", "display", "end", "gone"}
  \/ hostAt = "reply" /\ part > 0
  \/ hostAt = "text" /\ toClient.data # Nothing

\* A block that is not the first: the console may sleep since it showed the
\* one before.
IsLaterBlock(d) == d.kind = "display" /\ d.n < Blocks

ClientSleeps ==
  \/ clientAt \in {"off", "init", "cd", "cd reply", "prompt", "ready", "sent",
                   "recv", "password", "query", "tracks", "gone"}
  \/ /\ clientAt = "displays"
     /\ \/ toClient.data = Nothing \/ toClient.w1 # "display"
        \/ IsLaterBlock(toClient.data)

HostSteps ==
  \/ HostStarts \/ HostGreets \/ HostIsGreeted
  \/ HostExecutes \/ HostExits \/ HostDrops
  \/ HostReplies \/ HostSendsPart \/ HostEndsSend
  \/ HostCalls \/ HostAnnounces \/ HostSaysWhat \/ HostWritesText
  \/ HostReadsAnswer \/ HostClearsAnswer
  \/ HostWritesPrefix \/ HostSendsPrefix \/ HostWritesNumbers
  \/ HostSendsTrack \/ HostTracks \/ HostEndsTrack \/ HostSeesTrackEnd
  \/ HostClearsTrack
  \/ HostWritesDisplay \/ HostSendsDisplay \/ HostBeginsText \/ HostDisplays

ClientSteps ==
  \/ ClientStarts \/ ClientGreets \/ ClientSendsDir \/ ClientIsReady
  \/ ClientSends \/ ClientHears \/ ClientIsDone \/ ClientReceives
  \/ UserGivesPassword \/ UserAnswers \/ ClientTakesDir
  \/ ClientTracks \/ ClientEndsTrack
  \/ ClientSeesDisplay \/ ClientShows \/ ClientEndsDisplay

\* The host ends a response, and its last part begins with U+2500 and is still
\* in the buffer.
CutsShort == hostAt = "end" /\ toClient.w0 = Rule

HostRuns ==
  /\ HostSteps /\ calm' = (calm /\ ClientSleeps)
  /\ cut' = IF cut = 0 /\ CutsShort THEN typed ELSE cut

ClientRuns ==
  ClientSteps /\ calm' = (calm /\ HostSleeps) /\ UNCHANGED cut

Next ==
  \/ HostRuns \/ ClientRuns
  \/ UserTypes /\ calm' = (calm /\ HostSleeps) /\ UNCHANGED cut

Spec == Init /\ [][Next]_vars

\* Both processes run, and the user answers what is asked; a line need not be
\* typed.
FairSpec == Spec /\ WF_vars(HostRuns) /\ WF_vars(ClientRuns)

-----------------------------------------------------------------------------
(* Properties *)

DataKinds == DOMAIN CallsOf \cup OtherData

IsData(d) == d.kind \in DataKinds /\ d.of \in Nat /\ d.n \in Nat

\* The type invariant.
TypeOK ==
  /\ \A buf \in {toClient, got} :
       /\ buf.w0 \in {Zero, Ascii, Rule, Max16, <<0, 255>>} /\ IsData(buf.data)
       /\ buf.w1 \in Kinds \cup {"zero", "text", "prefix"}
       /\ buf.open \in BOOLEAN
  /\ toHost.w0 \in {Zero, Ascii, Max16, One} /\ IsData(toHost.data)
  /\ IsData(msg) /\ IsData(line) /\ IsData(greeting)
  /\ calls \in Seq(Kinds) /\ part \in 0 .. Len(reply) /\ left \in 0 .. Blocks
  /\ asked \in Nat /\ sentDir \in Nat /\ IsData(dir)
  /\ typed \in 0 .. MaxCommands /\ given \in Nat
  /\ \A i \in DOMAIN said : IsData(said[i])
  /\ \A i \in DOMAIN shown : IsData(shown[i])
  /\ calm \in BOOLEAN /\ cut \in 0 .. typed

\* No line has been typed after the first one whose response was cut short.
Uncut == cut \in {0, typed}

\* As long as no process is interrupted between two sleeps: what the user
\* has seen of a command when asked for something, or for the next line, is
\* what the host has said of it, in order (the loops of FileSharingClient.cpp,
\* 179-279, against the calls of FileSharingHost.cpp, 130-332 and 651-685), and
\* the line begins with the directory the host sent last (157-181).  Of the
\* first response whose last part begins with U+2500 and is taken for received
\* (WindowsFileMapping.h, 150-159) this last part alone is not shown: it is in
\* the buffer when the console prompts.  Of later lines nothing is said.
RepliesAreShown ==
  calm /\ Uncut /\ typed > 0 /\ clientAt \in {"prompt", "password", "query"} =>
    /\ msg.of = typed
    /\ said = IF cut = typed THEN Append(shown, toClient.data) ELSE shown
    /\ clientAt = "prompt" /\ sentDir > 0 => dir.n = sentDir

\* Likewise, what the host takes for an answer is the answer to what it asked
\* last, not one left in the buffer, a line or an answer to something else
\* (FileSharingHost.cpp, 148-152, 201-208).
AnswersFit ==
  calm /\ Uncut =>
    \A a \in answers :
      IF a.to.kind = "dir" THEN a.answer.of = a.to.of ELSE a.answer = a.to

\* A host that is not interrupted gets the greeting (FileSharingHost.cpp,
\* 600-618).  However the processes are interrupted, a host that got it
\* executes what was typed as a command and nothing else, and before the next
\* prompt (618-651), up to the first response that is cut short.
CommandsInTurn ==
  /\ calm /\ hostAt \notin {"start", "greeting"} => greeting.kind = "hello"
  /\ greeting.kind = "hello" /\ Uncut =>
       /\ msg.kind \in DOMAIN CallsOf \cup {"nothing", "cd", "quit"}
       /\ clientAt = "prompt" => msg.of = typed

\* However the processes are interrupted: while the host writes the numbers of
\* a transfer into the buffer the console is in the loop that shows them, and
\* takes them for nothing else (FileSharingHost.cpp, 250-296).
TransferIsFollowed == hostAt = "transfer" => clientAt = "tracks"

\* The console comes back to its prompt after every line, unless a process was
\* interrupted between two sleeps, the response to an earlier line was cut
\* short, or an empty password or answer was given: that is no message, and
\* both processes wait for each other.
EveryLineReturns ==
  clientAt = "sent" ~> \/ clientAt = "prompt" \/ ~calm \/ ~Uncut
                       \/ toHost.data.kind = "empty"
=============================================================================
