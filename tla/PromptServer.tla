---------------------------- MODULE PromptServer ----------------------------
(***************************************************************************)
(* The server's threads together, and what they promise when they are      *)
(* scheduled as the sleeps of the program expect.                          *)
(*                                                                         *)
(* Nobody waits for a thread that leaves its loop: the collector sleeps    *)
(* 16 ms before it looks, and ~ServerThread sleeps a second before it      *)
(* frees.  PromptSpec assumes that the thread which put its address on the *)
(* trash queue has left its loop by then, and that a handler does not      *)
(* throw in a pass that has already closed a connection.  Without the      *)
(* first a ServerThread can have two threads and be freed under one;       *)
(* without the second ForceStop deletes a connection twice.                *)
(***************************************************************************)
EXTENDS ServerThreads

Listening ==
  \/ \E c \in Conns : Accept(c) \/ RefuseHandshake(c)
  \/ HandOver
  \/ NotFound
  \/ \E s \in Servs, t \in Threads : CreateServer(s, t)

Working(t) ==
  \/ Test(t)
  \/ \E done \in SUBSET Conns : Turn(t, done)
  \/ Sweep(t)
  \/ Drain(t)
  \/ StopServer(t)
  \/ ForceStop(t)
  \/ ForceStopped(t)

Collecting ==
  \/ Collect
  \/ CollectUnknown
  \/ CollectIdle
  \/ CollectDelete
  \/ \E t \in Threads : CollectRestart(t)
  \/ CollectEnd

Throwing == \E t \in Threads, done \in SUBSET Conns : TurnThrows(t, done)

Next ==
  \/ Listening
  \/ \E t \in Threads : Working(t)
  \/ Throwing
  \/ Collecting

\* Every interleaving of the threads.
Spec == Init /\ [][Next]_vars

\* A thread that stopped has not yet looked at m_isLoop.
Leaving(s) ==
  ~isLoop[s] /\ \E t \in Threads : thread[t] = [serv |-> s, pc |-> "test"]

PromptCollecting ==
  \/ Collect
  \/ CollectUnknown
  \/ CollectIdle /\ ~Leaving(map[Head(trash)])
  \/ CollectDelete
  \/ \E t \in Threads : CollectRestart(t) /\ ~Leaving(map[Head(trash)])
  \/ CollectEnd

CalmThrowing == \E t \in Threads : TurnThrows(t, {})

PromptNext ==
  \/ Listening
  \/ \E t \in Threads : Working(t)
  \/ CalmThrowing
  \/ PromptCollecting

PromptSpec == Init /\ [][PromptNext]_vars

\* Every thread goes on, and every connection's handler closes it in the end:
\* on its time-out, at the end of its transfer, or when it finds the peer gone.
\* EveryConnectionIsClosed of FileTransfer is where this comes from; a large
\* protected file, which is never closed, is left out here as it is there.
\* Clients owe nothing: Accept is not fair.
Fairness ==
  /\ WF_vars(HandOver \/ NotFound)
  /\ WF_vars(\E s \in Servs, t \in Threads : CreateServer(s, t))
  /\ \A t \in Threads : WF_vars(Working(t))
  /\ WF_vars(PromptCollecting)
  /\ \A c \in Conns :
       SF_vars(\E t \in Threads, done \in SUBSET Conns :
                 c \in done /\ Turn(t, done))

FairSpec == PromptSpec /\ Fairness

-----------------------------------------------------------------------------
(* Properties *)

Pcs == {"test", "turn", "sweep", "drain", "stop", "force", "forcing"}

\* The type invariant.
TypeOK ==
  /\ listener \in [pc : {"accept", "find", "create"}, conn : Conns \cup {NoConn}]
  /\ accepted \subseteq Conns /\ released \subseteq Conns
  /\ DOMAIN map \subseteq Addrs /\ map \in [DOMAIN map -> Servs]
  /\ lock \in Threads \cup {"free", "collector"}
  /\ trash \in Seq(Addrs)
  /\ collector \in {"idle", "sweeping", "deleting"}
  /\ life \in [Servs -> {"unused", "live", "freed"}]
  /\ address \in [Servs -> Addrs \cup {"none"}]
  /\ isLoop \in [Servs -> BOOLEAN]
  /\ conns \in [Servs -> SUBSET Conns]
  /\ incoming \in [Servs -> Seq(Conns)]
  /\ closing \in [Servs -> SUBSET Conns]
  /\ thread \in [Threads -> [serv : Servs, pc : Pcs] \cup {Ended}]
  /\ freed \in [Conns -> Nat]

\* The lists of a ServerThread have no lock of their own against its thread:
\* no two threads ever serve one ServerThread (CollectRestart and Test).
OneThreadPerServer ==
  \A t, u \in Threads :
    t # u /\ thread[t].serv = thread[u].serv => thread[t] = Ended

\* ~ServerThread and ForceStop free an object no thread will look at again,
\* and the map leads to no freed object.
NoThreadOutlivesItsServer ==
  /\ \A t \in Threads : thread[t] # Ended => life[thread[t].serv] = "live"
  /\ \A a \in DOMAIN map : life[map[a]] = "live"

Tended(s) ==
  \/ \E t \in Threads : thread[t].serv = s
  \/ address[s] \in Range(trash)

\* A connection that was handed over just as its thread stopped is not
\* forgotten: until it is deleted it is in a list of a ServerThread that has a
\* thread or that the collector will look at (Add, Drain, StopServer,
\* CollectRestart).
EveryConnectionIsTended ==
  \A c \in accepted :
    \/ freed[c] > 0
    \/ listener.conn = c
    \/ \E a \in DOMAIN map :
         /\ c \in conns[map[a]] \cup Range(incoming[map[a]])
         /\ Tended(map[a])

\* The collector deletes a ServerThread only when no connection is in any of
\* its lists, although it looks at m_incoming alone and the listening thread
\* may be waiting to hand one over.
OnlyEmptyServersAreCollected ==
  collector = "deleting" =>
    LET s == map[Head(trash)]
    IN  conns[s] = {} /\ incoming[s] = <<>> /\ closing[s] = {}

\* No connection is deleted twice: Close, GarbageCollect and ~ServerThread
\* never find it in two lists.
DeletedOnce == \A c \in Conns : freed[c] <= 1

\* Every accepted connection is served to its end.
EveryConnectionEnds == \A c \in Conns : c \in accepted ~> freed[c] > 0

\* The ServerThread of an address whose clients stop coming is deleted.
ServersAreForgotten == <>[](map = [a \in {} |-> 0])

-----------------------------------------------------------------------------
(* The inductive invariant behind the safety properties *)

\* The map and the live objects are each other's inverse.
SoundMap ==
  /\ \A a \in DOMAIN map : life[map[a]] = "live" /\ address[map[a]] = a
  /\ \A s \in Servs :
       life[s] = "live" => address[s] \in DOMAIN map /\ map[address[s]] = s
  /\ listener.pc = "create" => AddrOf[listener.conn] \notin DOMAIN map

\* Who holds m_lock across steps.
SoundLock ==
  /\ lock = "collector" <=> collector # "idle"
  /\ \A t \in Threads : lock = t <=> thread[t].pc = "forcing"

\* What the thread of a live object has just done.
SoundThread(t) ==
  LET s == thread[t].serv
  IN  /\ life[s] = "live"
      /\ thread[t].pc # "sweep" => closing[s] = {}
      /\ thread[t].pc = "stop" => ~isLoop[s] /\ conns[s] = {}
      /\ thread[t].pc = "test" /\ ~isLoop[s] => address[s] \in Range(trash)
      /\ thread[t].pc \in {"turn", "sweep", "drain", "force"} => isLoop[s]

\* There is at most one.
SoundThreads ==
  /\ OneThreadPerServer
  /\ \A t \in Threads : thread[t] # Ended => SoundThread(t)

\* An object whose thread is not there, or is about to leave, is on the queue
\* once, and has nothing left to serve but what was handed over since.
SoundQueue ==
  /\ \A i, j \in DOMAIN trash : trash[i] = trash[j] => i = j
  /\ \A a \in Range(trash) :
       /\ a \in DOMAIN map
       /\ ~isLoop[map[a]] /\ conns[map[a]] = {} /\ closing[map[a]] = {}
       /\ \A t \in Threads : thread[t].serv = map[a] => thread[t].pc = "test"
  /\ \A s \in Servs : life[s] = "live" => Tended(s)
  /\ collector = "deleting" =>
       /\ trash # <<>> /\ Head(trash) \in DOMAIN map
       /\ incoming[map[Head(trash)]] = <<>>
       /\ \A t \in Threads : thread[t].serv # map[Head(trash)]

\* A connection is in one place at a time and not deleted while it is there.
SoundConnections ==
  /\ \A s \in Servs :
       /\ closing[s] \subseteq conns[s]
       /\ conns[s] \cap Range(incoming[s]) = {}
       /\ life[s] # "live" => conns[s] = {} /\ incoming[s] = <<>>
       /\ \A c \in conns[s] \cup Range(incoming[s]) :
            /\ c \in accepted /\ freed[c] = 0 /\ listener.conn # c
            /\ AddrOf[c] = address[s]
  /\ \A r, s \in Servs : r # s =>
       (conns[r] \cup Range(incoming[r]))
         \cap (conns[s] \cup Range(incoming[s])) = {}
  /\ listener.pc = "accept" <=> listener.conn = NoConn
  /\ listener.conn # NoConn =>
       listener.conn \in accepted /\ freed[listener.conn] = 0
  /\ \A c \in Conns : freed[c] <= 1 /\ (c \notin accepted => freed[c] = 0)

\* What every state of the prompt server satisfies.
SoundServer ==
  /\ TypeOK /\ SoundMap /\ SoundLock /\ SoundThreads /\ SoundQueue
  /\ SoundConnections

-----------------------------------------------------------------------------
(* The inductive invariant of every interleaving *)

\* A client uses a port again only when the host has deleted the connection that
\* had it.  Otherwise it may lose the new one: Add refuses a port that m_conns
\* still has, and Drain drops it.
PortsAreFree ==
  \A c, d \in accepted :
    /\ freed[c] = 0 /\ freed[d] = 0
    /\ AddrOf[c] = AddrOf[d] /\ PortOf[c] = PortOf[d]
    => c = d

Listed(s) == conns[s] \cup Range(incoming[s])

\* A ServerThread that runs has a thread, and one that does not is on the queue
\* or has a thread that will put it there or delete it.
StopsAreTold ==
  \A s \in Servs : life[s] = "live" =>
    \/ isLoop[s] /\ \E t \in Threads : thread[t].serv = s
    \/ address[s] \in Range(trash)
    \/ \E t \in Threads :
         thread[t].serv = s /\ thread[t].pc \in {"stop", "forcing"}

\* What the collector deletes is on the map.
CollectsKnown ==
  collector = "deleting" => trash # <<>> /\ Head(trash) \in DOMAIN map

\* A connection is in the lists of one ServerThread, which is alive and of its
\* address, and not deleted while it is there.
ListsAreOwn ==
  \A s \in Servs :
    /\ life[s] # "live" => conns[s] = {} /\ incoming[s] = <<>>
    /\ closing[s] \subseteq conns[s]
    /\ conns[s] \cap Range(incoming[s]) = {}
    /\ \A c \in Listed(s) :
         c \in accepted /\ freed[c] = 0 /\ AddrOf[c] = address[s]
    /\ \A i, j \in DOMAIN incoming[s] :
         incoming[s][i] = incoming[s][j] => i = j

\* What the listening thread holds is in no list yet.
HeldIsNew ==
  /\ \A c \in Conns \ accepted : freed[c] = 0
  /\ listener.pc = "accept" <=> listener.conn = NoConn
  /\ listener.conn # NoConn =>
       /\ listener.conn \in accepted /\ freed[listener.conn] = 0
       /\ \A s \in Servs : listener.conn \notin Listed(s)

\* A connection is held, listed, or deleted.
NoneIsLost ==
  \A c \in accepted :
    \/ freed[c] > 0
    \/ listener.conn = c
    \/ \E s \in Servs : life[s] = "live" /\ c \in Listed(s)

\* What every state satisfies, however the threads are scheduled.
AnyServer ==
  /\ TypeOK /\ SoundMap /\ SoundLock
  /\ StopsAreTold /\ CollectsKnown /\ ListsAreOwn /\ HeldIsNew /\ NoneIsLost
=============================================================================
