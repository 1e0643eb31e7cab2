---------------------------- MODULE ServerThreads ----------------------------
(***************************************************************************)
(* The TCP server of a host: one ServerThread object, and normally one     *)
(* operating-system thread, for each client address.                       *)
(*                                                                         *)
(* The listening thread hands a connection to the ServerThread of its      *)
(* address, or makes a new one.  The thread of a ServerThread serves its   *)
(* connections in turns, takes in the ones handed to it, and when it has   *)
(* none left puts its address on the server's trash queue and ends.  The   *)
(* collector thread takes the addresses from the queue: it deletes the     *)
(* ServerThread, or gives it a new thread when connections were handed to  *)
(* it in the meantime.  All threads are detached, so nobody waits for one. *)
(*                                                                         *)
(* m_lock guards the map of ServerThreads and the trash queue.  The        *)
(* critical sections of m_incomingLock are single steps here.              *)
(***************************************************************************)
EXTENDS Integers, Sequences, Functions

CONSTANTS
  Conns,    \* the connections that clients may make, each once
  Addrs,    \* client addresses
  AddrOf,   \* the address of a connection
  PortOf,   \* its port; a client may use a port again after it closed
  Servs,    \* ServerThread objects
  Threads   \* operating-system threads

ASSUME ServerThreadsAssumption ==
  /\ AddrOf \in [Conns -> Addrs]
  /\ DOMAIN PortOf = Conns
  /\ "none" \notin Conns \cup Servs \cup Addrs
  /\ {"free", "collector"} \cap Threads = {}

VARIABLES
  listener,   \* where the listening thread is and the connection it holds
  accepted,   \* connections accepted so far
  map,        \* m_clientMap
  lock,       \* holder of m_lock across steps, or "free"
  trash,      \* Server::m_trash, addresses
  collector,  \* where the collector thread is
  life,       \* of a ServerThread object: "unused", "live" or "freed"
  address,    \* m_address
  isLoop,     \* m_isLoop
  conns,      \* m_conns
  incoming,   \* m_incoming
  closing,    \* ServerThread::m_trash, the connections closed in this turn
  thread,     \* the ServerThread a thread serves and where it is
  freed,      \* how often a ClientConnection was deleted
  released    \* connections whose socket was closed and resource deleted

server == <<map, lock, trash>>
object == <<life, address, isLoop, conns, incoming, closing>>
fate   == <<freed, released>>
vars   == <<listener, accepted, collector, server, object, thread, fate>>

NoConn == "none"
Ended  == [serv |-> "none", pc |-> "none"]

Init ==
  /\ listener = [pc |-> "accept", conn |-> NoConn]
  /\ accepted = {}
  /\ map = [a \in {} |-> 0]
  /\ lock = "free"
  /\ trash = <<>>
  /\ collector = "idle"
  /\ life = [s \in Servs |-> "unused"]
  /\ address = [s \in Servs |-> "none"]
  /\ isLoop = [s \in Servs |-> FALSE]
  /\ conns = [s \in Servs |-> {}]
  /\ incoming = [s \in Servs |-> <<>>]
  /\ closing = [s \in Servs |-> {}]
  /\ thread = [t \in Threads |-> Ended]
  /\ freed = [c \in Conns |-> 0]
  /\ released = {}

IsPortTaken(taken, c) == \E d \in taken : PortOf[d] = PortOf[c]

-----------------------------------------------------------------------------
(* The listening thread: Server::Listen<T> and Server::_Listen<T> *)

Accept(c) ==
  /\ listener.pc = "accept" /\ c \notin accepted
  /\ accepted' = accepted \cup {c}
  /\ listener' = [pc |-> "find", conn |-> c]
  /\ UNCHANGED <<collector, server, object, thread, fate>>

\* SSL_accept fails: the connection is gone before it got a resource.
RefuseHandshake(c) ==
  /\ listener.pc = "accept" /\ c \notin accepted
  /\ accepted' = accepted \cup {c}
  /\ freed' = [freed EXCEPT ![c] = @ + 1]
  /\ released' = released \cup {c}
  /\ UNCHANGED <<listener, collector, server, object, thread>>

\* ServerThread::Add returns FALSE for a port that m_conns still has; nobody
\* looks at the result, and the connection is in no list.
Add(s, c) ==
  incoming' = IF IsPortTaken(conns[s], c)
              THEN incoming
              ELSE [incoming EXCEPT ![s] = Append(@, c)]

HandOver ==
  /\ listener.pc = "find" /\ lock = "free"
  /\ AddrOf[listener.conn] \in DOMAIN map
  /\ Add(map[AddrOf[listener.conn]], listener.conn)
  /\ listener' = [pc |-> "accept", conn |-> NoConn]
  /\ UNCHANGED <<accepted, collector, server, life, address, isLoop, conns,
                 closing, thread, fate>>

\* m_lock is released between the search and the creation.
NotFound ==
  /\ listener.pc = "find" /\ lock = "free"
  /\ AddrOf[listener.conn] \notin DOMAIN map
  /\ listener' = [listener EXCEPT !.pc = "create"]
  /\ UNCHANGED <<accepted, collector, server, object, thread, fate>>

\* The new thread is started before m_lock is released.
CreateServer(s, t) ==
  LET c == listener.conn
  IN  /\ listener.pc = "create" /\ lock = "free"
      /\ life[s] = "unused" /\ thread[t] = Ended
      /\ life' = [life EXCEPT ![s] = "live"]
      /\ address' = [address EXCEPT ![s] = AddrOf[c]]
      /\ isLoop' = [isLoop EXCEPT ![s] = TRUE]
      /\ Add(s, c)
      /\ map' = [a \in DOMAIN map \cup {AddrOf[c]} |->
                   IF a \in DOMAIN map THEN map[a] ELSE s]
      /\ thread' = [thread EXCEPT ![t] = [serv |-> s, pc |-> "test"]]
      /\ listener' = [pc |-> "accept", conn |-> NoConn]
      /\ UNCHANGED <<accepted, collector, lock, trash, conns, closing, fate>>

-----------------------------------------------------------------------------
(* The thread of a ServerThread: _Loop and ServerThread::GarbageCollect *)

\* The thread has memory to read.
At(t, pc) == thread[t].pc = pc /\ life[thread[t].serv] = "live"

Goto(t, pc) == thread' = [thread EXCEPT ![t].pc = pc]
End(t) == thread' = [thread EXCEPT ![t] = Ended]

\* while (serv->m_isLoop)
Test(t) ==
  /\ At(t, "test")
  /\ IF isLoop[thread[t].serv] THEN Goto(t, "turn") ELSE End(t)
  /\ UNCHANGED <<listener, accepted, collector, server, object, fate>>

\* One pass over m_conns.  The handler closes some connections (Server::Close
\* puts each of them on m_trash once).
Turn(t, done) ==
  LET s == thread[t].serv
  IN  /\ At(t, "turn")
      /\ done \subseteq conns[s] \ closing[s]
      /\ closing' = [closing EXCEPT ![s] = @ \cup done]
      /\ Goto(t, "sweep")
      /\ UNCHANGED <<listener, accepted, collector, server, life, address,
                     isLoop, conns, incoming, fate>>

\* The handler throws for a connection after it closed some others.
TurnThrows(t, done) ==
  LET s == thread[t].serv
  IN  /\ At(t, "turn")
      /\ done \subseteq conns[s] \ closing[s]
      /\ conns[s] \ (closing[s] \cup done) # {}
      /\ closing' = [closing EXCEPT ![s] = @ \cup done]
      /\ Goto(t, "force")
      /\ UNCHANGED <<listener, accepted, collector, server, life, address,
                     isLoop, conns, incoming, fate>>

\* Faulty: m_trash is not emptied.
SweepKeepingTrash(t) ==
  LET s    == thread[t].serv
      gone == closing[s] \cap conns[s]
  IN  /\ At(t, "sweep")
      /\ conns' = [conns EXCEPT ![s] = @ \ gone]
      /\ freed' = [c \in Conns |-> freed[c] + IF c \in gone THEN 1 ELSE 0]
      /\ released' = released \cup gone
      /\ Goto(t, "drain")
      /\ UNCHANGED <<listener, accepted, collector, server, life, address,
                     isLoop, incoming, closing>>

\* The closed connections are shut down, deleted and forgotten.
Sweep(t) ==
  LET s    == thread[t].serv
      gone == closing[s] \cap conns[s]
  IN  /\ At(t, "sweep")
      /\ conns' = [conns EXCEPT ![s] = @ \ gone]
      /\ closing' = [closing EXCEPT ![s] = {}]
      /\ freed' = [c \in Conns |-> freed[c] + IF c \in gone THEN 1 ELSE 0]
      /\ released' = released \cup gone
      /\ Goto(t, "drain")
      /\ UNCHANGED <<listener, accepted, collector, server, life, address,
                     isLoop, incoming>>

\* The connections handed over enter m_conns, in order.  One whose port is
\* taken by then is popped and forgotten.
TakenIn(taken, queue) ==
  taken \cup
  {queue[i] : i \in {j \in DOMAIN queue :
                       /\ ~IsPortTaken(taken, queue[j])
                       /\ \A k \in 1 .. j - 1 :
                            PortOf[queue[k]] # PortOf[queue[j]]}}

\* Faulty: m_conns is looked at before the connections are taken in.
DrainAfterLooking(t) ==
  LET s   == thread[t].serv
      now == TakenIn(conns[s], incoming[s])
  IN  /\ At(t, "drain")
      /\ conns' = [conns EXCEPT ![s] = now]
      /\ incoming' = [incoming EXCEPT ![s] = <<>>]
      /\ isLoop' = [isLoop EXCEPT ![s] = @ /\ conns[s] # {}]
      /\ Goto(t, IF conns[s] = {} THEN "stop" ELSE "test")
      /\ UNCHANGED <<listener, accepted, collector, server, life, address,
                     closing, fate>>

\* Faulty: the thread just ends.
DrainWithoutStop(t) ==
  LET s   == thread[t].serv
      now == TakenIn(conns[s], incoming[s])
  IN  /\ At(t, "drain")
      /\ conns' = [conns EXCEPT ![s] = now]
      /\ incoming' = [incoming EXCEPT ![s] = <<>>]
      /\ isLoop' = [isLoop EXCEPT ![s] = @ /\ now # {}]
      /\ Goto(t, "test")
      /\ UNCHANGED <<listener, accepted, collector, server, life, address,
                     closing, fate>>

Drain(t) ==
  LET s   == thread[t].serv
      now == TakenIn(conns[s], incoming[s])
  IN  /\ At(t, "drain")
      /\ conns' = [conns EXCEPT ![s] = now]
      /\ incoming' = [incoming EXCEPT ![s] = <<>>]
      /\ isLoop' = [isLoop EXCEPT ![s] = @ /\ now # {}]
      /\ Goto(t, IF now = {} THEN "stop" ELSE "test")
      /\ UNCHANGED <<listener, accepted, collector, server, life, address,
                     closing, fate>>

\* Server::Stop
StopServer(t) ==
  LET s == thread[t].serv
  IN  /\ At(t, "stop") /\ lock = "free"
      /\ trash' = Append(trash, address[s])
      /\ isLoop' = [isLoop EXCEPT ![s] = FALSE]
      /\ Goto(t, "test")
      /\ UNCHANGED <<listener, accepted, collector, map, lock, life, address,
                     conns, incoming, closing, fate>>

-----------------------------------------------------------------------------
(* Deleting a ServerThread *)

Times(set, c) == IF c \in set THEN 1 ELSE 0

\* Faulty: the entry of m_clientMap stays.
DeleteKeepingEntry(s) ==
  /\ life' = [life EXCEPT ![s] = "freed"]
  /\ freed' = [c \in Conns |->
                 freed[c] + Times(conns[s], c) + Times(Range(incoming[s]), c)
                          + Times(closing[s], c)]
  /\ conns' = [conns EXCEPT ![s] = {}]
  /\ incoming' = [incoming EXCEPT ![s] = <<>>]
  /\ closing' = [closing EXCEPT ![s] = {}]
  /\ UNCHANGED <<map, address, isLoop, released>>

\* ~ServerThread deletes every connection of its three lists; it closes no
\* socket and deletes no resource.
Delete(s) ==
  /\ life' = [life EXCEPT ![s] = "freed"]
  /\ map' = Restrict(map, DOMAIN map \ {address[s]})
  /\ freed' = [c \in Conns |->
                 freed[c] + Times(conns[s], c) + Times(Range(incoming[s]), c)
                          + Times(closing[s], c)]
  /\ conns' = [conns EXCEPT ![s] = {}]
  /\ incoming' = [incoming EXCEPT ![s] = <<>>]
  /\ closing' = [closing EXCEPT ![s] = {}]
  /\ UNCHANGED <<address, isLoop, released>>

\* Server::ForceStop, for a handler that threw.  ~ServerThread sleeps with
\* m_lock held.
ForceStop(t) ==
  LET s == thread[t].serv
  IN  /\ At(t, "force") /\ lock = "free"
      /\ IF address[s] \in DOMAIN map
         THEN /\ lock' = t
              /\ isLoop' = [isLoop EXCEPT ![s] = FALSE]
              /\ Goto(t, "forcing")
         ELSE End(t) /\ UNCHANGED <<lock, isLoop>>
      /\ UNCHANGED <<listener, accepted, collector, map, trash, life, address,
                     conns, incoming, closing, fate>>

ForceStopped(t) ==
  /\ At(t, "forcing")
  /\ Delete(thread[t].serv)
  /\ lock' = "free"
  /\ End(t)
  /\ UNCHANGED <<listener, accepted, collector, trash>>

-----------------------------------------------------------------------------
(* The collector: Server::StartGarbageCollector *)

\* m_trash.empty() is read without the lock.
Collect ==
  /\ collector = "idle" /\ trash # <<>> /\ lock = "free"
  /\ lock' = "collector"
  /\ collector' = "sweeping"
  /\ UNCHANGED <<listener, accepted, map, trash, object, thread, fate>>

CollectUnknown ==
  /\ collector = "sweeping" /\ trash # <<>>
  /\ Head(trash) \notin DOMAIN map
  /\ trash' = Tail(trash)
  /\ UNCHANGED <<listener, accepted, collector, map, lock, object, thread, fate>>

\* Nobody handed anything over: ~ServerThread clears m_isLoop and sleeps.  The
\* thread is detached, so joinable() is false and nobody joins it.
CollectIdle ==
  /\ collector = "sweeping" /\ trash # <<>>
  /\ Head(trash) \in DOMAIN map
  /\ LET s == map[Head(trash)]
     IN  /\ incoming[s] = <<>>
         /\ isLoop' = [isLoop EXCEPT ![s] = FALSE]
  /\ collector' = "deleting"
  /\ UNCHANGED <<listener, accepted, server, life, address, conns, incoming,
                 closing, thread, fate>>

CollectDelete ==
  /\ collector = "deleting"
  /\ Delete(map[Head(trash)])
  /\ trash' = Tail(trash)
  /\ collector' = "sweeping"
  /\ UNCHANGED <<listener, accepted, lock, thread>>

\* Faulty: m_isLoop is still FALSE.
CollectRestartUnflagged(t) ==
  /\ collector = "sweeping" /\ trash # <<>>
  /\ Head(trash) \in DOMAIN map
  /\ thread[t] = Ended
  /\ LET s == map[Head(trash)]
     IN  /\ incoming[s] # <<>>
         /\ thread' = [thread EXCEPT ![t] = [serv |-> s, pc |-> "test"]]
  /\ trash' = Tail(trash)
  /\ UNCHANGED <<listener, accepted, collector, map, lock, object, fate>>

\* Faulty: the address stays on the queue.
CollectRestartKeeping(t) ==
  /\ collector = "sweeping" /\ trash # <<>>
  /\ Head(trash) \in DOMAIN map
  /\ thread[t] = Ended
  /\ LET s == map[Head(trash)]
     IN  /\ incoming[s] # <<>>
         /\ isLoop' = [isLoop EXCEPT ![s] = TRUE]
         /\ thread' = [thread EXCEPT ![t] = [serv |-> s, pc |-> "test"]]
  /\ UNCHANGED <<listener, accepted, collector, server, life, address, conns,
                 incoming, closing, fate>>

\* Connections were handed over after the thread looked: it gets a new one.
CollectRestart(t) ==
  /\ collector = "sweeping" /\ trash # <<>>
  /\ Head(trash) \in DOMAIN map
  /\ thread[t] = Ended
  /\ LET s == map[Head(trash)]
     IN  /\ incoming[s] # <<>>
         /\ isLoop' = [isLoop EXCEPT ![s] = TRUE]
         /\ thread' = [thread EXCEPT ![t] = [serv |-> s, pc |-> "test"]]
  /\ trash' = Tail(trash)
  /\ UNCHANGED <<listener, accepted, collector, map, lock, life, address, conns,
                 incoming, closing, fate>>

CollectEnd ==
  /\ collector = "sweeping" /\ trash = <<>>
  /\ lock' = "free"
  /\ collector' = "idle"
  /\ UNCHANGED <<listener, accepted, map, trash, object, thread, fate>>
=============================================================================
