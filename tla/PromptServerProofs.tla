------------------------- MODULE PromptServerProofs -------------------------
(***************************************************************************)
(* Proofs that the server's threads keep their promises in every prompt    *)
(* schedule, and forget no connection in any schedule, whatever the        *)
(* numbers of clients, connections and threads.                            *)
(***************************************************************************)
EXTENDS PromptServer, TLAPS

-----------------------------------------------------------------------------
(* Sequences *)

\* A queue after push holds what it held and the new entry.
LEMMA RangeOfAppend ==
  ASSUME NEW S, NEW q \in Seq(S), NEW x \in S
  PROVE  /\ Append(q, x) \in Seq(S)
         /\ Range(Append(q, x)) = Range(q) \cup {x}
<1>1. Append(q, x) \in Seq(S) /\ Len(Append(q, x)) = Len(q) + 1
  OBVIOUS
<1>2. \A i \in 1 .. Len(q) : Append(q, x)[i] = q[i]
  OBVIOUS
<1>3. Append(q, x)[Len(q) + 1] = x
  OBVIOUS
<1>4. DOMAIN Append(q, x) = 1 .. Len(q) + 1 /\ DOMAIN q = 1 .. Len(q)
  BY <1>1
<1>5. Len(q) \in Nat
  OBVIOUS
<1>6. 1 .. Len(q) + 1 = (1 .. Len(q)) \cup {Len(q) + 1}
  BY <1>5
<1> QED
  BY <1>1, <1>2, <1>3, <1>4, <1>6 DEF Range

\* A queue without repetitions keeps that property when an entry it does not
\* have is pushed.
LEMMA AppendKeepsDistinct ==
  ASSUME NEW S, NEW q \in Seq(S), NEW x \in S, x \notin Range(q),
         \A i, j \in DOMAIN q : q[i] = q[j] => i = j
  PROVE  LET r == Append(q, x)
         IN  \A i, j \in DOMAIN r : r[i] = r[j] => i = j
<1> DEFINE r == Append(q, x)
<1>1. DOMAIN r = 1 .. Len(q) + 1 /\ DOMAIN q = 1 .. Len(q) /\ Len(q) \in Nat
  OBVIOUS
<1>2. \A i \in 1 .. Len(q) : r[i] = q[i] /\ r[i] # x
  BY <1>1 DEF Range
<1>3. r[Len(q) + 1] = x
  OBVIOUS
<1> HIDE DEF r
<1>4. \A i, j \in DOMAIN r : r[i] = r[j] => i = j
  BY <1>1, <1>2, <1>3
<1> QED
  BY <1>4 DEF r

\* pop removes the first entry of a queue without repetitions, and only it.
LEMMA RangeOfTail ==
  ASSUME NEW S, NEW q \in Seq(S), q # <<>>,
         \A i, j \in DOMAIN q : q[i] = q[j] => i = j
  PROVE  /\ Tail(q) \in Seq(S)
         /\ Head(q) \in Range(q)
         /\ Range(Tail(q)) = Range(q) \ {Head(q)}
         /\ \A i, j \in DOMAIN Tail(q) : Tail(q)[i] = Tail(q)[j] => i = j
<1>1. /\ Tail(q) \in Seq(S) /\ DOMAIN Tail(q) = 1 .. Len(q) - 1
      /\ DOMAIN q = 1 .. Len(q) /\ Len(q) \in Nat /\ Len(q) >= 1
      /\ Head(q) = q[1]
  OBVIOUS
<1>2. \A i \in 1 .. Len(q) - 1 : Tail(q)[i] = q[i + 1]
  OBVIOUS
<1>3. \A i \in 2 .. Len(q) : i - 1 \in 1 .. Len(q) - 1 /\ q[i] = Tail(q)[i - 1]
  BY <1>1, <1>2
<1>4. Range(Tail(q)) \subseteq Range(q) \ {Head(q)}
  BY <1>1, <1>2 DEF Range
<1>5. ASSUME NEW x \in Range(q), x # Head(q)
      PROVE  x \in Range(Tail(q))
  <2>1. PICK i \in 1 .. Len(q) : q[i] = x
    BY <1>1 DEF Range
  <2>2. i \in 2 .. Len(q)
    BY <1>1, <1>5, <2>1
  <2> QED
    BY <1>1, <1>3, <2>1, <2>2 DEF Range
<1>6. \A i, j \in DOMAIN Tail(q) : Tail(q)[i] = Tail(q)[j] => i = j
  BY <1>1, <1>2
<1> QED
  BY <1>1, <1>4, <1>5, <1>6 DEF Range

\* An empty queue has no entries, and only it.
LEMMA RangeOfEmpty ==
  ASSUME NEW S, NEW q \in Seq(S)
  PROVE  q = <<>> <=> Range(q) = {}
<1>1. DOMAIN q = 1 .. Len(q) /\ Len(q) \in Nat
  OBVIOUS
<1>2. q # <<>> => 1 \in DOMAIN q
  BY <1>1
<1> QED
  BY <1>2 DEF Range

-----------------------------------------------------------------------------
(* Threads *)

ThreadStates == [serv : Servs, pc : Pcs] \cup {Ended}

\* A thread that has not ended, and only it, has a ServerThread.
LEMMA ThreadServes ==
  ASSUME TypeOK, NEW t \in Threads
  PROVE  \/ /\ thread[t] = Ended /\ thread[t].serv \notin Servs
            /\ thread[t].serv = "none" /\ thread[t].pc = "none"
         \/ /\ thread[t] # Ended /\ thread[t].serv \in Servs
            /\ thread[t].pc \in Pcs
            /\ thread[t] = [serv |-> thread[t].serv, pc |-> thread[t].pc]
<1> USE ServerThreadsAssumption
<1>1. thread[t] \in [serv : Servs, pc : Pcs] \/ thread[t] = Ended
  BY DEF TypeOK
<1>2. CASE thread[t] = Ended
  BY <1>2 DEF Ended
<1>3. CASE thread[t] \in [serv : Servs, pc : Pcs]
  BY <1>3 DEF Ended
<1> QED
  BY <1>1, <1>2, <1>3

\* A thread inside its loop has a live ServerThread; Goto moves it and only it.
LEMMA ThreadMoves ==
  ASSUME TypeOK, NEW t \in Threads, NEW p \in Pcs, NEW q \in Pcs,
         At(t, p), Goto(t, q)
  PROVE  /\ thread[t].serv \in Servs /\ life[thread[t].serv] = "live"
         /\ thread[t] # Ended
         /\ thread' \in [Threads -> ThreadStates]
         /\ thread'[t] = [serv |-> thread[t].serv, pc |-> q]
         /\ \A u \in Threads \ {t} : thread'[u] = thread[u]
<1>1. thread[t] \in [serv : Servs, pc : Pcs] /\ thread[t] # Ended
  BY DEF TypeOK, At, Ended, Pcs
<1>2. thread'[t] = [serv |-> thread[t].serv, pc |-> q]
  BY <1>1 DEF TypeOK, Goto
<1>3. \A u \in Threads \ {t} : thread'[u] = thread[u]
  BY DEF TypeOK, Goto
<1>4. thread'[t] \in [serv : Servs, pc : Pcs]
  BY <1>1, <1>2
<1>5. thread' \in [Threads -> ThreadStates]
  BY <1>3, <1>4 DEF TypeOK, Goto, ThreadStates
<1> QED
  BY <1>1, <1>2, <1>3, <1>5 DEF At

\* A thread that ends, and only it, has no ServerThread any more.
LEMMA ThreadEnds ==
  ASSUME TypeOK, NEW t \in Threads, NEW p \in Pcs, At(t, p), End(t)
  PROVE  /\ thread[t].serv \in Servs /\ life[thread[t].serv] = "live"
         /\ thread[t] # Ended
         /\ thread' \in [Threads -> ThreadStates]
         /\ thread'[t] = Ended
         /\ \A u \in Threads \ {t} : thread'[u] = thread[u]
<1>1. thread[t] \in [serv : Servs, pc : Pcs] /\ thread[t] # Ended
  BY DEF TypeOK, At, Ended, Pcs
<1>2. thread'[t] = Ended /\ \A u \in Threads \ {t} : thread'[u] = thread[u]
  BY DEF TypeOK, End
<1>3. thread' \in [Threads -> ThreadStates]
  BY <1>2 DEF TypeOK, End, ThreadStates
<1> QED
  BY <1>1, <1>2, <1>3 DEF At

\* A new thread serves the ServerThread it was started for.
LEMMA ThreadStarts ==
  ASSUME TypeOK, NEW t \in Threads, NEW s \in Servs,
         thread' = [thread EXCEPT ![t] = [serv |-> s, pc |-> "test"]]
  PROVE  /\ thread' \in [Threads -> ThreadStates]
         /\ thread'[t] = [serv |-> s, pc |-> "test"]
         /\ \A u \in Threads \ {t} : thread'[u] = thread[u]
<1>1. thread'[t] = [serv |-> s, pc |-> "test"]
  BY DEF TypeOK
<1>2. \A u \in Threads \ {t} : thread'[u] = thread[u]
  BY DEF TypeOK
<1>3. [serv |-> s, pc |-> "test"] \in [serv : Servs, pc : Pcs]
  BY DEF Pcs
<1>4. thread' \in [Threads -> ThreadStates]
  BY <1>3 DEF TypeOK, ThreadStates
<1> QED
  BY <1>1, <1>2, <1>4

\* A ServerThread keeps its one thread when a thread moves in it or ends.
LEMMA MovesKeepOneThread ==
  ASSUME TypeOK, OneThreadPerServer, NEW t \in Threads,
         thread[t].serv \in Servs,
         thread'[t].serv = thread[t].serv \/ thread'[t] = Ended,
         \A u \in Threads \ {t} : thread'[u] = thread[u]
  PROVE  OneThreadPerServer'
<1> USE ServerThreadsAssumption
<1> SUFFICES ASSUME NEW u \in Threads, NEW w \in Threads, u # w,
                    thread'[u].serv = thread'[w].serv
             PROVE  thread'[u] = Ended
  BY DEF OneThreadPerServer, Ended
<1>1. thread[t] # Ended
  BY ThreadServes
<1>2. CASE u # t /\ w # t
  BY <1>2 DEF OneThreadPerServer
<1>3. CASE u = t
  <2>1. CASE thread'[t].serv = thread[t].serv
    BY <1>1, <1>3, <2>1 DEF OneThreadPerServer
  <2> QED
    BY <1>3, <2>1
<1>4. CASE w = t
  <2>1. CASE thread'[t].serv = thread[t].serv
    BY <1>1, <1>4, <2>1 DEF OneThreadPerServer
  <2>2. CASE thread'[t] = Ended
    <3>1. thread[u].serv = "none" /\ thread'[u] = thread[u]
      BY <1>4, <2>2 DEF Ended
    <3> QED
      BY <3>1, ThreadServes
  <2> QED
    BY <2>1, <2>2
<1> QED
  BY <1>2, <1>3, <1>4

-----------------------------------------------------------------------------
(* The listening thread *)

\* Accept only notes the connection.
LEMMA AcceptKeeps ==
  ASSUME SoundServer, NEW c \in Conns, Accept(c)
  PROVE  SoundServer'
<1> USE ServerThreadsAssumption DEF SoundServer, Accept
<1>1. TypeOK'
  BY DEF TypeOK, object, server, fate, NoConn
<1>2. SoundMap'
  BY DEF TypeOK, SoundMap, object, server
<1>3. SoundLock'
  BY DEF TypeOK, SoundLock, server
<1>4. SoundThreads'
  BY DEF TypeOK, SoundThreads, SoundThread, OneThreadPerServer, object, server,
     Ended
<1>5. SoundQueue'
  BY DEF TypeOK, SoundQueue, SoundMap, SoundThreads, SoundThread,
     OneThreadPerServer, Tended, object, server, Ended
<1>6. SoundConnections'
  BY DEF TypeOK, SoundConnections, object, server, fate, NoConn
<1> QED
  BY <1>1, <1>2, <1>3, <1>4, <1>5, <1>6

\* A refused connection was in no list.
LEMMA RefuseHandshakeKeeps ==
  ASSUME SoundServer, NEW c \in Conns, RefuseHandshake(c)
  PROVE  SoundServer'
<1> USE ServerThreadsAssumption DEF SoundServer, RefuseHandshake
<1>1. TypeOK'
  BY DEF TypeOK, object, server, fate, NoConn
<1>2. SoundMap'
  BY DEF TypeOK, SoundMap, object, server
<1>3. SoundLock'
  BY DEF TypeOK, SoundLock, server
<1>4. SoundThreads'
  BY DEF TypeOK, SoundThreads, SoundThread, OneThreadPerServer, object, server,
     Ended
<1>5. SoundQueue'
  BY DEF TypeOK, SoundQueue, SoundMap, SoundThreads, SoundThread,
     OneThreadPerServer, Tended, object, server, Ended
<1>6. SoundConnections'
  BY DEF TypeOK, SoundConnections, object, server, fate, NoConn
<1> QED
  BY <1>1, <1>2, <1>3, <1>4, <1>5, <1>6

\* Add queues at most the connection it was given, and for one ServerThread.
LEMMA AddQueues ==
  ASSUME TypeOK, NEW s \in Servs, NEW c \in Conns, Add(s, c)
  PROVE  /\ incoming' \in [Servs -> Seq(Conns)]
         /\ Range(incoming'[s]) \subseteq Range(incoming[s]) \cup {c}
         /\ \A r \in Servs \ {s} : incoming'[r] = incoming[r]
<1>1. CASE IsPortTaken(conns[s], c)
  BY <1>1 DEF TypeOK, Add
<1>2. CASE ~IsPortTaken(conns[s], c)
  <2>1. incoming' = [incoming EXCEPT ![s] = Append(incoming[s], c)]
    BY <1>2 DEF Add
  <2>2. incoming[s] \in Seq(Conns)
    BY DEF TypeOK
  <2>3. /\ Append(incoming[s], c) \in Seq(Conns)
        /\ Range(Append(incoming[s], c)) = Range(incoming[s]) \cup {c}
    BY <2>2, RangeOfAppend
  <2> QED
    BY <2>1, <2>3 DEF TypeOK
<1> QED
  BY <1>1, <1>2

\* A connection handed over was in no list, and enters one.
LEMMA HandOverKeeps ==
  ASSUME SoundServer, HandOver
  PROVE  SoundServer'
<1> USE ServerThreadsAssumption DEF SoundServer
<1> DEFINE c == listener.conn
           s == map[AddrOf[c]]
<1>a. listener' = [pc |-> "accept", conn |-> NoConn] /\ lock = "free"
  BY DEF HandOver
<1>b. c \in Conns /\ c \in accepted /\ freed[c] = 0
  BY DEF HandOver, TypeOK, SoundConnections
<1>c. AddrOf[c] \in DOMAIN map /\ Add(s, c)
  BY DEF HandOver
<1>d. s \in Servs /\ life[s] = "live" /\ address[s] = AddrOf[c]
  BY <1>c DEF TypeOK, SoundMap
<1>e. /\ incoming' \in [Servs -> Seq(Conns)]
      /\ Range(incoming'[s]) \subseteq Range(incoming[s]) \cup {c}
      /\ \A r \in Servs \ {s} : incoming'[r] = incoming[r]
  BY <1>b, <1>c, <1>d, AddQueues
<1>f. UNCHANGED <<accepted, collector, server, life, address, isLoop, conns,
                  closing, thread, fate>>
  BY DEF HandOver
<1> USE DEF server, object, fate
<1>1. TypeOK'
  BY <1>a, <1>e, <1>f DEF TypeOK, NoConn
<1>2. SoundMap'
  BY <1>a, <1>f DEF SoundMap
<1>3. SoundLock'
  BY <1>f DEF SoundLock
<1>4. SoundThreads'
  BY <1>f DEF SoundThreads, SoundThread, OneThreadPerServer
<1>5. SoundQueue'
  BY <1>a, <1>f DEF SoundQueue, SoundLock, Tended
<1>6. SoundConnections'
  <2> HIDE DEF c, s
  <2>1. \A r \in Servs : \A d \in conns'[r] \cup Range(incoming'[r]) :
          d \in conns[r] \cup Range(incoming[r]) \/ (d = c /\ r = s)
    BY <1>e, <1>f
  <2>2. \A r \in Servs : c \notin conns[r] \cup Range(incoming[r])
    BY DEF SoundConnections, c
  <2>3. \A r \in Servs :
          /\ closing'[r] \subseteq conns'[r]
          /\ conns'[r] \cap Range(incoming'[r]) = {}
    BY <1>e, <1>f, <2>1, <2>2 DEF SoundConnections
  <2>4. \A r \in Servs : life'[r] # "live" => conns'[r] = {} /\ incoming'[r] = <<>>
    BY <1>d, <1>e, <1>f DEF SoundConnections
  <2>5. \A r \in Servs : \A d \in conns'[r] \cup Range(incoming'[r]) :
          /\ d \in accepted' /\ freed'[d] = 0 /\ listener'.conn # d
          /\ AddrOf[d] = address'[r]
    BY <1>a, <1>b, <1>d, <1>e, <1>f, <2>1 DEF TypeOK, SoundConnections, NoConn
  <2>6. \A q, r \in Servs : q # r =>
          (conns'[q] \cup Range(incoming'[q]))
            \cap (conns'[r] \cup Range(incoming'[r])) = {}
    BY <1>f, <2>1, <2>2 DEF SoundConnections
  <2> QED
    BY <1>a, <1>f, <2>3, <2>4, <2>5, <2>6 DEF SoundConnections
<1> QED
  BY <1>1, <1>2, <1>3, <1>4, <1>5, <1>6

\* Only the listening thread moves.
LEMMA NotFoundKeeps ==
  ASSUME SoundServer, NotFound
  PROVE  SoundServer'
<1> USE ServerThreadsAssumption DEF SoundServer, NotFound
<1>1. TypeOK'
  BY DEF TypeOK, object, server, fate, NoConn
<1>2. SoundMap'
  BY DEF TypeOK, SoundMap, object, server
<1>3. SoundLock'
  BY DEF TypeOK, SoundLock, server
<1>4. SoundThreads'
  BY DEF TypeOK, SoundThreads, SoundThread, OneThreadPerServer, object, server,
     Ended
<1>5. SoundQueue'
  BY DEF TypeOK, SoundQueue, SoundMap, SoundThreads, SoundThread,
     OneThreadPerServer, Tended, object, server, Ended
<1>6. SoundConnections'
  BY DEF TypeOK, SoundConnections, object, server, fate, NoConn
<1> QED
  BY <1>1, <1>2, <1>3, <1>4, <1>5, <1>6

\* The new ServerThread is in nobody's way: its address was not on the map.
LEMMA CreateServerKeeps ==
  ASSUME SoundServer, NEW s \in Servs, NEW t \in Threads, CreateServer(s, t)
  PROVE  SoundServer'
<1> USE ServerThreadsAssumption DEF SoundServer
<1> DEFINE c == listener.conn
<1>a. listener.pc = "create" /\ listener' = [pc |-> "accept", conn |-> NoConn]
  BY DEF CreateServer
<1>b. /\ c \in Conns /\ c \in accepted /\ freed[c] = 0
      /\ AddrOf[c] \in Addrs /\ AddrOf[c] \notin DOMAIN map
  BY <1>a DEF TypeOK, SoundConnections, SoundMap
<1>c. life[s] = "unused" /\ lock = "free" /\ thread[t] = Ended /\ Add(s, c)
  BY DEF CreateServer
<1>d. /\ incoming' \in [Servs -> Seq(Conns)]
      /\ Range(incoming'[s]) \subseteq Range(incoming[s]) \cup {c}
      /\ \A r \in Servs \ {s} : incoming'[r] = incoming[r]
  BY <1>b, <1>c, AddQueues
<1>e. /\ thread' \in [Threads -> ThreadStates]
      /\ thread'[t] = [serv |-> s, pc |-> "test"]
      /\ \A u \in Threads \ {t} : thread'[u] = thread[u]
  BY ThreadStarts DEF CreateServer
<1>f. UNCHANGED <<accepted, collector, lock, trash, conns, closing, fate>>
  BY DEF CreateServer
<1>g. /\ DOMAIN map' = DOMAIN map \cup {AddrOf[c]} /\ map'[AddrOf[c]] = s
      /\ map' \in [DOMAIN map' -> Servs]
      /\ \A a \in DOMAIN map : map'[a] = map[a] /\ map[a] # s
  BY <1>b, <1>c DEF CreateServer, TypeOK, SoundMap
<1>h. /\ life' = [life EXCEPT ![s] = "live"] /\ life'[s] = "live"
      /\ address' = [address EXCEPT ![s] = AddrOf[c]] /\ address'[s] = AddrOf[c]
      /\ isLoop' = [isLoop EXCEPT ![s] = TRUE] /\ isLoop'[s] = TRUE
  BY DEF CreateServer, TypeOK
<1>i. conns[s] = {} /\ closing[s] = {} /\ incoming[s] = <<>>
  BY <1>c DEF SoundConnections
<1>j. \A u \in Threads : thread[u].serv # s
  BY <1>c, ThreadServes DEF SoundThreads, SoundThread
<1> HIDE DEF c
<1> USE DEF fate
<1>1. TypeOK'
  <2>1. life' \in [Servs -> {"unused", "live", "freed"}]
    BY <1>h DEF TypeOK
  <2>2. address' \in [Servs -> Addrs \cup {"none"}]
    BY <1>b, <1>h DEF TypeOK
  <2>3. isLoop' \in [Servs -> BOOLEAN]
    BY <1>h DEF TypeOK
  <2>4. DOMAIN map' \subseteq Addrs /\ map' \in [DOMAIN map' -> Servs]
    BY <1>b, <1>g DEF TypeOK
  <2> QED
    BY <1>a, <1>d, <1>e, <1>f, <2>1, <2>2, <2>3, <2>4
    DEF TypeOK, ThreadStates, NoConn
<1>2. SoundMap'
  BY <1>a, <1>b, <1>c, <1>g, <1>h DEF TypeOK, SoundMap
<1>3. SoundLock'
  <2>1. thread[t].pc # "forcing" /\ thread'[t].pc # "forcing"
    BY <1>c, <1>e DEF Ended
  <2> QED
    BY <1>e, <1>f, <2>1 DEF SoundLock
<1>4. SoundThreads'
  <2>1. OneThreadPerServer'
    BY <1>e, <1>j DEF SoundThreads, SoundThread, OneThreadPerServer
  <2>2. ASSUME NEW u \in Threads \ {t}, thread'[u] # Ended
        PROVE  /\ thread'[u] = thread[u]
               /\ thread[u].serv \in Servs /\ thread[u].serv # s
    BY <1>e, <1>j, <2>2, ThreadServes
  <2>3. \A r \in Servs : r # s =>
          /\ life'[r] = life[r] /\ isLoop'[r] = isLoop[r]
          /\ address'[r] = address[r]
    BY <1>h DEF TypeOK
  <2>4. ASSUME NEW u \in Threads, thread'[u] # Ended
        PROVE  SoundThread(u)'
    <3>1. CASE u = t
      BY <1>e, <1>f, <1>h, <1>i, <3>1 DEF SoundThread
    <3>2. CASE u # t
      BY <1>f, <2>2, <2>3, <2>4, <3>2 DEF SoundThreads, SoundThread
    <3> QED
      BY <3>1, <3>2
  <2> QED
    BY <2>1, <2>4 DEF SoundThreads, SoundThread
<1>5. SoundQueue'
  <2>1. \A a \in Range(trash) : a \in DOMAIN map /\ map'[a] = map[a]
                                /\ map[a] \in Servs \ {s}
    BY <1>g DEF TypeOK, SoundQueue
  <2>2. \A a \in Range(trash') :
          /\ a \in DOMAIN map'
          /\ ~isLoop'[map'[a]] /\ conns'[map'[a]] = {} /\ closing'[map'[a]] = {}
          /\ \A u \in Threads : thread'[u].serv = map'[a] => thread'[u].pc = "test"
    <3> SUFFICES ASSUME NEW a \in Range(trash')
                 PROVE  /\ a \in DOMAIN map'
                        /\ ~isLoop'[map'[a]] /\ conns'[map'[a]] = {}
                        /\ closing'[map'[a]] = {}
                        /\ \A u \in Threads :
                             thread'[u].serv = map'[a] => thread'[u].pc = "test"
      OBVIOUS
    <3>1. /\ a \in Range(trash) /\ map'[a] = map[a] /\ map[a] \in Servs
          /\ map[a] # s /\ a \in DOMAIN map'
      BY <1>f, <1>g, <2>1
    <3>2. ~isLoop'[map'[a]]
      BY <1>h, <3>1 DEF TypeOK, SoundQueue
    <3>3. \A u \in Threads : thread'[u].serv = map'[a] => thread'[u].pc = "test"
      BY <1>e, <3>1 DEF SoundQueue
    <3> QED
      BY <1>f, <3>1, <3>2, <3>3 DEF SoundQueue
  <2>3. \A r \in Servs : life'[r] = "live" => Tended(r)'
    <3>1. Tended(s)'
      BY <1>e DEF Tended
    <3>2. ASSUME NEW r \in Servs \ {s}, life'[r] = "live"
          PROVE  Tended(r)'
      <4>1. Tended(r) /\ address'[r] = address[r]
        BY <1>h, <3>2 DEF TypeOK, SoundQueue
      <4>2. CASE address[r] \in Range(trash)
        BY <1>f, <4>1, <4>2 DEF Tended
      <4>3. CASE \E u \in Threads : thread[u].serv = r
        <5>1. PICK u \in Threads : thread[u].serv = r
          BY <4>3
        <5>2. u # t
          BY <1>c, <5>1 DEF Ended
        <5> QED
          BY <1>e, <5>1, <5>2 DEF Tended
      <4> QED
        BY <4>1, <4>2, <4>3 DEF Tended
    <3> QED
      BY <3>1, <3>2
  <2>4. collector' # "deleting"
    BY <1>c, <1>f DEF SoundLock
  <2> QED
    BY <1>f, <2>2, <2>3, <2>4 DEF SoundQueue
<1>6. SoundConnections'
  <2>1. \A r \in Servs : \A d \in conns'[r] \cup Range(incoming'[r]) :
          (d \in conns[r] \cup Range(incoming[r]) /\ r # s) \/ (d = c /\ r = s)
    <3>1. Range(incoming[s]) = {}
      BY <1>i, RangeOfEmpty DEF TypeOK
    <3> QED
      BY <1>d, <1>f, <1>i, <3>1
  <2>2. \A r \in Servs : c \notin conns[r] \cup Range(incoming[r])
    BY DEF SoundConnections, c
  <2>3. \A r \in Servs :
          /\ closing'[r] \subseteq conns'[r]
          /\ conns'[r] \cap Range(incoming'[r]) = {}
    BY <1>d, <1>f, <1>i, <2>1, <2>2 DEF SoundConnections
  <2>4. \A r \in Servs : life'[r] # "live" => conns'[r] = {} /\ incoming'[r] = <<>>
    BY <1>d, <1>f, <1>h DEF TypeOK, SoundConnections
  <2>5. \A r \in Servs : \A d \in conns'[r] \cup Range(incoming'[r]) :
          /\ d \in accepted' /\ freed'[d] = 0 /\ listener'.conn # d
          /\ AddrOf[d] = address'[r]
    BY <1>a, <1>b, <1>d, <1>f, <1>h, <2>1 DEF TypeOK, SoundConnections, NoConn
  <2>6. \A q, r \in Servs : q # r =>
          (conns'[q] \cup Range(incoming'[q]))
            \cap (conns'[r] \cup Range(incoming'[r])) = {}
    BY <1>f, <2>1, <2>2 DEF SoundConnections
  <2> QED
    BY <1>a, <1>f, <2>3, <2>4, <2>5, <2>6 DEF SoundConnections
<1> QED
  BY <1>1, <1>2, <1>3, <1>4, <1>5, <1>6

\* A thread that leaves its loop has put its address on the queue.
LEMMA TestKeeps ==
  ASSUME SoundServer, NEW t \in Threads, Test(t)
  PROVE  SoundServer'
<1> USE ServerThreadsAssumption DEF SoundServer
<1> DEFINE s == thread[t].serv
<1>a. /\ UNCHANGED <<listener, accepted, collector, server, object, fate>>
      /\ At(t, "test")
      /\ thread[t].pc = "test"
  BY DEF Test, At
<1>b. /\ s \in Servs /\ life[s] = "live" /\ thread[t] # Ended
      /\ thread' \in [Threads -> ThreadStates]
      /\ \/ isLoop[s] /\ thread'[t] = [serv |-> s, pc |-> "turn"]
         \/ ~isLoop[s] /\ thread'[t] = Ended
      /\ \A u \in Threads \ {t} : thread'[u] = thread[u]
  <2> USE DEF Pcs
  <2>1. CASE isLoop[s]
    <3>1. Goto(t, "turn")
      BY <2>1 DEF Test
    <3> QED
      BY <1>a, <2>1, <3>1, ThreadMoves
  <2>2. CASE ~isLoop[s]
    <3>1. End(t)
      BY <2>2 DEF Test
    <3> QED
      BY <1>a, <2>2, <3>1, ThreadEnds
  <2> QED
    BY <2>1, <2>2
<1>c. ~isLoop[s] => address[s] \in Range(trash)
  BY <1>a, <1>b DEF SoundThreads, SoundThread
<1> HIDE DEF s
<1> USE DEF server, object, fate
<1>1. TypeOK'
  BY <1>a, <1>b DEF TypeOK, ThreadStates
<1>2. SoundMap'
  BY <1>a DEF SoundMap
<1>3. SoundLock'
  <2>1. thread'[t].pc # "forcing"
    BY <1>b DEF Ended
  <2> QED
    BY <1>a, <1>b, <2>1 DEF SoundLock
<1>4. SoundThreads'
  <2>1. thread'[t].serv = s \/ thread'[t] = Ended
    BY <1>b
  <2>2. OneThreadPerServer'
    BY <1>b, <2>1, MovesKeepOneThread DEF s, SoundThreads, SoundThread
  <2>3. \/ thread'[t] = Ended
        \/ /\ thread'[t].serv = s /\ thread'[t].pc = "turn"
           /\ isLoop[s] /\ closing[s] = {}
    BY <1>a, <1>b DEF SoundThreads, SoundThread, s
  <2> QED
    BY SMTT(30), <1>a, <1>b, <2>2, <2>3 DEF SoundThreads, SoundThread
<1>5. SoundQueue'
  <2>1. \A a \in Range(trash) : \A u \in Threads :
          thread'[u].serv = map[a] => thread'[u].pc = "test"
    <3> SUFFICES ASSUME NEW a \in Range(trash), NEW u \in Threads,
                        thread'[u].serv = map[a]
                 PROVE  thread'[u].pc = "test"
      OBVIOUS
    <3>1. map[a] \in Servs /\ ~isLoop[map[a]]
      BY DEF TypeOK, SoundQueue
    <3>2. u # t
      BY <1>b, <3>1 DEF Ended
    <3> QED
      BY <1>b, <3>2 DEF SoundQueue
  <2>2. \A r \in Servs : life[r] = "live" => Tended(r)'
    <3> SUFFICES ASSUME NEW r \in Servs, life[r] = "live"
                 PROVE  Tended(r)'
      OBVIOUS
    <3>1. CASE r = s
      BY <1>a, <1>b, <1>c, <3>1 DEF Tended, SoundThreads, SoundThread
    <3>2. CASE r # s
      BY <1>a, <1>b, <3>2 DEF SoundQueue, Tended, s
    <3> QED
      BY <3>1, <3>2
  <2>3. collector = "deleting" =>
          \A u \in Threads : thread'[u].serv # map[Head(trash)]
    <3> SUFFICES ASSUME collector = "deleting", NEW u \in Threads
                 PROVE  thread'[u].serv # map[Head(trash)]
      OBVIOUS
    <3>1. /\ map[Head(trash)] \in Servs
          /\ \A w \in Threads : thread[w].serv # map[Head(trash)]
      BY DEF SoundQueue, TypeOK
    <3> QED
      BY <1>b, <3>1 DEF s, Ended
  <2> QED
    BY <1>a, <2>1, <2>2, <2>3 DEF SoundQueue
<1>6. SoundConnections'
  BY <1>a DEF SoundConnections
<1> QED
  BY <1>1, <1>2, <1>3, <1>4, <1>5, <1>6

\* A pass closes connections the thread has, each once.
LEMMA TurnKeeps ==
  ASSUME SoundServer, NEW t \in Threads, NEW done \in SUBSET Conns, Turn(t, done)
  PROVE  SoundServer'
<1> USE ServerThreadsAssumption DEF SoundServer, Turn, At, Goto
<1>1. TypeOK'
  <2>1. thread' \in [Threads -> ThreadStates]
    <3>1. At(t, "turn") /\ Goto(t, "sweep")
      OBVIOUS
    <3> QED
      BY <3>1, ThreadMoves DEF Pcs
  <2> QED
    BY <2>1 DEF TypeOK, ThreadStates, server, fate
<1>2. SoundMap'
  BY DEF TypeOK, SoundMap, object, server
<1>3. SoundLock'
  BY DEF TypeOK, SoundLock, server
<1>4. SoundThreads'
  BY DEF TypeOK, SoundThreads, SoundThread, OneThreadPerServer, object, server,
     Ended
<1>5. SoundQueue'
  BY DEF TypeOK, SoundQueue, SoundMap, SoundThreads, SoundThread,
     OneThreadPerServer, Tended, object, server, Ended
<1>6. SoundConnections'
  BY DEF TypeOK, SoundConnections, object, server, fate, NoConn
<1> QED
  BY <1>1, <1>2, <1>3, <1>4, <1>5, <1>6

\* A pass that throws at once has closed nothing.
LEMMA TurnThrowsKeeps ==
  ASSUME SoundServer, NEW t \in Threads, TurnThrows(t, {})
  PROVE  SoundServer'
<1> USE ServerThreadsAssumption DEF SoundServer, TurnThrows, At, Goto
<1>1. TypeOK'
  <2>1. thread' \in [Threads -> ThreadStates]
    <3>1. At(t, "turn") /\ Goto(t, "force")
      OBVIOUS
    <3> QED
      BY <3>1, ThreadMoves DEF Pcs
  <2> QED
    BY <2>1 DEF TypeOK, ThreadStates, server, fate
<1>2. SoundMap'
  BY DEF TypeOK, SoundMap, object, server
<1>3. SoundLock'
  BY DEF TypeOK, SoundLock, server
<1>4. SoundThreads'
  BY DEF TypeOK, SoundThreads, SoundThread, OneThreadPerServer, object, server,
     Ended
<1>5. SoundQueue'
  BY DEF TypeOK, SoundQueue, SoundMap, SoundThreads, SoundThread,
     OneThreadPerServer, Tended, object, server, Ended
<1>6. SoundConnections'
  BY DEF TypeOK, SoundConnections, object, server, fate, NoConn
<1> QED
  BY <1>1, <1>2, <1>3, <1>4, <1>5, <1>6

\* What was closed is deleted once.
LEMMA SweepKeeps ==
  ASSUME SoundServer, NEW t \in Threads, Sweep(t)
  PROVE  SoundServer'
<1> USE ServerThreadsAssumption DEF SoundServer, Sweep, At, Goto
<1>1. TypeOK'
  <2>1. thread' \in [Threads -> ThreadStates]
    <3>1. At(t, "sweep") /\ Goto(t, "drain")
      OBVIOUS
    <3> QED
      BY <3>1, ThreadMoves DEF Pcs
  <2>2. freed' \in [Conns -> Nat]
    BY DEF TypeOK
  <2>3. conns' \in [Servs -> SUBSET Conns] /\ closing' \in [Servs -> SUBSET Conns]
    BY DEF TypeOK
  <2>4. released' \subseteq Conns
    <3>1. thread[t].serv \in Servs
      BY ThreadServes DEF Pcs
    <3> QED
      BY <3>1 DEF TypeOK
  <2> QED
    BY <2>1, <2>2, <2>3, <2>4 DEF TypeOK, ThreadStates, server
<1>2. SoundMap'
  BY DEF TypeOK, SoundMap, object, server
<1>3. SoundLock'
  BY DEF TypeOK, SoundLock, server
<1>4. SoundThreads'
  BY DEF TypeOK, SoundThreads, SoundThread, OneThreadPerServer, object, server,
     Ended
<1>5. SoundQueue'
  BY DEF TypeOK, SoundQueue, SoundMap, SoundThreads, SoundThread,
     OneThreadPerServer, Tended, object, server, Ended
<1>6. SoundConnections'
  <2> DEFINE s == thread[t].serv
  <2>1. s \in Servs /\ life[s] = "live"
    BY ThreadServes DEF Pcs
  <2>2. \A r \in Servs \ {s} : conns'[r] = conns[r] /\ closing'[r] = closing[r]
    BY DEF TypeOK
  <2>3. conns'[s] = conns[s] \ closing[s] /\ closing'[s] = {}
    BY <2>1 DEF TypeOK
  <2>4. \A c \in Conns : c \notin closing[s] => freed'[c] = freed[c]
    BY DEF TypeOK
  <2>5. \A c \in Conns : c \in closing[s] => freed[c] = 0 /\ freed'[c] = 1
    BY <2>1 DEF TypeOK, SoundConnections
  <2>6. \A c \in closing[s] : c \in conns[s] /\ c \in accepted /\ listener.conn # c
    BY <2>1 DEF SoundConnections
  <2>7. UNCHANGED <<listener, accepted, life, address, incoming>>
    OBVIOUS
  <2> HIDE DEF s, Sweep
  <2>8. \A r \in Servs : \A c \in conns'[r] \cup Range(incoming'[r]) :
          c \in conns[r] \cup Range(incoming[r]) /\ c \notin closing[s]
    BY <2>1, <2>2, <2>3, <2>6, <2>7 DEF SoundConnections
  <2>9. \A r \in Servs :
          /\ closing'[r] \subseteq conns'[r]
          /\ conns'[r] \cap Range(incoming'[r]) = {}
          /\ life'[r] # "live" => conns'[r] = {} /\ incoming'[r] = <<>>
    BY <2>1, <2>2, <2>3, <2>7 DEF SoundConnections
  <2>10. \A r \in Servs : \A c \in conns'[r] \cup Range(incoming'[r]) :
           /\ c \in accepted' /\ freed'[c] = 0 /\ listener'.conn # c
           /\ AddrOf[c] = address'[r]
    <3>1. \A r \in Servs : \A c \in conns[r] \cup Range(incoming[r]) :
            /\ c \in accepted /\ c \in Conns /\ freed[c] = 0
            /\ listener.conn # c /\ AddrOf[c] = address[r]
      BY DEF SoundConnections, TypeOK
    <3> QED
      BY <2>4, <2>7, <2>8, <3>1
  <2>11. \A q, r \in Servs : q # r =>
           (conns'[q] \cup Range(incoming'[q]))
             \cap (conns'[r] \cup Range(incoming'[r])) = {}
    BY <2>8 DEF SoundConnections
  <2>12. listener.conn # NoConn =>
           listener.conn \in accepted /\ freed'[listener.conn] = 0
    BY <2>4, <2>6 DEF TypeOK, SoundConnections
  <2>13. \A c \in Conns : freed'[c] <= 1 /\ (c \notin accepted => freed'[c] = 0)
    <3> SUFFICES ASSUME NEW c \in Conns
                 PROVE  freed'[c] <= 1 /\ (c \notin accepted => freed'[c] = 0)
      OBVIOUS
    <3>1. CASE c \in closing[s]
      BY <2>5, <2>6, <3>1
    <3>2. CASE c \notin closing[s]
      BY <2>4, <3>2 DEF SoundConnections
    <3> QED
      BY <3>1, <3>2
  <2> QED
    BY <2>7, <2>9, <2>10, <2>11, <2>12, <2>13 DEF SoundConnections
<1> QED
  BY <1>1, <1>2, <1>3, <1>4, <1>5, <1>6

\* Nothing enters m_conns that was not handed over.
LEMMA TakenInBounds ==
  ASSUME NEW taken, NEW queue
  PROVE  TakenIn(taken, queue) \subseteq taken \cup Range(queue)
BY DEF TakenIn, Range

\* What is taken in leaves m_incoming; the flag says whether anything is left.
LEMMA DrainKeeps ==
  ASSUME SoundServer, NEW t \in Threads, Drain(t)
  PROVE  SoundServer'
<1> USE ServerThreadsAssumption DEF SoundServer
<1> DEFINE s == thread[t].serv
           now == TakenIn(conns[s], incoming[s])
<1>a. /\ UNCHANGED <<listener, accepted, collector, server, life, address,
                     closing, fate>>
      /\ thread[t].pc = "drain" /\ At(t, "drain")
  BY DEF Drain, At
<1>b. /\ s \in Servs /\ life[s] = "live" /\ thread[t] # Ended
      /\ thread' \in [Threads -> ThreadStates]
      /\ \/ now # {} /\ thread'[t] = [serv |-> s, pc |-> "test"]
         \/ now = {} /\ thread'[t] = [serv |-> s, pc |-> "stop"]
      /\ \A u \in Threads \ {t} : thread'[u] = thread[u]
  <2> USE DEF Pcs
  <2>1. CASE now # {}
    <3>1. Goto(t, "test")
      BY <2>1 DEF Drain
    <3> QED
      BY <1>a, <2>1, <3>1, ThreadMoves
  <2>2. CASE now = {}
    <3>1. Goto(t, "stop")
      BY <2>2 DEF Drain
    <3> QED
      BY <1>a, <2>2, <3>1, ThreadMoves
  <2> QED
    BY <2>1, <2>2
<1>c. isLoop[s] /\ closing[s] = {}
  BY <1>a, <1>b DEF SoundThreads, SoundThread
<1>d. /\ conns' = [conns EXCEPT ![s] = now] /\ conns'[s] = now
      /\ incoming' = [incoming EXCEPT ![s] = <<>>] /\ incoming'[s] = <<>>
      /\ isLoop' = [isLoop EXCEPT ![s] = now # {}] /\ isLoop'[s] = (now # {})
  BY ZenonT(60), <1>b, <1>c DEF Drain, TypeOK
<1>e. /\ now \subseteq conns[s] \cup Range(incoming[s])
      /\ now \subseteq Conns
  <2>1. now \subseteq conns[s] \cup Range(incoming[s])
    BY TakenInBounds
  <2>2. conns[s] \subseteq Conns /\ incoming[s] \in Seq(Conns)
    BY <1>b DEF TypeOK
  <2>3. Range(incoming[s]) \subseteq Conns
    BY <2>2 DEF Range
  <2> QED
    BY <2>1, <2>2, <2>3
<1>f. \A r \in Servs : r # s => /\ conns'[r] = conns[r]
                               /\ incoming'[r] = incoming[r]
                               /\ isLoop'[r] = isLoop[r]
  BY <1>d DEF TypeOK
<1>g. \A a \in Range(trash) : a \in DOMAIN map /\ map[a] \in Servs /\ map[a] # s
  BY <1>a, <1>b DEF TypeOK, SoundQueue
<1> HIDE DEF now, s
<1> USE DEF server, fate
<1>1. TypeOK'
  <2>1. /\ conns' \in [Servs -> SUBSET Conns]
        /\ incoming' \in [Servs -> Seq(Conns)]
        /\ isLoop' \in [Servs -> BOOLEAN]
    <3>1. now \in SUBSET Conns /\ <<>> \in Seq(Conns) /\ (now # {}) \in BOOLEAN
      BY <1>e
    <3>2. conns' \in [Servs -> SUBSET Conns]
      BY <1>d, <3>1 DEF TypeOK
    <3>3. incoming' \in [Servs -> Seq(Conns)]
      BY <1>d, <3>1 DEF TypeOK
    <3>4. isLoop' \in [Servs -> BOOLEAN]
      BY <1>d, <3>1 DEF TypeOK
    <3> QED
      BY <3>2, <3>3, <3>4
  <2> QED
    BY <1>a, <1>b, <2>1 DEF TypeOK, ThreadStates
<1>2. SoundMap'
  BY <1>a DEF SoundMap
<1>3. SoundLock'
  <2>1. thread[t].pc # "forcing" /\ thread'[t].pc # "forcing"
    BY <1>a, <1>b
  <2> QED
    BY <1>a, <1>b, <2>1 DEF SoundLock
<1>4. SoundThreads'
  <2>1. OneThreadPerServer'
    BY <1>b, MovesKeepOneThread DEF s, SoundThreads, SoundThread
  <2>2. ASSUME NEW u \in Threads, u # t, thread[u] # Ended
        PROVE  thread[u].serv \in Servs /\ thread[u].serv # s
    BY <1>b, <2>2, ThreadServes DEF s, SoundThreads, SoundThread, OneThreadPerServer
  <2>3. ASSUME NEW u \in Threads, thread'[u] # Ended
        PROVE  SoundThread(u)'
    <3>1. CASE u = t
      <4>1. thread'[u].serv = s /\ thread'[u].pc \in {"test", "stop"}
        BY <1>b, <3>1
      <4>2. thread'[u].pc = "stop" => now = {}
        BY <1>b, <3>1
      <4>3. thread'[u].pc = "test" => now # {}
        BY <1>b, <3>1
      <4> QED
        BY <1>a, <1>b, <1>c, <1>d, <4>1, <4>2, <4>3 DEF SoundThread
    <3>2. CASE u # t
      BY SMTT(30), <1>a, <1>b, <1>f, <2>2, <2>3, <3>2 DEF SoundThreads, SoundThread
    <3> QED
      BY <3>1, <3>2
  <2> QED
    BY <2>1, <2>3 DEF SoundThreads, SoundThread
<1>5. SoundQueue'
  <2>1. \A a \in Range(trash) :
          /\ ~isLoop'[map[a]] /\ conns'[map[a]] = {}
          /\ \A u \in Threads : thread'[u].serv = map[a] => thread'[u].pc = "test"
    BY <1>b, <1>f, <1>g DEF SoundQueue
  <2>2. \A r \in Servs : life[r] = "live" => Tended(r)'
    BY <1>a, <1>b DEF SoundQueue, Tended, s
  <2>3. collector = "deleting" =>
          /\ incoming'[map[Head(trash)]] = <<>>
          /\ \A u \in Threads : thread'[u].serv # map[Head(trash)]
    <3> SUFFICES ASSUME collector = "deleting"
                 PROVE  /\ incoming'[map[Head(trash)]] = <<>>
                        /\ \A u \in Threads : thread'[u].serv # map[Head(trash)]
      OBVIOUS
    <3>1. /\ map[Head(trash)] \in Servs /\ incoming[map[Head(trash)]] = <<>>
          /\ \A u \in Threads : thread[u].serv # map[Head(trash)]
      BY DEF SoundQueue, TypeOK
    <3>2. map[Head(trash)] # s
      BY <3>1 DEF s
    <3> QED
      BY <1>b, <1>f, <3>1, <3>2
  <2> QED
    BY <1>a, <2>1, <2>2, <2>3 DEF SoundQueue
<1>6. SoundConnections'
  <2>1. Range(incoming'[s]) = {}
    BY <1>d DEF Range
  <2>2. \A r \in Servs : \A d \in conns'[r] \cup Range(incoming'[r]) :
          d \in conns[r] \cup Range(incoming[r])
    BY <1>d, <1>e, <1>f, <2>1
  <2>3. \A r \in Servs :
          /\ closing'[r] \subseteq conns'[r]
          /\ conns'[r] \cap Range(incoming'[r]) = {}
          /\ life'[r] # "live" => conns'[r] = {} /\ incoming'[r] = <<>>
    BY SMTT(30), <1>a, <1>b, <1>c, <1>f, <2>1 DEF SoundConnections
  <2> QED
    BY <1>a, <2>2, <2>3 DEF SoundConnections
<1> QED
  BY <1>1, <1>2, <1>3, <1>4, <1>5, <1>6

\* An address enters the queue that was not on it.
LEMMA StopServerKeeps ==
  ASSUME SoundServer, NEW t \in Threads, StopServer(t)
  PROVE  SoundServer'
<1> USE ServerThreadsAssumption DEF SoundServer
<1> DEFINE s == thread[t].serv
<1>a. /\ UNCHANGED <<listener, accepted, collector, map, lock, life, address,
                     conns, incoming, closing, fate>>
      /\ thread[t].pc = "stop" /\ At(t, "stop") /\ Goto(t, "test")
      /\ trash' = Append(trash, address[s])
      /\ isLoop' = [isLoop EXCEPT ![s] = FALSE]
      /\ lock = "free"
  BY DEF StopServer, At
<1>b. /\ s \in Servs /\ life[s] = "live" /\ thread[t] # Ended
      /\ thread' \in [Threads -> ThreadStates]
      /\ thread'[t] = [serv |-> s, pc |-> "test"]
      /\ \A u \in Threads \ {t} : thread'[u] = thread[u]
  BY <1>a, ThreadMoves DEF Pcs
<1>c. ~isLoop[s] /\ conns[s] = {} /\ closing[s] = {}
  BY <1>a, <1>b DEF SoundThreads, SoundThread
<1>d. isLoop' = isLoop
  BY <1>a, <1>c DEF TypeOK
<1>e. /\ address[s] \in Addrs /\ address[s] \in DOMAIN map
      /\ map[address[s]] = s
  BY <1>b DEF TypeOK, SoundMap
<1>f. address[s] \notin Range(trash)
  BY <1>a, <1>e DEF SoundQueue
<1>g. trash' \in Seq(Addrs) /\ Range(trash') = Range(trash) \cup {address[s]}
  BY <1>a, <1>e, RangeOfAppend DEF TypeOK
<1>h. \A i, j \in DOMAIN trash' : trash'[i] = trash'[j] => i = j
  <2>1. trash \in Seq(Addrs) /\ \A i, j \in DOMAIN trash : trash[i] = trash[j] => i = j
    BY DEF TypeOK, SoundQueue
  <2> QED
    BY <1>a, <1>e, <1>f, <2>1, AppendKeepsDistinct
<1> HIDE DEF s
<1> USE DEF fate
<1>1. TypeOK'
  BY <1>a, <1>b, <1>d, <1>g DEF TypeOK, ThreadStates
<1>2. SoundMap'
  BY <1>a DEF SoundMap
<1>3. SoundLock'
  <2>1. thread[t].pc # "forcing" /\ thread'[t].pc # "forcing"
    BY <1>a, <1>b
  <2> QED
    BY <1>a, <1>b, <2>1 DEF SoundLock
<1>4. SoundThreads'
  <2>1. OneThreadPerServer'
    BY <1>b, MovesKeepOneThread DEF s, SoundThreads
  <2>2. ASSUME NEW u \in Threads, thread'[u] # Ended
        PROVE  SoundThread(u)'
    <3>1. CASE u = t
      BY <1>a, <1>b, <1>c, <1>g, <3>1 DEF SoundThread
    <3>2. CASE u # t
      BY <1>a, <1>b, <1>d, <1>g, <2>2, <3>2 DEF SoundThreads, SoundThread
    <3> QED
      BY <3>1, <3>2
  <2> QED
    BY <2>1, <2>2 DEF SoundThreads
<1>5. SoundQueue'
  <2>1. \A a \in Range(trash') :
          /\ a \in DOMAIN map
          /\ ~isLoop[map[a]] /\ conns[map[a]] = {} /\ closing[map[a]] = {}
          /\ \A u \in Threads : thread'[u].serv = map[a] => thread'[u].pc = "test"
    <3> TAKE a \in Range(trash')
    <3>1. CASE a = address[s]
      <4>1. \A u \in Threads : u # t => thread[u].serv # s
        BY <1>b DEF SoundThreads, OneThreadPerServer, s
      <4> QED
        BY <1>b, <1>c, <1>e, <3>1, <4>1
    <3>2. CASE a # address[s]
      BY <1>b, <1>g, <3>2 DEF SoundQueue
    <3> QED
      BY <3>1, <3>2
  <2>2. \A r \in Servs : life[r] = "live" => Tended(r)'
    <3> SUFFICES ASSUME NEW r \in Servs, life[r] = "live"
                 PROVE  Tended(r)'
      OBVIOUS
    <3>1. thread'[t].serv = thread[t].serv
      BY <1>b DEF s
    <3>2. \A u \in Threads : thread'[u].serv = thread[u].serv
      BY <1>b, <3>1
    <3>3. Range(trash) \subseteq Range(trash') /\ address' = address
      BY <1>a, <1>g
    <3> QED BY <3>2, <3>3 DEF SoundQueue, Tended
  <2>3. collector # "deleting"
    BY <1>a DEF SoundLock
  <2> QED
    BY ZenonT(60), <1>a, <1>d, <1>h, <2>1, <2>2, <2>3 DEF SoundQueue
<1>6. SoundConnections'
  BY <1>a DEF SoundConnections
<1> QED
  BY <1>1, <1>2, <1>3, <1>4, <1>5, <1>6

\* ForceStop finds its ServerThread, which is not on the queue.
LEMMA ForceStopKeeps ==
  ASSUME SoundServer, NEW t \in Threads, ForceStop(t)
  PROVE  SoundServer'
<1> USE ServerThreadsAssumption DEF SoundServer
<1> DEFINE s == thread[t].serv
<1>a. /\ UNCHANGED <<listener, accepted, collector, map, trash, life, address,
                     conns, incoming, closing, fate>>
      /\ thread[t].pc = "force" /\ At(t, "force") /\ lock = "free"
  BY DEF ForceStop, At
<1>b. s \in Servs /\ life[s] = "live" /\ thread[t] # Ended
  BY <1>a, ThreadServes DEF At, Pcs
<1>c. address[s] \in DOMAIN map /\ map[address[s]] = s /\ closing[s] = {}
  BY <1>a, <1>b DEF SoundMap, SoundThreads, SoundThread
<1>d. lock' = t /\ Goto(t, "forcing") /\ isLoop' = [isLoop EXCEPT ![s] = FALSE]
  BY <1>c DEF ForceStop
<1>e. /\ thread' \in [Threads -> ThreadStates]
      /\ thread'[t] = [serv |-> s, pc |-> "forcing"]
      /\ \A u \in Threads \ {t} : thread'[u] = thread[u]
  BY <1>a, <1>d, ThreadMoves DEF Pcs
<1>f. isLoop' \in [Servs -> BOOLEAN] /\ \A r \in Servs : r # s => isLoop'[r] = isLoop[r]
  BY <1>d DEF TypeOK
<1>g. \A a \in Range(trash) : a \in DOMAIN map /\ map[a] \in Servs /\ map[a] # s
  BY <1>a, <1>b DEF TypeOK, SoundQueue
<1>h. collector = "idle"
  BY <1>a DEF SoundLock, TypeOK
<1>i. \A u \in Threads : u # t /\ thread[u] # Ended => thread[u].serv \in Servs /\ thread[u].serv # s
  BY <1>b, ThreadServes DEF SoundThreads, OneThreadPerServer
<1> HIDE DEF s
<1> USE DEF fate
<1>1. TypeOK'
  BY <1>a, <1>d, <1>e, <1>f DEF TypeOK, ThreadStates
<1>2. SoundMap'
  BY <1>a DEF SoundMap
<1>3. SoundLock'
  <2>1. \A u \in Threads : thread[u].pc # "forcing"
    BY <1>a DEF SoundLock
  <2>2. \A u \in Threads : lock' = u <=> thread'[u].pc = "forcing"
    BY <1>d, <1>e, <2>1
  <2>3. lock' # "collector"
    BY <1>d
  <2> QED
    BY <1>a, <1>h, <2>2, <2>3 DEF SoundLock
<1>4. SoundThreads'
  <2>1. OneThreadPerServer'
    BY <1>b, <1>e, MovesKeepOneThread DEF s, SoundThreads
  <2>2. ASSUME NEW u \in Threads, thread'[u] # Ended
        PROVE  SoundThread(u)'
    <3>1. CASE u = t
      BY <1>a, <1>b, <1>c, <1>e, <3>1 DEF SoundThread
    <3>2. CASE u # t
      BY <1>a, <1>e, <1>f, <1>i, <2>2, <3>2 DEF SoundThreads, SoundThread
    <3> QED
      BY <3>1, <3>2
  <2> QED
    BY <2>1, <2>2 DEF SoundThreads
<1>5. SoundQueue'
  <2>1. \A a \in Range(trash) :
          /\ ~isLoop'[map[a]]
          /\ \A u \in Threads : thread'[u].serv = map[a] => thread'[u].pc = "test"
    BY <1>e, <1>f, <1>g DEF SoundQueue
  <2>2. \A r \in Servs : life[r] = "live" => Tended(r)'
    BY <1>a, <1>e DEF SoundQueue, Tended, s
  <2> QED
    BY <1>a, <1>h, <2>1, <2>2 DEF SoundQueue
<1>6. SoundConnections'
  BY <1>a DEF SoundConnections
<1> QED
  BY <1>1, <1>2, <1>3, <1>4, <1>5, <1>6

\* A deleted ServerThread leaves the map and nothing else does.
LEMMA DeleteForgets ==
  ASSUME TypeOK, SoundMap, NEW s \in Servs, life[s] = "live", Delete(s)
  PROVE  /\ address[s] \in DOMAIN map /\ map[address[s]] = s
         /\ DOMAIN map' = DOMAIN map \ {address[s]}
         /\ map' \in [DOMAIN map' -> Servs]
         /\ \A a \in DOMAIN map' : map'[a] = map[a] /\ map[a] \in Servs \ {s}
         /\ life' = [life EXCEPT ![s] = "freed"]
         /\ conns' = [conns EXCEPT ![s] = {}]
         /\ incoming' = [incoming EXCEPT ![s] = <<>>]
         /\ closing' = [closing EXCEPT ![s] = {}]
         /\ UNCHANGED <<address, isLoop, released>>
<1>1. address[s] \in DOMAIN map /\ map[address[s]] = s
  BY DEF SoundMap
<1>2. /\ DOMAIN map' = DOMAIN map \ {address[s]}
      /\ \A a \in DOMAIN map' : map'[a] = map[a]
      /\ map' = [a \in DOMAIN map \ {address[s]} |-> map[a]]
  BY DEF Delete, Restrict
<1>3. \A a \in DOMAIN map' : map[a] \in Servs \ {s}
  BY <1>2 DEF TypeOK, SoundMap
<1>4. map' \in [DOMAIN map' -> Servs]
  BY <1>2, <1>3
<1> QED
  BY <1>1, <1>2, <1>3, <1>4 DEF Delete

\* Types after Delete, but for what its callers change.
LEMMA DeleteTypes ==
  ASSUME TypeOK, SoundMap, NEW s \in Servs, life[s] = "live", Delete(s)
  PROVE  /\ DOMAIN map' \subseteq Addrs /\ map' \in [DOMAIN map' -> Servs]
         /\ life' \in [Servs -> {"unused", "live", "freed"}]
         /\ address' \in [Servs -> Addrs \cup {"none"}]
         /\ isLoop' \in [Servs -> BOOLEAN]
         /\ conns' \in [Servs -> SUBSET Conns]
         /\ incoming' \in [Servs -> Seq(Conns)]
         /\ closing' \in [Servs -> SUBSET Conns]
         /\ freed' \in [Conns -> Nat] /\ released' \subseteq Conns
<1>1. DOMAIN map' \subseteq Addrs /\ map' \in [DOMAIN map' -> Servs]
  <2>1. /\ DOMAIN map' = DOMAIN map \ {address[s]}
        /\ map' \in [DOMAIN map' -> Servs]
    BY DeleteForgets
  <2> QED
    BY <2>1 DEF TypeOK
<1>2. <<>> \in Seq(Conns) /\ {} \in SUBSET Conns
  OBVIOUS
<1>3. life' \in [Servs -> {"unused", "live", "freed"}]
  BY DEF TypeOK, Delete
<1>4. conns' \in [Servs -> SUBSET Conns] /\ closing' \in [Servs -> SUBSET Conns]
  BY <1>2 DEF TypeOK, Delete
<1>5. incoming' \in [Servs -> Seq(Conns)]
  BY <1>2 DEF TypeOK, Delete
<1>6. freed' \in [Conns -> Nat]
  <2>1. \A set, c : Times(set, c) \in Nat
    BY DEF Times
  <2> QED
    BY <2>1 DEF TypeOK, Delete
<1> QED
  BY <1>1, <1>3, <1>4, <1>5, <1>6 DEF TypeOK, Delete

\* Delete deletes each connection of the ServerThread once.
LEMMA DeleteKeepsConnections ==
  ASSUME TypeOK, SoundMap, SoundConnections, NEW s \in Servs,
         life[s] = "live", closing[s] = {}, Delete(s),
         UNCHANGED <<listener, accepted>>
  PROVE  SoundConnections'
<1> DEFINE own == conns[s] \cup Range(incoming[s])
<1>1. \A c \in Conns : c \notin own => freed'[c] = freed[c]
  BY DEF TypeOK, Delete, Times
<1>2. \A c \in Conns : c \in own => freed[c] = 0 /\ freed'[c] = 1
  BY DEF TypeOK, Delete, Times, SoundConnections
<1>3. \A c \in own : c \in accepted /\ listener.conn # c
  BY DEF SoundConnections
<1>4. \A r \in Servs : r # s =>
        /\ conns'[r] = conns[r] /\ incoming'[r] = incoming[r]
        /\ closing'[r] = closing[r] /\ life'[r] = life[r]
  BY DEF TypeOK, Delete
<1>5. /\ conns'[s] = {} /\ incoming'[s] = <<>> /\ closing'[s] = {}
      /\ Range(incoming'[s]) = {}
  BY DEF TypeOK, Delete, Range
<1>6. \A r \in Servs : \A c \in conns'[r] \cup Range(incoming'[r]) :
        c \in conns[r] \cup Range(incoming[r]) /\ r # s
  BY <1>4, <1>5
<1>7. \A r \in Servs :
        /\ closing'[r] \subseteq conns'[r]
        /\ conns'[r] \cap Range(incoming'[r]) = {}
        /\ life'[r] # "live" => conns'[r] = {} /\ incoming'[r] = <<>>
  BY <1>4, <1>5 DEF SoundConnections
<1>8. \A r \in Servs : \A c \in conns'[r] \cup Range(incoming'[r]) :
        c \in Conns /\ c \notin own
  BY <1>6 DEF SoundConnections, TypeOK
<1>9. UNCHANGED address
  BY DEF Delete
<1> HIDE DEF own
<1>10. \A r \in Servs : \A c \in conns'[r] \cup Range(incoming'[r]) :
         /\ c \in accepted' /\ freed'[c] = 0 /\ listener'.conn # c
         /\ AddrOf[c] = address'[r]
  BY <1>1, <1>6, <1>8, <1>9 DEF SoundConnections
<1>11. \A q, r \in Servs : q # r =>
         (conns'[q] \cup Range(incoming'[q]))
           \cap (conns'[r] \cup Range(incoming'[r])) = {}
  BY <1>6 DEF SoundConnections
<1>12. listener.conn # NoConn =>
         listener.conn \in accepted /\ freed'[listener.conn] = 0
  BY <1>1, <1>3 DEF TypeOK, SoundConnections
<1>13. ASSUME NEW c \in Conns
       PROVE  freed'[c] <= 1 /\ (c \notin accepted => freed'[c] = 0)
  <2>1. CASE c \in own
    BY <1>2, <1>3, <2>1
  <2>2. CASE c \notin own
    BY <1>1, <2>2 DEF SoundConnections
  <2> QED
    BY <2>1, <2>2
<1> QED
  BY <1>7, <1>10, <1>11, <1>12, <1>13 DEF SoundConnections

\* The thread frees its own ServerThread and ends.
LEMMA ForceStoppedKeeps ==
  ASSUME SoundServer, NEW t \in Threads, ForceStopped(t)
  PROVE  SoundServer'
<1> USE ServerThreadsAssumption DEF SoundServer
<1> DEFINE s == thread[t].serv
<1>a. /\ UNCHANGED <<listener, accepted, collector, trash>>
      /\ thread[t].pc = "forcing" /\ At(t, "forcing") /\ End(t)
      /\ Delete(s) /\ lock' = "free"
  BY DEF ForceStopped, At
<1>b. /\ s \in Servs /\ life[s] = "live" /\ thread[t] # Ended
      /\ thread' \in [Threads -> ThreadStates]
      /\ thread'[t] = Ended
      /\ \A u \in Threads \ {t} : thread'[u] = thread[u]
  BY <1>a, ThreadEnds DEF Pcs
<1>c. /\ address[s] \in DOMAIN map /\ map[address[s]] = s
      /\ DOMAIN map' = DOMAIN map \ {address[s]}
      /\ map' \in [DOMAIN map' -> Servs]
      /\ \A a \in DOMAIN map' : map'[a] = map[a] /\ map[a] \in Servs \ {s}
      /\ life' = [life EXCEPT ![s] = "freed"]
      /\ conns' = [conns EXCEPT ![s] = {}]
      /\ incoming' = [incoming EXCEPT ![s] = <<>>]
      /\ closing' = [closing EXCEPT ![s] = {}]
      /\ UNCHANGED <<address, isLoop, released>>
  BY <1>a, <1>b, DeleteForgets
<1>d. closing[s] = {}
  BY <1>a, <1>b DEF SoundThreads, SoundThread
<1>e. lock = t /\ collector = "idle"
  <2>1. lock = t
    BY <1>a DEF SoundLock
  <2> QED
    BY <2>1 DEF SoundLock, TypeOK
<1>f. \A r \in Servs : r # s =>
        /\ conns'[r] = conns[r] /\ incoming'[r] = incoming[r]
        /\ closing'[r] = closing[r] /\ life'[r] = life[r]
  BY <1>c DEF TypeOK
<1>g. life'[s] = "freed"
  BY <1>b, <1>c DEF TypeOK
<1>h. address[s] \notin Range(trash)
  BY <1>a, <1>c DEF SoundQueue
<1>i. \A u \in Threads : u # t /\ thread[u] # Ended =>
        thread[u].serv \in Servs /\ thread[u].serv # s
  BY <1>b, ThreadServes DEF SoundThreads, OneThreadPerServer
<1>1. TypeOK'
  BY <1>a, <1>b, DeleteTypes DEF TypeOK, ThreadStates
<1>6. SoundConnections'
  BY <1>a, <1>b, <1>d, DeleteKeepsConnections
<1> HIDE DEF s
<1>2. SoundMap'
  BY <1>a, <1>c, <1>f, <1>g DEF TypeOK, SoundMap
<1>3. SoundLock'
  <2>1. \A u \in Threads : u # t => thread[u].pc # "forcing"
    BY <1>e DEF SoundLock
  <2>2. \A u \in Threads : thread'[u].pc # "forcing"
    BY <1>b, <2>1 DEF Ended
  <2> QED
    BY <1>a, <1>e, <2>2 DEF SoundLock
<1>4. SoundThreads'
  <2>1. OneThreadPerServer'
    BY <1>b, MovesKeepOneThread DEF s, SoundThreads
  <2>2. ASSUME NEW u \in Threads, thread'[u] # Ended
        PROVE  SoundThread(u)'
    <3>1. u # t
      BY <1>b, <2>2
    <3>2. thread'[u] = thread[u] /\ thread[u].serv \in Servs /\ thread[u].serv # s
      BY <1>b, <1>i, <2>2, <3>1
    <3>3. thread[u] # Ended /\ SoundThread(u)
      BY <2>2, <3>2 DEF SoundThreads
    <3>4. UNCHANGED <<address, isLoop, trash>>
      BY <1>a, <1>c
    <3> QED
      BY <1>f, <3>2, <3>3, <3>4 DEF SoundThread
  <2> QED
    BY <2>1, <2>2 DEF SoundThreads
<1>5. SoundQueue'
  <2>1. \A a \in Range(trash) :
          /\ a \in DOMAIN map'
          /\ ~isLoop'[map'[a]] /\ conns'[map'[a]] = {} /\ closing'[map'[a]] = {}
          /\ \A u \in Threads : thread'[u].serv = map'[a] => thread'[u].pc = "test"
    <3> TAKE a \in Range(trash)
    <3>1. a \in DOMAIN map' /\ map'[a] = map[a] /\ map[a] \in Servs /\ map[a] # s
      BY <1>c, <1>h DEF SoundQueue
    <3>2. \A u \in Threads : thread'[u].serv = map[a] => thread'[u].pc = "test"
      BY <1>b, <3>1 DEF SoundQueue, Ended
    <3> QED
      <4>1. ~isLoop[map[a]] /\ conns[map[a]] = {} /\ closing[map[a]] = {}
        BY DEF SoundQueue
      <4>2. UNCHANGED isLoop
        BY <1>c
      <4>3. conns'[map[a]] = conns[map[a]] /\ closing'[map[a]] = closing[map[a]]
        BY <1>f, <3>1
      <4> QED
        BY <3>1, <3>2, <4>1, <4>2, <4>3
  <2>2. \A r \in Servs : life'[r] = "live" => Tended(r)'
    <3> SUFFICES ASSUME NEW r \in Servs, life'[r] = "live"
                 PROVE  Tended(r)'
      OBVIOUS
    <3>1. r # s /\ Tended(r)
      BY <1>f, <1>g DEF SoundQueue
    <3> QED
      BY <1>a, <1>b, <1>c, <3>1 DEF Tended, s
  <2> QED
    BY <1>a, <1>e, <2>1, <2>2 DEF SoundQueue
<1> QED
  BY <1>1, <1>2, <1>3, <1>4, <1>5, <1>6

\* The collector takes m_lock.
LEMMA CollectKeeps ==
  ASSUME SoundServer, Collect
  PROVE  SoundServer'
<1> USE ServerThreadsAssumption DEF SoundServer, Collect
<1>1. TypeOK'
  BY DEF TypeOK, object, server, fate, NoConn
<1>2. SoundMap'
  BY DEF TypeOK, SoundMap, object, server
<1>3. SoundLock'
  BY DEF TypeOK, SoundLock, server
<1>4. SoundThreads'
  BY DEF TypeOK, SoundThreads, SoundThread, OneThreadPerServer, object, server,
     Ended
<1>5. SoundQueue'
  BY DEF TypeOK, SoundQueue, SoundMap, SoundThreads, SoundThread,
     OneThreadPerServer, Tended, object, server, Ended
<1>6. SoundConnections'
  BY DEF TypeOK, SoundConnections, object, server, fate, NoConn
<1> QED
  BY <1>1, <1>2, <1>3, <1>4, <1>5, <1>6

\* It never happens: what is on the queue is on the map.
LEMMA CollectUnknownKeeps ==
  ASSUME SoundServer, CollectUnknown
  PROVE  SoundServer'
<1>1. trash \in Seq(Addrs) /\ trash # <<>>
  BY DEF SoundServer, TypeOK, CollectUnknown
<1>2. Head(trash) \in Range(trash)
  BY <1>1, RangeOfTail DEF SoundServer, SoundQueue
<1> QED
  BY <1>2 DEF SoundServer, SoundQueue, CollectUnknown

\* The collector picks a ServerThread that no thread runs in any more.
LEMMA CollectIdleKeeps ==
  ASSUME SoundServer, CollectIdle, ~Leaving(map[Head(trash)])
  PROVE  SoundServer'
<1> USE ServerThreadsAssumption DEF SoundServer
<1> DEFINE s == map[Head(trash)]
<1>a. /\ collector = "sweeping" /\ collector' = "deleting" /\ trash # <<>>
      /\ Head(trash) \in DOMAIN map /\ incoming[s] = <<>>
      /\ isLoop' = [isLoop EXCEPT ![s] = FALSE]
      /\ UNCHANGED <<listener, accepted, server, life, address, conns, incoming,
                     closing, thread, fate>>
  BY DEF CollectIdle
<1>b. s \in Servs /\ Head(trash) \in Range(trash)
  BY <1>a, RangeOfTail DEF TypeOK, SoundQueue
<1>c. ~isLoop[s] /\ \A u \in Threads : thread[u].serv = s => thread[u].pc = "test"
  BY <1>b DEF SoundQueue
<1>d. isLoop' = isLoop
  BY <1>a, <1>c DEF TypeOK
<1>e. \A u \in Threads : thread[u].serv # s
  BY <1>b, <1>c, ThreadServes DEF Leaving
<1> HIDE DEF s
<1> USE DEF server, fate
<1>1. TypeOK'
  BY <1>a, <1>d DEF TypeOK
<1>2. SoundMap'
  BY <1>a DEF SoundMap
<1>3. SoundLock'
  BY <1>a DEF SoundLock
<1>4. SoundThreads'
  BY <1>a, <1>d DEF SoundThreads, SoundThread, OneThreadPerServer
<1>5. SoundQueue'
  BY <1>a, <1>d, <1>e DEF SoundQueue, Tended, s
<1>6. SoundConnections'
  BY <1>a DEF SoundConnections
<1> QED
  BY <1>1, <1>2, <1>3, <1>4, <1>5, <1>6

\* The collector deletes the ServerThread it picked.
LEMMA CollectDeleteKeeps ==
  ASSUME SoundServer, CollectDelete
  PROVE  SoundServer'
<1> USE ServerThreadsAssumption DEF SoundServer
<1> DEFINE s == map[Head(trash)]
<1>a. /\ UNCHANGED <<listener, accepted, lock, thread>>
      /\ collector = "deleting" /\ collector' = "sweeping"
      /\ Delete(s) /\ trash' = Tail(trash)
  BY DEF CollectDelete
<1>b. /\ trash # <<>> /\ Head(trash) \in DOMAIN map /\ incoming[s] = <<>>
      /\ \A u \in Threads : thread[u].serv # s
  BY <1>a DEF SoundQueue
<1>c. /\ Head(trash) \in Range(trash) /\ Tail(trash) \in Seq(Addrs)
      /\ Range(trash') = Range(trash) \ {Head(trash)}
      /\ \A i, j \in DOMAIN trash' : trash'[i] = trash'[j] => i = j
  <2>1. trash \in Seq(Addrs) /\ \A i, j \in DOMAIN trash : trash[i] = trash[j] => i = j
    BY DEF TypeOK, SoundQueue
  <2> QED
    BY <1>a, <1>b, <2>1, RangeOfTail
<1>d. /\ s \in Servs /\ life[s] = "live" /\ address[s] = Head(trash)
      /\ closing[s] = {}
  BY <1>b, <1>c DEF TypeOK, SoundMap, SoundQueue
<1>e. /\ DOMAIN map' = DOMAIN map \ {address[s]}
      /\ map' \in [DOMAIN map' -> Servs]
      /\ \A a \in DOMAIN map' : map'[a] = map[a] /\ map[a] \in Servs \ {s}
      /\ life' = [life EXCEPT ![s] = "freed"]
      /\ conns' = [conns EXCEPT ![s] = {}]
      /\ incoming' = [incoming EXCEPT ![s] = <<>>]
      /\ closing' = [closing EXCEPT ![s] = {}]
      /\ UNCHANGED <<address, isLoop, released>>
  BY <1>a, <1>d, DeleteForgets
<1>f. \A r \in Servs : r # s =>
        /\ conns'[r] = conns[r] /\ incoming'[r] = incoming[r]
        /\ closing'[r] = closing[r] /\ life'[r] = life[r]
  BY <1>e DEF TypeOK
<1>g. life'[s] = "freed"
  BY <1>d, <1>e DEF TypeOK
<1>1. TypeOK'
  BY <1>a, <1>c, <1>d, DeleteTypes DEF TypeOK
<1>6. SoundConnections'
  BY <1>a, <1>d, DeleteKeepsConnections
<1> HIDE DEF s
<1>2. SoundMap'
  <2>1. \A a \in DOMAIN map' : life'[map'[a]] = "live" /\ address'[map'[a]] = a
    BY <1>e, <1>f DEF SoundMap
  <2>2. \A r \in Servs : life'[r] = "live" =>
          address'[r] \in DOMAIN map' /\ map'[address'[r]] = r
    <3> SUFFICES ASSUME NEW r \in Servs, life'[r] = "live"
                 PROVE  address'[r] \in DOMAIN map' /\ map'[address'[r]] = r
      OBVIOUS
    <3>1. r # s /\ life[r] = "live"
      BY <1>f, <1>g
    <3>2. /\ address[r] \in DOMAIN map /\ map[address[r]] = r
          /\ map[address[s]] = s
      BY <1>d, <3>1 DEF SoundMap
    <3> QED
      BY <1>e, <3>1, <3>2
  <2>3. listener'.pc = "create" => AddrOf[listener'.conn] \notin DOMAIN map'
    BY <1>a, <1>e DEF SoundMap
  <2> QED
    BY <2>1, <2>2, <2>3 DEF SoundMap
<1>3. SoundLock'
  BY <1>a DEF SoundLock
<1>4. SoundThreads'
  <2>1. ASSUME NEW u \in Threads, thread[u] # Ended
        PROVE  SoundThread(u)'
    <3>1. thread[u].serv \in Servs /\ thread[u].serv # s
      BY <1>b, <2>1, ThreadServes
    <3>2. SoundThread(u)
      BY <2>1 DEF SoundThreads
    <3>3. thread[u].pc = "test" /\ ~isLoop[thread[u].serv]
            => address[thread[u].serv] \in Range(trash')
      <4>1. SUFFICES ASSUME thread[u].pc = "test", ~isLoop[thread[u].serv]
                     PROVE  address[thread[u].serv] # Head(trash)
        BY <1>c, <3>2 DEF SoundThread
      <4>2. map[address[thread[u].serv]] = thread[u].serv
        BY <3>1, <3>2 DEF SoundThread, SoundMap
      <4> QED
        BY <3>1, <4>2 DEF s
    <3>4. UNCHANGED <<address, isLoop, thread>>
      BY <1>a, <1>e
    <3> QED
      BY <1>f, <3>1, <3>2, <3>3, <3>4 DEF SoundThread
  <2> QED
    BY <1>a, <2>1 DEF SoundThreads, OneThreadPerServer
<1>5. SoundQueue'
  <2>1. \A a \in Range(trash') :
          /\ a \in DOMAIN map'
          /\ ~isLoop'[map'[a]] /\ conns'[map'[a]] = {} /\ closing'[map'[a]] = {}
          /\ \A u \in Threads : thread'[u].serv = map'[a] => thread'[u].pc = "test"
    <3> TAKE a \in Range(trash')
    <3>1. a \in Range(trash) /\ a # address[s]
      BY <1>c, <1>d
    <3>2. a \in DOMAIN map' /\ map'[a] = map[a] /\ map[a] \in Servs /\ map[a] # s
      BY <1>e, <3>1 DEF SoundQueue
    <3>3. /\ ~isLoop[map[a]] /\ conns[map[a]] = {} /\ closing[map[a]] = {}
          /\ \A u \in Threads : thread[u].serv = map[a] => thread[u].pc = "test"
      BY <3>1 DEF SoundQueue
    <3>4. UNCHANGED <<isLoop, thread>>
      BY <1>a, <1>e
    <3>5. conns'[map[a]] = conns[map[a]] /\ closing'[map[a]] = closing[map[a]]
      BY <1>f, <3>2
    <3> QED
      BY <3>2, <3>3, <3>4, <3>5
  <2>2. \A r \in Servs : life'[r] = "live" => Tended(r)'
    <3> SUFFICES ASSUME NEW r \in Servs, life'[r] = "live"
                 PROVE  Tended(r)'
      OBVIOUS
    <3>1. r # s /\ life[r] = "live" /\ Tended(r)
      BY <1>f, <1>g DEF SoundQueue
    <3>2. address[r] # Head(trash)
      BY <3>1 DEF SoundMap, s
    <3>3. UNCHANGED <<address, thread>>
      BY <1>a, <1>e
    <3> QED
      BY <1>c, <3>1, <3>2, <3>3 DEF Tended
  <2> QED
    BY <1>a, <1>c, <2>1, <2>2 DEF SoundQueue
<1> QED
  BY <1>1, <1>2, <1>3, <1>4, <1>5, <1>6

\* The ServerThread that gets a thread has none.
LEMMA CollectRestartKeeps ==
  ASSUME SoundServer, NEW t \in Threads, CollectRestart(t),
         ~Leaving(map[Head(trash)])
  PROVE  SoundServer'
<1> USE ServerThreadsAssumption DEF SoundServer
<1> DEFINE s == map[Head(trash)]
<1>a. /\ UNCHANGED <<listener, accepted, collector, map, lock, life, address,
                     conns, incoming, closing, fate>>
      /\ collector = "sweeping" /\ trash # <<>> /\ Head(trash) \in DOMAIN map
      /\ trash' = Tail(trash) /\ thread[t] = Ended
      /\ isLoop' = [isLoop EXCEPT ![s] = TRUE]
      /\ thread' = [thread EXCEPT ![t] = [serv |-> s, pc |-> "test"]]
  BY DEF CollectRestart
<1>b. /\ Head(trash) \in Range(trash) /\ Tail(trash) \in Seq(Addrs)
      /\ Range(trash') = Range(trash) \ {Head(trash)}
      /\ \A i, j \in DOMAIN trash' : trash'[i] = trash'[j] => i = j
  <2>1. trash \in Seq(Addrs) /\ \A i, j \in DOMAIN trash : trash[i] = trash[j] => i = j
    BY DEF TypeOK, SoundQueue
  <2> QED
    BY <1>a, <2>1, RangeOfTail
<1>c. /\ s \in Servs /\ life[s] = "live" /\ address[s] = Head(trash)
      /\ ~isLoop[s] /\ conns[s] = {} /\ closing[s] = {}
      /\ \A u \in Threads : thread[u].serv = s => thread[u].pc = "test"
  BY <1>a, <1>b DEF TypeOK, SoundMap, SoundQueue
<1>d. \A u \in Threads : thread[u].serv # s
  BY <1>c, ThreadServes DEF Leaving
<1>e. /\ thread' \in [Threads -> ThreadStates]
      /\ thread'[t] = [serv |-> s, pc |-> "test"]
      /\ \A u \in Threads \ {t} : thread'[u] = thread[u]
  BY <1>a, <1>c, ThreadStarts
<1>f. /\ isLoop' \in [Servs -> BOOLEAN] /\ isLoop'[s] = TRUE
      /\ \A r \in Servs : r # s => isLoop'[r] = isLoop[r]
  BY <1>a, <1>c DEF TypeOK
<1>g. \A u \in Threads : u # t /\ thread[u] # Ended =>
        thread[u].serv \in Servs /\ thread[u].serv # s
  BY <1>d, ThreadServes
<1>h. \A r \in Servs : r # s /\ life[r] = "live" => address[r] # Head(trash)
  BY DEF SoundMap
<1> HIDE DEF s
<1> USE DEF fate
<1>1. TypeOK'
  BY <1>a, <1>b, <1>e, <1>f DEF TypeOK, ThreadStates
<1>2. SoundMap'
  BY <1>a DEF SoundMap
<1>3. SoundLock'
  <2>1. thread[t].pc # "forcing" /\ thread'[t].pc # "forcing"
    BY <1>a, <1>e DEF Ended
  <2> QED
    BY <1>a, <1>e, <2>1 DEF SoundLock
<1>4. SoundThreads'
  <2>1. OneThreadPerServer'
    BY <1>d, <1>e DEF SoundThreads, OneThreadPerServer
  <2>2. ASSUME NEW u \in Threads, thread'[u] # Ended
        PROVE  SoundThread(u)'
    <3>1. CASE u = t
      BY <1>a, <1>c, <1>e, <1>f, <3>1 DEF SoundThread
    <3>2. CASE u # t
      <4>1. /\ thread'[u] = thread[u] /\ thread[u] # Ended
            /\ thread[u].serv \in Servs /\ thread[u].serv # s
        BY <1>e, <1>g, <2>2, <3>2
      <4>2. SoundThread(u)
        BY <4>1 DEF SoundThreads
      <4>3. address[thread[u].serv] # Head(trash)
        BY <1>h, <4>1, <4>2 DEF SoundThread
      <4>4. UNCHANGED <<life, address, conns, closing>>
        BY <1>a
      <4> QED
        BY <1>b, <1>f, <4>1, <4>2, <4>3, <4>4 DEF SoundThread
    <3> QED
      BY <3>1, <3>2
  <2> QED
    BY <2>1, <2>2 DEF SoundThreads
<1>5. SoundQueue'
  <2>1. \A a \in Range(trash') :
          /\ a \in DOMAIN map
          /\ ~isLoop'[map[a]] /\ conns[map[a]] = {} /\ closing[map[a]] = {}
          /\ \A u \in Threads : thread'[u].serv = map[a] => thread'[u].pc = "test"
    <3> TAKE a \in Range(trash')
    <3>1. a \in Range(trash) /\ a # address[s]
      BY <1>b, <1>c
    <3>2. a \in DOMAIN map /\ map[a] \in Servs /\ map[a] # s
      BY <3>1 DEF SoundQueue, SoundMap, TypeOK
    <3>3. /\ ~isLoop[map[a]] /\ conns[map[a]] = {} /\ closing[map[a]] = {}
          /\ \A u \in Threads : thread[u].serv = map[a] => thread[u].pc = "test"
      BY <3>1 DEF SoundQueue
    <3> QED
      BY <1>e, <1>f, <3>2, <3>3
  <2>2. \A r \in Servs : life[r] = "live" => Tended(r)'
    <3> SUFFICES ASSUME NEW r \in Servs, life[r] = "live"
                 PROVE  Tended(r)'
      OBVIOUS
    <3>1. CASE r = s
      BY <1>e, <3>1 DEF Tended
    <3>2. CASE r # s
      <4>1. Tended(r) /\ address[r] # Head(trash) /\ UNCHANGED address
        BY <1>a, <1>h, <3>2 DEF SoundQueue
      <4>2. \A u \in Threads : thread[u].serv = r => u # t
        BY <1>a, ThreadServes
      <4> QED
        BY <1>b, <1>e, <4>1, <4>2 DEF Tended
    <3> QED
      BY <3>1, <3>2
  <2> QED
    BY <1>a, <1>b, <2>1, <2>2 DEF SoundQueue
<1>6. SoundConnections'
  BY <1>a DEF SoundConnections
<1> QED
  BY <1>1, <1>2, <1>3, <1>4, <1>5, <1>6

\* The collector gives m_lock back.
LEMMA CollectEndKeeps ==
  ASSUME SoundServer, CollectEnd
  PROVE  SoundServer'
<1> USE ServerThreadsAssumption DEF SoundServer, CollectEnd
<1>1. TypeOK'
  BY DEF TypeOK, object, server, fate, NoConn
<1>2. SoundMap'
  BY DEF TypeOK, SoundMap, object, server
<1>3. SoundLock'
  BY DEF TypeOK, SoundLock, server
<1>4. SoundThreads'
  BY DEF TypeOK, SoundThreads, SoundThread, OneThreadPerServer, object, server,
     Ended
<1>5. SoundQueue'
  BY DEF TypeOK, SoundQueue, SoundMap, SoundThreads, SoundThread,
     OneThreadPerServer, Tended, object, server, Ended
<1>6. SoundConnections'
  BY DEF TypeOK, SoundConnections, object, server, fate, NoConn
<1> QED
  BY <1>1, <1>2, <1>3, <1>4, <1>5, <1>6

-----------------------------------------------------------------------------
(* The theorems *)

LEMMA InitIsSound == Init => SoundServer
<1> SUFFICES ASSUME Init PROVE SoundServer
  OBVIOUS
<1> USE ServerThreadsAssumption DEF Init
<1>1. TypeOK
  BY DEF TypeOK, NoConn, Ended
<1>2. SoundMap
  BY DEF SoundMap
<1>3. SoundLock
  BY DEF SoundLock, Ended
<1>4. SoundThreads
  BY DEF SoundThreads, OneThreadPerServer
<1>5. SoundQueue
  BY DEF SoundQueue, Range
<1>6. SoundConnections
  BY DEF SoundConnections, Range, NoConn
<1> QED
  BY <1>1, <1>2, <1>3, <1>4, <1>5, <1>6 DEF SoundServer

\* Every step of a prompt schedule keeps the invariant.
LEMMA StepsKeepSound ==
  ASSUME SoundServer, [PromptNext]_vars
  PROVE  SoundServer'
<1>1. CASE Listening
  BY <1>1, AcceptKeeps, RefuseHandshakeKeeps, HandOverKeeps, NotFoundKeeps,
     CreateServerKeeps DEF Listening
<1>2. CASE \E t \in Threads : Working(t)
  BY <1>2, TestKeeps, TurnKeeps, SweepKeeps, DrainKeeps, StopServerKeeps,
     ForceStopKeeps, ForceStoppedKeeps DEF Working
<1>3. CASE CalmThrowing
  BY <1>3, TurnThrowsKeeps DEF CalmThrowing
<1>4. CASE PromptCollecting
  BY <1>4, CollectKeeps, CollectUnknownKeeps, CollectIdleKeeps,
     CollectDeleteKeeps, CollectRestartKeeps, CollectEndKeeps
  DEF PromptCollecting
<1>5. CASE UNCHANGED vars
  BY <1>5 DEF SoundServer, TypeOK, SoundMap, SoundLock, SoundThreads,
     SoundThread, OneThreadPerServer, SoundQueue, SoundConnections, Tended,
     vars, server, object, fate
<1> QED
  BY <1>1, <1>2, <1>3, <1>4, <1>5 DEF PromptNext

\* Every reachable state of the prompt server is sound: the map, m_lock, the
\* threads, the trash queue and the connection lists agree with each other.
THEOREM ServerIsSound == PromptSpec => []SoundServer
<1>1. Init => SoundServer
  BY InitIsSound
<1>2. SoundServer /\ [PromptNext]_vars => SoundServer'
  BY StepsKeepSound
<1> QED
  BY <1>1, <1>2, PTL DEF PromptSpec

\* The variables keep their types.
THEOREM ServerIsTyped == PromptSpec => []TypeOK
<1>1. SoundServer => TypeOK
  BY DEF SoundServer
<1> QED
  BY <1>1, ServerIsSound, PTL

\* No ServerThread is ever served by two threads, so that its unlocked lists
\* have one user (StartGarbageCollector, ServerThread::_Loop).
THEOREM OneThread == PromptSpec => []OneThreadPerServer
<1>1. SoundServer => OneThreadPerServer
  BY DEF SoundServer, SoundThreads
<1> QED
  BY <1>1, ServerIsSound, PTL

\* ~ServerThread never frees an object that a thread still runs in or that the
\* listening thread can find (ForceStop, StartGarbageCollector).
THEOREM ThreadsEndInTime == PromptSpec => []NoThreadOutlivesItsServer
<1>1. SoundServer => NoThreadOutlivesItsServer
  BY DEF SoundServer, SoundThreads, SoundThread, SoundMap,
     NoThreadOutlivesItsServer
<1> QED
  BY <1>1, ServerIsSound, PTL

\* The collector never deletes a ServerThread that has a connection, although
\* it looks at m_incoming only (StartGarbageCollector, GarbageCollect).
THEOREM OnlyEmptyOnesGo == PromptSpec => []OnlyEmptyServersAreCollected
<1>1. SoundServer => OnlyEmptyServersAreCollected
  <2> SUFFICES ASSUME SoundServer, collector = "deleting"
               PROVE  LET s == map[Head(trash)]
                      IN  conns[s] = {} /\ incoming[s] = <<>> /\ closing[s] = {}
    BY DEF OnlyEmptyServersAreCollected
  <2>1. trash \in Seq(Addrs) /\ trash # <<>>
    BY DEF SoundServer, TypeOK, SoundQueue
  <2>2. Head(trash) \in Range(trash)
    BY <2>1, RangeOfTail DEF SoundServer, SoundQueue
  <2> QED
    BY <2>2 DEF SoundServer, SoundQueue
<1> QED
  BY <1>1, ServerIsSound, PTL

\* No connection is deleted twice, neither by GarbageCollect nor by a
\* destructor.
THEOREM DeletesOnce == PromptSpec => []DeletedOnce
<1>1. SoundServer => DeletedOnce
  BY DEF SoundServer, SoundConnections, DeletedOnce
<1> QED
  BY <1>1, ServerIsSound, PTL
-----------------------------------------------------------------------------
(* Every interleaving *)

\* pop removes at most one entry.
LEMMA TailKeepsOthers ==
  ASSUME NEW S, NEW q \in Seq(S), q # <<>>
  PROVE  /\ Tail(q) \in Seq(S) /\ Head(q) \in Range(q)
         /\ \A x \in Range(q) : x = Head(q) \/ x \in Range(Tail(q))
<1>1. /\ Tail(q) \in Seq(S) /\ DOMAIN Tail(q) = 1 .. Len(q) - 1
      /\ DOMAIN q = 1 .. Len(q) /\ Len(q) \in Nat /\ Len(q) >= 1
      /\ Head(q) = q[1]
  OBVIOUS
<1>2. \A i \in 1 .. Len(q) - 1 : Tail(q)[i] = q[i + 1]
  OBVIOUS
<1>3. \A i \in 2 .. Len(q) : i - 1 \in 1 .. Len(q) - 1 /\ q[i] = Tail(q)[i - 1]
  BY <1>1, <1>2
<1>4. ASSUME NEW x \in Range(q), x # Head(q)
      PROVE  x \in Range(Tail(q))
  <2>1. PICK i \in 1 .. Len(q) : q[i] = x
    BY <1>1 DEF Range
  <2>2. i \in 2 .. Len(q)
    BY <1>1, <1>4, <2>1
  <2> QED
    BY <1>1, <1>3, <2>1, <2>2 DEF Range
<1> QED
  BY <1>1, <1>4 DEF Range

\* What a step that touches no list of connections leaves as it was.
LEMMA ListsStay ==
  ASSUME ListsAreOwn, HeldIsNew, NoneIsLost,
         UNCHANGED <<listener, accepted, life, address, conns, incoming, freed>>,
         closing' = closing \/ \A s \in Servs : closing'[s] \subseteq conns[s]
  PROVE  ListsAreOwn' /\ HeldIsNew' /\ NoneIsLost'
BY DEF ListsAreOwn, HeldIsNew, NoneIsLost, Listed

\* No connection is in the lists of two ServerThreads.
LEMMA ListsDiffer ==
  ASSUME SoundMap, ListsAreOwn, NEW s \in Servs
  PROVE  \A r \in Servs : Listed(r) \cap Listed(s) # {} => r = s
<1> SUFFICES ASSUME NEW r \in Servs, NEW c \in Listed(r), c \in Listed(s)
             PROVE  r = s
  OBVIOUS
<1>1. Range(<<>>) = {}
  BY DEF Range
<1>2. life[r] = "live" /\ life[s] = "live" /\ address[r] = address[s]
  BY <1>1 DEF ListsAreOwn, Listed
<1> QED
  BY <1>2 DEF SoundMap

\* A ServerThread keeps what StopsAreTold says of it when it keeps its flag, its
\* entry on the queue and its threads.
LEMMA StopsStayTold ==
  ASSUME NEW r \in Servs,
         \/ isLoop[r] /\ \E u \in Threads : thread[u].serv = r
         \/ address[r] \in Range(trash)
         \/ \E u \in Threads :
              thread[u].serv = r /\ thread[u].pc \in {"stop", "forcing"},
         isLoop[r] => isLoop'[r],
         address'[r] = address[r],
         address[r] \in Range(trash) => address[r] \in Range(trash'),
         \A u \in Threads : thread[u].serv = r => thread'[u] = thread[u]
  PROVE  \/ isLoop'[r] /\ \E u \in Threads : thread'[u].serv = r
         \/ address'[r] \in Range(trash')
         \/ \E u \in Threads :
              thread'[u].serv = r /\ thread'[u].pc \in {"stop", "forcing"}
OBVIOUS

\* The lock is nobody's business but the collector's and ForceStop's.
LEMMA LockStays ==
  ASSUME SoundLock, NEW t \in Threads,
         \A u \in Threads \ {t} : thread'[u] = thread[u],
         thread[t].pc # "forcing", thread'[t].pc # "forcing",
         lock' = lock, collector' = collector
  PROVE  SoundLock'
BY DEF SoundLock

LEMMA AcceptKeepsAny ==
  ASSUME AnyServer, NEW c \in Conns, Accept(c)
  PROVE  AnyServer'
<1> USE ServerThreadsAssumption DEF AnyServer, Accept
<1>1. TypeOK'
  BY DEF TypeOK, object, server, fate, NoConn
<1>2. SoundMap'
  BY DEF TypeOK, SoundMap, object, server
<1>3. SoundLock'
  BY DEF TypeOK, SoundLock, server
<1>4. StopsAreTold' /\ CollectsKnown'
  BY DEF StopsAreTold, CollectsKnown, object, server
<1>5. ListsAreOwn'
  BY DEF ListsAreOwn, Listed, object, fate
<1>6. HeldIsNew'
  <2>1. freed[c] = 0 /\ \A s \in Servs : c \notin Listed(s)
    BY DEF ListsAreOwn, HeldIsNew
  <2> QED
    BY <2>1 DEF HeldIsNew, Listed, NoConn, object, fate
<1>7. NoneIsLost'
  <2>1. listener.conn \notin accepted
    BY DEF TypeOK, HeldIsNew, NoConn
  <2>2. listener'.conn = c /\ accepted' = accepted \cup {c}
    OBVIOUS
  <2> QED
    BY <2>1, <2>2 DEF NoneIsLost, Listed, object, fate
<1> QED
  BY <1>1, <1>2, <1>3, <1>4, <1>5, <1>6, <1>7

LEMMA RefuseHandshakeKeepsAny ==
  ASSUME AnyServer, NEW c \in Conns, RefuseHandshake(c)
  PROVE  AnyServer'
<1> USE ServerThreadsAssumption DEF AnyServer, RefuseHandshake
<1>1. TypeOK'
  BY DEF TypeOK, object, server, fate, NoConn
<1>2. SoundMap'
  BY DEF TypeOK, SoundMap, object, server
<1>3. SoundLock'
  BY DEF TypeOK, SoundLock, server
<1>4. StopsAreTold' /\ CollectsKnown'
  BY DEF StopsAreTold, CollectsKnown, object, server
<1>a. /\ \A d \in Conns : d # c => freed'[d] = freed[d]
      /\ UNCHANGED object /\ accepted' = accepted \cup {c}
      /\ listener' = listener
  BY DEF TypeOK
<1>b. \A s \in Servs : \A d \in Listed(s) : d \in Conns /\ d # c
  BY DEF ListsAreOwn, TypeOK
<1>5. ListsAreOwn'
  BY <1>a, <1>b DEF ListsAreOwn, Listed, object
<1>6. HeldIsNew'
  <2>1. listener.conn # NoConn => listener.conn \in Conns /\ listener.conn # c
    BY DEF HeldIsNew, TypeOK
  <2> QED
    BY <1>a, <2>1 DEF HeldIsNew, Listed, object
<1>7. NoneIsLost'
  <2>1. freed'[c] > 0 /\ \A d \in Conns : freed[d] > 0 => freed'[d] > 0
    BY DEF TypeOK
  <2>2. accepted' = accepted \cup {c} /\ accepted \subseteq Conns
    BY DEF TypeOK
  <2> QED
    BY <2>1, <2>2 DEF NoneIsLost, Listed, object
<1> QED
  BY <1>1, <1>2, <1>3, <1>4, <1>5, <1>6, <1>7

\* Add drops no connection: its port is free.
LEMMA AddLists ==
  ASSUME PortsAreFree, TypeOK, ListsAreOwn, NEW s \in Servs, NEW c \in Conns,
         Add(s, c), c \notin Listed(s), AddrOf[c] = address[s],
         c \in accepted, freed[c] = 0
  PROVE  /\ incoming' \in [Servs -> Seq(Conns)]
         /\ \A r \in Servs \ {s} : incoming'[r] = incoming[r]
         /\ Range(incoming[s]) \subseteq Range(incoming'[s])
         /\ Range(incoming'[s]) \subseteq Range(incoming[s]) \cup {c}
         /\ c \in Range(incoming'[s])
         /\ \A i, j \in DOMAIN incoming'[s] :
              incoming'[s][i] = incoming'[s][j] => i = j
<1>1. /\ incoming' \in [Servs -> Seq(Conns)]
      /\ \A r \in Servs \ {s} : incoming'[r] = incoming[r]
      /\ Range(incoming'[s]) \subseteq Range(incoming[s]) \cup {c}
  BY AddQueues
<1>2. /\ incoming[s] \in Seq(Conns) /\ conns[s] \subseteq Conns
      /\ \A i, j \in DOMAIN incoming[s] :
           incoming[s][i] = incoming[s][j] => i = j
  BY DEF TypeOK, ListsAreOwn
<1>3. ~IsPortTaken(conns[s], c)
  BY <1>2 DEF IsPortTaken, PortsAreFree, ListsAreOwn, Listed
<1>4. incoming'[s] = Append(incoming[s], c)
  BY <1>3 DEF Add, TypeOK
<1>5. Range(incoming'[s]) = Range(incoming[s]) \cup {c}
  BY <1>2, <1>4, RangeOfAppend
<1>6. LET r == Append(incoming[s], c)
      IN  \A i, j \in DOMAIN r : r[i] = r[j] => i = j
  <2>1. c \notin Range(incoming[s])
    BY DEF Listed
  <2> QED
    BY <1>2, <2>1, AppendKeepsDistinct
<1> QED
  BY <1>1, <1>4, <1>5, <1>6

LEMMA HandOverKeepsAny ==
  ASSUME PortsAreFree, AnyServer, HandOver
  PROVE  AnyServer'
<1> USE ServerThreadsAssumption DEF AnyServer
<1> DEFINE c == listener.conn
           s == map[AddrOf[c]]
<1>a. listener' = [pc |-> "accept", conn |-> NoConn] /\ lock = "free"
  BY DEF HandOver
<1>b. /\ c \in Conns /\ c \in accepted /\ freed[c] = 0
      /\ \A r \in Servs : c \notin Listed(r)
  BY DEF HandOver, TypeOK, HeldIsNew
<1>c. AddrOf[c] \in DOMAIN map /\ Add(s, c)
  BY DEF HandOver
<1>d. s \in Servs /\ life[s] = "live" /\ address[s] = AddrOf[c]
  BY <1>c DEF TypeOK, SoundMap
<1> HIDE DEF s, c
<1>e. /\ incoming' \in [Servs -> Seq(Conns)]
      /\ \A r \in Servs \ {s} : incoming'[r] = incoming[r]
      /\ Range(incoming[s]) \subseteq Range(incoming'[s])
      /\ Range(incoming'[s]) \subseteq Range(incoming[s]) \cup {c}
      /\ c \in Range(incoming'[s])
      /\ \A i, j \in DOMAIN incoming'[s] :
           incoming'[s][i] = incoming'[s][j] => i = j
  BY <1>b, <1>c, <1>d, AddLists
<1>f. UNCHANGED <<accepted, collector, server, life, address, isLoop, conns,
                  closing, thread, fate>>
  BY DEF HandOver
<1> USE DEF server, object, fate
<1>1. TypeOK'
  BY <1>a, <1>e, <1>f DEF TypeOK, NoConn
<1>2. SoundMap'
  BY <1>a, <1>f DEF SoundMap
<1>3. SoundLock'
  BY <1>f DEF SoundLock
<1>4. StopsAreTold' /\ CollectsKnown'
  BY <1>f DEF StopsAreTold, CollectsKnown
<1>5. ListsAreOwn'
  <2>1. \A r \in Servs : \A d \in Listed(r)' :
          d \in Listed(r) \/ (d = c /\ r = s)
    BY <1>e, <1>f DEF Listed
  <2>2. \A r \in Servs : \A d \in Listed(r)' :
          d \in accepted' /\ freed'[d] = 0 /\ AddrOf[d] = address'[r]
    BY <1>b, <1>d, <1>f, <2>1 DEF ListsAreOwn
  <2>3. \A r \in Servs : life'[r] # "live" => conns'[r] = {} /\ incoming'[r] = <<>>
    BY <1>d, <1>e, <1>f DEF ListsAreOwn
  <2>4. \A r \in Servs : \A i, j \in DOMAIN incoming'[r] :
          incoming'[r][i] = incoming'[r][j] => i = j
    BY <1>e DEF ListsAreOwn
  <2>5. \A r \in Servs : /\ closing'[r] \subseteq conns'[r]
                         /\ conns'[r] \cap Range(incoming'[r]) = {}
    BY <1>b, <1>e, <1>f DEF ListsAreOwn, Listed
  <2> QED
    BY <2>2, <2>3, <2>4, <2>5 DEF ListsAreOwn
<1>6. HeldIsNew'
  BY <1>a, <1>f DEF HeldIsNew, NoConn
<1>7. NoneIsLost'
  <2>1. \A r \in Servs : Listed(r) \subseteq Listed(r)'
    BY <1>e, <1>f DEF Listed
  <2>2. \E r \in Servs : life'[r] = "live" /\ c \in Listed(r)'
    BY <1>d, <1>e, <1>f DEF Listed
  <2>3. \A d \in accepted :
          d = c \/ freed[d] > 0
                \/ \E r \in Servs : life[r] = "live" /\ d \in Listed(r)
    BY DEF NoneIsLost, c
  <2> QED
    BY <1>d, <1>f, <2>1, <2>2, <2>3 DEF NoneIsLost
<1> QED
  BY <1>1, <1>2, <1>3, <1>4, <1>5, <1>6, <1>7

LEMMA NotFoundKeepsAny ==
  ASSUME AnyServer, NotFound
  PROVE  AnyServer'
<1> USE ServerThreadsAssumption DEF AnyServer, NotFound
<1>1. TypeOK'
  BY DEF TypeOK, object, server, fate, NoConn
<1>2. SoundMap'
  BY DEF TypeOK, SoundMap, object, server
<1>3. SoundLock'
  BY DEF TypeOK, SoundLock, server
<1>4. StopsAreTold' /\ CollectsKnown'
  BY DEF StopsAreTold, CollectsKnown, object, server
<1>5. ListsAreOwn' /\ HeldIsNew' /\ NoneIsLost'
  BY DEF TypeOK, ListsAreOwn, HeldIsNew, NoneIsLost, Listed, object, fate, NoConn
<1> QED
  BY <1>1, <1>2, <1>3, <1>4, <1>5

LEMMA CreateServerKeepsAny ==
  ASSUME PortsAreFree, AnyServer, NEW s \in Servs, NEW t \in Threads,
         CreateServer(s, t)
  PROVE  AnyServer'
<1> USE ServerThreadsAssumption DEF AnyServer
<1> DEFINE c == listener.conn
<1>a. listener.pc = "create" /\ listener' = [pc |-> "accept", conn |-> NoConn]
  BY DEF CreateServer
<1>b. /\ c \in Conns /\ c \in accepted /\ freed[c] = 0
      /\ AddrOf[c] \in Addrs /\ AddrOf[c] \notin DOMAIN map
  BY <1>a DEF TypeOK, HeldIsNew, SoundMap
<1>c. life[s] = "unused" /\ lock = "free" /\ thread[t] = Ended /\ Add(s, c)
  BY DEF CreateServer
<1>i. /\ conns[s] = {} /\ closing[s] = {} /\ incoming[s] = <<>>
      /\ incoming' = [incoming EXCEPT ![s] = <<c>>]
  <2>1. conns[s] = {} /\ closing[s] = {} /\ incoming[s] = <<>>
    BY <1>c DEF ListsAreOwn
  <2>2. ~IsPortTaken(conns[s], c)
    BY <2>1 DEF IsPortTaken
  <2> QED
    BY <1>c, <2>1, <2>2 DEF Add
<1>d. /\ <<c>> \in Seq(Conns) /\ Range(<<c>>) = {c} /\ DOMAIN <<c>> = {1}
      /\ incoming' \in [Servs -> Seq(Conns)] /\ incoming'[s] = <<c>>
      /\ \A r \in Servs \ {s} : incoming'[r] = incoming[r]
  <2>1. <<c>> \in Seq(Conns)
    BY <1>b
  <2>2. Range(<<c>>) = {c} /\ DOMAIN <<c>> = {1}
    BY DEF Range
  <2> QED
    BY <1>i, <2>1, <2>2 DEF TypeOK
<1>e. /\ thread' \in [Threads -> ThreadStates]
      /\ thread'[t] = [serv |-> s, pc |-> "test"]
      /\ \A u \in Threads \ {t} : thread'[u] = thread[u]
  BY ThreadStarts DEF CreateServer
<1>f. UNCHANGED <<accepted, collector, lock, trash, conns, closing, fate>>
  BY DEF CreateServer
<1>g. /\ DOMAIN map' = DOMAIN map \cup {AddrOf[c]} /\ map'[AddrOf[c]] = s
      /\ map' \in [DOMAIN map' -> Servs]
      /\ \A a \in DOMAIN map : map'[a] = map[a] /\ map[a] # s
  BY <1>b, <1>c DEF CreateServer, TypeOK, SoundMap
<1>h. /\ life' = [life EXCEPT ![s] = "live"] /\ life'[s] = "live"
      /\ address' = [address EXCEPT ![s] = AddrOf[c]] /\ address'[s] = AddrOf[c]
      /\ isLoop' = [isLoop EXCEPT ![s] = TRUE] /\ isLoop'[s] = TRUE
  BY DEF CreateServer, TypeOK
<1>j. \A r \in Servs \ {s} :
        life'[r] = life[r] /\ address'[r] = address[r] /\ isLoop'[r] = isLoop[r]
  BY <1>h DEF TypeOK
<1> HIDE DEF c
<1> USE DEF fate
<1>1. TypeOK'
  <2>1. life' \in [Servs -> {"unused", "live", "freed"}]
    BY <1>h DEF TypeOK
  <2>2. address' \in [Servs -> Addrs \cup {"none"}]
    BY <1>b, <1>h DEF TypeOK
  <2>3. isLoop' \in [Servs -> BOOLEAN]
    BY <1>h DEF TypeOK
  <2>4. DOMAIN map' \subseteq Addrs /\ map' \in [DOMAIN map' -> Servs]
    BY <1>b, <1>g DEF TypeOK
  <2> QED
    BY <1>a, <1>d, <1>e, <1>f, <2>1, <2>2, <2>3, <2>4
    DEF TypeOK, ThreadStates, NoConn
<1>2. SoundMap'
  BY <1>a, <1>b, <1>c, <1>g, <1>h DEF TypeOK, SoundMap
<1>3. SoundLock'
  <2>1. thread[t].pc # "forcing" /\ thread'[t].pc # "forcing"
    BY <1>c, <1>e DEF Ended
  <2> QED
    BY <1>e, <1>f, <2>1, LockStays
<1>4. StopsAreTold'
  <2> SUFFICES ASSUME NEW r \in Servs, life'[r] = "live"
               PROVE  \/ isLoop'[r] /\ \E u \in Threads : thread'[u].serv = r
                      \/ address'[r] \in Range(trash')
                      \/ \E u \in Threads : /\ thread'[u].serv = r
                                            /\ thread'[u].pc \in {"stop", "forcing"}
    BY DEF StopsAreTold
  <2>1. CASE r = s
    BY <1>e, <1>h, <2>1
  <2>2. CASE r # s
    <3>1. \A u \in Threads : thread[u].serv = r => thread'[u] = thread[u]
      BY <1>c, <1>e DEF Ended
    <3> QED
      BY <1>f, <1>j, <2>2, <3>1, StopsStayTold DEF StopsAreTold
  <2> QED
    BY <2>1, <2>2
<1>5. CollectsKnown'
  BY <1>f, <1>g DEF CollectsKnown
<1>6. ListsAreOwn'
  <2>1. \A r \in Servs \ {s} : Listed(r)' = Listed(r)
    BY <1>d, <1>f DEF Listed
  <2>2. Listed(s)' = {c}
    BY <1>d, <1>f, <1>i DEF Listed
  <2>3. \A r \in Servs : \A d \in Listed(r)' :
          d \in accepted' /\ freed'[d] = 0 /\ AddrOf[d] = address'[r]
    BY <1>b, <1>f, <1>h, <1>j, <2>1, <2>2 DEF ListsAreOwn
  <2>4. \A r \in Servs : life'[r] # "live" => conns'[r] = {} /\ incoming'[r] = <<>>
    BY <1>d, <1>f, <1>h, <1>j DEF ListsAreOwn
  <2>5. \A r \in Servs : \A i, j \in DOMAIN incoming'[r] :
          incoming'[r][i] = incoming'[r][j] => i = j
    BY <1>d DEF ListsAreOwn
  <2>6. \A r \in Servs : /\ closing'[r] \subseteq conns'[r]
                         /\ conns'[r] \cap Range(incoming'[r]) = {}
    BY <1>d, <1>f, <1>i DEF ListsAreOwn
  <2> QED
    BY <2>3, <2>4, <2>5, <2>6 DEF ListsAreOwn
<1>7. HeldIsNew'
  BY <1>a, <1>f DEF HeldIsNew, NoConn
<1>8. NoneIsLost'
  <2>1. \A r \in Servs \ {s} : Listed(r)' = Listed(r)
    BY <1>d, <1>f DEF Listed
  <2>2. c \in Listed(s)'
    BY <1>d DEF Listed
  <2>3. \A d \in accepted :
          d = c \/ freed[d] > 0
                \/ \E r \in Servs : life[r] = "live" /\ d \in Listed(r)
    BY DEF NoneIsLost, c
  <2>4. \A r \in Servs : life[r] = "live" => r # s /\ life'[r] = "live"
    BY <1>c, <1>j
  <2> QED
    BY <1>f, <1>h, <2>1, <2>2, <2>3, <2>4 DEF NoneIsLost
<1> QED
  BY <1>1, <1>2, <1>3, <1>4, <1>5, <1>6, <1>7, <1>8
\* A thread that ends has seen that its ServerThread was stopped.
LEMMA TestKeepsAny ==
  ASSUME AnyServer, NEW t \in Threads, Test(t)
  PROVE  AnyServer'
<1> USE ServerThreadsAssumption DEF AnyServer
<1> DEFINE s == thread[t].serv
<1>a. /\ UNCHANGED <<listener, accepted, collector, server, object, fate>>
      /\ thread[t].pc = "test" /\ At(t, "test")
  BY DEF Test, At
<1>b. /\ s \in Servs /\ thread[t] # Ended
      /\ thread' \in [Threads -> ThreadStates]
      /\ \/ isLoop[s] /\ thread'[t] = [serv |-> s, pc |-> "turn"]
         \/ ~isLoop[s] /\ thread'[t] = Ended
      /\ \A u \in Threads \ {t} : thread'[u] = thread[u]
  <2> USE DEF Pcs
  <2>1. CASE isLoop[s]
    <3>1. Goto(t, "turn")
      BY <2>1 DEF Test
    <3> QED
      BY <1>a, <2>1, <3>1, ThreadMoves
  <2>2. CASE ~isLoop[s]
    <3>1. End(t)
      BY <2>2 DEF Test
    <3> QED
      BY <1>a, <2>2, <3>1, ThreadEnds
  <2> QED
    BY <2>1, <2>2
<1> USE DEF server, object, fate
<1>1. TypeOK'
  BY <1>a, <1>b DEF TypeOK, ThreadStates
<1>2. SoundMap'
  BY <1>a DEF SoundMap
<1>3. SoundLock'
  <2>1. thread'[t].pc # "forcing"
    BY <1>b DEF Ended
  <2> QED
    BY <1>a, <1>b, <2>1, LockStays
<1>4. StopsAreTold'
  <2> SUFFICES ASSUME NEW r \in Servs, life[r] = "live"
               PROVE  \/ isLoop[r] /\ \E u \in Threads : thread'[u].serv = r
                      \/ address[r] \in Range(trash)
                      \/ \E u \in Threads : /\ thread'[u].serv = r
                                            /\ thread'[u].pc \in {"stop", "forcing"}
    BY <1>a DEF StopsAreTold
  <2>1. \/ isLoop[r] /\ \E u \in Threads : thread[u].serv = r
        \/ address[r] \in Range(trash)
        \/ \E u \in Threads :
             thread[u].serv = r /\ thread[u].pc \in {"stop", "forcing"}
    BY DEF StopsAreTold
  <2>2. \A u \in Threads :
          thread[u].pc \in {"stop", "forcing"} => thread'[u] = thread[u]
    BY <1>a, <1>b
  <2>3. isLoop[r] => \A u \in Threads :
          thread[u].serv = r => thread'[u].serv = r
    BY <1>b
  <2> QED
    BY <2>1, <2>2, <2>3
<1>5. CollectsKnown'
  BY <1>a DEF CollectsKnown
<1>6. ListsAreOwn' /\ HeldIsNew' /\ NoneIsLost'
  BY <1>a, ListsStay
<1> QED
  BY <1>1, <1>2, <1>3, <1>4, <1>5, <1>6

\* A thread that stays in its loop and touches neither the flag nor the queue
\* leaves every ServerThread as well told as it was.
LEMMA MovesKeepTold ==
  ASSUME TypeOK, StopsAreTold, NEW t \in Threads, thread[t].serv \in Servs,
         thread'[t].serv = thread[t].serv,
         thread[t].pc \notin {"stop", "forcing"},
         \A u \in Threads \ {t} : thread'[u] = thread[u],
         UNCHANGED <<life, address, isLoop, trash>>
  PROVE  StopsAreTold'
<1>1. \A u \in Threads : thread'[u].serv = thread[u].serv
  OBVIOUS
<1>2. \A u \in Threads :
        thread[u].pc \in {"stop", "forcing"} => thread'[u] = thread[u]
  OBVIOUS
<1> QED
  BY <1>1, <1>2 DEF StopsAreTold

\* Turn and TurnThrows only note what the handler closed.
LEMMA TurnKeepsAny ==
  ASSUME AnyServer, NEW t \in Threads, NEW done \in SUBSET Conns,
         Turn(t, done) \/ TurnThrows(t, done)
  PROVE  AnyServer'
<1> USE ServerThreadsAssumption DEF AnyServer
<1> DEFINE s == thread[t].serv
<1>a. /\ UNCHANGED <<listener, accepted, collector, server, life, address,
                     isLoop, conns, incoming, fate>>
      /\ thread[t].pc = "turn" /\ At(t, "turn")
      /\ closing' = [closing EXCEPT ![s] = @ \cup done]
  BY DEF Turn, TurnThrows, At
<1>b. /\ s \in Servs /\ thread[t] # Ended
      /\ thread' \in [Threads -> ThreadStates]
      /\ thread'[t].serv = s /\ thread'[t].pc # "forcing"
      /\ \A u \in Threads \ {t} : thread'[u] = thread[u]
  <2> USE DEF Pcs
  <2>1. CASE Turn(t, done)
    <3>1. Goto(t, "sweep")
      BY <2>1 DEF Turn
    <3>2. /\ s \in Servs /\ thread[t] # Ended
          /\ thread' \in [Threads -> ThreadStates]
          /\ thread'[t] = [serv |-> s, pc |-> "sweep"]
          /\ \A u \in Threads \ {t} : thread'[u] = thread[u]
      BY <1>a, <3>1, ThreadMoves
    <3> QED
      BY <3>2
  <2>2. CASE TurnThrows(t, done)
    <3>1. Goto(t, "force")
      BY <2>2 DEF TurnThrows
    <3>2. /\ s \in Servs /\ thread[t] # Ended
          /\ thread' \in [Threads -> ThreadStates]
          /\ thread'[t] = [serv |-> s, pc |-> "force"]
          /\ \A u \in Threads \ {t} : thread'[u] = thread[u]
      BY <1>a, <3>1, ThreadMoves
    <3> QED
      BY <3>2
  <2> QED
    BY <2>1, <2>2
<1> USE DEF server, fate
<1>1. TypeOK'
  <2>1. closing' \in [Servs -> SUBSET Conns]
    BY <1>a DEF TypeOK
  <2> QED
    BY <1>a, <1>b, <2>1 DEF TypeOK, ThreadStates
<1>2. SoundMap'
  BY <1>a DEF SoundMap
<1>3. SoundLock'
  BY <1>a, <1>b, LockStays
<1>4. StopsAreTold'
  BY <1>a, <1>b, MovesKeepTold
<1>5. CollectsKnown'
  BY <1>a DEF CollectsKnown
<1>6. ListsAreOwn' /\ HeldIsNew' /\ NoneIsLost'
  <2>1. done \subseteq conns[s]
    BY DEF Turn, TurnThrows
  <2>2. \A r \in Servs : closing'[r] \subseteq conns[r]
    BY <1>a, <2>1 DEF TypeOK, ListsAreOwn
  <2> QED
    BY <1>a, <2>2, ListsStay
<1> QED
  BY <1>1, <1>2, <1>3, <1>4, <1>5, <1>6

\* What leaves m_conns has been deleted.
LEMMA SweepKeepsAny ==
  ASSUME AnyServer, NEW t \in Threads, Sweep(t)
  PROVE  AnyServer'
<1> USE ServerThreadsAssumption DEF AnyServer
<1> DEFINE s == thread[t].serv
           gone == closing[s] \cap conns[s]
<1>a. /\ UNCHANGED <<listener, accepted, collector, server, life, address,
                     isLoop, incoming>>
      /\ thread[t].pc = "sweep" /\ At(t, "sweep") /\ Goto(t, "drain")
      /\ conns' = [conns EXCEPT ![s] = @ \ gone]
      /\ closing' = [closing EXCEPT ![s] = {}]
      /\ freed' = [c \in Conns |-> freed[c] + IF c \in gone THEN 1 ELSE 0]
      /\ released' = released \cup gone
  BY DEF Sweep, At
<1>b. /\ s \in Servs /\ life[s] = "live" /\ thread[t] # Ended
      /\ thread' \in [Threads -> ThreadStates]
      /\ thread'[t] = [serv |-> s, pc |-> "drain"]
      /\ \A u \in Threads \ {t} : thread'[u] = thread[u]
  BY <1>a, ThreadMoves DEF Pcs
<1>c. /\ conns' \in [Servs -> SUBSET Conns] /\ conns'[s] = conns[s] \ gone
      /\ \A r \in Servs \ {s} : conns'[r] = conns[r]
      /\ closing' \in [Servs -> SUBSET Conns] /\ closing'[s] = {}
      /\ \A r \in Servs \ {s} : closing'[r] = closing[r]
  BY <1>a, <1>b DEF TypeOK
<1>d. /\ freed' \in [Conns -> Nat]
      /\ \A c \in Conns : c \notin gone => freed'[c] = freed[c]
      /\ \A c \in Conns : c \in gone => freed'[c] > 0
  BY <1>a DEF TypeOK
<1>e. gone \subseteq Conns /\ gone \subseteq Listed(s)
  BY <1>b DEF TypeOK, Listed
<1>g. gone \cap Range(incoming[s]) = {}
  BY <1>b DEF ListsAreOwn
<1> HIDE DEF s, gone
<1> USE DEF server
<1>1. TypeOK'
  BY <1>a, <1>b, <1>c, <1>d, <1>e DEF TypeOK, ThreadStates
<1>2. SoundMap'
  BY <1>a DEF SoundMap
<1>3. SoundLock'
  BY <1>a, <1>b, LockStays
<1>4. StopsAreTold'
  BY <1>a, <1>b, MovesKeepTold DEF s
<1>5. CollectsKnown'
  BY <1>a, <1>b DEF CollectsKnown
<1>6. ListsAreOwn'
  <2>1. \A r \in Servs : Listed(r)' \subseteq Listed(r)
    BY <1>a, <1>c DEF Listed
  <2>2. \A r \in Servs : life'[r] # "live" => conns'[r] = {} /\ incoming'[r] = <<>>
    BY <1>a, <1>b, <1>c DEF ListsAreOwn
  <2>3. \A r \in Servs : Listed(r)' \cap gone = {}
    <3>1. \A r \in Servs : r = s => Listed(r)' \cap gone = {}
      BY <1>a, <1>b, <1>c, <1>g DEF Listed
    <3>2. \A r \in Servs : Listed(r) \cap gone # {} => r = s
      BY <1>b, <1>e, ListsDiffer
    <3> QED
      BY <2>1, <3>1, <3>2
  <2>4. \A r \in Servs : \A c \in Listed(r)' :
          c \in accepted' /\ freed'[c] = 0 /\ AddrOf[c] = address'[r]
    <3>1. \A r \in Servs : \A c \in Listed(r) :
            c \in Conns /\ c \in accepted /\ freed[c] = 0 /\ AddrOf[c] = address[r]
      BY DEF TypeOK, ListsAreOwn
    <3> QED
      BY <1>a, <1>d, <2>1, <2>3, <3>1
  <2>5. \A r \in Servs : /\ closing'[r] \subseteq conns'[r]
                         /\ conns'[r] \cap Range(incoming'[r]) = {}
    BY <1>a, <1>c DEF ListsAreOwn
  <2> QED
    BY <1>a, <2>2, <2>4, <2>5 DEF ListsAreOwn
<1>7. HeldIsNew'
  <2>1. \A c \in gone : c \in accepted /\ c # listener.conn
    BY <1>b, <1>e DEF ListsAreOwn, HeldIsNew, TypeOK, NoConn
  <2>2. \A r \in Servs : Listed(r)' \subseteq Listed(r)
    BY <1>a, <1>c DEF Listed
  <2>3. listener.conn # NoConn => listener.conn \in Conns
    BY DEF TypeOK
  <2> QED
    BY <1>a, <1>d, <2>1, <2>2, <2>3 DEF HeldIsNew
<1>8. NoneIsLost'
  <2>1. \A r \in Servs : \A c \in Listed(r) : c \in Listed(r)' \/ c \in gone
    BY <1>a, <1>c DEF Listed
  <2>2. accepted \subseteq Conns
    BY DEF TypeOK
  <2> QED
    BY <1>a, <1>d, <1>e, <2>1, <2>2 DEF NoneIsLost
<1> QED
  BY <1>1, <1>2, <1>3, <1>4, <1>5, <1>6, <1>7, <1>8

\* Everything in the queue is taken in, unless m_conns has it already.
LEMMA DrainTakesAll ==
  ASSUME PortsAreFree, TypeOK, ListsAreOwn, NEW s \in Servs
  PROVE  /\ TakenIn(conns[s], incoming[s]) = Listed(s)
         /\ Listed(s) \subseteq Conns
<1> DEFINE queue == incoming[s]
<1>1. /\ queue \in Seq(Conns) /\ conns[s] \subseteq Conns
      /\ \A i, j \in DOMAIN queue : queue[i] = queue[j] => i = j
      /\ \A c \in Listed(s) :
           c \in accepted /\ freed[c] = 0 /\ AddrOf[c] = address[s]
  BY DEF TypeOK, ListsAreOwn
<1>2. Range(queue) \subseteq Conns
  BY <1>1 DEF Range
<1>3. \A c, d \in Listed(s) : PortOf[c] = PortOf[d] => c = d
  BY <1>1 DEF PortsAreFree
<1>4. ASSUME NEW c \in Listed(s), c \notin conns[s]
      PROVE  c \in TakenIn(conns[s], queue)
  <2>1. PICK i \in DOMAIN queue : queue[i] = c
    BY <1>4 DEF Listed, Range
  <2>2. ~IsPortTaken(conns[s], queue[i])
    BY <1>3, <1>4, <2>1 DEF IsPortTaken, Listed
  <2>3. \A k \in 1 .. i - 1 : k \in DOMAIN queue /\ k # i
    <3>1. DOMAIN queue = 1 .. Len(queue) /\ Len(queue) \in Nat
      BY <1>1
    <3> QED
      BY <2>1, <3>1
  <2>4. \A k \in 1 .. i - 1 : PortOf[queue[k]] # PortOf[queue[i]]
    <3> SUFFICES ASSUME NEW k \in 1 .. i - 1, PortOf[queue[k]] = PortOf[queue[i]]
                 PROVE  FALSE
      OBVIOUS
    <3>1. queue[k] \in Listed(s) /\ queue[i] \in Listed(s)
      BY <2>1, <2>3 DEF Listed, Range
    <3> QED
      BY <1>1, <1>3, <2>1, <2>3, <3>1
  <2> QED
    BY <2>1, <2>2, <2>4 DEF TakenIn
<1>5. conns[s] \subseteq TakenIn(conns[s], queue)
  BY DEF TakenIn
<1>6. TakenIn(conns[s], queue) \subseteq Listed(s)
  BY TakenInBounds DEF Listed
<1>7. Listed(s) \subseteq Conns
  BY <1>1, <1>2 DEF Listed
<1> QED
  BY <1>4, <1>5, <1>6, <1>7

LEMMA DrainKeepsAny ==
  ASSUME PortsAreFree, AnyServer, NEW t \in Threads, Drain(t)
  PROVE  AnyServer'
<1> USE ServerThreadsAssumption DEF AnyServer
<1> DEFINE s == thread[t].serv
           now == TakenIn(conns[s], incoming[s])
<1>a. /\ UNCHANGED <<listener, accepted, collector, server, life, address,
                     closing, fate>>
      /\ thread[t].pc = "drain" /\ At(t, "drain")
  BY DEF Drain, At
<1>b. /\ s \in Servs /\ life[s] = "live" /\ thread[t] # Ended
      /\ thread' \in [Threads -> ThreadStates]
      /\ \/ now # {} /\ thread'[t] = [serv |-> s, pc |-> "test"]
         \/ now = {} /\ thread'[t] = [serv |-> s, pc |-> "stop"]
      /\ \A u \in Threads \ {t} : thread'[u] = thread[u]
  <2> USE DEF Pcs
  <2>1. CASE now # {}
    <3>1. Goto(t, "test")
      BY <2>1 DEF Drain
    <3> QED
      BY <1>a, <2>1, <3>1, ThreadMoves
  <2>2. CASE now = {}
    <3>1. Goto(t, "stop")
      BY <2>2 DEF Drain
    <3> QED
      BY <1>a, <2>2, <3>1, ThreadMoves
  <2> QED
    BY <2>1, <2>2
<1>c. now = Listed(s) /\ now \subseteq Conns
  BY <1>b, DrainTakesAll
<1>d. /\ conns' = [conns EXCEPT ![s] = now]
      /\ incoming' = [incoming EXCEPT ![s] = <<>>]
      /\ isLoop' = [isLoop EXCEPT ![s] = isLoop[s] /\ now # {}]
  BY Zenon DEF Drain
<1> HIDE DEF now, s
<1>e. /\ conns' \in [Servs -> SUBSET Conns] /\ conns'[s] = now
      /\ incoming' \in [Servs -> Seq(Conns)] /\ incoming'[s] = <<>>
      /\ \A r \in Servs : r # s =>
           conns'[r] = conns[r] /\ incoming'[r] = incoming[r]
  <2>1. now \in SUBSET Conns /\ <<>> \in Seq(Conns)
    BY <1>c
  <2> QED
    BY <1>b, <1>d, <2>1 DEF TypeOK
<1>f. /\ isLoop' \in [Servs -> BOOLEAN]
      /\ \A r \in Servs : r # s => isLoop'[r] = isLoop[r]
      /\ now # {} /\ isLoop[s] => isLoop'[s]
  <2>1. (isLoop[s] /\ now # {}) \in BOOLEAN
    BY Zenon
  <2>2. /\ isLoop' \in [Servs -> BOOLEAN]
        /\ \A r \in Servs : r # s => isLoop'[r] = isLoop[r]
    BY <1>d, <2>1 DEF TypeOK
  <2>3. isLoop'[s] = (isLoop[s] /\ now # {})
    BY Zenon, <1>b, <1>d DEF TypeOK
  <2> QED
    BY <2>2, <2>3
<1> USE DEF server, fate
<1>1. TypeOK'
  BY <1>a, <1>b, <1>e, <1>f DEF TypeOK, ThreadStates
<1>2. SoundMap'
  BY <1>a DEF SoundMap
<1>3. SoundLock'
  <2>1. thread'[t].pc # "forcing"
    BY <1>b
  <2> QED
    BY <1>a, <1>b, <2>1, LockStays
<1>4. StopsAreTold'
  <2> SUFFICES ASSUME NEW r \in Servs, life[r] = "live"
               PROVE  \/ isLoop'[r] /\ \E u \in Threads : thread'[u].serv = r
                      \/ address[r] \in Range(trash)
                      \/ \E u \in Threads : /\ thread'[u].serv = r
                                            /\ thread'[u].pc \in {"stop", "forcing"}
    BY <1>a DEF StopsAreTold
  <2>1. \/ isLoop[r] /\ \E u \in Threads : thread[u].serv = r
        \/ address[r] \in Range(trash)
        \/ \E u \in Threads :
             thread[u].serv = r /\ thread[u].pc \in {"stop", "forcing"}
    BY DEF StopsAreTold
  <2>2. \A u \in Threads :
          thread[u].pc \in {"stop", "forcing"} => thread'[u] = thread[u]
    BY <1>a, <1>b
  <2>3. \A u \in Threads : thread'[u].serv = thread[u].serv
    BY <1>b DEF s
  <2>4. CASE r = s /\ now = {}
    BY <1>b, <2>4
  <2>5. CASE r # s \/ now # {}
    <3>1. isLoop[r] => isLoop'[r]
      BY <1>f, <2>5
    <3> QED
      BY <2>1, <2>2, <2>3, <3>1
  <2> QED
    BY <2>4, <2>5
<1>5. CollectsKnown'
  BY <1>a DEF CollectsKnown
<1>6. \A r \in Servs : Listed(r)' = Listed(r)
  <2>1. Range(<<>>) = {}
    BY DEF Range
  <2> QED
    BY <1>c, <1>e, <2>1 DEF Listed
<1>7. ListsAreOwn'
  <2>1. \A r \in Servs : life'[r] # "live" => conns'[r] = {} /\ incoming'[r] = <<>>
    BY <1>a, <1>b, <1>e DEF ListsAreOwn
  <2>2. \A r \in Servs : \A i, j \in DOMAIN incoming'[r] :
          incoming'[r][i] = incoming'[r][j] => i = j
    <3>1. DOMAIN <<>> = {}
      OBVIOUS
    <3> QED
      BY <1>e, <3>1 DEF ListsAreOwn
  <2>3. \A r \in Servs : \A c \in Listed(r)' :
          c \in accepted' /\ freed'[c] = 0 /\ AddrOf[c] = address'[r]
    BY <1>a, <1>6 DEF ListsAreOwn
  <2>4. \A r \in Servs : /\ closing'[r] \subseteq conns'[r]
                         /\ conns'[r] \cap Range(incoming'[r]) = {}
    <3>1. Range(<<>>) = {} /\ closing[s] \subseteq now
      BY <1>b, <1>c DEF Range, ListsAreOwn, Listed
    <3> QED
      BY <1>a, <1>e, <3>1 DEF ListsAreOwn
  <2> QED
    BY <2>1, <2>2, <2>3, <2>4 DEF ListsAreOwn
<1>8. HeldIsNew'
  BY <1>a, <1>6 DEF HeldIsNew
<1>9. NoneIsLost'
  BY <1>a, <1>6 DEF NoneIsLost
<1> QED
  BY <1>1, <1>2, <1>3, <1>4, <1>5, <1>7, <1>8, <1>9
\* Its address is on the queue once the thread has let go of it.
LEMMA StopServerKeepsAny ==
  ASSUME AnyServer, NEW t \in Threads, StopServer(t)
  PROVE  AnyServer'
<1> USE ServerThreadsAssumption DEF AnyServer
<1> DEFINE s == thread[t].serv
<1>a. /\ UNCHANGED <<listener, accepted, collector, map, lock, life, address,
                     conns, incoming, closing, fate>>
      /\ thread[t].pc = "stop" /\ At(t, "stop") /\ Goto(t, "test")
      /\ trash' = Append(trash, address[s])
      /\ isLoop' = [isLoop EXCEPT ![s] = FALSE]
      /\ lock = "free"
  BY DEF StopServer, At
<1>b. /\ s \in Servs /\ life[s] = "live" /\ thread[t] # Ended
      /\ thread' \in [Threads -> ThreadStates]
      /\ thread'[t] = [serv |-> s, pc |-> "test"]
      /\ \A u \in Threads \ {t} : thread'[u] = thread[u]
  BY <1>a, ThreadMoves DEF Pcs
<1>c. address[s] \in Addrs /\ trash \in Seq(Addrs)
  BY <1>b DEF TypeOK, SoundMap
<1>d. trash' \in Seq(Addrs) /\ Range(trash') = Range(trash) \cup {address[s]}
  BY <1>a, <1>c, RangeOfAppend
<1>e. /\ isLoop' \in [Servs -> BOOLEAN]
      /\ \A r \in Servs : r # s => isLoop'[r] = isLoop[r]
  BY <1>a DEF TypeOK
<1> HIDE DEF s
<1> USE DEF fate
<1>1. TypeOK'
  BY <1>a, <1>b, <1>d, <1>e DEF TypeOK, ThreadStates
<1>2. SoundMap'
  BY <1>a DEF SoundMap
<1>3. SoundLock'
  BY <1>a, <1>b, LockStays
<1>4. StopsAreTold'
  <2> SUFFICES ASSUME NEW r \in Servs, life[r] = "live", r # s
               PROVE  \/ isLoop'[r] /\ \E u \in Threads : thread'[u].serv = r
                      \/ address'[r] \in Range(trash')
                      \/ \E u \in Threads : /\ thread'[u].serv = r
                                            /\ thread'[u].pc \in {"stop", "forcing"}
    BY <1>a, <1>d DEF StopsAreTold
  <2>1. \A u \in Threads : thread[u].serv = r => thread'[u] = thread[u]
    BY <1>b DEF s
  <2> QED
    BY <1>a, <1>d, <1>e, <2>1, StopsStayTold DEF StopsAreTold
<1>5. CollectsKnown'
  BY <1>a DEF CollectsKnown, SoundLock
<1>6. ListsAreOwn' /\ HeldIsNew' /\ NoneIsLost'
  BY <1>a, ListsStay
<1> QED
  BY <1>1, <1>2, <1>3, <1>4, <1>5, <1>6

\* ForceStop finds the ServerThread of its thread on the map.
LEMMA ForceStopKeepsAny ==
  ASSUME AnyServer, NEW t \in Threads, ForceStop(t)
  PROVE  AnyServer'
<1> USE ServerThreadsAssumption DEF AnyServer
<1> DEFINE s == thread[t].serv
<1>a. /\ UNCHANGED <<listener, accepted, collector, map, trash, life, address,
                     conns, incoming, closing, fate>>
      /\ thread[t].pc = "force" /\ At(t, "force") /\ lock = "free"
  BY DEF ForceStop, At
<1>b. s \in Servs /\ life[s] = "live" /\ thread[t] # Ended
  BY <1>a, ThreadServes DEF At, Pcs
<1>c. address[s] \in DOMAIN map
  BY <1>b DEF SoundMap
<1>d. lock' = t /\ Goto(t, "forcing") /\ isLoop' = [isLoop EXCEPT ![s] = FALSE]
  BY <1>c DEF ForceStop
<1>e. /\ thread' \in [Threads -> ThreadStates]
      /\ thread'[t] = [serv |-> s, pc |-> "forcing"]
      /\ \A u \in Threads \ {t} : thread'[u] = thread[u]
  BY <1>a, <1>d, ThreadMoves DEF Pcs
<1>f. /\ isLoop' \in [Servs -> BOOLEAN]
      /\ \A r \in Servs : r # s => isLoop'[r] = isLoop[r]
  BY <1>d DEF TypeOK
<1>g. collector = "idle"
  BY <1>a DEF SoundLock, TypeOK
<1> HIDE DEF s
<1> USE DEF fate
<1>1. TypeOK'
  BY <1>a, <1>d, <1>e, <1>f DEF TypeOK, ThreadStates
<1>2. SoundMap'
  BY <1>a DEF SoundMap
<1>3. SoundLock'
  <2>1. \A u \in Threads : thread[u].pc # "forcing"
    BY <1>a DEF SoundLock
  <2>2. \A u \in Threads : lock' = u <=> thread'[u].pc = "forcing"
    BY <1>d, <1>e, <2>1
  <2>3. lock' # "collector"
    BY <1>d
  <2> QED
    BY <1>a, <1>g, <2>2, <2>3 DEF SoundLock
<1>4. StopsAreTold'
  <2> SUFFICES ASSUME NEW r \in Servs, life[r] = "live", r # s
               PROVE  \/ isLoop'[r] /\ \E u \in Threads : thread'[u].serv = r
                      \/ address'[r] \in Range(trash')
                      \/ \E u \in Threads : /\ thread'[u].serv = r
                                            /\ thread'[u].pc \in {"stop", "forcing"}
    BY <1>a, <1>e DEF StopsAreTold
  <2>1. \A u \in Threads : thread[u].serv = r => thread'[u] = thread[u]
    BY <1>e DEF s
  <2> QED
    BY <1>a, <1>f, <2>1, StopsStayTold DEF StopsAreTold
<1>5. CollectsKnown'
  BY <1>a, <1>g DEF CollectsKnown
<1>6. ListsAreOwn' /\ HeldIsNew' /\ NoneIsLost'
  BY <1>a, ListsStay
<1> QED
  BY <1>1, <1>2, <1>3, <1>4, <1>5, <1>6

\* ~ServerThread deletes every connection it had listed, and no other
\* ServerThread is touched.
LEMMA DeleteLosesNone ==
  ASSUME TypeOK, SoundMap, ListsAreOwn, HeldIsNew, NoneIsLost, NEW s \in Servs,
         life[s] = "live", Delete(s), UNCHANGED <<listener, accepted>>
  PROVE  /\ SoundMap' /\ ListsAreOwn' /\ HeldIsNew' /\ NoneIsLost'
         /\ \A r \in Servs : life'[r] = "live" => r # s /\ life[r] = "live"
<1>a. /\ address[s] \in DOMAIN map /\ map[address[s]] = s
      /\ DOMAIN map' = DOMAIN map \ {address[s]}
      /\ \A a \in DOMAIN map' : map'[a] = map[a] /\ map[a] \in Servs \ {s}
      /\ life' = [life EXCEPT ![s] = "freed"]
      /\ conns' = [conns EXCEPT ![s] = {}]
      /\ incoming' = [incoming EXCEPT ![s] = <<>>]
      /\ closing' = [closing EXCEPT ![s] = {}]
      /\ UNCHANGED <<address, isLoop, released>>
  BY DeleteForgets
<1>b. /\ life'[s] = "freed" /\ conns'[s] = {} /\ incoming'[s] = <<>>
      /\ closing'[s] = {}
      /\ \A r \in Servs : r # s =>
           /\ conns'[r] = conns[r] /\ incoming'[r] = incoming[r]
           /\ closing'[r] = closing[r] /\ life'[r] = life[r]
  BY <1>a DEF TypeOK
<1>c. Range(<<>>) = {} /\ DOMAIN <<>> = {}
  BY DEF Range
<1>d. \A c \in Conns :
        /\ c \notin Listed(s) => freed'[c] = freed[c]
        /\ c \in Listed(s) => freed'[c] > 0
  <2>1. \A set, c : /\ Times(set, c) \in Nat
                    /\ c \in set => Times(set, c) = 1
                    /\ c \notin set => Times(set, c) = 0
    BY DEF Times
  <2>2. \A c \in Conns :
          freed'[c] = freed[c] + Times(conns[s], c)
                        + Times(Range(incoming[s]), c) + Times(closing[s], c)
    BY DEF Delete
  <2>3. closing[s] \subseteq Listed(s)
    BY DEF ListsAreOwn, Listed
  <2>4. \A c \in Conns : freed[c] \in Nat
    BY DEF TypeOK
  <2>5. \A c \in Conns : c \in Listed(s) =>
          Times(conns[s], c) = 1 \/ Times(Range(incoming[s]), c) = 1
    BY <2>1 DEF Listed
  <2>6. \A c \in Conns : c \notin Listed(s) =>
          /\ Times(conns[s], c) = 0 /\ Times(Range(incoming[s]), c) = 0
          /\ Times(closing[s], c) = 0
    BY <2>1, <2>3 DEF Listed
  <2> QED
    BY <2>1, <2>2, <2>4, <2>5, <2>6
<1>e. \A r \in Servs : Listed(r) \cap Listed(s) # {} => r = s
  BY ListsDiffer
<1>f. \A r \in Servs : \A c \in Listed(r)' : c \in Listed(r) /\ c \notin Listed(s)
  <2>1. Listed(s)' = {} /\ \A r \in Servs : r # s => Listed(r)' = Listed(r)
    BY <1>b, <1>c DEF Listed
  <2> QED
    BY <1>e, <2>1
<1>1. SoundMap'
  <2>1. \A a \in DOMAIN map' : life'[map'[a]] = "live" /\ address'[map'[a]] = a
    BY <1>a, <1>b DEF SoundMap
  <2>2. \A r \in Servs : life'[r] = "live" =>
          address'[r] \in DOMAIN map' /\ map'[address'[r]] = r
    <3> SUFFICES ASSUME NEW r \in Servs, life'[r] = "live"
                 PROVE  address'[r] \in DOMAIN map' /\ map'[address'[r]] = r
      OBVIOUS
    <3>1. r # s /\ life[r] = "live"
      BY <1>b
    <3>2. address[r] \in DOMAIN map /\ map[address[r]] = r
      BY <3>1 DEF SoundMap
    <3> QED
      BY <1>a, <3>1, <3>2
  <2>3. listener'.pc = "create" => AddrOf[listener'.conn] \notin DOMAIN map'
    BY <1>a DEF SoundMap
  <2> QED
    BY <2>1, <2>2, <2>3 DEF SoundMap
<1>2. ListsAreOwn'
  <2>1. \A r \in Servs : \A c \in Listed(r)' :
          c \in accepted' /\ freed'[c] = 0 /\ AddrOf[c] = address'[r]
    <3>1. \A r \in Servs : \A c \in Listed(r) :
            c \in Conns /\ c \in accepted /\ freed[c] = 0 /\ AddrOf[c] = address[r]
      BY DEF TypeOK, ListsAreOwn
    <3> QED
      BY <1>a, <1>d, <1>f, <3>1
  <2>2. \A r \in Servs : life'[r] # "live" => conns'[r] = {} /\ incoming'[r] = <<>>
    BY <1>b DEF ListsAreOwn
  <2>3. \A r \in Servs : \A i, j \in DOMAIN incoming'[r] :
          incoming'[r][i] = incoming'[r][j] => i = j
    BY <1>b, <1>c DEF ListsAreOwn
  <2>4. \A r \in Servs : /\ closing'[r] \subseteq conns'[r]
                         /\ conns'[r] \cap Range(incoming'[r]) = {}
    BY <1>b, <1>c DEF ListsAreOwn
  <2> QED
    BY <2>1, <2>2, <2>3, <2>4 DEF ListsAreOwn
<1>3. HeldIsNew'
  <2>1. \A c \in Listed(s) : c \in accepted /\ c # listener.conn
    BY ServerThreadsAssumption
    DEF ListsAreOwn, HeldIsNew, TypeOK, NoConn
  <2>2. listener.conn # NoConn => listener.conn \in Conns
    BY DEF TypeOK
  <2> QED
    BY <1>d, <1>f, <2>1, <2>2 DEF HeldIsNew
<1>4. NoneIsLost'
  <2>1. \A r \in Servs : r # s => Listed(r)' = Listed(r)
    BY <1>b DEF Listed
  <2>2. accepted \subseteq Conns
    BY DEF TypeOK
  <2>3. ASSUME NEW c \in accepted
        PROVE  \/ freed'[c] > 0
               \/ listener.conn = c
               \/ \E r \in Servs : life'[r] = "live" /\ c \in Listed(r)'
    <3>1. /\ c \notin Listed(s) => freed'[c] = freed[c]
          /\ c \in Listed(s) => freed'[c] > 0
      BY <1>d, <2>2, <2>3
    <3>2. CASE freed[c] > 0 \/ listener.conn = c
      BY <3>1, <3>2
    <3>3. CASE \E r \in Servs : life[r] = "live" /\ c \in Listed(r)
      <4>1. PICK r \in Servs : life[r] = "live" /\ c \in Listed(r)
        BY <3>3
      <4>2. r # s => life'[r] = "live" /\ c \in Listed(r)'
        BY <1>b, <2>1, <4>1
      <4> QED
        BY <3>1, <4>1, <4>2
    <3> QED
      BY <3>2, <3>3 DEF NoneIsLost
  <2> QED
    BY <2>3 DEF NoneIsLost
<1> QED
  BY <1>1, <1>2, <1>3, <1>4, <1>b

LEMMA ForceStoppedKeepsAny ==
  ASSUME AnyServer, NEW t \in Threads, ForceStopped(t)
  PROVE  AnyServer'
<1> USE ServerThreadsAssumption DEF AnyServer
<1> DEFINE s == thread[t].serv
<1>a. /\ UNCHANGED <<listener, accepted, collector, trash>>
      /\ thread[t].pc = "forcing" /\ At(t, "forcing") /\ End(t)
      /\ Delete(s) /\ lock' = "free"
  BY DEF ForceStopped, At
<1>b. /\ s \in Servs /\ life[s] = "live" /\ thread[t] # Ended
      /\ thread' \in [Threads -> ThreadStates]
      /\ thread'[t] = Ended
      /\ \A u \in Threads \ {t} : thread'[u] = thread[u]
  BY <1>a, ThreadEnds DEF Pcs
<1>e. lock = t /\ collector = "idle"
  <2>1. lock = t
    BY <1>a DEF SoundLock
  <2> QED
    BY <2>1 DEF SoundLock, TypeOK
<1>f. UNCHANGED <<address, isLoop>>
  BY <1>a DEF Delete
<1>1. TypeOK'
  BY <1>a, <1>b, DeleteTypes DEF TypeOK, ThreadStates
<1>2. /\ SoundMap' /\ ListsAreOwn' /\ HeldIsNew' /\ NoneIsLost'
      /\ \A r \in Servs : life'[r] = "live" => r # s /\ life[r] = "live"
  BY <1>a, <1>b, DeleteLosesNone
<1> HIDE DEF s
<1>3. SoundLock'
  <2>1. \A u \in Threads : u # t => thread[u].pc # "forcing"
    BY <1>e DEF SoundLock
  <2>2. \A u \in Threads : thread'[u].pc # "forcing"
    BY <1>b, <2>1 DEF Ended
  <2> QED
    BY <1>a, <1>e, <2>2 DEF SoundLock
<1>4. StopsAreTold'
  <2> SUFFICES ASSUME NEW r \in Servs, life'[r] = "live"
               PROVE  \/ isLoop'[r] /\ \E u \in Threads : thread'[u].serv = r
                      \/ address'[r] \in Range(trash')
                      \/ \E u \in Threads : /\ thread'[u].serv = r
                                            /\ thread'[u].pc \in {"stop", "forcing"}
    BY DEF StopsAreTold
  <2>1. r # s /\ life[r] = "live"
    BY <1>2
  <2>2. \A u \in Threads : thread[u].serv = r => thread'[u] = thread[u]
    BY <1>b, <2>1 DEF s
  <2> QED
    BY <1>a, <1>f, <2>1, <2>2, StopsStayTold DEF StopsAreTold
<1>5. CollectsKnown'
  BY <1>a, <1>e DEF CollectsKnown
<1> QED
  BY <1>1, <1>2, <1>3, <1>4, <1>5

LEMMA CollectKeepsAny ==
  ASSUME AnyServer, Collect
  PROVE  AnyServer'
<1> USE ServerThreadsAssumption DEF AnyServer, Collect
<1>1. TypeOK'
  BY DEF TypeOK, object, server, fate, NoConn
<1>2. SoundMap'
  BY DEF TypeOK, SoundMap, object, server
<1>3. SoundLock'
  BY DEF TypeOK, SoundLock, server
<1>4. StopsAreTold' /\ CollectsKnown'
  BY DEF StopsAreTold, CollectsKnown, object, server
<1>5. ListsAreOwn' /\ HeldIsNew' /\ NoneIsLost'
  BY ListsStay DEF object, fate
<1> QED
  BY <1>1, <1>2, <1>3, <1>4, <1>5

\* The address that is dropped is no live ServerThread's: a ServerThread that
\* stopped twice has been on the queue twice, and was deleted the first time.
LEMMA CollectUnknownKeepsAny ==
  ASSUME AnyServer, CollectUnknown
  PROVE  AnyServer'
<1> USE ServerThreadsAssumption DEF AnyServer
<1>a. /\ UNCHANGED <<listener, accepted, collector, map, lock, object, thread,
                     fate>>
      /\ collector = "sweeping" /\ trash # <<>>
      /\ Head(trash) \notin DOMAIN map /\ trash' = Tail(trash)
  BY DEF CollectUnknown
<1>b. /\ trash' \in Seq(Addrs)
      /\ \A x \in Range(trash) : x = Head(trash) \/ x \in Range(trash')
  <2>1. trash \in Seq(Addrs)
    BY DEF TypeOK
  <2> QED
    BY <1>a, <2>1, TailKeepsOthers
<1> USE DEF object, fate
<1>1. TypeOK'
  BY <1>a, <1>b DEF TypeOK
<1>2. SoundMap'
  BY <1>a DEF SoundMap
<1>3. SoundLock'
  BY <1>a DEF SoundLock
<1>4. StopsAreTold'
  <2>1. \A r \in Servs : life[r] = "live" => address[r] # Head(trash)
    BY <1>a DEF SoundMap
  <2> QED
    BY <1>a, <1>b, <2>1 DEF StopsAreTold
<1>5. CollectsKnown'
  BY <1>a DEF CollectsKnown
<1>6. ListsAreOwn' /\ HeldIsNew' /\ NoneIsLost'
  BY <1>a, ListsStay
<1> QED
  BY <1>1, <1>2, <1>3, <1>4, <1>5, <1>6

\* Its address stays on the queue until it is deleted.
LEMMA CollectIdleKeepsAny ==
  ASSUME AnyServer, CollectIdle
  PROVE  AnyServer'
<1> USE ServerThreadsAssumption DEF AnyServer
<1> DEFINE s == map[Head(trash)]
<1>a. /\ collector = "sweeping" /\ collector' = "deleting" /\ trash # <<>>
      /\ Head(trash) \in DOMAIN map
      /\ isLoop' = [isLoop EXCEPT ![s] = FALSE]
      /\ UNCHANGED <<listener, accepted, server, life, address, conns, incoming,
                     closing, thread, fate>>
  BY DEF CollectIdle
<1>b. address[s] \in Range(trash)
  <2>1. trash \in Seq(Addrs) /\ address[s] = Head(trash)
    BY <1>a DEF TypeOK, SoundMap
  <2> QED
    BY <1>a, <2>1, TailKeepsOthers
<1>c. /\ isLoop' \in [Servs -> BOOLEAN]
      /\ \A r \in Servs : r # s => isLoop'[r] = isLoop[r]
  BY <1>a DEF TypeOK
<1> HIDE DEF s
<1> USE DEF server, fate
<1>1. TypeOK'
  BY <1>a, <1>c DEF TypeOK
<1>2. SoundMap'
  BY <1>a DEF SoundMap
<1>3. SoundLock'
  BY <1>a DEF SoundLock
<1>4. StopsAreTold'
  BY <1>a, <1>b, <1>c DEF StopsAreTold
<1>5. CollectsKnown'
  BY <1>a DEF CollectsKnown
<1>6. ListsAreOwn' /\ HeldIsNew' /\ NoneIsLost'
  BY <1>a, ListsStay
<1> QED
  BY <1>1, <1>2, <1>3, <1>4, <1>5, <1>6

LEMMA CollectDeleteKeepsAny ==
  ASSUME AnyServer, CollectDelete
  PROVE  AnyServer'
<1> USE ServerThreadsAssumption DEF AnyServer
<1> DEFINE s == map[Head(trash)]
<1>a. /\ UNCHANGED <<listener, accepted, lock, thread>>
      /\ collector = "deleting" /\ collector' = "sweeping"
      /\ Delete(s) /\ trash' = Tail(trash)
  BY DEF CollectDelete
<1>b. trash # <<>> /\ Head(trash) \in DOMAIN map
  BY <1>a DEF CollectsKnown
<1>c. s \in Servs /\ life[s] = "live" /\ address[s] = Head(trash)
  BY <1>b DEF TypeOK, SoundMap
<1>d. /\ trash' \in Seq(Addrs)
      /\ \A x \in Range(trash) : x = Head(trash) \/ x \in Range(trash')
  <2>1. trash \in Seq(Addrs)
    BY DEF TypeOK
  <2> QED
    BY <1>a, <1>b, <2>1, TailKeepsOthers
<1>e. UNCHANGED <<address, isLoop>>
  BY <1>a DEF Delete
<1>1. TypeOK'
  BY <1>a, <1>c, <1>d, DeleteTypes DEF TypeOK
<1>2. /\ SoundMap' /\ ListsAreOwn' /\ HeldIsNew' /\ NoneIsLost'
      /\ \A r \in Servs : life'[r] = "live" => r # s /\ life[r] = "live"
  BY <1>a, <1>c, DeleteLosesNone
<1>3. SoundLock'
  BY <1>a DEF SoundLock
<1>4. StopsAreTold'
  <2> SUFFICES ASSUME NEW r \in Servs, life'[r] = "live"
               PROVE  \/ isLoop[r] /\ \E u \in Threads : thread[u].serv = r
                      \/ address[r] \in Range(trash')
                      \/ \E u \in Threads : /\ thread[u].serv = r
                                            /\ thread[u].pc \in {"stop", "forcing"}
    BY <1>a, <1>e DEF StopsAreTold
  <2>1. r # s /\ life[r] = "live"
    BY <1>2
  <2>2. address[r] # Head(trash)
    BY <2>1 DEF SoundMap
  <2> QED
    BY <1>d, <2>1, <2>2 DEF StopsAreTold
<1>5. CollectsKnown'
  BY <1>a DEF CollectsKnown
<1> QED
  BY <1>1, <1>2, <1>3, <1>4, <1>5

\* The address that leaves the queue is the one that gets a thread.
LEMMA CollectRestartKeepsAny ==
  ASSUME AnyServer, NEW t \in Threads, CollectRestart(t)
  PROVE  AnyServer'
<1> USE ServerThreadsAssumption DEF AnyServer
<1> DEFINE s == map[Head(trash)]
<1>a. /\ UNCHANGED <<listener, accepted, collector, map, lock, life, address,
                     conns, incoming, closing, fate>>
      /\ collector = "sweeping" /\ trash # <<>> /\ Head(trash) \in DOMAIN map
      /\ trash' = Tail(trash) /\ thread[t] = Ended
      /\ isLoop' = [isLoop EXCEPT ![s] = TRUE]
      /\ thread' = [thread EXCEPT ![t] = [serv |-> s, pc |-> "test"]]
  BY DEF CollectRestart
<1>b. /\ trash' \in Seq(Addrs)
      /\ \A x \in Range(trash) : x = Head(trash) \/ x \in Range(trash')
  <2>1. trash \in Seq(Addrs)
    BY DEF TypeOK
  <2> QED
    BY <1>a, <2>1, TailKeepsOthers
<1>c. s \in Servs
  BY <1>a DEF TypeOK
<1>d. \A r \in Servs : life[r] = "live" /\ r # s => address[r] # Head(trash)
  BY DEF SoundMap
<1>e. /\ thread' \in [Threads -> ThreadStates]
      /\ thread'[t] = [serv |-> s, pc |-> "test"]
      /\ \A u \in Threads \ {t} : thread'[u] = thread[u]
  BY <1>a, <1>c, ThreadStarts
<1>f. /\ isLoop' \in [Servs -> BOOLEAN] /\ isLoop'[s] = TRUE
      /\ \A r \in Servs : r # s => isLoop'[r] = isLoop[r]
  BY <1>a, <1>c DEF TypeOK
<1> HIDE DEF s
<1> USE DEF fate
<1>1. TypeOK'
  BY <1>a, <1>b, <1>e, <1>f DEF TypeOK, ThreadStates
<1>2. SoundMap'
  BY <1>a DEF SoundMap
<1>3. SoundLock'
  <2>1. thread[t].pc # "forcing" /\ thread'[t].pc # "forcing"
    BY <1>a, <1>e DEF Ended
  <2> QED
    BY <1>a, <1>e, <2>1, LockStays
<1>4. StopsAreTold'
  <2> SUFFICES ASSUME NEW r \in Servs, life[r] = "live", r # s
               PROVE  \/ isLoop'[r] /\ \E u \in Threads : thread'[u].serv = r
                      \/ address'[r] \in Range(trash')
                      \/ \E u \in Threads : /\ thread'[u].serv = r
                                            /\ thread'[u].pc \in {"stop", "forcing"}
    BY <1>a, <1>e, <1>f DEF StopsAreTold
  <2>1. \A u \in Threads : thread[u].serv = r => thread'[u] = thread[u]
    BY <1>a, <1>e DEF Ended
  <2>2. address[r] \in Range(trash) => address[r] \in Range(trash')
    BY <1>b, <1>d
  <2>3. isLoop[r] => isLoop'[r]
    BY <1>f
  <2> QED
    BY <1>a, <2>1, <2>2, <2>3, StopsStayTold DEF StopsAreTold
<1>5. CollectsKnown'
  BY <1>a DEF CollectsKnown
<1>6. ListsAreOwn' /\ HeldIsNew' /\ NoneIsLost'
  BY <1>a, ListsStay
<1> QED
  BY <1>1, <1>2, <1>3, <1>4, <1>5, <1>6

LEMMA CollectEndKeepsAny ==
  ASSUME AnyServer, CollectEnd
  PROVE  AnyServer'
<1> USE ServerThreadsAssumption DEF AnyServer, CollectEnd
<1>1. TypeOK'
  BY DEF TypeOK, object, server, fate, NoConn
<1>2. SoundMap'
  BY DEF TypeOK, SoundMap, object, server
<1>3. SoundLock'
  BY DEF TypeOK, SoundLock, server
<1>4. StopsAreTold' /\ CollectsKnown'
  BY DEF StopsAreTold, CollectsKnown, object, server
<1>5. ListsAreOwn' /\ HeldIsNew' /\ NoneIsLost'
  BY ListsStay DEF object, fate
<1> QED
  BY <1>1, <1>2, <1>3, <1>4, <1>5

LEMMA InitIsAny == Init => AnyServer
<1> SUFFICES ASSUME Init PROVE AnyServer
  OBVIOUS
<1> USE ServerThreadsAssumption DEF Init
<1>1. TypeOK
  BY DEF TypeOK, NoConn, Ended
<1>2. SoundMap /\ SoundLock
  BY DEF SoundMap, SoundLock, Ended
<1>3. StopsAreTold /\ CollectsKnown
  BY DEF StopsAreTold, CollectsKnown
<1>4. ListsAreOwn /\ HeldIsNew /\ NoneIsLost
  BY DEF ListsAreOwn, HeldIsNew, NoneIsLost, Listed, Range, NoConn
<1> QED
  BY <1>1, <1>2, <1>3, <1>4 DEF AnyServer

\* Every step of every schedule keeps the invariant.
LEMMA StepsKeepAny ==
  ASSUME PortsAreFree, AnyServer, [Next]_vars
  PROVE  AnyServer'
<1>1. CASE Listening
  BY <1>1, AcceptKeepsAny, RefuseHandshakeKeepsAny, HandOverKeepsAny,
     NotFoundKeepsAny, CreateServerKeepsAny DEF Listening
<1>2. CASE \E t \in Threads : Working(t)
  BY <1>2, TestKeepsAny, TurnKeepsAny, SweepKeepsAny, DrainKeepsAny,
     StopServerKeepsAny, ForceStopKeepsAny, ForceStoppedKeepsAny DEF Working
<1>3. CASE Throwing
  BY <1>3, TurnKeepsAny DEF Throwing
<1>4. CASE Collecting
  BY <1>4, CollectKeepsAny, CollectUnknownKeepsAny, CollectIdleKeepsAny,
     CollectDeleteKeepsAny, CollectRestartKeepsAny, CollectEndKeepsAny
  DEF Collecting
<1>5. CASE UNCHANGED vars
  <2>1. TypeOK' /\ SoundMap' /\ SoundLock' /\ StopsAreTold' /\ CollectsKnown'
    BY <1>5 DEF AnyServer, TypeOK, SoundMap, SoundLock, StopsAreTold,
       CollectsKnown, vars, server, object, fate
  <2>2. ListsAreOwn' /\ HeldIsNew' /\ NoneIsLost'
    BY <1>5, ListsStay DEF AnyServer, vars, server, object, fate
  <2> QED
    BY <2>1, <2>2 DEF AnyServer
<1> QED
  BY <1>1, <1>2, <1>3, <1>4, <1>5 DEF Next

\* Whatever the threads do and when they are scheduled, every ServerThread that
\* stopped is on the queue or about to be, and every connection is listed.
THEOREM AnyScheduleIsSound == Spec /\ []PortsAreFree => []AnyServer
<1>1. Init => AnyServer
  BY InitIsAny
<1>2. AnyServer /\ PortsAreFree /\ [Next]_vars => AnyServer'
  BY StepsKeepAny
<1> QED
  BY <1>1, <1>2, PTL DEF Spec

\* A connection that was handed over just as its thread stopped is not
\* forgotten, in whatever order the listening thread, the thread and the
\* collector run (Add, Drain, StopServer, CollectRestart).
THEOREM NoConnectionIsForgotten ==
  Spec /\ []PortsAreFree => []EveryConnectionIsTended
<1>1. AnyServer => EveryConnectionIsTended
  <2> SUFFICES ASSUME AnyServer, NEW c \in accepted, ~(freed[c] > 0),
                      listener.conn # c
               PROVE  \E a \in DOMAIN map :
                        /\ c \in conns[map[a]] \cup Range(incoming[map[a]])
                        /\ Tended(map[a])
    BY DEF EveryConnectionIsTended
  <2>1. PICK s \in Servs : life[s] = "live" /\ c \in Listed(s)
    BY DEF AnyServer, NoneIsLost
  <2>2. address[s] \in DOMAIN map /\ map[address[s]] = s
    BY <2>1 DEF AnyServer, SoundMap
  <2>3. Tended(s)
    BY <2>1 DEF AnyServer, StopsAreTold, Tended
  <2> QED
    BY <2>1, <2>2, <2>3 DEF Listed
<1> QED
  BY <1>1, AnyScheduleIsSound, PTL
=============================================================================
