------------------------------ MODULE Discovery ------------------------------
(***************************************************************************)
(* How hosts find each other: each has a UDP socket and one thread, which  *)
(* answers what comes, one datagram at a time, until the user gives it the *)
(* command "scan".  Then it broadcasts its name and port some times, and   *)
(* lists who sends his.                                                    *)
(*                                                                         *)
(* An answer looks like a scan's question.  So a host that no longer scans *)
(* answers the answers it did not wait for, and the other one answers      *)
(* these: a datagram goes to and fro until it is lost.  That it does not   *)
(* become two hangs on the one destination address of the socket, which    *)
(* is the broadcast address but while an answer is sent.                   *)
(*                                                                         *)
(* Datagrams are lost and overtake each other.  "ask" tells from which     *)
(* question a datagram descends.                                           *)
(***************************************************************************)
EXTENDS Naturals, FiniteSets

CONSTANTS
  Hosts,      \* the addresses of the network
  Infos,      \* names and ports that hosts are started with
  Sends,      \* questions of a scan (10 in the code)
  MaxScans,   \* bound: scans in all
  MaxStarts,  \* bound: starts in all
  MaxInFlight \* bound: datagrams in flight; more are lost

ASSUME DiscoveryAssumption ==
  /\ Sends \in Nat \ {0} /\ MaxScans \in Nat
  /\ MaxStarts \in Nat /\ MaxInFlight \in Nat

Broadcast == "192.168.1.255"
NoInfo    == "none"
ASSUME AddressAssumption == Broadcast \notin Hosts /\ NoInfo \notin Infos

VARIABLES
  pc,       \* where each host's thread is: "off"; "loop" of Launch; "send"
            \* or "drain" of Loop
  info,     \* the message of its socket
  dest,     \* m_destAddr
  isLoop,   \* m_isLoop
  sent,     \* the scan's i
  list,     \* m_sharedServ
  net,      \* the datagrams in flight
  asked,    \* the questions so far
  scans, starts,   \* counts, for the bounds
  recent    \* who could be heard since the scan began, and how

vars ==
  <<pc, info, dest, isLoop, sent, list, net, asked, scans, starts, recent>>

Asks      == Hosts \X (1 .. MaxScans * Sends) \X Hosts
Datagrams == [from : Hosts, to : Hosts, info : Infos, ask : Asks]

Nobody == [h \in Hosts |-> NoInfo]

Init ==
  /\ pc = [h \in Hosts |-> "off"]
  /\ info = Nobody
  /\ dest = [h \in Hosts |-> Broadcast]
  /\ isLoop = [h \in Hosts |-> TRUE]
  /\ sent = [h \in Hosts |-> 0]
  /\ list = [h \in Hosts |-> Nobody]
  /\ net = {}
  /\ asked = 0 /\ scans = 0 /\ starts = 0
  /\ recent = [h \in Hosts |-> {}]

\* What is in flight with what is sent.
With(new) == LET all == net \cup new
             IN  IF Cardinality(all) <= MaxInFlight THEN all ELSE net

Up == {h \in Hosts : pc[h] # "off"}

Noted(h) ==
  [g \in Hosts |-> IF g \in Up \cup {h} THEN recent[g] \cup {<<h, info'[h]>>}
                                        ELSE {}]

-----------------------------------------------------------------------------
(* The network and the hosts' lives *)

Lose ==
  /\ \E m \in net : net' = net \ {m}
  /\ UNCHANGED <<pc, info, dest, isLoop, sent, list, asked, scans, starts,
                 recent>>

Launch(h) ==
  /\ pc[h] = "off" /\ starts < MaxStarts
  /\ pc' = [pc EXCEPT ![h] = "loop"]
  /\ \E i \in Infos : info' = [info EXCEPT ![h] = i]
  /\ starts' = starts + 1
  /\ recent' = Noted(h)
  /\ UNCHANGED <<dest, isLoop, sent, list, net, asked, scans>>

\* The process ends, and with it the socket and what was on the way to it.
Stop(h) ==
  /\ pc[h] # "off"
  /\ pc' = [pc EXCEPT ![h] = "off"]
  /\ info' = [info EXCEPT ![h] = NoInfo]
  /\ dest' = [dest EXCEPT ![h] = Broadcast]
  /\ isLoop' = [isLoop EXCEPT ![h] = TRUE]
  /\ sent' = [sent EXCEPT ![h] = 0]
  /\ list' = [list EXCEPT ![h] = Nobody]
  /\ net' = {m \in net : m.to # h}
  /\ recent' = [recent EXCEPT ![h] = {}]
  /\ UNCHANGED <<asked, scans, starts>>

-----------------------------------------------------------------------------
(* Sending from the socket's destination *)

\* One datagram to each that is there, from the destination address.
Sendto(h, to, ask) ==
  {[from |-> h, to |-> g, info |-> info[h], ask |-> ask[g]] :
     g \in Up \cap (IF to = Broadcast THEN Hosts ELSE {to})}

\* Faulty: the destination is not changed to the source.
AnsweredAll(h, m) ==
  /\ net' = (net \ {m}) \cup Sendto(h, dest[h], [g \in Hosts |-> m.ask])
  /\ UNCHANGED dest

\* The answer goes to the source, or nowhere when the socket cannot send; then
\* the destination is as before.
Answered(h, m) ==
  /\ net' \in {(net \ {m})
                 \cup Sendto(h, m.from, [g \in Hosts |-> m.ask]),
               net \ {m}}
  /\ UNCHANGED dest

\* Recv, in the loop of Launch.
Answer(h) ==
  /\ pc[h] = "loop"
  /\ \E m \in net : m.to = h /\ Answered(h, m)
  /\ UNCHANGED <<pc, info, isLoop, sent, list, asked, scans, starts, recent>>

-----------------------------------------------------------------------------
(* The command scan *)

\* Faulty: the list of the last scan stays.
Kept(h) == list

Cleared(h) == [list EXCEPT ![h] = Nobody]

Scan(h) ==
  /\ pc[h] = "loop" /\ scans < MaxScans
  /\ pc' = [pc EXCEPT ![h] = "send"]
  /\ sent' = [sent EXCEPT ![h] = 0]
  /\ list' = Cleared(h)
  /\ scans' = scans + 1
  /\ isLoop' = [isLoop EXCEPT ![h] = TRUE]
  /\ recent' = [recent EXCEPT ![h] =
                  {<<g, info[g]>> : g \in Up}
                    \cup {<<m.from, m.info>> : m \in {n \in net : n.to = h}}]
  /\ UNCHANGED <<info, dest, net, asked, starts>>

\* Faulty: the function counts a copy of i, which is 1 each time.
StopsAtCopy(i) == Sends = 1

Stops(i) == i = Sends

Ask(h) ==
  /\ pc[h] = "send" /\ asked < MaxScans * Sends
  /\ pc' = [pc EXCEPT ![h] = "drain"]
  /\ sent' = [sent EXCEPT ![h] = @ + 1]
  /\ isLoop' = [isLoop EXCEPT ![h] = @ /\ ~Stops(sent'[h])]
  /\ asked' = asked + 1
  /\ net' = With(Sendto(h, dest[h], [g \in Hosts |-> <<h, asked', g>>]))
  /\ UNCHANGED <<info, dest, list, scans, starts, recent>>

\* The socket cannot send; only what is sent is counted.
AskLater(h) ==
  /\ pc[h] = "send"
  /\ pc' = [pc EXCEPT ![h] = "drain"]
  /\ UNCHANGED <<info, dest, isLoop, sent, list, net, asked, scans, starts,
                 recent>>

\* The first to come from an address is listed.
Hear(h) ==
  /\ pc[h] = "drain"
  /\ \E m \in net :
       /\ m.to = h
       /\ net' = net \ {m}
       /\ list' = IF list[h][m.from] = NoInfo
                    THEN [list EXCEPT ![h][m.from] = m.info] ELSE list
  /\ UNCHANGED <<pc, info, dest, isLoop, sent, asked, scans, starts, recent>>

\* Nothing has arrived.
Drained(h) ==
  /\ pc[h] = "drain"
  /\ pc' = [pc EXCEPT ![h] = IF isLoop[h] THEN "send" ELSE "loop"]
  /\ UNCHANGED <<info, dest, isLoop, sent, list, net, asked, scans, starts,
                 recent>>

-----------------------------------------------------------------------------
Next ==
  \/ Lose
  \/ \E h \in Hosts :
       \/ Launch(h) \/ Stop(h) \/ Answer(h)
       \/ Scan(h) \/ Ask(h) \/ AskLater(h) \/ Hear(h) \/ Drained(h)

\* The thread goes on; a socket can send again, and its queue is empty at
\* times, since nobody sends more than one datagram in 32 ms.
Fairness == \A h \in Hosts : SF_vars(Ask(h)) /\ WF_vars(Drained(h))

Spec == Init /\ [][Next]_vars /\ Fairness

-----------------------------------------------------------------------------
(* Properties *)

\* Types; and between two steps of a thread its socket's destination is the
\* broadcast address, so every question goes to everyone.
TypeOK ==
  /\ pc \in [Hosts -> {"off", "loop", "send", "drain"}]
  /\ info \in [Hosts -> Infos \cup {NoInfo}]
  /\ dest = [h \in Hosts |-> Broadcast]
  /\ isLoop \in [Hosts -> BOOLEAN] /\ sent \in [Hosts -> 0 .. Sends]
  /\ list \in [Hosts -> [Hosts -> Infos \cup {NoInfo}]]
  /\ net \subseteq Datagrams
  /\ scans \in 0 .. MaxScans /\ starts \in 0 .. MaxStarts
  /\ asked \in 0 .. MaxScans * Sends
  /\ recent \in [Hosts -> SUBSET (Hosts \X Infos)]

\* What is answered and answered again does not become more: of a question
\* that was sent to a host at most one datagram is in flight, and it is between
\* the two.
AnswersDoNotMultiply ==
  /\ \A m \in net : {m.from, m.to} = {m.ask[1], m.ask[3]}
  /\ \A m, n \in net : m.ask = n.ask => m = n

\* Who is listed was there after the scan began, or had written before, and
\* has the name and port he had then.
ListedAreRecent ==
  \A h, g \in Hosts : list[h][g] # NoInfo => <<g, list[h][g]>> \in recent[h]

\* A scan comes to its end, however many datagrams are lost, or late.
ScanEnds == \A h \in Hosts : pc[h] = "send" ~> pc[h] \in {"loop", "off"}
=============================================================================
