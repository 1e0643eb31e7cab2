---------------------------- MODULE DiscoveryProofs ----------------------------
(***************************************************************************)
(* Proofs of Discovery's safety properties, for any hosts, any number of   *)
(* questions and any bounds.                                               *)
(***************************************************************************)
EXTENDS Discovery, TLAPS

USE DiscoveryAssumption, AddressAssumption

-----------------------------------------------------------------------------
(* The inductive invariant *)

\* A scan waits for its last question, and a host that is off has listed none.
Scanning ==
  /\ \A h \in Hosts : pc[h] = "off" => list[h] = Nobody
  /\ \A h \in Hosts : pc[h] = "send" => isLoop[h]
  /\ \A h \in Hosts : pc[h] # "off" => info[h] \in Infos
  /\ \A h \in Hosts :
       pc[h] \in {"send", "drain"} /\ isLoop[h] => sent[h] < Sends

\* The questions are numbered.
Numbered == \A m \in net : m.ask[2] <= asked

\* Whoever a scan can still hear is recent.
Audible ==
  \A h \in Hosts : pc[h] \in {"send", "drain"} =>
    /\ \A g \in Up : <<g, info[g]>> \in recent[h]
    /\ \A m \in net : m.to = h => <<m.from, m.info>> \in recent[h]

Inductive ==
  TypeOK /\ Scanning /\ Numbered /\ AnswersDoNotMultiply
    /\ Audible /\ ListedAreRecent

LEMMA InitHolds == Init => Inductive
BY DEF Init, Inductive, TypeOK, Scanning, Numbered, AnswersDoNotMultiply,
       Audible, ListedAreRecent, Nobody, Up

-----------------------------------------------------------------------------
(* Steps that only take datagrams away *)

LEMMA FewerDatagrams ==
  ASSUME Inductive, net' \subseteq net, UNCHANGED <<asked, pc, info, recent>>
  PROVE  /\ net' \subseteq Datagrams
         /\ Numbered' /\ AnswersDoNotMultiply' /\ Audible'
BY DEF Inductive, TypeOK, Numbered, AnswersDoNotMultiply, Audible, Up

LEMMA LoseKeeps == Inductive /\ Lose => Inductive'
<1> SUFFICES ASSUME Inductive, Lose PROVE Inductive'
  OBVIOUS
<1>1. Numbered' /\ AnswersDoNotMultiply' /\ Audible' /\ net' \subseteq Datagrams
  BY FewerDatagrams DEF Lose
<1> QED
  BY <1>1 DEF Lose, Inductive, TypeOK, Scanning, ListedAreRecent

LEMMA HearKeeps ==
  ASSUME Inductive, NEW h \in Hosts, Hear(h)
  PROVE  Inductive'
<1>1. PICK m \in net : /\ m.to = h
                       /\ net' = net \ {m}
                       /\ list' = IF list[h][m.from] = NoInfo
                                    THEN [list EXCEPT ![h][m.from] = m.info]
                                    ELSE list
  BY DEF Hear
<1>2. Numbered' /\ AnswersDoNotMultiply' /\ Audible' /\ net' \subseteq Datagrams
  BY <1>1, FewerDatagrams DEF Hear
<1>3. m.from \in Hosts /\ m.info \in Infos /\ <<m.from, m.info>> \in recent[h]
  BY <1>1 DEF Hear, Inductive, TypeOK, Datagrams, Audible
<1>4. list' \in [Hosts -> [Hosts -> Infos \cup {NoInfo}]] /\ ListedAreRecent'
  BY <1>1, <1>3 DEF Hear, Inductive, TypeOK, ListedAreRecent
<1>5. TypeOK' /\ Scanning'
  BY <1>2, <1>4 DEF Hear, Inductive, TypeOK, Scanning
<1> QED
  BY <1>2, <1>4, <1>5 DEF Inductive

LEMMA StopKeeps ==
  ASSUME Inductive, NEW h \in Hosts, Stop(h)
  PROVE  Inductive'
<1>1. TypeOK'
  BY DEF Stop, Inductive, TypeOK, Nobody
<1>2. Scanning' /\ Numbered' /\ AnswersDoNotMultiply'
  BY DEF Stop, Inductive, TypeOK, Scanning, Numbered, AnswersDoNotMultiply
<1>3. Audible'
  BY DEF Stop, Inductive, TypeOK, Audible, Up
<1>4. ListedAreRecent'
  BY DEF Stop, Inductive, TypeOK, ListedAreRecent, Nobody
<1> QED
  BY <1>1, <1>2, <1>3, <1>4 DEF Inductive

-----------------------------------------------------------------------------
(* Steps that change who can be heard *)

LEMMA LaunchKeeps ==
  ASSUME Inductive, NEW h \in Hosts, Launch(h)
  PROVE  Inductive'
<1>1. PICK i \in Infos : info' = [info EXCEPT ![h] = i]
  BY DEF Launch
<1>2. pc' = [pc EXCEPT ![h] = "loop"] /\ pc[h] = "off" /\ recent' = Noted(h)
  BY DEF Launch
<1>3. TypeOK'
  BY <1>1, <1>2 DEF Launch, Inductive, TypeOK, Noted
<1>4. Scanning' /\ Numbered' /\ AnswersDoNotMultiply'
  BY <1>1, <1>2
  DEF Launch, Inductive, TypeOK, Scanning, Numbered, AnswersDoNotMultiply
<1>5. \A g \in Hosts : g \in Up \cup {h} => recent[g] \subseteq recent'[g]
  BY <1>2 DEF Noted
<1>6. Audible'
  BY <1>1, <1>2, <1>5 DEF Launch, Inductive, TypeOK, Audible, Up, Noted
<1>7. ListedAreRecent'
  BY <1>2, <1>5
  DEF Launch, Inductive, TypeOK, Scanning, ListedAreRecent, Up, Nobody
<1> QED
  BY <1>3, <1>4, <1>6, <1>7 DEF Inductive

LEMMA ScanKeeps ==
  ASSUME Inductive, NEW h \in Hosts, Scan(h)
  PROVE  Inductive'
<1>1. TypeOK'
  BY DEF Scan, Cleared, Inductive, TypeOK, Scanning, Nobody, Up, Datagrams
<1>2. Numbered' /\ AnswersDoNotMultiply' /\ Scanning'
  <2>1. Numbered' /\ AnswersDoNotMultiply'
    BY DEF Scan, Inductive, Numbered, AnswersDoNotMultiply
  <2>2. 0 < Sends
    OBVIOUS
  <2> QED
    BY <2>1, <2>2 DEF Scan, Cleared, Inductive, TypeOK, Scanning, Nobody
<1>3. Audible'
  BY DEF Scan, Inductive, TypeOK, Audible, Up
<1>4. ListedAreRecent'
  BY DEF Scan, Cleared, Inductive, TypeOK, ListedAreRecent, Nobody
<1> QED
  BY <1>1, <1>2, <1>3, <1>4 DEF Inductive

-----------------------------------------------------------------------------
(* Steps that send *)

\* A datagram's answer takes its place.
LEMMA AnswerKeeps ==
  ASSUME Inductive, NEW h \in Hosts, Answer(h)
  PROVE  Inductive'
<1> DEFINE New(m) == [from |-> h, to |-> m.from, info |-> info[h],
                      ask |-> m.ask]
<1>1. PICK m \in net : m.to = h /\ Answered(h, m)
  BY DEF Answer
<1>2. m \in Datagrams /\ h \in Up /\ info[h] \in Infos /\ m.from \in Hosts
  BY <1>1 DEF Answer, Inductive, TypeOK, Scanning, Datagrams, Up
<1>3. Sendto(h, m.from, [g \in Hosts |-> m.ask]) \subseteq {New(m)}
  BY <1>2 DEF Sendto, Up
<1>4. net' \subseteq (net \ {m}) \cup {New(m)} /\ UNCHANGED dest
  BY <1>1, <1>3 DEF Answered
<1>5. UNCHANGED <<pc, info, isLoop, sent, list, asked, scans, starts, recent>>
  BY DEF Answer
<1>6. New(m) \in Datagrams
  BY <1>2 DEF Datagrams
<1>7. TypeOK'
  BY <1>4, <1>5, <1>6 DEF Inductive, TypeOK
<1>8. Scanning' /\ ListedAreRecent'
  BY <1>5 DEF Inductive, Scanning, ListedAreRecent
<1>9. Numbered'
  BY <1>4, <1>5 DEF Inductive, Numbered
<1>10. AnswersDoNotMultiply'
  BY <1>1, <1>4 DEF Inductive, AnswersDoNotMultiply
<1>11. Audible'
  BY <1>2, <1>4, <1>5 DEF Inductive, Audible, Up
<1> QED
  BY <1>7, <1>8, <1>9, <1>10, <1>11 DEF Inductive

\* A question's datagrams have a number of their own.
LEMMA AskKeeps ==
  ASSUME Inductive, NEW h \in Hosts, Ask(h)
  PROVE  Inductive'
<1> DEFINE New(g) == [from |-> h, to |-> g, info |-> info[h],
                      ask |-> <<h, asked', g>>]
           News   == {New(g) : g \in Up}
<1>1. /\ pc[h] = "send" /\ pc' = [pc EXCEPT ![h] = "drain"]
      /\ asked' = asked + 1 /\ asked \in Nat /\ asked < MaxScans * Sends
      /\ sent' = [sent EXCEPT ![h] = @ + 1]
      /\ isLoop' = [isLoop EXCEPT ![h] = @ /\ ~Stops(sent'[h])]
      /\ UNCHANGED <<info, dest, list, scans, starts, recent>>
  BY DEF Ask, Inductive, TypeOK
<1>2. /\ h \in Up /\ info[h] \in Infos /\ dest[h] = Broadcast
      /\ sent[h] \in Nat /\ sent[h] < Sends
  BY <1>1 DEF Inductive, TypeOK, Scanning, Up
<1>3. Sendto(h, dest[h], [g \in Hosts |-> <<h, asked', g>>]) = News
  BY <1>2 DEF Sendto, Up
<1>4. net' \subseteq net \cup News
  BY <1>3 DEF Ask, With
<1>5. News \subseteq Datagrams
  <2>1. asked' \in 1 .. MaxScans * Sends
    BY <1>1
  <2> QED
    BY <1>2, <2>1 DEF Datagrams, Asks, Up
<1>6. TypeOK'
  <2>1. asked' \in 0 .. MaxScans * Sends
    BY <1>1
  <2>2. sent' \in [Hosts -> 0 .. Sends]
    BY <1>1, <1>2 DEF Inductive, TypeOK
  <2> QED
    BY <1>1, <1>4, <1>5, <2>1, <2>2 DEF Inductive, TypeOK
<1>7. Scanning'
  <2>1. sent'[h] = sent[h] + 1 /\ isLoop'[h] = (isLoop[h] /\ sent'[h] # Sends)
    BY <1>1 DEF Inductive, TypeOK, Stops
  <2>2. isLoop'[h] => sent'[h] < Sends
    <3>1. isLoop'[h] => sent'[h] # Sends
      BY <2>1, Zenon
    <3>2. sent'[h] # Sends => sent'[h] < Sends
      BY <1>2, <2>1
    <3> QED
      BY <3>1, <3>2
  <2>3. \A g \in Hosts \ {h} :
          sent'[g] = sent[g] /\ isLoop'[g] = isLoop[g] /\ pc'[g] = pc[g]
    BY <1>1 DEF Inductive, TypeOK
  <2>4. pc'[h] = "drain"
    BY <1>1 DEF Inductive, TypeOK
  <2> QED
    BY <1>1, <1>2, <2>2, <2>3, <2>4 DEF Inductive, Scanning
<1>8. Numbered'
  BY <1>1, <1>4 DEF Inductive, TypeOK, Datagrams, Asks, Numbered
<1>9. AnswersDoNotMultiply'
  <2>1. \A m \in News : {m.from, m.to} = {m.ask[1], m.ask[3]}
    OBVIOUS
  <2>2. \A m \in net, n \in News : m.ask # n.ask
    BY <1>1 DEF Inductive, TypeOK, Datagrams, Asks, Numbered
  <2>3. \A m, n \in News : m.ask = n.ask => m = n
    OBVIOUS
  <2> HIDE DEF News
  <2> QED
    BY <1>4, <2>1, <2>2, <2>3 DEF Inductive, AnswersDoNotMultiply
<1>10. Audible' /\ ListedAreRecent'
  BY <1>1, <1>2, <1>4 DEF Inductive, TypeOK, Audible, ListedAreRecent, Up
<1> QED
  BY <1>6, <1>7, <1>8, <1>9, <1>10 DEF Inductive

-----------------------------------------------------------------------------

LEMMA TurnKeeps ==
  ASSUME Inductive, NEW h \in Hosts, AskLater(h) \/ Drained(h)
  PROVE  Inductive'
<1>1. TypeOK'
  BY DEF AskLater, Drained, Inductive, TypeOK
<1>2. Numbered' /\ AnswersDoNotMultiply' /\ ListedAreRecent'
  BY DEF AskLater, Drained, Inductive, Numbered, AnswersDoNotMultiply,
         ListedAreRecent
<1>3. Scanning'
  BY DEF AskLater, Drained, Inductive, TypeOK, Scanning
<1>4. Audible'
  BY DEF AskLater, Drained, Inductive, TypeOK, Audible, Up
<1> QED
  BY <1>1, <1>2, <1>3, <1>4 DEF Inductive

LEMMA StepKeeps == Inductive /\ [Next]_vars => Inductive'
<1>1. CASE Next
  BY <1>1, LoseKeeps, HearKeeps, StopKeeps, LaunchKeeps, ScanKeeps,
     AnswerKeeps, AskKeeps, TurnKeeps DEF Next
<1>2. CASE UNCHANGED vars
  BY <1>2 DEF vars, Inductive, TypeOK, Scanning, Numbered,
              AnswersDoNotMultiply, Audible, ListedAreRecent, Up
<1> QED
  BY <1>1, <1>2

THEOREM Invariance == Spec => []Inductive
BY InitHolds, StepKeeps, PTL DEF Spec

\* Questions go to everyone, whatever was answered before.
THEOREM TypesAreRight == Spec => []TypeOK
BY Invariance, PTL DEF Inductive

\* Answers to answers never become more, for any number of hosts and scans.
THEOREM AnswersNeverMultiply == Spec => []AnswersDoNotMultiply
BY Invariance, PTL DEF Inductive

\* A list holds who could be heard since its scan began.
THEOREM ListsAreRecent == Spec => []ListedAreRecent
BY Invariance, PTL DEF Inductive
=============================================================================
