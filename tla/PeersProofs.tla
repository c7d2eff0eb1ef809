---------------------------- MODULE PeersProofs -----------------------------
(***************************************************************************)
(* The handshakes of nodes that dial each other at once, for every number  *)
(* of nodes: as long as no node crashes no handshake fails.                *)
(*                                                                         *)
(* The invariant follows the one socket that n dials to p through its      *)
(* handshake.  Until p has answered, p has it in its backlog or serves it, *)
(* and n waits; from then on the answer is the first message on its way to *)
(* n, whatever p's replica writes behind it, until n has taken it.         *)
(***************************************************************************)
EXTENDS PeerConnections, TLAPS

\* The socket that n dials to p in its first run.
Sock(n, p) == <<n, p, 1>>
Between(n, p) == {Sock(n, p), Sock(p, n)}

Messages == {"Hello", "Ack", "HotStuff"}
Early == {"off", "connect", "hello", "ack"}
DialPcs == Early \cup {"dedup", "done"}
ListenPcs == {"off", "bind", "accept", "hello", "dedup"}

InBacklog(p, c) == \E i \in DOMAIN backlog[p] : backlog[p][i] = c

\* p has not answered the Hello of n yet.
Waiting(n, p) ==
    \/ InBacklog(p, Sock(n, p))
    \/ listener[p].pc = "hello" /\ listener[p].sock = Sock(n, p)

Served(n, p) == dial[n][p] \in {"ack", "dedup", "done"} /\ ~Waiting(n, p)

\* What a node has, while none has crashed: its process and dialing tasks,
TasksOK(n) ==
    /\ (up[n] <=> runs[n] = 1) /\ runs[n] \in {0, 1}
    /\ dial[n] \in [PeersOf(n) -> DialPcs]
    /\ runs[n] = 0 => \A p \in PeersOf(n) : dial[n][p] = "off"

\* its listener and backlog,
ListenerOK(n) ==
    /\ runs[n] = 0 => listener[n].pc = "off"
    /\ listener[n].pc \in ListenPcs
    /\ listener[n].pc \notin {"hello", "dedup"} => listener[n].sock = NoSock
    /\ listener[n].pc \in {"hello", "dedup"} =>
         \E p \in PeersOf(n) : listener[n].sock = Sock(p, n)
    /\ backlog[n] \in Seq({Sock(p, n) : p \in PeersOf(n)})
    /\ \A i, j \in DOMAIN backlog[n] : backlog[n][i] = backlog[n][j] => i = j
    /\ \A i \in DOMAIN backlog[n] : backlog[n][i] # listener[n].sock

\* and its entries and readers.
EntriesOK(n) ==
    /\ DOMAIN peer_connections[n] = PeersOf(n)
    /\ \A p \in PeersOf(n) : peer_connections[n][p] \in Between(n, p) \cup {NoSock}
    /\ \A r \in readers[n] : r.peer \in PeersOf(n) /\ r.sock \in Between(n, r.peer)

NodeOK(n) == TasksOK(n) /\ ListenerOK(n) /\ EntriesOK(n)

\* The handshake of n with p.
PhaseOK(n, p) ==
    LET c == Sock(n, p) IN
    /\ dial[n][p] \in {"off", "connect"} =>
         ~Waiting(n, p) /\ stream[c][n] = << >> /\ stream[c][p] = << >>
    /\ dial[n][p] = "hello" => Waiting(n, p) /\ stream[c][n] = << >> /\ stream[c][p] = << >>
    /\ dial[n][p] = "ack" =>
         \/ Waiting(n, p) /\ stream[c][n] = << >> /\ stream[c][p] = <<"Hello">>
         \/ ~Waiting(n, p) /\ stream[c][p] = << >> /\ stream[c][n] # << >> /\ Head(stream[c][n]) = "Ack"
    /\ dial[n][p] \in {"dedup", "done"} => ~Waiting(n, p)
    /\ dial[n][p] \in Early => c \notin reset

\* Who may use the socket: its dialer after the handshake, its acceptor once it is served.
UseOK(n, p) ==
    LET c == Sock(n, p) IN
    /\ listener[p].pc = "dedup" /\ listener[p].sock = c => Served(n, p)
    /\ peer_connections[n][p] = c => dial[n][p] = "done"
    /\ peer_connections[p][n] = c => Served(n, p)
    /\ \A r \in readers[n] : r.sock = c => dial[n][p] = "done"
    /\ \A r \in readers[p] : r.sock = c => Served(n, p)

Shapes ==
    /\ DOMAIN up = Nodes /\ DOMAIN runs = Nodes /\ DOMAIN dial = Nodes /\ DOMAIN listener = Nodes
    /\ DOMAIN backlog = Nodes /\ DOMAIN peer_connections = Nodes /\ DOMAIN readers = Nodes
    /\ DOMAIN stream = Socks /\ \A c \in Socks : stream[c] \in [Ends(c) -> Seq(Messages)]

Good ==
    /\ Shapes
    /\ \A n \in Nodes : NodeOK(n)
    /\ \A n \in Nodes : \A p \in PeersOf(n) : PhaseOK(n, p) /\ UseOK(n, p)

IInv == crashes \in Nat /\ (crashes = 0 => Good)

-----------------------------------------------------------------------------
(* Sockets                                                                 *)

\* The ends of a socket, and that it is none of the others.
LEMMA SockFacts ==
    ASSUME NEW n \in Nodes, NEW p \in PeersOf(n)
    PROVE  /\ p \in Nodes /\ p # n /\ n \in PeersOf(p)
           /\ Sock(n, p) \in Socks /\ Sock(n, p) # NoSock /\ Sock(n, p) # Sock(p, n)
           /\ Sock(n, p)[1] = n /\ Sock(n, p)[2] = p /\ Sock(n, p)[3] = 1
           /\ Ends(Sock(n, p)) = {n, p}
           /\ Peer(n, Sock(n, p)) = p /\ Peer(p, Sock(n, p)) = n
<1>1. p \in Nodes /\ p # n /\ n \in PeersOf(p)
  BY Zenon DEF PeersOf
<1>2. Sock(n, p)[1] = n /\ Sock(n, p)[2] = p /\ Sock(n, p)[3] = 1
  BY Zenon DEF Sock
<1>3. Ends(Sock(n, p)) = {n, p}
  BY <1>2, Zenon DEF Ends
<1>4. Peer(n, Sock(n, p)) = p /\ Peer(p, Sock(n, p)) = n
  BY <1>1, <1>3, Zenon DEF Peer
<1>5. Sock(n, p) \in Socks
  <2>1. <<n, p>> \in Pairs /\ 1 \in 1 .. MaxCrash + 1 /\ <<n, p>>[1] = n /\ <<n, p>>[2] = p
    BY <1>1, PeersAssumption DEF Pairs
  <2>2. \E pair \in Pairs, k \in 1 .. MaxCrash + 1 : Sock(n, p) = <<pair[1], pair[2], k>>
    BY <2>1, Zenon DEF Sock
  <2>. QED BY <2>2 DEF Socks
<1>6. Sock(n, p) # NoSock /\ Sock(n, p) # Sock(p, n)
  BY <1>1, Zenon DEF Sock, NoSock
<1>. QED BY <1>1, <1>2, <1>3, <1>4, <1>5, <1>6, Zenon

\* A socket has one dialer and one acceptor.
LEMMA SameSock ==
    ASSUME NEW n, NEW p, NEW a, NEW b, Sock(n, p) = Sock(a, b)
    PROVE  n = a /\ p = b
BY Zenon DEF Sock

\* The sockets of other handshakes.
LEMMA OtherSock ==
    ASSUME NEW n, NEW p, NEW a \in Nodes, NEW b \in PeersOf(a), ~(a = n /\ b = p)
    PROVE  Sock(a, b) # Sock(n, p) /\ Sock(a, b) \in Socks
<1>1. Sock(a, b) \in Socks
  BY SockFacts, Zenon
<1>. QED BY <1>1, SameSock, Zenon

\* The dialer has its end until the handshake is over.
LEMMA DialerHolds ==
    ASSUME NEW n \in Nodes, NEW p \in PeersOf(n), NodeOK(n), dial[n][p] \in {"hello", "ack"}
    PROVE  runs[n] = 1 /\ Dialed(n, p) = Sock(n, p) /\ Holds(n, Sock(n, p))
<1>1. runs[n] = 1
  BY Zenon DEF NodeOK, TasksOK
<1>. QED BY <1>1, SockFacts, Zenon DEF Holds, Dialed, Sock

\* So has the acceptor, from the backlog on.
LEMMA AcceptorHolds ==
    ASSUME NEW n \in Nodes, NEW p \in PeersOf(n), Waiting(n, p) \/ listener[p].sock = Sock(n, p)
    PROVE  Holds(p, Sock(n, p))
BY Zenon DEF Holds, Waiting, InBacklog

\* Whether the ends of a socket are closed.
LEMMA ClosedEnds ==
    ASSUME NEW n \in Nodes, NEW p \in PeersOf(n)
    PROVE  /\ Closed(n, Sock(n, p)) <=> ~Holds(p, Sock(n, p))
           /\ Closed(p, Sock(n, p)) <=> ~Holds(n, Sock(n, p))
<1>1. Peer(n, Sock(n, p)) = p /\ Peer(p, Sock(n, p)) = n
  BY SockFacts, Zenon
<1>. QED BY <1>1, Zenon DEF Closed

\* A socket is not reset before its dialer has taken the answer.
LEMMA NotReset ==
    ASSUME NEW n \in Nodes, NEW p \in PeersOf(n), PhaseOK(n, p),
           NEW written, Resets(written),
           Sock(n, p) \in written => Holds(n, Sock(n, p)) /\ Holds(p, Sock(n, p)),
           dial'[n][p] \in Early, dial[n][p] \in Early,
           dial'[n][p] \in {"hello", "ack"} => runs'[n] = 1,
           dial'[n][p] \in {"off", "connect"} => dial[n][p] \in {"off", "connect"},
           dial[n][p] = "ack" /\ Waiting(n, p) =>
             \/ listener'[p].sock = Sock(n, p)
             \/ \E i \in DOMAIN backlog'[p] : backlog'[p][i] = Sock(n, p)
    PROVE  Sock(n, p) \notin reset'
<1> DEFINE c == Sock(n, p)
<1>1. /\ c \in Socks /\ Ends(c) = {n, p} /\ Peer(n, c) = p /\ Peer(p, c) = n
      /\ c[1] = n /\ c[2] = p /\ c[3] = 1
  BY SockFacts
<1> HIDE DEF c
<1>2. c \notin reset
  BY Zenon DEF PhaseOK, c
<1>3. ~(c \in written /\ \E m \in Ends(c) : Closed(m, c))
  BY <1>1, Zenon DEF Closed, c
<1>4. ~(Holds(n, c) /\ ~Holds(n, c)' /\ stream[c][n] # << >>)
  <2>1. CASE dial'[n][p] \in {"hello", "ack"}
    <3>1. Holds(n, c)'
      BY <1>1, <2>1, Zenon DEF Holds
    <3>. QED BY <3>1, Zenon
  <2>2. CASE dial'[n][p] \in {"off", "connect"}
    BY <2>2, Zenon DEF PhaseOK, c
  <2>. QED BY <2>1, <2>2, Zenon DEF Early
<1>5. ~(Holds(p, c) /\ ~Holds(p, c)' /\ stream[c][p] # << >>)
  <2>1. CASE dial[n][p] = "ack" /\ Waiting(n, p)
    <3>1. Holds(p, c)'
      BY <2>1, Zenon DEF Holds, c
    <3>. QED BY <3>1, Zenon
  <2>2. CASE ~(dial[n][p] = "ack" /\ Waiting(n, p))
    BY <2>2, Zenon DEF PhaseOK, Early, c
  <2>. QED BY <2>1, <2>2, Zenon
<1>. QED BY <1>1, <1>2, <1>3, <1>4, <1>5, Zenon DEF Resets, c

-----------------------------------------------------------------------------
(* What a step leaves as it is                                             *)

\* A node whose dialing tasks the step does not touch.
LEMMA TasksFrame ==
    ASSUME NEW n, TasksOK(n), up'[n] = up[n], runs'[n] = runs[n], dial'[n] = dial[n]
    PROVE  TasksOK(n)'
BY Zenon DEF TasksOK

\* A node whose listener the step does not touch.
LEMMA ListenerFrame ==
    ASSUME NEW n, ListenerOK(n), runs'[n] = runs[n], listener'[n] = listener[n],
           backlog'[n] = backlog[n]
    PROVE  ListenerOK(n)'
BY Zenon DEF ListenerOK

\* A node whose entries and readers the step does not touch.
LEMMA EntriesFrame ==
    ASSUME NEW n, EntriesOK(n), peer_connections'[n] = peer_connections[n],
           readers'[n] = readers[n]
    PROVE  EntriesOK(n)'
BY Zenon DEF EntriesOK

\* Whether a socket waits for its answer.
LEMMA WaitingFrame ==
    ASSUME NEW n, NEW p, backlog'[p] = backlog[p],
           \/ listener'[p] = listener[p]
           \/ listener[p].pc # "hello" /\ listener'[p].pc # "hello"
    PROVE  Waiting(n, p)' <=> Waiting(n, p)
BY Zenon DEF Waiting, InBacklog

\* A handshake that the step leaves where it is.
LEMMA PhaseFrame ==
    ASSUME NEW n, NEW p, PhaseOK(n, p), dial'[n][p] = dial[n][p],
           Waiting(n, p)' <=> Waiting(n, p),
           stream'[Sock(n, p)][n] = stream[Sock(n, p)][n],
           stream'[Sock(n, p)][p] = stream[Sock(n, p)][p],
           dial[n][p] \in Early => Sock(n, p) \notin reset'
    PROVE  PhaseOK(n, p)'
BY Zenon DEF PhaseOK

\* The same, when sockets may be reset.
LEMMA PhaseKept ==
    ASSUME NEW n \in Nodes, NEW p \in PeersOf(n), NodeOK(n), PhaseOK(n, p),
           dial'[n][p] = dial[n][p], runs'[n] = runs[n], Waiting(n, p)' <=> Waiting(n, p),
           stream'[Sock(n, p)][n] = stream[Sock(n, p)][n],
           stream'[Sock(n, p)][p] = stream[Sock(n, p)][p],
           NEW written, Resets(written),
           Sock(n, p) \in written /\ dial[n][p] \in Early =>
             Holds(n, Sock(n, p)) /\ Holds(p, Sock(n, p))
    PROVE  PhaseOK(n, p)'
<1>1. dial[n][p] \in Early => Sock(n, p) \notin reset'
  <2>1. dial[n][p] \in {"hello", "ack"} => runs'[n] = 1
    BY DialerHolds, Zenon
  <2>2. Waiting(n, p) => \/ listener'[p].sock = Sock(n, p)
                         \/ \E i \in DOMAIN backlog'[p] : backlog'[p][i] = Sock(n, p)
    BY Zenon DEF Waiting, InBacklog
  <2>. QED BY <2>1, <2>2, NotReset, Zenon
<1>. QED BY <1>1, PhaseFrame, Zenon

\* Uses of a socket after a step that adds none but these.
LEMMA UseFrame ==
    ASSUME NEW n, NEW p, UseOK(n, p), Served(n, p) => Served(n, p)',
           dial[n][p] = "done" => dial'[n][p] = "done",
           listener'[p].pc = "dedup" /\ listener'[p].sock = Sock(n, p) => Served(n, p)',
           peer_connections'[n][p] = Sock(n, p) =>
             peer_connections[n][p] = Sock(n, p) \/ dial'[n][p] = "done",
           peer_connections'[p][n] = Sock(n, p) =>
             peer_connections[p][n] = Sock(n, p) \/ Served(n, p)',
           \A r \in readers'[n] : r.sock = Sock(n, p) =>
             (\E q \in readers[n] : q.sock = Sock(n, p)) \/ dial'[n][p] = "done",
           \A r \in readers'[p] : r.sock = Sock(n, p) =>
             (\E q \in readers[p] : q.sock = Sock(n, p)) \/ Served(n, p)'
    PROVE  UseOK(n, p)'
BY Zenon DEF UseOK

\* The items of a sequence without its first, and whether they are distinct.
LEMMA TailItems ==
    ASSUME NEW S, NEW s \in Seq(S), s # << >>
    PROVE  /\ Head(s) \in S /\ Tail(s) \in Seq(S)
           /\ (\A i, j \in DOMAIN s : s[i] = s[j] => i = j) =>
                /\ \A i, j \in DOMAIN Tail(s) : Tail(s)[i] = Tail(s)[j] => i = j
                /\ \A i \in DOMAIN Tail(s) : Tail(s)[i] # Head(s)
           /\ \A c : (\E i \in DOMAIN s : s[i] = c) <=>
                       (\E i \in DOMAIN Tail(s) : Tail(s)[i] = c) \/ Head(s) = c
<1>1. /\ Head(s) \in S /\ Tail(s) \in Seq(S) /\ Head(s) = s[1] /\ 1 \in DOMAIN s
  OBVIOUS
<1>2. /\ DOMAIN s = 1 .. Len(s) /\ DOMAIN Tail(s) = 1 .. Len(s) - 1 /\ Len(s) \in Nat
      /\ \A i \in 1 .. Len(s) - 1 : Tail(s)[i] = s[i + 1]
  OBVIOUS
<1>3. ASSUME \A i, j \in DOMAIN s : s[i] = s[j] => i = j
      PROVE  /\ \A i, j \in DOMAIN Tail(s) : Tail(s)[i] = Tail(s)[j] => i = j
             /\ \A i \in DOMAIN Tail(s) : Tail(s)[i] # Head(s)
  BY <1>1, <1>2, <1>3, SMTT(40)
<1>4. ASSUME NEW c
      PROVE  (\E i \in DOMAIN s : s[i] = c) <=>
               (\E i \in DOMAIN Tail(s) : Tail(s)[i] = c) \/ Head(s) = c
  <2>1. ASSUME NEW i \in DOMAIN s, s[i] = c
        PROVE  (\E k \in DOMAIN Tail(s) : Tail(s)[k] = c) \/ Head(s) = c
    <3>1. CASE i = 1
      BY <1>1, <2>1, <3>1, Zenon
    <3>2. CASE i # 1
      <4>1. i - 1 \in DOMAIN Tail(s) /\ Tail(s)[i - 1] = c
        BY <1>2, <2>1, <3>2
      <4>. QED BY <4>1, Zenon
    <3>. QED BY <3>1, <3>2, Zenon
  <2>2. ASSUME NEW i \in DOMAIN Tail(s), Tail(s)[i] = c
        PROVE  \E k \in DOMAIN s : s[k] = c
    <3>1. i + 1 \in DOMAIN s /\ s[i + 1] = c
      BY <1>2, <2>2
    <3>. QED BY <3>1, Zenon
  <2>. QED BY <1>1, <2>1, <2>2, Zenon
<1>. QED BY <1>1, <1>3, <1>4, Zenon

\* The dialing task of n for p moves.
LEMMA DialUpdate ==
    ASSUME Shapes, NEW n \in Nodes, NodeOK(n), NEW p \in PeersOf(n), NEW pc \in DialPcs,
           DialAt(n, p, pc)
    PROVE  /\ DOMAIN dial' = Nodes /\ dial'[n] \in [PeersOf(n) -> DialPcs] /\ dial'[n][p] = pc
           /\ \A q \in PeersOf(n) : q # p => dial'[n][q] = dial[n][q]
           /\ \A m \in Nodes : m # n => dial'[m] = dial[m]
<1>1. DOMAIN dial = Nodes /\ dial[n] \in [PeersOf(n) -> DialPcs]
  BY Zenon DEF Shapes, NodeOK, TasksOK
<1>2. dial' = [dial EXCEPT ![n][p] = pc]
  BY Zenon DEF DialAt
<1>. QED BY <1>1, <1>2, Zenon

\* The listener of n moves.
LEMMA ListenUpdate ==
    ASSUME Shapes, NEW n \in Nodes, NEW pc, NEW c, ListenAt(n, pc, c)
    PROVE  /\ DOMAIN listener' = Nodes /\ listener'[n].pc = pc /\ listener'[n].sock = c
           /\ \A m \in Nodes : m # n => listener'[m] = listener[m]
<1>1. DOMAIN listener = Nodes
  BY Zenon DEF Shapes
<1>2. listener' = [listener EXCEPT ![n] = [pc |-> pc, sock |-> c]]
  BY Zenon DEF ListenAt
<1>. QED BY <1>1, <1>2, Zenon

\* The entry of n for p is registered, or one that was there before stays.
LEMMA RegisterUpdate ==
    ASSUME Shapes, NEW n \in Nodes, NodeOK(n), NEW p \in PeersOf(n), NEW c \in Between(n, p),
           peer_connections' = deduplicate_peer_connection(n, p, c)
    PROVE  /\ DOMAIN peer_connections' = Nodes /\ DOMAIN peer_connections'[n] = PeersOf(n)
           /\ peer_connections'[n][p] = c \/ peer_connections'[n][p] = peer_connections[n][p]
           /\ peer_connections'[n][p] \in Between(n, p)
           /\ \A q \in PeersOf(n) : q # p => peer_connections'[n][q] = peer_connections[n][q]
           /\ \A m \in Nodes : m # n => peer_connections'[m] = peer_connections[m]
<1>1. DOMAIN peer_connections = Nodes /\ DOMAIN peer_connections[n] = PeersOf(n)
  BY Zenon DEF Shapes, NodeOK, EntriesOK
<1>2. CASE peer_connections[n][p] # NoSock
  <2>1. peer_connections' = peer_connections
    BY <1>2, Zenon DEF deduplicate_peer_connection
  <2>2. peer_connections[n][p] \in Between(n, p)
    BY <1>2, Zenon DEF NodeOK, EntriesOK
  <2>. QED BY <1>1, <2>1, <2>2, Zenon
<1>3. CASE peer_connections[n][p] = NoSock
  <2>1. peer_connections' = [peer_connections EXCEPT ![n][p] = c]
    BY <1>3, Zenon DEF deduplicate_peer_connection
  <2>. QED BY <1>1, <2>1, Zenon
<1>. QED BY <1>2, <1>3, Zenon

\* A message is put on the way to m.
LEMMA PutUpdate ==
    ASSUME Shapes, NEW c \in Socks, NEW m \in Ends(c), NEW msg \in Messages,
           stream' = Put(stream, m, c, msg)
    PROVE  /\ DOMAIN stream' = Socks /\ \A d \in Socks : stream'[d] \in [Ends(d) -> Seq(Messages)]
           /\ stream'[c][m] = Append(stream[c][m], msg)
           /\ \A o \in Ends(c) : o # m => stream'[c][o] = stream[c][o]
           /\ \A d \in Socks : d # c => stream'[d] = stream[d]
<1>1. DOMAIN stream = Socks /\ \A d \in Socks : stream[d] \in [Ends(d) -> Seq(Messages)]
  BY Zenon DEF Shapes
<1>2. stream' = [stream EXCEPT ![c][m] = Append(@, msg)]
  BY Zenon DEF Put
<1>3. Append(stream[c][m], msg) \in Seq(Messages)
  BY <1>1
<1>4. /\ DOMAIN stream' = Socks /\ stream'[c] = [stream[c] EXCEPT ![m] = Append(@, msg)]
      /\ \A d \in Socks : d # c => stream'[d] = stream[d]
  BY <1>1, <1>2, Zenon
<1>5. stream'[c] \in [Ends(c) -> Seq(Messages)]
  BY <1>1, <1>3, <1>4, ZenonT(40)
<1>. QED BY <1>1, <1>4, <1>5, Zenon

\* A message is taken.
LEMMA TakeUpdate ==
    ASSUME Shapes, NEW c \in Socks, NEW m \in Ends(c), Arrived(m, c), stream' = Take(m, c)
    PROVE  /\ DOMAIN stream' = Socks /\ \A d \in Socks : stream'[d] \in [Ends(d) -> Seq(Messages)]
           /\ stream'[c][m] = Tail(stream[c][m])
           /\ \A o \in Ends(c) : o # m => stream'[c][o] = stream[c][o]
           /\ \A d \in Socks : d # c => stream'[d] = stream[d]
<1>1. /\ DOMAIN stream = Socks /\ \A d \in Socks : stream[d] \in [Ends(d) -> Seq(Messages)]
      /\ stream[c][m] # << >>
  BY Zenon DEF Shapes, Arrived
<1>2. stream' = [stream EXCEPT ![c][m] = Tail(@)]
  BY Zenon DEF Take
<1>3. Tail(stream[c][m]) \in Seq(Messages)
  BY <1>1
<1>4. /\ DOMAIN stream' = Socks /\ stream'[c] = [stream[c] EXCEPT ![m] = Tail(@)]
      /\ \A d \in Socks : d # c => stream'[d] = stream[d]
  BY <1>1, <1>2, Zenon
<1>5. stream'[c] \in [Ends(c) -> Seq(Messages)]
  BY <1>1, <1>3, <1>4, ZenonT(40)
<1>. QED BY <1>1, <1>4, <1>5, Zenon

-----------------------------------------------------------------------------
(* Steps                                                                   *)

\* A node starts.
LEMMA StartStep ==
    ASSUME Good, NEW n \in Nodes, Start(n), UNCHANGED reset
    PROVE  Good'
<1>1. /\ Shapes /\ \A m \in Nodes : NodeOK(m)
      /\ \A a \in Nodes : \A b \in PeersOf(a) : PhaseOK(a, b) /\ UseOK(a, b)
  BY Zenon DEF Good
<1>2. /\ ~up[n] /\ up' = [up EXCEPT ![n] = TRUE] /\ runs' = [runs EXCEPT ![n] = @ + 1]
      /\ dial' = [dial EXCEPT ![n] = [p \in PeersOf(n) |-> "connect"]]
      /\ ListenAt(n, "bind", NoSock)
      /\ backlog' = backlog /\ peer_connections' = peer_connections /\ readers' = readers
      /\ stream' = stream /\ reset' = reset
  BY Zenon DEF Start, ListenAt
<1>3. /\ runs[n] = 0 /\ listener[n].pc = "off" /\ listener[n].sock = NoSock
      /\ \A p \in PeersOf(n) : dial[n][p] = "off"
  BY <1>1, <1>2, Zenon DEF NodeOK, TasksOK, ListenerOK
<1>4. /\ DOMAIN up' = Nodes /\ DOMAIN runs' = Nodes /\ DOMAIN dial' = Nodes
      /\ up'[n] = TRUE /\ runs'[n] = 1 /\ dial'[n] = [p \in PeersOf(n) |-> "connect"]
      /\ \A m \in Nodes : m # n => up'[m] = up[m] /\ runs'[m] = runs[m] /\ dial'[m] = dial[m]
  BY <1>1, <1>2, <1>3 DEF Shapes
<1>5. /\ DOMAIN listener' = Nodes /\ listener'[n].pc = "bind" /\ listener'[n].sock = NoSock
      /\ \A m \in Nodes : m # n => listener'[m] = listener[m]
  BY <1>1, <1>2, ListenUpdate, Zenon
<1>6. Shapes'
  BY <1>1, <1>2, <1>4, <1>5, Zenon DEF Shapes
<1>7. ASSUME NEW m \in Nodes PROVE NodeOK(m)'
  <2>1. EntriesOK(m)'
    BY <1>1, <1>2, EntriesFrame, Zenon DEF NodeOK
  <2>2. TasksOK(m)'
    <3>1. CASE m # n
      BY <1>1, <1>4, <3>1, TasksFrame, Zenon DEF NodeOK
    <3>2. TasksOK(n)'
      <4>1. dial'[n] \in [PeersOf(n) -> DialPcs]
        BY <1>4, Zenon DEF DialPcs, Early
      <4>. QED BY <1>4, <4>1 DEF TasksOK
    <3>. QED BY <3>1, <3>2, Zenon
  <2>3. ListenerOK(m)'
    <3>1. CASE m # n
      BY <1>1, <1>2, <1>4, <1>5, <3>1, ListenerFrame, Zenon DEF NodeOK
    <3>2. ListenerOK(n)'
      <4>1. /\ runs'[n] # 0 /\ listener'[n].pc \in ListenPcs
            /\ listener'[n].pc \notin {"hello", "dedup"}
        BY <1>4, <1>5 DEF ListenPcs
      <4>2. backlog'[n] = backlog[n] /\ listener'[n].sock = listener[n].sock /\ listener[n].sock = NoSock
        BY <1>2, <1>3, <1>5, Zenon
      <4>. QED BY <1>1, <4>1, <4>2, Zenon DEF NodeOK, ListenerOK
    <3>. QED BY <3>1, <3>2, Zenon
  <2>. QED BY <2>1, <2>2, <2>3, Zenon DEF NodeOK
<1>8. ASSUME NEW a \in Nodes, NEW b \in PeersOf(a) PROVE PhaseOK(a, b)' /\ UseOK(a, b)'
  <2>1. b \in Nodes /\ a # b
    BY SockFacts, Zenon
  <2>2. Waiting(a, b)' <=> Waiting(a, b)
    <3>1. listener'[b] = listener[b] \/ (listener[b].pc # "hello" /\ listener'[b].pc # "hello")
      BY <1>3, <1>5, <2>1, Zenon
    <3>. QED BY <1>2, <3>1, WaitingFrame, Zenon
  <2>3. /\ a # n => dial'[a][b] = dial[a][b]
        /\ a = n => dial[a][b] = "off" /\ dial'[a][b] = "connect"
    BY <1>3, <1>4, ZenonT(40)
  <2>4. PhaseOK(a, b)'
    BY <1>1, <1>2, <2>2, <2>3, Zenon DEF PhaseOK, Early
  <2>5. Served(a, b) => Served(a, b)'
    BY <2>2, <2>3, Zenon DEF Served
  <2>6. listener'[b].pc = "dedup" => listener'[b] = listener[b]
    BY <1>5, <2>1, Zenon
  <2>7. dial[a][b] = "done" => dial'[a][b] = "done"
    BY <2>3, Zenon
  <2>8. UseOK(a, b)'
    BY <1>1, <1>2, <2>5, <2>6, <2>7, Zenon DEF UseOK
  <2>. QED BY <2>4, <2>8, Zenon
<1>. QED BY <1>6, <1>7, <1>8, Zenon DEF Good

\* The connection is accepted into the backlog of p.
LEMMA ConnectStep ==
    ASSUME Good, NEW n \in Nodes, NEW p \in PeersOf(n), Connect(n, p)
    PROVE  Good'
<1>1. /\ Shapes /\ \A m \in Nodes : NodeOK(m)
      /\ \A a \in Nodes : \A b \in PeersOf(a) : PhaseOK(a, b) /\ UseOK(a, b)
  BY Zenon DEF Good
<1>2. /\ dial[n][p] = "connect" /\ listener[p].pc \in {"accept", "hello", "dedup"}
      /\ backlog' = [backlog EXCEPT ![p] = Append(@, Dialed(n, p))]
      /\ DialAt(n, p, "hello") /\ Resets({})
      /\ up' = up /\ runs' = runs /\ listener' = listener /\ peer_connections' = peer_connections
      /\ readers' = readers /\ stream' = stream
  BY Zenon DEF Connect
<1>3. p \in Nodes /\ p # n /\ n \in PeersOf(p) /\ Sock(n, p) # NoSock
  BY SockFacts, ZenonT(40)
<1>4. runs[n] = 1 /\ Dialed(n, p) = Sock(n, p)
  BY <1>1, <1>2, Zenon DEF NodeOK, TasksOK, Dialed, Sock
<1>5. /\ DOMAIN dial' = Nodes /\ dial'[n] \in [PeersOf(n) -> DialPcs] /\ dial'[n][p] = "hello"
      /\ \A q \in PeersOf(n) : q # p => dial'[n][q] = dial[n][q]
      /\ \A m \in Nodes : m # n => dial'[m] = dial[m]
  <2>1. "hello" \in DialPcs
    BY Zenon DEF DialPcs, Early
  <2>. QED BY <1>1, <1>2, <2>1, DialUpdate, Zenon
<1>6. /\ DOMAIN backlog' = Nodes /\ backlog'[p] = Append(backlog[p], Sock(n, p))
      /\ \A m \in Nodes : m # p => backlog'[m] = backlog[m]
  BY <1>1, <1>2, <1>3, <1>4, Zenon DEF Shapes
<1> DEFINE T == {Sock(q, p) : q \in PeersOf(p)}
<1>7. backlog[p] \in Seq(T) /\ Sock(n, p) \in T
  BY <1>1, <1>3, Zenon DEF NodeOK, ListenerOK
<1>8. ~Waiting(n, p) /\ listener[p].sock # Sock(n, p)
  <2>1. ~Waiting(n, p)
    BY <1>1, <1>2, Zenon DEF PhaseOK
  <2>2. ~Served(n, p)
    BY <1>2, Zenon DEF Served
  <2>3. listener[p].pc = "accept" => listener[p].sock = NoSock
    BY <1>1, <1>3, Zenon DEF NodeOK, ListenerOK
  <2>4. listener[p].pc = "hello" => listener[p].sock # Sock(n, p)
    BY <2>1, Zenon DEF Waiting
  <2>5. listener[p].pc = "dedup" => listener[p].sock # Sock(n, p)
    BY <1>1, <2>2, Zenon DEF UseOK
  <2>. QED BY <1>2, <1>3, <2>1, <2>3, <2>4, <2>5, Zenon
<1> HIDE DEF T
<1>9. /\ backlog'[p] \in Seq(T) /\ DOMAIN backlog'[p] = 1 .. Len(backlog[p]) + 1
      /\ DOMAIN backlog[p] = 1 .. Len(backlog[p]) /\ Len(backlog[p]) \in Nat
      /\ \A i \in DOMAIN backlog[p] : i \in DOMAIN backlog'[p] /\ backlog'[p][i] = backlog[p][i]
      /\ \A i \in DOMAIN backlog'[p] : \/ i \in DOMAIN backlog[p] /\ backlog'[p][i] = backlog[p][i]
                                       \/ i = Len(backlog[p]) + 1 /\ backlog'[p][i] = Sock(n, p)
      /\ Len(backlog[p]) + 1 \in DOMAIN backlog'[p] /\ backlog'[p][Len(backlog[p]) + 1] = Sock(n, p)
  BY <1>6, <1>7
<1>10. \A c : InBacklog(p, c)' <=> InBacklog(p, c) \/ c = Sock(n, p)
  BY <1>9, Zenon DEF InBacklog
<1>11. Shapes'
  BY <1>1, <1>2, <1>5, <1>6, Zenon DEF Shapes
<1>12. ASSUME NEW m \in Nodes PROVE NodeOK(m)'
  <2>1. EntriesOK(m)'
    BY <1>1, <1>2, EntriesFrame, Zenon DEF NodeOK
  <2>2. TasksOK(m)'
    <3>1. CASE m # n
      BY <1>1, <1>2, <1>5, <3>1, TasksFrame, Zenon DEF NodeOK
    <3>2. TasksOK(n)'
      <4>1. runs[n] # 0
        BY <1>4
      <4>. QED BY <1>1, <1>2, <1>5, <4>1, Zenon DEF NodeOK, TasksOK
    <3>. QED BY <3>1, <3>2, Zenon
  <2>3. ListenerOK(m)'
    <3>1. CASE m # p
      BY <1>1, <1>2, <1>6, <3>1, ListenerFrame, Zenon DEF NodeOK
    <3>2. ListenerOK(p)'
      <4>1. /\ \A i, j \in DOMAIN backlog[p] : backlog[p][i] = backlog[p][j] => i = j
            /\ \A i \in DOMAIN backlog[p] : backlog[p][i] # listener[p].sock
        BY <1>1, <1>3, Zenon DEF NodeOK, ListenerOK
      <4>2. \A i \in DOMAIN backlog[p] : backlog[p][i] # Sock(n, p)
        BY <1>8, Zenon DEF Waiting, InBacklog
      <4>3. \A i, j \in DOMAIN backlog'[p] : backlog'[p][i] = backlog'[p][j] => i = j
        BY <1>9, <4>1, <4>2, Zenon
      <4>4. \A i \in DOMAIN backlog'[p] : backlog'[p][i] # listener[p].sock
        BY <1>8, <1>9, <4>1, Zenon
      <4>. QED BY <1>1, <1>2, <1>3, <1>9, <4>3, <4>4, ZenonT(40) DEF NodeOK, ListenerOK, T
    <3>. QED BY <3>1, <3>2, Zenon
  <2>. QED BY <2>1, <2>2, <2>3, Zenon DEF NodeOK
<1>13. ASSUME NEW a \in Nodes, NEW b \in PeersOf(a) PROVE PhaseOK(a, b)' /\ UseOK(a, b)'
  <2>1. b \in Nodes /\ a # b
    BY SockFacts, Zenon
  <2>2. CASE ~(a = n /\ b = p)
    <3>1. dial'[a][b] = dial[a][b]
      BY <1>5, <2>2, Zenon
    <3>2. Sock(a, b) # Sock(n, p)
      BY <2>2, OtherSock, Zenon
    <3>3. InBacklog(b, Sock(a, b))' <=> InBacklog(b, Sock(a, b))
      <4>1. CASE b = p
        BY <1>10, <3>2, <4>1, Zenon
      <4>2. CASE b # p
        BY <1>6, <2>1, <4>2, Zenon DEF InBacklog
      <4>. QED BY <4>1, <4>2, Zenon
    <3>4. Waiting(a, b)' <=> Waiting(a, b)
      BY <1>2, <3>3, Zenon DEF Waiting
    <3>6. PhaseOK(a, b)'
      BY <1>1, <1>2, <3>1, <3>4, PhaseKept, Zenon
    <3>7. UseOK(a, b)'
      BY <1>1, <1>2, <3>1, <3>4, Zenon DEF UseOK, Served
    <3>. QED BY <3>6, <3>7, Zenon
  <2>3. CASE a = n /\ b = p
    <3>1. Waiting(n, p)'
      BY <1>10, Zenon DEF Waiting
    <3>2. Sock(n, p) \notin reset'
      <4>1. dial[n][p] \in Early /\ dial'[n][p] \in Early
        BY <1>2, <1>5, Zenon DEF Early
      <4>. QED BY <1>1, <1>2, <1>4, <1>5, <4>1, NotReset, Zenon
    <3>3. PhaseOK(n, p)'
      BY <1>1, <1>2, <1>5, <3>1, <3>2, Zenon DEF PhaseOK
    <3>4. UseOK(n, p)'
      BY <1>1, <1>2, <1>3, <1>5, <1>8, Zenon DEF UseOK, Served
    <3>. QED BY <2>3, <3>3, <3>4, Zenon
  <2>. QED BY <2>2, <2>3, Zenon
<1>. QED BY <1>11, <1>12, <1>13, Zenon DEF Good

\* The dialing task says who it is.
LEMMA SendHelloStep ==
    ASSUME Good, NEW n \in Nodes, NEW p \in PeersOf(n), SendHello(n, p)
    PROVE  Good'
<1>1. /\ Shapes /\ \A m \in Nodes : NodeOK(m)
      /\ \A a \in Nodes : \A b \in PeersOf(a) : PhaseOK(a, b) /\ UseOK(a, b)
  BY Zenon DEF Good
<1> DEFINE c == Sock(n, p)
<1>2. /\ dial[n][p] = "hello" /\ Sent(n, Dialed(n, p), "Hello") /\ DialAt(n, p, "ack")
      /\ Resets({Dialed(n, p)})
      /\ up' = up /\ runs' = runs /\ listener' = listener /\ peer_connections' = peer_connections
      /\ readers' = readers /\ backlog' = backlog
  BY Zenon DEF SendHello
<1>3. /\ p \in Nodes /\ p # n /\ n \in PeersOf(p) /\ c \in Socks /\ Ends(c) = {n, p}
      /\ Peer(n, c) = p
  BY SockFacts, Zenon
<1>4. runs[n] = 1 /\ Dialed(n, p) = c /\ Holds(n, c)
  BY <1>1, <1>2, DialerHolds, Zenon
<1>5. /\ DOMAIN dial' = Nodes /\ dial'[n] \in [PeersOf(n) -> DialPcs] /\ dial'[n][p] = "ack"
      /\ \A q \in PeersOf(n) : q # p => dial'[n][q] = dial[n][q]
      /\ \A m \in Nodes : m # n => dial'[m] = dial[m]
  <2>1. "ack" \in DialPcs
    BY Zenon DEF DialPcs, Early
  <2>. QED BY <1>1, <1>2, <2>1, DialUpdate, Zenon
<1>6. Waiting(n, p) /\ stream[c][n] = << >> /\ stream[c][p] = << >>
  BY <1>1, <1>2, Zenon DEF PhaseOK
<1>7. Holds(p, c)
  BY <1>6, AcceptorHolds, Zenon
<1>8. stream' = Put(stream, p, c, "Hello")
  <2>1. ~Closed(n, c)
    BY <1>7, ClosedEnds, Zenon
  <2>. QED BY <1>2, <1>3, <1>4, <2>1, Zenon DEF Sent
<1>9. /\ DOMAIN stream' = Socks /\ \A d \in Socks : stream'[d] \in [Ends(d) -> Seq(Messages)]
      /\ stream'[c][p] = Append(stream[c][p], "Hello") /\ stream'[c][n] = stream[c][n]
      /\ \A d \in Socks : d # c => stream'[d] = stream[d]
  <2>1. "Hello" \in Messages /\ p \in Ends(c) /\ n \in Ends(c)
    BY <1>3, Zenon DEF Messages
  <2>. QED BY <1>1, <1>3, <1>8, <2>1, PutUpdate, ZenonT(40)
<1> HIDE DEF c
<1>10. \A a, b : Waiting(a, b)' <=> Waiting(a, b)
  BY <1>2, Zenon DEF Waiting, InBacklog
<1>11. Shapes'
  BY <1>1, <1>2, <1>5, <1>9, Zenon DEF Shapes
<1>12. ASSUME NEW m \in Nodes PROVE NodeOK(m)'
  <2>1. EntriesOK(m)' /\ ListenerOK(m)'
    BY <1>1, <1>2, EntriesFrame, ListenerFrame, Zenon DEF NodeOK
  <2>2. TasksOK(m)'
    <3>1. CASE m # n
      BY <1>1, <1>2, <1>5, <3>1, TasksFrame, Zenon DEF NodeOK
    <3>2. TasksOK(n)'
      <4>1. runs[n] # 0
        BY <1>4
      <4>. QED BY <1>1, <1>2, <1>5, <4>1, Zenon DEF NodeOK, TasksOK
    <3>. QED BY <3>1, <3>2, Zenon
  <2>. QED BY <2>1, <2>2, Zenon DEF NodeOK
<1>13. ASSUME NEW a \in Nodes, NEW b \in PeersOf(a) PROVE PhaseOK(a, b)' /\ UseOK(a, b)'
  <2>1. CASE ~(a = n /\ b = p)
    <3>1. dial'[a][b] = dial[a][b]
      BY <1>5, <2>1, Zenon
    <3>2. Sock(a, b) # c /\ Sock(a, b) \in Socks
      BY <2>1, OtherSock, Zenon DEF c
    <3>3. PhaseOK(a, b)'
      <4>1. Sock(a, b) \notin {Dialed(n, p)}
        BY <1>4, <3>2, Zenon
      <4>. QED BY <1>1, <1>2, <1>9, <1>10, <3>1, <3>2, <4>1, PhaseKept, Zenon
    <3>4. UseOK(a, b)'
      BY <1>1, <1>2, <1>10, <3>1, Zenon DEF UseOK, Served
    <3>. QED BY <3>3, <3>4, Zenon
  <2>2. PhaseOK(n, p)'
    <3>1. c \notin reset'
      <4>1. dial[n][p] \in Early /\ dial'[n][p] \in Early /\ dial'[n][p] \notin {"off", "connect"}
        BY <1>2, <1>5, Zenon DEF Early
      <4>2. ~(dial[n][p] = "ack") /\ runs'[n] = 1
        BY <1>2, <1>4, Zenon
      <4>. QED BY <1>1, <1>2, <1>4, <1>7, <4>1, <4>2, NotReset, Zenon DEF c
    <3>2. stream'[c][p] = <<"Hello">>
      BY <1>6, <1>9
    <3>. QED BY <1>5, <1>6, <1>9, <1>10, <3>1, <3>2, Zenon DEF PhaseOK, c
  <2>3. UseOK(n, p)'
    <3>1. ~Served(n, p) /\ dial[n][p] # "done"
      BY <1>2, Zenon DEF Served
    <3>. QED BY <1>1, <1>2, <3>1, Zenon DEF UseOK
  <2>. QED BY <2>1, <2>2, <2>3, Zenon
<1>. QED BY <1>11, <1>12, <1>13, Zenon DEF Good

\* The dialing task takes the answer, which is an Ack.
LEMMA AnsweredStep ==
    ASSUME Good, NEW n \in Nodes, NEW p \in PeersOf(n), Answered(n, p)
    PROVE  Good'
<1>1. /\ Shapes /\ \A m \in Nodes : NodeOK(m)
      /\ \A a \in Nodes : \A b \in PeersOf(a) : PhaseOK(a, b) /\ UseOK(a, b)
  BY Zenon DEF Good
<1> DEFINE c == Sock(n, p)
<1>2. /\ dial[n][p] = "ack" /\ Resets({})
      /\ up' = up /\ runs' = runs /\ listener' = listener /\ peer_connections' = peer_connections
      /\ readers' = readers /\ backlog' = backlog
  BY Zenon DEF Answered
<1>3. /\ p \in Nodes /\ p # n /\ n \in PeersOf(p) /\ c \in Socks /\ Ends(c) = {n, p}
  BY SockFacts, Zenon
<1>4. runs[n] = 1 /\ Dialed(n, p) = c /\ Holds(n, c)
  BY <1>1, <1>2, DialerHolds, Zenon
<1>5. /\ ~Waiting(n, p) /\ stream[c][n] # << >> /\ Head(stream[c][n]) = "Ack"
      /\ DialAt(n, p, "dedup") /\ stream' = Take(n, c)
  <2>1. c \notin reset
    BY <1>1, <1>2, Zenon DEF PhaseOK, Early
  <2>2. CASE Waiting(n, p)
    <3>1. stream[c][n] = << >>
      BY <1>1, <1>2, <2>2, Zenon DEF PhaseOK
    <3>2. ~Closed(n, c)
      BY <2>2, AcceptorHolds, ClosedEnds, Zenon
    <3>. QED BY <1>4, <3>1, <3>2, Zenon DEF Answered, Arrived, EndOfStream, Broken
  <2>3. CASE ~Waiting(n, p)
    <3>1. stream[c][n] # << >> /\ Head(stream[c][n]) = "Ack"
      BY <1>1, <1>2, <2>3, Zenon DEF PhaseOK
    <3>. QED BY <1>4, <2>1, <2>3, <3>1, Zenon DEF Answered, Arrived, EndOfStream, Broken
  <2>. QED BY <2>2, <2>3, Zenon
<1>6. /\ DOMAIN dial' = Nodes /\ dial'[n] \in [PeersOf(n) -> DialPcs] /\ dial'[n][p] = "dedup"
      /\ \A q \in PeersOf(n) : q # p => dial'[n][q] = dial[n][q]
      /\ \A m \in Nodes : m # n => dial'[m] = dial[m]
  <2>1. "dedup" \in DialPcs
    BY Zenon DEF DialPcs
  <2>. QED BY <1>1, <1>5, <2>1, DialUpdate, Zenon
<1>7. /\ DOMAIN stream' = Socks /\ \A d \in Socks : stream'[d] \in [Ends(d) -> Seq(Messages)]
      /\ \A d \in Socks : d # c => stream'[d] = stream[d]
  <2>1. n \in Ends(c) /\ Arrived(n, c)
    BY <1>3, <1>5, Zenon DEF Arrived
  <2>. QED BY <1>1, <1>3, <1>5, <2>1, TakeUpdate, Zenon
<1> HIDE DEF c
<1>8. \A a, b : Waiting(a, b)' <=> Waiting(a, b)
  BY <1>2, Zenon DEF Waiting, InBacklog
<1>9. Shapes'
  BY <1>1, <1>2, <1>6, <1>7, Zenon DEF Shapes
<1>10. ASSUME NEW m \in Nodes PROVE NodeOK(m)'
  <2>1. EntriesOK(m)' /\ ListenerOK(m)'
    BY <1>1, <1>2, EntriesFrame, ListenerFrame, Zenon DEF NodeOK
  <2>2. TasksOK(m)'
    <3>1. CASE m # n
      BY <1>1, <1>2, <1>6, <3>1, TasksFrame, Zenon DEF NodeOK
    <3>2. TasksOK(n)'
      <4>1. runs[n] # 0
        BY <1>4
      <4>. QED BY <1>1, <1>2, <1>6, <4>1, Zenon DEF NodeOK, TasksOK
    <3>. QED BY <3>1, <3>2, Zenon
  <2>. QED BY <2>1, <2>2, Zenon DEF NodeOK
<1>11. ASSUME NEW a \in Nodes, NEW b \in PeersOf(a) PROVE PhaseOK(a, b)' /\ UseOK(a, b)'
  <2>1. CASE ~(a = n /\ b = p)
    <3>1. dial'[a][b] = dial[a][b]
      BY <1>6, <2>1, Zenon
    <3>2. Sock(a, b) # c /\ Sock(a, b) \in Socks
      BY <2>1, OtherSock, Zenon DEF c
    <3>3. PhaseOK(a, b)'
      BY <1>1, <1>2, <1>7, <1>8, <3>1, <3>2, PhaseKept, Zenon
    <3>4. UseOK(a, b)'
      BY <1>1, <1>2, <1>8, <3>1, Zenon DEF UseOK, Served
    <3>. QED BY <3>3, <3>4, Zenon
  <2>2. PhaseOK(n, p)'
    BY <1>5, <1>6, <1>8, Zenon DEF PhaseOK, Early
  <2>3. UseOK(n, p)'
    <3>1. Served(n, p)' /\ dial[n][p] # "done"
      BY <1>2, <1>5, <1>6, <1>8, Zenon DEF Served
    <3>. QED BY <1>1, <1>2, <3>1, Zenon DEF UseOK
  <2>. QED BY <2>1, <2>2, <2>3, Zenon
<1>. QED BY <1>9, <1>10, <1>11, Zenon DEF Good

\* The dialing task registers the socket, and ends.
LEMMA DialRegisterStep ==
    ASSUME Good, NEW n \in Nodes, NEW p \in PeersOf(n), DialRegister(n, p)
    PROVE  Good'
<1>1. /\ Shapes /\ \A m \in Nodes : NodeOK(m)
      /\ \A a \in Nodes : \A b \in PeersOf(a) : PhaseOK(a, b) /\ UseOK(a, b)
  BY Zenon DEF Good
<1>2. /\ dial[n][p] = "dedup" /\ Resets({}) /\ DialAt(n, p, "done")
      /\ peer_connections' = deduplicate_peer_connection(n, p, Dialed(n, p))
      /\ up' = up /\ runs' = runs /\ listener' = listener
      /\ readers' = readers /\ backlog' = backlog /\ stream' = stream
  BY Zenon DEF DialRegister
<1>3. runs[n] = 1 /\ Dialed(n, p) = Sock(n, p) /\ Sock(n, p) \in Between(n, p)
  BY <1>1, <1>2, Zenon DEF NodeOK, TasksOK, Dialed, Sock, Between
<1>4. /\ DOMAIN dial' = Nodes /\ dial'[n] \in [PeersOf(n) -> DialPcs] /\ dial'[n][p] = "done"
      /\ \A q \in PeersOf(n) : q # p => dial'[n][q] = dial[n][q]
      /\ \A m \in Nodes : m # n => dial'[m] = dial[m]
  <2>1. "done" \in DialPcs
    BY Zenon DEF DialPcs
  <2>. QED BY <1>1, <1>2, <2>1, DialUpdate, Zenon
<1>5. /\ DOMAIN peer_connections' = Nodes /\ DOMAIN peer_connections'[n] = PeersOf(n)
      /\ \/ peer_connections'[n][p] = Sock(n, p)
         \/ peer_connections'[n][p] = peer_connections[n][p]
      /\ peer_connections'[n][p] \in Between(n, p)
      /\ \A q \in PeersOf(n) : q # p => peer_connections'[n][q] = peer_connections[n][q]
      /\ \A m \in Nodes : m # n => peer_connections'[m] = peer_connections[m]
  BY <1>1, <1>2, <1>3, RegisterUpdate, Zenon
<1>6. \A a, b : Waiting(a, b)' <=> Waiting(a, b)
  BY <1>2, Zenon DEF Waiting, InBacklog
<1>7. Shapes'
  BY <1>1, <1>2, <1>4, <1>5, Zenon DEF Shapes
<1>8. ASSUME NEW m \in Nodes PROVE NodeOK(m)'
  <2>1. ListenerOK(m)'
    BY <1>1, <1>2, ListenerFrame, Zenon DEF NodeOK
  <2>2. TasksOK(m)'
    <3>1. CASE m # n
      BY <1>1, <1>2, <1>4, <3>1, TasksFrame, Zenon DEF NodeOK
    <3>2. TasksOK(n)'
      <4>1. runs[n] # 0
        BY <1>3
      <4>. QED BY <1>1, <1>2, <1>4, <4>1, Zenon DEF NodeOK, TasksOK
    <3>. QED BY <3>1, <3>2, Zenon
  <2>3. EntriesOK(m)'
    <3>1. CASE m # n
      BY <1>1, <1>2, <1>5, <3>1, EntriesFrame, Zenon DEF NodeOK
    <3>2. EntriesOK(n)'
      BY <1>1, <1>2, <1>5, Zenon DEF NodeOK, EntriesOK
    <3>. QED BY <3>1, <3>2, Zenon
  <2>. QED BY <2>1, <2>2, <2>3, Zenon DEF NodeOK
<1>9. ASSUME NEW a \in Nodes, NEW b \in PeersOf(a) PROVE PhaseOK(a, b)' /\ UseOK(a, b)'
  <2>1. b \in Nodes /\ a # b /\ a \in PeersOf(b) /\ Sock(a, b) # Sock(b, a)
    BY SockFacts, Zenon
  <2>2. CASE ~(a = n /\ b = p)
    <3>1. dial'[a][b] = dial[a][b]
      BY <1>4, <2>2, Zenon
    <3>2. PhaseOK(a, b)'
      BY <1>1, <1>2, <1>6, <3>1, PhaseKept, Zenon
    <3>3. Served(a, b)' <=> Served(a, b)
      BY <1>6, <3>1, Zenon DEF Served
    <3>4. peer_connections'[a][b] = peer_connections[a][b]
      BY <1>5, <2>2, Zenon
    <3>5. peer_connections'[b][a] = Sock(a, b) => peer_connections[b][a] = Sock(a, b)
      <4>1. CASE b = n /\ a = p
        BY <1>5, <2>1, <4>1, Zenon
      <4>2. CASE ~(b = n /\ a = p)
        BY <1>5, <2>1, <4>2, Zenon
      <4>. QED BY <4>1, <4>2, Zenon
    <3>6. UseOK(a, b)'
      BY <1>1, <1>2, <3>1, <3>3, <3>4, <3>5, Zenon DEF UseOK
    <3>. QED BY <3>2, <3>6, Zenon
  <2>3. PhaseOK(n, p)'
    <3>1. ~Waiting(n, p)'
      BY <1>1, <1>2, <1>6, Zenon DEF PhaseOK
    <3>. QED BY <1>4, <3>1, Zenon DEF PhaseOK, Early
  <2>4. UseOK(n, p)'
    <3>1. Served(n, p)'
      <4>1. ~Waiting(n, p)'
        BY <1>1, <1>2, <1>6, Zenon DEF PhaseOK
      <4>. QED BY <1>4, <4>1, Zenon DEF Served
    <3>. QED BY <1>1, <1>2, <1>4, <3>1, Zenon DEF UseOK
  <2>. QED BY <2>2, <2>3, <2>4, Zenon
<1>. QED BY <1>7, <1>8, <1>9, Zenon DEF Good

\* The listener is bound, or takes the oldest socket of its backlog.
LEMMA AcceptStep ==
    ASSUME Good, NEW n \in Nodes, Bind(n) \/ Accept(n)
    PROVE  Good'
<1>1. /\ Shapes /\ \A m \in Nodes : NodeOK(m)
      /\ \A a \in Nodes : \A b \in PeersOf(a) : PhaseOK(a, b) /\ UseOK(a, b)
  BY Zenon DEF Good
<1>2. /\ up' = up /\ runs' = runs /\ dial' = dial /\ peer_connections' = peer_connections
      /\ readers' = readers /\ stream' = stream /\ reset' = reset
  BY Zenon DEF Bind, Accept
<1> DEFINE T == {Sock(q, n) : q \in PeersOf(n)}
<1>3. backlog[n] \in Seq(T) /\ listener[n].pc \in ListenPcs
  BY <1>1, Zenon DEF NodeOK, ListenerOK
<1> HIDE DEF T
<1>4. /\ DOMAIN listener' = Nodes /\ DOMAIN backlog' = Nodes
      /\ \A m \in Nodes : m # n => listener'[m] = listener[m] /\ backlog'[m] = backlog[m]
      /\ listener[n].pc \in {"bind", "accept"} /\ listener'[n].pc \in {"accept", "hello"}
      /\ ListenerOK(n)'
      /\ \A c \in T : \/ InBacklog(n, c)'
                      \/ listener'[n].pc = "hello" /\ listener'[n].sock = c
                      <=> InBacklog(n, c)
  <2>1. CASE Bind(n)
    <3>1. listener[n].pc = "bind" /\ ListenAt(n, "accept", NoSock) /\ backlog' = backlog
      BY <2>1, Zenon DEF Bind
    <3>2. /\ DOMAIN listener' = Nodes /\ listener'[n].pc = "accept" /\ listener'[n].sock = NoSock
          /\ \A m \in Nodes : m # n => listener'[m] = listener[m]
      BY <1>1, <3>1, ListenUpdate, Zenon
    <3>3. listener[n].sock = NoSock /\ runs[n] # 0
      BY <1>1, <3>1, Zenon DEF NodeOK, ListenerOK
    <3>4. "accept" \in ListenPcs /\ "accept" \notin {"hello", "dedup"} /\ "accept" # "hello"
      BY Zenon DEF ListenPcs
    <3>5. ListenerOK(n)'
      <4>1. /\ runs'[n] # 0 /\ listener'[n].pc \in ListenPcs
            /\ listener'[n].pc \notin {"hello", "dedup"}
        BY <1>2, <3>2, <3>3, <3>4, Zenon
      <4>2. backlog'[n] = backlog[n] /\ listener'[n].sock = listener[n].sock /\ listener[n].sock = NoSock
        BY <3>1, <3>2, <3>3, Zenon
      <4>. QED BY <1>1, <4>1, <4>2, ZenonT(40) DEF NodeOK, ListenerOK
    <3>6. DOMAIN backlog' = Nodes
      BY <1>1, <3>1, Zenon DEF Shapes
    <3>7. \A c : InBacklog(n, c)' <=> InBacklog(n, c)
      BY <3>1, Zenon DEF InBacklog
    <3>. QED BY <3>1, <3>2, <3>4, <3>5, <3>6, <3>7, Zenon
  <2>2. CASE Accept(n)
    <3>1. /\ listener[n].pc = "accept" /\ backlog[n] # << >>
          /\ ListenAt(n, "hello", Head(backlog[n])) /\ backlog' = [backlog EXCEPT ![n] = Tail(@)]
      BY <2>2, Zenon DEF Accept
    <3>2. /\ DOMAIN listener' = Nodes /\ listener'[n].pc = "hello"
          /\ listener'[n].sock = Head(backlog[n])
          /\ \A m \in Nodes : m # n => listener'[m] = listener[m]
      BY <1>1, <3>1, ListenUpdate, Zenon
    <3>3. /\ DOMAIN backlog' = Nodes /\ backlog'[n] = Tail(backlog[n])
          /\ \A m \in Nodes : m # n => backlog'[m] = backlog[m]
      BY <1>1, <3>1, Zenon DEF Shapes
    <3>4. /\ Head(backlog[n]) \in T /\ Tail(backlog[n]) \in Seq(T)
          /\ (\A i, j \in DOMAIN backlog[n] : backlog[n][i] = backlog[n][j] => i = j) =>
               /\ \A i, j \in DOMAIN Tail(backlog[n]) : Tail(backlog[n])[i] = Tail(backlog[n])[j] => i = j
               /\ \A i \in DOMAIN Tail(backlog[n]) : Tail(backlog[n])[i] # Head(backlog[n])
          /\ \A c : (\E i \in DOMAIN backlog[n] : backlog[n][i] = c) <=>
               (\E i \in DOMAIN Tail(backlog[n]) : Tail(backlog[n])[i] = c) \/ Head(backlog[n]) = c
      BY <1>3, <3>1, TailItems, Zenon
    <3>5. \A i, j \in DOMAIN backlog[n] : backlog[n][i] = backlog[n][j] => i = j
      BY <1>1, Zenon DEF NodeOK, ListenerOK
    <3>6. \A i, j \in DOMAIN backlog'[n] : backlog'[n][i] = backlog'[n][j] => i = j
      BY <3>3, <3>4, <3>5, Zenon
    <3>7. \A i \in DOMAIN backlog'[n] : backlog'[n][i] # listener'[n].sock
      BY <3>2, <3>3, <3>4, <3>5, Zenon
    <3>8. runs[n] # 0 /\ "hello" \in ListenPcs
      BY <1>1, <3>1, Zenon DEF NodeOK, ListenerOK, ListenPcs
    <3>9. \E q \in PeersOf(n) : listener'[n].sock = Sock(q, n)
      BY <3>2, <3>4 DEF T
    <3>10. ListenerOK(n)'
      BY <1>2, <3>2, <3>3, <3>4, <3>6, <3>7, <3>8, <3>9, Zenon DEF ListenerOK, T
    <3>11. ASSUME NEW c \in T
           PROVE  InBacklog(n, c)' \/ (listener'[n].pc = "hello" /\ listener'[n].sock = c)
                  <=> InBacklog(n, c)
      <4>1. InBacklog(n, c)' <=> \E i \in DOMAIN Tail(backlog[n]) : Tail(backlog[n])[i] = c
        BY <3>3, Zenon DEF InBacklog
      <4>2. listener'[n].pc = "hello" /\ listener'[n].sock = c <=> Head(backlog[n]) = c
        BY <3>2, Zenon
      <4>3. InBacklog(n, c) <=>
              (\E i \in DOMAIN Tail(backlog[n]) : Tail(backlog[n])[i] = c) \/ Head(backlog[n]) = c
        BY <3>4, Zenon DEF InBacklog
      <4>. QED BY <4>1, <4>2, <4>3, Zenon
    <3>. QED BY <3>1, <3>2, <3>3, <3>10, <3>11, Zenon
  <2>. QED BY <2>1, <2>2, Zenon
<1>5. Shapes'
  BY <1>1, <1>2, <1>4, Zenon DEF Shapes
<1>6. ASSUME NEW m \in Nodes PROVE NodeOK(m)'
  <2>1. EntriesOK(m)' /\ TasksOK(m)'
    BY <1>1, <1>2, EntriesFrame, TasksFrame, Zenon DEF NodeOK
  <2>2. CASE m # n
    BY <1>1, <1>2, <1>4, <2>1, <2>2, ListenerFrame, Zenon DEF NodeOK
  <2>. QED BY <1>4, <2>1, <2>2, Zenon DEF NodeOK
<1>7. ASSUME NEW a \in Nodes, NEW b \in PeersOf(a) PROVE PhaseOK(a, b)' /\ UseOK(a, b)'
  <2>1. b \in Nodes /\ a \in PeersOf(b)
    BY SockFacts, Zenon
  <2>2. Waiting(a, b)' <=> Waiting(a, b)
    <3>1. CASE b # n
      BY <1>4, <2>1, <3>1, WaitingFrame, Zenon
    <3>2. CASE b = n
      <4>1. Sock(a, n) \in T /\ listener[n].pc # "hello"
        BY <1>4, <2>1, <3>2, Zenon DEF T
      <4>. QED BY <1>4, <3>2, <4>1, Zenon DEF Waiting
    <3>. QED BY <3>1, <3>2, Zenon
  <2>3. PhaseOK(a, b)'
    BY <1>1, <1>2, <2>2, Zenon DEF PhaseOK
  <2>4. Served(a, b)' <=> Served(a, b)
    BY <1>2, <2>2, Zenon DEF Served
  <2>5. listener'[b].pc = "dedup" => listener'[b] = listener[b]
    BY <1>4, <2>1, Zenon
  <2>6. UseOK(a, b)'
    BY <1>1, <1>2, <2>4, <2>5, Zenon DEF UseOK
  <2>. QED BY <2>3, <2>6, Zenon
<1>. QED BY <1>5, <1>6, <1>7, Zenon DEF Good

\* The listener takes the Hello and answers it, before anybody can write to the socket.
LEMMA HandshakeStep ==
    ASSUME Good, NEW p \in Nodes, handle_handshake(p)
    PROVE  Good'
<1>1. /\ Shapes /\ \A m \in Nodes : NodeOK(m)
      /\ \A a \in Nodes : \A b \in PeersOf(a) : PhaseOK(a, b) /\ UseOK(a, b)
  BY Zenon DEF Good
<1>2. /\ listener[p].pc = "hello" /\ Arrived(p, listener[p].sock)
      /\ ListenAt(p, "dedup", listener[p].sock) /\ Resets({listener[p].sock})
      /\ up' = up /\ runs' = runs /\ dial' = dial /\ peer_connections' = peer_connections
      /\ readers' = readers /\ backlog' = backlog
      /\ stream' = IF Closed(p, listener[p].sock) THEN Take(p, listener[p].sock)
                   ELSE Put(Take(p, listener[p].sock), Peer(p, listener[p].sock), listener[p].sock, "Ack")
  BY Zenon DEF handle_handshake
<1>3. PICK n \in PeersOf(p) : listener[p].sock = Sock(n, p)
  BY <1>1, <1>2, Zenon DEF NodeOK, ListenerOK
<1> DEFINE c == Sock(n, p)
<1>4. n \in Nodes /\ p \in PeersOf(n) /\ n # p
  BY SockFacts, Zenon
<1>5. c \in Socks /\ Ends(c) = {n, p} /\ Peer(p, c) = n
  BY <1>4, SockFacts, Zenon
<1>6. Waiting(n, p)
  BY <1>2, <1>3, Zenon DEF Waiting
<1>7. dial[n][p] = "ack" /\ stream[c][n] = << >> /\ stream[c][p] = <<"Hello">>
  <2>1. stream[c][p] # << >>
    BY <1>2, <1>3, Zenon DEF Arrived
  <2>2. dial[n][p] \in DialPcs
    BY <1>1, <1>4, Zenon DEF NodeOK, TasksOK
  <2>. QED BY <1>1, <1>4, <1>6, <2>1, <2>2, Zenon DEF PhaseOK, DialPcs, Early
<1>8. Holds(n, c) /\ Holds(p, c) /\ runs[n] = 1
  BY <1>1, <1>4, <1>6, <1>7, DialerHolds, AcceptorHolds, Zenon
<1>9. stream' = [[stream EXCEPT ![c][p] = Tail(@)] EXCEPT ![c][n] = Append(@, "Ack")]
  <2>1. ~Closed(p, c)
    BY <1>4, <1>8, ClosedEnds, Zenon
  <2>. QED BY <1>2, <1>3, <1>5, <2>1, Zenon DEF Take, Put
<1>10. /\ DOMAIN stream' = Socks /\ \A d \in Socks : stream'[d] \in [Ends(d) -> Seq(Messages)]
       /\ stream'[c][p] = << >> /\ stream'[c][n] = <<"Ack">>
       /\ \A d \in Socks : d # c => stream'[d] = stream[d]
  <2>1. DOMAIN stream = Socks /\ \A d \in Socks : stream[d] \in [Ends(d) -> Seq(Messages)]
    BY <1>1, Zenon DEF Shapes
  <2> HIDE DEF c
  <2>2. /\ DOMAIN stream' = Socks
        /\ stream'[c] = [[stream[c] EXCEPT ![p] = Tail(@)] EXCEPT ![n] = Append(@, "Ack")]
        /\ \A d \in Socks : d # c => stream'[d] = stream[d]
    BY <1>5, <1>9, <2>1, Zenon
  <2>3. Tail(<<"Hello">>) = << >> /\ Append(<< >>, "Ack") = <<"Ack">>
        /\ << >> \in Seq(Messages) /\ <<"Ack">> \in Seq(Messages)
    BY DEF Messages
  <2>4. stream'[c] = [[stream[c] EXCEPT ![p] = << >>] EXCEPT ![n] = <<"Ack">>]
    BY <1>4, <1>5, <1>7, <2>1, <2>2, <2>3, Zenon DEF c
  <2>5. stream[c] \in [{n, p} -> Seq(Messages)]
    BY <1>5, <2>1, Zenon
  <2>6. /\ stream'[c] \in [{n, p} -> Seq(Messages)]
        /\ stream'[c][p] = << >> /\ stream'[c][n] = <<"Ack">>
    BY <1>4, <2>3, <2>4, <2>5, Zenon
  <2>7. stream'[c] \in [Ends(c) -> Seq(Messages)]
    BY <1>5, <2>6, Zenon
  <2>. QED BY <2>1, <2>2, <2>6, <2>7, Zenon
<1>11. /\ DOMAIN listener' = Nodes /\ listener'[p].pc = "dedup" /\ listener'[p].sock = c
       /\ \A m \in Nodes : m # p => listener'[m] = listener[m]
  BY <1>1, <1>2, <1>3, ListenUpdate, Zenon
<1>12. /\ ~Waiting(n, p)'
       /\ \A a \in Nodes : \A b \in PeersOf(a) : ~(a = n /\ b = p) =>
            (Waiting(a, b)' <=> Waiting(a, b))
  <2>1. ~InBacklog(p, c)
    BY <1>1, <1>3, Zenon DEF NodeOK, ListenerOK, InBacklog
  <2>2. \A m, d : InBacklog(m, d)' <=> InBacklog(m, d)
    BY <1>2, Zenon DEF InBacklog
  <2>3. ~Waiting(n, p)'
    BY <1>11, <2>1, <2>2, Zenon DEF Waiting
  <2>4. ASSUME NEW a \in Nodes, NEW b \in PeersOf(a), ~(a = n /\ b = p)
        PROVE  Waiting(a, b)' <=> Waiting(a, b)
    <3>1. b \in Nodes /\ Sock(a, b) # c
      BY <2>4, OtherSock, SockFacts
    <3> HIDE DEF c
    <3>. QED BY <1>3, <1>11, <2>2, <3>1, Zenon DEF Waiting, c
  <2>. QED BY <2>3, <2>4, Zenon
<1> HIDE DEF c
<1>13. Shapes'
  BY <1>1, <1>2, <1>10, <1>11, Zenon DEF Shapes
<1>14. ASSUME NEW m \in Nodes PROVE NodeOK(m)'
  <2>1. EntriesOK(m)' /\ TasksOK(m)'
    BY <1>1, <1>2, EntriesFrame, TasksFrame, Zenon DEF NodeOK
  <2>2. CASE m # p
    BY <1>1, <1>2, <1>11, <2>1, <2>2, ListenerFrame, Zenon DEF NodeOK
  <2>3. ListenerOK(p)'
    <3>1. /\ runs'[p] # 0 /\ listener'[p].pc \in ListenPcs /\ listener'[p].pc \in {"hello", "dedup"}
          /\ \E q \in PeersOf(p) : listener'[p].sock = Sock(q, p)
      BY <1>1, <1>2, <1>11, Zenon DEF NodeOK, ListenerOK, ListenPcs, c
    <3>2. backlog'[p] = backlog[p] /\ listener'[p].sock = listener[p].sock
      BY <1>2, <1>3, <1>11, Zenon DEF c
    <3>. QED BY <1>1, <3>1, <3>2, ZenonT(40) DEF NodeOK, ListenerOK
  <2>. QED BY <2>1, <2>2, <2>3, Zenon DEF NodeOK
<1>15. ASSUME NEW a \in Nodes, NEW b \in PeersOf(a) PROVE PhaseOK(a, b)' /\ UseOK(a, b)'
  <2>1. CASE ~(a = n /\ b = p)
    <3>1. Sock(a, b) # c /\ Sock(a, b) \in Socks
      BY <2>1, OtherSock, Zenon DEF c
    <3>2. PhaseOK(a, b)'
      <4>1. Sock(a, b) \notin {listener[p].sock}
        BY <1>3, <3>1, Zenon DEF c
      <4>. QED BY <1>1, <1>2, <1>10, <1>12, <2>1, <3>1, <4>1, PhaseKept, Zenon
    <3>3. Served(a, b)' <=> Served(a, b)
      BY <1>2, <1>12, <2>1, Zenon DEF Served
    <3>4. listener'[b].sock = Sock(a, b) => listener'[b] = listener[b]
      <4>1. b \in Nodes
        BY SockFacts, Zenon
      <4>. QED BY <1>11, <3>1, <4>1, Zenon
    <3>5. UseOK(a, b)'
      BY <1>1, <1>2, <3>3, <3>4, Zenon DEF UseOK
    <3>. QED BY <3>2, <3>5, Zenon
  <2>2. PhaseOK(n, p)'
    <3>1. c \notin reset'
      <4>1. dial[n][p] \in Early /\ dial'[n][p] \in Early /\ dial'[n][p] \notin {"off", "connect"}
        BY <1>2, <1>7, Zenon DEF Early
      <4>. QED BY <1>1, <1>2, <1>4, <1>8, <1>11, <4>1, NotReset, Zenon DEF c
    <3>2. stream'[c][n] # << >> /\ Head(stream'[c][n]) = "Ack"
      BY <1>10
    <3>3. dial'[n][p] = "ack"
      BY <1>2, <1>7, Zenon
    <3>. QED BY <1>10, <1>12, <3>1, <3>2, <3>3, Zenon DEF PhaseOK, c
  <2>3. UseOK(n, p)'
    <3>1. Served(n, p)' /\ dial'[n][p] = dial[n][p]
      BY <1>2, <1>7, <1>12, Zenon DEF Served
    <3>. QED BY <1>1, <1>2, <1>4, <3>1, Zenon DEF UseOK
  <2>. QED BY <2>1, <2>2, <2>3, Zenon
<1>. QED BY <1>13, <1>14, <1>15, Zenon DEF Good

\* While no node has crashed, a Hello comes: the dialer has its end until it is answered.
LEMMA HandshakeComes ==
    ASSUME Good, NEW p \in Nodes, HandshakeFails(p)
    PROVE  FALSE
<1>1. /\ \A m \in Nodes : NodeOK(m)
      /\ \A a \in Nodes : \A b \in PeersOf(a) : PhaseOK(a, b)
  BY Zenon DEF Good
<1>2. listener[p].pc = "hello" /\ Closed(p, listener[p].sock)
  BY Zenon DEF HandshakeFails, EndOfStream, Broken
<1>3. PICK n \in PeersOf(p) : listener[p].sock = Sock(n, p)
  BY <1>1, <1>2, Zenon DEF NodeOK, ListenerOK
<1>4. n \in Nodes /\ p \in PeersOf(n)
  BY SockFacts, Zenon
<1>5. Waiting(n, p)
  BY <1>2, <1>3, Zenon DEF Waiting
<1>6. dial[n][p] \in {"hello", "ack"}
  <2>1. dial[n][p] \in DialPcs
    BY <1>1, <1>4, Zenon DEF NodeOK, TasksOK
  <2>. QED BY <1>1, <1>4, <1>5, <2>1, Zenon DEF PhaseOK, DialPcs, Early
<1>7. Holds(n, Sock(n, p))
  BY <1>1, <1>4, <1>6, DialerHolds, Zenon
<1>. QED BY <1>2, <1>3, <1>4, <1>7, ClosedEnds, Zenon

\* The listener registers the socket, and spawns a reader on the entry of the peer.
LEMMA ListenerRegisterStep ==
    ASSUME Good, NEW p \in Nodes, ListenerRegister(p)
    PROVE  Good'
<1>1. /\ Shapes /\ \A m \in Nodes : NodeOK(m)
      /\ \A a \in Nodes : \A b \in PeersOf(a) : PhaseOK(a, b) /\ UseOK(a, b)
  BY Zenon DEF Good
<1>2. listener[p].pc = "dedup"
  BY Zenon DEF ListenerRegister
<1>3. PICK n \in PeersOf(p) : listener[p].sock = Sock(n, p)
  BY <1>1, <1>2, Zenon DEF NodeOK, ListenerOK
<1>4. /\ n \in Nodes /\ p \in PeersOf(n) /\ n # p /\ Peer(p, Sock(n, p)) = n
      /\ Sock(n, p) # Sock(p, n) /\ Sock(n, p) \in Between(p, n)
  BY SockFacts, Zenon DEF Between
<1> DEFINE e == peer_connections'[p][n]
           r == [peer |-> n, spawned_by |-> Sock(n, p), sock |-> e, pc |-> "read"]
<1>5. /\ peer_connections' = deduplicate_peer_connection(p, n, Sock(n, p))
      /\ readers' = [readers EXCEPT ![p] = @ \cup {r}]
      /\ ListenAt(p, "accept", NoSock) /\ Resets({})
      /\ up' = up /\ runs' = runs /\ dial' = dial /\ backlog' = backlog /\ stream' = stream
  BY <1>3, <1>4, Zenon DEF ListenerRegister
<1>6. /\ DOMAIN peer_connections' = Nodes /\ DOMAIN peer_connections'[p] = PeersOf(p)
      /\ e = Sock(n, p) \/ e = peer_connections[p][n]
      /\ e \in Between(p, n)
      /\ \A q \in PeersOf(p) : q # n => peer_connections'[p][q] = peer_connections[p][q]
      /\ \A m \in Nodes : m # p => peer_connections'[m] = peer_connections[m]
  BY <1>1, <1>4, <1>5, RegisterUpdate, Zenon
<1>7. r.sock = e /\ r.peer = n
  BY Zenon
<1> HIDE DEF r, e
<1>8. /\ DOMAIN readers' = Nodes /\ readers'[p] = readers[p] \cup {r}
      /\ \A m \in Nodes : m # p => readers'[m] = readers[m]
  BY <1>1, <1>5, Zenon DEF Shapes
<1>9. /\ DOMAIN listener' = Nodes /\ listener'[p].pc = "accept" /\ listener'[p].sock = NoSock
      /\ \A m \in Nodes : m # p => listener'[m] = listener[m]
  BY <1>1, <1>5, ListenUpdate, Zenon
<1>10. ASSUME NEW a \in Nodes, NEW b \in PeersOf(a) PROVE Waiting(a, b)' <=> Waiting(a, b)
  <2>1. b \in Nodes /\ (b = p => listener[b].pc # "hello" /\ listener'[b].pc # "hello")
    BY <1>2, <1>9, SockFacts, Zenon
  <2>. QED BY <1>5, <1>9, <2>1, WaitingFrame, Zenon
<1>11. Served(n, p)
  BY <1>1, <1>2, <1>3, <1>4, Zenon DEF UseOK
<1>12. e = Sock(p, n) => peer_connections[p][n] = Sock(p, n) /\ dial[p][n] = "done"
  <2>1. peer_connections[p][n] = Sock(p, n) => dial[p][n] = "done"
    BY <1>1, Zenon DEF UseOK
  <2>2. e = Sock(p, n) => e = peer_connections[p][n]
    BY <1>4, <1>6, Zenon
  <2>. QED BY <2>1, <2>2, Zenon
<1>13. Shapes'
  BY <1>1, <1>5, <1>6, <1>8, <1>9, Zenon DEF Shapes
<1>14. ASSUME NEW m \in Nodes PROVE NodeOK(m)'
  <2>1. TasksOK(m)'
    BY <1>1, <1>5, TasksFrame, Zenon DEF NodeOK
  <2>2. CASE m # p
    BY <1>1, <1>5, <1>6, <1>8, <1>9, <2>1, <2>2, ListenerFrame, EntriesFrame, Zenon DEF NodeOK
  <2>3. ListenerOK(p)'
    <3>1. /\ runs'[p] # 0 /\ listener'[p].pc \in ListenPcs /\ listener'[p].pc \notin {"hello", "dedup"}
      BY <1>1, <1>2, <1>5, <1>9, Zenon DEF NodeOK, ListenerOK, ListenPcs
    <3>2. \A i \in DOMAIN backlog[p] : backlog[p][i] # NoSock
      <4>1. backlog[p] \in Seq({Sock(q, p) : q \in PeersOf(p)})
        BY <1>1, Zenon DEF NodeOK, ListenerOK
      <4>2. \A q \in PeersOf(p) : Sock(q, p) # NoSock
        BY SockFacts, ZenonT(40)
      <4>3. \A i \in DOMAIN backlog[p] : backlog[p][i] \in {Sock(q, p) : q \in PeersOf(p)}
        BY <4>1
      <4>. QED BY <4>2, <4>3, Zenon
    <3>. QED BY <1>1, <1>5, <1>9, <3>1, <3>2, ZenonT(40) DEF NodeOK, ListenerOK
  <2>4. EntriesOK(p)'
    <3>1. DOMAIN peer_connections'[p] = PeersOf(p)
      BY <1>6, Zenon
    <3>2. ASSUME NEW q \in PeersOf(p)
          PROVE  peer_connections'[p][q] \in Between(p, q) \cup {NoSock}
      <4>1. CASE q = n
        BY <1>6, <4>1, Zenon DEF e
      <4>2. CASE q # n
        BY <1>1, <1>6, <4>2, Zenon DEF NodeOK, EntriesOK
      <4>. QED BY <4>1, <4>2, Zenon
    <3>3. ASSUME NEW x \in readers'[p]
          PROVE  x.peer \in PeersOf(p) /\ x.sock \in Between(p, x.peer)
      <4>1. CASE x \in readers[p]
        BY <1>1, <4>1, Zenon DEF NodeOK, EntriesOK
      <4>2. CASE x = r
        BY <1>6, <1>7, <4>2, Zenon
      <4>. QED BY <1>8, <4>1, <4>2, Zenon
    <3>. QED BY <3>1, <3>2, <3>3, Zenon DEF EntriesOK
  <2>. QED BY <2>1, <2>2, <2>3, <2>4, Zenon DEF NodeOK
<1>15. ASSUME NEW a \in Nodes, NEW b \in PeersOf(a) PROVE PhaseOK(a, b)' /\ UseOK(a, b)'
  <2>1. b \in Nodes /\ a # b /\ a \in PeersOf(b)
    BY SockFacts, Zenon
  <2>2. PhaseOK(a, b)'
    BY <1>1, <1>5, <1>10, PhaseKept, Zenon
  <2>3. Served(a, b)' <=> Served(a, b)
    BY <1>5, <1>10, Zenon DEF Served
  <2>4. listener'[b].pc = "dedup" /\ listener'[b].sock = Sock(a, b) => Served(a, b)'
    <3>1. CASE b = p
      BY <1>9, <3>1, Zenon
    <3>2. CASE b # p
      <4>1. listener[b].pc = "dedup" /\ listener[b].sock = Sock(a, b) => Served(a, b)
        BY <1>1, Zenon DEF UseOK
      <4>2. listener'[b] = listener[b]
        BY <1>9, <2>1, <3>2, Zenon
      <4>. QED BY <2>3, <4>1, <4>2, Zenon
    <3>. QED BY <3>1, <3>2, Zenon
  <2>5. e = Sock(a, b) => (a = p /\ b = n /\ dial[a][b] = "done" /\ peer_connections[a][b] = Sock(a, b))
                            \/ (a = n /\ b = p /\ Served(a, b))
    <3>1. CASE e = Sock(p, n)
      <4>1. e = Sock(a, b) => a = p /\ b = n
        BY <3>1, SameSock, Zenon
      <4>. QED BY <1>12, <3>1, <4>1, Zenon
    <3>2. CASE e = Sock(n, p)
      <4>1. e = Sock(a, b) => a = n /\ b = p
        BY <3>2, SameSock, Zenon
      <4>. QED BY <1>11, <4>1, Zenon
    <3>. QED BY <1>6, <3>1, <3>2, Zenon DEF Between
  <2>6. peer_connections'[a][b] = Sock(a, b) =>
          peer_connections[a][b] = Sock(a, b) \/ dial'[a][b] = "done"
    <3>1. CASE a = p /\ b = n
      BY <1>4, <2>5, <3>1, Zenon DEF e
    <3>2. CASE ~(a = p /\ b = n)
      BY <1>6, <3>2, Zenon
    <3>. QED BY <3>1, <3>2, Zenon
  <2>7. peer_connections'[b][a] = Sock(a, b) =>
          peer_connections[b][a] = Sock(a, b) \/ Served(a, b)'
    <3>1. CASE b = p /\ a = n
      BY <1>11, <2>3, <3>1, Zenon
    <3>2. CASE ~(b = p /\ a = n)
      BY <1>6, <2>1, <3>2, Zenon
    <3>. QED BY <3>1, <3>2, Zenon
  <2>8. \A x \in readers'[a] : x.sock = Sock(a, b) =>
          (\E q \in readers[a] : q.sock = Sock(a, b)) \/ dial'[a][b] = "done"
    <3>1. ASSUME NEW x \in readers'[a], x.sock = Sock(a, b), x \notin readers[a]
          PROVE  dial'[a][b] = "done"
      <4>1. a = p /\ x = r
        BY <1>8, <3>1, Zenon
      <4>. QED BY <1>4, <1>5, <1>7, <2>5, <3>1, <4>1, Zenon
    <3>. QED BY <3>1, Zenon
  <2>9. \A x \in readers'[b] : x.sock = Sock(a, b) =>
          (\E q \in readers[b] : q.sock = Sock(a, b)) \/ Served(a, b)'
    <3>1. ASSUME NEW x \in readers'[b], x.sock = Sock(a, b), x \notin readers[b]
          PROVE  Served(a, b)'
      <4>1. b = p /\ x = r
        BY <1>8, <2>1, <3>1, Zenon
      <4>. QED BY <1>4, <1>7, <2>3, <2>5, <3>1, <4>1, Zenon
    <3>. QED BY <3>1, Zenon
  <2>10. UseOK(a, b)'
    BY <1>1, <1>5, <2>3, <2>4, <2>6, <2>7, <2>8, <2>9, UseFrame, Zenon
  <2>. QED BY <2>2, <2>10, Zenon
<1>. QED BY <1>13, <1>14, <1>15, Zenon DEF Good

\* Entries and readers that a step takes away, or leaves as they are.
LEMMA UsesEnd ==
    ASSUME Good, up' = up, runs' = runs, dial' = dial, listener' = listener, backlog' = backlog,
           \A m \in Nodes :
             /\ DOMAIN peer_connections'[m] = PeersOf(m)
             /\ \A q \in PeersOf(m) : peer_connections'[m][q] \in {peer_connections[m][q], NoSock}
             /\ \A x \in readers'[m] : \E y \in readers[m] : x.peer = y.peer /\ x.sock = y.sock
    PROVE  /\ \A m \in Nodes : NodeOK(m)'
           /\ \A a \in Nodes : \A b \in PeersOf(a) :
                UseOK(a, b)' /\ (Waiting(a, b)' <=> Waiting(a, b))
<1>1. /\ \A m \in Nodes : NodeOK(m)
      /\ \A a \in Nodes : \A b \in PeersOf(a) : UseOK(a, b)
  BY Zenon DEF Good
<1>2. ASSUME NEW m \in Nodes PROVE NodeOK(m)'
  <2>1. TasksOK(m)' /\ ListenerOK(m)'
    BY <1>1, TasksFrame, ListenerFrame, Zenon DEF NodeOK
  <2>2. EntriesOK(m)
    BY <1>1, Zenon DEF NodeOK
  <2>3. ASSUME NEW q \in PeersOf(m)
        PROVE  peer_connections'[m][q] \in Between(m, q) \cup {NoSock}
    BY <2>2, Zenon DEF EntriesOK
  <2>4. ASSUME NEW x \in readers'[m]
        PROVE  x.peer \in PeersOf(m) /\ x.sock \in Between(m, x.peer)
    BY <2>2, Zenon DEF EntriesOK
  <2>5. EntriesOK(m)'
    BY <2>3, <2>4, Zenon DEF EntriesOK
  <2>. QED BY <2>1, <2>5, Zenon DEF NodeOK
<1>3. ASSUME NEW a \in Nodes, NEW b \in PeersOf(a)
      PROVE  UseOK(a, b)' /\ (Waiting(a, b)' <=> Waiting(a, b))
  <2>1. Waiting(a, b)' <=> Waiting(a, b)
    BY WaitingFrame, Zenon
  <2>2. Served(a, b)' <=> Served(a, b)
    BY <2>1, Zenon DEF Served
  <2>3. b \in Nodes /\ a \in PeersOf(b) /\ Sock(a, b) # NoSock
    BY SockFacts
  <2>4. /\ peer_connections'[a][b] = Sock(a, b) => peer_connections[a][b] = Sock(a, b)
        /\ peer_connections'[b][a] = Sock(a, b) => peer_connections[b][a] = Sock(a, b)
    <3>1. peer_connections'[a][b] \in {peer_connections[a][b], NoSock}
      BY Zenon
    <3>2. peer_connections'[b][a] \in {peer_connections[b][a], NoSock}
      BY <2>3, Zenon
    <3>. QED BY <2>3, <3>1, <3>2, Zenon
  <2>5. listener'[b].pc = "dedup" /\ listener'[b].sock = Sock(a, b) => Served(a, b)'
    BY <1>1, <2>2, Zenon DEF UseOK
  <2>6. \A x \in readers'[a] : x.sock = Sock(a, b) => \E q \in readers[a] : q.sock = Sock(a, b)
    BY ZenonT(40)
  <2>7. \A x \in readers'[b] : x.sock = Sock(a, b) => \E q \in readers[b] : q.sock = Sock(a, b)
    BY <2>3, ZenonT(40)
  <2>8. UseOK(a, b)'
    BY <1>1, <2>2, <2>4, <2>5, <2>6, <2>7, UseFrame, Zenon
  <2>. QED BY <2>1, <2>8, Zenon
<1>. QED BY <1>2, <1>3, Zenon

\* A reader moves, on the socket it has.
LEMMA ReaderUpdate ==
    ASSUME Shapes, NEW n \in Nodes, NEW r \in readers[n], NEW pc, ReaderAt(n, r, pc)
    PROVE  /\ DOMAIN readers' = Nodes
           /\ \A m \in Nodes : \A x \in readers'[m] :
                \E y \in readers[m] : x.peer = y.peer /\ x.sock = y.sock
<1> DEFINE new == [peer |-> r.peer, spawned_by |-> r.spawned_by, sock |-> r.sock, pc |-> pc]
<1>1. new.peer = r.peer /\ new.sock = r.sock
  BY Zenon
<1> HIDE DEF new
<1>2. DOMAIN readers = Nodes
  BY Zenon DEF Shapes
<1>3. readers' = [readers EXCEPT ![n] = (@ \ {r}) \cup {new}]
  BY Zenon DEF ReaderAt, new
<1>4. /\ DOMAIN readers' = Nodes /\ readers'[n] = (readers[n] \ {r}) \cup {new}
      /\ \A m \in Nodes : m # n => readers'[m] = readers[m]
  BY <1>2, <1>3, Zenon
<1>5. ASSUME NEW m \in Nodes, NEW x \in readers'[m]
      PROVE  \E y \in readers[m] : x.peer = y.peer /\ x.sock = y.sock
  <2>1. CASE m # n
    BY <1>4, <1>5, <2>1, Zenon
  <2>2. CASE m = n /\ x = new
    BY <1>1, <2>2, Zenon
  <2>3. CASE m = n /\ x # new
    BY <1>4, <1>5, <2>3, Zenon
  <2>. QED BY <2>1, <2>2, <2>3, Zenon
<1>. QED BY <1>4, <1>5, Zenon

\* A reader takes a message only from a socket whose handshake is over: one that the
\* listener still answers has nothing on the way to the acceptor.
LEMMA ReadTakes ==
    ASSUME Good, NEW n \in Nodes, NEW r \in readers[n], Read(n, r)
    PROVE  Good'
<1>1. /\ Shapes /\ \A m \in Nodes : NodeOK(m)
      /\ \A a \in Nodes : \A b \in PeersOf(a) : PhaseOK(a, b) /\ UseOK(a, b)
  BY Zenon DEF Good
<1> DEFINE p == r.peer
           c == r.sock
<1>2. /\ Arrived(n, c) /\ stream' = Take(n, c)
      /\ up' = up /\ runs' = runs /\ dial' = dial /\ listener' = listener /\ readers' = readers
      /\ backlog' = backlog /\ peer_connections' = peer_connections /\ reset' = reset
  BY Zenon DEF Read, tasks
<1>3. p \in PeersOf(n) /\ (c = Sock(n, p) \/ c = Sock(p, n))
  BY <1>1, Zenon DEF NodeOK, EntriesOK, Between
<1>4. p \in Nodes /\ n \in PeersOf(p)
  BY <1>3, SockFacts, Zenon
<1>5. PICK x \in Nodes, y \in Nodes :
        /\ y \in PeersOf(x) /\ c = Sock(x, y) /\ n \in {x, y}
        /\ dial[x][y] \notin Early /\ ~Waiting(x, y)
  <2>1. CASE c = Sock(n, p)
    <3>1. dial[n][p] = "done"
      BY <1>1, <1>3, <2>1, Zenon DEF UseOK
    <3>2. ~Waiting(n, p)
      BY <1>1, <1>3, <3>1, Zenon DEF PhaseOK
    <3>3. dial[n][p] \notin Early
      BY <3>1, Zenon DEF Early
    <3>. QED BY <1>3, <1>4, <2>1, <3>2, <3>3, Zenon
  <2>2. CASE c = Sock(p, n)
    <3>1. Served(p, n)
      BY <1>1, <1>4, <2>2, Zenon DEF UseOK
    <3>2. dial[p][n] # "ack"
      <4>1. stream[Sock(p, n)][n] # << >>
        BY <1>2, <2>2, Zenon DEF Arrived
      <4>. QED BY <1>1, <1>4, <3>1, <4>1, Zenon DEF PhaseOK, Served
    <3>3. dial[p][n] \notin Early /\ ~Waiting(p, n)
      BY <3>1, <3>2, Zenon DEF Served, Early
    <3>. QED BY <1>4, <2>2, <3>3, Zenon
  <2>. QED BY <1>3, <2>1, <2>2, Zenon
<1>6. c \in Socks /\ Ends(c) = {x, y}
  BY <1>5, SockFacts
<1>7. /\ DOMAIN stream' = Socks /\ \A d \in Socks : stream'[d] \in [Ends(d) -> Seq(Messages)]
      /\ \A d \in Socks : d # c => stream'[d] = stream[d]
  <2>1. n \in Ends(c)
    BY <1>5, <1>6, Zenon
  <2>. QED BY <1>1, <1>2, <1>6, <2>1, TakeUpdate, Zenon
<1> HIDE DEF c, p
<1>8. /\ DOMAIN readers' = Nodes
      /\ \A m \in Nodes : \A q \in readers'[m] :
           \E o \in readers[m] : q.peer = o.peer /\ q.sock = o.sock
  BY <1>1, <1>2, Zenon DEF Shapes
<1>9. /\ \A m \in Nodes : NodeOK(m)'
      /\ \A a \in Nodes : \A b \in PeersOf(a) :
           UseOK(a, b)' /\ (Waiting(a, b)' <=> Waiting(a, b))
  <2>1. ASSUME NEW m \in Nodes
        PROVE  /\ DOMAIN peer_connections'[m] = PeersOf(m)
               /\ \A q \in PeersOf(m) : peer_connections'[m][q] \in {peer_connections[m][q], NoSock}
    BY <1>1, <1>2, Zenon DEF NodeOK, EntriesOK
  <2>. QED BY <1>2, <1>8, <2>1, UsesEnd, Zenon
<1>10. Shapes'
  BY <1>1, <1>2, <1>7, <1>8, Zenon DEF Shapes
<1>11. ASSUME NEW a \in Nodes, NEW b \in PeersOf(a) PROVE PhaseOK(a, b)'
  <2>1. CASE ~(a = x /\ b = y)
    <3>1. Sock(a, b) # c /\ Sock(a, b) \in Socks
      BY <1>5, <2>1, OtherSock, Zenon
    <3>2. dial[a][b] \in Early => Sock(a, b) \notin reset'
      BY <1>1, <1>2, Zenon DEF PhaseOK
    <3>. QED BY <1>1, <1>2, <1>7, <1>9, <3>1, <3>2, PhaseFrame, Zenon
  <2>2. PhaseOK(x, y)'
    <3>1. ~Waiting(x, y)' /\ dial'[x][y] \notin Early
      BY <1>2, <1>5, <1>9, Zenon
    <3>. QED BY <3>1, Zenon DEF PhaseOK, Early
  <2>. QED BY <2>1, <2>2, Zenon
<1>. QED BY <1>9, <1>10, <1>11, Zenon DEF Good

\* A reader whose socket has ended.
LEMMA ReadFailsStep ==
    ASSUME Good, NEW n \in Nodes, NEW r \in readers[n], ReadFails(n, r)
    PROVE  Good'
<1>1. /\ Shapes /\ \A m \in Nodes : NodeOK(m)
      /\ \A a \in Nodes : \A b \in PeersOf(a) : PhaseOK(a, b) /\ UseOK(a, b)
  BY Zenon DEF Good
<1>2. /\ ReaderAt(n, r, "drop") /\ stream' = stream
      /\ up' = up /\ runs' = runs /\ dial' = dial /\ listener' = listener
      /\ backlog' = backlog /\ peer_connections' = peer_connections /\ reset' = reset
  BY Zenon DEF ReadFails
<1>3. /\ DOMAIN readers' = Nodes
      /\ \A m \in Nodes : \A q \in readers'[m] :
           \E o \in readers[m] : q.peer = o.peer /\ q.sock = o.sock
  BY <1>1, <1>2, ReaderUpdate, Zenon
<1>4. /\ \A m \in Nodes : NodeOK(m)'
      /\ \A a \in Nodes : \A b \in PeersOf(a) :
           UseOK(a, b)' /\ (Waiting(a, b)' <=> Waiting(a, b))
  <2>1. ASSUME NEW m \in Nodes
        PROVE  /\ DOMAIN peer_connections'[m] = PeersOf(m)
               /\ \A q \in PeersOf(m) : peer_connections'[m][q] \in {peer_connections[m][q], NoSock}
    BY <1>1, <1>2, Zenon DEF NodeOK, EntriesOK
  <2>. QED BY <1>2, <1>3, <2>1, UsesEnd, Zenon
<1>5. Shapes'
  BY <1>1, <1>2, <1>3, Zenon DEF Shapes
<1>6. ASSUME NEW a \in Nodes, NEW b \in PeersOf(a) PROVE PhaseOK(a, b)'
  <2>1. dial[a][b] \in Early => Sock(a, b) \notin reset'
    BY <1>1, <1>2, Zenon DEF PhaseOK
  <2>. QED BY <1>1, <1>2, <1>4, <2>1, PhaseFrame, Zenon
<1>. QED BY <1>4, <1>5, <1>6, Zenon DEF Good

\* A reader ends, and removes the entry of its peer.
LEMMA DropStep ==
    ASSUME Good, NEW n \in Nodes, NEW r \in readers[n], drop_peer_socket(n, r)
    PROVE  Good'
<1>1. /\ Shapes /\ \A m \in Nodes : NodeOK(m)
      /\ \A a \in Nodes : \A b \in PeersOf(a) : PhaseOK(a, b) /\ UseOK(a, b)
  BY Zenon DEF Good
<1>2. /\ peer_connections' = [peer_connections EXCEPT ![n][r.peer] = NoSock]
      /\ readers' = [readers EXCEPT ![n] = @ \ {r}]
      /\ stream' = stream /\ Resets({})
      /\ up' = up /\ runs' = runs /\ dial' = dial /\ listener' = listener /\ backlog' = backlog
  BY Zenon DEF drop_peer_socket
<1>3. /\ DOMAIN readers' = Nodes
      /\ \A m \in Nodes : readers'[m] \subseteq readers[m]
  <2>1. DOMAIN readers = Nodes
    BY <1>1, Zenon DEF Shapes
  <2>. QED BY <1>2, <2>1, Zenon
<1>4. /\ DOMAIN peer_connections' = Nodes
      /\ \A m \in Nodes :
           /\ DOMAIN peer_connections'[m] = PeersOf(m)
           /\ \A q \in PeersOf(m) : peer_connections'[m][q] \in {peer_connections[m][q], NoSock}
  <2>1. DOMAIN peer_connections = Nodes /\ \A m \in Nodes : DOMAIN peer_connections[m] = PeersOf(m)
    BY <1>1, Zenon DEF Shapes, NodeOK, EntriesOK
  <2>. QED BY <1>2, <2>1, Zenon
<1>5. /\ \A m \in Nodes : NodeOK(m)'
      /\ \A a \in Nodes : \A b \in PeersOf(a) :
           UseOK(a, b)' /\ (Waiting(a, b)' <=> Waiting(a, b))
  <2>1. \A m \in Nodes : \A q \in readers'[m] :
          \E o \in readers[m] : q.peer = o.peer /\ q.sock = o.sock
    BY <1>3, Zenon
  <2>. QED BY <1>2, <1>4, <2>1, UsesEnd, Zenon
<1>6. Shapes'
  BY <1>1, <1>2, <1>3, <1>4, Zenon DEF Shapes
<1>7. ASSUME NEW a \in Nodes, NEW b \in PeersOf(a) PROVE PhaseOK(a, b)'
  BY <1>1, <1>2, <1>5, PhaseKept, Zenon
<1>. QED BY <1>5, <1>6, <1>7, Zenon DEF Good

\* The replica writes to a socket that its node dialed once the handshake is over, and
\* to one it serves behind the answer.
LEMMA SendStep ==
    ASSUME Good, NEW n \in Nodes, NEW p \in PeersOf(n), send_to_peer(n, p)
    PROVE  Good'
<1>1. /\ Shapes /\ \A m \in Nodes : NodeOK(m)
      /\ \A a \in Nodes : \A b \in PeersOf(a) : PhaseOK(a, b) /\ UseOK(a, b)
  BY Zenon DEF Good
<1> DEFINE c == peer_connections[n][p]
<1>2. /\ c # NoSock /\ Sent(n, c, "HotStuff") /\ Resets({c})
      /\ up' = up /\ runs' = runs /\ dial' = dial /\ listener' = listener /\ backlog' = backlog
      /\ peer_connections' = peer_connections /\ readers' = readers
  BY Zenon DEF send_to_peer, tasks
<1>3. c = Sock(n, p) \/ c = Sock(p, n)
  BY <1>1, <1>2, Zenon DEF NodeOK, EntriesOK, Between
<1>4. /\ p \in Nodes /\ n \in PeersOf(p) /\ n # p
      /\ c \in Socks /\ Ends(c) = {n, p} /\ Peer(n, c) = p
  BY <1>3, SockFacts
<1> HIDE DEF c
<1>5. /\ DOMAIN stream' = Socks /\ \A d \in Socks : stream'[d] \in [Ends(d) -> Seq(Messages)]
      /\ \A d \in Socks : d # c => stream'[d] = stream[d]
      /\ stream'[c][n] = stream[c][n]
      /\ stream'[c][p] = stream[c][p] \/ stream'[c][p] = Append(stream[c][p], "HotStuff")
  <2>1. CASE Closed(n, c)
    <3>1. stream' = stream
      BY <1>2, <2>1, Zenon DEF Sent
    <3>. QED BY <1>1, <3>1, Zenon DEF Shapes
  <2>2. CASE ~Closed(n, c)
    <3>1. stream' = Put(stream, p, c, "HotStuff")
      BY <1>2, <1>4, <2>2, Zenon DEF Sent
    <3>2. p \in Ends(c) /\ n \in Ends(c) /\ "HotStuff" \in Messages
      BY <1>4, Zenon DEF Messages
    <3>3. /\ DOMAIN stream' = Socks /\ \A d \in Socks : stream'[d] \in [Ends(d) -> Seq(Messages)]
          /\ stream'[c][p] = Append(stream[c][p], "HotStuff")
          /\ \A o \in Ends(c) : o # p => stream'[c][o] = stream[c][o]
          /\ \A d \in Socks : d # c => stream'[d] = stream[d]
      BY <1>1, <1>4, <3>1, <3>2, PutUpdate, Zenon
    <3>. QED BY <1>4, <3>2, <3>3, Zenon
  <2>. QED BY <2>1, <2>2, Zenon
<1>6. /\ \A m \in Nodes : NodeOK(m)'
      /\ \A a \in Nodes : \A b \in PeersOf(a) :
           UseOK(a, b)' /\ (Waiting(a, b)' <=> Waiting(a, b))
  <2>1. ASSUME NEW m \in Nodes
        PROVE  /\ DOMAIN peer_connections'[m] = PeersOf(m)
               /\ \A q \in PeersOf(m) : peer_connections'[m][q] \in {peer_connections[m][q], NoSock}
               /\ \A q \in readers'[m] : \E o \in readers[m] : q.peer = o.peer /\ q.sock = o.sock
    BY <1>1, <1>2, Zenon DEF NodeOK, EntriesOK
  <2>. QED BY <1>2, <2>1, UsesEnd, Zenon
<1>7. Shapes'
  BY <1>1, <1>2, <1>5, Zenon DEF Shapes
<1>8. ASSUME NEW a \in Nodes, NEW b \in PeersOf(a) PROVE PhaseOK(a, b)'
  <2>1. CASE Sock(a, b) # c
    <3>1. Sock(a, b) \in Socks /\ Sock(a, b) \notin {c}
      BY <2>1, SockFacts, Zenon
    <3>. QED BY <1>1, <1>2, <1>5, <1>6, <2>1, <3>1, PhaseKept, Zenon
  <2>2. CASE Sock(a, b) = c /\ dial[a][b] \notin Early
    <3>1. ~Waiting(a, b)
      <4>1. dial[a][b] \in {"dedup", "done"}
        BY <1>1, <2>2, ZenonT(40) DEF NodeOK, TasksOK, DialPcs
      <4>. QED BY <1>1, <4>1, Zenon DEF PhaseOK
    <3>2. ~Waiting(a, b)' /\ dial'[a][b] \notin Early
      BY <1>2, <1>6, <2>2, <3>1, Zenon
    <3>. QED BY <3>2, Zenon DEF PhaseOK, Early
  <2>3. CASE Sock(a, b) = c /\ dial[a][b] \in Early
    <3>1. a = p /\ b = n
      <4>1. ~(a = n /\ b = p)
        <5>1. c = Sock(n, p) => dial[n][p] = "done"
          BY <1>1, Zenon DEF UseOK, c
        <5>. QED BY <2>3, <5>1, Zenon DEF Early
      <4>. QED BY <1>3, <2>3, <4>1, SameSock
    <3>2. c = Sock(p, n)
      BY <2>3, <3>1, Zenon
    <3>3. Served(p, n)
      BY <1>1, <1>4, <3>2, Zenon DEF UseOK, c
    <3>4. dial[p][n] = "ack" /\ ~Waiting(p, n)
      BY <2>3, <3>1, <3>3, Zenon DEF Served, Early
    <3>5. stream[c][n] = << >> /\ stream[c][p] # << >> /\ Head(stream[c][p]) = "Ack"
      <4>1. PhaseOK(p, n)
        BY <1>1, <1>4, Zenon
      <4>2. /\ stream[Sock(p, n)][n] = << >> /\ stream[Sock(p, n)][p] # << >>
            /\ Head(stream[Sock(p, n)][p]) = "Ack"
        BY <3>4, <4>1, Zenon DEF PhaseOK
      <4>. QED BY <3>2, <4>2, Zenon
    <3>6. stream'[c][p] # << >> /\ Head(stream'[c][p]) = "Ack"
      <4>1. stream[c][p] \in Seq(Messages)
        BY <1>1, <1>4, Zenon DEF Shapes
      <4>. QED BY <1>5, <3>5, <4>1
    <3>7. c \notin reset'
      <4>1. Holds(p, c) /\ runs[p] = 1
        BY <1>1, <1>4, <3>2, <3>4, DialerHolds
      <4>2. Holds(n, c)
        BY <1>4, Zenon DEF Holds, c
      <4>3. dial[p][n] \in Early /\ dial'[p][n] \in Early /\ dial'[p][n] \notin {"off", "connect"}
        BY <1>2, <3>4, Zenon DEF Early
      <4>4. Holds(p, Sock(p, n)) /\ Holds(n, Sock(p, n)) /\ PhaseOK(p, n) /\ runs'[p] = 1
        BY <1>1, <1>2, <1>4, <3>2, <4>1, <4>2, Zenon
      <4>5. Sock(p, n) \notin reset'
        BY <1>2, <1>4, <3>4, <4>3, <4>4, NotReset, Zenon
      <4>. QED BY <3>2, <4>5, Zenon
    <3>8. dial'[p][n] = "ack" /\ ~Waiting(p, n)' /\ stream'[c][n] = << >>
      BY <1>2, <1>4, <1>5, <1>6, <3>4, <3>5, Zenon
    <3>. QED BY <3>1, <3>2, <3>6, <3>7, <3>8, Zenon DEF PhaseOK
  <2>. QED BY <2>1, <2>2, <2>3, Zenon
<1>. QED BY <1>6, <1>7, <1>8, Zenon DEF Good

\* A step that changes nothing that the invariant is about.
LEMMA GoodFrame ==
    ASSUME Good, up' = up, runs' = runs, tasks' = tasks, stream' = stream, reset' = reset
    PROVE  Good'
<1>1. /\ dial' = dial /\ listener' = listener /\ backlog' = backlog
      /\ peer_connections' = peer_connections /\ readers' = readers
  BY Zenon DEF tasks
<1>2. /\ Shapes /\ \A m \in Nodes : NodeOK(m)
      /\ \A a \in Nodes : \A b \in PeersOf(a) : PhaseOK(a, b) /\ UseOK(a, b)
  BY Zenon DEF Good
<1>3. Shapes'
  BY <1>1, <1>2, Zenon DEF Shapes
<1>4. ASSUME NEW m \in Nodes
      PROVE  /\ DOMAIN peer_connections'[m] = PeersOf(m)
             /\ \A q \in PeersOf(m) : peer_connections'[m][q] \in {peer_connections[m][q], NoSock}
             /\ \A q \in readers'[m] : \E o \in readers[m] : q.peer = o.peer /\ q.sock = o.sock
  BY <1>1, <1>2, Zenon DEF NodeOK, EntriesOK
<1>5. /\ \A m \in Nodes : NodeOK(m)'
      /\ \A a \in Nodes : \A b \in PeersOf(a) :
           UseOK(a, b)' /\ (Waiting(a, b)' <=> Waiting(a, b))
  BY <1>1, <1>4, UsesEnd, Zenon
<1>6. ASSUME NEW a \in Nodes, NEW b \in PeersOf(a) PROVE PhaseOK(a, b)'
  <2>1. dial[a][b] \in Early => Sock(a, b) \notin reset'
    BY <1>2, Zenon DEF PhaseOK
  <2>. QED BY <1>1, <1>2, <1>5, <2>1, PhaseFrame, Zenon
<1>. QED BY <1>3, <1>5, <1>6, Zenon DEF Good

-----------------------------------------------------------------------------
(* Theorems                                                                *)

\* No node runs at first.
LEMMA InitGood ==
    ASSUME Init
    PROVE  IInv
<1>1. /\ up = [n \in Nodes |-> FALSE] /\ runs = [n \in Nodes |-> 0] /\ crashes = 0
      /\ dial = [n \in Nodes |-> [p \in PeersOf(n) |-> "off"]]
      /\ listener = [n \in Nodes |-> [pc |-> "off", sock |-> NoSock]]
      /\ backlog = [n \in Nodes |-> << >>]
      /\ peer_connections = [n \in Nodes |-> [p \in PeersOf(n) |-> NoSock]]
      /\ readers = [n \in Nodes |-> {}]
      /\ stream = [c \in Socks |-> [n \in Ends(c) |-> << >>]] /\ reset = {}
  BY Zenon DEF Init
<1>2. \A n \in Nodes :
        /\ up[n] = FALSE /\ runs[n] = 0 /\ dial[n] = [p \in PeersOf(n) |-> "off"]
        /\ listener[n].pc = "off" /\ listener[n].sock = NoSock
        /\ backlog[n] = << >> /\ DOMAIN backlog[n] = {}
        /\ peer_connections[n] = [p \in PeersOf(n) |-> NoSock] /\ readers[n] = {}
  BY <1>1
<1>3. Shapes
  <2>1. \A c \in Socks : stream[c] \in [Ends(c) -> Seq(Messages)]
    BY <1>1
  <2>. QED BY <1>1, <2>1, Zenon DEF Shapes
<1>4. ASSUME NEW n \in Nodes PROVE NodeOK(n)
  <2>1. TasksOK(n)
    <3>1. up[n] = FALSE /\ runs[n] = 0 /\ dial[n] = [p \in PeersOf(n) |-> "off"]
      BY <1>2, Zenon
    <3>2. dial[n] \in [PeersOf(n) -> DialPcs] /\ \A p \in PeersOf(n) : dial[n][p] = "off"
      BY <3>1, Zenon DEF DialPcs, Early
    <3>3. (up[n] <=> runs[n] = 1) /\ runs[n] \in {0, 1}
      BY <3>1
    <3>. QED BY <3>2, <3>3, Zenon DEF TasksOK
  <2>2. ListenerOK(n)
    <3>1. listener[n].pc \in ListenPcs /\ listener[n].pc \notin {"hello", "dedup"}
      BY <1>2, Zenon DEF ListenPcs
    <3>2. backlog[n] \in Seq({Sock(p, n) : p \in PeersOf(n)})
      <4>1. backlog[n] = << >>
        BY <1>2, Zenon
      <4>. QED BY <4>1
    <3>. QED BY <1>2, <3>1, <3>2, Zenon DEF ListenerOK
  <2>3. EntriesOK(n)
    BY <1>2, Zenon DEF EntriesOK
  <2>. QED BY <2>1, <2>2, <2>3, Zenon DEF NodeOK
<1>5. ASSUME NEW n \in Nodes, NEW p \in PeersOf(n) PROVE PhaseOK(n, p) /\ UseOK(n, p)
  <2>1. /\ p \in Nodes /\ n \in PeersOf(p) /\ Sock(n, p) \in Socks /\ Sock(n, p) # NoSock
        /\ Ends(Sock(n, p)) = {n, p}
    BY SockFacts, ZenonT(40)
  <2>2. stream[Sock(n, p)][n] = << >> /\ stream[Sock(n, p)][p] = << >> /\ Sock(n, p) \notin reset
    BY <1>1, <2>1, Zenon
  <2>3. dial[n][p] = "off" /\ ~Waiting(n, p)
    <3>1. dial[n] = [q \in PeersOf(n) |-> "off"]
      BY <1>2, Zenon
    <3>2. DOMAIN backlog[p] = {} /\ listener[p].pc = "off"
      BY <1>2, <2>1, Zenon
    <3>. QED BY <3>1, <3>2, Zenon DEF Waiting, InBacklog
  <2>4. PhaseOK(n, p)
    BY <2>2, <2>3, Zenon DEF PhaseOK
  <2>5. /\ listener[p].pc # "dedup" /\ peer_connections[n][p] # Sock(n, p)
        /\ peer_connections[p][n] # Sock(n, p) /\ readers[n] = {} /\ readers[p] = {}
    <3>1. /\ listener[p].pc = "off" /\ readers[n] = {} /\ readers[p] = {}
          /\ peer_connections[n] = [q \in PeersOf(n) |-> NoSock]
          /\ peer_connections[p] = [q \in PeersOf(p) |-> NoSock]
      BY <1>2, <2>1, Zenon
    <3>. QED BY <2>1, <3>1
  <2>. QED BY <2>4, <2>5, Zenon DEF UseOK
<1>6. crashes \in Nat
  BY <1>1, Zenon
<1>. QED BY <1>3, <1>4, <1>5, <1>6, Zenon DEF IInv, Good

\* Every step of the nodes keeps the invariant, as long as none has crashed.
LEMMA NextGood ==
    ASSUME IInv, [Next]_vars
    PROVE  IInv'
<1>1. ASSUME NEW n \in Nodes, Crash(n) PROVE IInv'
  <2>1. crashes' = crashes + 1 /\ crashes \in Nat
    BY <1>1, Zenon DEF Crash, IInv
  <2>2. crashes' \in Nat /\ crashes' # 0
    BY <2>1
  <2>. QED BY <2>2, Zenon DEF IInv
<1>2. ASSUME \A n \in Nodes : ~Crash(n) PROVE crashes' = crashes
  <2>1. CASE UNCHANGED vars
    BY <2>1, Zenon DEF vars
  <2>2. ASSUME NEW n \in Nodes, ListenStep(n) PROVE crashes' = crashes
    BY <2>2, Zenon DEF ListenStep, Bind, Accept, handle_handshake, HandshakeFails, ListenerRegister
  <2>3. ASSUME NEW n \in Nodes, ReadStep(n) PROVE crashes' = crashes
    BY <2>3, Zenon DEF ReadStep, Read, ReadFails, drop_peer_socket
  <2>4. ASSUME NEW pair \in Pairs, DialStep(pair[1], pair[2]) PROVE crashes' = crashes
    BY <2>4, Zenon DEF DialStep, Connect, SendHello, Answered, DialRegister
  <2>5. ASSUME NEW pair \in Pairs,
               send_to_peer(pair[1], pair[2])
        PROVE  crashes' = crashes
    BY <2>5, Zenon DEF send_to_peer
  <2>6. ASSUME NEW n \in Nodes, Start(n) PROVE crashes' = crashes
    BY <2>6, Zenon DEF Start
  <2>. QED BY <1>2, <2>1, <2>2, <2>3, <2>4, <2>5, <2>6, Zenon DEF Next
<1>3. ASSUME \A n \in Nodes : ~Crash(n), Good PROVE Good'
  <2>1. CASE UNCHANGED vars
    <3>1. up' = up /\ runs' = runs /\ tasks' = tasks /\ stream' = stream /\ reset' = reset
      BY <2>1, Zenon DEF vars
    <3>. QED BY <1>3, <3>1, GoodFrame, Zenon
  <2>2. ASSUME NEW n \in Nodes, Start(n), UNCHANGED reset PROVE Good'
    BY <1>3, <2>2, StartStep, Zenon
  <2>3. ASSUME NEW pair \in Pairs PROVE pair[1] \in Nodes /\ pair[2] \in PeersOf(pair[1])
    BY Zenon DEF Pairs, PeersOf
  <2>4. ASSUME NEW pair \in Pairs, DialStep(pair[1], pair[2]) PROVE Good'
    BY <1>3, <2>3, <2>4, ConnectStep, SendHelloStep, AnsweredStep, DialRegisterStep, Zenon DEF DialStep
  <2>5. ASSUME NEW n \in Nodes, ListenStep(n) PROVE Good'
    <3>1. CASE Bind(n) \/ Accept(n)
      BY <1>3, <3>1, AcceptStep, Zenon
    <3>. QED BY <1>3, <2>5, <3>1, HandshakeStep, HandshakeComes, ListenerRegisterStep, Zenon
             DEF ListenStep
  <2>6. ASSUME NEW n \in Nodes, ReadStep(n) PROVE Good'
    BY <1>3, <2>6, ReadTakes, ReadFailsStep, DropStep, Zenon DEF ReadStep
  <2>7. ASSUME NEW pair \in Pairs, send_to_peer(pair[1], pair[2]) PROVE Good'
    BY <1>3, <2>3, <2>7, SendStep, Zenon
  <2>. QED BY <1>3, <2>1, <2>2, <2>4, <2>5, <2>6, <2>7, Zenon DEF Next
<1>. QED BY <1>1, <1>2, <1>3, Zenon DEF IInv

\* The handshakes of all pairs stay in one of their phases until a node crashes.
THEOREM Invariance == Spec => []IInv
<1>1. Init => IInv
  BY InitGood, Zenon
<1>2. IInv /\ [Next]_vars => IInv'
  BY NextGood, Zenon
<1>. QED BY <1>1, <1>2, PTL DEF Spec

\* However many nodes dial each other at once, and in whatever order they start: no
\* dialing task panics on its answer, no listener leaves its loop and no node ends
\* before some node has crashed.
THEOREM HandshakesSucceed == Spec => []HandshakeFailsByCrashOnly
<1>1. IInv => HandshakeFailsByCrashOnly
  <2> SUFFICES ASSUME IInv, ~(crashes > 0) PROVE
        /\ \A pair \in Pairs : dial[pair[1]][pair[2]] # "panicked"
        /\ \A n \in Nodes : listener[n].pc # "left" /\ ~(~up[n] /\ runs[n] > 0)
    BY Zenon DEF HandshakeFailsByCrashOnly
  <2>1. \A n \in Nodes : NodeOK(n)
    BY DEF IInv, Good
  <2>2. ASSUME NEW pair \in Pairs PROVE dial[pair[1]][pair[2]] # "panicked"
    <3>1. pair[1] \in Nodes /\ pair[2] \in PeersOf(pair[1])
      BY Zenon DEF Pairs, PeersOf
    <3>2. dial[pair[1]][pair[2]] \in DialPcs
      BY <2>1, <3>1, Zenon DEF NodeOK, TasksOK
    <3>. QED BY <3>2, Zenon DEF DialPcs, Early
  <2>3. ASSUME NEW n \in Nodes PROVE listener[n].pc # "left" /\ ~(~up[n] /\ runs[n] > 0)
    <3>1. listener[n].pc \in ListenPcs
      BY <2>1, Zenon DEF NodeOK, ListenerOK
    <3>2. (up[n] <=> runs[n] = 1) /\ runs[n] \in {0, 1}
      BY <2>1, Zenon DEF NodeOK, TasksOK
    <3>. QED BY <3>1, <3>2 DEF ListenPcs
  <2>. QED BY <2>2, <2>3, Zenon
<1>. QED BY <1>1, Invariance, PTL

=============================================================================
