--------------------------- MODULE PeerConnections ---------------------------
(***************************************************************************)
(* How the nodes connect to one another: the tasks that dial the peers     *)
(* (src/src/node/runner.rs), the peer listener with the handshake and the  *)
(* readers it spawns (src/src/node/peer), and what the replica sends over  *)
(* the connections (broadcast.rs).                                         *)
(*                                                                         *)
(* Every node dials every other node, so two nodes that start together get *)
(* two connections; each side keeps, by itself, the one it registers first. *)
(* Only the listener spawns readers: one for each handshake it completes,  *)
(* on the connection that is registered for the peer at that moment.       *)
(*                                                                         *)
(* A socket is named by its dialer, its acceptor and the run of the dialer  *)
(* that opened it: a task dials once in a run of its node.  A node's end   *)
(* of it is closed when no task and no entry of the node refers to it.     *)
(***************************************************************************)
EXTENDS Integers, FiniteSets, Sequences

CONSTANTS
    Nodes,
    ClientNode,     \* the node that got the client port, which all nodes bind
    MaxCrash,       \* bound on the crashes of all nodes together
    MaxStream       \* messages in flight in one direction of a socket

ASSUME PeersAssumption ==
    ClientNode \in Nodes /\ MaxCrash \in Nat /\ MaxStream \in Nat \ {0}

VARIABLES
    up,                 \* node -> whether its process runs
    runs,               \* node -> how often it has started
    crashes,
    dial,               \* node, peer -> where connect_to_peer is
    listener,           \* node -> where run_peer_listener is, and its socket
    backlog,            \* node -> sockets to be accepted, the oldest first
    peer_connections,   \* node, peer -> the registered socket
    readers,            \* node -> the tasks that handle_peer_connection runs in
    stream,             \* socket, node -> messages on the way to the node
    reset               \* sockets that were closed with data unread

tasks == <<dial, listener, backlog, peer_connections, readers>>
vars == <<up, runs, crashes, tasks, stream, reset>>

Pairs == {pair \in Nodes \X Nodes : pair[1] # pair[2]}
PeersOf(n) == Nodes \ {n}
Socks == {<<pair[1], pair[2], k>> : pair \in Pairs, k \in 1..MaxCrash + 1}
NoSock == <<>>
Ends(c) == {c[1], c[2]}
Peer(n, c) == CHOOSE p \in Ends(c) : p # n
Dialed(n, p) == <<n, p, runs[n]>>

Init ==
    /\ up = [n \in Nodes |-> FALSE]
    /\ runs = [n \in Nodes |-> 0]
    /\ crashes = 0
    /\ dial = [n \in Nodes |-> [p \in PeersOf(n) |-> "off"]]
    /\ listener = [n \in Nodes |-> [pc |-> "off", sock |-> NoSock]]
    /\ backlog = [n \in Nodes |-> << >>]
    /\ peer_connections = [n \in Nodes |-> [p \in PeersOf(n) |-> NoSock]]
    /\ readers = [n \in Nodes |-> {}]
    /\ stream = [c \in Socks |-> [n \in Ends(c) |-> << >>]]
    /\ reset = {}

\* The references a node has to its end of socket c.
Holds(n, c) ==
    \/ c[1] = n /\ c[3] = runs[n] /\ dial[n][c[2]] \in {"hello", "ack", "dedup"}
    \/ listener[n].sock = c
    \/ \E i \in DOMAIN backlog[n] : backlog[n][i] = c
    \/ peer_connections[n][Peer(n, c)] = c
    \/ \E r \in readers[n] : r.sock = c

Closed(n, c) == ~Holds(Peer(n, c), c)

-----------------------------------------------------------------------------
(* A process                                                               *)

\* The tasks of node n are gone, with all sockets they had.
Stopped(n) ==
    /\ up' = [up EXCEPT ![n] = FALSE]
    /\ dial' = [dial EXCEPT ![n] = [p \in PeersOf(n) |-> "off"]]
    /\ listener' = [listener EXCEPT ![n] = [pc |-> "off", sock |-> NoSock]]
    /\ backlog' = [backlog EXCEPT ![n] = << >>]
    /\ peer_connections' = [peer_connections EXCEPT ![n] = [p \in PeersOf(n) |-> NoSock]]
    /\ readers' = [readers EXCEPT ![n] = {}]

\* run_node: the dialing tasks are spawned, then the listeners.
Start(n) ==
    /\ ~up[n] /\ runs[n] <= MaxCrash
    /\ up' = [up EXCEPT ![n] = TRUE]
    /\ runs' = [runs EXCEPT ![n] = @ + 1]
    /\ dial' = [dial EXCEPT ![n] = [p \in PeersOf(n) |-> "connect"]]
    /\ listener' = [listener EXCEPT ![n] = [pc |-> "bind", sock |-> NoSock]]
    /\ UNCHANGED <<crashes, backlog, peer_connections, readers, stream>>

Crash(n) ==
    /\ up[n] /\ crashes < MaxCrash
    /\ crashes' = crashes + 1
    /\ Stopped(n)
    /\ UNCHANGED <<runs, stream>>

-----------------------------------------------------------------------------
(* Messages                                                                *)

Put(s, n, c, m) == [s EXCEPT ![c][n] = Append(@, m)]
Take(n, c) == [stream EXCEPT ![c][n] = Tail(@)]
Arrived(n, c) == stream[c][n] # << >>

\* receive_message finds the end of the stream (None), or fails: on a socket that
\* was reset, what is still in the stream may be lost.
EndOfStream(n, c) == Closed(n, c) /\ ~Arrived(n, c) /\ c \notin reset
Broken(n, c) == Closed(n, c) /\ c \in reset

\* send_message to the other end, which may be closed.
Sent(n, c, m) ==
    IF Closed(n, c) THEN stream' = stream ELSE stream' = Put(stream, Peer(n, c), c, m)

\* Sockets that the step closes with data unread, and those it writes to in vain.
Resets(written) ==
    reset' = reset \cup {c \in written : \E n \in Ends(c) : Closed(n, c)}
               \cup {c \in Socks : \E n \in Ends(c) :
                       Holds(n, c) /\ ~Holds(n, c)' /\ stream[c][n] # << >>}

\* Mutant: the connection that was made last replaces the registered one.
keep_latest(n, p, c) == [peer_connections EXCEPT ![n][p] = c]

\* The connection with peer p that is registered first stays registered.
deduplicate_peer_connection(n, p, c) ==
    IF peer_connections[n][p] # NoSock THEN peer_connections
    ELSE [peer_connections EXCEPT ![n][p] = c]

-----------------------------------------------------------------------------
(* connect_to_peer, with send_hello                                        *)

DialAt(n, p, pc) == dial' = [dial EXCEPT ![n][p] = pc]

\* Mutant: a refused connection is not tried again.
connect_once(n, p) ==
    /\ dial[n][p] = "connect"
    /\ IF listener[p].pc \in {"accept", "hello", "dedup"}
       THEN /\ backlog' = [backlog EXCEPT ![p] = Append(@, Dialed(n, p))]
            /\ DialAt(n, p, "hello")
       ELSE DialAt(n, p, "off") /\ UNCHANGED backlog
    /\ UNCHANGED <<up, runs, crashes, listener, peer_connections, readers, stream>>
    /\ Resets({})

\* A connection is refused, and tried again later, while the peer does not listen.
Connect(n, p) ==
    /\ dial[n][p] = "connect" /\ listener[p].pc \in {"accept", "hello", "dedup"}
    /\ backlog' = [backlog EXCEPT ![p] = Append(@, Dialed(n, p))]
    /\ DialAt(n, p, "hello")
    /\ UNCHANGED <<up, runs, crashes, listener, peer_connections, readers, stream>>
    /\ Resets({})

SendHello(n, p) ==
    /\ dial[n][p] = "hello"
    /\ Sent(n, Dialed(n, p), "Hello")
    /\ DialAt(n, p, "ack")
    /\ UNCHANGED <<up, runs, crashes, listener, backlog, peer_connections, readers>>
    /\ Resets({Dialed(n, p)})

\* The end of the stream counts as an answer; anything but Ack ends the task.
Answered(n, p) ==
    LET c == Dialed(n, p) IN
    /\ dial[n][p] = "ack"
    /\ \/ /\ Arrived(n, c)
          /\ DialAt(n, p, IF Head(stream[c][n]) = "Ack" THEN "dedup" ELSE "panicked")
          /\ stream' = Take(n, c)
       \/ EndOfStream(n, c) /\ DialAt(n, p, "dedup") /\ UNCHANGED stream
       \/ Broken(n, c) /\ DialAt(n, p, "panicked") /\ UNCHANGED stream
    /\ UNCHANGED <<up, runs, crashes, listener, backlog, peer_connections, readers>>
    /\ Resets({})

\* The task is over: nobody reads from this socket, and nobody dials again.
DialRegister(n, p) ==
    /\ dial[n][p] = "dedup"
    /\ peer_connections' = deduplicate_peer_connection(n, p, Dialed(n, p))
    /\ DialAt(n, p, "done")
    /\ UNCHANGED <<up, runs, crashes, listener, backlog, readers, stream>>
    /\ Resets({})

-----------------------------------------------------------------------------
(* run_peer_listener, with handle_handshake                                *)

ListenAt(n, pc, c) == listener' = [listener EXCEPT ![n] = [pc |-> pc, sock |-> c]]

Bind(n) ==
    /\ listener[n].pc = "bind"
    /\ ListenAt(n, "accept", NoSock)
    /\ UNCHANGED <<up, runs, crashes, dial, backlog, peer_connections, readers, stream, reset>>

Accept(n) ==
    /\ listener[n].pc = "accept" /\ backlog[n] # << >>
    /\ ListenAt(n, "hello", Head(backlog[n]))
    /\ backlog' = [backlog EXCEPT ![n] = Tail(@)]
    /\ UNCHANGED <<up, runs, crashes, dial, peer_connections, readers, stream, reset>>

\* Mutant: the Hello is not acknowledged.
handshake_without_ack(n) ==
    LET c == listener[n].sock IN
    /\ listener[n].pc = "hello" /\ Arrived(n, c)
    /\ ListenAt(n, "dedup", c)
    /\ stream' = Take(n, c)
    /\ UNCHANGED <<up, runs, crashes, dial, backlog, peer_connections, readers>>
    /\ Resets({c})

\* The peer says who it is, and is answered before the socket is registered.
handle_handshake(n) ==
    LET c == listener[n].sock IN
    /\ listener[n].pc = "hello" /\ Arrived(n, c)
    /\ ListenAt(n, "dedup", c)
    /\ stream' = IF Closed(n, c) THEN Take(n, c) ELSE Put(Take(n, c), Peer(n, c), c, "Ack")
    /\ UNCHANGED <<up, runs, crashes, dial, backlog, peer_connections, readers>>
    /\ Resets({c})

\* Without a Hello the listener's loop is left for good, and its backlog reset.  A
\* node that has no client listener either has nothing left to wait for and ends.
HandshakeFails(n) ==
    LET c == listener[n].sock IN
    /\ listener[n].pc = "hello" /\ (EndOfStream(n, c) \/ Broken(n, c))
    /\ IF n # ClientNode THEN Stopped(n) /\ UNCHANGED <<runs, crashes, stream>>
       ELSE /\ ListenAt(n, "left", NoSock)
            /\ backlog' = [backlog EXCEPT ![n] = << >>]
            /\ UNCHANGED <<up, runs, crashes, dial, peer_connections, readers, stream>>
    /\ Resets({})

\* A reader is spawned on the socket that is registered for the peer.
ListenerRegister(n) ==
    LET c == listener[n].sock
        p == Peer(n, c)
    IN /\ listener[n].pc = "dedup"
       /\ peer_connections' = deduplicate_peer_connection(n, p, c)
       /\ readers' = [readers EXCEPT ![n] = @ \cup
            {[peer |-> p, spawned_by |-> c, sock |-> peer_connections'[n][p], pc |-> "read"]}]
       /\ ListenAt(n, "accept", NoSock)
       /\ UNCHANGED <<up, runs, crashes, dial, backlog, stream>>
       /\ Resets({})

-----------------------------------------------------------------------------
(* handle_peer_connection and drop_peer_socket; the replica's messages     *)

ReaderAt(n, r, pc) ==
    readers' = [readers EXCEPT ![n] = (@ \ {r}) \cup
        {[peer |-> r.peer, spawned_by |-> r.spawned_by, sock |-> r.sock, pc |-> pc]}]

Read(n, r) ==
    /\ r.pc = "read" /\ Arrived(n, r.sock)
    /\ stream' = Take(n, r.sock)
    /\ UNCHANGED <<up, runs, crashes, tasks, reset>>

ReadFails(n, r) ==
    /\ r.pc = "read" /\ (EndOfStream(n, r.sock) \/ Broken(n, r.sock))
    /\ ReaderAt(n, r, "drop")
    /\ UNCHANGED <<up, runs, crashes, dial, listener, backlog, peer_connections, stream, reset>>

\* Mutant: the entry of the peer is left to the next connection.
reader_leaves_entry(n, r) ==
    /\ r.pc = "drop"
    /\ readers' = [readers EXCEPT ![n] = @ \ {r}]
    /\ UNCHANGED <<up, runs, crashes, dial, listener, backlog, peer_connections, stream>>
    /\ Resets({})

\* The entry of the peer is removed, whichever socket it holds by now.
drop_peer_socket(n, r) ==
    /\ r.pc = "drop"
    /\ peer_connections' = [peer_connections EXCEPT ![n][r.peer] = NoSock]
    /\ readers' = [readers EXCEPT ![n] = @ \ {r}]
    /\ UNCHANGED <<up, runs, crashes, dial, listener, backlog, stream>>
    /\ Resets({})

\* A message of the replica, to one peer or in a broadcast.  For a peer without an entry
\* it is dropped, and one that cannot be written is lost: send_message discards the
\* error, so that no task ends of it.
send_to_peer(n, p) ==
    LET c == peer_connections[n][p] IN
    /\ c # NoSock /\ (Closed(n, c) \/ Len(stream[c][p]) < MaxStream)
    /\ Sent(n, c, "HotStuff")
    /\ UNCHANGED <<up, runs, crashes, tasks>>
    /\ Resets({c})

-----------------------------------------------------------------------------
DialStep(n, p) == Connect(n, p) \/ SendHello(n, p) \/ Answered(n, p) \/ DialRegister(n, p)
ListenStep(n) ==
    Bind(n) \/ Accept(n) \/ handle_handshake(n) \/ HandshakeFails(n) \/ ListenerRegister(n)
ReadStep(n) == \E r \in readers[n] : Read(n, r) \/ ReadFails(n, r) \/ drop_peer_socket(n, r)

Next ==
    \/ \E n \in Nodes : Start(n) /\ UNCHANGED reset
    \/ \E n \in Nodes : Crash(n) /\ Resets({})
    \/ \E pair \in Pairs : DialStep(pair[1], pair[2])
    \/ \E n \in Nodes : ListenStep(n)
    \/ \E n \in Nodes : ReadStep(n)
    \/ \E pair \in Pairs : send_to_peer(pair[1], pair[2])

Spec == Init /\ [][Next]_vars

\* What the tasks can do: an answer or a Hello comes, or the other end is closed.
Comes(n, c) == Arrived(n, c) \/ Closed(n, c)
DialReady(n, p) ==
    \/ dial[n][p] = "connect" /\ listener[p].pc \in {"accept", "hello", "dedup"}
    \/ dial[n][p] \in {"hello", "dedup"}
    \/ dial[n][p] = "ack" /\ Comes(n, Dialed(n, p))
ListenReady(n) ==
    \/ listener[n].pc \in {"bind", "dedup"}
    \/ listener[n].pc = "accept" /\ backlog[n] # << >>
    \/ listener[n].pc = "hello" /\ Comes(n, listener[n].sock)

\* The nodes are started, and tokio runs every task that can make a step.  A dialing
\* task and a listener make finitely many steps, and a reader finitely many on a socket
\* that the other end has closed; so their weak fairness is that again and again they
\* have no step left, and ENABLED need not be computed.
Fairness ==
    /\ \A n \in Nodes : /\ WF_vars(Start(n) /\ UNCHANGED reset)
                        /\ []<>~ListenReady(n)
                        /\ []<>(\A r \in readers[n] : r.pc = "read" /\ ~Closed(n, r.sock))
    /\ \A pair \in Pairs : []<>~DialReady(pair[1], pair[2])

FairSpec == Spec /\ Fairness

-----------------------------------------------------------------------------
(* Properties                                                              *)

\* The handshakes of nodes that dial each other at once do not disturb each other:
\* a dialing task panics on its answer, a listener leaves its loop and a node ends
\* only after some node has crashed.
HandshakeFailsByCrashOnly ==
    (\/ \E pair \in Pairs : dial[pair[1]][pair[2]] = "panicked"
     \/ \E n \in Nodes : listener[n].pc = "left" \/ (~up[n] /\ runs[n] > 0)) => crashes > 0

\* No two nodes wait for each other: every listener serves one handshake at a time,
\* and yet every dialing task comes to its end.
DialsEnd ==
    \A pair \in Pairs : <>(dial[pair[1]][pair[2]] = "done" \/ crashes > 0)

\* "Without Deduplication, we can have conflicting streams for the same peer": two nodes
\* that do not crash never stay with different sockets, whichever of their connections
\* each of them registered first.  In the end both have registered one socket, and the
\* node that accepted it reads it, or neither has an entry for the other.  The node that
\* dialed it need not read it.
ConnectionsAgree ==
    \A pair \in Pairs :
        LET c == peer_connections[pair[1]][pair[2]]
            read == \E r \in readers[c[2]] : r.sock = c /\ r.pc = "read"
        IN \/ <>[](peer_connections[pair[2]][pair[1]] = c /\ (c # NoSock => read))
           \/ <>(crashes > 0)

\* "drop the peerSocket after the connection has ended": of the sockets that a node has
\* accepted, none that the other end has closed stays registered, however the other node
\* crashes and starts again.  Of those it has dialed one may, if nobody reads it.
DeadSocketsAreDropped ==
    \A pair \in Pairs :
        LET c == peer_connections[pair[1]][pair[2]]
        IN []<>~(c # NoSock /\ c[2] = pair[1] /\ Closed(pair[1], c))

\* The networking layer "Manages all peer-to-peer TCP connections ... with built-in
\* reconnection logic" (README): a node that lost its connection gets one again.
Reconnects ==
    \A pair \in Pairs :
        LET lost == dial[pair[1]][pair[2]] = "done" /\ peer_connections[pair[1]][pair[2]] = NoSock
        IN lost ~> peer_connections[pair[1]][pair[2]] # NoSock

=============================================================================
