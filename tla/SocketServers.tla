---------------------------- MODULE SocketServers ----------------------------
(***************************************************************************)
(* The stream-socket servers of code_dump and their clients: three that    *)
(* multiplex their connections with epoll (epoll_sockets,                  *)
(* abstract_epoll_sockets, abstract_epoll_sockets_ints) and two that serve *)
(* one connection and end (abstract_sockets, veth_bridge).  A behaviour    *)
(* runs one of them, prog, with any number of its clients.                 *)
(*                                                                         *)
(* A connection is a byte stream: what a client writes in several calls    *)
(* may be read in one and the other way round.  All sockets block.         *)
(***************************************************************************)
EXTENDS Integers, Sequences, SequencesExt, FiniteSets

CONSTANTS
    Clients,       \* processes that run the client of the program
    Backlog,       \* the argument of listen()
    MaxEvents,     \* MAX_EVENTS
    BufferSize,    \* bytes of one read
    Message,       \* the bytes of one write; the size of a Packet is its length
    None           \* no client

ASSUME ServersAssumption ==
    /\ IsFiniteSet(Clients) /\ None \notin Clients
    /\ Message \in Seq(Nat) /\ Message # <<>>
    /\ {Backlog, MaxEvents, BufferSize} \subseteq Nat \ {0}

VARIABLES
    prog,          \* which server
    server,        \* where it is
    backlog,       \* connections that wait for accept()
    conn,          \* the client behind each descriptor the server has accepted
    batch,         \* the events of the last epoll_wait still to be handled
    client,        \* where each client is
    sent, stream,  \* what each has written, and what of it was not read yet
    shown,         \* what the server printed, for each client
    reply          \* the clients to which the server has replied

serverVars == <<server, backlog, conn, batch>>
clientVars == <<client, sent, stream>>
sockVars   == <<prog, serverVars, clientVars, shown, reply>>

Epoll   == {"epoll", "abstract_epoll", "ints"}
Once    == {"abstract", "veth"}
Listen  == 0                            \* the listening socket
Fds     == 1..Cardinality(Clients)      \* numbers accept() can return
Open(c) == \E f \in Fds : conn[f] = c

\* How often a client writes: the first of them three times.
Writes == IF prog = "epoll" THEN 3 ELSE 1

SockInit ==
    /\ prog \in Epoll \cup Once
    /\ server = "setup" /\ backlog = <<>> /\ batch = <<>>
    /\ conn = [f \in Fds |-> None]
    /\ client = [c \in Clients |-> "start"]
    /\ sent = [c \in Clients |-> <<>>] /\ stream = sent /\ shown = sent
    /\ reply = {}

-----------------------------------------------------------------------------
(***************************************************************************)
(* socket(), bind() and listen().  A server that checks a call returns    *)
(* when it fails; where a failure goes unnoticed an epoll server waits for *)
(* ever with nothing to listen on, and the others end at a failing accept. *)
(* epoll_create1() and epoll_ctl() succeed.                                *)
(***************************************************************************)
BecomesOneOf(places) ==
    /\ server = "setup" /\ server' \in places
    /\ UNCHANGED <<prog, backlog, conn, batch, clientVars, shown, reply>>

SetupEpoll         == prog = "epoll" /\ BecomesOneOf({"wait", "exited"})
SetupAbstractEpoll == prog = "abstract_epoll" /\ BecomesOneOf({"wait", "exited", "deaf"})
SetupInts          == prog = "ints" /\ BecomesOneOf({"wait", "deaf"})
SetupAbstract      == prog = "abstract" /\ BecomesOneOf({"wait", "exited"})
SetupVeth          == prog = "veth" /\ BecomesOneOf({"wait", "exited"})

ServerSetup == SetupEpoll \/ SetupAbstractEpoll \/ SetupInts \/ SetupAbstract \/ SetupVeth

Readable(f) == conn[f] \in Clients /\ (stream[conn[f]] # <<>> \/ client[conn[f]] = "closed")
Ready == {f \in Fds : Readable(f)} \cup (IF backlog # <<>> THEN {Listen} ELSE {})

\* epoll_wait(): some of the descriptors that are ready, in any order.
EpollWait ==
    /\ prog \in Epoll /\ server = "wait" /\ batch = <<>> /\ Ready # {}
    /\ \E E \in SUBSET Ready :
         /\ Cardinality(E) = IF Cardinality(Ready) < MaxEvents THEN Cardinality(Ready)
                                                               ELSE MaxEvents
         /\ batch' \in SetToSeqs(E)
    /\ UNCHANGED <<prog, server, backlog, conn, clientVars, shown, reply>>

\* accept() gives the lowest free descriptor, which EPOLL_CTL_ADD watches.
EpollAccept ==
    /\ prog \in Epoll /\ batch # <<>> /\ Head(batch) = Listen
    /\ LET f == CHOOSE f \in Fds : conn[f] = None /\ \A g \in 1..(f - 1) : conn[g] # None
       IN  conn' = [conn EXCEPT ![f] = Head(backlog)]
    /\ backlog' = Tail(backlog) /\ batch' = Tail(batch)
    /\ UNCHANGED <<prog, server, clientVars, shown, reply>>

\* How much a read returns: the servers of integers ask for one Packet.
Take(c) ==
    LET n == IF prog = "ints" THEN Len(Message) ELSE BufferSize
    IN  IF Len(stream[c]) < n THEN Len(stream[c]) ELSE n

\* The end of the stream is seen and the descriptor kept.
EpollCloseKeeps(f) ==
    /\ stream[conn[f]] = <<>>
    /\ UNCHANGED <<prog, server, backlog, conn, clientVars, shown, reply>>

\* A read of 0 at the end of the stream closes the connection.
EpollClose(f) ==
    /\ stream[conn[f]] = <<>>
    /\ conn' = [conn EXCEPT ![f] = None]
    /\ UNCHANGED <<prog, server, backlog, clientVars, shown, reply>>

\* Text is printed as it is read.
EpollText(f) ==
    LET c == conn[f] IN
    /\ prog # "ints" /\ stream[c] # <<>>
    /\ shown' = [shown EXCEPT ![c] = @ \o SubSeq(stream[c], 1, Take(c))]
    /\ stream' = [stream EXCEPT ![c] = SubSeq(@, Take(c) + 1, Len(@))]
    /\ UNCHANGED <<prog, server, backlog, conn, client, sent, reply>>

\* Whatever was read is taken for a Packet.
EpollPacketAny(f) ==
    LET c == conn[f] IN
    /\ prog = "ints" /\ stream[c] # <<>>
    /\ shown' = [shown EXCEPT ![c] = @ \o SubSeq(stream[c], 1, Take(c))]
    /\ stream' = [stream EXCEPT ![c] = SubSeq(@, Take(c) + 1, Len(@))]
    /\ UNCHANGED <<prog, server, backlog, conn, client, sent, reply>>

\* Integers are printed when a whole Packet came; less is dropped.
EpollPacket(f) ==
    LET c == conn[f] IN
    /\ prog = "ints" /\ stream[c] # <<>>
    /\ shown' = IF Take(c) = Len(Message)
                THEN [shown EXCEPT ![c] = @ \o SubSeq(stream[c], 1, Take(c))] ELSE shown
    /\ stream' = [stream EXCEPT ![c] = SubSeq(@, Take(c) + 1, Len(@))]
    /\ UNCHANGED <<prog, server, backlog, conn, client, sent, reply>>

\* The data of a client, or its departure.
EpollRead ==
    /\ prog \in Epoll /\ batch # <<>> /\ Head(batch) # Listen
    /\ batch' = Tail(batch)
    /\ LET f == Head(batch) IN EpollClose(f) \/ EpollText(f) \/ EpollPacket(f)

-----------------------------------------------------------------------------
(***************************************************************************)
(* The servers that accept one connection, read once (the one of           *)
(* veth_bridge also replies), close and return.                            *)
(***************************************************************************)
OnceAccept ==
    /\ prog \in Once /\ server = "wait" /\ backlog # <<>>
    /\ server' = "read"
    /\ conn' = [conn EXCEPT ![1] = Head(backlog)] /\ backlog' = Tail(backlog)
    /\ UNCHANGED <<prog, batch, clientVars, shown, reply>>

OnceRead ==
    /\ server = "read" /\ Readable(1)
    /\ LET c == conn[1] IN
         /\ shown' = [shown EXCEPT ![c] = SubSeq(stream[c], 1, Take(c))]
         /\ stream' = [stream EXCEPT ![c] = SubSeq(@, Take(c) + 1, Len(@))]
         /\ reply' = IF prog = "veth" THEN reply \cup {c} ELSE reply
    /\ server' = "close"
    /\ UNCHANGED <<prog, backlog, conn, batch, client, sent>>

\* The connections that still wait are gone with the listening socket.
OnceClose ==
    /\ server = "close" /\ server' = "exited"
    /\ conn' = [f \in Fds |-> None] /\ backlog' = <<>>
    /\ UNCHANGED <<prog, batch, clientVars, shown, reply>>

Server == EpollWait \/ EpollAccept \/ EpollRead \/ OnceAccept \/ OnceRead \/ OnceClose

-----------------------------------------------------------------------------
(***************************************************************************)
(* The clients.                                                            *)
(***************************************************************************)
Linked(c) == Open(c) \/ c \in ToSet(backlog)

\* connect() waits for room in the backlog and fails when nobody listens.
Connect(c) ==
    /\ client[c] = "start" /\ server \in {"wait", "read", "close"} /\ Len(backlog) < Backlog
    /\ client' = [client EXCEPT ![c] = "write"] /\ backlog' = Append(backlog, c)
    /\ UNCHANGED <<prog, server, conn, batch, sent, stream, shown, reply>>

\* The client of veth_bridge first tests a pointer it has not initialised.
ConnectFails(c) ==
    /\ client[c] = "start" /\ server # "setup"
    /\ server \in {"deaf", "exited"} \/ prog = "veth"
    /\ client' = [client EXCEPT ![c] = "closed"]
    /\ UNCHANGED <<prog, serverVars, sent, stream, shown, reply>>

\* write(): a client whose server has closed the connection is ended by
\* SIGPIPE; that of the integers may write a part and gives up.
Write(c) ==
    /\ client[c] = "write"
    /\ IF Linked(c)
       THEN \E n \in (IF prog = "ints" THEN 1..Len(Message) ELSE {Len(Message)}) :
              /\ sent' = [sent EXCEPT ![c] = @ \o SubSeq(Message, 1, n)]
              /\ stream' = [stream EXCEPT ![c] = @ \o SubSeq(Message, 1, n)]
              /\ client' = [client EXCEPT ![c] =
                   IF Len(sent'[c]) < Writes * Len(Message) /\ n = Len(Message) THEN "write"
                   ELSE IF prog = "veth" THEN "reply" ELSE "close"]
       ELSE client' = [client EXCEPT ![c] = "closed"] /\ UNCHANGED <<sent, stream>>
    /\ UNCHANGED <<prog, serverVars, shown, reply>>

\* The user of veth_bridge's client ends its input instead of typing: nothing is
\* written.
WriteNothing(c) ==
    /\ prog = "veth" /\ client[c] = "write"
    /\ client' = [client EXCEPT ![c] = "reply"]
    /\ UNCHANGED <<prog, serverVars, sent, stream, shown, reply>>

\* The reply, or the end of the connection.
AwaitReply(c) ==
    /\ client[c] = "reply" /\ (c \in reply \/ ~ Linked(c))
    /\ client' = [client EXCEPT ![c] = "close"]
    /\ UNCHANGED <<prog, serverVars, sent, stream, shown, reply>>

CloseClient(c) ==
    /\ client[c] = "close" /\ client' = [client EXCEPT ![c] = "closed"]
    /\ UNCHANGED <<prog, serverVars, sent, stream, shown, reply>>

Client(c) ==
    \/ Connect(c) \/ ConnectFails(c) \/ Write(c) \/ WriteNothing(c)
    \/ AwaitReply(c) \/ CloseClient(c)

SockNext == ServerSetup \/ Server \/ \E c \in Clients : Client(c)

SockSpec == SockInit /\ [][SockNext]_sockVars

AtUser(c) == prog = "veth" /\ client[c] = "write"

\* A running process goes on, except where it waits for its user to type.
SockFair ==
    /\ WF_sockVars(ServerSetup) /\ WF_sockVars(Server)
    /\ \A c \in Clients : WF_sockVars(~ AtUser(c) /\ Client(c))

-----------------------------------------------------------------------------
\* What a server prints for a connection is what its client wrote, in order,
\* whatever the reads put together or take apart and whichever descriptors
\* are reused; an epoll server that has closed a connection has shown all of
\* it, that of the integers every whole Packet and never a part of one.
StreamsIntact ==
    \A c \in Clients :
      /\ IsPrefix(shown[c], sent[c])
      /\ prog = "ints" => Len(shown[c]) % Len(Message) = 0
      /\ prog \in Epoll /\ client[c] = "closed" /\ ~ Linked(c) =>
           Len(sent[c]) - Len(shown[c]) <
             IF prog = "ints" /\ shown[c] = <<>> THEN Len(Message) ELSE 1

\* Every client that has been connected ends, and the server gives its
\* descriptor back, although one process serves all with blocking calls.  That
\* of veth_bridge depends on users: it is so once the client that was accepted
\* has sent a message.
Due(c) == IF prog = "veth" THEN conn[1] = c /\ sent[c] # <<>> ELSE client[c] = "write"

ClientsServed ==
    \A c \in Clients : Due(c) ~> client[c] = "closed" /\ ~ Linked(c)
=============================================================================
