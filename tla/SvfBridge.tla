----------------------------- MODULE SvfBridge ------------------------------
(***************************************************************************)
(* Two svf_bridges joined by a link that delivers whole messages in order: *)
(* a MsgFifo each way, which MessageQueue is if its callers' locks let one *)
(* sender in at a time.  Sockets of one name on the two sides find each    *)
(* other by registration messages and then exchange data by the other's    *)
(* socket id.  Each socket has a thread that registers and sends, and one  *)
(* that receives; each bridge has its recv_loop.  The threads are          *)
(* cooperative; control may change while a message is handed to the link   *)
(* (link_port->send_message) and while a thread waits, so a step is what   *)
(* happens in between.  No name is used twice on one side.                 *)
(***************************************************************************)
EXTENDS Naturals, Sequences, FiniteSets

CONSTANTS
  Names,  \* a socket's type and name
  Most    \* bound: how many messages each socket sends, by side and name

Side == {0, 1}
Other(s) == 1 - s

ASSUME BridgeAssumption == IsFiniteSet(Names) /\ Most \in [Side -> [Names -> Nat]]

VARIABLES
  local,   \* m_local_sockets: names, in order of registration
  remote,  \* m_remote_sockets: names and ids
  id,      \* m_socket_id of each local socket, 0 before it is registered
  peer,    \* m_other->m_socket_id, 0 while not connected
  queue,   \* m_recv_queue of each socket
  at,      \* where each socket's thread is in register_socket
  link,    \* messages under way to each side
  sent,    \* history: data each socket has sent
  got      \* history: data each socket has received

sockets == <<local, remote, id, peer>>
vars    == <<sockets, queue, at, link, sent, got>>

Registration(n, i) == [to |-> 0, name |-> n, id |-> i]
Data(i, d)         == [to |-> i, data |-> d]

BridgeInit ==
  /\ local = [s \in Side |-> <<>>] /\ remote = [s \in Side |-> <<>>]
  /\ id = [s \in Side |-> [n \in Names |-> 0]] /\ peer = id
  /\ queue = [s \in Side |-> [n \in Names |-> <<>>]]
  /\ at = [s \in Side |-> [n \in Names |-> "new"]]
  /\ link = [s \in Side |-> <<>>]
  /\ sent = queue /\ got = queue

\* send_msg of the bridge: the message is in the hands of the link.
Transmit(s, msg) == link' = [link EXCEPT ![Other(s)] = Append(@, msg)]

-----------------------------------------------------------------------------
(* register_socket.                                                        *)

\* Mutant: the socket is given its id, but is not on the list.
RegisterUnlisted(s, n) ==
  /\ at[s][n] = "new"
  /\ id' = [id EXCEPT ![s][n] = Len(local[s]) + 1]
  /\ at' = [at EXCEPT ![s][n] = "listed"]
  /\ UNCHANGED <<local, remote, peer, queue, link, sent, got>>

Register(s, n) ==
  /\ at[s][n] = "new"
  /\ id' = [id EXCEPT ![s][n] = Len(local[s]) + 1]
  /\ local' = [local EXCEPT ![s] = Append(@, n)]
  /\ at' = [at EXCEPT ![s][n] = "listed"]
  /\ UNCHANGED <<remote, peer, queue, link, sent, got>>

Announce(s, n) ==
  /\ at[s][n] = "listed"
  /\ Transmit(s, Registration(n, id[s][n]))
  /\ at' = [at EXCEPT ![s][n] = "announced"]
  /\ UNCHANGED <<sockets, queue, sent, got>>

\* Mutant: a registration that came earlier is not looked for.
SkipSearch(s, n) ==
  /\ at[s][n] = "announced"
  /\ at' = [at EXCEPT ![s][n] = "registered"]
  /\ UNCHANGED <<sockets, queue, link, sent, got>>

\* The first match of a name among the remote sockets is the other end.
Search(s, n) ==
  /\ at[s][n] = "announced"
  /\ at' = [at EXCEPT ![s][n] = "registered"]
  /\ LET matches == {i \in DOMAIN remote[s] : remote[s][i].name = n}
         first   == CHOOSE i \in matches : \A j \in matches : i <= j
     IN  peer' = IF matches = {} THEN peer
                 ELSE [peer EXCEPT ![s][n] = remote[s][first].id]
  /\ UNCHANGED <<local, remote, id, queue, link, sent, got>>

-----------------------------------------------------------------------------
(* The socket's own calls.                                                 *)

\* send_msg, once wait_connected lets it through.
Send(s, n) ==
  /\ at[s][n] = "registered" /\ peer[s][n] # 0
  /\ Len(sent[s][n]) < Most[s][n]
  /\ LET d == Len(sent[s][n]) + 1 IN
       /\ Transmit(s, Data(peer[s][n], d))
       /\ sent' = [sent EXCEPT ![s][n] = Append(@, d)]
  /\ UNCHANGED <<sockets, queue, at, got>>

\* recv_msg takes the first message of the queue.
Receive(s, n) ==
  /\ queue[s][n] # <<>>
  /\ got' = [got EXCEPT ![s][n] = Append(@, Head(queue[s][n]))]
  /\ queue' = [queue EXCEPT ![s][n] = Tail(@)]
  /\ UNCHANGED <<sockets, at, link, sent>>

-----------------------------------------------------------------------------
(* recv_loop: one message from the link.                                   *)

\* Mutant: what is listed is the message.
LearnMessage(s, msg) ==
  /\ remote' = [remote EXCEPT ![s] = Append(@, msg)]
  /\ peer' = IF \E i \in DOMAIN local[s] : local[s][i] = msg.name
             THEN [peer EXCEPT ![s][msg.name] = msg.id] ELSE peer
  /\ UNCHANGED <<local, id, queue>>

\* Mutant: the id is taken to be the place in the list of remote sockets.
LearnPlace(s, msg) ==
  /\ remote' = [remote EXCEPT ![s] = Append(@, [name |-> msg.name, id |-> msg.id])]
  /\ peer' = IF \E i \in DOMAIN local[s] : local[s][i] = msg.name
             THEN [peer EXCEPT ![s][msg.name] = Len(remote'[s])] ELSE peer
  /\ UNCHANGED <<local, id, queue>>

\* The other side has registered: list its socket, and connect ours if it is there.
Learn(s, msg) ==
  /\ remote' = [remote EXCEPT ![s] = Append(@, [name |-> msg.name, id |-> msg.id])]
  /\ peer' = IF \E i \in DOMAIN local[s] : local[s][i] = msg.name
             THEN [peer EXCEPT ![s][msg.name] = msg.id] ELSE peer
  /\ UNCHANGED <<local, id, queue>>

\* Mutant: a received message goes to the front of its socket's queue.
DeliverFirst(s, msg) ==
  /\ queue' = IF msg.to \in DOMAIN local[s]
              THEN [queue EXCEPT ![s][local[s][msg.to]] = <<msg.data>> \o @] ELSE queue
  /\ UNCHANGED sockets

\* Mutant: a queue that holds a message takes no other.
DeliverToEmpty(s, msg) ==
  /\ queue' = IF msg.to \in DOMAIN local[s] /\ queue[s][local[s][msg.to]] = <<>>
              THEN [queue EXCEPT ![s][local[s][msg.to]] = <<msg.data>>] ELSE queue
  /\ UNCHANGED sockets

\* msg_received; a message to a socket that is not there is dropped.
Deliver(s, msg) ==
  /\ queue' = IF msg.to \in DOMAIN local[s]
              THEN [queue EXCEPT ![s][local[s][msg.to]] = Append(@, msg.data)] ELSE queue
  /\ UNCHANGED sockets

RecvLoop(s) ==
  /\ link[s] # <<>>
  /\ LET msg == Head(link[s]) IN
       IF msg.to = 0 THEN Learn(s, msg) ELSE Deliver(s, msg)
  /\ link' = [link EXCEPT ![s] = Tail(@)]
  /\ UNCHANGED <<at, sent, got>>

-----------------------------------------------------------------------------
Registers(s, n) == Register(s, n) \/ Announce(s, n) \/ Search(s, n)

Next ==
  \E s \in Side :
    \/ RecvLoop(s)
    \/ \E n \in Names : Registers(s, n) \/ Send(s, n) \/ Receive(s, n)

Spec == BridgeInit /\ [][Next]_vars

\* The link is fair to each bridge and to the threads that have begun to register.
Fairness ==
  \A s \in Side :
    /\ WF_vars(RecvLoop(s))
    /\ \A n \in Names : WF_vars(Announce(s, n) \/ Search(s, n)) /\ WF_vars(Receive(s, n))

FairSpec == Spec /\ Fairness

-----------------------------------------------------------------------------
(* Properties.                                                             *)

\* All state is well typed.
BridgeTypeOK ==
  \A s \in Side :
    /\ local[s] \in Seq(Names)
    /\ remote[s] \in Seq([name : Names, id : Nat])
    /\ id[s] \in [Names -> Nat] /\ peer[s] \in [Names -> Nat]
    /\ at[s] \in [Names -> {"new", "listed", "announced", "registered"}]
    /\ link[s] \in Seq([to : {0}, name : Names, id : Nat] \cup [to : Nat, data : Nat])
    /\ \A n \in Names : {queue[s][n], sent[s][n], got[s][n]} \subseteq Seq(Nat)

\* A connected socket's other end is the socket of its own name, although registrations
\* cross and each side gives out ids of its own (svf_bridge.cpp:55-79, 104-127).
RightPeer ==
  \A s \in Side, n \in Names :
    peer[s][n] # 0 =>
      /\ peer[s][n] \in DOMAIN local[Other(s)]
      /\ local[Other(s)][peer[s][n]] = n

\* No data arrives before the socket it is for is registered: nothing under way will be
\* dropped as "message sent to unknown socket" (svf_bridge.cpp:134-139).
NothingDropped ==
  \A s \in Side : \A i \in DOMAIN link[s] : link[s][i].to = 0 \/ link[s][i].to \in DOMAIN local[s]

\* The data the sockets send are numbered.
Items == UNION {1 .. Most[s][n] : s \in Side, n \in Names}

Fifos ==
  INSTANCE SocketFifos WITH
    Ends  <- Side \X Names,
    sent  <- [e \in Side \X Names |-> sent[e[1]][e[2]]],
    got   <- [e \in Side \X Names |-> got[Other(e[1])][e[2]]]

\* Each pair of sockets has a FIFO each way, whatever the other sockets send over the
\* same link (svf_bridge_socket.cpp:48-74, 90-108).
SocketsAreFifos == Fifos!Spec

\* And no message is left behind, in the link or in a queue that others pass by
\* (svf_bridge.cpp:129-141, svf_bridge_socket.cpp:90-108).
SocketsDeliver == Fifos!Live

\* Sockets that have been registered on both sides get connected, on both: of two
\* registrations that cross, neither is missed (svf_bridge.cpp:69-78, 117-126).
PeersConnect ==
  \A n \in Names :
    (\A s \in Side : at[s][n] # "new") ~> (\A s \in Side : peer[s][n] # 0)
=============================================================================
