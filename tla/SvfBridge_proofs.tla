-------------------------- MODULE SvfBridge_proofs --------------------------
(***************************************************************************)
(* Theorems about SvfBridge, for any set of names and any traffic: types,  *)
(* and that sockets are connected to their namesakes and nothing under way *)
(* is for a socket that is not there.                                      *)
(***************************************************************************)
EXTENDS SvfBridge, WellFoundedInduction, TLAPS

Entry   == [name : Names, id : Nat]
Message == [to : {0}, name : Names, id : Nat] \cup [to : Nat, data : Nat]
Stages  == {"new", "listed", "announced", "registered"}

Types ==
  /\ local \in [Side -> Seq(Names)]
  /\ remote \in [Side -> Seq(Entry)]
  /\ id \in [Side -> [Names -> Nat]]
  /\ peer \in [Side -> [Names -> Nat]]
  /\ queue \in [Side -> [Names -> Seq(Nat)]]
  /\ at \in [Side -> [Names -> Stages]]
  /\ link \in [Side -> Seq(Message)]
  /\ sent \in [Side -> [Names -> Seq(Nat)]]
  /\ got \in [Side -> [Names -> Seq(Nat)]]

\* i is the id of socket n of side s.
IdOf(s, n, i) == i \in DOMAIN local[s] /\ local[s][i] = n

\* A socket that has an id is on the list at its place.
Listed == \A s \in Side, n \in Names : at[s][n] # "new" => IdOf(s, n, id[s][n])

\* What a side has been told of the other's sockets is so.
Learned ==
  \A s \in Side : \A i \in DOMAIN remote[s] : IdOf(Other(s), remote[s][i].name, remote[s][i].id)

\* What it is about to be told is so too, and data is for a socket that is there.
UnderWay ==
  \A s \in Side : \A i \in DOMAIN link[s] :
    /\ link[s][i].to = 0 => IdOf(Other(s), link[s][i].name, link[s][i].id)
    /\ link[s][i].to # 0 => link[s][i].to \in DOMAIN local[s]

BridgeInv == Types /\ Listed /\ Learned /\ UnderWay /\ RightPeer

-----------------------------------------------------------------------------
(* Sides and sequences.                                                    *)

LEMMA Sides ==
  \A s \in Side : Other(s) \in Side /\ Other(Other(s)) = s /\ Other(s) # s
      /\ \A t \in Side : t = s \/ t = Other(s)
  BY DEF Side, Other

LEMMA AppendFacts ==
  ASSUME NEW S, NEW q \in Seq(S), NEW x \in S
  PROVE  /\ Append(q, x) \in Seq(S)
         /\ DOMAIN Append(q, x) = 1 .. Len(q) + 1 /\ DOMAIN q = 1 .. Len(q)
         /\ \A i \in DOMAIN q : i \in DOMAIN Append(q, x) /\ Append(q, x)[i] = q[i]
         /\ Append(q, x)[Len(q) + 1] = x
         /\ Len(q) + 1 \in DOMAIN Append(q, x)
         /\ \A i \in DOMAIN Append(q, x) : i \in DOMAIN q \/ i = Len(q) + 1
  OBVIOUS

LEMMA TailFacts ==
  ASSUME NEW S, NEW q \in Seq(S), q # <<>>
  PROVE  /\ Tail(q) \in Seq(S) /\ Head(q) \in S
         /\ Head(q) = q[1] /\ 1 \in DOMAIN q
         /\ \A i \in DOMAIN Tail(q) : i + 1 \in DOMAIN q /\ Tail(q)[i] = q[i + 1]
  OBVIOUS

\* Positions have a first.
LEMMA FirstOf ==
  ASSUME NEW M \in SUBSET Nat, M # {}
  PROVE  (CHOOSE i \in M : \A j \in M : i <= j) \in M
  <1>. DEFINE R == OpToRel(<, Nat)
  <1>1. IsWellFoundedOn(R, Nat)
    BY NatLessThanWellFounded
  <1>2. \A x, y \in Nat : <<y, x>> \in R <=> y < x
    BY DEF OpToRel
  <1>. HIDE DEF R
  <1>3. PICK i \in M : \A j \in M : <<j, i>> \notin R
    BY <1>1, WFMin
  <1>4. ASSUME NEW j \in M PROVE i <= j
    <2>1. <<j, i>> \notin R /\ i \in Nat /\ j \in Nat
      BY <1>3
    <2>. QED BY <1>2, <2>1
  <1>. QED BY <1>4

-----------------------------------------------------------------------------
(* The list of local sockets only grows.                                   *)

LEMMA Grows ==
  ASSUME Types, [Next]_vars, NEW s \in Side
  PROVE  /\ DOMAIN local[s] \subseteq DOMAIN local'[s]
         /\ \A n, i : IdOf(s, n, i) => IdOf(s, n, i)'
  <1>1. CASE \E t \in Side, n \in Names : Register(t, n)
    <2>1. PICK t \in Side, n \in Names : Register(t, n)
      BY <1>1
    <2>2. local[t] \in Seq(Names)
      BY DEF Types
    <2>3. /\ local' = [local EXCEPT ![t] = Append(local[t], n)]
          /\ local \in [Side -> Seq(Names)]
      BY <2>1 DEF Register, Types
    <2>4. \A i \in DOMAIN local[t] : i \in DOMAIN Append(local[t], n) /\ Append(local[t], n)[i] = local[t][i]
      BY <2>2, AppendFacts
    <2>5. local'[s] = IF s = t THEN Append(local[t], n) ELSE local[s]
      BY <2>3
    <2>. QED BY <2>4, <2>5 DEF IdOf
  <1>2. CASE ~ \E t \in Side, n \in Names : Register(t, n)
    <2>1. local' = local
      BY <1>2 DEF Next, vars, sockets, Registers, RecvLoop, Announce, Search, Send, Receive, Learn, Deliver
    <2>. QED BY <2>1 DEF IdOf
  <1>. QED BY <1>1, <1>2

-----------------------------------------------------------------------------
(* Types.                                                                  *)

LEMMA EmptySeq == \A S : <<>> \in Seq(S)
  OBVIOUS

LEMMA InitTypes == BridgeInit => Types
  <1>. SUFFICES ASSUME BridgeInit PROVE Types
    OBVIOUS
  <1>1. /\ <<>> \in Seq(Names) /\ <<>> \in Seq(Entry) /\ <<>> \in Seq(Message) /\ <<>> \in Seq(Nat)
    BY EmptySeq
  <1>2. queue \in [Side -> [Names -> Seq(Nat)]]
    BY <1>1 DEF BridgeInit
  <1>3. /\ local \in [Side -> Seq(Names)]
        /\ remote \in [Side -> Seq(Entry)]
        /\ link \in [Side -> Seq(Message)]
    BY <1>1 DEF BridgeInit
  <1>4. at \in [Side -> [Names -> Stages]]
    BY DEF BridgeInit, Stages
  <1>5. id \in [Side -> [Names -> Nat]]
    BY DEF BridgeInit
  <1>. QED BY <1>2, <1>3, <1>4, <1>5 DEF Types, BridgeInit

LEMMA RegisterTypes ==
  ASSUME Types, NEW s \in Side, NEW n \in Names, Registers(s, n)
  PROVE  Types'
  <1>0. /\ local[s] \in Seq(Names) /\ remote[s] \in Seq(Entry)
        /\ link[Other(s)] \in Seq(Message) /\ Other(s) \in Side
        /\ id[s][n] \in Nat
    BY Sides DEF Types
  <1>1. CASE Register(s, n)
    <2>1. Append(local[s], n) \in Seq(Names) /\ Len(local[s]) + 1 \in Nat
      BY <1>0, AppendFacts
    <2>2. local' \in [Side -> Seq(Names)] /\ id' \in [Side -> [Names -> Nat]]
      BY <1>1, <2>1 DEF Register, Types
    <2>3. at' \in [Side -> [Names -> Stages]]
      BY <1>1 DEF Register, Types, Stages
    <2>. QED BY <1>1, <2>2, <2>3 DEF Register, Types
  <1>2. CASE Announce(s, n)
    <2>1. Registration(n, id[s][n]) \in Message
      BY <1>0 DEF Registration, Message
    <2>2. Append(link[Other(s)], Registration(n, id[s][n])) \in Seq(Message)
      BY <1>0, <2>1, AppendFacts
    <2>3. link' \in [Side -> Seq(Message)]
      BY <1>2, <2>2 DEF Announce, Transmit, Types
    <2>4. at' \in [Side -> [Names -> Stages]]
      BY <1>2 DEF Announce, Types, Stages
    <2>. QED BY <1>2, <2>3, <2>4 DEF Announce, Types, sockets
  <1>3. CASE Search(s, n)
    <2>. DEFINE matches == {i \in DOMAIN remote[s] : remote[s][i].name = n}
                first   == CHOOSE i \in matches : \A j \in matches : i <= j
    <2>1. peer' = IF matches = {} THEN peer ELSE [peer EXCEPT ![s][n] = remote[s][first].id]
      BY <1>3 DEF Search
    <2>2. matches # {} => first \in matches
      <3>1. matches \in SUBSET Nat
        BY <1>0
      <3>. HIDE DEF matches
      <3>. QED BY <3>1, FirstOf
    <2>3. matches # {} => remote[s][first].id \in Nat
      <3>. HIDE DEF first
      <3>1. matches # {} => first \in DOMAIN remote[s]
        BY <2>2
      <3>2. \A i \in DOMAIN remote[s] : remote[s][i] \in Entry
        BY <1>0
      <3>. QED BY <3>1, <3>2 DEF Entry
    <2>. HIDE DEF matches, first
    <2>4. peer' \in [Side -> [Names -> Nat]]
      BY <2>1, <2>3 DEF Types
    <2>5. at' \in [Side -> [Names -> Stages]]
      BY <1>3 DEF Search, Types, Stages
    <2>. QED BY <1>3, <2>4, <2>5 DEF Search, Types
  <1>. QED BY <1>1, <1>2, <1>3 DEF Registers

LEMMA SendTypes ==
  ASSUME Types, NEW s \in Side, NEW n \in Names, Send(s, n)
  PROVE  Types'
  <1>. DEFINE d == Len(sent[s][n]) + 1
  <1>1. /\ sent[s][n] \in Seq(Nat) /\ link[Other(s)] \in Seq(Message)
        /\ peer[s][n] \in Nat
    BY Sides DEF Types
  <1>2. d \in Nat /\ Data(peer[s][n], d) \in Message
    BY <1>1 DEF Data, Message
  <1>3. /\ Append(link[Other(s)], Data(peer[s][n], d)) \in Seq(Message)
        /\ Append(sent[s][n], d) \in Seq(Nat)
    BY <1>1, <1>2, AppendFacts
  <1>. HIDE DEF d
  <1>4. /\ link' = [link EXCEPT ![Other(s)] = Append(@, Data(peer[s][n], d))]
        /\ sent' = [sent EXCEPT ![s][n] = Append(@, d)]
    BY DEF Send, Transmit, d
  <1>5. link' \in [Side -> Seq(Message)] /\ sent' \in [Side -> [Names -> Seq(Nat)]]
    BY <1>3, <1>4 DEF Types
  <1>. QED BY <1>5 DEF Send, Types, sockets

LEMMA ReceiveTypes ==
  ASSUME Types, NEW s \in Side, NEW n \in Names, Receive(s, n)
  PROVE  Types'
  <1>1. queue[s][n] \in Seq(Nat) /\ queue[s][n] # <<>> /\ got[s][n] \in Seq(Nat)
    BY DEF Receive, Types
  <1>2. Head(queue[s][n]) \in Nat /\ Tail(queue[s][n]) \in Seq(Nat)
    BY <1>1, TailFacts
  <1>3. Append(got[s][n], Head(queue[s][n])) \in Seq(Nat)
    BY <1>1, <1>2, AppendFacts
  <1>4. got' \in [Side -> [Names -> Seq(Nat)]] /\ queue' \in [Side -> [Names -> Seq(Nat)]]
    BY <1>2, <1>3 DEF Receive, Types
  <1>. QED BY <1>4 DEF Receive, Types, sockets

LEMMA RecvTypes ==
  ASSUME Types, UnderWay, NEW s \in Side, RecvLoop(s)
  PROVE  Types'
  <1>. DEFINE msg == Head(link[s])
  <1>1. link[s] \in Seq(Message) /\ link[s] # <<>>
    BY DEF RecvLoop, Types
  <1>2. msg \in Message /\ Tail(link[s]) \in Seq(Message)
        /\ msg = link[s][1] /\ 1 \in DOMAIN link[s]
    BY <1>1, TailFacts
  <1>3. link' \in [Side -> Seq(Message)]
    BY <1>2 DEF RecvLoop, Types
  <1>4. CASE msg.to = 0
    <2>1. IdOf(Other(s), msg.name, msg.id)
      BY <1>2, <1>4 DEF UnderWay
    <2>2. local[Other(s)] \in Seq(Names)
      BY Sides DEF Types
    <2>3. msg.name \in Names /\ msg.id \in Nat
      BY <2>1, <2>2 DEF IdOf
    <2>4. [name |-> msg.name, id |-> msg.id] \in Entry /\ remote[s] \in Seq(Entry)
      BY <2>3 DEF Entry, Types
    <2>5. Append(remote[s], [name |-> msg.name, id |-> msg.id]) \in Seq(Entry)
      BY <2>4, AppendFacts
    <2>6. Learn(s, msg)
      BY <1>4 DEF RecvLoop
    <2>. HIDE DEF msg
    <2>7. remote' \in [Side -> Seq(Entry)] /\ peer' \in [Side -> [Names -> Nat]]
      BY <2>3, <2>5, <2>6 DEF Learn, Types
    <2>. QED BY <1>3, <2>6, <2>7 DEF RecvLoop, Learn, Types
  <1>5. CASE msg.to # 0
    <2>1. Deliver(s, msg)
      BY <1>5 DEF RecvLoop
    <2>2. msg.to \in DOMAIN local[s] /\ local[s] \in Seq(Names)
      BY <1>2, <1>5 DEF UnderWay, Types
    <2>3. local[s][msg.to] \in Names /\ msg.data \in Nat
      BY <1>2, <1>5, <2>2 DEF Message
    <2>. HIDE DEF msg
    <2>4. PICK n \in Names : n = local[s][msg.to]
      BY <2>3
    <2>5. queue[s][n] \in Seq(Nat) /\ queue \in [Side -> [Names -> Seq(Nat)]]
      BY DEF Types
    <2>6. Append(queue[s][n], msg.data) \in Seq(Nat)
      BY <2>3, <2>5, AppendFacts
    <2>7. queue' = [queue EXCEPT ![s][n] = Append(@, msg.data)]
      BY <2>1, <2>2, <2>4 DEF Deliver
    <2>8. queue' \in [Side -> [Names -> Seq(Nat)]]
      BY <2>5, <2>6, <2>7
    <2>. QED BY <1>3, <2>1, <2>8 DEF RecvLoop, Deliver, Types, sockets
  <1>. QED BY <1>4, <1>5

LEMMA StepTypes == BridgeInv /\ [Next]_vars => Types'
  <1>. SUFFICES ASSUME Types, UnderWay, [Next]_vars PROVE Types'
    BY DEF BridgeInv
  <1>1. CASE UNCHANGED vars
    BY <1>1 DEF vars, sockets, Types
  <1>2. CASE Next
    BY <1>2, RegisterTypes, SendTypes, ReceiveTypes, RecvTypes DEF Next
  <1>. QED BY <1>1, <1>2

-----------------------------------------------------------------------------
(* The invariant.                                                          *)

\* Announcing and sending put one message at the end of the other side's link.
LEMMA Transmitted ==
  ASSUME Types, UnderWay, NEW s \in Side, NEW msg \in Message, Transmit(s, msg),
         UNCHANGED local,
         msg.to = 0 => IdOf(s, msg.name, msg.id),
         msg.to # 0 => msg.to \in DOMAIN local[Other(s)]
  PROVE  UnderWay'
  <1>1. link[Other(s)] \in Seq(Message) /\ Other(s) \in Side
    BY Sides DEF Types
  <1>2. link'[Other(s)] = Append(link[Other(s)], msg) /\ link'[s] = link[s]
    BY <1>1, Sides DEF Transmit, Types
  <1>3. \A i \in DOMAIN link'[s] :
          /\ link'[s][i].to = 0 => IdOf(Other(s), link'[s][i].name, link'[s][i].id)
          /\ link'[s][i].to # 0 => link'[s][i].to \in DOMAIN local[s]
    BY <1>2 DEF UnderWay
  <1>4. ASSUME NEW i \in DOMAIN link'[Other(s)]
        PROVE  LET x == link'[Other(s)][i] IN
               /\ x.to = 0 => IdOf(s, x.name, x.id)
               /\ x.to # 0 => x.to \in DOMAIN local[Other(s)]
    <2>1. CASE i \in DOMAIN link[Other(s)]
      <3>1. link'[Other(s)][i] = link[Other(s)][i]
        BY <1>1, <1>2, <2>1, AppendFacts
      <3>. QED BY <1>1, <2>1, <3>1, Sides DEF UnderWay
    <2>2. CASE i = Len(link[Other(s)]) + 1
      <3>1. link'[Other(s)][i] = msg
        BY <1>1, <1>2, <2>2, AppendFacts
      <3>. QED BY <3>1
    <2>. QED BY <1>1, <1>2, <1>4, <2>1, <2>2, AppendFacts
  <1>5. ASSUME NEW t \in Side, NEW i \in DOMAIN link'[t]
        PROVE  /\ link'[t][i].to = 0 => IdOf(Other(t), link'[t][i].name, link'[t][i].id)
               /\ link'[t][i].to # 0 => link'[t][i].to \in DOMAIN local[t]
    <2>1. CASE t = s
      BY <1>3, <2>1
    <2>2. CASE t = Other(s)
      BY <1>4, <2>2, Sides
    <2>. QED BY <2>1, <2>2, Sides
  <1>. QED BY <1>5 DEF UnderWay, IdOf

\* Where no new names are told, what was told stays so.
LEMMA StillLearned ==
  ASSUME Types, Learned, [Next]_vars, UNCHANGED remote
  PROVE  Learned'
  <1>1. ASSUME NEW s \in Side, NEW i \in DOMAIN remote[s]
        PROVE  IdOf(Other(s), remote[s][i].name, remote[s][i].id)'
    BY Grows, Sides DEF Learned, IdOf
  <1>. QED BY <1>1 DEF Learned, IdOf

LEMMA StillUnderWay ==
  ASSUME Types, UnderWay, [Next]_vars, UNCHANGED link
  PROVE  UnderWay'
  <1>1. ASSUME NEW s \in Side, NEW i \in DOMAIN link[s]
        PROVE  /\ link[s][i].to = 0 => IdOf(Other(s), link[s][i].name, link[s][i].id)'
               /\ link[s][i].to # 0 => link[s][i].to \in DOMAIN local'[s]
    BY Grows, Sides DEF UnderWay, IdOf
  <1>. QED BY <1>1 DEF UnderWay, IdOf

LEMMA StillListed ==
  ASSUME Types, Listed, [Next]_vars, UNCHANGED <<id, at>>
  PROVE  Listed'
  <1>1. ASSUME NEW s \in Side, NEW n \in Names, at[s][n] # "new"
        PROVE  IdOf(s, n, id[s][n])'
    BY <1>1, Grows DEF Listed, IdOf
  <1>. QED BY <1>1 DEF Listed, IdOf

LEMMA StillRightPeer ==
  ASSUME Types, RightPeer, [Next]_vars, UNCHANGED peer
  PROVE  RightPeer'
  <1>1. ASSUME NEW s \in Side, NEW n \in Names, peer[s][n] # 0
        PROVE  IdOf(Other(s), n, peer[s][n])'
    BY <1>1, Grows, Sides DEF RightPeer, IdOf
  <1>. QED BY <1>1 DEF RightPeer, IdOf

LEMMA RegisterKeeps ==
  ASSUME BridgeInv, NEW s \in Side, NEW n \in Names, Registers(s, n), [Next]_vars
  PROVE  Listed' /\ Learned' /\ UnderWay' /\ RightPeer'
  <1>. USE DEF BridgeInv
  <1>0. Learned'
    BY StillLearned DEF Registers, Register, Announce, Search, sockets
  <1>1. CASE Register(s, n)
    <2>1. ASSUME NEW t \in Side, NEW m \in Names, at'[t][m] # "new"
          PROVE  id'[t][m] \in DOMAIN local'[t] /\ local'[t][id'[t][m]] = m
      <3>1. CASE t = s /\ m = n
        <4>1. local[s] \in Seq(Names)
          BY DEF Types
        <4>2. local'[s] = Append(local[s], n) /\ id'[s][n] = Len(local[s]) + 1
          BY <1>1 DEF Register, Types
        <4>. QED BY <3>1, <4>1, <4>2, AppendFacts
      <3>2. CASE ~ (t = s /\ m = n)
        <4>1. at'[t][m] = at[t][m] /\ id'[t][m] = id[t][m]
          BY <1>1, <3>2 DEF Register, Types
        <4>. DEFINE i == id[t][m]
        <4>2. i \in DOMAIN local[t] /\ local[t][i] = m
          BY <2>1, <4>1 DEF Listed, IdOf
        <4>. HIDE DEF i
        <4>3. i \in DOMAIN local'[t] /\ local'[t][i] = m
          BY <4>2, Grows DEF IdOf
        <4>. QED BY <4>1, <4>3 DEF i
      <3>. QED BY <3>1, <3>2
    <2>2. Listed'
      BY <2>1 DEF Listed, IdOf
    <2>. QED BY <1>0, <1>1, <2>2, StillUnderWay, StillRightPeer DEF Register
  <1>2. CASE Announce(s, n)
    <2>1. at[s][n] # "new" /\ UNCHANGED <<local, remote, id, peer>>
          /\ \A t \in Side, m \in Names : at'[t][m] # "new" => at[t][m] # "new"
      BY <1>2 DEF Announce, sockets, Types
    <2>2. Listed'
      BY <2>1 DEF Listed, IdOf
    <2>. DEFINE msg == Registration(n, id[s][n])
    <2>3. msg \in Message /\ msg.to = 0 /\ IdOf(s, msg.name, msg.id)
      BY <2>1 DEF Registration, Message, Types, Listed
    <2>4. Transmit(s, msg)
      BY <1>2 DEF Announce
    <2>. HIDE DEF msg
    <2>5. UnderWay'
      BY <2>1, <2>3, <2>4, Transmitted
    <2>. QED BY <1>0, <2>1, <2>2, <2>5, StillRightPeer
  <1>3. CASE Search(s, n)
    <2>1. UNCHANGED <<local, id, link>>
          /\ at[s][n] # "new"
          /\ \A t \in Side, m \in Names : at'[t][m] # "new" => at[t][m] # "new"
      BY <1>3 DEF Search, Types
    <2>2. Listed'
      BY <2>1 DEF Listed, IdOf
    <2>. DEFINE matches == {i \in DOMAIN remote[s] : remote[s][i].name = n}
                first   == CHOOSE i \in matches : \A j \in matches : i <= j
    <2>3. peer' = IF matches = {} THEN peer ELSE [peer EXCEPT ![s][n] = remote[s][first].id]
      BY <1>3 DEF Search
    <2>4. matches # {} => IdOf(Other(s), n, remote[s][first].id)
      <3>1. matches \in SUBSET Nat
        BY DEF Types
      <3>2. matches # {} => first \in matches
        <4>. HIDE DEF matches
        <4>. QED BY <3>1, FirstOf
      <3>. HIDE DEF first
      <3>3. matches # {} => first \in DOMAIN remote[s] /\ remote[s][first].name = n
        BY <3>2
      <3>. QED BY <3>3 DEF Learned
    <2>. HIDE DEF matches, first
    <2>5. ASSUME NEW t \in Side, NEW m \in Names, peer'[t][m] # 0
          PROVE  IdOf(Other(t), m, peer'[t][m])
      <3>1. peer \in [Side -> [Names -> Nat]]
        BY DEF Types
      <3>2. CASE t = s /\ m = n /\ matches # {}
        BY <2>3, <2>4, <3>1, <3>2
      <3>3. CASE ~ (t = s /\ m = n /\ matches # {})
        <4>1. peer'[t][m] = peer[t][m]
          BY <2>3, <3>1, <3>3
        <4>. QED BY <2>5, <4>1 DEF RightPeer, IdOf
      <3>. QED BY <3>2, <3>3
    <2>6. RightPeer'
      BY <2>1, <2>5 DEF RightPeer, IdOf
    <2>. QED BY <1>0, <2>1, <2>2, <2>6, StillUnderWay
  <1>. QED BY <1>1, <1>2, <1>3 DEF Registers

LEMMA SendKeeps ==
  ASSUME BridgeInv, NEW s \in Side, NEW n \in Names, Send(s, n), [Next]_vars
  PROVE  Listed' /\ Learned' /\ UnderWay' /\ RightPeer'
  <1>. USE DEF BridgeInv
  <1>1. UNCHANGED <<local, remote, id, peer, at>>
    BY DEF Send, sockets
  <1>. DEFINE msg == Data(peer[s][n], Len(sent[s][n]) + 1)
  <1>2. msg \in Message /\ msg.to # 0 /\ msg.to \in DOMAIN local[Other(s)]
    <2>1. peer[s][n] \in Nat /\ Len(sent[s][n]) + 1 \in Nat /\ peer[s][n] # 0
      BY DEF Types, Send
    <2>. QED BY <2>1 DEF Data, Message, RightPeer
  <1>3. Transmit(s, msg)
    BY DEF Send
  <1>. HIDE DEF msg
  <1>4. UnderWay'
    BY <1>1, <1>2, <1>3, Transmitted
  <1>. QED BY <1>1, <1>4, StillLearned, StillListed, StillRightPeer

\* What is told is so, and ours is connected to it.
LEMMA RecvKeeps ==
  ASSUME BridgeInv, NEW s \in Side, RecvLoop(s), [Next]_vars
  PROVE  Listed' /\ Learned' /\ UnderWay' /\ RightPeer'
  <1>. USE DEF BridgeInv
  <1>. DEFINE msg == Head(link[s])
  <1>1. link[s] \in Seq(Message) /\ link[s] # <<>> /\ link \in [Side -> Seq(Message)]
    BY DEF RecvLoop, Types
  <1>2. /\ msg = link[s][1] /\ 1 \in DOMAIN link[s]
        /\ \A i \in DOMAIN Tail(link[s]) : i + 1 \in DOMAIN link[s] /\ Tail(link[s])[i] = link[s][i + 1]
    BY <1>1, TailFacts
  <1>3. UNCHANGED <<local, id, at>> /\ link' = [link EXCEPT ![s] = Tail(link[s])]
    BY DEF RecvLoop, Learn, Deliver, sockets
  <1>4. ASSUME NEW t \in Side, NEW i \in DOMAIN link'[t]
        PROVE  /\ link'[t][i].to = 0 => IdOf(Other(t), link'[t][i].name, link'[t][i].id)
               /\ link'[t][i].to # 0 => link'[t][i].to \in DOMAIN local[t]
    <2>1. link'[t] = IF t = s THEN Tail(link[s]) ELSE link[t]
      BY <1>1, <1>3
    <2>2. PICK j \in DOMAIN link[t] : link'[t][i] = link[t][j]
      BY <1>2, <2>1
    <2>. QED BY <2>2 DEF UnderWay
  <1>5. UnderWay'
    BY <1>3, <1>4 DEF UnderWay, IdOf
  <1>6. Listed'
    BY <1>3 DEF Listed, IdOf
  <1>7. CASE msg.to = 0
    <2>1. IdOf(Other(s), msg.name, msg.id)
      BY <1>2, <1>7 DEF UnderWay
    <2>2. Learn(s, msg)
      BY <1>7 DEF RecvLoop
    <2>. HIDE DEF msg
    <2>. DEFINE entry == [name |-> msg.name, id |-> msg.id]
    <2>3. local[Other(s)] \in Seq(Names) /\ remote[s] \in Seq(Entry)
      BY Sides DEF Types
    <2>4. entry \in Entry
      BY <2>1, <2>3 DEF IdOf, Entry
    <2>5. \A t \in Side : remote'[t] = IF t = s THEN Append(remote[s], entry) ELSE remote[t]
      BY <2>2 DEF Learn, Types
    <2>6. ASSUME NEW t \in Side, NEW i \in DOMAIN remote'[t]
          PROVE  IdOf(Other(t), remote'[t][i].name, remote'[t][i].id)
      <3>1. CASE t = s /\ i = Len(remote[s]) + 1
        <4>1. remote'[t][i] = entry
          <5>. HIDE DEF entry
          <5>1. Append(remote[s], entry)[Len(remote[s]) + 1] = entry
            BY <2>3, <2>4, AppendFacts
          <5>. QED BY <2>5, <3>1, <5>1
        <4>. QED BY <2>1, <3>1, <4>1
      <3>2. CASE ~ (t = s /\ i = Len(remote[s]) + 1)
        <4>1. i \in DOMAIN remote[t] /\ remote'[t][i] = remote[t][i]
          <5>. HIDE DEF entry
          <5>1. CASE t = s
            <6>1. remote'[t] = Append(remote[s], entry) /\ i \in DOMAIN Append(remote[s], entry)
              BY <2>5, <5>1
            <6>2. i \in DOMAIN remote[s]
              BY <2>3, <2>4, <3>2, <5>1, <6>1, AppendFacts
            <6>3. Append(remote[s], entry)[i] = remote[s][i]
              BY <2>3, <2>4, <6>2, AppendFacts
            <6>. QED BY <5>1, <6>1, <6>2, <6>3
          <5>2. CASE t # s
            BY <2>5, <5>2
          <5>. QED BY <5>1, <5>2
        <4>. QED BY <4>1 DEF Learned
      <3>. QED BY <3>1, <3>2
    <2>7. Learned'
      BY <1>3, <2>6 DEF Learned, IdOf
    <2>8. ASSUME NEW t \in Side, NEW n \in Names, peer'[t][n] # 0
          PROVE  IdOf(Other(t), n, peer'[t][n])
      <3>1. peer \in [Side -> [Names -> Nat]]
        BY DEF Types
      <3>2. \/ peer'[t][n] = peer[t][n]
            \/ t = s /\ n = msg.name /\ peer'[t][n] = msg.id
        BY <2>2, <3>1 DEF Learn
      <3>. QED BY <2>1, <2>8, <3>2 DEF RightPeer, IdOf
    <2>9. RightPeer'
      BY <1>3, <2>8 DEF RightPeer, IdOf
    <2>. QED BY <1>5, <1>6, <2>7, <2>9
  <1>8. CASE msg.to # 0
    <2>1. UNCHANGED <<remote, peer>>
      BY <1>8 DEF RecvLoop, Deliver, sockets
    <2>. QED BY <1>5, <1>6, <2>1, StillLearned, StillRightPeer
  <1>. QED BY <1>7, <1>8

LEMMA InvStep == BridgeInv /\ [Next]_vars => BridgeInv'
  <1>. SUFFICES ASSUME BridgeInv, [Next]_vars PROVE BridgeInv'
    OBVIOUS
  <1>1. Types'
    BY StepTypes
  <1>2. CASE UNCHANGED vars
    BY <1>1, <1>2, StillListed, StillLearned, StillUnderWay, StillRightPeer DEF BridgeInv, vars, sockets
  <1>3. CASE \E s \in Side, n \in Names : Registers(s, n)
    BY <1>1, <1>3, RegisterKeeps DEF BridgeInv
  <1>4. CASE \E s \in Side, n \in Names : Send(s, n)
    BY <1>1, <1>4, SendKeeps DEF BridgeInv
  <1>5. CASE \E s \in Side, n \in Names : Receive(s, n)
    BY <1>1, <1>5, StillListed, StillLearned, StillUnderWay, StillRightPeer DEF BridgeInv, Receive, sockets
  <1>6. CASE \E s \in Side : RecvLoop(s)
    BY <1>1, <1>6, RecvKeeps DEF BridgeInv
  <1>. QED BY <1>2, <1>3, <1>4, <1>5, <1>6 DEF Next

LEMMA InvInit == BridgeInit => BridgeInv
  <1>. SUFFICES ASSUME BridgeInit PROVE BridgeInv
    OBVIOUS
  <1>1. Types
    BY InitTypes
  <1>2. \A s \in Side : remote[s] = <<>> /\ link[s] = <<>>
          /\ \A n \in Names : at[s][n] = "new" /\ peer[s][n] = 0
    BY DEF BridgeInit
  <1>3. Listed /\ RightPeer
    BY <1>2 DEF Listed, RightPeer
  <1>4. Learned /\ UnderWay
    BY <1>2 DEF Learned, UnderWay
  <1>. QED BY <1>1, <1>3, <1>4 DEF BridgeInv

LEMMA InvAlways == Spec => []BridgeInv
  BY InvInit, InvStep, PTL DEF Spec

-----------------------------------------------------------------------------
(* Theorems.                                                               *)

\* All state stays well typed, whatever is registered and sent and in whatever order
\* the messages of the two sides cross (svf_bridge.cpp:55-142).
THEOREM BridgeTypeCorrect == Spec => []BridgeTypeOK
  <1>1. ASSUME Types, NEW s \in Side
        PROVE  /\ local[s] \in Seq(Names)
               /\ remote[s] \in Seq(Entry)
               /\ id[s] \in [Names -> Nat] /\ peer[s] \in [Names -> Nat]
               /\ at[s] \in [Names -> Stages]
               /\ link[s] \in Seq(Message)
               /\ \A n \in Names : {queue[s][n], sent[s][n], got[s][n]} \subseteq Seq(Nat)
    BY <1>1 DEF Types
  <1>2. BridgeInv => BridgeTypeOK
    BY <1>1 DEF BridgeInv, BridgeTypeOK, Entry, Message, Stages
  <1>. QED BY <1>2, InvAlways, PTL

\* A connected socket's other end has its name, for any number of sockets and however
\* their registrations cross (svf_bridge.cpp:55-79, 104-127).
THEOREM ConnectedToNamesake == Spec => []RightPeer
  <1>1. BridgeInv => RightPeer
    BY DEF BridgeInv
  <1>. QED BY <1>1, InvAlways, PTL

\* No data under way is for a socket that is not there: recv_loop never drops a message
\* of a socket that has been told its other end (svf_bridge.cpp:134-139).
THEOREM DataFindsItsSocket == Spec => []NothingDropped
  <1>1. BridgeInv => NothingDropped
    BY DEF BridgeInv, UnderWay, NothingDropped
  <1>. QED BY <1>1, InvAlways, PTL
-----------------------------------------------------------------------------
(***************************************************************************)
(* SvfBridge implements SocketFifos, for any set of names and any traffic: *)
(* a pair of sockets has a FIFO each way, whatever the other sockets send  *)
(* over the same link.  The data of a socket are numbered as they are      *)
(* sent, so the invariant says where each number is.                       *)
(***************************************************************************)


\* The i-th message under way to side s is data for its socket n.
For(s, n, i) == i \in DOMAIN link[s] /\ link[s][i].to # 0 /\ local[s][link[s][i].to] = n

\* How much of what was sent to socket n of side s has come out of the link.
Arrived(s, n) == Len(got[s][n]) + Len(queue[s][n])

\* A number is received, then those in the queue, and the rest are under way in order,
\* each of them: none is lost and none is there twice.
Numbered(s, n) ==
  LET o == Other(s) IN
  /\ \A k \in DOMAIN sent[s][n] : sent[s][n][k] = k
  /\ \A k \in DOMAIN got[o][n] : got[o][n][k] = k
  /\ \A k \in DOMAIN queue[o][n] : queue[o][n][k] = Len(got[o][n]) + k
  /\ Arrived(o, n) <= Len(sent[s][n])

InOrder(s, n) ==
  LET o == Other(s) IN
  /\ \A i \in DOMAIN link[o] :
       For(o, n, i) => Arrived(o, n) < link[o][i].data /\ link[o][i].data <= Len(sent[s][n])
  /\ \A i, j \in DOMAIN link[o] :
       For(o, n, i) /\ For(o, n, j) /\ i < j => link[o][i].data < link[o][j].data
  /\ \A k \in Arrived(o, n) + 1 .. Len(sent[s][n]) :
       \E i \in DOMAIN link[o] : For(o, n, i) /\ link[o][i].data = k

StreamsInv == \A s \in Side, n \in Names : Numbered(s, n) /\ InOrder(s, n)
-----------------------------------------------------------------------------
(* The link.                                                               *)

LEMMA ForKept ==
  ASSUME Types, UnderWay, [Next]_vars, NEW s \in Side, NEW n \in Names,
         NEW i \in DOMAIN link[s], NEW j \in DOMAIN link'[s], link'[s][j] = link[s][i]
  PROVE  For(s, n, i) <=> For(s, n, j)'
<1> DEFINE to == link[s][i].to
<1>1. link'[s][j].to = to OBVIOUS
<1>2. to # 0 => to \in DOMAIN local[s] BY DEF UnderWay
<1>3. to # 0 => local'[s][to] = local[s][to]
  <2>1. PICK a, m : a = to /\ m = local[s][to] OBVIOUS
  <2>2. to # 0 => a \in DOMAIN local[s] /\ local[s][a] = m BY <1>2, <2>1
  <2>3. to # 0 => local'[s][a] = m BY <2>2, Grows DEF IdOf
  <2> QED BY <2>1, <2>3
<1> QED BY <1>1, <1>3 DEF For

LEMMA ArrivedNat ==
  ASSUME Types, NEW s \in Side, NEW n \in Names
  PROVE  Arrived(s, n) \in Nat
<1>1. PICK g \in Seq(Nat), q \in Seq(Nat) : g = got[s][n] /\ q = queue[s][n] BY DEF Types
<1>2. Len(g) + Len(q) \in Nat OBVIOUS
<1>3. Arrived(s, n) = Len(g) + Len(q) BY <1>1 DEF Arrived
<1> QED BY <1>2, <1>3

LEMMA DataUnderWay ==
  ASSUME Types, NEW s \in Side, NEW n \in Names, NEW i \in DOMAIN link[s], For(s, n, i)
  PROVE  link[s][i].data \in Nat /\ link[s][i].to \in Nat
<1>1. link[s] \in Seq(Message) BY DEF Types
<1>2. link[s][i] \in Message BY <1>1
<1> QED BY <1>2 DEF For, Message

\* What is under way to a socket is what it was, apart from k messages gone before it.
Shifted(s, n, k) ==
  /\ \A j \in DOMAIN link'[s] :
       For(s, n, j)' => /\ j + k \in DOMAIN link[s] /\ For(s, n, j + k)
                        /\ link'[s][j] = link[s][j + k]
  /\ \A i \in DOMAIN link[s] :
       For(s, n, i) => \E j \in DOMAIN link'[s] : For(s, n, j)' /\ link'[s][j] = link[s][i]

LEMMA OrderKept ==
  ASSUME Types, NEW s \in Side, NEW n \in Names, InOrder(s, n),
         NEW k \in Nat, Shifted(Other(s), n, k),
         Types', Arrived(Other(s), n)' = Arrived(Other(s), n),
         Len(sent'[s][n]) = Len(sent[s][n])
  PROVE  InOrder(s, n)'
<1> DEFINE o == Other(s)
<1>1. o \in Side /\ link'[o] \in Seq(Message) BY Sides DEF Types
<1>2. \A j \in DOMAIN link'[o] : j \in Nat BY <1>1
<1> HIDE DEF o
<1>3. ASSUME NEW j \in DOMAIN link'[o], For(o, n, j)'
      PROVE  Arrived(o, n)' < link'[o][j].data /\ link'[o][j].data <= Len(sent'[s][n])
  BY <1>3 DEF Shifted, InOrder, o
<1>4. ASSUME NEW i \in DOMAIN link'[o], NEW j \in DOMAIN link'[o], For(o, n, i)', For(o, n, j)', i < j
      PROVE  link'[o][i].data < link'[o][j].data
  <2>1. /\ i + k \in DOMAIN link[o] /\ j + k \in DOMAIN link[o] /\ i + k < j + k
        /\ For(o, n, i + k) /\ For(o, n, j + k)
        /\ link'[o][i] = link[o][i + k] /\ link'[o][j] = link[o][j + k]
    BY <1>2, <1>4 DEF Shifted, o
  <2> QED BY <2>1 DEF InOrder, o
<1>5. ASSUME NEW d \in Arrived(o, n)' + 1 .. Len(sent'[s][n])
      PROVE  \E i \in DOMAIN link'[o] : For(o, n, i)' /\ link'[o][i].data = d
  <2>1. PICK i \in DOMAIN link[o] : For(o, n, i) /\ link[o][i].data = d
    BY DEF InOrder, o
  <2> QED BY <2>1 DEF Shifted, o
<1> QED BY <1>3, <1>4, <1>5 DEF InOrder, o

\* A link that nothing was taken from and nothing put on for the socket.
LEMMA Unshifted ==
  ASSUME Types, UnderWay, [Next]_vars, NEW s \in Side, NEW n \in Names,
         \/ link'[s] = link[s]
         \/ \E msg \in Message :
              /\ link'[s] = Append(link[s], msg)
              /\ ~(msg.to # 0 /\ local'[s][msg.to] = n)
  PROVE  Shifted(s, n, 0)
<1>1. link[s] \in Seq(Message) BY DEF Types
<1>2. \A i \in DOMAIN link[s] : i + 0 = i /\ i \in Nat BY <1>1
<1>3. CASE link'[s] = link[s]
  BY <1>2, <1>3, ForKept DEF Shifted
<1>4. CASE \E msg \in Message : /\ link'[s] = Append(link[s], msg)
                                /\ ~(msg.to # 0 /\ local'[s][msg.to] = n)
  <2>1. PICK msg \in Message : /\ link'[s] = Append(link[s], msg)
                               /\ ~(msg.to # 0 /\ local'[s][msg.to] = n)
    BY <1>4
  <2>2. /\ \A i \in DOMAIN link[s] : i \in DOMAIN link'[s] /\ link'[s][i] = link[s][i]
        /\ \A i \in DOMAIN link'[s] : i \in DOMAIN link[s] \/ i = Len(link[s]) + 1
        /\ link'[s][Len(link[s]) + 1] = msg
    BY <1>1, <2>1, AppendFacts
  <2>3. ASSUME NEW j \in DOMAIN link'[s], For(s, n, j)'
        PROVE  j \in DOMAIN link[s] /\ For(s, n, j)
    <3>1. j # Len(link[s]) + 1 BY <2>1, <2>2, <2>3 DEF For
    <3>2. j \in DOMAIN link[s] BY <2>2, <3>1
    <3> QED BY <2>2, <2>3, <3>2, ForKept
  <2> QED BY <1>2, <2>2, <2>3, ForKept DEF Shifted
<1> QED BY <1>3, <1>4
-----------------------------------------------------------------------------
(* The invariant, action by action.                                        *)

\* What an action leaves alone for the stream out of socket n of side s.
Quiet(s, n) ==
  /\ sent'[s][n] = sent[s][n]
  /\ got'[Other(s)][n] = got[Other(s)][n]
  /\ queue'[Other(s)][n] = queue[Other(s)][n]

LEMMA QuietKeeps ==
  ASSUME Types, Types', NEW s \in Side, NEW n \in Names, Numbered(s, n), InOrder(s, n),
         Quiet(s, n), NEW k \in Nat, Shifted(Other(s), n, k)
  PROVE  Numbered(s, n)' /\ InOrder(s, n)'
<1>1. Arrived(Other(s), n)' = Arrived(Other(s), n) BY DEF Quiet, Arrived
<1>2. Numbered(s, n)' BY DEF Numbered, Quiet, Arrived
<1>3. InOrder(s, n)' BY <1>1, OrderKept DEF Quiet
<1> QED BY <1>2, <1>3

LEMMA RegistersStreams ==
  ASSUME BridgeInv, Types', [Next]_vars, NEW t \in Side, NEW m \in Names, Registers(t, m),
         NEW s \in Side, NEW n \in Names, Numbered(s, n), InOrder(s, n)
  PROVE  Numbered(s, n)' /\ InOrder(s, n)'
<1>1. Types /\ UnderWay BY DEF BridgeInv
<1>2. Quiet(s, n) BY DEF Registers, Register, Announce, Search, Quiet
<1>3. Other(s) \in Side BY Sides
<1>4. \/ link'[Other(s)] = link[Other(s)]
      \/ \E msg \in Message : /\ link'[Other(s)] = Append(link[Other(s)], msg)
                              /\ msg.to = 0
  <2>1. CASE Register(t, m) \/ Search(t, m) BY <2>1 DEF Register, Search
  <2>2. CASE Announce(t, m)
    <3> DEFINE msg == Registration(m, id[t][m])
    <3>1. msg \in Message /\ msg.to = 0 BY <1>1 DEF Registration, Message, Types
    <3>2. link' = [link EXCEPT ![Other(t)] = Append(@, msg)] BY <2>2 DEF Announce, Transmit
    <3> HIDE DEF msg
    <3>3. \/ link'[Other(s)] = link[Other(s)]
          \/ link'[Other(s)] = Append(link[Other(s)], msg)
      BY <1>1, <1>3, <3>2 DEF Types
    <3> QED BY <3>1, <3>3
  <2> QED BY <2>1, <2>2 DEF Registers
<1>5. Shifted(Other(s), n, 0) BY <1>1, <1>3, <1>4, Unshifted
<1> QED BY <1>1, <1>2, <1>5, QuietKeeps

LEMMA ReceiveStreams ==
  ASSUME BridgeInv, Types', [Next]_vars, NEW t \in Side, NEW m \in Names, Receive(t, m),
         NEW s \in Side, NEW n \in Names, Numbered(s, n), InOrder(s, n)
  PROVE  Numbered(s, n)' /\ InOrder(s, n)'
<1>0. PICK o \in Side : o = Other(s) BY Sides
<1>1. Types /\ UnderWay BY DEF BridgeInv
<1>2. o \in Side /\ link' = link /\ sent' = sent BY <1>0 DEF Receive
<1>3. Shifted(o, n, 0) BY <1>1, <1>2, Unshifted
<1>4. CASE t = o /\ m = n
  <2>0. PICK g \in Seq(Nat), q \in Seq(Nat) : g = got[o][n] /\ q = queue[o][n]
    <3>1. got[o][n] \in Seq(Nat) /\ queue[o][n] \in Seq(Nat) BY <1>1 DEF Types
    <3> QED BY <3>1
  <2>1. q # <<>> BY <1>4, <2>0 DEF Receive
  <2>2. queue'[o][n] = Tail(q) /\ got'[o][n] = Append(g, Head(q))
    BY <1>1, <1>2, <1>4, <2>0 DEF Types, Receive
  <2>3. /\ Head(q) = q[1] /\ Head(q) \in Nat /\ 1 \in DOMAIN q
        /\ \A k \in DOMAIN Tail(q) : k + 1 \in DOMAIN q /\ Tail(q)[k] = q[k + 1] /\ k \in Nat
    <3>1. \A k \in DOMAIN Tail(q) : k + 1 \in DOMAIN q /\ Tail(q)[k] = q[k + 1] /\ k \in Nat
      BY <2>1
    <3> QED BY <2>1, <3>1, TailFacts
  <2>4. /\ Len(Tail(q)) = Len(q) - 1 /\ Len(Append(g, Head(q))) = Len(g) + 1
        /\ Len(q) \in Nat \ {0} /\ Len(g) \in Nat
    <3>1. Len(q) \in Nat \ {0} /\ Len(g) \in Nat BY <2>1
    <3>2. Len(Tail(q)) = Len(q) - 1 BY <2>1
    <3>3. Len(Append(g, Head(q))) = Len(g) + 1 BY <2>3
    <3> QED BY <3>1, <3>2, <3>3
  <2>5. /\ \A k \in DOMAIN g : Append(g, Head(q))[k] = g[k]
        /\ Append(g, Head(q))[Len(g) + 1] = Head(q)
        /\ \A k \in DOMAIN Append(g, Head(q)) : k \in DOMAIN g \/ k = Len(g) + 1
    BY <2>1, <2>3
  <2>6. Arrived(o, n)' = Arrived(o, n)
    <3>1. Arrived(o, n)' = Len(Append(g, Head(q))) + Len(Tail(q)) BY <2>2 DEF Arrived
    <3>2. Arrived(o, n) = Len(g) + Len(q) BY <2>0 DEF Arrived
    <3> QED BY <2>4, <3>1, <3>2
  <2>7. /\ \A k \in DOMAIN g : g[k] = k
        /\ \A k \in DOMAIN q : q[k] = Len(g) + k
    BY <1>0, <2>0 DEF Numbered
  <2>8. \A k \in DOMAIN got'[o][n] : got'[o][n][k] = k
    BY <2>2, <2>3, <2>5, <2>7
  <2>9. \A k \in DOMAIN queue'[o][n] : queue'[o][n][k] = Len(got'[o][n]) + k
    <3> SUFFICES ASSUME NEW k \in DOMAIN Tail(q) PROVE Tail(q)[k] = Len(g) + 1 + k
      BY <2>2, <2>4
    <3> QED BY <2>4, <2>3, <2>7
  <2>10. Numbered(s, n)' BY <1>0, <1>2, <2>6, <2>8, <2>9 DEF Numbered
  <2>11. InOrder(s, n)' BY <1>0, <1>1, <1>2, <1>3, <2>6, OrderKept
  <2> QED BY <2>10, <2>11
<1>5. CASE ~(t = o /\ m = n)
  <2>1. Quiet(s, n) BY <1>0, <1>1, <1>2, <1>5 DEF Quiet, Receive, Types
  <2> QED BY <1>0, <1>1, <1>3, <2>1, QuietKeeps
<1> QED BY <1>4, <1>5

LEMMA SendStreams ==
  ASSUME BridgeInv, Types', [Next]_vars, NEW t \in Side, NEW m \in Names, Send(t, m),
         NEW s \in Side, NEW n \in Names, Numbered(s, n), InOrder(s, n)
  PROVE  Numbered(s, n)' /\ InOrder(s, n)'
<1>0. PICK o \in Side : o = Other(s) BY Sides
<1> DEFINE d   == Len(sent[t][m]) + 1
           msg == Data(peer[t][m], d)
<1>1. Types /\ UnderWay BY DEF BridgeInv
<1>2. o \in Side /\ queue' = queue /\ got' = got /\ local' = local
  BY <1>0, Sides DEF Send, sockets
<1>3. /\ msg \in Message /\ msg.to # 0 /\ msg.data = d /\ d \in Nat
      /\ msg.to \in DOMAIN local[Other(t)] /\ local[Other(t)][msg.to] = m
  BY <1>1 DEF BridgeInv, RightPeer, Send, Types, Data, Message
<1>4. /\ link' = [link EXCEPT ![Other(t)] = Append(@, msg)]
      /\ sent' = [sent EXCEPT ![t][m] = Append(@, d)]
  BY DEF Send, Transmit
<1> HIDE DEF msg, d
<1>5. CASE t = s /\ m = n
  <2>1. link[o] \in Seq(Message) /\ link'[o] = Append(link[o], msg)
    BY <1>0, <1>1, <1>2, <1>4, <1>5 DEF Types
  <2>2. sent[s][n] \in Seq(Nat) /\ sent'[s][n] = Append(sent[s][n], d) /\ d = Len(sent[s][n]) + 1
    BY <1>1, <1>4, <1>5 DEF Types, d
  <2>3. Len(sent'[s][n]) = d /\ Len(sent[s][n]) \in Nat BY <1>3, <2>2
  <2>4. Arrived(o, n)' = Arrived(o, n) /\ Arrived(o, n) \in Nat
    BY <1>1, <1>2, ArrivedNat DEF Arrived
  <2>5. \A k \in DOMAIN sent'[s][n] : sent'[s][n][k] = k
    <3>1. \A k \in DOMAIN sent[s][n] : sent[s][n][k] = k BY DEF Numbered
    <3> QED BY <1>3, <2>2, <3>1, AppendFacts
  <2>6. Numbered(s, n)'
    BY <1>0, <1>2, <2>2, <2>3, <2>4, <2>5 DEF Numbered
  <2>7. /\ \A i \in DOMAIN link[o] : i \in DOMAIN link'[o] /\ link'[o][i] = link[o][i]
        /\ \A i \in DOMAIN link'[o] : i \in DOMAIN link[o] \/ i = Len(link[o]) + 1
        /\ Len(link[o]) + 1 \in DOMAIN link'[o] /\ link'[o][Len(link[o]) + 1] = msg
        /\ \A i \in DOMAIN link[o] : i \in Nat /\ i < Len(link[o]) + 1
    BY <1>3, <2>1
  <2>11. PICK last \in Nat : last = Len(link[o]) + 1 BY <2>1
  <2>8. \A i \in DOMAIN link[o] : For(o, n, i) <=> For(o, n, i)' BY <1>1, <1>2, <2>7, ForKept
  <2>9. For(o, n, last)' BY <1>0, <1>2, <1>3, <1>5, <2>7, <2>11 DEF For
  <2>10. \A i \in DOMAIN link[o] : For(o, n, i) => link[o][i].data \in Nat
    BY <1>1, <1>2, DataUnderWay
  <2>12. ASSUME NEW i \in DOMAIN link'[o], For(o, n, i)'
         PROVE  Arrived(o, n)' < link'[o][i].data /\ link'[o][i].data <= Len(sent'[s][n])
    <3>1. CASE i \in DOMAIN link[o]
      <4>1. Arrived(o, n) < link[o][i].data /\ link[o][i].data <= Len(sent[s][n])
        BY <1>0, <2>8, <2>12, <3>1 DEF InOrder
      <4> QED BY <2>2, <2>3, <2>4, <2>7, <2>8, <2>10, <2>12, <3>1, <4>1
    <3>2. CASE i = last
      <4>1. Arrived(o, n) <= Len(sent[s][n]) BY <1>0 DEF Numbered
      <4> QED BY <1>3, <2>2, <2>3, <2>4, <2>7, <3>2, <4>1, <2>11
    <3> QED BY <2>7, <3>1, <3>2, <2>11
  <2>13. ASSUME NEW i \in DOMAIN link'[o], NEW j \in DOMAIN link'[o],
                For(o, n, i)', For(o, n, j)', i < j
         PROVE  link'[o][i].data < link'[o][j].data
    <3>1. CASE i \in DOMAIN link[o] /\ j \in DOMAIN link[o]
      BY <1>0, <2>7, <2>8, <2>13, <3>1 DEF InOrder
    <3>2. CASE i \in DOMAIN link[o] /\ j = last
      <4>1. link[o][i].data <= Len(sent[s][n]) BY <1>0, <2>8, <2>13, <3>2 DEF InOrder
      <4> QED BY <1>3, <2>2, <2>3, <2>7, <2>8, <2>10, <2>13, <3>2, <4>1, <2>11
    <3>3. CASE i = last /\ j \in DOMAIN link[o]
      BY <2>7, <2>11, <2>13, <3>3
    <3> QED BY <2>7, <2>11, <2>13, <3>1, <3>2, <3>3
  <2>14. ASSUME NEW k \in Arrived(o, n)' + 1 .. Len(sent'[s][n])
         PROVE  \E i \in DOMAIN link'[o] : For(o, n, i)' /\ link'[o][i].data = k
    <3>1. CASE k = d BY <1>3, <2>7, <2>9, <3>1, <2>11
    <3>2. CASE k # d
      <4>1. k \in Arrived(o, n) + 1 .. Len(sent[s][n]) BY <2>2, <2>3, <2>4, <3>2
      <4>2. PICK i \in DOMAIN link[o] : For(o, n, i) /\ link[o][i].data = k
        BY <1>0, <4>1 DEF InOrder
      <4> QED BY <2>7, <2>8, <4>2
    <3> QED BY <3>1, <3>2
  <2>15. InOrder(s, n)' BY <1>0, <2>12, <2>13, <2>14 DEF InOrder
  <2> QED BY <2>6, <2>15
<1>6. CASE ~(t = s /\ m = n)
  <2>1. Quiet(s, n) BY <1>0, <1>1, <1>2, <1>4, <1>6 DEF Quiet, Types
  <2>2. \/ link'[o] = link[o]
        \/ t = s /\ link'[o] = Append(link[o], msg)
    BY <1>0, <1>1, <1>2, <1>4, Sides DEF Types
  <2>3. t = s => local'[o][msg.to] # n BY <1>0, <1>2, <1>3, <1>6
  <2>4. Shifted(o, n, 0) BY <1>1, <1>2, <1>3, <2>2, <2>3, Unshifted
  <2> QED BY <1>0, <1>1, <2>1, <2>4, QuietKeeps
<1> QED BY <1>5, <1>6

\* The first message under way to a socket is the one that comes next, and it is queued.
LEMMA RecvStreams ==
  ASSUME BridgeInv, Types', [Next]_vars, NEW t \in Side, RecvLoop(t),
         NEW s \in Side, NEW n \in Names, Numbered(s, n), InOrder(s, n)
  PROVE  Numbered(s, n)' /\ InOrder(s, n)'
<1>0. PICK o \in Side : o = Other(s) BY Sides
<1>1. Types /\ UnderWay BY DEF BridgeInv
<1>2. got' = got /\ sent' = sent /\ link' = [link EXCEPT ![t] = Tail(@)] BY DEF RecvLoop
<1>3. CASE t # o
  <2>1. link'[o] = link[o] BY <1>1, <1>2, <1>3 DEF Types
  <2>2. Shifted(o, n, 0) BY <1>1, <2>1, Unshifted
  <2>3. queue'[o] = queue[o] BY <1>1, <1>3 DEF RecvLoop, Learn, Deliver, Types
  <2>4. Quiet(s, n) BY <1>0, <1>2, <2>3 DEF Quiet
  <2> QED BY <1>0, <1>1, <2>2, <2>4, QuietKeeps
<1>4. CASE t = o
  <2>1. PICK q \in Seq(Message) : q = link[o]
    <3>1. link[o] \in Seq(Message) BY <1>1 DEF Types
    <3> QED BY <3>1
  <2>2. q # <<>> BY <1>4, <2>1 DEF RecvLoop
  <2>3. /\ Head(q) = q[1] /\ 1 \in DOMAIN q
        /\ \A i \in DOMAIN Tail(q) : i + 1 \in DOMAIN q /\ Tail(q)[i] = q[i + 1]
    BY <2>2, TailFacts
  <2>4. /\ \A i \in DOMAIN Tail(q) : i \in Nat /\ i > 0
        /\ \A i \in DOMAIN q : i \in Nat /\ i > 0 /\ (i = 1 \/ i - 1 \in DOMAIN Tail(q))
        /\ \A i \in DOMAIN q : i # 1 => i - 1 + 1 = i
    <3>1. DOMAIN q = 1 .. Len(q) /\ DOMAIN Tail(q) = 1 .. Len(q) - 1 /\ Len(q) \in Nat BY <2>2
    <3> QED BY <3>1
  <2>5. link'[o] = Tail(q) BY <1>1, <1>2, <1>4, <2>1 DEF Types
  <2>6. \A i \in DOMAIN Tail(q) : For(o, n, i + 1) <=> For(o, n, i)'
    BY <1>1, <2>1, <2>3, <2>5, ForKept
  <2> DEFINE msg == q[1]
  <2>7. \/ msg.to = 0 /\ queue' = queue
        \/ /\ msg.to # 0
           /\ queue' = IF msg.to \in DOMAIN local[o]
                       THEN [queue EXCEPT ![o][local[o][msg.to]] = Append(@, msg.data)] ELSE queue
    BY <1>4, <2>1, <2>3 DEF RecvLoop, Learn, Deliver
  <2>8. msg.to # 0 => msg.to \in DOMAIN local[o] /\ local[o][msg.to] \in Names
    <3>1. msg.to # 0 => msg.to \in DOMAIN local[o] BY <1>1, <2>1, <2>3 DEF UnderWay
    <3>2. local[o] \in Seq(Names) BY <1>1 DEF Types
    <3> QED BY <3>1, <3>2
  <2> HIDE DEF msg
  <2>9. CASE ~For(o, n, 1)
    <3>1. queue'[o][n] = queue[o][n]
      <4>1. msg.to # 0 => local[o][msg.to] # n BY <2>1, <2>3, <2>9 DEF For, msg
      <4>2. CASE msg.to = 0 BY <2>7, <4>2
      <4>3. CASE msg.to # 0
        <5>1. PICK m \in Names : m = local[o][msg.to] BY <2>8, <4>3
        <5>2. queue' = [queue EXCEPT ![o][m] = Append(@, msg.data)] BY <2>7, <2>8, <4>3, <5>1
        <5>3. queue \in [Side -> [Names -> Seq(Nat)]] BY <1>1 DEF Types
        <5>4. m # n BY <4>1, <4>3, <5>1
        <5> QED BY <5>2, <5>3, <5>4
      <4> QED BY <4>2, <4>3
    <3>2. Quiet(s, n) BY <1>0, <1>2, <3>1 DEF Quiet
    <3>3. Shifted(o, n, 1)
      <4>1. ASSUME NEW i \in DOMAIN link[o], For(o, n, i)
            PROVE  \E j \in DOMAIN link'[o] : For(o, n, j)' /\ link'[o][j] = link[o][i]
        <5>1. i # 1 BY <2>9, <4>1
        <5>2. PICK j \in DOMAIN Tail(q) : j + 1 = i BY <2>1, <2>4, <5>1
        <5> QED BY <2>1, <2>3, <2>5, <2>6, <4>1, <5>2
      <4> QED BY <2>1, <2>3, <2>5, <2>6, <4>1 DEF Shifted
    <3> QED BY <1>0, <1>1, <3>2, <3>3, QuietKeeps
  <2>10. CASE For(o, n, 1)
    <3>1. PICK u \in Seq(Nat), g \in Seq(Nat) : u = queue[o][n] /\ g = got[o][n]
      <4>1. queue[o][n] \in Seq(Nat) /\ got[o][n] \in Seq(Nat) BY <1>1 DEF Types
      <4> QED BY <4>1
    <3>2. msg.to # 0 /\ local[o][msg.to] = n /\ msg.data \in Nat
      BY <1>1, <2>1, <2>3, <2>10, DataUnderWay DEF For, msg
    <3>3. queue'[o][n] = Append(u, msg.data)
      <4>1. queue' = [queue EXCEPT ![o][n] = Append(@, msg.data)] BY <2>7, <2>8, <3>2
      <4>2. queue \in [Side -> [Names -> Seq(Nat)]] BY <1>1 DEF Types
      <4> QED BY <3>1, <4>1, <4>2
    <3>4. Arrived(o, n) = Len(g) + Len(u) BY <3>1 DEF Arrived
    <3>5. Arrived(o, n)' = Arrived(o, n) + 1 /\ Arrived(o, n) \in Nat
      <4>1. Arrived(o, n)' = Len(g) + Len(Append(u, msg.data)) BY <1>2, <3>1, <3>3 DEF Arrived
      <4>2. Len(Append(u, msg.data)) = Len(u) + 1 BY <3>2
      <4>3. Len(u) \in Nat /\ Len(g) \in Nat OBVIOUS
      <4> QED BY <3>4, <4>1, <4>2, <4>3
    <3>6. \A i \in DOMAIN link[o] : For(o, n, i) => link[o][i].data \in Nat
      BY <1>1, DataUnderWay
    <3>7. PICK l \in Nat : l = Len(sent[s][n])
      <4>1. sent[s][n] \in Seq(Nat) BY <1>1 DEF Types
      <4> QED BY <4>1
    <3>8. msg.data = Arrived(o, n) + 1
      <4>1. Arrived(o, n) < msg.data /\ msg.data <= l
        BY <1>0, <2>1, <2>3, <2>10, <3>7 DEF InOrder, msg
      <4>2. Arrived(o, n) + 1 \in Arrived(o, n) + 1 .. l BY <3>2, <3>5, <4>1
      <4>3. PICK i \in DOMAIN link[o] : For(o, n, i) /\ link[o][i].data = Arrived(o, n) + 1
        BY <1>0, <3>7, <4>2 DEF InOrder
      <4>4. CASE i = 1 BY <2>1, <4>3, <4>4 DEF msg
      <4>5. CASE 1 < i
        <5>1. msg.data < link[o][i].data
          BY <1>0, <2>1, <2>3, <2>10, <4>3, <4>5 DEF InOrder, msg
        <5> QED BY <3>2, <3>5, <4>1, <4>3, <5>1
      <4> QED BY <2>1, <2>4, <4>4, <4>5
    <3>9. Numbered(s, n)'
      <4>1. /\ \A k \in DOMAIN sent[s][n] : sent[s][n][k] = k
            /\ \A k \in DOMAIN g : g[k] = k
            /\ \A k \in DOMAIN u : u[k] = Len(g) + k
        BY <1>0, <3>1 DEF Numbered
      <4>2. Arrived(o, n)' <= Len(sent'[s][n])
        <5>1. msg.data <= l BY <1>0, <2>1, <2>3, <2>10, <3>7 DEF InOrder, msg
        <5> QED BY <1>2, <3>5, <3>7, <3>8, <5>1
      <4>3. \A k \in DOMAIN queue'[o][n] : queue'[o][n][k] = Len(g) + k
        <5> SUFFICES ASSUME NEW k \in DOMAIN Append(u, msg.data)
                     PROVE  Append(u, msg.data)[k] = Len(g) + k
          BY <3>3
        <5>1. CASE k \in DOMAIN u BY <3>2, <4>1, <5>1, AppendFacts
        <5>2. CASE k = Len(u) + 1
          <6>1. Append(u, msg.data)[k] = msg.data BY <3>2, <5>2, AppendFacts
          <6>2. Len(u) \in Nat /\ Len(g) \in Nat OBVIOUS
          <6> QED BY <3>4, <3>8, <5>2, <6>1, <6>2
        <5> QED BY <3>2, <5>1, <5>2, AppendFacts
      <4> QED BY <1>0, <1>2, <3>1, <4>1, <4>2, <4>3 DEF Numbered
    <3>10. ASSUME NEW i \in DOMAIN link'[o], For(o, n, i)'
           PROVE  Arrived(o, n)' < link'[o][i].data /\ link'[o][i].data <= Len(sent'[s][n])
      <4>1. /\ i + 1 \in DOMAIN link[o] /\ For(o, n, i + 1) /\ link'[o][i] = link[o][i + 1]
            /\ i \in Nat /\ 1 < i + 1
        BY <2>1, <2>3, <2>4, <2>5, <2>6, <3>10
      <4>2. link[o][i + 1].data <= Len(sent[s][n]) BY <1>0, <4>1 DEF InOrder
      <4>3. msg.data < link[o][i + 1].data
        BY <1>0, <2>1, <2>3, <2>10, <4>1 DEF InOrder, msg
      <4> QED BY <1>2, <3>5, <3>8, <4>1, <4>2, <4>3
    <3>11. ASSUME NEW i \in DOMAIN link'[o], NEW j \in DOMAIN link'[o],
                  For(o, n, i)', For(o, n, j)', i < j
           PROVE  link'[o][i].data < link'[o][j].data
      <4>1. /\ i + 1 \in DOMAIN link[o] /\ For(o, n, i + 1) /\ link'[o][i] = link[o][i + 1]
            /\ j + 1 \in DOMAIN link[o] /\ For(o, n, j + 1) /\ link'[o][j] = link[o][j + 1]
            /\ i + 1 < j + 1
        BY <2>1, <2>3, <2>4, <2>5, <2>6, <3>11
      <4> QED BY <1>0, <4>1 DEF InOrder
    <3>12. ASSUME NEW k \in Arrived(o, n)' + 1 .. Len(sent'[s][n])
           PROVE  \E i \in DOMAIN link'[o] : For(o, n, i)' /\ link'[o][i].data = k
      <4>1. k \in Arrived(o, n) + 1 .. l /\ k # msg.data BY <1>2, <3>5, <3>7, <3>8
      <4>2. PICK i \in DOMAIN link[o] : For(o, n, i) /\ link[o][i].data = k
        BY <1>0, <3>7, <4>1 DEF InOrder
      <4>3. i # 1 BY <2>1, <4>1, <4>2 DEF msg
      <4>4. PICK j \in DOMAIN Tail(q) : j + 1 = i BY <2>1, <2>4, <4>3
      <4> QED BY <2>1, <2>3, <2>5, <2>6, <4>2, <4>4
    <3>13. InOrder(s, n)' BY <1>0, <3>10, <3>11, <3>12 DEF InOrder
    <3> QED BY <3>9, <3>13
  <2> QED BY <2>9, <2>10
<1> QED BY <1>3, <1>4

LEMMA StreamsInit == BridgeInit => StreamsInv
<1> SUFFICES ASSUME BridgeInit, NEW s \in Side, NEW n \in Names
             PROVE  Numbered(s, n) /\ InOrder(s, n)
  BY DEF StreamsInv
<1>1. PICK o \in Side : o = Other(s) BY Sides
<1>2. /\ link[o] = <<>> /\ sent[s][n] = <<>>
      /\ queue[o][n] = <<>> /\ got[o][n] = <<>>
  BY DEF BridgeInit
<1>3. Arrived(o, n) = 0 BY <1>2 DEF Arrived
<1>4. Numbered(s, n) BY <1>1, <1>2, <1>3 DEF Numbered
<1>5. InOrder(s, n) BY <1>1, <1>2, <1>3 DEF InOrder
<1> QED BY <1>4, <1>5

LEMMA StreamsStep == BridgeInv /\ StreamsInv /\ [Next]_vars => StreamsInv'
<1> SUFFICES ASSUME BridgeInv, StreamsInv, [Next]_vars, NEW s \in Side, NEW n \in Names
             PROVE  Numbered(s, n)' /\ InOrder(s, n)'
  BY DEF StreamsInv
<1>1. Numbered(s, n) /\ InOrder(s, n) BY DEF StreamsInv
<1>2. Types /\ UnderWay /\ Types' BY InvStep DEF BridgeInv
<1>3. CASE UNCHANGED vars
  <2>1. Other(s) \in Side /\ Shifted(Other(s), n, 0) BY <1>2, <1>3, Sides, Unshifted DEF vars
  <2>2. Quiet(s, n) BY <1>3 DEF vars, Quiet
  <2> QED BY <1>1, <1>2, <2>1, <2>2, QuietKeeps
<1>4. CASE \E t \in Side : RecvLoop(t) BY <1>1, <1>2, <1>4, RecvStreams
<1>5. CASE \E t \in Side, m \in Names : Registers(t, m) BY <1>1, <1>2, <1>5, RegistersStreams
<1>6. CASE \E t \in Side, m \in Names : Send(t, m) BY <1>1, <1>2, <1>6, SendStreams
<1>7. CASE \E t \in Side, m \in Names : Receive(t, m) BY <1>1, <1>2, <1>7, ReceiveStreams
<1> QED BY <1>3, <1>4, <1>5, <1>6, <1>7 DEF Next

-----------------------------------------------------------------------------
(* The refinement: SocketFifos sees what each end has sent and what the    *)
(* other end has received of it.                                           *)

SentBy   == [e \in Side \X Names |-> sent[e[1]][e[2]]]
GotFrom  == [e \in Side \X Names |-> got[Other(e[1])][e[2]]]

LEMMA SendIsSend ==
  ASSUME BridgeInv, NEW s \in Side, NEW n \in Names, Send(s, n)
  PROVE  Fifos!Send(<<s, n>>)
<1> DEFINE d == Len(sent[s][n]) + 1
<1>1. /\ sent' = [sent EXCEPT ![s][n] = Append(@, d)] /\ got' = got
      /\ Len(sent[s][n]) < Most[s][n]
  BY DEF Send
<1>2. sent \in [Side -> [Names -> Seq(Nat)]] BY DEF BridgeInv, Types
<1>3. d \in 1 .. Most[s][n]
  <2>1. PICK q \in Seq(Nat) : q = sent[s][n]
    <3>1. sent[s][n] \in Seq(Nat) BY <1>2
    <3> QED BY <3>1
  <2>2. Len(q) \in Nat /\ Most[s][n] \in Nat BY BridgeAssumption
  <2> QED BY <1>1, <2>1, <2>2
<1> HIDE DEF d
<1>4. d \in Items
  <2> DEFINE F == {1 .. Most[t][m] : t \in Side, m \in Names}
  <2>1. 1 .. Most[s][n] \in F OBVIOUS
  <2> HIDE DEF F
  <2>2. d \in UNION F BY <1>3, <2>1
  <2> QED BY <2>2 DEF F, Items
<1>5. SentBy' = [SentBy EXCEPT ![<<s, n>>] = Append(@, d)]
  <2> SUFFICES ASSUME NEW x \in Side \X Names
               PROVE  SentBy'[x] = [SentBy EXCEPT ![<<s, n>>] = Append(@, d)][x]
    BY DEF SentBy
  <2>1. CASE x = <<s, n>> BY <1>1, <1>2, <2>1 DEF SentBy
  <2>2. CASE x # <<s, n>>
    <3>1. x[1] \in Side /\ x[2] \in Names /\ ~(x[1] = s /\ x[2] = n) BY <2>2
    <3>2. sent'[x[1]][x[2]] = sent[x[1]][x[2]] BY <1>1, <1>2, <3>1
    <3> QED BY <2>2, <3>2 DEF SentBy
  <2> QED BY <2>1, <2>2
<1>6. GotFrom' = GotFrom BY <1>1 DEF GotFrom
<1>7. \E x \in Items : SentBy' = [SentBy EXCEPT ![<<s, n>>] = Append(@, x)] BY <1>4, <1>5
<1> QED BY <1>6, <1>7 DEF Fifos!Send, SentBy, GotFrom

LEMMA ReceiveIsDeliver ==
  ASSUME BridgeInv, StreamsInv, NEW o \in Side, NEW n \in Names, Receive(o, n)
  PROVE  \E e \in Side \X Names : Fifos!Deliver(e)
<1>1. PICK s \in Side : o = Other(s) /\ s = Other(o) BY Sides
<1> DEFINE e == <<s, n>>
<1>2. PICK q \in Seq(Nat), g \in Seq(Nat), f \in Seq(Nat) :
        q = queue[o][n] /\ g = got[o][n] /\ f = sent[s][n]
  <2>1. queue[o][n] \in Seq(Nat) /\ got[o][n] \in Seq(Nat) /\ sent[s][n] \in Seq(Nat)
    BY DEF BridgeInv, Types
  <2> QED BY <2>1
<1>3. /\ q # <<>> /\ sent' = sent
      /\ got' = [got EXCEPT ![o][n] = Append(@, Head(queue[o][n]))]
  BY <1>2 DEF Receive
<1>4. /\ \A k \in DOMAIN f : f[k] = k
      /\ \A k \in DOMAIN q : q[k] = Len(g) + k
      /\ Len(g) + Len(q) <= Len(f)
  BY <1>1, <1>2 DEF StreamsInv, Numbered, Arrived
<1>5. Len(g) < Len(f) /\ Head(q) = f[Len(g) + 1]
  <2>1. /\ Head(q) = q[1] /\ 1 \in DOMAIN q /\ Len(q) \in Nat \ {0}
        /\ Len(g) \in Nat /\ Len(f) \in Nat /\ DOMAIN f = 1 .. Len(f)
    BY <1>3, TailFacts
  <2>2. Head(q) = Len(g) + 1 BY <1>4, <2>1
  <2>3. Len(g) < Len(f) /\ Len(g) + 1 \in DOMAIN f BY <1>4, <2>1
  <2> QED BY <1>4, <2>2, <2>3
<1>6. got \in [Side -> [Names -> Seq(Nat)]] BY DEF BridgeInv, Types
<1>7. SentBy[e] = f /\ GotFrom[e] = g BY <1>1, <1>2 DEF SentBy, GotFrom
<1>8. SentBy' = SentBy BY <1>3 DEF SentBy
<1>9. GotFrom' = [GotFrom EXCEPT ![e] = Append(@, Head(q))]
  <2> SUFFICES ASSUME NEW x \in Side \X Names
               PROVE  GotFrom'[x] = [GotFrom EXCEPT ![e] = Append(@, Head(q))][x]
    BY DEF GotFrom
  <2>1. Other(x[1]) = o <=> x[1] = s BY <1>1, Sides
  <2>2. CASE x = e BY <1>1, <1>2, <1>3, <1>6, <2>2 DEF GotFrom
  <2>3. CASE x # e
    <3>1. Other(x[1]) \in Side /\ x[2] \in Names /\ ~(Other(x[1]) = o /\ x[2] = n)
      BY <2>1, <2>3, Sides
    <3>2. got'[Other(x[1])][x[2]] = got[Other(x[1])][x[2]] BY <1>3, <1>6, <3>1
    <3> QED BY <2>3, <3>2 DEF GotFrom
  <2> QED BY <2>2, <2>3
<1>10. Fifos!Deliver(e)
  <2>1. GotFrom' = [GotFrom EXCEPT ![e] = Append(@, SentBy[e][Len(@) + 1])]
    BY <1>5, <1>7, <1>9
  <2>2. Len(GotFrom[e]) < Len(SentBy[e]) BY <1>5, <1>7
  <2> HIDE DEF e
  <2> QED BY <1>8, <2>1, <2>2 DEF Fifos!Deliver, SentBy, GotFrom
<1> QED BY <1>10

LEMMA OthersStutter ==
  ASSUME sent' = sent, got' = got
  PROVE  UNCHANGED Fifos!vars
BY DEF Fifos!vars

LEMMA StepIsStep ==
  BridgeInv /\ StreamsInv /\ [Next]_vars => [Fifos!Next]_Fifos!vars
<1> SUFFICES ASSUME BridgeInv, StreamsInv, [Next]_vars PROVE [Fifos!Next]_Fifos!vars
  OBVIOUS
<1>1. CASE UNCHANGED vars BY <1>1, OthersStutter DEF vars
<1>2. CASE \E t \in Side : RecvLoop(t) BY <1>2, OthersStutter DEF RecvLoop
<1>3. CASE \E t \in Side, m \in Names : Registers(t, m)
  BY <1>3, OthersStutter DEF Registers, Register, Announce, Search
<1>4. CASE \E t \in Side, m \in Names : Send(t, m)
  <2>1. PICK t \in Side, m \in Names : Send(t, m) BY <1>4
  <2>2. Fifos!Send(<<t, m>>) BY <2>1, SendIsSend
  <2>3. <<t, m>> \in Side \X Names OBVIOUS
  <2>4. Fifos!Next BY <2>2, <2>3 DEF Fifos!Next
  <2> QED BY <2>4
<1>5. CASE \E t \in Side, m \in Names : Receive(t, m)
  <2>1. \E e \in Side \X Names : Fifos!Deliver(e) BY <1>5, ReceiveIsDeliver
  <2>2. Fifos!Next BY <2>1 DEF Fifos!Next
  <2> QED BY <2>2
<1> QED BY <1>1, <1>2, <1>3, <1>4, <1>5 DEF Next

LEMMA InitIsInit == BridgeInit => Fifos!Init
<1> SUFFICES ASSUME BridgeInit PROVE Fifos!Init OBVIOUS
<1>1. \A e \in Side \X Names : sent[e[1]][e[2]] = <<>> /\ got[Other(e[1])][e[2]] = <<>>
  BY Sides DEF BridgeInit
<1> QED BY <1>1 DEF Fifos!Init

\* The bridge implements a FIFO for each pair of sockets and direction: what a socket
\* receives is what its other end sent, in that order, none of it lost, doubled or given
\* to another socket, whatever the others send over the same link and however the
\* registrations cross (svf_bridge_socket.cpp:48-74, 90-108, svf_bridge.cpp:104-142).
THEOREM SocketsImplementFifos == Spec => SocketsAreFifos
<1>1. BridgeInit => BridgeInv /\ StreamsInv BY InvInit, StreamsInit
<1>2. BridgeInv /\ StreamsInv /\ [Next]_vars => (BridgeInv /\ StreamsInv)'
  BY InvStep, StreamsStep
<1> QED BY <1>1, <1>2, InitIsInit, StepIsStep, PTL DEF Spec, SocketsAreFifos, Fifos!Spec
=============================================================================
