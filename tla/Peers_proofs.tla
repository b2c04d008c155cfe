---------------------------- MODULE Peers_proofs ----------------------------
(***************************************************************************)
(* Proofs about connections, for any number of connections and peers and   *)
(* any capacity of the handshake queue.                                    *)
(***************************************************************************)
EXTENDS Peers, FiniteSetTheorems, TLAPS

\* What a step does to the goroutines and to the socket of one connection: its
\* peer and its direction stay, and so do the other connections.
Becomes(c, ph, s, o, r) ==
  /\ conn' \in [Conns -> NodeState]
  /\ \A n \in Conns : n # c => conn'[n] = conn[n]
  /\ conn'[c].peer = conn[c].peer /\ conn'[c].inbound = conn[c].inbound
  /\ conn'[c].phase = ph /\ conn'[c].state = s /\ conn'[c].open = o
  /\ conn'[c].reader = r

\* A connection starts to be used, with peer p.
Starts(c, p) ==
  /\ conn[c].phase = "none"
  /\ conn'[c].peer = p /\ conn'[c].phase \in {"spawned", "token"}
  /\ conn'[c].state = "INIT"
  /\ conn'[c].reader = IF conn'[c].phase = "spawned" THEN "off" ELSE "idle"

-----------------------------------------------------------------------------
(* What the actions do to the connections.                                 *)

\* One connection's goroutines change one, two or three of its fields.
LEMMA SetPhase ==
  ASSUME TypeOK, NEW c \in Conns, NEW ph \in Phases,
         conn' = [conn EXCEPT ![c].phase = ph]
  PROVE  Becomes(c, ph, conn[c].state, conn[c].open, conn[c].reader)
<1> DEFINE node == [conn[c] EXCEPT !.phase = ph]
<1>1. conn[c] \in NodeState /\ conn \in [Conns -> NodeState]
  BY DEF TypeOK
<1>2. conn' = [conn EXCEPT ![c] = node]
  BY <1>1
<1>3. node \in NodeState
  BY <1>1 DEF NodeState
<1>4. /\ node.peer = conn[c].peer /\ node.inbound = conn[c].inbound
      /\ node.phase = ph /\ node.state = conn[c].state /\ node.open = conn[c].open /\ node.reader = conn[c].reader
  BY <1>1 DEF NodeState
<1> HIDE DEF node
<1>5. conn'[c] = node /\ \A n \in Conns : n # c => conn'[n] = conn[n]
  BY <1>1, <1>2
<1>6. conn' \in [Conns -> NodeState]
  BY <1>1, <1>2, <1>3
<1> QED
  BY <1>4, <1>5, <1>6 DEF Becomes

LEMMA SetOpen ==
  ASSUME TypeOK, NEW c \in Conns, NEW o \in BOOLEAN,
         conn' = [conn EXCEPT ![c].open = o]
  PROVE  Becomes(c, conn[c].phase, conn[c].state, o, conn[c].reader)
<1> DEFINE node == [conn[c] EXCEPT !.open = o]
<1>1. conn[c] \in NodeState /\ conn \in [Conns -> NodeState]
  BY DEF TypeOK
<1>2. conn' = [conn EXCEPT ![c] = node]
  BY <1>1
<1>3. node \in NodeState
  BY <1>1 DEF NodeState
<1>4. /\ node.peer = conn[c].peer /\ node.inbound = conn[c].inbound
      /\ node.phase = conn[c].phase /\ node.state = conn[c].state /\ node.open = o /\ node.reader = conn[c].reader
  BY <1>1 DEF NodeState
<1> HIDE DEF node
<1>5. conn'[c] = node /\ \A n \in Conns : n # c => conn'[n] = conn[n]
  BY <1>1, <1>2
<1>6. conn' \in [Conns -> NodeState]
  BY <1>1, <1>2, <1>3
<1> QED
  BY <1>4, <1>5, <1>6 DEF Becomes

LEMMA SetReader ==
  ASSUME TypeOK, NEW c \in Conns, NEW r \in Readers,
         conn' = [conn EXCEPT ![c].reader = r]
  PROVE  Becomes(c, conn[c].phase, conn[c].state, conn[c].open, r)
<1> DEFINE node == [conn[c] EXCEPT !.reader = r]
<1>1. conn[c] \in NodeState /\ conn \in [Conns -> NodeState]
  BY DEF TypeOK
<1>2. conn' = [conn EXCEPT ![c] = node]
  BY <1>1
<1>3. node \in NodeState
  BY <1>1 DEF NodeState
<1>4. /\ node.peer = conn[c].peer /\ node.inbound = conn[c].inbound
      /\ node.phase = conn[c].phase /\ node.state = conn[c].state /\ node.open = conn[c].open /\ node.reader = r
  BY <1>1 DEF NodeState
<1> HIDE DEF node
<1>5. conn'[c] = node /\ \A n \in Conns : n # c => conn'[n] = conn[n]
  BY <1>1, <1>2
<1>6. conn' \in [Conns -> NodeState]
  BY <1>1, <1>2, <1>3
<1> QED
  BY <1>4, <1>5, <1>6 DEF Becomes

LEMMA SetPhaseState ==
  ASSUME TypeOK, NEW c \in Conns, NEW ph \in Phases, NEW s \in States,
         conn' = [conn EXCEPT ![c].phase = ph, ![c].state = s]
  PROVE  Becomes(c, ph, s, conn[c].open, conn[c].reader)
<1> DEFINE node == [conn[c] EXCEPT !.phase = ph, !.state = s]
<1>1. conn[c] \in NodeState /\ conn \in [Conns -> NodeState]
  BY DEF TypeOK
<1>2. conn' = [conn EXCEPT ![c] = node]
  BY <1>1
<1>3. node \in NodeState
  BY <1>1 DEF NodeState
<1>4. /\ node.peer = conn[c].peer /\ node.inbound = conn[c].inbound
      /\ node.phase = ph /\ node.state = s /\ node.open = conn[c].open /\ node.reader = conn[c].reader
  BY <1>1 DEF NodeState
<1> HIDE DEF node
<1>5. conn'[c] = node /\ \A n \in Conns : n # c => conn'[n] = conn[n]
  BY <1>1, <1>2
<1>6. conn' \in [Conns -> NodeState]
  BY <1>1, <1>2, <1>3
<1> QED
  BY <1>4, <1>5, <1>6 DEF Becomes

LEMMA SetPhaseOpenReader ==
  ASSUME TypeOK, NEW c \in Conns, NEW ph \in Phases, NEW o \in BOOLEAN, NEW r \in Readers,
         conn' = [conn EXCEPT ![c].phase = ph, ![c].open = o, ![c].reader = r]
  PROVE  Becomes(c, ph, conn[c].state, o, r)
<1> DEFINE node == [conn[c] EXCEPT !.phase = ph, !.open = o, !.reader = r]
<1>1. conn[c] \in NodeState /\ conn \in [Conns -> NodeState]
  BY DEF TypeOK
<1>2. conn' = [conn EXCEPT ![c] = node]
  BY <1>1
<1>3. node \in NodeState
  BY <1>1 DEF NodeState
<1>4. /\ node.peer = conn[c].peer /\ node.inbound = conn[c].inbound
      /\ node.phase = ph /\ node.state = conn[c].state /\ node.open = o /\ node.reader = r
  BY <1>1 DEF NodeState
<1> HIDE DEF node
<1>5. conn'[c] = node /\ \A n \in Conns : n # c => conn'[n] = conn[n]
  BY <1>1, <1>2
<1>6. conn' \in [Conns -> NodeState]
  BY <1>1, <1>2, <1>3
<1> QED
  BY <1>4, <1>5, <1>6 DEF Becomes

LEMMA SetReaderState ==
  ASSUME TypeOK, NEW c \in Conns, NEW r \in Readers, NEW s \in States,
         conn' = [conn EXCEPT ![c].reader = r, ![c].state = s]
  PROVE  Becomes(c, conn[c].phase, s, conn[c].open, r)
<1> DEFINE node == [conn[c] EXCEPT !.reader = r, !.state = s]
<1>1. conn[c] \in NodeState /\ conn \in [Conns -> NodeState]
  BY DEF TypeOK
<1>2. conn' = [conn EXCEPT ![c] = node]
  BY <1>1
<1>3. node \in NodeState
  BY <1>1 DEF NodeState
<1>4. /\ node.peer = conn[c].peer /\ node.inbound = conn[c].inbound
      /\ node.phase = conn[c].phase /\ node.state = s /\ node.open = conn[c].open /\ node.reader = r
  BY <1>1 DEF NodeState
<1> HIDE DEF node
<1>5. conn'[c] = node /\ \A n \in Conns : n # c => conn'[n] = conn[n]
  BY <1>1, <1>2
<1>6. conn' \in [Conns -> NodeState]
  BY <1>1, <1>2, <1>3
<1> QED
  BY <1>4, <1>5, <1>6 DEF Becomes

LEMMA SetStateOpen ==
  ASSUME TypeOK, NEW c \in Conns, NEW s \in States, NEW o \in BOOLEAN,
         conn' = [conn EXCEPT ![c].state = s, ![c].open = o]
  PROVE  Becomes(c, conn[c].phase, s, o, conn[c].reader)
<1> DEFINE node == [conn[c] EXCEPT !.state = s, !.open = o]
<1>1. conn[c] \in NodeState /\ conn \in [Conns -> NodeState]
  BY DEF TypeOK
<1>2. conn' = [conn EXCEPT ![c] = node]
  BY <1>1
<1>3. node \in NodeState
  BY <1>1 DEF NodeState
<1>4. /\ node.peer = conn[c].peer /\ node.inbound = conn[c].inbound
      /\ node.phase = conn[c].phase /\ node.state = s /\ node.open = o /\ node.reader = conn[c].reader
  BY <1>1 DEF NodeState
<1> HIDE DEF node
<1>5. conn'[c] = node /\ \A n \in Conns : n # c => conn'[n] = conn[n]
  BY <1>1, <1>2
<1>6. conn' \in [Conns -> NodeState]
  BY <1>1, <1>2, <1>3
<1> QED
  BY <1>4, <1>5, <1>6 DEF Becomes

\* The action of c, as an effect on its fields.
LEMMA ConnectEffect ==
  ASSUME TypeOK, NEW c \in Conns, Connect(c)
  PROVE  \/ /\ conn[c].phase = "spawned" /\ UNCHANGED connecting
            /\ Becomes(c, "done", conn[c].state, conn[c].open, conn[c].reader)
         \/ /\ conn[c].phase = "spawned" /\ connecting' = connecting \cup {conn[c].peer}
            /\ Becomes(c, "dial", conn[c].state, conn[c].open, conn[c].reader)
         \/ /\ conn[c].phase = "dial" /\ connecting' \subseteq connecting
            /\ Becomes(c, "done", conn[c].state, conn[c].open, conn[c].reader)
         \/ /\ conn[c].phase = "dial" /\ UNCHANGED connecting
            /\ Becomes(c, "hand", conn[c].state, TRUE, "idle")
         \/ /\ conn[c].phase = "hand" /\ UNCHANGED connecting
            /\ Becomes(c, "token", "HAND", conn[c].open, conn[c].reader)
<1>0. conn[c] \in NodeState
  BY DEF TypeOK
<1>1. CASE conn[c].phase = "spawned" /\ conn' = [conn EXCEPT ![c].phase = "done"] /\ UNCHANGED connecting
  BY <1>1, SetPhase DEF Phases
<1>2. CASE conn[c].phase = "spawned" /\ conn' = [conn EXCEPT ![c].phase = "dial"]
           /\ AddToConnectionList(conn[c].peer)
  BY <1>2, SetPhase DEF Phases, AddToConnectionList
<1>3. CASE conn[c].phase = "dial" /\ conn' = [conn EXCEPT ![c].phase = "done"]
           /\ RemoveFromConnectingList(conn[c].peer)
  BY <1>3, SetPhase DEF Phases, RemoveFromConnectingList
<1>4. CASE conn[c].phase = "dial" /\ UNCHANGED connecting
           /\ conn' = [conn EXCEPT ![c].phase = "hand", ![c].open = TRUE, ![c].reader = "idle"]
  BY <1>4, SetPhaseOpenReader DEF Phases, Readers
<1>5. CASE conn[c].phase = "hand" /\ UNCHANGED connecting
           /\ conn' = [conn EXCEPT ![c].phase = "token", ![c].state = "HAND"]
  BY <1>5, SetPhaseState DEF Phases, States
<1> QED
  BY <1>1, <1>2, <1>3, <1>4, <1>5 DEF Connect

\* The actions of one connection that leave phase and peer of every connection
\* alone, as effects on its state, its socket and its reader.
LEMMA ReaderEffect ==
  ASSUME TypeOK, NEW c \in Conns
  PROVE  /\ AddNbrNode(c) =>
              Becomes(c, conn[c].phase, conn[c].state, conn[c].open, "reply")
         /\ ReplyVersion(c) =>
              \E s \in {"HANDSHAKE", "HANDSHAKED", conn[c].state} :
                Becomes(c, conn[c].phase, s, conn[c].open, "idle")
         /\ OnVerAck(c) =>
              Becomes(c, conn[c].phase, conn[c].state, conn[c].open, "establish")
         /\ Establish(c) =>
              Becomes(c, conn[c].phase, "ESTABLISH", conn[c].open, "dequeue")
         /\ FinishHandshake(c) =>
              \/ conn[c].reader = "dequeue" /\
                 Becomes(c, conn[c].phase, conn[c].state, conn[c].open, "delist")
              \/ conn[c].reader = "delist" /\
                 Becomes(c, conn[c].phase, conn[c].state, conn[c].open, "idle")
         /\ OnError(c) =>
              Becomes(c, conn[c].phase, conn[c].state, conn[c].open, "dead")
<1>0. conn[c] \in NodeState
  BY DEF TypeOK
<1>1. AddNbrNode(c) => Becomes(c, conn[c].phase, conn[c].state, conn[c].open, "reply")
  BY SetReader DEF AddNbrNode, Readers
<1>2. ASSUME ReplyVersion(c)
      PROVE  \E s \in {"HANDSHAKE", "HANDSHAKED", conn[c].state} :
               Becomes(c, conn[c].phase, s, conn[c].open, "idle")
  <2> DEFINE s == CASE conn[c].state = "INIT" -> "HANDSHAKE"
                    [] conn[c].state = "HAND" -> "HANDSHAKED"
                    [] OTHER -> conn[c].state
  <2>1. s \in States /\ s \in {"HANDSHAKE", "HANDSHAKED", conn[c].state}
    BY <1>0 DEF NodeState, States
  <2>2. conn' = [conn EXCEPT ![c].reader = "idle", ![c].state = s]
    BY <1>2, <1>0 DEF ReplyVersion, TypeOK, NodeState
  <2> HIDE DEF s
  <2>3. Becomes(c, conn[c].phase, s, conn[c].open, "idle")
    BY <2>1, <2>2, SetReaderState DEF Readers
  <2> QED
    BY <2>1, <2>3
<1>3. OnVerAck(c) => Becomes(c, conn[c].phase, conn[c].state, conn[c].open, "establish")
  BY SetReader DEF OnVerAck, Readers
<1>4. Establish(c) => Becomes(c, conn[c].phase, "ESTABLISH", conn[c].open, "dequeue")
  BY SetReaderState DEF Establish, Readers, States
<1>5. FinishHandshake(c) =>
        \/ conn[c].reader = "dequeue" /\
           Becomes(c, conn[c].phase, conn[c].state, conn[c].open, "delist")
        \/ conn[c].reader = "delist" /\
           Becomes(c, conn[c].phase, conn[c].state, conn[c].open, "idle")
  BY SetReader DEF FinishHandshake, Readers
<1>6. OnError(c) => Becomes(c, conn[c].phase, conn[c].state, conn[c].open, "dead")
  BY SetReader DEF OnError, Readers
<1> QED
  BY <1>1, <1>2, <1>3, <1>4, <1>5, <1>6

\* What closes a connection.
LEMMA CloseEffect ==
  ASSUME TypeOK, NEW c \in Conns
  PROVE  /\ HandleTimeout(c) \/ PeerCloses(c) \/ (OnVersion(c) /\ conn[c].peer = Self) =>
              Becomes(c, conn[c].phase, conn[c].state, FALSE, conn[c].reader)
         /\ NodeDisconnect(c) \/ Heartbeat(c) =>
              Becomes(c, conn[c].phase, "INACTIVITY", FALSE, conn[c].reader)
<1>1. HandleTimeout(c) \/ PeerCloses(c) \/ (OnVersion(c) /\ conn[c].peer = Self) =>
        conn' = [conn EXCEPT ![c].open = FALSE]
  BY DEF HandleTimeout, PeerCloses, OnVersion
<1>2. NodeDisconnect(c) \/ Heartbeat(c) =>
        conn' = [conn EXCEPT ![c].state = "INACTIVITY", ![c].open = FALSE]
  BY DEF NodeDisconnect, Heartbeat
<1>3. "INACTIVITY" \in States
  BY DEF States
<1>4. conn' = [conn EXCEPT ![c].open = FALSE]
        => Becomes(c, conn[c].phase, conn[c].state, FALSE, conn[c].reader)
  BY SetOpen
<1>5. conn' = [conn EXCEPT ![c].state = "INACTIVITY", ![c].open = FALSE]
        => Becomes(c, conn[c].phase, "INACTIVITY", FALSE, conn[c].reader)
  BY <1>3, SetStateOpen
<1> QED
  BY <1>1, <1>2, <1>4, <1>5

\* What the handshake queue does.
LEMMA QueueEffect ==
  ASSUME TypeOK, NEW c \in Conns
  PROVE  /\ AddToHandshakeQueue(c) =>
              \/ /\ conn[c].phase = "token" /\ capChan < QueueCap
                 /\ capChan' = capChan + 1 /\ UNCHANGED queue
                 /\ Becomes(c, "register", conn[c].state, conn[c].open, conn[c].reader)
              \/ /\ conn[c].phase = "register"
                 /\ queue' = queue \cup {c} /\ UNCHANGED capChan
                 /\ \E ph \in {"accepted", "done"} :
                      Becomes(c, ph, conn[c].state, conn[c].open, conn[c].reader)
<1>1. CASE conn[c].phase = "token" /\ TakeToken(c)
  BY <1>1, SetPhase DEF TakeToken, Phases
<1>2. CASE /\ conn[c].phase = "register" /\ queue' = queue \cup {c} /\ UNCHANGED capChan
           /\ conn' = [conn EXCEPT ![c].phase = IF conn[c].inbound THEN "accepted" ELSE "done"]
  <2> DEFINE ph == IF conn[c].inbound THEN "accepted" ELSE "done"
  <2>1. ph \in {"accepted", "done"} /\ ph \in Phases
    BY DEF Phases
  <2>2. conn' = [conn EXCEPT ![c].phase = ph]
    BY <1>2
  <2> HIDE DEF ph
  <2>3. Becomes(c, ph, conn[c].state, conn[c].open, conn[c].reader)
    BY <2>1, <2>2, SetPhase
  <2> QED
    BY <1>2, <2>1, <2>3
<1> QED
  BY <1>1, <1>2 DEF AddToHandshakeQueue

\* A connection is accepted, or the listener gives its place in the queue back.
LEMMA ListenEffect ==
  ASSUME TypeOK, NEW c \in Conns, ListenConnections(c)
  PROVE  \/ /\ conn' \in [Conns -> NodeState]
            /\ \A n \in Conns : n # c => conn'[n] = conn[n]
            /\ \E p \in Peers : Starts(c, p)
            /\ UNCHANGED <<queue, capChan>>
         \/ /\ conn[c].phase = "accepted"
            /\ Becomes(c, "done", conn[c].state, conn[c].open, conn[c].reader)
            /\ RemoveFromHandshakeQueue(c)
<1>1. CASE /\ conn[c].phase = "none" /\ UNCHANGED <<queue, capChan>>
           /\ \E p \in Peers :
                conn' = [conn EXCEPT ![c] = [NewNode(p, TRUE, "token") EXCEPT !.open = TRUE,
                                                                              !.reader = "idle"]]
  <2>1. PICK p \in Peers :
          conn' = [conn EXCEPT ![c] = [NewNode(p, TRUE, "token") EXCEPT !.open = TRUE,
                                                                        !.reader = "idle"]]
    BY <1>1
  <2> DEFINE node == [NewNode(p, TRUE, "token") EXCEPT !.open = TRUE, !.reader = "idle"]
  <2>2. PICK made \in NodeState : made = NewNode(p, TRUE, "token")
    BY DEF NewNode, NodeState, Phases, States, Readers, Ids
  <2>3. made.peer = p /\ made.phase = "token" /\ made.state = "INIT"
    BY <2>2 DEF NewNode
  <2>4. /\ node \in NodeState /\ node.peer = p /\ node.phase = "token"
        /\ node.state = "INIT" /\ node.reader = "idle"
    BY <2>2, <2>3 DEF NodeState, Readers
  <2>5. conn' = [conn EXCEPT ![c] = node]
    BY <2>1
  <2> HIDE DEF node
  <2>6. conn' \in [Conns -> NodeState] /\ conn'[c] = node
        /\ \A n \in Conns : n # c => conn'[n] = conn[n]
    BY <2>4, <2>5 DEF TypeOK
  <2> QED
    BY <1>1, <2>4, <2>6 DEF Starts
<1>2. CASE /\ conn[c].phase = "accepted" /\ RemoveFromHandshakeQueue(c)
           /\ conn' = [conn EXCEPT ![c].phase = "done"]
  BY <1>2, SetPhase DEF Phases
<1> QED
  BY <1>1, <1>2 DEF ListenConnections

\* Dialling starts connections that were not in use.
LEMMA SpawnEffect ==
  ASSUME TypeOK, NEW S \in SUBSET Ids, Spawn(S)
  PROVE  /\ conn' \in [Conns -> NodeState]
         /\ \A c \in Conns : conn'[c] = conn[c] \/ \E p \in Ids : Starts(c, p)
         /\ \A c \in Conns : conn'[c].phase = "register" <=> conn[c].phase = "register"
<1>1. PICK f \in [S -> {c \in Conns : conn[c].phase = "none"}] :
        conn' = [c \in Conns |-> IF \E p \in S : f[p] = c
                                   THEN NewNode(CHOOSE p \in S : f[p] = c, FALSE, "spawned")
                                   ELSE conn[c]]
  BY DEF Spawn
<1>2. ASSUME NEW c \in Conns, \E p \in S : f[p] = c
      PROVE  conn'[c] \in NodeState /\ \E p \in Ids : Starts(c, p)
  <2>1. PICK q \in Ids : q = CHOOSE p \in S : f[p] = c
    BY <1>2
  <2>2. conn'[c] = NewNode(q, FALSE, "spawned")
    BY <1>1, <1>2, <2>1
  <2>3. conn[c].phase = "none"
    BY <1>2
  <2> QED
    BY <2>2, <2>3 DEF Starts, NewNode, NodeState, Phases, States, Readers
<1>3. ASSUME NEW c \in Conns, ~ \E p \in S : f[p] = c
      PROVE  conn'[c] = conn[c] /\ conn[c] \in NodeState
  BY <1>1, <1>3 DEF TypeOK
<1>4. conn' \in [Conns -> NodeState]
  BY <1>1, <1>2, <1>3
<1> QED
  BY <1>2, <1>3, <1>4 DEF Starts

\* The version message of a peer takes the older connection out and closes it.
LEMMA VersionEffect ==
  ASSUME TypeOK, NEW c \in Conns, OnVersion(c), conn[c].peer \in Ids \ {Self}
  PROVE  LET old == nbrNodes[conn[c].peer] IN
         /\ conn' \in [Conns -> NodeState]
         /\ nbrNodes' = [nbrNodes EXCEPT ![conn[c].peer] = None]
         /\ conn[c].reader = "idle" /\ conn'[c].reader = "add"
         /\ \A n \in Conns :
              /\ conn'[n].peer = conn[n].peer /\ conn'[n].phase = conn[n].phase
              /\ n # c => conn'[n].reader = conn[n].reader
              /\ n = old => conn'[n].state = "INACTIVITY" /\ ~conn'[n].open
              /\ n # old => conn'[n].state = conn[n].state /\ conn'[n].open = conn[n].open
<1> DEFINE old == nbrNodes[conn[c].peer]
<1> DEFINE new(n) == IF n = old THEN [conn[n] EXCEPT !.state = "INACTIVITY", !.open = FALSE]
                                ELSE conn[n]
<1>1. DelNbrNode(c) /\ conn[c].reader = "idle"
  BY DEF OnVersion, Reads
<1>2. conn' = [n \in Conns |-> IF n = c THEN [new(n) EXCEPT !.reader = "add"] ELSE new(n)]
  BY <1>1 DEF DelNbrNode
<1>3. ASSUME NEW n \in Conns
      PROVE  /\ new(n) \in NodeState
             /\ new(n).peer = conn[n].peer /\ new(n).phase = conn[n].phase
             /\ new(n).reader = conn[n].reader
             /\ n = old => new(n).state = "INACTIVITY" /\ ~new(n).open
             /\ n # old => new(n).state = conn[n].state /\ new(n).open = conn[n].open
  <2>1. conn[n] \in NodeState
    BY DEF TypeOK
  <2> QED
    BY <2>1 DEF NodeState, States
<1>4. nbrNodes' = [nbrNodes EXCEPT ![conn[c].peer] = None]
  BY <1>1 DEF DelNbrNode
<1> HIDE DEF new
<1>5. ASSUME NEW n \in Conns
      PROVE  LET m == [new(n) EXCEPT !.reader = "add"] IN
             /\ m \in NodeState /\ m.peer = conn[n].peer /\ m.phase = conn[n].phase
             /\ m.reader = "add" /\ m.state = new(n).state /\ m.open = new(n).open
  <2>1. PICK old_n \in NodeState : old_n = new(n)
    BY <1>3
  <2>2. old_n.peer = conn[n].peer /\ old_n.phase = conn[n].phase
    BY <1>3, <2>1
  <2> QED
    BY <2>1, <2>2 DEF NodeState, Readers
<1>6. conn' \in [Conns -> NodeState]
  <2>1. ASSUME NEW n \in Conns
        PROVE  (IF n = c THEN [new(n) EXCEPT !.reader = "add"] ELSE new(n)) \in NodeState
    BY <1>3, <1>5
  <2> QED
    BY <1>2, <2>1
<1>7. ASSUME NEW n \in Conns
      PROVE  /\ conn'[n].peer = conn[n].peer /\ conn'[n].phase = conn[n].phase
             /\ n # c => conn'[n].reader = conn[n].reader
             /\ n = c => conn'[n].reader = "add"
             /\ conn'[n].state = new(n).state /\ conn'[n].open = new(n).open
  <2>1. CASE n = c
    BY <1>2, <1>5, <2>1
  <2>2. CASE n # c
    BY <1>2, <1>3, <2>2
  <2> QED
    BY <2>1, <2>2
<1>8. conn'[c].reader = "add"
  BY <1>7
<1>9. ASSUME NEW n \in Conns
      PROVE  /\ n = old => conn'[n].state = "INACTIVITY" /\ ~conn'[n].open
             /\ n # old => conn'[n].state = conn[n].state /\ conn'[n].open = conn[n].open
  <2>1. conn'[n].state = new(n).state /\ conn'[n].open = new(n).open
    BY <1>7
  <2> QED
    BY <1>3, <2>1, Zenon
<1> QED
  BY <1>1, <1>4, <1>6, <1>7, <1>8, <1>9

-----------------------------------------------------------------------------
(* The inductive invariants.                                               *)

\* How far a connection is bounds what its goroutines have done: an object that
\* nothing uses has no reader and no peer that counts; a dead reader has left a
\* closed connection and, if the connection still counts as established, its
\* event; a connection to the node itself never gets past the version message.
NodeFine(c) ==
  /\ conn[c].phase \in {"none", "spawned", "dial"} => conn[c].reader = "off"
  /\ conn[c].phase = "none" => conn[c].state = "INIT" /\ ~conn[c].open
  /\ conn[c].phase # "none" => conn[c].peer \in Ids
  /\ conn[c].reader = "dead" =>
       ~conn[c].open /\ (conn[c].state = "ESTABLISH" => c \in disconnects)
  /\ c \in queue => conn[c].phase \in {"accepted", "done"}
  /\ c \in disconnects => conn[c].phase # "none"
  /\ conn[c].peer = Self =>
       /\ conn[c].state \in {"INIT", "HAND", "INACTIVITY"}
       /\ conn[c].reader \in {"off", "idle", "dead"}

NodesInv == \A c \in Conns : NodeFine(c)

\* The list holds connections of the peer it lists them under.
NbrInv ==
  \A p \in Ids : nbrNodes[p] # None =>
    conn[nbrNodes[p]].peer = p /\ conn[nbrNodes[p]].phase # "none"

\* From the reply to the version message on, the peer of a connection is in the
\* list, or is about to be put there by a reader that took out the old one.
ShakesHands(c) ==
  \/ conn[c].state \in {"HANDSHAKE", "HANDSHAKED", "ESTABLISH"}
  \/ conn[c].reader \in {"reply", "establish"}

Adding(p) == \E n \in Conns : conn[n].reader = "add" /\ conn[n].peer = p

CoverInv == \A c \in Conns : ShakesHands(c) => nbrNodes[conn[c].peer] # None \/ Adding(conn[c].peer)

PeersInv == TypeOK /\ NodesInv /\ NbrInv

-----------------------------------------------------------------------------

\* Nothing happens to a connection that the step does not touch.
LEMMA OthersFine ==
  ASSUME NEW n, NodeFine(n), conn'[n] = conn[n],
         n \in queue' => n \in queue, n \in disconnects <=> n \in disconnects'
  PROVE  NodeFine(n)'
  BY DEF NodeFine

LEMMA RemoveTyped ==
  ASSUME TypeOK, NEW c \in Conns, RemoveFromHandshakeQueue(c)
  PROVE  capChan' \in 0 .. QueueCap /\ queue' \subseteq queue
  BY PeersAssumption DEF RemoveFromHandshakeQueue, TypeOK

LEMMA ConnectInv ==
  ASSUME PeersInv, NEW c \in Conns, Connect(c)
  PROVE  PeersInv'
<1> USE DEF PeersInv
<1>0. conn[c] \in NodeState /\ NodeFine(c)
  BY DEF TypeOK, NodesInv
<1>1. UNCHANGED <<nbrNodes, capChan, queue, known, disconnects>>
  BY DEF Connect
<1>2. conn' \in [Conns -> NodeState] /\ \A n \in Conns : n # c => conn'[n] = conn[n]
  BY ConnectEffect DEF Becomes
<1>3. NodeFine(c)'
  BY <1>0, <1>1, ConnectEffect DEF NodeFine, Becomes
<1>4. connecting' \subseteq Ids
  BY <1>0, ConnectEffect DEF NodeFine, TypeOK
<1>5. TypeOK'
  BY <1>1, <1>2, <1>4 DEF TypeOK
<1>6. NodesInv'
  BY <1>1, <1>2, <1>3, OthersFine DEF NodesInv
<1>7. conn'[c].peer = conn[c].peer /\ conn'[c].phase # "none"
  BY ConnectEffect DEF Becomes
<1>8. NbrInv'
  BY <1>1, <1>2, <1>7 DEF NbrInv, TypeOK
<1> QED
  BY <1>5, <1>6, <1>8

LEMMA SpawnInv ==
  ASSUME PeersInv, NEW S \in SUBSET Ids, Spawn(S), UNCHANGED <<nbrNodes, queue, disconnects>>
  PROVE  NodesInv' /\ NbrInv'
<1> USE DEF PeersInv
<1>1. ASSUME NEW c \in Conns
      PROVE  NodeFine(c)'
  <2>1. NodeFine(c)
    BY DEF NodesInv
  <2>2. CASE conn'[c] = conn[c]
    BY <2>1, <2>2, OthersFine
  <2>3. CASE \E p \in Ids : Starts(c, p)
    BY <2>1, <2>3 DEF NodeFine, Starts
  <2> QED
    BY <2>2, <2>3, SpawnEffect
<1>2. ASSUME NEW p \in Ids, nbrNodes'[p] # None
      PROVE  conn'[nbrNodes'[p]].peer = p /\ conn'[nbrNodes'[p]].phase # "none"
  <2>1. nbrNodes[p] \in Conns /\ conn[nbrNodes[p]].peer = p /\ conn[nbrNodes[p]].phase # "none"
    BY <1>2 DEF NbrInv, TypeOK
  <2>2. conn'[nbrNodes[p]] = conn[nbrNodes[p]]
    BY <2>1, SpawnEffect DEF Starts
  <2> QED
    BY <2>1, <2>2
<1> QED
  BY <1>1, <1>2 DEF NodesInv, NbrInv

LEMMA ListenInv ==
  ASSUME PeersInv, NEW c \in Conns, ListenConnections(c)
  PROVE  PeersInv'
<1> USE DEF PeersInv
<1>0. conn[c] \in NodeState /\ NodeFine(c)
  BY DEF TypeOK, NodesInv
<1>1. UNCHANGED <<nbrNodes, connecting, known, disconnects>> /\ queue' \subseteq queue
  BY DEF ListenConnections, RemoveFromHandshakeQueue
<1>2. conn' \in [Conns -> NodeState] /\ \A n \in Conns : n # c => conn'[n] = conn[n]
  BY ListenEffect DEF Becomes
<1>3. NodeFine(c)'
  <2>1. CASE \E p \in Peers : Starts(c, p)
    BY <1>0, <1>1, <2>1, PeersAssumption DEF NodeFine, Starts, Ids
  <2>2. CASE conn[c].phase = "accepted" /\ Becomes(c, "done", conn[c].state, conn[c].open, conn[c].reader)
    BY <1>0, <1>1, <2>2 DEF NodeFine, Becomes
  <2> QED
    BY <2>1, <2>2, ListenEffect
<1>4. capChan' \in 0 .. QueueCap
  BY ListenEffect, RemoveTyped DEF TypeOK
<1>5. TypeOK'
  BY <1>1, <1>2, <1>4 DEF TypeOK
<1>6. NodesInv'
  BY <1>1, <1>2, <1>3, OthersFine DEF NodesInv
<1>7. \/ conn[c].phase = "none"
      \/ conn'[c].peer = conn[c].peer /\ conn'[c].phase # "none"
  BY ListenEffect DEF Becomes, Starts
<1>8. NbrInv'
  BY <1>1, <1>2, <1>7 DEF NbrInv, TypeOK
<1> QED
  BY <1>5, <1>6, <1>8

LEMMA QueueStepInv ==
  ASSUME PeersInv, NEW c \in Conns, AddToHandshakeQueue(c) \/ HandleTimeout(c)
  PROVE  PeersInv'
<1> USE DEF PeersInv
<1>0. conn[c] \in NodeState /\ NodeFine(c)
  BY DEF TypeOK, NodesInv
<1>1. UNCHANGED <<nbrNodes, connecting, known, disconnects>> /\ queue' \subseteq queue \cup {c}
  BY DEF AddToHandshakeQueue, TakeToken, HandleTimeout, RemoveFromHandshakeQueue
<1>2. conn' \in [Conns -> NodeState] /\ \A n \in Conns : n # c => conn'[n] = conn[n]
  BY QueueEffect, CloseEffect DEF Becomes
<1>3. NodeFine(c)'
  <2>1. CASE AddToHandshakeQueue(c)
    BY <1>0, <1>1, <2>1, QueueEffect DEF NodeFine, Becomes
  <2>2. CASE HandleTimeout(c)
    BY <1>0, <1>1, <2>2, CloseEffect DEF NodeFine, Becomes, HandleTimeout
  <2> QED
    BY <2>1, <2>2
<1>4. capChan' \in 0 .. QueueCap
  BY PeersAssumption
     DEF AddToHandshakeQueue, TakeToken, HandleTimeout, RemoveFromHandshakeQueue, TypeOK
<1>5. TypeOK'
  BY <1>1, <1>2, <1>4 DEF TypeOK
<1>6. NodesInv'
  BY <1>1, <1>2, <1>3, OthersFine DEF NodesInv
<1>7. conn'[c].peer = conn[c].peer /\ (conn[c].phase # "none" => conn'[c].phase # "none")
  BY QueueEffect, CloseEffect DEF Becomes
<1>8. NbrInv'
  BY <1>1, <1>2, <1>7 DEF NbrInv, TypeOK
<1> QED
  BY <1>5, <1>6, <1>8

\* A step that is only the reader's, or that closes the connection.
LEMMA ReaderInv ==
  ASSUME PeersInv, NEW c \in Conns,
         ReplyVersion(c) \/ OnVerAck(c) \/ Establish(c) \/ FinishHandshake(c) \/ OnError(c)
           \/ PeerCloses(c) \/ Heartbeat(c) \/ (OnVersion(c) /\ conn[c].peer = Self)
  PROVE  PeersInv'
<1> USE DEF PeersInv
<1>0. conn[c] \in NodeState /\ NodeFine(c)
  BY DEF TypeOK, NodesInv
<1>1. UNCHANGED <<nbrNodes, known>>
  BY DEF ReplyVersion, OnVerAck, Establish, FinishHandshake, OnError, PeerCloses, Heartbeat,
         OnVersion
<1>3. /\ conn' \in [Conns -> NodeState] /\ \A n \in Conns : n # c => conn'[n] = conn[n]
      /\ conn'[c].peer = conn[c].peer /\ conn'[c].phase = conn[c].phase
  BY ReaderEffect, CloseEffect DEF Becomes
<1>4. capChan' \in 0 .. QueueCap /\ queue' \subseteq queue
  BY RemoveTyped DEF ReplyVersion, OnVerAck, Establish, FinishHandshake, OnError, PeerCloses, Heartbeat,
         OnVersion, TypeOK
<1>5. connecting' \subseteq connecting
  BY DEF ReplyVersion, OnVerAck, Establish, FinishHandshake, RemoveFromConnectingList, OnError,
         PeerCloses, Heartbeat, OnVersion
<1>6. disconnects' \in {disconnects, disconnects \cup {c}}
  BY DEF ReplyVersion, OnVerAck, Establish, FinishHandshake, OnError, PeerCloses, Heartbeat,
         OnVersion
<1>7. NodeFine(c)'
  <2>1. CASE ReplyVersion(c)
    BY <1>0, <1>4, <2>1, ReaderEffect DEF NodeFine, Becomes, ReplyVersion
  <2>2. CASE OnVerAck(c)
    BY <1>0, <1>4, <2>2, ReaderEffect DEF NodeFine, Becomes, OnVerAck, Reads
  <2>3. CASE Establish(c)
    BY <1>0, <1>4, <2>3, ReaderEffect DEF NodeFine, Becomes, Establish
  <2>4. CASE FinishHandshake(c)
    BY <1>0, <1>4, <2>4, ReaderEffect DEF NodeFine, Becomes, FinishHandshake
  <2>5. CASE OnError(c)
    BY <1>0, <1>4, <2>5, ReaderEffect DEF NodeFine, Becomes, OnError
  <2>6. CASE PeerCloses(c) \/ (OnVersion(c) /\ conn[c].peer = Self)
    BY <1>0, <1>4, <2>6, CloseEffect DEF NodeFine, Becomes, PeerCloses, OnVersion
  <2>7. CASE Heartbeat(c)
    BY <1>0, <1>4, <2>7, CloseEffect DEF NodeFine, Becomes, Heartbeat, Established
  <2> QED
    BY <2>1, <2>2, <2>3, <2>4, <2>5, <2>6, <2>7
<1>8. TypeOK'
  BY <1>1, <1>3, <1>4, <1>5, <1>6 DEF TypeOK
<1>9. NodesInv'
  BY <1>3, <1>4, <1>6, <1>7, OthersFine DEF NodesInv
<1>10. NbrInv'
  BY <1>1, <1>3 DEF NbrInv, TypeOK
<1> QED
  BY <1>8, <1>9, <1>10

\* The reader puts the connection into the list.
LEMMA AddInv ==
  ASSUME PeersInv, NEW c \in Conns, AddNbrNode(c)
  PROVE  PeersInv'
<1> USE DEF PeersInv
<1>0. conn[c] \in NodeState /\ NodeFine(c)
  BY DEF TypeOK, NodesInv
<1>1. /\ conn' \in [Conns -> NodeState] /\ \A n \in Conns : n # c => conn'[n] = conn[n]
      /\ conn'[c].peer = conn[c].peer /\ conn'[c].phase = conn[c].phase
  BY ReaderEffect DEF Becomes
<1>2. conn[c].peer \in Ids /\ conn[c].phase # "none"
  BY <1>0 DEF NodeFine, AddNbrNode
<1>3. UNCHANGED <<capChan, queue, connecting, disconnects>>
  BY DEF AddNbrNode
<1>4. nbrNodes' \in [Ids -> Conns \cup {None}] /\ known' \in [Ids -> Nat \cup {None}]
  BY DEF AddNbrNode, AddAddressToKnownAddress, TypeOK
<1>5. ASSUME NEW p \in Ids
      PROVE  nbrNodes'[p] = nbrNodes[p] \/ (p = conn[c].peer /\ nbrNodes'[p] = c)
  <2> DEFINE q == conn[c].peer
  <2>1. nbrNodes' = [nbrNodes EXCEPT ![q] = IF nbrNodes[q] = None THEN c ELSE nbrNodes[q]]
    BY DEF AddNbrNode
  <2> HIDE DEF q
  <2>2. nbrNodes'[p] = nbrNodes[p] \/ (p = q /\ nbrNodes'[p] = c)
    BY <2>1 DEF TypeOK
  <2> QED
    BY <2>2 DEF q
<1>6. NodeFine(c)'
  BY <1>0, <1>3, ReaderEffect DEF NodeFine, Becomes, AddNbrNode
<1>7. TypeOK'
  BY <1>1, <1>3, <1>4 DEF TypeOK
<1>8. NodesInv'
  BY <1>1, <1>3, <1>6, OthersFine DEF NodesInv
<1>9. NbrInv'
  BY <1>1, <1>2, <1>5, PeersAssumption DEF NbrInv, TypeOK
<1> QED
  BY <1>7, <1>8, <1>9

\* The version message of another node.
LEMMA VersionInv ==
  ASSUME PeersInv, NEW c \in Conns, OnVersion(c), conn[c].peer # Self
  PROVE  PeersInv'
<1> USE DEF PeersInv
<1>0. conn[c].peer \in Ids \ {Self} /\ conn[c].phase # "none"
  BY DEF NodesInv, NodeFine, OnVersion, Reads
<1>1. UNCHANGED <<capChan, queue, connecting, known, disconnects>>
  BY DEF OnVersion
<1>2. nbrNodes' = [nbrNodes EXCEPT ![conn[c].peer] = None]
  BY <1>0, VersionEffect
<1>3. ASSUME NEW n \in Conns
      PROVE  NodeFine(n)'
  <2>1. NodeFine(n) /\ NodeFine(c)
    BY DEF NodesInv
  <2>2. n = nbrNodes[conn[c].peer] => conn[n].phase # "none"
    BY <1>0, PeersAssumption DEF NbrInv
  <2>3. /\ conn'[n].peer = conn[n].peer /\ conn'[n].phase = conn[n].phase
        /\ conn'[n].reader = conn[n].reader \/ (n = c /\ conn'[n].reader = "add")
        /\ conn'[n].state = conn[n].state \/ conn'[n].state = "INACTIVITY"
        /\ conn'[n].open => conn[n].open
        /\ n # nbrNodes[conn[c].peer] => conn'[n].state = conn[n].state
        /\ conn[c].reader = "idle"
    BY <1>0, VersionEffect
  <2> QED
    BY <1>0, <1>1, <2>1, <2>2, <2>3 DEF NodeFine
<1>4. TypeOK'
  BY <1>0, <1>1, <1>2, VersionEffect DEF TypeOK
<1>5. NbrInv'
  BY <1>0, <1>2, VersionEffect DEF NbrInv, TypeOK
<1> QED
  BY <1>3, <1>4, <1>5 DEF NodesInv

\* The event of a disconnect is handled.
LEMMA DisconnectInv ==
  ASSUME PeersInv, NEW c \in Conns, NodeDisconnect(c)
  PROVE  PeersInv'
<1> USE DEF PeersInv
<1>0. conn[c] \in NodeState /\ NodeFine(c)
  BY DEF TypeOK, NodesInv
<1>1. UNCHANGED <<capChan, queue, connecting, known>> /\ disconnects' = disconnects \ {c}
      /\ nbrNodes' = [nbrNodes EXCEPT ![Self] = None]
  BY DEF NodeDisconnect
<1>2. Becomes(c, conn[c].phase, "INACTIVITY", FALSE, conn[c].reader)
  BY CloseEffect
<1>3. NodeFine(c)'
  BY <1>0, <1>1, <1>2 DEF NodeFine, Becomes, NodeDisconnect
<1>4. NodesInv'
  BY <1>1, <1>2, <1>3, OthersFine DEF NodesInv, Becomes
<1>5. TypeOK'
  BY <1>1, <1>2 DEF TypeOK, Becomes
<1>6. NbrInv'
  BY <1>1, <1>2 DEF NbrInv, TypeOK, Becomes
<1> QED
  BY <1>4, <1>5, <1>6

LEMMA PeersInvInductive ==
  ASSUME PeersInv, [Next]_vars
  PROVE  PeersInv'
<1> USE PeersAssumption
<1>1. ASSUME NEW p \in Ids, ConnectSeeds(p)
      PROVE  PeersInv'
  <2>1. conn' \in [Conns -> NodeState] /\ NodesInv' /\ NbrInv'
    BY <1>1, SpawnEffect, SpawnInv DEF ConnectSeeds, PeersInv
  <2> QED
    BY <1>1, <2>1 DEF ConnectSeeds, PeersInv, TypeOK
<1>2. ASSUME NEW S \in SUBSET Ids, ConnectNode(S)
      PROVE  PeersInv'
  <2>1. conn' \in [Conns -> NodeState] /\ NodesInv' /\ NbrInv'
    BY <1>2, SpawnEffect, SpawnInv DEF ConnectNode, PeersInv
  <2>2. known' \in [Ids -> Nat \cup {None}]
    BY <1>2 DEF ConnectNode, RandGetAddresses, TypeOK, PeersInv
  <2> QED
    BY <1>2, <2>1, <2>2 DEF ConnectNode, TypeOK, PeersInv
<1>3. ASSUME NEW c \in Conns, CheckConnCnt(c)
      PROVE  PeersInv'
  <2>1. NodesInv'
    BY <1>3 DEF CheckConnCnt, GetNeighborNoder, Established, NodesInv, NodeFine, PeersInv
  <2> QED
    BY <1>3, <2>1 DEF CheckConnCnt, TypeOK, NbrInv, PeersInv
<1>4. ASSUME NEW c \in Conns, NEW p \in Ids, OnAddrs(c, p)
      PROVE  PeersInv'
  <2>1. known' \in [Ids -> Nat \cup {None}]
    BY <1>4 DEF OnAddrs, AddAddressToKnownAddress, TypeOK, PeersInv
  <2> QED
    BY <1>4, <2>1 DEF OnAddrs, TypeOK, NodesInv, NodeFine, NbrInv, PeersInv
<1>5. CASE UNCHANGED vars
  BY <1>5 DEF vars, TypeOK, NodesInv, NodeFine, NbrInv, PeersInv
<1>6. ASSUME NEW c \in Conns, Reader(c) \/ Environment(c)
      PROVE  PeersInv'
  BY <1>6, <1>4, ReaderInv, AddInv, VersionInv DEF Reader, Environment
<1>7. ASSUME NEW c \in Conns, NodeDisconnect(c) \/ Heartbeat(c)
      PROVE  PeersInv'
  BY <1>7, ReaderInv, DisconnectInv
<1> QED
  BY <1>1, <1>2, <1>3, <1>5, <1>6, <1>7, ConnectInv, ListenInv, QueueStepInv DEF Next

-----------------------------------------------------------------------------
(* The neighbour list and the connections that shake hands.                *)

\* A step that puts no connection's peer out of the list, stops no reader from
\* adding, and lets no connection shake hands that did not, keeps the cover.
LEMMA CoverFrame ==
  ASSUME TypeOK, NodesInv, CoverInv,
         \A p \in Ids : nbrNodes[p] # None => nbrNodes'[p] # None,
         \A n \in Conns : conn[n].reader = "add" =>
                            conn'[n].reader = "add" /\ conn'[n].peer = conn[n].peer,
         \A n \in Conns : ShakesHands(n)' => ShakesHands(n) /\ conn'[n].peer = conn[n].peer
  PROVE  CoverInv'
<1> SUFFICES ASSUME NEW c \in Conns, ShakesHands(c)'
             PROVE  nbrNodes'[conn'[c].peer] # None \/ Adding(conn[c].peer)'
  BY DEF CoverInv, Adding
<1>1. ShakesHands(c) /\ conn'[c].peer = conn[c].peer
  OBVIOUS
<1>2. conn[c].peer \in Ids
  BY <1>1 DEF NodesInv, NodeFine, ShakesHands
<1>3. CASE nbrNodes[conn[c].peer] # None
  BY <1>1, <1>2, <1>3
<1>4. CASE Adding(conn[c].peer)
  BY <1>4 DEF Adding
<1> QED
  BY <1>1, <1>3, <1>4 DEF CoverInv

\* The steps of one connection's goroutines that do not touch the list.
LEMMA CoverOne ==
  ASSUME PeersInv, CoverInv, NEW c \in Conns, UNCHANGED nbrNodes,
         NEW ph, NEW s, NEW o, NEW r, Becomes(c, ph, s, o, r),
         conn[c].reader = "add" => r = "add",
         \/ s \notin {"HANDSHAKE", "HANDSHAKED", "ESTABLISH"} \/ s = conn[c].state
         \/ ShakesHands(c),
         r \notin {"reply", "establish"} \/ r = conn[c].reader \/ ShakesHands(c)
  PROVE  CoverInv'
<1>1. ASSUME NEW n \in Conns
      PROVE  /\ conn'[n].peer = conn[n].peer
             /\ conn[n].reader = "add" => conn'[n].reader = "add"
             /\ ShakesHands(n)' => ShakesHands(n)
  BY DEF Becomes, ShakesHands
<1> QED
  BY <1>1, CoverFrame DEF PeersInv

LEMMA CoverInductive ==
  ASSUME PeersInv, CoverInv, [Next]_vars
  PROVE  CoverInv'
<1>0. ASSUME NEW c \in Conns
      PROVE  conn[c] \in NodeState /\ NodeFine(c)
  BY DEF PeersInv, TypeOK, NodesInv
<1>1. ASSUME NEW S \in SUBSET Ids, Spawn(S), UNCHANGED nbrNodes
      PROVE  CoverInv'
  <2>1. ASSUME NEW n \in Conns
        PROVE  /\ conn[n].reader = "add" =>
                    conn'[n].reader = "add" /\ conn'[n].peer = conn[n].peer
               /\ ShakesHands(n)' => ShakesHands(n) /\ conn'[n].peer = conn[n].peer
    <3>1. CASE conn'[n] = conn[n]
      BY <3>1 DEF ShakesHands
    <3>2. CASE \E p \in Ids : Starts(n, p)
      BY <1>0, <3>2 DEF ShakesHands, Starts, NodeFine
    <3> QED
      BY <1>1, <3>1, <3>2, SpawnEffect DEF PeersInv
  <2> QED
    BY <1>1, <2>1, CoverFrame DEF PeersInv
<1>2. ASSUME NEW c \in Conns, Connect(c)
      PROVE  CoverInv'
  <2>1. UNCHANGED nbrNodes /\ NodeFine(c) /\ TypeOK
    BY <1>0, <1>2 DEF Connect, PeersInv
  <2>2. PICK ph \in Phases, s \in {conn[c].state, "HAND"}, o \in BOOLEAN, r \in {conn[c].reader, "idle"} :
          Becomes(c, ph, s, o, r) /\ (conn[c].reader = "add" => r = "add")
    BY <1>0, <1>2, <2>1, ConnectEffect DEF NodeFine, NodeState, Phases
  <2> QED
    BY <2>1, <2>2, CoverOne
<1>3. ASSUME NEW c \in Conns, ListenConnections(c)
      PROVE  CoverInv'
  <2>1. UNCHANGED nbrNodes /\ NodeFine(c) /\ TypeOK /\ NodesInv
    BY <1>0, <1>3 DEF ListenConnections, PeersInv
  <2>2. CASE /\ conn' \in [Conns -> NodeState]
             /\ \A n \in Conns : n # c => conn'[n] = conn[n]
             /\ \E p \in Peers : Starts(c, p)
    <3>1. ASSUME NEW n \in Conns
          PROVE  /\ conn[n].reader = "add" =>
                      conn'[n].reader = "add" /\ conn'[n].peer = conn[n].peer
                 /\ ShakesHands(n)' => ShakesHands(n) /\ conn'[n].peer = conn[n].peer
      BY <2>1, <2>2 DEF ShakesHands, Starts, NodeFine
    <3> QED
      BY <2>1, <3>1, CoverFrame
  <2>3. CASE Becomes(c, "done", conn[c].state, conn[c].open, conn[c].reader)
    BY <2>1, <2>3, CoverOne
  <2> QED
    BY <1>3, <2>1, <2>2, <2>3, ListenEffect
<1>4. ASSUME NEW c \in Conns, AddToHandshakeQueue(c)
      PROVE  CoverInv'
  <2>1. UNCHANGED nbrNodes /\ TypeOK
    BY <1>4 DEF AddToHandshakeQueue, TakeToken, PeersInv
  <2>2. \E ph \in Phases : Becomes(c, ph, conn[c].state, conn[c].open, conn[c].reader)
    BY <1>4, <2>1, QueueEffect DEF Phases
  <2> QED
    BY <2>1, <2>2, CoverOne
<1>5. ASSUME NEW c \in Conns,
             HandleTimeout(c) \/ PeerCloses(c) \/ (OnVersion(c) /\ conn[c].peer = Self)
      PROVE  CoverInv'
  <2>1. UNCHANGED nbrNodes /\ TypeOK
    BY <1>5 DEF HandleTimeout, PeerCloses, OnVersion, PeersInv
  <2>2. Becomes(c, conn[c].phase, conn[c].state, FALSE, conn[c].reader)
    BY <1>5, <2>1, CloseEffect
  <2> QED
    BY <2>1, <2>2, CoverOne
<1>6. ASSUME NEW c \in Conns, Heartbeat(c)
      PROVE  CoverInv'
  <2>1. UNCHANGED nbrNodes /\ TypeOK
    BY <1>6 DEF Heartbeat, PeersInv
  <2>2. Becomes(c, conn[c].phase, "INACTIVITY", FALSE, conn[c].reader)
    BY <1>6, <2>1, CloseEffect
  <2> QED
    BY <2>1, <2>2, CoverOne
<1>7. ASSUME NEW c \in Conns, ReplyVersion(c) \/ OnVerAck(c) \/ Establish(c)
                                \/ FinishHandshake(c) \/ OnError(c)
      PROVE  CoverInv'
  <2>1. UNCHANGED nbrNodes /\ TypeOK
    BY <1>7 DEF ReplyVersion, OnVerAck, Establish, FinishHandshake, OnError, PeersInv
  <2>2. CASE ReplyVersion(c)
    <3>1. conn[c].reader = "reply"
      BY <2>2 DEF ReplyVersion
    <3>2. \E s \in {"HANDSHAKE", "HANDSHAKED", conn[c].state} :
            Becomes(c, conn[c].phase, s, conn[c].open, "idle")
      BY <2>1, <2>2, ReaderEffect
    <3> QED
      BY <2>1, <3>1, <3>2, CoverOne DEF ShakesHands
  <2>3. CASE OnVerAck(c)
    <3>1. conn[c].reader = "idle" /\ conn[c].state \in {"HANDSHAKE", "HANDSHAKED"}
      BY <2>3 DEF OnVerAck, Reads
    <3>2. Becomes(c, conn[c].phase, conn[c].state, conn[c].open, "establish")
      BY <2>1, <2>3, ReaderEffect
    <3> QED
      BY <2>1, <3>1, <3>2, CoverOne DEF ShakesHands
  <2>4. CASE Establish(c)
    <3>1. conn[c].reader = "establish"
      BY <2>4 DEF Establish
    <3>2. Becomes(c, conn[c].phase, "ESTABLISH", conn[c].open, "dequeue")
      BY <2>1, <2>4, ReaderEffect
    <3> QED
      BY <2>1, <3>1, <3>2, CoverOne DEF ShakesHands
  <2>5. CASE FinishHandshake(c) \/ OnError(c)
    <3>1. conn[c].reader # "add"
      BY <2>5 DEF FinishHandshake, OnError
    <3>2. \E r \in {"delist", "idle", "dead"} :
            Becomes(c, conn[c].phase, conn[c].state, conn[c].open, r)
      BY <2>1, <2>5, ReaderEffect
    <3> QED
      BY <2>1, <3>1, <3>2, CoverOne
  <2> QED
    BY <1>7, <2>2, <2>3, <2>4, <2>5
<1>8. ASSUME NEW c \in Conns, AddNbrNode(c)
      PROVE  CoverInv'
  <2>1. TypeOK /\ NodesInv /\ NodeFine(c) /\ conn[c].reader = "add"
    BY <1>0, <1>8 DEF AddNbrNode, PeersInv
  <2> DEFINE q == conn[c].peer
  <2>2. q \in Ids
    BY <2>1 DEF NodeFine
  <2>3. Becomes(c, conn[c].phase, conn[c].state, conn[c].open, "reply")
    BY <1>8, <2>1, ReaderEffect
  <2>4. nbrNodes' = [nbrNodes EXCEPT ![q] = IF nbrNodes[q] = None THEN c ELSE nbrNodes[q]]
    BY <1>8 DEF AddNbrNode
  <2> HIDE DEF q
  <2>5. nbrNodes'[q] # None /\ \A p \in Ids : nbrNodes[p] # None => nbrNodes'[p] # None
    BY <2>1, <2>2, <2>4, PeersAssumption DEF TypeOK
  <2> SUFFICES ASSUME NEW n \in Conns, ShakesHands(n)'
               PROVE  nbrNodes'[conn'[n].peer] # None \/ Adding(conn[n].peer)'
    BY DEF CoverInv, Adding
  <2>6. conn'[n].peer = conn[n].peer
    BY <2>3 DEF Becomes
  <2>7. CASE conn[n].peer = q
    BY <2>5, <2>6, <2>7
  <2>8. CASE conn[n].peer # q
    <3>1. n # c
      BY <2>8 DEF q
    <3>2. conn'[n] = conn[n]
      BY <2>3, <3>1 DEF Becomes
    <3>3. ShakesHands(n) /\ conn[n].peer \in Ids
      BY <2>1, <3>2 DEF ShakesHands, NodesInv, NodeFine
    <3>4. CASE nbrNodes[conn[n].peer] # None
      BY <2>5, <2>6, <3>3, <3>4
    <3>5. CASE Adding(conn[n].peer)
      <4>1. PICK m \in Conns : conn[m].reader = "add" /\ conn[m].peer = conn[n].peer
        BY <3>5 DEF Adding
      <4>2. m # c
        BY <4>1, <2>8 DEF q
      <4>3. conn'[m] = conn[m]
        BY <2>3, <4>2 DEF Becomes
      <4> QED
        BY <2>6, <4>1, <4>3 DEF Adding
    <3> QED
      BY <3>3, <3>4, <3>5 DEF CoverInv
  <2> QED
    BY <2>7, <2>8
<1>9. ASSUME NEW c \in Conns, OnVersion(c), conn[c].peer # Self
      PROVE  CoverInv'
  <2>1. TypeOK /\ NodesInv /\ conn[c].peer \in Ids \ {Self}
    BY <1>0, <1>9 DEF OnVersion, Reads, NodeFine, PeersInv
  <2>2. /\ nbrNodes' = [nbrNodes EXCEPT ![conn[c].peer] = None]
        /\ conn[c].reader = "idle" /\ conn'[c].reader = "add"
    BY <1>9, <2>1, VersionEffect
  <2>3. ASSUME NEW n \in Conns
        PROVE  /\ conn'[n].peer = conn[n].peer /\ (n # c => conn'[n].reader = conn[n].reader)
               /\ conn'[n].state = conn[n].state \/ conn'[n].state = "INACTIVITY"
    BY <1>9, <2>1, VersionEffect
  <2> SUFFICES ASSUME NEW n \in Conns, ShakesHands(n)'
               PROVE  nbrNodes'[conn'[n].peer] # None \/ Adding(conn[n].peer)'
    BY DEF CoverInv, Adding
  <2>4. CASE conn[n].peer = conn[c].peer
    BY <2>2, <2>3, <2>4 DEF Adding
  <2>5. CASE conn[n].peer # conn[c].peer
    <3>1. ShakesHands(n) /\ conn[n].peer \in Ids
      BY <2>1, <2>3, <2>5 DEF ShakesHands, NodesInv, NodeFine
    <3>2. CASE nbrNodes[conn[n].peer] # None
      BY <2>1, <2>2, <2>3, <2>5, <3>1, <3>2 DEF TypeOK
    <3>3. CASE Adding(conn[n].peer)
      BY <2>2, <2>3, <3>3 DEF Adding
    <3> QED
      BY <3>1, <3>2, <3>3 DEF CoverInv
  <2> QED
    BY <2>4, <2>5
<1>10. ASSUME NEW c \in Conns, NodeDisconnect(c)
       PROVE  CoverInv'
  <2>1. TypeOK /\ NodesInv
    BY DEF PeersInv
  <2>2. Becomes(c, conn[c].phase, "INACTIVITY", FALSE, conn[c].reader)
    BY <1>10, <2>1, CloseEffect
  <2>3. nbrNodes' = [nbrNodes EXCEPT ![Self] = None]
    BY <1>10 DEF NodeDisconnect
  <2>4. ASSUME NEW n \in Conns
        PROVE  /\ conn'[n].peer = conn[n].peer /\ conn'[n].reader = conn[n].reader
               /\ ShakesHands(n)' => ShakesHands(n)
    BY <2>2 DEF Becomes, ShakesHands
  <2> SUFFICES ASSUME NEW n \in Conns, ShakesHands(n)'
               PROVE  nbrNodes'[conn'[n].peer] # None \/ Adding(conn[n].peer)'
    BY DEF CoverInv, Adding
  <2>5. ShakesHands(n)
    BY <2>4
  <2>6. conn[n].peer \in Ids \ {Self}
    BY <2>1, <2>5 DEF ShakesHands, NodesInv, NodeFine
  <2>7. CASE nbrNodes[conn[n].peer] # None
    BY <2>1, <2>3, <2>4, <2>6, <2>7 DEF TypeOK
  <2>8. CASE Adding(conn[n].peer)
    BY <2>4, <2>8 DEF Adding
  <2> QED
    BY <2>5, <2>7, <2>8 DEF CoverInv
<1>11. CASE UNCHANGED <<conn, nbrNodes>>
  BY <1>11 DEF CoverInv, ShakesHands, Adding
<1>12. ASSUME NEW p \in Ids, ConnectSeeds(p)
       PROVE  CoverInv'
  BY <1>1, <1>12 DEF ConnectSeeds
<1>13. ASSUME NEW S \in SUBSET Ids, ConnectNode(S)
       PROVE  CoverInv'
  BY <1>1, <1>13 DEF ConnectNode
<1>14. ASSUME NEW c \in Conns, CheckConnCnt(c) \/ \E p \in Ids : OnAddrs(c, p)
       PROVE  CoverInv'
  BY <1>11, <1>14 DEF CheckConnCnt, OnAddrs
<1>15. CASE UNCHANGED vars
  BY <1>11, <1>15 DEF vars
<1>16. ASSUME NEW c \in Conns, Reader(c) \/ Environment(c)
       PROVE  CoverInv'
  BY <1>5, <1>7, <1>8, <1>9, <1>14, <1>16 DEF Reader, Environment
<1> QED
  BY <1>2, <1>3, <1>4, <1>5, <1>6, <1>10, <1>12, <1>13, <1>14, <1>15, <1>16 DEF Next

-----------------------------------------------------------------------------
(* The tokens of the handshake queue.                                      *)

Registering == {c \in Conns : conn[c].phase = "register"}

LEMMA CountsAreNumbers ==
  ASSUME TypeOK
  PROVE  /\ IsFiniteSet(queue) /\ IsFiniteSet(Registering)
         /\ Cardinality(queue) \in Nat /\ Cardinality(Registering) \in Nat
<1>1. queue \subseteq Conns /\ Registering \subseteq Conns
  BY DEF TypeOK, Registering
<1> QED
  BY <1>1, PeersAssumption, FS_Subset, FS_CardinalityType

\* The three ways to change what is counted, and none.
LEMMA TokenTaken ==
  ASSUME TypeOK, TokensCoverQueue, NEW c \in Conns, c \notin Registering,
         capChan' = capChan + 1, UNCHANGED queue, Registering' = Registering \cup {c}
  PROVE  TokensCoverQueue'
<1>1. Cardinality(Registering \cup {c}) = Cardinality(Registering) + 1
  BY CountsAreNumbers, FS_AddElement
<1>2. capChan = Cardinality(queue) + Cardinality(Registering)
  BY DEF TokensCoverQueue, Registering
<1>3. capChan' = Cardinality(queue') + Cardinality(Registering')
  BY <1>1, <1>2, CountsAreNumbers
<1> QED
  BY <1>3 DEF TokensCoverQueue, Registering

LEMMA TokenRegistered ==
  ASSUME TypeOK, TokensCoverQueue, NEW c \in Conns, c \in Registering, c \notin queue,
         UNCHANGED capChan, queue' = queue \cup {c}, Registering' = Registering \ {c}
  PROVE  TokensCoverQueue'
<1>1. Cardinality(Registering \ {c}) = Cardinality(Registering) - 1
  BY CountsAreNumbers, FS_RemoveElement
<1>2. Cardinality(queue \cup {c}) = Cardinality(queue) + 1
  BY CountsAreNumbers, FS_AddElement
<1>3. capChan = Cardinality(queue) + Cardinality(Registering)
  BY DEF TokensCoverQueue, Registering
<1>4. capChan' = Cardinality(queue') + Cardinality(Registering')
  BY <1>1, <1>2, <1>3, CountsAreNumbers
<1> QED
  BY <1>4 DEF TokensCoverQueue, Registering

LEMMA TokenReturned ==
  ASSUME TypeOK, TokensCoverQueue, NEW c \in Conns, RemoveFromHandshakeQueue(c),
         UNCHANGED Registering
  PROVE  TokensCoverQueue'
<1>1. capChan = Cardinality(queue) + Cardinality(Registering)
  BY DEF TokensCoverQueue, Registering
<1>2. CASE c \in queue
  <2>1. Cardinality(queue \ {c}) = Cardinality(queue) - 1
    BY <1>2, CountsAreNumbers, FS_RemoveElement
  <2>2. capChan' = capChan - 1 /\ queue' = queue \ {c}
    BY <1>2 DEF RemoveFromHandshakeQueue
  <2>3. Cardinality(queue') = Cardinality(queue) - 1 /\ Cardinality(Registering') = Cardinality(Registering)
    BY <2>1, <2>2
  <2>4. capChan' = Cardinality(queue') + Cardinality(Registering')
    BY <1>1, <2>2, <2>3, CountsAreNumbers
  <2> QED
    BY <2>4 DEF TokensCoverQueue, Registering
<1>3. CASE c \notin queue
  <2>1. capChan' = Cardinality(queue') + Cardinality(Registering')
    BY <1>1, <1>3 DEF RemoveFromHandshakeQueue
  <2> QED
    BY <2>1 DEF TokensCoverQueue, Registering
<1> QED
  BY <1>2, <1>3

LEMMA TokenFrame ==
  ASSUME TypeOK, TokensCoverQueue, UNCHANGED <<capChan, queue, Registering>>
  PROVE  TokensCoverQueue'
<1>1. capChan' = Cardinality(queue') + Cardinality(Registering')
  BY DEF TokensCoverQueue, Registering
<1> QED
  BY <1>1 DEF TokensCoverQueue, Registering

\* A step of one connection that neither starts nor ends its registration.
LEMMA RegisteringKept ==
  ASSUME NEW c \in Conns, NEW ph, NEW s, NEW o, NEW r, Becomes(c, ph, s, o, r),
         ph = "register" <=> conn[c].phase = "register"
  PROVE  UNCHANGED Registering
  BY DEF Becomes, Registering

LEMMA TokensInductive ==
  ASSUME PeersInv, TokensCoverQueue, [Next]_vars
  PROVE  TokensCoverQueue'
<1>0. TypeOK /\ NodesInv /\ NbrInv
  BY DEF PeersInv
<1>1. ASSUME NEW S \in SUBSET Ids, Spawn(S), UNCHANGED <<capChan, queue>>
      PROVE  TokensCoverQueue'
  <2>1. UNCHANGED Registering
    BY <1>0, <1>1, SpawnEffect DEF Registering
  <2> QED
    BY <1>0, <1>1, <2>1, TokenFrame
<1>2. ASSUME NEW c \in Conns, Connect(c)
      PROVE  TokensCoverQueue'
  <2>1. UNCHANGED <<capChan, queue>>
    BY <1>2 DEF Connect
  <2>2. UNCHANGED Registering
    BY <1>0, <1>2, ConnectEffect, RegisteringKept
  <2> QED
    BY <1>0, <2>1, <2>2, TokenFrame
<1>3. ASSUME NEW c \in Conns, ListenConnections(c)
      PROVE  TokensCoverQueue'
  <2>1. CASE /\ conn' \in [Conns -> NodeState]
             /\ \A n \in Conns : n # c => conn'[n] = conn[n]
             /\ \E p \in Peers : Starts(c, p)
             /\ UNCHANGED <<queue, capChan>>
    <3>1. UNCHANGED Registering
      BY <2>1 DEF Registering, Starts
    <3> QED
      BY <1>0, <2>1, <3>1, TokenFrame
  <2>2. CASE /\ conn[c].phase = "accepted"
             /\ Becomes(c, "done", conn[c].state, conn[c].open, conn[c].reader)
             /\ RemoveFromHandshakeQueue(c)
    BY <1>0, <2>2, RegisteringKept, TokenReturned
  <2> QED
    BY <1>0, <1>3, <2>1, <2>2, ListenEffect
<1>4. ASSUME NEW c \in Conns, AddToHandshakeQueue(c)
      PROVE  TokensCoverQueue'
  <2>1. CASE /\ conn[c].phase = "token"
             /\ capChan' = capChan + 1 /\ UNCHANGED queue
             /\ Becomes(c, "register", conn[c].state, conn[c].open, conn[c].reader)
    <3>1. c \notin Registering /\ Registering' = Registering \cup {c}
      BY <2>1 DEF Registering, Becomes
    <3> QED
      BY <1>0, <2>1, <3>1, TokenTaken
  <2>2. CASE /\ conn[c].phase = "register"
             /\ queue' = queue \cup {c} /\ UNCHANGED capChan
             /\ \E ph \in {"accepted", "done"} :
                  Becomes(c, ph, conn[c].state, conn[c].open, conn[c].reader)
    <3>1. c \in Registering /\ Registering' = Registering \ {c}
      BY <2>2 DEF Registering, Becomes
    <3>2. c \notin queue
      BY <1>0, <2>2 DEF NodesInv, NodeFine
    <3> QED
      BY <1>0, <2>2, <3>1, <3>2, TokenRegistered
  <2> QED
    BY <1>0, <1>4, <2>1, <2>2, QueueEffect
<1>5. ASSUME NEW c \in Conns, HandleTimeout(c)
      PROVE  TokensCoverQueue'
  <2>1. UNCHANGED Registering
    BY <1>0, <1>5, CloseEffect, RegisteringKept
  <2> QED
    BY <1>0, <1>5, <2>1, TokenReturned DEF HandleTimeout
<1>6. ASSUME NEW c \in Conns, FinishHandshake(c)
      PROVE  TokensCoverQueue'
  <2>1. UNCHANGED Registering
    BY <1>0, <1>6, ReaderEffect, RegisteringKept
  <2>2. RemoveFromHandshakeQueue(c) \/ UNCHANGED <<capChan, queue>>
    BY <1>6 DEF FinishHandshake
  <2> QED
    BY <1>0, <2>1, <2>2, TokenReturned, TokenFrame
<1>7. ASSUME NEW c \in Conns, AddNbrNode(c) \/ ReplyVersion(c) \/ Establish(c) \/ OnError(c)
                                \/ OnVerAck(c)
      PROVE  TokensCoverQueue'
  <2>1. UNCHANGED <<capChan, queue>>
    BY <1>7 DEF AddNbrNode, ReplyVersion, Establish, OnError, OnVerAck
  <2>2. UNCHANGED Registering
    BY <1>0, <1>7, ReaderEffect, RegisteringKept
  <2> QED
    BY <1>0, <2>1, <2>2, TokenFrame
<1>8. ASSUME NEW c \in Conns,
             PeerCloses(c) \/ (OnVersion(c) /\ conn[c].peer = Self)
               \/ NodeDisconnect(c) \/ Heartbeat(c)
      PROVE  TokensCoverQueue'
  <2>1. UNCHANGED <<capChan, queue>>
    BY <1>8 DEF PeerCloses, OnVersion, NodeDisconnect, Heartbeat
  <2>2. UNCHANGED Registering
    BY <1>0, <1>8, CloseEffect, RegisteringKept
  <2> QED
    BY <1>0, <2>1, <2>2, TokenFrame
<1>9. ASSUME NEW c \in Conns, OnVersion(c), conn[c].peer # Self
      PROVE  TokensCoverQueue'
  <2>1. UNCHANGED <<capChan, queue>>
    BY <1>9 DEF OnVersion
  <2>2. conn[c].peer \in Ids \ {Self}
    BY <1>0, <1>9 DEF OnVersion, Reads, NodesInv, NodeFine
  <2>3. UNCHANGED Registering
    BY <1>0, <1>9, <2>2, VersionEffect DEF Registering
  <2> QED
    BY <1>0, <2>1, <2>3, TokenFrame
<1>10. CASE UNCHANGED <<conn, capChan, queue>>
  BY <1>0, <1>10, TokenFrame DEF Registering
<1>11. ASSUME NEW p \in Ids, ConnectSeeds(p)
       PROVE  TokensCoverQueue'
  BY <1>1, <1>11 DEF ConnectSeeds
<1>12. ASSUME NEW S \in SUBSET Ids, ConnectNode(S)
       PROVE  TokensCoverQueue'
  BY <1>1, <1>12 DEF ConnectNode
<1>13. ASSUME NEW c \in Conns, CheckConnCnt(c) \/ \E p \in Ids : OnAddrs(c, p)
       PROVE  TokensCoverQueue'
  BY <1>10, <1>13 DEF CheckConnCnt, OnAddrs
<1>14. CASE UNCHANGED vars
  BY <1>10, <1>14 DEF vars
<1>15. ASSUME NEW c \in Conns, Reader(c) \/ Environment(c)
       PROVE  TokensCoverQueue'
  BY <1>6, <1>7, <1>8, <1>9, <1>13, <1>15 DEF Reader, Environment
<1> QED
  BY <1>2, <1>3, <1>4, <1>5, <1>8, <1>11, <1>12, <1>13, <1>14, <1>15 DEF Next

-----------------------------------------------------------------------------
(* The theorems.                                                           *)

LEMMA PeersInvInit ==
  ASSUME Init
  PROVE  PeersInv /\ CoverInv /\ TokensCoverQueue
<1>1. ASSUME NEW c \in Conns
      PROVE  /\ conn[c] = NewNode(None, FALSE, "none") /\ conn[c] \in NodeState
             /\ conn[c].peer = None /\ conn[c].phase = "none" /\ conn[c].state = "INIT"
             /\ conn[c].reader = "off" /\ ~conn[c].open
  BY DEF Init, NewNode, NodeState, Phases, States, Readers
<1>2. conn = [c \in Conns |-> NewNode(None, FALSE, "none")] /\ queue = {} /\ capChan = 0
      /\ disconnects = {} /\ connecting = {}
      /\ nbrNodes = [p \in Ids |-> None] /\ known = [p \in Ids |-> None]
  BY DEF Init
<1>3. TypeOK
  <2>1. conn \in [Conns -> NodeState]
    BY <1>1, <1>2
  <2>2. capChan \in 0 .. QueueCap
    BY <1>2, PeersAssumption
  <2>3. nbrNodes \in [Ids -> Conns \cup {None}] /\ known \in [Ids -> Nat \cup {None}]
    BY <1>2
  <2> QED
    BY <1>2, <2>1, <2>2, <2>3 DEF TypeOK
<1>4. NodesInv /\ CoverInv
  BY <1>1, <1>2 DEF NodesInv, NodeFine, CoverInv, ShakesHands
<1>5. NbrInv
  BY <1>2 DEF NbrInv
<1>6. TokensCoverQueue
  <2>1. Registering = {}
    BY <1>1 DEF Registering
  <2>2. capChan = Cardinality(queue) + Cardinality(Registering)
    BY <1>2, <2>1, FS_EmptySet
  <2> QED
    BY <2>2 DEF TokensCoverQueue, Registering
<1> QED
  BY <1>3, <1>4, <1>5, <1>6 DEF PeersInv

\* A step of node/link.go, handshakequeue.go, nodemap.go or msghandler.go leaves
\* connections, the neighbour list, the handshake queue and the address lists
\* well typed; the token channel never holds more than its capacity.
THEOREM PeersTypeCorrect == Spec => []TypeOK
<1>1. Init => PeersInv
  BY PeersInvInit
<1>2. PeersInv /\ [Next]_vars => PeersInv'
  BY PeersInvInductive
<1>3. PeersInv => TypeOK
  BY DEF PeersInv
<1> QED
  BY <1>1, <1>2, <1>3, PTL DEF Spec

\* RemoveFromHandshakeQueue and handleTimeout always find the token that they
\* receive with the lock of the queue held: handshakequeue.go cannot block.
THEOREM TokensAlwaysThere == Spec => []TokensCoverQueue
<1>1. Init => PeersInv /\ TokensCoverQueue
  BY PeersInvInit
<1>2. PeersInv /\ TokensCoverQueue /\ [Next]_vars => PeersInv' /\ TokensCoverQueue'
  BY PeersInvInductive, TokensInductive
<1> QED
  BY <1>1, <1>2, PTL DEF Spec

\* No neighbour counts as established whose reader is gone and whose disconnect
\* event has been handled already.
THEOREM EstablishedNeighboursAlive == Spec => []EstablishedAlive
<1>1. Init => PeersInv
  BY PeersInvInit
<1>2. PeersInv /\ [Next]_vars => PeersInv'
  BY PeersInvInductive
<1>3. PeersInv => EstablishedAlive
  BY DEF PeersInv, TypeOK, NodesInv, NodeFine, EstablishedAlive, NbrList, Established
<1> QED
  BY <1>1, <1>2, <1>3, PTL DEF Spec

\* Blocks and transactions are taken from connections whose peer is a neighbour,
\* but for the moment between DelNbrNode and AddNbrNode of its new connection.
THEOREM EstablishedPeersAreNeighbours == Spec => []EstablishedIsNeighbour
<1>1. Init => PeersInv /\ CoverInv
  BY PeersInvInit
<1>2. PeersInv /\ CoverInv /\ [Next]_vars => PeersInv' /\ CoverInv'
  BY PeersInvInductive, CoverInductive
<1>3. PeersInv /\ CoverInv => EstablishedIsNeighbour
  <2> SUFFICES ASSUME PeersInv, CoverInv, NEW c \in Conns, Established(c)
               PROVE  \/ IsNeighborNoder(c)
                      \/ \E n \in Conns : conn[n].reader = "add" /\ conn[n].peer = conn[c].peer
    BY DEF EstablishedIsNeighbour
  <2>1. ShakesHands(c) /\ conn[c].peer \in Ids
    BY DEF Established, ShakesHands, PeersInv, NodesInv, NodeFine
  <2>2. CASE nbrNodes[conn[c].peer] # None
    <3>1. nbrNodes[conn[c].peer] \in NbrList
      BY <2>1, <2>2 DEF NbrList
    <3>2. conn[nbrNodes[conn[c].peer]].peer = conn[c].peer
      BY <2>1, <2>2 DEF PeersInv, NbrInv
    <3> QED
      BY <3>1, <3>2 DEF IsNeighborNoder
  <2>3. CASE Adding(conn[c].peer)
    BY <2>3 DEF Adding
  <2> QED
    BY <2>1, <2>2, <2>3 DEF CoverInv
<1> QED
  BY <1>1, <1>2, <1>3, PTL DEF Spec
=============================================================================
