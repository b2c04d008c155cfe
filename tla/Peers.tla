-------------------------------- MODULE Peers --------------------------------
(***************************************************************************)
(* Connections to other nodes, from the dial or the accept to the          *)
(* disconnect (node/link.go, handshakequeue.go, nodemap.go, the handshake  *)
(* in msghandler.go, knowaddrlist.go and the loops of infoupdate.go).      *)
(*                                                                         *)
(* A connection is served by several goroutines: the one that dials or     *)
(* accepts it, its reader, its handshake timeout, its heartbeat and, after *)
(* an error, the handler of the disconnect event.  A step is what one of   *)
(* them does between two accesses to state that another one may change.    *)
(***************************************************************************)
EXTENDS Naturals, FiniteSets, FiniteSetsExt

CONSTANTS
  Conns,             \* node objects; bound: how many connections there are
  Peers,             \* the other nodes; an address stands for who listens there
  Self,              \* LocalNode.ID, which can be dialled by mistake
  None,
  Seeds,             \* Parameters.SeedList
  QueueCap,          \* DefaultMaxPeers, as the capacity of the handshake queue
  DefaultMaxPeers, MinConnectionCount, MaxOutBoundCount, numRetries

Ids == Peers \cup {Self}

ASSUME PeersAssumption ==
  /\ Self \notin Peers /\ None \notin Conns
  /\ IsFiniteSet(Conns) /\ IsFiniteSet(Peers) /\ Seeds \subseteq Ids
  /\ QueueCap \in Nat \ {0} /\ DefaultMaxPeers \in Nat
  /\ MinConnectionCount \in Nat /\ MaxOutBoundCount \in Nat /\ numRetries \in Nat

VARIABLES
  conn,        \* the node objects and their goroutines
  nbrNodes,    \* nbrNodes.List: the connection of a peer, None if there is none
  capChan,     \* how many tokens are in capChan
  queue,       \* handshakeQueue.conns
  connecting,  \* ConnectingAddrs
  known,       \* KnownAddressList: attempts per address, None if it is unknown
  disconnects  \* the disconnect events that NodeDisconnect has not handled

vars == <<conn, nbrNodes, capChan, queue, connecting, known, disconnects>>

States == {"INIT", "HAND", "HANDSHAKE", "HANDSHAKED", "ESTABLISH", "INACTIVITY"}

\* Where Connect or listenConnections is with the connection.
Phases == {"none", "spawned", "dial", "hand", "token", "register", "accepted", "done"}

\* Where the reader is: waiting, or between two steps of a handler.
Readers == {"off", "idle", "add", "reply", "establish", "dequeue", "delist", "dead"}

NodeState == [peer : Ids \cup {None}, inbound : BOOLEAN, phase : Phases, state : States,
              open : BOOLEAN, reader : Readers]

NewNode(p, inbound, phase) ==
  [peer |-> p, inbound |-> inbound, phase |-> phase, state |-> "INIT", open |-> FALSE,
   reader |-> "off"]

Init ==
  /\ conn = [c \in Conns |-> NewNode(None, FALSE, "none")]
  /\ nbrNodes = [p \in Ids |-> None]
  /\ capChan = 0 /\ queue = {} /\ connecting = {}
  /\ known = [p \in Ids |-> None]
  /\ disconnects = {}

Established(c) == conn[c].state = "ESTABLISH"

NbrList == {nbrNodes[p] : p \in Ids} \ {None}
GetNeighborNoder == {c \in NbrList : Established(c)}
GetConnectionCnt == Cardinality(GetNeighborNoder)
NodeEstablished(p) == nbrNodes[p] # None /\ Established(nbrNodes[p])

GetNeighborAddrs == {conn[c].peer : c \in GetNeighborNoder}
IsInNbrList(p) == p \in GetNeighborAddrs

\* Asked of a connection that knows the id of its peer.
IsNeighborNoder(c) == \E n \in NbrList : conn[n].peer = conn[c].peer

-----------------------------------------------------------------------------
(* The handshake queue.                                                    *)

\* q.capChan <- node blocks while the channel is full.
TakeToken(c) ==
  /\ capChan < QueueCap
  /\ capChan' = capChan + 1
  /\ conn' = [conn EXCEPT ![c].phase = "register"]
  /\ UNCHANGED <<nbrNodes, queue, connecting, known, disconnects>>

AddToHandshakeQueue(c) ==
  \/ conn[c].phase = "token" /\ TakeToken(c)
  \/ /\ conn[c].phase = "register"
     /\ queue' = queue \cup {c}
     /\ conn' = [conn EXCEPT ![c].phase = IF conn[c].inbound THEN "accepted" ELSE "done"]
     /\ UNCHANGED <<nbrNodes, capChan, connecting, known, disconnects>>

\* Mutant: a token is received whether or not the connection was registered.
RemoveUnregistered(c) ==
  /\ capChan > 0 /\ capChan' = capChan - 1
  /\ queue' = queue \ {c}

\* The token is received with the lock held: it must be there.
RemoveFromHandshakeQueue(c) ==
  IF c \in queue
    THEN capChan > 0 /\ capChan' = capChan - 1 /\ queue' = queue \ {c}
    ELSE UNCHANGED <<capChan, queue>>

\* Mutant: the timeout gives the place in the queue back and closes nothing.
HandleTimeoutOpen(c) ==
  /\ c \in queue
  /\ RemoveFromHandshakeQueue(c)
  /\ UNCHANGED <<conn, nbrNodes, connecting, known, disconnects>>

\* The timeout of a connection that is no longer there does nothing.
HandleTimeout(c) ==
  /\ c \in queue
  /\ RemoveFromHandshakeQueue(c)
  /\ conn' = [conn EXCEPT ![c].open = FALSE]
  /\ UNCHANGED <<nbrNodes, connecting, known, disconnects>>

-----------------------------------------------------------------------------
(* Dialling and accepting.                                                 *)

\* The loop compares ip:port of a neighbour with its own ip, never with the
\* address it is asked for.
IsAddrInNbrList(p) == FALSE

\* go node.Connect(addr), for each of the addresses in S.
Spawn(S) ==
  \E f \in [S -> {c \in Conns : conn[c].phase = "none"}] :
    /\ \A p, q \in S : f[p] = f[q] => p = q
    /\ conn' = [c \in Conns |-> IF \E p \in S : f[p] = c
                                  THEN NewNode(CHOOSE p \in S : f[p] = c, FALSE, "spawned")
                                  ELSE conn[c]]

\* A seed that is no neighbour yet is dialled.
ConnectSeeds(p) ==
  /\ GetConnectionCnt < MinConnectionCount
  /\ p \in Seeds /\ nbrNodes[p] = None
  /\ Spawn({p})
  /\ UNCHANGED <<nbrNodes, capChan, queue, connecting, known, disconnects>>

IsBad(p) == known[p] >= numRetries

\* All known addresses that are not neighbours, or some if there are too many;
\* each one counts as tried, also when the attempt succeeds.
RandGetAddresses(S) ==
  LET keys == {p \in Ids : known[p] # None /\ ~IsInNbrList(p) /\ ~IsBad(p)}
      count == MaxOutBoundCount - GetConnectionCnt
  IN  /\ S \subseteq keys
      /\ IF count > Cardinality(keys) THEN S = keys ELSE Cardinality(S) <= count
      /\ known' = [p \in Ids |-> IF p \in S THEN known[p] + 1 ELSE known[p]]

ConnectNode(S) ==
  /\ GetConnectionCnt < MaxOutBoundCount
  /\ S # {} /\ RandGetAddresses(S)
  /\ Spawn(S)
  /\ UNCHANGED <<nbrNodes, capChan, queue, connecting, disconnects>>

\* A new address has not been tried.
AddAddressToKnownAddress(p) == known' = [known EXCEPT ![p] = IF @ = None THEN 0 ELSE @]

AddToConnectionList(p) == p \notin connecting /\ connecting' = connecting \cup {p}

\* An address that is not in the list empties the list.
RemoveFromConnectingList(p) ==
  connecting' = IF p \in connecting THEN connecting \ {p} ELSE {}

\* Connect: one step up to the dial, one for the dial, one up to the queue.
Connect(c) ==
  LET p == conn[c].peer IN
  \/ /\ conn[c].phase = "spawned"
     /\ IF IsAddrInNbrList(p) \/ p \in connecting
          THEN conn' = [conn EXCEPT ![c].phase = "done"] /\ UNCHANGED connecting
          ELSE conn' = [conn EXCEPT ![c].phase = "dial"] /\ AddToConnectionList(p)
     /\ UNCHANGED <<nbrNodes, capChan, queue, known, disconnects>>
  \/ /\ conn[c].phase = "dial"
     /\ \/ /\ conn' = [conn EXCEPT ![c].phase = "done"]
           /\ RemoveFromConnectingList(p)
        \/ /\ conn' = [conn EXCEPT ![c].phase = "hand", ![c].open = TRUE,
                                   ![c].reader = "idle"]
           /\ UNCHANGED connecting
     /\ UNCHANGED <<nbrNodes, capChan, queue, known, disconnects>>
  \/ /\ conn[c].phase = "hand"
     /\ conn' = [conn EXCEPT ![c].phase = "token", ![c].state = "HAND"]
     /\ UNCHANGED <<nbrNodes, capChan, queue, connecting, known, disconnects>>

\* The listener serves one connection at a time, and takes it off the queue as
\* soon as it has put it there.
Listening == \A c \in Conns : conn[c].inbound => conn[c].phase = "done"

ListenConnections(c) ==
  \/ /\ Listening /\ conn[c].phase = "none"
     /\ \E p \in Peers :
          conn' = [conn EXCEPT ![c] = [NewNode(p, TRUE, "token") EXCEPT !.open = TRUE,
                                                                        !.reader = "idle"]]
     /\ UNCHANGED <<nbrNodes, capChan, queue, connecting, known, disconnects>>
  \/ /\ conn[c].phase = "accepted"
     /\ RemoveFromHandshakeQueue(c)
     /\ conn' = [conn EXCEPT ![c].phase = "done"]
     /\ UNCHANGED <<nbrNodes, connecting, known, disconnects>>

-----------------------------------------------------------------------------
(* The reader of a connection.                                             *)

Reads(c) == conn[c].reader = "idle" /\ conn[c].open

\* The old connection of the peer is taken out of the list and closed ...
DelNbrNode(c) ==
  LET p == conn[c].peer
      old == nbrNodes[p]
  IN  /\ nbrNodes' = [nbrNodes EXCEPT ![p] = None]
      /\ conn' = [n \in Conns |->
                    LET new == IF n = old THEN [conn[n] EXCEPT !.state = "INACTIVITY",
                                                               !.open = FALSE]
                                          ELSE conn[n]
                    IN  IF n = c THEN [new EXCEPT !.reader = "add"] ELSE new]

\* The peer's version message, with its id.
OnVersion(c) ==
  /\ Reads(c)
  /\ IF conn[c].peer = Self
       THEN conn' = [conn EXCEPT ![c].open = FALSE] /\ UNCHANGED nbrNodes
       ELSE conn[c].state \in {"INIT", "HAND"} /\ DelNbrNode(c)
  /\ UNCHANGED <<capChan, queue, connecting, known, disconnects>>

\* ... then the new one is put in, unless another one got there first ...
AddNbrNode(c) ==
  LET p == conn[c].peer IN
  /\ conn[c].reader = "add"
  /\ conn' = [conn EXCEPT ![c].reader = "reply"]
  /\ nbrNodes' = [nbrNodes EXCEPT ![p] = IF @ = None THEN c ELSE @]
  /\ AddAddressToKnownAddress(p)
  /\ UNCHANGED <<capChan, queue, connecting, disconnects>>

\* ... and the handshake goes on.
ReplyVersion(c) ==
  /\ conn[c].reader = "reply"
  /\ conn' = [conn EXCEPT ![c].reader = "idle",
                          ![c].state = CASE @ = "INIT" -> "HANDSHAKE"
                                         [] @ = "HAND" -> "HANDSHAKED"
                                         [] OTHER -> @]
  /\ UNCHANGED <<nbrNodes, capChan, queue, connecting, known, disconnects>>

OnVerAck(c) ==
  /\ Reads(c) /\ conn[c].state \in {"HANDSHAKE", "HANDSHAKED"}
  /\ conn' = [conn EXCEPT ![c].reader = "establish"]
  /\ UNCHANGED <<nbrNodes, capChan, queue, connecting, known, disconnects>>

Establish(c) ==
  /\ conn[c].reader = "establish"
  /\ conn' = [conn EXCEPT ![c].reader = "dequeue", ![c].state = "ESTABLISH"]
  /\ UNCHANGED <<nbrNodes, capChan, queue, connecting, known, disconnects>>

FinishHandshake(c) ==
  \/ /\ conn[c].reader = "dequeue"
     /\ RemoveFromHandshakeQueue(c)
     /\ conn' = [conn EXCEPT ![c].reader = "delist"]
     /\ UNCHANGED <<nbrNodes, connecting, known, disconnects>>
  \/ /\ conn[c].reader = "delist"
     /\ RemoveFromConnectingList(conn[c].peer)
     /\ conn' = [conn EXCEPT ![c].reader = "idle"]
     /\ UNCHANGED <<nbrNodes, capChan, queue, known, disconnects>>

\* An address announced by a peer, whether or not it has shaken hands.
OnAddrs(c, p) ==
  /\ Reads(c)
  /\ p # Self /\ ~NodeEstablished(p)
  /\ AddAddressToKnownAddress(p)
  /\ UNCHANGED <<conn, nbrNodes, capChan, queue, connecting, disconnects>>

\* Mutant: a read error ends the reader without an event.
OnErrorSilent(c) ==
  /\ conn[c].reader = "idle" /\ ~conn[c].open
  /\ conn' = [conn EXCEPT ![c].reader = "dead"]
  /\ UNCHANGED <<nbrNodes, capChan, queue, connecting, known, disconnects>>

\* The reader finds the connection closed, by whoever it was.
OnError(c) ==
  /\ conn[c].reader = "idle" /\ ~conn[c].open
  /\ conn' = [conn EXCEPT ![c].reader = "dead"]
  /\ disconnects' = disconnects \cup {c}
  /\ UNCHANGED <<nbrNodes, capChan, queue, connecting, known>>

\* The peer closes the connection, or it breaks.
PeerCloses(c) ==
  /\ conn[c].open
  /\ conn' = [conn EXCEPT ![c].open = FALSE]
  /\ UNCHANGED <<nbrNodes, capChan, queue, connecting, known, disconnects>>

-----------------------------------------------------------------------------
(* Disconnecting.                                                          *)

\* Mutant: the peer of the connection leaves the list, whoever is there now.
NodeDisconnectById(c) ==
  /\ c \in disconnects
  /\ disconnects' = disconnects \ {c}
  /\ conn' = [conn EXCEPT ![c].state = "INACTIVITY", ![c].open = FALSE]
  /\ nbrNodes' = [nbrNodes EXCEPT ![conn[c].peer] = None]
  /\ UNCHANGED <<capChan, queue, connecting, known>>

\* n.ID() is the id of the local node, the receiver of the event.
NodeDisconnect(c) ==
  /\ c \in disconnects
  /\ disconnects' = disconnects \ {c}
  /\ conn' = [conn EXCEPT ![c].state = "INACTIVITY", ![c].open = FALSE]
  /\ nbrNodes' = [nbrNodes EXCEPT ![Self] = None]
  /\ UNCHANGED <<capChan, queue, connecting, known>>

\* The heartbeat gives up a neighbour that did not speak for too long.  (When the
\* peer is no neighbour it just ends, which leaves nothing to tell it by.)
Heartbeat(c) ==
  /\ Established(c) /\ IsNeighborNoder(c)
  /\ conn' = [conn EXCEPT ![c].state = "INACTIVITY", ![c].open = FALSE]
  /\ UNCHANGED <<nbrNodes, capChan, queue, connecting, known, disconnects>>

CheckConnCnt(c) ==
  /\ GetConnectionCnt > DefaultMaxPeers
  /\ c \in GetNeighborNoder
  /\ disconnects' = disconnects \cup {c}
  /\ UNCHANGED <<conn, nbrNodes, capChan, queue, connecting, known>>

-----------------------------------------------------------------------------

Reader(c) ==
  \/ AddNbrNode(c) \/ ReplyVersion(c) \/ Establish(c) \/ FinishHandshake(c)
  \/ OnError(c)

Environment(c) ==
  \/ OnVersion(c) \/ OnVerAck(c) \/ \E p \in Ids : OnAddrs(c, p)
  \/ PeerCloses(c)

Next ==
  \/ \E p \in Ids : ConnectSeeds(p)
  \/ \E S \in SUBSET Ids : ConnectNode(S)
  \/ \E c \in Conns : \/ Connect(c) \/ ListenConnections(c) \/ AddToHandshakeQueue(c)
                      \/ HandleTimeout(c) \/ Reader(c) \/ Environment(c)
                      \/ NodeDisconnect(c) \/ Heartbeat(c) \/ CheckConnCnt(c)

Spec == Init /\ [][Next]_vars

\* Goroutines that can run do; nothing obliges a peer to answer.
FairSpec ==
  /\ Spec
  /\ \A c \in Conns : /\ WF_vars(Connect(c)) /\ WF_vars(ListenConnections(c))
                      /\ SF_vars(AddToHandshakeQueue(c)) /\ WF_vars(HandleTimeout(c))
                      /\ WF_vars(Reader(c)) /\ WF_vars(NodeDisconnect(c))

-----------------------------------------------------------------------------
(* Properties.                                                             *)

\* The state has its type.
TypeOK ==
  /\ conn \in [Conns -> NodeState]
  /\ nbrNodes \in [Ids -> Conns \cup {None}]
  /\ capChan \in 0 .. QueueCap
  /\ queue \subseteq Conns /\ connecting \subseteq Ids /\ disconnects \subseteq Conns
  /\ known \in [Ids -> Nat \cup {None}]

\* Every registered connection has its token, and every other token belongs to
\* a connection that is about to register.  RemoveFromHandshakeQueue and
\* handleTimeout receive a token while they hold the lock of the queue: were one
\* missing they would block, and every handshake after them.
TokensCoverQueue ==
  capChan = Cardinality(queue)
              + Cardinality({c \in Conns : conn[c].phase = "register"})

\* A neighbour that counts as established has a live connection, or its reader
\* has yet to find the connection closed, or its disconnect event is on its way:
\* no established neighbour is dead for good, whatever closed it.
EstablishedAlive ==
  \A c \in NbrList : Established(c) =>
    conn[c].open \/ conn[c].reader # "dead" \/ c \in disconnects

\* onBlock and onTx accept the messages of an established connection: its peer
\* is in the neighbour list, but for the moment in which the reader of a newer
\* connection of that peer has taken out the older one.
EstablishedIsNeighbour ==
  \A c \in Conns : Established(c) =>
    \/ IsNeighborNoder(c)
    \/ \E n \in Conns : conn[n].reader = "add" /\ conn[n].peer = conn[c].peer

\* A connection that was dialled shakes hands or is closed: the timeout of the
\* handshake queue ends it, also when the queue is full for a while.
HandshakeEnds ==
  \A c \in Conns : conn[c].phase = "hand" ~>
    (\/ ~conn[c].open
     \/ conn[c].state = "ESTABLISH")

=============================================================================
