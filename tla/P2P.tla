-------------------------------- MODULE P2P --------------------------------
(***************************************************************************)
(* Nodes that talk to each other (x/nvx/keeper/p2p.go).  A TCP connection  *)
(* has two ends, and at each end a goroutine runs handleConnection: it     *)
(* sends a handshake, reads one, enters the peer under the ID it announced *)
(* into the table of its node, and handles messages until a read fails.    *)
(* Ping, sync and broadcast go to the connections in the table.            *)
(*                                                                         *)
(* A message is a line.  readMessage makes a new bufio.Scanner for every   *)
(* line, so that what the scanner has read beyond the line is lost: further*)
(* lines, and perhaps the beginning of one whose rest then cannot be       *)
(* parsed.  A line of more than 64 KiB, as blocks with many transactions   *)
(* are, cannot be read at all.  A write waits ten seconds for room.        *)
(*                                                                         *)
(* A node announces the ID it was made with, which need not be its own:    *)
(* every node that app.go makes has the same one.                          *)
(*                                                                         *)
(* Of the chain only its height matters here, of the mempool nothing, of   *)
(* the channel newBlocks, from which nobody takes, how many blocks it has. *)
(***************************************************************************)
EXTENDS Integers, Sequences, FiniteSets, Functions

CONSTANTS
    Node,         \* the nodes, each with an address of its own
    ID,           \* the IDs that nodes announce
    NodeID,       \* P2PNode.nodeID: the ID of each node
    Sizes,        \* the sizes of the table of peers that are considered
    ChannelSize,  \* the size of the channel newBlocks
    Buffer,       \* the lines a connection holds before a write has to wait
    Garbled,      \* a line that json.Unmarshal or the scanner refuses
    Nobody,       \* the ID of a peer before its handshake
    Dials,        \* for each connection the pairs of nodes the first of which may
                  \* dial the second
    Leaders,      \* the nodes whose consensus makes blocks
    Stopping,     \* the nodes that may be stopped
    MaxConns,     \* bound on the connections ever made
    MaxEvents     \* bound on what happens of itself: blocks, rounds of ping and
                  \* sync, stops, broken connections

ASSUME P2PAssumption ==
    /\ Sizes \subseteq Nat \ {0} /\ {ChannelSize, Buffer} \subseteq Nat \ {0}
    /\ Dials \in [1 .. MaxConns -> SUBSET (Node \X Node)]
    /\ Leaders \subseteq Node /\ Stopping \subseteq Node
    /\ {MaxConns, MaxEvents} \subseteq Nat
    /\ NodeID \in [Node -> ID]
    /\ Nobody \notin Node \cup ID

VARIABLES
    MaxPeers,   \* the size of the table of peers, which no step changes
    running,    \* P2PNode.running
    height,     \* Blockchain.Height() of each node
    peers,      \* P2PNode.peers: the end of each peer in the table
    newBlocks,  \* the number of blocks in P2PNode.newBlocks
    ends,       \* the goroutines of handleConnection, with their Peer
    wire,       \* the lines sent to an end and not read yet
    cut,        \* the connections that are closed or broken
    events      \* what has happened of itself so far

p2pVars == <<MaxPeers, running, height, peers, newBlocks, ends, wire, cut, events>>

Conn == 1 .. MaxConns

End == Conn \X {"dialer", "acceptor"}

Other(e) == <<e[1], IF e[2] = "dialer" THEN "acceptor" ELSE "dialer">>

MessageType == {"handshake", "ping", "pong", "get_blocks", "blocks", "new_block", "new_tx",
                "get_peers", "peers"}

P2PMessage == [Type : MessageType, Height : Nat, NodeID : ID]

ASSUME GarbledAssumption == Garbled \notin P2PMessage

Message(type, n, h) == [Type |-> type, Height |-> h, NodeID |-> NodeID[n]]

(***************************************************************************)
(* A goroutine has not been started, waits in the backlog of the listener, *)
(* waits for the handshake, handles messages, is stuck in a send to        *)
(* newBlocks, has left its loop, or has ended.                             *)
(***************************************************************************)
Stage == {"none", "backlog", "hello", "handling", "stuck", "leaving", "ended"}

Peer == [at : Stage, node : Node \cup {Nobody}, ID : ID \cup {Nobody}, Height : Nat]

NewPeer(stage, n) == [at |-> stage, node |-> n, ID |-> Nobody, Height |-> 0]

Unused == NewPeer("none", Nobody)

\* A table with an entry added or replaced, and with one deleted.
WithPeer(table, id, e) ==
    [j \in DOMAIN table \cup {id} |-> IF j = id THEN e ELSE table[j]]

WithoutPeer(table, id) == [j \in DOMAIN table \ {id} |-> table[j]]

InTable(e) == ends[e].at # "none" /\ e \in Range(peers[ends[e].node])

----------------------------------------------------------------------------
(***************************************************************************)
(* sendMessage.  On a connection that is gone nothing arrives; if there is *)
(* no room in time the line is not written, or only in part, and then is   *)
(* one garbled line with whatever is sent next.                            *)
(***************************************************************************)
AfterSend(e, line) ==
    LET q == wire[Other(e)]
    IN  IF cut[e[1]] \/ Len(q) > Buffer THEN {q}
        ELSE IF Len(q) = Buffer THEN {q, Append(q, Garbled)}
        ELSE {Append(q, line)}

\* A message whose payload may make its line too long.
AfterSendBlocks(e, line) == AfterSend(e, line) \cup AfterSend(e, Garbled)

\* The lines left for the next readMessage.
AfterRead(e) ==
    LET rest(k) == SubSeq(wire[e], k + 1, Len(wire[e]))
    IN  {rest(k) : k \in 1 .. Len(wire[e])} \cup
        {<<Garbled>> \o Tail(rest(k)) : k \in 1 .. Len(wire[e]) - 1}

\* A node sends a line to some of its connections.
SendAll(to, line) ==
    \E q \in [to -> UNION {AfterSend(e, line) : e \in to}] :
        /\ \A e \in to : q[e] \in AfterSend(e, line)
        /\ wire' = [f \in End |-> IF Other(f) \in to THEN q[Other(f)] ELSE wire[f]]

\* The end's goroutine is over and its connection closed: lines to it are
\* gone, lines from it still arrive.
HangUp(e) ==
    /\ ends' = [ends EXCEPT ![e].at = "ended"]
    /\ cut' = [cut EXCEPT ![e[1]] = TRUE]
    /\ wire' = [wire EXCEPT ![e] = <<>>]

----------------------------------------------------------------------------
\* Every node has been started.
P2PInit ==
    /\ MaxPeers \in Sizes
    /\ running = [n \in Node |-> TRUE]
    /\ height = [n \in Node |-> 0]
    /\ peers = [n \in Node |-> <<>>]
    /\ newBlocks = [n \in Node |-> 0]
    /\ ends = [e \in End |-> Unused]
    /\ wire = [e \in End |-> <<>>]
    /\ cut = [c \in Conn |-> FALSE]
    /\ events = 0

Event ==
    /\ events < MaxEvents
    /\ events' = events + 1

\* Stop closes the listener, with the connections in its backlog, and the
\* connections in the table; their goroutines will find out.
Stop(n) ==
    LET waiting == {e \in End : ends[e].node = n /\ ends[e].at = "backlog"}
        closed  == waiting \cup Range(peers[n])
    IN  /\ running[n]
        /\ Event
        /\ running' = [running EXCEPT ![n] = FALSE]
        /\ ends' = [e \in End |-> IF e \in waiting THEN [ends[e] EXCEPT !.at = "ended"] ELSE ends[e]]
        /\ cut' = [c \in Conn |-> cut[c] \/ \E e \in closed : e[1] = c]
        /\ wire' = [e \in End |-> IF e \in closed THEN <<>> ELSE wire[e]]
        /\ UNCHANGED <<MaxPeers, height, peers, newBlocks>>

\* Connect, and its goroutine up to the handshake it sends.  A node that does
\* not listen is an error without effect.
Connect(c, n, m) ==
    LET e == <<c, "dialer">>
    IN  /\ ends[e].at = "none"
        /\ \A d \in 1 .. c - 1 : ends[<<d, "dialer">>].at # "none"
        /\ running[m]
        /\ ends' = [ends EXCEPT ![e] = NewPeer("hello", n),
                               ![Other(e)] = NewPeer("backlog", m)]
        /\ wire' = [wire EXCEPT ![Other(e)] = <<Message("handshake", n, height[n])>>]
        /\ UNCHANGED <<MaxPeers, running, height, peers, newBlocks, cut, events>>

\* Mutant of Accept: the handshake is not sent.
AcceptMutely(e) ==
    /\ ends[e].at = "backlog"
    /\ ends' = [ends EXCEPT ![e].at = "hello"]
    /\ UNCHANGED <<MaxPeers, running, height, peers, newBlocks, wire, cut, events>>

\* acceptConnections, and its goroutine up to the handshake it sends.  On a
\* connection that is gone the write may fail.
Accept(e) ==
    /\ ends[e].at = "backlog"
    /\ \/ /\ ends' = [ends EXCEPT ![e].at = "hello"]
          /\ \E q \in AfterSend(e, Message("handshake", ends[e].node, height[ends[e].node])) :
                wire' = [wire EXCEPT ![Other(e)] = q]
          /\ UNCHANGED cut
       \/ cut[e[1]] /\ HangUp(e)
    /\ UNCHANGED <<MaxPeers, running, height, peers, newBlocks, events>>

\* The next line is a handshake.
Opened(e) == wire[e] # <<>> /\ Head(wire[e]) # Garbled /\ Head(wire[e]).Type = "handshake"

\* Mutant of Admit: the table is full when it has one entry too many.
AdmitOneMore(e) ==
    LET n == ends[e].node
        m == Head(wire[e])
    IN  /\ ends[e].at = "hello"
        /\ Opened(e)
        /\ IF Cardinality(DOMAIN peers[n]) > MaxPeers
           THEN HangUp(e) /\ UNCHANGED peers
           ELSE /\ peers' = [peers EXCEPT ![n] = WithPeer(@, m.NodeID, e)]
                /\ ends' = [ends EXCEPT ![e] = [at |-> "handling", node |-> n,
                                              ID |-> m.NodeID, Height |-> m.Height]]
                /\ \E rest \in AfterRead(e) : wire' = [wire EXCEPT ![e] = rest]
                /\ UNCHANGED cut
        /\ UNCHANGED <<MaxPeers, running, height, newBlocks, events>>

\* handleConnection reads the handshake and takes the peer into the table, in
\* place of an entry of the same ID, unless the table is full.
Admit(e) ==
    LET n == ends[e].node
        m == Head(wire[e])
    IN  /\ ends[e].at = "hello"
        /\ Opened(e)
        /\ IF Cardinality(DOMAIN peers[n]) >= MaxPeers
           THEN HangUp(e) /\ UNCHANGED peers
           ELSE /\ peers' = [peers EXCEPT ![n] = WithPeer(@, m.NodeID, e)]
                /\ ends' = [ends EXCEPT ![e] = [at |-> "handling", node |-> n,
                                              ID |-> m.NodeID, Height |-> m.Height]]
                /\ \E rest \in AfterRead(e) : wire' = [wire EXCEPT ![e] = rest]
                /\ UNCHANGED cut
        /\ UNCHANGED <<MaxPeers, running, height, newBlocks, events>>

\* handleConnection gives up: no handshake comes in the 60 seconds that a
\* read may take, or something else.
Refuse(e) ==
    /\ ends[e].at = "hello"
    /\ ~Opened(e)
    /\ HangUp(e)
    /\ UNCHANGED <<MaxPeers, running, height, peers, newBlocks, events>>

----------------------------------------------------------------------------
\* handlePeer: the next message is one of these types.
Received(e, types) ==
    /\ ends[e].at = "handling"
    /\ wire[e] # <<>> /\ Head(wire[e]) # Garbled
    /\ Head(wire[e]).Type \in types

\* The message is answered.
Reply(e, after) ==
    /\ \E rest \in AfterRead(e), q \in after : wire' = [wire EXCEPT ![e] = rest, ![Other(e)] = q]
    /\ UNCHANGED <<MaxPeers, running, height, peers, newBlocks, ends, cut, events>>

\* Mutant of OnPing: the height of the ping is sent back.
OnPingEchoing(e) ==
    /\ Received(e, {"ping"})
    /\ Reply(e, AfterSend(e, Message("pong", ends[e].node, Head(wire[e]).Height)))

OnPing(e) ==
    LET n == ends[e].node
    IN  /\ Received(e, {"ping"})
        /\ Reply(e, AfterSend(e, Message("pong", n, height[n])))

OnPong(e) ==
    /\ Received(e, {"pong"})
    /\ ends' = [ends EXCEPT ![e].Height = Head(wire[e]).Height]
    /\ \E rest \in AfterRead(e) : wire' = [wire EXCEPT ![e] = rest]
    /\ UNCHANGED <<MaxPeers, running, height, peers, newBlocks, cut, events>>

OnGetBlocks(e) ==
    LET n == ends[e].node
    IN  /\ Received(e, {"get_blocks"})
        /\ Reply(e, AfterSendBlocks(e, Message("blocks", n, height[n])))

\* Mutant of OnNewBlock: one block more than there is room for.
OnNewBlockBeyond(e) ==
    LET n == ends[e].node
    IN  /\ Received(e, {"new_block"})
        /\ IF newBlocks[n] <= ChannelSize
           THEN newBlocks' = [newBlocks EXCEPT ![n] = @ + 1] /\ UNCHANGED ends
           ELSE ends' = [ends EXCEPT ![e].at = "stuck"] /\ UNCHANGED newBlocks
        /\ \E rest \in AfterRead(e) : wire' = [wire EXCEPT ![e] = rest]
        /\ UNCHANGED <<MaxPeers, running, height, peers, cut, events>>

\* The block goes into a channel that nobody empties; once it is full the
\* goroutine waits for good.
OnNewBlock(e) ==
    LET n == ends[e].node
    IN  /\ Received(e, {"new_block"})
        /\ IF newBlocks[n] < ChannelSize
           THEN newBlocks' = [newBlocks EXCEPT ![n] = @ + 1] /\ UNCHANGED ends
           ELSE ends' = [ends EXCEPT ![e].at = "stuck"] /\ UNCHANGED newBlocks
        /\ \E rest \in AfterRead(e) : wire' = [wire EXCEPT ![e] = rest]
        /\ UNCHANGED <<MaxPeers, running, height, peers, cut, events>>

OnGetPeers(e) ==
    /\ Received(e, {"get_peers"})
    /\ Reply(e, AfterSend(e, Message("peers", ends[e].node, 0)))

\* A transaction goes to the mempool; for the others handlePeer has no case,
\* so that blocks that were asked for are not used.
OnOther(e) ==
    /\ Received(e, {"new_tx", "blocks", "peers", "handshake"})
    /\ Reply(e, {wire[Other(e)]})

Handle(e) ==
    \/ OnPing(e) \/ OnPong(e) \/ OnGetBlocks(e) \/ OnNewBlock(e) \/ OnGetPeers(e) \/ OnOther(e)

\* The ping routine of the end's node reaches it every 30 seconds.
Pinged(e) == InTable(e) /\ running[ends[e].node]

\* Pings or the answers to its own pings keep a read within its 60 seconds.
Hears(e) == Pinged(Other(e)) \/ (Pinged(e) /\ ends[Other(e)].at \in {"hello", "handling"})

\* Mutant of LoopEnds: no deadline is set for a read.
LoopEndsLate(e) ==
    /\ ends[e].at = "handling"
    /\ IF wire[e] = <<>> THEN cut[e[1]] ELSE Head(wire[e]) = Garbled
    /\ ends' = [ends EXCEPT ![e].at = "leaving"]
    /\ UNCHANGED <<MaxPeers, running, height, peers, newBlocks, wire, cut, events>>

\* handlePeer returns: the connection is gone, the deadline has passed, or
\* the line cannot be read.
LoopEnds(e) ==
    /\ ends[e].at = "handling"
    /\ IF wire[e] = <<>> THEN cut[e[1]] \/ ~Hears(e) ELSE Head(wire[e]) = Garbled
    /\ ends' = [ends EXCEPT ![e].at = "leaving"]
    /\ UNCHANGED <<MaxPeers, running, height, peers, newBlocks, wire, cut, events>>

\* handleConnection after handlePeer: the entry of the peer's ID is deleted,
\* whichever connection it is for.
Leave(e) ==
    LET n == ends[e].node
    IN  /\ ends[e].at = "leaving"
        /\ peers' = [peers EXCEPT ![n] = WithoutPeer(@, ends[e].ID)]
        /\ HangUp(e)
        /\ UNCHANGED <<MaxPeers, running, height, newBlocks, events>>

----------------------------------------------------------------------------
\* finalizeBlock: the chain has grown by a block, and BroadcastBlock sends it.
BroadcastBlock(n) ==
    /\ n \in Leaders
    /\ height' = [height EXCEPT ![n] = @ + 1]
    /\ \E line \in {Message("new_block", n, height[n] + 1), Garbled} :
          SendAll(Range(peers[n]), line)

BroadcastTx(n) ==
    /\ SendAll(Range(peers[n]), Message("new_tx", n, 0))
    /\ UNCHANGED height

PingRoutine(n) ==
    /\ running[n]
    /\ SendAll(Range(peers[n]), Message("ping", n, height[n]))
    /\ UNCHANGED height

\* Only peers that are believed to be ahead are asked for blocks.
SyncRoutine(n) ==
    /\ running[n]
    /\ SendAll({e \in Range(peers[n]) : ends[e].Height > height[n]},
               Message("get_blocks", n, height[n]))
    /\ UNCHANGED height

\* A peer of another make may ask for peers; these nodes never do.
AskPeers(n) ==
    /\ \E e \in Range(peers[n]) :
          \E q \in AfterSend(e, Message("get_peers", n, 0)) : wire' = [wire EXCEPT ![Other(e)] = q]
    /\ UNCHANGED height

\* A round that sends nothing counts for nothing.  What no code of this
\* repository ever sends is sent last, as far as the bound is concerned.
Round(n) ==
    /\ \/ /\ BroadcastBlock(n) \/ PingRoutine(n) \/ SyncRoutine(n)
          /\ Event
       \/ /\ BroadcastTx(n) \/ AskPeers(n)
          /\ events < MaxEvents
          /\ events' = MaxEvents
    /\ <<wire', height'>> # <<wire, height>>
    /\ UNCHANGED <<MaxPeers, running, peers, newBlocks, ends, cut>>

\* What has arrived of the lines on their way to an end: some of them, and
\* perhaps a part of the next one, which the scanner then returns as a line.
Arrived(e) ==
    LET first(k) == SubSeq(wire[e], 1, k)
    IN  {first(k) : k \in 0 .. Len(wire[e])} \cup
        {Append(first(k), Garbled) : k \in 0 .. Len(wire[e]) - 1}

\* The network loses a connection, with what was on its way.
Break(c) ==
    LET d == <<c, "dialer">>
    IN  /\ ends[d].at # "none"
        /\ ~cut[c]
        /\ Event
        /\ cut' = [cut EXCEPT ![c] = TRUE]
        /\ \E p \in Arrived(d), q \in Arrived(Other(d)) :
              wire' = [wire EXCEPT ![d] = p, ![Other(d)] = q]
        /\ UNCHANGED <<MaxPeers, running, height, peers, newBlocks, ends>>

\* A client of a node gives it the address of another one.
handleP2PConnect == \E c \in Conn : \E d \in Dials[c] : Connect(c, d[1], d[2])

\* A step of handleConnection.
Goroutine(e) == Accept(e) \/ Admit(e) \/ Refuse(e) \/ Handle(e) \/ LoopEnds(e) \/ Leave(e)

P2PNext ==
    \/ \E n \in Node : Round(n)
    \/ \E n \in Stopping : Stop(n)
    \/ handleP2PConnect
    \/ \E e \in End : Goroutine(e)
    \/ \E c \in Conn : Break(c)

\* Every goroutine that can go on does.
P2PFairness == \A e \in End : WF_p2pVars(Goroutine(e))

P2PSpec == P2PInit /\ [][P2PNext]_p2pVars /\ P2PFairness

----------------------------------------------------------------------------
\* Every variable has its type.
P2PTypeOK ==
    /\ MaxPeers \in Sizes
    /\ running \in [Node -> BOOLEAN]
    /\ height \in [Node -> Nat]
    /\ \A n \in Node : DOMAIN peers[n] \subseteq ID /\ Range(peers[n]) \subseteq End
    /\ newBlocks \in [Node -> 0 .. ChannelSize]
    /\ ends \in [End -> Peer]
    /\ \A e \in End : Len(wire[e]) <= Buffer + 1 /\ Range(wire[e]) \subseteq P2PMessage \cup {Garbled}
    /\ cut \in [Conn -> BOOLEAN]
    /\ events \in 0 .. MaxEvents

Registered(e) == ends[e].at \in {"handling", "stuck", "leaving"}

(***************************************************************************)
(* The table never holds more than MaxPeers peers, however many handshakes *)
(* end at once, and each entry is a connection whose goroutine at this     *)
(* node has not ended, under the ID that its peer announced; the connection*)
(* itself may be gone already.  In turn a connection that handles messages *)
(* is in the table, and so gets blocks and pings, unless another one of    *)
(* this node announced the same ID: with distinct IDs only a peer that has *)
(* connected twice is ever left out, with the one ID of app.go every other.*)
(***************************************************************************)
TableIsLive ==
    /\ \A n \in Node :
          /\ Cardinality(DOMAIN peers[n]) <= MaxPeers
          /\ \A id \in DOMAIN peers[n] :
                LET e == peers[n][id]
                IN  Registered(e) /\ ends[e].node = n /\ ends[e].ID = id
    /\ \A e \in End : ends[e].at \in {"handling", "stuck"} /\ ~InTable(e) =>
          \E f \in End \ {e} : ends[f].node = ends[e].node /\ ends[f].ID = ends[e].ID

(***************************************************************************)
(* What a node reads first from a connection is the handshake of the node  *)
(* at the other end, although the routines of that node write to the same  *)
(* connection: it is taken for a stranger only if the connection broke     *)
(* within that line.                                                       *)
(***************************************************************************)
HandshakeComesFirst ==
    \A e \in End : ends[e].at = "hello" /\ wire[e] # <<>> =>
        \/ Opened(e) /\ Head(wire[e]).NodeID = NodeID[ends[Other(e)].node]
        \/ Head(wire[e]) = Garbled /\ cut[e[1]]

(***************************************************************************)
(* A peer is never believed to be ahead of where its chain is, so that     *)
(* syncRoutine never asks for blocks that do not exist, and what is        *)
(* believed of it never goes back, although handshakes and pongs are read  *)
(* late and some are lost.                                                 *)
(***************************************************************************)
HeightsAreTrue ==
    [][\A e \in End : Registered(e) =>
          /\ ends[e].Height <= height[ends[Other(e)].node]
          /\ ends'[e].Height >= ends[e].Height]_p2pVars

(***************************************************************************)
(* A goroutine whose connection is gone, or which nobody pings because no  *)
(* table holds its connection, comes to an end and gives its place in the  *)
(* table back; the exception is one that waits for room in newBlocks.      *)
(***************************************************************************)
Orphaned(e) == Registered(e) /\ ~InTable(e) /\ Registered(Other(e)) /\ ~InTable(Other(e))

GoroutinesEnd ==
    \A e \in End :
        (ends[e].at # "none" /\ cut[e[1]]) \/ Orphaned(e) ~> ends[e].at \in {"stuck", "ended"}
=============================================================================
