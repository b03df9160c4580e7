----------------------------- MODULE P2PProofs -----------------------------
(***************************************************************************)
(* Theorems about nodes and their connections, for any set of nodes, any   *)
(* number of connections and any sizes of tables and buffers.              *)
(***************************************************************************)
EXTENDS P2P, FiniteSetTheorems, SequenceTheorems, TLAPS

(***************************************************************************)
(* The inductive invariant, in four parts that rest on each other in this  *)
(* order.                                                                  *)
(***************************************************************************)
Line == P2PMessage \cup {Garbled}

IsTable(t) == \E D \in SUBSET ID : IsFiniteSet(D) /\ t \in [D -> End]

\* Types: tables are finite, lines are messages, goroutines have a node.
TypeInv ==
    /\ MaxPeers \in Sizes
    /\ running \in [Node -> BOOLEAN]
    /\ height \in [Node -> Nat]
    /\ DOMAIN peers = Node /\ peers = [n \in Node |-> peers[n]]
    /\ \A n \in Node : IsTable(peers[n])
    /\ newBlocks \in [Node -> 0 .. ChannelSize]
    /\ ends \in [End -> Peer]
    /\ \A e \in End : ends[e].at # "none" => ends[e].node \in Node
    /\ wire \in [End -> Seq(Line)]
    /\ \A e \in End : Len(wire[e]) <= Buffer + 1
    /\ cut \in [Conn -> BOOLEAN]
    /\ events \in 0 .. MaxEvents

\* The table, and what a goroutine knows of its peer when it may enter it.
TableInv ==
    /\ TableIsLive
    /\ \A e \in End :
          /\ ends[e].at \in {"none", "backlog", "hello"} => ends[e].ID = Nobody
          /\ Registered(e) => ends[e].ID \in ID

\* A handshake of node n, or what is left of it after the connection is gone.
Greets(s, n, gone) ==
    \/ Head(s) # Garbled /\ Head(s).Type = "handshake" /\ Head(s).NodeID = NodeID[n]
    \/ Head(s) = Garbled /\ gone

\* Both ends of a connection start at once, and until an end has read its
\* handshake this is the first line for it.  If no line is there, it has not
\* been sent yet or never will be.
HandshakeInv ==
    \A e \in End :
        /\ ends[e].at = "none" <=> ends[Other(e)].at = "none"
        /\ ends[e].at = "none" => wire[e] = <<>>
        /\ ends[e].at \in {"backlog", "hello"} =>
              IF wire[e] = <<>> THEN cut[e[1]] \/ ends[Other(e)].at = "backlog"
              ELSE Greets(wire[e], ends[Other(e)].node, cut[e[1]])

\* The lines that a node learns the height of its peer from.
Reports(line) == line # Garbled /\ line.Type \in {"handshake", "pong"}

\* The reports on their way are in the order of their heights, and none is
\* below what is known or above what is true.
Truthful(s, low, high) ==
    \A i \in 1 .. Len(s) : Reports(s[i]) =>
        /\ low <= s[i].Height /\ s[i].Height <= high
        /\ \A j \in i .. Len(s) : Reports(s[j]) => s[i].Height <= s[j].Height

HeightInv ==
    \A e \in End : ends[e].at # "none" =>
        LET n == ends[Other(e)].node
        IN  /\ ends[e].at \in {"backlog", "hello"} => ends[e].Height = 0
            /\ ends[e].at # "ended" => ends[e].Height <= height[n]
            /\ ends[e].at # "ended" => Truthful(wire[e], ends[e].Height, height[n])

----------------------------------------------------------------------------
(***************************************************************************)
(* Ends of connections, and tables.                                        *)
(***************************************************************************)
LEMMA OtherFacts ==
    ASSUME NEW e \in End
    PROVE  /\ Other(e) \in End /\ Other(Other(e)) = e /\ Other(e) # e
           /\ e[1] \in Conn /\ Other(e)[1] = e[1]
           /\ \A f \in End : f[1] = e[1] => f \in {e, Other(e)}
  BY DEF Other, End

LEMMA DialerFacts ==
    ASSUME NEW c \in Conn
    PROVE  <<c, "dialer">> \in End /\ <<c, "dialer">>[1] = c
  BY DEF End

LEMMA WithPeerFacts ==
    ASSUME NEW t, IsTable(t), NEW id \in ID, NEW e \in End
    PROVE  /\ IsTable(WithPeer(t, id, e))
           /\ IsFiniteSet(DOMAIN t)
           /\ DOMAIN WithPeer(t, id, e) = DOMAIN t \cup {id}
           /\ \A j \in DOMAIN t \cup {id} : WithPeer(t, id, e)[j] = IF j = id THEN e ELSE t[j]
  <1>1. PICK D \in SUBSET ID : IsFiniteSet(D) /\ t \in [D -> End]
    BY DEF IsTable
  <1>2. IsFiniteSet(D \cup {id})
    BY <1>1, FS_AddElement
  <1>3. WithPeer(t, id, e) \in [D \cup {id} -> End]
    BY <1>1 DEF WithPeer
  <1>4. IsTable(WithPeer(t, id, e))
    BY <1>2, <1>3 DEF IsTable
  <1>. QED  BY <1>1, <1>4 DEF WithPeer

LEMMA WithoutPeerFacts ==
    ASSUME NEW t, IsTable(t), NEW id
    PROVE  /\ IsTable(WithoutPeer(t, id))
           /\ IsFiniteSet(DOMAIN t)
           /\ DOMAIN WithoutPeer(t, id) = DOMAIN t \ {id}
           /\ \A j \in DOMAIN t \ {id} : WithoutPeer(t, id)[j] = t[j]
  <1>1. PICK D \in SUBSET ID : IsFiniteSet(D) /\ t \in [D -> End]
    BY DEF IsTable
  <1>2. IsFiniteSet(D \ {id})
    BY <1>1, FS_RemoveElement
  <1>3. WithoutPeer(t, id) \in [D \ {id} -> End]
    BY <1>1 DEF WithoutPeer
  <1>4. IsTable(WithoutPeer(t, id))
    BY <1>2, <1>3 DEF IsTable
  <1>. QED  BY <1>1, <1>4 DEF WithoutPeer

\* The empty table, and the ends in a table.
LEMMA TableFacts ==
    /\ IsTable(<<>>) /\ DOMAIN <<>> = {}
    /\ \A t : IsTable(t) => DOMAIN t \subseteq ID /\ Range(t) \subseteq End
  <1>1. <<>> \in [{} -> End]
    OBVIOUS
  <1>2. IsTable(<<>>)
    BY <1>1, FS_EmptySet DEF IsTable
  <1>. QED  BY <1>2 DEF IsTable, Range

----------------------------------------------------------------------------
(***************************************************************************)
(* Lines.  A write leaves a line as it is or appends a message, whole or   *)
(* garbled; the first line on a connection that is there is never lost.  A *)
(* read drops at least one line, and may garble what is left.              *)
(***************************************************************************)
LEMMA MessageIsLine ==
    ASSUME NEW type \in MessageType, NEW n \in Node, NEW h \in Nat
    PROVE  /\ Message(type, n, h) \in Line /\ Message(type, n, h) # Garbled
           /\ Message(type, n, h).Type = type
           /\ Message(type, n, h).NodeID = NodeID[n]
           /\ Message(type, n, h).Height = h
  BY GarbledAssumption, P2PAssumption DEF Message, Line, P2PMessage

LEMMA AfterSendFacts ==
    ASSUME TypeInv, NEW e \in End, NEW line \in Line, NEW q \in AfterSend(e, line)
    PROVE  /\ q \in Seq(Line) /\ Len(q) <= Buffer + 1
           /\ \/ q = wire[Other(e)]
              \/ ~cut[e[1]] /\ \E x \in {line, Garbled} : q = Append(wire[Other(e)], x)
           /\ wire[Other(e)] = <<>> /\ ~cut[e[1]] => q = Append(<<>>, line)
  <1>1. wire[Other(e)] \in Seq(Line) /\ Len(wire[Other(e)]) <= Buffer + 1
    BY OtherFacts DEF TypeInv
  <1>2. Garbled \in Line /\ Buffer \in Nat \ {0}
    BY P2PAssumption DEF Line
  <1>. DEFINE w == wire[Other(e)]
  <1>3. \/ q = w /\ (cut[e[1]] \/ Len(w) >= Buffer)
        \/ ~cut[e[1]] /\ Len(w) <= Buffer /\ q = Append(w, line)
        \/ ~cut[e[1]] /\ Len(w) = Buffer /\ q = Append(w, Garbled)
    BY <1>1, <1>2 DEF AfterSend
  <1>4. w = <<>> => Len(w) = 0
    OBVIOUS
  <1>. HIDE DEF w
  <1>5. CASE q = w /\ (cut[e[1]] \/ Len(w) >= Buffer)
    BY <1>1, <1>2, <1>4, <1>5 DEF w
  <1>6. CASE ~cut[e[1]] /\ Len(w) <= Buffer /\ q = Append(w, line)
    <2>1. q \in Seq(Line) /\ Len(q) <= Buffer + 1
      BY <1>1, <1>2, <1>6 DEF w
    <2>. QED  BY <2>1, <1>6 DEF w
  <1>7. CASE ~cut[e[1]] /\ Len(w) = Buffer /\ q = Append(w, Garbled)
    <2>1. q \in Seq(Line) /\ Len(q) <= Buffer + 1
      BY <1>1, <1>2, <1>7 DEF w
    <2>2. w # <<>>
      BY <1>2, <1>4, <1>7
    <2>. QED  BY <2>1, <2>2, <1>7 DEF w
  <1>. QED  BY <1>3, <1>5, <1>6, <1>7

LEMMA AfterReadFacts ==
    ASSUME TypeInv, NEW e \in End, NEW r \in AfterRead(e)
    PROVE  /\ r \in Seq(Line) /\ Len(r) <= Buffer + 1
           /\ wire[e] # <<>>
           /\ \E k \in 1 .. Len(wire[e]) :
                 /\ Len(r) = Len(wire[e]) - k
                 /\ \A i \in 1 .. Len(r) : r[i] = wire[e][i + k] \/ r[i] = Garbled
  <1>. DEFINE s == wire[e]
              rest(k) == SubSeq(s, k + 1, Len(s))
  <1>1. s \in Seq(Line) /\ Len(s) <= Buffer + 1 /\ Len(s) \in Nat
    BY DEF TypeInv
  <1>2. Garbled \in Line /\ Buffer \in Nat \ {0}
    BY P2PAssumption DEF Line
  <1>3. ASSUME NEW k \in 1 .. Len(s)
        PROVE  /\ rest(k) \in Seq(Line) /\ Len(rest(k)) = Len(s) - k
               /\ \A i \in 1 .. Len(rest(k)) : rest(k)[i] = s[i + k]
    <2>1. \A i \in k + 1 .. Len(s) : s[i] \in Line
      BY <1>1, ElementOfSeq
    <2>. QED  BY <2>1, <1>1, SubSeqProperties
  <1>4. CASE \E k \in 1 .. Len(s) : r = rest(k)
    <2>1. PICK k \in 1 .. Len(s) : r = rest(k)
      BY <1>4
    <2>. HIDE DEF rest
    <2>2. /\ r \in Seq(Line) /\ Len(r) = Len(s) - k
          /\ \A i \in 1 .. Len(r) : r[i] = s[i + k]
      BY <1>3, <2>1
    <2>3. Len(r) <= Buffer + 1 /\ Len(s) # 0
      BY <1>1, <1>2, <2>2
    <2>4. s # <<>>
      BY <2>3
    <2>. HIDE DEF s
    <2>. QED  BY <2>2, <2>3, <2>4 DEF s
  <1>5. CASE \E k \in 1 .. Len(s) - 1 : r = <<Garbled>> \o Tail(rest(k))
    <2>1. PICK k \in 1 .. Len(s) - 1 : r = <<Garbled>> \o Tail(rest(k))
      BY <1>5
    <2>. DEFINE t == Tail(rest(k))
    <2>2. rest(k) \in Seq(Line) /\ Len(rest(k)) = Len(s) - k /\ Len(rest(k)) >= 1
          /\ \A i \in 1 .. Len(rest(k)) : rest(k)[i] = s[i + k]
      BY <1>1, <1>3, <2>1
    <2>3. /\ t \in Seq(Line) /\ Len(t) = Len(s) - k - 1
          /\ \A i \in 1 .. Len(t) : t[i] = s[i + 1 + k]
      <3>. HIDE DEF rest
      <3>1. rest(k) # <<>>
        BY <2>2
      <3>. QED  BY <1>1, <2>2, <3>1, HeadTailProperties
    <2>4. <<Garbled>> \in Seq(Line) /\ Len(<<Garbled>>) = 1 /\ <<Garbled>>[1] = Garbled
      BY <1>2
    <2>5. /\ r \in Seq(Line) /\ Len(r) = Len(s) - k
          /\ \A i \in 1 .. Len(r) : r[i] = IF i <= 1 THEN Garbled ELSE t[i - 1]
      <3>. HIDE DEF t
      <3>. QED  BY <1>1, <2>1, <2>3, <2>4, ConcatProperties DEF t
    <2>6. \A i \in 1 .. Len(r) : r[i] = s[i + k] \/ r[i] = Garbled
      <3>. HIDE DEF t
      <3>. QED  BY <1>1, <2>3, <2>5
    <2>7. k \in 1 .. Len(s) /\ Len(s) # 0
      BY <1>1
    <2>8. Len(r) <= Buffer + 1
      BY <1>1, <1>2, <2>5, <2>7
    <2>9. s # <<>>
      BY <2>7
    <2>. HIDE DEF s
    <2>. QED  BY <2>5, <2>6, <2>7, <2>8, <2>9 DEF s
  <1>. QED  BY <1>4, <1>5 DEF AfterRead

\* What is sent to several connections, or to one of them.
LEMMA SendAllFacts ==
    ASSUME TypeInv, NEW to \in SUBSET End, NEW line \in Line, SendAll(to, line)
    PROVE  /\ wire' \in [End -> Seq(Line)] /\ \A f \in End : Len(wire'[f]) <= Buffer + 1
           /\ \A f \in End : \/ wire'[f] = wire[f]
                             \/ Other(f) \in to /\ wire'[f] \in AfterSend(Other(f), line)
  <1>1. PICK q \in [to -> UNION {AfterSend(e, line) : e \in to}] :
            /\ \A e \in to : q[e] \in AfterSend(e, line)
            /\ wire' = [f \in End |-> IF Other(f) \in to THEN q[Other(f)] ELSE wire[f]]
    BY DEF SendAll
  <1>2. ASSUME NEW f \in End
        PROVE  /\ wire'[f] \in Seq(Line) /\ Len(wire'[f]) <= Buffer + 1
               /\ \/ wire'[f] = wire[f]
                  \/ Other(f) \in to /\ wire'[f] \in AfterSend(Other(f), line)
    <2>1. CASE Other(f) \in to
      BY <1>1, <2>1, OtherFacts, AfterSendFacts
    <2>2. CASE Other(f) \notin to
      BY <1>1, <2>2 DEF TypeInv
    <2>. QED  BY <2>1, <2>2
  <1>3. wire' \in [End -> Seq(Line)]
    <2>1. DOMAIN wire' = End /\ wire' = [f \in End |-> wire'[f]]
      BY <1>1
    <2>. QED  BY <1>2, <2>1
  <1>. QED  BY <1>2, <1>3

\* One end or two are written to or read from.
LEMMA WireExcept ==
    ASSUME TypeInv, NEW e \in End, NEW r \in Seq(Line), Len(r) <= Buffer + 1,
           NEW f \in End, NEW q \in Seq(Line), Len(q) <= Buffer + 1,
           \/ wire' = [wire EXCEPT ![e] = r]
           \/ wire' = [wire EXCEPT ![e] = r, ![f] = q]
    PROVE  wire' \in [End -> Seq(Line)] /\ \A g \in End : Len(wire'[g]) <= Buffer + 1
  BY DEF TypeInv

\* A goroutine goes on to another stage.
LEMMA StageFacts ==
    ASSUME NEW p \in Peer, NEW st \in Stage
    PROVE  LET q == [p EXCEPT !.at = st]
           IN  /\ q \in Peer /\ q.at = st
               /\ q.node = p.node /\ q.ID = p.ID /\ q.Height = p.Height
  BY DEF Peer

LEMMA HangUpFacts ==
    ASSUME TypeInv, NEW e \in End, HangUp(e)
    PROVE  /\ ends' \in [End -> Peer]
           /\ ends'[e] = [ends[e] EXCEPT !.at = "ended"]
           /\ \A f \in End : f # e => ends'[f] = ends[f] /\ wire'[f] = wire[f]
           /\ wire' \in [End -> Seq(Line)] /\ \A f \in End : Len(wire'[f]) <= Buffer + 1
           /\ wire'[e] = <<>>
           /\ cut' \in [Conn -> BOOLEAN]
           /\ cut'[e[1]]
           /\ \A c \in Conn : cut[c] => cut'[c]
  <1>1. <<>> \in Seq(Line) /\ Len(<<>>) <= Buffer + 1
    BY P2PAssumption
  <1>2. wire' \in [End -> Seq(Line)] /\ \A f \in End : Len(wire'[f]) <= Buffer + 1
    BY <1>1, WireExcept DEF HangUp
  <1>3. ends' \in [End -> Peer] /\ ends'[e] = [ends[e] EXCEPT !.at = "ended"]
    <2>1. ends \in [End -> Peer] /\ "ended" \in Stage
      BY DEF TypeInv, Stage
    <2>2. [ends[e] EXCEPT !.at = "ended"] \in Peer
      BY <2>1, StageFacts
    <2>3. ends' = [ends EXCEPT ![e] = [ends[e] EXCEPT !.at = "ended"]]
      BY DEF HangUp
    <2>. QED  BY <2>1, <2>2, <2>3
  <1>4. cut' \in [Conn -> BOOLEAN] /\ cut'[e[1]] /\ \A c \in Conn : cut[c] => cut'[c]
    BY OtherFacts DEF HangUp, TypeInv
  <1>5. \A f \in End : f # e => ends'[f] = ends[f] /\ wire'[f] = wire[f]
    BY DEF HangUp, TypeInv
  <1>6. wire'[e] = <<>>
    BY DEF HangUp, TypeInv
  <1>. QED  BY <1>2, <1>3, <1>4, <1>5, <1>6

LEMMA NextStage ==
    ASSUME TypeInv, NEW e \in End, NEW st \in Stage, ends' = [ends EXCEPT ![e].at = st]
    PROVE  /\ ends' \in [End -> Peer]
           /\ ends'[e] = [ends[e] EXCEPT !.at = st]
           /\ ends'[e].at = st /\ ends'[e].node = ends[e].node
           /\ ends'[e].ID = ends[e].ID /\ ends'[e].Height = ends[e].Height
           /\ \A f \in End : f # e => ends'[f] = ends[f]
  <1>1. ends \in [End -> Peer]
    BY DEF TypeInv
  <1>2. LET q == [ends[e] EXCEPT !.at = st]
        IN  /\ q \in Peer /\ q.at = st
            /\ q.node = ends[e].node /\ q.ID = ends[e].ID /\ q.Height = ends[e].Height
    BY <1>1, StageFacts
  <1>3. ends' = [ends EXCEPT ![e] = [ends[e] EXCEPT !.at = st]]
    OBVIOUS
  <1>. QED  BY <1>1, <1>2, <1>3

----------------------------------------------------------------------------
(***************************************************************************)
(* Types.                                                                  *)
(***************************************************************************)
LEMMA InitTypeInv == P2PInit => TypeInv
  <1>. SUFFICES ASSUME P2PInit PROVE TypeInv
    OBVIOUS
  <1>1. Unused \in Peer /\ Unused.at = "none"
    BY DEF Unused, NewPeer, Peer, Stage
  <1>2. ends \in [End -> Peer] /\ \A e \in End : ends[e].at = "none"
    BY <1>1 DEF P2PInit
  <1>3. \A n \in Node : IsTable(peers[n])
    BY TableFacts DEF P2PInit
  <1>4. DOMAIN peers = Node /\ peers = [n \in Node |-> peers[n]]
    BY DEF P2PInit
  <1>5. wire \in [End -> Seq(Line)] /\ \A e \in End : Len(wire[e]) <= Buffer + 1
    BY P2PAssumption DEF P2PInit
  <1>6. /\ height \in [Node -> Nat] /\ newBlocks \in [Node -> 0 .. ChannelSize]
        /\ events \in 0 .. MaxEvents
    BY P2PAssumption DEF P2PInit
  <1>7. /\ MaxPeers \in Sizes /\ running \in [Node -> BOOLEAN] /\ cut \in [Conn -> BOOLEAN]
    BY DEF P2PInit
  <1>. QED  BY <1>2, <1>3, <1>4, <1>5, <1>6, <1>7 DEF TypeInv

\* The lines of a round go to connections in the table, and tell no height.
LEMMA RoundFacts ==
    ASSUME TypeInv, NEW n \in Node, Round(n)
    PROVE  /\ wire' \in [End -> Seq(Line)] /\ \A f \in End : Len(wire'[f]) <= Buffer + 1
           /\ \E line \in Line :
                 /\ ~Reports(line)
                 /\ \A f \in End :
                       \/ wire'[f] = wire[f]
                       \/ Other(f) \in Range(peers[n]) /\ wire'[f] \in AfterSend(Other(f), line)
  <1>. DEFINE to == Range(peers[n])
  <1>1. to \in SUBSET End
    BY TableFacts DEF TypeInv
  <1>2. height[n] \in Nat /\ height[n] + 1 \in Nat /\ 0 \in Nat
    BY DEF TypeInv
  <1>3. Garbled \in Line /\ ~Reports(Garbled)
    BY DEF Line, Reports
  <1>4. \A type \in {"new_block", "new_tx", "ping", "get_blocks", "get_peers"}, h \in Nat :
            Message(type, n, h) \in Line /\ ~Reports(Message(type, n, h))
    BY MessageIsLine DEF MessageType, Reports
  <1>5. CASE \E t \in SUBSET to, line \in Line : ~Reports(line) /\ SendAll(t, line)
    <2>1. PICK t \in SUBSET to, line \in Line : ~Reports(line) /\ SendAll(t, line)
      BY <1>5
    <2>2. t \in SUBSET End
      BY <1>1
    <2>3. /\ wire' \in [End -> Seq(Line)] /\ \A f \in End : Len(wire'[f]) <= Buffer + 1
          /\ \A f \in End : \/ wire'[f] = wire[f]
                            \/ Other(f) \in t /\ wire'[f] \in AfterSend(Other(f), line)
      BY <2>1, <2>2, SendAllFacts
    <2>. QED  BY <2>1, <2>3
  <1>6. CASE BroadcastBlock(n)
    <2>1. PICK line \in {Message("new_block", n, height[n] + 1), Garbled} : SendAll(to, line)
      BY <1>6 DEF BroadcastBlock
    <2>2. line \in Line /\ ~Reports(line)
      BY <1>2, <1>3, <1>4
    <2>. QED  BY <1>5, <2>1, <2>2
  <1>7. CASE BroadcastTx(n)
    <2>1. SendAll(to, Message("new_tx", n, 0))
      BY <1>7 DEF BroadcastTx
    <2>. QED  BY <1>2, <1>4, <1>5, <2>1
  <1>8. CASE PingRoutine(n)
    <2>1. SendAll(to, Message("ping", n, height[n]))
      BY <1>8 DEF PingRoutine
    <2>. QED  BY <1>2, <1>4, <1>5, <2>1
  <1>9. CASE SyncRoutine(n)
    <2>. DEFINE ahead == {e \in to : ends[e].Height > height[n]}
    <2>1. SendAll(ahead, Message("get_blocks", n, height[n])) /\ ahead \in SUBSET to
      BY <1>9 DEF SyncRoutine
    <2>. QED  BY <1>2, <1>4, <1>5, <2>1
  <1>10. CASE AskPeers(n)
    <2>. DEFINE line == Message("get_peers", n, 0)
    <2>1. PICK e \in to : \E q \in AfterSend(e, line) : wire' = [wire EXCEPT ![Other(e)] = q]
      BY <1>10 DEF AskPeers
    <2>2. PICK q \in AfterSend(e, line) : wire' = [wire EXCEPT ![Other(e)] = q]
      BY <2>1
    <2>3. line \in Line /\ ~Reports(line)
      BY <1>2, <1>4
    <2>4. e \in End /\ Other(e) \in End /\ Other(Other(e)) = e
      BY <1>1, OtherFacts
    <2>. HIDE DEF line
    <2>5. q \in Seq(Line) /\ Len(q) <= Buffer + 1
      BY <2>3, <2>4, AfterSendFacts
    <2>6. wire' \in [End -> Seq(Line)] /\ \A f \in End : Len(wire'[f]) <= Buffer + 1
      BY <2>2, <2>4, <2>5, WireExcept
    <2>7. \A f \in End : \/ wire'[f] = wire[f]
                         \/ Other(f) \in to /\ wire'[f] \in AfterSend(Other(f), line)
      BY <2>2, <2>4 DEF TypeInv
    <2>. QED  BY <2>3, <2>6, <2>7
  <1>. QED  BY <1>6, <1>7, <1>8, <1>9, <1>10 DEF Round

LEMMA RoundTypeInv ==
    ASSUME TypeInv, NEW n \in Node, Round(n)
    PROVE  TypeInv'
  <1>1. wire' \in [End -> Seq(Line)] /\ \A f \in End : Len(wire'[f]) <= Buffer + 1
    BY RoundFacts
  <1>2. height' \in [Node -> Nat]
    BY DEF Round, BroadcastBlock, BroadcastTx, PingRoutine, SyncRoutine, AskPeers, TypeInv
  <1>3. events' \in 0 .. MaxEvents
    BY P2PAssumption DEF Round, Event, TypeInv
  <1>4. UNCHANGED <<MaxPeers, running, peers, newBlocks, ends, cut>>
    BY DEF Round
  <1>. QED  BY <1>1, <1>2, <1>3, <1>4 DEF TypeInv

\* The goroutines that Stop ends, and the connections it closes.
LEMMA StopFacts ==
    ASSUME TypeInv, NEW n \in Node, Stop(n)
    PROVE  /\ ends' \in [End -> Peer]
           /\ wire' \in [End -> Seq(Line)] /\ \A e \in End : Len(wire'[e]) <= Buffer + 1
           /\ \A e \in End : \/ ends'[e] = ends[e]
                             \/ /\ ends[e].at = "backlog" /\ cut'[e[1]]
                                /\ ends'[e] = [ends[e] EXCEPT !.at = "ended"]
           /\ \A e \in End : \/ wire'[e] = wire[e]
                             \/ wire'[e] = <<>> /\ cut'[e[1]]
           /\ cut' \in [Conn -> BOOLEAN]
           /\ \A c \in Conn : cut[c] => cut'[c]
  <1>. DEFINE waiting == {e \in End : ends[e].node = n /\ ends[e].at = "backlog"}
              closed  == waiting \cup Range(peers[n])
  <1>1. /\ ends' = [e \in End |-> IF e \in waiting THEN [ends[e] EXCEPT !.at = "ended"] ELSE ends[e]]
        /\ cut' = [c \in Conn |-> cut[c] \/ \E e \in closed : e[1] = c]
        /\ wire' = [e \in End |-> IF e \in closed THEN <<>> ELSE wire[e]]
    BY DEF Stop
  <1>2. ASSUME NEW e \in End
        PROVE  [ends[e] EXCEPT !.at = "ended"] \in Peer /\ ends[e] \in Peer
    BY StageFacts DEF TypeInv, Stage
  <1>3. ends' \in [End -> Peer]
    <2>. HIDE DEF waiting
    <2>. QED  BY <1>1, <1>2
  <1>4. wire' \in [End -> Seq(Line)] /\ \A e \in End : Len(wire'[e]) <= Buffer + 1
    <2>. HIDE DEF closed
    <2>. QED  BY <1>1, P2PAssumption DEF TypeInv
  <1>5. \A e \in End : e \in closed => cut'[e[1]]
    BY <1>1, OtherFacts
  <1>6. cut' \in [Conn -> BOOLEAN] /\ \A c \in Conn : cut[c] => cut'[c]
    <2>. HIDE DEF closed
    <2>. QED  BY <1>1 DEF TypeInv
  <1>. QED  BY <1>1, <1>3, <1>4, <1>5, <1>6

LEMMA StopTypeInv ==
    ASSUME TypeInv, NEW n \in Node, Stop(n)
    PROVE  TypeInv'
  <1>1. /\ ends' \in [End -> Peer] /\ cut' \in [Conn -> BOOLEAN]
        /\ wire' \in [End -> Seq(Line)] /\ \A e \in End : Len(wire'[e]) <= Buffer + 1
    BY StopFacts
  <1>2. ASSUME NEW e \in End, ends'[e].at # "none"
        PROVE  ends'[e].node \in Node
    <2>1. CASE ends'[e] = ends[e]
      BY <1>2, <2>1 DEF TypeInv
    <2>2. CASE ends[e].at = "backlog" /\ ends'[e] = [ends[e] EXCEPT !.at = "ended"]
      <3>1. ends[e] \in Peer /\ "ended" \in Stage /\ ends[e].node \in Node
        BY <2>2 DEF TypeInv, Stage
      <3>2. [ends[e] EXCEPT !.at = "ended"].node = ends[e].node
        BY <3>1, StageFacts
      <3>. QED  BY <2>2, <3>1, <3>2
    <2>. QED  BY <2>1, <2>2, StopFacts
  <1>3. events' \in 0 .. MaxEvents
    BY P2PAssumption DEF Stop, Event, TypeInv
  <1>4. running' \in [Node -> BOOLEAN] /\ UNCHANGED <<MaxPeers, height, peers, newBlocks>>
    BY DEF Stop, TypeInv
  <1>. QED  BY <1>1, <1>2, <1>3, <1>4 DEF TypeInv

\* The two goroutines that a connection starts.
LEMMA ConnectFacts ==
    ASSUME TypeInv, NEW c \in Conn, NEW n \in Node, NEW m \in Node, Connect(c, n, m)
    PROVE  LET e == <<c, "dialer">>
           IN /\ e \in End /\ ends[e].at = "none"
              /\ ends' \in [End -> Peer]
              /\ ends'[e] = NewPeer("hello", n)
              /\ ends'[Other(e)] = NewPeer("backlog", m)
              /\ wire' \in [End -> Seq(Line)] /\ \A f \in End : Len(wire'[f]) <= Buffer + 1
              /\ wire'[e] = wire[e]
              /\ wire'[Other(e)] = <<Message("handshake", n, height[n])>>
              /\ \A f \in End \ {e, Other(e)} : ends'[f] = ends[f] /\ wire'[f] = wire[f]
              /\ UNCHANGED <<MaxPeers, running, height, peers, newBlocks, cut, events>>
  <1>. DEFINE a == NewPeer("hello", n)
              b == NewPeer("backlog", m)
              h == <<Message("handshake", n, height[n])>>
              e == <<c, "dialer">>
  <1>2. e \in End /\ Other(e) \in End /\ Other(e) # e
    BY DialerFacts, OtherFacts
  <1>4. a \in Peer /\ b \in Peer
    BY DEF NewPeer, Peer, Stage
  <1>5. h \in Seq(Line) /\ Len(h) <= Buffer + 1
    <2>1. Message("handshake", n, height[n]) \in Line
      BY MessageIsLine DEF MessageType, TypeInv
    <2>. QED  BY <2>1, P2PAssumption
  <1>6. /\ ends[e].at = "none"
        /\ ends' = [ends EXCEPT ![e] = a, ![Other(e)] = b]
        /\ wire' = [wire EXCEPT ![Other(e)] = h]
        /\ UNCHANGED <<MaxPeers, running, height, peers, newBlocks, cut, events>>
    BY DEF Connect
  <1>. HIDE DEF a, b, h, e
  <1>7. /\ ends' \in [End -> Peer] /\ ends'[e] = a /\ ends'[Other(e)] = b
        /\ \A f \in End \ {e, Other(e)} : ends'[f] = ends[f]
    BY <1>2, <1>4, <1>6 DEF TypeInv
  <1>8. wire' \in [End -> Seq(Line)] /\ \A f \in End : Len(wire'[f]) <= Buffer + 1
    BY <1>2, <1>5, <1>6, WireExcept
  <1>9. /\ wire'[e] = wire[e] /\ wire'[Other(e)] = h
        /\ \A f \in End \ {e, Other(e)} : wire'[f] = wire[f]
    BY <1>2, <1>6 DEF TypeInv
  <1>. QED  BY <1>2, <1>6, <1>7, <1>8, <1>9 DEF a, b, h, e

LEMMA ConnectTypeInv ==
    ASSUME TypeInv, NEW c \in Conn, NEW n \in Node, NEW m \in Node, Connect(c, n, m)
    PROVE  TypeInv'
  <1>. DEFINE e == <<c, "dialer">>
  <1>1. /\ e \in End /\ ends' \in [End -> Peer]
        /\ ends'[e] = NewPeer("hello", n)
        /\ ends'[Other(e)] = NewPeer("backlog", m)
        /\ wire' \in [End -> Seq(Line)] /\ \A f \in End : Len(wire'[f]) <= Buffer + 1
        /\ \A f \in End \ {e, Other(e)} : ends'[f] = ends[f]
        /\ UNCHANGED <<MaxPeers, running, height, peers, newBlocks, cut, events>>
    BY ConnectFacts
  <1>. HIDE DEF e
  <1>2. ASSUME NEW f \in End, ends'[f].at # "none"
        PROVE  ends'[f].node \in Node
    <2>1. CASE f \in {e, Other(e)}
      BY <1>1, <2>1 DEF NewPeer
    <2>2. CASE f \notin {e, Other(e)}
      BY <1>1, <1>2, <2>2 DEF TypeInv
    <2>. QED  BY <2>1, <2>2
  <1>. QED  BY <1>1, <1>2 DEF TypeInv

\* What has arrived on a connection that breaks.
LEMMA ArrivedFacts ==
    ASSUME TypeInv, NEW e \in End, NEW q \in Arrived(e)
    PROVE  /\ q \in Seq(Line) /\ Len(q) <= Len(wire[e]) /\ Len(q) <= Buffer + 1
           /\ \A i \in 1 .. Len(q) : q[i] = wire[e][i] \/ q[i] = Garbled
  <1>. DEFINE s == wire[e]
              first(k) == SubSeq(s, 1, k)
  <1>1. s \in Seq(Line) /\ Len(s) <= Buffer + 1 /\ Len(s) \in Nat
    BY DEF TypeInv
  <1>2. Garbled \in Line /\ Buffer \in Nat \ {0}
    BY P2PAssumption DEF Line
  <1>3. ASSUME NEW k \in 0 .. Len(s)
        PROVE  /\ first(k) \in Seq(Line) /\ Len(first(k)) = k
               /\ \A i \in 1 .. k : first(k)[i] = s[i]
    <2>1. \A i \in 1 .. k : s[i] \in Line
      BY <1>1, ElementOfSeq
    <2>. QED  BY <2>1, <1>1, SubSeqProperties
  <1>4. CASE \E k \in 0 .. Len(s) : q = first(k)
    <2>1. PICK k \in 0 .. Len(s) : q = first(k)
      BY <1>4
    <2>. HIDE DEF first
    <2>2. /\ q \in Seq(Line) /\ Len(q) = k
          /\ \A i \in 1 .. k : q[i] = s[i]
      BY <1>3, <2>1
    <2>. HIDE DEF s
    <2>. QED  BY <1>1, <1>2, <2>2 DEF s
  <1>5. CASE \E k \in 0 .. Len(s) - 1 : q = Append(first(k), Garbled)
    <2>1. PICK k \in 0 .. Len(s) - 1 : q = Append(first(k), Garbled)
      BY <1>5
    <2>. HIDE DEF first
    <2>2. /\ first(k) \in Seq(Line) /\ Len(first(k)) = k
          /\ \A i \in 1 .. k : first(k)[i] = s[i]
      BY <1>1, <1>3
    <2>3. /\ q \in Seq(Line) /\ Len(q) = k + 1
          /\ \A i \in 1 .. k : q[i] = s[i]
          /\ q[k + 1] = Garbled
      BY <1>2, <2>1, <2>2
    <2>. HIDE DEF s
    <2>. QED  BY <1>1, <1>2, <2>3 DEF s
  <1>. QED  BY <1>4, <1>5 DEF Arrived

\* A connection breaks.
LEMMA BreakFacts ==
    ASSUME TypeInv, NEW c \in Conn, Break(c)
    PROVE  /\ wire' \in [End -> Seq(Line)] /\ \A e \in End : Len(wire'[e]) <= Buffer + 1
           /\ \A e \in End : \/ wire'[e] = wire[e]
                             \/ /\ cut'[e[1]]
                                /\ Len(wire'[e]) <= Len(wire[e])
                                /\ \A i \in 1 .. Len(wire'[e]) :
                                      wire'[e][i] = wire[e][i] \/ wire'[e][i] = Garbled
  <1>. DEFINE d == <<c, "dialer">>
  <1>1. d \in End /\ Other(d) \in End /\ Other(d) # d /\ d[1] = c /\ Other(d)[1] = c
    BY DialerFacts, OtherFacts
  <1>2. PICK u \in Arrived(d), v \in Arrived(Other(d)) :
            wire' = [wire EXCEPT ![d] = u, ![Other(d)] = v]
    BY DEF Break
  <1>3. cut'[c]
    BY DEF Break, TypeInv
  <1>. HIDE DEF d
  <1>4. /\ u \in Seq(Line) /\ Len(u) <= Len(wire[d]) /\ Len(u) <= Buffer + 1
        /\ \A i \in 1 .. Len(u) : u[i] = wire[d][i] \/ u[i] = Garbled
    BY <1>1, ArrivedFacts
  <1>5. /\ v \in Seq(Line) /\ Len(v) <= Len(wire[Other(d)]) /\ Len(v) <= Buffer + 1
        /\ \A i \in 1 .. Len(v) : v[i] = wire[Other(d)][i] \/ v[i] = Garbled
    BY <1>1, ArrivedFacts
  <1>6. wire' \in [End -> Seq(Line)] /\ \A e \in End : Len(wire'[e]) <= Buffer + 1
    BY <1>1, <1>2, <1>4, <1>5, WireExcept
  <1>7. /\ wire'[d] = u /\ wire'[Other(d)] = v
        /\ \A e \in End \ {d, Other(d)} : wire'[e] = wire[e]
    BY <1>1, <1>2 DEF TypeInv
  <1>. QED  BY <1>1, <1>3, <1>4, <1>5, <1>6, <1>7

LEMMA BreakTypeInv ==
    ASSUME TypeInv, NEW c \in Conn, Break(c)
    PROVE  TypeInv'
  <1>1. wire' \in [End -> Seq(Line)] /\ \A e \in End : Len(wire'[e]) <= Buffer + 1
    BY BreakFacts
  <1>2. events' \in 0 .. MaxEvents
    BY P2PAssumption DEF Break, Event, TypeInv
  <1>3. cut' \in [Conn -> BOOLEAN]
    BY DEF Break, TypeInv
  <1>4. UNCHANGED <<MaxPeers, running, height, peers, newBlocks, ends>>
    BY DEF Break
  <1>. QED  BY <1>1, <1>2, <1>3, <1>4 DEF TypeInv

LEMMA HeadFacts ==
    ASSUME TypeInv, NEW e \in End, wire[e] # <<>>
    PROVE  /\ Head(wire[e]) = wire[e][1] /\ Len(wire[e]) \in Nat \ {0}
           /\ Head(wire[e]) # Garbled =>
                 /\ Head(wire[e]) \in P2PMessage
                 /\ Head(wire[e]).NodeID \in ID /\ Head(wire[e]).Height \in Nat
  <1>1. wire[e] \in Seq(Line)
    BY DEF TypeInv
  <1>2. Head(wire[e]) \in Line /\ Len(wire[e]) \in Nat \ {0} /\ Head(wire[e]) = wire[e][1]
    BY <1>1, EmptySeq, HeadTailProperties
  <1>. QED  BY <1>2 DEF Line, P2PMessage

\* An end reads a message and answers, or not.
LEMMA ReadFacts ==
    ASSUME TypeInv, NEW e \in End, NEW r \in AfterRead(e), wire' = [wire EXCEPT ![e] = r]
    PROVE  /\ wire' \in [End -> Seq(Line)] /\ \A f \in End : Len(wire'[f]) <= Buffer + 1
           /\ wire'[e] \in AfterRead(e)
           /\ \A f \in End : f # e => wire'[f] = wire[f]
  <1>1. r \in Seq(Line) /\ Len(r) <= Buffer + 1
    BY AfterReadFacts
  <1>2. wire' \in [End -> Seq(Line)] /\ \A f \in End : Len(wire'[f]) <= Buffer + 1
    BY <1>1, WireExcept
  <1>. QED  BY <1>2 DEF TypeInv

LEMMA ReplyFacts ==
    ASSUME TypeInv, NEW e \in End, NEW after,
           \A q \in after : q \in Seq(Line) /\ Len(q) <= Buffer + 1,
           Reply(e, after)
    PROVE  /\ wire' \in [End -> Seq(Line)] /\ \A f \in End : Len(wire'[f]) <= Buffer + 1
           /\ wire'[e] \in AfterRead(e)
           /\ wire'[Other(e)] \in after
           /\ \A f \in End : f \notin {e, Other(e)} => wire'[f] = wire[f]
  <1>1. PICK r \in AfterRead(e), q \in after : wire' = [wire EXCEPT ![e] = r, ![Other(e)] = q]
    BY DEF Reply
  <1>2. r \in Seq(Line) /\ Len(r) <= Buffer + 1 /\ q \in Seq(Line) /\ Len(q) <= Buffer + 1
    BY AfterReadFacts
  <1>3. Other(e) \in End /\ Other(e) # e
    BY OtherFacts
  <1>4. wire' \in [End -> Seq(Line)] /\ \A f \in End : Len(wire'[f]) <= Buffer + 1
    BY <1>1, <1>2, <1>3, WireExcept
  <1>. QED  BY <1>1, <1>3, <1>4 DEF TypeInv

\* A goroutine is over, and nothing else happens.
LEMMA OverTypeInv ==
    ASSUME TypeInv, NEW e \in End, HangUp(e), ends[e].at # "none",
           UNCHANGED <<MaxPeers, running, height, peers, newBlocks, events>>
    PROVE  TypeInv'
  <1>1. /\ ends' \in [End -> Peer] /\ cut' \in [Conn -> BOOLEAN]
        /\ ends'[e] = [ends[e] EXCEPT !.at = "ended"]
        /\ \A f \in End : f # e => ends'[f] = ends[f]
        /\ wire' \in [End -> Seq(Line)] /\ \A f \in End : Len(wire'[f]) <= Buffer + 1
    BY HangUpFacts
  <1>2. ends'[e].node = ends[e].node
    BY <1>1, StageFacts DEF TypeInv, Stage
  <1>3. \A f \in End : ends'[f].at # "none" => ends'[f].node \in Node
    BY <1>1, <1>2 DEF TypeInv
  <1>. QED  BY <1>1, <1>3 DEF TypeInv

LEMMA AcceptFacts ==
    ASSUME TypeInv, NEW e \in End, Accept(e), ~HangUp(e)
    PROVE  LET n    == ends[e].node
               line == Message("handshake", n, height[n])
           IN  /\ n \in Node /\ line \in Line
               /\ wire' \in [End -> Seq(Line)] /\ \A f \in End : Len(wire'[f]) <= Buffer + 1
               /\ wire'[Other(e)] \in AfterSend(e, line)
               /\ \A f \in End : f # Other(e) => wire'[f] = wire[f]
               /\ ends[e].at = "backlog"
               /\ ends' = [ends EXCEPT ![e].at = "hello"]
               /\ UNCHANGED <<MaxPeers, running, height, peers, newBlocks, cut, events>>
  <1>. DEFINE n    == ends[e].node
              line == Message("handshake", n, height[n])
  <1>1. n \in Node /\ height[n] \in Nat
    BY DEF Accept, TypeInv
  <1>2. line \in Line
    BY <1>1, MessageIsLine DEF MessageType
  <1>3. PICK q \in AfterSend(e, line) : wire' = [wire EXCEPT ![Other(e)] = q]
    BY DEF Accept
  <1>. HIDE DEF line
  <1>4. q \in Seq(Line) /\ Len(q) <= Buffer + 1 /\ Other(e) \in End
    BY <1>2, AfterSendFacts, OtherFacts
  <1>5. wire' \in [End -> Seq(Line)] /\ \A f \in End : Len(wire'[f]) <= Buffer + 1
    BY <1>3, <1>4, WireExcept
  <1>6. wire'[Other(e)] = q /\ \A f \in End : f # Other(e) => wire'[f] = wire[f]
    BY <1>3, <1>4 DEF TypeInv
  <1>. QED  BY <1>1, <1>2, <1>5, <1>6 DEF line, Accept

LEMMA AcceptTypeInv ==
    ASSUME TypeInv, NEW e \in End, Accept(e)
    PROVE  TypeInv'
  <1>. SUFFICES ASSUME ~HangUp(e) PROVE TypeInv'
    BY OverTypeInv DEF Accept
  <1>1. /\ wire' \in [End -> Seq(Line)] /\ \A f \in End : Len(wire'[f]) <= Buffer + 1
        /\ ends[e].at = "backlog"
        /\ ends' = [ends EXCEPT ![e].at = "hello"]
        /\ UNCHANGED <<MaxPeers, running, height, peers, newBlocks, cut, events>>
    BY AcceptFacts
  <1>2. "hello" \in Stage
    BY DEF Stage
  <1>3. ends' \in [End -> Peer] /\ \A f \in End : ends'[f].at # "none" => ends'[f].node \in Node
    BY <1>1, <1>2, NextStage DEF TypeInv
  <1>. QED  BY <1>1, <1>3 DEF TypeInv

\* The handshake is taken, or the table is full.
LEMMA AdmitFacts ==
    ASSUME TypeInv, NEW e \in End, Admit(e)
    PROVE  LET n == ends[e].node
               m == Head(wire[e])
           IN  /\ ends[e].at = "hello" /\ n \in Node
               /\ m \in P2PMessage /\ m.NodeID \in ID /\ m.Height \in Nat
               /\ m # Garbled /\ m.Type = "handshake" /\ wire[e] # <<>>
               /\ \/ HangUp(e) /\ UNCHANGED peers
                  \/ /\ ~(Cardinality(DOMAIN peers[n]) >= MaxPeers)
                     /\ DOMAIN peers' = Node /\ peers' = [k \in Node |-> peers'[k]]
                     /\ peers'[n] = WithPeer(peers[n], m.NodeID, e)
                     /\ \A k \in Node : k # n => peers'[k] = peers[k]
                     /\ ends' \in [End -> Peer]
                     /\ ends'[e].at = "handling" /\ ends'[e].node = n
                     /\ ends'[e].ID = m.NodeID /\ ends'[e].Height = m.Height
                     /\ \A f \in End : f # e => ends'[f] = ends[f]
                     /\ wire' \in [End -> Seq(Line)]
                     /\ \A f \in End : Len(wire'[f]) <= Buffer + 1
                     /\ wire'[e] \in AfterRead(e)
                     /\ \A f \in End : f # e => wire'[f] = wire[f]
                     /\ UNCHANGED cut
               /\ UNCHANGED <<MaxPeers, running, height, newBlocks, events>>
  <1>. DEFINE n == ends[e].node
              m == Head(wire[e])
  <1>1. /\ ends[e].at = "hello" /\ n \in Node /\ wire[e] # <<>>
        /\ m # Garbled /\ m.Type = "handshake"
    BY DEF Admit, Opened, TypeInv
  <1>2. m \in P2PMessage /\ m.NodeID \in ID /\ m.Height \in Nat
    BY <1>1, HeadFacts
  <1>3. UNCHANGED <<MaxPeers, running, height, newBlocks, events>>
    BY DEF Admit
  <1>4. CASE Cardinality(DOMAIN peers[n]) >= MaxPeers
    BY <1>1, <1>2, <1>3, <1>4 DEF Admit
  <1>5. CASE ~(Cardinality(DOMAIN peers[n]) >= MaxPeers)
    <2>. DEFINE p == [at |-> "handling", node |-> n, ID |-> m.NodeID, Height |-> m.Height]
    <2>1. /\ peers' = [peers EXCEPT ![n] = WithPeer(@, m.NodeID, e)]
          /\ ends' = [ends EXCEPT ![e] = p]
          /\ \E r \in AfterRead(e) : wire' = [wire EXCEPT ![e] = r]
          /\ UNCHANGED cut
      BY <1>5 DEF Admit
    <2>2. /\ wire' \in [End -> Seq(Line)] /\ \A f \in End : Len(wire'[f]) <= Buffer + 1
          /\ wire'[e] \in AfterRead(e)
          /\ \A f \in End : f # e => wire'[f] = wire[f]
      BY <2>1, ReadFacts
    <2>3. /\ DOMAIN peers' = Node /\ peers' = [k \in Node |-> peers'[k]]
          /\ peers'[n] = WithPeer(peers[n], m.NodeID, e)
          /\ \A k \in Node : k # n => peers'[k] = peers[k]
      BY <1>1, <2>1 DEF TypeInv
    <2>4. /\ ends' \in [End -> Peer]
          /\ ends'[e].at = "handling" /\ ends'[e].node = n
          /\ ends'[e].ID = m.NodeID /\ ends'[e].Height = m.Height
          /\ \A f \in End : f # e => ends'[f] = ends[f]
      <3>1. p \in Peer
        BY <1>1, <1>2 DEF Peer, Stage
      <3>2. /\ p.at = "handling" /\ p.node = n
            /\ p.ID = m.NodeID /\ p.Height = m.Height
        OBVIOUS
      <3>. HIDE DEF p, m
      <3>. QED  BY <2>1, <3>1, <3>2 DEF TypeInv
    <2>. QED  BY <1>1, <1>2, <1>3, <1>5, <2>1, <2>2, <2>3, <2>4
  <1>. QED  BY <1>4, <1>5

LEMMA AdmitTypeInv ==
    ASSUME TypeInv, NEW e \in End, Admit(e)
    PROVE  TypeInv'
  <1>. DEFINE n == ends[e].node
              m == Head(wire[e])
  <1>1. /\ n \in Node /\ m.NodeID \in ID
        /\ UNCHANGED <<MaxPeers, running, height, newBlocks, events>>
    BY AdmitFacts
  <1>2. CASE HangUp(e) /\ UNCHANGED peers
    BY <1>1, <1>2, AdmitFacts, OverTypeInv
  <1>3. CASE /\ DOMAIN peers' = Node /\ peers' = [k \in Node |-> peers'[k]]
             /\ peers'[n] = WithPeer(peers[n], m.NodeID, e)
             /\ \A k \in Node : k # n => peers'[k] = peers[k]
             /\ ends' \in [End -> Peer] /\ ends'[e].node = n
             /\ \A f \in End : f # e => ends'[f] = ends[f]
             /\ wire' \in [End -> Seq(Line)] /\ \A f \in End : Len(wire'[f]) <= Buffer + 1
             /\ UNCHANGED cut
    <2>. HIDE DEF m
    <2>1. \A f \in End : ends'[f].at # "none" => ends'[f].node \in Node
      BY <1>1, <1>3 DEF TypeInv
    <2>2. IsTable(peers[n])
      BY <1>1 DEF TypeInv
    <2>3. IsTable(peers'[n])
      <3>1. IsTable(WithPeer(peers[n], m.NodeID, e))
        BY <1>1, <2>2, WithPeerFacts
      <3>2. peers'[n] = WithPeer(peers[n], m.NodeID, e)
        BY <1>3
      <3>. QED  BY <3>1, <3>2
    <2>4. \A k \in Node : IsTable(peers'[k])
      BY <1>3, <2>3 DEF TypeInv
    <2>. QED  BY <1>1, <1>3, <2>1, <2>4 DEF TypeInv
  <1>. QED  BY <1>2, <1>3, AdmitFacts

LEMMA RefuseTypeInv ==
    ASSUME TypeInv, NEW e \in End, Refuse(e)
    PROVE  TypeInv'
  BY OverTypeInv DEF Refuse

\* What is answered is a line from this end.
LEMMA AnswerFacts ==
    ASSUME TypeInv, NEW e \in End,
           OnPing(e) \/ OnGetBlocks(e) \/ OnGetPeers(e) \/ OnOther(e)
    PROVE  LET n == ends[e].node
           IN  /\ ends[e].at = "handling" /\ n \in Node
               /\ wire[e] # <<>> /\ Head(wire[e]) # Garbled
               /\ wire' \in [End -> Seq(Line)] /\ \A f \in End : Len(wire'[f]) <= Buffer + 1
               /\ wire'[e] \in AfterRead(e)
               /\ \/ wire'[Other(e)] = wire[Other(e)]
                  \/ \E line \in Line :
                        /\ wire'[Other(e)] \in AfterSend(e, line)
                        /\ Reports(line) => line.Height = height[n]
               /\ \A f \in End : f \notin {e, Other(e)} => wire'[f] = wire[f]
               /\ UNCHANGED <<MaxPeers, running, height, peers, newBlocks, ends, cut, events>>
  <1>. DEFINE n == ends[e].node
  <1>1. /\ ends[e].at = "handling" /\ n \in Node /\ height[n] \in Nat /\ 0 \in Nat
        /\ wire[e] # <<>> /\ Head(wire[e]) # Garbled
    BY DEF OnPing, OnGetBlocks, OnGetPeers, OnOther, Received, TypeInv
  <1>2. UNCHANGED <<MaxPeers, running, height, peers, newBlocks, ends, cut, events>>
    BY DEF OnPing, OnGetBlocks, OnGetPeers, OnOther, Reply
  <1>3. \A line \in Line : \A q \in AfterSend(e, line) : q \in Seq(Line) /\ Len(q) <= Buffer + 1
    BY AfterSendFacts
  <1>4. Garbled \in Line /\ ~Reports(Garbled)
    BY DEF Line, Reports
  <1>5. CASE OnPing(e)
    <2>. DEFINE line == Message("pong", n, height[n])
    <2>1. line \in Line /\ line.Height = height[n]
      BY <1>1, MessageIsLine DEF MessageType
    <2>2. Reply(e, AfterSend(e, line))
      BY <1>5 DEF OnPing
    <2>. HIDE DEF line
    <2>. QED  BY <1>1, <1>2, <1>3, <2>1, <2>2, ReplyFacts
  <1>6. CASE OnGetBlocks(e)
    <2>. DEFINE line == Message("blocks", n, height[n])
    <2>1. line \in Line /\ ~Reports(line)
      BY <1>1, MessageIsLine DEF MessageType, Reports
    <2>2. Reply(e, AfterSend(e, line) \cup AfterSend(e, Garbled))
      BY <1>6 DEF OnGetBlocks, AfterSendBlocks
    <2>. HIDE DEF line
    <2>. DEFINE after == AfterSend(e, line) \cup AfterSend(e, Garbled)
    <2>3. \A q \in after : q \in Seq(Line) /\ Len(q) <= Buffer + 1
      BY <1>3, <1>4, <2>1
    <2>4. /\ wire' \in [End -> Seq(Line)] /\ \A f \in End : Len(wire'[f]) <= Buffer + 1
          /\ wire'[e] \in AfterRead(e)
          /\ wire'[Other(e)] \in after
          /\ \A f \in End : f \notin {e, Other(e)} => wire'[f] = wire[f]
      <3>. HIDE DEF after
      <3>. QED  BY <2>2, <2>3, ReplyFacts DEF after
    <2>. QED  BY <1>1, <1>2, <1>4, <2>1, <2>4
  <1>7. CASE OnGetPeers(e)
    <2>. DEFINE line == Message("peers", n, 0)
    <2>1. line \in Line /\ ~Reports(line)
      BY <1>1, MessageIsLine DEF MessageType, Reports
    <2>2. Reply(e, AfterSend(e, line))
      BY <1>7 DEF OnGetPeers
    <2>. HIDE DEF line
    <2>. QED  BY <1>1, <1>2, <1>3, <2>1, <2>2, ReplyFacts
  <1>8. CASE OnOther(e)
    <2>1. Reply(e, {wire[Other(e)]})
      BY <1>8 DEF OnOther
    <2>2. \A q \in {wire[Other(e)]} : q \in Seq(Line) /\ Len(q) <= Buffer + 1
      BY OtherFacts DEF TypeInv
    <2>3. /\ wire' \in [End -> Seq(Line)] /\ \A f \in End : Len(wire'[f]) <= Buffer + 1
          /\ wire'[e] \in AfterRead(e)
          /\ wire'[Other(e)] \in {wire[Other(e)]}
          /\ \A f \in End : f \notin {e, Other(e)} => wire'[f] = wire[f]
      BY <2>1, <2>2, ReplyFacts
    <2>. QED  BY <1>1, <1>2, <2>3
  <1>. QED  BY <1>5, <1>6, <1>7, <1>8

LEMMA AnswerTypeInv ==
    ASSUME TypeInv, NEW e \in End,
           OnPing(e) \/ OnGetBlocks(e) \/ OnGetPeers(e) \/ OnOther(e)
    PROVE  TypeInv'
  <1>1. /\ wire' \in [End -> Seq(Line)] /\ \A f \in End : Len(wire'[f]) <= Buffer + 1
        /\ UNCHANGED <<MaxPeers, running, height, peers, newBlocks, ends, cut, events>>
    BY AnswerFacts
  <1>. QED  BY <1>1 DEF TypeInv

LEMMA OnPongFacts ==
    ASSUME TypeInv, NEW e \in End, OnPong(e)
    PROVE  /\ ends[e].at = "handling"
           /\ wire[e] # <<>> /\ Reports(Head(wire[e]))
           /\ wire' \in [End -> Seq(Line)] /\ \A f \in End : Len(wire'[f]) <= Buffer + 1
           /\ wire'[e] \in AfterRead(e)
           /\ \A f \in End : f # e => wire'[f] = wire[f] /\ ends'[f] = ends[f]
           /\ ends' \in [End -> Peer]
           /\ ends'[e].at = ends[e].at /\ ends'[e].node = ends[e].node
           /\ ends'[e].ID = ends[e].ID /\ ends'[e].Height = Head(wire[e]).Height
           /\ UNCHANGED <<MaxPeers, running, height, peers, newBlocks, cut, events>>
  <1>. DEFINE h == Head(wire[e]).Height
              p == [ends[e] EXCEPT !.Height = h]
  <1>1. /\ ends[e].at = "handling"
        /\ wire[e] # <<>> /\ Head(wire[e]) # Garbled /\ Reports(Head(wire[e]))
        /\ ends' = [ends EXCEPT ![e].Height = h]
        /\ \E r \in AfterRead(e) : wire' = [wire EXCEPT ![e] = r]
        /\ UNCHANGED <<MaxPeers, running, height, peers, newBlocks, cut, events>>
    BY DEF OnPong, Received, Reports
  <1>2. h \in Nat
    BY <1>1, HeadFacts
  <1>. HIDE DEF h
  <1>3. /\ p \in Peer /\ p.at = ends[e].at /\ p.node = ends[e].node
        /\ p.ID = ends[e].ID /\ p.Height = h
    BY <1>2 DEF TypeInv, Peer
  <1>4. ends' = [ends EXCEPT ![e] = p]
    BY <1>1
  <1>5. ends' \in [End -> Peer] /\ ends'[e] = p /\ \A f \in End : f # e => ends'[f] = ends[f]
    <2>. HIDE DEF p
    <2>. QED  BY <1>3, <1>4 DEF TypeInv
  <1>6. /\ wire' \in [End -> Seq(Line)] /\ \A f \in End : Len(wire'[f]) <= Buffer + 1
        /\ wire'[e] \in AfterRead(e)
        /\ \A f \in End : f # e => wire'[f] = wire[f]
    BY <1>1, ReadFacts
  <1>. HIDE DEF p
  <1>. QED  BY <1>1, <1>3, <1>5, <1>6 DEF h

LEMMA OnPongTypeInv ==
    ASSUME TypeInv, NEW e \in End, OnPong(e)
    PROVE  TypeInv'
  <1>1. /\ ends' \in [End -> Peer] /\ ends'[e].at = ends[e].at /\ ends'[e].node = ends[e].node
        /\ \A f \in End : f # e => ends'[f] = ends[f]
        /\ wire' \in [End -> Seq(Line)] /\ \A f \in End : Len(wire'[f]) <= Buffer + 1
        /\ UNCHANGED <<MaxPeers, running, height, peers, newBlocks, cut, events>>
    BY OnPongFacts
  <1>2. \A f \in End : ends'[f].at # "none" => ends'[f].node \in Node
    BY <1>1 DEF TypeInv
  <1>. QED  BY <1>1, <1>2 DEF TypeInv

\* The block is kept, or the goroutine waits for good.
LEMMA OnNewBlockFacts ==
    ASSUME TypeInv, NEW e \in End, OnNewBlock(e)
    PROVE  /\ ends[e].at = "handling"
           /\ wire[e] # <<>> /\ Head(wire[e]) # Garbled
           /\ wire' \in [End -> Seq(Line)] /\ \A f \in End : Len(wire'[f]) <= Buffer + 1
           /\ wire'[e] \in AfterRead(e)
           /\ \A f \in End : f # e => wire'[f] = wire[f] /\ ends'[f] = ends[f]
           /\ ends' \in [End -> Peer]
           /\ ends'[e].at \in {"handling", "stuck"} /\ ends'[e].node = ends[e].node
           /\ ends'[e].ID = ends[e].ID /\ ends'[e].Height = ends[e].Height
           /\ newBlocks' \in [Node -> 0 .. ChannelSize]
           /\ UNCHANGED <<MaxPeers, running, height, peers, cut, events>>
  <1>. DEFINE n == ends[e].node
  <1>1. /\ ends[e].at = "handling" /\ n \in Node
        /\ wire[e] # <<>> /\ Head(wire[e]) # Garbled
        /\ \E r \in AfterRead(e) : wire' = [wire EXCEPT ![e] = r]
        /\ UNCHANGED <<MaxPeers, running, height, peers, cut, events>>
    BY DEF OnNewBlock, Received, TypeInv
  <1>2. /\ wire' \in [End -> Seq(Line)] /\ \A f \in End : Len(wire'[f]) <= Buffer + 1
        /\ wire'[e] \in AfterRead(e)
        /\ \A f \in End : f # e => wire'[f] = wire[f]
    BY <1>1, ReadFacts
  <1>3. CASE newBlocks[n] < ChannelSize
    <2>1. newBlocks' = [newBlocks EXCEPT ![n] = @ + 1] /\ UNCHANGED ends
      BY <1>3 DEF OnNewBlock
    <2>2. newBlocks' \in [Node -> 0 .. ChannelSize]
      BY <1>1, <1>3, <2>1, P2PAssumption DEF TypeInv
    <2>. QED  BY <1>1, <1>2, <2>1, <2>2 DEF TypeInv
  <1>4. CASE ~(newBlocks[n] < ChannelSize)
    <2>1. ends' = [ends EXCEPT ![e].at = "stuck"] /\ UNCHANGED newBlocks
      BY <1>4 DEF OnNewBlock
    <2>2. newBlocks' \in [Node -> 0 .. ChannelSize] /\ "stuck" \in Stage
      BY <2>1 DEF TypeInv, Stage
    <2>. QED  BY <1>1, <1>2, <2>1, <2>2, NextStage
  <1>. QED  BY <1>3, <1>4

LEMMA OnNewBlockTypeInv ==
    ASSUME TypeInv, NEW e \in End, OnNewBlock(e)
    PROVE  TypeInv'
  <1>1. /\ ends[e].at = "handling"
        /\ ends' \in [End -> Peer] /\ ends'[e].node = ends[e].node
        /\ \A f \in End : f # e => ends'[f] = ends[f]
        /\ wire' \in [End -> Seq(Line)] /\ \A f \in End : Len(wire'[f]) <= Buffer + 1
        /\ newBlocks' \in [Node -> 0 .. ChannelSize]
        /\ UNCHANGED <<MaxPeers, running, height, peers, cut, events>>
    BY OnNewBlockFacts
  <1>2. \A f \in End : ends'[f].at # "none" => ends'[f].node \in Node
    BY <1>1 DEF TypeInv
  <1>. QED  BY <1>1, <1>2 DEF TypeInv

LEMMA LoopEndsTypeInv ==
    ASSUME TypeInv, NEW e \in End, LoopEnds(e)
    PROVE  TypeInv'
  <1>1. /\ ends[e].at = "handling" /\ ends' = [ends EXCEPT ![e].at = "leaving"]
        /\ UNCHANGED <<MaxPeers, running, height, peers, newBlocks, wire, cut, events>>
        /\ "leaving" \in Stage
    BY DEF LoopEnds, Stage
  <1>2. ends' \in [End -> Peer] /\ \A f \in End : ends'[f].at # "none" => ends'[f].node \in Node
    BY <1>1, NextStage DEF TypeInv
  <1>. QED  BY <1>1, <1>2 DEF TypeInv

LEMMA LeaveFacts ==
    ASSUME TypeInv, NEW e \in End, Leave(e)
    PROVE  LET n == ends[e].node
           IN  /\ ends[e].at = "leaving" /\ n \in Node
               /\ DOMAIN peers' = Node /\ peers' = [k \in Node |-> peers'[k]]
               /\ peers'[n] = WithoutPeer(peers[n], ends[e].ID)
               /\ \A k \in Node : k # n => peers'[k] = peers[k]
               /\ HangUp(e)
               /\ UNCHANGED <<MaxPeers, running, height, newBlocks, events>>
  BY DEF Leave, TypeInv

LEMMA LeaveTypeInv ==
    ASSUME TypeInv, NEW e \in End, Leave(e)
    PROVE  TypeInv'
  <1>. DEFINE n == ends[e].node
  <1>1. /\ n \in Node
        /\ DOMAIN peers' = Node /\ peers' = [k \in Node |-> peers'[k]]
        /\ peers'[n] = WithoutPeer(peers[n], ends[e].ID)
        /\ \A k \in Node : k # n => peers'[k] = peers[k]
        /\ HangUp(e)
        /\ UNCHANGED <<MaxPeers, running, height, newBlocks, events>>
    BY LeaveFacts
  <1>2. /\ ends' \in [End -> Peer] /\ cut' \in [Conn -> BOOLEAN]
        /\ ends'[e] = [ends[e] EXCEPT !.at = "ended"]
        /\ \A f \in End : f # e => ends'[f] = ends[f]
        /\ wire' \in [End -> Seq(Line)] /\ \A f \in End : Len(wire'[f]) <= Buffer + 1
    BY <1>1, HangUpFacts
  <1>3. ends'[e].node = n
    BY <1>2, StageFacts DEF TypeInv, Stage
  <1>4. \A f \in End : ends'[f].at # "none" => ends'[f].node \in Node
    BY <1>1, <1>2, <1>3 DEF TypeInv
  <1>5. \A k \in Node : IsTable(peers'[k])
    <2>1. IsTable(WithoutPeer(peers[n], ends[e].ID))
      BY <1>1, WithoutPeerFacts DEF TypeInv
    <2>. QED  BY <1>1, <2>1 DEF TypeInv
  <1>. QED  BY <1>1, <1>2, <1>4, <1>5 DEF TypeInv

LEMMA NextTypeInv == TypeInv /\ [P2PNext]_p2pVars => TypeInv'
  <1>. SUFFICES ASSUME TypeInv, [P2PNext]_p2pVars PROVE TypeInv'
    OBVIOUS
  <1>1. CASE \E n \in Node : Round(n)
    BY <1>1, RoundTypeInv
  <1>2. CASE \E n \in Stopping : Stop(n)
    BY <1>2, StopTypeInv, P2PAssumption
  <1>3. CASE handleP2PConnect
    <2>1. PICK c \in Conn : \E d \in Dials[c] : Connect(c, d[1], d[2])
      BY <1>3 DEF handleP2PConnect
    <2>2. PICK d \in Dials[c] : Connect(c, d[1], d[2])
      BY <2>1
    <2>3. d[1] \in Node /\ d[2] \in Node
      BY P2PAssumption DEF Conn
    <2>. QED  BY <2>2, <2>3, ConnectTypeInv
  <1>4. CASE \E e \in End : Goroutine(e)
    BY <1>4, AcceptTypeInv, AdmitTypeInv, RefuseTypeInv, AnswerTypeInv, OnPongTypeInv,
       OnNewBlockTypeInv, LoopEndsTypeInv, LeaveTypeInv DEF Goroutine, Handle
  <1>5. CASE \E c \in Conn : Break(c)
    BY <1>5, BreakTypeInv
  <1>6. CASE UNCHANGED p2pVars
    BY <1>6 DEF p2pVars, TypeInv
  <1>. QED  BY <1>1, <1>2, <1>3, <1>4, <1>5, <1>6 DEF P2PNext

LEMMA TypeInvGivesTypes == TypeInv => P2PTypeOK
  <1>. SUFFICES ASSUME TypeInv PROVE P2PTypeOK
    OBVIOUS
  <1>1. \A n \in Node : DOMAIN peers[n] \subseteq ID /\ Range(peers[n]) \subseteq End
    BY TableFacts DEF TypeInv
  <1>2. ASSUME NEW e \in End
        PROVE  Len(wire[e]) <= Buffer + 1 /\ Range(wire[e]) \subseteq P2PMessage \cup {Garbled}
    BY LenProperties DEF TypeInv, Range, Line
  <1>. QED  BY <1>1, <1>2 DEF TypeInv, P2PTypeOK

(***************************************************************************)
(* Type correctness, for every instance: the counters keep within their    *)
(* bounds, no connection ever holds more than one line beyond its buffer,  *)
(* and newBlocks no more than its channel does.                            *)
(***************************************************************************)
THEOREM P2PTypeCorrect == P2PSpec => []P2PTypeOK
  <1>1. P2PInit /\ [][P2PNext]_p2pVars => []TypeInv
    BY InitTypeInv, NextTypeInv, PTL
  <1>. QED  BY <1>1, TypeInvGivesTypes, PTL DEF P2PSpec

----------------------------------------------------------------------------
(***************************************************************************)
(* What a step may do at one end, whichever action it is of.               *)
(***************************************************************************)
\* The goroutine keeps its node and its peer.
Keeps(e) ==
    /\ ends'[e].node = ends[e].node /\ ends'[e].ID = ends[e].ID
    /\ ends'[e].Height = ends[e].Height

\* What is left of the lines on a connection that is gone.
Kept(q, s) ==
    /\ Len(q) <= Len(s)
    /\ \A i \in 1 .. Len(q) : q[i] = s[i] \/ q[i] = Garbled

\* Nothing is read: the lines stay, some are gone with the connection, or the
\* other end adds one.
Incoming(e) ==
    \/ wire'[e] = wire[e]
    \/ Kept(wire'[e], wire[e]) /\ cut'[e[1]]
    \/ \E line \in Line :
          /\ ~cut[e[1]]
          /\ wire'[e] = Append(wire[e], line)
          /\ LET n == ends[Other(e)].node
             IN  Reports(line) => line.Height = height[n]
          /\ \/ Registered(Other(e))
             \/ /\ ends[Other(e)].at = "backlog"
                /\ wire[e] = <<>> => line # Garbled /\ line.Type = "handshake"
                                                   /\ line.NodeID = NodeID[ends[Other(e)].node]

Rests(e) == ends'[e] = ends[e] /\ Incoming(e)

Starts(e) ==
    /\ ends[e].at = "none" /\ ends[Other(e)].at = "none"
    /\ ends'[e].at \in {"backlog", "hello"} /\ ends'[Other(e)].at # "none"
    /\ ends'[e].ID = Nobody /\ ends'[e].Height = 0
    /\ LET n == ends'[Other(e)].node
       IN  \/ ends'[Other(e)].at = "backlog" /\ wire'[e] = wire[e]
           \/ n \in Node /\ wire'[e] = <<Message("handshake", n, height[n])>>

Accepts(e) ==
    /\ ends[e].at = "backlog" /\ ends'[e].at = "hello" /\ Keeps(e)
    /\ wire'[e] = wire[e]
    /\ wire[Other(e)] = <<>> /\ ~cut[e[1]] => wire'[Other(e)] # <<>>

Reads(e) ==
    /\ wire[e] # <<>> /\ Head(wire[e]) # Garbled
    /\ wire'[e] \in AfterRead(e)
    /\ ends'[e].node = ends[e].node

Admits(e) ==
    /\ Reads(e) /\ Head(wire[e]).Type = "handshake"
    /\ ends[e].at = "hello" /\ ends'[e].at = "handling"
    /\ ends'[e].ID = Head(wire[e]).NodeID
    /\ ends'[e].Height = Head(wire[e]).Height

Handles(e) ==
    /\ Reads(e)
    /\ ends[e].at = "handling" /\ ends'[e].at \in {"handling", "stuck"}
    /\ ends'[e].ID = ends[e].ID
    /\ \/ ends'[e].Height = ends[e].Height
       \/ Reports(Head(wire[e])) /\ ends'[e].Height = Head(wire[e]).Height

Stops(e) ==
    /\ ends[e].at = "handling" /\ ends'[e].at = "leaving" /\ Keeps(e)
    /\ wire'[e] = wire[e]

Over(e) ==
    /\ ends[e].at \in {"backlog", "hello", "leaving"} /\ ends'[e].at = "ended" /\ Keeps(e)
    /\ cut'[e[1]]

EndStep(e) ==
    Rests(e) \/ Starts(e) \/ Accepts(e) \/ Admits(e) \/ Handles(e) \/ Stops(e) \/ Over(e)

\* Tables change when a goroutine enters its peer and when it deletes it.
TableStep ==
    \/ /\ UNCHANGED peers
       /\ \A e \in End : Registered(e)' <=> Registered(e)
    \/ \E e \in End :
          /\ Admits(e)
          /\ ends[e].node \in Node /\ ends'[e].ID \in ID
          /\ ~(Cardinality(DOMAIN peers[ends[e].node]) >= MaxPeers)
          /\ peers'[ends[e].node] = WithPeer(peers[ends[e].node], ends'[e].ID, e)
          /\ \A k \in Node : k # ends[e].node => peers'[k] = peers[k]
          /\ \A f \in End : f # e => ends'[f] = ends[f]
    \/ \E e \in End :
          /\ Over(e) /\ ends[e].at = "leaving" /\ ends[e].node \in Node
          /\ peers'[ends[e].node] = WithoutPeer(peers[ends[e].node], ends[e].ID)
          /\ \A k \in Node : k # ends[e].node => peers'[k] = peers[k]
          /\ \A f \in End : f # e => ends'[f] = ends[f]

StepInv ==
    /\ \A e \in End : EndStep(e)
    /\ TableStep
    /\ MaxPeers' = MaxPeers
    /\ \A c \in Conn : cut[c] => cut'[c]
    /\ \A n \in Node : height[n] <= height'[n]

\* A line that an end gets from a write of the other one.
LEMMA SentIsIncoming ==
    ASSUME TypeInv, NEW e \in End, NEW line \in Line, wire'[e] \in AfterSend(Other(e), line),
           LET n == ends[Other(e)].node
           IN  Reports(line) => line.Height = height[n],
           \/ Registered(Other(e))
           \/ /\ ends[Other(e)].at = "backlog"
              /\ line # Garbled /\ line.Type = "handshake"
              /\ line.NodeID = NodeID[ends[Other(e)].node]
    PROVE  Incoming(e)
  <1>1. Other(e) \in End /\ Other(Other(e)) = e /\ Other(e)[1] = e[1] /\ e[1] \in Conn
    BY OtherFacts
  <1>2. /\ \/ wire'[e] = wire[e]
           \/ ~cut[e[1]] /\ \E x \in {line, Garbled} : wire'[e] = Append(wire[e], x)
        /\ wire[e] = <<>> /\ ~cut[e[1]] => wire'[e] = Append(<<>>, line)
    BY <1>1, AfterSendFacts
  <1>3. CASE wire'[e] = wire[e]
    BY <1>3 DEF Incoming
  <1>4. CASE ~cut[e[1]] /\ wire'[e] = Append(wire[e], line)
    BY <1>4 DEF Incoming
  <1>5. CASE ~cut[e[1]] /\ wire'[e] = Append(wire[e], Garbled) /\ wire[e] # <<>>
    <2>1. Garbled \in Line /\ ~Reports(Garbled)
      BY DEF Line, Reports
    <2>. QED  BY <1>5, <2>1 DEF Incoming
  <1>. QED  BY <1>2, <1>3, <1>4, <1>5

LEMMA RoundStep ==
    ASSUME TypeInv, TableInv, NEW n \in Node, Round(n)
    PROVE  StepInv
  <1>1. PICK line \in Line :
            /\ ~Reports(line)
            /\ \A f \in End :
                  \/ wire'[f] = wire[f]
                  \/ Other(f) \in Range(peers[n]) /\ wire'[f] \in AfterSend(Other(f), line)
    BY RoundFacts
  <1>2. UNCHANGED <<MaxPeers, running, peers, newBlocks, ends, cut>>
    BY DEF Round
  <1>3. \A f \in Range(peers[n]) : Registered(f)
    BY DEF TableInv, TableIsLive, Range
  <1>4. ASSUME NEW e \in End
        PROVE  EndStep(e)
    <2>1. CASE wire'[e] = wire[e]
      BY <1>2, <2>1 DEF EndStep, Rests, Incoming
    <2>2. CASE Other(e) \in Range(peers[n]) /\ wire'[e] \in AfterSend(Other(e), line)
      <3>1. Incoming(e)
        BY <1>1, <1>3, <2>2, SentIsIncoming
      <3>. QED  BY <1>2, <3>1 DEF EndStep, Rests
    <2>. QED  BY <1>1, <2>1, <2>2
  <1>5. \A k \in Node : height[k] <= height'[k]
    BY DEF Round, BroadcastBlock, BroadcastTx, PingRoutine, SyncRoutine, AskPeers, TypeInv
  <1>6. TableStep
    BY <1>2 DEF TableStep, Registered
  <1>. QED  BY <1>2, <1>4, <1>5, <1>6 DEF StepInv

LEMMA StopStep ==
    ASSUME TypeInv, NEW n \in Node, Stop(n)
    PROVE  StepInv
  <1>1. /\ \A e \in End : \/ ends'[e] = ends[e]
                          \/ /\ ends[e].at = "backlog" /\ cut'[e[1]]
                             /\ ends'[e] = [ends[e] EXCEPT !.at = "ended"]
        /\ \A e \in End : wire'[e] = wire[e] \/ (wire'[e] = <<>> /\ cut'[e[1]])
        /\ \A c \in Conn : cut[c] => cut'[c]
    BY StopFacts
  <1>. \A s \in Seq(Line) : Kept(<<>>, s)
    BY DEF Kept
  <1>2. UNCHANGED <<MaxPeers, height, peers, newBlocks>> /\ wire \in [End -> Seq(Line)]
    BY DEF Stop, TypeInv
  <1>3. ASSUME NEW e \in End
        PROVE  EndStep(e) /\ (Registered(e)' <=> Registered(e))
    <2>1. CASE ends'[e] = ends[e]
      BY <1>1, <1>2, <2>1 DEF EndStep, Rests, Incoming, Registered
    <2>2. CASE /\ ends[e].at = "backlog" /\ cut'[e[1]]
               /\ ends'[e] = [ends[e] EXCEPT !.at = "ended"]
      <3>1. ends[e] \in Peer /\ "ended" \in Stage
        BY DEF TypeInv, Stage
      <3>2. ends'[e].at = "ended" /\ Keeps(e)
        BY <2>2, <3>1, StageFacts DEF Keeps
      <3>. QED  BY <2>2, <3>2 DEF EndStep, Over, Registered
    <2>. QED  BY <1>1, <2>1, <2>2
  <1>4. TableStep
    BY <1>2, <1>3 DEF TableStep
  <1>5. \A k \in Node : height[k] <= height'[k]
    BY <1>2 DEF TypeInv
  <1>. QED  BY <1>1, <1>2, <1>3, <1>4, <1>5 DEF StepInv

LEMMA BreakStep ==
    ASSUME TypeInv, NEW c \in Conn, Break(c)
    PROVE  StepInv
  <1>1. /\ UNCHANGED <<MaxPeers, height, peers, ends>>
        /\ cut' = [cut EXCEPT ![c] = TRUE]
    BY DEF Break
  <1>2. cut'[c] /\ \A d \in Conn : cut[d] => cut'[d]
    BY <1>1 DEF TypeInv
  <1>3. \A e \in End : Incoming(e)
    BY BreakFacts DEF Incoming, Kept
  <1>4. \A e \in End : EndStep(e)
    BY <1>1, <1>3 DEF EndStep, Rests
  <1>5. TableStep
    BY <1>1 DEF TableStep, Registered
  <1>6. \A k \in Node : height[k] <= height'[k]
    BY <1>1 DEF TypeInv
  <1>. QED  BY <1>1, <1>2, <1>4, <1>5, <1>6 DEF StepInv

LEMMA StutterStep ==
    ASSUME TypeInv, UNCHANGED p2pVars
    PROVE  StepInv
  <1>1. UNCHANGED <<MaxPeers, height, peers, ends, wire, cut>>
    BY DEF p2pVars
  <1>2. \A e \in End : EndStep(e)
    BY <1>1 DEF EndStep, Rests, Incoming
  <1>3. TableStep
    BY <1>1 DEF TableStep, Registered
  <1>4. \A k \in Node : height[k] <= height'[k]
    BY <1>1 DEF TypeInv
  <1>. QED  BY <1>1, <1>2, <1>3, <1>4 DEF StepInv

LEMMA ConnectStep ==
    ASSUME TypeInv, HandshakeInv, NEW c \in Conn, NEW n \in Node, NEW m \in Node, Connect(c, n, m)
    PROVE  StepInv
  <1>. DEFINE e == <<c, "dialer">>
  <1>1. /\ e \in End /\ ends[e].at = "none"
        /\ ends'[e] = NewPeer("hello", n)
        /\ ends'[Other(e)] = NewPeer("backlog", m)
        /\ wire'[e] = wire[e]
        /\ wire'[Other(e)] = <<Message("handshake", n, height[n])>>
        /\ \A f \in End \ {e, Other(e)} : ends'[f] = ends[f] /\ wire'[f] = wire[f]
        /\ UNCHANGED <<MaxPeers, running, height, peers, newBlocks, cut, events>>
    BY ConnectFacts
  <1>. HIDE DEF e
  <1>2. /\ Other(e) \in End /\ Other(Other(e)) = e /\ ends[Other(e)].at = "none"
    BY <1>1, OtherFacts DEF HandshakeInv
  <1>3. /\ ends'[e].at = "hello" /\ ends'[e].ID = Nobody /\ ends'[e].Height = 0
        /\ ends'[e].node = n
        /\ ends'[Other(e)].at = "backlog" /\ ends'[Other(e)].ID = Nobody
        /\ ends'[Other(e)].Height = 0
    BY <1>1 DEF NewPeer
  <1>4. Starts(e) /\ Starts(Other(e))
    BY <1>1, <1>2, <1>3 DEF Starts
  <1>5. ASSUME NEW f \in End
        PROVE  EndStep(f) /\ (Registered(f)' <=> Registered(f))
    <2>1. CASE f \in {e, Other(e)}
      BY <1>1, <1>2, <1>3, <1>4, <2>1 DEF EndStep, Registered
    <2>2. CASE f \notin {e, Other(e)}
      BY <1>1, <2>2 DEF EndStep, Rests, Incoming, Registered
    <2>. QED  BY <2>1, <2>2
  <1>6. TableStep
    BY <1>1, <1>5 DEF TableStep
  <1>7. \A k \in Node : height[k] <= height'[k]
    BY <1>1 DEF TypeInv
  <1>. QED  BY <1>1, <1>5, <1>6, <1>7 DEF StepInv

\* Every other end stays as it is while one is over.
LEMMA HangUpStep ==
    ASSUME TypeInv, NEW e \in End, HangUp(e), ends[e].at \in {"backlog", "hello", "leaving"}
    PROVE  /\ Over(e)
           /\ \A f \in End : EndStep(f)
           /\ \A f \in End : f # e => ends'[f] = ends[f]
           /\ \A c \in Conn : cut[c] => cut'[c]
  <1>1. /\ ends'[e] = [ends[e] EXCEPT !.at = "ended"]
        /\ \A f \in End : f # e => ends'[f] = ends[f] /\ wire'[f] = wire[f]
        /\ cut'[e[1]]
        /\ \A c \in Conn : cut[c] => cut'[c]
    BY HangUpFacts
  <1>2. ends'[e].at = "ended" /\ Keeps(e)
    <2>1. ends[e] \in Peer /\ "ended" \in Stage
      BY DEF TypeInv, Stage
    <2>. QED  BY <1>1, <2>1, StageFacts DEF Keeps
  <1>3. Over(e)
    BY <1>1, <1>2 DEF Over
  <1>. QED  BY <1>1, <1>3 DEF EndStep, Rests, Incoming

\* A goroutine is over before it has entered its peer.
LEMMA GivesUpStep ==
    ASSUME TypeInv, NEW e \in End, HangUp(e), ends[e].at \in {"backlog", "hello"},
           UNCHANGED <<MaxPeers, running, height, peers, newBlocks, events>>
    PROVE  StepInv
  <1>1. /\ Over(e)
        /\ \A f \in End : EndStep(f)
        /\ \A f \in End : f # e => ends'[f] = ends[f]
        /\ \A c \in Conn : cut[c] => cut'[c]
    BY HangUpStep
  <1>2. TableStep
    BY <1>1 DEF TableStep, Over, Registered
  <1>3. \A k \in Node : height[k] <= height'[k]
    BY DEF TypeInv
  <1>. QED  BY <1>1, <1>2, <1>3 DEF StepInv

LEMMA RefuseStep ==
    ASSUME TypeInv, NEW e \in End, Refuse(e)
    PROVE  StepInv
  BY GivesUpStep DEF Refuse

LEMMA AcceptStep ==
    ASSUME TypeInv, NEW e \in End, Accept(e)
    PROVE  StepInv
  <1>. SUFFICES ASSUME ~HangUp(e) PROVE StepInv
    BY GivesUpStep DEF Accept
  <1>. DEFINE n    == ends[e].node
              line == Message("handshake", n, height[n])
  <1>1. /\ n \in Node /\ line \in Line
        /\ wire'[Other(e)] \in AfterSend(e, line)
        /\ \A f \in End : f # Other(e) => wire'[f] = wire[f]
        /\ ends[e].at = "backlog"
        /\ ends' = [ends EXCEPT ![e].at = "hello"]
        /\ UNCHANGED <<MaxPeers, running, height, peers, newBlocks, cut, events>>
    BY AcceptFacts
  <1>2. "hello" \in Stage
    BY DEF Stage
  <1>3. /\ ends'[e].at = "hello" /\ Keeps(e)
        /\ \A f \in End : f # e => ends'[f] = ends[f]
    BY <1>1, <1>2, NextStage DEF Keeps
  <1>4. /\ Other(e) \in End /\ Other(Other(e)) = e /\ Other(e) # e /\ Other(e)[1] = e[1]
    BY OtherFacts
  <1>5. /\ line # Garbled /\ line.Type = "handshake"
        /\ line.NodeID = NodeID[n] /\ line.Height = height[n]
    BY <1>1, MessageIsLine DEF MessageType, TypeInv
  <1>. HIDE DEF line
  <1>6. wire[Other(e)] = <<>> /\ ~cut[e[1]] => wire'[Other(e)] # <<>>
    <2>1. wire[Other(e)] = <<>> /\ ~cut[e[1]] => wire'[Other(e)] = Append(<<>>, line)
      BY <1>1, AfterSendFacts
    <2>2. Append(<<>>, line) # <<>>
      BY <1>1
    <2>. QED  BY <2>1, <2>2
  <1>7. Incoming(Other(e))
    BY <1>1, <1>4, <1>5, SentIsIncoming
  <1>8. ASSUME NEW f \in End
        PROVE  EndStep(f) /\ (Registered(f)' <=> Registered(f))
    <2>1. CASE f = e
      BY <1>1, <1>3, <1>4, <1>6, <2>1 DEF EndStep, Accepts, Registered
    <2>2. CASE f = Other(e)
      BY <1>3, <1>4, <1>7, <2>2 DEF EndStep, Rests, Registered
    <2>3. CASE f \notin {e, Other(e)}
      BY <1>1, <1>3, <2>3 DEF EndStep, Rests, Incoming, Registered
    <2>. QED  BY <2>1, <2>2, <2>3
  <1>9. TableStep
    BY <1>1, <1>8 DEF TableStep
  <1>10. \A k \in Node : height[k] <= height'[k]
    BY <1>1 DEF TypeInv
  <1>. QED  BY <1>1, <1>8, <1>9, <1>10 DEF StepInv

LEMMA LeaveStep ==
    ASSUME TypeInv, NEW e \in End, Leave(e)
    PROVE  StepInv
  <1>1. /\ ends[e].at = "leaving" /\ ends[e].node \in Node
        /\ peers'[ends[e].node] = WithoutPeer(peers[ends[e].node], ends[e].ID)
        /\ \A k \in Node : k # ends[e].node => peers'[k] = peers[k]
        /\ HangUp(e)
        /\ UNCHANGED <<MaxPeers, running, height, newBlocks, events>>
    BY LeaveFacts
  <1>2. /\ Over(e)
        /\ \A f \in End : EndStep(f)
        /\ \A f \in End : f # e => ends'[f] = ends[f]
        /\ \A c \in Conn : cut[c] => cut'[c]
    BY <1>1, HangUpStep
  <1>3. TableStep
    BY <1>1, <1>2 DEF TableStep
  <1>4. \A k \in Node : height[k] <= height'[k]
    BY <1>1 DEF TypeInv
  <1>. QED  BY <1>1, <1>2, <1>3, <1>4 DEF StepInv

LEMMA AdmitStep ==
    ASSUME TypeInv, NEW e \in End, Admit(e)
    PROVE  StepInv
  <1>. DEFINE n == ends[e].node
              m == Head(wire[e])
  <1>1. /\ ends[e].at = "hello" /\ n \in Node
        /\ m.NodeID \in ID
        /\ m # Garbled /\ m.Type = "handshake" /\ wire[e] # <<>>
        /\ UNCHANGED <<MaxPeers, running, height, newBlocks, events>>
    BY AdmitFacts
  <1>2. \A k \in Node : height[k] <= height'[k]
    BY <1>1 DEF TypeInv
  <1>3. CASE HangUp(e) /\ UNCHANGED peers
    <2>1. /\ Over(e)
          /\ \A f \in End : EndStep(f)
          /\ \A f \in End : f # e => ends'[f] = ends[f]
          /\ \A c \in Conn : cut[c] => cut'[c]
      BY <1>1, <1>3, HangUpStep
    <2>2. TableStep
      BY <1>1, <1>3, <2>1 DEF TableStep, Over, Registered
    <2>. QED  BY <1>1, <1>2, <2>1, <2>2 DEF StepInv
  <1>4. CASE /\ ~(Cardinality(DOMAIN peers[n]) >= MaxPeers)
             /\ peers'[n] = WithPeer(peers[n], m.NodeID, e)
             /\ \A k \in Node : k # n => peers'[k] = peers[k]
             /\ ends'[e].at = "handling" /\ ends'[e].node = n
             /\ ends'[e].ID = m.NodeID /\ ends'[e].Height = m.Height
             /\ \A f \in End : f # e => ends'[f] = ends[f]
             /\ wire'[e] \in AfterRead(e)
             /\ \A f \in End : f # e => wire'[f] = wire[f]
             /\ UNCHANGED cut
    <2>1. Admits(e)
      BY <1>1, <1>4 DEF Admits, Reads
    <2>. HIDE DEF m
    <2>2. \A f \in End : EndStep(f)
      BY <1>4, <2>1 DEF EndStep, Rests, Incoming
    <2>3. TableStep
      BY <1>1, <1>4, <2>1 DEF TableStep
    <2>. QED  BY <1>1, <1>2, <1>4, <2>2, <2>3 DEF StepInv
  <1>. QED  BY <1>3, <1>4, AdmitFacts

LEMMA AnswerStep ==
    ASSUME TypeInv, NEW e \in End,
           OnPing(e) \/ OnGetBlocks(e) \/ OnGetPeers(e) \/ OnOther(e)
    PROVE  StepInv
  <1>1. /\ ends[e].at = "handling"
        /\ wire[e] # <<>> /\ Head(wire[e]) # Garbled
        /\ wire'[e] \in AfterRead(e)
        /\ \/ wire'[Other(e)] = wire[Other(e)]
           \/ \E line \in Line :
                 /\ wire'[Other(e)] \in AfterSend(e, line)
                 /\ Reports(line) => line.Height = height[ends[e].node]
        /\ \A f \in End : f \notin {e, Other(e)} => wire'[f] = wire[f]
        /\ UNCHANGED <<MaxPeers, running, height, peers, newBlocks, ends, cut, events>>
    BY AnswerFacts
  <1>2. Other(e) \in End /\ Other(Other(e)) = e /\ Other(e) # e
    BY OtherFacts
  <1>3. Handles(e)
    BY <1>1 DEF Handles, Reads
  <1>4. Incoming(Other(e))
    <2>1. CASE wire'[Other(e)] = wire[Other(e)]
      BY <2>1 DEF Incoming
    <2>2. CASE wire'[Other(e)] # wire[Other(e)]
      <3>1. PICK line \in Line :
                /\ wire'[Other(e)] \in AfterSend(e, line)
                /\ Reports(line) => line.Height = height[ends[e].node]
        BY <1>1, <2>2
      <3>2. Registered(e)
        BY <1>1 DEF Registered
      <3>. QED  BY <1>2, <3>1, <3>2, SentIsIncoming
    <2>. QED  BY <2>1, <2>2
  <1>5. \A f \in End : EndStep(f)
    <2>1. EndStep(e)
      BY <1>3 DEF EndStep
    <2>2. EndStep(Other(e))
      BY <1>1, <1>4 DEF EndStep, Rests
    <2>3. \A f \in End : f \notin {e, Other(e)} => EndStep(f)
      BY <1>1 DEF EndStep, Rests, Incoming
    <2>. QED  BY <2>1, <2>2, <2>3
  <1>6. TableStep
    BY <1>1 DEF TableStep, Registered
  <1>7. \A k \in Node : height[k] <= height'[k]
    BY <1>1 DEF TypeInv
  <1>. QED  BY <1>1, <1>5, <1>6, <1>7 DEF StepInv

LEMMA TakeStep ==
    ASSUME TypeInv, NEW e \in End, OnPong(e) \/ OnNewBlock(e)
    PROVE  StepInv
  <1>1. /\ ends[e].at = "handling" /\ ends'[e].at \in {"handling", "stuck"}
        /\ wire[e] # <<>> /\ Head(wire[e]) # Garbled
        /\ wire'[e] \in AfterRead(e)
        /\ ends'[e].node = ends[e].node /\ ends'[e].ID = ends[e].ID
        /\ \/ ends'[e].Height = ends[e].Height
           \/ Reports(Head(wire[e])) /\ ends'[e].Height = Head(wire[e]).Height
        /\ \A f \in End : f # e => wire'[f] = wire[f] /\ ends'[f] = ends[f]
        /\ UNCHANGED <<MaxPeers, running, height, peers, cut, events>>
    BY OnPongFacts, OnNewBlockFacts DEF Reports
  <1>2. Handles(e)
    BY <1>1 DEF Handles, Reads
  <1>3. \A f \in End : EndStep(f)
    BY <1>1, <1>2 DEF EndStep, Rests, Incoming
  <1>4. TableStep
    BY <1>1 DEF TableStep, Registered
  <1>5. \A k \in Node : height[k] <= height'[k]
    BY <1>1 DEF TypeInv
  <1>. QED  BY <1>1, <1>3, <1>4, <1>5 DEF StepInv

LEMMA LoopEndsStep ==
    ASSUME TypeInv, NEW e \in End, LoopEnds(e)
    PROVE  StepInv
  <1>1. /\ ends[e].at = "handling" /\ ends' = [ends EXCEPT ![e].at = "leaving"]
        /\ UNCHANGED <<MaxPeers, running, height, peers, newBlocks, wire, cut, events>>
        /\ "leaving" \in Stage
    BY DEF LoopEnds, Stage
  <1>2. /\ ends'[e].at = "leaving" /\ Keeps(e)
        /\ \A f \in End : f # e => ends'[f] = ends[f]
    BY <1>1, NextStage DEF Keeps
  <1>3. \A f \in End : EndStep(f) /\ (Registered(f)' <=> Registered(f))
    BY <1>1, <1>2 DEF EndStep, Stops, Rests, Incoming, Registered
  <1>4. TableStep
    BY <1>1, <1>3 DEF TableStep
  <1>5. \A k \in Node : height[k] <= height'[k]
    BY <1>1 DEF TypeInv
  <1>. QED  BY <1>1, <1>3, <1>4, <1>5 DEF StepInv

LEMMA NextIsStep == TypeInv /\ TableInv /\ HandshakeInv /\ [P2PNext]_p2pVars => StepInv
  <1>. SUFFICES ASSUME TypeInv, TableInv, HandshakeInv, [P2PNext]_p2pVars PROVE StepInv
    OBVIOUS
  <1>1. CASE \E n \in Node : Round(n)
    BY <1>1, RoundStep
  <1>2. CASE \E n \in Stopping : Stop(n)
    BY <1>2, StopStep, P2PAssumption
  <1>3. CASE handleP2PConnect
    <2>1. PICK c \in Conn : \E d \in Dials[c] : Connect(c, d[1], d[2])
      BY <1>3 DEF handleP2PConnect
    <2>2. PICK d \in Dials[c] : Connect(c, d[1], d[2])
      BY <2>1
    <2>3. d[1] \in Node /\ d[2] \in Node
      BY P2PAssumption DEF Conn
    <2>. QED  BY <2>2, <2>3, ConnectStep
  <1>4. CASE \E e \in End : Goroutine(e)
    BY <1>4, AcceptStep, AdmitStep, RefuseStep, AnswerStep, TakeStep, LoopEndsStep, LeaveStep
       DEF Goroutine, Handle
  <1>5. CASE \E c \in Conn : Break(c)
    BY <1>5, BreakStep
  <1>6. CASE UNCHANGED p2pVars
    BY <1>6, StutterStep
  <1>. QED  BY <1>1, <1>2, <1>3, <1>4, <1>5, <1>6 DEF P2PNext

----------------------------------------------------------------------------
(***************************************************************************)
(* The table.                                                              *)
(***************************************************************************)
LEMMA InitTableInv == P2PInit => TableInv
  <1>. SUFFICES ASSUME P2PInit PROVE TableInv
    OBVIOUS
  <1>1. \A n \in Node : DOMAIN peers[n] = {}
    BY TableFacts DEF P2PInit
  <1>2. \A n \in Node : Cardinality(DOMAIN peers[n]) <= MaxPeers
    BY <1>1, FS_EmptySet, P2PAssumption DEF P2PInit
  <1>3. \A e \in End : ends[e].at = "none" /\ ends[e].ID = Nobody
    BY DEF P2PInit, Unused, NewPeer
  <1>. QED  BY <1>1, <1>2, <1>3 DEF TableInv, TableIsLive, Registered

\* An end keeps its node and the ID of its peer, once it has them.
LEMMA IdentityStays ==
    ASSUME TypeInv, TableInv, NEW e \in End, EndStep(e)
    PROVE  /\ ends[e].at # "none" => ends'[e].node = ends[e].node /\ ends'[e].at # "none"
           /\ Registered(e) => ends'[e].ID = ends[e].ID
           /\ ends'[e].at \in {"none", "backlog", "hello"} => ends'[e].ID = Nobody
           /\ Registered(e)' => Registered(e) \/ Admits(e)
           /\ Registered(e) => Registered(e)' \/ (ends[e].at = "leaving" /\ Over(e))
           /\ ends'[e].at \in {"handling", "stuck"} => ends[e].at \in {"handling", "stuck"} \/ Admits(e)
  <1>. USE DEF TableInv, Registered
  <1>1. CASE Rests(e)
    BY <1>1 DEF Rests
  <1>2. CASE Starts(e)
    BY <1>2 DEF Starts
  <1>3. CASE Accepts(e)
    BY <1>3 DEF Accepts, Keeps
  <1>4. CASE Admits(e)
    BY <1>4 DEF Admits, Reads
  <1>5. CASE Handles(e)
    BY <1>5 DEF Handles, Reads
  <1>6. CASE Stops(e)
    BY <1>6 DEF Stops, Keeps
  <1>7. CASE Over(e)
    BY <1>7 DEF Over, Keeps
  <1>. QED  BY <1>1, <1>2, <1>3, <1>4, <1>5, <1>6, <1>7 DEF EndStep

\* A goroutine that knows its peer has a node, and no step lets it forget.
LEMMA StepKnowsPeer ==
    ASSUME TypeInv, TableInv, StepInv
    PROVE  \A e \in End :
              /\ ends'[e].at \in {"none", "backlog", "hello"} => ends'[e].ID = Nobody
              /\ Registered(e)' => ends'[e].ID \in ID
  <1>. SUFFICES ASSUME NEW e \in End
                PROVE  /\ ends'[e].at \in {"none", "backlog", "hello"} => ends'[e].ID = Nobody
                       /\ Registered(e)' => ends'[e].ID \in ID
    OBVIOUS
  <1>1. EndStep(e)
    BY DEF StepInv
  <1>2. Admits(e) => ends'[e].ID \in ID
    BY HeadFacts DEF Admits, Reads
  <1>. QED  BY <1>1, <1>2, IdentityStays DEF TableInv

\* A step that changes no table.
LEMMA SameTables ==
    ASSUME TypeInv, TableInv, StepInv,
           UNCHANGED peers, \A e \in End : Registered(e)' <=> Registered(e)
    PROVE  TableIsLive'
  <1>1. \A e \in End : EndStep(e)
    BY DEF StepInv
  <1>2. MaxPeers' = MaxPeers
    BY DEF StepInv
  <1>3. ASSUME NEW n \in Node, NEW id \in DOMAIN peers[n]
        PROVE  LET e == peers[n][id]
               IN  ends'[e].at \in {"handling", "stuck", "leaving"} /\ ends'[e].node = n /\ ends'[e].ID = id
    <2>. PICK e : e = peers[n][id]
      OBVIOUS
    <2>1. e \in End /\ Registered(e) /\ ends[e].node = n /\ ends[e].ID = id /\ ends[e].at # "none"
      BY TableFacts DEF TypeInv, TableInv, TableIsLive, Registered, Range
    <2>2. Registered(e)' /\ ends'[e].node = n /\ ends'[e].ID = id
      <3>1. EndStep(e)
        BY <1>1, <2>1
      <3>2. ~(ends[e].at = "leaving" /\ Over(e))
        BY <2>1 DEF Over, Registered
      <3>. QED  BY <2>1, <3>1, <3>2, IdentityStays
    <2>. QED  BY <2>2 DEF Registered
  <1>4. ASSUME NEW e \in End, ends'[e].at \in {"handling", "stuck"}, ~InTable(e)'
        PROVE  \E f \in End \ {e} : ends'[f].node = ends'[e].node /\ ends'[f].ID = ends'[e].ID
    <2>1. ~Admits(e)
      BY <1>4 DEF Admits, Registered
    <2>2. /\ ends[e].at \in {"handling", "stuck"} /\ Registered(e)
          /\ ends'[e].node = ends[e].node /\ ends'[e].ID = ends[e].ID
      BY <1>1, <1>4, <2>1, IdentityStays DEF Registered
    <2>3. ~InTable(e)
      BY <1>4, <2>2 DEF InTable
    <2>4. PICK f \in End \ {e} : ends[f].node = ends[e].node /\ ends[f].ID = ends[e].ID
      BY <2>2, <2>3 DEF TableInv, TableIsLive
    <2>5. ends[f].at \notin {"none", "backlog", "hello"}
      BY <2>2, <2>4, P2PAssumption DEF TableInv
    <2>6. ends'[f].node = ends[f].node /\ ends'[f].ID = ends[f].ID
      <3>1. EndStep(f)
        BY <1>1
      <3>. QED  BY <2>5, <3>1 DEF EndStep, Rests, Starts, Accepts, Admits, Handles, Reads, Stops,
                                  Over, Keeps
    <2>. QED  BY <2>2, <2>4, <2>6
  <1>5. \A n \in Node : Cardinality(DOMAIN peers'[n]) <= MaxPeers'
    BY <1>2 DEF TableInv, TableIsLive
  <1>. QED  BY <1>3, <1>4, <1>5 DEF TableIsLive, Registered

\* An entry is added, or replaces one of the same ID.
LEMMA AdmitTables ==
    ASSUME TypeInv, TableInv, MaxPeers' = MaxPeers, NEW e \in End,
           Admits(e),
           ends[e].node \in Node, ends'[e].ID \in ID,
           ~(Cardinality(DOMAIN peers[ends[e].node]) >= MaxPeers),
           peers'[ends[e].node] = WithPeer(peers[ends[e].node], ends'[e].ID, e),
           \A k \in Node : k # ends[e].node => peers'[k] = peers[k],
           \A f \in End : f # e => ends'[f] = ends[f]
    PROVE  TableIsLive'
  <1>. DEFINE n == ends[e].node
              i == ends'[e].ID
              t == peers[n]
              u == peers'[n]
  <1>1. /\ ends[e].at = "hello" /\ ends[e].ID = Nobody /\ ~Registered(e)
        /\ ends'[e].at = "handling" /\ ends'[e].node = n /\ Registered(e)'
    BY DEF Admits, Reads, TableInv, Registered
  <1>2. /\ IsFiniteSet(DOMAIN t) /\ DOMAIN u = DOMAIN t \cup {i}
        /\ \A j \in DOMAIN t \cup {i} : u[j] = IF j = i THEN e ELSE t[j]
    <2>1. IsTable(t)
      BY DEF TypeInv
    <2>2. u = WithPeer(t, i, e) /\ i \in ID
      OBVIOUS
    <2>. HIDE DEF t, u, i
    <2>3. /\ IsFiniteSet(DOMAIN t) /\ DOMAIN WithPeer(t, i, e) = DOMAIN t \cup {i}
          /\ \A j \in DOMAIN t \cup {i} : WithPeer(t, i, e)[j] = IF j = i THEN e ELSE t[j]
      <3>1. IsFiniteSet(DOMAIN t)
        BY <2>1, <2>2, WithPeerFacts
      <3>. QED  BY <3>1 DEF WithPeer
    <2>. QED  BY <2>2, <2>3
  <1>3. ASSUME NEW k \in Node
        PROVE  Cardinality(DOMAIN peers'[k]) <= MaxPeers
    <2>1. CASE k # n
      BY <2>1 DEF TableInv, TableIsLive
    <2>2. CASE k = n
      <3>1. Cardinality(DOMAIN t) \in Nat /\ MaxPeers \in Nat
        BY <1>2, FS_CardinalityType, P2PAssumption DEF TypeInv
      <3>2. Cardinality(DOMAIN t) + 1 <= MaxPeers
        BY <3>1
      <3>3. Cardinality(DOMAIN u) <= Cardinality(DOMAIN t) + 1
        <4>1. Cardinality(DOMAIN t \cup {i})
                = IF i \in DOMAIN t THEN Cardinality(DOMAIN t) ELSE Cardinality(DOMAIN t) + 1
          BY <1>2, FS_AddElement
        <4>. QED  BY <1>2, <3>1, <4>1
      <3>4. Cardinality(DOMAIN u) \in Nat
        BY <1>2, FS_AddElement, FS_CardinalityType
      <3>. HIDE DEF t, u
      <3>. QED  BY <2>2, <3>1, <3>2, <3>3, <3>4 DEF u
    <2>. QED  BY <2>1, <2>2
  <1>4. ASSUME NEW k \in Node, NEW j \in DOMAIN peers'[k]
        PROVE  LET f == peers'[k][j]
               IN  ends'[f].at \in {"handling", "stuck", "leaving"} /\ ends'[f].node = k /\ ends'[f].ID = j
    <2>1. CASE k = n /\ j = i
      BY <1>1, <1>2, <2>1 DEF Registered
    <2>2. CASE ~(k = n /\ j = i)
      <3>. DEFINE f == peers[k][j]
      <3>1. j \in DOMAIN peers[k] /\ peers'[k][j] = f
        BY <1>2, <1>4, <2>2
      <3>2. Registered(f) /\ ends[f].node = k /\ ends[f].ID = j /\ f \in End
        BY <3>1, TableFacts DEF TypeInv, TableInv, TableIsLive, Range
      <3>3. ends'[f] = ends[f]
        BY <1>1, <3>2
      <3>. QED  BY <3>1, <3>2, <3>3 DEF Registered
    <2>. QED  BY <2>1, <2>2
  <1>5. ASSUME NEW g \in End, ends'[g].at \in {"handling", "stuck"}, ~InTable(g)'
        PROVE  \E f \in End \ {g} : ends'[f].node = ends'[g].node /\ ends'[f].ID = ends'[g].ID
    <2>1. g # e
      <3>1. e \in Range(u)
        BY <1>2 DEF Range
      <3>. QED  BY <1>1, <1>5, <3>1 DEF InTable
    <2>2. ends'[g] = ends[g] /\ ends[g].ID \in ID
      BY <1>5, <2>1 DEF TableInv, Registered
    <2>3. CASE InTable(g)
      <3>1. ends[g].node \in Node
        BY <1>5, <2>2 DEF TypeInv
      <3>2. PICK j \in DOMAIN peers[ends[g].node] : peers[ends[g].node][j] = g
        BY <2>3 DEF InTable, Range
      <3>3. ends[g].ID = j
        BY <3>1, <3>2 DEF TableInv, TableIsLive
      <3>4. CASE ends[g].node = n /\ j = i
        BY <1>1, <2>1, <2>2, <3>3, <3>4
      <3>5. CASE ~(ends[g].node = n /\ j = i)
        <4>1. j \in DOMAIN peers'[ends[g].node] /\ peers'[ends[g].node][j] = g
          BY <1>2, <3>1, <3>2, <3>5
        <4>. QED  BY <1>5, <2>2, <4>1 DEF InTable, Range
      <3>. QED  BY <3>4, <3>5
    <2>4. CASE ~InTable(g)
      <3>1. PICK f \in End \ {g} : ends[f].node = ends[g].node /\ ends[f].ID = ends[g].ID
        BY <1>5, <2>2, <2>4 DEF TableInv, TableIsLive
      <3>2. f # e
        BY <1>1, <2>2, <3>1, P2PAssumption
      <3>. QED  BY <2>2, <3>1, <3>2
    <2>. QED  BY <2>3, <2>4
  <1>. QED  BY <1>3, <1>4, <1>5 DEF TableIsLive, Registered

\* An entry is deleted, whichever connection it is for.
LEMMA LeaveTables ==
    ASSUME TypeInv, TableInv, MaxPeers' = MaxPeers, NEW e \in End,
           Over(e), ends[e].at = "leaving", ends[e].node \in Node,
           peers'[ends[e].node] = WithoutPeer(peers[ends[e].node], ends[e].ID),
           \A k \in Node : k # ends[e].node => peers'[k] = peers[k],
           \A f \in End : f # e => ends'[f] = ends[f]
    PROVE  TableIsLive'
  <1>. DEFINE n == ends[e].node
              i == ends[e].ID
              t == peers[n]
              u == peers'[n]
  <1>1. ends'[e].at = "ended" /\ ends'[e].node = n /\ ends'[e].ID = i
    BY DEF Over, Keeps
  <1>2. /\ IsFiniteSet(DOMAIN t) /\ DOMAIN u = DOMAIN t \ {i}
        /\ \A j \in DOMAIN t \ {i} : u[j] = t[j]
    <2>1. IsTable(t)
      BY DEF TypeInv
    <2>2. u = WithoutPeer(t, i)
      OBVIOUS
    <2>. HIDE DEF t, u, i
    <2>3. /\ IsFiniteSet(DOMAIN t) /\ DOMAIN WithoutPeer(t, i) = DOMAIN t \ {i}
          /\ \A j \in DOMAIN t \ {i} : WithoutPeer(t, i)[j] = t[j]
      BY <2>1, WithoutPeerFacts
    <2>. QED  BY <2>2, <2>3
  <1>3. ASSUME NEW k \in Node
        PROVE  Cardinality(DOMAIN peers'[k]) <= MaxPeers
    <2>1. CASE k # n
      BY <2>1 DEF TableInv, TableIsLive
    <2>2. CASE k = n
      <3>1. /\ Cardinality(DOMAIN u) <= Cardinality(DOMAIN t)
            /\ Cardinality(DOMAIN u) \in Nat /\ Cardinality(DOMAIN t) \in Nat
        <4>1. DOMAIN u \in SUBSET DOMAIN t
          BY <1>2
        <4>. QED  BY <1>2, <4>1, FS_Subset, FS_CardinalityType
      <3>2. Cardinality(DOMAIN t) <= MaxPeers /\ MaxPeers \in Nat
        BY P2PAssumption DEF TypeInv, TableInv, TableIsLive
      <3>. HIDE DEF t, u
      <3>. QED  BY <2>2, <3>1, <3>2 DEF u
    <2>. QED  BY <2>1, <2>2
  <1>4. ASSUME NEW k \in Node, NEW j \in DOMAIN peers'[k]
        PROVE  LET f == peers'[k][j]
               IN  ends'[f].at \in {"handling", "stuck", "leaving"} /\ ends'[f].node = k /\ ends'[f].ID = j
    <2>. DEFINE f == peers[k][j]
    <2>1. j \in DOMAIN peers[k] /\ peers'[k][j] = f /\ ~(k = n /\ j = i)
      BY <1>2, <1>4
    <2>2. Registered(f) /\ ends[f].node = k /\ ends[f].ID = j /\ f \in End
      BY <2>1, TableFacts DEF TypeInv, TableInv, TableIsLive, Range
    <2>3. ends'[f] = ends[f]
      BY <2>1, <2>2
    <2>. QED  BY <2>1, <2>2, <2>3 DEF Registered
  <1>5. ASSUME NEW g \in End, ends'[g].at \in {"handling", "stuck"}, ~InTable(g)'
        PROVE  \E f \in End \ {g} : ends'[f].node = ends'[g].node /\ ends'[f].ID = ends'[g].ID
    <2>1. g # e
      BY <1>1, <1>5
    <2>2. ends'[g] = ends[g]
      BY <2>1
    <2>3. CASE InTable(g)
      <3>1. ends[g].node \in Node
        BY <1>5, <2>2 DEF TypeInv
      <3>2. PICK j \in DOMAIN peers[ends[g].node] : peers[ends[g].node][j] = g
        BY <2>3 DEF InTable, Range
      <3>3. ends[g].ID = j
        BY <3>1, <3>2 DEF TableInv, TableIsLive
      <3>4. CASE ends[g].node = n /\ j = i
        BY <1>1, <2>1, <2>2, <3>3, <3>4
      <3>5. CASE ~(ends[g].node = n /\ j = i)
        <4>1. j \in DOMAIN peers'[ends[g].node] /\ peers'[ends[g].node][j] = g
          BY <1>2, <3>1, <3>2, <3>5
        <4>. QED  BY <1>5, <2>2, <4>1 DEF InTable, Range
      <3>. QED  BY <3>4, <3>5
    <2>4. CASE ~InTable(g)
      <3>1. PICK f \in End \ {g} : ends[f].node = ends[g].node /\ ends[f].ID = ends[g].ID
        BY <1>5, <2>2, <2>4 DEF TableInv, TableIsLive
      <3>. QED  BY <1>1, <2>2, <3>1
    <2>. QED  BY <2>3, <2>4
  <1>. QED  BY <1>3, <1>4, <1>5 DEF TableIsLive, Registered

LEMMA NextTableInv == TypeInv /\ TableInv /\ StepInv => TableInv'
  <1>. SUFFICES ASSUME TypeInv, TableInv, StepInv PROVE TableInv'
    OBVIOUS
  <1>1. TableIsLive'
    BY SameTables, AdmitTables, LeaveTables DEF StepInv, TableStep
  <1>. QED  BY <1>1, StepKnowsPeer DEF TableInv

----------------------------------------------------------------------------
(***************************************************************************)
(* The handshake.                                                          *)
(***************************************************************************)
LEMMA InitHandshakeInv == P2PInit => HandshakeInv
  <1>. SUFFICES ASSUME P2PInit PROVE HandshakeInv
    OBVIOUS
  <1>1. \A e \in End : ends[e].at = "none" /\ wire[e] = <<>>
    BY DEF P2PInit, Unused, NewPeer
  <1>. QED  BY <1>1, OtherFacts DEF HandshakeInv

LEMMA AppendHead ==
    ASSUME NEW S, NEW s \in Seq(S), NEW x \in S
    PROVE  /\ Append(s, x) # <<>>
           /\ Head(Append(s, x)) = IF s = <<>> THEN x ELSE Head(s)
  <1>1. CASE s = <<>>
    BY <1>1
  <1>2. CASE s # <<>>
    <2>1. Len(s) \in Nat \ {0}
      BY <1>2, EmptySeq
    <2>. QED  BY <1>2, <2>1
  <1>. QED  BY <1>1, <1>2

LEMMA NextHandshakeInv == TypeInv /\ TypeInv' /\ TableInv /\ HandshakeInv /\ StepInv => HandshakeInv'
  <1>. SUFFICES ASSUME TypeInv, TypeInv', TableInv, HandshakeInv, StepInv, NEW e \in End
                PROVE  /\ ends'[e].at = "none" <=> ends'[Other(e)].at = "none"
                       /\ ends'[e].at = "none" => wire'[e] = <<>>
                       /\ ends'[e].at \in {"backlog", "hello"} =>
                             IF wire'[e] = <<>> THEN cut'[e[1]] \/ ends'[Other(e)].at = "backlog"
                             ELSE Greets(wire'[e], ends'[Other(e)].node, cut'[e[1]])
    BY DEF HandshakeInv, Greets
  <1>. DEFINE o == Other(e)
  <1>1. o \in End /\ Other(o) = e /\ o # e /\ o[1] = e[1] /\ e[1] \in Conn
    BY OtherFacts
  <1>2. EndStep(e) /\ EndStep(o)
    BY <1>1 DEF StepInv
  <1>3. /\ ends[e].at = "none" <=> ends[o].at = "none"
        /\ ends[e].at = "none" => wire[e] = <<>>
        /\ ends[e].at \in {"backlog", "hello"} =>
              IF wire[e] = <<>> THEN cut[e[1]] \/ ends[o].at = "backlog" 
              ELSE Greets(wire[e], ends[o].node, cut[e[1]])
    BY DEF HandshakeInv
  <1>4. /\ ends[e].at # "none" => ends'[e].at # "none"
        /\ ends[o].at # "none" => ends'[o].at # "none" /\ ends'[o].node = ends[o].node
    BY <1>1, <1>2, IdentityStays
  <1>5. ASSUME ends[e].at = "none"
        PROVE  (Rests(e) /\ Rests(o)) \/ Starts(e)
    BY <1>1, <1>2, <1>3, <1>5 DEF EndStep, Rests, Starts, Accepts, Admits, Handles, Stops, Over
  <1>6. ends'[e].at = "none" <=> ends'[o].at = "none"
    BY <1>3, <1>4, <1>5 DEF Rests, Starts
  <1>7. ASSUME ends'[e].at = "none"
        PROVE  wire'[e] = <<>>
    <2>1. ends[e].at = "none" /\ wire[e] = <<>> /\ ends[o].at = "none"
      BY <1>3, <1>4, <1>7
    <2>2. Incoming(e)
      BY <1>5, <1>7, <2>1 DEF Rests, Starts
    <2>3. \A s \in Seq(Line) : Kept(s, <<>>) => s = <<>>
      BY EmptySeq DEF Kept
    <2>4. wire'[e] \in Seq(Line)
      BY DEF TypeInv
    <2>. QED  BY <2>1, <2>2, <2>3, <2>4 DEF Incoming, Registered
  <1>8. ASSUME ends'[e].at \in {"backlog", "hello"}
        PROVE  IF wire'[e] = <<>> THEN cut'[e[1]] \/ ends'[o].at = "backlog"
               ELSE Greets(wire'[e], ends'[o].node, cut'[e[1]])
    <2>1. CASE Starts(e)
      <3>. DEFINE n == ends'[o].node
      <3>1. CASE ends'[o].at = "backlog" /\ wire'[e] = wire[e]
        BY <1>3, <2>1, <3>1 DEF Starts
      <3>2. CASE n \in Node /\ wire'[e] = <<Message("handshake", n, height[n])>>
        <4>1. height[n] \in Nat /\ "handshake" \in MessageType
          BY <3>2 DEF TypeInv, MessageType
        <4>2. LET m == Message("handshake", n, height[n])
              IN  m # Garbled /\ m.Type = "handshake" /\ m.NodeID = NodeID[n]
          BY <3>2, <4>1, MessageIsLine
        <4>. HIDE DEF n
        <4>. QED  BY <3>2, <4>2 DEF n, Greets
      <3>. QED  BY <2>1, <3>1, <3>2 DEF Starts
    <2>2. CASE Rests(e) \/ Accepts(e)
      <3>1. ends[e].at \in {"backlog", "hello"} /\ Incoming(e)
        BY <1>8, <2>2 DEF Rests, Accepts, Incoming
      <3>2. ends'[o].node = ends[o].node /\ ends[o].at # "none"
        BY <1>3, <1>4, <3>1
      <3>3. IF wire[e] = <<>> THEN cut[e[1]] \/ ends[o].at = "backlog"
            ELSE Greets(wire[e], ends[o].node, cut[e[1]])
        BY <1>3, <3>1
      <3>4. CASE wire'[e] = wire[e]
        <4>1. CASE wire[e] # <<>>
          BY <1>1, <3>2, <3>3, <3>4, <4>1 DEF Greets, StepInv
        <4>2. CASE wire[e] = <<>>
          <5>1. cut[e[1]] => cut'[e[1]]
            BY <1>1 DEF StepInv
          <5>2. ends[o].at = "backlog" => Rests(o) \/ Accepts(o) \/ Over(o)
            BY <1>2 DEF EndStep, Starts, Admits, Handles, Stops
          <5>3. CASE cut[e[1]]
            BY <3>4, <4>2, <5>1, <5>3
          <5>4. CASE ~cut[e[1]]
            BY <1>1, <3>3, <3>4, <4>2, <5>2, <5>4 DEF Rests, Accepts, Over
          <5>. QED  BY <5>3, <5>4
        <4>. QED  BY <4>1, <4>2
      <3>5. CASE Kept(wire'[e], wire[e]) /\ cut'[e[1]]
        <4>1. CASE wire'[e] = <<>>
          BY <3>5, <4>1
        <4>2. CASE wire'[e] # <<>>
          <5>1. /\ wire[e] \in Seq(Line) /\ wire'[e] \in Seq(Line)
                /\ Len(wire'[e]) \in Nat \ {0} /\ Len(wire[e]) \in Nat
            BY <4>2, EmptySeq DEF TypeInv
          <5>2. Len(wire[e]) # 0 /\ 1 \in 1 .. Len(wire'[e])
            BY <3>5, <5>1 DEF Kept
          <5>3. /\ wire[e] # <<>>
                /\ Head(wire[e]) = wire[e][1] /\ Head(wire'[e]) = wire'[e][1]
            BY <4>2, <5>1, <5>2, HeadTailProperties
          <5>4. Head(wire'[e]) = Head(wire[e]) \/ Head(wire'[e]) = Garbled
            BY <3>5, <5>2, <5>3 DEF Kept
          <5>. QED  BY <3>2, <3>3, <3>5, <4>2, <5>3, <5>4 DEF Greets
        <4>. QED  BY <4>1, <4>2
      <3>6. CASE \E line \in Line :
                    /\ ~cut[e[1]]
                    /\ wire'[e] = Append(wire[e], line)
                    /\ \/ Registered(o)
                       \/ /\ ends[o].at = "backlog"
                          /\ wire[e] = <<>> => line # Garbled /\ line.Type = "handshake"
                                                             /\ line.NodeID = NodeID[ends[o].node]
        <4>1. PICK line \in Line :
                    /\ ~cut[e[1]]
                    /\ wire'[e] = Append(wire[e], line)
                    /\ \/ Registered(o)
                       \/ /\ ends[o].at = "backlog"
                          /\ wire[e] = <<>> => line # Garbled /\ line.Type = "handshake"
                                                             /\ line.NodeID = NodeID[ends[o].node]
          BY <3>6
        <4>2. /\ wire'[e] # <<>>
              /\ Head(wire'[e]) = IF wire[e] = <<>> THEN line ELSE Head(wire[e])
          <5>1. wire[e] \in Seq(Line)
            BY DEF TypeInv
          <5>2. /\ Append(wire[e], line) # <<>>
                /\ Head(Append(wire[e], line)) = IF wire[e] = <<>> THEN line ELSE Head(wire[e])
            BY <5>1, AppendHead
          <5>. QED  BY <4>1, <5>2
        <4>3. CASE wire[e] = <<>>
          <5>1. ends[o].at = "backlog"
            BY <3>3, <4>1, <4>3
          <5>2. line # Garbled /\ line.Type = "handshake" /\ line.NodeID = NodeID[ends[o].node]
            BY <4>1, <4>3, <5>1 DEF Registered
          <5>. QED  BY <3>2, <4>2, <4>3, <5>2 DEF Greets
        <4>4. CASE wire[e] # <<>>
          BY <1>1, <3>2, <3>3, <4>2, <4>4 DEF Greets, StepInv
        <4>. QED  BY <4>3, <4>4
      <3>. QED  BY <3>1, <3>4, <3>5, <3>6 DEF Incoming
    <2>3. Starts(e) \/ Rests(e) \/ Accepts(e)
      BY <1>2, <1>8 DEF EndStep, Admits, Handles, Stops, Over
    <2>. QED  BY <2>1, <2>2, <2>3
  <1>. QED  BY <1>6, <1>7, <1>8

(***************************************************************************)
(* The four parts together, up to what heights need.                       *)
(***************************************************************************)
LEMMA InvariantHolds == P2PInit /\ [][P2PNext]_p2pVars => [](TypeInv /\ TableInv /\ HandshakeInv)
  <1>1. TypeInv /\ TableInv /\ HandshakeInv /\ [P2PNext]_p2pVars
          => (TypeInv /\ TableInv /\ HandshakeInv)'
    BY NextTypeInv, NextIsStep, NextTableInv, NextHandshakeInv
  <1>. QED  BY <1>1, InitTypeInv, InitTableInv, InitHandshakeInv, PTL

(***************************************************************************)
(* The table never holds more than MaxPeers peers, and each of its entries *)
(* is a connection whose goroutine has not ended, which may be stuck or    *)
(* about to leave, and which may be gone, under the ID the peer has        *)
(* announced; a connection that handles messages is hidden from the table  *)
(* only by another one that announced the same ID.                         *)
(***************************************************************************)
THEOREM TableIsLiveCorrect == P2PSpec => []TableIsLive
  <1>1. TableInv => TableIsLive
    BY DEF TableInv
  <1>. QED  BY <1>1, InvariantHolds, PTL DEF P2PSpec

(***************************************************************************)
(* Whatever the routines of a node write to a connection meanwhile, what   *)
(* the other end reads first is the handshake of this node, or what is left*)
(* of it where the connection has broken.                                  *)
(***************************************************************************)
THEOREM HandshakeComesFirstCorrect == P2PSpec => []HandshakeComesFirst
  <1>1. HandshakeInv => HandshakeComesFirst
    BY DEF HandshakeInv, HandshakeComesFirst, Greets, Opened
  <1>. QED  BY <1>1, InvariantHolds, PTL DEF P2PSpec

----------------------------------------------------------------------------
(***************************************************************************)
(* Heights.                                                                *)
(***************************************************************************)
LEMMA NothingIsTruthful ==
    ASSUME NEW low, NEW high
    PROVE  Truthful(<<>>, low, high)
  BY DEF Truthful

LEMMA TruthfulKept ==
    ASSUME NEW s \in Seq(Line), NEW q \in Seq(Line), NEW low \in Nat, NEW high \in Nat,
           Truthful(s, low, high), Kept(q, s)
    PROVE  Truthful(q, low, high)
  <1>1. Len(q) <= Len(s) /\ Len(q) \in Nat /\ Len(s) \in Nat
    BY DEF Kept
  <1>2. \A i \in 1 .. Len(q) : Reports(q[i]) => q[i] = s[i] /\ i \in 1 .. Len(s)
    BY <1>1 DEF Kept, Reports
  <1>3. ASSUME NEW i \in 1 .. Len(q), NEW j \in i .. Len(q), Reports(q[i]), Reports(q[j])
        PROVE  q[i].Height <= q[j].Height
    <2>1. q[i] = s[i] /\ q[j] = s[j] /\ i \in 1 .. Len(s) /\ j \in i .. Len(s)
      BY <1>1, <1>2, <1>3
    <2>. QED  BY <1>3, <2>1 DEF Truthful
  <1>. QED  BY <1>2, <1>3 DEF Truthful

LEMMA TruthfulGrows ==
    ASSUME NEW s \in Seq(Line), NEW low \in Nat, NEW high \in Nat, NEW higher \in Nat,
           high <= higher, Truthful(s, low, high)
    PROVE  Truthful(s, low, higher)
  <1>1. \A i \in 1 .. Len(s) : Reports(s[i]) => s[i].Height \in Nat
    BY ElementOfSeq DEF Line, P2PMessage, Reports
  <1>. QED  BY <1>1 DEF Truthful

LEMMA TruthfulAppend ==
    ASSUME NEW s \in Seq(Line), NEW low \in Nat, NEW high \in Nat, low <= high,
           Truthful(s, low, high), NEW line \in Line,
           Reports(line) => line.Height = high
    PROVE  Truthful(Append(s, line), low, high)
  <1>. DEFINE t == Append(s, line)
  <1>1. /\ Len(s) \in Nat /\ Len(t) = Len(s) + 1
        /\ t[Len(s) + 1] = line
        /\ \A i \in 1 .. Len(s) : t[i] = s[i]
    OBVIOUS
  <1>. HIDE DEF t
  <1>2. ASSUME NEW i \in 1 .. Len(t), Reports(t[i])
        PROVE  /\ low <= t[i].Height /\ t[i].Height <= high
               /\ \A j \in i .. Len(t) : Reports(t[j]) => t[i].Height <= t[j].Height
    <2>1. CASE i = Len(s) + 1
      <3>1. \A j \in i .. Len(t) : j = i
        BY <1>1, <2>1
      <3>. QED  BY <1>1, <1>2, <2>1, <3>1
    <2>2. CASE i \in 1 .. Len(s)
      <3>1. /\ low <= t[i].Height /\ t[i].Height <= high
        BY <1>1, <1>2, <2>2 DEF Truthful
      <3>2. ASSUME NEW j \in i .. Len(t), Reports(t[j])
            PROVE  t[i].Height <= t[j].Height
        <4>1. CASE j \in i .. Len(s)
          <5>1. t[j] = s[j] /\ t[i] = s[i]
            BY <1>1, <2>2, <4>1
          <5>. QED  BY <1>2, <2>2, <3>2, <4>1, <5>1 DEF Truthful
        <4>2. CASE j = Len(s) + 1
          BY <1>1, <3>1, <3>2, <4>2
        <4>. QED  BY <1>1, <2>2, <4>1, <4>2
      <3>. QED  BY <3>1, <3>2
    <2>. QED  BY <1>1, <2>1, <2>2
  <1>. QED  BY <1>2 DEF Truthful, t

\* What a read leaves of the lines.
IsRest(r, s) ==
    \E k \in 1 .. Len(s) :
        /\ Len(r) = Len(s) - k
        /\ \A i \in 1 .. Len(r) : r[i] = s[i + k] \/ r[i] = Garbled

\* What is left after a read; if the first line was a report, nothing that is
\* left is below it.
LEMMA TruthfulRead ==
    ASSUME NEW s \in Seq(Line), NEW r \in Seq(Line), NEW low \in Nat, NEW high \in Nat,
           Truthful(s, low, high), IsRest(r, s)
    PROVE  /\ Truthful(r, low, high)
           /\ Reports(s[1]) =>
                 /\ low <= s[1].Height /\ s[1].Height <= high
                 /\ Truthful(r, s[1].Height, high)
  <1>. PICK k \in 1 .. Len(s) :
            /\ Len(r) = Len(s) - k
            /\ \A i \in 1 .. Len(r) : r[i] = s[i + k] \/ r[i] = Garbled
    BY DEF IsRest
  <1>1. Len(s) \in Nat /\ Len(r) \in Nat /\ 1 \in 1 .. Len(s)
    OBVIOUS
  <1>2. \A i \in 1 .. Len(r) : Reports(r[i]) => r[i] = s[i + k] /\ i + k \in 1 .. Len(s)
    BY <1>1 DEF Reports
  <1>3. ASSUME NEW i \in 1 .. Len(r), Reports(r[i])
        PROVE  /\ low <= r[i].Height /\ r[i].Height <= high
               /\ Reports(s[1]) => s[1].Height <= r[i].Height
               /\ \A j \in i .. Len(r) : Reports(r[j]) => r[i].Height <= r[j].Height
    <2>1. r[i] = s[i + k] /\ i + k \in 1 .. Len(s)
      BY <1>2, <1>3
    <2>2. low <= r[i].Height /\ r[i].Height <= high
      BY <1>3, <2>1 DEF Truthful
    <2>3. Reports(s[1]) => s[1].Height <= r[i].Height
      BY <1>1, <1>3, <2>1 DEF Truthful
    <2>4. ASSUME NEW j \in i .. Len(r), Reports(r[j])
          PROVE  r[i].Height <= r[j].Height
      <3>1. r[j] = s[j + k] /\ j + k \in i + k .. Len(s)
        BY <1>1, <1>2, <2>4
      <3>. QED  BY <1>3, <2>1, <2>4, <3>1 DEF Truthful
    <2>. QED  BY <2>2, <2>3, <2>4
  <1>4. Reports(s[1]) => low <= s[1].Height /\ s[1].Height <= high
    BY <1>1 DEF Truthful
  <1>. QED  BY <1>3, <1>4 DEF Truthful

LEMMA InitHeightInv == P2PInit => HeightInv
  <1>. SUFFICES ASSUME P2PInit PROVE HeightInv
    OBVIOUS
  <1>1. \A e \in End : ends[e].at = "none"
    BY DEF P2PInit, Unused, NewPeer
  <1>. QED  BY <1>1 DEF HeightInv

\* What a read does to what an end knows.
LEMMA ReadsHeight ==
    ASSUME TypeInv, NEW e \in End, Reads(e), NEW low \in Nat, NEW high \in Nat,
           Truthful(wire[e], low, high)
    PROVE  /\ Truthful(wire'[e], low, high)
           /\ Reports(Head(wire[e])) =>
                 /\ Head(wire[e]).Height \in Nat
                 /\ low <= Head(wire[e]).Height /\ Head(wire[e]).Height <= high
                 /\ Truthful(wire'[e], Head(wire[e]).Height, high)
  <1>. DEFINE s == wire[e]
              r == wire'[e]
  <1>1. s \in Seq(Line) /\ Head(s) = s[1] /\ Head(s).Height \in Nat
    BY HeadFacts DEF Reads, TypeInv
  <1>2. r \in Seq(Line) /\ IsRest(r, s)
    BY AfterReadFacts DEF Reads, IsRest
  <1>. HIDE DEF s, r
  <1>3. Truthful(s, low, high)
    BY DEF s
  <1>4. /\ Truthful(r, low, high)
        /\ Reports(s[1]) =>
              /\ low <= s[1].Height /\ s[1].Height <= high
              /\ Truthful(r, s[1].Height, high)
    BY <1>1, <1>2, <1>3, TruthfulRead
  <1>. QED  BY <1>1, <1>4 DEF s, r

\* One end after a step, if it has not just been started.
LEMMA HeightStep ==
    ASSUME TypeInv, TypeInv', TableInv, HandshakeInv, HeightInv, StepInv,
           NEW e \in End, ends[e].at # "none"
    PROVE  LET n == ends[Other(e)].node
           IN  /\ Registered(e) => /\ ends[e].Height <= height[ends[Other(e)].node]
                                   /\ ends'[e].Height >= ends[e].Height
               /\ ends'[e].at \in {"backlog", "hello"} => ends'[e].Height = 0
               /\ ends'[e].at # "ended" => ends'[e].Height <= height'[n]
               /\ ends'[e].at # "ended" => Truthful(wire'[e], ends'[e].Height, height'[n])
  <1>. DEFINE n    == ends[Other(e)].node
              h    == ends[e].Height
              high == height[n]
  <1>1. /\ Other(e) \in End /\ ends[Other(e)].at # "none" /\ n \in Node
        /\ high \in Nat /\ height'[n] \in Nat /\ high <= height'[n]
        /\ wire[e] \in Seq(Line) /\ wire'[e] \in Seq(Line)
    BY OtherFacts DEF HandshakeInv, TypeInv, StepInv
  <1>2. h \in Nat /\ ends'[e].Height \in Nat
    BY DEF TypeInv, Peer
  <1>3. /\ ends[e].at \in {"backlog", "hello"} => h = 0
        /\ ends[e].at # "ended" => h <= high
        /\ ends[e].at # "ended" => Truthful(wire[e], h, high)
    BY DEF HeightInv
  <1>4. Registered(e) => h <= height[ends[Other(e)].node]
    BY <1>3 DEF Registered
  <1>5. CASE Rests(e) \/ Accepts(e) \/ Stops(e)
    <2>1. /\ ends'[e].Height = h /\ ends'[e].ID = ends[e].ID
          /\ Registered(e)' <=> Registered(e)
          /\ ends'[e].at # "ended" <=> ends[e].at # "ended"
          /\ ends'[e].at \in {"backlog", "hello"} => ends[e].at \in {"backlog", "hello"}
      BY <1>5 DEF Rests, Accepts, Stops, Keeps, Registered
    <2>2. ASSUME ends[e].at # "ended"
          PROVE  Truthful(wire'[e], h, high)
      <3>1. Truthful(wire[e], h, high) /\ h <= high
        BY <1>3, <2>2
      <3>2. Incoming(e)
        BY <1>5 DEF Rests, Accepts, Stops, Incoming
      <3>3. CASE wire'[e] = wire[e]
        BY <3>1, <3>3
      <3>4. CASE Kept(wire'[e], wire[e])
        <4>. HIDE DEF n, h, high
        <4>. QED  BY <1>1, <1>2, <3>1, <3>4, TruthfulKept
      <3>5. CASE \E line \in Line : /\ wire'[e] = Append(wire[e], line)
                                    /\ Reports(line) => line.Height = high
        <4>1. PICK line \in Line : /\ wire'[e] = Append(wire[e], line)
                                   /\ Reports(line) => line.Height = high
          BY <3>5
        <4>. HIDE DEF n, h, high
        <4>2. Truthful(Append(wire[e], line), h, high)
          BY <1>1, <1>2, <3>1, <4>1, TruthfulAppend
        <4>. QED  BY <4>1, <4>2
      <3>. QED  BY <3>2, <3>3, <3>4, <3>5 DEF Incoming
    <2>3. ends[e].at # "ended" => Truthful(wire'[e], h, height'[n])
      <3>. HIDE DEF n, h, high
      <3>. QED  BY <1>1, <1>2, <2>2, TruthfulGrows
    <2>. QED  BY <1>1, <1>2, <1>3, <1>4, <2>1, <2>3
  <1>6. CASE Admits(e)
    <2>. DEFINE m == Head(wire[e])
    <2>1. /\ ends[e].at = "hello" /\ ~Registered(e) /\ ends'[e].at = "handling"
          /\ ends'[e].ID = m.NodeID /\ ends'[e].Height = m.Height
          /\ Reads(e) /\ Reports(m)
      BY <1>6 DEF Admits, Reads, Reports, Registered
    <2>2. /\ m.Height \in Nat /\ m.Height <= high
          /\ Truthful(wire'[e], m.Height, high)
      <3>1. Truthful(wire[e], h, high)
        BY <1>3, <2>1
      <3>. HIDE DEF n, h, high, m
      <3>. QED  BY <1>1, <1>2, <2>1, <3>1, ReadsHeight DEF m
    <2>3. Truthful(wire'[e], m.Height, height'[n]) /\ m.Height <= height'[n]
      <3>. HIDE DEF n, m, high
      <3>. QED  BY <1>1, <2>2, TruthfulGrows
    <2>. QED  BY <2>1, <2>2, <2>3
  <1>7. CASE Handles(e)
    <2>. DEFINE m == Head(wire[e])
    <2>1. /\ ends[e].at = "handling" /\ Registered(e) /\ ends'[e].at \in {"handling", "stuck"}
          /\ ends'[e].ID = ends[e].ID
          /\ Reads(e)
          /\ ends'[e].Height = h \/ (Reports(m) /\ ends'[e].Height = m.Height)
      BY <1>7 DEF Handles, Registered
    <2>2. /\ Truthful(wire'[e], h, high)
          /\ Reports(m) => /\ m.Height \in Nat /\ h <= m.Height /\ m.Height <= high
                           /\ Truthful(wire'[e], m.Height, high)
      <3>1. Truthful(wire[e], h, high)
        BY <1>3, <2>1
      <3>. HIDE DEF n, h, high, m
      <3>. QED  BY <1>1, <1>2, <2>1, <3>1, ReadsHeight DEF m
    <2>3. /\ h <= ends'[e].Height /\ ends'[e].Height <= high
          /\ Truthful(wire'[e], ends'[e].Height, high)
      BY <1>2, <1>3, <2>1, <2>2
    <2>4. Truthful(wire'[e], ends'[e].Height, height'[n]) /\ ends'[e].Height <= height'[n]
      <3>. HIDE DEF n, h, high
      <3>. QED  BY <1>1, <1>2, <2>3, TruthfulGrows
    <2>. QED  BY <1>2, <1>3, <1>4, <2>1, <2>3, <2>4
  <1>8. CASE Over(e)
    <2>1. ends'[e].at = "ended" /\ ends'[e].Height = h
      BY <1>8 DEF Over, Keeps
    <2>. QED  BY <1>2, <1>4, <2>1 DEF Registered
  <1>9. CASE Starts(e)
    BY <1>9 DEF Starts
  <1>. QED  BY <1>5, <1>6, <1>7, <1>8, <1>9 DEF EndStep, StepInv

LEMMA NextHeightInv ==
    TypeInv /\ TypeInv' /\ TableInv /\ HandshakeInv /\ HeightInv /\ StepInv => HeightInv'
  <1>. SUFFICES ASSUME TypeInv, TypeInv', TableInv, HandshakeInv, HeightInv, StepInv,
                       NEW e \in End, ends'[e].at # "none"
                PROVE  LET n == ends'[Other(e)].node
                       IN  /\ ends'[e].at \in {"backlog", "hello"} => ends'[e].Height = 0
                           /\ ends'[e].at # "ended" => ends'[e].Height <= height'[n]
                           /\ ends'[e].at # "ended" =>
                                 Truthful(wire'[e], ends'[e].Height, height'[n])
    BY DEF HeightInv
  <1>. DEFINE n == ends'[Other(e)].node
  <1>1. Other(e) \in End /\ EndStep(e) /\ EndStep(Other(e))
    BY OtherFacts DEF StepInv
  <1>2. CASE ends[e].at # "none"
    <2>1. ends[Other(e)].at # "none"
      BY <1>2 DEF HandshakeInv
    <2>2. n = ends[Other(e)].node
      BY <1>1, <2>1, IdentityStays
    <2>. HIDE DEF n
    <2>. QED  BY <1>2, <2>2, HeightStep DEF n
  <1>3. CASE ends[e].at = "none"
    <2>1. Starts(e) /\ wire[e] = <<>>
      BY <1>1, <1>3 DEF EndStep, Rests, Accepts, Admits, Handles, Stops, Over, HandshakeInv
    <2>2. ends'[e].at \in {"backlog", "hello"} /\ ~Registered(e)' /\ ends'[e].Height = 0
      BY <2>1 DEF Starts, Registered
    <2>3. /\ n \in Node /\ height[n] \in Nat /\ height'[n] \in Nat /\ height[n] <= height'[n]
      BY <1>1, <2>1 DEF Starts, TypeInv, StepInv
    <2>4. Truthful(wire'[e], 0, height'[n])
      <3>1. CASE wire'[e] = wire[e]
        BY <2>1, <3>1, NothingIsTruthful
      <3>2. CASE wire'[e] = <<Message("handshake", n, height[n])>>
        <4>. DEFINE m == Message("handshake", n, height[n])
        <4>1. m \in Line /\ m.Height = height[n]
          BY <2>3, MessageIsLine DEF MessageType
        <4>. HIDE DEF m, n
        <4>2. Truthful(<<>>, 0, height[n])
          BY NothingIsTruthful
        <4>3. <<>> \in Seq(Line) /\ Append(<<>>, m) = <<m>> /\ <<m>> \in Seq(Line)
          BY <4>1
        <4>4. Truthful(Append(<<>>, m), 0, height[n])
          <5>1. 0 \in Nat /\ 0 <= height[n]
            BY <2>3
          <5>. QED  BY <2>3, <4>1, <4>2, <4>3, <5>1, TruthfulAppend
        <4>5. Truthful(<<m>>, 0, height'[n])
          BY <2>3, <4>3, <4>4, TruthfulGrows, 0 \in Nat
        <4>. QED  BY <3>2, <4>5 DEF m
      <3>. QED  BY <2>1, <3>1, <3>2 DEF Starts
    <2>. QED  BY <2>2, <2>3, <2>4
  <1>. QED  BY <1>2, <1>3

(***************************************************************************)
(* What a node believes of a peer's height is never more than that height, *)
(* and never goes back: reports on their way are in the order in which     *)
(* they were made, and a read keeps the order of those it does not lose.   *)
(***************************************************************************)
THEOREM HeightsAreTrueCorrect == P2PSpec => HeightsAreTrue
  <1>. DEFINE I == TypeInv /\ TableInv /\ HandshakeInv
              Step == \A e \in End : Registered(e) =>
                         /\ ends[e].Height <= height[ends[Other(e)].node]
                         /\ ends'[e].Height >= ends[e].Height
  <1>1. I /\ HeightInv /\ [P2PNext]_p2pVars => HeightInv'
    BY NextTypeInv, NextIsStep, NextHeightInv
  <1>2. I /\ HeightInv /\ [P2PNext]_p2pVars => Step
    <2>. SUFFICES ASSUME I, HeightInv, [P2PNext]_p2pVars, NEW e \in End, Registered(e)
                  PROVE  /\ ends[e].Height <= height[ends[Other(e)].node]
                         /\ ends'[e].Height >= ends[e].Height
      OBVIOUS
    <2>1. TypeInv' /\ StepInv
      BY NextTypeInv, NextIsStep
    <2>2. ends[e].at # "none"
      BY DEF Registered
    <2>. QED  BY <2>1, <2>2, HeightStep
  <1>3. P2PInit /\ [][P2PNext]_p2pVars => []I
    BY InvariantHolds
  <1>4. P2PInit /\ [][P2PNext]_p2pVars => [](I /\ HeightInv)
    <2>. HIDE DEF I
    <2>. QED  BY <1>1, <1>3, InitHeightInv, PTL
  <1>5. P2PInit /\ [][P2PNext]_p2pVars => [][Step]_p2pVars
    <2>. HIDE DEF I, Step
    <2>. QED  BY <1>2, <1>4, PTL
  <1>. QED  BY <1>5, PTL DEF P2PSpec, HeightsAreTrue
=============================================================================
