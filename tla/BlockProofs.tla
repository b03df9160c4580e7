---------------------------- MODULE BlockProofs ----------------------------
(***************************************************************************)
(* Facts about blocks, the chain they form and the file they are stored    *)
(* in, for every proof that is about a chain.                              *)
(***************************************************************************)
EXTENDS Blockchain, FiniteSetTheorems, SequenceTheorems, TLAPS

(***************************************************************************)
(* The numbers up to n are n numbers.                                      *)
(***************************************************************************)
LEMMA CardinalityOfInterval ==
    ASSUME NEW n \in Nat
    PROVE  IsFiniteSet(1 .. n) /\ Cardinality(1 .. n) = n
  <1>1. /\ IsFiniteSet(1 .. n)
        /\ Cardinality(1 .. n) = IF 1 > n THEN 0 ELSE n - 1 + 1
    BY FS_Interval
  <1>. QED  BY <1>1

(***************************************************************************)
(* Append written out as a function.                                       *)
(***************************************************************************)
LEMMA AppendAsFunction ==
    ASSUME NEW n \in Nat, NEW f, f = [i \in 1 .. n |-> f[i]], NEW x
    PROVE  Append(f, x) = [i \in 1 .. n + 1 |-> IF i <= n THEN f[i] ELSE x]
  <1>1. f \in Seq({f[i] : i \in 1 .. n} \cup {x}) /\ Len(f) = n
    OBVIOUS
  <1>. QED  BY <1>1

(***************************************************************************)
(* What Append does, with the element it adds at the end.                  *)
(***************************************************************************)
LEMMA AppendFacts ==
    ASSUME NEW S, NEW s \in Seq(S), NEW x \in S
    PROVE  /\ Append(s, x) \in Seq(S)
           /\ Append(s, x) # <<>>
           /\ Len(s) \in Nat
           /\ Len(Append(s, x)) = Len(s) + 1
           /\ Append(s, x)[Len(s) + 1] = x
           /\ \A i \in 1 .. Len(s) : Append(s, x)[i] = s[i]
  <1>1. Len(s) \in Nat
    BY LenProperties
  <1>2. /\ Append(s, x) \in Seq(S)
        /\ Len(Append(s, x)) = Len(s) + 1
        /\ Append(s, x)[Len(s) + 1] = x
        /\ \A i \in 1 .. Len(s) : Append(s, x)[i] = s[i]
    BY <1>1
  <1>. QED  BY <1>1, <1>2

\* What NewBlock makes.
LEMMA NewBlockFacts ==
    ASSUME NEW h \in Nat, NEW prevHash \in Hash, NEW now \in Nat,
           NEW validator \in Address, NEW transactions \in Seq(TxHash)
    PROVE  /\ NewBlock(h, prevHash, now, validator, transactions) \in Block
           /\ NewBlock(h, prevHash, now, validator, transactions).Height = h
           /\ NewBlock(h, prevHash, now, validator, transactions).PrevHash = prevHash
           /\ NewBlock(h, prevHash, now, validator, transactions).Validator = validator
           /\ NewBlock(h, prevHash, now, validator, transactions).Transactions = transactions
           /\ NewBlock(h, prevHash, now, validator, transactions).Hash
                = calculateHash(NewBlock(h, prevHash, now, validator, transactions))
  <1>. DEFINE header == [by |-> "calculateHash", Height |-> h, Timestamp |-> now,
                         Validator |-> validator, Transactions |-> transactions]
              hash   == Append(prevHash, header)
  <1>1. hash \in Hash
    <2>1. header \in Header
      BY DEF Header, Hasher
    <2>. QED  BY <2>1 DEF Hash
  <1>2. PICK b : b = NewBlock(h, prevHash, now, validator, transactions)
    OBVIOUS
  <1>3. b = [Height |-> h, PrevHash |-> prevHash, Hash |-> hash,
             Timestamp |-> now, Validator |-> validator, Transactions |-> transactions]
    BY <1>2 DEF NewBlock, calculateHash, HeaderOf
  <1>4. calculateHash(b) = hash
    BY <1>3 DEF calculateHash, HeaderOf
  <1>. HIDE DEF hash
  <1>5. b \in Block
    BY <1>1, <1>3 DEF Block
  <1>6. /\ b.Height = h /\ b.PrevHash = prevHash /\ b.Transactions = transactions
        /\ b.Validator = validator /\ b.Hash = calculateHash(b)
    BY <1>3, <1>4
  <1>. QED  BY <1>2, <1>5, <1>6

\* The genesis block is a block without transactions.
LEMMA GenesisFacts ==
    Genesis \in Block /\ Genesis.Height = 0 /\ Genesis.Transactions = <<>>
  <1>1. PICK empty : empty = <<>>
    OBVIOUS
  <1>2. empty \in Hash /\ empty \in Seq(TxHash) /\ Founder \in Address /\ 0 \in Nat
    BY <1>1, BlockchainAssumption DEF Hash
  <1>3. Genesis = NewBlock(0, empty, 0, Founder, empty)
    BY <1>1 DEF Genesis
  <1>4. \A h \in Nat : LET b == NewBlock(h, empty, h, Founder, empty)
                      IN  b \in Block /\ b.Height = h /\ b.Transactions = empty
    BY <1>2, NewBlockFacts
  <1>. QED  BY <1>1, <1>3, <1>4

\* Write keeps the file a file.
LEMMA WriteType ==
    ASSUME NEW file \in Seq(Line), file # <<>>, NEW b \in Block, NEW extent \in Extent
    PROVE  Write(file, b, extent) \in Seq(Line) /\ Write(file, b, extent) # <<>>
  <1>. DEFINE last == Len(file)
              text(w) == [file EXCEPT ![last] = Append(@, [block |-> b, whole |-> w])]
  <1>1. last \in Nat /\ last \in 1 .. Len(file) /\ file[last] \in Line
    BY EmptySeq, LenProperties, ElementOfSeq
  <1>2. ASSUME NEW w \in BOOLEAN PROVE text(w) \in Seq(Line) /\ text(w) # <<>>
    <2>1. Append(file[last], [block |-> b, whole |-> w]) \in Line
      BY <1>1 DEF Line
    <2>2. text(w) \in Seq(Line) /\ Len(text(w)) = Len(file)
      BY <1>1, <2>1, ExceptSeq
    <2>. QED  BY <1>1, <2>2
  <1>3. Append(text(TRUE), <<>>) \in Seq(Line) /\ Append(text(TRUE), <<>>) # <<>>
    <2>1. PICK empty : empty = <<>>
      OBVIOUS
    <2>2. empty \in Line
      BY <2>1 DEF Line
    <2>3. text(TRUE) \in Seq(Line)
      BY <1>2
    <2>. HIDE DEF text
    <2>4. PICK t : t = text(TRUE)
      OBVIOUS
    <2>5. t \in Seq(Line)
      BY <2>3, <2>4
    <2>6. Append(t, empty) \in Seq(Line) /\ Append(t, empty) # <<>>
      BY <2>2, <2>5
    <2>. QED  BY <2>1, <2>4, <2>6
  <1>. HIDE DEF text
  <1>4. CASE extent = "none"
    BY <1>4 DEF Write
  <1>5. CASE extent = "part"
    BY <1>2, <1>5 DEF Write, text
  <1>6. CASE extent = "text"
    BY <1>2, <1>6 DEF Write, text
  <1>7. CASE extent = "line"
    BY <1>3, <1>7 DEF Write, text
  <1>. QED  BY <1>4, <1>5, <1>6, <1>7 DEF Extent

\* The file that a start leaves behind is a file.
LEMMA NoFileType == NoFile \in Seq(Line) /\ NoFile # <<>>
  BY DEF NoFile, Line

\* The latest block of a chain is a block.
LEMMA LatestBlockType ==
    ASSUME blocks \in Seq(Block), blocks # <<>>
    PROVE  LatestBlock \in Block /\ Height \in Nat /\ LatestBlock.Hash \in Hash
  <1>1. LatestBlock \in Block
    BY EmptySeq, ElementOfSeq DEF LatestBlock
  <1>. QED  BY <1>1 DEF Height, Block

----------------------------------------------------------------------------
\* The file of a chain that was written line by line without interruption.
StoredAs(chain) ==
    [i \in 1 .. Len(chain) + 1 |->
        IF i <= Len(chain) THEN << [block |-> chain[i], whole |-> TRUE] >> ELSE <<>>]

\* In 1 .. n the k-th smallest number is k.
LEMMA KthOfInterval ==
    ASSUME NEW n \in Nat, NEW k \in 1 .. n
    PROVE  Kth(1 .. n, k) = k
  <1>1. ASSUME NEW i \in 1 .. n
        PROVE  Cardinality({j \in 1 .. n : j <= i}) = i
    <2>1. {j \in 1 .. n : j <= i} = 1 .. i
      OBVIOUS
    <2>2. i \in Nat
      OBVIOUS
    <2>3. Cardinality(1 .. i) = i
      BY <2>2, CardinalityOfInterval
    <2>. QED  BY ONLY <2>1, <2>3, Zenon
  <1>2. \A i \in 1 .. n : Cardinality({j \in 1 .. n : j <= i}) = k <=> i = k
    BY <1>1
  <1>3. Kth(1 .. n, k) = CHOOSE i \in 1 .. n : Cardinality({j \in 1 .. n : j <= i}) = k
    BY DEF Kth
  <1>. QED  BY <1>2, <1>3

\* Only the first part of a line that was written once is looked at.
LEMMA OneText ==
    ASSUME NEW b \in Block
    PROVE  /\ Parses(<< [block |-> b, whole |-> TRUE] >>)
           /\ << [block |-> b, whole |-> TRUE] >>[1].block = b
  <1>1. Len(<< [block |-> b, whole |-> TRUE] >>) = 1
    OBVIOUS
  <1>2. << [block |-> b, whole |-> TRUE] >>[1] = [block |-> b, whole |-> TRUE]
    OBVIOUS
  <1>3. [block |-> b, whole |-> TRUE].whole = TRUE /\ [block |-> b, whole |-> TRUE].block = b
    OBVIOUS
  <1>. QED  BY <1>1, <1>2, <1>3, Zenon DEF Parses

\* An empty line is no block.
LEMMA EmptyLine == ~Parses(<<>>)
  <1>1. Len(<<>>) # 1
    OBVIOUS
  <1>. QED  BY <1>1, Zenon DEF Parses

\* The file of a chain, line by line.
LEMMA StoredLines ==
    ASSUME NEW chain \in Seq(Block)
    PROVE  /\ Len(chain) \in Nat
           /\ Len(StoredAs(chain)) = Len(chain) + 1
           /\ \A i \in 1 .. Len(chain) :
                 StoredAs(chain)[i] = << [block |-> chain[i], whole |-> TRUE] >>
           /\ StoredAs(chain)[Len(chain) + 1] = <<>>
  <1>. DEFINE n == Len(chain)
              line(i) == IF i <= n THEN << [block |-> chain[i], whole |-> TRUE] >> ELSE <<>>
  <1>1. n \in Nat
    BY LenProperties
  <1>2. StoredAs(chain) = [i \in 1 .. n + 1 |-> line(i)]
    BY DEF StoredAs
  <1>3. /\ \A i \in 1 .. n : line(i) = << [block |-> chain[i], whole |-> TRUE] >>
        /\ line(n + 1) = <<>>
    <2>1. ~(n + 1 <= n) /\ \A i \in 1 .. n : i <= n
      BY <1>1
    <2>. HIDE DEF n
    <2>. QED  BY ONLY <2>1, Zenon
  <1>4. 1 .. n \subseteq 1 .. n + 1 /\ n + 1 \in 1 .. n + 1
    BY <1>1
  <1>. HIDE DEF line
  <1>5. Len(StoredAs(chain)) = n + 1
    <2>. HIDE DEF n
    <2>. QED  BY <1>1, <1>2
  <1>. QED  BY <1>1, <1>2, <1>3, <1>4, <1>5, Zenon

\* A chain is loaded from the file it was stored in.
LEMMA LoadStored ==
    ASSUME NEW chain \in Seq(Block)
    PROVE  Load(StoredAs(chain)) = chain
  <1>. DEFINE n == Len(chain)
              file == StoredAs(chain)
              good == {i \in 1 .. Len(file) : Parses(file[i])}
  <1>1. n \in Nat /\ Len(file) = n + 1
    BY StoredLines
  <1>2. ASSUME NEW i \in 1 .. n
        PROVE  Parses(file[i]) /\ file[i][1].block = chain[i]
    <2>1. chain[i] \in Block
      BY ElementOfSeq
    <2>. QED  BY <2>1, StoredLines, OneText, Zenon
  <1>3. ~Parses(file[n + 1])
    <2>. QED  BY StoredLines, EmptyLine, Zenon
  <1>4. good = 1 .. n
    <2>. HIDE DEF file, n
    <2>. QED  BY <1>1, <1>2, <1>3
  <1>5. Cardinality(good) = n
    BY <1>1, <1>4, CardinalityOfInterval
  <1>6. ASSUME NEW k \in 1 .. n PROVE file[Kth(good, k)][1].block = chain[k]
    <2>1. Kth(good, k) = k
      BY <1>1, <1>4, KthOfInterval
    <2>. QED  BY ONLY <1>2, <2>1, Zenon
  <1>7. Load(file) = [k \in 1 .. n |-> file[Kth(good, k)][1].block]
    BY <1>5 DEF Load
  <1>8. Load(file) = [k \in 1 .. n |-> chain[k]]
    <2>. HIDE DEF good, file, n
    <2>. QED  BY <1>6, <1>7
  <1>9. chain = [k \in 1 .. n |-> chain[k]]
    BY LenProperties
  <1>. QED  BY <1>8, <1>9

\* A whole line appended to the file of a chain makes the file of the longer
\* chain.
LEMMA WriteLine ==
    ASSUME NEW chain \in Seq(Block), NEW b \in Block
    PROVE  Write(StoredAs(chain), b, "line") = StoredAs(Append(chain, b))
  <1>. DEFINE n == Len(chain)
              file == StoredAs(chain)
              longer == Append(chain, b)
              text(x) == << [block |-> x, whole |-> TRUE] >>
              filled == [file EXCEPT ![n + 1] = Append(@, [block |-> b, whole |-> TRUE])]
  <1>1. /\ n \in Nat /\ Len(longer) = n + 1 /\ longer[n + 1] = b
        /\ \A i \in 1 .. n : longer[i] = chain[i]
    BY AppendFacts
  <1>2. Len(file) = n + 1 /\ file[n + 1] = <<>>
    BY StoredLines
  <1>3. file = [i \in 1 .. n + 1 |-> IF i <= n THEN text(chain[i]) ELSE <<>>]
    BY Zenon DEF StoredAs
  <1>4. Append(file[n + 1], [block |-> b, whole |-> TRUE]) = text(b)
    <2>1. PICK empty : empty = <<>>
      OBVIOUS
    <2>2. PICK record : record = [block |-> b, whole |-> TRUE]
      OBVIOUS
    <2>3. Append(<<>>, record) = << record >>
      OBVIOUS
    <2>. QED  BY ONLY <1>2, <2>2, <2>3, Zenon
  <1>5. filled = [i \in 1 .. n + 1 |-> text(longer[i])]
    <2>1. filled = [i \in 1 .. n + 1 |-> IF i = n + 1 THEN text(b) ELSE file[i]]
      <3>. HIDE DEF text, file, n
      <3>. QED  BY <1>3, <1>4
    <2>2. ASSUME NEW i \in 1 .. n + 1
          PROVE  (IF i = n + 1 THEN text(b) ELSE file[i]) = text(longer[i])
      <3>1. CASE i = n + 1
        BY <3>1, <1>1
      <3>2. CASE i # n + 1
        <4>1. i \in 1 .. n
          BY <3>2, <1>1
        <4>2. file[i] = text(chain[i])
          BY <4>1, StoredLines, Zenon
        <4>. HIDE DEF text
        <4>. QED  BY <3>2, <4>1, <4>2, <1>1, Zenon
      <3>. QED  BY <3>1, <3>2
    <2>. HIDE DEF text, file, filled, longer, n
    <2>. QED  BY <2>1, <2>2
  <1>6. Write(file, b, "line") = Append(filled, <<>>)
    BY <1>2 DEF Write
  <1>7. StoredAs(longer) = [i \in 1 .. n + 2 |-> IF i <= n + 1 THEN text(longer[i]) ELSE <<>>]
    <2>1. n + 1 + 1 = n + 2
      BY <1>1
    <2>. HIDE DEF longer, n
    <2>. QED  BY <1>1, <2>1, Zenon DEF StoredAs
  <1>8. Append(filled, <<>>) = StoredAs(longer)
    <2>1. PICK empty : empty = <<>>
      OBVIOUS
    <2>2. Append(filled, empty) = [i \in 1 .. n + 2 |-> IF i <= n + 1 THEN filled[i] ELSE empty]
      <3>. HIDE DEF filled, text, longer, file, n
      <3>1. n + 1 \in Nat /\ (n + 1) + 1 = n + 2
        BY <1>1
      <3>2. filled = [i \in 1 .. n + 1 |-> filled[i]]
        BY <1>5
      <3>. QED  BY ONLY <3>1, <3>2, AppendAsFunction
    <2>3. ASSUME NEW i \in 1 .. n + 2
          PROVE  (IF i <= n + 1 THEN filled[i] ELSE empty)
                   = (IF i <= n + 1 THEN text(longer[i]) ELSE empty)
      <3>. HIDE DEF filled, text, longer, file, n
      <3>. QED  BY <1>1, <1>5
    <2>. HIDE DEF filled, text, longer, file, n
    <2>. QED  BY ONLY <1>7, <2>1, <2>2, <2>3, Zenon
  <1>. QED  BY <1>6, <1>8

----------------------------------------------------------------------------
\* What a start and AddBlock make of the chain, for any chain but the empty one.
Sound(chain) ==
    /\ Linked(chain)
    /\ chain # <<>> => chain[1] = Genesis
    /\ \A i \in 1 .. Len(chain) : chain[i].Height = i - 1

\* The next block extends a sound chain to a sound chain.
LEMMA NextBlockSound ==
    ASSUME NEW now \in Nat, NEW validator \in Address, NEW transactions \in Seq(TxHash),
           blocks \in Seq(Block), blocks # <<>>, Sound(blocks)
    PROVE  LET b == NextBlock(now, validator, transactions)
           IN  b \in Block /\ Sound(Append(blocks, b))
  <1>. DEFINE n == Len(blocks)
              b == NextBlock(now, validator, transactions)
              longer == Append(blocks, b)
  <1>1. n \in Nat /\ n >= 1
    BY EmptySeq, LenProperties
  <1>2. LatestBlock \in Block /\ Height \in Nat /\ LatestBlock.Hash \in Hash
    BY LatestBlockType
  <1>3. /\ b \in Block /\ b.Height = Height + 1 /\ b.PrevHash = LatestBlock.Hash
        /\ b.Hash = calculateHash(b)
    BY <1>2, NewBlockFacts DEF NextBlock
  <1>4. Height = n - 1
    BY <1>1 DEF Height, LatestBlock, Sound
  <1>. HIDE DEF b
  <1>5. /\ longer \in Seq(Block) /\ longer # <<>> /\ Len(longer) = n + 1
        /\ longer[n + 1] = b /\ \A i \in 1 .. n : longer[i] = blocks[i]
    BY <1>3, AppendFacts
  <1>. HIDE DEF longer
  <1>6. longer[1] = Genesis
    BY <1>1, <1>5 DEF Sound
  <1>7. \A i \in 1 .. Len(longer) : longer[i].Height = i - 1
    BY <1>1, <1>3, <1>4, <1>5 DEF Sound
  <1>8. ASSUME NEW i \in 2 .. Len(longer) PROVE ValidLink(longer[i], longer[i - 1])
    <2>1. CASE i = n + 1
      <3>1. longer[i] = b /\ longer[i - 1] = LatestBlock
        BY <1>1, <1>5, <2>1 DEF LatestBlock
      <3>. QED  BY <1>3, <3>1, Zenon DEF ValidLink, Height
    <2>2. CASE i # n + 1
      <3>1. i \in 2 .. n /\ i \in 1 .. n /\ i - 1 \in 1 .. n
        BY <1>1, <1>5, <2>2
      <3>. QED  BY <1>5, <3>1, Zenon DEF Sound, Linked
    <2>. QED  BY <2>1, <2>2
  <1>9. Sound(longer)
    BY <1>6, <1>7, <1>8 DEF Sound, Linked
  <1>. QED  BY <1>3, <1>9 DEF longer, b

\* No file is the file of the empty chain, and the file that the first start
\* writes is that of the genesis block alone.
LEMMA FirstFiles ==
    /\ <<>> \in Seq(Block) /\ NoFile = StoredAs(<<>>) /\ Sound(<<>>)
    /\ << Genesis >> \in Seq(Block) /\ << Genesis >> # <<>> /\ Sound(<< Genesis >>)
    /\ << Genesis >> = Append(<<>>, Genesis)
    /\ Write(NoFile, Genesis, "line") = StoredAs(<< Genesis >>)
    /\ Write(NoFile, Genesis, "none") = NoFile
  <1>1. Genesis \in Block /\ Genesis.Height = 0
    BY GenesisFacts
  <1>2. PICK empty : empty = <<>>
    OBVIOUS
  <1>3. empty \in Seq(Block) /\ Len(empty) = 0 /\ Sound(empty)
    BY <1>2 DEF Sound, Linked
  <1>4. StoredAs(empty) = NoFile
    <2>1. StoredAs(empty) = [i \in 1 .. 1 |-> empty]
      <3>1. 1 .. Len(empty) + 1 = 1 .. 1 /\ \A i \in 1 .. 1 : ~(i <= Len(empty))
        BY <1>3
      <3>. QED  BY ONLY <1>2, <3>1, Zenon DEF StoredAs
    <2>. QED  BY <1>2, <2>1 DEF NoFile
  <1>5. PICK one : one = << Genesis >>
    OBVIOUS
  <1>6. /\ one \in Seq(Block) /\ one # empty /\ Len(one) = 1 /\ one[1] = Genesis
        /\ one = Append(empty, Genesis)
    BY <1>1, <1>2, <1>5
  <1>7. Sound(one)
    BY <1>1, <1>6 DEF Sound, Linked
  <1>8. Write(NoFile, Genesis, "line") = StoredAs(one)
    BY ONLY <1>1, <1>3, <1>4, <1>6, WriteLine, Zenon
  <1>9. Write(NoFile, Genesis, "none") = NoFile
    BY DEF Write
  <1>. QED  BY ONLY <1>2, <1>3, <1>4, <1>5, <1>6, <1>7, <1>8, <1>9, Zenon
=============================================================================
