---------------------------- MODULE BupSlaveProofs ----------------------------
(***************************************************************************)
(* First the file that the KIO slave has open (ChunkFile), then the slave  *)
(* itself (BupSlave).                                                      *)
(***************************************************************************)
EXTENDS BupSlave, SequenceTheorems, TLAPS

-----------------------------------------------------------------------------
(***************************************************************************)
(* A chunk file keeps the promise of a file (ChunkFile, ByteFile), as long *)
(* as the file fits the integers that seek() computes with.  The proof     *)
(* rests on an invariant that says, for each loop, where in the file the   *)
(* top of mPositionStack is.                                               *)
(***************************************************************************)
\* The file is no longer than a uint counts, and a position in a blob fits an int.
SmallFile ==
  /\ FileSize <= UintSize
  /\ \A b \in Blobs : 2 * Length[b] <= UintSize

Positions == [tree : Trees, index : Nat, skip : Nat]

TypeInv ==
  /\ pc \in {"idle", "searching", "advancing"}
  /\ known \in BOOLEAN /\ valid \in BOOLEAN
  /\ offset \in 0..FileSize
  /\ stack \in Seq(Positions)
  /\ local \in Nat /\ lower \in Nat /\ upper \in Nat

\* The stack is a path from the root, each entry the tree above it.
Chained(s) ==
  /\ s # <<>> => s[1].tree = Root
  /\ \A k \in 1..Len(s) : End(s[k].tree) <= FileSize
  /\ \A k \in 1..(Len(s) - 1) :
       /\ s[k].index < Count(s[k].tree) /\ s[k].skip = 0
       /\ Entry(s[k].tree, s[k].index) = s[k + 1].tree

\* A position is an offset only in a file whose size is known.
Learned ==
  /\ valid \/ pc # "idle" => known
  /\ ~valid => offset < FileSize

\* Between lower and upper is the entry that holds the offset.
Between(t, position, low, up, loc) ==
  /\ Start[t] + loc = position /\ loc < Length[t]
  /\ low < up /\ up <= Count(t)
  /\ Offset(t, low) <= loc
  /\ up < Count(t) => loc < Offset(t, up)

Searching ==
  pc = "searching" =>
    /\ ~valid /\ blob = NoBlob
    /\ stack # <<>> => /\ Top.skip = 0
                       /\ Between(Top.tree, offset, lower, upper, local)

\* What comes next is at the offset: an entry of the tree, or what follows the tree.
NextAt(p, position) ==
  /\ p.index <= Count(p.tree) /\ p.skip = 0
  /\ IF p.index < Count(p.tree)
     THEN Start[Entry(p.tree, p.index)] = position
     ELSE End(p.tree) = position

Advancing ==
  pc = "advancing" =>
    /\ valid /\ stack # <<>> /\ NextAt(Top, offset)
    /\ chunk.from \in Nat /\ chunk.from < offset /\ chunk.to = offset

\* The blob at the top of the stack holds the offset, or the tree there begins at it.
Holds(p, position) ==
  LET entry == Entry(p.tree, p.index) IN
  /\ p.index < Count(p.tree)
  /\ Start[entry] + p.skip = position
  /\ p.skip < Length[entry]
  /\ entry \in Trees => p.skip = 0

Placed ==
  pc = "idle" /\ valid =>
    IF offset = FileSize
    THEN stack = <<>>
    ELSE /\ stack # <<>> /\ Holds(Top, offset)
         /\ Top.skip # 0 => blob \in {NoBlob, Entry(Top.tree, Top.index)}

IInv == TypeInv /\ Chained(stack) /\ Learned /\ Searching /\ Advancing /\ Placed

-----------------------------------------------------------------------------
(***************************************************************************)
(* The tree.                                                               *)
(***************************************************************************)
LEMMA Sizes ==
  /\ FileSize \in Nat \ {0}
  /\ UintSize \in Nat \ {0}
  /\ Root \in Trees /\ Start[Root] = 0 /\ End(Root) = FileSize
  /\ \A n \in Nodes : Start[n] \in Nat /\ Length[n] \in Nat \ {0} /\ End(n) \in Nat
  /\ \A t \in Trees : t \in Nodes /\ Count(t) \in Nat \ {0}
  BY TreeAssumption DEF FileSize, End, Nodes, Count

\* An entry lies in its tree, and the next one begins where it ends.
LEMMA EntryFacts ==
  ASSUME NEW t \in Trees, NEW i \in 0..(Count(t) - 1)
  PROVE  /\ Entry(t, i) \in Nodes
         /\ Start[t] <= Start[Entry(t, i)]
         /\ End(Entry(t, i)) <= End(t)
         /\ i = 0 => Start[Entry(t, i)] = Start[t]
         /\ i + 1 < Count(t) => Start[Entry(t, i + 1)] = End(Entry(t, i))
         /\ i + 1 = Count(t) => End(t) = End(Entry(t, i))
<1>1. Entry(t, i) \in Nodes /\ Count(t) \in Nat \ {0}
  BY TreeAssumption DEF Entry, Count
<1>0. /\ Entry(t, 0) \in Nodes /\ Entry(t, Count(t) - 1) \in Nodes
      /\ 0 \in 0..(Count(t) - 1) /\ Count(t) - 1 \in 0..(Count(t) - 1)
  BY TreeAssumption DEF Entry, Count
<1>2. /\ Start[Entry(t, 0)] = Start[t]
      /\ End(Entry(t, Count(t) - 1)) = End(t)
      /\ \A k \in 0..(Count(t) - 2) : Start[Entry(t, k + 1)] = End(Entry(t, k))
      /\ \A k, j \in 0..(Count(t) - 1) : k < j => End(Entry(t, k)) <= Start[Entry(t, j)]
  BY TreeAssumption
<1>3. \A n \in Nodes : Start[n] \in Nat /\ Length[n] \in Nat \ {0} /\ End(n) = Start[n] + Length[n]
  BY TreeAssumption DEF End
<1>4. Start[t] <= Start[Entry(t, i)]
  <2>1. CASE i = 0
    BY <2>1, <1>1, <1>2, <1>3 DEF Nodes
  <2>2. CASE i # 0
    <3>1. End(Entry(t, 0)) <= Start[Entry(t, i)]
      BY <2>2, <1>0, <1>2
    <3> QED
      BY <3>1, <1>0, <1>1, <1>2, <1>3
  <2> QED
    BY <2>1, <2>2
<1>5. End(Entry(t, i)) <= End(t)
  <2>1. CASE i = Count(t) - 1
    BY <2>1, <1>1, <1>2, <1>3 DEF Nodes
  <2>2. CASE i # Count(t) - 1
    <3>1. End(Entry(t, i)) <= Start[Entry(t, Count(t) - 1)]
      BY <2>2, <1>0, <1>1, <1>2
    <3> QED
      BY <3>1, <1>0, <1>1, <1>2, <1>3
  <2> QED
    BY <2>1, <2>2
<1>6. i + 1 < Count(t) => Start[Entry(t, i + 1)] = End(Entry(t, i))
  BY <1>1, <1>2
<1>7. i + 1 = Count(t) => End(t) = End(Entry(t, i))
  <2>1. i + 1 = Count(t) => i = Count(t) - 1
    BY <1>1
  <2> QED
    BY <2>1, <1>2
<1>8. i = 0 => Start[Entry(t, i)] = Start[t]
  BY <1>2
<1> QED
  BY <1>1, <1>4, <1>5, <1>6, <1>7, <1>8

\* What fits a uint or an int is what it was.
LEMMA Fits ==
  ASSUME NEW n \in Nat, n < UintSize
  PROVE  /\ n % UintSize = n
         /\ 2 * n < UintSize => AsInt(n) = n
<1>1. n % UintSize = n
  BY Sizes
<1> QED
  BY <1>1 DEF AsInt

-----------------------------------------------------------------------------
(***************************************************************************)
(* The stack.                                                              *)
(***************************************************************************)
LEMMA PositionFacts ==
  ASSUME NEW t \in Trees
  PROVE  /\ Position(t) \in Positions
         /\ Position(t).tree = t /\ Position(t).index = 0 /\ Position(t).skip = 0
  BY DEF Position, Positions

LEMMA StartChained ==
  /\ <<Position(Root)>> \in Seq(Positions)
  /\ <<Position(Root)>> # <<>> /\ Len(<<Position(Root)>>) = 1
  /\ <<Position(Root)>>[1] = Position(Root)
  /\ Chained(<<Position(Root)>>)
<1>1. Position(Root) \in Positions /\ Position(Root).tree = Root /\ End(Root) <= FileSize
  BY Sizes, PositionFacts
<1> DEFINE p == Position(Root)
<1>2. p \in Positions /\ p.tree = Root /\ End(Root) <= FileSize
  BY <1>1
<1> HIDE DEF p
<1>3. /\ <<p>> \in Seq(Positions) /\ <<p>> # <<>> /\ Len(<<p>>) = 1 /\ <<p>>[1] = p
  BY <1>2
<1>4. Chained(<<p>>)
  BY <1>2, <1>3 DEF Chained
<1> QED
  BY <1>3, <1>4 DEF p

\* A stack without its top.
LEMMA FrontFacts ==
  ASSUME NEW s \in Seq(Positions), s # <<>>
  PROVE  LET w == SubSeq(s, 1, Len(s) - 1) IN
         /\ Len(s) \in Nat \ {0}
         /\ w \in Seq(Positions) /\ Len(w) = Len(s) - 1
         /\ \A k \in 1..(Len(s) - 1) : w[k] = s[k]
<1>1. Len(s) \in Nat \ {0} /\ Len(s) - 1 \in Int /\ 1 \in Int
  BY EmptySeq
<1>2. \A k \in 1..(Len(s) - 1) : s[k] \in Positions
  BY <1>1
<1> DEFINE w == SubSeq(s, 1, Len(s) - 1)
           m == Len(s) - 1
<1>3. /\ w \in Seq(Positions)
      /\ Len(w) = IF 1 <= m THEN m - 1 + 1 ELSE 0
      /\ \A k \in 1..(m - 1 + 1) : w[k] = s[1 + k - 1]
  BY <1>1, <1>2, SubSeqProperties
<1> HIDE DEF w
<1>4. Len(w) = Len(s) - 1
  <2>1. m \in Nat
    BY <1>1
  <2>2. Len(w) = IF 1 <= m THEN m - 1 + 1 ELSE 0
    BY <1>3
  <2> HIDE DEF m
  <2>3. Len(w) = m
    BY <2>1, <2>2
  <2> QED
    BY <2>3 DEF m
<1>5. \A k \in 1..(Len(s) - 1) : w[k] = s[k]
  BY <1>1, <1>3
<1> QED
  BY <1>1, <1>3, <1>4, <1>5 DEF w

\* The top may change, as long as it stays in its tree.
LEMMA TopChained ==
  ASSUME NEW s \in Seq(Positions), s # <<>>, Chained(s),
         NEW p \in Positions, p.tree = s[Len(s)].tree
  PROVE  /\ WithTop(s, p) \in Seq(Positions) /\ WithTop(s, p) # <<>>
         /\ Len(WithTop(s, p)) = Len(s)
         /\ WithTop(s, p)[Len(s)] = p
         /\ \A k \in 1..(Len(s) - 1) : WithTop(s, p)[k] = s[k]
         /\ Chained(WithTop(s, p))
<1> DEFINE w == WithTop(s, p)
           n == Len(s)
           f == SubSeq(s, 1, Len(s) - 1)
<1>1. /\ n \in Nat \ {0}
      /\ f \in Seq(Positions) /\ Len(f) = n - 1
      /\ \A k \in 1..(n - 1) : f[k] = s[k]
  BY FrontFacts
<1>2. /\ w \in Seq(Positions) /\ Len(w) = n
      /\ w[n] = p
      /\ \A k \in 1..(n - 1) : w[k] = s[k]
  <2>1. w = Append(f, p)
    BY DEF WithTop
  <2> HIDE DEF w, f
  <2> QED
    BY <1>1, <2>1, AppendProperties
<1>3. w # <<>>
  BY <1>1, <1>2
<1> HIDE DEF w
<1>4. \A k \in 1..n : w[k].tree = s[k].tree
  BY <1>1, <1>2
<1>5. Chained(w)
  <2>1. w[1].tree = Root
    BY <1>1, <1>4 DEF Chained
  <2>2. \A k \in 1..Len(w) : End(w[k].tree) <= FileSize
    BY <1>2, <1>4 DEF Chained
  <2>3. ASSUME NEW k \in 1..(Len(w) - 1)
        PROVE  /\ w[k].index < Count(w[k].tree) /\ w[k].skip = 0
               /\ Entry(w[k].tree, w[k].index) = w[k + 1].tree
    <3>1. w[k] = s[k] /\ w[k + 1].tree = s[k + 1].tree
      BY <1>1, <1>2, <1>4
    <3>2. k \in 1..(Len(s) - 1)
      BY <1>2
    <3> QED
      BY <3>1, <3>2 DEF Chained
  <2> QED
    BY <2>1, <2>2, <2>3 DEF Chained
<1> QED
  BY <1>2, <1>3, <1>5 DEF w

\* Going down to the entry that is a tree.
LEMMA PushChained ==
  ASSUME NEW s \in Seq(Positions), s # <<>>, Chained(s),
         NEW t \in Trees,
         s[Len(s)].index < Count(s[Len(s)].tree), s[Len(s)].skip = 0,
         Entry(s[Len(s)].tree, s[Len(s)].index) = t
  PROVE  /\ Append(s, Position(t)) \in Seq(Positions)
         /\ Append(s, Position(t)) # <<>>
         /\ Len(Append(s, Position(t))) = Len(s) + 1
         /\ Append(s, Position(t))[Len(s) + 1] = Position(t)
         /\ Chained(Append(s, Position(t)))
<1> DEFINE q == Position(t)
           w == Append(s, q)
           n == Len(s)
<1>1. q \in Positions /\ q.tree = t
  BY PositionFacts
<1> HIDE DEF q
<1>2. n \in Nat \ {0}
  BY EmptySeq
<1>3. /\ w \in Seq(Positions) /\ Len(w) = n + 1 /\ w # <<>>
      /\ w[n + 1] = q
      /\ \A k \in 1..n : w[k] = s[k]
  BY <1>1, <1>2
<1> HIDE DEF w
<1>4. s[n].tree \in Trees /\ s[n].index \in Nat
  <2>1. s[n] \in Positions
    BY <1>2
  <2> QED
    BY <2>1 DEF Positions
<1>5. End(t) <= FileSize
  <2>1. s[n].index \in 0..(Count(s[n].tree) - 1)
    BY <1>4, Sizes
  <2>2. End(t) <= End(s[n].tree)
    BY <2>1, <1>4, EntryFacts
  <2>3. End(s[n].tree) <= FileSize
    BY <1>2 DEF Chained
  <2> QED
    BY <2>2, <2>3, <1>4, Sizes
<1>6. Chained(w)
  <2>1. w[1].tree = Root
    BY <1>2, <1>3 DEF Chained
  <2>2. \A k \in 1..Len(w) : End(w[k].tree) <= FileSize
    <3>1. \A k \in 1..n : End(w[k].tree) <= FileSize
      BY <1>3 DEF Chained
    <3> QED
      BY <3>1, <1>1, <1>2, <1>3, <1>5
  <2>3. ASSUME NEW k \in 1..(Len(w) - 1)
        PROVE  /\ w[k].index < Count(w[k].tree) /\ w[k].skip = 0
               /\ Entry(w[k].tree, w[k].index) = w[k + 1].tree
    <3>1. CASE k = n
      BY <3>1, <1>1, <1>2, <1>3
    <3>2. CASE k # n
      <4>1. k \in 1..(n - 1) /\ w[k] = s[k] /\ w[k + 1] = s[k + 1]
        BY <3>2, <1>2, <1>3
      <4> QED
        BY <4>1 DEF Chained
    <3> QED
      BY <3>1, <3>2
  <2> QED
    BY <2>1, <2>2, <2>3 DEF Chained
<1> QED
  BY <1>3, <1>6 DEF w, q

\* Going back up to the tree above.
LEMMA PopChained ==
  ASSUME NEW s \in Seq(Positions), Len(s) # 1, s # <<>>, Chained(s)
  PROVE  LET w == SubSeq(s, 1, Len(s) - 1) IN
         /\ w \in Seq(Positions) /\ w # <<>> /\ Len(w) = Len(s) - 1
         /\ w[Len(w)] = s[Len(s) - 1]
         /\ Chained(w)
         /\ w[Len(w)].index < Count(w[Len(w)].tree) /\ w[Len(w)].skip = 0
         /\ Entry(w[Len(w)].tree, w[Len(w)].index) = s[Len(s)].tree
<1> DEFINE w == SubSeq(s, 1, Len(s) - 1)
           n == Len(s)
<1>0. n \in Nat \ {0} /\ n # 1
  BY EmptySeq
<1>1. n \in Nat /\ n > 1 /\ n - 1 \in 1..n
  <2> HIDE DEF n
  <2> QED
    BY <1>0
<1>2. /\ w \in Seq(Positions) /\ Len(w) = n - 1
      /\ \A k \in 1..(n - 1) : w[k] = s[k]
  BY FrontFacts
<1> HIDE DEF w
<1>3. w # <<>>
  BY <1>1, <1>2
<1>4. w[Len(w)] = s[n - 1]
  BY <1>1, <1>2
<1>5. Chained(w)
  <2>1. w[1].tree = Root
    BY <1>1, <1>2 DEF Chained
  <2>2. \A k \in 1..Len(w) : End(w[k].tree) <= FileSize
    BY <1>1, <1>2 DEF Chained
  <2>3. ASSUME NEW k \in 1..(Len(w) - 1)
        PROVE  /\ w[k].index < Count(w[k].tree) /\ w[k].skip = 0
               /\ Entry(w[k].tree, w[k].index) = w[k + 1].tree
    <3>1. w[k] = s[k] /\ w[k + 1] = s[k + 1] /\ k \in 1..(n - 1)
      BY <1>1, <1>2
    <3> QED
      BY <3>1 DEF Chained
  <2> QED
    BY <2>1, <2>2, <2>3 DEF Chained
<1>6. /\ s[n - 1].index < Count(s[n - 1].tree) /\ s[n - 1].skip = 0
      /\ Entry(s[n - 1].tree, s[n - 1].index) = s[n].tree
  <2>1. n - 1 \in 1..(n - 1) /\ (n - 1) + 1 = n
    BY <1>1
  <2> QED
    BY <2>1 DEF Chained
<1> QED
  BY <1>2, <1>3, <1>4, <1>5, <1>6 DEF w

-----------------------------------------------------------------------------
(***************************************************************************)
(* The invariant.                                                          *)
(***************************************************************************)
LEMMA InitIInv == Init => IInv
<1> SUFFICES ASSUME Init PROVE IInv
  OBVIOUS
<1>1. stack = <<>> /\ stack \in Seq(Positions) /\ Chained(stack)
  <2>1. stack = <<>>
    BY DEF Init
  <2>2. stack \in Seq(Positions) /\ Len(stack) = 0
    BY <2>1, EmptySeq
  <2> QED
    BY <2>1, <2>2 DEF Chained
<1>2. FileSize \in Nat \ {0}
  BY Sizes
<1>3. TypeInv
  <2>1. offset \in 0..FileSize
    BY <1>2 DEF Init
  <2>2. pc \in {"idle", "searching", "advancing"} /\ local \in Nat /\ lower \in Nat /\ upper \in Nat
    BY DEF Init
  <2>3. known \in BOOLEAN /\ valid \in BOOLEAN
    BY DEF Init
  <2> QED
    BY <1>1, <2>1, <2>2, <2>3 DEF TypeInv
<1>4. Learned
  BY <1>2 DEF Init, Learned
<1> QED
  BY <1>1, <1>3, <1>4 DEF Init, IInv, Searching, Advancing, Placed

\* A step that only learns the size, or answers.
LEMMA QuietIInv ==
  ASSUME IInv, known => known', known' \in BOOLEAN,
         UNCHANGED <<pc, offset, valid, stack, blob, seeking, chunk>>
  PROVE  IInv'
<1> USE DEF IInv, seeking
<1>1. TypeInv'
  BY DEF TypeInv
<1>2. Learned'
  BY DEF Learned
<1>3. Chained(stack')
  BY Zenon
<1>4. Searching'
  BY DEF Searching, Top
<1>5. Advancing'
  BY DEF Advancing, Top
<1>6. Placed'
  BY DEF Placed, Top
<1> QED
  BY <1>1, <1>2, <1>3, <1>4, <1>5, <1>6

LEMMA SizeFacts ==
  ASSUME TypeInv, NEW size, SizeIs(size)
  PROVE  /\ known => known'
         /\ known' \in BOOLEAN
         /\ size = FileSize \/ size = 0
         /\ size = FileSize => known'
  BY Sizes DEF SizeIs, TypeInv

LEMMA StartSeekIInv ==
  ASSUME IInv, NEW o \in Nat, StartSeek(o)
  PROVE  IInv'
<1>1. /\ pc' = "searching" /\ known' = TRUE /\ o < FileSize
      /\ offset' = o /\ valid' = FALSE /\ stack' = <<>> /\ blob' = NoBlob
      /\ local' = local /\ lower' = lower /\ upper' = upper
  BY Sizes DEF StartSeek, SizeIs, seeking
<1>2. stack' \in Seq(Positions) /\ Len(stack') = 0
  BY <1>1, EmptySeq
<1>3. TypeInv'
  <2>1. FileSize \in Nat \ {0}
    BY Sizes
  <2>2. known' \in BOOLEAN /\ valid' \in BOOLEAN
    BY <1>1
  <2> QED
    BY <1>1, <1>2, <2>1, <2>2 DEF IInv, TypeInv
<1>4. Chained(stack')
  BY <1>1, <1>2 DEF Chained
<1>5. Learned' /\ Searching' /\ Advancing' /\ Placed'
  BY <1>1 DEF Learned, Searching, Advancing, Placed
<1> QED
  BY <1>3, <1>4, <1>5 DEF IInv

LEMMA SearchRootIInv ==
  ASSUME IInv, SearchRoot
  PROVE  IInv'
<1>1. /\ pc = "searching" /\ pc' = pc /\ stack' = <<Position(Root)>>
      /\ local' = offset /\ lower' = 0 /\ upper' = Count(Root)
      /\ known' = known /\ offset' = offset /\ valid' = valid /\ blob' = blob
  BY DEF SearchRoot, SearchIn
<1>2. ~valid /\ blob = NoBlob /\ known /\ offset \in Nat /\ offset < FileSize
  BY <1>1, Sizes DEF IInv, TypeInv, Learned, Searching
<1>3. /\ stack' \in Seq(Positions) /\ stack' # <<>> /\ Len(stack') = 1
      /\ stack'[1] = Position(Root) /\ Chained(stack')
  BY <1>1, StartChained
<1>4. TypeInv'
  BY <1>1, <1>2, <1>3, Sizes DEF IInv, TypeInv
<1>5. Between(Root, offset', lower', upper', local')
  <2>1. Offset(Root, 0) = 0
    <3>1. 0 \in 0..(Count(Root) - 1)
      BY Sizes
    <3> QED
      BY <3>1, EntryFacts, Sizes DEF Offset
  <2> QED
    BY <1>1, <1>2, <2>1, Sizes DEF Between, FileSize
<1>6. Top'.tree = Root /\ Top'.skip = 0
  BY <1>3, PositionFacts, Sizes DEF Top
<1>7. Searching'
  BY <1>1, <1>2, <1>5, <1>6 DEF Searching
<1>8. Learned' /\ Advancing' /\ Placed'
  BY <1>1, <1>2 DEF Learned, Advancing, Placed
<1> QED
  BY <1>3, <1>4, <1>7, <1>8 DEF IInv

LEMMA SeekFailsIInv ==
  ASSUME IInv, SeekFails
  PROVE  IInv'
<1>1. /\ pc = "searching" /\ pc' = "idle"
      /\ local' = 0 /\ lower' = 0 /\ upper' = 0
      /\ UNCHANGED <<known, offset, valid, stack, blob>>
  BY DEF SeekFails, OutOfScope
<1>2. ~valid
  BY <1>1 DEF IInv, Searching
<1>3. TypeInv' /\ Learned'
  BY <1>1, <1>2 DEF IInv, TypeInv, Learned
<1>4. Chained(stack')
  BY <1>1 DEF IInv
<1>5. Searching' /\ Advancing' /\ Placed'
  BY <1>1, <1>2 DEF Searching, Advancing, Placed
<1> QED
  BY <1>3, <1>4, <1>5 DEF IInv

\* The top of the stack, while it is searched or being read.
LEMMA TopFacts ==
  ASSUME IInv, stack # <<>>
  PROVE  /\ Len(stack) \in Nat \ {0}
         /\ Top \in Positions /\ Top.tree \in Trees /\ Top.index \in Nat /\ Top.skip \in Nat
         /\ End(Top.tree) <= FileSize
<1>1. stack \in Seq(Positions) /\ Chained(stack)
  BY DEF IInv, TypeInv
<1>2. Len(stack) \in Nat \ {0}
  BY <1>1, EmptySeq
<1>3. Top \in Positions
  BY <1>1, <1>2 DEF Top
<1>4. End(Top.tree) <= FileSize
  BY <1>1, <1>2 DEF Chained, Top
<1> QED
  BY <1>2, <1>3, <1>4 DEF Positions

LEMMA HalveIInv ==
  ASSUME IInv, Halve
  PROVE  IInv'
<1> DEFINE m == lower + (upper - lower) \div 2
           t == Top.tree
<1>1. /\ pc = "searching" /\ stack # <<>> /\ upper - lower > 1
      /\ upper' = IF Offset(t, m) > local THEN m ELSE upper
      /\ lower' = IF Offset(t, m) > local THEN lower ELSE m
      /\ UNCHANGED <<pc, known, offset, valid, stack, blob, local>>
  BY DEF Halve
<1>2. /\ ~valid /\ blob = NoBlob /\ Top.skip = 0
      /\ Between(t, offset, lower, upper, local)
      /\ lower \in Nat /\ upper \in Nat /\ local \in Nat
  BY <1>1 DEF IInv, Searching, TypeInv
<1>3. t \in Trees /\ Count(t) \in Nat
  BY <1>1, TopFacts, Sizes
<1>4. m \in Nat /\ lower < m /\ m < upper
  BY <1>1, <1>2
<1> HIDE DEF m, t
<1>5. Offset(t, m) \in Int
  <2>1. m \in 0..(Count(t) - 1)
    BY <1>2, <1>3, <1>4 DEF Between
  <2> QED
    BY <2>1, <1>3, EntryFacts, Sizes DEF Offset
<1>6. Between(t, offset, lower', upper', local)
  BY <1>1, <1>2, <1>3, <1>4, <1>5 DEF Between
<1>7. TypeInv'
  BY <1>1, <1>2, <1>4 DEF IInv, TypeInv
<1>8. Searching'
  BY <1>1, <1>2, <1>6 DEF Searching, Top, t
<1>9. Learned' /\ Advancing' /\ Placed' /\ Chained(stack')
  BY <1>1, <1>2 DEF IInv, Learned, Advancing, Placed
<1> QED
  BY <1>7, <1>8, <1>9 DEF IInv

\* What the search has found: lower is the entry that holds the offset.
LEMMA FoundFacts ==
  ASSUME SmallFile, IInv, Descend
  PROVE  LET t == Top.tree
             e == Entry(t, lower)
             r == local - LowerOffset
         IN  /\ pc = "searching" /\ stack # <<>> /\ ~valid /\ known /\ blob = NoBlob
             /\ t \in Trees /\ lower \in Nat /\ lower < Count(t)
             /\ Top.skip = 0 /\ e \in Nodes
             /\ r \in Nat /\ Start[e] + r = offset /\ r < Length[e]
             /\ offset \in Nat /\ offset < FileSize
<1> DEFINE t == Top.tree
           e == Entry(t, lower)
<1>1. /\ pc = "searching" /\ stack # <<>> /\ upper - lower <= 1
      /\ UNCHANGED <<known, offset, blob, chunk>>
  BY DEF Descend
<1>2. /\ ~valid /\ blob = NoBlob /\ Top.skip = 0 /\ known
      /\ Between(t, offset, lower, upper, local)
      /\ lower \in Nat /\ upper \in Nat /\ local \in Nat
      /\ offset \in Nat /\ offset < FileSize
  BY <1>1, Sizes DEF IInv, Searching, TypeInv, Learned
<1>3. t \in Trees /\ Count(t) \in Nat /\ t \in Nodes /\ Start[t] \in Nat /\ Length[t] \in Nat
  BY <1>1, TopFacts, Sizes
<1>4. End(t) <= FileSize /\ End(t) = Start[t] + Length[t]
  BY <1>1, TopFacts DEF End
<1> HIDE DEF t
<1>5. lower \in 0..(Count(t) - 1) /\ upper = lower + 1
  BY <1>1, <1>2, <1>3 DEF Between
<1>6. /\ e \in Nodes /\ Start[t] <= Start[e] /\ End(e) <= End(t)
      /\ lower + 1 < Count(t) => Start[Entry(t, lower + 1)] = End(e)
      /\ lower + 1 = Count(t) => End(t) = End(e)
  BY <1>3, <1>5, EntryFacts
<1>7. Start[e] \in Nat /\ Length[e] \in Nat \ {0} /\ End(e) = Start[e] + Length[e]
  BY <1>6, Sizes DEF End
<1>8. Offset(t, lower) = Start[e] - Start[t]
  BY DEF Offset
<1> HIDE DEF e
<1>9. LowerOffset = Start[e] - Start[t]
  <2>1. Start[e] - Start[t] \in Nat /\ Start[e] - Start[t] < UintSize
    BY <1>3, <1>4, <1>6, <1>7, Sizes DEF SmallFile
  <2>2. LowerOffset = (Start[e] - Start[t]) % UintSize
    BY <1>8 DEF LowerOffset, t
  <2> QED
    BY <2>1, <2>2, Fits
<1>10. Start[t] + local = offset /\ Offset(t, lower) <= local /\ local < Length[t]
  BY <1>2 DEF Between
<1>11. local - LowerOffset \in Nat /\ Start[e] + (local - LowerOffset) = offset
  BY <1>2, <1>3, <1>7, <1>8, <1>9, <1>10
<1>12. offset < End(e)
  <2>1. CASE upper < Count(t)
    <3>1. local < Offset(t, upper)
      BY <2>1, <1>2 DEF Between
    <3>2. Offset(t, upper) = End(e) - Start[t]
      BY <2>1, <1>5, <1>6 DEF Offset
    <3> QED
      BY <3>1, <3>2, <1>2, <1>3, <1>7, <1>10
  <2>2. CASE upper = Count(t)
    <3>1. End(t) = End(e)
      BY <2>2, <1>5, <1>6
    <3> QED
      BY <3>1, <1>2, <1>3, <1>4, <1>7, <1>10
  <2> QED
    BY <2>1, <2>2, <1>2, <1>3 DEF Between
<1>13. local - LowerOffset < Length[e]
  BY <1>2, <1>7, <1>11, <1>12
<1>14. lower < Count(t)
  BY <1>3, <1>5
<1> QED
  BY <1>1, <1>2, <1>3, <1>6, <1>11, <1>13, <1>14 DEF t, e

LEMMA DescendIInv ==
  ASSUME SmallFile, IInv, Descend
  PROVE  IInv'
<1> DEFINE t == Top.tree
           e == Entry(t, lower)
           r == local - LowerOffset
           here == [Top EXCEPT !.index = lower]
<1>1. /\ pc = "searching" /\ stack # <<>> /\ ~valid /\ known /\ blob = NoBlob
      /\ t \in Trees /\ lower \in Nat /\ lower < Count(t)
      /\ Top.skip = 0 /\ e \in Nodes
      /\ r \in Nat /\ Start[e] + r = offset /\ r < Length[e]
      /\ offset \in Nat /\ offset < FileSize
  BY FoundFacts
<1>2. UNCHANGED <<known, offset, blob>>
  BY DEF Descend
<1>3. /\ Top \in Positions /\ Top = stack[Len(stack)] /\ Len(stack) \in Nat \ {0}
      /\ stack \in Seq(Positions) /\ Chained(stack)
  BY <1>1, TopFacts DEF Top, IInv, TypeInv
<1>4. /\ here \in Positions /\ here.tree = t /\ here.index = lower /\ here.skip = 0
  BY <1>1, <1>3 DEF Positions
<1>5. CASE /\ e \in Trees
           /\ local' = r
           /\ stack' = Append(WithTop(stack, here), Position(e))
           /\ SearchIn(e)
           /\ UNCHANGED <<pc, valid, answer>>
  <2> DEFINE w == WithTop(stack, here)
  <2>1. /\ w \in Seq(Positions) /\ w # <<>> /\ Len(w) = Len(stack)
        /\ w[Len(w)] = here /\ Chained(w)
    <3> HIDE DEF here
    <3> QED
      BY <1>1, <1>3, <1>4, TopChained
  <2> HIDE DEF w, here, e, r, t
  <2>2. /\ stack' = Append(w, Position(e))
        /\ local' = r /\ lower' = 0 /\ upper' = Count(e) /\ e \in Trees
        /\ pc' = pc /\ valid' = valid
    BY <1>5 DEF w, SearchIn
  <2>3. /\ stack' \in Seq(Positions) /\ stack' # <<>> /\ Len(stack') = Len(w) + 1
        /\ stack'[Len(w) + 1] = Position(e) /\ Chained(stack')
    <3>1. /\ w[Len(w)].index < Count(w[Len(w)].tree) /\ w[Len(w)].skip = 0
          /\ Entry(w[Len(w)].tree, w[Len(w)].index) = e
      BY <1>1, <1>4, <2>1 DEF e
    <3> QED
      BY <2>1, <2>2, <3>1, PushChained
  <2>4. TypeInv'
    <3>1. Count(e) \in Nat
      BY <2>2, Sizes
    <3> QED
      BY <1>1, <1>2, <2>2, <2>3, <3>1 DEF IInv, TypeInv
  <2>5. Top'.tree = e /\ Top'.skip = 0
    BY <2>2, <2>3, PositionFacts DEF Top
  <2>6. Between(e, offset', lower', upper', local')
    <3>1. Offset(e, 0) = 0 /\ Count(e) \in Nat \ {0}
      <4>1. 0 \in 0..(Count(e) - 1)
        BY <2>2, Sizes
      <4> QED
        BY <2>2, <4>1, EntryFacts, Sizes DEF Offset
    <3> QED
      BY <1>1, <1>2, <2>2, <3>1 DEF Between
  <2>7. Searching'
    BY <1>1, <1>2, <2>2, <2>5, <2>6 DEF Searching
  <2>8. Learned' /\ Advancing' /\ Placed'
    BY <1>1, <1>2, <2>2 DEF Learned, Advancing, Placed
  <2> QED
    BY <2>3, <2>4, <2>7, <2>8 DEF IInv
<1>6. CASE /\ e \in Blobs
           /\ stack' = WithTop(stack, [here EXCEPT !.skip = AsInt(r)])
           /\ pc' = "idle" /\ valid' = TRUE /\ answer' = Plain("found")
           /\ OutOfScope
  <2> DEFINE p == [here EXCEPT !.skip = AsInt(r)]
  <2>1. AsInt(r) = r
    <3>1. 2 * Length[e] <= UintSize /\ Length[e] \in Nat
      BY <1>1, <1>6, Sizes DEF SmallFile
    <3>2. r < UintSize /\ 2 * r < UintSize
      <4> HIDE DEF r, e
      <4> QED
        BY <1>1, <3>1, Sizes
    <3> QED
      BY <1>1, <3>2, Fits
  <2>2. p \in Positions /\ p.tree = t /\ p.index = lower /\ p.skip = r
    <3> HIDE DEF here, r
    <3> QED
      BY <1>1, <1>4, <2>1 DEF Positions
  <2>3. /\ stack' = WithTop(stack, p)
        /\ pc' = "idle" /\ valid' = TRUE /\ local' = 0 /\ lower' = 0 /\ upper' = 0
    BY <1>6 DEF OutOfScope
  <2> HIDE DEF p, r
  <2>4. /\ stack' \in Seq(Positions) /\ stack' # <<>> /\ Len(stack') = Len(stack)
        /\ stack'[Len(stack)] = p /\ Chained(stack')
    BY <1>1, <1>3, <2>2, <2>3, TopChained
  <2>5. Top' = p
    BY <2>4 DEF Top
  <2>6. valid' \in BOOLEAN /\ known' \in BOOLEAN /\ known'
    BY <1>1, <1>2, <2>3 DEF IInv, TypeInv
  <2>7. TypeInv'
    BY <1>1, <1>2, <2>3, <2>4, <2>6 DEF IInv, TypeInv
  <2>8. e \notin Trees
    BY <1>6, TreeAssumption
  <2>9. Holds(p, offset)
    BY <1>1, <2>2, <2>8 DEF Holds
  <2>10. Placed'
    BY <1>1, <1>2, <2>4, <2>5, <2>9 DEF Placed
  <2>11. Learned' /\ Searching' /\ Advancing'
    BY <2>3, <2>6 DEF Learned, Searching, Advancing
  <2> QED
    BY <2>4, <2>7, <2>10, <2>11 DEF IInv
<1> QED
  BY <1>5, <1>6 DEF Descend

\* What read() looks up is the blob that holds the offset.
LEMMA HereFacts ==
  ASSUME IInv, pc = "idle", valid, offset < FileSize
  PROVE  LET e == Entry(Top.tree, Top.index) IN
         /\ stack # <<>> /\ Here = e /\ e \in Nodes
         /\ Holds(Top, offset)
         /\ Start[e] \in Nat /\ Length[e] \in Nat \ {0} /\ End(e) <= FileSize
         /\ Start[e] + Top.skip = offset /\ Top.skip < Length[e]
         /\ Top.index < Count(Top.tree)
         /\ Top.index + 1 < Count(Top.tree) =>
              Start[Entry(Top.tree, Top.index + 1)] = End(e)
         /\ Top.index + 1 = Count(Top.tree) => End(Top.tree) = End(e)
<1> DEFINE t == Top.tree
           i == Top.index
           e == Entry(t, i)
<1>1. offset # FileSize
  BY Sizes DEF IInv, TypeInv
<1>2. /\ stack # <<>> /\ Holds(Top, offset)
      /\ Top.skip # 0 => blob \in {NoBlob, e}
  BY <1>1 DEF IInv, Placed
<1>3. Here = e
  BY <1>2 DEF Here, LetGo
<1>4. t \in Trees /\ i \in Nat /\ End(t) <= FileSize /\ End(t) \in Nat /\ Count(t) \in Nat
  BY <1>2, TopFacts, Sizes
<1>5. i < Count(t) /\ Start[e] + Top.skip = offset /\ Top.skip < Length[e]
  BY <1>2 DEF Holds
<1> HIDE DEF t, i
<1>6. i \in 0..(Count(t) - 1)
  BY <1>4, <1>5
<1>7. /\ e \in Nodes /\ End(e) <= End(t)
      /\ i + 1 < Count(t) => Start[Entry(t, i + 1)] = End(e)
      /\ i + 1 = Count(t) => End(t) = End(e)
  BY <1>4, <1>6, EntryFacts
<1>8. Start[e] \in Nat /\ Length[e] \in Nat \ {0} /\ End(e) \in Nat
  BY <1>7, Sizes
<1>9. End(e) <= FileSize
  BY <1>4, <1>7, <1>8, Sizes
<1> QED
  BY <1>2, <1>3, <1>5, <1>7, <1>8, <1>9 DEF t, i

\* The bytes read() takes are those from the offset on.
LEMMA TakenFacts ==
  ASSUME IInv, NEW n \in Nat, ReadBytes(n)
  PROVE  LET e == Entry(Top.tree, Top.index)
             available == Length[e] - Top.skip
             size == IF n > 0 /\ n < available THEN n ELSE available
         IN  /\ pc = "idle" /\ valid /\ offset \in Nat /\ offset < FileSize
             /\ known /\ known' = known /\ valid' = valid /\ UNCHANGED seeking
             /\ blob' = e /\ e \in Blobs
             /\ size \in Nat \ {0} /\ size <= available
             /\ size # available => n = size
             /\ offset' = offset + size /\ offset' <= FileSize
             /\ IF size = available
                THEN /\ stack' = WithTop(stack, [Top EXCEPT !.skip = 0, !.index = @ + 1])
                     /\ offset' = End(e)
                     /\ pc' = "advancing" /\ chunk' = [from |-> offset, to |-> offset']
                     /\ answer' = answer
                ELSE /\ stack' = WithTop(stack, [Top EXCEPT !.skip = @ + size])
                     /\ offset' < FileSize
                     /\ answer' = Bytes(offset, offset')
                     /\ pc' = pc /\ chunk' = chunk
<1> DEFINE e == Entry(Top.tree, Top.index)
           available == Length[e] - Top.skip
           size == IF n > 0 /\ n < available THEN n ELSE available
           from == IF Top.skip < 0 THEN -1 ELSE Start[e] + Top.skip
<1>1. /\ pc = "idle" /\ valid /\ offset < FileSize
  BY DEF ReadBytes
<1>2. offset \in Nat /\ known /\ known \in BOOLEAN
  BY <1>1, Sizes DEF IInv, TypeInv, Learned
<1>3. /\ Here = e /\ e \in Nodes /\ stack # <<>>
      /\ Start[e] \in Nat /\ Length[e] \in Nat \ {0} /\ End(e) <= FileSize
      /\ Start[e] + Top.skip = offset /\ Top.skip < Length[e]
  BY <1>1, HereFacts
<1>4. Top.skip \in Nat
  BY <1>3, TopFacts
<1>5. known' = known
  BY <1>2, Sizes DEF ReadBytes, SizeIs
<1>6. /\ Here \in Blobs /\ blob' = e
      /\ offset' = offset + size
      /\ valid' = valid /\ UNCHANGED seeking
  BY <1>3 DEF ReadBytes
<1>7. IF size = available
      THEN /\ stack' = WithTop(stack, [Top EXCEPT !.skip = 0, !.index = @ + 1])
           /\ pc' = "advancing" /\ chunk' = [from |-> from, to |-> from + size]
           /\ answer' = answer
      ELSE /\ stack' = WithTop(stack, [Top EXCEPT !.skip = @ + size])
           /\ answer' = Bytes(from, from + size)
           /\ pc' = pc /\ chunk' = chunk
  BY <1>3 DEF ReadBytes
<1> HIDE DEF e
<1>8. from = offset
  BY <1>3, <1>4
<1>9. End(e) = Start[e] + Length[e]
  BY DEF End
<1> HIDE DEF from
<1>10. /\ available \in Nat \ {0} /\ offset + available = End(e)
  BY <1>3, <1>4, <1>9
<1> HIDE DEF available
<1>11. /\ size \in Nat \ {0} /\ size <= available
       /\ size # available => n = size
  BY <1>10
<1> HIDE DEF size
<1>12. /\ offset' <= FileSize
       /\ size = available => offset' = End(e)
       /\ size # available => offset' < FileSize
  BY <1>2, <1>3, <1>6, <1>9, <1>10, <1>11, Sizes
<1> QED
  BY <1>1, <1>2, <1>3, <1>5, <1>6, <1>7, <1>8, <1>11, <1>12 DEF e, available, size

LEMMA ReadBytesIInv ==
  ASSUME IInv, NEW n \in Nat, ReadBytes(n)
  PROVE  IInv'
<1> DEFINE e == Entry(Top.tree, Top.index)
           available == Length[e] - Top.skip
           size == IF n > 0 /\ n < available THEN n ELSE available
<1>1. /\ pc = "idle" /\ valid /\ offset \in Nat /\ offset < FileSize
      /\ known /\ known' = known /\ valid' = valid /\ UNCHANGED seeking
      /\ blob' = e /\ e \in Blobs
      /\ size \in Nat \ {0} /\ size <= available
      /\ offset' = offset + size /\ offset' <= FileSize
      /\ IF size = available
         THEN /\ stack' = WithTop(stack, [Top EXCEPT !.skip = 0, !.index = @ + 1])
              /\ offset' = End(e)
              /\ pc' = "advancing" /\ chunk' = [from |-> offset, to |-> offset']
         ELSE /\ stack' = WithTop(stack, [Top EXCEPT !.skip = @ + size])
              /\ offset' < FileSize
              /\ pc' = pc /\ chunk' = chunk
  BY TakenFacts
<1>2. /\ stack # <<>> /\ e \in Nodes
      /\ Start[e] \in Nat /\ Length[e] \in Nat \ {0} /\ End(e) <= FileSize
      /\ Start[e] + Top.skip = offset /\ Top.skip < Length[e]
      /\ Top.index < Count(Top.tree)
      /\ Top.index + 1 < Count(Top.tree) => Start[Entry(Top.tree, Top.index + 1)] = End(e)
      /\ Top.index + 1 = Count(Top.tree) => End(Top.tree) = End(e)
  BY <1>1, HereFacts
<1>3. /\ Top \in Positions /\ Top = stack[Len(stack)] /\ Len(stack) \in Nat \ {0}
      /\ Top.tree \in Trees /\ Top.index \in Nat /\ Top.skip \in Nat
      /\ stack \in Seq(Positions) /\ Chained(stack)
  BY <1>2, TopFacts DEF Top, IInv, TypeInv
<1>4. Count(Top.tree) \in Nat /\ e \notin Trees
  BY <1>1, <1>3, TreeAssumption DEF Count
<1> HIDE DEF e
<1>5. CASE size = available
  <2> DEFINE i == Top.index + 1
             p == [Top EXCEPT !.skip = 0, !.index = i]
  <2>1. i \in Nat
    BY <1>3
  <2> HIDE DEF i
  <2>2. p \in Positions /\ p.tree = Top.tree /\ p.index = i /\ p.skip = 0
    BY <1>3, <2>1 DEF Positions
  <2>3. /\ stack' = WithTop(stack, p) /\ offset' = End(e)
        /\ pc' = "advancing" /\ chunk' = [from |-> offset, to |-> offset']
    BY <1>1, <1>5 DEF i
  <2> HIDE DEF p
  <2>4. /\ stack' \in Seq(Positions) /\ stack' # <<>> /\ Len(stack') = Len(stack)
        /\ stack'[Len(stack)] = p /\ Chained(stack')
    BY <1>2, <1>3, <2>2, <2>3, TopChained
  <2>5. NextAt(p, End(e))
    <3>1. i <= Count(Top.tree)
      BY <1>2, <1>3, <1>4 DEF i
    <3>2. IF i < Count(Top.tree) THEN Start[Entry(Top.tree, i)] = End(e)
                                 ELSE End(Top.tree) = End(e)
      BY <1>2, <1>3, <1>4 DEF i
    <3> QED
      BY <2>2, <3>1, <3>2 DEF NextAt
  <2>6. TypeInv'
    <3>1. offset' \in 0..FileSize
      <4> HIDE DEF size, available
      <4> QED
        BY <1>1, Sizes
    <3> QED
      BY <1>1, <2>3, <2>4, <3>1 DEF IInv, TypeInv, seeking
  <2>7. Advancing'
    <3>1. Top' = p
      BY <2>4 DEF Top
    <3>2. offset < offset'
      <4> HIDE DEF size
      <4> QED
        BY <1>1
    <3> QED
      BY <1>1, <2>3, <2>4, <2>5, <3>1, <3>2 DEF Advancing
  <2>8. Learned' /\ Searching' /\ Placed'
    BY <1>1, <2>3 DEF Learned, Searching, Placed
  <2> QED
    BY <2>4, <2>6, <2>7, <2>8 DEF IInv
<1>6. CASE size # available
  <2> DEFINE k == Top.skip + size
             p == [Top EXCEPT !.skip = k]
  <2>1. /\ stack' = WithTop(stack, p)
        /\ offset' < FileSize /\ pc' = pc /\ chunk' = chunk
    BY <1>1, <1>6
  <2>2. k \in Nat /\ Start[e] + k = offset' /\ k < Length[e]
    <3>1. size < available
      BY <1>1, <1>2, <1>3, <1>6
    <3> HIDE DEF size
    <3> QED
      BY <1>1, <1>2, <1>3, <3>1
  <2> HIDE DEF k
  <2>3. p \in Positions /\ p.tree = Top.tree /\ p.index = Top.index /\ p.skip = k
    BY <1>3, <2>2 DEF Positions
  <2> HIDE DEF p
  <2>4. /\ stack' \in Seq(Positions) /\ stack' # <<>> /\ Len(stack') = Len(stack)
        /\ stack'[Len(stack)] = p /\ Chained(stack')
    BY <1>2, <1>3, <2>1, <2>3, TopChained
  <2>5. Top' = p
    BY <2>4 DEF Top
  <2>6. Holds(p, offset')
    BY <1>2, <1>4, <2>2, <2>3 DEF Holds, e
  <2>7. TypeInv'
    <3>1. offset' \in 0..FileSize
      <4> HIDE DEF size, available
      <4> QED
        BY <1>1, Sizes
    <3> QED
      BY <1>1, <2>1, <2>4, <3>1 DEF IInv, TypeInv, seeking
  <2>8. Placed'
    <3>1. offset' # FileSize /\ blob' = Entry(Top'.tree, Top'.index)
      <4> HIDE DEF size, available
      <4> QED
        BY <1>1, <2>1, <2>3, <2>5, Sizes DEF e
    <3> QED
      BY <2>4, <2>5, <2>6, <3>1 DEF Placed
  <2>9. Learned' /\ Searching' /\ Advancing'
    BY <1>1, <2>1 DEF Learned, Searching, Advancing
  <2> QED
    BY <2>4, <2>7, <2>8, <2>9 DEF IInv
<1> QED
  BY <1>5, <1>6

LEMMA ReadFailsIInv ==
  ASSUME IInv, ReadFails
  PROVE  IInv'
<1>1. /\ pc = "idle" /\ offset < FileSize
      /\ UNCHANGED <<pc, offset, valid, stack, seeking, chunk>>
  BY DEF ReadFails
<1>2. (known => known') /\ known' \in BOOLEAN
  BY SizeFacts DEF ReadFails, IInv
<1>3. CASE ~valid /\ UNCHANGED blob
  BY <1>1, <1>2, <1>3, QuietIInv
<1>4. CASE valid /\ blob' \in {NoBlob, Here}
  <2>1. /\ Here = Entry(Top.tree, Top.index)
        /\ stack # <<>> /\ Holds(Top, offset)
    BY <1>1, <1>4, HereFacts
  <2>2. Placed'
    <3>1. Top' = Top /\ offset' # FileSize /\ stack' = stack
      BY <1>1, Sizes DEF Top, IInv, TypeInv
    <3> QED
      BY <1>1, <1>4, <2>1, <3>1 DEF Placed
  <2>3. TypeInv'
    BY <1>1, <1>2 DEF IInv, TypeInv, seeking
  <2>4. Learned'
    BY <1>1, <1>2, <1>4 DEF IInv, Learned
  <2>5. Searching' /\ Advancing' /\ Chained(stack')
    BY <1>1 DEF IInv, Searching, Advancing
  <2> QED
    BY <2>2, <2>3, <2>4, <2>5 DEF IInv
<1> QED
  BY <1>3, <1>4 DEF ReadFails

LEMMA EnterIInv ==
  ASSUME IInv, Enter
  PROVE  IInv'
<1> DEFINE e == Entry(Top.tree, Top.index)
<1>1. /\ pc = "advancing" /\ Top.index < Count(Top.tree) /\ e \in Trees
      /\ stack' = Append(stack, Position(e))
      /\ UNCHANGED <<pc, known, offset, valid, blob, seeking, chunk>>
  BY DEF Enter
<1>2. /\ valid /\ known /\ stack # <<>> /\ NextAt(Top, offset)
      /\ chunk.from \in Nat /\ chunk.from < offset /\ chunk.to = offset
  BY <1>1 DEF IInv, Advancing, Learned
<1>3. /\ Top.skip = 0 /\ Start[e] = offset
  BY <1>1, <1>2 DEF NextAt
<1> HIDE DEF e
<1>4. /\ stack' \in Seq(Positions) /\ stack' # <<>> /\ Len(stack') = Len(stack) + 1
      /\ stack'[Len(stack) + 1] = Position(e) /\ Chained(stack')
  BY <1>1, <1>2, <1>3, PushChained DEF IInv, TypeInv, Top, e
<1>5. NextAt(Position(e), offset)
  <2>1. Count(e) \in Nat \ {0} /\ 0 \in 0..(Count(e) - 1)
    BY <1>1, Sizes
  <2>2. Start[Entry(e, 0)] = Start[e]
    BY <1>1, <2>1, EntryFacts
  <2> QED
    BY <1>1, <1>3, <2>1, <2>2, PositionFacts DEF NextAt
<1>6. Top' = Position(e)
  BY <1>4 DEF Top
<1>7. TypeInv'
  BY <1>1, <1>4 DEF IInv, TypeInv, seeking
<1>8. Advancing'
  BY <1>1, <1>2, <1>4, <1>5, <1>6 DEF Advancing
<1>9. Learned' /\ Searching' /\ Placed'
  BY <1>1, <1>2 DEF Learned, Searching, Placed
<1> QED
  BY <1>4, <1>7, <1>8, <1>9 DEF IInv

\* The read ends with the next entry at the offset.
LEMMA StayIInv ==
  ASSUME IInv, pc = "advancing", pc' = "idle", Top.index < Count(Top.tree),
         UNCHANGED <<known, offset, valid, stack, blob, seeking>>
  PROVE  IInv'
<1> DEFINE e == Entry(Top.tree, Top.index)
<1>1. /\ valid /\ known /\ stack # <<>> /\ NextAt(Top, offset)
  BY DEF IInv, Advancing, Learned
<1>2. /\ Top.tree \in Trees /\ Top.index \in Nat /\ Count(Top.tree) \in Nat
      /\ End(Top.tree) <= FileSize /\ End(Top.tree) \in Nat
  BY <1>1, TopFacts, Sizes
<1>3. Top.skip = 0 /\ Start[e] = offset
  BY <1>1 DEF NextAt
<1>4. e \in Nodes /\ End(e) <= End(Top.tree)
  <2>1. Top.index \in 0..(Count(Top.tree) - 1)
    BY <1>2
  <2> QED
    BY <1>2, <2>1, EntryFacts
<1>5. Start[e] \in Nat /\ Length[e] \in Nat \ {0} /\ End(e) = Start[e] + Length[e]
  BY <1>4, Sizes DEF End
<1> HIDE DEF e
<1>6. offset < FileSize /\ FileSize \in Nat
  BY <1>2, <1>3, <1>4, <1>5, Sizes
<1>7. Holds(Top, offset)
  BY <1>3, <1>5 DEF Holds, e
<1>8. TypeInv'
  BY DEF IInv, TypeInv, seeking
<1>9. Placed'
  <2>1. Top' = Top /\ offset' = offset /\ stack' = stack
    BY DEF Top
  <2>2. offset # FileSize
    BY <1>6
  <2> QED
    BY <1>1, <1>3, <1>7, <2>1, <2>2 DEF Placed
<1>10. Learned' /\ Searching' /\ Advancing' /\ Chained(stack')
  BY DEF IInv, Learned, Searching, Advancing
<1> QED
  BY <1>8, <1>9, <1>10 DEF IInv

LEMMA LeaveIInv ==
  ASSUME IInv, Leave
  PROVE  IInv'
<1>1. /\ pc = "advancing" /\ Top.index = Count(Top.tree)
      /\ UNCHANGED <<known, offset, valid, blob, seeking>>
  BY DEF Leave
<1>2. /\ valid /\ known /\ stack # <<>> /\ NextAt(Top, offset)
      /\ chunk.from \in Nat /\ chunk.from < offset /\ chunk.to = offset
      /\ stack \in Seq(Positions) /\ Chained(stack)
  BY <1>1 DEF IInv, TypeInv, Advancing, Learned
<1>3. /\ Top = stack[Len(stack)] /\ Len(stack) \in Nat \ {0} /\ Top.tree \in Trees
      /\ Count(Top.tree) \in Nat
  BY <1>2, TopFacts, Sizes DEF Top
<1>4. End(Top.tree) = offset
  BY <1>1, <1>2, <1>3 DEF NextAt
<1>5. CASE Len(stack) = 1
  <2>1. stack' = <<>> /\ pc' = "idle"
    BY <1>5 DEF Leave, Return
  <2>2. Top.tree = Root
    BY <1>2, <1>3, <1>5 DEF Chained
  <2>3. offset = FileSize
    BY <1>4, <2>2, Sizes
  <2>4. stack' \in Seq(Positions) /\ Len(stack') = 0
    BY <2>1, EmptySeq
  <2>5. Chained(stack')
    BY <2>1, <2>4 DEF Chained
  <2>6. TypeInv'
    BY <1>1, <2>1, <2>4 DEF IInv, TypeInv, seeking
  <2>7. Learned' /\ Searching' /\ Advancing' /\ Placed'
    BY <1>1, <1>2, <2>1, <2>3 DEF Learned, Searching, Advancing, Placed
  <2> QED
    BY <2>5, <2>6, <2>7 DEF IInv
<1>6. CASE Len(stack) # 1
  <2> DEFINE q == Below[Len(Below)]
             t == q.tree
             j == q.index + 1
             p == [q EXCEPT !.index = j]
  <2>1. /\ Below \in Seq(Positions) /\ Below # <<>> /\ Chained(Below)
        /\ q.index < Count(t) /\ q.skip = 0 /\ Entry(t, q.index) = Top.tree
    BY <1>2, <1>3, <1>6, PopChained DEF Below
  <2>2. /\ Len(Below) \in Nat \ {0} /\ q \in Positions
    BY <2>1, EmptySeq
  <2>3. t \in Trees /\ q.index \in Nat /\ Count(t) \in Nat
    BY <2>2, Sizes DEF Positions
  <2>4. j \in Nat
    BY <2>3
  <2>5. /\ j < Count(t) => Start[Entry(t, j)] = offset
        /\ j = Count(t) => End(t) = offset
    <3>1. q.index \in 0..(Count(t) - 1)
      <4> HIDE DEF q
      <4> QED
        BY <2>1, <2>3
    <3> HIDE DEF q
    <3> QED
      BY <1>4, <2>1, <2>3, <3>1, EntryFacts
  <2>6. j <= Count(t)
    <3> HIDE DEF q
    <3> QED
      BY <2>1, <2>3
  <2>7. /\ stack' = WithTop(Below, p)
        /\ UNCHANGED <<pc, chunk>>
    BY <1>6 DEF Leave
  <2> HIDE DEF j
  <2>8. p \in Positions /\ p.tree = t /\ p.index = j /\ p.skip = 0
    <3> HIDE DEF q
    <3> QED
      BY <2>1, <2>2, <2>4 DEF Positions
  <2>9. /\ stack' \in Seq(Positions) /\ stack' # <<>> /\ Len(stack') = Len(Below)
        /\ stack'[Len(Below)] = p /\ Chained(stack')
    <3> HIDE DEF p
    <3> QED
      BY <2>1, <2>7, <2>8, TopChained
  <2> HIDE DEF p
  <2>10. Top' = p
    BY <2>9 DEF Top
  <2>11. NextAt(p, offset)
    <3> HIDE DEF q
    <3> QED
      BY <2>3, <2>4, <2>5, <2>6, <2>8 DEF NextAt
  <2>12. TypeInv'
    BY <1>1, <2>7, <2>9 DEF IInv, TypeInv, seeking
  <2>13. Advancing'
    BY <1>1, <1>2, <2>7, <2>9, <2>10, <2>11 DEF Advancing
  <2>14. Learned' /\ Searching' /\ Placed'
    BY <1>1, <1>2, <2>7 DEF Learned, Searching, Placed
  <2> QED
    BY <2>9, <2>12, <2>13, <2>14 DEF IInv
<1> QED
  BY <1>5, <1>6

LEMMA NextIInv ==
  ASSUME SmallFile, IInv, [Next]_vars
  PROVE  IInv'
<1>0. TypeInv
  BY DEF IInv
<1>1. CASE AskSize
  <2>1. /\ (known => known') /\ known' \in BOOLEAN
        /\ UNCHANGED <<pc, offset, valid, stack, blob, seeking, chunk>>
    BY <1>0, <1>1, SizeFacts DEF AskSize
  <2> QED
    BY <2>1, QuietIInv
<1>2. ASSUME NEW o \in Nat, Seek(o)
      PROVE  IInv'
  <2>1. CASE SeekBeyond(o) \/ SeekHere(o)
    <3>1. /\ (known => known') /\ known' \in BOOLEAN
          /\ UNCHANGED <<pc, offset, valid, stack, blob, seeking, chunk>>
      BY <1>0, <2>1, SizeFacts DEF SeekBeyond, SeekHere
    <3> QED
      BY <3>1, QuietIInv
  <2>2. CASE StartSeek(o)
    BY <2>2, StartSeekIInv
  <2> QED
    BY <1>2, <2>1, <2>2 DEF Seek
<1>3. ASSUME NEW n \in Nat, Read(n)
      PROVE  IInv'
  <2>1. CASE ReadEnd
    <3>1. /\ (known => known') /\ known' \in BOOLEAN
          /\ UNCHANGED <<pc, offset, valid, stack, blob, seeking, chunk>>
      BY <1>0, <2>1, SizeFacts DEF ReadEnd
    <3> QED
      BY <3>1, QuietIInv
  <2>2. CASE ReadFails
    BY <2>2, ReadFailsIInv
  <2>3. CASE ReadBytes(n)
    BY <2>3, ReadBytesIInv
  <2> QED
    BY <1>3, <2>1, <2>2, <2>3 DEF Read
<1>4. CASE SearchRoot
  BY <1>4, SearchRootIInv
<1>5. CASE SeekFails
  BY <1>5, SeekFailsIInv
<1>6. CASE Halve
  BY <1>6, HalveIInv
<1>7. CASE Descend
  BY <1>7, DescendIInv
<1>8. CASE Enter
  BY <1>8, EnterIInv
<1>9. CASE EnterFails \/ NextBlob
  <2>1. /\ pc = "advancing" /\ pc' = "idle" /\ Top.index < Count(Top.tree)
        /\ UNCHANGED <<known, offset, valid, stack, blob, seeking>>
    BY <1>9 DEF EnterFails, NextBlob, Return
  <2> QED
    BY <2>1, StayIInv
<1>10. CASE Leave
  BY <1>10, LeaveIInv
<1>11. CASE UNCHANGED vars
  <2>1. /\ (known => known') /\ known' \in BOOLEAN
        /\ UNCHANGED <<pc, offset, valid, stack, blob, seeking, chunk>>
    BY <1>0, <1>11 DEF vars, TypeInv
  <2> QED
    BY <2>1, QuietIInv
<1> QED
  BY <1>1, <1>2, <1>3, <1>4, <1>5, <1>6, <1>7, <1>8, <1>9, <1>10, <1>11 DEF Next, Loop

\* As long as the file fits the integers of seek(), mPositionStack is where mOffset says.
THEOREM Invariant ==
  ASSUME SmallFile
  PROVE  Spec => []IInv
<1>1. IInv /\ [Next]_vars => IInv'
  BY NextIInv
<1> QED
  BY <1>1, InitIInv, PTL DEF Spec

-----------------------------------------------------------------------------
(***************************************************************************)
(* The promise.                                                            *)
(***************************************************************************)
LEMMA InitPromise == Init => Promise!Init
  BY DEF Init, Promise!Init, pos, call, Plain, Promise!Plain, Promise!Nowhere, Promise!NoCall

\* The position of a file that is not at work.
LEMMA IdleFacts ==
  ASSUME IInv, pc = "idle"
  PROVE  /\ call = Promise!NoCall
         /\ valid => pos = offset /\ known
         /\ ~valid => pos = Promise!Nowhere
         /\ valid /\ offset < FileSize => pos \in Promise!Offsets
  BY Sizes DEF IInv, TypeInv, Learned, pos, call, Promise!NoCall, Promise!Nowhere, Promise!Offsets

\* A call that is over at once, leaves the position alone and may learn the size.
LEMMA CallFacts ==
  ASSUME IInv, pc = "idle", UNCHANGED <<pc, offset, valid>>
  PROVE  call = Promise!NoCall /\ UNCHANGED <<pos, call>>
  BY DEF pos, call, Promise!NoCall

LEMMA SeekPromise ==
  ASSUME IInv, NEW o \in Nat, Seek(o)
  PROVE  Promise!Next
<1>0. TypeInv
  BY DEF IInv
<1>1. CASE SeekBeyond(o)
  <2>1. pc = "idle" /\ UNCHANGED <<pc, offset, valid>> /\ answer' = Plain("error")
    BY <1>1 DEF SeekBeyond
  <2>2. known => known'
    BY <1>0, <1>1, SizeFacts DEF SeekBeyond
  <2>3. Promise!SeekBeyond
    BY <2>1, <2>2, CallFacts DEF Promise!SeekBeyond, Promise!Learn, Plain, Promise!Plain
  <2> QED
    BY <2>3 DEF Promise!Next
<1>2. CASE SeekHere(o)
  <2>1. /\ pc = "idle" /\ UNCHANGED <<pc, offset, valid>> /\ answer' = Plain("found")
        /\ valid /\ offset < FileSize
    BY <1>2 DEF SeekHere
  <2>2. known' = known
    BY <1>2, Sizes DEF SeekHere, SizeIs, IInv, TypeInv, Learned
  <2>3. Promise!SeekHere
    BY <2>1, <2>2, CallFacts, IdleFacts DEF Promise!SeekHere, Plain, Promise!Plain
  <2> QED
    BY <2>3 DEF Promise!Next
<1>3. CASE StartSeek(o)
  <2>1. /\ pc = "idle" /\ pc' = "searching" /\ known' = TRUE /\ o < FileSize
        /\ offset' = o /\ valid' = FALSE /\ answer' = answer
    BY <1>3, Sizes DEF StartSeek, SizeIs
  <2>2. o \in Promise!Offsets
    BY <2>1, Sizes DEF Promise!Offsets
  <2>3. call' = o /\ pos' = Promise!Nowhere
    BY <2>1 DEF call, pos, Promise!Nowhere
  <2>4. Promise!StartSeek(o)
    BY <2>1, <2>3, IdleFacts DEF Promise!StartSeek
  <2> QED
    BY <2>2, <2>4 DEF Promise!Next
<1> QED
  BY <1>1, <1>2, <1>3 DEF Seek

LEMMA ReadPromise ==
  ASSUME IInv, NEW n \in Nat, Read(n)
  PROVE  [Promise!Next]_(Promise!vars)
<1>0. TypeInv
  BY DEF IInv
<1>1. CASE ReadEnd
  <2>1. pc = "idle" /\ UNCHANGED <<pc, offset, valid>> /\ answer' = Plain("end")
    BY <1>1 DEF ReadEnd
  <2>2. known => known'
    BY <1>0, <1>1, SizeFacts DEF ReadEnd
  <2>3. pos = FileSize \/ ~known'
    <3>1. PICK size \in {0, FileSize} : SizeIs(size) /\ offset >= size
      BY <1>1 DEF ReadEnd
    <3>2. CASE size = FileSize
      <4>1. offset = FileSize /\ valid
        BY <3>1, <3>2, Sizes DEF IInv, TypeInv, Learned
      <4> QED
        BY <2>1, <4>1, IdleFacts
    <3>3. CASE size = 0
      <4>1. ~known'
        BY <3>1, <3>3, Sizes DEF SizeIs
      <4> QED
        BY <4>1
    <3> QED
      BY <3>2, <3>3
  <2>4. Promise!ReadEnd
    BY <2>1, <2>2, <2>3, CallFacts DEF Promise!ReadEnd, Promise!Learn, Plain, Promise!Plain
  <2> QED
    BY <2>4 DEF Promise!Next
<1>2. CASE ReadFails
  <2>1. pc = "idle" /\ UNCHANGED <<pc, offset, valid>> /\ answer' = Plain("error")
    BY <1>2 DEF ReadFails
  <2>2. known => known'
    BY <1>0, <1>2, SizeFacts DEF ReadFails
  <2>3. Promise!ReadFails
    BY <2>1, <2>2, CallFacts DEF Promise!ReadFails, Promise!Learn, Plain, Promise!Plain
  <2> QED
    BY <2>3 DEF Promise!Next
<1>3. CASE ReadBytes(n)
  <2> DEFINE e == Entry(Top.tree, Top.index)
             available == Length[e] - Top.skip
             size == IF n > 0 /\ n < available THEN n ELSE available
  <2>1. /\ pc = "idle" /\ valid /\ offset \in Nat /\ offset < FileSize
        /\ known' = known /\ valid' = valid
        /\ size \in Nat \ {0} /\ offset' = offset + size /\ offset' <= FileSize
        /\ IF size = available
           THEN /\ pc' = "advancing" /\ chunk' = [from |-> offset, to |-> offset']
                /\ answer' = answer
           ELSE /\ answer' = Bytes(offset, offset') /\ pc' = pc
    BY <1>3, TakenFacts
  <2> HIDE DEF size, available
  <2>2. pos = offset /\ call = Promise!NoCall /\ pos \in Promise!Offsets
    BY <2>1, IdleFacts
  <2>3. CASE size = available
    <3>1. pc' = "advancing" /\ chunk'.from = offset /\ answer' = answer
      BY <2>1, <2>3
    <3>2. pos' = pos /\ call' = call
      BY <2>1, <2>2, <3>1 DEF pos, call
    <3> QED
      BY <2>1, <3>1, <3>2 DEF Promise!vars
  <2>4. CASE size # available
    <3>1. pos' = offset' /\ call' = call /\ answer' = Promise!Bytes(pos, offset')
      BY <2>1, <2>2, <2>4 DEF pos, call, Bytes, Promise!Bytes
    <3>2. offset' \in (pos + 1)..FileSize
      BY <2>1, <2>2, Sizes
    <3>3. Promise!ReadBytes
      BY <2>1, <2>2, <3>1, <3>2 DEF Promise!ReadBytes
    <3> QED
      BY <3>3 DEF Promise!Next
  <2> QED
    BY <2>3, <2>4
<1> QED
  BY <1>1, <1>2, <1>3 DEF Read

\* A read that gets back to its caller with the chunk.
LEMMA ReturnPromise ==
  ASSUME IInv, pc = "advancing", Return, UNCHANGED <<known, offset, valid>>
  PROVE  Promise!Next
<1>1. /\ valid /\ chunk.from \in Nat /\ chunk.from < offset /\ chunk.to = offset
      /\ offset \in 0..FileSize
  BY DEF IInv, TypeInv, Advancing
<1>2. pc' = "idle" /\ answer' = Bytes(chunk.from, chunk.to)
  BY DEF Return
<1>3. /\ pos = chunk.from /\ call = Promise!NoCall
      /\ pos' = offset /\ call' = call
  BY <1>1, <1>2 DEF pos, call, Promise!NoCall
<1>4. pos \in Promise!Offsets /\ offset \in (pos + 1)..FileSize
  BY <1>1, <1>3, Sizes DEF Promise!Offsets
<1>5. Promise!ReadBytes
  BY <1>1, <1>2, <1>3, <1>4 DEF Promise!ReadBytes, Bytes, Promise!Bytes
<1> QED
  BY <1>5 DEF Promise!Next

LEMMA LoopPromise ==
  ASSUME SmallFile, IInv, Loop
  PROVE  [Promise!Next]_(Promise!vars)
<1>1. CASE SearchRoot \/ Halve \/ Enter
  BY <1>1 DEF SearchRoot, Halve, Enter, Promise!vars, pos, call
<1>2. CASE SeekFails
  <2>1. /\ pc = "searching" /\ pc' = "idle" /\ answer' = Plain("error")
        /\ UNCHANGED <<known, offset, valid>> /\ offset \in Nat
    BY <1>2 DEF SeekFails, IInv, TypeInv
  <2>2. /\ call # Promise!NoCall /\ call' = Promise!NoCall /\ pos' = pos
    BY <2>1 DEF pos, call, Promise!NoCall
  <2>3. Promise!NotFound
    BY <2>1, <2>2 DEF Promise!NotFound, Plain, Promise!Plain
  <2> QED
    BY <2>3 DEF Promise!Next
<1>3. CASE Descend
  <2>1. pc = "searching" /\ offset \in Nat /\ UNCHANGED <<known, offset>>
    BY <1>3 DEF Descend, IInv, TypeInv
  <2>2. CASE UNCHANGED <<pc, valid, answer>> /\ chunk' = chunk
    BY <2>1, <2>2 DEF Promise!vars, pos, call
  <2>3. CASE pc' = "idle" /\ valid' = TRUE /\ answer' = Plain("found")
    <3>1. /\ call = offset /\ call # Promise!NoCall /\ call' = Promise!NoCall
          /\ pos' = offset
      BY <2>1, <2>3 DEF pos, call, Promise!NoCall
    <3>2. Promise!Found
      BY <2>1, <2>3, <3>1 DEF Promise!Found, Plain, Promise!Plain
    <3> QED
      BY <3>2 DEF Promise!Next
  <2> QED
    BY <1>3, <2>2, <2>3 DEF Descend
<1>4. CASE EnterFails
  <2>1. /\ pc = "advancing" /\ pc' = "idle" /\ answer' = Plain("error")
        /\ UNCHANGED <<known, offset, valid>>
    BY <1>4 DEF EnterFails
  <2>2. /\ valid /\ chunk.from \in Nat /\ chunk.from < offset /\ offset \in 0..FileSize
    BY <2>1 DEF IInv, TypeInv, Advancing
  <2>3. /\ pos = chunk.from /\ call = Promise!NoCall
        /\ pos' = offset /\ call' = call
    BY <2>1, <2>2 DEF pos, call, Promise!NoCall
  <2>4. pos # Promise!Nowhere /\ offset \in pos..FileSize
    BY <2>2, <2>3, Sizes DEF Promise!Nowhere
  <2>5. Promise!ReadFails
    BY <2>1, <2>3, <2>4 DEF Promise!ReadFails, Promise!Learn, Plain, Promise!Plain
  <2> QED
    BY <2>5 DEF Promise!Next
<1>5. CASE NextBlob
  BY <1>5, ReturnPromise DEF NextBlob
<1>6. CASE Leave
  <2>1. CASE Return
    BY <1>6, <2>1, ReturnPromise DEF Leave
  <2>2. CASE UNCHANGED <<pc, chunk, answer>>
    BY <1>6, <2>2 DEF Leave, Promise!vars, pos, call
  <2> QED
    BY <1>6, <2>1, <2>2 DEF Leave
<1> QED
  BY <1>1, <1>2, <1>3, <1>4, <1>5, <1>6 DEF Loop

LEMMA NextPromise ==
  ASSUME SmallFile, IInv, [Next]_vars
  PROVE  [Promise!Next]_(Promise!vars)
<1>1. CASE AskSize
  <2>1. pc = "idle" /\ UNCHANGED <<pc, offset, valid, answer>>
    BY <1>1 DEF AskSize
  <2>2. known => known'
    BY <1>1, SizeFacts DEF AskSize, IInv
  <2>3. Promise!AskSize
    BY <2>1, <2>2, CallFacts DEF Promise!AskSize, Promise!Learn
  <2> QED
    BY <2>3 DEF Promise!Next
<1>2. CASE UNCHANGED vars
  BY <1>2 DEF vars, Promise!vars, pos, call
<1> QED
  BY <1>1, <1>2, SeekPromise, ReadPromise, LoopPromise DEF Next

\* ChunkFile implements ByteFile, however bup has cut the file: a seek leads to the byte
\* wanted, and reads hand out the bytes of the file in their order.
THEOREM Refinement ==
  ASSUME SmallFile
  PROVE  Spec => KeepsPromise
<1>1. IInv /\ [Next]_vars => [Promise!Next]_(Promise!vars)
  BY NextPromise
<1> QED
  BY <1>1, Invariant, InitPromise, PTL DEF Spec, KeepsPromise, Promise!Spec

-----------------------------------------------------------------------------
(***************************************************************************)
(* What the other side of the KIO slave may rely on (BupSlave): the bytes  *)
(* that data() sends are those it expects, and a command that finishes has *)
(* sent them all.  The invariant says, for each phase of a command, how    *)
(* mOffset is related to the position the other side believes in.          *)
(***************************************************************************)
Doing(op, phase) == job.op = op /\ job.phase = phase

\* The lookup of a subtree has failed on the way to the next blob: until the next
\* successful seek there is no blob at the position.
Stuck ==
  /\ stack # <<>> /\ Top.index < Count(Top.tree)
  /\ Entry(Top.tree, Top.index) \in Trees

\* A read that returns bytes returns those from a on.
Expecting(a) == valid => offset = a \/ Stuck

SeekingTo(o) == pc # "advancing" /\ (pc = "searching" \/ valid => offset = o)

SoughtInv ==
  /\ pc # "advancing"
  /\ CASE pc = "searching"        -> offset = job.arg
       [] answer.kind = "found"   -> offset = job.arg
       [] OTHER                   -> Expecting(at)

GotInv ==
  /\ pc # "searching"
  /\ pc = "advancing" => chunk.from = at
  /\ pc = "idle" =>
       IF answer.kind = "bytes"
       THEN answer.from = at /\ answer.to = offset
       ELSE Expecting(at)

\* Where the file and the other side are while a command is carried out.
InStep ==
  /\ job = NoJob => pc = "idle" /\ (open => Expecting(at))
  /\ Doing("get", "rewind") => pc = "idle" /\ at = 0
  /\ Doing("get", "rewound") => at = 0 /\ SeekingTo(0)
  /\ Doing("get", "resumed") =>
       /\ SeekingTo(job.arg)
       /\ pc = "idle" => IF answer.kind = "found" THEN valid ELSE ~valid
  /\ job.phase = "reading" => pc = "idle" /\ Expecting(at)
  /\ job.phase = "got" => GotInv
  /\ Doing("open", "sought") => ~open /\ SeekingTo(0)
  /\ Doing("seek", "sought") => SoughtInv

Phases == {<<"none", "none">>, <<"get", "rewind">>, <<"get", "rewound">>, <<"get", "resumed">>,
           <<"get", "reading">>, <<"get", "got">>, <<"open", "sought">>, <<"read", "reading">>,
           <<"read", "got">>, <<"seek", "sought">>}

Ops   == {"none", "get", "open", "read", "seek"}
Names == {"none", "rewind", "rewound", "resumed", "reading", "got", "sought"}

JobType ==
  /\ job \in [op : Ops, phase : Names, arg : Nat]
  /\ <<job.op, job.phase>> \in Phases
  /\ job.op = "none" => job = NoJob

\* A chunk that was read, of at most n bytes unless n is 0.
ChunkOf(from, to, n) ==
  /\ from \in Nat /\ to \in Nat /\ from < to
  /\ n > 0 => to - from <= n

\* What is sent and what is still to be sent make up what is wanted.
Counted ==
  /\ at \in Nat /\ sent \in [size : Nat, wanted : Nat, inOrder : BOOLEAN]
  /\ job.op = "get" => /\ sent.size + FileSize = sent.wanted + at
                       /\ ~known => sent.size = 0
  /\ job.op = "read" => sent.size + job.arg = sent.wanted
  /\ job.phase = "got" =>
       LET n == IF job.op = "get" THEN 0 ELSE job.arg IN
       /\ pc = "advancing" => known /\ ChunkOf(chunk.from, chunk.to, n)
       /\ pc = "idle" /\ answer.kind = "bytes" => known /\ ChunkOf(answer.from, answer.to, n)
       /\ pc = "idle" /\ answer.kind = "end" => ~known \/ (valid /\ offset = FileSize)
  /\ Doing("read", "got") => job.arg > 0
  /\ job # NoJob => outcome = "none"

SlaveInv == JobType /\ InStep /\ Counted /\ DataInOrder /\ FinishedIsComplete

-----------------------------------------------------------------------------
(***************************************************************************)
(* What the calls of the file do, as the slave sees it.                    *)
(***************************************************************************)
LEMMA AnswerKinds ==
  /\ Plain("found").kind = "found" /\ Plain("error").kind = "error" /\ Plain("end").kind = "end"
  /\ \A from, to : /\ Bytes(from, to).kind = "bytes"
                   /\ Bytes(from, to).from = from /\ Bytes(from, to).to = to
  BY DEF Plain, Bytes

LEMMA SeekEffect ==
  ASSUME IInv, NEW o \in Nat, Seek(o)
  PROVE  /\ pc = "idle" /\ pc' \in {"idle", "searching"}
         /\ pc' = "searching" => offset' = o /\ ~valid'
         /\ pc' = "idle" => /\ UNCHANGED <<offset, valid, stack>>
                            /\ IF answer'.kind = "found" THEN offset = o
                                                         ELSE o = 0 => ~valid
<1>1. CASE SeekBeyond(o)
  <2>1. /\ pc = "idle" /\ answer'.kind = "error"
        /\ UNCHANGED <<pc, offset, valid, stack>>
    BY <1>1, AnswerKinds DEF SeekBeyond
  <2>2. o = 0 => ~valid
    <3>1. PICK size \in {0, FileSize} : SizeIs(size) /\ o >= size
      BY <1>1 DEF SeekBeyond
    <3>2. o = 0 => size = 0
      BY <3>1, Sizes
    <3>3. size = 0 => ~known
      BY <3>1, Sizes DEF SizeIs
    <3> QED
      BY <3>2, <3>3 DEF IInv, Learned
  <2> QED
    BY <2>1, <2>2
<1>2. CASE SeekHere(o)
  BY <1>2, AnswerKinds DEF SeekHere
<1>3. CASE StartSeek(o)
  BY <1>3 DEF StartSeek
<1> QED
  BY <1>1, <1>2, <1>3 DEF Seek

LEMMA ReadEffect ==
  ASSUME IInv, NEW n \in Nat, Read(n), NEW CONSTANT a, Expecting(a)
  PROVE  /\ pc = "idle" /\ pc' \in {"idle", "advancing"}
         /\ known => known'
         /\ pc' = "advancing" => chunk'.from = a /\ known' /\ ChunkOf(chunk'.from, chunk'.to, n)
         /\ pc' = "idle" =>
              IF answer'.kind = "bytes"
              THEN /\ answer'.from = a /\ answer'.to = offset' /\ known'
                   /\ ChunkOf(answer'.from, answer'.to, n)
              ELSE /\ Expecting(a)'
                   /\ answer'.kind = "end" => ~known' \/ (valid' /\ offset' = FileSize)
<1>0. TypeInv
  BY DEF IInv
<1>1. CASE ReadEnd
  <2>1. /\ pc = "idle" /\ answer'.kind = "end" /\ UNCHANGED <<pc, offset, valid, stack>>
    BY <1>1, AnswerKinds DEF ReadEnd
  <2>2. known => known'
    BY <1>0, <1>1, SizeFacts DEF ReadEnd
  <2>3. ~known' \/ (valid /\ offset = FileSize)
    <3>1. PICK size \in {0, FileSize} : SizeIs(size) /\ offset >= size
      BY <1>1 DEF ReadEnd
    <3>2. size = FileSize => offset = FileSize /\ valid
      BY <3>1, Sizes DEF IInv, TypeInv, Learned
    <3>3. size = 0 => ~known'
      BY <3>1, Sizes DEF SizeIs
    <3> QED
      BY <3>1, <3>2, <3>3
  <2>4. Expecting(a)'
    BY <2>1 DEF Expecting, Stuck, Top
  <2> QED
    BY <2>1, <2>2, <2>3, <2>4
<1>2. CASE ReadFails
  <2>1. /\ pc = "idle" /\ answer'.kind = "error" /\ UNCHANGED <<pc, offset, valid, stack>>
    BY <1>2, AnswerKinds DEF ReadFails
  <2>2. known => known'
    BY <1>0, <1>2, SizeFacts DEF ReadFails
  <2>3. Expecting(a)'
    BY <2>1 DEF Expecting, Stuck, Top
  <2> QED
    BY <2>1, <2>2, <2>3
<1>3. CASE ReadBytes(n)
  <2> DEFINE e == Entry(Top.tree, Top.index)
             available == Length[e] - Top.skip
             size == IF n > 0 /\ n < available THEN n ELSE available
  <2>1. /\ pc = "idle" /\ valid /\ offset \in Nat
        /\ known /\ known' = known
        /\ e \in Blobs
        /\ size \in Nat \ {0} /\ size <= available
        /\ offset' = offset + size
        /\ IF size = available
           THEN pc' = "advancing" /\ chunk' = [from |-> offset, to |-> offset']
           ELSE answer' = Bytes(offset, offset') /\ pc' = pc
    BY <1>3, TakenFacts
  <2>2. offset = a
    <3>1. e \notin Trees
      BY <2>1, TreeAssumption
    <3> QED
      BY <2>1, <3>1 DEF Expecting, Stuck
  <2>3. n > 0 => size <= n
    <3>1. size = available => ~(n > 0 /\ n < available)
      BY <2>1
    <3>2. available \in Int
      <4>1. offset < FileSize
        BY <1>3, TakenFacts
      <4>2. stack # <<>> /\ Length[e] \in Nat \ {0}
        BY <2>1, <4>1, HereFacts
      <4>3. Top.skip \in Nat
        BY <4>2, TopFacts
      <4> QED
        BY <4>2, <4>3
    <3> HIDE DEF available
    <3> QED
      BY <3>2
  <2> HIDE DEF size, available, e
  <2>4. offset' \in Nat /\ offset < offset' /\ (n > 0 => offset' - offset <= n)
    BY <2>1, <2>3
  <2>5. known'
    BY <2>1
  <2>6. ChunkOf(offset, offset', n)
    BY <2>1, <2>4 DEF ChunkOf
  <2>8. pc' = "advancing" => chunk'.from = offset /\ chunk'.to = offset'
    BY <2>1
  <2>9. pc' = "idle" => answer'.from = offset /\ answer'.to = offset' /\ answer'.kind = "bytes"
    BY <2>1, AnswerKinds
  <2> QED
    BY <2>1, <2>2, <2>5, <2>6, <2>8, <2>9
<1> QED
  BY <1>1, <1>2, <1>3 DEF Read

LEMMA SearchEffect ==
  ASSUME SmallFile, IInv, pc = "searching", Loop
  PROVE  /\ pc' \in {"searching", "idle"} /\ offset' = offset /\ known' = known
         /\ pc' = "idle" => IF answer'.kind = "found" THEN valid' ELSE ~valid'
<1>1. CASE SearchRoot \/ Halve
  BY <1>1 DEF SearchRoot, Halve
<1>2. CASE SeekFails
  BY <1>2, AnswerKinds DEF SeekFails, IInv, Searching
<1>3. CASE Descend
  BY <1>3, AnswerKinds DEF Descend
<1> QED
  BY <1>1, <1>2, <1>3 DEF Loop, Enter, EnterFails, NextBlob, Leave

LEMMA AdvanceEffect ==
  ASSUME IInv, pc = "advancing", Loop
  PROVE  /\ pc' \in {"advancing", "idle"}
         /\ UNCHANGED <<known, offset, valid>>
         /\ pc' = "advancing" => chunk' = chunk
         /\ pc' = "idle" =>
              IF answer'.kind = "bytes"
              THEN answer'.from = chunk.from /\ answer'.to = chunk.to
              ELSE answer'.kind = "error" /\ Stuck'
<1>1. CASE Enter
  BY <1>1 DEF Enter
<1>2. CASE EnterFails
  <2>1. stack # <<>>
    BY DEF IInv, Advancing
  <2>2. /\ answer'.kind = "error" /\ pc' = "idle" /\ stack' = stack
        /\ UNCHANGED <<known, offset, valid>>
        /\ Top.index < Count(Top.tree) /\ Entry(Top.tree, Top.index) \in Trees
    BY <1>2, AnswerKinds DEF EnterFails
  <2>3. Stuck'
    BY <2>1, <2>2 DEF Stuck, Top
  <2> QED
    BY <2>2, <2>3
<1>3. CASE NextBlob
  BY <1>3, AnswerKinds DEF NextBlob, Return
<1>4. CASE Leave
  BY <1>4, AnswerKinds DEF Leave, Return
<1> QED
  BY <1>1, <1>2, <1>3, <1>4 DEF Loop, SearchRoot, SeekFails, Halve, Descend

-----------------------------------------------------------------------------
(***************************************************************************)
(* The invariant of the slave.                                             *)
(***************************************************************************)
LEMMA InitSlaveInv == SlaveInit => SlaveInv
<1> SUFFICES ASSUME SlaveInit PROVE SlaveInv
  OBVIOUS
<1>1. /\ job = NoJob /\ open = FALSE /\ at = 0 /\ sent = Nothing(0) /\ outcome = "none"
      /\ pc = "idle"
  BY DEF SlaveInit, Init
<1>2. /\ job = [op |-> "none", phase |-> "none", arg |-> 0]
      /\ sent = [size |-> 0, wanted |-> 0, inOrder |-> TRUE]
  BY <1>1 DEF NoJob, Nothing
<1>3. JobType
  <2>1. job \in [op : Ops, phase : Names, arg : Nat]
    BY <1>2 DEF Ops, Names
  <2>2. <<job.op, job.phase>> \in Phases
    BY <1>2 DEF Phases
  <2> QED
    BY <1>1, <2>1, <2>2 DEF JobType
<1>4. InStep
  BY <1>1, <1>2 DEF InStep, Doing
<1>5. sent \in [size : Nat, wanted : Nat, inOrder : BOOLEAN] /\ sent.inOrder
  BY <1>2
<1>6. Counted /\ DataInOrder /\ FinishedIsComplete
  BY <1>1, <1>2, <1>5 DEF Counted, Doing, DataInOrder, FinishedIsComplete
<1> QED
  BY <1>3, <1>4, <1>6 DEF SlaveInv

\* A command begins.
LEMMA BeginFacts ==
  ASSUME SlaveInv, NEW op \in Ops, NEW phase \in Names, NEW arg \in Nat,
         Begin(op, phase, arg), <<op, phase>> \in Phases, op # "none"
  PROVE  /\ job = NoJob /\ pc = "idle" /\ (open => Expecting(at))
         /\ at \in Nat /\ sent \in [size : Nat, wanted : Nat, inOrder : BOOLEAN]
         /\ sent.inOrder
         /\ job'.op = op /\ job'.phase = phase /\ job'.arg = arg
         /\ job' # NoJob /\ outcome' = "none"
         /\ JobType' /\ FinishedIsComplete'
<1>1. job = NoJob /\ outcome' = "none" /\ job' = [op |-> op, phase |-> phase, arg |-> arg]
  BY DEF Begin, Job
<1>2. JobType'
  BY <1>1 DEF JobType
<1>3. job' # NoJob
  BY <1>1 DEF NoJob
<1> QED
  BY <1>1, <1>2, <1>3 DEF SlaveInv, InStep, Counted, DataInOrder, FinishedIsComplete

\* It goes on.
LEMMA StepFacts ==
  ASSUME SlaveInv, job.op # "none", NEW phase \in Names, Step(phase),
         <<job.op, phase>> \in Phases
  PROVE  /\ job'.op = job.op /\ job'.phase = phase /\ job'.arg = job.arg /\ job.arg \in Nat
         /\ job' # NoJob /\ outcome' = "none"
         /\ JobType' /\ FinishedIsComplete'
<1>1. /\ job \in [op : Ops, phase : Names, arg : Nat]
      /\ job' = [job EXCEPT !.phase = phase] /\ outcome' = outcome
  BY DEF SlaveInv, JobType, Step
<1>2. job # NoJob
  BY DEF NoJob
<1>3. /\ job'.op = job.op /\ job'.phase = phase /\ job'.arg = job.arg
      /\ job' \in [op : Ops, phase : Names, arg : Nat]
  BY <1>1
<1>4. JobType'
  BY <1>3 DEF JobType
<1>5. job' # NoJob
  BY <1>3 DEF NoJob
<1>6. outcome' = "none"
  BY <1>1, <1>2 DEF SlaveInv, Counted
<1>7. FinishedIsComplete'
  BY <1>6 DEF FinishedIsComplete
<1> QED
  BY <1>1, <1>3, <1>4, <1>5, <1>6, <1>7

\* It is answered.
LEMMA AnswerFacts ==
  ASSUME SlaveInv, NEW how, Answer(how)
  PROVE  /\ job' = NoJob /\ outcome' = how
         /\ job'.op = "none" /\ job'.phase = "none"
         /\ JobType'
<1>1. job' = [op |-> "none", phase |-> "none", arg |-> 0] /\ job' = NoJob /\ outcome' = how
  BY DEF Answer, NoJob
<1>2. job' \in [op : Ops, phase : Names, arg : Nat]
  BY <1>1 DEF Ops, Names
<1>3. job'.op = "none" /\ job'.phase = "none"
  BY <1>1
<1>4. <<job'.op, job'.phase>> \in Phases
  BY <1>3 DEF Phases
<1> QED
  BY <1>1, <1>2, <1>3, <1>4 DEF JobType

LEMMA SlaveFacts ==
  ASSUME SlaveInv
  PROVE  /\ at \in Nat /\ sent \in [size : Nat, wanted : Nat, inOrder : BOOLEAN]
         /\ sent.inOrder /\ job.arg \in Nat
         /\ job.op # "none" => job # NoJob /\ outcome = "none"
  BY DEF SlaveInv, Counted, DataInOrder, JobType, NoJob

LEMMA GetInv ==
  ASSUME SlaveInv, IInv, NEW resume \in Nat, Get(resume)
  PROVE  SlaveInv'
<1>1. /\ Begin("get", "rewind", resume) /\ AskSize
      /\ at' = 0 /\ sent' = [size |-> 0, wanted |-> FileSize, inOrder |-> TRUE]
  BY DEF Get, Nothing
<1>2. <<"get", "rewind">> \in Phases /\ "get" \in Ops /\ "rewind" \in Names
  BY DEF Phases, Ops, Names
<1>3. /\ pc = "idle" /\ job'.op = "get" /\ job'.phase = "rewind" /\ job' # NoJob
      /\ outcome' = "none" /\ JobType' /\ FinishedIsComplete'
  BY <1>1, <1>2, BeginFacts
<1>4. pc' = pc
  BY <1>1 DEF AskSize
<1>5. InStep'
  BY <1>1, <1>3, <1>4 DEF InStep, Doing
<1>6. Counted' /\ DataInOrder'
  BY <1>1, <1>3, Sizes DEF Counted, Doing, DataInOrder
<1> QED
  BY <1>3, <1>5, <1>6 DEF SlaveInv

LEMMA RewindInv ==
  ASSUME SlaveInv, IInv, Rewind
  PROVE  SlaveInv'
<1>1. /\ job.op = "get" /\ job.phase = "rewind" /\ pc = "idle" /\ Seek(0) /\ Step("rewound")
      /\ UNCHANGED <<open, at, sent>>
  BY DEF Rewind, In
<1>2. <<job.op, "rewound">> \in Phases /\ "rewound" \in Names
  BY <1>1 DEF Phases, Names
<1>3. /\ job'.op = "get" /\ job'.phase = "rewound" /\ job' # NoJob
      /\ outcome' = "none" /\ JobType' /\ FinishedIsComplete'
  BY <1>1, <1>2, StepFacts
<1>4. at = 0
  BY <1>1 DEF SlaveInv, InStep, Doing
<1>5. SeekingTo(0)'
  <2>1. /\ pc' \in {"idle", "searching"} /\ (pc' = "searching" => offset' = 0)
        /\ pc' = "idle" => /\ UNCHANGED <<offset, valid, stack>>
                           /\ IF answer'.kind = "found" THEN offset = 0 ELSE ~valid
    BY <1>1, SeekEffect
  <2> QED
    BY <2>1 DEF SeekingTo
<1>6. InStep'
  BY <1>1, <1>3, <1>4, <1>5 DEF InStep, Doing
<1>7. known => known'
  <2>1. Seek(0) => (known => known')
    BY SizeFacts DEF Seek, SeekBeyond, SeekHere, StartSeek, IInv
  <2> QED
    BY <1>1, <2>1
<1>8. Counted' /\ DataInOrder'
  BY <1>1, <1>3, <1>7 DEF SlaveInv, Counted, Doing, DataInOrder
<1> QED
  BY <1>3, <1>6, <1>8 DEF SlaveInv

LEMMA RewoundInv ==
  ASSUME SlaveInv, IInv, Rewound
  PROVE  SlaveInv'
<1>1. /\ job.op = "get" /\ job.phase = "rewound" /\ pc = "idle"
      /\ UNCHANGED <<open, at, sent>>
  BY DEF Rewound, In
<1>2. /\ <<job.op, "resumed">> \in Phases /\ "resumed" \in Names
      /\ <<job.op, "reading">> \in Phases /\ "reading" \in Names
  BY <1>1 DEF Phases, Names
<1>3. at = 0 /\ SeekingTo(0) /\ job.arg \in Nat
  BY <1>1, SlaveFacts DEF SlaveInv, InStep, Doing
<1>4. CASE /\ job.arg > 0 /\ SizeIs(FileSize)
           /\ SeekHere(job.arg) \/ StartSeek(job.arg)
           /\ Step("resumed")
  <2>1. /\ job'.op = "get" /\ job'.phase = "resumed" /\ job'.arg = job.arg /\ job' # NoJob
        /\ outcome' = "none" /\ JobType' /\ FinishedIsComplete'
    BY <1>1, <1>2, <1>4, StepFacts
  <2>2. SeekingTo(job.arg)' /\ (pc' = "idle" => IF answer'.kind = "found" THEN valid' ELSE ~valid')
    <3>1. CASE SeekHere(job.arg)
      BY <2>1, <3>1, AnswerKinds DEF SeekHere, SeekingTo
    <3>2. CASE StartSeek(job.arg)
      BY <2>1, <3>2 DEF StartSeek, SeekingTo
    <3> QED
      BY <1>4, <3>1, <3>2
  <2>3. InStep'
    BY <2>1, <2>2 DEF InStep, Doing
  <2>4. known'
    BY <1>4, Sizes DEF SizeIs
  <2>5. Counted' /\ DataInOrder'
    BY <1>1, <2>1, <2>4 DEF SlaveInv, Counted, Doing, DataInOrder
  <2> QED
    BY <2>1, <2>3, <2>5 DEF SlaveInv
<1>5. CASE /\ pc' = pc /\ UNCHANGED <<offset, valid, stack>> /\ (known => known')
           /\ Step("reading")
  <2>1. /\ job'.op = "get" /\ job'.phase = "reading" /\ job' # NoJob
        /\ outcome' = "none" /\ JobType' /\ FinishedIsComplete'
    BY <1>1, <1>2, <1>5, StepFacts
  <2>2. Expecting(at)'
    BY <1>1, <1>3, <1>5 DEF SeekingTo, Expecting
  <2>3. InStep'
    BY <1>1, <1>5, <2>1, <2>2 DEF InStep, Doing
  <2>4. Counted' /\ DataInOrder'
    BY <1>1, <1>5, <2>1 DEF SlaveInv, Counted, Doing, DataInOrder
  <2> QED
    BY <2>1, <2>3, <2>4 DEF SlaveInv
<1>6. ASSUME NEW size, SizeIs(size)
      PROVE  known => known'
  BY <1>6, SizeFacts DEF IInv
<1> QED
  BY <1>4, <1>5, <1>6 DEF Rewound, vars

LEMMA ResumedInv ==
  ASSUME SlaveInv, IInv, Resumed
  PROVE  SlaveInv'
<1>1. /\ job.op = "get" /\ job.phase = "resumed" /\ pc = "idle" /\ Step("reading")
      /\ UNCHANGED vars
      /\ IF answer.kind = "found"
         THEN at' = job.arg /\ sent' = Nothing(FileSize - job.arg)
         ELSE UNCHANGED <<at, sent>>
  BY DEF Resumed, In
<1>2. <<job.op, "reading">> \in Phases /\ "reading" \in Names
  BY <1>1 DEF Phases, Names
<1>3. /\ job'.op = "get" /\ job'.phase = "reading" /\ job' # NoJob /\ job.arg \in Nat
      /\ outcome' = "none" /\ JobType' /\ FinishedIsComplete'
  BY <1>1, <1>2, StepFacts
<1>4. SeekingTo(job.arg) /\ (IF answer.kind = "found" THEN valid ELSE ~valid)
  BY <1>1 DEF SlaveInv, InStep, Doing
<1>5. /\ UNCHANGED <<pc, known, offset, valid, stack, answer>>
  BY <1>1 DEF vars
<1>6. Expecting(at')
  BY <1>1, <1>4 DEF Expecting, SeekingTo
<1>7. Expecting(at)'
  BY <1>5, <1>6 DEF Expecting, Stuck, Top
<1>8. InStep'
  BY <1>1, <1>3, <1>5, <1>7 DEF InStep, Doing
<1>9. CASE answer.kind = "found"
  <2>1. FileSize - job.arg \in Nat
    <3>1. job.arg = offset /\ offset \in 0..FileSize
      BY <1>4, <1>9 DEF SeekingTo, IInv, TypeInv
    <3> QED
      BY <1>3, <3>1, Sizes
  <2>2. sent' = [size |-> 0, wanted |-> FileSize - job.arg, inOrder |-> TRUE] /\ at' = job.arg
    BY <1>1, <1>9 DEF Nothing
  <2> QED
    BY <1>3, <1>8, <2>1, <2>2, Sizes DEF SlaveInv, Counted, Doing, DataInOrder
<1>10. CASE answer.kind # "found"
  <2>1. Counted' /\ DataInOrder'
    BY <1>1, <1>3, <1>5, <1>10 DEF SlaveInv, Counted, Doing, DataInOrder
  <2> QED
    BY <1>3, <1>8, <2>1 DEF SlaveInv
<1> QED
  BY <1>9, <1>10

\* A read of the file, by get() or read().
LEMMA CallReadInv ==
  ASSUME SlaveInv, IInv, job.op \in {"get", "read"}, job.phase = "reading",
         Read(IF job.op = "get" THEN 0 ELSE job.arg), Step("got"),
         job.op = "read" => job.arg > 0,
         UNCHANGED <<open, at, sent>>
  PROVE  SlaveInv'
<1> DEFINE n == IF job.op = "get" THEN 0 ELSE job.arg
<1>1. n \in Nat /\ Expecting(at) /\ job.arg \in Nat
  BY SlaveFacts DEF SlaveInv, InStep
<1>2. /\ pc' \in {"idle", "advancing"} /\ (known => known')
      /\ pc' = "advancing" => chunk'.from = at /\ known' /\ ChunkOf(chunk'.from, chunk'.to, n)
      /\ pc' = "idle" =>
           IF answer'.kind = "bytes"
           THEN /\ answer'.from = at /\ answer'.to = offset' /\ known'
                /\ ChunkOf(answer'.from, answer'.to, n)
           ELSE /\ Expecting(at)'
                /\ answer'.kind = "end" => ~known' \/ (valid' /\ offset' = FileSize)
  <2>1. Read(n)
    OBVIOUS
  <2> HIDE DEF n
  <2>2. PICK a : a = at
    OBVIOUS
  <2>3. Expecting(a)
    BY <1>1, <2>2
  <2>4. Expecting(a)' => Expecting(at)'
    BY <2>2 DEF Expecting
  <2> QED
    BY <1>1, <2>1, <2>2, <2>3, <2>4, ReadEffect
<1>3. <<job.op, "got">> \in Phases /\ "got" \in Names /\ job.op # "none"
  BY DEF Phases, Names
<1>4. /\ job'.op = job.op /\ job'.phase = "got" /\ job'.arg = job.arg /\ job' # NoJob
      /\ outcome' = "none" /\ JobType' /\ FinishedIsComplete'
  BY <1>3, StepFacts
<1>5. InStep'
  <2>1. GotInv'
    BY <1>2 DEF GotInv
  <2> QED
    BY <1>3, <1>4, <2>1 DEF InStep, Doing
<1>6. Counted' /\ DataInOrder'
  <2>1. n = IF job'.op = "get" THEN 0 ELSE job'.arg
    BY <1>4
  <2> HIDE DEF n
  <2> QED
    BY <1>2, <1>4, <2>1 DEF SlaveInv, Counted, Doing, DataInOrder
<1> QED
  BY <1>4, <1>5, <1>6 DEF SlaveInv

LEMMA GetReadsInv ==
  ASSUME SlaveInv, IInv, GetReads
  PROVE  SlaveInv'
<1>1. /\ job.op = "get" /\ job.phase = "reading" /\ Read(0) /\ Step("got")
      /\ UNCHANGED <<open, at, sent>>
  BY DEF GetReads, In
<1> QED
  BY <1>1, CallReadInv

LEMMA ReadOnInv ==
  ASSUME SlaveInv, IInv, ReadOn
  PROVE  SlaveInv'
<1>1. /\ job.op = "read" /\ job.phase = "reading" /\ Read(job.arg) /\ Step("got")
      /\ job.arg > 0 /\ UNCHANGED <<open, at, sent>>
  BY DEF ReadOn, In
<1> QED
  BY <1>1, CallReadInv

\* The chunk is sent, and what was sent is what was expected.
LEMMA DataFacts ==
  ASSUME SlaveInv, IInv, job.phase = "got", pc = "idle", answer.kind = "bytes", Data
  PROVE  LET d == answer.to - answer.from IN
         /\ d \in Nat /\ known /\ (valid => offset = at')
         /\ at' = at + d /\ at' \in Nat
         /\ sent' \in [size : Nat, wanted : Nat, inOrder : BOOLEAN]
         /\ sent'.size = sent.size + d /\ sent'.wanted = sent.wanted /\ sent'.inOrder
<1> DEFINE d == answer.to - answer.from
           b == sent.inOrder /\ answer.from = at
           k == sent.size + d
<1>1. /\ answer.from = at /\ answer.to = offset
      /\ known /\ answer.from \in Nat /\ answer.to \in Nat /\ answer.from < answer.to
  BY DEF SlaveInv, InStep, GotInv, Counted, ChunkOf
<1>2. /\ at \in Nat /\ sent \in [size : Nat, wanted : Nat, inOrder : BOOLEAN] /\ sent.inOrder
  BY SlaveFacts
<1>3. d \in Nat /\ b = TRUE /\ k \in Nat
  BY <1>1, <1>2
<1>4. sent' = [sent EXCEPT !.size = k, !.inOrder = b] /\ at' = at + d
  BY DEF Data
<1> HIDE DEF k, b
<1>5. sent' = [sent EXCEPT !.size = k, !.inOrder = TRUE]
  BY <1>3, <1>4
<1>6. /\ sent' \in [size : Nat, wanted : Nat, inOrder : BOOLEAN]
      /\ sent'.size = k /\ sent'.wanted = sent.wanted /\ sent'.inOrder
  BY <1>2, <1>3, <1>5
<1>7. offset = at'
  BY <1>1, <1>2, <1>4
<1> QED
  BY <1>1, <1>2, <1>3, <1>4, <1>6, <1>7 DEF k

\* A read has met the end: so has the other side.
LEMMA EndFacts ==
  ASSUME SlaveInv, IInv, job.phase = "got", pc = "idle", answer.kind = "end", known
  PROVE  at = FileSize
<1>1. valid /\ offset = FileSize /\ Expecting(at)
  BY DEF SlaveInv, InStep, GotInv, Counted
<1>2. stack = <<>>
  BY <1>1 DEF IInv, Placed
<1> QED
  BY <1>1, <1>2 DEF Expecting, Stuck

LEMMA GotInvariant ==
  ASSUME SlaveInv, IInv, Got
  PROVE  SlaveInv'
<1>1. /\ job.op = "get" /\ job.phase = "got" /\ pc = "idle"
      /\ UNCHANGED <<vars, open>>
  BY DEF Got, In
<1>2. UNCHANGED <<pc, known, offset, valid, stack, answer, chunk>>
  BY <1>1 DEF vars
<1>3. /\ sent.size + FileSize = sent.wanted + at /\ (~known => sent.size = 0)
      /\ job # NoJob /\ at \in Nat
      /\ sent \in [size : Nat, wanted : Nat, inOrder : BOOLEAN] /\ sent.inOrder
  BY <1>1, SlaveFacts DEF SlaveInv, Counted
<1>4. CASE answer.kind = "bytes"
  <2>1. Data /\ Step("reading")
    BY <1>1, <1>4 DEF Got
  <2> DEFINE d == answer.to - answer.from
  <2>2. /\ d \in Nat /\ known /\ (valid => offset = at') /\ at' = at + d /\ at' \in Nat
        /\ sent' \in [size : Nat, wanted : Nat, inOrder : BOOLEAN]
        /\ sent'.size = sent.size + d /\ sent'.wanted = sent.wanted /\ sent'.inOrder
    BY <1>1, <1>4, <2>1, DataFacts
  <2> HIDE DEF d
  <2>3. <<job.op, "reading">> \in Phases /\ "reading" \in Names
    BY <1>1 DEF Phases, Names
  <2>4. /\ job'.op = "get" /\ job'.phase = "reading" /\ job' # NoJob
        /\ outcome' = "none" /\ JobType' /\ FinishedIsComplete'
    BY <1>1, <2>1, <2>3, StepFacts
  <2>5. Expecting(at)'
    BY <1>2, <2>2 DEF Expecting
  <2>6. InStep'
    BY <1>1, <1>2, <2>4, <2>5 DEF InStep, Doing
  <2>7. sent'.size + FileSize = sent'.wanted + at'
    BY <1>3, <2>2, Sizes
  <2>8. Counted' /\ DataInOrder'
    BY <1>2, <2>2, <2>4, <2>7 DEF Counted, Doing, DataInOrder
  <2> QED
    BY <2>4, <2>6, <2>8 DEF SlaveInv
<1>5. CASE answer.kind # "bytes"
  <2>1. /\ UNCHANGED <<at, sent>>
        /\ (Answer("finished") /\ answer.kind = "end") \/ Answer("error")
    <3>1. CASE answer.kind = "end"
      BY <1>1, <1>5, <3>1 DEF Got
    <3>2. CASE answer.kind # "end"
      BY <1>1, <1>5, <3>2 DEF Got
    <3> QED
      BY <3>1, <3>2
  <2>2. /\ job' = NoJob /\ job'.op = "none" /\ job'.phase = "none" /\ JobType'
        /\ (outcome' = "finished" /\ answer.kind = "end") \/ outcome' = "error"
    BY <2>1, AnswerFacts
  <2>3. Expecting(at)'
    <3>1. Expecting(at)
      BY <1>1, <1>5 DEF SlaveInv, InStep, GotInv
    <3> QED
      BY <1>2, <2>1, <3>1 DEF Expecting, Stuck, Top
  <2>4. InStep'
    BY <1>1, <1>2, <2>2, <2>3 DEF InStep, Doing
  <2>5. FinishedIsComplete'
    <3>1. CASE known /\ answer.kind = "end"
      <4>1. at = FileSize
        BY <1>1, <3>1, EndFacts
      <4>2. sent.size = sent.wanted
        BY <1>3, <4>1, Sizes
      <4> QED
        BY <2>1, <4>2 DEF FinishedIsComplete
    <3>2. CASE ~known
      BY <1>2, <1>3, <2>1, <3>2 DEF FinishedIsComplete
    <3>3. CASE answer.kind # "end"
      BY <2>2, <3>3 DEF FinishedIsComplete
    <3> QED
      BY <3>1, <3>2, <3>3
  <2>6. Counted' /\ DataInOrder'
    BY <1>3, <2>1, <2>2 DEF Counted, Doing, DataInOrder
  <2> QED
    BY <2>2, <2>4, <2>5, <2>6 DEF SlaveInv
<1> QED
  BY <1>4, <1>5

LEMMA OpenInv ==
  ASSUME SlaveInv, IInv, Open
  PROVE  SlaveInv'
<1>1. Begin("open", "sought", 0) /\ Seek(0) /\ ~open /\ UNCHANGED <<open, at, sent>>
  BY DEF Open
<1>2. <<"open", "sought">> \in Phases /\ "open" \in Ops /\ "sought" \in Names
  BY DEF Phases, Ops, Names
<1>3. /\ at \in Nat /\ sent \in [size : Nat, wanted : Nat, inOrder : BOOLEAN] /\ sent.inOrder
      /\ job'.op = "open" /\ job'.phase = "sought" /\ job' # NoJob
      /\ outcome' = "none" /\ JobType' /\ FinishedIsComplete'
  BY <1>1, <1>2, BeginFacts
<1>4. SeekingTo(0)'
  <2>1. /\ pc' \in {"idle", "searching"} /\ (pc' = "searching" => offset' = 0)
        /\ pc' = "idle" => /\ UNCHANGED <<offset, valid, stack>>
                           /\ IF answer'.kind = "found" THEN offset = 0 ELSE ~valid
    BY <1>1, SeekEffect
  <2> QED
    BY <2>1 DEF SeekingTo
<1>5. InStep'
  BY <1>1, <1>3, <1>4 DEF InStep, Doing
<1>6. Counted' /\ DataInOrder'
  BY <1>1, <1>3 DEF Counted, Doing, DataInOrder
<1> QED
  BY <1>3, <1>5, <1>6 DEF SlaveInv

LEMMA OpenedInv ==
  ASSUME SlaveInv, IInv, Opened
  PROVE  SlaveInv'
<1>1. /\ job.op = "open" /\ job.phase = "sought" /\ pc = "idle"
      /\ UNCHANGED vars
  BY DEF Opened, In
<1>2. UNCHANGED <<pc, known, offset, valid, stack, answer, chunk>>
  BY <1>1 DEF vars
<1>3. SeekingTo(0)
  BY <1>1 DEF SlaveInv, InStep, Doing
<1>4. CASE answer.kind = "found"
  <2>1. /\ Answer("finished") /\ at' = 0
        /\ sent' = [size |-> 0, wanted |-> 0, inOrder |-> TRUE]
    BY <1>4 DEF Opened, Nothing
  <2>2. /\ job' = NoJob /\ job'.op = "none" /\ job'.phase = "none" /\ JobType'
    BY <2>1, AnswerFacts
  <2>3. Expecting(at)'
    BY <1>1, <1>2, <1>3, <2>1 DEF SeekingTo, Expecting
  <2>4. InStep'
    BY <1>1, <1>2, <2>2, <2>3 DEF InStep, Doing
  <2>5. /\ sent' \in [size : Nat, wanted : Nat, inOrder : BOOLEAN]
        /\ sent'.size = sent'.wanted /\ sent'.inOrder
    BY <2>1
  <2>6. Counted' /\ DataInOrder' /\ FinishedIsComplete'
    BY <2>1, <2>2, <2>5 DEF Counted, Doing, DataInOrder, FinishedIsComplete
  <2> QED
    BY <2>2, <2>4, <2>6 DEF SlaveInv
<1>5. CASE answer.kind # "found"
  <2>1. Answer("error") /\ UNCHANGED <<open, at, sent>>
    BY <1>5 DEF Opened
  <2>2. /\ job' = NoJob /\ job'.op = "none" /\ job'.phase = "none" /\ JobType'
        /\ outcome' = "error"
    BY <2>1, AnswerFacts
  <2>4. ~open'
    BY <1>1, <2>1 DEF SlaveInv, InStep, Doing
  <2>5. InStep'
    BY <1>1, <1>2, <2>2, <2>4 DEF InStep, Doing
  <2>6. Counted' /\ DataInOrder' /\ FinishedIsComplete'
    BY <2>1, <2>2 DEF SlaveInv, Counted, Doing, DataInOrder, FinishedIsComplete
  <2> QED
    BY <2>2, <2>5, <2>6 DEF SlaveInv
<1> QED
  BY <1>4, <1>5

LEMMA ReadFileInv ==
  ASSUME SlaveInv, IInv, NEW size \in Nat, ReadFile(size)
  PROVE  SlaveInv'
<1>1. /\ Begin("read", "reading", size) /\ open
      /\ sent' = [size |-> 0, wanted |-> size, inOrder |-> TRUE]
      /\ UNCHANGED <<vars, open, at>>
  BY DEF ReadFile, Nothing
<1>2. <<"read", "reading">> \in Phases /\ "read" \in Ops /\ "reading" \in Names
  BY DEF Phases, Ops, Names
<1>3. /\ pc = "idle" /\ Expecting(at) /\ at \in Nat
      /\ job'.op = "read" /\ job'.phase = "reading" /\ job'.arg = size /\ job' # NoJob
      /\ outcome' = "none" /\ JobType' /\ FinishedIsComplete'
  BY <1>1, <1>2, BeginFacts
<1>4. pc' = "idle" /\ Expecting(at)'
  BY <1>1, <1>3 DEF vars, Expecting, Stuck, Top
<1>5. InStep'
  BY <1>3, <1>4 DEF InStep, Doing
<1>6. /\ sent' \in [size : Nat, wanted : Nat, inOrder : BOOLEAN]
      /\ sent'.size + size = sent'.wanted /\ sent'.inOrder
  BY <1>1
<1>7. Counted' /\ DataInOrder'
  BY <1>1, <1>3, <1>6 DEF Counted, Doing, DataInOrder
<1> QED
  BY <1>3, <1>5, <1>7 DEF SlaveInv

LEMMA ReadGotInv ==
  ASSUME SlaveInv, IInv, ReadGot
  PROVE  SlaveInv'
<1>1. /\ job.op = "read" /\ job.phase = "got" /\ pc = "idle"
      /\ UNCHANGED <<vars, open>>
  BY DEF ReadGot, In
<1>2. UNCHANGED <<pc, known, offset, valid, stack, answer, chunk>>
  BY <1>1 DEF vars
<1>3. /\ sent.size + job.arg = sent.wanted /\ job.arg > 0 /\ job.arg \in Nat
      /\ job # NoJob /\ outcome = "none" /\ at \in Nat
      /\ sent \in [size : Nat, wanted : Nat, inOrder : BOOLEAN] /\ sent.inOrder
  BY <1>1, SlaveFacts DEF SlaveInv, Counted, Doing
<1>4. CASE answer.kind = "bytes"
  <2> DEFINE d == answer.to - answer.from
             left == job.arg - d
  <2>1. Data /\ outcome' = outcome /\ job' = [op |-> "read", phase |-> "reading", arg |-> left]
    BY <1>4 DEF ReadGot, Job
  <2>2. /\ d \in Nat /\ (valid => offset = at') /\ at' = at + d /\ at' \in Nat
        /\ sent' \in [size : Nat, wanted : Nat, inOrder : BOOLEAN]
        /\ sent'.size = sent.size + d /\ sent'.wanted = sent.wanted /\ sent'.inOrder
    BY <1>1, <1>4, <2>1, DataFacts
  <2>3. d <= job.arg
    BY <1>1, <1>3, <1>4 DEF SlaveInv, Counted, ChunkOf
  <2> HIDE DEF d
  <2>4. left \in Nat /\ sent'.size + left = sent'.wanted
    BY <1>3, <2>2, <2>3
  <2> HIDE DEF left
  <2>5. /\ job'.op = "read" /\ job'.phase = "reading" /\ job'.arg = left
        /\ job' \in [op : Ops, phase : Names, arg : Nat]
    BY <2>1, <2>4 DEF Ops, Names
  <2>6. JobType' /\ job' # NoJob
    BY <2>5 DEF JobType, Phases, NoJob
  <2>7. FinishedIsComplete'
    BY <1>3, <2>1 DEF FinishedIsComplete
  <2>8. Expecting(at)'
    BY <1>2, <2>2 DEF Expecting
  <2>9. InStep'
    BY <1>1, <1>2, <2>5, <2>6, <2>8 DEF InStep, Doing
  <2>10. Counted' /\ DataInOrder'
    BY <1>2, <1>3, <2>1, <2>2, <2>4, <2>5 DEF Counted, Doing, DataInOrder
  <2> QED
    BY <2>6, <2>7, <2>9, <2>10 DEF SlaveInv
<1>5. CASE answer.kind # "bytes"
  <2>1. UNCHANGED <<at, sent>> /\ Answer("error")
    BY <1>5 DEF ReadGot
  <2>2. /\ job' = NoJob /\ job'.op = "none" /\ job'.phase = "none" /\ JobType'
        /\ outcome' = "error"
    BY <2>1, AnswerFacts
  <2>3. Expecting(at)'
    <3>1. Expecting(at)
      BY <1>1, <1>5 DEF SlaveInv, InStep, GotInv
    <3> QED
      BY <1>2, <2>1, <3>1 DEF Expecting, Stuck, Top
  <2>4. InStep'
    BY <1>1, <1>2, <2>2, <2>3 DEF InStep, Doing
  <2>5. Counted' /\ DataInOrder' /\ FinishedIsComplete'
    BY <1>3, <2>1, <2>2 DEF Counted, Doing, DataInOrder, FinishedIsComplete
  <2> QED
    BY <2>2, <2>4, <2>5 DEF SlaveInv
<1> QED
  BY <1>4, <1>5

LEMMA ReadEnoughInv ==
  ASSUME SlaveInv, IInv, ReadEnough
  PROVE  SlaveInv'
<1>1. /\ job.op = "read" /\ job.phase = "reading" /\ job.arg = 0 /\ Answer("finished")
      /\ UNCHANGED <<vars, open, at, sent>>
  BY DEF ReadEnough, In
<1>2. /\ job' = NoJob /\ job'.op = "none" /\ job'.phase = "none" /\ JobType'
      /\ outcome' = "finished"
  BY <1>1, AnswerFacts
<1>3. /\ sent.size = sent.wanted /\ at \in Nat
      /\ sent \in [size : Nat, wanted : Nat, inOrder : BOOLEAN] /\ sent.inOrder
  BY <1>1, SlaveFacts DEF SlaveInv, Counted
<1>4. pc = "idle" /\ Expecting(at)
  BY <1>1 DEF SlaveInv, InStep
<1>5. pc' = "idle" /\ Expecting(at)'
  BY <1>1, <1>4 DEF vars, Expecting, Stuck, Top
<1>6. InStep'
  BY <1>2, <1>5 DEF InStep, Doing
<1>7. Counted' /\ DataInOrder' /\ FinishedIsComplete'
  BY <1>1, <1>2, <1>3 DEF Counted, Doing, DataInOrder, FinishedIsComplete
<1> QED
  BY <1>2, <1>6, <1>7 DEF SlaveInv

LEMMA SeekFileInv ==
  ASSUME SlaveInv, IInv, NEW o \in Nat, SeekFile(o)
  PROVE  SlaveInv'
<1>1. Begin("seek", "sought", o) /\ Seek(o) /\ open /\ UNCHANGED <<open, at, sent>>
  BY DEF SeekFile
<1>2. <<"seek", "sought">> \in Phases /\ "seek" \in Ops /\ "sought" \in Names
  BY DEF Phases, Ops, Names
<1>3. /\ Expecting(at)
      /\ at \in Nat /\ sent \in [size : Nat, wanted : Nat, inOrder : BOOLEAN] /\ sent.inOrder
      /\ job'.op = "seek" /\ job'.phase = "sought" /\ job'.arg = o /\ job' # NoJob
      /\ outcome' = "none" /\ JobType' /\ FinishedIsComplete'
  BY <1>1, <1>2, BeginFacts
<1>4. SoughtInv'
  <2>1. /\ pc' \in {"idle", "searching"} /\ (pc' = "searching" => offset' = o)
        /\ pc' = "idle" => /\ UNCHANGED <<offset, valid, stack>>
                           /\ answer'.kind = "found" => offset = o
    BY <1>1, SeekEffect
  <2>2. pc' = "idle" => Expecting(at)'
    BY <1>1, <1>3, <2>1 DEF Expecting, Stuck, Top
  <2> QED
    BY <1>3, <2>1, <2>2 DEF SoughtInv
<1>5. InStep'
  BY <1>3, <1>4 DEF InStep, Doing
<1>6. Counted' /\ DataInOrder'
  BY <1>1, <1>3 DEF Counted, Doing, DataInOrder
<1> QED
  BY <1>3, <1>5, <1>6 DEF SlaveInv

LEMMA SoughtInvariant ==
  ASSUME SlaveInv, IInv, Sought
  PROVE  SlaveInv'
<1>1. /\ job.op = "seek" /\ job.phase = "sought" /\ pc = "idle"
      /\ UNCHANGED <<vars, open, sent>>
  BY DEF Sought, In
<1>2. UNCHANGED <<pc, known, offset, valid, stack, answer, chunk>>
  BY <1>1 DEF vars
<1>3. /\ at \in Nat /\ job.arg \in Nat
      /\ sent \in [size : Nat, wanted : Nat, inOrder : BOOLEAN] /\ sent.inOrder
  BY SlaveFacts
<1>4. IF answer.kind = "found" THEN offset = job.arg ELSE Expecting(at)
  BY <1>1 DEF SlaveInv, InStep, Doing, SoughtInv
<1>5. /\ \/ Answer("position") /\ answer.kind = "found" /\ at' = job.arg
         \/ Answer("error") /\ answer.kind # "found" /\ at' = at
  BY DEF Sought
<1>6. /\ job' = NoJob /\ job'.op = "none" /\ job'.phase = "none" /\ JobType'
      /\ outcome' \in {"position", "error"}
  BY <1>5, AnswerFacts
<1>7. Expecting(at)' /\ at' \in Nat
  BY <1>2, <1>3, <1>4, <1>5 DEF Expecting, Stuck, Top
<1>8. InStep'
  BY <1>1, <1>2, <1>6, <1>7 DEF InStep, Doing
<1>9. Counted' /\ DataInOrder' /\ FinishedIsComplete'
  BY <1>1, <1>3, <1>6, <1>7 DEF Counted, Doing, DataInOrder, FinishedIsComplete
<1> QED
  BY <1>6, <1>8, <1>9 DEF SlaveInv

LEMMA CloseInv ==
  ASSUME SlaveInv, IInv, Close
  PROVE  SlaveInv'
<1>1. /\ job = NoJob /\ job' = NoJob /\ ~open' /\ pc' = pc /\ at' = at
      /\ sent' = [size |-> 0, wanted |-> 0, inOrder |-> TRUE]
  BY DEF Close, Nothing, vars
<1>2. pc = "idle" /\ at \in Nat /\ job'.op = "none" /\ job'.phase = "none"
  BY <1>1, SlaveFacts DEF SlaveInv, InStep, NoJob
<1>3. JobType'
  BY <1>1 DEF SlaveInv, JobType
<1>4. InStep'
  BY <1>1, <1>2 DEF InStep, Doing
<1>5. /\ sent' \in [size : Nat, wanted : Nat, inOrder : BOOLEAN]
      /\ sent'.size = sent'.wanted /\ sent'.inOrder
  BY <1>1
<1>6. Counted' /\ DataInOrder' /\ FinishedIsComplete'
  BY <1>1, <1>2, <1>5 DEF Counted, Doing, DataInOrder, FinishedIsComplete
<1> QED
  BY <1>3, <1>4, <1>6 DEF SlaveInv

LEMMA LoopInv ==
  ASSUME SmallFile, SlaveInv, IInv, Loop, UNCHANGED slave
  PROVE  SlaveInv'
<1>1. UNCHANGED <<job, open, at, sent, outcome>>
  BY DEF slave
<1>2. pc # "idle" /\ pc \in {"idle", "searching", "advancing"}
  BY DEF Loop, SearchRoot, SeekFails, Halve, Descend, Enter, EnterFails, NextBlob, Leave,
         IInv, TypeInv
<1>3. JobType'
  BY <1>1 DEF SlaveInv, JobType
<1>4. CASE pc = "searching"
  <2>1. /\ pc' \in {"searching", "idle"} /\ offset' = offset /\ known' = known
        /\ pc' = "idle" => IF answer'.kind = "found" THEN valid' ELSE ~valid'
    BY <1>4, SearchEffect
  <2>2. job.phase \in {"rewound", "resumed", "sought"}
    <3>1. <<job.op, job.phase>> \in Phases /\ (job.op = "none" => job = NoJob)
      BY DEF SlaveInv, JobType
    <3> QED
      BY <1>4, <3>1 DEF SlaveInv, InStep, GotInv, Doing, Phases
  <2>3. \A o : SeekingTo(o) => SeekingTo(o)'
    BY <1>4, <2>1 DEF SeekingTo
  <2>4. SoughtInv => SoughtInv'
    BY <1>1, <1>4, <2>1 DEF SoughtInv, Expecting
  <2>5. InStep'
    BY <1>1, <2>1, <2>2, <2>3, <2>4 DEF SlaveInv, InStep, Doing, NoJob
  <2>6. Counted'
    BY <1>1, <2>1, <2>2 DEF SlaveInv, Counted, Doing
  <2>7. DataInOrder' /\ FinishedIsComplete'
    BY <1>1, <2>1 DEF SlaveInv, DataInOrder, FinishedIsComplete
  <2> QED
    BY <1>3, <2>5, <2>6, <2>7 DEF SlaveInv
<1>5. CASE pc = "advancing"
  <2>1. /\ pc' \in {"advancing", "idle"}
        /\ UNCHANGED <<known, offset, valid>>
        /\ pc' = "advancing" => chunk' = chunk
        /\ pc' = "idle" =>
             IF answer'.kind = "bytes"
             THEN answer'.from = chunk.from /\ answer'.to = chunk.to
             ELSE answer'.kind = "error" /\ Stuck'
    BY <1>5, AdvanceEffect
  <2>2. chunk.to = offset
    BY <1>5 DEF IInv, Advancing
  <2>3. job.phase = "got"
    <3>1. <<job.op, job.phase>> \in Phases /\ (job.op = "none" => job = NoJob)
      BY DEF SlaveInv, JobType
    <3> QED
      BY <1>5, <3>1 DEF SlaveInv, InStep, SeekingTo, SoughtInv, Doing, Phases
  <2>4. GotInv
    BY <2>3 DEF SlaveInv, InStep
  <2>5. GotInv'
    BY <1>1, <1>5, <2>1, <2>2, <2>4 DEF GotInv, Expecting
  <2>6. InStep'
    BY <1>1, <2>3, <2>5 DEF InStep, Doing, NoJob
  <2> DEFINE n == IF job.op = "get" THEN 0 ELSE job.arg
  <2>7. known /\ ChunkOf(chunk.from, chunk.to, n)
    BY <1>5, <2>3 DEF SlaveInv, Counted
  <2>8. /\ pc' = "advancing" => known' /\ ChunkOf(chunk'.from, chunk'.to, n)
        /\ pc' = "idle" /\ answer'.kind = "bytes" => known' /\ ChunkOf(answer'.from, answer'.to, n)
        /\ pc' = "idle" => answer'.kind # "end"
    <3> HIDE DEF n
    <3> QED
      BY <2>1, <2>7
  <2>9. n = IF job'.op = "get" THEN 0 ELSE job'.arg
    BY <1>1
  <2> HIDE DEF n
  <2>10. Counted'
    BY <1>1, <2>1, <2>8, <2>9 DEF SlaveInv, Counted, Doing
  <2>11. DataInOrder' /\ FinishedIsComplete'
    BY <1>1, <2>1 DEF SlaveInv, DataInOrder, FinishedIsComplete
  <2> QED
    BY <1>3, <2>6, <2>10, <2>11 DEF SlaveInv
<1> QED
  BY <1>2, <1>4, <1>5

LEMMA StutterInv ==
  ASSUME SlaveInv, UNCHANGED allVars
  PROVE  SlaveInv'
<1>1. /\ UNCHANGED <<job, open, at, sent, outcome>>
      /\ UNCHANGED <<pc, known, offset, valid, stack, chunk, answer>>
  BY DEF allVars, vars, slave
<1>2. JobType' /\ DataInOrder' /\ FinishedIsComplete'
  BY <1>1 DEF SlaveInv, JobType, DataInOrder, FinishedIsComplete
<1>3. Counted'
  BY <1>1 DEF SlaveInv, Counted, Doing
<1>4. /\ Expecting(at)' = Expecting(at)
  BY <1>1 DEF Expecting, Stuck, Top
<1>5. InStep'
  BY <1>1, <1>4 DEF SlaveInv, InStep, Doing, SeekingTo, GotInv, SoughtInv
<1> QED
  BY <1>2, <1>3, <1>5 DEF SlaveInv

\* A step of the slave is at most one step of the file.
LEMMA SlaveStepIsStep ==
  ASSUME SlaveInv, [SlaveNext]_allVars
  PROVE  [Next]_vars
<1>1. job.arg \in Nat /\ SeekOffsets \subseteq Nat /\ 0 \in Nat
  BY SlaveFacts, SlaveAssumption
<1>2. ASSUME Rewound PROVE [Next]_vars
  <2>1. pc = "idle" /\ (SeekHere(job.arg) => Next) /\ (StartSeek(job.arg) => Next)
    BY <1>1, <1>2 DEF Rewound, In, Next, Seek
  <2>2. ASSUME NEW size \in {0, FileSize}, SizeIs(size),
               UNCHANGED <<pc, offset, valid, stack, blob, seeking, chunk, answer>>
        PROVE  Next
    BY <2>1, <2>2 DEF AskSize, Next
  <2> QED
    BY <1>2, <2>1, <2>2 DEF Rewound
<1>3. ASSUME NEW o \in Nat, Seek(o) PROVE Next
  BY <1>3 DEF Next
<1>4. ASSUME NEW n \in Nat, Read(n) PROVE Next
  BY <1>4 DEF Next
<1>5. CASE Command
  BY <1>1, <1>3, <1>5 DEF Command, Get, SeekFile, ReadFile, Open, Close, Next
<1>6. CASE Work
  BY <1>1, <1>2, <1>3, <1>4, <1>6
     DEF Work, Rewind, Resumed, GetReads, Got, Opened, ReadOn, ReadGot, ReadEnough, Sought, Next
<1>7. CASE UNCHANGED allVars
  BY <1>7 DEF allVars
<1> QED
  BY <1>5, <1>6, <1>7 DEF SlaveNext

LEMMA NextSlaveInv ==
  ASSUME SmallFile, SlaveInv, IInv, [SlaveNext]_allVars
  PROVE  SlaveInv'
<1>1. SeekOffsets \subseteq Nat /\ ReadSizes \subseteq Nat
  BY SlaveAssumption
<1>2. CASE Command
  BY <1>1, <1>2, GetInv, SeekFileInv, ReadFileInv, OpenInv, CloseInv DEF Command
<1>3. CASE Work
  BY <1>3, RewindInv, RewoundInv, ResumedInv, GetReadsInv, GotInvariant, OpenedInv, ReadOnInv,
     ReadGotInv, ReadEnoughInv, SoughtInvariant, LoopInv DEF Work
<1>4. CASE UNCHANGED allVars
  BY <1>4, StutterInv
<1> QED
  BY <1>2, <1>3, <1>4 DEF SlaveNext

\* In every phase of a command mOffset is where the other side believes it is, or no byte
\* can be read before the next seek that works.
THEOREM SlaveInvariant ==
  ASSUME SmallFile
  PROVE  SlaveSpec => [](SlaveInv /\ IInv)
<1>1. SlaveInit => SlaveInv /\ IInv
  BY InitSlaveInv, InitIInv DEF SlaveInit
<1>2. SlaveInv /\ IInv /\ [SlaveNext]_allVars => (SlaveInv /\ IInv)'
  BY NextSlaveInv, SlaveStepIsStep, NextIInv
<1> QED
  BY <1>1, <1>2, PTL DEF SlaveSpec

\* Whatever was sought, read or failed before, data() sends the bytes the other side
\* expects, of any file that fits the integers of seek().
THEOREM OrderTheorem ==
  ASSUME SmallFile
  PROVE  SlaveSpec => []DataInOrder
<1>1. SlaveInv => DataInOrder
  BY DEF SlaveInv
<1> QED
  BY <1>1, SlaveInvariant, PTL

\* A command that finishes has sent as much as was asked for, unless the size of the
\* file could not be determined.
THEOREM CompleteTheorem ==
  ASSUME SmallFile
  PROVE  SlaveSpec => []FinishedIsComplete
<1>1. SlaveInv => FinishedIsComplete
  BY DEF SlaveInv
<1> QED
  BY <1>1, SlaveInvariant, PTL

\* The file that the slave reads keeps the promise of a file.
THEOREM SlaveRefinement ==
  ASSUME SmallFile
  PROVE  SlaveSpec => KeepsPromise
<1>1. SlaveInit => Init
  BY DEF SlaveInit
<1>2. SlaveInv /\ [SlaveNext]_allVars => [Next]_vars
  BY SlaveStepIsStep
<1>3. SlaveSpec => Spec
  BY <1>1, <1>2, SlaveInvariant, PTL DEF SlaveSpec, Spec
<1> QED
  BY <1>3, Refinement
=============================================================================
