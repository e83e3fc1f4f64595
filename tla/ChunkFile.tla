------------------------------ MODULE ChunkFile ------------------------------
(***************************************************************************)
(* A large file in a bup repository: class ChunkFile                       *)
(* (kioslave/bupvfs.cpp).  bup cuts such a file into chunks and stores it  *)
(* as a tree of git trees: the name of each entry is its offset in the     *)
(* tree.  seek() goes down to the blob that holds an offset by a binary    *)
(* search in each tree; read() hands out one blob, or a part of it, and    *)
(* goes on to the next.  One step here is one iteration of a loop.         *)
(*                                                                         *)
(* The trees are parameters.  Start is where in the file what is below a   *)
(* node begins and Length how much it is; every occurrence of an object in *)
(* the file is a node of its own.  Any lookup in the repository may fail.  *)
(***************************************************************************)
EXTENDS Integers, Sequences

CONSTANTS
  Trees, Blobs,  \* the nodes of the file
  Root,          \* its topmost tree
  Kids,          \* the entries of each tree
  Start, Length, \* where a node begins in the file, and its length
  UintSize       \* the number of values of a uint and of an int

Nodes == Trees \cup Blobs

\* Entry i of tree t, its name, and the number of entries, counted from 0 as in libgit2.
Entry(t, i)  == Kids[t][i + 1]
Offset(t, i) == Start[Entry(t, i)] - Start[t]
Count(t)     == Len(Kids[t])
End(n)       == Start[n] + Length[n]

FileSize == Length[Root]

\* What bup writes: entries are sorted, follow each other and make up their tree.
ASSUME TreeAssumption ==
  /\ Root \in Trees /\ Trees \cap Blobs = {}
  /\ Kids \in [Trees -> Seq(Nodes)]
  /\ Start \in [Nodes -> Nat] /\ Length \in [Nodes -> Nat \ {0}]
  /\ Start[Root] = 0
  /\ \A t \in Trees :
       /\ Count(t) > 0
       /\ Start[Entry(t, 0)] = Start[t]
       /\ End(Entry(t, Count(t) - 1)) = End(t)
       /\ \A i \in 0..(Count(t) - 2) : Start[Entry(t, i + 1)] = End(Entry(t, i))
       /\ \A i, j \in 0..(Count(t) - 1) : i < j => End(Entry(t, i)) <= Start[Entry(t, j)]
  /\ UintSize \in Nat \ {0}

NoBlob == Root  \* NULL; any node that is not a blob would do

VARIABLES
  pc,      \* the loop the object is in: "idle", "searching" or "advancing"
  known,   \* mCachedSize is set
  offset,  \* mOffset
  valid,   \* mValidSeekPosition
  stack,   \* mPositionStack
  blob,    \* mCurrentBlob
  local,   \* lLocalOffset of seek()
  lower, upper,  \* lLower and lUpper of seek()
  chunk,   \* pChunk while read() goes on: the part of the file it holds
  answer   \* what the last call returned

seeking == <<local, lower, upper>>
vars == <<pc, known, offset, valid, stack, blob, seeking, chunk, answer>>

Plain(kind)     == [kind |-> kind, from |-> 0, to |-> 0]
Bytes(from, to) == [kind |-> "bytes", from |-> from, to |-> to]

NoChunk         == [from |-> 0, to |-> 0]

Position(t) == [tree |-> t, index |-> 0, skip |-> 0]
Top         == stack[Len(stack)]
Below       == SubSeq(stack, 1, Len(stack) - 1)
WithTop(s, position) == Append(SubSeq(s, 1, Len(s) - 1), position)

Init ==
  /\ pc = "idle"
  /\ known = FALSE
  /\ offset = 0
  /\ valid = FALSE
  /\ stack = <<>>
  /\ blob = NoBlob
  /\ local = 0 /\ lower = 0 /\ upper = 0
  /\ chunk = NoChunk
  /\ answer = Plain("none")

\* size(): it is calculated until this succeeds once; `size' is what it returns.
SizeIs(size) ==
  \/ size = FileSize /\ known' = TRUE
  \/ size = 0 /\ ~known /\ UNCHANGED known

AskSize ==
  /\ pc = "idle"
  /\ SizeIs(FileSize) \/ SizeIs(0)
  /\ UNCHANGED <<pc, offset, valid, stack, blob, seeking, chunk, answer>>

-----------------------------------------------------------------------------
(***************************************************************************)
(* seek()                                                                  *)
(***************************************************************************)
SeekBeyond(o) ==
  /\ pc = "idle"
  /\ \E size \in {0, FileSize} : SizeIs(size) /\ o >= size
  /\ answer' = Plain("error")
  /\ UNCHANGED <<pc, offset, valid, stack, blob, seeking, chunk>>

SeekHere(o) ==
  /\ pc = "idle"
  /\ SizeIs(FileSize) /\ o < FileSize
  /\ offset = o /\ valid
  /\ answer' = Plain("found")
  /\ UNCHANGED <<pc, offset, valid, stack, blob, seeking, chunk>>

\* Mutant: the blob of the old position is kept.
StartSeekKeepsBlob(o) ==
  /\ pc = "idle"
  /\ SizeIs(FileSize) /\ o < FileSize
  /\ ~(offset = o /\ valid)
  /\ pc' = "searching"
  /\ offset' = o /\ valid' = FALSE /\ stack' = <<>>
  /\ UNCHANGED <<blob, seeking, chunk, answer>>

StartSeek(o) ==
  /\ pc = "idle"
  /\ SizeIs(FileSize) /\ o < FileSize
  /\ ~(offset = o /\ valid)
  /\ pc' = "searching"
  /\ offset' = o /\ valid' = FALSE /\ stack' = <<>> /\ blob' = NoBlob
  /\ UNCHANGED <<seeking, chunk, answer>>

Seek(o) == SeekBeyond(o) \/ SeekHere(o) \/ StartSeek(o)

\* The binary search in tree t starts.
SearchIn(t) == lower' = 0 /\ upper' = Count(t)

SearchRoot ==
  /\ pc = "searching" /\ stack = <<>>
  /\ stack' = <<Position(Root)>>
  /\ local' = offset
  /\ SearchIn(Root)
  /\ UNCHANGED <<pc, known, offset, valid, blob, chunk, answer>>

\* The locals of seek() are gone when it returns.
OutOfScope == local' = 0 /\ lower' = 0 /\ upper' = 0

\* Any lookup and any name on the way may turn out to be damaged.
SeekFails ==
  /\ pc = "searching"
  /\ pc' = "idle" /\ answer' = Plain("error") /\ OutOfScope
  /\ UNCHANGED <<known, offset, valid, stack, blob, chunk>>

\* Mutant: the entry that begins at the offset is taken for one above it.
HalveBelow ==
  LET toCheck == lower + (upper - lower) \div 2
      above   == Offset(Top.tree, toCheck) >= local
  IN  /\ pc = "searching" /\ stack # <<>> /\ upper - lower > 1
      /\ upper' = IF above THEN toCheck ELSE upper
      /\ lower' = IF above THEN lower ELSE toCheck
      /\ UNCHANGED <<pc, known, offset, valid, stack, blob, local, chunk, answer>>

\* One iteration of the binary search.
Halve ==
  LET toCheck == lower + (upper - lower) \div 2
      above   == Offset(Top.tree, toCheck) > local
  IN  /\ pc = "searching" /\ stack # <<>> /\ upper - lower > 1
      /\ upper' = IF above THEN toCheck ELSE upper
      /\ lower' = IF above THEN lower ELSE toCheck
      /\ UNCHANGED <<pc, known, offset, valid, stack, blob, local, chunk, answer>>

\* lLowerOffset is a uint, mSkipSize an int.
LowerOffset == Offset(Top.tree, lower) % UintSize
AsInt(n) == LET r == n % UintSize IN IF 2 * r < UintSize THEN r ELSE r - UintSize

\* The search in a tree has ended: on to the subtree, or to the blob.
Descend ==
  LET entry     == Entry(Top.tree, lower)
      remainder == local - LowerOffset
      here      == [Top EXCEPT !.index = lower]
  IN  /\ pc = "searching" /\ stack # <<>> /\ upper - lower <= 1
      /\ \/ /\ entry \in Trees
            /\ local' = remainder
            /\ stack' = Append(WithTop(stack, here), Position(entry))
            /\ SearchIn(entry)
            /\ UNCHANGED <<pc, valid, answer>>
         \/ /\ entry \in Blobs
            /\ stack' = WithTop(stack, [here EXCEPT !.skip = AsInt(remainder)])
            /\ pc' = "idle" /\ valid' = TRUE /\ answer' = Plain("found")
            /\ OutOfScope
      /\ UNCHANGED <<known, offset, blob, chunk>>

-----------------------------------------------------------------------------
(***************************************************************************)
(* read()                                                                  *)
(***************************************************************************)
ReadEnd ==
  /\ pc = "idle"
  /\ \E size \in {0, FileSize} : SizeIs(size) /\ offset >= size
  /\ answer' = Plain("end")
  /\ UNCHANGED <<pc, offset, valid, stack, blob, seeking, chunk>>

\* A blob that is used up is let go, and the one at the position is looked up.
LetGo == IF Top.skip = 0 THEN NoBlob ELSE blob
Here  == IF LetGo = NoBlob THEN Entry(Top.tree, Top.index) ELSE blob

\* No position, no blob there, or a position beyond its end.
ReadFails ==
  /\ pc = "idle"
  /\ SizeIs(FileSize) /\ offset < FileSize
  /\ answer' = Plain("error")
  /\ \/ ~valid /\ UNCHANGED blob
     \/ valid /\ LetGo = NoBlob /\ blob' = NoBlob
     \/ valid /\ Here \in Blobs /\ Top.skip > Length[Here] /\ blob' = Here
  /\ UNCHANGED <<pc, offset, valid, stack, seeking, chunk>>

\* Bytes of the blob, at most n if n is not 0.  A negative mSkipSize makes it the memory
\* in front of the blob, which is no part of the file.
ReadBytes(n) ==
  LET from      == IF Top.skip < 0 THEN -1 ELSE Start[Here] + Top.skip
      available == Length[Here] - Top.skip
      size      == IF n > 0 /\ n < available THEN n ELSE available
  IN  /\ pc = "idle"
      /\ SizeIs(FileSize) /\ offset < FileSize
      /\ valid /\ Here \in Blobs /\ available >= 0
      /\ blob' = Here
      /\ offset' = offset + size
      /\ IF size = available
         THEN /\ stack' = WithTop(stack, [Top EXCEPT !.skip = 0, !.index = @ + 1])
              /\ pc' = "advancing" /\ chunk' = [from |-> from, to |-> from + size]
              /\ UNCHANGED answer
         ELSE /\ stack' = WithTop(stack, [Top EXCEPT !.skip = @ + size])
              /\ answer' = Bytes(from, from + size)
              /\ UNCHANGED <<pc, chunk>>
      /\ UNCHANGED <<valid, seeking>>

Read(n) == ReadEnd \/ ReadFails \/ ReadBytes(n)

\* The caller gets the chunk.
Return == pc' = "idle" /\ answer' = Bytes(chunk.from, chunk.to) /\ chunk' = NoChunk

\* The loop that looks for the next blob: the entry is a tree to go into, a tree that
\* cannot be looked up, or a blob; or the tree is at its end, as the file may be.
Enter ==
  /\ pc = "advancing" /\ Top.index < Count(Top.tree)
  /\ Entry(Top.tree, Top.index) \in Trees
  /\ stack' = Append(stack, Position(Entry(Top.tree, Top.index)))
  /\ UNCHANGED <<pc, known, offset, valid, blob, seeking, chunk, answer>>

EnterFails ==
  /\ pc = "advancing" /\ Top.index < Count(Top.tree)
  /\ Entry(Top.tree, Top.index) \in Trees
  /\ pc' = "idle" /\ answer' = Plain("error") /\ chunk' = NoChunk
  /\ UNCHANGED <<known, offset, valid, stack, blob, seeking>>

NextBlob ==
  /\ pc = "advancing" /\ Top.index < Count(Top.tree)
  /\ Entry(Top.tree, Top.index) \in Blobs
  /\ Return
  /\ UNCHANGED <<known, offset, valid, stack, blob, seeking>>

Leave ==
  /\ pc = "advancing" /\ Top.index = Count(Top.tree)
  /\ IF Len(stack) = 1
     THEN stack' = <<>> /\ Return
     ELSE /\ stack' = WithTop(Below, [Below[Len(Below)] EXCEPT !.index = @ + 1])
          /\ UNCHANGED <<pc, chunk, answer>>
  /\ UNCHANGED <<known, offset, valid, blob, seeking>>

Loop == SearchRoot \/ SeekFails \/ Halve \/ Descend \/ Enter \/ EnterFails \/ NextBlob \/ Leave

Next ==
  \/ AskSize
  \/ \E o \in Nat : Seek(o)
  \/ \E n \in Nat : Read(n)
  \/ Loop

Spec == Init /\ [][Next]_vars

-----------------------------------------------------------------------------
(***************************************************************************)
(* The promise that this file keeps.                                       *)
(***************************************************************************)
\* While read() looks for the next blob, its caller has not got the chunk yet.
pos == IF pc = "advancing" THEN chunk.from ELSE IF valid THEN offset ELSE -1

call == IF pc = "searching" THEN offset ELSE -1

Promise == INSTANCE ByteFile

\* A chunk file is a file: a seek leads to the byte wanted, reads hand out the bytes of
\* the file in their order whatever the boundaries of its chunks, and the end is where
\* the size says.
KeepsPromise == Promise!Spec
=============================================================================
