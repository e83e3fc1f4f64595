------------------------------- MODULE ByteFile -------------------------------
(***************************************************************************)
(* What the file system that the KIO slave shows promises of an open file: *)
(* the interface of class File (kioslave/bupvfs.h), seek() and read(), to  *)
(* the commands of the slave that use it.  A file is FileSize bytes, and   *)
(* reading hands them out one after the other from the position that was   *)
(* sought.  Anything may fail, for the repository may be on a drive that   *)
(* is pulled out or damaged, but never do bytes come out of order.         *)
(***************************************************************************)
EXTENDS Integers

CONSTANT FileSize  \* at least 1

VARIABLES
  pos,     \* the position, Nowhere after a seek that failed half way
  known,   \* the size of the file could be determined
  call,    \* the offset that is being sought, or NoCall
  answer   \* the answer to the last call

vars == <<pos, known, call, answer>>

Nowhere == -1
NoCall  == -1

Positions == 0..FileSize
Offsets   == 0..(FileSize - 1)

Plain(kind)    == [kind |-> kind, from |-> 0, to |-> 0]
Bytes(from, to) == [kind |-> "bytes", from |-> from, to |-> to]
Answers == [kind : {"none", "found", "bytes", "end", "error"},
            from : Positions, to : Positions]

TypeOK ==
  /\ pos \in Positions \cup {Nowhere}
  /\ known \in BOOLEAN
  /\ call \in Offsets \cup {NoCall}
  /\ answer \in Answers

Init ==
  /\ pos = Nowhere
  /\ known = FALSE
  /\ call = NoCall
  /\ answer = Plain("none")

-----------------------------------------------------------------------------
\* The size is determined when it is first needed and may stay unknown.
Learn == known => known'

\* A seek moves the position away, and either finds the one wanted or none.
StartSeek(o) ==
  /\ call = NoCall
  /\ call' = o
  /\ pos' \in {pos, Nowhere}
  /\ known'
  /\ UNCHANGED answer

Found ==
  /\ call # NoCall
  /\ pos' = call
  /\ answer' = Plain("found")
  /\ call' = NoCall
  /\ UNCHANGED known

NotFound ==
  /\ call # NoCall
  /\ pos' \in {pos, Nowhere}
  /\ answer' = Plain("error")
  /\ call' = NoCall
  /\ UNCHANGED known

SeekHere ==
  /\ call = NoCall /\ pos \in Offsets
  /\ answer' = Plain("found")
  /\ UNCHANGED <<pos, known, call>>

\* Seeking beyond the end fails and leaves the position alone, like any seek in a
\* file whose size cannot be determined.
SeekBeyond ==
  /\ call = NoCall
  /\ Learn
  /\ answer' = Plain("error")
  /\ UNCHANGED <<pos, call>>

\* A read returns at least one byte, from the position on.
ReadBytes ==
  /\ call = NoCall /\ pos \in Offsets
  /\ \E to \in (pos + 1)..FileSize :
       /\ answer' = Bytes(pos, to)
       /\ pos' = to
  /\ UNCHANGED <<known, call>>

\* Only after the last byte, or if the size is unknown, is there nothing to read.
ReadEnd ==
  /\ call = NoCall
  /\ Learn
  /\ pos = FileSize \/ ~known'
  /\ answer' = Plain("end")
  /\ UNCHANGED <<pos, call>>

\* A read that fails may have moved on, but never back.
ReadFails ==
  /\ call = NoCall
  /\ Learn
  /\ answer' = Plain("error")
  /\ pos' = pos \/ (pos # Nowhere /\ pos' \in pos..FileSize)
  /\ UNCHANGED call

\* The size is also asked for by itself.
AskSize ==
  /\ call = NoCall
  /\ Learn
  /\ UNCHANGED <<pos, call, answer>>

Next ==
  \/ \E o \in Offsets : StartSeek(o)
  \/ Found \/ NotFound \/ SeekHere \/ SeekBeyond
  \/ ReadBytes \/ ReadEnd \/ ReadFails \/ AskSize

Spec == Init /\ [][Next]_vars
=============================================================================
