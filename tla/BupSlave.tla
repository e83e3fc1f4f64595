------------------------------- MODULE BupSlave -------------------------------
(***************************************************************************)
(* The KIO slave for bup:// (class BupSlave, kioslave/bupslave.cpp) at     *)
(* work on a chunk file: a file is fetched by get(), or opened and then    *)
(* read, sought and closed.  A command is answered by finished() or by     *)
(* error(), data() being sent on the way.  What is sent is compared here   *)
(* with what the other side takes it for: the bytes from its own position. *)
(***************************************************************************)
EXTENDS ChunkFile

CONSTANTS
  ReadSizes,    \* how much the other side asks for
  SeekOffsets   \* where it seeks to, or wants get() to resume

ASSUME SlaveAssumption == ReadSizes \subseteq Nat /\ SeekOffsets \subseteq Nat

VARIABLES
  job,      \* the command that is carried out: op, phase, and the argument
  open,     \* mOpenFile is set
  at,       \* where in the file the other side takes the next byte to be from
  sent,     \* what was sent for this command
  outcome   \* how the last command was answered

slave == <<job, open, at, sent, outcome>>
allVars == <<vars, slave>>

NoJob == [op |-> "none", phase |-> "none", arg |-> 0]
Job(op, phase, arg) == [op |-> op, phase |-> phase, arg |-> arg]

\* How many bytes were sent, how many were asked for, and whether they were those that
\* the other side expected.
Nothing(wanted) == [size |-> 0, wanted |-> wanted, inOrder |-> TRUE]

SlaveInit ==
  /\ Init
  /\ job = NoJob
  /\ open = FALSE
  /\ at = 0
  /\ sent = Nothing(0)
  /\ outcome = "none"

\* A command in `phase' goes on when its last call has returned.
In(op, phase) == job.op = op /\ job.phase = phase /\ pc = "idle"

Begin(op, phase, arg) ==
  /\ job = NoJob
  /\ job' = Job(op, phase, arg)
  /\ outcome' = "none"

Step(phase) == job' = [job EXCEPT !.phase = phase] /\ UNCHANGED outcome

Answer(how) == job' = NoJob /\ outcome' = how

Data ==
  /\ sent' = [sent EXCEPT !.size = @ + (answer.to - answer.from),
                          !.inOrder = @ /\ answer.from = at]
  /\ at' = at + (answer.to - answer.from)

-----------------------------------------------------------------------------
(***************************************************************************)
(* get()                                                                   *)
(***************************************************************************)
\* KIO sends a slave with an open file nothing but commands for that file.
Get(resume) ==
  /\ ~open
  /\ Begin("get", "rewind", resume)
  /\ AskSize
  /\ at' = 0 /\ sent' = Nothing(FileSize)
  /\ UNCHANGED open

Rewind ==
  /\ In("get", "rewind")
  /\ Seek(0)
  /\ Step("rewound")
  /\ UNCHANGED <<open, at, sent>>

\* Whether seek(0) worked is not asked.  An offset to resume from is used if it is in
\* the file, as far as the size of that is known.
Rewound ==
  /\ In("get", "rewound")
  /\ \/ /\ job.arg > 0
        /\ SizeIs(FileSize) /\ job.arg < FileSize
        /\ \/ SeekHere(job.arg)
           \/ StartSeek(job.arg)
        /\ Step("resumed")
     \/ /\ job.arg > 0
        /\ \E size \in {0, FileSize} : SizeIs(size) /\ job.arg >= size
        /\ Step("reading")
        /\ UNCHANGED <<pc, offset, valid, stack, blob, seeking, chunk, answer>>
     \/ job.arg = 0 /\ Step("reading") /\ UNCHANGED vars
  /\ UNCHANGED <<open, at, sent>>

\* canResume() is sent if the offset was found.
Resumed ==
  /\ In("get", "resumed")
  /\ Step("reading")
  /\ IF answer.kind = "found"
     THEN at' = job.arg /\ sent' = Nothing(FileSize - job.arg)
     ELSE UNCHANGED <<at, sent>>
  /\ UNCHANGED <<vars, open>>

GetReads ==
  /\ In("get", "reading")
  /\ Read(0)
  /\ Step("got")
  /\ UNCHANGED <<open, at, sent>>

\* Mutant: any failure to read is taken for the end.
GotAnyEnd ==
  /\ In("get", "got")
  /\ IF answer.kind = "bytes"
     THEN Data /\ Step("reading")
     ELSE Answer("finished") /\ UNCHANGED <<at, sent>>
  /\ UNCHANGED <<vars, open>>

\* Mutant: a read that fails is tried again.
GotRetries ==
  /\ In("get", "got")
  /\ CASE answer.kind = "bytes" -> Data /\ Step("reading")
       [] answer.kind = "end"   -> Answer("finished") /\ UNCHANGED <<at, sent>>
       [] OTHER                 -> Step("reading") /\ UNCHANGED <<at, sent>>
  /\ UNCHANGED <<vars, open>>

Got ==
  /\ In("get", "got")
  /\ CASE answer.kind = "bytes" -> Data /\ Step("reading")
       [] answer.kind = "end"   -> Answer("finished") /\ UNCHANGED <<at, sent>>
       [] OTHER                 -> Answer("error") /\ UNCHANGED <<at, sent>>
  /\ UNCHANGED <<vars, open>>

-----------------------------------------------------------------------------
(***************************************************************************)
(* open(), read(), seek() and close()                                      *)
(***************************************************************************)
Open ==
  /\ ~open
  /\ Begin("open", "sought", 0)
  /\ Seek(0)
  /\ UNCHANGED <<open, at, sent>>

Opened ==
  /\ In("open", "sought")
  /\ IF answer.kind = "found"
     THEN Answer("finished") /\ open' = TRUE /\ at' = 0 /\ sent' = Nothing(0)
     ELSE Answer("error") /\ UNCHANGED <<open, at, sent>>
  /\ UNCHANGED vars

ReadFile(size) ==
  /\ open
  /\ Begin("read", "reading", size)
  /\ sent' = Nothing(size)
  /\ UNCHANGED <<vars, open, at>>

ReadOn ==
  /\ In("read", "reading") /\ job.arg > 0
  /\ Read(job.arg)
  /\ Step("got")
  /\ UNCHANGED <<open, at, sent>>

\* What was sent remains sent when the file ends, or fails, before it was enough.
ReadGot ==
  /\ In("read", "got")
  /\ IF answer.kind = "bytes"
     THEN /\ Data /\ UNCHANGED outcome
          /\ job' = Job("read", "reading", job.arg - (answer.to - answer.from))
     ELSE Answer("error") /\ UNCHANGED <<at, sent>>
  /\ UNCHANGED <<vars, open>>

ReadEnough ==
  /\ In("read", "reading") /\ job.arg = 0
  /\ Answer("finished")
  /\ UNCHANGED <<vars, open, at, sent>>

SeekFile(o) ==
  /\ open
  /\ Begin("seek", "sought", o)
  /\ Seek(o)
  /\ UNCHANGED <<open, at, sent>>

Sought ==
  /\ In("seek", "sought")
  /\ IF answer.kind = "found"
     THEN Answer("position") /\ at' = job.arg
     ELSE Answer("error") /\ UNCHANGED at
  /\ UNCHANGED <<vars, open, sent>>

Close ==
  /\ job = NoJob /\ open
  /\ open' = FALSE
  /\ outcome' = "finished" /\ sent' = Nothing(0)
  /\ UNCHANGED <<vars, job, at>>

Command ==
  \/ \E o \in SeekOffsets : Get(o) \/ SeekFile(o)
  \/ \E n \in ReadSizes : ReadFile(n)
  \/ Open \/ Close

Work ==
  \/ Rewind \/ Rewound \/ Resumed \/ GetReads \/ Got
  \/ Opened \/ ReadOn \/ ReadGot \/ ReadEnough \/ Sought
  \/ Loop /\ UNCHANGED slave

SlaveNext == Command \/ Work

\* The slave is a process that carries out one command after the other.
SlaveSpec     == SlaveInit /\ [][SlaveNext]_allVars
SlaveFairSpec == SlaveSpec /\ WF_allVars(Work)

-----------------------------------------------------------------------------
(***************************************************************************)
(* Properties.                                                             *)
(***************************************************************************)
\* "the remainder of the offset will be a local offset into the blob or into the
\* subtree" (bupvfs.cpp:234): whatever was sought, read or failed before, data() sends
\* the bytes that the other side expects.
DataInOrder == sent.inOrder

\* A command that has finished has sent as much as was asked for: get() the file to its
\* end, unless the size could not be determined, when it finishes without a byte.
FinishedIsComplete ==
  outcome = "finished" =>
    \/ sent.size = sent.wanted
    \/ ~known /\ sent.size = 0

\* Every command is answered: neither the search nor the way to the next blob goes on
\* for ever.
EveryCommandAnswered == job # NoJob ~> job = NoJob
=============================================================================
