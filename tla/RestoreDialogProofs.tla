------------------------ MODULE RestoreDialogProofs ------------------------
(***************************************************************************)
(* The restore dialog, for every version, every set of places and every    *)
(* tree on the disk (RestoreDialog).  With one dialog whose user waits for *)
(* a listing the process is back in its working directory; if the user     *)
(* does not change to another destination after a first check either,      *)
(* nothing is replaced unasked.  Only files of the user can be lost, and   *)
(* they never become more: what is safe to write stays safe, and all there *)
(* is to show is that each job starts with safe targets.  For the same     *)
(* user what is restored is where the dialog says that it is.              *)
(***************************************************************************)
EXTENDS RestoreDialog, SequenceTheorems, TLAPS

OneDialog == \A d, e \in Dialogs : d = e

\* A user who waits for listings, and one who also keeps to the destination.
Patient   == OneDialog /\ ~Impatient
Decided   == Patient /\ ~SecondThoughts

-----------------------------------------------------------------------------
\* The working directory: changed for one listing at a time, and remembered.
Returns(d) ==
  LET e == dialog[d]
  IN  /\ Len(e.listings) <= 1
      /\ e.listings = <<>> => cwd = StartDir
      /\ e.listings # <<>> /\ e.saved = NoDir => cwd = StartDir
      /\ e.listings # <<>> /\ e.saved # NoDir => e.saved = StartDir
      /\ e.page = "none" => e.listings = <<>>

-----------------------------------------------------------------------------
\* The files of the user that are `there', and what is below a path.
Users(there)        == {p \in DOMAIN there : there[p] = "user"}
FilesIn(there, top) == {p \in DOMAIN there : IsStrictPrefix(top, p) /\ there[p] # "dir"}
DirIn(there, p)     == p \in DOMAIN there /\ there[p] = "dir"

\* A file may be written to p without asking again.
Safe(there, p, agreed) == p \in Users(there) => p \in agreed

\* Before the first job the disk is a tree without a temporary folder.
Tree(there) ==
  \A p \in DOMAIN there :
    /\ p \in Seq(Names) /\ p # NoDir
    /\ \A n \in 1..Len(p) - 1 : DirIn(there, SubSeq(p, 1, n))

\* Where KIO moves what is at p in the temporary folder.
Target(tmp, p) == Front(tmp) \o SubSeq(p, Len(tmp) + 1, Len(p))

\* Where bup puts the entries, or the file.
Outputs(e) ==
  IF e.version.isDirectory
  THEN {(IF e.slash THEN e.path ELSE Append(e.path, Source)) \o x : x \in Entries(e)}
  ELSE {Append(e.path, Source)}

\* What may be moved out of the temporary folder.
Moved(e) == IF e.version.isDirectory THEN Outputs(e) ELSE {Append(e.path, Last(e.dest))}

\* A job started for e with `agreed' loses nothing.
Ready(there, e, agreed) ==
  /\ e.path # NoDir
  /\ \A p \in Outputs(e) : Safe(there, p, agreed)
  /\ Last(e.path) = Tmp =>
       \A p \in Moved(e) : /\ Safe(there, Target(e.path, p), agreed)
                           /\ ~IsStrictPrefix(e.path, Target(e.path, p))
  /\ Last(e.path) # Tmp /\ ~e.version.isDirectory => Last(e.dest) = Source

\* A folder is being listed, the entries in `rest' are still to come.
Listed(there, work, e, rest) ==
  LET folder == Append(e.dest, Source)
  IN  /\ e.version.isDirectory
      /\ e.dest \in Seq(Names) \ {NoDir}
      /\ e.folder = folder
      /\ e.path = (IF folder \notin DOMAIN there THEN e.dest
                   ELSE IF ~DirIn(there, folder) THEN Append(e.dest, Tmp)
                   ELSE IF \A p \in DOMAIN there : ~IsStrictPrefix(folder, p) THEN folder
                   ELSE Append(folder, Tmp))
      /\ e.slash = DirIn(there, folder)
      /\ DirIn(there, folder) =>
           /\ work = folder /\ e.saved # NoDir
           /\ \A x \in Entries(e) \ rest :
                folder \o x \in DOMAIN there => folder \o x \in e.conflicts

\* Before anything is restored.
Choosing(there, work, e) ==
  e.page \in {"none", "choose", "custom", "conflict"} =>
    /\ e.jobs = <<>>
    /\ Tree(there)
    /\ ~e.version.isDirectory => ~e.slash
    /\ e.listings # <<>> => /\ e.page \in {"choose", "custom"}
                            /\ Listed(there, work, e, e.listings[1])
    /\ e.page = "conflict" => /\ Ready(there, e, e.conflicts)
                              /\ e.dest \in Seq(Names)

\* A job that loses nothing any more.
JobFine(there, e, j) ==
  /\ j.path = e.path
  /\ \A x \in j.left : Root(j) \o x \in Outputs(e)
  /\ Ready(there, e, j.agreed)
  /\ Last(e.path) = Tmp /\ j.phase # "done" =>
       \A p \in FilesIn(there, e.path) :
         /\ there[p] # "user"
         /\ p \in (IF j.phase = "moving" THEN Moved(e) ELSE Outputs(e))
  /\ j.phase \in {"renaming", "moving"} => Last(e.path) = Tmp
  /\ j.phase = "renaming" => ~e.version.isDirectory

\* One dialog has one job.
Fine(there, work, e) ==
  /\ Choosing(there, work, e)
  /\ e.jobs # <<>> => Len(e.jobs) = 1 /\ JobFine(there, e, e.jobs[1])
  /\ e.page \in {"restoring", "closed"} => e.listings = <<>>

Lossless == lost = {} /\ \A d \in Dialogs : Fine(disk, cwd, dialog[d])

\* What d has restored is at p.
At(there, p, d) == p \in DOMAIN there /\ there[p] = d

\* Where bup writes, and from there KIO moves, is where the dialog says.
Aimed(e) ==
  /\ NoDir \notin Outputs(e)
  /\ Last(e.path) # Tmp => ShownPlaces(e) = Outputs(e)
  /\ Last(e.path) = Tmp =>
       /\ ShownPlaces(e) = {Target(e.path, m) : m \in Moved(e)}
       /\ \A m \in Moved(e) : /\ IsStrictPrefix(e.path, m)
                               /\ Target(e.path, m) \notin {e.path, NoDir}

\* How far job j of dialog d has come.
Underway(there, d, e, j) ==
  /\ Aimed(e)
  /\ j.phase = "restoring" =>
       \A p \in Outputs(e) : At(there, p, d) \/ \E x \in j.left : p = Root(j) \o x
  /\ j.phase = "renaming" => \A p \in Outputs(e) : At(there, p, d)
  /\ j.phase = "moving" =>
       \A m \in Moved(e) : At(there, m, d) \/ At(there, Target(e.path, m), d)
  /\ e.result = "restored" =>
       /\ j.phase = "done"
       /\ \A p \in ShownPlaces(e) : At(there, p, d)
       /\ Last(e.path) = Tmp => e.path \notin DOMAIN there

OnTheWay(there, d, e) ==
  /\ e.jobs = <<>> => e.result = "none"
  /\ e.jobs # <<>> => Underway(there, d, e, e.jobs[1])
  /\ e.page = "conflict" => Aimed(e)

Arriving == \A d \in Dialogs : OnTheWay(disk, d, dialog[d])

Directory ==
  /\ \A d \in Dialogs : Returns(d)
  /\ Dialogs = {} => cwd = StartDir

-----------------------------------------------------------------------------
(***************************************************************************)
(* Paths.                                                                  *)
(***************************************************************************)
LEMMA Appended ==
  ASSUME NEW S, NEW p \in Seq(S), NEW x \in S
  PROVE  /\ Append(p, x) \in Seq(S) /\ Append(p, x) # NoDir
         /\ Len(Append(p, x)) = Len(p) + 1 /\ Len(p) \in Nat
         /\ Last(Append(p, x)) = x
         /\ Front(Append(p, x)) = p
<1> DEFINE q == Append(p, x)
<1>1. /\ q \in Seq(S) /\ q # <<>> /\ Len(q) = Len(p) + 1 /\ q[Len(p) + 1] = x
      /\ \A i \in 1..Len(p) : q[i] = p[i]
  BY AppendProperties
<1>2. Len(p) \in Nat /\ \A i \in 1..Len(p) : p[i] \in S
  BY LenProperties, ElementOfSeq
<1>3. Len(q) - 1 = Len(p)
  BY <1>1, <1>2
<1>4. Front(q) = p
  <2> DEFINE f == SubSeq(q, 1, Len(p))
  <2> HIDE DEF q
  <2>1. \A i \in 1..Len(p) : q[i] \in S
    BY <1>1, <1>2
  <2>2. f \in Seq(S) /\ Len(f) = Len(p) /\ \A i \in 1..Len(p) : f[i] = q[i]
    BY <1>2, <2>1, SubSeqProperties
  <2>3. f = p
    BY <1>1, <2>2, SeqEqual
  <2> QED
    BY <1>3, <2>3 DEF Front
<1> QED
  BY <1>1, <1>2, <1>4 DEF Last, NoDir

LEMMA Part ==
  ASSUME NEW S, NEW p \in Seq(S), NEW m \in Nat \ {0}, NEW n \in Int, n <= Len(p)
  PROVE  SubSeq(p, m, n) \in Seq(S)
<1>1. \A i \in m..n : p[i] \in S
  BY LenProperties, ElementOfSeq
<1> QED
  BY <1>1, SubSeqProperties

LEMMA FrontOf ==
  ASSUME NEW S, NEW p \in Seq(S)
  PROVE  Front(p) \in Seq(S)
BY Part, LenProperties DEF Front

LEMMA Removed ==
  ASSUME NEW S, NEW s \in Seq(S), NEW i \in 1..Len(s)
  PROVE  /\ RemoveAt(s, i) \in Seq(S)
         /\ Len(s) = 1 => RemoveAt(s, i) = <<>>
<1>1. Len(s) \in Nat
  BY LenProperties
<1>2. SubSeq(s, 1, i - 1) \in Seq(S) /\ SubSeq(s, i + 1, Len(s)) \in Seq(S)
  BY <1>1, Part
<1>3. Len(s) = 1 => SubSeq(s, 1, i - 1) = <<>> /\ SubSeq(s, i + 1, Len(s)) = <<>>
  BY <1>1, SubSeqEmpty
<1>4. <<>> \in Seq(S) /\ <<>> \o <<>> = <<>>
  BY ConcatEmptySeq
<1> QED
  BY <1>2, <1>3, <1>4, ConcatProperties DEF RemoveAt

\* The end of a dialog's only listing.
LEMMA LastListing ==
  ASSUME NEW e \in Dialog, NEW i \in 1..Len(e.listings), Len(e.listings) = 1
  PROVE  /\ [e EXCEPT !.listings = RemoveAt(@, i)] = [e EXCEPT !.listings = <<>>]
         /\ [e EXCEPT !.listings = <<>>] \in Dialog
         /\ [e EXCEPT !.listings = <<>>].listings = <<>>
<1>1. e.listings \in Seq(SUBSET Path)
  BY DEF Dialog
<1>2. RemoveAt(e.listings, i) = <<>>
  BY <1>1, Removed
<1>3. <<>> \in Seq(SUBSET Path)
  OBVIOUS
<1> QED
  BY <1>2, <1>3 DEF Dialog

-----------------------------------------------------------------------------
(***************************************************************************)
(* Types.                                                                  *)
(***************************************************************************)
AnyName == Names \cup {Tmp} \cup {StartDir[1]}

LEMMA Constants ==
  /\ Source \in Names /\ NewName \in Names /\ Tmp \notin Names
  /\ Tmp \in AnyName /\ Names \subseteq AnyName /\ Path = Seq(AnyName)
  /\ StartDir \in Path /\ NoDir \in Path /\ StartDir # NoDir
  /\ Places \subseteq Names /\ Home \in Places
  /\ Seq(Names) \subseteq Path
<1>1. Tmp \in AnyName /\ Names \subseteq AnyName /\ StartDir[1] \in AnyName /\ Path = Seq(AnyName)
  BY DEF AnyName, Path
<1>2. StartDir = <<StartDir[1]>>
  BY DEF StartDir
<1>3. StartDir \in Path /\ NoDir \in Path /\ StartDir # NoDir
  BY <1>1, <1>2 DEF NoDir
<1>4. Seq(Names) \subseteq Path
  BY <1>1, SeqMonotonic
<1> QED
  BY <1>1, <1>3, <1>4, RestoreAssumption

LEMMA EntriesTyped ==
  ASSUME NEW e, e.version \in Versions
  PROVE  /\ e.version.isDirectory \in BOOLEAN
         /\ Entries(e) \subseteq Path
         /\ \A x \in Entries(e) : x \in Seq(Names) /\ Len(x) = 1
<1>1. e.version.isDirectory \in BOOLEAN /\ e.version.entries \subseteq Names
  BY RestoreAssumption
<1>2. \A n \in Names : <<n>> \in Seq(Names) /\ Len(<<n>>) = 1
  OBVIOUS
<1>3. \A x \in Entries(e) : x \in Seq(Names) /\ Len(x) = 1
  BY <1>1, <1>2 DEF Entries
<1> QED
  BY <1>1, <1>3, Constants

LEMMA RestoringTyped ==
  ASSUME NEW e \in Dialog, NEW agreed \in SUBSET Path
  PROVE  StartRestoring(e, agreed) \in Dialog
<1> DEFINE j == [phase |-> "restoring", path |-> e.path, slash |-> e.slash,
                 left |-> IF e.version.isDirectory THEN Entries(e) ELSE {<<>>},
                 agreed |-> agreed]
<1>1. e.jobs \in Seq(Job) /\ e.path \in Path /\ e.slash \in BOOLEAN
  BY DEF Dialog
<1>2. Entries(e) \subseteq Path /\ {<<>>} \subseteq Path
  BY EntriesTyped, Constants DEF Dialog, NoDir
<1>3. j \in Job
  BY <1>1, <1>2 DEF Job
<1> HIDE DEF j
<1>4. Append(e.jobs, j) \in Seq(Job)
  BY <1>1, <1>3, AppendProperties
<1>5. StartRestoring(e, agreed) =
        [e EXCEPT !.page = "restoring", !.close = FALSE, !.jobs = Append(e.jobs, j)]
  BY DEF StartRestoring, j
<1> QED
  BY <1>4, <1>5 DEF Dialog

LEMMA PrechecksTyped ==
  ASSUME NEW e \in Dialog, NEW space \in BOOLEAN
  PROVE  CompletePrechecks(e, space) \in Dialog
<1>1. [e EXCEPT !.page = "conflict"] \in Dialog
  BY DEF Dialog
<1> QED
  BY <1>1, RestoringTyped DEF CompletePrechecks

LEMMA FolderPrechecksTyped ==
  ASSUME NEW e \in Dialog, cwd \in Path, DOMAIN disk \subseteq Path
  PROVE  StartFolderPrechecks(e) \in Dialog
<1> DEFINE folder == Append(e.dest, Source)
           p == IF ~Exists(folder) THEN e.dest
                ELSE IF ~IsDir(folder) THEN Append(e.dest, Tmp)
                ELSE IF Below(folder) = {} THEN folder ELSE Append(folder, Tmp)
<1>1. e.dest \in Path /\ e.listings \in Seq(SUBSET Path) /\ e.slash \in BOOLEAN
  BY DEF Dialog
<1>2. folder \in Path
  BY <1>1, Constants, AppendProperties
<1>3. p \in Path
  <2>1. Append(e.dest, Tmp) \in Path /\ Append(folder, Tmp) \in Path
    BY <1>1, <1>2, Constants, AppendProperties
  <2> QED
    BY <1>1, <1>2, <2>1
<1>4. Append(e.listings, Entries(e)) \in Seq(SUBSET Path)
  BY <1>1, EntriesTyped, AppendProperties DEF Dialog
<1> HIDE DEF folder, p
<1> DEFINE c == IF Exists(folder) /\ ~IsDir(folder) THEN {folder} ELSE {}
           b == e.slash \/ IsDir(folder)
           s == IF IsDir(folder) THEN cwd ELSE NoDir
           l == Append(e.listings, Entries(e))
<1>5. StartFolderPrechecks(e) =
        [e EXCEPT !.folder = folder, !.path = p, !.conflicts = c, !.slash = b,
                  !.saved = s, !.listings = l]
  BY DEF StartFolderPrechecks, folder, p
<1>6. c \in SUBSET Path /\ s \in Path
  BY <1>2, Constants
<1>7. b \in BOOLEAN /\ l \in Seq(SUBSET Path)
  BY <1>4
<1> HIDE DEF c, b, s, l
<1>8. [e EXCEPT !.folder = folder, !.path = p, !.conflicts = c, !.slash = b,
                !.saved = s, !.listings = l] \in Dialog
  BY <1>2, <1>3, <1>6, <1>7 DEF Dialog
<1> QED
  BY <1>5, <1>8

LEMMA FilePrechecksTyped ==
  ASSUME NEW e \in Dialog
  PROVE  StartFilePrechecks(e) \in Dialog
<1>1. e.dest \in Path /\ Front(e.dest) \in Path
  BY FrontOf, Constants DEF Dialog
<1>2. Append(Front(e.dest), Tmp) \in Path
  BY <1>1, Constants, AppendProperties
<1> QED
  BY <1>1, <1>2 DEF StartFilePrechecks, Dialog

Kinds == {"dir", "user"} \cup Dialogs

LEMMA FileWritten ==
  ASSUME NEW there, NEW path \in Path, NEW what
  PROVE  LET new == WithFile(there, path, what)
         IN  /\ DOMAIN there \subseteq DOMAIN new
             /\ path # NoDir => path \in DOMAIN new
             /\ path \in DOMAIN new => new[path] = what
             /\ \A p \in DOMAIN new \ {path} :
                  new[p] = IF p \in DOMAIN there THEN there[p] ELSE "dir"
             /\ DOMAIN there \subseteq Path => DOMAIN new \subseteq Path
             /\ there \in [DOMAIN there -> Kinds] /\ what \in Kinds =>
                  new \in [DOMAIN new -> Kinds]
<1> DEFINE way == {SubSeq(path, 1, n) : n \in 1..Len(path)}
           new == WithFile(there, path, what)
<1>1. new = [p \in DOMAIN there \cup way |->
               IF p = path THEN what ELSE IF p \in DOMAIN there THEN there[p] ELSE "dir"]
  BY DEF WithFile
<1>2. Len(path) \in Nat /\ (path # NoDir => Len(path) # 0)
  BY Constants, EmptySeq, LenProperties DEF NoDir
<1>3. way \subseteq Path
  <2>1. \A n \in 1..Len(path) : SubSeq(path, 1, n) \in Path
    BY <1>2, Constants, Part
  <2> QED
    BY <2>1
<1>4. path # NoDir => path \in way
  BY <1>2, Constants, SubSeqFull
<1> HIDE DEF way, new
<1>5. DOMAIN new = DOMAIN there \cup way
  BY <1>1
<1>6. "dir" \in Kinds
  BY DEF Kinds
<1>7. there \in [DOMAIN there -> Kinds] /\ what \in Kinds => new \in [DOMAIN new -> Kinds]
  BY <1>1, <1>5, <1>6
<1>8. path \in DOMAIN new => new[path] = what
  BY <1>1, <1>5
<1>9. \A p \in DOMAIN new \ {path} : new[p] = IF p \in DOMAIN there THEN there[p] ELSE "dir"
  BY <1>1, <1>5
<1> QED
  BY <1>3, <1>4, <1>5, <1>7, <1>8, <1>9 DEF new

LEMMA DiskTyped ==
  ASSUME NEW there, there \in [DOMAIN there -> Kinds], DOMAIN there \subseteq Path,
         NEW path \in Path, NEW what \in Kinds,
         disk' = WithFile(there, path, what)
  PROVE  disk' \in [DOMAIN disk' -> Kinds] /\ DOMAIN disk' \subseteq Path
BY FileWritten

LEMMA RemovedTyped ==
  ASSUME NEW there, there \in [DOMAIN there -> Kinds], DOMAIN there \subseteq Path, NEW paths
  PROVE  /\ Without(there, paths) \in [DOMAIN Without(there, paths) -> Kinds]
         /\ DOMAIN Without(there, paths) \subseteq Path
<1> DEFINE w == Without(there, paths)
<1>1. w = [p \in DOMAIN there \ paths |-> there[p]]
  BY DEF Without
<1> HIDE DEF w
<1>2. DOMAIN w = DOMAIN there \ paths
  BY <1>1
<1>3. w \in [DOMAIN w -> Kinds]
  BY <1>1, <1>2
<1> QED
  BY <1>2, <1>3 DEF w

LEMMA WriteTyped ==
  ASSUME TypeOK, NEW there, there \in [DOMAIN there -> Kinds], DOMAIN there \subseteq Path,
         NEW path \in Path, NEW what \in Kinds, NEW agreed,
         Write(there, path, what, agreed)
  PROVE  disk' \in [DOMAIN disk' -> Kinds] /\ DOMAIN disk' \subseteq Path /\ lost' \subseteq Path
<1>1. disk' = WithFile(there, path, what) /\ lost' \subseteq lost \cup {path}
  BY DEF Write
<1> QED
  BY <1>1, DiskTyped DEF TypeOK

\* A step of one dialog.
LEMMA DialogTyped ==
  ASSUME TypeOK, NEW d \in Dialogs, NEW e \in Dialog, dialog' = [dialog EXCEPT ![d] = e]
  PROVE  dialog' \in [Dialogs -> Dialog]
BY DEF TypeOK

LEMMA JobTyped ==
  ASSUME TypeOK, NEW d \in Dialogs, NEW i \in DOMAIN dialog[d].jobs
  PROVE  /\ dialog[d] \in Dialog /\ dialog[d].jobs \in Seq(Job)
         /\ i \in 1..Len(dialog[d].jobs) /\ dialog[d].jobs[i] \in Job
         /\ \A j \in Job : [dialog[d].jobs EXCEPT ![i] = j] \in Seq(Job)
<1>1. dialog[d] \in Dialog /\ dialog[d].jobs \in Seq(Job)
  BY DEF TypeOK, Dialog
<1>2. i \in 1..Len(dialog[d].jobs)
  BY <1>1, LenProperties
<1> QED
  BY <1>1, <1>2, ElementOfSeq, ExceptSeq

LEMMA FinishedTyped ==
  ASSUME TypeOK, NEW d \in Dialogs, NEW i \in DOMAIN dialog[d].jobs,
         NEW result \in {"failed", "restored"}
  PROVE  Finished(dialog[d], i, result) \in Dialog
<1> DEFINE e == dialog[d]
           j == [e.jobs[i] EXCEPT !.phase = "done"]
<1>1. e \in Dialog /\ e.jobs[i] \in Job /\ \A k \in Job : [e.jobs EXCEPT ![i] = k] \in Seq(Job)
  BY JobTyped
<1>2. j \in Job
  BY <1>1 DEF Job
<1>3. [e.jobs EXCEPT ![i] = j] \in Seq(Job)
  BY <1>1, <1>2
<1>4. Finished(e, i, result) =
        [e EXCEPT !.result = result, !.close = TRUE, !.jobs = [e.jobs EXCEPT ![i] = j]]
  BY <1>1 DEF Finished, Dialog
<1> HIDE DEF j, e
<1> QED
  BY <1>1, <1>3, <1>4 DEF Dialog, e

LEMMA PhaseTyped ==
  ASSUME TypeOK, NEW d \in Dialogs, NEW i \in DOMAIN dialog[d].jobs,
         NEW phase \in {"renaming", "moving", "done"}, NEW path \in Path
  PROVE  /\ [dialog[d] EXCEPT !.jobs[i].phase = phase] \in Dialog
         /\ [dialog[d] EXCEPT !.jobs[i].phase = phase, !.jobs[i].path = path] \in Dialog
<1> DEFINE e == dialog[d]
           j == [e.jobs[i] EXCEPT !.phase = phase]
           k == [e.jobs[i] EXCEPT !.phase = phase, !.path = path]
<1>1. e \in Dialog /\ e.jobs[i] \in Job /\ \A h \in Job : [e.jobs EXCEPT ![i] = h] \in Seq(Job)
  BY JobTyped
<1>2. j \in Job /\ k \in Job
  BY <1>1 DEF Job
<1>3. [e.jobs EXCEPT ![i] = j] \in Seq(Job) /\ [e.jobs EXCEPT ![i] = k] \in Seq(Job)
  BY <1>1, <1>2
<1>4. [e EXCEPT !.jobs[i].phase = phase] = [e EXCEPT !.jobs = [e.jobs EXCEPT ![i] = j]]
  BY <1>1 DEF Dialog
<1>5. [e EXCEPT !.jobs[i].phase = phase, !.jobs[i].path = path]
        = [e EXCEPT !.jobs = [e.jobs EXCEPT ![i] = k]]
  BY <1>1, JobTyped DEF Dialog
<1> HIDE DEF j, k, e
<1> QED
  BY <1>1, <1>3, <1>4, <1>5 DEF Dialog, e

LEMMA MoveFolderTyped ==
  ASSUME TypeOK, NEW d \in Dialogs, NEW i \in DOMAIN dialog[d].jobs
  PROVE  MoveFolder(dialog[d], i) \in Dialog
<1>1. dialog[d].path \in Path
  BY DEF TypeOK, Dialog
<1> QED
  BY <1>1, FinishedTyped, PhaseTyped DEF MoveFolder

LEMMA TypeInit == Init => TypeOK
<1> SUFFICES ASSUME Init PROVE TypeOK
  OBVIOUS
<1> DEFINE v == CHOOSE u \in Versions : TRUE
<1>1. v \in Versions
  BY RestoreAssumption
<1> HIDE DEF v
<1>2. NoDialog \in Dialog
  <2>1. <<>> \in Seq(SUBSET Path) /\ <<>> \in Seq(Job) /\ NoDir \in Path
    BY EmptySeq, Constants
  <2>2. NewDialog(v) \in Dialog
    BY <1>1, <2>1 DEF NewDialog, Dialog
  <2>3. NoDialog = [NewDialog(v) EXCEPT !.page = "none"]
    BY DEF NoDialog, v
  <2> QED
    BY <2>2, <2>3 DEF Dialog
<1>3. dialog \in [Dialogs -> Dialog]
  BY <1>2 DEF Init
<1>4. disk \in Disks
  BY DEF Init
<1>5. /\ disk \in [DOMAIN disk -> {"dir", "user"}]
      /\ DOMAIN disk \subseteq Seq(Names)
  BY <1>4, DiskAssumption
<1>6. disk \in [DOMAIN disk -> {"dir", "user"} \cup Dialogs] /\ DOMAIN disk \subseteq Path
  BY <1>5, Constants
<1>7. cwd \in Path /\ lost = {}
  BY Constants DEF Init
<1> QED
  BY <1>3, <1>6, <1>7 DEF TypeOK

\* A dialog starts its prechecks.
LEMMA StartTyped ==
  ASSUME TypeOK, NEW d \in Dialogs, NEW e \in Dialog, NEW space \in BOOLEAN,
         StartPrechecks(d, e, space)
  PROVE  dialog' \in [Dialogs -> Dialog] /\ cwd' \in Path
<1>1. cwd \in Path /\ DOMAIN disk \subseteq Path
  BY DEF TypeOK
<1>2. StartFolderPrechecks(e) \in Dialog
  BY <1>1, FolderPrechecksTyped
<1>3. CompletePrechecks(StartFilePrechecks(e), space) \in Dialog
  BY FilePrechecksTyped, PrechecksTyped
<1>4. Append(e.dest, Source) \in Path
  BY Constants, AppendProperties DEF Dialog
<1> QED
  BY <1>1, <1>2, <1>3, <1>4, DialogTyped DEF StartPrechecks

LEMMA UserTyped ==
  ASSUME TypeOK, NEW d \in Dialogs, User(d)
  PROVE  TypeOK'
<1> DEFINE e == dialog[d]
<1>0. /\ e \in Dialog /\ e.dest \in Path /\ e.conflicts \in SUBSET Path /\ e.accepting \in Nat
      /\ disk \in [DOMAIN disk -> Kinds] /\ DOMAIN disk \subseteq Path
  BY DEF TypeOK, Dialog, Kinds
<1>p. \A place \in Places, name \in {Source, NewName} : <<place, name>> \in Path
  BY Constants
<1>a. ASSUME NEW f \in Dialog, dialog' = [dialog EXCEPT ![d] = f], UNCHANGED <<disk, cwd, lost>>
      PROVE  TypeOK'
  BY <1>a, DialogTyped DEF TypeOK
<1>1. CASE \E v \in Versions : Open(d, v)
  <2>1. PICK v \in Versions : Open(d, v)
    BY <1>1
  <2>2. NewDialog(v) \in Dialog
    <3>1. <<>> \in Seq(SUBSET Path) /\ <<>> \in Seq(Job) /\ NoDir \in Path
      BY EmptySeq, Constants
    <3> QED
      BY <3>1 DEF NewDialog, Dialog
  <2> QED
    BY <2>1, <2>2, <1>a DEF Open
<1>2. CASE Close(d)
  <2>1. <<>> \in Seq(SUBSET Path)
    BY EmptySeq
  <2>2. [e EXCEPT !.page = "closed", !.listings = <<>>] \in Dialog
    BY <1>0, <2>1 DEF Dialog
  <2>3. dialog' = [dialog EXCEPT ![d] = [e EXCEPT !.page = "closed", !.listings = <<>>]]
    BY <1>2, <1>0 DEF Close, TypeOK, Dialog
  <2> QED
    BY <1>2, <2>2, <2>3, <1>a DEF Close
<1>3. CASE Back(d)
  <2>1. [e EXCEPT !.page = "choose"] \in Dialog
    BY <1>0 DEF Dialog
  <2> QED
    BY <1>3, <2>1, <1>a DEF Back
<1>4. CASE SetCustomDestination(d)
  <2>1. [e EXCEPT !.page = "custom"] \in Dialog
    BY <1>0 DEF Dialog
  <2> QED
    BY <1>4, <2>1, <1>a DEF SetCustomDestination
<1>5. CASE \E space \in BOOLEAN : SetOriginalDestination(d, space)
  <2> DEFINE f == [e EXCEPT !.slash = FALSE, !.dest = <<Home>>]
             g == [e EXCEPT !.dest = <<Home, Source>>]
  <2>1. <<Home>> \in Path /\ <<Home, Source>> \in Path
    BY Constants
  <2>2. f \in Dialog /\ g \in Dialog
    BY <1>0, <2>1 DEF Dialog
  <2>3. PICK space \in BOOLEAN : StartPrechecks(d, IF e.version.isDirectory THEN f ELSE g, space)
    BY <1>5 DEF SetOriginalDestination
  <2> HIDE DEF f, g
  <2>4. dialog' \in [Dialogs -> Dialog] /\ cwd' \in Path
    BY <2>2, <2>3, StartTyped
  <2> QED
    BY <1>5, <2>4 DEF SetOriginalDestination, TypeOK
<1>6. CASE \E place \in Places, name \in {Source, NewName} : CreateNewFolder(d, place, name)
  <2>1. PICK place \in Places, name \in {Source, NewName} : CreateNewFolder(d, place, name)
    BY <1>6
  <2>2. disk' = WithFile(disk, <<place, name>>, "dir") /\ UNCHANGED <<dialog, cwd, lost>>
    BY <2>1 DEF CreateNewFolder
  <2>3. disk' \in [DOMAIN disk' -> Kinds] /\ DOMAIN disk' \subseteq Path
    BY <1>0, <1>p, <2>2, DiskTyped DEF Kinds
  <2> QED
    BY <2>2, <2>3 DEF TypeOK, Kinds
<1>7. CASE \E folder \in DOMAIN disk : CheckFolderSelection(d, folder)
  <2>1. PICK folder \in DOMAIN disk : CheckFolderSelection(d, folder)
    BY <1>7
  <2>2. [e EXCEPT !.dest = folder] \in Dialog
    BY <1>0 DEF Dialog
  <2>3. dialog' \in [Dialogs -> Dialog] /\ cwd' \in Path
    BY <2>1, <2>2, StartTyped DEF CheckFolderSelection
  <2> QED
    BY <2>1, <2>3 DEF CheckFolderSelection, TypeOK
<1>8. CASE \E place \in Places, name \in {Source, NewName}, space \in BOOLEAN :
             CheckFileSelection(d, place, name, space)
  <2>1. PICK place \in Places, name \in {Source, NewName}, space \in BOOLEAN :
           CheckFileSelection(d, place, name, space)
    BY <1>8
  <2> DEFINE f == [e EXCEPT !.accepting = @ + 1, !.dest = <<place, name>>]
             once == CompletePrechecks(StartFilePrechecks(f), space)
             twice == CompletePrechecks(StartFilePrechecks(once), space)
  <2>2. f \in Dialog
    <3>1. e.accepting + 1 \in Nat
      BY <1>0
    <3>2. <<place, name>> \in Path
      BY <1>p, <2>1
    <3> QED
      BY <1>0, <3>1, <3>2 DEF Dialog
  <2>3. once \in Dialog
    BY <2>2, FilePrechecksTyped, PrechecksTyped
  <2>4. twice \in Dialog
    BY <2>3, FilePrechecksTyped, PrechecksTyped
  <2>5. /\ dialog' = [dialog EXCEPT ![d] = IF f.accepting = 1 THEN once ELSE twice]
        /\ UNCHANGED <<disk, cwd, lost>>
    BY <2>1 DEF CheckFileSelection
  <2> QED
    BY <2>3, <2>4, <2>5, <1>a
<1>9. CASE ConfirmOverwrite(d)
  BY <1>0, <1>9, <1>a, RestoringTyped DEF ConfirmOverwrite
<1>10. CASE ConfirmNewName(d)
  <2> DEFINE folder == Append(e.dest, NewName)
             f == [e EXCEPT !.folder = folder, !.path = folder, !.slash = TRUE]
  <2>1. folder \in Path
    BY <1>0, Constants, AppendProperties
  <2>2. f \in Dialog
    BY <1>0, <2>1 DEF Dialog
  <2>3. StartRestoring(f, {}) \in Dialog
    BY <2>2, RestoringTyped
  <2> QED
    BY <1>10, <2>3, <1>a DEF ConfirmNewName
<1> QED
  BY <1>1, <1>2, <1>3, <1>4, <1>5, <1>6, <1>7, <1>8, <1>9, <1>10 DEF User

\* A file is restored only after it was said where.
Filed(e) ==
  /\ ~e.version.isDirectory =>
       /\ e.listings = <<>>
       /\ e.page = "conflict" \/ e.jobs # <<>> => e.dest # NoDir
  /\ e.version.isDirectory => \A i \in DOMAIN e.jobs : e.jobs[i].phase # "renaming"

AllFiled == \A d \in Dialogs : Filed(dialog[d])

LEMMA WorkTyped ==
  ASSUME TypeOK, AllFiled, NEW d \in Dialogs, NEW i \in 1..2, Work(d, i)
  PROVE  TypeOK'
<1> DEFINE e == dialog[d]
<1>0. /\ e \in Dialog /\ e.listings \in Seq(SUBSET Path) /\ e.saved \in Path
      /\ e.folder \in Path /\ e.path \in Path /\ e.dest \in Path
      /\ e.conflicts \in SUBSET Path /\ Entries(e) \subseteq Path
      /\ disk \in [DOMAIN disk -> Kinds] /\ DOMAIN disk \subseteq Path
      /\ cwd \in Path /\ lost \subseteq Path
  BY EntriesTyped DEF TypeOK, Dialog, Kinds
<1>1. CASE CollectSourceListing(d, i)
  <2>1. i \in 1..Len(e.listings)
    BY <1>0, <1>1, LenProperties DEF CollectSourceListing
  <2>2. PICK entry \in e.listings[i] :
           dialog' = [dialog EXCEPT
             ![d].listings[i] = @ \ {entry},
             ![d].conflicts   = IF e.saved # NoDir /\ Exists(cwd \o entry)
                                THEN @ \cup {e.folder \o entry} ELSE @]
    BY <1>1 DEF CollectSourceListing
  <2>3. e.listings[i] \in SUBSET Path
    BY <1>0, <2>1, ElementOfSeq
  <2>4. e.folder \o entry \in Path
    BY <1>0, <2>2, <2>3, Constants, ConcatProperties
  <2> DEFINE l == [e.listings EXCEPT ![i] = e.listings[i] \ {entry}]
             c == IF e.saved # NoDir /\ Exists(cwd \o entry)
                  THEN e.conflicts \cup {e.folder \o entry} ELSE e.conflicts
  <2>5. l \in Seq(SUBSET Path)
    BY <1>0, <2>1, <2>3, ExceptSeq
  <2>6. c \in SUBSET Path
    BY <1>0, <2>4
  <2>7. dialog' = [dialog EXCEPT ![d] = [e EXCEPT !.listings = l, !.conflicts = c]]
    BY <1>0, <2>2 DEF TypeOK, Dialog
  <2> HIDE DEF l, c
  <2>8. [e EXCEPT !.listings = l, !.conflicts = c] \in Dialog
    BY <1>0, <2>5, <2>6 DEF Dialog
  <2> QED
    BY <1>1, <2>7, <2>8, DialogTyped DEF CollectSourceListing, TypeOK
<1>2. CASE \E error, space \in BOOLEAN : SourceListingCompleted(d, i, error, space)
  <2>1. PICK error \in BOOLEAN, space \in BOOLEAN : SourceListingCompleted(d, i, error, space)
    BY <1>2
  <2> DEFINE f == [e EXCEPT !.listings = RemoveAt(@, i)]
  <2>2. i \in 1..Len(e.listings)
    BY <1>0, <2>1, LenProperties DEF SourceListingCompleted
  <2>3. f \in Dialog
    BY <1>0, <2>2, Removed DEF Dialog
  <2>4. CompletePrechecks(f, space) \in Dialog
    BY <2>3, PrechecksTyped
  <2>5. /\ dialog' = [dialog EXCEPT ![d] = IF error THEN f ELSE CompletePrechecks(f, space)]
        /\ cwd' \in {e.saved, cwd} /\ UNCHANGED <<disk, lost>>
    BY <2>1 DEF SourceListingCompleted
  <2> QED
    BY <1>0, <2>3, <2>4, <2>5, DialogTyped DEF TypeOK
<1>3. CASE RestoreEntry(d, i)
  <2> DEFINE job == e.jobs[i]
  <2>1. i \in DOMAIN e.jobs /\ UNCHANGED cwd
    BY <1>3 DEF RestoreEntry
  <2>2. PICK entry \in job.left :
           /\ Write(disk, Root(job) \o entry, d, job.agreed)
           /\ dialog' = [dialog EXCEPT ![d].jobs[i].left = @ \ {entry}]
    BY <1>3 DEF RestoreEntry
  <2>3. job \in Job /\ \A j \in Job : [e.jobs EXCEPT ![i] = j] \in Seq(Job)
    BY <2>1, JobTyped
  <2>4. Root(job) \o entry \in Path
    <3>1. job.path \in Path /\ entry \in Path
      BY <2>2, <2>3 DEF Job
    <3>2. Root(job) \in Path
      BY <3>1, Constants, AppendProperties DEF Root
    <3> QED
      BY <3>1, <3>2, Constants, ConcatProperties
  <2> DEFINE j == [job EXCEPT !.left = job.left \ {entry}]
  <2>5. j \in Job
    BY <2>3 DEF Job
  <2>6. [e.jobs EXCEPT ![i] = j] \in Seq(Job)
    BY <2>3, <2>5
  <2>7. dialog' = [dialog EXCEPT ![d] = [e EXCEPT !.jobs = [e.jobs EXCEPT ![i] = j]]]
    BY <1>0, <2>1, <2>2, JobTyped DEF TypeOK, Dialog
  <2> HIDE DEF j
  <2>8. dialog' \in [Dialogs -> Dialog]
    <3>1. [e EXCEPT !.jobs = [e.jobs EXCEPT ![i] = j]] \in Dialog
      BY <1>0, <2>6 DEF Dialog
    <3> QED
      BY <2>7, <3>1, DialogTyped
  <2>9. disk' \in [DOMAIN disk' -> Kinds] /\ DOMAIN disk' \subseteq Path /\ lost' \subseteq Path
    <3>1. d \in Kinds
      BY DEF Kinds
    <3> QED
      BY <1>0, <2>2, <2>4, <3>1, WriteTyped
  <2> QED
    BY <1>0, <2>1, <2>8, <2>9 DEF TypeOK, Kinds
<1>4. CASE \E error \in BOOLEAN : RestoringCompleted(d, i, error)
  <2>1. PICK error \in BOOLEAN : RestoringCompleted(d, i, error)
    BY <1>4
  <2>2. i \in DOMAIN e.jobs /\ UNCHANGED <<disk, cwd, lost>>
    BY <2>1 DEF RestoringCompleted
  <2>3. /\ Finished(e, i, "failed") \in Dialog /\ MoveFolder(e, i) \in Dialog
        /\ [e EXCEPT !.jobs[i].phase = "done"] \in Dialog
        /\ [e EXCEPT !.jobs[i].phase = "renaming", !.jobs[i].path = e.path] \in Dialog
    BY <1>0, <2>2, FinishedTyped, MoveFolderTyped, PhaseTyped
  <2>4. \E f \in Dialog : dialog' = [dialog EXCEPT ![d] = f]
    BY <2>1, <2>3 DEF RestoringCompleted
  <2> QED
    BY <1>0, <2>2, <2>4, DialogTyped DEF TypeOK
<1>5. CASE \E error \in BOOLEAN : FileMoveCompleted(d, i, error)
  <2>1. PICK error \in BOOLEAN : FileMoveCompleted(d, i, error)
    BY <1>5
  <2>2. i \in DOMAIN e.jobs /\ UNCHANGED <<cwd, lost>>
    BY <2>1 DEF FileMoveCompleted
  <2>3. /\ MoveFolder(e, i) \in Dialog /\ [e EXCEPT !.jobs[i].phase = "done"] \in Dialog
        /\ [e EXCEPT !.result = "failed", !.jobs[i].phase = "done"] \in Dialog
    <3>1. /\ MoveFolder(e, i) \in Dialog /\ [e EXCEPT !.jobs[i].phase = "done"] \in Dialog
      BY <1>0, <2>2, MoveFolderTyped, PhaseTyped
    <3>2. [e EXCEPT !.result = "failed", !.jobs[i].phase = "done"]
            = [[e EXCEPT !.jobs[i].phase = "done"] EXCEPT !.result = "failed"]
      BY <1>0 DEF Dialog
    <3> QED
      BY <3>1, <3>2 DEF Dialog
  <2>4. CASE error
    <3>1. dialog' = [dialog EXCEPT ![d] =
                       [e EXCEPT !.result = "failed", !.jobs[i].phase = "done"]]
          /\ UNCHANGED disk
      BY <2>1, <2>4, <1>0 DEF FileMoveCompleted, TypeOK, Dialog
    <3> QED
      BY <1>0, <2>2, <2>3, <3>1, DialogTyped DEF TypeOK
  <2>5. CASE ~error
    <3> DEFINE from == Append(e.jobs[i].path, Source)
               to == Append(e.jobs[i].path, Last(e.dest))
               rest == Without(disk, {from})
    <3>1. /\ from \in DOMAIN disk
          /\ disk' = WithFile(rest, to, disk[from])
          /\ dialog' = [dialog EXCEPT ![d] =
               IF e.page = "closed" THEN [e EXCEPT !.jobs[i].phase = "done"]
               ELSE MoveFolder(e, i)]
      BY <2>1, <2>5 DEF FileMoveCompleted, Exists
    <3>2. rest \in [DOMAIN rest -> Kinds] /\ DOMAIN rest \subseteq Path /\ disk[from] \in Kinds
      BY <1>0, <3>1, RemovedTyped
    <3>3. to \in Path
      <4>1. e.dest # NoDir
        BY <2>1, <2>2, EmptySeq, JobTyped DEF AllFiled, Filed, FileMoveCompleted
      <4>2. e.jobs[i].path \in Path
        BY <2>2, JobTyped DEF Job
      <4>3. Last(e.dest) \in AnyName
        BY <1>0, <4>1, Constants, LenProperties, EmptySeq, ElementOfSeq DEF Last, NoDir
      <4> QED
        BY <4>2, <4>3, Constants, AppendProperties
    <3>4. disk' \in [DOMAIN disk' -> Kinds] /\ DOMAIN disk' \subseteq Path
      BY <3>1, <3>2, <3>3, DiskTyped
    <3>5. dialog' \in [Dialogs -> Dialog]
      BY <2>3, <3>1, DialogTyped
    <3> QED
      BY <1>0, <2>2, <3>4, <3>5 DEF TypeOK, Kinds
  <2> QED
    BY <2>4, <2>5
<1>6. CASE MoveEntry(d, i)
  <2> DEFINE job == e.jobs[i]
  <2>1. i \in DOMAIN e.jobs /\ UNCHANGED <<dialog, cwd>>
    BY <1>6 DEF MoveEntry
  <2>2. PICK p \in FilesBelow(job.path) :
           Write(Without(disk, {p}),
                 Front(job.path) \o SubSeq(p, Len(job.path) + 1, Len(p)), disk[p], job.agreed)
    BY <1>6 DEF MoveEntry
  <2>3. p \in Path /\ p \in DOMAIN disk /\ disk[p] \in Kinds
    BY <1>0, <2>2 DEF FilesBelow, Below
  <2>4. job.path \in Path /\ Len(job.path) \in Nat /\ Len(p) \in Nat
    BY <2>1, <2>3, JobTyped, Constants, LenProperties DEF Job
  <2> DEFINE to == Front(job.path) \o SubSeq(p, Len(job.path) + 1, Len(p))
             rest == Without(disk, {p})
  <2>5. to \in Path
    <3>1. Front(job.path) \in Path
      BY <2>4, Constants, FrontOf
    <3>2. SubSeq(p, Len(job.path) + 1, Len(p)) \in Path
      BY <2>3, <2>4, Constants, Part
    <3> QED
      BY <3>1, <3>2, Constants, ConcatProperties
  <2>6. rest \in [DOMAIN rest -> Kinds] /\ DOMAIN rest \subseteq Path
    BY <1>0, RemovedTyped
  <2>7. Write(rest, to, disk[p], job.agreed)
    BY <2>2
  <2> HIDE DEF rest, to
  <2>8. disk' \in [DOMAIN disk' -> Kinds] /\ DOMAIN disk' \subseteq Path /\ lost' \subseteq Path
    BY <2>3, <2>5, <2>6, <2>7, WriteTyped
  <2> QED
    BY <1>0, <2>1, <2>8 DEF TypeOK, Kinds
<1>7. CASE \E error \in BOOLEAN : FolderMoveCompleted(d, i, error)
  <2>1. PICK error \in BOOLEAN : FolderMoveCompleted(d, i, error)
    BY <1>7
  <2>2. /\ i \in DOMAIN e.jobs /\ UNCHANGED <<cwd, lost>>
        /\ \/ disk' = disk
           \/ disk' = Without(disk, {e.jobs[i].path} \cup Below(e.jobs[i].path))
        /\ dialog' = [dialog EXCEPT ![d] = Finished(e, i, IF error THEN "failed" ELSE "restored")]
    BY <2>1 DEF FolderMoveCompleted
  <2>3. Finished(e, i, IF error THEN "failed" ELSE "restored") \in Dialog
    BY <2>2, FinishedTyped
  <2>4. disk' \in [DOMAIN disk' -> Kinds] /\ DOMAIN disk' \subseteq Path
    BY <1>0, <2>2, RemovedTyped
  <2> QED
    BY <1>0, <2>2, <2>3, <2>4, DialogTyped DEF TypeOK, Kinds
<1> QED
  BY <1>1, <1>2, <1>3, <1>4, <1>5, <1>6, <1>7 DEF Work

(***************************************************************************)
(* What the calls do to a dialog.                                          *)
(***************************************************************************)
LEMMA RestoringKeeps ==
  ASSUME NEW e \in Dialog, NEW agreed \in SUBSET Path
  PROVE  LET f == StartRestoring(e, agreed)
             j == [phase |-> "restoring", path |-> e.path, slash |-> e.slash,
                   left |-> IF e.version.isDirectory THEN Entries(e) ELSE {<<>>},
                   agreed |-> agreed]
         IN  /\ f.page = "restoring" /\ f.jobs = Append(e.jobs, j) /\ j \in Job
             /\ f.version = e.version /\ f.slash = e.slash /\ f.dest = e.dest
             /\ f.path = e.path /\ f.saved = e.saved /\ f.listings = e.listings
             /\ f.conflicts = e.conflicts
<1>1. Entries(e) \subseteq Path /\ {<<>>} \subseteq Path
  BY EntriesTyped, Constants DEF Dialog, NoDir
<1> QED
  BY <1>1 DEF StartRestoring, Dialog, Job

LEMMA PrechecksKeep ==
  ASSUME NEW e \in Dialog, NEW space \in BOOLEAN
  PROVE  LET f == CompletePrechecks(e, space)
         IN  /\ f.version = e.version /\ f.slash = e.slash /\ f.dest = e.dest
             /\ f.path = e.path /\ f.saved = e.saved /\ f.listings = e.listings
             /\ f.conflicts = e.conflicts
             /\ f.page \in {e.page, "conflict", "restoring"}
             /\ \/ f = e
                \/ f.page = "conflict" /\ f.jobs = e.jobs
                \/ e.conflicts = {} /\ f = StartRestoring(e, {})
<1>1. {} \in SUBSET Path
  OBVIOUS
<1>2. CASE ~space
  BY <1>2 DEF CompletePrechecks
<1>3. CASE space /\ e.conflicts # {}
  BY <1>3 DEF CompletePrechecks, Dialog
<1>4. CASE space /\ e.conflicts = {}
  <2>1. CompletePrechecks(e, space) = StartRestoring(e, {})
    BY <1>4 DEF CompletePrechecks
  <2> DEFINE f == StartRestoring(e, {})
  <2>2. /\ f.version = e.version /\ f.slash = e.slash /\ f.dest = e.dest
        /\ f.path = e.path /\ f.saved = e.saved /\ f.listings = e.listings
        /\ f.conflicts = e.conflicts /\ f.page = "restoring"
    BY <1>1, RestoringKeeps
  <2> HIDE DEF f
  <2> QED
    BY <1>4, <2>1, <2>2 DEF f
<1> QED
  BY <1>2, <1>3, <1>4

LEMMA FileKeeps ==
  ASSUME NEW e \in Dialog
  PROVE  LET f == StartFilePrechecks(e)
             direct == ~Exists(e.dest) /\ Last(e.dest) = Source
         IN  /\ f.version = e.version /\ f.slash = e.slash /\ f.dest = e.dest
             /\ f.page = e.page /\ f.listings = e.listings /\ f.jobs = e.jobs
             /\ f.path = IF direct THEN Front(e.dest) ELSE Append(Front(e.dest), Tmp)
             /\ f.conflicts = IF Exists(e.dest) THEN {e.dest} ELSE {}
BY DEF StartFilePrechecks, Dialog

LEMMA FolderKeeps ==
  ASSUME NEW e \in Dialog
  PROVE  LET f      == StartFolderPrechecks(e)
             folder == Append(e.dest, Source)
         IN  /\ f.version = e.version /\ f.dest = e.dest /\ f.page = e.page /\ f.jobs = e.jobs
             /\ f.folder = folder
             /\ f.path = (IF ~Exists(folder) THEN e.dest
                          ELSE IF ~IsDir(folder) THEN Append(e.dest, Tmp)
                          ELSE IF Below(folder) = {} THEN folder
                          ELSE Append(folder, Tmp))
             /\ f.conflicts = IF Exists(folder) /\ ~IsDir(folder) THEN {folder} ELSE {}
             /\ f.slash = (e.slash \/ IsDir(folder))
             /\ f.saved = IF IsDir(folder) THEN cwd ELSE NoDir
             /\ f.listings = Append(e.listings, Entries(e))
BY DEF StartFolderPrechecks, Dialog

\* A job changes its phase, and its dialog the result that it shows.
Rephased(e, f, i, phases) ==
  /\ i \in DOMAIN e.jobs /\ f.jobs[i].phase \in phases
  /\ DOMAIN f.jobs = DOMAIN e.jobs /\ Len(f.jobs) = Len(e.jobs)
  /\ \A k \in DOMAIN e.jobs \ {i} : f.jobs[k] = e.jobs[k]
  /\ f.jobs[i].path \in {e.jobs[i].path, e.path}
  /\ f.jobs[i].slash = e.jobs[i].slash
  /\ f.jobs[i].left = e.jobs[i].left /\ f.jobs[i].agreed = e.jobs[i].agreed
  /\ f.page = e.page /\ f.listings = e.listings /\ f.version = e.version
  /\ f.slash = e.slash /\ f.dest = e.dest /\ f.path = e.path /\ f.saved = e.saved
  /\ f.conflicts = e.conflicts /\ f.folder = e.folder

LEMMA PhaseKeeps ==
  ASSUME TypeOK, NEW d \in Dialogs, NEW i \in DOMAIN dialog[d].jobs,
         NEW phase \in {"renaming", "moving", "done"}
  PROVE  LET e == dialog[d]
         IN  /\ Rephased(e, [e EXCEPT !.jobs[i].phase = phase], i, {phase})
             /\ Rephased(e, [e EXCEPT !.jobs[i].phase = phase, !.jobs[i].path = e.path], i, {phase})
             /\ \A result \in {"failed", "restored"} : Rephased(e, Finished(e, i, result), i, {"done"})
             /\ Rephased(e, [e EXCEPT !.result = "failed", !.jobs[i].phase = "done"], i, {"done"})
<1> DEFINE e == dialog[d]
           s == e.jobs
           j == [s[i] EXCEPT !.phase = phase]
           k == [s[i] EXCEPT !.phase = phase, !.path = e.path]
           l == [s[i] EXCEPT !.phase = "done"]
<1>1. /\ e \in Dialog /\ s \in Seq(Job) /\ s[i] \in Job /\ i \in 1..Len(s)
      /\ e.path \in Path
  BY JobTyped DEF Dialog
<1>2. j \in Job /\ k \in Job /\ l \in Job
  BY <1>1 DEF Job
<1>3. /\ j.phase = phase /\ k.phase = phase /\ l.phase = "done"
      /\ j.path = s[i].path /\ k.path = e.path /\ l.path = s[i].path
      /\ j.slash = s[i].slash /\ k.slash = s[i].slash /\ l.slash = s[i].slash
      /\ j.left = s[i].left /\ k.left = s[i].left /\ l.left = s[i].left
      /\ j.agreed = s[i].agreed /\ k.agreed = s[i].agreed /\ l.agreed = s[i].agreed
  BY <1>1 DEF Job
<1>4. ASSUME NEW m \in Job
      PROVE  /\ DOMAIN [s EXCEPT ![i] = m] = DOMAIN s
             /\ Len([s EXCEPT ![i] = m]) = Len(s)
             /\ [s EXCEPT ![i] = m][i] = m
             /\ \A h \in DOMAIN s \ {i} : [s EXCEPT ![i] = m][h] = s[h]
  BY <1>1, ExceptSeq
<1>5. [e EXCEPT !.jobs[i].phase = phase] = [e EXCEPT !.jobs = [s EXCEPT ![i] = j]]
  BY <1>1 DEF Dialog
<1>6. [e EXCEPT !.jobs[i].phase = phase, !.jobs[i].path = e.path]
        = [e EXCEPT !.jobs = [s EXCEPT ![i] = k]]
  BY <1>1 DEF Dialog
<1>7. \A result \in {"failed", "restored"} :
        Finished(e, i, result)
          = [e EXCEPT !.result = result, !.close = TRUE, !.jobs = [s EXCEPT ![i] = l]]
  BY <1>1 DEF Finished, Dialog
<1>8. [e EXCEPT !.result = "failed", !.jobs[i].phase = "done"]
        = [e EXCEPT !.result = "failed", !.jobs = [s EXCEPT ![i] = l]]
  BY <1>1 DEF Dialog
<1>9. ASSUME NEW m \in Job,
             m.path \in {s[i].path, e.path}, m.slash = s[i].slash, m.left = s[i].left,
             m.agreed = s[i].agreed
      PROVE  /\ Rephased(e, [e EXCEPT !.jobs = [s EXCEPT ![i] = m]], i, {m.phase})
             /\ \A result \in {"failed", "restored"} :
                  /\ Rephased(e, [e EXCEPT !.result = result, !.jobs = [s EXCEPT ![i] = m]],
                              i, {m.phase})
                  /\ Rephased(e, [e EXCEPT !.result = result, !.close = TRUE,
                                           !.jobs = [s EXCEPT ![i] = m]], i, {m.phase})
  <2> DEFINE t == [s EXCEPT ![i] = m]
  <2>1. /\ DOMAIN t = DOMAIN s /\ Len(t) = Len(s) /\ t[i] = m
        /\ \A h \in DOMAIN s \ {i} : t[h] = s[h]
    BY <1>4
  <2> HIDE DEF t
  <2>2. Rephased(e, [e EXCEPT !.jobs = t], i, {m.phase})
    BY <1>1, <1>9, <2>1 DEF Rephased, Dialog
  <2>3. ASSUME NEW result \in {"failed", "restored"}
        PROVE  /\ Rephased(e, [e EXCEPT !.result = result, !.jobs = t], i, {m.phase})
               /\ Rephased(e, [e EXCEPT !.result = result, !.close = TRUE, !.jobs = t], i, {m.phase})
    BY <1>1, <1>9, <2>1 DEF Rephased, Dialog
  <2> QED
    BY <2>2, <2>3 DEF t
<1> HIDE DEF j, k, l
<1>10. Rephased(e, [e EXCEPT !.jobs[i].phase = phase], i, {phase})
  BY <1>2, <1>3, <1>5, <1>9
<1>11. Rephased(e, [e EXCEPT !.jobs[i].phase = phase, !.jobs[i].path = e.path], i, {phase})
  BY <1>2, <1>3, <1>6, <1>9
<1>12. ASSUME NEW result \in {"failed", "restored"}
       PROVE  Rephased(e, Finished(e, i, result), i, {"done"})
  BY <1>2, <1>3, <1>7, <1>9
<1>13. Rephased(e, [e EXCEPT !.result = "failed", !.jobs[i].phase = "done"], i, {"done"})
  BY <1>2, <1>3, <1>8, <1>9
<1> QED
  BY <1>10, <1>11, <1>12, <1>13

LEMMA MoveFolderKeeps ==
  ASSUME TypeOK, NEW d \in Dialogs, NEW i \in DOMAIN dialog[d].jobs
  PROVE  LET f == MoveFolder(dialog[d], i)
         IN  /\ Rephased(dialog[d], f, i, {"done", "moving"})
             /\ f.jobs[i].phase = "moving" => Last(dialog[d].path) = Tmp
<1> DEFINE e == dialog[d]
<1>1. CASE Last(e.path) # Tmp
  <2>1. MoveFolder(e, i) = Finished(e, i, "restored")
    BY <1>1 DEF MoveFolder
  <2>2. Rephased(e, Finished(e, i, "restored"), i, {"done"})
    BY PhaseKeeps
  <2> QED
    BY <2>1, <2>2 DEF Rephased
<1>2. CASE Last(e.path) = Tmp
  <2>1. MoveFolder(e, i) = [e EXCEPT !.jobs[i].phase = "moving", !.jobs[i].path = e.path]
    BY <1>2 DEF MoveFolder
  <2>2. Rephased(e, MoveFolder(e, i), i, {"moving"})
    BY <2>1, PhaseKeeps
  <2> QED
    BY <1>2, <2>2 DEF Rephased
<1> QED
  BY <1>1, <1>2

\* A step is one of one dialog.
LEMMA OthersKeep ==
  ASSUME TypeOK, NEW d \in Dialogs, User(d) \/ \E i \in 1..2 : Work(d, i)
  PROVE  \A c \in Dialogs \ {d} : dialog'[c] = dialog[c]
<1>1. \/ UNCHANGED dialog
      \/ \E e : dialog' = [dialog EXCEPT ![d] = e]
  <2>1. CASE User(d)
    BY <2>1
    DEF User, Open, Close, Back, SetCustomDestination, SetOriginalDestination, CreateNewFolder,
        CheckFolderSelection, CheckFileSelection, ConfirmOverwrite, ConfirmNewName, StartPrechecks
  <2>2. ASSUME NEW i \in 1..2, Work(d, i)
        PROVE  \/ UNCHANGED dialog
               \/ \E e : dialog' = [dialog EXCEPT ![d] = e]
    BY <2>2
    DEF Work, CollectSourceListing, SourceListingCompleted, RestoreEntry, RestoringCompleted,
        FileMoveCompleted, MoveEntry, FolderMoveCompleted
  <2> QED
    BY <2>1, <2>2
<1> QED
  BY <1>1 DEF TypeOK

LEMMA RephasedMore ==
  ASSUME NEW e, NEW f, NEW i, NEW S, NEW T, S \subseteq T, Rephased(e, f, i, S)
  PROVE  Rephased(e, f, i, T)
BY DEF Rephased

LEMMA RephasedFiled ==
  ASSUME NEW e \in Dialog, Filed(e), NEW f, NEW i, Rephased(e, f, i, {"moving", "done"})
  PROVE  Filed(f)
<1>1. e.jobs # <<>> /\ f.page = e.page /\ f.listings = e.listings /\ f.dest = e.dest
      /\ f.version = e.version
  BY EmptySeq DEF Rephased
<1>2. \A k \in DOMAIN f.jobs : f.jobs[k] = e.jobs[k] \/ f.jobs[k].phase \in {"moving", "done"}
  BY DEF Rephased
<1>3. DOMAIN f.jobs = DOMAIN e.jobs
  BY DEF Rephased
<1> QED
  BY <1>1, <1>2, <1>3 DEF Filed

LEMMA StartFiled ==
  ASSUME TypeOK, NEW d \in Dialogs, NEW e \in Dialog, NEW space \in BOOLEAN, Filed(e),
         ~e.version.isDirectory => e.dest # NoDir,
         StartPrechecks(d, e, space)
  PROVE  Filed(dialog'[d])
<1>1. CASE e.version.isDirectory
  <2>1. dialog'[d] = StartFolderPrechecks(e)
    BY <1>1 DEF StartPrechecks, TypeOK
  <2> QED
    BY <1>1, <2>1, FolderKeeps DEF Filed
<1>2. CASE ~e.version.isDirectory
  <2> DEFINE f == StartFilePrechecks(e)
  <2>1. dialog'[d] = CompletePrechecks(f, space)
    BY <1>2 DEF StartPrechecks, TypeOK
  <2>2. f \in Dialog /\ f.version = e.version /\ f.dest = e.dest /\ f.listings = e.listings
    BY FileKeeps, FilePrechecksTyped
  <2> HIDE DEF f
  <2>3. LET g == CompletePrechecks(f, space)
        IN  g.version = e.version /\ g.dest = e.dest /\ g.listings = e.listings
    BY <2>2, PrechecksKeep
  <2> QED
    BY <1>2, <2>1, <2>3 DEF Filed
<1> QED
  BY <1>1, <1>2

\* Another job, which begins with restoring.
LEMMA RestoringFiled ==
  ASSUME NEW e \in Dialog, Filed(e), NEW agreed \in SUBSET Path,
         ~e.version.isDirectory => e.dest # NoDir
  PROVE  Filed(StartRestoring(e, agreed))
<1> DEFINE f == StartRestoring(e, agreed)
           j == [phase |-> "restoring", path |-> e.path, slash |-> e.slash,
                 left |-> IF e.version.isDirectory THEN Entries(e) ELSE {<<>>},
                 agreed |-> agreed]
<1>1. /\ f.jobs = Append(e.jobs, j) /\ j \in Job
      /\ f.version = e.version /\ f.dest = e.dest /\ f.listings = e.listings
  BY RestoringKeeps
<1>2. j.phase = "restoring"
  OBVIOUS
<1> HIDE DEF f, j
<1>3. \A k \in DOMAIN f.jobs : f.jobs[k] = j \/ (k \in DOMAIN e.jobs /\ f.jobs[k] = e.jobs[k])
  <2>1. e.jobs \in Seq(Job)
    BY DEF Dialog
  <2>2. DOMAIN f.jobs = 1..Len(e.jobs) + 1 /\ DOMAIN e.jobs = 1..Len(e.jobs) /\ Len(e.jobs) \in Nat
    BY <1>1, <2>1, AppendProperties, LenProperties
  <2> QED
    BY <1>1, <2>1, <2>2, AppendProperties
<1> QED
  BY <1>1, <1>2, <1>3 DEF Filed, f

LEMMA PrechecksFiled ==
  ASSUME NEW e \in Dialog, NEW space \in BOOLEAN, Filed(e),
         ~e.version.isDirectory => e.dest # NoDir
  PROVE  Filed(CompletePrechecks(e, space))
<1> DEFINE f == CompletePrechecks(e, space)
<1>1. f = e \/ (f.page = "conflict" /\ f.jobs = e.jobs) \/ f = StartRestoring(e, {})
  BY PrechecksKeep
<1>2. f.version = e.version /\ f.dest = e.dest /\ f.listings = e.listings
  BY PrechecksKeep
<1>3. Filed(StartRestoring(e, {}))
  BY RestoringFiled
<1> HIDE DEF f
<1>4. CASE f.page = "conflict" /\ f.jobs = e.jobs
  <2>1. ~f.version.isDirectory => f.listings = <<>> /\ f.dest # NoDir
    BY <1>2 DEF Filed
  <2>2. f.version.isDirectory => \A i \in DOMAIN f.jobs : f.jobs[i].phase # "renaming"
    BY <1>2, <1>4 DEF Filed
  <2>3. Filed(f)
    BY <2>1, <2>2 DEF Filed
  <2> QED
    BY <2>3 DEF f
<1> QED
  BY <1>1, <1>3, <1>4 DEF f

LEMMA UserFiled ==
  ASSUME TypeOK, AllFiled, NEW d \in Dialogs, User(d)
  PROVE  Filed(dialog'[d])
<1> DEFINE e == dialog[d]
<1>0. e \in Dialog /\ Filed(e) /\ e.dest \in Path /\ e.conflicts \in SUBSET Path
  BY DEF TypeOK, AllFiled, Dialog
<1>d. \A f : dialog' = [dialog EXCEPT ![d] = f] => dialog'[d] = f
  BY DEF TypeOK
<1>1. CASE \E v \in Versions : Open(d, v)
  <2>1. \E v \in Versions : dialog'[d] = NewDialog(v)
    BY <1>1, <1>d DEF Open
  <2> QED
    BY <2>1 DEF NewDialog, Filed
<1>2. CASE Close(d)
  <2>1. dialog'[d] = [e EXCEPT !.page = "closed", !.listings = <<>>]
    BY <1>2 DEF Close, TypeOK, Dialog
  <2> QED
    BY <1>0, <2>1 DEF Filed, Dialog
<1>3. CASE Back(d) \/ SetCustomDestination(d)
  <2>1. dialog'[d] \in {[e EXCEPT !.page = "choose"], [e EXCEPT !.page = "custom"]}
    BY <1>3 DEF Back, SetCustomDestination, TypeOK, Dialog
  <2> QED
    BY <1>0, <2>1 DEF Filed, Dialog
<1>5. CASE \E space \in BOOLEAN : SetOriginalDestination(d, space)
  <2> DEFINE f == [e EXCEPT !.slash = FALSE, !.dest = <<Home>>]
             g == [e EXCEPT !.dest = <<Home, Source>>]
             h == IF e.version.isDirectory THEN f ELSE g
  <2>1. <<Home>> \in Path /\ <<Home, Source>> \in Path /\ <<Home, Source>> # NoDir
    BY Constants DEF NoDir
  <2>2. h \in Dialog /\ Filed(h) /\ (~h.version.isDirectory => h.dest # NoDir)
    BY <1>0, <2>1 DEF Dialog, Filed
  <2>3. PICK space \in BOOLEAN : StartPrechecks(d, h, space)
    BY <1>5 DEF SetOriginalDestination
  <2> HIDE DEF h
  <2> QED
    BY <2>2, <2>3, StartFiled
<1>6. CASE \E place \in Places, name \in {Source, NewName} : CreateNewFolder(d, place, name)
  BY <1>0, <1>6 DEF CreateNewFolder
<1>7. CASE \E folder \in DOMAIN disk : CheckFolderSelection(d, folder)
  <2>1. PICK folder \in DOMAIN disk : CheckFolderSelection(d, folder)
    BY <1>7
  <2> DEFINE f == [e EXCEPT !.dest = folder]
  <2>2. e.version.isDirectory /\ StartPrechecks(d, f, TRUE) /\ folder \in Path
    BY <2>1 DEF CheckFolderSelection, TypeOK
  <2>3. f \in Dialog /\ Filed(f) /\ f.version.isDirectory
    BY <1>0, <2>2 DEF Dialog, Filed
  <2> HIDE DEF f
  <2> QED
    BY <2>2, <2>3, StartFiled
<1>8. CASE \E place \in Places, name \in {Source, NewName}, space \in BOOLEAN :
             CheckFileSelection(d, place, name, space)
  <2>1. PICK place \in Places, name \in {Source, NewName}, space \in BOOLEAN :
           CheckFileSelection(d, place, name, space)
    BY <1>8
  <2> DEFINE f == [e EXCEPT !.accepting = @ + 1, !.dest = <<place, name>>]
             g == StartFilePrechecks(f)
             once == CompletePrechecks(g, space)
             h == StartFilePrechecks(once)
             twice == CompletePrechecks(h, space)
  <2>2. <<place, name>> \in Path /\ <<place, name>> # NoDir /\ e.accepting + 1 \in Nat
    BY <1>0, <2>1, Constants DEF NoDir, Dialog
  <2>3. f \in Dialog /\ Filed(f) /\ f.dest # NoDir
    BY <1>0, <2>2 DEF Dialog, Filed
  <2>4. dialog'[d] = IF f.accepting = 1 THEN once ELSE twice
    BY <2>1, <1>d DEF CheckFileSelection
  <2> HIDE DEF f
  <2>5. g \in Dialog /\ Filed(g) /\ g.dest # NoDir
    BY <2>3, FilePrechecksTyped, FileKeeps DEF Filed
  <2> HIDE DEF g
  <2>6. once \in Dialog /\ Filed(once) /\ once.dest # NoDir
    BY <2>5, PrechecksTyped, PrechecksKeep, PrechecksFiled
  <2> HIDE DEF once
  <2>7. h \in Dialog /\ Filed(h) /\ h.dest # NoDir
    BY <2>6, FilePrechecksTyped, FileKeeps DEF Filed
  <2> HIDE DEF h
  <2>8. Filed(twice)
    BY <2>7, PrechecksFiled
  <2> QED
    BY <2>4, <2>6, <2>8
<1>9. CASE ConfirmOverwrite(d)
  <2>1. dialog'[d] = StartRestoring(e, e.conflicts) /\ e.page = "conflict"
    BY <1>9, <1>d DEF ConfirmOverwrite, Shows
  <2>2. ~e.version.isDirectory => e.dest # NoDir
    BY <1>0, <2>1 DEF Filed
  <2> QED
    BY <1>0, <2>1, <2>2, RestoringFiled
<1>10. CASE ConfirmNewName(d)
  <2> DEFINE folder == Append(e.dest, NewName)
             f == [e EXCEPT !.folder = folder, !.path = folder, !.slash = TRUE]
  <2>1. folder \in Path
    BY <1>0, Constants, AppendProperties
  <2>2. f \in Dialog
    BY <1>0, <2>1 DEF Dialog
  <2>3. e.version.isDirectory /\ dialog'[d] = StartRestoring(f, {})
    BY <1>10, <1>d DEF ConfirmNewName
  <2>4. Filed(f) /\ f.version.isDirectory
    BY <1>0, <2>3 DEF Filed, Dialog
  <2> HIDE DEF f
  <2> QED
    BY <2>2, <2>3, <2>4, RestoringFiled
<1> QED
  BY <1>1, <1>2, <1>3, <1>5, <1>6, <1>7, <1>8, <1>9, <1>10 DEF User

LEMMA WorkFiled ==
  ASSUME TypeOK, AllFiled, NEW d \in Dialogs, NEW i \in 1..2, Work(d, i)
  PROVE  Filed(dialog'[d])
<1> DEFINE e == dialog[d]
<1>0. e \in Dialog /\ Filed(e) /\ e.jobs \in Seq(Job) /\ e.listings \in Seq(SUBSET Path)
  BY DEF TypeOK, AllFiled, Dialog
<1>d. \A f : dialog' = [dialog EXCEPT ![d] = f] => dialog'[d] = f
  BY DEF TypeOK
<1>1. CASE CollectSourceListing(d, i)
  <2>1. /\ i \in DOMAIN e.listings
        /\ dialog'[d].version = e.version /\ dialog'[d].dest = e.dest
        /\ dialog'[d].page = e.page /\ dialog'[d].jobs = e.jobs
    BY <1>0, <1>1 DEF CollectSourceListing, TypeOK, Dialog
  <2>2. e.version.isDirectory
    BY <1>0, <2>1, EmptySeq DEF Filed
  <2> QED
    BY <1>0, <2>1, <2>2 DEF Filed
<1>2. CASE \E error, space \in BOOLEAN : SourceListingCompleted(d, i, error, space)
  <2>1. PICK error \in BOOLEAN, space \in BOOLEAN : SourceListingCompleted(d, i, error, space)
    BY <1>2
  <2> DEFINE f == [e EXCEPT !.listings = RemoveAt(@, i)]
  <2>2. i \in 1..Len(e.listings)
    BY <1>0, <2>1, LenProperties DEF SourceListingCompleted
  <2>3. e.version.isDirectory
    BY <1>0, <2>2, EmptySeq DEF Filed
  <2>4. f \in Dialog
    BY <1>0, <2>2, Removed DEF Dialog
  <2>5. Filed(f) /\ f.version.isDirectory
    BY <1>0, <2>3 DEF Filed, Dialog
  <2>6. dialog'[d] = IF error THEN f ELSE CompletePrechecks(f, space)
    BY <2>1, <1>d DEF SourceListingCompleted
  <2> HIDE DEF f
  <2> QED
    BY <2>4, <2>5, <2>6, PrechecksFiled
<1>3. CASE RestoreEntry(d, i)
  <2>1. /\ i \in DOMAIN e.jobs
        /\ \E entry \in e.jobs[i].left :
             dialog' = [dialog EXCEPT ![d].jobs[i].left = @ \ {entry}]
    BY <1>3 DEF RestoreEntry
  <2>2. /\ dialog'[d].version = e.version /\ dialog'[d].dest = e.dest
        /\ dialog'[d].page = e.page /\ dialog'[d].listings = e.listings
        /\ DOMAIN dialog'[d].jobs = DOMAIN e.jobs
        /\ \A k \in DOMAIN e.jobs : dialog'[d].jobs[k].phase = e.jobs[k].phase
    BY <1>0, <2>1, JobTyped DEF TypeOK, Dialog, Job
  <2>3. e.jobs # <<>>
    BY <2>1, EmptySeq
  <2> QED
    BY <1>0, <2>2, <2>3 DEF Filed
<1>4. CASE \E error \in BOOLEAN : RestoringCompleted(d, i, error)
  <2>1. PICK error \in BOOLEAN : RestoringCompleted(d, i, error)
    BY <1>4
  <2>2. i \in DOMAIN e.jobs
    BY <2>1 DEF RestoringCompleted
  <2> DEFINE r == [e EXCEPT !.jobs[i].phase = "renaming", !.jobs[i].path = e.path]
  <2>3. \/ dialog'[d] = [e EXCEPT !.jobs[i].phase = "done"]
        \/ dialog'[d] = Finished(e, i, "failed")
        \/ dialog'[d] = r /\ ~e.version.isDirectory
        \/ dialog'[d] = MoveFolder(e, i)
    BY <2>1, <1>d DEF RestoringCompleted
  <2>4. /\ Rephased(e, [e EXCEPT !.jobs[i].phase = "done"], i, {"done"})
        /\ Rephased(e, Finished(e, i, "failed"), i, {"done"})
        /\ Rephased(e, r, i, {"renaming"})
        /\ Rephased(e, MoveFolder(e, i), i, {"done", "moving"})
    BY <2>2, PhaseKeeps, MoveFolderKeeps
  <2> HIDE DEF r
  <2>5. CASE dialog'[d] = r /\ ~e.version.isDirectory
    <3>1. r.version = e.version /\ r.dest = e.dest /\ r.listings = e.listings /\ e.jobs # <<>>
      BY <2>4, EmptySeq DEF Rephased
    <3> QED
      BY <1>0, <2>5, <3>1 DEF Filed
  <2>6. CASE dialog'[d] # r \/ e.version.isDirectory
    <3>1. Rephased(e, dialog'[d], i, {"moving", "done"})
      BY <2>3, <2>4, <2>6, RephasedMore
    <3> QED
      BY <1>0, <3>1, RephasedFiled
  <2> QED
    BY <2>5, <2>6
<1>5. CASE \E error \in BOOLEAN : FileMoveCompleted(d, i, error)
  <2>1. PICK error \in BOOLEAN : FileMoveCompleted(d, i, error)
    BY <1>5
  <2>2. i \in DOMAIN e.jobs
    BY <2>1 DEF FileMoveCompleted
  <2>3. \/ dialog'[d] = [e EXCEPT !.result = "failed", !.jobs[i].phase = "done"]
        \/ dialog'[d] = [e EXCEPT !.jobs[i].phase = "done"]
        \/ dialog'[d] = MoveFolder(e, i)
    BY <1>0, <2>1, <1>d DEF FileMoveCompleted, TypeOK, Dialog
  <2>4. /\ Rephased(e, [e EXCEPT !.jobs[i].phase = "done"], i, {"done"})
        /\ Rephased(e, [e EXCEPT !.result = "failed", !.jobs[i].phase = "done"], i, {"done"})
        /\ Rephased(e, MoveFolder(e, i), i, {"done", "moving"})
    BY <2>2, PhaseKeeps, MoveFolderKeeps
  <2>5. Rephased(e, dialog'[d], i, {"moving", "done"})
    BY <2>3, <2>4, RephasedMore
  <2> QED
    BY <1>0, <2>5, RephasedFiled
<1>6. CASE MoveEntry(d, i)
  BY <1>0, <1>6 DEF MoveEntry
<1>7. CASE \E error \in BOOLEAN : FolderMoveCompleted(d, i, error)
  <2>1. /\ i \in DOMAIN e.jobs
        /\ \E result \in {"failed", "restored"} : dialog'[d] = Finished(e, i, result)
    BY <1>7, <1>d DEF FolderMoveCompleted
  <2>2. Rephased(e, dialog'[d], i, {"moving", "done"})
    <3>1. PICK result \in {"failed", "restored"} : dialog'[d] = Finished(e, i, result)
      BY <2>1
    <3>2. Rephased(e, Finished(e, i, result), i, {"done"})
      BY <2>1, PhaseKeeps
    <3> QED
      BY <3>1, <3>2, RephasedMore
  <2> QED
    BY <1>0, <2>2, RephasedFiled
<1> QED
  BY <1>1, <1>2, <1>3, <1>4, <1>5, <1>6, <1>7 DEF Work

TypeInv == TypeOK /\ AllFiled

LEMMA TypeStep ==
  ASSUME TypeInv, [Next]_vars
  PROVE  TypeInv'
<1>1. CASE UNCHANGED vars
  BY <1>1 DEF vars, TypeInv, TypeOK, AllFiled
<1>2. ASSUME NEW d \in Dialogs, User(d) \/ \E i \in 1..2 : Work(d, i)
      PROVE  TypeInv'
  <2>1. TypeOK'
    BY <1>2, UserTyped, WorkTyped DEF TypeInv
  <2>2. Filed(dialog'[d]) /\ \A c \in Dialogs \ {d} : dialog'[c] = dialog[c]
    BY <1>2, UserFiled, WorkFiled, OthersKeep DEF TypeInv
  <2>3. \A c \in Dialogs : Filed(dialog'[c])
    BY <2>2 DEF TypeInv, AllFiled
  <2> QED
    BY <2>1, <2>3 DEF TypeInv, AllFiled
<1> QED
  BY <1>1, <1>2 DEF Next

LEMMA Typed == Spec => []TypeInv
<1>1. Init => TypeInv
  <2> DEFINE v == CHOOSE u \in Versions : TRUE
  <2>0. NoDialog = [NewDialog(v) EXCEPT !.page = "none"]
    BY DEF NoDialog
  <2> HIDE DEF v
  <2>1. ASSUME Init PROVE AllFiled
    <3>1. NoDialog.listings = <<>> /\ NoDialog.jobs = <<>> /\ NoDialog.page = "none"
      BY <2>0 DEF NewDialog
    <3> QED
      BY <2>1, <3>1 DEF Init, AllFiled, Filed
  <2> QED
    BY <2>1, TypeInit DEF TypeInv
<1>2. TypeInv /\ [Next]_vars => TypeInv'
  BY TypeStep
<1> QED
  BY <1>1, <1>2, PTL DEF Spec

\* The state of the dialogs, of their jobs and of the disk is well typed, in
\* particular a path is never taken apart that is empty (restoredialog.cpp:332-340).
THEOREM TypeCorrect == Spec => []TypeOK
<1>1. TypeInv => TypeOK
  BY DEF TypeInv
<1> QED
  BY <1>1, Typed, PTL

-----------------------------------------------------------------------------
(***************************************************************************)
(* The working directory.                                                  *)
(***************************************************************************)
LEMMA Quiet ==
  ASSUME NEW d, dialog'[d].listings = <<>>, cwd' = StartDir
  PROVE  Returns(d)'
BY DEF Returns

LEMMA ReturnsKept ==
  ASSUME NEW d, Returns(d), cwd' = cwd,
         dialog'[d].listings = dialog[d].listings, dialog'[d].saved = dialog[d].saved,
         dialog'[d].page = dialog[d].page
  PROVE  Returns(d)'
BY DEF Returns

\* A dialog without a listing starts its prechecks.
LEMMA StartReturns ==
  ASSUME TypeOK, NEW d \in Dialogs, NEW e \in Dialog, NEW space \in BOOLEAN,
         e.listings = <<>>, e.page # "none", cwd = StartDir,
         StartPrechecks(d, e, space)
  PROVE  Returns(d)'
<1>1. CASE e.version.isDirectory
  <2> DEFINE f == StartFolderPrechecks(e)
  <2>1. dialog'[d] = f /\ cwd' = IF IsDir(Append(e.dest, Source)) THEN Append(e.dest, Source) ELSE cwd
    BY <1>1 DEF StartPrechecks, TypeOK
  <2>2. /\ f.saved = IF IsDir(Append(e.dest, Source)) THEN cwd ELSE NoDir
        /\ f.listings = Append(<<>>, Entries(e))
        /\ f.page = e.page
    BY FolderKeeps
  <2> HIDE DEF f
  <2>3. Len(f.listings) = 1 /\ f.listings # <<>>
    BY <2>2
  <2> QED
    BY <2>1, <2>2, <2>3, Constants DEF Returns
<1>2. CASE ~e.version.isDirectory
  <2> DEFINE f == StartFilePrechecks(e)
  <2>1. dialog'[d] = CompletePrechecks(f, space) /\ cwd' = cwd
    BY <1>2 DEF StartPrechecks, TypeOK
  <2>2. f \in Dialog /\ f.listings = <<>>
    BY FileKeeps, FilePrechecksTyped
  <2> HIDE DEF f
  <2>3. CompletePrechecks(f, space).listings = <<>>
    BY <2>2, PrechecksKeep
  <2> QED
    BY <2>1, <2>3, Quiet
<1> QED
  BY <1>1, <1>2

LEMMA UserReturns ==
  ASSUME ~Impatient, TypeOK, NEW d \in Dialogs, Returns(d), User(d)
  PROVE  Returns(d)'
<1> DEFINE e == dialog[d]
<1>0. e \in Dialog /\ e.dest \in Path /\ e.conflicts \in SUBSET Path
  BY DEF TypeOK, Dialog
<1>d. \A f : dialog' = [dialog EXCEPT ![d] = f] => dialog'[d] = f
  BY DEF TypeOK
<1>1. CASE \E v \in Versions : Open(d, v)
  <2>1. PICK v \in Versions : Open(d, v)
    BY <1>1
  <2>2. e.page = "none" /\ dialog'[d] = NewDialog(v) /\ cwd' = cwd
    BY <2>1, <1>d DEF Open
  <2>3. NewDialog(v).listings = <<>>
    BY DEF NewDialog
  <2> QED
    BY <2>2, <2>3, Quiet DEF Returns
<1>2. CASE Close(d)
  <2>1. dialog'[d].listings = <<>>
    BY <1>2, <1>0 DEF Close, TypeOK, Dialog
  <2> QED
    BY <1>2, <2>1, Quiet DEF Close, Returns
<1>3. CASE Back(d) \/ SetCustomDestination(d)
  <2>1. e.listings = <<>> /\ dialog'[d].listings = e.listings /\ cwd' = cwd
    BY <1>3, <1>0 DEF Back, SetCustomDestination, Shows, TypeOK, Dialog
  <2> QED
    BY <2>1, Quiet DEF Returns
<1>5. CASE \E space \in BOOLEAN : SetOriginalDestination(d, space)
  <2> DEFINE f == [e EXCEPT !.slash = FALSE, !.dest = <<Home>>]
             g == [e EXCEPT !.dest = <<Home, Source>>]
             h == IF e.version.isDirectory THEN f ELSE g
  <2>1. <<Home>> \in Path /\ <<Home, Source>> \in Path
    BY Constants
  <2>2. PICK space \in BOOLEAN : StartPrechecks(d, h, space) /\ Shows(e, "choose")
    BY <1>5 DEF SetOriginalDestination
  <2>3. e.listings = <<>> /\ e.page = "choose"
    BY <2>2 DEF Shows
  <2>4. h \in Dialog /\ h.listings = <<>> /\ h.page = "choose"
    BY <1>0, <2>1, <2>3 DEF Dialog
  <2> HIDE DEF h
  <2>5. cwd = StartDir
    BY <2>3 DEF Returns
  <2> QED
    BY <2>2, <2>4, <2>5, StartReturns
<1>6. CASE \E place \in Places, name \in {Source, NewName} : CreateNewFolder(d, place, name)
  BY <1>6, ReturnsKept DEF CreateNewFolder
<1>7. CASE \E folder \in DOMAIN disk : CheckFolderSelection(d, folder)
  <2>1. PICK folder \in DOMAIN disk : CheckFolderSelection(d, folder)
    BY <1>7
  <2> DEFINE f == [e EXCEPT !.dest = folder]
  <2>2. /\ StartPrechecks(d, f, TRUE) /\ folder \in Path
        /\ e.listings = <<>> /\ e.page = "custom"
    BY <2>1 DEF CheckFolderSelection, TypeOK, Shows
  <2>3. f \in Dialog /\ f.listings = <<>> /\ f.page = "custom"
    BY <1>0, <2>2 DEF Dialog
  <2> HIDE DEF f
  <2>4. cwd = StartDir
    BY <2>2 DEF Returns
  <2> QED
    BY <2>2, <2>3, <2>4, StartReturns
<1>8. CASE \E place \in Places, name \in {Source, NewName}, space \in BOOLEAN :
             CheckFileSelection(d, place, name, space)
  <2>1. PICK place \in Places, name \in {Source, NewName}, space \in BOOLEAN :
           CheckFileSelection(d, place, name, space)
    BY <1>8
  <2> DEFINE f == [e EXCEPT !.accepting = @ + 1, !.dest = <<place, name>>]
             g == StartFilePrechecks(f)
             once == CompletePrechecks(g, space)
             h == StartFilePrechecks(once)
             twice == CompletePrechecks(h, space)
  <2>2. <<place, name>> \in Path /\ e.accepting + 1 \in Nat
    BY <1>0, <2>1, Constants DEF Dialog
  <2>3. Shows(f, "custom") /\ cwd' = cwd
    BY <2>1 DEF CheckFileSelection
  <2>4. f \in Dialog /\ f.listings = <<>> /\ e.listings = <<>>
    BY <1>0, <2>2, <2>3 DEF Dialog, Shows
  <2>5. dialog'[d] = IF f.accepting = 1 THEN once ELSE twice
    BY <2>1, <1>d DEF CheckFileSelection
  <2> HIDE DEF f
  <2>6. g \in Dialog /\ g.listings = <<>>
    BY <2>4, FilePrechecksTyped, FileKeeps
  <2> HIDE DEF g
  <2>7. once \in Dialog /\ once.listings = <<>>
    BY <2>6, PrechecksTyped, PrechecksKeep
  <2> HIDE DEF once
  <2>8. h \in Dialog /\ h.listings = <<>>
    BY <2>7, FilePrechecksTyped, FileKeeps
  <2> HIDE DEF h
  <2>9. twice.listings = <<>>
    BY <2>8, PrechecksKeep
  <2> HIDE DEF twice
  <2> QED
    BY <2>3, <2>4, <2>5, <2>7, <2>9, Quiet DEF Returns
<1>9. CASE ConfirmOverwrite(d)
  <2>1. dialog'[d] = StartRestoring(e, e.conflicts) /\ e.listings = <<>> /\ cwd' = cwd
    BY <1>9, <1>d DEF ConfirmOverwrite, Shows
  <2>2. StartRestoring(e, e.conflicts).listings = e.listings
    BY <1>0, RestoringKeeps
  <2> QED
    BY <2>1, <2>2, Quiet DEF Returns
<1>10. CASE ConfirmNewName(d)
  <2> DEFINE folder == Append(e.dest, NewName)
             f == [e EXCEPT !.folder = folder, !.path = folder, !.slash = TRUE]
  <2>1. folder \in Path
    BY <1>0, Constants, AppendProperties
  <2>2. dialog'[d] = StartRestoring(f, {}) /\ e.listings = <<>> /\ cwd' = cwd
    BY <1>10, <1>d DEF ConfirmNewName, Shows
  <2>3. f \in Dialog /\ f.listings = <<>>
    BY <1>0, <2>1, <2>2 DEF Dialog
  <2> HIDE DEF f
  <2>4. StartRestoring(f, {}).listings = <<>>
    BY <2>3, RestoringKeeps
  <2> QED
    BY <2>2, <2>4, Quiet DEF Returns
<1> QED
  BY <1>1, <1>2, <1>3, <1>5, <1>6, <1>7, <1>8, <1>9, <1>10 DEF User

\* Work with restore jobs changes what jobs the dialog has.
LEMMA JobsWork ==
  ASSUME TypeOK, NEW d \in Dialogs, NEW i \in 1..2, Work(d, i)
  PROVE  \/ CollectSourceListing(d, i)
         \/ \E error, space \in BOOLEAN : SourceListingCompleted(d, i, error, space)
         \/ /\ cwd' = cwd
            /\ dialog'[d].listings = dialog[d].listings /\ dialog'[d].saved = dialog[d].saved
            /\ dialog'[d].page = dialog[d].page
<1> DEFINE e == dialog[d]
<1>0. e \in Dialog
  BY DEF TypeOK
<1>d. \A f : dialog' = [dialog EXCEPT ![d] = f] => dialog'[d] = f
  BY DEF TypeOK
<1>1. CASE RestoreEntry(d, i)
  BY <1>0, <1>1 DEF RestoreEntry, TypeOK, Dialog
<1>2. CASE \E error \in BOOLEAN : RestoringCompleted(d, i, error)
  <2>1. PICK error \in BOOLEAN : RestoringCompleted(d, i, error)
    BY <1>2
  <2>2. i \in DOMAIN e.jobs /\ cwd' = cwd
    BY <2>1 DEF RestoringCompleted
  <2> DEFINE r == [e EXCEPT !.jobs[i].phase = "renaming", !.jobs[i].path = e.path]
  <2>3. \/ dialog'[d] = [e EXCEPT !.jobs[i].phase = "done"]
        \/ dialog'[d] = Finished(e, i, "failed")
        \/ dialog'[d] = r
        \/ dialog'[d] = MoveFolder(e, i)
    BY <2>1, <1>d DEF RestoringCompleted
  <2>4. /\ Rephased(e, [e EXCEPT !.jobs[i].phase = "done"], i, {"done"})
        /\ Rephased(e, Finished(e, i, "failed"), i, {"done"})
        /\ Rephased(e, r, i, {"renaming"})
        /\ Rephased(e, MoveFolder(e, i), i, {"done", "moving"})
    BY <2>2, PhaseKeeps, MoveFolderKeeps
  <2> HIDE DEF r
  <2> QED
    BY <2>2, <2>3, <2>4 DEF Rephased
<1>3. CASE \E error \in BOOLEAN : FileMoveCompleted(d, i, error)
  <2>1. PICK error \in BOOLEAN : FileMoveCompleted(d, i, error)
    BY <1>3
  <2>2. i \in DOMAIN e.jobs /\ cwd' = cwd
    BY <2>1 DEF FileMoveCompleted
  <2>3. \/ dialog'[d] = [e EXCEPT !.result = "failed", !.jobs[i].phase = "done"]
        \/ dialog'[d] = [e EXCEPT !.jobs[i].phase = "done"]
        \/ dialog'[d] = MoveFolder(e, i)
    BY <1>0, <2>1, <1>d DEF FileMoveCompleted, TypeOK, Dialog
  <2>4. /\ Rephased(e, [e EXCEPT !.jobs[i].phase = "done"], i, {"done"})
        /\ Rephased(e, [e EXCEPT !.result = "failed", !.jobs[i].phase = "done"], i, {"done"})
        /\ Rephased(e, MoveFolder(e, i), i, {"done", "moving"})
    BY <2>2, PhaseKeeps, MoveFolderKeeps
  <2> QED
    BY <2>2, <2>3, <2>4 DEF Rephased
<1>4. CASE MoveEntry(d, i)
  BY <1>4 DEF MoveEntry
<1>5. CASE \E error \in BOOLEAN : FolderMoveCompleted(d, i, error)
  <2>1. /\ i \in DOMAIN e.jobs /\ cwd' = cwd
        /\ \E result \in {"failed", "restored"} : dialog'[d] = Finished(e, i, result)
    BY <1>5, <1>d DEF FolderMoveCompleted
  <2>2. PICK result \in {"failed", "restored"} : dialog'[d] = Finished(e, i, result)
    BY <2>1
  <2>3. Rephased(e, Finished(e, i, result), i, {"done"})
    BY <2>1, PhaseKeeps
  <2> QED
    BY <2>1, <2>2, <2>3 DEF Rephased
<1> QED
  BY <1>1, <1>2, <1>3, <1>4, <1>5 DEF Work

LEMMA WorkReturns ==
  ASSUME TypeOK, NEW d \in Dialogs, Returns(d), NEW i \in 1..2, Work(d, i)
  PROVE  Returns(d)'
<1> DEFINE e == dialog[d]
<1>0. e \in Dialog /\ e.listings \in Seq(SUBSET Path)
  BY DEF TypeOK, Dialog
<1>1. CASE CollectSourceListing(d, i)
  <2>1. i \in 1..Len(e.listings) /\ cwd' = cwd
    BY <1>0, <1>1, LenProperties DEF CollectSourceListing
  <2>2. PICK entry \in e.listings[i] :
           dialog' = [dialog EXCEPT
             ![d].listings[i] = @ \ {entry},
             ![d].conflicts   = IF e.saved # NoDir /\ Exists(cwd \o entry)
                                THEN @ \cup {e.folder \o entry} ELSE @]
    BY <1>1 DEF CollectSourceListing
  <2> DEFINE l == [e.listings EXCEPT ![i] = e.listings[i] \ {entry}]
  <2>3. dialog'[d].listings = l /\ dialog'[d].saved = e.saved /\ dialog'[d].page = e.page
    BY <1>0, <2>2 DEF TypeOK, Dialog
  <2>4. e.listings[i] \in SUBSET Path
    BY <1>0, <2>1, ElementOfSeq
  <2>5. Len(l) = Len(e.listings)
    BY <1>0, <2>1, <2>4, ExceptSeq
  <2>6. e.listings # <<>> /\ Len(l) \in Nat /\ Len(l) # 0
    BY <1>0, <2>1, <2>5, EmptySeq, LenProperties
  <2>7. l # <<>>
    BY <2>6, EmptySeq
  <2> HIDE DEF l
  <2> QED
    BY <2>1, <2>3, <2>5, <2>6, <2>7 DEF Returns
<1>2. CASE \E error, space \in BOOLEAN : SourceListingCompleted(d, i, error, space)
  <2>1. PICK error \in BOOLEAN, space \in BOOLEAN : SourceListingCompleted(d, i, error, space)
    BY <1>2
  <2> DEFINE f == [e EXCEPT !.listings = RemoveAt(@, i)]
  <2>2. i \in 1..Len(e.listings) /\ e.listings # <<>> /\ Len(e.listings) \in Nat
    BY <1>0, <2>1, LenProperties, EmptySeq DEF SourceListingCompleted
  <2>3. Len(e.listings) = 1
    <3>1. Len(e.listings) <= 1
      BY DEF Returns
    <3> DEFINE n == Len(e.listings)
    <3>2. n \in Nat /\ i \in 1..n
      BY <2>2
    <3> HIDE DEF n
    <3>3. n <= 1 => n = 1
      BY <3>2
    <3> QED
      BY <3>1, <3>3 DEF n
  <2>4. f \in Dialog /\ f.listings = <<>>
    BY <1>0, <2>2, <2>3, LastListing
  <2>5. /\ dialog' = [dialog EXCEPT ![d] = IF error THEN f ELSE CompletePrechecks(f, space)]
        /\ cwd' = IF e.saved # NoDir THEN e.saved ELSE cwd
    BY <2>1 DEF SourceListingCompleted
  <2>6. dialog'[d] = IF error THEN f ELSE CompletePrechecks(f, space)
    BY <2>5 DEF TypeOK
  <2> HIDE DEF f
  <2>7. CompletePrechecks(f, space).listings = <<>>
    BY <2>4, PrechecksKeep
  <2>8. cwd' = StartDir
    <3>1. /\ e.saved # NoDir => e.saved = StartDir
          /\ e.saved = NoDir => cwd = StartDir
      BY <2>2 DEF Returns
    <3> QED
      BY <2>5, <3>1
  <2> QED
    BY <2>4, <2>6, <2>7, <2>8, Quiet
<1>3. CASE /\ cwd' = cwd
           /\ dialog'[d].listings = e.listings /\ dialog'[d].saved = e.saved
           /\ dialog'[d].page = e.page
  BY <1>3, ReturnsKept
<1> QED
  BY <1>1, <1>2, <1>3, JobsWork

LEMMA DirectoryStep ==
  ASSUME Patient, TypeInv, Directory, [Next]_vars
  PROVE  Directory'
<1>1. CASE UNCHANGED vars
  BY <1>1 DEF vars, Directory, Returns
<1>2. ASSUME NEW d \in Dialogs, User(d) \/ \E i \in 1..2 : Work(d, i)
      PROVE  Directory'
  <2>1. Returns(d)'
    BY <1>2, UserReturns, WorkReturns DEF Patient, TypeInv, Directory
  <2> QED
    BY <2>1 DEF Patient, OneDialog, Directory
<1> QED
  BY <1>1, <1>2 DEF Next

LEMMA DirectoryInit == Init => Directory
<1> SUFFICES ASSUME Init PROVE Directory
  OBVIOUS
<1> DEFINE v == CHOOSE u \in Versions : TRUE
<1>0. NoDialog = [NewDialog(v) EXCEPT !.page = "none"]
  BY DEF NoDialog
<1> HIDE DEF v
<1>1. NoDialog.listings = <<>>
  BY <1>0 DEF NewDialog
<1> QED
  BY <1>1 DEF Init, Directory, Returns

\* A dialog whose user waits for its listings leaves the process in the working
\* directory that it was started in: it is changed by one listing at a time, and changed
\* back when that ends, whether it fails or not (restoredialog.cpp:192-194, 215-217).
THEOREM DirectoryReturns == Patient => (Spec => []WorkingDirectoryIsBack)
<1> SUFFICES ASSUME Patient PROVE Spec => []WorkingDirectoryIsBack
  OBVIOUS
<1>1. Init => Directory
  BY DirectoryInit
<1>2. TypeInv /\ Directory /\ [Next]_vars => Directory'
  BY DirectoryStep
<1>3. Directory => WorkingDirectoryIsBack
  BY DEF Directory, Returns, WorkingDirectoryIsBack
<1> QED
  BY <1>1, <1>2, <1>3, Typed, PTL DEF Spec

-----------------------------------------------------------------------------
(***************************************************************************)
(* Paths below others, and out of a temporary folder.                      *)
(***************************************************************************)
LEMMA PrefixAt ==
  ASSUME NEW S, NEW s \in Seq(S), NEW t \in Seq(S), IsPrefix(s, t)
  PROVE  /\ Len(s) \in Nat /\ Len(t) \in Nat /\ Len(s) <= Len(t)
         /\ s = SubSeq(t, 1, Len(s))
         /\ \A k \in 1..Len(s) : t[k] = s[k]
<1>1. Len(s) \in Nat /\ Len(t) \in Nat /\ Len(s) <= Len(t)
  BY LenProperties DEF IsPrefix
<1>2. s = SubSeq(t, 1, Len(s))
  BY SubSeqFull DEF IsPrefix
<1>3. \A k \in 1..Len(s) : t[k] \in S
  BY <1>1, ElementOfSeq
<1>4. \A k \in 1..Len(s) - 1 + 1 : SubSeq(t, 1, Len(s))[k] = t[1 + k - 1]
  BY <1>1, <1>3, SubSeqProperties
<1>5. ASSUME NEW k \in 1..Len(s) PROVE t[k] = s[k]
  <2>1. Len(s) - 1 + 1 = Len(s) /\ 1 + k - 1 = k
    BY <1>1
  <2> QED
    BY <1>2, <1>4, <2>1
<1> QED
  BY <1>1, <1>2, <1>5

LEMMA StrictPrefixAt ==
  ASSUME NEW S, NEW s \in Seq(S), NEW t \in Seq(S), IsStrictPrefix(s, t)
  PROVE  Len(s) < Len(t)
<1>1. /\ Len(s) \in Nat /\ Len(t) \in Nat /\ Len(s) <= Len(t)
      /\ \A k \in 1..Len(s) : t[k] = s[k]
  BY PrefixAt DEF IsStrictPrefix
<1>2. Len(s) # Len(t)
  BY <1>1, SeqEqual DEF IsStrictPrefix
<1> QED
  BY <1>1, <1>2

LEMMA Below1 ==
  ASSUME NEW S, NEW s \in Seq(S), NEW r \in Seq(S), r # <<>>
  PROVE  /\ s \o r \in Seq(S) /\ IsStrictPrefix(s, s \o r)
         /\ Len(s \o r) = Len(s) + Len(r) /\ Len(r) \in Nat \ {0} /\ Len(s) \in Nat
<1>1. /\ Len(r) \in Nat \ {0} /\ Len(s) \in Nat
      /\ s \o r \in Seq(S) /\ Len(s \o r) = Len(s) + Len(r)
      /\ \A k \in 1..Len(s) + Len(r) :
           (s \o r)[k] = IF k <= Len(s) THEN s[k] ELSE r[k - Len(s)]
  BY EmptySeq, LenProperties, ConcatProperties
<1> DEFINE t == s \o r
           u == SubSeq(t, 1, Len(s))
<1>2. \A k \in 1..Len(s) : t[k] = s[k] /\ t[k] \in S
  BY <1>1, ElementOfSeq
<1> HIDE DEF t
<1>3. /\ u \in Seq(S) /\ Len(u) = Len(s)
      /\ \A k \in 1..Len(s) : u[k] = t[k]
  BY <1>1, <1>2, SubSeqProperties
<1>4. u = s
  BY <1>2, <1>3, SeqEqual
<1>5. SubSeq(s, 1, Len(s)) = s
  BY SubSeqFull
<1>6. Len(s) <= Len(t) /\ s # t
  BY <1>1 DEF t
<1> QED
  BY <1>1, <1>4, <1>5, <1>6 DEF t, IsStrictPrefix, IsPrefix

\* What is in a temporary folder has not a path that the user could give.
LEMMA TmpOutside ==
  ASSUME NEW b \in Path, NEW p \in Path,
         p = Append(b, Tmp) \/ IsStrictPrefix(Append(b, Tmp), p)
  PROVE  p \notin Seq(Names)
<1> DEFINE t == Append(b, Tmp)
<1>1. /\ t \in Path /\ Len(t) = Len(b) + 1 /\ Len(b) \in Nat /\ t[Len(b) + 1] = Tmp
  BY Constants, AppendProperties, LenProperties
<1> HIDE DEF t
<1>2. IsPrefix(t, p)
  <2>1. CASE p = t
    BY <2>1 DEF IsPrefix
  <2>2. CASE IsStrictPrefix(t, p)
    BY <2>2 DEF IsStrictPrefix
  <2> QED
    BY <2>1, <2>2 DEF t
<1>3. /\ Len(t) <= Len(p) /\ Len(p) \in Nat /\ \A k \in 1..Len(t) : p[k] = t[k]
  BY <1>1, <1>2, Constants, PrefixAt
<1>4. Len(b) + 1 \in 1..Len(p) /\ p[Len(b) + 1] = Tmp
  BY <1>1, <1>3
<1>5. p \in Seq(Names) => p[Len(b) + 1] \in Names
  BY <1>4, ElementOfSeq
<1> QED
  BY <1>4, <1>5, Constants

LEMMA TargetOf ==
  ASSUME NEW b \in Path, NEW r \in Path
  PROVE  Target(Append(b, Tmp), Append(b, Tmp) \o r) = b \o r
<1> DEFINE t == Append(b, Tmp)
           n == Len(t) + 1
           m == Len(t \o r)
<1>1. t \in Path /\ Front(t) = b /\ Len(t) \in Nat
  BY Constants, Appended, LenProperties
<1>2. Len(r) \in Nat /\ m = Len(t) + Len(r)
  BY <1>1, Constants, ConcatProperties, LenProperties
<1> HIDE DEF t
<1>3. SubSeq(t \o r, n, m) = r
  <2>1. CASE r = <<>>
    <3>1. Len(r) = 0
      BY <2>1
    <3>2. m < n
      BY <1>1, <1>2, <3>1
    <3> QED
      BY <1>1, <1>2, <2>1, <3>2, SubSeqEmpty
  <2>2. CASE r # <<>>
    <3>1. Len(r) \in Nat \ {0}
      BY <2>2, Constants, EmptySeq
    <3>2. n \in Len(t) + 1..Len(t) + Len(r) /\ m \in Len(t) + 1..Len(t) + Len(r)
      BY <1>1, <1>2, <3>1
    <3>3. SubSeq(t \o r, n, m) = SubSeq(r, n - Len(t), m - Len(t))
      BY <1>1, <3>2, Constants, SubSeqOfConcat2
    <3>4. n - Len(t) = 1 /\ m - Len(t) = Len(r)
      BY <1>1, <1>2
    <3> QED
      BY <3>3, <3>4, Constants, SubSeqFull
  <2> QED
    BY <2>1, <2>2
<1> QED
  BY <1>1, <1>3 DEF Target, t

LEMMA InTree ==
  ASSUME NEW there, Tree(there), NEW p \in DOMAIN there, NEW b \in Path, b # NoDir,
         IsStrictPrefix(b, p)
  PROVE  DirIn(there, b)
<1>1. p \in Path
  BY Constants DEF Tree
<1>2. /\ Len(b) \in Nat /\ Len(p) \in Nat /\ Len(b) < Len(p) /\ b = SubSeq(p, 1, Len(b))
  BY <1>1, Constants, PrefixAt, StrictPrefixAt DEF IsStrictPrefix
<1>3. Len(b) # 0
  BY Constants, EmptySeq DEF NoDir
<1>4. Len(b) \in 1..Len(p) - 1
  BY <1>2, <1>3
<1>5. DirIn(there, SubSeq(p, 1, Len(b)))
  BY <1>4 DEF Tree
<1> QED
  BY <1>2, <1>5

LEMMA NothingBelow ==
  ASSUME NEW there, Tree(there), NEW b \in Path, b # NoDir, ~DirIn(there, b),
         NEW r \in Path, r # <<>>
  PROVE  b \o r \notin DOMAIN there
<1>1. IsStrictPrefix(b, b \o r)
  BY Constants, Below1
<1> QED
  BY <1>1, InTree

LEMMA NothingInTmp ==
  ASSUME NEW there, Tree(there), NEW b \in Path
  PROVE  /\ FilesIn(there, Append(b, Tmp)) = {}
         /\ \A r \in Path : Append(b, Tmp) \o r \notin DOMAIN there
<1>1. DOMAIN there \subseteq Seq(Names)
  BY DEF Tree
<1>2. ASSUME NEW p \in DOMAIN there PROVE ~IsStrictPrefix(Append(b, Tmp), p)
  <2>1. p \in Seq(Names) /\ p \in Path
    BY <1>1, Constants
  <2> QED
    BY <2>1, TmpOutside
<1>3. ASSUME NEW r \in Path PROVE Append(b, Tmp) \o r \notin DOMAIN there
  <2>1. Append(b, Tmp) \in Path
    BY Constants, AppendProperties
  <2>2. CASE r = <<>>
    <3>1. Append(b, Tmp) \o r = Append(b, Tmp)
      BY <2>1, <2>2, Constants, ConcatEmptySeq
    <3> QED
      BY <1>1, <2>1, <3>1, TmpOutside
  <2>3. CASE r # <<>>
    BY <1>2, <2>1, <2>3, Constants, Below1
  <2> QED
    BY <2>2, <2>3
<1> QED
  BY <1>2, <1>3 DEF FilesIn

-----------------------------------------------------------------------------
(***************************************************************************)
(* What a write does to the files that are there.                          *)
(***************************************************************************)
LEMMA UsersAfter ==
  ASSUME NEW there, NEW path \in Path, NEW what, what # "user"
  PROVE  Users(WithFile(there, path, what)) \subseteq Users(there)
<1> DEFINE new == WithFile(there, path, what)
<1>1. /\ path \in DOMAIN new => new[path] = what
      /\ \A p \in DOMAIN new \ {path} : new[p] = IF p \in DOMAIN there THEN there[p] ELSE "dir"
  BY FileWritten
<1> HIDE DEF new
<1>2. ASSUME NEW p \in DOMAIN new, new[p] = "user"
      PROVE  p \in DOMAIN there /\ there[p] = "user"
  <2>1. p # path
    BY <1>1, <1>2
  <2>2. new[p] = IF p \in DOMAIN there THEN there[p] ELSE "dir"
    BY <1>1, <2>1
  <2>3. "user" # "dir"
    OBVIOUS
  <2> QED
    BY <1>2, <2>2, <2>3
<1> QED
  BY <1>2 DEF Users, new

LEMMA FilesAfter ==
  ASSUME NEW there, NEW path \in Path, NEW what, NEW top,
         NEW p \in FilesIn(WithFile(there, path, what), top)
  PROVE  \/ p = path /\ IsStrictPrefix(top, p) /\ WithFile(there, path, what)[p] = what
         \/ p \in FilesIn(there, top) /\ WithFile(there, path, what)[p] = there[p]
<1> DEFINE new == WithFile(there, path, what)
<1>1. /\ path \in DOMAIN new => new[path] = what
      /\ \A q \in DOMAIN new \ {path} : new[q] = IF q \in DOMAIN there THEN there[q] ELSE "dir"
  BY FileWritten
<1>2. p \in DOMAIN new /\ IsStrictPrefix(top, p) /\ new[p] # "dir"
  BY DEF FilesIn
<1> HIDE DEF new
<1> QED
  BY <1>1, <1>2 DEF FilesIn, new

LEMMA UsersLeft ==
  ASSUME NEW there, NEW paths
  PROVE  /\ Users(Without(there, paths)) \subseteq Users(there)
         /\ \A top : \A p \in FilesIn(Without(there, paths), top) :
              p \in FilesIn(there, top) /\ p \notin paths /\ Without(there, paths)[p] = there[p]
<1> DEFINE w == Without(there, paths)
<1>1. w = [p \in DOMAIN there \ paths |-> there[p]]
  BY DEF Without
<1> HIDE DEF w
<1>2. DOMAIN w = DOMAIN there \ paths /\ \A p \in DOMAIN w : w[p] = there[p]
  BY <1>1
<1> QED
  BY <1>2 DEF Users, FilesIn, w

LEMMA ReadyStays ==
  ASSUME NEW a, NEW b, Users(a) \subseteq Users(b), NEW e, NEW agreed, Ready(b, e, agreed)
  PROVE  Ready(a, e, agreed)
BY DEF Ready, Safe

-----------------------------------------------------------------------------
(***************************************************************************)
(* What was checked may be restored.                                       *)
(***************************************************************************)
LEMMA LastName ==
  ASSUME NEW p \in Seq(Names), p # NoDir
  PROVE  Last(p) \in Names /\ Last(p) # Tmp
BY Constants, EmptySeq, ElementOfSeq DEF Last, NoDir

LEMMA EntryPath ==
  ASSUME NEW e \in Dialog, NEW x \in Entries(e)
  PROVE  x \in Path /\ x \in Seq(Names) /\ x # <<>>
<1>1. x \in Seq(Names) /\ Len(x) = 1
  BY EntriesTyped DEF Dialog
<1>2. x # <<>>
  BY <1>1
<1> QED
  BY <1>1, <1>2, Constants

LEMMA PathParts ==
  /\ \A a, b, c \in Path : (a \o b) \o c = a \o (b \o c)
  /\ \A b \in Path, n \in Names \cup {Tmp} :
       /\ <<n>> \in Path /\ Append(b, n) = b \o <<n>>
       /\ Append(b, n) \in Path /\ Append(b, n) # NoDir
       /\ Front(Append(b, n)) = b /\ Last(Append(b, n)) = n
<1>1. \A a, b, c \in Seq(AnyName) : (a \o b) \o c = a \o (b \o c)
  BY ConcatAssociative
<1>2. \A b \in Seq(AnyName), n \in AnyName :
        /\ Append(b, n) = b \o <<n>>
        /\ Append(b, n) \in Seq(AnyName) /\ Append(b, n) # NoDir
        /\ Front(Append(b, n)) = b /\ Last(Append(b, n)) = n
  BY AppendIsConcat, Appended
<1>3. \A n \in AnyName : <<n>> \in Seq(AnyName)
  OBVIOUS
<1>4. Path = Seq(AnyName) /\ \A n \in Names \cup {Tmp} : n \in AnyName
  BY Constants
<1>5. \A b \in Path, n \in Names \cup {Tmp} :
        /\ <<n>> \in Path /\ Append(b, n) = b \o <<n>>
        /\ Append(b, n) \in Path /\ Append(b, n) # NoDir
        /\ Front(Append(b, n)) = b /\ Last(Append(b, n)) = n
  BY <1>2, <1>3, <1>4
<1> QED
  BY <1>1, <1>4, <1>5

LEMMA Associative ==
  ASSUME NEW a \in Path, NEW b \in Path, NEW c \in Path
  PROVE  (a \o b) \o c = a \o (b \o c)
BY PathParts

LEMMA NamesHere == {Source, NewName, Tmp} \subseteq Names \cup {Tmp}
BY Constants

LEMMA OneMore ==
  ASSUME NEW b \in Path, NEW n \in Names \cup {Tmp}
  PROVE  /\ <<n>> \in Path /\ Append(b, n) = b \o <<n>>
         /\ Append(b, n) \in Path /\ Append(b, n) # NoDir
         /\ Front(Append(b, n)) = b /\ Last(Append(b, n)) = n
BY PathParts

\* A folder that is not there, or is a file.
LEMMA FreshFolderReady ==
  ASSUME NEW there, Tree(there), NEW work, NEW e \in Dialog, Listed(there, work, e, {}),
         ~DirIn(there, Append(e.dest, Source))
  PROVE  Ready(there, e, e.conflicts)
<1> DEFINE folder == Append(e.dest, Source)
<1>1. /\ e.version.isDirectory /\ ~e.slash
      /\ e.dest \in Seq(Names) /\ e.dest # NoDir /\ e.dest \in Path
      /\ e.path = e.dest \/ e.path = Append(e.dest, Tmp)
  BY Constants DEF Listed
<1>2. folder \in Path /\ folder # NoDir /\ folder = e.dest \o <<Source>> /\ <<Source>> \in Path
  BY <1>1, NamesHere, OneMore
<1>3. \A x \in Entries(e) : x \in Path /\ x # <<>>
  BY EntryPath
<1>4. \A x \in Entries(e) : folder \o x \notin DOMAIN there
  BY <1>2, <1>3, NothingBelow
<1>5. Outputs(e) = {Append(e.path, Source) \o x : x \in Entries(e)} /\ Moved(e) = Outputs(e)
  BY <1>1 DEF Outputs, Moved
<1>6. CASE e.path = e.dest
  <2>1. Last(e.path) # Tmp
    BY <1>1, <1>6, LastName
  <2>2. \A p \in Outputs(e) : p \notin DOMAIN there
    BY <1>4, <1>5, <1>6
  <2> QED
    BY <1>1, <1>6, <2>1, <2>2 DEF Ready, Safe, Users
<1>7. CASE e.path = Append(e.dest, Tmp)
  <2>1. /\ Last(e.path) = Tmp /\ e.path # NoDir /\ e.path \in Path
    BY <1>1, <1>7, Constants, Appended
  <2>2. ASSUME NEW p \in Outputs(e)
        PROVE  /\ p \notin DOMAIN there
               /\ Target(e.path, p) \notin DOMAIN there
               /\ ~IsStrictPrefix(e.path, Target(e.path, p))
    <3>1. PICK x \in Entries(e) : p = Append(e.path, Source) \o x
      BY <1>5
    <3> DEFINE r == <<Source>> \o x
    <3>2. x \in Seq(Names) /\ x \in Path /\ <<Source>> \in Seq(Names)
      <4>1. <<Source>> \in Seq(Names)
        BY Constants
      <4> QED
        BY <4>1, EntryPath
    <3>3. r \in Path /\ r \in Seq(Names)
      BY <3>2, <1>2, Constants, ConcatProperties
    <3>4. p = e.path \o r
      <4>1. Append(e.path, Source) = e.path \o <<Source>>
        BY <2>1, NamesHere, OneMore
      <4>2. (e.path \o <<Source>>) \o x = e.path \o (<<Source>> \o x)
        BY <1>2, <2>1, <3>2, Associative
      <4> QED
        BY <3>1, <4>1, <4>2
    <3>5. folder \o x = e.dest \o r
      <4>1. e.dest \in Path /\ <<Source>> \in Path /\ x \in Path
        BY <1>1, <1>2, <3>2
      <4>2. (e.dest \o <<Source>>) \o x = e.dest \o (<<Source>> \o x)
        BY <4>1, Associative
      <4> QED
        BY <1>2, <4>2
    <3> HIDE DEF r
    <3>6. p \notin DOMAIN there
      BY <1>1, <1>7, <3>3, <3>4, NothingInTmp
    <3>7. Target(e.path, p) = e.dest \o r
      BY <1>1, <1>7, <3>3, <3>4, TargetOf
    <3>8. e.dest \o r \in Seq(Names)
      BY <1>1, <3>3, ConcatProperties
    <3>9. ~IsStrictPrefix(e.path, e.dest \o r)
      BY <1>1, <1>7, <3>8, Constants, TmpOutside
    <3> QED
      BY <1>4, <3>1, <3>5, <3>6, <3>7, <3>9
  <2> QED
    BY <1>1, <1>5, <2>1, <2>2 DEF Ready, Safe, Users
<1> QED
  BY <1>1, <1>6, <1>7

\* A folder that is there.
LEMMA SameFolderReady ==
  ASSUME NEW there, Tree(there), NEW work, NEW e \in Dialog, Listed(there, work, e, {}),
         DirIn(there, Append(e.dest, Source))
  PROVE  Ready(there, e, e.conflicts)
<1> DEFINE folder == Append(e.dest, Source)
           empty == \A p \in DOMAIN there : ~IsStrictPrefix(folder, p)
<1>1. /\ e.version.isDirectory /\ e.slash
      /\ e.path = (IF empty THEN folder ELSE Append(folder, Tmp))
      /\ e.dest \in Seq(Names)
      /\ \A x \in Entries(e) : folder \o x \in DOMAIN there => folder \o x \in e.conflicts
  BY DEF Listed, DirIn
<1>2. folder \in Seq(Names) /\ folder \in Path /\ folder # NoDir
  BY <1>1, Constants, AppendProperties DEF NoDir
<1>3. Last(folder) # Tmp
  BY <1>2, LastName
<1>4. \A x \in Entries(e) : x \in Path /\ x \in Seq(Names) /\ x # <<>>
  BY EntryPath
<1>5. Outputs(e) = {e.path \o x : x \in Entries(e)} /\ Moved(e) = Outputs(e)
  BY <1>1 DEF Outputs, Moved
<1> HIDE DEF folder
<1>6. CASE empty
  <2>1. \A x \in Entries(e) : folder \o x \notin DOMAIN there
    BY <1>2, <1>4, <1>6, Constants, Below1
  <2>2. e.path = folder
    BY <1>1, <1>6
  <2> QED
    BY <1>1, <1>2, <1>3, <1>5, <2>1, <2>2 DEF Ready, Safe, Users
<1>7. CASE ~empty
  <2>0. e.path = Append(folder, Tmp)
    BY <1>1, <1>7
  <2>1. /\ Last(e.path) = Tmp /\ e.path # NoDir /\ e.path \in Path
    BY <1>2, <2>0, Constants, Appended
  <2>2. ASSUME NEW p \in Outputs(e)
        PROVE  /\ p \notin DOMAIN there
               /\ Target(e.path, p) \in DOMAIN there => Target(e.path, p) \in e.conflicts
               /\ ~IsStrictPrefix(e.path, Target(e.path, p))
    <3>1. PICK x \in Entries(e) : p = e.path \o x
      BY <1>5
    <3>2. x \in Path /\ x \in Seq(Names)
      BY <1>4
    <3>3. p \notin DOMAIN there
      BY <1>2, <2>0, <3>1, <3>2, NothingInTmp
    <3>4. Target(e.path, p) = folder \o x
      BY <1>2, <2>0, <3>1, <3>2, TargetOf
    <3>5. folder \o x \in Seq(Names)
      BY <1>2, <3>2, ConcatProperties
    <3>6. ~IsStrictPrefix(e.path, folder \o x)
      BY <1>2, <2>0, <3>5, Constants, TmpOutside
    <3> QED
      BY <1>1, <3>1, <3>3, <3>4, <3>6
  <2> QED
    BY <1>1, <1>5, <2>1, <2>2 DEF Ready, Safe, Users
<1> QED
  BY <1>6, <1>7

LEMMA FolderReady ==
  ASSUME NEW there, Tree(there), NEW work, NEW e \in Dialog, Listed(there, work, e, {})
  PROVE  Ready(there, e, e.conflicts)
BY FreshFolderReady, SameFolderReady

\* A file, with the name under which it is to be restored.
LEMMA FileReady ==
  ASSUME NEW there, Tree(there), NEW e \in Dialog, ~e.version.isDirectory,
         NEW place \in Names, NEW name \in Names, e.dest = <<place, name>>,
         LET direct == e.dest \notin DOMAIN there /\ Last(e.dest) = Source
         IN  e.path = IF direct THEN Front(e.dest) ELSE Append(Front(e.dest), Tmp),
         e.conflicts = IF e.dest \in DOMAIN there THEN {e.dest} ELSE {}
  PROVE  Ready(there, e, e.conflicts)
<1> DEFINE dir == <<place>>
<1>1. /\ dir \in Seq(Names) /\ dir \in Path /\ dir # NoDir /\ e.dest = Append(dir, name)
      /\ <<name>> \in Path /\ <<name>> \in Seq(Names) /\ <<Source>> \in Path
  BY Constants DEF NoDir
<1>2. Front(e.dest) = dir /\ Last(e.dest) = name /\ e.dest = dir \o <<name>> /\ e.dest \in Seq(Names)
  <2> HIDE DEF dir
  <2>1. Append(dir, name) \in Seq(Names)
    BY <1>1, AppendProperties
  <2>2. /\ Front(Append(dir, name)) = dir /\ Last(Append(dir, name)) = name
        /\ Append(dir, name) = dir \o <<name>>
    BY <1>1, OneMore
  <2> QED
    BY <1>1, <2>1, <2>2
<1>3. Outputs(e) = {Append(e.path, Source)} /\ Moved(e) = {Append(e.path, name)}
  BY <1>2 DEF Outputs, Moved
<1> HIDE DEF dir
<1>4. CASE e.dest \notin DOMAIN there /\ name = Source
  <2>1. e.path = dir
    BY <1>2, <1>4
  <2>2. Last(dir) # Tmp
    BY <1>1, LastName
  <2>3. Append(e.path, Source) = e.dest
    BY <1>1, <1>4, <2>1
  <2> QED
    BY <1>1, <1>2, <1>3, <1>4, <2>1, <2>2, <2>3 DEF Ready, Safe, Users
<1>5. CASE ~(e.dest \notin DOMAIN there /\ name = Source)
  <2>1. e.path = Append(dir, Tmp)
    BY <1>2, <1>5
  <2>2. Last(e.path) = Tmp /\ e.path # NoDir /\ e.path \in Path
    <3>1. /\ Last(Append(dir, Tmp)) = Tmp /\ Append(dir, Tmp) # NoDir
          /\ Append(dir, Tmp) \in Path
      BY <1>1, OneMore
    <3> QED
      BY <2>1, <3>1
  <2>3. Append(e.path, Source) = e.path \o <<Source>> /\ Append(e.path, name) = e.path \o <<name>>
    BY <2>2, NamesHere, OneMore
  <2>4. Append(e.path, Source) \notin DOMAIN there
    BY <1>1, <2>1, <2>3, NothingInTmp
  <2>5. Target(e.path, Append(e.path, name)) = e.dest
    <3>1. <<name>> \in Path /\ Append(dir, Tmp) \in Path
      BY <1>1, <2>1, <2>2
    <3>2. Target(Append(dir, Tmp), Append(dir, Tmp) \o <<name>>) = dir \o <<name>>
      BY <1>1, <3>1, TargetOf
    <3> QED
      BY <1>2, <2>1, <2>3, <3>2
  <2>6. ~IsStrictPrefix(e.path, e.dest)
    BY <1>1, <1>2, <2>1, Constants, TmpOutside
  <2> QED
    BY <1>3, <2>2, <2>4, <2>5, <2>6 DEF Ready, Safe, Users
<1> QED
  BY <1>4, <1>5

\* A folder under a name that is not taken.
LEMMA NewNameReady ==
  ASSUME NEW there, Tree(there), NEW e \in Dialog, e.version.isDirectory, e.slash,
         NEW dest \in Seq(Names), e.path = Append(dest, NewName), e.path \notin DOMAIN there
  PROVE  Ready(there, e, {})
<1>1. e.path \in Path /\ e.path # NoDir /\ Last(e.path) # Tmp
  BY Constants, Appended
<1>2. ASSUME NEW x \in Entries(e) PROVE e.path \o x \notin DOMAIN there
  <2>1. x \in Path /\ x # <<>>
    BY EntryPath
  <2> QED
    BY <1>1, <2>1, NothingBelow DEF DirIn
<1>3. Outputs(e) = {e.path \o x : x \in Entries(e)}
  BY DEF Outputs
<1> QED
  BY <1>1, <1>2, <1>3 DEF Ready, Safe, Users

-----------------------------------------------------------------------------
(***************************************************************************)
(* What the user does.                                                     *)
(***************************************************************************)
Choice == {"none", "choose", "custom", "conflict"}

LEMMA SameReady ==
  ASSUME NEW e, NEW f, f.version = e.version, f.slash = e.slash, f.dest = e.dest, f.path = e.path
  PROVE  /\ Outputs(f) = Outputs(e) /\ Moved(f) = Moved(e)
         /\ \A there, agreed : Ready(there, f, agreed) <=> Ready(there, e, agreed)
         /\ \A there, j : JobFine(there, f, j) <=> JobFine(there, e, j)
<1>1. Outputs(f) = Outputs(e) /\ Moved(f) = Moved(e)
  BY DEF Outputs, Moved, Entries
<1>2. \A there, agreed : Ready(there, f, agreed) <=> Ready(there, e, agreed)
  BY <1>1 DEF Ready
<1> QED
  BY <1>1, <1>2 DEF JobFine

LEMMA Idle ==
  ASSUME NEW there, NEW work, NEW e, e.page \in {"none", "choose", "custom"},
         e.jobs = <<>>, e.listings = <<>>, Tree(there), ~e.version.isDirectory => ~e.slash
  PROVE  Fine(there, work, e)
BY DEF Fine, Choosing

LEMMA StartFine ==
  ASSUME NEW there, Tree(there), NEW work, NEW e \in Dialog, e.jobs = <<>>, e.listings = <<>>,
         NEW agreed \in SUBSET Path, Ready(there, e, agreed), ~e.version.isDirectory => ~e.slash
  PROVE  Fine(there, work, StartRestoring(e, agreed))
<1> DEFINE f == StartRestoring(e, agreed)
           j == [phase |-> "restoring", path |-> e.path, slash |-> e.slash,
                 left |-> IF e.version.isDirectory THEN Entries(e) ELSE {<<>>},
                 agreed |-> agreed]
<1>1. /\ f.page = "restoring" /\ f.jobs = Append(<<>>, j) /\ j \in Job
      /\ f.version = e.version /\ f.slash = e.slash /\ f.dest = e.dest
      /\ f.path = e.path /\ f.listings = <<>>
  BY RestoringKeeps
<1>2. \A x \in j.left : Root(j) \o x \in Outputs(e)
  <2>1. CASE e.version.isDirectory
    BY <2>1 DEF Root, Outputs
  <2>2. CASE ~e.version.isDirectory
    <3>1. Root(j) = Append(e.path, Source) /\ j.left = {<<>>} /\ Outputs(e) = {Append(e.path, Source)}
      BY <2>2 DEF Root, Outputs
    <3>2. Append(e.path, Source) \o <<>> = Append(e.path, Source)
      <4>1. Append(e.path, Source) \in Path
        BY NamesHere, OneMore DEF Dialog
      <4> QED
        BY <4>1, Constants, ConcatEmptySeq
    <3> QED
      BY <3>1, <3>2
  <2> QED
    BY <2>1, <2>2
<1>3. Last(e.path) = Tmp => FilesIn(there, e.path) = {}
  <2>1. ASSUME Last(e.path) = Tmp PROVE FilesIn(there, e.path) = {}
    <3>1. e.path \in Seq(AnyName) /\ e.path # <<>>
      BY Constants DEF Ready, Dialog, NoDir
    <3>2. PICK b \in Seq(AnyName), n \in AnyName : e.path = Append(b, n)
      BY <3>1, SequenceEmptyOrAppend
    <3>3. n = Tmp /\ b \in Path
      BY <2>1, <3>2, Constants, Appended
    <3> QED
      BY <3>2, <3>3, NothingInTmp
  <2> QED
    BY <2>1
<1>4. j.path = e.path /\ j.phase = "restoring" /\ j.agreed = agreed
  OBVIOUS
<1> HIDE DEF f, j
<1>5. JobFine(there, e, j)
  BY <1>2, <1>3, <1>4 DEF JobFine
<1>6. JobFine(there, f, j)
  BY <1>1, <1>5, SameReady
<1>7. Len(f.jobs) = 1 /\ f.jobs[1] = j
  BY <1>1
<1> QED
  BY <1>1, <1>6, <1>7 DEF Fine, Choosing, f

LEMMA PrechecksFine ==
  ASSUME NEW there, Tree(there), NEW work, NEW e \in Dialog, NEW space \in BOOLEAN,
         e.page \in {"choose", "custom"}, e.jobs = <<>>, e.listings = <<>>,
         Ready(there, e, e.conflicts), ~e.version.isDirectory => ~e.slash,
         e.dest \in Seq(Names)
  PROVE  Fine(there, work, CompletePrechecks(e, space))
<1> DEFINE f == CompletePrechecks(e, space)
<1>1. /\ f.version = e.version /\ f.slash = e.slash /\ f.dest = e.dest
      /\ f.path = e.path /\ f.listings = <<>> /\ f.conflicts = e.conflicts
      /\ \/ f = e
         \/ f.page = "conflict" /\ f.jobs = e.jobs
         \/ e.conflicts = {} /\ f = StartRestoring(e, {})
  BY PrechecksKeep
<1> HIDE DEF f
<1>2. CASE f = e
  BY <1>2, Idle DEF f
<1>3. CASE f.page = "conflict" /\ f.jobs = e.jobs
  <2>1. Ready(there, f, f.conflicts)
    BY <1>1, SameReady
  <2>2. Fine(there, work, f)
    BY <1>1, <1>3, <2>1 DEF Fine, Choosing
  <2> QED
    BY <2>2 DEF f
<1>4. CASE e.conflicts = {} /\ f = StartRestoring(e, {})
  <2>1. {} \in SUBSET Path
    OBVIOUS
  <2>2. Fine(there, work, StartRestoring(e, {}))
    BY <1>4, <2>1, StartFine
  <2> QED
    BY <1>4, <2>2 DEF f
<1> QED
  BY <1>1, <1>2, <1>3, <1>4

\* The prechecks of a file, which need no listing.
LEMMA FileFine ==
  ASSUME Tree(disk), NEW work, NEW e \in Dialog, NEW space \in BOOLEAN,
         e.page \in {"choose", "custom"}, e.jobs = <<>>, e.listings = <<>>,
         ~e.version.isDirectory, ~e.slash,
         NEW place \in Names, NEW name \in Names, e.dest = <<place, name>>
  PROVE  Fine(disk, work, CompletePrechecks(StartFilePrechecks(e), space))
<1> DEFINE f == StartFilePrechecks(e)
<1>1. f \in Dialog
  BY FilePrechecksTyped
<1>2. /\ f.version = e.version /\ f.slash = e.slash /\ f.dest = e.dest
      /\ f.page = e.page /\ f.listings = e.listings /\ f.jobs = e.jobs
      /\ LET direct == e.dest \notin DOMAIN disk /\ Last(e.dest) = Source
         IN  f.path = IF direct THEN Front(e.dest) ELSE Append(Front(e.dest), Tmp)
      /\ f.conflicts = IF e.dest \in DOMAIN disk THEN {e.dest} ELSE {}
  BY FileKeeps DEF Exists
<1> HIDE DEF f
<1>3. Ready(disk, f, f.conflicts)
  BY <1>1, <1>2, FileReady
<1>4. f.dest \in Seq(Names)
  BY <1>2
<1>5. Fine(disk, work, CompletePrechecks(f, space))
  BY <1>1, <1>2, <1>3, <1>4, PrechecksFine
<1> QED
  BY <1>5 DEF f

\* The prechecks of a folder begin.
LEMMA FolderFine ==
  ASSUME Tree(disk), NEW work, NEW e \in Dialog,
         e.page \in {"choose", "custom"}, e.jobs = <<>>, e.listings = <<>>,
         e.version.isDirectory, ~e.slash, e.dest \in Seq(Names), e.dest # NoDir,
         cwd # NoDir,
         IsDir(Append(e.dest, Source)) => work = Append(e.dest, Source)
  PROVE  Fine(disk, work, StartFolderPrechecks(e))
<1> DEFINE f == StartFolderPrechecks(e)
           folder == Append(e.dest, Source)
<1>1. /\ f.version = e.version /\ f.dest = e.dest /\ f.page = e.page /\ f.jobs = e.jobs
      /\ f.folder = folder
      /\ f.path = (IF ~Exists(folder) THEN e.dest
                   ELSE IF ~IsDir(folder) THEN Append(e.dest, Tmp)
                   ELSE IF Below(folder) = {} THEN folder
                   ELSE Append(folder, Tmp))
      /\ f.slash = (e.slash \/ IsDir(folder))
      /\ f.saved = IF IsDir(folder) THEN cwd ELSE NoDir
      /\ f.listings = Append(<<>>, Entries(e))
  BY FolderKeeps
<1> HIDE DEF f, folder
<1>2. f.listings[1] = Entries(f) /\ f.listings # <<>>
  BY <1>1 DEF Entries
<1>3. IsDir(folder) <=> DirIn(disk, folder)
  BY DEF IsDir, Exists, DirIn
<1>4. Below(folder) = {} <=> \A p \in DOMAIN disk : ~IsStrictPrefix(folder, p)
  BY DEF Below
<1>5. Listed(disk, work, f, f.listings[1])
  <2>1. f.path = (IF folder \notin DOMAIN disk THEN f.dest
                  ELSE IF ~DirIn(disk, folder) THEN Append(f.dest, Tmp)
                  ELSE IF \A p \in DOMAIN disk : ~IsStrictPrefix(folder, p) THEN folder
                  ELSE Append(folder, Tmp))
    BY <1>1, <1>3, <1>4 DEF Exists
  <2>2. f.slash = DirIn(disk, folder)
    BY <1>1, <1>3 DEF IsDir, Exists, DirIn
  <2>3. DirIn(disk, folder) => work = folder /\ f.saved # NoDir
    BY <1>1, <1>3 DEF folder
  <2>4. Entries(f) \ f.listings[1] = {}
    BY <1>2
  <2>5. folder = Append(f.dest, Source)
    BY <1>1 DEF folder
  <2> QED
    BY <1>1, <2>1, <2>2, <2>3, <2>4, <2>5 DEF Listed
<1>6. Fine(disk, work, f)
  BY <1>1, <1>2, <1>5 DEF Fine, Choosing
<1> QED
  BY <1>6 DEF f

LEMMA StartPrechecksFine ==
  ASSUME TypeOK, Tree(disk), NEW d \in Dialogs, NEW e \in Dialog, NEW space \in BOOLEAN,
         e.page \in {"choose", "custom"}, e.jobs = <<>>, e.listings = <<>>, ~e.slash,
         IF e.version.isDirectory
         THEN e.dest \in Seq(Names) /\ e.dest # NoDir
         ELSE \E place, name \in Names : e.dest = <<place, name>>,
         cwd = StartDir,
         StartPrechecks(d, e, space)
  PROVE  Fine(disk, cwd', dialog'[d])
<1>1. CASE e.version.isDirectory
  <2>1. /\ dialog'[d] = StartFolderPrechecks(e)
        /\ cwd' = IF IsDir(Append(e.dest, Source)) THEN Append(e.dest, Source) ELSE cwd
    BY <1>1 DEF StartPrechecks, TypeOK
  <2>2. cwd # NoDir
    BY Constants
  <2>3. Fine(disk, cwd', StartFolderPrechecks(e))
    BY <1>1, <2>1, <2>2, FolderFine
  <2> QED
    BY <2>1, <2>3
<1>2. CASE ~e.version.isDirectory
  <2>1. dialog'[d] = CompletePrechecks(StartFilePrechecks(e), space)
    BY <1>2 DEF StartPrechecks, TypeOK
  <2>2. PICK place \in Names, name \in Names : e.dest = <<place, name>>
    BY <1>2
  <2>3. Fine(disk, cwd', CompletePrechecks(StartFilePrechecks(e), space))
    BY <1>2, <2>2, FileFine
  <2> QED
    BY <2>1, <2>3
<1> QED
  BY <1>1, <1>2

\* A new folder, in one that is there.
LEMMA NewFolderTree ==
  ASSUME Tree(disk), NEW place \in Names, NEW name \in Names, IsDir(<<place>>),
         <<place, name>> \notin DOMAIN disk
  PROVE  Tree(WithFile(disk, <<place, name>>, "dir"))
<1> DEFINE q   == <<place, name>>
           new == WithFile(disk, q, "dir")
<1>1. q \in Seq(Names) /\ q \in Path /\ q # NoDir /\ Len(q) = 2
  BY Constants DEF NoDir
<1>2. SubSeq(q, 1, 1) = <<place>> /\ SubSeq(q, 1, 2) = q
  <2>1. \A i \in 1..1 : q[i] \in Names
    OBVIOUS
  <2>2. /\ SubSeq(q, 1, 1) \in Seq(Names) /\ Len(SubSeq(q, 1, 1)) = 1
        /\ SubSeq(q, 1, 1)[1] = place
    <3>1. /\ SubSeq(q, 1, 1) \in Seq(Names)
          /\ Len(SubSeq(q, 1, 1)) = IF 1 <= 1 THEN 1 - 1 + 1 ELSE 0
          /\ \A i \in 1..1 - 1 + 1 : SubSeq(q, 1, 1)[i] = q[1 + i - 1]
      BY <2>1, SubSeqProperties
    <3> QED
      BY <3>1
  <2>3. <<place>> \in Seq(Names) /\ Len(<<place>>) = 1 /\ <<place>>[1] = place
    OBVIOUS
  <2>4. SubSeq(q, 1, 1) = <<place>>
    <3> DEFINE u == SubSeq(q, 1, 1)
               v == <<place>>
    <3>1. u \in Seq(Names) /\ v \in Seq(Names) /\ Len(u) = 1 /\ Len(v) = 1 /\ u[1] = v[1]
      BY <2>2, <2>3
    <3> HIDE DEF u, v
    <3>2. \A i \in 1..Len(u) : u[i] = v[i]
      BY <3>1
    <3>3. u = v
      BY <3>1, <3>2, SeqEqual
    <3> QED
      BY <3>3 DEF u, v
  <2>5. SubSeq(q, 1, 2) = q
    BY <1>1, SubSeqFull
  <2> QED
    BY <2>4, <2>5
<1>3. new = [p \in DOMAIN disk \cup {SubSeq(q, 1, n) : n \in 1..Len(q)} |->
               IF p = q THEN "dir" ELSE IF p \in DOMAIN disk THEN disk[p] ELSE "dir"]
  BY DEF WithFile
<1>4. DOMAIN new = DOMAIN disk \cup {q}
  <2>1. {SubSeq(q, 1, n) : n \in 1..Len(q)} = {<<place>>, q}
    BY <1>1, <1>2
  <2>2. DOMAIN new = DOMAIN disk \cup {<<place>>, q}
    BY <1>3, <2>1
  <2> QED
    BY <2>2 DEF IsDir, Exists
<1> HIDE DEF new
<1>5. \A p \in DOMAIN disk : new[p] = disk[p]
  BY <1>3, <1>4
<1>6. \A p : DirIn(disk, p) => DirIn(new, p)
  BY <1>4, <1>5 DEF DirIn
<1>7. ASSUME NEW n \in 1..Len(q) - 1 PROVE DirIn(new, SubSeq(q, 1, n))
  <2>1. n = 1
    BY <1>1
  <2>2. DirIn(disk, <<place>>)
    BY DEF DirIn, IsDir, Exists
  <2> QED
    BY <1>2, <1>6, <2>1, <2>2
<1>8. ASSUME NEW p \in DOMAIN new
      PROVE  /\ p \in Seq(Names) /\ p # NoDir
             /\ \A n \in 1..Len(p) - 1 : DirIn(new, SubSeq(p, 1, n))
  <2>1. CASE p = q
    BY <1>1, <1>7, <2>1
  <2>2. CASE p \in DOMAIN disk
    BY <1>6, <2>2 DEF Tree
  <2> QED
    BY <1>4, <2>1, <2>2
<1> QED
  BY <1>8 DEF Tree, new

LEMMA UserFine ==
  ASSUME ~Impatient, ~SecondThoughts, TypeOK, NEW d \in Dialogs, Returns(d),
         Fine(disk, cwd, dialog[d]), User(d)
  PROVE  Fine(disk', cwd', dialog'[d]) /\ lost' = lost
<1> DEFINE e == dialog[d]
<1>0. e \in Dialog /\ e.dest \in Path /\ e.conflicts \in SUBSET Path /\ e.slash \in BOOLEAN
  BY DEF TypeOK, Dialog
<1>d. \A f : dialog' = [dialog EXCEPT ![d] = f] => dialog'[d] = f
  BY DEF TypeOK
<1>c. e.page \in Choice => e.jobs = <<>> /\ Tree(disk) /\ (~e.version.isDirectory => ~e.slash)
  BY DEF Fine, Choosing, Choice
<1>1. CASE \E v \in Versions : Open(d, v)
  <2>1. PICK v \in Versions : Open(d, v)
    BY <1>1
  <2>2. e.page = "none" /\ dialog'[d] = NewDialog(v) /\ UNCHANGED <<disk, cwd, lost>>
    BY <2>1, <1>d DEF Open
  <2>3. Fine(disk, cwd, NewDialog(v))
    BY <1>c, <2>2, Idle DEF NewDialog, Choice
  <2> QED
    BY <2>2, <2>3
<1>2. CASE Close(d)
  <2> DEFINE f == [e EXCEPT !.page = "closed", !.listings = <<>>]
  <2>1. dialog'[d] = f /\ UNCHANGED <<disk, cwd, lost>>
    BY <1>2, <1>0 DEF Close, TypeOK, Dialog
  <2>2. /\ f.page = "closed" /\ f.listings = <<>> /\ f.jobs = e.jobs
        /\ f.version = e.version /\ f.slash = e.slash /\ f.dest = e.dest /\ f.path = e.path
    BY <1>0 DEF Dialog
  <2> HIDE DEF f
  <2>3. f.jobs # <<>> => Len(f.jobs) = 1 /\ JobFine(disk, f, f.jobs[1])
    BY <2>2, SameReady DEF Fine
  <2>4. Fine(disk, cwd, f)
    BY <2>2, <2>3 DEF Fine, Choosing
  <2> QED
    BY <2>1, <2>4
<1>3. CASE Back(d) \/ SetCustomDestination(d)
  <2>1. PICK page \in {"choose", "custom"} : dialog'[d] = [e EXCEPT !.page = page]
    BY <1>3 DEF Back, SetCustomDestination, TypeOK
  <2>2. e.page \in Choice /\ e.listings = <<>> /\ UNCHANGED <<disk, cwd, lost>>
    BY <1>3 DEF Back, SetCustomDestination, Shows, Choice
  <2> DEFINE f == [e EXCEPT !.page = page]
  <2>3. /\ f.page = page /\ f.jobs = e.jobs /\ f.listings = e.listings
        /\ f.version = e.version /\ f.slash = e.slash
    BY <1>0 DEF Dialog
  <2> HIDE DEF f
  <2>4. Fine(disk, cwd, f)
    BY <1>c, <2>2, <2>3, Idle
  <2> QED
    BY <2>1, <2>2, <2>4 DEF f
<1>5. CASE \E space \in BOOLEAN : SetOriginalDestination(d, space)
  <2> DEFINE f == [e EXCEPT !.slash = FALSE, !.dest = <<Home>>]
             g == [e EXCEPT !.dest = <<Home, Source>>]
             h == IF e.version.isDirectory THEN f ELSE g
  <2>1. PICK space \in BOOLEAN :
          StartPrechecks(d, h, space) /\ Shows(e, "choose") /\ UNCHANGED <<disk, lost>>
    BY <1>5 DEF SetOriginalDestination
  <2>2. e.listings = <<>> /\ e.page = "choose" /\ cwd = StartDir
    BY <2>1 DEF Shows, Returns
  <2>3. e.jobs = <<>> /\ Tree(disk) /\ (~e.version.isDirectory => ~e.slash)
    BY <1>c, <2>2 DEF Choice
  <2>4. <<Home>> \in Path /\ <<Home, Source>> \in Path
    BY Constants
  <2>5. /\ h \in Dialog /\ h.listings = <<>> /\ h.page = "choose" /\ h.jobs = <<>> /\ ~h.slash
        /\ h.version = e.version
        /\ h.dest = IF e.version.isDirectory THEN <<Home>> ELSE <<Home, Source>>
    BY <1>0, <2>2, <2>3, <2>4 DEF Dialog
  <2> HIDE DEF h
  <2>6. IF h.version.isDirectory THEN h.dest \in Seq(Names) /\ h.dest # NoDir
        ELSE \E place, name \in Names : h.dest = <<place, name>>
    <3>1. Home \in Names /\ Source \in Names /\ <<Home>> \in Seq(Names) /\ <<Home>> # NoDir
      BY Constants DEF NoDir
    <3> QED
      BY <2>5, <3>1
  <2>7. Fine(disk, cwd', dialog'[d])
    BY <2>1, <2>2, <2>3, <2>5, <2>6, StartPrechecksFine
  <2> QED
    BY <2>1, <2>7
<1>6. CASE \E place \in Places, name \in {Source, NewName} : CreateNewFolder(d, place, name)
  <2>1. PICK place \in Places, name \in {Source, NewName} : CreateNewFolder(d, place, name)
    BY <1>6
  <2>2. /\ e.listings = <<>> /\ e.page = "custom"
        /\ IsDir(<<place>>) /\ <<place, name>> \notin DOMAIN disk
        /\ disk' = WithFile(disk, <<place, name>>, "dir") /\ UNCHANGED <<dialog, cwd, lost>>
    BY <2>1 DEF CreateNewFolder, Shows, Exists
  <2>3. e.jobs = <<>> /\ Tree(disk) /\ (~e.version.isDirectory => ~e.slash)
    BY <1>c, <2>2 DEF Choice
  <2>4. Tree(WithFile(disk, <<place, name>>, "dir"))
    BY <2>2, <2>3, Constants, NewFolderTree
  <2>5. Fine(WithFile(disk, <<place, name>>, "dir"), cwd, e)
    BY <2>2, <2>3, <2>4, Idle
  <2> QED
    BY <2>2, <2>5
<1>7. CASE \E folder \in DOMAIN disk : CheckFolderSelection(d, folder)
  <2>1. PICK folder \in DOMAIN disk : CheckFolderSelection(d, folder)
    BY <1>7
  <2> DEFINE f == [e EXCEPT !.dest = folder]
  <2>2. /\ StartPrechecks(d, f, TRUE) /\ UNCHANGED <<disk, lost>> /\ folder \in Path
        /\ e.listings = <<>> /\ e.page = "custom" /\ e.version.isDirectory /\ ~e.slash
    BY <2>1 DEF CheckFolderSelection, TypeOK, Shows
  <2>3. e.jobs = <<>> /\ Tree(disk) /\ cwd = StartDir
    BY <1>c, <2>2 DEF Choice, Returns
  <2>4. folder \in Seq(Names) /\ folder # NoDir
    BY <2>3 DEF Tree
  <2>5. /\ f \in Dialog /\ f.listings = <<>> /\ f.page = "custom" /\ f.jobs = <<>> /\ ~f.slash
        /\ f.version.isDirectory /\ f.dest = folder
    BY <1>0, <2>2, <2>3 DEF Dialog
  <2> HIDE DEF f
  <2>6. Fine(disk, cwd', dialog'[d])
    BY <2>2, <2>3, <2>4, <2>5, StartPrechecksFine
  <2> QED
    BY <2>2, <2>6
<1>8. CASE \E place \in Places, name \in {Source, NewName}, space \in BOOLEAN :
             CheckFileSelection(d, place, name, space)
  <2>1. PICK place \in Places, name \in {Source, NewName}, space \in BOOLEAN :
           CheckFileSelection(d, place, name, space)
    BY <1>8
  <2> DEFINE f == [e EXCEPT !.accepting = @ + 1, !.dest = <<place, name>>]
             once == CompletePrechecks(StartFilePrechecks(f), space)
  <2>2. <<place, name>> \in Path /\ e.accepting + 1 \in Nat /\ place \in Names /\ name \in Names
    BY <1>0, <2>1, Constants DEF Dialog
  <2>3. /\ f \in Dialog /\ f.listings = e.listings /\ f.page = e.page /\ f.jobs = e.jobs
        /\ f.slash = e.slash /\ f.version = e.version /\ f.dest = <<place, name>>
    BY <1>0, <2>2 DEF Dialog
  <2>4. /\ Shows(f, "custom") /\ ~f.version.isDirectory /\ UNCHANGED <<disk, cwd, lost>>
        /\ f.accepting = 1 /\ dialog'[d] = once
    BY <2>1, <1>d DEF CheckFileSelection
  <2> HIDE DEF f
  <2>5. e.listings = <<>> /\ e.page = "custom"
    BY <2>3, <2>4 DEF Shows
  <2>6. e.jobs = <<>> /\ Tree(disk) /\ ~e.slash
    BY <1>c, <2>3, <2>4, <2>5 DEF Choice
  <2>7. Fine(disk, cwd, once)
    BY <2>2, <2>3, <2>4, <2>5, <2>6, FileFine
  <2> QED
    BY <2>4, <2>7
<1>9. CASE ConfirmOverwrite(d)
  <2>1. /\ dialog'[d] = StartRestoring(e, e.conflicts) /\ UNCHANGED <<disk, cwd, lost>>
        /\ e.listings = <<>> /\ e.page = "conflict"
    BY <1>9, <1>d DEF ConfirmOverwrite, Shows
  <2>2. Ready(disk, e, e.conflicts) /\ e.jobs = <<>> /\ Tree(disk)
        /\ (~e.version.isDirectory => ~e.slash)
    BY <1>c, <2>1 DEF Fine, Choosing
  <2>3. Fine(disk, cwd, StartRestoring(e, e.conflicts))
    BY <1>0, <2>1, <2>2, StartFine
  <2> QED
    BY <2>1, <2>3
<1>10. CASE ConfirmNewName(d)
  <2> DEFINE folder == Append(e.dest, NewName)
             f == [e EXCEPT !.folder = folder, !.path = folder, !.slash = TRUE]
  <2>1. folder \in Path
    BY <1>0, Constants, AppendProperties
  <2>2. /\ dialog'[d] = StartRestoring(f, {}) /\ UNCHANGED <<disk, cwd, lost>>
        /\ e.listings = <<>> /\ e.page = "conflict" /\ e.version.isDirectory
        /\ folder \notin DOMAIN disk
    BY <1>10, <1>d DEF ConfirmNewName, Shows, Exists
  <2>3. e.jobs = <<>> /\ Tree(disk) /\ e.dest \in Seq(Names)
    BY <2>2 DEF Fine, Choosing
  <2>4. /\ f \in Dialog /\ f.version = e.version /\ f.slash /\ f.jobs = <<>> /\ f.listings = <<>>
        /\ f.path = folder
    BY <1>0, <2>1, <2>2, <2>3 DEF Dialog
  <2> HIDE DEF f
  <2>5. Ready(disk, f, {})
    BY <2>2, <2>3, <2>4, NewNameReady
  <2>6. {} \in SUBSET Path
    OBVIOUS
  <2>7. Fine(disk, cwd, StartRestoring(f, {}))
    BY <2>2, <2>3, <2>4, <2>5, <2>6, StartFine
  <2> QED
    BY <2>2, <2>7
<1> QED
  BY <1>1, <1>2, <1>3, <1>5, <1>6, <1>7, <1>8, <1>9, <1>10 DEF User

-----------------------------------------------------------------------------
(***************************************************************************)
(* What the jobs do.                                                       *)
(***************************************************************************)
\* A job goes on, and the dialog with it.
LEMMA JobGoesOn ==
  ASSUME NEW there, NEW work, NEW e, Fine(there, work, e), e.jobs # <<>>,
         NEW now, NEW then, NEW f, f.page = e.page, f.listings = e.listings,
         f.version = e.version, f.slash = e.slash, f.dest = e.dest, f.path = e.path,
         Len(f.jobs) = 1, JobFine(now, e, f.jobs[1])
  PROVE  Fine(now, then, f)
<1>1. JobFine(now, f, f.jobs[1])
  BY SameReady
<1>2. f.page \notin Choice /\ (f.page \in {"restoring", "closed"} => f.listings = <<>>)
  BY DEF Fine, Choosing, Choice
<1> QED
  BY <1>1, <1>2 DEF Fine, Choosing, Choice

LEMMA OnlyJob ==
  ASSUME NEW there, NEW work, NEW e \in Dialog, Fine(there, work, e), NEW i \in DOMAIN e.jobs
  PROVE  i = 1 /\ e.jobs # <<>> /\ Len(e.jobs) = 1 /\ JobFine(there, e, e.jobs[1])
<1>1. e.jobs \in Seq(Job) /\ e.jobs # <<>>
  BY EmptySeq DEF Dialog
<1>2. Len(e.jobs) = 1 /\ JobFine(there, e, e.jobs[1])
  BY <1>1 DEF Fine
<1>3. DOMAIN e.jobs = 1..1
  BY <1>1, <1>2, LenProperties
<1> QED
  BY <1>1, <1>2, <1>3

LEMMA PhaseFine ==
  ASSUME NEW there, NEW work, NEW e \in Dialog, Fine(there, work, e),
         NEW f, NEW i, NEW phases, Rephased(e, f, i, phases),
         NEW now, NEW then, Users(now) \subseteq Users(there),
         f.jobs[i].phase # "done" =>
           /\ Last(e.path) = Tmp
           /\ \A p \in FilesIn(now, e.path) :
                /\ now[p] # "user"
                /\ p \in (IF f.jobs[i].phase = "moving" THEN Moved(e) ELSE Outputs(e)),
         f.jobs[i].phase = "renaming" => ~e.version.isDirectory
  PROVE  Fine(now, then, f)
<1>1. i \in DOMAIN e.jobs
  BY DEF Rephased
<1>2. i = 1 /\ e.jobs # <<>> /\ Len(e.jobs) = 1 /\ JobFine(there, e, e.jobs[1])
  BY <1>1, OnlyJob
<1> DEFINE j == e.jobs[1]
           k == f.jobs[1]
<1>3. /\ Len(f.jobs) = 1 /\ k.path = e.path /\ j.path = e.path /\ k.slash = j.slash
      /\ k.left = j.left /\ k.agreed = j.agreed
      /\ f.page = e.page /\ f.listings = e.listings
      /\ f.version = e.version /\ f.slash = e.slash /\ f.dest = e.dest /\ f.path = e.path
  BY <1>2 DEF Rephased, JobFine
<1>4. Root(k) = Root(j)
  BY <1>3 DEF Root
<1>5. Ready(now, e, k.agreed)
  BY <1>2, <1>3, ReadyStays DEF JobFine
<1>6. /\ k.phase # "done" =>
           /\ Last(e.path) = Tmp
           /\ \A p \in FilesIn(now, e.path) :
                /\ now[p] # "user"
                /\ p \in (IF k.phase = "moving" THEN Moved(e) ELSE Outputs(e))
      /\ k.phase = "renaming" => ~e.version.isDirectory
  BY <1>2
<1>7. \A x \in k.left : Root(k) \o x \in Outputs(e)
  BY <1>2, <1>3, <1>4 DEF JobFine
<1> HIDE DEF j, k
<1>8. JobFine(now, e, k)
  BY <1>3, <1>5, <1>6, <1>7 DEF JobFine
<1> QED
  BY <1>2, <1>3, <1>8, JobGoesOn DEF k

LEMMA RestoreEntryFine ==
  ASSUME TypeOK, NEW d \in Dialogs, Fine(disk, cwd, dialog[d]), NEW i, RestoreEntry(d, i)
  PROVE  Fine(disk', cwd', dialog'[d]) /\ lost' = lost
<1> DEFINE e == dialog[d]
           j == e.jobs[1]
<1>0. i \in DOMAIN e.jobs /\ e \in Dialog
  BY DEF RestoreEntry, TypeOK
<1>1. i = 1 /\ e.jobs # <<>> /\ Len(e.jobs) = 1 /\ JobFine(disk, e, j)
  BY <1>0, OnlyJob
<1>2. j \in Job /\ \A k \in Job : [e.jobs EXCEPT ![i] = k] \in Seq(Job)
  BY <1>0, <1>1, JobTyped
<1>3. PICK entry \in j.left :
        /\ Write(disk, Root(j) \o entry, d, j.agreed)
        /\ dialog' = [dialog EXCEPT ![d].jobs[i].left = @ \ {entry}]
        /\ j.phase = "restoring" /\ cwd' = cwd
  BY <1>1 DEF RestoreEntry
<1> DEFINE p == Root(j) \o entry
           k == [j EXCEPT !.left = j.left \ {entry}]
<1>4. p \in Path
  <2>1. j.path \in Path /\ entry \in Path
    BY <1>2, <1>3 DEF Job
  <2>2. Root(j) \in Path
    BY <2>1, Constants, AppendProperties DEF Root
  <2> QED
    BY <2>1, <2>2, Constants, ConcatProperties
<1>5. p \in Outputs(e) /\ Safe(disk, p, j.agreed)
  BY <1>1, <1>3 DEF JobFine, Ready
<1>6. disk' = WithFile(disk, p, d) /\ lost' = lost
  BY <1>3, <1>5 DEF Write, Safe, Users, Exists
<1>7. d # "user" /\ d # "dir"
  BY RestoreAssumption
<1>8. Users(disk') \subseteq Users(disk)
  BY <1>4, <1>6, <1>7, UsersAfter
<1>9. ASSUME Last(e.path) = Tmp, NEW q \in FilesIn(disk', e.path)
      PROVE  disk'[q] # "user" /\ q \in Outputs(e)
  <2>1. \/ q = p /\ disk'[q] = d
        \/ q \in FilesIn(disk, e.path) /\ disk'[q] = disk[q]
    <3>1. q \in FilesIn(WithFile(disk, p, d), e.path)
      BY <1>6, <1>9
    <3> HIDE DEF p
    <3> QED
      BY <1>4, <1>6, <3>1, FilesAfter
  <2> QED
    BY <1>1, <1>3, <1>5, <1>7, <1>9, <2>1 DEF JobFine
<1>10. /\ k.path = j.path /\ k.slash = j.slash /\ k.left = j.left \ {entry}
       /\ k.agreed = j.agreed /\ k.phase = "restoring" /\ k \in Job
  BY <1>2, <1>3 DEF Job
<1> HIDE DEF k, p
<1>11. JobFine(disk', e, k)
  <2>1. Ready(disk', e, k.agreed)
    BY <1>1, <1>8, <1>10, ReadyStays DEF JobFine
  <2>2. Root(k) = Root(j)
    BY <1>10 DEF Root
  <2>3. k.path = e.path /\ \A x \in k.left : Root(k) \o x \in Outputs(e)
    BY <1>1, <1>10, <2>2 DEF JobFine
  <2> QED
    BY <1>9, <1>10, <2>1, <2>3 DEF JobFine
<1>12. LET f == dialog'[d]
       IN  /\ f.page = e.page /\ f.listings = e.listings
           /\ f.version = e.version /\ f.slash = e.slash /\ f.dest = e.dest /\ f.path = e.path
           /\ Len(f.jobs) = 1 /\ f.jobs[1] = k
  <2>1. dialog'[d] = [e EXCEPT !.jobs = [e.jobs EXCEPT ![i] = k]]
    BY <1>0, <1>1, <1>2, <1>3 DEF TypeOK, Dialog, k
  <2>2. Len([e.jobs EXCEPT ![i] = k]) = 1 /\ [e.jobs EXCEPT ![i] = k][1] = k
    <3>1. e.jobs \in Seq(Job) /\ i \in 1..Len(e.jobs)
      BY <1>0, <1>1 DEF Dialog
    <3> QED
      BY <1>1, <1>10, <3>1, ExceptSeq
  <2> QED
    BY <1>0, <2>1, <2>2 DEF Dialog
<1> HIDE DEF j
<1>13. Fine(disk', cwd', dialog'[d])
  BY <1>1, <1>11, <1>12, JobGoesOn
<1> QED
  BY <1>6, <1>13

LEMMA RestoringFine ==
  ASSUME TypeOK, NEW d \in Dialogs, Fine(disk, cwd, dialog[d]), NEW i,
         NEW error \in BOOLEAN, RestoringCompleted(d, i, error)
  PROVE  Fine(disk', cwd', dialog'[d]) /\ lost' = lost
<1> DEFINE e == dialog[d]
           r == [e EXCEPT !.jobs[i].phase = "renaming", !.jobs[i].path = e.path]
           done == [e EXCEPT !.jobs[i].phase = "done"]
<1>0. /\ i \in DOMAIN e.jobs /\ e \in Dialog /\ UNCHANGED <<disk, cwd, lost>>
      /\ e.jobs[i].phase = "restoring"
  BY DEF RestoringCompleted, TypeOK
<1>1. i = 1 /\ e.jobs # <<>> /\ Len(e.jobs) = 1 /\ JobFine(disk, e, e.jobs[1])
  BY <1>0, OnlyJob
<1>2. \/ dialog'[d] = done
      \/ dialog'[d] = Finished(e, i, "failed")
      \/ dialog'[d] = r /\ ~e.version.isDirectory /\ Last(e.dest) # Source
      \/ /\ dialog'[d] = MoveFolder(e, i)
         /\ e.version.isDirectory \/ Last(e.dest) = Source
  BY DEF RestoringCompleted, TypeOK
<1>3. /\ Rephased(e, done, i, {"done"})
      /\ Rephased(e, Finished(e, i, "failed"), i, {"done"})
      /\ Rephased(e, r, i, {"renaming"})
      /\ Rephased(e, MoveFolder(e, i), i, {"done", "moving"})
      /\ MoveFolder(e, i).jobs[i].phase = "moving" => Last(e.path) = Tmp
  BY <1>0, PhaseKeeps, MoveFolderKeeps
<1>4. Last(e.path) = Tmp =>
        \A p \in FilesIn(disk, e.path) : disk[p] # "user" /\ p \in Outputs(e)
  BY <1>0, <1>1 DEF JobFine
<1>5. e.version.isDirectory \/ Last(e.dest) = Source => Moved(e) = Outputs(e)
  BY DEF Moved, Outputs
<1>6. ~e.version.isDirectory /\ Last(e.dest) # Source => Last(e.path) = Tmp
  BY <1>1 DEF JobFine, Ready
<1> HIDE DEF r, done
<1>7. CASE dialog'[d] = done
  <2>1. done.jobs[i].phase = "done"
    BY <1>3 DEF Rephased
  <2>2. Fine(disk, cwd, done)
    BY <1>0, <1>3, <2>1, PhaseFine
  <2> QED
    BY <1>0, <1>7, <2>2
<1>8. CASE dialog'[d] = Finished(e, i, "failed")
  <2>1. Finished(e, i, "failed").jobs[i].phase = "done"
    BY <1>3 DEF Rephased
  <2>2. Fine(disk, cwd, Finished(e, i, "failed"))
    BY <1>0, <1>3, <2>1, PhaseFine
  <2> QED
    BY <1>0, <1>8, <2>2
<1>9. CASE dialog'[d] = r /\ ~e.version.isDirectory /\ Last(e.dest) # Source
  <2>1. r.jobs[i].phase = "renaming"
    BY <1>3 DEF Rephased
  <2>2. Fine(disk, cwd, r)
    BY <1>0, <1>3, <1>4, <1>6, <1>9, <2>1, PhaseFine
  <2> QED
    BY <1>0, <1>9, <2>2
<1>10. CASE /\ dialog'[d] = MoveFolder(e, i)
            /\ e.version.isDirectory \/ Last(e.dest) = Source
  <2> DEFINE f == MoveFolder(e, i)
  <2> HIDE DEF f
  <2>1. f.jobs[i].phase \in {"done", "moving"} /\ Rephased(e, f, i, {"done", "moving"})
    BY <1>3 DEF Rephased, f
  <2>2. f.jobs[i].phase = "moving" => Last(e.path) = Tmp
    BY <1>3 DEF f
  <2>3. Fine(disk, cwd, f)
    BY <1>0, <1>4, <1>5, <1>10, <2>1, <2>2, PhaseFine
  <2> QED
    BY <1>0, <1>10, <2>3 DEF f
<1> QED
  BY <1>2, <1>7, <1>8, <1>9, <1>10

\* A file gets its name; all that can be in the temporary folder is this file.
LEMMA FileMoveFine ==
  ASSUME TypeOK, AllFiled, NEW d \in Dialogs, Fine(disk, cwd, dialog[d]), NEW i,
         NEW error \in BOOLEAN, FileMoveCompleted(d, i, error)
  PROVE  Fine(disk', cwd', dialog'[d]) /\ lost' = lost
<1> DEFINE e == dialog[d]
           failed == [e EXCEPT !.result = "failed", !.jobs[i].phase = "done"]
           done == [e EXCEPT !.jobs[i].phase = "done"]
           from == Append(e.path, Source)
           to == Append(e.path, Last(e.dest))
           rest == Without(disk, {from})
           new == WithFile(rest, to, disk[from])
<1>0. /\ i \in DOMAIN e.jobs /\ e \in Dialog /\ UNCHANGED <<cwd, lost>>
      /\ e.jobs[i].phase = "renaming"
  BY DEF FileMoveCompleted, TypeOK
<1>1. i = 1 /\ e.jobs # <<>> /\ Len(e.jobs) = 1 /\ JobFine(disk, e, e.jobs[1])
  BY <1>0, OnlyJob
<1>2. e.jobs[i].path = e.path /\ ~e.version.isDirectory /\ Last(e.path) = Tmp
  BY <1>0, <1>1 DEF JobFine
<1>3. /\ Rephased(e, done, i, {"done"}) /\ Rephased(e, failed, i, {"done"})
      /\ Rephased(e, MoveFolder(e, i), i, {"done", "moving"})
  BY <1>0, PhaseKeeps, MoveFolderKeeps
<1>4. CASE error
  <2>1. dialog'[d] = failed /\ disk' = disk
    BY <1>0, <1>4 DEF FileMoveCompleted, TypeOK, Dialog
  <2> HIDE DEF failed
  <2>2. failed.jobs[i].phase = "done"
    BY <1>3 DEF Rephased
  <2>3. Fine(disk, cwd, failed)
    BY <1>0, <1>3, <2>2, PhaseFine
  <2> QED
    BY <1>0, <2>1, <2>3
<1>5. CASE ~error
  <2>1. /\ from \in DOMAIN disk /\ disk' = new
        /\ dialog'[d] = IF e.page = "closed" THEN done ELSE MoveFolder(e, i)
    BY <1>2, <1>5 DEF FileMoveCompleted, Exists, TypeOK
  <2>2. e.path \in Path /\ to \in Path
    <3>1. e.dest \in Path /\ e.path \in Path /\ e.dest # NoDir
      BY <1>0, <1>1, <1>2 DEF AllFiled, Filed, Dialog
    <3>2. Last(e.dest) \in AnyName
      BY <3>1, Constants, LenProperties, EmptySeq, ElementOfSeq DEF Last, NoDir
    <3> QED
      BY <3>1, <3>2, Constants, AppendProperties
  <2>3. Outputs(e) = {from} /\ Moved(e) = {to}
    BY <1>2 DEF Outputs, Moved
  <2>4. \A p \in FilesIn(disk, e.path) : disk[p] # "user" /\ p = from
    BY <1>0, <1>1, <1>2, <2>3 DEF JobFine
  <2>5. disk[from] # "user"
    <3>1. IsStrictPrefix(e.path, from)
      <4>1. from = e.path \o <<Source>> /\ <<Source>> \in Path /\ <<Source>> # <<>>
        BY <2>2, NamesHere, OneMore
      <4> QED
        BY <2>2, <4>1, Constants, Below1
    <3>2. disk[from] = "user" => from \in FilesIn(disk, e.path)
      BY <2>1, <3>1 DEF FilesIn
    <3> QED
      BY <2>4, <3>2
  <2>6. Users(new) \subseteq Users(disk)
    BY <2>2, <2>5, UsersAfter, UsersLeft
  <2>7. ASSUME NEW q \in FilesIn(new, e.path)
        PROVE  new[q] # "user" /\ q \in Moved(e)
    <3>1. \/ q = to /\ new[q] = disk[from]
          \/ q \in FilesIn(rest, e.path)
      BY <2>2, <2>7, FilesAfter
    <3>2. q \notin FilesIn(rest, e.path)
      BY <2>4, UsersLeft
    <3> QED
      BY <2>3, <2>5, <3>1, <3>2
  <2> HIDE DEF new, done
  <2>8. CASE dialog'[d] = done
    <3>1. done.jobs[i].phase = "done"
      BY <1>3 DEF Rephased
    <3>2. Fine(new, cwd, done)
      BY <1>0, <1>3, <2>6, <3>1, PhaseFine
    <3> QED
      BY <1>0, <2>1, <2>8, <3>2
  <2>9. CASE dialog'[d] = MoveFolder(e, i)
    <3> DEFINE f == MoveFolder(e, i)
    <3> HIDE DEF f
    <3>1. f.jobs[i].phase \in {"done", "moving"} /\ Rephased(e, f, i, {"done", "moving"})
      BY <1>3 DEF Rephased, f
    <3>2. Fine(new, cwd, f)
      BY <1>0, <1>2, <2>6, <2>7, <3>1, PhaseFine
    <3> QED
      BY <1>0, <2>1, <2>9, <3>2 DEF f
  <2> QED
    BY <2>1, <2>8, <2>9
<1> QED
  BY <1>4, <1>5

\* KIO moves a file up, to where it was said to go.
LEMMA MoveEntryFine ==
  ASSUME TypeOK, NEW d \in Dialogs, Fine(disk, cwd, dialog[d]), NEW i, MoveEntry(d, i)
  PROVE  Fine(disk', cwd', dialog'[d]) /\ lost' = lost
<1> DEFINE e == dialog[d]
           j == e.jobs[1]
<1>0. i \in DOMAIN e.jobs /\ e \in Dialog /\ UNCHANGED <<dialog, cwd>>
  BY DEF MoveEntry, TypeOK
<1>1. i = 1 /\ e.jobs # <<>> /\ Len(e.jobs) = 1 /\ JobFine(disk, e, j)
  BY <1>0, OnlyJob
<1>2. j.path = e.path /\ j.phase = "moving" /\ Last(e.path) = Tmp /\ Ready(disk, e, j.agreed)
  BY <1>1 DEF JobFine, MoveEntry
<1>3. PICK p \in FilesIn(disk, e.path) :
        Write(Without(disk, {p}), Target(e.path, p), disk[p], j.agreed)
  BY <1>1, <1>2 DEF MoveEntry, FilesBelow, Below, FilesIn, Target
<1> DEFINE to == Target(e.path, p)
           rest == Without(disk, {p})
<1>4. disk[p] # "user" /\ p \in Moved(e)
  BY <1>1, <1>2 DEF JobFine
<1>5. Safe(disk, to, j.agreed) /\ ~IsStrictPrefix(e.path, to)
  BY <1>2, <1>4 DEF Ready
<1>6. disk' = WithFile(rest, to, disk[p]) /\ lost' = lost
  BY <1>3, <1>5 DEF Write, Safe, Users, Exists
<1>7. to \in Path
  <2>1. p \in Path /\ e.path \in Path
    BY <1>0 DEF FilesIn, TypeOK, Dialog
  <2>2. Len(e.path) \in Nat /\ Len(p) \in Nat
    BY <2>1, Constants, LenProperties
  <2>3. Front(e.path) \in Path /\ SubSeq(p, Len(e.path) + 1, Len(p)) \in Path
    BY <2>1, <2>2, Constants, FrontOf, Part
  <2> QED
    BY <2>3, Constants, ConcatProperties DEF Target
<1> HIDE DEF to
<1>8. Users(disk') \subseteq Users(disk)
  BY <1>4, <1>6, <1>7, UsersAfter, UsersLeft
<1>9. ASSUME NEW q \in FilesIn(disk', e.path)
      PROVE  disk'[q] # "user" /\ q \in Moved(e)
  <2>1. \/ q = to /\ IsStrictPrefix(e.path, q)
        \/ q \in FilesIn(rest, e.path) /\ disk'[q] = rest[q]
    BY <1>6, <1>7, <1>9, FilesAfter
  <2>2. q \in FilesIn(rest, e.path) => q \in FilesIn(disk, e.path) /\ rest[q] = disk[q]
    BY UsersLeft
  <2> QED
    BY <1>1, <1>2, <1>5, <2>1, <2>2 DEF JobFine
<1> HIDE DEF j
<1>10. JobFine(disk', e, j)
  <2>1. Ready(disk', e, j.agreed)
    BY <1>2, <1>8, ReadyStays
  <2>2. \A x \in j.left : Root(j) \o x \in Outputs(e)
    BY <1>1 DEF JobFine
  <2> QED
    BY <1>2, <1>9, <2>1, <2>2 DEF JobFine
<1>11. Fine(disk', cwd', e)
  BY <1>1, <1>10, JobGoesOn DEF j
<1> QED
  BY <1>0, <1>6, <1>11

LEMMA FolderMoveFine ==
  ASSUME TypeOK, NEW d \in Dialogs, Fine(disk, cwd, dialog[d]), NEW i,
         NEW error \in BOOLEAN, FolderMoveCompleted(d, i, error)
  PROVE  Fine(disk', cwd', dialog'[d]) /\ lost' = lost
<1> DEFINE e == dialog[d]
<1>0. /\ i \in DOMAIN e.jobs /\ e \in Dialog /\ UNCHANGED <<cwd, lost>>
      /\ \/ disk' = disk
         \/ disk' = Without(disk, {e.jobs[i].path} \cup Below(e.jobs[i].path))
  BY DEF FolderMoveCompleted, TypeOK
<1>1. PICK result \in {"failed", "restored"} : dialog'[d] = Finished(e, i, result)
  BY DEF FolderMoveCompleted, TypeOK
<1>2. Rephased(e, Finished(e, i, result), i, {"done"})
  BY <1>0, PhaseKeeps
<1>3. Finished(e, i, result).jobs[i].phase = "done"
  BY <1>2 DEF Rephased
<1>4. Users(disk') \subseteq Users(disk)
  BY <1>0, UsersLeft
<1>5. Fine(disk', cwd', Finished(e, i, result))
  BY <1>0, <1>2, <1>3, <1>4, PhaseFine
<1> QED
  BY <1>0, <1>1, <1>5

\* What is listed is compared with the folder that is there.
LEMMA CollectFine ==
  ASSUME TypeOK, NEW d \in Dialogs, Returns(d), Fine(disk, cwd, dialog[d]), NEW i,
         CollectSourceListing(d, i)
  PROVE  Fine(disk', cwd', dialog'[d]) /\ lost' = lost
<1> DEFINE e == dialog[d]
<1>0. e \in Dialog /\ e.listings \in Seq(SUBSET Path) /\ UNCHANGED <<disk, cwd, lost>>
  BY DEF CollectSourceListing, TypeOK, Dialog
<1>1. i \in 1..Len(e.listings) /\ e.listings # <<>>
  BY <1>0, LenProperties, EmptySeq DEF CollectSourceListing
<1>2. i = 1 /\ Len(e.listings) = 1
  <2> DEFINE n == Len(e.listings)
  <2>1. n \in Nat /\ n <= 1 /\ i \in 1..n
    BY <1>0, <1>1, LenProperties DEF Returns
  <2> HIDE DEF n
  <2>2. i = 1 /\ n = 1
    BY <2>1
  <2> QED
    BY <2>2 DEF n
<1>3. PICK entry \in e.listings[1] :
        dialog' = [dialog EXCEPT
          ![d].listings[1] = @ \ {entry},
          ![d].conflicts   = IF e.saved # NoDir /\ Exists(cwd \o entry)
                             THEN @ \cup {e.folder \o entry} ELSE @]
  BY <1>2 DEF CollectSourceListing
<1> DEFINE l == [e.listings EXCEPT ![1] = e.listings[1] \ {entry}]
           c == IF e.saved # NoDir /\ Exists(cwd \o entry)
                THEN e.conflicts \cup {e.folder \o entry} ELSE e.conflicts
           f == [e EXCEPT !.listings = l, !.conflicts = c]
           folder == Append(e.dest, Source)
<1>4. dialog'[d] = f
  BY <1>0, <1>3 DEF TypeOK, Dialog
<1>5. l[1] = e.listings[1] \ {entry} /\ l # <<>>
  <2>1. e.listings[1] \in SUBSET Path
    BY <1>0, <1>1, <1>2, ElementOfSeq
  <2>2. l \in Seq(SUBSET Path) /\ Len(l) = 1 /\ l[1] = e.listings[1] \ {entry}
    BY <1>0, <1>1, <1>2, <2>1, ExceptSeq
  <2> HIDE DEF l
  <2>3. l # <<>>
    BY <2>2, EmptySeq
  <2> QED
    BY <2>2, <2>3
<1> HIDE DEF l, c
<1>6. /\ f.listings = l /\ f.conflicts = c /\ f.page = e.page /\ f.jobs = e.jobs
      /\ f.version = e.version /\ f.slash = e.slash /\ f.dest = e.dest /\ f.path = e.path
      /\ f.folder = e.folder /\ f.saved = e.saved
  BY <1>0 DEF Dialog
<1> HIDE DEF f
<1>7. e.page \in {"choose", "custom"} /\ Listed(disk, cwd, e, e.listings[1])
      /\ e.jobs = <<>> /\ Tree(disk)
  <2>1. e.page \in Choice
    BY <1>0, <1>1 DEF Fine, Dialog, Choice
  <2> QED
    BY <1>1, <2>1 DEF Fine, Choosing, Choice
<1>8. ASSUME DirIn(disk, folder), NEW x \in Entries(e) \ l[1], folder \o x \in DOMAIN disk
      PROVE  folder \o x \in c
  <2>1. cwd = folder /\ e.saved # NoDir /\ e.folder = folder
    BY <1>7, <1>8 DEF Listed
  <2>2. CASE x = entry
    BY <1>8, <2>1, <2>2 DEF c, Exists
  <2>3. CASE x # entry
    <3>1. x \in Entries(e) \ e.listings[1]
      BY <1>5, <1>8, <2>3
    <3>2. folder \o x \in e.conflicts
      BY <1>7, <1>8, <3>1 DEF Listed
    <3> QED
      BY <3>2 DEF c
  <2> QED
    BY <2>2, <2>3
<1>9. Listed(disk, cwd, f, f.listings[1])
  <2>1. Entries(f) = Entries(e)
    BY <1>6 DEF Entries
  <2> QED
    BY <1>6, <1>7, <1>8, <2>1 DEF Listed
<1>10. Fine(disk, cwd, f)
  BY <1>5, <1>6, <1>7, <1>9 DEF Fine, Choosing
<1> QED
  BY <1>0, <1>4, <1>10

LEMMA ListedFine ==
  ASSUME TypeOK, NEW d \in Dialogs, Returns(d), Fine(disk, cwd, dialog[d]), NEW i,
         NEW error \in BOOLEAN, NEW space \in BOOLEAN, SourceListingCompleted(d, i, error, space)
  PROVE  Fine(disk', cwd', dialog'[d]) /\ lost' = lost
<1> DEFINE e == dialog[d]
           f == [e EXCEPT !.listings = RemoveAt(@, i)]
<1>0. e \in Dialog /\ e.listings \in Seq(SUBSET Path) /\ UNCHANGED <<disk, lost>>
  BY DEF SourceListingCompleted, TypeOK, Dialog
<1>1. i \in 1..Len(e.listings) /\ e.listings # <<>>
  BY <1>0, LenProperties, EmptySeq DEF SourceListingCompleted
<1>2. i = 1 /\ Len(e.listings) = 1
  <2> DEFINE n == Len(e.listings)
  <2>1. n \in Nat /\ n <= 1 /\ i \in 1..n
    BY <1>0, <1>1, LenProperties DEF Returns
  <2> HIDE DEF n
  <2>2. i = 1 /\ n = 1
    BY <2>1
  <2> QED
    BY <2>2 DEF n
<1>3. /\ f \in Dialog /\ f.listings = <<>> /\ f.page = e.page /\ f.jobs = e.jobs
      /\ f.version = e.version /\ f.slash = e.slash /\ f.dest = e.dest /\ f.path = e.path
      /\ f.conflicts = e.conflicts
  <2>1. f = [e EXCEPT !.listings = <<>>] /\ f \in Dialog
    BY <1>0, <1>1, <1>2, LastListing
  <2> QED
    BY <1>0, <2>1 DEF Dialog
<1>4. /\ dialog'[d] = IF error THEN f ELSE CompletePrechecks(f, space)
      /\ error \/ e.listings[1] = {}
  BY <1>2 DEF SourceListingCompleted, TypeOK
<1> HIDE DEF f
<1>5. /\ e.page \in {"choose", "custom"} /\ Listed(disk, cwd, e, e.listings[1])
      /\ e.jobs = <<>> /\ Tree(disk) /\ (~e.version.isDirectory => ~e.slash)
  <2>1. e.page \in Choice
    BY <1>0, <1>1 DEF Fine, Dialog, Choice
  <2> QED
    BY <1>1, <2>1 DEF Fine, Choosing, Choice
<1>6. CASE error
  <2>1. Fine(disk, cwd', f)
    BY <1>3, <1>5, Idle
  <2> QED
    BY <1>0, <1>4, <1>6, <2>1
<1>7. CASE ~error
  <2>1. Listed(disk, cwd, e, {}) /\ e.dest \in Seq(Names)
    BY <1>4, <1>5, <1>7 DEF Listed
  <2>2. Ready(disk, e, e.conflicts)
    BY <1>0, <1>5, <2>1, FolderReady
  <2>3. Ready(disk, f, f.conflicts)
    BY <1>3, <2>2, SameReady
  <2>4. Fine(disk, cwd', CompletePrechecks(f, space))
    BY <1>3, <1>5, <2>1, <2>3, PrechecksFine
  <2> QED
    BY <1>0, <1>4, <1>7, <2>4
<1> QED
  BY <1>6, <1>7

LEMMA WorkFine ==
  ASSUME TypeOK, AllFiled, NEW d \in Dialogs, Returns(d), Fine(disk, cwd, dialog[d]),
         NEW i \in 1..2, Work(d, i)
  PROVE  Fine(disk', cwd', dialog'[d]) /\ lost' = lost
BY CollectFine, ListedFine, RestoreEntryFine, RestoringFine, FileMoveFine, MoveEntryFine,
   FolderMoveFine DEF Work

LEMMA LosslessStep ==
  ASSUME Decided, TypeInv, Directory, Lossless, [Next]_vars
  PROVE  Lossless'
<1>1. CASE UNCHANGED vars
  BY <1>1 DEF vars, Lossless
<1>2. ASSUME NEW d \in Dialogs, User(d) \/ \E i \in 1..2 : Work(d, i)
      PROVE  Lossless'
  <2>1. Fine(disk', cwd', dialog'[d]) /\ lost' = lost
    BY <1>2, UserFine, WorkFine DEF Decided, Patient, TypeInv, Directory, Lossless
  <2> QED
    BY <2>1 DEF Decided, Patient, OneDialog, Lossless
<1> QED
  BY <1>1, <1>2 DEF Next

LEMMA LosslessInit == Init => Lossless
<1> SUFFICES ASSUME Init PROVE Lossless
  OBVIOUS
<1> DEFINE v == CHOOSE u \in Versions : TRUE
<1>0. NoDialog = [NewDialog(v) EXCEPT !.page = "none"]
  BY DEF NoDialog
<1> HIDE DEF v
<1>1. /\ NoDialog.page = "none" /\ NoDialog.jobs = <<>> /\ NoDialog.listings = <<>>
      /\ NoDialog.slash = FALSE
  BY <1>0 DEF NewDialog
<1>2. Tree(disk)
  BY DiskAssumption DEF Init, Tree, DirIn
<1>3. Fine(disk, cwd, NoDialog)
  BY <1>1, <1>2, Idle
<1> QED
  BY <1>3 DEF Init, Lossless

\* A dialog whose user waits for its listings, and keeps to the destination first checked,
\* replaces no file unless it was in the list that the user confirmed: neither where bup
\* restores to nor where KIO moves it (restoredialog.cpp:151-216, 395-428).
THEOREM NothingLost == Decided => (Spec => []NothingReplacedUnasked)
<1> SUFFICES ASSUME Decided PROVE Spec => []NothingReplacedUnasked
  OBVIOUS
<1>1. Init => Directory /\ Lossless
  BY DirectoryInit, LosslessInit
<1>2. TypeInv /\ Directory /\ Lossless /\ [Next]_vars => (Directory /\ Lossless)'
  BY DirectoryStep, LosslessStep DEF Decided
<1>3. Lossless => NothingReplacedUnasked
  BY DEF Lossless, NothingReplacedUnasked
<1> QED
  BY <1>1, <1>2, <1>3, Typed, PTL DEF Spec

-----------------------------------------------------------------------------
(***************************************************************************)
(* What is restored arrives where the dialog says.                         *)
(***************************************************************************)
\* From a temporary folder in b to b.
LEMMA OutOfTmp ==
  ASSUME NEW b \in Seq(Names), NEW r \in Seq(Names), r # <<>>
  PROVE  LET t == Append(b, Tmp)
         IN  /\ IsStrictPrefix(t, t \o r) /\ t \o r # NoDir
             /\ Target(t, t \o r) = b \o r
             /\ b \o r \notin {t, NoDir}
<1> DEFINE t == Append(b, Tmp)
<1>1. b \in Path /\ r \in Path
  BY Constants
<1>2. t \in Path
  BY <1>1, NamesHere, OneMore
<1>3. Target(t, t \o r) = b \o r
  BY <1>1, TargetOf
<1>4. t \notin Seq(Names)
  BY <1>1, <1>2, TmpOutside
<1> HIDE DEF t
<1>5. /\ t \o r \in Path /\ IsStrictPrefix(t, t \o r) /\ b \o r \in Seq(Names)
      /\ Len(t \o r) = Len(t) + Len(r) /\ Len(b \o r) = Len(b) + Len(r)
      /\ Len(r) \in Nat \ {0} /\ Len(t) \in Nat /\ Len(b) \in Nat
  BY <1>1, <1>2, Constants, Below1
<1>6. Len(t \o r) # 0 /\ Len(b \o r) # 0
  BY <1>5
<1>7. t \o r # NoDir /\ b \o r # NoDir
  BY <1>5, <1>6, Constants, EmptySeq DEF NoDir
<1> QED
  BY <1>3, <1>4, <1>5, <1>7 DEF t

LEMMA AimedTmp ==
  ASSUME NEW e, NEW b \in Seq(Names), e.path = Append(b, Tmp), NoDir \notin Outputs(e),
         NEW R, \A r \in R : r \in Seq(Names) /\ r # <<>>,
         Moved(e) = {e.path \o r : r \in R}, ShownPlaces(e) = {b \o r : r \in R}
  PROVE  Aimed(e)
<1>1. Last(e.path) = Tmp
  <2>1. b \in Path
    BY Constants
  <2> QED
    BY <2>1, NamesHere, OneMore
<1>2. \A r \in R : /\ Target(e.path, e.path \o r) = b \o r
                   /\ IsStrictPrefix(e.path, e.path \o r)
                   /\ b \o r \notin {e.path, NoDir}
  BY OutOfTmp
<1>3. ShownPlaces(e) = {Target(e.path, m) : m \in Moved(e)}
  <2>1. {Target(e.path, m) : m \in Moved(e)} = {Target(e.path, e.path \o r) : r \in R}
    <3> DEFINE Aim(m)  == Target(e.path, m)
               Down(r) == e.path \o r
    <3>1. Moved(e) = {Down(r) : r \in R}
      OBVIOUS
    <3> HIDE DEF Aim, Down
    <3>2. {Aim(m) : m \in Moved(e)} = {Aim(Down(r)) : r \in R}
      BY <3>1
    <3> QED
      BY <3>2 DEF Aim, Down
  <2>2. {Target(e.path, e.path \o r) : r \in R} = {b \o r : r \in R}
    BY <1>2
  <2> QED
    BY <2>1, <2>2
<1>4. \A m \in Moved(e) : /\ IsStrictPrefix(e.path, m)
                          /\ Target(e.path, m) \notin {e.path, NoDir}
  BY <1>2
<1> QED
  BY <1>1, <1>3, <1>4 DEF Aimed

LEMMA NotEmpty ==
  ASSUME NEW b \in Path, NEW r \in Path, r # <<>>
  PROVE  b \o r # NoDir
<1>1. /\ b \o r \in Path /\ Len(b \o r) = Len(b) + Len(r)
      /\ Len(r) \in Nat \ {0} /\ Len(b) \in Nat
  BY Constants, Below1
<1>2. Len(b \o r) # 0
  BY <1>1
<1> QED
  BY <1>2, EmptySeq DEF NoDir

\* A folder that is not in the temporary one.
LEMMA AimedDirectly ==
  ASSUME NEW e \in Dialog, e.version.isDirectory, Last(e.path) # Tmp, e.folder \in Path,
         Outputs(e) = {e.folder \o x : x \in Entries(e)}
  PROVE  Aimed(e)
<1>1. \A x \in Entries(e) : e.folder \o x # NoDir
  BY EntryPath, NotEmpty
<1>2. ShownPlaces(e) = Outputs(e)
  BY DEF ShownPlaces
<1> QED
  BY <1>1, <1>2 DEF Aimed

LEMMA FolderAimed ==
  ASSUME NEW there, NEW work, NEW e \in Dialog, Listed(there, work, e, {})
  PROVE  Aimed(e)
<1> DEFINE folder == Append(e.dest, Source)
<1>1. /\ e.version.isDirectory /\ e.folder = folder
      /\ e.dest \in Seq(Names) /\ e.dest # NoDir /\ e.dest \in Path
      /\ \/ ~e.slash /\ e.path = e.dest
         \/ ~e.slash /\ e.path = Append(e.dest, Tmp)
         \/ e.slash /\ e.path = folder
         \/ e.slash /\ e.path = Append(folder, Tmp)
  BY Constants DEF Listed, DirIn
<1>2. folder \in Seq(Names) /\ folder \in Path /\ folder # NoDir
  BY <1>1, Constants, AppendProperties DEF NoDir
<1>3. folder = e.dest \o <<Source>> /\ <<Source>> \in Path /\ <<Source>> \in Seq(Names)
  <2>1. <<Source>> \in Seq(Names)
    BY Constants
  <2> QED
    BY <1>1, <2>1, NamesHere, OneMore
<1>4. \A x \in Entries(e) : x \in Path /\ x \in Seq(Names) /\ x # <<>>
  BY EntryPath
<1>5. /\ ShownPlaces(e) = {folder \o x : x \in Entries(e)} /\ Moved(e) = Outputs(e)
      /\ e.slash => Outputs(e) = {e.path \o x : x \in Entries(e)}
      /\ ~e.slash => Outputs(e) = {Append(e.path, Source) \o x : x \in Entries(e)}
  BY <1>1 DEF ShownPlaces, Moved, Outputs
<1> HIDE DEF folder
<1>6. CASE ~e.slash /\ e.path = e.dest
  <2>1. Last(e.path) # Tmp
    BY <1>1, <1>6, LastName
  <2>2. Append(e.path, Source) = e.folder
    BY <1>1, <1>6 DEF folder
  <2>3. Outputs(e) = {e.folder \o x : x \in Entries(e)} /\ e.folder \in Path
    BY <1>1, <1>2, <1>5, <1>6, <2>2
  <2> QED
    BY <1>1, <2>1, <2>3, AimedDirectly
<1>7. CASE e.slash /\ e.path = folder
  <2>1. Last(e.path) # Tmp
    BY <1>2, <1>7, LastName
  <2>2. Outputs(e) = {e.folder \o x : x \in Entries(e)} /\ e.folder \in Path
    BY <1>1, <1>2, <1>5, <1>7
  <2> QED
    BY <1>1, <2>1, <2>2, AimedDirectly
<1>8. CASE e.slash /\ e.path = Append(folder, Tmp)
  <2>1. e.path \in Path
    BY <1>2, <1>8, NamesHere, OneMore
  <2>2. NoDir \notin Outputs(e)
    <3>1. \A x \in Entries(e) : e.path \o x # NoDir
      BY <1>4, <2>1, NotEmpty
    <3> QED
      BY <1>5, <1>8, <3>1
  <2>3. Moved(e) = {e.path \o x : x \in Entries(e)}
    BY <1>5, <1>8
  <2>4. \A x \in Entries(e) : x \in Seq(Names) /\ x # <<>>
    BY <1>4
  <2>5. ShownPlaces(e) = {folder \o x : x \in Entries(e)}
    BY <1>5
  <2> QED
    BY <1>2, <1>8, <2>2, <2>3, <2>4, <2>5, AimedTmp
<1>9. CASE ~e.slash /\ e.path = Append(e.dest, Tmp)
  <2> DEFINE R == {<<Source>> \o x : x \in Entries(e)}
  <2>1. e.path \in Path /\ Append(e.path, Source) = e.path \o <<Source>>
        /\ Append(e.path, Source) \in Path
    <3>1. e.path \in Path
      BY <1>1, <1>9, NamesHere, OneMore
    <3> QED
      BY <3>1, NamesHere, OneMore
  <2>2. NoDir \notin Outputs(e)
    <3>1. \A x \in Entries(e) : Append(e.path, Source) \o x # NoDir
      BY <1>4, <2>1, NotEmpty
    <3> QED
      BY <1>5, <1>9, <3>1
  <2>3. ASSUME NEW x \in Entries(e)
        PROVE  /\ <<Source>> \o x \in Seq(Names) /\ <<Source>> \o x # <<>>
               /\ Append(e.path, Source) \o x = e.path \o (<<Source>> \o x)
               /\ folder \o x = e.dest \o (<<Source>> \o x)
    <3>1. x \in Path /\ x \in Seq(Names) /\ x # <<>>
      BY <1>4
    <3>2. <<Source>> \o x \in Seq(Names)
      BY <1>3, <3>1, ConcatProperties
    <3>3. <<Source>> \o x # <<>>
      BY <1>3, <3>1, NotEmpty DEF NoDir
    <3>4. (e.path \o <<Source>>) \o x = e.path \o (<<Source>> \o x)
      BY <1>3, <2>1, <3>1, Associative
    <3>5. (e.dest \o <<Source>>) \o x = e.dest \o (<<Source>> \o x)
      BY <1>1, <1>3, <3>1, Associative
    <3> QED
      BY <1>3, <2>1, <3>2, <3>3, <3>4, <3>5
  <2>4. Moved(e) = {e.path \o r : r \in R} /\ ShownPlaces(e) = {e.dest \o r : r \in R}
    <3>1. Moved(e) = {Append(e.path, Source) \o x : x \in Entries(e)}
      BY <1>5, <1>9
    <3> DEFINE From(x) == Append(e.path, Source) \o x
               To(x)   == folder \o x
               Rest(x) == <<Source>> \o x
               Up(q)   == e.dest \o q
               Down(q) == e.path \o q
    <3>2. \A x \in Entries(e) : From(x) = Down(Rest(x)) /\ To(x) = Up(Rest(x))
      BY <2>3
    <3>3. /\ Moved(e) = {From(x) : x \in Entries(e)} /\ R = {Rest(x) : x \in Entries(e)}
          /\ ShownPlaces(e) = {To(x) : x \in Entries(e)}
      BY <1>5, <3>1
    <3> HIDE DEF From, To, Rest, Up, Down, R
    <3>4. Moved(e) = {Down(q) : q \in R} /\ ShownPlaces(e) = {Up(q) : q \in R}
      BY <3>2, <3>3
    <3> QED
      BY <3>4 DEF Up, Down
  <2>5. \A r \in R : r \in Seq(Names) /\ r # <<>>
    BY <2>3
  <2> HIDE DEF R
  <2> QED
    BY <1>1, <1>9, <2>2, <2>4, <2>5, AimedTmp
<1> QED
  BY <1>1, <1>6, <1>7, <1>8, <1>9

LEMMA FileAimed ==
  ASSUME NEW there, NEW e \in Dialog, ~e.version.isDirectory,
         NEW place \in Names, NEW name \in Names, e.dest = <<place, name>>,
         LET direct == e.dest \notin DOMAIN there /\ Last(e.dest) = Source
         IN  e.path = IF direct THEN Front(e.dest) ELSE Append(Front(e.dest), Tmp)
  PROVE  Aimed(e)
<1> DEFINE dir == <<place>>
<1>1. /\ dir \in Seq(Names) /\ dir \in Path /\ dir # NoDir /\ e.dest = Append(dir, name)
      /\ <<name>> \in Path /\ <<name>> \in Seq(Names) /\ <<name>> # <<>>
  BY Constants DEF NoDir
<1>2. Front(e.dest) = dir /\ Last(e.dest) = name /\ e.dest = dir \o <<name>>
  <2> HIDE DEF dir
  <2>1. /\ Front(Append(dir, name)) = dir /\ Last(Append(dir, name)) = name
        /\ Append(dir, name) = dir \o <<name>>
    BY <1>1, OneMore
  <2> QED
    BY <1>1, <2>1
<1>3. /\ Outputs(e) = {Append(e.path, Source)} /\ Moved(e) = {Append(e.path, name)}
      /\ ShownPlaces(e) = {e.dest}
  BY <1>2 DEF Outputs, Moved, ShownPlaces
<1>4. e.path \in Path /\ Append(e.path, Source) # NoDir
      /\ Append(e.path, name) = e.path \o <<name>>
  <2>1. e.path \in Path /\ name \in Names \cup {Tmp}
    BY DEF Dialog
  <2> QED
    BY <2>1, NamesHere, OneMore
<1> HIDE DEF dir
<1>5. CASE e.dest \notin DOMAIN there /\ name = Source
  <2>1. e.path = dir
    BY <1>2, <1>5
  <2>2. Last(dir) # Tmp
    BY <1>1, LastName
  <2>3. Append(e.path, Source) = e.dest
    BY <1>1, <1>5, <2>1
  <2> QED
    BY <1>3, <1>4, <2>1, <2>2, <2>3 DEF Aimed
<1>6. CASE ~(e.dest \notin DOMAIN there /\ name = Source)
  <2> DEFINE R == {<<name>>}
  <2>1. e.path = Append(dir, Tmp)
    BY <1>2, <1>6
  <2>2. Moved(e) = {e.path \o r : r \in R} /\ ShownPlaces(e) = {dir \o r : r \in R}
    BY <1>2, <1>3, <1>4
  <2>3. NoDir \notin Outputs(e) /\ \A r \in R : r \in Seq(Names) /\ r # <<>>
    BY <1>1, <1>3, <1>4
  <2> HIDE DEF R
  <2> QED
    BY <1>1, <2>1, <2>2, <2>3, AimedTmp
<1> QED
  BY <1>5, <1>6

LEMMA NewNameAimed ==
  ASSUME NEW e \in Dialog, e.version.isDirectory, e.slash, e.path = e.folder,
         NEW dest \in Seq(Names), e.path = Append(dest, NewName)
  PROVE  Aimed(e)
<1>1. e.folder \in Path /\ Last(e.path) # Tmp
  <2>1. dest \in Path /\ NewName # Tmp
    BY Constants
  <2> QED
    BY <2>1, NamesHere, OneMore
<1>2. Outputs(e) = {e.folder \o x : x \in Entries(e)}
  BY DEF Outputs
<1> QED
  BY <1>1, <1>2, AimedDirectly

LEMMA SameAim ==
  ASSUME NEW e, NEW f, f.version = e.version, f.slash = e.slash, f.dest = e.dest,
         f.path = e.path, e.version.isDirectory => f.folder = e.folder
  PROVE  /\ ShownPlaces(f) = ShownPlaces(e)
         /\ Aimed(f) <=> Aimed(e)
         /\ Outputs(f) = Outputs(e) /\ Moved(f) = Moved(e)
<1>1. Outputs(f) = Outputs(e) /\ Moved(f) = Moved(e)
  BY SameReady
<1>2. ShownPlaces(f) = ShownPlaces(e)
  BY DEF ShownPlaces, Entries
<1> QED
  BY <1>1, <1>2 DEF Aimed

\* The result and the folder that the calls leave alone.
LEMMA StartLeaves ==
  ASSUME NEW e \in Dialog, NEW agreed \in SUBSET Path
  PROVE  StartRestoring(e, agreed).result = e.result /\ StartRestoring(e, agreed).folder = e.folder
BY DEF StartRestoring, Dialog

LEMMA PrechecksLeave ==
  ASSUME NEW e \in Dialog, NEW space \in BOOLEAN
  PROVE  /\ CompletePrechecks(e, space).result = e.result
         /\ CompletePrechecks(e, space).folder = e.folder
<1>1. {} \in SUBSET Path
  OBVIOUS
<1>2. StartRestoring(e, {}).result = e.result /\ StartRestoring(e, {}).folder = e.folder
  BY <1>1, StartLeaves
<1>3. /\ [e EXCEPT !.page = "conflict"].result = e.result
      /\ [e EXCEPT !.page = "conflict"].folder = e.folder
  BY DEF Dialog
<1> QED
  BY <1>2, <1>3 DEF CompletePrechecks

LEMMA FirstChecksLeave ==
  ASSUME NEW e \in Dialog
  PROVE  /\ StartFilePrechecks(e).result = e.result
         /\ StartFolderPrechecks(e).result = e.result
BY DEF StartFilePrechecks, StartFolderPrechecks, Dialog

\* A job begins with everything left to do.
LEMMA StartOnTheWay ==
  ASSUME NEW there, NEW d, NEW e \in Dialog, e.jobs = <<>>, e.result = "none", Aimed(e),
         ~e.version.isDirectory => ~e.slash, NEW agreed \in SUBSET Path
  PROVE  OnTheWay(there, d, StartRestoring(e, agreed))
<1> DEFINE f == StartRestoring(e, agreed)
           j == [phase |-> "restoring", path |-> e.path, slash |-> e.slash,
                 left |-> IF e.version.isDirectory THEN Entries(e) ELSE {<<>>},
                 agreed |-> agreed]
<1>1. /\ f.page = "restoring" /\ f.jobs = Append(<<>>, j)
      /\ f.version = e.version /\ f.slash = e.slash /\ f.dest = e.dest
      /\ f.path = e.path /\ f.result = "none" /\ f.folder = e.folder
  BY RestoringKeeps, StartLeaves
<1>2. \A p \in Outputs(e) : \E x \in j.left : p = Root(j) \o x
  <2>1. CASE e.version.isDirectory
    BY <2>1 DEF Root, Outputs
  <2>2. CASE ~e.version.isDirectory
    <3>1. Root(j) = Append(e.path, Source) /\ j.left = {<<>>} /\ Outputs(e) = {Append(e.path, Source)}
      BY <2>2 DEF Root, Outputs
    <3>2. Append(e.path, Source) \o <<>> = Append(e.path, Source)
      <4>1. Append(e.path, Source) \in Path
        BY NamesHere, OneMore DEF Dialog
      <4> QED
        BY <4>1, Constants, ConcatEmptySeq
    <3> QED
      BY <3>1, <3>2
  <2> QED
    BY <2>1, <2>2
<1>3. f.jobs # <<>> /\ f.jobs[1] = j /\ j.phase = "restoring"
  BY <1>1
<1> HIDE DEF f, j
<1>4. Aimed(f) /\ Outputs(f) = Outputs(e)
  BY <1>1, SameAim
<1>5. Underway(there, d, f, j)
  BY <1>1, <1>2, <1>3, <1>4 DEF Underway
<1>6. OnTheWay(there, d, f)
  BY <1>1, <1>3, <1>5 DEF OnTheWay
<1> QED
  BY <1>6 DEF f

LEMMA PrechecksOnTheWay ==
  ASSUME NEW there, NEW d, NEW e \in Dialog, e.page \in {"choose", "custom"},
         e.jobs = <<>>, e.result = "none", Aimed(e), ~e.version.isDirectory => ~e.slash,
         NEW space \in BOOLEAN
  PROVE  OnTheWay(there, d, CompletePrechecks(e, space))
<1> DEFINE f == CompletePrechecks(e, space)
<1>1. /\ f.version = e.version /\ f.slash = e.slash /\ f.dest = e.dest /\ f.path = e.path
      /\ f.result = e.result /\ f.folder = e.folder
      /\ \/ f = e
         \/ f.page = "conflict" /\ f.jobs = e.jobs
         \/ e.conflicts = {} /\ f = StartRestoring(e, {})
  BY PrechecksKeep, PrechecksLeave
<1> HIDE DEF f
<1>2. Aimed(f)
  BY <1>1, SameAim
<1>3. CASE f = StartRestoring(e, {})
  <2>1. {} \in SUBSET Path
    OBVIOUS
  <2> QED
    BY <1>3, <2>1, StartOnTheWay DEF f
<1>4. CASE f.jobs = e.jobs
  <2>1. OnTheWay(there, d, f)
    BY <1>1, <1>2, <1>4 DEF OnTheWay
  <2> QED
    BY <2>1 DEF f
<1> QED
  BY <1>1, <1>3, <1>4

LEMMA StartPrechecksOnTheWay ==
  ASSUME TypeOK, NEW d \in Dialogs, NEW e \in Dialog, NEW space \in BOOLEAN,
         e.page \in {"choose", "custom"}, e.jobs = <<>>, e.result = "none", ~e.slash,
         ~e.version.isDirectory => \E place, name \in Names : e.dest = <<place, name>>,
         StartPrechecks(d, e, space)
  PROVE  OnTheWay(disk', d, dialog'[d])
<1>1. CASE e.version.isDirectory
  <2>1. dialog'[d] = StartFolderPrechecks(e)
    BY <1>1 DEF StartPrechecks, TypeOK
  <2>2. /\ StartFolderPrechecks(e).jobs = <<>> /\ StartFolderPrechecks(e).result = "none"
        /\ StartFolderPrechecks(e).page # "conflict"
    BY FolderKeeps, FirstChecksLeave
  <2> QED
    BY <2>1, <2>2 DEF OnTheWay
<1>2. CASE ~e.version.isDirectory
  <2> DEFINE f == StartFilePrechecks(e)
  <2>1. dialog'[d] = CompletePrechecks(f, space)
    BY <1>2 DEF StartPrechecks, TypeOK
  <2>2. PICK place \in Names, name \in Names : e.dest = <<place, name>>
    BY <1>2
  <2>3. /\ f \in Dialog /\ f.version = e.version /\ f.slash = e.slash /\ f.dest = e.dest
        /\ f.page = e.page /\ f.jobs = <<>> /\ f.result = "none"
        /\ LET direct == e.dest \notin DOMAIN disk /\ Last(e.dest) = Source
           IN  f.path = IF direct THEN Front(e.dest) ELSE Append(Front(e.dest), Tmp)
    BY FileKeeps, FilePrechecksTyped, FirstChecksLeave DEF Exists
  <2> HIDE DEF f
  <2>4. Aimed(f)
    BY <1>2, <2>2, <2>3, FileAimed
  <2>5. OnTheWay(disk', d, CompletePrechecks(f, space))
    BY <1>2, <2>3, <2>4, PrechecksOnTheWay
  <2> QED
    BY <2>1, <2>5
<1> QED
  BY <1>1, <1>2

LEMMA UserOnTheWay ==
  ASSUME ~Impatient, ~SecondThoughts, TypeOK, NEW d \in Dialogs,
         Fine(disk, cwd, dialog[d]), OnTheWay(disk, d, dialog[d]), User(d)
  PROVE  OnTheWay(disk', d, dialog'[d])
<1> DEFINE e == dialog[d]
<1>0. e \in Dialog /\ e.dest \in Path /\ e.conflicts \in SUBSET Path /\ e.slash \in BOOLEAN
  BY DEF TypeOK, Dialog
<1>d. \A f : dialog' = [dialog EXCEPT ![d] = f] => dialog'[d] = f
  BY DEF TypeOK
<1>c. e.page \in Choice => /\ e.jobs = <<>> /\ e.result = "none"
                           /\ ~e.version.isDirectory => ~e.slash
  BY DEF Fine, Choosing, Choice, OnTheWay
<1>1. CASE \E v \in Versions : Open(d, v)
  <2>1. PICK v \in Versions : dialog'[d] = NewDialog(v)
    BY <1>1, <1>d DEF Open
  <2> QED
    BY <2>1 DEF NewDialog, OnTheWay
<1>2. CASE Close(d)
  <2> DEFINE f == [e EXCEPT !.page = "closed", !.listings = <<>>]
  <2>1. dialog'[d] = f /\ disk' = disk
    BY <1>2, <1>0 DEF Close, TypeOK, Dialog
  <2>2. /\ f.page = "closed" /\ f.jobs = e.jobs /\ f.result = e.result /\ f.folder = e.folder
        /\ f.version = e.version /\ f.slash = e.slash /\ f.dest = e.dest /\ f.path = e.path
    BY <1>0 DEF Dialog
  <2> HIDE DEF f
  <2>3. /\ ShownPlaces(f) = ShownPlaces(e) /\ (Aimed(f) <=> Aimed(e))
        /\ Outputs(f) = Outputs(e) /\ Moved(f) = Moved(e)
    BY <2>2, SameAim
  <2>4. e.jobs # <<>> => Underway(disk, d, f, e.jobs[1])
    BY <2>2, <2>3 DEF OnTheWay, Underway
  <2>5. OnTheWay(disk, d, f)
    BY <2>2, <2>4 DEF OnTheWay
  <2> QED
    BY <2>1, <2>5
<1>3. CASE Back(d) \/ SetCustomDestination(d)
  <2>1. PICK page \in {"choose", "custom"} : dialog'[d] = [e EXCEPT !.page = page]
    BY <1>3 DEF Back, SetCustomDestination, TypeOK
  <2>2. e.page \in Choice
    BY <1>3 DEF Back, SetCustomDestination, Shows, Choice
  <2>3. dialog'[d].page = page /\ dialog'[d].jobs = e.jobs /\ dialog'[d].result = e.result
    BY <1>0, <2>1 DEF Dialog
  <2> QED
    BY <1>c, <2>2, <2>3 DEF OnTheWay
<1>5. CASE \E space \in BOOLEAN : SetOriginalDestination(d, space)
  <2> DEFINE f == [e EXCEPT !.slash = FALSE, !.dest = <<Home>>]
             g == [e EXCEPT !.dest = <<Home, Source>>]
             h == IF e.version.isDirectory THEN f ELSE g
  <2>1. PICK space \in BOOLEAN : StartPrechecks(d, h, space) /\ Shows(e, "choose")
    BY <1>5 DEF SetOriginalDestination
  <2>2. e.page = "choose" /\ e.jobs = <<>> /\ e.result = "none"
        /\ (~e.version.isDirectory => ~e.slash)
    BY <1>c, <2>1 DEF Shows, Choice
  <2>3. <<Home>> \in Path /\ <<Home, Source>> \in Path /\ Home \in Names /\ Source \in Names
    BY Constants
  <2>4. /\ h \in Dialog /\ h.page = "choose" /\ h.jobs = <<>> /\ h.result = "none" /\ ~h.slash
        /\ h.version = e.version
        /\ ~e.version.isDirectory => h.dest = <<Home, Source>>
    BY <1>0, <2>2, <2>3 DEF Dialog
  <2> HIDE DEF h
  <2> QED
    BY <2>1, <2>3, <2>4, StartPrechecksOnTheWay
<1>6. CASE \E place \in Places, name \in {Source, NewName} : CreateNewFolder(d, place, name)
  <2>1. UNCHANGED dialog /\ e.page = "custom"
    BY <1>6 DEF CreateNewFolder, Shows
  <2> QED
    BY <1>c, <2>1 DEF Choice, OnTheWay
<1>7. CASE \E folder \in DOMAIN disk : CheckFolderSelection(d, folder)
  <2>1. PICK folder \in DOMAIN disk : CheckFolderSelection(d, folder)
    BY <1>7
  <2> DEFINE f == [e EXCEPT !.dest = folder]
  <2>2. /\ StartPrechecks(d, f, TRUE) /\ folder \in Path
        /\ e.page = "custom" /\ e.version.isDirectory /\ ~e.slash
    BY <2>1 DEF CheckFolderSelection, TypeOK, Shows
  <2>3. e.jobs = <<>> /\ e.result = "none"
    BY <1>c, <2>2 DEF Choice
  <2>4. /\ f \in Dialog /\ f.page = "custom" /\ f.jobs = <<>> /\ f.result = "none" /\ ~f.slash
        /\ f.version.isDirectory
    BY <1>0, <2>2, <2>3 DEF Dialog
  <2> HIDE DEF f
  <2> QED
    BY <2>2, <2>4, StartPrechecksOnTheWay
<1>8. CASE \E place \in Places, name \in {Source, NewName}, space \in BOOLEAN :
             CheckFileSelection(d, place, name, space)
  <2>1. PICK place \in Places, name \in {Source, NewName}, space \in BOOLEAN :
           CheckFileSelection(d, place, name, space)
    BY <1>8
  <2> DEFINE f == [e EXCEPT !.accepting = @ + 1, !.dest = <<place, name>>]
             g == StartFilePrechecks(f)
  <2>2. <<place, name>> \in Path /\ e.accepting + 1 \in Nat /\ place \in Names /\ name \in Names
    BY <1>0, <2>1, Constants DEF Dialog
  <2>3. /\ f \in Dialog /\ f.page = e.page /\ f.jobs = e.jobs /\ f.result = e.result
        /\ f.slash = e.slash /\ f.version = e.version /\ f.dest = <<place, name>>
    BY <1>0, <2>2 DEF Dialog
  <2>4. /\ f.page = "custom" /\ ~f.version.isDirectory
        /\ dialog'[d] = CompletePrechecks(g, space)
    BY <2>1, <1>d DEF CheckFileSelection, Shows
  <2> HIDE DEF f
  <2>5. e.jobs = <<>> /\ e.result = "none" /\ ~e.slash
    BY <1>c, <2>3, <2>4 DEF Choice
  <2>6. /\ g \in Dialog /\ g.version = f.version /\ g.slash = f.slash /\ g.dest = f.dest
        /\ g.page = f.page /\ g.jobs = f.jobs /\ g.result = f.result
        /\ LET direct == f.dest \notin DOMAIN disk /\ Last(f.dest) = Source
           IN  g.path = IF direct THEN Front(f.dest) ELSE Append(Front(f.dest), Tmp)
    BY <2>3, FileKeeps, FilePrechecksTyped, FirstChecksLeave DEF Exists
  <2> HIDE DEF g
  <2>7. Aimed(g)
    BY <2>2, <2>3, <2>4, <2>6, FileAimed
  <2>8. OnTheWay(disk', d, CompletePrechecks(g, space))
    BY <2>3, <2>4, <2>5, <2>6, <2>7, PrechecksOnTheWay
  <2> QED
    BY <2>4, <2>8
<1>9. CASE ConfirmOverwrite(d)
  <2>1. dialog'[d] = StartRestoring(e, e.conflicts) /\ e.page = "conflict"
    BY <1>9, <1>d DEF ConfirmOverwrite, Shows
  <2>2. /\ Aimed(e) /\ e.jobs = <<>> /\ e.result = "none"
        /\ ~e.version.isDirectory => ~e.slash
    BY <1>c, <2>1 DEF OnTheWay, Choice
  <2>3. OnTheWay(disk', d, StartRestoring(e, e.conflicts))
    BY <1>0, <2>2, StartOnTheWay
  <2> QED
    BY <2>1, <2>3
<1>10. CASE ConfirmNewName(d)
  <2> DEFINE folder == Append(e.dest, NewName)
             f == [e EXCEPT !.folder = folder, !.path = folder, !.slash = TRUE]
  <2>1. folder \in Path
    BY <1>0, Constants, AppendProperties
  <2>2. /\ dialog'[d] = StartRestoring(f, {})
        /\ e.page = "conflict" /\ e.version.isDirectory
    BY <1>10, <1>d DEF ConfirmNewName, Shows
  <2>3. e.jobs = <<>> /\ e.result = "none" /\ e.dest \in Seq(Names)
    BY <1>c, <2>2 DEF Fine, Choosing, Choice
  <2>4. /\ f \in Dialog /\ f.version = e.version /\ f.slash /\ f.jobs = <<>>
        /\ f.result = "none" /\ f.path = folder /\ f.folder = folder
    BY <1>0, <2>1, <2>2, <2>3 DEF Dialog
  <2> HIDE DEF f
  <2>5. Aimed(f)
    BY <2>2, <2>3, <2>4, NewNameAimed
  <2>6. {} \in SUBSET Path
    OBVIOUS
  <2>7. OnTheWay(disk', d, StartRestoring(f, {}))
    BY <2>2, <2>4, <2>5, <2>6, StartOnTheWay
  <2> QED
    BY <2>2, <2>7
<1> QED
  BY <1>1, <1>2, <1>3, <1>5, <1>6, <1>7, <1>8, <1>9, <1>10 DEF User

\* What a change of phase leaves alone.
LEMMA PhaseLeaves ==
  ASSUME TypeOK, NEW d \in Dialogs, NEW i \in DOMAIN dialog[d].jobs,
         NEW phase \in {"renaming", "moving", "done"}, NEW result \in {"failed", "restored"}
  PROVE  LET e == dialog[d]
         IN  /\ [e EXCEPT !.jobs[i].phase = phase].result = e.result
             /\ [e EXCEPT !.jobs[i].phase = phase, !.jobs[i].path = e.path].result = e.result
             /\ Finished(e, i, result).result = result
             /\ [e EXCEPT !.result = "failed", !.jobs[i].phase = "done"].result = "failed"
<1>1. dialog[d] \in Dialog
  BY DEF TypeOK
<1> QED
  BY <1>1 DEF Finished, Dialog

LEMMA PhaseOnTheWay ==
  ASSUME NEW e, Aimed(e), NEW f, NEW phases, Rephased(e, f, 1, phases), NEW now, NEW d,
         f.jobs[1].phase # "restoring",
         f.jobs[1].phase = "renaming" => \A p \in Outputs(e) : At(now, p, d),
         f.jobs[1].phase = "moving" =>
           \A m \in Moved(e) : At(now, m, d) \/ At(now, Target(e.path, m), d),
         f.result = "restored" =>
           /\ f.jobs[1].phase = "done"
           /\ \A p \in ShownPlaces(e) : At(now, p, d)
           /\ Last(e.path) = Tmp => e.path \notin DOMAIN now
  PROVE  OnTheWay(now, d, f)
<1>1. /\ f.version = e.version /\ f.slash = e.slash /\ f.dest = e.dest /\ f.path = e.path
      /\ f.folder = e.folder /\ 1 \in DOMAIN f.jobs
  BY DEF Rephased
<1>2. f.jobs # <<>>
  BY <1>1
<1>3. /\ ShownPlaces(f) = ShownPlaces(e) /\ Aimed(f)
      /\ Outputs(f) = Outputs(e) /\ Moved(f) = Moved(e)
  BY <1>1, SameAim
<1>4. Underway(now, d, f, f.jobs[1])
  BY <1>1, <1>3 DEF Underway
<1> QED
  BY <1>2, <1>3, <1>4 DEF OnTheWay

\* What is there after a write, and after something was taken away.
LEMMA StillAt ==
  ASSUME NEW there, NEW p, NEW d, At(there, p, d), NEW path \in Path
  PROVE  At(WithFile(there, path, d), p, d)
<1> DEFINE new == WithFile(there, path, d)
<1>1. /\ DOMAIN there \subseteq DOMAIN new
      /\ path \in DOMAIN new => new[path] = d
      /\ \A q \in DOMAIN new \ {path} : new[q] = IF q \in DOMAIN there THEN there[q] ELSE "dir"
  BY FileWritten
<1> HIDE DEF new
<1>2. p \in DOMAIN new /\ new[p] = d
  BY <1>1 DEF At
<1> QED
  BY <1>2 DEF At, new

LEMMA NowAt ==
  ASSUME NEW there, NEW d, NEW path \in Path, path # NoDir
  PROVE  At(WithFile(there, path, d), path, d)
BY FileWritten DEF At

LEMMA LeftAt ==
  ASSUME NEW there, NEW p, NEW d, At(there, p, d), NEW paths, p \notin paths
  PROVE  At(Without(there, paths), p, d)
BY DEF At, Without

LEMMA RestoreEntryOnTheWay ==
  ASSUME TypeOK, NEW d \in Dialogs, Fine(disk, cwd, dialog[d]), OnTheWay(disk, d, dialog[d]),
         NEW i, RestoreEntry(d, i)
  PROVE  OnTheWay(disk', d, dialog'[d])
<1> DEFINE e == dialog[d]
           j == e.jobs[1]
<1>0. i \in DOMAIN e.jobs /\ e \in Dialog
  BY DEF RestoreEntry, TypeOK
<1>1. i = 1 /\ e.jobs # <<>> /\ Len(e.jobs) = 1 /\ JobFine(disk, e, j)
  BY <1>0, OnlyJob
<1>2. j \in Job /\ \A k \in Job : [e.jobs EXCEPT ![i] = k] \in Seq(Job)
  BY <1>0, <1>1, JobTyped
<1>3. PICK entry \in j.left :
        /\ Write(disk, Root(j) \o entry, d, j.agreed)
        /\ dialog' = [dialog EXCEPT ![d].jobs[i].left = @ \ {entry}]
        /\ j.phase = "restoring"
  BY <1>1 DEF RestoreEntry
<1> DEFINE p == Root(j) \o entry
           k == [j EXCEPT !.left = j.left \ {entry}]
<1>4. p \in Path /\ p \in Outputs(e)
  <2>1. j.path \in Path /\ entry \in Path
    BY <1>2, <1>3 DEF Job
  <2>2. Root(j) \in Path
    BY <2>1, Constants, AppendProperties DEF Root
  <2>3. p \in Path
    BY <2>1, <2>2, Constants, ConcatProperties
  <2> QED
    BY <1>1, <1>3, <2>3 DEF JobFine
<1>5. Underway(disk, d, e, j)
  BY <1>1 DEF OnTheWay
<1>6. disk' = WithFile(disk, p, d)
  BY <1>3 DEF Write
<1>7. /\ k.path = j.path /\ k.slash = j.slash /\ k.left = j.left \ {entry}
      /\ k.phase = "restoring" /\ k \in Job
  BY <1>2, <1>3 DEF Job
<1>8. p # NoDir
  BY <1>4, <1>5 DEF Underway, Aimed
<1>9. Root(k) = Root(j)
  BY <1>7 DEF Root
<1>10. ASSUME NEW q \in Outputs(e)
       PROVE  At(disk', q, d) \/ \E x \in k.left : q = Root(k) \o x
  <2>1. At(disk', p, d)
    BY <1>4, <1>6, <1>8, NowAt
  <2>2. At(disk, q, d) => At(disk', q, d)
    BY <1>4, <1>6, StillAt
  <2>3. At(disk, q, d) \/ \E x \in j.left : q = Root(j) \o x
    BY <1>3, <1>5 DEF Underway
  <2> QED
    BY <1>7, <1>9, <2>1, <2>2, <2>3
<1> HIDE DEF k
<1>11. LET f == dialog'[d]
       IN  /\ f.page = e.page /\ f.result = e.result /\ f.folder = e.folder
           /\ f.version = e.version /\ f.slash = e.slash /\ f.dest = e.dest /\ f.path = e.path
           /\ f.jobs # <<>> /\ f.jobs[1] = k
  <2>1. dialog'[d] = [e EXCEPT !.jobs = [e.jobs EXCEPT ![i] = k]]
    BY <1>0, <1>1, <1>2, <1>3 DEF TypeOK, Dialog, k
  <2> DEFINE s == [e.jobs EXCEPT ![i] = k]
  <2>2. Len(s) = 1 /\ s[1] = k
    <3>1. e.jobs \in Seq(Job) /\ i \in 1..Len(e.jobs)
      BY <1>0, <1>1 DEF Dialog
    <3> QED
      BY <1>1, <1>7, <3>1, ExceptSeq
  <2> HIDE DEF s
  <2>3. s # <<>>
    <3> SUFFICES ASSUME s = <<>>  PROVE FALSE
      OBVIOUS
    <3>1. Len(<<>>) = 0
      BY EmptySeq
    <3>2. Len(s) = 0
      BY <3>1, Zenon
    <3> QED
      BY <2>2, <3>2
  <2> QED
    BY <1>0, <2>1, <2>2, <2>3 DEF Dialog, s
<1> HIDE DEF j, p
<1> DEFINE f == dialog'[d]
<1> HIDE DEF f
<1>12. Aimed(f) /\ Outputs(f) = Outputs(e)
  BY <1>5, <1>11, SameAim DEF Underway, f
<1>13. e.result # "restored"
  BY <1>3, <1>5 DEF Underway
<1>14. Underway(disk', d, f, k)
  BY <1>7, <1>10, <1>11, <1>12, <1>13 DEF Underway, f
<1>15. OnTheWay(disk', d, f)
  BY <1>11, <1>12, <1>14 DEF OnTheWay, f
<1> QED
  BY <1>15 DEF f

LEMMA RestoringOnTheWay ==
  ASSUME TypeOK, NEW d \in Dialogs, Fine(disk, cwd, dialog[d]), OnTheWay(disk, d, dialog[d]),
         NEW i, NEW error \in BOOLEAN, RestoringCompleted(d, i, error)
  PROVE  OnTheWay(disk', d, dialog'[d])
<1> DEFINE e == dialog[d]
           r == [e EXCEPT !.jobs[i].phase = "renaming", !.jobs[i].path = e.path]
           done == [e EXCEPT !.jobs[i].phase = "done"]
           failed == Finished(e, i, "failed")
           moved == MoveFolder(e, i)
<1>0. /\ i \in DOMAIN e.jobs /\ e \in Dialog /\ disk' = disk
      /\ e.jobs[i].phase = "restoring"
  BY DEF RestoringCompleted, TypeOK
<1>1. i = 1 /\ e.jobs # <<>> /\ Len(e.jobs) = 1 /\ JobFine(disk, e, e.jobs[1])
  BY <1>0, OnlyJob
<1>2. /\ Underway(disk, d, e, e.jobs[1]) /\ e.result # "restored"
      /\ Aimed(e)
  BY <1>0, <1>1 DEF OnTheWay, Underway
<1>3. \/ dialog'[d] = done
      \/ dialog'[d] = failed
      \/ /\ e.jobs[1].left = {}
         /\ \/ dialog'[d] = r
            \/ /\ dialog'[d] = moved
               /\ e.version.isDirectory \/ Last(e.dest) = Source
  BY <1>1 DEF RestoringCompleted, TypeOK
<1>4. /\ Rephased(e, done, i, {"done"}) /\ Rephased(e, failed, i, {"done"})
      /\ Rephased(e, r, i, {"renaming"}) /\ Rephased(e, moved, i, {"done", "moving"})
  BY <1>0, PhaseKeeps, MoveFolderKeeps
<1>5. /\ done.result = e.result /\ failed.result = "failed" /\ r.result = e.result
      /\ [e EXCEPT !.jobs[i].phase = "moving", !.jobs[i].path = e.path].result = e.result
      /\ Finished(e, i, "restored").result = "restored"
  BY <1>0, PhaseLeaves
<1>6. e.jobs[1].left = {} => \A p \in Outputs(e) : At(disk, p, d)
  BY <1>0, <1>1, <1>2 DEF Underway
<1>7. e.version.isDirectory \/ Last(e.dest) = Source => Moved(e) = Outputs(e)
  BY DEF Moved, Outputs
<1>8. /\ Last(e.path) = Tmp => moved.jobs[i].phase = "moving" /\ moved.result = e.result
      /\ Last(e.path) # Tmp => moved.jobs[i].phase = "done"
  <2>1. CASE Last(e.path) = Tmp
    <3> DEFINE m == [e EXCEPT !.jobs[i].phase = "moving", !.jobs[i].path = e.path]
    <3>1. moved = m
      BY <2>1 DEF MoveFolder
    <3>2. Rephased(e, m, i, {"moving"})
      BY <1>0, PhaseKeeps
    <3> QED
      BY <1>5, <2>1, <3>1, <3>2 DEF Rephased
  <2>2. CASE Last(e.path) # Tmp
    <3>1. moved = Finished(e, i, "restored")
      BY <2>2 DEF MoveFolder
    <3>2. Rephased(e, Finished(e, i, "restored"), i, {"done"})
      BY <1>0, PhaseKeeps
    <3> QED
      BY <2>2, <3>1, <3>2 DEF Rephased
  <2> QED
    BY <2>1, <2>2
<1>9. e.jobs[1].left = {} /\ Last(e.path) # Tmp => \A p \in ShownPlaces(e) : At(disk, p, d)
  BY <1>2, <1>6 DEF Aimed
<1> HIDE DEF r, done, failed, moved
<1>10. done.jobs[1].phase = "done" /\ failed.jobs[1].phase = "done" /\ r.jobs[1].phase = "renaming"
  BY <1>1, <1>4 DEF Rephased
<1>11. OnTheWay(disk, d, done)
  BY <1>1, <1>2, <1>4, <1>5, <1>10, PhaseOnTheWay
<1>12. OnTheWay(disk, d, failed)
  BY <1>1, <1>2, <1>4, <1>5, <1>10, PhaseOnTheWay
<1>13. e.jobs[1].left = {} => OnTheWay(disk, d, r)
  BY <1>1, <1>2, <1>4, <1>5, <1>6, <1>10, PhaseOnTheWay
<1>14. e.jobs[1].left = {} /\ (e.version.isDirectory \/ Last(e.dest) = Source)
         => OnTheWay(disk, d, moved)
  <2> SUFFICES ASSUME e.jobs[1].left = {}, e.version.isDirectory \/ Last(e.dest) = Source
               PROVE  OnTheWay(disk, d, moved)
    OBVIOUS
  <2>1. CASE Last(e.path) = Tmp
    <3>1. moved.jobs[1].phase = "moving" /\ moved.result # "restored"
      BY <1>1, <1>2, <1>8, <2>1
    <3>2. \A m \in Moved(e) : At(disk, m, d)
      BY <1>6, <1>7
    <3> QED
      BY <1>1, <1>2, <1>4, <3>1, <3>2, PhaseOnTheWay
  <2>2. CASE Last(e.path) # Tmp
    <3>1. moved.jobs[1].phase = "done"
      BY <1>1, <1>8, <2>2
    <3>2. \A p \in ShownPlaces(e) : At(disk, p, d)
      BY <1>9, <2>2
    <3> QED
      BY <1>1, <1>2, <1>4, <2>2, <3>1, <3>2, PhaseOnTheWay
  <2> QED
    BY <2>1, <2>2
<1> QED
  BY <1>0, <1>3, <1>11, <1>12, <1>13, <1>14

LEMMA FileMoveOnTheWay ==
  ASSUME TypeOK, AllFiled, NEW d \in Dialogs, Fine(disk, cwd, dialog[d]),
         OnTheWay(disk, d, dialog[d]), NEW i, NEW error \in BOOLEAN, FileMoveCompleted(d, i, error)
  PROVE  OnTheWay(disk', d, dialog'[d])
<1> DEFINE e == dialog[d]
           failed == [e EXCEPT !.result = "failed", !.jobs[i].phase = "done"]
           done == [e EXCEPT !.jobs[i].phase = "done"]
           m == [e EXCEPT !.jobs[i].phase = "moving", !.jobs[i].path = e.path]
           from == Append(e.path, Source)
           to == Append(e.path, Last(e.dest))
           rest == Without(disk, {from})
           new == WithFile(rest, to, disk[from])
<1>0. i \in DOMAIN e.jobs /\ e \in Dialog /\ e.jobs[i].phase = "renaming"
  BY DEF FileMoveCompleted, TypeOK
<1>1. i = 1 /\ e.jobs # <<>> /\ Len(e.jobs) = 1 /\ JobFine(disk, e, e.jobs[1])
  BY <1>0, OnlyJob
<1>2. /\ e.jobs[i].path = e.path /\ ~e.version.isDirectory /\ Last(e.path) = Tmp
      /\ Aimed(e) /\ e.result # "restored" /\ \A p \in Outputs(e) : At(disk, p, d)
  BY <1>0, <1>1 DEF JobFine, OnTheWay, Underway
<1>3. /\ Rephased(e, done, i, {"done"}) /\ Rephased(e, failed, i, {"done"})
      /\ Rephased(e, m, i, {"moving"})
  BY <1>0, PhaseKeeps
<1>4. done.result = e.result /\ failed.result = "failed" /\ m.result = e.result
  BY <1>0, PhaseLeaves
<1>5. \/ dialog'[d] = failed
      \/ /\ disk' = new
         /\ dialog'[d] = done \/ dialog'[d] = m
  <2>1. CASE error
    BY <1>0, <2>1 DEF FileMoveCompleted, TypeOK, Dialog
  <2>2. CASE ~error
    BY <1>2, <2>2 DEF FileMoveCompleted, MoveFolder, Exists, TypeOK
  <2> QED
    BY <2>1, <2>2
<1>6. to \in Path /\ to # NoDir
  <2>1. e.dest \in Path /\ e.path \in Path /\ e.dest # NoDir
    BY <1>0, <1>1, <1>2 DEF AllFiled, Filed, Dialog
  <2>2. Last(e.dest) \in AnyName
    BY <2>1, Constants, LenProperties, EmptySeq, ElementOfSeq DEF Last, NoDir
  <2> QED
    BY <2>1, <2>2, Constants, AppendProperties DEF NoDir
<1>7. Outputs(e) = {from} /\ Moved(e) = {to}
  BY <1>2 DEF Outputs, Moved
<1>8. disk[from] = d
  BY <1>2, <1>7 DEF At
<1> HIDE DEF done, failed, m, to, rest
<1>9. At(new, to, d)
  BY <1>6, <1>8, NowAt
<1>10. \A p \in Moved(e) : At(new, p, d)
  BY <1>7, <1>9
<1> HIDE DEF new
<1>11. /\ done.jobs[1].phase = "done" /\ failed.jobs[1].phase = "done"
       /\ m.jobs[1].phase = "moving"
  BY <1>1, <1>3 DEF Rephased
<1>12. OnTheWay(disk', d, failed)
  BY <1>1, <1>2, <1>3, <1>4, <1>11, PhaseOnTheWay
<1>13. OnTheWay(disk', d, done)
  BY <1>1, <1>2, <1>3, <1>4, <1>11, PhaseOnTheWay
<1>14. OnTheWay(new, d, m)
  BY <1>1, <1>2, <1>3, <1>4, <1>10, <1>11, PhaseOnTheWay
<1> QED
  BY <1>5, <1>12, <1>13, <1>14

LEMMA MoveEntryOnTheWay ==
  ASSUME OneDialog, TypeOK, NEW d \in Dialogs, Fine(disk, cwd, dialog[d]),
         OnTheWay(disk, d, dialog[d]), NEW i, MoveEntry(d, i)
  PROVE  OnTheWay(disk', d, dialog'[d])
<1> DEFINE e == dialog[d]
           j == e.jobs[1]
<1>0. i \in DOMAIN e.jobs /\ e \in Dialog /\ UNCHANGED dialog
  BY DEF MoveEntry, TypeOK
<1>1. i = 1 /\ e.jobs # <<>> /\ Len(e.jobs) = 1 /\ JobFine(disk, e, j)
  BY <1>0, OnlyJob
<1>2. /\ j.path = e.path /\ j.phase = "moving" /\ Last(e.path) = Tmp
      /\ Ready(disk, e, j.agreed) /\ Underway(disk, d, e, j) /\ Aimed(e)
  BY <1>1 DEF JobFine, MoveEntry, OnTheWay, Underway
<1>3. PICK p \in FilesIn(disk, e.path) :
        Write(Without(disk, {p}), Target(e.path, p), disk[p], j.agreed)
  BY <1>1, <1>2 DEF MoveEntry, FilesBelow, Below, FilesIn, Target
<1> DEFINE to == Target(e.path, p)
           rest == Without(disk, {p})
<1>4. disk[p] # "user" /\ p \in Moved(e)
  BY <1>1, <1>2 DEF JobFine
<1>5. disk[p] = d
  <2>1. p \in DOMAIN disk /\ disk[p] # "dir"
    BY DEF FilesIn
  <2>2. disk[p] \in Dialogs
    BY <1>4, <2>1 DEF TypeOK
  <2> QED
    BY <2>2 DEF OneDialog
<1>6. disk' = WithFile(rest, to, d)
  BY <1>3, <1>5 DEF Write
<1>7. to # NoDir
  BY <1>2, <1>4 DEF Aimed
<1>8. to \in Path
  <2>1. p \in Path /\ e.path \in Path
    BY <1>0 DEF FilesIn, TypeOK, Dialog
  <2>2. Len(e.path) \in Nat /\ Len(p) \in Nat
    BY <2>1, Constants, LenProperties
  <2>3. Front(e.path) \in Path /\ SubSeq(p, Len(e.path) + 1, Len(p)) \in Path
    BY <2>1, <2>2, Constants, FrontOf, Part
  <2> QED
    BY <2>3, Constants, ConcatProperties DEF Target
<1>9. IsStrictPrefix(e.path, p)
  BY DEF FilesIn
<1>10. ASSUME NEW m \in Moved(e)
       PROVE  At(disk', m, d) \/ At(disk', Target(e.path, m), d)
  <2>1. CASE m = p
    BY <1>6, <1>7, <1>8, <2>1, NowAt
  <2>2. CASE m # p /\ At(disk, m, d)
    <3>1. At(rest, m, d)
      BY <2>2, LeftAt
    <3> HIDE DEF rest, to
    <3> QED
      BY <1>6, <1>8, <3>1, StillAt
  <2>3. CASE At(disk, Target(e.path, m), d)
    <3>1. Target(e.path, m) # p
      BY <1>2, <1>9 DEF Ready
    <3>2. At(rest, Target(e.path, m), d)
      BY <2>3, <3>1, LeftAt
    <3> HIDE DEF rest, to
    <3> QED
      BY <1>6, <1>8, <3>2, StillAt
  <2> QED
    BY <1>2, <2>1, <2>2, <2>3 DEF Underway
<1> HIDE DEF j
<1>11. Underway(disk', d, e, j)
  BY <1>2, <1>10 DEF Underway
<1> QED
  BY <1>0, <1>1, <1>2, <1>11 DEF OnTheWay, j

LEMMA FolderMoveOnTheWay ==
  ASSUME TypeOK, NEW d \in Dialogs, Fine(disk, cwd, dialog[d]),
         OnTheWay(disk, d, dialog[d]), NEW i, NEW error \in BOOLEAN, FolderMoveCompleted(d, i, error)
  PROVE  OnTheWay(disk', d, dialog'[d])
<1> DEFINE e == dialog[d]
           result == IF error THEN "failed" ELSE "restored"
           f == Finished(e, i, result)
           gone == {e.path} \cup Below(e.path)
<1>0. /\ i \in DOMAIN e.jobs /\ e \in Dialog /\ e.jobs[i].phase = "moving"
      /\ dialog'[d] = f
  BY DEF FolderMoveCompleted, TypeOK
<1>1. i = 1 /\ e.jobs # <<>> /\ Len(e.jobs) = 1 /\ JobFine(disk, e, e.jobs[1])
  BY <1>0, OnlyJob
<1>2. /\ e.jobs[1].path = e.path /\ Last(e.path) = Tmp /\ Ready(disk, e, e.jobs[1].agreed)
      /\ Aimed(e) /\ e.result # "restored"
      /\ \A m \in Moved(e) : At(disk, m, d) \/ At(disk, Target(e.path, m), d)
  BY <1>0, <1>1 DEF JobFine, OnTheWay, Underway
<1>3. Rephased(e, f, i, {"done"}) /\ f.result = result
  BY <1>0, PhaseKeeps, PhaseLeaves
<1>4. f.jobs[1].phase = "done"
  BY <1>1, <1>3 DEF Rephased
<1>5. ~error => FilesBelow(e.path) = {} /\ disk' = Without(disk, gone)
  BY <1>1, <1>2 DEF FolderMoveCompleted
<1> HIDE DEF f
<1>6. ASSUME ~error, NEW m \in Moved(e)
      PROVE  At(disk', Target(e.path, m), d)
  <2>1. ~At(disk, m, d)
    <3>1. SUFFICES ASSUME At(disk, m, d) PROVE FALSE
      OBVIOUS
    <3>2. IsStrictPrefix(e.path, m) /\ d # "dir"
      BY <1>2, RestoreAssumption DEF Aimed
    <3>3. m \in FilesBelow(e.path)
      BY <3>1, <3>2 DEF At, FilesBelow, Below
    <3> QED
      BY <1>5, <1>6, <3>3
  <2>2. At(disk, Target(e.path, m), d)
    BY <1>2, <2>1
  <2>3. Target(e.path, m) \notin gone
    BY <1>2 DEF Aimed, Ready, Below
  <2> HIDE DEF gone
  <2> QED
    BY <1>5, <1>6, <2>2, <2>3, LeftAt
<1>7. ASSUME f.result = "restored"
      PROVE  /\ \A p \in ShownPlaces(e) : At(disk', p, d)
             /\ e.path \notin DOMAIN disk'
  <2>1. ~error
    BY <1>3, <1>7
  <2>2. ShownPlaces(e) = {Target(e.path, m) : m \in Moved(e)}
    BY <1>2 DEF Aimed
  <2>3. e.path \notin DOMAIN disk'
    BY <1>5, <2>1 DEF Without
  <2> QED
    BY <1>6, <2>1, <2>2, <2>3
<1>8. OnTheWay(disk', d, f)
  BY <1>1, <1>2, <1>3, <1>4, <1>7, PhaseOnTheWay
<1> QED
  BY <1>0, <1>8

LEMMA CollectOnTheWay ==
  ASSUME TypeOK, NEW d \in Dialogs, Fine(disk, cwd, dialog[d]),
         OnTheWay(disk, d, dialog[d]), NEW i, CollectSourceListing(d, i)
  PROVE  OnTheWay(disk', d, dialog'[d])
<1> DEFINE e == dialog[d]
           f == dialog'[d]
<1>0. e \in Dialog /\ i \in DOMAIN e.listings /\ disk' = disk
  BY DEF CollectSourceListing, TypeOK
<1>1. /\ f.jobs = e.jobs /\ f.result = e.result /\ f.page = e.page
  BY <1>0 DEF CollectSourceListing, TypeOK, Dialog
<1>2. e.listings # <<>>
  BY <1>0
<1>3. e.page \in {"choose", "custom"} /\ e.jobs = <<>>
  <2>1. e.page \in Choice
    BY <1>0, <1>2 DEF Fine, Dialog, Choice
  <2> QED
    BY <1>2, <2>1 DEF Fine, Choosing, Choice
<1> QED
  BY <1>1, <1>3 DEF OnTheWay

LEMMA ListedOnTheWay ==
  ASSUME TypeOK, NEW d \in Dialogs, Returns(d), Fine(disk, cwd, dialog[d]),
         OnTheWay(disk, d, dialog[d]), NEW i,
         NEW error \in BOOLEAN, NEW space \in BOOLEAN, SourceListingCompleted(d, i, error, space)
  PROVE  OnTheWay(disk', d, dialog'[d])
<1> DEFINE e == dialog[d]
           f == [e EXCEPT !.listings = RemoveAt(@, i)]
<1>0. e \in Dialog /\ e.listings \in Seq(SUBSET Path)
  BY DEF TypeOK, Dialog
<1>1. i \in 1..Len(e.listings) /\ e.listings # <<>>
  BY <1>0, LenProperties, EmptySeq DEF SourceListingCompleted
<1>2. i = 1 /\ Len(e.listings) = 1
  <2> DEFINE n == Len(e.listings)
  <2>1. n \in Nat /\ n <= 1 /\ i \in 1..n
    BY <1>0, <1>1, LenProperties DEF Returns
  <2> HIDE DEF n
  <2>2. i = 1 /\ n = 1
    BY <2>1
  <2> QED
    BY <2>2 DEF n
<1>3. /\ f \in Dialog /\ f.page = e.page /\ f.jobs = e.jobs /\ f.result = e.result
      /\ f.version = e.version /\ f.slash = e.slash /\ f.dest = e.dest /\ f.path = e.path
      /\ f.folder = e.folder
  <2>1. f = [e EXCEPT !.listings = <<>>] /\ f \in Dialog
    BY <1>0, <1>1, <1>2, LastListing
  <2> QED
    BY <1>0, <2>1 DEF Dialog
<1>4. /\ dialog'[d] = IF error THEN f ELSE CompletePrechecks(f, space)
      /\ error \/ e.listings[1] = {}
  BY <1>2 DEF SourceListingCompleted, TypeOK
<1> HIDE DEF f
<1>5. /\ e.page \in {"choose", "custom"} /\ Listed(disk, cwd, e, e.listings[1])
      /\ e.jobs = <<>> /\ (~e.version.isDirectory => ~e.slash)
  <2>1. e.page \in Choice
    BY <1>0, <1>1 DEF Fine, Dialog, Choice
  <2> QED
    BY <1>1, <2>1 DEF Fine, Choosing, Choice
<1>6. e.result = "none"
  BY <1>5 DEF OnTheWay
<1>7. CASE error
  BY <1>3, <1>4, <1>5, <1>6, <1>7 DEF OnTheWay
<1>8. CASE ~error
  <2>1. Aimed(e)
    BY <1>0, <1>4, <1>5, <1>8, FolderAimed
  <2>2. Aimed(f)
    BY <1>3, <2>1, SameAim
  <2>3. OnTheWay(disk', d, CompletePrechecks(f, space))
    BY <1>3, <1>5, <1>6, <2>2, PrechecksOnTheWay
  <2> QED
    BY <1>4, <1>8, <2>3
<1> QED
  BY <1>7, <1>8

LEMMA WorkOnTheWay ==
  ASSUME OneDialog, TypeOK, AllFiled, NEW d \in Dialogs, Returns(d),
         Fine(disk, cwd, dialog[d]), OnTheWay(disk, d, dialog[d]), NEW i \in 1..2, Work(d, i)
  PROVE  OnTheWay(disk', d, dialog'[d])
BY CollectOnTheWay, ListedOnTheWay, RestoreEntryOnTheWay, RestoringOnTheWay, FileMoveOnTheWay,
   MoveEntryOnTheWay, FolderMoveOnTheWay DEF Work

LEMMA ArrivingStep ==
  ASSUME Decided, TypeInv, Directory, Lossless, Arriving, [Next]_vars
  PROVE  Arriving'
<1>1. CASE UNCHANGED vars
  BY <1>1 DEF vars, Arriving
<1>2. ASSUME NEW d \in Dialogs, User(d) \/ \E i \in 1..2 : Work(d, i)
      PROVE  Arriving'
  <2>1. OnTheWay(disk', d, dialog'[d])
    BY <1>2, UserOnTheWay, WorkOnTheWay
    DEF Decided, Patient, TypeInv, Directory, Lossless, Arriving
  <2> QED
    BY <2>1 DEF Decided, Patient, OneDialog, Arriving
<1> QED
  BY <1>1, <1>2 DEF Next

LEMMA ArrivingInit == Init => Arriving
<1> SUFFICES ASSUME Init PROVE Arriving
  OBVIOUS
<1> DEFINE v == CHOOSE u \in Versions : TRUE
<1>0. NoDialog = [NewDialog(v) EXCEPT !.page = "none"]
  BY DEF NoDialog
<1> HIDE DEF v
<1>1. NoDialog.page = "none" /\ NoDialog.jobs = <<>> /\ NoDialog.result = "none"
  BY <1>0 DEF NewDialog
<1> QED
  BY <1>1 DEF Init, Arriving, OnTheWay

\* For the same user, when success is shown everything that was to be restored is in the
\* folder that the button opens, or under the name that was chosen, and the temporary
\* folder is gone (restoredialog.cpp:332-367, 413-428).
THEOREM ArrivesWhereShown == Decided => (Spec => []RestoredWhereShown)
<1> SUFFICES ASSUME Decided PROVE Spec => []RestoredWhereShown
  OBVIOUS
<1>1. Init => Directory /\ Lossless /\ Arriving
  BY DirectoryInit, LosslessInit, ArrivingInit
<1>2. TypeInv /\ Directory /\ Lossless /\ Arriving /\ [Next]_vars
        => (Directory /\ Lossless /\ Arriving)'
  BY DirectoryStep, LosslessStep, ArrivingStep DEF Decided
<1>3. Arriving => RestoredWhereShown
  BY DEF Arriving, OnTheWay, Underway, RestoredWhereShown, At, Exists
<1> QED
  BY <1>1, <1>2, <1>3, Typed, PTL DEF Spec
=============================================================================
