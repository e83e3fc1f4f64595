---------------------------- MODULE RestoreDialog ----------------------------
(***************************************************************************)
(* Restoring a version of a folder or of a file: class RestoreDialog       *)
(* (filedigger/restoredialog.cpp) with the RestoreJob it starts.  The      *)
(* dialog lists what is to be restored and compares it with what is there, *)
(* asks if something would be overwritten, lets bup restore, if need be to *)
(* a temporary folder, and has KIO move that folder up.  All of this is    *)
(* asynchronous: the dialog's buttons work while a listing is under way,   *)
(* dialogs are not modal, and they share the process's working directory,  *)
(* against which entries are compared.                                     *)
(*                                                                         *)
(* A path is a sequence of names.  The disk holds directories, files of    *)
(* the user, and files restored by a dialog.  Nobody else writes to it.    *)
(***************************************************************************)
EXTENDS Naturals, Sequences, SequencesExt

CONSTANTS
  Names,           \* what files and folders are called, unless by the dialog
  Dialogs,         \* the dialogs that the user may open
  Versions,        \* what may be restored: a folder or a file, and its entries
  Places,          \* the directories that may be chosen as destination
  Home,            \* the directory in which the source was when it was saved
  Disks,           \* what may be on the disk to begin with
  SecondThoughts,  \* the user may pick another destination after a folder that
                   \* exists, or after a file
  Impatient        \* the user may click or close the dialog during a listing

Source  == "source"    \* mSourceFileName
NewName == "new name"  \* any other name the user may give
Tmp     == "_kup_temporary_restore_folder_"

StartDir == <<"cwd">>  \* the working directory the process was started in
NoDir    == <<>>

ASSUME RestoreAssumption ==
  /\ {Source, NewName} \subseteq Names /\ Tmp \notin Names
  /\ {"dir", "user"} \cap Dialogs = {}
  /\ Versions \subseteq [isDirectory : BOOLEAN, entries : SUBSET Names]
  /\ Versions # {}
  /\ Home \in Places /\ Places \subseteq Names
  /\ SecondThoughts \in BOOLEAN /\ Impatient \in BOOLEAN

\* The disk is a tree, and no Tmp of an earlier restore is left in it.
ASSUME DiskAssumption ==
  \A there \in Disks :
    /\ there \in [DOMAIN there -> {"dir", "user"}]
    /\ \A p \in DOMAIN there :
         /\ p \in Seq(Names) /\ p # NoDir
         /\ \A n \in 1..Len(p) - 1 :
              SubSeq(p, 1, n) \in DOMAIN there /\ there[SubSeq(p, 1, n)] = "dir"

VARIABLES
  dialog,  \* the dialogs
  disk,    \* for each path there is: "dir", "user" or the dialog that restored it
  cwd,     \* the working directory of the process
  lost     \* history: files of the user replaced that the user was not asked about

vars == <<dialog, disk, cwd, lost>>

-----------------------------------------------------------------------------
(***************************************************************************)
(* The disk.                                                               *)
(***************************************************************************)
Exists(path)  == path \in DOMAIN disk
IsDir(path)   == Exists(path) /\ disk[path] = "dir"
Below(path)   == {p \in DOMAIN disk : IsStrictPrefix(path, p)}
FilesBelow(path) == {p \in Below(path) : disk[p] # "dir"}

\* A file cannot be written where there is a directory, or below a file.
Blocked(path) ==
  \/ IsDir(path)
  \/ \E p \in DOMAIN disk : IsStrictPrefix(p, path) /\ disk[p] # "dir"

\* `there' with a file at `path', and the directories that lead to it.
WithFile(there, path, what) ==
  LET way == {SubSeq(path, 1, n) : n \in 1..Len(path)}
  IN  [p \in DOMAIN there \cup way |->
         IF p = path THEN what ELSE IF p \in DOMAIN there THEN there[p] ELSE "dir"]

Without(there, paths) == [p \in DOMAIN there \ paths |-> there[p]]

\* A file is written for a dialog whose user has agreed that `agreed' be replaced.
Write(there, path, what, agreed) ==
  /\ ~Blocked(path)
  /\ disk' = WithFile(there, path, what)
  /\ lost' = lost \cup {p \in {path} : Exists(p) /\ disk[p] = "user" /\ p \notin agreed}

-----------------------------------------------------------------------------
(***************************************************************************)
(* The dialog: a record with the members of the class.  `page' is the page *)
(* of mStackedWidget, `result' that of mRestorationStackWidget, `slash'    *)
(* whether mPathInRepo ends with one; `listings' holds the entries that    *)
(* each list job under way has still to deliver, `jobs' the restore jobs   *)
(* started and what is being moved for them, and `accepting' how many      *)
(* times accepted() of the file widget is connected.                       *)
(***************************************************************************)
NewDialog(version) ==
  [page |-> "choose", result |-> "none", close |-> TRUE, version |-> version,
   slash |-> FALSE, dest |-> NoDir, folder |-> NoDir, path |-> NoDir, saved |-> NoDir,
   conflicts |-> {}, listings |-> <<>>, jobs |-> <<>>, accepting |-> 0]

Entries(e) == {<<name>> : name \in e.version.entries}

\* The dialog e may be clicked on when it shows `page'.
Shows(e, page) == e.page = page /\ (e.listings = <<>> \/ Impatient)

StartRestoring(e, agreed) ==
  [e EXCEPT !.page = "restoring", !.close = FALSE,
            !.jobs = Append(@, [phase |-> "restoring", path |-> e.path, slash |-> e.slash,
                                left |-> IF e.version.isDirectory THEN Entries(e) ELSE {<<>>},
                                agreed |-> agreed])]

\* `space' says whether there is enough of it at the destination.
CompletePrechecks(e, space) ==
  CASE ~space                       -> e
    [] space /\ e.conflicts # {}    -> [e EXCEPT !.page = "conflict"]
    [] OTHER                        -> StartRestoring(e, {})

StartFolderPrechecks(e) ==
  LET folder == Append(e.dest, Source)
  IN  [e EXCEPT !.folder    = folder,
                !.path      = IF ~Exists(folder) THEN e.dest
                              ELSE IF ~IsDir(folder) THEN Append(e.dest, Tmp)
                              ELSE IF Below(folder) = {} THEN folder
                              ELSE Append(folder, Tmp),
                !.conflicts = IF Exists(folder) /\ ~IsDir(folder) THEN {folder} ELSE {},
                !.slash     = @ \/ IsDir(folder),
                !.saved     = IF IsDir(folder) THEN cwd ELSE NoDir,
                !.listings  = Append(@, Entries(e))]

\* Mutant: a file that is already there is not listed.
StartFilePrechecksBlind(e) ==
  LET direct == ~Exists(e.dest) /\ Last(e.dest) = Source
  IN  [e EXCEPT !.path      = IF direct THEN Front(e.dest) ELSE Append(Front(e.dest), Tmp),
                !.conflicts = {}]

StartFilePrechecks(e) ==
  LET direct == ~Exists(e.dest) /\ Last(e.dest) = Source
  IN  [e EXCEPT !.path      = IF direct THEN Front(e.dest) ELSE Append(Front(e.dest), Tmp),
                !.conflicts = IF Exists(e.dest) THEN {e.dest} ELSE {}]

\* Starting a listing makes the folder that is there the working directory.
StartPrechecks(d, e, space) ==
  IF e.version.isDirectory
  THEN /\ dialog' = [dialog EXCEPT ![d] = StartFolderPrechecks(e)]
       /\ cwd' = IF IsDir(Append(e.dest, Source)) THEN Append(e.dest, Source) ELSE cwd
  ELSE /\ dialog' = [dialog EXCEPT ![d] = CompletePrechecks(StartFilePrechecks(e), space)]
       /\ UNCHANGED cwd

-----------------------------------------------------------------------------
(***************************************************************************)
(* The user.                                                               *)
(***************************************************************************)
\* FileDigger::restore() opens a dialog beside those that are open.
Open(d, version) ==
  /\ dialog[d].page = "none"
  /\ dialog' = [dialog EXCEPT ![d] = NewDialog(version)]
  /\ UNCHANGED <<disk, cwd, lost>>

\* Any window can be closed; the slots of its jobs are disconnected.
Close(d) ==
  /\ dialog[d].page \notin {"none", "closed"}
  /\ dialog[d].listings = <<>> \/ Impatient
  /\ dialog' = [dialog EXCEPT ![d].page = "closed", ![d].listings = <<>>]
  /\ UNCHANGED <<disk, cwd, lost>>

SetOriginalDestination(d, space) ==
  LET e == dialog[d]
  IN  /\ Shows(e, "choose")
      /\ StartPrechecks(d, IF e.version.isDirectory
                           THEN [e EXCEPT !.slash = FALSE, !.dest = <<Home>>]
                           ELSE [e EXCEPT !.dest = <<Home, Source>>], space)
      /\ UNCHANGED <<disk, lost>>

SetCustomDestination(d) ==
  /\ Shows(dialog[d], "choose")
  /\ dialog' = [dialog EXCEPT ![d].page = "custom"]
  /\ UNCHANGED <<disk, cwd, lost>>

\* A new folder in the one selected, which is one of the places here.
CreateNewFolder(d, place, name) ==
  /\ Shows(dialog[d], "custom") /\ dialog[d].version.isDirectory
  /\ IsDir(<<place>>) /\ ~Exists(<<place, name>>)
  /\ disk' = WithFile(disk, <<place, name>>, "dir")
  /\ UNCHANGED <<dialog, cwd, lost>>

CheckFolderSelection(d, folder) ==
  LET e == dialog[d]
  IN  /\ Shows(e, "custom") /\ e.version.isDirectory
      /\ ~e.slash \/ SecondThoughts
      /\ IsDir(folder)
      /\ StartPrechecks(d, [e EXCEPT !.dest = folder], TRUE)
      /\ UNCHANGED <<disk, lost>>

\* Each click connects accepted() once more before it makes the file widget emit
\* it, and each connection runs the prechecks from the start.
CheckFileSelection(d, place, name, space) ==
  LET e    == [dialog[d] EXCEPT !.accepting = @ + 1, !.dest = <<place, name>>]
      Once == CompletePrechecks(StartFilePrechecks(e), space)
  IN  /\ Shows(e, "custom") /\ ~e.version.isDirectory
      /\ e.accepting = 1 \/ (SecondThoughts /\ e.accepting = 2)
      /\ dialog' = [dialog EXCEPT ![d] =
           IF e.accepting = 1 THEN Once
           ELSE CompletePrechecks(StartFilePrechecks(Once), space)]
      /\ UNCHANGED <<disk, cwd, lost>>

Back(d) ==
  /\ dialog[d].page \in {"custom", "conflict"}
  /\ Shows(dialog[d], dialog[d].page)
  /\ dialog' = [dialog EXCEPT ![d].page = "choose"]
  /\ UNCHANGED <<disk, cwd, lost>>

\* Overwrite what was listed.
ConfirmOverwrite(d) ==
  LET e == dialog[d]
  IN  /\ Shows(e, "conflict")
      /\ dialog' = [dialog EXCEPT ![d] = StartRestoring(e, e.conflicts)]
      /\ UNCHANGED <<disk, cwd, lost>>

\* Mutant: the contents are restored, but without the slash the folder is too.
ConfirmNewNameSlashless(d) ==
  LET e      == dialog[d]
      folder == Append(e.dest, NewName)
  IN  /\ Shows(e, "conflict") /\ e.version.isDirectory
      /\ ~Exists(folder)
      /\ dialog' = [dialog EXCEPT ![d] =
           StartRestoring([e EXCEPT !.folder = folder, !.path = folder], {})]
      /\ UNCHANGED <<disk, cwd, lost>>

\* Restore a folder under another name, which must not exist.
ConfirmNewName(d) ==
  LET e      == dialog[d]
      folder == Append(e.dest, NewName)
  IN  /\ Shows(e, "conflict") /\ e.version.isDirectory
      /\ ~Exists(folder)
      /\ dialog' = [dialog EXCEPT ![d] =
           StartRestoring([e EXCEPT !.folder = folder, !.path = folder, !.slash = TRUE], {})]
      /\ UNCHANGED <<disk, cwd, lost>>

-----------------------------------------------------------------------------
(***************************************************************************)
(* The listing.                                                            *)
(***************************************************************************)
\* An entry is listed as a conflict if a file of its name is found in the
\* working directory, whichever that is now.
CollectSourceListing(d, i) ==
  LET e == dialog[d]
  IN  /\ i \in DOMAIN e.listings
      /\ \E entry \in e.listings[i] :
           dialog' = [dialog EXCEPT
             ![d].listings[i] = @ \ {entry},
             ![d].conflicts   = IF e.saved # NoDir /\ Exists(cwd \o entry)
                                THEN @ \cup {e.folder \o entry} ELSE @]
      /\ UNCHANGED <<disk, cwd, lost>>

\* Mutant: a listing that fails leaves the process in the folder it looked at.
SourceListingCompletedStays(d, i, error, space) ==
  LET e  == dialog[d]
      e2 == [e EXCEPT !.listings = RemoveAt(@, i)]
  IN  /\ i \in DOMAIN e.listings
      /\ error \/ e.listings[i] = {}
      /\ cwd' = IF e.saved # NoDir /\ ~error THEN e.saved ELSE cwd
      /\ dialog' = [dialog EXCEPT ![d] = IF error THEN e2 ELSE CompletePrechecks(e2, space)]
      /\ UNCHANGED <<disk, lost>>

SourceListingCompleted(d, i, error, space) ==
  LET e  == dialog[d]
      e2 == [e EXCEPT !.listings = RemoveAt(@, i)]
  IN  /\ i \in DOMAIN e.listings
      /\ error \/ e.listings[i] = {}
      /\ cwd' = IF e.saved # NoDir THEN e.saved ELSE cwd
      /\ dialog' = [dialog EXCEPT ![d] = IF error THEN e2 ELSE CompletePrechecks(e2, space)]
      /\ UNCHANGED <<disk, lost>>

-----------------------------------------------------------------------------
(***************************************************************************)
(* The restore jobs, bup and KIO.                                          *)
(***************************************************************************)
\* bup restores the folder itself, or its contents if the path ends with a slash.
Root(job) == IF job.slash THEN job.path ELSE Append(job.path, Source)

RestoreEntry(d, i) ==
  LET job == dialog[d].jobs[i]
  IN  /\ i \in DOMAIN dialog[d].jobs
      /\ job.phase = "restoring"
      /\ \E entry \in job.left :
           /\ Write(disk, Root(job) \o entry, d, job.agreed)
           /\ dialog' = [dialog EXCEPT ![d].jobs[i].left = @ \ {entry}]
      /\ UNCHANGED cwd

\* Mutant: the button to close is shown after success only.
FinishedHidden(e, i, result) ==
  [e EXCEPT !.result = result, !.close = (result = "restored"), !.jobs[i].phase = "done"]

Finished(e, i, result) ==
  [e EXCEPT !.result = result, !.close = TRUE, !.jobs[i].phase = "done"]

MoveFolder(e, i) ==
  IF Last(e.path) # Tmp
  THEN Finished(e, i, "restored")
  ELSE [e EXCEPT !.jobs[i].phase = "moving", !.jobs[i].path = e.path]

\* The end of bup; in a dialog that is closed nobody takes notice.
RestoringCompleted(d, i, error) ==
  LET e   == dialog[d]
      job == e.jobs[i]
  IN  /\ i \in DOMAIN e.jobs
      /\ job.phase = "restoring"
      /\ error \/ job.left = {}
      /\ dialog' = [dialog EXCEPT ![d] =
           CASE e.page = "closed" -> [e EXCEPT !.jobs[i].phase = "done"]
             [] e.page # "closed" /\ error -> Finished(e, i, "failed")
             [] e.page # "closed" /\ ~error /\ ~e.version.isDirectory /\ Last(e.dest) # Source ->
                  [e EXCEPT !.jobs[i].phase = "renaming", !.jobs[i].path = e.path]
             [] OTHER -> MoveFolder(e, i)]
      /\ UNCHANGED <<disk, cwd, lost>>

\* A file restored under its own name gets the name that the user has chosen.  If
\* this fails, the output is shown, and the button to close the dialog is not.
FileMoveCompleted(d, i, error) ==
  LET e    == dialog[d]
      from == Append(e.jobs[i].path, Source)
      to   == Append(e.jobs[i].path, Last(e.dest))
  IN  /\ i \in DOMAIN e.jobs
      /\ e.jobs[i].phase = "renaming"
      /\ IF error
         THEN /\ dialog' = [dialog EXCEPT ![d].result = "failed", ![d].jobs[i].phase = "done"]
              /\ UNCHANGED disk
         ELSE /\ Exists(from) /\ ~Exists(to)
              /\ disk' = WithFile(Without(disk, {from}), to, disk[from])
              /\ dialog' = [dialog EXCEPT ![d] =
                   IF e.page = "closed" THEN [e EXCEPT !.jobs[i].phase = "done"]
                   ELSE MoveFolder(e, i)]
      /\ UNCHANGED <<cwd, lost>>

\* KIO moves what is in the temporary folder to the folder above it.
MoveEntry(d, i) ==
  LET job == dialog[d].jobs[i]
  IN  /\ i \in DOMAIN dialog[d].jobs
      /\ job.phase = "moving"
      /\ \E p \in FilesBelow(job.path) :
           Write(Without(disk, {p}), Front(job.path) \o SubSeq(p, Len(job.path) + 1, Len(p)),
                 disk[p], job.agreed)
      /\ UNCHANGED <<dialog, cwd>>

FolderMoveCompleted(d, i, error) ==
  LET e    == dialog[d]
      path == e.jobs[i].path
  IN  /\ i \in DOMAIN e.jobs
      /\ e.jobs[i].phase = "moving"
      /\ error \/ (Exists(path) /\ FilesBelow(path) = {})
      /\ disk' = IF error THEN disk ELSE Without(disk, {path} \cup Below(path))
      /\ dialog' = [dialog EXCEPT ![d] = Finished(e, i, IF error THEN "failed" ELSE "restored")]
      /\ UNCHANGED <<cwd, lost>>

-----------------------------------------------------------------------------
NoDialog == [NewDialog(CHOOSE v \in Versions : TRUE) EXCEPT !.page = "none"]

Init ==
  /\ dialog = [d \in Dialogs |-> NoDialog]
  /\ disk \in Disks
  /\ cwd = StartDir
  /\ lost = {}

User(d) ==
  \/ \E v \in Versions : Open(d, v)
  \/ Close(d) \/ Back(d) \/ SetCustomDestination(d)
  \/ \E space \in BOOLEAN : SetOriginalDestination(d, space)
  \/ \E place \in Places, name \in {Source, NewName} : CreateNewFolder(d, place, name)
  \/ \E folder \in DOMAIN disk : CheckFolderSelection(d, folder)
  \/ \E place \in Places, name \in {Source, NewName}, space \in BOOLEAN :
       CheckFileSelection(d, place, name, space)
  \/ ConfirmOverwrite(d) \/ ConfirmNewName(d)

\* What the process does by itself with list job or restore job i.
Work(d, i) ==
  \/ CollectSourceListing(d, i)
  \/ \E error, space \in BOOLEAN : SourceListingCompleted(d, i, error, space)
  \/ RestoreEntry(d, i)
  \/ \E error \in BOOLEAN : RestoringCompleted(d, i, error)
  \/ \E error \in BOOLEAN : FileMoveCompleted(d, i, error)
  \/ MoveEntry(d, i)
  \/ \E error \in BOOLEAN : FolderMoveCompleted(d, i, error)

Next == \E d \in Dialogs : User(d) \/ \E i \in 1..2 : Work(d, i)

Fairness == \A d \in Dialogs, i \in 1..2 : WF_vars(Work(d, i))

Spec     == Init /\ [][Next]_vars
FairSpec == Spec /\ Fairness

-----------------------------------------------------------------------------
(***************************************************************************)
(* Properties.                                                             *)
(***************************************************************************)
Path == Seq(Names \cup {Tmp} \cup {StartDir[1]})

Job ==
  [ phase  : {"restoring", "renaming", "moving", "done"},
    path   : Path,
    slash  : BOOLEAN,
    left   : SUBSET Path,
    agreed : SUBSET Path ]

Dialog ==
  [ page      : {"none", "choose", "custom", "conflict", "restoring", "closed"},
    result    : {"none", "failed", "restored"},
    close     : BOOLEAN,
    version   : Versions,
    slash     : BOOLEAN,
    dest      : Path,
    folder    : Path,
    path      : Path,
    saved     : Path,
    conflicts : SUBSET Path,
    listings  : Seq(SUBSET Path),
    jobs      : Seq(Job),
    accepting : Nat ]

\* What the variables hold.
TypeOK ==
  /\ dialog \in [Dialogs -> Dialog]
  /\ disk \in [DOMAIN disk -> {"dir", "user"} \cup Dialogs]
  /\ DOMAIN disk \subseteq Path
  /\ cwd \in Path
  /\ lost \subseteq Path

\* "folder already exists, need to check for files about to be overwritten"
\* (restoredialog.cpp:189): no file of the user is replaced unless it was in the list
\* that the user confirmed.
NothingReplacedUnasked == lost = {}

\* Where the dialog says that the version is: in the folder that the button at the
\* end opens, or in the file that was chosen.
ShownPlaces(e) ==
  IF e.version.isDirectory THEN {e.folder \o entry : entry \in Entries(e)} ELSE {e.dest}

\* When success is shown, everything is where the dialog says, and what was used on
\* the way is gone.
RestoredWhereShown ==
  \A d \in Dialogs : LET e == dialog[d] IN
    e.result = "restored" =>
      /\ \A p \in ShownPlaces(e) : Exists(p) /\ disk[p] = d
      /\ Last(e.path) = Tmp => ~Exists(e.path)

\* Once no folder is being listed the process is back in its working directory, in
\* which other dialogs look and other jobs start.
WorkingDirectoryIsBack ==
  (\A d \in Dialogs : dialog[d].listings = <<>>) => cwd = StartDir

\* A dialog that hides its button to close shows it again, unless the file could not be
\* given its name (see FileMoveCompleted).
RestoreEnds ==
  \A d \in Dialogs :
    dialog[d].page = "restoring" ~>
      \/ dialog[d].close \/ dialog[d].page = "closed"
      \/ (~dialog[d].version.isDirectory /\ dialog[d].result = "failed")
=============================================================================
