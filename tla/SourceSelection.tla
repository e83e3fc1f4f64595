-------------------------- MODULE SourceSelection --------------------------
(***************************************************************************)
(* The source page as a whole: the tree of check boxes and the message     *)
(* above it in the thread of the user interface, the scanner in its own    *)
(* (FolderSelectionWidget in kcm/backupplanwidget.cpp).  The two threads   *)
(* share nothing: signals go down, lists of problems come up, and both     *)
(* wait in the queue of the thread they are for.                           *)
(***************************************************************************)
EXTENDS FolderSelection, FileScanner

CONSTANTS
  MaxScans,     \* bound: folders that wait to be looked into when a signal arrives
  MaxReports    \* bound: lists on their way to the user interface

ASSUME PageAssumption == MaxScans \in Nat \ {0} /\ MaxReports \in Nat \ {0}

VARIABLES
  reports,   \* lists on their way to the user interface
  listed,    \* mUnreadableFolders and mUnreadableFiles, mSymlinkProblems
  message    \* the message and the problem that its button will deal with

vars == <<included, excluded, signals, scanner, reports, listed, message>>

Report ==
  [list : {"unreadables"}, found : SUBSET Unreadable]
  \cup [list : {"symlinks"}, found : SUBSET LinkPaths]

Message ==
  [ shown   : {"hidden", "visible", "hiding"},
    problem : {Root} \cup Unreadable \cup LinkPaths ]   \* Root: there is no button

\* What the variables hold.
TypeOK ==
  /\ included \subseteq Checkable /\ excluded \subseteq Checkable
  /\ signals \in Seq(Signal)
  /\ scanner \in Scanner
  /\ reports \in Seq(Report) /\ Len(reports) <= MaxReports
  /\ listed \in [unreadables : SUBSET Unreadable, symlinks : SUBSET LinkPaths]
  /\ message \in Message

Init ==
  /\ SelectionInit /\ ScannerInit
  /\ reports = <<>>
  /\ listed = [unreadables |-> {}, symlinks |-> {}]
  /\ message = [shown |-> "hidden", problem |-> Root]

-----------------------------------------------------------------------------
\* updateMessage() with a hidden message: a folder first, then a file, then a link.
FirstProblems(lists) ==
  CASE lists.unreadables \cap Dirs # {}   -> lists.unreadables \cap Dirs
    [] lists.unreadables \cap Dirs = {}
       /\ lists.unreadables # {}          -> lists.unreadables
    [] lists.unreadables = {}             -> lists.symlinks

\* isVisible(): always during the animation, and otherwise if the page of the message
\* is open, which the user may have turned to or away from since the last step.
IsVisible(msg) ==
  CASE msg.shown = "hidden"  -> {FALSE}
    [] msg.shown = "visible" -> BOOLEAN
    [] msg.shown = "hiding"  -> {TRUE}

Show(msg, lists) ==
  IF FirstProblems(lists) = {}
  THEN {[msg EXCEPT !.problem = Root]}
  ELSE {[shown |-> "visible", problem |-> p] : p \in FirstProblems(lists)}

\* Mutant: a message that is on screen stays there.
UpdateMessageOnce(msg, lists) ==
  UNION {IF visible THEN {msg} ELSE Show(msg, lists) : visible \in IsVisible(msg)}

\* updateMessage(): a message that is visible is hidden first; when that is done the
\* slot is called again.
UpdateMessage(msg, lists) ==
  UNION {IF visible THEN {[msg EXCEPT !.shown = "hiding"]} ELSE Show(msg, lists) :
         visible \in IsVisible(msg)}

\* setUnreadables() and setSymlinks()
ReceiveReport ==
  /\ reports # <<>>
  /\ reports' = Tail(reports)
  /\ listed' = [listed EXCEPT ![Head(reports).list] = Head(reports).found]
  /\ message' \in UpdateMessage(message, listed')
  /\ UNCHANGED <<included, excluded, signals, scanner>>

HideAnimationFinished ==
  /\ message.shown = "hiding"
  /\ message' \in UpdateMessage([message EXCEPT !.shown = "hidden"], listed)
  /\ UNCHANGED <<included, excluded, signals, scanner, reports, listed>>

\* The button of the message: the unreadable folder, or the folder of the unreadable
\* file, is excluded; the target of the link is included.
Advice(problem) == IF problem \in Files THEN Front(problem) ELSE problem

ExecuteExcludeAction ==
  /\ message.shown # "hidden" /\ message.problem \in Unreadable
  /\ ExcludePath(Advice(message.problem))

ExecuteIncludeAction ==
  /\ message.shown # "hidden" /\ message.problem \in LinkPaths
  /\ IncludePath(Links[message.problem])

User ==
  /\ UserSelects \/ ExecuteExcludeAction \/ ExecuteIncludeAction
  /\ UNCHANGED <<scanner, reports, listed, message>>

-----------------------------------------------------------------------------
ScannerReceives ==
  /\ signals # <<>>
  /\ signals' = Tail(signals)
  /\ Receive(Head(signals).slot, Head(signals).path)
  /\ Len(scanner'.scans) <= MaxScans
  /\ UNCHANGED <<included, excluded, reports, listed, message>>

\* An event of low priority waits until there is no signal, but not for one that has
\* not been emitted yet: User emits all those of a call in one step, so a scan may
\* come between any two of them.
ScannerScans ==
  /\ HandleScanEvent
  /\ UNCHANGED <<included, excluded, signals, reports, listed, message>>

ScannerSends ==
  /\ Len(reports) < MaxReports
  /\ \E timer \in Timers :
       /\ SendPending(timer)
       /\ reports' = Append(reports,
            [ list  |-> timer,
              found |-> IF timer = "symlinks" THEN scanner.notOk ELSE scanner.unreadable ])
  /\ UNCHANGED <<included, excluded, signals, listed, message>>

Worker == ScannerReceives \/ ScannerScans \/ ScannerSends
Page   == ReceiveReport \/ HideAnimationFinished

Next == User \/ Worker \/ Page

Spec == Init /\ [][Next]_vars

-----------------------------------------------------------------------------
\* The scanner has handled everything the user did so far.
UpToDate == signals = <<>> /\ scanner.scans = <<>>

\* The scanner, which must work out from single signals to which of its sets a path
\* belongs, has the sets of the tree when it has received them all.
ScannerInStep ==
  signals = <<>> => scanner.included = included /\ scanner.excluded = excluded

\* What is in an included folder: a file that is there, or the folder itself.
InSelection(u) == IsIncluded(IF u \in Dirs THEN u ELSE Front(u))

\* Nothing is left of what was found in an earlier selection, in whatever order marks
\* were removed and added while the scans of the earlier one were still going on.  It
\* is not so for a file in the root, which is not inside of it for the scanner and so
\* is not forgotten with it.
FindsOnlyInSelection ==
  UpToDate => \A u \in scanner.unreadable : u \in Dirs \/ Front(u) # Root => InSelection(u)

\* When all is scanned, the links that are found are those of the selection whose
\* targets are not in it: none is left over, and none is missed that is marked itself
\* or that can be reached through folders that may be read.
FindsLinksThatLeadOut ==
  UpToDate => \A l \in LinkPaths :
    /\ l \in scanner.notOk => ~IsIncluded(Links[l])
    /\ /\ IsIncluded(l) /\ ~IsIncluded(Links[l])
       /\ l \in included \/ \A u \in Unreadable : ~Inside(l, u)
       => l \in scanner.notOk

\* Once everything has been delivered the message is about a problem that is there,
\* and there is one if there is a problem: none is hidden for good, shown for good, or
\* lost between the animation and the page that the user turns to and away from.
MessageIsCurrent ==
  UpToDate /\ scanner.timers = {} /\ reports = <<>> /\ message.shown # "hiding" =>
    LET problems == scanner.unreadable \cup scanner.notOk
    IN  IF problems = {} THEN message.problem = Root
        ELSE message.shown = "visible" /\ message.problem \in problems

=============================================================================
