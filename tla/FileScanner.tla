---------------------------- MODULE FileScanner ----------------------------
(***************************************************************************)
(* The thread that looks for what the user may not read and for symbolic   *)
(* links that lead out of the selection: class FileScanner                 *)
(* (kcm/backupplanwidget.cpp).  It knows the selection only from signals,  *)
(* and has an event of low priority for each folder to be looked into.     *)
(* The scanner is a record with the members of the class; its slots are    *)
(* operators from the scanner before the call to the scanner after it.     *)
(***************************************************************************)
EXTENDS Folders

VARIABLE scanner

Timers == {"unreadables", "symlinks"}   \* single-shot, of one second

Scanner ==
  [ included   : SUBSET Paths,        \* mIncludedFolders
    excluded   : SUBSET Paths,        \* mExcludedFolders
    unreadable : SUBSET Unreadable,   \* mUnreadableFolders and mUnreadableFiles
    notOk      : SUBSET LinkPaths,    \* mSymlinksNotOk
    ok         : SUBSET LinkPaths,    \* mSymlinksOk
    scans      : Seq(Dirs),           \* ScanFolderEvents posted to itself
    timers     : SUBSET Timers ]

NewScanner ==
  [ included |-> {}, excluded |-> {}, unreadable |-> {}, notOk |-> {}, ok |-> {},
    scans |-> <<>>, timers |-> {} ]

IsPathIncluded(s, p) == LongestIsIn(p, s.included, s.excluded)

\* isSymlinkProblematic(), for links to folders outside of /tmp and /var/tmp.
IsSymlinkProblematic(s, link) == ~IsPathIncluded(s, Links[link])

Update(s, timer, changed) ==
  IF changed THEN [s EXCEPT !.timers = @ \cup {timer}] ELSE s

\* checkPathForProblems() for each of a set of paths.
CheckPathsForProblems(s, paths) ==
  LET problematic == {l \in paths \cap LinkPaths : IsSymlinkProblematic(s, l)}
      unreadable  == paths \cap Files
  IN  Update(Update([s EXCEPT !.notOk = @ \cup problematic,
                              !.ok = @ \cup ((paths \cap LinkPaths) \ problematic),
                              !.scans = @ \o SetToSeq(paths \cap Dirs),
                              !.unreadable = @ \cup unreadable],
                    "symlinks", problematic # {}),
             "unreadables", unreadable # {})

\* Links that lead to what is now included are no problem any more.
ReleaseLinks(s) ==
  LET fine == {l \in s.notOk : IsPathIncluded(s, Links[l])}
  IN  Update([s EXCEPT !.notOk = @ \ fine, !.ok = @ \cup fine], "symlinks", fine # {})

IncludeInScanner(s, p) ==
  LET marked == IF p \in s.excluded THEN [s EXCEPT !.excluded = @ \ {p}]
                                    ELSE [s EXCEPT !.included = @ \cup {p}]
  IN  ReleaseLinks(CheckPathsForProblems(marked, {p}))

\* Mutant: links that were fine are not looked at again.
ReviewLinksOnce(s) ==
  LET gone == {l \in s.notOk : ~IsPathIncluded(s, l)}
  IN  Update([s EXCEPT !.notOk = @ \ gone], "symlinks", gone # {})

\* Links that are not included are forgotten; those that are, and lead to what is
\* not, become problems.
ReviewLinks(s) ==
  LET gone == {l \in s.notOk : ~IsPathIncluded(s, l)}
      kept == {l \in s.ok : IsPathIncluded(s, l)}
      lost == {l \in kept : IsSymlinkProblematic(s, l)}
  IN  Update([s EXCEPT !.notOk = (@ \ gone) \cup lost, !.ok = kept \ lost],
             "symlinks", gone \cup lost # {})

\* Mutants: a path excluded is not looked for among those included; what was found
\* below a path is not forgotten with it.
ExcludeInScannerTwice(s, p) ==
  LET marked    == [s EXCEPT !.excluded = @ \cup {p}]
      forgotten == {u \in marked.unreadable : Inside(u, p)}
  IN  ReviewLinks(Update([marked EXCEPT !.unreadable = @ \ forgotten],
                         "unreadables", forgotten # {}))

ExcludeInScannerRemembering(s, p) ==
  ReviewLinks(IF p \in s.included THEN [s EXCEPT !.included = @ \ {p}]
                                  ELSE [s EXCEPT !.excluded = @ \cup {p}])

ExcludeInScanner(s, p) ==
  LET marked == IF p \in s.included THEN [s EXCEPT !.included = @ \ {p}]
                                    ELSE [s EXCEPT !.excluded = @ \cup {p}]
      forgotten == {u \in marked.unreadable : Inside(u, p)}
  IN  ReviewLinks(Update([marked EXCEPT !.unreadable = @ \ forgotten],
                         "unreadables", forgotten # {}))

\* event() and scanFolder()
ScanFolder(s, p) ==
  CASE ~IsPathIncluded(s, p) -> s
    [] IsPathIncluded(s, p) /\ p \in Unreadable ->
         Update([s EXCEPT !.unreadable = @ \cup {p}], "unreadables", TRUE)
    [] IsPathIncluded(s, p) /\ p \notin Unreadable -> CheckPathsForProblems(s, Children(p))

ScannerInit == scanner = NewScanner

Receive(slot, p) ==
  scanner' = IF slot = "includePath" THEN IncludeInScanner(scanner, p)
                                     ELSE ExcludeInScanner(scanner, p)

HandleScanEvent ==
  /\ scanner.scans # <<>>
  /\ scanner' = ScanFolder([scanner EXCEPT !.scans = Tail(@)], Head(scanner.scans))

\* sendPendingUnreadables() and sendPendingSymlinks()
SendPending(timer) ==
  /\ timer \in scanner.timers
  /\ scanner' = [scanner EXCEPT !.timers = @ \ {timer}]

=============================================================================
