------------------------------ MODULE Folders ------------------------------
(***************************************************************************)
(* The part of the file system that the source page of the settings module *)
(* shows (kcm/folderselectionmodel.cpp, FileScanner in                     *)
(* kcm/backupplanwidget.cpp).  A path is the sequence of its components;   *)
(* the root is the empty one.                                              *)
(***************************************************************************)
EXTENDS Integers, FiniteSets, SequencesExt

CONSTANTS
  Dirs,         \* the folders, as paths
  Links,        \* from each symbolic link to the folder it points to
  Unreadable    \* the folders and files that may not be read

Root      == <<>>
LinkPaths == DOMAIN Links
Files     == Unreadable \ Dirs
Paths     == Dirs \cup LinkPaths \cup Files

Checkable == Dirs \cup LinkPaths   \* the rows of the tree, with their check boxes

\* What lies on the way to a path are folders; a link is neither a folder nor asked
\* whether it may be read; the root may be read.
ASSUME FoldersAssumption ==
  /\ IsFiniteSet(Paths)
  /\ \A p \in Paths : p \in Seq(STRING) /\ \A n \in 1 .. Len(p) - 1 : SubSeq(p, 1, n) \in Dirs
  /\ \A f \in Files : Front(f) \in Dirs
  /\ \A l \in LinkPaths : Links[l] \in Dirs
  /\ LinkPaths \cap (Dirs \cup Unreadable) = {} /\ Root \notin LinkPaths \cup Unreadable

\* What both classes take for "inside of": the path itself or one that starts with
\* the path and a slash, which no path does with "//".
Inside(q, p) == q = p \/ (p # Root /\ IsPrefix(p, q))

Children(p) == {q \in Paths : q # Root /\ Front(q) = p}

\* Of all the marks that p is inside of, the longest is one of these, not of those.
LongestIsIn(p, these, those) ==
  \E m \in these : Inside(p, m) /\ \A x \in those : Inside(p, x) => Len(x) < Len(m)

=============================================================================
