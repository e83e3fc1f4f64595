-------------------------- MODULE FolderSelection --------------------------
(***************************************************************************)
(* The tree of check boxes on the source page: class FolderSelectionModel  *)
(* (kcm/folderselectionmodel.cpp).  The selection is two sets of paths; a  *)
(* folder in neither is what the nearest folder above it is.  Each change  *)
(* of a set is signalled, path by path, to the scanner in its own thread.  *)
(***************************************************************************)
EXTENDS Folders

CONSTANTS
  SavedSelections,   \* pairs of lists that may be found in kuprc
  MaxSignals         \* bound: signals on their way to the scanner

ASSUME SelectionAssumption ==
  /\ SavedSelections \subseteq (SUBSET Checkable) \X (SUBSET Checkable)
  /\ MaxSignals \in Nat

VARIABLES
  included,   \* mIncludedPaths
  excluded,   \* mExcludedPaths
  signals     \* queued for FileScanner, in the order they were emitted

selection == <<included, excluded, signals>>

Slots  == {"includePath", "excludePath"}   \* of FileScanner
Signal == [slot : Slots, path : Checkable]

Inherited(state) ==
  CASE state = "None"                                 -> "None"
    [] state \in {"Included", "IncludeInherited"}     -> "IncludeInherited"
    [] state \in {"Excluded", "ExcludeInherited"}     -> "ExcludeInherited"

\* inclusionState(), for the sets inc and exc: the recursion along the path ends at the
\* nearest mark, which is the longest.
StateIn(inc, exc, path) ==
  CASE path \in inc                                -> "Included"
    [] path \notin inc /\ path \in exc             -> "Excluded"
    [] path \notin inc \cup exc
       /\ LongestIsIn(path, inc, exc \ inc)        -> "IncludeInherited"
    [] path \notin inc \cup exc
       /\ LongestIsIn(path, exc \ inc, inc)        -> "ExcludeInherited"
    [] OTHER                                       -> "None"

\* The same as the code works it out.  The path above a folder in the root is empty,
\* for which the answer is StateNone: the root is nobody's parent.
StateByRecursion(inc, exc, path) ==
  LET state[n \in 0 .. Len(path)] ==
        LET p == SubSeq(path, 1, n)
        IN  CASE p \in inc                          -> "Included"
              [] p \notin inc /\ p \in exc          -> "Excluded"
              [] p \notin inc \cup exc /\ n <= 1    -> "None"
              [] p \notin inc \cup exc /\ n > 1     -> Inherited(state[n - 1])
  IN  state[Len(path)]

InclusionState(p) == StateIn(included, excluded, p)

\* kuprc holds what this page has written: no mark repeats what it would inherit.
ASSUME SavedAssumption ==
  \A s \in SavedSelections :
    /\ \A p \in s[1] : StateIn(s[1] \ {p}, s[2], p) \in {"None", "ExcludeInherited"}
    /\ \A p \in s[2] : StateIn(s[1], s[2] \ {p}, p) = "IncludeInherited"

IsIncluded(p) == InclusionState(p) \in {"Included", "IncludeInherited"}

-----------------------------------------------------------------------------
\* The paths of a set are signalled one after the other, in the order of a hash.
Emissions(slot, paths) ==
  {[i \in DOMAIN order |-> [slot |-> slot, path |-> order[i]]] : order \in SetToSeqs(paths)}

\* Emit three groups of signals, in this order.
Emit(first, second, third) ==
  \E a \in first, b \in second, c \in third :
    /\ Len(signals \o a \o b \o c) <= MaxSignals
    /\ signals' = signals \o a \o b \o c

InsideOf(p, marks) == {q \in marks : Inside(q, p)}

\* Mutant: only the marks that contradict the new one are removed.
IncludePathOver(p) ==
  LET add == IF InclusionState(p) \in {"None", "ExcludeInherited"} THEN {p} ELSE {}
  IN  /\ InclusionState(p) # "Included"
      /\ excluded' = excluded \ {p}
      /\ included' = included \cup add
      /\ Emit(Emissions("includePath", excluded \cap {p}), {<<>>},
              Emissions("includePath", add))

IncludePath(p) ==
  LET add == IF InclusionState(p) \in {"None", "ExcludeInherited"} THEN {p} ELSE {}
  IN  /\ InclusionState(p) # "Included"
      /\ excluded' = excluded \ InsideOf(p, excluded)
      /\ included' = (included \ InsideOf(p, included)) \cup add
      /\ Emit(Emissions("includePath", InsideOf(p, excluded)),
              Emissions("excludePath", InsideOf(p, included)),
              Emissions("includePath", add))

ExcludePath(p) ==
  LET add == IF InclusionState(p) = "IncludeInherited" THEN {p} ELSE {}
  IN  /\ InclusionState(p) # "Excluded"
      /\ excluded' = (excluded \ InsideOf(p, excluded)) \cup add
      /\ included' = included \ InsideOf(p, included)
      /\ Emit(Emissions("includePath", InsideOf(p, excluded)),
              Emissions("excludePath", InsideOf(p, included)),
              Emissions("excludePath", add))

\* setData(): the value is ignored, the check box is a toggle.
Toggle(p) == IF IsIncluded(p) THEN ExcludePath(p) ELSE IncludePath(p)

\* setIncludedPaths() and setExcludedPaths(), called one after the other when the
\* page is filled from kuprc; which comes first is up to KConfigDialogManager.
Load(inc, exc) ==
  /\ included' = inc /\ excluded' = exc
  /\ \E a \in Emissions("excludePath", included \ inc),
        b \in Emissions("includePath", inc \ included),
        c \in Emissions("includePath", excluded \ exc),
        d \in Emissions("excludePath", exc \ excluded) :
       /\ Len(signals \o a \o b \o c \o d) <= MaxSignals
       /\ signals' \in {signals \o a \o b \o c \o d, signals \o c \o d \o a \o b}

SelectionInit == included = {} /\ excluded = {} /\ signals = <<>>

UserSelects ==
  \/ \E p \in Checkable : Toggle(p)
  \/ \E s \in SavedSelections : Load(s[1], s[2])

-----------------------------------------------------------------------------
\* Below a folder as the user sees it in the tree, where everything is below the root.
Below(p) == {q \in Checkable : IsPrefix(p, q)}

Selected == {p \in Checkable : IsIncluded(p)}

\* "All subdirs will be reset" (folderselectionmodel.h:63,68): a click on a check box
\* selects the folder and all that is below it, or takes all of that out of the
\* selection, whatever was marked above, below and beside it, and changes nothing
\* else.  It is not so for the check box of the root, whose state nothing inherits.
CheckBoxMeansSubtree ==
  [][\A p \in Checkable \ {Root} :
       Toggle(p) => Selected' = IF p \in Selected THEN Selected \ Below(p)
                                                  ELSE Selected \cup Below(p)]_selection

=============================================================================
