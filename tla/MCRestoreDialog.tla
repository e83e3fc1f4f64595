--------------------------- MODULE MCRestoreDialog ---------------------------
\* A disk with two directories, and what may be in them, for RestoreDialog.
EXTENDS RestoreDialog

CONSTANTS d1, d2

OneDialog  == {d1}
TwoDialogs == {d1, d2}

Folder == [isDirectory |-> TRUE, entries |-> {"a", "b"}]
File   == [isDirectory |-> FALSE, entries |-> {}]

FolderAndFile == {Folder, File}
TwoPlaces     == {"home", "other"}

\* What there may be under the name of the source in a directory.
Things(place) ==
  LET path == <<place, Source>>
  IN  { << >>, path :> "dir", path :> "user",
        (path :> "dir") @@ (Append(path, "a") :> "user"),
        (path :> "dir") @@ (Append(path, "c") :> "user") }

\* In the other directory there is also a file of the name of one in the source.
AnyDisks ==
  {(<<"home">> :> "dir") @@ (<<"other">> :> "dir") @@ (<<"other", "a">> :> "user") @@ h @@ o :
     h \in Things("home"), o \in Things("other")}
=============================================================================
