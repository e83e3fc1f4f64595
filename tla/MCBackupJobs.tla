---------------------------- MODULE MCBackupJobs ----------------------------
\* Jobs for the model checker: two of any kind on one archive.
EXTENDS BackupJobs

CONSTANTS j1, j2

TwoJobs == {j1, j2}

\* A plan's settings that the kind of job looks at; the others do not matter.
AllKinds ==
  [kind : {"bup"}, check : BOOLEAN, recovery : BOOLEAN]
  \cup [kind : {"verify", "repair"}, check : {FALSE}, recovery : BOOLEAN]
  \cup [kind : {"rsync"}, check : {FALSE}, recovery : {FALSE}]
=============================================================================
