---------------------------- MODULE MCFSExecutor ----------------------------
\* Plans for the model checker: one for the watch on the folder, and for the schedule
\* one that offers a repair, and one that runs on request only and cannot be saved.
EXTENDS FSExecutor

CONSTANT p1

OnePlan == {p1}

PlainPlan == [schedule : {"INTERVAL"}, ask : {TRUE}, type : {"RsyncType"}]

ReviewedPlans ==
  [schedule : {"INTERVAL"}, ask : {TRUE}, type : {"BupType"}]
    \cup [schedule : {"MANUAL"}, ask : {FALSE}, type : {"Invalid"}]
=============================================================================
