---------------------------- MODULE MCEDExecutor ----------------------------
\* Plans for the model checker: one set for each question asked of EDExecutor.
EXTENDS EDExecutor

Plans(schedules, asks, types) ==
  [schedule : schedules, ask : asks, type : types]

IntervalPlans  == Plans({"INTERVAL"}, {TRUE}, {"BupType"})
                    \cup Plans({"INTERVAL"}, {FALSE}, {"RsyncType"})
ScheduledPlans == Plans({"INTERVAL"}, {TRUE}, {"BupType"})
                    \cup Plans({"USAGE"}, {FALSE}, {"RsyncType"})
=============================================================================
