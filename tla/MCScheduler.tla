---------------------------- MODULE MCScheduler ----------------------------
(* An interval job and a cron job that matches the minutes 1 and 2 and no   *)
(* later one, so that its third run is looked for in vain.                  *)
EXTENDS Scheduler

CONSTANTS tick, cron

MCKindOf == [j \in Jobs |-> IF j = tick THEN "interval" ELSE IF j = cron THEN "cron" ELSE "once"]
MCMatching == [j \in Jobs |-> IF j = cron THEN {1, 2} ELSE {}]
=============================================================================
