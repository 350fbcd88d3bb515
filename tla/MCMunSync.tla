------------------------------- MODULE MCMunSync -------------------------------
(* Instances of MunSync for TLC.  The slots are strings so that the definitions
   below can name them; reports and engineers are model values of the cfg. *)
EXTENDS MunSync, TLC

\* Which report has which engineers; all alike, so that reports are symmetric.
TeamOfAll == [p \in Report |-> Engineer]
Symmetric == Permutations(Report)

\* A timer and a manual run of one worker type, or the timers of both.
ReportSlots == {"reportTimer", "reportManual"}
TimerSlots == {"reportTimer", "mapTimer"}
ReportTimer == {"reportTimer"}
WorkerOfSlot(s) == IF s \in ReportSlots THEN "SaveEngineerReport" ELSE "SaveEngMap"
MCWorkerOf == [s \in Slot |-> WorkerOfSlot(s)]

\* Every fault but an answer that confirms nothing and is taken for a success.
ConfirmedFaults == Fault \ {"unconfirmed"}
=============================================================================
