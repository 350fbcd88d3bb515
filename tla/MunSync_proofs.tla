---------------------------- MODULE MunSync_proofs ----------------------------
(***************************************************************************)
(* Theorems about MunSync, for every set of reports, engineers and slots:  *)
(* the types, and the counters of the runs.  Then that what the log and    *)
(* the pending list claim of a report is true of the municipality.  The    *)
(* invariant adds what a job is about to claim: a job past a successful    *)
(* answer, or with an unsaved Success row, holds a report the municipality *)
(* has stored.  With one slot for each worker the sync then implements     *)
(* ReportDelivery, step by step.                                           *)
(***************************************************************************)
EXTENDS MunSync, FiniteSetTheorems, TLAPS

USE MunSyncAssumption

(* What a request can return, whatever the body. *)
LEMMA OutcomeTypes ==
  /\ ReportOutcome \subseteq Outcome
  /\ MapOutcome \subseteq Outcome
  /\ Lost \subseteq Outcome
<1>1. ASSUME NEW b \in ReportBody PROVE ParseSaveEngineerReport(b) \in Result
  <2>1. b.json = "object" => b.id \in BOOLEAN
    BY DEF ReportBody, NotObject
  <2>2. b.json \in {"text", "array", "object"}
    BY DEF ReportBody, NotObject
  <2> QED
    BY <2>1, <2>2 DEF ParseSaveEngineerReport, Result, Verdict, Succeeded, Refused,
                 Throws, ErrorResult
<1>2. ASSUME NEW b \in MapBody PROVE ParseSaveEngMap(b) \in Result
  BY DEF ParseSaveEngMap, UnknownIn, Result, Verdict, Succeeded, Refused, Throws,
         ErrorResult
<1>3. ASSUME NEW o \in ReportOutcome PROVE o \in Outcome
  <2>1. PICK sb \in BOOLEAN \X ReportBody :
          o = [stored |-> sb[1], documented |-> TRUE,
               result |-> ParseSaveEngineerReport(sb[2])]
    BY <1>3, Zenon DEF ReportOutcome
  <2>2. sb[1] \in BOOLEAN /\ sb[2] \in ReportBody
    BY <2>1
  <2> QED
    BY <1>1, <2>1, <2>2 DEF Outcome
<1>4. ASSUME NEW o \in MapOutcome PROVE o \in Outcome
  <2>1. PICK sb \in BOOLEAN \X MapBody :
          o = [stored |-> sb[1],
               documented |-> sb[2].json = "object" => Documented(sb[2]),
               result |-> ParseSaveEngMap(sb[2])]
    BY <1>4, Zenon DEF MapOutcome
  <2>2. sb[1] \in BOOLEAN /\ sb[2] \in MapBody
    BY <2>1
  <2>3. (sb[2].json = "object" => Documented(sb[2])) \in BOOLEAN
    OBVIOUS
  <2> QED
    BY <1>2, <2>1, <2>2, <2>3 DEF Outcome
<1>5. ASSUME NEW o \in Lost PROVE o \in Outcome
  <2>1. Throws \in Result
    BY DEF Throws, Result, Verdict
  <2> QED
    BY <1>5, <2>1 DEF Lost, Outcome
<1>6. QED
  BY <1>3, <1>4, <1>5

-----------------------------------------------------------------------------
(* What holds of an executing run: the row of its table, the row of the list it
   is processing, and the log row it has yet to save. *)
Ended == {"idle", "stopped"}
InRow == {"prepare", "send", "mark", "addengineer"}

Formed(j) ==
  j.pc \notin Ended =>
    /\ j.run \in DOMAIN runs
    /\ j.pc \in InRow => j.row \in Report /\ j.attempt > 0
    /\ j.pc = "log" => j.unsaved
    /\ j.unsaved => /\ j.pc \in {"log", "finally"}
                    /\ j.result # "none"
                    /\ j.row \in Report /\ j.attempt > 0

TypeInv == TypeOK /\ \A s \in Slot : Formed(job[s])

LEMMA TypeInit == Init => TypeInv
BY DEF Init, TypeInv, TypeOK, Formed, Ended, NoRun, Job, PC, Worker

-----------------------------------------------------------------------------
(* What each update of a job leaves behind. *)
LEMMA StartedType ==
  ASSUME NEW i \in Nat
  PROVE  /\ Started(i) \in Job /\ Started(i).pc = "list" /\ Started(i).run = i
         /\ Started(i).unsaved = FALSE
<1>1. NoRun \in Job
  BY DEF NoRun, Job, PC
<1>2. QED
  BY <1>1 DEF Started, NoRun, Job, PC

LEMMA ThrownFormed ==
  ASSUME NEW j \in Job, Formed(j), j.pc \notin Ended
  PROVE  Thrown(j) \in Job /\ Formed(Thrown(j))
<1>1. Thrown(j) \in Job
  BY DEF Thrown, Job, PC
<1>2. Formed(Thrown(j))
  BY DEF Thrown, Job, Formed, InRow, Ended
<1>3. QED
  BY <1>1, <1>2

LEMMA ListedFormed ==
  ASSUME TypeOK, NEW j \in Job, Formed(j), j.pc = "list"
  PROVE  Listed(j) \in Job /\ Formed(Listed(j))
<1>1. listed \in SUBSET Report /\ Cardinality(listed) \in Nat
  BY FS_Subset, FS_CardinalityType DEF TypeOK
<1>2. Listed(j) \in Job
  BY <1>1 DEF Listed, Job, PC
<1>3. Formed(Listed(j))
  BY DEF Listed, Job, Formed, InRow, Ended
<1>4. QED
  BY <1>2, <1>3

LEMMA SkippedFormed ==
  ASSUME NEW j \in Job, NEW p \in Report, Formed(j), j.pc = "row"
  PROVE  Skipped(j, p) \in Job /\ Formed(Skipped(j, p))
<1> DEFINE t == j.todo \ {p}
           n == j.ok + 1
<1>1. t \in SUBSET Report /\ n \in Nat
  BY DEF Job
<1>2. Skipped(j, p) = [j EXCEPT !.todo = t, !.ok = n]
  BY DEF Skipped
<1> HIDE DEF t, n
<1>3. Skipped(j, p) \in Job
  BY <1>1, <1>2 DEF Job
<1>4. Formed(Skipped(j, p))
  BY <1>2 DEF Job, Formed, InRow, Ended
<1>5. QED
  BY <1>3, <1>4

LEMMA PickedFormed ==
  ASSUME NEW j \in Job, NEW p \in Report, NEW n \in Nat \ {0}, Formed(j), j.pc = "row"
  PROVE  Picked(j, p, n) \in Job /\ Formed(Picked(j, p, n))
<1>1. Picked(j, p, n) \in Job
  BY DEF Picked, Job, PC
<1>2. Formed(Picked(j, p, n))
  BY DEF Picked, Job, Formed, InRow, Ended
<1>3. QED
  BY <1>1, <1>2

LEMMA ReturnedFormed ==
  ASSUME NEW j \in Job, NEW r \in {"Success", "Failed"}, Formed(j), j.pc \in InRow
  PROVE  Returned(j, r) \in Job /\ Formed(Returned(j, r))
<1>1. /\ Counted(j, r) \in Job /\ Counted(j, r).run = j.run
      /\ Counted(j, r).row = j.row /\ Counted(j, r).attempt = j.attempt
  BY DEF Counted, Job
<1>2. Returned(j, r) \in Job
  BY <1>1 DEF Returned, Job, PC
<1>3. Formed(Returned(j, r))
  BY <1>1 DEF Returned, Job, Formed, InRow, Ended
<1>4. QED
  BY <1>2, <1>3

LEMMA VisitedFormed ==
  ASSUME NEW j \in Job, NEW c \in Engineer, NEW b \in BOOLEAN, Formed(j),
         j.pc = "addengineer"
  PROVE  Visited(j, c, b) \in Job /\ Formed(Visited(j, c, b))
<1> DEFINE u == j.unknown \ {c}
           d == j.created \/ b
<1>1. u \in SUBSET Engineer /\ d \in BOOLEAN
  BY DEF Job
<1>2. Visited(j, c, b) = [j EXCEPT !.unknown = u, !.created = d]
  BY DEF Visited
<1> HIDE DEF u, d
<1>3. Visited(j, c, b) \in Job
  BY <1>1, <1>2 DEF Job
<1>4. Formed(Visited(j, c, b))
  BY <1>2 DEF Job, Formed, InRow, Ended
<1>5. QED
  BY <1>3, <1>4

LEMMA EndRowFormed ==
  ASSUME NEW j \in Job, Formed(j), j.pc = "log"
  PROVE  EndRow(j) \in Job /\ Formed(EndRow(j))
<1>1. EndLocals(j) \in Job /\ EndLocals(j).run = j.run
  BY DEF EndLocals, Job
<1>2. EndRow(j) \in Job
  BY <1>1 DEF EndRow, Job, PC
<1>3. Formed(EndRow(j))
  BY <1>1 DEF EndRow, Job, Formed, InRow, Ended
<1>4. QED
  BY <1>2, <1>3

\* The updates of the program counter alone, and of the token.
LEMMA MovedFormed ==
  ASSUME NEW j \in Job, Formed(j)
  PROVE  /\ \A pc \in InRow : j.pc \in InRow =>
              [j EXCEPT !.pc = pc] \in Job /\ Formed([j EXCEPT !.pc = pc])
         /\ \A u \in SUBSET Engineer : j.pc \in InRow =>
              LET k == [j EXCEPT !.pc = "addengineer", !.unknown = u]
              IN  k \in Job /\ Formed(k)
         /\ j.pc = "row" =>
              LET k == [j EXCEPT !.pc = "finally", !.status = "Completed"]
              IN  k \in Job /\ Formed(k)
         /\ LET k == [j EXCEPT !.cancelled = TRUE] IN k \in Job /\ Formed(k)
<1>1. ASSUME NEW pc \in InRow, j.pc \in InRow
      PROVE  [j EXCEPT !.pc = pc] \in Job /\ Formed([j EXCEPT !.pc = pc])
  BY <1>1 DEF Job, PC, Formed, InRow, Ended
<1>2. ASSUME NEW u \in SUBSET Engineer, j.pc \in InRow,
             NEW k, k = [j EXCEPT !.pc = "addengineer", !.unknown = u]
      PROVE  k \in Job /\ Formed(k)
  BY <1>2 DEF Job, PC, Formed, InRow, Ended
<1>3. ASSUME j.pc = "row", NEW k, k = [j EXCEPT !.pc = "finally", !.status = "Completed"]
      PROVE  k \in Job /\ Formed(k)
  BY <1>3 DEF Job, PC, Formed, InRow, Ended
<1>4. ASSUME NEW k, k = [j EXCEPT !.cancelled = TRUE]
      PROVE  k \in Job /\ Formed(k)
  BY <1>4 DEF Job, PC, Formed, InRow, Ended
<1>5. QED
  BY <1>1, <1>2, <1>3, <1>4

LEMMA EndedFormed ==
  /\ NoRun \in Job /\ Formed(NoRun)
  /\ [NoRun EXCEPT !.pc = "stopped"] \in Job /\ Formed([NoRun EXCEPT !.pc = "stopped"])
BY DEF NoRun, Job, PC, Formed, Ended

-----------------------------------------------------------------------------
(* An action of slot s replaces its job; the jobs of the others stay formed
   because no row of MunSyncRuns is ever deleted. *)
LEMMA JobStep ==
  ASSUME TypeInv, NEW s \in Slot, NEW j \in Job, job' = [job EXCEPT ![s] = j],
         Formed(j)', DOMAIN runs \subseteq DOMAIN runs',
         runs' \in Seq(RunRow), log' \in Seq(LogRow), listed' \subseteq Report,
         registered' \subseteq Engineer, stored' \in [Worker -> [Report -> Nat]]
  PROVE  TypeInv'
<1>1. job \in [Slot -> Job] /\ \A t \in Slot : Formed(job[t])
  BY DEF TypeInv, TypeOK
<1>2. job' \in [Slot -> Job] /\ job'[s] = j /\ \A t \in Slot \ {s} : job'[t] = job[t]
  BY <1>1
<1>3. \A t \in Slot : Formed(job[t])'
  BY <1>1, <1>2 DEF Formed
<1>4. QED
  BY <1>2, <1>3 DEF TypeInv, TypeOK

\* The same for an action that touches no table.
LEMMA QuietStep ==
  ASSUME TypeInv, NEW s \in Slot, NEW j \in Job, job' = [job EXCEPT ![s] = j],
         Formed(j), runs' = runs, log' = log, listed' \subseteq Report,
         registered' \subseteq Engineer, stored' \in [Worker -> [Report -> Nat]]
  PROVE  TypeInv'
<1>1. Formed(j)' /\ DOMAIN runs \subseteq DOMAIN runs'
  BY DEF Formed
<1>2. runs' \in Seq(RunRow) /\ log' \in Seq(LogRow)
  BY DEF TypeInv, TypeOK
<1>3. QED
  BY <1>1, <1>2, JobStep

LEMMA AttemptType ==
  ASSUME TypeOK, NEW w \in Worker, NEW p \in Report
  PROVE  LastAttempt(w, p) \in Nat
<1>1. CASE Latest(w, p) = {}
  BY <1>1 DEF LastAttempt
<1>2. CASE Latest(w, p) # {}
  <2> DEFINE i == CHOOSE k \in Latest(w, p) : TRUE
  <2>1. i \in Latest(w, p)
    BY <1>2
  <2>2. i \in DOMAIN log
    BY <2>1 DEF Latest, Attempts
  <2>3. log[i] \in LogRow
    BY <2>2 DEF TypeOK
  <2> QED
    BY <1>2, <2>3 DEF LastAttempt, LogRow
<1>3. QED
  BY <1>1, <1>2

\* SaveChanges writes the tracked run over its row and may append a log row.
LEMMA SaveChangesType ==
  ASSUME TypeInv, NEW s \in Slot, SaveChanges(s), job[s].pc \notin Ended
  PROVE  /\ runs' \in Seq(RunRow) /\ log' \in Seq(LogRow)
         /\ DOMAIN runs' = DOMAIN runs
         /\ job[s].unsaved => Entry(s) \in LogRow
<1>1. /\ job[s] \in Job /\ Formed(job[s])
      /\ runs \in Seq(RunRow) /\ log \in Seq(LogRow)
  BY DEF TypeInv, TypeOK
<1>2. job[s].run \in DOMAIN runs /\ runs[job[s].run] \in RunRow
  BY <1>1 DEF Formed
<1>3. [runs[job[s].run] EXCEPT !.status = job[s].status, !.total = job[s].total,
                               !.ok = job[s].ok, !.bad = job[s].bad] \in RunRow
  BY <1>1, <1>2 DEF RunRow, Job
<1> DEFINE r == [runs[job[s].run] EXCEPT
                   !.status = job[s].status, !.total = job[s].total,
                   !.ok = job[s].ok, !.bad = job[s].bad]
<1>8. runs' = [runs EXCEPT ![job[s].run] = r] /\ r \in RunRow
  BY <1>3, Zenon DEF SaveChanges
<1> HIDE DEF r
<1>4. runs' \in Seq(RunRow) /\ DOMAIN runs' = DOMAIN runs
  <2>1. PICK n \in Nat : runs \in [1..n -> RunRow]
    BY <1>1
  <2>2. runs' \in [1..n -> RunRow]
    BY <1>8, <2>1
  <2> QED
    BY <2>1, <2>2
<1>5. job[s].unsaved => Entry(s) \in LogRow
  BY <1>1, <1>2 DEF Formed, Entry, LogRow, Job
<1>6. log' \in Seq(LogRow)
  BY <1>1, <1>5 DEF SaveChanges
<1>7. QED
  BY <1>4, <1>5, <1>6

-----------------------------------------------------------------------------
LEMMA TypeStep == TypeInv /\ [Next]_vars => TypeInv'
<1> SUFFICES ASSUME TypeInv, [Next]_vars PROVE TypeInv'
  OBVIOUS
<1> USE DEF At
<1>0. /\ TypeOK /\ runs \in Seq(RunRow) /\ log \in Seq(LogRow) /\ job \in [Slot -> Job]
      /\ listed \subseteq Report /\ registered \subseteq Engineer
      /\ stored \in [Worker -> [Report -> Nat]]
  BY DEF TypeInv, TypeOK
<1>j. \A s \in Slot : job[s] \in Job /\ Formed(job[s])
  BY DEF TypeInv, TypeOK
<1>t. ASSUME NEW s \in Slot, Throw(s), job[s].pc \notin Ended,
             UNCHANGED <<runs, log, listed>>, registered' \subseteq Engineer,
             stored' \in [Worker -> [Report -> Nat]]
      PROVE  TypeInv'
  BY <1>0, <1>j, <1>t, ThrownFormed, QuietStep DEF Throw
<1>r. ASSUME NEW s \in Slot, Return(s, "Success") \/ Return(s, "Failed"),
             job[s].pc \in InRow, UNCHANGED <<runs, log, registered>>,
             listed' \subseteq Report, stored' \in [Worker -> [Report -> Nat]]
      PROVE  TypeInv'
  BY <1>0, <1>j, <1>r, ReturnedFormed, QuietStep DEF Return
<1>1. ASSUME NEW s \in Slot, Start(s) PROVE TypeInv'
  <2>1. [worker |-> WorkerOf[s], status |-> "Running", total |-> 0, ok |-> 0,
         bad |-> 0] \in RunRow
    BY <1>0 DEF RunRow
  <2>2. runs' \in Seq(RunRow) /\ DOMAIN runs \subseteq DOMAIN runs'
        /\ Len(runs) + 1 \in DOMAIN runs' /\ Len(runs) + 1 \in Nat
    BY <1>0, <1>1, <2>1 DEF Start
  <2>3. PICK j : j = Started(Len(runs) + 1)
    OBVIOUS
  <2>6. j \in Job /\ j.pc = "list" /\ j.run \in DOMAIN runs' /\ j.unsaved = FALSE
    BY <2>2, <2>3, StartedType
  <2>4. job' = [job EXCEPT ![s] = j] /\ UNCHANGED <<log, listed, stored, registered>>
    BY <1>1, <2>3 DEF Start
  <2>5. Formed(j)'
    BY <2>6 DEF Formed, InRow
  <2> QED
    BY <1>0, <2>2, <2>4, <2>5, <2>6, JobStep
<1>2. ASSUME NEW s \in Slot, List(s) PROVE TypeInv'
  <2>1. CASE Throw(s)
    BY <1>0, <1>2, <1>t, <2>1 DEF List, Ended
  <2>2. CASE job' = [job EXCEPT ![s] = Listed(@)]
    BY <1>0, <1>j, <1>2, <2>2, ListedFormed, QuietStep DEF List
  <2> QED
    BY <1>2, <2>1, <2>2 DEF List
<1>3. ASSUME NEW s \in Slot, NEW p \in Report, PickRow(s, p) PROVE TypeInv'
  <2> DEFINE n == LastAttempt(WorkerOf[s], p) + 1
  <2>0. n \in Nat \ {0}
    BY <1>0, AttemptType
  <2> HIDE DEF n
  <2>1. CASE Throw(s)
    BY <1>0, <1>3, <1>t, <2>1 DEF PickRow, Ended
  <2>2. CASE job' = [job EXCEPT ![s] = Skipped(@, p)]
    BY <1>0, <1>j, <1>3, <2>2, SkippedFormed, QuietStep DEF PickRow
  <2>3. CASE job' = [job EXCEPT ![s] = Picked(@, p, n)]
    BY <1>0, <1>j, <1>3, <2>0, <2>3, PickedFormed, QuietStep DEF PickRow
  <2> QED
    BY <1>3, <2>1, <2>2, <2>3 DEF PickRow, n
<1>4. ASSUME NEW s \in Slot, Complete(s) PROVE TypeInv'
  BY <1>0, <1>j, <1>4, MovedFormed, QuietStep DEF Complete
<1>5. ASSUME NEW s \in Slot, Prepare(s) PROVE TypeInv'
  <2>1. CASE Throw(s)
    BY <1>0, <1>5, <1>t, <2>1 DEF Prepare, Ended
  <2>2. CASE Return(s, "Failed")
    BY <1>0, <1>5, <1>r, <2>2 DEF Prepare, InRow
  <2>3. CASE job' = [job EXCEPT ![s].pc = "send"]
    BY <1>0, <1>j, <1>5, <2>3, MovedFormed, QuietStep DEF Prepare, InRow
  <2> QED
    BY <1>5, <2>1, <2>2, <2>3 DEF Prepare
<1>6. ASSUME NEW s \in Slot, Send(s) PROVE TypeInv'
  <2> DEFINE w == WorkerOf[s]
             p == job[s].row
  <2>0. UNCHANGED <<runs, log, listed, registered>> /\ job[s].pc = "send"
    BY <1>6 DEF Send
  <2>1. PICK o \in Outcomes(w, p) :
          /\ stored' = IF o.stored THEN [stored EXCEPT ![w][p] = @ + 1] ELSE stored
          /\ \/ o.result.verdict = "throws" /\ Throw(s)
             \/ /\ o.result.verdict = "success"
                /\ IF w = "SaveEngineerReport" /\ o.result.id
                   THEN job' = [job EXCEPT ![s].pc = "mark"]
                   ELSE Return(s, "Success")
             \/ /\ o.result.verdict = "failed"
                /\ IF AddFirst(s, o.result)
                   THEN job' = [job EXCEPT ![s] = [@ EXCEPT !.pc = "addengineer",
                                                    !.unknown = o.result.unknown]]
                   ELSE Return(s, "Failed")
    BY <1>6, Zenon DEF Send
  <2>2. o \in Outcome
    BY OutcomeTypes DEF Outcomes
  <2>3. p \in Report /\ w \in Worker /\ o.result.unknown \in SUBSET Engineer
    BY <1>j, <2>0, <2>2 DEF Formed, Ended, InRow, Outcome, Result
  <2>4. stored' \in [Worker -> [Report -> Nat]]
    BY <1>0, <2>1, <2>3
  <2>5. CASE Throw(s)
    BY <1>0, <1>t, <2>0, <2>4, <2>5 DEF Ended
  <2>6. CASE job' = [job EXCEPT ![s].pc = "mark"]
    BY <1>0, <1>j, <2>0, <2>4, <2>6, MovedFormed, QuietStep DEF InRow
  <2>7. CASE job' = [job EXCEPT ![s] = [@ EXCEPT !.pc = "addengineer",
                                                 !.unknown = o.result.unknown]]
    BY <1>0, <1>j, <2>0, <2>3, <2>4, <2>7, MovedFormed, QuietStep DEF InRow
  <2>8. CASE Return(s, "Success") \/ Return(s, "Failed")
    BY <1>0, <1>r, <2>0, <2>4, <2>8 DEF InRow
  <2> QED
    BY <2>1, <2>5, <2>6, <2>7, <2>8
<1>7. ASSUME NEW s \in Slot, Mark(s) PROVE TypeInv'
  BY <1>0, <1>7, <1>r DEF Mark, InRow
<1>8. ASSUME NEW s \in Slot, NEW c \in Engineer, AddEngineer(s, c) PROVE TypeInv'
  <2>0. /\ registered' \subseteq Engineer /\ job[s].pc = "addengineer"
        /\ UNCHANGED <<runs, log, listed, stored>>
    BY <1>0, <1>8 DEF AddEngineer
  <2>1. CASE Throw(s)
    BY <1>0, <1>t, <2>0, <2>1 DEF Ended
  <2>2. ASSUME NEW b \in BOOLEAN, job' = [job EXCEPT ![s] = Visited(@, c, b)]
        PROVE  TypeInv'
    BY <1>0, <1>j, <2>0, <2>2, VisitedFormed, QuietStep
  <2> QED
    BY <1>8, <2>1, <2>2 DEF AddEngineer
<1>9. ASSUME NEW s \in Slot, AfterEngineers(s) PROVE TypeInv'
  <2>1. CASE Return(s, "Failed")
    BY <1>0, <1>9, <1>r, <2>1 DEF AfterEngineers, InRow
  <2>2. CASE job' = [job EXCEPT ![s].pc = "send"]
    BY <1>0, <1>j, <1>9, <2>2, MovedFormed, QuietStep DEF AfterEngineers, InRow
  <2> QED
    BY <1>9, <2>1, <2>2 DEF AfterEngineers
<1>10. ASSUME NEW s \in Slot, SaveRow(s) PROVE TypeInv'
  <2>1. CASE Throw(s) /\ UNCHANGED <<runs, log>>
    BY <1>0, <1>10, <1>t, <2>1 DEF SaveRow, Ended
  <2>2. CASE SaveChanges(s) /\ job' = [job EXCEPT ![s] = EndRow(@)]
    <3>1. runs' \in Seq(RunRow) /\ log' \in Seq(LogRow) /\ DOMAIN runs' = DOMAIN runs
      BY <1>10, <2>2, SaveChangesType DEF SaveRow, Ended
    <3>2. PICK j : j = EndRow(job[s])
      OBVIOUS
    <3>3. j \in Job /\ Formed(j) /\ job' = [job EXCEPT ![s] = j]
      BY <1>j, <1>10, <2>2, <3>2, EndRowFormed DEF SaveRow
    <3>4. Formed(j)'
      BY <3>1, <3>3 DEF Formed
    <3> QED
      BY <1>0, <1>10, <3>1, <3>3, <3>4, JobStep DEF SaveRow
  <2> QED
    BY <1>10, <2>1, <2>2 DEF SaveRow
<1>11. ASSUME NEW s \in Slot, Finally(s) PROVE TypeInv'
  <2>1. runs' \in Seq(RunRow) /\ log' \in Seq(LogRow) /\ DOMAIN runs' = DOMAIN runs
    BY <1>0, <1>11, SaveChangesType DEF Finally, Ended
  <2>2. Formed(NoRun)'
    BY DEF Formed, NoRun, Ended
  <2> QED
    BY <1>0, <1>11, <2>1, <2>2, EndedFormed, JobStep DEF Finally
<1>12. ASSUME NEW s \in Slot, Disconnect(s) PROVE TypeInv'
  BY <1>0, <1>j, <1>12, MovedFormed, QuietStep DEF Disconnect
<1>13. ASSUME NEW s \in Slot, Interrupt(s) PROVE TypeInv'
  <2>1. CASE job' = [job EXCEPT ![s] = [NoRun EXCEPT !.pc = "stopped"]]
    BY <1>0, <1>13, <2>1, EndedFormed, QuietStep DEF Interrupt
  <2>2. CASE job' = [job EXCEPT ![s] = [NoRun EXCEPT !.pc = "idle"]]
    <3>1. [NoRun EXCEPT !.pc = "idle"] = NoRun
      BY DEF NoRun
    <3> QED
      BY <1>0, <1>13, <2>2, <3>1, EndedFormed, QuietStep DEF Interrupt
  <2> QED
    BY <1>13, <2>1, <2>2 DEF Interrupt
<1>14. ASSUME StopHost PROVE TypeInv'
  <2>1. ASSUME NEW s \in Slot PROVE job'[s] \in Job /\ Formed(job'[s])
    <3>1. CASE job'[s] = job[s]
      BY <1>j, <3>1
    <3>2. CASE job'[s] = [job[s] EXCEPT !.cancelled = TRUE]
      BY <1>j, <3>2, MovedFormed
    <3>3. CASE job'[s] = [NoRun EXCEPT !.pc = "stopped"]
      BY <3>3, EndedFormed
    <3> QED
      BY <1>14, <3>1, <3>2, <3>3 DEF StopHost
  <2>2. job' \in [Slot -> Job] /\ UNCHANGED <<runs, log, listed, stored, registered>>
    BY <1>14, <2>1 DEF StopHost
  <2> QED
    BY <1>0, <2>1, <2>2 DEF TypeInv, TypeOK, Formed
<1>15. ASSUME Restart PROVE TypeInv'
  BY <1>0, <1>15, EndedFormed DEF Restart, TypeInv, TypeOK, Formed
<1>16. CASE UNCHANGED vars
  BY <1>16 DEF vars, TypeInv, TypeOK, Formed
<1>17. QED
  BY <1>1, <1>2, <1>3, <1>4, <1>5, <1>6, <1>7, <1>8, <1>9, <1>10, <1>11, <1>12, <1>13,
     <1>14, <1>15, <1>16 DEF Next, Step

\* The tables, the jobs and the municipality's state keep their types, for any
\* number of reports, engineers, slots and runs, and whatever fails.
THEOREM TypeCorrect == Spec => []TypeOK
<1>1. TypeInv => TypeOK
  BY DEF TypeInv
<1>2. QED
  BY <1>1, TypeInit, TypeStep, PTL DEF Spec

-----------------------------------------------------------------------------
(* The counters of a sync run agree with the log, for every set of reports, slots
   and runs and whatever fails.  RunAccounting is not inductive: it speaks of the
   saved rows only, and a row is written from the run its job tracks.  The
   invariant adds the balance each job keeps between its counters, its rows of the
   log, the row it has not saved and the reports it has still to visit; that no two
   jobs track one run; and that no log row names a run that does not exist yet. *)

Due(j, status) == IF j.unsaved /\ j.result = status THEN 1 ELSE 0

Balanced(j) ==
  j.pc \notin Ended =>
    /\ j.bad = Cardinality(LogRowsOf(j.run, "Failed")) + Due(j, "Failed")
    /\ Cardinality(LogRowsOf(j.run, "Success")) + Due(j, "Success") <= j.ok
    /\ j.pc = "list" => j.ok = 0 /\ j.bad = 0
    /\ j.pc \in {"row", "log"} => j.ok + j.bad + Cardinality(j.todo) = j.total
    /\ j.pc \in InRow => j.ok + j.bad + Cardinality(j.todo) + 1 = j.total
    /\ j.status = "Completed" => j.pc = "finally" /\ j.ok + j.bad = j.total

OwnRun ==
  \A s, t \in Slot :
    s # t /\ job[s].pc \notin Ended /\ job[t].pc \notin Ended => job[s].run # job[t].run

LogOfRuns == \A k \in DOMAIN log : log[k].run \in DOMAIN runs

AccountingInv ==
  /\ TypeInv
  /\ \A s \in Slot : Balanced(job[s])
  /\ OwnRun
  /\ LogOfRuns
  /\ RunAccounting

-----------------------------------------------------------------------------
(* Counting the rows of the log. *)
LEMMA CountType ==
  ASSUME log \in Seq(LogRow), NEW i, NEW status
  PROVE  /\ IsFiniteSet(LogRowsOf(i, status))
         /\ Cardinality(LogRowsOf(i, status)) \in Nat
<1>1. LogRowsOf(i, status) \subseteq 1..Len(log)
  BY DEF LogRowsOf
<1>2. IsFiniteSet(1..Len(log))
  BY FS_Interval
<1>3. QED
  BY <1>1, <1>2, FS_Subset, FS_CardinalityType

LEMMA AppendCount ==
  ASSUME log \in Seq(LogRow), NEW e \in LogRow, log' = Append(log, e), NEW i, NEW status
  PROVE  /\ e.run = i /\ e.status = status =>
              Cardinality(LogRowsOf(i, status)') = Cardinality(LogRowsOf(i, status)) + 1
         /\ ~(e.run = i /\ e.status = status) =>
              LogRowsOf(i, status)' = LogRowsOf(i, status)
<1>1. /\ DOMAIN log' = DOMAIN log \cup {Len(log) + 1}
      /\ Len(log) + 1 \notin DOMAIN log
      /\ log'[Len(log) + 1] = e
      /\ \A k \in DOMAIN log : log'[k] = log[k]
  OBVIOUS
<1>2. CASE e.run = i /\ e.status = status
  <2>1. LogRowsOf(i, status)' = LogRowsOf(i, status) \cup {Len(log) + 1}
    BY <1>1, <1>2 DEF LogRowsOf
  <2>2. Len(log) + 1 \notin LogRowsOf(i, status)
    BY <1>1 DEF LogRowsOf
  <2> QED
    BY <1>2, <2>1, <2>2, CountType, FS_AddElement
<1>3. CASE ~(e.run = i /\ e.status = status)
  BY <1>1, <1>3 DEF LogRowsOf
<1>4. QED
  BY <1>2, <1>3

LEMMA LeftType ==
  ASSUME NEW j \in Job
  PROVE  /\ IsFiniteSet(j.todo) /\ Cardinality(j.todo) \in Nat
         /\ \A p \in j.todo : Cardinality(j.todo \ {p}) = Cardinality(j.todo) - 1
<1>1. IsFiniteSet(j.todo)
  BY FS_Subset DEF Job
<1>2. QED
  BY <1>1, FS_CardinalityType, FS_RemoveElement

-----------------------------------------------------------------------------
(* The updates of a job keep its balance. *)
LEMMA ThrownBalanced ==
  ASSUME NEW j \in Job, Balanced(j), j.pc \notin Ended
  PROVE  Balanced(Thrown(j)) /\ Thrown(j).run = j.run
BY DEF Thrown, Job, Balanced, Due, InRow, Ended

LEMMA ListedBalanced ==
  ASSUME TypeOK, NEW j \in Job, Balanced(j), j.pc = "list"
  PROVE  Balanced(Listed(j)) /\ Listed(j).run = j.run
<1>1. Cardinality(listed) \in Nat
  BY FS_Subset, FS_CardinalityType DEF TypeOK
<1>2. QED
  BY <1>1 DEF Listed, Job, Balanced, Due, InRow, Ended

LEMMA SkippedBalanced ==
  ASSUME TypeOK, NEW j \in Job, NEW p \in j.todo, Balanced(j), j.pc = "row"
  PROVE  Balanced(Skipped(j, p)) /\ Skipped(j, p).run = j.run
<1> DEFINE t == j.todo \ {p}
           n == j.ok + 1
<1>1. /\ Cardinality(t) = Cardinality(j.todo) - 1 /\ Cardinality(j.todo) \in Nat
      /\ n = j.ok + 1 /\ j.ok \in Nat /\ j.bad \in Nat /\ j.total \in Nat
  BY LeftType DEF Job
<1>2. Skipped(j, p) = [j EXCEPT !.todo = t, !.ok = n]
  BY DEF Skipped
<1>3. Cardinality(LogRowsOf(j.run, "Success")) \in Nat
  BY CountType DEF TypeOK
<1> HIDE DEF t, n
<1>4. QED
  BY <1>1, <1>2, <1>3 DEF Job, Balanced, Due, InRow, Ended

LEMMA PickedBalanced ==
  ASSUME NEW j \in Job, NEW p \in j.todo, NEW n \in Nat, Balanced(j), j.pc = "row"
  PROVE  Balanced(Picked(j, p, n)) /\ Picked(j, p, n).run = j.run
<1> DEFINE t == j.todo \ {p}
<1>1. /\ Cardinality(t) = Cardinality(j.todo) - 1 /\ Cardinality(j.todo) \in Nat
      /\ j.ok \in Nat /\ j.bad \in Nat /\ j.total \in Nat
  BY LeftType DEF Job
<1>2. Picked(j, p, n) = [j EXCEPT !.pc = "prepare", !.todo = t, !.row = p, !.attempt = n]
  BY DEF Picked
<1> HIDE DEF t
<1>3. QED
  BY <1>1, <1>2 DEF Job, Balanced, Due, InRow, Ended

LEMMA ReturnedBalanced ==
  ASSUME TypeOK, NEW j \in Job, NEW r \in {"Success", "Failed"}, Formed(j), Balanced(j),
         j.pc \in InRow
  PROVE  Balanced(Returned(j, r)) /\ Returned(j, r).run = j.run
<1>1. /\ Cardinality(j.todo) \in Nat /\ j.ok \in Nat /\ j.bad \in Nat /\ j.total \in Nat
      /\ Cardinality(LogRowsOf(j.run, "Success")) \in Nat
      /\ Cardinality(LogRowsOf(j.run, "Failed")) \in Nat
  BY LeftType, CountType DEF Job, TypeOK
<1>2. /\ j.bad = Cardinality(LogRowsOf(j.run, "Failed"))
      /\ Cardinality(LogRowsOf(j.run, "Success")) <= j.ok
      /\ j.ok + j.bad + Cardinality(j.todo) + 1 = j.total
      /\ j.status # "Completed"
  BY <1>1 DEF Formed, Balanced, Due, InRow, Ended
<1> DEFINE k == Returned(j, r)
<1>3. /\ k.pc = "log" /\ k.run = j.run /\ k.todo = j.todo /\ k.total = j.total
      /\ k.status = j.status /\ k.unsaved = TRUE /\ k.result = r
      /\ k.ok = j.ok + (IF r = "Success" THEN 1 ELSE 0)
      /\ k.bad = j.bad + (IF r = "Success" THEN 0 ELSE 1)
  <2>1. CASE r = "Success"
    BY <2>1, <1>1 DEF Returned, Counted, Job
  <2>2. CASE r = "Failed"
    BY <2>2, <1>1 DEF Returned, Counted, Job
  <2> QED
    BY <2>1, <2>2
<1> HIDE DEF k
<1>4. Balanced(k)
  BY <1>1, <1>2, <1>3 DEF Balanced, Due, InRow, Ended
<1>5. QED
  BY <1>3, <1>4 DEF k

LEMMA VisitedBalanced ==
  ASSUME NEW j \in Job, NEW c \in Engineer, NEW b \in BOOLEAN, Balanced(j),
         j.pc = "addengineer"
  PROVE  Balanced(Visited(j, c, b)) /\ Visited(j, c, b).run = j.run
<1> DEFINE u == j.unknown \ {c}
           d == j.created \/ b
<1>1. Visited(j, c, b) = [j EXCEPT !.unknown = u, !.created = d]
  BY DEF Visited
<1> HIDE DEF u, d
<1>2. QED
  BY <1>1 DEF Job, Balanced, Due, InRow, Ended

LEMMA MovedBalanced ==
  ASSUME NEW j \in Job, Balanced(j)
  PROVE  /\ \A pc \in InRow : j.pc \in InRow =>
              LET k == [j EXCEPT !.pc = pc] IN Balanced(k) /\ k.run = j.run
         /\ j.pc = "row" /\ j.todo = {} =>
              LET k == [j EXCEPT !.pc = "finally", !.status = "Completed"]
              IN  Balanced(k) /\ k.run = j.run
<1>1. ASSUME NEW pc \in InRow, j.pc \in InRow, NEW k, k = [j EXCEPT !.pc = pc]
      PROVE  Balanced(k) /\ k.run = j.run
  BY <1>1 DEF Job, Balanced, Due, InRow, Ended
<1>2. ASSUME j.pc = "row", j.todo = {}, NEW k,
             k = [j EXCEPT !.pc = "finally", !.status = "Completed"]
      PROVE  Balanced(k) /\ k.run = j.run
  <2>1. Cardinality(j.todo) = 0
    BY <1>2, FS_EmptySet
  <2> QED
    BY <1>2, <2>1 DEF Job, Balanced, Due, InRow, Ended
<1>3. QED
  BY <1>1, <1>2

LEMMA RefusedBalanced ==
  ASSUME NEW j \in Job, Balanced(j), j.pc \in InRow, NEW u, NEW k,
         k = [j EXCEPT !.pc = "addengineer", !.unknown = u]
  PROVE  Balanced(k) /\ k.run = j.run
BY DEF Job, Balanced, Due, InRow, Ended

LEMMA CancelledBalanced ==
  ASSUME NEW j \in Job, Balanced(j), NEW k, k = [j EXCEPT !.cancelled = TRUE]
  PROVE  Balanced(k) /\ k.run = j.run /\ k.pc = j.pc
BY DEF Job, Balanced, Due, InRow, Ended

-----------------------------------------------------------------------------
LEMMA AccountingInit == Init => AccountingInv
<1> SUFFICES ASSUME Init PROVE AccountingInv
  OBVIOUS
<1>1. TypeInv
  BY TypeInit
<1>2. runs = <<>> /\ log = <<>> /\ job = [s \in Slot |-> NoRun]
  BY DEF Init
<1>3. QED
  BY <1>1, <1>2 DEF AccountingInv, Balanced, OwnRun, LogOfRuns, RunAccounting, NoRun, Ended

\* A step that writes no table keeps every job on its run, or ends the job.
LEMMA QuietBalance ==
  ASSUME AccountingInv, TypeInv', runs' = runs, log' = log,
         \A s \in Slot : Balanced(job'[s]),
         \A s \in Slot : job'[s].pc \notin Ended =>
           job[s].pc \notin Ended /\ job'[s].run = job[s].run
  PROVE  AccountingInv'
<1>1. \A i, status : LogRowsOf(i, status)' = LogRowsOf(i, status)
  BY DEF LogRowsOf
<1>2. \A s \in Slot : Balanced(job[s])'
  BY <1>1 DEF Balanced, Due
<1>3. OwnRun' /\ LogOfRuns'
  BY DEF AccountingInv, OwnRun, LogOfRuns
<1>4. RunAccounting'
  BY <1>1 DEF AccountingInv, RunAccounting
<1>5. QED
  BY <1>2, <1>3, <1>4 DEF AccountingInv

\* The same for the step of one slot.
LEMMA QuietJob ==
  ASSUME AccountingInv, TypeInv', runs' = runs, log' = log, NEW s \in Slot, NEW j,
         job' = [job EXCEPT ![s] = j], Balanced(j), job[s].pc \notin Ended,
         j.run = job[s].run
  PROVE  AccountingInv'
<1>1. job'[s] = j /\ \A t \in Slot \ {s} : job'[t] = job[t]
  BY DEF AccountingInv, TypeInv, TypeOK
<1>2. /\ \A t \in Slot : Balanced(job'[t])
      /\ \A t \in Slot : job'[t].pc \notin Ended =>
           job[t].pc \notin Ended /\ job'[t].run = job[t].run
  BY <1>1 DEF AccountingInv
<1>3. QED
  BY <1>2, QuietBalance

\* SaveChanges makes the row of the run and the log agree again, and with them
\* the counters the job goes on with.
LEMMA SaveBalance ==
  ASSUME AccountingInv, TypeInv', NEW s \in Slot, job[s].pc \notin Ended, SaveChanges(s),
         \A t \in Slot \ {s} : job'[t] = job[t],
         job'[s].pc \in Ended \cup {"row"},
         job'[s].pc = "row" =>
           /\ job[s].pc = "log" /\ job[s].unsaved /\ ~job'[s].unsaved
           /\ \A f \in {"run", "todo", "total", "ok", "bad", "status"} :
                job'[s][f] = job[s][f]
  PROVE  AccountingInv'
<1>j. PICK j : j = job[s]
  OBVIOUS
<1>i. PICK i : i = j.run
  OBVIOUS
<1>0. /\ TypeInv /\ TypeOK /\ j \in Job /\ Balanced(j) /\ Formed(j)
      /\ runs \in Seq(RunRow) /\ log \in Seq(LogRow) /\ i \in DOMAIN runs
  BY <1>j, <1>i DEF AccountingInv, TypeInv, TypeOK, Formed
<1>1. j.unsaved => Entry(s) \in LogRow /\ Entry(s).run = i /\ Entry(s).status = j.result
  BY <1>0, <1>i, <1>j, SaveChangesType DEF Entry
<1>2. \A r, status : Cardinality(LogRowsOf(r, status)) \in Nat
  BY <1>0, CountType
<1>3. ASSUME NEW status \in {"Success", "Failed"}
      PROVE  Cardinality(LogRowsOf(i, status)') =
               Cardinality(LogRowsOf(i, status)) + Due(j, status)
  <2>1. CASE j.unsaved
    <3>1. log' = Append(log, Entry(s)) /\ Entry(s) \in LogRow
      BY <1>1, <1>j, <2>1 DEF SaveChanges
    <3>2. CASE j.result = status
      BY <1>0, <1>1, <2>1, <3>1, <3>2, AppendCount DEF Due
    <3>3. CASE j.result # status
      <4>1. LogRowsOf(i, status)' = LogRowsOf(i, status)
        BY <1>0, <1>1, <2>1, <3>1, <3>3, AppendCount
      <4> QED
        BY <1>2, <2>1, <3>3, <4>1 DEF Due
    <3> QED
      BY <3>2, <3>3
  <2>2. CASE ~j.unsaved
    <3>1. LogRowsOf(i, status)' = LogRowsOf(i, status)
      BY <1>j, <2>2 DEF SaveChanges, LogRowsOf
    <3> QED
      BY <1>2, <2>2, <3>1 DEF Due
  <2> QED
    BY <2>1, <2>2
<1>4. ASSUME NEW r, r # i, NEW status PROVE LogRowsOf(r, status)' = LogRowsOf(r, status)
  <2>1. CASE j.unsaved
    <3>1. log' = Append(log, Entry(s))
      BY <1>j, <2>1 DEF SaveChanges
    <3> QED
      BY <1>0, <1>1, <1>4, <2>1, <3>1, AppendCount
  <2>2. CASE ~j.unsaved
    BY <1>j, <2>2 DEF SaveChanges, LogRowsOf
  <2> QED
    BY <2>1, <2>2
<1>5. /\ DOMAIN runs' = DOMAIN runs
      /\ runs'[i].status = j.status /\ runs'[i].total = j.total
      /\ runs'[i].ok = j.ok /\ runs'[i].bad = j.bad
      /\ \A r \in DOMAIN runs \ {i} : runs'[r] = runs[r]
  <2> DEFINE r == [runs[i] EXCEPT !.status = j.status, !.total = j.total,
                                  !.ok = j.ok, !.bad = j.bad]
  <2>1. runs' = [runs EXCEPT ![i] = r]
    BY <1>i, <1>j, Zenon DEF SaveChanges
  <2>2. runs[i] \in RunRow
    BY <1>0
  <2>3. r.status = j.status /\ r.total = j.total /\ r.ok = j.ok /\ r.bad = j.bad
    BY <2>2 DEF RunRow
  <2> HIDE DEF r
  <2> QED
    BY <1>0, <2>1, <2>3
<1>6. RunAccounting'
  <2>1. ASSUME NEW r \in DOMAIN runs'
        PROVE  /\ runs'[r].bad = Cardinality(LogRowsOf(r, "Failed")')
               /\ Cardinality(LogRowsOf(r, "Success")') <= runs'[r].ok
               /\ runs'[r].status = "Completed" =>
                    runs'[r].ok + runs'[r].bad = runs'[r].total
    <3>1. CASE r = i
      <4>1. /\ j.bad = Cardinality(LogRowsOf(i, "Failed")) + Due(j, "Failed")
            /\ Cardinality(LogRowsOf(i, "Success")) + Due(j, "Success") <= j.ok
            /\ j.status = "Completed" => j.ok + j.bad = j.total
        BY <1>0, <1>i, <1>j DEF Balanced
      <4> QED
        BY <1>3, <1>5, <3>1, <4>1
    <3>2. CASE r # i
      BY <1>4, <1>5, <3>2 DEF AccountingInv, RunAccounting
    <3> QED
      BY <3>1, <3>2
  <2> QED
    BY <2>1 DEF RunAccounting
<1>7. \A t \in Slot : Balanced(job[t])'
  <2>1. ASSUME NEW t \in Slot \ {s} PROVE Balanced(job[t])'
    <3>1. CASE job[t].pc \in Ended
      BY <2>1, <3>1 DEF Balanced
    <3>2. CASE job[t].pc \notin Ended
      <4>1. job[t].run # i
        BY <1>i, <1>j, <3>2 DEF AccountingInv, OwnRun
      <4>2. Balanced(job[t]) /\ job'[t] = job[t]
        BY DEF AccountingInv
      <4>3. \A status : LogRowsOf(job[t].run, status)' = LogRowsOf(job[t].run, status)
        BY <1>4, <4>1
      <4> QED
        BY <4>2, <4>3 DEF Balanced, Due
    <3> QED
      BY <3>1, <3>2
  <2>2. Balanced(job[s])'
    <3>1. CASE job'[s].pc \in Ended
      BY <3>1 DEF Balanced
    <3>2. CASE job'[s].pc = "row"
      <4>1. /\ job'[s].run = i /\ job'[s].todo = j.todo /\ job'[s].total = j.total
            /\ job'[s].ok = j.ok /\ job'[s].bad = j.bad /\ job'[s].status = j.status
            /\ j.pc = "log" /\ job'[s].unsaved = FALSE
        BY <1>0, <1>i, <1>j, <3>2 DEF AccountingInv, TypeInv, TypeOK, Job
      <4>2. /\ j.bad = Cardinality(LogRowsOf(i, "Failed")')
            /\ Cardinality(LogRowsOf(i, "Success")') <= j.ok
            /\ j.ok + j.bad + Cardinality(j.todo) = j.total
            /\ j.status # "Completed"
        BY <1>0, <1>3, <1>i, <4>1 DEF Balanced, Ended
      <4>3. /\ LogRowsOf(job[s].run, "Failed")' = LogRowsOf(i, "Failed")'
            /\ LogRowsOf(job[s].run, "Success")' = LogRowsOf(i, "Success")'
        BY <4>1 DEF LogRowsOf
      <4>4. Due(job[s], "Failed")' = 0 /\ Due(job[s], "Success")' = 0
        BY <4>1 DEF Due
      <4>5. /\ Cardinality(LogRowsOf(i, "Failed")') \in Nat
            /\ Cardinality(LogRowsOf(i, "Success")') \in Nat
        BY <1>0, <4>2, <1>3, <1>2 DEF Due, Job
      <4> QED
        BY <3>2, <4>1, <4>2, <4>3, <4>4, <4>5 DEF Balanced, InRow
    <3> QED
      BY <3>1, <3>2
  <2> QED
    BY <2>1, <2>2, Zenon
<1>8. OwnRun'
  BY DEF AccountingInv, OwnRun, Ended
<1>9. LogOfRuns'
  BY <1>0, <1>1, <1>5, <1>j DEF AccountingInv, LogOfRuns, SaveChanges
<1>10. QED
  BY <1>6, <1>7, <1>8, <1>9 DEF AccountingInv

\* A new run has no rows in the log.
LEMMA StartBalance ==
  ASSUME AccountingInv, TypeInv', NEW s \in Slot, Start(s)
  PROVE  AccountingInv'
<1>0. /\ runs \in Seq(RunRow) /\ log \in Seq(LogRow) /\ job \in [Slot -> Job]
      /\ Len(runs) \in Nat
  BY DEF AccountingInv, TypeInv, TypeOK
<1>i. PICK i : i = Len(runs) + 1
  OBVIOUS
<1>1. /\ DOMAIN runs' = DOMAIN runs \cup {i} /\ i \notin DOMAIN runs /\ i \in Nat
      /\ \A r \in DOMAIN runs : runs'[r] = runs[r]
      /\ runs'[i].bad = 0 /\ runs'[i].ok = 0 /\ runs'[i].status = "Running"
  BY <1>0, <1>i DEF Start
<1>2. log' = log /\ \A status : LogRowsOf(i, status) = {}
  BY <1>1 DEF Start, AccountingInv, LogOfRuns, LogRowsOf
<1>3. \A r, status : LogRowsOf(r, status)' = LogRowsOf(r, status)
  BY <1>2 DEF LogRowsOf
<1>4. /\ job'[s] = Started(i)
      /\ \A t \in Slot \ {s} : job'[t] = job[t]
  BY <1>0, <1>i DEF Start
<1>5. /\ Started(i).pc = "list" /\ Started(i).run = i /\ Started(i).unsaved = FALSE
      /\ Started(i).ok = 0 /\ Started(i).bad = 0 /\ Started(i).status = "Running"
  BY DEF Started, NoRun
<1>6. Balanced(Started(i))
  <2>1. Cardinality(LogRowsOf(i, "Failed")) = 0 /\ Cardinality(LogRowsOf(i, "Success")) = 0
    BY <1>2, FS_EmptySet
  <2> QED
    BY <1>5, <2>1 DEF Balanced, Due, InRow
<1>7. \A t \in Slot : Balanced(job'[t])
  BY <1>4, <1>6 DEF AccountingInv
<1>8. \A t \in Slot : Balanced(job[t])'
  BY <1>3, <1>7 DEF Balanced, Due
<1>9. \A t \in Slot : job[t].pc \notin Ended => job[t].run \in DOMAIN runs
  BY DEF AccountingInv, TypeInv, Formed
<1>10. OwnRun'
  BY <1>1, <1>4, <1>5, <1>9 DEF AccountingInv, OwnRun
<1>11. LogOfRuns'
  BY <1>1, <1>2 DEF AccountingInv, LogOfRuns
<1>12. RunAccounting'
  <2>1. ASSUME NEW r \in DOMAIN runs'
        PROVE  /\ runs'[r].bad = Cardinality(LogRowsOf(r, "Failed")')
               /\ Cardinality(LogRowsOf(r, "Success")') <= runs'[r].ok
               /\ runs'[r].status = "Completed" =>
                    runs'[r].ok + runs'[r].bad = runs'[r].total
    <3>1. CASE r = i
      <4>1. LogRowsOf(r, "Failed")' = {} /\ LogRowsOf(r, "Success")' = {}
        BY <1>2, <1>3, <3>1
      <4> QED
        BY <1>1, <3>1, <4>1, FS_EmptySet
    <3>2. CASE r # i
      BY <1>1, <1>3, <3>2 DEF AccountingInv, RunAccounting
    <3> QED
      BY <3>1, <3>2
  <2> QED
    BY <2>1 DEF RunAccounting
<1>13. QED
  BY <1>8, <1>10, <1>11, <1>12 DEF AccountingInv

-----------------------------------------------------------------------------
LEMMA AccountingStep == AccountingInv /\ [Next]_vars => AccountingInv'
<1> SUFFICES ASSUME AccountingInv, [Next]_vars PROVE AccountingInv'
  OBVIOUS
<1> USE DEF At
<1>0. TypeInv /\ TypeInv' /\ TypeOK /\ job \in [Slot -> Job]
  BY TypeStep DEF AccountingInv, TypeInv, TypeOK
<1>j. \A s \in Slot : job[s] \in Job /\ Formed(job[s]) /\ Balanced(job[s])
  BY DEF AccountingInv, TypeInv, TypeOK
<1>t. ASSUME NEW s \in Slot, Throw(s), job[s].pc \notin Ended, UNCHANGED <<runs, log>>
      PROVE  AccountingInv'
  BY <1>0, <1>j, <1>t, ThrownBalanced, QuietJob DEF Throw
<1>r. ASSUME NEW s \in Slot, Return(s, "Success") \/ Return(s, "Failed"),
             job[s].pc \in InRow, UNCHANGED <<runs, log>>
      PROVE  AccountingInv'
  BY <1>0, <1>j, <1>r, ReturnedBalanced, QuietJob DEF Return, InRow, Ended
<1>p. ASSUME NEW s \in Slot, NEW pc \in InRow, job' = [job EXCEPT ![s].pc = pc],
             job[s].pc \in InRow, UNCHANGED <<runs, log>>
      PROVE  AccountingInv'
  BY <1>0, <1>j, <1>p, MovedBalanced, QuietJob DEF InRow, Ended
<1>1. ASSUME NEW s \in Slot, Start(s) PROVE AccountingInv'
  BY <1>0, <1>1, StartBalance
<1>2. ASSUME NEW s \in Slot, List(s) PROVE AccountingInv'
  <2>1. CASE Throw(s)
    BY <1>2, <1>t, <2>1 DEF List, Ended
  <2>2. CASE job' = [job EXCEPT ![s] = Listed(@)]
    BY <1>0, <1>j, <1>2, <2>2, ListedBalanced, QuietJob DEF List, Ended
  <2> QED
    BY <1>2, <2>1, <2>2 DEF List
<1>3. ASSUME NEW s \in Slot, NEW p \in Report, PickRow(s, p) PROVE AccountingInv'
  <2> DEFINE n == LastAttempt(WorkerOf[s], p) + 1
  <2>0. n \in Nat
    BY <1>0, AttemptType
  <2> HIDE DEF n
  <2>1. CASE Throw(s)
    BY <1>3, <1>t, <2>1 DEF PickRow, Ended
  <2>2. CASE job' = [job EXCEPT ![s] = Skipped(@, p)]
    BY <1>0, <1>j, <1>3, <2>2, SkippedBalanced, QuietJob DEF PickRow, Ended
  <2>3. CASE job' = [job EXCEPT ![s] = Picked(@, p, n)]
    BY <1>0, <1>j, <1>3, <2>0, <2>3, PickedBalanced, QuietJob DEF PickRow, Ended
  <2> QED
    BY <1>3, <2>1, <2>2, <2>3 DEF PickRow, n
<1>4. ASSUME NEW s \in Slot, Complete(s) PROVE AccountingInv'
  BY <1>0, <1>j, <1>4, MovedBalanced, QuietJob DEF Complete, Ended
<1>5. ASSUME NEW s \in Slot, Prepare(s) PROVE AccountingInv'
  <2>1. CASE Throw(s)
    BY <1>5, <1>t, <2>1 DEF Prepare, Ended
  <2>2. CASE Return(s, "Failed")
    BY <1>5, <1>r, <2>2 DEF Prepare, InRow
  <2>3. CASE job' = [job EXCEPT ![s].pc = "send"]
    BY <1>5, <1>p, <2>3 DEF Prepare, InRow
  <2> QED
    BY <1>5, <2>1, <2>2, <2>3 DEF Prepare
<1>6. ASSUME NEW s \in Slot, Send(s) PROVE AccountingInv'
  <2>0. UNCHANGED <<runs, log>> /\ job[s].pc = "send"
    BY <1>6 DEF Send
  <2>1. \/ Throw(s) \/ Return(s, "Success") \/ Return(s, "Failed")
        \/ job' = [job EXCEPT ![s].pc = "mark"]
        \/ \E u : job' = [job EXCEPT ![s] = [@ EXCEPT !.pc = "addengineer", !.unknown = u]]
    BY <1>6, Zenon DEF Send
  <2>2. ASSUME NEW u,
               job' = [job EXCEPT ![s] = [@ EXCEPT !.pc = "addengineer", !.unknown = u]]
        PROVE  AccountingInv'
    <3>1. PICK k : k = [job[s] EXCEPT !.pc = "addengineer", !.unknown = u]
      OBVIOUS
    <3>2. Balanced(k) /\ k.run = job[s].run
      BY <1>j, <2>0, <3>1, RefusedBalanced DEF InRow
    <3>3. job' = [job EXCEPT ![s] = k]
      BY <2>2, <3>1
    <3> QED
      BY <1>0, <2>0, <3>2, <3>3, QuietJob DEF Ended
  <2>3. CASE Throw(s)
    BY <1>t, <2>0, <2>3 DEF Ended
  <2>4. CASE Return(s, "Success") \/ Return(s, "Failed")
    BY <1>r, <2>0, <2>4 DEF InRow
  <2>5. CASE job' = [job EXCEPT ![s].pc = "mark"]
    BY <1>p, <2>0, <2>5 DEF InRow
  <2> QED
    BY <2>1, <2>2, <2>3, <2>4, <2>5
<1>7. ASSUME NEW s \in Slot, Mark(s) PROVE AccountingInv'
  BY <1>7, <1>r DEF Mark, InRow
<1>8. ASSUME NEW s \in Slot, NEW c \in Engineer, AddEngineer(s, c) PROVE AccountingInv'
  <2>0. UNCHANGED <<runs, log>> /\ job[s].pc = "addengineer"
    BY <1>8 DEF AddEngineer
  <2>1. CASE Throw(s)
    BY <1>t, <2>0, <2>1 DEF Ended
  <2>2. ASSUME NEW b \in BOOLEAN, job' = [job EXCEPT ![s] = Visited(@, c, b)]
        PROVE  AccountingInv'
    BY <1>0, <1>j, <2>0, <2>2, VisitedBalanced, QuietJob DEF Ended
  <2> QED
    BY <1>8, <2>1, <2>2 DEF AddEngineer
<1>9. ASSUME NEW s \in Slot, AfterEngineers(s) PROVE AccountingInv'
  <2>1. CASE Return(s, "Failed")
    BY <1>9, <1>r, <2>1 DEF AfterEngineers, InRow
  <2>2. CASE job' = [job EXCEPT ![s].pc = "send"]
    BY <1>9, <1>p, <2>2 DEF AfterEngineers, InRow
  <2> QED
    BY <1>9, <2>1, <2>2 DEF AfterEngineers
<1>10. ASSUME NEW s \in Slot, SaveRow(s) PROVE AccountingInv'
  <2>1. CASE Throw(s) /\ UNCHANGED <<runs, log>>
    BY <1>10, <1>t, <2>1 DEF SaveRow, Ended
  <2>2. CASE SaveChanges(s) /\ job' = [job EXCEPT ![s] = EndRow(@)]
    <3>1. job'[s] = EndRow(job[s]) /\ \A t \in Slot \ {s} : job'[t] = job[t]
      BY <1>0, <2>2
    <3>2. job[s].pc = "log" /\ job[s].unsaved
      BY <1>j, <1>10 DEF SaveRow, Formed, Ended
    <3>3. /\ EndRow(job[s]).pc = "row" /\ EndRow(job[s]).unsaved = FALSE
          /\ \A f \in {"run", "todo", "total", "ok", "bad", "status"} :
               EndRow(job[s])[f] = job[s][f]
      BY <1>j DEF EndRow, EndLocals, Job
    <3> QED
      BY <1>0, <2>2, <3>1, <3>2, <3>3, SaveBalance DEF Ended
  <2> QED
    BY <1>10, <2>1, <2>2 DEF SaveRow
<1>11. ASSUME NEW s \in Slot, Finally(s) PROVE AccountingInv'
  <2>1. job'[s].pc = "idle" /\ \A t \in Slot \ {s} : job'[t] = job[t]
    BY <1>0, <1>11 DEF Finally, NoRun
  <2>2. CASE SaveChanges(s)
    BY <1>0, <1>11, <2>1, <2>2, SaveBalance DEF Finally, Ended
  <2>3. CASE UNCHANGED <<runs, log>>
    <3>1. \A t \in Slot : Balanced(job'[t])
      BY <1>j, <2>1 DEF Balanced, Ended
    <3> QED
      BY <1>0, <2>1, <2>3, <3>1, QuietBalance DEF Ended
  <2> QED
    BY <1>11, <2>2, <2>3 DEF Finally
<1>12. ASSUME NEW s \in Slot, Disconnect(s) PROVE AccountingInv'
  <2>1. PICK k : k = [job[s] EXCEPT !.cancelled = TRUE]
    OBVIOUS
  <2>2. Balanced(k) /\ k.run = job[s].run /\ job' = [job EXCEPT ![s] = k]
    BY <1>j, <1>12, <2>1, CancelledBalanced DEF Disconnect
  <2> QED
    BY <1>0, <1>12, <2>2, QuietJob DEF Disconnect, Active, Ended
<1>13. ASSUME NEW s \in Slot, Interrupt(s) PROVE AccountingInv'
  <2>1. job'[s].pc \in Ended /\ \A t \in Slot \ {s} : job'[t] = job[t]
    BY <1>0, <1>13 DEF Interrupt, NoRun, Ended
  <2>2. \A t \in Slot : Balanced(job'[t])
    BY <1>j, <2>1 DEF Balanced
  <2> QED
    BY <1>0, <1>13, <2>1, <2>2, QuietBalance DEF Interrupt
<1>14. ASSUME StopHost PROVE AccountingInv'
  <2>1. ASSUME NEW s \in Slot
        PROVE  /\ Balanced(job'[s])
               /\ job'[s].pc \notin Ended =>
                    job[s].pc \notin Ended /\ job'[s].run = job[s].run
    <3>1. CASE job'[s] = job[s]
      BY <1>j, <3>1
    <3>2. CASE job'[s] = [job[s] EXCEPT !.cancelled = TRUE]
      <4>1. PICK k : k = [job[s] EXCEPT !.cancelled = TRUE]
        OBVIOUS
      <4>2. Balanced(k) /\ k.run = job[s].run /\ k.pc = job[s].pc
        BY <1>j, <4>1, CancelledBalanced
      <4> QED
        BY <3>2, <4>1, <4>2
    <3>3. CASE job'[s] = [NoRun EXCEPT !.pc = "stopped"]
      BY <3>3 DEF Balanced, NoRun, Ended
    <3> QED
      BY <1>14, <3>1, <3>2, <3>3 DEF StopHost
  <2> QED
    BY <1>0, <1>14, <2>1, QuietBalance DEF StopHost
<1>15. ASSUME Restart PROVE AccountingInv'
  BY <1>0, <1>15, QuietBalance DEF Restart, Balanced, NoRun, Ended
<1>16. CASE UNCHANGED vars
  BY <1>0, <1>j, <1>16, QuietBalance DEF vars
<1>17. QED
  BY <1>1, <1>2, <1>3, <1>4, <1>5, <1>6, <1>7, <1>8, <1>9, <1>10, <1>11, <1>12, <1>13,
     <1>14, <1>15, <1>16 DEF Next, Step

\* FailedCount, SuccessCount and TotalCount of every run agree with the log at
\* every moment the database can be read, for any number of overlapping runs of
\* both workers and whatever fails, is cancelled or crashes.
THEOREM RunAccountingHolds == Spec => []RunAccounting
<1>1. AccountingInv => RunAccounting
  BY DEF AccountingInv
<1>2. QED
  BY <1>1, AccountingInit, AccountingStep, PTL DEF Spec

-----------------------------------------------------------------------------
HasReport(p) == stored["SaveEngineerReport"][p] > 0

Claims(s) ==
  \/ job[s].pc = "mark"
  \/ job[s].unsaved /\ job[s].result = "Success" /\ WorkerOf[s] = "SaveEngineerReport"

Honoured(s) == job[s].pc \notin Ended /\ Claims(s) => HasReport(job[s].row)

MarksReports(s) == job[s].pc = "mark" => WorkerOf[s] = "SaveEngineerReport"

StoredInv ==
  /\ TypeInv
  /\ \A s \in Slot : Honoured(s) /\ MarksReports(s)
  /\ ReportSuccessIsStored
  /\ UnlistedIsStored

\* The report parser only returns success for an answer that confirms the file,
\* so a success means that it was stored.
LEMMA ReportSuccess ==
  ASSUME NEW o \in ReportOutcome \cup Lost, o.result.verdict = "success"
  PROVE  o.stored
<1>1. CASE o \in Lost
  BY <1>1 DEF Lost, Throws
<1>2. CASE o \in ReportOutcome
  <2>1. PICK sb \in BOOLEAN \X ReportBody :
          /\ o = [stored |-> sb[1], documented |-> TRUE,
                  result |-> ParseSaveEngineerReport(sb[2])]
          /\ Honest(sb[1], sb[2], ParseSaveEngineerReport(sb[2]), ReportConfirms(sb[2]))
    BY <1>2, Zenon DEF ReportOutcome
  <2>2. ParseSaveEngineerReport(sb[2]).verdict = "success"
    BY <2>1
  <2>3. sb[2].json = "object" /\ sb[2].report = "true"
    <3>1. sb[2].json \in {"text", "array", "object"}
      BY DEF ReportBody, NotObject
    <3> QED
      BY <2>2, <3>1 DEF ParseSaveEngineerReport, Succeeded, Refused, Throws, ErrorResult
  <2>4. o.stored = sb[1]
    BY <2>1
  <2> QED
    BY <2>1, <2>2, <2>3, <2>4 DEF Honest, ReportConfirms
<1>3. QED
  BY <1>1, <1>2

LEMMA StoredInit == Init => StoredInv
<1> SUFFICES ASSUME Init PROVE StoredInv
  OBVIOUS
<1>1. TypeInv
  BY TypeInit
<1>2. log = <<>> /\ listed = Report /\ job = [s \in Slot |-> NoRun]
  BY DEF Init
<1>3. QED
  BY <1>1, <1>2 DEF StoredInv, Honoured, MarksReports, Claims, ReportSuccessIsStored,
                    UnlistedIsStored, NoRun, Ended

\* Submissions are never taken back, so a step that writes no log row and only
\* takes stored reports off the list need only leave every job honoured.
LEMMA JobHonoured ==
  ASSUME StoredInv, TypeInv', log' = log,
         \A p \in Report : HasReport(p) => HasReport(p)',
         \A p \in listed \ listed' : HasReport(p)',
         \A s \in Slot : Honoured(s)' /\ MarksReports(s)'
  PROVE  StoredInv'
<1>1. ReportSuccessIsStored'
  <2>1. \A k \in DOMAIN log : log[k].peygiri \in Report
    <3>1. \A k \in DOMAIN log : log[k] \in LogRow
      BY DEF StoredInv, TypeInv, TypeOK
    <3> QED
      BY <3>1 DEF LogRow
  <2> QED
    BY <2>1 DEF StoredInv, ReportSuccessIsStored, HasReport
<1>2. UnlistedIsStored'
  BY DEF StoredInv, UnlistedIsStored, HasReport
<1>3. QED
  BY <1>1, <1>2 DEF StoredInv

\* The same for the step of one slot.
LEMMA SlotHonoured ==
  ASSUME StoredInv, TypeInv', NEW s \in Slot, log' = log,
         \A p \in Report : HasReport(p) => HasReport(p)',
         \A p \in listed \ listed' : HasReport(p)',
         \A t \in Slot \ {s} : job'[t] = job[t],
         Honoured(s)', MarksReports(s)'
  PROVE  StoredInv'
<1>1. ASSUME NEW t \in Slot \ {s} PROVE Honoured(t)' /\ MarksReports(t)'
  <2>1. job'[t] = job[t] /\ Honoured(t) /\ MarksReports(t) /\ Formed(job[t])
    BY DEF StoredInv, TypeInv
  <2>2. job[t].pc \notin Ended /\ Claims(t) => job[t].row \in Report
    BY <2>1 DEF Claims, Formed, InRow, Ended
  <2> QED
    BY <2>1, <2>2 DEF Honoured, MarksReports, Claims, HasReport
<1>2. \A t \in Slot : Honoured(t)' /\ MarksReports(t)'
  BY <1>1, Zenon
<1>3. QED
  BY <1>2, JobHonoured

\* SaveChanges writes a Success row only for a report the job has honoured.
LEMMA SaveHonoured ==
  ASSUME StoredInv, TypeInv', NEW s \in Slot, job[s].pc \notin Ended,
         stored' = stored, listed' = listed,
         SaveChanges(s) \/ UNCHANGED log, \A t \in Slot \ {s} : job'[t] = job[t],
         job'[s].pc \in {"idle", "row"}, ~job'[s].unsaved
  PROVE  StoredInv'
<1>1. \A t \in Slot : Honoured(t)' /\ MarksReports(t)'
  BY DEF StoredInv, Honoured, MarksReports, Claims, HasReport
<1>2. log \in Seq(LogRow)
  BY DEF StoredInv, TypeInv, TypeOK
<1>3. ReportSuccessIsStored'
  <2>1. CASE log' = log
    BY <2>1 DEF StoredInv, ReportSuccessIsStored
  <2>2. CASE log' = Append(log, Entry(s)) /\ job[s].unsaved
    <3>1. Entry(s).worker = "SaveEngineerReport" /\ Entry(s).status = "Success"
            => stored["SaveEngineerReport"][Entry(s).peygiri] > 0
      BY <2>2 DEF Entry, StoredInv, Honoured, Claims, HasReport
    <3>2. \A k \in DOMAIN log' : \/ k \in DOMAIN log /\ log'[k] = log[k]
                                 \/ log'[k] = Entry(s)
      BY <1>2, <2>2
    <3> QED
      BY <3>1, <3>2 DEF StoredInv, ReportSuccessIsStored
  <2> QED
    BY <2>1, <2>2 DEF SaveChanges
<1>4. UnlistedIsStored'
  BY DEF StoredInv, UnlistedIsStored
<1>5. QED
  BY <1>1, <1>3, <1>4 DEF StoredInv

\* The fields of a job that its claims rest on.
LEMMA ReturnedFields ==
  ASSUME NEW j \in Job, NEW r \in {"Success", "Failed"}
  PROVE  /\ Returned(j, r).pc = "log" /\ Returned(j, r).row = j.row
         /\ Returned(j, r).result = r /\ Returned(j, r).unsaved = TRUE
<1>1. Counted(j, r) \in Job /\ Counted(j, r).row = j.row
  BY DEF Counted, Job
<1>2. QED
  BY <1>1 DEF Returned, Job

LEMMA ThrownFields ==
  ASSUME NEW j \in Job
  PROVE  /\ Thrown(j).pc = "finally" /\ Thrown(j).row = j.row
         /\ Thrown(j).result = j.result /\ Thrown(j).unsaved = j.unsaved
BY DEF Thrown, Job

-----------------------------------------------------------------------------
LEMMA StoredStep == StoredInv /\ [Next]_vars => StoredInv'
<1> SUFFICES ASSUME StoredInv, [Next]_vars PROVE StoredInv'
  OBVIOUS
<1> USE DEF At
<1>0. TypeInv /\ TypeInv' /\ TypeOK /\ job \in [Slot -> Job]
  BY TypeStep DEF StoredInv, TypeInv, TypeOK
<1>j. \A s \in Slot : job[s] \in Job /\ Formed(job[s]) /\ Honoured(s) /\ MarksReports(s)
  BY DEF StoredInv, TypeInv, TypeOK
<1>f. \A s \in Slot : job[s].pc \in {"list", "row"} \cup InRow => ~job[s].unsaved
  BY <1>j DEF Formed, InRow, Ended
<1>q. ASSUME NEW s \in Slot, UNCHANGED <<log, listed, stored>>,
             \A t \in Slot \ {s} : job'[t] = job[t],
             job'[s].pc # "mark", ~job'[s].unsaved
      PROVE  StoredInv'
  <2>1. Honoured(s)' /\ MarksReports(s)'
    BY <1>q DEF Honoured, MarksReports, Claims
  <2> QED
    BY <1>0, <1>q, <2>1, SlotHonoured DEF HasReport
\* A row that failed claims nothing, an exception nothing new.
<1>r. ASSUME NEW s \in Slot, Return(s, "Failed") \/ Throw(s), job[s].pc \in InRow,
             UNCHANGED <<log, listed>>, \A p \in Report : HasReport(p) => HasReport(p)'
      PROVE  StoredInv'
  <2>1. /\ job'[s].pc # "mark"
        /\ job'[s].unsaved => job'[s].result = "Failed"
    <3>1. CASE Return(s, "Failed")
      BY <1>0, <1>j, <3>1, ReturnedFields DEF Return
    <3>2. CASE Throw(s)
      BY <1>0, <1>j, <1>f, <1>r, <3>2, ThrownFields DEF Throw
    <3> QED
      BY <1>r, <3>1, <3>2
  <2>2. \A t \in Slot \ {s} : job'[t] = job[t]
    BY <1>0, <1>r DEF Return, Throw
  <2>3. Honoured(s)' /\ MarksReports(s)'
    BY <2>1 DEF Honoured, MarksReports, Claims
  <2> QED
    BY <1>0, <1>r, <2>2, <2>3, SlotHonoured
\* A success claims the report of the row.
<1>c. ASSUME NEW s \in Slot, job[s].pc \in InRow, log' = log,
             \/ Return(s, "Success")
             \/ job' = [job EXCEPT ![s].pc = "mark"] /\ WorkerOf[s] = "SaveEngineerReport",
             WorkerOf[s] = "SaveEngineerReport" => HasReport(job[s].row)',
             \A p \in Report : HasReport(p) => HasReport(p)',
             \A p \in listed \ listed' : HasReport(p)'
      PROVE  StoredInv'
  <2>1. /\ job'[s].row = job[s].row
        /\ job'[s].pc = "mark" => WorkerOf[s] = "SaveEngineerReport"
    <3>1. CASE Return(s, "Success")
      BY <1>0, <1>j, <3>1, ReturnedFields DEF Return
    <3>2. CASE job' = [job EXCEPT ![s].pc = "mark"] /\ WorkerOf[s] = "SaveEngineerReport"
      BY <1>0, <1>j, <3>2 DEF Job
    <3> QED
      BY <1>c, <3>1, <3>2
  <2>2. \A t \in Slot \ {s} : job'[t] = job[t]
    BY <1>0, <1>c DEF Return
  <2>3. Honoured(s)' /\ MarksReports(s)'
    BY <1>c, <2>1 DEF Honoured, MarksReports, Claims, HasReport
  <2> QED
    BY <1>0, <1>c, <2>2, <2>3, SlotHonoured
<1>1. ASSUME NEW s \in Slot, Start(s) PROVE StoredInv'
  <2>1. job'[s] = Started(Len(runs) + 1) /\ \A t \in Slot \ {s} : job'[t] = job[t]
    BY <1>0, <1>1 DEF Start
  <2> QED
    <3>1. job'[s].pc = "list" /\ ~job'[s].unsaved
      BY <2>1 DEF Started, NoRun
    <3> QED
      BY <1>1, <1>q, <2>1, <3>1 DEF Start
<1>2. ASSUME NEW s \in Slot, List(s) PROVE StoredInv'
  <2>1. job'[s].pc \in {"row", "finally"} /\ ~job'[s].unsaved
    <3>1. CASE Throw(s)
      BY <1>0, <1>2, <1>f, <1>j, <3>1, ThrownFields DEF List, Throw
    <3>2. CASE job' = [job EXCEPT ![s] = Listed(@)]
      BY <1>0, <1>2, <1>f, <1>j, <3>2 DEF List, Listed, Job
    <3> QED
      BY <1>2, <3>1, <3>2 DEF List
  <2> QED
    BY <1>0, <1>2, <1>q, <2>1 DEF List, Throw
<1>3. ASSUME NEW s \in Slot, NEW p \in Report, PickRow(s, p) PROVE StoredInv'
  <2>1. job[s] \in Job /\ ~job[s].unsaved /\ job[s].pc = "row"
    BY <1>3, <1>f, <1>j DEF PickRow
  <2>2. job'[s].pc \in {"row", "prepare", "finally"} /\ ~job'[s].unsaved
    <3>1. CASE job' = [job EXCEPT ![s] = Skipped(@, p)]
      BY <1>0, <2>1, <3>1 DEF Skipped, Job
    <3>2. CASE job' = [job EXCEPT ![s] = Picked(@, p, LastAttempt(WorkerOf[s], p) + 1)]
      BY <1>0, <2>1, <3>2 DEF Picked, Job
    <3>3. CASE Throw(s)
      BY <1>0, <2>1, <3>3 DEF Throw, Thrown, Job
    <3> QED
      BY <1>3, <3>1, <3>2, <3>3 DEF PickRow
  <2> QED
    BY <1>0, <1>3, <1>q, <2>2 DEF PickRow, Throw
<1>4. ASSUME NEW s \in Slot, Complete(s) PROVE StoredInv'
  <2>1. job'[s].pc = "finally" /\ ~job'[s].unsaved
    BY <1>0, <1>4, <1>f, <1>j DEF Complete, Job
  <2> QED
    BY <1>0, <1>4, <1>q, <2>1 DEF Complete
<1>5. ASSUME NEW s \in Slot, Prepare(s) PROVE StoredInv'
  <2>1. CASE Throw(s) \/ Return(s, "Failed")
    BY <1>5, <1>r, <2>1 DEF Prepare, InRow, HasReport
  <2>2. CASE job' = [job EXCEPT ![s].pc = "send"]
    <3>1. job'[s].pc = "send" /\ ~job'[s].unsaved
      BY <1>0, <1>5, <1>f, <1>j, <2>2 DEF Prepare, InRow, Job
    <3> QED
      BY <1>0, <1>5, <1>q, <2>2, <3>1 DEF Prepare
  <2> QED
    BY <1>5, <2>1, <2>2 DEF Prepare
<1>6. ASSUME NEW s \in Slot, Send(s) PROVE StoredInv'
  <2> DEFINE w == WorkerOf[s]
             p == job[s].row
  <2>0. UNCHANGED <<runs, log, listed, registered>> /\ job[s].pc = "send" /\ p \in Report
        /\ w \in Worker
    BY <1>6, <1>j DEF Send, Formed, Ended, InRow
  <2>1. PICK o \in Outcomes(w, p) :
          /\ stored' = IF o.stored THEN [stored EXCEPT ![w][p] = @ + 1] ELSE stored
          /\ \/ o.result.verdict = "throws" /\ Throw(s)
             \/ /\ o.result.verdict = "success"
                /\ IF w = "SaveEngineerReport" /\ o.result.id
                   THEN job' = [job EXCEPT ![s].pc = "mark"]
                   ELSE Return(s, "Success")
             \/ /\ o.result.verdict = "failed"
                /\ IF AddFirst(s, o.result)
                   THEN job' = [job EXCEPT ![s] = [@ EXCEPT !.pc = "addengineer",
                                                    !.unknown = o.result.unknown]]
                   ELSE Return(s, "Failed")
    BY <1>6, Zenon DEF Send
  <2>2. stored \in [Worker -> [Report -> Nat]]
    BY <1>0 DEF TypeOK
  <2>3. \A r \in Report : HasReport(r) => HasReport(r)'
    BY <2>0, <2>1, <2>2 DEF HasReport, Worker
  <2>4. ASSUME o.result.verdict = "success", w = "SaveEngineerReport" PROVE HasReport(p)'
    <3>0. o.result.verdict = "success"
      BY <2>4
    <3>1. o.stored
      BY <2>4, ReportSuccess DEF Outcomes
    <3>2. job'[s].row = p
      <4>1. CASE Return(s, "Success")
        BY <1>0, <1>j, <4>1, ReturnedFields DEF Return
      <4>2. CASE job' = [job EXCEPT ![s].pc = "mark"]
        BY <1>0, <1>j, <4>2 DEF Job
      <4> QED
        BY <2>1, <3>0, <4>1, <4>2
    <3> QED
      BY <2>0, <2>1, <2>2, <2>4, <3>1, <3>2 DEF HasReport
  <2>5. CASE Throw(s) \/ Return(s, "Failed")
    BY <1>r, <2>0, <2>3, <2>5 DEF InRow
  <2>6. CASE o.result.verdict = "success"
    BY <1>c, <2>0, <2>1, <2>3, <2>4, <2>6 DEF InRow
  <2>7. CASE job' = [job EXCEPT ![s] = [@ EXCEPT !.pc = "addengineer",
                                                 !.unknown = o.result.unknown]]
    <3>1. PICK u : u = o.result.unknown
      OBVIOUS
    <3>2. job'[s].pc = "addengineer" /\ ~job'[s].unsaved /\ job[s].pc = "send"
          /\ \A t \in Slot \ {s} : job'[t] = job[t]
      BY <1>0, <1>f, <1>j, <2>0, <2>7, <3>1 DEF InRow, Job
    <3>3. Honoured(s)' /\ MarksReports(s)'
      BY <3>2 DEF Honoured, MarksReports, Claims
    <3> QED
      BY <1>0, <2>0, <2>3, <3>2, <3>3, SlotHonoured
  <2> QED
    BY <2>1, <2>5, <2>6, <2>7
<1>7. ASSUME NEW s \in Slot, Mark(s) PROVE StoredInv'
  <2>1. HasReport(job[s].row) /\ job[s].pc = "mark"
    BY <1>7, <1>j DEF Mark, Honoured, Claims, Ended
  <2>2. stored' = stored /\ job'[s].row = job[s].row
    BY <1>0, <1>7, <1>j DEF Mark, Return, Returned, Counted, Job
  <2>3. HasReport(job[s].row)' /\ \A p \in listed \ listed' : HasReport(p)'
    BY <1>7, <2>1, <2>2 DEF Mark, HasReport
  <2> QED
    BY <1>7, <1>c, <2>1, <2>2, <2>3 DEF Mark, InRow, HasReport
<1>8. ASSUME NEW s \in Slot, NEW c \in Engineer, AddEngineer(s, c) PROVE StoredInv'
  <2>0. job[s].pc = "addengineer" /\ UNCHANGED <<runs, log, listed, stored>>
    BY <1>8 DEF AddEngineer
  <2>1. CASE Throw(s)
    BY <1>r, <2>0, <2>1 DEF InRow, HasReport
  <2>2. ASSUME NEW b \in BOOLEAN, job' = [job EXCEPT ![s] = Visited(@, c, b)]
        PROVE  StoredInv'
    <3>1. job'[s].pc = "addengineer" /\ ~job'[s].unsaved
      BY <1>0, <1>f, <1>j, <2>0, <2>2 DEF Visited, InRow, Job
    <3> QED
      BY <1>0, <1>q, <2>0, <2>2, <3>1
  <2> QED
    BY <1>8, <2>1, <2>2 DEF AddEngineer
<1>9. ASSUME NEW s \in Slot, AfterEngineers(s) PROVE StoredInv'
  <2>1. CASE Return(s, "Failed")
    BY <1>9, <1>r, <2>1 DEF AfterEngineers, InRow, HasReport
  <2>2. CASE job' = [job EXCEPT ![s].pc = "send"]
    <3>1. job'[s].pc = "send" /\ ~job'[s].unsaved
      BY <1>0, <1>9, <1>f, <1>j, <2>2 DEF AfterEngineers, InRow, Job
    <3> QED
      BY <1>0, <1>9, <1>q, <2>2, <3>1 DEF AfterEngineers
  <2> QED
    BY <1>9, <2>1, <2>2 DEF AfterEngineers
<1>10. ASSUME NEW s \in Slot, SaveRow(s) PROVE StoredInv'
  <2>1. CASE Throw(s) /\ UNCHANGED <<runs, log>>
    <3>1. /\ job'[s].pc = "finally" /\ job'[s].row = job[s].row
          /\ job'[s].unsaved = job[s].unsaved /\ job'[s].result = job[s].result
          /\ \A t \in Slot \ {s} : job'[t] = job[t]
      BY <1>0, <1>j, <2>1 DEF Throw, Thrown, Job
    <3>2. Honoured(s)' /\ MarksReports(s)'
      BY <1>10, <1>j, <3>1 DEF SaveRow, Honoured, MarksReports, Claims, HasReport, Ended
    <3> QED
      BY <1>0, <1>10, <2>1, <3>1, <3>2, SlotHonoured DEF SaveRow, HasReport
  <2>2. CASE SaveChanges(s) /\ job' = [job EXCEPT ![s] = EndRow(@)]
    <3>1. job'[s].pc = "row" /\ ~job'[s].unsaved /\ \A t \in Slot \ {s} : job'[t] = job[t]
      BY <1>0, <1>j, <2>2 DEF EndRow, EndLocals, Job
    <3> QED
      BY <1>0, <1>10, <2>2, <3>1, SaveHonoured DEF SaveRow, Ended
  <2> QED
    BY <1>10, <2>1, <2>2 DEF SaveRow
<1>11. ASSUME NEW s \in Slot, Finally(s) PROVE StoredInv'
  <2>1. job'[s].pc = "idle" /\ ~job'[s].unsaved /\ \A t \in Slot \ {s} : job'[t] = job[t]
    BY <1>0, <1>11 DEF Finally, NoRun
  <2> QED
    BY <1>0, <1>11, <2>1, SaveHonoured DEF Finally, Ended
<1>12. ASSUME NEW s \in Slot, Disconnect(s) PROVE StoredInv'
  <2>1. /\ job'[s].pc = job[s].pc /\ job'[s].row = job[s].row
        /\ job'[s].unsaved = job[s].unsaved /\ job'[s].result = job[s].result
        /\ \A t \in Slot \ {s} : job'[t] = job[t]
    BY <1>0, <1>12, <1>j DEF Disconnect, Job
  <2>2. Honoured(s)' /\ MarksReports(s)'
    BY <1>12, <1>j, <2>1 DEF Disconnect, Honoured, MarksReports, Claims, HasReport
  <2> QED
    BY <1>0, <1>12, <2>1, <2>2, SlotHonoured DEF Disconnect, HasReport
<1>13. ASSUME NEW s \in Slot, Interrupt(s) PROVE StoredInv'
  <2>1. /\ job'[s].pc \in Ended /\ ~job'[s].unsaved
        /\ \A t \in Slot \ {s} : job'[t] = job[t]
    BY <1>0, <1>13 DEF Interrupt, NoRun, Ended
  <2> QED
    BY <1>13, <1>q, <2>1 DEF Interrupt, Ended
<1>14. ASSUME StopHost PROVE StoredInv'
  <2>1. ASSUME NEW s \in Slot PROVE Honoured(s)' /\ MarksReports(s)'
    <3>1. CASE job'[s] = [NoRun EXCEPT !.pc = "stopped"]
      BY <3>1 DEF NoRun, Honoured, MarksReports, Ended
    <3>2. CASE job'[s] = job[s] \/ job'[s] = [job[s] EXCEPT !.cancelled = TRUE]
      <4>1. /\ job'[s].pc = job[s].pc /\ job'[s].row = job[s].row
            /\ job'[s].unsaved = job[s].unsaved /\ job'[s].result = job[s].result
        BY <1>j, <3>2 DEF Job
      <4> QED
        BY <1>14, <1>j, <4>1 DEF StopHost, Honoured, MarksReports, Claims, HasReport
    <3> QED
      BY <1>14, <3>1, <3>2 DEF StopHost
  <2> QED
    BY <1>0, <1>14, <2>1, JobHonoured DEF StopHost, HasReport
<1>15. ASSUME Restart PROVE StoredInv'
  <2>1. \A s \in Slot : Honoured(s)' /\ MarksReports(s)'
    BY <1>15 DEF Restart, NoRun, Honoured, MarksReports, Ended
  <2> QED
    BY <1>0, <1>15, <2>1, JobHonoured DEF Restart, HasReport
<1>16. CASE UNCHANGED vars
  <2>1. \A s \in Slot : Honoured(s)' /\ MarksReports(s)'
    BY <1>16, <1>j DEF vars, Honoured, MarksReports, Claims, HasReport
  <2> QED
    BY <1>0, <1>16, <2>1, JobHonoured DEF vars, HasReport
<1>17. QED
  BY <1>1, <1>2, <1>3, <1>4, <1>5, <1>6, <1>7, <1>8, <1>9, <1>10, <1>11, <1>12, <1>13,
     <1>14, <1>15, <1>16 DEF Next, Step

\* A Success row of the report worker is never a lie: the municipality stored the
\* report, for any overlap of runs and any fault of the network, the municipality,
\* the database or the process.
THEOREM ReportSuccessHolds == Spec => []ReportSuccessIsStored
<1>1. StoredInv => ReportSuccessIsStored
  BY DEF StoredInv
<1>2. QED
  BY <1>1, StoredInit, StoredStep, PTL DEF Spec

\* The pending list only loses reports the municipality has, so that no report is
\* lost to later runs.
THEOREM UnlistedHolds == Spec => []UnlistedIsStored
<1>1. StoredInv => UnlistedIsStored
  BY DEF StoredInv
<1>2. QED
  BY <1>1, StoredInit, StoredStep, PTL DEF Spec

-----------------------------------------------------------------------------
(* With at most one run of a worker at a time, the log and the municipality *)
(* go through the steps of ReportDelivery.  A run works on a report that is *)
(* not yet acknowledged, and nobody else writes the log of its worker.      *)
OneSlotEach == \A s, t \in Slot : WorkerOf[s] = WorkerOf[t] => s = t

HasMap(p) == stored["SaveEngMap"][p] > 0

Delivering(j) == j.pc \notin Ended /\ (j.pc \in InRow \/ j.unsaved)
Fresh(s) == Delivering(job[s]) => ~Delivered(WorkerOf[s], job[s].row)

\* The map parser takes an answer that confirms nothing for a success; where
\* the municipality gives none, a Success row is about a stored map.
ClaimsMap(s) ==
  /\ "unconfirmed" \notin Faults /\ WorkerOf[s] = "SaveEngMap"
  /\ job[s].pc \notin Ended /\ job[s].unsaved /\ job[s].result = "Success"
MapHonoured(s) == ClaimsMap(s) => HasMap(job[s].row)

DeliveryInv == StoredInv /\ \A s \in Slot : Fresh(s) /\ MapHonoured(s)

LEMMA MapSuccess ==
  ASSUME NEW o \in MapOutcome \cup Lost, o.documented, o.result.verdict = "success"
  PROVE  o.stored
<1>1. CASE o \in Lost
  BY <1>1 DEF Lost, Throws
<1>2. CASE o \in MapOutcome
  <2>1. PICK sb \in BOOLEAN \X MapBody :
          /\ o = [stored |-> sb[1],
                  documented |-> sb[2].json = "object" => Documented(sb[2]),
                  result |-> ParseSaveEngMap(sb[2])]
          /\ Honest(sb[1], sb[2], ParseSaveEngMap(sb[2]), MapConfirms(sb[2]))
    BY <1>2, Zenon DEF MapOutcome
  <2>2. /\ ParseSaveEngMap(sb[2]).verdict = "success"
        /\ sb[2].json = "object" => Documented(sb[2])
        /\ o.stored = sb[1]
    BY <2>1
  <2>3. sb[2].json \in {"text", "array", "object"}
    BY DEF MapBody, NotObject
  <2>4. sb[2].json = "object" /\ sb[2].error = "absent" /\ UnknownIn(sb[2]) = {}
    BY <2>2, <2>3 DEF ParseSaveEngMap, Refused, Throws, ErrorResult
  <2> QED
    BY <2>1, <2>2, <2>4 DEF Honest, Documented
<1>3. QED
  BY <1>1, <1>2

\* A row appended to the log decides for its worker and report, and no other.
LEMMA DeliveredAppended ==
  ASSUME NEW e, log \in Seq(LogRow), log' = Append(log, e), NEW w, NEW p
  PROVE  Delivered(w, p)' <=> IF e.worker = w /\ e.peygiri = p THEN e.status = "Success"
                                                             ELSE Delivered(w, p)
<1> DEFINE n == Len(log) + 1
<1>1. /\ Len(log) \in Nat /\ DOMAIN log = 1..Len(log) /\ DOMAIN log' = 1..n
      /\ log'[n] = e /\ \A i \in DOMAIN log : log'[i] = log[i]
  OBVIOUS
<1>2. CASE e.worker = w /\ e.peygiri = p
  <2>1. Attempts(w, p)' = Attempts(w, p) \cup {n}
    BY <1>1, <1>2 DEF Attempts
  <2>2. \A i \in Attempts(w, p) : i \in Nat /\ i < n
    BY <1>1 DEF Attempts
  <2>3. Latest(w, p)' = {n}
    BY <1>1, <2>1, <2>2 DEF Latest
  <2> QED
    BY <1>1, <1>2, <2>3 DEF Delivered
<1>3. CASE ~(e.worker = w /\ e.peygiri = p)
  <2>1. Attempts(w, p)' = Attempts(w, p)
    BY <1>1, <1>3 DEF Attempts
  <2>2. Latest(w, p)' = Latest(w, p)
    BY <2>1 DEF Latest
  <2>3. \A i \in Latest(w, p) : log'[i] = log[i]
    BY <1>1 DEF Latest, Attempts
  <2> QED
    BY <1>3, <2>2, <2>3 DEF Delivered
<1>4. QED
  BY <1>2, <1>3

LEMMA DeliveredKept ==
  ASSUME log' = log PROVE \A w, p : Delivered(w, p)' <=> Delivered(w, p)
  BY DEF Delivered, Latest, Attempts

LEMMA DeliveryStart == ASSUME Init PROVE DeliveryInv /\ Delivery!Init
<1>1. /\ log = <<>> /\ listed = Report /\ job = [s \in Slot |-> NoRun]
      /\ stored = [w \in Worker |-> [p \in Report |-> 0]]
  BY DEF Init
<1>2. DeliveryInv
  BY <1>1, StoredInit DEF DeliveryInv, Fresh, MapHonoured, Delivering, ClaimsMap, NoRun, Ended
<1>3. \A w \in Worker : {p \in Report : Delivered(w, p)} = {}
  BY <1>1 DEF Delivered, Latest, Attempts
<1>4. QED
  BY <1>1, <1>2, <1>3 DEF Delivery!Init

\* A step of one slot that writes no log row.
LEMMA RowKept ==
  ASSUME DeliveryInv, StoredInv', NEW s \in Slot, log' = log,
         \A t \in Slot \ {s} : job'[t] = job[t],
         \A p \in Report : HasMap(p) => HasMap(p)',
         Delivering(job'[s]) => ~Delivered(WorkerOf[s], job'[s].row),
         MapHonoured(s)'
  PROVE  DeliveryInv'
<1>1. \A w, p : Delivered(w, p)' <=> Delivered(w, p)
  BY DeliveredKept
<1>2. ASSUME NEW t \in Slot PROVE Fresh(t)'
  <2>1. CASE t = s
    BY <1>1, <2>1 DEF Fresh, Delivering
  <2>2. CASE t # s
    BY <1>1, <2>2 DEF DeliveryInv, Fresh, Delivering
  <2> QED
    BY <2>1, <2>2
<1>3. ASSUME NEW t \in Slot \ {s} PROVE MapHonoured(t)'
  <2>1. job'[t] = job[t] /\ MapHonoured(t) /\ Formed(job[t])
    BY DEF DeliveryInv, StoredInv, TypeInv
  <2>2. ClaimsMap(t) => job[t].row \in Report
    BY <2>1 DEF ClaimsMap, Formed
  <2> QED
    BY <2>1, <2>2 DEF MapHonoured, ClaimsMap, HasMap
<1>4. QED
  BY <1>2, <1>3 DEF DeliveryInv

\* Steps that submit, log and unlist nothing.
LEMMA Stutters ==
  ASSUME UNCHANGED <<log, stored, listed>> PROVE UNCHANGED Delivery!vars
<1>1. \A w, p : Delivered(w, p)' <=> Delivered(w, p)
  BY DeliveredKept
<1>2. [w \in Worker |-> {p \in Report : Delivered(w, p)}]'
        = [w \in Worker |-> {p \in Report : Delivered(w, p)}]
  BY <1>1
<1>3. QED
  BY <1>2 DEF Delivery!vars

\* SaveChanges acknowledges a report, or logs a failure.
LEMMA SaveDelivers ==
  ASSUME OneSlotEach, DeliveryInv, StoredInv', NEW s \in Slot, job[s].pc \notin Ended,
         stored' = stored, listed' = listed,
         SaveChanges(s) \/ UNCHANGED log, \A t \in Slot \ {s} : job'[t] = job[t],
         job'[s].pc \in {"idle", "row"}, ~job'[s].unsaved
  PROVE  DeliveryInv' /\ [Delivery!Next]_(Delivery!vars)
<1> DEFINE w == WorkerOf[s]
           p == job[s].row
           acked == [v \in Worker |-> {q \in Report : Delivered(v, q)}]
<1>1. ~Delivering(job'[s]) /\ MapHonoured(s)'
  BY DEF Delivering, InRow, MapHonoured, ClaimsMap
<1>2. CASE log' = log
  <2>1. DeliveryInv'
    BY <1>1, <1>2, RowKept DEF HasMap
  <2> QED
    BY <1>2, <2>1, Stutters
<1>3. CASE log' = Append(log, Entry(s)) /\ job[s].unsaved
  <2>1. /\ log \in Seq(LogRow) /\ w \in Worker /\ p \in Report /\ job[s].result # "none"
        /\ job[s] \in Job
    BY <1>3 DEF DeliveryInv, StoredInv, TypeInv, TypeOK, Formed
  <2>2. /\ Entry(s).worker = w /\ Entry(s).peygiri = p /\ Entry(s).status = job[s].result
    BY DEF Entry
  <2>3. \A v, q : Delivered(v, q)' <=> IF v = w /\ q = p THEN job[s].result = "Success"
                                                        ELSE Delivered(v, q)
    <3>1. PICK e : e = Entry(s)
      OBVIOUS
    <3> QED
      BY <1>3, <2>1, <2>2, <3>1, DeliveredAppended
  <2>4. ~Delivered(w, p)
    BY <1>3 DEF DeliveryInv, Fresh, Delivering
  <2>5. DeliveryInv'
    <3>1. ASSUME NEW t \in Slot PROVE Fresh(t)'
      <4>1. CASE t = s
        BY <1>1, <4>1 DEF Fresh, Delivering
      <4>2. CASE t # s
        BY <2>3, <4>2 DEF OneSlotEach, DeliveryInv, Fresh, Delivering
      <4> QED
        BY <4>1, <4>2
    <3>2. \A t \in Slot \ {s} : MapHonoured(t)'
      BY DEF DeliveryInv, MapHonoured, ClaimsMap, HasMap
    <3> QED
      BY <1>1, <3>1, <3>2 DEF DeliveryInv
  <2>6. CASE job[s].result # "Success"
    <3>1. acked' = acked
      BY <2>3, <2>4, <2>6
    <3> QED
      BY <2>5, <3>1 DEF Delivery!vars
  <2>7. CASE job[s].result = "Success"
    <3>1. acked' = [acked EXCEPT ![w] = @ \cup {p}]
      <4>1. \A v \in Worker : {q \in Report : Delivered(v, q)}'
               = IF v = w THEN {q \in Report : Delivered(v, q)} \cup {p}
                          ELSE {q \in Report : Delivered(v, q)}
        BY <2>1, <2>3, <2>7
      <4> QED
        BY <2>1, <4>1
    <3>2. w = "SaveEngineerReport" \/ "unconfirmed" \notin Faults => stored[w][p] > 0
      <4>1. CASE w = "SaveEngineerReport"
        BY <1>3, <2>7, <4>1 DEF DeliveryInv, StoredInv, Honoured, Claims, HasReport
      <4>2. CASE w = "SaveEngMap" /\ "unconfirmed" \notin Faults
        BY <1>3, <2>7, <4>2 DEF DeliveryInv, MapHonoured, ClaimsMap, HasMap
      <4> QED
        BY <2>1, <4>1, <4>2 DEF Worker
    <3>3. Delivery!Acknowledge(w, p)
      BY <3>1, <3>2 DEF Delivery!Acknowledge
    <3> QED
      BY <2>1, <2>5, <3>3 DEF Delivery!Next
  <2> QED
    BY <2>6, <2>7
<1>4. QED
  BY <1>2, <1>3 DEF SaveChanges

-----------------------------------------------------------------------------
LEMMA DeliveryStep ==
  ASSUME OneSlotEach, DeliveryInv, [Next]_vars
  PROVE  DeliveryInv' /\ [Delivery!Next]_(Delivery!vars)
<1> USE DEF At
<1>0. /\ StoredInv /\ StoredInv' /\ TypeInv /\ job \in [Slot -> Job]
      /\ stored \in [Worker -> [Report -> Nat]]
  BY StoredStep DEF DeliveryInv, StoredInv, TypeInv, TypeOK
<1>j. \A s \in Slot : job[s] \in Job /\ Formed(job[s]) /\ Honoured(s) /\ Fresh(s) /\ MapHonoured(s)
  BY DEF DeliveryInv, StoredInv, TypeInv, TypeOK
<1>f. \A s \in Slot : job[s].pc \in {"list", "row"} \cup InRow => ~job[s].unsaved
  BY <1>j DEF Formed, InRow, Ended
\* A step that changes a job, and nothing anyone else sees.
<1>q. ASSUME NEW s \in Slot, UNCHANGED <<log, listed, stored>>,
             \A t \in Slot \ {s} : job'[t] = job[t],
             Delivering(job'[s]) => ~Delivered(WorkerOf[s], job'[s].row),
             MapHonoured(s)'
      PROVE  DeliveryInv' /\ [Delivery!Next]_(Delivery!vars)
  <2>1. DeliveryInv'
    BY <1>0, <1>q, RowKept DEF HasMap
  <2> QED
    BY <1>q, <2>1, Stutters
\* One after which no row is being delivered.
<1>n. ASSUME NEW s \in Slot, UNCHANGED <<log, listed, stored>>,
             \A t \in Slot \ {s} : job'[t] = job[t], ~Delivering(job'[s])
      PROVE  DeliveryInv' /\ [Delivery!Next]_(Delivery!vars)
  <2>1. MapHonoured(s)'
    BY <1>n DEF MapHonoured, ClaimsMap, Delivering
  <2> QED
    BY <1>n, <1>q, <2>1
\* One that goes on with the same row, and claims nothing new.
<1>r. ASSUME NEW s \in Slot, UNCHANGED <<log, listed, stored>>,
             \A t \in Slot \ {s} : job'[t] = job[t],
             Delivering(job[s]), job'[s].row = job[s].row,
             job'[s].unsaved /\ job'[s].result = "Success"
               => job[s].unsaved /\ job[s].result = "Success"
      PROVE  DeliveryInv' /\ [Delivery!Next]_(Delivery!vars)
  <2>1. MapHonoured(s)'
    BY <1>j, <1>r DEF MapHonoured, ClaimsMap, Delivering, HasMap
  <2>2. ~Delivered(WorkerOf[s], job'[s].row)
    BY <1>j, <1>r DEF Fresh
  <2> QED
    BY <1>q, <1>r, <2>1, <2>2
\* An exception, or a row that failed, in the middle of a row.
<1>e. ASSUME NEW s \in Slot, UNCHANGED <<log, listed, stored>>,
             Return(s, "Failed") \/ Throw(s), Delivering(job[s])
      PROVE  DeliveryInv' /\ [Delivery!Next]_(Delivery!vars)
  <2>1. /\ job'[s].row = job[s].row
        /\ job'[s].unsaved /\ job'[s].result = "Success"
             => job[s].unsaved /\ job[s].result = "Success"
    <3>1. CASE Return(s, "Failed")
      BY <1>0, <1>j, <3>1, ReturnedFields DEF Return
    <3>2. CASE Throw(s)
      BY <1>0, <1>j, <3>2, ThrownFields DEF Throw
    <3> QED
      BY <1>e, <3>1, <3>2
  <2>2. \A t \in Slot \ {s} : job'[t] = job[t]
    BY <1>0, <1>e DEF Return, Throw
  <2> QED
    BY <1>e, <1>r, <2>1, <2>2
<1>1. ASSUME NEW s \in Slot, Start(s) PROVE DeliveryInv' /\ [Delivery!Next]_(Delivery!vars)
  <2>1. job'[s] = Started(Len(runs) + 1) /\ \A t \in Slot \ {s} : job'[t] = job[t]
    BY <1>0, <1>1 DEF Start
  <2>2. ~Delivering(job'[s])
    BY <2>1 DEF Started, NoRun, Delivering, InRow
  <2> QED
    BY <1>1, <1>n, <2>1, <2>2 DEF Start
<1>2. ASSUME NEW s \in Slot, List(s) PROVE DeliveryInv' /\ [Delivery!Next]_(Delivery!vars)
  <2>1. ~Delivering(job'[s])
    <3>1. CASE Throw(s)
      BY <1>0, <1>2, <1>f, <1>j, <3>1, ThrownFields DEF List, Throw, Delivering, InRow
    <3>2. CASE job' = [job EXCEPT ![s] = Listed(@)]
      BY <1>0, <1>2, <1>f, <1>j, <3>2 DEF List, Listed, Job, Delivering, InRow
    <3> QED
      BY <1>2, <3>1, <3>2 DEF List
  <2> QED
    BY <1>0, <1>2, <1>n, <2>1 DEF List, Throw
<1>3. ASSUME NEW s \in Slot, NEW p \in Report, PickRow(s, p)
      PROVE  DeliveryInv' /\ [Delivery!Next]_(Delivery!vars)
  <2>1. /\ job[s] \in Job /\ ~job[s].unsaved /\ job[s].pc = "row"
        /\ UNCHANGED <<log, listed, stored>> /\ \A t \in Slot \ {s} : job'[t] = job[t]
    BY <1>0, <1>3, <1>f, <1>j DEF PickRow, Throw
  <2>2. CASE job' = [job EXCEPT ![s] = Skipped(@, p)]
    <3>1. ~Delivering(job'[s])
      BY <1>0, <2>1, <2>2 DEF Skipped, Job, Delivering, InRow
    <3> QED
      BY <1>n, <2>1, <3>1
  <2>3. CASE /\ ~SkipRow(WorkerOf[s], p)
             /\ job' = [job EXCEPT ![s] = Picked(@, p, LastAttempt(WorkerOf[s], p) + 1)]
    <3>1. job'[s].row = p /\ ~job'[s].unsaved
      BY <1>0, <2>1, <2>3 DEF Picked, Job
    <3>2. MapHonoured(s)' /\ ~Delivered(WorkerOf[s], job'[s].row)
      BY <2>3, <3>1 DEF MapHonoured, ClaimsMap, SkipRow
    <3> QED
      BY <1>q, <2>1, <3>2
  <2>4. CASE Throw(s)
    <3>1. ~Delivering(job'[s])
      BY <1>0, <2>1, <2>4 DEF Throw, Thrown, Job, Delivering, InRow
    <3> QED
      BY <1>n, <2>1, <3>1
  <2> QED
    BY <1>3, <2>2, <2>3, <2>4 DEF PickRow
<1>4. ASSUME NEW s \in Slot, Complete(s) PROVE DeliveryInv' /\ [Delivery!Next]_(Delivery!vars)
  <2>1. ~Delivering(job'[s])
    BY <1>0, <1>4, <1>f, <1>j DEF Complete, Job, Delivering, InRow
  <2> QED
    BY <1>0, <1>4, <1>n, <2>1 DEF Complete
<1>5. ASSUME NEW s \in Slot, Prepare(s) PROVE DeliveryInv' /\ [Delivery!Next]_(Delivery!vars)
  <2>1. Delivering(job[s]) /\ UNCHANGED <<log, listed, stored>>
    BY <1>5 DEF Prepare, Delivering, InRow, Ended
  <2>2. CASE Throw(s) \/ Return(s, "Failed")
    BY <1>e, <2>1, <2>2
  <2>3. CASE job' = [job EXCEPT ![s].pc = "send"]
    <3>1. /\ job'[s].row = job[s].row /\ job'[s].unsaved = job[s].unsaved
          /\ job'[s].result = job[s].result /\ \A t \in Slot \ {s} : job'[t] = job[t]
      BY <1>0, <1>j, <2>3 DEF Job
    <3> QED
      BY <1>r, <2>1, <3>1
  <2> QED
    BY <1>5, <2>2, <2>3 DEF Prepare
<1>6. ASSUME NEW s \in Slot, Send(s) PROVE DeliveryInv' /\ [Delivery!Next]_(Delivery!vars)
  <2> DEFINE w == WorkerOf[s]
             p == job[s].row
  <2>0. /\ UNCHANGED <<runs, log, listed, registered>> /\ job[s].pc = "send" /\ p \in Report
        /\ w \in Worker /\ Delivering(job[s]) /\ ~job[s].unsaved
    BY <1>6, <1>f, <1>j DEF Send, Formed, Ended, InRow, Delivering
  <2>1. PICK o \in Outcomes(w, p) :
          /\ stored' = IF o.stored THEN [stored EXCEPT ![w][p] = @ + 1] ELSE stored
          /\ \/ o.result.verdict = "throws" /\ Throw(s)
             \/ /\ o.result.verdict = "success"
                /\ IF w = "SaveEngineerReport" /\ o.result.id
                   THEN job' = [job EXCEPT ![s].pc = "mark"]
                   ELSE Return(s, "Success")
             \/ /\ o.result.verdict = "failed"
                /\ IF AddFirst(s, o.result)
                   THEN job' = [job EXCEPT ![s] = [@ EXCEPT !.pc = "addengineer",
                                                    !.unknown = o.result.unknown]]
                   ELSE Return(s, "Failed")
    BY <1>6, Zenon DEF Send
  <2>2. ~Delivered(w, p)
    BY <1>j, <2>0 DEF Fresh
  <2>3. \A r \in Report : HasMap(r) => HasMap(r)'
    BY <1>0, <2>0, <2>1 DEF HasMap, Worker
  <2>4. [Delivery!Next]_(Delivery!vars)
    <3>1. CASE o.stored
      <4>1. \A v, q : Delivered(v, q)' <=> Delivered(v, q)
        BY <2>0, DeliveredKept
      <4>2. [v \in Worker |-> {q \in Report : Delivered(v, q)}]'
              = [v \in Worker |-> {q \in Report : Delivered(v, q)}]
        BY <4>1
      <4>3. Delivery!Deliver(w, p)
        BY <2>0, <2>1, <2>2, <3>1, <4>2 DEF Delivery!Deliver
      <4> QED
        BY <2>0, <4>3 DEF Delivery!Next
    <3>2. CASE ~o.stored
      BY <2>0, <2>1, <3>2, Stutters
    <3> QED
      BY <3>1, <3>2
  <2>5. /\ job'[s].row = p /\ \A t \in Slot \ {s} : job'[t] = job[t]
        /\ job'[s].unsaved /\ job'[s].result = "Success" => o.result.verdict = "success"
    <3>1. CASE Throw(s)
      BY <1>0, <1>j, <2>0, <3>1, ThrownFields DEF Throw
    <3>2. CASE Return(s, "Failed")
      BY <1>0, <1>j, <3>2, ReturnedFields DEF Return
    <3>3. CASE job' = [job EXCEPT ![s].pc = "mark"]
      BY <1>0, <1>j, <2>0, <3>3 DEF Job
    <3>4. CASE o.result.verdict = "success" /\ Return(s, "Success")
      BY <1>0, <1>j, <3>4, ReturnedFields DEF Return
    <3>5. CASE job' = [job EXCEPT ![s] = [@ EXCEPT !.pc = "addengineer",
                                                   !.unknown = o.result.unknown]]
      <4>1. PICK u : u = o.result.unknown
        OBVIOUS
      <4> QED
        BY <1>0, <1>j, <2>0, <3>5, <4>1 DEF Job
    <3> QED
      BY <2>1, <3>1, <3>2, <3>3, <3>4, <3>5
  <2>6. MapHonoured(s)'
    <3>1. SUFFICES ASSUME ClaimsMap(s)' PROVE HasMap(p)'
      BY <2>5 DEF MapHonoured, HasMap
    <3>2. "unconfirmed" \notin Faults /\ w = "SaveEngMap" /\ o.result.verdict = "success"
      BY <2>5, <3>1 DEF ClaimsMap
    <3>3. o \in MapOutcome \cup Lost /\ o.documented
      <4>1. CASE o \in Lost
        BY <4>1 DEF Lost
      <4>2. CASE o \in MapOutcome /\ Possible(o)
        BY <3>2, <4>2 DEF Possible
      <4> QED
        BY <3>2, <4>1, <4>2 DEF Outcomes
    <3>4. o.stored
      BY <3>2, <3>3, MapSuccess
    <3> QED
      BY <1>0, <2>0, <2>1, <2>5, <3>2, <3>4 DEF HasMap
  <2>7. DeliveryInv'
    BY <1>0, <2>0, <2>2, <2>3, <2>5, <2>6, RowKept
  <2> QED
    BY <2>4, <2>7
<1>7. ASSUME NEW s \in Slot, Mark(s) PROVE DeliveryInv' /\ [Delivery!Next]_(Delivery!vars)
  <2>1. /\ job[s].pc = "mark" /\ Delivering(job[s]) /\ job[s].row \in Report
        /\ UNCHANGED <<log, stored>> /\ Return(s, "Success")
        /\ WorkerOf[s] = "SaveEngineerReport"
    BY <1>7, <1>0, <1>j DEF Mark, Delivering, Formed, InRow, Ended, StoredInv, MarksReports
  <2>2. stored["SaveEngineerReport"][job[s].row] > 0
    BY <1>j, <2>1 DEF Honoured, Claims, HasReport, Ended
  <2>3. job'[s].row = job[s].row /\ \A t \in Slot \ {s} : job'[t] = job[t]
    BY <1>0, <1>j, <2>1, ReturnedFields DEF Return
  <2>4. DeliveryInv'
    <3>1. MapHonoured(s)'
      BY <2>1 DEF MapHonoured, ClaimsMap
    <3>2. ~Delivered(WorkerOf[s], job'[s].row)
      BY <1>j, <2>1, <2>3 DEF Fresh
    <3> QED
      BY <1>0, <2>1, <2>3, <3>1, <3>2, RowKept DEF HasMap
  <2>5. CASE listed' = listed
    BY <2>1, <2>4, <2>5, Stutters
  <2>6. CASE listed' = listed \ {job[s].row}
    <3>1. \A v, q : Delivered(v, q)' <=> Delivered(v, q)
      BY <2>1, DeliveredKept
    <3>2. [v \in Worker |-> {q \in Report : Delivered(v, q)}]'
            = [v \in Worker |-> {q \in Report : Delivered(v, q)}]
      BY <3>1
    <3>3. Delivery!Unlist(job[s].row)
      BY <2>1, <2>2, <2>6, <3>2 DEF Delivery!Unlist
    <3> QED
      BY <2>1, <2>4, <3>3 DEF Delivery!Next
  <2> QED
    BY <1>7, <2>5, <2>6 DEF Mark
<1>8. ASSUME NEW s \in Slot, NEW c \in Engineer, AddEngineer(s, c)
      PROVE  DeliveryInv' /\ [Delivery!Next]_(Delivery!vars)
  <2>1. Delivering(job[s]) /\ UNCHANGED <<log, listed, stored>>
    BY <1>8 DEF AddEngineer, Delivering, InRow, Ended
  <2>2. CASE Throw(s)
    BY <1>e, <2>1, <2>2
  <2>3. ASSUME NEW b \in BOOLEAN, job' = [job EXCEPT ![s] = Visited(@, c, b)]
        PROVE  DeliveryInv' /\ [Delivery!Next]_(Delivery!vars)
    <3>1. /\ job'[s].row = job[s].row /\ job'[s].unsaved = job[s].unsaved
          /\ job'[s].result = job[s].result /\ \A t \in Slot \ {s} : job'[t] = job[t]
      BY <1>0, <1>j, <2>3 DEF Visited, Job
    <3> QED
      BY <1>r, <2>1, <3>1
  <2> QED
    BY <1>8, <2>2, <2>3 DEF AddEngineer
<1>9. ASSUME NEW s \in Slot, AfterEngineers(s) PROVE DeliveryInv' /\ [Delivery!Next]_(Delivery!vars)
  <2>1. Delivering(job[s]) /\ UNCHANGED <<log, listed, stored>>
    BY <1>9 DEF AfterEngineers, Delivering, InRow, Ended
  <2>2. CASE Return(s, "Failed")
    BY <1>e, <2>1, <2>2
  <2>3. CASE job' = [job EXCEPT ![s].pc = "send"]
    <3>1. /\ job'[s].row = job[s].row /\ job'[s].unsaved = job[s].unsaved
          /\ job'[s].result = job[s].result /\ \A t \in Slot \ {s} : job'[t] = job[t]
      BY <1>0, <1>j, <2>3 DEF Job
    <3> QED
      BY <1>r, <2>1, <3>1
  <2> QED
    BY <1>9, <2>2, <2>3 DEF AfterEngineers
<1>10. ASSUME NEW s \in Slot, SaveRow(s) PROVE DeliveryInv' /\ [Delivery!Next]_(Delivery!vars)
  <2>1. CASE Throw(s) /\ UNCHANGED <<runs, log>>
    <3>1. Delivering(job[s]) /\ UNCHANGED <<log, listed, stored>>
      BY <1>10, <1>j, <2>1 DEF SaveRow, Delivering, Formed, Ended
    <3> QED
      BY <1>e, <2>1, <3>1
  <2>2. CASE SaveChanges(s) /\ job' = [job EXCEPT ![s] = EndRow(@)]
    <3>1. job'[s].pc = "row" /\ ~job'[s].unsaved /\ \A t \in Slot \ {s} : job'[t] = job[t]
      BY <1>0, <1>j, <2>2 DEF EndRow, EndLocals, Job
    <3> QED
      BY <1>0, <1>10, <2>2, <3>1, SaveDelivers DEF SaveRow, Ended
  <2> QED
    BY <1>10, <2>1, <2>2 DEF SaveRow
<1>11. ASSUME NEW s \in Slot, Finally(s) PROVE DeliveryInv' /\ [Delivery!Next]_(Delivery!vars)
  <2>1. job'[s].pc = "idle" /\ ~job'[s].unsaved /\ \A t \in Slot \ {s} : job'[t] = job[t]
    BY <1>0, <1>11 DEF Finally, NoRun
  <2> QED
    BY <1>0, <1>11, <2>1, SaveDelivers DEF Finally, Ended
<1>12. ASSUME NEW s \in Slot, Disconnect(s) PROVE DeliveryInv' /\ [Delivery!Next]_(Delivery!vars)
  <2>1. /\ job'[s].pc = job[s].pc /\ job'[s].row = job[s].row
        /\ job'[s].unsaved = job[s].unsaved /\ job'[s].result = job[s].result
        /\ UNCHANGED <<log, listed, stored>> /\ \A t \in Slot \ {s} : job'[t] = job[t]
    BY <1>0, <1>12, <1>j DEF Disconnect, Job
  <2>2. CASE Delivering(job[s])
    BY <1>r, <2>1, <2>2
  <2>3. CASE ~Delivering(job[s])
    BY <1>n, <2>1, <2>3 DEF Delivering
  <2> QED
    BY <2>2, <2>3
<1>13. ASSUME NEW s \in Slot, Interrupt(s) PROVE DeliveryInv' /\ [Delivery!Next]_(Delivery!vars)
  <2>1. job'[s].pc \in Ended /\ \A t \in Slot \ {s} : job'[t] = job[t]
    BY <1>0, <1>13 DEF Interrupt, NoRun, Ended
  <2> QED
    BY <1>13, <1>n, <2>1 DEF Interrupt, Delivering
\* The host stops or starts again: every run goes on as it was, or is gone.
<1>14. ASSUME StopHost \/ Restart \/ UNCHANGED vars
       PROVE  DeliveryInv' /\ [Delivery!Next]_(Delivery!vars)
  <2>1. UNCHANGED <<log, listed, stored>>
    BY <1>14 DEF StopHost, Restart, vars
  <2>2. ASSUME NEW s \in Slot
        PROVE  \/ job'[s].pc \in Ended
               \/ /\ job'[s].pc = job[s].pc /\ job'[s].row = job[s].row
                  /\ job'[s].unsaved = job[s].unsaved /\ job'[s].result = job[s].result
    <3>1. CASE job'[s] \in {NoRun, [NoRun EXCEPT !.pc = "stopped"]}
      BY <3>1 DEF NoRun, Ended
    <3>2. CASE job'[s] = job[s] \/ job'[s] = [job[s] EXCEPT !.cancelled = TRUE]
      BY <1>j, <3>2 DEF Job
    <3> QED
      BY <1>14, <3>1, <3>2 DEF StopHost, Restart, vars
  <2>3. \A w, p : Delivered(w, p)' <=> Delivered(w, p)
    BY <2>1, DeliveredKept
  <2>4. ASSUME NEW s \in Slot PROVE Fresh(s)' /\ MapHonoured(s)'
    BY <1>j, <2>1, <2>2, <2>3 DEF Fresh, MapHonoured, Delivering, ClaimsMap, HasMap
  <2> QED
    BY <1>0, <2>1, <2>4, Stutters DEF DeliveryInv
<1>15. QED
  BY <1>1, <1>2, <1>3, <1>4, <1>5, <1>6, <1>7, <1>8, <1>9, <1>10, <1>11, <1>12, <1>13,
     <1>14 DEF Next, Step

\* With at most one run of each worker at a time, the sync implements ReportDelivery:
\* whatever fails, it submits only what is not acknowledged, acknowledges only what
\* the municipality has, and takes nothing else off the pending list.
THEOREM Implements == ASSUME OneSlotEach PROVE Spec => DeliverySpec
<1>1. Init => DeliveryInv /\ Delivery!Init
  BY DeliveryStart
<1>2. DeliveryInv /\ [Next]_vars => DeliveryInv' /\ [Delivery!Next]_(Delivery!vars)
  BY DeliveryStep
<1>3. QED
  BY <1>1, <1>2, PTL DEF Spec, DeliverySpec, Delivery!Spec

\* What is logged as delivered stays so and is never submitted again: a step of
\* ReportDelivery submits only what is not acknowledged, and takes nothing back.
THEOREM DeliveredIsFinalHolds == ASSUME OneSlotEach PROVE Spec => DeliveredIsFinal
<1>1. Init => DeliveryInv
  BY DeliveryStart
<1>2. ASSUME DeliveryInv, [Next]_vars
      PROVE  /\ DeliveryInv'
             /\ \A w \in Worker, p \in Report :
                  Delivered(w, p) => Delivered(w, p)' /\ stored'[w][p] = stored[w][p]
  <2> DEFINE acked == [w \in Worker |-> {p \in Report : Delivered(w, p)}]
  <2>1. DeliveryInv' /\ [Delivery!Next]_(Delivery!vars)
    BY <1>2, DeliveryStep
  <2>2. stored \in [Worker -> [Report -> Nat]]
    BY <1>2 DEF DeliveryInv, StoredInv, TypeInv, TypeOK
  <2>3. ASSUME NEW w \in Worker, NEW p \in Report, p \in acked[w]
        PROVE  p \in acked'[w] /\ stored'[w][p] = stored[w][p]
    <3>1. CASE UNCHANGED Delivery!vars
      BY <2>3, <3>1 DEF Delivery!vars
    <3>2. ASSUME NEW v \in Worker, NEW q \in Report, Delivery!Deliver(v, q)
          PROVE  p \in acked'[w] /\ stored'[w][p] = stored[w][p]
      BY <2>2, <2>3, <3>2 DEF Delivery!Deliver
    <3>3. ASSUME NEW v \in Worker, NEW q \in Report, Delivery!Acknowledge(v, q)
          PROVE  p \in acked'[w] /\ stored'[w][p] = stored[w][p]
      <4>1. acked' = [acked EXCEPT ![v] = @ \cup {q}] /\ stored' = stored
        BY <3>3 DEF Delivery!Acknowledge
      <4>2. \E A : A = acked /\ A = [u \in Worker |-> A[u]]
        OBVIOUS
      <4> HIDE DEF acked
      <4> QED
        BY <2>3, <4>1, <4>2
    <3>4. ASSUME NEW q \in Report, Delivery!Unlist(q)
          PROVE  p \in acked'[w] /\ stored'[w][p] = stored[w][p]
      BY <2>3, <3>4 DEF Delivery!Unlist
    <3> QED
      BY <2>1, <3>1, <3>2, <3>3, <3>4 DEF Delivery!Next
  <2> QED
    BY <2>1, <2>3
<1>3. QED
  BY <1>1, <1>2, PTL DEF Spec, DeliveredIsFinal
=============================================================================
