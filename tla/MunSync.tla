-------------------------------- MODULE MunSync --------------------------------
(***************************************************************************)
(* The MunSanandaj sync: MunSanandajSyncService.RunAsync and its two row   *)
(* processors, run by the two timer workers and by the admin's "run now"   *)
(* endpoint, over the tables MunSyncRuns and MunReportLogs, the KurdNezam  *)
(* list both workers read (sp1) and the municipality.                      *)
(*                                                                         *)
(* A slot is a place a run can execute in: a timer worker, or one manual   *)
(* request.  Nothing in the code keeps two slots of a worker apart, so     *)
(* which slots exist is a constant, and the steps of their runs interleave *)
(* at the awaits.                                                          *)
(***************************************************************************)
EXTENDS Integers, Sequences, FiniteSets, MunGateway

CONSTANTS
  Report,        \* the Peygiris sp1 may return
  Team,          \* Team[p] : national ids of the engineers sp2 returns for p
  Slot,          \* places a run can execute in
  WorkerOf,      \* WorkerOf[s] : the worker type slot s runs
  TimerSlot,     \* the slots that are background workers
  Faults,        \* what may go wrong, see Fault
  MaxRuns        \* bound: MunSyncRuns rows ever inserted

Worker == {"SaveEngineerReport", "SaveEngMap"}

Fault == {"lost",         \* a request to the municipality fails or times out
          "odd",          \* an answer of a JSON kind the parser does not expect
          "garbled",      \* the request was stored, the answer is no JSON
          "unconfirmed",  \* an answer with neither an error nor a stored file
          "prepare",      \* sp1, sp2 or the PDF server fails
          "mark",         \* WebS_AddSabtNoToReport fails
          "db",           \* a query or a SaveChanges of our database fails
          "cancel",       \* the caller goes away, or the host is stopping
          "crash"}        \* the process dies and is started again

ASSUME MunSyncAssumption ==
  /\ Team \in [Report -> SUBSET Engineer]
  /\ WorkerOf \in [Slot -> Worker]
  /\ TimerSlot \subseteq Slot
  /\ Faults \subseteq Fault
  /\ MaxRuns \in Nat
  /\ IsFiniteSet(Report)

VARIABLES
  runs,       \* the table MunSyncRuns, in Id order
  log,        \* the table MunReportLogs, in Id order
  listed,     \* the Peygiris WebS_GetListRepToShahrdari returns
  job,        \* job[s] : the run executing in slot s
  stored,     \* stored[w][p] : submissions of p by w the municipality stored
  registered  \* engineers the municipality knows

vars == <<runs, log, listed, job, stored, registered>>

\* A job is the run entity as the context tracks it (total, ok, bad), the rows
\* still to visit, and the row being processed.  In "row" the loop picks the
\* next row; "finally" is the finally block.
PC == {"idle", "stopped", "list", "row", "prepare", "send", "mark",
       "addengineer", "log", "finally"}

NoRun == [pc |-> "idle", run |-> 0, todo |-> {}, total |-> 0, ok |-> 0,
          bad |-> 0, status |-> "Running", row |-> "none", attempt |-> 0,
          result |-> "none", unknown |-> {}, created |-> FALSE,
          unsaved |-> FALSE, cancelled |-> FALSE]

Active(s) == job[s].pc \notin {"idle", "stopped"}

Attempts(w, p) == {i \in DOMAIN log : log[i].worker = w /\ log[i].peygiri = p}

\* Mutants: trusting sp1 to have dropped what was sent; numbering attempts from zero.
SkipUnlisted(w, p) == p \notin listed
ZeroBasedAttempt(w, p) == Cardinality(Attempts(w, p)) - 1

\* The current status of a Peygiri is its latest row, by Id, if there is one.
Latest(w, p) == {i \in Attempts(w, p) : \A j \in Attempts(w, p) : j <= i}
Delivered(w, p) == \E i \in Latest(w, p) : log[i].status = "Success"
SkipRow(w, p) == Delivered(w, p)
LastAttempt(w, p) ==
  IF Latest(w, p) = {} THEN 0 ELSE log[CHOOSE i \in Latest(w, p) : TRUE].attempt

Init ==
  /\ runs = <<>>
  /\ log = <<>>
  /\ listed = Report
  /\ job = [s \in Slot |-> NoRun]
  /\ stored = [w \in Worker |-> [p \in Report |-> 0]]
  /\ registered \in SUBSET Engineer

-----------------------------------------------------------------------------
(* A timer tick, or POST .../trigger: insert the run row and save it. *)
Started(i) == [NoRun EXCEPT !.pc = "list", !.run = i]

Start(s) ==
  /\ job[s].pc = "idle"
  /\ Len(runs) < MaxRuns
  /\ runs' = Append(runs, [worker |-> WorkerOf[s], status |-> "Running",
                           total |-> 0, ok |-> 0, bad |-> 0])
  /\ job' = [job EXCEPT ![s] = Started(Len(runs) + 1)]
  /\ UNCHANGED <<log, listed, stored, registered>>

\* Every step of a running job awaits something with the run's token, and is
\* only taken while that token is not cancelled (see Interrupt).
At(s, pc) == job[s].pc = pc /\ ~job[s].cancelled

\* Mutant: the log row that could not be saved is forgotten.
ThrownDetached(j) ==
  [j EXCEPT !.pc = "finally", !.status = "Failed", !.unsaved = FALSE]

\* An exception leaves the try block: the catch block marks the run Failed.
Thrown(j) == [j EXCEPT !.pc = "finally", !.status = "Failed"]

Throw(s) == job' = [job EXCEPT ![s] = Thrown(@)]

Listed(j) ==
  [j EXCEPT !.pc = "row", !.todo = listed, !.total = Cardinality(listed)]

List(s) ==
  /\ At(s, "list")
  /\ \/ job' = [job EXCEPT ![s] = Listed(@)]
     \/ "prepare" \in Faults /\ Throw(s)
  /\ UNCHANGED <<runs, log, listed, stored, registered>>

\* The loop header and the latest-attempt query.  sp1 promises no order.
Skipped(j, p) == [j EXCEPT !.todo = @ \ {p}, !.ok = @ + 1]
Picked(j, p, n) ==
  [j EXCEPT !.pc = "prepare", !.todo = @ \ {p}, !.row = p, !.attempt = n]

PickRow(s, p) ==
  /\ At(s, "row")
  /\ p \in job[s].todo
  /\ \/ /\ SkipRow(WorkerOf[s], p)
        /\ job' = [job EXCEPT ![s] = Skipped(@, p)]
     \/ /\ ~SkipRow(WorkerOf[s], p)
        /\ job' = [job EXCEPT ![s] = Picked(@, p, LastAttempt(WorkerOf[s], p) + 1)]
     \/ "db" \in Faults /\ Throw(s)
  /\ UNCHANGED <<runs, log, listed, stored, registered>>

Complete(s) ==
  /\ At(s, "row")
  /\ job[s].todo = {}
  /\ job' = [job EXCEPT ![s] = [@ EXCEPT !.pc = "finally", !.status = "Completed"]]
  /\ UNCHANGED <<runs, log, listed, stored, registered>>

\* The processor returns: the log entity is added and the run counted.
Counted(j, result) == IF result = "Success" THEN [j EXCEPT !.ok = @ + 1]
                                            ELSE [j EXCEPT !.bad = @ + 1]
Returned(j, result) ==
  [Counted(j, result) EXCEPT !.pc = "log", !.result = result, !.unsaved = TRUE,
                             !.unknown = {}]
Return(s, result) == job' = [job EXCEPT ![s] = Returned(@, result)]

\* sp2 (SaveEngMap only) and the PDF: no engineers or no PDF fails the row,
\* any other failure throws.
Prepare(s) ==
  /\ At(s, "prepare")
  /\ \/ /\ WorkerOf[s] = "SaveEngMap" => Team[job[s].row] # {}
        /\ job' = [job EXCEPT ![s].pc = "send"]
     \/ Return(s, "Failed")
     \/ "prepare" \in Faults /\ Throw(s)
  /\ UNCHANGED <<runs, log, listed, stored, registered>>

-----------------------------------------------------------------------------
(* The POST of the report or of the map. *)
Possible(o) ==
  /\ o.result.verdict = "throws" => "odd" \in Faults
  /\ o.result.verdict = "failed" /\ o.stored /\ o.result.unknown = {}
       => "garbled" \in Faults
  /\ ~o.documented => "unconfirmed" \in Faults

Outcomes(w, p) ==
  {o \in IF w = "SaveEngineerReport" THEN ReportOutcome ELSE MapOutcome :
     /\ Possible(o)
     /\ w = "SaveEngMap" /\ o.result.verdict = "success"
          => Team[p] \subseteq registered}
  \cup (IF "lost" \in Faults THEN Lost ELSE {})

\* Mutant: engineers are added and the map re-sent as often as the answer asks.
AddAgain(s, r) == r.unknown # {}

\* Unknown engineers are added, and the map re-sent, once.
AddFirst(s, r) == r.unknown # {} /\ ~job[s].created

Send(s) ==
  LET w == WorkerOf[s]
      p == job[s].row
  IN
  /\ At(s, "send")
  /\ \E o \in Outcomes(w, p) :
       /\ stored' = IF o.stored THEN [stored EXCEPT ![w][p] = @ + 1] ELSE stored
       /\ \/ o.result.verdict = "throws" /\ Throw(s)
          \/ /\ o.result.verdict = "success"
             /\ IF w = "SaveEngineerReport" /\ o.result.id
                THEN job' = [job EXCEPT ![s].pc = "mark"]
                ELSE Return(s, "Success")
          \/ /\ o.result.verdict = "failed"
             /\ IF AddFirst(s, o.result)
                THEN job' = [job EXCEPT ![s] = [@ EXCEPT !.pc = "addengineer",
                                                 !.unknown = o.result.unknown]]
                ELSE Return(s, "Failed")
  /\ UNCHANGED <<runs, log, listed, registered>>

\* WebS_AddSabtNoToReport; its failure is only a warning.
Mark(s) ==
  /\ At(s, "mark")
  /\ \/ listed' = listed \ {job[s].row}
     \/ "mark" \in Faults /\ listed' = listed
  /\ Return(s, "Success")
  /\ UNCHANGED <<runs, log, stored, registered>>

\* addEngineer for each code of the answer that sp2 knows.
Visited(j, c, created) ==
  [j EXCEPT !.unknown = @ \ {c}, !.created = @ \/ created]

AddEngineer(s, c) ==
  /\ At(s, "addengineer")
  /\ c \in job[s].unknown
  /\ \/ /\ c \notin Team[job[s].row]
        /\ job' = [job EXCEPT ![s] = Visited(@, c, FALSE)]
        /\ UNCHANGED registered
     \/ /\ c \in Team[job[s].row]
        /\ \E o \in AddOutcome :
             /\ o.verdict = "throws" => {"lost", "odd"} \cap Faults # {}
             /\ o.verdict = "failed" /\ o.stored => "garbled" \in Faults
             /\ registered' = IF o.stored THEN registered \cup {c} ELSE registered
             /\ IF o.verdict = "throws" THEN Throw(s)
                ELSE job' = [job EXCEPT ![s] = Visited(@, c, o.verdict = "success")]
  /\ UNCHANGED <<runs, log, listed, stored>>

\* All codes visited: re-send once if any engineer was created.
AfterEngineers(s) ==
  /\ At(s, "addengineer")
  /\ job[s].unknown = {}
  /\ IF job[s].created THEN job' = [job EXCEPT ![s].pc = "send"]
                       ELSE Return(s, "Failed")
  /\ UNCHANGED <<runs, log, listed, stored, registered>>

-----------------------------------------------------------------------------
(* SaveChanges writes the tracked run and the added log row together. *)
Entry(s) == [run |-> job[s].run, worker |-> WorkerOf[s], peygiri |-> job[s].row,
             status |-> job[s].result, attempt |-> job[s].attempt]

SaveChanges(s) ==
  /\ runs' = [runs EXCEPT ![job[s].run] =
                [@ EXCEPT !.status = job[s].status, !.total = job[s].total,
                          !.ok = job[s].ok, !.bad = job[s].bad]]
  /\ log' = IF job[s].unsaved THEN Append(log, Entry(s)) ELSE log

\* The entity is saved, and the locals of the iteration go out of scope.
EndLocals(j) == [j EXCEPT !.row = "none", !.attempt = 0, !.result = "none",
                          !.created = FALSE]
EndRow(j) == [EndLocals(j) EXCEPT !.pc = "row", !.unsaved = FALSE]

SaveRow(s) ==
  /\ At(s, "log")
  /\ \/ /\ SaveChanges(s)
        /\ job' = [job EXCEPT ![s] = EndRow(@)]
     \/ "db" \in Faults /\ Throw(s) /\ UNCHANGED <<runs, log>>
  /\ UNCHANGED <<listed, stored, registered>>

\* Mutant: the finally block without its SaveChanges.
FinallyUnsaved(s) ==
  /\ At(s, "finally")
  /\ job' = [job EXCEPT ![s] = NoRun]
  /\ UNCHANGED <<runs, log, listed, stored, registered>>

\* The finally block; an entity that could not be saved is tried again.
Finally(s) ==
  /\ At(s, "finally")
  /\ \/ SaveChanges(s)
     \/ "db" \in Faults /\ UNCHANGED <<runs, log>>
  /\ job' = [job EXCEPT ![s] = NoRun]
  /\ UNCHANGED <<listed, stored, registered>>

-----------------------------------------------------------------------------
(* The client of a manual run goes away: the token of its request. *)
Disconnect(s) ==
  /\ "cancel" \in Faults
  /\ s \notin TimerSlot
  /\ Active(s) /\ ~job[s].cancelled
  /\ job' = [job EXCEPT ![s].cancelled = TRUE]
  /\ UNCHANGED <<runs, log, listed, stored, registered>>

\* The host stops: the token of every worker, which also ends a waiting one.
StopHost ==
  /\ "cancel" \in Faults
  /\ \E s \in TimerSlot : job[s].pc # "stopped" /\ ~job[s].cancelled
  /\ job' = [s \in Slot |->
               IF s \notin TimerSlot THEN job[s]
               ELSE IF Active(s) THEN [job[s] EXCEPT !.cancelled = TRUE]
               ELSE [NoRun EXCEPT !.pc = "stopped"]]
  /\ UNCHANGED <<runs, log, listed, stored, registered>>

\* The next await throws, and so does the SaveChanges of the finally block: the
\* run ends and nothing is written.  A worker whose token is cancelled leaves
\* its loop.
Interrupt(s) ==
  /\ Active(s) /\ job[s].cancelled
  /\ job' = [job EXCEPT ![s] =
               [NoRun EXCEPT !.pc = IF s \in TimerSlot THEN "stopped" ELSE "idle"]]
  /\ UNCHANGED <<runs, log, listed, stored, registered>>

\* The process dies, or ends after stopping, and is started again.
Restart ==
  /\ \/ "crash" \in Faults
     \/ \E s \in Slot : job[s].pc = "stopped"
  /\ job' = [s \in Slot |-> NoRun]
  /\ UNCHANGED <<runs, log, listed, stored, registered>>

Step(s) ==
  \/ List(s)
  \/ \E p \in Report : PickRow(s, p)
  \/ Complete(s)
  \/ Prepare(s)
  \/ Send(s)
  \/ Mark(s)
  \/ \E c \in Engineer : AddEngineer(s, c)
  \/ AfterEngineers(s)
  \/ SaveRow(s)
  \/ Finally(s)
  \/ Interrupt(s)

Next ==
  \/ \E s \in Slot : Start(s) \/ Step(s) \/ Disconnect(s)
  \/ StopHost
  \/ Restart

Spec == Init /\ [][Next]_vars

\* A run that has begun takes its next step: the municipality has 120s, a query
\* the timeout of its command, and a token that is cancelled ends any wait.  Not
\* so Prepare: it waits for pdftoppm, and nothing bounds that wait.
FairSpec == Spec /\ \A s \in Slot : WF_vars(Step(s) /\ ~At(s, "prepare"))
-----------------------------------------------------------------------------
(* The types of the tables, the jobs and the municipality's state. *)
RunRow == [worker : Worker, status : {"Running", "Completed", "Failed"},
           total : Nat, ok : Nat, bad : Nat]
LogRow == [run : Nat \ {0}, worker : Worker, peygiri : Report,
           status : {"Success", "Failed"}, attempt : Nat \ {0}]
Job == [pc : PC, run : Nat, todo : SUBSET Report, total : Nat, ok : Nat,
        bad : Nat, status : {"Running", "Completed", "Failed"},
        row : Report \cup {"none"}, attempt : Nat,
        result : {"none", "Success", "Failed"}, unknown : SUBSET Engineer,
        created : BOOLEAN, unsaved : BOOLEAN, cancelled : BOOLEAN]

\* Every variable keeps its type (the EF entities and the run's locals).
TypeOK ==
  /\ runs \in Seq(RunRow)
  /\ log \in Seq(LogRow)
  /\ listed \subseteq Report
  /\ job \in [Slot -> Job]
  /\ stored \in [Worker -> [Report -> Nat]]
  /\ registered \subseteq Engineer

LogRowsOf(i, status) == {k \in DOMAIN log : log[k].run = i /\ log[k].status = status}

\* The counters an administrator reads agree with the log at every moment the
\* database can be read, whatever fails: FailedCount is the number of Failed rows
\* of the run, each of its Success rows is counted in SuccessCount, and a run
\* closed as Completed has counted every row sp1 returned.
RunAccounting ==
  \A i \in DOMAIN runs :
    /\ runs[i].bad = Cardinality(LogRowsOf(i, "Failed"))
    /\ Cardinality(LogRowsOf(i, "Success")) <= runs[i].ok
    /\ runs[i].status = "Completed" => runs[i].ok + runs[i].bad = runs[i].total

\* A Success row of the report worker means the municipality has the report: no
\* fault, interleaving or retry makes the log claim what was not stored.
ReportSuccessIsStored ==
  \A k \in DOMAIN log :
    log[k].worker = "SaveEngineerReport" /\ log[k].status = "Success"
      => stored["SaveEngineerReport"][log[k].peygiri] > 0

\* WebS_AddSabtNoToReport takes a report off the pending list only when the
\* municipality has stored it, so no report is lost to the next runs.
UnlistedIsStored ==
  \A p \in Report \ listed : stored["SaveEngineerReport"][p] > 0

\* A report only leaves the list both workers read after both have logged it.
UnlistedIsLoggedByBoth ==
  \A p \in Report \ listed : \A w \in Worker : Attempts(w, p) # {}

\* The municipality is never sent the same report twice.
ReportSentOnce == \A p \in Report : stored["SaveEngineerReport"][p] <= 1

\* What the municipality stored is in the log, or is in the hands of a live job.
StoredIsLogged ==
  \A p \in Report :
    stored["SaveEngineerReport"][p] > 0 =>
      \/ Attempts("SaveEngineerReport", p) # {}
      \/ \E s \in Slot : job[s].row = p /\ job[s].pc \in {"mark", "log"}

\* A run row says Running only while a job is executing that run.
RunsAreClosed ==
  \A i \in DOMAIN runs :
    runs[i].status = "Running" => \E s \in Slot : Active(s) /\ job[s].run = i

\* When all that goes wrong is the content of answers, no run is Failed.
AnswersFailRowsOnly == \A i \in DOMAIN runs : runs[i].status # "Failed"

\* Once a report is logged as delivered for a worker it stays delivered, and
\* that worker never submits it again (the log-based dedup).
DeliveredIsFinal ==
  [][\A w \in Worker, p \in Report :
       Delivered(w, p) => Delivered(w, p)' /\ stored'[w][p] = stored[w][p]]_vars

\* Every run comes to an end, whatever goes wrong in it, unless it waits for its
\* image for ever: no other wait, loop or failure of RunAsync leaves it hanging.
EveryRunEnds ==
  \A s \in Slot : Active(s) ~> \/ ~Active(s)
                              \/ [](At(s, "prepare"))

\* With at most one slot for each worker the sync implements ReportDelivery.
Delivery == INSTANCE ReportDelivery WITH
  sent <- stored,
  acked <- [w \in Worker |-> {p \in Report : Delivered(w, p)}],
  Trusted <- IF "unconfirmed" \in Faults THEN {"SaveEngineerReport"} ELSE Worker
DeliverySpec == Delivery!Spec
=============================================================================
