------------------------ MODULE ProjectWorkspace_proofs ------------------------
(***************************************************************************)
(* Type correctness of ProjectWorkspace, and that a report row always has  *)
(* its PDF.  Then three rules of the stored rows: with one tab that saves, *)
(* total and status follow the scores; tools no engineer was ever assigned *)
(* stay blank, as long as the register gives every record some section;    *)
(* and with one tab that imports, no record is two projects of a user.     *)
(* Then the refinement: with one request of each user at a time, the       *)
(* workspace implements ProjectBook.                                       *)
(***************************************************************************)
EXTENDS ProjectWorkspace, TLAPS

USE RulesAssumption, WorkspaceAssumption

Job == [pc: PC, kind: Kind, p: Nat, ext: External \cup {Manual}, city: City,
        climate: Climate, allowed: SUBSET Section, row: AssessmentRow,
        insert: BOOLEAN, changed: SUBSET Column, second: Nat]

\* The requests on their way to fetch a record.
Fetching(j) ==
  \/ j.pc \in {"refetch", "fetch"}
  \/ j.pc \in {"admit", "subscribe"} /\ j.kind = "import"

JobsOK ==
  /\ lastId \in Nat
  /\ job \in [Slot -> Job]
  /\ \A s \in Slot : job[s].p \in 0..lastId /\ job[s].second \in 0..MaxSecond
  /\ \A s \in Slot : Fetching(job[s]) => job[s].ext \in External

TablesOK ==
  /\ lastId \in 0..MaxProjects
  /\ DOMAIN projects \subseteq 1..lastId
  /\ \A p \in DOMAIN projects : projects[p] \in ProjectRow
  /\ DOMAIN assessments \subseteq DOMAIN projects
  /\ \A p \in DOMAIN assessments : assessments[p] \in AssessmentRow
  /\ \A r \in reports : r.project \in DOMAIN assessments /\ r.second \in 0..MaxSecond
  /\ subs \in [User -> {"none", "active", "inactive"}]
  /\ register \in [External -> SUBSET Section]
  /\ \A x \in External : register[x] \in Lists[x]
  /\ second \in 0..MaxSecond

\* TypeOK, and what it needs of the requests in flight.
TypeInv == TypeOK /\ JobsOK

-----------------------------------------------------------------------------
\* The rules return well-formed rows.
LEMMA MergeType ==
  ASSUME NEW S, NEW f \in [Tool -> S], NEW g \in [Tool -> S], NEW allowed
  PROVE  MergeByAllowedTools(f, g, allowed) \in [Tool -> S]
BY DEF MergeByAllowedTools

LEMMA RowOfType ==
  ASSUME NEW input \in [Tool -> Input], NEW result \in [Tool -> Score]
  PROVE  RowOf(input, result) \in AssessmentRow
<1>1. SumScores(result) \in Totals
  BY DEF Totals
<1>2. StatusOf(SumScores(result)) \in {"Draft", "Completed"}
  BY DEF StatusOf
<1>. QED  BY <1>1, <1>2 DEF RowOf, AssessmentRow

LEMMA NoAssessmentType == NoAssessment \in AssessmentRow
<1>1. [t \in Tool |-> 0] \in [Tool -> Score]
  OBVIOUS
<1>2. SumScores([t \in Tool |-> 0]) \in Totals
  BY <1>1 DEF Totals
<1>3. [t \in Tool |-> Blank] \in [Tool -> Input]
  OBVIOUS
<1>. QED  BY <1>1, <1>2, <1>3 DEF NoAssessment, AssessmentRow

LEMMA SavedType ==
  ASSUME NEW seen \in AssessmentRow, NEW body \in Body, NEW allowed
  PROVE  Saved(seen, body, allowed) \in AssessmentRow
<1>1. seen.input \in [Tool -> Input] /\ seen.result \in [Tool -> Score]
  BY DEF AssessmentRow
<1>2. body.input \in [Tool -> Input] /\ body.result \in [Tool -> Score]
  OBVIOUS
<1>3. MergeByAllowedTools(seen.input, body.input, allowed) \in [Tool -> Input]
  BY <1>1, <1>2, MergeType
<1>4. MergeByAllowedTools(seen.result, body.result, allowed) \in [Tool -> Score]
  BY <1>1, <1>2, MergeType
<1>. QED  BY <1>3, <1>4, RowOfType DEF Saved

LEMMA FoundType ==
  ASSUME TypeOK, NEW p PROVE Found(p) \in AssessmentRow
BY NoAssessmentType DEF Found, TypeOK

LEMMA WrittenType ==
  ASSUME NEW old \in AssessmentRow, NEW j \in Job
  PROVE  Written(old, j) \in AssessmentRow
BY DEF Written, AssessmentRow, Job

LEMMA NoJobType == NoJob \in Job /\ NoJob.p = 0 /\ NoJob.second = 0 /\ NoJob.pc = "idle"
BY NoAssessmentType DEF NoJob, Job, PC, Kind, Unrestricted

\* What a step of slot s does to the requests in flight.
LEMMA ContinueJobs ==
  ASSUME job \in [Slot -> Job], NEW s \in Slot, NEW j \in Job, Continue(s, j)
  PROVE  /\ job' \in [Slot -> Job] /\ job'[s] = j
         /\ \A t \in Slot \ {s} : job'[t] = job[t]
BY DEF Continue

LEMMA DoneJobs ==
  ASSUME JobsOK, NEW s \in Slot, Done(s), lastId' \in {lastId, lastId + 1}
  PROVE  JobsOK' /\ job'[s] = NoJob /\ \A t \in Slot \ {s} : job'[t] = job[t]
<1>1. job \in [Slot -> Job] /\ Continue(s, NoJob)
  BY DEF JobsOK, Done
<1>2. job' \in [Slot -> Job] /\ job'[s] = NoJob /\ \A t \in Slot \ {s} : job'[t] = job[t]
  BY <1>1, NoJobType, ContinueJobs
<1>3. \A t \in Slot : job'[t].p \in 0..lastId' /\ job'[t].second \in 0..MaxSecond
  BY <1>2, NoJobType DEF JobsOK
<1>4. \A t \in Slot : Fetching(job'[t]) => job'[t].ext \in External
  BY <1>2, NoJobType DEF JobsOK, Fetching
<1>. QED  BY <1>2, <1>3, <1>4 DEF JobsOK, Fetching

LEMMA MoveJobs ==
  ASSUME JobsOK, NEW s \in Slot, NEW j \in Job, Continue(s, j), lastId' = lastId,
         j.p \in 0..lastId, j.second \in 0..MaxSecond,
         Fetching(j) => j.ext \in External
  PROVE  JobsOK' /\ job'[s] = j /\ \A t \in Slot \ {s} : job'[t] = job[t]
<1>1. job' \in [Slot -> Job] /\ job'[s] = j /\ \A t \in Slot \ {s} : job'[t] = job[t]
  BY ContinueJobs DEF JobsOK
<1>. QED  BY <1>1 DEF JobsOK, Fetching

-----------------------------------------------------------------------------
LEMMA InitType == Init => TypeInv
<1>. SUFFICES ASSUME Init PROVE TypeInv  OBVIOUS
<1>1. job \in [Slot -> Job] /\ \A s \in Slot : job[s] = NoJob
  BY NoJobType DEF Init
<1>2. JobsOK
  BY <1>1, NoJobType DEF JobsOK, Init, Fetching
<1>3. TypeOK
  BY <1>1, NoJobType, NoAssessmentType DEF TypeOK, Init, Empty, NoJob, PC
<1>. QED  BY <1>2, <1>3 DEF TypeInv

LEMMA TypeSplit ==
  (TypeInv <=> TablesOK /\ JobsOK) /\ (TypeInv <=> TablesOK /\ JobsOK)'
<1>1. TypeInv <=> TablesOK /\ JobsOK
  BY DEF TypeInv, TypeOK, TablesOK, JobsOK, Job
<1>. QED  BY <1>1, PTL

tables == <<projects, lastId, assessments, reports, subs, register, second>>

LEMMA QuietTables == TablesOK /\ UNCHANGED tables => TablesOK'
BY DEF TablesOK, tables

\* A step of slot s that only moves its request on keeps the types.
LEMMA QuietMove ==
  ASSUME TypeInv, NEW s \in Slot, NEW j \in Job, Continue(s, j), UNCHANGED tables,
         j.p \in 0..lastId, j.second \in 0..MaxSecond,
         Fetching(j) => j.ext \in External
  PROVE  TypeInv'
<1>1. JobsOK'
  BY MoveJobs DEF TypeInv, tables
<1>. QED  BY <1>1, QuietTables, TypeSplit

LEMMA QuietDone ==
  ASSUME TypeInv, NEW s \in Slot, Done(s), UNCHANGED tables
  PROVE  TypeInv'
<1>1. JobsOK'
  BY DoneJobs DEF TypeInv, tables
<1>. QED  BY <1>1, QuietTables, TypeSplit

\* A request that ends with a write keeps the types if the tables do.
LEMMA WriteDone ==
  ASSUME TypeInv, NEW s \in Slot, Done(s), TablesOK', lastId' \in {lastId, lastId + 1}
  PROVE  TypeInv'
BY DoneJobs, TypeSplit

LEMMA WithoutProps ==
  ASSUME NEW f, NEW k
  PROVE  /\ DOMAIN Without(f, k) = DOMAIN f \ {k}
         /\ \A i \in DOMAIN f \ {k} : Without(f, k)[i] = f[i]
BY DEF Without

-----------------------------------------------------------------------------
\* What a new request holds, whatever it asks for.
RequestJob(s, j) ==
  /\ j \in Job /\ Continue(s, j)
  /\ j.p \in 0..lastId /\ j.second \in 0..MaxSecond
  /\ j.pc \in {"admit", "refetch", "update", "delete", "put", "save"}
  /\ Fetching(j) => j.ext \in External
  /\ j.kind # "import" => j.ext = Manual
  /\ j.pc = "refetch" => j.p \in DOMAIN projects /\ projects[j.p].ext = j.ext
  /\ j.pc = "admit" /\ j.kind = "import" =>
       "import" \in KindsOf[s] /\ Imported(UserOf[s], j.ext) = {}
  /\ j.pc = "save" =>
       /\ "save" \in KindsOf[s] /\ Owned(s, j.p)
       /\ \E body \in Body : j.row = Saved(Found(j.p), body, projects[j.p].allowed)
       /\ j.insert = (j.p \notin DOMAIN assessments)
       /\ j.changed = ChangedIn(Found(j.p), j.row)

LEMMA RequestMoves ==
  ASSUME TypeInv, NEW s \in Slot, Request(s) PROVE \E j : RequestJob(s, j)
<1>. USE DEF RequestJob
<1>0. lastId \in Nat /\ 0 \in 0..lastId /\ 0 \in 0..MaxSecond
  BY DEF TypeInv, TypeOK
<1>1. CASE RequestMe(s)
  <2>. DEFINE j == [NoJob EXCEPT !.pc = "admit"]
  <2>1. j \in Job /\ j.p = 0 /\ j.second = 0 /\ j.pc = "admit" /\ j.kind = "me" /\ j.ext = Manual
    BY NoJobType DEF Job, PC, NoJob
  <2>2. Continue(s, j)
    BY <1>1 DEF RequestMe
  <2>. HIDE DEF j
  <2>3. RequestJob(s, j)
    BY <1>0, <2>1, <2>2 DEF Fetching
  <2>. QED  BY <2>3
<1>2. ASSUME NEW c \in City, RequestCreate(s, c) PROVE \E j : RequestJob(s, j)
  <2>. DEFINE j == [NoJob EXCEPT !.pc = "admit", !.kind = "create", !.city = c,
                                 !.climate = CityClimate[c]]
  <2>1. j \in Job /\ j.p = 0 /\ j.second = 0 /\ j.pc = "admit" /\ j.kind = "create"
        /\ j.ext = Manual
    BY NoJobType DEF Job, PC, Kind, NoJob
  <2>2. Continue(s, j)
    BY <1>2 DEF RequestCreate
  <2>. HIDE DEF j
  <2>3. RequestJob(s, j)
    BY <1>0, <2>1, <2>2 DEF Fetching
  <2>. QED  BY <2>3
<1>3. ASSUME NEW x \in External, RequestImport(s, x) PROVE \E j : RequestJob(s, j)
  <2>1. ASSUME NEW p \in Imported(UserOf[s], x),
               Continue(s, [NoJob EXCEPT !.pc = "refetch", !.kind = "import", !.p = p,
                                         !.ext = x, !.allowed = projects[p].allowed])
        PROVE  \E j : RequestJob(s, j)
    <3>. DEFINE j == [NoJob EXCEPT !.pc = "refetch", !.kind = "import", !.p = p,
                                   !.ext = x, !.allowed = projects[p].allowed]
    <3>1. p \in DOMAIN projects /\ projects[p].ext = x /\ p \in 0..lastId /\ p \in Nat
      BY DEF Imported, TypeInv, TypeOK
    <3>2. projects[p].allowed \in SUBSET Section
      BY <3>1 DEF TypeInv, TypeOK, ProjectRow
    <3>3. j \in Job /\ j.p = p /\ j.second = 0 /\ j.ext = x /\ j.pc = "refetch"
          /\ j.kind = "import"
      BY <3>1, <3>2, NoJobType DEF Job, PC, Kind
    <3>4. Continue(s, j)
      BY <2>1
    <3>. HIDE DEF j
    <3>5. RequestJob(s, j)
      BY <1>0, <3>1, <3>3, <3>4
    <3>. QED  BY <3>5
  <2>2. ASSUME Continue(s, [NoJob EXCEPT !.pc = "admit", !.kind = "import", !.ext = x]),
               "import" \in KindsOf[s], Imported(UserOf[s], x) = {}
        PROVE  \E j : RequestJob(s, j)
    <3>. DEFINE j == [NoJob EXCEPT !.pc = "admit", !.kind = "import", !.ext = x]
    <3>1. j \in Job /\ j.p = 0 /\ j.second = 0 /\ j.ext = x /\ j.pc = "admit"
          /\ j.kind = "import"
      BY NoJobType DEF Job, PC, Kind
    <3>2. Continue(s, j)
      BY <2>2
    <3>. HIDE DEF j
    <3>3. RequestJob(s, j)
      BY <1>0, <2>2, <3>1, <3>2
    <3>. QED  BY <3>3
  <2>. QED  BY <1>3, <2>1, <2>2 DEF RequestImport, Ready
<1>4. ASSUME NEW p \in DOMAIN projects, RequestDelete(s, p) PROVE \E j : RequestJob(s, j)
  <2>. DEFINE j == [NoJob EXCEPT !.pc = "delete", !.kind = "delete", !.p = p]
  <2>1. p \in 0..lastId /\ p \in Nat
    BY DEF TypeInv, TypeOK
  <2>2. j \in Job /\ j.p = p /\ j.second = 0 /\ j.pc = "delete" /\ j.ext = Manual
    BY <2>1, NoJobType DEF Job, PC, Kind, NoJob
  <2>3. Continue(s, j)
    BY <1>4 DEF RequestDelete
  <2>. HIDE DEF j
  <2>4. RequestJob(s, j)
    BY <1>0, <2>1, <2>2, <2>3 DEF Fetching
  <2>. QED  BY <2>4
<1>5. ASSUME NEW p \in DOMAIN projects, RequestReport(s, p) PROVE \E j : RequestJob(s, j)
  <2>. DEFINE j == [NoJob EXCEPT !.pc = "put", !.kind = "report", !.p = p,
                                 !.climate = projects[p].climate,
                                 !.row = assessments[p], !.second = second]
  <2>1. p \in 0..lastId /\ p \in Nat /\ second \in 0..MaxSecond /\ second \in Nat
    BY DEF TypeInv, TypeOK
  <2>2. projects[p].climate \in Climate /\ assessments[p] \in AssessmentRow
    BY <1>5 DEF TypeInv, TypeOK, ProjectRow, RequestReport
  <2>3. j \in Job /\ j.p = p /\ j.second = second /\ j.pc = "put" /\ j.ext = Manual
    BY <2>1, <2>2, NoJobType DEF Job, PC, Kind, NoJob
  <2>4. Continue(s, j)
    BY <1>5 DEF RequestReport
  <2>. HIDE DEF j
  <2>5. RequestJob(s, j)
    BY <2>1, <2>3, <2>4 DEF Fetching
  <2>. QED  BY <2>5
<1>6. ASSUME NEW p \in DOMAIN projects, NEW c \in City, RequestUpdate(s, p, c)
      PROVE  \E j : RequestJob(s, j)
  <2>. DEFINE ch == {k \in {"city", "climate"} :
                       \/ k = "city" /\ c # projects[p].city
                       \/ k = "climate" /\ CityClimate[c] # projects[p].climate}
              j == [NoJob EXCEPT !.pc = "update", !.kind = "update", !.p = p,
                                 !.city = c, !.climate = CityClimate[c], !.changed = ch]
  <2>1. p \in 0..lastId /\ p \in Nat
    BY DEF TypeInv, TypeOK
  <2>2. Continue(s, j)
    BY <1>6 DEF RequestUpdate
  <2>3. ch \in SUBSET Column
    BY DEF Column
  <2>. HIDE DEF ch
  <2>4. j \in Job /\ j.p = p /\ j.second = 0 /\ j.pc = "update" /\ j.ext = Manual
    BY <2>1, <2>3, NoJobType DEF Job, PC, Kind, NoJob
  <2>. HIDE DEF j
  <2>5. RequestJob(s, j)
    BY <1>0, <2>1, <2>2, <2>4 DEF Fetching
  <2>. QED  BY <2>5
<1>7. ASSUME NEW p \in DOMAIN projects, NEW body \in Body, RequestSave(s, p, body)
      PROVE  \E j : RequestJob(s, j)
  <2>. DEFINE row == Saved(Found(p), body, projects[p].allowed)
              ins == p \notin DOMAIN assessments
              ch == ChangedIn(Found(p), row)
              j == [NoJob EXCEPT !.pc = "save", !.kind = "save", !.p = p, !.row = row,
                                 !.insert = ins, !.changed = ch]
  <2>1. p \in 0..lastId /\ p \in Nat
    BY DEF TypeInv, TypeOK
  <2>2. Continue(s, j) /\ "save" \in KindsOf[s] /\ Owned(s, p)
    BY <1>7 DEF RequestSave, Ready
  <2>3. row \in AssessmentRow
    BY FoundType, SavedType DEF TypeInv
  <2>4. ch \in SUBSET Column /\ ins \in BOOLEAN
    BY DEF ChangedIn, Column
  <2>5. row = Saved(Found(p), body, projects[p].allowed)
        /\ ins = (p \notin DOMAIN assessments) /\ ch = ChangedIn(Found(p), row)
    OBVIOUS
  <2>. HIDE DEF row, ins, ch
  <2>6. j \in Job /\ j.p = p /\ j.second = 0 /\ j.pc = "save" /\ j.ext = Manual
        /\ j.row = row /\ j.insert = ins /\ j.changed = ch
    BY <2>1, <2>3, <2>4, NoJobType DEF Job, PC, Kind, NoJob
  <2>. HIDE DEF j
  <2>7. RequestJob(s, j)
    BY <1>0, <2>1, <2>2, <2>5, <2>6 DEF Fetching
  <2>. QED  BY <2>7
<1>. QED  BY <1>1, <1>2, <1>3, <1>4, <1>5, <1>6, <1>7 DEF Request

LEMMA RequestQuiet ==
  ASSUME NEW s \in Slot, Request(s)
  PROVE  UNCHANGED <<projects, lastId, assessments, reports, objects, subs, register, second>>
BY DEF Request, RequestMe, RequestCreate, RequestImport, RequestDelete, RequestReport,
       RequestUpdate, RequestSave

LEMMA RequestsType ==
  ASSUME TypeInv, NEW s \in Slot, Request(s) PROVE TypeInv'
<1>1. PICK j : RequestJob(s, j)
  BY RequestMoves
<1>2. UNCHANGED tables
  BY RequestQuiet DEF tables
<1>. QED  BY <1>1, <1>2, QuietMove DEF RequestJob

LEMMA AdmittedType ==
  ASSUME TypeInv, NEW s \in Slot, job[s].pc \in {"admit", "subscribe"}
  PROVE  /\ Admitted(job[s]) \in Job
         /\ Admitted(job[s]).p = job[s].p /\ Admitted(job[s]).second = job[s].second
         /\ Fetching(Admitted(job[s])) => Admitted(job[s]).ext \in External
<1>1. job[s] \in Job /\ (job[s].kind = "import" => job[s].ext \in External)
  BY DEF TypeInv, JobsOK, Fetching
<1>2. PICK pc \in {"insert", "fetch", "idle"} :
        /\ Admitted(job[s]) = [job[s] EXCEPT !.pc = pc]
        /\ pc = "fetch" => job[s].kind = "import"
  BY <1>1 DEF Admitted, Job
<1>3. [job[s] EXCEPT !.pc = pc] \in Job
  BY <1>1 DEF Job, PC
<1>4. [job[s] EXCEPT !.pc = pc].pc = pc /\ [job[s] EXCEPT !.pc = pc].ext = job[s].ext
      /\ [job[s] EXCEPT !.pc = pc].p = job[s].p
      /\ [job[s] EXCEPT !.pc = pc].second = job[s].second
  BY <1>1 DEF Job
<1>. QED  BY <1>1, <1>2, <1>3, <1>4 DEF Fetching

LEMMA QuietStepsType ==
  ASSUME TypeInv, NEW s \in Slot,
         Admit(s) \/ Refetch(s) \/ Fetch(s) \/ Put(s) \/ Fail(s)
  PROVE  TypeInv'
<1>1. UNCHANGED tables
  BY DEF Admit, Refetch, Fetch, Put, Fail, tables
<1>2. job[s] \in Job /\ job[s].p \in 0..lastId /\ job[s].second \in 0..MaxSecond
  BY DEF TypeInv, JobsOK
<1>3. CASE Done(s)
  BY <1>1, <1>3, QuietDone
<1>4. ASSUME NEW j \in Job, Continue(s, j), j.p = job[s].p, j.second = job[s].second,
             Fetching(j) => j.ext \in External
      PROVE  TypeInv'
  BY <1>1, <1>2, <1>4, QuietMove
<1>5. CASE Admit(s)
  <2>1. CASE Continue(s, Admitted(job[s]))
    BY <1>2, <1>4, <1>5, <2>1, AdmittedType DEF Admit, At
  <2>2. CASE Continue(s, [job[s] EXCEPT !.pc = "subscribe"])
    <3>. DEFINE j == [job[s] EXCEPT !.pc = "subscribe"]
    <3>1. j \in Job /\ j.p = job[s].p /\ j.second = job[s].second
          /\ j.pc = "subscribe" /\ j.kind = job[s].kind /\ j.ext = job[s].ext
      BY <1>2 DEF Job, PC
    <3>. HIDE DEF j
    <3>2. Fetching(j) => j.ext \in External
      BY <1>5, <3>1 DEF Admit, At, Fetching, TypeInv, JobsOK
    <3>. QED  BY <1>4, <2>2, <3>1, <3>2 DEF j
  <2>. QED  BY <1>3, <1>5, <2>1, <2>2 DEF Admit
<1>6. CASE Refetch(s)
  <2>1. ASSUME Continue(s, [job[s] EXCEPT !.pc = "refresh",
                                         !.allowed = register[job[s].ext]])
        PROVE  TypeInv'
    <3>. DEFINE j == [job[s] EXCEPT !.pc = "refresh", !.allowed = register[job[s].ext]]
    <3>1. register[job[s].ext] \in SUBSET Section
      BY <1>6 DEF Refetch, At, Fetching, TypeInv, JobsOK, TypeOK
    <3>2. j \in Job /\ j.p = job[s].p /\ j.second = job[s].second /\ j.pc = "refresh"
      BY <1>2, <3>1 DEF Job, PC
    <3>. HIDE DEF j
    <3>. QED  BY <1>4, <2>1, <3>2 DEF j, Fetching
  <2>. QED  BY <1>3, <1>6, <2>1 DEF Refetch
<1>7. CASE Fetch(s)
  <2>1. ASSUME Continue(s, [job[s] EXCEPT !.pc = "insert",
                                         !.allowed = register[job[s].ext]])
        PROVE  TypeInv'
    <3>. DEFINE j == [job[s] EXCEPT !.pc = "insert", !.allowed = register[job[s].ext]]
    <3>1. register[job[s].ext] \in SUBSET Section
      BY <1>7 DEF Fetch, At, Fetching, TypeInv, JobsOK, TypeOK
    <3>2. j \in Job /\ j.p = job[s].p /\ j.second = job[s].second /\ j.pc = "insert"
      BY <1>2, <3>1 DEF Job, PC
    <3>. HIDE DEF j
    <3>. QED  BY <1>4, <2>1, <3>2 DEF j, Fetching
  <2>. QED  BY <1>3, <1>7, <2>1 DEF Fetch
<1>8. CASE Put(s)
  <2>. DEFINE j == [job[s] EXCEPT !.pc = "record"]
  <2>1. j \in Job /\ j.p = job[s].p /\ j.second = job[s].second /\ j.pc = "record"
    BY <1>2 DEF Job, PC
  <2>2. Continue(s, j)
    BY <1>8 DEF Put
  <2>. HIDE DEF j
  <2>. QED  BY <1>4, <2>1, <2>2 DEF Fetching
<1>9. CASE Fail(s)
  BY <1>3, <1>9 DEF Fail
<1>. QED  BY <1>5, <1>6, <1>7, <1>8, <1>9

LEMMA SubscribeType ==
  ASSUME TypeInv, NEW s \in Slot, Subscribe(s) PROVE TypeInv'
<1>. USE DEF tables
<1>1. TablesOK'
  <2>1. subs' \in [User -> {"none", "active", "inactive"}]
    BY DEF Subscribe, TypeInv, TypeOK
  <2>2. UNCHANGED <<projects, lastId, assessments, reports, objects, register, second>>
    BY DEF Subscribe
  <2>. QED  BY <2>1, <2>2, TypeSplit DEF TablesOK
<1>2. UNCHANGED lastId
  BY DEF Subscribe
<1>3. CASE Done(s)
  BY <1>1, <1>2, <1>3, WriteDone
<1>4. CASE Continue(s, Admitted(job[s]))
  <2>1. job[s].pc = "subscribe" /\ job[s].p \in 0..lastId /\ job[s].second \in 0..MaxSecond
    BY DEF Subscribe, At, TypeInv, JobsOK
  <2>2. JobsOK'
    BY <1>2, <1>4, <2>1, AdmittedType, MoveJobs DEF TypeInv
  <2>. QED  BY <1>1, <2>2, TypeSplit
<1>. QED  BY <1>3, <1>4 DEF Subscribe

\* Replacing the row of a live project keeps the tables.
LEMMA ProjectWrite ==
  ASSUME TablesOK, NEW p \in DOMAIN projects, NEW row \in ProjectRow,
         projects' = With(projects, p, row),
         UNCHANGED <<lastId, assessments, reports, subs, register, second>>
  PROVE  TablesOK'
<1>1. DOMAIN projects' = DOMAIN projects
      /\ \A q \in DOMAIN projects : projects'[q] = row \/ projects'[q] = projects[q]
  BY DEF With
<1>2. \A q \in DOMAIN projects' : projects'[q] \in ProjectRow
  BY <1>1 DEF TablesOK
<1>. QED  BY <1>1, <1>2 DEF TablesOK

LEMMA RefreshType ==
  ASSUME TypeInv, NEW s \in Slot, Refresh(s) PROVE TypeInv'
<1>1. Done(s) /\ UNCHANGED <<lastId, assessments, reports, subs, register, second>>
  BY DEF Refresh
<1>2. job[s].allowed \in SUBSET Section
  BY DEF TypeInv, JobsOK, Job
<1>3. CASE job[s].p \in DOMAIN projects
  <2>1. projects[job[s].p] \in ProjectRow
    BY <1>3 DEF TypeInv, TypeOK
  <2>2. Refreshed(projects[job[s].p], job[s].allowed) \in ProjectRow
    BY <1>2, <2>1 DEF Refreshed, ProjectRow
  <2>3. TablesOK'
    BY <1>1, <1>3, <2>2, ProjectWrite, TypeSplit DEF Refresh
  <2>. QED  BY <1>1, <2>3, WriteDone
<1>4. CASE job[s].p \notin DOMAIN projects
  BY <1>1, <1>4, QuietDone DEF Refresh, tables
<1>. QED  BY <1>3, <1>4

LEMMA UpdateType ==
  ASSUME TypeInv, NEW s \in Slot, Update(s) PROVE TypeInv'
<1>1. Done(s) /\ UNCHANGED <<lastId, assessments, reports, subs, register, second>>
  BY DEF Update
<1>2. job[s].city \in City /\ job[s].climate \in Climate
  BY DEF TypeInv, JobsOK, Job
<1>3. CASE job[s].p \in DOMAIN projects
  <2>1. projects[job[s].p] \in ProjectRow
    BY <1>3 DEF TypeInv, TypeOK
  <2>2. Updated(projects[job[s].p], job[s]) \in ProjectRow
    BY <1>2, <2>1 DEF Updated, ProjectRow
  <2>3. TablesOK'
    BY <1>1, <1>3, <2>2, ProjectWrite, TypeSplit DEF Update
  <2>. QED  BY <1>1, <2>3, WriteDone
<1>4. CASE job[s].p \notin DOMAIN projects
  BY <1>1, <1>4, QuietDone DEF Update, tables
<1>. QED  BY <1>3, <1>4

LEMMA InsertType ==
  ASSUME TypeInv, NEW s \in Slot, Insert(s) PROVE TypeInv'
<1>1. Done(s) /\ lastId' = lastId + 1 /\ lastId < MaxProjects
      /\ projects' = With(projects, lastId + 1, NewProject(s))
      /\ UNCHANGED <<assessments, reports, subs, register, second>>
  BY DEF Insert
<1>2. NewProject(s) \in ProjectRow
  BY DEF NewProject, ProjectRow, TypeInv, JobsOK, Job
<1>3. DOMAIN projects' = DOMAIN projects \cup {lastId + 1}
      /\ \A q \in DOMAIN projects' : projects'[q] \in ProjectRow
  <2>1. DOMAIN projects' = DOMAIN projects \cup {lastId + 1}
        /\ \A q \in DOMAIN projects' :
             \/ projects'[q] = NewProject(s)
             \/ q \in DOMAIN projects /\ projects'[q] = projects[q]
    BY <1>1 DEF With
  <2>. QED  BY <1>2, <2>1 DEF TypeInv, TypeOK
<1>4. lastId \in Nat /\ lastId' \in 0..MaxProjects
  BY <1>1 DEF TypeInv, TypeOK
<1>5. DOMAIN projects' \subseteq 1..lastId'
  BY <1>1, <1>3, <1>4 DEF TypeInv, TypeOK
<1>6. DOMAIN assessments' \subseteq DOMAIN projects'
  BY <1>1, <1>3 DEF TypeInv, TypeOK
<1>7. TablesOK'
  BY <1>1, <1>3, <1>4, <1>5, <1>6, TypeSplit DEF TablesOK
<1>. QED  BY <1>1, <1>7, WriteDone

LEMMA DeleteType ==
  ASSUME TypeInv, NEW s \in Slot, Delete(s) PROVE TypeInv'
<1>. DEFINE p == job[s].p
<1>1. Done(s) /\ UNCHANGED <<lastId, subs, register, second>>
      /\ projects' = Without(projects, p) /\ assessments' = Without(assessments, p)
      /\ reports' = {r \in reports : r.project # p}
  BY DEF Delete, ReportsWithout
<1>. HIDE DEF p
<1>2. DOMAIN projects' = DOMAIN projects \ {p}
      /\ \A q \in DOMAIN projects' : projects'[q] = projects[q]
  BY <1>1, WithoutProps
<1>3. DOMAIN assessments' = DOMAIN assessments \ {p}
      /\ \A q \in DOMAIN assessments' : assessments'[q] = assessments[q]
  BY <1>1, WithoutProps
<1>4. TablesOK'
  BY <1>1, <1>2, <1>3, TypeSplit DEF TablesOK
<1>. QED  BY <1>1, <1>4, WriteDone

LEMMA SaveType ==
  ASSUME TypeInv, NEW s \in Slot, Save(s) PROVE TypeInv'
<1>. DEFINE p == job[s].p
<1>1. Done(s) /\ UNCHANGED <<projects, lastId, reports, subs, register, second>>
  BY DEF Save
<1>2. job[s] \in Job /\ job[s].row \in AssessmentRow
  BY DEF TypeInv, JobsOK, Job
<1>3. PICK row \in AssessmentRow :
        \/ assessments' = assessments
        \/ p \in DOMAIN projects /\ assessments' = With(assessments, p, row)
  <2>1. p \in DOMAIN assessments => Written(assessments[p], job[s]) \in AssessmentRow
                                    /\ p \in DOMAIN projects
    BY <1>2, WrittenType DEF TypeInv, TypeOK
  <2>. QED  BY <1>2, <2>1 DEF Save
<1>. HIDE DEF p
<1>4. CASE assessments' = assessments
  BY <1>1, <1>4, QuietDone DEF tables
<1>5. CASE p \in DOMAIN projects /\ assessments' = With(assessments, p, row)
  <2>1. DOMAIN assessments' = DOMAIN assessments \cup {p}
        /\ \A q \in DOMAIN assessments' : assessments'[q] \in AssessmentRow
    <3>1. DOMAIN assessments' = DOMAIN assessments \cup {p}
          /\ \A q \in DOMAIN assessments' :
               \/ assessments'[q] = row
               \/ q \in DOMAIN assessments /\ assessments'[q] = assessments[q]
      BY <1>5 DEF With
    <3>. QED  BY <3>1 DEF TypeInv, TypeOK
  <2>2. TablesOK'
    BY <1>1, <1>5, <2>1, TypeSplit DEF TablesOK
  <2>. QED  BY <1>1, <2>2, WriteDone
<1>. QED  BY <1>3, <1>4, <1>5

LEMMA RecordType ==
  ASSUME TypeInv, NEW s \in Slot, Record(s) PROVE TypeInv'
<1>1. Done(s) /\ UNCHANGED <<projects, lastId, assessments, subs, register, second>>
  BY DEF Record
<1>2. job[s].second \in 0..MaxSecond
  BY DEF TypeInv, JobsOK
<1>3. \A r \in reports' : r.project \in DOMAIN assessments /\ r.second \in 0..MaxSecond
  BY <1>2 DEF Record, TypeInv, TypeOK
<1>4. TablesOK'
  BY <1>1, <1>3, TypeSplit DEF TablesOK
<1>. QED  BY <1>1, <1>4, WriteDone

LEMMA WorldType ==
  ASSUME TypeInv, World PROVE TypeInv'
<1>1. UNCHANGED <<projects, lastId, assessments, reports, subs, job>>
  BY DEF World, Tick, Reassign
<1>2. second' \in 0..MaxSecond
  BY DEF World, Tick, Reassign, TypeInv, TypeOK
<1>3. register' \in [External -> SUBSET Section] /\ \A x \in External : register'[x] \in Lists[x]
  BY DEF World, Tick, Reassign, TypeInv, TypeOK
<1>4. TablesOK'
  BY <1>1, <1>2, <1>3, TypeSplit DEF TablesOK
<1>5. JobsOK'
  BY <1>1 DEF TypeInv, JobsOK
<1>. QED  BY <1>4, <1>5, TypeSplit

LEMMA NextType == TypeInv /\ [Next]_vars => TypeInv'
<1>. SUFFICES ASSUME TypeInv, [Next]_vars PROVE TypeInv'  OBVIOUS
<1>1. CASE World
  BY <1>1, WorldType
<1>2. ASSUME NEW s \in Slot, Request(s) PROVE TypeInv'
  BY <1>2, RequestsType
<1>3. ASSUME NEW s \in Slot, Step(s) PROVE TypeInv'
  BY <1>3, QuietStepsType, SubscribeType, RefreshType, InsertType, UpdateType,
     DeleteType, SaveType, RecordType DEF Step
<1>4. CASE UNCHANGED vars
  BY <1>4 DEF vars, TypeInv, TypeOK, JobsOK
<1>. QED  BY <1>1, <1>2, <1>3, <1>4 DEF Next

LEMMA TypeInvariant == Spec => []TypeInv
BY InitType, NextType, PTL DEF Spec

\* The tables of the workspace and every request in flight keep their types: ids
\* are ids that were given out, assessments belong to live projects and reports to
\* assessments, whatever requests overlap and whatever fails.
THEOREM TypeCorrect == Spec => []TypeOK
<1>1. TypeInv => TypeOK
  BY DEF TypeInv
<1>. QED  BY <1>1, TypeInvariant, PTL

-----------------------------------------------------------------------------
\* What a request holds after its next check of the subscription or the register.
CheckJob(s, j) ==
  /\ Continue(s, j)
  /\ j.pc \in {"idle", "subscribe", "fetch", "insert", "refresh"}
  /\ j.p \in {0, job[s].p}
  /\ j.pc # "idle" => j.p = job[s].p /\ j.ext = job[s].ext /\ j.kind = job[s].kind
  /\ j.pc = "subscribe" => job[s].pc = "admit"
  /\ j.pc = "fetch" => job[s].pc \in {"admit", "subscribe"} /\ job[s].kind = "import"
  /\ j.pc = "insert" =>
       \/ job[s].pc \in {"admit", "subscribe"} /\ job[s].kind = "create"
       \/ job[s].pc = "fetch" /\ j.allowed = register[job[s].ext]
  /\ j.pc = "refresh" => job[s].pc = "refetch" /\ j.allowed = register[job[s].ext]

LEMMA CheckMoves ==
  ASSUME TypeInv, NEW s \in Slot, Admit(s) \/ Subscribe(s) \/ Refetch(s) \/ Fetch(s)
  PROVE  \E j : CheckJob(s, j)
<1>. USE DEF CheckJob
<1>1. job[s] \in Job
  BY DEF TypeInv, JobsOK
<1>2. ASSUME NEW pc, NEW list
      PROVE  LET j == [job[s] EXCEPT !.pc = pc]
                 k == [job[s] EXCEPT !.pc = pc, !.allowed = list]
             IN /\ j.pc = pc /\ j.p = job[s].p /\ j.ext = job[s].ext /\ j.kind = job[s].kind
                /\ k.pc = pc /\ k.p = job[s].p /\ k.ext = job[s].ext /\ k.kind = job[s].kind
                /\ k.allowed = list
  BY <1>1 DEF Job
<1>3. ASSUME Done(s) PROVE \E j : CheckJob(s, j)
  <2>1. CheckJob(s, NoJob)
    BY <1>3, NoJobType DEF Done
  <2>. QED  BY <2>1
<1>4. ASSUME job[s].pc \in {"admit", "subscribe"}, Continue(s, Admitted(job[s]))
      PROVE  \E j : CheckJob(s, j)
  <2>1. PICK pc \in {"insert", "fetch", "idle"} :
          /\ Admitted(job[s]) = [job[s] EXCEPT !.pc = pc]
          /\ pc = "insert" => job[s].kind = "create"
          /\ pc = "fetch" => job[s].kind = "import"
    BY DEF Admitted
  <2>2. CheckJob(s, Admitted(job[s]))
    BY <1>2, <1>4, <2>1
  <2>. QED  BY <2>2
<1>5. CASE Admit(s)
  <2>1. ASSUME Continue(s, [job[s] EXCEPT !.pc = "subscribe"])
        PROVE  \E j : CheckJob(s, j)
    <3>1. CheckJob(s, [job[s] EXCEPT !.pc = "subscribe"])
      BY <1>2, <1>5, <2>1 DEF Admit, At
    <3>. QED  BY <3>1
  <2>. QED  BY <1>3, <1>4, <1>5, <2>1 DEF Admit, At
<1>6. CASE Subscribe(s)
  BY <1>3, <1>4, <1>6 DEF Subscribe, At
<1>7. CASE Refetch(s)
  <2>. DEFINE k == [job[s] EXCEPT !.pc = "refresh", !.allowed = register[job[s].ext]]
  <2>1. ASSUME Continue(s, k) PROVE \E j : CheckJob(s, j)
    <3>1. CheckJob(s, k)
      BY <1>2, <1>7, <2>1 DEF Refetch, At
    <3>. QED  BY <3>1
  <2>. QED  BY <1>3, <1>7, <2>1 DEF Refetch
<1>8. CASE Fetch(s)
  <2>. DEFINE k == [job[s] EXCEPT !.pc = "insert", !.allowed = register[job[s].ext]]
  <2>1. ASSUME Continue(s, k) PROVE \E j : CheckJob(s, j)
    <3>1. CheckJob(s, k)
      BY <1>2, <1>8, <2>1 DEF Fetch, At
    <3>. QED  BY <3>1
  <2>. QED  BY <1>3, <1>8, <2>1 DEF Fetch
<1>. QED  BY <1>5, <1>6, <1>7, <1>8

-----------------------------------------------------------------------------
\* A PDF is in the storage before its row is inserted: a request that is about to
\* insert the row has put the object, and no request removes one.
PutBeforeRecord ==
  \A s \in Slot : job[s].pc = "record" => JobKey(s) \in DOMAIN objects

StorageInv == RowsHaveObjects /\ PutBeforeRecord

LEMMA StorageStep ==
  ASSUME TypeInv, StorageInv, [Next]_vars PROVE StorageInv'
<1>1. CASE UNCHANGED <<reports, objects, job>>
  BY <1>1 DEF StorageInv, RowsHaveObjects, PutBeforeRecord, JobKey
<1>2. ASSUME NEW s \in Slot, NEW j, Continue(s, j), j.pc # "record",
             UNCHANGED objects, reports' \subseteq reports
      PROVE  StorageInv'
  <2>1. \A t \in Slot : job'[t].pc = "record" => job'[t] = job[t]
    BY <1>2 DEF Continue, TypeInv, JobsOK
  <2>. QED  BY <1>2, <2>1 DEF StorageInv, RowsHaveObjects, PutBeforeRecord, JobKey
<1>3. ASSUME NEW s \in Slot, Request(s) PROVE StorageInv'
  <2>1. PICK j : RequestJob(s, j)
    BY <1>3, RequestMoves
  <2>2. UNCHANGED <<objects, reports>>
    BY <1>3, RequestQuiet
  <2>. QED  BY <1>2, <2>1, <2>2 DEF RequestJob
<1>4. ASSUME NEW s \in Slot, Admit(s) \/ Subscribe(s) \/ Refetch(s) \/ Fetch(s)
      PROVE  StorageInv'
  <2>1. PICK j : CheckJob(s, j)
    BY <1>4, CheckMoves
  <2>2. UNCHANGED <<objects, reports>>
    BY <1>4 DEF Admit, Subscribe, Refetch, Fetch
  <2>. QED  BY <1>2, <2>1, <2>2 DEF CheckJob
<1>5. ASSUME NEW s \in Slot,
             Refresh(s) \/ Insert(s) \/ Update(s) \/ Delete(s) \/ Save(s) \/ Fail(s)
      PROVE  StorageInv'
  <2>1. Continue(s, NoJob) /\ UNCHANGED objects /\ reports' \subseteq reports
    BY <1>5 DEF Refresh, Insert, Update, Delete, Save, Fail, Done, ReportsWithout
  <2>. QED  BY <1>2, <2>1, NoJobType
<1>6. ASSUME NEW s \in Slot, Put(s) PROVE StorageInv'
  <2>1. objects' = With(objects, JobKey(s), JobDoc(s)) /\ UNCHANGED reports
        /\ Continue(s, [job[s] EXCEPT !.pc = "record"])
    BY <1>6 DEF Put
  <2>2. DOMAIN objects' = DOMAIN objects \cup {JobKey(s)}
    BY <2>1 DEF With
  <2>3. job \in [Slot -> Job]
    BY DEF TypeInv, JobsOK
  <2>4. \A t \in Slot : JobKey(t)' = JobKey(t) /\ (t # s => job'[t].pc = job[t].pc)
    BY <2>1, <2>3 DEF Continue, JobKey, Job
  <2>5. RowsHaveObjects'
    BY <2>1, <2>2 DEF StorageInv, RowsHaveObjects
  <2>6. PutBeforeRecord'
    BY <2>2, <2>4 DEF StorageInv, PutBeforeRecord
  <2>. QED  BY <2>5, <2>6 DEF StorageInv
<1>7. ASSUME NEW s \in Slot, Record(s) PROVE StorageInv'
  <2>1. UNCHANGED objects /\ Continue(s, NoJob)
    BY <1>7 DEF Record, Done
  <2>2. JobKey(s) \in DOMAIN objects
    BY <1>7 DEF Record, At, StorageInv, PutBeforeRecord
  <2>3. \A r \in reports' : r \in reports \/ Key(r.project, r.second) = JobKey(s)
    BY <1>7 DEF Record, JobKey
  <2>4. RowsHaveObjects'
    BY <2>1, <2>2, <2>3 DEF StorageInv, RowsHaveObjects
  <2>5. \A t \in Slot : job'[t].pc = "record" => job'[t] = job[t]
    BY <2>1, NoJobType DEF Continue, TypeInv, JobsOK
  <2>6. PutBeforeRecord'
    BY <2>1, <2>5 DEF StorageInv, PutBeforeRecord, JobKey
  <2>. QED  BY <2>4, <2>6 DEF StorageInv
<1>8. CASE World
  BY <1>1, <1>8 DEF World, Tick, Reassign
<1>9. CASE UNCHANGED vars
  BY <1>1, <1>9 DEF vars
<1>. QED  BY <1>3, <1>4, <1>5, <1>6, <1>7, <1>8, <1>9 DEF Next, Step

\* Every report row has its PDF in the storage, for any number of users, tabs and
\* projects, whatever requests overlap and wherever one fails.
THEOREM RowsHaveObjectsHolds == Spec => []RowsHaveObjects
<1>1. Init => StorageInv
  BY NoJobType DEF Init, StorageInv, RowsHaveObjects, PutBeforeRecord
<1>2. StorageInv => RowsHaveObjects
  BY DEF StorageInv
<1>. QED  BY <1>1, <1>2, StorageStep, TypeInvariant, PTL DEF Spec

-----------------------------------------------------------------------------
\* A user saves from one tab at a time.
OneSaver ==
  \A s, t \in Slot :
    "save" \in KindsOf[s] /\ "save" \in KindsOf[t] /\ UserOf[s] = UserOf[t] => s = t

\* A save in flight holds a coherent row of a project of its user, and knows every
\* column in which the row differs from the stored one.
SaveKnows(s, j) ==
  /\ "save" \in KindsOf[s]
  /\ Coherent(j.row)
  /\ j.p \in DOMAIN projects => projects[j.p].owner = UserOf[s]
  /\ ~j.insert /\ j.p \in DOMAIN assessments =>
       j.changed = ChangedIn(assessments[j.p], j.row)

SavesKnow == \A s \in Slot : job[s].pc = "save" => SaveKnows(s, job[s])

CoherenceInv == RowCoherent /\ SavesKnow

LEMMA SavedCoherent ==
  ASSUME NEW seen, NEW body, NEW allowed PROVE Coherent(Saved(seen, body, allowed))
BY DEF Coherent, Saved, RowOf

LEMMA WrittenIsRow ==
  ASSUME NEW old \in AssessmentRow, NEW j, j.row \in AssessmentRow,
         j.changed = ChangedIn(old, j.row)
  PROVE  Written(old, j) = j.row
<1>1. /\ ("input" \notin j.changed => old.input = j.row.input)
      /\ ("result" \notin j.changed => old.result = j.row.result)
      /\ ("total" \notin j.changed => old.total = j.row.total)
      /\ ("status" \notin j.changed => old.status = j.row.status)
  BY DEF ChangedIn
<1>2. j.row = [input |-> j.row.input, result |-> j.row.result,
               total |-> j.row.total, status |-> j.row.status]
  BY DEF AssessmentRow
<1>. QED  BY <1>1, <1>2 DEF Written

\* What every step but a save leaves alone: no project changes hands, and the
\* assessments there are stay as they are.
OwnersStay ==
  \A p \in 0..lastId : p \in DOMAIN projects' =>
    p \in DOMAIN projects /\ projects'[p].owner = projects[p].owner
AssessmentsStay ==
  \A p \in DOMAIN assessments' :
    p \in DOMAIN assessments /\ assessments'[p] = assessments[p]

LEMMA SaveStillKnows ==
  ASSUME TypeInv, NEW s \in Slot, NEW j, j.p \in 0..lastId, SaveKnows(s, j),
         OwnersStay, AssessmentsStay
  PROVE  SaveKnows(s, j)'
BY DEF SaveKnows, OwnersStay, AssessmentsStay

\* Saves that stay as they are still know what they knew.
LEMMA CoherenceQuiet ==
  ASSUME TypeInv, CoherenceInv, OwnersStay, AssessmentsStay,
         \A t \in Slot : job'[t].pc = "save" => job'[t] = job[t]
  PROVE  CoherenceInv'
<1>1. RowCoherent'
  BY DEF CoherenceInv, RowCoherent, AssessmentsStay
<1>2. ASSUME NEW t \in Slot, job'[t].pc = "save" PROVE SaveKnows(t, job[t])'
  <2>1. job'[t] = job[t] /\ job[t].p \in 0..lastId /\ SaveKnows(t, job[t])
    BY <1>2 DEF CoherenceInv, SavesKnow, TypeInv, JobsOK
  <2>. QED  BY <2>1, SaveStillKnows
<1>. QED  BY <1>1, <1>2 DEF CoherenceInv, SavesKnow

LEMMA CoherenceRequest ==
  ASSUME TypeInv, CoherenceInv, NEW s \in Slot, Request(s) PROVE CoherenceInv'
<1>1. PICK j : RequestJob(s, j)
  BY RequestMoves
<1>2. UNCHANGED <<projects, assessments>>
  BY RequestQuiet
<1>3. job'[s] = j /\ \A t \in Slot \ {s} : job'[t] = job[t]
  BY <1>1, ContinueJobs DEF RequestJob, TypeInv, JobsOK
<1>4. RowCoherent'
  BY <1>2 DEF CoherenceInv, RowCoherent
<1>5. ASSUME j.pc = "save" PROVE SaveKnows(s, j)
  <2>1. Coherent(j.row)
    BY <1>1, <1>5, SavedCoherent DEF RequestJob
  <2>. QED  BY <1>1, <1>5, <2>1 DEF RequestJob, SaveKnows, Owned, Found
<1>6. SavesKnow'
  BY <1>2, <1>3, <1>5 DEF CoherenceInv, SavesKnow, SaveKnows
<1>. QED  BY <1>4, <1>6 DEF CoherenceInv

LEMMA CoherenceSave ==
  ASSUME OneSaver, TypeInv, CoherenceInv, NEW s \in Slot, Save(s) PROVE CoherenceInv'
<1>. DEFINE p == job[s].p
<1>1. job[s] \in Job /\ job[s].row \in AssessmentRow /\ job[s].pc = "save"
      /\ SaveKnows(s, job[s])
  BY DEF TypeInv, JobsOK, Job, Save, At, CoherenceInv, SavesKnow
<1>2. UNCHANGED projects /\ Done(s) /\ UNCHANGED lastId
  BY DEF Save
<1>3. job'[s] = NoJob /\ \A t \in Slot \ {s} : job'[t] = job[t]
  BY <1>2, DoneJobs DEF TypeInv
<1>4. \/ UNCHANGED assessments
      \/ p \in DOMAIN projects /\ assessments' = With(assessments, p, job[s].row)
  <2>1. ~job[s].insert /\ p \in DOMAIN assessments =>
          Written(assessments[p], job[s]) = job[s].row /\ p \in DOMAIN projects
    BY <1>1, WrittenIsRow DEF TypeInv, TypeOK, SaveKnows
  <2>. QED  BY <2>1 DEF Save
<1>. HIDE DEF p
<1>5. CASE UNCHANGED assessments
  <2>1. OwnersStay /\ AssessmentsStay
    BY <1>2, <1>5 DEF OwnersStay, AssessmentsStay
  <2>. QED  BY <1>3, <2>1, NoJobType, CoherenceQuiet
<1>6. CASE p \in DOMAIN projects /\ assessments' = With(assessments, p, job[s].row)
  <2>1. DOMAIN assessments' = DOMAIN assessments \cup {p}
        /\ \A q \in DOMAIN assessments' :
             \/ q = p /\ assessments'[q] = job[s].row
             \/ q # p /\ q \in DOMAIN assessments /\ assessments'[q] = assessments[q]
    BY <1>6 DEF With
  <2>2. RowCoherent'
    BY <1>1, <2>1 DEF CoherenceInv, RowCoherent, SaveKnows
  <2>3. ASSUME NEW t \in Slot, job'[t].pc = "save" PROVE SaveKnows(t, job[t])'
    <3>1. t # s /\ job'[t] = job[t]
      BY <1>3, <2>3, NoJobType
    <3>2. SaveKnows(t, job[t])
      BY <2>3, <3>1 DEF CoherenceInv, SavesKnow
    <3>3. job[t].p # p
      BY <1>1, <1>6, <3>1, <3>2 DEF SaveKnows, OneSaver, p
    <3>. QED  BY <1>2, <2>1, <3>1, <3>2, <3>3 DEF SaveKnows
  <2>. QED  BY <2>2, <2>3 DEF CoherenceInv, SavesKnow
<1>. QED  BY <1>4, <1>5, <1>6

LEMMA CoherenceStep ==
  ASSUME OneSaver, TypeInv, CoherenceInv, [Next]_vars PROVE CoherenceInv'
<1>0. lastId \in Nat /\ DOMAIN projects \subseteq 1..lastId
      /\ DOMAIN assessments \subseteq DOMAIN projects
  BY DEF TypeInv, TypeOK
<1>1. ASSUME NEW s \in Slot, Request(s) PROVE CoherenceInv'
  BY <1>1, CoherenceRequest
<1>2. ASSUME NEW s \in Slot, Save(s) PROVE CoherenceInv'
  BY <1>2, CoherenceSave
<1>3. ASSUME NEW s \in Slot, NEW j, Continue(s, j), j.pc # "save",
             OwnersStay, AssessmentsStay
      PROVE  CoherenceInv'
  <2>1. \A t \in Slot : job'[t].pc = "save" => job'[t] = job[t]
    BY <1>3 DEF Continue, TypeInv, JobsOK
  <2>. QED  BY <1>3, <2>1, CoherenceQuiet
<1>4. ASSUME NEW s \in Slot, Admit(s) \/ Subscribe(s) \/ Refetch(s) \/ Fetch(s)
      PROVE  CoherenceInv'
  <2>1. PICK j : CheckJob(s, j)
    BY <1>4, CheckMoves
  <2>2. UNCHANGED <<projects, assessments>>
    BY <1>4 DEF Admit, Subscribe, Refetch, Fetch
  <2>. QED  BY <1>3, <2>1, <2>2 DEF CheckJob, OwnersStay, AssessmentsStay
<1>5. ASSUME NEW s \in Slot, Insert(s) PROVE CoherenceInv'
  <2>1. projects' = With(projects, lastId + 1, NewProject(s)) /\ UNCHANGED assessments
        /\ Continue(s, NoJob)
    BY <1>5 DEF Insert, Done
  <2>2. OwnersStay
    BY <1>0, <2>1 DEF OwnersStay, With
  <2>. QED  BY <1>3, <2>1, <2>2, NoJobType DEF AssessmentsStay
<1>6. ASSUME NEW s \in Slot, Refresh(s) \/ Update(s) PROVE CoherenceInv'
  <2>1. UNCHANGED assessments /\ Continue(s, NoJob)
    BY <1>6 DEF Refresh, Update, Done
  <2>2. PICK row : /\ row.owner = projects[job[s].p].owner
                   /\ \/ UNCHANGED projects
                      \/ job[s].p \in DOMAIN projects /\ projects' = With(projects, job[s].p, row)
    <3>1. job[s].p \in DOMAIN projects => projects[job[s].p] \in ProjectRow
      BY DEF TypeInv, TypeOK
    <3>2. CASE job[s].p \in DOMAIN projects
      <4>1. /\ Refreshed(projects[job[s].p], job[s].allowed).owner = projects[job[s].p].owner
            /\ Updated(projects[job[s].p], job[s]).owner = projects[job[s].p].owner
        BY <3>1, <3>2 DEF Refreshed, Updated, ProjectRow
      <4>. QED  BY <1>6, <3>2, <4>1 DEF Refresh, Update
    <3>3. CASE job[s].p \notin DOMAIN projects
      BY <1>6, <3>3 DEF Refresh, Update
    <3>. QED  BY <3>2, <3>3
  <2>3. OwnersStay
    BY <2>2 DEF OwnersStay, With
  <2>. QED  BY <1>3, <2>1, <2>3, NoJobType DEF AssessmentsStay
<1>7. ASSUME NEW s \in Slot, Delete(s) PROVE CoherenceInv'
  <2>1. projects' = Without(projects, job[s].p) /\ Continue(s, NoJob)
        /\ assessments' = Without(assessments, job[s].p)
    BY <1>7 DEF Delete, Done
  <2>2. DOMAIN projects' = DOMAIN projects \ {job[s].p}
        /\ \A q \in DOMAIN projects' : projects'[q] = projects[q]
    BY <2>1, WithoutProps
  <2>3. DOMAIN assessments' = DOMAIN assessments \ {job[s].p}
        /\ \A q \in DOMAIN assessments' : assessments'[q] = assessments[q]
    BY <2>1, WithoutProps
  <2>. QED  BY <1>3, <2>1, <2>2, <2>3, NoJobType DEF OwnersStay, AssessmentsStay
<1>8. ASSUME NEW s \in Slot, Put(s) \/ Record(s) \/ Fail(s) PROVE CoherenceInv'
  <2>1. UNCHANGED <<projects, assessments>>
    BY <1>8 DEF Put, Record, Fail
  <2>2. \E j : Continue(s, j) /\ j.pc # "save"
    <3>1. [job[s] EXCEPT !.pc = "record"].pc = "record"
      BY DEF TypeInv, JobsOK, Job
    <3>. QED  BY <1>8, <3>1, NoJobType DEF Put, Record, Fail, Done
  <2>. QED  BY <1>3, <2>1, <2>2 DEF OwnersStay, AssessmentsStay
<1>9. CASE World \/ UNCHANGED vars
  <2>1. UNCHANGED <<projects, assessments, job>>
    BY <1>9 DEF World, Tick, Reassign, vars
  <2>. QED  BY <2>1, CoherenceQuiet DEF OwnersStay, AssessmentsStay
<1>. QED  BY <1>1, <1>2, <1>4, <1>5, <1>6, <1>7, <1>8, <1>9 DEF Next, Step

\* As long as each user saves from one tab at a time, the denormalised total and
\* status of every assessment are those of its scores, whatever other requests
\* update, re-import, print or delete the project and whatever fails.
THEOREM RowCoherentHolds == ASSUME OneSaver PROVE Spec => []RowCoherent
<1>1. Init => CoherenceInv
  BY NoJobType DEF Init, Empty, CoherenceInv, RowCoherent, SavesKnow
<1>2. CoherenceInv => RowCoherent
  BY DEF CoherenceInv
<1>3. TypeInv /\ CoherenceInv /\ [Next]_vars => CoherenceInv'
  BY CoherenceStep
<1>. QED  BY <1>1, <1>2, <1>3, TypeInvariant, PTL DEF Spec

-----------------------------------------------------------------------------
\* The register gives every record at least one section.
NoEmptyList == \A x \in External : {} \notin Lists[x]

BlankOutside(x, row) ==
  \A t \in Tool \ AssignedTools(x) : row.input[t] = Blank /\ row.result[t] = 0

\* What a request in flight may do to an imported project: give it a list of the
\* register, insert it with one, or save a row that is blank outside its tools.
AssignedJob(j) ==
  /\ j.pc \in {"refetch", "refresh"} =>
       j.ext \in External /\ (j.p \in DOMAIN projects => projects[j.p].ext = j.ext)
  /\ j.pc = "refresh" => j.allowed \in Lists[j.ext]
  /\ j.pc = "insert" /\ j.ext \in External => j.allowed \in Lists[j.ext]
  /\ j.pc \in {"admit", "subscribe"} /\ j.kind # "import" => j.ext = Manual
  /\ j.pc = "save" /\ j.p \in DOMAIN projects /\ projects[j.p].ext \in External =>
       BlankOutside(projects[j.p].ext, j.row)

ListsKept ==
  \A p \in DOMAIN projects :
    projects[p].ext \in External => projects[p].allowed \in Lists[projects[p].ext]

AssignedInv ==
  /\ NeverAssignedStaysBlank
  /\ ListsKept
  /\ \A s \in Slot : AssignedJob(job[s])

LEMMA NotAllowed ==
  ASSUME NoEmptyList, NEW x \in External, NEW allowed \in Lists[x],
         NEW t \in Tool \ AssignedTools(x)
  PROVE  t \notin ResolveAllowedTools(allowed)
<1>1. allowed # Unrestricted
  BY DEF NoEmptyList, Unrestricted
<1>2. ResolveAllowedTools(allowed) \subseteq AssignedTools(x)
  BY <1>1 DEF ResolveAllowedTools, AssignedTools
<1>. QED  BY <1>2

LEMMA SavedBlank ==
  ASSUME NoEmptyList, NEW x \in External, NEW allowed \in Lists[x],
         NEW seen, BlankOutside(x, seen), NEW body
  PROVE  BlankOutside(x, Saved(seen, body, allowed))
BY NotAllowed DEF BlankOutside, Saved, RowOf, MergeByAllowedTools

LEMMA WrittenBlank ==
  ASSUME NEW x, NEW old, NEW j, BlankOutside(x, old), BlankOutside(x, j.row)
  PROVE  BlankOutside(x, Written(old, j))
BY DEF BlankOutside, Written

LEMMA NeverAssignedRows ==
  /\ NeverAssignedStaysBlank <=>
       \A p \in DOMAIN assessments :
         projects[p].ext \in External => BlankOutside(projects[p].ext, assessments[p])
  /\ (NeverAssignedStaysBlank <=>
        \A p \in DOMAIN assessments :
          projects[p].ext \in External => BlankOutside(projects[p].ext, assessments[p]))'
<1>1. NeverAssignedStaysBlank <=>
        \A p \in DOMAIN assessments :
          projects[p].ext \in External => BlankOutside(projects[p].ext, assessments[p])
  BY DEF NeverAssignedStaysBlank, BlankOutside
<1>. QED  BY <1>1, PTL

\* No project of before the step becomes the import of another record.
RecordsStay ==
  \A p \in 0..lastId : p \in DOMAIN projects' =>
    p \in DOMAIN projects /\ projects'[p].ext = projects[p].ext

\* A step of slot s that leaves records and assessments alone.
LEMMA AssignedQuiet ==
  ASSUME TypeInv, TypeInv', AssignedInv, NEW s \in Slot, NEW j, Continue(s, j),
         j.p \in 0..lastId, AssignedJob(j),
         RecordsStay, AssessmentsStay, ListsKept'
  PROVE  AssignedInv'
<1>1. job'[s] = j /\ \A t \in Slot \ {s} : job'[t] = job[t]
  BY DEF Continue, TypeInv, JobsOK
<1>2. ASSUME NEW t \in Slot PROVE AssignedJob(job[t])'
  <2>1. job'[t].p \in 0..lastId /\ AssignedJob(job'[t])
    BY <1>1 DEF AssignedInv, TypeInv, JobsOK
  <2>. QED  BY <2>1 DEF AssignedJob, RecordsStay
<1>3. NeverAssignedStaysBlank'
  <2>1. \A p \in DOMAIN assessments' :
          /\ p \in DOMAIN assessments /\ assessments'[p] = assessments[p]
          /\ projects'[p].ext = projects[p].ext
    BY DEF AssessmentsStay, RecordsStay, TypeInv, TypeOK
  <2>. QED  BY <2>1, NeverAssignedRows DEF AssignedInv
<1>. QED  BY <1>2, <1>3 DEF AssignedInv

LEMMA AssignedRequest ==
  ASSUME NoEmptyList, TypeInv, TypeInv', AssignedInv, NEW s \in Slot, Request(s)
  PROVE  AssignedInv'
<1>1. PICK j : RequestJob(s, j)
  BY RequestMoves
<1>2. UNCHANGED <<projects, lastId, assessments>>
  BY RequestQuiet
<1>3. RecordsStay /\ AssessmentsStay /\ ListsKept'
  BY <1>2 DEF RecordsStay, AssessmentsStay, ListsKept, AssignedInv, TypeInv, TypeOK
<1>4. ASSUME j.pc = "save", projects[j.p].ext \in External
      PROVE  BlankOutside(projects[j.p].ext, j.row)
  <2>. DEFINE x == projects[j.p].ext
  <2>1. PICK body \in Body : j.row = Saved(Found(j.p), body, projects[j.p].allowed)
    BY <1>1, <1>4 DEF RequestJob
  <2>2. j.p \in DOMAIN projects /\ projects[j.p].allowed \in Lists[x]
    BY <1>1, <1>4 DEF RequestJob, Owned, AssignedInv, ListsKept
  <2>3. BlankOutside(x, NoAssessment)
    BY DEF BlankOutside, NoAssessment
  <2>4. BlankOutside(x, Found(j.p))
    BY <1>4, <2>3, NeverAssignedRows DEF Found, AssignedInv
  <2>. QED  BY <1>4, <2>1, <2>2, <2>4, SavedBlank
<1>5. AssignedJob(j)
  BY <1>1, <1>4 DEF RequestJob, AssignedJob, Fetching
<1>. QED  BY <1>1, <1>3, <1>5, AssignedQuiet DEF RequestJob

LEMMA AssignedCheck ==
  ASSUME TypeInv, TypeInv', AssignedInv, NEW s \in Slot,
         Admit(s) \/ Subscribe(s) \/ Refetch(s) \/ Fetch(s)
  PROVE  AssignedInv'
<1>1. PICK j : CheckJob(s, j)
  BY CheckMoves
<1>2. UNCHANGED <<projects, lastId, assessments>>
  BY DEF Admit, Subscribe, Refetch, Fetch
<1>3. RecordsStay /\ AssessmentsStay /\ ListsKept'
  BY <1>2 DEF RecordsStay, AssessmentsStay, ListsKept, AssignedInv, TypeInv, TypeOK
<1>4. \A x \in External : register[x] \in Lists[x]
  BY DEF TypeInv, TypeOK
<1>5. AssignedJob(job[s]) /\ (Fetching(job[s]) => job[s].ext \in External)
      /\ job[s].p \in 0..lastId
  BY DEF AssignedInv, TypeInv, JobsOK
<1>6. j.p \in 0..lastId
  BY <1>1, <1>5 DEF CheckJob, TypeInv, JobsOK
<1>7. AssignedJob(j)
  BY <1>1, <1>4, <1>5 DEF CheckJob, AssignedJob, Fetching
<1>. QED  BY <1>1, <1>3, <1>6, <1>7, AssignedQuiet DEF CheckJob

LEMMA AssignedSave ==
  ASSUME TypeInv, TypeInv', AssignedInv, NEW s \in Slot, Save(s) PROVE AssignedInv'
<1>. DEFINE p == job[s].p
<1>1. AssignedJob(job[s]) /\ job[s].pc = "save" /\ p \in 0..lastId
  BY DEF AssignedInv, Save, At, TypeInv, JobsOK
<1>2. UNCHANGED <<projects, lastId>> /\ Done(s)
  BY DEF Save
<1>3. job'[s] = NoJob /\ \A t \in Slot \ {s} : job'[t] = job[t]
  BY <1>2, DoneJobs DEF TypeInv
<1>4. \A t \in Slot : AssignedJob(job[t])'
  BY <1>2, <1>3, NoJobType DEF AssignedInv, AssignedJob
<1>5. ListsKept'
  BY <1>2 DEF AssignedInv, ListsKept
<1>6. PICK row :
        /\ \/ UNCHANGED assessments
           \/ p \in DOMAIN projects /\ assessments' = With(assessments, p, row)
        /\ p \in DOMAIN projects /\ projects[p].ext \in External =>
             BlankOutside(projects[p].ext, row)
  <2>1. p \in DOMAIN projects /\ projects[p].ext \in External =>
          /\ BlankOutside(projects[p].ext, job[s].row)
          /\ p \in DOMAIN assessments => BlankOutside(projects[p].ext, assessments[p])
    BY <1>1, NeverAssignedRows DEF AssignedJob, AssignedInv
  <2>2. p \in DOMAIN assessments => p \in DOMAIN projects
    BY DEF TypeInv, TypeOK
  <2>. QED  BY <2>1, <2>2, WrittenBlank DEF Save
<1>. HIDE DEF p
<1>7. NeverAssignedStaysBlank'
  <2>1. \A q \in DOMAIN assessments' :
          \/ q \in DOMAIN assessments /\ assessments'[q] = assessments[q]
          \/ q = p /\ p \in DOMAIN projects /\ assessments'[q] = row
    BY <1>6 DEF With
  <2>2. \A q \in DOMAIN assessments' :
          projects[q].ext \in External => BlankOutside(projects[q].ext, assessments'[q])
    BY <1>6, <2>1, NeverAssignedRows DEF AssignedInv
  <2>. QED  BY <1>2, <2>2, NeverAssignedRows
<1>. QED  BY <1>4, <1>5, <1>7 DEF AssignedInv

LEMMA AssignedStep ==
  ASSUME NoEmptyList, TypeInv, TypeInv', AssignedInv, [Next]_vars PROVE AssignedInv'
<1>0. lastId \in Nat /\ DOMAIN projects \subseteq 1..lastId
      /\ DOMAIN assessments \subseteq DOMAIN projects
  BY DEF TypeInv, TypeOK
<1>1. ASSUME NEW s \in Slot, Request(s) PROVE AssignedInv'
  BY <1>1, AssignedRequest
<1>2. ASSUME NEW s \in Slot, Admit(s) \/ Subscribe(s) \/ Refetch(s) \/ Fetch(s)
      PROVE  AssignedInv'
  BY <1>2, AssignedCheck
<1>3. ASSUME NEW s \in Slot, Save(s) PROVE AssignedInv'
  BY <1>3, AssignedSave
<1>4. ASSUME NEW s \in Slot, Continue(s, NoJob),
             RecordsStay, AssessmentsStay, ListsKept'
      PROVE  AssignedInv'
  <2>1. AssignedJob(NoJob) /\ NoJob.p \in 0..lastId
    BY <1>0, NoJobType DEF AssignedJob
  <2>. QED  BY <1>4, <2>1, AssignedQuiet
<1>5. ASSUME NEW s \in Slot, Insert(s) PROVE AssignedInv'
  <2>1. projects' = With(projects, lastId + 1, NewProject(s)) /\ UNCHANGED assessments
        /\ Continue(s, NoJob)
    BY <1>5 DEF Insert, Done
  <2>2. NewProject(s).ext \in External => NewProject(s).allowed \in Lists[NewProject(s).ext]
    BY <1>5 DEF NewProject, Insert, At, AssignedInv, AssignedJob
  <2>3. \A p \in DOMAIN projects' :
          \/ projects'[p] = NewProject(s) /\ p = lastId + 1
          \/ p \in DOMAIN projects /\ projects'[p] = projects[p]
    BY <2>1 DEF With
  <2>4. RecordsStay
    BY <1>0, <2>3 DEF RecordsStay
  <2>5. ListsKept'
    BY <2>2, <2>3 DEF AssignedInv, ListsKept
  <2>. QED  BY <1>4, <2>1, <2>4, <2>5 DEF AssessmentsStay
<1>6. ASSUME NEW s \in Slot, Refresh(s) \/ Update(s) PROVE AssignedInv'
  <2>1. UNCHANGED assessments /\ Continue(s, NoJob)
    BY <1>6 DEF Refresh, Update, Done
  <2>2. CASE UNCHANGED projects
    BY <1>4, <2>1, <2>2 DEF RecordsStay, AssessmentsStay, ListsKept, AssignedInv
  <2>3. CASE projects' # projects
    <3>. DEFINE p == job[s].p
    <3>1. p \in DOMAIN projects /\ projects[p] \in ProjectRow
      BY <1>6, <2>3 DEF Refresh, Update, TypeInv, TypeOK
    <3>2. PICK row :
            /\ projects' = With(projects, p, row) /\ row.ext = projects[p].ext
            /\ \/ row.allowed = projects[p].allowed
               \/ row.allowed = job[s].allowed /\ job[s].pc = "refresh"
      <4>1. /\ Refreshed(projects[p], job[s].allowed).ext = projects[p].ext
            /\ Refreshed(projects[p], job[s].allowed).allowed = job[s].allowed
            /\ Updated(projects[p], job[s]).ext = projects[p].ext
            /\ Updated(projects[p], job[s]).allowed = projects[p].allowed
        BY <3>1 DEF Refreshed, Updated, ProjectRow
      <4>. QED  BY <1>6, <3>1, <4>1 DEF Refresh, Update, At
    <3>3. row.ext \in External => row.allowed \in Lists[row.ext]
      BY <3>1, <3>2 DEF AssignedInv, ListsKept, AssignedJob
    <3>. HIDE DEF p
    <3>4. DOMAIN projects' = DOMAIN projects
          /\ \A q \in DOMAIN projects :
               \/ projects'[q] = row /\ q = p
               \/ projects'[q] = projects[q]
      BY <3>1, <3>2 DEF With
    <3>5. RecordsStay /\ ListsKept'
      BY <3>2, <3>3, <3>4 DEF RecordsStay, AssignedInv, ListsKept
    <3>. QED  BY <1>4, <2>1, <3>5 DEF AssessmentsStay
  <2>. QED  BY <2>2, <2>3
<1>7. ASSUME NEW s \in Slot, Delete(s) PROVE AssignedInv'
  <2>1. projects' = Without(projects, job[s].p) /\ Continue(s, NoJob)
        /\ assessments' = Without(assessments, job[s].p)
    BY <1>7 DEF Delete, Done
  <2>2. DOMAIN projects' = DOMAIN projects \ {job[s].p}
        /\ \A q \in DOMAIN projects' : projects'[q] = projects[q]
    BY <2>1, WithoutProps
  <2>3. DOMAIN assessments' = DOMAIN assessments \ {job[s].p}
        /\ \A q \in DOMAIN assessments' : assessments'[q] = assessments[q]
    BY <2>1, WithoutProps
  <2>4. RecordsStay /\ AssessmentsStay /\ ListsKept'
    BY <2>2, <2>3 DEF RecordsStay, AssessmentsStay, ListsKept, AssignedInv
  <2>. QED  BY <1>4, <2>1, <2>4
<1>8. ASSUME UNCHANGED <<projects, assessments>>
      PROVE  RecordsStay /\ AssessmentsStay /\ ListsKept'
  BY <1>8 DEF RecordsStay, AssessmentsStay, ListsKept, AssignedInv
<1>9. ASSUME NEW s \in Slot, Record(s) \/ Fail(s) PROVE AssignedInv'
  <2>1. UNCHANGED <<projects, assessments>> /\ Continue(s, NoJob)
    BY <1>9 DEF Record, Fail, Done
  <2>. QED  BY <1>4, <1>8, <2>1
<1>10. ASSUME NEW s \in Slot, Put(s) PROVE AssignedInv'
  <2>. DEFINE j == [job[s] EXCEPT !.pc = "record"]
  <2>1. UNCHANGED <<projects, assessments>> /\ Continue(s, j)
    BY <1>10 DEF Put
  <2>2. j.pc = "record" /\ j.p \in 0..lastId
    BY DEF TypeInv, JobsOK, Job
  <2>. HIDE DEF j
  <2>3. AssignedJob(j)
    BY <2>2 DEF AssignedJob
  <2>. QED  BY <1>8, <2>1, <2>2, <2>3, AssignedQuiet
<1>11. CASE World \/ UNCHANGED vars
  <2>1. UNCHANGED <<projects, assessments, job>>
    BY <1>11 DEF World, Tick, Reassign, vars
  <2>. QED  BY <2>1 DEF AssignedInv, ListsKept, AssignedJob, NeverAssignedStaysBlank
<1>. QED  BY <1>1, <1>2, <1>3, <1>5, <1>6, <1>7, <1>9, <1>10, <1>11 DEF Next, Step

\* As long as the register gives every record some section, a tool that no list of
\* a record ever named stays blank in every project imported from it, whatever is
\* reassigned, re-imported and saved at once.
THEOREM NeverAssignedHolds == ASSUME NoEmptyList PROVE Spec => []NeverAssignedStaysBlank
<1>1. Init => AssignedInv
  BY NoJobType DEF Init, Empty, AssignedInv, AssignedJob, ListsKept, NeverAssignedStaysBlank
<1>2. AssignedInv => NeverAssignedStaysBlank
  BY DEF AssignedInv
<1>3. TypeInv /\ TypeInv' /\ AssignedInv /\ [Next]_vars => AssignedInv'
  BY AssignedStep
<1>. QED  BY <1>1, <1>2, <1>3, TypeInvariant, PTL DEF Spec

-----------------------------------------------------------------------------
\* A user imports from one tab at a time.
OneImporter ==
  \A s, t \in Slot :
    "import" \in KindsOf[s] /\ "import" \in KindsOf[t] /\ UserOf[s] = UserOf[t] => s = t

\* An import on its way to its insert found no project of the record, and nobody
\* else imports for its user.
Missing(s, j) ==
  j.pc \in {"admit", "subscribe", "fetch", "insert"} /\ j.ext \in External =>
    "import" \in KindsOf[s] /\ Imported(UserOf[s], j.ext) = {}

ImportInv == NoDuplicateImports /\ \A s \in Slot : Missing(s, job[s])

\* No project changes its owner or its record, and none appears.
ProjectsStay ==
  \A p \in DOMAIN projects' :
    /\ p \in DOMAIN projects
    /\ projects'[p].owner = projects[p].owner /\ projects'[p].ext = projects[p].ext

LEMMA ImportQuiet ==
  ASSUME TypeInv, ImportInv, ProjectsStay, NEW s \in Slot, NEW j, Continue(s, j), Missing(s, j)
  PROVE  ImportInv'
<1>1. NoDuplicateImports'
  BY DEF ImportInv, NoDuplicateImports, ProjectsStay
<1>2. \A u, x : Imported(u, x)' \subseteq Imported(u, x)
  BY DEF Imported, ProjectsStay
<1>3. \A t \in Slot : (job'[t] = j /\ t = s) \/ job'[t] = job[t]
  BY DEF Continue, TypeInv, JobsOK
<1>4. ASSUME NEW t \in Slot PROVE Missing(t, job[t])'
  BY <1>2, <1>3 DEF ImportInv, Missing
<1>. QED  BY <1>1, <1>4 DEF ImportInv

LEMMA ImportInsert ==
  ASSUME OneImporter, TypeInv, ImportInv, NEW s \in Slot, Insert(s) PROVE ImportInv'
<1>. DEFINE new == NewProject(s)
            n == lastId + 1
<1>1. /\ projects' = With(projects, n, new) /\ job[s].pc = "insert" /\ Done(s)
      /\ new.owner = UserOf[s] /\ new.ext = job[s].ext /\ n \notin DOMAIN projects
  BY DEF Insert, At, NewProject, TypeInv, TypeOK
<1>2. job'[s] = NoJob /\ \A t \in Slot \ {s} : job'[t] = job[t]
  BY <1>1, NoJobType DEF Done, Continue, TypeInv, JobsOK
<1>3. new.ext \in External => "import" \in KindsOf[s] /\ Imported(new.owner, new.ext) = {}
  BY <1>1 DEF ImportInv, Missing
<1>. HIDE DEF new, n
<1>4. DOMAIN projects' = DOMAIN projects \cup {n}
      /\ \A p \in DOMAIN projects' : \/ p = n /\ projects'[p] = new
                                     \/ p # n /\ p \in DOMAIN projects /\ projects'[p] = projects[p]
  BY <1>1 DEF With
<1>5. NoDuplicateImports'
  <2>1. \A p \in DOMAIN projects : projects[p].ext = new.ext /\ projects[p].owner = new.owner
                                     => new.ext \notin External
    BY <1>3 DEF Imported
  <2>. QED  BY <1>4, <2>1 DEF ImportInv, NoDuplicateImports
<1>6. ASSUME NEW t \in Slot, job'[t].pc \in {"admit", "subscribe", "fetch", "insert"},
             job'[t].ext \in External
      PROVE  "import" \in KindsOf[t] /\ Imported(UserOf[t], job[t].ext)' = {}
  <2>1. t # s /\ job'[t] = job[t]
    BY <1>2, <1>6, NoJobType
  <2>2. "import" \in KindsOf[t] /\ Imported(UserOf[t], job[t].ext) = {}
    BY <1>6, <2>1 DEF ImportInv, Missing
  <2>3. ~(new.owner = UserOf[t] /\ new.ext = job[t].ext)
    BY <1>1, <1>3, <1>6, <2>1, <2>2 DEF OneImporter
  <2>. QED  BY <1>4, <2>1, <2>2, <2>3 DEF Imported
<1>. QED  BY <1>5, <1>6 DEF ImportInv, Missing

LEMMA ImportStep ==
  ASSUME OneImporter, TypeInv, ImportInv, [Next]_vars PROVE ImportInv'
<1>1. ASSUME NEW s \in Slot, Request(s) PROVE ImportInv'
  <2>1. PICK j : RequestJob(s, j)
    BY <1>1, RequestMoves
  <2>2. ProjectsStay
    BY <1>1, RequestQuiet DEF ProjectsStay
  <2>3. Missing(s, j)
    <3>1. Manual \notin External
      OBVIOUS
    <3>. QED  BY <2>1, <3>1 DEF RequestJob, Missing
  <2>. QED  BY <2>1, <2>2, <2>3, ImportQuiet DEF RequestJob
<1>2. ASSUME NEW s \in Slot, Admit(s) \/ Subscribe(s) \/ Refetch(s) \/ Fetch(s) PROVE ImportInv'
  <2>1. PICK j : CheckJob(s, j)
    BY <1>2, CheckMoves
  <2>2. ProjectsStay
    BY <1>2 DEF Admit, Subscribe, Refetch, Fetch, ProjectsStay
  <2>3. Missing(s, j)
    BY <2>1 DEF CheckJob, ImportInv, Missing
  <2>. QED  BY <2>1, <2>2, <2>3, ImportQuiet DEF CheckJob
<1>3. ASSUME NEW s \in Slot, Done(s), ProjectsStay PROVE ImportInv'
  <2>1. Missing(s, NoJob)
    BY NoJobType DEF Missing
  <2>. QED  BY <1>3, <2>1, ImportQuiet DEF Done
<1>4. ASSUME NEW s \in Slot, Refresh(s) \/ Update(s) PROVE ImportInv'
  <2>1. Done(s)
    BY <1>4 DEF Refresh, Update
  <2>2. PICK row : /\ row.owner = projects[job[s].p].owner /\ row.ext = projects[job[s].p].ext
                   /\ \/ UNCHANGED projects
                      \/ job[s].p \in DOMAIN projects /\ projects' = With(projects, job[s].p, row)
    <3>1. job[s].p \in DOMAIN projects => projects[job[s].p] \in ProjectRow
      BY DEF TypeInv, TypeOK
    <3>2. CASE job[s].p \in DOMAIN projects
      <4>1. /\ Refreshed(projects[job[s].p], job[s].allowed).owner = projects[job[s].p].owner
            /\ Refreshed(projects[job[s].p], job[s].allowed).ext = projects[job[s].p].ext
            /\ Updated(projects[job[s].p], job[s]).owner = projects[job[s].p].owner
            /\ Updated(projects[job[s].p], job[s]).ext = projects[job[s].p].ext
        BY <3>1, <3>2 DEF Refreshed, Updated, ProjectRow
      <4>. QED  BY <1>4, <3>2, <4>1 DEF Refresh, Update
    <3>3. CASE job[s].p \notin DOMAIN projects
      BY <1>4, <3>3 DEF Refresh, Update
    <3>. QED  BY <3>2, <3>3
  <2>3. ProjectsStay
    BY <2>2 DEF ProjectsStay, With
  <2>. QED  BY <1>3, <2>1, <2>3
<1>5. ASSUME NEW s \in Slot, Delete(s) PROVE ImportInv'
  <2>1. projects' = Without(projects, job[s].p) /\ Done(s)
    BY <1>5 DEF Delete
  <2>2. DOMAIN projects' = DOMAIN projects \ {job[s].p}
        /\ \A q \in DOMAIN projects' : projects'[q] = projects[q]
    BY <2>1, WithoutProps
  <2>3. ProjectsStay
    BY <2>2 DEF ProjectsStay
  <2>. QED  BY <1>3, <2>1, <2>3
<1>6. ASSUME NEW s \in Slot, Save(s) \/ Record(s) \/ Fail(s) PROVE ImportInv'
  <2>1. Done(s) /\ ProjectsStay
    BY <1>6 DEF Save, Record, Fail, ProjectsStay
  <2>. QED  BY <1>3, <2>1
<1>7. ASSUME NEW s \in Slot, Put(s) PROVE ImportInv'
  <2>. DEFINE j == [job[s] EXCEPT !.pc = "record"]
  <2>1. Continue(s, j) /\ ProjectsStay
    BY <1>7 DEF Put, ProjectsStay
  <2>2. j.pc = "record"
    BY DEF TypeInv, JobsOK, Job
  <2>. HIDE DEF j
  <2>. QED  BY <2>1, <2>2, ImportQuiet DEF Missing
<1>8. CASE World \/ UNCHANGED vars
  <2>1. UNCHANGED <<projects, job>>
    BY <1>8 DEF World, Tick, Reassign, vars
  <2>. QED  BY <2>1 DEF ImportInv, NoDuplicateImports, Missing, Imported
<1>. QED
  BY <1>1, <1>2, <1>4, <1>5, <1>6, <1>7, <1>8, ImportInsert DEF Next, Step

\* As long as each user imports from one tab at a time, importing a record again
\* never makes a second project of it, whatever else runs, is deleted or fails.
THEOREM NoDuplicateImportsHolds == ASSUME OneImporter PROVE Spec => []NoDuplicateImports
<1>1. Init => ImportInv
  BY NoJobType DEF Init, Empty, ImportInv, NoDuplicateImports, Missing
<1>2. ImportInv => NoDuplicateImports
  BY DEF ImportInv
<1>3. TypeInv /\ ImportInv /\ [Next]_vars => ImportInv'
  BY ImportStep
<1>. QED  BY <1>1, <1>2, <1>3, TypeInvariant, PTL DEF Spec

-----------------------------------------------------------------------------
(* With one request of each user in flight, the tables go through the steps of
   ProjectBook.  A request only works on projects of its user, so what it has read of
   them is what they are when it writes. *)
OneTabEach == \A s, t \in Slot : UserOf[s] = UserOf[t] => s = t

Arriving == {"admit", "subscribe", "fetch", "insert"}
Working == {"refetch", "refresh", "update", "delete", "save", "put", "record"}

\* A project on its way into the table.
Comes(s, j) ==
  \/ j.kind = "me" /\ j.pc \in {"admit", "subscribe"}
  \/ /\ j.kind = "create" /\ j.pc # "fetch" /\ j.ext = Manual
     /\ j.allowed = Unrestricted /\ j.climate = CityClimate[j.city]
  \/ /\ j.kind = "import" /\ j.ext \in External /\ Imported(UserOf[s], j.ext) = {}
     /\ j.city = ImportCity /\ j.climate = CityClimate[j.city]
     /\ j.pc = "insert" => j.allowed \in Lists[j.ext]
Updates(j) ==
  /\ j.climate = CityClimate[j.city]
  /\ "city" \notin j.changed => projects[j.p].city = j.city
  /\ "climate" \notin j.changed => projects[j.p].climate = j.climate
Saves(j) ==
  /\ \E body \in Body : j.row = Saved(Found(j.p), body, projects[j.p].allowed)
  /\ j.insert = (j.p \notin DOMAIN assessments)
  /\ j.changed = ChangedIn(Found(j.p), j.row)
Prints(j) ==
  /\ j.p \in DOMAIN assessments
  /\ j.row = assessments[j.p] /\ j.climate = projects[j.p].climate

Sees(s, j) ==
  /\ j.pc \in Working => Owned(s, j.p)
  /\ j.pc \in Arriving => Comes(s, j)
  /\ j.pc \in {"refetch", "refresh"} => j.ext \in External /\ projects[j.p].ext = j.ext
  /\ j.pc = "refresh" => j.allowed \in Lists[j.ext]
  /\ j.pc = "update" => Updates(j)
  /\ j.pc = "save" => Saves(j)
  /\ j.pc \in {"put", "record"} => Prints(j)
BookInv == TypeInv /\ \A s \in Slot : Sees(s, job[s])

\* The tables of a user stay as they are.
Untouched(u) ==
  /\ \A p \in DOMAIN projects : projects[p].owner = u =>
       /\ p \in DOMAIN projects' /\ projects'[p] = projects[p]
       /\ p \in DOMAIN assessments' <=> p \in DOMAIN assessments
       /\ p \in DOMAIN assessments => assessments'[p] = assessments[p]
  /\ \A p \in DOMAIN projects' : projects'[p].owner = u =>
       p \in DOMAIN projects /\ projects[p].owner = u

LEMMA SeesStill ==
  ASSUME NEW t \in Slot, NEW j, Sees(t, j), Untouched(UserOf[t])
  PROVE  Sees(t, j)'
<1>1. Owned(t, j.p) =>
        /\ Owned(t, j.p)' /\ projects'[j.p] = projects[j.p]
        /\ j.p \in DOMAIN assessments' <=> j.p \in DOMAIN assessments
        /\ j.p \in DOMAIN assessments => assessments'[j.p] = assessments[j.p]
        /\ Found(j.p)' = Found(j.p)
  BY DEF Untouched, Owned, Found
<1>2. Imported(UserOf[t], j.ext)' \subseteq Imported(UserOf[t], j.ext)
  BY DEF Untouched, Imported
<1>3. Comes(t, j) => Comes(t, j)'
  BY <1>2 DEF Comes
<1>4. Owned(t, j.p) /\ Updates(j) => Updates(j)'
  BY <1>1 DEF Updates
<1>5. Owned(t, j.p) /\ Saves(j) => Saves(j)'
  BY <1>1 DEF Saves, ChangedIn
<1>6. Owned(t, j.p) /\ Prints(j) => Prints(j)'
  BY <1>1 DEF Prints
<1>. QED  BY <1>1, <1>3, <1>4, <1>5, <1>6 DEF Sees, Working

\* A step of one request: it knows what it sees, and the others see what they saw.
LEMMA OneTurns ==
  ASSUME OneTabEach, BookInv, TypeInv', NEW s \in Slot, NEW j, Continue(s, j),
         \A u : u # UserOf[s] => Untouched(u), Sees(s, j)'
  PROVE  BookInv'
<1>1. ASSUME NEW t \in Slot PROVE Sees(t, job[t])'
  <2>1. CASE t = s
    <3>1. job'[s] = j
      BY DEF Continue, BookInv, TypeInv, JobsOK
    <3>. QED  BY <2>1, <3>1 DEF Sees, Owned, Comes, Updates, Saves, Prints, Imported, Found
  <2>2. CASE t # s
    <3>1. job'[t] = job[t]
      BY <2>2 DEF Continue, BookInv, TypeInv, JobsOK
    <3>2. PICK k : k = job[t]
      OBVIOUS
    <3>3. Sees(t, k) /\ Untouched(UserOf[t])
      BY <2>2, <3>2 DEF BookInv, OneTabEach
    <3>4. Sees(t, k)'
      BY <3>3, SeesStill
    <3>. QED  BY <3>1, <3>2, <3>4 DEF Sees, Owned, Comes, Updates, Saves, Prints, Imported, Found
  <2>. QED  BY <2>1, <2>2
<1>. QED  BY <1>1 DEF BookInv

LEMMA IdleSees == \A s \in Slot : Sees(s, NoJob) /\ Sees(s, NoJob)'
BY NoJobType DEF Sees, Working, Arriving

\* A new request sees what it asks for.
LEMMA RequestSees ==
  ASSUME TypeInv, NEW s \in Slot, Request(s)
  PROVE  \E j : Continue(s, j) /\ Sees(s, j)
<1>. USE DEF Working, Arriving
<1>1. CASE RequestMe(s)
  <2>. DEFINE j == [NoJob EXCEPT !.pc = "admit"]
  <2>1. j.pc = "admit" /\ j.kind = "me"
    BY DEF NoJob
  <2>2. Continue(s, j)
    BY <1>1 DEF RequestMe
  <2>. HIDE DEF j
  <2>3. Sees(s, j)
    BY <2>1 DEF Sees, Comes
  <2>. QED  BY <2>2, <2>3
<1>2. ASSUME NEW c \in City, RequestCreate(s, c) PROVE \E j : Continue(s, j) /\ Sees(s, j)
  <2>. DEFINE j == [NoJob EXCEPT !.pc = "admit", !.kind = "create", !.city = c,
                                 !.climate = CityClimate[c]]
  <2>1. /\ j.pc = "admit" /\ j.kind = "create" /\ j.city = c /\ j.climate = CityClimate[c]
        /\ j.ext = Manual /\ j.allowed = Unrestricted
    BY DEF NoJob
  <2>2. Continue(s, j)
    BY <1>2 DEF RequestCreate
  <2>. HIDE DEF j
  <2>3. Sees(s, j)
    BY <2>1 DEF Sees, Comes
  <2>. QED  BY <2>2, <2>3
<1>3. ASSUME NEW x \in External, RequestImport(s, x) PROVE \E j : Continue(s, j) /\ Sees(s, j)
  <2>1. ASSUME NEW p \in Imported(UserOf[s], x),
               Continue(s, [NoJob EXCEPT !.pc = "refetch", !.kind = "import", !.p = p,
                                         !.ext = x, !.allowed = projects[p].allowed])
        PROVE  \E j : Continue(s, j) /\ Sees(s, j)
    <3>. DEFINE j == [NoJob EXCEPT !.pc = "refetch", !.kind = "import", !.p = p,
                                   !.ext = x, !.allowed = projects[p].allowed]
    <3>1. p \in DOMAIN projects /\ projects[p].ext = x /\ projects[p].owner = UserOf[s]
      BY DEF Imported
    <3>2. j.p = p /\ j.ext = x /\ j.pc = "refetch"
      BY DEF NoJob
    <3>3. Continue(s, j)
      BY <2>1
    <3>. HIDE DEF j
    <3>4. Sees(s, j)
      BY <3>1, <3>2 DEF Sees, Owned
    <3>. QED  BY <3>3, <3>4
  <2>2. ASSUME Continue(s, [NoJob EXCEPT !.pc = "admit", !.kind = "import", !.ext = x]),
               Imported(UserOf[s], x) = {}
        PROVE  \E j : Continue(s, j) /\ Sees(s, j)
    <3>. DEFINE j == [NoJob EXCEPT !.pc = "admit", !.kind = "import", !.ext = x]
    <3>1. /\ j.ext = x /\ j.pc = "admit" /\ j.kind = "import"
          /\ j.city = ImportCity /\ j.climate = CityClimate[ImportCity]
      BY DEF NoJob
    <3>2. Continue(s, j)
      BY <2>2
    <3>. HIDE DEF j
    <3>3. Sees(s, j)
      BY <2>2, <3>1 DEF Sees, Comes
    <3>. QED  BY <3>2, <3>3
  <2>. QED  BY <1>3, <2>1, <2>2 DEF RequestImport
<1>4. ASSUME NEW p \in DOMAIN projects, RequestDelete(s, p) PROVE \E j : Continue(s, j) /\ Sees(s, j)
  <2>. DEFINE j == [NoJob EXCEPT !.pc = "delete", !.kind = "delete", !.p = p]
  <2>1. j.p = p /\ j.pc = "delete"
    BY DEF NoJob
  <2>2. Continue(s, j) /\ Owned(s, p)
    BY <1>4 DEF RequestDelete
  <2>. HIDE DEF j
  <2>3. Sees(s, j)
    BY <2>1, <2>2 DEF Sees
  <2>. QED  BY <2>2, <2>3
<1>5. ASSUME NEW p \in DOMAIN projects, RequestReport(s, p) PROVE \E j : Continue(s, j) /\ Sees(s, j)
  <2>. DEFINE j == [NoJob EXCEPT !.pc = "put", !.kind = "report", !.p = p,
                                 !.climate = projects[p].climate,
                                 !.row = assessments[p], !.second = second]
  <2>1. j.p = p /\ j.pc = "put" /\ j.climate = projects[p].climate /\ j.row = assessments[p]
    BY DEF NoJob
  <2>2. Continue(s, j) /\ Owned(s, p) /\ p \in DOMAIN assessments
    BY <1>5 DEF RequestReport
  <2>. HIDE DEF j
  <2>3. Sees(s, j)
    BY <2>1, <2>2 DEF Sees, Prints
  <2>. QED  BY <2>2, <2>3
<1>6. ASSUME NEW p \in DOMAIN projects, NEW c \in City, RequestUpdate(s, p, c)
      PROVE  \E j : Continue(s, j) /\ Sees(s, j)
  <2>. DEFINE ch == {k \in {"city", "climate"} :
                       \/ k = "city" /\ c # projects[p].city
                       \/ k = "climate" /\ CityClimate[c] # projects[p].climate}
              j == [NoJob EXCEPT !.pc = "update", !.kind = "update", !.p = p,
                                 !.city = c, !.climate = CityClimate[c], !.changed = ch]
  <2>1. Continue(s, j) /\ Owned(s, p)
    BY <1>6 DEF RequestUpdate
  <2>2. /\ "city" \notin ch => projects[p].city = c
        /\ "climate" \notin ch => projects[p].climate = CityClimate[c]
    OBVIOUS
  <2>. HIDE DEF ch
  <2>3. /\ j.p = p /\ j.pc = "update" /\ j.city = c /\ j.climate = CityClimate[c]
        /\ j.changed = ch
    BY DEF NoJob
  <2>. HIDE DEF j
  <2>4. Sees(s, j)
    BY <2>1, <2>2, <2>3 DEF Sees, Updates
  <2>. QED  BY <2>1, <2>4
<1>7. ASSUME NEW p \in DOMAIN projects, NEW body \in Body, RequestSave(s, p, body)
      PROVE  \E j : Continue(s, j) /\ Sees(s, j)
  <2>. DEFINE row == Saved(Found(p), body, projects[p].allowed)
              ins == p \notin DOMAIN assessments
              ch == ChangedIn(Found(p), row)
              j == [NoJob EXCEPT !.pc = "save", !.kind = "save", !.p = p, !.row = row,
                                 !.insert = ins, !.changed = ch]
  <2>1. Continue(s, j) /\ Owned(s, p)
    BY <1>7 DEF RequestSave
  <2>2. row = Saved(Found(p), body, projects[p].allowed)
        /\ ins = (p \notin DOMAIN assessments) /\ ch = ChangedIn(Found(p), row)
    OBVIOUS
  <2>. HIDE DEF row, ins, ch
  <2>3. j.p = p /\ j.pc = "save" /\ j.row = row /\ j.insert = ins /\ j.changed = ch
    BY DEF NoJob
  <2>. HIDE DEF j
  <2>4. Saves(j)
    BY <2>2, <2>3 DEF Saves
  <2>5. Sees(s, j)
    BY <2>1, <2>3, <2>4 DEF Sees
  <2>. QED  BY <2>1, <2>5
<1>. QED  BY <1>1, <1>2, <1>3, <1>4, <1>5, <1>6, <1>7 DEF Request

\* A check of the subscription or the register leaves a request with what it sees.
LEMMA CheckSees ==
  ASSUME BookInv, NEW s \in Slot, Admit(s) \/ Subscribe(s) \/ Refetch(s) \/ Fetch(s)
  PROVE  \E j : Continue(s, j) /\ Sees(s, j)
<1>. USE DEF Working, Arriving
<1>0. /\ Sees(s, job[s]) /\ job[s] \in Job
      /\ job[s].pc \in {"refetch", "fetch"} => register[job[s].ext] \in Lists[job[s].ext]
  BY DEF BookInv, TypeInv, TypeOK, JobsOK, Fetching
<1>1. CASE Done(s)
  BY <1>1, IdleSees DEF Done
<1>2. ASSUME NEW pc, job[s].pc \in {"admit", "subscribe"},
             Continue(s, [job[s] EXCEPT !.pc = pc]),
             \/ pc = "idle" \/ pc = "subscribe"
             \/ pc = "insert" /\ job[s].kind = "create"
             \/ pc = "fetch" /\ job[s].kind = "import"
      PROVE  \E j : Continue(s, j) /\ Sees(s, j)
  <2>. DEFINE j == [job[s] EXCEPT !.pc = pc]
  <2>1. /\ j.pc = pc /\ j.kind = job[s].kind /\ j.ext = job[s].ext
        /\ j.allowed = job[s].allowed /\ j.city = job[s].city /\ j.climate = job[s].climate
    BY <1>0 DEF Job
  <2>2. Continue(s, j)
    BY <1>2
  <2>. HIDE DEF j
  <2>3. Sees(s, j)
    BY <1>0, <1>2, <2>1 DEF Sees, Comes
  <2>. QED  BY <2>2, <2>3
<1>3. ASSUME job[s].pc \in {"admit", "subscribe"}, Continue(s, Admitted(job[s]))
      PROVE  \E j : Continue(s, j) /\ Sees(s, j)
  <2>1. PICK pc : /\ Admitted(job[s]) = [job[s] EXCEPT !.pc = pc]
                  /\ \/ pc = "idle"
                     \/ pc = "insert" /\ job[s].kind = "create"
                     \/ pc = "fetch" /\ job[s].kind = "import"
    BY <1>0 DEF Admitted, Job
  <2>. QED  BY <1>2, <1>3, <2>1
<1>4. ASSUME NEW pc \in {"refresh", "insert"},
             job[s].pc = IF pc = "refresh" THEN "refetch" ELSE "fetch",
             Continue(s, [job[s] EXCEPT !.pc = pc, !.allowed = register[job[s].ext]])
      PROVE  \E j : Continue(s, j) /\ Sees(s, j)
  <2>. DEFINE j == [job[s] EXCEPT !.pc = pc, !.allowed = register[job[s].ext]]
  <2>1. /\ j.pc = pc /\ j.kind = job[s].kind /\ j.ext = job[s].ext /\ j.p = job[s].p
        /\ j.allowed = register[job[s].ext] /\ j.city = job[s].city /\ j.climate = job[s].climate
    BY <1>0 DEF Job
  <2>2. Continue(s, j)
    BY <1>4
  <2>. HIDE DEF j
  <2>3. Sees(s, j)
    BY <1>0, <1>4, <2>1 DEF Sees, Comes
  <2>. QED  BY <2>2, <2>3
<1>. QED
  BY <1>1, <1>2, <1>3, <1>4 DEF Admit, Subscribe, Refetch, Fetch, At

-----------------------------------------------------------------------------
Mapped == {[project |-> r.project, doc |-> r.doc] : r \in reports}
Advances == Book!Next \/ UNCHANGED <<projects, lastId, assessments, Mapped>>
Turned(s) == BookInv' /\ Advances

LEMMA SeenQuietly ==
  ASSUME OneTabEach, BookInv, TypeInv', NEW s \in Slot, NEW j, Continue(s, j), Sees(s, j),
         UNCHANGED <<projects, lastId, assessments, reports>>
  PROVE  Turned(s)
<1>1. \A u : Untouched(u)
  BY DEF Untouched
<1>2. Sees(s, j)'
  BY <1>1, SeesStill
<1>. QED  BY <1>1, <1>2, OneTurns DEF Turned, Advances, Mapped

LEMMA SeenDone ==
  ASSUME OneTabEach, BookInv, TypeInv', NEW s \in Slot, Done(s),
         \A u : u # UserOf[s] => Untouched(u)
  PROVE  BookInv'
BY IdleSees, OneTurns DEF Done

\* What a write finds: the project, which is its user's.
Alone(s) == job[s].p \in DOMAIN projects /\ projects[job[s].p].owner = UserOf[s]
\* One row of projects is replaced by another of the same owner.
LEMMA ReplacedAlone ==
  ASSUME BookInv, NEW s \in Slot, Alone(s), NEW row, row.owner = UserOf[s],
         projects' = With(projects, job[s].p, row), UNCHANGED <<assessments>>,
         NEW u, u # UserOf[s]
  PROVE  Untouched(u)
BY DEF With, Untouched, Alone

LEMMA BookInsert ==
  ASSUME OneTabEach, BookInv, TypeInv', NEW s \in Slot, Insert(s) PROVE Turned(s)
<1>. DEFINE new == NewProject(s)
            n == lastId + 1
            j == job[s]
<1>0. job[s] \in Job /\ lastId \in Nat /\ DOMAIN projects \subseteq 1..lastId
  BY DEF BookInv, TypeInv, TypeOK, JobsOK
<1>a. n \notin DOMAIN projects /\ n <= MaxProjects
  BY <1>0 DEF Insert
<1>b. UserOf[s] \in User /\ j.city \in City
  BY <1>0 DEF Job
<1>c. new = [owner |-> UserOf[s], ext |-> j.ext, allowed |-> j.allowed,
             city |-> j.city, climate |-> j.climate]
  BY DEF NewProject
<1>d. projects' = With(projects, n, new) /\ lastId' = n /\ Done(s)
      /\ UNCHANGED <<assessments, reports>>
  BY DEF Insert
<1>1. /\ projects' = With(projects, n, new) /\ lastId' = n /\ Done(s)
      /\ n <= MaxProjects /\ n \notin DOMAIN projects /\ UNCHANGED <<assessments, reports>>
      /\ new = [owner |-> UserOf[s], ext |-> j.ext, allowed |-> j.allowed,
                city |-> j.city, climate |-> j.climate]
      /\ UserOf[s] \in User /\ j.city \in City
  BY <1>a, <1>b, <1>c, <1>d
<1>2. Comes(s, j) /\ j.pc = "insert"
  BY DEF Insert, At, BookInv, Sees, Arriving
<1>3. new.owner = UserOf[s]
  BY <1>1
<1>4. ASSUME NEW u, u # UserOf[s] PROVE Untouched(u)
  <2>. HIDE DEF new, n
  <2>1. DOMAIN projects' = DOMAIN projects \cup {n}
        /\ \A p \in DOMAIN projects' : projects'[p] = IF p = n THEN new ELSE projects[p]
    BY <1>1 DEF With
  <2>. QED  BY <1>1, <1>3, <1>4, <2>1 DEF Untouched
<1>5. CASE j.kind = "create" /\ j.ext = Manual /\ j.allowed = Unrestricted
           /\ j.climate = CityClimate[j.city]
  <2>1. Book!Create(UserOf[s], j.city)
    BY <1>1, <1>5 DEF Book!Create, Book!Add, Book!Put, With
  <2>2. Book!Next
    BY <1>1, <2>1 DEF Book!Next
  <2>. QED  BY <1>1, <1>4, <2>2, SeenDone DEF Turned, Advances
<1>6. CASE /\ j.kind = "import" /\ j.ext \in External /\ Imported(UserOf[s], j.ext) = {}
           /\ j.city = ImportCity /\ j.climate = CityClimate[j.city]
           /\ j.allowed \in Lists[j.ext]
  <2>1. Book!Add(UserOf[s], j.ext, j.allowed, ImportCity)
    BY <1>1, <1>6 DEF Book!Add, Book!Put, With
  <2>2. Book!Import(UserOf[s], j.ext)
    BY <1>6, <2>1 DEF Book!Import, Imported
  <2>3. Book!Next
    BY <1>1, <1>6, <2>2 DEF Book!Next
  <2>. QED  BY <1>1, <1>4, <2>3, SeenDone DEF Turned, Advances
<1>. QED  BY <1>2, <1>5, <1>6 DEF Comes

LEMMA BookRefresh ==
  ASSUME OneTabEach, BookInv, TypeInv', NEW s \in Slot, Refresh(s) PROVE Turned(s)
<1>. DEFINE p == job[s].p
            row == Refreshed(projects[p], job[s].allowed)
<1>1. /\ Alone(s) /\ projects[p].ext \in External
      /\ job[s].allowed \in Lists[projects[p].ext] /\ projects[p] \in ProjectRow
  BY DEF Refresh, At, BookInv, Sees, Working, Owned, Alone, TypeInv, TypeOK
<1>2. /\ projects' = With(projects, p, row) /\ Done(s)
      /\ UNCHANGED <<lastId, assessments, reports>>
  BY <1>1 DEF Refresh, Alone
<1>3. row.owner = UserOf[s]
  BY <1>1 DEF Refreshed, ProjectRow, Alone
<1>4. \A u : u # UserOf[s] => Untouched(u)
  <2>. HIDE DEF row
  <2>. QED  BY <1>1, <1>2, <1>3, ReplacedAlone
<1>5. projects' = [projects EXCEPT ![p].allowed = job[s].allowed]
  BY <1>1, <1>2 DEF With, Refreshed, Alone
<1>6. Book!Next
  BY <1>1, <1>2, <1>5 DEF Book!Next, Book!Refresh, Alone
<1>. QED  BY <1>2, <1>4, <1>6, SeenDone DEF Turned, Advances

LEMMA BookUpdate ==
  ASSUME OneTabEach, BookInv, TypeInv', NEW s \in Slot, Update(s) PROVE Turned(s)
<1>. DEFINE p == job[s].p
            row == Updated(projects[p], job[s])
            c == job[s].city
<1>1. Alone(s) /\ Updates(job[s]) /\ projects[p] \in ProjectRow /\ c \in City
  BY DEF Update, At, BookInv, Sees, Working, Owned, Alone, TypeInv, TypeOK, JobsOK, Job
<1>2. /\ projects' = With(projects, p, row) /\ Done(s)
      /\ UNCHANGED <<lastId, assessments, reports>>
  BY <1>1 DEF Update, Alone
<1>3. row.owner = UserOf[s]
  BY <1>1 DEF Updated, ProjectRow, Alone
<1>4. \A u : u # UserOf[s] => Untouched(u)
  <2>. HIDE DEF row
  <2>. QED  BY <1>1, <1>2, <1>3, ReplacedAlone
<1>5. row = [projects[p] EXCEPT !.city = c, !.climate = CityClimate[c]]
  BY <1>1 DEF Updated, Updates, ProjectRow
<1>6. projects' = [projects EXCEPT ![p].city = c, ![p].climate = CityClimate[c]]
  <2>. HIDE DEF row
  <2>. QED  BY <1>1, <1>2, <1>5 DEF With, Alone
<1>7. Book!Next
  BY <1>1, <1>2, <1>6 DEF Book!Next, Book!Update, Alone
<1>. QED  BY <1>2, <1>4, <1>7, SeenDone DEF Turned, Advances

LEMMA BookDelete ==
  ASSUME OneTabEach, BookInv, TypeInv', NEW s \in Slot, Delete(s) PROVE Turned(s)
<1>. DEFINE p == job[s].p
<1>1. Alone(s)
  BY DEF Delete, At, BookInv, Sees, Working, Owned, Alone
<1>2. /\ projects' = Without(projects, p) /\ assessments' = Without(assessments, p)
      /\ reports' = {r \in reports : r.project # p} /\ UNCHANGED lastId /\ Done(s)
  BY DEF Delete, ReportsWithout
<1>3. \A u : u # UserOf[s] => Untouched(u)
  <2>1. DOMAIN projects' = DOMAIN projects \ {p}
        /\ \A q \in DOMAIN projects' : projects'[q] = projects[q]
    BY <1>2, WithoutProps
  <2>2. DOMAIN assessments' = DOMAIN assessments \ {p}
        /\ \A q \in DOMAIN assessments' : assessments'[q] = assessments[q]
    BY <1>2, WithoutProps
  <2>. QED  BY <1>1, <2>1, <2>2 DEF Untouched, Alone
<1>4. projects' = Book!Drop(projects, p) /\ assessments' = Book!Drop(assessments, p)
  BY <1>2 DEF Without, Book!Drop
<1>5. Mapped' = {r \in Mapped : r.project # p}
  BY <1>2 DEF Mapped
<1>6. PICK q \in DOMAIN projects : q = p
  BY <1>1 DEF Alone
<1>7. Book!Delete(q)
  BY <1>2, <1>4, <1>5, <1>6 DEF Book!Delete, Mapped
<1>8. Book!Next
  BY <1>7 DEF Book!Next
<1>. QED  BY <1>2, <1>3, <1>8, SeenDone DEF Turned, Advances

LEMMA BookSave ==
  ASSUME OneTabEach, BookInv, TypeInv', NEW s \in Slot, Save(s) PROVE Turned(s)
<1>. DEFINE p == job[s].p
            j == job[s]
<1>1. Alone(s) /\ Saves(j) /\ j \in Job
  BY DEF Save, At, BookInv, Sees, Working, Owned, Alone, TypeInv, JobsOK
<1>2. PICK body \in Body : j.row = Saved(Found(p), body, projects[p].allowed)
  BY <1>1 DEF Saves
<1>3. UNCHANGED <<projects, lastId, reports>> /\ Done(s)
  BY DEF Save
<1>4. assessments' = With(assessments, p, j.row)
  <2>1. CASE p \notin DOMAIN assessments
    BY <1>1, <2>1 DEF Save, Saves, Alone
  <2>2. CASE p \in DOMAIN assessments
    <3>1. assessments[p] \in AssessmentRow /\ j.row \in AssessmentRow
      BY <1>1, <2>2 DEF BookInv, TypeInv, TypeOK, Job
    <3>2. j.changed = ChangedIn(assessments[p], j.row) /\ ~j.insert
      BY <1>1, <2>2 DEF Saves, Found
    <3>3. Written(assessments[p], j) = j.row
      BY <3>1, <3>2, WrittenIsRow
    <3>. QED  BY <2>2, <3>2, <3>3 DEF Save
  <2>. QED  BY <2>1, <2>2
<1>5. \A u : u # UserOf[s] => Untouched(u)
  <2>1. DOMAIN assessments' = DOMAIN assessments \cup {p}
        /\ \A q \in DOMAIN assessments : q # p => assessments'[q] = assessments[q]
    BY <1>4 DEF With
  <2>. QED  BY <1>1, <1>3, <2>1 DEF Untouched, Alone
<1>6. assessments' = Book!Put(assessments, p, j.row)
  BY <1>4 DEF With, Book!Put
<1>7. j.row = Saved(Book!Stored(p), body, projects[p].allowed)
  BY <1>2 DEF Found, Book!Stored
<1>8. Book!Save(p, body)
  BY <1>3, <1>6, <1>7 DEF Book!Save
<1>9. Book!Next
  BY <1>1, <1>8 DEF Book!Next, Alone
<1>. QED  BY <1>3, <1>5, <1>9, SeenDone DEF Turned, Advances

LEMMA BookRecord ==
  ASSUME OneTabEach, BookInv, TypeInv', NEW s \in Slot, Record(s) PROVE Turned(s)
<1>. DEFINE p == job[s].p
            doc == [climate |-> projects[p].climate, result |-> assessments[p].result,
                    total |-> assessments[p].total]
            new == [project |-> p, second |-> job[s].second, doc |-> doc]
<1>1. Alone(s) /\ Prints(job[s])
  BY DEF Record, At, BookInv, Sees, Working, Owned, Alone
<1>2. UNCHANGED <<projects, lastId, assessments>> /\ Done(s)
  BY DEF Record
<1>3. JobDoc(s) = doc
  BY <1>1 DEF JobDoc, Doc, Prints
<1>4. reports' = reports \cup {new}
  BY <1>1, <1>3 DEF Record, Prints
<1>5. Mapped' = Mapped \cup {[project |-> p, doc |-> doc]}
  <2>1. new.project = p /\ new.doc = doc
    OBVIOUS
  <2>. HIDE DEF new, doc, p
  <2>. QED  BY <1>4, <2>1 DEF Mapped
<1>6. PICK q \in DOMAIN projects : q = p
  BY <1>1 DEF Alone
<1>7. Book!Report(q)
  BY <1>1, <1>2, <1>5, <1>6 DEF Book!Report, Prints, Mapped
<1>8. Book!Next
  BY <1>7 DEF Book!Next
<1>9. \A u : u # UserOf[s] => Untouched(u)
  BY <1>2 DEF Untouched
<1>. QED  BY <1>2, <1>8, <1>9, SeenDone DEF Turned, Advances

LEMMA BookPut ==
  ASSUME OneTabEach, BookInv, TypeInv', NEW s \in Slot, Put(s) PROVE Turned(s)
<1>. DEFINE j == [job[s] EXCEPT !.pc = "record"]
<1>1. Continue(s, j) /\ UNCHANGED <<projects, lastId, assessments, reports>>
  BY DEF Put
<1>2. Owned(s, job[s].p) /\ Prints(job[s]) /\ job[s] \in Job
  BY DEF Put, At, BookInv, Sees, Working, TypeInv, JobsOK
<1>3. /\ j.pc = "record" /\ j.p = job[s].p /\ j.row = job[s].row
      /\ j.climate = job[s].climate
  BY <1>2 DEF Job
<1>. HIDE DEF j
<1>4. Sees(s, j)
  BY <1>2, <1>3 DEF Sees, Working, Arriving, Prints
<1>. QED  BY <1>1, <1>4, SeenQuietly

LEMMA BookQuiet ==
  ASSUME OneTabEach, BookInv, TypeInv', NEW s \in Slot,
         \/ Request(s)
         \/ Admit(s) \/ Subscribe(s) \/ Refetch(s) \/ Fetch(s)
         \/ Fail(s)
  PROVE  Turned(s)
<1>1. UNCHANGED <<projects, lastId, assessments, reports>>
  <2>1. Request(s) => UNCHANGED <<projects, lastId, assessments, reports>>
    BY DEF Request, RequestMe, RequestCreate, RequestImport, RequestDelete, RequestReport,
           RequestUpdate, RequestSave
  <2>. QED  BY <2>1 DEF Admit, Subscribe, Refetch, Fetch, Fail
<1>2. \E j : Continue(s, j) /\ Sees(s, j)
  <2>1. Fail(s) => Continue(s, NoJob) /\ Sees(s, NoJob)
    BY IdleSees DEF Fail, Done
  <2>. QED  BY <2>1, RequestSees, CheckSees DEF BookInv
<1>. QED  BY <1>1, <1>2, SeenQuietly

LEMMA BookWorld ==
  ASSUME BookInv, TypeInv', World \/ UNCHANGED vars PROVE BookInv' /\ Advances
<1>1. UNCHANGED <<projects, lastId, assessments, reports, job>>
  BY DEF World, Tick, Reassign, vars
<1>2. \A s \in Slot : Sees(s, job[s])'
  BY <1>1 DEF BookInv, Sees, Owned, Comes, Updates, Saves, Prints, Imported, Found, ChangedIn
<1>. QED  BY <1>1, <1>2 DEF BookInv, Advances, Mapped

LEMMA BookStep ==
  ASSUME OneTabEach, BookInv, TypeInv', [Next]_vars PROVE BookInv' /\ Advances
<1>1. ASSUME NEW s \in Slot, Request(s) \/ Step(s) PROVE Turned(s)
  BY <1>1, BookQuiet, BookRefresh, BookInsert, BookUpdate, BookDelete, BookSave, BookPut,
     BookRecord DEF Step
<1>. QED  BY <1>1, BookWorld DEF Next, Turned

\* With one request of each user in flight, whatever the requests of other users do,
\* whatever fails and however the register changes, the tables take the steps of
\* ProjectBook: every operation is one step on what its owner has.
THEOREM BookImplemented == ASSUME OneTabEach PROVE Spec => BookSpec
<1>1. Init => BookInv
  <2>1. Init => \A s \in Slot : Sees(s, job[s])
    BY IdleSees DEF Init
  <2>. QED  BY <2>1, InitType DEF BookInv
<1>2. Init => Book!Init
  BY DEF Init, Empty, Book!Init
<1>3. BookInv /\ [Next]_vars => BookInv' /\ [Book!Next]_(Book!vars)
  <2>1. BookInv /\ [Next]_vars => TypeInv'
    BY NextType DEF BookInv
  <2>. QED  BY <2>1, BookStep DEF Advances, Mapped, Book!vars
<1>. QED  BY <1>1, <1>2, <1>3, PTL DEF Spec, BookSpec, Book!Spec
=============================================================================
