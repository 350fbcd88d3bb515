--------------------------- MODULE ProjectWorkspace ---------------------------
(***************************************************************************)
(* The requests users send about their projects, as their handlers run     *)
(* them: create, import, update and delete a project, save its assessment, *)
(* generate its report, and the subscription check; over the tables        *)
(* Projects, Assessments, AssessmentReports and Subscriptions, the object  *)
(* storage and the external project register.                              *)
(*                                                                         *)
(* A handler reads what it needs in its first queries and writes in its    *)
(* last SaveChanges; requests interleave at the awaits in between.  EF     *)
(* Core updates only the columns that differ from the values it read, and  *)
(* no table has a concurrency token.  A slot is one request in flight.     *)
(* Requests the first query refuses (404, 403, 400) change nothing and are *)
(* not steps.                                                              *)
(***************************************************************************)
EXTENDS AssessmentRules, FiniteSets

CONSTANTS
  User, Slot,
  UserOf,      \* UserOf[s] : who sends the request in slot s
  KindsOf,     \* KindsOf[s] : the requests slot s is used for
  External,    \* ids of records in the external register
  Manual,      \* the ExternalId of a project that was not imported
  Lists,       \* Lists[x] : the section lists the register may give for x
  City, ImportCity, Climate,
  CityClimate, \* CityClimate[c] : GetCityClimate(c)
  Faults,      \* what may go wrong: "fail" and "null"
  MaxProjects, \* bound: rows ever inserted into Projects
  MaxSecond,   \* bound: seconds that pass
  MaxReports   \* bound: report rows there are when another is asked for

Kind == {"create", "import", "me", "update", "delete", "save", "report"}

ASSUME WorkspaceAssumption ==
  /\ UserOf \in [Slot -> User]
  /\ KindsOf \in [Slot -> SUBSET Kind]
  /\ Manual \notin External
  /\ Lists \in [External -> SUBSET SUBSET Section]
  /\ ImportCity \in City
  /\ CityClimate \in [City -> Climate]
  /\ {MaxProjects, MaxSecond, MaxReports} \subseteq Nat

VARIABLES
  projects,    \* Projects : a function on the ids of the rows there are
  lastId,      \* the identity column of Projects
  assessments, \* Assessments : a function on ids of projects that have one
  reports,     \* AssessmentReports : a set, equal rows are not told apart
  objects,     \* the object storage : a function on storage keys
  subs,        \* subs[u] : the subscription row of u
  register,    \* register[x] : the section list of x in the register
  second,      \* the clock of the file names
  job          \* job[s] : the request being handled in slot s

vars == <<projects, lastId, assessments, reports, objects, subs, register,
          second, job>>

PC == {"idle", "admit", "subscribe", "refetch", "refresh", "fetch", "insert",
       "update", "delete", "save", "put", "record"}
Column == {"input", "result", "total", "status", "city", "climate"}

ProjectRow == [owner: User, ext: External \cup {Manual}, allowed: SUBSET Section,
               city: City, climate: Climate]

\* A request: what its handler keeps between two awaits.  row is the assessment
\* to write or to print, changed the columns EF will write.
NoJob == [pc |-> "idle", kind |-> "me", p |-> 0, ext |-> Manual,
          city |-> ImportCity, climate |-> CityClimate[ImportCity],
          allowed |-> Unrestricted, row |-> NoAssessment, insert |-> FALSE,
          changed |-> {}, second |-> 0]

\* What a PDF shows of a project, and the key it is stored under.  The key also
\* holds the owner, which the project determines.
Doc(climate, row) == [climate |-> climate, result |-> row.result, total |-> row.total]
Key(p, sec) == <<p, sec>>

\* Functions on the ids of rows: one row put in, one row taken out.
With(f, k, v) == [i \in DOMAIN f \cup {k} |-> IF i = k THEN v ELSE f[i]]
Without(f, k) == [i \in DOMAIN f \ {k} |-> f[i]]

Empty == [i \in {} |-> 0]

Init ==
  /\ projects = Empty /\ lastId = 0
  /\ assessments = Empty
  /\ reports = {}
  /\ objects = Empty
  /\ subs \in [User -> {"none", "active", "inactive"}]
  /\ register \in {f \in [External -> SUBSET Section] :
                     \A x \in External : f[x] \in Lists[x]}
  /\ second = 0
  /\ job = [s \in Slot |-> NoJob]

-----------------------------------------------------------------------------
Ready(s, kind) == job[s].pc = "idle" /\ kind \in KindsOf[s]
At(s, pc) == job[s].pc = pc

Continue(s, j) == job' = [job EXCEPT ![s] = j]
Done(s) == Continue(s, NoJob)

\* Mutant: any signed-in user may change any project.
AnyLive(s, p) == p \in DOMAIN projects
Owned(s, p) == p \in DOMAIN projects /\ projects[p].owner = UserOf[s]

(* POST /Projects and GET /Subscriptions/me go to the subscription first. *)
RequestCreate(s, c) ==
  /\ Ready(s, "create")
  /\ Continue(s, [NoJob EXCEPT !.pc = "admit", !.kind = "create", !.city = c,
                               !.climate = CityClimate[c]])
  /\ UNCHANGED <<projects, lastId, assessments, reports, objects, subs, register, second>>

RequestMe(s) ==
  /\ Ready(s, "me")
  /\ Continue(s, [NoJob EXCEPT !.pc = "admit"])
  /\ UNCHANGED <<projects, lastId, assessments, reports, objects, subs, register, second>>

\* Mutant: a re-import is not looked for.
NeverImported(u, x) == {}
Imported(u, x) == {p \in DOMAIN projects : projects[p].owner = u /\ projects[p].ext = x}

(* POST /Projects/import: the query for an existing import. *)
RequestImport(s, x) ==
  /\ Ready(s, "import")
  /\ \/ \E p \in Imported(UserOf[s], x) :
          Continue(s, [NoJob EXCEPT !.pc = "refetch", !.kind = "import", !.p = p,
                                    !.ext = x, !.allowed = projects[p].allowed])
     \/ /\ Imported(UserOf[s], x) = {}
        /\ Continue(s, [NoJob EXCEPT !.pc = "admit", !.kind = "import", !.ext = x])
  /\ UNCHANGED <<projects, lastId, assessments, reports, objects, subs, register, second>>

\* What follows EnsureCanCreateProject, or GetOrCreate, in each request.
Admitted(j) ==
  [j EXCEPT !.pc = CASE j.kind = "create" -> "insert"
                     [] j.kind = "import" -> "fetch"
                     [] OTHER -> "idle"]

Admit(s) ==
  /\ At(s, "admit")
  /\ \/ subs[UserOf[s]] = "active" /\ Continue(s, Admitted(job[s]))
     \/ subs[UserOf[s]] = "none" /\ Continue(s, [job[s] EXCEPT !.pc = "subscribe"])
     \/ subs[UserOf[s]] = "inactive" /\ Done(s)
  /\ UNCHANGED <<projects, lastId, assessments, reports, objects, subs, register, second>>

(* The Free plan is inserted; UserId is unique, so only one insert succeeds. *)
Subscribe(s) ==
  /\ At(s, "subscribe")
  /\ \/ /\ subs[UserOf[s]] = "none"
        /\ subs' = [subs EXCEPT ![UserOf[s]] = "active"]
        /\ Continue(s, Admitted(job[s]))
     \/ subs[UserOf[s]] # "none" /\ Done(s) /\ UNCHANGED subs
  /\ UNCHANGED <<projects, lastId, assessments, reports, objects, register, second>>

(* A re-import refreshes the section list if it differs from the one read. *)
Refetch(s) ==
  /\ At(s, "refetch")
  /\ LET list == register[job[s].ext]
     IN \/ list = job[s].allowed /\ Done(s)
        \/ /\ list # job[s].allowed
           /\ Continue(s, [job[s] EXCEPT !.pc = "refresh", !.allowed = list])
        \/ "null" \in Faults /\ Done(s)
  /\ UNCHANGED <<projects, lastId, assessments, reports, objects, subs, register, second>>

Refreshed(row, list) == [row EXCEPT !.allowed = list]

Refresh(s) ==
  /\ At(s, "refresh")
  /\ projects' = IF job[s].p \in DOMAIN projects
                 THEN With(projects, job[s].p,
                           Refreshed(projects[job[s].p], job[s].allowed))
                 ELSE projects
  /\ Done(s)
  /\ UNCHANGED <<lastId, assessments, reports, objects, subs, register, second>>

Fetch(s) ==
  /\ At(s, "fetch")
  /\ \/ Continue(s, [job[s] EXCEPT !.pc = "insert", !.allowed = register[job[s].ext]])
     \/ "null" \in Faults /\ Done(s)
  /\ UNCHANGED <<projects, lastId, assessments, reports, objects, subs, register, second>>

NewProject(s) ==
  [owner |-> UserOf[s], ext |-> job[s].ext, allowed |-> job[s].allowed,
   city |-> job[s].city, climate |-> job[s].climate]

Insert(s) ==
  /\ At(s, "insert")
  /\ lastId < MaxProjects
  /\ projects' = With(projects, lastId + 1, NewProject(s))
  /\ lastId' = lastId + 1
  /\ Done(s)
  /\ UNCHANGED <<assessments, reports, objects, subs, register, second>>

(* PUT /Projects/{id}: the form sends the climate of the city it shows, and the
   server takes GetCityClimate when it is blank.  The other columns behave as
   these two. *)
RequestUpdate(s, p, c) ==
  /\ Ready(s, "update") /\ Owned(s, p)
  /\ LET changed == {k \in {"city", "climate"} :
                       \/ k = "city" /\ c # projects[p].city
                       \/ k = "climate" /\ CityClimate[c] # projects[p].climate}
     IN Continue(s, [NoJob EXCEPT !.pc = "update", !.kind = "update", !.p = p,
                                  !.city = c, !.climate = CityClimate[c],
                                  !.changed = changed])
  /\ UNCHANGED <<projects, lastId, assessments, reports, objects, subs, register, second>>

Updated(row, j) ==
  [row EXCEPT !.city = IF "city" \in j.changed THEN j.city ELSE @,
              !.climate = IF "climate" \in j.changed THEN j.climate ELSE @]

Update(s) ==
  /\ At(s, "update")
  /\ projects' = IF job[s].p \in DOMAIN projects
                 THEN With(projects, job[s].p, Updated(projects[job[s].p], job[s]))
                 ELSE projects
  /\ Done(s)
  /\ UNCHANGED <<lastId, assessments, reports, objects, subs, register, second>>

(* DELETE /Projects/{id}: the database cascades to the assessment and to the
   report rows; nothing deletes the stored PDFs. *)
RequestDelete(s, p) ==
  /\ Ready(s, "delete") /\ Owned(s, p)
  /\ Continue(s, [NoJob EXCEPT !.pc = "delete", !.kind = "delete", !.p = p])
  /\ UNCHANGED <<projects, lastId, assessments, reports, objects, subs, register, second>>

\* Mutant: the report rows outlive their project.
ReportsKept(p) == reports
ReportsWithout(p) == {r \in reports : r.project # p}

Delete(s) ==
  /\ At(s, "delete")
  /\ projects' = Without(projects, job[s].p)
  /\ assessments' = Without(assessments, job[s].p)
  /\ reports' = ReportsWithout(job[s].p)
  /\ Done(s)
  /\ UNCHANGED <<lastId, objects, subs, register, second>>

\* The assessment a handler finds with the project.
Found(p) == IF p \in DOMAIN assessments THEN assessments[p] ELSE NoAssessment

ChangedIn(seen, row) ==
  {c \in {"input", "result", "total", "status"} :
     \/ c = "input" /\ row.input # seen.input
     \/ c = "result" /\ row.result # seen.result
     \/ c = "total" /\ row.total # seen.total
     \/ c = "status" /\ row.status # seen.status}

(* PUT /Projects/{id}/assessment, up to its SaveChanges. *)
RequestSave(s, p, body) ==
  /\ Ready(s, "save") /\ Owned(s, p)
  /\ LET row == Saved(Found(p), body, projects[p].allowed)
     IN Continue(s, [NoJob EXCEPT !.pc = "save", !.kind = "save", !.p = p,
                                  !.row = row, !.insert = p \notin DOMAIN assessments,
                                  !.changed = ChangedIn(Found(p), row)])
  /\ UNCHANGED <<projects, lastId, assessments, reports, objects, subs, register, second>>

\* The columns EF writes, over the row as it is by now.
Written(old, j) ==
  [input  |-> IF "input" \in j.changed THEN j.row.input ELSE old.input,
   result |-> IF "result" \in j.changed THEN j.row.result ELSE old.result,
   total  |-> IF "total" \in j.changed THEN j.row.total ELSE old.total,
   status |-> IF "status" \in j.changed THEN j.row.status ELSE old.status]

(* ProjectId is a foreign key and unique: an insert fails when the project is
   gone or has an assessment by now, an update when the row is gone. *)
Save(s) ==
  /\ At(s, "save")
  /\ LET p == job[s].p
     IN assessments' =
          CASE job[s].insert /\ p \in DOMAIN projects /\ p \notin DOMAIN assessments ->
                 With(assessments, p, job[s].row)
            [] ~job[s].insert /\ p \in DOMAIN assessments ->
                 With(assessments, p, Written(assessments[p], job[s]))
            [] OTHER -> assessments
  /\ Done(s)
  /\ UNCHANGED <<projects, lastId, reports, objects, subs, register, second>>

(* POST /Projects/{id}/report: the PDF is rendered from what was read, stored,
   and only then recorded. *)
RequestReport(s, p) ==
  /\ Ready(s, "report") /\ Owned(s, p) /\ p \in DOMAIN assessments
  /\ Cardinality(reports) < MaxReports
  /\ Continue(s, [NoJob EXCEPT !.pc = "put", !.kind = "report", !.p = p,
                               !.climate = projects[p].climate,
                               !.row = assessments[p], !.second = second])
  /\ UNCHANGED <<projects, lastId, assessments, reports, objects, subs, register, second>>

\* Mutant: the file name is taken from the clock again when the PDF is stored.
JobKeyNow(s) == Key(job[s].p, second)
JobKey(s) == Key(job[s].p, job[s].second)
JobDoc(s) == Doc(job[s].climate, job[s].row)

Put(s) ==
  /\ At(s, "put")
  /\ objects' = With(objects, JobKey(s), JobDoc(s))
  /\ Continue(s, [job[s] EXCEPT !.pc = "record"])
  /\ UNCHANGED <<projects, lastId, assessments, reports, subs, register, second>>

Record(s) ==
  /\ At(s, "record")
  /\ reports' = IF job[s].p \in DOMAIN assessments
                THEN reports \cup {[project |-> job[s].p, second |-> job[s].second,
                                    doc |-> JobDoc(s)]}
                ELSE reports
  /\ Done(s)
  /\ UNCHANGED <<projects, lastId, assessments, objects, subs, register, second>>

(* An await fails: the caller is gone, the database or the storage does not
   answer, or the process dies.  What was saved before stays. *)
Fail(s) ==
  /\ "fail" \in Faults
  /\ job[s].pc # "idle"
  /\ Done(s)
  /\ UNCHANGED <<projects, lastId, assessments, reports, objects, subs, register, second>>

(* The world: the engineers of a record change, and time passes. *)
Reassign(x, list) ==
  /\ list \in Lists[x] /\ list # register[x]
  /\ register' = [register EXCEPT ![x] = list]
  /\ UNCHANGED <<projects, lastId, assessments, reports, objects, subs, second, job>>

Tick ==
  /\ second < MaxSecond
  /\ second' = second + 1
  /\ UNCHANGED <<projects, lastId, assessments, reports, objects, subs, register, job>>

Request(s) ==
  \/ RequestMe(s)
  \/ \E c \in City : RequestCreate(s, c)
  \/ \E x \in External : RequestImport(s, x)
  \/ \E p \in DOMAIN projects :
       \/ RequestDelete(s, p) \/ RequestReport(s, p)
       \/ \E c \in City : RequestUpdate(s, p, c)
       \/ \E body \in Body : RequestSave(s, p, body)

Step(s) ==
  \/ Admit(s) \/ Subscribe(s) \/ Refetch(s) \/ Refresh(s) \/ Fetch(s) \/ Insert(s)
  \/ Update(s) \/ Delete(s) \/ Save(s) \/ Put(s) \/ Record(s) \/ Fail(s)

World == Tick \/ \E x \in External : \E list \in Lists[x] : Reassign(x, list)

Next == World \/ \E s \in Slot : Request(s) \/ Step(s)

Spec == Init /\ [][Next]_vars

-----------------------------------------------------------------------------
\* Every table, the storage and every request in flight are well formed: rows
\* only refer to ids that were given out, and assessments to live projects.
TypeOK ==
  /\ lastId \in 0..MaxProjects
  /\ DOMAIN projects \subseteq 1..lastId
  /\ \A p \in DOMAIN projects : projects[p] \in ProjectRow
  /\ DOMAIN assessments \subseteq DOMAIN projects
  /\ \A p \in DOMAIN assessments : assessments[p] \in AssessmentRow
  /\ \A r \in reports : r.project \in DOMAIN assessments /\ r.second \in 0..MaxSecond
  /\ subs \in [User -> {"none", "active", "inactive"}]
  /\ register \in [External -> SUBSET Section]
  /\ \A x \in External : register[x] \in Lists[x]
  /\ second \in 0..MaxSecond
  /\ \A s \in Slot : job[s].pc \in PC /\ job[s].row \in AssessmentRow
                     /\ job[s].p \in 0..lastId

\* A report row always has its PDF in the storage, whatever request fails or
\* overtakes another: the object is put before the row is inserted.
RowsHaveObjects ==
  \A r \in reports : Key(r.project, r.second) \in DOMAIN objects

\* A tool outside every section list the register ever gave for a record stays
\* blank in the projects imported from it: the engineers cannot fill it.
AssignedTools(x) == UNION {ToolsOf[k] : k \in UNION Lists[x]}
NeverAssignedStaysBlank ==
  \A p \in DOMAIN assessments :
    projects[p].ext \in External =>
      \A t \in Tool \ AssignedTools(projects[p].ext) :
        /\ assessments[p].input[t] = Blank
        /\ assessments[p].result[t] = 0

\* Importing a record again returns the project there is: an owner has at most
\* one project of a record.
NoDuplicateImports ==
  \A p, q \in DOMAIN projects :
    /\ projects[p].ext \in External
    /\ projects[p].ext = projects[q].ext /\ projects[p].owner = projects[q].owner
    => p = q

\* The denormalised total and status are those of the stored scores.
Coherent(row) == row = RowOf(row.input, row.result)
RowCoherent == \A p \in DOMAIN assessments : Coherent(assessments[p])

\* The size and content a report row describes are those of its stored object.
RowMatchesObject ==
  \A r \in reports : objects[Key(r.project, r.second)] = r.doc

\* No save changes a tool outside the sections the project allows now.
Locked(p) == Tool \ ResolveAllowedTools(projects[p].allowed)
GatingHolds ==
  [][\A p \in DOMAIN projects : p \in DOMAIN projects' =>
       \A t \in Locked(p) :
         Found(p)'.input[t] = Found(p).input[t]
         /\ Found(p)'.result[t] = Found(p).result[t]]_vars

\* One request at a time for each user: the workspace implements ProjectBook.
Book == INSTANCE ProjectBook WITH
  reports <- {[project |-> r.project, doc |-> r.doc] : r \in reports}
BookSpec == Book!Spec
=============================================================================
