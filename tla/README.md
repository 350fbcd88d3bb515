# TLA+ specifications of Mabhas19

Formal models of the Mabhas19 platform (energy assessment of buildings, the Sanandaj
municipality sync, an identity provider, a content system, analytics, and the front ends
and the mobile application over them), checked with TLC and proved with TLAPS.

1. [The system](#1-the-system): its parts, their state, and what must hold of them
2. [The modules](#2-the-modules) and how they correspond to the code
3. [What the runs check](#3-what-the-runs-check), with bounds and fairness
4. [What is proved](#4-what-is-proved)
5. [Where the code and its documents disagree](#5-where-the-code-and-its-documents-disagree)
6. [What is not modelled](#6-what-is-not-modelled)
7. [Plan](#7-plan)

Paths are relative to the repository. To repeat a run: `tlc -config X.cfg MCModule`;
to repeat a proof: `tlapm X_proofs.tla`.

## 1. The system

An ASP.NET Core API (`src/Web`, handlers in `src/Application`, EF Core over SQL
Server in `src/Infrastructure`), an OpenIddict identity provider (`src/Auth`), six
front ends and a mobile application. Three facts about the platform decide
what can go wrong, and every model is built on them:

- A handler is `async`: it runs up to an await, and any other request may run before
  it continues. The handlers read first and write in one last `SaveChanges`.
- No table has a concurrency token. EF Core compares each tracked entity with the
  values it read and writes **only the columns that differ**, so two overlapping
  requests do not overwrite each other's rows, they mix them.
- An await may throw (database, storage, an external service, the caller's
  cancellation token) and the process may stop. What was saved stays, and the rest
  of the handler does not happen.

| Component | State it keeps | Operations | Interacts with | What is hard | What makes it correct |
|---|---|---|---|---|---|
| MunSanandaj sync (`Infrastructure/MunSanandaj`) | `MunSyncRuns`, `MunReportLogs`; the pending list and the municipality outside | a run of either worker, started by its timer or by an administrator | KurdNezam database (sp1, sp2, write-back), PDF server, municipality REST API | overlapping runs, lost answers, stored but unlogged submissions, host stop, retry of one map with created engineers | never send what is known to be delivered; log only what was stored; counters that agree with the log; every run ends, but for the one wait without a timeout |
| Projects and assessments (`Application/Projects`, `Assessments`, `Subscriptions`) | `Projects`, `Assessments`, `AssessmentReports`, `Subscriptions`, stored PDFs | create, import, update, delete, save assessment, generate report, own subscription | FarsNezam register, object storage, clients | requests of one user in two tabs, re-import during a save, delete during anything, PDF and row written separately | totals belong to scores, locked tools stay locked, one project per imported record, no report without its PDF |
| Clients of an assessment (`web`, `mobile`) | loaded data, unsaved edits | load, open, edit, save | API | a save of data loaded earlier, from a page that knows only part of it | no score beside inputs it was not worked out from; tools that were not opened keep theirs |
| Checklists (`packages/assessment-core`, `web`, `mobile`) | the details of six checklists | some forty handlers, six scorers, six reports | the assessment page, the phone, the stored details | one rule written three times (page, scorer, report), details that outlive the facts they were worked out from, JSON | the three agree on everything that can be entered; what follows from something else follows it |
| Identity provider: one-time codes (`Auth/Otp`) | four keys of a cache per phone number | request and verify a code | SMS provider, sign-in pages | counters read and then written, keys that run out one by one, restarts | caps hold, a replaced or used code is refused |
| Identity provider: administration (`Auth/Admin`) | users with a concurrency stamp, roles, service access, authorizations | create, update, roles, services, delete | admin panel | several saves in one request, each of which may fail; the last administrator counted before the removal | a success means that what was asked for is stored; an administrator remains |
| Analytics query engine (`analytics-web/src/query`, `Infrastructure/Analytics/Query`) | none | filter, calculate, group, sort, cut, drill down | report screens | dates, missing values, an expression evaluator, two engines for one query language | totals add up, an expression means its tree, both engines agree |
| Panels and workspaces (content panel, admin panel, analytics, MunSanandaj, web) | a cache of lists, open forms and drawers | read, open, send, drop keys of the cache | API | answers out of order, lists dropped by hand-written keys, rows sent whole | a person sees the own changes, and puts no older value back |
| Forms and their validators | what is typed, what is stored | type, send, validate, open again | content panel, admin panel, web, mobile, public site; FluentValidation behind | limits and required fields written twice | what a form lets in the server stores, but where it is known not to; what is stored can be saved again |
| Report screens (`analytics-web`) | a question or a saved report under filters, calls under way | ask, drill, filter, refresh | query engine, language model | calls that come back in any order | the error and the result on the screen are those of the last wish |
| Sessions (`mobile`, four single-page applications) | tokens in memory and in a store, a user, a sign-in that began | call, refresh, sign in and out, be killed, follow a link | identity provider | one refresh shared by many calls, a store written key by key, a callback that renders twice, guards and menus written apart | a refresh token is redeemed once, one click signs in, links lead somewhere |
| Public site (`kurdnezam-web`) | the payload a page was loaded with | follow links, turn slides, read | content system, which reads its tables one after another | payloads that are torn, cut or old | what a link names is in the payload, but for four kinds that the property lists |
| Kurdnezam content (`Application/Kurdnezam`) | news, categories, people, units, slides, tab groups, forms and submissions, settings | CRUD per table, public read, form submission | content panel, public site | check-then-act on references, a read in ten queries | references of a payload resolve |
| Building rules (`Domain/Services`) | none | building group, climate of a city | handlers and clients | thresholds | the implementations agree |
| Pipeline, hosting, generated types | none | validation, authorization, exception mapping | all handlers | | |

`PROJECT.json` lists every component, and under `hazards` each place where an order,
a failure or a boundary could break one of these, with the property that watches it.

## 2. The modules

### The MunSanandaj sync

| Module | Models |
|---|---|
| `MunGateway` | `MunSanandajGatewayClient`: the kinds of answer the municipality may give and what each parser makes of it (success, failure, unknown engineers, or an exception) |
| `MunSync` | `MunSanandajSyncService.RunAsync` with both row processors, the two workers and the trigger endpoint |
| `ReportDelivery` | the abstract promise: deliver until acknowledged, never after |
| `MCMunSync` | instances for TLC |

`runs` and `log` are the two tables in Id order; `listed` is what sp1 returns; `stored`
and `registered` are the municipality's. `job[s]` is the run executing in slot `s`: the
tracked `MunSyncRun` entity (`total`, `ok`, `bad`, `status`), the rows left in the loop,
the locals of the current iteration, and whether the token is cancelled. A *slot* is
where a run can execute: a timer, or one manual request. Nothing in the code keeps
the slots of one worker apart, so the number of slots is a constant.

| Action | Code (`MunSanandajSyncService.cs`) |
|---|---|
| `Start` | 44-54, the run row is inserted and saved |
| `List` | 56-59, sp1 and `TotalRows` |
| `PickRow` | 61-75, the latest attempt; a Success is skipped and counted, otherwise the number of the new attempt is fixed here |
| `Prepare` | 122-129 and 154-170, sp2 and the PDF |
| `Send`, `Mark` | 131-151 the report and the write-back, 172-192 the map |
| `AddEngineer`, `AfterEngineers` | 172-191, each unknown engineer once, then one re-send |
| `SaveRow` | 78-99, log row and counters in one `SaveChanges` |
| `Complete`, `Finally` | 100-113, also after the catch block (`Throw`) |
| `Disconnect`, `StopHost`, `Interrupt`, `Restart` | the two cancellation tokens and the process |

Failures are constants: a run of TLC names the faults it allows. A failed
`SaveChanges` leaves the log entity tracked (`unsaved`) and the counters already
increased, and the finally block saves again, as EF Core does.

### The project workspace

| Module | Models |
|---|---|
| `AssessmentRules` | the pure part of `SaveAssessment`: editable tools, the merge, the derived total and status |
| `ProjectWorkspace` | every command on projects and assessments, interleaved at its awaits |
| `ProjectBook` | the abstract promise to an owner who does one thing at a time: each operation is one atomic step; the merge of a save, `Saved`, is a parameter, so that its sums are never opened |
| `MCProjectWorkspace` | instances for TLC |

`projects`, `assessments`, `reports` and `subs` are the tables, `objects` the bucket,
`register` the FarsNezam database, `second` the clock as file names show it.
`job[s]` is a request in flight with what it keeps between two awaits: the row it is
going to write and, for the column-wise update, which columns differ from what it read
(`changed`).

| Request | Steps | Code |
|---|---|---|
| create | `RequestCreate`, `Admit`, `Subscribe`, `Insert` | `CreateProject.cs` 37-67, `SubscriptionService.cs` 19-49 |
| import | `RequestImport`, then `Refetch`, `Refresh` for an existing import, or `Admit`, `Subscribe`, `Fetch`, `Insert` | `ImportProject.cs` 38-107 |
| update | `RequestUpdate`, `Update` | `UpdateProject.cs` 36-60 |
| delete | `RequestDelete`, `Delete` with the cascades of the foreign keys | `DeleteProject.cs` 21-30 |
| save | `RequestSave`, `Save` | `SaveAssessment.cs` 43-86 |
| report | `RequestReport`, `Put`, `Record` | `GenerateReport.cs` 46-102, `MinioFileStorage.cs` 38-48 |
| own subscription | `RequestMe`, `Admit`, `Subscribe` | `GetMySubscription.cs` 31-34 |

`Fail` ends any request at any await. `Reassign` changes a record in the register and
`Tick` the second. A request its first query refuses (404, 403, 400) changes nothing and
is not a step. The JSON columns are functions from tools; a missing key is `Blank`, or
score 0, which is all the handlers tell apart. A save sends any pair of inputs and
scores in `Body`, also pairs that do not belong together, because the clients do
(`AssessmentClients`). Of a project's columns the model keeps those the rules read; the others
are written like `city`.

### The clients of an assessment

| Module | Models |
|---|---|
| `AssessmentClients` | the assessment page of the web application (`AssessmentWorkspace.tsx` with the queries of `lib/queries.ts`) and the checklist screen of the mobile application (`checklist.tsx`), over the server's save |
| `MCAssessmentClients` | instances for TLC |

`row` and `found` are the stored assessment. `page[c]` is a page: what its query holds
(`data`) and a fetch under way will bring (`coming`), the reports of the checklists
opened since it was mounted (`opened`, `input`, `result`), the open checklist with what
it shows, and the save under way. `phone[c]` is a screen: its tool, everything as it
was loaded, what the editor shows, its loads and its save. `orphans` are saves whose
sender has gone.

| Action | Code |
|---|---|
| `Visit`, `Refetch`, `Fetched` | `useAssessment`; `AssessmentWorkspace.tsx` 110-120 |
| `Open`, `Edit`, `Close` | 130-143 `handleResult`, 308-361 the checklist under the cards |
| `Save`, `Answer` | 150-172 `handleSave`, `useSaveAssessment` with its refetch |
| `Leave` | the component unmounts; the query cache stays |
| `Focus`, `Refocus`, `Loaded` | `checklist.tsx` 36-58, `load` on focus |
| `Type`, `PhoneSave`, `PhoneAnswer`, `PhoneLeave` | 71-95 |
| `Arrive` | a save reaches the server after its sender has gone |

The score of a checklist is a function `ScoreOf` of its inputs: the formulas are left
out, and the climate does not change. `Mishaps` names what may go wrong: a load fails
and the client shows itself empty (`load`), a page starts from the query cache, which is
fresh for 30 s (`cache`), a save fails or its answer is lost (`save`). `Alone` says that
the user closes one client before opening another.

A save is one step at the server here and several in `ProjectWorkspace`; both use
`Saved` of `AssessmentRules`, so one merge rule stands under both.

### The checklists

| Module | Models |
|---|---|
| `ChecklistScoring` | `assessment-core`: building group, the tags and rows a group leaves out, targets and limits of the climates, the six scorers |
| `ChecklistReports` | what the printable reports list, how they judge a row, and the totals of the two envelope reports |
| `WebChecklists` | the six components of the web application: their own scores, their handlers and the effects that follow them |
| `PhoneEditors` | the five editors of the phone, over the shared scorer |
| `ChecklistEditing` | one checklist filled in with either program in turn |
| `MCChecklists` | small catalogues and buildings for TLC |
| `ChecklistEditing_proofs` | the theorems: the three implementations agree for every catalogue |

`input` is the details of the open checklist, `facts` what the project says of the building,
`client` the program that shows it. An action is one handler with the effects it sets off
(`WebAnswerRow` ... `PhoneWindows`); `Reopen` takes the details through JSON
(`StoredNumber`: NaN is written as null) and through the mount of the other program; `Refetch`
brings other facts. `Score` is what the program shows, `ScoreTool` what the shared library
says, `ReportScore` what a report prints. Numbers of the code that are no integers are kept as
integers of a smaller unit, and `Rounded` rounds where the code does.

### The report engines

| Module | Models |
|---|---|
| `QueryDates` | calendar, weeks and relative dates of both engines (`engine.ts` 55-195, `QueryEngine.cs` 201-217, 365-400) |
| `QueryExpressions` | the evaluator of calculated fields: shunting yard, stack, functions, over exact fractions |
| `QueryEngine`, `ServerQueryEngine` | the operators of `runQuery` and of its C# counterpart |
| `ReportQueries` | one query stage by stage (`Filter`, `Calculate`, `Group`, `AggregateRows`, `Sort`, `Cut`), and a click that opens the drill-down (`Click`) |
| `MCReportQueries` | small datasets and reports; expression trees, the texts they are written as and what they mean |

`data` and `def` are what is asked, `rows`, `buckets`, `out` and `groups` what `runQuery` has in
its locals; a row that cannot be computed throws out of the whole query (`failed`). A cell is NULL, a number or a
text; texts are sequences of numbers, ordered as the strings are. Each engine compares in its own way: the browser
with the operators of JavaScript (`JsLess`, `JsAtMost`, and `===`), the server with `CellEquals` and `CompareCell`, which take
every text that `TryToDouble` reads for a number (`QueryEngine.cs` 274-291, 763-786). Which texts read as numbers (`Numerals`,
`ServerNumerals`) and which text contains which (`TextTest`) are constants. A drill-down pins the clicked value with the operator its
report gives (`drillOperator`), and with `eq` where it gives none (`drilldown.ts:21`).

### The panels and their caches

| Module | Models |
|---|---|
| `QueryCache` | one entry of TanStack Query as the panels configure it (external) |
| `PanelPages`, `WorkspacePages` | every page of the content panel, and of the admin, analytics, MunSanandaj and web front ends: the keys it reads, what its forms copy from and when, what each write drops |
| `PanelTours` | a person between two pages of one front end: `Arrive`, `OpenForm`, `Send`, `Commit`, `Refuse`, `RefuseTheRest`, `LoseAnswer`, `ReadTable`, `Return`, `Answer` |
| `MCPanels` | all journeys: every page that writes a table with every page of the front end that shows it |
| `PanelTours_proofs` | the theorems about them, and that the pages fit |

A row has two columns, each the number of the write that set it last, so that an older value
is seen to come back. A write is of one of five kinds: a form or a shown row sent whole, a field or a set of rows
sent by itself, and one that reads its list anew, finds the row and saves it whole after the await
(`useSetUserActive`, `useSetTenantStatus`: `SetOne` reads the field it changes, `Find` the other). `Forgotten` lists the pairs of a table and an entry that the code does
not drop when the table is written; they are the exceptions of both properties, and nothing
outside the list may need one.

### The screens

| Module | Models |
|---|---|
| `PlatformForms` | one text field of one of seventeen forms: its limit, whether it is asked for, what is sent for it (trimmed, null, as it is), and the validator behind |
| `NewsAttachments` | `AttachmentUploader.tsx`: several uploads between renderings, over several openings of the drawer |
| `ReportScreens` | `useAskAi.ts` with its sequence numbers, and `ReportViewer.tsx` with its cancelled effects |
| `MobileSession` | `api.ts`, `tokens.ts`, `oidc.ts` and `auth-context.tsx` of the phone |
| `BrowserSession` | the redirect to the identity provider and back, the storage of each of four applications, guards, menus, page links and the switcher between applications |
| `PublicSite` | the panel's commands on the tables that links name, the composed read in three parts (slides, news, tab groups), and the pages of the public site with their links |
| `MCScreens` | the six side by side (`scene` chooses which is in use; the two of `ReportScreens` are two scenes) |

In `MobileSession` a pair of tokens is the number of its grant. `Unauthorized` joins the refresh
that is under way or starts one; `Redeem`, `KeepTokens` or `DropTokens`, `StoreAccess` and
`StoreRefresh` are its steps; `Kill` ends the application between any two of them, and `Start` reads what the
store has. In `BrowserSession` the effect of the callback is rendered more than once, and
`callback.ran` is the ref that keeps it from exchanging the code again.

Every opening of the drawer resets the form (`FormDrawer.tsx:58-61`), which mounts a new uploader. `latest[o]` is
the list of the uploader of opening `o`, to which its uploads still append when it is no longer shown; what they
append becomes the form's list all the same, and `late` remembers that it happened. In `PublicSite` the items of
tab groups hold the address of an article as a text, as the seeder writes them (`KurdnezamSeeder.cs:550-576`);
`items` is the set of articles so named.

### The identity provider

| Module | Models |
|---|---|
| `OneTimeCodes` | `OtpService` call by call over the keys `code`, `attempts`, `cooldown` and `sends`, with their lifetimes |
| `UserAdministration` | `AdminController` and `ServiceAccessStore` call by call over the stores of ASP.NET Identity |
| `MCIdentityProvider` | the two side by side |
| `IdentityProvider_proofs`, `Screens_proofs` | the theorems about these and about the screens |

`otp[s]` and `req[d]` are the requests being served, each with what it keeps between two calls:
the code and the counter it has read, the stamp its user was found with, the roles or the rows
it has read. ASP.NET Identity refuses a save of a user whose stamp has changed (`Fresh`); the
roles are removed in one save and added in the next; the fields of an update are saved one after
another; service access is replaced in one transaction that fails when a row it read is gone.
`SaveFails` ends a request at any save. `undisturbed` and `alone` are history variables: whether
requests have come one at a time so far.

## 3. What the runs check

Two kinds of runs: those that pass, and two that show that the code does not do what a
document or a test of the repository says (section 5).

| Run | Instance | Shows |
|---|---|---|
| `munsync_overlap` | 2 reports, a timer and a manual run of the report worker, 2 runs, every fault | `TypeOK`; `RunAccounting`: counters agree with the log whenever the database can be read; `ReportSuccessIsStored`; `UnlistedIsStored` |
| `munsync_serial` | 1 report, 1 engineer, one slot per worker, 3 runs, fair, every fault but an unconfirmed answer | `DeliveredIsFinal`: a delivered report is never submitted again; `EveryRunEnds`: a run ends, or waits for the image of its map for ever; `DeliverySpec`: `MunSync` implements `ReportDelivery` |
| `ws_tabs` | 1 user, 2 tabs: one saves, updates and prints, the other imports and deletes; 1 imported record, 2 projects, every fault | `TypeOK` (rows refer to rows that exist), `RowsHaveObjects`, `NeverAssignedStaysBlank`, `RowCoherent`, `NoDuplicateImports` |
| `ws_users` | 2 users, one request each at a time, every kind of request, every fault | `BookSpec`: `ProjectWorkspace` implements `ProjectBook` |
| `clients_turns` | 1 page, 1 screen, 3 tools of which one is locked, 3 inputs, one client at a time, saves may be lost | `ScoredOrBlank`: no score beside other inputs; `SentIsShown`; `OthersKeepTheirScores`: only tools opened in this visit change their scores |
| `checklists` | each of the six checklists, both programs, three buildings, three edits | `WebScoreIsShared`: the page's own score is that of the library; `DependentsFollow`: group, system rows, resistances and answers that are off follow what they are derived from; `ReportsAgree`: a report says the same of complete details; `ReopenKeepsScore`: opening again, in either program, changes no score |
| `queries` | every dataset of up to three rows over six; grouped, drilled (also with an operator of their own), filtered (also by what the filter bar sends) and sorted reports; every expression tree of a small depth | `TotalsAddUp`, `WeeksFollowTheCalendar`, `ExpressionMeansItsTree`, `DrillShowsItsGroup`: a drill-down shows rows under the filters of the report it opens, those of its group alone with `eq`, and all of those with another operator that holds of a value and itself; `EnginesAgree`: the C# engine gives the same on the reports both read alike (`Shared`) |
| `panels` | every journey of five front ends, two writes each, any order of commits, answers and reads, refusals, torn writes, lost answers | `OwnChangesAreShown`, `OwnChangesStay` |
| `screens` | every form against its validator; 3 files, 2 openings; 3 questions; 2 changes of a filter; 3 calls over 3 pairs of tokens and a kill; a browser for a person of no role, of each single one and of some pairs; 3 news and 2 changes of the tables | `FormsFitTheServer`, `UploadedFilesAreKept`, `ErrorIsOfTheLatest`, `ComputedIsWanted`, `RefreshTokenUsedOnce`, `SignInTakesOneClick`, `LinksLeadSomewhere`, `CallsFinish` |
| `idp` | 2 requests at a time; 4 requests of a phone number over 3 ticks, caps of one, restarts; 3 requests of 2 administrators on 3 users, faults at every save | `SendsAreCapped`, `GuessesAreCapped`, `SupersededCodesAreRefused`; `AnAdministratorStays`, `SuccessMeansDesired` |

The unrelated parts of `screens` and of `idp` share a run and no variable: a state of one is
never multiplied by the states of another, because `scene` is chosen at the start.

**Bounds.** Tables, clocks and histories grow, so `MaxRuns`, `MaxProjects`, `MaxReports`,
`MaxSecond`, `MaxEdits`, `MaxLayers`, `MaxAnalyses`, `MaxWindows`, `MaxWrites`, `MaxOpenings`,
`MaxAsks`, `MaxChanges`, `MaxDrills`, `MaxGrants`, `MaxKills`, `MaxNews`, `MaxTime`, `MaxArrivals`
and `MaxRequests` bound them, in the guards of the actions that count.

- *Server.* Every hazard listed needs at most two requests, and two actors on one row: two slots
  suffice for any race between them. Two runs of the sync are needed for a retry after a failure and three for a
  retry after a delivered attempt; two reports make a run fail between rows. One engineer takes the map worker
  through the addEngineer protocol and its failures; that the counters hold however many
  there are is proved. One section is never given by the register and so separates editable
  from locked tools; the four bodies are nothing, each tool alone, and a score without its
  input; the two cities are in different climate zones. Importing twice and deleting one
  project while working on another need two projects.
- *Clients.* In `clients_turns` two inputs have one score, so that a client that compares scores is
  caught, and two tools are editable, so that one may be changed while another should stay.
  Nothing is cached or lost on load there: those mishaps break `OthersKeepTheirScores`
  (section 5), and the other properties are proved with them.
- *Checklists.* The catalogue has a row of each type, one that a group leaves out, one for each heating
  system, and numbers at, above and below each limit; the buildings are in three groups and
  two climates; materials have a conductivity, a resistance, or both. Three edits answer a row,
  change what it depends on, and open it again.
- *Queries.* The six rows miss each cell once, have amounts whose order as text is not that as
  numbers, and days at the turn of two years whose weeks belong to the other year. Three rows make
  a group of two beside another.
- *Panels.* Two writes are needed for the second to carry the first one's old row. Entries do not
  depend on each other, so that a journey follows one and the one its form copies from.
- *Screens.* The lengths of texts are those at which a limit of a form or a validator changes,
  with and without a space. Three uploads end in any order; three questions leave a late call of the first two;
  three pairs of tokens are one that expired, its successor and a new sign-in's. There is one page of the organisation instead of
  five. Two news of a payload and three published show one that is cut off; the site starts with an item of a tab group whose
  article is already gone. A person may have no role, any single one, or one of three pairs (`MCClaims`), and no grants or one of
  two pairs of services; the theorem is about all sets of both.
- *Identity provider.* The caps are one and the hour two ticks, so that a counter may run out before the
  thing it counts; four arrivals are two codes and two verifications, or three sends. Slots, desks and the
  first two administrators are alike (`SYMMETRY`; every property treats them alike, and none is temporal).

The theorems of section 4 do not depend on any bound.

**Fairness.** Two properties need it. `EveryRunEnds`: weak fairness of the steps of each slot of the sync except
`Prepare`. The municipality has 120 s, a query the driver's command timeout, a cancelled token ends any wait, and a slot waits for
no other slot. `Prepare` asks for the PDF, which has 60 s, and then waits for an external `pdftoppm` without
a timeout (`MunSanandajPdfFetcher.cs:60-63`): it may take for ever, and the property says that a run ends unless
it stays there. Starting a run, cancellation and crashes are not fair. `CallsFinish`: weak fairness of `SessionStep` of each call of the phone - the
answer or the failure of its request, and the steps of a refresh it started, each of which the
platform ends. Signing in and out, new calls, expiry and kills are not fair. A call that waits for
the shared refresh has no step of its own: that it goes on when the refresh ends is what the property is about.
The other models have no liveness property: a request that does not end leaves nothing behind
that another would wait for.

**Deadlock** is not an error where a bound or an idle system ends a behaviour, and the
configurations say so (`CHECK_DEADLOCK FALSE`). In `clients_turns` a client can always act, and
there the test stays on.

## 4. What is proved

For all values of the constants that satisfy the assumptions of the modules (`MunSyncAssumption`,
`RulesAssumption`, `WorkspaceAssumption`, `ClientsAssumption`, `OtpAssumption`, `AdminAssumption`,
`UpdatesAssumption`, `ReportScreensAssumption`, `SessionAssumption`, `FormsAssumption`, `BrowserAssumption`,
`SiteAssumption`, `ToursAssumption`, ...), which type the constants and say little more: `ImportCity` is a city, the
administrators are users, the user to be created is none of them, an update has a field, a lifetime and a cap are
not zero, a person who signed in is somebody, and a text that is typed is shorter than a field without a limit takes.
Of the catalogues of the checklists (`RowsAssumption`, `GlazingAssumption`, `CatalogueAssumption`): one row asks for the
heating system (`mechDb.ts:14`), limits are positive, presets name materials and glazings there are. `StartAssumption`: the details a checklist
is first opened with are the clean ones of either program, or such as they may have stored. `QuestionAssumption`: a
dataset is a list of rows whose days are dates of the calendar, or missing; `TextTestAssumption`: a text contains itself, begins with
itself and ends with itself; `DefinitionAssumption`: the flat filters of a report are a list,
and a drill-down with a target opens a report.

| Theorem | Module | States |
|---|---|---|
| `TypeCorrect` | `MunSync_proofs` | `Spec => []TypeOK` |
| `RunAccountingHolds` | `MunSync_proofs` | `Spec => []RunAccounting` |
| `ReportSuccessHolds` | `MunSync_proofs` | `Spec => []ReportSuccessIsStored` |
| `UnlistedHolds` | `MunSync_proofs` | `Spec => []UnlistedIsStored` |
| `Implements` | `MunSync_proofs` | `OneSlotEach` implies `Spec => DeliverySpec` |
| `DeliveredIsFinalHolds` | `MunSync_proofs` | `OneSlotEach` implies `Spec => DeliveredIsFinal` |
| `TypeCorrect` | `ProjectWorkspace_proofs` | `Spec => []TypeOK` |
| `RowsHaveObjectsHolds` | `ProjectWorkspace_proofs` | `Spec => []RowsHaveObjects` |
| `RowCoherentHolds` | `ProjectWorkspace_proofs` | `OneSaver` implies `Spec => []RowCoherent` |
| `NeverAssignedHolds` | `ProjectWorkspace_proofs` | `NoEmptyList` implies `Spec => []NeverAssignedStaysBlank` |
| `NoDuplicateImportsHolds` | `ProjectWorkspace_proofs` | `OneImporter` implies `Spec => []NoDuplicateImports` |
| `BookImplemented` | `ProjectWorkspace_proofs` | `OneTabEach` implies `Spec => BookSpec` |
| `TypeCorrect` | `AssessmentClients_proofs` | `Spec => []TypeOK` |
| `ScoredOrBlankHolds` | `AssessmentClients_proofs` | `Spec => []ScoredOrBlank` |
| `SentIsShownHolds` | `AssessmentClients_proofs` | `Spec => SentIsShown` |
| `OthersKeepTheirScoresHolds` | `AssessmentClients_proofs` | `TakesTurns` implies `Spec => OthersKeepTheirScores` |
| `EditInvHolds` | `ChecklistEditing_proofs` | `Spec => []EditInv`: details of their type, consistent with themselves and with the facts |
| `WebScoreIsSharedHolds` | `ChecklistEditing_proofs` | `Spec => []WebScoreIsShared` |
| `DependentsFollowHolds` | `ChecklistEditing_proofs` | `Spec => []DependentsFollow` |
| `ReportsAgreeHolds` | `ChecklistEditing_proofs` | `Spec => []ReportsAgree` |
| `ReopenKeepsScoreHolds` | `ChecklistEditing_proofs` | `Spec => ReopenKeepsScore` |
| `OwnChangesAreShownHolds` | `PanelTours_proofs` | for the journeys of `AllTours` and the pairs of `MCForgotten`, `Spec => []OwnChangesAreShown` |
| `OwnChangesStayHolds` | `PanelTours_proofs` | for the same, `Spec => OwnChangesStay` |
| `UploadedFilesAreKeptHolds` | `Screens_proofs` | `Spec => []UploadedFilesAreKept` |
| `ErrorIsOfTheLatestHolds` | `Screens_proofs` | `Spec => []ErrorIsOfTheLatest` |
| `ComputedIsWantedHolds` | `Screens_proofs` | `Spec => []ComputedIsWanted` |
| `RefreshTokenUsedOnceHolds` | `Screens_proofs` | `Spec => []RefreshTokenUsedOnce` |
| `FormsFitTheServerHolds` | `Screens_proofs` | `Spec => []FormsFitTheServer` |
| `SignInTakesOneClickHolds` | `Screens_proofs` | `Spec => []SignInTakesOneClick` |
| `LinksLeadSomewhereHolds` | `Screens_proofs` | `Spec => []LinksLeadSomewhere` |
| `SendsAreCappedHolds` | `IdentityProvider_proofs` | `Spec => []SendsAreCapped` |
| `GuessesAreCappedHolds` | `IdentityProvider_proofs` | `Spec => []GuessesAreCapped` |
| `SupersededCodesAreRefusedHolds` | `IdentityProvider_proofs` | `Spec => []SupersededCodesAreRefused` |
| `WeeksFollowTheCalendarHolds` | `ReportQueries_proofs` | `Spec => []WeeksFollowTheCalendar` |
| `DrillShowsItsGroupHolds` | `ReportQueries_proofs` | `Spec => []DrillShowsItsGroup` |
| `TotalsAddUpHolds` | `ReportQueries_proofs` | `QuestionsAreAdditive` implies `Spec => []TotalsAddUp` |
| `EnginesAgreeHolds` | `ReportQueries_proofs` | `QuestionsArePortable` implies `Spec => []EnginesAgree` |
| `BucketsAgree` | `ReportQueries_proofs` | both engines put every date into the same bucket, `ServerDateBucketKey(d, b) = DateBucketKey(d, b)` |
| `SuccessMeansDesiredHolds` | `IdentityProvider_proofs` | `Spec => []SuccessMeansDesired` |
| `AnAdministratorStaysHolds` | `IdentityProvider_proofs` | `Spec => []AnAdministratorStays` |

Nine theorems have a hypothesis on the constants besides. Seven say who is at work: `OneSaver` and `OneImporter`, one
tab of a user that saves or imports; `OneTabEach`, one tab of a user for everything; `OneSlotEach`, one run of each worker at a time; `TakesTurns`, one client open
at a time whose loads do not fail; or what the register gives: `NoEmptyList`. The runs `munsync_sent_twice`,
and the variations of section 5, show that none of them can be dropped. The two theorems about panels name the pages
they are about. The eighth is `QuestionsAreAdditive`: a report that groups and totals gives every total, count and calculated field a
name of its own, over fields the dataset has, and the rows hold a number, or nothing, under a numeric
field and no text that reads "null". The builder does not enforce the first half: under one alias the later of two
metrics overwrites the earlier (`engine.ts:352`), and a text "null" shares a bucket with no text at
all. The ninth is `QuestionsArePortable`: the month that a relative date counts to has the day (the browser's
runs into the next month, the server's takes the last day; the demo clock both are pinned to is the first of
a month), no operator of an expression goes without an argument (the browser computes NaN, the server
null) and no bracket stays open, a report is sorted by a field, a metric or a calculated field it has, a field
holds numbers, dates or texts as its type says, or nothing, and again no text reads "null". What the filters of a report may compare
with is part of the property itself (`Shared`): a value of the type of its field, and for a text or a date one that
the server does not read as a number. `MCReportQueries` evaluates both hypotheses for the reports of the run.

*Run accounting.* The invariant of the tables is not inductive: the counters live in the
tracked entity first and in the table later. The strengthening says for each active job
that its counters, less the unsaved log row, are those of the log, and that no two
active jobs track the same run row. `SaveChanges` then moves both sides together, and a
failed one moves neither.

*Stored.* For each job in `mark`, or in `log` with result Success, the municipality has the
report. It holds because a parser only returns Success for an answer that confirms
the submission (`Honest`, the assumption about the municipality that `MunGateway` states
by the set of outcomes), and because nothing decreases `stored`.

*Delivery.* `DeliveryInv` says that a run at work on a report has not delivered it before (`Fresh`): it looked at the
log when it picked the row, and with one slot for each worker nobody has written that worker's log since. A
Success row of a map is about a stored map where the municipality confirms its answers (`MapHonoured`). A
step is then one of `ReportDelivery` under the refinement mapping: only `Send`, `AddEngineer` and `SaveRow` change
what it promises about, and each delivers once what was not delivered.

*Objects.* `StorageInv`: a request in `record` has its key in `objects`, and objects are never
removed. Deleting a project only removes rows.

*Coherence.* A row written as a whole is coherent. A column-wise update is coherent only
over the row it was computed from, so the invariant adds `SavesKnow`: a save in flight
still sees the row it read, or the row is gone. Only another save could break it, and
`OneSaver` excludes that; deletes, cascades and re-imports do not.

*Never assigned.* The invariant follows the section list through the protocol: each
list a project or a request holds for a record is one the register may give
(`ListsKept`), and no save in flight carries a value for a tool outside all of them
(`AssignedJob`). A re-import between the read and the write of a save changes which
tools are locked, but never to one outside the union.

*Imports.* An import on its way to its insert found no project of the record (`Missing`). Only an insert by the
same user adds one, and `OneImporter` leaves nobody to do that; updates and re-imports keep the owner and the record of
a project, and deletes only take projects away.

*Book.* `BookInv` says of each request what it has read, as far as its write needs it (`Sees`): the project it works on is
its user's (`Working`), a new one is what `ProjectBook` would add (`Comes`), the columns an update or a save leaves out are
those that already agree (`Updates`, `Saves`), and what a report prints is what is stored (`Prints`). With one tab for
each user a step leaves the projects of everybody else as they are (`Untouched`), so they still see what they saw
(`SeesStill`), and the request itself writes over the rows it has read. Then each write is the step of
`ProjectBook` of its name, a report at its `Record`, and every other step a stutter.

*Clients.* What is stored is made of what was sent, and that of what was loaded and
reported, so `IInv` demands the same of every copy: of the stored row, the query data,
what is still coming, every save under way and every orphan, that each tool has a score
that goes with its inputs, or no inputs (`Paired`); of a page, that what it reported
goes together and that the open checklist was reported last with what it shows
(`Reported`). The merge of the server takes the inputs and the score of a tool from the
same side (`WriteKeeps`), and each body is made of two records in order
(`PageBodyPaired`, `PhoneBodyPaired`). `Blank` cannot be dropped from `Paired`: see
`clients_reload`.

*Checklists.* `EditInv` says what the programs make of the details they show (`Good`): they are of their type; a table that
was filled in has a row for each limit, the rows that are off are those of the other heating system, and a layer has the
conductivity or the resistance of its material (`Consistent`); the group is that of the present facts, an
envelope has an analysis or a window to show, and on the web an integrated management that is off has no answers. It
is inductive: one lemma for each handler of either program (`...Good`), one for the store (`StoredMade`) and one for
each mount (`OpenedGood`). Of details that are `Good` the three implementations agree row by row, and
their sums are sums of equal functions, which need not be opened (`WebShared`, `Reported`); `DependentsFollow` is
part of it; and what either program opens is what it showed, but for the activation (`OpenedKept`).

*Turns.* With one client at a time whose loads do not fail, whatever a client holds of a tool it did not touch - what
it loaded, what is still coming, what it is sending - has the score of the stored row (`TurnsInv`). A save that agrees
with the row on a tool changes nothing about it (`AgreedStays`), and a client that closes leaves nothing under way
but an orphan, which the property excepts.

*Panels.* The proof has two halves. The first takes the pages as they come: if every write drops every entry
that shows what it changes, every form copies from what its page reads, and a page whose form is filled unasked sends no
single field beside it (`PagesFit`), then `IInv` is inductive. An entry that is taken for current has what the
server has, unless a write is done whose answer will drop it (`Good`); an answer under way was read after
every commit, or is marked as raced; a form that was current when it was filled is behind neither the server nor a
write on its way (`FormInv`); a write that is current is alone and nothing in it is older than what is stored
(`WriteInv`). The second half goes through the thirty-five pages (`LandingFits` ... `WebFits`), compares what each
write drops with what each answer is made from, and needs no exception but `MCForgotten` (`PagesOfTheCodeFit`).

*Forms.* Where a form has a limit it is no longer than the maximum behind it, but for the fields that `LimitedByTheServer`
names; and what the validator asks for the form asks for, but for `AskedForByTheServer` (`FormsFit`, field by field
of seventeen forms). A field asked for without `whitespace` takes nothing but spaces, which are trimmed away and refused. The
rest is `FormsInv`: what was typed is within the limit, and what is stored was taken by the validator and is sent again as it is.

*Sign-in.* `OneExchange`: the code is exchanged only on the callback page, once, and who is signed in is on neither
the login nor the error page. The ref keeps a second rendering of the effect from starting another exchange.

*Links.* `Trail` says that a user or a session of an application belongs to a person the application
lets in, so that the page a link leads to is one their guard shows; each link of each menu is then checked against
the routes. On the public site `ServerInv` and `VisitorInv` say that a payload that was not torn has the articles of
its slides, and of the items of its tab groups whose articles there still are, or a full page of news, and that the carousel stands on a slide it has. The first article of a category
is the least of a set of numbers, which `WellFoundedInduction` provides without a recursion.

*Uploads.* `FilesInv`: as long as no upload of an earlier opening has ended in this one, the list that the handlers of the
uploader shown append to is the one the form would send; the list it was rendered with may be behind it
but is never longer; and a file was not picked in an opening that is still to come. Taking one file out of a list keeps the others (`RemovingOne`).

*Report screens.* `AskInv`: of each question there is one call at a time, and none of a question
that was not asked. `ViewerInv`: a run that is not cancelled is for the filters on the screen
(`Root(viewer.live)`). That a phase "computing" belongs to the latest question, and a shown result
to the filters that are shown, follows.

*Refresh tokens.* `OneUse` says which tokens are unused: the one a refresh is asking with, the one just
given, the one in memory (unless a refresh has been granted and not yet been kept), and the one
a restart would read. It holds unless the store is `torn`, which only a kill between its two
writes leaves behind. `SessionTypes` adds that at most one refresh is under way, since a
refused call joins it, and none while the application starts.

*Caps.* As long as requests come one at a time, the counter of sends is in the cache until an hour after every
message of the hour, and counts at least the messages since (`SendsCounted`); a request that is about to send has
read it (`Asked`). The messages in the hour that any one message opens are then at most the cap. The counter of guesses outlives the code it
is about, because every wrong guess writes it anew and a code is never given a new life (`CountsCover`,
`CodeIsYoung`); a verification between the two has read a counter below the cap (`Verified`).

*Codes.* `CodesInv`: the cached code was drawn and is not dead; a verification never holds a code
that was dead when it arrived; and what was dead then is dead now. A code that became dead in
between may still be accepted: the property speaks of codes that were dead before the
verification began.

*Administration.* `AdminInv` says what each request relies on as long as the row is the one it was found with
(`Consistent`, `Expected`): the roles it has read are those of the row, what it has added
so far is what was asked for, the fields it has saved are still there. Every save of the row
raises its stamp (`RowsMove`), so that whoever else is in the middle of a request loses the
row (`OneRequestMoves`), and a success is told only by who has it.

*The last administrator.* `StaysInv` adds, as long as requests come one at a time, that nobody else is
served, and that a request about to take an administrator away has another one to leave
(`Covered`). Both the count and the save of the roles keep it; two requests at a time do not
(section 5).

*Weeks.* The rows of a dataset never change, so what is to be shown is about two dates. Years grow and every day lies
in one of them (by the least-number principle), which gives `YearOf` its value; the Mondays of a year are whole weeks
from the Monday of its first week, and the Thursday of a later Monday lies in no earlier year: the key of a week,
year and number, grows with its Monday (`WeeksInOrder`). The server takes the year from the date of the
Thursday instead; `DateOfDay` says that a day has the date with its number, so both have the same key.

*Drill-downs.* `DrillInv` ties the definition being run to the one that was clicked and the rows after the filter stage
to both. What opens is the report's own definition, or its target, with one filter more (`OpensOneMoreFilter`), so it shows rows of that
report alone, whatever operator the drill-down has. With `eq` the filter keeps the rows with the value (`PinnedKeepsItsRows`), which for a
text or a number, or a date by the day, are the rows of the bucket; with another operator that holds of a value and itself (`gte`, `lte`,
`contains`, `startsWith`, `endsWith`) it keeps them and maybe more (`PinnedLosesNone`). Of an operator that holds of no value and itself (`lt`,
`neq`), of buckets that are not a value, and where a nested group replaces the flat filters, the property says nothing more.

*Totals.* `TotalsInv` ties the variables of every stage to the stage before it: the rows after the filters, those
rows with their calculated fields, the buckets. The totals themselves need an induction over the dataset. The library's
induction takes an operator for a parameter, which the provers cannot instantiate, so it is
stated with a set of naturals instead, and every loop of the engine that adds up is a recursive
function over prefixes. Two recursions that start alike and step alike are equal; a row whose calculated
fields are added keeps the fields it had (`Keeping`); sums of fractions in lowest terms associate and commute. One more row raises the
metric of its own bucket by what it raises the metric of all rows by, and leaves the other buckets, whose key texts differ, as they were; so the
metrics of the groups, added up, are the metric without groups.

*Engines.* `AgreeInv` ties the rows of every stage, up to the page, to the dataset: they are what the browser's stages make
of it, and no row threw. For a report that both read alike (`Shared`) the server's function is then equal to that stage by
stage. Each filter keeps the same rows (`FilterAlike`), although the two compare
differently: a number is no text in either, and numbers are ordered alike (`NumbersCompareAlike`); a text that is compared with one
that the server reads as no number is compared as a text (`TextsCompareAlike`). An expression has the same postfix; what the yard puts out are tokens it took in
(`PostfixTokens`), so the two stack machines run side by side with stacks of the same height (`StepAlike`,
`DepthIsCount`), and a calculated field that does not throw in the browser has the same value (`CalcsAlike`). The keys
of the buckets differ, text in the browser and values in the server, but tell the same rows apart (`ReadAlikeKeys`),
so the buckets stay twins as rows join them (`Twins`, `BucketsAreTwins`). The keys of the order have a first one among those that
tell two rows apart, and it is the same one (`FirstKey`, `PrioritiesAlike`): the two compare any two rows alike
(`RowsAlike`), and what sorts alike is cut alike.

**TLC alone** checks `EveryRunEnds` and `CallsFinish`, which are liveness under fairness: the prover does not
support it. It also checks alone `ExpressionMeansItsTree` of `queries`, which is about every tree of a small
depth and the tokens it is written with. Where the checklists add numbers up (`SumR`, `SumFunction`) the theorems compare sums of equal
functions and say nothing of their values.

## 5. Where the code and its documents disagree

Two runs end with a counterexample; `PROJECT.json` quotes the lines.

| Run | Property violated | In short |
|---|---|---|
| `munsync_sent_twice` | `ReportSentOnce` | a manual run during a timer run submits a report twice |
| `clients_reload` | `InputsBehindScores` | a page that is opened again and saved erases the inputs of the tools that were not opened, and keeps their scores |

**Variations.** A change of a configuration shows what other hazards do. Each line below was run:
take the configuration, make the change, check the one property, and TLC ends with a
counterexample. `file:line` is where it comes from (paths under `src/`).

| Configuration | Change | Property | What TLC finds |
|---|---|---|---|
| `munsync_overlap` | | `RunsAreClosed` | a cancelled run saves its end with the cancelled token and says Running for ever (`src/Infrastructure/MunSanandaj/MunSanandajSyncService.cs:112`; the design of 2026-07-02, line 211, says the run is closed) |
| `munsync_overlap` | | `StoredIsLogged` | a submission whose answer is lost leaves no row |
| `munsync_serial` | | `UnlistedIsLoggedByBoth` | the report worker takes a report from the list before the map worker has seen it (`MunSanandajSyncService.cs:140`) |
| `munsync_serial` | `Faults = {"odd"}` | `AnswersFailRowsOnly` | an answer that is JSON of another kind fails the run, not the row |
| `ws_tabs` | `KindsOf <- Saves` | `RowCoherent` | two saves mix their columns (`src/Application/Assessments/Commands/SaveAssessment/SaveAssessment.cs:80`) |
| `ws_tabs` | `KindsOf <- Imports` | `NoDuplicateImports` | two clicks import a record twice (`ImportProject.cs:57`; its comment at 52-53 says the existing project is returned) |
| `ws_tabs` | `Lists <- EnvThenNone` | `NeverAssignedStaysBlank` | a record without sections is unrestricted instead of locked (`SaveAssessment.cs:91`) |
| `ws_tabs` | | `GatingHolds` | a save writes a tool that a re-import has just locked |
| `ws_users` | `UserOf <- OneUser`, `User = {"amir"}` | `BookSpec` | two tabs of a user: a step that no operation on its own takes, such as a second import of a record |
| `ws_tabs` | `MaxSecond = 0` | `RowMatchesObject` | two reports in one second share an object |
| `clients_turns` | `Mishaps = {"load"}` or `{"cache"}` | `OthersKeepTheirScores` | a page or a screen that could not load, or shows what it had, sends its empty or old scores of every tool |
| `clients_turns` | `Alone = FALSE` | `OthersKeepTheirScores` | a client undoes what another one saved since it was loaded |
| `checklists` | | `WindowsMatchExactly` | an emptied solar factor passes the scorer and fails the report (`windowsReport.ts:80`; its line 2 says they match exactly) |
| `checklists` | | `ReportNumbersNeverDisagree` | a number that is none is stored as null, and the report counts another score (`checklistReport.ts:2`) |
| `queries` | let a filter of a number compare with a text of `Numerals` (`OfItsType`) | `EnginesAgree` | what is typed into the filter bar for a number is sent as a text (`FilterBar.tsx:52-57`): with `eq` the server finds the rows (`QueryEngine.cs:274-284`) and the browser none (`engine.ts:114`) |
| `screens` | `UploadedFilesAreKept` without `~ late` | `UploadedFilesAreKept` | four states: an upload of an earlier opening of the drawer ends in its own uploader, whose list takes the place of the files of the item that is open now (`FormDrawer.tsx:58-61`, `AttachmentUploader.tsx:62-71`; the comment there says "Appending via a ref keeps every file") |
| `screens` | `SiteLinksLead` without its last disjunct | `LinksLeadSomewhere` | six states: an item of a tab group leads to an article that was deleted; the address is a text, and no foreign key keeps it (`KurdnezamSeeder.cs:550-576`, 584) |
| `queries` | | `FaithfulPort` | the two engines differ on reports outside `Shared` (`QueryEngine.cs:7-9` says it is a faithful port) |
| `queries` | | `ClickOpensItsRow` | a click on a bar of a sorted or cut chart opens the group at the same place of the unsorted list (`RechartsRenderer.tsx:60-61`) |
| `panels` | | `ListsStayFresh` | a list of the table `Forgotten` shows what it showed before the write |

**Read, not run.** Behaviour the models keep as the code has it, which a property has to make room for
(its comment says so) or which none is about:

- *Checklists.* A manual choice of the integrated checklist is replaced when the page is opened again on the
  web; an emptied thickness keeps the resistance it had; the web takes the material "—" for the first of
  the list (`EnvOpaqueChecklist.tsx:404-408`).
- *Queries.* Outside `Shared`, or `QuestionsArePortable`, are: sorting a calculated field (as text in C#), fields without a value, the
  flat table's calculated fields and hidden columns, `filterGroup`, `in`, percentages, halves when
  rounding, and month arithmetic at the end of a month. Clearing the filter bar asks for rows
  whose cell is null and hides every row; the viewer keeps its drill path when the filters change.
- *Panels.* A drawer that is opened again before the list was read copies the old row, and saving it undoes the
  first edit; the dashboard builder does so for half a minute; the draft of a tenant's settings can make a
  suspended tenant active again; `CategoriesPage` (82-91) refuses to delete by a count that is old;
  `useDeleteReport` asks the mock in real mode too.
- *Report screens.* An older `executeReport` overwrites a newer result, although `useAskAi.ts:61` guards
  "against out-of-order responses": the number is not compared after the execution; a drill that was asked for before a new question arrives after it.
- *Phone.* A failed refresh clears the tokens of a sign-in made meanwhile, and a kill between the two writes
  of the store leaves tokens of two grants (`torn`).
- *Public site.* A slide or an item of a tab group leads nowhere when its article is not among the newest hundred, or when it
  was published between two parts of the read; an item also when its article was deleted; links of the
  organisation's fixed pages are dead once the panel has deleted the page, and "the forms" of a unit when there are none.
- *Browser.* The links of `DeadLinks` in `BrowserSession`: menus, cards and the switcher lead some roles to
  pages whose guard refuses them, and `/admin/tenant/quota` has no page. `MenusLead` excepts them.
- *Forms.* What passes a form and is refused by the server. Only the server asks for (`AskedForByTheServer`): the image of a news item or
  a form, the subtitle and badge of a slide, a unit's description, an organisation page's intro, a form's note and
  deadline, all settings but the Persian name and the phones, a project's city, a message's subject. (A slide's image is asked for by its form too.) Only the
  server limits (`LimitedByTheServer`): the date of a news item (30), the address of a link, the slug and title of an
  organisation page (300) or a tab group, the items of one, the settings, a user's address, a project's texts (title 200), and the
  texts of the public forms. Nothing but spaces passes where a form asks without `whitespace`.
- *Identity provider.* Overlapping code requests count as one, and so do overlapping wrong
  guesses: both caps hold for requests one at a time (`undisturbed`). Two administrators who take the role
  from each other at once leave none (`alone`). A fault between the two saves of the
  roles leaves a user with neither the old ones nor the new.

## 6. What is not modelled

- *MunSanandaj*: `MunFieldMapper` (a copy of fields), the layout of PDFs, the read endpoints.
- *Workspace*: query handlers (they change nothing), the columns no rule reads, `MaxScore`, audit columns and
  the download endpoint, which reads `objects` by the stored key.
- *Clients*: `totalScore` as shown (the server recomputes it) and a change of climate while the
  assessment page is open; the checklists themselves are in `ChecklistEditing`, where the facts may change.
- *Checklists*: the real catalogues; labels, notes and summaries of the reports.
- *Analytics*: `SqlQueryEngine` (a translation to SQL, which would need a model of SQL Server to say anything), booleans, labels, dates with a time in a dataset, the tolerance of 1e-12 of
  the server's equality, charts, the layout of dashboards, exports, audit pages and the mock data. What a
  language model answers is not this code's.
- *Public site*: the addresses an editor types for quick links, footer links and items of tab groups, of
  which only those that name an article are followed; layout, search, weather.
- *Panels*: tables with their paging, filters, previews, the upload of single images, polling.
- *Identity provider*: OpenIddict's authorization-code flow, of which `BrowserSession` has what a front end sees; the
  password reset. The web workspace signs in with next-auth, which is not this repository's either.
- *Content system*: the submissions' table, stored files, and two first saves of the settings (a second
  row, which no read takes: both order by `Id`).
- *Without state*: the climate table, PDF reporting, the request pipeline (validation, authorization, logging,
  exception mapping), shared packages, generated types, hosting.
- *External systems* are modelled by how the code uses them: the municipality by the answers
  its parsers distinguish and by what it then has stored, FarsNezam by a section list that
  changes at any time, the storage by a put that succeeds or fails as a whole, TanStack Query by
  the states of an entry that `QueryCache` names, ASP.NET Identity by its concurrency stamp.

## 7. Plan

Done: the sync, the workspace, its clients and checklists, both query engines, the caches of five front ends, the
screens with a protocol, one-time codes and administration. What is left, in this order:

1. **Submissions and settings** of the content system: two first saves of the singleton row, and
   a submission while its form is taken away.

The runs are kept few, one per question: where a theorem's hypothesis, or the exceptions of a property,
make the same point as a counterexample, that counterexample is a variation of section 5.
