--------------------------- MODULE AssessmentClients ---------------------------
(***************************************************************************)
(* The two programs users fill an assessment with, over the save of the    *)
(* server: the assessment page of the web application and the checklist    *)
(* screen of the mobile application.                                       *)
(*                                                                         *)
(* A page holds what its query loaded and, for the checklists opened since *)
(* it was mounted, what they reported; a save sends all tools.  A screen   *)
(* holds all tools as they were when it was focused and edits one.         *)
(*                                                                         *)
(* At the server a save is one step: how saves interleave inside it is in  *)
(* ProjectWorkspace.  The first load of a page or a screen is one step as  *)
(* well, as nothing can be done there before it ends; a later one is not.  *)
(* The project and its climate do not change.                              *)
(***************************************************************************)
EXTENDS AssessmentRules

CONSTANTS
  Page, Phone,  \* the clients that show the project
  Allowed,      \* the sections of the project
  ScoreOf,      \* ScoreOf[i] : the score of a checklist with the inputs i
  Mishaps,      \* what may go wrong: "load", "cache" and "save"
  Alone         \* the user opens one client at a time

ASSUME ClientsAssumption ==
  /\ Allowed \subseteq Section
  /\ ScoreOf \in [Input -> Score]
  /\ Body = [input: [Tool -> Input], result: [Tool -> Score]]
  /\ "none" \notin Tool
  /\ Alone \in BOOLEAN

VARIABLES
  row,      \* the assessment the server has
  found,    \* whether there is one: an assessment was saved
  page,     \* page[c] : an assessment page
  phone,    \* phone[c] : a checklist screen
  orphans   \* saves under way whose sender has gone

server == <<row, found>>
vars == <<server, page, phone, orphans>>

NoBody == [input |-> NoAssessment.input, result |-> NoAssessment.result]

\* data is what the query holds, coming what a fetch under way will make it;
\* input and result of the tools in opened are runtimeResults; shown is what the
\* open checklist shows; sending is the save under way, if there is one.
ClosedPage ==
  [on |-> FALSE, data |-> NoBody, coming |-> {}, opened |-> {},
   input |-> NoBody.input, result |-> NoBody.result, open |-> "none",
   shown |-> Blank, sending |-> {}]

\* all is what the screen loaded, shown the input of its tool; coming holds the
\* loads under way.
ClosedPhone ==
  [on |-> FALSE, tool |-> "none", all |-> NoBody, coming |-> {}, shown |-> Blank,
   sending |-> {}]

Init ==
  /\ row = NoAssessment /\ found = FALSE
  /\ page = [c \in Page |-> ClosedPage]
  /\ phone = [c \in Phone |-> ClosedPhone]
  /\ orphans = {}

-----------------------------------------------------------------------------
Stored == [input |-> row.input, result |-> row.result]
Write(body) == row' = Saved(row, body, Allowed) /\ found' = TRUE

With(f, t, v) == [f EXCEPT ![t] = v]

SetPage(c, p) == page' = [page EXCEPT ![c] = p]
SetPhone(c, p) == phone' = [phone EXCEPT ![c] = p]

\* Nobody else is at work on the project, if the user takes turns.
Free ==
  Alone => /\ orphans = {}
           /\ \A c \in Page : ~page[c].on
           /\ \A c \in Phone : ~phone[c].on

(* The page is mounted.  Its data are fetched; or still in the query cache;
   or, when the fetch fails, there are none and the page is shown all the same. *)
Mounted(data) == [ClosedPage EXCEPT !.on = TRUE, !.data = data]

Visit(c) ==
  /\ ~page[c].on /\ Free
  /\ \/ SetPage(c, Mounted(Stored))
     \/ "cache" \in Mishaps /\ SetPage(c, Mounted(page[c].data))
     \/ "load" \in Mishaps /\ SetPage(c, Mounted(NoBody))
  /\ UNCHANGED <<server, phone, orphans>>

(* The query is fetched again, or for the first time since the page was
   mounted on cached data; what an earlier fetch would bring is dropped. *)
Refetch(c) ==
  /\ page[c].on
  /\ SetPage(c, [page[c] EXCEPT !.coming = {Stored}])
  /\ UNCHANGED <<server, phone, orphans>>

Fetched(c, body) ==
  /\ body \in page[c].coming
  /\ SetPage(c, [page[c] EXCEPT !.data = body, !.coming = {}])
  /\ UNCHANGED <<server, phone, orphans>>

\* Mutant: a result with the score of the last one is taken for the last one.
HandleByScore(p, t, i) ==
  IF ScoreOf[i] = (IF t \in p.opened THEN p.result ELSE p.data.result)[t] THEN p
  ELSE [p EXCEPT !.opened = @ \cup {t}, !.input = With(@, t, i),
                 !.result = With(@, t, ScoreOf[i])]

\* A checklist reports its inputs and its score whenever they change, and once
\* when it is mounted; loaded results have no details, so the first is kept.
HandleResult(p, t, i) ==
  [p EXCEPT !.opened = @ \cup {t}, !.input = With(@, t, i),
            !.result = With(@, t, ScoreOf[i])]

(* A checklist is mounted with the inputs of the query, not with those reported
   before it was closed.  Locked tools can be opened as well. *)
Open(c, t) ==
  /\ page[c].on /\ page[c].open # t
  /\ LET i == page[c].data.input[t]
     IN SetPage(c, HandleResult([page[c] EXCEPT !.open = t, !.shown = i], t, i))
  /\ UNCHANGED <<server, phone, orphans>>

Close(c) ==
  /\ page[c].on /\ page[c].open # "none"
  /\ SetPage(c, [page[c] EXCEPT !.open = "none"])
  /\ UNCHANGED <<server, phone, orphans>>

Edit(c, i) ==
  /\ page[c].on /\ page[c].open \in ResolveAllowedTools(Allowed)
  /\ SetPage(c, HandleResult([page[c] EXCEPT !.shown = i], page[c].open, i))
  /\ UNCHANGED <<server, phone, orphans>>

\* What handleSave sends: the inputs of the tools opened, {} for the others, and
\* the scores of all.
PageBody(p) ==
  [input |-> [t \in Tool |-> IF t \in p.opened THEN p.input[t] ELSE Blank],
   result |-> [t \in Tool |-> IF t \in p.opened THEN p.result[t] ELSE p.data.result[t]]]

Save(c) ==
  /\ page[c].on /\ page[c].sending = {}
  /\ SetPage(c, [page[c] EXCEPT !.sending = {PageBody(page[c])}])
  /\ UNCHANGED <<server, phone, orphans>>

(* The answer of a save, after which the query is fetched again; or its failure,
   which may come before or after the server has written. *)
Answer(c, body) ==
  /\ body \in page[c].sending
  /\ \/ Write(body) /\ SetPage(c, [page[c] EXCEPT !.sending = {}, !.coming = {Stored'}])
     \/ /\ "save" \in Mishaps
        /\ Write(body) \/ UNCHANGED server
        /\ SetPage(c, [page[c] EXCEPT !.sending = {}])
  /\ UNCHANGED <<phone, orphans>>

\* Only the query cache outlives the page.
Leave(c) ==
  /\ page[c].on
  /\ orphans' = orphans \cup page[c].sending
  /\ SetPage(c, [ClosedPage EXCEPT !.data = page[c].data])
  /\ UNCHANGED <<server, phone>>

-----------------------------------------------------------------------------
(* The screen of one tool is opened.  When the assessment cannot be loaded the
   editor is shown empty. *)
Focused(t, all) ==
  [ClosedPhone EXCEPT !.on = TRUE, !.tool = t, !.all = all, !.shown = all.input[t]]

Focus(c, t) ==
  /\ ~phone[c].on /\ Free
  /\ \/ SetPhone(c, Focused(t, Stored))
     \/ "load" \in Mishaps /\ SetPhone(c, Focused(t, NoBody))
  /\ UNCHANGED <<server, page, orphans>>

(* Focused again: everything is loaded again, and replaces what was typed.  A
   load that fails, or finds no assessment, changes nothing. *)
Refocus(c) ==
  /\ phone[c].on /\ found
  /\ SetPhone(c, [phone[c] EXCEPT !.coming = @ \cup {Stored}])
  /\ UNCHANGED <<server, page, orphans>>

Loaded(c, body) ==
  /\ body \in phone[c].coming
  /\ SetPhone(c, [phone[c] EXCEPT !.all = body, !.shown = body.input[phone[c].tool],
                                 !.coming = @ \ {body}])
  /\ UNCHANGED <<server, page, orphans>>

Type(c, i) ==
  /\ phone[c].on
  /\ SetPhone(c, [phone[c] EXCEPT !.shown = i])
  /\ UNCHANGED <<server, page, orphans>>

\* Mutants: only the tool of the screen is sent; the score sent is the loaded one.
OwnToolOnly(p) ==
  [input |-> With(NoBody.input, p.tool, p.shown),
   result |-> With(NoBody.result, p.tool, ScoreOf[p.shown])]
LoadedScores(p) == [input |-> With(p.all.input, p.tool, p.shown), result |-> p.all.result]

\* What onSave sends: everything as it was loaded, but for the tool of the screen.
PhoneBody(p) ==
  [input |-> With(p.all.input, p.tool, p.shown),
   result |-> With(p.all.result, p.tool, ScoreOf[p.shown])]

PhoneSave(c) ==
  /\ phone[c].on /\ phone[c].sending = {}
  /\ SetPhone(c, [phone[c] EXCEPT !.sending = {PhoneBody(phone[c])}])
  /\ UNCHANGED <<server, page, orphans>>

PhoneAnswer(c, body) ==
  /\ body \in phone[c].sending
  /\ \/ Write(body) /\ SetPhone(c, [phone[c] EXCEPT !.all = body, !.sending = {}])
     \/ /\ "save" \in Mishaps
        /\ Write(body) \/ UNCHANGED server
        /\ SetPhone(c, [phone[c] EXCEPT !.sending = {}])
  /\ UNCHANGED <<page, orphans>>

PhoneLeave(c) ==
  /\ phone[c].on
  /\ orphans' = orphans \cup phone[c].sending
  /\ SetPhone(c, ClosedPhone)
  /\ UNCHANGED <<server, page>>

(* A save arrives after its sender has gone, or never. *)
Arrive(body) ==
  /\ body \in orphans
  /\ orphans' = orphans \ {body}
  /\ Write(body) \/ UNCHANGED server
  /\ UNCHANGED <<page, phone>>

-----------------------------------------------------------------------------
PageStep(c) ==
  \/ Visit(c) \/ Refetch(c) \/ Close(c) \/ Save(c) \/ Leave(c)
  \/ \E t \in Tool : Open(c, t)
  \/ \E i \in Input : Edit(c, i)
  \/ \E body \in page[c].sending : Answer(c, body)
  \/ \E body \in page[c].coming : Fetched(c, body)

PhoneStep(c) ==
  \/ Refocus(c) \/ PhoneSave(c) \/ PhoneLeave(c)
  \/ \E t \in Tool : Focus(c, t)
  \/ \E i \in Input : Type(c, i)
  \/ \E body \in phone[c].sending : PhoneAnswer(c, body)
  \/ \E body \in phone[c].coming : Loaded(c, body)

Next ==
  \/ \E c \in Page : PageStep(c)
  \/ \E c \in Phone : PhoneStep(c)
  \/ \E body \in orphans : Arrive(body)

Spec == Init /\ [][Next]_vars

-----------------------------------------------------------------------------
\* The stored row and every client are well formed, and a checklist that is
\* open is among those whose reports the page keeps.
TypeOK ==
  /\ row \in AssessmentRow /\ found \in BOOLEAN
  /\ page \in [Page -> [on: BOOLEAN, data: Body, coming: SUBSET Body,
                        opened: SUBSET Tool, input: [Tool -> Input],
                        result: [Tool -> Score], open: Tool \cup {"none"},
                        shown: Input, sending: SUBSET Body]]
  /\ phone \in [Phone -> [on: BOOLEAN, tool: Tool \cup {"none"}, all: Body,
                          coming: SUBSET Body, shown: Input, sending: SUBSET Body]]
  /\ orphans \subseteq Body
  /\ \A c \in Page : page[c].open # "none" => page[c].open \in page[c].opened

Behind(body, t) == body.result[t] = ScoreOf[body.input[t]]

\* A stored score is the score of the stored inputs, unless there are none: no
\* order of loads, edits, saves and failures of any number of clients puts the
\* score of some inputs beside other inputs.
ScoredOrBlank == \A t \in Tool : Behind(row, t) \/ row.input[t] = Blank

\* InputJson holds the inputs of every checklist that has a score.
InputsBehindScores == \A t \in Tool : Behind(row, t)

\* What the user sees in the open checklist is what a save of the page sends.
SentIsShown ==
  [][\A c \in Page :
       page[c].open # "none" /\ page[c].sending = {} =>
         \A body \in page'[c].sending : body.input[page[c].open] = page[c].shown]_vars

\* A user who takes turns only changes the scores of tools opened in this visit:
\* what a client sends for the other tools is what the server has.
Touched(t) ==
  \/ \E c \in Page : t \in page[c].opened
  \/ \E c \in Phone : phone[c].tool = t
OthersKeepTheirScores ==
  [][\A t \in Tool : row'.result[t] # row.result[t] => Touched(t) \/ orphans # {}]_vars
=============================================================================
