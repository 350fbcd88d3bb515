------------------------ MODULE AssessmentClients_proofs ------------------------
(***************************************************************************)
(* For every set of clients, every project and every mishap: the types, a  *)
(* score never stands beside inputs it is not the score of, and a page     *)
(* sends what its open checklist shows.  For a user who takes turns: only  *)
(* the scores of checklists that were opened change.                       *)
(***************************************************************************)
EXTENDS AssessmentClients, TLAPS

USE RulesAssumption, ClientsAssumption

-----------------------------------------------------------------------------
PageType ==
  [on: BOOLEAN, data: Body, coming: SUBSET Body, opened: SUBSET Tool,
   input: [Tool -> Input], result: [Tool -> Score], open: Tool \cup {"none"},
   shown: Input, sending: SUBSET Body]
PhoneType ==
  [on: BOOLEAN, tool: Tool \cup {"none"}, all: Body, coming: SUBSET Body,
   shown: Input, sending: SUBSET Body]

\* Inputs and scores that go together.
Paired(b) == \A t \in Tool : Behind(b, t) \/ b.input[t] = Blank
AllPaired(S) == \A b \in S : Paired(b)

\* What a page reported goes together, and the open checklist was reported.
Reported(p) ==
  /\ \A t \in p.opened : Behind(p, t)
  /\ p.open # "none" => p.open \in p.opened /\ p.input[p.open] = p.shown

PageFine(p) ==
  p \in PageType /\ Paired(p.data) /\ AllPaired(p.coming \cup p.sending) /\ Reported(p)
PhoneFine(p) ==
  /\ p \in PhoneType /\ Paired(p.all) /\ AllPaired(p.coming \cup p.sending)
  /\ p.on \/ p.coming # {} => p.tool \in Tool

RowInv == row \in AssessmentRow /\ found \in BOOLEAN /\ Paired(row)
PagesInv == page \in [Page -> PageType] /\ \A c \in Page : PageFine(page[c])
PhonesInv == phone \in [Phone -> PhoneType] /\ \A c \in Phone : PhoneFine(phone[c])
OrphansInv == orphans \subseteq Body /\ AllPaired(orphans)

IInv == RowInv /\ PagesInv /\ PhonesInv /\ OrphansInv

-----------------------------------------------------------------------------
LEMMA NoBodyPaired == NoBody \in Body /\ Paired(NoBody)
BY DEF NoBody, NoAssessment, Paired

LEMMA StoredPaired == RowInv => Stored \in Body /\ Paired(Stored)
BY DEF RowInv, Stored, Paired, AssessmentRow, Behind

LEMMA StoredPairedNext == RowInv' => Stored' \in Body /\ Paired(Stored')
BY DEF RowInv, Stored, Paired, AssessmentRow, Behind

\* A merge takes the inputs and the score of a tool from the same side.
LEMMA WriteKeeps ==
  ASSUME RowInv, NEW b \in Body, Paired(b), Write(b) PROVE RowInv'
<1>. DEFINE i == MergeByAllowedTools(row.input, b.input, Allowed)
            s == MergeByAllowedTools(row.result, b.result, Allowed)
<1>1. row' = RowOf(i, s) /\ found' = TRUE
  BY DEF Write, Saved
<1>2. row.input \in [Tool -> Input] /\ row.result \in [Tool -> Score]
  BY DEF RowInv, AssessmentRow
<1>3. i \in [Tool -> Input] /\ s \in [Tool -> Score]
  BY <1>2 DEF MergeByAllowedTools
<1>4. \A t \in Tool : s[t] = ScoreOf[i[t]] \/ i[t] = Blank
  BY DEF MergeByAllowedTools, RowInv, Paired, Behind
<1>. HIDE DEF i, s
<1>5. SumScores(s) \in Totals
  BY <1>3 DEF Totals
<1>6. StatusOf(SumScores(s)) \in {"Draft", "Completed"}
  BY DEF StatusOf
<1>. QED
  BY <1>1, <1>3, <1>4, <1>5, <1>6 DEF RowOf, RowInv, Paired, Behind, AssessmentRow

LEMMA ServerStays == ASSUME RowInv, UNCHANGED server PROVE RowInv'
BY DEF RowInv, server, Paired, Behind

\* One client's record is replaced by another one that is in order.
LEMMA SetPageKeeps ==
  ASSUME PagesInv, NEW c \in Page, NEW p, PageFine(p), SetPage(c, p)
  PROVE  PagesInv'
<1>1. p \in PageType
  BY DEF PageFine
<1>2. page' \in [Page -> PageType]
  BY <1>1 DEF PagesInv, SetPage
<1>3. \A d \in Page : page'[d] = IF d = c THEN p ELSE page[d]
  BY DEF PagesInv, SetPage
<1>. QED  BY <1>2, <1>3 DEF PagesInv

LEMMA SetPhoneKeeps ==
  ASSUME PhonesInv, NEW c \in Phone, NEW p, PhoneFine(p), SetPhone(c, p)
  PROVE  PhonesInv'
<1>1. p \in PhoneType
  BY DEF PhoneFine
<1>2. phone' \in [Phone -> PhoneType]
  BY <1>1 DEF PhonesInv, SetPhone
<1>3. \A d \in Phone : phone'[d] = IF d = c THEN p ELSE phone[d]
  BY DEF PhonesInv, SetPhone
<1>. QED  BY <1>2, <1>3 DEF PhonesInv

-----------------------------------------------------------------------------
LEMMA MountedFine ==
  ASSUME NEW b \in Body, Paired(b) PROVE PageFine(Mounted(b))
<1>1. NoBody.input \in [Tool -> Input] /\ NoBody.result \in [Tool -> Score]
  BY NoBodyPaired
<1>. HIDE DEF NoBody
<1>2. Mounted(b) \in PageType
  BY <1>1, NoBodyPaired DEF Mounted, ClosedPage, PageType
<1>. QED
  BY <1>2 DEF PageFine, Mounted, ClosedPage, AllPaired, Reported

LEMMA FocusedFine ==
  ASSUME NEW t \in Tool, NEW b \in Body, Paired(b) PROVE PhoneFine(Focused(t, b))
<1>1. b.input[t] \in Input
  OBVIOUS
<1>. QED
  BY <1>1, NoBodyPaired DEF PhoneFine, PhoneType, Focused, ClosedPhone, AllPaired

\* A report of the checklist that is open.
LEMMA HandleResultFine ==
  ASSUME NEW p, PageFine(p), NEW t \in Tool, NEW i \in Input
  PROVE  PageFine(HandleResult([p EXCEPT !.open = t, !.shown = i], t, i))
<1>. DEFINE q == HandleResult([p EXCEPT !.open = t, !.shown = i], t, i)
<1>1. p \in PageType /\ Reported(p)
  BY DEF PageFine
<1>2. /\ q.data = p.data /\ q.coming = p.coming /\ q.sending = p.sending /\ q.on = p.on
      /\ q.open = t /\ q.shown = i /\ q.opened = p.opened \cup {t}
      /\ q.input = [p.input EXCEPT ![t] = i]
      /\ q.result = [p.result EXCEPT ![t] = ScoreOf[i]]
  BY <1>1 DEF PageType, HandleResult, With
<1>3. q \in PageType
  BY <1>1 DEF PageType, HandleResult, With
<1>. HIDE DEF q
<1>4. p.input \in [Tool -> Input] /\ p.result \in [Tool -> Score] /\ p.opened \subseteq Tool
  BY <1>1 DEF PageType
<1>5. q.input[t] = i /\ q.result[t] = ScoreOf[i]
  BY <1>2, <1>4
<1>6. \A u \in p.opened : u # t => q.input[u] = p.input[u] /\ q.result[u] = p.result[u]
  BY <1>2, <1>4
<1>7. Reported(q)
  BY <1>1, <1>2, <1>5, <1>6 DEF Reported, Behind
<1>8. PageFine(q)
  BY <1>2, <1>3, <1>7 DEF PageFine
<1>. QED  BY <1>8 DEF q

LEMMA PageBodyPaired ==
  ASSUME NEW p, PageFine(p) PROVE PageBody(p) \in Body /\ Paired(PageBody(p))
<1>1. /\ p.data.input \in [Tool -> Input] /\ p.data.result \in [Tool -> Score]
      /\ p.input \in [Tool -> Input] /\ p.result \in [Tool -> Score]
  BY DEF PageFine, PageType
<1>2. PageBody(p) \in Body
  BY <1>1 DEF PageBody
<1>3. \A t \in p.opened : p.result[t] = ScoreOf[p.input[t]]
  BY DEF PageFine, Reported, Behind
<1>. QED  BY <1>2, <1>3 DEF PageBody, Paired, Behind

LEMMA PhoneBodyPaired ==
  ASSUME NEW p, PhoneFine(p) PROVE PhoneBody(p) \in Body /\ Paired(PhoneBody(p))
<1>1. /\ p.all.input \in [Tool -> Input] /\ p.all.result \in [Tool -> Score]
      /\ p.shown \in Input /\ ScoreOf[p.shown] \in Score
  BY DEF PhoneFine, PhoneType
<1>2. \A t \in Tool : p.all.result[t] = ScoreOf[p.all.input[t]] \/ p.all.input[t] = Blank
  BY DEF PhoneFine, Paired, Behind
<1>3. PhoneBody(p) \in Body
  BY <1>1 DEF PhoneBody, With
<1>4. \A t \in Tool :
        \/ PhoneBody(p).result[t] = ScoreOf[PhoneBody(p).input[t]]
        \/ PhoneBody(p).input[t] = Blank
  BY <1>1, <1>2 DEF PhoneBody, With
<1>. QED  BY <1>3, <1>4 DEF Paired, Behind

-----------------------------------------------------------------------------
LEMMA InitFine == Init => IInv
<1>. SUFFICES ASSUME Init PROVE IInv
  OBVIOUS
<1>1. NoAssessment.input \in [Tool -> Input] /\ NoAssessment.result \in [Tool -> Score]
  BY DEF NoAssessment
<1>2. NoAssessment \in AssessmentRow
  BY DEF NoAssessment, AssessmentRow, Totals
<1>3. RowInv
  BY <1>2 DEF Init, RowInv, Paired, NoAssessment
<1>4. PageFine(ClosedPage)
  BY <1>1, NoBodyPaired DEF PageFine, PageType, ClosedPage, AllPaired, Reported, NoBody
<1>5. ClosedPage \in PageType
  BY <1>4 DEF PageFine
<1>6. PagesInv
  BY <1>4, <1>5 DEF Init, PagesInv
<1>7. PhoneFine(ClosedPhone)
  BY NoBodyPaired DEF PhoneFine, PhoneType, ClosedPhone, AllPaired
<1>8. ClosedPhone \in PhoneType
  BY <1>7 DEF PhoneFine
<1>9. PhonesInv
  BY <1>7, <1>8 DEF Init, PhonesInv
<1>. QED  BY <1>3, <1>6, <1>9 DEF Init, IInv, OrphansInv, AllPaired

LEMMA PhonesStay == ASSUME PhonesInv, UNCHANGED phone PROVE PhonesInv'
BY DEF PhonesInv

LEMMA PagesStay == ASSUME PagesInv, UNCHANGED page PROVE PagesInv'
BY DEF PagesInv

LEMMA OrphansStay == ASSUME OrphansInv, UNCHANGED orphans PROVE OrphansInv'
BY DEF OrphansInv

\* A step that only replaces the record of a page.
LEMMA PageOnly ==
  ASSUME IInv, NEW c \in Page, NEW p, PageFine(p), SetPage(c, p),
         UNCHANGED <<server, phone, orphans>>
  PROVE  IInv'
BY ServerStays, PhonesStay, OrphansStay, SetPageKeeps DEF IInv

LEMMA PhoneOnly ==
  ASSUME IInv, NEW c \in Phone, NEW p, PhoneFine(p), SetPhone(c, p),
         UNCHANGED <<server, page, orphans>>
  PROVE  IInv'
BY ServerStays, PagesStay, OrphansStay, SetPhoneKeeps DEF IInv

\* Records in order stay so when a part of them changes as the actions change it.
LEMMA PageParts ==
  ASSUME NEW p, PageFine(p)
  PROVE  /\ \A b \in Body : Paired(b) => PageFine([p EXCEPT !.coming = {b}])
         /\ \A b \in Body : Paired(b) => PageFine([p EXCEPT !.data = b, !.coming = {}])
         /\ \A b \in Body : Paired(b) => PageFine([p EXCEPT !.sending = {b}])
         /\ PageFine([p EXCEPT !.open = "none"])
         /\ PageFine([p EXCEPT !.sending = {}])
         /\ \A b \in Body :
              Paired(b) => PageFine([p EXCEPT !.sending = {}, !.coming = {b}])
BY DEF PageFine, PageType, AllPaired, Reported, Behind

LEMMA PhoneParts ==
  ASSUME NEW p, PhoneFine(p)
  PROVE  /\ \A b \in Body :
              p.on /\ Paired(b) => PhoneFine([p EXCEPT !.coming = @ \cup {b}])
         /\ \A b \in Body : Paired(b) => PhoneFine([p EXCEPT !.sending = {b}])
         /\ \A b \in Body :
              Paired(b) => PhoneFine([p EXCEPT !.all = b, !.sending = {}])
         /\ \A i \in Input : PhoneFine([p EXCEPT !.shown = i])
         /\ PhoneFine([p EXCEPT !.sending = {}])
BY DEF PhoneFine, PhoneType, AllPaired

-----------------------------------------------------------------------------
LEMMA PageStepFine ==
  ASSUME IInv, NEW c \in Page, PageStep(c) PROVE IInv'
<1>1. PageFine(page[c])
  BY DEF IInv, PagesInv
<1>2. /\ page[c].data \in Body /\ Paired(page[c].data)
      /\ \A b \in page[c].coming \cup page[c].sending : b \in Body /\ Paired(b)
  BY <1>1 DEF PageFine, PageType, AllPaired
<1>3. Stored \in Body /\ Paired(Stored)
  BY StoredPaired DEF IInv
<1>4. CASE Visit(c)
  <2>1. PICK b : b \in Body /\ Paired(b) /\ SetPage(c, Mounted(b))
    BY <1>2, <1>3, <1>4, NoBodyPaired DEF Visit
  <2>. QED  BY <2>1, <1>4, MountedFine, PageOnly DEF Visit
<1>5. CASE Refetch(c)
  BY <1>1, <1>3, <1>5, PageParts, PageOnly DEF Refetch
<1>6. CASE Close(c)
  BY <1>1, <1>6, PageParts, PageOnly DEF Close
<1>7. CASE Save(c)
  BY <1>1, <1>7, PageBodyPaired, PageParts, PageOnly DEF Save
<1>8. CASE Leave(c)
  <2>1. PageFine([ClosedPage EXCEPT !.data = page[c].data])
    <3>1. NoBody.input \in [Tool -> Input] /\ NoBody.result \in [Tool -> Score]
      BY NoBodyPaired
    <3>. HIDE DEF NoBody
    <3>. QED  BY <1>2, <3>1, NoBodyPaired
              DEF ClosedPage, PageFine, PageType, AllPaired, Reported
  <2>2. PagesInv'
    BY <2>1, <1>8, SetPageKeeps DEF Leave, IInv
  <2>3. OrphansInv'
    BY <1>2, <1>8 DEF Leave, IInv, OrphansInv, AllPaired
  <2>4. RowInv' /\ PhonesInv'
    BY <1>8, ServerStays, PhonesStay DEF Leave, IInv
  <2>. QED  BY <2>2, <2>3, <2>4 DEF IInv
<1>9. CASE \E t \in Tool : Open(c, t)
  <2>1. PICK t \in Tool : Open(c, t)
    BY <1>9
  <2>2. page[c].data.input[t] \in Input
    BY <1>2
  <2>3. PageFine(HandleResult([page[c] EXCEPT !.open = t,
                                 !.shown = page[c].data.input[t]],
                              t, page[c].data.input[t]))
    BY <1>1, <2>2, HandleResultFine
  <2>. QED  BY <2>1, <2>3, PageOnly DEF Open
<1>10. CASE \E i \in Input : Edit(c, i)
  <2>1. PICK i \in Input : Edit(c, i)
    BY <1>10
  <2>2. page[c].open \in Tool
    BY <2>1 DEF Edit, ResolveAllowedTools
  <2>3. PICK t \in Tool : t = page[c].open
    BY <2>2
  <2>4. page[c] \in PageType
    BY <1>1 DEF PageFine
  <2>5. [page[c] EXCEPT !.open = t, !.shown = i] = [page[c] EXCEPT !.shown = i]
    BY <2>3, <2>4 DEF PageType
  <2>6. PageFine(HandleResult([page[c] EXCEPT !.shown = i], t, i))
    BY <1>1, <2>5, HandleResultFine
  <2>. QED  BY <2>1, <2>3, <2>6, PageOnly DEF Edit
<1>11. CASE \E b \in page[c].sending : Answer(c, b)
  <2>1. PICK b \in page[c].sending : Answer(c, b)
    BY <1>11
  <2>2. b \in Body /\ Paired(b)
    BY <1>2, <2>1
  <2>3. RowInv'
    BY <2>1, <2>2, WriteKeeps, ServerStays DEF Answer, IInv
  <2>4. Stored' \in Body /\ Paired(Stored')
    BY <2>3, StoredPairedNext
  <2>5. PagesInv'
    BY <1>1, <2>1, <2>4, PageParts, SetPageKeeps DEF Answer, IInv
  <2>. QED  BY <2>1, <2>3, <2>5, PhonesStay, OrphansStay DEF Answer, IInv
<1>12. CASE \E b \in page[c].coming : Fetched(c, b)
  BY <1>1, <1>2, <1>12, PageParts, PageOnly DEF Fetched
<1>. QED
  BY <1>4, <1>5, <1>6, <1>7, <1>8, <1>9, <1>10, <1>11, <1>12 DEF PageStep

LEMMA PhoneStepFine ==
  ASSUME IInv, NEW c \in Phone, PhoneStep(c) PROVE IInv'
<1>1. PhoneFine(phone[c])
  BY DEF IInv, PhonesInv
<1>2. \A b \in phone[c].coming \cup phone[c].sending : b \in Body /\ Paired(b)
  BY <1>1 DEF PhoneFine, PhoneType, AllPaired
<1>3. Stored \in Body /\ Paired(Stored)
  BY StoredPaired DEF IInv
<1>4. CASE Refocus(c)
  BY <1>1, <1>3, <1>4, PhoneParts, PhoneOnly DEF Refocus
<1>5. CASE PhoneSave(c)
  BY <1>1, <1>5, PhoneBodyPaired, PhoneParts, PhoneOnly DEF PhoneSave
<1>6. CASE PhoneLeave(c)
  <2>1. PhoneFine(ClosedPhone)
    BY NoBodyPaired DEF PhoneFine, PhoneType, ClosedPhone, AllPaired
  <2>2. PhonesInv'
    BY <2>1, <1>6, SetPhoneKeeps DEF PhoneLeave, IInv
  <2>3. OrphansInv'
    BY <1>2, <1>6 DEF PhoneLeave, IInv, OrphansInv, AllPaired
  <2>. QED  BY <1>6, <2>2, <2>3, ServerStays, PagesStay DEF PhoneLeave, IInv
<1>7. CASE \E t \in Tool : Focus(c, t)
  BY <1>3, <1>7, NoBodyPaired, FocusedFine, PhoneOnly DEF Focus
<1>8. CASE \E i \in Input : Type(c, i)
  BY <1>1, <1>8, PhoneParts, PhoneOnly DEF Type
<1>9. CASE \E b \in phone[c].sending : PhoneAnswer(c, b)
  <2>1. PICK b \in phone[c].sending : PhoneAnswer(c, b)
    BY <1>9
  <2>2. b \in Body /\ Paired(b)
    BY <1>2, <2>1
  <2>3. RowInv'
    BY <2>1, <2>2, WriteKeeps, ServerStays DEF PhoneAnswer, IInv
  <2>4. PhonesInv'
    BY <1>1, <2>1, <2>2, PhoneParts, SetPhoneKeeps DEF PhoneAnswer, IInv
  <2>. QED  BY <2>1, <2>3, <2>4, PagesStay, OrphansStay DEF PhoneAnswer, IInv
<1>10. CASE \E b \in phone[c].coming : Loaded(c, b)
  <2>1. PICK b \in phone[c].coming : Loaded(c, b)
    BY <1>10
  <2>2. b \in Body /\ Paired(b)
    BY <1>2, <2>1
  <2>. DEFINE p == [phone[c] EXCEPT !.all = b, !.shown = b.input[phone[c].tool],
                                    !.coming = @ \ {b}]
  <2>3. PhoneFine(p)
    BY <1>1, <2>2 DEF PhoneFine, PhoneType, AllPaired
  <2>. QED  BY <2>1, <2>3, PhoneOnly DEF Loaded
<1>. QED
  BY <1>4, <1>5, <1>6, <1>7, <1>8, <1>9, <1>10 DEF PhoneStep

LEMMA ArriveFine ==
  ASSUME IInv, NEW b \in orphans, Arrive(b) PROVE IInv'
<1>1. b \in Body /\ Paired(b)
  BY DEF IInv, OrphansInv, AllPaired
<1>2. RowInv'
  BY <1>1, WriteKeeps, ServerStays DEF Arrive, IInv
<1>3. OrphansInv'
  BY DEF Arrive, IInv, OrphansInv, AllPaired
<1>. QED  BY <1>2, <1>3, PagesStay, PhonesStay DEF Arrive, IInv

LEMMA NextFine == IInv /\ [Next]_vars => IInv'
<1>. SUFFICES ASSUME IInv, [Next]_vars PROVE IInv'
  OBVIOUS
<1>1. CASE UNCHANGED vars
  BY <1>1, ServerStays, PagesStay, PhonesStay, OrphansStay DEF vars, IInv
<1>. QED
  BY <1>1, PageStepFine, PhoneStepFine, ArriveFine DEF Next

LEMMA Invariance == Spec => []IInv
<1>. QED  BY InitFine, NextFine, PTL DEF Spec

-----------------------------------------------------------------------------
\* Every state is well typed, and an open checklist is one the page keeps the
\* report of: handleResult is called as soon as a checklist is mounted.
THEOREM TypeCorrect == Spec => []TypeOK
<1>1. IInv => TypeOK
  <2>. SUFFICES ASSUME IInv PROVE TypeOK
    OBVIOUS
  <2>1. row \in AssessmentRow /\ found \in BOOLEAN /\ orphans \subseteq Body
    BY DEF IInv, RowInv, OrphansInv
  <2>2. page \in [Page -> PageType] /\ phone \in [Phone -> PhoneType]
    BY DEF IInv, PagesInv, PhonesInv
  <2>3. \A c \in Page : page[c].open # "none" => page[c].open \in page[c].opened
    BY DEF IInv, PagesInv, PageFine, Reported
  <2>. QED  BY <2>1, <2>2, <2>3 DEF TypeOK, PageType, PhoneType
<1>. QED  BY <1>1, Invariance, PTL

\* A stored score is the score of the stored inputs, or there are no inputs:
\* whatever pages and screens load, send and lose, a save takes the inputs and
\* the score of a tool from one side.
THEOREM ScoredOrBlankHolds == Spec => []ScoredOrBlank
<1>1. IInv => ScoredOrBlank
  BY DEF IInv, RowInv, Paired, ScoredOrBlank
<1>. QED  BY <1>1, Invariance, PTL

-----------------------------------------------------------------------------
SentIsShownStep ==
  \A c \in Page :
    page[c].open # "none" /\ page[c].sending = {} =>
      \A body \in page'[c].sending : body.input[page[c].open] = page[c].shown

\* A page whose record is replaced by one that sends nothing sends nothing.
LEMMA Silent ==
  ASSUME PagesInv, NEW c \in Page, NEW p, SetPage(c, p),
         p.sending \subseteq page[c].sending
  PROVE  SentIsShownStep
<1>1. \A d \in Page : page'[d] = IF d = c THEN p ELSE page[d]
  BY DEF PagesInv, SetPage
<1>. QED  BY <1>1 DEF SentIsShownStep

LEMMA NoPageMoves == ASSUME UNCHANGED page PROVE SentIsShownStep
BY DEF SentIsShownStep

\* What a save sends for the open checklist is what it reported last.
LEMMA SaveSends == ASSUME PagesInv, NEW c \in Page, Save(c) PROVE SentIsShownStep
<1>. DEFINE body == PageBody(page[c])
<1>1. page[c] \in PageType /\ Reported(page[c])
  BY DEF PagesInv, PageFine
<1>2. SetPage(c, [page[c] EXCEPT !.sending = {body}])
  BY DEF Save
<1>3. page[c].open # "none" => body.input[page[c].open] = page[c].shown
  BY <1>1 DEF PageBody, Reported, PageType
<1>. HIDE DEF body
<1>4. page'[c].sending = {body}
  BY <1>1, <1>2 DEF SetPage, PagesInv, PageType
<1>5. \A d \in Page : d # c => page'[d] = page[d]
  BY <1>2 DEF SetPage, PagesInv
<1>. QED  BY <1>3, <1>4, <1>5 DEF SentIsShownStep

LEMMA PageStepSends ==
  ASSUME PagesInv, NEW c \in Page, PageStep(c) PROVE SentIsShownStep
<1>1. page[c] \in PageType
  BY DEF PagesInv, PageFine
<1>2. CASE Save(c)
  BY <1>2, SaveSends
<1>3. CASE Visit(c)
  <2>1. PICK b : SetPage(c, Mounted(b))
    BY <1>3 DEF Visit
  <2>2. Mounted(b).sending = {}
    BY DEF Mounted, ClosedPage
  <2>. QED  BY <2>1, <2>2, Silent
<1>4. CASE Leave(c)
  <2>1. [ClosedPage EXCEPT !.data = page[c].data].sending = {}
    BY DEF ClosedPage
  <2>. QED  BY <1>4, <2>1, Silent DEF Leave
<1>5. CASE Refetch(c)
  BY <1>1, <1>5, Silent DEF Refetch, PageType
<1>6. CASE Close(c)
  BY <1>1, <1>6, Silent DEF Close, PageType
<1>7. CASE \E t \in Tool : Open(c, t)
  <2>1. PICK t \in Tool : Open(c, t)
    BY <1>7
  <2>2. PICK i : SetPage(c, HandleResult([page[c] EXCEPT !.open = t, !.shown = i], t, i))
    BY <2>1 DEF Open
  <2>3. HandleResult([page[c] EXCEPT !.open = t, !.shown = i], t, i).sending
          = page[c].sending
    BY <1>1 DEF HandleResult, PageType
  <2>. QED  BY <2>2, <2>3, Silent
<1>8. CASE \E i \in Input : Edit(c, i)
  <2>1. PICK i \in Input :
          SetPage(c, HandleResult([page[c] EXCEPT !.shown = i], page[c].open, i))
    BY <1>8 DEF Edit
  <2>2. HandleResult([page[c] EXCEPT !.shown = i], page[c].open, i).sending
          = page[c].sending
    BY <1>1 DEF HandleResult, PageType
  <2>. QED  BY <2>1, <2>2, Silent
<1>9. CASE \E b \in page[c].sending : Answer(c, b)
  BY <1>1, <1>9, Silent DEF Answer, PageType
<1>10. CASE \E b \in page[c].coming : Fetched(c, b)
  BY <1>1, <1>10, Silent DEF Fetched, PageType
<1>. QED
  BY <1>2, <1>3, <1>4, <1>5, <1>6, <1>7, <1>8, <1>9, <1>10 DEF PageStep

\* Whatever was loaded, refetched, reported and closed before, a save of the page
\* sends for the open checklist the inputs it shows.
THEOREM SentIsShownHolds == Spec => SentIsShown
<1>1. IInv /\ [Next]_vars => SentIsShownStep
  <2>. SUFFICES ASSUME IInv, [Next]_vars PROVE SentIsShownStep
    OBVIOUS
  <2>1. CASE UNCHANGED vars
    BY <2>1, NoPageMoves DEF vars
  <2>2. CASE \E c \in Page : PageStep(c)
    BY <2>2, PageStepSends DEF IInv
  <2>3. CASE \E c \in Phone : PhoneStep(c)
    BY <2>3, NoPageMoves
       DEF PhoneStep, Refocus, PhoneSave, PhoneLeave, Focus, Type, PhoneAnswer, Loaded
  <2>4. CASE \E body \in orphans : Arrive(body)
    BY <2>4, NoPageMoves DEF Arrive
  <2>. QED  BY <2>1, <2>2, <2>3, <2>4 DEF Next
<1>2. Spec => [][SentIsShownStep]_vars
  BY <1>1, Invariance, PTL DEF Spec
<1>. QED  BY <1>2, PTL DEF SentIsShown, SentIsShownStep

-----------------------------------------------------------------------------
(* One user who takes turns, and whose loads do not fail.  Whatever a client that
   is on holds of a tool it did not touch is the score the server has: what was
   loaded, what is under way to it and what it sent. *)
TakesTurns == Alone = TRUE /\ Mishaps \subseteq {"save"}

Agree(bodies, t, r) == \A b \in bodies : b.result[t] = r[t]
PageAgrees(p, r) ==
  \A t \in Tool \ p.opened : Agree({p.data} \cup p.coming \cup p.sending, t, r)
PhoneAgrees(p, r) ==
  \A t \in Tool \ {p.tool} : Agree({p.all} \cup p.coming \cup p.sending, t, r)

\* Nobody else is on, and nothing of others is under way.
OnlyPage(c) ==
  /\ orphans = {} /\ \A d \in Phone : ~phone[d].on
  /\ \A d \in Page : d # c => ~page[d].on
OnlyPhone(c) ==
  /\ orphans = {} /\ \A d \in Page : ~page[d].on
  /\ \A d \in Phone : d # c => ~phone[d].on

TurnsInv ==
  /\ \A c \in Page : page[c].on => OnlyPage(c) /\ PageAgrees(page[c], row.result)
  /\ \A c \in Phone : phone[c].on => OnlyPhone(c) /\ PhoneAgrees(phone[c], row.result)
  /\ \A c \in Page : ~page[c].on => page[c].sending = {} /\ page[c].coming = {}
  /\ \A c \in Phone : ~phone[c].on => phone[c].sending = {} /\ phone[c].coming = {}

\* The scores of the tools that nobody touched stay.
OthersKeep == \A t \in Tool : row'.result[t] # row.result[t] => Touched(t) \/ orphans # {}

\* A save that agrees with the server on a tool changes nothing about it.
LEMMA AgreedStays ==
  ASSUME NEW b, Write(b), NEW t \in Tool, b.result[t] = row.result[t]
  PROVE  row'.result[t] = row.result[t]
BY DEF Write, Saved, RowOf, MergeByAllowedTools

LEMMA TurnsStart == Init => TurnsInv
<1>. SUFFICES ASSUME Init PROVE TurnsInv
  OBVIOUS
<1>1. \A c \in Page : page[c] = ClosedPage
  BY DEF Init
<1>2. \A c \in Phone : phone[c] = ClosedPhone
  BY DEF Init
<1>3. ~ClosedPage.on /\ ClosedPage.sending = {} /\ ClosedPage.coming = {}
  BY DEF ClosedPage
<1>4. ~ClosedPhone.on /\ ClosedPhone.sending = {} /\ ClosedPhone.coming = {}
  BY DEF ClosedPhone
<1>. HIDE DEF ClosedPage, ClosedPhone
<1>. QED  BY <1>1, <1>2, <1>3, <1>4 DEF TurnsInv

\* The only client that is on, or that comes on, is replaced by one that agrees with the
\* server, or by one that is off.
LEMMA PageTurn ==
  ASSUME IInv, TurnsInv, NEW c \in Page, OnlyPage(c), NEW p, SetPage(c, p),
         UNCHANGED phone,
         p.on => orphans' = {} /\ PageAgrees(p, row'.result),
         ~p.on => p.sending = {} /\ p.coming = {}
  PROVE  TurnsInv'
<1>1. \A d \in Page : page'[d] = IF d = c THEN p ELSE page[d]
  BY DEF IInv, PagesInv, SetPage
<1>2. page'[c] = p /\ \A d \in Page : d # c => page'[d] = page[d] /\ ~page[d].on
  BY <1>1 DEF OnlyPage
<1>3. \A d \in Phone : phone'[d] = phone[d] /\ ~phone[d].on
  BY DEF OnlyPage
<1>4. ASSUME NEW d \in Page, page'[d].on
      PROVE  OnlyPage(d)' /\ PageAgrees(page[d], row.result)'
  <2>1. d = c /\ p.on
    BY <1>2, <1>4
  <2>2. OnlyPage(c)'
    BY <1>2, <1>3, <2>1 DEF OnlyPage
  <2>3. PageAgrees(page[c], row.result)'
    BY <1>2, <2>1 DEF PageAgrees, Agree
  <2>. QED  BY <2>1, <2>2, <2>3
<1>5. \A d \in Page : ~page'[d].on => page'[d].sending = {} /\ page'[d].coming = {}
  BY <1>2 DEF TurnsInv
<1>6. \A d \in Phone : ~phone'[d].on => phone'[d].sending = {} /\ phone'[d].coming = {}
  BY <1>3 DEF TurnsInv
<1>7. \A d \in Phone : ~phone'[d].on
  BY <1>3
<1>. QED  BY <1>4, <1>5, <1>6, <1>7 DEF TurnsInv

LEMMA PhoneTurn ==
  ASSUME IInv, TurnsInv, NEW c \in Phone, OnlyPhone(c), NEW p, SetPhone(c, p),
         UNCHANGED page,
         p.on => orphans' = {} /\ PhoneAgrees(p, row'.result),
         ~p.on => p.sending = {} /\ p.coming = {}
  PROVE  TurnsInv'
<1>1. \A d \in Phone : phone'[d] = IF d = c THEN p ELSE phone[d]
  BY DEF IInv, PhonesInv, SetPhone
<1>2. phone'[c] = p /\ \A d \in Phone : d # c => phone'[d] = phone[d] /\ ~phone[d].on
  BY <1>1 DEF OnlyPhone
<1>3. \A d \in Page : page'[d] = page[d] /\ ~page[d].on
  BY DEF OnlyPhone
<1>4. ASSUME NEW d \in Phone, phone'[d].on
      PROVE  OnlyPhone(d)' /\ PhoneAgrees(phone[d], row.result)'
  <2>1. d = c /\ p.on
    BY <1>2, <1>4
  <2>2. OnlyPhone(c)'
    BY <1>2, <1>3, <2>1 DEF OnlyPhone
  <2>3. PhoneAgrees(phone[c], row.result)'
    BY <1>2, <2>1 DEF PhoneAgrees, Agree
  <2>. QED  BY <2>1, <2>2, <2>3
<1>5. \A d \in Phone : ~phone'[d].on => phone'[d].sending = {} /\ phone'[d].coming = {}
  BY <1>2 DEF TurnsInv
<1>6. \A d \in Page : ~page'[d].on => page'[d].sending = {} /\ page'[d].coming = {}
  BY <1>3 DEF TurnsInv
<1>7. \A d \in Page : ~page'[d].on
  BY <1>3
<1>. QED  BY <1>4, <1>5, <1>6, <1>7 DEF TurnsInv

LEMMA StoredAgrees == ASSUME NEW t PROVE Stored.result[t] = row.result[t]
BY DEF Stored

LEMMA PageTurns ==
  ASSUME TakesTurns, IInv, TurnsInv, NEW c \in Page, PageStep(c)
  PROVE  TurnsInv' /\ OthersKeep
<1>1. page[c] \in PageType
  BY DEF IInv, PagesInv
<1>2. page[c].on => OnlyPage(c) /\ PageAgrees(page[c], row.result)
  BY DEF TurnsInv
<1>3. UNCHANGED row => OthersKeep
  BY DEF OthersKeep
<1>4. CASE Visit(c)
  <2>1. SetPage(c, Mounted(Stored)) /\ UNCHANGED <<server, phone, orphans>> /\ Free
    BY <1>4 DEF Visit, TakesTurns
  <2>2. OnlyPage(c)
    BY <2>1 DEF Free, TakesTurns, OnlyPage
  <2>. DEFINE p == Mounted(Stored)
  <2>3. p.on /\ p.data = Stored /\ p.coming = {} /\ p.sending = {}
    BY DEF Mounted, ClosedPage
  <2>. HIDE DEF p
  <2>4. PageAgrees(p, row.result)
    BY <2>3, StoredAgrees DEF PageAgrees, Agree
  <2>. QED  BY <1>3, <2>1, <2>2, <2>3, <2>4, PageTurn DEF p, server, OnlyPage
<1>5. CASE Refetch(c)
  <2>. DEFINE p == [page[c] EXCEPT !.coming = {Stored}]
  <2>1. page[c].on /\ SetPage(c, p) /\ UNCHANGED <<server, phone, orphans>>
    BY <1>5 DEF Refetch
  <2>2. /\ p.on = page[c].on /\ p.data = page[c].data /\ p.coming = {Stored}
        /\ p.sending = page[c].sending /\ p.opened = page[c].opened
    BY <1>1 DEF PageType
  <2>. HIDE DEF p
  <2>3. PageAgrees(p, row.result)
    BY <1>2, <2>1, <2>2, StoredAgrees DEF PageAgrees, Agree
  <2>. QED  BY <1>2, <1>3, <2>1, <2>2, <2>3, PageTurn DEF server, OnlyPage
<1>6. CASE Close(c)
  <2>. DEFINE p == [page[c] EXCEPT !.open = "none"]
  <2>1. page[c].on /\ SetPage(c, p) /\ UNCHANGED <<server, phone, orphans>>
    BY <1>6 DEF Close
  <2>2. /\ p.on = page[c].on /\ p.data = page[c].data /\ p.coming = page[c].coming
        /\ p.sending = page[c].sending /\ p.opened = page[c].opened
    BY <1>1 DEF PageType
  <2>. HIDE DEF p
  <2>3. PageAgrees(p, row.result)
    BY <1>2, <2>1, <2>2 DEF PageAgrees
  <2>. QED  BY <1>2, <1>3, <2>1, <2>2, <2>3, PageTurn DEF server, OnlyPage
<1>7. CASE Save(c)
  <2>. DEFINE p == [page[c] EXCEPT !.sending = {PageBody(page[c])}]
  <2>1. page[c].on /\ SetPage(c, p) /\ UNCHANGED <<server, phone, orphans>>
    BY <1>7 DEF Save
  <2>2. /\ p.on = page[c].on /\ p.data = page[c].data /\ p.coming = page[c].coming
        /\ p.sending = {PageBody(page[c])} /\ p.opened = page[c].opened
    BY <1>1 DEF PageType
  <2>3. \A t \in Tool \ page[c].opened : PageBody(page[c]).result[t] = page[c].data.result[t]
    BY DEF PageBody
  <2>. HIDE DEF p
  <2>4. PageAgrees(p, row.result)
    BY <1>2, <2>1, <2>2, <2>3 DEF PageAgrees, Agree
  <2>. QED  BY <1>2, <1>3, <2>1, <2>2, <2>4, PageTurn DEF server, OnlyPage
<1>8. CASE Leave(c)
  <2>. DEFINE p == [ClosedPage EXCEPT !.data = page[c].data]
  <2>1. page[c].on /\ SetPage(c, p) /\ UNCHANGED <<server, phone>>
    BY <1>8 DEF Leave
  <2>2. ~p.on /\ p.sending = {} /\ p.coming = {}
    BY DEF ClosedPage
  <2>. HIDE DEF p
  <2>. QED  BY <1>2, <1>3, <2>1, <2>2, PageTurn DEF server
<1>9. CASE \E t \in Tool : Open(c, t)
  <2>1. PICK t \in Tool : Open(c, t)
    BY <1>9
  <2>2. PICK i : i = page[c].data.input[t]
    OBVIOUS
  <2>. DEFINE p == HandleResult([page[c] EXCEPT !.open = t, !.shown = i], t, i)
  <2>3. page[c].on /\ SetPage(c, p) /\ UNCHANGED <<server, phone, orphans>>
    BY <2>1, <2>2 DEF Open
  <2>4. /\ p.on = page[c].on /\ p.data = page[c].data /\ p.coming = page[c].coming
        /\ p.sending = page[c].sending /\ p.opened = page[c].opened \cup {t}
    BY <1>1 DEF PageType, HandleResult
  <2>. HIDE DEF p
  <2>5. PageAgrees(p, row.result)
    BY <1>2, <2>3, <2>4 DEF PageAgrees
  <2>. QED  BY <1>2, <1>3, <2>3, <2>4, <2>5, PageTurn DEF server, OnlyPage
<1>10. CASE \E i \in Input : Edit(c, i)
  <2>1. PICK i \in Input : Edit(c, i)
    BY <1>10
  <2>. DEFINE p == HandleResult([page[c] EXCEPT !.shown = i], page[c].open, i)
  <2>2. page[c].on /\ SetPage(c, p) /\ UNCHANGED <<server, phone, orphans>>
    BY <2>1 DEF Edit
  <2>3. /\ p.on = page[c].on /\ p.data = page[c].data /\ p.coming = page[c].coming
        /\ p.sending = page[c].sending /\ p.opened = page[c].opened \cup {page[c].open}
    BY <1>1 DEF PageType, HandleResult
  <2>. HIDE DEF p
  <2>4. PageAgrees(p, row.result)
    BY <1>2, <2>2, <2>3 DEF PageAgrees
  <2>. QED  BY <1>2, <1>3, <2>2, <2>3, <2>4, PageTurn DEF server, OnlyPage
<1>11. CASE \E b \in page[c].sending : Answer(c, b)
  <2>1. PICK b \in page[c].sending : Answer(c, b)
    BY <1>11
  <2>2. OnlyPage(c) /\ PageAgrees(page[c], row.result) /\ page[c].on
    BY <1>2, <2>1 DEF TurnsInv
  <2>3. /\ Write(b) \/ UNCHANGED server
        /\ UNCHANGED <<phone, orphans>>
    BY <2>1 DEF Answer
  <2>4. \A t \in Tool \ page[c].opened : row'.result[t] = row.result[t]
    <3>1. \A t \in Tool \ page[c].opened : b.result[t] = row.result[t]
      BY <2>2 DEF PageAgrees, Agree
    <3>. QED  BY <2>3, <3>1, AgreedStays DEF server
  <2>5. OthersKeep
    BY <2>4 DEF OthersKeep, Touched
  <2>6. PICK p : /\ SetPage(c, p) /\ p.on = page[c].on /\ p.data = page[c].data
                 /\ p.coming \subseteq page[c].coming \cup {Stored'}
                 /\ p.sending = {} /\ p.opened = page[c].opened
    <3>1. \E q \in {[page[c] EXCEPT !.sending = {}, !.coming = {Stored'}],
                    [page[c] EXCEPT !.sending = {}]} : SetPage(c, q)
      BY <2>1 DEF Answer
    <3>. QED  BY <1>1, <3>1 DEF PageType
  <2>7. \A t : Stored'.result[t] = row'.result[t]
    BY DEF Stored
  <2>8. PageAgrees(p, row'.result)
    <3>. SUFFICES ASSUME NEW t \in Tool \ p.opened, NEW q \in {p.data} \cup p.coming \cup p.sending
                  PROVE  q.result[t] = row'.result[t]
      BY DEF PageAgrees, Agree
    <3>1. row'.result[t] = row.result[t]
      BY <2>4, <2>6
    <3>2. q \in {page[c].data} \cup page[c].coming \/ q = Stored'
      BY <2>6
    <3>3. q \in {page[c].data} \cup page[c].coming => q.result[t] = row.result[t]
      BY <2>2, <2>6 DEF PageAgrees, Agree
    <3>. QED  BY <2>7, <3>1, <3>2, <3>3
  <2>. QED  BY <2>2, <2>3, <2>5, <2>6, <2>8, PageTurn DEF OnlyPage
<1>12. CASE \E b \in page[c].coming : Fetched(c, b)
  <2>1. PICK b \in page[c].coming : Fetched(c, b)
    BY <1>12
  <2>. DEFINE p == [page[c] EXCEPT !.data = b, !.coming = {}]
  <2>2. page[c].on /\ SetPage(c, p) /\ UNCHANGED <<server, phone, orphans>>
    BY <2>1 DEF Fetched, TurnsInv
  <2>3. /\ p.on = page[c].on /\ p.data = b /\ p.coming = {}
        /\ p.sending = page[c].sending /\ p.opened = page[c].opened
    BY <1>1 DEF PageType
  <2>. HIDE DEF p
  <2>4. PageAgrees(p, row.result)
    BY <1>2, <2>2, <2>3 DEF PageAgrees, Agree
  <2>. QED  BY <1>2, <1>3, <2>2, <2>3, <2>4, PageTurn DEF server, OnlyPage
<1>. QED
  BY <1>4, <1>5, <1>6, <1>7, <1>8, <1>9, <1>10, <1>11, <1>12 DEF PageStep

LEMMA PhoneTurns ==
  ASSUME TakesTurns, IInv, TurnsInv, NEW c \in Phone, PhoneStep(c)
  PROVE  TurnsInv' /\ OthersKeep
<1>1. phone[c] \in PhoneType
  BY DEF IInv, PhonesInv
<1>2. phone[c].on => OnlyPhone(c) /\ PhoneAgrees(phone[c], row.result)
  BY DEF TurnsInv
<1>3. UNCHANGED row => OthersKeep
  BY DEF OthersKeep
<1>4. CASE Refocus(c)
  <2>. DEFINE p == [phone[c] EXCEPT !.coming = @ \cup {Stored}]
  <2>1. phone[c].on /\ SetPhone(c, p) /\ UNCHANGED <<server, page, orphans>>
    BY <1>4 DEF Refocus
  <2>2. /\ p.on = phone[c].on /\ p.all = phone[c].all
        /\ p.coming = phone[c].coming \cup {Stored}
        /\ p.sending = phone[c].sending /\ p.tool = phone[c].tool
    BY <1>1 DEF PhoneType
  <2>. HIDE DEF p
  <2>3. PhoneAgrees(p, row.result)
    BY <1>2, <2>1, <2>2, StoredAgrees DEF PhoneAgrees, Agree
  <2>. QED  BY <1>2, <1>3, <2>1, <2>2, <2>3, PhoneTurn DEF server, OnlyPhone
<1>5. CASE PhoneSave(c)
  <2>. DEFINE p == [phone[c] EXCEPT !.sending = {PhoneBody(phone[c])}]
  <2>1. phone[c].on /\ SetPhone(c, p) /\ UNCHANGED <<server, page, orphans>>
    BY <1>5 DEF PhoneSave
  <2>2. /\ p.on = phone[c].on /\ p.all = phone[c].all /\ p.coming = phone[c].coming
        /\ p.sending = {PhoneBody(phone[c])} /\ p.tool = phone[c].tool
    BY <1>1 DEF PhoneType
  <2>3. \A t \in Tool \ {phone[c].tool} : PhoneBody(phone[c]).result[t] = phone[c].all.result[t]
    <3>1. phone[c].all.result \in [Tool -> Score]
      BY <1>1 DEF PhoneType
    <3>. QED  BY <3>1 DEF PhoneBody, With
  <2>. HIDE DEF p
  <2>4. PhoneAgrees(p, row.result)
    BY <1>2, <2>1, <2>2, <2>3 DEF PhoneAgrees, Agree
  <2>. QED  BY <1>2, <1>3, <2>1, <2>2, <2>4, PhoneTurn DEF server, OnlyPhone
<1>6. CASE PhoneLeave(c)
  <2>1. phone[c].on /\ SetPhone(c, ClosedPhone) /\ UNCHANGED <<server, page>>
    BY <1>6 DEF PhoneLeave
  <2>2. ~ClosedPhone.on /\ ClosedPhone.sending = {} /\ ClosedPhone.coming = {}
    BY DEF ClosedPhone
  <2>. QED  BY <1>2, <1>3, <2>1, <2>2, PhoneTurn DEF server
<1>7. CASE \E t \in Tool : Focus(c, t)
  <2>1. PICK t \in Tool : Focus(c, t)
    BY <1>7
  <2>. DEFINE p == Focused(t, Stored)
  <2>2. SetPhone(c, p) /\ UNCHANGED <<server, page, orphans>> /\ Free
    BY <2>1 DEF Focus, TakesTurns
  <2>3. OnlyPhone(c)
    BY <2>2 DEF Free, TakesTurns, OnlyPhone
  <2>4. p.on /\ p.all = Stored /\ p.coming = {} /\ p.sending = {}
    BY DEF Focused, ClosedPhone
  <2>. HIDE DEF p
  <2>5. PhoneAgrees(p, row.result)
    BY <2>4, StoredAgrees DEF PhoneAgrees, Agree
  <2>. QED  BY <1>3, <2>2, <2>3, <2>4, <2>5, PhoneTurn DEF server, OnlyPhone
<1>8. CASE \E i \in Input : Type(c, i)
  <2>1. PICK i \in Input : Type(c, i)
    BY <1>8
  <2>. DEFINE p == [phone[c] EXCEPT !.shown = i]
  <2>2. phone[c].on /\ SetPhone(c, p) /\ UNCHANGED <<server, page, orphans>>
    BY <2>1 DEF Type
  <2>3. /\ p.on = phone[c].on /\ p.all = phone[c].all /\ p.coming = phone[c].coming
        /\ p.sending = phone[c].sending /\ p.tool = phone[c].tool
    BY <1>1 DEF PhoneType
  <2>. HIDE DEF p
  <2>4. PhoneAgrees(p, row.result)
    BY <1>2, <2>2, <2>3 DEF PhoneAgrees
  <2>. QED  BY <1>2, <1>3, <2>2, <2>3, <2>4, PhoneTurn DEF server, OnlyPhone
<1>9. CASE \E b \in phone[c].sending : PhoneAnswer(c, b)
  <2>1. PICK b \in phone[c].sending : PhoneAnswer(c, b)
    BY <1>9
  <2>2. OnlyPhone(c) /\ PhoneAgrees(phone[c], row.result) /\ phone[c].on
    BY <1>2, <2>1 DEF TurnsInv
  <2>3. /\ Write(b) \/ UNCHANGED server
        /\ UNCHANGED <<page, orphans>>
    BY <2>1 DEF PhoneAnswer
  <2>4. \A t \in Tool \ {phone[c].tool} : row'.result[t] = row.result[t]
    <3>1. \A t \in Tool \ {phone[c].tool} : b.result[t] = row.result[t]
      BY <2>2 DEF PhoneAgrees, Agree
    <3>. QED  BY <2>3, <3>1, AgreedStays DEF server
  <2>5. OthersKeep
    BY <2>4 DEF OthersKeep, Touched
  <2>6. PICK p : /\ SetPhone(c, p) /\ p.on = phone[c].on
                 /\ p.all \in {b, phone[c].all} /\ p.coming = phone[c].coming
                 /\ p.sending = {} /\ p.tool = phone[c].tool
    <3>1. \E q \in {[phone[c] EXCEPT !.all = b, !.sending = {}],
                    [phone[c] EXCEPT !.sending = {}]} : SetPhone(c, q)
      BY <2>1 DEF PhoneAnswer
    <3>. QED  BY <1>1, <3>1 DEF PhoneType
  <2>7. PhoneAgrees(p, row'.result)
    <3>. SUFFICES ASSUME NEW t \in Tool \ {p.tool}, NEW q \in {p.all} \cup p.coming \cup p.sending
                  PROVE  q.result[t] = row'.result[t]
      BY DEF PhoneAgrees, Agree
    <3>1. row'.result[t] = row.result[t]
      BY <2>4, <2>6
    <3>2. q \in {phone[c].all} \cup phone[c].coming \cup phone[c].sending
      BY <2>6
    <3>3. q.result[t] = row.result[t]
      BY <2>2, <2>6, <3>2 DEF PhoneAgrees, Agree
    <3>. QED  BY <3>1, <3>3
  <2>. QED  BY <2>2, <2>3, <2>5, <2>6, <2>7, PhoneTurn DEF OnlyPhone
<1>10. CASE \E b \in phone[c].coming : Loaded(c, b)
  <2>1. PICK b \in phone[c].coming : Loaded(c, b)
    BY <1>10
  <2>2. PICK i : i = b.input[phone[c].tool]
    OBVIOUS
  <2>. DEFINE p == [phone[c] EXCEPT !.all = b, !.shown = i, !.coming = @ \ {b}]
  <2>3. phone[c].on /\ SetPhone(c, p) /\ UNCHANGED <<server, page, orphans>>
    BY <2>1, <2>2 DEF Loaded, TurnsInv
  <2>4. /\ p.on = phone[c].on /\ p.all = b /\ p.coming = phone[c].coming \ {b}
        /\ p.sending = phone[c].sending /\ p.tool = phone[c].tool
    BY <1>1 DEF PhoneType
  <2>. HIDE DEF p
  <2>5. PhoneAgrees(p, row.result)
    BY <1>2, <2>3, <2>4 DEF PhoneAgrees, Agree
  <2>. QED  BY <1>2, <1>3, <2>3, <2>4, <2>5, PhoneTurn DEF server, OnlyPhone
<1>. QED
  BY <1>4, <1>5, <1>6, <1>7, <1>8, <1>9, <1>10 DEF PhoneStep

\* While a save whose sender has gone is under way, nobody is on.
LEMMA ArriveTurns ==
  ASSUME TurnsInv, NEW b \in orphans, Arrive(b)
  PROVE  TurnsInv' /\ OthersKeep
<1>1. UNCHANGED <<page, phone>> /\ orphans # {}
  BY DEF Arrive
<1>2. /\ \A c \in Page : ~page[c].on
      /\ \A c \in Phone : ~phone[c].on
  BY <1>1 DEF TurnsInv, OnlyPage, OnlyPhone
<1>. QED  BY <1>1, <1>2 DEF TurnsInv, OthersKeep

LEMMA NextTurns ==
  ASSUME TakesTurns, IInv, TurnsInv, [Next]_vars
  PROVE  TurnsInv' /\ OthersKeep
<1>1. CASE UNCHANGED vars
  <2>1. UNCHANGED <<row, page, phone, orphans>>
    BY <1>1 DEF vars, server
  <2>2. OthersKeep
    BY <2>1 DEF OthersKeep
  <2>3. TurnsInv'
    BY <2>1 DEF TurnsInv, OnlyPage, OnlyPhone, PageAgrees, PhoneAgrees, Agree
  <2>. QED  BY <2>2, <2>3
<1>2. CASE Next
  BY <1>2, PageTurns, PhoneTurns, ArriveTurns DEF Next
<1>. QED  BY <1>1, <1>2

(* A save of a user who has one client open at a time, and whose first loads neither
   fail nor come from the cache, changes the scores of the checklists he opened and of
   no others, whatever becomes of its saves: what handleSave and onSave send for the
   rest is what the server has. *)
THEOREM OthersKeepTheirScoresHolds ==
  ASSUME TakesTurns PROVE Spec => OthersKeepTheirScores
<1>1. Init => IInv /\ TurnsInv
  BY InitFine, TurnsStart
<1>2. IInv /\ TurnsInv /\ [Next]_vars => IInv' /\ TurnsInv'
  BY NextFine, NextTurns
<1>3. IInv /\ TurnsInv /\ [Next]_vars =>
        [\A t \in Tool : row'.result[t] # row.result[t] => Touched(t) \/ orphans # {}]_vars
  BY NextTurns DEF OthersKeep
<1>. QED  BY <1>1, <1>2, <1>3, PTL DEF Spec, OthersKeepTheirScores
=============================================================================
