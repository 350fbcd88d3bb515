-------------------------------- MODULE PlatformForms --------------------------------
(* The forms of the platform - the drawers of the content panel and of the admin panel,  *)
(* the project forms of the web and of the phone, the two public forms of the content     *)
(* site - and the rules of the server behind them: what a text field takes, what is sent  *)
(* for it, what the server refuses, and what a form shows when the stored row is opened   *)
(* again.  One field is followed; the others are in order.                                *)
EXTENDS Integers

CONSTANTS NoText,       \* no text: undefined in a form, null in a row
          Letters,    \* bound: the numbers of letters a text may have
          Unlimited   \* longer than any text
ASSUME FormsAssumption ==
  /\ Unlimited \in Nat \ {0} /\ Letters \subseteq Nat /\ \A n \in Letters : n < Unlimited
  /\ NoText \notin [letters : Nat, space : {0, 1}]

VARIABLES of,      \* which field of which form
          typed,   \* what the drawer shows in it
          touched, \* it was typed in since the drawer was opened
          row,     \* what the server has stored, NoText before it was stored
          drawer   \* "open", "waiting", "closed", "refused": the form
formVars == <<of, typed, touched, row, drawer>>

(* A text is its letters and a space before or after them, or none. *)
Text(letters, space) == [letters |-> letters, space |-> space]
Long(t) == t.letters + t.space
EmptyText == Text(0, 0)
Trim(t) == Text(t.letters, 0)

(* ---------------------------------- the forms ----------------------------------------- *)
(* asks: "given" - the form asks for something, and takes a space; "text" - it asks for
   more than spaces; "no".  limit: what the input lets in.  sends: what becomes of it -
   as it is, trimmed, or trimmed with an empty one sent as "" or as null; "orKeep" is a
   null for which the server keeps what it has.  spaces: whether there may be one about it. *)
Item(asks, limit, sends) == [asks |-> asks, limit |-> limit, sends |-> sends, spaces |-> {0, 1}]
\* No space about it: it is chosen, uploaded, checked against a pattern, or HTML.
Word(asks, limit, sends) == [asks |-> asks, limit |-> limit, sends |-> sends, spaces |-> {0}]
\* The length of "/api/kurdnezam/media/", 32 digits and an extension, and of the longest group
\* and city there are to choose from.
PathLength == 58
GroupLength == 15
CityLength == 8
Image(asks, sends) == Word(asks, PathLength, sends)
NewsForm ==
  [title |-> Item("given", 200, "trim"), summary |-> Item("given", 500, "trim"),
   body |-> Word("given", Unlimited, "asIs"), date |-> Item("given", Unlimited, "trim"),
   author |-> Item("given", 100, "trim"), image |-> Image("no", "orEmpty")]
CategoriesForm == [title |-> Item("given", 100, "trim")]
FooterLinksForm ==
  [title |-> Item("text", 100, "trim"), href |-> Item("text", Unlimited, "trim")]
QuickLinksForm == [title |-> Item("text", 100, "trim"), href |-> Item("text", Unlimited, "trim")]
UnitsForm ==
  [title |-> Item("given", 150, "trim"), description |-> Item("no", 1000, "orEmpty"),
   headName |-> Item("no", 120, "orNull"), headRole |-> Item("no", 120, "orNull")]
OrgPagesForm ==
  [slug |-> Word("given", Unlimited, "trim"), title |-> Item("given", Unlimited, "trim"),
   intro |-> Item("no", Unlimited, "orEmpty"), group |-> Word("no", GroupLength, "orNull")]
PeopleForm ==
  [name |-> Item("given", 120, "trim"), role |-> Item("given", 120, "trim"),
   image |-> Image("no", "orNull")]
\* Mutant: the subtitle may be as long as the news item's body.
LongSlidesForm ==
  [title |-> Item("text", 200, "trim"), subtitle |-> Item("no", 1000, "orEmpty"),
   badge |-> Item("no", 50, "orEmpty"), image |-> Image("given", "orEmpty")]
SlidesForm ==
  [title |-> Item("text", 200, "trim"), subtitle |-> Item("no", 300, "orEmpty"),
   badge |-> Item("no", 50, "orEmpty"), image |-> Image("given", "orEmpty")]
FormsForm ==
  [title |-> Item("given", 200, "trim"), note |-> Item("no", 1000, "orEmpty"),
   deadline |-> Item("no", 100, "orEmpty"), image |-> Image("no", "orEmpty")]
SettingsForm ==
  [nameFa |-> Item("given", Unlimited, "orEmpty"), nameKu |-> Item("no", Unlimited, "orEmpty"),
   nameEn |-> Item("no", Unlimited, "orEmpty"), tagline |-> Item("no", Unlimited, "orEmpty"),
   address |-> Item("no", Unlimited, "orEmpty"), phones |-> Item("no", Unlimited, "orNull"),
   postalCode |-> Item("no", Unlimited, "orEmpty"), telegram |-> Item("no", Unlimited, "orEmpty"),
   instagram |-> Item("no", Unlimited, "orEmpty")]
TabGroupForm ==
  [slug |-> Word("given", Unlimited, "trim"), title |-> Item("given", Unlimited, "trim")]
TabItemForm ==
  [title |-> Item("given", Unlimited, "trim"), href |-> Item("no", Unlimited, "orNull"),
   note |-> Item("no", Unlimited, "orNull")]
UserForm ==
  [userName |-> Item("given", 256, "trim"), email |-> Word("no", Unlimited, "orKeep"),
   phoneNumber |-> Item("no", Unlimited, "orKeep")]
WebProjectForm ==
  [title |-> Item("text", Unlimited, "trim"), client |-> Item("no", Unlimited, "orNull"),
   address |-> Item("no", Unlimited, "orNull"), usage |-> Item("no", Unlimited, "orNull"),
   city |-> Word("no", CityLength, "orNull")]
MobileProjectForm ==
  [title |-> Item("text", Unlimited, "trim"), client |-> Item("no", Unlimited, "asIs"),
   city |-> Item("no", Unlimited, "asIs"), climateCode |-> Item("no", Unlimited, "asIs")]
SubmissionForm ==
  [fullName |-> Item("given", Unlimited, "trim"), nationalId |-> Item("given", Unlimited, "trim"),
   membershipNo |-> Item("given", Unlimited, "trim"), mobile |-> Item("given", Unlimited, "trim"),
   notes |-> Item("no", Unlimited, "orNull")]
ContactForm ==
  [name |-> Item("given", Unlimited, "trim"), phone |-> Item("given", Unlimited, "trim"),
   subject |-> Item("no", Unlimited, "trim"), message |-> Item("given", Unlimited, "trim")]

(* ---------------------------- the rules of the server --------------------------------- *)
\* What a validator asks for, and the least of what it and the column of the table take.
Rule(notEmpty, max) == [notEmpty |-> notEmpty, max |-> max]
NewsRules ==
  [title |-> Rule(TRUE, 500), summary |-> Rule(TRUE, 1000), body |-> Rule(TRUE, Unlimited),
   date |-> Rule(TRUE, 30), author |-> Rule(TRUE, 200), image |-> Rule(TRUE, 1000)]
CategoriesRules == [title |-> Rule(TRUE, 200)]
FooterLinksRules == [title |-> Rule(TRUE, 300), href |-> Rule(TRUE, 1000)]
QuickLinksRules == [title |-> Rule(TRUE, 300), href |-> Rule(TRUE, 1000)]
UnitsRules ==
  [title |-> Rule(TRUE, 300), description |-> Rule(TRUE, Unlimited),
   headName |-> Rule(FALSE, 200), headRole |-> Rule(FALSE, 200)]
OrgPagesRules ==
  [slug |-> Rule(TRUE, 100), title |-> Rule(TRUE, 300), intro |-> Rule(TRUE, Unlimited),
   group |-> Rule(FALSE, 50)]
PeopleRules ==
  [name |-> Rule(TRUE, 200), role |-> Rule(TRUE, 200), image |-> Rule(FALSE, 1000)]
SlidesRules ==
  [title |-> Rule(TRUE, 500), subtitle |-> Rule(TRUE, 500), badge |-> Rule(TRUE, 200),
   image |-> Rule(TRUE, 1000)]
FormsRules ==
  [title |-> Rule(TRUE, 500), note |-> Rule(TRUE, 1000), deadline |-> Rule(TRUE, 100),
   image |-> Rule(TRUE, 1000)]
SettingsRules ==
  [nameFa |-> Rule(TRUE, 300), nameKu |-> Rule(TRUE, 300), nameEn |-> Rule(TRUE, 300),
   tagline |-> Rule(TRUE, 500), address |-> Rule(TRUE, 1000), phones |-> Rule(FALSE, 30),
   postalCode |-> Rule(TRUE, 20), telegram |-> Rule(TRUE, 500), instagram |-> Rule(TRUE, 500)]
TabGroupRules == [slug |-> Rule(TRUE, 100), title |-> Rule(TRUE, 300)]
TabItemRules == [title |-> Rule(TRUE, 300), href |-> Rule(FALSE, 1000), note |-> Rule(FALSE, 500)]
UserRules ==
  [userName |-> Rule(TRUE, 256), email |-> Rule(FALSE, 256), phoneNumber |-> Rule(FALSE, Unlimited)]
ProjectRules ==
  [title |-> Rule(TRUE, 200), client |-> Rule(FALSE, 200), address |-> Rule(FALSE, 500),
   usage |-> Rule(FALSE, 200), city |-> Rule(TRUE, 100), climateCode |-> Rule(FALSE, 8)]
SubmissionRules ==
  [fullName |-> Rule(TRUE, 200), nationalId |-> Rule(TRUE, 20), membershipNo |-> Rule(TRUE, 50),
   mobile |-> Rule(TRUE, 20), notes |-> Rule(FALSE, 2000)]
ContactRules ==
  [name |-> Rule(TRUE, 200), phone |-> Rule(TRUE, 30), subject |-> Rule(TRUE, 300),
   message |-> Rule(TRUE, Unlimited)]

Drawers ==
  [News |-> NewsForm, Categories |-> CategoriesForm, FooterLinks |-> FooterLinksForm,
   QuickLinks |-> QuickLinksForm, Units |-> UnitsForm, OrgPages |-> OrgPagesForm,
   People |-> PeopleForm, Slides |-> SlidesForm, Forms |-> FormsForm,
   Settings |-> SettingsForm, TabGroup |-> TabGroupForm, TabItem |-> TabItemForm,
   User |-> UserForm, WebProject |-> WebProjectForm, MobileProject |-> MobileProjectForm,
   Submission |-> SubmissionForm, Contact |-> ContactForm]
Rules ==
  [News |-> NewsRules, Categories |-> CategoriesRules, FooterLinks |-> FooterLinksRules,
   QuickLinks |-> QuickLinksRules, Units |-> UnitsRules, OrgPages |-> OrgPagesRules,
   People |-> PeopleRules, Slides |-> SlidesRules, Forms |-> FormsRules,
   Settings |-> SettingsRules, TabGroup |-> TabGroupRules, TabItem |-> TabItemRules,
   User |-> UserRules, WebProject |-> ProjectRules, MobileProject |-> ProjectRules,
   Submission |-> SubmissionRules, Contact |-> ContactRules]
\* What is filled in once, and not shown in its form again.
FilledOnce == {"MobileProject", "Submission", "Contact"}
Here == Drawers[of.page][of.item]
There == Rules[of.page][of.item]

(* ------------------------------------ the steps --------------------------------------- *)
Texts == {Text(n, s) : n \in Letters, s \in {0, 1}}
\* What the browser lets in, and what the form then asks for.
LetsIn(t) == Long(t) <= Here.limit /\ t.space \in Here.spaces
Complete == Here.asks = "no" \/ (typed # NoText /\ (IF Here.asks = "text" THEN typed.letters > 0
                                                  ELSE typed # EmptyText))
Sent ==
  IF Here.sends = "asIs" THEN typed
  ELSE IF typed # NoText /\ typed.letters > 0 THEN Trim(typed)
  ELSE IF Here.sends \in {"orNull", "orKeep"} THEN NoText ELSE EmptyText
Refused(t) ==
  IF t = NoText THEN There.notEmpty
  ELSE (There.notEmpty /\ t.letters = 0) \/ Long(t) > There.max

FormsInit ==
  /\ of \in [page : DOMAIN Drawers, item : UNION {DOMAIN Drawers[p] : p \in DOMAIN Drawers}]
  /\ of.item \in DOMAIN Drawers[of.page]
  /\ typed = NoText /\ touched = FALSE /\ row = NoText /\ drawer = "open"

Type ==
  /\ drawer \in {"open", "refused"}
  /\ typed' \in {t \in Texts : LetsIn(t)}
  /\ touched' = TRUE /\ drawer' = "open"
  /\ UNCHANGED <<of, row>>
\* The drawer asks its rules first; what they do not take is not sent.
HandleSubmit ==
  /\ drawer = "open" /\ Complete
  /\ drawer' = "waiting"
  /\ UNCHANGED <<of, typed, touched, row>>
\* The server answers: the drawer closes on a row that is stored, and stays on a refusal.
Store ==
  /\ drawer = "waiting" /\ ~ Refused(Sent)
  /\ row' = (IF Sent = NoText /\ Here.sends = "orKeep" THEN row ELSE Sent)
  /\ drawer' = "closed"
  /\ UNCHANGED <<of, typed, touched>>
Refuse ==
  /\ drawer = "waiting" /\ Refused(Sent)
  /\ drawer' = "refused"
  /\ UNCHANGED <<of, typed, touched, row>>
\* The drawer is filled from the row on every opening.
OpenDrawer ==
  /\ drawer \in {"closed", "refused"} /\ row # NoText /\ of.page \notin FilledOnce
  /\ typed' = row /\ touched' = FALSE /\ drawer' = "open"
  /\ UNCHANGED <<of, row>>
FormsNext == Type \/ HandleSubmit \/ Store \/ Refuse \/ OpenDrawer

(* ------------------------------------ properties -------------------------------------- *)
\* Where the forms and the server disagree: what only the server asks for,
AskedForByTheServer ==
  [page : {"News"}, item : {"image"}]
  \cup [page : {"Units"}, item : {"description"}]
  \cup [page : {"OrgPages"}, item : {"intro"}]
  \cup [page : {"Slides"}, item : {"subtitle", "badge"}]
  \cup [page : {"Forms"}, item : {"note", "deadline", "image"}]
  \cup [page : {"Settings"}, item : {"nameKu", "nameEn", "tagline", "address", "postalCode",
                                     "telegram", "instagram"}]
  \cup [page : {"WebProject", "MobileProject"}, item : {"city"}]
  \cup [page : {"Contact"}, item : {"subject"}]
\* and what only the server keeps short.
LimitedByTheServer ==
  [page : {"News"}, item : {"date"}]
  \cup [page : {"FooterLinks", "QuickLinks"}, item : {"href"}]
  \cup [page : {"OrgPages", "TabGroup"}, item : {"slug", "title"}]
  \cup [page : {"Settings"}, item : {"nameFa", "nameKu", "nameEn", "tagline", "address", "phones",
                                     "postalCode", "telegram", "instagram"}]
  \cup [page : {"TabItem"}, item : {"title", "href", "note"}]
  \cup [page : {"User"}, item : {"email"}]
  \cup [page : {"WebProject"}, item : {"title", "client", "address", "usage"}]
  \cup [page : {"MobileProject"}, item : {"title", "client", "city", "climateCode"}]
  \cup [page : {"Submission"}, item : {"fullName", "nationalId", "membershipNo", "mobile", "notes"}]
  \cup [page : {"Contact"}, item : {"name", "phone", "subject"}]

\* What a form lets a person send is refused by the server only where one of the two lists
\* says so - nothing where the server asks for something, something longer than only the
\* server minds - or for nothing but spaces in a field that asks without `whitespace`.
OnlyKnownRefusals ==
  drawer = "refused" =>
    \/ of \in AskedForByTheServer /\ (typed = NoText \/ typed.letters = 0)
    \/ of \in LimitedByTheServer /\ Sent # NoText /\ Long(Sent) > There.max
    \/ Here.asks = "given" /\ typed = Text(0, 1)

\* A row that was stored from a drawer, opened again and left alone, is complete for the
\* drawer, taken by the server and sent as it is stored: nothing is stored that the drawer
\* would not let a person keep, and filling and sending undo each other.
RowsCanBeSavedAgain ==
  (drawer = "open" /\ ~ touched /\ row # NoText) => (Complete /\ ~ Refused(Sent) /\ Sent = row)

\* The forms fit the server behind them, but for what the lists name.
FormsFitTheServer == OnlyKnownRefusals /\ RowsCanBeSavedAgain
====================================================================================
