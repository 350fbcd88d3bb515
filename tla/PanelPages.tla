--------------------------------- MODULE PanelPages ---------------------------------
(* The pages of the content panel: what each reads, what each writes, and which keys of *)
(* the cache a write drops.  Layout, wording and validation messages are left out.       *)
EXTENDS QueryCache

(* A write changes one table.  "form": a filled form, that sends a row whole; "row": a
   switch or a menu that sends the shown row whole with one field changed; "found": the row
   is read anew, then saved whole with one field changed; "flag": one field is set, nothing
   is copied; "set": a row is added or removed. *)
Write(kind, table, drops) == [kind |-> kind, table |-> table, drops |-> drops]

(* seeds: when a form takes its fields from the answer of `source` - "open" (once, when
   it is opened on a row), "once" (the first answer of the visit), "fresh" (every answer),
   "never" (no form copies). *)
Page(reads, source, seeds, sends) ==
  [reads |-> reads, source |-> source, seeds |-> seeds, writes |-> sends]
Reader(reads) == Page(reads, NULL, "never", {})

\* Every write also drops what the public site's content is shown from.
ContentKey == <<"content">>
UseApiMutation(kind, table, drops) == Write(kind, table, drops \cup {ContentKey})
UseCrud(table, key, also) ==
  {UseApiMutation(kind, table, {key} \cup also) : kind \in {"form", "set"}}

\* Mutant: a change of a category leaves the news as they are.
CategoriesPageAlone == Page({<<"categories">>}, <<"categories">>, "open",
                            UseCrud("categories", <<"categories">>, {}))

(* ----------------------------------- the pages --------------------------------------- *)
NewsPage ==
  LET drops == {<<"news">>, <<"slides">>}
  IN Page({<<"news", "list", "page">>, <<"categories", "list">>, <<"units", "list">>},
          <<"news", "list", "page">>, "open",
          {UseApiMutation(kind, "news", drops) : kind \in {"form", "set"}})
CategoriesPage == Page({<<"categories">>}, <<"categories">>, "open",
                       UseCrud("categories", <<"categories">>, {<<"news">>}))
FooterLinksPage == Page({<<"footer-links">>}, <<"footer-links">>, "open",
                        UseCrud("footer-links", <<"footer-links">>, {<<"settings">>}))
QuickLinksPage == Page({<<"quick-links">>}, <<"quick-links">>, "open",
                       UseCrud("quick-links", <<"quick-links">>, {}))
UnitsPage == Page({<<"units">>}, <<"units">>, "open", UseCrud("units", <<"units">>, {}))
OrgPagesPage == Page({<<"org-pages">>}, <<"org-pages">>, "open",
                     UseCrud("org-pages", <<"org-pages">>, {}))
PeoplePage == Page({<<"people", "list", "group">>}, <<"people", "list", "group">>, "open",
                   UseCrud("people", <<"people", "list", "group">>, {<<"people">>}))
SlidesPage == Page({<<"slides">>, <<"news", "list", "picker">>}, <<"slides">>, "open",
                   UseCrud("slides", <<"slides">>, {}))
\* The switch of a form sends the shown row with isOpen turned round.
FormsPage ==
  Page({<<"forms">>}, <<"forms">>, "open",
       UseCrud("forms", <<"forms">>, {})
         \cup {UseApiMutation("row", "forms", {<<"forms">>})})
SubmissionsPage ==
  Page({<<"submissions", "list", "page">>, <<"forms", "list">>}, NULL, "never",
       {UseApiMutation("flag", "submissions", {<<"submissions">>}),
        UseApiMutation("set", "submissions", {<<"submissions">>, <<"forms">>})})
MessagesPage == Page({<<"contact-messages", "list", "page">>}, NULL, "never",
                     {UseApiMutation(kind, "contact-messages", {<<"contact-messages">>}) :
                        kind \in {"flag", "set"}})
\* The form is the page; every new answer fills it again.
SettingsPage == Page({<<"settings", "get">>}, <<"settings", "get">>, "fresh",
                     {UseApiMutation("form", "settings", {<<"settings">>})})
TabGroupsPage ==
  Page({<<"tab-groups">>}, <<"tab-groups">>, "open",
       UseCrud("tab-groups", <<"tab-groups">>, {})
         \cup {UseApiMutation(kind, "tab-groups", {<<"tab-groups">>}) : kind \in {"form", "set"}})
\* Ten lists on one page; two flags can be set from it.
DashboardPage ==
  Page({<<"settings", "get">>, <<"news", "list", "count">>, <<"slides", "list">>,
        <<"people", "list", "all">>, <<"units", "list">>, <<"forms", "list">>,
        <<"submissions", "list", "latest">>, <<"submissions", "list", "pending">>,
        <<"contact-messages", "list", "latest">>, <<"contact-messages", "list", "unread">>},
       NULL, "never",
       {UseApiMutation("flag", "submissions", {<<"submissions">>}),
        UseApiMutation("flag", "contact-messages", {<<"contact-messages">>})})

LandingPages ==
  [News |-> NewsPage, Categories |-> CategoriesPage, FooterLinks |-> FooterLinksPage,
   QuickLinks |-> QuickLinksPage, Units |-> UnitsPage, OrgPages |-> OrgPagesPage,
   People |-> PeoplePage, Slides |-> SlidesPage, Forms |-> FormsPage,
   Submissions |-> SubmissionsPage, Messages |-> MessagesPage,
   Settings |-> SettingsPage, TabGroups |-> TabGroupsPage,
   Dashboard |-> DashboardPage]

(* -------------------------- what the server answers with ------------------------------ *)
(* Of a table three things are told apart: two fields of one row and which rows there are.
   Some answers carry something of another table: the name of a news item's category, the
   number of a category's news or of a form's submissions, a slide's news item, the links
   in the footer of the settings. *)
Columns == {"left", "right", "rows"}
LandingAnswers(resource) ==
  CASE resource = "news" -> {<<"categories", "left">>, <<"units", "rows">>}
    [] resource = "categories" -> {<<"news", "left">>, <<"news", "rows">>}
    [] resource = "slides" -> {<<"news", "left">>}
    [] resource = "forms" -> {<<"submissions", "rows">>}
    [] resource = "submissions" -> {<<"forms", "left">>, <<"forms", "rows">>}
    [] resource = "settings" -> {<<"footer-links", c>> : c \in Columns}
    [] OTHER -> {}
====================================================================================
