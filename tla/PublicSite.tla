--------------------------------- MODULE PublicSite ---------------------------------
(* The public site of the Kurdnezam content: the panel changes the tables, the server    *)
(* reads them one query after another and keeps what it read, and a visitor's pages show  *)
(* the payload they were loaded with for as long as links, not the address bar, are used. *)
(* News are numbered as they are published, a number never comes back, and they are       *)
(* listed newest first: the first of a list are those with few newer ones.                *)
EXTENDS Integers, FiniteSets, SequencesExt

CONSTANTS MaxNews,    \* bound: news ever published
          NewsLimit,  \* news of one payload
          MaxEdits,   \* bound: changes of the tables
          OrgSlugs    \* the pages of the organisation, five in the code
ASSUME SiteAssumption == MaxNews \in Nat /\ NewsLimit \in Nat

VARIABLES
  tables,   \* the rows: news and the last number given, the article of every slide (0: none),
            \* the articles that links of tab-group items name, categories, units, ...
  edits,    \* how often they were changed
  reading,  \* what a read that is under way has so far
  kept,     \* the payload the server keeps, EMPTY_CONTENT before the first
  content,  \* the payload of the visitor's page
  place, via,   \* the page, and which page's link led there
  index,    \* Slider: the slide shown
  cat,      \* NewsHub: the category shown
  selected  \* NewsHub: the article in the reader, 0 for none
siteVars == <<tables, edits, reading, kept, content, place, via, index, cat, selected>>

CategoryOf(n) == n % 2
EMPTY_CONTENT == [news |-> {}, slides |-> << >>, categories |-> {}, units |-> {}, items |-> {},
                  forms |-> {}, orgPages |-> {}, torn |-> FALSE]
NotReading == [under |-> "no", slides |-> << >>, categories |-> {}, news |-> {}, torn |-> FALSE]
At(page, id) == [page |-> page, id |-> id]
Page(page) == At(page, 0)

(* ------------------------------------ the panel --------------------------------------- *)
Edit(to) ==
  /\ edits < MaxEdits /\ edits' = edits + 1
  /\ tables' = to
  /\ reading' = [reading EXCEPT !.torn = reading.under # "no"]
  /\ UNCHANGED <<kept, content, place, via, index, cat, selected>>

CreateNews ==
  \E n \in 1..MaxNews :
    /\ n > tables.published
    /\ CategoryOf(n) \in tables.categories
    /\ Edit([tables EXCEPT !.news = @ \cup {n}, !.published = n])
\* Mutant: an article can be deleted with a slide on it.
DeleteAnyNews == \E n \in tables.news : Edit([tables EXCEPT !.news = @ \ {n}])
\* The database keeps an article from being deleted under a slide.  A tab-group item holds
\* its article as an address, a text: nothing keeps that one.
DeleteNews ==
  \E n \in tables.news :
    /\ \A i \in DOMAIN tables.slides : tables.slides[i] # n
    /\ Edit([tables EXCEPT !.news = @ \ {n}])
CreateSlide ==
  \E n \in tables.news \cup {0} : Edit([tables EXCEPT !.slides = Append(@, n)])
UpdateSlide ==
  \E i \in DOMAIN tables.slides : \E n \in tables.news \cup {0} :
    Edit([tables EXCEPT !.slides = ReplaceAt(@, i, n)])
DeleteSlide ==
  \E i \in DOMAIN tables.slides : Edit([tables EXCEPT !.slides = RemoveAt(@, i)])
\* Two items may name one article: changing or deleting one of them then leaves the other.
CreateTabItem == \E n \in tables.news : Edit([tables EXCEPT !.items = @ \cup {n}])
UpdateTabItem ==
  \E m \in tables.items, n \in tables.news : Edit([tables EXCEPT !.items = (@ \ {m}) \cup {n}])
DeleteTabItem == \E m \in tables.items : Edit([tables EXCEPT !.items = @ \ {m}])
DeleteTabGroup ==
  \E group \in SUBSET tables.items : group # {} /\ Edit([tables EXCEPT !.items = @ \ group])
DeleteCategory ==
  \E c \in tables.categories :
    /\ \A n \in tables.news : CategoryOf(n) # c
    /\ Edit([tables EXCEPT !.categories = @ \ {c}])
DeleteUnit == \E u \in tables.units : Edit([tables EXCEPT !.units = @ \ {u}])
DeleteForm == \E f \in tables.forms : Edit([tables EXCEPT !.forms = @ \ {f}])
DeleteOrgPage == \E p \in tables.orgPages : Edit([tables EXCEPT !.orgPages = @ \ {p}])

(* ------------------------------------ the server -------------------------------------- *)
\* Ten queries, no transaction around them: what the panel changes between the slides, the
\* news they name and the tab groups that name news too leaves the payload torn.
SendSlides ==
  /\ reading.under = "no"
  /\ reading' = [NotReading EXCEPT !.under = "slides", !.slides = tables.slides,
                                   !.categories = tables.categories]
  /\ UNCHANGED <<tables, edits, kept, content, place, via, index, cat, selected>>
Newest(news, k) == {n \in news : Cardinality({m \in news : m > n}) < k}
SendNews ==
  /\ reading.under = "slides"
  /\ reading' = [reading EXCEPT !.under = "news", !.news = Newest(tables.news, NewsLimit)]
  /\ UNCHANGED <<tables, edits, kept, content, place, via, index, cat, selected>>
\* The payload is kept for a minute and the old one is shown while a new one is read.
SendTabGroups ==
  /\ reading.under = "news"
  /\ kept' = [news |-> reading.news, slides |-> reading.slides,
              categories |-> reading.categories, units |-> tables.units, items |-> tables.items,
              forms |-> tables.forms, orgPages |-> tables.orgPages, torn |-> reading.torn]
  /\ reading' = NotReading
  /\ UNCHANGED <<tables, edits, content, place, via, index, cat, selected>>

(* ------------------------------------- the pages -------------------------------------- *)
Shown(n) == At("news", n)
ArticleLinks(articles) == {Shown(n) : n \in articles}
InCategory(c) == {n \in content.news : CategoryOf(n) = c}

useNav ==
  {Page("home"), Page("news"), Page("p/arkan"), Page("p/tamas")}
    \cup {At("news?category", c) : c \in content.categories}
    \cup {Page(p) : p \in OrgSlugs}
    \cup {At("tab-item", u) : u \in content.units}
Slider ==
  IF content.slides = << >> \/ content.slides[index] = 0 THEN {}
  ELSE {Shown(content.slides[index])}
Hero == {Page("news"), Page("p/arkan")} \cup Slider
Ticker == ArticleLinks(Newest(content.news, 6))
\* The units, the items of the other tabs, and the forms below.
UnitsCompact ==
  {At("tab-item", u) : u \in content.units} \cup ArticleLinks(content.items)
    \cup {At("forms", f) : f \in content.forms}
NewsHub ==
  {Page("news")}
    \cup (IF InCategory(cat) = {} THEN {} ELSE {At("news?category", cat)})
    \cup (IF selected = 0 THEN {} ELSE {Shown(selected)})
\* With no category asked for, every article.
NewsList ==
  LET items == IF place.page = "news?category" THEN InCategory(place.id) ELSE content.news
  IN {Page("news")} \cup {At("news?category", c) : c \in content.categories}
       \cup ArticleLinks(items)
Related == InCategory(CategoryOf(place.id)) \ {place.id}
NewsDetailPage ==
  {Page("news")} \cup (IF place.id \in content.news THEN ArticleLinks(Newest(Related, 3)) ELSE {})
\* The news of the unit, or those whose title has its name: some of the payload's.
UnitPage ==
  IF place.id \notin content.units THEN {Page("home")}
  ELSE {Page("home")} \cup ArticleLinks(content.news)
         \cup {At("forms", IF content.forms = {} THEN 1
                           ELSE CHOOSE f \in content.forms : \A g \in content.forms : f <= g)}
ArkanPage == {Page(p) : p \in OrgSlugs}

Links ==
  useNav \cup (CASE place.page = "home" -> Hero \cup Ticker \cup UnitsCompact \cup NewsHub
                 [] place.page \in {"news", "news?category"} ->
                      IF place.page = "news" /\ place.id # 0 THEN NewsDetailPage ELSE NewsList
                 [] place.page = "tab-item" -> UnitPage
                 [] place.page = "p/arkan" -> ArkanPage
                 [] OTHER -> {Page("home")})
Found ==
  CASE place.page = "news" -> place.id = 0 \/ place.id \in content.news
    [] place.page = "tab-item" -> place.id \in content.units
    [] place.page = "forms" -> place.id \in content.forms
    [] place.page \in OrgSlugs -> place.page \in content.orgPages
    [] OTHER -> TRUE

(* ------------------------------------ the visitor ------------------------------------- *)
Mount(payload) ==
  /\ index' = 1
  /\ cat' = IF payload.categories = {} THEN 0
            ELSE CHOOSE c \in payload.categories : \A d \in payload.categories : c <= d
  /\ selected' = 0
\* Of two articles the first was deleted, and a tab-group item still has its address.
SiteInit ==
  /\ tables = [news |-> {2}, published |-> 2, slides |-> <<2>>, items |-> {1},
               categories |-> {0, 1}, units |-> {1}, forms |-> {2}, orgPages |-> OrgSlugs]
  /\ edits = 0 /\ reading = NotReading
  /\ kept = EMPTY_CONTENT /\ content = EMPTY_CONTENT
  /\ place = Page("home") /\ via = "none"
  /\ index = 1 /\ cat = 0 /\ selected = 0
\* The home page is loaded from its address.
RootLayout ==
  /\ content' = kept
  /\ place' = Page("home") /\ via' = "none"
  /\ Mount(kept)
  /\ UNCHANGED <<tables, edits, reading, kept>>
FollowLink ==
  /\ \E to \in Links : place' = to /\ via' = IF place.page = "home" THEN "home" ELSE "other"
  /\ Mount(content)
  /\ UNCHANGED <<tables, edits, reading, kept, content>>
AtHome == place.page = "home" /\ UNCHANGED <<tables, edits, reading, kept, content, place, via>>
\* The two buttons, the dots, and the turn that comes by itself.
TurnSlide ==
  /\ AtHome /\ content.slides # << >>
  /\ LET n == Len(content.slides)
     IN index' \in {(index % n) + 1, ((index - 2 + n) % n) + 1} \cup 1..n
  /\ UNCHANGED <<cat, selected>>
SetCat ==
  /\ AtHome /\ selected = 0
  /\ cat' \in content.categories
  /\ UNCHANGED <<index, selected>>
NewsReader ==
  /\ AtHome
  /\ selected' \in IF selected = 0 THEN Newest(InCategory(cat), 5) ELSE {0}
  /\ UNCHANGED <<index, cat>>

(* ------------------------------------ properties -------------------------------------- *)
\* Whoever follows a link of the site gets a page: what a link names is in the payload it
\* came from.  But for four: the fixed links to pages of the organisation, which the panel may
\* have deleted; "the forms" of a unit when there are none; a slide or a tab-group item, when
\* its article is older than the news of one payload or the read was torn by a change of the
\* tables; and a tab-group item whose article was deleted, which no reference keeps.
SiteLinksLead ==
  \/ via = "none" \/ Found
  \/ place.page \in OrgSlugs
  \/ place.page = "forms" /\ content.forms = {}
  \/ /\ via = "home" /\ place \in ArticleLinks(ToSet(content.slides) \cup content.items)
     /\ Cardinality(content.news) = NewsLimit \/ content.torn
  \/ via = "home" /\ place \in ArticleLinks(content.items \ tables.news)
====================================================================================
