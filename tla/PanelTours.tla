--------------------------------- MODULE PanelTours ---------------------------------
(* One person at work in one of the front ends: a page that writes a table, a page that  *)
(* shows it, the drawer or form that sends a row, and the cache in between.  The server's *)
(* answers, the mutations' answers and the reads the mutations cause come in any order.   *)
EXTENDS WorkspacePages, FiniteSets, SequencesExt

CONSTANTS Tours,      \* which journeys: [app, from, to, table, key]
          Forgotten,  \* pairs <<table, key>> whose entry a write leaves as it is
          MaxWrites   \* bound: writes of one journey
ASSUME ToursAssumption == MaxWrites \in Nat \ {0}

VARIABLES tour,    \* the journey, chosen at the start
          at,      \* the page that is shown
          server,  \* column -> number of the write that set it last
          cache,   \* key -> its entry
          form,    \* NULL, or the open form: what it copied, and whether that was current
          writes,  \* the writes on their way, in the order they were sent
          made,    \* writes so far
          torn     \* a write was done, in part or whole, and the page was told it failed
vars == <<tour, at, server, cache, form, writes, made, torn>>

\* Every page that writes a table, with every entry some page of the same front end shows
\* of it.  Entries do not depend on each other: a journey follows one, and the one its
\* forms copy from.
AllTours ==
  UNION {UNION {{[app |-> app, from |-> p, to |-> q, table |-> w.table, key |-> k] :
                   w \in PagesOf[app][p].writes, k \in PagesOf[app][q].reads} :
                p \in DOMAIN PagesOf[app], q \in DOMAIN PagesOf[app]} : app \in App}
IsTour(t) == Shows(t.app, t.key, t.table) # {}

PageAt(p) == PagesOf[tour.app][p]
Source(p) == PageAt(p).source
\* The form of the page is about the table of the journey.
Copies(p) ==
  Source(p) # NULL /\ {"left", "right"} \subseteq Shows(tour.app, Source(p), tour.table)
Keys == {tour.key} \cup {Source(p) : p \in {q \in {tour.from, tour.to} : Copies(q)}}
Shown(p, key) == key \in PageAt(p).reads
Rows(key) == [c \in Shows(tour.app, key, tour.table) |-> server[c]]

(* ------------------------------------ the forms --------------------------------------- *)
\* Nothing of this person's own is on the way to the entry.
Current(entry) == Settled(entry) /\ writes = << >>
Filled(entry) ==
  IF entry.data = NULL THEN NULL
  ELSE [copy |-> [c \in {"left", "right"} |-> entry.data[c]], current |-> Current(entry)]
IsDrawer(p) == PageAt(p).seeds = "open"
Covered == IsDrawer(at) /\ form # NULL
\* A page whose form is filled without being opened.
IsForm(p) == PageAt(p).seeds \in {"once", "fresh"} /\ Copies(p)
Appeared(p) == [k \in DOMAIN cache |-> IF Shown(p, k) THEN Mounted(cache[k]) ELSE cache[k]]

Init ==
  /\ tour \in {t \in Tours : IsTour(t)}
  /\ at = tour.from
  /\ server = [c \in Columns |-> 0]
  /\ cache = [k \in Keys |-> IF Shown(at, k) THEN Mounted(Never) ELSE Never]
  /\ form = NULL /\ writes = << >> /\ made = 0 /\ torn = FALSE

(* ----------------------------------- the person --------------------------------------- *)
Arrive(p) ==
  /\ p # at
  /\ at' = p
  /\ cache' = Appeared(p)
  /\ form' = IF IsForm(p) THEN Filled(cache'[Source(p)]) ELSE NULL
  /\ writes' = [i \in DOMAIN writes |-> [writes[i] EXCEPT !.here = FALSE]]
  /\ UNCHANGED <<tour, server, made, torn>>

OpenForm ==
  /\ IsDrawer(at) /\ Copies(at) /\ form = NULL
  /\ form' = Filled(cache[Source(at)])
  /\ UNCHANGED <<tour, at, server, cache, writes, made, torn>>
CloseForm ==
  /\ IsDrawer(at) /\ form # NULL
  /\ form' = NULL
  /\ UNCHANGED <<tour, at, server, cache, writes, made, torn>>

\* What a write sends: the fields it copies, and the field that is changed.  Two that are
\* on their way at a time may overtake each other: neither counts as current.
Sent(op, copy, current, column) ==
  Append([i \in DOMAIN writes |-> [writes[i] EXCEPT !.current = FALSE]],
         [op |-> op,
          row |-> [c \in {column} \cup DOMAIN copy |->
                     IF c = column THEN made + 1 ELSE copy[c]],
          current |-> current /\ writes = << >>,
          source |-> IF op.kind \in {"form", "row"} THEN Source(at) ELSE NULL,
          here |-> TRUE, done |-> FALSE])
SubmitForm(op, column) ==
  /\ op.kind = "form" /\ form # NULL
  /\ \A i \in DOMAIN writes : writes[i].op.kind # "form"      \* the button waits
  /\ writes' = Sent(op, form.copy, form.current, column)
  /\ form' = [form EXCEPT !.copy[column] = made + 1]
SendShownRow(op, column) ==
  /\ op.kind = "row" /\ ~ Covered
  /\ Copies(at) /\ cache[Source(at)].data # NULL
  /\ writes' = Sent(op, Filled(cache[Source(at)]).copy, Current(cache[Source(at)]), column)
  /\ UNCHANGED form
SetOne(op, column) ==
  /\ op.kind \in (IF column = "rows" THEN {"set"} ELSE {"flag", "found"}) /\ column # "right"
  /\ ~ Covered
  /\ writes' = Sent(op, << >>, TRUE, column)
  /\ UNCHANGED form
Send ==
  /\ made < MaxWrites
  /\ \E op \in PageAt(at).writes, column \in Columns :
       /\ op.table = tour.table
       /\ \/ column # "rows" /\ SubmitForm(op, column)
          \/ column # "rows" /\ SendShownRow(op, column)
          \/ SetOne(op, column)
  /\ made' = made + 1
  /\ UNCHANGED <<tour, at, server, cache, torn>>

(* --------------------------------- the server's side ---------------------------------- *)
Stored(columns, row) == [c \in Columns |-> IF c \in columns THEN row[c] ELSE server[c]]
Gone(i) == writes' = RemoveAt(writes, i)
\* The list is read anew for the other field; the row is saved when it has arrived.
Find(i) ==
  /\ writes[i].op.kind = "found" /\ DOMAIN writes[i].row = {"left"}
  /\ writes' = [writes EXCEPT ![i].row = [c \in {"left", "right"} |->
                                           IF c = "left" THEN @["left"] ELSE server[c]]]
  /\ UNCHANGED <<tour, at, server, cache, form, made, torn>>
Commit(i) ==
  /\ ~ writes[i].done
  /\ writes[i].op.kind = "found" => DOMAIN writes[i].row # {"left"}
  /\ server' = Stored(DOMAIN writes[i].row, writes[i].row)
  /\ writes' = [writes EXCEPT ![i].done = TRUE]
  /\ UNCHANGED <<tour, at, cache, form, made, torn>>
Refuse(i) ==
  /\ ~ writes[i].done
  /\ Gone(i)
  /\ UNCHANGED <<tour, at, server, cache, form, made, torn>>
\* Bound: no write is sent after one that was torn.
Torn(i) == Gone(i) /\ torn' = TRUE /\ made' = MaxWrites
\* The admin panel's form is three calls: the first is done, the next is refused.
RefuseTheRest(i) ==
  /\ tour.app = "admin" /\ writes[i].op.kind = "form" /\ ~ writes[i].done
  /\ server' = Stored({"left"}, writes[i].row)
  /\ Torn(i)
  /\ UNCHANGED <<tour, at, cache, form>>
LoseAnswer(i) ==
  /\ writes[i].done
  /\ Torn(i)
  /\ UNCHANGED <<tour, at, server, cache, form>>
ReadTable(k) ==
  /\ cache[k].fetch = "asked"
  /\ cache' = [cache EXCEPT ![k] = Read(@, Rows(k))]
  /\ UNCHANGED <<tour, at, server, form, writes, made, torn>>

(* --------------------------------- back in the page ----------------------------------- *)
\* A write succeeded: its keys are dropped, and the drawer of its page closes.
Return(i) ==
  /\ writes[i].done
  /\ cache' = [k \in DOMAIN cache |->
                 IF \E drop \in writes[i].op.drops : IsPrefix(drop, k)
                 THEN Invalidated(cache[k], Shown(at, k)) ELSE cache[k]]
  /\ form' = IF writes[i].here /\ writes[i].op.kind = "form" /\ IsDrawer(at) THEN NULL ELSE form
  /\ Gone(i)
  /\ UNCHANGED <<tour, at, server, made, torn>>

Answer(k) ==
  /\ cache[k].fetch = "answered"
  /\ cache' = [cache EXCEPT ![k] = Answered(@)]
  /\ form' = IF IsForm(at) /\ k = Source(at) /\ (form = NULL \/ PageAt(at).seeds = "fresh")
             THEN Filled(cache'[k]) ELSE form
  /\ UNCHANGED <<tour, at, server, writes, made, torn>>

\* Bound: a journey is over before data gets old by itself (an old entry is only asked once
\* more, when it is shown anew).
Next ==
  \/ \E p \in {tour.from, tour.to} : Arrive(p)
  \/ OpenForm \/ CloseForm \/ Send
  \/ \E i \in DOMAIN writes :
       Find(i) \/ Commit(i) \/ Refuse(i) \/ RefuseTheRest(i) \/ LoseAnswer(i) \/ Return(i)
  \/ \E k \in DOMAIN cache : ReadTable(k) \/ Answer(k)
Spec == Init /\ [][Next]_vars

(* ------------------------------------ properties -------------------------------------- *)
\* A page that waits for nothing - no write, no answer, no answer that was read before a write
\* was stored - shows this person's own changes: every write drops every entry that shows the
\* table it changed (useCrud and the invalidate lists of the pages), but for the pairs that
\* are listed as forgotten.
OwnChangesAreShown ==
  \A k \in DOMAIN cache :
    (Shown(at, k) /\ Settled(cache[k]) /\ writes = << >> /\ ~ torn
       /\ <<tour.table, k>> \notin Forgotten)
      => cache[k].data = Rows(k)

\* A row that is sent whole from a page that was up to date never puts an older value of a
\* field back, on any page with a form, a drawer or a switch.
OwnChangesStay ==
  [][(/\ server' # server /\ ~ torn /\ Len(writes) = 1
      /\ writes[1].current /\ <<tour.table, writes[1].source>> \notin Forgotten)
       => \A c \in Columns : server'[c] >= server[c]]_vars

\* "mutations invalidate the relevant query keys so lists stay fresh automatically": a list
\* that waits for nothing shows what the server has.
ListsStayFresh ==
  \A k \in DOMAIN cache : (Shown(at, k) /\ Settled(cache[k]) /\ writes = << >> /\ ~ torn)
                    => cache[k].data = Rows(k)
====================================================================================
