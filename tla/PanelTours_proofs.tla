------------------------------ MODULE PanelTours_proofs ------------------------------
(* What a person has changed is shown, and is not put back: of the pages of the five front
   ends, for any number of writes and any order of commits, answers and reads.

   The proof has two halves.  The first takes the pages as they come: if they fit (every
   write drops every entry that shows what it changes, PagesFit), IInv is inductive.  An
   entry that is taken for current is what the server has, unless a write is done that will
   drop it; a form that was current when it was filled is behind nobody; a write that was
   filled from it is alone, and nothing it sends is older than what is stored.  The second
   half goes through the pages: each lemma ...Fits is about one front end. *)
EXTENDS MCPanels, SequenceTheorems, TLAPS
USE ToursAssumption

-----------------------------------------------------------------------------
(* What the pages must be like.  A write drops every entry of the journey that shows
   what it changes; a form copies from what its page reads; a page whose form is filled
   without being opened sends no single field beside it. *)
Remembered(t, k) == <<t.table, k>> \notin Forgotten
SourceOf(t, p) == PagesOf[t.app][p].source
KeysOfTour(t) == {t.key} \cup ({SourceOf(t, p) : p \in {t.from, t.to}} \ {NULL})
Fields == {"left", "right"}
Changes(w) ==
  IF w.kind = "set" THEN {"rows"} ELSE IF w.kind = "flag" THEN {"left"} ELSE Fields
Drops(w, k) == \E drop \in w.drops : IsPrefix(drop, k)

WritesDrop ==
  \A t \in Tours : \A p \in {t.from, t.to} : \A w \in PagesOf[t.app][p].writes :
  \A k \in KeysOfTour(t) :
    (/\ w.table = t.table /\ Remembered(t, k)
     /\ Changes(w) \cap Shows(t.app, k, t.table) # {}) => Drops(w, k)
SourcesAreRead ==
  \A t \in Tours : \A p \in {t.from, t.to} :
    SourceOf(t, p) # NULL => SourceOf(t, p) \in PagesOf[t.app][p].reads
FormsAlone ==
  \A t \in Tours : \A p \in {t.from, t.to} : \A w \in PagesOf[t.app][p].writes :
    w.table = t.table /\ PagesOf[t.app][p].seeds \in {"once", "fresh"}
      => w.kind \notin {"row", "flag", "found"}
PagesFit == WritesDrop /\ SourcesAreRead /\ FormsAlone

-----------------------------------------------------------------------------
(* Types. *)
Numbers == 0..made
Values(k) == [Shows(tour.app, k, tour.table) -> Numbers]
EntryType(k) ==
  [data: Values(k) \cup {NULL}, fresh: BOOLEAN, fetch: {"idle", "asked", "answered"},
   answer: Values(k) \cup {NULL}, raced: BOOLEAN]
Ops == {w \in PageAt(tour.from).writes \cup PageAt(tour.to).writes : w.table = tour.table}
RowType == UNION {[S -> Numbers] : S \in SUBSET Columns}
WriteType ==
  [op: Ops, row: RowType, current: BOOLEAN,
   source: {NULL, Source(tour.from), Source(tour.to)}, here: BOOLEAN, done: BOOLEAN]
FormType == [copy: [Fields -> Numbers], current: BOOLEAN]

TypeInv ==
  /\ tour \in Tours /\ IsTour(tour) /\ at \in {tour.from, tour.to}
  /\ made \in 0..MaxWrites /\ torn \in BOOLEAN
  /\ server \in [Columns -> Numbers]
  /\ DOMAIN cache = Keys /\ \A k \in Keys : cache[k] \in EntryType(k)
  /\ writes \in Seq(WriteType)
  /\ form # NULL => form \in FormType

(* A write is done and the page does not know it yet: nothing is said of the entries it
   will drop.  Otherwise what is taken for current is what the server has. *)
Pending(k) == \E i \in DOMAIN writes : writes[i].done /\ Drops(writes[i].op, k)
Known(k) == ~ torn /\ ~ Pending(k) /\ Remembered(tour, k)
Good(k) ==
  /\ Shown(at, k) /\ cache[k].fetch = "idle" => cache[k].fresh
  /\ Known(k) /\ Settled(cache[k]) /\ cache[k].fresh => cache[k].data = Rows(k)
  /\ Known(k) /\ cache[k].fetch = "answered" /\ ~ cache[k].raced
       => cache[k].answer = Rows(k)
CacheInv == \A k \in Keys : Good(k)

(* A form that was current when it was filled is behind nobody: what it does not have
   from the server it has sent itself, or is about to. *)
NotAbove(row, copy) == \A c \in Fields : c \in DOMAIN row => row[c] <= copy[c]
FormInv ==
  form # NULL =>
    /\ Copies(at) /\ (IsDrawer(at) \/ IsForm(at))
    /\ form.current /\ ~ torn /\ Remembered(tour, Source(at)) =>
         /\ NotAbove(server, form.copy)
         /\ \A i \in DOMAIN writes : NotAbove(writes[i].row, form.copy)

(* A write that is current is alone, and puts nothing older back. *)
Newer(w) == \A c \in DOMAIN w.row : server[c] <= w.row[c]
WriteInv ==
  \A i \in DOMAIN writes :
    /\ DOMAIN writes[i].row \subseteq Changes(writes[i].op)
    /\ writes[i].op.kind = "form" => Fields \subseteq DOMAIN writes[i].row
    /\ writes[i].current => Len(writes) = 1
    /\ (writes[i].current /\ ~ writes[i].done /\ ~ torn
          /\ Remembered(tour, writes[i].source)) => Newer(writes[i])

IInv == TypeInv /\ CacheInv /\ FormInv /\ WriteInv

-----------------------------------------------------------------------------
(* The operators on one entry. *)
LEMMA EntryFields ==
  ASSUME NEW k, NEW e \in EntryType(k)
  PROVE  /\ Asked(e) \in EntryType(k)
         /\ Asked(e).fetch = "asked" /\ ~ Asked(e).raced
         /\ Mounted(e) = e \/ Mounted(e) = Asked(e)
         /\ Mounted(e).fetch = "idle" => Mounted(e).fresh
         /\ Answered(e) \in EntryType(k)
         /\ Answered(e).fetch = "idle" /\ Answered(e).fresh /\ Answered(e).data = e.answer
         /\ Answered(e).raced = e.raced
<1>. DEFINE V == Values(k)
<1>. HIDE DEF V
<1>1. e \in [data: V \cup {NULL}, fresh: BOOLEAN, fetch: {"idle", "asked", "answered"},
             answer: V \cup {NULL}, raced: BOOLEAN]
  BY DEF EntryType, V
<1>2. Asked(e) \in [data: V \cup {NULL}, fresh: BOOLEAN, fetch: {"idle", "asked", "answered"},
             answer: V \cup {NULL}, raced: BOOLEAN]
  BY <1>1 DEF Asked
<1>3. Asked(e).fetch = "asked" /\ ~ Asked(e).raced
  BY <1>1 DEF Asked
<1>4. Mounted(e) = e \/ Mounted(e) = Asked(e)
  BY DEF Mounted
<1>5. Mounted(e).fetch = "idle" => Mounted(e).fresh
  BY <1>1, <1>3 DEF Mounted
<1>6. /\ Answered(e) \in [data: V \cup {NULL}, fresh: BOOLEAN, fetch: {"idle", "asked", "answered"},
                          answer: V \cup {NULL}, raced: BOOLEAN]
      /\ Answered(e).fetch = "idle" /\ Answered(e).fresh /\ Answered(e).data = e.answer
      /\ Answered(e).raced = e.raced
  BY <1>1 DEF Answered
<1>. QED  BY <1>2, <1>3, <1>4, <1>5, <1>6 DEF EntryType, V

LEMMA ReadFields ==
  ASSUME NEW k, NEW e \in EntryType(k), NEW v \in Values(k)
  PROVE  /\ Read(e, v) \in EntryType(k)
         /\ Read(e, v).fetch = "answered" /\ Read(e, v).answer = v
<1>. DEFINE V == Values(k)
<1>. HIDE DEF V
<1>. QED  BY DEF Read, EntryType, V

LEMMA NeverFields ==
  /\ \A k : Never \in EntryType(k)
  /\ Never.fetch = "idle" /\ Never.data = NULL /\ ~ Never.fresh
BY DEF Never, EntryType

(* An entry that a write drops is asked again, or forgets that it was fresh. *)
LEMMA InvalidatedFields ==
  ASSUME NEW k, NEW e \in EntryType(k), NEW shown \in BOOLEAN
  PROVE  /\ Invalidated(e, shown) \in EntryType(k)
         /\ Invalidated(e, shown).fetch = "answered" => Invalidated(e, shown).raced
         /\ ~ Invalidated(e, shown).fresh
         /\ shown /\ (e.fetch = "idle" => e.fresh) => Invalidated(e, shown).fetch # "idle"
<1>. DEFINE f == Invalidated(e, shown)
            T == EntryType(k)
<1>1. CASE e = Never
  <2>1. f = e
    BY <1>1 DEF Invalidated
  <2>2. e.fetch = "idle" /\ ~ e.fresh
    BY <1>1, NeverFields
  <2>. QED  BY <2>1, <2>2
<1>2. CASE e # Never /\ shown /\ (e.data # NULL \/ e.fetch = "idle")
  <2>. DEFINE g == [e EXCEPT !.fresh = FALSE]
  <2>1. g \in EntryType(k) /\ ~ g.fresh
    BY DEF EntryType
  <2>2. f = Asked(g)
    BY <1>2 DEF Invalidated
  <2>3. Asked(g).fresh = g.fresh
    BY <2>1 DEF Asked, EntryType
  <2>4. Asked(g) \in EntryType(k) /\ Asked(g).fetch = "asked"
    BY <2>1, EntryFields
  <2>. HIDE DEF g, f
  <2>. QED  BY <2>1, <2>2, <2>3, <2>4 DEF f
<1>3. CASE e # Never /\ ~ (shown /\ (e.data # NULL \/ e.fetch = "idle"))
  <2>1. f = [e EXCEPT !.fresh = FALSE, !.raced = @ \/ e.fetch = "answered"]
    BY <1>3 DEF Invalidated
  <2>2. (e.raced \/ e.fetch = "answered") \in BOOLEAN
    BY DEF EntryType
  <2>3. f \in EntryType(k)
    BY <2>1, <2>2 DEF EntryType
  <2>4. ~ f.fresh /\ f.fetch = e.fetch /\ (f.fetch = "answered" => f.raced)
    BY <2>1, <2>2 DEF EntryType
  <2>. QED  BY <1>3, <2>3, <2>4
<1>. QED  BY <1>1, <1>2, <1>3

-----------------------------------------------------------------------------
(* The journey stays the same, and the numbers only grow. *)
LEMMA SameTour ==
  ASSUME UNCHANGED tour
  PROVE  /\ \A p : PageAt(p)' = PageAt(p) /\ Source(p)' = Source(p) /\ Copies(p)' = Copies(p)
         /\ \A p : IsDrawer(p)' = IsDrawer(p) /\ IsForm(p)' = IsForm(p)
         /\ \A p, k : Shown(p, k)' = Shown(p, k)
         /\ Keys' = Keys /\ Ops' = Ops
         /\ \A k : Remembered(tour, k)' = Remembered(tour, k)
<1>1. \A p : PageAt(p)' = PageAt(p)
  BY DEF PageAt
<1>2. \A p : Source(p)' = Source(p)
  BY <1>1 DEF Source
<1>3. \A p : Copies(p)' = Copies(p)
  BY <1>2 DEF Copies
<1>4. \A p : IsDrawer(p)' = IsDrawer(p)
  BY <1>1 DEF IsDrawer
<1>5. \A p : IsForm(p)' = IsForm(p)
  BY <1>1, <1>3 DEF IsForm
<1>6. \A p, k : Shown(p, k)' = Shown(p, k)
  BY <1>1 DEF Shown
<1>7. Keys' = Keys
  BY <1>2, <1>3 DEF Keys
<1>8. Ops' = Ops
  BY <1>1 DEF Ops
<1>9. \A k : Remembered(tour, k)' = Remembered(tour, k)
  BY DEF Remembered
<1>. QED  BY <1>1, <1>2, <1>3, <1>4, <1>5, <1>6, <1>7, <1>8, <1>9

LEMMA Growing ==
  ASSUME UNCHANGED tour, made \in Nat, made' \in Nat, made <= made'
  PROVE  /\ Numbers \subseteq Numbers'
         /\ \A k : EntryType(k) \subseteq EntryType(k)'
         /\ RowType \subseteq RowType' /\ WriteType \subseteq WriteType'
         /\ Seq(WriteType) \subseteq Seq(WriteType)'
         /\ FormType \subseteq FormType'
         /\ [Columns -> Numbers] \subseteq [Columns -> Numbers]'
<1>1. Numbers \subseteq Numbers'
  BY DEF Numbers
<1>. HIDE DEF Numbers
<1>2. ASSUME NEW k PROVE EntryType(k) \subseteq EntryType(k)'
  <2>1. Values(k) \subseteq Values(k)'
    BY <1>1 DEF Values
  <2>. QED  BY <2>1 DEF EntryType
<1>3. RowType \subseteq RowType'
  <2>1. \A S \in SUBSET Columns : [S -> Numbers] \subseteq [S -> Numbers']
    BY <1>1
  <2>. QED  BY <2>1 DEF RowType
<1>4. WriteType \subseteq WriteType'
  BY <1>3, SameTour DEF WriteType
<1>5. Seq(WriteType) \subseteq Seq(WriteType)'
  BY <1>4
<1>6. FormType \subseteq FormType'
  BY <1>1 DEF FormType
<1>. QED  BY <1>1, <1>2, <1>3, <1>4, <1>5, <1>6

\* The queue of writes without one of them.
LEMMA RemovingOne ==
  ASSUME NEW S, NEW s \in Seq(S), NEW i \in 1..Len(s)
  PROVE  /\ RemoveAt(s, i) \in Seq(S) /\ Len(RemoveAt(s, i)) = Len(s) - 1
         /\ \A k \in 1..Len(RemoveAt(s, i)) : \E j \in 1..Len(s) : RemoveAt(s, i)[k] = s[j]
         /\ \A j \in 1..Len(s) : j # i =>
              \E k \in 1..Len(RemoveAt(s, i)) : RemoveAt(s, i)[k] = s[j]
<1> DEFINE before == SubSeq(s, 1, i - 1)
           after == SubSeq(s, i + 1, Len(s))
           left == before \o after
<1>1. /\ before \in Seq(S) /\ Len(before) = i - 1
      /\ \A k \in 1..(i - 1) : before[k] = s[k]
  OBVIOUS
<1>2. /\ after \in Seq(S) /\ Len(after) = Len(s) - i
      /\ \A k \in 1..(Len(s) - i) : after[k] = s[i + k]
  OBVIOUS
<1> HIDE DEF before, after
<1>3. /\ left \in Seq(S) /\ Len(left) = Len(s) - 1
      /\ \A k \in 1..(i - 1) : left[k] = s[k]
      /\ \A k \in i..(Len(s) - 1) : left[k] = s[k + 1]
  <2>0. left \in Seq(S) /\ Len(left) = Len(before) + Len(after)
    <3>1. before \in Seq(S) /\ after \in Seq(S)
      BY <1>1, <1>2
    <3>. QED  BY <3>1
  <2>1. left \in Seq(S) /\ Len(left) = Len(s) - 1
    <3>. HIDE DEF left
    <3>. QED  BY <1>1, <1>2, <2>0
  <2>2. ASSUME NEW k \in 1..(i - 1) PROVE left[k] = s[k]
    BY <1>1, <1>2
  <2>3. ASSUME NEW k \in i..(Len(s) - 1) PROVE left[k] = s[k + 1]
    <3>1. left[k] = after[k - (i - 1)]
      BY <1>1, <1>2
    <3>2. k - (i - 1) \in 1..(Len(s) - i) /\ i + (k - (i - 1)) = k + 1
      OBVIOUS
    <3>3. QED
      BY <1>2, <3>1, <3>2
  <2>4. QED
    BY <2>1, <2>2, <2>3
<1> HIDE DEF left
<1>4. ASSUME NEW j \in 1..Len(s), j # i
      PROVE  \E k \in 1..Len(left) : left[k] = s[j]
  <2>1. CASE j < i
    <3>1. j \in 1..(i - 1) /\ j \in 1..Len(left)
      BY <2>1, <1>3
    <3>2. QED
      BY <3>1, <1>3
  <2>2. CASE j > i
    <3>1. j - 1 \in i..(Len(s) - 1) /\ j - 1 \in 1..Len(left) /\ (j - 1) + 1 = j
      BY <2>2, <1>3
    <3>2. QED
      BY <3>1, <1>3
  <2>3. QED
    BY <1>4, <2>1, <2>2
<1>5. ASSUME NEW k \in 1..Len(left) PROVE \E j \in 1..Len(s) : left[k] = s[j]
  <2>1. CASE k < i
    BY <1>3, <2>1
  <2>2. CASE k >= i
    <3>1. k \in i..(Len(s) - 1) /\ k + 1 \in 1..Len(s)
      BY <1>3, <2>2
    <3>. QED  BY <1>3, <3>1
  <2>. QED  BY <1>3, <2>1, <2>2
<1>6. RemoveAt(s, i) = left
  BY DEF RemoveAt, left, before, after
<1>7. QED
  BY <1>3, <1>4, <1>5, <1>6

-----------------------------------------------------------------------------
(* The parts of the invariant a step does not touch. *)
Same(w, v) ==
  /\ w.op = v.op /\ w.row = v.row /\ w.source = v.source
  /\ w.current = v.current /\ w.done = v.done

LEMMA GoodStays ==
  ASSUME NEW k, Good(k), UNCHANGED <<at, tour, server>>, cache'[k] = cache[k],
         Known(k)' => Known(k)
  PROVE  Good(k)'
BY SameTour DEF Good, Rows

LEMMA FormStays ==
  ASSUME FormInv, UNCHANGED <<tour, at, form, server>>, torn => torn',
         \A i \in DOMAIN writes' : \E j \in DOMAIN writes : writes'[i].row = writes[j].row
  PROVE  FormInv'
<1>1. form' # NULL => Copies(at)' /\ (IsDrawer(at) \/ IsForm(at))'
  BY SameTour DEF FormInv
<1>2. ASSUME form' # NULL, form'.current, ~ torn', Remembered(tour, Source(at))'
      PROVE  /\ NotAbove(server, form.copy)'
             /\ \A i \in DOMAIN writes' : NotAbove(writes[i].row, form.copy)'
  <2>1. /\ NotAbove(server, form.copy)
        /\ \A i \in DOMAIN writes : NotAbove(writes[i].row, form.copy)
    BY <1>2, SameTour DEF FormInv
  <2>. QED  BY <2>1 DEF NotAbove
<1>. QED  BY <1>1, <1>2 DEF FormInv

LEMMA WritesStay ==
  ASSUME WriteInv, UNCHANGED <<tour, server>>, torn => torn',
         Len(writes') \in Nat, Len(writes) \in Nat, Len(writes') <= Len(writes),
         DOMAIN writes' = 1..Len(writes'),
         \A i \in DOMAIN writes' : \E j \in DOMAIN writes : Same(writes'[i], writes[j])
  PROVE  WriteInv'
<1>. SUFFICES ASSUME NEW i \in DOMAIN writes'
              PROVE  /\ DOMAIN writes'[i].row \subseteq Changes(writes'[i].op)
                     /\ writes'[i].op.kind = "form" => Fields \subseteq DOMAIN writes'[i].row
                     /\ writes'[i].current => Len(writes') = 1
                     /\ (writes'[i].current /\ ~ writes'[i].done /\ ~ torn'
                           /\ Remembered(tour, writes[i].source)') => Newer(writes[i])'
  BY DEF WriteInv
<1>1. PICK j \in DOMAIN writes : Same(writes'[i], writes[j])
  OBVIOUS
<1>2. /\ DOMAIN writes[j].row \subseteq Changes(writes[j].op)
      /\ writes[j].op.kind = "form" => Fields \subseteq DOMAIN writes[j].row
      /\ writes[j].current => Len(writes) = 1
      /\ (writes[j].current /\ ~ writes[j].done /\ ~ torn
            /\ Remembered(tour, writes[j].source)) => Newer(writes[j])
  BY DEF WriteInv
<1>3. writes'[i].current => Len(writes') = 1
  <2>. SUFFICES ASSUME writes'[i].current PROVE Len(writes') = 1
    OBVIOUS
  <2>1. Len(writes) = 1
    BY <1>1, <1>2 DEF Same
  <2>2. i \in 1..Len(writes')
    OBVIOUS
  <2>3. ASSUME NEW n \in Nat, NEW m \in Nat, n <= m, m = 1, i \in 1..n PROVE n = 1
    BY <2>3
  <2>. QED  BY <2>1, <2>2, <2>3
<1>4. Newer(writes[j]) => Newer(writes[i])'
  BY <1>1 DEF Newer, Same
<1>5. Remembered(tour, writes[i].source)' => Remembered(tour, writes[j].source)
  BY <1>1 DEF Remembered, Same
<1>. QED  BY <1>1, <1>2, <1>3, <1>4, <1>5 DEF Same

(* What a form is filled with. *)
LEMMA FilledFine ==
  ASSUME NEW k, NEW e \in EntryType(k), Fields \subseteq Shows(tour.app, k, tour.table),
         e.data # NULL \/ Filled(e) # NULL
  PROVE  /\ e.data # NULL /\ Filled(e) \in FormType
         /\ Filled(e).copy = [c \in Fields |-> e.data[c]]
         /\ Filled(e).current <=> Settled(e) /\ writes = << >>
         /\ e.data = Rows(k) => NotAbove(server, Filled(e).copy)
<1>1. e.data # NULL /\ Filled(e) = [copy |-> [c \in Fields |-> e.data[c]],
                                    current |-> Settled(e) /\ writes = << >>]
  BY DEF Filled, Current, Fields
<1>2. e.data \in Values(k)
  BY <1>1 DEF EntryType
<1>3. [c \in Fields |-> e.data[c]] \in [Fields -> Numbers]
  BY <1>2 DEF Values
<1>4. (Settled(e) /\ writes = << >>) \in BOOLEAN
  BY DEF Settled
<1>5. ASSUME e.data = Rows(k) PROVE NotAbove(server, [c \in Fields |-> e.data[c]])
  <2>. SUFFICES ASSUME NEW c \in Fields, c \in DOMAIN server PROVE server[c] <= e.data[c]
    BY DEF NotAbove
  <2>1. e.data[c] = server[c] /\ e.data[c] \in Numbers
    BY <1>2, <1>5 DEF Rows, Values
  <2>. QED  BY <2>1 DEF Numbers
<1>. DEFINE b == Settled(e) /\ writes = << >>
            f == [c \in Fields |-> e.data[c]]
<1>6. /\ Filled(e) = [copy |-> f, current |-> b] /\ b \in BOOLEAN
      /\ f \in [Fields -> Numbers] /\ (e.data = Rows(k) => NotAbove(server, f))
  BY <1>1, <1>3, <1>4, <1>5
<1>7. b <=> Settled(e) /\ writes = << >>
  OBVIOUS
<1>. HIDE DEF b, f
<1>8. Filled(e) \in FormType /\ Filled(e).copy = f /\ (Filled(e).current <=> b)
  BY <1>6 DEF FormType
<1>. QED  BY <1>1, <1>6, <1>7, <1>8 DEF f

-----------------------------------------------------------------------------
(* The steps. *)
LEMMA SeqOfFunction ==
  ASSUME NEW S, NEW n \in Nat, NEW s \in [1..n -> S]
  PROVE  s \in Seq(S) /\ Len(s) = n
OBVIOUS

LEMMA Marked ==
  ASSUME NEW w \in WriteType
  PROVE  /\ [w EXCEPT !.here = FALSE] \in WriteType /\ Same([w EXCEPT !.here = FALSE], w)
         /\ [w EXCEPT !.current = FALSE] \in WriteType
         /\ [w EXCEPT !.current = FALSE].op = w.op /\ [w EXCEPT !.current = FALSE].row = w.row
         /\ [w EXCEPT !.current = FALSE].done = w.done
         /\ ~ [w EXCEPT !.current = FALSE].current
         /\ [w EXCEPT !.done = TRUE] \in WriteType
         /\ [w EXCEPT !.done = TRUE].op = w.op /\ [w EXCEPT !.done = TRUE].row = w.row
         /\ [w EXCEPT !.done = TRUE].current = w.current /\ [w EXCEPT !.done = TRUE].done
         /\ [w EXCEPT !.done = TRUE].source = w.source
<1>. DEFINE T == WriteType
            O == Ops
            R == RowType
            N == {NULL, Source(tour.from), Source(tour.to)}
<1>1. T = [op: O, row: R, current: BOOLEAN, source: N, here: BOOLEAN, done: BOOLEAN]
  BY DEF WriteType
<1>. HIDE DEF T, O, R, N
<1>2. w \in T
  BY DEF T
<1>3. /\ [w EXCEPT !.here = FALSE] \in T /\ Same([w EXCEPT !.here = FALSE], w)
      /\ [w EXCEPT !.current = FALSE] \in T
  BY <1>1, <1>2 DEF Same
<1>4. /\ [w EXCEPT !.current = FALSE].op = w.op /\ [w EXCEPT !.current = FALSE].row = w.row
      /\ [w EXCEPT !.current = FALSE].done = w.done
      /\ ~ [w EXCEPT !.current = FALSE].current
  BY <1>1, <1>2
<1>5. /\ [w EXCEPT !.done = TRUE] \in T
      /\ [w EXCEPT !.done = TRUE].op = w.op /\ [w EXCEPT !.done = TRUE].row = w.row
      /\ [w EXCEPT !.done = TRUE].current = w.current /\ [w EXCEPT !.done = TRUE].done
      /\ [w EXCEPT !.done = TRUE].source = w.source
  BY <1>1, <1>2
<1>. QED  BY <1>3, <1>4, <1>5 DEF T

LEMMA Queue == TypeInv => Len(writes) \in Nat /\ DOMAIN writes = 1..Len(writes)
                          /\ \A i \in DOMAIN writes : writes[i] \in WriteType
BY DEF TypeInv

LEMMA SameTypes ==
  ASSUME UNCHANGED <<tour, made>>
  PROVE  /\ WriteType' = WriteType /\ FormType' = FormType /\ Keys' = Keys /\ Numbers' = Numbers
         /\ \A k : EntryType(k)' = EntryType(k)
<1>1. Numbers' = Numbers
  BY DEF Numbers
<1>2. RowType' = RowType /\ FormType' = FormType
  BY <1>1 DEF RowType, FormType
<1>3. Source(tour.from)' = Source(tour.from) /\ Source(tour.to)' = Source(tour.to)
  BY SameTour
<1>4. WriteType' = WriteType
  BY <1>2, <1>3, SameTour DEF WriteType
<1>5. \A k : EntryType(k)' = EntryType(k)
  BY <1>1 DEF EntryType, Values
<1>. QED  BY <1>1, <1>2, <1>4, <1>5, SameTour

LEMMA FilledForms ==
  ASSUME PagesFit, IInv, NEW p \in {tour.from, tour.to}, Copies(p)
  PROVE  Source(p) \in Keys /\ Shown(p, Source(p)) /\ Fields \subseteq Shows(tour.app, Source(p), tour.table)
<1>1. Source(p) \in Keys
  BY DEF Keys
<1>2. Shown(p, Source(p))
  <2>1. tour \in Tours /\ Source(p) # NULL
    BY DEF IInv, TypeInv, Copies
  <2>. QED  BY <2>1 DEF PagesFit, SourcesAreRead, SourceOf, Source, PageAt, Shown
<1>. QED  BY <1>1, <1>2 DEF Copies, Fields

LEMMA ArriveFine ==
  ASSUME PagesFit, IInv, NEW p \in {tour.from, tour.to}, Arrive(p)
  PROVE  IInv'
<1>1. /\ at' = p /\ UNCHANGED <<tour, server, made, torn>>
      /\ cache' = Appeared(p)
      /\ form' = IF IsForm(p) THEN Filled(cache'[Source(p)]) ELSE NULL
      /\ writes' = [i \in DOMAIN writes |-> [writes[i] EXCEPT !.here = FALSE]]
  BY DEF Arrive
<1>2. /\ DOMAIN cache = Keys /\ \A k \in Keys : cache[k] \in EntryType(k)
      /\ writes \in Seq(WriteType) /\ made \in Nat
  BY DEF IInv, TypeInv
<1>3. /\ DOMAIN cache' = Keys
      /\ \A k \in Keys : cache'[k] = IF Shown(p, k) THEN Mounted(cache[k]) ELSE cache[k]
  BY <1>1, <1>2 DEF Appeared
<1>4. \A k \in Keys : cache'[k] \in EntryType(k) /\ cache'[k] \in {cache[k], Asked(cache[k])}
  BY <1>2, <1>3, EntryFields
<1>5. /\ writes' \in Seq(WriteType) /\ Len(writes') = Len(writes)
      /\ DOMAIN writes' = DOMAIN writes
      /\ \A i \in DOMAIN writes : Same(writes'[i], writes[i])
  <2>1. writes' \in [1..Len(writes) -> WriteType]
    BY <1>1, Queue, Marked DEF IInv
  <2>2. \A i \in DOMAIN writes : Same(writes'[i], writes[i])
    BY <1>1, Queue, Marked DEF IInv
  <2>. QED  BY <1>2, <2>1, <2>2, SeqOfFunction
<1>6. \A k : Known(k)' <=> Known(k)
  BY <1>1, <1>5 DEF Known, Pending, Same, Remembered
<1>7. ASSUME NEW k \in Keys PROVE Good(k)'
  <2>1. Shown(p, k) /\ cache'[k].fetch = "idle" => cache'[k].fresh
    <3>1. Mounted(cache[k]).fetch = "idle" => Mounted(cache[k]).fresh
      BY <1>2, EntryFields
    <3>. QED  BY <1>3, <3>1
  <2>2. CASE cache'[k] = cache[k]
    BY <1>1, <1>6, <2>1, <2>2, SameTour DEF IInv, CacheInv, Good, Rows
  <2>3. CASE cache'[k] = Asked(cache[k])
    <3>1. cache'[k].fetch = "asked"
      BY <1>2, <2>3, EntryFields
    <3>. QED  BY <1>1, <2>1, <3>1, SameTour DEF Good, Settled
  <2>. QED  BY <1>4, <2>2, <2>3
<1>8. form' # NULL => /\ IsForm(p) /\ Copies(p) /\ form' \in FormType
                      /\ form'.current => /\ writes = << >> /\ Settled(cache'[Source(p)])
                      /\ cache'[Source(p)].data = Rows(Source(p)) => NotAbove(server, form'.copy)
  <2>. SUFFICES ASSUME form' # NULL
                PROVE /\ IsForm(p) /\ Copies(p) /\ form' \in FormType
                      /\ form'.current => /\ writes = << >> /\ Settled(cache'[Source(p)])
                      /\ cache'[Source(p)].data = Rows(Source(p)) => NotAbove(server, form'.copy)
    OBVIOUS
  <2>1. IsForm(p) /\ Copies(p) /\ form' = Filled(cache'[Source(p)])
    BY <1>1 DEF IsForm
  <2>2. Source(p) \in Keys /\ Fields \subseteq Shows(tour.app, Source(p), tour.table)
    BY <2>1, FilledForms
  <2>3. cache'[Source(p)] \in EntryType(Source(p))
    BY <1>4, <2>2
  <2>. QED  BY <2>1, <2>2, <2>3, FilledFine
<1>9. TypeInv'
  <2>1. \A k : EntryType(k)' = EntryType(k)
    BY <1>1 DEF EntryType, Values, Numbers
  <2>2. WriteType' = WriteType /\ FormType' = FormType /\ Keys' = Keys /\ Numbers' = Numbers
    BY <1>1, SameTypes
  <2>. QED  BY <1>1, <1>3, <1>4, <1>5, <1>8, <2>1, <2>2 DEF IInv, TypeInv, IsTour
<1>10. FormInv'
  <2>. SUFFICES ASSUME form' # NULL
                PROVE /\ Copies(at)' /\ (IsDrawer(at) \/ IsForm(at))'
                      /\ form'.current /\ ~ torn' /\ Remembered(tour, Source(at))' =>
                           /\ NotAbove(server, form.copy)'
                           /\ \A i \in DOMAIN writes' : NotAbove(writes[i].row, form.copy)'
    BY DEF FormInv
  <2>1. Copies(at)' /\ IsForm(at)'
    BY <1>1, <1>8, SameTour
  <2>. SUFFICES ASSUME form'.current, ~ torn', Remembered(tour, Source(at))'
                PROVE  NotAbove(server, form.copy)' /\ DOMAIN writes' = {}
    BY <2>1
  <2>2. writes = << >> /\ Settled(cache'[Source(p)])
    BY <1>8
  <2>3. (\A k : ~ Pending(k)') /\ DOMAIN writes' = {}
    BY <1>5, <2>2 DEF Pending
  <2>4. Source(p) \in Keys /\ Shown(p, Source(p)) /\ Copies(p)
    BY <1>8, FilledForms
  <2>5. PICK k \in Keys : k = Source(p)
    BY <2>4
  <2>6. cache'[k].data = Rows(k)'
    <3>1. Known(k)'
      BY <1>1, <2>3, <2>5, SameTour DEF Known
    <3>2. Good(k)' /\ Shown(at, k)'
      BY <1>1, <1>7, <2>4, <2>5, SameTour
    <3>3. Settled(cache'[k])
      BY <2>2, <2>5
    <3>. QED  BY <3>1, <3>2, <3>3 DEF Good, Settled
  <2>7. Rows(k)' = Rows(k) /\ Rows(k) = Rows(Source(p))
    BY <1>1, <2>5 DEF Rows
  <2>. QED  BY <1>1, <1>8, <2>3, <2>5, <2>6, <2>7 DEF NotAbove
<1>11. WriteInv'
  <2>1. \A i \in DOMAIN writes' : \E j \in DOMAIN writes : Same(writes'[i], writes[j])
    BY <1>5
  <2>2. WriteInv /\ Len(writes) \in Nat /\ DOMAIN writes = 1..Len(writes)
    BY Queue DEF IInv
  <2>. QED  BY <1>1, <1>5, <2>1, <2>2, WritesStay
<1>12. CacheInv'
  BY <1>1, <1>7, SameTour DEF CacheInv
<1>. QED  BY <1>9, <1>10, <1>11, <1>12 DEF IInv

LEMMA CacheStays ==
  ASSUME CacheInv, UNCHANGED <<at, tour, server, cache>>, \A k : Known(k)' => Known(k)
  PROVE  CacheInv'
<1>1. ASSUME NEW k \in Keys PROVE Good(k)'
  <2>1. Good(k) /\ (Known(k)' => Known(k))
    BY DEF CacheInv
  <2>. QED  BY <2>1, GoodStays
<1>. QED  BY <1>1, SameTour DEF CacheInv

\* A form that is filled when it is opened.
LEMMA OpenFormFine ==
  ASSUME PagesFit, IInv, OpenForm
  PROVE  IInv'
<1>1. /\ IsDrawer(at) /\ Copies(at) /\ form' = Filled(cache[Source(at)])
      /\ UNCHANGED <<tour, at, server, cache, writes, made, torn>>
  BY DEF OpenForm
<1>2. at \in {tour.from, tour.to}
  BY DEF IInv, TypeInv
<1>3. /\ Source(at) \in Keys /\ Shown(at, Source(at))
      /\ Fields \subseteq Shows(tour.app, Source(at), tour.table)
  BY <1>1, <1>2, FilledForms
<1>4. PICK k \in Keys : k = Source(at)
  BY <1>3
<1>5. cache[k] \in EntryType(k) /\ Good(k)
  BY DEF IInv, TypeInv, CacheInv
<1>6. form' # NULL => /\ form' \in FormType
                      /\ form'.current => /\ writes = << >> /\ Settled(cache[k])
                      /\ cache[k].data = Rows(k) => NotAbove(server, form'.copy)
  BY <1>1, <1>3, <1>4, <1>5, FilledFine
<1>7. TypeInv'
  BY <1>1, <1>6, SameTypes DEF IInv, TypeInv, IsTour
<1>8. FormInv'
  <2>1. form' # NULL => Copies(at)' /\ IsDrawer(at)'
    BY <1>1, SameTour
  <2>2. ASSUME form' # NULL, form'.current, ~ torn', Remembered(tour, Source(at))'
        PROVE  /\ NotAbove(server, form.copy)'
               /\ \A i \in DOMAIN writes' : NotAbove(writes[i].row, form.copy)'
    <3>1. writes = << >> /\ Settled(cache[k])
      BY <1>6, <2>2
    <3>2. Known(k)
      BY <1>1, <1>4, <2>2, <3>1, SameTour DEF Known, Pending
    <3>3. cache[k].data = Rows(k)
      BY <1>3, <1>4, <1>5, <3>1, <3>2 DEF Good, Settled
    <3>4. NotAbove(server, form'.copy)
      BY <1>6, <2>2, <3>3
    <3>. QED  BY <1>1, <3>1, <3>4 DEF NotAbove
  <2>. QED  BY <2>1, <2>2 DEF FormInv
<1>9. CacheInv' /\ WriteInv'
  <2>1. \A k1 : Known(k1)' => Known(k1)
    BY <1>1 DEF Known, Pending, Remembered
  <2>2. WriteInv'
    BY <1>1 DEF IInv, WriteInv, Newer, Remembered
  <2>. QED  BY <1>1, <2>1, <2>2, CacheStays DEF IInv
<1>. QED  BY <1>7, <1>8, <1>9 DEF IInv

LEMMA CloseFormFine == ASSUME IInv, CloseForm PROVE IInv'
<1>1. form' = NULL /\ UNCHANGED <<tour, at, server, cache, writes, made, torn>>
  BY DEF CloseForm
<1>2. TypeInv'
  BY <1>1, SameTypes DEF IInv, TypeInv, IsTour
<1>3. FormInv'
  BY <1>1 DEF FormInv
<1>4. \A k : Known(k)' => Known(k)
  BY <1>1 DEF Known, Pending, Remembered
<1>5. WriteInv'
  BY <1>1 DEF IInv, WriteInv, Newer, Remembered
<1>. QED  BY <1>1, <1>2, <1>3, <1>4, <1>5, CacheStays DEF IInv

\* The server answers a read, with what it has then.
LEMMA ReadFine ==
  ASSUME IInv, NEW k \in DOMAIN cache, ReadTable(k)
  PROVE  IInv'
<1>1. /\ cache[k].fetch = "asked"
      /\ cache' = [cache EXCEPT ![k] = Read(@, Rows(k))]
      /\ UNCHANGED <<tour, at, server, form, writes, made, torn>>
  BY DEF ReadTable
<1>2. DOMAIN cache = Keys /\ k \in Keys /\ cache[k] \in EntryType(k)
  BY DEF IInv, TypeInv
<1>3. Rows(k) \in Values(k)
  BY DEF IInv, TypeInv, Rows, Values, Shows
<1>4. /\ cache'[k] \in EntryType(k) /\ cache'[k].fetch = "answered"
      /\ cache'[k].answer = Rows(k)
      /\ \A j \in Keys : j # k => cache'[j] = cache[j]
      /\ DOMAIN cache' = Keys
  <2>1. /\ Read(cache[k], Rows(k)) \in EntryType(k)
        /\ Read(cache[k], Rows(k)).fetch = "answered"
        /\ Read(cache[k], Rows(k)).answer = Rows(k)
    BY <1>2, <1>3, ReadFields
  <2>. QED  BY <1>1, <1>2, <2>1
<1>5. \A j : (Known(j)' => Known(j)) /\ Rows(j)' = Rows(j)
  BY <1>1 DEF Known, Pending, Remembered, Rows
<1>6. TypeInv'
  <2>1. \A j \in Keys : cache'[j] \in EntryType(j)
    BY <1>4 DEF IInv, TypeInv
  <2>. QED  BY <1>1, <1>4, <2>1, SameTypes DEF IInv, TypeInv, IsTour
<1>7. CacheInv'
  <2>1. ASSUME NEW j \in Keys PROVE Good(j)'
    <3>1. CASE j = k
      BY <1>4, <1>5, <3>1 DEF Good, Settled
    <3>2. CASE j # k
      <4>1. Good(j) /\ cache'[j] = cache[j]
        BY <1>4, <3>2 DEF IInv, CacheInv
      <4>. QED  BY <1>1, <1>5, <4>1, GoodStays
    <3>. QED  BY <3>1, <3>2
  <2>. QED  BY <1>1, <2>1, SameTour DEF CacheInv
<1>8. FormInv'
  BY <1>1, FormStays DEF IInv
<1>9. WriteInv'
  BY <1>1 DEF IInv, WriteInv, Newer, Remembered
<1>. QED  BY <1>6, <1>7, <1>8, <1>9 DEF IInv

\* The answer reaches the page; a form that is always open is filled with it.
LEMMA AnswerFine ==
  ASSUME PagesFit, IInv, NEW k \in DOMAIN cache, Answer(k)
  PROVE  IInv'
<1>1. /\ cache[k].fetch = "answered"
      /\ cache' = [cache EXCEPT ![k] = Answered(@)]
      /\ form' = IF IsForm(at) /\ k = Source(at) /\ (form = NULL \/ PageAt(at).seeds = "fresh")
                 THEN Filled(cache'[k]) ELSE form
      /\ UNCHANGED <<tour, at, server, writes, made, torn>>
  BY DEF Answer
<1>2. DOMAIN cache = Keys /\ k \in Keys /\ cache[k] \in EntryType(k) /\ Good(k)
  BY DEF IInv, TypeInv, CacheInv
<1>3. /\ cache'[k] = Answered(cache[k]) /\ DOMAIN cache' = Keys
      /\ \A j \in Keys : j # k => cache'[j] = cache[j]
  BY <1>1, <1>2
<1>4. /\ cache'[k] \in EntryType(k) /\ cache'[k].fetch = "idle" /\ cache'[k].fresh
      /\ cache'[k].data = cache[k].answer /\ cache'[k].raced = cache[k].raced
  BY <1>2, <1>3, EntryFields
<1>5. \A j : (Known(j)' => Known(j)) /\ (Known(j) => Known(j)') /\ Rows(j)' = Rows(j)
  BY <1>1 DEF Known, Pending, Remembered, Rows
<1>6. Known(k) /\ Settled(cache'[k]) => cache'[k].data = Rows(k)
  BY <1>1, <1>2, <1>4 DEF Good, Settled
<1>7. CacheInv'
  <2>1. ASSUME NEW j \in Keys PROVE Good(j)'
    <3>1. CASE j = k
      BY <1>4, <1>5, <1>6, <3>1 DEF Good
    <3>2. CASE j # k
      <4>1. Good(j) /\ cache'[j] = cache[j]
        BY <1>3, <3>2 DEF IInv, CacheInv
      <4>. QED  BY <1>1, <1>5, <4>1, GoodStays
    <3>. QED  BY <3>1, <3>2
  <2>. QED  BY <1>1, <2>1, SameTour DEF CacheInv
<1>8. ASSUME ~ (IsForm(at) /\ k = Source(at) /\ (form = NULL \/ PageAt(at).seeds = "fresh"))
      PROVE  FormInv' /\ (form' # NULL => form' \in FormType)
  <2>1. form' = form
    BY <1>1, <1>8
  <2>2. FormInv'
    BY <1>1, <2>1, FormStays DEF IInv
  <2>3. form' # NULL => form' \in FormType
    BY <2>1 DEF IInv, TypeInv
  <2>. QED  BY <2>2, <2>3
<1>9. ASSUME IsForm(at) /\ k = Source(at) /\ (form = NULL \/ PageAt(at).seeds = "fresh")
      PROVE  FormInv' /\ (form' # NULL => form' \in FormType)
  <2>1. Copies(at) /\ form' = Filled(cache'[k]) /\ at \in {tour.from, tour.to}
    BY <1>1, <1>9 DEF IsForm, IInv, TypeInv
  <2>2. Fields \subseteq Shows(tour.app, k, tour.table)
    BY <1>9, <2>1, FilledForms
  <2>3. form' # NULL => /\ form' \in FormType
                        /\ form'.current => /\ writes = << >> /\ Settled(cache'[k])
                        /\ cache'[k].data = Rows(k) => NotAbove(server, form'.copy)
    BY <1>4, <2>1, <2>2, FilledFine
  <2>4. ASSUME form' # NULL, form'.current, ~ torn', Remembered(tour, Source(at))'
        PROVE  /\ NotAbove(server, form.copy)'
               /\ \A i \in DOMAIN writes' : NotAbove(writes[i].row, form.copy)'
    <3>1. writes = << >> /\ Settled(cache'[k])
      BY <2>3, <2>4
    <3>2. Known(k)
      BY <1>1, <1>9, <2>4, <3>1, SameTour DEF Known, Pending
    <3>3. NotAbove(server, form'.copy)
      BY <1>6, <2>3, <2>4, <3>1, <3>2
    <3>. QED  BY <1>1, <3>1, <3>3 DEF NotAbove
  <2>5. form' # NULL => Copies(at)' /\ IsForm(at)'
    BY <1>1, <1>9, <2>1, SameTour
  <2>6. FormInv'
    BY <2>4, <2>5 DEF FormInv
  <2>. QED  BY <2>3, <2>6
<1>10. FormInv' /\ (form' # NULL => form' \in FormType)
  BY <1>8, <1>9
<1>11. TypeInv'
  <2>1. \A j \in Keys : cache'[j] \in EntryType(j)
    BY <1>3, <1>4 DEF IInv, TypeInv
  <2>. QED  BY <1>1, <1>3, <1>10, <2>1, SameTypes DEF IInv, TypeInv, IsTour
<1>12. WriteInv'
  BY <1>1 DEF IInv, WriteInv, Newer, Remembered
<1>. QED  BY <1>7, <1>10, <1>11, <1>12 DEF IInv

\* A write that is taken out of the queue, unanswered.
LEMMA Unqueued ==
  ASSUME TypeInv, NEW i \in DOMAIN writes, Gone(i)
  PROVE  /\ writes' \in Seq(WriteType) /\ Len(writes') = Len(writes) - 1
         /\ DOMAIN writes' = 1..Len(writes')
         /\ \A k \in DOMAIN writes' : \E j \in DOMAIN writes : writes'[k] = writes[j]
         /\ \A j \in DOMAIN writes : j # i => \E k \in DOMAIN writes' : writes'[k] = writes[j]
<1>1. writes \in Seq(WriteType) /\ i \in 1..Len(writes) /\ writes' = RemoveAt(writes, i)
  BY DEF TypeInv, Gone
<1>. HIDE DEF WriteType
<1>2. /\ writes' \in Seq(WriteType) /\ Len(writes') = Len(writes) - 1
      /\ \A k \in 1..Len(writes') : \E j \in 1..Len(writes) : writes'[k] = writes[j]
      /\ \A j \in 1..Len(writes) : j # i => \E k \in 1..Len(writes') : writes'[k] = writes[j]
  BY <1>1, RemovingOne
<1>3. DOMAIN writes' = 1..Len(writes') /\ DOMAIN writes = 1..Len(writes)
  BY <1>1, <1>2
<1>. QED  BY <1>2, <1>3

LEMMA UnqueuedWrites ==
  ASSUME IInv, NEW i \in DOMAIN writes, Gone(i), UNCHANGED <<tour, server>>, torn => torn'
  PROVE  WriteInv'
<1>1. Len(writes) \in Nat /\ DOMAIN writes = 1..Len(writes) /\ WriteInv
  BY Queue DEF IInv
<1>2. /\ Len(writes') \in Nat /\ Len(writes') <= Len(writes) /\ DOMAIN writes' = 1..Len(writes')
  <2>1. /\ writes' \in Seq(WriteType) /\ Len(writes') = Len(writes) - 1
        /\ DOMAIN writes' = 1..Len(writes')
    BY Unqueued DEF IInv
  <2>. HIDE DEF WriteType
  <2>. QED  BY <1>1, <2>1
<1>3. \A k \in DOMAIN writes' : \E j \in DOMAIN writes : Same(writes'[k], writes[j])
  BY Unqueued DEF IInv, Same
<1>. QED  BY <1>1, <1>2, <1>3, WritesStay

LEMMA RefuseFine ==
  ASSUME IInv, NEW i \in DOMAIN writes, Refuse(i)
  PROVE  IInv'
<1>1. /\ ~ writes[i].done /\ Gone(i)
      /\ UNCHANGED <<tour, at, server, cache, form, made, torn>>
  BY DEF Refuse
<1>2. \A k : Pending(k) => Pending(k)'
  <2>. SUFFICES ASSUME NEW k1, NEW j \in DOMAIN writes, writes[j].done, Drops(writes[j].op, k1)
                PROVE Pending(k1)'
    BY DEF Pending
  <2>1. PICK k \in DOMAIN writes' : writes'[k] = writes[j]
    BY <1>1, Unqueued DEF IInv
  <2>. QED  BY <2>1 DEF Pending
<1>3. \A k : Known(k)' => Known(k)
  BY <1>1, <1>2 DEF Known, Remembered
<1>4. TypeInv'
  BY <1>1, Unqueued, SameTypes DEF IInv, TypeInv, IsTour
<1>5. FormInv'
  <2>1. \A k \in DOMAIN writes' : \E j \in DOMAIN writes : writes'[k].row = writes[j].row
    BY <1>1, Unqueued DEF IInv
  <2>. QED  BY <1>1, <2>1, FormStays DEF IInv
<1>6. WriteInv'
  BY <1>1, UnqueuedWrites
<1>. QED  BY <1>1, <1>3, <1>4, <1>5, <1>6, CacheStays DEF IInv

\* After a torn write nothing is claimed any more.
LEMMA TornFine ==
  ASSUME IInv, NEW i \in DOMAIN writes, Torn(i), UNCHANGED <<tour, at, cache, form>>,
         server' \in [Columns -> Numbers]
  PROVE  IInv'
<1>1. Gone(i) /\ torn' = TRUE /\ made' = MaxWrites
  BY DEF Torn
<1>2. made \in Nat /\ made' \in Nat /\ made <= made' /\ made' \in 0..MaxWrites
  BY <1>1 DEF IInv, TypeInv
<1>3. TypeInv'
  <2>1. \A k \in Keys' : cache'[k] \in EntryType(k)'
    BY <1>2, Growing, SameTour DEF IInv, TypeInv
  <2>2. writes' \in Seq(WriteType)'
    BY <1>1, <1>2, Unqueued, Growing DEF IInv
  <2>3. (form' # NULL => form' \in FormType') /\ server' \in [Columns -> Numbers]'
    BY <1>2, Growing DEF IInv, TypeInv
  <2>. QED  BY <1>1, <1>2, <2>1, <2>2, <2>3, SameTour DEF IInv, TypeInv, IsTour
<1>4. CacheInv'
  BY <1>1, SameTour DEF IInv, CacheInv, Good, Known
<1>5. FormInv'
  <2>1. form' # NULL => Copies(at)' /\ (IsDrawer(at) \/ IsForm(at))'
    BY SameTour DEF IInv, FormInv
  <2>. QED  BY <1>1, <2>1 DEF FormInv
<1>6. WriteInv'
  <2>. SUFFICES ASSUME NEW k \in DOMAIN writes'
                PROVE  /\ DOMAIN writes'[k].row \subseteq Changes(writes'[k].op)
                       /\ writes'[k].op.kind = "form" => Fields \subseteq DOMAIN writes'[k].row
                       /\ writes'[k].current => Len(writes') = 1
    BY <1>1 DEF WriteInv
  <2>1. PICK j \in DOMAIN writes : writes'[k] = writes[j]
    BY <1>1, Unqueued DEF IInv
  <2>2. /\ DOMAIN writes[j].row \subseteq Changes(writes[j].op)
        /\ writes[j].op.kind = "form" => Fields \subseteq DOMAIN writes[j].row
        /\ writes[j].current => Len(writes) = 1
    BY DEF IInv, WriteInv
  <2>3. ASSUME Len(writes) = 1 PROVE FALSE
    <3>1. Len(writes') = 0 /\ k \in 1..Len(writes')
      BY <1>1, <2>3, Unqueued DEF IInv
    <3>. QED  BY <3>1
  <2>. QED  BY <2>1, <2>2, <2>3
<1>. QED  BY <1>3, <1>4, <1>5, <1>6 DEF IInv

LEMMA LoseAnswerFine ==
  ASSUME IInv, NEW i \in DOMAIN writes, LoseAnswer(i)
  PROVE  IInv'
<1>1. Torn(i) /\ UNCHANGED <<tour, at, server, cache, form>>
  BY DEF LoseAnswer
<1>2. server' \in [Columns -> Numbers]
  BY <1>1 DEF IInv, TypeInv
<1>. QED  BY <1>1, <1>2, TornFine

\* What a write stores are numbers of writes.
LEMMA StoredFine ==
  ASSUME TypeInv, NEW i \in DOMAIN writes, NEW S, S \subseteq DOMAIN writes[i].row
  PROVE  /\ Stored(S, writes[i].row) \in [Columns -> Numbers]
         /\ \A c \in Columns :
              Stored(S, writes[i].row)[c] = IF c \in S THEN writes[i].row[c] ELSE server[c]
<1>1. writes[i].row \in RowType /\ server \in [Columns -> Numbers]
  BY Queue DEF TypeInv, WriteType
<1>2. PICK D \in SUBSET Columns : writes[i].row \in [D -> Numbers]
  BY <1>1 DEF RowType
<1>. QED  BY <1>1, <1>2 DEF Stored

LEMMA RefuseTheRestFine ==
  ASSUME IInv, NEW i \in DOMAIN writes, RefuseTheRest(i)
  PROVE  IInv'
<1>1. /\ writes[i].op.kind = "form" /\ server' = Stored({"left"}, writes[i].row)
      /\ Torn(i) /\ UNCHANGED <<tour, at, cache, form>>
  BY DEF RefuseTheRest
<1>2. "left" \in DOMAIN writes[i].row
  BY <1>1 DEF IInv, WriteInv, Fields
<1>3. server' \in [Columns -> Numbers]
  <2>1. {"left"} \subseteq DOMAIN writes[i].row /\ TypeInv
    BY <1>2 DEF IInv
  <2>2. Stored({"left"}, writes[i].row) \in [Columns -> Numbers]
    BY <2>1, StoredFine
  <2>. QED  BY <1>1, <2>2
<1>. QED  BY <1>1, <1>3, TornFine

LEMMA Journey == Keys \subseteq KeysOfTour(tour)
<1>1. \A p \in {tour.from, tour.to} : Copies(p) => Source(p) \in KeysOfTour(tour)
  BY DEF Copies, KeysOfTour, SourceOf, Source, PageAt
<1>. QED  BY <1>1 DEF Keys, KeysOfTour

\* A write changes nothing an entry shows that it does not drop.
LEMMA Untouched ==
  ASSUME PagesFit, IInv, NEW i \in DOMAIN writes, NEW k \in Keys,
         ~ Drops(writes[i].op, k), Remembered(tour, k)
  PROVE  DOMAIN writes[i].row \cap Shows(tour.app, k, tour.table) = {}
<1>1. writes[i].op \in Ops /\ DOMAIN writes[i].row \subseteq Changes(writes[i].op)
  BY Queue DEF IInv, WriteType, WriteInv
<1>2. PICK p \in {tour.from, tour.to} : writes[i].op \in PagesOf[tour.app][p].writes
  BY <1>1 DEF Ops, PageAt
<1>3. writes[i].op.table = tour.table /\ tour \in Tours /\ k \in KeysOfTour(tour)
  BY <1>1, Journey DEF Ops, IInv, TypeInv
<1>4. Changes(writes[i].op) \cap Shows(tour.app, k, tour.table) = {}
  BY <1>2, <1>3 DEF PagesFit, WritesDrop
<1>. QED  BY <1>1, <1>4

\* The other field of a row that is looked up is what the server has: nothing older.
LEMMA FindFine ==
  ASSUME IInv, NEW i \in DOMAIN writes, Find(i)
  PROVE  IInv'
<1>. DEFINE row == [c \in Fields |-> IF c = "left" THEN writes[i].row["left"] ELSE server[c]]
<1>1. /\ writes[i].op.kind = "found" /\ DOMAIN writes[i].row = {"left"}
      /\ writes' = [writes EXCEPT ![i].row = row]
      /\ UNCHANGED <<tour, at, server, cache, form, made, torn>>
  BY DEF Find, Fields
<1>2. /\ writes \in Seq(WriteType) /\ Len(writes) \in Nat /\ DOMAIN writes = 1..Len(writes)
      /\ \A j \in DOMAIN writes : writes[j] \in WriteType
  BY Queue DEF IInv, TypeInv
<1>3. server \in [Columns -> Numbers] /\ Fields \subseteq Columns /\ "left" \in Fields
  BY DEF IInv, TypeInv, Fields, Columns
<1>4. row \in RowType /\ DOMAIN row = Fields
  <2>1. writes[i].row \in RowType
    BY <1>2 DEF WriteType
  <2>2. writes[i].row["left"] \in Numbers
    BY <1>1, <2>1 DEF RowType
  <2>3. row \in [Fields -> Numbers]
    BY <1>3, <2>2
  <2>. QED  BY <1>3, <2>3 DEF RowType
<1>. HIDE DEF row
<1>5. PICK w : w = [writes[i] EXCEPT !.row = row]
  OBVIOUS
<1>6. /\ w \in WriteType /\ w.op = writes[i].op /\ w.row = row /\ w.current = writes[i].current
      /\ w.done = writes[i].done /\ w.source = writes[i].source
  <2>. DEFINE O == Ops
              R == RowType
              N == {NULL, Source(tour.from), Source(tour.to)}
  <2>1. WriteType = [op: O, row: R, current: BOOLEAN, source: N, here: BOOLEAN, done: BOOLEAN]
    BY DEF WriteType
  <2>2. writes[i] \in WriteType /\ row \in R
    BY <1>2, <1>4
  <2>. HIDE DEF O, R, N
  <2>. QED  BY <1>5, <2>1, <2>2
<1>7. \A j \in DOMAIN writes : writes'[j] = IF j = i THEN w ELSE writes[j]
  BY <1>1, <1>2, <1>5
<1>8. writes' \in Seq(WriteType) /\ Len(writes') = Len(writes) /\ DOMAIN writes' = DOMAIN writes
  <2>1. writes' \in [1..Len(writes) -> WriteType]
    BY <1>1, <1>2, <1>6, <1>7
  <2>2. writes' \in Seq(WriteType) /\ Len(writes') = Len(writes)
    BY <1>2, <2>1, SeqOfFunction
  <2>. QED  BY <1>1, <2>2
<1>9. TypeInv'
  BY <1>1, <1>8, SameTypes DEF IInv, TypeInv, IsTour
<1>10. \A k : Known(k)' => Known(k)
  <2>1. \A j \in DOMAIN writes : writes'[j].op = writes[j].op /\ writes'[j].done = writes[j].done
    BY <1>6, <1>7
  <2>. QED  BY <1>1, <1>8, <2>1 DEF Known, Pending, Remembered
<1>11. FormInv'
  <2>1. form' # NULL => Copies(at)' /\ (IsDrawer(at) \/ IsForm(at))'
    BY <1>1, SameTour DEF IInv, FormInv
  <2>2. ASSUME form' # NULL, form'.current, ~ torn', Remembered(tour, Source(at))'
        PROVE  /\ NotAbove(server, form.copy)'
               /\ \A j \in DOMAIN writes' : NotAbove(writes[j].row, form.copy)'
    <3>1. /\ NotAbove(server, form.copy)
          /\ \A j \in DOMAIN writes : NotAbove(writes[j].row, form.copy)
      BY <1>1, <2>2, SameTour DEF IInv, FormInv
    <3>2. NotAbove(row, form.copy)
      <4>1. writes[i].row["left"] <= form.copy["left"] /\ \A c \in Fields : server[c] <= form.copy[c]
        BY <1>1, <1>3, <3>1 DEF NotAbove
      <4>. QED  BY <4>1 DEF NotAbove, row
    <3>. QED  BY <1>1, <1>6, <1>7, <1>8, <3>1, <3>2 DEF NotAbove
  <2>. QED  BY <2>1, <2>2 DEF FormInv
<1>12. WriteInv'
  <2>. SUFFICES ASSUME NEW j \in DOMAIN writes'
                PROVE  /\ DOMAIN writes'[j].row \subseteq Changes(writes'[j].op)
                       /\ writes'[j].op.kind = "form" => Fields \subseteq DOMAIN writes'[j].row
                       /\ writes'[j].current => Len(writes') = 1
                       /\ (writes'[j].current /\ ~ writes'[j].done /\ ~ torn'
                             /\ Remembered(tour, writes[j].source)') => Newer(writes[j])'
    BY DEF WriteInv
  <2>1. /\ DOMAIN writes[j].row \subseteq Changes(writes[j].op)
        /\ writes[j].op.kind = "form" => Fields \subseteq DOMAIN writes[j].row
        /\ writes[j].current => Len(writes) = 1
        /\ (writes[j].current /\ ~ writes[j].done /\ ~ torn
              /\ Remembered(tour, writes[j].source)) => Newer(writes[j])
    BY <1>8 DEF IInv, WriteInv
  <2>2. CASE j # i
    BY <1>1, <1>7, <1>8, <2>1, <2>2 DEF Newer, Remembered
  <2>3. CASE j = i
    <3>1. writes'[i] = w
      BY <1>7
    <3>2. DOMAIN w.row \subseteq Changes(w.op) /\ w.op.kind # "form"
      BY <1>1, <1>4, <1>6 DEF Changes
    <3>3. ASSUME Newer(writes[i]) PROVE \A c \in Fields : server[c] <= row[c]
      <4>1. server["left"] <= writes[i].row["left"] /\ \A c \in Fields : server[c] \in Nat
        BY <1>1, <1>3, <3>3 DEF Newer, Numbers
      <4>. QED  BY <4>1 DEF row
    <3>4. Remembered(tour, writes[i].source)' => Remembered(tour, writes[i].source)
      BY <1>1, <1>6, <3>1 DEF Remembered
    <3>5. Newer(writes[i]) => Newer(writes[i])'
      BY <1>1, <1>4, <1>6, <3>1, <3>3 DEF Newer
    <3>. QED  BY <1>1, <1>6, <1>8, <2>1, <2>3, <3>1, <3>2, <3>4, <3>5
  <2>. QED  BY <2>2, <2>3
<1>. QED  BY <1>1, <1>9, <1>10, <1>11, <1>12, CacheStays DEF IInv

\* A write is done: from now on, and until the page knows, no entry that it will drop is
\* said to be current.
LEMMA CommitFine ==
  ASSUME PagesFit, IInv, NEW i \in DOMAIN writes, Commit(i)
  PROVE  IInv'
<1>1. /\ ~ writes[i].done /\ server' = Stored(DOMAIN writes[i].row, writes[i].row)
      /\ writes' = [writes EXCEPT ![i].done = TRUE]
      /\ UNCHANGED <<tour, at, cache, form, made, torn>>
  BY DEF Commit
<1>2. /\ writes \in Seq(WriteType) /\ Len(writes) \in Nat /\ DOMAIN writes = 1..Len(writes)
      /\ \A j \in DOMAIN writes : writes[j] \in WriteType
  BY Queue DEF IInv, TypeInv
<1>3. /\ writes' \in Seq(WriteType) /\ Len(writes') = Len(writes)
      /\ DOMAIN writes' = DOMAIN writes
      /\ \A j \in DOMAIN writes : /\ writes'[j].op = writes[j].op /\ writes'[j].row = writes[j].row
                                  /\ writes'[j].current = writes[j].current
      /\ writes'[i].done
  <2>0. LET w == [writes[i] EXCEPT !.done = TRUE]
        IN w.op = writes[i].op /\ w.row = writes[i].row /\ w.current = writes[i].current /\ w.done
    BY <1>2, Marked
  <2>1. \A j \in DOMAIN writes :
          writes'[j] = IF j = i THEN [writes[i] EXCEPT !.done = TRUE] ELSE writes[j]
    BY <1>1, <1>2
  <2>2. writes' \in [1..Len(writes) -> WriteType]
    BY <1>1, <1>2, <2>1, Marked
  <2>3. writes' \in Seq(WriteType) /\ Len(writes') = Len(writes)
    BY <1>2, <2>2, SeqOfFunction
  <2>4. \A j \in DOMAIN writes : /\ writes'[j].op = writes[j].op /\ writes'[j].row = writes[j].row
                                  /\ writes'[j].current = writes[j].current
    BY <2>0, <2>1
  <2>5. writes'[i].done
    BY <2>0, <2>1
  <2>6. DOMAIN writes' = DOMAIN writes
    BY <1>1
  <2>. QED  BY <2>3, <2>4, <2>5, <2>6
<1>4. server' \in [Columns -> Numbers]
  BY <1>1, StoredFine DEF IInv
<1>5. TypeInv'
  BY <1>1, <1>3, <1>4, SameTypes DEF IInv, TypeInv, IsTour
<1>6. CacheInv'
  <2>1. ASSUME NEW k \in Keys PROVE Good(k)'
    <3>1. Good(k) /\ Shown(at, k)' = Shown(at, k) /\ cache' = cache
      BY <1>1, SameTour DEF IInv, CacheInv
    <3>2. CASE ~ Remembered(tour, k) \/ Drops(writes[i].op, k)
      <4>1. ~ Known(k)'
        BY <1>1, <1>3, <3>2 DEF Known, Pending, Remembered
      <4>. QED  BY <3>1, <4>1 DEF Good
    <3>3. CASE Remembered(tour, k) /\ ~ Drops(writes[i].op, k)
      <4>1. DOMAIN writes[i].row \cap Shows(tour.app, k, tour.table) = {}
        BY <3>3, Untouched
      <4>2. \A c \in Shows(tour.app, k, tour.table) : server'[c] = server[c]
        <5>1. \A c \in Columns :
                server'[c] = IF c \in DOMAIN writes[i].row THEN writes[i].row[c] ELSE server[c]
          BY <1>1, StoredFine DEF IInv
        <5>. QED  BY <4>1, <5>1 DEF Shows
      <4>3. Rows(k)' = Rows(k)
        BY <1>1, <4>2 DEF Rows
      <4>4. Known(k)' => Known(k)
        <5>1. \A j \in DOMAIN writes : writes[j].done => writes'[j].done
          BY <1>1, <1>3
        <5>. QED  BY <1>1, <1>3, <5>1 DEF Known, Pending, Remembered
      <4>. QED  BY <3>1, <4>3, <4>4 DEF Good
    <3>. QED  BY <3>2, <3>3
  <2>. QED  BY <1>1, <2>1, SameTour DEF CacheInv
<1>7. FormInv'
  <2>1. form' # NULL => Copies(at)' /\ (IsDrawer(at) \/ IsForm(at))'
    BY <1>1, SameTour DEF IInv, FormInv
  <2>2. ASSUME form' # NULL, form'.current, ~ torn', Remembered(tour, Source(at))'
        PROVE  /\ NotAbove(server, form.copy)'
               /\ \A j \in DOMAIN writes' : NotAbove(writes[j].row, form.copy)'
    <3>1. /\ NotAbove(server, form.copy)
          /\ \A j \in DOMAIN writes : NotAbove(writes[j].row, form.copy)
      BY <1>1, <2>2, SameTour DEF IInv, FormInv
    <3>2. \A c \in Columns : server'[c] = IF c \in DOMAIN writes[i].row THEN writes[i].row[c] ELSE server[c]
      BY <1>1, StoredFine DEF IInv
    <3>3. DOMAIN server = Columns /\ DOMAIN server' = Columns
      BY <1>4 DEF IInv, TypeInv
    <3>4. NotAbove(server', form.copy)
      BY <3>1, <3>2, <3>3 DEF NotAbove
    <3>. QED  BY <1>1, <1>3, <3>1, <3>4 DEF NotAbove
  <2>. QED  BY <2>1, <2>2 DEF FormInv
<1>8. WriteInv'
  <2>. SUFFICES ASSUME NEW j \in DOMAIN writes'
                PROVE  /\ DOMAIN writes'[j].row \subseteq Changes(writes'[j].op)
                       /\ writes'[j].op.kind = "form" => Fields \subseteq DOMAIN writes'[j].row
                       /\ writes'[j].current => Len(writes') = 1 /\ writes'[j].done
    BY DEF WriteInv
  <2>1. /\ DOMAIN writes[j].row \subseteq Changes(writes[j].op)
        /\ writes[j].op.kind = "form" => Fields \subseteq DOMAIN writes[j].row
        /\ writes[j].current => Len(writes) = 1
    BY <1>3 DEF IInv, WriteInv
  <2>2. Len(writes) = 1 => j = i
    BY <1>2, <1>3
  <2>. QED  BY <1>3, <2>1, <2>2
<1>. QED  BY <1>5, <1>6, <1>7, <1>8 DEF IInv

\* What the write drops is asked again, or no longer taken for fresh.
LEMMA ReturnFine ==
  ASSUME IInv, NEW i \in DOMAIN writes, Return(i)
  PROVE  IInv'
<1>1. /\ cache' = [k \in DOMAIN cache |-> IF Drops(writes[i].op, k)
                                          THEN Invalidated(cache[k], Shown(at, k)) ELSE cache[k]]
      /\ form' \in {NULL, form}
      /\ Gone(i) /\ UNCHANGED <<tour, at, server, made, torn>>
  BY DEF Return, Drops
<1>2. /\ DOMAIN cache = Keys /\ \A k \in Keys : cache[k] \in EntryType(k) /\ Good(k)
      /\ tour \in Tours /\ at \in {tour.from, tour.to} /\ IsTour(tour)
  BY DEF IInv, TypeInv, CacheInv
<1>3. \A k : ~ Drops(writes[i].op, k) /\ Known(k)' => Known(k)
  <2>. SUFFICES ASSUME NEW k1, ~ Drops(writes[i].op, k1), Pending(k1) PROVE Pending(k1)'
    BY <1>1 DEF Known, Remembered
  <2>1. PICK j \in DOMAIN writes : writes[j].done /\ Drops(writes[j].op, k1)
    BY DEF Pending
  <2>2. PICK n \in DOMAIN writes' : writes'[n] = writes[j]
    BY <1>1, <2>1, Unqueued DEF IInv
  <2>. QED  BY <2>1, <2>2 DEF Pending
<1>6. \A k \in Keys : cache'[k] \in EntryType(k) /\ Good(k)'
  <2>. SUFFICES ASSUME NEW k \in Keys PROVE cache'[k] \in EntryType(k) /\ Good(k)'
    OBVIOUS
  <2>. DEFINE s == Shown(at, k)
  <2>0. /\ s \in BOOLEAN /\ Shown(at, k)' = s
        /\ s /\ cache[k].fetch = "idle" => cache[k].fresh
    BY <1>1, <1>2, SameTour DEF Shown, Good
  <2>. HIDE DEF s
  <2>1. CASE Drops(writes[i].op, k)
    <3>1. cache'[k] = Invalidated(cache[k], s)
      BY <1>1, <1>2, <2>1 DEF s
    <3>2. /\ cache'[k] \in EntryType(k) /\ ~ cache'[k].fresh
          /\ cache'[k].fetch = "answered" => cache'[k].raced
          /\ s => cache'[k].fetch # "idle"
      BY <1>2, <2>0, <3>1, InvalidatedFields
    <3>. QED  BY <2>0, <3>2 DEF Good
  <2>2. CASE ~ Drops(writes[i].op, k)
    <3>1. cache'[k] = cache[k] /\ Good(k) /\ (Known(k)' => Known(k))
      BY <1>1, <1>2, <1>3, <2>2
    <3>. QED  BY <1>1, <1>2, <3>1, GoodStays
  <2>. QED  BY <2>1, <2>2
<1>7. TypeInv'
  <2>1. DOMAIN cache' = Keys
    BY <1>1, <1>2
  <2>2. writes' \in Seq(WriteType)
    BY <1>1, Unqueued DEF IInv
  <2>3. form' # NULL => form' \in FormType
    BY <1>1 DEF IInv, TypeInv
  <2>. QED  BY <1>1, <1>6, <2>1, <2>2, <2>3, SameTypes DEF IInv, TypeInv, IsTour
<1>8. CacheInv'
  BY <1>1, <1>6, SameTour DEF CacheInv
<1>9. FormInv'
  <2>1. CASE form' = form
    <3>1. \A k \in DOMAIN writes' : \E j \in DOMAIN writes : writes'[k].row = writes[j].row
      BY <1>1, Unqueued DEF IInv
    <3>. QED  BY <1>1, <2>1, <3>1, FormStays DEF IInv
  <2>2. CASE form' = NULL
    BY <2>2 DEF FormInv
  <2>. QED  BY <1>1, <2>1, <2>2
<1>10. WriteInv'
  BY <1>1, UnqueuedWrites
<1>. QED  BY <1>7, <1>8, <1>9, <1>10 DEF IInv

\* What is sent goes last, and the others are no longer current.
Sending(op, column, copy, current) ==
  /\ op \in PageAt(at).writes /\ op.table = tour.table /\ column \in Columns
  /\ DOMAIN copy \subseteq Columns /\ \A c \in DOMAIN copy : copy[c] \in Numbers
  /\ current \in BOOLEAN /\ writes' = Sent(op, copy, current, column)
  /\ UNCHANGED tour /\ made' = made + 1
SentLast(op, column, copy, current, n) ==
  /\ writes' \in Seq(WriteType)' /\ Len(writes') = n /\ DOMAIN writes' = 1..n
  /\ \A i \in DOMAIN writes :
       /\ writes'[i].op = writes[i].op /\ writes'[i].row = writes[i].row
       /\ writes'[i].done = writes[i].done /\ ~ writes'[i].current
  /\ writes'[n].op = op /\ ~ writes'[n].done
  /\ writes'[n].row = [c \in {column} \cup DOMAIN copy |->
                         IF c = column THEN made + 1 ELSE copy[c]]
  /\ writes'[n].current <=> current /\ writes = << >>
  /\ op.kind \in {"form", "row"} => writes'[n].source = Source(at)

LEMMA SentFine ==
  ASSUME TypeInv, NEW op, NEW column, NEW copy, NEW current,
         Sending(op, column, copy, current), NEW n, n = Len(writes) + 1
  PROVE  SentLast(op, column, copy, current, n)
<1>0. /\ op \in PageAt(at).writes /\ op.table = tour.table /\ column \in Columns
      /\ DOMAIN copy \subseteq Columns /\ \A c \in DOMAIN copy : copy[c] \in Numbers
      /\ current \in BOOLEAN /\ writes' = Sent(op, copy, current, column)
      /\ UNCHANGED tour /\ made' = made + 1
  BY DEF Sending
<1>. DEFINE row == [c \in {column} \cup DOMAIN copy |-> IF c = column THEN made + 1 ELSE copy[c]]
            source == IF op.kind \in {"form", "row"} THEN Source(at) ELSE NULL
            b == current /\ writes = << >>
            new == [op |-> op, row |-> row, current |-> b, source |-> source,
                    here |-> TRUE, done |-> FALSE]
            old == [i \in DOMAIN writes |-> [writes[i] EXCEPT !.current = FALSE]]
            T == WriteType'
<1>1. writes' = Append(old, new)
  BY <1>0 DEF Sent
<1>2. /\ Len(writes) \in Nat /\ DOMAIN writes = 1..Len(writes)
      /\ \A i \in DOMAIN writes : writes[i] \in WriteType
  BY Queue
<1>3. made \in Nat /\ made' \in Nat /\ made <= made' /\ at \in {tour.from, tour.to}
  BY <1>0 DEF TypeInv
<1>4. row \in RowType'
  <2>1. ({column} \cup DOMAIN copy) \in SUBSET Columns
    BY <1>0
  <2>2. made + 1 \in Numbers' /\ Numbers \subseteq Numbers'
    BY <1>0, <1>3, Growing DEF Numbers
  <2>3. row \in [{column} \cup DOMAIN copy -> Numbers']
    BY <1>0, <2>2
  <2>. HIDE DEF row
  <2>. QED  BY <2>1, <2>3 DEF RowType
<1>5. new \in T
  <2>1. op \in Ops'
    BY <1>0, <1>3, SameTour DEF Ops
  <2>2. source \in {NULL, Source(tour.from), Source(tour.to)}'
    <3>1. Source(tour.from)' = Source(tour.from) /\ Source(tour.to)' = Source(tour.to)
      BY <1>0, SameTour
    <3>. QED  BY <1>0, <1>3, <3>1
  <2>3. b \in BOOLEAN
    BY <1>0
  <2>. HIDE DEF row, source, b
  <2>. QED  BY <1>4, <2>1, <2>2, <2>3 DEF WriteType
<1>6. old \in Seq(T) /\ Len(old) = Len(writes)
  <2>1. old \in [1..Len(writes) -> WriteType]
    BY <1>2, Marked
  <2>2. WriteType \subseteq T
    BY <1>0, <1>3, Growing
  <2>. HIDE DEF old, T
  <2>3. old \in [1..Len(writes) -> T]
    BY <2>1, <2>2
  <2>. QED  BY <1>2, <2>3, SeqOfFunction
<1>7. \A i \in DOMAIN writes :
        /\ old[i].op = writes[i].op /\ old[i].row = writes[i].row
        /\ old[i].done = writes[i].done /\ ~ old[i].current
  BY <1>2, Marked
<1>8. /\ new.op = op /\ ~ new.done /\ new.row = row /\ (new.current <=> b)
      /\ new.source = source
  <2>. HIDE DEF row, source, b
  <2>. QED  OBVIOUS
<1>. HIDE DEF old, new, T
<1>9. /\ writes' \in Seq(T) /\ Len(writes') = n /\ writes'[n] = new
      /\ \A i \in 1..Len(writes) : writes'[i] = old[i]
  BY <1>1, <1>2, <1>5, <1>6
<1>10. DOMAIN writes' = 1..n
  BY <1>9
<1>. QED  BY <1>2, <1>7, <1>8, <1>9, <1>10 DEF T, SentLast

LEMMA SendCommon ==
  ASSUME IInv, made < MaxWrites, made' = made + 1, UNCHANGED <<tour, at, server, cache, torn>>,
         NEW op \in PageAt(at).writes, op.table = tour.table, NEW column \in Columns,
         NEW copy, DOMAIN copy \subseteq Columns, \A c \in DOMAIN copy : copy[c] \in Numbers,
         NEW current \in BOOLEAN, writes' = Sent(op, copy, current, column),
         form' # NULL => form' \in FormType',
         op.kind = "form" => Fields \subseteq DOMAIN copy,
         {column} \cup DOMAIN copy \subseteq Changes(op),
         (/\ current /\ writes = << >> /\ ~ torn
          /\ op.kind \in {"form", "row"} => Remembered(tour, Source(at)))
           => \A c \in DOMAIN copy : server[c] <= copy[c]
  PROVE  TypeInv' /\ CacheInv' /\ WriteInv'
<1>1. /\ TypeInv /\ made \in Nat /\ made' \in Nat /\ made <= made' /\ made' \in 0..MaxWrites
      /\ Len(writes) \in Nat /\ DOMAIN writes = 1..Len(writes)
  BY Queue DEF IInv, TypeInv
<1>0. PICK n : n = Len(writes) + 1
  OBVIOUS
<1>2. /\ writes' \in Seq(WriteType)' /\ Len(writes') = n /\ DOMAIN writes' = 1..n
      /\ \A i \in DOMAIN writes :
           /\ writes'[i].op = writes[i].op /\ writes'[i].row = writes[i].row
           /\ writes'[i].done = writes[i].done /\ ~ writes'[i].current
      /\ writes'[n].op = op /\ ~ writes'[n].done
      /\ writes'[n].row = [c \in {column} \cup DOMAIN copy |->
                             IF c = column THEN made + 1 ELSE copy[c]]
      /\ writes'[n].current <=> current /\ writes = << >>
      /\ op.kind \in {"form", "row"} => writes'[n].source = Source(at)
  <2>1. Sending(op, column, copy, current)
    BY DEF Sending
  <2>2. SentLast(op, column, copy, current, n)
    BY <1>0, <1>1, <2>1, SentFine
  <2>. QED  BY <2>2 DEF SentLast
<1>3. TypeInv'
  <2>1. \A k \in Keys' : cache'[k] \in EntryType(k)'
    BY <1>1, Growing, SameTour DEF TypeInv
  <2>2. server' \in [Columns -> Numbers]' /\ DOMAIN cache' = Keys'
    BY <1>1, Growing, SameTour DEF TypeInv
  <2>. QED  BY <1>1, <1>2, <2>1, <2>2 DEF TypeInv, IsTour
<1>4. CacheInv'
  <2>1. \A k : Pending(k) => Pending(k)'
    BY <1>0, <1>1, <1>2 DEF Pending
  <2>2. \A k : Known(k)' => Known(k)
    BY <2>1 DEF Known, Remembered
  <2>. QED  BY <2>2, CacheStays DEF IInv
<1>5. WriteInv'
  <2>. SUFFICES ASSUME NEW i \in 1..n
                PROVE  /\ DOMAIN writes'[i].row \subseteq Changes(writes'[i].op)
                       /\ writes'[i].op.kind = "form" => Fields \subseteq DOMAIN writes'[i].row
                       /\ writes'[i].current => Len(writes') = 1
                       /\ (writes'[i].current /\ ~ writes'[i].done /\ ~ torn'
                             /\ Remembered(tour, writes[i].source)') => Newer(writes[i])'
    BY <1>2 DEF WriteInv
  <2>1. CASE i # n
    <3>1. i \in DOMAIN writes
      BY <1>0, <1>1, <2>1
    <3>2. /\ DOMAIN writes[i].row \subseteq Changes(writes[i].op)
          /\ writes[i].op.kind = "form" => Fields \subseteq DOMAIN writes[i].row
      BY <3>1 DEF IInv, WriteInv
    <3>. QED  BY <1>2, <3>1, <3>2
  <2>2. CASE i = n
    <3>1. /\ DOMAIN writes'[i].row \subseteq Changes(writes'[i].op)
          /\ writes'[i].op.kind = "form" => Fields \subseteq DOMAIN writes'[i].row
      BY <1>2, <2>2
    <3>2. writes'[i].current => Len(writes') = 1
      BY <1>0, <1>1, <1>2, <2>2
    <3>3. ASSUME writes'[i].current, ~ torn', Remembered(tour, writes[i].source)'
          PROVE  Newer(writes[i])'
      <4>1. op.kind \in {"form", "row"} => Remembered(tour, Source(at))
        BY <1>2, <2>2, <3>3 DEF Remembered
      <4>2. \A c \in DOMAIN copy : server[c] <= copy[c]
        BY <1>2, <2>2, <3>3, <4>1
      <4>3. server[column] <= made + 1
        <5>1. server[column] \in Numbers
          BY <1>1 DEF TypeInv
        <5>. QED  BY <1>1, <5>1 DEF Numbers
      <4>. QED  BY <1>2, <2>2, <4>2, <4>3 DEF Newer
    <3>. QED  BY <3>1, <3>2, <3>3
  <2>. QED  BY <2>1, <2>2
<1>. QED  BY <1>3, <1>4, <1>5

LEMMA SubmitFormFine ==
  ASSUME IInv, made < MaxWrites, made' = made + 1, UNCHANGED <<tour, at, server, cache, torn>>,
         NEW op \in PageAt(at).writes, op.table = tour.table, NEW column \in Columns,
         column # "rows", SubmitForm(op, column)
  PROVE  IInv'
<1>1. /\ op.kind = "form" /\ form # NULL
      /\ writes' = Sent(op, form.copy, form.current, column)
      /\ form' = [form EXCEPT !.copy[column] = made + 1]
  BY DEF SubmitForm
<1>2. /\ form \in FormType /\ made \in Nat /\ made' \in Nat /\ made <= made'
      /\ Numbers \subseteq Numbers' /\ column \in Fields /\ TypeInv
  <2>1. column \in Fields
    BY DEF Columns, Fields
  <2>. QED  BY <1>1, <2>1, Growing DEF IInv, TypeInv
<1>3. /\ DOMAIN form.copy = Fields /\ Fields \subseteq Columns /\ form.current \in BOOLEAN
      /\ \A c \in Fields : form.copy[c] \in Numbers
  BY <1>2 DEF FormType, Fields, Columns
<1>4. /\ form' \in FormType' /\ form'.current = form.current
      /\ \A c \in Fields : form'.copy[c] = IF c = column THEN made + 1 ELSE form.copy[c]
  <2>1. made + 1 \in Numbers'
    BY <1>2 DEF Numbers
  <2>. HIDE DEF Numbers
  <2>2. PICK f \in [Fields -> Numbers], b \in BOOLEAN : form = [copy |-> f, current |-> b]
    BY <1>2 DEF FormType
  <2>3. form' = [copy |-> [f EXCEPT ![column] = made + 1], current |-> b]
    BY <1>1, <2>2
  <2>4. [f EXCEPT ![column] = made + 1] \in [Fields -> Numbers']
    BY <1>2, <2>1
  <2>. QED  BY <1>2, <2>2, <2>3, <2>4 DEF FormType
<1>5. form.current /\ ~ torn /\ Remembered(tour, Source(at)) =>
        /\ NotAbove(server, form.copy)
        /\ \A i \in DOMAIN writes : NotAbove(writes[i].row, form.copy)
  BY <1>1 DEF IInv, FormInv
<1>6. \A c \in Columns : server[c] \in Numbers
  BY <1>2 DEF TypeInv
<1>7. form.current /\ ~ torn /\ Remembered(tour, Source(at)) =>
        \A c \in DOMAIN form.copy : server[c] <= form.copy[c]
  <2>1. DOMAIN server = Columns
    BY <1>2 DEF TypeInv
  <2>. QED  BY <1>3, <1>5, <2>1 DEF NotAbove
<1>8. TypeInv' /\ CacheInv' /\ WriteInv'
  <2>1. PICK copy : copy = form.copy
    OBVIOUS
  <2>0. PICK current \in BOOLEAN : current = form.current
    BY <1>3
  <2>2. /\ DOMAIN copy \subseteq Columns /\ \A c \in DOMAIN copy : copy[c] \in Numbers
        /\ Fields \subseteq DOMAIN copy
        /\ {column} \cup DOMAIN copy \subseteq Changes(op)
    BY <1>1, <1>2, <1>3, <2>1 DEF Changes
  <2>3. (/\ current /\ writes = << >> /\ ~ torn
         /\ op.kind \in {"form", "row"} => Remembered(tour, Source(at)))
           => \A c \in DOMAIN copy : server[c] <= copy[c]
    BY <1>1, <1>7, <2>0, <2>1
  <2>. QED  BY <1>1, <1>4, <2>0, <2>1, <2>2, <2>3, SendCommon
<1>9. FormInv'
  <2>1. form' # NULL => Copies(at)' /\ (IsDrawer(at) \/ IsForm(at))'
    BY <1>1, SameTour DEF IInv, FormInv
  <2>2. ASSUME form'.current, ~ torn', Remembered(tour, Source(at))'
        PROVE  /\ NotAbove(server, form.copy)'
               /\ \A i \in DOMAIN writes' : NotAbove(writes[i].row, form.copy)'
    <3>1. /\ NotAbove(server, form.copy)
          /\ \A i \in DOMAIN writes : NotAbove(writes[i].row, form.copy)
      BY <1>4, <1>5, <2>2, SameTour
    <3>3. NotAbove(server, form'.copy)
      <4>. SUFFICES ASSUME NEW c \in Fields, c \in DOMAIN server PROVE server[c] <= form'.copy[c]
        BY DEF NotAbove
      <4>1. server[c] <= form.copy[c]
        BY <3>1 DEF NotAbove
      <4>2. server[c] \in Numbers
        BY <1>3, <1>6
      <4>3. server[c] <= made + 1
        BY <1>2, <4>2 DEF Numbers
      <4>. QED  BY <1>4, <4>1, <4>3
    <3>4. \A i \in DOMAIN writes : NotAbove(writes[i].row, form'.copy)
      <4>. SUFFICES ASSUME NEW i \in DOMAIN writes, NEW c \in Fields, c \in DOMAIN writes[i].row
                    PROVE  writes[i].row[c] <= form'.copy[c]
        BY DEF NotAbove
      <4>1. writes[i].row[c] <= form.copy[c]
        BY <3>1 DEF NotAbove
      <4>2. writes[i].row[c] \in Numbers
        <5>1. writes[i].row \in RowType
          BY <1>2, Queue DEF WriteType
        <5>. QED  BY <5>1 DEF RowType
      <4>3. writes[i].row[c] <= made + 1
        BY <1>2, <4>2 DEF Numbers
      <4>. QED  BY <1>4, <4>1, <4>3
    <3>2. PICK n : n = Len(writes) + 1
      OBVIOUS
    <3>5. /\ DOMAIN writes' = 1..n /\ DOMAIN writes = 1..Len(writes) /\ Len(writes) \in Nat
          /\ \A i \in DOMAIN writes : writes'[i].row = writes[i].row
          /\ writes'[n].row = [c \in {column} \cup DOMAIN form.copy |->
                                 IF c = column THEN made + 1 ELSE form.copy[c]]
      <4>1. PICK copy : copy = form.copy
        OBVIOUS
      <4>0. PICK current \in BOOLEAN : current = form.current
        BY <1>3
      <4>2. /\ DOMAIN copy \subseteq Columns /\ \A c \in DOMAIN copy : copy[c] \in Numbers
            /\ writes' = Sent(op, copy, current, column)
        BY <1>1, <1>3, <4>0, <4>1
      <4>3. /\ DOMAIN writes' = 1..n
            /\ \A i \in DOMAIN writes : writes'[i].row = writes[i].row
            /\ writes'[n].row = [c \in {column} \cup DOMAIN copy |->
                                   IF c = column THEN made + 1 ELSE copy[c]]
        <5>1. Sending(op, column, copy, current)
          BY <4>2 DEF Sending
        <5>2. SentLast(op, column, copy, current, n)
          BY <1>2, <3>2, <5>1, SentFine
        <5>. QED  BY <5>2 DEF SentLast
      <4>. QED  BY <1>2, <4>1, <4>3, Queue
    <3>6. NotAbove(writes'[n].row, form'.copy)
      <4>. SUFFICES ASSUME NEW c \in Fields PROVE writes'[n].row[c] <= form'.copy[c]
        BY DEF NotAbove
      <4>1. writes'[n].row[c] = form'.copy[c]
        BY <1>3, <1>4, <3>5
      <4>2. form'.copy[c] \in Nat
        <5>1. form.copy[c] \in Nat
          BY <1>3 DEF Numbers
        <5>. QED  BY <1>2, <1>4, <5>1
      <4>. QED  BY <4>1, <4>2
    <3>7. \A i \in DOMAIN writes' : NotAbove(writes'[i].row, form'.copy)
      BY <3>2, <3>4, <3>5, <3>6
    <3>. QED  BY <3>3, <3>7 DEF NotAbove
  <2>. QED  BY <2>1, <2>2 DEF FormInv
<1>. QED  BY <1>8, <1>9 DEF IInv

\* A page with an open form sends nothing else that sets a field.
LEMMA FormAlone ==
  ASSUME PagesFit, IInv, form # NULL, ~ Covered,
         NEW op \in PageAt(at).writes, op.table = tour.table
  PROVE  op.kind \notin {"row", "flag", "found"}
<1>1. IsForm(at)
  BY DEF IInv, FormInv, Covered
<1>2. PageAt(at).seeds \in {"once", "fresh"} /\ at \in {tour.from, tour.to} /\ tour \in Tours
  BY <1>1 DEF IsForm, IInv, TypeInv
<1>. QED  BY <1>2 DEF PagesFit, FormsAlone, PageAt

LEMMA SendShownRowFine ==
  ASSUME PagesFit, IInv, made < MaxWrites, made' = made + 1,
         UNCHANGED <<tour, at, server, cache, torn>>,
         NEW op \in PageAt(at).writes, op.table = tour.table, NEW column \in Columns,
         column # "rows", SendShownRow(op, column)
  PROVE  IInv'
<1>1. /\ op.kind = "row" /\ ~ Covered /\ Copies(at) /\ cache[Source(at)].data # NULL
      /\ writes' = Sent(op, Filled(cache[Source(at)]).copy, Current(cache[Source(at)]), column)
      /\ form' = form
  BY DEF SendShownRow
<1>2. form = NULL
  BY <1>1, FormAlone
<1>3. at \in {tour.from, tour.to}
  BY DEF IInv, TypeInv
<1>4. /\ Source(at) \in Keys /\ Shown(at, Source(at))
      /\ Fields \subseteq Shows(tour.app, Source(at), tour.table)
  BY <1>1, <1>3, FilledForms
<1>5. PICK k \in Keys : k = Source(at)
  BY <1>4
<1>6. cache[k] \in EntryType(k) /\ Good(k)
  BY DEF IInv, TypeInv, CacheInv
<1>7. PICK copy : copy = Filled(cache[k]).copy
  OBVIOUS
<1>8. PICK current : current = Current(cache[k])
  OBVIOUS
<1>9. Filled(cache[k]) \in FormType /\ (cache[k].data = Rows(k) => NotAbove(server, copy))
  BY <1>1, <1>4, <1>5, <1>6, <1>7, FilledFine
<1>10. DOMAIN copy = Fields /\ \A c \in DOMAIN copy : copy[c] \in Numbers
  BY <1>7, <1>9 DEF FormType
<1>11. (/\ current /\ writes = << >> /\ ~ torn
        /\ op.kind \in {"form", "row"} => Remembered(tour, Source(at)))
         => \A c \in DOMAIN copy : server[c] <= copy[c]
  <2>. SUFFICES ASSUME current, writes = << >>, ~ torn, Remembered(tour, k)
                PROVE  \A c \in DOMAIN copy : server[c] <= copy[c]
    BY <1>1, <1>5
  <2>1. Known(k) /\ Settled(cache[k])
    <3>1. Settled(cache[k])
      BY <1>8, Zenon DEF Current
    <3>. QED  BY <3>1 DEF Known, Pending
  <2>2. cache[k].data = Rows(k)
    BY <1>4, <1>5, <1>6, <2>1 DEF Good, Settled
  <2>3. DOMAIN server = Columns /\ Fields \subseteq Columns
    BY DEF IInv, TypeInv, Fields, Columns
  <2>. QED  BY <1>9, <1>10, <2>2, <2>3 DEF NotAbove
<1>12. current \in BOOLEAN /\ DOMAIN copy \subseteq Columns /\ op.kind # "form"
  BY <1>1, <1>8, <1>10 DEF Current, Settled, Fields, Columns
<1>13. {column} \cup DOMAIN copy \subseteq Changes(op)
  BY <1>1, <1>10 DEF Changes, Fields, Columns
<1>14. writes' = Sent(op, copy, current, column)
  BY <1>1, <1>5, <1>7, <1>8
<1>15. form' # NULL => form' \in FormType'
  BY <1>1, <1>2
<1>16. TypeInv' /\ CacheInv' /\ WriteInv'
  BY <1>10, <1>11, <1>12, <1>13, <1>14, <1>15, SendCommon
<1>. QED  BY <1>1, <1>2, <1>16 DEF IInv, FormInv

LEMMA SetOneFine ==
  ASSUME PagesFit, IInv, made < MaxWrites, made' = made + 1,
         UNCHANGED <<tour, at, server, cache, torn>>,
         NEW op \in PageAt(at).writes, op.table = tour.table, NEW column \in Columns,
         SetOne(op, column)
  PROVE  IInv'
<1>1. /\ op.kind \in (IF column = "rows" THEN {"set"} ELSE {"flag", "found"}) /\ ~ Covered
      /\ column # "right"
      /\ writes' = Sent(op, << >>, TRUE, column) /\ form' = form
  BY DEF SetOne
<1>2. made \in Nat /\ made' \in Nat /\ made <= made'
  BY DEF IInv, TypeInv
<1>3. PICK copy : copy = << >>
  OBVIOUS
<1>4. DOMAIN copy = {}
  BY <1>3
<1>5. form' # NULL => form' \in FormType'
  BY <1>1, <1>2, Growing DEF IInv, TypeInv
<1>6. TypeInv' /\ CacheInv' /\ WriteInv'
  <2>1. writes' = Sent(op, copy, TRUE, column) /\ op.kind # "form"
    BY <1>1, <1>3
  <2>2. DOMAIN copy \subseteq Columns /\ \A c \in DOMAIN copy : copy[c] \in Numbers
    BY <1>4
  <2>3. \A c \in DOMAIN copy : server[c] <= copy[c]
    BY <1>4
  <2>4. {column} \cup DOMAIN copy \subseteq Changes(op)
    BY <1>1, <1>4 DEF Changes, Columns, Fields
  <2>. QED  BY <1>5, <2>1, <2>2, <2>3, <2>4, SendCommon
<1>7. FormInv'
  <2>. SUFFICES ASSUME form # NULL PROVE FormInv'
    BY <1>1 DEF FormInv
  <2>1. op.kind = "set" /\ column = "rows"
    BY <1>1, FormAlone
  <2>2. form' # NULL => Copies(at)' /\ (IsDrawer(at) \/ IsForm(at))'
    BY <1>1, SameTour DEF IInv, FormInv
  <2>3. ASSUME form'.current, ~ torn', Remembered(tour, Source(at))'
        PROVE  /\ NotAbove(server, form.copy)'
               /\ \A i \in DOMAIN writes' : NotAbove(writes[i].row, form.copy)'
    <3>1. /\ NotAbove(server, form.copy)
          /\ \A i \in DOMAIN writes : NotAbove(writes[i].row, form.copy)
      BY <1>1, <2>3, SameTour DEF IInv, FormInv
    <3>2. PICK n : n = Len(writes) + 1
      OBVIOUS
    <3>3. SentLast(op, column, copy, TRUE, n)
      <4>1. Sending(op, column, copy, TRUE)
        BY <1>1, <1>3, <1>4 DEF Sending
      <4>. QED  BY <3>2, <4>1, SentFine DEF IInv
    <3>4. /\ DOMAIN writes' = 1..n /\ DOMAIN writes = 1..Len(writes) /\ Len(writes) \in Nat
          /\ \A i \in DOMAIN writes : writes'[i].row = writes[i].row
          /\ writes'[n].row = [c \in {column} \cup DOMAIN copy |->
                                 IF c = column THEN made + 1 ELSE copy[c]]
      BY <3>3, Queue DEF SentLast, IInv
    <3>5. NotAbove(writes'[n].row, form.copy)
      <4>1. DOMAIN writes'[n].row = {"rows"}
        BY <1>4, <2>1, <3>4
      <4>. QED  BY <4>1 DEF NotAbove, Fields
    <3>6. \A i \in DOMAIN writes' : NotAbove(writes'[i].row, form.copy)
      BY <3>1, <3>2, <3>4, <3>5
    <3>. QED  BY <1>1, <3>1, <3>6 DEF NotAbove
  <2>. QED  BY <2>2, <2>3 DEF FormInv
<1>. QED  BY <1>6, <1>7 DEF IInv

LEMMA SendFine ==
  ASSUME PagesFit, IInv, Send
  PROVE  IInv'
<1>1. PICK op \in PageAt(at).writes, column \in Columns :
        /\ op.table = tour.table
        /\ \/ column # "rows" /\ SubmitForm(op, column)
           \/ column # "rows" /\ SendShownRow(op, column)
           \/ SetOne(op, column)
  BY DEF Send
<1>2. made < MaxWrites /\ made' = made + 1 /\ UNCHANGED <<tour, at, server, cache, torn>>
  BY DEF Send
<1>. QED  BY <1>1, <1>2, SubmitFormFine, SendShownRowFine, SetOneFine

-----------------------------------------------------------------------------
LEMMA InitFine == Init => IInv
<1>. SUFFICES ASSUME Init PROVE IInv
  OBVIOUS
<1>1. /\ tour \in Tours /\ IsTour(tour) /\ at = tour.from
      /\ server = [c \in Columns |-> 0]
      /\ cache = [k \in Keys |-> IF Shown(at, k) THEN Mounted(Never) ELSE Never]
      /\ form = NULL /\ writes = << >> /\ made = 0 /\ torn = FALSE
  BY DEF Init
<1>2. \A k \in Keys : /\ cache[k] \in EntryType(k)
                      /\ Shown(at, k) /\ cache[k].fetch = "idle" => cache[k].fresh
                      /\ ~ cache[k].fresh /\ cache[k].fetch # "answered"
  <2>. SUFFICES ASSUME NEW k \in Keys
                PROVE  /\ cache[k] \in EntryType(k)
                       /\ Shown(at, k) /\ cache[k].fetch = "idle" => cache[k].fresh
                       /\ ~ cache[k].fresh /\ cache[k].fetch # "answered"
    OBVIOUS
  <2>1. /\ Mounted(Never) = Asked(Never) /\ Asked(Never).fetch = "asked" /\ ~ Asked(Never).fresh
    BY DEF Mounted, Asked, Never
  <2>2. Never \in EntryType(k) /\ Asked(Never) \in EntryType(k)
    <3>1. Never \in EntryType(k)
      BY NeverFields
    <3>. QED  BY <3>1, EntryFields
  <2>. QED  BY <1>1, <2>1, <2>2, NeverFields
<1>3. TypeInv
  <2>1. server \in [Columns -> Numbers] /\ made \in 0..MaxWrites
    BY <1>1 DEF Numbers
  <2>2. writes \in Seq(WriteType)
    BY <1>1
  <2>. QED  BY <1>1, <1>2, <2>1, <2>2 DEF TypeInv
<1>4. CacheInv
  BY <1>2 DEF CacheInv, Good
<1>5. FormInv /\ WriteInv
  BY <1>1 DEF FormInv, WriteInv
<1>. QED  BY <1>3, <1>4, <1>5 DEF IInv

LEMMA NextFine == PagesFit /\ IInv /\ [Next]_vars => IInv'
<1>. SUFFICES ASSUME PagesFit, IInv, [Next]_vars PROVE IInv'
  OBVIOUS
<1>1. CASE UNCHANGED vars
  <2>1. UNCHANGED <<tour, at, server, cache, form, writes, made, torn>>
    BY <1>1 DEF vars
  <2>2. TypeInv'
    BY <2>1, SameTypes DEF IInv, TypeInv, IsTour
  <2>3. FormInv'
    BY <2>1, FormStays DEF IInv
  <2>4. \A k : Known(k)' => Known(k)
    BY <2>1 DEF Known, Pending, Remembered
  <2>5. WriteInv'
    BY <2>1 DEF IInv, WriteInv, Newer, Remembered
  <2>. QED  BY <2>1, <2>2, <2>3, <2>4, <2>5, CacheStays DEF IInv
<1>2. CASE Next
  BY <1>2, ArriveFine, OpenFormFine, CloseFormFine, SendFine, FindFine, CommitFine, RefuseFine,
     RefuseTheRestFine, LoseAnswerFine, ReturnFine, ReadFine, AnswerFine DEF Next
<1>. QED  BY <1>1, <1>2


-----------------------------------------------------------------------------
(* The pages of the five front ends are like that. *)
PageFits(app, p) ==
  LET pg == PagesOf[app][p]
  IN /\ pg.source # NULL => pg.source \in pg.reads
     /\ pg.seeds \in {"once", "fresh"} => \A w \in pg.writes : w.kind \notin {"row", "flag", "found"}
     /\ \A w \in pg.writes : \A k \in KeysOf(app) :
          (/\ <<w.table, k>> \notin MCForgotten
           /\ Changes(w) \cap Shows(app, k, w.table) # {}) => Drops(w, k)

LEMMA FittingPages ==
  ASSUME Tours \subseteq AllTours, Forgotten = MCForgotten,
         \A app \in App : \A p \in DOMAIN PagesOf[app] : PageFits(app, p)
  PROVE  PagesFit
<1>1. ASSUME NEW t \in Tours
      PROVE  /\ t.app \in App /\ {t.from, t.to} \subseteq DOMAIN PagesOf[t.app]
             /\ KeysOfTour(t) \subseteq KeysOf(t.app)
  <2>1. PICK app \in App :
          t \in UNION {{[app |-> app, from |-> p, to |-> q, table |-> w.table, key |-> k] :
                          w \in PagesOf[app][p].writes, k \in PagesOf[app][q].reads} :
                       p \in DOMAIN PagesOf[app], q \in DOMAIN PagesOf[app]}
    BY <1>1 DEF AllTours
  <2>2. PICK p \in DOMAIN PagesOf[app], q \in DOMAIN PagesOf[app] :
          \E w \in PagesOf[app][p].writes, k \in PagesOf[app][q].reads :
            t = [app |-> app, from |-> p, to |-> q, table |-> w.table, key |-> k]
    BY <2>1
  <2>3. PICK w \in PagesOf[app][p].writes, k \in PagesOf[app][q].reads :
          t = [app |-> app, from |-> p, to |-> q, table |-> w.table, key |-> k]
    BY <2>2
  <2>4. t.app = app /\ t.from = p /\ t.to = q /\ t.key = k
    BY <2>3
  <2>. QED  BY <2>2, <2>3, <2>4 DEF KeysOfTour, KeysOf, SourceOf
<1>2. \A t \in Tours : \A p \in {t.from, t.to} : PageFits(t.app, p)
  BY <1>1
<1>3. WritesDrop
  BY <1>1, <1>2 DEF WritesDrop, PageFits, Remembered
<1>4. SourcesAreRead /\ FormsAlone
  BY <1>2 DEF SourcesAreRead, FormsAlone, PageFits, SourceOf
<1>. QED  BY <1>3, <1>4 DEF PagesFit

\* The first part of a key drops it.
Parts(k) == {k[1], k[2], k[3]}
IsKey(k) == k = <<k[1]>> \/ k = <<k[1], k[2]>> \/ k = <<k[1], k[2], k[3]>>
LEMMA Starts ==
  ASSUME NEW k, IsKey(k)
  PROVE  IsPrefix(<<k[1]>>, k)
<1>. DEFINE S == Parts(k)
            s == <<k[1]>>
            a == SubSeq(s, 1, 1)
            b == SubSeq(k, 1, 1)
<1>0. k \in Seq(S) /\ Len(k) >= 1 /\ k[1] \in S
  <2>0. k[1] \in S /\ k[2] \in S /\ k[3] \in S
    BY DEF Parts
  <2>. HIDE DEF S
  <2>1. PICK x, y, z : x = k[1] /\ y = k[2] /\ z = k[3]
    OBVIOUS
  <2>2. <<x>> \in Seq(S) /\ <<x, y>> \in Seq(S) /\ <<x, y, z>> \in Seq(S)
    BY <2>0, <2>1
  <2>3. Len(<<x>>) = 1 /\ Len(<<x, y>>) = 2 /\ Len(<<x, y, z>>) = 3
    OBVIOUS
  <2>4. k = <<x>> \/ k = <<x, y>> \/ k = <<x, y, z>>
    BY <2>1, Zenon DEF IsKey
  <2>5. k \in Seq(S)
    BY <2>2, <2>4, Zenon
  <2>6. Len(k) >= 1
    BY <2>3, <2>4
  <2>. QED  BY <2>0, <2>5, <2>6
<1>. HIDE DEF S
<1>1. s \in Seq(S) /\ Len(s) = 1 /\ s[1] = k[1]
  BY <1>0
<1>2. a \in Seq(S) /\ Len(a) = 1 /\ a[1] = k[1]
  <2>. HIDE DEF s
  <2>. QED  BY <1>0, <1>1, SubSeqProperties
<1>3. b \in Seq(S) /\ Len(b) = 1 /\ b[1] = k[1]
  BY <1>0, SubSeqProperties
<1>4. a = b
  <2>. HIDE DEF a, b
  <2>. QED  BY <1>2, <1>3, SeqEqual
<1>. QED  BY <1>0, <1>1, <1>4 DEF IsPrefix

(* ------------------------------- the content panel ----------------------------------- *)
NewsKeys == {<<"news", "list", "page">>, <<"news", "list", "count">>, <<"news", "list", "picker">>}
LandingKeys ==
  NewsKeys \cup
  {<<"categories">>, <<"categories", "list">>, <<"units">>, <<"units", "list">>,
   <<"footer-links">>, <<"quick-links">>, <<"org-pages">>,
   <<"people", "list", "group">>, <<"people", "list", "all">>,
   <<"slides">>, <<"slides", "list">>, <<"forms">>, <<"forms", "list">>,
   <<"submissions", "list", "page">>, <<"submissions", "list", "latest">>,
   <<"submissions", "list", "pending">>,
   <<"contact-messages", "list", "page">>, <<"contact-messages", "list", "latest">>,
   <<"contact-messages", "list", "unread">>, <<"settings", "get">>, <<"tab-groups">>}

LandingWrite(w) ==
  /\ <<w.table>> \in w.drops
  /\ w.table = "categories" => <<"news">> \in w.drops
  /\ w.table = "news" => <<"slides">> \in w.drops
  /\ w.table = "footer-links" => <<"settings">> \in w.drops
  /\ w.table = "submissions" => w.kind = "flag" \/ <<"forms">> \in w.drops
LandingPage(pg) ==
  /\ pg.reads \subseteq LandingKeys
  /\ pg.source = NULL \/ pg.source \in pg.reads
  /\ pg.seeds \in {"once", "fresh"} => \A w \in pg.writes : w.kind \notin {"row", "flag", "found"}
  /\ \A w \in pg.writes : LandingWrite(w)

LEMMA LandingPagesFine ==
  \A p \in DOMAIN LandingPages : LandingPage(LandingPages[p])
<1>1. LandingPage(NewsPage)
  BY DEF NewsPage, LandingPage, LandingWrite, LandingKeys, NewsKeys, Page, Write,
         UseApiMutation
<1>2. LandingPage(CategoriesPage)
  BY DEF CategoriesPage, LandingPage, LandingWrite, LandingKeys, NewsKeys, Page, Write,
         UseApiMutation, UseCrud
<1>3. LandingPage(FooterLinksPage)
  BY DEF FooterLinksPage, LandingPage, LandingWrite, LandingKeys, NewsKeys, Page, Write,
         UseApiMutation, UseCrud
<1>4. LandingPage(QuickLinksPage)
  BY DEF QuickLinksPage, LandingPage, LandingWrite, LandingKeys, NewsKeys, Page, Write,
         UseApiMutation, UseCrud
<1>5. LandingPage(UnitsPage)
  BY DEF UnitsPage, LandingPage, LandingWrite, LandingKeys, NewsKeys, Page, Write,
         UseApiMutation, UseCrud
<1>6. LandingPage(OrgPagesPage)
  BY DEF OrgPagesPage, LandingPage, LandingWrite, LandingKeys, NewsKeys, Page, Write,
         UseApiMutation, UseCrud
<1>7. LandingPage(PeoplePage)
  BY DEF PeoplePage, LandingPage, LandingWrite, LandingKeys, NewsKeys, Page, Write,
         UseApiMutation, UseCrud
<1>8. LandingPage(SlidesPage)
  BY DEF SlidesPage, LandingPage, LandingWrite, LandingKeys, NewsKeys, Page, Write,
         UseApiMutation, UseCrud
<1>9. LandingPage(FormsPage)
  BY DEF FormsPage, LandingPage, LandingWrite, LandingKeys, NewsKeys, Page, Write,
         UseApiMutation, UseCrud
<1>10. LandingPage(SubmissionsPage)
  BY DEF SubmissionsPage, LandingPage, LandingWrite, LandingKeys, NewsKeys, Page, Write,
         UseApiMutation
<1>11. LandingPage(MessagesPage)
  BY DEF MessagesPage, LandingPage, LandingWrite, LandingKeys, NewsKeys, Page, Write,
         UseApiMutation
<1>12. LandingPage(SettingsPage)
  BY DEF SettingsPage, LandingPage, LandingWrite, LandingKeys, NewsKeys, Page, Write,
         UseApiMutation
<1>13. LandingPage(TabGroupsPage)
  BY DEF TabGroupsPage, LandingPage, LandingWrite, LandingKeys, NewsKeys, Page, Write,
         UseApiMutation, UseCrud
<1>14. LandingPage(DashboardPage)
  BY DEF DashboardPage, LandingPage, LandingWrite, LandingKeys, NewsKeys, Page, Write,
         UseApiMutation
<1>. QED
  BY <1>1, <1>2, <1>3, <1>4, <1>5, <1>6, <1>7, <1>8, <1>9, <1>10, <1>11, <1>12, <1>13, <1>14
     DEF LandingPages

LEMMA LandingKeyParts ==
  \A k \in LandingKeys :
    /\ IsKey(k)
    /\ k[1] = "news" => k \in NewsKeys
    /\ k[1] = "categories" => k \in {<<"categories">>, <<"categories", "list">>}
    /\ k[1] = "submissions" =>
         k \in {<<"submissions", "list", "page">>, <<"submissions", "list", "latest">>,
                <<"submissions", "list", "pending">>}
<1>. SUFFICES ASSUME NEW k \in LandingKeys
              PROVE  /\ IsKey(k)
                     /\ k[1] = "news" => k \in NewsKeys
                     /\ k[1] = "categories" => k \in {<<"categories">>, <<"categories", "list">>}
                     /\ k[1] = "submissions" =>
                          k \in {<<"submissions", "list", "page">>,
                                 <<"submissions", "list", "latest">>,
                                 <<"submissions", "list", "pending">>}
  OBVIOUS
<1>1. CASE k \in NewsKeys
  BY <1>1 DEF NewsKeys, IsKey
<1>2. CASE k \in {<<"categories">>, <<"categories", "list">>, <<"units">>, <<"units", "list">>,
                  <<"footer-links">>, <<"quick-links">>, <<"org-pages">>}
  BY <1>2 DEF IsKey
<1>3. CASE k \in {<<"people", "list", "group">>, <<"people", "list", "all">>,
                  <<"slides">>, <<"slides", "list">>, <<"forms">>, <<"forms", "list">>}
  BY <1>3 DEF IsKey
<1>4. CASE k \in {<<"submissions", "list", "page">>, <<"submissions", "list", "latest">>,
                  <<"submissions", "list", "pending">>}
  BY <1>4 DEF IsKey
<1>5. CASE k \in {<<"contact-messages", "list", "page">>, <<"contact-messages", "list", "latest">>,
                  <<"contact-messages", "list", "unread">>, <<"settings", "get">>, <<"tab-groups">>}
  BY <1>5 DEF IsKey
<1>. QED  BY <1>1, <1>2, <1>3, <1>4, <1>5 DEF LandingKeys

LEMMA LandingKeysAre == KeysOf("landing") \subseteq LandingKeys
<1>1. \A p \in DOMAIN LandingPages :
        LandingPages[p].reads \cup ({LandingPages[p].source} \ {NULL}) \subseteq LandingKeys
  BY LandingPagesFine DEF LandingPage
<1>2. PagesOf["landing"] = LandingPages
  BY DEF PagesOf
<1>. QED  BY <1>1, <1>2 DEF KeysOf

LEMMA LandingShows ==
  ASSUME NEW k \in KeysOf("landing"), NEW table, NEW c \in Shows("landing", k, table),
         table # k[1]
  PROVE  <<table, c>> \in LandingAnswers(k[1])
<1>1. AnswersOf["landing"][k] = {<<k[1], d>> : d \in Columns} \cup LandingAnswers(k[1])
  BY DEF AnswersOf, App
<1>2. <<table, c>> \in AnswersOf["landing"][k]
  BY DEF Shows
<1>. QED  BY <1>1, <1>2

LEMMA LandingFits == \A p \in DOMAIN PagesOf["landing"] : PageFits("landing", p)
<1>. SUFFICES ASSUME NEW p \in DOMAIN LandingPages PROVE PageFits("landing", p)
  BY DEF PagesOf
<1>. DEFINE pg == LandingPages[p]
<1>1. LandingPage(pg) /\ PagesOf["landing"][p] = pg
  BY LandingPagesFine DEF PagesOf
<1>2. ASSUME NEW w \in pg.writes, NEW k \in KeysOf("landing"),
             <<w.table, k>> \notin MCForgotten,
             NEW c \in Changes(w), c \in Shows("landing", k, w.table)
      PROVE  Drops(w, k)
  <2>1. LandingWrite(w)
    BY <1>1, <1>2 DEF LandingPage
  <2>2. k \in LandingKeys /\ IsKey(k)
    BY LandingKeysAre, LandingKeyParts
  <2>3. <<k[1]>> \in w.drops => Drops(w, k)
    BY <2>2, Starts DEF Drops
  <2>4. CASE w.table = k[1]
    BY <2>1, <2>3, <2>4 DEF LandingWrite
  <2>5. CASE w.table # k[1]
    <3>1. <<w.table, c>> \in LandingAnswers(k[1])
      BY <1>2, <2>5, LandingShows
    <3>2. CASE k[1] = "news"
      <4>1. w.table = "categories" \/ w.table = "units"
        BY <3>1, <3>2 DEF LandingAnswers
      <4>2. w.table # "units"
        BY <1>2, <2>2, <3>2, LandingKeyParts DEF NewsKeys, MCForgotten
      <4>. QED  BY <2>1, <2>3, <3>2, <4>1, <4>2 DEF LandingWrite
    <3>3. CASE k[1] = "categories"
      <4>1. w.table = "news"
        BY <3>1, <3>3 DEF LandingAnswers
      <4>. QED  BY <1>2, <2>2, <3>3, <4>1, LandingKeyParts DEF MCForgotten
    <3>4. CASE k[1] = "slides"
      BY <2>1, <2>3, <3>1, <3>4 DEF LandingAnswers, LandingWrite
    <3>5. CASE k[1] = "forms"
      <4>1. w.table = "submissions" /\ c = "rows"
        BY <3>1, <3>5 DEF LandingAnswers
      <4>2. w.kind # "flag"
        BY <1>2, <4>1 DEF Changes
      <4>. QED  BY <2>1, <2>3, <3>5, <4>1, <4>2 DEF LandingWrite
    <3>6. CASE k[1] = "submissions"
      <4>1. w.table = "forms"
        BY <3>1, <3>6 DEF LandingAnswers
      <4>. QED  BY <1>2, <2>2, <3>6, <4>1, LandingKeyParts DEF MCForgotten
    <3>7. CASE k[1] = "settings"
      <4>1. w.table = "footer-links"
        BY <3>1, <3>7 DEF LandingAnswers
      <4>. QED  BY <2>1, <2>3, <3>7, <4>1 DEF LandingWrite
    <3>8. CASE k[1] \notin {"news", "categories", "slides", "forms", "submissions", "settings"}
      BY <3>1, <3>8 DEF LandingAnswers
    <3>. QED  BY <3>2, <3>3, <3>4, <3>5, <3>6, <3>7, <3>8
  <2>. QED  BY <2>4, <2>5
<1>. HIDE DEF pg
<1>. QED  BY <1>1, <1>2 DEF PageFits, LandingPage

(* --------------------- the admin panel and the MunSanandaj panel --------------------- *)
\* A page whose writes drop their own table.
OwnPage(pg, keys) ==
  /\ pg.reads \subseteq keys
  /\ pg.source = NULL \/ pg.source \in pg.reads
  /\ pg.seeds \in {"once", "fresh"} => \A w \in pg.writes : w.kind \notin {"row", "flag", "found"}
  /\ \A w \in pg.writes : <<w.table>> \in w.drops

AdminKeys == {<<"users", "list", "page">>, <<"roles", "list">>, <<"services", "list">>}
LEMMA AdminPagesFine == \A p \in DOMAIN AdminPages : OwnPage(AdminPages[p], AdminKeys)
<1>1. OwnPage(AdminUsersPage, AdminKeys)
  BY DEF AdminUsersPage, OwnPage, AdminKeys, Page, Write
<1>2. OwnPage(RolesServicesPage, AdminKeys)
  BY DEF RolesServicesPage, OwnPage, AdminKeys, Reader, Page
<1>. QED  BY <1>1, <1>2 DEF AdminPages

MunKeys == {<<"mun-runs">>, <<"mun-run">>, <<"mun-logs">>}
LEMMA MunPagesFine == \A p \in DOMAIN MunPages : OwnPage(MunPages[p], MunKeys)
<1>1. OwnPage(MunDashboard, MunKeys)
  BY DEF MunDashboard, UseTriggerRun, OwnPage, MunKeys, Page, Write
<1>2. OwnPage(LogsPage, MunKeys)
  BY DEF LogsPage, OwnPage, MunKeys, Reader, Page
<1>. QED  BY <1>1, <1>2 DEF MunPages

\* Every entry shows the table its key starts with, and no other.
LEMMA OwnPagesFit ==
  ASSUME NEW app \in {"admin", "mun"}, NEW keys,
         \A k \in keys : IsKey(k),
         \A p \in DOMAIN PagesOf[app] : OwnPage(PagesOf[app][p], keys)
  PROVE  \A p \in DOMAIN PagesOf[app] : PageFits(app, p)
<1>. SUFFICES ASSUME NEW p \in DOMAIN PagesOf[app] PROVE PageFits(app, p)
  OBVIOUS
<1>. DEFINE pg == PagesOf[app][p]
<1>1. OwnPage(pg, keys)
  OBVIOUS
<1>2. KeysOf(app) \subseteq keys
  BY DEF KeysOf, OwnPage
<1>3. ASSUME NEW w \in pg.writes, NEW k \in KeysOf(app),
             NEW c \in Shows(app, k, w.table)
      PROVE  Drops(w, k)
  <2>1. AnswersOf[app][k] = {<<k[1], d>> : d \in Columns}
    BY DEF AnswersOf, App
  <2>2. w.table = k[1]
    BY <1>3, <2>1 DEF Shows
  <2>3. <<k[1]>> \in w.drops
    BY <1>1, <1>3, <2>2 DEF OwnPage
  <2>. QED  BY <1>2, <2>3, Starts DEF Drops
<1>. HIDE DEF pg
<1>4. \A w \in pg.writes : \A k \in KeysOf(app) :
        (/\ <<w.table, k>> \notin MCForgotten
         /\ Changes(w) \cap Shows(app, k, w.table) # {}) => Drops(w, k)
  BY <1>3
<1>. QED  BY <1>1, <1>4 DEF PageFits, OwnPage, pg

LEMMA AdminFits == \A p \in DOMAIN PagesOf["admin"] : PageFits("admin", p)
<1>1. \A k \in AdminKeys : IsKey(k)
  BY DEF AdminKeys, IsKey
<1>2. PagesOf["admin"] = AdminPages
  BY DEF PagesOf
<1>. QED  BY <1>1, <1>2, AdminPagesFine, OwnPagesFit

LEMMA MunFits == \A p \in DOMAIN PagesOf["mun"] : PageFits("mun", p)
<1>1. \A k \in MunKeys : IsKey(k)
  BY DEF MunKeys, IsKey
<1>2. PagesOf["mun"] = MunPages
  BY DEF PagesOf
<1>. QED  BY <1>1, <1>2, MunPagesFine, OwnPagesFit

(* ------------------------------ the analytics front end ------------------------------ *)
AnalyticsKeys ==
  {UseReports, UseReport, UseDashboards, UseDashboard, UseUsers, UseTenants, UseTenant,
   UseTenantUsage, UseSystemSettings, UseTenantAIConfig}
AnalyticsPage(pg) == OwnPage(pg, AnalyticsKeys)
LEMMA AnalyticsPagesFine == \A p \in DOMAIN AnalyticsPages : AnalyticsPage(AnalyticsPages[p])
<1>1. AnalyticsPage(ReportLibrary)
  BY DEF ReportLibrary, Page, Write, UseReports, UseDeleteReport, AnalyticsPage, OwnPage,
         AnalyticsKeys
<1>2. AnalyticsPage(AskAiBuilder)
  BY DEF AskAiBuilder, Page, Write, UseReports, UseSaveReport, AnalyticsPage, OwnPage,
         AnalyticsKeys
<1>3. AnalyticsPage(ReportViewerPage)
  BY DEF ReportViewerPage, Reader, Page, UseReport, AnalyticsPage, OwnPage, AnalyticsKeys
<1>4. AnalyticsPage(DashboardList)
  BY DEF DashboardList, Page, Write, UseDashboards, UseCreateDashboard, UseDeleteDashboard,
         AnalyticsPage, OwnPage, AnalyticsKeys
<1>5. AnalyticsPage(NewDashboard)
  BY DEF NewDashboard, Page, Write, UseDashboards, UseCreateDashboard, AnalyticsPage,
         OwnPage, AnalyticsKeys
<1>6. AnalyticsPage(DashboardBuilder)
  BY DEF DashboardBuilder, Page, Write, UseDashboard, UseDashboards, UseReport, UseReports,
         UseSaveDashboard, AnalyticsPage, OwnPage, AnalyticsKeys
<1>7. AnalyticsPage(UserList)
  BY DEF UserList, Page, Write, UseUsers, UseUpsertUser, UseSetUserActive, AnalyticsPage,
         OwnPage, AnalyticsKeys
<1>8. AnalyticsPage(TenantList)
  BY DEF TenantList, Page, Write, UseTenants, UseTenant, UseUpsertTenant,
         UseSetTenantStatus, AnalyticsPage, OwnPage, AnalyticsKeys
<1>9. AnalyticsPage(TenantSettings)
  BY DEF TenantSettings, Page, Write, UseTenant, UseTenants, UseTenantUsage,
         UseUpdateTenant, AnalyticsPage, OwnPage, AnalyticsKeys
<1>10. AnalyticsPage(SystemSettingsPage)
  BY DEF SystemSettingsPage, Page, Write, UseSystemSettings, UseUpdateSystemSettings,
         AnalyticsPage, OwnPage, AnalyticsKeys
<1>11. AnalyticsPage(AIProviderList)
  BY DEF AIProviderList, Page, Write, UseTenantAIConfig, UseUpdateTenantAIConfig,
         AnalyticsPage, OwnPage, AnalyticsKeys
<1>12. AnalyticsPage(AIRoutingRules)
  BY DEF AIRoutingRules, Page, Write, UseTenantAIConfig, UseUpdateTenantAIConfig,
         AnalyticsPage, OwnPage, AnalyticsKeys
<1>. QED
  BY <1>1, <1>2, <1>3, <1>4, <1>5, <1>6, <1>7, <1>8, <1>9, <1>10, <1>11, <1>12 DEF
     AnalyticsPages

LEMMA AnalyticsFits == \A p \in DOMAIN PagesOf["analytics"] : PageFits("analytics", p)
<1>1. PagesOf["analytics"] = AnalyticsPages
  BY DEF PagesOf
<1>. SUFFICES ASSUME NEW p \in DOMAIN AnalyticsPages PROVE PageFits("analytics", p)
  BY <1>1
<1>. DEFINE pg == AnalyticsPages[p]
<1>2. OwnPage(pg, AnalyticsKeys) /\ PagesOf["analytics"][p] = pg
  BY <1>1, AnalyticsPagesFine DEF AnalyticsPage
<1>3. KeysOf("analytics") \subseteq AnalyticsKeys
  BY <1>1, AnalyticsPagesFine DEF KeysOf, AnalyticsPage, OwnPage
<1>4. \A k \in AnalyticsKeys :
        /\ IsKey(k)
        /\ k[1] = "report" => k = UseReport
        /\ k[1] = "dashboard" => k = UseDashboard
        /\ k[1] = "tenant" => k = UseTenant
  BY DEF AnalyticsKeys, IsKey, UseReports, UseReport, UseDashboards, UseDashboard, UseUsers,
         UseTenants, UseTenant, UseTenantUsage, UseSystemSettings, UseTenantAIConfig
<1>5. ASSUME NEW w \in pg.writes, NEW k \in KeysOf("analytics"),
             <<w.table, k>> \notin MCForgotten,
             NEW c \in Shows("analytics", k, w.table)
      PROVE  Drops(w, k)
  <2>1. AnswersOf["analytics"][k] = {<<k[1], d>> : d \in Columns} \cup AnalyticsAnswers(k[1])
    BY DEF AnswersOf, App
  <2>2. <<w.table, c>> \in AnswersOf["analytics"][k]
    BY DEF Shows
  <2>3. <<w.table, c>> \notin AnalyticsAnswers(k[1])
    BY <1>3, <1>4, <1>5 DEF AnalyticsAnswers, MCForgotten, UseReport, UseDashboard,
                            UseTenant
  <2>4. w.table = k[1]
    BY <2>1, <2>2, <2>3
  <2>5. <<k[1]>> \in w.drops
    BY <1>2, <1>5, <2>4 DEF OwnPage
  <2>. QED  BY <1>3, <1>4, <2>5, Starts DEF Drops
<1>. HIDE DEF pg
<1>6. \A w \in pg.writes : \A k \in KeysOf("analytics") :
        (/\ <<w.table, k>> \notin MCForgotten
         /\ Changes(w) \cap Shows("analytics", k, w.table) # {}) => Drops(w, k)
  BY <1>5
<1>. QED  BY <1>2, <1>6 DEF PageFits, OwnPage

(* --------------------------------- the web workspace --------------------------------- *)
SubscriptionKey == <<"subscription">>
WebKeys == {ProjectsKey, ProjectKey, AssessmentKey, SubscriptionKey}
WebWrite(w) ==
  /\ w.table \in {"projects", "assessments"}
  /\ w.table = "projects" => ProjectsKey \in w.drops
  /\ w.table = "assessments" => AssessmentKey \in w.drops
WebPage(pg) ==
  /\ pg.reads \subseteq WebKeys
  /\ pg.source = NULL \/ pg.source \in pg.reads
  /\ pg.seeds \in {"once", "fresh"} => \A w \in pg.writes : w.kind \notin {"row", "flag", "found"}
  /\ \A w \in pg.writes : WebWrite(w)
LEMMA WebPagesFine == \A p \in DOMAIN WebPages : WebPage(WebPages[p])
<1>1. WebPage(WebDashboardPage)
  BY DEF WebDashboardPage, Reader, Page, WebPage, WebKeys, SubscriptionKey
<1>2. WebPage(WebProjectsPage)
  BY DEF WebProjectsPage, UseCreateProject, UseDeleteProject, Write, Page, WebPage, WebKeys,
         WebWrite
<1>3. WebPage(WebProjectPage)
  BY DEF WebProjectPage, UseUpdateProject, UseDeleteProject, Write, Page, WebPage, WebKeys,
         WebWrite
<1>4. WebPage(AssessmentPage)
  BY DEF AssessmentPage, UseSaveAssessment, Write, Page, WebPage, WebKeys, WebWrite
<1>5. WebPage(WebImportPage)
  BY DEF WebImportPage, UseImportProject, Write, Page, WebPage, WebKeys, WebWrite
<1>. QED  BY <1>1, <1>2, <1>3, <1>4, <1>5 DEF WebPages

\* What an entry shows of projects starts with their key.
LEMMA WebShows ==
  ASSUME NEW k \in WebKeys, NEW table, NEW c, <<table, c>> \in WebAnswers(k),
         <<table, k>> \notin MCForgotten
  PROVE  \/ table = "projects" /\ k # AssessmentKey /\ k # SubscriptionKey
         \/ table = "assessments" /\ k = AssessmentKey
<1>1. /\ ProjectsKey # AssessmentKey /\ ProjectKey # AssessmentKey /\ ProjectsKey # ProjectKey
      /\ SubscriptionKey \notin {ProjectsKey, ProjectKey, AssessmentKey}
  BY DEF ProjectsKey, ProjectKey, AssessmentKey, SubscriptionKey
<1>2. CASE k = AssessmentKey
  <2>1. WebAnswers(k) = {<<"assessments", d>> : d \in Columns}
    BY <1>1, <1>2 DEF WebAnswers
  <2>2. table = "assessments"
    BY <2>1
  <2>. QED  BY <1>2, <2>2
<1>3. CASE k = ProjectKey
  <2>1. WebAnswers(k) = {<<"projects", d>> : d \in Columns}
    BY <1>1, <1>3 DEF WebAnswers
  <2>2. table = "projects"
    BY <2>1
  <2>. QED  BY <1>1, <1>3, <2>2
<1>4. CASE k = ProjectsKey
  <2>1. table \in {"projects", "assessments"}
    BY <1>1, <1>4 DEF WebAnswers
  <2>2. <<"assessments", k>> \in MCForgotten
    BY <1>4 DEF MCForgotten, ProjectsKey
  <2>3. table # "assessments"
    BY <2>2
  <2>. QED  BY <1>1, <1>4, <2>1, <2>3
<1>5. CASE k = SubscriptionKey
  BY <1>1, <1>5 DEF WebAnswers
<1>. QED  BY <1>2, <1>3, <1>4, <1>5 DEF WebKeys

LEMMA WebFits == \A p \in DOMAIN PagesOf["web"] : PageFits("web", p)
<1>1. PagesOf["web"] = WebPages
  BY DEF PagesOf
<1>. SUFFICES ASSUME NEW p \in DOMAIN WebPages PROVE PageFits("web", p)
  BY <1>1
<1>. DEFINE pg == WebPages[p]
<1>2. WebPage(pg) /\ PagesOf["web"][p] = pg
  BY <1>1, WebPagesFine
<1>3. KeysOf("web") \subseteq WebKeys
  BY <1>1, WebPagesFine DEF KeysOf, WebPage
<1>4. /\ IsPrefix(ProjectsKey, ProjectsKey) /\ IsPrefix(ProjectsKey, ProjectKey)
      /\ IsPrefix(AssessmentKey, AssessmentKey)
  <2>1. IsKey(ProjectsKey) /\ IsKey(ProjectKey)
    BY DEF IsKey, ProjectsKey, ProjectKey
  <2>2. ProjectsKey = <<ProjectsKey[1]>> /\ ProjectsKey = <<ProjectKey[1]>>
    BY DEF ProjectsKey, ProjectKey
  <2>3. IsPrefix(ProjectsKey, ProjectsKey) /\ IsPrefix(ProjectsKey, ProjectKey)
    BY <2>1, <2>2, Starts
  <2>4. IsPrefix(AssessmentKey, AssessmentKey)
    BY DEF AssessmentKey, IsPrefix
  <2>. QED  BY <2>3, <2>4
<1>5. ASSUME NEW w \in pg.writes, NEW k \in KeysOf("web"),
             <<w.table, k>> \notin MCForgotten,
             NEW c \in Shows("web", k, w.table)
      PROVE  Drops(w, k)
  <2>1. AnswersOf["web"][k] = WebAnswers(k)
    BY DEF AnswersOf, App
  <2>2. <<w.table, c>> \in WebAnswers(k) /\ k \in WebKeys
    BY <1>3, <2>1 DEF Shows
  <2>3. WebWrite(w)
    BY <1>2, <1>5 DEF WebPage
  <2>4. CASE w.table = "projects" /\ k # AssessmentKey /\ k # SubscriptionKey
    BY <1>4, <2>2, <2>3, <2>4 DEF WebWrite, Drops, WebKeys
  <2>5. CASE w.table = "assessments" /\ k = AssessmentKey
    BY <1>4, <2>3, <2>5 DEF WebWrite, Drops
  <2>. QED  BY <1>5, <2>2, <2>4, <2>5, WebShows
<1>. HIDE DEF pg
<1>6. \A w \in pg.writes : \A k \in KeysOf("web") :
        (/\ <<w.table, k>> \notin MCForgotten
         /\ Changes(w) \cap Shows("web", k, w.table) # {}) => Drops(w, k)
  BY <1>5
<1>. QED  BY <1>2, <1>6 DEF PageFits, WebPage

(* ------------------------------------ all of them ------------------------------------ *)
\* The pages of the code are as the proof wants them.
LEMMA PagesOfTheCodeFit ==
  ASSUME Tours \subseteq AllTours, Forgotten = MCForgotten
  PROVE  PagesFit
<1>1. \A app \in App : \A p \in DOMAIN PagesOf[app] : PageFits(app, p)
  BY LandingFits, AdminFits, AnalyticsFits, WebFits, MunFits DEF App
<1>. QED  BY <1>1, FittingPages

-----------------------------------------------------------------------------
(* The theorems. *)
(* A page that waits for nothing shows this person's own changes, whatever the order of
   commits, answers and reads and however many writes: every write drops what shows what
   it changes (useCrud and the invalidate lists), but for the pairs of MCForgotten. *)
THEOREM OwnChangesAreShownHolds ==
  ASSUME Tours \subseteq AllTours, Forgotten = MCForgotten
  PROVE  Spec => []OwnChangesAreShown
<1>1. Init => IInv
  BY InitFine
<1>2. IInv /\ [Next]_vars => IInv'
  BY NextFine, PagesOfTheCodeFit
<1>3. IInv => OwnChangesAreShown
  <2>. SUFFICES ASSUME IInv, NEW k \in DOMAIN cache, Shown(at, k), Settled(cache[k]),
                       writes = << >>, ~ torn, <<tour.table, k>> \notin Forgotten
                PROVE  cache[k].data = Rows(k)
    BY DEF OwnChangesAreShown
  <2>1. Known(k)
    BY DEF Known, Pending, Remembered
  <2>. QED  BY <2>1 DEF IInv, TypeInv, CacheInv, Good, Settled
<1>. QED  BY <1>1, <1>2, <1>3, PTL DEF Spec

(* A row that is sent whole from a page that was up to date puts no older value of a field
   back: of the drawers, the forms and the switches of the five front ends. *)
THEOREM OwnChangesStayHolds ==
  ASSUME Tours \subseteq AllTours, Forgotten = MCForgotten
  PROVE  Spec => OwnChangesStay
<1>. DEFINE Stay == (/\ server' # server /\ ~ torn /\ Len(writes) = 1
                     /\ writes[1].current /\ <<tour.table, writes[1].source>> \notin Forgotten)
                      => \A c \in Columns : server'[c] >= server[c]
<1>1. Init => IInv
  BY InitFine
<1>2. IInv /\ [Next]_vars => IInv'
  BY NextFine, PagesOfTheCodeFit
<1>3. ASSUME IInv, Next PROVE Stay
  <2>. SUFFICES ASSUME server' # server, ~ torn, Len(writes) = 1, writes[1].current,
                       <<tour.table, writes[1].source>> \notin Forgotten,
                       NEW c \in Columns
                PROVE  server'[c] >= server[c]
    OBVIOUS
  <2>1. \E i \in DOMAIN writes : Commit(i) \/ RefuseTheRest(i)
    BY <1>3 DEF Next, Arrive, OpenForm, CloseForm, Send, Find, Refuse, LoseAnswer, Return,
                ReadTable, Answer
  <2>2. 1 \in DOMAIN writes /\ (Commit(1) \/ RefuseTheRest(1))
    <3>1. DOMAIN writes = 1..1
      BY Queue, <1>3 DEF IInv
    <3>. QED  BY <2>1, <3>1
  <2>3. PICK S : /\ S \subseteq DOMAIN writes[1].row
                 /\ server' = Stored(S, writes[1].row) /\ ~ writes[1].done
    <3>1. CASE Commit(1)
      BY <3>1 DEF Commit
    <3>2. CASE RefuseTheRest(1)
      <4>1. writes[1].op.kind = "form" /\ server' = Stored({"left"}, writes[1].row) /\ ~ writes[1].done
        BY <3>2 DEF RefuseTheRest
      <4>2. {"left"} \subseteq DOMAIN writes[1].row
        BY <1>3, <2>2, <4>1 DEF IInv, WriteInv, Fields
      <4>. QED  BY <4>1, <4>2
    <3>. QED  BY <2>2, <3>1, <3>2
  <2>4. Newer(writes[1])
    BY <1>3, <2>2, <2>3 DEF IInv, WriteInv, Remembered
  <2>5. server'[c] = IF c \in S THEN writes[1].row[c] ELSE server[c]
    BY <1>3, <2>2, <2>3, StoredFine DEF IInv
  <2>6. server[c] \in Nat
    BY <1>3 DEF IInv, TypeInv, Numbers
  <2>. QED  BY <2>3, <2>4, <2>5, <2>6, <1>3 DEF Newer
<1>4. IInv /\ [Next]_vars => [Stay]_vars
  BY <1>3
<1>. QED  BY <1>1, <1>2, <1>4, PTL DEF Spec, OwnChangesStay
======================================================================================
