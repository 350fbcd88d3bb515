------------------------------- MODULE ReportScreens --------------------------------
(* Two screens of the analytics front end that wait for reports: asking for one in words *)
(* (useAskAi) and looking at a saved one under filters (ReportViewer).  Both start calls  *)
(* and put what comes back on the screen, in whatever order it comes.  The definition,    *)
(* its result and its views are always set together: one name stands for the three.       *)
EXTENDS Naturals, Sequences

CONSTANTS Nothing,        \* nothing shown
          MaxAsks,     \* bound: questions of a visit
          MaxChanges,  \* bound: changes of a filter, and refreshes, of a visit
          MaxDrills    \* bound: drill-downs of a visit
ASSUME ReportScreensAssumption == MaxAsks \in Nat /\ MaxChanges \in Nat /\ MaxDrills \in Nat

VARIABLES
  ask,      \* the screen: phase, the report shown, the way back, drill-downs so far
  reqSeq,   \* number of the last question
  calls,    \* its calls on their way
  viewer,   \* the other screen: the definition wanted (live), the one computed, error,
            \* path, drill-downs so far
  runs      \* its calls on their way
askVars == <<ask, reqSeq, calls>>
viewerVars == <<viewer, runs>>

Root(n) == [of |-> n, drilled |-> FALSE]
Child(report) == [report EXCEPT !.drilled = TRUE]

\* A call is for a report; two clicks on a group are two calls.
Call(kind, of, click) == [kind |-> kind, of |-> of, click |-> click]
Run(kind, of, click) == [kind |-> kind, of |-> of, click |-> click, cancelled |-> FALSE]

AskInit ==
  /\ ask = [phase |-> "hero", shown |-> Nothing, path |-> << >>, clicks |-> 0]
  /\ reqSeq = 0 /\ calls = {}
ViewerInit ==
  /\ viewer = [live |-> 1, computed |-> Nothing, error |-> FALSE, path |-> << >>,
               clicks |-> 0]
  /\ runs = {Run("run", Root(1), 0)}

(* ------------------------------------ asking ------------------------------------------ *)
\* "generate" and "execute" follow each other; a drill-down is one call.
Submit ==
  /\ reqSeq < MaxAsks
  /\ reqSeq' = reqSeq + 1
  /\ ask' = [ask EXCEPT !.phase = "thinking"]
  /\ calls' = calls \cup {Call("generate", Root(reqSeq + 1), 0)}

\* A definition that comes back after another question was asked is dropped.
Generated(c) ==
  /\ c.kind = "generate"
  /\ calls' = (calls \ {c})
                \cup (IF c.of.of = reqSeq THEN {Call("execute", c.of, 0)} ELSE {})
  /\ UNCHANGED <<ask, reqSeq>>

\* Nothing is asked again after the execution: its result is shown, whatever came since.
Executed(c) ==
  /\ c.kind = "execute"
  /\ ask' = [ask EXCEPT !.phase = "result", !.shown = c.of, !.path = << >>]
  /\ calls' = calls \ {c}
  /\ UNCHANGED reqSeq

\* Mutant: whatever fails is told.
FailedAtAll(c) ==
  /\ c.kind \in {"generate", "execute"}
  /\ ask' = [ask EXCEPT !.phase = "error"]
  /\ calls' = calls \ {c}
  /\ UNCHANGED reqSeq
Failed(c) ==
  /\ c.kind \in {"generate", "execute"}
  /\ ask' = IF c.of.of = reqSeq THEN [ask EXCEPT !.phase = "error"] ELSE ask
  /\ calls' = calls \ {c}
  /\ UNCHANGED reqSeq

\* A click on a group, while the canvas is there.  A drilled report cannot be drilled again.
Drill ==
  /\ ask.phase = "result" /\ ~ ask.shown.drilled /\ ask.clicks < MaxDrills
  /\ ask' = [ask EXCEPT !.clicks = @ + 1]
  /\ calls' = calls \cup {Call("drill", ask.shown, ask.clicks + 1)}
  /\ UNCHANGED reqSeq
Drilled(c) ==
  /\ c.kind = "drill"
  /\ ask' = [ask EXCEPT !.shown = Child(c.of), !.path = Append(@, c.of)]
  /\ calls' = calls \ {c}
  /\ UNCHANGED reqSeq
DrillFailed(c) ==
  /\ c.kind = "drill"
  /\ calls' = calls \ {c}
  /\ UNCHANGED <<ask, reqSeq>>
DrillUp ==
  /\ ask.phase = "result" /\ ask.path # << >>
  /\ LET n == Len(ask.path)
     IN ask' = [ask EXCEPT !.shown = ask.path[n], !.path = SubSeq(ask.path, 1, n - 1)]
  /\ UNCHANGED <<reqSeq, calls>>

(* ------------------------------------ viewing ----------------------------------------- *)
\* While a result is on the screen, the filter bar and the buttons are.
Visible == viewer.computed # Nothing /\ ~ viewer.error
\* A filter, or a refresh: the call before is cancelled, the next one starts.
ChangeFilter ==
  /\ Visible /\ viewer.live <= MaxChanges
  /\ viewer' = [viewer EXCEPT !.live = @ + 1]
  /\ runs' = {[r EXCEPT !.cancelled = @ \/ r.kind = "run"] : r \in runs}
               \cup {Run("run", Root(viewer.live + 1), 0)}

\* Mutant: a cancelled call is not told apart.
ComputedAtAll(r) ==
  /\ r.kind = "run"
  /\ viewer' = [viewer EXCEPT !.computed = r.of]
  /\ runs' = runs \ {r}
Computed(r) ==
  /\ r.kind = "run"
  /\ viewer' = IF r.cancelled THEN viewer ELSE [viewer EXCEPT !.computed = r.of]
  /\ runs' = runs \ {r}
RunFailed(r) ==
  /\ r.kind = "run"
  /\ viewer' = IF r.cancelled THEN viewer
               ELSE [viewer EXCEPT !.computed = Nothing, !.error = TRUE]
  /\ runs' = runs \ {r}

\* What is on the screen: the end of the path, or the report that is wanted.
ActiveDef == IF viewer.path = << >> THEN Root(viewer.live) ELSE viewer.path[Len(viewer.path)]
DrillIn ==
  /\ Visible /\ ~ ActiveDef.drilled /\ viewer.clicks < MaxDrills
  /\ viewer' = [viewer EXCEPT !.clicks = @ + 1]
  /\ runs' = runs \cup {Run("drill", ActiveDef, viewer.clicks + 1)}
DrilledIn(r) ==
  /\ r.kind = "drill"
  /\ viewer' = [viewer EXCEPT !.path = Append(@, Child(r.of))]
  /\ runs' = runs \ {r}
DrillInFailed(r) ==
  /\ r.kind = "drill"
  /\ runs' = runs \ {r}
  /\ UNCHANGED viewer
\* Back to the root.
BackUp ==
  /\ Visible /\ viewer.path # << >>
  /\ viewer' = [viewer EXCEPT !.path = << >>]
  /\ UNCHANGED runs

(* ----------------------------------- properties --------------------------------------- *)
\* "Guard against out-of-order responses from rapid resubmits": the error on the screen is
\* that of the last question, never of one that was asked again since.
ErrorIsOfTheLatest ==
  ask.phase = "error" => \A c \in calls : c.kind \in {"generate", "execute"} => c.of.of < reqSeq

\* The result under the filter bar is that of the filters, or the call for it is on its way:
\* an answer for filters changed since is dropped, and an error is of the filters shown.
ComputedIsWanted ==
  \/ viewer.computed = Root(viewer.live) \/ viewer.error
  \/ \E r \in runs : r.kind = "run" /\ ~ r.cancelled /\ r.of = Root(viewer.live)
====================================================================================
