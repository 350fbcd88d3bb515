---------------------------- MODULE AssessmentRules ----------------------------
(***************************************************************************)
(* The pure rules of SaveAssessment: which tools of a project may be       *)
(* edited, how a save is merged into the stored assessment, and what the   *)
(* server derives from the merged results.                                 *)
(*                                                                         *)
(* The JSON columns are functions from tool keys: InputJson to inputs,     *)
(* ResultJson to scores.  A key that is missing from the JSON maps to      *)
(* Blank, or to the score 0, which is all the code tells apart.            *)
(***************************************************************************)
EXTENDS Integers, Functions

CONSTANTS
  Section,   \* the section keys of AllowedSections
  Tool,      \* the checklist tools
  ToolsOf,   \* ToolsOf[k] : the tools section k owns (SectionTools)
  Input,     \* what the client stores for one tool
  Blank,     \* nothing was stored for the tool
  Score,     \* the scores of one tool
  Body       \* what a save may send: inputs and scores, as the client has them

ASSUME RulesAssumption ==
  /\ ToolsOf \in [Section -> SUBSET Tool]
  /\ Blank \in Input
  /\ Score \subseteq Int /\ 0 \in Score
  /\ Body \subseteq [input: [Tool -> Input], result: [Tool -> Score]]

\* AllowedSections, split: null and the empty string mean unrestricted.
Unrestricted == {}

ResolveAllowedTools(allowed) ==
  IF allowed = Unrestricted THEN Tool ELSE UNION {ToolsOf[k] : k \in allowed}

\* Mutant: the incoming object is used as it is.
MergeUngated(existing, incoming, allowed) == incoming

\* Allowed tools take the incoming value, the others keep the stored one.
MergeByAllowedTools(existing, incoming, allowed) ==
  [t \in Tool |->
     IF t \in ResolveAllowedTools(allowed) THEN incoming[t] ELSE existing[t]]

SumScores(result) == SumFunction(result)
StatusOf(total) == IF total > 0 THEN "Completed" ELSE "Draft"

\* The totals of such scores.
Totals == {SumScores(r) : r \in [Tool -> Score]}

\* The table Assessments; MaxScore, which the client sends, is left out.
AssessmentRow ==
  [input: [Tool -> Input], result: [Tool -> Score], total: Totals,
   status: {"Draft", "Completed"}]

\* A project without an assessment merges as if everything were blank.
NoAssessment ==
  [input |-> [t \in Tool |-> Blank], result |-> [t \in Tool |-> 0],
   total |-> SumScores([t \in Tool |-> 0]), status |-> "Draft"]

RowOf(input, result) ==
  [input |-> input, result |-> result, total |-> SumScores(result),
   status |-> StatusOf(SumScores(result))]

\* Mutant: the total the client sent is stored.
SavedTrustingTotal(seen, body, allowed) ==
  [RowOf(MergeByAllowedTools(seen.input, body.input, allowed),
         MergeByAllowedTools(seen.result, body.result, allowed))
   EXCEPT !.total = SumScores(body.result)]

\* The row a save of body makes of the row it read.
Saved(seen, body, allowed) ==
  RowOf(MergeByAllowedTools(seen.input, body.input, allowed),
        MergeByAllowedTools(seen.result, body.result, allowed))
=============================================================================
