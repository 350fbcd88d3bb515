-------------------------- MODULE MCAssessmentClients --------------------------
(* Instances of AssessmentClients for TLC. *)
EXTENDS AssessmentClients, TLC

\* The two tools of one section, and one of a section that is locked.
MCSection == {"env", "mon"}
MCTool == {"opaque", "trans", "monitor"}
MCToolsOf == ("env" :> {"opaque", "trans"} @@ "mon" :> {"monitor"})

\* Two inputs with one score, so that a score does not tell them apart.
MCInput == {"blank", "first", "second"}
MCScore == {0, 1}
MCScoreOf == [i \in Input |-> IF i = "blank" THEN 0 ELSE 1]
AnyBody == [input: [Tool -> Input], result: [Tool -> Score]]
=============================================================================
