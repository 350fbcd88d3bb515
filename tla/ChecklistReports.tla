---------------------------- MODULE ChecklistReports ----------------------------
(***************************************************************************)
(* What the printable reports show for stored details.  The rows of the    *)
(* four questionnaires are listed and judged by code of the reports; their *)
(* totals come from the scorers.  The two envelope reports work the total  *)
(* out again.                                                              *)
(***************************************************************************)
EXTENDS ChecklistScoring

ReportMechRowPass(item, state) ==
  \/ item.type = "bool" /\ state.radio = "y"
  \/ /\ item.type = "num" /\ IsFinite(state.number)
     /\ item.min.kind = "num" => item.min.value <= state.number.value
     /\ item.max.kind = "num" => state.number.value <= item.max.value
  \/ item.type = "text" /\ state.text \notin {"", "blank"}
  \/ item.type = "eff_pair" /\ ~(state.eff \in {"", "blank"} /\ state.rank \in {"", "blank"})
  \/ item.type = "custom_select" /\ state.selectValue # ""

\* Mutant: a report lists the rows of the systems the building does not have.
AllMechReportRows(details) ==
  {[section |-> MechItem[r].section,
    pass |-> ReportMechRowPass(MechItem[r], details.responses[r]), row |-> r] :
     r \in {q \in DOMAIN MechItem :
              GetGroupIndex(InputGroup(details)) >= GetGroupIndex(MechItem[q].minG)}}

BuildMechReport(details) ==
  {[section |-> MechItem[r].section,
    pass |-> ReportMechRowPass(MechItem[r], details.responses[r]), row |-> r] :
     r \in {q \in DOMAIN MechItem \ details.logicOffRows :
              GetGroupIndex(InputGroup(details)) >= GetGroupIndex(MechItem[q].minG)}}

ReportElecRowPass(item, state) ==
  \/ item.type = "bool" /\ state.radio = "y"
  \/ /\ item.type = "num" /\ IsFinite(state.number)
     /\ item.min.kind = "num" => item.min.value <= state.number.value
     /\ item.max.kind = "num" => state.number.value <= item.max.value
  \/ /\ item.type = "table"
     /\ LET checked == {k \in DOMAIN state.table : state.table[k].checked}
        IN /\ checked # {}
           /\ \A k \in checked : LET v == state.table[k].value
                                 IN IsFinite(v) /\ v.value >= item.limits[k]

BuildElecReport(details) ==
  {[section |-> ElecItem[r].section,
    pass |-> ReportElecRowPass(ElecItem[r], details.responses[r]), row |-> r] :
     r \in {q \in DOMAIN ElecItem : ElecItem[q].tag \notin ElecOff(InputGroup(details))}}

BuildMonitoringReport(details) ==
  UNION {{[section |-> s, pass |-> details.responses[r] = "y", row |-> r] :
            r \in MonitoringItem[s]} : s \in AlwaysActive \cup details.toggles}

BuildIntegratedReport(details) ==
  IF details.logicActive
  THEN {[section |-> "integrated", pass |-> details.responses[r] = "y", row |-> r] :
          r \in IntegratedItem}
  ELSE {}

\* What the rows of one section of a report say of it.
AllRowsPass(rows, s) == \A row \in rows : row.section = s => row.pass
Listed(rows, s) == \E row \in rows : row.section = s

\* The score of the rows: a mechanical section with no row is worth its maximum,
\* an electrical one nothing; the other two tools are all or nothing.
RowsScore(tool, details) ==
  CASE tool = "mech" ->
         LET rows == BuildMechReport(details)
         IN SumFunction([s \in DOMAIN MechMax |->
                           IF AllRowsPass(rows, s) THEN MechMax[s] ELSE 0])
    [] tool = "elec" ->
         LET rows == BuildElecReport(details)
         IN SumFunction([s \in DOMAIN ElecMax |->
                           IF AllRowsPass(rows, s) /\ Listed(rows, s) THEN ElecMax[s] ELSE 0])
    [] tool = "monitoring" ->
         IF \A row \in BuildMonitoringReport(details) : row.pass THEN 120 ELSE 0
    [] OTHER -> IF \A row \in BuildIntegratedReport(details) : row.pass THEN 77 ELSE 0

-----------------------------------------------------------------------------
BuildEnvOpaqueReport(details, climate) ==
  LET bridge == details.bridge
      passes(a) == SumR(a.layers) > 10 * OpaqueTargetR(a.targetKey, climate)
      envelopePass == /\ Len(details.analyses) > 0
                      /\ \A k \in DOMAIN details.analyses : passes(details.analyses[k])
      allDefined == \A d \in Side : bridge[d].kind \in {"num", "nan"}
      highBridge == allDefined /\ \E d \in Side : ToNum(bridge[d]) > 5
      bridgePass == allDefined /\ (~highBridge \/ bridge.mitigation)
  IN (IF envelopePass /\ bridgePass THEN 90 ELSE 0)
     + (IF "yes" \in {details.shading.q1, details.shading.q2} THEN 15 ELSE 0)

\* A factor that is missing fails the window here.
BuildEnvTransReport(details, climate) ==
  LET passes(w) ==
        /\ CalcWindowU(w) > 0 /\ CalcWindowU(w) <= TransULimit(w.type)
        /\ w.shgc.kind = "num" /\ w.shgc.value <= TransShgcLimit(climate, ToNum(w.pf))
  IN IF /\ Len(details.windows) > 0
        /\ \A k \in DOMAIN details.windows : passes(details.windows[k])
     THEN 93 ELSE 0

\* What a report says the checklist is worth.
ReportScore(tool, details, climate) ==
  CASE tool = "env_opaque" -> BuildEnvOpaqueReport(details, climate)
    [] tool = "env_trans" -> BuildEnvTransReport(details, climate)
    [] OTHER -> RowsScore(tool, details)
=============================================================================
