---------------------------- MODULE ChecklistScoring ----------------------------
(***************************************************************************)
(* The scores of the six checklists, as the package assessment-core gives  *)
(* them for the details a client stores.                                   *)
(*                                                                         *)
(* Lengths are in millimetres, conductivities in thousandths of W/mK,      *)
(* resistances in thousandths of m2K/W, transmittances, limits and factors *)
(* in hundredths; where the code rounds a quotient, Rounded does, exactly. *)
(***************************************************************************)
EXTENDS Integers, SequencesExt

CONSTANTS
  ElecItem,        \* ElecItem[r] : row r of the electrical checklist
  ElecMax,         \* ElecMax[s] : the score of its section s
  MechItem,        \* MechItem[r] : row r of the mechanical checklist
  MechMax,
  MonitoringItem,  \* MonitoringItem[s] : the rows of a monitoring section
  AlwaysActive,    \* the monitoring sections no toggle turns off
  IntegratedItem,  \* the rows of the integrated-management checklist
  Glass, Gas,      \* Glass[i], Gas[i] : the conductivity of a pane, of a gap
  Profile          \* Profile[i] : the transmittance of a frame

GroupOrder == <<"A", "B", "Bp", "C", "Cp", "Cpp", "D">>
Group == {GroupOrder[k] : k \in DOMAIN GroupOrder}
RowType == {"bool", "num", "text", "eff_pair", "custom_select", "table"}

ASSUME RowsAssumption ==
  /\ \A r \in DOMAIN ElecItem :
       /\ ElecItem[r].type \in {"bool", "num", "table"}
       /\ ElecItem[r].section \in DOMAIN ElecMax
       /\ ElecItem[r].limits \in Seq(Nat \ {0})
  /\ \A r \in DOMAIN MechItem :
       /\ MechItem[r].type \in RowType \ {"table"}
       /\ MechItem[r].section \in DOMAIN MechMax /\ MechItem[r].minG \in Group
  /\ \A q, r \in DOMAIN MechItem :   \* one row asks for the system
       MechItem[q].type = "custom_select" /\ MechItem[r].type = "custom_select" => q = r
  /\ AlwaysActive \subseteq DOMAIN MonitoringItem

ASSUME GlazingAssumption == {Glass, Gas, Profile} \subseteq Seq(Nat)

\* A numeric field that was never filled in, was emptied, or holds a text that is
\* no number; and one that holds v.
Absent == [kind |-> "absent", value |-> 0]
Null == [kind |-> "null", value |-> 0]
NotNumber == [kind |-> "nan", value |-> 0]
Num(v) == [kind |-> "num", value |-> v]
Number == {x \in [kind: {"absent", "null", "nan", "num"}, value: Int] :
             x.kind # "num" => x.value = 0}

\* Number.isFinite(Number(x)): undefined and NaN are not finite, null counts as 0.
IsFinite(x) == x.kind \in {"num", "null"}
ToNum(x) == IF IsFinite(x) THEN x.value ELSE 0

\* n / d to the nearest integer, for n, d > 0.
Rounded(n, d) == (2 * n + d) \div (2 * d)

\* A row nobody has answered.
NoAnswer ==
  [radio |-> "", number |-> Absent, table |-> << >>, text |-> "", eff |-> "",
   rank |-> "", selectValue |-> ""]

-----------------------------------------------------------------------------
GetGroupIndex(g) == CHOOSE k \in DOMAIN GroupOrder : GroupOrder[k] = g

CalcBuildingGroup(area, floors, units) ==
  IF floors > 10 \/ area > 5000 THEN "D"
  ELSE IF floors \in 6..10 \/ area > 2000
    THEN IF units > 30 THEN IF area < 3000 THEN "Cp" ELSE "Cpp" ELSE "C"
  ELSE IF floors \in 3..5 \/ area > 600 THEN IF units > 30 THEN "Bp" ELSE "B"
  ELSE "A"

\* input.group ?? input.manualGroup ?? "A"
InputGroup(input) ==
  IF input.group # "none" THEN input.group
  ELSE IF input.manualGroup # "none" THEN input.manualGroup ELSE "A"

InRange(item, x) ==
  /\ IsFinite(x)
  /\ item.min.kind = "num" => x.value >= item.min.value
  /\ item.max.kind = "num" => x.value <= item.max.value

\* The tags a group leaves out.
ElecOff(g) ==
  CASE g \in {"A", "B"} -> {"renew", "bms", "ev", "motor"}
    [] g \in {"Bp", "C", "Cp", "Cpp"} -> {"renew", "bms", "ev"}
    [] OTHER -> {}

ElecRowPasses(item, state) ==
  CASE item.type = "bool" -> state.radio = "y"
    [] item.type = "num" -> InRange(item, state.number)
    [] OTHER ->
         /\ \E k \in DOMAIN state.table : state.table[k].checked
         /\ \A k \in DOMAIN state.table : state.table[k].checked =>
              IsFinite(state.table[k].value) /\ state.table[k].value.value >= item.limits[k]

ScoreElec(input) ==
  LET active(s) == {r \in DOMAIN ElecItem :
                      ElecItem[r].section = s /\ ElecItem[r].tag \notin ElecOff(InputGroup(input))}
      score == [s \in DOMAIN ElecMax |->
                  IF /\ active(s) # {}
                     /\ \A r \in active(s) : ElecRowPasses(ElecItem[r], input.responses[r])
                  THEN ElecMax[s] ELSE 0]
  IN SumFunction(score)

MechRowPasses(item, state) ==
  CASE item.type = "bool" -> state.radio = "y"
    [] item.type = "num" -> InRange(item, state.number)
    [] item.type = "text" -> state.text \notin {"", "blank"}
    [] item.type = "eff_pair" -> {state.eff, state.rank} \ {"", "blank"} # {}
    [] OTHER -> state.selectValue # ""

ScoreMech(input) ==
  LET active(s) == {r \in DOMAIN MechItem :
                      /\ MechItem[r].section = s /\ r \notin input.logicOffRows
                      /\ GetGroupIndex(InputGroup(input)) >= GetGroupIndex(MechItem[r].minG)}
      passed(s) == {r \in active(s) : MechRowPasses(MechItem[r], input.responses[r])}
      score == [s \in DOMAIN MechMax |-> IF active(s) = passed(s) THEN MechMax[s] ELSE 0]
  IN SumFunction(score)

ScoreMonitoring(input) ==
  IF \A s \in AlwaysActive \cup input.toggles :
       \A r \in MonitoringItem[s] : input.responses[r] = "y"
  THEN 120 ELSE 0

ScoreIntegrated(input) ==
  IF ~input.logicActive \/ \A r \in IntegratedItem : input.responses[r] = "y" THEN 77 ELSE 0

-----------------------------------------------------------------------------
\* The base resistance of a climate and the target of an assembly in climate 3B.
OpaqueBaseR ==
  [c \in {"1", "2", "3A", "3B", "4", "5"} |->
     CASE c = "1" -> 55 [] c = "2" -> 88 [] c = "3A" -> 114
       [] c = "3B" -> 143 [] c = "4" -> 187 [] OTHER -> 227]
OpaqueTargetBy3B ==
  [k \in {"wall_ext_open", "wall_ext_semi", "wall_soil", "roof_flat", "roof_semi",
          "floor_pilot", "floor_semi", "floor_soil", "door_opaque", "door_garage"} |->
     CASE k = "wall_ext_open" -> 143 [] k = "wall_ext_semi" -> 119 [] k = "wall_soil" -> 15
       [] k = "roof_flat" -> 455 [] k = "roof_semi" -> 385 [] k = "floor_pilot" -> 238
       [] k = "floor_semi" -> 200 [] k = "floor_soil" -> 27 [] k = "door_opaque" -> 48
       [] OTHER -> 57]

OpaqueTargetR(targetKey, climate) ==
  LET base == OpaqueBaseR[IF climate \in DOMAIN OpaqueBaseR THEN climate ELSE "3B"]
  IN Rounded(base * OpaqueTargetBy3B[targetKey], OpaqueBaseR["3B"])

SumR(layers) == MapThenSumSet(LAMBDA k : layers[k].rValue, DOMAIN layers)

Side == {"south", "north", "east", "west"}

\* NaN is neither null nor empty, and counts as 0 against the limit.
BridgePasses(bridge) ==
  /\ \A d \in Side : bridge[d].kind \notin {"null", "absent"}
  /\ (\E d \in Side : ToNum(bridge[d]) > 5) => bridge.mitigation

EnvelopePasses(analyses, climate) ==
  /\ analyses # << >>
  /\ \A k \in DOMAIN analyses :
       SumR(analyses[k].layers) > 10 * OpaqueTargetR(analyses[k].targetKey, climate)

ScoreEnvOpaque(input, climate) ==
  (IF EnvelopePasses(input.analyses, climate) /\ BridgePasses(input.bridge) THEN 90 ELSE 0)
  + (IF "yes" \in {input.shading.q1, input.shading.q2} THEN 15 ELSE 0)

CalcLayerR(lambda, thickness) ==
  IF lambda > 0 /\ ToNum(thickness) > 0 THEN Rounded(ToNum(thickness) * 1000, lambda) ELSE 0

\* 1/r of the glass for 80 parts and the frame for 20, or the glass alone.
CalcWindowU(w) ==
  LET r == 170 + CalcLayerR(Glass[w.l1Idx], w.l1Th) + CalcLayerR(Gas[w.l2Idx], w.l2Th)
               + CalcLayerR(Glass[w.l3Idx], w.l3Th)
      uFrame == Profile[w.profileIdx]
  IN IF uFrame = 0 THEN Rounded(100000, r) ELSE Rounded(400000 + uFrame * r, 5 * r)

TransULimit(type) == CASE type = "operable" -> 303 [] type = "door" -> 384 [] OTHER -> 238

TransShgcLimit(climate, pf) ==
  LET column == IF pf < 20 THEN 1 ELSE IF pf < 50 THEN 2 ELSE IF pf < 75 THEN 3 ELSE 4
  IN IF climate \in {"1", "2"} THEN <<40, 50, 60, 70>>[column] ELSE <<30, 36, 48, 58>>[column]

ScoreEnvTrans(input, climate) ==
  IF /\ input.windows # << >>
     /\ \A k \in DOMAIN input.windows :
          LET w == input.windows[k]
          IN /\ CalcWindowU(w) \in 1..TransULimit(w.type)
             /\ IsFinite(w.shgc) /\ w.shgc.value <= TransShgcLimit(climate, ToNum(w.pf))
  THEN 93 ELSE 0

ScoreTool(tool, input, climate) ==
  CASE tool = "env_opaque" -> ScoreEnvOpaque(input, climate)
    [] tool = "env_trans" -> ScoreEnvTrans(input, climate)
    [] tool = "mech" -> ScoreMech(input)
    [] tool = "elec" -> ScoreElec(input)
    [] tool = "monitoring" -> ScoreMonitoring(input)
    [] OTHER -> ScoreIntegrated(input)

=============================================================================
