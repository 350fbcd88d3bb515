----------------------------- MODULE WebChecklists -----------------------------
(***************************************************************************)
(* The checklist components of the web application: what they start from   *)
(* when they are mounted, how they work the score out themselves, what     *)
(* they report, and what their handlers do to their state.                 *)
(*                                                                         *)
(* A component is a function of the details it reports: the state it keeps *)
(* is in them, and the effects that follow a change run before the next.   *)
(* Names, shades of wording and the light a window lets through are left   *)
(* out, as nothing is worked out of them.                                  *)
(***************************************************************************)
EXTENDS ChecklistScoring

CONSTANTS
  CentralRows, NonCentralRows,  \* the mechanical rows of the two systems
  Material,     \* Material[c] : the materials of category c, in order
  Preset,       \* Preset[t] : the layers of the preset of assembly t
  WindowPreset  \* WindowPreset[p] : the window preset p stands for

WindowType == {"fixed", "operable", "door", "skylight"}

ASSUME CatalogueAssumption ==
  /\ CentralRows \cup NonCentralRows \subseteq DOMAIN MechItem
  /\ "" \notin DOMAIN Material
  /\ \A c \in DOMAIN Material : Material[c] \in Seq([r: Number, l: Nat, t: Nat])
  /\ \A t \in DOMAIN Preset :
       /\ t \in DOMAIN OpaqueTargetBy3B
       /\ Preset[t] \in Seq([c: DOMAIN Material, i: Nat, t: Nat])
       /\ \A k \in DOMAIN Preset[t] : Preset[t][k].i \in DOMAIN Material[Preset[t][k].c]
  /\ "fixed_window" \in DOMAIN WindowPreset
  /\ \A p \in DOMAIN WindowPreset :
       WindowPreset[p] \in [type: WindowType, profileIdx: DOMAIN Profile, l1Idx: DOMAIN Glass,
                            l2Idx: DOMAIN Gas, l3Idx: DOMAIN Glass, shgc: Number]

AutoGroup(facts) == CalcBuildingGroup(facts.area, facts.floors, facts.units)
CurrentGroup(manualGroup, facts) == IF manualGroup # "none" THEN manualGroup ELSE AutoGroup(facts)

-----------------------------------------------------------------------------
(* The electrical and the mechanical checklist. *)
WebEvaluateRow(item, state) ==
  CASE item.type = "bool" -> state.radio = "y"
    [] item.type = "num" -> InRange(item, state.number)
    [] OTHER ->
         LET checkedRows == {k \in DOMAIN state.table : state.table[k].checked}
         IN /\ checkedRows # {}
            /\ \A k \in checkedRows :
                 IsFinite(state.table[k].value) /\ state.table[k].value.value >= item.limits[k]

\* Mutant: the rule is read for the group the building has, not for the one chosen.
WebElecScoreAuto(manualGroup, responses, facts) ==
  LET active(s) == {r \in DOMAIN ElecItem : /\ ElecItem[r].section = s
                                            /\ ElecItem[r].tag \notin ElecOff(AutoGroup(facts))}
      ok(s) == \A r \in active(s) : WebEvaluateRow(ElecItem[r], responses[r])
      score == [s \in DOMAIN ElecMax |-> IF active(s) # {} /\ ok(s) THEN ElecMax[s] ELSE 0]
  IN SumFunction(score)

WebElecScore(manualGroup, responses, facts) ==
  LET off == ElecOff(CurrentGroup(manualGroup, facts))
      active(s) == {r \in DOMAIN ElecItem : ElecItem[r].section = s /\ ElecItem[r].tag \notin off}
      ok(s) == \A r \in active(s) : WebEvaluateRow(ElecItem[r], responses[r])
      score == [s \in DOMAIN ElecMax |-> IF active(s) # {} /\ ok(s) THEN ElecMax[s] ELSE 0]
  IN SumFunction(score)

WebGetRowPass(item, state) ==
  CASE item.type = "bool" -> state.radio = "y"
    [] item.type = "num" -> InRange(item, state.number)
    [] item.type = "text" -> state.text \notin {"", "blank"}
    [] item.type = "eff_pair" -> \E x \in {state.eff, state.rank} : x \notin {"", "blank"}
    [] OTHER -> state.selectValue # ""

WebMechScore(manualGroup, responses, logicOffRows, facts) ==
  LET index == GetGroupIndex(CurrentGroup(manualGroup, facts))
      active(s) == {r \in DOMAIN MechItem \ logicOffRows :
                      MechItem[r].section = s /\ index >= GetGroupIndex(MechItem[r].minG)}
      failed(s) == {r \in active(s) : ~WebGetRowPass(MechItem[r], responses[r])}
      score == [s \in DOMAIN MechMax |-> IF failed(s) = {} THEN MechMax[s] ELSE 0]
  IN SumFunction(score)

\* The group that is used is reported with the answers; the stored one is not read.
WebElecDetails(details, facts) == [details EXCEPT !.group = CurrentGroup(details.manualGroup, facts)]
WebMechDetails(details, facts) == [details EXCEPT !.group = CurrentGroup(details.manualGroup, facts)]

\* Of a row, the field of its type; a number field that is emptied holds null.
WebSetResponse(details, r, field, v) ==
  [details EXCEPT !.responses[r] = [@ EXCEPT ![field] = v]]

\* A row of a table that is unchecked loses its value.
TableOf(item, state) ==
  IF state.table # << >> THEN state.table
  ELSE [k \in DOMAIN item.limits |-> [checked |-> FALSE, value |-> Null]]

WebCheck(details, r, k, checked) ==
  LET table == TableOf(ElecItem[r], details.responses[r])
      entry == [checked |-> checked, value |-> IF checked THEN table[k].value ELSE Null]
  IN WebSetResponse(details, r, "table", ReplaceAt(table, k, entry))

WebTableValue(details, r, k, v) ==
  LET table == TableOf(ElecItem[r], details.responses[r])
  IN WebSetResponse(details, r, "table", ReplaceAt(table, k, [table[k] EXCEPT !.value = v]))

\* Mutant: the rows of the other system stay off when the system is changed.
HandleSystemChangeMore(details, value) ==
  [details EXCEPT !.logicOffRows = details.logicOffRows \cup
     (CASE value = "non_central" -> CentralRows
        [] value = "central" -> NonCentralRows
        [] OTHER -> {})]

HandleSystemChange(details, value) ==
  [details EXCEPT !.logicOffRows =
     CASE value = "non_central" -> CentralRows
       [] value = "central" -> NonCentralRows
       [] OTHER -> {}]

-----------------------------------------------------------------------------
(* The monitoring checklist. *)
WebMonitoringScore(details) ==
  LET sections == {s \in DOMAIN MonitoringItem : s \in AlwaysActive \/ s \in details.toggles}
  IN IF \A s \in sections : \A r \in MonitoringItem[s] : details.responses[r] = "y"
     THEN 120 ELSE 0

\* A section that is unchecked loses its answers.
OnToggle(details, s) ==
  IF s \notin details.toggles THEN [details EXCEPT !.toggles = @ \cup {s}]
  ELSE [details EXCEPT !.toggles = @ \ {s},
                       !.responses = [r \in DOMAIN @ |-> IF r \in MonitoringItem[s] THEN "" ELSE @[r]]]

-----------------------------------------------------------------------------
(* The integrated-management checklist. *)
GetIntegratedAutoActivation(usage, facts) ==
  \/ usage = "pub" /\ facts.area > 10000
  \/ usage = "res" /\ (facts.area > 5000 \/ facts.floors > 9)

Unanswered == [r \in IntegratedItem |-> ""]

\* The effects of a change: the answers go when the logic goes off.
AfterLogic(before, details) ==
  IF before.logicActive /\ ~details.logicActive THEN [details EXCEPT !.responses = Unanswered]
  ELSE details

\* When what is worked out changes, it replaces what was chosen.
AfterFacts(before, details, was, now) ==
  AfterLogic(before, IF GetIntegratedAutoActivation(before.usage, was)
                          # GetIntegratedAutoActivation(details.usage, now)
                     THEN [details EXCEPT !.logicActive = ~GetIntegratedAutoActivation(before.usage, was)]
                     ELSE details)

ToggleLogic(details) == AfterLogic(details, [details EXCEPT !.logicActive = ~@])
WebSetUsage(details, usage, facts) ==
  AfterFacts(details, [details EXCEPT !.usage = usage], facts, facts)

\* Mutant: the answers are dropped only when the logic goes off, not at the start.
KeepAtMount(stored, facts) ==
  LET usage == IF stored.usage = "unset" THEN facts.usage ELSE stored.usage
  IN [usage |-> usage, responses |-> stored.responses,
      logicActive |-> GetIntegratedAutoActivation(usage, facts)]

\* Both effects run at the start: what is worked out replaces what was stored, and
\* the answers go unless the logic was on and still is.
MountIntegrated(stored, facts) ==
  LET usage == IF stored.usage = "unset" THEN facts.usage ELSE stored.usage
      auto == GetIntegratedAutoActivation(usage, facts)
  IN [usage |-> usage, logicActive |-> auto,
      responses |-> IF stored.logicActive /\ auto THEN stored.responses ELSE Unanswered]

-----------------------------------------------------------------------------
(* The opaque envelope. *)
CreateLayer ==
  [category |-> "", material |-> 0, thickness |-> Null, lambda |-> 0, rValue |-> 0,
   fixedThickness |-> FALSE]
CreateAnalysis(targetKey) == [targetKey |-> targetKey, layers |-> <<CreateLayer>>]

NoBridge == [d \in Side \cup {"mitigation"} |-> IF d = "mitigation" THEN FALSE ELSE Null]

\* x || Num(t) || null
Else(x, t) == IF ToNum(x) # 0 THEN x ELSE IF t # 0 THEN Num(t) ELSE Null

OnCategoryChange(layer, category) == [CreateLayer EXCEPT !.category = category]

\* Mutant: the resistance of the layer stays that of its former material.
OnMaterialChangeKeepR(layer, i) ==
  LET material == Material[layer.category][i]
      thickness == Else(layer.thickness, material.t)
  IN IF material.r.kind = "num"
     THEN [layer EXCEPT !.material = i, !.lambda = 0, !.rValue = material.r.value,
                        !.thickness = IF material.t # 0 THEN Num(material.t) ELSE @,
                        !.fixedThickness = material.t # 0]
     ELSE [layer EXCEPT !.material = i, !.lambda = material.l, !.thickness = thickness,
                        !.fixedThickness = FALSE]

OnMaterialChange(layer, i) ==
  LET material == Material[layer.category][i]
      thickness == Else(layer.thickness, material.t)
  IN IF material.r.kind = "num"
     THEN [layer EXCEPT !.material = i, !.lambda = 0, !.rValue = material.r.value,
                        !.thickness = IF material.t # 0 THEN Num(material.t) ELSE @,
                        !.fixedThickness = material.t # 0]
     ELSE [layer EXCEPT !.material = i, !.lambda = material.l, !.thickness = thickness,
                        !.rValue = CalcLayerR(material.l, thickness), !.fixedThickness = FALSE]

\* Without a conductivity or a thickness the layer keeps the resistance it has.
RecalcLayerR(layer) ==
  IF layer.lambda > 0 /\ ToNum(layer.thickness) > 0 THEN CalcLayerR(layer.lambda, layer.thickness)
  ELSE layer.rValue

OnThicknessChange(layer, v) ==
  LET next == [layer EXCEPT !.thickness = v] IN [next EXCEPT !.rValue = RecalcLayerR(next)]

\* The last layer of an assembly and the last assembly give way to a fresh one.
WebRemoveLayer(analysis, k) ==
  [analysis EXCEPT !.layers = IF Len(@) > 1 THEN RemoveAt(@, k) ELSE <<CreateLayer>>]

WebRemoveAnalysis(details, k) ==
  [details EXCEPT !.analyses =
     IF Len(@) > 1 THEN RemoveAt(@, k) ELSE <<CreateAnalysis("wall_ext_open")>>]

PresetLayer(item) ==
  LET material == Material[item.c][item.i]
      isFixed == material.r.kind = "num"
      lambda == IF isFixed THEN 0 ELSE material.l
      thickness == Else(Num(item.t), material.t)
  IN [category |-> item.c, material |-> item.i, thickness |-> thickness, lambda |-> lambda,
      rValue |-> IF isFixed THEN material.r.value ELSE CalcLayerR(lambda, thickness),
      fixedThickness |-> isFixed /\ material.t # 0]

ApplyPreset(analysis, presetKey) ==
  [analysis EXCEPT !.targetKey = presetKey,
                   !.layers = [k \in DOMAIN Preset[presetKey] |-> PresetLayer(Preset[presetKey][k])]]

WebOpaqueScore(details, climate) ==
  LET passes(a) == OpaqueTargetR(a.targetKey, climate) * 10 < SumR(a.layers)
      envelopePass == /\ details.analyses # << >>
                      /\ \A k \in DOMAIN details.analyses : passes(details.analyses[k])
      bridge == details.bridge
      missing == \E d \in Side : bridge[d].kind \in {"null", "absent"}
      highBridge == \E d \in Side : ToNum(bridge[d]) > 5
      bridgePass == ~missing /\ (highBridge => bridge.mitigation)
      shading == details.shading
  IN (IF envelopePass /\ bridgePass THEN 90 ELSE 0)
     + (IF shading.q1 = "yes" \/ shading.q2 = "yes" THEN 15 ELSE 0)

-----------------------------------------------------------------------------
(* The windows. *)
WebCalcLayerR(lambda, thickness) ==
  IF lambda <= 0 \/ ~IsFinite(thickness) \/ thickness.value <= 0 THEN 0
  ELSE Rounded(thickness.value * 1000, lambda)

WebCalcWindowU(w) ==
  LET r1 == WebCalcLayerR(Glass[w.l1Idx], w.l1Th)
      r2 == WebCalcLayerR(Gas[w.l2Idx], w.l2Th)
      r3 == WebCalcLayerR(Glass[w.l3Idx], w.l3Th)
      r == 170 + r1 + r2 + r3
      uFrame == Profile[w.profileIdx]
  IN IF uFrame = 0 THEN Rounded(100000, r) ELSE Rounded(400000 + uFrame * r, 5 * r)

CreateWindowFromPreset(p) ==
  LET preset == WindowPreset[p]
  IN [type |-> preset.type, profileIdx |-> preset.profileIdx, l1Idx |-> preset.l1Idx,
      l2Idx |-> preset.l2Idx, l3Idx |-> preset.l3Idx, shgc |-> preset.shgc,
      l1Th |-> Num(6), l2Th |-> Num(12), l3Th |-> Num(4), pf |-> Null]

WebTransScore(details, climate) ==
  LET uPass(w) == WebCalcWindowU(w) > 0 /\ WebCalcWindowU(w) <= TransULimit(w.type)
      shgcPass(w) == /\ IsFinite(w.shgc)
                     /\ w.shgc.value <= TransShgcLimit(climate, ToNum(w.pf))
      windows == details.windows
  IN IF windows # << >> /\ \A k \in DOMAIN windows : uPass(windows[k]) /\ shgcPass(windows[k])
     THEN 93 ELSE 0

\* A thickness that is emptied is 0; a factor that is emptied is null.
WebUpdateWindow(details, k, field, v) ==
  [details EXCEPT !.windows[k] =
     [@ EXCEPT ![field] = IF field \in {"l1Th", "l2Th", "l3Th"} /\ v = Null THEN Num(0) ELSE v]]

WebRemoveWindow(details, k) ==
  [details EXCEPT !.windows =
     IF Len(@) > 1 THEN RemoveAt(@, k) ELSE <<CreateWindowFromPreset("fixed_window")>>]

-----------------------------------------------------------------------------
\* A component mounted on the stored details of its tool.
WebMounted(tool, stored, facts) ==
  CASE tool = "env_opaque" ->
         [stored EXCEPT !.analyses = IF @ # << >> THEN @ ELSE <<CreateAnalysis("wall_ext_open")>>]
    [] tool = "env_trans" ->
         [stored EXCEPT !.windows = IF @ # << >> THEN @ ELSE <<CreateWindowFromPreset("fixed_window")>>]
    [] tool = "mech" -> WebMechDetails(stored, facts)
    [] tool = "elec" -> WebElecDetails(stored, facts)
    [] tool = "monitoring" -> stored
    [] OTHER -> MountIntegrated(stored, facts)

\* The score a component reports with its details.
WebScore(tool, details, facts) ==
  CASE tool = "env_opaque" -> WebOpaqueScore(details, facts.climate)
    [] tool = "env_trans" -> WebTransScore(details, facts.climate)
    [] tool = "mech" ->
         WebMechScore(details.manualGroup, details.responses, details.logicOffRows, facts)
    [] tool = "elec" -> WebElecScore(details.manualGroup, details.responses, facts)
    [] tool = "monitoring" -> WebMonitoringScore(details)
    [] OTHER -> ScoreIntegrated(details)
=============================================================================
