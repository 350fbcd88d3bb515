------------------------------ MODULE PhoneEditors ------------------------------
(***************************************************************************)
(* The checklist editors of the mobile application: what they add to an    *)
(* input they are shown with, and what their handlers do to it.  An editor *)
(* keeps nothing itself and leaves the score to assessment-core.           *)
(***************************************************************************)
EXTENDS WebChecklists

\* Mutant: a group that is stored is kept.
WithGroupOnce(input, facts) ==
  IF input.group # "none" THEN input
  ELSE [input EXCEPT !.group = CurrentGroup(input.manualGroup, facts)]

\* The input an effect completes; the group is kept in it for the scorer.
WithGroup(input, facts) ==
  LET group == CalcBuildingGroup(facts.area, facts.floors, facts.units)
  IN [input EXCEPT !.group = IF input.manualGroup = "none" THEN group ELSE input.manualGroup]

PhoneLayer ==
  [category |-> "", material |-> 0, thickness |-> Null, lambda |-> 0, rValue |-> 0,
   fixedThickness |-> FALSE]
PhoneAnalysis(targetKey) == [targetKey |-> targetKey, layers |-> <<PhoneLayer>>]

PhoneWindow(p) ==
  LET preset == WindowPreset[p]
  IN [type |-> preset.type, profileIdx |-> preset.profileIdx, l1Idx |-> preset.l1Idx,
      l2Idx |-> preset.l2Idx, l3Idx |-> preset.l3Idx,
      l1Th |-> Num(6), l2Th |-> Num(12), l3Th |-> Num(4), shgc |-> preset.shgc, pf |-> Null]

WithAnalyses(input) ==
  IF input.analyses # << >> THEN input
  ELSE [input EXCEPT !.analyses = <<PhoneAnalysis("wall_ext_open")>>]
WithWindows(input) ==
  IF input.windows # << >> THEN input ELSE [input EXCEPT !.windows = <<PhoneWindow("fixed_window")>>]

PhoneCompleted(tool, input, facts) ==
  CASE tool \in {"elec", "mech"} -> WithGroup(input, facts)
    [] tool = "env_opaque" -> WithAnalyses(input)
    [] tool = "env_trans" -> WithWindows(input)
    [] OTHER -> input

-----------------------------------------------------------------------------
(* The electrical and the mechanical checklist.  Only rows of the group and of
   the system can be answered. *)
IsRowActive(tool, input, r) ==
  IF tool = "mech"
  THEN /\ GetGroupIndex(input.group) >= GetGroupIndex(MechItem[r].minG)
       /\ r \notin input.logicOffRows
  ELSE ElecItem[r].tag \notin ElecOff(input.group)

SetResp(input, r, field, v) == [input EXCEPT !.responses[r] = [@ EXCEPT ![field] = v]]

PhoneTable(r, state) ==
  IF state.table = << >>
  THEN [k \in DOMAIN ElecItem[r].limits |-> [checked |-> FALSE, value |-> Null]]
  ELSE state.table

PhoneCheck(input, r, k, checked) ==
  LET table == PhoneTable(r, input.responses[r])
      value == IF checked THEN table[k].value ELSE Null
  IN SetResp(input, r, "table", [table EXCEPT ![k] = [checked |-> checked, value |-> value]])

PhoneTableValue(input, r, k, v) ==
  LET table == PhoneTable(r, input.responses[r])
  IN SetResp(input, r, "table", [table EXCEPT ![k] = [@ EXCEPT !.value = v]])

PhoneSystemChange(input, value) ==
  LET next == CASE value = "non_central" -> CentralRows
                [] value = "central" -> NonCentralRows
                [] OTHER -> {}
  IN [input EXCEPT !.logicOffRows = next]

-----------------------------------------------------------------------------
(* Monitoring and integrated management keep the answers of what is off. *)
SetToggle(input, s) ==
  [input EXCEPT !.toggles = IF s \in @ THEN @ \ {s} ELSE @ \cup {s}]
PhoneToggleLogic(input) == [input EXCEPT !.logicActive = ~@]

-----------------------------------------------------------------------------
(* The opaque envelope. *)
PhoneCategoryChange(layer, category) ==
  [category |-> category, material |-> 0, thickness |-> Null, lambda |-> 0, rValue |-> 0,
   fixedThickness |-> FALSE]

PhoneMaterialChange(l, i) ==
  LET material == Material[l.category][i]
      thickness == Else(l.thickness, material.t)
      ready == [l EXCEPT !.material = i, !.lambda = 0, !.rValue = material.r.value,
                         !.thickness = IF material.t = 0 THEN @ ELSE Num(material.t),
                         !.fixedThickness = material.t # 0]
      computed == [l EXCEPT !.material = i, !.lambda = material.l, !.thickness = thickness,
                            !.rValue = CalcLayerR(material.l, thickness),
                            !.fixedThickness = FALSE]
  IN IF material.r.kind = "num" THEN ready ELSE computed

PhoneRecalcLayerR(layer) ==
  IF layer.lambda > 0 /\ ToNum(layer.thickness) > 0 THEN CalcLayerR(layer.lambda, layer.thickness)
  ELSE layer.rValue

PhoneThicknessChange(l, v) ==
  LET next == [l EXCEPT !.thickness = v]
  IN [next EXCEPT !.rValue = PhoneRecalcLayerR(next)]

PhonePresetLayer(item) ==
  LET material == Material[item.c][item.i]
      isFixed == material.r.kind = "num"
      thickness == Else(Num(item.t), material.t)
  IN [category |-> item.c, material |-> item.i, thickness |-> thickness,
      lambda |-> IF isFixed THEN 0 ELSE material.l,
      rValue |-> IF isFixed THEN material.r.value ELSE CalcLayerR(material.l, thickness),
      fixedThickness |-> isFixed /\ material.t # 0]

PhoneApplyPreset(a, presetKey) ==
  LET layers == Preset[presetKey]
  IN [a EXCEPT !.targetKey = presetKey,
               !.layers = [k \in DOMAIN layers |-> PhonePresetLayer(layers[k])]]

\* The last layer, assembly or window cannot be removed.
KeepLast(list, k) == IF Len(list) > 1 THEN RemoveAt(list, k) ELSE list
PhoneRemoveLayer(a, k) == [a EXCEPT !.layers = KeepLast(@, k)]
PhoneRemoveAnalysis(input, k) == [input EXCEPT !.analyses = KeepLast(@, k)]
PhoneRemoveWindow(input, k) == [input EXCEPT !.windows = KeepLast(@, k)]

PhoneUpdateWindow(input, k, field, v) ==
  LET typed == IF field \in {"l1Th", "l2Th", "l3Th"} /\ v = Null THEN Num(0) ELSE v
  IN [input EXCEPT !.windows[k] = [@ EXCEPT ![field] = typed]]
=============================================================================
