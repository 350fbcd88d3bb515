---------------------------- MODULE ChecklistEditing ----------------------------
(***************************************************************************)
(* One checklist of a project, filled in on the web and on the phone in    *)
(* turns: an edit is one handler of the program that shows it with the     *)
(* effects it sets off, and opening it again takes the details through the *)
(* JSON they are stored in.  Meanwhile the facts of the project, of which  *)
(* the group, the climate and the limits are worked out, may change.       *)
(***************************************************************************)
EXTENDS PhoneEditors, ChecklistReports

CONSTANTS
  Facts,        \* what a project may say of its building
  Start,        \* Start[t] : details tool t may be stored with
  Client,       \* the programs the checklist is opened with
  TextNumber,   \* the values typed in a number field
  Thickness,    \* the values typed in a thickness field
  Bridge,       \* the values typed in a bridge field
  Factor,       \* the values typed in a factor field
  TargetKey,    \* the assemblies chosen from
  MaxEdits, MaxLayers, MaxAnalyses, MaxWindows

Tools == {"elec", "mech", "monitoring", "integrated", "env_opaque", "env_trans"}
Texts == {"", "blank", "text"}
Systems == {"", "central", "non_central"}
Usages == {"", "res", "pub"}

\* The details of the tools.
Answers == {"", "y", "n"}
TableEntry == [checked: BOOLEAN, value: Number]
RowState ==
  [radio: Answers, number: Number, table: Seq(TableEntry), text: Texts, eff: Texts,
   rank: Texts, selectValue: Systems]
Sheet(items) ==
  [group: Group \cup {"none"}, manualGroup: Group \cup {"none"},
   responses: [DOMAIN items -> RowState], logicOffRows: SUBSET DOMAIN MechItem]
Categories == {""} \cup DOMAIN Material
Layer ==
  [category: Categories, material: Nat, thickness: Number, lambda: Nat,
   rValue: Int, fixedThickness: BOOLEAN]
Assembly == [targetKey: DOMAIN OpaqueTargetBy3B, layers: Seq(Layer)]
Window ==
  [type: WindowType, profileIdx: DOMAIN Profile, l1Idx: DOMAIN Glass, l2Idx: DOMAIN Gas,
   l3Idx: DOMAIN Glass, l1Th: Number, l2Th: Number, l3Th: Number, shgc: Number, pf: Number]

Details(t) ==
  CASE t = "elec" -> Sheet(ElecItem)
    [] t = "mech" -> Sheet(MechItem)
    [] t = "monitoring" ->
         [toggles: SUBSET DOMAIN MonitoringItem,
          responses: [UNION {MonitoringItem[s] : s \in DOMAIN MonitoringItem} -> Answers]]
    [] t = "integrated" ->
         [usage: Usages \cup {"unset"}, logicActive: BOOLEAN,
          responses: [IntegratedItem -> Answers]]
    [] t = "env_opaque" ->
         [analyses: Seq(Assembly),
          bridge: [south: Number, north: Number, east: Number, west: Number,
                   mitigation: BOOLEAN],
          shading: [q1: {"none", "yes", "no"}, q2: {"none", "yes", "no"}]]
    [] OTHER -> [windows: Seq(Window)]

\* What the programs keep of the details they store: a table has a row for each of its
\* limits, the rows that are off are those of the other system, and a layer holds the
\* conductivity of its material, or its resistance.
OffRows(system) ==
  CASE system = "central" -> NonCentralRows
    [] system = "non_central" -> CentralRows
    [] OTHER -> {}
Kept(layer) ==
  IF layer.material = 0 THEN layer.lambda = 0 /\ layer.rValue = 0
  ELSE /\ layer.category \in DOMAIN Material
       /\ layer.material \in DOMAIN Material[layer.category]
       /\ LET material == Material[layer.category][layer.material]
          IN IF material.r.kind = "num"
             THEN layer.lambda = 0 /\ layer.rValue = material.r.value
             ELSE /\ layer.lambda = material.l
                  /\ \/ material.l > 0 /\ ToNum(layer.thickness) <= 0
                     \/ layer.rValue = CalcLayerR(material.l, layer.thickness)
Consistent(t, d) ==
  /\ t = "elec" => \A r \in DOMAIN ElecItem :
       d.responses[r].table # << >> =>
         DOMAIN d.responses[r].table = DOMAIN ElecItem[r].limits
  /\ t = "mech" => \A r \in DOMAIN MechItem :
       MechItem[r].type = "custom_select" => d.logicOffRows = OffRows(d.responses[r].selectValue)
  /\ t = "env_opaque" =>
       \A k \in DOMAIN d.analyses : \A j \in DOMAIN d.analyses[k].layers :
         Kept(d.analyses[k].layers[j])

ASSUME EditingAssumption ==
  /\ Client \subseteq {"web", "phone"}
  /\ TextNumber \cup Thickness \cup Bridge \cup Factor \subseteq Number
  /\ TargetKey \cup {"wall_ext_open"} \subseteq DOMAIN OpaqueTargetBy3B
  /\ \A f \in Facts : f.usage \in Usages
  /\ MaxEdits \in Nat /\ MaxLayers \in Nat /\ MaxAnalyses \in Nat /\ MaxWindows \in Nat

ASSUME StartAssumption ==
  \A t \in DOMAIN Start : t \in Tools /\ \A d \in Start[t] : d \in Details(t) /\ Consistent(t, d)

VARIABLES tool, facts, client, input, edits
vars == <<tool, facts, client, input, edits>>

\* What JSON makes of a number: NaN is written as null.
StoredNumber(x) == IF x.kind = "nan" THEN Null ELSE x

\* Mutant: the rows the system turns off are not stored.
StoredLogicOn(t, details) == IF t = "mech" THEN [details EXCEPT !.logicOffRows = {}] ELSE details

StoredRow(row) ==
  [row EXCEPT !.number = StoredNumber(row.number),
              !.table = [k \in DOMAIN row.table |->
                 [row.table[k] EXCEPT !.value = StoredNumber(row.table[k].value)]]]
StoredAssembly(a) ==
  [a EXCEPT !.layers = [k \in DOMAIN a.layers |->
     [a.layers[k] EXCEPT !.thickness = StoredNumber(a.layers[k].thickness)]]]
WindowNumber == {"l1Th", "l2Th", "l3Th", "shgc", "pf"}
StoredWindow(w) ==
  [f \in DOMAIN w |-> IF f \in WindowNumber THEN StoredNumber(w[f]) ELSE w[f]]

Stored(t, details) ==
  CASE t \in {"elec", "mech"} ->
         [details EXCEPT !.responses = [r \in DOMAIN @ |-> StoredRow(details.responses[r])]]
    [] t = "env_opaque" ->
         [details EXCEPT
            !.analyses = [k \in DOMAIN @ |-> StoredAssembly(details.analyses[k])],
            !.bridge = [d \in DOMAIN @ |-> IF d \in Side THEN StoredNumber(details.bridge[d])
                                           ELSE details.bridge[d]]]
    [] t = "env_trans" ->
         [details EXCEPT !.windows = [k \in DOMAIN @ |-> StoredWindow(details.windows[k])]]
    [] OTHER -> details

Opened(c, t, details, f) ==
  IF c = "web" THEN WebMounted(t, details, f) ELSE PhoneCompleted(t, details, f)

\* The score that is shown, and that a save sends.
Score(c, t, details, f) ==
  IF c = "web" THEN WebScore(t, details, f) ELSE ScoreTool(t, details, f.climate)

Init ==
  /\ tool \in DOMAIN Start /\ facts \in Facts /\ client \in Client
  /\ \E details \in Start[tool] : input = Opened(client, tool, details, facts)
  /\ edits = 0

\* The checklist is saved, left, and opened again by either program.
Reopen(c, f) ==
  /\ client' = c /\ facts' = f
  /\ input' = Opened(c, tool, Stored(tool, input), f)
  /\ UNCHANGED <<tool, edits>>

\* The project is fetched again while the checklist is shown, with other facts: by
\* the page, or by the screen, which has the project before the assessment.
Refetch(f) ==
  /\ f # facts /\ facts' = f
  /\ input' = IF client = "phone" THEN PhoneCompleted(tool, input, f)
              ELSE CASE tool = "elec" -> WebElecDetails(input, f)
                     [] tool = "mech" -> WebMechDetails(input, f)
                     [] tool = "integrated" -> AfterFacts(input, input, facts, f)
                     [] OTHER -> input
  /\ UNCHANGED <<tool, client, edits>>

\* A handler of program c made next of the details.
Edit(c, next) ==
  /\ client = c /\ edits < MaxEdits
  /\ edits' = edits + 1
  /\ input' = IF c = "phone" THEN PhoneCompleted(tool, next, facts)
              ELSE CASE tool = "elec" -> WebElecDetails(next, facts)
                     [] tool = "mech" -> WebMechDetails(next, facts)
                     [] OTHER -> next
  /\ UNCHANGED <<tool, facts, client>>

-----------------------------------------------------------------------------
(* The electrical and the mechanical checklist on the web. *)
Items == IF tool = "elec" THEN ElecItem ELSE MechItem

WebAnswerRow ==
  \E r \in DOMAIN Items :
    \/ /\ Items[r].type = "bool"
       /\ \E v \in {"y", "n"} : Edit("web", WebSetResponse(input, r, "radio", v))
    \/ /\ Items[r].type = "num"
       /\ \E v \in TextNumber \ {NotNumber} : Edit("web", WebSetResponse(input, r, "number", v))
    \/ /\ Items[r].type = "text"
       /\ \E v \in Texts : Edit("web", WebSetResponse(input, r, "text", v))
    \/ /\ Items[r].type = "eff_pair"
       /\ \E v \in Texts, field \in {"eff", "rank"} :
            Edit("web", WebSetResponse(input, r, field, v))

WebAnswerTable ==
  \E r \in DOMAIN ElecItem :
    /\ ElecItem[r].type = "table"
    /\ \E k \in DOMAIN ElecItem[r].limits :
         LET checked == TableOf(ElecItem[r], input.responses[r])[k].checked
         IN \/ Edit("web", WebCheck(input, r, k, ~checked))
            \/ /\ checked
               /\ \E v \in TextNumber \ {NotNumber} : Edit("web", WebTableValue(input, r, k, v))

WebChooseSystem ==
  \E r \in DOMAIN MechItem, v \in Systems :
    /\ MechItem[r].type = "custom_select"
    /\ Edit("web", HandleSystemChange(WebSetResponse(input, r, "selectValue", v), v))

WebChooseGroup ==
  \E g \in Group \cup {"none"} : Edit("web", [input EXCEPT !.manualGroup = g])

(* And on the phone, where a number field takes any text and a row that is off
   has no fields. *)
PhoneAnswerRow ==
  \E r \in {q \in DOMAIN Items : IsRowActive(tool, input, q)} :
    \/ /\ Items[r].type = "bool"
       /\ \E v \in {"y", "n"} : Edit("phone", SetResp(input, r, "radio", v))
    \/ /\ Items[r].type = "num"
       /\ \E v \in TextNumber : Edit("phone", SetResp(input, r, "number", v))
    \/ /\ Items[r].type = "text"
       /\ \E v \in Texts : Edit("phone", SetResp(input, r, "text", v))
    \/ /\ Items[r].type = "eff_pair"
       /\ \E v \in Texts, field \in {"eff", "rank"} : Edit("phone", SetResp(input, r, field, v))

PhoneAnswerTable ==
  \E r \in {q \in DOMAIN ElecItem : IsRowActive("elec", input, q)} :
    /\ ElecItem[r].type = "table"
    /\ \E k \in DOMAIN ElecItem[r].limits :
         LET checked == PhoneTable(r, input.responses[r])[k].checked
         IN \/ Edit("phone", PhoneCheck(input, r, k, ~checked))
            \/ /\ checked
               /\ \E v \in TextNumber : Edit("phone", PhoneTableValue(input, r, k, v))

PhoneChooseSystem ==
  \E r \in {q \in DOMAIN MechItem : IsRowActive("mech", input, q)}, v \in Systems \ {""} :
    /\ MechItem[r].type = "custom_select"
    /\ Edit("phone", PhoneSystemChange(SetResp(input, r, "selectValue", v), v))

PhoneChooseGroup ==
  \E g \in Group \cup {"none"} : Edit("phone", [input EXCEPT !.manualGroup = g])

-----------------------------------------------------------------------------
(* Monitoring and integrated management. *)
Togglable == DOMAIN MonitoringItem \ AlwaysActive
ActiveRows(details) ==
  UNION {MonitoringItem[s] : s \in AlwaysActive \cup details.toggles}

WebMonitoring ==
  \/ \E s \in Togglable : Edit("web", OnToggle(input, s))
  \/ \E r \in ActiveRows(input), v \in {"y", "n"} :
       Edit("web", [input EXCEPT !.responses[r] = v])

PhoneMonitoring ==
  \/ \E s \in Togglable : Edit("phone", SetToggle(input, s))
  \/ \E r \in ActiveRows(input), v \in {"y", "n"} :
       Edit("phone", [input EXCEPT !.responses[r] = v])

WebIntegrated ==
  \/ Edit("web", ToggleLogic(input))
  \/ \E usage \in {"", "res", "pub"} :
       Edit("web", WebSetUsage(input, usage, facts))
  \/ /\ input.logicActive
     /\ \E r \in IntegratedItem, v \in {"y", "n"} :
          Edit("web", [input EXCEPT !.responses[r] = v])

PhoneIntegrated ==
  \/ Edit("phone", PhoneToggleLogic(input))
  \/ /\ input.logicActive
     /\ \E r \in IntegratedItem, v \in {"y", "n"} :
          Edit("phone", [input EXCEPT !.responses[r] = v])

-----------------------------------------------------------------------------
(* The opaque envelope. *)
WithLayer(k, j, layer) == [input EXCEPT !.analyses[k].layers[j] = layer]
WithAnalysis(k, a) == [input EXCEPT !.analyses[k] = a]

WebLayer ==
  \E k \in DOMAIN input.analyses : \E j \in DOMAIN input.analyses[k].layers :
    LET layer == input.analyses[k].layers[j]
    IN \/ \E c \in Categories :
            Edit("web", WithLayer(k, j, OnCategoryChange(layer, c)))
       \/ /\ layer.category # ""
          /\ \E i \in DOMAIN Material[layer.category] :
               Edit("web", WithLayer(k, j, OnMaterialChange(layer, i)))
       \/ /\ ~layer.fixedThickness
          /\ \E v \in Thickness \ {NotNumber} :
               Edit("web", WithLayer(k, j, OnThicknessChange(layer, v)))
       \/ Edit("web", WithAnalysis(k, WebRemoveLayer(input.analyses[k], j)))

PhoneEditLayer ==
  \E k \in DOMAIN input.analyses : \E j \in DOMAIN input.analyses[k].layers :
    LET layer == input.analyses[k].layers[j]
    IN \/ \E c \in DOMAIN Material :
            Edit("phone", WithLayer(k, j, PhoneCategoryChange(layer, c)))
       \/ /\ layer.category # ""
          /\ \E i \in DOMAIN Material[layer.category] :
               Edit("phone", WithLayer(k, j, PhoneMaterialChange(layer, i)))
       \/ /\ layer.material > 0 /\ ~layer.fixedThickness
          /\ \E v \in Thickness :
               Edit("phone", WithLayer(k, j, PhoneThicknessChange(layer, v)))
       \/ Edit("phone", WithAnalysis(k, PhoneRemoveLayer(input.analyses[k], j)))

WebAssembly ==
  \/ /\ Len(input.analyses) < MaxAnalyses
     /\ Edit("web",
             [input EXCEPT !.analyses = Append(@, CreateAnalysis("wall_ext_open"))])
  \/ \E k \in DOMAIN input.analyses :
       LET a == input.analyses[k]
       IN \/ /\ Len(a.layers) < MaxLayers
             /\ Edit("web",
                     WithAnalysis(k, [a EXCEPT !.layers = Append(@, CreateLayer)]))
          \/ \E t \in TargetKey :
               Edit("web", WithAnalysis(k, [a EXCEPT !.targetKey = t]))
          \/ /\ a.targetKey \in DOMAIN Preset
             /\ Edit("web", WithAnalysis(k, ApplyPreset(a, a.targetKey)))
          \/ Edit("web", WebRemoveAnalysis(input, k))

PhoneAssembly ==
  \/ /\ Len(input.analyses) < MaxAnalyses
     /\ Edit("phone",
             [input EXCEPT !.analyses = Append(@, PhoneAnalysis("wall_ext_open"))])
  \/ \E k \in DOMAIN input.analyses :
       LET a == input.analyses[k]
       IN \/ /\ Len(a.layers) < MaxLayers
             /\ Edit("phone",
                     WithAnalysis(k, [a EXCEPT !.layers = Append(@, PhoneLayer)]))
          \/ \E t \in TargetKey :
               Edit("phone", WithAnalysis(k, [a EXCEPT !.targetKey = t]))
          \/ /\ a.targetKey \in DOMAIN Preset
             /\ Edit("phone", WithAnalysis(k, PhoneApplyPreset(a, a.targetKey)))
          \/ Edit("phone", PhoneRemoveAnalysis(input, k))

\* Mitigation is asked for when a bridge is high.
HighBridge(bridge) == \E d \in Side : ToNum(bridge[d]) > 5

WebBridge ==
  \/ \E d \in Side, v \in Bridge \ {NotNumber} :
       Edit("web", [input EXCEPT !.bridge[d] = v])
  \/ /\ HighBridge(input.bridge)
     /\ \E v \in BOOLEAN : Edit("web", [input EXCEPT !.bridge["mitigation"] = v])
  \/ \E q \in {"q1", "q2"}, v \in {"yes", "no"} :
       Edit("web", [input EXCEPT !.shading[q] = v])

PhoneBridge ==
  \/ \E d \in Side, v \in Bridge : Edit("phone", [input EXCEPT !.bridge[d] = v])
  \/ /\ HighBridge(input.bridge)
     /\ Edit("phone", [input EXCEPT !.bridge["mitigation"] = ~@])
  \/ \E q \in {"q1", "q2"}, v \in {"yes", "no"} :
       Edit("phone", [input EXCEPT !.shading[q] = v])

-----------------------------------------------------------------------------
(* The windows. *)
WindowField ==
  {"type", "profileIdx", "l1Idx", "l2Idx", "l3Idx", "l1Th", "l2Th", "l3Th", "shgc", "pf"}

WindowValues(f, notTyped) ==
  CASE f = "type" -> WindowType
    [] f = "profileIdx" -> DOMAIN Profile
    [] f \in {"l1Idx", "l3Idx"} -> DOMAIN Glass
    [] f = "l2Idx" -> DOMAIN Gas
    [] f \in {"l1Th", "l2Th", "l3Th"} -> Thickness \ notTyped
    [] OTHER -> Factor \ notTyped

WebWindows ==
  \/ /\ Len(input.windows) < MaxWindows
     /\ \E p \in DOMAIN WindowPreset :
          Edit("web", [input EXCEPT !.windows = Append(@, CreateWindowFromPreset(p))])
  \/ \E k \in DOMAIN input.windows :
       \/ Edit("web", WebRemoveWindow(input, k))
       \/ \E f \in WindowField : \E v \in WindowValues(f, {NotNumber}) :
            Edit("web", WebUpdateWindow(input, k, f, v))

PhoneWindows ==
  \/ /\ Len(input.windows) < MaxWindows
     /\ \E p \in DOMAIN WindowPreset :
          Edit("phone", [input EXCEPT !.windows = Append(@, PhoneWindow(p))])
  \/ \E k \in DOMAIN input.windows :
       \/ Edit("phone", PhoneRemoveWindow(input, k))
       \/ \E f \in WindowField : \E v \in WindowValues(f, {}) :
            Edit("phone", PhoneUpdateWindow(input, k, f, v))

-----------------------------------------------------------------------------
Next ==
  \/ \E c \in Client, f \in Facts : Reopen(c, f)
  \/ \E f \in Facts : Refetch(f)
  \/ /\ tool \in {"elec", "mech"}
     /\ WebAnswerRow \/ WebChooseGroup \/ PhoneAnswerRow \/ PhoneChooseGroup
  \/ tool = "elec" /\ (WebAnswerTable \/ PhoneAnswerTable)
  \/ tool = "mech" /\ (WebChooseSystem \/ PhoneChooseSystem)
  \/ tool = "monitoring" /\ (WebMonitoring \/ PhoneMonitoring)
  \/ tool = "integrated" /\ (WebIntegrated \/ PhoneIntegrated)
  \/ /\ tool = "env_opaque"
     /\ WebLayer \/ PhoneEditLayer \/ WebAssembly \/ PhoneAssembly \/ WebBridge \/ PhoneBridge
  \/ tool = "env_trans" /\ (WebWindows \/ PhoneWindows)

Spec == Init /\ [][Next]_vars

-----------------------------------------------------------------------------
(* The score a component of the web works out itself is the one the shared
   scorer, which the phone and the reports use, gives for the details it reports. *)
WebScoreIsShared ==
  client = "web" => WebScore(tool, input, facts) = ScoreTool(tool, input, facts.climate)

(* The group the rows are chosen by is that of the project's present facts, or
   the one chosen by hand, whatever was stored. *)
GroupFollowsFacts ==
  tool \in {"elec", "mech"} =>
    input.group = IF input.manualGroup # "none" THEN input.manualGroup ELSE AutoGroup(facts)

(* The mechanical rows that are off are those of the system that was not chosen,
   in either program and after any change of mind. *)
LogicFollowsSystem ==
  tool = "mech" =>
    \A r \in DOMAIN MechItem : MechItem[r].type = "custom_select" =>
      input.logicOffRows = CASE input.responses[r].selectValue = "central" -> NonCentralRows
                             [] input.responses[r].selectValue = "non_central" -> CentralRows
                             [] OTHER -> {}

(* A layer counts for its material: with the resistance of the material or, while
   it has a thickness, with that of its thickness of the material. *)
RFollowsLayer ==
  tool = "env_opaque" =>
    \A k \in DOMAIN input.analyses : \A j \in DOMAIN input.analyses[k].layers :
      LET layer == input.analyses[k].layers[j]
          material == Material[layer.category][layer.material]
      IN CASE layer.material = 0 -> layer.rValue = 0
           [] layer.material > 0 /\ material.r.kind = "num" -> layer.rValue = material.r.value
           [] OTHER -> ToNum(layer.thickness) > 0 =>
                         layer.rValue = CalcLayerR(material.l, layer.thickness)

(* On the web no answer is kept for an integrated management the building does
   not need, so none comes back unseen when it does. *)
NoAnswerWhenInactive ==
  client = "web" /\ tool = "integrated" /\ ~input.logicActive => input.responses = Unanswered

(* What is stored beside the answers although it follows from something else follows
   it after any sequence of edits, in either program and after reopening in the other:
   the group from the project, the rows that are off from the heating system, the
   resistance of a layer from its material, no answer from a management that is off. *)
DependentsFollow ==
  GroupFollowsFacts /\ LogicFollowsSystem /\ RFollowsLayer /\ NoAnswerWhenInactive

(* No number that is missing or was no number is among the details. *)
HasNaN(t, details) ==
  CASE t \in {"elec", "mech"} ->
         \E r \in DOMAIN details.responses :
           LET row == details.responses[r]
           IN \/ row.number = NotNumber
              \/ \E k \in DOMAIN row.table : row.table[k].value = NotNumber
    [] t = "env_opaque" ->
         \/ \E d \in Side : details.bridge[d] = NotNumber
         \/ \E k \in DOMAIN details.analyses : \E j \in DOMAIN details.analyses[k].layers :
              details.analyses[k].layers[j].thickness = NotNumber
    [] t = "env_trans" ->
         \E k \in DOMAIN details.windows : \E f \in WindowNumber : details.windows[k][f] = NotNumber
    [] OTHER -> FALSE
Complete(t, details) ==
  /\ ~HasNaN(t, details)
  /\ t = "env_trans" => \A k \in DOMAIN details.windows : details.windows[k].shgc.kind = "num"

(* A report says the same of the stored details as the score stored with them. *)
ReportsAgree ==
  Complete(tool, input) =>
    ReportScore(tool, Stored(tool, input), facts.climate) = Score(client, tool, input, facts)

(* checklistReport.ts:2 "Canonical scores come straight from the matching scorer
   so report numbers can never disagree with the stored score": the report of the
   questionnaires, for any details that were stored. *)
ReportNumbersNeverDisagree ==
  tool \in {"elec", "mech", "monitoring", "integrated"} =>
    ScoreTool(tool, Stored(tool, input), facts.climate) = Score(client, tool, input, facts)

(* windowsReport.ts:2 "Reuses calcWindowU + the scorer's limits so per-window
   U/SHGC and pass match scoreEnvTrans exactly": for any windows. *)
WindowsMatchExactly ==
  tool = "env_trans" =>
    BuildEnvTransReport(input, facts.climate) = ScoreEnvTrans(input, facts.climate)

(* Opening a checklist again, in either program, does not change its score, unless
   the facts have changed, a number was none, or the web works out that the
   building needs the integrated management that was chosen by hand, or not. *)
ReopenKeepsScore ==
  [][ /\ UNCHANGED <<facts, edits>> /\ ~HasNaN(tool, input)
      /\ tool = "integrated" /\ client' = "web" =>
           input.logicActive = GetIntegratedAutoActivation(
             IF input.usage = "unset" THEN facts.usage ELSE input.usage, facts)
      => Score(client', tool, input', facts) = Score(client, tool, input, facts) ]_vars
=============================================================================
