----------------------- MODULE ChecklistEditing_proofs -----------------------
(* The three implementations of the six checklists agree, for every catalogue: the score
   of the web page, of the shared library and of the printed report, whatever was entered
   with whichever program, and what is kept beside an answer follows it.

   EditInv is inductive: the details are of their type, and Consistent with themselves and
   with the facts (Good).  One part of the module shows that the programs agree on details
   that are Good; the other that each handler leaves the details Good, and so do the store,
   the mount of either program and other facts. *)
EXTENDS ChecklistEditing, SequenceTheorems, TLAPS

-----------------------------------------------------------------------------
\* The groups of buildings.
LEMMA GroupsAre == Group = {"A", "B", "Bp", "C", "Cp", "Cpp", "D"}
BY DEF Group, GroupOrder

\* The group of a building is one of the seven, whatever its project says.
LEMMA CurrentIsGroup ==
  ASSUME NEW m \in Group \cup {"none"}, NEW f PROVE CurrentGroup(m, f) \in Group
BY GroupsAre DEF CurrentGroup, AutoGroup, CalcBuildingGroup

\* The details of the two questionnaires with the group the rows are chosen by.
InGroup(d, f) ==
  /\ d.manualGroup \in Group \cup {"none"} /\ d.group = CurrentGroup(d.manualGroup, f)

LEMMA GroupIsRead == ASSUME NEW d, NEW f, InGroup(d, f) PROVE InputGroup(d) = CurrentGroup(d.manualGroup, f)
<1>1. d.group \in Group
  BY CurrentIsGroup DEF InGroup
<1>. QED  BY <1>1, GroupsAre DEF InGroup, InputGroup

-----------------------------------------------------------------------------
\* The scores the web works out.
LEMMA WebElecShared ==
  ASSUME NEW d, NEW f, InGroup(d, f)
  PROVE  WebElecScore(d.manualGroup, d.responses, f) = ScoreElec(d)
<1>. DEFINE active(s) == {r \in DOMAIN ElecItem :
                       ElecItem[r].section = s /\ ElecItem[r].tag \notin ElecOff(InputGroup(d))}
            passes(r) == ElecRowPasses(ElecItem[r], d.responses[r])
            shared == [s \in DOMAIN ElecMax |->
                         IF active(s) # {} /\ \A r \in active(s) : passes(r)
                         THEN ElecMax[s] ELSE 0]
            evaluates(r) == WebEvaluateRow(ElecItem[r], d.responses[r])
            web == [s \in DOMAIN ElecMax |->
                      IF active(s) # {} /\ \A r \in active(s) : evaluates(r)
                      THEN ElecMax[s] ELSE 0]
<1>1. ScoreElec(d) = SumFunction(shared)
  BY DEF ScoreElec
<1>2. WebElecScore(d.manualGroup, d.responses, f) = SumFunction(web)
  BY GroupIsRead DEF WebElecScore
<1>3. \A r : evaluates(r) <=> passes(r)
  BY DEF WebEvaluateRow, ElecRowPasses
<1>4. web = shared
  BY <1>3
<1>. QED  BY <1>1, <1>2, <1>4

LEMMA WebMechShared ==
  ASSUME NEW d, NEW f, InGroup(d, f)
  PROVE  WebMechScore(d.manualGroup, d.responses, d.logicOffRows, f) = ScoreMech(d)
<1>. DEFINE active(s) == {r \in DOMAIN MechItem :
                      /\ MechItem[r].section = s /\ r \notin d.logicOffRows
                      /\ GetGroupIndex(InputGroup(d)) >= GetGroupIndex(MechItem[r].minG)}
            passed(s) == {r \in active(s) : MechRowPasses(MechItem[r], d.responses[r])}
            shared == [s \in DOMAIN MechMax |-> IF active(s) = passed(s) THEN MechMax[s] ELSE 0]
            listed(s) == {r \in DOMAIN MechItem \ d.logicOffRows :
                      MechItem[r].section = s
                      /\ GetGroupIndex(InputGroup(d)) >= GetGroupIndex(MechItem[r].minG)}
            failed(s) == {r \in listed(s) : ~WebGetRowPass(MechItem[r], d.responses[r])}
            web == [s \in DOMAIN MechMax |-> IF failed(s) = {} THEN MechMax[s] ELSE 0]
<1>1. ScoreMech(d) = SumFunction(shared)
  BY DEF ScoreMech
<1>2. WebMechScore(d.manualGroup, d.responses, d.logicOffRows, f) = SumFunction(web)
  BY GroupIsRead DEF WebMechScore
<1>3. \A r : WebGetRowPass(MechItem[r], d.responses[r]) <=> MechRowPasses(MechItem[r], d.responses[r])
  BY DEF WebGetRowPass, MechRowPasses
<1>4. \A s : listed(s) = active(s)
  OBVIOUS
<1>5. \A s : failed(s) = {} <=> active(s) = passed(s)
  BY <1>3, <1>4
<1>6. web = shared
  BY <1>5
<1>. QED  BY <1>1, <1>2, <1>6

LEMMA RoundedInt == ASSUME NEW n \in Int, NEW m \in Int, m > 0 PROVE Rounded(n, m) \in Int
BY DEF Rounded

LEMMA TargetInt ==
  ASSUME NEW k \in DOMAIN OpaqueTargetBy3B, NEW climate
  PROVE  OpaqueTargetR(k, climate) \in Int
<1>1. \A c \in DOMAIN OpaqueBaseR : OpaqueBaseR[c] \in Nat \ {0}
  BY DEF OpaqueBaseR
<1>2. OpaqueTargetBy3B[k] \in Nat \ {0}
  BY DEF OpaqueTargetBy3B
<1>3. "3B" \in DOMAIN OpaqueBaseR
  BY DEF OpaqueBaseR
<1>4. PICK n \in Nat \ {0} : n = OpaqueBaseR[IF climate \in DOMAIN OpaqueBaseR THEN climate ELSE "3B"]
  BY <1>1, <1>3
<1>5. PICK b \in Nat \ {0} : b = OpaqueBaseR["3B"]
  BY <1>1, <1>3
<1>6. PICK m \in Int : m = n * OpaqueTargetBy3B[k]
  BY <1>2
<1>7. Rounded(m, b) \in Int
  BY RoundedInt
<1>. QED  BY <1>4, <1>5, <1>6, <1>7 DEF OpaqueTargetR

LEMMA WebOpaqueShared ==
  ASSUME NEW d \in Details("env_opaque"), NEW climate
  PROVE  WebOpaqueScore(d, climate) = ScoreEnvOpaque(d, climate)
<1>1. /\ d.analyses \in Seq(Assembly) /\ \A s \in Side : d.bridge[s] \in Number
      /\ d.bridge.mitigation \in BOOLEAN
  BY DEF Details, Side
<1>2. \A k \in DOMAIN d.analyses : d.analyses[k].targetKey \in DOMAIN OpaqueTargetBy3B
  <2>1. \A k \in DOMAIN d.analyses : d.analyses[k] \in Assembly
    BY <1>1
  <2>2. \A a \in Assembly : a.targetKey \in DOMAIN OpaqueTargetBy3B
    BY DEF Assembly
  <2>. QED  BY <2>1, <2>2
<1>3. \A k \in DOMAIN d.analyses :
        OpaqueTargetR(d.analyses[k].targetKey, climate) * 10
          = 10 * OpaqueTargetR(d.analyses[k].targetKey, climate)
  BY <1>2, TargetInt
<1>. DEFINE web == /\ d.analyses # << >>
                   /\ \A k \in DOMAIN d.analyses :
                        OpaqueTargetR(d.analyses[k].targetKey, climate) * 10 < SumR(d.analyses[k].layers)
            bridge == /\ ~\E s \in Side : d.bridge[s].kind \in {"null", "absent"}
                      /\ (\E s \in Side : ToNum(d.bridge[s]) > 5) => d.bridge.mitigation
            asked == d.shading.q1 = "yes" \/ d.shading.q2 = "yes"
<1>4. web <=> EnvelopePasses(d.analyses, climate)
  BY <1>3 DEF EnvelopePasses
<1>5. bridge <=> BridgePasses(d.bridge)
  BY DEF BridgePasses
<1>6. asked <=> "yes" \in {d.shading.q1, d.shading.q2}
  OBVIOUS
<1>7. WebOpaqueScore(d, climate) = (IF web /\ bridge THEN 90 ELSE 0) + (IF asked THEN 15 ELSE 0)
  BY DEF WebOpaqueScore
<1>. HIDE DEF web, bridge, asked
<1>. QED  BY <1>4, <1>5, <1>6, <1>7 DEF ScoreEnvOpaque

-----------------------------------------------------------------------------
LEMMA LayerRShared ==
  ASSUME NEW l \in Nat, NEW x \in Number
  PROVE  /\ WebCalcLayerR(l, x) = CalcLayerR(l, x)
         /\ CalcLayerR(l, x) \in Nat
<1>1. x.kind \in {"absent", "null", "nan", "num"} /\ x.value \in Int
  BY DEF Number
<1>2. ToNum(x) \in Int
  BY <1>1 DEF ToNum
<1>3. WebCalcLayerR(l, x) = CalcLayerR(l, x)
  BY <1>1 DEF WebCalcLayerR, CalcLayerR, ToNum, IsFinite
<1>4. CASE ~(l > 0 /\ ToNum(x) > 0)
  BY <1>3, <1>4 DEF CalcLayerR
<1>5. CASE l > 0 /\ ToNum(x) > 0
  <2>1. PICK n \in Nat : n = ToNum(x) * 1000
    BY <1>2, <1>5
  <2>2. (2 * n + l) \div (2 * l) \in Nat
    BY <1>5
  <2>. QED  BY <1>3, <1>5, <2>1, <2>2 DEF CalcLayerR, Rounded
<1>. QED  BY <1>4, <1>5

LEMMA WindowUShared ==
  ASSUME NEW w \in Window PROVE WebCalcWindowU(w) = CalcWindowU(w) /\ CalcWindowU(w) \in Int
<1>1. /\ Glass[w.l1Idx] \in Nat /\ Gas[w.l2Idx] \in Nat /\ Glass[w.l3Idx] \in Nat
      /\ Profile[w.profileIdx] \in Nat
      /\ w.l1Th \in Number /\ w.l2Th \in Number /\ w.l3Th \in Number
  BY GlazingAssumption DEF Window
<1>2. PICK a \in Nat : a = CalcLayerR(Glass[w.l1Idx], w.l1Th)
  BY <1>1, LayerRShared
<1>3. PICK b \in Nat : b = CalcLayerR(Gas[w.l2Idx], w.l2Th)
  BY <1>1, LayerRShared
<1>4. PICK c \in Nat : c = CalcLayerR(Glass[w.l3Idx], w.l3Th)
  BY <1>1, LayerRShared
<1>5. /\ WebCalcLayerR(Glass[w.l1Idx], w.l1Th) = a /\ WebCalcLayerR(Gas[w.l2Idx], w.l2Th) = b
      /\ WebCalcLayerR(Glass[w.l3Idx], w.l3Th) = c
  BY <1>1, <1>2, <1>3, <1>4, LayerRShared
<1>6. PICK r \in Nat : r = 170 + a + b + c
  OBVIOUS
<1>7. PICK u \in Nat : u = Profile[w.profileIdx]
  BY <1>1
<1>8. PICK n \in Int : n = 400000 + u * r
  OBVIOUS
<1>9. Rounded(100000, r) \in Int /\ Rounded(n, 5 * r) \in Int
  BY <1>6, RoundedInt
<1>10. CalcWindowU(w) = IF u = 0 THEN Rounded(100000, r) ELSE Rounded(n, 5 * r)
  BY <1>2, <1>3, <1>4, <1>6, <1>7, <1>8 DEF CalcWindowU
<1>11. WebCalcWindowU(w) = IF u = 0 THEN Rounded(100000, r) ELSE Rounded(n, 5 * r)
  BY <1>5, <1>6, <1>7, <1>8 DEF WebCalcWindowU
<1>. QED  BY <1>9, <1>10, <1>11

LEMMA WebTransShared ==
  ASSUME NEW d \in Details("env_trans"), NEW climate
  PROVE  WebTransScore(d, climate) = ScoreEnvTrans(d, climate)
<1>1. d.windows \in Seq(Window)
  BY DEF Details
<1>. DEFINE u(k) == CalcWindowU(d.windows[k])
            limit(k) == TransULimit(d.windows[k].type)
            shgc(k) == /\ IsFinite(d.windows[k].shgc)
                       /\ d.windows[k].shgc.value <= TransShgcLimit(climate, ToNum(d.windows[k].pf))
<1>2. \A k \in DOMAIN d.windows : u(k) \in Int /\ WebCalcWindowU(d.windows[k]) = u(k)
  BY <1>1, WindowUShared
<1>3. \A k : limit(k) \in Int
  BY DEF TransULimit
<1>4. \A k \in DOMAIN d.windows : u(k) \in 1..limit(k) <=> u(k) > 0 /\ u(k) <= limit(k)
  BY <1>2, <1>3
<1>5. WebTransScore(d, climate) =
        IF d.windows # << >> /\ \A k \in DOMAIN d.windows :
             (WebCalcWindowU(d.windows[k]) > 0 /\ WebCalcWindowU(d.windows[k]) <= limit(k)) /\ shgc(k)
        THEN 93 ELSE 0
  BY DEF WebTransScore
<1>6. ScoreEnvTrans(d, climate) =
        IF d.windows # << >> /\ \A k \in DOMAIN d.windows : u(k) \in 1..limit(k) /\ shgc(k)
        THEN 93 ELSE 0
  BY DEF ScoreEnvTrans
<1>. HIDE DEF u, limit, shgc
<1>. QED  BY <1>2, <1>4, <1>5, <1>6

LEMMA WebMonitoringShared ==
  ASSUME NEW d \in Details("monitoring") PROVE WebMonitoringScore(d) = ScoreMonitoring(d)
<1>1. AlwaysActive \cup d.toggles \subseteq DOMAIN MonitoringItem
  BY RowsAssumption DEF Details
<1>2. {s \in DOMAIN MonitoringItem : s \in AlwaysActive \/ s \in d.toggles} = AlwaysActive \cup d.toggles
  BY <1>1
<1>. QED  BY <1>2 DEF WebMonitoringScore, ScoreMonitoring

-----------------------------------------------------------------------------
\* What the programs make of the details: the type, what they keep, the group of the present
\* facts, something to show, and no answers of an integrated management that is off.
Good(c, t, d, f) ==
  /\ d \in Details(t) /\ Consistent(t, d)
  /\ t \in {"elec", "mech"} => d.group = CurrentGroup(d.manualGroup, f)
  /\ t = "env_opaque" => d.analyses # << >>
  /\ t = "env_trans" => d.windows # << >>
  /\ c = "web" /\ t = "integrated" /\ ~d.logicActive => d.responses = Unanswered

\* The inductive invariant.
EditInv ==
  /\ tool \in Tools /\ facts \in Facts /\ client \in Client /\ edits \in Nat
  /\ Good(client, tool, input, facts)

\* The web shows what the shared scorer gives.
LEMMA WebShared ==
  ASSUME NEW t \in Tools, NEW d, NEW f, Good("web", t, d, f)
  PROVE  WebScore(t, d, f) = ScoreTool(t, d, f.climate)
<1>1. CASE t \in {"elec", "mech"}
  <2>1. InGroup(d, f)
    BY <1>1 DEF Good, InGroup, Details, Sheet
  <2>. QED  BY <1>1, <2>1, WebElecShared, WebMechShared DEF WebScore, ScoreTool
<1>2. CASE t = "env_opaque"
  BY <1>2, WebOpaqueShared DEF Good, WebScore, ScoreTool
<1>3. CASE t = "env_trans"
  BY <1>3, WebTransShared DEF Good, WebScore, ScoreTool
<1>4. CASE t = "monitoring"
  BY <1>4, WebMonitoringShared DEF Good, WebScore, ScoreTool
<1>5. CASE t = "integrated"
  BY <1>5 DEF WebScore, ScoreTool
<1>. QED  BY <1>1, <1>2, <1>3, <1>4, <1>5 DEF Tools

\* What is shown is what the shared scorer gives, in either program.
LEMMA ScoreShared ==
  ASSUME NEW c \in Client, NEW t \in Tools, NEW d, NEW f, Good(c, t, d, f)
  PROVE  Score(c, t, d, f) = ScoreTool(t, d, f.climate)
BY EditingAssumption, WebShared DEF Score

-----------------------------------------------------------------------------
\* Details without a number that was none are stored as they are.
LEMMA NumberStored ==
  ASSUME NEW x \in Number PROVE StoredNumber(x) \in Number /\ ToNum(StoredNumber(x)) = ToNum(x)
BY DEF StoredNumber, Number, Null, ToNum, IsFinite

LEMMA NumberKept ==
  ASSUME NEW x \in Number, x # NotNumber PROVE StoredNumber(x) = x
BY DEF StoredNumber, Number, NotNumber

\* Two sequences that agree everywhere.
LEMMA SameSequence ==
  ASSUME NEW S, NEW s \in Seq(S), NEW g, g = [k \in DOMAIN s |-> g[k]],
         \A k \in DOMAIN s : g[k] = s[k]
  PROVE  g = s
<1>1. s = [k \in DOMAIN s |-> s[k]]
  OBVIOUS
<1>. QED  BY <1>1, Zenon

\* A row, a layer and a window.
LEMMA RowKept ==
  ASSUME NEW row \in RowState, row.number # NotNumber,
         \A k \in DOMAIN row.table : row.table[k].value # NotNumber
  PROVE  StoredRow(row) = row
<1>1. row.number \in Number /\ row.table \in Seq(TableEntry)
  BY DEF RowState
<1>2. StoredNumber(row.number) = row.number
  BY <1>1, NumberKept
<1>3. ASSUME NEW k \in DOMAIN row.table
      PROVE  [row.table[k] EXCEPT !.value = StoredNumber(row.table[k].value)] = row.table[k]
  <2>1. row.table[k] \in TableEntry
    BY <1>1
  <2>2. StoredNumber(row.table[k].value) = row.table[k].value
    BY <2>1, NumberKept DEF TableEntry
  <2>. QED  BY <2>1, <2>2 DEF TableEntry
<1>4. [k \in DOMAIN row.table |->
         [row.table[k] EXCEPT !.value = StoredNumber(row.table[k].value)]] = row.table
  <2>. DEFINE table == [k \in DOMAIN row.table |->
                 [row.table[k] EXCEPT !.value = StoredNumber(row.table[k].value)]]
  <2>1. table = [k \in DOMAIN row.table |-> table[k]]
    OBVIOUS
  <2>2. \A k \in DOMAIN row.table : table[k] = row.table[k]
    BY <1>3
  <2>. HIDE DEF table
  <2>3. table = row.table
    BY <1>1, <2>1, <2>2, SameSequence
  <2>. QED  BY <2>3 DEF table
<1>5. [row EXCEPT !.number = row.number, !.table = row.table] = row
  BY DEF RowState
<1>. QED  BY <1>2, <1>4, <1>5 DEF StoredRow

LEMMA LayerKept ==
  ASSUME NEW layer \in Layer, layer.thickness # NotNumber
  PROVE  [layer EXCEPT !.thickness = StoredNumber(layer.thickness)] = layer
<1>1. StoredNumber(layer.thickness) = layer.thickness
  BY NumberKept DEF Layer
<1>. QED  BY <1>1 DEF Layer

LEMMA AssemblyKept ==
  ASSUME NEW a \in Assembly,
         \A j \in DOMAIN a.layers : a.layers[j].thickness # NotNumber
  PROVE  StoredAssembly(a) = a
<1>1. a.layers \in Seq(Layer)
  BY DEF Assembly
<1>2. \A j \in DOMAIN a.layers :
        [a.layers[j] EXCEPT !.thickness = StoredNumber(a.layers[j].thickness)] = a.layers[j]
  BY <1>1, LayerKept
<1>3. [j \in DOMAIN a.layers |->
         [a.layers[j] EXCEPT !.thickness = StoredNumber(a.layers[j].thickness)]] = a.layers
  <2>. DEFINE layers == [j \in DOMAIN a.layers |->
                 [a.layers[j] EXCEPT !.thickness = StoredNumber(a.layers[j].thickness)]]
  <2>1. layers = [j \in DOMAIN a.layers |-> layers[j]]
    OBVIOUS
  <2>2. \A j \in DOMAIN a.layers : layers[j] = a.layers[j]
    BY <1>2
  <2>. HIDE DEF layers
  <2>3. layers = a.layers
    BY <1>1, <2>1, <2>2, SameSequence
  <2>. QED  BY <2>3 DEF layers
<1>4. [a EXCEPT !.layers = a.layers] = a
  BY DEF Assembly
<1>. QED  BY <1>3, <1>4 DEF StoredAssembly

LEMMA WindowKept ==
  ASSUME NEW w \in Window, \A n \in WindowNumber : w[n] # NotNumber
  PROVE  StoredWindow(w) = w
<1>1. /\ w.l1Th \in Number /\ w.l2Th \in Number /\ w.l3Th \in Number
      /\ w.shgc \in Number /\ w.pf \in Number
  BY DEF Window
<1>2. \A n \in WindowNumber : w[n] \in Number
  BY <1>1 DEF WindowNumber
<1>3. \A n \in WindowNumber : StoredNumber(w[n]) = w[n]
  BY <1>2, NumberKept
<1>4. w = [n \in DOMAIN w |-> w[n]]
  BY DEF Window
<1>. QED  BY <1>3, <1>4 DEF StoredWindow

LEMMA StoredKept ==
  ASSUME NEW t \in Tools, NEW d \in Details(t), ~HasNaN(t, d)
  PROVE  Stored(t, d) = d
<1>1. ASSUME NEW items, d \in Sheet(items), t \in {"elec", "mech"} PROVE Stored(t, d) = d
  <2>1. d.responses \in [DOMAIN items -> RowState]
    BY <1>1 DEF Sheet
  <2>2. \A r \in DOMAIN d.responses :
          /\ d.responses[r].number # NotNumber
          /\ \A k \in DOMAIN d.responses[r].table : d.responses[r].table[k].value # NotNumber
    BY <1>1 DEF HasNaN
  <2>3. \A r \in DOMAIN d.responses : StoredRow(d.responses[r]) = d.responses[r]
    BY <2>1, <2>2, RowKept
  <2>4. [r \in DOMAIN d.responses |-> StoredRow(d.responses[r])] = d.responses
    BY <2>1, <2>3
  <2>5. [d EXCEPT !.responses = d.responses] = d
    BY <1>1 DEF Sheet
  <2>6. Stored(t, d) = [d EXCEPT !.responses = [r \in DOMAIN d.responses |-> StoredRow(d.responses[r])]]
    BY <1>1 DEF Stored
  <2>. QED  BY <2>4, <2>5, <2>6
<1>2. CASE t = "env_opaque"
  <2>1. d.analyses \in Seq(Assembly)
    BY <1>2 DEF Details
  <2>2. \A k \in DOMAIN d.analyses : StoredAssembly(d.analyses[k]) = d.analyses[k]
    BY <1>2, <2>1, AssemblyKept DEF HasNaN
  <2>3. [k \in DOMAIN d.analyses |-> StoredAssembly(d.analyses[k])] = d.analyses
    BY <2>1, <2>2
  <2>4. \A s \in Side : d.bridge[s] \in Number
    BY <1>2 DEF Details, Side
  <2>5. \A s \in Side : StoredNumber(d.bridge[s]) = d.bridge[s]
    BY <1>2, <2>4, NumberKept DEF HasNaN
  <2>6. d.bridge = [s \in DOMAIN d.bridge |-> d.bridge[s]]
    BY <1>2 DEF Details
  <2>7. [s \in DOMAIN d.bridge |-> IF s \in Side THEN StoredNumber(d.bridge[s]) ELSE d.bridge[s]]
          = d.bridge
    BY <2>5, <2>6
  <2>8. [d EXCEPT !.analyses = d.analyses, !.bridge = d.bridge] = d
    BY <1>2 DEF Details
  <2>9. Stored(t, d) = [d EXCEPT
          !.analyses = [k \in DOMAIN d.analyses |-> StoredAssembly(d.analyses[k])],
          !.bridge = [s \in DOMAIN d.bridge |-> IF s \in Side THEN StoredNumber(d.bridge[s])
                                                ELSE d.bridge[s]]]
    BY <1>2 DEF Stored
  <2>. QED  BY <2>3, <2>7, <2>8, <2>9
<1>3. CASE t = "env_trans"
  <2>1. d.windows \in Seq(Window)
    BY <1>3 DEF Details
  <2>2. \A k \in DOMAIN d.windows : StoredWindow(d.windows[k]) = d.windows[k]
    BY <1>3, <2>1, WindowKept DEF HasNaN
  <2>3. [k \in DOMAIN d.windows |-> StoredWindow(d.windows[k])] = d.windows
    BY <2>1, <2>2
  <2>4. [d EXCEPT !.windows = d.windows] = d
    BY <1>3 DEF Details
  <2>5. Stored(t, d) = [d EXCEPT !.windows = [k \in DOMAIN d.windows |-> StoredWindow(d.windows[k])]]
    BY <1>3 DEF Stored
  <2>. QED  BY <2>3, <2>4, <2>5
<1>4. CASE t \in {"monitoring", "integrated"}
  BY <1>4 DEF Stored
<1>5. t = "elec" => d \in Sheet(ElecItem)
  BY DEF Details
<1>6. t = "mech" => d \in Sheet(MechItem)
  BY DEF Details
<1>. QED  BY <1>1, <1>2, <1>3, <1>4, <1>5, <1>6 DEF Tools

-----------------------------------------------------------------------------
\* What the reports of the four questionnaires list is what the scorers count.
LEMMA MechReported ==
  ASSUME NEW d PROVE RowsScore("mech", d) = ScoreMech(d)
<1>. DEFINE listed == {q \in DOMAIN MechItem \ d.logicOffRows :
                         GetGroupIndex(InputGroup(d)) >= GetGroupIndex(MechItem[q].minG)}
            row(r) == [section |-> MechItem[r].section,
                       pass |-> ReportMechRowPass(MechItem[r], d.responses[r]), row |-> r]
            rows == {row(r) : r \in listed}
            active(s) == {r \in DOMAIN MechItem :
                            /\ MechItem[r].section = s /\ r \notin d.logicOffRows
                            /\ GetGroupIndex(InputGroup(d)) >= GetGroupIndex(MechItem[r].minG)}
            passed(s) == {r \in active(s) : MechRowPasses(MechItem[r], d.responses[r])}
            shared == [s \in DOMAIN MechMax |-> IF active(s) = passed(s) THEN MechMax[s] ELSE 0]
            reported == [s \in DOMAIN MechMax |-> IF AllRowsPass(rows, s) THEN MechMax[s] ELSE 0]
<1>1. ScoreMech(d) = SumFunction(shared)
  BY DEF ScoreMech
<1>2. RowsScore("mech", d) = SumFunction(reported)
  BY DEF RowsScore, BuildMechReport
<1>3. ASSUME NEW r \in DOMAIN MechItem
      PROVE  ReportMechRowPass(MechItem[r], d.responses[r]) <=> MechRowPasses(MechItem[r], d.responses[r])
  <2>1. MechItem[r].type \in {"bool", "num", "text", "eff_pair", "custom_select"}
    BY RowsAssumption DEF RowType
  <2>. QED  BY <2>1 DEF ReportMechRowPass, MechRowPasses, InRange
<1>4. ASSUME NEW s PROVE AllRowsPass(rows, s) <=> active(s) = passed(s)
  <2>1. AllRowsPass(rows, s) <=>
          \A r \in listed : MechItem[r].section = s =>
            ReportMechRowPass(MechItem[r], d.responses[r])
    <3>1. \A r : row(r).section = MechItem[r].section
      OBVIOUS
    <3>2. \A r : row(r).pass <=> ReportMechRowPass(MechItem[r], d.responses[r])
      OBVIOUS
    <3>. HIDE DEF row, listed
    <3>3. AllRowsPass(rows, s) <=> \A r \in listed : row(r).section = s => row(r).pass
      BY Zenon DEF AllRowsPass
    <3>. QED  BY <3>1, <3>2, <3>3
  <2>2. active(s) = passed(s) <=>
          \A r \in active(s) : MechRowPasses(MechItem[r], d.responses[r])
    OBVIOUS
  <2>3. active(s) = {r \in listed : MechItem[r].section = s}
    OBVIOUS
  <2>. QED  BY <1>3, <2>1, <2>2, <2>3
<1>5. reported = shared
  BY <1>4
<1>. QED  BY <1>1, <1>2, <1>5

LEMMA ElecReported ==
  ASSUME NEW d PROVE RowsScore("elec", d) = ScoreElec(d)
<1>. DEFINE listed == {q \in DOMAIN ElecItem : ElecItem[q].tag \notin ElecOff(InputGroup(d))}
            row(r) == [section |-> ElecItem[r].section,
                       pass |-> ReportElecRowPass(ElecItem[r], d.responses[r]), row |-> r]
            rows == {row(r) : r \in listed}
            active(s) == {r \in DOMAIN ElecItem :
                       ElecItem[r].section = s /\ ElecItem[r].tag \notin ElecOff(InputGroup(d))}
            shared == [s \in DOMAIN ElecMax |->
                         IF active(s) # {} /\ \A r \in active(s) :
                              ElecRowPasses(ElecItem[r], d.responses[r])
                         THEN ElecMax[s] ELSE 0]
            reported == [s \in DOMAIN ElecMax |->
                           IF AllRowsPass(rows, s) /\ Listed(rows, s) THEN ElecMax[s] ELSE 0]
<1>1. ScoreElec(d) = SumFunction(shared)
  BY DEF ScoreElec
<1>2. RowsScore("elec", d) = SumFunction(reported)
  BY DEF RowsScore, BuildElecReport
<1>3. ASSUME NEW r \in DOMAIN ElecItem
      PROVE  ReportElecRowPass(ElecItem[r], d.responses[r]) <=> ElecRowPasses(ElecItem[r], d.responses[r])
  <2>1. ElecItem[r].type \in {"bool", "num", "table"}
    BY RowsAssumption
  <2>. QED  BY <2>1 DEF ReportElecRowPass, ElecRowPasses, InRange
<1>4. ASSUME NEW s
      PROVE  (AllRowsPass(rows, s) /\ Listed(rows, s)) <=>
               (active(s) # {} /\ \A r \in active(s) : ElecRowPasses(ElecItem[r], d.responses[r]))
  <2>1. AllRowsPass(rows, s) <=>
          \A r \in listed : ElecItem[r].section = s =>
            ReportElecRowPass(ElecItem[r], d.responses[r])
    <3>1. \A r : row(r).section = ElecItem[r].section
      OBVIOUS
    <3>2. \A r : row(r).pass <=> ReportElecRowPass(ElecItem[r], d.responses[r])
      OBVIOUS
    <3>. HIDE DEF row, listed
    <3>3. AllRowsPass(rows, s) <=> \A r \in listed : row(r).section = s => row(r).pass
      BY Zenon DEF AllRowsPass
    <3>. QED  BY <3>1, <3>2, <3>3
  <2>2. Listed(rows, s) <=> \E r \in listed : ElecItem[r].section = s
    <3>1. \A r : row(r).section = ElecItem[r].section
      OBVIOUS
    <3>. HIDE DEF row, listed
    <3>. QED  BY <3>1 DEF Listed
  <2>3. active(s) = {r \in listed : ElecItem[r].section = s}
    OBVIOUS
  <2>. QED  BY <1>3, <2>1, <2>2, <2>3
<1>5. reported = shared
  BY <1>4
<1>. QED  BY <1>1, <1>2, <1>5

LEMMA MonitoringReported ==
  ASSUME NEW d PROVE RowsScore("monitoring", d) = ScoreMonitoring(d)
<1>. DEFINE sections == AlwaysActive \cup d.toggles
            row(s, r) == [section |-> s, pass |-> d.responses[r] = "y", row |-> r]
<1>1. BuildMonitoringReport(d) = UNION {{row(s, r) : r \in MonitoringItem[s]} : s \in sections}
  BY DEF BuildMonitoringReport
<1>2. \A s, r : row(s, r).pass <=> d.responses[r] = "y"
  OBVIOUS
<1>3. (\A x \in BuildMonitoringReport(d) : x.pass) <=>
        \A s \in sections : \A r \in MonitoringItem[s] : d.responses[r] = "y"
  <2>. HIDE DEF row, sections
  <2>. QED  BY <1>1, <1>2
<1>. QED  BY <1>3 DEF RowsScore, ScoreMonitoring

LEMMA IntegratedReported ==
  ASSUME NEW d PROVE RowsScore("integrated", d) = ScoreIntegrated(d)
<1>. DEFINE row(r) == [section |-> "integrated", pass |-> d.responses[r] = "y", row |-> r]
<1>1. BuildIntegratedReport(d) = IF d.logicActive THEN {row(r) : r \in IntegratedItem} ELSE {}
  BY DEF BuildIntegratedReport
<1>2. \A r : row(r).pass <=> d.responses[r] = "y"
  OBVIOUS
<1>3. (\A x \in BuildIntegratedReport(d) : x.pass) <=>
        (~d.logicActive \/ \A r \in IntegratedItem : d.responses[r] = "y")
  <2>. HIDE DEF row
  <2>. QED  BY <1>1, <1>2
<1>. QED  BY <1>3 DEF RowsScore, ScoreIntegrated

\* The two envelope reports work the score out again.
LEMMA OpaqueReported ==
  ASSUME NEW d \in Details("env_opaque"), NEW climate
  PROVE  BuildEnvOpaqueReport(d, climate) = ScoreEnvOpaque(d, climate)
<1>1. d.analyses \in Seq(Assembly) /\ \A s \in Side : d.bridge[s] \in Number
  BY DEF Details, Side
<1>. DEFINE envelope == /\ Len(d.analyses) > 0
                        /\ \A k \in DOMAIN d.analyses :
                             SumR(d.analyses[k].layers)
                               > 10 * OpaqueTargetR(d.analyses[k].targetKey, climate)
            defined == \A s \in Side : d.bridge[s].kind \in {"num", "nan"}
            high == defined /\ \E s \in Side : ToNum(d.bridge[s]) > 5
            bridge == defined /\ (~high \/ d.bridge.mitigation)
            asked == "yes" \in {d.shading.q1, d.shading.q2}
<1>2. envelope <=> EnvelopePasses(d.analyses, climate)
  <2>1. Len(d.analyses) > 0 <=> d.analyses # << >>
    BY <1>1
  <2>. QED  BY <2>1 DEF EnvelopePasses
<1>3. defined <=> \A s \in Side : d.bridge[s].kind \notin {"null", "absent"}
  BY <1>1 DEF Number
<1>4. bridge <=> BridgePasses(d.bridge)
  BY <1>3 DEF BridgePasses
<1>5. BuildEnvOpaqueReport(d, climate)
        = (IF envelope /\ bridge THEN 90 ELSE 0) + (IF asked THEN 15 ELSE 0)
  BY DEF BuildEnvOpaqueReport
<1>. HIDE DEF envelope, bridge
<1>. QED  BY <1>2, <1>4, <1>5 DEF ScoreEnvOpaque

LEMMA TransReported ==
  ASSUME NEW d \in Details("env_trans"), NEW climate,
         \A k \in DOMAIN d.windows : d.windows[k].shgc.kind = "num"
  PROVE  BuildEnvTransReport(d, climate) = ScoreEnvTrans(d, climate)
<1>1. d.windows \in Seq(Window)
  BY DEF Details
<1>. DEFINE u(k) == CalcWindowU(d.windows[k])
            limit(k) == TransULimit(d.windows[k].type)
            within(k) == d.windows[k].shgc.value <= TransShgcLimit(climate, ToNum(d.windows[k].pf))
<1>2. \A k \in DOMAIN d.windows : u(k) \in Int
  BY <1>1, WindowUShared
<1>3. \A k : limit(k) \in Int
  BY DEF TransULimit
<1>4. \A k \in DOMAIN d.windows : u(k) \in 1..limit(k) <=> u(k) > 0 /\ u(k) <= limit(k)
  BY <1>2, <1>3
<1>5. \A k \in DOMAIN d.windows : IsFinite(d.windows[k].shgc)
  BY DEF IsFinite
<1>6. BuildEnvTransReport(d, climate) =
        IF Len(d.windows) > 0 /\ \A k \in DOMAIN d.windows :
             (u(k) > 0 /\ u(k) <= limit(k)) /\ d.windows[k].shgc.kind = "num" /\ within(k)
        THEN 93 ELSE 0
  BY DEF BuildEnvTransReport
<1>7. ScoreEnvTrans(d, climate) =
        IF d.windows # << >> /\ \A k \in DOMAIN d.windows :
             u(k) \in 1..limit(k) /\ IsFinite(d.windows[k].shgc) /\ within(k)
        THEN 93 ELSE 0
  BY DEF ScoreEnvTrans
<1>8. Len(d.windows) > 0 <=> d.windows # << >>
  BY <1>1
<1>. HIDE DEF u, limit, within
<1>. QED  BY <1>4, <1>5, <1>6, <1>7, <1>8

\* A report says of complete details what the shared scorer does.
LEMMA Reported ==
  ASSUME NEW t \in Tools, NEW d \in Details(t), NEW climate, Complete(t, d)
  PROVE  ReportScore(t, d, climate) = ScoreTool(t, d, climate)
<1>1. CASE t = "env_opaque"
  BY <1>1, OpaqueReported DEF ReportScore, ScoreTool
<1>2. CASE t = "env_trans"
  BY <1>2, TransReported DEF ReportScore, ScoreTool, Complete
<1>3. CASE t = "mech"
  BY <1>3, MechReported DEF ReportScore, ScoreTool
<1>4. CASE t = "elec"
  BY <1>4, ElecReported DEF ReportScore, ScoreTool
<1>5. CASE t = "monitoring"
  BY <1>5, MonitoringReported DEF ReportScore, ScoreTool
<1>6. CASE t = "integrated"
  BY <1>6, IntegratedReported DEF ReportScore, ScoreTool
<1>. QED  BY <1>1, <1>2, <1>3, <1>4, <1>5, <1>6 DEF Tools

-----------------------------------------------------------------------------
\* What is kept of a layer gives its resistance.
LEMMA KeptR ==
  ASSUME NEW layer \in Layer, Kept(layer)
  PROVE  LET material == Material[layer.category][layer.material]
         IN /\ layer.material = 0 => layer.rValue = 0
            /\ layer.material > 0 /\ material.r.kind = "num" => layer.rValue = material.r.value
            /\ layer.material > 0 /\ material.r.kind # "num" /\ ToNum(layer.thickness) > 0 =>
                 layer.rValue = CalcLayerR(material.l, layer.thickness)
<1>1. layer.material \in Nat /\ layer.thickness \in Number
  BY DEF Layer
<1>2. ToNum(layer.thickness) \in Int
  BY <1>1 DEF ToNum, Number
<1>3. PICK material : material = Material[layer.category][layer.material]
  OBVIOUS
<1>. QED  BY <1>1, <1>2, <1>3 DEF Kept

-----------------------------------------------------------------------------
\* The inductive invariant gives what is stored beside the answers.
LEMMA DependentsOf == EditInv => DependentsFollow
<1>. SUFFICES ASSUME EditInv PROVE DependentsFollow
  OBVIOUS
<1>1. GroupFollowsFacts
  BY DEF EditInv, Good, GroupFollowsFacts, CurrentGroup
<1>2. LogicFollowsSystem
  BY DEF EditInv, Good, Consistent, OffRows, LogicFollowsSystem
<1>3. RFollowsLayer
  <2>. SUFFICES ASSUME tool = "env_opaque",
                       NEW k \in DOMAIN input.analyses, NEW j \in DOMAIN input.analyses[k].layers
                PROVE  LET layer == input.analyses[k].layers[j]
                           material == Material[layer.category][layer.material]
                       IN CASE layer.material = 0 -> layer.rValue = 0
                            [] layer.material > 0 /\ material.r.kind = "num" ->
                                 layer.rValue = material.r.value
                            [] OTHER -> ToNum(layer.thickness) > 0 =>
                                          layer.rValue = CalcLayerR(material.l, layer.thickness)
    BY DEF RFollowsLayer
  <2>1. input.analyses \in Seq(Assembly)
    BY DEF EditInv, Good, Details
  <2>2. input.analyses[k] \in Assembly
    BY <2>1
  <2>3. input.analyses[k].layers \in Seq(Layer)
    BY <2>2 DEF Assembly
  <2>4. PICK layer \in Layer : layer = input.analyses[k].layers[j]
    BY <2>3
  <2>5. Kept(layer)
    BY <2>4 DEF EditInv, Good, Consistent
  <2>6. layer.material \in Nat
    BY <2>4, Zenon DEF Layer
  <2>7. layer.material = 0 \/ layer.material > 0
    BY <2>6
  <2>. QED  BY <2>4, <2>5, <2>7, KeptR
<1>4. NoAnswerWhenInactive
  BY DEF EditInv, Good, NoAnswerWhenInactive
<1>. QED  BY <1>1, <1>2, <1>3, <1>4 DEF DependentsFollow

-----------------------------------------------------------------------------
(* Sequences of elements of a kind stay so when the programs change them. *)
LEMMA AllElements ==
  ASSUME NEW S, NEW T, NEW s \in Seq(S), \A k \in DOMAIN s : s[k] \in T PROVE s \in Seq(T)
<1>1. s \in [1..Len(s) -> T] /\ Len(s) \in Nat
  OBVIOUS
<1>. QED  BY <1>1, SeqDef

LEMMA Mapped ==
  ASSUME NEW S, NEW T, NEW s \in Seq(S), NEW g, g = [k \in DOMAIN s |-> g[k]],
         \A k \in DOMAIN s : g[k] \in T
  PROVE  g \in Seq(T) /\ DOMAIN g = DOMAIN s /\ (g = << >> <=> s = << >>)
<1>1. Len(s) \in Nat /\ DOMAIN s = 1..Len(s)
  OBVIOUS
<1>2. g \in [1..Len(s) -> T]
  BY <1>1
<1>3. g \in Seq(T) /\ Len(g) = Len(s)
  BY <1>1, <1>2, SeqDef
<1>. QED  BY <1>1, <1>2, <1>3, EmptySeq

LEMMA Replaced ==
  ASSUME NEW T, NEW s \in Seq(T), NEW k \in DOMAIN s, NEW e \in T
  PROVE  [s EXCEPT ![k] = e] \in Seq(T) /\ [s EXCEPT ![k] = e] # << >>
         /\ DOMAIN [s EXCEPT ![k] = e] = DOMAIN s
<1>1. DOMAIN s = 1..Len(s) /\ Len(s) \in Nat
  OBVIOUS
<1>2. [s EXCEPT ![k] = e] \in Seq(T) /\ Len([s EXCEPT ![k] = e]) = Len(s)
  BY ExceptSeq
<1>. QED  BY <1>1, <1>2

LEMMA Appended ==
  ASSUME NEW T, NEW s \in Seq(T), NEW e \in T
  PROVE  Append(s, e) \in Seq(T) /\ Append(s, e) # << >>
BY AppendProperties

LEMMA Removed ==
  ASSUME NEW T, NEW s \in Seq(T), Len(s) > 1, NEW k \in DOMAIN s
  PROVE  RemoveAt(s, k) \in Seq(T) /\ RemoveAt(s, k) # << >>
<1>1. k \in 1..Len(s) /\ Len(s) \in Nat
  OBVIOUS
<1>2. SubSeq(s, 1, k - 1) \in Seq(T) /\ Len(SubSeq(s, 1, k - 1)) = k - 1
  BY <1>1, SubSeqProperties
<1>3. SubSeq(s, k + 1, Len(s)) \in Seq(T) /\ Len(SubSeq(s, k + 1, Len(s))) = Len(s) - k
  BY <1>1, SubSeqProperties
<1>7. PICK before \in Seq(T) : before = SubSeq(s, 1, k - 1) /\ Len(before) = k - 1
  BY <1>2
<1>8. PICK after \in Seq(T) : after = SubSeq(s, k + 1, Len(s)) /\ Len(after) = Len(s) - k
  BY <1>3
<1>4. before \o after \in Seq(T) /\ Len(before \o after) = Len(before) + Len(after)
  BY ConcatProperties
<1>5. RemoveAt(s, k) = before \o after
  BY <1>7, <1>8 DEF RemoveAt
<1>6. Len(RemoveAt(s, k)) > 0 /\ RemoveAt(s, k) \in Seq(T)
  <2>1. PICK n \in Nat : n = Len(s) /\ k <= n /\ k > 0 /\ n > 1
    BY <1>1
  <2>2. Len(RemoveAt(s, k)) = (k - 1) + (n - k)
    BY <1>7, <1>8, <1>4, <1>5, <2>1
  <2>. QED  BY <1>1, <1>4, <1>5, <1>7, <1>8, <2>1, <2>2
<1>. QED  BY <1>6, EmptySeq

-----------------------------------------------------------------------------
\* The rows, layers and assemblies the programs keep.
KeptRow(r) ==
  {row \in RowState : row.table # << >> => DOMAIN row.table = DOMAIN ElecItem[r].limits}
KeptLayer == {l \in Layer : Kept(l)}
KeptAssembly == {a \in Assembly : a.layers \in Seq(KeptLayer)}

LEMMA KeptAssemblies ==
  ASSUME NEW d \in Details("env_opaque")
  PROVE  Consistent("env_opaque", d) <=> d.analyses \in Seq(KeptAssembly)
<1>1. d.analyses \in Seq(Assembly)
  BY DEF Details
<1>2. ASSUME Consistent("env_opaque", d) PROVE d.analyses \in Seq(KeptAssembly)
  <2>1. ASSUME NEW k \in DOMAIN d.analyses PROVE d.analyses[k] \in KeptAssembly
    <3>1. PICK a \in Assembly : a = d.analyses[k]
      BY <1>1
    <3>2. a.layers \in Seq(Layer)
      BY <3>1, Zenon DEF Assembly
    <3>3. \A j \in DOMAIN a.layers : a.layers[j] \in Layer
      BY <3>2
    <3>4. \A j \in DOMAIN a.layers : Kept(a.layers[j])
      BY <1>2, <3>1 DEF Consistent
    <3>5. \A j \in DOMAIN a.layers : a.layers[j] \in KeptLayer
      BY <3>3, <3>4 DEF KeptLayer
    <3>6. a.layers \in Seq(KeptLayer)
      BY <3>2, <3>5, AllElements
    <3>. QED  BY <3>1, <3>6 DEF KeptAssembly
  <2>. QED  BY <1>1, <2>1, AllElements
<1>3. ASSUME d.analyses \in Seq(KeptAssembly) PROVE Consistent("env_opaque", d)
  <2>1. ASSUME NEW k \in DOMAIN d.analyses, NEW j \in DOMAIN d.analyses[k].layers
        PROVE  Kept(d.analyses[k].layers[j])
    <3>1. d.analyses[k] \in KeptAssembly
      BY <1>3
    <3>2. d.analyses[k].layers \in Seq(KeptLayer)
      BY <3>1 DEF KeptAssembly
    <3>3. d.analyses[k].layers[j] \in KeptLayer
      BY <3>2
    <3>. QED  BY <3>3 DEF KeptLayer
  <2>. QED  BY <2>1 DEF Consistent
<1>. QED  BY <1>2, <1>3

\* Its thickness written in another way leaves a layer its resistance.
LEMMA SameThickness ==
  ASSUME NEW layer \in KeptLayer, NEW x \in Number, ToNum(x) = ToNum(layer.thickness)
  PROVE  [layer EXCEPT !.thickness = x] \in KeptLayer
<1>1. PICK next : next = [layer EXCEPT !.thickness = x]
  OBVIOUS
<1>2. layer \in Layer /\ Kept(layer)
  BY DEF KeptLayer
<1>3. next \in Layer
  BY <1>1, <1>2 DEF Layer
<1>4. /\ next.category = layer.category /\ next.material = layer.material
      /\ next.lambda = layer.lambda /\ next.rValue = layer.rValue /\ next.thickness = x
  BY <1>1, <1>2 DEF Layer
<1>5. \A l : CalcLayerR(l, x) = CalcLayerR(l, layer.thickness)
  BY DEF CalcLayerR
<1>6. Kept(next)
  BY <1>2, <1>4, <1>5 DEF Kept
<1>. QED  BY <1>1, <1>3, <1>6 DEF KeptLayer

LEMMA StoredRowMade ==
  ASSUME NEW row \in RowState
  PROVE  /\ StoredRow(row) \in RowState /\ StoredRow(row).selectValue = row.selectValue
         /\ DOMAIN StoredRow(row).table = DOMAIN row.table
         /\ StoredRow(row).table = << >> <=> row.table = << >>
<1>1. row.number \in Number /\ row.table \in Seq(TableEntry)
  BY DEF RowState
<1>2. PICK n \in Number : n = StoredNumber(row.number)
  BY <1>1, NumberStored
<1>3. PICK g : g = [k \in DOMAIN row.table |->
                 [row.table[k] EXCEPT !.value = StoredNumber(row.table[k].value)]]
  OBVIOUS
<1>4. ASSUME NEW k \in DOMAIN row.table PROVE g[k] \in TableEntry
  <2>1. PICK e \in TableEntry : e = row.table[k]
    BY <1>1
  <2>2. PICK v \in Number : v = StoredNumber(e.value)
    BY <2>1, NumberStored DEF TableEntry
  <2>3. [e EXCEPT !.value = v] \in TableEntry
    BY <2>1 DEF TableEntry
  <2>. QED  BY <1>3, <2>1, <2>2, <2>3
<1>5. g = [k \in DOMAIN row.table |-> g[k]]
  BY <1>3
<1>6. g \in Seq(TableEntry) /\ DOMAIN g = DOMAIN row.table /\ (g = << >> <=> row.table = << >>)
  <2>1. PICK s \in Seq(TableEntry) : s = row.table
    BY <1>1
  <2>2. g = [k \in DOMAIN s |-> g[k]] /\ \A k \in DOMAIN s : g[k] \in TableEntry
    BY <1>4, <1>5, <2>1
  <2>3. g \in Seq(TableEntry) /\ DOMAIN g = DOMAIN s /\ (g = << >> <=> s = << >>)
    BY <2>2, Mapped
  <2>. QED  BY <2>1, <2>3
<1>7. PICK next : next = [row EXCEPT !.number = n, !.table = g]
  OBVIOUS
<1>8. next \in RowState /\ next.selectValue = row.selectValue /\ next.table = g
  BY <1>6, <1>7 DEF RowState
<1>9. StoredRow(row) = next
  BY <1>2, <1>3, <1>7 DEF StoredRow
<1>. QED  BY <1>6, <1>8, <1>9

LEMMA StoredAssemblyMade ==
  ASSUME NEW a \in KeptAssembly PROVE StoredAssembly(a) \in KeptAssembly
<1>1. a \in Assembly /\ a.layers \in Seq(KeptLayer)
  BY DEF KeptAssembly
<1>2. PICK g : g = [j \in DOMAIN a.layers |->
                 [a.layers[j] EXCEPT !.thickness = StoredNumber(a.layers[j].thickness)]]
  OBVIOUS
<1>3. ASSUME NEW j \in DOMAIN a.layers PROVE g[j] \in KeptLayer
  <2>1. PICK layer \in KeptLayer : layer = a.layers[j]
    BY <1>1
  <2>2. layer.thickness \in Number
    BY <2>1 DEF KeptLayer, Layer
  <2>3. [layer EXCEPT !.thickness = StoredNumber(layer.thickness)] \in KeptLayer
    BY <2>1, <2>2, NumberStored, SameThickness
  <2>. QED  BY <1>2, <2>1, <2>3
<1>4. g = [j \in DOMAIN a.layers |-> g[j]]
  BY <1>2
<1>5. g \in Seq(KeptLayer)
  BY <1>1, <1>3, <1>4, Mapped
<1>6. g \in Seq(Layer)
  BY <1>5, SeqMonotonic DEF KeptLayer
<1>7. StoredAssembly(a) = [a EXCEPT !.layers = g]
  BY <1>2 DEF StoredAssembly
<1>8. [a EXCEPT !.layers = g] \in Assembly /\ [a EXCEPT !.layers = g].layers = g
  BY <1>1, <1>6 DEF Assembly
<1>. QED  BY <1>5, <1>7, <1>8 DEF KeptAssembly

LEMMA StoredWindowMade == ASSUME NEW w \in Window PROVE StoredWindow(w) \in Window
<1>1. \A n \in WindowNumber : w[n] \in Number
  BY DEF Window, WindowNumber
<1>2. \A n \in WindowNumber : StoredNumber(w[n]) \in Number
  BY <1>1, NumberStored
<1>3. PICK g : g = StoredWindow(w)
  OBVIOUS
<1>4. g = [type |-> w.type, profileIdx |-> w.profileIdx, l1Idx |-> w.l1Idx, l2Idx |-> w.l2Idx,
           l3Idx |-> w.l3Idx, l1Th |-> StoredNumber(w.l1Th), l2Th |-> StoredNumber(w.l2Th),
           l3Th |-> StoredNumber(w.l3Th), shgc |-> StoredNumber(w.shgc),
           pf |-> StoredNumber(w.pf)]
  BY <1>3 DEF Window, StoredWindow, WindowNumber
<1>5. /\ StoredNumber(w.l1Th) \in Number /\ StoredNumber(w.l2Th) \in Number
      /\ StoredNumber(w.l3Th) \in Number /\ StoredNumber(w.shgc) \in Number
      /\ StoredNumber(w.pf) \in Number
  BY <1>2 DEF WindowNumber
<1>. QED  BY <1>3, <1>4, <1>5 DEF Window

-----------------------------------------------------------------------------
\* The details stay of their kind when they are stored.
LEMMA StoredMade ==
  ASSUME NEW t \in Tools, NEW d \in Details(t), Consistent(t, d)
  PROVE  Stored(t, d) \in Details(t) /\ Consistent(t, Stored(t, d))
<1>1. ASSUME NEW items, d \in Sheet(items), t \in {"elec", "mech"}
      PROVE  /\ Stored(t, d) \in Sheet(items) /\ Stored(t, d).logicOffRows = d.logicOffRows
             /\ Stored(t, d).responses = [r \in DOMAIN d.responses |-> StoredRow(d.responses[r])]
  <2>1. d.responses \in [DOMAIN items -> RowState]
    BY <1>1 DEF Sheet
  <2>2. PICK g : g = [r \in DOMAIN d.responses |-> StoredRow(d.responses[r])]
    OBVIOUS
  <2>3. g \in [DOMAIN items -> RowState]
    BY <2>1, <2>2, StoredRowMade
  <2>4. Stored(t, d) = [d EXCEPT !.responses = g]
    BY <1>1, <2>2 DEF Stored
  <2>5. /\ [d EXCEPT !.responses = g] \in Sheet(items)
        /\ [d EXCEPT !.responses = g].logicOffRows = d.logicOffRows
        /\ [d EXCEPT !.responses = g].responses = g
    BY <1>1, <2>3 DEF Sheet
  <2>. QED  BY <2>2, <2>4, <2>5
<1>2. CASE t = "elec"
  <2>1. d \in Sheet(ElecItem)
    BY <1>2 DEF Details
  <2>2. /\ Stored(t, d) \in Sheet(ElecItem)
        /\ Stored(t, d).responses = [r \in DOMAIN d.responses |-> StoredRow(d.responses[r])]
    BY <1>1, <1>2, <2>1
  <2>3. d.responses \in [DOMAIN ElecItem -> RowState]
    BY <2>1 DEF Sheet
  <2>4. ASSUME NEW r \in DOMAIN ElecItem, Stored(t, d).responses[r].table # << >>
        PROVE  DOMAIN Stored(t, d).responses[r].table = DOMAIN ElecItem[r].limits
    <3>1. PICK row \in RowState : row = d.responses[r]
      BY <2>3
    <3>2. Stored(t, d).responses[r] = StoredRow(row)
      BY <2>2, <2>3, <3>1
    <3>3. row.table # << >> => DOMAIN row.table = DOMAIN ElecItem[r].limits
      BY <1>2, <3>1 DEF Consistent
    <3>. QED  BY <2>4, <3>1, <3>2, <3>3, StoredRowMade
  <2>. QED  BY <1>2, <2>2, <2>4 DEF Details, Consistent
<1>3. CASE t = "mech"
  <2>1. d \in Sheet(MechItem)
    BY <1>3 DEF Details
  <2>2. /\ Stored(t, d) \in Sheet(MechItem) /\ Stored(t, d).logicOffRows = d.logicOffRows
        /\ Stored(t, d).responses = [r \in DOMAIN d.responses |-> StoredRow(d.responses[r])]
    BY <1>1, <1>3, <2>1
  <2>3. d.responses \in [DOMAIN MechItem -> RowState]
    BY <2>1 DEF Sheet
  <2>4. ASSUME NEW r \in DOMAIN MechItem
        PROVE  Stored(t, d).responses[r].selectValue = d.responses[r].selectValue
    <3>1. PICK row \in RowState : row = d.responses[r]
      BY <2>3
    <3>2. Stored(t, d).responses[r] = StoredRow(row)
      BY <2>2, <2>3, <3>1
    <3>. QED  BY <3>1, <3>2, StoredRowMade
  <2>. QED  BY <1>3, <2>2, <2>4 DEF Details, Consistent
<1>4. CASE t = "env_opaque"
  <2>1. d.analyses \in Seq(KeptAssembly)
    BY <1>4, KeptAssemblies
  <2>2. PICK g : g = [k \in DOMAIN d.analyses |-> StoredAssembly(d.analyses[k])]
    OBVIOUS
  <2>3. g = [k \in DOMAIN d.analyses |-> g[k]]
    BY <2>2
  <2>4. \A k \in DOMAIN d.analyses : g[k] \in KeptAssembly
    BY <2>1, <2>2, StoredAssemblyMade
  <2>5. g \in Seq(KeptAssembly)
    BY <2>1, <2>3, <2>4, Mapped
  <2>6. g \in Seq(Assembly)
    BY <2>5, SeqMonotonic DEF KeptAssembly
  <2>7. PICK bridge : bridge = [s \in DOMAIN d.bridge |-> IF s \in Side THEN StoredNumber(d.bridge[s])
                                                          ELSE d.bridge[s]]
    OBVIOUS
  <2>8. /\ d.bridge.south \in Number /\ d.bridge.north \in Number /\ d.bridge.east \in Number
        /\ d.bridge.west \in Number
    BY <1>4 DEF Details
  <2>9. /\ StoredNumber(d.bridge.south) \in Number /\ StoredNumber(d.bridge.north) \in Number
        /\ StoredNumber(d.bridge.east) \in Number /\ StoredNumber(d.bridge.west) \in Number
    BY <2>8, NumberStored
  <2>10. bridge = [south |-> StoredNumber(d.bridge.south), north |-> StoredNumber(d.bridge.north),
                   east |-> StoredNumber(d.bridge.east), west |-> StoredNumber(d.bridge.west),
                   mitigation |-> d.bridge.mitigation]
    BY <1>4, <2>7 DEF Details, Side
  <2>11. bridge \in [south: Number, north: Number, east: Number, west: Number, mitigation: BOOLEAN]
    BY <1>4, <2>9, <2>10 DEF Details
  <2>12. Stored(t, d) = [d EXCEPT !.analyses = g, !.bridge = bridge]
    BY <1>4, <2>2, <2>7 DEF Stored
  <2>13. Stored(t, d) \in Details("env_opaque") /\ Stored(t, d).analyses = g
    BY <1>4, <2>6, <2>11, <2>12 DEF Details
  <2>. QED  BY <1>4, <2>5, <2>13, KeptAssemblies
<1>5. CASE t = "env_trans"
  <2>1. d.windows \in Seq(Window)
    BY <1>5 DEF Details
  <2>2. PICK g : g = [k \in DOMAIN d.windows |-> StoredWindow(d.windows[k])]
    OBVIOUS
  <2>3. g = [k \in DOMAIN d.windows |-> g[k]]
    BY <2>2
  <2>4. \A k \in DOMAIN d.windows : g[k] \in Window
    BY <2>1, <2>2, StoredWindowMade
  <2>5. g \in Seq(Window)
    BY <2>1, <2>3, <2>4, Mapped
  <2>6. Stored(t, d) = [d EXCEPT !.windows = g]
    BY <1>5, <2>2 DEF Stored
  <2>. QED  BY <1>5, <2>5, <2>6 DEF Details, Consistent
<1>6. CASE t \in {"monitoring", "integrated"}
  BY <1>6 DEF Stored
<1>. QED  BY <1>2, <1>3, <1>4, <1>5, <1>6 DEF Tools

-----------------------------------------------------------------------------
\* A layer, an assembly and a window nobody has filled in.
LEMMA FreshAssembly ==
  /\ CreateLayer \in KeptLayer /\ PhoneLayer = CreateLayer
  /\ CreateAnalysis("wall_ext_open") \in KeptAssembly
  /\ PhoneAnalysis("wall_ext_open") = CreateAnalysis("wall_ext_open")
<1>1. Null \in Number
  BY DEF Null, Number
<1>2. CreateLayer \in Layer /\ CreateLayer.material = 0 /\ CreateLayer.lambda = 0 /\ CreateLayer.rValue = 0
  BY <1>1 DEF CreateLayer, Layer, Categories
<1>3. CreateLayer \in KeptLayer
  BY <1>2 DEF Kept, KeptLayer
<1>4. <<CreateLayer>> \in Seq(KeptLayer) /\ <<CreateLayer>> \in Seq(Layer)
  BY <1>2, <1>3
<1>5. "wall_ext_open" \in DOMAIN OpaqueTargetBy3B
  BY DEF OpaqueTargetBy3B
<1>6. CreateAnalysis("wall_ext_open") \in Assembly /\ CreateAnalysis("wall_ext_open").layers = <<CreateLayer>>
  BY <1>4, <1>5 DEF CreateAnalysis, Assembly
<1>7. PhoneLayer = CreateLayer
  BY DEF PhoneLayer, CreateLayer
<1>8. PhoneAnalysis("wall_ext_open") = CreateAnalysis("wall_ext_open")
  BY <1>7 DEF PhoneAnalysis, CreateAnalysis
<1>. QED  BY <1>3, <1>4, <1>6, <1>7, <1>8 DEF KeptAssembly

LEMMA FreshWindow ==
  ASSUME NEW p \in DOMAIN WindowPreset
  PROVE  CreateWindowFromPreset(p) \in Window /\ PhoneWindow(p) = CreateWindowFromPreset(p)
<1>1. PICK preset : preset = WindowPreset[p]
  OBVIOUS
<1>2. /\ preset.type \in WindowType /\ preset.profileIdx \in DOMAIN Profile
      /\ preset.l1Idx \in DOMAIN Glass /\ preset.l2Idx \in DOMAIN Gas
      /\ preset.l3Idx \in DOMAIN Glass /\ preset.shgc \in Number
  BY <1>1, CatalogueAssumption
<1>3. Num(6) \in Number /\ Num(12) \in Number /\ Num(4) \in Number /\ Null \in Number
  BY DEF Num, Null, Number
<1>4. CreateWindowFromPreset(p) \in Window
  BY <1>1, <1>2, <1>3 DEF CreateWindowFromPreset, Window
<1>5. PhoneWindow(p) = CreateWindowFromPreset(p)
  BY DEF PhoneWindow, CreateWindowFromPreset
<1>. QED  BY <1>4, <1>5

-----------------------------------------------------------------------------
\* The group is worked out again.
LEMMA Regrouped ==
  ASSUME NEW t \in {"elec", "mech"}, NEW d \in Details(t), Consistent(t, d), NEW f, NEW c, NEW e,
         e = [d EXCEPT !.group = CurrentGroup(d.manualGroup, f)]
  PROVE  Good(c, t, e, f)
<1>1. ASSUME NEW items, d \in Sheet(items)
      PROVE  /\ e \in Sheet(items) /\ e.group = CurrentGroup(e.manualGroup, f)
             /\ e.responses = d.responses /\ e.logicOffRows = d.logicOffRows
  <2>1. CurrentGroup(d.manualGroup, f) \in Group
    BY <1>1, CurrentIsGroup DEF Sheet
  <2>. QED  BY <1>1, <2>1 DEF Sheet
<1>2. CASE t = "elec"
  BY <1>1, <1>2 DEF Details, Consistent, Good
<1>3. CASE t = "mech"
  BY <1>1, <1>3 DEF Details, Consistent, Good
<1>. QED  BY <1>2, <1>3

\* A list of assemblies, or of windows, with one at least.
LEMMA WithOneAssembly ==
  ASSUME NEW d \in Details("env_opaque"), Consistent("env_opaque", d), NEW c, NEW f,
         NEW e, e = IF d.analyses # << >> THEN d
                    ELSE [d EXCEPT !.analyses = <<CreateAnalysis("wall_ext_open")>>]
  PROVE  Good(c, "env_opaque", e, f)
<1>1. CASE d.analyses # << >>
  BY <1>1 DEF Good
<1>2. CASE d.analyses = << >>
  <2>1. PICK a \in KeptAssembly : a = CreateAnalysis("wall_ext_open")
    BY FreshAssembly
  <2>2. <<a>> \in Seq(KeptAssembly) /\ <<a>> \in Seq(Assembly) /\ <<a>> # << >>
    BY <2>1 DEF KeptAssembly
  <2>3. e = [d EXCEPT !.analyses = <<a>>]
    BY <1>2, <2>1
  <2>4. e \in Details("env_opaque") /\ e.analyses = <<a>>
    BY <2>2, <2>3 DEF Details
  <2>. QED  BY <2>2, <2>4, KeptAssemblies DEF Good
<1>. QED  BY <1>1, <1>2

LEMMA WithOneWindow ==
  ASSUME NEW d \in Details("env_trans"), NEW c, NEW f,
         NEW e, e = IF d.windows # << >> THEN d
                    ELSE [d EXCEPT !.windows = <<CreateWindowFromPreset("fixed_window")>>]
  PROVE  Good(c, "env_trans", e, f)
<1>1. CASE d.windows # << >>
  BY <1>1 DEF Good, Consistent
<1>2. CASE d.windows = << >>
  <2>1. PICK w \in Window : w = CreateWindowFromPreset("fixed_window")
    BY CatalogueAssumption, FreshWindow
  <2>2. <<w>> \in Seq(Window) /\ <<w>> # << >>
    BY <2>1
  <2>3. e = [d EXCEPT !.windows = <<w>>]
    BY <1>2, <2>1
  <2>. QED  BY <2>2, <2>3 DEF Details, Good, Consistent
<1>. QED  BY <1>1, <1>2

\* What the phone makes of any details, and what either program makes of stored ones.
LEMMA PhoneGood ==
  ASSUME NEW t \in Tools, NEW d \in Details(t), Consistent(t, d), NEW f
  PROVE  Good("phone", t, PhoneCompleted(t, d, f), f)
<1>1. CASE t \in {"elec", "mech"}
  <2>1. WithGroup(d, f) = [d EXCEPT !.group = CurrentGroup(d.manualGroup, f)]
    BY DEF WithGroup, CurrentGroup, AutoGroup
  <2>. QED  BY <1>1, <2>1, Regrouped DEF PhoneCompleted
<1>2. CASE t = "env_opaque"
  <2>1. WithAnalyses(d) = IF d.analyses # << >> THEN d
                          ELSE [d EXCEPT !.analyses = <<CreateAnalysis("wall_ext_open")>>]
    BY FreshAssembly DEF WithAnalyses
  <2>. QED  BY <1>2, <2>1, WithOneAssembly DEF PhoneCompleted
<1>3. CASE t = "env_trans"
  <2>1. PhoneWindow("fixed_window") = CreateWindowFromPreset("fixed_window")
    BY CatalogueAssumption, FreshWindow
  <2>2. WithWindows(d) = IF d.windows # << >> THEN d
                         ELSE [d EXCEPT !.windows = <<CreateWindowFromPreset("fixed_window")>>]
    BY <2>1 DEF WithWindows
  <2>. QED  BY <1>3, <2>2, WithOneWindow DEF PhoneCompleted
<1>4. CASE t \in {"monitoring", "integrated"}
  BY <1>4 DEF PhoneCompleted, Good
<1>. QED  BY <1>1, <1>2, <1>3, <1>4 DEF Tools

LEMMA ActivationIs ==
  ASSUME NEW usage, NEW f PROVE GetIntegratedAutoActivation(usage, f) \in BOOLEAN
BY DEF GetIntegratedAutoActivation

LEMMA UnansweredIs == Unanswered \in [IntegratedItem -> Answers]
BY DEF Unanswered, Answers

LEMMA OpenedGood ==
  ASSUME NEW c \in {"web", "phone"}, NEW t \in Tools, NEW d \in Details(t), Consistent(t, d),
         NEW f \in Facts
  PROVE  Good(c, t, Opened(c, t, d, f), f)
<1>1. CASE c = "phone"
  BY <1>1, PhoneGood DEF Opened
<1>2. CASE c = "web"
  <2>1. Opened(c, t, d, f) = WebMounted(t, d, f)
    BY <1>2 DEF Opened
  <2>2. CASE t \in {"elec", "mech"}
    <3>1. WebMounted(t, d, f) = [d EXCEPT !.group = CurrentGroup(d.manualGroup, f)]
      BY <2>2 DEF WebMounted, WebElecDetails, WebMechDetails
    <3>. QED  BY <2>1, <2>2, <3>1, Regrouped
  <2>3. CASE t = "env_opaque"
    <3>1. d = [d EXCEPT !.analyses = d.analyses]
      BY <2>3 DEF Details
    <3>2. WebMounted(t, d, f) = [d EXCEPT !.analyses = IF d.analyses # << >> THEN d.analyses
                                                      ELSE <<CreateAnalysis("wall_ext_open")>>]
      BY <2>3 DEF WebMounted
    <3>3. WebMounted(t, d, f) = IF d.analyses # << >> THEN d
                                ELSE [d EXCEPT !.analyses = <<CreateAnalysis("wall_ext_open")>>]
      BY <3>1, <3>2
    <3>. QED  BY <2>1, <2>3, <3>3, WithOneAssembly
  <2>4. CASE t = "env_trans"
    <3>1. d = [d EXCEPT !.windows = d.windows]
      BY <2>4 DEF Details
    <3>2. WebMounted(t, d, f) = [d EXCEPT !.windows = IF d.windows # << >> THEN d.windows
                                               ELSE <<CreateWindowFromPreset("fixed_window")>>]
      BY <2>4 DEF WebMounted
    <3>3. WebMounted(t, d, f) = IF d.windows # << >> THEN d
                           ELSE [d EXCEPT !.windows = <<CreateWindowFromPreset("fixed_window")>>]
      BY <3>1, <3>2
    <3>. QED  BY <2>1, <2>4, <3>3, WithOneWindow
  <2>5. CASE t = "monitoring"
    BY <2>1, <2>5 DEF WebMounted, Good
  <2>6. CASE t = "integrated"
    <3>1. /\ d.usage \in Usages \cup {"unset"} /\ d.logicActive \in BOOLEAN
          /\ d.responses \in [IntegratedItem -> Answers]
      BY <2>6 DEF Details
    <3>2. f.usage \in Usages
      BY EditingAssumption
    <3>3. PICK usage \in Usages \cup {"unset"} :
            usage = IF d.usage = "unset" THEN f.usage ELSE d.usage
      BY <3>1, <3>2
    <3>4. PICK auto \in BOOLEAN : auto = GetIntegratedAutoActivation(usage, f)
      BY ActivationIs
    <3>5. PICK answers \in [IntegratedItem -> Answers] :
            answers = IF d.logicActive /\ auto THEN d.responses ELSE Unanswered
      BY <3>1, UnansweredIs
    <3>6. WebMounted(t, d, f) = [usage |-> usage, logicActive |-> auto, responses |-> answers]
      BY <2>6, <3>3, <3>4, <3>5 DEF WebMounted, MountIntegrated
    <3>7. ~auto => answers = Unanswered
      BY <3>5
    <3>. QED  BY <2>1, <2>6, <3>6, <3>7 DEF Details, Good, Consistent
  <2>. QED  BY <2>2, <2>3, <2>4, <2>5, <2>6 DEF Tools
<1>. QED  BY <1>1, <1>2

-----------------------------------------------------------------------------
\* What a handler of program c may make next of the details of tool t.
Fit(c, t, d) ==
  /\ d \in Details(t) /\ Consistent(t, d)
  /\ c = "web" /\ t = "env_opaque" => d.analyses # << >>
  /\ c = "web" /\ t = "env_trans" => d.windows # << >>
  /\ c = "web" /\ t = "integrated" /\ ~d.logicActive => d.responses = Unanswered

LEMMA EditGood ==
  ASSUME EditInv, NEW c, NEW next, Edit(c, next), Fit(c, tool, next)
  PROVE  EditInv'
<1>1. /\ client = c /\ client' = client /\ tool' = tool /\ facts' = facts /\ edits' \in Nat
      /\ input' = IF c = "phone" THEN PhoneCompleted(tool, next, facts)
                  ELSE CASE tool = "elec" -> WebElecDetails(next, facts)
                         [] tool = "mech" -> WebMechDetails(next, facts)
                         [] OTHER -> next
  BY DEF Edit, EditInv
<1>2. tool \in Tools /\ client \in Client /\ facts \in Facts /\ client \in {"web", "phone"}
  BY EditingAssumption DEF EditInv
<1>3. next \in Details(tool) /\ Consistent(tool, next)
  BY DEF Fit
<1>4. CASE client = "phone"
  <2>1. Good("phone", tool, PhoneCompleted(tool, next, facts), facts)
    BY <1>2, <1>3, PhoneGood
  <2>. QED  BY <1>1, <1>2, <1>4, <2>1 DEF EditInv
<1>5. CASE client = "web"
  <2>1. CASE tool \in {"elec", "mech"}
    <3>1. input' = [next EXCEPT !.group = CurrentGroup(next.manualGroup, facts)]
      BY <1>1, <1>5, <2>1 DEF WebElecDetails, WebMechDetails
    <3>2. Good("web", tool, input', facts)
      BY <1>3, <2>1, <3>1, Regrouped
    <3>. QED  BY <1>1, <1>2, <1>5, <3>2 DEF EditInv
  <2>2. CASE tool \notin {"elec", "mech"}
    <3>1. input' = next
      BY <1>1, <1>5, <2>2
    <3>2. Good("web", tool, next, facts)
      BY <1>1, <1>5, <2>2 DEF Fit, Good
    <3>. QED  BY <1>1, <1>2, <1>5, <3>1, <3>2 DEF EditInv
  <2>. QED  BY <2>1, <2>2
<1>. QED  BY <1>2, <1>4, <1>5

-----------------------------------------------------------------------------
\* The answer to a row.
LEMMA RowAnswered ==
  ASSUME NEW t \in {"elec", "mech"}, NEW d \in Details(t), Consistent(t, d), NEW c,
         NEW r \in DOMAIN d.responses, NEW row \in RowState,
         t = "elec" => row \in KeptRow(r), row.selectValue = d.responses[r].selectValue
  PROVE  Fit(c, t, [d EXCEPT !.responses[r] = row])
<1>1. PICK e : e = [d EXCEPT !.responses[r] = row]
  OBVIOUS
<1>2. ASSUME NEW items, d \in Sheet(items)
      PROVE  /\ e \in Sheet(items) /\ r \in DOMAIN items /\ e.logicOffRows = d.logicOffRows
             /\ \A q \in DOMAIN items : e.responses[q] = IF q = r THEN row ELSE d.responses[q]
  <2>1. d.responses \in [DOMAIN items -> RowState]
    BY <1>2 DEF Sheet
  <2>2. PICK g : g = [d.responses EXCEPT ![r] = row]
    OBVIOUS
  <2>3. g \in [DOMAIN items -> RowState]
    BY <2>1, <2>2
  <2>4. e = [d EXCEPT !.responses = g]
    BY <1>1, <1>2, <2>2 DEF Sheet
  <2>5. e \in Sheet(items) /\ e.responses = g /\ e.logicOffRows = d.logicOffRows
    BY <1>2, <2>3, <2>4 DEF Sheet
  <2>. QED  BY <2>1, <2>2, <2>5
<1>3. CASE t = "elec"
  <2>1. d \in Sheet(ElecItem)
    BY <1>3 DEF Details
  <2>2. \A q \in DOMAIN ElecItem : e.responses[q].table # << >> =>
          DOMAIN e.responses[q].table = DOMAIN ElecItem[q].limits
    BY <1>2, <1>3, <2>1 DEF Consistent, KeptRow
  <2>. QED  BY <1>1, <1>2, <1>3, <2>1, <2>2 DEF Fit, Details, Consistent
<1>4. CASE t = "mech"
  <2>1. d \in Sheet(MechItem)
    BY <1>4 DEF Details
  <2>2. \A q \in DOMAIN MechItem : e.responses[q].selectValue = d.responses[q].selectValue
    BY <1>2, <2>1
  <2>. QED  BY <1>1, <1>2, <1>4, <2>1, <2>2 DEF Fit, Details, Consistent
<1>. QED  BY <1>3, <1>4

LEMMA FieldSet ==
  ASSUME NEW row \in RowState, NEW field, NEW v,
         \/ field = "radio" /\ v \in Answers
         \/ field = "number" /\ v \in Number
         \/ field \in {"text", "eff", "rank"} /\ v \in Texts
  PROVE  /\ [row EXCEPT ![field] = v] \in RowState
         /\ [row EXCEPT ![field] = v].table = row.table
         /\ [row EXCEPT ![field] = v].selectValue = row.selectValue
<1>1. PICK e : e = [row EXCEPT ![field] = v]
  OBVIOUS
<1>2. CASE field = "radio" /\ v \in Answers
  BY <1>1, <1>2 DEF RowState
<1>3. CASE field = "number" /\ v \in Number
  BY <1>1, <1>3 DEF RowState
<1>4. CASE field = "text" /\ v \in Texts
  BY <1>1, <1>4 DEF RowState
<1>5. CASE field = "eff" /\ v \in Texts
  BY <1>1, <1>5 DEF RowState
<1>6. CASE field = "rank" /\ v \in Texts
  BY <1>1, <1>6 DEF RowState
<1>. QED  BY <1>2, <1>3, <1>4, <1>5, <1>6

\* One of these fields is set, by either program.
LEMMA ResponseSet ==
  ASSUME NEW t \in {"elec", "mech"}, NEW d \in Details(t), Consistent(t, d), NEW c,
         NEW r \in DOMAIN d.responses, NEW field, NEW v,
         \/ field = "radio" /\ v \in Answers
         \/ field = "number" /\ v \in Number
         \/ field \in {"text", "eff", "rank"} /\ v \in Texts
  PROVE  /\ SetResp(d, r, field, v) = WebSetResponse(d, r, field, v)
         /\ Fit(c, t, WebSetResponse(d, r, field, v))
<1>1. t = "elec" => d \in Sheet(ElecItem)
  BY DEF Details
<1>2. t = "mech" => d \in Sheet(MechItem)
  BY DEF Details
<1>3. d.responses[r] \in RowState
  BY <1>1, <1>2 DEF Sheet
<1>4. PICK row \in RowState : row = d.responses[r]
  BY <1>3
<1>5. PICK next \in RowState : /\ next = [row EXCEPT ![field] = v]
                               /\ next.table = row.table /\ next.selectValue = row.selectValue
  BY FieldSet
<1>6. t = "elec" => next \in KeptRow(r)
  <2>. SUFFICES ASSUME t = "elec" PROVE next \in KeptRow(r)
    OBVIOUS
  <2>1. r \in DOMAIN ElecItem
    BY <1>1 DEF Sheet
  <2>. QED  BY <1>4, <1>5, <2>1 DEF KeptRow, Consistent
<1>7. Fit(c, t, [d EXCEPT !.responses[r] = next])
  BY <1>4, <1>5, <1>6, RowAnswered
<1>8. WebSetResponse(d, r, field, v) = [d EXCEPT !.responses[r] = next]
  BY <1>1, <1>2, <1>4, <1>5 DEF WebSetResponse, Sheet
<1>. QED  BY <1>7, <1>8 DEF WebSetResponse, SetResp

-----------------------------------------------------------------------------
(* The handlers of the electrical and the mechanical checklist. *)
LEMMA SheetOpen ==
  ASSUME EditInv, tool \in {"elec", "mech"}
  PROVE  /\ input \in Details(tool) /\ Consistent(tool, input)
         /\ DOMAIN input.responses = DOMAIN Items
         /\ input.responses \in [DOMAIN Items -> RowState]
<1>1. tool = "elec" => input \in Sheet(ElecItem)
  BY DEF EditInv, Good, Details
<1>2. tool = "mech" => input \in Sheet(MechItem)
  BY DEF EditInv, Good, Details
<1>. QED  BY <1>1, <1>2 DEF EditInv, Good, Sheet, Items

LEMMA AnswerRowGood ==
  ASSUME EditInv, tool \in {"elec", "mech"}, WebAnswerRow \/ PhoneAnswerRow
  PROVE  EditInv'
<1>. USE SheetOpen
<1>. DEFINE ok(field, v) == \/ field = "radio" /\ v \in Answers
                            \/ field = "number" /\ v \in Number
                            \/ field \in {"text", "eff", "rank"} /\ v \in Texts
<1>1. TextNumber \subseteq Number
  BY EditingAssumption
<1>2. ASSUME NEW r \in DOMAIN Items, NEW field, NEW v, ok(field, v),
             \/ Edit("web", WebSetResponse(input, r, field, v))
             \/ Edit("phone", SetResp(input, r, field, v))
      PROVE  EditInv'
  <2>1. SetResp(input, r, field, v) = WebSetResponse(input, r, field, v)
    BY DEF SetResp, WebSetResponse
  <2>2. PICK c, next : Edit(c, next) /\ next = WebSetResponse(input, r, field, v)
    BY <1>2, <2>1
  <2>3. Fit(c, tool, next)
    BY <1>2, <2>2, ResponseSet
  <2>. QED  BY <2>2, <2>3, EditGood
<1>3. CASE WebAnswerRow
  <2>1. PICK r \in DOMAIN Items :
          \/ \E v \in {"y", "n"} : Edit("web", WebSetResponse(input, r, "radio", v))
          \/ \E v \in TextNumber \ {NotNumber} : Edit("web", WebSetResponse(input, r, "number", v))
          \/ \E v \in Texts : Edit("web", WebSetResponse(input, r, "text", v))
          \/ \E v \in Texts, field \in {"eff", "rank"} :
               Edit("web", WebSetResponse(input, r, field, v))
    BY <1>3 DEF WebAnswerRow
  <2>2. PICK field, v : ok(field, v) /\ Edit("web", WebSetResponse(input, r, field, v))
    BY <1>1, <2>1 DEF Answers
  <2>. QED  BY <1>2, <2>2
<1>4. CASE PhoneAnswerRow
  <2>1. PICK r \in DOMAIN Items :
          \/ \E v \in {"y", "n"} : Edit("phone", SetResp(input, r, "radio", v))
          \/ \E v \in TextNumber : Edit("phone", SetResp(input, r, "number", v))
          \/ \E v \in Texts : Edit("phone", SetResp(input, r, "text", v))
          \/ \E v \in Texts, field \in {"eff", "rank"} :
               Edit("phone", SetResp(input, r, field, v))
    BY <1>4 DEF PhoneAnswerRow
  <2>2. PICK field, v : ok(field, v) /\ Edit("phone", SetResp(input, r, field, v))
    BY <1>1, <2>1 DEF Answers
  <2>. QED  BY <1>2, <2>2
<1>. QED  BY <1>3, <1>4

LEMMA ChooseGroupGood ==
  ASSUME EditInv, tool \in {"elec", "mech"}, WebChooseGroup \/ PhoneChooseGroup
  PROVE  EditInv'
<1>. SUFFICES ASSUME NEW c, NEW g \in Group \cup {"none"}, Edit(c, [input EXCEPT !.manualGroup = g])
              PROVE  EditInv'
  BY DEF WebChooseGroup, PhoneChooseGroup
<1>1. PICK next : next = [input EXCEPT !.manualGroup = g]
  OBVIOUS
<1>2. ASSUME NEW items, input \in Sheet(items)
      PROVE  /\ next \in Sheet(items) /\ next.responses = input.responses
             /\ next.logicOffRows = input.logicOffRows
  BY <1>1, <1>2 DEF Sheet
<1>3. Fit(c, tool, next)
  <2>1. CASE tool = "elec"
    BY <1>2, <2>1, SheetOpen DEF Details, Consistent, Fit
  <2>2. CASE tool = "mech"
    BY <1>2, <2>2, SheetOpen DEF Details, Consistent, Fit
  <2>. QED  BY <2>1, <2>2
<1>. QED  BY <1>1, <1>3, EditGood

-----------------------------------------------------------------------------
\* A table has a row for each of its limits once it is opened.
LEMMA Tabled ==
  ASSUME NEW r \in DOMAIN ElecItem, NEW row \in KeptRow(r)
  PROVE  /\ TableOf(ElecItem[r], row) \in Seq(TableEntry)
         /\ DOMAIN TableOf(ElecItem[r], row) = DOMAIN ElecItem[r].limits
         /\ PhoneTable(r, row) = TableOf(ElecItem[r], row)
<1>1. row.table \in Seq(TableEntry)
  BY DEF KeptRow, RowState
<1>2. ElecItem[r].limits \in Seq(Nat \ {0})
  BY RowsAssumption
<1>3. PhoneTable(r, row) = TableOf(ElecItem[r], row)
  BY DEF PhoneTable, TableOf
<1>4. CASE row.table # << >>
  BY <1>1, <1>3, <1>4 DEF TableOf, KeptRow
<1>5. CASE row.table = << >>
  <2>1. PICK s \in Seq(Nat \ {0}) : s = ElecItem[r].limits
    BY <1>2
  <2>2. PICK e : e = [checked |-> FALSE, value |-> Null]
    OBVIOUS
  <2>3. e \in TableEntry
    BY <2>2 DEF TableEntry, Null, Number
  <2>4. PICK g : g = [k \in DOMAIN s |-> e]
    OBVIOUS
  <2>5. g = [k \in DOMAIN s |-> g[k]] /\ \A k \in DOMAIN s : g[k] \in TableEntry
    BY <2>3, <2>4
  <2>6. g \in Seq(TableEntry) /\ DOMAIN g = DOMAIN s
    BY <2>5, Mapped
  <2>7. TableOf(ElecItem[r], row) = g
    BY <1>5, <2>1, <2>2, <2>4 DEF TableOf
  <2>. QED  BY <1>3, <2>1, <2>6, <2>7
<1>. QED  BY <1>4, <1>5

\* An entry of a table is replaced.
LEMMA EntrySet ==
  ASSUME NEW d \in Details("elec"), Consistent("elec", d), NEW c, NEW r \in DOMAIN ElecItem,
         NEW k \in DOMAIN ElecItem[r].limits, NEW e \in TableEntry
  PROVE  Fit(c, "elec", WebSetResponse(d, r, "table",
               [TableOf(ElecItem[r], d.responses[r]) EXCEPT ![k] = e]))
<1>1. d \in Sheet(ElecItem)
  BY DEF Details
<1>2. DOMAIN d.responses = DOMAIN ElecItem /\ d.responses[r] \in RowState
  BY <1>1 DEF Sheet
<1>3. d.responses[r] \in KeptRow(r)
  BY <1>2 DEF Consistent, KeptRow
<1>4. PICK row \in KeptRow(r) : row = d.responses[r]
  BY <1>3
<1>5. PICK table \in Seq(TableEntry) : /\ table = TableOf(ElecItem[r], row)
                                       /\ DOMAIN table = DOMAIN ElecItem[r].limits
  BY Tabled
<1>6. PICK newTable \in Seq(TableEntry) : /\ newTable = [table EXCEPT ![k] = e]
                                          /\ DOMAIN newTable = DOMAIN ElecItem[r].limits
  <2>1. k \in DOMAIN table
    BY <1>5
  <2>2. [table EXCEPT ![k] = e] \in Seq(TableEntry) /\ DOMAIN [table EXCEPT ![k] = e] = DOMAIN table
    BY <2>1, Replaced
  <2>. QED  BY <1>5, <2>2
<1>7. PICK next : next = [row EXCEPT !["table"] = newTable]
  OBVIOUS
<1>8. row \in RowState
  BY DEF KeptRow
<1>9. next \in RowState /\ next.table = newTable /\ next.selectValue = row.selectValue
  BY <1>7, <1>8 DEF RowState
<1>10. next \in KeptRow(r)
  BY <1>6, <1>9 DEF KeptRow
<1>11. Fit(c, "elec", [d EXCEPT !.responses[r] = next])
  BY <1>2, <1>4, <1>9, <1>10, RowAnswered
<1>12. WebSetResponse(d, r, "table", newTable) = [d EXCEPT !.responses[r] = next]
  BY <1>1, <1>2, <1>4, <1>7 DEF WebSetResponse, Sheet
<1>. QED  BY <1>4, <1>5, <1>6, <1>11, <1>12

LEMMA AnswerTableGood ==
  ASSUME EditInv, tool = "elec", WebAnswerTable \/ PhoneAnswerTable
  PROVE  EditInv'
<1>1. input \in Details("elec") /\ Consistent("elec", input)
  BY SheetOpen
<1>2. input \in Sheet(ElecItem)
  BY <1>1 DEF Details
<1>3. ASSUME NEW r \in DOMAIN ElecItem, NEW k \in DOMAIN ElecItem[r].limits, NEW e \in TableEntry, NEW c,
             Edit(c, WebSetResponse(input, r, "table",
                       [TableOf(ElecItem[r], input.responses[r]) EXCEPT ![k] = e]))
      PROVE  EditInv'
  BY <1>1, <1>3, EntrySet, EditGood
<1>4. ASSUME NEW r \in DOMAIN ElecItem, NEW k \in DOMAIN ElecItem[r].limits
      PROVE  LET table == TableOf(ElecItem[r], input.responses[r])
             IN /\ PhoneTable(r, input.responses[r]) = table
                /\ table[k] \in TableEntry /\ table \in Seq(TableEntry)
  <2>1. input.responses[r] \in RowState
    BY <1>2 DEF Sheet
  <2>2. PICK row \in KeptRow(r) : row = input.responses[r]
    BY <1>1, <2>1 DEF Consistent, KeptRow
  <2>3. PICK table \in Seq(TableEntry) : /\ table = TableOf(ElecItem[r], row)
                                         /\ DOMAIN table = DOMAIN ElecItem[r].limits
                                         /\ PhoneTable(r, row) = table
    BY Tabled
  <2>. QED  BY <2>2, <2>3
<1>5. TextNumber \subseteq Number /\ Null \in Number
  BY EditingAssumption DEF Null, Number
<1>6. \E r \in DOMAIN ElecItem : \E k \in DOMAIN ElecItem[r].limits : \E c, table :
        \E e \in TableEntry :
          /\ table = TableOf(ElecItem[r], input.responses[r])
          /\ Edit(c, WebSetResponse(input, r, "table", [table EXCEPT ![k] = e]))
  <2>1. ASSUME NEW r \in DOMAIN ElecItem, NEW k \in DOMAIN ElecItem[r].limits,
               \/ \E checked \in BOOLEAN : Edit("web", WebCheck(input, r, k, checked))
               \/ \E v \in TextNumber : Edit("web", WebTableValue(input, r, k, v))
        PROVE  \E c, table : \E e \in TableEntry :
                 /\ table = TableOf(ElecItem[r], input.responses[r])
                 /\ Edit(c, WebSetResponse(input, r, "table", [table EXCEPT ![k] = e]))
    <3>1. PICK table \in Seq(TableEntry) : /\ table = TableOf(ElecItem[r], input.responses[r])
                                           /\ table[k] \in TableEntry
      BY <1>4
    <3>2. ASSUME NEW checked \in BOOLEAN, Edit("web", WebCheck(input, r, k, checked))
          PROVE  \E e \in TableEntry :
                   Edit("web", WebSetResponse(input, r, "table", [table EXCEPT ![k] = e]))
      <4>1. PICK e : e = [checked |-> checked, value |-> IF checked THEN table[k].value ELSE Null]
        OBVIOUS
      <4>2. e \in TableEntry
        BY <1>5, <3>1, <4>1 DEF TableEntry
      <4>3. WebCheck(input, r, k, checked) = WebSetResponse(input, r, "table", [table EXCEPT ![k] = e])
        BY <3>1, <4>1 DEF WebCheck, ReplaceAt
      <4>. QED  BY <3>2, <4>2, <4>3
    <3>3. ASSUME NEW v \in TextNumber, Edit("web", WebTableValue(input, r, k, v))
          PROVE  \E e \in TableEntry :
                   Edit("web", WebSetResponse(input, r, "table", [table EXCEPT ![k] = e]))
      <4>1. PICK e : e = [table[k] EXCEPT !.value = v]
        OBVIOUS
      <4>2. e \in TableEntry
        BY <1>5, <3>1, <4>1 DEF TableEntry
      <4>3. WebTableValue(input, r, k, v) = WebSetResponse(input, r, "table", [table EXCEPT ![k] = e])
        BY <3>1, <4>1 DEF WebTableValue, ReplaceAt
      <4>. QED  BY <3>3, <4>2, <4>3
    <3>. QED  BY <2>1, <3>1, <3>2, <3>3
  <2>2. ASSUME NEW r \in DOMAIN ElecItem, NEW k \in DOMAIN ElecItem[r].limits,
               \/ \E checked \in BOOLEAN : Edit("phone", PhoneCheck(input, r, k, checked))
               \/ \E v \in TextNumber : Edit("phone", PhoneTableValue(input, r, k, v))
        PROVE  \E c, table : \E e \in TableEntry :
                 /\ table = TableOf(ElecItem[r], input.responses[r])
                 /\ Edit(c, WebSetResponse(input, r, "table", [table EXCEPT ![k] = e]))
    <3>1. PICK table \in Seq(TableEntry) : /\ table = TableOf(ElecItem[r], input.responses[r])
                                           /\ table = PhoneTable(r, input.responses[r])
                                           /\ table[k] \in TableEntry
      BY <1>4
    <3>2. ASSUME NEW checked \in BOOLEAN, Edit("phone", PhoneCheck(input, r, k, checked))
          PROVE  \E e \in TableEntry :
                   Edit("phone", WebSetResponse(input, r, "table", [table EXCEPT ![k] = e]))
      <4>1. PICK e : e = [checked |-> checked, value |-> IF checked THEN table[k].value ELSE Null]
        OBVIOUS
      <4>2. e \in TableEntry
        BY <1>5, <3>1, <4>1 DEF TableEntry
      <4>3. PhoneCheck(input, r, k, checked) = WebSetResponse(input, r, "table", [table EXCEPT ![k] = e])
        BY <3>1, <4>1 DEF PhoneCheck, SetResp, WebSetResponse
      <4>. QED  BY <3>2, <4>2, <4>3
    <3>3. ASSUME NEW v \in TextNumber, Edit("phone", PhoneTableValue(input, r, k, v))
          PROVE  \E e \in TableEntry :
                   Edit("phone", WebSetResponse(input, r, "table", [table EXCEPT ![k] = e]))
      <4>1. PICK e : e = [table[k] EXCEPT !.value = v]
        OBVIOUS
      <4>2. e \in TableEntry
        BY <1>5, <3>1, <4>1 DEF TableEntry
      <4>3. PhoneTableValue(input, r, k, v) = WebSetResponse(input, r, "table", [table EXCEPT ![k] = e])
        BY <3>1, <4>1 DEF PhoneTableValue, SetResp, WebSetResponse
      <4>. QED  BY <3>3, <4>2, <4>3
    <3>. QED  BY <2>2, <3>1, <3>2, <3>3
  <2>3. ASSUME NEW r \in DOMAIN ElecItem, NEW k \in DOMAIN ElecItem[r].limits
        PROVE  /\ (~TableOf(ElecItem[r], input.responses[r])[k].checked) \in BOOLEAN
               /\ (~PhoneTable(r, input.responses[r])[k].checked) \in BOOLEAN
    BY <1>4 DEF TableEntry
  <2>4. CASE WebAnswerTable
    <3>1. PICK r \in DOMAIN ElecItem : \E k \in DOMAIN ElecItem[r].limits :
            \/ Edit("web", WebCheck(input, r, k, ~TableOf(ElecItem[r], input.responses[r])[k].checked))
            \/ \E v \in TextNumber : Edit("web", WebTableValue(input, r, k, v))
      BY <2>4 DEF WebAnswerTable
    <3>2. PICK k \in DOMAIN ElecItem[r].limits :
            \/ \E checked \in BOOLEAN : Edit("web", WebCheck(input, r, k, checked))
            \/ \E v \in TextNumber : Edit("web", WebTableValue(input, r, k, v))
      BY <2>3, <3>1
    <3>. QED  BY <2>1, <3>2
  <2>5. CASE PhoneAnswerTable
    <3>1. PICK r \in DOMAIN ElecItem : \E k \in DOMAIN ElecItem[r].limits :
            \/ Edit("phone", PhoneCheck(input, r, k, ~PhoneTable(r, input.responses[r])[k].checked))
            \/ \E v \in TextNumber : Edit("phone", PhoneTableValue(input, r, k, v))
      BY <2>5 DEF PhoneAnswerTable
    <3>2. PICK k \in DOMAIN ElecItem[r].limits :
            \/ \E checked \in BOOLEAN : Edit("phone", PhoneCheck(input, r, k, checked))
            \/ \E v \in TextNumber : Edit("phone", PhoneTableValue(input, r, k, v))
      BY <2>3, <3>1
    <3>. QED  BY <2>2, <3>2
  <2>. QED  BY <2>4, <2>5
<1>. QED  BY <1>3, <1>6

-----------------------------------------------------------------------------
\* The rows of the other system are off as soon as a system is chosen.
LEMMA ChooseSystemGood ==
  ASSUME EditInv, tool = "mech", WebChooseSystem \/ PhoneChooseSystem
  PROVE  EditInv'
<1>1. PICK r \in DOMAIN MechItem, v \in Systems, c \in {"web", "phone"} :
        /\ MechItem[r].type = "custom_select"
        /\ Edit(c, HandleSystemChange(WebSetResponse(input, r, "selectValue", v), v))
  <2>1. \A d, v : PhoneSystemChange(d, v) = HandleSystemChange(d, v)
    BY DEF PhoneSystemChange, HandleSystemChange
  <2>2. \A d, r, f, v : SetResp(d, r, f, v) = WebSetResponse(d, r, f, v)
    BY DEF SetResp, WebSetResponse
  <2>. QED  BY <2>1, <2>2 DEF WebChooseSystem, PhoneChooseSystem
<1>2. input \in Sheet(MechItem)
  BY SheetOpen DEF Details
<1>3. PICK g : g = [input.responses EXCEPT ![r] = [@ EXCEPT !["selectValue"] = v]]
  OBVIOUS
<1>4. PICK row \in RowState : row = input.responses[r]
  BY <1>2 DEF Sheet
<1>5. [row EXCEPT !["selectValue"] = v] \in RowState /\ [row EXCEPT !["selectValue"] = v].selectValue = v
  BY <1>1 DEF RowState
<1>6. g \in [DOMAIN MechItem -> RowState] /\ g[r].selectValue = v
  BY <1>1, <1>2, <1>3, <1>4, <1>5 DEF Sheet
<1>7. PICK off : off = OffRows(v)
  OBVIOUS
<1>8. off \subseteq DOMAIN MechItem
  BY <1>7, CatalogueAssumption DEF OffRows
<1>9. PICK next : next = HandleSystemChange(WebSetResponse(input, r, "selectValue", v), v)
  OBVIOUS
<1>10. next = [input EXCEPT !.responses = g, !.logicOffRows = off]
  <2>1. WebSetResponse(input, r, "selectValue", v) = [input EXCEPT !.responses = g]
    BY <1>2, <1>3 DEF WebSetResponse, Sheet
  <2>2. off = CASE v = "non_central" -> CentralRows
                [] v = "central" -> NonCentralRows
                [] OTHER -> {}
    BY <1>7 DEF OffRows
  <2>3. PICK set : set = [input EXCEPT !.responses = g]
    OBVIOUS
  <2>4. next = [set EXCEPT !.logicOffRows = off]
    BY <1>9, <2>1, <2>2, <2>3 DEF HandleSystemChange
  <2>. QED  BY <1>2, <2>3, <2>4 DEF Sheet
<1>11. next \in Sheet(MechItem) /\ next.responses = g /\ next.logicOffRows = off
  BY <1>2, <1>6, <1>8, <1>10 DEF Sheet
<1>12. \A q \in DOMAIN MechItem : MechItem[q].type = "custom_select" => q = r
  BY <1>1, RowsAssumption
<1>13. Fit(c, tool, next)
  BY <1>6, <1>7, <1>11, <1>12 DEF Fit, Details, Consistent
<1>. QED  BY <1>1, <1>9, <1>13, EditGood

-----------------------------------------------------------------------------
(* The handlers of monitoring and of integrated management. *)
MonitoringRow == UNION {MonitoringItem[s] : s \in DOMAIN MonitoringItem}

LEMMA MonitoringGood ==
  ASSUME EditInv, tool = "monitoring", WebMonitoring \/ PhoneMonitoring
  PROVE  EditInv'
<1>1. /\ input \in [toggles: SUBSET DOMAIN MonitoringItem, responses: [MonitoringRow -> Answers]]
  BY DEF EditInv, Good, Details, MonitoringRow
<1>2. ASSUME NEW c, NEW next, Edit(c, next),
             next \in [toggles: SUBSET DOMAIN MonitoringItem, responses: [MonitoringRow -> Answers]]
      PROVE  EditInv'
  <2>1. Fit(c, tool, next)
    BY <1>2 DEF Fit, Details, Consistent, MonitoringRow
  <2>. QED  BY <1>2, <2>1, EditGood
<1>3. ASSUME NEW c, NEW s \in Togglable, Edit(c, OnToggle(input, s)) \/ Edit(c, SetToggle(input, s))
      PROVE  EditInv'
  <2>1. s \in DOMAIN MonitoringItem
    BY DEF Togglable
  <2>2. PICK g : g = [r \in DOMAIN input.responses |->
                        IF r \in MonitoringItem[s] THEN "" ELSE input.responses[r]]
    OBVIOUS
  <2>3. g \in [MonitoringRow -> Answers]
    BY <1>1, <2>2 DEF Answers
  <2>4. OnToggle(input, s) = IF s \notin input.toggles
                             THEN [input EXCEPT !.toggles = input.toggles \cup {s}]
                             ELSE [input EXCEPT !.toggles = input.toggles \ {s}, !.responses = g]
    BY <1>1, <2>2 DEF OnToggle
  <2>5. SetToggle(input, s) = [input EXCEPT !.toggles =
          IF s \in input.toggles THEN input.toggles \ {s} ELSE input.toggles \cup {s}]
    BY <1>1 DEF SetToggle
  <2>6. PICK on \in SUBSET DOMAIN MonitoringItem : on = input.toggles \cup {s}
    BY <1>1, <2>1
  <2>7. PICK off \in SUBSET DOMAIN MonitoringItem : off = input.toggles \ {s}
    BY <1>1
  <2>8. OnToggle(input, s) \in
          [toggles: SUBSET DOMAIN MonitoringItem, responses: [MonitoringRow -> Answers]]
    BY <1>1, <2>3, <2>4, <2>6, <2>7
  <2>9. SetToggle(input, s) \in
          [toggles: SUBSET DOMAIN MonitoringItem, responses: [MonitoringRow -> Answers]]
    BY <1>1, <2>5, <2>6, <2>7
  <2>. QED  BY <1>2, <1>3, <2>8, <2>9
<1>4. ASSUME NEW c, NEW r \in ActiveRows(input), NEW v \in {"y", "n"},
             Edit(c, [input EXCEPT !.responses[r] = v])
      PROVE  EditInv'
  <2>1. PICK g : g = [input.responses EXCEPT ![r] = v]
    OBVIOUS
  <2>2. g \in [MonitoringRow -> Answers]
    BY <1>1, <2>1 DEF Answers
  <2>3. PICK next : next = [input EXCEPT !.responses[r] = v]
    OBVIOUS
  <2>4. next = [input EXCEPT !.responses = g]
    BY <1>1, <2>1, <2>3
  <2>5. next \in [toggles: SUBSET DOMAIN MonitoringItem, responses: [MonitoringRow -> Answers]]
    BY <1>1, <2>2, <2>4
  <2>. QED  BY <1>2, <1>4, <2>3, <2>5
<1>. QED  BY <1>3, <1>4 DEF WebMonitoring, PhoneMonitoring

LEMMA IntegratedGood ==
  ASSUME EditInv, tool = "integrated", WebIntegrated \/ PhoneIntegrated
  PROVE  EditInv'
<1>. DEFINE kind == [usage: Usages \cup {"unset"}, logicActive: BOOLEAN,
                     responses: [IntegratedItem -> Answers]]
<1>1. input \in kind
  BY DEF EditInv, Good, Details
<1>2. ASSUME NEW c, NEW next \in kind, Edit(c, next),
             c = "web" /\ ~next.logicActive => next.responses = Unanswered
      PROVE  EditInv'
  <2>1. Fit(c, tool, next)
    BY <1>2 DEF Fit, Details, Consistent
  <2>. QED  BY <1>2, <2>1, EditGood
<1>3. ASSUME NEW next \in kind, ~input.logicActive /\ ~next.logicActive => next.responses = input.responses,
             Edit("web", AfterLogic(input, next))
      PROVE  EditInv'
  <2>1. client = "web"
    BY <1>3 DEF Edit
  <2>2. ~input.logicActive => input.responses = Unanswered
    BY <2>1 DEF EditInv, Good
  <2>3. PICK after : after = AfterLogic(input, next)
    OBVIOUS
  <2>4. CASE input.logicActive /\ ~next.logicActive
    <3>1. after = [next EXCEPT !.responses = Unanswered]
      BY <2>3, <2>4 DEF AfterLogic
    <3>2. after \in kind /\ after.responses = Unanswered
      BY <3>1, UnansweredIs
    <3>. HIDE DEF kind
    <3>. QED  BY <1>2, <1>3, <2>3, <3>2
  <2>5. CASE ~(input.logicActive /\ ~next.logicActive)
    <3>1. after = next
      BY <2>3, <2>5 DEF AfterLogic
    <3>. HIDE DEF kind
    <3>. QED  BY <1>2, <1>3, <2>2, <2>3, <2>5, <3>1
  <2>. QED  BY <2>4, <2>5
<1>4. PICK toggled : toggled = [input EXCEPT !.logicActive = ~@]
  OBVIOUS
<1>5. /\ toggled \in kind /\ toggled.responses = input.responses
      /\ toggled.logicActive = ~input.logicActive
  BY <1>1, <1>4
<1>6. CASE Edit("web", ToggleLogic(input))
  <2>1. ToggleLogic(input) = AfterLogic(input, toggled)
    BY <1>4 DEF ToggleLogic
  <2>. HIDE DEF kind
  <2>. QED  BY <1>3, <1>5, <1>6, <2>1
<1>7. ASSUME NEW usage \in {"", "res", "pub"}, Edit("web", WebSetUsage(input, usage, facts))
      PROVE  EditInv'
  <2>1. PICK was \in BOOLEAN : was = GetIntegratedAutoActivation(input.usage, facts)
    BY ActivationIs
  <2>2. PICK set : set = [input EXCEPT !.usage = usage]
    OBVIOUS
  <2>3. set \in kind /\ set.responses = input.responses /\ set.logicActive = input.logicActive
    BY <1>1, <2>2 DEF Usages
  <2>4. PICK next : next = IF was # GetIntegratedAutoActivation(set.usage, facts)
                           THEN [set EXCEPT !.logicActive = ~was] ELSE set
    OBVIOUS
  <2>5. next \in kind /\ next.responses = input.responses
    BY <2>3, <2>4
  <2>6. WebSetUsage(input, usage, facts) = AfterLogic(input, next)
    BY <2>1, <2>2, <2>4 DEF WebSetUsage, AfterFacts
  <2>. HIDE DEF kind
  <2>. QED  BY <1>3, <1>7, <2>5, <2>6
<1>8. ASSUME NEW c, input.logicActive, NEW r \in IntegratedItem, NEW v \in {"y", "n"},
             Edit(c, [input EXCEPT !.responses[r] = v])
      PROVE  EditInv'
  <2>1. PICK g : g = [input.responses EXCEPT ![r] = v]
    OBVIOUS
  <2>2. g \in [IntegratedItem -> Answers]
    BY <1>1, <2>1 DEF Answers
  <2>3. PICK next : next = [input EXCEPT !.responses[r] = v]
    OBVIOUS
  <2>4. next = [input EXCEPT !.responses = g]
    BY <1>1, <2>1, <2>3
  <2>5. next \in kind /\ next.logicActive
    BY <1>1, <1>8, <2>2, <2>4
  <2>. HIDE DEF kind
  <2>. QED  BY <1>2, <1>8, <2>3, <2>5
<1>9. CASE Edit("phone", PhoneToggleLogic(input))
  <2>1. PhoneToggleLogic(input) = toggled
    BY <1>4 DEF PhoneToggleLogic
  <2>. HIDE DEF kind
  <2>. QED  BY <1>2, <1>5, <1>9, <2>1
<1>. QED  BY <1>6, <1>7, <1>8, <1>9 DEF WebIntegrated, PhoneIntegrated

-----------------------------------------------------------------------------
(* A layer, after each change of it. *)
MaterialRow == [r: Number, l: Nat, t: Nat]
PresetRow == [c: DOMAIN Material, i: Nat, t: Nat]

LEMMA CategoryChosen ==
  ASSUME NEW layer, NEW category \in Categories
  PROVE  /\ OnCategoryChange(layer, category) \in KeptLayer
         /\ PhoneCategoryChange(layer, category) \in KeptLayer
<1>1. \A l \in Layer : l.material = 0 /\ l.lambda = 0 /\ l.rValue = 0 => l \in KeptLayer
  BY DEF KeptLayer, Kept
<1>2. PICK fresh \in Layer : /\ fresh = CreateLayer
                             /\ fresh.material = 0 /\ fresh.lambda = 0 /\ fresh.rValue = 0
  BY FreshAssembly DEF KeptLayer, CreateLayer
<1>3. PICK next : next = [fresh EXCEPT !.category = category]
  OBVIOUS
<1>4. next \in Layer /\ next.material = 0 /\ next.lambda = 0 /\ next.rValue = 0
  BY <1>2, <1>3 DEF Layer
<1>5. Null \in Number
  BY DEF Null, Number
<1>6. PICK phone : phone = PhoneCategoryChange(layer, category)
  OBVIOUS
<1>7. phone \in Layer /\ phone.material = 0 /\ phone.lambda = 0 /\ phone.rValue = 0
  BY <1>5, <1>6 DEF Layer, PhoneCategoryChange
<1>. QED  BY <1>1, <1>2, <1>3, <1>4, <1>6, <1>7 DEF OnCategoryChange

LEMMA LayerRInt ==
  ASSUME NEW l \in Nat, NEW x \in Number PROVE CalcLayerR(l, x) \in Int
<1>1. CalcLayerR(l, x) \in Nat
  BY LayerRShared
<1>. QED  BY <1>1

LEMMA NumNumber == ASSUME NEW n \in Nat PROVE Num(n) \in Number
BY DEF Num, Number

LEMMA ElseNumber ==
  ASSUME NEW x \in Number, NEW t \in Nat PROVE Else(x, t) \in Number
BY DEF Else, Num, Null, Number

LEMMA MaterialIs ==
  ASSUME NEW category \in DOMAIN Material, NEW i \in DOMAIN Material[category]
  PROVE  Material[category][i] \in MaterialRow /\ i \in Nat \ {0}
<1>1. Material[category] \in Seq(MaterialRow)
  BY CatalogueAssumption DEF MaterialRow
<1>2. PICK s \in Seq(MaterialRow) : s = Material[category]
  BY <1>1
<1>3. i \in DOMAIN s
  BY <1>2
<1>4. s[i] \in MaterialRow /\ i \in 1..Len(s) /\ Len(s) \in Nat
  BY <1>2, <1>3
<1>. QED  BY <1>2, <1>4

\* A layer of the material, with the resistance of it.
LEMMA LayerOf ==
  ASSUME NEW next \in Layer, NEW category \in DOMAIN Material,
         NEW i \in DOMAIN Material[category], NEW material, material = Material[category][i],
         next.category = category, next.material = i,
         IF material.r.kind = "num" THEN next.lambda = 0 /\ next.rValue = material.r.value
         ELSE /\ next.lambda = material.l
              /\ next.rValue = CalcLayerR(material.l, next.thickness)
  PROVE  next \in KeptLayer
<1>1. i \in Nat \ {0}
  BY MaterialIs
<1>2. Kept(next)
  BY <1>1 DEF Kept
<1>. QED  BY <1>2 DEF KeptLayer

LEMMA MaterialChosen ==
  ASSUME NEW layer \in KeptLayer, layer.category # "", NEW i \in DOMAIN Material[layer.category]
  PROVE  /\ OnMaterialChange(layer, i) \in KeptLayer
         /\ PhoneMaterialChange(layer, i) \in KeptLayer
<1>1. layer \in Layer
  BY DEF KeptLayer
<1>2. layer.category \in DOMAIN Material /\ layer.thickness \in Number
  BY <1>1 DEF Layer, Categories
<1>3. PICK material : material = Material[layer.category][i]
  OBVIOUS
<1>4. material \in MaterialRow /\ i \in Nat
  BY <1>2, <1>3, MaterialIs
<1>5. material.r \in Number /\ material.l \in Nat /\ material.t \in Nat
  BY <1>4 DEF MaterialRow
<1>6. PICK thickness \in Number : thickness = Else(layer.thickness, material.t)
  BY <1>2, <1>5, ElseNumber
<1>7. PICK own \in Number : own = IF material.t # 0 THEN Num(material.t) ELSE layer.thickness
  BY <1>2, <1>5, NumNumber
<1>8. material.r.value \in Int
  BY <1>5 DEF Number
<1>9. CalcLayerR(material.l, thickness) \in Int
  BY <1>5, LayerRInt
<1>10. PICK rValue \in Int : rValue = CalcLayerR(material.l, thickness)
  BY <1>9
<1>11. CASE material.r.kind = "num"
  <2>1. PICK next : next =
          [layer EXCEPT !.material = i, !.lambda = 0, !.rValue = material.r.value,
                        !.thickness = own, !.fixedThickness = material.t # 0]
    OBVIOUS
  <2>2. /\ next \in Layer /\ next.category = layer.category /\ next.material = i
        /\ next.lambda = 0 /\ next.rValue = material.r.value
    BY <1>1, <1>4, <1>7, <1>8, <2>1 DEF Layer
  <2>3. next \in KeptLayer
    BY <1>2, <1>3, <1>11, <2>2, LayerOf
  <2>4. OnMaterialChange(layer, i) = next
    BY <1>1, <1>3, <1>7, <1>11, <2>1 DEF OnMaterialChange, Layer
  <2>5. PhoneMaterialChange(layer, i) = next
    BY <1>1, <1>3, <1>7, <1>11, <2>1 DEF PhoneMaterialChange, Layer
  <2>. QED  BY <2>3, <2>4, <2>5
<1>12. CASE ~(material.r.kind = "num")
  <2>1. PICK next : next =
          [layer EXCEPT !.material = i, !.lambda = material.l, !.thickness = thickness,
                        !.rValue = rValue, !.fixedThickness = FALSE]
    OBVIOUS
  <2>2. /\ next \in Layer /\ next.category = layer.category /\ next.material = i
        /\ next.lambda = material.l /\ next.rValue = rValue /\ next.thickness = thickness
    <3>1. next \in Layer
      BY <1>1, <1>4, <1>5, <1>10, <2>1 DEF Layer
    <3>2. /\ next.category = layer.category /\ next.material = i
          /\ next.lambda = material.l /\ next.rValue = rValue /\ next.thickness = thickness
      BY <1>1, <2>1 DEF Layer
    <3>. QED  BY <3>1, <3>2
  <2>3. next \in KeptLayer
    BY <1>2, <1>3, <1>10, <1>12, <2>2, LayerOf
  <2>4. OnMaterialChange(layer, i) = next
    BY <1>3, <1>6, <1>10, <1>12, <2>1 DEF OnMaterialChange
  <2>5. PhoneMaterialChange(layer, i) = next
    BY <1>3, <1>6, <1>10, <1>12, <2>1 DEF PhoneMaterialChange
  <2>. QED  BY <2>3, <2>4, <2>5
<1>. QED  BY <1>11, <1>12

\* A thickness that counts gives the resistance anew, one that does not leaves it.
LEMMA ThicknessTyped ==
  ASSUME NEW layer \in KeptLayer, NEW v \in Number
  PROVE  /\ OnThicknessChange(layer, v) \in KeptLayer
         /\ PhoneThicknessChange(layer, v) = OnThicknessChange(layer, v)
<1>1. layer \in Layer /\ Kept(layer)
  BY DEF KeptLayer
<1>2. layer.lambda \in Nat /\ layer.rValue \in Int /\ layer.material \in Nat /\ layer.thickness \in Number
  BY <1>1 DEF Layer
<1>3. PICK rValue : rValue = IF layer.lambda > 0 /\ ToNum(v) > 0 THEN CalcLayerR(layer.lambda, v)
                             ELSE layer.rValue
  OBVIOUS
<1>4. PICK set : set = [layer EXCEPT !.thickness = v]
  OBVIOUS
<1>5. set.lambda = layer.lambda /\ set.rValue = layer.rValue /\ set.thickness = v
  BY <1>1, <1>4 DEF Layer
<1>6. RecalcLayerR(set) = rValue /\ PhoneRecalcLayerR(set) = rValue
  BY <1>3, <1>5 DEF RecalcLayerR, PhoneRecalcLayerR
<1>7. PICK next : next = [set EXCEPT !.rValue = rValue]
  OBVIOUS
<1>8. OnThicknessChange(layer, v) = next /\ PhoneThicknessChange(layer, v) = next
  BY <1>4, <1>6, <1>7 DEF OnThicknessChange, PhoneThicknessChange
<1>9. rValue \in Int
  BY <1>2, <1>3, LayerRShared
<1>10. /\ next \in Layer /\ next.category = layer.category /\ next.material = layer.material
       /\ next.lambda = layer.lambda /\ next.thickness = v /\ next.rValue = rValue
  BY <1>1, <1>4, <1>7, <1>9 DEF Layer
<1>11. ToNum(v) \in Int
  BY DEF ToNum, Number
<1>12. Kept(next)
  <2>1. CASE layer.material = 0
    BY <1>1, <1>3, <1>10, <2>1 DEF Kept
  <2>2. CASE layer.material # 0
    <3>1. /\ layer.category \in DOMAIN Material
          /\ layer.material \in DOMAIN Material[layer.category]
      BY <1>1, <2>2 DEF Kept
    <3>2. PICK material : material = Material[layer.category][layer.material] /\ material.l \in Nat
      BY <3>1, MaterialIs DEF MaterialRow
    <3>3. CASE material.r.kind = "num"
      <4>1. layer.lambda = 0 /\ layer.rValue = material.r.value
        BY <1>1, <2>2, <3>2, <3>3 DEF Kept
      <4>. QED  BY <1>3, <1>10, <2>2, <3>1, <3>2, <3>3, <4>1 DEF Kept
    <3>4. CASE ~(material.r.kind = "num")
      <4>1. /\ layer.lambda = material.l
            /\ \/ material.l > 0 /\ ToNum(layer.thickness) <= 0
               \/ layer.rValue = CalcLayerR(material.l, layer.thickness)
        BY <1>1, <2>2, <3>2, <3>4 DEF Kept
      <4>2. CASE material.l > 0 /\ ToNum(v) > 0
        <5>1. rValue = CalcLayerR(material.l, v)
          BY <1>3, <4>1, <4>2
        <5>. QED  BY <1>10, <2>2, <3>1, <3>2, <3>4, <4>1, <5>1 DEF Kept
      <4>3. CASE material.l > 0 /\ ~(ToNum(v) > 0)
        <5>1. ToNum(v) <= 0
          BY <1>11, <4>3
        <5>. QED  BY <1>10, <2>2, <3>1, <3>2, <3>4, <4>1, <4>3, <5>1 DEF Kept
      <4>4. CASE ~(material.l > 0)
        <5>1. CalcLayerR(material.l, layer.thickness) = 0 /\ CalcLayerR(material.l, v) = 0
          BY <4>4 DEF CalcLayerR
        <5>2. rValue = CalcLayerR(material.l, v)
          BY <1>3, <4>1, <4>4, <5>1
        <5>. QED  BY <1>10, <2>2, <3>1, <3>2, <3>4, <4>1, <5>2 DEF Kept
      <4>. QED  BY <4>2, <4>3, <4>4
    <3>. QED  BY <3>3, <3>4
  <2>. QED  BY <2>1, <2>2
<1>. QED  BY <1>8, <1>10, <1>12 DEF KeptLayer

\* The layers of a preset.
LEMMA PresetApplied ==
  ASSUME NEW a \in KeptAssembly, a.targetKey \in DOMAIN Preset
  PROVE  /\ ApplyPreset(a, a.targetKey) \in KeptAssembly
         /\ PhoneApplyPreset(a, a.targetKey) = ApplyPreset(a, a.targetKey)
<1>1. a \in Assembly
  BY DEF KeptAssembly
<1>2. PICK s \in Seq(PresetRow) : s = Preset[a.targetKey]
  BY CatalogueAssumption DEF PresetRow
<1>3. \A k \in DOMAIN s : s[k].i \in DOMAIN Material[s[k].c]
  BY <1>2, CatalogueAssumption
<1>4. ASSUME NEW k \in DOMAIN s
      PROVE  PresetLayer(s[k]) \in KeptLayer /\ PhonePresetLayer(s[k]) = PresetLayer(s[k])
  <2>1. PICK item \in PresetRow : item = s[k]
    BY <1>2
  <2>2. item.c \in DOMAIN Material /\ item.i \in DOMAIN Material[item.c] /\ item.t \in Nat
    BY <1>3, <2>1 DEF PresetRow
  <2>3. PICK material : material = Material[item.c][item.i]
    OBVIOUS
  <2>4. material \in MaterialRow /\ item.i \in Nat
    BY <2>2, <2>3, MaterialIs
  <2>5. material.r \in Number /\ material.l \in Nat /\ material.t \in Nat
    BY <2>4 DEF MaterialRow
  <2>6. Num(item.t) \in Number
    BY <2>2, NumNumber
  <2>7. PICK thickness \in Number : thickness = Else(Num(item.t), material.t)
    BY <2>5, <2>6, ElseNumber
  <2>8. material.r.value \in Int /\ CalcLayerR(material.l, thickness) \in Nat
    BY <2>5, LayerRShared DEF Number
  <2>9. PICK lambda \in Nat : lambda = IF material.r.kind = "num" THEN 0 ELSE material.l
    BY <2>5
  <2>10. PICK rValue \in Int : rValue = IF material.r.kind = "num" THEN material.r.value
                                        ELSE CalcLayerR(material.l, thickness)
    BY <2>8
  <2>11. PICK layer : layer = PresetLayer(item)
    OBVIOUS
  <2>12. layer = [category |-> item.c, material |-> item.i, thickness |-> thickness,
                  lambda |-> lambda, rValue |-> rValue,
                  fixedThickness |-> material.r.kind = "num" /\ material.t # 0]
    BY <2>3, <2>7, <2>9, <2>10, <2>11 DEF PresetLayer
  <2>13. /\ layer \in Layer /\ layer.category = item.c /\ layer.material = item.i
         /\ layer.thickness = thickness /\ layer.lambda = lambda /\ layer.rValue = rValue
    BY <2>2, <2>4, <2>7, <2>9, <2>10, <2>12 DEF Layer, Categories
  <2>14. layer \in KeptLayer
    BY <2>2, <2>3, <2>9, <2>10, <2>13, LayerOf
  <2>15. PhonePresetLayer(item) = layer
    BY <2>3, <2>7, <2>9, <2>10, <2>12 DEF PhonePresetLayer
  <2>. QED  BY <2>1, <2>11, <2>14, <2>15
<1>5. PICK g : g = [k \in DOMAIN s |-> PresetLayer(s[k])]
  OBVIOUS
<1>6. g = [k \in DOMAIN s |-> g[k]] /\ \A k \in DOMAIN s : g[k] \in KeptLayer
  BY <1>4, <1>5
<1>7. g \in Seq(KeptLayer)
  BY <1>6, Mapped
<1>8. g \in Seq(Layer)
  BY <1>7, SeqMonotonic DEF KeptLayer
<1>9. g = [k \in DOMAIN s |-> PhonePresetLayer(s[k])]
  BY <1>4, <1>5
<1>10. PICK next : next = [a EXCEPT !.targetKey = a.targetKey, !.layers = g]
  OBVIOUS
<1>11. next \in Assembly /\ next.layers = g
  BY <1>1, <1>8, <1>10 DEF Assembly
<1>12. ApplyPreset(a, a.targetKey) = next
  BY <1>2, <1>5, <1>10 DEF ApplyPreset
<1>13. PhoneApplyPreset(a, a.targetKey) = next
  BY <1>2, <1>9, <1>10 DEF PhoneApplyPreset
<1>. QED  BY <1>7, <1>11, <1>12, <1>13 DEF KeptAssembly

-----------------------------------------------------------------------------
(* The handlers of the opaque envelope. *)
OpaqueBridge == [south: Number, north: Number, east: Number, west: Number, mitigation: BOOLEAN]
OpaqueShading == [q1: {"none", "yes", "no"}, q2: {"none", "yes", "no"}]

LEMMA OpaqueOpen ==
  ASSUME EditInv, tool = "env_opaque"
  PROVE  /\ input \in [analyses: Seq(Assembly), bridge: OpaqueBridge, shading: OpaqueShading]
         /\ input.analyses \in Seq(KeptAssembly) /\ input.analyses # << >>
<1>1. input \in Details("env_opaque") /\ Consistent("env_opaque", input) /\ input.analyses # << >>
  BY DEF EditInv, Good
<1>. QED  BY <1>1, KeptAssemblies DEF Details, OpaqueBridge, OpaqueShading

\* The assemblies are replaced.
LEMMA AnalysesSet ==
  ASSUME EditInv, tool = "env_opaque", NEW c, NEW list \in Seq(KeptAssembly), list # << >>,
         Edit(c, [input EXCEPT !.analyses = list])
  PROVE  EditInv'
<1>1. list \in Seq(Assembly)
  BY SeqMonotonic DEF KeptAssembly
<1>2. PICK next : next = [input EXCEPT !.analyses = list]
  OBVIOUS
<1>3. next \in [analyses: Seq(Assembly), bridge: OpaqueBridge, shading: OpaqueShading]
      /\ next.analyses = list
  BY <1>1, <1>2, OpaqueOpen
<1>4. next \in Details("env_opaque")
  BY <1>3 DEF Details, OpaqueBridge, OpaqueShading
<1>5. Fit(c, tool, next)
  BY <1>3, <1>4, KeptAssemblies DEF Fit
<1>. QED  BY <1>2, <1>5, EditGood

\* One of the assemblies is.
LEMMA AnalysisSet ==
  ASSUME EditInv, tool = "env_opaque", NEW c, NEW k \in DOMAIN input.analyses,
         NEW a \in KeptAssembly, Edit(c, WithAnalysis(k, a))
  PROVE  EditInv'
<1>1. PICK list : list = [input.analyses EXCEPT ![k] = a]
  OBVIOUS
<1>2. list \in Seq(KeptAssembly) /\ list # << >>
  BY <1>1, OpaqueOpen, Replaced
<1>3. WithAnalysis(k, a) = [input EXCEPT !.analyses = list]
  BY <1>1, OpaqueOpen DEF WithAnalysis
<1>. QED  BY <1>2, <1>3, AnalysesSet

\* Its layers are.
LEMMA LayersSet ==
  ASSUME NEW a \in KeptAssembly, NEW layers \in Seq(KeptLayer)
  PROVE  [a EXCEPT !.layers = layers] \in KeptAssembly
<1>1. layers \in Seq(Layer)
  BY SeqMonotonic DEF KeptLayer
<1>2. PICK next : next = [a EXCEPT !.layers = layers]
  OBVIOUS
<1>3. next \in Assembly /\ next.layers = layers
  BY <1>1, <1>2 DEF KeptAssembly, Assembly
<1>. QED  BY <1>2, <1>3 DEF KeptAssembly

\* One of them is.
LEMMA LayerSet ==
  ASSUME EditInv, tool = "env_opaque", NEW c, NEW k \in DOMAIN input.analyses,
         NEW j \in DOMAIN input.analyses[k].layers, NEW layer \in KeptLayer,
         Edit(c, WithLayer(k, j, layer))
  PROVE  EditInv'
<1>1. PICK a \in KeptAssembly : a = input.analyses[k]
  BY OpaqueOpen
<1>2. a.layers \in Seq(KeptLayer) /\ j \in DOMAIN a.layers /\ a \in Assembly
  BY <1>1 DEF KeptAssembly
<1>3. PICK layers : layers = [a.layers EXCEPT ![j] = layer]
  OBVIOUS
<1>4. layers \in Seq(KeptLayer)
  BY <1>2, <1>3, Replaced
<1>5. PICK next : next = [a EXCEPT !.layers = layers]
  OBVIOUS
<1>6. next \in KeptAssembly
  BY <1>4, <1>5, LayersSet
<1>7. WithLayer(k, j, layer) = WithAnalysis(k, next)
  <2>1. next = [a EXCEPT !.layers[j] = layer]
    BY <1>2, <1>3, <1>5 DEF Assembly
  <2>. QED  BY <1>1, <2>1, OpaqueOpen DEF WithLayer, WithAnalysis
<1>. QED  BY <1>6, <1>7, AnalysisSet

\* A layer that is there.
LEMMA LayerThere ==
  ASSUME EditInv, tool = "env_opaque", NEW k \in DOMAIN input.analyses
  PROVE  /\ input.analyses[k] \in KeptAssembly /\ input.analyses[k].layers \in Seq(KeptLayer)
         /\ \A j \in DOMAIN input.analyses[k].layers : input.analyses[k].layers[j] \in KeptLayer
<1>1. PICK a \in KeptAssembly : a = input.analyses[k]
  BY OpaqueOpen
<1>2. a.layers \in Seq(KeptLayer)
  BY DEF KeptAssembly
<1>3. \A j \in DOMAIN a.layers : a.layers[j] \in KeptLayer
  BY <1>2
<1>. QED  BY <1>1, <1>2, <1>3

\* One is taken away, or the last gives way to a fresh one, or stays.
LEMMA Fewer ==
  ASSUME NEW T, NEW s \in Seq(T), NEW k \in DOMAIN s, NEW e \in T
  PROVE  /\ (IF Len(s) > 1 THEN RemoveAt(s, k) ELSE <<e>>) \in Seq(T) \ {<< >>}
         /\ KeepLast(s, k) \in Seq(T) \ {<< >>}
<1>1. CASE Len(s) > 1
  BY <1>1, Removed DEF KeepLast
<1>2. CASE ~(Len(s) > 1)
  <2>1. s # << >> /\ <<e>> \in Seq(T) /\ <<e>> # << >>
    OBVIOUS
  <2>. QED  BY <1>2, <2>1 DEF KeepLast
<1>. QED  BY <1>1, <1>2

LEMMA LayerGood ==
  ASSUME EditInv, tool = "env_opaque", WebLayer \/ PhoneEditLayer
  PROVE  EditInv'
<1>1. Thickness \subseteq Number
  BY EditingAssumption
<1>2. ASSUME NEW k \in DOMAIN input.analyses, NEW j \in DOMAIN input.analyses[k].layers, NEW c,
             \/ Edit(c, WithAnalysis(k, WebRemoveLayer(input.analyses[k], j)))
             \/ Edit(c, WithAnalysis(k, PhoneRemoveLayer(input.analyses[k], j)))
      PROVE  EditInv'
  <2>1. PICK a \in KeptAssembly : a = input.analyses[k] /\ a.layers \in Seq(KeptLayer)
    BY LayerThere
  <2>2. PICK fewer : fewer = IF Len(a.layers) > 1 THEN RemoveAt(a.layers, j) ELSE <<CreateLayer>>
    OBVIOUS
  <2>3. PICK kept : kept = KeepLast(a.layers, j)
    OBVIOUS
  <2>4. fewer \in Seq(KeptLayer) /\ kept \in Seq(KeptLayer)
    BY <2>1, <2>2, <2>3, Fewer, FreshAssembly
  <2>5. WebRemoveLayer(a, j) = [a EXCEPT !.layers = fewer]
    BY <2>1, <2>2 DEF WebRemoveLayer, KeptAssembly, Assembly
  <2>6. PhoneRemoveLayer(a, j) = [a EXCEPT !.layers = kept]
    BY <2>1, <2>3 DEF PhoneRemoveLayer, KeptAssembly, Assembly
  <2>7. WebRemoveLayer(a, j) \in KeptAssembly /\ PhoneRemoveLayer(a, j) \in KeptAssembly
    BY <2>4, <2>5, <2>6, LayersSet
  <2>. QED  BY <1>2, <2>1, <2>7, AnalysisSet
<1>3. ASSUME NEW k \in DOMAIN input.analyses, NEW j \in DOMAIN input.analyses[k].layers, NEW c,
             NEW next, Edit(c, WithLayer(k, j, next)),
             LET layer == input.analyses[k].layers[j]
             IN \/ \E category \in Categories : next \in {OnCategoryChange(layer, category),
                                                          PhoneCategoryChange(layer, category)}
                \/ /\ layer.category # ""
                   /\ \E i \in DOMAIN Material[layer.category] :
                        next \in {OnMaterialChange(layer, i), PhoneMaterialChange(layer, i)}
                \/ \E v \in Thickness :
                     next \in {OnThicknessChange(layer, v), PhoneThicknessChange(layer, v)}
      PROVE  EditInv'
  <2>1. PICK layer \in KeptLayer : layer = input.analyses[k].layers[j]
    BY LayerThere
  <2>2. next \in KeptLayer
    BY <1>1, <1>3, <2>1, CategoryChosen, MaterialChosen, ThicknessTyped
  <2>. QED  BY <1>3, <2>2, LayerSet
<1>4. CASE WebLayer
  <2>1. PICK k \in DOMAIN input.analyses : \E j \in DOMAIN input.analyses[k].layers :
          LET layer == input.analyses[k].layers[j]
          IN \/ \E category \in Categories :
                  Edit("web", WithLayer(k, j, OnCategoryChange(layer, category)))
             \/ /\ layer.category # ""
                /\ \E i \in DOMAIN Material[layer.category] :
                     Edit("web", WithLayer(k, j, OnMaterialChange(layer, i)))
             \/ \E v \in Thickness : Edit("web", WithLayer(k, j, OnThicknessChange(layer, v)))
             \/ Edit("web", WithAnalysis(k, WebRemoveLayer(input.analyses[k], j)))
    BY <1>4 DEF WebLayer
  <2>2. PICK j \in DOMAIN input.analyses[k].layers :
          LET layer == input.analyses[k].layers[j]
          IN \/ \E category \in Categories :
                  Edit("web", WithLayer(k, j, OnCategoryChange(layer, category)))
             \/ /\ layer.category # ""
                /\ \E i \in DOMAIN Material[layer.category] :
                     Edit("web", WithLayer(k, j, OnMaterialChange(layer, i)))
             \/ \E v \in Thickness : Edit("web", WithLayer(k, j, OnThicknessChange(layer, v)))
             \/ Edit("web", WithAnalysis(k, WebRemoveLayer(input.analyses[k], j)))
    BY <2>1
  <2>. QED  BY <1>2, <1>3, <2>2
<1>5. CASE PhoneEditLayer
  <2>1. PICK k \in DOMAIN input.analyses : \E j \in DOMAIN input.analyses[k].layers :
          LET layer == input.analyses[k].layers[j]
          IN \/ \E category \in Categories :
                  Edit("phone", WithLayer(k, j, PhoneCategoryChange(layer, category)))
             \/ /\ layer.category # ""
                /\ \E i \in DOMAIN Material[layer.category] :
                     Edit("phone", WithLayer(k, j, PhoneMaterialChange(layer, i)))
             \/ \E v \in Thickness : Edit("phone", WithLayer(k, j, PhoneThicknessChange(layer, v)))
             \/ Edit("phone", WithAnalysis(k, PhoneRemoveLayer(input.analyses[k], j)))
    BY <1>5 DEF PhoneEditLayer, Categories
  <2>2. PICK j \in DOMAIN input.analyses[k].layers :
          LET layer == input.analyses[k].layers[j]
          IN \/ \E category \in Categories :
                  Edit("phone", WithLayer(k, j, PhoneCategoryChange(layer, category)))
             \/ /\ layer.category # ""
                /\ \E i \in DOMAIN Material[layer.category] :
                     Edit("phone", WithLayer(k, j, PhoneMaterialChange(layer, i)))
             \/ \E v \in Thickness : Edit("phone", WithLayer(k, j, PhoneThicknessChange(layer, v)))
             \/ Edit("phone", WithAnalysis(k, PhoneRemoveLayer(input.analyses[k], j)))
    BY <2>1
  <2>. QED  BY <1>2, <1>3, <2>2
<1>. QED  BY <1>4, <1>5

LEMMA AssemblyGood ==
  ASSUME EditInv, tool = "env_opaque", WebAssembly \/ PhoneAssembly
  PROVE  EditInv'
<1>1. PICK list \in Seq(KeptAssembly) : list = input.analyses /\ list # << >>
  BY OpaqueOpen
<1>2. PICK fresh \in KeptAssembly : /\ fresh = CreateAnalysis("wall_ext_open")
                                    /\ fresh = PhoneAnalysis("wall_ext_open")
  BY FreshAssembly
<1>3. ASSUME NEW c, Edit(c, [input EXCEPT !.analyses = Append(@, fresh)])
      PROVE  EditInv'
  <2>1. PICK more : more = Append(list, fresh)
    OBVIOUS
  <2>2. more \in Seq(KeptAssembly) /\ more # << >>
    BY <2>1, Appended
  <2>3. [input EXCEPT !.analyses = Append(@, fresh)] = [input EXCEPT !.analyses = more]
    BY <1>1, <2>1, OpaqueOpen
  <2>. QED  BY <1>3, <2>2, <2>3, AnalysesSet
<1>4. ASSUME NEW c, NEW k \in DOMAIN input.analyses,
             Edit(c, WebRemoveAnalysis(input, k)) \/ Edit(c, PhoneRemoveAnalysis(input, k))
      PROVE  EditInv'
  <2>1. PICK fewer : fewer = IF Len(list) > 1 THEN RemoveAt(list, k) ELSE <<fresh>>
    OBVIOUS
  <2>2. PICK kept : kept = KeepLast(list, k)
    OBVIOUS
  <2>3. k \in DOMAIN list
    BY <1>1
  <2>4. /\ fewer \in Seq(KeptAssembly) /\ fewer # << >>
        /\ kept \in Seq(KeptAssembly) /\ kept # << >>
    BY <2>1, <2>2, <2>3, Fewer
  <2>5. WebRemoveAnalysis(input, k) = [input EXCEPT !.analyses = fewer]
    BY <1>1, <1>2, <2>1, OpaqueOpen DEF WebRemoveAnalysis
  <2>6. PhoneRemoveAnalysis(input, k) = [input EXCEPT !.analyses = kept]
    BY <1>1, <2>2, OpaqueOpen DEF PhoneRemoveAnalysis
  <2>. QED  BY <1>4, <2>4, <2>5, <2>6, AnalysesSet
<1>5. ASSUME NEW c, NEW k \in DOMAIN input.analyses, NEW next,
             Edit(c, WithAnalysis(k, next)),
             LET a == input.analyses[k]
             IN \/ next = [a EXCEPT !.layers = Append(@, CreateLayer)]
                \/ \E t \in TargetKey : next = [a EXCEPT !.targetKey = t]
                \/ /\ a.targetKey \in DOMAIN Preset
                   /\ next \in {ApplyPreset(a, a.targetKey), PhoneApplyPreset(a, a.targetKey)}
      PROVE  EditInv'
  <2>1. PICK a \in KeptAssembly : a = input.analyses[k] /\ a.layers \in Seq(KeptLayer)
    BY LayerThere
  <2>2. a \in Assembly
    BY DEF KeptAssembly
  <2>3. CASE next = [a EXCEPT !.layers = Append(@, CreateLayer)]
    <3>1. PICK more : more = Append(a.layers, CreateLayer)
      OBVIOUS
    <3>2. more \in Seq(KeptLayer)
      BY <2>1, <3>1, Appended, FreshAssembly
    <3>3. next = [a EXCEPT !.layers = more]
      BY <2>2, <2>3, <3>1 DEF Assembly
    <3>4. next \in KeptAssembly
      BY <3>2, <3>3, LayersSet
    <3>. QED  BY <1>5, <3>4, AnalysisSet
  <2>4. ASSUME NEW t \in TargetKey, next = [a EXCEPT !.targetKey = t] PROVE EditInv'
    <3>1. t \in DOMAIN OpaqueTargetBy3B
      BY EditingAssumption
    <3>2. next \in Assembly /\ next.layers = a.layers
      BY <2>2, <2>4, <3>1 DEF Assembly
    <3>3. next \in KeptAssembly
      BY <2>1, <3>2 DEF KeptAssembly
    <3>. QED  BY <1>5, <3>3, AnalysisSet
  <2>5. CASE a.targetKey \in DOMAIN Preset /\ next \in {ApplyPreset(a, a.targetKey),
                                                       PhoneApplyPreset(a, a.targetKey)}
    <3>1. next \in KeptAssembly
      BY <2>5, PresetApplied
    <3>. QED  BY <1>5, <3>1, AnalysisSet
  <2>. QED  BY <1>5, <2>1, <2>3, <2>4, <2>5
<1>6. CASE WebAssembly
  BY <1>2, <1>3, <1>4, <1>5, <1>6 DEF WebAssembly
<1>7. CASE PhoneAssembly
  BY <1>2, <1>3, <1>4, <1>5, <1>7, FreshAssembly DEF PhoneAssembly
<1>. QED  BY <1>6, <1>7

LEMMA BridgeGood ==
  ASSUME EditInv, tool = "env_opaque", WebBridge \/ PhoneBridge
  PROVE  EditInv'
<1>1. Bridge \subseteq Number
  BY EditingAssumption
<1>2. ASSUME NEW c, NEW next, Edit(c, next),
             next \in [analyses: Seq(Assembly), bridge: OpaqueBridge, shading: OpaqueShading],
             next.analyses = input.analyses
      PROVE  EditInv'
  <2>1. next \in Details("env_opaque")
    BY <1>2 DEF Details, OpaqueBridge, OpaqueShading
  <2>2. Fit(c, tool, next)
    BY <1>2, <2>1, OpaqueOpen, KeptAssemblies DEF Fit
  <2>. QED  BY <1>2, <2>2, EditGood
<1>3. ASSUME NEW c, NEW d \in Side, NEW v \in Number, Edit(c, [input EXCEPT !.bridge[d] = v])
      PROVE  EditInv'
  <2>1. PICK bridge : bridge = [input.bridge EXCEPT ![d] = v]
    OBVIOUS
  <2>2. input.bridge \in OpaqueBridge
    BY OpaqueOpen
  <2>3. bridge \in OpaqueBridge
    <3>1. CASE d = "south"
      BY <2>1, <2>2, <3>1 DEF OpaqueBridge
    <3>2. CASE d = "north"
      BY <2>1, <2>2, <3>2 DEF OpaqueBridge
    <3>3. CASE d = "east"
      BY <2>1, <2>2, <3>3 DEF OpaqueBridge
    <3>4. CASE d = "west"
      BY <2>1, <2>2, <3>4 DEF OpaqueBridge
    <3>. QED  BY <3>1, <3>2, <3>3, <3>4 DEF Side
  <2>4. PICK next : next = [input EXCEPT !.bridge[d] = v]
    OBVIOUS
  <2>5. next = [input EXCEPT !.bridge = bridge]
    BY <2>1, <2>4, OpaqueOpen
  <2>6. /\ next \in [analyses: Seq(Assembly), bridge: OpaqueBridge, shading: OpaqueShading]
        /\ next.analyses = input.analyses
    BY <2>3, <2>5, OpaqueOpen
  <2>. QED  BY <1>2, <1>3, <2>4, <2>6
<1>4. ASSUME NEW c, NEW v \in BOOLEAN, Edit(c, [input EXCEPT !.bridge["mitigation"] = v])
      PROVE  EditInv'
  <2>1. PICK bridge : bridge = [input.bridge EXCEPT !["mitigation"] = v]
    OBVIOUS
  <2>2. input.bridge \in OpaqueBridge
    BY OpaqueOpen
  <2>3. bridge \in OpaqueBridge
    BY <2>1, <2>2 DEF OpaqueBridge
  <2>4. PICK next : next = [input EXCEPT !.bridge["mitigation"] = v]
    OBVIOUS
  <2>5. next = [input EXCEPT !.bridge = bridge]
    BY <2>1, <2>4, OpaqueOpen
  <2>6. /\ next \in [analyses: Seq(Assembly), bridge: OpaqueBridge, shading: OpaqueShading]
        /\ next.analyses = input.analyses
    BY <2>3, <2>5, OpaqueOpen
  <2>. QED  BY <1>2, <1>4, <2>4, <2>6
<1>5. ASSUME NEW c, NEW q \in {"q1", "q2"}, NEW v \in {"yes", "no"},
             Edit(c, [input EXCEPT !.shading[q] = v])
      PROVE  EditInv'
  <2>1. PICK shading : shading = [input.shading EXCEPT ![q] = v]
    OBVIOUS
  <2>2. input.shading \in OpaqueShading
    BY OpaqueOpen
  <2>3. shading \in OpaqueShading
    <3>1. CASE q = "q1"
      BY <2>1, <2>2, <3>1 DEF OpaqueShading
    <3>2. CASE q = "q2"
      BY <2>1, <2>2, <3>2 DEF OpaqueShading
    <3>. QED  BY <3>1, <3>2
  <2>4. PICK next : next = [input EXCEPT !.shading[q] = v]
    OBVIOUS
  <2>5. next = [input EXCEPT !.shading = shading]
    BY <2>1, <2>4, OpaqueOpen
  <2>6. /\ next \in [analyses: Seq(Assembly), bridge: OpaqueBridge, shading: OpaqueShading]
        /\ next.analyses = input.analyses
    BY <2>3, <2>5, OpaqueOpen
  <2>. QED  BY <1>2, <1>5, <2>4, <2>6
<1>6. CASE WebBridge
  BY <1>1, <1>3, <1>4, <1>5, <1>6 DEF WebBridge
<1>7. CASE PhoneBridge
  <2>1. CASE Edit("phone", [input EXCEPT !.bridge["mitigation"] = ~@])
    <3>1. input.bridge.mitigation \in BOOLEAN
      BY OpaqueOpen DEF OpaqueBridge
    <3>2. PICK v \in BOOLEAN : v = ~input.bridge.mitigation
      BY <3>1
    <3>3. [input EXCEPT !.bridge["mitigation"] = ~@] = [input EXCEPT !.bridge["mitigation"] = v]
      BY <3>2, OpaqueOpen DEF OpaqueBridge
    <3>. QED  BY <1>4, <2>1, <3>3
  <2>. QED  BY <1>1, <1>3, <1>5, <1>7, <2>1 DEF PhoneBridge
<1>. QED  BY <1>6, <1>7

-----------------------------------------------------------------------------
(* The handlers of the windows. *)
LEMMA FieldUpdated ==
  ASSUME NEW w \in Window, NEW field \in WindowField, NEW v \in WindowValues(field, {})
  PROVE  [w EXCEPT ![field] = IF field \in {"l1Th", "l2Th", "l3Th"} /\ v = Null THEN Num(0) ELSE v]
           \in Window
<1>1. PICK x : x = IF field \in {"l1Th", "l2Th", "l3Th"} /\ v = Null THEN Num(0) ELSE v
  OBVIOUS
<1>2. PICK next : next = [w EXCEPT ![field] = x]
  OBVIOUS
<1>3. Num(0) \in Number
  BY NumNumber
<1>4. Thickness \subseteq Number /\ Factor \subseteq Number
  BY EditingAssumption
<1>5. field \in {"l1Th", "l2Th", "l3Th", "shgc", "pf"} => x \in Number
  BY <1>1, <1>3, <1>4 DEF WindowValues
<1>6. field \notin {"l1Th", "l2Th", "l3Th", "shgc", "pf"} => x = v
  BY <1>1
<1>7. CASE field = "type"
  <2>1. x \in WindowType
    BY <1>6, <1>7 DEF WindowValues
  <2>. QED  BY <1>1, <1>2, <1>7, <2>1 DEF Window
<1>8. CASE field = "profileIdx"
  <2>1. x \in DOMAIN Profile
    BY <1>6, <1>8 DEF WindowValues
  <2>. QED  BY <1>1, <1>2, <1>8, <2>1 DEF Window
<1>9. CASE field = "l1Idx"
  <2>1. x \in DOMAIN Glass
    BY <1>6, <1>9 DEF WindowValues
  <2>. QED  BY <1>1, <1>2, <1>9, <2>1 DEF Window
<1>10. CASE field = "l3Idx"
  <2>1. x \in DOMAIN Glass
    BY <1>6, <1>10 DEF WindowValues
  <2>. QED  BY <1>1, <1>2, <1>10, <2>1 DEF Window
<1>11. CASE field = "l2Idx"
  <2>1. x \in DOMAIN Gas
    BY <1>6, <1>11 DEF WindowValues
  <2>. QED  BY <1>1, <1>2, <1>11, <2>1 DEF Window
<1>12. CASE field = "l1Th"
  BY <1>1, <1>2, <1>5, <1>12 DEF Window
<1>13. CASE field = "l2Th"
  BY <1>1, <1>2, <1>5, <1>13 DEF Window
<1>14. CASE field = "l3Th"
  BY <1>1, <1>2, <1>5, <1>14 DEF Window
<1>15. CASE field = "shgc"
  BY <1>1, <1>2, <1>5, <1>15 DEF Window
<1>16. CASE field = "pf"
  BY <1>1, <1>2, <1>5, <1>16 DEF Window
<1>. QED  BY <1>7, <1>8, <1>9, <1>10, <1>11, <1>12, <1>13, <1>14, <1>15, <1>16 DEF WindowField

LEMMA WindowsGood ==
  ASSUME EditInv, tool = "env_trans", WebWindows \/ PhoneWindows
  PROVE  EditInv'
<1>1. input \in [windows: Seq(Window)] /\ input.windows # << >>
  BY DEF EditInv, Good, Details
<1>2. PICK list \in Seq(Window) : list = input.windows /\ list # << >>
  BY <1>1
<1>3. ASSUME NEW c, NEW next \in Seq(Window), next # << >>, Edit(c, [input EXCEPT !.windows = next])
      PROVE  EditInv'
  <2>1. PICK d : d = [input EXCEPT !.windows = next]
    OBVIOUS
  <2>2. d \in [windows: Seq(Window)] /\ d.windows = next
    BY <1>1, <2>1
  <2>3. Fit(c, tool, d)
    BY <1>3, <2>2 DEF Fit, Details, Consistent
  <2>. QED  BY <1>3, <2>1, <2>3, EditGood
<1>4. ASSUME NEW c, NEW p \in DOMAIN WindowPreset,
             \/ Edit(c, [input EXCEPT !.windows = Append(@, CreateWindowFromPreset(p))])
             \/ Edit(c, [input EXCEPT !.windows = Append(@, PhoneWindow(p))])
      PROVE  EditInv'
  <2>1. PICK w \in Window : w = CreateWindowFromPreset(p) /\ w = PhoneWindow(p)
    BY FreshWindow
  <2>2. PICK more : more = Append(list, w)
    OBVIOUS
  <2>3. more \in Seq(Window) /\ more # << >>
    BY <2>2, Appended
  <2>4. [input EXCEPT !.windows = Append(@, w)] = [input EXCEPT !.windows = more]
    BY <1>1, <1>2, <2>2
  <2>. QED  BY <1>3, <1>4, <2>1, <2>3, <2>4
<1>5. ASSUME NEW c, NEW k \in DOMAIN input.windows,
             Edit(c, WebRemoveWindow(input, k)) \/ Edit(c, PhoneRemoveWindow(input, k))
      PROVE  EditInv'
  <2>1. PICK w \in Window : w = CreateWindowFromPreset("fixed_window")
    BY FreshWindow, CatalogueAssumption
  <2>2. PICK fewer : fewer = IF Len(list) > 1 THEN RemoveAt(list, k) ELSE <<w>>
    OBVIOUS
  <2>3. PICK kept : kept = KeepLast(list, k)
    OBVIOUS
  <2>4. k \in DOMAIN list
    BY <1>2
  <2>5. fewer \in Seq(Window) /\ fewer # << >> /\ kept \in Seq(Window) /\ kept # << >>
    BY <2>2, <2>3, <2>4, Fewer
  <2>6. WebRemoveWindow(input, k) = [input EXCEPT !.windows = fewer]
    BY <1>1, <1>2, <2>1, <2>2 DEF WebRemoveWindow
  <2>7. PhoneRemoveWindow(input, k) = [input EXCEPT !.windows = kept]
    BY <1>1, <1>2, <2>3 DEF PhoneRemoveWindow
  <2>. QED  BY <1>3, <1>5, <2>5, <2>6, <2>7
<1>6. ASSUME NEW c, NEW k \in DOMAIN input.windows, NEW field \in WindowField,
             NEW v \in WindowValues(field, {}),
             \/ Edit(c, WebUpdateWindow(input, k, field, v))
             \/ Edit(c, PhoneUpdateWindow(input, k, field, v))
      PROVE  EditInv'
  <2>1. PICK w \in Window : w = list[k]
    BY <1>2
  <2>2. PICK x : x = IF field \in {"l1Th", "l2Th", "l3Th"} /\ v = Null THEN Num(0) ELSE v
    OBVIOUS
  <2>3. PICK next \in Window : next = [w EXCEPT ![field] = x]
    BY <2>2, FieldUpdated
  <2>4. PICK windows : windows = [list EXCEPT ![k] = next]
    OBVIOUS
  <2>5. windows \in Seq(Window) /\ windows # << >>
    <3>1. k \in DOMAIN list
      BY <1>2
    <3>. QED  BY <2>4, <3>1, Replaced
  <2>6. [input EXCEPT !.windows[k] = [@ EXCEPT ![field] = x]] = [input EXCEPT !.windows = windows]
    BY <1>1, <1>2, <2>1, <2>3, <2>4
  <2>7. WebUpdateWindow(input, k, field, v) = [input EXCEPT !.windows = windows]
    BY <2>2, <2>6 DEF WebUpdateWindow
  <2>8. PhoneUpdateWindow(input, k, field, v) = [input EXCEPT !.windows = windows]
    BY <2>2, <2>6 DEF PhoneUpdateWindow
  <2>. QED  BY <1>3, <1>6, <2>5, <2>7, <2>8
<1>7. \A field, S : WindowValues(field, S) \subseteq WindowValues(field, {})
  BY DEF WindowValues
<1>8. CASE WebWindows
  <2>1. ASSUME NEW k \in DOMAIN input.windows, NEW field \in WindowField,
               NEW v \in WindowValues(field, {NotNumber}), Edit("web", WebUpdateWindow(input, k, field, v))
        PROVE  EditInv'
    BY <1>6, <1>7, <2>1
  <2>. QED  BY <1>4, <1>5, <1>8, <2>1 DEF WebWindows
<1>9. CASE PhoneWindows
  BY <1>4, <1>5, <1>6, <1>9 DEF PhoneWindows
<1>. QED  BY <1>8, <1>9

-----------------------------------------------------------------------------
(* The project fetched again, and the checklist opened again. *)
LEMMA ReopenGood ==
  ASSUME EditInv, NEW c \in Client, NEW f \in Facts, Reopen(c, f)
  PROVE  EditInv'
<1>1. input \in Details(tool) /\ Consistent(tool, input) /\ tool \in Tools
  BY DEF EditInv, Good
<1>2. PICK d : d = Stored(tool, input)
  OBVIOUS
<1>3. d \in Details(tool) /\ Consistent(tool, d)
  BY <1>1, <1>2, StoredMade
<1>4. c \in {"web", "phone"}
  BY EditingAssumption
<1>5. Good(c, tool, Opened(c, tool, d, f), f)
  BY <1>1, <1>3, <1>4, OpenedGood
<1>6. client' = c /\ facts' = f /\ tool' = tool /\ edits' = edits /\ input' = Opened(c, tool, d, f)
  BY <1>2 DEF Reopen
<1>. QED  BY <1>1, <1>5, <1>6 DEF EditInv

LEMMA RefetchGood ==
  ASSUME EditInv, NEW f \in Facts, Refetch(f)
  PROVE  EditInv'
<1>1. /\ input \in Details(tool) /\ Consistent(tool, input) /\ tool \in Tools /\ client \in Client
      /\ client \in {"web", "phone"} /\ Good(client, tool, input, facts)
  BY EditingAssumption DEF EditInv, Good
<1>2. /\ facts' = f /\ tool' = tool /\ client' = client /\ edits' = edits /\ edits \in Nat
      /\ input' = IF client = "phone" THEN PhoneCompleted(tool, input, f)
                  ELSE CASE tool = "elec" -> WebElecDetails(input, f)
                         [] tool = "mech" -> WebMechDetails(input, f)
                         [] tool = "integrated" -> AfterFacts(input, input, facts, f)
                         [] OTHER -> input
  BY DEF Refetch, EditInv
<1>3. CASE client = "phone"
  <2>1. Good("phone", tool, PhoneCompleted(tool, input, f), f)
    BY <1>1, PhoneGood
  <2>. QED  BY <1>1, <1>2, <1>3, <2>1 DEF EditInv
<1>4. CASE client = "web"
  <2>1. CASE tool \in {"elec", "mech"}
    <3>1. input' = [input EXCEPT !.group = CurrentGroup(input.manualGroup, f)]
      BY <1>2, <1>4, <2>1 DEF WebElecDetails, WebMechDetails
    <3>2. Good("web", tool, input', f)
      BY <1>1, <2>1, <3>1, Regrouped
    <3>. QED  BY <1>1, <1>2, <1>4, <3>2 DEF EditInv
  <2>2. CASE tool = "integrated"
    <3>. DEFINE kind == [usage: Usages \cup {"unset"}, logicActive: BOOLEAN,
                         responses: [IntegratedItem -> Answers]]
    <3>1. input \in kind /\ (~input.logicActive => input.responses = Unanswered)
      BY <1>1, <1>4, <2>2 DEF Good, Details
    <3>2. PICK was \in BOOLEAN : was = GetIntegratedAutoActivation(input.usage, facts)
      BY ActivationIs
    <3>3. PICK next : next = IF was # GetIntegratedAutoActivation(input.usage, f)
                             THEN [input EXCEPT !.logicActive = ~was] ELSE input
      OBVIOUS
    <3>4. next \in kind /\ next.responses = input.responses
      BY <3>1, <3>3
    <3>5. PICK after : after = AfterLogic(input, next)
      OBVIOUS
    <3>6. input' = after
      BY <1>2, <1>4, <2>2, <3>2, <3>3, <3>5 DEF AfterFacts
    <3>7. after \in kind /\ (~after.logicActive => after.responses = Unanswered)
      <4>1. CASE input.logicActive /\ ~next.logicActive
        <5>1. after = [next EXCEPT !.responses = Unanswered]
          BY <3>5, <4>1 DEF AfterLogic
        <5>. QED  BY <3>4, <5>1, UnansweredIs
      <4>2. CASE ~(input.logicActive /\ ~next.logicActive)
        <5>1. after = next
          BY <3>5, <4>2 DEF AfterLogic
        <5>. HIDE DEF kind
        <5>. QED  BY <3>1, <3>4, <4>2, <5>1
      <4>. QED  BY <4>1, <4>2
    <3>8. Good("web", "integrated", after, f)
      BY <3>7 DEF Good, Details, Consistent
    <3>. QED  BY <1>1, <1>2, <1>4, <2>2, <3>6, <3>8 DEF EditInv
  <2>3. CASE tool \notin {"elec", "mech", "integrated"}
    <3>1. input' = input
      BY <1>2, <1>4, <2>3
    <3>2. Good("web", tool, input, f)
      BY <1>1, <1>4, <2>3 DEF Good
    <3>. QED  BY <1>1, <1>2, <1>4, <3>1, <3>2 DEF EditInv
  <2>. QED  BY <2>1, <2>2, <2>3
<1>. QED  BY <1>1, <1>3, <1>4

-----------------------------------------------------------------------------
LEMMA InitGood == Init => EditInv
<1>. SUFFICES ASSUME Init PROVE EditInv
  OBVIOUS
<1>1. tool \in DOMAIN Start /\ facts \in Facts /\ client \in Client /\ edits = 0
  BY DEF Init
<1>2. PICK d \in Start[tool] : input = Opened(client, tool, d, facts)
  BY DEF Init
<1>3. tool \in Tools /\ d \in Details(tool) /\ Consistent(tool, d)
  BY <1>1, StartAssumption
<1>4. client \in {"web", "phone"}
  BY <1>1, EditingAssumption
<1>5. Good(client, tool, Opened(client, tool, d, facts), facts)
  BY <1>1, <1>3, <1>4, OpenedGood
<1>. QED  BY <1>1, <1>2, <1>3, <1>5 DEF EditInv

LEMMA NextGood == EditInv /\ [Next]_vars => EditInv'
<1>. SUFFICES ASSUME EditInv, [Next]_vars PROVE EditInv'
  OBVIOUS
<1>1. CASE UNCHANGED vars
  BY <1>1 DEF vars, EditInv
<1>2. ASSUME NEW c \in Client, NEW f \in Facts, Reopen(c, f) PROVE EditInv'
  BY <1>2, ReopenGood
<1>3. ASSUME NEW f \in Facts, Refetch(f) PROVE EditInv'
  BY <1>3, RefetchGood
<1>4. CASE /\ tool \in {"elec", "mech"}
           /\ WebAnswerRow \/ WebChooseGroup \/ PhoneAnswerRow \/ PhoneChooseGroup
  BY <1>4, AnswerRowGood, ChooseGroupGood
<1>5. CASE tool = "elec" /\ (WebAnswerTable \/ PhoneAnswerTable)
  BY <1>5, AnswerTableGood
<1>6. CASE tool = "mech" /\ (WebChooseSystem \/ PhoneChooseSystem)
  BY <1>6, ChooseSystemGood
<1>7. CASE tool = "monitoring" /\ (WebMonitoring \/ PhoneMonitoring)
  BY <1>7, MonitoringGood
<1>8. CASE tool = "integrated" /\ (WebIntegrated \/ PhoneIntegrated)
  BY <1>8, IntegratedGood
<1>9. CASE /\ tool = "env_opaque"
           /\ WebLayer \/ PhoneEditLayer \/ WebAssembly \/ PhoneAssembly \/ WebBridge \/ PhoneBridge
  BY <1>9, LayerGood, AssemblyGood, BridgeGood
<1>10. CASE tool = "env_trans" /\ (WebWindows \/ PhoneWindows)
  BY <1>10, WindowsGood
<1>. QED
  BY <1>1, <1>2, <1>3, <1>4, <1>5, <1>6, <1>7, <1>8, <1>9, <1>10 DEF Next

\* Whatever is done in either program, with the facts changing in between, the details of the
\* open checklist are of their type, what the programs keep beside an answer still goes with
\* it, the group is the one of the present facts, and an envelope has something to show.
THEOREM EditInvHolds == Spec => []EditInv
BY InitGood, NextGood, PTL DEF Spec

\* The score the web shows of a checklist, worked out in its own component, is the one the
\* shared library gives for the details it hands on (ElecChecklist.tsx 60-134 and its five
\* neighbours, against scoring/index.ts).
THEOREM WebScoreIsSharedHolds == Spec => []WebScoreIsShared
<1>1. EditInv => WebScoreIsShared
  BY WebShared DEF EditInv, WebScoreIsShared
<1>. QED  BY <1>1, EditInvHolds, PTL

\* What was worked out from other fields follows them after every handler, effect, change of
\* the facts and reopening: the group the facts, the rows left out the heating system, the
\* resistance of a layer its material and thickness, and the answers an activation.
THEOREM DependentsFollowHolds == Spec => []DependentsFollow
BY DependentsOf, EditInvHolds, PTL

LEMMA ReportsOf == EditInv => ReportsAgree
<1>. SUFFICES ASSUME EditInv, Complete(tool, input)
              PROVE  ReportScore(tool, Stored(tool, input), facts.climate) = Score(client, tool, input, facts)
  BY DEF ReportsAgree
<1>1. tool \in Tools /\ client \in Client /\ input \in Details(tool) /\ Good(client, tool, input, facts)
  BY DEF EditInv, Good
<1>2. Stored(tool, input) = input
  BY <1>1, StoredKept DEF Complete
<1>3. ReportScore(tool, input, facts.climate) = ScoreTool(tool, input, facts.climate)
  BY <1>1, Reported
<1>4. Score(client, tool, input, facts) = ScoreTool(tool, input, facts.climate)
  BY <1>1, ScoreShared
<1>. QED  BY <1>2, <1>3, <1>4

\* Of details without a number that is none or missing, the printable report adds up, with
\* its own rules for a row, to the score that is shown (checklistReport.ts, envReport.ts and
\* windowsReport.ts).
THEOREM ReportsAgreeHolds == Spec => []ReportsAgree
BY ReportsOf, EditInvHolds, PTL

-----------------------------------------------------------------------------
(* Reopening. *)
\* What either program opens is what was shown, but for the activation.
LEMMA OpenedKept ==
  ASSUME NEW c \in {"web", "phone"}, NEW was, NEW t \in Tools, NEW d, NEW f, Good(was, t, d, f),
         ~(c = "web" /\ t = "integrated")
  PROVE  Opened(c, t, d, f) = d
<1>1. d \in Details(t)
  BY DEF Good
<1>2. CASE t \in {"elec", "mech"}
  <2>1. d.group = CurrentGroup(d.manualGroup, f)
    BY <1>2 DEF Good
  <2>2. PICK g : g = d.group
    OBVIOUS
  <2>3. [d EXCEPT !.group = g] = d
    <3>1. \A items : d \in Sheet(items) => [d EXCEPT !.group = g] = d
      BY <2>2 DEF Sheet
    <3>. QED  BY <1>1, <1>2, <3>1 DEF Details
  <2>4. WithGroup(d, f) = [d EXCEPT !.group = CurrentGroup(d.manualGroup, f)]
    BY DEF WithGroup, CurrentGroup, AutoGroup
  <2>5. /\ WebElecDetails(d, f) = [d EXCEPT !.group = CurrentGroup(d.manualGroup, f)]
        /\ WebMechDetails(d, f) = [d EXCEPT !.group = CurrentGroup(d.manualGroup, f)]
    BY DEF WebElecDetails, WebMechDetails
  <2>. QED  BY <1>2, <2>1, <2>2, <2>3, <2>4, <2>5 DEF Opened, WebMounted, PhoneCompleted
<1>3. CASE t = "env_opaque"
  <2>1. d.analyses # << >> /\ d = [d EXCEPT !.analyses = d.analyses]
    BY <1>1, <1>3 DEF Good, Details
  <2>. QED  BY <1>3, <2>1 DEF Opened, WebMounted, PhoneCompleted, WithAnalyses
<1>4. CASE t = "env_trans"
  <2>1. d.windows # << >> /\ d = [d EXCEPT !.windows = d.windows]
    BY <1>1, <1>4 DEF Good, Details
  <2>. QED  BY <1>4, <2>1 DEF Opened, WebMounted, PhoneCompleted, WithWindows
<1>5. CASE t \in {"monitoring", "integrated"}
  BY <1>5 DEF Opened, WebMounted, PhoneCompleted
<1>. QED  BY <1>2, <1>3, <1>4, <1>5 DEF Tools

LEMMA ReopenedScore ==
  ASSUME EditInv, NEW c \in Client, Reopen(c, facts), ~HasNaN(tool, input),
         tool = "integrated" /\ c = "web" =>
           input.logicActive = GetIntegratedAutoActivation(
             IF input.usage = "unset" THEN facts.usage ELSE input.usage, facts)
  PROVE  Score(client', tool, input', facts) = Score(client, tool, input, facts)
<1>1. /\ tool \in Tools /\ client \in Client /\ facts \in Facts /\ input \in Details(tool)
      /\ Good(client, tool, input, facts)
  BY DEF EditInv, Good
<1>2. Stored(tool, input) = input
  BY <1>1, StoredKept
<1>3. client' = c /\ tool' = tool /\ facts' = facts /\ input' = Opened(c, tool, input, facts)
  BY <1>2 DEF Reopen
<1>4. c \in {"web", "phone"}
  BY EditingAssumption
<1>5. EditInv'
  BY ReopenGood, <1>1
<1>6. PICK next : next = input'
  OBVIOUS
<1>7. Good(c, tool, next, facts)
  BY <1>3, <1>5, <1>6 DEF EditInv
<1>8. Score(c, tool, next, facts) = ScoreTool(tool, next, facts.climate)
  BY <1>1, <1>7, ScoreShared
<1>9. Score(client, tool, input, facts) = ScoreTool(tool, input, facts.climate)
  BY <1>1, ScoreShared
<1>10. ScoreTool(tool, next, facts.climate) = ScoreTool(tool, input, facts.climate)
  <2>1. CASE ~(c = "web" /\ tool = "integrated")
    <3>1. next = input
      BY <1>1, <1>3, <1>4, <1>6, <2>1, OpenedKept
    <3>. QED  BY <3>1
  <2>2. CASE c = "web" /\ tool = "integrated"
    <3>1. PICK auto \in BOOLEAN : auto = GetIntegratedAutoActivation(
             IF input.usage = "unset" THEN facts.usage ELSE input.usage, facts)
      BY ActivationIs
    <3>2. input.logicActive = auto
      BY <2>2, <3>1
    <3>3. next = MountIntegrated(input, facts)
      BY <1>3, <1>6, <2>2 DEF Opened, WebMounted
    <3>4. next.logicActive = auto
      BY <3>1, <3>3 DEF MountIntegrated
    <3>5. auto => next.responses = input.responses
      BY <3>1, <3>2, <3>3 DEF MountIntegrated
    <3>6. ScoreIntegrated(next) = ScoreIntegrated(input)
      BY <3>2, <3>4, <3>5 DEF ScoreIntegrated
    <3>. QED  BY <2>2, <3>6 DEF ScoreTool
  <2>. QED  BY <2>1, <2>2
<1>. QED  BY <1>3, <1>6, <1>8, <1>9, <1>10

\* Any other step changes the facts or counts as an edit.
LEMMA OthersCount ==
  ASSUME EditInv, Next, UNCHANGED <<facts, edits>>
  PROVE  \E c \in Client : Reopen(c, facts)
<1>1. edits \in Nat
  BY DEF EditInv
<1>2. ASSUME NEW c, NEW next, Edit(c, next) PROVE FALSE
  BY <1>1, <1>2 DEF Edit
<1>3. ASSUME NEW f \in Facts, Refetch(f) PROVE FALSE
  BY <1>3 DEF Refetch
<1>4. ASSUME NEW c \in Client, NEW f \in Facts, Reopen(c, f) PROVE Reopen(c, facts)
  BY <1>4 DEF Reopen
<1>5. ~WebAnswerRow /\ ~PhoneAnswerRow
  BY <1>2 DEF WebAnswerRow, PhoneAnswerRow
<1>6. ~WebChooseGroup /\ ~PhoneChooseGroup
  BY <1>2 DEF WebChooseGroup, PhoneChooseGroup
<1>7. ~WebAnswerTable /\ ~PhoneAnswerTable
  BY <1>2 DEF WebAnswerTable, PhoneAnswerTable
<1>8. ~WebChooseSystem /\ ~PhoneChooseSystem
  BY <1>2 DEF WebChooseSystem, PhoneChooseSystem
<1>9. ~WebMonitoring /\ ~PhoneMonitoring
  BY <1>2 DEF WebMonitoring, PhoneMonitoring
<1>10. ~WebIntegrated /\ ~PhoneIntegrated
  BY <1>2 DEF WebIntegrated, PhoneIntegrated
<1>11. ~WebLayer /\ ~PhoneEditLayer
  BY <1>2 DEF WebLayer, PhoneEditLayer
<1>12. ~WebAssembly /\ ~PhoneAssembly
  BY <1>2 DEF WebAssembly, PhoneAssembly
<1>13. ~WebBridge /\ ~PhoneBridge
  BY <1>2 DEF WebBridge, PhoneBridge
<1>14. ~WebWindows /\ ~PhoneWindows
  BY <1>2 DEF WebWindows, PhoneWindows
<1>. QED
  BY <1>3, <1>4, <1>5, <1>6, <1>7, <1>8, <1>9, <1>10, <1>11, <1>12, <1>13, <1>14 DEF Next

\* Details that go through the store and are opened again, in the other program or the same
\* one, show the score they had, unless a number was none or the page decides anew whether
\* integrated management is active (checklist.tsx 36-58, AssessmentWorkspace.tsx 351-361).
THEOREM ReopenKeepsScoreHolds == Spec => ReopenKeepsScore
<1>. DEFINE kept == /\ UNCHANGED <<facts, edits>> /\ ~HasNaN(tool, input)
                    /\ tool = "integrated" /\ client' = "web" =>
                         input.logicActive = GetIntegratedAutoActivation(
                           IF input.usage = "unset" THEN facts.usage ELSE input.usage, facts)
                    => Score(client', tool, input', facts) = Score(client, tool, input, facts)
<1>1. EditInv /\ [Next]_vars => [kept]_vars
  <2>1. ASSUME EditInv, Next, UNCHANGED <<facts, edits>>, ~HasNaN(tool, input),
               tool = "integrated" /\ client' = "web" =>
                 input.logicActive = GetIntegratedAutoActivation(
                   IF input.usage = "unset" THEN facts.usage ELSE input.usage, facts)
        PROVE  Score(client', tool, input', facts) = Score(client, tool, input, facts)
    <3>1. PICK c \in Client : Reopen(c, facts)
      BY <2>1, OthersCount
    <3>2. client' = c
      BY <3>1 DEF Reopen
    <3>. QED  BY <2>1, <3>1, <3>2, ReopenedScore
  <2>2. EditInv /\ Next => kept
    BY <2>1
  <2>. QED  BY <2>2
<1>. QED  BY <1>1, EditInvHolds, PTL DEF Spec, ReopenKeepsScore
=============================================================================
