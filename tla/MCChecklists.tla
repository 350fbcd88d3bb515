------------------------------ MODULE MCChecklists ------------------------------
(* Small catalogues and buildings for ChecklistEditing. *)
EXTENDS ChecklistEditing

Row(type, section) ==
  [type |-> type, section |-> section, tag |-> "", minG |-> "A", min |-> Absent,
   max |-> Absent, limits |-> << >>]

MCElecItem ==
  "e1" :> Row("bool", "gen") @@
  "e2" :> [Row("num", "gen") EXCEPT !.max = Num(5), !.tag = "motor"] @@
  "e3" :> [Row("table", "light") EXCEPT !.limits = <<4, 7>>] @@
  "e4" :> [Row("bool", "car") EXCEPT !.tag = "ev"]
MCElecMax == "gen" :> 100 @@ "light" :> 60 @@ "car" :> 36

MCMechItem ==
  "m1" :> Row("custom_select", "prod") @@
  "m2" :> [Row("num", "prod") EXCEPT !.min = Num(3), !.max = Num(8)] @@
  "m3" :> [Row("eff_pair", "prod") EXCEPT !.minG = "B"] @@
  "m4" :> [Row("text", "heat") EXCEPT !.minG = "D"] @@
  "m5" :> Row("bool", "heat")
MCMechMax == "prod" :> 140 @@ "heat" :> 100

MCMonitoringItem == "gen" :> {"g0", "g1"} @@ "central" :> {"c0"} @@ "green" :> {"n0", "n1"}

\* Two materials with a conductivity, one with a resistance and a thickness, one
\* with a resistance alone.
MCMaterial ==
  "foam" :> <<[r |-> Absent, l |-> 40, t |-> 0], [r |-> Absent, l |-> 25, t |-> 30]>> @@
  "brick" :> <<[r |-> Num(300), l |-> 0, t |-> 150], [r |-> Num(1600), l |-> 0, t |-> 0]>>
MCPreset ==
  "wall_ext_open" :> <<[c |-> "foam", i |-> 1, t |-> 60], [c |-> "brick", i |-> 1, t |-> 150]>> @@
  "wall_soil" :> <<[c |-> "brick", i |-> 1, t |-> 0]>>

MCGlass == <<1000, 900>>
MCGas == <<26, 0>>
MCProfile == <<220, 0>>
Pane(type, f, l1, l2, shgc) ==
  [type |-> type, profileIdx |-> f, l1Idx |-> l1, l2Idx |-> l2, l3Idx |-> 1, shgc |-> Num(shgc)]
MCWindowPreset ==
  "fixed_window" :> Pane("fixed", 1, 1, 1, 70) @@ "skylight" :> Pane("skylight", 2, 2, 2, 40)

Small == [area |-> 500, floors |-> 2, units |-> 4, climate |-> "4", usage |-> "res"]
Large == [area |-> 6000, floors |-> 4, units |-> 40, climate |-> "1", usage |-> "res"]
Middle == [area |-> 2500, floors |-> 3, units |-> 40, climate |-> "3B", usage |-> "pub"]
MCFacts == {Small, Large}
MCThreeFacts == {Small, Middle, Large}

NoAnswers(rows) == [r \in rows |-> NoAnswer]
Rows(rows) == [group |-> "none", manualGroup |-> "none", responses |-> NoAnswers(rows),
               logicOffRows |-> {}]
Shading == [q1 |-> "none", q2 |-> "none"]
Bridges(v) == [d \in Side \cup {"mitigation"} |-> IF d = "mitigation" THEN FALSE ELSE Num(v)]

\* Everything answered so that the checklist is worth its maximum.
AllElec ==
  [Rows(DOMAIN MCElecItem) EXCEPT
     !.responses["e1"].radio = "y", !.responses["e2"].number = Num(2),
     !.responses["e3"].table = <<[checked |-> TRUE, value |-> Num(9)],
                                 [checked |-> FALSE, value |-> Null]>>,
     !.responses["e4"].radio = "y"]
AllMech ==
  [Rows(DOMAIN MCMechItem) EXCEPT
     !.responses["m1"].selectValue = "central", !.logicOffRows = {"m2"},
     !.responses["m3"].rank = "text", !.responses["m4"].text = "text",
     !.responses["m5"].radio = "y"]
AllOpaque ==
  [analyses |-> <<ApplyPreset(CreateAnalysis("wall_ext_open"), "wall_ext_open")>>,
   bridge |-> Bridges(3), shading |-> Shading]

MCStart ==
  "elec" :> {Rows(DOMAIN MCElecItem), AllElec} @@
  "mech" :> {Rows(DOMAIN MCMechItem), AllMech} @@
  "monitoring" :> {[toggles |-> {}, responses |-> [r \in UNION Range(MCMonitoringItem) |-> ""]]} @@
  "integrated" :> {[usage |-> "unset", logicActive |-> FALSE, responses |-> Unanswered]} @@
  "env_opaque" :> {[analyses |-> << >>, bridge |-> NoBridge, shading |-> Shading], AllOpaque} @@
  "env_trans" :> {[windows |-> << >>]}

MCTextNumber == {Null, NotNumber, Num(2), Num(6)}
MCThickness == {Null, NotNumber, Num(30), Num(60)}
MCBridge == {Null, NotNumber, Num(3), Num(9)}
MCFactor == {Null, NotNumber, Num(25), Num(90)}
=============================================================================
