--------------------------- MODULE MCProjectWorkspace ---------------------------
(* Instances of ProjectWorkspace for TLC.  Sections, tools, inputs, cities and
   slots are strings so that the definitions below can name them. *)
EXTENDS ProjectWorkspace, TLC

\* The tools of two sections; "mech" has none of them, and "mon" is a section the
\* register never gives.
MCSection == {"env", "mech", "mon"}
MCTool == {"opaque", "monitor"}
MCToolsOf == ("env" :> {"opaque"} @@ "mech" :> {} @@ "mon" :> {"monitor"})

MCInput == {"blank", "good"}
MCScore == {0, 1}

\* Nothing, one tool, both tools, and a score without its input: a client that
\* was reloaded sends the scores it shows and the inputs it has opened.
Both(a, b) == ("opaque" :> a @@ "monitor" :> b)
FourBodies == {[input |-> Both("blank", "blank"), result |-> Both(0, 0)],
               [input |-> Both("good", "blank"), result |-> Both(1, 0)],
               [input |-> Both("blank", "good"), result |-> Both(0, 1)],
               [input |-> Both("blank", "good"), result |-> Both(1, 1)]}
TwoBodies == {b \in FourBodies : b.result["monitor"] = b.result["opaque"]}

\* Tabriz is in another climate zone than the other cities.
MCCityClimate == [c \in City |-> IF c = "tabriz" THEN "5" ELSE "3B"]

\* What the register may say of a record.
EnvOnly == [x \in External |-> {{"env"}}]
EnvThenNone == [x \in External |-> {{"env"}, {}}]
EitherSection == [x \in External |-> {{"env"}, {"mech"}}]

\* Two tabs of one user, or one of each of two users.
Tabs == {"tab1", "tab2"}
OneUser == [s \in Slot |-> "amir"]
OwnUser == [s \in Slot |-> s]

Saves == [s \in Slot |-> {"create", "save"}]
Imports == [s \in Slot |-> {"import"}]
SaveAndImport == [s \in Slot |-> IF s = "tab1" THEN {"save"} ELSE {"import"}]
AllKinds == [s \in Slot |-> Kind]
\* One tab works on the projects, the other imports and deletes them.
WorkAndImport == [s \in Slot |-> IF s = "tab1" THEN {"save", "update", "report"}
                                  ELSE {"import", "delete"}]
=============================================================================
