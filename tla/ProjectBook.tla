------------------------------ MODULE ProjectBook ------------------------------
(***************************************************************************)
(* What the workspace promises an owner who does one thing at a time:      *)
(* every operation is one step on the owner's projects.  A record is       *)
(* imported once and then only refreshed, a save touches only what the     *)
(* project allows at that moment and keeps scores, total and status in     *)
(* agreement, a city comes with its climate, and a report shows what is    *)
(* stored when it is made.  What a save makes of the stored row is the     *)
(* rule of AssessmentRules, a parameter here.                              *)
(***************************************************************************)
EXTENDS Integers

CONSTANTS User, External, Manual, Lists, City, ImportCity, CityClimate, MaxProjects,
  Unrestricted,   \* the section list of a project that is not restricted
  Body,           \* what a save may send
  NoAssessment,   \* what a save finds where nothing was saved
  Saved(_, _, _)  \* Saved(seen, body, allowed) : the row a save makes of the one it read

VARIABLES projects, lastId, assessments, reports

vars == <<projects, lastId, assessments, reports>>

Init ==
  /\ projects = [i \in {} |-> 0] /\ assessments = [i \in {} |-> 0]
  /\ lastId = 0 /\ reports = {}

Put(f, k, v) == [i \in DOMAIN f \cup {k} |-> IF i = k THEN v ELSE f[i]]
Drop(f, k) == [i \in DOMAIN f \ {k} |-> f[i]]

Add(u, x, list, c) ==
  /\ lastId' = lastId + 1 /\ lastId' <= MaxProjects
  /\ projects' = Put(projects, lastId', [owner |-> u, ext |-> x, allowed |-> list,
                                         city |-> c, climate |-> CityClimate[c]])
  /\ UNCHANGED <<assessments, reports>>

Create(u, c) == Add(u, Manual, Unrestricted, c)

Import(u, x) ==
  /\ ~\E p \in DOMAIN projects : projects[p].owner = u /\ projects[p].ext = x
  /\ \E list \in Lists[x] : Add(u, x, list, ImportCity)

Refresh(p) ==
  /\ projects[p].ext \in External
  /\ \E list \in Lists[projects[p].ext] :
       projects' = [projects EXCEPT ![p].allowed = list]
  /\ UNCHANGED <<lastId, assessments, reports>>

Update(p, c) ==
  /\ projects' = [projects EXCEPT ![p].city = c, ![p].climate = CityClimate[c]]
  /\ UNCHANGED <<lastId, assessments, reports>>

Delete(p) ==
  /\ projects' = Drop(projects, p)
  /\ assessments' = Drop(assessments, p)
  /\ reports' = {r \in reports : r.project # p}
  /\ UNCHANGED lastId

Stored(p) == IF p \in DOMAIN assessments THEN assessments[p] ELSE NoAssessment

Save(p, body) ==
  /\ assessments' = Put(assessments, p,
                        Saved(Stored(p), body, projects[p].allowed))
  /\ UNCHANGED <<projects, lastId, reports>>

Report(p) ==
  /\ p \in DOMAIN assessments
  /\ reports' = reports \cup
       {[project |-> p,
         doc |-> [climate |-> projects[p].climate, result |-> assessments[p].result,
                  total |-> assessments[p].total]]}
  /\ UNCHANGED <<projects, lastId, assessments>>

Next ==
  \/ \E u \in User : \/ \E c \in City : Create(u, c)
                     \/ \E x \in External : Import(u, x)
  \/ \E p \in DOMAIN projects :
       \/ Refresh(p) \/ Delete(p) \/ Report(p)
       \/ \E c \in City : Update(p, c)
       \/ \E body \in Body : Save(p, body)

Spec == Init /\ [][Next]_vars
=============================================================================
