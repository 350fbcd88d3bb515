---------------------------- MODULE ReportDelivery ----------------------------
(***************************************************************************)
(* What the sync promises for each report and each of the two workers:     *)
(* submissions are sent until one is acknowledged in the log and never     *)
(* after that; an acknowledgement means that the municipality has the      *)
(* submission and is never taken back; and the pending list only loses     *)
(* reports the municipality has.                                           *)
(***************************************************************************)
EXTENDS Naturals

CONSTANTS Report, Worker,
          Trusted     \* workers whose acknowledgement rests on a stored file

VARIABLES sent,       \* sent[w][p] : submissions the municipality stored
          acked,      \* acked[w] : the reports acknowledged for w
          listed      \* the reports still pending

vars == <<sent, acked, listed>>

Init ==
  /\ sent = [w \in Worker |-> [p \in Report |-> 0]]
  /\ acked = [w \in Worker |-> {}]
  /\ listed = Report

Deliver(w, p) ==
  /\ p \notin acked[w]
  /\ sent' = [sent EXCEPT ![w][p] = @ + 1]
  /\ UNCHANGED <<acked, listed>>

Acknowledge(w, p) ==
  /\ w \in Trusted => sent[w][p] > 0
  /\ acked' = [acked EXCEPT ![w] = @ \cup {p}]
  /\ UNCHANGED <<sent, listed>>

Unlist(p) ==
  /\ sent["SaveEngineerReport"][p] > 0
  /\ listed' = listed \ {p}
  /\ UNCHANGED <<sent, acked>>

Next ==
  \/ \E w \in Worker, p \in Report : Deliver(w, p) \/ Acknowledge(w, p)
  \/ \E p \in Report : Unlist(p)

Spec == Init /\ [][Next]_vars
=============================================================================
