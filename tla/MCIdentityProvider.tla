------------------------------ MODULE MCIdentityProvider ------------------------------
(* The two parts of the identity provider that hold a protocol of their own, the one-time *)
(* codes of a phone number and the administration of users, side by side in one run.       *)
EXTENDS OneTimeCodes, UserAdministration

MCUpdates == {{"userName", "locked"}, {"phoneNumber"}}
\* Requests are alike: which of the slots handles one makes no difference; so are the
\* administrators there are at first.
Symmetry == Permutations(Slot) \cup Permutations(Caller)

VARIABLE scene
vars == <<scene, otpVars, adminVars>>

Init ==
  /\ OtpInit /\ AdminInit
  /\ \/ scene = "users" /\ Cardinality({u \in User : rows[u] # {}}) = 1
     \/ scene = "codes" /\ \A u \in User : rows[u] = {}

Codes == scene = "codes" /\ UNCHANGED <<scene, adminVars>>
Users == scene = "users" /\ UNCHANGED <<scene, otpVars>>

Next ==
  \/ Codes /\ Tick
  \/ Codes /\ RestartServer
  \/ \E s \in Slot : Codes /\ OnPostRequest(s)
  \/ \E s \in Slot : Codes /\ OnPostVerify(s)
  \/ \E s \in Slot : Codes /\ CheckCooldown(s)
  \/ \E s \in Slot : Codes /\ ReadSends(s)
  \/ \E s \in Slot : Codes /\ StoreCode(s)
  \/ \E s \in Slot : Codes /\ RemoveAttempts(s)
  \/ \E s \in Slot : Codes /\ ArmCooldown(s)
  \/ \E s \in Slot : Codes /\ CountSend(s)
  \/ \E s \in Slot : Codes /\ Send(s)
  \/ \E s \in Slot : Codes /\ ReadCode(s)
  \/ \E s \in Slot : Codes /\ ReadAttempts(s)
  \/ \E s \in Slot : Codes /\ RemoveCode(s)
  \/ \E s \in Slot : Codes /\ CountAttempt(s)
  \/ Users /\ SignIn
  \/ \E d \in Desk : Users /\ SetRoles(d)
  \/ \E d \in Desk : Users /\ SetServices(d)
  \/ \E d \in Desk : Users /\ UpdateUser(d)
  \/ \E d \in Desk : Users /\ DeleteUser(d)
  \/ \E d \in Desk : Users /\ CreateUser(d)
  \/ \E d \in Desk : Users /\ FindById(d)
  \/ \E d \in Desk : Users /\ ReadRoles(d)
  \/ \E d \in Desk : Users /\ CountAdministrators(d)
  \/ \E d \in Desk : Users /\ SaveFails(d)
  \/ \E d \in Desk : Users /\ RemoveFromRoles(d)
  \/ \E d \in Desk : Users /\ AddToRoles(d)
  \/ \E d \in Desk : Users /\ Set(d)
  \/ \E d \in Desk : Users /\ TryRevoke(d)
  \/ \E d \in Desk : Users /\ Delete(d)
  \/ \E d \in Desk : Users /\ Create(d)
  \/ \E d \in Desk : Users /\ ReadRows(d)
  \/ \E d \in Desk : Users /\ SaveRows(d)

Spec == Init /\ [][Next]_vars
====================================================================================
