----------------------------- MODULE UserAdministration -----------------------------
(* The administration of users: AdminController over the stores of ASP.NET Identity, the *)
(* service access and the authorizations.  A request runs in a slot, one call to the      *)
(* database at a time.  A save of a user is refused when the stamp it was found with has   *)
(* changed; the rows of the services are replaced in one transaction.                      *)
EXTENDS Integers, FiniteSets, SequencesExt

CONSTANTS Desk,        \* requests the server handles at a time
          User, Caller,   \* users; those of them with an administrator's token
          NewUser,     \* the user that is created
          Service,     \* services there may be grants of
          Updates,     \* the sets of fields an update may carry
          MaxRequests  \* bound: requests
ASSUME AdminAssumption == Caller \subseteq User /\ Caller # {} /\ NewUser \in User \ Caller

VARIABLES users,       \* User -> [there, stamp, roles, profile]: the row and its roles
          rows,        \* User -> the services granted
          authorized,  \* users with a valid authorization
          req,         \* Desk -> the request it handles
          requests,    \* requests so far
          alone,       \* no two requests, or sign-ins, at a time
          mixed        \* users whose rows two replacements wrote
adminVars == <<users, rows, authorized, req, requests, alone, mixed>>

Role == {"Administrator", "User"}
Fields == <<"userName", "email", "phoneNumber", "locked">>
\* An update without a field saves nothing.
ASSUME UpdatesAssumption == Updates \subseteq (SUBSET ToSet(Fields)) \ {{}}
Blank == [f \in ToSet(Fields) |-> 0]
NoRequest == [kind |-> "none", pc |-> "idle", by |-> NewUser, user |-> NewUser, stamp |-> 0,
         desired |-> {}, read |-> {}, grants |-> {}, number |-> 0, met |-> FALSE]
Unserved == \A d \in Desk : req[d].pc \in {"idle", "done"}
Administrators == {u \in User : users[u].there /\ "Administrator" \in users[u].roles}

AdminInit ==
  /\ users = [u \in User |-> [there |-> u # NewUser, stamp |-> 0, profile |-> Blank,
                              roles |-> IF u \in Caller THEN {"Administrator"} ELSE {}]]
  /\ rows \in {r \in [User -> {{}, Service}] : r[NewUser] = {}}
  /\ authorized = Caller
  /\ req = [d \in Desk |-> NoRequest]
  /\ requests = 0 /\ alone = TRUE /\ mixed = {}

(* ------------------------------------ requests ---------------------------------------- *)
Take(d, fields) ==
  /\ requests < MaxRequests /\ requests' = requests + 1
  /\ req[d].pc \in {"idle", "done"}
  /\ req' = [req EXCEPT ![d] = [NoRequest EXCEPT !.kind = fields.kind, !.pc = fields.pc,
               !.by = fields.by, !.user = fields.user, !.desired = fields.desired,
               !.grants = fields.grants, !.number = requests + 1]]
  /\ alone' = (alone /\ Unserved)
  /\ UNCHANGED <<users, rows, authorized, mixed>>
Request(kind, pc, by, user, desired, grants) ==
  [kind |-> kind, pc |-> pc, by |-> by, user |-> user, desired |-> desired, grants |-> grants]
SetRoles(d) ==
  \E by \in Caller, u \in User : \E roles \in SUBSET Role :
    Take(d, Request("roles", "find", by, u, roles, {}))
SetServices(d) ==
  \E u \in User : \E services \in SUBSET Service :
    Take(d, Request("services", "find", NewUser, u, {}, services))
UpdateUser(d) ==
  \E by \in Caller, u \in User : \E fields \in Updates :
    Take(d, Request("update", "find", by, u, fields, {}))
DeleteUser(d) ==
  \E by \in Caller, u \in User : Take(d, Request("delete", "find", by, u, {}, {}))
CreateUser(d) ==
  \E roles \in {{}, {"User"}} : \E services \in {{}, Service} :
    Take(d, Request("create", "create", NewUser, NewUser, roles, services))

Subject(d) == users[req[d].user]
\* "met": what was asked for is what the store holds as the answer is decided.
Answer(d, met) ==
  req' = [req EXCEPT ![d] = [NoRequest EXCEPT !.pc = "done", !.met = met]]
Refuse(d) == req' = [req EXCEPT ![d] = NoRequest]
Reading == UNCHANGED <<users, rows, authorized, requests, alone, mixed>>

\* Where a request goes once it is clear what is to be saved, next or last.
Saves(d, read) ==
  IF req[d].kind = "delete" THEN "revoke"
  ELSE IF read \ req[d].desired # {} THEN "remove"
  ELSE IF req[d].desired \ read # {} THEN "add" ELSE "done"

FindById(d) ==
  /\ req[d].pc = "find"
  /\ LET r == req[d]
         self == r.by = r.user
         pc == CASE r.kind = "services" -> "readRows"
                 [] r.kind = "update" -> "set"
                 [] OTHER -> "readRoles"
     IN IF ~ Subject(d).there \/ (r.kind = "delete" /\ self) THEN Refuse(d)
        ELSE req' = [req EXCEPT ![d].pc = pc, ![d].stamp = Subject(d).stamp]
  /\ Reading

\* GetRolesAsync, IsInRoleAsync: one administrator less is counted first.
ReadRoles(d) ==
  /\ req[d].pc = "readRoles"
  /\ LET r == req[d]
         read == Subject(d).roles
         lessAdmin == "Administrator" \in read \ r.desired
     IN IF lessAdmin /\ r.by = r.user THEN Refuse(d)
        ELSE IF ~ lessAdmin /\ Saves(d, read) = "done" THEN Answer(d, read = r.desired)
        ELSE req' = [req EXCEPT ![d].pc = IF lessAdmin THEN "count" ELSE Saves(d, read),
                                ![d].read = read]
  /\ Reading

\* Mutant: the last administrator is not counted.
CountNobody(d) ==
  /\ req[d].pc = "count"
  /\ req' = [req EXCEPT ![d].pc = Saves(d, req[d].read)]
  /\ Reading
CountAdministrators(d) ==
  /\ req[d].pc = "count"
  /\ IF Cardinality(Administrators) <= 1 THEN Refuse(d)
     ELSE req' = [req EXCEPT ![d].pc = Saves(d, req[d].read)]
  /\ Reading

(* -------------------------------------- saves ----------------------------------------- *)
Fresh(d) == Subject(d).there /\ Subject(d).stamp = req[d].stamp
Saved(d, roles, profile) ==
  users' = [users EXCEPT ![req[d].user] = [there |-> TRUE, stamp |-> @.stamp + 1,
                                           roles |-> roles, profile |-> profile]]
Rest == UNCHANGED <<rows, authorized, requests, alone, mixed>>
\* The save is refused, or the database is not there: an error is the answer.
SaveFails(d) ==
  /\ req[d].pc \in {"remove", "add", "set", "revoke", "delete", "create", "saveRows"}
  /\ Refuse(d) /\ Reading

\* Mutant: a save does not look at the stamp.
RemoveFromRolesAnyway(d) ==
  /\ req[d].pc = "remove" /\ Subject(d).there
  /\ LET left == Subject(d).roles \ (req[d].read \ req[d].desired)
     IN /\ Saved(d, left, Subject(d).profile)
        /\ IF req[d].desired \subseteq req[d].read THEN Answer(d, left = req[d].desired)
           ELSE req' = [req EXCEPT ![d].pc = "add", ![d].stamp = Subject(d).stamp + 1]
  /\ Rest
RemoveFromRoles(d) ==
  /\ req[d].pc = "remove" /\ Fresh(d)
  /\ LET left == Subject(d).roles \ (req[d].read \ req[d].desired)
     IN /\ Saved(d, left, Subject(d).profile)
        /\ IF req[d].desired \subseteq req[d].read THEN Answer(d, left = req[d].desired)
           ELSE req' = [req EXCEPT ![d].pc = "add", ![d].stamp = Subject(d).stamp + 1]
  /\ Rest
\* A user that was just created goes on to the services.
AddToRoles(d) ==
  /\ req[d].pc = "add" /\ Fresh(d)
  /\ LET now == Subject(d).roles \cup (req[d].desired \ req[d].read)
     IN /\ Saved(d, now, Subject(d).profile)
        /\ IF req[d].kind = "create" THEN req' = [req EXCEPT ![d].pc = "readRows"]
           ELSE Answer(d, now = req[d].desired)
  /\ Rest

\* One save after another, in the order of the fields; nobody locks himself.
Set(d) ==
  /\ req[d].pc = "set"
  /\ LET r == req[d]
         first == CHOOSE i \in DOMAIN Fields :
                    /\ Fields[i] \in r.desired
                    /\ \A j \in 1..(i - 1) : Fields[j] \notin r.desired
         profile == [Subject(d).profile EXCEPT ![Fields[first]] = r.number]
         left == r.desired \ {Fields[first]}
     IN IF Fields[first] = "locked" /\ r.by = r.user THEN Refuse(d) /\ UNCHANGED users
        ELSE /\ Fresh(d) /\ Saved(d, Subject(d).roles, profile)
             /\ IF left = {} THEN Answer(d, \A f \in r.read \cup r.desired : profile[f] = r.number)
                ELSE req' = [req EXCEPT ![d].desired = left, ![d].read = @ \cup {Fields[first]},
                                        ![d].stamp = @ + 1]
  /\ Rest

\* An authorization somebody else writes at that moment stays, and nobody is told.
TryRevoke(d) ==
  /\ req[d].pc = "revoke"
  /\ \/ authorized' = authorized \ {req[d].user}
     \/ ~ alone /\ UNCHANGED authorized
  /\ req' = [req EXCEPT ![d].pc = "delete"]
  /\ UNCHANGED <<users, rows, requests, alone, mixed>>
\* The rows of the services go with the user's.
Delete(d) ==
  /\ req[d].pc = "delete" /\ Fresh(d)
  /\ users' = [users EXCEPT ![req[d].user] = [there |-> FALSE, stamp |-> @.stamp + 1,
                                              roles |-> {}, profile |-> Blank]]
  /\ rows' = [rows EXCEPT ![req[d].user] = {}]
  /\ Answer(d, alone => req[d].user \notin authorized)
  /\ UNCHANGED <<authorized, requests, alone, mixed>>

Create(d) ==
  /\ req[d].pc = "create"
  /\ IF Subject(d).there THEN Refuse(d) /\ UNCHANGED users
     ELSE /\ Saved(d, {}, Blank)
          /\ req' = [req EXCEPT ![d].pc = IF req[d].desired = {} THEN "readRows" ELSE "add",
                                ![d].stamp = Subject(d).stamp + 1]
  /\ Rest

\* ReplaceAsync: a row that was read and is gone, or one that is there twice, undoes it all.
ReadRows(d) ==
  /\ req[d].pc = "readRows"
  /\ req' = [req EXCEPT ![d].pc = "saveRows", ![d].read = rows[req[d].user]]
  /\ Reading
SaveRows(d) ==
  /\ req[d].pc = "saveRows" /\ Subject(d).there
  /\ LET r == req[d]
         others == rows[r.user] \ r.read
     IN /\ r.read \subseteq rows[r.user] /\ r.grants \cap others = {}
        /\ rows' = [rows EXCEPT ![r.user] = r.grants \cup others]
        /\ mixed' = IF others = {} THEN mixed ELSE mixed \cup {r.user}
        /\ Answer(d, r.user \in mixed' \/ rows'[r.user] = r.grants)
  /\ UNCHANGED <<users, authorized, requests, alone>>

SignIn ==
  /\ \E u \in User : users[u].there /\ u \notin authorized /\ authorized' = authorized \cup {u}
  /\ alone' = (alone /\ Unserved)
  /\ UNCHANGED <<users, rows, req, requests, mixed>>

(* ----------------------------------- properties --------------------------------------- *)
\* The last administrator is never removed, neither the role nor the user, whoever asks, with
\* a token that may be older than the loss of the role - as long as requests come one at a time.
AnAdministratorStays == alone => Administrators # {}
\* Whatever runs at the same time and wherever a save fails: "204" means that at that moment
\* the user had the roles, the fields or the services that were asked for, or was gone and
\* signed out.  The services of a user who had none are excepted, two first grants are both
\* kept; and a sign-in during the deletion.
SuccessMeansDesired == \A d \in Desk : req[d].pc = "done" => req[d].met
====================================================================================
