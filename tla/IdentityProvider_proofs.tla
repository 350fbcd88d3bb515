--------------------------- MODULE IdentityProvider_proofs ---------------------------
(* The one-time codes and the administration of users, for every number of requests at a  *)
(* time, every cap and every set of users.  The two parts share no variable, so a step of  *)
(* their composition is a step of one of them.                                              *)
EXTENDS MCIdentityProvider, FiniteSetTheorems, TLAPS

OtpNext ==
  \/ Tick \/ RestartServer
  \/ \E s \in Slot : \/ OnPostRequest(s) \/ OnPostVerify(s) \/ CheckCooldown(s) \/ ReadSends(s)
                     \/ StoreCode(s) \/ RemoveAttempts(s) \/ ArmCooldown(s) \/ CountSend(s)
                     \/ Send(s) \/ ReadCode(s) \/ ReadAttempts(s) \/ RemoveCode(s)
                     \/ CountAttempt(s)
AdminNext ==
  \/ SignIn
  \/ \E d \in Desk : \/ SetRoles(d) \/ SetServices(d) \/ UpdateUser(d) \/ DeleteUser(d)
                     \/ CreateUser(d) \/ FindById(d) \/ ReadRoles(d) \/ CountAdministrators(d)
                     \/ SaveFails(d) \/ RemoveFromRoles(d) \/ AddToRoles(d) \/ Set(d)
                     \/ TryRevoke(d) \/ Delete(d) \/ Create(d) \/ ReadRows(d) \/ SaveRows(d)

LEMMA StepsOfProvider ==
  ASSUME [Next]_vars PROVE [OtpNext]_otpVars /\ [AdminNext]_adminVars
<1>1. CASE UNCHANGED vars
  BY <1>1 DEF vars
<1>2. CASE Next
  <2>1. CASE Codes /\ OtpNext
    BY <2>1 DEF Codes
  <2>2. CASE Users /\ AdminNext
    BY <2>2 DEF Users
  <2>3. (Codes /\ OtpNext) \/ (Users /\ AdminNext)
    BY <1>2 DEF Next, OtpNext, AdminNext
  <2>4. QED
    BY <2>1, <2>2, <2>3
<1>3. QED
  BY <1>1, <1>2

------------------------------------------------------------------------------------
(* The codes. *)

\* What a verification has read was not given up when the verification came, because the
\* cache never holds a code that was given up.
Served(pc, typed, stored, count, given) ==
  [pc |-> pc, typed |-> typed, stored |-> stored, count |-> count, dead |-> given]
Verifying == {"readAttempts", "invalidate", "removeCode"}
Sound(request) ==
  /\ request = Served(request.pc, request.typed, request.stored, request.count, request.dead)
  /\ request.dead \subseteq dead
  /\ request.pc \in Verifying => request.stored \in (1..drawn) \ request.dead
CacheSound ==
  /\ cache = [k \in Keys |-> cache[k]]
  /\ cache["code"] # NoCode => cache["code"].value \in (1..drawn) \ dead
CodesInv ==
  /\ drawn \in Nat /\ dead \subseteq 1..drawn
  /\ CacheSound
  /\ otp = [s \in Slot |-> otp[s]]
  /\ \A s \in Slot : Sound(otp[s])

LEMMA FreeIsSound == Sound(Free) /\ Sound(Free)'
  BY DEF Sound, Served, Free, Verifying

LEMMA ServedIsSound ==
  ASSUME NEW pc, NEW typed, NEW stored, NEW count, NEW given, given \subseteq dead,
         pc \in Verifying => stored \in (1..drawn) \ given
  PROVE  Sound(Served(pc, typed, stored, count, given))
  BY DEF Sound, Served

\* A request as it is changed by its calls.
LEMMA RequestChanged ==
  ASSUME NEW r, r = Served(r.pc, r.typed, r.stored, r.count, r.dead), NEW pc
  PROVE  /\ [r EXCEPT !.pc = pc] = Served(pc, r.typed, r.stored, r.count, r.dead)
         /\ \A n : /\ [r EXCEPT !.pc = pc, !.count = n] = Served(pc, r.typed, r.stored, n, r.dead)
                   /\ [r EXCEPT !.pc = pc, !.stored = n] = Served(pc, r.typed, n, r.count, r.dead)
<1> DEFINE next == Served(pc, r.typed, r.stored, r.count, r.dead)
<1>1. [r EXCEPT !.pc = pc] = next
  BY DEF Served
<1>2. ASSUME NEW n
      PROVE  /\ [next EXCEPT !.count = n] = Served(pc, r.typed, r.stored, n, r.dead)
             /\ [next EXCEPT !.stored = n] = Served(pc, r.typed, n, r.count, r.dead)
  BY DEF Served
<1>3. ASSUME NEW n
      PROVE  /\ [r EXCEPT !.pc = pc, !.count = n] = [[r EXCEPT !.pc = pc] EXCEPT !.count = n]
             /\ [r EXCEPT !.pc = pc, !.stored = n] = [[r EXCEPT !.pc = pc] EXCEPT !.stored = n]
  BY SMT
<1> HIDE DEF next
<1>4. QED
  BY <1>1, <1>2, <1>3 DEF next

LEMMA CodesStart == ASSUME OtpInit PROVE CodesInv
  BY FreeIsSound DEF OtpInit, CodesInv, CacheSound, Keys

\* A step of one request; codes may be drawn, and given up.
LEMMA RequestMoves ==
  ASSUME CodesInv, NEW s \in Slot, NEW request, Sound(request)', CacheSound',
         otp' = [otp EXCEPT ![s] = request],
         drawn' \in Nat, drawn <= drawn', dead \subseteq dead', dead' \subseteq 1..drawn'
  PROVE  CodesInv'
<1>1. 1..drawn \subseteq 1..drawn'
  BY DEF CodesInv
<1>2. \A r : Sound(r) => Sound(r)'
  BY <1>1 DEF Sound
<1>3. otp' = [t \in Slot |-> otp'[t]] /\ \A t \in Slot : otp'[t] = request \/ otp'[t] = otp[t]
  BY DEF CodesInv
<1>4. \A t \in Slot : Sound(otp[t])
  BY DEF CodesInv
<1>5. \A t \in Slot : otp'[t] = otp[t] => Sound(otp[t])'
  BY <1>2, <1>4 DEF Sound
<1>6. \A t \in Slot : otp'[t] = request => Sound(otp[t])'
  BY DEF Sound
<1>7. QED
  BY <1>3, <1>5, <1>6 DEF CodesInv

LEMMA CacheKept ==
  ASSUME CacheSound, UNCHANGED <<cache, drawn, dead>> PROVE CacheSound'
  BY DEF CacheSound
LEMMA OtherKeyWritten ==
  ASSUME CacheSound, NEW k \in Keys \ {"code"}, NEW entry,
         cache' = [cache EXCEPT ![k] = entry], UNCHANGED <<drawn, dead>>
  PROVE  CacheSound'
  BY DEF CacheSound, Keys

\* A step of one request that draws no code and gives none up.
LEMMA RequestStays ==
  ASSUME CodesInv, NEW s \in Slot, NEW request, Sound(request), CacheSound',
         otp' = [otp EXCEPT ![s] = request], UNCHANGED <<drawn, dead>>
  PROVE  CodesInv'
<1>1. Sound(request)'
  BY DEF Sound
<1>2. drawn' \in Nat /\ drawn <= drawn' /\ dead \subseteq dead' /\ dead' \subseteq 1..drawn'
  BY DEF CodesInv
<1>3. QED
  BY <1>1, <1>2, RequestMoves

LEMMA CodesStep == ASSUME CodesInv, [OtpNext]_otpVars PROVE CodesInv'
<1>1. CASE UNCHANGED <<cache, otp, drawn, dead>>
  BY <1>1 DEF CodesInv, CacheSound, Sound
<1>2. CASE Tick \/ UNCHANGED otpVars
  BY <1>1, <1>2 DEF Tick, otpVars
<1>3. CASE RestartServer
  <2>1. /\ drawn' = drawn /\ dead' = 1..drawn /\ cache' = [k \in Keys |-> NoCode]
        /\ otp' = [s \in Slot |-> Free]
    BY <1>3 DEF RestartServer
  <2>2. CacheSound' /\ drawn' \in Nat /\ dead' \subseteq 1..drawn'
    BY <2>1 DEF CacheSound, Keys, CodesInv
  <2>3. otp' = [s \in Slot |-> otp'[s]] /\ \A s \in Slot : otp'[s] = Free
    BY <2>1
  <2>4. \A s \in Slot : Sound(otp[s])'
    BY <2>3, FreeIsSound DEF Sound
  <2>5. QED
    BY <2>2, <2>3, <2>4 DEF CodesInv
<1>4. CacheSound /\ drawn \in Nat /\ dead \subseteq 1..drawn
  BY DEF CodesInv
<1>5. \A s \in Slot : /\ Sound(otp[s])
                      /\ otp[s] = Served(otp[s].pc, otp[s].typed, otp[s].stored, otp[s].count, otp[s].dead)
                      /\ otp[s].dead \subseteq dead
  BY DEF CodesInv, Sound
<1>6. ASSUME NEW s \in Slot, NEW pc, pc \notin Verifying
      PROVE  /\ Sound([otp[s] EXCEPT !.pc = pc])
             /\ \A n : Sound([otp[s] EXCEPT !.pc = pc, !.count = n])
  <2>1. \A n : Sound(Served(pc, otp[s].typed, otp[s].stored, n, otp[s].dead))
    BY <1>5, <1>6, ServedIsSound
  <2>2. Sound(Served(pc, otp[s].typed, otp[s].stored, otp[s].count, otp[s].dead))
    BY <2>1
  <2>3. /\ [otp[s] EXCEPT !.pc = pc]
             = Served(pc, otp[s].typed, otp[s].stored, otp[s].count, otp[s].dead)
        /\ \A n : [otp[s] EXCEPT !.pc = pc, !.count = n]
                    = Served(pc, otp[s].typed, otp[s].stored, n, otp[s].dead)
    BY <1>5, RequestChanged
  <2>4. Sound([otp[s] EXCEPT !.pc = pc])
    BY <2>2, <2>3
  <2>5. ASSUME NEW n PROVE Sound([otp[s] EXCEPT !.pc = pc, !.count = n])
    <3>1. [otp[s] EXCEPT !.pc = pc, !.count = n]
            = Served(pc, otp[s].typed, otp[s].stored, n, otp[s].dead)
      BY <2>3
    <3>2. Sound(Served(pc, otp[s].typed, otp[s].stored, n, otp[s].dead))
      BY <2>1
    <3>3. QED
      BY <3>1, <3>2
  <2>6. QED
    BY <2>4, <2>5
<1>7. ASSUME NEW s \in Slot, OnPostRequest(s) \/ OnPostVerify(s) PROVE CodesInv'
  <2>1. PICK pc \in {"checkCooldown", "readCode"} : \E typed : Arrives(s, pc, typed)
    BY <1>7 DEF OnPostRequest, OnPostVerify
  <2>2. PICK typed : Arrives(s, pc, typed)
    BY <2>1
  <2>3. [Free EXCEPT !.pc = pc, !.typed = typed, !.dead = dead] = Served(pc, typed, NoCode, 0, dead)
    <3>1. [Free EXCEPT !.pc = pc, !.typed = typed, !.dead = dead]
            = [[[Free EXCEPT !.pc = pc] EXCEPT !.typed = typed] EXCEPT !.dead = dead]
      BY SMT
    <3>2. [Free EXCEPT !.pc = pc] = Served(pc, NoCode, NoCode, 0, {})
      BY DEF Free, Served
    <3>3. [Served(pc, NoCode, NoCode, 0, {}) EXCEPT !.typed = typed] = Served(pc, typed, NoCode, 0, {})
      BY DEF Served
    <3>4. [Served(pc, typed, NoCode, 0, {}) EXCEPT !.dead = dead] = Served(pc, typed, NoCode, 0, dead)
      BY DEF Served
    <3>5. QED
      BY <3>1, <3>2, <3>3, <3>4
  <2>4. otp' = [otp EXCEPT ![s] = Served(pc, typed, NoCode, 0, dead)] /\ UNCHANGED <<cache, drawn, dead>>
    BY <2>2, <2>3 DEF Arrives
  <2>5. Sound(Served(pc, typed, NoCode, 0, dead))
    BY ServedIsSound DEF Verifying
  <2>6. QED
    BY <1>4, <2>4, <2>5, CacheKept, RequestStays
<1>8. ASSUME NEW s \in Slot, CheckCooldown(s) \/ ReadSends(s) PROVE CodesInv'
  <2>1. UNCHANGED <<cache, drawn, dead>>
    BY <1>8 DEF CheckCooldown, ReadSends, Quiet
  <2>2. \/ otp' = [otp EXCEPT ![s] = Free]
        \/ otp' = [otp EXCEPT ![s] = [otp[s] EXCEPT !.pc = "readSends"]]
        \/ otp' = [otp EXCEPT ![s] = [otp[s] EXCEPT !.pc = "storeCode", !.count = Count("sends")]]
    BY <1>8 DEF CheckCooldown, ReadSends, Goto, Leave
  <2>3. "readSends" \notin Verifying /\ "storeCode" \notin Verifying
    BY DEF Verifying
  <2>4. QED
    BY <1>4, <1>6, <2>1, <2>2, <2>3, CacheKept, RequestStays, FreeIsSound
<1>9. ASSUME NEW s \in Slot, StoreCode(s) PROVE CodesInv'
  <2> DEFINE new == Served("removeAttempts", otp[s].typed, drawn + 1, otp[s].count, otp[s].dead)
  <2>1. /\ drawn' = drawn + 1 /\ dead' = 1..drawn
        /\ cache' = [cache EXCEPT !["code"] = Entry(drawn + 1, Ttl)]
        /\ otp' = [otp EXCEPT ![s] = [otp[s] EXCEPT !.pc = "removeAttempts", !.stored = drawn + 1]]
    BY <1>9 DEF StoreCode
  <2>2. otp' = [otp EXCEPT ![s] = new]
    BY <1>5, <2>1, RequestChanged
  <2>3. drawn' \in Nat /\ drawn <= drawn' /\ dead \subseteq dead' /\ dead' \subseteq 1..drawn'
    BY <1>4, <2>1
  <2>4. cache' = [k \in Keys |-> cache'[k]] /\ cache'["code"].value = drawn + 1
    BY <1>4, <2>1 DEF CacheSound, Keys, Entry
  <2>5. drawn + 1 \in (1..(drawn + 1)) \ (1..drawn)
    BY <1>4
  <2>6. CacheSound'
    BY <2>1, <2>4, <2>5 DEF CacheSound
  <2>7. otp[s].dead \subseteq dead'
    BY <1>5, <2>3
  <2>8. \A typed, stored, count, given :
          given \subseteq dead' => Sound(Served("removeAttempts", typed, stored, count, given))'
    BY DEF Sound, Served, Verifying
  <2>9. PICK request : request = new
    OBVIOUS
  <2>10. Sound(request)'
    BY <2>7, <2>8, <2>9
  <2>11. QED
    BY <2>2, <2>3, <2>6, <2>9, <2>10, RequestMoves
<1>10. ASSUME NEW s \in Slot, RemoveAttempts(s) \/ ArmCooldown(s) \/ CountSend(s) \/ CountAttempt(s)
       PROVE  CodesInv'
  <2>1. UNCHANGED <<drawn, dead>>
    BY <1>10 DEF RemoveAttempts, ArmCooldown, CountSend, CountAttempt, Quiet
  <2>2. \/ otp' = [otp EXCEPT ![s] = Free]
        \/ otp' = [otp EXCEPT ![s] = [otp[s] EXCEPT !.pc = "armCooldown"]]
        \/ otp' = [otp EXCEPT ![s] = [otp[s] EXCEPT !.pc = "countSend"]]
        \/ otp' = [otp EXCEPT ![s] = [otp[s] EXCEPT !.pc = "send"]]
    BY <1>10 DEF RemoveAttempts, ArmCooldown, CountSend, CountAttempt, Goto, Leave
  <2>3. PICK k \in Keys \ {"code"} : \E entry : cache' = [cache EXCEPT ![k] = entry]
    BY <1>10 DEF RemoveAttempts, ArmCooldown, CountSend, CountAttempt, Keys
  <2>4. CacheSound'
    BY <1>4, <2>1, <2>3, OtherKeyWritten
  <2>5. {"armCooldown", "countSend", "send"} \cap Verifying = {}
    BY DEF Verifying
  <2>6. QED
    BY <1>6, <2>1, <2>2, <2>4, <2>5, RequestStays, FreeIsSound
<1>11. ASSUME NEW s \in Slot, Send(s) PROVE CodesInv'
  BY <1>4, <1>11, CacheKept, RequestStays, FreeIsSound DEF Send, Leave
<1>12. ASSUME NEW s \in Slot, ReadCode(s) PROVE CodesInv'
  <2> DEFINE read == cache["code"].value
             new == Served("readAttempts", otp[s].typed, read, otp[s].count, otp[s].dead)
  <2>1. UNCHANGED <<cache, drawn, dead>>
    BY <1>12 DEF ReadCode, Quiet
  <2>2. \/ /\ cache["code"] # NoCode
           /\ otp' = [otp EXCEPT ![s] = [otp[s] EXCEPT !.pc = "readAttempts", !.stored = read]]
        \/ otp' = [otp EXCEPT ![s] = Free]
    BY <1>12 DEF ReadCode, Live, Leave
  <2>3. cache["code"] # NoCode => read \in (1..drawn) \ dead
    BY <1>4 DEF CacheSound
  <2> HIDE DEF read
  <2>4. [otp[s] EXCEPT !.pc = "readAttempts", !.stored = read] = new
    <3>1. \A n : [otp[s] EXCEPT !.pc = "readAttempts", !.stored = n]
                   = Served("readAttempts", otp[s].typed, n, otp[s].count, otp[s].dead)
      BY <1>5, RequestChanged
    <3>2. QED
      BY <3>1
  <2>5. cache["code"] # NoCode => Sound(new)
    BY <1>5, <2>3, ServedIsSound
  <2> HIDE DEF new
  <2>6. QED
    BY <1>4, <2>1, <2>2, <2>4, <2>5, CacheKept, RequestStays, FreeIsSound
<1>13. ASSUME NEW s \in Slot, ReadAttempts(s) PROVE CodesInv'
  <2> DEFINE n == Count("attempts")
  <2>1. UNCHANGED <<cache, drawn, dead>> /\ otp[s].pc = "readAttempts"
    BY <1>13 DEF ReadAttempts
  <2>2. PICK pc : otp' = [otp EXCEPT ![s] = [otp[s] EXCEPT !.pc = pc, !.count = n]]
    BY <1>13 DEF ReadAttempts
  <2> HIDE DEF n
  <2>3. [otp[s] EXCEPT !.pc = pc, !.count = n]
          = Served(pc, otp[s].typed, otp[s].stored, n, otp[s].dead)
    BY <1>5, RequestChanged
  <2>4. otp[s].stored \in (1..drawn) \ otp[s].dead
    BY <1>5, <2>1 DEF Sound, Verifying
  <2>5. Sound(Served(pc, otp[s].typed, otp[s].stored, n, otp[s].dead))
    BY <1>5, <2>4, ServedIsSound
  <2>6. QED
    BY <1>4, <2>1, <2>2, <2>3, <2>5, CacheKept, RequestStays
<1>14. ASSUME NEW s \in Slot, RemoveCode(s) PROVE CodesInv'
  <2>1. /\ UNCHANGED drawn /\ dead' = dead \cup {otp[s].stored}
        /\ cache' = [cache EXCEPT !["code"] = NoCode]
        /\ otp[s].pc \in {"invalidate", "removeCode"}
    BY <1>14 DEF RemoveCode
  <2>2. \/ otp' = [otp EXCEPT ![s] = Free]
        \/ otp' = [otp EXCEPT ![s] = [otp[s] EXCEPT !.pc = "forgetAttempts"]]
    BY <1>14 DEF RemoveCode, Goto, Leave
  <2>3. otp[s].stored \in 1..drawn
    BY <1>5, <2>1 DEF Sound, Verifying
  <2>4. dead \subseteq dead' /\ dead' \subseteq 1..drawn'
    BY <1>4, <2>1, <2>3
  <2>5. CacheSound'
    BY <1>4, <2>1 DEF CacheSound, Keys
  <2>6. \A r : Sound(r) => Sound(r)'
    BY <2>1, <2>4 DEF Sound
  <2>7. PICK r : r = [otp[s] EXCEPT !.pc = "forgetAttempts"]
    OBVIOUS
  <2>10. Sound(r)'
    BY <1>6, <2>6, <2>7 DEF Verifying
  <2>8. drawn' \in Nat /\ drawn <= drawn'
    BY <1>4, <2>1
  <2>9. QED
    BY <2>2, <2>4, <2>5, <2>7, <2>8, <2>10, FreeIsSound, RequestMoves
<1>15. QED
  BY <1>2, <1>3, <1>7, <1>8, <1>9, <1>10, <1>11, <1>12, <1>13, <1>14 DEF OtpNext

\* A code is accepted only if it had not been replaced, used up or lost when the verification
\* came, however many requests and verifications of the number run at the same time.
THEOREM SupersededCodesAreRefusedHolds == Spec => []SupersededCodesAreRefused
<1>1. Init => CodesInv
  BY CodesStart DEF Init
<1>2. CodesInv /\ [Next]_vars => CodesInv'
  BY CodesStep, StepsOfProvider
<1>3. CodesInv => SupersededCodesAreRefused
  BY DEF CodesInv, Sound, Verifying, SupersededCodesAreRefused
<1>4. QED
  BY <1>1, <1>2, <1>3, PTL DEF Spec

------------------------------------------------------------------------------------
(* The caps, as long as requests come one at a time. *)

\* What the keys and the counters hold, whatever runs at the same time.
Stored == [value : Nat, until : Nat]
CapTypes ==
  /\ now \in Nat /\ undisturbed \in BOOLEAN
  /\ \A k \in Keys : cache[k] \in Stored \cup {NoCode}
  /\ \A s \in Slot : otp[s].count \in Nat
  /\ IsFiniteSet(messages) /\ \A m \in messages : m.at \in 0..now
  /\ guesses \in [1..MaxArrivals -> Nat]
CapsInv == CodesInv /\ CapTypes
OneAtATime == \A s, t \in Slot : otp[s].pc # "idle" /\ otp[t].pc # "idle" => s = t

\* What a step makes of the request it belongs to, and of no other.
Turns(s, pc, stored, count) ==
  /\ otp'[s].pc = pc /\ otp'[s].stored = stored /\ otp'[s].count = count
  /\ \A t \in Slot \ {s} : otp'[t] = otp[t]
Turned(s, pc) == Turns(s, pc, otp[s].stored, otp[s].count)
Left(s) == Turns(s, "idle", NoCode, 0)

LEMMA LeaveTurns ==
  ASSUME CodesInv, NEW s \in Slot, Leave(s) PROVE Left(s)
  BY DEF CodesInv, Leave, Left, Turns, Free
LEMMA GotoTurns ==
  ASSUME CodesInv, NEW s \in Slot, NEW pc, Goto(s, pc) PROVE Turned(s, pc)
<1>1. otp[s] = Served(otp[s].pc, otp[s].typed, otp[s].stored, otp[s].count, otp[s].dead)
  BY DEF CodesInv, Sound
<1>2. otp' = [otp EXCEPT ![s] = Served(pc, otp[s].typed, otp[s].stored, otp[s].count, otp[s].dead)]
  BY <1>1, RequestChanged DEF Goto
<1>3. QED
  BY <1>2 DEF CodesInv, Turned, Turns, Served
LEMMA CountTurns ==
  ASSUME CodesInv, NEW s \in Slot, NEW pc, NEW n,
         otp' = [otp EXCEPT ![s].pc = pc, ![s].count = n]
  PROVE  Turns(s, pc, otp[s].stored, n)
<1>1. otp[s] = Served(otp[s].pc, otp[s].typed, otp[s].stored, otp[s].count, otp[s].dead)
  BY DEF CodesInv, Sound
<1>2. otp' = [otp EXCEPT ![s] = Served(pc, otp[s].typed, otp[s].stored, n, otp[s].dead)]
  <2>1. otp' = [otp EXCEPT ![s] = [otp[s] EXCEPT !.pc = pc, !.count = n]]
    OBVIOUS
  <2>2. \A v : [otp[s] EXCEPT !.pc = pc, !.count = v]
               = Served(pc, otp[s].typed, otp[s].stored, v, otp[s].dead)
    BY <1>1, RequestChanged
  <2>3. QED
    BY <2>1, <2>2
<1>3. QED
  BY <1>2 DEF CodesInv, Turns, Served
LEMMA StoredTurns ==
  ASSUME CodesInv, NEW s \in Slot, NEW pc, NEW n,
         otp' = [otp EXCEPT ![s].pc = pc, ![s].stored = n]
  PROVE  Turns(s, pc, n, otp[s].count)
<1>1. otp[s] = Served(otp[s].pc, otp[s].typed, otp[s].stored, otp[s].count, otp[s].dead)
  BY DEF CodesInv, Sound
<1>2. otp' = [otp EXCEPT ![s] = Served(pc, otp[s].typed, n, otp[s].count, otp[s].dead)]
  <2>1. otp' = [otp EXCEPT ![s] = [otp[s] EXCEPT !.pc = pc, !.stored = n]]
    OBVIOUS
  <2>2. \A v : [otp[s] EXCEPT !.pc = pc, !.stored = v]
               = Served(pc, otp[s].typed, v, otp[s].count, otp[s].dead)
    BY <1>1, RequestChanged
  <2>3. QED
    BY <2>1, <2>2
<1>3. QED
  BY <1>2 DEF CodesInv, Turns, Served

LEMMA ArrivalTurns ==
  ASSUME CodesInv, NEW s \in Slot, OnPostRequest(s) \/ OnPostVerify(s)
  PROVE  /\ UNCHANGED <<now, cache, drawn, messages, guesses>>
         /\ undisturbed' = (undisturbed /\ NobodyServed)
         /\ \E pc \in {"checkCooldown", "readCode"} : Turns(s, pc, NoCode, 0)
<1>1. PICK pc \in {"checkCooldown", "readCode"} : \E typed : Arrives(s, pc, typed)
  BY DEF OnPostRequest, OnPostVerify
<1>2. PICK typed : Arrives(s, pc, typed)
  BY <1>1
<1> DEFINE r == [Free EXCEPT !.pc = pc, !.typed = typed, !.dead = dead]
<1>3. r.pc = pc /\ r.stored = NoCode /\ r.count = 0
  BY DEF Free
<1>4. otp' = [otp EXCEPT ![s] = r]
  BY <1>2 DEF Arrives
<1> HIDE DEF r
<1>5. Turns(s, pc, NoCode, 0)
  BY <1>3, <1>4 DEF CodesInv, Turns
<1>6. QED
  BY <1>2, <1>5 DEF Arrives

\* A key as it is written, read and counted.
LEMMA KeyWritten ==
  ASSUME CodesInv, NEW k \in Keys, NEW entry, cache' = [cache EXCEPT ![k] = entry]
  PROVE  cache'[k] = entry /\ \A l \in Keys \ {k} : cache'[l] = cache[l]
  BY DEF CodesInv, CacheSound
LEMMA EntryIsStored ==
  ASSUME now \in Nat, NEW n \in Nat, NEW ttl \in Nat \ {0}
  PROVE  /\ Entry(n, ttl) \in Stored /\ Entry(n, ttl) # NoCode
         /\ Entry(n, ttl).value = n /\ Entry(n, ttl).until = now + ttl
  BY OtpAssumption DEF Entry, Stored
LEMMA CountIsNatural ==
  ASSUME CapTypes, NEW k \in Keys PROVE Count(k) \in Nat
  BY DEF CapTypes, Count, Live, Stored

\* A step that turns one request and sends nothing.
LEMMA TypesOfTurn ==
  ASSUME CapTypes, NEW s \in Slot, NEW pc, NEW stored, NEW count \in Nat, Turns(s, pc, stored, count),
         UNCHANGED <<now, messages>>, undisturbed' \in BOOLEAN,
         guesses' \in [1..MaxArrivals -> Nat],
         \A k \in Keys : cache'[k] = cache[k] \/ cache'[k] \in Stored \cup {NoCode}
  PROVE  CapTypes'
<1>1. \A t \in Slot : otp'[t].count \in Nat
  BY DEF CapTypes, Turns
<1>2. QED
  BY <1>1 DEF CapTypes

LEMMA TypesStep == ASSUME CapsInv, [OtpNext]_otpVars PROVE CapTypes'
<1> USE DEF CapsInv
<1>1. /\ now \in Nat /\ undisturbed \in BOOLEAN /\ guesses \in [1..MaxArrivals -> Nat]
      /\ \A s \in Slot : otp[s].count \in Nat
  BY DEF CapTypes
<1>2. {"code", "attempts", "cooldown", "sends"} \subseteq Keys
  BY DEF Keys
<1>3. CASE UNCHANGED otpVars
  BY <1>3 DEF otpVars, CapTypes
<1>4. CASE Tick
  <2>1. now' = now + 1 /\ undisturbed' \in BOOLEAN /\ UNCHANGED <<cache, otp, messages, guesses>>
    BY <1>1, <1>4 DEF Tick
  <2>2. QED
    BY <2>1 DEF CapTypes
<1>5. CASE RestartServer
  <2>1. /\ \A k \in Keys : cache'[k] = NoCode
        /\ \A s \in Slot : otp'[s] = Free
        /\ undisturbed' = FALSE /\ UNCHANGED <<now, messages, guesses>>
    BY <1>5 DEF RestartServer
  <2>2. \A s \in Slot : otp'[s].count \in Nat
    BY <2>1 DEF Free
  <2>3. QED
    BY <1>1, <2>1, <2>2 DEF CapTypes
<1>6. ASSUME NEW s \in Slot, OnPostRequest(s) \/ OnPostVerify(s) PROVE CapTypes'
  <2>1. PICK pc \in {"checkCooldown", "readCode"} : Turns(s, pc, NoCode, 0)
    BY <1>6, ArrivalTurns
  <2>2. undisturbed' \in BOOLEAN /\ UNCHANGED <<now, cache, messages, guesses>>
    BY <1>1, <1>6, ArrivalTurns
  <2>3. QED
    BY <1>1, <2>1, <2>2, TypesOfTurn
<1>7. ASSUME NEW s \in Slot, CheckCooldown(s) \/ ReadSends(s) \/ ReadCode(s) PROVE CapTypes'
  <2>1. UNCHANGED <<now, cache, messages, guesses, undisturbed>>
    BY <1>7 DEF CheckCooldown, ReadSends, ReadCode, Quiet
  <2>2. \/ Leave(s) \/ Goto(s, "readSends")
        \/ otp' = [otp EXCEPT ![s].pc = "storeCode", ![s].count = Count("sends")]
        \/ otp' = [otp EXCEPT ![s].pc = "readAttempts", ![s].stored = cache["code"].value]
    BY <1>7 DEF CheckCooldown, ReadSends, ReadCode
  <2>3. \E pc, stored : \E count \in Nat : Turns(s, pc, stored, count)
    <3>1. CASE Leave(s) \/ Goto(s, "readSends")
      BY <1>1, <3>1, LeaveTurns, GotoTurns DEF Left, Turned
    <3>2. CASE otp' = [otp EXCEPT ![s].pc = "storeCode", ![s].count = Count("sends")]
      BY <1>2, <3>2, CountTurns, CountIsNatural
    <3>3. CASE otp' = [otp EXCEPT ![s].pc = "readAttempts", ![s].stored = cache["code"].value]
      BY <1>1, <3>3, StoredTurns
    <3>4. QED
      BY <2>2, <3>1, <3>2, <3>3
  <2>4. QED
    BY <1>1, <2>1, <2>3, TypesOfTurn
<1>8. ASSUME NEW s \in Slot,
             \/ StoreCode(s) \/ RemoveAttempts(s) \/ ArmCooldown(s) \/ CountSend(s)
             \/ RemoveCode(s) \/ CountAttempt(s)
      PROVE  CapTypes'
  <2>1. UNCHANGED <<now, messages, guesses, undisturbed>>
    BY <1>8 DEF StoreCode, RemoveAttempts, ArmCooldown, CountSend, RemoveCode, CountAttempt, Quiet
  <2>2. \/ Leave(s) \/ \E pc : Goto(s, pc)
        \/ otp' = [otp EXCEPT ![s].pc = "removeAttempts", ![s].stored = drawn + 1]
    BY <1>8 DEF StoreCode, RemoveAttempts, ArmCooldown, CountSend, RemoveCode, CountAttempt
  <2>3. \E pc, stored : \E count \in Nat : Turns(s, pc, stored, count)
    BY <1>1, <2>2, LeaveTurns, GotoTurns, StoredTurns DEF Left, Turned
  <2>4. \A n \in Nat : {Entry(n, Ttl), Entry(n, Cooldown), Entry(n, Hour)} \subseteq Stored
    BY <1>1, EntryIsStored, OtpAssumption
  <2>5. drawn + 1 \in Nat /\ otp[s].count + 1 \in Nat
    BY <1>1 DEF CodesInv
  <2>6. \E k \in Keys : \E entry \in Stored \cup {NoCode} : cache' = [cache EXCEPT ![k] = entry]
    <3>1. CASE RemoveAttempts(s) \/ RemoveCode(s)
      BY <1>2, <3>1 DEF RemoveAttempts, RemoveCode
    <3>2. CASE StoreCode(s)
      BY <1>2, <2>4, <2>5, <3>2 DEF StoreCode
    <3>3. CASE ArmCooldown(s)
      BY <1>2, <2>4, <3>3 DEF ArmCooldown
    <3>4. CASE CountSend(s)
      BY <1>2, <2>4, <2>5, <3>4 DEF CountSend
    <3>5. CASE CountAttempt(s)
      BY <1>2, <2>4, <2>5, <3>5 DEF CountAttempt
    <3>6. QED
      BY <1>8, <3>1, <3>2, <3>3, <3>4, <3>5
  <2>7. \A k \in Keys : cache'[k] = cache[k] \/ cache'[k] \in Stored \cup {NoCode}
    BY <2>6, KeyWritten
  <2>8. QED
    BY <1>1, <2>1, <2>3, <2>7, TypesOfTurn
<1>9. ASSUME NEW s \in Slot, Send(s) PROVE CapTypes'
  <2>1. /\ messages' = messages \cup {[code |-> otp[s].stored, at |-> now]}
        /\ UNCHANGED <<now, cache, guesses, undisturbed>> /\ Left(s)
    BY <1>9, LeaveTurns DEF Send
  <2>2. IsFiniteSet(messages')
    BY <2>1, FS_AddElement DEF CapTypes
  <2>5. \A m \in messages' : m.at \in 0..now
    BY <1>1, <2>1 DEF CapTypes
  <2>3. \A t \in Slot : otp'[t].count \in Nat
    BY <1>1, <2>1 DEF Left, Turns
  <2>4. QED
    BY <2>1, <2>2, <2>3, <2>5 DEF CapTypes
<1>10. ASSUME NEW s \in Slot, ReadAttempts(s) PROVE CapTypes'
  <2>1. UNCHANGED <<now, cache, messages, undisturbed>>
    BY <1>10 DEF ReadAttempts
  <2>2. \E pc : otp' = [otp EXCEPT ![s].pc = pc, ![s].count = Count("attempts")]
    BY <1>10 DEF ReadAttempts
  <2>3. \E pc, stored : \E count \in Nat : Turns(s, pc, stored, count)
    BY <1>2, <2>2, CountTurns, CountIsNatural
  <2>4. guesses' = guesses \/ guesses' = [guesses EXCEPT ![otp[s].stored] = @ + 1]
    BY <1>10 DEF ReadAttempts
  <2>5. guesses' \in [1..MaxArrivals -> Nat]
    BY <1>1, <2>4
  <2>6. QED
    BY <1>1, <2>1, <2>3, <2>5, TypesOfTurn
<1>11. QED
  BY <1>3, <1>4, <1>5, <1>6, <1>7, <1>8, <1>9, <1>10 DEF OtpNext

LEMMA CapsStart == ASSUME OtpInit PROVE CapsInv /\ OneAtATime /\ messages = {}
<1>1. /\ now = 0 /\ undisturbed = TRUE /\ messages = {} /\ guesses = [c \in 1..MaxArrivals |-> 0]
      /\ \A k \in Keys : cache[k] = NoCode
      /\ \A s \in Slot : otp[s] = Free
  BY DEF OtpInit
<1>2. CapTypes
  BY <1>1, FS_EmptySet DEF CapTypes, Free
<1>3. QED
  BY <1>1, <1>2, CodesStart DEF CapsInv, OneAtATime, Free
LEMMA CapsStep == ASSUME CapsInv, [OtpNext]_otpVars PROVE CapsInv'
  BY CodesStep, TypesStep DEF CapsInv

\* The request that runs is the only one, and stays it.
LEMMA AloneKept ==
  ASSUME OneAtATime, NEW s \in Slot, otp[s].pc # "idle" \/ NobodyServed,
         NEW pc, NEW stored, NEW count, Turns(s, pc, stored, count)
  PROVE  OneAtATime' /\ \A t \in Slot \ {s} : otp[t].pc = "idle" /\ otp'[t].pc = "idle"
<1>1. \A t \in Slot \ {s} : otp[t].pc = "idle"
  BY DEF OneAtATime, NobodyServed
<1>2. \A t \in Slot \ {s} : otp'[t].pc = "idle"
  BY <1>1 DEF Turns
<1>3. QED
  BY <1>1, <1>2 DEF OneAtATime

------------------------------------------------------------------------------------
\* The messages of the hour that a message opens, and all of those that follow it.
Within(m) == {l \in messages : m.at <= l.at /\ l.at < m.at + Hour}
Since(m) == {l \in messages : m.at <= l.at}
Recent(m) == now < m.at + Hour
\* The counter lives as long as the hour of every message it has counted; a request that is
\* to send has read it, and no other request comes between.
SendsCounted ==
  \A m \in messages : Recent(m) =>
    /\ cache["sends"] # NoCode /\ m.at + Hour <= cache["sends"].until
    /\ Cardinality(Since(m)) <= cache["sends"].value
Asked(count) ==
  /\ count < MaxSendsPerHour
  /\ \A m \in messages : Recent(m) => Cardinality(Since(m)) <= count
Asking == {"storeCode", "removeAttempts", "armCooldown", "countSend", "send"}
SendsInv ==
  undisturbed =>
    /\ OneAtATime /\ SendsCounted
    /\ \A m \in messages : Cardinality(Within(m)) <= MaxSendsPerHour
    /\ \A s \in Slot : otp[s].pc \in Asking =>
         Asked(otp[s].count) /\ (otp[s].pc = "send" => cache["sends"] = Entry(otp[s].count + 1, Hour))

\* A step that turns one request, and sends and counts nothing.
LEMMA SendsKept ==
  ASSUME SendsInv, NEW s \in Slot, NEW pc, NEW stored, NEW count, Turns(s, pc, stored, count),
         UNCHANGED <<now, messages>>, cache'["sends"] = cache["sends"],
         undisturbed' => undisturbed /\ (otp[s].pc # "idle" \/ NobodyServed),
         undisturbed /\ pc \in Asking => Asked(count) /\ pc # "send"
  PROVE  SendsInv'
<1> SUFFICES ASSUME undisturbed' PROVE SendsInv'
  BY DEF SendsInv
<1>1. undisturbed /\ OneAtATime /\ SendsCounted
  BY DEF SendsInv
<1>2. \A m : Since(m)' = Since(m) /\ Within(m)' = Within(m) /\ Recent(m)' = Recent(m)
  BY DEF Since, Within, Recent
<1>3. \A n : Asked(n)' = Asked(n)
  BY <1>2 DEF Asked
<1>4. OneAtATime' /\ \A t \in Slot \ {s} : otp'[t].pc = "idle"
  BY <1>1, AloneKept
<1>5. SendsCounted'
  BY <1>1, <1>2 DEF SendsCounted
<1>6. \A m \in messages' : Cardinality(Within(m))' <= MaxSendsPerHour
  BY <1>1, <1>2 DEF SendsInv
<1>7. "idle" \notin Asking
  BY DEF Asking
<1>8. otp'[s].pc \in Asking => Asked(otp[s].count)' /\ otp'[s].pc # "send"
  BY <1>1, <1>3 DEF Turns
<1>9. \A t \in Slot : otp'[t].pc \in Asking => Asked(otp[t].count)' /\ otp'[t].pc # "send"
  BY <1>4, <1>7, <1>8
<1>10. QED
  BY <1>4, <1>5, <1>6, <1>9 DEF SendsInv

LEMMA OneMore ==
  ASSUME NEW S, IsFiniteSet(S), NEW T, NEW x, T \subseteq S \cup {x}
  PROVE  Cardinality(T) \in Nat /\ Cardinality(S) \in Nat /\ Cardinality(T) <= Cardinality(S) + 1
<1>1. IsFiniteSet(S \cup {x}) /\ Cardinality(S \cup {x}) <= Cardinality(S) + 1
  <2>1. Cardinality(S) \in Nat
    BY FS_CardinalityType
  <2>2. IsFiniteSet(S \cup {x}) /\ Cardinality(S \cup {x})
                                  = IF x \in S THEN Cardinality(S) ELSE Cardinality(S) + 1
    BY FS_AddElement
  <2>3. QED
    BY <2>1, <2>2
<1>2. IsFiniteSet(T) /\ Cardinality(T) <= Cardinality(S \cup {x})
  BY <1>1, FS_Subset
<1>3. QED
  BY <1>1, <1>2, FS_CardinalityType

\* A message is sent: its hour, and every other, holds at most one more than was counted.
LEMMA SendsSent ==
  ASSUME CapsInv, SendsInv, NEW s \in Slot, Send(s) PROVE SendsInv'
<1> SUFFICES ASSUME undisturbed' PROVE SendsInv'
  BY DEF SendsInv
<1> DEFINE new == [code |-> otp[s].stored, at |-> now]
           n == otp[s].count
<1>1. /\ undisturbed /\ otp[s].pc = "send" /\ messages' = messages \cup {new}
      /\ UNCHANGED <<now, cache>> /\ Left(s)
  BY LeaveTurns DEF Send, CapsInv
<1>2. /\ OneAtATime /\ SendsCounted /\ Asked(n) /\ cache["sends"] = Entry(n + 1, Hour)
      /\ \A m \in messages : Cardinality(Within(m)) <= MaxSendsPerHour
  BY <1>1 DEF SendsInv, Asking
<1>3. /\ now \in Nat /\ n \in Nat /\ IsFiniteSet(messages) /\ \A m \in messages : m.at \in 0..now
  BY DEF CapsInv, CapTypes
<1>4. Hour \in Nat \ {0} /\ MaxSendsPerHour \in Nat
  BY OtpAssumption
<1>5. OneAtATime' /\ \A t \in Slot : otp'[t].pc = "idle"
  BY <1>1, <1>2, AloneKept DEF Left, Turns
<1>6. new.at = now
  OBVIOUS
<1>7. PICK x : x = new
  OBVIOUS
<1> HIDE DEF new
<1>8. \A m : IsFiniteSet(Since(m)) /\ Since(m)' \subseteq Since(m) \cup {x}
  <2>1. \A m : Since(m) \subseteq messages /\ Since(m)' \subseteq Since(m) \cup {x}
    BY <1>1, <1>7 DEF Since
  <2>2. QED
    BY <1>3, <2>1, FS_Subset
<1>9. \A m \in messages : Recent(m) => Cardinality(Since(m))' <= n + 1
  <2>1. ASSUME NEW m \in messages, Recent(m) PROVE Cardinality(Since(m))' <= n + 1
    <3>1. Cardinality(Since(m)) <= n
      BY <1>2, <2>1 DEF Asked
    <3>2. /\ Cardinality(Since(m)') \in Nat /\ Cardinality(Since(m)) \in Nat
          /\ Cardinality(Since(m)') <= Cardinality(Since(m)) + 1
      BY <1>8, OneMore
    <3>3. QED
      BY <1>3, <3>1, <3>2
  <2>2. QED
    BY <2>1
<1>10. Cardinality(Since(x))' <= n + 1
  <2>1. CASE \E m \in messages : now <= m.at
    <3>1. PICK m \in messages : now <= m.at
      BY <2>1
    <3>2. m.at = now /\ Recent(m)
      BY <1>3, <1>4, <3>1 DEF Recent
    <3>3. Since(m)' = Since(x)'
      BY <1>6, <1>7, <3>2 DEF Since
    <3>4. QED
      BY <1>9, <3>2, <3>3
  <2>2. CASE ~ \E m \in messages : now <= m.at
    <3>1. Since(x)' \subseteq {} \cup {x}
      BY <1>1, <1>6, <1>7, <2>2 DEF Since
    <3>2. Cardinality(Since(x)') <= Cardinality({}) + 1 /\ Cardinality(Since(x)') \in Nat
      BY <3>1, FS_EmptySet, OneMore
    <3>3. QED
      BY <1>3, <3>2, FS_EmptySet
  <2>3. QED
    BY <2>1, <2>2
<1>11. \A m \in messages' : Recent(m)' => Cardinality(Since(m))' <= n + 1
  BY <1>1, <1>7, <1>9, <1>10 DEF Recent
<1>12. SendsCounted'
  <2>1. cache'["sends"] # NoCode /\ cache'["sends"].until = now + Hour /\ cache'["sends"].value = n + 1
    BY <1>1, <1>2, <1>3, <1>4, EntryIsStored
  <2>2. \A m \in messages' : m.at + Hour <= now + Hour
    BY <1>1, <1>3, <1>4, <1>6
  <2>3. QED
    BY <1>11, <2>1, <2>2 DEF SendsCounted
<1>13. \A m \in messages' : Cardinality(Within(m))' <= MaxSendsPerHour
  <2>1. ASSUME NEW m \in messages', Recent(m)' PROVE Cardinality(Within(m))' <= MaxSendsPerHour
    <3>1. Within(m)' \subseteq Since(m)' /\ IsFiniteSet(Since(m)')
      <4>1. Since(m)' \subseteq messages' /\ IsFiniteSet(messages')
        BY <1>1, <1>3, FS_AddElement DEF Since
      <4>2. QED
        BY <4>1, FS_Subset DEF Within, Since
    <3>2. Cardinality(Within(m)') <= Cardinality(Since(m)') /\ Cardinality(Within(m)') \in Nat
          /\ Cardinality(Since(m)') \in Nat
      BY <3>1, FS_Subset, FS_CardinalityType
    <3>3. n + 1 <= MaxSendsPerHour
      BY <1>2, <1>3, <1>4 DEF Asked
    <3>4. QED
      BY <1>3, <1>4, <1>11, <2>1, <3>2, <3>3
  <2>2. ASSUME NEW m \in messages', ~ Recent(m)' PROVE Cardinality(Within(m))' <= MaxSendsPerHour
    <3>1. m.at \in Nat /\ m.at + Hour <= now
      BY <1>1, <1>3, <1>4, <1>6, <2>2 DEF Recent
    <3>2. m \in messages
      BY <1>1, <1>3, <1>4, <1>6, <3>1
    <3>3. Within(m)' = Within(m)
      BY <1>1, <1>3, <1>4, <1>6, <3>1 DEF Within
    <3>4. QED
      BY <1>2, <3>2, <3>3
  <2>3. QED
    BY <2>1, <2>2
<1>14. QED
  BY <1>5, <1>12, <1>13 DEF SendsInv, Asking

LEMMA SendsStep ==
  ASSUME CapsInv, SendsInv, [OtpNext]_otpVars PROVE SendsInv'
<1>1. /\ now \in Nat /\ \A s \in Slot : otp[s].count \in Nat
      /\ \A m \in messages : m.at \in 0..now
      /\ Hour \in Nat \ {0} /\ MaxSendsPerHour \in Nat \ {0} /\ "sends" \in Keys
  BY OtpAssumption DEF CapsInv, CapTypes, Keys
<1>2. CASE UNCHANGED otpVars
  BY <1>2 DEF otpVars, SendsInv, OneAtATime, SendsCounted, Since, Within, Recent, Asked, Entry
<1>3. CASE Tick
  <2> SUFFICES ASSUME undisturbed' PROVE SendsInv'
    BY DEF SendsInv
  <2>1. now' = now + 1 /\ undisturbed /\ NobodyServed /\ UNCHANGED <<cache, otp, messages>>
    BY <1>3 DEF Tick
  <2>2. /\ OneAtATime /\ SendsCounted
        /\ \A m \in messages : Cardinality(Within(m)) <= MaxSendsPerHour
    BY <2>1 DEF SendsInv
  <2>3. \A m : Since(m)' = Since(m) /\ Within(m)' = Within(m)
    BY <2>1 DEF Since, Within
  <2>4. \A m \in messages : Recent(m)' => Recent(m)
    BY <1>1, <2>1 DEF Recent
  <2>5. SendsCounted'
    BY <2>1, <2>2, <2>3, <2>4 DEF SendsCounted
  <2>6. \A t \in Slot : otp'[t].pc \notin Asking
    BY <2>1 DEF NobodyServed, Asking
  <2>7. OneAtATime'
    BY <2>1, <2>2 DEF OneAtATime
  <2>8. \A m \in messages' : Cardinality(Within(m))' <= MaxSendsPerHour
    BY <2>1, <2>2, <2>3
  <2>9. QED
    BY <2>5, <2>6, <2>7, <2>8 DEF SendsInv
<1>4. CASE RestartServer
  BY <1>4 DEF RestartServer, SendsInv
<1>5. ASSUME NEW s \in Slot, OnPostRequest(s) \/ OnPostVerify(s) PROVE SendsInv'
  <2>1. PICK pc \in {"checkCooldown", "readCode"} : Turns(s, pc, NoCode, 0)
    BY <1>5, ArrivalTurns DEF CapsInv
  <2>2. UNCHANGED <<now, cache, messages>> /\ undisturbed' = (undisturbed /\ NobodyServed)
    BY <1>5, ArrivalTurns DEF CapsInv
  <2>3. QED
    BY <2>1, <2>2, SendsKept DEF Asking
<1>6. ASSUME NEW s \in Slot,
             \/ CheckCooldown(s) \/ StoreCode(s) \/ RemoveAttempts(s) \/ ArmCooldown(s)
             \/ ReadCode(s) \/ ReadAttempts(s) \/ RemoveCode(s) \/ CountAttempt(s)
      PROVE  SendsInv'
  <2>1. UNCHANGED <<now, messages, undisturbed>> /\ otp[s].pc # "idle"
    BY <1>6 DEF CheckCooldown, StoreCode, RemoveAttempts, ArmCooldown, ReadCode, ReadAttempts,
                RemoveCode, CountAttempt, Quiet
  <2>2. \/ UNCHANGED cache
        \/ \E k \in Keys \ {"sends"} : \E entry : cache' = [cache EXCEPT ![k] = entry]
    BY <1>6 DEF CheckCooldown, StoreCode, RemoveAttempts, ArmCooldown, ReadCode, ReadAttempts,
                RemoveCode, CountAttempt, Keys
  <2>3. cache'["sends"] = cache["sends"]
    BY <1>1, <2>2, KeyWritten DEF CapsInv
  <2>4. \/ \E pc \in {"readSends", "forgetAttempts"} : Goto(s, pc)
        \/ Leave(s)
        \/ otp' = [otp EXCEPT ![s].pc = "readAttempts", ![s].stored = cache["code"].value]
        \/ \E pc \in {"invalidate", "removeCode", "countAttempt"} :
             otp' = [otp EXCEPT ![s].pc = pc, ![s].count = Count("attempts")]
        \/ otp[s].pc = "storeCode"
             /\ otp' = [otp EXCEPT ![s].pc = "removeAttempts", ![s].stored = drawn + 1]
        \/ otp[s].pc = "removeAttempts" /\ Goto(s, "armCooldown")
        \/ otp[s].pc = "armCooldown" /\ Goto(s, "countSend")
    BY <1>6 DEF CheckCooldown, StoreCode, RemoveAttempts, ArmCooldown, ReadCode, ReadAttempts,
                RemoveCode, CountAttempt
  <2>5. \E pc, stored, count :
          /\ Turns(s, pc, stored, count)
          /\ pc \in Asking => otp[s].pc \in Asking /\ count = otp[s].count /\ pc # "send"
    <3>1. CASE \E pc \in {"readSends", "forgetAttempts"} : Goto(s, pc)
      BY <3>1, GotoTurns DEF Turned, CapsInv, Asking
    <3>2. CASE Leave(s)
      BY <3>2, LeaveTurns DEF Left, CapsInv, Asking
    <3>3. CASE otp' = [otp EXCEPT ![s].pc = "readAttempts", ![s].stored = cache["code"].value]
      <4>1. Turns(s, "readAttempts", cache["code"].value, otp[s].count)
        BY <3>3, StoredTurns DEF CapsInv
      <4>2. QED
        BY <3>3, <4>1 DEF Asking
    <3>4. CASE \E pc \in {"invalidate", "removeCode", "countAttempt"} :
                 otp' = [otp EXCEPT ![s].pc = pc, ![s].count = Count("attempts")]
      BY <3>4, CountTurns DEF CapsInv, Asking
    <3>5. CASE otp[s].pc = "storeCode"
                 /\ otp' = [otp EXCEPT ![s].pc = "removeAttempts", ![s].stored = drawn + 1]
      <4>1. Turns(s, "removeAttempts", drawn + 1, otp[s].count)
        BY <3>5, StoredTurns DEF CapsInv
      <4>2. QED
        BY <3>5, <4>1 DEF Asking
    <3>6. CASE otp[s].pc = "removeAttempts" /\ Goto(s, "armCooldown")
      BY <3>6, GotoTurns DEF Turned, CapsInv, Asking
    <3>7. CASE otp[s].pc = "armCooldown" /\ Goto(s, "countSend")
      BY <3>7, GotoTurns DEF Turned, CapsInv, Asking
    <3>8. QED
      BY <2>4, <3>1, <3>2, <3>3, <3>4, <3>5, <3>6, <3>7
  <2>6. undisturbed /\ otp[s].pc \in Asking => Asked(otp[s].count)
    BY DEF SendsInv
  <2>7. QED
    BY <2>1, <2>3, <2>5, <2>6, SendsKept
<1>7. ASSUME NEW s \in Slot, ReadSends(s) PROVE SendsInv'
  <2>1. UNCHANGED <<now, cache, messages, undisturbed>> /\ otp[s].pc # "idle"
    BY <1>7 DEF ReadSends, Quiet
  <2>2. CASE Leave(s)
    BY <2>1, <2>2, LeaveTurns, SendsKept DEF Left, CapsInv, Asking
  <2>3. CASE /\ ~ Count("sends") >= MaxSendsPerHour
             /\ otp' = [otp EXCEPT ![s].pc = "storeCode", ![s].count = Count("sends")]
    <3>1. Turns(s, "storeCode", otp[s].stored, Count("sends"))
      BY <2>3, CountTurns DEF CapsInv
    <3>2. Count("sends") \in Nat
      BY <1>1, CountIsNatural DEF CapsInv
    <3>3. undisturbed => \A m \in messages : Recent(m) => Cardinality(Since(m)) <= Count("sends")
      <4>1. ASSUME undisturbed, NEW m \in messages, Recent(m)
            PROVE  Cardinality(Since(m)) <= Count("sends")
        <5>1. /\ cache["sends"] # NoCode /\ m.at + Hour <= cache["sends"].until
              /\ Cardinality(Since(m)) <= cache["sends"].value
          BY <4>1 DEF SendsInv, SendsCounted
        <5>2. cache["sends"] \in Stored /\ m.at \in Nat
          BY <1>1, <5>1 DEF CapsInv, CapTypes
        <5>3. now < cache["sends"].until
          BY <1>1, <4>1, <5>1, <5>2 DEF Recent, Stored
        <5>4. Count("sends") = cache["sends"].value
          BY <5>1, <5>3 DEF Count, Live
        <5>5. QED
          BY <5>1, <5>4
      <4>2. QED
        BY <4>1
    <3>4. undisturbed => Asked(Count("sends"))
      BY <1>1, <2>3, <3>2, <3>3 DEF Asked
    <3>5. QED
      BY <2>1, <3>1, <3>4, SendsKept
  <2>4. QED
    BY <1>7, <2>2, <2>3 DEF ReadSends
<1>8. ASSUME NEW s \in Slot, CountSend(s) PROVE SendsInv'
  <2> SUFFICES ASSUME undisturbed' PROVE SendsInv'
    BY DEF SendsInv
  <2> DEFINE n == otp[s].count
  <2>1. /\ undisturbed /\ otp[s].pc = "countSend" /\ UNCHANGED <<now, messages>>
        /\ cache'["sends"] = Entry(n + 1, Hour) /\ Turned(s, "send")
    BY <1>1, <1>8, GotoTurns, KeyWritten DEF CountSend, Quiet, CapsInv
  <2>2. /\ OneAtATime /\ SendsCounted /\ Asked(n)
        /\ \A m \in messages : Cardinality(Within(m)) <= MaxSendsPerHour
    BY <2>1 DEF SendsInv, Asking
  <2>3. \A m : Since(m)' = Since(m) /\ Within(m)' = Within(m) /\ Recent(m)' = Recent(m)
    BY <2>1 DEF Since, Within, Recent
  <2>4. OneAtATime' /\ \A t \in Slot \ {s} : otp'[t].pc = "idle"
    BY <2>1, <2>2, AloneKept DEF Turned
  <2>5. Asked(otp[s].count)' /\ cache'["sends"] = Entry(otp[s].count + 1, Hour)'
    <3>1. \A k : Asked(k)' = Asked(k) /\ Entry(k, Hour)' = Entry(k, Hour)
      BY <2>1, <2>3 DEF Asked, Entry
    <3>2. PICK k : k = n
      OBVIOUS
    <3>3. otp'[s].count = k
      BY <2>1, <3>2 DEF Turned, Turns
    <3>4. Asked(k) /\ cache'["sends"] = Entry(k + 1, Hour)
      BY <2>1, <2>2, <3>2
    <3>5. Asked(otp[s].count)'
      BY <3>1, <3>3, <3>4
    <3>6. Entry(otp[s].count + 1, Hour)' = Entry(k + 1, Hour)
      BY <2>1, <3>3 DEF Entry
    <3>7. QED
      BY <3>4, <3>5, <3>6
  <2>6. SendsCounted'
    <3>1. n \in Nat
      BY <1>1
    <3>2. /\ cache'["sends"] # NoCode /\ cache'["sends"].until = now + Hour
          /\ cache'["sends"].value = n + 1
      BY <1>1, <2>1, <3>1, EntryIsStored
    <3>3. ASSUME NEW m \in messages, Recent(m)
          PROVE  m.at + Hour <= now + Hour /\ Cardinality(Since(m)) <= n + 1
      <4>1. Cardinality(Since(m)) <= n
        BY <2>2, <3>3 DEF Asked
      <4>2. Cardinality(Since(m)) \in Nat
        <5>1. IsFiniteSet(messages) /\ Since(m) \subseteq messages
          BY DEF CapsInv, CapTypes, Since
        <5>2. QED
          BY <5>1, FS_Subset, FS_CardinalityType
      <4>3. QED
        BY <1>1, <3>1, <4>1, <4>2
    <3>4. QED
      BY <2>1, <2>3, <3>2, <3>3 DEF SendsCounted
  <2>7. \A m \in messages' : Cardinality(Within(m))' <= MaxSendsPerHour
    BY <2>1, <2>2, <2>3
  <2>8. \A t \in Slot : otp'[t].pc \in Asking =>
          Asked(otp[t].count)' /\ (otp'[t].pc = "send" => cache'["sends"] = Entry(otp[t].count + 1, Hour)')
    BY <2>1, <2>4, <2>5 DEF Asking
  <2>9. QED
    BY <2>4, <2>6, <2>7, <2>8 DEF SendsInv
<1>9. QED
  BY <1>2, <1>3, <1>4, <1>5, <1>6, <1>7, <1>8, SendsSent DEF OtpNext

\* No hour sees more messages to the number than the cap, for every cap, every lifetime and
\* every number of requests, as long as they come one at a time and the server stays up.
THEOREM SendsAreCappedHolds == Spec => []SendsAreCapped
<1>1. Init => CapsInv /\ SendsInv
  BY CapsStart DEF Init, SendsInv, SendsCounted, OtpInit, Free, Asking
<1>2. CapsInv /\ SendsInv /\ [Next]_vars => (CapsInv /\ SendsInv)'
  BY CapsStep, SendsStep, StepsOfProvider
<1>3. SendsInv => SendsAreCapped
  BY DEF SendsInv, SendsAreCapped, Within
<1>4. QED
  BY <1>1, <1>2, <1>3, PTL DEF Spec

------------------------------------------------------------------------------------
\* The counter of a code holds every wrong guess against it and lives at least as long as
\* the code; a verification that compares has read a code that is still the one stored.
Code == cache["code"].value
Comparing == {"readAttempts", "countAttempt"}
CodeIsYoung == cache["code"] # NoCode => cache["code"].until <= now + Ttl
CountsCover(c) ==
  \/ guesses[c] = 0
  \/ /\ cache["attempts"] # NoCode /\ cache["code"].until <= cache["attempts"].until
     /\ guesses[c] <= cache["attempts"].value
GuessesCounted ==
  (cache["code"] # NoCode /\ \A s \in Slot : otp[s].pc # "countAttempt") =>
    \A c \in DOMAIN guesses : c = Code => CountsCover(c)
Verified(pc, stored, count) ==
  /\ pc \in Comparing => Live("code") /\ stored = Code
  /\ pc = "countAttempt" =>
       count < MaxVerifyAttempts /\ \A c \in DOMAIN guesses : c = Code => guesses[c] <= count + 1
  /\ pc = "removeAttempts" =>
       cache["code"] # NoCode /\ \A c \in DOMAIN guesses : c = Code => guesses[c] = 0
  /\ pc = "forgetAttempts" => cache["code"] = NoCode
GuessesInv ==
  /\ \A c \in DOMAIN guesses : c > drawn => guesses[c] = 0
  /\ undisturbed =>
       /\ OneAtATime /\ CodeIsYoung /\ GuessesCounted
       /\ \A c \in DOMAIN guesses : guesses[c] <= MaxVerifyAttempts
       /\ \A s \in Slot : Verified(otp[s].pc, otp[s].stored, otp[s].count)

LEMMA IdleIsVerified ==
  ASSUME NEW pc, pc \in {"idle", "checkCooldown", "readSends", "storeCode", "armCooldown", "countSend",
                         "send", "readCode", "invalidate", "removeCode"}, NEW stored, NEW count
  PROVE  Verified(pc, stored, count) /\ Verified(pc, stored, count)'
  BY DEF Verified, Comparing

\* What a step of one request has to keep.
LEMMA GuessesOfTurn ==
  ASSUME GuessesInv, NEW s \in Slot, NEW pc, NEW stored, NEW count, Turns(s, pc, stored, count),
         undisturbed' => undisturbed /\ (otp[s].pc # "idle" \/ NobodyServed),
         \A c \in DOMAIN guesses' : c > drawn' => guesses'[c] = 0,
         undisturbed' => /\ CodeIsYoung'
                         /\ (cache'["code"] # NoCode /\ pc # "countAttempt") =>
                              \A c \in DOMAIN guesses' : c = Code' => CountsCover(c)'
                         /\ \A c \in DOMAIN guesses' : guesses'[c] <= MaxVerifyAttempts
                         /\ Verified(pc, stored, count)'
  PROVE  GuessesInv'
<1> SUFFICES ASSUME undisturbed'
             PROVE  /\ OneAtATime' /\ GuessesCounted'
                    /\ \A t \in Slot : Verified(otp[t].pc, otp[t].stored, otp[t].count)'
  BY DEF GuessesInv
<1>1. undisturbed /\ OneAtATime
  BY DEF GuessesInv
<1>2. OneAtATime' /\ \A t \in Slot \ {s} : otp'[t].pc = "idle"
  BY <1>1, AloneKept
<1>3. GuessesCounted'
  BY DEF GuessesCounted, Turns
<1>4. \A p, c, n : Verified("idle", c, n)'
  BY IdleIsVerified
<1>5. \A t \in Slot : Verified(otp[t].pc, otp[t].stored, otp[t].count)'
  <2>1. Verified(otp[s].pc, otp[s].stored, otp[s].count)'
    BY DEF Turns, Verified
  <2>2. ASSUME NEW t \in Slot \ {s} PROVE Verified(otp[t].pc, otp[t].stored, otp[t].count)'
    BY <1>2 DEF Verified, Comparing
  <2>3. QED
    BY <2>1, <2>2
<1>6. QED
  BY <1>2, <1>3, <1>5

\* A step that leaves the code, its counter and the guesses alone, and that compares nothing.
LEMMA GuessesKept ==
  ASSUME GuessesInv, NEW s \in Slot, NEW pc, NEW stored, NEW count, Turns(s, pc, stored, count),
         UNCHANGED <<now, drawn, guesses>>,
         cache'["code"] = cache["code"], cache'["attempts"] = cache["attempts"],
         undisturbed' => undisturbed /\ (otp[s].pc # "idle" \/ NobodyServed),
         otp[s].pc # "countAttempt", pc # "countAttempt",
         undisturbed => Verified(pc, stored, count)
  PROVE  GuessesInv'
<1>1. Code' = Code /\ \A c : CountsCover(c)' = CountsCover(c)
  BY DEF Code, CountsCover
<1>2. undisturbed => CodeIsYoung'
  BY DEF GuessesInv, CodeIsYoung
<1>3. undisturbed => Verified(pc, stored, count)'
  BY <1>1 DEF Verified, Live
<1>4. undisturbed /\ (otp[s].pc # "idle" \/ NobodyServed) /\ cache["code"] # NoCode
        => \A c \in DOMAIN guesses : c = Code => CountsCover(c)
  <2>1. ASSUME undisturbed, otp[s].pc # "idle" \/ NobodyServed
        PROVE  \A t \in Slot : otp[t].pc # "countAttempt"
    <3>1. OneAtATime
      BY <2>1 DEF GuessesInv
    <3>2. \A t \in Slot \ {s} : otp[t].pc = "idle"
      BY <2>1, <3>1, AloneKept
    <3>3. QED
      BY <3>2
  <2>2. QED
    BY <2>1 DEF GuessesInv, GuessesCounted
<1>5. \A c \in DOMAIN guesses' : c > drawn' => guesses'[c] = 0
  BY DEF GuessesInv
<1>6. undisturbed => \A c \in DOMAIN guesses' : guesses'[c] <= MaxVerifyAttempts
  BY DEF GuessesInv
<1>7. undisturbed' => (cache'["code"] # NoCode /\ pc # "countAttempt" =>
                         \A c \in DOMAIN guesses' : c = Code' => CountsCover(c)')
  BY <1>1, <1>4
<1>8. QED
  BY <1>2, <1>3, <1>5, <1>6, <1>7, GuessesOfTurn

LEMMA GuessesStep ==
  ASSUME CapsInv, GuessesInv, [OtpNext]_otpVars PROVE GuessesInv'
<1>1. /\ now \in Nat /\ drawn \in Nat /\ guesses \in [1..MaxArrivals -> Nat]
      /\ \A s \in Slot : otp[s].count \in Nat
      /\ CodesInv
  BY DEF CapsInv, CodesInv, CapTypes
<1>2. /\ Ttl \in Nat \ {0} /\ MaxVerifyAttempts \in Nat \ {0}
      /\ Keys = {"code", "attempts", "cooldown", "sends"}
  BY OtpAssumption DEF Keys
<1>3. \A k \in Keys : cache[k] # NoCode => cache[k].value \in Nat /\ cache[k].until \in Nat
  BY DEF CapsInv, CapTypes, Stored
<1>4. CASE UNCHANGED otpVars
  BY <1>4 DEF otpVars, GuessesInv, OneAtATime, CodeIsYoung, GuessesCounted, CountsCover, Verified, Live, Code
<1>5. CASE Tick
  <2>1. /\ now' = now + 1 /\ undisturbed' = (undisturbed /\ NobodyServed)
        /\ UNCHANGED <<cache, otp, drawn, guesses>>
    BY <1>5 DEF Tick
  <2> SUFFICES ASSUME undisturbed'
               PROVE  /\ OneAtATime' /\ CodeIsYoung' /\ GuessesCounted'
                      /\ \A c \in DOMAIN guesses' : guesses'[c] <= MaxVerifyAttempts
                      /\ \A t \in Slot : Verified(otp[t].pc, otp[t].stored, otp[t].count)'
    BY <2>1 DEF GuessesInv
  <2>2. undisturbed /\ NobodyServed
    BY <2>1
  <2>3. \A c \in DOMAIN guesses' : guesses'[c] <= MaxVerifyAttempts
    BY <2>1, <2>2 DEF GuessesInv
  <2>4. OneAtATime' /\ GuessesCounted'
    BY <2>1, <2>2 DEF GuessesInv, OneAtATime, GuessesCounted, CountsCover, Code
  <2>5. CodeIsYoung'
    BY <1>1, <1>2, <1>3, <2>1, <2>2 DEF GuessesInv, CodeIsYoung
  <2>6. \A t \in Slot : Verified(otp[t].pc, otp[t].stored, otp[t].count)'
    BY <2>1, <2>2 DEF NobodyServed, Verified, Comparing
  <2>7. QED
    BY <2>3, <2>4, <2>5, <2>6
<1>6. CASE RestartServer
  BY <1>6 DEF RestartServer, GuessesInv
<1>7. ASSUME NEW s \in Slot, OnPostRequest(s) \/ OnPostVerify(s) PROVE GuessesInv'
  <2>1. PICK pc \in {"checkCooldown", "readCode"} : Turns(s, pc, NoCode, 0)
    BY <1>1, <1>7, ArrivalTurns
  <2>2. /\ UNCHANGED <<now, cache, drawn, guesses>> /\ undisturbed' = (undisturbed /\ NobodyServed)
        /\ otp[s].pc = "idle"
    BY <1>1, <1>7, ArrivalTurns DEF OnPostRequest, OnPostVerify, Arrives
  <2>3. Verified(pc, NoCode, 0)
    BY IdleIsVerified
  <2>4. QED
    BY <2>1, <2>2, <2>3, GuessesKept
<1>8. ASSUME NEW s \in Slot, CheckCooldown(s) \/ ReadSends(s) \/ ArmCooldown(s) \/ CountSend(s) \/ Send(s)
      PROVE  GuessesInv'
  <2>1. /\ UNCHANGED <<now, drawn, guesses, undisturbed>>
        /\ otp[s].pc \in {"checkCooldown", "readSends", "armCooldown", "countSend", "send"}
    BY <1>8 DEF CheckCooldown, ReadSends, ArmCooldown, CountSend, Send, Quiet
  <2>2. UNCHANGED cache \/ \E k \in {"cooldown", "sends"} : \E entry : cache' = [cache EXCEPT ![k] = entry]
    BY <1>8 DEF CheckCooldown, ReadSends, ArmCooldown, CountSend, Send
  <2>3. cache'["code"] = cache["code"] /\ cache'["attempts"] = cache["attempts"]
    BY <1>1, <1>2, <2>2, KeyWritten
  <2>4. \/ Leave(s) \/ \E pc \in {"readSends", "countSend", "send"} : Goto(s, pc)
        \/ otp' = [otp EXCEPT ![s].pc = "storeCode", ![s].count = Count("sends")]
    BY <1>8 DEF CheckCooldown, ReadSends, ArmCooldown, CountSend, Send
  <2>6. \E pc \in {"idle", "readSends", "countSend", "send", "storeCode"} :
          \E stored, count : Turns(s, pc, stored, count)
    BY <1>1, <2>4, LeaveTurns, GotoTurns, CountTurns DEF Left, Turned
  <2>7. QED
    BY <2>1, <2>3, <2>6, IdleIsVerified, GuessesKept
<1>9. ASSUME NEW s \in Slot, StoreCode(s) PROVE GuessesInv'
  <2>1. /\ UNCHANGED <<now, guesses, undisturbed>> /\ drawn' = drawn + 1 /\ otp[s].pc = "storeCode"
        /\ cache' = [cache EXCEPT !["code"] = Entry(drawn + 1, Ttl)]
        /\ otp' = [otp EXCEPT ![s].pc = "removeAttempts", ![s].stored = drawn + 1]
    BY <1>9 DEF StoreCode
  <2>2. Turns(s, "removeAttempts", drawn + 1, otp[s].count)
    BY <1>1, <2>1, StoredTurns
  <2>3. cache'["code"] = Entry(drawn + 1, Ttl)
    BY <1>1, <1>2, <2>1, KeyWritten
  <2>4. cache'["code"] # NoCode /\ cache'["code"].value = drawn + 1 /\ cache'["code"].until = now + Ttl
    BY <1>1, <1>2, <2>3, EntryIsStored
  <2>5. \A c \in DOMAIN guesses : c > drawn => guesses[c] = 0
    BY DEF GuessesInv
  <2>6. \A c \in DOMAIN guesses' : c = Code' => guesses'[c] = 0
    BY <1>1, <2>1, <2>4, <2>5 DEF Code
  <2>7. \A c \in DOMAIN guesses' : c > drawn' => guesses'[c] = 0
    BY <1>1, <2>1, <2>5
  <2>8. \A stored, count : Verified("removeAttempts", stored, count)'
    BY <2>4, <2>6 DEF Verified, Comparing
  <2>9. CodeIsYoung'
    BY <1>1, <1>2, <2>1, <2>4 DEF CodeIsYoung
  <2>10. \A c \in DOMAIN guesses' : c = Code' => CountsCover(c)'
    BY <2>6 DEF CountsCover
  <2>11. undisturbed' => undisturbed /\ \A c \in DOMAIN guesses' : guesses'[c] <= MaxVerifyAttempts
    BY <2>1 DEF GuessesInv
  <2>12. \E stored, count : Turns(s, "removeAttempts", stored, count)
    BY <2>2
  <2>13. QED
    BY <2>1, <2>7, <2>8, <2>9, <2>10, <2>11, <2>12, GuessesOfTurn
<1>10. ASSUME undisturbed, NEW s \in Slot, otp[s].pc # "idle", otp[s].pc # "countAttempt"
       PROVE  cache["code"] # NoCode => \A c \in DOMAIN guesses : c = Code => CountsCover(c)
  <2>1. \A t \in Slot : otp[t].pc # "countAttempt"
    BY <1>10 DEF GuessesInv, OneAtATime
  <2>2. QED
    BY <1>10, <2>1 DEF GuessesInv, GuessesCounted
<1>11. ASSUME NEW s \in Slot, RemoveAttempts(s) PROVE GuessesInv'
  <2>1. UNCHANGED <<now, drawn, guesses, undisturbed>> /\ otp[s].pc \in {"removeAttempts", "forgetAttempts"}
    BY <1>11 DEF RemoveAttempts, Quiet
  <2>2. cache'["code"] = cache["code"]
    BY <1>1, <1>2, <1>11, KeyWritten DEF RemoveAttempts
  <2>3. \E pc \in {"armCooldown", "idle"} : \E stored, count : Turns(s, pc, stored, count)
    BY <1>1, <1>11, LeaveTurns, GotoTurns DEF RemoveAttempts, Left, Turned
  <2>4. undisturbed /\ cache["code"] # NoCode => \A c \in DOMAIN guesses : c = Code => guesses[c] = 0
    BY <2>1 DEF GuessesInv, Verified
  <2>5. undisturbed /\ cache'["code"] # NoCode =>
          \A c \in DOMAIN guesses' : c = Code' => CountsCover(c)'
    BY <2>1, <2>2, <2>4 DEF CountsCover, Code
  <2>6. undisturbed => CodeIsYoung' /\ \A c \in DOMAIN guesses' : guesses'[c] <= MaxVerifyAttempts
    BY <2>1, <2>2 DEF GuessesInv, CodeIsYoung
  <2>7. \A c \in DOMAIN guesses' : c > drawn' => guesses'[c] = 0
    BY <2>1 DEF GuessesInv
  <2>8. QED
    BY <2>1, <2>3, <2>5, <2>6, <2>7, IdleIsVerified, GuessesOfTurn
<1>12. ASSUME NEW s \in Slot, ReadCode(s) PROVE GuessesInv'
  <2>1. UNCHANGED <<now, cache, drawn, guesses, undisturbed>> /\ otp[s].pc = "readCode"
    BY <1>12 DEF ReadCode, Quiet
  <2>2. CASE Leave(s)
    BY <1>1, <2>1, <2>2, LeaveTurns, IdleIsVerified, GuessesKept DEF Left
  <2>3. CASE /\ Live("code")
             /\ otp' = [otp EXCEPT ![s].pc = "readAttempts", ![s].stored = cache["code"].value]
    <3>1. Turns(s, "readAttempts", cache["code"].value, otp[s].count)
      BY <1>1, <2>3, StoredTurns
    <3>2. Verified("readAttempts", cache["code"].value, otp[s].count)
      BY <2>3 DEF Verified, Code
    <3>3. QED
      BY <2>1, <3>1, <3>2, GuessesKept
  <2>4. QED
    BY <1>12, <2>2, <2>3 DEF ReadCode
<1>13. ASSUME NEW s \in Slot, ReadAttempts(s) PROVE GuessesInv'
  <2> DEFINE n == Count("attempts")
  <2>1. UNCHANGED <<now, cache, drawn, undisturbed>> /\ otp[s].pc = "readAttempts"
    BY <1>13 DEF ReadAttempts
  <2>2. n \in Nat
    BY <1>2, CountIsNatural DEF CapsInv
  <2>3. \/ /\ guesses' = guesses
           /\ \E pc \in {"invalidate", "removeCode"} : otp' = [otp EXCEPT ![s].pc = pc, ![s].count = n]
        \/ /\ ~ n >= MaxVerifyAttempts
           /\ guesses' = [guesses EXCEPT ![otp[s].stored] = @ + 1]
           /\ otp' = [otp EXCEPT ![s].pc = "countAttempt", ![s].count = n]
    BY <1>13 DEF ReadAttempts
  <2>4. undisturbed => Live("code") /\ otp[s].stored = Code
    BY <2>1 DEF GuessesInv, Verified, Comparing
  <2>5. undisturbed => \A c \in DOMAIN guesses : c = Code => guesses[c] <= n
    <3>1. ASSUME undisturbed, NEW c \in DOMAIN guesses, c = Code PROVE guesses[c] <= n
      <4>1. CountsCover(c) /\ guesses[c] \in Nat /\ Live("code")
        BY <1>1, <1>10, <2>1, <2>4, <3>1 DEF Live
      <4>2. CASE guesses[c] = 0
        BY <2>2, <4>2
      <4>3. CASE /\ cache["attempts"] # NoCode /\ cache["code"].until <= cache["attempts"].until
                 /\ guesses[c] <= cache["attempts"].value
        <5>1. Live("attempts")
          BY <1>1, <1>2, <1>3, <4>1, <4>3 DEF Live
        <5>2. n = cache["attempts"].value
          BY <5>1 DEF Count
        <5>3. QED
          BY <4>3, <5>2
      <4>4. QED
        BY <4>1, <4>2, <4>3 DEF CountsCover
    <3>2. QED
      BY <3>1
  <2> HIDE DEF n
  <2>6. CASE /\ guesses' = guesses
             /\ \E pc \in {"invalidate", "removeCode"} : otp' = [otp EXCEPT ![s].pc = pc, ![s].count = n]
    <3>1. PICK pc \in {"invalidate", "removeCode"} : Turns(s, pc, otp[s].stored, n)
      BY <1>1, <2>6, CountTurns
    <3>2. QED
      BY <2>1, <2>6, <3>1, IdleIsVerified, GuessesKept
  <2>7. CASE /\ ~ n >= MaxVerifyAttempts
             /\ guesses' = [guesses EXCEPT ![otp[s].stored] = @ + 1]
             /\ otp' = [otp EXCEPT ![s].pc = "countAttempt", ![s].count = n]
    <3>1. Turns(s, "countAttempt", otp[s].stored, n)
      BY <1>1, <2>7, CountTurns
    <3>2. otp[s].stored \in 1..drawn
      BY <1>1, <2>1 DEF CodesInv, Sound, Verifying
    <3>3. /\ DOMAIN guesses' = DOMAIN guesses
          /\ \A c \in DOMAIN guesses : guesses'[c] = IF c = otp[s].stored THEN guesses[c] + 1 ELSE guesses[c]
      BY <1>1, <2>7
    <3>4. \A c \in DOMAIN guesses : c > drawn => c # otp[s].stored
      BY <1>1, <3>2
    <3>5. \A c \in DOMAIN guesses' : c > drawn' => guesses'[c] = 0
      BY <2>1, <3>3, <3>4 DEF GuessesInv
    <3>6. undisturbed => \A c \in DOMAIN guesses' : c = Code' => guesses'[c] <= n + 1
      BY <1>1, <2>1, <2>2, <2>4, <2>5, <3>3 DEF Code
    <3>7. undisturbed => \A c \in DOMAIN guesses' : guesses'[c] <= MaxVerifyAttempts
      <4>1. undisturbed => \A c \in DOMAIN guesses : guesses[c] <= MaxVerifyAttempts
        BY DEF GuessesInv
      <4>2. n + 1 <= MaxVerifyAttempts
        BY <1>2, <2>2, <2>7
      <4>3. undisturbed => \A c \in DOMAIN guesses : c = otp[s].stored => guesses[c] <= n
        BY <2>4, <2>5
      <4>4. ASSUME undisturbed, NEW c \in DOMAIN guesses PROVE guesses'[c] <= MaxVerifyAttempts
        <5>1. guesses[c] \in Nat
          BY <1>1
        <5>2. CASE c = otp[s].stored
          BY <1>2, <2>2, <3>3, <4>2, <4>3, <4>4, <5>1, <5>2
        <5>3. CASE c # otp[s].stored
          BY <3>3, <4>1, <4>4, <5>3
        <5>4. QED
          BY <5>2, <5>3
      <4>5. QED
        BY <3>3, <4>4
    <3>8. PICK c, k : c = otp[s].stored /\ k = n
      OBVIOUS
    <3>9. undisturbed => Verified("countAttempt", c, k)'
      <4>1. n < MaxVerifyAttempts
        BY <1>2, <2>2, <2>7
      <4>2. Live("code")' = Live("code") /\ Code' = Code
        BY <2>1 DEF Live, Code
      <4>3. QED
        BY <2>4, <3>6, <3>8, <4>1, <4>2 DEF Verified
    <3>10. undisturbed => CodeIsYoung'
      BY <2>1 DEF GuessesInv, CodeIsYoung
    <3>11. Turns(s, "countAttempt", c, k)
      BY <3>1, <3>8
    <3>12. QED
      BY <2>1, <3>5, <3>7, <3>9, <3>10, <3>11, GuessesOfTurn
  <2>8. QED
    BY <2>3, <2>6, <2>7
<1>14. ASSUME NEW s \in Slot, RemoveCode(s) PROVE GuessesInv'
  <2>1. /\ UNCHANGED <<now, drawn, guesses, undisturbed>> /\ otp[s].pc \in {"invalidate", "removeCode"}
    BY <1>14 DEF RemoveCode
  <2>2. cache'["code"] = NoCode
    BY <1>1, <1>2, <1>14, KeyWritten DEF RemoveCode
  <2>3. \E pc \in {"forgetAttempts", "idle"} : \E stored, count : Turns(s, pc, stored, count)
    BY <1>1, <1>14, LeaveTurns, GotoTurns DEF RemoveCode, Left, Turned
  <2>4. \A stored, count : Verified("forgetAttempts", stored, count)'
    BY <2>2 DEF Verified, Comparing
  <2>5. undisturbed => CodeIsYoung' /\ \A c \in DOMAIN guesses' : guesses'[c] <= MaxVerifyAttempts
    BY <2>1, <2>2 DEF GuessesInv, CodeIsYoung
  <2>6. \A c \in DOMAIN guesses' : c > drawn' => guesses'[c] = 0
    BY <2>1 DEF GuessesInv
  <2>7. QED
    BY <2>1, <2>2, <2>3, <2>4, <2>5, <2>6, IdleIsVerified, GuessesOfTurn
<1>15. ASSUME NEW s \in Slot, CountAttempt(s) PROVE GuessesInv'
  <2>1. UNCHANGED <<now, drawn, guesses, undisturbed>> /\ otp[s].pc = "countAttempt" /\ Left(s)
    BY <1>1, <1>15, LeaveTurns DEF CountAttempt, Quiet
  <2>2. cache'["code"] = cache["code"] /\ cache'["attempts"] = Entry(otp[s].count + 1, Ttl)
    BY <1>1, <1>2, <1>15, KeyWritten DEF CountAttempt
  <2>3. /\ cache'["attempts"] # NoCode /\ cache'["attempts"].value = otp[s].count + 1
        /\ cache'["attempts"].until = now + Ttl
    BY <1>1, <1>2, <2>2, EntryIsStored
  <2>4. undisturbed => CodeIsYoung /\ \A c \in DOMAIN guesses : c = Code => guesses[c] <= otp[s].count + 1
    BY <2>1 DEF GuessesInv, Verified
  <2>5. undisturbed /\ cache'["code"] # NoCode =>
          \A c \in DOMAIN guesses' : c = Code' => CountsCover(c)'
    BY <2>1, <2>2, <2>3, <2>4 DEF CountsCover, Code, CodeIsYoung
  <2>6. undisturbed => CodeIsYoung' /\ \A c \in DOMAIN guesses' : guesses'[c] <= MaxVerifyAttempts
    BY <2>1, <2>2 DEF GuessesInv, CodeIsYoung
  <2>7. \A c \in DOMAIN guesses' : c > drawn' => guesses'[c] = 0
    BY <2>1 DEF GuessesInv
  <2>8. QED
    BY <2>1, <2>5, <2>6, <2>7, IdleIsVerified, GuessesOfTurn DEF Left
<1>16. QED
  BY <1>4, <1>5, <1>6, <1>7, <1>8, <1>9, <1>11, <1>12, <1>13, <1>14, <1>15 DEF OtpNext

\* No code is compared with more wrong ones than the cap, for every cap, every lifetime and
\* every number of verifications, as long as they come one at a time and the server stays up.
THEOREM GuessesAreCappedHolds == Spec => []GuessesAreCapped
<1>1. Init => CapsInv /\ GuessesInv
  <2>1. ASSUME OtpInit PROVE GuessesInv
    <3>1. /\ guesses = [c \in 1..MaxArrivals |-> 0] /\ cache["code"] = NoCode
          /\ \A s \in Slot : otp[s].pc = "idle"
      BY <2>1 DEF OtpInit, Keys, Free
    <3>2. OneAtATime /\ \A c \in DOMAIN guesses : guesses[c] <= MaxVerifyAttempts
      BY <2>1, <3>1, CapsStart, OtpAssumption
    <3>3. QED
      BY <3>1, <3>2 DEF GuessesInv, CodeIsYoung, GuessesCounted, Verified, Comparing
  <2>2. QED
    BY <2>1, CapsStart DEF Init
<1>2. CapsInv /\ GuessesInv /\ [Next]_vars => (CapsInv /\ GuessesInv)'
  BY CapsStep, GuessesStep, StepsOfProvider
<1>3. GuessesInv => GuessesAreCapped
  BY DEF GuessesInv, GuessesAreCapped
<1>4. QED
  BY <1>1, <1>2, <1>3, PTL DEF Spec

------------------------------------------------------------------------------------
(* The administration of users. *)

Kind == {"none", "roles", "services", "update", "delete", "create"}
Place == {"idle", "done", "find", "readRoles", "count", "remove", "add", "set", "revoke", "delete",
          "create", "readRows", "saveRows"}
Wish == Role \cup ToSet(Fields)
RowType == [there : BOOLEAN, stamp : Nat, roles : SUBSET Wish, profile : [ToSet(Fields) -> Nat]]
RequestType ==
  [kind : Kind, pc : Place, by : User, user : User, stamp : Nat, desired : SUBSET Wish,
   read : SUBSET (Wish \cup Service), grants : SUBSET Service, number : Nat, met : BOOLEAN]
AdminTypes ==
  /\ users \in [User -> RowType] /\ rows \in [User -> SUBSET Service]
  /\ authorized \subseteq User /\ req \in [Desk -> RequestType]
  /\ requests \in Nat /\ alone \in BOOLEAN

\* What a request relies on, as long as the row is the one it was found with.
Expected(r, row) ==
  /\ r.pc \in {"count", "remove"} => row.roles = r.read
  /\ r.pc = "add" => row.roles \cup (r.desired \ r.read) = r.desired
  /\ r.pc = "set" => \A f \in r.read : row.profile[f] = r.number
Consistent(r) ==
  /\ r.stamp <= users[r.user].stamp
  /\ users[r.user].there /\ users[r.user].stamp = r.stamp => Expected(r, users[r.user])
  /\ r.kind = "update" /\ r.pc = "find" =>
       r.read = {} /\ r.desired # {} /\ r.desired \subseteq ToSet(Fields)
  /\ r.pc = "set" => r.desired # {} /\ r.desired \cup r.read \subseteq ToSet(Fields)
  /\ r.pc = "create" => r.read = {}
  /\ r.pc = "count" => "Administrator" \in r.read \ r.desired
  /\ r.kind = "delete" => r.desired = {}
  /\ r.pc = "done" => r.met
  /\ r.pc = "delete" /\ alone => r.user \notin authorized
AdminInv == AdminTypes /\ \A d \in Desk : Consistent(req[d])

LEMMA FieldNames ==
  /\ ToSet(Fields) = {"userName", "email", "phoneNumber", "locked"}
  /\ DOMAIN Fields = 1..4
  /\ \A i \in 1..4 : Fields[i] \in ToSet(Fields)
  /\ \A f \in ToSet(Fields) : \E i \in 1..4 : Fields[i] = f
<1>1. DOMAIN Fields = 1..4
  BY DEF Fields
<1>2. QED
  BY <1>1 DEF ToSet, Fields

LEMMA NoRequestIsConsistent ==
  /\ NoRequest \in RequestType
  /\ AdminTypes' => Consistent(NoRequest)'
<1>1. NoRequest \in RequestType
  BY AdminAssumption DEF NoRequest, RequestType, Kind, Place
<1>2. ASSUME AdminTypes' PROVE 0 <= users'[NewUser].stamp
  BY <1>2, AdminAssumption DEF AdminTypes, RowType
<1>3. QED
  BY <1>1, <1>2 DEF Consistent, Expected, NoRequest

LEMMA AdminStart == ASSUME AdminInit PROVE AdminInv
<1>1. Blank \in [ToSet(Fields) -> Nat] /\ Role = {"Administrator", "User"}
  BY DEF Blank, Role
<1>2. users \in [User -> RowType]
  BY <1>1, AdminAssumption DEF AdminInit, RowType, Wish
<1>3. AdminTypes
  BY <1>2, AdminAssumption, NoRequestIsConsistent DEF AdminInit, AdminTypes
<1>4. \A d \in Desk : req[d] = NoRequest
  BY DEF AdminInit
<1>5. Consistent(NoRequest)
  BY <1>2, AdminAssumption DEF Consistent, Expected, NoRequest, RowType
<1>6. QED
  BY <1>3, <1>4, <1>5 DEF AdminInv

\* A row that was saved has another stamp.
RowsMove == \A u \in User : users'[u] = users[u] \/ users'[u].stamp > users[u].stamp

\* What one request does leaves the others in order.
LEMMA OneRequestMoves ==
  ASSUME AdminInv, AdminTypes', NEW d \in Desk, \A e \in Desk \ {d} : req'[e] = req[e],
         RowsMove, alone' => alone /\ authorized' \subseteq authorized, Consistent(req[d])'
  PROVE  AdminInv'
<1>1. ASSUME NEW e \in Desk, e # d PROVE Consistent(req[e])'
  <2>1. req'[e] = req[e] /\ req[e] \in RequestType /\ Consistent(req[e])
    BY <1>1 DEF AdminInv, AdminTypes
  <2> DEFINE r == req[e]
             u == r.user
  <2>2. u \in User /\ r.stamp \in Nat
    BY <2>1 DEF RequestType
  <2>3. users[u] \in RowType /\ users'[u] \in RowType
    BY <2>2 DEF AdminInv, AdminTypes
  <2>4. CASE users'[u] = users[u]
    BY <2>1, <2>4 DEF Consistent, Expected
  <2>5. CASE users'[u].stamp > users[u].stamp
    <3>1. r.stamp <= users'[u].stamp /\ users'[u].stamp # r.stamp
      BY <2>1, <2>2, <2>3, <2>5 DEF Consistent, RowType
    <3>2. QED
      BY <2>1, <3>1 DEF Consistent
  <2>6. QED
    BY <2>2, <2>4, <2>5 DEF RowsMove
<1>2. QED
  BY <1>1 DEF AdminInv

LEMMA Answered ==
  ASSUME AdminInv, AdminTypes', NEW d \in Desk, NEW met, Answer(d, met), met = TRUE
  PROVE  Consistent(req[d])' /\ \A e \in Desk \ {d} : req'[e] = req[e]
<1>1. \A e \in Desk \ {d} : req'[e] = req[e]
  BY DEF Answer, AdminInv, AdminTypes
<1>2. req'[d] = [NoRequest EXCEPT !.pc = "done", !.met = met]
  BY DEF Answer, AdminInv, AdminTypes
<1>3. /\ req'[d].pc = "done" /\ req'[d].met = TRUE /\ req'[d].kind = "none"
      /\ req'[d].stamp = 0 /\ req'[d].user = NewUser /\ req'[d].desired = {}
  BY <1>2 DEF NoRequest
<1>4. 0 <= users'[NewUser].stamp
  BY AdminAssumption DEF AdminTypes, RowType
<1>5. QED
  BY <1>1, <1>3, <1>4 DEF Consistent, Expected

LEMMA Refused ==
  ASSUME AdminInv, AdminTypes', NEW d \in Desk, Refuse(d)
  PROVE  Consistent(req[d])' /\ \A e \in Desk \ {d} : req'[e] = req[e]
<1>1. req'[d] = NoRequest /\ \A e \in Desk \ {d} : req'[e] = req[e]
  BY DEF Refuse, AdminInv, AdminTypes
<1>2. Consistent(NoRequest)'
  BY NoRequestIsConsistent
<1>3. QED
  BY <1>1, <1>2 DEF Consistent

LEMMA AnswerTypes ==
  ASSUME req \in [Desk -> RequestType], NEW d \in Desk
  PROVE  /\ \A met \in BOOLEAN : Answer(d, met) => req' \in [Desk -> RequestType]
         /\ Refuse(d) => req' \in [Desk -> RequestType]
<1>1. \A met \in BOOLEAN : [NoRequest EXCEPT !.pc = "done", !.met = met] \in RequestType
  BY NoRequestIsConsistent DEF RequestType, Place
<1>2. QED
  BY <1>1, NoRequestIsConsistent DEF Answer, Refuse

(* --------------------------------- requests come -------------------------------------- *)
LEMMA Taken ==
  ASSUME AdminInv, NEW d \in Desk, NEW kind \in Kind, NEW pc \in {"find", "create"},
         NEW by \in User, NEW user \in User, NEW desired \in SUBSET Wish,
         NEW grants \in SUBSET Service, Take(d, Request(kind, pc, by, user, desired, grants)),
         kind = "update" => desired # {} /\ desired \subseteq ToSet(Fields),
         kind = "delete" => desired = {}
  PROVE  AdminInv'
<1> DEFINE new == req'[d]
<1>1. /\ requests' = requests + 1 /\ UNCHANGED <<users, rows, authorized, mixed>>
      /\ alone' = (alone /\ Unserved)
  BY DEF Take
<1>2. req' = [req EXCEPT ![d] = [NoRequest EXCEPT !.kind = kind, !.pc = pc, !.by = by, !.user = user,
                                   !.desired = desired, !.grants = grants, !.number = requests + 1]]
  BY DEF Take, Request
<1>3. [NoRequest EXCEPT !.kind = kind, !.pc = pc, !.by = by, !.user = user, !.desired = desired,
                        !.grants = grants, !.number = requests + 1] \in RequestType
  <2> DEFINE n1 == [NoRequest EXCEPT !.kind = kind, !.pc = pc]
             n2 == [n1 EXCEPT !.by = by, !.user = user]
             n3 == [n2 EXCEPT !.desired = desired, !.grants = grants]
             n4 == [n3 EXCEPT !.number = requests + 1]
  <2>1. requests + 1 \in Nat
    BY DEF AdminInv, AdminTypes
  <2>2. n1 \in RequestType
    BY NoRequestIsConsistent DEF RequestType, Place
  <2> HIDE DEF n1
  <2>3. n2 \in RequestType
    BY <2>2 DEF RequestType
  <2> HIDE DEF n2
  <2>4. n3 \in RequestType
    BY <2>3 DEF RequestType
  <2> HIDE DEF n3
  <2>5. n4 \in RequestType
    BY <2>1, <2>4 DEF RequestType
  <2>6. QED
    BY <2>5, SMT DEF n1, n2, n3
<1>4. AdminTypes'
  BY <1>1, <1>2, <1>3 DEF AdminInv, AdminTypes
<1>5. /\ new.kind = kind /\ new.pc = pc /\ new.user = user /\ new.desired = desired
      /\ new.stamp = 0 /\ new.read = {}
  BY <1>2 DEF NoRequest, AdminInv, AdminTypes
<1>6. 0 <= users[user].stamp
  BY DEF AdminInv, AdminTypes, RowType
<1>7. Consistent(req[d])'
  BY <1>1, <1>5, <1>6 DEF Consistent, Expected
<1>8. RowsMove /\ (alone' => alone /\ authorized' \subseteq authorized)
  BY <1>1 DEF RowsMove
<1>9. \A e \in Desk \ {d} : req'[e] = req[e]
  BY <1>2 DEF AdminInv, AdminTypes
<1>10. QED
  BY <1>4, <1>7, <1>8, <1>9, OneRequestMoves

LEMMA RequestsCome ==
  ASSUME AdminInv, NEW d \in Desk,
         SetRoles(d) \/ SetServices(d) \/ UpdateUser(d) \/ DeleteUser(d) \/ CreateUser(d)
  PROVE  AdminInv'
<1>1. Caller \subseteq User /\ NewUser \in User
  BY AdminAssumption
<1>2. CASE SetRoles(d)
  <2>1. PICK by \in Caller, u \in User, roles \in SUBSET Role :
          Take(d, Request("roles", "find", by, u, roles, {}))
    BY <1>2 DEF SetRoles
  <2>2. QED
    BY <1>1, <2>1, Taken DEF Kind, Wish
<1>3. CASE SetServices(d)
  <2>1. PICK u \in User, services \in SUBSET Service :
          Take(d, Request("services", "find", NewUser, u, {}, services))
    BY <1>3 DEF SetServices
  <2>2. QED
    BY <1>1, <2>1, Taken DEF Kind, Wish
<1>4. CASE UpdateUser(d)
  <2>1. PICK by \in Caller, u \in User, fields \in Updates :
          Take(d, Request("update", "find", by, u, fields, {}))
    BY <1>4 DEF UpdateUser
  <2>2. fields # {} /\ fields \subseteq ToSet(Fields)
    BY UpdatesAssumption
  <2>3. QED
    BY <1>1, <2>1, <2>2, Taken DEF Kind, Wish
<1>5. CASE DeleteUser(d)
  <2>1. PICK by \in Caller, u \in User : Take(d, Request("delete", "find", by, u, {}, {}))
    BY <1>5 DEF DeleteUser
  <2>2. QED
    BY <1>1, <2>1, Taken DEF Kind, Wish
<1>6. CASE CreateUser(d)
  <2>1. PICK roles \in {{}, {"User"}}, services \in {{}, Service} :
          Take(d, Request("create", "create", NewUser, NewUser, roles, services))
    BY <1>6 DEF CreateUser
  <2>2. QED
    BY <1>1, <2>1, Taken DEF Kind, Wish, Role
<1>7. QED
  BY <1>2, <1>3, <1>4, <1>5, <1>6

(* --------------------------------- requests read -------------------------------------- *)
LEMMA Found ==
  ASSUME AdminInv, NEW d \in Desk
  PROVE  /\ req[d] \in RequestType /\ Consistent(req[d]) /\ req[d].user \in User
         /\ Subject(d) = users[req[d].user] /\ Subject(d) \in RowType
         /\ rows[req[d].user] \subseteq Service
  BY DEF AdminInv, AdminTypes, RequestType, Subject

\* A step that changes no row, and no authorization.
LEMMA OneRequestReads ==
  ASSUME AdminInv, NEW d \in Desk, UNCHANGED <<users, rows, authorized, requests, alone>>,
         req' \in [Desk -> RequestType], \A e \in Desk \ {d} : req'[e] = req[e],
         Consistent(req[d])'
  PROVE  AdminInv'
<1>1. AdminTypes'
  BY DEF AdminInv, AdminTypes
<1>2. RowsMove /\ (alone' => alone /\ authorized' \subseteq authorized)
  BY DEF RowsMove
<1>3. QED
  BY <1>1, <1>2, OneRequestMoves

LEMMA RefusedReading ==
  ASSUME AdminInv, NEW d \in Desk, Refuse(d), UNCHANGED <<users, rows, authorized, requests, alone>>
  PROVE  AdminInv'
<1>1. req' \in [Desk -> RequestType]
  BY AnswerTypes DEF AdminInv, AdminTypes
<1>2. AdminTypes'
  BY <1>1 DEF AdminInv, AdminTypes
<1>3. QED
  BY <1>1, <1>2, Refused, OneRequestReads

\* A request as its calls change it is a request.
LEMMA RequestUpdates ==
  ASSUME AdminInv, NEW d \in Desk, NEW pc \in Place, NEW stamp \in Nat,
         NEW read \in SUBSET (Wish \cup Service), NEW desired \in SUBSET Wish
  PROVE  /\ [req EXCEPT ![d].pc = pc] \in [Desk -> RequestType]
         /\ [req EXCEPT ![d].pc = pc, ![d].stamp = stamp] \in [Desk -> RequestType]
         /\ [req EXCEPT ![d].pc = pc, ![d].read = read] \in [Desk -> RequestType]
         /\ [req EXCEPT ![d].desired = desired, ![d].read = read, ![d].stamp = stamp]
              \in [Desk -> RequestType]
<1> DEFINE P == [req EXCEPT ![d].pc = pc]
           D == [req EXCEPT ![d].desired = desired]
           DR == [D EXCEPT ![d].read = read]
<1>1. req \in [Desk -> RequestType]
  BY DEF AdminInv, AdminTypes
<1>2. P \in [Desk -> RequestType] /\ D \in [Desk -> RequestType]
  BY <1>1 DEF RequestType
<1>3. /\ [req EXCEPT ![d].pc = pc, ![d].stamp = stamp] = [P EXCEPT ![d].stamp = stamp]
      /\ [req EXCEPT ![d].pc = pc, ![d].read = read] = [P EXCEPT ![d].read = read]
      /\ [req EXCEPT ![d].desired = desired, ![d].read = read, ![d].stamp = stamp]
           = [DR EXCEPT ![d].stamp = stamp]
  BY SMT
<1> HIDE DEF P, D
<1>4. DR \in [Desk -> RequestType]
  BY <1>2 DEF RequestType
<1> HIDE DEF DR
<1>5. /\ [P EXCEPT ![d].stamp = stamp] \in [Desk -> RequestType]
      /\ [P EXCEPT ![d].read = read] \in [Desk -> RequestType]
      /\ [DR EXCEPT ![d].stamp = stamp] \in [Desk -> RequestType]
  BY <1>2, <1>4 DEF RequestType
<1>6. QED
  BY <1>2, <1>3, <1>5 DEF P

LEMMA FindStep == ASSUME AdminInv, NEW d \in Desk, FindById(d) PROVE AdminInv'
<1>1. UNCHANGED <<users, rows, authorized, requests, alone>> /\ req[d].pc = "find"
  BY DEF FindById, Reading
<1>2. CASE Refuse(d)
  BY <1>1, <1>2, RefusedReading
<1>3. CASE ~ Refuse(d)
  <2>1. PICK pc \in {"readRows", "set", "readRoles"} :
          /\ pc = "set" => req[d].kind = "update"
          /\ req' = [req EXCEPT ![d].pc = pc, ![d].stamp = Subject(d).stamp]
    BY <1>3 DEF FindById
  <2>2. Subject(d).stamp \in Nat
    BY Found DEF RowType
  <2>3. req' \in [Desk -> RequestType] /\ \A e \in Desk \ {d} : req'[e] = req[e]
    <3>1. pc \in Place
      BY DEF Place
    <3>2. req' \in [Desk -> RequestType]
      BY <2>1, <2>2, <3>1, RequestUpdates
    <3>3. QED
      BY <2>1, <3>2 DEF AdminInv, AdminTypes
  <2>4. /\ req'[d].pc = pc /\ req'[d].stamp = users[req[d].user].stamp /\ req'[d].user = req[d].user
        /\ req'[d].kind = req[d].kind /\ req'[d].read = req[d].read
        /\ req'[d].desired = req[d].desired /\ req'[d].number = req[d].number
    BY <2>1, Found DEF AdminInv, AdminTypes, RequestType
  <2> DEFINE r == req[d]
             new == req'[d]
  <2>5. /\ Consistent(r) /\ users' = users /\ r.pc = "find" /\ authorized' = authorized
        /\ users[r.user].stamp \in Nat
    BY <1>1, <2>2, Found
  <2>6. pc = "set" => r.read = {} /\ r.desired # {} /\ r.desired \subseteq ToSet(Fields)
    BY <2>1, <2>5 DEF Consistent
  <2> HIDE DEF r, new
  <2>7. r.kind = "delete" => r.desired = {}
    BY <2>5 DEF Consistent
  <2>8. Expected(new, users'[new.user])
    BY <2>4, <2>6 DEF Expected, r, new
  <2>9. Consistent(req[d])'
    BY <2>4, <2>5, <2>6, <2>7, <2>8 DEF Consistent, r, new
  <2>10. QED
    BY <1>1, <2>3, <2>9, OneRequestReads
<1>4. QED
  BY <1>2, <1>3

LEMMA ReadRolesStep == ASSUME AdminInv, NEW d \in Desk, ReadRoles(d) PROVE AdminInv'
<1> DEFINE read == Subject(d).roles
<1>1. UNCHANGED <<users, rows, authorized, requests, alone>> /\ req[d].pc = "readRoles"
  BY DEF ReadRoles, Reading
<1>2. read \subseteq Wish /\ req[d].desired \subseteq Wish
  BY Found DEF RowType, RequestType
<1>3. CASE Refuse(d)
  BY <1>1, <1>3, RefusedReading
<1>4. CASE Answer(d, read = req[d].desired) /\ Saves(d, read) = "done"
  <2>1. read = req[d].desired
    BY <1>2, <1>4 DEF Saves
  <2>2. req' \in [Desk -> RequestType]
    BY <1>4, AnswerTypes DEF AdminInv, AdminTypes
  <2>3. AdminTypes'
    BY <1>1, <2>2 DEF AdminInv, AdminTypes
  <2>4. QED
    BY <1>1, <1>4, <2>1, <2>2, <2>3, Answered, OneRequestReads
<1>5. ASSUME NEW pc, req' = [req EXCEPT ![d].pc = pc, ![d].read = read],
             \/ pc = "count" /\ "Administrator" \in read \ req[d].desired
             \/ pc = Saves(d, read) /\ pc # "done"
      PROVE  AdminInv'
  <2>1. pc \in {"count", "revoke", "remove", "add"}
        /\ (pc = "add" => read \cup (req[d].desired \ read) = req[d].desired)
        /\ (pc = "count" => "Administrator" \in read \ req[d].desired)
    BY <1>5 DEF Saves
  <2>2. read \subseteq Wish \cup Service
    BY <1>2 DEF Wish
  <2>3. req' \in [Desk -> RequestType] /\ \A e \in Desk \ {d} : req'[e] = req[e]
    <3>1. pc \in Place
      BY <2>1 DEF Place
    <3>2. req' \in [Desk -> RequestType]
      BY <1>5, <2>2, <3>1, RequestUpdates
    <3>3. QED
      BY <1>5, <3>2 DEF AdminInv, AdminTypes
  <2>4. /\ req'[d].pc = pc /\ req'[d].stamp = req[d].stamp /\ req'[d].user = req[d].user
        /\ req'[d].kind = req[d].kind /\ req'[d].read = users[req[d].user].roles
        /\ req'[d].desired = req[d].desired
    BY <1>5, Found DEF AdminInv, AdminTypes, RequestType
  <2>5. Subject(d) = users[req[d].user]
    BY Found
  <2>6. Consistent(req[d])'
    BY <1>1, <2>1, <2>4, <2>5, Found DEF Consistent, Expected
  <2>7. QED
    BY <1>1, <2>3, <2>6, OneRequestReads
<1>6. \/ Refuse(d)
      \/ Answer(d, read = req[d].desired) /\ Saves(d, read) = "done"
      \/ \E pc : /\ req' = [req EXCEPT ![d].pc = pc, ![d].read = read]
                 /\ \/ pc = "count" /\ "Administrator" \in read \ req[d].desired
                    \/ pc = Saves(d, read) /\ pc # "done"
  BY DEF ReadRoles
<1>7. QED
  BY <1>3, <1>4, <1>5, <1>6

LEMMA CountStep == ASSUME AdminInv, NEW d \in Desk, CountAdministrators(d) PROVE AdminInv'
<1>1. UNCHANGED <<users, rows, authorized, requests, alone>> /\ req[d].pc = "count"
  BY DEF CountAdministrators, Reading
<1>2. CASE Refuse(d)
  BY <1>1, <1>2, RefusedReading
<1>3. CASE req' = [req EXCEPT ![d].pc = Saves(d, req[d].read)]
  <2>1. "Administrator" \in req[d].read \ req[d].desired
    BY <1>1, Found DEF Consistent
  <2>2. Saves(d, req[d].read) \in {"remove", "revoke"}
    BY <2>1 DEF Saves
  <2>3. req' \in [Desk -> RequestType] /\ \A e \in Desk \ {d} : req'[e] = req[e]
    BY <1>3, <2>2 DEF AdminInv, AdminTypes, RequestType, Place
  <2>4. /\ req'[d].pc \in {"remove", "revoke"} /\ req'[d].stamp = req[d].stamp
        /\ req'[d].user = req[d].user /\ req'[d].kind = req[d].kind
        /\ req'[d].read = req[d].read /\ req'[d].desired = req[d].desired
    BY <1>3, <2>2, Found DEF AdminInv, AdminTypes, RequestType
  <2>5. Consistent(req[d])'
    BY <1>1, <2>4, Found DEF Consistent, Expected
  <2>6. QED
    BY <1>1, <2>3, <2>5, OneRequestReads
<1>4. QED
  BY <1>2, <1>3 DEF CountAdministrators

LEMMA ReadRowsStep == ASSUME AdminInv, NEW d \in Desk, ReadRows(d) PROVE AdminInv'
<1>1. /\ UNCHANGED <<users, rows, authorized, requests, alone>> /\ req[d].pc = "readRows"
      /\ req' = [req EXCEPT ![d].pc = "saveRows", ![d].read = rows[req[d].user]]
  BY DEF ReadRows, Reading
<1>2. req' \in [Desk -> RequestType] /\ \A e \in Desk \ {d} : req'[e] = req[e]
  <2>1. "saveRows" \in Place /\ rows[req[d].user] \subseteq Wish \cup Service
    BY Found DEF Place
  <2>2. req' \in [Desk -> RequestType]
    BY <1>1, <2>1, RequestUpdates
  <2>3. QED
    BY <1>1, <2>2 DEF AdminInv, AdminTypes
<1>3. /\ req'[d].pc = "saveRows" /\ req'[d].stamp = req[d].stamp
      /\ req'[d].user = req[d].user /\ req'[d].kind = req[d].kind
      /\ req'[d].desired = req[d].desired
  BY <1>1, Found DEF AdminInv, AdminTypes, RequestType
<1>4. Consistent(req[d])'
  BY <1>1, <1>3, Found DEF Consistent, Expected
<1>5. QED
  BY <1>1, <1>2, <1>4, OneRequestReads

(* --------------------------------- requests save -------------------------------------- *)
LEMMA FailStep == ASSUME AdminInv, NEW d \in Desk, SaveFails(d) PROVE AdminInv'
  BY RefusedReading DEF SaveFails, Reading

LEMMA RowSaved ==
  ASSUME AdminInv, NEW d \in Desk, NEW roles \in SUBSET Wish,
         NEW profile \in [ToSet(Fields) -> Nat], Saved(d, roles, profile)
  PROVE  /\ users' \in [User -> RowType] /\ RowsMove
         /\ users'[req[d].user].there
         /\ users'[req[d].user].stamp = users[req[d].user].stamp + 1
         /\ users'[req[d].user].roles = roles /\ users'[req[d].user].profile = profile
<1> DEFINE u == req[d].user
           row == [there |-> TRUE, stamp |-> users[u].stamp + 1, roles |-> roles, profile |-> profile]
<1>1. u \in User /\ users[u] \in RowType /\ users \in [User -> RowType]
  BY Found DEF AdminInv, AdminTypes
<1>2. users' = [users EXCEPT ![u] = row]
  BY DEF Saved
<1>3. row \in RowType /\ row.stamp > users[u].stamp
  BY <1>1 DEF RowType
<1>4. users'[u] = row /\ \A v \in User \ {u} : users'[v] = users[v]
  BY <1>1, <1>2
<1>5. users' \in [User -> RowType]
  BY <1>1, <1>2, <1>3
<1>6. RowsMove
  BY <1>3, <1>4 DEF RowsMove
<1>7. QED
  BY <1>4, <1>5, <1>6

\* A request that saved a row, and goes on or is answered.
LEMMA OneRequestSaves ==
  ASSUME AdminInv, NEW d \in Desk, users' \in [User -> RowType], RowsMove,
         rows' \in [User -> SUBSET Service], UNCHANGED <<requests, alone>>,
         authorized' \subseteq authorized,
         \/ \E met \in BOOLEAN : Answer(d, met) /\ met = TRUE
         \/ /\ req' \in [Desk -> RequestType] /\ \A e \in Desk \ {d} : req'[e] = req[e]
            /\ Consistent(req[d])'
  PROVE  AdminInv'
<1>1. req' \in [Desk -> RequestType]
  BY AnswerTypes DEF AdminInv, AdminTypes
<1>2. AdminTypes'
  BY <1>1 DEF AdminInv, AdminTypes
<1>3. Consistent(req[d])' /\ \A e \in Desk \ {d} : req'[e] = req[e]
  BY <1>2, Answered
<1>4. QED
  BY <1>2, <1>3, OneRequestMoves

LEMMA RemoveStep == ASSUME AdminInv, NEW d \in Desk, RemoveFromRoles(d) PROVE AdminInv'
<1> DEFINE r == req[d]
           row == users[r.user]
           left == row.roles \ (r.read \ r.desired)
<1>1. /\ r.pc = "remove" /\ row.there /\ row.stamp = r.stamp /\ Saved(d, left, row.profile)
      /\ \/ r.desired \subseteq r.read /\ Answer(d, left = r.desired)
         \/ req' = [req EXCEPT ![d].pc = "add", ![d].stamp = row.stamp + 1]
      /\ UNCHANGED <<rows, authorized, requests, alone>>
  BY DEF RemoveFromRoles, Fresh, Subject, Rest
<1>2. r \in RequestType /\ row \in RowType /\ Consistent(r)
  BY Found
<1>3. row.roles = r.read
  BY <1>1, <1>2 DEF Consistent, Expected
<1>4. left \in SUBSET Wish /\ row.profile \in [ToSet(Fields) -> Nat]
  BY <1>2 DEF RowType
<1>5. /\ users' \in [User -> RowType] /\ RowsMove /\ users'[r.user].stamp = row.stamp + 1
      /\ users'[r.user].roles = left
  BY <1>1, <1>4, RowSaved
<1>6. rows' \in [User -> SUBSET Service]
  BY <1>1 DEF AdminInv, AdminTypes
<1>7. left \cup (r.desired \ r.read) = r.desired
  BY <1>3
<1>8. CASE r.desired \subseteq r.read /\ Answer(d, left = r.desired)
  <2>1. left = r.desired
    BY <1>3, <1>8
  <2>2. \E met \in BOOLEAN : Answer(d, met) /\ met = TRUE
    BY <1>8, <2>1
  <2>3. QED
    BY <1>1, <1>5, <1>6, <2>2, OneRequestSaves
<1>9. CASE req' = [req EXCEPT ![d].pc = "add", ![d].stamp = row.stamp + 1]
  <2>1. row.stamp + 1 \in Nat /\ "add" \in Place
    BY <1>2 DEF RowType, Place
  <2>2. req' \in [Desk -> RequestType]
    BY <1>9, <2>1, RequestUpdates
  <2>3. /\ req'[d].pc = "add" /\ req'[d].stamp = row.stamp + 1 /\ req'[d].user = r.user
        /\ req'[d].kind = r.kind /\ req'[d].read = r.read /\ req'[d].desired = r.desired
        /\ \A e \in Desk \ {d} : req'[e] = req[e]
    BY <1>2, <1>9 DEF AdminInv, AdminTypes, RequestType
  <2> HIDE DEF left
  <2>4. Consistent(req[d])'
    BY <1>2, <1>5, <1>7, <2>1, <2>3 DEF Consistent, Expected
  <2>5. QED
    BY <1>1, <1>5, <1>6, <2>2, <2>3, <2>4, OneRequestSaves
<1>10. QED
  BY <1>1, <1>8, <1>9

LEMMA AddStep == ASSUME AdminInv, NEW d \in Desk, AddToRoles(d) PROVE AdminInv'
<1> DEFINE r == req[d]
           row == users[r.user]
           roles == row.roles \cup (r.desired \ r.read)
<1>1. /\ r.pc = "add" /\ row.there /\ row.stamp = r.stamp /\ Saved(d, roles, row.profile)
      /\ \/ req' = [req EXCEPT ![d].pc = "readRows"]
         \/ Answer(d, roles = r.desired)
      /\ UNCHANGED <<rows, authorized, requests, alone>>
  BY DEF AddToRoles, Fresh, Subject, Rest
<1>2. r \in RequestType /\ row \in RowType /\ Consistent(r)
  BY Found
<1>3. roles = r.desired
  BY <1>1, <1>2 DEF Consistent, Expected
<1>4. roles \in SUBSET Wish /\ row.profile \in [ToSet(Fields) -> Nat]
  BY <1>2 DEF RowType, RequestType
<1>5. users' \in [User -> RowType] /\ RowsMove /\ users'[r.user].stamp = row.stamp + 1
  BY <1>1, <1>4, RowSaved
<1>6. rows' \in [User -> SUBSET Service]
  BY <1>1 DEF AdminInv, AdminTypes
<1>7. CASE Answer(d, roles = r.desired)
  <2>1. \E met \in BOOLEAN : Answer(d, met) /\ met = TRUE
    BY <1>3, <1>7
  <2>2. QED
    BY <1>1, <1>5, <1>6, <2>1, OneRequestSaves
<1>8. CASE req' = [req EXCEPT ![d].pc = "readRows"]
  <2>1. req' \in [Desk -> RequestType]
    BY <1>8, RequestUpdates DEF Place
  <2>2. /\ req'[d].pc = "readRows" /\ req'[d].stamp = r.stamp /\ req'[d].user = r.user
        /\ req'[d].kind = r.kind /\ req'[d].desired = r.desired
        /\ \A e \in Desk \ {d} : req'[e] = req[e]
    BY <1>2, <1>8 DEF AdminInv, AdminTypes, RequestType
  <2>3. r.stamp <= users'[r.user].stamp
    BY <1>1, <1>2, <1>5 DEF RowType
  <2>4. Consistent(req[d])'
    BY <1>2, <2>2, <2>3 DEF Consistent, Expected
  <2>5. QED
    BY <1>1, <1>5, <1>6, <2>1, <2>2, <2>4, OneRequestSaves
<1>9. QED
  BY <1>1, <1>7, <1>8

\* The first of the fields that are left.
LEMMA FirstField ==
  ASSUME NEW left, left # {}, left \subseteq ToSet(Fields)
  PROVE  LET first == CHOOSE i \in DOMAIN Fields :
                        Fields[i] \in left /\ \A j \in 1..(i - 1) : Fields[j] \notin left
         IN Fields[first] \in left
<1> DEFINE Chosen(i) == Fields[i] \in left /\ \A j \in 1..(i - 1) : Fields[j] \notin left
<1>1. \E i \in 1..4 : Fields[i] \in left
  BY FieldNames
<1>2. \E i \in 1..4 : Chosen(i)
  <2>1. CASE Fields[1] \in left
    BY <2>1
  <2>2. CASE Fields[1] \notin left /\ Fields[2] \in left
    BY <2>2
  <2>3. CASE Fields[1] \notin left /\ Fields[2] \notin left /\ Fields[3] \in left
    BY <2>3
  <2>4. CASE \A j \in 1..3 : Fields[j] \notin left
    BY <1>1, <2>4
  <2>5. QED
    BY <2>1, <2>2, <2>3, <2>4
<1>3. QED
  BY <1>2, FieldNames

LEMMA SetStep == ASSUME AdminInv, NEW d \in Desk, Set(d) PROVE AdminInv'
<1> DEFINE r == req[d]
           row == users[r.user]
           first == CHOOSE i \in DOMAIN Fields :
                      Fields[i] \in r.desired /\ \A j \in 1..(i - 1) : Fields[j] \notin r.desired
           field == Fields[first]
           profile == [row.profile EXCEPT ![field] = r.number]
           left == r.desired \ {field}
<1>1. /\ r.pc = "set" /\ UNCHANGED <<rows, authorized, requests, alone>>
      /\ \/ Refuse(d) /\ UNCHANGED users
         \/ /\ row.there /\ row.stamp = r.stamp /\ Saved(d, row.roles, profile)
            /\ \/ left = {} /\ Answer(d, \A f \in r.read \cup r.desired : profile[f] = r.number)
               \/ /\ left # {}
                  /\ req' = [req EXCEPT ![d].desired = left, ![d].read = r.read \cup {field},
                                        ![d].stamp = r.stamp + 1]
  BY Found DEF Set, Fresh, Subject, Rest
<1>2. r \in RequestType /\ row \in RowType /\ Consistent(r)
  BY Found
<1>3. r.desired # {} /\ r.desired \subseteq ToSet(Fields) /\ r.read \subseteq ToSet(Fields)
  BY <1>1, <1>2 DEF Consistent
<1>4. field \in r.desired
  BY <1>3, FirstField
<1> HIDE DEF field
<1>5. CASE Refuse(d) /\ UNCHANGED users
  BY <1>1, <1>5, RefusedReading
<1>6. CASE /\ row.there /\ row.stamp = r.stamp /\ Saved(d, row.roles, profile)
           /\ \/ left = {} /\ Answer(d, \A f \in r.read \cup r.desired : profile[f] = r.number)
              \/ /\ left # {}
                 /\ req' = [req EXCEPT ![d].desired = left, ![d].read = r.read \cup {field},
                                       ![d].stamp = r.stamp + 1]
  <2>1. /\ row.profile \in [ToSet(Fields) -> Nat] /\ r.number \in Nat /\ row.roles \in SUBSET Wish
        /\ row.stamp \in Nat /\ r.desired \in SUBSET Wish /\ r.read \in SUBSET (Wish \cup Service)
    BY <1>2 DEF RowType, RequestType
  <2>2. \A f \in r.read : row.profile[f] = r.number
    BY <1>1, <1>2, <1>6 DEF Consistent, Expected
  <2>3. profile \in [ToSet(Fields) -> Nat] /\ \A f \in r.read \cup {field} : profile[f] = r.number
    BY <1>3, <1>4, <2>1, <2>2
  <2> HIDE DEF profile
  <2>4. /\ users' \in [User -> RowType] /\ RowsMove /\ users'[r.user].stamp = row.stamp + 1
        /\ users'[r.user].profile = profile
    BY <1>6, <2>1, <2>3, RowSaved
  <2>5. rows' \in [User -> SUBSET Service]
    BY <1>1 DEF AdminInv, AdminTypes
  <2>6. CASE left = {} /\ Answer(d, \A f \in r.read \cup r.desired : profile[f] = r.number)
    <3>1. \A f \in r.read \cup r.desired : profile[f] = r.number
      BY <2>3, <2>6
    <3>2. \E met \in BOOLEAN : Answer(d, met) /\ met = TRUE
      BY <2>6, <3>1
    <3>3. QED
      BY <1>1, <2>4, <2>5, <3>2, OneRequestSaves
  <2>7. CASE left # {} /\ req' = [req EXCEPT ![d].desired = left, ![d].read = r.read \cup {field},
                                             ![d].stamp = r.stamp + 1]
    <3>1. /\ left \in SUBSET Wish /\ r.read \cup {field} \in SUBSET (Wish \cup Service)
          /\ r.stamp + 1 \in Nat
      BY <1>4, <1>6, <2>1
    <3>2. req' \in [Desk -> RequestType]
      BY <2>7, <3>1, RequestUpdates DEF Place
    <3>3. /\ req'[d].pc = "set" /\ req'[d].stamp = r.stamp + 1 /\ req'[d].user = r.user
          /\ req'[d].kind = r.kind /\ req'[d].desired = left /\ req'[d].read = r.read \cup {field}
          /\ req'[d].number = r.number
          /\ \A e \in Desk \ {d} : req'[e] = req[e]
      BY <1>1, <1>2, <2>7 DEF AdminInv, AdminTypes, RequestType
    <3>4. left \cup (r.read \cup {field}) \subseteq ToSet(Fields) /\ (r.desired = {} => left = {})
      BY <1>3, <1>4
    <3>5. r.kind = "delete" => left = {}
      BY <1>2, <3>4 DEF Consistent
    <3> HIDE DEF left
    <3>6. Expected(req'[d], users'[r.user])
      BY <2>3, <2>4, <3>3 DEF Expected
    <3>7. req'[d].stamp <= users'[r.user].stamp
      BY <1>6, <2>1, <2>4, <3>3
    <3>8. Consistent(req[d])'
      BY <2>7, <3>3, <3>4, <3>5, <3>6, <3>7 DEF Consistent
    <3>9. QED
      BY <1>1, <2>4, <2>5, <3>2, <3>3, <3>8, OneRequestSaves
  <2>8. QED
    BY <1>6, <2>6, <2>7
<1>7. QED
  BY <1>1, <1>5, <1>6

LEMMA RevokeStep == ASSUME AdminInv, NEW d \in Desk, TryRevoke(d) PROVE AdminInv'
<1> DEFINE r == req[d]
<1>1. /\ r.pc = "revoke" /\ UNCHANGED <<users, rows, requests, alone>>
      /\ authorized' = authorized \ {r.user} \/ (~ alone /\ authorized' = authorized)
      /\ req' = [req EXCEPT ![d].pc = "delete"]
  BY DEF TryRevoke
<1>2. r \in RequestType /\ Consistent(r)
  BY Found
<1>3. req' \in [Desk -> RequestType]
  BY <1>1, RequestUpdates DEF Place
<1>4. /\ req'[d].pc = "delete" /\ req'[d].stamp = r.stamp /\ req'[d].user = r.user
      /\ req'[d].kind = r.kind /\ req'[d].desired = r.desired
      /\ \A e \in Desk \ {d} : req'[e] = req[e]
  BY <1>1, <1>2 DEF AdminInv, AdminTypes, RequestType
<1>5. Consistent(req[d])'
  BY <1>1, <1>2, <1>4 DEF Consistent, Expected
<1>6. users' \in [User -> RowType] /\ RowsMove /\ rows' \in [User -> SUBSET Service]
  BY <1>1 DEF RowsMove, AdminInv, AdminTypes
<1>7. QED
  BY <1>1, <1>3, <1>4, <1>5, <1>6, OneRequestSaves

LEMMA DeleteStep == ASSUME AdminInv, NEW d \in Desk, Delete(d) PROVE AdminInv'
<1> DEFINE r == req[d]
           u == r.user
           gone == [there |-> FALSE, stamp |-> users[u].stamp + 1, roles |-> {}, profile |-> Blank]
<1>1. /\ r.pc = "delete" /\ UNCHANGED <<authorized, requests, alone>>
      /\ users' = [users EXCEPT ![u] = gone]
      /\ rows' = [rows EXCEPT ![u] = {}] /\ Answer(d, alone => u \notin authorized)
  BY DEF Delete
<1>2. Consistent(r) /\ u \in User /\ users[u] \in RowType
  BY Found
<1>3. gone \in RowType /\ gone.stamp > users[u].stamp
  BY <1>2 DEF RowType, Blank
<1> HIDE DEF gone
<1>4. users' \in [User -> RowType] /\ RowsMove
  BY <1>1, <1>2, <1>3 DEF RowsMove, AdminInv, AdminTypes
<1>5. rows' \in [User -> SUBSET Service]
  BY <1>1 DEF AdminInv, AdminTypes
<1>6. alone => u \notin authorized
  BY <1>1, <1>2 DEF Consistent
<1>7. \E met \in BOOLEAN : Answer(d, met) /\ met = TRUE
  BY <1>1, <1>6
<1>8. QED
  BY <1>1, <1>4, <1>5, <1>7, OneRequestSaves

LEMMA CreateStep == ASSUME AdminInv, NEW d \in Desk, Create(d) PROVE AdminInv'
<1> DEFINE r == req[d]
           row == users[r.user]
<1>1. /\ r.pc = "create" /\ UNCHANGED <<rows, authorized, requests, alone>>
      /\ \/ Refuse(d) /\ UNCHANGED users
         \/ /\ Saved(d, {}, Blank)
            /\ \E pc \in {"readRows", "add"} :
                 req' = [req EXCEPT ![d].pc = pc, ![d].stamp = row.stamp + 1]
  BY DEF Create, Subject, Rest
<1>2. r \in RequestType /\ row \in RowType /\ Consistent(r)
  BY Found
<1>3. CASE Refuse(d) /\ UNCHANGED users
  BY <1>1, <1>3, RefusedReading
<1>4. CASE Saved(d, {}, Blank) /\ \E pc \in {"readRows", "add"} :
             req' = [req EXCEPT ![d].pc = pc, ![d].stamp = row.stamp + 1]
  <2>1. PICK pc \in {"readRows", "add"} :
          req' = [req EXCEPT ![d].pc = pc, ![d].stamp = row.stamp + 1]
    BY <1>4
  <2>2. Blank \in [ToSet(Fields) -> Nat] /\ {} \in SUBSET Wish /\ row.stamp + 1 \in Nat
    BY <1>2 DEF Blank, RowType
  <2>3. /\ users' \in [User -> RowType] /\ RowsMove /\ users'[r.user].stamp = row.stamp + 1
        /\ users'[r.user].roles = {}
    BY <1>4, <2>2, RowSaved
  <2>4. rows' \in [User -> SUBSET Service]
    BY <1>1 DEF AdminInv, AdminTypes
  <2>5. req' \in [Desk -> RequestType]
    BY <2>1, <2>2, RequestUpdates DEF Place
  <2>6. /\ req'[d].pc = pc /\ req'[d].stamp = row.stamp + 1 /\ req'[d].user = r.user
        /\ req'[d].kind = r.kind /\ req'[d].desired = r.desired /\ req'[d].read = r.read
        /\ \A e \in Desk \ {d} : req'[e] = req[e]
    BY <1>2, <2>1 DEF AdminInv, AdminTypes, RequestType
  <2>7. r.read = {}
    BY <1>1, <1>2 DEF Consistent
  <2>8. Expected(req'[d], users'[r.user])
    BY <2>3, <2>6, <2>7 DEF Expected
  <2>9. Consistent(req[d])'
    BY <1>2, <2>2, <2>3, <2>6, <2>8 DEF Consistent
  <2>10. QED
    BY <1>1, <2>3, <2>4, <2>5, <2>6, <2>9, OneRequestSaves
<1>5. QED
  BY <1>1, <1>3, <1>4

LEMMA SaveRowsStep == ASSUME AdminInv, NEW d \in Desk, SaveRows(d) PROVE AdminInv'
<1> DEFINE r == req[d]
           others == rows[r.user] \ r.read
<1>1. /\ UNCHANGED <<users, authorized, requests, alone>>
      /\ rows' = [rows EXCEPT ![r.user] = r.grants \cup others]
      /\ mixed' = IF others = {} THEN mixed ELSE mixed \cup {r.user}
      /\ Answer(d, r.user \in mixed' \/ rows'[r.user] = r.grants)
  BY DEF SaveRows
<1>2. r \in RequestType /\ r.user \in User /\ rows[r.user] \subseteq Service
  BY Found
<1>3. r.grants \cup others \in SUBSET Service
  BY <1>2 DEF RequestType
<1>4. rows' \in [User -> SUBSET Service] /\ rows'[r.user] = r.grants \cup others
  BY <1>1, <1>2, <1>3 DEF AdminInv, AdminTypes
<1>5. r.user \in mixed' \/ rows'[r.user] = r.grants
  BY <1>1, <1>4
<1>6. \E met \in BOOLEAN : Answer(d, met) /\ met = TRUE
  BY <1>1, <1>5
<1>7. users' \in [User -> RowType] /\ RowsMove /\ authorized' \subseteq authorized
  BY <1>1 DEF RowsMove, AdminInv, AdminTypes
<1>8. QED
  BY <1>1, <1>4, <1>6, <1>7, OneRequestSaves

\* A sign-in while a request is served is not alone.
LEMMA SignInStep == ASSUME AdminInv, SignIn PROVE AdminInv'
<1>1. UNCHANGED <<users, rows, req, requests>> /\ alone' = (alone /\ Unserved)
  BY DEF SignIn
<1>2. authorized' \subseteq User
  BY DEF SignIn, AdminInv, AdminTypes
<1>3. AdminTypes'
  BY <1>1, <1>2 DEF AdminInv, AdminTypes
<1>4. ASSUME NEW d \in Desk PROVE Consistent(req[d])'
  <2>1. Consistent(req[d]) /\ (alone' => req[d].pc \in {"idle", "done"})
    BY <1>1 DEF AdminInv, Unserved
  <2>2. QED
    BY <1>1, <2>1 DEF Consistent, Expected
<1>5. QED
  BY <1>3, <1>4 DEF AdminInv

LEMMA AdminStep == ASSUME AdminInv, [AdminNext]_adminVars PROVE AdminInv'
<1>1. CASE UNCHANGED adminVars
  BY <1>1 DEF adminVars, AdminInv, AdminTypes, Consistent
<1>2. CASE AdminNext
  BY <1>2, SignInStep, RequestsCome, FindStep, ReadRolesStep, CountStep, FailStep, RemoveStep,
     AddStep, SetStep, RevokeStep, DeleteStep, CreateStep, ReadRowsStep, SaveRowsStep DEF AdminNext
<1>3. QED
  BY <1>1, <1>2

\* A success is told only when what was asked for is in the store, whatever other requests and
\* sign-ins come between the calls of a request, and wherever a save fails.
THEOREM SuccessMeansDesiredHolds == Spec => []SuccessMeansDesired
<1>1. Init => AdminInv
  BY AdminStart DEF Init
<1>2. AdminInv /\ [Next]_vars => AdminInv'
  BY AdminStep, StepsOfProvider
<1>3. AdminInv => SuccessMeansDesired
  BY DEF AdminInv, Consistent, SuccessMeansDesired
<1>4. QED
  BY <1>1, <1>2, <1>3, PTL DEF Spec

------------------------------------------------------------------------------------
(* The last administrator. *)

Another(user) == \E u \in Administrators : u # user
\* Who takes an administrator away has found another one, and nobody else is served.
Covered(r) ==
  /\ r.pc = "remove" /\ "Administrator" \in r.read \ r.desired => Another(r.user)
  /\ r.pc \in {"revoke", "delete"} => Another(r.user) \/ r.user \notin Administrators
Busy(d) == req[d].pc \notin {"idle", "done"}
StaysInv ==
  /\ AdminInv
  /\ alone => /\ Administrators # {}
              /\ \A d, e \in Desk : Busy(d) /\ Busy(e) => d = e
              /\ \A d \in Desk : Covered(req[d])

LEMMA StaysStart == ASSUME AdminInit PROVE StaysInv
<1>1. AdminInv /\ \A d \in Desk : req[d].pc = "idle"
  BY AdminStart DEF AdminInit, NoRequest
<1>2. PICK u : u \in Caller
  BY AdminAssumption
<1>3. u \in Administrators
  BY <1>2, AdminAssumption DEF AdminInit, Administrators
<1>4. QED
  BY <1>1, <1>3 DEF StaysInv, Busy, Covered

\* A call of the one request that is served.
LEMMA OneIsServed ==
  ASSUME StaysInv, AdminInv', NEW d \in Desk, Busy(d), alone' = alone,
         \A e \in Desk \ {d} : req'[e] = req[e],
         alone => Administrators' # {} /\ Covered(req[d])'
  PROVE  StaysInv'
<1>1. CASE ~ alone
  BY <1>1 DEF StaysInv
<1>2. CASE alone
  <2>1. \A e \in Desk \ {d} : req'[e].pc \in {"idle", "done"}
    BY <1>2 DEF StaysInv, Busy
  <2>2. \A e \in Desk \ {d} : ~ Busy(e)' /\ Covered(req[e])'
    BY <2>1 DEF Busy, Covered
  <2>3. QED
    BY <1>2, <2>2 DEF StaysInv
<1>3. QED
  BY <1>1, <1>2 DEF StaysInv, AdminInv, AdminTypes

\* A call that takes nobody's role, after which the request has nobody to take away.
LEMMA NobodyLess ==
  ASSUME StaysInv, AdminInv', NEW d \in Desk, Busy(d), alone' = alone,
         \A e \in Desk \ {d} : req'[e] = req[e], Administrators \subseteq Administrators',
         req'[d].pc \notin {"remove", "revoke", "delete"}
  PROVE  StaysInv'
<1>1. Covered(req[d])'
  BY DEF Covered
<1>2. alone => Administrators' # {}
  BY DEF StaysInv
<1>3. QED
  BY <1>1, <1>2, OneIsServed

LEMMA RequestsComeAlone ==
  ASSUME StaysInv, NEW d \in Desk,
         SetRoles(d) \/ SetServices(d) \/ UpdateUser(d) \/ DeleteUser(d) \/ CreateUser(d)
  PROVE  StaysInv'
<1>1. AdminInv'
  BY RequestsCome DEF StaysInv
<1>2. PICK fields : Take(d, fields) /\ fields.pc \in {"find", "create"}
  <2>1. CASE SetRoles(d)
    BY <2>1 DEF SetRoles, Request
  <2>2. CASE SetServices(d)
    BY <2>2 DEF SetServices, Request
  <2>3. CASE UpdateUser(d)
    BY <2>3 DEF UpdateUser, Request
  <2>4. CASE DeleteUser(d)
    BY <2>4 DEF DeleteUser, Request
  <2>5. CASE CreateUser(d)
    BY <2>5 DEF CreateUser, Request
  <2>6. QED
    BY <2>1, <2>2, <2>3, <2>4, <2>5
<1> DEFINE pc == fields.pc
<1>3. /\ UNCHANGED users /\ alone' = (alone /\ Unserved)
      /\ req' = [req EXCEPT ![d] = [NoRequest EXCEPT !.kind = fields.kind, !.pc = fields.pc,
                   !.by = fields.by, !.user = fields.user, !.desired = fields.desired,
                   !.grants = fields.grants, !.number = requests + 1]]
  BY <1>2 DEF Take
<1>4. req'[d].pc = pc /\ \A e \in Desk \ {d} : req'[e] = req[e]
  BY <1>3 DEF StaysInv, AdminInv, AdminTypes, NoRequest
<1>5. Administrators' = Administrators
  BY <1>3 DEF Administrators
<1>6. alone' => \A e \in Desk \ {d} : req'[e].pc \in {"idle", "done"}
  BY <1>3, <1>4 DEF Unserved
<1>7. alone' => \A e \in Desk : Covered(req[e])'
  BY <1>2, <1>4, <1>6 DEF Covered
<1>8. alone' => \A e \in Desk \ {d} : ~ Busy(e)'
  BY <1>6 DEF Busy
<1>9. alone' => \A e, f \in Desk : Busy(e)' /\ Busy(f)' => e = f
  BY <1>8
<1>10. alone' => Administrators' # {}
  BY <1>3, <1>5 DEF StaysInv
<1>11. QED
  BY <1>1, <1>7, <1>9, <1>10 DEF StaysInv

LEMMA SignsInAlone == ASSUME StaysInv, SignIn PROVE StaysInv'
<1>1. AdminInv' /\ UNCHANGED <<users, req>> /\ alone' = (alone /\ Unserved)
  BY SignInStep DEF StaysInv, SignIn
<1>2. QED
  BY <1>1 DEF StaysInv, Busy, Covered, Another, Administrators

\* What is saved of one user leaves the others as they were.
LEMMA AdministratorsSaved ==
  ASSUME AdminInv, NEW d \in Desk, NEW roles \in SUBSET Wish,
         NEW profile \in [ToSet(Fields) -> Nat], Saved(d, roles, profile)
  PROVE  /\ Administrators \ {req[d].user} \subseteq Administrators'
         /\ "Administrator" \in roles => Administrators \subseteq Administrators'
<1>1. users'[req[d].user].there /\ users'[req[d].user].roles = roles
  BY RowSaved
<1>2. \A u \in User \ {req[d].user} : users'[u] = users[u]
  BY Found DEF Saved, AdminInv, AdminTypes
<1>3. QED
  BY <1>1, <1>2, Found DEF Administrators

LEMMA OthersServed ==
  ASSUME AdminInv, NEW d \in Desk, (\E met : Answer(d, met)) \/ Refuse(d)
  PROVE  req'[d].pc \in {"done", "idle"} /\ \A e \in Desk \ {d} : req'[e] = req[e]
<1>1. req \in [Desk -> RequestType] /\ NoRequest.pc = "idle"
  BY DEF AdminInv, AdminTypes, NoRequest
<1>2. CASE \E met : Answer(d, met)
  BY <1>1, <1>2 DEF Answer, NoRequest
<1>3. CASE Refuse(d)
  BY <1>1, <1>3 DEF Refuse
<1>4. QED
  BY <1>2, <1>3

LEMMA OneServed ==
  ASSUME AdminInv, NEW d \in Desk, NEW pc, req' = [req EXCEPT ![d].pc = pc]
  PROVE  /\ req'[d].pc = pc /\ req'[d].user = req[d].user
         /\ \A e \in Desk \ {d} : req'[e] = req[e]
  BY DEF AdminInv, AdminTypes, RequestType

LEMMA OneServedStamp ==
  ASSUME AdminInv, NEW d \in Desk, NEW pc, NEW stamp,
         req' = [req EXCEPT ![d].pc = pc, ![d].stamp = stamp]
  PROVE  req'[d].pc = pc /\ \A e \in Desk \ {d} : req'[e] = req[e]
  BY DEF AdminInv, AdminTypes, RequestType

LEMMA OneServedRead ==
  ASSUME AdminInv, NEW d \in Desk, NEW pc, NEW read,
         req' = [req EXCEPT ![d].pc = pc, ![d].read = read]
  PROVE  /\ req'[d].pc = pc /\ req'[d].user = req[d].user /\ req'[d].read = read
         /\ req'[d].desired = req[d].desired /\ \A e \in Desk \ {d} : req'[e] = req[e]
  BY DEF AdminInv, AdminTypes, RequestType

\* Calls that read, or are refused: nobody's row changes.
LEMMA ReadingAlone ==
  ASSUME StaysInv, NEW d \in Desk,
         FindById(d) \/ ReadRows(d) \/ SaveRows(d) \/ SaveFails(d)
  PROVE  StaysInv'
<1>1. AdminInv /\ AdminInv'
  BY FindStep, ReadRowsStep, SaveRowsStep, FailStep DEF StaysInv
<1>2. UNCHANGED <<users, alone>> /\ Busy(d)
  BY DEF FindById, ReadRows, SaveRows, SaveFails, Reading, Busy
<1>3. /\ req'[d].pc \notin {"remove", "revoke", "delete"}
      /\ \A e \in Desk \ {d} : req'[e] = req[e]
  <2>1. CASE FindById(d)
    <3>1. \/ Refuse(d)
          \/ \E pc \in {"readRows", "set", "readRoles"} :
               req' = [req EXCEPT ![d].pc = pc, ![d].stamp = Subject(d).stamp]
      BY <2>1 DEF FindById
    <3>2. CASE Refuse(d)
      BY <1>1, <3>2, OthersServed
    <3>3. ASSUME NEW pc \in {"readRows", "set", "readRoles"},
                 req' = [req EXCEPT ![d].pc = pc, ![d].stamp = Subject(d).stamp]
          PROVE  /\ req'[d].pc \notin {"remove", "revoke", "delete"}
                 /\ \A e \in Desk \ {d} : req'[e] = req[e]
      <4>1. req'[d].pc = pc /\ \A e \in Desk \ {d} : req'[e] = req[e]
        BY <1>1, <3>3, OneServedStamp
      <4>2. QED
        BY <4>1
    <3>4. QED
      BY <3>1, <3>2, <3>3
  <2>2. CASE ReadRows(d)
    <3>1. req' = [req EXCEPT ![d].pc = "saveRows", ![d].read = rows[req[d].user]]
      BY <2>2 DEF ReadRows
    <3>2. req'[d].pc = "saveRows" /\ \A e \in Desk \ {d} : req'[e] = req[e]
      BY <1>1, <3>1, OneServedRead
    <3>3. QED
      BY <3>2
  <2>3. CASE SaveRows(d)
    <3>1. \E met : Answer(d, met)
      BY <2>3 DEF SaveRows
    <3>2. QED
      BY <1>1, <3>1, OthersServed
  <2>4. CASE SaveFails(d)
    <3>1. Refuse(d)
      BY <2>4 DEF SaveFails
    <3>2. QED
      BY <1>1, <3>1, OthersServed
  <2>5. QED
    BY <2>1, <2>2, <2>3, <2>4
<1>4. Administrators' = Administrators
  BY <1>2 DEF Administrators
<1>5. QED
  BY <1>1, <1>2, <1>3, <1>4, NobodyLess

\* Only who was not counted among the administrators, or has company, goes on.
LEMMA ReadRolesAlone == ASSUME StaysInv, NEW d \in Desk, ReadRoles(d) PROVE StaysInv'
<1> DEFINE r == req[d]
           read == Subject(d).roles
<1>1. AdminInv /\ AdminInv'
  BY ReadRolesStep DEF StaysInv
<1>2. UNCHANGED <<users, alone>> /\ Busy(d)
  BY DEF ReadRoles, Reading, Busy
<1>3. Administrators' = Administrators
  BY <1>2 DEF Administrators
<1>4. CASE \/ Refuse(d)
           \/ Answer(d, read = r.desired)
           \/ req' = [req EXCEPT ![d].pc = "count", ![d].read = read]
  <2>1. req'[d].pc \in {"done", "idle", "count"} /\ \A e \in Desk \ {d} : req'[e] = req[e]
    BY <1>1, <1>4, OthersServed, OneServedRead
  <2>2. req'[d].pc \notin {"remove", "revoke", "delete"}
    BY <2>1
  <2>3. QED
    BY <1>1, <1>2, <1>3, <2>1, <2>2, NobodyLess
<1>5. CASE /\ req' = [req EXCEPT ![d].pc = Saves(d, read), ![d].read = read]
           /\ "Administrator" \notin read \ r.desired
  <2>1. /\ req'[d].pc = Saves(d, read) /\ req'[d].user = r.user /\ req'[d].read = read
        /\ req'[d].desired = r.desired /\ \A e \in Desk \ {d} : req'[e] = req[e]
    BY <1>1, <1>5, OneServedRead
  <2>2. Saves(d, read) \in {"revoke", "delete"} => r.kind = "delete"
    BY DEF Saves
  <2>3. r.kind = "delete" => r.user \notin Administrators
    BY <1>1, <1>5, Found DEF Consistent, Administrators
  <2>4. Covered(req[d])'
    BY <1>3, <1>5, <2>1, <2>2, <2>3 DEF Covered
  <2>5. alone => Administrators' # {}
    BY <1>3 DEF StaysInv
  <2>6. QED
    BY <1>1, <1>2, <2>1, <2>4, <2>5, OneIsServed
<1>6. QED
  BY <1>4, <1>5 DEF ReadRoles

LEMMA TwoAdministrators ==
  ASSUME ~ (Cardinality(Administrators) <= 1), NEW user PROVE Another(user)
<1>1. CASE Administrators = {}
  BY <1>1, FS_EmptySet
<1>2. CASE Administrators = {user}
  BY <1>2, FS_Singleton
<1>3. QED
  BY <1>1, <1>2 DEF Another

LEMMA CountAlone == ASSUME StaysInv, NEW d \in Desk, CountAdministrators(d) PROVE StaysInv'
<1>1. AdminInv /\ AdminInv'
  BY CountStep DEF StaysInv
<1>2. UNCHANGED <<users, alone>> /\ Busy(d)
  BY DEF CountAdministrators, Reading, Busy
<1>3. Administrators' = Administrators
  BY <1>2 DEF Administrators
<1>4. CASE Refuse(d)
  <2>1. req'[d].pc \in {"done", "idle"} /\ \A e \in Desk \ {d} : req'[e] = req[e]
    BY <1>1, <1>4, OthersServed
  <2>2. QED
    BY <1>1, <1>2, <1>3, <2>1, NobodyLess
<1>5. CASE ~ (Cardinality(Administrators) <= 1) /\ req' = [req EXCEPT ![d].pc = Saves(d, req[d].read)]
  <2>1. /\ req'[d].user = req[d].user /\ \A e \in Desk \ {d} : req'[e] = req[e]
    BY <1>1, <1>5, OneServed
  <2>2. Another(req[d].user)
    BY <1>5, TwoAdministrators
  <2>3. Another(req[d].user)' /\ Administrators' # {}
    BY <1>3, <2>1, <2>2 DEF Another
  <2>4. Covered(req[d])'
    BY <2>3 DEF Covered
  <2>5. QED
    BY <1>1, <1>2, <2>1, <2>3, <2>4, OneIsServed
<1>6. QED
  BY <1>4, <1>5 DEF CountAdministrators

\* Calls that save a row: the role goes from who has company only.
LEMMA SavingAlone ==
  ASSUME StaysInv, NEW d \in Desk, AdminInv', Busy(d), alone' = alone, NEW roles \in SUBSET Wish,
         NEW profile \in [ToSet(Fields) -> Nat], Saved(d, roles, profile),
         "Administrator" \notin roles =>
           req[d].user \notin Administrators \/ (alone => Another(req[d].user)),
         req'[d].pc \notin {"remove", "revoke", "delete"}, \A e \in Desk \ {d} : req'[e] = req[e]
  PROVE  StaysInv'
<1>1. /\ Administrators \ {req[d].user} \subseteq Administrators'
      /\ "Administrator" \in roles => Administrators \subseteq Administrators'
  BY AdministratorsSaved DEF StaysInv
<1>2. alone => Administrators' # {}
  BY <1>1 DEF StaysInv, Another
<1>3. Covered(req[d])'
  BY DEF Covered
<1>4. QED
  BY <1>2, <1>3, OneIsServed

LEMMA RemoveAlone == ASSUME StaysInv, NEW d \in Desk, RemoveFromRoles(d) PROVE StaysInv'
<1> DEFINE r == req[d]
           row == users[r.user]
           left == row.roles \ (r.read \ r.desired)
<1>1. /\ r.pc = "remove" /\ Saved(d, left, row.profile) /\ UNCHANGED alone
      /\ \/ Answer(d, left = r.desired)
         \/ req' = [req EXCEPT ![d].pc = "add", ![d].stamp = row.stamp + 1]
  BY DEF RemoveFromRoles, Subject, Rest
<1>2. AdminInv /\ AdminInv' /\ Busy(d)
  BY <1>1, RemoveStep DEF StaysInv, Busy
<1>3. left \in SUBSET Wish /\ row.profile \in [ToSet(Fields) -> Nat]
  BY <1>2, Found DEF RowType
<1>4. /\ req'[d].pc \notin {"remove", "revoke", "delete"}
      /\ \A e \in Desk \ {d} : req'[e] = req[e]
  <2>1. CASE Answer(d, left = r.desired)
    BY <1>2, <2>1, OthersServed
  <2>2. CASE req' = [req EXCEPT ![d].pc = "add", ![d].stamp = row.stamp + 1]
    <3>1. req'[d].pc = "add" /\ \A e \in Desk \ {d} : req'[e] = req[e]
      BY <1>2, <2>2, OneServedStamp
    <3>2. QED
      BY <3>1
  <2>3. QED
    BY <1>1, <2>1, <2>2
<1>5. "Administrator" \notin left =>
        r.user \notin Administrators \/ (alone => Another(r.user))
  <2>1. alone => Covered(r)
    BY DEF StaysInv
  <2>2. r.user \in Administrators => "Administrator" \in row.roles
    BY DEF Administrators
  <2>3. QED
    BY <1>1, <2>1, <2>2 DEF Covered
<1>6. QED
  BY <1>1, <1>2, <1>3, <1>4, <1>5, SavingAlone

LEMMA AddAlone == ASSUME StaysInv, NEW d \in Desk, AddToRoles(d) PROVE StaysInv'
<1> DEFINE r == req[d]
           row == users[r.user]
           given == row.roles \cup (r.desired \ r.read)
<1>1. /\ r.pc = "add" /\ Saved(d, given, row.profile) /\ UNCHANGED alone
      /\ \/ req' = [req EXCEPT ![d].pc = "readRows"]
         \/ Answer(d, given = r.desired)
  BY DEF AddToRoles, Subject, Rest
<1>2. AdminInv /\ AdminInv' /\ Busy(d)
  BY <1>1, AddStep DEF StaysInv, Busy
<1>3. given \in SUBSET Wish /\ row.profile \in [ToSet(Fields) -> Nat]
  BY <1>2, Found DEF RowType, RequestType
<1>4. /\ req'[d].pc \notin {"remove", "revoke", "delete"}
      /\ \A e \in Desk \ {d} : req'[e] = req[e]
  <2>1. CASE Answer(d, given = r.desired)
    BY <1>2, <2>1, OthersServed
  <2>2. CASE req' = [req EXCEPT ![d].pc = "readRows"]
    <3>1. req'[d].pc = "readRows" /\ \A e \in Desk \ {d} : req'[e] = req[e]
      BY <1>2, <2>2, OneServed
    <3>2. QED
      BY <3>1
  <2>3. QED
    BY <1>1, <2>1, <2>2
<1>5. "Administrator" \notin given => r.user \notin Administrators
  BY DEF Administrators
<1>6. QED
  BY <1>1, <1>2, <1>3, <1>4, <1>5, SavingAlone

LEMMA SetAlone == ASSUME StaysInv, NEW d \in Desk, Set(d) PROVE StaysInv'
<1> DEFINE r == req[d]
           row == users[r.user]
<1>1. /\ r.pc = "set" /\ UNCHANGED alone
      /\ \/ Refuse(d) /\ UNCHANGED users
         \/ \E field \in r.desired :
              /\ Saved(d, row.roles, [row.profile EXCEPT ![field] = r.number])
              /\ \/ \E met : Answer(d, met)
                 \/ req' = [req EXCEPT ![d].desired = r.desired \ {field},
                                       ![d].read = r.read \cup {field}, ![d].stamp = r.stamp + 1]
  <2>1. r \in RequestType /\ row = Subject(d) /\ req \in [Desk -> RequestType]
    BY Found DEF StaysInv, AdminInv, AdminTypes
  <2>2. r.pc = "set" => r.desired # {} /\ r.desired \subseteq ToSet(Fields)
    BY Found DEF StaysInv, Consistent
  <2> DEFINE first == CHOOSE i \in DOMAIN Fields :
                        Fields[i] \in r.desired /\ \A j \in 1..(i - 1) : Fields[j] \notin r.desired
             field == Fields[first]
  <2>3. r.pc = "set" => field \in r.desired
    BY <2>2, FirstField
  <2>4. /\ r.pc = "set" /\ UNCHANGED alone
        /\ \/ Refuse(d) /\ UNCHANGED users
           \/ /\ Saved(d, row.roles, [row.profile EXCEPT ![field] = r.number])
              /\ \/ \E met : Answer(d, met)
                 \/ req' = [req EXCEPT ![d].desired = r.desired \ {field},
                                       ![d].read = r.read \cup {field}, ![d].stamp = r.stamp + 1]
    BY <2>1 DEF Set, Rest
  <2> HIDE DEF field
  <2>5. QED
    BY <2>3, <2>4
<1>2. /\ AdminInv /\ AdminInv' /\ Busy(d) /\ r \in RequestType /\ row \in RowType
      /\ Consistent(r)
  BY <1>1, SetStep, Found DEF StaysInv, Busy
<1>3. CASE Refuse(d) /\ UNCHANGED users
  <2>1. Administrators' = Administrators
    BY <1>3 DEF Administrators
  <2>2. req'[d].pc \in {"done", "idle"} /\ \A e \in Desk \ {d} : req'[e] = req[e]
    BY <1>2, <1>3, OthersServed
  <2>3. QED
    BY <1>1, <1>2, <2>1, <2>2, NobodyLess
<1>4. ASSUME NEW field \in r.desired, Saved(d, row.roles, [row.profile EXCEPT ![field] = r.number]),
             \/ \E met : Answer(d, met)
             \/ req' = [req EXCEPT ![d].desired = r.desired \ {field},
                                   ![d].read = r.read \cup {field}, ![d].stamp = r.stamp + 1]
      PROVE  StaysInv'
  <2>1. row.roles \in SUBSET Wish /\ [row.profile EXCEPT ![field] = r.number] \in [ToSet(Fields) -> Nat]
    BY <1>2 DEF RowType, RequestType
  <2>2. req'[d].pc \in {"set", "done", "idle"} /\ \A e \in Desk \ {d} : req'[e] = req[e]
    <3>1. CASE \E met : Answer(d, met)
      BY <1>2, <3>1, OthersServed
    <3>2. CASE req' = [req EXCEPT ![d].desired = r.desired \ {field},
                                  ![d].read = r.read \cup {field}, ![d].stamp = r.stamp + 1]
      BY <1>1, <1>2, <3>2 DEF AdminInv, AdminTypes, RequestType
    <3>3. QED
      BY <1>4, <3>1, <3>2
  <2>3. "Administrator" \notin row.roles => r.user \notin Administrators
    BY DEF Administrators
  <2>4. req'[d].pc \notin {"remove", "revoke", "delete"}
    BY <2>2
  <2>5. QED
    BY <1>1, <1>2, <1>4, <2>1, <2>2, <2>3, <2>4, SavingAlone
<1>5. QED
  BY <1>1, <1>3, <1>4

LEMMA RevokeAlone == ASSUME StaysInv, NEW d \in Desk, TryRevoke(d) PROVE StaysInv'
<1>1. /\ req[d].pc = "revoke" /\ UNCHANGED <<users, alone>>
      /\ req' = [req EXCEPT ![d].pc = "delete"]
  BY DEF TryRevoke
<1>2. AdminInv /\ AdminInv' /\ Busy(d)
  BY <1>1, RevokeStep DEF StaysInv, Busy
<1>3. /\ req'[d].pc = "delete" /\ req'[d].user = req[d].user
      /\ \A e \in Desk \ {d} : req'[e] = req[e]
  BY <1>1, <1>2, OneServed
<1>4. Administrators' = Administrators
  BY <1>1 DEF Administrators
<1>5. alone => Administrators' # {} /\ Covered(req[d])'
  BY <1>1, <1>3, <1>4 DEF StaysInv, Covered, Another
<1>6. QED
  BY <1>1, <1>2, <1>3, <1>5, OneIsServed

LEMMA DeleteAlone == ASSUME StaysInv, NEW d \in Desk, Delete(d) PROVE StaysInv'
<1> DEFINE u == req[d].user
<1>1. req[d].pc = "delete" /\ UNCHANGED alone /\ \E met : Answer(d, met)
  BY DEF Delete
<1>2. \E row : users' = [users EXCEPT ![u] = row]
  BY DEF Delete
<1>3. AdminInv /\ AdminInv' /\ Busy(d) /\ u \in User /\ DOMAIN users = User
  BY <1>1, DeleteStep, Found DEF StaysInv, Busy, AdminInv, AdminTypes
<1>4. req'[d].pc \in {"done", "idle"} /\ \A e \in Desk \ {d} : req'[e] = req[e]
  BY <1>1, <1>3, OthersServed
<1>5. \A v \in User \ {u} : users'[v] = users[v]
  BY <1>2, <1>3
<1>6. Administrators \ {u} \subseteq Administrators'
  BY <1>5 DEF Administrators
<1>7. alone => Administrators # {} /\ (Another(u) \/ u \notin Administrators)
  BY <1>1 DEF StaysInv, Covered
<1>8. alone => Administrators' # {}
  BY <1>6, <1>7 DEF Another
<1>9. Covered(req[d])'
  BY <1>4 DEF Covered
<1>10. QED
  BY <1>1, <1>3, <1>4, <1>8, <1>9, OneIsServed

LEMMA CreateAlone == ASSUME StaysInv, NEW d \in Desk, Create(d) PROVE StaysInv'
<1> DEFINE r == req[d]
           row == users[r.user]
<1>1. /\ r.pc = "create" /\ UNCHANGED alone
      /\ \/ Refuse(d) /\ UNCHANGED users
         \/ /\ ~ row.there /\ Saved(d, {}, Blank)
            /\ \E pc \in {"readRows", "add"} :
                 req' = [req EXCEPT ![d].pc = pc, ![d].stamp = row.stamp + 1]
  BY DEF Create, Subject, Rest
<1>2. AdminInv /\ AdminInv' /\ Busy(d)
  BY <1>1, CreateStep DEF StaysInv, Busy
<1>3. CASE Refuse(d) /\ UNCHANGED users
  <2>1. Administrators' = Administrators
    BY <1>3 DEF Administrators
  <2>2. req'[d].pc \in {"done", "idle"} /\ \A e \in Desk \ {d} : req'[e] = req[e]
    BY <1>2, <1>3, OthersServed
  <2>3. QED
    BY <1>1, <1>2, <2>1, <2>2, NobodyLess
<1>4. CASE /\ ~ row.there /\ Saved(d, {}, Blank)
           /\ \E pc \in {"readRows", "add"} :
                req' = [req EXCEPT ![d].pc = pc, ![d].stamp = row.stamp + 1]
  <2>1. {} \in SUBSET Wish /\ Blank \in [ToSet(Fields) -> Nat]
    BY DEF Blank
  <2>2. req'[d].pc \in {"readRows", "add"} /\ \A e \in Desk \ {d} : req'[e] = req[e]
    BY <1>2, <1>4, OneServedStamp
  <2>3. r.user \notin Administrators
    BY <1>4 DEF Administrators
  <2>4. req'[d].pc \notin {"remove", "revoke", "delete"}
    BY <2>2
  <2>5. QED
    BY <1>1, <1>2, <1>4, <2>1, <2>2, <2>3, <2>4, SavingAlone
<1>5. QED
  BY <1>1, <1>3, <1>4

LEMMA StaysStep == ASSUME StaysInv, [AdminNext]_adminVars PROVE StaysInv'
<1>1. CASE UNCHANGED adminVars
  <2>1. AdminInv'
    BY <1>1, AdminStep DEF StaysInv
  <2>2. QED
    BY <1>1, <2>1 DEF adminVars, StaysInv, Busy, Covered, Another, Administrators
<1>2. CASE AdminNext
  BY <1>2, SignsInAlone, RequestsComeAlone, ReadingAlone, ReadRolesAlone, CountAlone,
     RemoveAlone, AddAlone, SetAlone, RevokeAlone, DeleteAlone, CreateAlone DEF AdminNext
<1>3. QED
  BY <1>1, <1>2

\* The last administrator is never removed, neither the role nor the user, as long as requests
\* come one at a time: whatever is asked, whoever asks it, and wherever a save fails.
THEOREM AnAdministratorStaysHolds == Spec => []AnAdministratorStays
<1>1. Init => StaysInv
  BY StaysStart DEF Init
<1>2. StaysInv /\ [Next]_vars => StaysInv'
  BY StaysStep, StepsOfProvider
<1>3. StaysInv => AnAdministratorStays
  BY DEF StaysInv, AnAdministratorStays
<1>4. QED
  BY <1>1, <1>2, <1>3, PTL DEF Spec
====================================================================================
