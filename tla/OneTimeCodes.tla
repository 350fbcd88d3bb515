------------------------------- MODULE OneTimeCodes -------------------------------
(* Sign-in with a code sent to one phone number: OtpService over four keys of the      *)
(* cache, each read and written on its own.  A request of the page runs in a slot, and  *)
(* other requests may come between its calls to the cache.  Codes are numbered as they   *)
(* are drawn: that two random codes are equal is left out.                               *)
EXTENDS Integers, FiniteSets

CONSTANTS Slot,            \* requests the server handles at a time
          NoCode,          \* a key that is not there, a code nobody was sent
          MaxSendsPerHour, MaxVerifyAttempts,
          Ttl, Cooldown, Hour,   \* lifetimes of the keys, in ticks
          MaxTime,         \* bound: ticks
          MaxArrivals      \* bound: requests
ASSUME OtpAssumption ==
  /\ MaxSendsPerHour \in Nat \ {0} /\ MaxVerifyAttempts \in Nat \ {0}
  /\ {Ttl, Cooldown, Hour} \subseteq Nat \ {0} /\ {MaxTime, MaxArrivals} \subseteq Nat
  /\ NoCode \notin Nat /\ NoCode \notin [value : Nat, until : Nat]

VARIABLES now,        \* the clock
          cache,      \* "code", "attempts", "cooldown", "sends": NoCode or [value, until]
          otp,        \* Slot -> the request it handles
          arrivals,   \* requests so far
          drawn,      \* codes drawn so far
          messages,   \* messages: [code, at]
          guesses,    \* code -> comparisons with it that failed
          dead,       \* codes that were replaced, or accepted, for good
          undisturbed \* one request at a time, within a tick, and no restart
otpVars == <<now, cache, otp, arrivals, drawn, messages, guesses, dead, undisturbed>>

Free == [pc |-> "idle", typed |-> NoCode, stored |-> NoCode, count |-> 0, dead |-> {}]
Keys == {"code", "attempts", "cooldown", "sends"}
Live(key) == cache[key] # NoCode /\ now < cache[key].until
Count(key) == IF Live(key) THEN cache[key].value ELSE 0
Entry(value, ttl) == [value |-> value, until |-> now + ttl]
NobodyServed == \A s \in Slot : otp[s].pc = "idle"

OtpInit ==
  /\ now = 0 /\ arrivals = 0 /\ drawn = 0
  /\ cache = [k \in Keys |-> NoCode]
  /\ otp = [s \in Slot |-> Free]
  /\ messages = {} /\ guesses = [c \in 1..MaxArrivals |-> 0] /\ dead = {}
  /\ undisturbed = TRUE

Goto(s, pc) == otp' = [otp EXCEPT ![s].pc = pc]
Leave(s) == otp' = [otp EXCEPT ![s] = Free]
\* A call that answers or writes, and nothing anyone outside sees.
Quiet == UNCHANGED <<now, arrivals, drawn, messages, guesses, dead, undisturbed>>

(* ------------------------------------ the page --------------------------------------- *)
Arrives(s, pc, typed) ==
  /\ arrivals < MaxArrivals /\ arrivals' = arrivals + 1
  /\ otp[s].pc = "idle"
  /\ otp' = [otp EXCEPT ![s] = [Free EXCEPT !.pc = pc, !.typed = typed, !.dead = dead]]
  /\ undisturbed' = (undisturbed /\ NobodyServed)
  /\ UNCHANGED <<now, cache, drawn, messages, guesses, dead>>
OnPostRequest(s) == Arrives(s, "checkCooldown", NoCode)
\* A person types a code that was received, or another one.
OnPostVerify(s) == \E c \in {NoCode} \cup {m.code : m \in messages} : Arrives(s, "readCode", c)

(* --------------------------------- RequestAsync --------------------------------------- *)
CheckCooldown(s) ==
  /\ otp[s].pc = "checkCooldown"
  /\ IF Live("cooldown") THEN Leave(s) ELSE Goto(s, "readSends")
  /\ Quiet /\ UNCHANGED cache

ReadSends(s) ==
  /\ otp[s].pc = "readSends"
  /\ IF Count("sends") >= MaxSendsPerHour THEN Leave(s)
     ELSE otp' = [otp EXCEPT ![s].pc = "storeCode", ![s].count = Count("sends")]
  /\ Quiet /\ UNCHANGED cache

StoreCode(s) ==
  /\ otp[s].pc = "storeCode"
  /\ drawn' = drawn + 1
  /\ cache' = [cache EXCEPT !["code"] = Entry(drawn + 1, Ttl)]
  /\ otp' = [otp EXCEPT ![s].pc = "removeAttempts", ![s].stored = drawn + 1]
  /\ dead' = 1..drawn
  /\ UNCHANGED <<now, arrivals, messages, guesses, undisturbed>>

RemoveAttempts(s) ==
  /\ otp[s].pc \in {"removeAttempts", "forgetAttempts"}
  /\ cache' = [cache EXCEPT !["attempts"] = NoCode]
  /\ IF otp[s].pc = "removeAttempts" THEN Goto(s, "armCooldown") ELSE Leave(s)
  /\ Quiet

ArmCooldown(s) ==
  /\ otp[s].pc = "armCooldown"
  /\ cache' = [cache EXCEPT !["cooldown"] = Entry(1, Cooldown)]
  /\ Goto(s, "countSend") /\ Quiet

\* Mutant: the counter lives no longer than the cooldown.
CountSendForTheCooldown(s) ==
  /\ otp[s].pc = "countSend"
  /\ cache' = [cache EXCEPT !["sends"] = Entry(otp[s].count + 1, Cooldown)]
  /\ Goto(s, "send") /\ Quiet
CountSend(s) ==
  /\ otp[s].pc = "countSend"
  /\ cache' = [cache EXCEPT !["sends"] = Entry(otp[s].count + 1, Hour)]
  /\ Goto(s, "send") /\ Quiet

\* A message that the provider does not take is lost, and counts all the same.
Send(s) ==
  /\ otp[s].pc = "send"
  /\ messages' = messages \cup {[code |-> otp[s].stored, at |-> now]}
  /\ Leave(s)
  /\ UNCHANGED <<now, cache, arrivals, drawn, guesses, dead, undisturbed>>

(* ---------------------------------- VerifyAsync --------------------------------------- *)
ReadCode(s) ==
  /\ otp[s].pc = "readCode"
  /\ IF Live("code")
     THEN otp' = [otp EXCEPT ![s].pc = "readAttempts", ![s].stored = cache["code"].value]
     ELSE Leave(s)
  /\ Quiet /\ UNCHANGED cache

\* The attempts are read, the codes compared; the answer comes after the writes below.
ReadAttempts(s) ==
  /\ otp[s].pc = "readAttempts"
  /\ LET spent == Count("attempts") >= MaxVerifyAttempts
         right == ~ spent /\ otp[s].typed = otp[s].stored
     IN /\ otp' = [otp EXCEPT ![s].pc = CASE spent -> "invalidate"
                                          [] right -> "removeCode"
                                          [] OTHER -> "countAttempt",
                              ![s].count = Count("attempts")]
        /\ guesses' = IF spent \/ right THEN guesses
                      ELSE [guesses EXCEPT ![otp[s].stored] = @ + 1]
  /\ UNCHANGED <<now, cache, arrivals, drawn, messages, dead, undisturbed>>

\* Mutant: a code that was accepted stays.
KeepCode(s) ==
  /\ otp[s].pc \in {"invalidate", "removeCode"}
  /\ UNCHANGED cache
  /\ dead' = dead \cup {otp[s].stored}
  /\ IF otp[s].pc = "removeCode" THEN Goto(s, "forgetAttempts") ELSE Leave(s)
  /\ UNCHANGED <<now, arrivals, drawn, messages, guesses, undisturbed>>
RemoveCode(s) ==
  /\ otp[s].pc \in {"invalidate", "removeCode"}
  /\ cache' = [cache EXCEPT !["code"] = NoCode]
  /\ dead' = dead \cup {otp[s].stored}
  /\ IF otp[s].pc = "removeCode" THEN Goto(s, "forgetAttempts") ELSE Leave(s)
  /\ UNCHANGED <<now, arrivals, drawn, messages, guesses, undisturbed>>

\* Mutant: the counter lives no longer than the cooldown.
CountAttemptForTheCooldown(s) ==
  /\ otp[s].pc = "countAttempt"
  /\ cache' = [cache EXCEPT !["attempts"] = Entry(otp[s].count + 1, Cooldown)]
  /\ Leave(s) /\ Quiet
CountAttempt(s) ==
  /\ otp[s].pc = "countAttempt"
  /\ cache' = [cache EXCEPT !["attempts"] = Entry(otp[s].count + 1, Ttl)]
  /\ Leave(s) /\ Quiet

(* ---------------------------------- surroundings -------------------------------------- *)
Tick ==
  /\ now < MaxTime
  /\ now' = now + 1
  /\ undisturbed' = (undisturbed /\ NobodyServed)
  /\ UNCHANGED <<cache, otp, arrivals, drawn, messages, guesses, dead>>
\* The cache is the memory of the process.
RestartServer ==
  /\ drawn > 0
  /\ cache' = [k \in Keys |-> NoCode]
  /\ otp' = [s \in Slot |-> Free]
  /\ undisturbed' = FALSE /\ dead' = 1..drawn
  /\ UNCHANGED <<now, arrivals, drawn, messages, guesses>>

(* ----------------------------------- properties --------------------------------------- *)
\* "Hourly send cap per phone number": in every hour, as many messages as MaxSendsPerHour,
\* as long as requests come one at a time.
SendsAreCapped ==
  undisturbed =>
    \A m \in messages :
      Cardinality({l \in messages : m.at <= l.at /\ l.at < m.at + Hour}) <= MaxSendsPerHour
\* "Too many wrong guesses invalidate the active code": no code is compared with more wrong
\* ones than MaxVerifyAttempts, as long as requests come one at a time.
GuessesAreCapped == undisturbed => \A c \in DOMAIN guesses : guesses[c] <= MaxVerifyAttempts
\* Whatever runs at the same time: a code is accepted only if, when the verification came,
\* no later one had taken its place, no other verification had used it up, and the server
\* had not been started again since.
SupersededCodesAreRefused ==
  \A s \in Slot : otp[s].pc = "removeCode" => otp[s].stored \notin otp[s].dead
====================================================================================
