-------------------------------- MODULE MobileSession --------------------------------
(* The session of the mobile application: calls with a bearer token, one refresh shared   *)
(* by the calls that are refused, tokens in memory and in the phone's store, which is      *)
(* written one key after the other, sign-in, sign-out, and the application being killed.   *)
(* A pair of tokens is the number of its grant, 0 is no token.                             *)
EXTENDS Naturals

CONSTANTS Caller,     \* the calls that may be under way at a time
          Me,         \* the one that asks who is signed in
          MaxGrants,  \* bound: pairs of tokens the identity provider gives
          MaxKills    \* bound: how often the application is killed
ASSUME SessionAssumption == Me \in Caller /\ MaxGrants \in Nat \ {0} /\ MaxKills \in Nat

VARIABLES
  granted,    \* the identity provider: pairs given so far
  redeemed,   \* pair -> how often its refresh token was redeemed
  expired,    \* pairs up to this one have an expired access token
  memory,     \* the cache of tokenStore
  store,      \* the two keys of the secure store
  user,       \* somebody is signed in
  phone,      \* "loading", "ready": the application
  requests,   \* caller -> its call
  refreshes,  \* caller -> the refresh it started (refreshPromise: one for all)
  signIn,     \* completeSignIn
  signOut,    \* logout
  kills,      \* how often it was killed
  torn        \* it was killed with a refresh under way or a store that was behind
idpVars == <<granted, redeemed, expired>>
tokenVars == <<memory, store>>
lifeVars == <<phone, kills, torn>>
sessionVars == <<idpVars, tokenVars, lifeVars, user, requests, refreshes, signIn, signOut>>

Pair(access, refresh) == [access |-> access, refresh |-> refresh]
NoCall == [pc |-> "idle", token |-> 0]
\* Something with a token that is under way: the refresh, the sign-in, the sign-out.
NoTask == [pc |-> "idle", token |-> 0]
Task(pc, token) == [pc |-> pc, token |-> token]

SessionInit ==
  /\ granted = 0 /\ redeemed = [g \in 1..MaxGrants |-> 0] /\ expired = 0
  /\ memory = Pair(0, 0) /\ store = Pair(0, 0)
  /\ user = FALSE /\ phone = "loading"
  /\ requests = [c \in Caller |-> NoCall]
  /\ refreshes = [c \in Caller |-> NoTask]
  /\ signIn = NoTask /\ signOut = NoTask /\ kills = 0 /\ torn = FALSE

(* --------------------------- the store and the provider ------------------------------- *)
Refreshing == \E c \in Caller : refreshes[c].pc # "idle"
Accepts(token) == token # 0 /\ token > expired
Expire ==
  /\ expired < granted /\ expired' = expired + 1
  /\ UNCHANGED <<granted, redeemed, tokenVars, lifeVars, user, requests, refreshes, signIn, signOut>>

\* set and clear: the cache first, then one key after the other.
WriteKeys(task, token) ==
  IF task.pc = "access" THEN store' = [store EXCEPT !.access = token]
  ELSE store' = [store EXCEPT !.refresh = token]

(* --------------------------------- apiFetch ------------------------------------------- *)
\* refreshUser keeps what "me" answers; other calls tell their screen.
Finish(done, ok) ==
  /\ requests' = [c \in Caller |-> IF c \in done THEN NoCall ELSE requests[c]]
  /\ user' = IF Me \in done THEN ok ELSE user

ApiFetch(c) ==
  /\ phone = "ready" /\ user /\ c # Me /\ requests[c].pc = "idle"
  /\ requests' = [requests EXCEPT ![c] = [pc |-> "sent", token |-> memory.access]]
  /\ UNCHANGED <<idpVars, tokenVars, lifeVars, user, refreshes, signIn, signOut>>

\* The answer is there; or the network is gone, or the call was refused twice.
Succeed(c) ==
  /\ requests[c].pc \in {"sent", "resent"} /\ Accepts(requests[c].token)
  /\ Finish({c}, TRUE)
  /\ UNCHANGED <<idpVars, tokenVars, lifeVars, refreshes, signIn, signOut>>
Lose(c) ==
  /\ requests[c].pc \in {"sent", "resent"}
  /\ Finish({c}, FALSE)
  /\ UNCHANGED <<idpVars, tokenVars, lifeVars, refreshes, signIn, signOut>>

\* Mutant: every refused call starts a refresh of its own.
UnauthorizedAlone(c) ==
  /\ requests[c].pc = "sent" /\ ~ Accepts(requests[c].token)
  /\ IF memory.refresh = 0
     THEN Finish({c}, FALSE) /\ UNCHANGED refreshes
     ELSE /\ requests' = [requests EXCEPT ![c].pc = "waiting"]
          /\ refreshes' = [refreshes EXCEPT ![c] = Task("asking", memory.refresh)]
          /\ UNCHANGED user
  /\ UNCHANGED <<idpVars, tokenVars, lifeVars, signIn, signOut>>
\* 401: refreshOnce.  The refresh under way is waited for; without one it is started, with
\* the refresh token of the moment; without a token the call ends.
Unauthorized(c) ==
  /\ requests[c].pc = "sent" /\ ~ Accepts(requests[c].token)
  /\ IF ~ Refreshing /\ memory.refresh = 0
     THEN Finish({c}, FALSE) /\ UNCHANGED refreshes
     ELSE /\ requests' = [requests EXCEPT ![c].pc = "waiting"]
          /\ refreshes' = IF Refreshing THEN refreshes
                          ELSE [refreshes EXCEPT ![c] = Task("asking", memory.refresh)]
          /\ UNCHANGED user
  /\ UNCHANGED <<idpVars, tokenVars, lifeVars, signIn, signOut>>

(* --------------------------------- doRefresh ------------------------------------------ *)
\* The identity provider takes a refresh token once and gives the next pair.
Redeem(c) ==
  /\ refreshes[c].pc = "asking" /\ granted < MaxGrants
  /\ redeemed' = [redeemed EXCEPT ![refreshes[c].token] = @ + 1]
  /\ granted' = granted + 1
  /\ refreshes' = [refreshes EXCEPT ![c] = Task("granted", granted + 1)]
  /\ UNCHANGED <<expired, tokenVars, lifeVars, user, requests, signIn, signOut>>
\* The answer arrives: tokenStore.set.
KeepTokens(c) ==
  /\ refreshes[c].pc = "granted"
  /\ memory' = Pair(refreshes[c].token, refreshes[c].token)
  /\ refreshes' = [refreshes EXCEPT ![c].pc = "access"]
  /\ UNCHANGED <<idpVars, store, lifeVars, user, requests, signIn, signOut>>
\* No discovery, no answer, or a refusal: tokenStore.clear, whatever is in it by now.
DropTokens(c) ==
  /\ refreshes[c].pc \in {"asking", "granted"}
  /\ memory' = Pair(0, 0)
  /\ refreshes' = [refreshes EXCEPT ![c] = Task("access", 0)]
  /\ UNCHANGED <<idpVars, store, lifeVars, user, requests, signIn, signOut>>
StoreAccess(c) ==
  /\ refreshes[c].pc = "access"
  /\ WriteKeys(refreshes[c], refreshes[c].token)
  /\ refreshes' = [refreshes EXCEPT ![c].pc = "refresh"]
  /\ UNCHANGED <<idpVars, memory, lifeVars, user, requests, signIn, signOut>>

\* The calls that wait are sent once more, or end.
Resume(waiting, ok) ==
  IF ok THEN /\ requests' = [c \in Caller |-> IF c \in waiting
                                              THEN [pc |-> "resent", token |-> memory.access]
                                              ELSE requests[c]]
             /\ UNCHANGED user
  ELSE Finish(waiting, FALSE)
\* Mutant: only the call that started the refresh hears of its end.
StoreRefreshForOne(c) ==
  /\ refreshes[c].pc = "refresh"
  /\ WriteKeys(refreshes[c], refreshes[c].token)
  /\ Resume({c}, refreshes[c].token # 0)
  /\ refreshes' = [refreshes EXCEPT ![c] = NoTask]
  /\ UNCHANGED <<idpVars, memory, lifeVars, signIn, signOut>>
StoreRefresh(c) ==
  /\ refreshes[c].pc = "refresh"
  /\ WriteKeys(refreshes[c], refreshes[c].token)
  /\ Resume({d \in Caller : requests[d].pc = "waiting"}, refreshes[c].token # 0)
  /\ refreshes' = [refreshes EXCEPT ![c] = NoTask]
  /\ UNCHANGED <<idpVars, memory, lifeVars, signIn, signOut>>

(* -------------------------------- AuthProvider ---------------------------------------- *)
AskMe(token) == requests' = [requests EXCEPT ![Me] = [pc |-> "sent", token |-> token]]
\* The keys are read before anything else is shown.
Start ==
  /\ phone = "loading" /\ phone' = "ready"
  /\ memory' = store
  /\ IF store.access # 0 THEN AskMe(store.access) ELSE UNCHANGED requests
  /\ UNCHANGED <<idpVars, store, kills, torn, user, refreshes, signIn, signOut>>

CompleteSignIn ==
  /\ phone = "ready" /\ ~ user /\ granted < MaxGrants
  /\ signIn.pc = "idle" /\ requests[Me].pc = "idle"
  /\ granted' = granted + 1
  /\ memory' = Pair(granted + 1, granted + 1)
  /\ signIn' = Task("access", granted + 1)
  /\ UNCHANGED <<redeemed, expired, store, lifeVars, user, requests, refreshes, signOut>>
StoreSignIn ==
  /\ signIn.pc # "idle"
  /\ WriteKeys(signIn, signIn.token)
  /\ IF signIn.pc = "access"
     THEN signIn' = [signIn EXCEPT !.pc = "refresh"] /\ UNCHANGED requests
     ELSE signIn' = NoTask /\ AskMe(memory.access)
  /\ UNCHANGED <<idpVars, memory, lifeVars, user, refreshes, signOut>>

SignOut ==
  /\ phone = "ready" /\ user /\ signOut.pc = "idle"
  /\ memory' = Pair(0, 0)
  /\ signOut' = Task("access", 0)
  /\ UNCHANGED <<idpVars, store, lifeVars, user, requests, refreshes, signIn>>
StoreSignOut ==
  /\ signOut.pc # "idle"
  /\ WriteKeys(signOut, 0)
  /\ IF signOut.pc = "access"
     THEN signOut' = [signOut EXCEPT !.pc = "refresh"] /\ UNCHANGED user
     ELSE signOut' = NoTask /\ user' = FALSE
  /\ UNCHANGED <<idpVars, memory, lifeVars, requests, refreshes, signIn>>

\* The phone ends the application: what it had in memory is gone.
Kill ==
  /\ phone = "ready" /\ kills < MaxKills /\ kills' = kills + 1
  /\ phone' = "loading" /\ user' = FALSE /\ memory' = Pair(0, 0)
  /\ torn' = (torn \/ Refreshing \/ store # memory)
  /\ requests' = [c \in Caller |-> NoCall]
  /\ refreshes' = [c \in Caller |-> NoTask]
  /\ signIn' = NoTask /\ signOut' = NoTask
  /\ UNCHANGED <<idpVars, store>>

\* What the network, the store and the application do by themselves.
SessionStep(c) ==
  \/ Succeed(c) \/ Unauthorized(c) \/ Lose(c)
  \/ Redeem(c) \/ KeepTokens(c) \/ DropTokens(c) \/ StoreAccess(c) \/ StoreRefresh(c)

(* ----------------------------------- properties --------------------------------------- *)
\* "one-shot 401 refresh": a refresh token is redeemed once, however many calls are refused
\* at a time and whoever signs in or out meanwhile, unless the application was killed with a
\* refresh under way or a store that was behind its memory.
RefreshTokenUsedOnce == torn \/ \A g \in 1..MaxGrants : redeemed[g] <= 1

\* Every call ends: the answer, the shared refresh and its second sending all come to an
\* end, and nobody waits for a refresh that is over.
CallsFinish == \A c \in Caller : requests[c].pc # "idle" ~> requests[c].pc = "idle"
====================================================================================
