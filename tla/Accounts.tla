------------------------------- MODULE Accounts ------------------------------
(***************************************************************************)
(* Signing in: one-time codes in Redis                                      *)
(* (src/src/modules/auth/otp/otp.service.ts) and the refresh tokens they    *)
(* buy (src/src/modules/auth/auth.service.ts), for one phone number or      *)
(* e-mail address.                                                          *)
(*                                                                         *)
(* Every Redis command and every statement on the user's row is atomic;     *)
(* handlers are cut between them.  A key with a time to live may go at any  *)
(* time, but the counter of wrong attempts starts its time when the first   *)
(* attempt is made, as long as the code's: it does not go before the code;  *)
(* and the pause of a minute outlasts the request that started it.          *)
(* A token is what its payload and the second of its signing make it: two   *)
(* that are signed for one user within a second are equal, unless the roles *)
(* changed in between.  A code that is generated twice, and the roles and   *)
(* verified flags themselves, are left out.                                 *)
(* logout() writes undefined, which update() skips: no token is withdrawn,  *)
(* so it is left out too.                                                   *)
(***************************************************************************)
EXTENDS Naturals, FiniteSets

CONSTANTS
    Codes,        \* one-time codes, each of them generated once
    Tokens,       \* refresh tokens, each of them signed within one second
    Calls,        \* slots for concurrent requests
    MaxAttempts,  \* wrong attempts that lock the code (5 in the code)
    MaxDeaths,    \* bound: calls that may die half-way
    NULL          \* a key or column that is not set

\* What the constants may be.
AccountsAssumption ==
    /\ NULL \notin Codes \cup Tokens
    /\ MaxAttempts \in Nat \ {0} /\ MaxDeaths \in Nat

VARIABLES
    redis,   \* the keys: the pause between requests, the code, the counter
    user,    \* the user's row, and the newest refresh token it knows
    calls,   \* the handlers in flight
    tally    \* history: what happened to every code and token

vars == <<redis, user, calls, tally>>

\* A call: where it is, the code or token it is about, and the new token.
Idle == [pc |-> "idle", with |-> NULL, token |-> NULL]

At(c, pc) == calls[c].pc = pc
Become(c, call) == calls' = [calls EXCEPT ![c] = call]

\* Codes generated; tokens signed, and those of them signed in this second;
\* codes whose request has cleared the counter, wrong attempts at each of them
\* since then, how often each code was accepted, how often each token was used
\* since it was last issued, and how many calls died.
NothingHappened ==
    [generated |-> {}, signed |-> {}, second |-> {}, cleared |-> {},
     wrong |-> [k \in Codes |-> 0], accepted |-> [k \in Codes |-> 0],
     used |-> [t \in Tokens |-> 0], deaths |-> 0]

(***************************************************************************)
(* Requesting a code.                                                       *)
(***************************************************************************)

\* requestOtp() finds the user or goes on to create one.
RequestBegin(c, k) ==
    /\ At(c, "idle")
    /\ k \notin tally.generated
    /\ tally' = [tally EXCEPT !.generated = @ \cup {k}]
    /\ Become(c, [Idle EXCEPT !.pc = IF user.exists THEN "pause" ELSE "create",
                              !.with = k])
    /\ UNCHANGED <<redis, user>>

\* createWithPhone(), createWithEmail(): the unique index refuses a second.
CreateUser(c) ==
    /\ At(c, "create")
    /\ user' = [user EXCEPT !.exists = TRUE]
    /\ Become(c, IF user.exists THEN Idle ELSE [calls[c] EXCEPT !.pc = "pause"])
    /\ UNCHANGED <<redis, tally>>

\* SET ... NX: too early, or go on.
Pause(c) ==
    /\ At(c, "pause")
    /\ redis' = [redis EXCEPT !.pause = TRUE]
    /\ Become(c, IF redis.pause THEN Idle ELSE [calls[c] EXCEPT !.pc = "set"])
    /\ UNCHANGED <<user, tally>>

SetCode(c) ==
    /\ At(c, "set")
    /\ redis' = [redis EXCEPT !.code = calls[c].with]
    /\ Become(c, [calls[c] EXCEPT !.pc = "clear"])
    /\ UNCHANGED <<user, tally>>

ClearAttempts(c) ==
    /\ At(c, "clear")
    /\ redis' = [redis EXCEPT !.attempts = 0]
    /\ tally' = [tally EXCEPT !.cleared = @ \cup {calls[c].with}]
    /\ Become(c, [calls[c] EXCEPT !.pc = "send"])
    /\ UNCHANGED user

\* The message goes out, ...
Send(c) ==
    /\ At(c, "send")
    /\ Become(c, Idle)
    /\ UNCHANGED <<redis, user, tally>>

\* ... or it does not, and another code may be requested at once.
SendFails(c) ==
    /\ At(c, "send")
    /\ redis' = [redis EXCEPT !.code = NULL, !.pause = FALSE]
    /\ Become(c, Idle)
    /\ UNCHANGED <<user, tally>>

(***************************************************************************)
(* Trying a code.                                                           *)
(***************************************************************************)

\* verifyOtp(): GET and compare.  A wrong try of a code counts in the history
\* once the code's request has cleared the counter.
Try(c, guess) ==
    /\ At(c, "idle")
    /\ redis.code # NULL
    /\ Become(c, [Idle EXCEPT !.pc = IF guess = redis.code THEN "accept" ELSE "count",
                              !.with = redis.code])
    /\ tally' = IF guess # redis.code /\ redis.code \in tally.cleared
                THEN [tally EXCEPT !.wrong[redis.code] = @ + 1] ELSE tally
    /\ UNCHANGED <<redis, user>>

\* Mutant of Accept: the code stays until it expires.
AcceptKeeping(c) ==
    /\ At(c, "accept")
    /\ redis' = [redis EXCEPT !.attempts = 0]
    /\ tally' = [tally EXCEPT !.accepted[calls[c].with] = @ + 1]
    /\ Become(c, [Idle EXCEPT !.pc = "issue"])
    /\ UNCHANGED user

\* The right code: DEL both keys and go on to issueTokens().
Accept(c) ==
    /\ At(c, "accept")
    /\ redis' = [redis EXCEPT !.code = NULL, !.attempts = 0]
    /\ tally' = [tally EXCEPT !.accepted[calls[c].with] = @ + 1]
    /\ Become(c, [Idle EXCEPT !.pc = "issue"])
    /\ UNCHANGED user

\* A wrong one: INCR, and lock the code if there were too many.
Count(c) ==
    /\ At(c, "count")
    /\ redis' = [redis EXCEPT !.attempts = @ + 1]
    /\ Become(c, IF redis'.attempts >= MaxAttempts
                 THEN [Idle EXCEPT !.pc = "lock"] ELSE Idle)
    /\ UNCHANGED <<user, tally>>

Lock(c) ==
    /\ At(c, "lock")
    /\ redis' = [redis EXCEPT !.code = NULL, !.attempts = 0]
    /\ Become(c, Idle)
    /\ UNCHANGED <<user, tally>>

(***************************************************************************)
(* Tokens.                                                                  *)
(***************************************************************************)

\* refresh(): the stored hash is read and must be the token's.
Refresh(c, t) ==
    /\ At(c, "idle")
    /\ user.token = t
    /\ Become(c, [Idle EXCEPT !.pc = "issue", !.with = t])
    /\ UNCHANGED <<redis, user, tally>>

\* issueTokens(): sign a token, a new one or that of this second, ...
Sign(c, t) ==
    /\ At(c, "issue")
    /\ t \notin tally.signed \/ t \in tally.second
    /\ tally' = [tally EXCEPT !.signed = @ \cup {t}, !.second = @ \cup {t}]
    /\ Become(c, [calls[c] EXCEPT !.pc = "store", !.token = t])
    /\ UNCHANGED <<redis, user>>

\* The token that a call came with is used, the one it issues not yet.
Exchanged(call) ==
    [t \in Tokens |-> IF t = call.token THEN 0
                      ELSE tally.used[t] + IF t = call.with THEN 1 ELSE 0]

\* Mutant of StoreToken: the hash of the first token stays.
StoreFirstToken(c) ==
    /\ At(c, "store")
    /\ user' = [user EXCEPT !.token = IF @ = NULL THEN calls[c].token ELSE @]
    /\ tally' = [tally EXCEPT !.used = Exchanged(calls[c])]
    /\ Become(c, Idle)
    /\ UNCHANGED redis

\* ... and store its hash in place of the one before.
StoreToken(c) ==
    /\ At(c, "store")
    /\ user' = [user EXCEPT !.token = calls[c].token]
    /\ tally' = [tally EXCEPT !.used = Exchanged(calls[c])]
    /\ Become(c, Idle)
    /\ UNCHANGED redis

-----------------------------------------------------------------------------

\* Times to live run out.
Expire ==
    /\ \/ /\ \A c \in Calls : calls[c].pc \notin {"set", "clear", "send"}
          /\ redis' = [redis EXCEPT !.pause = FALSE]
       \/ redis' = [redis EXCEPT !.code = NULL]
       \/ redis.code = NULL /\ redis' = [redis EXCEPT !.attempts = 0]
    /\ UNCHANGED <<user, calls, tally>>

\* The second is over: what is signed from now on is new.
Tick ==
    /\ tally' = [tally EXCEPT !.second = {}]
    /\ UNCHANGED <<redis, user, calls>>

\* A handler dies.
Die(c) ==
    /\ ~At(c, "idle")
    /\ tally.deaths < MaxDeaths
    /\ tally' = [tally EXCEPT !.deaths = @ + 1]
    /\ Become(c, Idle)
    /\ UNCHANGED <<redis, user>>

Init ==
    /\ redis = [pause |-> FALSE, code |-> NULL, attempts |-> 0]
    /\ user = [exists |-> FALSE, token |-> NULL]
    /\ calls = [c \in Calls |-> Idle]
    /\ tally = NothingHappened

Next ==
    \/ \E c \in Calls, k \in Codes : RequestBegin(c, k) \/ Try(c, k)
    \/ \E c \in Calls, t \in Tokens : Refresh(c, t) \/ Sign(c, t)
    \/ \E c \in Calls :
          \/ CreateUser(c) \/ Pause(c) \/ SetCode(c) \/ ClearAttempts(c)
          \/ Send(c) \/ SendFails(c) \/ Accept(c) \/ Count(c) \/ Lock(c)
          \/ StoreToken(c) \/ Die(c)
    \/ Expire \/ Tick

Spec == Init /\ [][Next]_vars

=============================================================================
