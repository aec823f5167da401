-------------------------------- MODULE Access --------------------------------
(***************************************************************************)
(* The front door of the HTTP API: the budget of requests per address      *)
(* (util/rateLimiter.ts), registration, login and logout with the guard    *)
(* that counts failed attempts (auth/loginGuard.ts), and the tokens, which *)
(* live until they expire or are revoked (auth/token.ts).                  *)
(*                                                                         *)
(* A handler runs in one step but for the await of its body: the budget is *)
(* charged when the request comes, everything else is decided when its     *)
(* body was read.  The tables of the limiters and of the guard are maps in *)
(* the order their keys were added, for that is the order of eviction.     *)
(* What a login does to plans is in Accounts; cryptography is taken to be  *)
(* sound, and a password is right, wrong or too weak to be set.            *)
(***************************************************************************)
EXTENDS Nothing, Integers, Sequences, SequencesExt, FiniteSets

CONSTANTS
  Names,        (* Names, and the accounts under them.                     *)
  Guest,        (* The name of a login that gives none.                    *)
  Ips,          (* Addresses, as clientIpFrom tells them.                  *)
  Tokens,       (* Identities (jti).                                       *)
  Environments, (* What the process may be started with:                   *)
                (* authRequired, adminSecret when there is one, the        *)
                (* operator that ADMIN_USERNAME names or None, the budgets *)
                (* apiLimit and authLimit over rateWindow; and, to bound   *)
                (* the model, the addresses, users and kinds of requests   *)
                (* that come, how many, and until when.                    *)
  MaxFailures, GuardWindow, LockTime, GuardKeys,  (* LoginGuard.           *)
  RateKeys,                                       (* SlidingWindowLimiter. *)
  TokenLife,    (* createToken's default, which nobody changes.            *)
  MaxReading, MaxAdminCalls                            (* Bounds.               *)

Limiters == {"api", "auth"}
Keys     == ({"user"} \X Names) \cup ({"ip"} \X Ips)
Roles    == {"user", "admin"}
Accounts == [status : {"none", "active", "suspended"}, role : Roles, password : BOOLEAN]
Payloads == [user : Names, role : Roles, exp : Nat]
Requests == [route : {"login", "register"}, ip : Ips, user : Names,
             password : {"right", "wrong", "weak"}, secret : BOOLEAN]

VARIABLES
  env,
  accountOf,     (* users: the row of each name; status "none" without one.  *)
  token,       (* What was given out: payloads, or None.                   *)
  revokedJtis, (* The set in memory, and                                   *)
  revokedRows, (* revoked_tokens, with the end of each.                    *)
  failures,    (* LoginGuard.                                              *)
  hits,        (* The two limiters.                                        *)
  reading,     (* Requests whose body is being read.                       *)
  adminCalls,       (* Admin requests that found a user and read their body.    *)
  clock,
  asked,       (* How many requests came.                                  *)
  guesses,     (* History: the times of the failed attempts, by key, since *)
               (* the last success or since the table dropped the key.     *)
  passed,      (* History: the times of the auth requests let through.     *)
  protected,   (* History: accounts whose password was set.                *)
  loggedOut,   (* History: tokens that were signed out, and                *)
  unsaved      (* those of them whose row could not be written.            *)

rowsOf    == <<accountOf, revokedRows>>
keyTables == <<failures, hits>>
accessHistory   == <<guesses, passed, protected, loggedOut, unsaved>>
accessVars      == <<env, accountOf, token, revokedJtis, revokedRows, failures, hits,
               reading, adminCalls, clock, asked, accessHistory>>

AccessTypes ==
  /\ env \in Environments
  /\ accountOf \in [Names -> Accounts]
  /\ token \in [Tokens -> Payloads \cup {None}]
  /\ revokedJtis \subseteq Tokens
  /\ revokedRows \subseteq Tokens
  /\ failures \in Seq([key : Keys, count : Nat, first : Nat, lockedUntil : Nat])
  /\ hits \in [Limiters -> Seq([key : Ips, times : Seq(Nat)])]
  /\ reading \subseteq Requests
  /\ adminCalls \subseteq [user : Names, role : Roles]
  /\ clock \in Nat /\ asked \in Nat
  /\ guesses \in [Keys -> Seq(Nat)] /\ passed \in [Ips -> Seq(Nat)]
  /\ protected \subseteq Names /\ loggedOut \subseteq Tokens /\ unsaved \subseteq loggedOut

KeysOf(T)   == {T[i].key : i \in DOMAIN T}
Entry(T, k) == CHOOSE i \in DOMAIN T : T[i].key = k

----------------------------------------------------------------------------
(* SlidingWindowLimiter. *)

(* What is left when the old times are shifted out from the front. *)
Within(times, window) ==
  LET old(i) == times[i] + window <= clock
      kept   == CHOOSE i \in 1..Len(times) + 1 :
                  (\A j \in 1..i - 1 : old(j)) /\ (i <= Len(times) => ~old(i))
  IN SubSeq(times, kept, Len(times))

Idle(e) == e.times = <<>> \/ Last(e.times) + env.rateWindow <= clock

(* evictOldest, called with a full table: the first key that is idle, or else the oldest. *)
EvictOldest(T) ==
  LET idle == {i \in DOMAIN T : Idle(T[i])} IN
  IF idle = {} THEN Tail(T)
  ELSE RemoveAt(T, CHOOSE i \in idle : \A j \in idle : i <= j)

WithKey(T, k) ==
  IF k \in KeysOf(T) THEN T
  ELSE Append(IF Len(T) >= RateKeys THEN EvictOldest(T) ELSE T, [key |-> k, times |-> <<>>])

Hit(T, k, limit) ==
  LET U == WithKey(T, k)
      i == Entry(U, k)
      recent == Within(U[i].times, env.rateWindow)
  IN [allowed |-> Len(recent) < limit,
      table   |-> [U EXCEPT ![i].times = IF Len(recent) < limit THEN Append(recent, clock) ELSE recent]]

(* A key that was counting and is dropped although another one was idle keeps its history.      *)
DroppedFairly(T, U) ==
  {k \in KeysOf(T) \ KeysOf(U) : \A i \in DOMAIN T : ~Idle(T[i])}

(* What a request to the API costs its address: one of "api", and one of "auth" if it passes.  *)
Charge(ip, auth) ==
  LET api   == Hit(hits["api"], ip, env.apiLimit)
      login == Hit(hits["auth"], ip, env.authLimit)
  IN IF ~api.allowed \/ ~auth
     THEN [allowed |-> api.allowed, hits |-> [hits EXCEPT !["api"] = api.table]]
     ELSE [allowed |-> login.allowed,
           hits |-> [hits EXCEPT !["api"] = api.table, !["auth"] = login.table]]

(* A request of a kind comes: rateLimitOrReject, and its history. *)
Charged(kind, ip) ==
  LET auth == kind # "call"
      c == Charge(ip, auth)
      dropped == DroppedFairly(hits["auth"], c.hits["auth"])
  IN /\ ip \in env.ips /\ kind \in env.kinds
     /\ asked < env.requests /\ asked' = asked + 1
     /\ hits' = c.hits
     /\ passed' = [i \in Ips |->
          IF i \in dropped THEN <<>>
          ELSE IF i = ip /\ auth /\ c.allowed THEN Append(passed[i], clock) ELSE passed[i]]

----------------------------------------------------------------------------
(* LoginGuard. *)

GuardKeysOf(r) == <<<<"user", r.user>>, <<"ip", r.ip>>>>

(* A fault: only the first of the keys is looked up. *)
LockedByName(r) ==
  \E i \in DOMAIN failures :
    failures[i].key = GuardKeysOf(r)[1] /\ failures[i].lockedUntil > clock

Locked(r) ==
  \E i \in DOMAIN failures :
    failures[i].key \in Range(GuardKeysOf(r)) /\ failures[i].lockedUntil > clock

NewFailure(k) == [key |-> k, count |-> 1, first |-> clock, lockedUntil |-> 0]

CountedUp(e) ==
  IF e.count + 1 < MaxFailures THEN [e EXCEPT !.count = @ + 1]
  ELSE [e EXCEPT !.count = 0, !.first = clock, !.lockedUntil = clock + LockTime]

CutGuard(F) == IF Len(F) > GuardKeys THEN Tail(F) ELSE F

FailedAgain(e) == IF clock - e.first > GuardWindow THEN NewFailure(e.key) ELSE CountedUp(e)

Failed(F, k) ==
  CutGuard(IF k \notin KeysOf(F) THEN Append(F, NewFailure(k))
           ELSE [F EXCEPT ![Entry(F, k)] = FailedAgain(@)])

(* recordFailure: the name first, which may drop the address. *)
RecordFailure(r) ==
  LET ks == GuardKeysOf(r)
      G  == Failed(failures, ks[1])
      F  == Failed(G, ks[2])
      kept(k) == IF k \in KeysOf(G) \cap KeysOf(F) THEN guesses[k] ELSE <<>>
  IN /\ failures' = F
     /\ guesses' = [k \in Keys |->
          IF k \in Range(ks) /\ k \in KeysOf(F) THEN Append(kept(k), clock) ELSE kept(k)]

Without(F, k) == IF k \in KeysOf(F) THEN RemoveAt(F, Entry(F, k)) ELSE F

RecordSuccess(r) ==
  LET ks == GuardKeysOf(r) IN
  /\ failures' = Without(Without(failures, ks[1]), ks[2])
  /\ guesses' = [k \in Keys |-> IF k \in Range(ks) THEN <<>> ELSE guesses[k]]

----------------------------------------------------------------------------
(* Tokens. *)

NewPayload(u, role) == [user |-> u, role |-> role, exp |-> clock + TokenLife]

Give(u, role) ==
  \E j \in Tokens : token[j] = None /\ token' = [token EXCEPT ![j] = NewPayload(u, role)]

Verified(j) ==
  /\ token[j] # None
  /\ clock <= token[j].exp
  /\ j \notin revokedJtis \cup revokedRows

(* extractToken: the Authorization header before the cookie. *)
Extracted(header, cookie) == IF header = None THEN cookie ELSE header

(* revokeToken: what the store does not take is revoked in memory only. *)
Revoke(j) ==
  /\ revokedJtis' = revokedJtis \cup {j}
  /\ \/ revokedRows' = revokedRows \cup {j} /\ UNCHANGED unsaved
     \/ unsaved' = unsaved \cup {j} /\ UNCHANGED revokedRows

(* purgeExpiredRevocations. *)
Keeps(j) == token[j].exp >= clock

----------------------------------------------------------------------------
(* Requests. *)

(* The outcome of the body: the request as it was sent or, when it is no JSON or is cut off, an  *)
(* empty one, which is a login of the guest and no registration at all.                          *)
Bodies(route, ip) ==
  [route : {route}, ip : {ip}, user : env.users,
   password : IF route = "login" THEN {"right", "wrong"} ELSE {"right", "weak"},
   secret : IF route = "login" /\ env.adminSecret THEN BOOLEAN ELSE {FALSE}]
  \cup [route : {route}, ip : {ip}, user : {Guest}, password : {"weak"}, secret : {FALSE}]

Arrive(ip, r) ==
  /\ r \in Bodies(r.route, ip)
  /\ Cardinality(reading) < MaxReading
  /\ Charged(r.route, ip)
  /\ reading' = IF Charge(ip, TRUE).allowed THEN reading \cup {r} ELSE reading
  /\ UNCHANGED <<env, rowsOf, token, revokedJtis, failures, adminCalls, clock, guesses, protected,
                 loggedOut, unsaved>>

(* Any other request to the API. *)
Call(ip) ==
  /\ Charged("call", ip)
  /\ UNCHANGED <<env, rowsOf, token, revokedJtis, failures, reading, adminCalls, clock, guesses,
                 protected, loggedOut, unsaved>>

Done(r) == r \in reading /\ reading' = reading \ {r}

NewAccount(role, password) == [status |-> "active", role |-> role, password |-> password]

(* POST /auth/register: the name is free and the password good, or it is refused. *)
MayRegister(r) == accountOf[r.user].status = "none" /\ r.password # "weak"

PostRegister(r) ==
  /\ r.route = "register" /\ Done(r)
  /\ \/ /\ ~MayRegister(r)
        /\ UNCHANGED <<accountOf, token, protected>>
     \/ /\ MayRegister(r)
        /\ accountOf' = [accountOf EXCEPT ![r.user] = NewAccount("user", TRUE)]
        /\ protected' = protected \cup {r.user}
        /\ Give(r.user, "user")
  /\ UNCHANGED <<env, revokedJtis, revokedRows, keyTables, adminCalls, clock, guesses, passed, loggedOut,
                 unsaved, asked>>

(* saveUser keeps the columns it does not name. *)
Saved(u, status, role) == [accountOf[u] EXCEPT !.status = status, !.role = role]

(* What a login without a row makes. *)
RowFor(r) ==
  IF accountOf[r.user].status = "none" THEN NewAccount("user", FALSE) ELSE accountOf[r.user]

(* A fault: without AUTH_REQUIRED the password is not looked at. *)
OpenDoor(r) == r.password = "right" \/ ~env.authRequired

(* An account that has a password asks for it; another one lets in whom AUTH_REQUIRED does. *)
PasswordOk(r) ==
  IF accountOf[r.user].password THEN r.password = "right" ELSE ~env.authRequired

MayLogin(r) == PasswordOk(r) \/ r.secret

(* ADMIN_SECRET makes an admin of the account. *)
RoleFor(r) == IF r.secret THEN "admin" ELSE RowFor(r).role

LoginRefused(r) ==
  /\ r.route = "login" /\ Done(r)
  /\ \/ Locked(r) /\ UNCHANGED <<failures, guesses>>
     \/ /\ ~Locked(r)
        /\ ~MayLogin(r) \/ accountOf[r.user].status = "suspended"
        /\ RecordFailure(r)
  /\ UNCHANGED <<env, rowsOf, token, revokedJtis, hits, adminCalls, clock, passed, protected, loggedOut,
                 unsaved, asked>>

LoginAccepted(r) ==
  /\ r.route = "login" /\ Done(r)
  /\ ~Locked(r) /\ MayLogin(r) /\ accountOf[r.user].status # "suspended"
  /\ accountOf' = [accountOf EXCEPT ![r.user] =
                   IF @.status = "none" THEN NewAccount(RoleFor(r), FALSE)
                   ELSE IF RoleFor(r) = @.role THEN @ ELSE Saved(r.user, "active", RoleFor(r))]
  /\ RecordSuccess(r)
  /\ Give(r.user, RoleFor(r))
  /\ UNCHANGED <<env, revokedJtis, revokedRows, hits, adminCalls, clock, passed, protected, loggedOut,
                 unsaved, asked>>

SignsOut(ip, j) == Charge(ip, TRUE).allowed /\ j # None /\ Verified(j)

(* POST /auth/logout *)
Logout(ip, header, cookie) ==
  LET j == Extracted(header, cookie) IN
  /\ Charged("logout", ip)
  /\ \/ /\ SignsOut(ip, j)
        /\ Revoke(j)
        /\ loggedOut' = loggedOut \cup {j}
     \/ /\ ~SignsOut(ip, j)
        /\ UNCHANGED <<revokedJtis, revokedRows, loggedOut, unsaved>>
  /\ UNCHANGED <<env, accountOf, token, failures, reading, adminCalls, clock, guesses, protected>>

----------------------------------------------------------------------------
(* Operators and the process. *)

(* POST /admin/users/:id/suspend and its kin find the row, then wait for the body ... *)
OperatorCalls(u) ==
  /\ accountOf[u].status # "none"
  /\ Cardinality(adminCalls) < MaxAdminCalls
  /\ adminCalls' = adminCalls \cup {[user |-> u, role |-> accountOf[u].role]}
  /\ UNCHANGED <<env, rowsOf, token, revokedJtis, keyTables, reading, clock, accessHistory, asked>>

(* ... and write what they found with the new status. *)
SetStatus(c, status) ==
  /\ c \in adminCalls /\ adminCalls' = adminCalls \ {c}
  /\ accountOf' = [accountOf EXCEPT ![c.user] = Saved(c.user, status, c.role)]
  /\ UNCHANGED <<env, token, revokedJtis, revokedRows, keyTables, reading, clock, accessHistory, asked>>

NoAccount == [status |-> "none", role |-> "user", password |-> FALSE]

DeleteAccount(u) ==
  /\ accountOf[u].status # "none"
  /\ accountOf' = [accountOf EXCEPT ![u] = NoAccount]
  /\ protected' = protected \ {u}
  /\ UNCHANGED <<env, token, revokedJtis, revokedRows, keyTables, reading, adminCalls, clock, guesses,
                 passed, loggedOut, unsaved, asked>>

(* A pass of maintenance.ts. *)
Purge ==
  /\ revokedRows' = {j \in revokedRows : Keeps(j)}
  /\ UNCHANGED <<env, accountOf, token, revokedJtis, keyTables, reading, adminCalls, clock, accessHistory, asked>>

(* bootstrapAdmin: the account of the operator is there, active and an admin, whatever it was.   *)
WithOperator(A) ==
  IF env.operator = None THEN A ELSE [A EXCEPT ![env.operator] = NewAccount("admin", TRUE)]

(* The process ends with the accounts A on disk and starts again. *)
RestartWith(A) ==
  /\ accountOf' = WithOperator(A)
  /\ protected' = protected \cup ({env.operator} \ {None})
  /\ revokedJtis' = {} /\ failures' = <<>> /\ hits' = [l \in Limiters |-> <<>>]
  /\ reading' = {} /\ adminCalls' = {}
  /\ guesses' = [k \in Keys |-> <<>>] /\ passed' = [i \in Ips |-> <<>>]
  /\ UNCHANGED <<env, token, revokedRows, clock, loggedOut, unsaved, asked>>

RestartServer == RestartWith(accountOf)

(* The process ends between saveUser and setUserPassword of a registration. *)
CrashInRegister(r) ==
  /\ r \in reading /\ r.route = "register" /\ MayRegister(r)
  /\ RestartWith([accountOf EXCEPT ![r.user] = NewAccount("user", FALSE)])

ClockTicks ==
  /\ clock < env.until
  /\ clock' = clock + 1
  /\ UNCHANGED <<env, rowsOf, token, revokedJtis, keyTables, reading, adminCalls, accessHistory, asked>>

----------------------------------------------------------------------------
AccessInit ==
  /\ env \in Environments
  /\ accountOf = WithOperator([u \in Names |-> NoAccount])
  /\ protected = {env.operator} \ {None}
  /\ token = [j \in Tokens |-> None]
  /\ revokedJtis = {} /\ revokedRows = {}
  /\ failures = <<>> /\ hits = [l \in Limiters |-> <<>>]
  /\ reading = {} /\ adminCalls = {}
  /\ clock = 0 /\ asked = 0
  /\ guesses = [k \in Keys |-> <<>>] /\ passed = [i \in Ips |-> <<>>]
  /\ loggedOut = {} /\ unsaved = {}

AccessNext ==
  \/ \E ip \in Ips, r \in Requests : Arrive(ip, r)
  \/ \E ip \in Ips : Call(ip)
  \/ \E r \in reading : PostRegister(r) \/ LoginRefused(r) \/ LoginAccepted(r) \/ CrashInRegister(r)
  \/ \E ip \in Ips, header, cookie \in Tokens \cup {None} : Logout(ip, header, cookie)
  \/ "operate" \in env.kinds /\ \E u \in env.users : OperatorCalls(u) \/ DeleteAccount(u)
  \/ \E c \in adminCalls, status \in {"active", "suspended"} : SetStatus(c, status)
  \/ "operate" \in env.kinds /\ RestartServer
  \/ Purge \/ ClockTicks

AccessSpec == AccessInit /\ [][AccessNext]_accessVars

(* The limits are numbers, and the lock is at least as long as the window, as both are by        *)
(* default.  A guard that is to lock at the first failure does so at the second, like one that   *)
(* is to lock at two.                                                                            *)
AccessAssumption ==
  /\ None \notin Names
  /\ \A e \in Environments :
       /\ e.operator \in Names \cup {None} /\ e.users \subseteq Names
       /\ {e.apiLimit, e.authLimit, e.rateWindow} \subseteq Nat
  /\ MaxFailures \in Nat \ {0, 1}
  /\ GuardWindow \in Nat /\ LockTime \in Nat /\ GuardWindow <= LockTime
  /\ GuardKeys \in Nat \ {0} /\ RateKeys \in Nat \ {0} /\ TokenLife \in Nat

----------------------------------------------------------------------------
(* Properties. *)

(* However requests come in and tables fill up, each table keeps its bound and one entry a key,  *)
(* what is revoked was signed out, and a password stays with its account: promotions, changes of *)
(* status and restarts write the row without it (saveUser).                                      *)
OneEntryPerKey(T) == \A i, j \in DOMAIN T : T[i].key = T[j].key => i = j

AccessInv ==
  /\ AccessTypes
  /\ Len(failures) <= GuardKeys /\ OneEntryPerKey(failures)
  /\ \A l \in Limiters : Len(hits[l]) <= RateKeys /\ OneEntryPerKey(hits[l])
  /\ revokedJtis \cup revokedRows \subseteq loggedOut
  /\ \A u \in protected : accountOf[u].password

(* More than n of them are never within one window. *)
Spread(times, n, window) ==
  \A i \in DOMAIN times : i + n \in DOMAIN times => times[i + n] - times[i] >= window

(* No key fails more often within a window than twice the limit less one: a lock may end while   *)
(* the window it began still counts, so that one failure less than the limit comes at its very   *)
(* end and the whole limit right after it.  The count may start over only after a success, a     *)
(* restart, or when a full table dropped the key (LoginGuard).                                   *)
GuessesAreBounded == \A k \in Keys : Spread(guesses[k], 2 * MaxFailures - 1, GuardWindow)

(* An address gets no more auth requests through within any window than the limit, unless all    *)
(* keys of a full table were counting when it was dropped (SlidingWindowLimiter.hit).            *)
RateHolds == \A i \in Ips : Spread(passed[i], env.authLimit, env.rateWindow)

(* A token that was signed out is not accepted again, over restarts and purges, unless the store *)
(* did not take its revocation (revokeToken, verifyToken, purgeExpiredRevocations).              *)
LoggedOutStaysOut == \A j \in loggedOut : Verified(j) => j \in unsaved

DoorHolds == AccessInv /\ GuessesAreBounded /\ RateHolds /\ LoggedOutStaysOut

(* Whoever is given a token has shown the password of the account, or the admin secret, or the   *)
(* account has none and the server asks for none; nobody suspended is; and only the secret or    *)
(* the row makes an admin.  The row may have changed since the request came.                     *)
EntryIsProven ==
  [][\A j \in Tokens : token[j] = None /\ token'[j] # None =>
       \E r \in reading \ reading' :
         /\ r.user = token'[j].user
         /\ r.secret \/ r.password = "right" \/ (~env.authRequired /\ r.user \notin protected)
         /\ accountOf[r.user].status # "suspended"
         /\ token'[j].role = "admin" => r.secret \/ accountOf[r.user].role = "admin"]_accessVars
===============================================================================
