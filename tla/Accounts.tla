------------------------------ MODULE Accounts ------------------------------
(***************************************************************************)
(* User accounts, tokens and API keys.                                     *)
(*                                                                         *)
(* A session is one HTTP request with the AsyncSession get_db gives it (or *)
(* the start-up of the API, which creates the default administrator).  The *)
(* dependency get_current_user and the route share that session, so what   *)
(* authentication writes is committed or rolled back with the request, and *)
(* get_db rolls back on every exception, also on the HTTPException that is *)
(* a plain 401, 403 or 404 answer.  As in IocStore, a statement is one     *)
(* action, a transaction runs at READ COMMITTED, and a written row stays   *)
(* locked until the transaction ends.  SQLAlchemy writes only the columns  *)
(* the code changed; everything else of a row is as it then is.            *)
(*                                                                         *)
(* Hashing and signing are abstract: a password is compared as it is, and  *)
(* a token is what its claims say.                                         *)
(***************************************************************************)
EXTENDS Integers, FiniteSets

CONSTANTS
    Session,      \* the requests, each made once
    Box,          \* mailboxes: email addresses up to letter case
    Secret,       \* passwords
    MaxUser,      \* the largest user id
    MaxKey,       \* the largest API key id
    MaxClock,     \* bound on the clock
    MaxFaults,    \* bound on broken connections and killed processes
    MaxFailed,    \* MAX_FAILED_ATTEMPTS
    Lockout,      \* LOCKOUT_DURATION_MINUTES, in clock units
    ShortLife,    \* lifetime of an access token
    LongLife,     \* and of one with remember_me; refresh tokens: 1 and 2 times
    Workloads,    \* the assignments of requests to sessions considered
    StartUsers,   \* the users at the start, by id
    StartKeys,    \* the API keys at the start, by id
    StartTokens,  \* the tokens clients hold at the start
    NoRow,        \* there is no row with this id
    Untouched,    \* this session has not written the row
    NoTime,       \* NULL for a time
    NoToken       \* the request carries no token

Time   == 0 .. MaxClock
UserId == 1 .. MaxUser
KeyId  == 1 .. MaxKey
\* create_user lower-cases the address; a client may type it in any case.
Email  == [box : Box, lower : BOOLEAN]
Lower(email) == [email EXCEPT !.lower = TRUE]
User   == [email : Email, admin : BOOLEAN, active : BOOLEAN, password : Secret,
           attempts : Nat, locked : Nat \cup {NoTime}]
ApiKey == [user : UserId, active : BOOLEAN, expires : Nat \cup {NoTime}, usage : Nat]
Token  == [user : UserId, type : {"access", "refresh"}, expires : Nat]
Kind   == {"login", "startup", "refresh", "logout", "use", "password",
           "newkey", "revoke", "create", "deactivate"}
AdminKind == {"create", "deactivate"}
Request == [kind     : Kind,
            by       : {"none", "token", "key"},    \* how it authenticates
            user     : UserId,                      \* token: whose
            key      : KeyId,                       \* key: which
            email    : Email,                       \* login, create, startup
            password : Secret,                      \* typed, or the new one
            current  : Secret,                      \* password: the old one
            target   : UserId \cup KeyId,           \* deactivate, revoke
            remember : BOOLEAN,                     \* login
            admin    : BOOLEAN]                     \* create, startup

ASSUME BoundsAssumption ==
    /\ MaxUser \in Nat \ {0} /\ MaxKey \in Nat \ {0} /\ MaxClock \in Nat
    /\ MaxFaults \in Nat /\ MaxFailed \in Nat \ {0} /\ Lockout \in Nat
    /\ ShortLife \in Nat /\ LongLife \in Nat
ASSUME NullsAssumption ==
    /\ NoRow \notin User \cup ApiKey /\ Untouched \notin User \cup ApiKey
    /\ NoRow # Untouched /\ NoTime \notin Nat /\ NoToken \notin Token
ASSUME StartAssumption ==
    /\ StartUsers \in [UserId -> User \cup {NoRow}]
    /\ StartKeys \in [KeyId -> ApiKey \cup {NoRow}]
    /\ StartTokens \subseteq Token
    /\ \A u \in UserId : StartUsers[u] # NoRow => StartUsers[u].email.lower
    /\ \A u, v \in UserId :
        StartUsers[u] # NoRow /\ StartUsers[v] # NoRow /\ u # v =>
            StartUsers[u].email # StartUsers[v].email
    /\ \A t \in StartTokens : StartUsers[t.user] # NoRow
    /\ \A k \in KeyId : StartKeys[k] # NoRow => StartUsers[StartKeys[k].user] # NoRow
ASSUME WorkAssumption ==
    /\ Workloads \subseteq [Session -> Request]
    /\ \A w \in Workloads : \A s \in Session :
        /\ w[s].by = "none" <=> w[s].kind \in {"login", "startup"}
        /\ w[s].kind = "refresh" => w[s].by = "token"
        /\ w[s].kind = "startup" => w[s].admin
        /\ w[s].kind = "deactivate" => w[s].target \in UserId
        /\ w[s].kind = "revoke" => w[s].target \in KeyId

VARIABLES
    users,     \* the committed users
    keys,      \* the committed API keys
    issued,    \* the tokens the server has signed
    clock,     \* datetime.now()
    faults,    \* broken connections and killed processes so far
    req,       \* the request of each session, never changed
    token,     \* the token it presents
    me,        \* the user it is made for, once that is known
    seen,      \* that user as the request read it
    used,      \* the usage_count of its API key as the request read it
    ownUsers,  \* uncommitted writes of users, and so the row locks
    ownKeys,   \* and of API keys
    pc,        \* the statement each session runs next
    outcome,   \* how the request ended
    barred,    \* history: why its credential was no longer good at its start
    fails,     \* history: failed logins answered since the last success
    uses,      \* history: requests with each API key that were carried out,
               \* also those that could not be answered
    secret     \* history: the password each user last set

tables == <<users, keys>>
locals == <<token, me, seen, used>>
owned  == <<ownUsers, ownKeys>>
past   == <<fails, uses, secret>>
env    == <<issued, clock, faults, req, barred>>
vars   == <<users, keys, issued, clock, faults, req, token, me, seen, used,
            ownUsers, ownKeys, pc, outcome, barred, fails, uses, secret>>

Location == {"start", "lookup", "mark", "enter", "who", "key", "owner", "bump",
             "password", "mint", "pick", "revoke", "unique", "insert",
             "target", "deactivate", "raise", "commit", "done"}
Reason == {"inactive", "revoked"}
\* A session that has written nothing.
CleanUsers == [u \in UserId |-> Untouched]
CleanKeys  == [k \in KeyId |-> Untouched]

\* The types of the state; the counters are not bounded by it.
TypeOK ==
    /\ users    \in [UserId -> User \cup {NoRow}]
    /\ keys     \in [KeyId -> ApiKey \cup {NoRow}]
    /\ issued   \subseteq Token
    /\ clock    \in Time
    /\ faults   \in 0 .. MaxFaults
    /\ req      \in Workloads
    /\ token    \in [Session -> Token \cup {NoToken}]
    /\ me       \in [Session -> UserId]
    /\ seen     \in [Session -> User \cup {NoRow}]
    /\ used     \in [Session -> Nat]
    /\ ownUsers \in [Session -> [UserId -> User \cup {Untouched}]]
    /\ ownKeys  \in [Session -> [KeyId -> ApiKey \cup {Untouched}]]
    /\ pc       \in [Session -> Location]
    /\ outcome  \in [Session -> {"none", "ok", "unanswered", "rejected", "failed"}]
    /\ barred   \in [Session -> SUBSET Reason]
    /\ fails    \in [UserId -> Nat]
    /\ uses     \in [KeyId -> Nat]
    /\ secret   \in [UserId -> Secret \cup {NoRow}]

Init ==
    /\ users = StartUsers /\ keys = StartKeys /\ issued = StartTokens
    /\ clock = 0 /\ faults = 0
    /\ req \in Workloads
    /\ token = [s \in Session |-> NoToken]
    /\ me = [s \in Session |-> req[s].user]
    /\ seen = [s \in Session |-> NoRow]
    /\ used = [s \in Session |-> 0]
    /\ ownUsers = [s \in Session |-> CleanUsers]
    /\ ownKeys = [s \in Session |-> CleanKeys]
    /\ pc = [s \in Session |-> "start"]
    /\ outcome = [s \in Session |-> "none"]
    /\ barred = [s \in Session |-> {}]
    /\ fails = [u \in UserId |-> 0]
    /\ uses = [k \in KeyId |-> IF StartKeys[k] = NoRow THEN 0 ELSE StartKeys[k].usage]
    /\ secret = [u \in UserId |-> IF StartUsers[u] = NoRow THEN NoRow
                                  ELSE StartUsers[u].password]

-----------------------------------------------------------------------------
(* Locks.                                                                  *)

UserHolders(s, u) == {t \in Session \ {s} : ownUsers[t][u] # Untouched}
KeyHolders(s, k)  == {t \in Session \ {s} : ownKeys[t][k] # Untouched}

\* The unique index: an INSERT waits for another that has the same address
\* and has not ended.
Inserters(s) ==
    {t \in Session \ {s} : \E u \in UserId :
        /\ users[u] = NoRow /\ ownUsers[t][u] # Untouched
        /\ ownUsers[t][u].email = Lower(req[s].email)}

\* Whose transactions session s waits for.
BlockedBy(s) ==
    CASE pc[s] \in {"mark", "enter", "password"} -> UserHolders(s, me[s])
      [] pc[s] = "deactivate" -> UserHolders(s, req[s].target)
      [] pc[s] = "bump"       -> KeyHolders(s, req[s].key)
      [] pc[s] = "revoke"     -> KeyHolders(s, req[s].target)
      [] pc[s] = "insert"     -> Inserters(s)
      [] OTHER -> {}

Deadlocked(s) ==
    \E C \in SUBSET Session :
        /\ s \in C
        /\ \A c \in C : /\ \E d \in C : d \in BlockedBy(c)
                        /\ \E d \in C : c \in BlockedBy(d)

-----------------------------------------------------------------------------
(* Ends of a step that several operations share.                           *)

Goto(s, l) == pc' = [pc EXCEPT ![s] = l]

\* The transaction ends; what it wrote is forgotten unless it was committed.
End(s, o) ==
    /\ Goto(s, "done")
    /\ outcome' = [outcome EXCEPT ![s] = o]
    /\ ownUsers' = [ownUsers EXCEPT ![s] = CleanUsers]
    /\ ownKeys' = [ownKeys EXCEPT ![s] = CleanKeys]

\* Mutant: get_db commits what was written before the HTTPException.
RejectCommits(s) ==
    /\ End(s, "rejected")
    /\ users' = [u \in UserId |->
                   IF ownUsers[s][u] = Untouched THEN users[u] ELSE ownUsers[s][u]]
    /\ keys' = [k \in KeyId |->
                   IF ownKeys[s][k] = Untouched THEN keys[k] ELSE ownKeys[s][k]]
    /\ UNCHANGED uses

\* An HTTPException: get_db rolls back.
Reject(s) == End(s, "rejected") /\ UNCHANGED <<tables, uses>>

Go(s, l) == Goto(s, l) /\ UNCHANGED <<tables, owned, outcome, uses>>

First(kind) ==
    CASE kind = "password"   -> "password"
      [] kind = "newkey"     -> "mint"
      [] kind = "revoke"     -> "pick"
      [] kind = "create"     -> "unique"
      [] kind = "deactivate" -> "target"
      [] OTHER               -> "commit"

\* Mutant: an administrator may deactivate the own account.
AdmissibleAnyTarget(s, u, r) ==
    /\ req[s].kind \in AdminKind => r.admin
    /\ req[s].kind = "password" => req[s].current = r.password

\* What the dependencies and the route ask of the authenticated user u, whose
\* row is r, before the route's first statement.
Admissible(s, u, r) ==
    /\ req[s].kind \in AdminKind => r.admin
    /\ req[s].kind = "password" => req[s].current = r.password
    /\ req[s].kind = "deactivate" => req[s].target # u

-----------------------------------------------------------------------------
(* Authentication.                                                         *)

Expired(time) == time # NoTime /\ time < clock

\* What makes a request no good already when it is made: of a user, also by a
\* token of the user, and of an API key.  The program keeps no list of tokens
\* that were logged out.
UserBars(u)  == IF users[u].active THEN {} ELSE {"inactive"}
KeyBars(k)   == UserBars(keys[k].user) \cup
                IF keys[k].active /\ ~Expired(keys[k].expires) THEN {} ELSE {"revoked"}

Matches(email) ==
    {u \in UserId : users[u] # NoRow /\ Lower(users[u].email) = Lower(email)}

\* The client has the credential the request is made with.
Presentable(s) ==
    \/ req[s].by = "none"
    \/ req[s].by = "token" /\ \E t \in issued : t.user = req[s].user
    \/ req[s].by = "key" /\ keys[req[s].key] # NoRow

\* The request arrives, and a token in it is decoded: one of the wrong type,
\* or an expired one, is a 401 at once.
Begin(s) ==
    /\ pc[s] = "start"
    /\ \/ /\ req[s].by = "none"
          /\ Go(s, IF req[s].kind = "login" THEN "lookup" ELSE "unique")
          /\ barred' = [barred EXCEPT ![s] =
                          IF req[s].kind = "login"
                          THEN UNION {UserBars(u) : u \in Matches(req[s].email)} ELSE {}]
          /\ UNCHANGED token
       \/ /\ req[s].by = "token"
          /\ \E t \in issued :
                /\ t.user = req[s].user
                /\ token' = [token EXCEPT ![s] = t]
                /\ barred' = [barred EXCEPT ![s] = UserBars(t.user)]
                /\ IF (t.type = "refresh") = (req[s].kind = "refresh") /\ ~Expired(t.expires)
                   THEN Go(s, "who")
                   ELSE Reject(s)
       \/ /\ req[s].by = "key" /\ keys[req[s].key] # NoRow
          /\ barred' = [barred EXCEPT ![s] = KeyBars(req[s].key)]
          /\ Go(s, "key")
          /\ UNCHANGED token
    /\ UNCHANGED <<issued, clock, faults, req, me, seen, used, fails, secret>>

\* get_current_user and the refresh route read the token's user.
Who(s) ==
    /\ pc[s] = "who"
    /\ LET u == token[s].user IN
        /\ me' = [me EXCEPT ![s] = u]
        /\ seen' = [seen EXCEPT ![s] = users[u]]
        /\ IF users[u].active /\ Admissible(s, u, users[u])
           THEN Go(s, First(req[s].kind))
           ELSE Reject(s)
    /\ UNCHANGED <<env, token, used, fails, secret>>

\* validate_api_key: the key.
Key(s) ==
    /\ pc[s] = "key"
    /\ LET k == keys[req[s].key] IN
        /\ used' = [used EXCEPT ![s] = k.usage]
        /\ me' = [me EXCEPT ![s] = k.user]
        /\ IF k.active /\ ~Expired(k.expires) THEN Go(s, "owner") ELSE Reject(s)
    /\ UNCHANGED <<env, token, seen, fails, secret>>

\* Mutant: the owner of a key is not asked for.
OwnerUnchecked(s) ==
    /\ pc[s] = "owner"
    /\ seen' = [seen EXCEPT ![s] = users[me[s]]]
    /\ Go(s, "bump")
    /\ UNCHANGED <<env, token, me, used, fails, secret>>

\* validate_api_key: its user.
Owner(s) ==
    /\ pc[s] = "owner"
    /\ seen' = [seen EXCEPT ![s] = users[me[s]]]
    /\ IF users[me[s]].active THEN Go(s, "bump") ELSE Reject(s)
    /\ UNCHANGED <<env, token, me, used, fails, secret>>

\* validate_api_key: usage_count, as it was read, plus one.  Then what the
\* route asks of the user.
Bump(s) ==
    /\ pc[s] = "bump"
    /\ KeyHolders(s, req[s].key) = {}
    /\ \/ /\ Admissible(s, me[s], seen[s])
          /\ ownKeys' = [ownKeys EXCEPT ![s][req[s].key] =
                           [keys[req[s].key] EXCEPT !.usage = used[s] + 1]]
          /\ Goto(s, First(req[s].kind))
          /\ UNCHANGED <<tables, ownUsers, outcome, uses>>
       \/ ~Admissible(s, me[s], seen[s]) /\ Reject(s)
    /\ UNCHANGED <<env, locals, fails, secret>>

-----------------------------------------------------------------------------
(* Login.                                                                  *)

CanLogin(r) == r.active /\ ~(r.locked # NoTime /\ clock < r.locked)

\* authenticate_user: the user, can_login and the password.
Lookup(s) ==
    /\ pc[s] = "lookup"
    /\ \/ /\ Matches(req[s].email) = {}
          /\ Reject(s)
          /\ UNCHANGED <<me, seen>>
       \/ \E u \in Matches(req[s].email) :
            /\ me' = [me EXCEPT ![s] = u]
            /\ seen' = [seen EXCEPT ![s] = users[u]]
            /\ \/ ~CanLogin(users[u]) /\ Reject(s)
               \/ /\ CanLogin(users[u])
                  /\ Go(s, IF users[u].password = req[s].password THEN "enter" ELSE "mark")
    /\ UNCHANGED <<env, token, used, fails, secret>>

\* A wrong password: the counter, as it was read, plus one, and the lock.
Mark(s) ==
    /\ pc[s] = "mark"
    /\ UserHolders(s, me[s]) = {}
    /\ LET n == seen[s].attempts + 1 IN
        ownUsers' = [ownUsers EXCEPT ![s][me[s]] =
                       [users[me[s]] EXCEPT
                          !.attempts = n,
                          !.locked = IF n >= MaxFailed THEN clock + Lockout ELSE @]]
    /\ Goto(s, "raise")
    /\ UNCHANGED <<tables, env, locals, ownKeys, outcome, past>>

\* The login route raises 401.
Raise(s) ==
    /\ pc[s] = "raise"
    /\ Reject(s)
    /\ fails' = [fails EXCEPT ![me[s]] = @ + 1]
    /\ UNCHANGED <<env, locals, secret>>

\* Mutant: the whole row is written back as it was read.
EnterWholeRow(s) ==
    /\ pc[s] = "enter"
    /\ UserHolders(s, me[s]) = {}
    /\ ownUsers' = [ownUsers EXCEPT ![s][me[s]] =
                      [seen[s] EXCEPT !.attempts = 0, !.locked = NoTime]]
    /\ Goto(s, "commit")
    /\ UNCHANGED <<tables, env, locals, ownKeys, outcome, past>>

\* A right password: counter and lock are reset, in so far as they were set.
Enter(s) ==
    /\ pc[s] = "enter"
    /\ UserHolders(s, me[s]) = {}
    /\ ownUsers' = [ownUsers EXCEPT ![s][me[s]] =
                      [users[me[s]] EXCEPT
                         !.attempts = IF seen[s].attempts = 0 THEN @ ELSE 0,
                         !.locked = IF seen[s].locked = NoTime THEN @ ELSE NoTime]]
    /\ Goto(s, "commit")
    /\ UNCHANGED <<tables, env, locals, ownKeys, outcome, past>>

-----------------------------------------------------------------------------
(* What an authenticated request changes.                                  *)

ChangePassword(s) ==
    /\ pc[s] = "password"
    /\ UserHolders(s, me[s]) = {}
    /\ ownUsers' = [ownUsers EXCEPT ![s][me[s]] =
                      [users[me[s]] EXCEPT !.password = req[s].password]]
    /\ Goto(s, "commit")
    /\ UNCHANGED <<tables, env, locals, ownKeys, outcome, past>>

\* The ids the sequences may still hand out.  A rolled back id is not handed
\* out again, but nothing tells it from a new one.
FreeUsers == {u \in UserId : users[u] = NoRow /\ \A s \in Session : ownUsers[s][u] = Untouched}
FreeKeys  == {k \in KeyId : keys[k] = NoRow /\ \A s \in Session : ownKeys[s][k] = Untouched}
Some(S)   == CHOOSE n \in S : TRUE

\* Mutant: the default of usage_count is missing.
MintNoDefault(s) ==
    /\ pc[s] = "mint"
    /\ FreeKeys # {}
    /\ ownKeys' = [ownKeys EXCEPT ![s][Some(FreeKeys)] =
                     [user |-> me[s], active |-> TRUE, expires |-> NoTime, usage |-> NoTime]]
    /\ Goto(s, "commit")
    /\ UNCHANGED <<tables, env, locals, ownUsers, outcome, past>>

\* create_api_key.
Mint(s) ==
    /\ pc[s] = "mint"
    /\ FreeKeys # {}
    /\ \E expires \in {NoTime, clock + 1} :
        ownKeys' = [ownKeys EXCEPT ![s][Some(FreeKeys)] =
                      [user |-> me[s], active |-> TRUE, expires |-> expires, usage |-> 0]]
    /\ Goto(s, "commit")
    /\ UNCHANGED <<tables, env, locals, ownUsers, outcome, past>>

Owns(u, k) == keys[k] # NoRow /\ keys[k].user = u

\* revoke_api_key looks for the user's own key.  A key that is already
\* inactive is not written.
Pick(s) ==
    /\ pc[s] = "pick"
    /\ LET k == req[s].target IN
        \/ ~Owns(me[s], k) /\ Reject(s)
        \/ Owns(me[s], k) /\ Go(s, IF keys[k].active THEN "revoke" ELSE "commit")
    /\ UNCHANGED <<env, locals, fails, secret>>

Revoke(s) ==
    /\ pc[s] = "revoke"
    /\ KeyHolders(s, req[s].target) = {}
    /\ ownKeys' = [ownKeys EXCEPT ![s][req[s].target] =
                     [IF @ = Untouched THEN keys[req[s].target] ELSE @ EXCEPT !.active = FALSE]]
    /\ Goto(s, "commit")
    /\ UNCHANGED <<tables, env, locals, ownUsers, outcome, past>>

\* create_user asks for the address: ValueError and 400, or at start-up
\* nothing to do.
Unique(s) ==
    /\ pc[s] = "unique"
    /\ \/ Matches(req[s].email) = {} /\ Go(s, "insert")
       \/ /\ Matches(req[s].email) # {}
          /\ IF req[s].kind = "startup" THEN Go(s, "commit") ELSE Reject(s)
    /\ UNCHANGED <<env, locals, fails, secret>>

\* Mutant: the address is stored as it was typed.
InsertAsTyped(s) ==
    /\ pc[s] = "insert"
    /\ Inserters(s) = {} /\ FreeUsers # {}
    /\ \A u \in UserId : users[u] # NoRow => users[u].email # req[s].email
    /\ ownUsers' = [ownUsers EXCEPT ![s][Some(FreeUsers)] =
                      [email |-> req[s].email, admin |-> req[s].admin,
                       active |-> TRUE, password |-> req[s].password,
                       attempts |-> 0, locked |-> NoTime]]
    /\ Goto(s, "commit")
    /\ UNCHANGED <<tables, env, locals, ownKeys, outcome, past>>

\* The INSERT, once nobody else is inserting that address.
Insert(s) ==
    /\ pc[s] = "insert"
    /\ Inserters(s) = {} /\ FreeUsers # {}
    /\ \A u \in UserId : users[u] # NoRow => users[u].email # Lower(req[s].email)
    /\ ownUsers' = [ownUsers EXCEPT ![s][Some(FreeUsers)] =
                      [email |-> Lower(req[s].email), admin |-> req[s].admin,
                       active |-> TRUE, password |-> req[s].password,
                       attempts |-> 0, locked |-> NoTime]]
    /\ Goto(s, "commit")
    /\ UNCHANGED <<tables, env, locals, ownKeys, outcome, past>>

\* The unique index refuses the address, or there is no id left.
InsertFails(s) ==
    /\ pc[s] = "insert"
    /\ Inserters(s) = {}
    /\ \/ FreeUsers = {}
       \/ \E u \in UserId : users[u] # NoRow /\ users[u].email = Lower(req[s].email)
    /\ End(s, "failed")
    /\ UNCHANGED <<tables, env, locals, past>>

\* delete_user reads the user to deactivate, and writes one that is active.
Target(s) ==
    /\ pc[s] = "target"
    /\ LET u == req[s].target IN
        \/ users[u] = NoRow /\ Reject(s)
        \/ users[u] # NoRow /\ Go(s, IF users[u].active THEN "deactivate" ELSE "commit")
    /\ UNCHANGED <<env, locals, fails, secret>>

Deactivate(s) ==
    /\ pc[s] = "deactivate"
    /\ UserHolders(s, req[s].target) = {}
    /\ ownUsers' = [ownUsers EXCEPT ![s][req[s].target] =
                      [users[req[s].target] EXCEPT !.active = FALSE]]
    /\ Goto(s, "commit")
    /\ UNCHANGED <<tables, env, locals, ownKeys, outcome, past>>

-----------------------------------------------------------------------------
(* The end of a request, and what may happen at any time.                  *)

\* The tokens a login or a refresh answers with.
Answer(s) ==
    LET life == IF req[s].remember THEN LongLife ELSE ShortLife IN
    CASE req[s].kind = "login" ->
            {[user |-> me[s], type |-> "access", expires |-> clock + life],
             [user |-> me[s], type |-> "refresh",
              expires |-> clock + IF req[s].remember THEN 2 * LongLife ELSE LongLife]}
      [] req[s].kind = "refresh" ->
            {[user |-> me[s], type |-> "access", expires |-> clock + ShortLife]}
      [] OTHER -> {}

\* The server carries a commit out.
Publish(s, o) ==
    /\ pc[s] = "commit"
    /\ End(s, o)
    /\ users' = [u \in UserId |->
                   IF ownUsers[s][u] = Untouched THEN users[u] ELSE ownUsers[s][u]]
    /\ keys' = [k \in KeyId |->
                   IF ownKeys[s][k] = Untouched THEN keys[k] ELSE ownKeys[s][k]]
    /\ uses' = IF req[s].by = "key" THEN [uses EXCEPT ![req[s].key] = @ + 1] ELSE uses
    /\ secret' = [u \in UserId |->
                    IF \/ req[s].kind = "password" /\ u = me[s]
                       \/ users[u] = NoRow /\ users'[u] # NoRow
                    THEN req[s].password ELSE secret[u]]
    /\ UNCHANGED <<clock, req, barred, locals>>

\* db.commit(), by the route or by get_db.
Commit(s) ==
    /\ Publish(s, "ok")
    /\ issued' = issued \cup Answer(s)
    /\ fails' = IF req[s].kind = "login" THEN [fails EXCEPT ![me[s]] = 0] ELSE fails
    /\ UNCHANGED faults

\* The connection is lost after the COMMIT has been sent: it is carried out,
\* but the request ends in an error and no token is answered.
CommitUnanswered(s) ==
    /\ Publish(s, "unanswered")
    /\ faults < MaxFaults
    /\ faults' = faults + 1
    /\ UNCHANGED <<issued, fails>>

\* Mutant: a deadlock is noticed and left as it is.
NoVictim(s) == Deadlocked(s) /\ UNCHANGED vars

\* The server fails the statement of a session on a cycle of waiting ones.
DeadlockVictim(s) ==
    /\ Deadlocked(s)
    /\ End(s, "failed")
    /\ UNCHANGED <<tables, env, locals, past>>

Running(s) == pc[s] \notin {"start", "done"}

\* The connection breaks or the API process dies; a commit that was not carried
\* out is lost with it.
Crash(s) ==
    /\ Running(s)
    /\ faults < MaxFaults
    /\ faults' = faults + 1
    /\ End(s, "failed")
    /\ UNCHANGED <<tables, issued, clock, req, barred, locals, past>>

Tick ==
    /\ clock < MaxClock
    /\ clock' = clock + 1
    /\ UNCHANGED <<tables, issued, faults, req, barred, locals, owned, pc, outcome, past>>

\* All requests have been made that could be.
Finished ==
    /\ clock = MaxClock
    /\ \A s \in Session : pc[s] = "done" \/ (pc[s] = "start" /\ ~Presentable(s))
    /\ UNCHANGED vars

Statement(s) ==
    \/ Who(s) \/ Key(s) \/ Owner(s) \/ Bump(s)
    \/ Lookup(s) \/ Mark(s) \/ Raise(s) \/ Enter(s)
    \/ ChangePassword(s) \/ Mint(s) \/ Pick(s) \/ Revoke(s)
    \/ Unique(s) \/ Insert(s) \/ InsertFails(s) \/ Target(s) \/ Deactivate(s)
    \/ Commit(s) \/ DeadlockVictim(s)

Next ==
    \/ \E s \in Session : Begin(s) \/ Statement(s) \/ CommitUnanswered(s) \/ Crash(s)
    \/ Tick
    \/ Finished

Spec == Init /\ [][Next]_vars

\* A statement that can run does run.
FairSpec == Spec /\ \A s \in Session : WF_vars(Statement(s))

-----------------------------------------------------------------------------
(* Properties.                                                             *)

\* No two users share an address, in whatever case they typed it: a login
\* and a key find at most one (get_user_by_email takes the one or fails).
EmailsUnique ==
    \A u, v \in UserId :
        users[u] # NoRow /\ users[v] # NoRow /\ u # v =>
            Lower(users[u].email) # Lower(users[v].email)

\* What an administrator or an owner switched off stays off: no request that
\* read the row before brings a deactivated user or a revoked key back.
SwitchedOffStays ==
    [][/\ \A u \in UserId :
            users[u] # NoRow /\ ~users[u].active => users'[u] # NoRow /\ ~users'[u].active
       /\ \A k \in KeyId :
            keys[k] # NoRow /\ ~keys[k].active => keys'[k] # NoRow /\ ~keys'[k].active]_vars

\* A user's password is the one last set for that user, whatever logins and
\* deactivations run beside the change.
PasswordCurrent == \A u \in UserId : users[u] # NoRow => users[u].password = secret[u]

\* A request made after its user was deactivated, or its key was revoked or
\* had expired, is not carried out, answered or not: with a password, an access
\* token, a refresh token or a key, and with any request in between.
BarredStayOut ==
    \A s \in Session :
        outcome[s] \in {"ok", "unanswered"} => barred[s] = {}

ActiveAdmins == {u \in UserId : users[u] # NoRow /\ users[u].active /\ users[u].admin}

\* The last active administrator is deactivated only by one who has been
\* deactivated since the request began: one administrator alone, in whatever
\* order of requests, always leaves an administrator.
LastAdminByStaleActor ==
    [][ActiveAdmins # {} /\ (ActiveAdmins = {})' =>
         \E s \in Session : /\ req[s].kind = "deactivate" /\ pc[s] = "commit"
                            /\ ~users[me[s]].active]_vars

\* A key's usage_count is never more than the requests carried out with it:
\* one that is refused, or fails half-way, leaves no trace in it.
UsageNotInflated == \A k \in KeyId : keys[k] # NoRow => keys[k].usage =< uses[k]

\* A user who has typed a wrong password MaxFailed times in a row is locked
\* out.  It is refuted: the 401 rolls the counter and the lock back.
LockoutEffective ==
    \A u \in UserId :
        users[u] # NoRow /\ fails[u] >= MaxFailed => users[u].locked # NoTime

\* Every request that has begun ends, also when API keys revoke each other.
Termination == \A s \in Session : Running(s) ~> pc[s] = "done"

=============================================================================
