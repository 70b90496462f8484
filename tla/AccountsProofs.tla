--------------------------- MODULE AccountsProofs ---------------------------
(***************************************************************************)
(* Proofs about Accounts for every set of requests, users, keys and        *)
(* tokens, and every bound.                                                *)
(***************************************************************************)
EXTENDS Accounts, TLAPS

(* Rows never go, so what a client or another row refers to is there.      *)
Known ==
    /\ \A t \in issued : users[t.user] # NoRow
    /\ \A k \in KeyId : keys[k] # NoRow => users[keys[k].user] # NoRow
    /\ \A s \in Session, k \in KeyId :
        ownKeys[s][k] # Untouched => users[ownKeys[s][k].user] # NoRow

(* The statement a request has reached fits its kind and its credential,   *)
(* and the rows that statement writes have been found to exist.            *)
Reached(s) ==
    /\ pc[s] # "start" /\ req[s].by = "token" => token[s] \in issued
    /\ pc[s] = "who" => req[s].by = "token"
    /\ pc[s] \in {"key", "owner", "bump"} => req[s].by = "key" /\ keys[req[s].key] # NoRow
    /\ pc[s] \in {"owner", "bump", "mark", "raise", "enter", "password", "mint", "pick", "revoke"}
        => users[me[s]] # NoRow
    /\ pc[s] \in {"bump", "mark", "enter"} => seen[s] # NoRow
    /\ pc[s] \in {"pick", "revoke"} => req[s].kind = "revoke"
    /\ pc[s] = "revoke" => keys[req[s].target] # NoRow
    /\ pc[s] \in {"target", "deactivate"} => req[s].kind = "deactivate"
    /\ pc[s] = "deactivate" => users[req[s].target] # NoRow
    /\ pc[s] \in {"unique", "insert"} => req[s].kind \in {"create", "startup"}
    /\ pc[s] = "commit" /\ req[s].kind \in {"login", "refresh"} => users[me[s]] # NoRow

TypeInv == TypeOK /\ Known /\ \A s \in Session : Reached(s)

(* What the requests are.                                                  *)
LEMMA RequestType ==
  ASSUME TypeOK, NEW s \in Session
  PROVE  /\ req[s] \in Request
         /\ req[s].kind \in Kind /\ req[s].by \in {"none", "token", "key"}
         /\ req[s].user \in UserId /\ req[s].key \in KeyId
         /\ req[s].email \in Email /\ req[s].password \in Secret
         /\ req[s].remember \in BOOLEAN /\ req[s].admin \in BOOLEAN
         /\ req[s].by = "none" <=> req[s].kind \in {"login", "startup"}
         /\ req[s].kind = "deactivate" => req[s].target \in UserId
         /\ req[s].kind = "revoke" => req[s].target \in KeyId
<1>1. req[s] \in Request
  BY WorkAssumption DEF TypeOK
<1>2. /\ req[s].by = "none" <=> req[s].kind \in {"login", "startup"}
      /\ req[s].kind = "deactivate" => req[s].target \in UserId
      /\ req[s].kind = "revoke" => req[s].target \in KeyId
  BY WorkAssumption DEF TypeOK
<1> QED
  BY <1>1, <1>2 DEF Request

(* The rows a request reads and writes are rows.                           *)
LEMMA RowType ==
  ASSUME TypeOK
  PROVE  /\ \A u \in UserId : users[u] # NoRow => users[u] \in User
         /\ \A k \in KeyId : keys[k] # NoRow => keys[k] \in ApiKey /\ keys[k].user \in UserId
         /\ \A s \in Session, u \in UserId :
              ownUsers[s][u] # Untouched => ownUsers[s][u] \in User /\ ownUsers[s][u] # NoRow
         /\ \A s \in Session, k \in KeyId :
              ownKeys[s][k] # Untouched => /\ ownKeys[s][k] \in ApiKey /\ ownKeys[s][k] # NoRow
                                           /\ ownKeys[s][k].user \in UserId
<1>1. /\ \A u \in UserId : users[u] \in User \cup {NoRow}
      /\ \A k \in KeyId : keys[k] \in ApiKey \cup {NoRow}
      /\ \A s \in Session, u \in UserId : ownUsers[s][u] \in User \cup {Untouched}
      /\ \A s \in Session, k \in KeyId : ownKeys[s][k] \in ApiKey \cup {Untouched}
  BY DEF TypeOK
<1>2. NoRow \notin User /\ NoRow \notin ApiKey
  BY NullsAssumption
<1>3. \A r \in ApiKey : r.user \in UserId
  BY DEF ApiKey
<1> QED
  BY <1>1, <1>2, <1>3

-----------------------------------------------------------------------------
(* What a step does to the tables and to the uncommitted writes: one of    *)
(* five things.                                                            *)

Quiet == UNCHANGED <<tables, ownUsers, ownKeys>>

Drops(s) ==
    /\ UNCHANGED tables
    /\ ownUsers' = [ownUsers EXCEPT ![s] = CleanUsers]
    /\ ownKeys' = [ownKeys EXCEPT ![s] = CleanKeys]

(* The row a session writes from: its own version, or the committed one.   *)
KeyImage(s, k) == IF ownKeys[s][k] = Untouched THEN keys[k] ELSE ownKeys[s][k]

(* A row that exists keeps its address, and stays off when it is off.      *)
WritesUser(s) ==
    /\ UNCHANGED <<tables, ownKeys>>
    /\ \E u \in UserId, r \in User :
        /\ ownUsers' = [ownUsers EXCEPT ![s][u] = r]
        /\ UserHolders(s, u) = {}
        /\ users[u] # NoRow /\ r.email = users[u].email /\ (users[u].active \/ ~r.active)

(* A new row has an address no other row has, committed or not.            *)
AddsUser(s) ==
    /\ UNCHANGED <<tables, ownKeys>>
    /\ pc[s] = "insert" /\ Inserters(s) = {}
    /\ \A u \in UserId : users[u] # NoRow => users[u].email # Lower(req[s].email)
    /\ \E u \in FreeUsers, r \in User :
        /\ ownUsers' = [ownUsers EXCEPT ![s][u] = r]
        /\ r.email = Lower(req[s].email)

WritesKey(s) ==
    /\ UNCHANGED <<tables, ownUsers>>
    /\ \E k \in KeyId, r \in ApiKey :
        /\ ownKeys' = [ownKeys EXCEPT ![s][k] = r]
        /\ KeyHolders(s, k) = {}
        /\ users[r.user] # NoRow
        /\ keys[k] # NoRow =>
            /\ keys[k].active \/ ~r.active
            /\ \E b \in {keys[k], KeyImage(s, k)} : r.user = b.user /\ r.expires = b.expires

(* The two ways a commit is carried out: answered, and not.                *)
Published(s) == Commit(s) \/ CommitUnanswered(s)

Commits(s) ==
    /\ users' = [u \in UserId |->
                   IF ownUsers[s][u] = Untouched THEN users[u] ELSE ownUsers[s][u]]
    /\ keys' = [k \in KeyId |->
                   IF ownKeys[s][k] = Untouched THEN keys[k] ELSE ownKeys[s][k]]
    /\ ownUsers' = [ownUsers EXCEPT ![s] = CleanUsers]
    /\ ownKeys' = [ownKeys EXCEPT ![s] = CleanKeys]

Step ==
    \/ Quiet
    \/ \E s \in Session :
        Drops(s) \/ WritesUser(s) \/ AddsUser(s) \/ WritesKey(s) \/ Commits(s)

(* A request that ends without a commit drops what it wrote.               *)
LEMMA RejectDrops ==
  ASSUME NEW s \in Session, Reject(s)
  PROVE  Drops(s)
BY DEF Reject, End, Drops

(* The row a login writes keeps its address and its state.                 *)
LEMMA LoginWrites ==
  ASSUME TypeInv, NEW s \in Session, Mark(s) \/ Enter(s) \/ ChangePassword(s)
  PROVE  WritesUser(s)
<1> DEFINE u == me[s]
<1>1. u \in UserId /\ users[u] # NoRow /\ users[u] \in User /\ UserHolders(s, u) = {}
  BY RowType DEF TypeInv, TypeOK, Reached, Mark, Enter, ChangePassword
<1>2. UNCHANGED <<tables, ownKeys>>
  BY DEF Mark, Enter, ChangePassword
<1>3. CASE Mark(s)
  <2> DEFINE n == seen[s].attempts + 1
             r == [users[u] EXCEPT !.attempts = n,
                                   !.locked = IF n >= MaxFailed THEN clock + Lockout ELSE @]
  <2>1. seen[s] \in User
    BY <1>3 DEF TypeInv, TypeOK, Reached, Mark
  <2>2. n \in Nat
    BY <2>1 DEF User
  <2>3. clock + Lockout \in Nat
    BY BoundsAssumption DEF TypeInv, TypeOK, Time
  <2>4. r \in User /\ r.email = users[u].email /\ r.active = users[u].active
    <3> HIDE DEF n
    <3> QED
      BY <1>1, <2>2, <2>3 DEF User
  <2>5. ownUsers' = [ownUsers EXCEPT ![s][u] = r]
    BY <1>3 DEF Mark
  <2> QED
    BY <1>1, <1>2, <2>4, <2>5 DEF WritesUser
<1>4. CASE Enter(s)
  <2> DEFINE r == [users[u] EXCEPT !.attempts = IF seen[s].attempts = 0 THEN @ ELSE 0,
                                   !.locked = IF seen[s].locked = NoTime THEN @ ELSE NoTime]
  <2>1. r \in User /\ r.email = users[u].email /\ r.active = users[u].active
    BY <1>1 DEF User
  <2>2. ownUsers' = [ownUsers EXCEPT ![s][u] = r]
    BY <1>4 DEF Enter
  <2> QED
    BY <1>1, <1>2, <2>1, <2>2 DEF WritesUser
<1>5. CASE ChangePassword(s)
  <2> DEFINE r == [users[u] EXCEPT !.password = req[s].password]
  <2>1. r \in User /\ r.email = users[u].email /\ r.active = users[u].active
    BY <1>1, RequestType DEF User, TypeInv
  <2>2. ownUsers' = [ownUsers EXCEPT ![s][u] = r]
    BY <1>5 DEF ChangePassword
  <2> QED
    BY <1>1, <1>2, <2>1, <2>2 DEF WritesUser
<1> QED
  BY <1>3, <1>4, <1>5

(* delete_user writes an existing row, inactive.                           *)
LEMMA DeactivateWrites ==
  ASSUME TypeInv, NEW s \in Session, Deactivate(s)
  PROVE  WritesUser(s)
<1> DEFINE u == req[s].target
           r == [users[u] EXCEPT !.active = FALSE]
<1>1. u \in UserId
  BY RequestType DEF TypeInv, Reached, Deactivate
<1>2. users[u] # NoRow /\ users[u] \in User /\ UserHolders(s, u) = {}
  BY <1>1, RowType DEF TypeInv, Reached, Deactivate
<1>3. r \in User /\ r.email = users[u].email /\ ~r.active
  BY <1>2 DEF User
<1>4. ownUsers' = [ownUsers EXCEPT ![s][u] = r] /\ UNCHANGED <<tables, ownKeys>>
  BY DEF Deactivate
<1> QED
  BY <1>1, <1>2, <1>3, <1>4 DEF WritesUser

(* create_user adds one row, with the address in lower case.               *)
LEMMA InsertAdds ==
  ASSUME TypeInv, NEW s \in Session, Insert(s)
  PROVE  AddsUser(s)
<1> DEFINE u == Some(FreeUsers)
           r == [email |-> Lower(req[s].email), admin |-> req[s].admin,
                 active |-> TRUE, password |-> req[s].password,
                 attempts |-> 0, locked |-> NoTime]
<1>1. u \in FreeUsers
  BY DEF Insert, Some
<1>2. Lower(req[s].email) \in Email
  BY RequestType DEF TypeInv, Lower, Email
<1>3. r \in User
  BY <1>2, RequestType DEF TypeInv, User
<1>4. ownUsers' = [ownUsers EXCEPT ![s][u] = r] /\ UNCHANGED <<tables, ownKeys>>
  BY DEF Insert
<1>5. r.email = Lower(req[s].email)
  OBVIOUS
<1> HIDE DEF u, r
<1> QED
  BY <1>1, <1>3, <1>4, <1>5 DEF AddsUser, Insert

(* Use, creation and revocation write one key, which stays off once off.   *)
LEMMA KeyWrites ==
  ASSUME TypeInv, NEW s \in Session, Mint(s) \/ Revoke(s)
  PROVE  WritesKey(s)
<1>1. CASE Mint(s)
  <2> DEFINE k == Some(FreeKeys)
  <2>1. k \in FreeKeys
    BY <1>1 DEF Mint, Some
  <2>2. PICK e \in {NoTime, clock + 1} :
          ownKeys' = [ownKeys EXCEPT ![s][k] =
                        [user |-> me[s], active |-> TRUE, expires |-> e, usage |-> 0]]
    BY <1>1 DEF Mint
  <2> DEFINE r == [user |-> me[s], active |-> TRUE, expires |-> e, usage |-> 0]
  <2>3. e \in Nat \cup {NoTime}
    BY BoundsAssumption DEF TypeInv, TypeOK, Time
  <2>4. r \in ApiKey
    BY <2>3 DEF ApiKey, TypeInv, TypeOK
  <2>5. users[r.user] # NoRow
    BY <1>1 DEF Mint, TypeInv, Reached
  <2>6. k \in KeyId /\ keys[k] = NoRow /\ KeyHolders(s, k) = {}
    BY <2>1 DEF FreeKeys, KeyHolders
  <2>7. UNCHANGED <<tables, ownUsers>>
    BY <1>1 DEF Mint
  <2> HIDE DEF k, r
  <2>8. ownKeys' = [ownKeys EXCEPT ![s][k] = r]
    BY <2>2 DEF r
  <2> QED
    BY <2>4, <2>5, <2>6, <2>7, <2>8 DEF WritesKey
<1>2. CASE Revoke(s)
  <2> DEFINE k == req[s].target
             b == IF ownKeys[s][k] = Untouched THEN keys[k] ELSE ownKeys[s][k]
             r == [b EXCEPT !.active = FALSE]
  <2>1. k \in KeyId /\ keys[k] # NoRow /\ KeyHolders(s, k) = {}
    BY <1>2, RequestType DEF Revoke, TypeInv, Reached
  <2>2. b \in ApiKey /\ users[b.user] # NoRow
    BY <2>1, RowType DEF TypeInv, Known
  <2>3. r \in ApiKey /\ r.user = b.user /\ r.expires = b.expires /\ ~r.active
    <3> HIDE DEF b
    <3> QED
      BY <2>2 DEF ApiKey
  <2>4. ownKeys' = [ownKeys EXCEPT ![s][k] = r] /\ UNCHANGED <<tables, ownUsers>>
    BY <1>2 DEF Revoke, TypeInv, TypeOK
  <2>5. b = KeyImage(s, k)
    BY DEF KeyImage
  <2> HIDE DEF b, r, k
  <2> QED
    BY <2>1, <2>2, <2>3, <2>4, <2>5 DEF WritesKey
<1> QED
  BY <1>1, <1>2

(* The use of a key is counted in its row, or dropped with the request.    *)
LEMMA BumpWrites ==
  ASSUME TypeInv, NEW s \in Session, Bump(s)
  PROVE  WritesKey(s) \/ Drops(s)
<1>1. CASE Reject(s)
  BY <1>1, RejectDrops
<1>2. CASE ~Reject(s)
  <2> DEFINE k == req[s].key
             r == [keys[k] EXCEPT !.usage = used[s] + 1]
  <2>1. /\ ownKeys' = [ownKeys EXCEPT ![s][k] = r] /\ UNCHANGED <<tables, ownUsers>>
        /\ KeyHolders(s, k) = {} /\ pc[s] = "bump"
    BY <1>2 DEF Bump
  <2>2. k \in KeyId /\ keys[k] # NoRow /\ keys[k] \in ApiKey /\ used[s] \in Nat
    BY <2>1, RequestType, RowType DEF TypeInv, TypeOK, Reached
  <2>3. /\ r \in ApiKey /\ r.user = keys[k].user /\ r.expires = keys[k].expires
        /\ r.active = keys[k].active
    BY <2>2 DEF ApiKey
  <2>4. users[r.user] # NoRow
    BY <2>2, <2>3 DEF TypeInv, Known
  <2> HIDE DEF k, r
  <2> QED
    BY <2>1, <2>2, <2>3, <2>4 DEF WritesKey
<1> QED
  BY <1>1, <1>2

(* Every step is one of the five.                                          *)
LEMMA StatementSteps ==
  ASSUME TypeInv, [Next]_vars
  PROVE  Step
<1>1. ASSUME NEW s \in Session, Begin(s)
      PROVE  Quiet \/ Drops(s)
  BY <1>1, RejectDrops DEF Begin, Go, Quiet, owned
<1>2. ASSUME NEW s \in Session,
             Who(s) \/ Key(s) \/ Owner(s) \/ Lookup(s) \/ Raise(s) \/ Pick(s) \/ Unique(s) \/ Target(s)
      PROVE  Quiet \/ Drops(s)
  BY <1>2, RejectDrops DEF Who, Key, Owner, Lookup, Raise, Pick, Unique, Target, Go, Quiet, owned
<1>3. ASSUME NEW s \in Session, InsertFails(s) \/ DeadlockVictim(s) \/ Crash(s)
      PROVE  Drops(s)
  BY <1>3 DEF InsertFails, DeadlockVictim, Crash, End, Drops
<1>4. ASSUME NEW s \in Session, Published(s)
      PROVE  Commits(s)
  BY <1>4 DEF Published, Commit, CommitUnanswered, Publish, Commits, End
<1>5. ASSUME Tick \/ Finished \/ UNCHANGED vars
      PROVE  Quiet
  BY <1>5 DEF Tick, Finished, Quiet, vars, owned, tables
<1> QED
  BY <1>1, <1>2, <1>3, <1>4, <1>5, LoginWrites, DeactivateWrites, InsertAdds, KeyWrites, BumpWrites
     DEF Next, Statement, Published, Step

-----------------------------------------------------------------------------
(* Types.                                                                  *)

RowsStay ==
    /\ \A u \in UserId : users[u] # NoRow => users'[u] # NoRow
    /\ \A k \in KeyId : keys[k] # NoRow => keys'[k] # NoRow

(* The tables and the uncommitted writes keep their types, and rows stay.  *)
LEMMA StepTypes ==
  ASSUME TypeInv, Step
  PROVE  /\ users' \in [UserId -> User \cup {NoRow}]
         /\ keys' \in [KeyId -> ApiKey \cup {NoRow}]
         /\ ownUsers' \in [Session -> [UserId -> User \cup {Untouched}]]
         /\ ownKeys' \in [Session -> [KeyId -> ApiKey \cup {Untouched}]]
         /\ RowsStay
<1> USE DEF TypeInv, TypeOK
<1>1. CASE Quiet
  BY <1>1 DEF Quiet, tables, RowsStay
<1>2. ASSUME NEW s \in Session, Drops(s)
      PROVE  /\ UNCHANGED tables
             /\ ownUsers' \in [Session -> [UserId -> User \cup {Untouched}]]
             /\ ownKeys' \in [Session -> [KeyId -> ApiKey \cup {Untouched}]]
  BY <1>2 DEF Drops, CleanUsers, CleanKeys
<1>3. ASSUME NEW s \in Session, WritesUser(s) \/ AddsUser(s)
      PROVE  /\ UNCHANGED <<tables, ownKeys>>
             /\ ownUsers' \in [Session -> [UserId -> User \cup {Untouched}]]
  <2>1. UNCHANGED <<tables, ownKeys>>
    BY <1>3 DEF WritesUser, AddsUser
  <2>2. PICK u \in UserId, r \in User : ownUsers' = [ownUsers EXCEPT ![s][u] = r]
    BY <1>3 DEF WritesUser, AddsUser, FreeUsers
  <2>3. [ownUsers[s] EXCEPT ![u] = r] \in [UserId -> User \cup {Untouched}]
    OBVIOUS
  <2>4. ownUsers' = [ownUsers EXCEPT ![s] = [ownUsers[s] EXCEPT ![u] = r]]
    BY <2>2
  <2> QED
    BY <2>1, <2>3, <2>4
<1>4. ASSUME NEW s \in Session, WritesKey(s)
      PROVE  /\ UNCHANGED <<tables, ownUsers>>
             /\ ownKeys' \in [Session -> [KeyId -> ApiKey \cup {Untouched}]]
  <2>1. PICK k \in KeyId, r \in ApiKey : ownKeys' = [ownKeys EXCEPT ![s][k] = r]
    BY <1>4 DEF WritesKey
  <2>2. [ownKeys[s] EXCEPT ![k] = r] \in [KeyId -> ApiKey \cup {Untouched}]
    OBVIOUS
  <2>3. ownKeys' = [ownKeys EXCEPT ![s] = [ownKeys[s] EXCEPT ![k] = r]]
    BY <2>1
  <2> QED
    BY <1>4, <2>2, <2>3 DEF WritesKey
<1>5. ASSUME NEW s \in Session, Commits(s)
      PROVE  /\ users' \in [UserId -> User \cup {NoRow}]
             /\ keys' \in [KeyId -> ApiKey \cup {NoRow}]
             /\ ownUsers' \in [Session -> [UserId -> User \cup {Untouched}]]
             /\ ownKeys' \in [Session -> [KeyId -> ApiKey \cup {Untouched}]]
             /\ RowsStay
  <2>1. /\ \A u \in UserId : users'[u] = IF ownUsers[s][u] = Untouched THEN users[u] ELSE ownUsers[s][u]
        /\ \A k \in KeyId : keys'[k] = IF ownKeys[s][k] = Untouched THEN keys[k] ELSE ownKeys[s][k]
    BY <1>5 DEF Commits
  <2>2. RowsStay
    BY <2>1, RowType DEF RowsStay
  <2>3. /\ users' \in [UserId -> User \cup {NoRow}]
        /\ keys' \in [KeyId -> ApiKey \cup {NoRow}]
    BY <1>5, RowType DEF Commits
  <2>4. /\ ownUsers' \in [Session -> [UserId -> User \cup {Untouched}]]
        /\ ownKeys' \in [Session -> [KeyId -> ApiKey \cup {Untouched}]]
    BY <1>5 DEF Commits, CleanUsers, CleanKeys
  <2> QED
    BY <2>2, <2>3, <2>4
<1> QED
  BY <1>1, <1>2, <1>3, <1>4, <1>5 DEF Step, tables, RowsStay

(* What refers to a user refers to one who exists.                         *)
LEMMA StepKnown ==
  ASSUME TypeInv, Step, \A t \in issued' : users'[t.user] # NoRow
  PROVE  Known'
<1> SUFFICES /\ \A k \in KeyId : keys'[k] # NoRow => users'[keys'[k].user] # NoRow
             /\ \A t \in Session, k \in KeyId :
                  ownKeys'[t][k] # Untouched => users'[ownKeys'[t][k].user] # NoRow
  BY DEF Known
<1> USE DEF TypeInv
<1>1. RowsStay
  BY StepTypes
<1>2. /\ \A k \in KeyId : keys[k] # NoRow => users'[keys[k].user] # NoRow
      /\ \A t \in Session, k \in KeyId :
            ownKeys[t][k] # Untouched => users'[ownKeys[t][k].user] # NoRow
  BY <1>1, RowType DEF RowsStay, Known
<1>3. CASE Quiet
  BY <1>2, <1>3 DEF Quiet, tables
<1>4. ASSUME NEW s \in Session, Drops(s) \/ Commits(s)
      PROVE  \A t \in Session, k \in KeyId : ownKeys'[t][k] \in {ownKeys[t][k], Untouched}
  <2>1. ownKeys' = [ownKeys EXCEPT ![s] = CleanKeys] /\ ownKeys \in [Session -> [KeyId -> ApiKey \cup {Untouched}]]
    BY <1>4 DEF Drops, Commits, TypeOK
  <2>2. \A t \in Session : ownKeys'[t] = IF t = s THEN CleanKeys ELSE ownKeys[t]
    BY <2>1
  <2> QED
    BY <2>2 DEF CleanKeys
<1>5. ASSUME NEW s \in Session, Drops(s)
      PROVE  keys' = keys
  BY <1>5 DEF Drops, tables
<1>6. ASSUME NEW s \in Session, Commits(s)
      PROVE  \A k \in KeyId : keys'[k] = IF ownKeys[s][k] = Untouched THEN keys[k] ELSE ownKeys[s][k]
  BY <1>6 DEF Commits
<1>7. ASSUME NEW s \in Session, WritesUser(s) \/ AddsUser(s)
      PROVE  keys' = keys /\ ownKeys' = ownKeys
  BY <1>7 DEF WritesUser, AddsUser, tables
<1>8. ASSUME NEW s \in Session, WritesKey(s)
      PROVE  /\ keys' = keys
             /\ \A t \in Session, k \in KeyId :
                  ownKeys'[t][k] # Untouched => users'[ownKeys'[t][k].user] # NoRow
  <2>1. PICK k \in KeyId, r \in ApiKey : ownKeys' = [ownKeys EXCEPT ![s][k] = r] /\ users[r.user] # NoRow
    BY <1>8 DEF WritesKey
  <2>2. users' = users /\ keys' = keys
    BY <1>8 DEF WritesKey, tables
  <2>3. \A t \in Session, l \in KeyId :
            ownKeys'[t][l] = IF t = s /\ l = k THEN r ELSE ownKeys[t][l]
    BY <2>1 DEF TypeOK
  <2> QED
    BY <1>2, <2>1, <2>2, <2>3
<1> QED
  BY <1>2, <1>3, <1>4, <1>5, <1>6, <1>7, <1>8 DEF Step

(* A request keeps its place while another one makes a step.               *)
LEMMA OthersKeep ==
  ASSUME TypeInv, NEW t \in Session, RowsStay, issued \subseteq issued', req' = req,
         pc'[t] = pc[t], token'[t] = token[t], me'[t] = me[t], seen'[t] = seen[t]
  PROVE  Reached(t)'
<1>1. Reached(t) /\ me[t] \in UserId
  BY DEF TypeInv, TypeOK
<1>2. /\ req[t].key \in KeyId
      /\ req[t].kind = "deactivate" => req[t].target \in UserId
      /\ req[t].kind = "revoke" => req[t].target \in KeyId
  BY RequestType DEF TypeInv
<1> QED
  BY <1>1, <1>2 DEF Reached, RowsStay

(* The types of everything but the tables and the uncommitted writes.      *)
Rest ==
    /\ issued   \subseteq Token
    /\ clock    \in Time
    /\ faults   \in 0 .. MaxFaults
    /\ req      \in Workloads
    /\ token    \in [Session -> Token \cup {NoToken}]
    /\ me       \in [Session -> UserId]
    /\ seen     \in [Session -> User \cup {NoRow}]
    /\ used     \in [Session -> Nat]
    /\ pc       \in [Session -> Location]
    /\ outcome  \in [Session -> {"none", "ok", "unanswered", "rejected", "failed"}]
    /\ barred   \in [Session -> SUBSET Reason]
    /\ fails    \in [UserId -> Nat]
    /\ uses     \in [KeyId -> Nat]
    /\ secret   \in [UserId -> Secret \cup {NoRow}]

(* What a step of session s that issues no token leaves alone.             *)
Alone(s) ==
    /\ UNCHANGED <<issued, req>>
    /\ \A t \in Session \ {s} : /\ pc'[t] = pc[t] /\ token'[t] = token[t]
                                /\ me'[t] = me[t] /\ seen'[t] = seen[t]

(* Such a step is type correct when it is so for its own session.          *)
Fine(s) == Rest' /\ Alone(s) /\ Reached(s)'

(* A request that goes on.                                                 *)
LEMMA GotoType ==
  ASSUME TypeInv, NEW s \in Session, NEW l \in Location, Goto(s, l)
  PROVE  /\ pc' \in [Session -> Location] /\ pc'[s] = l
         /\ \A t \in Session \ {s} : pc'[t] = pc[t]
BY DEF Goto, TypeInv, TypeOK

(* The same, for a statement that leaves the database alone.               *)
LEMMA GoType ==
  ASSUME TypeInv, NEW s \in Session, NEW l \in Location, Go(s, l)
  PROVE  /\ pc' \in [Session -> Location] /\ pc'[s] = l
         /\ \A t \in Session \ {s} : pc'[t] = pc[t]
         /\ UNCHANGED <<tables, outcome, uses>>
BY GotoType DEF Go

(* A request that ends.                                                    *)
LEMMA EndType ==
  ASSUME TypeInv, NEW s \in Session, NEW o \in {"ok", "unanswered", "rejected", "failed"}, End(s, o)
  PROVE  /\ pc' \in [Session -> Location] /\ pc'[s] = "done"
         /\ \A t \in Session \ {s} : pc'[t] = pc[t]
         /\ outcome' \in [Session -> {"none", "ok", "unanswered", "rejected", "failed"}]
<1>1. "done" \in Location
  BY DEF Location
<1>2. Goto(s, "done") /\ outcome' = [outcome EXCEPT ![s] = o]
  BY DEF End
<1> QED
  BY <1>1, <1>2, GotoType DEF TypeInv, TypeOK

(* A request that is refused.                                              *)
LEMMA RejectType ==
  ASSUME TypeInv, NEW s \in Session, Reject(s)
  PROVE  /\ pc' \in [Session -> Location] /\ pc'[s] = "done"
         /\ \A t \in Session \ {s} : pc'[t] = pc[t]
         /\ outcome' \in [Session -> {"none", "ok", "unanswered", "rejected", "failed"}]
         /\ UNCHANGED <<tables, uses>>
BY EndType DEF Reject

(* Decoding the credential.                                                *)
LEMMA BeginType ==
  ASSUME TypeInv, NEW s \in Session, Begin(s)
  PROVE  Fine(s)
<1> USE DEF TypeInv, TypeOK
<1>0. /\ UNCHANGED <<issued, clock, faults, req, me, seen, used, fails, secret>>
      /\ pc[s] = "start"
  BY DEF Begin
<1>1. /\ \A u \in UserId : UserBars(u) \subseteq Reason
      /\ \A t \in Token : UserBars(t.user) \subseteq Reason
      /\ \A k \in KeyId : KeyBars(k) \subseteq Reason
  BY DEF UserBars, KeyBars, Reason
<1>2. CASE req[s].by = "none"
  <2> DEFINE l == IF req[s].kind = "login" THEN "lookup" ELSE "unique"
             b == IF req[s].kind = "login"
                  THEN UNION {UserBars(u) : u \in Matches(req[s].email)} ELSE {}
  <2>1. /\ Go(s, l) /\ UNCHANGED token
        /\ barred' = [barred EXCEPT ![s] = b]
    BY <1>2 DEF Begin
  <2>2. l \in {"lookup", "unique"} /\ l \in Location /\ (l = "unique" => req[s].kind = "startup")
    BY <1>2, RequestType DEF Location
  <2>3. b \subseteq Reason
    BY <1>1 DEF Matches
  <2>4. barred' \in [Session -> SUBSET Reason]
    BY <2>1, <2>3
  <2> HIDE DEF l
  <2>5. /\ pc' \in [Session -> Location] /\ pc'[s] = l /\ UNCHANGED <<tables, outcome, uses>>
        /\ \A t \in Session \ {s} : pc'[t] = pc[t]
    BY <2>1, <2>2, GoType
  <2>6. Rest' /\ Alone(s)
    BY <1>0, <2>1, <2>4, <2>5 DEF Rest, Alone
  <2>7. Reached(s)'
    BY <1>0, <1>2, <2>2, <2>5 DEF Reached
  <2> QED
    BY <2>6, <2>7 DEF Fine
<1>3. CASE req[s].by = "token"
  <2>1. PICK t \in issued :
          /\ token' = [token EXCEPT ![s] = t]
          /\ barred' = [barred EXCEPT ![s] = UserBars(t.user)]
          /\ Go(s, "who") \/ Reject(s)
    BY <1>3 DEF Begin
  <2>2. barred' \in [Session -> SUBSET Reason] /\ token' \in [Session -> Token \cup {NoToken}]
    BY <1>1, <2>1
  <2>3. "who" \in Location
    BY DEF Location
  <2>4. /\ pc' \in [Session -> Location] /\ pc'[s] \in {"who", "done"} /\ UNCHANGED <<tables, uses>>
        /\ \A u \in Session \ {s} : pc'[u] = pc[u]
        /\ outcome' \in [Session -> {"none", "ok", "unanswered", "rejected", "failed"}]
    BY <2>1, <2>3, GoType, RejectType
  <2>5. Rest' /\ Alone(s)
    BY <1>0, <2>1, <2>2, <2>4 DEF Rest, Alone
  <2>6. Reached(s)'
    BY <1>0, <1>3, <2>1, <2>4 DEF Reached
  <2> QED
    BY <2>5, <2>6 DEF Fine
<1>4. CASE req[s].by = "key"
  <2>1. /\ Go(s, "key") /\ UNCHANGED token /\ keys[req[s].key] # NoRow
        /\ barred' = [barred EXCEPT ![s] = KeyBars(req[s].key)]
    BY <1>4 DEF Begin
  <2>2. barred' \in [Session -> SUBSET Reason]
    BY <1>1, <2>1, RequestType
  <2>3. "key" \in Location
    BY DEF Location
  <2>4. /\ pc' \in [Session -> Location] /\ pc'[s] = "key" /\ UNCHANGED <<tables, outcome, uses>>
        /\ \A t \in Session \ {s} : pc'[t] = pc[t]
    BY <2>1, <2>3, GoType
  <2>5. Rest' /\ Alone(s)
    BY <1>0, <2>1, <2>2, <2>4 DEF Rest, Alone
  <2>6. Reached(s)'
    BY <1>0, <1>4, <2>1, <2>4 DEF Reached, tables
  <2> QED
    BY <2>5, <2>6 DEF Fine
<1> QED
  BY <1>2, <1>3, <1>4, RequestType

(* The statement an admitted request starts with fits its kind.            *)
LEMMA FirstFits ==
  ASSUME NEW kind \in Kind
  PROVE  /\ First(kind) \in {"password", "mint", "pick", "unique", "target", "commit"}
         /\ First(kind) \in Location
         /\ First(kind) = "pick" => kind = "revoke"
         /\ First(kind) = "target" => kind = "deactivate"
         /\ First(kind) = "unique" => kind = "create"
BY DEF First, Kind, Location

(* Reading the user of a token.                                            *)
LEMMA WhoType ==
  ASSUME TypeInv, NEW s \in Session, Who(s)
  PROVE  Fine(s)
<1> USE DEF TypeInv, TypeOK
<1> DEFINE u == token[s].user
<1>0. /\ UNCHANGED <<issued, clock, faults, req, barred, token, used, fails, secret>>
      /\ pc[s] = "who"
      /\ me' = [me EXCEPT ![s] = u] /\ seen' = [seen EXCEPT ![s] = users[u]]
  BY DEF Who, env
<1>1. token[s] \in issued /\ u \in UserId /\ users[u] # NoRow /\ req[s].by = "token"
  BY <1>0 DEF Reached, Token, Known
<1>2. Go(s, First(req[s].kind)) \/ Reject(s)
  BY DEF Who
<1>3. /\ me' \in [Session -> UserId] /\ seen' \in [Session -> User \cup {NoRow}]
      /\ me'[s] = u /\ seen'[s] = users[u]
  BY <1>0, <1>1
<1>4. /\ pc' \in [Session -> Location] /\ pc'[s] \in {First(req[s].kind), "done"}
      /\ UNCHANGED <<tables, uses>>
      /\ \A t \in Session \ {s} : pc'[t] = pc[t]
      /\ outcome' \in [Session -> {"none", "ok", "unanswered", "rejected", "failed"}]
  BY <1>2, FirstFits, RequestType, GoType, RejectType
<1>5. Rest' /\ Alone(s)
  BY <1>0, <1>3, <1>4 DEF Rest, Alone
<1>6. Reached(s)'
  <2>1. req[s].kind # "login" /\ req[s].by = "token"
    BY <1>1, RequestType
  <2>2. users' = users /\ users'[me'[s]] # NoRow
    BY <1>1, <1>3, <1>4 DEF tables
  <2> QED
    BY <1>0, <1>1, <1>4, <2>1, <2>2, FirstFits, RequestType DEF Reached
<1> QED
  BY <1>5, <1>6 DEF Fine

(* Reading a key, and then its owner.                                      *)
LEMMA KeyType ==
  ASSUME TypeInv, NEW s \in Session, Key(s) \/ Owner(s)
  PROVE  Fine(s)
<1> USE DEF TypeInv, TypeOK
<1>0. /\ UNCHANGED <<issued, clock, faults, req, barred, token, fails, secret>>
      /\ pc[s] \in {"key", "owner"}
  BY DEF Key, Owner, env
<1>1. /\ req[s].by = "key" /\ req[s].key \in KeyId
      /\ keys[req[s].key] # NoRow /\ keys[req[s].key] \in ApiKey
      /\ keys[req[s].key].usage \in Nat /\ keys[req[s].key].user \in UserId
      /\ users[keys[req[s].key].user] # NoRow
  BY <1>0, RequestType, RowType DEF Reached, Known, ApiKey
<1>2. /\ "owner" \in Location /\ "bump" \in Location
  BY DEF Location
<1>3. CASE Key(s)
  <2>1. /\ used' = [used EXCEPT ![s] = keys[req[s].key].usage]
        /\ me' = [me EXCEPT ![s] = keys[req[s].key].user] /\ UNCHANGED seen
        /\ Go(s, "owner") \/ Reject(s)
    BY <1>3 DEF Key
  <2>2. used' \in [Session -> Nat] /\ me' \in [Session -> UserId] /\ me'[s] = keys[req[s].key].user
    BY <1>1, <2>1
  <2>3. /\ pc' \in [Session -> Location] /\ pc'[s] \in {"owner", "done"} /\ UNCHANGED <<tables, uses>>
        /\ \A t \in Session \ {s} : pc'[t] = pc[t]
        /\ outcome' \in [Session -> {"none", "ok", "unanswered", "rejected", "failed"}]
    BY <1>2, <2>1, GoType, RejectType
  <2>4. Rest' /\ Alone(s)
    BY <1>0, <2>1, <2>2, <2>3 DEF Rest, Alone
  <2>5. Reached(s)'
    BY <1>0, <1>1, <2>2, <2>3 DEF Reached, tables
  <2> QED
    BY <2>4, <2>5 DEF Fine
<1>4. CASE Owner(s)
  <2>1. /\ seen' = [seen EXCEPT ![s] = users[me[s]]] /\ UNCHANGED <<me, used>>
        /\ Go(s, "bump") \/ Reject(s)
        /\ pc[s] = "owner"
    BY <1>4 DEF Owner
  <2>2. seen' \in [Session -> User \cup {NoRow}] /\ seen'[s] = users[me[s]] /\ users[me[s]] # NoRow
    BY <2>1 DEF Reached
  <2>3. /\ pc' \in [Session -> Location] /\ pc'[s] \in {"bump", "done"} /\ UNCHANGED <<tables, uses>>
        /\ \A t \in Session \ {s} : pc'[t] = pc[t]
        /\ outcome' \in [Session -> {"none", "ok", "unanswered", "rejected", "failed"}]
    BY <1>2, <2>1, GoType, RejectType
  <2>4. Rest' /\ Alone(s)
    BY <1>0, <2>1, <2>2, <2>3 DEF Rest, Alone
  <2>5. Reached(s)'
    BY <1>0, <1>1, <2>1, <2>2, <2>3 DEF Reached, tables
  <2> QED
    BY <2>4, <2>5 DEF Fine
<1> QED
  BY <1>3, <1>4

(* Looking the user of a login up.                                         *)
LEMMA LookupType ==
  ASSUME TypeInv, NEW s \in Session, Lookup(s)
  PROVE  Fine(s)
<1> USE DEF TypeInv, TypeOK
<1>0. /\ UNCHANGED <<issued, clock, faults, req, barred, token, used, fails, secret>>
      /\ pc[s] = "lookup"
  BY DEF Lookup, env
<1>1. CASE Reject(s) /\ UNCHANGED <<me, seen>>
  <2>1. /\ pc' \in [Session -> Location] /\ pc'[s] = "done" /\ UNCHANGED <<tables, uses>>
        /\ \A t \in Session \ {s} : pc'[t] = pc[t]
        /\ outcome' \in [Session -> {"none", "ok", "unanswered", "rejected", "failed"}]
    BY <1>1, RejectType
  <2>2. Rest' /\ Alone(s)
    BY <1>0, <1>1, <2>1 DEF Rest, Alone
  <2>3. Reached(s)'
    BY <1>0, <2>1 DEF Reached
  <2> QED
    BY <2>2, <2>3 DEF Fine
<1>2. CASE ~(Reject(s) /\ UNCHANGED <<me, seen>>)
  <2>1. PICK u \in Matches(req[s].email) :
          /\ me' = [me EXCEPT ![s] = u]
          /\ seen' = [seen EXCEPT ![s] = users[u]]
          /\ Reject(s) \/ Go(s, "enter") \/ Go(s, "mark")
    BY <1>2 DEF Lookup
  <2>2. /\ u \in UserId /\ users[u] # NoRow
        /\ me' \in [Session -> UserId] /\ seen' \in [Session -> User \cup {NoRow}]
        /\ me'[s] = u /\ seen'[s] = users[u]
    BY <2>1 DEF Matches
  <2>3. "enter" \in Location /\ "mark" \in Location
    BY DEF Location
  <2>4. /\ pc' \in [Session -> Location] /\ pc'[s] \in {"enter", "mark", "done"} /\ UNCHANGED <<tables, uses>>
        /\ \A t \in Session \ {s} : pc'[t] = pc[t]
        /\ outcome' \in [Session -> {"none", "ok", "unanswered", "rejected", "failed"}]
    BY <2>1, <2>3, GoType, RejectType
  <2>5. Rest' /\ Alone(s)
    BY <1>0, <2>1, <2>2, <2>4 DEF Rest, Alone
  <2>6. Reached(s)'
    BY <1>0, <2>2, <2>4 DEF Reached, tables
  <2> QED
    BY <2>5, <2>6 DEF Fine
<1> QED
  BY <1>1, <1>2

(* The reads before a change, and the answer to a wrong password.          *)
LEMMA ReadType ==
  ASSUME TypeInv, NEW s \in Session, Raise(s) \/ Pick(s) \/ Unique(s) \/ Target(s)
  PROVE  Fine(s)
<1> USE DEF TypeInv, TypeOK
<1>0. /\ UNCHANGED <<issued, clock, faults, req, barred, token, me, seen, used, secret>>
      /\ pc[s] \in {"raise", "pick", "unique", "target"}
  BY DEF Raise, Pick, Unique, Target, env, locals
<1>1. fails' \in [UserId -> Nat]
  <2>1. CASE fails' = [fails EXCEPT ![me[s]] = @ + 1]
    BY <2>1
  <2>2. CASE fails' = fails
    BY <2>2
  <2> QED
    BY <2>1, <2>2 DEF Raise, Pick, Unique, Target
<1>2. PICK l \in {"revoke", "commit", "insert", "deactivate", "done"} :
        /\ Reject(s) \/ Go(s, l)
        /\ Reject(s) => l = "done"
        /\ l = "revoke" => pc[s] = "pick" /\ keys[req[s].target] # NoRow
        /\ l = "insert" => pc[s] = "unique"
        /\ l = "deactivate" => pc[s] = "target" /\ users[req[s].target] # NoRow
        /\ l = "commit" => pc[s] # "raise"
  <2>1. CASE Reject(s)
    BY <2>1
  <2>2. CASE ~Reject(s)
    BY <2>2 DEF Raise, Pick, Unique, Target, Owns
  <2> QED
    BY <2>1, <2>2
<1>3. l \in Location
  BY DEF Location
<1>4. /\ pc' \in [Session -> Location] /\ pc'[s] = l /\ UNCHANGED <<tables, uses>>
      /\ \A t \in Session \ {s} : pc'[t] = pc[t]
      /\ outcome' \in [Session -> {"none", "ok", "unanswered", "rejected", "failed"}]
  BY <1>2, <1>3, GoType, RejectType
<1>5. Rest' /\ Alone(s)
  BY <1>0, <1>1, <1>4 DEF Rest, Alone
<1>6. Reached(s)'
  BY <1>0, <1>2, <1>4 DEF Reached, tables
<1> QED
  BY <1>5, <1>6 DEF Fine

(* The statements that write.                                              *)
LEMMA WriteType ==
  ASSUME TypeInv, NEW s \in Session,
         \/ Mark(s) \/ Enter(s) \/ ChangePassword(s) \/ Mint(s)
         \/ Revoke(s) \/ Insert(s) \/ Deactivate(s)
  PROVE  Fine(s)
<1> USE DEF TypeInv, TypeOK
<1>1. UNCHANGED <<tables, issued, clock, faults, req, barred, token, me, seen, used, outcome,
                  fails, uses, secret>>
  BY DEF Mark, Enter, ChangePassword, Mint, Revoke, Insert, Deactivate, env, locals, past
<1>2. PICK l \in {"raise", "commit"} :
        Goto(s, l) /\ (l = "raise" => pc[s] = "mark")
  BY DEF Mark, Enter, ChangePassword, Mint, Revoke, Insert, Deactivate
<1>3. l \in Location
  BY DEF Location
<1>4. /\ pc' \in [Session -> Location] /\ pc'[s] = l
      /\ \A t \in Session \ {s} : pc'[t] = pc[t]
  BY <1>2, <1>3, GotoType
<1>5. pc[s] \in {"mark", "enter", "password", "mint", "revoke", "insert", "deactivate"}
  BY DEF Mark, Enter, ChangePassword, Mint, Revoke, Insert, Deactivate
<1>6. Rest' /\ Alone(s)
  BY <1>1, <1>4 DEF Rest, Alone
<1>7. Reached(s)'
  BY <1>1, <1>2, <1>4, <1>5 DEF Reached, tables
<1> QED
  BY <1>6, <1>7 DEF Fine

(* Counting the use of a key, and admitting the request.                   *)
LEMMA BumpType ==
  ASSUME TypeInv, NEW s \in Session, Bump(s)
  PROVE  Fine(s)
<1> USE DEF TypeInv, TypeOK
<1>1. /\ UNCHANGED <<issued, clock, faults, req, barred, token, me, seen, used, fails, secret>>
      /\ pc[s] = "bump"
  BY DEF Bump, env, locals
<1>2. req[s].by = "key" /\ users[me[s]] # NoRow /\ req[s].kind # "login"
  BY <1>1, RequestType DEF Reached
<1>3. /\ pc' \in [Session -> Location] /\ pc'[s] \in {First(req[s].kind), "done"}
      /\ \A t \in Session \ {s} : pc'[t] = pc[t]
      /\ outcome' \in [Session -> {"none", "ok", "unanswered", "rejected", "failed"}]
      /\ UNCHANGED <<tables, uses>>
  <2>1. CASE Reject(s)
    BY <2>1, RejectType
  <2>2. CASE ~Reject(s)
    BY <2>2, FirstFits, RequestType, GotoType DEF Bump
  <2> QED
    BY <2>1, <2>2
<1>4. Rest' /\ Alone(s)
  BY <1>1, <1>3 DEF Rest, Alone
<1>5. Reached(s)'
  BY <1>1, <1>2, <1>3, FirstFits, RequestType DEF Reached, tables
<1> QED
  BY <1>4, <1>5 DEF Fine

(* The ways to fail.                                                       *)
LEMMA FailType ==
  ASSUME TypeInv, NEW s \in Session, InsertFails(s) \/ DeadlockVictim(s) \/ Crash(s)
  PROVE  Fine(s)
<1> USE DEF TypeInv, TypeOK
<1>1. /\ UNCHANGED <<tables, issued, clock, req, barred, token, me, seen, used, fails, uses, secret>>
      /\ End(s, "failed")
  BY DEF InsertFails, DeadlockVictim, Crash, env, locals, past
<1>2. faults' \in 0 .. MaxFaults
  BY BoundsAssumption DEF InsertFails, DeadlockVictim, Crash, env
<1>3. /\ pc' \in [Session -> Location] /\ pc'[s] = "done"
      /\ \A t \in Session \ {s} : pc'[t] = pc[t]
      /\ outcome' \in [Session -> {"none", "ok", "unanswered", "rejected", "failed"}]
  BY <1>1, EndType
<1>4. Rest' /\ Alone(s)
  BY <1>1, <1>2, <1>3 DEF Rest, Alone
<1>5. pc[s] # "start"
  BY <1>1 DEF InsertFails, DeadlockVictim, Deadlocked, BlockedBy, Crash, Running
<1>6. Reached(s)'
  BY <1>1, <1>3, <1>5 DEF Reached
<1> QED
  BY <1>4, <1>6 DEF Fine

(* Committing, and answering with tokens.                                  *)
LEMMA CommitType ==
  ASSUME TypeInv, NEW s \in Session, Published(s)
  PROVE  /\ Rest' /\ issued \subseteq issued' /\ req' = req
         /\ \A t \in issued' : users'[t.user] # NoRow
         /\ \A t \in Session \ {s} : /\ pc'[t] = pc[t] /\ token'[t] = token[t]
                                     /\ me'[t] = me[t] /\ seen'[t] = seen[t]
         /\ Reached(s)'
<1> USE DEF TypeInv, TypeOK
<1>1. /\ UNCHANGED <<clock, req, barred, token, me, seen, used>>
      /\ pc[s] = "commit" /\ \E o \in {"ok", "unanswered"} : End(s, o)
      /\ issued' = issued \cup Answer(s) \/ issued' = issued
  BY DEF Published, Commit, CommitUnanswered, Publish, locals
<1>12. faults' \in 0 .. MaxFaults
  BY BoundsAssumption DEF Published, Commit, CommitUnanswered
<1>2. RowsStay
  <2>1. Commits(s)
    BY DEF Published, Commit, CommitUnanswered, Publish, Commits, End
  <2> QED
    BY <2>1, StepTypes DEF Step
<1>3. Answer(s) \subseteq Token /\ \A t \in Answer(s) : users[t.user] # NoRow
  <2> DEFINE life == IF req[s].remember THEN LongLife ELSE ShortLife
             longer == IF req[s].remember THEN 2 * LongLife ELSE LongLife
  <2>1. clock + life \in Nat /\ clock + longer \in Nat /\ clock + ShortLife \in Nat
    BY BoundsAssumption DEF Time
  <2>2. CASE req[s].kind = "login"
    <3>1. Answer(s) = {[user |-> me[s], type |-> "access", expires |-> clock + life],
                       [user |-> me[s], type |-> "refresh", expires |-> clock + longer]}
      BY <2>2 DEF Answer
    <3>2. me[s] \in UserId /\ users[me[s]] # NoRow
      BY <1>1, <2>2 DEF Reached
    <3> HIDE DEF life, longer
    <3> QED
      BY <2>1, <3>1, <3>2 DEF Token
  <2>3. CASE req[s].kind = "refresh"
    <3>1. Answer(s) = {[user |-> me[s], type |-> "access", expires |-> clock + ShortLife]}
      BY <2>3 DEF Answer
    <3>2. me[s] \in UserId /\ users[me[s]] # NoRow
      BY <1>1, <2>3 DEF Reached
    <3> QED
      BY <2>1, <3>1, <3>2 DEF Token
  <2>4. CASE req[s].kind \notin {"login", "refresh"}
    BY <2>4 DEF Answer
  <2> QED
    BY <2>2, <2>3, <2>4
<1>4. /\ issued' \subseteq Token /\ issued \subseteq issued'
      /\ \A t \in issued' : users'[t.user] # NoRow
  <2>1. \A t \in Token : t.user \in UserId
    BY DEF Token
  <2> QED
    BY <1>1, <1>2, <1>3, <2>1 DEF Known, RowsStay
<1>6. /\ pc' \in [Session -> Location] /\ pc'[s] = "done"
      /\ \A t \in Session \ {s} : pc'[t] = pc[t]
      /\ outcome' \in [Session -> {"none", "ok", "unanswered", "rejected", "failed"}]
  BY <1>1, EndType
<1>7. fails' \in [UserId -> Nat]
  <2>1. fails' = [fails EXCEPT ![me[s]] = 0] \/ fails' = fails
    BY DEF Published, Commit, CommitUnanswered
  <2>2. fails \in [UserId -> Nat] /\ 0 \in Nat
    OBVIOUS
  <2>3. [fails EXCEPT ![me[s]] = 0] \in [UserId -> Nat]
    BY <2>2
  <2> QED
    BY <2>1, <2>2, <2>3
<1>8. uses' \in [KeyId -> Nat]
  <2>1. uses' = IF req[s].by = "key" THEN [uses EXCEPT ![req[s].key] = @ + 1] ELSE uses
    BY DEF Published, Commit, CommitUnanswered, Publish
  <2>2. req[s].key \in KeyId
    BY RequestType
  <2> QED
    BY <2>1, <2>2
<1>9. secret' \in [UserId -> Secret \cup {NoRow}]
  BY RequestType DEF Published, Commit, CommitUnanswered, Publish
<1>10. Rest'
  BY <1>1, <1>4, <1>6, <1>7, <1>8, <1>9, <1>12 DEF Rest
<1>11. Reached(s)'
  BY <1>1, <1>4, <1>6 DEF Reached
<1> QED
  BY <1>1, <1>4, <1>6, <1>10, <1>11

(* The initial state.                                                      *)
LEMMA InitType ==
  ASSUME Init
  PROVE  TypeInv
<1>1. req \in [Session -> Request]
  BY WorkAssumption DEF Init
<1>2. \A s \in Session : req[s].user \in UserId
  BY <1>1 DEF Request
<1>3. CleanUsers \in [UserId -> User \cup {Untouched}] /\ CleanKeys \in [KeyId -> ApiKey \cup {Untouched}]
  BY DEF CleanUsers, CleanKeys
<1>4. uses \in [KeyId -> Nat]
  <2>1. \A k \in KeyId : StartKeys[k] # NoRow => StartKeys[k].usage \in Nat
    BY StartAssumption DEF ApiKey
  <2> QED
    BY <2>1 DEF Init
<1>5. secret \in [UserId -> Secret \cup {NoRow}]
  <2>1. \A u \in UserId : StartUsers[u] # NoRow => StartUsers[u].password \in Secret
    BY StartAssumption DEF User
  <2> QED
    BY <2>1 DEF Init
<1>6. 0 \in Time /\ 0 \in 0 .. MaxFaults /\ "start" \in Location
  BY BoundsAssumption DEF Time, Location
<1>7. TypeOK
  BY <1>2, <1>3, <1>4, <1>5, <1>6, StartAssumption DEF Init, TypeOK
<1>8. Known
  BY StartAssumption DEF Init, Known, CleanKeys
<1>9. \A s \in Session : Reached(s)
  BY DEF Init, Reached
<1> QED
  BY <1>7, <1>8, <1>9 DEF TypeInv

(* Every step keeps the types.                                             *)
LEMMA NextType ==
  ASSUME TypeInv, [Next]_vars
  PROVE  TypeInv'
<1>1. Step
  BY StatementSteps
<1>2. /\ users' \in [UserId -> User \cup {NoRow}]
      /\ keys' \in [KeyId -> ApiKey \cup {NoRow}]
      /\ ownUsers' \in [Session -> [UserId -> User \cup {Untouched}]]
      /\ ownKeys' \in [Session -> [KeyId -> ApiKey \cup {Untouched}]]
      /\ RowsStay
  BY <1>1, StepTypes
<1>3. Rest' => TypeOK'
  BY <1>2 DEF Rest, TypeOK
<1>4. ASSUME UNCHANGED <<issued, req>>
      PROVE  /\ issued \subseteq issued' /\ req' = req
             /\ \A t \in issued' : users'[t.user] # NoRow
  <2>1. \A t \in issued : t.user \in UserId
    BY DEF TypeInv, TypeOK, Token
  <2> QED
    BY <1>2, <1>4, <2>1 DEF TypeInv, Known, RowsStay
<1>5. ASSUME NEW s \in Session, Fine(s)
      PROVE  TypeInv'
  <2>1. \A t \in Session \ {s} : Reached(t)'
    BY <1>2, <1>4, <1>5, OthersKeep DEF Fine, Alone
  <2>2. Known'
    BY <1>1, <1>4, <1>5, StepKnown DEF Fine, Alone
  <2> QED
    BY <1>3, <1>5, <2>1, <2>2 DEF Fine, TypeInv
<1>6. ASSUME NEW s \in Session, Published(s)
      PROVE  TypeInv'
  <2>1. \A t \in Session \ {s} : Reached(t)'
    BY <1>2, <1>6, CommitType, OthersKeep
  <2>2. Known'
    BY <1>1, <1>6, CommitType, StepKnown
  <2> QED
    BY <1>3, <1>6, <2>1, <2>2, CommitType DEF TypeInv
<1>7. CASE Tick \/ Finished \/ UNCHANGED vars
  <2>1. /\ UNCHANGED <<issued, faults, req, token, me, seen, used, pc, outcome, barred,
                       fails, uses, secret>>
        /\ clock' \in Time
    BY <1>7, BoundsAssumption DEF Tick, Finished, vars, locals, past, TypeInv, TypeOK, Time
  <2>2. Rest'
    BY <2>1 DEF TypeInv, TypeOK, Rest
  <2>3. \A t \in Session : Reached(t)'
    BY <1>2, <1>4, <2>1, OthersKeep
  <2>4. Known'
    BY <1>1, <1>4, <2>1, StepKnown
  <2> QED
    BY <1>3, <2>2, <2>3, <2>4 DEF TypeInv
<1>8. ASSUME NEW s \in Session, Statement(s)
      PROVE  TypeInv'
  BY <1>5, <1>6, <1>8, WhoType, KeyType, LookupType, ReadType, WriteType, BumpType, FailType
     DEF Statement, Published
<1> QED
  BY <1>5, <1>6, <1>7, <1>8, BeginType, FailType DEF Next, Published

(* Every reachable state is well typed, and each request is at a statement *)
(* that fits its kind: no statement writes a row that is not there.        *)
THEOREM TypeCorrect == Spec => []TypeOK
<1>1. Init => TypeInv
  BY InitType
<1>2. TypeInv /\ [Next]_vars => TypeInv'
  BY NextType
<1>3. TypeInv => TypeOK
  BY DEF TypeInv
<1> QED
  BY <1>1, <1>2, <1>3, PTL DEF Spec

-----------------------------------------------------------------------------
(* What is switched off stays off.                                         *)

(* A row has at most one writer.                                           *)
Locks ==
    /\ \A s, t \in Session, u \in UserId :
        ownUsers[s][u] # Untouched /\ ownUsers[t][u] # Untouched => s = t
    /\ \A s, t \in Session, k \in KeyId :
        ownKeys[s][k] # Untouched /\ ownKeys[t][k] # Untouched => s = t

(* A writer of a row that is off has it off too: this is what the commit   *)
(* needs, and the lock keeps it true after the row was read.               *)
StaysOff ==
    /\ \A s \in Session, u \in UserId :
        users[u] # NoRow /\ ownUsers[s][u] # Untouched /\ ~users[u].active
            => ~ownUsers[s][u].active
    /\ \A s \in Session, k \in KeyId :
        keys[k] # NoRow /\ ownKeys[s][k] # Untouched /\ ~keys[k].active
            => ~ownKeys[s][k].active

OffInv == Locks /\ StaysOff

(* The end of a request, row by row.                                       *)
LEMMA EndCases ==
  ASSUME TypeInv, NEW s \in Session, Drops(s) \/ Commits(s)
  PROVE  /\ \A t \in Session, u \in UserId :
                ownUsers'[t][u] = IF t = s THEN Untouched ELSE ownUsers[t][u]
         /\ \A t \in Session, k \in KeyId :
                ownKeys'[t][k] = IF t = s THEN Untouched ELSE ownKeys[t][k]
<1>1. /\ ownUsers \in [Session -> [UserId -> User \cup {Untouched}]]
      /\ ownKeys \in [Session -> [KeyId -> ApiKey \cup {Untouched}]]
  BY DEF TypeInv, TypeOK
<1>2. /\ ownUsers' = [ownUsers EXCEPT ![s] = CleanUsers]
      /\ ownKeys' = [ownKeys EXCEPT ![s] = CleanKeys]
  BY DEF Drops, Commits
<1>3. /\ \A t \in Session : ownUsers'[t] = IF t = s THEN CleanUsers ELSE ownUsers[t]
      /\ \A t \in Session : ownKeys'[t] = IF t = s THEN CleanKeys ELSE ownKeys[t]
  BY <1>1, <1>2
<1> QED
  BY <1>3 DEF CleanUsers, CleanKeys

(* The uncommitted writes are functions of two arguments.                  *)
LEMMA OwnType ==
  ASSUME TypeInv
  PROVE  /\ ownUsers \in [Session -> [UserId -> User \cup {Untouched}]]
         /\ ownKeys \in [Session -> [KeyId -> ApiKey \cup {Untouched}]]
BY DEF TypeInv, TypeOK

(* The writer of a row is its only writer, or the row is new.              *)
LEMMA UserWriteFree ==
  ASSUME TypeInv, NEW s \in Session, WritesUser(s) \/ AddsUser(s)
  PROVE  /\ UNCHANGED <<users, keys, ownKeys>>
         /\ \E u \in UserId, r \in User :
              /\ \A t \in Session, v \in UserId :
                    ownUsers'[t][v] = IF t = s /\ v = u THEN r ELSE ownUsers[t][v]
              /\ \A t \in Session \ {s} : ownUsers[t][u] = Untouched
              /\ users[u] # NoRow => users[u].active \/ ~r.active
<1>1. UNCHANGED <<users, keys, ownKeys>>
  BY DEF WritesUser, AddsUser, tables
<1>2. CASE WritesUser(s)
  <2>1. PICK u \in UserId, r \in User :
          /\ ownUsers' = [ownUsers EXCEPT ![s][u] = r]
          /\ UserHolders(s, u) = {} /\ (users[u].active \/ ~r.active)
    BY <1>2 DEF WritesUser
  <2>2. \A t \in Session \ {s} : ownUsers[t][u] = Untouched
    BY <2>1 DEF UserHolders
  <2>3. \A t \in Session, v \in UserId :
            ownUsers'[t][v] = IF t = s /\ v = u THEN r ELSE ownUsers[t][v]
    BY <2>1, OwnType
  <2> QED
    BY <1>1, <2>1, <2>2, <2>3
<1>3. CASE AddsUser(s)
  <2>1. PICK u \in FreeUsers, r \in User : ownUsers' = [ownUsers EXCEPT ![s][u] = r]
    BY <1>3 DEF AddsUser
  <2>2. u \in UserId /\ users[u] = NoRow /\ \A t \in Session : ownUsers[t][u] = Untouched
    BY DEF FreeUsers
  <2>3. \A t \in Session, v \in UserId :
            ownUsers'[t][v] = IF t = s /\ v = u THEN r ELSE ownUsers[t][v]
    BY <2>1, <2>2, OwnType
  <2> QED
    BY <1>1, <2>1, <2>2, <2>3
<1> QED
  BY <1>2, <1>3

(* No step ends the exclusion of writers or turns a row on again.          *)
LEMMA OffStep ==
  ASSUME TypeInv, OffInv, Step
  PROVE  OffInv'
<1>1. CASE Quiet
  BY <1>1 DEF OffInv, Locks, StaysOff, Quiet, tables
<1>2. ASSUME NEW s \in Session, Drops(s)
      PROVE  OffInv'
  <2>1. UNCHANGED <<users, keys>>
    BY <1>2 DEF Drops, tables
  <2> QED
    BY <1>2, <2>1, EndCases DEF OffInv, Locks, StaysOff
<1>3. ASSUME NEW s \in Session, WritesUser(s) \/ AddsUser(s)
      PROVE  OffInv'
  <2>1. UNCHANGED <<users, keys, ownKeys>>
    BY <1>3, UserWriteFree
  <2>2. PICK u \in UserId, r \in User :
          /\ \A t \in Session, v \in UserId :
                ownUsers'[t][v] = IF t = s /\ v = u THEN r ELSE ownUsers[t][v]
          /\ \A t \in Session \ {s} : ownUsers[t][u] = Untouched
          /\ users[u] # NoRow => users[u].active \/ ~r.active
    BY <1>3, UserWriteFree
  <2>3. Locks'
    BY <2>1, <2>2 DEF OffInv, Locks
  <2>4. StaysOff'
    BY <2>1, <2>2 DEF OffInv, StaysOff
  <2> QED
    BY <2>3, <2>4 DEF OffInv
<1>4. ASSUME NEW s \in Session, WritesKey(s)
      PROVE  OffInv'
  <2>1. UNCHANGED <<users, keys, ownUsers>>
    BY <1>4 DEF WritesKey, tables
  <2>2. PICK k \in KeyId, r \in ApiKey :
          /\ ownKeys' = [ownKeys EXCEPT ![s][k] = r] /\ KeyHolders(s, k) = {}
          /\ keys[k] # NoRow => keys[k].active \/ ~r.active
    BY <1>4 DEF WritesKey
  <2>3. \A t \in Session, l \in KeyId :
            ownKeys'[t][l] = IF t = s /\ l = k THEN r ELSE ownKeys[t][l]
    BY <2>2, OwnType
  <2>4. \A t \in Session \ {s} : ownKeys[t][k] = Untouched
    BY <2>2 DEF KeyHolders
  <2>5. Locks'
    BY <2>1, <2>3, <2>4 DEF OffInv, Locks
  <2>6. StaysOff'
    BY <2>1, <2>2, <2>3 DEF OffInv, StaysOff
  <2> QED
    BY <2>5, <2>6 DEF OffInv
<1>5. ASSUME NEW s \in Session, Commits(s)
      PROVE  OffInv'
  <2>1. /\ \A u \in UserId : users'[u] = IF ownUsers[s][u] = Untouched THEN users[u] ELSE ownUsers[s][u]
        /\ \A k \in KeyId : keys'[k] = IF ownKeys[s][k] = Untouched THEN keys[k] ELSE ownKeys[s][k]
    BY <1>5 DEF Commits
  <2>2. Locks'
    BY <1>5, EndCases DEF OffInv, Locks
  <2>3. StaysOff'
    BY <1>5, <2>1, EndCases DEF OffInv, Locks, StaysOff
  <2> QED
    BY <2>2, <2>3 DEF OffInv
<1> QED
  BY <1>1, <1>2, <1>3, <1>4, <1>5 DEF Step

(* No login, password change or use of a key that read the row before      *)
(* brings a deactivated user or a revoked key back.                        *)
THEOREM SwitchedOffStaysHolds == Spec => SwitchedOffStays
<1> DEFINE Off ==
      /\ \A u \in UserId :
            users[u] # NoRow /\ ~users[u].active => users'[u] # NoRow /\ ~users'[u].active
      /\ \A k \in KeyId :
            keys[k] # NoRow /\ ~keys[k].active => keys'[k] # NoRow /\ ~keys'[k].active
<1>1. Init => TypeInv /\ OffInv
  BY InitType DEF Init, OffInv, Locks, StaysOff, CleanUsers, CleanKeys
<1>2. TypeInv /\ OffInv /\ [Next]_vars => (TypeInv /\ OffInv)'
  BY NextType, StatementSteps, OffStep
<1>3. TypeInv /\ OffInv /\ [Next]_vars => Off
  <2> SUFFICES ASSUME TypeInv, OffInv, Step, RowsStay
               PROVE  Off
    BY StatementSteps, StepTypes
  <2>1. CASE Quiet \/ \E s \in Session : Drops(s) \/ WritesUser(s) \/ AddsUser(s) \/ WritesKey(s)
    <3>1. UNCHANGED <<users, keys>>
      BY <2>1 DEF Quiet, Drops, WritesUser, AddsUser, WritesKey, tables
    <3> QED
      BY <3>1
  <2>2. ASSUME NEW s \in Session, Commits(s)
        PROVE  Off
    <3>1. /\ \A u \in UserId : users'[u] = IF ownUsers[s][u] = Untouched THEN users[u] ELSE ownUsers[s][u]
          /\ \A k \in KeyId : keys'[k] = IF ownKeys[s][k] = Untouched THEN keys[k] ELSE ownKeys[s][k]
      BY <2>2 DEF Commits
    <3> QED
      BY <3>1 DEF OffInv, StaysOff, RowsStay
  <2> QED
    BY <2>1, <2>2 DEF Step
<1> HIDE DEF Off
<1>4. Spec => [][Off]_vars
  BY <1>1, <1>2, <1>3, PTL DEF Spec
<1> QED
  BY <1>4 DEF SwitchedOffStays, Off

-----------------------------------------------------------------------------
(* One user for an address.                                                *)

(* The users as session s sees them.                                       *)
Image(s, u) == IF ownUsers[s][u] = Untouched THEN users[u] ELSE ownUsers[s][u]

(* Addresses are in lower case, and a row keeps the one it has.            *)
LowerCase ==
    /\ \A u \in UserId : users[u] # NoRow => Lower(users[u].email) = users[u].email
    /\ \A s \in Session, u \in UserId : Image(s, u) # NoRow =>
        /\ Lower(Image(s, u).email) = Image(s, u).email
        /\ users[u] # NoRow => Image(s, u).email = users[u].email

(* No two sessions see different users with one address, whichever of them *)
(* commits first.                                                          *)
Distinct ==
    /\ \A u, v \in UserId :
        users[u] # NoRow /\ users[v] # NoRow /\ u # v => users[u].email # users[v].email
    /\ \A s, t \in Session, u, v \in UserId :
        Image(s, u) # NoRow /\ Image(t, v) # NoRow /\ u # v => Image(s, u).email # Image(t, v).email

(* A request writes at most one user, just before it commits or is refused.*)
WrittenOnce ==
    \A s \in Session :
        pc[s] \notin {"raise", "commit"} => \A u \in UserId : ownUsers[s][u] = Untouched

EmailInv == Locks /\ StaysOff /\ LowerCase /\ Distinct /\ WrittenOnce

(* An address typed in any case is stored in lower case.                   *)
LEMMA LowerTwice ==
  ASSUME NEW email \in Email
  PROVE  Lower(email) \in Email /\ Lower(Lower(email)) = Lower(email)
BY DEF Lower, Email

(* A stored row that is written keeps its address.                         *)
LEMMA EmailWrite ==
  ASSUME TypeInv, EmailInv, NEW s \in Session, WritesUser(s)
  PROVE  LowerCase' /\ Distinct'
<1>1. PICK u \in UserId, r \in User :
        /\ ownUsers' = [ownUsers EXCEPT ![s][u] = r]
        /\ users[u] # NoRow /\ r.email = users[u].email
  BY DEF WritesUser
<1>2. users' = users
  BY DEF WritesUser, tables
<1>3. \A t \in Session, v \in UserId :
        ownUsers'[t][v] = IF t = s /\ v = u THEN r ELSE ownUsers[t][v]
  BY <1>1, OwnType
<1>4. r # Untouched
  BY NullsAssumption
<1>5. \A t \in Session, v \in UserId :
        Image(t, v)' = IF t = s /\ v = u THEN r ELSE Image(t, v)
  BY <1>2, <1>3, <1>4 DEF Image
<1>6. Image(s, u) # NoRow /\ Image(s, u).email = r.email
  <2>1. Image(s, u) # NoRow
    BY <1>1, RowType DEF Image, TypeInv
  <2> QED
    BY <1>1, <2>1 DEF EmailInv, LowerCase
<1>7. \A t \in Session, v \in UserId : Image(t, v)' # NoRow =>
        Image(t, v) # NoRow /\ Image(t, v)'.email = Image(t, v).email
  BY <1>5, <1>6
<1>8. LowerCase'
  BY <1>2, <1>7 DEF EmailInv, LowerCase
<1>9. Distinct'
  BY <1>2, <1>7 DEF EmailInv, Distinct
<1> QED
  BY <1>8, <1>9

(* A new row has an address nobody has: the committed ones by the unique   *)
(* index, the uncommitted ones because the INSERT waits for them.          *)
LEMMA EmailAdd ==
  ASSUME TypeInv, EmailInv, NEW s \in Session, AddsUser(s)
  PROVE  LowerCase' /\ Distinct'
<1> DEFINE e == Lower(req[s].email)
<1>1. PICK u \in FreeUsers, r \in User :
        ownUsers' = [ownUsers EXCEPT ![s][u] = r] /\ r.email = e
  BY DEF AddsUser
<1>2. u \in UserId /\ users[u] = NoRow /\ users' = users
  BY DEF AddsUser, tables, FreeUsers
<1>3. \A t \in Session, v \in UserId :
        ownUsers'[t][v] = IF t = s /\ v = u THEN r ELSE ownUsers[t][v]
  BY <1>1, <1>2, OwnType
<1>4. \A t \in Session, v \in UserId :
        Image(t, v)' = IF t = s /\ v = u THEN r ELSE Image(t, v)
  <2>1. r # Untouched
    BY NullsAssumption
  <2> QED
    BY <1>2, <1>3, <2>1 DEF Image
<1>5. Lower(e) = e
  BY RequestType, LowerTwice DEF TypeInv
<1>6. \A v \in UserId : users[v] # NoRow => users[v].email # e
  BY DEF AddsUser
<1>7. \A v \in UserId : ownUsers[s][v] = Untouched
  BY DEF AddsUser, EmailInv, WrittenOnce
<1>8. \A t \in Session, v \in UserId :
        Image(t, v) # NoRow => Image(t, v).email # e
  <2> SUFFICES ASSUME NEW t \in Session, NEW v \in UserId, Image(t, v) # NoRow
               PROVE  Image(t, v).email # e
    OBVIOUS
  <2>1. CASE users[v] # NoRow
    BY <1>6, <2>1 DEF EmailInv, LowerCase
  <2>2. CASE users[v] = NoRow
    <3>1. ownUsers[t][v] # Untouched /\ Image(t, v) = ownUsers[t][v]
      BY <2>2 DEF Image
    <3>2. t # s
      BY <1>7, <3>1
    <3>3. t \notin Inserters(s)
      BY DEF AddsUser
    <3> QED
      BY <2>2, <3>1, <3>2, <3>3 DEF Inserters
  <2> QED
    BY <2>1, <2>2
<1>9. LowerCase'
  <2> HIDE DEF e
  <2> QED
    BY <1>1, <1>2, <1>4, <1>5 DEF EmailInv, LowerCase
<1>10. Distinct'
  <2> HIDE DEF e
  <2>1. \A v, w \in UserId :
          users'[v] # NoRow /\ users'[w] # NoRow /\ v # w => users'[v].email # users'[w].email
    BY <1>2 DEF EmailInv, Distinct
  <2>2. ASSUME NEW p \in Session, NEW t \in Session, NEW v \in UserId, NEW w \in UserId,
               Image(p, v)' # NoRow, Image(t, w)' # NoRow, v # w
        PROVE  Image(p, v)'.email # Image(t, w)'.email
    <3>1. CASE p = s /\ v = u
      BY <1>1, <1>4, <1>8, <2>2, <3>1
    <3>2. CASE t = s /\ w = u
      BY <1>1, <1>4, <1>8, <2>2, <3>2
    <3>3. CASE ~(p = s /\ v = u) /\ ~(t = s /\ w = u)
      BY <1>4, <2>2, <3>3 DEF EmailInv, Distinct
    <3> QED
      BY <3>1, <3>2, <3>3
  <2> QED
    BY <2>1, <2>2 DEF Distinct
<1> QED
  BY <1>9, <1>10

(* A request that ends leaves what others see, or shows them what it saw.  *)
LEMMA EmailEnd ==
  ASSUME TypeInv, EmailInv, NEW s \in Session, Drops(s) \/ Commits(s)
  PROVE  LowerCase' /\ Distinct'
<1>1. \A t \in Session, u \in UserId :
        ownUsers'[t][u] = IF t = s THEN Untouched ELSE ownUsers[t][u]
  BY EndCases
<1>2. CASE Drops(s)
  <2>1. users' = users
    BY <1>2 DEF Drops, tables
  <2>2. \A t \in Session, u \in UserId :
          Image(t, u)' = IF t = s THEN users[u] ELSE Image(t, u)
    BY <1>1, <2>1 DEF Image
  <2>3. \A t \in Session, u \in UserId : users[u] # NoRow =>
          Image(t, u) # NoRow /\ Image(t, u).email = users[u].email
    <3>1. \A t \in Session, u \in UserId : users[u] # NoRow => Image(t, u) # NoRow
      BY RowType DEF TypeInv, Image
    <3> QED
      BY <3>1 DEF EmailInv, LowerCase
  <2>4. LowerCase'
    BY <2>1, <2>2 DEF EmailInv, LowerCase
  <2>5. \A t \in Session, u \in UserId : Image(t, u)' # NoRow =>
          Image(t, u) # NoRow /\ Image(t, u)'.email = Image(t, u).email
    BY <2>2, <2>3
  <2>6. Distinct'
    BY <2>1, <2>5 DEF EmailInv, Distinct
  <2> QED
    BY <2>4, <2>6
<1>3. CASE Commits(s)
  <2>1. \A u \in UserId : users'[u] = Image(s, u)
    BY <1>3 DEF Commits, Image
  <2>2. \A t \in Session, u \in UserId :
          Image(t, u)' = IF t = s \/ ownUsers[t][u] = Untouched THEN Image(s, u) ELSE Image(t, u)
    BY <1>1, <2>1 DEF Image
  <2>3. \A t \in Session \ {s}, u \in UserId :
          ownUsers[t][u] # Untouched => Image(s, u) = users[u]
    BY DEF EmailInv, Locks, Image
  <2>4. LowerCase'
    <3>1. \A u \in UserId : users'[u] # NoRow => Lower(users'[u].email) = users'[u].email
      BY <2>1 DEF EmailInv, LowerCase
    <3>2. ASSUME NEW t \in Session, NEW u \in UserId, Image(t, u)' # NoRow
          PROVE  /\ Lower(Image(t, u)'.email) = Image(t, u)'.email
                 /\ users'[u] # NoRow => Image(t, u)'.email = users'[u].email
      BY <2>1, <2>2, <2>3, <3>2 DEF EmailInv, LowerCase
    <3> QED
      BY <3>1, <3>2 DEF LowerCase
  <2>5. Distinct'
    <3>1. \A u, v \in UserId :
            users'[u] # NoRow /\ users'[v] # NoRow /\ u # v => users'[u].email # users'[v].email
      BY <2>1 DEF EmailInv, Distinct
    <3>2. \A p, t \in Session, u, v \in UserId :
            Image(p, u)' # NoRow /\ Image(t, v)' # NoRow /\ u # v => Image(p, u)'.email # Image(t, v)'.email
      BY <2>2 DEF EmailInv, Distinct
    <3> QED
      BY <3>1, <3>2 DEF Distinct
  <2> QED
    BY <2>4, <2>5
<1> QED
  BY <1>2, <1>3

(* A user is written in the last statement of a request.                   *)
LEMMA WrittenOnceStep ==
  ASSUME TypeInv, WrittenOnce, [Next]_vars
  PROVE  WrittenOnce'
<1> DEFINE Clean(t) == \A u \in UserId : ownUsers[t][u] = Untouched
<1>0. /\ pc \in [Session -> Location]
      /\ ownUsers \in [Session -> [UserId -> User \cup {Untouched}]]
  BY DEF TypeInv, TypeOK
<1>1. ASSUME NEW s \in Session, NEW o, End(s, o)
      PROVE  WrittenOnce'
  <2>1. /\ ownUsers' = [ownUsers EXCEPT ![s] = CleanUsers] /\ pc' = [pc EXCEPT ![s] = "done"]
    BY <1>1 DEF End, Goto
  <2>2. \A t \in Session : /\ ownUsers'[t] = IF t = s THEN CleanUsers ELSE ownUsers[t]
                           /\ t # s => pc'[t] = pc[t]
    BY <1>0, <2>1
  <2> QED
    BY <2>2 DEF WrittenOnce, CleanUsers
<1>2. ASSUME NEW s \in Session, NEW l, ownUsers' = ownUsers, pc' = [pc EXCEPT ![s] = l],
             pc[s] \notin {"raise", "commit"}
      PROVE  WrittenOnce'
  BY <1>0, <1>2 DEF WrittenOnce
<1>3. ASSUME NEW s \in Session, NEW l \in {"raise", "commit"}, pc' = [pc EXCEPT ![s] = l],
             \A t \in Session \ {s} : ownUsers'[t] = ownUsers[t]
      PROVE  WrittenOnce'
  BY <1>0, <1>3 DEF WrittenOnce
<1>4. ASSUME NEW s \in Session,
             \/ Begin(s) \/ Who(s) \/ Key(s) \/ Owner(s) \/ Lookup(s)
             \/ Raise(s) \/ Pick(s) \/ Unique(s) \/ Target(s)
      PROVE  \/ \E o : End(s, o)
             \/ pc[s] \notin {"raise", "commit"} /\ \E l : Go(s, l)
  BY <1>4 DEF Begin, Who, Key, Owner, Lookup, Raise, Pick, Unique, Target, Reject
<1>5. ASSUME NEW s \in Session, NEW l, Go(s, l)
      PROVE  ownUsers' = ownUsers /\ pc' = [pc EXCEPT ![s] = l]
  BY <1>5 DEF Go, Goto, owned
<1>6. ASSUME NEW s \in Session,
             Begin(s) \/ Who(s) \/ Key(s) \/ Owner(s) \/ Lookup(s)
             \/ Raise(s) \/ Pick(s) \/ Unique(s) \/ Target(s)
      PROVE  WrittenOnce'
  BY <1>1, <1>2, <1>4, <1>5, <1>6
<1>7. ASSUME NEW s \in Session, Bump(s)
      PROVE  WrittenOnce'
  <2>1. CASE Reject(s)
    BY <1>1, <2>1 DEF Reject
  <2>2. CASE ~Reject(s)
    <3>1. ownUsers' = ownUsers /\ pc' = [pc EXCEPT ![s] = First(req[s].kind)] /\ pc[s] = "bump"
      BY <1>7, <2>2 DEF Bump, Goto
    <3> QED
      BY <1>2, <3>1
  <2> QED
    BY <2>1, <2>2
<1>8. ASSUME NEW s \in Session,
             \/ Mark(s) \/ Enter(s) \/ ChangePassword(s) \/ Mint(s)
             \/ Revoke(s) \/ Insert(s) \/ Deactivate(s)
      PROVE  WrittenOnce'
  <2>1. PICK l \in {"raise", "commit"} : pc' = [pc EXCEPT ![s] = l]
    BY <1>8 DEF Mark, Enter, ChangePassword, Mint, Revoke, Insert, Deactivate, Goto
  <2>2. CASE Mint(s) \/ Revoke(s)
    BY <1>3, <2>1, <2>2 DEF Mint, Revoke
  <2>3. CASE Mark(s) \/ Enter(s) \/ ChangePassword(s) \/ Deactivate(s) \/ Insert(s)
    <3>1. WritesUser(s) \/ AddsUser(s)
      BY <2>3, LoginWrites, DeactivateWrites, InsertAdds
    <3>2. \E u \in UserId, r \in User : ownUsers' = [ownUsers EXCEPT ![s][u] = r]
      BY <3>1 DEF WritesUser, AddsUser, FreeUsers
    <3>3. \A t \in Session \ {s} : ownUsers'[t] = ownUsers[t]
      BY <1>0, <3>2
    <3> QED
      BY <1>3, <2>1, <3>3
  <2> QED
    BY <1>8, <2>2, <2>3
<1>9. ASSUME NEW s \in Session, Published(s) \/ InsertFails(s) \/ DeadlockVictim(s) \/ Crash(s)
      PROVE  WrittenOnce'
  BY <1>1, <1>9 DEF Published, Commit, CommitUnanswered, Publish, InsertFails, DeadlockVictim, Crash
<1>10. CASE Tick \/ Finished \/ UNCHANGED vars
  BY <1>10 DEF Tick, Finished, vars, owned, WrittenOnce
<1> QED
  BY <1>6, <1>7, <1>8, <1>9, <1>10 DEF Next, Statement, Published

LEMMA EmailInit == Init => TypeInv /\ EmailInv
<1> SUFFICES ASSUME Init
             PROVE  TypeInv /\ EmailInv
  OBVIOUS
<1>1. TypeInv
  BY InitType
<1>2. users = StartUsers /\ (\A s \in Session, u \in UserId : ownUsers[s][u] = Untouched)
      /\ \A s \in Session, k \in KeyId : ownKeys[s][k] = Untouched
  BY DEF Init, CleanUsers, CleanKeys
<1>3. \A s \in Session, u \in UserId : Image(s, u) = users[u]
  BY <1>2 DEF Image
<1>4. \A u \in UserId : users[u] # NoRow => Lower(users[u].email) = users[u].email
  <2>1. \A u \in UserId : users[u] # NoRow => users[u].email \in Email /\ users[u].email.lower
    BY <1>1, <1>2, RowType, StartAssumption DEF TypeInv, User
  <2>2. \A e \in Email : e.lower => Lower(e) = e
    BY DEF Email, Lower
  <2> QED
    BY <2>1, <2>2
<1>5. LowerCase
  BY <1>3, <1>4 DEF LowerCase
<1>6. Distinct
  BY <1>2, <1>3, StartAssumption DEF Distinct
<1> QED
  BY <1>1, <1>2, <1>5, <1>6 DEF EmailInv, Locks, StaysOff, WrittenOnce

LEMMA EmailNext == TypeInv /\ EmailInv /\ [Next]_vars => (TypeInv /\ EmailInv)'
<1> SUFFICES ASSUME TypeInv, EmailInv, [Next]_vars
             PROVE  TypeInv' /\ EmailInv'
  OBVIOUS
<1>1. TypeInv' /\ Step /\ WrittenOnce'
  BY NextType, StatementSteps, WrittenOnceStep DEF EmailInv
<1>2. Locks' /\ StaysOff'
  BY <1>1, OffStep DEF EmailInv, OffInv
<1>3. CASE Quiet \/ \E s \in Session : WritesKey(s)
  <2>1. users' = users /\ ownUsers' = ownUsers
    BY <1>3 DEF Quiet, WritesKey, tables
  <2>2. LowerCase' /\ Distinct'
    BY <2>1 DEF EmailInv, LowerCase, Distinct, Image
  <2> QED
    BY <1>1, <1>2, <2>2 DEF EmailInv
<1>4. ASSUME NEW s \in Session, WritesUser(s) \/ AddsUser(s) \/ Drops(s) \/ Commits(s)
      PROVE  LowerCase' /\ Distinct'
  BY <1>4, EmailWrite, EmailAdd, EmailEnd
<1> QED
  BY <1>1, <1>2, <1>3, <1>4 DEF Step, EmailInv

(* The users never hold two rows with one address, in any case it may have *)
(* been typed, whoever creates users at once: an administrator's request   *)
(* or the start of an API process.                                         *)
THEOREM EmailsUniqueHolds == Spec => []EmailsUnique
<1>1. Init => TypeInv /\ EmailInv
  BY EmailInit
<1>2. TypeInv /\ EmailInv /\ [Next]_vars => (TypeInv /\ EmailInv)'
  BY EmailNext
<1>3. TypeInv /\ EmailInv => EmailsUnique
  BY DEF EmailInv, LowerCase, Distinct, EmailsUnique
<1> QED
  BY <1>1, <1>2, <1>3, PTL DEF Spec

-----------------------------------------------------------------------------
(* A step of one request leaves the others where they are.                 *)

Acts(s) == Begin(s) \/ Statement(s) \/ CommitUnanswered(s) \/ Crash(s)

Unmoved(t) ==
    /\ pc'[t] = pc[t] /\ token'[t] = token[t] /\ me'[t] = me[t] /\ seen'[t] = seen[t]
    /\ used'[t] = used[t] /\ outcome'[t] = outcome[t] /\ barred'[t] = barred[t]
    /\ ownUsers'[t] = ownUsers[t] /\ ownKeys'[t] = ownKeys[t]

Lasting == UNCHANGED <<tables, issued, faults, req, barred, locals, owned, pc, outcome, past>>

LEMMA NextActs ==
  ASSUME [Next]_vars
  PROVE  (\E s \in Session : Acts(s)) \/ (Lasting /\ clock' \in {clock, clock + 1})
BY DEF Next, Acts, Tick, Finished, vars, Lasting, tables, locals, owned, past

LEMMA Frame ==
  ASSUME TypeInv, NEW s \in Session, Acts(s)
  PROVE  req' = req /\ clock' = clock /\ \A t \in Session \ {s} : Unmoved(t)
<1> USE DEF TypeInv, TypeOK
<1>1. ASSUME \E l : Go(s, l)
      PROVE  \A t \in Session \ {s} :
                /\ pc'[t] = pc[t] /\ outcome'[t] = outcome[t]
                /\ ownUsers'[t] = ownUsers[t] /\ ownKeys'[t] = ownKeys[t]
  BY <1>1 DEF Go, Goto, owned
<1>2. ASSUME \E o : End(s, o)
      PROVE  \A t \in Session \ {s} :
                /\ pc'[t] = pc[t] /\ outcome'[t] = outcome[t]
                /\ ownUsers'[t] = ownUsers[t] /\ ownKeys'[t] = ownKeys[t]
  BY <1>2 DEF End, Goto
<1>3. CASE Begin(s)
  <2>1. (\E l : Go(s, l)) \/ \E o : End(s, o)
    BY <1>3 DEF Begin, Reject
  <2>2. /\ UNCHANGED <<req, clock, me, seen, used>>
        /\ \E b : barred' = [barred EXCEPT ![s] = b]
        /\ token' = token \/ \E t \in issued : token' = [token EXCEPT ![s] = t]
    BY <1>3 DEF Begin
  <2> QED
    BY <1>1, <1>2, <2>1, <2>2 DEF Unmoved
<1>4. CASE Who(s) \/ Key(s) \/ Owner(s) \/ Lookup(s) \/ Raise(s) \/ Pick(s) \/ Unique(s) \/ Target(s)
  <2>1. (\E l : Go(s, l)) \/ \E o : End(s, o)
    BY <1>4 DEF Who, Key, Owner, Lookup, Raise, Pick, Unique, Target, Reject
  <2>2. /\ UNCHANGED <<req, clock, barred, token>>
        /\ me' = me \/ \E u : me' = [me EXCEPT ![s] = u]
        /\ seen' = seen \/ \E r : seen' = [seen EXCEPT ![s] = r]
        /\ used' = used \/ \E n : used' = [used EXCEPT ![s] = n]
    BY <1>4 DEF Who, Key, Owner, Lookup, Raise, Pick, Unique, Target, env, locals
  <2> QED
    BY <1>1, <1>2, <2>1, <2>2 DEF Unmoved
<1>5. CASE Mark(s) \/ Enter(s) \/ ChangePassword(s) \/ Insert(s) \/ Deactivate(s)
  <2>1. WritesUser(s) \/ AddsUser(s)
    BY <1>5, LoginWrites, DeactivateWrites, InsertAdds
  <2>2. \E u \in UserId, r \in User : ownUsers' = [ownUsers EXCEPT ![s][u] = r]
    BY <2>1 DEF WritesUser, AddsUser, FreeUsers
  <2>3. /\ UNCHANGED <<req, clock, barred, token, me, seen, used, ownKeys, outcome>>
        /\ \E l : Goto(s, l)
    BY <1>5 DEF Mark, Enter, ChangePassword, Insert, Deactivate, env, locals
  <2> QED
    BY <2>2, <2>3 DEF Unmoved, Goto
<1>6. CASE Mint(s) \/ Revoke(s)
  <2>1. \E k \in KeyId, r \in ApiKey : ownKeys' = [ownKeys EXCEPT ![s][k] = r]
    <3>1. WritesKey(s)
      BY <1>6, KeyWrites
    <3> QED
      BY <3>1 DEF WritesKey
  <2>2. /\ UNCHANGED <<req, clock, barred, token, me, seen, used, ownUsers, outcome>>
        /\ \E l : Goto(s, l)
    BY <1>6 DEF Mint, Revoke, env, locals
  <2> QED
    BY <2>1, <2>2 DEF Unmoved, Goto
<1>7. CASE Bump(s)
  <2>1. UNCHANGED <<req, clock, barred, token, me, seen, used>>
    BY <1>7 DEF Bump, env, locals
  <2>2. CASE Reject(s)
    BY <1>2, <2>1, <2>2 DEF Reject, Unmoved
  <2>3. CASE ~Reject(s)
    <3>1. /\ \E l : pc' = [pc EXCEPT ![s] = l]
          /\ \E r : ownKeys' = [ownKeys EXCEPT ![s][req[s].key] = r]
          /\ UNCHANGED <<ownUsers, outcome>>
      BY <1>7, <2>3 DEF Bump, Goto
    <3> QED
      BY <2>1, <3>1 DEF Unmoved
  <2> QED
    BY <2>2, <2>3
<1>8. CASE InsertFails(s) \/ Published(s) \/ DeadlockVictim(s) \/ Crash(s)
  <2>1. UNCHANGED <<req, clock, barred, token, me, seen, used>> /\ \E o : End(s, o)
    BY <1>8 DEF InsertFails, Published, Commit, CommitUnanswered, Publish, DeadlockVictim, Crash, env, locals
  <2> QED
    BY <1>2, <2>1 DEF Unmoved
<1> QED
  BY <1>3, <1>4, <1>5, <1>6, <1>7, <1>8 DEF Acts, Statement, Published

-----------------------------------------------------------------------------
(* Who was barred stays out.                                               *)

(* A key keeps its owner and its expiry.                                   *)
KeysKept ==
    \A s \in Session, k \in KeyId :
        keys[k] # NoRow /\ ownKeys[s][k] # Untouched =>
            ownKeys[s][k].user = keys[k].user /\ ownKeys[s][k].expires = keys[k].expires

KeysStay ==
    \A k \in KeyId :
        keys[k] # NoRow => keys'[k].user = keys[k].user /\ keys'[k].expires = keys[k].expires

LEMMA KeysKeptStep ==
  ASSUME TypeInv, Locks, KeysKept, Step
  PROVE  KeysKept' /\ KeysStay
<1>1. CASE Quiet
  BY <1>1 DEF Quiet, tables, KeysKept, KeysStay
<1>2. ASSUME NEW s \in Session, Drops(s)
      PROVE  KeysKept' /\ KeysStay
  <2>1. keys' = keys
    BY <1>2 DEF Drops, tables
  <2> QED
    BY <1>2, <2>1, EndCases DEF KeysKept, KeysStay
<1>3. ASSUME NEW s \in Session, WritesUser(s) \/ AddsUser(s)
      PROVE  KeysKept' /\ KeysStay
  BY <1>3, UserWriteFree DEF KeysKept, KeysStay
<1>4. ASSUME NEW s \in Session, WritesKey(s)
      PROVE  KeysKept' /\ KeysStay
  <2>1. keys' = keys
    BY <1>4 DEF WritesKey, tables
  <2>2. PICK k \in KeyId, r \in ApiKey :
          /\ ownKeys' = [ownKeys EXCEPT ![s][k] = r]
          /\ keys[k] # NoRow =>
                \E b \in {keys[k], KeyImage(s, k)} : r.user = b.user /\ r.expires = b.expires
    BY <1>4 DEF WritesKey
  <2>3. \A t \in Session, l \in KeyId :
          ownKeys'[t][l] = IF t = s /\ l = k THEN r ELSE ownKeys[t][l]
    BY <2>2, OwnType
  <2>4. keys[k] # NoRow => r.user = keys[k].user /\ r.expires = keys[k].expires
    BY <2>2 DEF KeysKept, KeyImage
  <2> QED
    BY <2>1, <2>3, <2>4 DEF KeysKept, KeysStay
<1>5. ASSUME NEW s \in Session, Commits(s)
      PROVE  KeysKept' /\ KeysStay
  <2>1. \A k \in KeyId : keys'[k] = IF ownKeys[s][k] = Untouched THEN keys[k] ELSE ownKeys[s][k]
    BY <1>5 DEF Commits
  <2>2. KeysStay
    BY <2>1 DEF KeysKept, KeysStay
  <2>3. KeysKept'
    BY <1>5, <2>1, EndCases DEF KeysKept, Locks
  <2> QED
    BY <2>2, <2>3
<1> QED
  BY <1>1, <1>2, <1>3, <1>4, <1>5 DEF Step

(* What a request has read may have changed since, but only in this way.   *)
Ages ==
    /\ RowsStay /\ KeysStay
    /\ \A u \in UserId : users[u] # NoRow =>
        users'[u].email = users[u].email /\ (~users[u].active => ~users'[u].active)
    /\ \A k \in KeyId : keys[k] # NoRow /\ ~keys[k].active => ~keys'[k].active
    /\ clock \in Nat /\ clock' \in Nat /\ clock =< clock'

BarInv == TypeInv /\ EmailInv /\ KeysKept

LEMMA AgesStep ==
  ASSUME BarInv, [Next]_vars
  PROVE  Ages
<1> USE DEF BarInv
<1>1. Step /\ Locks /\ TypeInv'
  BY StatementSteps, NextType DEF EmailInv
<1>2. RowsStay /\ KeysStay
  BY <1>1, StepTypes, KeysKeptStep
<1>3. clock \in Nat /\ clock' \in {clock, clock + 1}
  BY NextActs, Frame DEF TypeInv, TypeOK, Time
<1>4. CASE \E s \in Session : Commits(s)
  <2>1. PICK s \in Session : Commits(s)
    BY <1>4
  <2>2. /\ \A u \in UserId : users'[u] = Image(s, u)
        /\ \A k \in KeyId : keys'[k] = KeyImage(s, k)
    BY <2>1 DEF Commits, Image, KeyImage
  <2>3. \A u \in UserId : users[u] # NoRow =>
          users'[u].email = users[u].email /\ (~users[u].active => ~users'[u].active)
    BY <1>2, <2>2 DEF EmailInv, LowerCase, StaysOff, Image, RowsStay
  <2>4. \A k \in KeyId : keys[k] # NoRow /\ ~keys[k].active => ~keys'[k].active
    BY <2>2 DEF EmailInv, StaysOff, KeyImage
  <2> QED
    BY <1>2, <1>3, <2>3, <2>4 DEF Ages
<1>5. CASE ~\E s \in Session : Commits(s)
  <2>1. UNCHANGED tables
    BY <1>1, <1>5 DEF Step, Quiet, Drops, WritesUser, AddsUser, WritesKey
  <2> QED
    BY <1>2, <1>3, <2>1 DEF Ages, tables
<1> QED
  BY <1>4, <1>5

(* Why a barred request has not come further than where it is: what bars   *)
(* it is still so when the statement that asks for it is reached.          *)
Off(u) == ~users[u].active
Void(k) == ~keys[k].active \/ Expired(keys[k].expires)
BarredAt(s) ==
    /\ pc[s] = "start" => outcome[s] = "none"
    /\ pc[s] # "done" => outcome[s] \notin {"ok", "unanswered"}
    /\ pc[s] = "lookup" /\ "inactive" \in barred[s] => \E u \in Matches(req[s].email) : Off(u)
    /\ pc[s] = "who" /\ "inactive" \in barred[s] => Off(token[s].user)
    /\ pc[s] = "key" /\ "inactive" \in barred[s] => Off(keys[req[s].key].user)
    /\ pc[s] = "key" /\ "revoked" \in barred[s] => Void(req[s].key)
    /\ pc[s] = "owner" /\ "inactive" \in barred[s] => Off(me[s])
    /\ pc[s] \notin {"start", "key", "done"} => "revoked" \notin barred[s]
    /\ pc[s] \notin {"start", "lookup", "who", "key", "owner", "done"} => "inactive" \notin barred[s]
    /\ outcome[s] \in {"ok", "unanswered"} => barred[s] \cap {"inactive", "revoked"} = {}

(* Time and the other requests do not lift the bar.                        *)
LEMMA BarredAges ==
  ASSUME TypeInv, Ages, req' = req, NEW t \in Session, BarredAt(t),
         pc'[t] = pc[t], token'[t] = token[t], me'[t] = me[t],
         outcome'[t] = outcome[t], barred'[t] = barred[t]
  PROVE  BarredAt(t)'
<1> USE DEF TypeInv
<1>1. Reached(t) /\ me[t] \in UserId /\ req[t].key \in KeyId
  BY RequestType DEF TypeOK
<1>2. \A u \in UserId : users[u] # NoRow /\ Off(u) => Off(u)'
  BY DEF Ages, Off
<1>3. \A k \in KeyId : keys[k] # NoRow /\ Void(k) => Void(k)'
  <2> SUFFICES ASSUME NEW k \in KeyId, keys[k] # NoRow, Void(k)
               PROVE  Void(k)'
    OBVIOUS
  <2>1. CASE ~keys[k].active
    BY <2>1 DEF Ages, Void
  <2>2. CASE Expired(keys[k].expires)
    <3>1. keys[k].expires \in Nat \cup {NoTime}
      BY RowType DEF ApiKey
    <3>2. keys[k].expires \in Nat /\ keys[k].expires < clock
      BY <2>2, <3>1 DEF Expired
    <3>3. keys'[k].expires < clock' /\ keys'[k].expires # NoTime
      BY <2>2, <3>2 DEF Ages, KeysStay, Expired
    <3> QED
      BY <3>3 DEF Void, Expired
  <2> QED
    BY <2>1, <2>2 DEF Void
<1>4. CASE pc[t] = "lookup"
  <2>1. \A u \in Matches(req[t].email) : u \in Matches(req[t].email)' /\ u \in UserId /\ users[u] # NoRow
    BY DEF Matches, Ages, RowsStay
  <2> QED
    BY <1>2, <1>4, <2>1 DEF BarredAt
<1>5. CASE pc[t] = "who"
  <2>1. token[t].user \in UserId /\ users[token[t].user] # NoRow
    BY <1>1, <1>5 DEF Reached, Known, TypeOK, Token
  <2> QED
    BY <1>2, <1>5, <2>1 DEF BarredAt
<1>6. CASE pc[t] = "key"
  <2>1. /\ keys[req[t].key] # NoRow /\ keys[req[t].key].user \in UserId
        /\ users[keys[req[t].key].user] # NoRow
    BY <1>1, <1>6, RowType DEF Reached, Known
  <2>2. keys'[req[t].key].user = keys[req[t].key].user
    BY <1>1, <2>1 DEF Ages, KeysStay
  <2> QED
    BY <1>1, <1>2, <1>3, <1>6, <2>1, <2>2 DEF BarredAt, Off
<1>7. CASE pc[t] = "owner"
  BY <1>1, <1>2, <1>7 DEF BarredAt, Reached
<1>8. CASE pc[t] \notin {"lookup", "who", "key", "owner"}
  BY <1>8 DEF BarredAt
<1> QED
  BY <1>4, <1>5, <1>6, <1>7, <1>8

(* The request comes in and is asked for its credential.                   *)
LEMMA BarredBegin ==
  ASSUME TypeInv, NEW s \in Session, BarredAt(s), Begin(s)
  PROVE  BarredAt(s)'
<1> USE DEF TypeInv, TypeOK
<1>1. /\ pc[s] = "start" /\ UNCHANGED <<clock, req, me>> /\ outcome[s] = "none"
  BY DEF Begin, BarredAt
<1>2. ASSUME NEW o, End(s, o), o \notin {"ok", "unanswered"}
      PROVE  BarredAt(s)'
  BY <1>2 DEF End, Goto, BarredAt
<1>3. ASSUME Reject(s)
      PROVE  BarredAt(s)'
  BY <1>2, <1>3 DEF Reject
<1>4. ASSUME NEW l, Go(s, l)
      PROVE  pc'[s] = l /\ users' = users /\ keys' = keys /\ outcome'[s] = "none"
  BY <1>1, <1>4 DEF Go, Goto, tables
<1>5. CASE req[s].by = "none"
  <2>1. CASE req[s].kind = "login"
    <3>1. pc'[s] = "lookup" /\ users' = users /\ outcome'[s] = "none"
      BY <1>4, <1>5, <2>1 DEF Begin
    <3>2. barred'[s] = UNION {UserBars(u) : u \in Matches(req[s].email)}
      BY <1>5, <2>1 DEF Begin
    <3>3. \A b \in barred'[s] : \E u \in Matches(req[s].email) : b \in UserBars(u)
      BY <3>2
    <3>4. Matches(req[s].email)' = Matches(req[s].email)
      BY <1>1, <3>1 DEF Matches
    <3>5. /\ "revoked" \notin barred'[s]
          /\ "inactive" \in barred'[s] => \E u \in Matches(req[s].email)' : Off(u)'
      BY <3>1, <3>3, <3>4 DEF UserBars, Off
    <3> QED
      BY <3>1, <3>5 DEF BarredAt
  <2>2. CASE req[s].kind # "login"
    <3>1. pc'[s] = "unique" /\ outcome'[s] = "none" /\ barred'[s] = {}
      BY <1>4, <1>5, <2>2 DEF Begin
    <3> QED
      BY <3>1 DEF BarredAt
  <2> QED
    BY <2>1, <2>2
<1>6. CASE req[s].by = "token"
  <2>1. PICK t \in issued :
          /\ token' = [token EXCEPT ![s] = t]
          /\ barred' = [barred EXCEPT ![s] = UserBars(t.user)]
          /\ Go(s, "who") \/ Reject(s)
    BY <1>6 DEF Begin
  <2>2. token'[s] = t /\ barred'[s] = UserBars(t.user)
    BY <2>1
  <2>3. "revoked" \notin UserBars(t.user) /\ ("inactive" \in UserBars(t.user) => Off(t.user))
    BY DEF UserBars, Off
  <2>4. ASSUME Go(s, "who")
        PROVE  BarredAt(s)'
    BY <1>4, <2>2, <2>3, <2>4 DEF BarredAt, Off
  <2> QED
    BY <1>3, <2>1, <2>4
<1>7. CASE req[s].by = "key"
  <2>1. Go(s, "key") /\ barred'[s] = KeyBars(req[s].key)
    BY <1>7 DEF Begin
  <2>2. /\ "inactive" \in KeyBars(req[s].key) => Off(keys[req[s].key].user)
        /\ "revoked" \in KeyBars(req[s].key) => Void(req[s].key)
    BY DEF KeyBars, UserBars, Off, Void
  <2>3. pc'[s] = "key" /\ users' = users /\ keys' = keys /\ outcome'[s] = "none"
    BY <1>4, <2>1
  <2> QED
    BY <1>1, <2>1, <2>2, <2>3 DEF BarredAt, Off, Void, Expired
<1> QED
  BY <1>5, <1>6, <1>7, RequestType

(* A login finds the one user with its address.                            *)
LEMMA BarredLookup ==
  ASSUME TypeInv, EmailInv, NEW s \in Session, BarredAt(s), Lookup(s)
  PROVE  BarredAt(s)'
<1> USE DEF TypeInv, TypeOK
<1>1. pc[s] = "lookup" /\ UNCHANGED <<barred, clock, req>>
  BY DEF Lookup, env
<1>2. ASSUME Reject(s)
      PROVE  BarredAt(s)'
  BY <1>1, <1>2 DEF Reject, End, Goto, BarredAt
<1>3. ASSUME NEW u \in Matches(req[s].email), CanLogin(users[u]), NEW l \in {"enter", "mark"}, Go(s, l)
      PROVE  BarredAt(s)'
  <2>1. pc'[s] = l /\ outcome'[s] = outcome[s]
    BY <1>3 DEF Go, Goto
  <2>2. \A v \in Matches(req[s].email) : v = u
    <3>1. \A v \in Matches(req[s].email) : users[v].email = users[u].email
      BY DEF Matches, EmailInv, LowerCase
    <3> QED
      BY <3>1 DEF Matches, EmailInv, Distinct
  <2>3. "inactive" \notin barred[s]
    BY <1>1, <1>3, <2>2 DEF BarredAt, CanLogin, Off
  <2> QED
    BY <1>1, <2>1, <2>3 DEF BarredAt
<1> QED
  BY <1>2, <1>3 DEF Lookup

(* The other statements that ask, and those that no longer have to.        *)
LEMMA BarredActs ==
  ASSUME TypeInv, EmailInv, NEW s \in Session, BarredAt(s), Acts(s)
  PROVE  BarredAt(s)'
<1> USE DEF TypeInv, TypeOK
<1>1. ASSUME NEW o \in {"rejected", "failed"}, End(s, o), barred' = barred
      PROVE  BarredAt(s)'
  BY <1>1 DEF End, Goto, BarredAt
<1>2. ASSUME Reject(s), barred' = barred
      PROVE  BarredAt(s)'
  BY <1>1, <1>2 DEF Reject
<1>3. ASSUME NEW l, l \notin {"start", "lookup", "who", "key", "owner", "done"},
             pc' = [pc EXCEPT ![s] = l], UNCHANGED <<barred, outcome>>,
             "inactive" \notin barred[s], "revoked" \notin barred[s],
             pc[s] # "done"
      PROVE  BarredAt(s)'
  BY <1>3 DEF BarredAt
<1>4. CASE Who(s)
  <2>1. pc[s] = "who" /\ barred' = barred
    BY <1>4 DEF Who, env
  <2>2. CASE Reject(s)
    BY <1>2, <2>1, <2>2
  <2>3. CASE ~Reject(s)
    <3>1. Go(s, First(req[s].kind)) /\ users[token[s].user].active
      BY <1>4, <2>3 DEF Who
    <3>2. pc' = [pc EXCEPT ![s] = First(req[s].kind)] /\ outcome' = outcome
      BY <3>1 DEF Go, Goto
    <3>3. "inactive" \notin barred[s] /\ "revoked" \notin barred[s]
      BY <2>1, <3>1 DEF BarredAt, Off
    <3> QED
      BY <1>3, <2>1, <3>2, <3>3, FirstFits, RequestType
  <2> QED
    BY <2>2, <2>3
<1>5. CASE Key(s)
  <2>1. pc[s] = "key" /\ UNCHANGED <<barred, clock>> /\ me' = [me EXCEPT ![s] = keys[req[s].key].user]
    BY <1>5 DEF Key, env
  <2>2. CASE Reject(s)
    BY <1>2, <2>1, <2>2
  <2>3. CASE ~Reject(s)
    <3>1. Go(s, "owner") /\ ~Void(req[s].key)
      BY <1>5, <2>3 DEF Key, Void
    <3>2. pc'[s] = "owner" /\ outcome'[s] = outcome[s] /\ users' = users /\ me'[s] = keys[req[s].key].user
      BY <2>1, <3>1 DEF Go, Goto, tables
    <3>3. "revoked" \notin barred[s]
      BY <2>1, <3>1 DEF BarredAt
    <3> QED
      BY <2>1, <3>2, <3>3 DEF BarredAt, Off
  <2> QED
    BY <2>2, <2>3
<1>6. CASE Owner(s)
  <2>1. pc[s] = "owner" /\ barred' = barred
    BY <1>6 DEF Owner, env
  <2>2. CASE Reject(s)
    BY <1>2, <2>1, <2>2
  <2>3. CASE ~Reject(s)
    <3>1. Go(s, "bump") /\ users[me[s]].active
      BY <1>6, <2>3 DEF Owner
    <3>2. pc' = [pc EXCEPT ![s] = "bump"] /\ outcome' = outcome
      BY <3>1 DEF Go, Goto
    <3>3. "inactive" \notin barred[s] /\ "revoked" \notin barred[s]
      BY <2>1, <3>1 DEF BarredAt, Off
    <3> QED
      BY <1>3, <2>1, <3>2, <3>3
  <2> QED
    BY <2>2, <2>3
<1>7. CASE Bump(s)
  <2>1. pc[s] = "bump" /\ barred' = barred
    BY <1>7 DEF Bump, env
  <2>2. CASE Reject(s)
    BY <1>2, <2>1, <2>2
  <2>3. CASE ~Reject(s)
    <3>1. pc' = [pc EXCEPT ![s] = First(req[s].kind)] /\ outcome' = outcome
      BY <1>7, <2>3 DEF Bump, Goto
    <3>2. "inactive" \notin barred[s] /\ "revoked" \notin barred[s]
      BY <2>1 DEF BarredAt
    <3> QED
      BY <1>3, <2>1, <3>1, <3>2, FirstFits, RequestType
  <2> QED
    BY <2>2, <2>3
<1>8. CASE \/ Mark(s) \/ Enter(s) \/ ChangePassword(s) \/ Mint(s)
           \/ Revoke(s) \/ Insert(s) \/ Deactivate(s)
  <2>1. /\ barred' = barred /\ outcome' = outcome
        /\ pc[s] \in {"mark", "enter", "password", "mint", "revoke", "insert", "deactivate"}
        /\ \E l \in {"raise", "commit"} : pc' = [pc EXCEPT ![s] = l]
    BY <1>8 DEF Mark, Enter, ChangePassword, Mint, Revoke, Insert, Deactivate, env, Goto
  <2> QED
    BY <1>3, <2>1 DEF BarredAt
<1>9. CASE Raise(s) \/ Pick(s) \/ Unique(s) \/ Target(s)
  <2>1. /\ barred' = barred /\ pc[s] \in {"raise", "pick", "unique", "target"}
        /\ Reject(s) \/ \E l \in {"revoke", "commit", "insert", "deactivate"} : Go(s, l)
    BY <1>9 DEF Raise, Pick, Unique, Target, env
  <2>2. ASSUME NEW l \in {"revoke", "commit", "insert", "deactivate"}, Go(s, l)
        PROVE  BarredAt(s)'
    <3>1. pc' = [pc EXCEPT ![s] = l] /\ outcome' = outcome
      BY <2>2 DEF Go, Goto
    <3> QED
      BY <1>3, <2>1, <3>1 DEF BarredAt
  <2> QED
    BY <1>2, <2>1, <2>2
<1>10. CASE InsertFails(s) \/ DeadlockVictim(s) \/ Crash(s)
  BY <1>1, <1>10 DEF InsertFails, DeadlockVictim, Crash, env
<1>11. CASE Published(s)
  <2>1. pc[s] = "commit" /\ barred' = barred /\ \E o \in {"ok", "unanswered"} : End(s, o)
    BY <1>11 DEF Published, Commit, CommitUnanswered, Publish
  <2> QED
    BY <2>1 DEF End, Goto, BarredAt
<1> QED
  BY <1>4, <1>5, <1>6, <1>7, <1>8, <1>9, <1>10, <1>11, BarredBegin, BarredLookup DEF Acts, Statement, Published


(* What the invariants so far say together is inductive.                   *)
LEMMA BarInit == Init => BarInv
BY EmailInit DEF BarInv, KeysKept, Init, CleanKeys

LEMMA BarNext == BarInv /\ [Next]_vars => BarInv'
BY EmailNext, KeysKeptStep, StatementSteps DEF BarInv, EmailInv

(* A request made after its user was deactivated, or its key revoked or    *)
(* expired, is not carried out, although authenticate_user,                *)
(* get_current_user and validate_api_key each ask only once, at a          *)
(* statement of their own: crud/users.py and routes/auth.py.               *)
THEOREM BarredStayOutHolds == Spec => []BarredStayOut
<1> DEFINE Inv == BarInv /\ \A s \in Session : BarredAt(s)
<1>1. Init => Inv
  BY BarInit DEF Init, BarredAt
<1>2. Inv /\ [Next]_vars => Inv'
  <2> SUFFICES ASSUME BarInv, \A s \in Session : BarredAt(s), [Next]_vars
               PROVE  \A t \in Session : BarredAt(t)'
    BY BarNext
  <2>1. Ages /\ TypeInv /\ EmailInv
    BY AgesStep DEF BarInv
  <2>2. ASSUME NEW s \in Session, Acts(s), NEW t \in Session
        PROVE  BarredAt(t)'
    BY <2>1, <2>2, Frame, BarredActs, BarredAges DEF Unmoved
  <2>3. ASSUME Lasting, NEW t \in Session
        PROVE  BarredAt(t)'
    BY <2>1, <2>3, BarredAges DEF Lasting, locals
  <2> QED
    BY <2>2, <2>3, NextActs
<1>3. Inv => BarredStayOut
  <2>1. Inv => \A s \in Session : barred[s] \subseteq {"inactive", "revoked"}
    BY DEF BarInv, EmailInv, TypeInv, TypeOK, Reason
  <2> QED
    BY <2>1 DEF BarredAt, BarredStayOut
<1> QED
  BY <1>1, <1>2, <1>3, PTL DEF Spec

-----------------------------------------------------------------------------
(* What was counted for a key was carried out.                             *)

(* Of a key's uses, one that the session itself has still to carry out.    *)
Bonus(s, k) == IF req[s].by = "key" /\ req[s].key = k THEN 1 ELSE 0
Counts ==
    /\ \A k \in KeyId : keys[k] # NoRow => keys[k].usage =< uses[k]
    /\ \A s \in Session, k \in KeyId :
        ownKeys[s][k] # Untouched => ownKeys[s][k].usage =< uses[k] + Bonus(s, k)
    /\ \A s \in Session : pc[s] \in {"owner", "bump"} => used[s] =< uses[req[s].key]

LEMMA UsesGrow ==
  ASSUME TypeInv, [Next]_vars
  PROVE  /\ uses \in [KeyId -> Nat] /\ uses' \in [KeyId -> Nat]
         /\ \A k \in KeyId : uses[k] =< uses'[k]
<1> USE DEF TypeInv, TypeOK
<1>1. TypeInv'
  BY NextType
<1>2. CASE uses' = uses
  BY <1>1, <1>2
<1>3. CASE uses' # uses
  <2>1. ASSUME NEW s \in Session, Reject(s) \/ \E l : Go(s, l)
        PROVE  uses' = uses
    BY <2>1 DEF Reject, Go
  <2>2. PICK s \in Session : Published(s)
    BY <1>3, <2>1 DEF Next, Published, vars, Tick, Finished, Statement, Begin, Who, Key, Owner, Bump,
         Lookup, Mark, Raise, Enter, ChangePassword, Mint, Pick, Revoke, Unique, Insert, InsertFails,
         Target, Deactivate, DeadlockVictim, Crash, past
  <2>3. uses' = IF req[s].by = "key" THEN [uses EXCEPT ![req[s].key] = @ + 1] ELSE uses
    BY <2>2 DEF Published, Commit, CommitUnanswered, Publish
  <2> QED
    BY <1>1, <2>3
<1> QED
  BY <1>2, <1>3

(* The usage_count a request read may be old: it is then too small.        *)
LEMMA UsedStep ==
  ASSUME TypeInv, Counts, NEW s \in Session, Acts(s), pc'[s] \in {"owner", "bump"}
  PROVE  used'[s] =< uses[req[s].key]
<1> USE DEF TypeInv, TypeOK
<1>0. First(req[s].kind) \notin {"owner", "bump"}
  BY FirstFits, RequestType
<1>1. CASE Key(s)
  <2>1. keys[req[s].key] # NoRow /\ req[s].key \in KeyId
    BY <1>1, RequestType DEF Key, Reached
  <2>2. used'[s] = keys[req[s].key].usage
    BY <1>1 DEF Key
  <2> QED
    BY <2>1, <2>2 DEF Counts
<1>2. CASE Owner(s)
  BY <1>2 DEF Owner, Counts
<1>3. ASSUME NEW o, End(s, o)
      PROVE  FALSE
  BY <1>3 DEF End, Goto
<1>4. ASSUME NEW l, Go(s, l)
      PROVE  pc'[s] = l
  BY <1>4 DEF Go, Goto
<1>5. ASSUME Begin(s) \/ Who(s) \/ Lookup(s) \/ Raise(s) \/ Pick(s) \/ Unique(s) \/ Target(s)
      PROVE  FALSE
  <2>1. \/ Reject(s)
        \/ \E l \in {"lookup", "unique", "who", "key", "enter", "mark", "revoke", "commit", "insert",
                     "deactivate", First(req[s].kind)} : Go(s, l)
    BY <1>5 DEF Begin, Who, Lookup, Raise, Pick, Unique, Target
  <2>2. ~Reject(s)
    BY <1>3 DEF Reject
  <2> QED
    BY <1>0, <1>4, <2>1, <2>2
<1>6. ASSUME Bump(s)
      PROVE  FALSE
  <2>1. Reject(s) \/ Goto(s, First(req[s].kind))
    BY <1>6 DEF Bump
  <2>2. ~Reject(s)
    BY <1>3 DEF Reject
  <2>3. pc'[s] = First(req[s].kind)
    BY <2>1, <2>2 DEF Goto
  <2> QED
    BY <1>0, <2>3
<1>7. ASSUME \/ Mark(s) \/ Enter(s) \/ ChangePassword(s) \/ Mint(s)
             \/ Revoke(s) \/ Insert(s) \/ Deactivate(s)
      PROVE  FALSE
  BY <1>7 DEF Mark, Enter, ChangePassword, Mint, Revoke, Insert, Deactivate, Goto
<1>8. ASSUME InsertFails(s) \/ DeadlockVictim(s) \/ Crash(s) \/ Published(s)
      PROVE  FALSE
  BY <1>3, <1>8 DEF InsertFails, DeadlockVictim, Crash, Published, Commit, CommitUnanswered, Publish
<1> QED
  BY <1>1, <1>2, <1>5, <1>6, <1>7, <1>8 DEF Acts, Statement, Published

(* What a session writes of a key: the count it read and one more, which   *)
(* its own commit makes good; or the count as it is; or none.              *)
LEMMA CountWritten ==
  ASSUME TypeInv, Counts, NEW s \in Session, Bump(s) \/ Mint(s) \/ Revoke(s), ~Reject(s),
         NEW k \in KeyId, ownKeys'[s][k] # Untouched
  PROVE  ownKeys'[s][k].usage =< uses[k] + Bonus(s, k)
<1> USE DEF TypeInv, TypeOK
<1>1. ASSUME NEW l \in KeyId, NEW r, ownKeys' = [ownKeys EXCEPT ![s][l] = r]
      PROVE  ownKeys'[s][k] = IF k = l THEN r ELSE ownKeys[s][k]
  BY <1>1
<1>2. ownKeys[s][k] # Untouched => ownKeys[s][k].usage =< uses[k] + Bonus(s, k)
  BY DEF Counts
<1>3. uses[k] \in Nat /\ Bonus(s, k) \in {0, 1}
  BY DEF Bonus
<1>4. CASE Bump(s)
  <2> DEFINE l == req[s].key
             r == [keys[l] EXCEPT !.usage = used[s] + 1]
  <2>1. pc[s] = "bump" /\ ownKeys' = [ownKeys EXCEPT ![s][l] = r]
    BY <1>4 DEF Bump
  <2>2. /\ l \in KeyId /\ req[s].by = "key" /\ keys[l] # NoRow /\ keys[l] \in ApiKey
        /\ used[s] \in Nat /\ used[s] =< uses[l]
    BY <2>1, RequestType, RowType DEF Reached, Counts
  <2>3. r.usage = used[s] + 1
    BY <2>2 DEF ApiKey
  <2>4. Bonus(s, l) = 1
    BY <2>2 DEF Bonus
  <2> HIDE DEF l, r
  <2>5. CASE k = l
    BY <1>1, <1>3, <2>1, <2>2, <2>3, <2>4, <2>5
  <2>6. CASE k # l
    BY <1>1, <1>2, <2>1, <2>2, <2>6
  <2> QED
    BY <2>5, <2>6
<1>5. CASE Mint(s)
  <2> DEFINE l == Some(FreeKeys)
  <2>1. l \in KeyId
    BY <1>5 DEF Mint, Some, FreeKeys
  <2>2. PICK e : ownKeys' = [ownKeys EXCEPT ![s][l] =
                               [user |-> me[s], active |-> TRUE, expires |-> e, usage |-> 0]]
    BY <1>5 DEF Mint
  <2> HIDE DEF l
  <2>3. CASE k = l
    <3>1. ownKeys'[s][k].usage = 0
      BY <1>1, <2>1, <2>2, <2>3
    <3> QED
      BY <1>3, <3>1
  <2>4. CASE k # l
    <3>1. ownKeys'[s][k] = ownKeys[s][k]
      BY <1>1, <2>1, <2>2, <2>4
    <3> QED
      BY <1>2, <3>1
  <2> QED
    BY <2>3, <2>4
<1>6. CASE Revoke(s)
  <2> DEFINE l == req[s].target
             b == KeyImage(s, l)
             r == [b EXCEPT !.active = FALSE]
  <2>1. l \in KeyId /\ keys[l] # NoRow
    BY <1>6, RequestType DEF Revoke, Reached
  <2>2. b \in ApiKey /\ b.usage \in Nat
    BY <2>1, RowType DEF KeyImage, ApiKey
  <2>3. r.usage = b.usage
    <3> HIDE DEF b
    <3> QED
      BY <2>2 DEF ApiKey
  <2>4. b.usage =< uses[l] + Bonus(s, l)
    <3>1. CASE ownKeys[s][l] = Untouched
      <4>1. b = keys[l] /\ keys[l].usage =< uses[l]
        BY <2>1, <3>1 DEF KeyImage, Counts
      <4>2. uses[l] \in Nat /\ Bonus(s, l) \in {0, 1}
        BY <2>1 DEF Bonus
      <4> HIDE DEF b
      <4> QED
        BY <2>2, <4>1, <4>2
    <3>2. CASE ownKeys[s][l] # Untouched
      BY <2>1, <3>2 DEF KeyImage, Counts
    <3> QED
      BY <3>1, <3>2
  <2>5. ownKeys' = [ownKeys EXCEPT ![s][l] = r]
    BY <1>6 DEF Revoke, KeyImage
  <2> HIDE DEF l, b, r
  <2> QED
    BY <1>1, <1>2, <2>1, <2>3, <2>4, <2>5
<1> QED
  BY <1>4, <1>5, <1>6

(* Only these write users and keys; only a commit changes the tables.      *)
WritesAUser(s) == Mark(s) \/ Enter(s) \/ ChangePassword(s) \/ Insert(s) \/ Deactivate(s)
WritesAKey(s)  == (Bump(s) \/ Mint(s) \/ Revoke(s)) /\ ~Reject(s)

LEMMA Effects ==
  ASSUME TypeInv, NEW s \in Session, Acts(s)
  PROVE  /\ WritesAUser(s) \/ ownUsers'[s] \in {ownUsers[s], CleanUsers}
         /\ WritesAKey(s) \/ ownKeys'[s] \in {ownKeys[s], CleanKeys}
         /\ Published(s) \/ UNCHANGED <<users, keys, uses, secret>>
<1> USE DEF TypeInv, TypeOK
<1>1. ASSUME NEW o, End(s, o)
      PROVE  ownUsers'[s] = CleanUsers /\ ownKeys'[s] = CleanKeys
  BY <1>1 DEF End
<1>2. ASSUME Reject(s)
      PROVE  /\ ownUsers'[s] = CleanUsers /\ ownKeys'[s] = CleanKeys
             /\ UNCHANGED <<users, keys, uses>>
  BY <1>1, <1>2 DEF Reject, tables
<1>3. ASSUME NEW l, Go(s, l)
      PROVE  UNCHANGED <<users, keys, uses, ownUsers, ownKeys>>
  BY <1>3 DEF Go, tables, owned
<1>4. CASE \/ Begin(s) \/ Who(s) \/ Key(s) \/ Owner(s) \/ Lookup(s)
           \/ Raise(s) \/ Pick(s) \/ Unique(s) \/ Target(s)
  <2>1. (Reject(s) \/ \E l : Go(s, l)) /\ secret' = secret
    BY <1>4 DEF Begin, Who, Key, Owner, Lookup, Raise, Pick, Unique, Target
  <2> QED
    BY <1>2, <1>3, <2>1
<1>5. CASE WritesAUser(s)
  <2>1. UNCHANGED <<users, keys, uses, secret, ownKeys>>
    BY <1>5 DEF WritesAUser, Mark, Enter, ChangePassword, Insert, Deactivate, tables, past
  <2> QED
    BY <1>5, <2>1
<1>6. CASE Mint(s) \/ Revoke(s) \/ Bump(s)
  <2>1. CASE Reject(s)
    BY <1>2, <1>6, <2>1 DEF Mint, Revoke, Bump, past
  <2>2. CASE ~Reject(s)
    <3>1. UNCHANGED <<users, keys, uses, secret, ownUsers>>
      BY <1>6, <2>2 DEF Mint, Revoke, Bump, tables, past
    <3> QED
      BY <1>6, <2>2, <3>1 DEF WritesAKey
  <2> QED
    BY <2>1, <2>2
<1>7. CASE InsertFails(s) \/ DeadlockVictim(s) \/ Crash(s)
  <2>1. UNCHANGED <<users, keys, uses, secret>>
    BY <1>7 DEF InsertFails, DeadlockVictim, Crash, tables, past
  <2> QED
    BY <1>1, <1>7, <2>1 DEF InsertFails, DeadlockVictim, Crash
<1>8. CASE Published(s)
  BY <1>1, <1>8 DEF Published, Commit, CommitUnanswered, Publish
<1> QED
  BY <1>4, <1>5, <1>6, <1>7, <1>8 DEF Acts, Statement, Published, WritesAUser

LEMMA CountsStep ==
  ASSUME TypeInv, Counts, [Next]_vars
  PROVE  Counts'
<1> USE DEF TypeInv, TypeOK
<1>1. /\ uses \in [KeyId -> Nat] /\ uses' \in [KeyId -> Nat]
      /\ \A k \in KeyId : uses[k] =< uses'[k]
  BY UsesGrow
<1>2. TypeInv'
  BY NextType
<1>3. ASSUME NEW n \in Nat, NEW k \in KeyId, n =< uses[k]
      PROVE  n =< uses'[k]
  BY <1>1, <1>3
<1>4. ASSUME NEW n \in Nat, NEW k \in KeyId, NEW t \in Session, n =< uses[k] + Bonus(t, k)
      PROVE  n =< uses'[k] + Bonus(t, k)
  <2>1. Bonus(t, k) \in {0, 1}
    BY DEF Bonus
  <2> QED
    BY <1>1, <1>4, <2>1
<1>5. \A k \in KeyId : keys[k] # NoRow => keys[k].usage \in Nat
  BY RowType DEF ApiKey
<1>6. \A t \in Session, k \in KeyId : ownKeys'[t][k] # Untouched => ownKeys'[t][k].usage \in Nat
  BY <1>2, OwnType DEF ApiKey
<1>7. \A t \in Session, k \in KeyId : ownKeys[t][k] # Untouched => ownKeys[t][k].usage \in Nat
  BY RowType DEF ApiKey
<1>8. ASSUME NEW s \in Session, Acts(s)
      PROVE  Counts'
  <2>1. req' = req /\ \A t \in Session \ {s} : Unmoved(t)
    BY <1>8, Frame
  <2>2. \A t \in Session, k \in KeyId : Bonus(t, k)' = Bonus(t, k)
    BY <2>1 DEF Bonus
  <2>3. ASSUME NEW t \in Session, NEW k \in KeyId, ownKeys'[t][k] # Untouched
        PROVE  ownKeys'[t][k].usage =< uses'[k] + Bonus(t, k)
    <3>1. CASE ownKeys'[t] = ownKeys[t]
      BY <1>4, <1>7, <2>3, <3>1 DEF Counts
    <3>2. CASE t = s /\ WritesAKey(s)
      BY <1>4, <1>6, <2>3, <3>2, CountWritten DEF WritesAKey
    <3>3. CASE t = s /\ ownKeys'[t] = CleanKeys
      BY <2>3, <3>3 DEF CleanKeys
    <3> QED
      BY <1>8, <2>1, <3>1, <3>2, <3>3, Effects DEF Unmoved
  <2>4. ASSUME NEW k \in KeyId, keys'[k] # NoRow
        PROVE  keys'[k].usage =< uses'[k]
    <3>1. CASE Published(s)
      <4>1. /\ keys'[k] = IF ownKeys[s][k] = Untouched THEN keys[k] ELSE ownKeys[s][k]
            /\ uses' = IF req[s].by = "key" THEN [uses EXCEPT ![req[s].key] = @ + 1] ELSE uses
        BY <3>1 DEF Published, Commit, CommitUnanswered, Publish
      <4>2. uses'[k] = uses[k] + Bonus(s, k)
        BY <1>1, <4>1 DEF Bonus
      <4> QED
        BY <1>3, <1>5, <2>4, <4>1, <4>2 DEF Counts
    <3>2. CASE ~Published(s)
      BY <1>3, <1>5, <1>8, <2>4, <3>2, Effects DEF Counts
    <3> QED
      BY <3>1, <3>2
  <2>5. ASSUME NEW t \in Session, pc'[t] \in {"owner", "bump"}
        PROVE  used'[t] =< uses'[req[t].key]
    <3>1. req[t].key \in KeyId /\ used'[t] \in Nat
      BY <1>2, RequestType
    <3>2. used'[t] =< uses[req[t].key]
      <4>1. CASE t = s
        BY <1>8, <2>5, <4>1, UsedStep
      <4>2. CASE t # s
        BY <2>1, <2>5, <4>2 DEF Counts, Unmoved
      <4> QED
        BY <4>1, <4>2
    <3> QED
      BY <1>3, <3>1, <3>2
  <2> QED
    BY <2>1, <2>2, <2>3, <2>4, <2>5 DEF Counts
<1>9. CASE Lasting
  BY <1>9 DEF Lasting, tables, locals, owned, past, Counts, Bonus
<1> QED
  BY <1>8, <1>9, NextActs

(* usage_count never runs ahead of what was carried out with the key, how- *)
(* ever the requests with it overlap, are refused, fail or are killed:     *)
(* validate_api_key in crud/users.py and the rollback of get_db.           *)
THEOREM UsageIsNotInflated == Spec => []UsageNotInflated
<1>1. Init => TypeInv /\ Counts
  <2> SUFFICES ASSUME Init, TypeInv
               PROVE  Counts
    BY InitType
  <2>1. \A k \in KeyId : keys[k] # NoRow => keys[k].usage = uses[k] /\ uses[k] \in Nat
    BY DEF Init, TypeInv, TypeOK
  <2>2. \A k \in KeyId : keys[k] # NoRow => keys[k].usage =< uses[k]
    BY <2>1
  <2> QED
    BY <2>2 DEF Init, Counts, CleanKeys
<1>2. TypeInv /\ Counts /\ [Next]_vars => (TypeInv /\ Counts)'
  BY NextType, CountsStep
<1>3. TypeInv /\ Counts => UsageNotInflated
  BY DEF Counts, UsageNotInflated
<1> QED
  BY <1>1, <1>2, <1>3, PTL DEF Spec

-----------------------------------------------------------------------------
(* Passwords and administrators.                                           *)

(* A session writes a row as it is, but for what its request is about.     *)
Sets(s, u) == req[s].kind = "password" /\ u = me[s]
AsAsked(s, u) ==
    LET r == ownUsers[s][u] IN
    /\ users[u] = NoRow => r.password = req[s].password
    /\ users[u] # NoRow =>
        /\ r.password = IF Sets(s, u) THEN req[s].password ELSE secret[u]
        /\ r.admin = users[u].admin
        /\ users[u].active => r.active \/ (req[s].kind = "deactivate" /\ u = req[s].target)
Written(s) == \A u \in UserId : ownUsers[s][u] # Untouched => AsAsked(s, u)

(* What its place says of a request, beyond Reached.                       *)
Deactivates(s) == pc[s] \in {"target", "deactivate"} \/ (pc[s] = "commit" /\ req[s].kind = "deactivate")
Serves(s) ==
    /\ pc[s] \in {"lookup", "mark", "raise", "enter"} => req[s].kind = "login"
    /\ pc[s] = "password" => req[s].kind = "password"
    /\ pc[s] = "mint" => req[s].kind = "newkey"
    /\ pc[s] = "bump" => seen[s].admin = users[me[s]].admin
    /\ pc[s] = "commit" /\ req[s].kind = "password" =>
        users[me[s]] # NoRow /\ ownUsers[s][me[s]] # Untouched
    /\ Deactivates(s) =>
        users[me[s]] # NoRow /\ users[me[s]].admin /\ me[s] # req[s].target

RowInv ==
    /\ TypeInv /\ Locks /\ WrittenOnce
    /\ PasswordCurrent
    /\ \A s \in Session : Written(s) /\ Serves(s)

(* The statements that write a user.                                       *)
LEMMA WrittenHere ==
  ASSUME RowInv, NEW s \in Session, WritesAUser(s)
  PROVE  Written(s)'
<1> USE DEF RowInv, TypeInv, TypeOK
<1>1. /\ UNCHANGED <<users, keys, req, me, secret>>
      /\ pc[s] \in {"mark", "enter", "password", "insert", "deactivate"}
  BY DEF WritesAUser, Mark, Enter, ChangePassword, Insert, Deactivate, tables, env, locals, past
<1>2. \A u \in UserId : ownUsers[s][u] = Untouched
  BY <1>1 DEF WrittenOnce
<1>3. ASSUME NEW u \in UserId, NEW r, ownUsers' = [ownUsers EXCEPT ![s][u] = r],
             /\ users[u] = NoRow => r.password = req[s].password
             /\ users[u] # NoRow =>
                   /\ r.password = IF Sets(s, u) THEN req[s].password ELSE secret[u]
                   /\ r.admin = users[u].admin
                   /\ users[u].active =>
                         r.active \/ (req[s].kind = "deactivate" /\ u = req[s].target)
      PROVE  Written(s)'
  <2>1. \A v \in UserId : ownUsers'[s][v] = IF v = u THEN r ELSE Untouched
    BY <1>2, <1>3
  <2> QED
    BY <1>1, <1>3, <2>1 DEF Written, AsAsked, Sets
<1>4. Reached(s) /\ Serves(s) /\ me[s] \in UserId
  OBVIOUS
<1>5. \A u \in UserId : users[u] # NoRow => users[u] \in User /\ users[u].password = secret[u]
  BY RowType DEF PasswordCurrent
<1>6. CASE Mark(s)
  <2> DEFINE u == me[s]
             n == seen[s].attempts + 1
             x == IF n >= MaxFailed THEN clock + Lockout ELSE users[u].locked
             r == [users[u] EXCEPT !.attempts = n, !.locked = x]
  <2>1. pc[s] = "mark" /\ ownUsers' = [ownUsers EXCEPT ![s][u] = r]
    BY <1>6 DEF Mark
  <2>2. users[u] # NoRow /\ ~Sets(s, u) /\ req[s].kind = "login"
    BY <1>4, <2>1 DEF Reached, Serves, Sets
  <2>3. r.password = users[u].password /\ r.admin = users[u].admin /\ r.active = users[u].active
    <3> HIDE DEF n, x
    <3> QED
      BY <1>4, <1>5, <2>2 DEF User
  <2> HIDE DEF u, r
  <2> QED
    BY <1>3, <1>4, <1>5, <2>1, <2>2, <2>3 DEF u
<1>7. CASE Enter(s)
  <2> DEFINE u == me[s]
             a == IF seen[s].attempts = 0 THEN users[u].attempts ELSE 0
             x == IF seen[s].locked = NoTime THEN users[u].locked ELSE NoTime
             r == [users[u] EXCEPT !.attempts = a, !.locked = x]
  <2>1. pc[s] = "enter" /\ ownUsers' = [ownUsers EXCEPT ![s][u] = r]
    BY <1>7 DEF Enter
  <2>2. users[u] # NoRow /\ ~Sets(s, u) /\ req[s].kind = "login"
    BY <1>4, <2>1 DEF Reached, Serves, Sets
  <2>3. r.password = users[u].password /\ r.admin = users[u].admin /\ r.active = users[u].active
    <3> HIDE DEF a, x
    <3> QED
      BY <1>4, <1>5, <2>2 DEF User
  <2> HIDE DEF u, r
  <2> QED
    BY <1>3, <1>4, <1>5, <2>1, <2>2, <2>3 DEF u
<1>8. CASE ChangePassword(s)
  <2> DEFINE u == me[s]
             r == [users[u] EXCEPT !.password = req[s].password]
  <2>1. pc[s] = "password" /\ ownUsers' = [ownUsers EXCEPT ![s][u] = r]
    BY <1>8 DEF ChangePassword
  <2>2. users[u] # NoRow /\ Sets(s, u)
    BY <1>4, <2>1 DEF Reached, Serves, Sets
  <2>3. r.password = req[s].password /\ r.admin = users[u].admin /\ r.active = users[u].active
    BY <1>4, <1>5, <2>2 DEF User
  <2> HIDE DEF u, r
  <2> QED
    BY <1>3, <1>4, <2>1, <2>2, <2>3 DEF u
<1>9. CASE Insert(s)
  <2> DEFINE u == Some(FreeUsers)
             r == [email |-> Lower(req[s].email), admin |-> req[s].admin,
                   active |-> TRUE, password |-> req[s].password,
                   attempts |-> 0, locked |-> NoTime]
  <2>1. u \in UserId /\ users[u] = NoRow
    BY <1>9 DEF Insert, Some, FreeUsers
  <2>2. ownUsers' = [ownUsers EXCEPT ![s][u] = r] /\ r.password = req[s].password
    BY <1>9 DEF Insert
  <2> HIDE DEF u, r
  <2> QED
    BY <1>3, <2>1, <2>2
<1>10. CASE Deactivate(s)
  <2> DEFINE u == req[s].target
             r == [users[u] EXCEPT !.active = FALSE]
  <2>1. pc[s] = "deactivate" /\ ownUsers' = [ownUsers EXCEPT ![s][u] = r]
    BY <1>10 DEF Deactivate
  <2>2. u \in UserId /\ users[u] # NoRow /\ req[s].kind = "deactivate" /\ ~Sets(s, u)
    BY <1>4, <2>1, RequestType DEF Reached, Sets
  <2>3. r.password = users[u].password /\ r.admin = users[u].admin
    BY <1>5, <2>2 DEF User
  <2> HIDE DEF u, r
  <2> QED
    BY <1>3, <1>5, <2>1, <2>2, <2>3 DEF u
<1> QED
  BY <1>6, <1>7, <1>8, <1>9, <1>10 DEF WritesAUser

(* A user who is there stays, and stays an administrator or none.          *)
AdminsStay ==
    \A u \in UserId : users[u] # NoRow => users'[u] # NoRow /\ users'[u].admin = users[u].admin

LEMMA AdminsStayStep ==
  ASSUME RowInv, [Next]_vars
  PROVE  AdminsStay
<1> USE DEF RowInv
<1>1. RowsStay
  BY StatementSteps, StepTypes
<1>2. ASSUME NEW s \in Session, Published(s)
      PROVE  AdminsStay
  <2>1. \A u \in UserId : users'[u] = IF ownUsers[s][u] = Untouched THEN users[u] ELSE ownUsers[s][u]
    BY <1>2 DEF Published, Commit, CommitUnanswered, Publish
  <2> QED
    BY <1>1, <2>1 DEF AdminsStay, RowsStay, Written, AsAsked
<1>3. CASE users' = users
  BY <1>3 DEF AdminsStay
<1> QED
  BY <1>2, <1>3, NextActs, Effects DEF Lasting, tables

(* After a commit every password is the one last set.                      *)
LEMMA CommitPasswords ==
  ASSUME RowInv, NEW s \in Session, Published(s)
  PROVE  /\ PasswordCurrent'
         /\ \A u \in UserId : ownUsers[s][u] = Untouched =>
              users'[u] = users[u] /\ secret'[u] = secret[u]
<1> USE DEF RowInv, TypeInv, TypeOK
<1>1. /\ \A u \in UserId : users'[u] = IF ownUsers[s][u] = Untouched THEN users[u] ELSE ownUsers[s][u]
      /\ \A u \in UserId :
            secret'[u] = IF \/ req[s].kind = "password" /\ u = me[s]
                            \/ users[u] = NoRow /\ users'[u] # NoRow
                         THEN req[s].password ELSE secret[u]
      /\ pc[s] = "commit"
  BY DEF Published, Commit, CommitUnanswered, Publish
<1>2. Serves(s) /\ Written(s)
  OBVIOUS
<1>3. ASSUME NEW u \in UserId, ownUsers[s][u] = Untouched
      PROVE  users'[u] = users[u] /\ secret'[u] = secret[u]
  BY <1>1, <1>2, <1>3 DEF Serves
<1>4. ASSUME NEW u \in UserId, users'[u] # NoRow
      PROVE  users'[u].password = secret'[u]
  <2>1. CASE ownUsers[s][u] = Untouched
    BY <1>3, <1>4, <2>1 DEF PasswordCurrent
  <2>2. CASE ownUsers[s][u] # Untouched
    <3>1. AsAsked(s, u) /\ users'[u] = ownUsers[s][u]
      BY <1>1, <1>2, <2>2 DEF Written
    <3> QED
      BY <1>1, <1>4, <3>1 DEF AsAsked, Sets
  <2> QED
    BY <2>1, <2>2
<1> QED
  BY <1>3, <1>4 DEF PasswordCurrent

(* What the others have written is as it was, whoever commits.             *)
LEMMA WrittenOthers ==
  ASSUME RowInv, NEW s \in Session, Acts(s), NEW t \in Session \ {s}
  PROVE  Written(t)'
<1> USE DEF RowInv
<1>1. req' = req /\ Unmoved(t)
  BY Frame
<1>2. CASE Published(s)
  <2>1. \A u \in UserId : ownUsers[t][u] # Untouched => ownUsers[s][u] = Untouched
    BY DEF Locks
  <2>2. \A u \in UserId : ownUsers[t][u] # Untouched => users'[u] = users[u] /\ secret'[u] = secret[u]
    BY <1>2, <2>1, CommitPasswords
  <2>3. \A u \in UserId : ownUsers[t][u] # Untouched /\ AsAsked(t, u) => AsAsked(t, u)'
    BY <1>1, <2>2 DEF Unmoved, AsAsked, Sets
  <2> QED
    BY <1>1, <2>3 DEF Unmoved, Written
<1>3. CASE ~Published(s)
  <2>1. UNCHANGED <<users, secret>>
    BY <1>3, Effects
  <2> QED
    BY <1>1, <2>1 DEF Unmoved, Written, AsAsked, Sets
<1> QED
  BY <1>2, <1>3

LEMMA WrittenSelf ==
  ASSUME RowInv, NEW s \in Session, Acts(s), WrittenOnce'
  PROVE  Written(s)'
<1> USE DEF RowInv, TypeInv, TypeOK
<1>1. CASE WritesAUser(s)
  BY <1>1, WrittenHere
<1>2. CASE ownUsers'[s] = CleanUsers
  BY <1>2 DEF Written, CleanUsers
<1>3. CASE ownUsers'[s] = ownUsers[s] /\ pc[s] \notin {"raise", "commit"}
  BY <1>3 DEF WrittenOnce, Written
<1>4. CASE pc[s] \in {"raise", "commit"} /\ ~WritesAUser(s)
  <2>1. \E o : End(s, o)
    BY <1>4 DEF Acts, Statement, Begin, Who, Key, Owner, Bump, Lookup, Raise, Mint, Pick, Revoke, Unique,
         InsertFails, Target, Published, Commit, CommitUnanswered, Publish, DeadlockVictim, Crash, Reject, WritesAUser
  <2>2. ownUsers'[s] = CleanUsers
    BY <2>1 DEF End
  <2> QED
    BY <1>2, <2>2
<1> QED
  BY <1>1, <1>2, <1>3, <1>4, Effects

(* A request keeps its place while others make a step.                     *)
LEMMA ServesOthers ==
  ASSUME RowInv, AdminsStay, req' = req, NEW t \in Session,
         pc'[t] = pc[t], me'[t] = me[t], seen'[t] = seen[t], ownUsers'[t] = ownUsers[t]
  PROVE  Serves(t)'
<1> USE DEF RowInv, TypeInv, TypeOK
<1>1. me[t] \in UserId /\ Serves(t) /\ Reached(t)
  OBVIOUS
<1>2. pc[t] = "bump" => users[me[t]] # NoRow
  BY <1>1 DEF Reached
<1> QED
  BY <1>1, <1>2 DEF Serves, Deactivates, AdminsStay

(* An administrator's request that is admitted is made by one.             *)
LEMMA ServesActs ==
  ASSUME RowInv, AdminsStay, NEW s \in Session, Acts(s)
  PROVE  Serves(s)'
<1> USE DEF RowInv, TypeInv, TypeOK
<1>1. Serves(s) /\ Reached(s) /\ me[s] \in UserId
  OBVIOUS
<1>2. req' = req
  BY Frame
<1>3. ASSUME NEW o, End(s, o)
      PROVE  Serves(s)'
  BY <1>3 DEF End, Goto, Serves, Deactivates
<1>4. ASSUME Reject(s)
      PROVE  Serves(s)'
  BY <1>3, <1>4 DEF Reject
<1>5. ASSUME NEW l, Go(s, l)
      PROVE  pc'[s] = l /\ users' = users
  BY <1>5 DEF Go, Goto, tables
<1>6. ASSUME pc'[s] = First(req[s].kind),
             req[s].kind \in AdminKind =>
                users'[me'[s]] # NoRow /\ users'[me'[s]].admin,
             req[s].kind = "deactivate" => req[s].target # me'[s],
             req[s].kind # "login"
      PROVE  Serves(s)'
  <2>1. /\ First(req[s].kind) = "password" <=> req[s].kind = "password"
        /\ First(req[s].kind) = "mint" <=> req[s].kind = "newkey"
        /\ First(req[s].kind) = "target" => req[s].kind = "deactivate"
        /\ First(req[s].kind) = "commit" => req[s].kind \notin {"password", "deactivate"}
        /\ First(req[s].kind) \in {"password", "mint", "pick", "unique", "target", "commit"}
    BY RequestType DEF First, Kind
  <2> QED
    BY <1>2, <1>6, <2>1 DEF Serves, Deactivates, AdminKind
<1>7. CASE Begin(s)
  <2>1. \/ Reject(s)
        \/ Go(s, "lookup") /\ req[s].kind = "login"
        \/ \E l \in {"unique", "who", "key"} : Go(s, l)
    BY <1>7 DEF Begin
  <2>2. ASSUME NEW l \in {"lookup", "unique", "who", "key"}, Go(s, l),
               l = "lookup" => req[s].kind = "login"
        PROVE  Serves(s)'
    BY <1>2, <1>5, <2>2 DEF Serves, Deactivates
  <2> QED
    BY <1>4, <2>1, <2>2
<1>8. CASE Who(s) /\ ~Reject(s)
  <2> DEFINE u == token[s].user
  <2>1. /\ pc[s] = "who" /\ me' = [me EXCEPT ![s] = u]
        /\ Go(s, First(req[s].kind)) /\ Admissible(s, u, users[u])
    BY <1>8 DEF Who
  <2>2. token[s] \in issued /\ u \in UserId /\ users[u] # NoRow /\ req[s].by = "token"
    BY <1>1, <2>1 DEF Reached, Token, Known
  <2>3. pc'[s] = First(req[s].kind) /\ users' = users /\ me'[s] = u
    BY <1>5, <2>1, <2>2
  <2>4. req[s].kind # "login"
    BY <2>2, RequestType
  <2> HIDE DEF u
  <2> QED
    BY <1>6, <2>1, <2>2, <2>3, <2>4 DEF Admissible
<1>9. CASE Bump(s) /\ ~Reject(s)
  <2>1. /\ pc[s] = "bump" /\ me' = me /\ users' = users
        /\ Goto(s, First(req[s].kind)) /\ Admissible(s, me[s], seen[s])
    BY <1>9 DEF Bump, locals, tables
  <2>2. users[me[s]] # NoRow /\ req[s].by = "key" /\ seen[s].admin = users[me[s]].admin
    BY <1>1, <2>1 DEF Reached, Serves
  <2>3. pc'[s] = First(req[s].kind)
    BY <2>1 DEF Goto
  <2>4. req[s].kind # "login"
    BY <2>2, RequestType
  <2> QED
    BY <1>6, <2>1, <2>2, <2>3, <2>4 DEF Admissible
<1>10. CASE Key(s) /\ ~Reject(s)
  <2>1. pc'[s] = "owner"
    BY <1>5, <1>10 DEF Key
  <2> QED
    BY <2>1 DEF Serves, Deactivates
<1>11. CASE Owner(s) /\ ~Reject(s)
  <2>1. pc'[s] = "bump" /\ users' = users /\ me' = me /\ seen'[s] = users[me[s]]
    BY <1>5, <1>11 DEF Owner
  <2> QED
    BY <2>1 DEF Serves, Deactivates
<1>12. CASE Lookup(s) /\ ~Reject(s)
  <2>1. pc[s] = "lookup" /\ pc'[s] \in {"enter", "mark"}
    BY <1>5, <1>12 DEF Lookup
  <2> QED
    BY <1>1, <1>2, <2>1 DEF Serves, Deactivates
<1>13. CASE (Pick(s) \/ Unique(s)) /\ ~Reject(s)
  <2>1. /\ pc[s] \in {"pick", "unique"} /\ pc'[s] \in {"revoke", "insert", "commit"}
    BY <1>5, <1>13 DEF Pick, Unique
  <2>2. req[s].kind \in {"revoke", "create", "startup"}
    BY <1>1, <2>1 DEF Reached
  <2> QED
    BY <1>2, <2>1, <2>2 DEF Serves, Deactivates
<1>14. CASE Target(s) /\ ~Reject(s)
  <2>1. pc[s] = "target" /\ pc'[s] \in {"deactivate", "commit"} /\ users' = users /\ me' = me
    BY <1>5, <1>14 DEF Target, locals
  <2>2. req[s].kind = "deactivate"
    BY <1>1, <2>1 DEF Reached
  <2> QED
    BY <1>1, <1>2, <2>1, <2>2 DEF Serves, Deactivates
<1>15. CASE WritesAUser(s)
  <2>1. /\ pc[s] \in {"mark", "enter", "password", "insert", "deactivate"}
        /\ users' = users /\ me' = me
        /\ pc'[s] = IF pc[s] = "mark" THEN "raise" ELSE "commit"
    BY <1>15 DEF WritesAUser, Mark, Enter, ChangePassword, Insert, Deactivate, tables, locals, Goto
  <2>2. CASE pc[s] # "password"
    BY <1>1, <1>2, <2>1, <2>2 DEF Serves, Deactivates, Reached
  <2>3. CASE pc[s] = "password"
    <3>1. ChangePassword(s)
      BY <1>15, <2>3 DEF WritesAUser, Mark, Enter, ChangePassword, Insert, Deactivate
    <3>2. ownUsers' = [ownUsers EXCEPT ![s][me[s]] = [users[me[s]] EXCEPT !.password = req[s].password]]
      BY <3>1 DEF ChangePassword
    <3>3. users[me[s]] # NoRow /\ WritesUser(s)
      BY <1>1, <2>3, <3>1, LoginWrites DEF Reached
    <3>4. ownUsers'[s][me[s]] # Untouched
      <4>1. users[me[s]] \in User /\ req[s].password \in Secret
        BY <1>1, <3>3, RowType, RequestType
      <4>2. [users[me[s]] EXCEPT !.password = req[s].password] \in User
        BY <4>1 DEF User
      <4> QED
        BY <1>1, <3>2, <4>2, NullsAssumption
    <3> QED
      BY <1>1, <1>2, <2>1, <2>3, <3>3, <3>4 DEF Serves, Deactivates
  <2> QED
    BY <2>2, <2>3
<1>16. CASE Mint(s) \/ Revoke(s)
  <2>1. pc[s] \in {"mint", "revoke"} /\ pc'[s] = "commit"
    BY <1>16 DEF Mint, Revoke, Goto
  <2>2. req[s].kind \in {"newkey", "revoke"}
    BY <1>1, <2>1 DEF Serves, Reached
  <2> QED
    BY <1>2, <2>1, <2>2 DEF Serves, Deactivates
<1>17. CASE Raise(s) \/ InsertFails(s) \/ Published(s) \/ DeadlockVictim(s) \/ Crash(s)
  BY <1>3, <1>4, <1>17 DEF Raise, InsertFails, Published, Commit, CommitUnanswered, Publish, DeadlockVictim, Crash
<1> QED
  BY <1>4, <1>7, <1>8, <1>9, <1>10, <1>11, <1>12, <1>13, <1>14, <1>15, <1>16, <1>17
     DEF Acts, Statement, Published, WritesAUser

LEMMA RowInit == Init => RowInv
<1> SUFFICES ASSUME Init
             PROVE  RowInv
  OBVIOUS
<1>1. TypeInv /\ Locks /\ WrittenOnce
  BY EmailInit DEF EmailInv
<1>2. PasswordCurrent
  BY DEF Init, PasswordCurrent
<1>3. \A s \in Session : Written(s) /\ Serves(s)
  BY DEF Init, Written, CleanUsers, Serves, Deactivates
<1> QED
  BY <1>1, <1>2, <1>3 DEF RowInv

(* That a row has one writer needs no more than the writers' waiting.      *)
LEMMA LocksStep ==
  ASSUME TypeInv, Locks, Step
  PROVE  Locks'
<1>1. CASE Quiet
  BY <1>1 DEF Locks, Quiet
<1>2. ASSUME NEW s \in Session, Drops(s) \/ Commits(s)
      PROVE  Locks'
  BY <1>2, EndCases DEF Locks
<1>3. ASSUME NEW s \in Session, WritesUser(s) \/ AddsUser(s)
      PROVE  Locks'
  BY <1>3, UserWriteFree DEF Locks
<1>4. ASSUME NEW s \in Session, WritesKey(s)
      PROVE  Locks'
  <2>1. ownUsers' = ownUsers
    BY <1>4 DEF WritesKey
  <2>2. PICK k \in KeyId, r \in ApiKey :
          ownKeys' = [ownKeys EXCEPT ![s][k] = r] /\ KeyHolders(s, k) = {}
    BY <1>4 DEF WritesKey
  <2>3. /\ \A t \in Session, l \in KeyId :
              ownKeys'[t][l] = IF t = s /\ l = k THEN r ELSE ownKeys[t][l]
        /\ \A t \in Session \ {s} : ownKeys[t][k] = Untouched
    BY <2>2, OwnType DEF KeyHolders
  <2> QED
    BY <2>1, <2>3 DEF Locks
<1> QED
  BY <1>1, <1>2, <1>3, <1>4 DEF Step

LEMMA RowNext == RowInv /\ [Next]_vars => RowInv'
<1> SUFFICES ASSUME RowInv, [Next]_vars
             PROVE  RowInv'
  OBVIOUS
<1>1. TypeInv' /\ Locks' /\ WrittenOnce' /\ AdminsStay
  BY NextType, StatementSteps, LocksStep, WrittenOnceStep, AdminsStayStep DEF RowInv
<1>2. ASSUME NEW s \in Session, Acts(s)
      PROVE  RowInv'
  <2>1. \A t \in Session : Written(t)'
    BY <1>1, <1>2, WrittenSelf, WrittenOthers
  <2>2. \A t \in Session : Serves(t)'
    BY <1>1, <1>2, ServesActs, ServesOthers, Frame DEF RowInv, Unmoved
  <2>3. PasswordCurrent'
    BY <1>2, CommitPasswords, Effects DEF RowInv, PasswordCurrent
  <2> QED
    BY <1>1, <2>1, <2>2, <2>3 DEF RowInv
<1>3. CASE Lasting
  <2>1. \A t \in Session : Serves(t)'
    BY <1>1, <1>3, ServesOthers DEF Lasting, locals, owned
  <2>2. PasswordCurrent' /\ \A t \in Session : Written(t)'
    BY <1>3 DEF Lasting, tables, locals, owned, past, RowInv, PasswordCurrent, Written, AsAsked, Sets
  <2> QED
    BY <1>1, <2>1, <2>2 DEF RowInv
<1> QED
  BY <1>2, <1>3, NextActs

(* The password of every user is the one last set for it: a login or a     *)
(* deactivation that read the row before never writes the old one back,    *)
(* as SQLAlchemy writes only changed columns: crud/users.py.               *)
THEOREM PasswordIsCurrent == Spec => []PasswordCurrent
<1>1. RowInv => PasswordCurrent
  BY DEF RowInv
<1> QED
  BY <1>1, RowInit, RowNext, PTL DEF Spec

(* Whoever deactivates the last active administrator has been deactivated  *)
(* since the request began: the test against the own account in            *)
(* routes/auth.py keeps any one administrator from doing it alone.         *)
THEOREM LastAdminFallsToStaleActor == Spec => LastAdminByStaleActor
<1> DEFINE Act ==
      ActiveAdmins # {} /\ (ActiveAdmins = {})' =>
         \E s \in Session : /\ req[s].kind = "deactivate" /\ pc[s] = "commit"
                            /\ ~users[me[s]].active
<1>1. RowInv /\ [Next]_vars => Act
  <2> SUFFICES ASSUME RowInv, [Next]_vars, ActiveAdmins # {}, ActiveAdmins' = {}
               PROVE  \E s \in Session : /\ req[s].kind = "deactivate" /\ pc[s] = "commit"
                                         /\ ~users[me[s]].active
    OBVIOUS
  <2>1. users' # users
    BY DEF ActiveAdmins
  <2>2. PICK s \in Session : Published(s)
    BY <2>1, NextActs, Effects DEF Lasting, tables, RowInv
  <2>3. PICK u \in UserId : users[u] # NoRow /\ users[u].active /\ users[u].admin
    BY DEF ActiveAdmins
  <2>4. AdminsStay /\ Written(s) /\ Serves(s) /\ pc[s] = "commit" /\ me[s] \in UserId
    BY <2>2, AdminsStayStep DEF RowInv, TypeInv, TypeOK, Published, Commit, CommitUnanswered, Publish
  <2>5. \A v \in UserId : users'[v] = IF ownUsers[s][v] = Untouched THEN users[v] ELSE ownUsers[s][v]
    BY <2>2 DEF Published, Commit, CommitUnanswered, Publish
  <2>6. ASSUME NEW v \in UserId, users[v] # NoRow, users[v].active, users[v].admin
        PROVE  req[s].kind = "deactivate" /\ v = req[s].target
    <3>1. users'[v] # NoRow /\ users'[v].admin
      BY <2>4, <2>6 DEF AdminsStay
    <3>2. ~users'[v].active
      BY <3>1 DEF ActiveAdmins
    <3> QED
      BY <2>4, <2>5, <2>6, <3>2 DEF Written, AsAsked
  <2>7. req[s].kind = "deactivate"
    BY <2>3, <2>6
  <2>8. users[me[s]] # NoRow /\ users[me[s]].admin /\ me[s] # req[s].target
    BY <2>4, <2>7 DEF Serves, Deactivates
  <2> QED
    BY <2>4, <2>6, <2>7, <2>8
<1> HIDE DEF Act
<1>2. Spec => [][Act]_vars
  BY <1>1, RowInit, RowNext, PTL DEF Spec
<1> QED
  BY <1>2 DEF LastAdminByStaleActor, Act
=============================================================================
