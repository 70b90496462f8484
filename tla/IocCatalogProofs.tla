-------------------------- MODULE IocCatalogProofs --------------------------
(***************************************************************************)
(* IocStore implements IocCatalog: the table changes one whole batch, or   *)
(* one whole job of another kind, at a time, for every set of sessions,    *)
(* every workload and every fault.                                         *)
(***************************************************************************)
EXTENDS IocStoreProofs

(* What a session has written, by the kind of its job.  The row locks keep *)
(* it true until the session commits.                                      *)
Fitting(s, r) ==
    /\ Ingests(s) =>
        own[s][r] # NoRow /\ (table[r] # NoRow => own[s][r].seen \in 0 .. clock)
    /\ job[s].kind = "update" =>
        /\ r = job[s].row /\ table[r] # NoRow
        /\ own[s][r] = [table[r] EXCEPT !.seen = IF job[s].seen = Keep THEN @ ELSE job[s].seen]
    /\ job[s].kind = "delete" =>
        own[s][r] = NoRow /\ r = job[s].row /\ table[r] # NoRow
    /\ job[s].kind = "cleanup" =>
        own[s][r] = NoRow /\ Stale(table[r], stamp[s])
OwnKind == \A s \in Session : \A r \in RowId : own[s][r] # Untouched => Fitting(s, r)

(* The keys that are in the table, were there, or come with the session's  *)
(* next commit.                                                            *)
Secured(s) == known \cup {own[s][r].key : r \in {q \in RowId : own[s][q] # Untouched}}
NowKeys(s) == {Now(s)[n].key : n \in DOMAIN Now(s)}

(* The row an ingestion has found is still the one it looked for, or gone. *)
Aimed(s) ==
    /\ found[s] < nextId
    /\ View(s)[found[s]] # NoRow => View(s)[found[s]].key = Head(batch[s]).key
    /\ \A t \in Session : t # s /\ own[t][found[s]] \in Row => table[found[s]] # NoRow

(* While the transaction of an ingestion is good, no item dealt with has   *)
(* been left out, and nothing but the batch has been written: what makes a *)
(* commit show the whole batch.                                            *)
Whole(s) ==
    Ingests(s) /\ Running(s) /\ tx[s] = "active" =>
        /\ \A i \in 1 .. Dealt(s) : Now(s)[i].key \in Secured(s)
        /\ \A r \in RowId : own[s][r] # Untouched => own[s][r].key \in NowKeys(s)
        /\ pc[s] \in {"reread", "touch"} => Head(batch[s]).key \in Secured(s) /\ Aimed(s)
Recorded == KeysOf(table) \subseteq known

CatalogInv == AccountInv /\ OwnKind /\ Recorded /\ \A s \in Session : Whole(s)

(* No other session changes a row that t has written and not committed.    *)
LEMMA LockedStays ==
  ASSUME BaseInv, NEW s \in Session, Step(s), NEW t \in Session, t # s,
         NEW r \in RowId, own[t][r] # Untouched
  PROVE  table'[r] = table[r]
<1>1. own[s][r] = Untouched
  BY DEF RowLocks, BaseInv, DbInv
<1>2. CASE Committed(s)
  BY <1>1, <1>2 DEF Committed, View
<1> QED
  BY <1>2 DEF Step, Self

(* Every step keeps OwnKind: a session's own write is of its job's kind, and*)
(* no other session can change a row it has locked.                        *)
LEMMA KindStep ==
  ASSUME BaseInv, OwnKind, BaseInv', NEW s \in Session, Step(s)
  PROVE  OwnKind'
<1> USE DEF BaseInv, TypeInv, DbInv
<1>0. /\ job' = job /\ clock' = clock /\ clock \in Nat
      /\ \A t \in Session : t # s => own'[t] = own[t] /\ stamp'[t] = stamp[t]
      /\ table \in [RowId -> Row \cup {NoRow}]
      /\ own \in [Session -> [RowId -> Row \cup {NoRow, Untouched}]]
  BY BoundsAssumption DEF Step, DbStep, Others, Self, TypeOK, Time
<1>2. ASSUME NEW t \in Session, t # s, NEW r \in RowId, own'[t][r] # Untouched
      PROVE  Fitting(t, r)'
  <2>1. own'[t] = own[t] /\ stamp'[t] = stamp[t]
    BY <1>0, <1>2
  <2>2. table'[r] = table[r]
    BY <1>2, <2>1, LockedStays
  <2> QED
    BY <1>0, <1>2, <2>1, <2>2 DEF OwnKind, Fitting, Ingests, Stale
<1>3. ASSUME NEW r \in RowId, own'[s][r] # Untouched
      PROVE  Fitting(s, r)'
  <2>1. own'[s] # Clean
    BY <1>3 DEF Clean
  <2>2. job[s].kind = "cleanup" => stamp'[s] = stamp[s]
    BY <2>1 DEF Step, Self
  <2>3. ~Undone(s) /\ ~Committed(s)
    BY <1>0, <2>1 DEF Undone, Committed, Undo
  <2>4. CASE own'[s][r] = own[s][r] /\ table' = table
    BY <1>0, <1>3, <2>2, <2>4 DEF OwnKind, Fitting, Ingests, Stale
  <2>5. CASE Inserted(s)
    <3>1. PICK w \in Row : Write(s, nextId, w)
      BY <2>5 DEF Inserted
    <3>2. CASE r = nextId
      <4>1. own'[s][r] = w /\ w # NoRow
        BY <1>0, <3>1, <3>2, NullsAssumption DEF Write
      <4>2. nextId \in RowId /\ table' = table
        BY <2>5, <3>1 DEF Inserted, Write
      <4>3. table[r] = NoRow
        BY <3>2, <4>2, BoundsAssumption DEF FreshIds, RowId
      <4>4. Ingests(s)
        BY <2>5 DEF Inserted
      <4> QED
        BY <1>0, <4>1, <4>2, <4>3, <4>4 DEF Fitting, Ingests
    <3>3. CASE r # nextId
      BY <1>0, <2>4, <3>1, <3>3 DEF Write
    <3> QED
      BY <3>2, <3>3
  <2>6. CASE Rewritten(s)
    <3>1. PICK q \in RowId, w \in Row :
              /\ View(s)[q] # NoRow
              /\ \/ job[s].kind = "bulk" /\ w.seen \in 0 .. clock
                 \/ /\ job[s].kind = "update" /\ q = job[s].row
                    /\ w = [table[q] EXCEPT !.seen = IF job[s].seen = Keep THEN @ ELSE job[s].seen]
              /\ Write(s, q, w)
      BY <2>6 DEF Rewritten
    <3>2. CASE r = q
      <4>1. own'[s][r] = w /\ w # NoRow /\ table' = table
        BY <1>0, <3>1, <3>2, NullsAssumption DEF Write
      <4>2. job[s].kind = "update" => table[r] # NoRow
        BY <3>1, <3>2, ViewUntouched DEF OwnKind, Fitting
      <4> QED
        BY <1>0, <3>1, <3>2, <4>1, <4>2 DEF Fitting, Ingests
    <3>3. CASE r # q
      BY <1>0, <2>4, <3>1, <3>3 DEF Write
    <3> QED
      BY <3>2, <3>3
  <2>7. CASE Removed(s)
    <3>1. PICK q \in RowId :
              /\ table[q] # NoRow
              /\ \/ job[s].kind = "delete" /\ q = job[s].row
                 \/ job[s].kind = "cleanup" /\ Stale(table[q], stamp[s])
              /\ Write(s, q, NoRow)
      BY <2>7 DEF Removed
    <3>2. CASE r = q
      <4>1. own'[s][r] = NoRow /\ table' = table
        BY <1>0, <3>1, <3>2 DEF Write
      <4> QED
        BY <1>0, <2>2, <3>1, <3>2, <4>1 DEF Fitting, Ingests, Stale
    <3>3. CASE r # q
      BY <1>0, <2>4, <3>1, <3>3 DEF Write
    <3> QED
      BY <3>2, <3>3
  <2> QED
    BY <2>3, <2>4, <2>5, <2>6, <2>7 DEF Step, DbStep
<1> QED
  BY <1>0, <1>2, <1>3 DEF OwnKind

(* A commit records the keys it brings.                                    *)
LEMMA RecordedStep ==
  ASSUME Recorded, NEW s \in Session, Step(s)
  PROVE  Recorded' /\ known \subseteq known'
<1>1. CASE UNCHANGED <<table, known>>
  BY <1>1 DEF Recorded, KeysOf
<1>2. CASE Committed(s)
  BY <1>2 DEF Recorded, KeysOf, Committed
<1> QED
  BY <1>1, <1>2 DEF Step, Self

(* What a session sees is secured.                                         *)
LEMMA SeenSecured ==
  ASSUME Recorded, NEW s \in Session, NEW r \in RowId, View(s)[r] # NoRow
  PROVE  View(s)[r].key \in Secured(s)
<1>1. CASE own[s][r] = Untouched
  BY <1>1, ViewUntouched DEF Recorded, KeysOf, Secured
<1>2. CASE own[s][r] # Untouched
  BY <1>2, ViewUntouched DEF Secured
<1> QED
  BY <1>1, <1>2

(* What another session does leaves an ingestion's batch whole.            *)
LEMMA WholeOthers ==
  ASSUME BaseInv, Recorded, BaseInv', NEW s \in Session, Step(s), NEW t \in Session, t # s,
         Whole(t)
  PROVE  Whole(t)'
<1> USE DEF BaseInv, TypeInv, DbInv
<1> DEFINE f == found[t]
<1>0. /\ job' = job /\ pc'[t] = pc[t] /\ tx'[t] = tx[t] /\ own'[t] = own[t]
      /\ batch'[t] = batch[t] /\ later'[t] = later[t] /\ found'[t] = f /\ f \in RowId
      /\ table \in [RowId -> Row \cup {NoRow}]
      /\ own \in [Session -> [RowId -> Row \cup {NoRow, Untouched}]]
      /\ nextId \in Nat /\ (nextId' = nextId \/ nextId' = nextId + 1)
  <2>1. DbStep(s) /\ Others(s)
    BY DEF Step
  <2>2. nextId' = nextId \/ nextId' = nextId + 1
    BY <2>1 DEF DbStep, Undone, Inserted, Rewritten, Removed, Committed
  <2>3. job' = job
    BY <2>1 DEF DbStep
  <2> QED
    BY <2>1, <2>2, <2>3, BoundsAssumption DEF Others, TypeOK
<1>1. known \subseteq known'
  BY RecordedStep
<1>2. /\ Now(t)' = Now(t) /\ Dealt(t)' = Dealt(t) /\ NowKeys(t)' = NowKeys(t)
      /\ Running(t)' = Running(t) /\ Ingests(t)' = Ingests(t)
      /\ Secured(t) \subseteq Secured(t)'
  BY <1>0, <1>1 DEF Now, Dealt, Turn, NowKeys, Running, Ingests, Secured
<1>3. ASSUME Aimed(t)
      PROVE  Aimed(t)'
  <2>1. f < nextId'
    BY <1>0, <1>3 DEF Aimed, RowId
  <2>2. ASSUME View(t)'[f] # NoRow
        PROVE  View(t)'[f].key = Head(batch[t]).key
    <3>1. CASE own[t][f] # Untouched \/ table' = table
      <4>1. View(t)'[f] = View(t)[f]
        BY <1>0, <3>1 DEF View
      <4> QED
        BY <1>3, <2>2, <4>1 DEF Aimed
    <3>2. CASE own[t][f] = Untouched /\ Committed(s)
      <4>1. View(t)'[f] = table'[f] /\ table'[f] = View(s)[f] /\ View(t)[f] = table[f]
        BY <1>0, <3>2 DEF Committed, View
      <4>2. CASE own[s][f] = Untouched
        BY <1>3, <2>2, <4>1, <4>2, ViewUntouched, <1>0 DEF Aimed
      <4>3. CASE own[s][f] # Untouched
        <5>1. View(s)[f] = own[s][f] /\ own[s][f] \in Row
          BY <1>0, <2>2, <4>1, <4>3, ViewUntouched
        <5>2. table[f] # NoRow
          BY <1>3, <5>1 DEF Aimed
        <5>3. own[s][f].key = table[f].key
          BY <1>0, <5>1, <5>2 DEF OwnKeys
        <5> QED
          BY <1>3, <4>1, <5>1, <5>2, <5>3 DEF Aimed
      <4> QED
        BY <4>2, <4>3
    <3> QED
      BY <3>1, <3>2 DEF Step, Self
  <2>3. ASSUME NEW u \in Session, u # t, own'[u][f] \in Row
        PROVE  table'[f] # NoRow
    <3>1. CASE u # s
      <4>1. own[u][f] \in Row
        BY <2>3, <3>1 DEF Step, Others
      <4>2. table[f] # NoRow /\ own[u][f] # Untouched
        BY <1>3, <2>3, <4>1, NullsAssumption DEF Aimed
      <4> QED
        BY <1>0, <3>1, <4>2, LockedStays
    <3>2. CASE u = s
      <4>1. ~Undone(s) /\ ~Committed(s)
        BY <1>0, <2>3, <3>2, NullsAssumption DEF Undone, Committed, Undo, Clean
      <4>2. CASE own'[s][f] = own[s][f] /\ table' = table
        BY <1>3, <2>3, <3>2, <4>2 DEF Aimed
      <4>3. CASE Inserted(s)
        <5>1. own'[s][f] = own[s][f] /\ table' = table
          BY <1>0, <1>3, <4>3 DEF Inserted, Write, Aimed, RowId
        <5> QED
          BY <4>2, <5>1
      <4>4. CASE Rewritten(s)
        <5>1. PICK q \in RowId, w \in Row : View(s)[q] # NoRow /\ Write(s, q, w)
          BY <4>4 DEF Rewritten
        <5>2. CASE q # f
          BY <1>0, <4>2, <5>1, <5>2 DEF Write
        <5>3. CASE q = f
          <6>1. table' = table
            BY <5>1 DEF Write
          <6>2. own[s][f] = Untouched => table[f] # NoRow
            BY <1>0, <5>1, <5>3, ViewUntouched
          <6>3. own[s][f] # Untouched => own[s][f] \in Row
            BY <1>0, <5>1, <5>3, ViewUntouched
          <6> QED
            BY <1>3, <2>3, <3>2, <6>1, <6>2, <6>3 DEF Aimed
        <5> QED
          BY <5>2, <5>3
      <4>5. CASE Removed(s)
        <5>1. PICK q \in RowId : Write(s, q, NoRow)
          BY <4>5 DEF Removed
        <5>2. q # f
          BY <1>0, <2>3, <3>2, <5>1, NullsAssumption DEF Write
        <5> QED
          BY <1>0, <4>2, <5>1, <5>2 DEF Write
      <4> QED
        BY <4>1, <4>2, <4>3, <4>4, <4>5 DEF Step, DbStep
    <3> QED
      BY <3>1, <3>2
  <2> HIDE DEF f
  <2> QED
    BY <1>0, <2>1, <2>2, <2>3 DEF Aimed
<1> HIDE DEF f
<1>4. ASSUME NEW i \in 1 .. Dealt(t), Now(t)[i].key \in Secured(t)
      PROVE  Now(t)[i].key \in Secured(t)'
  BY <1>2, <1>4
<1> QED
  BY <1>0, <1>2, <1>3, <1>4 DEF Whole

(* What a step of an ingestion does that leaves its transaction good.      *)
Looks(s) == Still(s) /\ tx[s] = "active" /\ UNCHANGED <<table, nextId, own>>
Wants(s, r) == View(s)[r] # NoRow /\ View(s)[r].key = Head(batch[s]).key
Brings(s) ==
    \/ UNCHANGED own /\ (pc[s] \in {"reread", "touch"} \/ \E r \in RowId : Wants(s, r))
    \/ nextId \in RowId /\ \E w \in Row : w.key = Head(batch[s]).key /\ Write(s, nextId, w)
    \/ /\ pc[s] = "touch" /\ View(s)[found[s]] # NoRow
       /\ \E w \in Row : w.key = View(s)[found[s]].key /\ Write(s, found[s], w)
Handles(s) ==
    \/ TakesBatch(s) /\ tally'[s] = ZeroTally /\ own'[s] = Clean
    \/ Looks(s) /\ pc[s] = "check" /\ pc'[s] = "reread" /\ Matches(s, Head(batch[s]).key) = {found'[s]}
    \/ Looks(s) /\ pc[s] = "check" /\ pc'[s] = "insert"
    \/ Looks(s) /\ pc[s] = "reread" /\ pc'[s] = "touch" /\ found'[s] = found[s]
    \/ tx[s] = "active" /\ Brings(s) /\ \E f \in {"created", "skipped", "errors"} : Deals(s, f)

LEMMA HandlesSteps ==
  ASSUME AccountInv, NEW s \in Session, Ingests(s), Moves(s), Running(s)', tx'[s] = "active"
  PROVE  Handles(s)
<1> USE DEF AccountInv, BaseInv, TypeInv
<1>0. /\ job[s].kind \notin {"update", "delete", "cleanup"}
      /\ pc[s] \in {"start", "commit", "done"} \cup Inside
      /\ pc[s] \in Inside => batch[s] # <<>>
      /\ pc[s] = "start" => later[s] # <<>>
      /\ pc'[s] \notin {"start", "done"}
  BY DEF Ingests, Inside, Flow, TypeOK, Location, Running
<1>a. /\ own \in [Session -> [RowId -> Row \cup {NoRow, Untouched}]]
      /\ tx \in [Session -> {"active", "aborted", "deactive"}]
      /\ pc \in [Session -> Location]
  BY DEF TypeOK
<1>u. tx[s] # "active" => own[s] = Clean
  BY DEF Unwritten
<1>1. CASE Begin(s)
  <2>1. TakesBatch(s) /\ own' = own /\ tally' = tally /\ pc[s] = "start"
    BY <1>0, <1>1, <1>a DEF Begin, Goto, TakesBatch, items, counts, TypeOK, Ingests
  <2> QED
    BY <2>1 DEF Handles, Unwritten, Reading, Account, Fresh
<1>2. CASE CheckFails(s) \/ FlushFails(s) \/ DeadlockVictim(s) \/ ConnectionLost(s)
  <2>1. tx'[s] # "active"
    BY <1>2, <1>a DEF CheckFails, FlushFails, DeadlockVictim, ConnectionLost
  <2> QED
    BY <2>1
<1>3. CASE CheckAmbiguous(s)
  <2>1. /\ Raise(s) /\ later' = later /\ pc[s] \in Inside /\ own' = own /\ tx[s] = "active"
    BY <1>3 DEF CheckAmbiguous, Inside
  <2>2. Deals(s, "errors")
    BY <1>0, <2>1, RaiseDeals
  <2>3. \E r \in RowId : Wants(s, r)
    <3>1. Matches(s, Head(batch[s]).key) # {}
      BY <1>3, FS_EmptySet DEF CheckAmbiguous
    <3> QED
      BY <3>1 DEF Matches, Wants
  <2> QED
    BY <2>1, <2>2, <2>3 DEF Handles, Brings
<1>4. CASE CheckFindsOne(s)
  <2>1. /\ tx[s] = "active" /\ pc[s] = "check" /\ later' = later /\ own' = own
        /\ UNCHANGED <<table, nextId>> /\ batch[s] # <<>>
        /\ Matches(s, Head(batch[s]).key) = {found'[s]}
    BY <1>0, <1>4 DEF CheckFindsOne, TypeOK, Inside, db
  <2>2. CASE Goto(s, "reread") /\ UNCHANGED <<batch, tally>>
    <3>1. Looks(s) /\ pc'[s] = "reread"
      BY <1>a, <2>1, <2>2 DEF Looks, Still, Goto, Inside
    <3> QED
      BY <2>1, <3>1 DEF Handles
  <2>3. CASE Count(s, "errors") /\ NextItem(s)
    <3>1. Deals(s, "errors")
      BY <1>0, <2>1, <2>3 DEF Count, NextItem, Goto, Deals, TypeOK, Tally, Inside
    <3>2. Wants(s, found'[s]) /\ found'[s] \in RowId
      BY <2>1 DEF Matches, Wants
    <3> QED
      BY <2>1, <3>1, <3>2 DEF Handles, Brings
  <2>4. CASE Reply(s, "rejected")
    BY <1>0, <1>a, <2>4 DEF Reply, Goto
  <2> QED
    BY <1>4, <2>2, <2>3, <2>4 DEF CheckFindsOne
<1>5. CASE CheckFindsNone(s)
  BY <1>5 DEF CheckFindsNone, Goto, Handles, Looks, Still, items, counts, db, TypeOK
<1>6. CASE Insert(s)
  <2>1. /\ Count(s, "created") /\ NextItem(s) /\ later' = later
        /\ pc[s] = "insert" /\ tx[s] = "active" /\ nextId \in RowId
    BY <1>6 DEF Insert, RowId, TypeOK
  <2>2. Deals(s, "created")
    BY <1>0, <2>1 DEF Count, NextItem, Goto, Deals, TypeOK, Tally, Inside
  <2>3. Head(batch[s]) \in Item
    BY <2>1, HeadType
  <2> DEFINE w == [key |-> Head(batch[s]).key,
                   seen |-> IF Head(batch[s]).seen = NoTime THEN clock ELSE Head(batch[s]).seen]
  <2>4. w \in Row /\ w.key = Head(batch[s]).key
    BY <2>3 DEF Item, Row, TypeOK
  <2>5. Write(s, nextId, w)
    BY <1>6 DEF Insert, Write, db
  <2> HIDE DEF w
  <2> QED
    BY <2>1, <2>2, <2>4, <2>5 DEF Handles, Brings
<1>7. CASE Reread(s)
  <2>1. /\ later' = later /\ own' = own /\ pc[s] = "reread" /\ tx[s] = "active"
        /\ UNCHANGED <<table, nextId, found>>
        /\ \/ pc'[s] = "touch" /\ Still(s)
           \/ Count(s, "skipped") /\ NextItem(s)
    BY <1>7, <1>a DEF Reread, Still, Goto, db
  <2>2. Count(s, "skipped") /\ NextItem(s) => Deals(s, "skipped")
    BY <1>0, <2>1 DEF Count, NextItem, Goto, Deals, TypeOK, Tally, Inside
  <2> QED
    BY <2>1, <2>2 DEF Handles, Looks, Brings
<1>8. CASE Touch(s)
  <2>1. /\ later' = later /\ pc[s] = "touch" /\ tx[s] = "active"
        /\ Count(s, "skipped") /\ NextItem(s)
    BY <1>8 DEF Touch
  <2>2. Deals(s, "skipped")
    BY <1>0, <2>1 DEF Count, NextItem, Goto, Deals, TypeOK, Tally, Inside
  <2>3. View(s)[found[s]] \in Row /\ found[s] \in RowId /\ stamp[s] \in Time /\ View(s)[found[s]] # NoRow
    BY <1>8, ViewType DEF Touch, TypeOK
  <2> DEFINE w == [View(s)[found[s]] EXCEPT !.seen = stamp[s]]
  <2>4. w \in Row /\ w.key = View(s)[found[s]].key
    BY <2>3 DEF Row
  <2>5. Write(s, found[s], w)
    BY <1>8 DEF Touch, Write, db
  <2> HIDE DEF w
  <2> QED
    BY <2>1, <2>2, <2>3, <2>4, <2>5 DEF Handles, Brings
<1>9. CASE StatementRefused(s)
  BY <1>9 DEF StatementRefused
<1>10. CASE Commit(s)
  <2>1. own'[s] = Clean /\ tally'[s] = ZeroTally
    BY <1>10, <1>a DEF Commit, Publish, Undo, TypeOK
  <2>2. TakesBatch(s)
    BY <1>0, <1>10, <1>a DEF Commit, TakesBatch, Reply, Goto, TypeOK
  <2> QED
    BY <2>1, <2>2 DEF Handles
<1>11. CASE CommitRefused(s) \/ CommitUnanswered(s) \/ Kill(s)
  <2>1. pc'[s] = "done"
    BY <1>11, <1>a DEF CommitRefused, CommitUnanswered, Kill, Reply, Goto
  <2> QED
    BY <1>0, <2>1
<1>12. CASE Fetch(s) \/ Update(s) \/ Delete(s) \/ CountOld(s) \/ Scan(s) \/ Sweep(s)
  BY <1>0, <1>12 DEF Fetch, Update, Delete, CountOld, Scan, Sweep, Inside
<1> QED
  BY <1>1, <1>2, <1>3, <1>4, <1>5, <1>6, <1>7, <1>8, <1>9, <1>10, <1>11, <1>12
     DEF Moves, Statement, Breaks

(* An ingestion leaves out no item of its batch and writes nothing else.   *)
LEMMA WholeStep ==
  ASSUME AccountInv, AccountInv', OwnKind, Recorded, NEW s \in Session, Whole(s), Ingests(s),
         Moves(s), Step(s), Running(s)', tx'[s] = "active"
  PROVE  Whole(s)'
<1> USE DEF AccountInv, BaseInv, TypeInv, DbInv
<1>0. /\ job' = job /\ known \subseteq known' /\ Handles(s)
      /\ own \in [Session -> [RowId -> Row \cup {NoRow, Untouched}]]
      /\ \A t \in Session : t # s => own'[t] = own[t]
      /\ batch[s] \in Seq(Item) /\ found[s] \in RowId
  BY RecordedStep, HandlesSteps DEF Step, DbStep, Others, TypeOK
<1>1. CASE TakesBatch(s) /\ tally'[s] = ZeroTally /\ own'[s] = Clean
  <2>1. Left(s)' /\ Counted(s)' = 0
    BY <1>0, <1>1, PlaceTypes DEF Account, Ingests, Counted, ZeroTally
  <2>2. Dealt(s)' = 0
    BY <2>1 DEF Left
  <2> QED
    BY <1>1, <2>2 DEF Whole, TakesBatch, Clean
<1>2. ASSUME Looks(s), Running(s)
      PROVE  /\ Dealt(s)' = Dealt(s) /\ Now(s)' = Now(s) /\ NowKeys(s)' = NowKeys(s)
             /\ Secured(s) \subseteq Secured(s)' /\ View(s)' = View(s) /\ batch'[s] = batch[s]
             /\ \A i \in 1 .. Dealt(s) : Now(s)[i].key \in Secured(s)'
             /\ \A r \in RowId : own'[s][r] # Untouched => own'[s][r].key \in NowKeys(s)
  <2>1. own' = own /\ table' = table /\ batch'[s] = batch[s] /\ later'[s] = later[s]
    BY <1>2 DEF Looks, Still
  <2>2. /\ Dealt(s)' = Dealt(s) /\ Now(s)' = Now(s) /\ NowKeys(s)' = NowKeys(s)
        /\ Secured(s) \subseteq Secured(s)' /\ View(s)' = View(s)
    BY <1>0, <2>1 DEF Dealt, Now, NowKeys, Turn, Secured, View
  <2>3. tx[s] = "active"
    BY <1>2 DEF Looks
  <2> QED
    BY <1>2, <2>1, <2>2, <2>3 DEF Whole
<1>3. CASE /\ Looks(s) /\ pc[s] = "check" /\ pc'[s] = "reread"
           /\ Matches(s, Head(batch[s]).key) = {found'[s]}
  <2> DEFINE f == found'[s]
  <2>1. f \in RowId /\ View(s)[f] # NoRow /\ View(s)[f].key = Head(batch[s]).key
    BY <1>3 DEF Matches
  <2>2. Head(batch[s]).key \in Secured(s)
    BY <2>1, SeenSecured
  <2>3. f < nextId
    <3>1. ~(f >= nextId)
      BY <2>1, ViewUntouched DEF FreshIds
    <3> QED
      BY <2>1, <3>1, BoundsAssumption DEF RowId, TypeOK
  <2>4. ASSUME NEW t \in Session, t # s, own[t][f] \in Row
        PROVE  table[f] # NoRow
    <3>1. own[t][f] # Untouched
      BY <2>4, NullsAssumption
    <3>2. own[s][f] = Untouched
      BY <2>1, <2>4, <3>1 DEF RowLocks
    <3> QED
      BY <2>1, <3>2, ViewUntouched
  <2>5. own' = own /\ table' = table /\ nextId' = nextId
    BY <1>3 DEF Looks
  <2>6. View(s)' = View(s) /\ batch'[s] = batch[s] /\ Secured(s) \subseteq Secured(s)'
    BY <1>2, <1>3 DEF Running
  <2>7. Aimed(s)'
    <3> HIDE DEF f
    <3>1. f = found'[s]
      BY DEF f
    <3> QED
      BY <2>1, <2>3, <2>4, <2>5, <2>6, <3>1 DEF Aimed
  <2> QED
    BY <1>2, <1>3, <2>2, <2>6, <2>7 DEF Whole, Running
<1>4. CASE Looks(s) /\ pc[s] = "check" /\ pc'[s] = "insert"
  BY <1>2, <1>4 DEF Whole, Running
<1>5. CASE Looks(s) /\ pc[s] = "reread" /\ pc'[s] = "touch" /\ found'[s] = found[s]
  <2>1. Head(batch[s]).key \in Secured(s) /\ Aimed(s)
    BY <1>5 DEF Whole, Running, Looks
  <2>2. own' = own /\ table' = table /\ nextId' = nextId
    BY <1>5 DEF Looks
  <2>3. View(s)' = View(s) /\ batch'[s] = batch[s] /\ Secured(s) \subseteq Secured(s)'
    BY <1>2, <1>5 DEF Running
  <2>4. Aimed(s)'
    BY <1>5, <2>1, <2>2, <2>3 DEF Aimed
  <2> QED
    BY <1>2, <1>5, <2>1, <2>3, <2>4 DEF Whole, Running
<1>6. ASSUME tx[s] = "active", Brings(s), NEW g \in {"created", "skipped", "errors"}, Deals(s, g)
      PROVE  Whole(s)'
  <2> DEFINE k == Head(batch[s]).key
             d == Dealt(s)
  <2>1. /\ pc[s] \in Inside /\ Running(s) /\ pc'[s] \in {"check", "commit"}
    BY <1>6 DEF Deals, Inside, Running
  <2>2. Left(s)
    BY <2>1 DEF Account
  <2>3. /\ Now(s)' = Now(s) /\ d \in Nat /\ Dealt(s)' = d + 1
        /\ d + 1 \in DOMAIN Now(s) /\ Head(batch[s]) = Now(s)[d + 1]
    BY <1>0, <1>6, <2>2, NextOne
  <2>4. k \in NowKeys(s) /\ NowKeys(s)' = NowKeys(s)
    BY <2>3 DEF NowKeys
  <2>5. /\ \A i \in 1 .. d : Now(s)[i].key \in Secured(s)
        /\ \A r \in RowId : own[s][r] # Untouched => own[s][r].key \in NowKeys(s)
        /\ pc[s] \in {"reread", "touch"} => k \in Secured(s) /\ Aimed(s)
    BY <1>6, <2>1 DEF Whole
  <2> HIDE DEF k
  <2>6. /\ k \in Secured(s)' /\ Secured(s) \subseteq Secured(s)'
        /\ \A r \in RowId : own'[s][r] # Untouched => own'[s][r].key \in NowKeys(s)
    <3>1. CASE UNCHANGED own /\ (pc[s] \in {"reread", "touch"} \/ \E r \in RowId : Wants(s, r))
      <4>1. k \in Secured(s)
        BY <2>5, <3>1, SeenSecured DEF Wants, k
      <4> QED
        BY <1>0, <2>5, <3>1, <4>1 DEF Secured
    <3>2. ASSUME NEW q \in RowId, NEW w \in Row, w.key = k, Write(s, q, w),
                 own[s][q] # Untouched => own[s][q].key = k
          PROVE  /\ k \in Secured(s)' /\ Secured(s) \subseteq Secured(s)'
                 /\ \A r \in RowId : own'[s][r] # Untouched => own'[s][r].key \in NowKeys(s)
      <4>1. /\ own'[s][q] = w /\ w # Untouched
            /\ \A r \in RowId : r # q => own'[s][r] = own[s][r]
        BY <1>0, <3>2, NullsAssumption DEF Write
      <4>2. k \in Secured(s)'
        BY <3>2, <4>1 DEF Secured
      <4>3. Secured(s) \subseteq Secured(s)'
        <5> SUFFICES ASSUME NEW r \in RowId, own[s][r] # Untouched
                     PROVE  own[s][r].key \in Secured(s)'
          BY <1>0 DEF Secured
        <5>1. CASE r = q
          BY <3>2, <4>2, <5>1
        <5>2. CASE r # q
          BY <4>1, <5>2 DEF Secured
        <5> QED
          BY <5>1, <5>2
      <4> QED
        BY <2>4, <2>5, <3>2, <4>1, <4>2, <4>3
    <3>3. CASE nextId \in RowId /\ \E w \in Row : w.key = k /\ Write(s, nextId, w)
      <4>1. own[s][nextId] = Untouched
        BY <3>3, BoundsAssumption DEF FreshIds, RowId
      <4> QED
        BY <3>2, <3>3, <4>1
    <3>4. CASE /\ pc[s] = "touch" /\ View(s)[found[s]] # NoRow
               /\ \E w \in Row : w.key = View(s)[found[s]].key /\ Write(s, found[s], w)
      <4>1. View(s)[found[s]].key = k
        BY <2>5, <3>4 DEF Aimed, k
      <4>2. own[s][found[s]] # Untouched => own[s][found[s]].key = k
        BY <1>0, <4>1, ViewUntouched
      <4> QED
        BY <1>0, <3>2, <3>4, <4>1, <4>2
    <3> QED
      BY <1>6, <3>1, <3>3, <3>4 DEF Brings, k
  <2>7. ASSUME NEW i \in 1 .. d + 1
        PROVE  Now(s)[i].key \in Secured(s)'
    <3>1. i \in 1 .. d \/ i = d + 1
      BY <2>3
    <3>2. k = Now(s)[d + 1].key
      BY <2>3 DEF k
    <3> QED
      BY <2>5, <2>6, <3>1, <3>2
  <2> HIDE DEF d
  <2> QED
    BY <2>1, <2>3, <2>4, <2>6, <2>7 DEF Whole
<1> QED
  BY <1>0, <1>1, <1>3, <1>4, <1>5, <1>6 DEF Handles

(* At the start nothing is written, and every key held is recorded.        *)
LEMMA CatalogInit == Init => CatalogInv
<1> SUFFICES ASSUME Init PROVE CatalogInv
  OBVIOUS
<1>1. AccountInv
  BY AccountInit
<1>2. OwnKind /\ Recorded
  BY DEF Init, OwnKind, Clean, Recorded
<1>3. \A s \in Session : Whole(s)
  BY DEF Init, Whole, Running
<1> QED
  BY <1>1, <1>2, <1>3 DEF CatalogInv

LEMMA CatalogNext == CatalogInv /\ [Next]_vars => CatalogInv'
<1> SUFFICES ASSUME CatalogInv, [Next]_vars PROVE CatalogInv'
  OBVIOUS
<1>1. AccountInv'
  BY AccountNext DEF CatalogInv
<1>2. ASSUME NEW s \in Session, Moves(s)
      PROVE  CatalogInv'
  <2>1. Step(s) /\ BaseInv /\ BaseInv' /\ job' = job
    BY <1>1, <1>2, StatementSteps DEF CatalogInv, AccountInv, Step, DbStep
  <2>2. OwnKind' /\ Recorded'
    BY <2>1, KindStep, RecordedStep DEF CatalogInv
  <2>3. ASSUME NEW t \in Session
        PROVE  Whole(t)'
    <3>1. CASE t # s
      BY <2>1, <3>1, WholeOthers DEF CatalogInv
    <3>2. CASE t = s /\ Ingests(s) /\ Running(s)' /\ tx'[s] = "active"
      BY <1>1, <1>2, <2>1, <3>2, WholeStep DEF CatalogInv
    <3>3. CASE t = s /\ ~(Ingests(s) /\ Running(s)' /\ tx'[s] = "active")
      BY <2>1, <3>3 DEF Whole, Ingests
    <3> QED
      BY <3>1, <3>2, <3>3
  <2> QED
    BY <1>1, <2>2, <2>3 DEF CatalogInv
<1>3. CASE Waits
  <2>1. /\ UNCHANGED <<table, known, own, job, stamp, pc, tx, batch, later, found, nextId>>
        /\ clock' \in Nat /\ clock' >= clock /\ clock \in Nat
    BY <1>3, WaitsKeep, BoundsAssumption DEF CatalogInv, AccountInv, BaseInv, TypeInv, TypeOK, Time
  <2>2. \A n : n \in 0 .. clock => n \in 0 .. clock'
    BY <2>1
  <2>3. \A s \in Session, r \in RowId : Fitting(s, r) => Fitting(s, r)'
    BY <2>1, <2>2 DEF Fitting, Ingests, Stale
  <2>4. OwnKind' /\ Recorded'
    BY <2>1, <2>3 DEF CatalogInv, OwnKind, Recorded, KeysOf
  <2>5. ASSUME NEW t \in Session
        PROVE  Whole(t)'
    <3>1. /\ Now(t)' = Now(t) /\ Dealt(t)' = Dealt(t) /\ NowKeys(t)' = NowKeys(t)
          /\ Running(t)' = Running(t) /\ Ingests(t)' = Ingests(t)
          /\ Secured(t)' = Secured(t) /\ View(t)' = View(t)
      BY <2>1 DEF Now, Dealt, Turn, NowKeys, Running, Ingests, Secured, View
    <3>2. Aimed(t)' = Aimed(t)
      BY <2>1, <3>1 DEF Aimed
    <3> QED
      BY <2>1, <3>1, <3>2 DEF CatalogInv, Whole
  <2> QED
    BY <1>1, <2>4, <2>5 DEF CatalogInv
<1> QED
  BY <1>2, <1>3, NextCases

(* A step of one session leaves it to the others what they have settled,   *)
(* and so does a step that settles nothing.                                *)
LEMMA SettledOthers ==
  ASSUME NEW s \in Session, Step(s), NEW t \in Session, t # s
  PROVE  Settled(t)' = Settled(t)
BY DEF Step, DbStep, Others, Settled, Ingests, Running

(* What is left of an ingestion is counted in batches.                     *)
LEMMA SettledCount ==
  ASSUME AccountInv, NEW s \in Session, Ingests(s), Running(s)
  PROVE  /\ Settled(s) = Turn(s) - 1 /\ Turn(s) \in 1 .. Len(job[s].batches)
         /\ Len(job[s].batches) \in Nat /\ Len(later[s]) \in Nat
         /\ Settled(s) < Len(job[s].batches)
<1>1. Left(s) /\ pc[s] # "start"
  BY DEF AccountInv, Account, Running
<1>2. job[s].batches \in Seq(Seq(Item)) /\ later[s] \in Seq(Seq(Item))
  BY JobType DEF AccountInv, BaseInv, TypeInv, TypeOK
<1>3. Turn(s) \in 1 .. Len(job[s].batches) /\ Len(job[s].batches) \in Nat /\ Len(later[s]) \in Nat
  BY <1>1, <1>2 DEF Left
<1>4. Settled(s) = Turn(s) - 1
  BY <1>1 DEF Settled, Turn
<1> QED
  BY <1>3, <1>4

(* A step of an ingestion settles the batch at hand or nothing; its commit *)
(* settles it.                                                             *)
LEMMA SettledStep ==
  ASSUME AccountInv, AccountInv', NEW s \in Session, Ingests(s), Moves(s), job' = job
  PROVE  \/ Settled(s)' = Settled(s) /\ table' = table
         \/ Running(s) /\ Settled(s)' = Settled(s) + 1
<1> USE DEF AccountInv, BaseInv
<1>1. Ledger(s) /\ Ingests(s)' /\ later[s] \in Seq(Seq(Item)) /\ pc'[s] # "start"
  BY LedgerSteps, MovesBetween DEF Ingests, TypeInv, TypeOK
<1>2. Running(s) => Settled(s) = Len(job[s].batches) - Len(later[s]) - 1
  BY DEF Settled, Running
<1>4. Len(later[s]) \in Nat /\ Len(later'[s]) \in Nat /\ Len(job[s].batches) \in Nat
  BY <1>1, JobType DEF TypeInv, TypeOK
<1>3. /\ pc'[s] = "done" => Settled(s)' = Len(job[s].batches) - Len(later'[s])
      /\ Running(s)' => Settled(s)' = Len(job[s].batches) - Len(later'[s]) - 1
  <2>1. ASSUME pc'[s] = "done" PROVE Settled(s)' = Len(job[s].batches) - Len(later'[s]) - 0
    BY <1>1, <2>1 DEF Settled, Running
  <2>2. ASSUME Running(s)' PROVE Settled(s)' = Len(job[s].batches) - Len(later'[s]) - 1
    <3>1. pc'[s] \notin {"start", "done"}
      BY <2>2 DEF Running
    <3> QED
      BY <1>1, <2>2, <3>1 DEF Settled
  <2>3. Len(job[s].batches) - Len(later'[s]) - 0 = Len(job[s].batches) - Len(later'[s])
    BY <1>4
  <2> QED
    BY <2>1, <2>2, <2>3
<1>5. TakesBatch(s) => Len(later'[s]) = Len(later[s]) - 1 /\ Running(s)'
  BY <1>1, TailType DEF TakesBatch, Running
<1>6. CASE Kept(s) /\ Opens(s)
  <2>1. pc[s] = "start" /\ later[s] = job[s].batches
    BY <1>6 DEF Opens, Account, Fresh
  <2> QED
    BY <1>3, <1>4, <1>5, <1>6, <2>1 DEF Opens, Kept, Settled
<1>7. CASE Kept(s) /\ Stops(s)
  BY <1>2, <1>3, <1>4, <1>7 DEF Stops
<1>8. CASE Kept(s) /\ (Admits(s) \/ Loses(s) \/ Adds(s) \/ PassesOver(s))
  <2>1. /\ Running(s) /\ Running(s)' /\ later'[s] = later[s]
    BY <1>8 DEF Admits, Loses, Adds, PassesOver, Deals, Still, Running, Inside
  <2>2. Settled(s)' = Settled(s)
    BY <1>2, <1>3, <2>1
  <2> QED
    BY <1>8, <2>2 DEF Kept
<1>9. CASE Books(s) \/ LosesAnswer(s)
  <2>1. Running(s)
    BY <1>9 DEF Books, LosesAnswer, Running
  <2> QED
    <3>1. CASE pc'[s] = "done" /\ later'[s] = later[s]
      BY <1>2, <1>3, <1>4, <2>1, <3>1
    <3>2. CASE TakesBatch(s)
      <4>1. /\ Settled(s) = Len(job[s].batches) - Len(later[s]) - 1
            /\ Settled(s)' = Len(job[s].batches) - Len(later'[s]) - 1
            /\ Len(later'[s]) = Len(later[s]) - 1
        BY <1>2, <1>3, <1>5, <2>1, <3>2
      <4> HIDE DEF AccountInv, BaseInv
      <4> QED
        BY <1>4, <2>1, <4>1
    <3> QED
      BY <1>9, <3>1, <3>2 DEF Books, LosesAnswer
<1> QED
  BY <1>1, <1>6, <1>7, <1>8, <1>9 DEF Ledger

(* A session that has gone through a batch, or through its whole job, takes*)
(* the step of its kind in IocCatalog.                                     *)
Advances(s) ==
    /\ Settled(s)' = Settled(s) + 1 /\ Settled(s) < Catalog!Parts(s)
    /\ \A t \in Session : t # s => Settled(t)' = Settled(t)
    /\ known' = known \cup KeysOf(table') /\ UNCHANGED <<clock, job>>

LEMMA AdvanceSettles ==
  ASSUME NEW s \in Session, Advances(s)
  PROVE  Catalog!Settle(s)
<1>1. Catalog!Held' = KeysOf(table')
  BY DEF Catalog!Held, Catalog!Present, Catalog!Ids, KeysOf, RowId
<1>2. [t \in Session |-> Settled(t)]' = [[t \in Session |-> Settled(t)] EXCEPT ![s] = @ + 1]
  BY DEF Advances
<1> QED
  BY <1>1, <1>2 DEF Advances, Catalog!Settle

(* The commit of a job of each kind is the change IocCatalog allows it.    *)
LEMMA CommitImplements ==
  ASSUME CatalogInv, NEW s \in Session, Committed(s), Advances(s), Running(s)
  PROVE  Catalog!Next
<1> USE DEF BaseInv, TypeInv, DbInv
<1>0. /\ table \in [RowId -> Row \cup {NoRow}]
      /\ own \in [Session -> [RowId -> Row \cup {NoRow, Untouched}]]
      /\ table' = View(s) /\ table' \in [RowId -> Row \cup {NoRow}]
      /\ Catalog!Ids = RowId /\ Catalog!Row = Row
      /\ BaseInv /\ OwnKind /\ Whole(s)
  BY ViewType DEF Committed, TypeOK, Catalog!Ids, Catalog!Row, RowId, Row, Time,
                  CatalogInv, AccountInv
<1>1. \A r \in RowId :
        /\ own[s][r] = Untouched => table'[r] = table[r]
        /\ own[s][r] # Untouched => table'[r] = own[s][r]
  BY <1>0, ViewUntouched
<1>s. Catalog!Settle(s)
  BY AdvanceSettles
<1>g. ASSUME \A r \in RowId : own[s][r] = Untouched
      PROVE  Catalog!Next
  <2>1. table' = table
    BY <1>0, <1>1, <1>g
  <2> QED
    BY <1>s, <2>1 DEF Catalog!Next, Catalog!GiveUp
<1>2. CASE Ingests(s) /\ tx[s] = "active"
  <2>1. /\ Catalog!Upcoming(s) = NowKeys(s) /\ Left(s) /\ batch[s] = <<>>
        /\ job[s].batches \in Seq(Seq(Item)) /\ Turn(s) \in 1 .. Len(job[s].batches)
    <3>1. Settled(s) + 1 = Turn(s) /\ Turn(s) \in 1 .. Len(job[s].batches)
      BY <1>2, SettledCount DEF CatalogInv
    <3>2. Left(s) /\ batch[s] = <<>> /\ job[s].batches \in Seq(Seq(Item))
      BY <1>0, <1>2, JobType DEF CatalogInv, AccountInv, Account, Left, Committed
    <3>3. Catalog!Upcoming(s) = NowKeys(s)
      BY <3>1 DEF Catalog!Upcoming, NowKeys, Now
    <3> QED
      BY <3>1, <3>2, <3>3
  <2>2. NowKeys(s) \subseteq Secured(s)
    <3>1. Now(s) \in Seq(Item)
      BY <2>1 DEF Now
    <3>2. Dealt(s) = Len(Now(s)) /\ DOMAIN Now(s) = 1 .. Dealt(s)
      BY <2>1, <3>1 DEF Dealt
    <3> QED
      BY <1>0, <1>2, <3>2 DEF Whole, NowKeys
  <2>3. ASSUME NEW r \in RowId, own[s][r] # Untouched
        PROVE  own[s][r] \in Row /\ own[s][r].key \in NowKeys(s)
    <3>1. own[s][r] # NoRow
      BY <1>0, <1>2, <2>3 DEF OwnKind, Fitting
    <3>2. own[s][r].key \in NowKeys(s)
      BY <1>0, <1>2, <2>3 DEF Whole
    <3> QED
      BY <1>0, <2>3, <3>1, <3>2
  <2>4. Secured(s) \subseteq known'
    <3> SUFFICES ASSUME NEW r \in RowId, own[s][r] # Untouched
                 PROVE  own[s][r].key \in KeysOf(table')
      BY DEF Secured, Committed
    <3> QED
      BY <1>1, <2>3, NullsAssumption DEF KeysOf
  <2>5. ASSUME NEW r \in RowId, table'[r] # table[r]
        PROVE  /\ table'[r] # NoRow /\ table'[r].key \in NowKeys(s)
               /\ table[r] # NoRow => table'[r].key = table[r].key /\ table'[r].seen \in 0 .. clock
    <3>1. own[s][r] # Untouched /\ table'[r] = own[s][r]
      BY <1>1, <2>5
    <3>2. table[r] # NoRow => own[s][r].key = table[r].key /\ own[s][r].seen \in 0 .. clock
      BY <1>0, <1>2, <2>3, <3>1 DEF OwnKind, Fitting, OwnKeys
    <3> QED
      BY <2>3, <3>1, <3>2, NullsAssumption
  <2>6. Catalog!Ingests(s)
    BY <1>2 DEF Catalog!Ingests, Ingests
  <2>7. Catalog!Ingest(s)
    BY <1>0, <1>s, <2>1, <2>2, <2>4, <2>5, <2>6 DEF Catalog!Ingest, Catalog!Present
  <2> QED
    BY <2>7 DEF Catalog!Next
<1>3. CASE tx[s] # "active"
  BY <1>0, <1>3, <1>g DEF Unwritten, Clean
<1>4. CASE job[s].kind = "update"
  <2> DEFINE r == job[s].row
  <2>1. r \in RowId /\ \A q \in RowId : q # r => own[s][q] = Untouched
    BY <1>0, <1>4, JobType DEF OwnKind, Fitting
  <2>2. CASE own[s][r] = Untouched
    BY <1>g, <2>1, <2>2
  <2>3. CASE own[s][r] # Untouched
    <3>1. /\ table[r] # NoRow /\ table'[r] = own[s][r]
          /\ own[s][r] = [table[r] EXCEPT !.seen = IF job[s].seen = Keep THEN @ ELSE job[s].seen]
      BY <1>0, <1>1, <1>4, <2>1, <2>3 DEF OwnKind, Fitting
    <3>2. table' = [table EXCEPT ![r] = own[s][r]]
      BY <1>0, <1>1, <2>1, <3>1
    <3>3. table' = [table EXCEPT ![r].seen = IF job[s].seen = Keep THEN @ ELSE job[s].seen]
      BY <3>1, <3>2
    <3>4. Catalog!Edit(s)
      BY <1>4, <1>s, <3>1, <3>3 DEF Catalog!Edit, Catalog!Present
    <3> QED
      BY <3>4 DEF Catalog!Next
  <2> QED
    BY <2>2, <2>3
<1>5. CASE job[s].kind = "delete"
  <2> DEFINE r == job[s].row
  <2>1. r \in RowId /\ \A q \in RowId : q # r => own[s][q] = Untouched
    BY <1>0, <1>5, JobType DEF OwnKind, Fitting
  <2>2. CASE own[s][r] = Untouched
    BY <1>g, <2>1, <2>2
  <2>3. CASE own[s][r] # Untouched
    <3>1. table[r] # NoRow /\ table'[r] = NoRow
      BY <1>0, <1>1, <1>5, <2>1, <2>3 DEF OwnKind, Fitting
    <3>2. table' = [table EXCEPT ![r] = NoRow]
      BY <1>0, <1>1, <2>1, <3>1
    <3>3. Catalog!Remove(s)
      BY <1>5, <1>s, <3>1, <3>2 DEF Catalog!Remove, Catalog!Present
    <3> QED
      BY <3>3 DEF Catalog!Next
  <2> QED
    BY <2>2, <2>3
<1>6. CASE job[s].kind = "cleanup"
  <2> DEFINE old == {r \in RowId : own[s][r] # Untouched}
  <2>1. \A r \in old : own[s][r] = NoRow /\ Catalog!Expired(r, stamp[s])
    BY <1>0, <1>6 DEF OwnKind, Fitting, Stale, Catalog!Expired, Catalog!Present
  <2>2. table' = [r \in RowId |-> IF r \in old THEN NoRow ELSE table[r]]
    BY <1>0, <1>1, <2>1
  <2>3. stamp[s] \in 0 .. clock /\ old \in SUBSET RowId
    BY <1>0 DEF Aim
  <2> HIDE DEF old
  <2>4. Catalog!Expire(s)
    BY <1>0, <1>6, <1>s, <2>1, <2>2, <2>3 DEF Catalog!Expire
  <2> QED
    BY <2>4 DEF Catalog!Next
<1> QED
  BY <1>0, <1>2, <1>3, <1>4, <1>5, <1>6, JobType DEF Kind, Ingests

(* Every step of IocStore is a step of IocCatalog or leaves its state alone.*)
LEMMA StepImplements ==
  ASSUME CatalogInv, CatalogInv', [Next]_vars
  PROVE  [Catalog!Next]_(Catalog!vars)
<1>1. ASSUME NEW s \in Session, Moves(s)
      PROVE  [Catalog!Next]_(Catalog!vars)
  <2> USE DEF CatalogInv, AccountInv
  <2>1. /\ Step(s) /\ job' = job /\ clock' = clock /\ pc[s] # "done" /\ pc'[s] # "start"
        /\ Ingests(s)' = Ingests(s)
        /\ \A t \in Session : t # s => Settled(t)' = Settled(t)
    BY <1>1, StatementSteps, SettledOthers DEF Step, Self, DbStep, Ingests
  <2>2. known' = known \cup KeysOf(table') \/ (UNCHANGED <<table, known>>)
    BY <2>1 DEF Step, Self, Committed
  <2>3. known' = known \cup KeysOf(table')
    BY <2>2 DEF Recorded
  <2>4. ASSUME Settled(s)' = Settled(s), table' = table
        PROVE  UNCHANGED Catalog!vars
    <3>1. [t \in Session |-> Settled(t)]' = [t \in Session |-> Settled(t)]
      BY <2>1, <2>4
    <3>2. known' = known
      BY <2>3, <2>4 DEF Recorded
    <3> QED
      BY <2>1, <2>4, <3>1, <3>2 DEF Catalog!vars
  <2>5. ASSUME Settled(s)' = Settled(s) + 1, Settled(s) < Catalog!Parts(s),
               Committed(s) => Running(s)
        PROVE  Catalog!Next
    <3>1. Advances(s)
      BY <2>1, <2>3, <2>5 DEF Advances
    <3>2. CASE Committed(s)
      BY <2>5, <3>1, <3>2, CommitImplements
    <3>3. CASE ~Committed(s)
      <4>1. table' = table
        BY <2>1, <3>3 DEF Step, Self
      <4> QED
        BY <3>1, <4>1, AdvanceSettles DEF Catalog!Next, Catalog!GiveUp
    <3> QED
      BY <3>2, <3>3
  <2>6. CASE Ingests(s)
    <3>1. \/ Settled(s)' = Settled(s) /\ table' = table
          \/ Running(s) /\ Settled(s)' = Settled(s) + 1
      BY <1>1, <2>1, <2>6, SettledStep
    <3>2. CASE Running(s) /\ Settled(s)' = Settled(s) + 1
      <4>1. Settled(s) < Catalog!Parts(s)
        BY <2>6, <3>2, SettledCount DEF Catalog!Parts, Catalog!Ingests, Ingests
      <4> QED
        BY <2>5, <3>2, <4>1
    <3> QED
      BY <2>4, <3>1, <3>2
  <2>7. CASE ~Ingests(s)
    <3>1. Settled(s) = 0 /\ Catalog!Parts(s) = 1
      BY <2>1, <2>7 DEF Settled, Running, Catalog!Parts, Catalog!Ingests, Ingests
    <3>2. CASE pc'[s] = "done"
      <4>1. Settled(s)' = 1
        BY <2>1, <2>7, <3>2 DEF Settled, Running
      <4> QED
        BY <2>5, <3>1, <4>1 DEF Committed, Running
    <3>3. CASE pc'[s] # "done"
      <4>1. Settled(s)' = 0
        BY <2>1, <2>7, <3>3 DEF Settled, Running
      <4>2. table' = table
        BY <2>1, <2>7, <3>3 DEF Step, Self
      <4> QED
        BY <2>4, <3>1, <4>1, <4>2
    <3> QED
      BY <3>2, <3>3
  <2> QED
    BY <2>6, <2>7
<1>2. CASE Waits
  <2>1. /\ UNCHANGED <<table, known, job, pc, later>>
        /\ clock' = clock \/ clock' = clock + 1
    BY <1>2, WaitsKeep
  <2>2. [t \in Session |-> Settled(t)]' = [t \in Session |-> Settled(t)]
    BY <2>1 DEF Settled, Ingests, Running
  <2> QED
    BY <2>1, <2>2 DEF Catalog!vars, Catalog!Next, Catalog!Tick
<1> QED
  BY <1>1, <1>2, NextCases

(* Each change a reader of the table sees is one batch of an ingestion,    *)
(* whole and in its turn, or one whole job of another kind: an edit or a   *)
(* delete of the row the request names, or the cleaner removing rows that  *)
(* are stale as they are at that moment.  No interleaving, deadlock, lost  *)
(* connection or unanswered COMMIT shows part of a batch without the rest, *)
(* or removes a row that was refreshed meanwhile (create_iocs_bulk and     *)
(* process_batch, PUT and DELETE /iocs, cleanup_old_iocs).                 *)
THEOREM ImplementsCatalog == Spec => CatalogSpec
<1>1. Init => Catalog!Start
  <2> SUFFICES ASSUME Init PROVE Catalog!Start
    OBVIOUS
  <2>1. TypeOK
    BY TypeInit DEF TypeInv
  <2>2. table \in [Catalog!Ids -> Catalog!Row \cup {NoRow}] /\ clock = 0
    BY <2>1 DEF Init, TypeOK, Catalog!Ids, Catalog!Row, RowId, Row, Time
  <2>3. known = Catalog!Held
    BY DEF Init, KeysOf, Catalog!Held, Catalog!Present, Catalog!Ids, RowId
  <2>4. [s \in Session |-> Settled(s)] = [s \in Session |-> 0]
    BY DEF Init, Settled
  <2> QED
    BY <2>2, <2>3, <2>4 DEF Catalog!Start
<1>2. CatalogInv /\ CatalogInv' /\ [Next]_vars => [Catalog!Next]_(Catalog!vars)
  BY StepImplements
<1> QED
  BY CatalogInit, CatalogNext, <1>1, <1>2, PTL DEF Spec, CatalogSpec, Catalog!Spec
=============================================================================
