------------------------------ MODULE IocStore ------------------------------
(***************************************************************************)
(* The iocs table and the database sessions that read and write it.        *)
(*                                                                         *)
(* A session is one AsyncSession doing one job: a bulk ingestion (a        *)
(* collector's run, or POST /iocs/bulk), POST, PUT or DELETE /iocs, or the *)
(* daily cleaner.  Between two statements of a job the event loop, another *)
(* worker process or the API may run another session, so a statement is    *)
(* one action.  PostgreSQL runs each transaction at READ COMMITTED: a      *)
(* statement sees the committed table and its own transaction's writes; a  *)
(* written row stays locked until the transaction ends.                    *)
(*                                                                         *)
(* A session's transaction is "active"; "aborted" after an error in a      *)
(* plain statement (the server refuses every further statement and turns   *)
(* COMMIT into ROLLBACK without an error); or "deactive" after an error in *)
(* a flush or a lost connection (SQLAlchemy refuses every further          *)
(* statement and the commit, until a rollback nobody calls).               *)
(***************************************************************************)
EXTENDS Integers, Sequences, FiniteSets

CONSTANTS
    Session,     \* the database sessions, each runs one job
    Key,         \* (type, value, source) triples
    MaxRow,      \* the largest id the iocs_id_seq sequence hands out
    MaxClock,    \* bound on the clock
    Retention,   \* days_old of the cleaner, in clock units
    MaxFaults,   \* bound on lost connections, killed processes and
                 \* suspended coroutines
    Workloads,   \* the assignments of jobs to sessions that are considered
    StartRows,   \* the rows the table holds at the start, a sequence
    NoRow,       \* there is no row with this id
    Untouched,   \* this session has not written the row
    NoTime,      \* a NULL last_seen, or one the feed does not supply
    Keep         \* an update that leaves last_seen alone

Time  == 0 .. MaxClock
RowId == 1 .. MaxRow
Row   == [key : Key, seen : Time \cup {NoTime}]

\* "nul": the value holds a NUL character, which the server refuses in any
\* statement; "long": the joined tags exceed their column, so the row cannot
\* be written.
Defect == {"none", "nul", "long"}
Item   == [key : Key, defect : Defect, seen : Time \cup {NoTime}]
Kind   == {"bulk", "create", "update", "delete", "cleanup"}
Job    == [kind    : Kind,
           batches : Seq(Seq(Item)),               \* bulk, create
           skip    : BOOLEAN,                      \* bulk: skip_duplicates
           row     : RowId,                        \* update, delete: the id
           seen    : Time \cup {NoTime, Keep},     \* update: last_seen
           defect  : {"none", "long"}]             \* update: the new tags
\* created, skipped and errors of an ingestion, removed of the cleaner.
Counter == {"created", "skipped", "errors", "removed"}
Tally  == [Counter -> Nat]

ASSUME BoundsAssumption ==
    /\ MaxRow \in Nat \ {0} /\ MaxClock \in Nat
    /\ Retention \in Nat /\ MaxFaults \in Nat
ASSUME NullsAssumption ==
    /\ NoRow \notin Row /\ Untouched \notin Row /\ NoRow # Untouched
    /\ NoTime \notin Time /\ Keep \notin Time /\ Keep # NoTime
ASSUME StartAssumption ==
    StartRows \in Seq(Row) /\ Len(StartRows) =< MaxRow
\* Only ingestions have batches, and the schema and process_batch let no
\* empty one through.
ASSUME WorkAssumption ==
    /\ Workloads \subseteq [Session -> Job]
    /\ \A w \in Workloads : \A s \in Session :
        /\ w[s].kind \in {"bulk", "create"} <=> w[s].batches # <<>>
        /\ \A i \in DOMAIN w[s].batches : w[s].batches[i] # <<>>

VARIABLES
    table,     \* the committed rows
    nextId,    \* the next value of the id sequence
    known,     \* history: the keys the table has ever held
    clock,     \* datetime.now()
    faults,    \* lost connections, killed processes, suspensions so far
    job,       \* the job of each session, never changed
    own,       \* the uncommitted writes of each session, and so its row locks
    tx,        \* the state of each session's transaction
    pc,        \* the statement each session runs next
    batch,     \* the items left of the current batch
    later,     \* the batches after it
    found,     \* the id of the row a statement is about to write
    stamp,     \* a time captured by an earlier step of the job
    sweep,     \* the rows the cleaner's DELETE has still to visit
    tally,     \* the counts of the current batch
    stats,     \* the counts the job reports, over its committed batches
    effect,    \* history: rows this job's commits added or removed
    outcome,   \* how the job ended
    idle       \* the sessions whose coroutine is left suspended

db     == <<table, nextId, known>>
items  == <<batch, later>>
cursor == <<found, stamp, sweep>>
counts == <<tally, stats, effect>>
vars   == <<table, nextId, known, clock, faults, job, own, tx, pc, batch, later,
            found, stamp, sweep, tally, stats, effect, outcome, idle>>

Clean     == [r \in RowId |-> Untouched]
ZeroTally == [f \in Counter |-> 0]
Location  == {"start", "check", "reread", "touch", "insert", "fetch", "write",
              "count", "scan", "sweep", "commit", "done"}

\* The types of the state.  What is not obvious of it: no step hands out an
\* id beyond the sequence, and a batch never runs out in the middle of an item.
TypeOK ==
    /\ table   \in [RowId -> Row \cup {NoRow}]
    /\ nextId  \in 1 .. MaxRow + 1
    /\ known   \subseteq Key
    /\ idle    \subseteq Session
    /\ clock   \in Time
    /\ faults  \in 0 .. MaxFaults
    /\ job     \in Workloads
    /\ own     \in [Session -> [RowId -> Row \cup {NoRow, Untouched}]]
    /\ tx      \in [Session -> {"active", "aborted", "deactive"}]
    /\ pc      \in [Session -> Location]
    /\ batch   \in [Session -> Seq(Item)]
    /\ later   \in [Session -> Seq(Seq(Item))]
    /\ found   \in [Session -> RowId]
    /\ stamp   \in [Session -> Time]
    /\ sweep   \in [Session -> SUBSET RowId]
    /\ tally   \in [Session -> Tally]
    /\ stats   \in [Session -> Tally]
    /\ effect  \in [Session -> Nat]
    /\ outcome \in [Session -> {"none", "ok", "rejected", "failed", "killed"}]

\* The keys of the rows of a table.
KeysOf(rows) == {rows[r].key : r \in {q \in RowId : rows[q] # NoRow}}

Init ==
    /\ table = [r \in RowId |-> IF r =< Len(StartRows) THEN StartRows[r] ELSE NoRow]
    /\ nextId = Len(StartRows) + 1
    /\ known = KeysOf(table)
    /\ clock = 0
    /\ faults = 0
    /\ job \in Workloads
    /\ own = [s \in Session |-> Clean]
    /\ tx = [s \in Session |-> "active"]
    /\ pc = [s \in Session |-> "start"]
    /\ batch = [s \in Session |-> <<>>]
    /\ later = [s \in Session |-> job[s].batches]
    /\ found = [s \in Session |-> job[s].row]
    /\ stamp = [s \in Session |-> 0]
    /\ sweep = [s \in Session |-> {}]
    /\ tally = [s \in Session |-> ZeroTally]
    /\ stats = [s \in Session |-> ZeroTally]
    /\ effect = [s \in Session |-> 0]
    /\ outcome = [s \in Session |-> "none"]
    /\ idle = {}

-----------------------------------------------------------------------------
(* What a session sees, and what it waits for.                             *)

Ingests(s) == job[s].kind \in {"bulk", "create"}

\* What a statement of session s reads.
View(s) == [r \in RowId |-> IF own[s][r] = Untouched THEN table[r] ELSE own[s][r]]

\* The rows check_ioc_exists selects.
Matches(s, k) == {r \in RowId : View(s)[r] # NoRow /\ View(s)[r].key = k}

\* last_seen < now - days_old, which a NULL last_seen does not satisfy.
Stale(row, now) == row # NoRow /\ row.seen # NoTime /\ row.seen + Retention < now

\* Whose transaction session s waits for before it can write row found[s].
Holders(s) == {t \in Session \ {s} : own[t][found[s]] # Untouched}
BlockedBy(s) == IF pc[s] \in {"touch", "write", "sweep"} THEN Holders(s) ELSE {}

\* The server's deadlock detector: s is on a cycle of waiting transactions.
Deadlocked(s) ==
    \E C \in SUBSET Session :
        /\ s \in C
        /\ \A c \in C : /\ \E d \in C : d \in BlockedBy(c)
                        /\ \E d \in C : c \in BlockedBy(d)

-----------------------------------------------------------------------------
(* Ends of a step that several operations share.                           *)

Goto(s, l) == pc' = [pc EXCEPT ![s] = l]

Reply(s, o) ==
    /\ Goto(s, "done")
    /\ outcome' = [outcome EXCEPT ![s] = o]

\* The server forgets the writes of s and releases its locks.
Undo(s) == own' = [own EXCEPT ![s] = Clean]

Count(s, field) == tally' = [tally EXCEPT ![s][field] = @ + 1]

\* create_iocs_bulk goes on with the next item; after the last it commits.
NextItem(s) ==
    /\ batch' = [batch EXCEPT ![s] = Tail(@)]
    /\ Goto(s, IF Len(batch[s]) > 1 THEN "check" ELSE "commit")

\* Where an exception ends up: create_iocs_bulk counts it and goes on with
\* the next item; every other job ends with its transaction rolled back.
Raise(s) ==
    \/ /\ job[s].kind = "bulk"
       /\ Count(s, "errors")
       /\ NextItem(s)
       /\ UNCHANGED outcome
    \/ /\ job[s].kind # "bulk"
       /\ Reply(s, "failed")
       /\ UNCHANGED <<batch, tally>>

-----------------------------------------------------------------------------
(* Bulk ingestion and POST /iocs.                                          *)

\* The request or the task starts.  The cleaner computes its cutoff here.
Begin(s) ==
    /\ pc[s] = "start"
    /\ \/ /\ Ingests(s)
          /\ batch' = [batch EXCEPT ![s] = Head(later[s])]
          /\ later' = [later EXCEPT ![s] = Tail(@)]
          /\ Goto(s, "check")
          /\ UNCHANGED stamp
       \/ /\ job[s].kind \in {"update", "delete"}
          /\ Goto(s, "fetch")
          /\ UNCHANGED <<items, stamp>>
       \/ /\ job[s].kind = "cleanup"
          /\ stamp' = [stamp EXCEPT ![s] = clock]
          /\ Goto(s, "count")
          /\ UNCHANGED items
    /\ UNCHANGED <<db, clock, faults, job, own, tx, found, sweep, counts, outcome>>

\* check_ioc_exists: the server refuses the value and aborts the transaction.
CheckFails(s) ==
    /\ pc[s] = "check" /\ tx[s] = "active"
    /\ Head(batch[s]).defect = "nul"
    /\ tx' = [tx EXCEPT ![s] = "aborted"]
    /\ Undo(s)
    /\ Raise(s)
    /\ UNCHANGED <<db, clock, faults, job, later, cursor, stats, effect>>

\* check_ioc_exists: two rows match, scalar_one_or_none raises.  The
\* transaction goes on.
CheckAmbiguous(s) ==
    /\ pc[s] = "check" /\ tx[s] = "active"
    /\ Head(batch[s]).defect # "nul"
    /\ Cardinality(Matches(s, Head(batch[s]).key)) > 1
    /\ Raise(s)
    /\ UNCHANGED <<db, clock, faults, job, own, tx, later, cursor, stats, effect>>

\* check_ioc_exists returns a row: 409, or an error, or a refresh of the row.
CheckFindsOne(s) ==
    /\ pc[s] = "check" /\ tx[s] = "active"
    /\ Head(batch[s]).defect # "nul"
    /\ \E r \in RowId :
        /\ Matches(s, Head(batch[s]).key) = {r}
        /\ found' = [found EXCEPT ![s] = r]
    /\ \/ /\ job[s].kind = "create"
          /\ Reply(s, "rejected")
          /\ UNCHANGED <<batch, tally>>
       \/ /\ job[s].kind = "bulk" /\ job[s].skip
          /\ Goto(s, "reread")
          /\ UNCHANGED <<batch, tally, outcome>>
       \/ /\ job[s].kind = "bulk" /\ ~job[s].skip
          /\ Count(s, "errors")
          /\ NextItem(s)
          /\ UNCHANGED outcome
    /\ UNCHANGED <<db, clock, faults, job, own, tx, later, stamp, sweep, stats, effect>>

\* Mutant: the check is left out.
CheckSkipped(s) ==
    /\ pc[s] = "check" /\ tx[s] = "active"
    /\ Head(batch[s]).defect # "nul"
    /\ Goto(s, "insert")
    /\ UNCHANGED <<db, clock, faults, job, own, tx, items, cursor, counts, outcome>>

CheckFindsNone(s) ==
    /\ pc[s] = "check" /\ tx[s] = "active"
    /\ Head(batch[s]).defect # "nul"
    /\ Matches(s, Head(batch[s]).key) = {}
    /\ Goto(s, "insert")
    /\ UNCHANGED <<db, clock, faults, job, own, tx, items, cursor, counts, outcome>>

\* Mutant: an id is taken without asking whether the sequence has one left.
InsertUnchecked(s) ==
    /\ pc[s] = "insert" /\ tx[s] = "active"
    /\ Head(batch[s]).defect = "none"
    /\ own' = [own EXCEPT ![s][nextId] = [key |-> Head(batch[s]).key, seen |-> clock]]
    /\ nextId' = nextId + 1
    /\ Count(s, "created")
    /\ NextItem(s)
    /\ UNCHANGED <<table, known, clock, faults, job, tx, later, cursor, stats, effect, outcome>>

\* create_ioc: the row is written under a new id; the feed may supply
\* last_seen.
Insert(s) ==
    /\ pc[s] = "insert" /\ tx[s] = "active"
    /\ LET it == Head(batch[s]) IN
        /\ it.defect = "none" /\ nextId =< MaxRow
        /\ own' = [own EXCEPT ![s][nextId] =
                     [key |-> it.key,
                      seen |-> IF it.seen = NoTime THEN clock ELSE it.seen]]
    /\ nextId' = nextId + 1
    /\ Count(s, "created")
    /\ NextItem(s)
    /\ UNCHANGED <<table, known, clock, faults, job, tx, later, cursor, stats, effect, outcome>>

\* Mutant: a row that has gone is passed over without being counted.
RereadUncounted(s) ==
    /\ pc[s] = "reread" /\ tx[s] = "active"
    /\ \/ /\ View(s)[found[s]] = NoRow
          /\ NextItem(s)
          /\ UNCHANGED stamp
       \/ /\ View(s)[found[s]] # NoRow
          /\ stamp' = [stamp EXCEPT ![s] = clock]
          /\ Goto(s, "touch")
          /\ UNCHANGED batch
    /\ UNCHANGED <<db, clock, faults, job, own, tx, later, found, sweep, counts, outcome>>

\* update_ioc_last_seen reads the row again by its id.  A row that has gone
\* is left alone and the item still counts as skipped.
Reread(s) ==
    /\ pc[s] = "reread" /\ tx[s] = "active"
    /\ \/ /\ View(s)[found[s]] = NoRow
          /\ Count(s, "skipped")
          /\ NextItem(s)
          /\ UNCHANGED stamp
       \/ /\ View(s)[found[s]] # NoRow
          /\ stamp' = [stamp EXCEPT ![s] = clock]
          /\ Goto(s, "touch")
          /\ UNCHANGED <<batch, tally>>
    /\ UNCHANGED <<db, clock, faults, job, own, tx, later, found, sweep, stats, effect, outcome>>

\* update_ioc_last_seen: the UPDATE, once the row is free.
Touch(s) ==
    /\ pc[s] = "touch" /\ tx[s] = "active"
    /\ Holders(s) = {}
    /\ View(s)[found[s]] # NoRow
    /\ own' = [own EXCEPT ![s][found[s]] = [View(s)[found[s]] EXCEPT !.seen = stamp[s]]]
    /\ Count(s, "skipped")
    /\ NextItem(s)
    /\ UNCHANGED <<db, clock, faults, job, tx, later, cursor, stats, effect, outcome>>

-----------------------------------------------------------------------------
(* PUT and DELETE /iocs/{id}.                                              *)

\* get_ioc: 404 when there is no such row.
Fetch(s) ==
    /\ pc[s] = "fetch" /\ tx[s] = "active"
    /\ \/ View(s)[found[s]] = NoRow /\ Reply(s, "rejected")
       \/ View(s)[found[s]] # NoRow /\ Goto(s, "write") /\ UNCHANGED outcome
    /\ UNCHANGED <<db, clock, faults, job, own, tx, items, cursor, counts>>

\* The UPDATE writes only the columns the request names.
Update(s) ==
    /\ pc[s] = "write" /\ tx[s] = "active" /\ job[s].kind = "update"
    /\ Holders(s) = {}
    /\ table[found[s]] # NoRow /\ job[s].defect = "none"
    /\ own' = [own EXCEPT ![s][found[s]] =
                 [table[found[s]] EXCEPT !.seen = IF job[s].seen = Keep THEN @ ELSE job[s].seen]]
    /\ Goto(s, "commit")
    /\ UNCHANGED <<db, clock, faults, job, tx, items, cursor, counts, outcome>>

\* A DELETE that matches no row only logs a warning.
Delete(s) ==
    /\ pc[s] = "write" /\ tx[s] = "active" /\ job[s].kind = "delete"
    /\ Holders(s) = {}
    /\ own' = [own EXCEPT ![s][found[s]] = IF table[found[s]] = NoRow THEN @ ELSE NoRow]
    /\ Goto(s, "commit")
    /\ UNCHANGED <<db, clock, faults, job, tx, items, cursor, counts, outcome>>

-----------------------------------------------------------------------------
(* cleanup_old_iocs.                                                       *)

\* The SELECT count(...), whose result is what the cleaner reports.
CountOld(s) ==
    /\ pc[s] = "count" /\ tx[s] = "active"
    /\ LET old == {r \in RowId : Stale(table[r], stamp[s])} IN
        \/ old = {} /\ Reply(s, "ok") /\ UNCHANGED tally
        \/ /\ old # {}
           /\ tally' = [tally EXCEPT ![s].removed = Cardinality(old)]
           /\ Goto(s, "scan")
           /\ UNCHANGED outcome
    /\ UNCHANGED <<db, clock, faults, job, own, tx, items, cursor, stats, effect>>

\* The DELETE takes its own snapshot of the rows to visit.
Scan(s) ==
    /\ pc[s] = "scan" /\ tx[s] = "active"
    /\ sweep' = [sweep EXCEPT ![s] = {r \in RowId : Stale(table[r], stamp[s])}]
    /\ \/ sweep'[s] = {} /\ Goto(s, "commit") /\ UNCHANGED found
       \/ /\ \E r \in sweep'[s] : found' = [found EXCEPT ![s] = r]
          /\ Goto(s, "sweep")
    /\ UNCHANGED <<db, clock, faults, job, own, tx, items, stamp, counts, outcome>>

\* Mutant: the rows are deleted by the ids selected before, as they were.
SweepBlind(s) ==
    /\ pc[s] = "sweep" /\ tx[s] = "active"
    /\ Holders(s) = {}
    /\ own' = [own EXCEPT ![s][found[s]] = NoRow]
    /\ sweep' = [sweep EXCEPT ![s] = @ \ {found[s]}]
    /\ \/ sweep'[s] = {} /\ Goto(s, "commit") /\ UNCHANGED found
       \/ /\ \E r \in sweep'[s] : found' = [found EXCEPT ![s] = r]
          /\ Goto(s, "sweep")
    /\ UNCHANGED <<db, clock, faults, job, tx, items, stamp, counts, outcome>>

\* The DELETE reaches a row of its snapshot, waits for its lock, and tests
\* the row again as it then is.
Sweep(s) ==
    /\ pc[s] = "sweep" /\ tx[s] = "active"
    /\ Holders(s) = {}
    /\ own' = [own EXCEPT ![s][found[s]] =
                 IF Stale(table[found[s]], stamp[s]) THEN NoRow ELSE @]
    /\ sweep' = [sweep EXCEPT ![s] = @ \ {found[s]}]
    /\ \/ sweep'[s] = {} /\ Goto(s, "commit") /\ UNCHANGED found
       \/ /\ \E r \in sweep'[s] : found' = [found EXCEPT ![s] = r]
          /\ Goto(s, "sweep")
    /\ UNCHANGED <<db, clock, faults, job, tx, items, stamp, counts, outcome>>

-----------------------------------------------------------------------------
(* Errors.                                                                 *)

\* Mutant: the handler rolls back and goes on as if the batch were whole.
FlushFailsRecovers(s) ==
    /\ tx[s] = "active"
    /\ \/ /\ pc[s] = "insert"
          /\ Head(batch[s]).defect = "long" \/ nextId > MaxRow
       \/ /\ pc[s] = "touch" /\ Holders(s) = {}
          /\ View(s)[found[s]] = NoRow
       \/ /\ pc[s] = "write" /\ job[s].kind = "update" /\ Holders(s) = {}
          /\ table[found[s]] = NoRow \/ job[s].defect = "long"
    /\ Undo(s)
    /\ Raise(s)
    /\ UNCHANGED <<db, clock, faults, job, tx, later, cursor, stats, effect>>

\* A flush fails: the new row does not fit its columns or the id sequence is
\* exhausted; or the row to update has gone (StaleDataError).  SQLAlchemy
\* rolls the transaction back at once.
FlushFails(s) ==
    /\ tx[s] = "active"
    /\ \/ /\ pc[s] = "insert"
          /\ Head(batch[s]).defect = "long" \/ nextId > MaxRow
       \/ /\ pc[s] = "touch" /\ Holders(s) = {}
          /\ View(s)[found[s]] = NoRow
       \/ /\ pc[s] = "write" /\ job[s].kind = "update" /\ Holders(s) = {}
          /\ table[found[s]] = NoRow \/ job[s].defect = "long"
    /\ tx' = [tx EXCEPT ![s] = "deactive"]
    /\ Undo(s)
    /\ Raise(s)
    /\ UNCHANGED <<db, clock, faults, job, later, cursor, stats, effect>>

\* Mutant: a deadlock is noticed and left as it is.
NoVictim(s) == Deadlocked(s) /\ UNCHANGED vars

\* The server picks a transaction of a cycle and fails the statement it waits
\* in: a flush, or the cleaner's DELETE.
DeadlockVictim(s) ==
    /\ tx[s] = "active"
    /\ Deadlocked(s)
    /\ tx' = [tx EXCEPT ![s] = IF pc[s] = "sweep" THEN "aborted" ELSE "deactive"]
    /\ Undo(s)
    /\ Raise(s)
    /\ UNCHANGED <<db, clock, faults, job, later, cursor, stats, effect>>

\* A statement of a transaction that is no longer active is refused.
StatementRefused(s) ==
    /\ pc[s] \notin {"start", "commit", "done"}
    /\ tx[s] # "active"
    /\ Raise(s)
    /\ UNCHANGED <<db, clock, faults, job, own, tx, later, cursor, stats, effect>>

-----------------------------------------------------------------------------
(* Commit, and what may happen at any time.                                *)

Plus(t, u) == [f \in Counter |-> t[f] + u[f]]

\* The server carries out a COMMIT: the session's writes become the table.
Publish(s) ==
    /\ table' = View(s)
    /\ known' = known \cup KeysOf(table')
    /\ Undo(s)
    /\ effect' = [effect EXCEPT ![s] =
                    @ + Cardinality({r \in RowId : (table[r] = NoRow) # (table'[r] = NoRow)})]

\* db.commit().  An aborted transaction has no writes left, and its COMMIT
\* reports no error.
Commit(s) ==
    /\ pc[s] = "commit" /\ tx[s] # "deactive"
    /\ Publish(s)
    /\ tx' = [tx EXCEPT ![s] = "active"]
    /\ stats' = [stats EXCEPT ![s] = Plus(@, tally[s])]
    /\ tally' = [tally EXCEPT ![s] = ZeroTally]
    /\ \/ later[s] = <<>> /\ Reply(s, "ok") /\ UNCHANGED items
       \/ /\ later[s] # <<>>
          /\ batch' = [batch EXCEPT ![s] = Head(later[s])]
          /\ later' = [later EXCEPT ![s] = Tail(@)]
          /\ Goto(s, "check")
          /\ UNCHANGED outcome
    /\ UNCHANGED <<nextId, clock, faults, job, cursor>>

\* The commit raises: the batch is lost, and the batches after it are not
\* tried.
CommitRefused(s) ==
    /\ pc[s] = "commit" /\ tx[s] = "deactive"
    /\ Reply(s, "failed")
    /\ UNCHANGED <<db, clock, faults, job, own, tx, items, cursor, counts>>

Running(s) == pc[s] \notin {"start", "done"}

\* The connection to the server breaks under the session.
ConnectionLost(s) ==
    /\ Running(s) /\ tx[s] # "deactive"
    /\ faults < MaxFaults
    /\ faults' = faults + 1
    /\ tx' = [tx EXCEPT ![s] = "deactive"]
    /\ Undo(s)
    /\ UNCHANGED <<db, clock, job, pc, items, cursor, counts, outcome>>

\* The server has carried out the COMMIT, but the connection or the process of
\* the session is gone before its answer arrives: the exception ends the job,
\* and the counts of the batch are not added.
CommitUnanswered(s) ==
    /\ pc[s] = "commit" /\ tx[s] # "deactive"
    /\ faults < MaxFaults
    /\ faults' = faults + 1
    /\ Publish(s)
    /\ Reply(s, "failed") \/ Reply(s, "killed")
    /\ UNCHANGED <<nextId, clock, job, tx, items, cursor, tally, stats>>

\* The worker or API process that runs the session dies.
Kill(s) ==
    /\ Running(s)
    /\ faults < MaxFaults
    /\ faults' = faults + 1
    /\ Undo(s)
    /\ Reply(s, "killed")
    /\ UNCHANGED <<db, clock, job, tx, items, cursor, counts>>

Tick ==
    /\ clock < MaxClock
    /\ clock' = clock + 1
    /\ UNCHANGED <<db, faults, job, own, tx, pc, items, cursor, counts, outcome>>

\* Celery's soft time limit strikes while the worker's loop waits: its exception
\* leaves run_until_complete, and the coroutine stays where it is, with its
\* transaction and its locks, until a later task runs the loop again.
Suspend(s) ==
    /\ Running(s) /\ s \notin idle /\ job[s].kind \in {"bulk", "cleanup"}
    /\ faults < MaxFaults
    /\ faults' = faults + 1
    /\ idle' = idle \cup {s}
    /\ UNCHANGED <<db, clock, job, own, tx, pc, items, cursor, counts, outcome>>

Resume(s) ==
    /\ s \in idle
    /\ idle' = idle \ {s}
    /\ UNCHANGED <<db, clock, faults, job, own, tx, pc, items, cursor, counts, outcome>>

\* All jobs have ended and the clock has reached its bound.
Finished ==
    /\ \A s \in Session : pc[s] = "done"
    /\ clock = MaxClock
    /\ UNCHANGED vars

Statement(s) ==
    \/ CheckFails(s) \/ CheckAmbiguous(s) \/ CheckFindsOne(s) \/ CheckFindsNone(s)
    \/ Insert(s) \/ Reread(s) \/ Touch(s)
    \/ Fetch(s) \/ Update(s) \/ Delete(s)
    \/ CountOld(s) \/ Scan(s) \/ Sweep(s)
    \/ FlushFails(s) \/ DeadlockVictim(s) \/ StatementRefused(s)
    \/ Commit(s) \/ CommitRefused(s)

Breaks(s) == ConnectionLost(s) \/ CommitUnanswered(s) \/ Kill(s)

\* A step of a coroutine that its loop runs.
Proceeds(s) == s \notin idle /\ Statement(s) /\ UNCHANGED idle

Next ==
    \/ \E s \in Session :
        \/ Begin(s) /\ UNCHANGED idle
        \/ Proceeds(s)
        \/ Breaks(s) /\ UNCHANGED idle
        \/ Suspend(s)
        \/ Resume(s)
    \/ Tick /\ UNCHANGED idle
    \/ Finished

Spec == Init /\ [][Next]_vars

\* A statement that can run does run, and the server's deadlock detector
\* does: the drivers have no statement timeout, but every statement ends.
\* Nothing is assumed of the clock, of faults, of when a job starts, or of
\* when a suspended one goes on.
FairSpec == Spec /\ \A s \in Session : WF_vars(Proceeds(s))
-----------------------------------------------------------------------------
(* Properties.                                                             *)

\* No two rows hold the same indicator from the same source.  The table has
\* no unique constraint: only check_ioc_exists stands in the way, so this can
\* hold only while no two sessions ingest the same key.
NoDuplicates ==
    \A r1, r2 \in RowId :
        table[r1] # NoRow /\ table[r2] # NoRow /\ table[r1].key = table[r2].key => r1 = r2

\* Session s may insert key k.
Ingested(k, w, s) ==
    /\ w[s].kind \in {"bulk", "create"}
    /\ \E i \in DOMAIN w[s].batches : \E n \in DOMAIN w[s].batches[i] :
        w[s].batches[i][n].key = k

\* No two of the jobs at hand ingest the same key: the collectors of
\* different feeds write different sources.
DisjointJobs ==
    \A s, t \in Session : \A k \in Key :
        Ingested(k, job, s) /\ Ingested(k, job, t) => s = t

\* While that is so, the check of the application is enough to keep the table
\* free of duplicates, whatever fails, is edited or deleted meanwhile.
NoDuplicatesUnlessShared == DisjointJobs => NoDuplicates

\* The table holds no duplicate at the start.
DistinctStart ==
    \A i, j \in DOMAIN StartRows : StartRows[i].key = StartRows[j].key => i = j

\* The created count an ingestion reports is the number of rows its commits
\* added, whatever was rolled back, refused or lost on the way.  Only one that
\* ended in an error or died may have added more: exactly what it had counted
\* of the batch whose COMMIT was carried out and never answered.
CountHonest(s) ==
    \/ effect[s] = stats[s].created
    \/ /\ outcome[s] \in {"failed", "killed"}
       /\ effect[s] = stats[s].created + tally[s].created
CreatedCountHonest == \A s \in Session : Ingests(s) => CountHonest(s)

\* Every item of a batch that has been dealt with is in exactly one of the
\* three counts create_iocs_bulk returns.
ItemsAccounted ==
    \A s \in Session :
        job[s].kind = "bulk" /\ Running(s) =>
            LET now == job[s].batches[Len(job[s].batches) - Len(later[s])]
            IN  tally[s].created + tally[s].skipped + tally[s].errors
                  = Len(now) - Len(batch[s])

\* How much of its job a session has made visible or given up: batches of an
\* ingestion, and the whole of any other job.
Settled(s) ==
    IF pc[s] = "start" THEN 0
    ELSE IF Ingests(s)
    THEN Len(job[s].batches) - Len(later[s]) - (IF Running(s) THEN 1 ELSE 0)
    ELSE IF Running(s) THEN 0 ELSE 1

\* What the table promises its readers, IocCatalog: the sessions with their
\* statements, uncommitted writes and locks are hidden.
Catalog == INSTANCE IocCatalog WITH settled <- [s \in Session |-> Settled(s)]

CatalogSpec == Catalog!Spec

\* A job that has started ends, however it competes for rows with others, but
\* for one that waits for a coroutine left suspended with its locks.
Termination ==
    <>[](\A s \in idle : ~Running(s)) =>
        \A s \in Session : Running(s) ~> pc[s] = "done"

=============================================================================
