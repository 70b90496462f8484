----------------------------- MODULE IocCatalog -----------------------------
(***************************************************************************)
(* What the iocs table promises to those who read it.  Each job becomes    *)
(* visible at most once, an ingestion batch by batch and in order, and     *)
(* each batch as a whole: once anything of it is seen, every key of it is  *)
(* in the table or was there before.  An ingestion only adds rows of its   *)
(* batch and refreshes the last_seen of others; an edit or a delete        *)
(* changes the row the request names, as it then is; the cleaner removes   *)
(* only rows that, as they then are, were last seen before its cutoff      *)
(* (some of them: those that came after it began may stay).                *)
(***************************************************************************)
EXTENDS Integers, Sequences

CONSTANTS Session, Key, MaxRow, MaxClock, Retention, NoRow, NoTime, Keep

VARIABLES
    table,     \* the rows readers see
    known,     \* the keys the table has ever held
    clock,
    job,       \* what each session is to do
    settled    \* how many parts of its job each has made visible or given up

vars == <<table, known, clock, job, settled>>

Row == [key : Key, seen : (0 .. MaxClock) \cup {NoTime}]
Ids == 1 .. MaxRow

Present(r) == table[r] # NoRow
Held       == {table[r].key : r \in {q \in Ids : Present(q)}}
Expired(r, now) ==
    Present(r) /\ table[r].seen # NoTime /\ table[r].seen + Retention < now

Ingests(s) == job[s].kind \in {"bulk", "create"}
Parts(s)   == IF Ingests(s) THEN Len(job[s].batches) ELSE 1
\* The keys of the next batch of an ingestion.
Upcoming(s) ==
    LET now == job[s].batches[settled[s] + 1] IN {now[n].key : n \in DOMAIN now}

Start ==
    /\ table \in [Ids -> Row \cup {NoRow}] /\ known = Held
    /\ clock = 0 /\ settled = [s \in Session |-> 0]

\* One more part of a job is done with; the table may have gained keys.
Settle(s) ==
    /\ settled[s] < Parts(s) /\ settled' = [settled EXCEPT ![s] = @ + 1]
    /\ known' = known \cup Held'
    /\ UNCHANGED <<clock, job>>

\* A whole batch: new rows, and rows seen again by now.
Ingest(s) ==
    /\ Ingests(s) /\ Settle(s)
    /\ table' \in [Ids -> Row \cup {NoRow}]
    /\ \A r \in Ids : table'[r] # table[r] =>
        /\ table'[r] # NoRow /\ table'[r].key \in Upcoming(s)
        /\ Present(r) => table'[r].key = table[r].key /\ table'[r].seen \in 0 .. clock
    /\ Upcoming(s) \subseteq known'

Edit(s) ==
    /\ job[s].kind = "update" /\ Settle(s)
    /\ Present(job[s].row)
    /\ table' = [table EXCEPT ![job[s].row].seen =
                   IF job[s].seen = Keep THEN @ ELSE job[s].seen]

Remove(s) ==
    /\ job[s].kind = "delete" /\ Settle(s)
    /\ Present(job[s].row)
    /\ table' = [table EXCEPT ![job[s].row] = NoRow]

Expire(s) ==
    /\ job[s].kind = "cleanup" /\ Settle(s)
    /\ \E now \in 0 .. clock : \E old \in SUBSET Ids :
        /\ \A r \in old : Expired(r, now)
        /\ table' = [r \in Ids |-> IF r \in old THEN NoRow ELSE table[r]]

\* A batch or a job is refused, undone or lost: nothing of it is ever seen.
GiveUp(s) == Settle(s) /\ table' = table

Tick == clock' = clock + 1 /\ UNCHANGED <<table, known, job, settled>>

Next ==
    \/ \E s \in Session : Ingest(s) \/ Edit(s) \/ Remove(s) \/ Expire(s) \/ GiveUp(s)
    \/ Tick

Spec == Start /\ [][Next]_vars
=============================================================================
