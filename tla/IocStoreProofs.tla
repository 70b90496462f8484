--------------------------- MODULE IocStoreProofs ---------------------------
(***************************************************************************)
(* Proofs about IocStore for every set of sessions, every workload, every  *)
(* number of rows and every bound.                                         *)
(***************************************************************************)
EXTENDS IocStore, FiniteSetTheorems, SequenceTheorems, TLAPS

(* The statement a session has reached fits its job, and an ingestion in   *)
(* the middle of a batch has items left: without it the type of the        *)
(* batches is not preserved by the steps that take an item off.            *)
Flow ==
    \A s \in Session :
        /\ later[s] # <<>> => Ingests(s)
        /\ \A i \in DOMAIN later[s] : later[s][i] # <<>>
        /\ pc[s] = "start" /\ Ingests(s) => later[s] # <<>>
        /\ pc[s] \in {"check", "insert"} => Ingests(s) /\ batch[s] # <<>>
        /\ pc[s] \in {"reread", "touch"} => job[s].kind = "bulk" /\ batch[s] # <<>>
        /\ pc[s] \in {"fetch", "write"} => job[s].kind \in {"update", "delete"}
        /\ pc[s] \in {"count", "scan", "sweep"} => job[s].kind = "cleanup"

TypeInv == TypeOK /\ Flow

(* What the sessions' jobs are.                                            *)
LEMMA JobType ==
  ASSUME TypeOK, NEW s \in Session
  PROVE  /\ job[s] \in Job
         /\ job[s].kind \in Kind
         /\ job[s].batches \in Seq(Seq(Item))
         /\ job[s].row \in RowId
         /\ job[s].seen \in Time \cup {NoTime, Keep}
         /\ Ingests(s) <=> job[s].batches # <<>>
         /\ \A i \in DOMAIN job[s].batches : job[s].batches[i] # <<>>
<1>1. job \in [Session -> Job]
  BY WorkAssumption DEF TypeOK
<1>2. job[s] \in Job
  BY <1>1
<1> QED
  BY <1>2, WorkAssumption DEF TypeOK, Job, Ingests

(* The row ids are finitely many.                                          *)
LEMMA RowIdFinite ==
  ASSUME NEW S \in SUBSET RowId
  PROVE  IsFiniteSet(S) /\ Cardinality(S) \in Nat
<1>1. IsFiniteSet(RowId)
  BY BoundsAssumption, FS_Interval DEF RowId
<1> QED
  BY <1>1, FS_Subset, FS_CardinalityType

(* Taking the first element off a sequence.                                *)
LEMMA TailType ==
  ASSUME NEW S, NEW q \in Seq(S), q # <<>>
  PROVE  /\ Head(q) \in S
         /\ Tail(q) \in Seq(S)
         /\ \A i \in DOMAIN Tail(q) : i + 1 \in DOMAIN q /\ Tail(q)[i] = q[i + 1]
         /\ Len(q) \in Nat /\ Len(Tail(q)) = Len(q) - 1
         /\ 1 \in DOMAIN q /\ Head(q) = q[1]
         /\ Len(q) > 1 => Tail(q) # <<>>
<1>1. Len(q) \in Nat /\ Len(q) # 0 /\ DOMAIN q = 1 .. Len(q)
  OBVIOUS
<1>2. /\ Tail(q) \in Seq(S) /\ Len(Tail(q)) = Len(q) - 1
      /\ DOMAIN Tail(q) = 1 .. Len(q) - 1
      /\ \A i \in 1 .. Len(q) - 1 : Tail(q)[i] = q[i + 1]
  BY <1>1
<1>3. Head(q) = q[1] /\ Head(q) \in S
  BY <1>1
<1>4. Len(q) > 1 => Tail(q) # <<>>
  <2> DEFINE t == Tail(q)
  <2>1. t \in Seq(S) /\ Len(t) = Len(q) - 1
    BY <1>2
  <2> HIDE DEF t
  <2>2. Len(q) > 1 => t # <<>>
    BY <1>1, <2>1
  <2> QED
    BY <2>2 DEF t
<1>5. \A i \in DOMAIN Tail(q) : i + 1 \in DOMAIN q /\ Tail(q)[i] = q[i + 1]
  BY <1>1, <1>2
<1> QED
  BY <1>1, <1>2, <1>3, <1>4, <1>5

(* Setting a count keeps the counts natural numbers.                       *)
LEMMA TallyKeeps ==
  ASSUME TypeOK, NEW s \in Session, NEW f \in Counter, NEW n \in Nat,
         tally' = [tally EXCEPT ![s][f] = n]
  PROVE  tally' \in [Session -> Tally]
<1>1. tally[s] \in [Counter -> Nat]
  BY DEF TypeOK, Tally
<1>2. [tally[s] EXCEPT ![f] = n] \in [Counter -> Nat]
  BY <1>1
<1>3. tally' = [tally EXCEPT ![s] = [tally[s] EXCEPT ![f] = n]]
  OBVIOUS
<1> QED
  BY <1>2, <1>3 DEF TypeOK, Tally

(* Adding one to a count keeps the counts natural numbers.                 *)
LEMMA CountKeeps ==
  ASSUME TypeOK, NEW s \in Session, NEW f \in Counter, Count(s, f)
  PROVE  tally' \in [Session -> Tally]
<1>1. tally[s][f] + 1 \in Nat
  BY DEF TypeOK, Tally
<1>2. tally' = [tally EXCEPT ![s][f] = tally[s][f] + 1]
  BY DEF Count
<1> QED
  BY <1>1, <1>2, TallyKeeps

(* A step that moves one session to a statement that fits its job.         *)
Fits(s, l) ==
    /\ l \in Location \ {"start"}
    /\ l \in {"check", "insert"} => Ingests(s) /\ batch[s] # <<>>
    /\ l \in {"reread", "touch"} => job[s].kind = "bulk" /\ batch[s] # <<>>
    /\ l \in {"fetch", "write"} => job[s].kind \in {"update", "delete"}
    /\ l \in {"count", "scan", "sweep"} => job[s].kind = "cleanup"

(* Moving to another statement keeps pc a function to locations.           *)
LEMMA GotoKeeps ==
  ASSUME TypeInv, NEW s \in Session, NEW l, Fits(s, l), Goto(s, l),
         UNCHANGED <<job, batch, later>>
  PROVE  pc' \in [Session -> Location] /\ Flow'
<1>1. pc' = [pc EXCEPT ![s] = l] /\ pc \in [Session -> Location] /\ l \in Location
  BY DEF Goto, TypeInv, TypeOK, Fits
<1>2. pc' \in [Session -> Location]
  BY <1>1
<1>3. Flow'
  BY <1>1 DEF TypeInv, Flow, Fits, Ingests
<1> QED
  BY <1>2, <1>3

(* The exception handler and the loop of create_iocs_bulk keep the types   *)
(* and the flow.                                                           *)
LEMMA NextItemKeeps ==
  ASSUME TypeInv, NEW s \in Session, batch[s] # <<>>, Ingests(s), NextItem(s),
         UNCHANGED <<job, later>>
  PROVE  /\ batch' \in [Session -> Seq(Item)]
         /\ pc' \in [Session -> Location]
         /\ Flow'
<1> USE DEF TypeInv
<1>1. batch[s] \in Seq(Item)
  BY DEF TypeOK
<1>2. /\ Tail(batch[s]) \in Seq(Item)
      /\ Len(batch[s]) > 1 => Tail(batch[s]) # <<>>
  BY <1>1, TailType
<1>3. batch' \in [Session -> Seq(Item)] /\ pc' \in [Session -> Location]
  BY <1>2 DEF NextItem, Goto, TypeOK, Location
<1>4. ASSUME NEW t \in Session, t # s
      PROVE  batch'[t] = batch[t] /\ pc'[t] = pc[t]
  BY <1>4 DEF NextItem, Goto, TypeOK
<1>5. /\ batch'[s] = Tail(batch[s])
      /\ pc'[s] = IF Len(batch[s]) > 1 THEN "check" ELSE "commit"
  BY DEF NextItem, Goto, TypeOK
<1>6. Flow'
  BY <1>2, <1>4, <1>5 DEF Flow, Ingests
<1> QED
  BY <1>3, <1>6

(* However an exception ends (counted by create_iocs_bulk, or the end of   *)
(* the job), the types and the flow are kept.                              *)
LEMMA RaiseKeeps ==
  ASSUME TypeInv, NEW s \in Session, Raise(s), UNCHANGED <<job, later>>,
         pc[s] \notin {"start", "commit", "done"}
  PROVE  /\ batch' \in [Session -> Seq(Item)]
         /\ pc' \in [Session -> Location]
         /\ tally' \in [Session -> Tally]
         /\ outcome' \in [Session -> {"none", "ok", "rejected", "failed", "killed"}]
         /\ Flow'
<1>1. CASE job[s].kind = "bulk"
  <2>1. batch[s] # <<>> /\ Ingests(s) /\ NextItem(s) /\ outcome' = outcome
    BY <1>1 DEF TypeInv, TypeOK, Location, Flow, Ingests, Raise
  <2>2. tally' \in [Session -> Tally]
    <3>1. Count(s, "errors") /\ "errors" \in Counter
      BY <1>1 DEF Raise, Counter
    <3> QED
      BY <3>1, CountKeeps DEF TypeInv
  <2> QED
    BY <2>1, <2>2, NextItemKeeps DEF TypeInv, TypeOK
<1>2. CASE job[s].kind # "bulk"
  <2>1. /\ pc' = [pc EXCEPT ![s] = "done"]
        /\ outcome' = [outcome EXCEPT ![s] = "failed"]
        /\ UNCHANGED <<batch, tally>>
    BY <1>2 DEF Raise, Reply, Goto
  <2> QED
    BY <2>1 DEF TypeInv, TypeOK, Location, Flow, Ingests
<1> QED
  BY <1>1, <1>2

(* A write of one row by one session, and a rollback.                      *)
LEMMA OwnKeeps ==
  ASSUME TypeOK, NEW s \in Session, NEW r \in RowId,
         NEW w \in Row \cup {NoRow, Untouched},
         own' = [own EXCEPT ![s][r] = w]
  PROVE  own' \in [Session -> [RowId -> Row \cup {NoRow, Untouched}]]
  BY DEF TypeOK

(* A rollback leaves the session's writes a function of the row ids.       *)
LEMMA UndoKeeps ==
  ASSUME TypeOK, NEW s \in Session, Undo(s)
  PROVE  own' \in [Session -> [RowId -> Row \cup {NoRow, Untouched}]]
  BY DEF TypeOK, Undo, Clean

(* What a session reads is a table of rows, like the committed one.        *)
LEMMA ViewType ==
  ASSUME TypeOK, NEW s \in Session
  PROVE  View(s) \in [RowId -> Row \cup {NoRow}]
  BY DEF TypeOK, View

(* The item an ingestion is about to check or insert is an item.           *)
LEMMA HeadType ==
  ASSUME TypeInv, NEW s \in Session, pc[s] \in {"check", "insert"}
  PROVE  /\ Head(batch[s]) \in Item
         /\ Ingests(s) /\ batch[s] # <<>>
<1>1. Ingests(s) /\ batch[s] # <<>>
  BY DEF TypeInv, Flow
<1>2. batch[s] \in Seq(Item)
  BY DEF TypeInv, TypeOK
<1> QED
  BY <1>1, <1>2, TailType

(* A COMMIT the server carries out leaves a table of rows.                 *)
LEMMA PublishKeeps ==
  ASSUME TypeOK, NEW s \in Session, Publish(s)
  PROVE  /\ table' \in [RowId -> Row \cup {NoRow}]
         /\ known' \subseteq Key
         /\ own' \in [Session -> [RowId -> Row \cup {NoRow, Untouched}]]
         /\ effect' \in [Session -> Nat]
<1>1. table' \in [RowId -> Row \cup {NoRow}]
  BY ViewType DEF Publish
<1>2. known' \subseteq Key
  <2>1. KeysOf(table') \subseteq Key
    BY <1>1 DEF KeysOf, Row
  <2> QED
    BY <2>1 DEF Publish, TypeOK
<1>3. own' \in [Session -> [RowId -> Row \cup {NoRow, Untouched}]]
  BY UndoKeeps DEF Publish
<1>4. effect' \in [Session -> Nat]
  <2> DEFINE changed == {r \in RowId : (table[r] = NoRow) # (table'[r] = NoRow)}
  <2>1. changed \in SUBSET RowId
    OBVIOUS
  <2>2. Cardinality(changed) \in Nat
    BY <2>1, RowIdFinite
  <2>3. effect' = [effect EXCEPT ![s] = @ + Cardinality(changed)]
    BY DEF Publish
  <2> HIDE DEF changed
  <2> QED
    BY <2>2, <2>3 DEF TypeOK
<1> QED
  BY <1>1, <1>2, <1>3, <1>4

(* Every step keeps the types and the flow.                                *)
LEMMA TypeStep == TypeInv /\ [Next]_vars => TypeInv'
<1> SUFFICES ASSUME TypeInv, [Next]_vars PROVE TypeInv'
  OBVIOUS
<1> USE DEF db, items, cursor, counts
<1>i. idle' \subseteq Session
  BY DEF Next, Proceeds, Suspend, Resume, Finished, vars, TypeInv, TypeOK
<1>1. ASSUME NEW s \in Session, Begin(s) PROVE TypeInv'
  <2>1. CASE Ingests(s)
    <3>1. /\ batch' = [batch EXCEPT ![s] = Head(later[s])]
          /\ later' = [later EXCEPT ![s] = Tail(later[s])]
          /\ pc' = [pc EXCEPT ![s] = "check"]
          /\ pc[s] = "start" /\ stamp' = stamp
      BY <1>1, <2>1 DEF Begin, Goto, Ingests
    <3>2. later[s] \in Seq(Seq(Item)) /\ later[s] # <<>>
      BY <2>1, <3>1 DEF TypeInv, TypeOK, Flow
    <3>3. /\ Head(later[s]) \in Seq(Item) /\ Tail(later[s]) \in Seq(Seq(Item))
          /\ Head(later[s]) # <<>>
          /\ \A i \in DOMAIN Tail(later[s]) : Tail(later[s])[i] # <<>>
      BY <3>2, TailType DEF TypeInv, Flow
    <3>4. Flow'
      BY <1>1, <2>1, <3>1, <3>3 DEF TypeInv, TypeOK, Flow, Ingests, Begin
    <3> QED
      BY <1>i, <1>1, <3>1, <3>3, <3>4 DEF TypeInv, TypeOK, Location, Begin
  <2>2. CASE ~Ingests(s)
    <3>1. /\ batch' = batch /\ later' = later /\ job' = job
          /\ \/ Goto(s, "fetch") /\ Fits(s, "fetch") /\ stamp' = stamp
             \/ /\ Goto(s, "count") /\ Fits(s, "count")
                /\ stamp' = [stamp EXCEPT ![s] = clock]
      BY <1>1, <2>2 DEF Begin, Ingests, Fits, Location
    <3>2. pc' \in [Session -> Location] /\ Flow'
      BY <3>1, GotoKeeps
    <3>3. stamp' \in [Session -> Time]
      BY <3>1 DEF TypeInv, TypeOK
    <3> QED
      BY <1>i, <1>1, <3>1, <3>2, <3>3 DEF TypeInv, TypeOK, Begin
  <2> QED
    BY <2>1, <2>2
<1>2. ASSUME NEW s \in Session, CheckFails(s) PROVE TypeInv'
  <2>1. Raise(s) /\ Undo(s) /\ pc[s] \notin {"start", "commit", "done"}
    BY <1>2 DEF CheckFails
  <2> QED
    BY <1>i, <1>2, <2>1, RaiseKeeps, UndoKeeps DEF TypeInv, TypeOK, CheckFails
<1>3. ASSUME NEW s \in Session, CheckAmbiguous(s) PROVE TypeInv'
  <2>1. Raise(s) /\ pc[s] \notin {"start", "commit", "done"}
    BY <1>3 DEF CheckAmbiguous
  <2> QED
    BY <1>i, <1>3, <2>1, RaiseKeeps DEF TypeInv, TypeOK, CheckAmbiguous
<1>4. ASSUME NEW s \in Session, CheckFindsOne(s) PROVE TypeInv'
  <2>1. found' \in [Session -> RowId]
    BY <1>4 DEF CheckFindsOne, TypeInv, TypeOK
  <2>2. Ingests(s) /\ batch[s] # <<>>
    BY <1>4, HeadType DEF CheckFindsOne
  <2>3. CASE job[s].kind = "create"
    <3>1. /\ Goto(s, "done") /\ outcome' = [outcome EXCEPT ![s] = "rejected"]
          /\ UNCHANGED <<batch, tally, later, job>>
      BY <1>4, <2>3 DEF CheckFindsOne, Reply
    <3>2. pc' \in [Session -> Location] /\ Flow'
      BY <3>1, GotoKeeps DEF Fits, Location
    <3> QED
      BY <1>i, <1>4, <2>1, <3>1, <3>2 DEF CheckFindsOne, TypeInv, TypeOK
  <2>4. CASE job[s].kind = "bulk" /\ job[s].skip
    <3>1. Goto(s, "reread") /\ UNCHANGED <<batch, tally, later, job, outcome>>
      BY <1>4, <2>4 DEF CheckFindsOne
    <3>2. pc' \in [Session -> Location] /\ Flow'
      BY <2>2, <2>4, <3>1, GotoKeeps DEF Fits, Location
    <3> QED
      BY <1>i, <1>4, <2>1, <3>1, <3>2 DEF CheckFindsOne, TypeInv, TypeOK
  <2>5. CASE job[s].kind = "bulk" /\ ~job[s].skip
    <3>1. Count(s, "errors") /\ NextItem(s) /\ UNCHANGED <<later, job, outcome>>
      BY <1>4, <2>5 DEF CheckFindsOne
    <3>2. /\ batch' \in [Session -> Seq(Item)]
          /\ pc' \in [Session -> Location] /\ Flow'
      BY <2>2, <3>1, NextItemKeeps
    <3>3. tally' \in [Session -> Tally]
      BY <3>1, CountKeeps DEF TypeInv, Counter
    <3> QED
      BY <1>i, <1>4, <2>1, <3>1, <3>2, <3>3 DEF CheckFindsOne, TypeInv, TypeOK
  <2> QED
    BY <1>4, <2>3, <2>4, <2>5 DEF CheckFindsOne
<1>5. ASSUME NEW s \in Session, CheckFindsNone(s) PROVE TypeInv'
  <2>1. Goto(s, "insert") /\ UNCHANGED <<batch, later, job>>
    BY <1>5 DEF CheckFindsNone
  <2>2. Fits(s, "insert")
    BY <1>5, HeadType DEF Fits, Location, CheckFindsNone
  <2> QED
    BY <1>i, <1>5, <2>1, <2>2, GotoKeeps DEF TypeInv, TypeOK, CheckFindsNone
<1>6. ASSUME NEW s \in Session, Insert(s) PROVE TypeInv'
  <2>1. Head(batch[s]) \in Item /\ Ingests(s) /\ batch[s] # <<>>
    BY <1>6, HeadType DEF Insert
  <2> DEFINE w == [key |-> Head(batch[s]).key,
                   seen |-> IF Head(batch[s]).seen = NoTime THEN clock ELSE Head(batch[s]).seen]
  <2>2. w \in Row
    BY <2>1 DEF Item, Row, TypeInv, TypeOK
  <2>3. /\ nextId \in RowId /\ nextId' = nextId + 1 /\ nextId' \in 1 .. MaxRow + 1
        /\ own' = [own EXCEPT ![s][nextId] = w]
    BY <1>6, BoundsAssumption DEF Insert, TypeInv, TypeOK, RowId
  <2>4. own' \in [Session -> [RowId -> Row \cup {NoRow, Untouched}]]
    <3> HIDE DEF w
    <3> QED
      BY <2>2, <2>3, OwnKeeps DEF TypeInv
  <2>5. Count(s, "created") /\ NextItem(s) /\ UNCHANGED <<later, job>>
    BY <1>6 DEF Insert
  <2>6. /\ batch' \in [Session -> Seq(Item)]
        /\ pc' \in [Session -> Location] /\ Flow'
    BY <2>1, <2>5, NextItemKeeps
  <2>7. tally' \in [Session -> Tally]
    BY <2>5, CountKeeps DEF TypeInv, Counter
  <2> HIDE DEF w
  <2> QED
    BY <1>i, <1>6, <2>3, <2>4, <2>6, <2>7 DEF Insert, TypeInv, TypeOK
<1>7. ASSUME NEW s \in Session, Reread(s) PROVE TypeInv'
  <2>1. job[s].kind = "bulk" /\ Ingests(s) /\ batch[s] # <<>>
    BY <1>7 DEF Reread, TypeInv, Flow, Ingests
  <2>2. CASE View(s)[found[s]] = NoRow
    <3>1. Count(s, "skipped") /\ NextItem(s) /\ UNCHANGED <<later, job, stamp>>
      BY <1>7, <2>2 DEF Reread
    <3>2. /\ batch' \in [Session -> Seq(Item)]
          /\ pc' \in [Session -> Location] /\ Flow'
      BY <2>1, <3>1, NextItemKeeps
    <3>3. tally' \in [Session -> Tally]
      BY <3>1, CountKeeps DEF TypeInv, Counter
    <3> QED
      BY <1>i, <1>7, <3>1, <3>2, <3>3 DEF Reread, TypeInv, TypeOK
  <2>3. CASE View(s)[found[s]] # NoRow
    <3>1. /\ stamp' = [stamp EXCEPT ![s] = clock]
          /\ Goto(s, "touch") /\ UNCHANGED <<batch, tally, later, job>>
      BY <1>7, <2>3 DEF Reread
    <3>2. pc' \in [Session -> Location] /\ Flow'
      BY <2>1, <3>1, GotoKeeps DEF Fits, Location
    <3> QED
      BY <1>i, <1>7, <3>1, <3>2 DEF Reread, TypeInv, TypeOK
  <2> QED
    BY <2>2, <2>3
<1>8. ASSUME NEW s \in Session, Touch(s) PROVE TypeInv'
  <2>1. job[s].kind = "bulk" /\ Ingests(s) /\ batch[s] # <<>>
    BY <1>8 DEF Touch, TypeInv, Flow, Ingests
  <2>2. View(s)[found[s]] \in Row /\ found[s] \in RowId /\ stamp[s] \in Time
    BY <1>8, ViewType DEF Touch, TypeInv, TypeOK
  <2>3. [View(s)[found[s]] EXCEPT !.seen = stamp[s]] \in Row
    BY <2>2 DEF Row
  <2>4. own' \in [Session -> [RowId -> Row \cup {NoRow, Untouched}]]
    BY <1>8, <2>2, <2>3, OwnKeeps DEF Touch, TypeInv
  <2>5. Count(s, "skipped") /\ NextItem(s) /\ UNCHANGED <<later, job>>
    BY <1>8 DEF Touch
  <2>6. /\ batch' \in [Session -> Seq(Item)]
        /\ pc' \in [Session -> Location] /\ Flow'
    BY <2>1, <2>5, NextItemKeeps
  <2>7. tally' \in [Session -> Tally]
    BY <2>5, CountKeeps DEF TypeInv, Counter
  <2> QED
    BY <1>i, <1>8, <2>4, <2>6, <2>7 DEF Touch, TypeInv, TypeOK
<1>9. ASSUME NEW s \in Session, Fetch(s) PROVE TypeInv'
  <2>1. job[s].kind \in {"update", "delete"}
    BY <1>9 DEF Fetch, TypeInv, Flow
  <2>2. UNCHANGED <<batch, later, job>>
    BY <1>9 DEF Fetch
  <2>3. \/ Goto(s, "done") /\ outcome' = [outcome EXCEPT ![s] = "rejected"]
        \/ Goto(s, "write") /\ outcome' = outcome
    BY <1>9 DEF Fetch, Reply
  <2>4. pc' \in [Session -> Location] /\ Flow'
    BY <2>1, <2>2, <2>3, GotoKeeps DEF Fits, Location
  <2> QED
    BY <1>i, <1>9, <2>3, <2>4 DEF Fetch, TypeInv, TypeOK
<1>10. ASSUME NEW s \in Session, Update(s) PROVE TypeInv'
  <2>1. table[found[s]] \in Row /\ found[s] \in RowId
    BY <1>10 DEF Update, TypeInv, TypeOK
  <2> DEFINE w == [table[found[s]] EXCEPT !.seen =
                      IF job[s].seen = Keep THEN @ ELSE job[s].seen]
  <2>2. w \in Row
    BY <2>1, JobType DEF Row, TypeInv
  <2>3. own' = [own EXCEPT ![s][found[s]] = w]
    BY <1>10 DEF Update
  <2>4. own' \in [Session -> [RowId -> Row \cup {NoRow, Untouched}]]
    <3> HIDE DEF w
    <3> QED
      BY <2>1, <2>2, <2>3, OwnKeeps DEF TypeInv
  <2>5. Goto(s, "commit") /\ UNCHANGED <<batch, later, job>>
    BY <1>10 DEF Update
  <2>6. pc' \in [Session -> Location] /\ Flow'
    BY <2>5, GotoKeeps DEF Fits, Location
  <2> HIDE DEF w
  <2> QED
    BY <1>i, <1>10, <2>4, <2>6 DEF Update, TypeInv, TypeOK
<1>11. ASSUME NEW s \in Session, Delete(s) PROVE TypeInv'
  <2> DEFINE w == IF table[found[s]] = NoRow THEN own[s][found[s]] ELSE NoRow
  <2>1. found[s] \in RowId /\ w \in Row \cup {NoRow, Untouched}
    BY DEF TypeInv, TypeOK
  <2>5. own' = [own EXCEPT ![s][found[s]] = w]
    BY <1>11 DEF Delete
  <2> HIDE DEF w
  <2>2. own' \in [Session -> [RowId -> Row \cup {NoRow, Untouched}]]
    BY <2>1, <2>5, OwnKeeps DEF TypeInv
  <2>3. Goto(s, "commit") /\ UNCHANGED <<batch, later, job>>
    BY <1>11 DEF Delete
  <2>4. pc' \in [Session -> Location] /\ Flow'
    BY <2>3, GotoKeeps DEF Fits, Location
  <2> QED
    BY <1>i, <1>11, <2>2, <2>4 DEF Delete, TypeInv, TypeOK
<1>12. ASSUME NEW s \in Session, CountOld(s) PROVE TypeInv'
  <2> DEFINE old == {r \in RowId : Stale(table[r], stamp[s])}
  <2>1. Cardinality(old) \in Nat
    <3>1. old \in SUBSET RowId
      OBVIOUS
    <3> QED
      BY <3>1, RowIdFinite
  <2>2. job[s].kind = "cleanup" /\ UNCHANGED <<batch, later, job>>
    BY <1>12 DEF CountOld, TypeInv, Flow
  <2>3. \/ /\ Goto(s, "done") /\ tally' = tally
           /\ outcome' = [outcome EXCEPT ![s] = "ok"]
        \/ /\ Goto(s, "scan") /\ outcome' = outcome
           /\ tally' = [tally EXCEPT ![s]["removed"] = Cardinality(old)]
    BY <1>12 DEF CountOld, Reply
  <2>4. pc' \in [Session -> Location] /\ Flow'
    BY <2>2, <2>3, GotoKeeps DEF Fits, Location
  <2> HIDE DEF old
  <2>5. tally' \in [Session -> Tally]
    <3>1. "removed" \in Counter
      BY DEF Counter
    <3>2. CASE tally' = tally
      BY <3>2 DEF TypeInv, TypeOK
    <3>3. CASE tally' = [tally EXCEPT ![s]["removed"] = Cardinality(old)]
      BY <2>1, <3>1, <3>3, TallyKeeps DEF TypeInv
    <3> QED
      BY <2>3, <3>2, <3>3
  <2> QED
    BY <1>i, <1>12, <2>3, <2>4, <2>5 DEF CountOld, TypeInv, TypeOK
<1>13. ASSUME NEW s \in Session, Scan(s) PROVE TypeInv'
  <2>1. job[s].kind = "cleanup" /\ UNCHANGED <<batch, later, job>>
    BY <1>13 DEF Scan, TypeInv, Flow
  <2>2. sweep' \in [Session -> SUBSET RowId] /\ sweep'[s] \in SUBSET RowId
    BY <1>13 DEF Scan, TypeInv, TypeOK
  <2>3. found' \in [Session -> RowId]
    BY <1>13, <2>2 DEF Scan, TypeInv, TypeOK
  <2>4. Goto(s, "commit") \/ Goto(s, "sweep")
    BY <1>13 DEF Scan
  <2>5. pc' \in [Session -> Location] /\ Flow'
    BY <2>1, <2>4, GotoKeeps DEF Fits, Location
  <2> QED
    BY <1>i, <1>13, <2>2, <2>3, <2>5 DEF Scan, TypeInv, TypeOK
<1>14. ASSUME NEW s \in Session, Sweep(s) PROVE TypeInv'
  <2>1. job[s].kind = "cleanup" /\ UNCHANGED <<batch, later, job>>
    BY <1>14 DEF Sweep, TypeInv, Flow
  <2>2. sweep' \in [Session -> SUBSET RowId] /\ sweep'[s] \in SUBSET RowId
    BY <1>14 DEF Sweep, TypeInv, TypeOK
  <2>3. found' \in [Session -> RowId]
    BY <1>14, <2>2 DEF Sweep, TypeInv, TypeOK
  <2>4. /\ found[s] \in RowId
        /\ \E w \in Row \cup {NoRow, Untouched} : own' = [own EXCEPT ![s][found[s]] = w]
    <3> DEFINE w == IF Stale(table[found[s]], stamp[s]) THEN NoRow ELSE own[s][found[s]]
    <3>1. found[s] \in RowId /\ w \in Row \cup {NoRow, Untouched}
      BY DEF TypeInv, TypeOK
    <3>2. own' = [own EXCEPT ![s][found[s]] = w]
      BY <1>14 DEF Sweep
    <3> QED
      BY <3>1, <3>2
  <2>5. own' \in [Session -> [RowId -> Row \cup {NoRow, Untouched}]]
    BY <2>4, OwnKeeps DEF TypeInv
  <2>6. Goto(s, "commit") \/ Goto(s, "sweep")
    BY <1>14 DEF Sweep
  <2>7. pc' \in [Session -> Location] /\ Flow'
    BY <2>1, <2>6, GotoKeeps DEF Fits, Location
  <2> QED
    BY <1>i, <1>14, <2>2, <2>3, <2>5, <2>7 DEF Sweep, TypeInv, TypeOK
<1>15. ASSUME NEW s \in Session, FlushFails(s) PROVE TypeInv'
  <2>1. Raise(s) /\ Undo(s) /\ pc[s] \notin {"start", "commit", "done"}
    BY <1>15 DEF FlushFails
  <2> QED
    BY <1>i, <1>15, <2>1, RaiseKeeps, UndoKeeps DEF TypeInv, TypeOK, FlushFails
<1>16. ASSUME NEW s \in Session, DeadlockVictim(s) PROVE TypeInv'
  <2>1. pc[s] \in {"touch", "write", "sweep"}
    BY <1>16 DEF DeadlockVictim, Deadlocked, BlockedBy
  <2>2. Raise(s) /\ Undo(s) /\ pc[s] \notin {"start", "commit", "done"}
    BY <1>16, <2>1 DEF DeadlockVictim
  <2> QED
    BY <1>i, <1>16, <2>2, RaiseKeeps, UndoKeeps DEF TypeInv, TypeOK, DeadlockVictim
<1>17. ASSUME NEW s \in Session, StatementRefused(s) PROVE TypeInv'
  <2>1. Raise(s) /\ pc[s] \notin {"start", "commit", "done"}
    BY <1>17 DEF StatementRefused
  <2> QED
    BY <1>i, <1>17, <2>1, RaiseKeeps DEF TypeInv, TypeOK, StatementRefused
<1>18. ASSUME NEW s \in Session, Commit(s) PROVE TypeInv'
  <2>1. /\ table' \in [RowId -> Row \cup {NoRow}]
        /\ known' \subseteq Key
        /\ own' \in [Session -> [RowId -> Row \cup {NoRow, Untouched}]]
        /\ effect' \in [Session -> Nat]
    BY <1>18, PublishKeeps DEF Commit, TypeInv
  <2>3. /\ stats' \in [Session -> Tally]
        /\ tally' \in [Session -> Tally]
    <3>1. Plus(stats[s], tally[s]) \in Tally
      BY DEF Plus, Tally, TypeInv, TypeOK
    <3>2. ZeroTally \in Tally
      BY DEF ZeroTally, Tally
    <3> QED
      BY <1>i, <1>18, <3>1, <3>2 DEF Commit, TypeInv, TypeOK
  <2>5. tx' \in [Session -> {"active", "aborted", "deactive"}]
    BY <1>18 DEF Commit, TypeInv, TypeOK
  <2>6. CASE later[s] = <<>>
    <3>1. /\ Goto(s, "done") /\ outcome' = [outcome EXCEPT ![s] = "ok"]
          /\ UNCHANGED <<batch, later, job>>
      BY <1>18, <2>6 DEF Commit, Reply
    <3>2. pc' \in [Session -> Location] /\ Flow'
      BY <3>1, GotoKeeps DEF Fits, Location
    <3> QED
      BY <1>i, <1>18, <2>1, <2>3, <2>5, <3>1, <3>2 DEF Commit, TypeInv, TypeOK
  <2>7. CASE later[s] # <<>>
    <3>1. /\ batch' = [batch EXCEPT ![s] = Head(later[s])]
          /\ later' = [later EXCEPT ![s] = Tail(later[s])]
          /\ pc' = [pc EXCEPT ![s] = "check"]
          /\ UNCHANGED <<job, outcome>>
      BY <1>18, <2>7 DEF Commit, Goto
    <3>2. later[s] \in Seq(Seq(Item)) /\ Ingests(s)
      BY <2>7 DEF TypeInv, TypeOK, Flow
    <3>3. /\ Head(later[s]) \in Seq(Item) /\ Tail(later[s]) \in Seq(Seq(Item))
          /\ Head(later[s]) # <<>>
          /\ \A i \in DOMAIN Tail(later[s]) : Tail(later[s])[i] # <<>>
      BY <2>7, <3>2, TailType DEF TypeInv, Flow
    <3>4. Flow'
      BY <3>1, <3>2, <3>3 DEF TypeInv, TypeOK, Flow, Ingests
    <3> QED
      BY <1>i, <1>18, <2>1, <2>3, <2>5, <3>1, <3>3, <3>4
         DEF Commit, TypeInv, TypeOK, Location
  <2> QED
    BY <2>6, <2>7
<1>19. ASSUME NEW s \in Session, CommitRefused(s) PROVE TypeInv'
  <2>1. /\ Goto(s, "done") /\ outcome' = [outcome EXCEPT ![s] = "failed"]
        /\ UNCHANGED <<batch, later, job>>
    BY <1>19 DEF CommitRefused, Reply
  <2>2. pc' \in [Session -> Location] /\ Flow'
    BY <2>1, GotoKeeps DEF Fits, Location
  <2> QED
    BY <1>i, <1>19, <2>1, <2>2 DEF CommitRefused, TypeInv, TypeOK
<1>20. ASSUME NEW s \in Session, ConnectionLost(s) PROVE TypeInv'
  <2>1. Flow'
    BY <1>20 DEF ConnectionLost, TypeInv, Flow, Ingests
  <2> QED
    BY <1>i, <1>20, <2>1, UndoKeeps, BoundsAssumption DEF ConnectionLost, TypeInv, TypeOK
<1>21. ASSUME NEW s \in Session, Kill(s) PROVE TypeInv'
  <2>1. /\ Goto(s, "done") /\ outcome' = [outcome EXCEPT ![s] = "killed"]
        /\ UNCHANGED <<batch, later, job>>
    BY <1>21 DEF Kill, Reply
  <2>2. pc' \in [Session -> Location] /\ Flow'
    BY <2>1, GotoKeeps DEF Fits, Location
  <2>3. faults' \in 0 .. MaxFaults
    BY <1>21, BoundsAssumption DEF Kill, TypeInv, TypeOK
  <2>4. own' \in [Session -> [RowId -> Row \cup {NoRow, Untouched}]]
    BY <1>21, UndoKeeps DEF Kill, TypeInv
  <2> QED
    BY <1>i, <1>21, <2>1, <2>2, <2>3, <2>4 DEF Kill, TypeInv, TypeOK
<1>24. ASSUME NEW s \in Session, CommitUnanswered(s) PROVE TypeInv'
  <2>1. \E o \in {"failed", "killed"} : outcome' = [outcome EXCEPT ![s] = o]
    BY <1>24 DEF CommitUnanswered, Reply
  <2>2. Goto(s, "done") /\ UNCHANGED <<batch, later, job>>
    BY <1>24 DEF CommitUnanswered, Reply
  <2>3. pc' \in [Session -> Location] /\ Flow'
    BY <2>2, GotoKeeps DEF Fits, Location
  <2>4. /\ table' \in [RowId -> Row \cup {NoRow}]
        /\ known' \subseteq Key
        /\ own' \in [Session -> [RowId -> Row \cup {NoRow, Untouched}]]
        /\ effect' \in [Session -> Nat]
    BY <1>24, PublishKeeps DEF CommitUnanswered, TypeInv
  <2>5. faults' \in 0 .. MaxFaults
    BY <1>24, BoundsAssumption DEF CommitUnanswered, TypeInv, TypeOK
  <2>6. outcome' \in [Session -> {"none", "ok", "rejected", "failed", "killed"}]
    BY <2>1 DEF TypeInv, TypeOK
  <2> QED
    BY <1>i, <1>24, <1>i, <2>2, <2>3, <2>4, <2>5, <2>6 DEF CommitUnanswered, TypeInv, TypeOK
<1>25. ASSUME NEW s \in Session, Suspend(s) \/ Resume(s) PROVE TypeInv'
  <2>1. faults' \in 0 .. MaxFaults
    BY <1>25, BoundsAssumption DEF Suspend, Resume, TypeInv, TypeOK
  <2>2. Flow'
    BY <1>25 DEF Suspend, Resume, TypeInv, Flow, Ingests
  <2> QED
    BY <1>i, <1>25, <1>i, <2>1, <2>2 DEF Suspend, Resume, TypeInv, TypeOK
<1>22. CASE Tick
  <2>1. Flow'
    BY <1>22 DEF Tick, TypeInv, Flow, Ingests
  <2>2. clock' \in Time
    BY <1>22, BoundsAssumption DEF Tick, TypeInv, TypeOK, Time
  <2>3. UNCHANGED <<table, nextId, known, faults, job, own, tx, pc, batch, later, found,
                    stamp, sweep, tally, stats, effect, outcome>>
    BY <1>22 DEF Tick
  <2>4. TypeOK'
    BY <1>i, <2>2, <2>3 DEF TypeInv, TypeOK
  <2> QED
    BY <2>1, <2>4 DEF TypeInv
<1>23. CASE UNCHANGED vars
  BY <1>23 DEF vars, TypeInv, TypeOK, Flow, Ingests
<1> QED
  BY <1>1, <1>2, <1>3, <1>4, <1>5, <1>6, <1>7, <1>8, <1>9, <1>10, <1>11, <1>12,
     <1>13, <1>14, <1>15, <1>16, <1>17, <1>18, <1>19, <1>20, <1>21, <1>22, <1>23,
     <1>24, <1>25 DEF Next, Proceeds, Breaks, Statement, Finished

(* The initial states are well typed.                                      *)
LEMMA TypeInit == Init => TypeInv
<1> SUFFICES ASSUME Init PROVE TypeInv
  OBVIOUS
<1>1. table \in [RowId -> Row \cup {NoRow}] /\ nextId \in 1 .. MaxRow + 1
  BY BoundsAssumption, StartAssumption DEF Init, RowId
<1>7. known \subseteq Key
  BY <1>1 DEF Init, KeysOf, Row
<1>2. \A s \in Session :
        /\ job[s] \in Job
        /\ job[s].batches \in Seq(Seq(Item)) /\ job[s].row \in RowId
        /\ Ingests(s) <=> job[s].batches # <<>>
        /\ \A i \in DOMAIN job[s].batches : job[s].batches[i] # <<>>
  <2>1. job \in Workloads /\ job \in [Session -> Job]
    BY WorkAssumption DEF Init
  <2> QED
    BY <2>1, WorkAssumption DEF Job, Ingests
<1>3. ZeroTally \in Tally /\ 0 \in Time
  BY BoundsAssumption DEF ZeroTally, Tally, Time
<1>4. \A s \in Session : batch[s] = <<>> /\ <<>> \in Seq(Item)
  BY EmptySeq DEF Init
<1>5. TypeOK
  BY <1>1, <1>2, <1>3, <1>4, <1>7, BoundsAssumption DEF Init, TypeOK, Clean, Location
<1>6. Flow
  BY <1>2 DEF Init, Flow
<1> QED
  BY <1>5, <1>6 DEF TypeInv

(* Every reachable state is well typed, and every session runs a statement *)
(* that fits its job: for any sessions, jobs, ids, and faults.             *)
THEOREM TypeCorrect == Spec => []TypeOK
<1>1. TypeInv => TypeOK
  BY DEF TypeInv
<1> QED
  BY TypeInit, TypeStep, <1>1, PTL DEF Spec

-----------------------------------------------------------------------------
(* The keys in the table.  An ingestion inserts only the keys of its own   *)
(* job, and what a session has written but not committed it alone holds.   *)

RowLocks ==
    \A s, t \in Session : \A r \in RowId :
        own[s][r] # Untouched /\ own[t][r] # Untouched => s = t

FreshIds ==
    \A r \in RowId : r >= nextId =>
        table[r] = NoRow /\ \A s \in Session : own[s][r] = Untouched

OwnKeys ==
    \A s \in Session : \A r \in RowId : own[s][r] \in Row =>
        \/ table[r] # NoRow /\ own[s][r].key = table[r].key
        \/ table[r] = NoRow /\ Ingested(own[s][r].key, job, s)

(* No session sees a key twice, not even among its own writes.             *)
ViewUnique ==
    \A s \in Session : \A r1, r2 \in RowId :
        /\ View(s)[r1] # NoRow /\ View(s)[r2] # NoRow
        /\ View(s)[r1].key = View(s)[r2].key
        => r1 = r2

DbInv == RowLocks /\ FreshIds /\ OwnKeys

UniqueInv == ViewUnique /\ NoDuplicates

(* What one statement does to the table and to the uncommitted writes.     *)
Free(s, r) == \A t \in Session : t # s => own[t][r] = Untouched
Write(s, r, w) == own' = [own EXCEPT ![s][r] = w] /\ table' = table

Undone(s)    == Undo(s) /\ UNCHANGED <<table, nextId>>
Inserted(s)  ==
    /\ pc[s] = "insert" /\ tx[s] = "active" /\ Ingests(s)
    /\ nextId \in RowId /\ nextId' = nextId + 1
    /\ \E w \in Row : /\ Write(s, nextId, w)
                      /\ w.key = Head(batch[s]).key /\ Ingested(w.key, job, s)
Rewritten(s) ==
    /\ nextId' = nextId
    /\ \E r \in RowId : \E w \in Row :
        /\ Free(s, r) /\ View(s)[r] # NoRow /\ View(s)[r].key = w.key
        /\ \/ job[s].kind = "bulk" /\ w.seen \in 0 .. clock /\ pc[s] = "touch" /\ r = found[s]
           \/ /\ job[s].kind = "update" /\ r = job[s].row
              /\ w = [table[r] EXCEPT !.seen = IF job[s].seen = Keep THEN @ ELSE job[s].seen]
        /\ Write(s, r, w)
Removed(s)   ==
    /\ nextId' = nextId
    /\ \E r \in RowId :
        /\ Free(s, r) /\ table[r] # NoRow
        /\ \/ job[s].kind = "delete" /\ r = job[s].row
           \/ job[s].kind = "cleanup" /\ Stale(table[r], stamp[s])
        /\ Write(s, r, NoRow)
Committed(s) ==
    /\ pc[s] = "commit" /\ tx[s] # "deactive"
    /\ table' = View(s) /\ known' = known \cup KeysOf(table')
    /\ Undo(s) /\ nextId' = nextId

DbStep(s) ==
    /\ job' = job
    /\ \/ UNCHANGED <<table, own, nextId>>
       \/ Undone(s) \/ Inserted(s) \/ Rewritten(s) \/ Removed(s) \/ Committed(s)

(* What a session reads of a row it has not written is the committed row,  *)
(* and its own write otherwise.                                            *)
LEMMA ViewUntouched ==
  ASSUME NEW s \in Session, NEW r \in RowId
  PROVE  /\ own[s][r] = Untouched => View(s)[r] = table[r]
         /\ own[s][r] # Untouched => View(s)[r] = own[s][r]
  BY DEF View

(* Row locks, fresh ids and the keys of rewritten rows survive every kind  *)
(* of change a statement, a commit or a rollback makes to the table.       *)
LEMMA DbInvStep ==
  ASSUME TypeOK, TypeOK', DbInv, NEW s \in Session, DbStep(s)
  PROVE  DbInv'
<1> USE DEF DbInv
<1>0. /\ table \in [RowId -> Row \cup {NoRow}] /\ job' = job
      /\ own \in [Session -> [RowId -> Row \cup {NoRow, Untouched}]]
      /\ nextId \in Nat
  BY BoundsAssumption DEF TypeOK, DbStep
<1>1. CASE UNCHANGED <<table, own, nextId>>
  BY <1>0, <1>1 DEF RowLocks, FreshIds, OwnKeys, Ingested
<1>2. CASE Undone(s)
  <2>1. /\ table' = table /\ nextId' = nextId
        /\ \A r \in RowId : own'[s][r] = Untouched
        /\ \A t \in Session : t # s => own'[t] = own[t]
    BY <1>0, <1>2 DEF Undone, Undo, Clean
  <2> QED
    BY <1>0, <2>1, NullsAssumption DEF RowLocks, FreshIds, OwnKeys, Ingested
<1>3. CASE Inserted(s)
  <2>1. PICK w \in Row : Write(s, nextId, w) /\ Ingested(w.key, job, s)
    BY <1>3 DEF Inserted
  <2>2. /\ table' = table /\ nextId \in RowId /\ nextId' = nextId + 1
        /\ own'[s][nextId] = w
        /\ \A r \in RowId : r # nextId => own'[s][r] = own[s][r]
        /\ \A t \in Session : t # s => own'[t] = own[t]
        /\ table[nextId] = NoRow
        /\ \A t \in Session : own[t][nextId] = Untouched
    BY <1>0, <1>3, <2>1 DEF Inserted, Write, FreshIds
  <2>3. RowLocks'
    <3>1. ASSUME NEW t \in Session, NEW r \in RowId, own'[t][r] # Untouched
          PROVE  own[t][r] # Untouched \/ (t = s /\ r = nextId)
      BY <2>2, <3>1
    <3> QED
      BY <2>2, <3>1 DEF RowLocks
  <2>4. FreshIds'
    BY <1>0, <2>2 DEF FreshIds, RowId
  <2>5. OwnKeys'
    BY <1>0, <2>1, <2>2 DEF OwnKeys, Ingested
  <2> QED
    BY <2>3, <2>4, <2>5
<1>4. CASE Rewritten(s)
  <2>1. PICK r \in RowId, w \in Row :
            /\ Free(s, r) /\ View(s)[r] # NoRow /\ View(s)[r].key = w.key
            /\ Write(s, r, w)
    BY <1>4 DEF Rewritten
  <2>2. /\ table' = table /\ nextId' = nextId
        /\ own'[s][r] = w
        /\ \A q \in RowId : q # r => own'[s][q] = own[s][q]
        /\ \A t \in Session : t # s => own'[t] = own[t] /\ own[t][r] = Untouched
    BY <1>0, <1>4, <2>1 DEF Rewritten, Write, Free
  <2>3. RowLocks'
    BY <1>0, <2>2 DEF RowLocks
  <2>4. FreshIds'
    BY <1>0, <2>1, <2>2 DEF FreshIds, View
  <2>5. OwnKeys'
    <3>1. \/ table[r] # NoRow /\ w.key = table[r].key
          \/ table[r] = NoRow /\ Ingested(w.key, job, s)
      BY <1>0, <2>1 DEF OwnKeys, View
    <3> QED
      BY <1>0, <2>2, <3>1 DEF OwnKeys, Ingested
  <2> QED
    BY <2>3, <2>4, <2>5
<1>5. CASE Removed(s)
  <2>1. PICK r \in RowId : Free(s, r) /\ table[r] # NoRow /\ Write(s, r, NoRow)
    BY <1>5 DEF Removed
  <2>2. /\ table' = table /\ nextId' = nextId
        /\ own'[s][r] = NoRow
        /\ \A q \in RowId : q # r => own'[s][q] = own[s][q]
        /\ \A t \in Session : t # s => own'[t] = own[t] /\ own[t][r] = Untouched
    BY <1>0, <1>5, <2>1 DEF Removed, Write, Free
  <2>3. RowLocks' /\ FreshIds'
    BY <1>0, <2>1, <2>2 DEF RowLocks, FreshIds
  <2>4. OwnKeys'
    BY <1>0, <2>2, NullsAssumption DEF OwnKeys, Ingested
  <2> QED
    BY <2>3, <2>4
<1>6. CASE Committed(s)
  <2>1. /\ nextId' = nextId
        /\ \A r \in RowId : own'[s][r] = Untouched
        /\ \A t \in Session : t # s => own'[t] = own[t]
        /\ \A r \in RowId : table'[r] = View(s)[r]
    BY <1>0, <1>6 DEF Committed, Undo, Clean
  <2>2. RowLocks'
    BY <1>0, <2>1 DEF RowLocks
  <2>3. FreshIds'
    BY <1>0, <2>1, ViewUntouched DEF FreshIds
  <2>4. ASSUME NEW t \in Session, t # s, NEW r \in RowId, own[t][r] # Untouched
        PROVE  table'[r] = table[r]
    BY <2>1, <2>4, ViewUntouched DEF RowLocks
  <2>5. OwnKeys'
    BY <1>0, <2>1, <2>4, NullsAssumption DEF OwnKeys, Ingested
  <2> QED
    BY <2>2, <2>3, <2>5
<1> QED
  BY <1>1, <1>2, <1>3, <1>4, <1>5, <1>6 DEF DbStep

(* The view of one session after a write to row r by s.                    *)
LEMMA ViewAfterWrite ==
  ASSUME TypeOK, NEW s \in Session, NEW r \in RowId, NEW w \in Row \cup {NoRow},
         Write(s, r, w)
  PROVE  /\ \A t \in Session : t # s => View(t)' = View(t)
         /\ View(s)'[r] = w
         /\ \A q \in RowId : q # r => View(s)'[q] = View(s)[q]
<1>1. /\ own'[s][r] = w /\ table' = table
      /\ \A q \in RowId : q # r => own'[s][q] = own[s][q]
      /\ \A t \in Session : t # s => own'[t] = own[t]
  BY DEF TypeOK, Write
<1>2. w # Untouched
  BY NullsAssumption
<1> QED
  BY <1>1, <1>2 DEF View

(* No session ever sees two rows with one key, provided an insertion is of *)
(* a key that no other session may be inserting.                           *)
LEMMA UniqueInvStep ==
  ASSUME DisjointJobs, TypeOK, TypeOK', DbInv, UniqueInv,
         NEW s \in Session, DbStep(s), Inserted(s) => Matches(s, Head(batch[s]).key) = {}
  PROVE  UniqueInv'
<1> USE DEF DbInv, UniqueInv
<1>0. /\ table \in [RowId -> Row \cup {NoRow}] /\ job \in Workloads
      /\ own \in [Session -> [RowId -> Row \cup {NoRow, Untouched}]]
  BY DEF TypeOK
<1>1. CASE UNCHANGED <<table, own, nextId>>
  BY <1>1 DEF ViewUnique, NoDuplicates, View
<1>2. CASE Undone(s)
  <2>1. /\ table' = table
        /\ \A r \in RowId : own'[s][r] = Untouched
        /\ \A t \in Session : t # s => own'[t] = own[t]
    BY <1>0, <1>2 DEF Undone, Undo, Clean
  <2>2. ViewUnique'
    BY <1>0, <2>1 DEF ViewUnique, View, NoDuplicates
  <2> QED
    BY <2>1, <2>2 DEF NoDuplicates
<1>3. CASE Inserted(s)
  <2>1. PICK w \in Row : Write(s, nextId, w) /\ w.key = Head(batch[s]).key
    BY <1>3 DEF Inserted
  <2>2. nextId \in RowId /\ table' = table
    BY <1>3, <2>1 DEF Inserted, Write
  <2>3. \A r \in RowId : View(s)[r] # NoRow => View(s)[r].key # w.key
    BY <1>3, <2>1 DEF Matches
  <2>4. ViewUnique'
    BY <2>1, <2>2, <2>3, ViewAfterWrite DEF ViewUnique
  <2> QED
    BY <2>2, <2>4 DEF NoDuplicates
<1>4. CASE Rewritten(s)
  <2>1. PICK r \in RowId, w \in Row :
            View(s)[r] # NoRow /\ View(s)[r].key = w.key /\ Write(s, r, w)
    BY <1>4 DEF Rewritten
  <2>2. ViewUnique'
    BY <2>1, ViewAfterWrite DEF ViewUnique
  <2> QED
    BY <2>1, <2>2 DEF NoDuplicates, Write
<1>5. CASE Removed(s)
  <2>1. PICK r \in RowId : Write(s, r, NoRow)
    BY <1>5 DEF Removed
  <2>2. ViewUnique'
    BY <2>1, ViewAfterWrite DEF ViewUnique
  <2> QED
    BY <2>1, <2>2 DEF NoDuplicates, Write
<1>6. CASE Committed(s)
  <2>1. /\ \A r \in RowId : own'[s][r] = Untouched
        /\ \A t \in Session : t # s => own'[t] = own[t]
        /\ \A r \in RowId : table'[r] = View(s)[r]
    BY <1>0, <1>6 DEF Committed, Undo, Clean
  <2>2. NoDuplicates'
    BY <2>1 DEF ViewUnique, NoDuplicates
  <2>3. ASSUME NEW t \in Session, NEW r1 \in RowId, NEW r2 \in RowId,
               View(t)'[r1] # NoRow, View(t)'[r2] # NoRow,
               View(t)'[r1].key = View(t)'[r2].key, r1 # r2
        PROVE  FALSE
    <3>1. CASE t = s
      BY <2>1, <2>3, <3>1 DEF View, ViewUnique
    <3>2. CASE t # s
      <4>1. \A r \in RowId :
                View(t)'[r] = IF own[t][r] = Untouched THEN View(s)[r] ELSE own[t][r]
        BY <2>1, <3>2 DEF View
      <4>2. \A r \in RowId : own[t][r] # Untouched => View(s)[r] = table[r]
        BY <3>2, ViewUntouched DEF RowLocks
      <4>3. ASSUME NEW a \in RowId, NEW b \in RowId, a # b,
                   own[t][a] # Untouched, own[t][b] = Untouched,
                   own[t][a] # NoRow, View(s)[b] # NoRow,
                   own[t][a].key = View(s)[b].key
            PROVE  FALSE
        <5>1. own[t][a] \in Row
          BY <1>0, <4>3
        <5>2. CASE table[a] # NoRow
          <6>1. View(s)[a] = table[a] /\ own[t][a].key = table[a].key
            BY <4>2, <4>3, <5>1, <5>2 DEF OwnKeys
          <6> QED
            BY <4>3, <5>2, <6>1 DEF ViewUnique
        <5>3. CASE table[a] = NoRow
          <6>1. Ingested(own[t][a].key, job, t)
            BY <5>1, <5>3 DEF OwnKeys
          <6>2. View(t)[a] = own[t][a] /\ View(t)[b] = table[b]
            BY <4>3, ViewUntouched
          <6>3. CASE own[s][b] = Untouched
            BY <4>3, <6>2, <6>3, ViewUntouched DEF ViewUnique
          <6>4. CASE own[s][b] # Untouched
            <7>1. View(s)[b] = own[s][b] /\ own[s][b] \in Row
              BY <1>0, <4>3, <6>4, ViewUntouched
            <7>2. CASE table[b] # NoRow
              BY <4>3, <6>2, <7>1, <7>2 DEF OwnKeys, ViewUnique
            <7>3. CASE table[b] = NoRow
              <8>1. Ingested(own[s][b].key, job, s) /\ own[s][b].key \in Key
                BY <7>1, <7>3 DEF OwnKeys, Row
              <8> QED
                BY <1>0, <3>2, <4>3, <6>1, <7>1, <8>1 DEF DisjointJobs
            <7> QED
              BY <7>2, <7>3
          <6> QED
            BY <6>3, <6>4
        <5> QED
          BY <5>2, <5>3
      <4>4. CASE own[t][r1] = Untouched /\ own[t][r2] = Untouched
        BY <2>3, <4>1, <4>4 DEF ViewUnique
      <4>5. CASE own[t][r1] # Untouched /\ own[t][r2] # Untouched
        BY <2>3, <4>1, <4>5, ViewUntouched DEF ViewUnique
      <4> QED
        BY <2>3, <4>1, <4>3, <4>4, <4>5
    <3> QED
      BY <3>1, <3>2
  <2>4. ViewUnique'
    BY <2>3 DEF ViewUnique
  <2> QED
    BY <2>2, <2>4
<1> QED
  BY <1>1, <1>2, <1>3, <1>4, <1>5, <1>6 DEF DbStep

(* An ingestion's items come from its job.                                 *)
BatchKeys ==
    \A s \in Session :
        /\ \A i \in DOMAIN batch[s] : Ingested(batch[s][i].key, job, s)
        /\ \A i \in DOMAIN later[s] : \A n \in DOMAIN later[s][i] :
                Ingested(later[s][i][n].key, job, s)

(* A session writes nothing before it reads, and a transaction that has    *)
(* failed has no writes left.                                              *)
Reading == {"start", "fetch", "write", "count", "scan"}
Unwritten ==
    \A s \in Session : pc[s] \in Reading \/ tx[s] # "active" => own[s] = Clean

(* Between the check and the INSERT of a session, nobody brings its key    *)
(* into its view.                                                          *)
InsertFree ==
    \A s \in Session :
        pc[s] = "insert" /\ tx[s] = "active" => Matches(s, Head(batch[s]).key) = {}

(* A route's row is the one its path names, and a captured time is not in  *)
(* the future.                                                             *)
Aim ==
    \A s \in Session :
        /\ job[s].kind \in {"update", "delete"} => found[s] = job[s].row
        /\ stamp[s] \in 0 .. clock

BaseInv == TypeInv /\ DbInv /\ BatchKeys /\ Unwritten /\ Aim

KeyInv == BaseInv /\ UniqueInv /\ InsertFree

(* What holds of every run: the jobs never change, so if no two of them    *)
(* share a key at one time, none ever did.                                 *)
JobKeyInv == BaseInv /\ (DisjointJobs => KeyInv)

(* The steps of a session that touch its job or the table, and the rest.   *)
Moves(s) == Begin(s) \/ Statement(s) \/ Breaks(s)
Waits == Tick \/ (\E s \in Session : Suspend(s) \/ Resume(s)) \/ UNCHANGED vars

LEMMA NextCases == [Next]_vars => (\E s \in Session : Moves(s)) \/ Waits
<1> SUFFICES ASSUME [Next]_vars PROVE (\E s \in Session : Moves(s)) \/ Waits
  OBVIOUS
<1>1. CASE \E s \in Session :
          \/ Begin(s) \/ Proceeds(s) \/ Breaks(s) \/ Suspend(s) \/ Resume(s)
  BY <1>1 DEF Proceeds, Moves, Waits
<1>2. CASE Tick \/ Finished \/ UNCHANGED vars
  BY <1>2 DEF Finished, Waits
<1> QED
  BY <1>1, <1>2 DEF Next

(* A suspended coroutine, and one that goes on, leave everything as it is. *)
LEMMA WaitsKeep ==
  ASSUME Waits
  PROVE  /\ UNCHANGED <<table, nextId, known, job, own, tx, pc, batch, later, found, stamp,
                        sweep, tally, stats, effect, outcome>>
         /\ clock' = clock \/ (clock' = clock + 1 /\ clock < MaxClock)
BY DEF Waits, Tick, Suspend, Resume, vars, db, items, cursor, counts

(* What one statement of s leaves to the other sessions, and where it      *)
(* leads s itself.                                                         *)
Others(s) ==
    \A t \in Session : t # s =>
        /\ pc'[t] = pc[t] /\ tx'[t] = tx[t] /\ own'[t] = own[t]
        /\ batch'[t] = batch[t] /\ later'[t] = later[t]
        /\ found'[t] = found[t] /\ stamp'[t] = stamp[t]

BatchMove(s) ==
    \/ batch'[s] = batch[s] /\ later'[s] = later[s]
    \/ batch[s] # <<>> /\ batch'[s] = Tail(batch[s]) /\ later'[s] = later[s]
    \/ later[s] # <<>> /\ batch'[s] = Head(later[s]) /\ later'[s] = Tail(later[s])

Self(s) ==
    /\ pc'[s] \in Reading \/ tx'[s] # "active" => own'[s] = Clean
    /\ \/ UNCHANGED <<table, known>>
       \/ Committed(s) /\ (Ingests(s) \/ pc'[s] = "done")
    /\ pc[s] # "done" /\ pc'[s] # "start"
    /\ pc'[s] = "insert" /\ tx'[s] = "active" =>
            /\ UNCHANGED <<table, own>> /\ batch'[s] = batch[s]
            /\ Matches(s, Head(batch[s]).key) = {}
    /\ BatchMove(s)
    /\ job[s].kind \in {"update", "delete"} => found'[s] = found[s]
    /\ \/ stamp'[s] = stamp[s]
       \/ stamp'[s] = clock /\ (job[s].kind = "bulk" \/ own'[s] = Clean)
    /\ clock' = clock

Step(s) == DbStep(s) /\ Others(s) /\ Self(s)

(* Going on to the next item moves along the batch and nothing else.       *)
LEMMA NextItemMoves ==
  ASSUME TypeInv, NEW s \in Session, NextItem(s), UNCHANGED later, batch[s] # <<>>
  PROVE  /\ pc'[s] \in {"check", "commit"}
         /\ BatchMove(s)
         /\ \A t \in Session : t # s => pc'[t] = pc[t] /\ batch'[t] = batch[t]
  BY DEF TypeInv, TypeOK, NextItem, Goto, BatchMove

(* So does the exception handler, or else the job ends.                    *)
LEMMA RaiseMoves ==
  ASSUME TypeInv, NEW s \in Session, Raise(s), UNCHANGED later,
         pc[s] \notin {"start", "commit", "done"}
  PROVE  /\ pc'[s] \in {"check", "commit", "done"}
         /\ BatchMove(s)
         /\ \A t \in Session : t # s => pc'[t] = pc[t] /\ batch'[t] = batch[t]
<1>1. CASE job[s].kind = "bulk"
  <2>1. batch[s] # <<>> /\ NextItem(s)
    BY <1>1 DEF TypeInv, TypeOK, Location, Flow, Ingests, Raise
  <2> QED
    BY <2>1, NextItemMoves
<1>2. CASE job[s].kind # "bulk"
  BY <1>2 DEF Raise, Reply, Goto, TypeInv, TypeOK, BatchMove
<1> QED
  BY <1>1, <1>2

(* The item at the head of a batch is one of the session's job.            *)
LEMMA HeadIngested ==
  ASSUME TypeInv, BatchKeys, NEW s \in Session, batch[s] # <<>>
  PROVE  Ingested(Head(batch[s]).key, job, s)
<1>1. batch[s] \in Seq(Item)
  BY DEF TypeInv, TypeOK
<1>2. 1 \in DOMAIN batch[s] /\ Head(batch[s]) = batch[s][1]
  BY <1>1, TailType
<1> QED
  BY <1>2 DEF BatchKeys

(* A job that has ended takes no step, and none begins twice.              *)
LEMMA MovesBetween ==
  ASSUME TypeInv, NEW s \in Session, Moves(s)
  PROVE  pc[s] # "done" /\ pc'[s] # "start"
<1> USE DEF TypeInv, TypeOK
<1>1. pc[s] # "done"
  BY DEF Moves, Statement, Breaks, Begin, CheckFails, CheckAmbiguous, CheckFindsOne, CheckFindsNone,
         Insert, Reread, Touch, Fetch, Update, Delete, CountOld, Scan, Sweep, FlushFails,
         DeadlockVictim, Deadlocked, BlockedBy, StatementRefused, Commit, CommitRefused,
         ConnectionLost, CommitUnanswered, Kill, Running
<1>2. /\ NextItem(s) => pc'[s] # "start"
      /\ \A o : Reply(s, o) => pc'[s] # "start"
      /\ \A l \in Location \ {"start"} : Goto(s, l) => pc'[s] # "start"
  BY DEF NextItem, Reply, Goto
<1> HIDE DEF TypeInv, TypeOK
<1>3. Raise(s) => pc'[s] # "start"
  BY <1>2 DEF Raise
<1>4. CASE CheckFails(s) \/ CheckAmbiguous(s) \/ FlushFails(s) \/ DeadlockVictim(s) \/ StatementRefused(s)
  <2>1. Raise(s)
    BY <1>4 DEF CheckFails, CheckAmbiguous, FlushFails, DeadlockVictim, StatementRefused
  <2> QED
    BY <1>1, <1>3, <2>1
<1>5. CASE \/ Begin(s) \/ CheckFindsOne(s) \/ CheckFindsNone(s) \/ Insert(s) \/ Reread(s) \/ Touch(s)
  BY <1>1, <1>2, <1>5 DEF Begin, CheckFindsOne, CheckFindsNone, Insert, Reread, Touch, Location
<1>6. CASE \/ Fetch(s) \/ Update(s) \/ Delete(s) \/ CountOld(s) \/ Scan(s) \/ Sweep(s)
           \/ Commit(s) \/ CommitRefused(s) \/ CommitUnanswered(s) \/ Kill(s)
  <2>1. \/ \E o \in {"ok", "rejected", "failed", "killed"} : Reply(s, o)
        \/ \E l \in {"write", "commit", "scan", "sweep", "check"} : Goto(s, l)
    BY <1>6 DEF Fetch, Update, Delete, CountOld, Scan, Sweep, Commit, CommitRefused,
                CommitUnanswered, Kill
  <2> QED
    BY <1>1, <1>2, <2>1 DEF Location
<1>7. CASE ConnectionLost(s)
  BY <1>1, <1>7 DEF ConnectionLost, Running
<1> QED
  BY <1>1, <1>4, <1>5, <1>6, <1>7 DEF Moves, Statement, Breaks

(* Every action of a session is one of the kinds of change Step lists.     *)
LEMMA StatementSteps ==
  ASSUME BaseInv, NEW s \in Session,
         Moves(s)
  PROVE  Step(s)
<1> USE DEF BaseInv, db, items, cursor, counts
<1>u. tx[s] # "active" => own[s] = Clean
  BY DEF Unwritten
<1>p. pc[s] # "done" /\ pc'[s] # "start"
  BY MovesBetween
<1>1. CASE Begin(s)
  <2>1. pc[s] = "start" /\ UNCHANGED <<clock, found, table, nextId, known, own, tx, job>> /\ own[s] = Clean
    BY <1>1 DEF Begin, Unwritten, Reading
  <2>2. /\ pc'[s] \in {"check", "fetch", "count"}
        /\ \A t \in Session : t # s =>
            pc'[t] = pc[t] /\ batch'[t] = batch[t] /\ later'[t] = later[t]
    BY <1>1 DEF Begin, Goto, TypeInv, TypeOK
  <2>3. /\ stamp'[s] = stamp[s] \/ stamp'[s] = clock
        /\ \A t \in Session : t # s => stamp'[t] = stamp[t]
    BY <1>1 DEF Begin, TypeInv, TypeOK
  <2>4. BatchMove(s)
    BY <1>1 DEF Begin, BatchMove, TypeInv, TypeOK, Flow
  <2> QED
    BY <1>p, <1>u, <2>1, <2>2, <2>3, <2>4 DEF Step, DbStep, Others, Self
<1>2. CASE CheckFails(s)
  <2>1. /\ Raise(s) /\ pc[s] \notin {"start", "commit", "done"}
        /\ UNCHANGED <<clock, found, stamp, table, nextId, known, later, job>>
        /\ Undo(s) /\ \A t \in Session : t # s => tx'[t] = tx[t]
    BY <1>2 DEF CheckFails, TypeInv, TypeOK
  <2>2. /\ pc'[s] \in {"check", "commit", "done"} /\ BatchMove(s)
        /\ \A t \in Session : t # s => pc'[t] = pc[t] /\ batch'[t] = batch[t]
    BY <2>1, RaiseMoves
  <2>3. DbStep(s)
    BY <2>1 DEF DbStep, Undone
  <2> QED
    BY <1>p, <1>u, <2>1, <2>2, <2>3 DEF Step, Others, Self, Reading, Undo, TypeInv, TypeOK
<1>3. CASE CheckAmbiguous(s)
  <2>1. /\ Raise(s) /\ pc[s] \notin {"start", "commit", "done"}
        /\ UNCHANGED <<clock, found, stamp, table, nextId, known, later, job, own, tx>>
    BY <1>3 DEF CheckAmbiguous
  <2>2. /\ pc'[s] \in {"check", "commit", "done"} /\ BatchMove(s)
        /\ \A t \in Session : t # s => pc'[t] = pc[t] /\ batch'[t] = batch[t]
    BY <2>1, RaiseMoves
  <2>3. DbStep(s)
    BY <2>1 DEF DbStep, Undone
  <2> QED
    BY <1>p, <1>u, <2>1, <2>2, <2>3 DEF Step, Others, Self, Reading, Undo, TypeInv, TypeOK
<1>4. CASE CheckFindsOne(s)
  <2>1. Ingests(s) /\ batch[s] # <<>>
    BY <1>4, HeadType DEF CheckFindsOne
  <2>2. UNCHANGED <<clock, stamp, table, nextId, known, own, tx, later, job>>
    BY <1>4 DEF CheckFindsOne
  <2>5. /\ \A t \in Session : t # s => found'[t] = found[t]
        /\ job[s].kind \notin {"update", "delete"}
    BY <1>4, <2>1 DEF CheckFindsOne, Ingests, TypeInv, TypeOK
  <2>3. \/ NextItem(s)
        \/ (Goto(s, "done") \/ Goto(s, "reread")) /\ batch' = batch
    BY <1>4 DEF CheckFindsOne, Reply
  <2>4. /\ pc'[s] \in {"check", "commit", "done", "reread"} /\ BatchMove(s)
        /\ \A t \in Session : t # s => pc'[t] = pc[t] /\ batch'[t] = batch[t]
    BY <2>1, <2>2, <2>3, NextItemMoves DEF Goto, BatchMove, TypeInv, TypeOK
  <2> QED
    BY <1>p, <1>u, <2>2, <2>4, <2>5 DEF Step, DbStep, Others, Self, Reading
<1>5. CASE CheckFindsNone(s)
  <2>1. /\ UNCHANGED <<clock, found, stamp, table, nextId, known, own, tx, batch, later, job>>
        /\ pc' = [pc EXCEPT ![s] = "insert"]
        /\ Matches(s, Head(batch[s]).key) = {}
    BY <1>5 DEF CheckFindsNone, Goto
  <2> QED
    BY <1>p, <1>u, <2>1 DEF Step, DbStep, Others, Self, BatchMove, Reading, TypeInv, TypeOK
<1>6. CASE Insert(s)
  <2>1. Head(batch[s]) \in Item /\ batch[s] # <<>>
    BY <1>6, HeadType DEF Insert
  <2> DEFINE w == [key |-> Head(batch[s]).key,
                   seen |-> IF Head(batch[s]).seen = NoTime THEN clock ELSE Head(batch[s]).seen]
  <2>2. w \in Row /\ w.key = Head(batch[s]).key
    BY <2>1 DEF Item, Row, TypeInv, TypeOK
  <2>3. /\ own' = [own EXCEPT ![s][nextId] = w] /\ nextId \in RowId
        /\ UNCHANGED <<clock, found, stamp, table, known, tx, later, job>> /\ nextId' = nextId + 1
        /\ NextItem(s) /\ tx[s] = "active"
    BY <1>6, BoundsAssumption DEF Insert, TypeInv, TypeOK, RowId
  <2>5. Ingested(w.key, job, s)
    BY <2>1, <2>2, HeadIngested
  <2> HIDE DEF w
  <2>6. Inserted(s)
    BY <1>6, <2>2, <2>3, <2>5, HeadType DEF Insert, Inserted, Write
  <2>7. /\ pc'[s] \in {"check", "commit"} /\ BatchMove(s)
        /\ \A t \in Session : t # s => pc'[t] = pc[t] /\ batch'[t] = batch[t]
    BY <2>1, <2>3, NextItemMoves
  <2> QED
    BY <1>p, <2>3, <2>6, <2>7 DEF Step, DbStep, Others, Self, Reading, TypeInv, TypeOK
<1>7. CASE Reread(s)
  <2>1. batch[s] # <<>> /\ UNCHANGED <<clock, found, table, nextId, known, own, tx, later, job>>
    BY <1>7 DEF Reread, TypeInv, Flow
  <2>4. /\ stamp'[s] = stamp[s] \/ stamp'[s] = clock
        /\ \A t \in Session : t # s => stamp'[t] = stamp[t]
        /\ job[s].kind = "bulk"
    BY <1>7 DEF Reread, TypeInv, TypeOK, Flow
  <2>2. \/ NextItem(s)
        \/ Goto(s, "touch") /\ batch' = batch
    BY <1>7 DEF Reread
  <2>3. /\ pc'[s] \in {"check", "commit", "touch"} /\ BatchMove(s)
        /\ \A t \in Session : t # s => pc'[t] = pc[t] /\ batch'[t] = batch[t]
    BY <2>1, <2>2, NextItemMoves DEF Goto, BatchMove, TypeInv, TypeOK
  <2> QED
    BY <1>p, <1>u, <2>1, <2>3, <2>4 DEF Step, DbStep, Others, Self, Reading
<1>8. CASE Touch(s)
  <2>1. batch[s] # <<>> /\ UNCHANGED <<clock, found, stamp, table, nextId, known, tx, later, job>> /\ NextItem(s)
        /\ tx[s] = "active"
    BY <1>8 DEF Touch, TypeInv, Flow
  <2>2. /\ found[s] \in RowId /\ View(s)[found[s]] \in Row /\ stamp[s] \in Time
        /\ Free(s, found[s])
    BY <1>8, ViewType DEF Touch, TypeInv, TypeOK, Holders, Free
  <2> DEFINE w == [View(s)[found[s]] EXCEPT !.seen = stamp[s]]
  <2>3. w \in Row /\ w.key = View(s)[found[s]].key /\ w.seen = stamp[s]
    BY <2>2 DEF Row
  <2>4. own' = [own EXCEPT ![s][found[s]] = w] /\ View(s)[found[s]] # NoRow
    BY <1>8 DEF Touch
  <2> HIDE DEF w
  <2>5. Rewritten(s)
    BY <1>8, <2>1, <2>2, <2>3, <2>4 DEF Rewritten, Write, Touch, TypeInv, Flow, Aim
  <2>6. /\ pc'[s] \in {"check", "commit"} /\ BatchMove(s)
        /\ \A t \in Session : t # s => pc'[t] = pc[t] /\ batch'[t] = batch[t]
    BY <2>1, NextItemMoves
  <2> QED
    BY <1>p, <1>u, <2>1, <2>4, <2>5, <2>6 DEF Step, DbStep, Others, Self, Reading, TypeInv, TypeOK
<1>9. CASE Fetch(s)
  <2>1. /\ UNCHANGED <<clock, found, stamp, table, nextId, known, own, tx, batch, later, job>>
        /\ Goto(s, "done") \/ Goto(s, "write")
        /\ own[s] = Clean
    BY <1>9 DEF Fetch, Reply, Unwritten, Reading
  <2> QED
    BY <1>p, <1>u, <2>1 DEF Step, DbStep, Others, Self, BatchMove, Goto, Reading, TypeInv, TypeOK
<1>10. CASE Update(s)
  <2>1. /\ UNCHANGED <<clock, found, stamp, table, nextId, known, tx, batch, later, job>>
        /\ Goto(s, "commit") /\ own[s] = Clean /\ tx[s] = "active"
    BY <1>10 DEF Update, Unwritten, Reading
  <2>2. /\ found[s] \in RowId /\ table[found[s]] \in Row /\ Free(s, found[s])
        /\ table[found[s]] # NoRow
    BY <1>10 DEF Update, TypeInv, TypeOK, Holders, Free
  <2>3. View(s)[found[s]] = table[found[s]]
    BY <2>1, <2>2 DEF View, Clean
  <2> DEFINE w == [table[found[s]] EXCEPT !.seen =
                      IF job[s].seen = Keep THEN @ ELSE job[s].seen]
  <2>4. /\ w \in Row /\ w.key = table[found[s]].key
        /\ w = [table[found[s]] EXCEPT !.seen = IF job[s].seen = Keep THEN @ ELSE job[s].seen]
    BY <2>2, JobType DEF Row, TypeInv
  <2>5. own' = [own EXCEPT ![s][found[s]] = w]
    BY <1>10 DEF Update
  <2> HIDE DEF w
  <2>6. Rewritten(s)
    BY <1>10, <2>1, <2>2, <2>3, <2>4, <2>5 DEF Rewritten, Write, Update, Aim
  <2> QED
    BY <1>p, <1>u, <2>1, <2>5, <2>6 DEF Step, DbStep, Others, Self, BatchMove, Goto, Reading, TypeInv, TypeOK
<1>11. CASE Delete(s)
  <2>1. /\ UNCHANGED <<clock, found, stamp, table, nextId, known, tx, batch, later, job>> /\ Goto(s, "commit")
        /\ tx[s] = "active" /\ found[s] \in RowId /\ Free(s, found[s])
        /\ own' = [own EXCEPT ![s][found[s]] = IF table[found[s]] = NoRow THEN @ ELSE NoRow]
    BY <1>11 DEF Delete, TypeInv, TypeOK, Holders, Free
  <2>2. own' = own \/ Removed(s)
    <3>1. CASE table[found[s]] = NoRow
      BY <2>1, <3>1 DEF TypeInv, TypeOK
    <3>2. CASE table[found[s]] # NoRow
      <4>1. job[s].kind = "delete" /\ found[s] = job[s].row
        BY <1>11 DEF Delete, Aim
      <4>2. own' = [own EXCEPT ![s][found[s]] = NoRow]
        BY <2>1, <3>2
      <4> QED
        BY <2>1, <3>2, <4>1, <4>2 DEF Removed, Write
    <3> QED
      BY <3>1, <3>2
  <2> QED
    BY <1>p, <1>u, <2>1, <2>2 DEF Step, DbStep, Others, Self, BatchMove, Goto, Reading, TypeInv, TypeOK
<1>12. CASE CountOld(s)
  <2>1. /\ UNCHANGED <<clock, found, stamp, table, nextId, known, own, tx, batch, later, job>>
        /\ Goto(s, "done") \/ Goto(s, "scan")
        /\ own[s] = Clean
    BY <1>12 DEF CountOld, Reply, Unwritten, Reading
  <2> QED
    BY <1>p, <1>u, <2>1 DEF Step, DbStep, Others, Self, BatchMove, Goto, Reading, TypeInv, TypeOK
<1>13. CASE Scan(s)
  <2>1. /\ UNCHANGED <<clock, stamp, table, nextId, known, own, tx, batch, later, job>>
        /\ Goto(s, "commit") \/ Goto(s, "sweep")
    BY <1>13 DEF Scan
  <2>4. /\ \A t \in Session : t # s => found'[t] = found[t]
        /\ job[s].kind = "cleanup"
    BY <1>13 DEF Scan, TypeInv, TypeOK, Flow
  <2> QED
    BY <1>p, <1>u, <2>1, <2>4 DEF Step, DbStep, Others, Self, BatchMove, Goto, Reading, TypeInv, TypeOK
<1>14. CASE Sweep(s)
  <2>1. /\ UNCHANGED <<clock, stamp, table, nextId, known, tx, batch, later, job>>
        /\ Goto(s, "commit") \/ Goto(s, "sweep")
        /\ found[s] \in RowId /\ Free(s, found[s]) /\ tx[s] = "active"
    BY <1>14 DEF Sweep, TypeInv, TypeOK, Holders, Free
  <2>2. own' = [own EXCEPT ![s][found[s]] =
                  IF Stale(table[found[s]], stamp[s]) THEN NoRow ELSE @]
    BY <1>14 DEF Sweep
  <2>3. own' = own \/ Removed(s)
    <3>1. CASE ~Stale(table[found[s]], stamp[s])
      BY <2>1, <2>2, <3>1 DEF TypeInv, TypeOK
    <3>2. CASE Stale(table[found[s]], stamp[s])
      <4>1. job[s].kind = "cleanup" /\ table[found[s]] # NoRow
        BY <1>14, <3>2 DEF Sweep, Stale, TypeInv, Flow
      <4>2. own' = [own EXCEPT ![s][found[s]] = NoRow]
        BY <2>2, <3>2
      <4> QED
        BY <2>1, <3>2, <4>1, <4>2 DEF Removed, Write
    <3> QED
      BY <3>1, <3>2
  <2>4. /\ \A t \in Session : t # s => found'[t] = found[t]
        /\ job[s].kind = "cleanup"
    BY <1>14 DEF Sweep, TypeInv, TypeOK, Flow
  <2> QED
    BY <1>p, <1>u, <2>1, <2>2, <2>3, <2>4 DEF Step, DbStep, Others, Self, BatchMove, Goto, Reading, TypeInv, TypeOK
<1>15. CASE FlushFails(s)
  <2>1. /\ Raise(s) /\ pc[s] \notin {"start", "commit", "done"}
        /\ UNCHANGED <<clock, found, stamp, table, nextId, known, later, job>>
        /\ Undo(s) /\ \A t \in Session : t # s => tx'[t] = tx[t]
    BY <1>15 DEF FlushFails, TypeInv, TypeOK
  <2>2. /\ pc'[s] \in {"check", "commit", "done"} /\ BatchMove(s)
        /\ \A t \in Session : t # s => pc'[t] = pc[t] /\ batch'[t] = batch[t]
    BY <2>1, RaiseMoves
  <2>3. DbStep(s)
    BY <2>1 DEF DbStep, Undone
  <2> QED
    BY <1>p, <1>u, <2>1, <2>2, <2>3 DEF Step, Others, Self, Reading, Undo, TypeInv, TypeOK
<1>16. CASE DeadlockVictim(s)
  <2>1. /\ Raise(s) /\ pc[s] \notin {"start", "commit", "done"}
        /\ UNCHANGED <<clock, found, stamp, table, nextId, known, later, job>>
        /\ Undo(s) /\ \A t \in Session : t # s => tx'[t] = tx[t]
    BY <1>16 DEF DeadlockVictim, TypeInv, TypeOK, Deadlocked, BlockedBy
  <2>2. /\ pc'[s] \in {"check", "commit", "done"} /\ BatchMove(s)
        /\ \A t \in Session : t # s => pc'[t] = pc[t] /\ batch'[t] = batch[t]
    BY <2>1, RaiseMoves
  <2>3. DbStep(s)
    BY <2>1 DEF DbStep, Undone
  <2> QED
    BY <1>p, <1>u, <2>1, <2>2, <2>3 DEF Step, Others, Self, Reading, Undo, TypeInv, TypeOK
<1>17. CASE StatementRefused(s)
  <2>1. /\ Raise(s) /\ pc[s] \notin {"start", "commit", "done"}
        /\ UNCHANGED <<clock, found, stamp, table, nextId, known, later, job, own, tx>>
    BY <1>17 DEF StatementRefused
  <2>2. /\ pc'[s] \in {"check", "commit", "done"} /\ BatchMove(s)
        /\ \A t \in Session : t # s => pc'[t] = pc[t] /\ batch'[t] = batch[t]
    BY <2>1, RaiseMoves
  <2>3. DbStep(s)
    BY <2>1 DEF DbStep, Undone
  <2> QED
    BY <1>p, <1>u, <2>1, <2>2, <2>3 DEF Step, Others, Self, Reading, Undo, TypeInv, TypeOK
<1>18. CASE Commit(s)
  <2>1. /\ Committed(s) /\ UNCHANGED <<clock, found, stamp, job>>
        /\ \A t \in Session : t # s => tx'[t] = tx[t] /\ own'[t] = own[t]
    BY <1>18 DEF Commit, Publish, Committed, Undo, TypeInv, TypeOK
  <2>2. /\ pc'[s] \in {"done", "check"} /\ BatchMove(s)
        /\ \A t \in Session : t # s =>
            pc'[t] = pc[t] /\ batch'[t] = batch[t] /\ later'[t] = later[t]
    BY <1>18 DEF Commit, Reply, Goto, BatchMove, TypeInv, TypeOK
  <2>3. own'[s] = Clean
    BY <2>1 DEF Committed, Undo, TypeInv, TypeOK
  <2>4. Ingests(s) \/ pc'[s] = "done"
    BY <1>18 DEF Commit, Reply, Goto, TypeInv, TypeOK, Flow
  <2> QED
    BY <1>p, <2>1, <2>2, <2>3, <2>4 DEF Step, DbStep, Others, Self, Reading
<1>19. CASE CommitRefused(s)
  <2>1. /\ UNCHANGED <<clock, found, stamp, table, nextId, known, own, tx, batch, later, job>> /\ Goto(s, "done")
    BY <1>19 DEF CommitRefused, Reply
  <2> QED
    BY <1>p, <1>u, <2>1 DEF Step, DbStep, Others, Self, BatchMove, Goto, Reading, TypeInv, TypeOK
<1>20. CASE ConnectionLost(s)
  <2>1. /\ UNCHANGED <<clock, found, stamp, table, nextId, known, pc, batch, later, job>> /\ Undo(s)
        /\ tx'[s] = "deactive"
        /\ \A t \in Session : t # s => tx'[t] = tx[t] /\ own'[t] = own[t]
        /\ own'[s] = Clean
    BY <1>20 DEF ConnectionLost, Undo, TypeInv, TypeOK
  <2> QED
    BY <1>p, <1>u, <2>1 DEF Step, DbStep, Undone, Others, Self, BatchMove, Reading
<1>21. CASE Kill(s)
  <2>1. /\ UNCHANGED <<clock, found, stamp, table, nextId, known, tx, batch, later, job>> /\ Undo(s) /\ Goto(s, "done")
        /\ own'[s] = Clean /\ \A t \in Session : t # s => own'[t] = own[t]
    BY <1>21 DEF Kill, Reply, Undo, TypeInv, TypeOK
  <2> QED
    BY <1>p, <1>u, <2>1 DEF Step, DbStep, Undone, Others, Self, BatchMove, Goto, Reading, TypeInv, TypeOK
<1>22. CASE CommitUnanswered(s)
  <2>1. /\ Committed(s) /\ UNCHANGED <<clock, found, stamp, tx, batch, later, job>> /\ Goto(s, "done")
        /\ \A t \in Session : t # s => own'[t] = own[t]
        /\ own'[s] = Clean
    BY <1>22 DEF CommitUnanswered, Publish, Committed, Reply, Undo, TypeInv, TypeOK
  <2> QED
    BY <1>p, <2>1 DEF Step, DbStep, Others, Self, BatchMove, Goto, Reading, TypeInv, TypeOK
<1> QED
  BY <1>1, <1>2, <1>3, <1>4, <1>5, <1>6, <1>7, <1>8, <1>9, <1>10, <1>11, <1>12,
     <1>13, <1>14, <1>15, <1>16, <1>17, <1>18, <1>19, <1>20, <1>21, <1>22 DEF Moves, Statement, Breaks

LEMMA BaseStep ==
  ASSUME BaseInv, TypeInv', NEW s \in Session, Step(s)
  PROVE  BaseInv'
<1> USE DEF BaseInv
<1>1. DbInv'
  BY DbInvStep DEF TypeInv, Step
<1>2. job' = job
  BY DEF Step, DbStep
<1>3. BatchKeys'
  <2>1. ASSUME NEW t \in Session, t # s
        PROVE  batch'[t] = batch[t] /\ later'[t] = later[t]
    BY <2>1 DEF Step, Others
  <2>2. batch[s] \in Seq(Item) /\ later[s] \in Seq(Seq(Item))
    BY DEF TypeInv, TypeOK
  <2>3. /\ \A i \in DOMAIN batch'[s] : Ingested(batch'[s][i].key, job, s)
        /\ \A i \in DOMAIN later'[s] : \A n \in DOMAIN later'[s][i] :
                Ingested(later'[s][i][n].key, job, s)
    <3>1. CASE batch'[s] = batch[s] /\ later'[s] = later[s]
      BY <3>1 DEF BatchKeys
    <3>2. CASE batch[s] # <<>> /\ batch'[s] = Tail(batch[s]) /\ later'[s] = later[s]
      BY <2>2, <3>2, TailType DEF BatchKeys
    <3>3. CASE later[s] # <<>> /\ batch'[s] = Head(later[s]) /\ later'[s] = Tail(later[s])
      BY <2>2, <3>3, TailType DEF BatchKeys
    <3> QED
      BY <3>1, <3>2, <3>3 DEF Step, Self, BatchMove
  <2> QED
    BY <1>2, <2>1, <2>3 DEF BatchKeys, Ingested
<1>4. Unwritten'
  BY DEF Unwritten, Step, Others, Self
<1>5. Aim'
  <2>1. ASSUME NEW t \in Session, t # s
        PROVE  found'[t] = found[t] /\ stamp'[t] = stamp[t]
    BY <2>1 DEF Step, Others
  <2>2. /\ job[s].kind \in {"update", "delete"} => found'[s] = found[s]
        /\ stamp'[s] = stamp[s] \/ stamp'[s] = clock
        /\ clock' = clock /\ clock \in Nat
    BY BoundsAssumption DEF Step, Self, TypeInv, TypeOK, Time
  <2> QED
    BY <1>2, <2>1, <2>2 DEF Aim
<1> QED
  BY <1>1, <1>3, <1>4, <1>5

LEMMA BaseIdle ==
  ASSUME BaseInv, TypeInv', Waits
  PROVE  BaseInv'
<1>1. /\ UNCHANGED <<table, nextId, own, tx, pc, batch, later, job, found, stamp>>
      /\ clock' \in Nat /\ clock' >= clock /\ clock \in Nat
  BY WaitsKeep, BoundsAssumption DEF BaseInv, TypeInv, TypeOK, Time
<1>2. DbInv'
  BY <1>1 DEF BaseInv, DbInv, RowLocks, FreshIds, OwnKeys, Ingested
<1>3. BatchKeys' /\ Unwritten'
  BY <1>1 DEF BaseInv, BatchKeys, Unwritten, Ingested
<1>4. Aim'
  BY <1>1 DEF BaseInv, Aim
<1> QED
  BY <1>2, <1>3, <1>4 DEF BaseInv

LEMMA BaseInit == Init => BaseInv
<1> SUFFICES ASSUME Init PROVE BaseInv
  OBVIOUS
<1>1. TypeInv
  BY TypeInit
<1>2. /\ \A s \in Session : own[s] = Clean
      /\ nextId = Len(StartRows) + 1 /\ Len(StartRows) \in Nat
      /\ DOMAIN StartRows = 1 .. Len(StartRows)
      /\ \A r \in RowId : table[r] = IF r =< Len(StartRows) THEN StartRows[r] ELSE NoRow
  BY StartAssumption DEF Init
<1>3. \A s \in Session : \A r \in RowId : own[s][r] = Untouched
  BY <1>2 DEF Clean
<1>4. DbInv
  BY <1>2, <1>3, NullsAssumption DEF DbInv, RowLocks, FreshIds, OwnKeys, RowId
<1>5. BatchKeys
  <2>1. \A s \in Session : batch[s] = <<>> /\ later[s] = job[s].batches /\ DOMAIN batch[s] = {}
    BY DEF Init
  <2>2. \A s \in Session : later[s] # <<>> => job[s].kind \in {"bulk", "create"}
    BY <1>1 DEF TypeInv, Flow, Ingests
  <2>3. ASSUME NEW s \in Session, NEW i \in DOMAIN later[s], NEW n \in DOMAIN later[s][i]
        PROVE  Ingested(later[s][i][n].key, job, s)
    <3>1. later[s] # <<>>
      BY <2>3
    <3> QED
      BY <2>1, <2>2, <2>3, <3>1 DEF Ingested
  <2> QED
    BY <2>1, <2>3 DEF BatchKeys
<1>6. Unwritten /\ Aim
  BY <1>2 DEF Unwritten, Aim, Init
<1> QED
  BY <1>1, <1>4, <1>5, <1>6 DEF BaseInv

LEMMA BaseNext == BaseInv /\ [Next]_vars => BaseInv'
<1> SUFFICES ASSUME BaseInv, [Next]_vars PROVE BaseInv'
  OBVIOUS
<1>1. TypeInv'
  BY TypeStep DEF BaseInv
<1>2. ASSUME NEW s \in Session,
             Moves(s)
      PROVE  BaseInv'
  BY <1>1, <1>2, StatementSteps, BaseStep
<1>3. CASE Waits
  BY <1>1, <1>3, BaseIdle
<1> QED
  BY <1>2, <1>3, NextCases

LEMMA KeyStep ==
  ASSUME DisjointJobs, KeyInv, BaseInv', NEW s \in Session, Step(s)
  PROVE  KeyInv'
<1> USE DEF KeyInv, BaseInv
<1>1. UniqueInv'
  <2>1. Inserted(s) => Matches(s, Head(batch[s]).key) = {}
    BY DEF Inserted, InsertFree
  <2> QED
    BY <2>1, UniqueInvStep DEF BaseInv, TypeInv, Step
<1>2. InsertFree'
  <2>1. ASSUME NEW t \in Session, pc'[t] = "insert", tx'[t] = "active", NEW r \in RowId,
               View(t)'[r] # NoRow, View(t)'[r].key = Head(batch'[t]).key
        PROVE  FALSE
    <3>1. CASE t = s
      <4>1. UNCHANGED <<table, own>> /\ batch'[s] = batch[s] /\ Matches(s, Head(batch[s]).key) = {}
        BY <2>1, <3>1 DEF Step, Self
      <4> QED
        BY <2>1, <3>1, <4>1 DEF View, Matches
    <3>2. CASE t # s
      <4>1. pc[t] = "insert" /\ tx[t] = "active" /\ batch'[t] = batch[t] /\ own'[t] = own[t]
        BY <2>1, <3>2 DEF Step, Others
      <4>2. /\ Matches(t, Head(batch[t]).key) = {}
            /\ Ingested(Head(batch[t]).key, job, t) /\ Head(batch[t]).key \in Key
        BY <4>1, HeadIngested, HeadType DEF InsertFree, TypeInv, Flow, Item
      <4>3. ~(View(t)[r] # NoRow /\ View(t)[r].key = Head(batch[t]).key)
        BY <4>2 DEF Matches
      <4>4. CASE table' = table
        BY <2>1, <4>1, <4>3, <4>4 DEF View
      <4>5. CASE Committed(s)
        <5>1. own[t][r] = Untouched /\ View(s)[r] # NoRow /\ View(s)[r].key = Head(batch[t]).key
          BY <2>1, <4>1, <4>3, <4>5 DEF View, Committed
        <5>2. table[r] = NoRow \/ table[r].key # Head(batch[t]).key
          BY <4>3, <5>1, ViewUntouched
        <5>3. own[s][r] \in Row /\ View(s)[r] = own[s][r]
          BY <5>1, <5>2, ViewUntouched DEF TypeInv, TypeOK
        <5>4. Ingested(own[s][r].key, job, s)
          BY <5>1, <5>2, <5>3 DEF DbInv, OwnKeys
        <5>5. job \in Workloads
          BY DEF TypeInv, TypeOK
        <5> QED
          BY <3>2, <4>2, <5>1, <5>3, <5>4, <5>5 DEF DisjointJobs
      <4> QED
        BY <4>4, <4>5 DEF Step, DbStep, Undone, Inserted, Rewritten, Removed, Write
    <3> QED
      BY <3>1, <3>2
  <2> QED
    BY <2>1 DEF InsertFree, Matches
<1> QED
  BY <1>1, <1>2

(* While no two sessions ingest the same key, no two rows hold the same    *)
(* indicator, whatever edits, deletes, cleaning, deadlocks, lost           *)
(* connections and killed processes come between a check and its INSERT.   *)
THEOREM NoDuplicatesHolds ==
  ASSUME DistinctStart
  PROVE  Spec => []NoDuplicatesUnlessShared
<1>1. Init => JobKeyInv
  <2> SUFFICES ASSUME Init PROVE KeyInv
    BY DEF JobKeyInv, KeyInv
  <2>1. BaseInv
    BY BaseInit
  <2>2. /\ \A s \in Session : own[s] = Clean
        /\ DOMAIN StartRows = 1 .. Len(StartRows)
        /\ \A r \in RowId : table[r] = IF r =< Len(StartRows) THEN StartRows[r] ELSE NoRow
    BY StartAssumption DEF Init
  <2>3. NoDuplicates
    BY <2>2 DEF NoDuplicates, DistinctStart, RowId
  <2>4. \A s \in Session : \A r \in RowId : View(s)[r] = table[r]
    BY <2>2 DEF View, Clean
  <2>5. ViewUnique
    BY <2>3, <2>4 DEF ViewUnique, NoDuplicates
  <2>6. InsertFree
    BY DEF InsertFree, Init
  <2> QED
    BY <2>1, <2>3, <2>5, <2>6 DEF KeyInv, UniqueInv
<1>2. JobKeyInv /\ [Next]_vars => JobKeyInv'
  <2> SUFFICES ASSUME JobKeyInv, [Next]_vars PROVE JobKeyInv'
    OBVIOUS
  <2>1. BaseInv /\ BaseInv'
    BY BaseNext DEF JobKeyInv
  <2>2. ASSUME NEW s \in Session, DisjointJobs',
               Moves(s)
        PROVE  KeyInv'
    <3>1. Step(s)
      BY <2>1, <2>2, StatementSteps
    <3>2. DisjointJobs
      BY <2>2, <3>1 DEF DisjointJobs, Ingested, Step, DbStep
    <3>3. KeyInv
      BY <3>2 DEF JobKeyInv
    <3> QED
      BY <2>1, <3>1, <3>2, <3>3, KeyStep DEF KeyInv
  <2>3. CASE Waits
    <3>1. UNCHANGED <<table, own, tx, pc, batch, job>>
      BY <2>3, WaitsKeep
    <3>2. SUFFICES ASSUME DisjointJobs' PROVE KeyInv'
      BY <2>1 DEF JobKeyInv
    <3>3. KeyInv
      BY <3>1, <3>2 DEF JobKeyInv, DisjointJobs, Ingested
    <3>4. UniqueInv' /\ InsertFree'
      BY <3>1, <3>3 DEF KeyInv, UniqueInv, ViewUnique, NoDuplicates, InsertFree, Matches, View
    <3> QED
      BY <2>1, <3>4 DEF KeyInv
  <2> QED
    BY <2>1, <2>2, <2>3, NextCases DEF JobKeyInv
<1>3. JobKeyInv => NoDuplicatesUnlessShared
  BY DEF JobKeyInv, KeyInv, UniqueInv, NoDuplicatesUnlessShared
<1> QED
  BY <1>1, <1>2, <1>3, PTL DEF Spec

-----------------------------------------------------------------------------
(* The counts of an ingestion.  What is left of its job is a suffix of it, *)
(* and the counts of a batch are about the items before that suffix.       *)

Turn(s)    == Len(job[s].batches) - Len(later[s])
Now(s)     == job[s].batches[Turn(s)]
Dealt(s)   == Len(Now(s)) - Len(batch[s])
Counted(s) == tally[s].created + tally[s].skipped + tally[s].errors

(* What is left of the job, and that what is not left has been counted.    *)
Fresh(s) == later[s] = job[s].batches /\ tally[s] = ZeroTally /\ tx[s] = "active"
Left(s) ==
    /\ Turn(s) \in DOMAIN job[s].batches
    /\ \A i \in DOMAIN later[s] : later[s][i] = job[s].batches[i + Turn(s)]
    /\ Len(batch[s]) =< Len(Now(s))
    /\ \A i \in DOMAIN batch[s] : batch[s][i] = Now(s)[i + Dealt(s)]
    /\ pc[s] = "commit" => batch[s] = <<>>
    /\ Counted(s) = Dealt(s)

(* While the transaction is active no item dealt with was one the server   *)
(* refuses, nor is the one that the check has let through.                 *)
Accepted(s) ==
    tx[s] = "active" =>
        /\ \A i \in 1 .. Dealt(s) : Now(s)[i].defect # "nul"
        /\ pc[s] \in {"insert", "reread", "touch"} => Head(batch[s]).defect # "nul"

Account(s) ==
    Ingests(s) =>
        /\ pc[s] = "start" => Fresh(s)
        /\ Running(s) => Left(s) /\ Accepted(s)

(* The rows a session has added and not committed.                         *)
Added(s) == {r \in RowId : own[s][r] # Untouched /\ table[r] = NoRow}

(* No batch of the session has an item before one that the server refuses, *)
(* unless that is refused as well.                                         *)
NulsFirst(s) ==
    \A i \in DOMAIN job[s].batches :
        \A n \in DOMAIN job[s].batches[i] : job[s].batches[i][n].defect = "nul" =>
            \A m \in 1 .. n : job[s].batches[i][m].defect = "nul"

(* What has been counted as created are the rows written, or else the      *)
(* commit will add neither.                                                *)
Honest(s) ==
    Ingests(s) =>
        /\ CountHonest(s)
        /\ pc[s] # "done" => stats[s].created = effect[s]
        /\ \A r \in RowId : own[s][r] # NoRow
        /\ tx[s] # "active" => own[s] = Clean
        /\ Running(s) /\ tx[s] = "active" => tally[s].created = Cardinality(Added(s))
        /\ Running(s) /\ tx[s] = "aborted" => tally[s].created = 0

(* What one step of an ingestion does to its counts.                       *)
Inside   == {"check", "insert", "reread", "touch"}
Kept(s)  == stats'[s] = stats[s] /\ effect'[s] = effect[s] /\ table' = table
Still(s) == batch'[s] = batch[s] /\ later'[s] = later[s] /\ tally'[s] = tally[s]
TakesBatch(s) ==
    /\ later[s] # <<>> /\ batch'[s] = Head(later[s]) /\ later'[s] = Tail(later[s])
    /\ pc'[s] = "check"

Opens(s) ==
    /\ pc[s] = "start" /\ TakesBatch(s)
    /\ tally'[s] = tally[s] /\ tx'[s] = tx[s] /\ own'[s] = own[s]
Stops(s) ==
    /\ Running(s) /\ pc'[s] = "done" /\ later'[s] = later[s]
    /\ own'[s] = Clean \/ (own'[s] = own[s] /\ tx'[s] = tx[s])
Admits(s) ==
    /\ Still(s) /\ tx'[s] = tx[s] /\ own'[s] = own[s] /\ pc'[s] \in Inside \ {"check"}
    /\ \/ pc[s] = "check" /\ Head(batch[s]).defect # "nul"
       \/ pc[s] = "reread"
Loses(s) ==
    Still(s) /\ pc'[s] = pc[s] /\ Running(s) /\ tx'[s] = "deactive" /\ own'[s] = Clean
Deals(s, f) ==
    /\ pc[s] \in Inside /\ batch[s] # <<>>
    /\ batch'[s] = Tail(batch[s]) /\ later'[s] = later[s]
    /\ pc'[s] = IF Len(batch[s]) > 1 THEN "check" ELSE "commit"
    /\ tally'[s] = [tally[s] EXCEPT ![f] = @ + 1]
Adds(s) ==
    /\ Deals(s, "created") /\ tx[s] = "active" /\ tx'[s] = "active"
    /\ pc[s] = "insert" /\ nextId \in RowId /\ \E w \in Row : Write(s, nextId, w)
Settles(s) ==
    \/ /\ tx'[s] = tx[s]
       /\ tx[s] = "active" => pc[s] # "check" \/ Head(batch[s]).defect # "nul"
       /\ \/ own'[s] = own[s]
          \/ tx[s] = "active" /\ \E r \in RowId : \E w \in Row : View(s)[r] # NoRow /\ Write(s, r, w)
    \/ /\ tx[s] = "active" /\ tx'[s] = "aborted" /\ own'[s] = Clean
       /\ pc[s] = "check" /\ Head(batch[s]).defect = "nul"
    \/ tx'[s] = "deactive" /\ own'[s] = Clean
PassesOver(s) == (Deals(s, "skipped") \/ Deals(s, "errors")) /\ Settles(s)
Books(s) ==
    /\ pc[s] = "commit" /\ tx[s] # "deactive" /\ Committed(s) /\ tx'[s] = "active"
    /\ tally'[s] = ZeroTally
    /\ stats'[s].created = stats[s].created + tally[s].created
    /\ effect'[s] = effect[s] + Cardinality({r \in RowId : (table[r] = NoRow) # (table'[r] = NoRow)})
    /\ (pc'[s] = "done" /\ later'[s] = later[s]) \/ TakesBatch(s)
LosesAnswer(s) ==
    /\ pc[s] = "commit" /\ tx[s] # "deactive" /\ Committed(s) /\ tx'[s] = tx[s]
    /\ tally'[s] = tally[s] /\ stats'[s] = stats[s]
    /\ effect'[s] = effect[s] + Cardinality({r \in RowId : (table[r] = NoRow) # (table'[r] = NoRow)})
    /\ pc'[s] = "done" /\ later'[s] = later[s] /\ outcome'[s] \in {"failed", "killed"}

Ledger(s) ==
    \/ Kept(s) /\ (Opens(s) \/ Stops(s) \/ Admits(s) \/ Loses(s) \/ Adds(s) \/ PassesOver(s))
    \/ Books(s) \/ LosesAnswer(s)

(* It leaves those of other sessions alone.                                *)
Bystanders(s) ==
    \A t \in Session : t # s =>
        /\ tally'[t] = tally[t] /\ stats'[t] = stats[t] /\ effect'[t] = effect[t]
        /\ outcome'[t] = outcome[t]

(* The exception handler counts the item as an error, or ends the job.     *)
LEMMA RaiseDeals ==
  ASSUME TypeInv, NEW s \in Session, Ingests(s), Raise(s), later' = later, pc[s] \in Inside
  PROVE  \/ Deals(s, "errors")
         \/ pc'[s] = "done" /\ Still(s)
<1>1. batch[s] # <<>>
  BY DEF TypeInv, Flow, Inside
<1> QED
  BY <1>1 DEF Raise, Reply, Goto, Count, NextItem, Deals, Still, TypeInv, TypeOK, Tally, Inside

(* No action counts for another session.                                   *)
LEMMA CountsOwn ==
  ASSUME TypeInv, NEW s \in Session, Moves(s)
  PROVE  Bystanders(s)
<1> DEFINE Told == outcome' = outcome \/ \E o : Reply(s, o)
<1> USE DEF TypeInv, TypeOK, Bystanders
<1>0. Told => \A t \in Session : t # s => outcome'[t] = outcome[t]
  BY DEF Reply
<1>1. CASE UNCHANGED counts /\ Told
  BY <1>0, <1>1 DEF counts
<1>2. CASE (\E f \in Counter : Count(s, f) /\ UNCHANGED <<stats, effect>>) /\ Told
  BY <1>0, <1>2 DEF Count
<1>3. CASE Commit(s)
  <2>1. Told
    BY <1>3 DEF Commit
  <2> QED
    BY <1>0, <1>3, <2>1 DEF Commit, Publish
<1>4. CASE CountOld(s)
  <2>1. Told
    BY <1>4 DEF CountOld
  <2> QED
    BY <1>0, <1>4, <2>1 DEF CountOld
<1>10. CASE CommitUnanswered(s)
  <2>1. Told
    BY <1>10 DEF CommitUnanswered
  <2> QED
    BY <1>0, <1>10, <2>1 DEF CommitUnanswered, Publish
<1>5. Raise(s) => (tally' = tally \/ Count(s, "errors")) /\ Told
  BY DEF Raise
<1>6. "created" \in Counter /\ "skipped" \in Counter /\ "errors" \in Counter
  BY DEF Counter
<1> HIDE DEF TypeInv, TypeOK, Bystanders
<1>7. CASE CheckFails(s) \/ CheckAmbiguous(s) \/ FlushFails(s) \/ DeadlockVictim(s) \/ StatementRefused(s)
  <2>1. Raise(s) /\ UNCHANGED <<stats, effect>>
    BY <1>7 DEF CheckFails, CheckAmbiguous, FlushFails, DeadlockVictim, StatementRefused
  <2> QED
    BY <1>1, <1>2, <1>5, <1>6, <2>1 DEF counts
<1>8. CASE CheckFindsOne(s) \/ Insert(s) \/ Reread(s) \/ Touch(s)
  <2>1. /\ UNCHANGED <<stats, effect>> /\ Told
        /\ tally' = tally \/ \E f \in Counter : Count(s, f)
    BY <1>6, <1>8 DEF CheckFindsOne, Insert, Reread, Touch
  <2> QED
    BY <1>1, <1>2, <2>1 DEF counts
<1>9. CASE \/ Begin(s) \/ CheckFindsNone(s) \/ Fetch(s) \/ Update(s) \/ Delete(s)
           \/ Scan(s) \/ Sweep(s) \/ CommitRefused(s) \/ ConnectionLost(s) \/ Kill(s)
  <2>1. Told /\ UNCHANGED counts
    BY <1>9 DEF Begin, CheckFindsNone, Fetch, Update, Delete, Scan, Sweep, CommitRefused,
                ConnectionLost, Kill, counts
  <2> QED
    BY <1>1, <2>1
<1> QED
  BY <1>3, <1>4, <1>7, <1>8, <1>9, <1>10 DEF Moves, Statement, Breaks

(* Every action of an ingestion is one of the changes Ledger lists.        *)
LEMMA LedgerSteps ==
  ASSUME TypeInv, NEW s \in Session, Ingests(s),
         Moves(s)
  PROVE  Ledger(s)
<1> USE DEF TypeInv, db, items, cursor, counts
<1>0. /\ job[s].kind \notin {"update", "delete", "cleanup"}
      /\ pc[s] \in {"start", "commit", "done"} \cup Inside
      /\ pc[s] \in Inside => batch[s] # <<>>
      /\ pc[s] = "start" => later[s] # <<>>
  BY DEF Ingests, Inside, Flow, TypeOK, Location
<1>a. own \in [Session -> [RowId -> Row \cup {NoRow, Untouched}]] /\ tx \in [Session -> {"active", "aborted", "deactive"}]
  BY DEF TypeOK
<1>b. Undo(s) => own'[s] = Clean
  BY <1>a DEF Undo
<1>1. CASE Begin(s)
  BY <1>0, <1>1 DEF Begin, Goto, Ledger, Opens, TakesBatch, Kept, TypeOK, Ingests
<1>2. CASE CheckFails(s)
  <2>1. /\ Raise(s) /\ later' = later /\ pc[s] \in Inside /\ Kept(s) /\ own'[s] = Clean
        /\ tx[s] = "active" /\ tx'[s] = "aborted" /\ pc[s] = "check" /\ Head(batch[s]).defect = "nul"
    BY <1>2, <1>a, <1>b DEF CheckFails, Inside, Kept
  <2> QED
    BY <2>1, RaiseDeals DEF Ledger, PassesOver, Settles, Stops, Still, Running, Inside
<1>3. CASE CheckAmbiguous(s)
  <2>1. /\ Raise(s) /\ later' = later /\ pc[s] \in Inside /\ Kept(s) /\ own' = own /\ tx' = tx
        /\ Head(batch[s]).defect # "nul"
    BY <1>3 DEF CheckAmbiguous, Inside, Kept
  <2> QED
    BY <2>1, RaiseDeals DEF Ledger, PassesOver, Settles, Stops, Still, Running, Inside
<1>4. CASE CheckFindsOne(s)
  <2>1. /\ later' = later /\ pc[s] \in Inside /\ Kept(s) /\ own' = own /\ tx' = tx
        /\ pc[s] = "check" /\ Head(batch[s]).defect # "nul"
        /\ \/ pc'[s] = "done"
           \/ pc'[s] = "reread" /\ Still(s)
           \/ Count(s, "errors") /\ NextItem(s)
    BY <1>4 DEF CheckFindsOne, Inside, Kept, Still, Reply, Goto, TypeOK
  <2>2. Count(s, "errors") /\ NextItem(s) => Deals(s, "errors")
    BY <1>0, <2>1 DEF Count, NextItem, Goto, Deals, TypeOK, Tally
  <2> QED
    BY <2>1, <2>2 DEF Ledger, PassesOver, Settles, Stops, Running, Admits, Inside
<1>5. CASE CheckFindsNone(s)
  BY <1>5 DEF CheckFindsNone, Goto, Ledger, Admits, Kept, Still, Inside, TypeOK
<1>6. CASE Insert(s)
  <2>1. /\ Count(s, "created") /\ NextItem(s) /\ later' = later /\ Kept(s) /\ tx' = tx
        /\ pc[s] = "insert" /\ tx[s] = "active" /\ nextId \in RowId
    BY <1>6 DEF Insert, Kept, RowId, TypeOK
  <2>2. Deals(s, "created")
    BY <1>0, <2>1 DEF Count, NextItem, Goto, Deals, TypeOK, Tally, Inside
  <2>3. Head(batch[s]) \in Item
    BY <2>1, HeadType
  <2> DEFINE w == [key |-> Head(batch[s]).key,
                   seen |-> IF Head(batch[s]).seen = NoTime THEN clock ELSE Head(batch[s]).seen]
  <2>4. w \in Row
    BY <2>3 DEF Item, Row, TypeOK
  <2>5. Write(s, nextId, w)
    BY <1>6 DEF Insert, Write
  <2> QED
    BY <2>1, <2>2, <2>4, <2>5 DEF Ledger, Adds
<1>7. CASE Reread(s)
  <2>1. /\ later' = later /\ Kept(s) /\ own' = own /\ tx' = tx /\ pc[s] = "reread"
        /\ \/ pc'[s] = "touch" /\ Still(s)
           \/ Count(s, "skipped") /\ NextItem(s)
    BY <1>7 DEF Reread, Kept, Still, Goto, TypeOK
  <2>2. Count(s, "skipped") /\ NextItem(s) => Deals(s, "skipped")
    BY <1>0, <2>1 DEF Count, NextItem, Goto, Deals, TypeOK, Tally, Inside
  <2> QED
    BY <2>1, <2>2 DEF Ledger, PassesOver, Settles, Admits, Inside
<1>8. CASE Touch(s)
  <2>1. /\ later' = later /\ Kept(s) /\ tx' = tx /\ pc[s] = "touch" /\ tx[s] = "active"
        /\ Count(s, "skipped") /\ NextItem(s)
    BY <1>8 DEF Touch, Kept
  <2>2. Deals(s, "skipped")
    BY <1>0, <2>1 DEF Count, NextItem, Goto, Deals, TypeOK, Tally, Inside
  <2>3. View(s)[found[s]] \in Row /\ found[s] \in RowId /\ stamp[s] \in Time /\ View(s)[found[s]] # NoRow
    BY <1>8, ViewType DEF Touch, TypeOK
  <2>4. [View(s)[found[s]] EXCEPT !.seen = stamp[s]] \in Row
    BY <2>3 DEF Row
  <2>5. Write(s, found[s], [View(s)[found[s]] EXCEPT !.seen = stamp[s]])
    BY <1>8 DEF Touch, Write
  <2> QED
    BY <2>1, <2>2, <2>3, <2>4, <2>5 DEF Ledger, PassesOver, Settles
<1>9. CASE FlushFails(s) \/ DeadlockVictim(s)
  <2>1. pc[s] \in Inside /\ pc[s] # "sweep"
    BY <1>0, <1>9 DEF FlushFails, DeadlockVictim, Deadlocked, BlockedBy, Inside
  <2>2. Raise(s) /\ later' = later /\ Kept(s) /\ own'[s] = Clean /\ tx'[s] = "deactive"
    BY <1>9, <1>a, <1>b, <2>1 DEF FlushFails, DeadlockVictim, Kept
  <2> QED
    BY <2>1, <2>2, RaiseDeals DEF Ledger, PassesOver, Settles, Stops, Still, Running, Inside
<1>10. CASE StatementRefused(s)
  <2>1. /\ Raise(s) /\ later' = later /\ pc[s] \in Inside /\ Kept(s) /\ own' = own /\ tx' = tx
        /\ tx[s] # "active"
    BY <1>0, <1>10 DEF StatementRefused, Kept
  <2> QED
    BY <2>1, RaiseDeals DEF Ledger, PassesOver, Settles, Stops, Still, Running, Inside
<1>11. CASE Commit(s)
  <2>1. /\ pc[s] = "commit" /\ tx[s] # "deactive" /\ Committed(s)
        /\ tx'[s] = "active" /\ tally'[s] = ZeroTally
        /\ (pc'[s] = "done" /\ later'[s] = later[s]) \/ TakesBatch(s)
    BY <1>11 DEF Commit, Publish, Committed, TakesBatch, Reply, Goto, TypeOK
  <2>2. stats'[s].created = stats[s].created + tally[s].created
    BY <1>11 DEF Commit, Plus, Counter, TypeOK
  <2>3. effect'[s] = effect[s] + Cardinality({r \in RowId : (table[r] = NoRow) # (table'[r] = NoRow)})
    BY <1>11 DEF Commit, Publish, TypeOK
  <2> QED
    BY <2>1, <2>2, <2>3 DEF Ledger, Books
<1>16. CASE CommitUnanswered(s)
  <2>1. /\ pc[s] = "commit" /\ tx[s] # "deactive" /\ Committed(s)
        /\ tx' = tx /\ tally' = tally /\ stats' = stats
        /\ pc'[s] = "done" /\ later' = later /\ outcome'[s] \in {"failed", "killed"}
    BY <1>16 DEF CommitUnanswered, Publish, Committed, Reply, Goto, TypeOK
  <2>2. effect'[s] = effect[s] + Cardinality({r \in RowId : (table[r] = NoRow) # (table'[r] = NoRow)})
    BY <1>16 DEF CommitUnanswered, Publish, TypeOK
  <2> QED
    BY <2>1, <2>2 DEF Ledger, LosesAnswer
<1>12. CASE CommitRefused(s)
  BY <1>12 DEF CommitRefused, Reply, Goto, Ledger, Stops, Running, Kept, TypeOK
<1>13. CASE ConnectionLost(s)
  <2>1. own'[s] = Clean /\ tx'[s] = "deactive" /\ pc' = pc
    BY <1>13, <1>a, <1>b DEF ConnectionLost
  <2> QED
    BY <1>13, <2>1 DEF ConnectionLost, Ledger, Loses, Kept, Still
<1>14. CASE Kill(s)
  BY <1>14, <1>b DEF Kill, Running, Reply, Goto, Ledger, Stops, Running, Kept, TypeOK
<1>15. CASE Fetch(s) \/ Update(s) \/ Delete(s) \/ CountOld(s) \/ Scan(s) \/ Sweep(s)
  BY <1>0, <1>15 DEF Fetch, Update, Delete, CountOld, Scan, Sweep, Inside
<1> QED
  BY <1>1, <1>2, <1>3, <1>4, <1>5, <1>6, <1>7, <1>8, <1>9, <1>10, <1>11, <1>12, <1>13, <1>14, <1>15,
     <1>16 DEF Moves, Statement, Breaks

(* The types that the arithmetic of a job's place rests on.                *)
LEMMA PlaceTypes ==
  ASSUME TypeInv, NEW s \in Session
  PROVE  /\ job[s].batches \in Seq(Seq(Item)) /\ later[s] \in Seq(Seq(Item))
         /\ batch[s] \in Seq(Item) /\ tally[s] \in [Counter -> Nat]
         /\ stats[s] \in [Counter -> Nat] /\ effect[s] \in Nat
         /\ {"created", "skipped", "errors"} \subseteq Counter
  BY JobType DEF TypeInv, TypeOK, Tally, Counter

(* The next batch is the next one of the job, and nothing of it is dealt   *)
(* with yet.                                                               *)
LEMMA NextBatch ==
  ASSUME TypeInv, NEW s \in Session, job' = job, TakesBatch(s), tally'[s] = ZeroTally,
         Turn(s) \in 0 .. Len(job[s].batches),
         \A i \in DOMAIN later[s] : later[s][i] = job[s].batches[i + Turn(s)]
  PROVE  Left(s)' /\ Dealt(s)' = 0 /\ Counted(s)' = 0
<1> DEFINE J == job[s].batches
           L == later[s]
<1>1. /\ J \in Seq(Seq(Item)) /\ L \in Seq(Seq(Item)) /\ L # <<>>
      /\ batch'[s] = Head(L) /\ later'[s] = Tail(L) /\ pc'[s] = "check"
      /\ Turn(s) = Len(J) - Len(L)
      /\ Len(J) - Len(L) \in 0 .. Len(J)
      /\ \A i \in DOMAIN L : L[i] = J[i + (Len(J) - Len(L))]
  BY PlaceTypes DEF TakesBatch, Turn
<1>2. Turn(s)' = Len(J) - Len(Tail(L))
  BY <1>1 DEF Turn
<1> HIDE DEF J, L
<1>3. /\ Len(Tail(L)) = Len(L) - 1 /\ Len(L) \in Nat /\ Len(J) \in Nat
      /\ 1 \in DOMAIN L /\ Head(L) = L[1] /\ DOMAIN L = 1 .. Len(L) /\ DOMAIN J = 1 .. Len(J)
      /\ \A i \in DOMAIN Tail(L) : i + 1 \in DOMAIN L /\ Tail(L)[i] = L[i + 1]
      /\ DOMAIN Tail(L) \subseteq Int
      /\ Head(L) \in Seq(Item)
  <2>1. Tail(L) \in Seq(Seq(Item))
    BY <1>1, TailType
  <2> QED
    BY <1>1, <2>1, TailType
<1> DEFINE k == Len(J) - Len(L)
<1>4. Turn(s)' = k + 1 /\ k + 1 \in DOMAIN J /\ Head(L) = J[k + 1]
  <2>1. Turn(s)' = k + 1 /\ k + 1 \in 1 .. Len(J) /\ k + 1 = 1 + k
    BY <1>1, <1>2, <1>3
  <2>2. L[1] = J[1 + k]
    BY <1>1, <1>3
  <2> QED
    BY <1>3, <2>1, <2>2
<1>5. Now(s)' = Head(L) /\ batch'[s] = Head(L)
  BY <1>1, <1>4 DEF Now, J
<1>6. Dealt(s)' = Len(Head(L)) - Len(Head(L)) /\ Len(Head(L)) \in Nat
  BY <1>3, <1>5 DEF Dealt
<1>7. Dealt(s)' = 0
  BY <1>6
<1>8. Counted(s)' = 0
  BY PlaceTypes DEF Counted, ZeroTally
<1>9. \A i \in DOMAIN Tail(L) : Tail(L)[i] = J[i + (k + 1)]
  <2> TAKE i \in DOMAIN Tail(L)
  <2>1. i + 1 \in DOMAIN L /\ Tail(L)[i] = L[i + 1] /\ i \in Int
    BY <1>3
  <2>2. L[i + 1] = J[(i + 1) + k]
    BY <1>1, <2>1
  <2>3. (i + 1) + k = i + (k + 1) /\ k \in Int
    BY <1>3, <2>1
  <2> QED
    BY <2>1, <2>2, <2>3
<1>10. \A i \in DOMAIN Head(L) : Head(L)[i] = Head(L)[i + 0]
  BY <1>3
<1> QED
  BY <1>1, <1>4, <1>5, <1>6, <1>7, <1>8, <1>9, <1>10 DEF Left, J

(* Dealing with an item is dealing with the next one of its batch.         *)
LEMMA NextOne ==
  ASSUME TypeInv, NEW s \in Session, job' = job, Left(s),
         NEW f \in {"created", "skipped", "errors"}, Deals(s, f)
  PROVE  /\ Left(s)'
         /\ Now(s)' = Now(s) /\ Dealt(s) \in Nat /\ Dealt(s)' = Dealt(s) + 1
         /\ Dealt(s) + 1 \in DOMAIN Now(s) /\ Head(batch[s]) = Now(s)[Dealt(s) + 1]
         /\ Now(s) \in Seq(Item) /\ Now(s) = job[s].batches[Turn(s)]
<1> DEFINE b == batch[s]
           n == Now(s)
<1>1. /\ Turn(s)' = Turn(s) /\ Now(s)' = n /\ later'[s] = later[s]
      /\ batch'[s] = Tail(b) /\ Dealt(s) = Len(n) - Len(b) /\ Dealt(s)' = Len(n) - Len(Tail(b))
      /\ Counted(s) = Len(n) - Len(b)
      /\ pc'[s] = IF Len(b) > 1 THEN "check" ELSE "commit"
  BY DEF Turn, Now, Dealt, Deals, Left
<1>2. n \in Seq(Item) /\ b \in Seq(Item) /\ b # <<>> /\ Len(b) =< Len(n)
  BY PlaceTypes DEF Now, Left, Deals
<1>3. Len(n) \in Nat /\ DOMAIN n = 1 .. Len(n)
  BY <1>2
<1>4. /\ Len(Tail(b)) = Len(b) - 1 /\ Len(b) \in Nat /\ Len(b) # 0
      /\ 1 \in DOMAIN b /\ Head(b) = b[1]
      /\ \A i \in DOMAIN Tail(b) : i + 1 \in DOMAIN b /\ Tail(b)[i] = b[i + 1]
      /\ DOMAIN Tail(b) \subseteq Int
      /\ Tail(b) \in Seq(Item)
  <2>1. Tail(b) \in Seq(Item)
    BY <1>2, TailType
  <2> QED
    BY <1>2, <2>1, TailType
<1>5. \A i \in DOMAIN b : b[i] = n[i + Dealt(s)]
  BY DEF Left
<1> HIDE DEF b, n
<1>6. /\ Dealt(s) \in Nat /\ Dealt(s)' = Dealt(s) + 1 /\ Dealt(s) + 1 \in DOMAIN n
      /\ Head(b) = n[Dealt(s) + 1]
  BY <1>1, <1>2, <1>3, <1>4, <1>5
<1>7. \A i \in DOMAIN Tail(b) : Tail(b)[i] = n[i + Dealt(s)']
  <2> TAKE i \in DOMAIN Tail(b)
  <2>1. i + 1 \in DOMAIN b /\ Tail(b)[i] = b[i + 1] /\ i \in Int
    BY <1>4
  <2>2. b[i + 1] = n[(i + 1) + Dealt(s)]
    BY <1>5, <2>1
  <2>3. (i + 1) + Dealt(s) = i + Dealt(s)'
    BY <1>6, <2>1
  <2> QED
    BY <2>1, <2>2, <2>3
<1>8. Counted(s)' = Counted(s) + 1
  BY PlaceTypes DEF Deals, Counted
<1>9. Counted(s)' = Dealt(s)' /\ Len(Tail(b)) =< Len(n)
  BY <1>1, <1>2, <1>3, <1>4, <1>6, <1>8
<1>10. pc'[s] = "commit" => Tail(b) = <<>>
  <2>1. pc'[s] = "commit" => Len(b) = 1
    BY <1>1, <1>4
  <2>2. Len(b) = 1 => Tail(b) = <<>>
    <3> DEFINE t == Tail(b)
    <3>1. t \in Seq(Item) /\ Len(t) = Len(b) - 1 /\ Len(b) \in Nat
      BY <1>4
    <3> HIDE DEF t
    <3>2. Len(b) = 1 => t = <<>>
      BY <3>1
    <3> QED
      BY <3>2 DEF t
  <2> QED
    BY <2>1, <2>2
<1>11. Left(s)'
  BY <1>1, <1>7, <1>9, <1>10 DEF Left, n
<1> QED
  BY <1>1, <1>2, <1>6, <1>11 DEF Now, b, n

(* The account of an ingestion's items is kept by its own steps,           *)
LEMMA AccountStep ==
  ASSUME TypeInv, NEW s \in Session, job' = job, Account(s), Ledger(s), Ingests(s)
  PROVE  Account(s)'
<1> USE DEF Inside
<1>0. Running(s)' <=> pc'[s] \notin {"start", "done"}
  BY DEF Running
<1>1. CASE Opens(s)
  <2>1. /\ Fresh(s) /\ TakesBatch(s) /\ tally'[s] = ZeroTally
        /\ Turn(s) = 0 /\ pc'[s] = "check"
    BY <1>1, PlaceTypes DEF Account, Opens, TakesBatch, Fresh, Turn
  <2>2. \A i \in DOMAIN later[s] : later[s][i] = job[s].batches[i + 0]
    BY <2>1, PlaceTypes DEF Fresh
  <2>3. Left(s)' /\ Dealt(s)' = 0
    BY <2>1, <2>2, PlaceTypes, NextBatch
  <2> QED
    BY <2>1, <2>3 DEF Account, Accepted
<1>2. CASE Stops(s)
  BY <1>0, <1>2 DEF Account, Stops
<1>3. CASE Admits(s)
  <2>1. /\ Left(s) /\ Accepted(s) /\ pc'[s] \in Inside
    BY <1>3 DEF Account, Admits, Running
  <2>2. Now(s)' = Now(s) /\ Dealt(s)' = Dealt(s) /\ Turn(s)' = Turn(s) /\ Counted(s)' = Counted(s)
    BY <1>3 DEF Now, Dealt, Turn, Counted, Admits, Still
  <2>3. Left(s)'
    BY <1>3, <2>1, <2>2 DEF Left, Admits, Still
  <2>4. Accepted(s)'
    BY <1>3, <2>1, <2>2 DEF Accepted, Admits, Still
  <2> QED
    BY <1>0, <2>1, <2>3, <2>4 DEF Account
<1>4. CASE Loses(s)
  <2>1. Left(s)
    BY <1>4 DEF Account, Loses
  <2>2. Now(s)' = Now(s) /\ Dealt(s)' = Dealt(s) /\ Turn(s)' = Turn(s) /\ Counted(s)' = Counted(s)
    BY <1>4 DEF Now, Dealt, Turn, Counted, Loses, Still
  <2>3. Left(s)'
    BY <1>4, <2>1, <2>2 DEF Left, Loses, Still
  <2> QED
    BY <1>4, <2>3 DEF Account, Accepted, Loses, Running
<1>5. ASSUME NEW f \in {"created", "skipped", "errors"}, Deals(s, f), Adds(s) \/ Settles(s)
      PROVE  Account(s)'
  <2>1. Left(s) /\ Accepted(s) /\ pc'[s] \in {"check", "commit"} /\ pc[s] \in Inside
    BY <1>5 DEF Account, Deals, Running
  <2>2. /\ Left(s)' /\ Now(s)' = Now(s) /\ Dealt(s) \in Nat /\ Dealt(s)' = Dealt(s) + 1
        /\ Head(batch[s]) = Now(s)[Dealt(s) + 1]
    BY <1>5, <2>1, NextOne
  <2>3. ASSUME tx'[s] = "active"
        PROVE  tx[s] = "active" /\ Head(batch[s]).defect # "nul"
    BY <1>5, <2>1, <2>3 DEF Adds, Settles, Accepted
  <2>4. Accepted(s)'
    <3> SUFFICES ASSUME tx'[s] = "active", NEW i \in 1 .. Dealt(s) + 1
                 PROVE  Now(s)[i].defect # "nul"
      BY <2>1, <2>2 DEF Accepted
    <3>1. i \in 1 .. Dealt(s) \/ i = Dealt(s) + 1
      BY <2>2
    <3> QED
      BY <2>1, <2>2, <2>3, <3>1 DEF Accepted
  <2> QED
    BY <2>1, <2>2, <2>4 DEF Account
<1>6. CASE Books(s)
  <2>1. CASE pc'[s] = "done"
    BY <1>0, <2>1 DEF Account
  <2>2. CASE TakesBatch(s)
    <3>1. Left(s) /\ tally'[s] = ZeroTally /\ pc'[s] = "check"
      BY <1>6, <2>2 DEF Account, Books, Running, TakesBatch
    <3>2. Turn(s) \in 0 .. Len(job[s].batches)
      BY <3>1, PlaceTypes DEF Left
    <3>3. Left(s)' /\ Dealt(s)' = 0
      BY <2>2, <3>1, <3>2, NextBatch DEF Left
    <3> QED
      BY <3>1, <3>3 DEF Account, Accepted
  <2> QED
    BY <1>6, <2>1, <2>2 DEF Books
<1>7. CASE LosesAnswer(s)
  BY <1>0, <1>7 DEF Account, LosesAnswer
<1> QED
  BY <1>1, <1>2, <1>3, <1>4, <1>5, <1>6, <1>7 DEF Ledger, Adds, PassesOver

(* and by those of others.                                                 *)
LEMMA AccountOthers ==
  ASSUME NEW s \in Session, NEW t \in Session, t # s, job' = job, Others(s), Bystanders(s),
         Account(t)
  PROVE  Account(t)'
<1>1. /\ pc'[t] = pc[t] /\ tx'[t] = tx[t] /\ batch'[t] = batch[t] /\ later'[t] = later[t]
      /\ tally'[t] = tally[t]
  BY DEF Others, Bystanders
<1> QED
  BY <1>1 DEF Account, Ingests, Running, Fresh, Left, Accepted, Now, Dealt, Turn, Counted

AccountInv == BaseInv /\ \A s \in Session : Account(s)

(* At the start nothing of a job has been taken.                           *)
LEMMA AccountInit == Init => AccountInv
<1> SUFFICES ASSUME Init PROVE AccountInv
  OBVIOUS
<1>1. ASSUME NEW s \in Session
      PROVE  Account(s)
  <2>1. pc[s] = "start" /\ Fresh(s)
    BY DEF Init, Fresh
  <2> QED
    BY <2>1 DEF Account, Running
<1> QED
  BY <1>1, BaseInit DEF AccountInv

LEMMA AccountNext == AccountInv /\ [Next]_vars => AccountInv'
<1> SUFFICES ASSUME BaseInv, \A s \in Session : Account(s), [Next]_vars
             PROVE  \A t \in Session : Account(t)'
  BY BaseNext DEF AccountInv
<1>1. ASSUME NEW s \in Session,
             Moves(s),
             NEW t \in Session
      PROVE  Account(t)'
  <2>1. TypeInv /\ Others(s) /\ Bystanders(s) /\ job' = job
    BY <1>1, StatementSteps, CountsOwn DEF BaseInv, Step, DbStep
  <2>2. CASE t # s
    BY <2>1, <2>2, AccountOthers
  <2>3. CASE t = s /\ Ingests(s)
    <3>1. Ledger(s)
      BY <1>1, <2>1, <2>3, LedgerSteps
    <3> QED
      BY <2>1, <2>3, <3>1, AccountStep
  <2>4. CASE t = s /\ ~Ingests(s)
    BY <2>1, <2>4 DEF Account, Ingests
  <2> QED
    BY <2>2, <2>3, <2>4
<1>2. CASE Waits
  <2>1. UNCHANGED <<job, pc, tx, batch, later, tally>>
    BY <1>2, WaitsKeep
  <2> QED
    BY <2>1 DEF Account, Ingests, Running, Fresh, Left, Accepted, Now, Dealt, Turn, Counted
<1> QED
  BY <1>1, <1>2, NextCases

(* Whatever is refused, found twice, gone or lost while create_iocs_bulk   *)
(* works, each item of the batch it has dealt with is in one of the three  *)
(* counts, and no item is dealt with twice.                                *)
THEOREM ItemsAccountedHolds == Spec => []ItemsAccounted
<1>1. AccountInv => ItemsAccounted
  <2> SUFFICES ASSUME AccountInv, NEW s \in Session, job[s].kind = "bulk", Running(s)
               PROVE  Counted(s) = Dealt(s)
    BY DEF ItemsAccounted, Counted, Dealt, Now, Turn
  <2> QED
    BY DEF AccountInv, Account, Left, Ingests
<1> QED
  BY <1>1, AccountInit, AccountNext, PTL DEF Spec

(* Counting one of finitely many rows more.                                *)
LEMMA OneMore ==
  ASSUME NEW S \in SUBSET RowId, NEW r \in RowId, r \notin S
  PROVE  Cardinality(S \cup {r}) = Cardinality(S) + 1
BY RowIdFinite, FS_AddElement

(* A commit of an ingestion adds the rows it has written where none were.  *)
LEMMA CommitAdds ==
  ASSUME TypeOK, NEW s \in Session, table' = View(s), \A r \in RowId : own[s][r] # NoRow
  PROVE  {r \in RowId : (table[r] = NoRow) # (table'[r] = NoRow)} = Added(s)
<1>1. ASSUME NEW r \in RowId
      PROVE  (table[r] = NoRow) # (table'[r] = NoRow) <=> own[s][r] # Untouched /\ table[r] = NoRow
  BY <1>1 DEF View, TypeOK
<1> QED
  BY <1>1 DEF Added

(* What a session has added stays so while others write, commit and roll   *)
(* back, because it alone holds its rows.                                  *)
LEMMA AddedOthers ==
  ASSUME BaseInv, NEW s \in Session, Step(s), NEW t \in Session, t # s
  PROVE  Added(t)' = Added(t)
<1>1. table' = table \/ Committed(s)
  BY DEF Step, DbStep, Undone, Inserted, Rewritten, Removed, Write
<1>2. ASSUME NEW r \in RowId, own[t][r] # Untouched
      PROVE  table'[r] = table[r]
  <2>1. own[s][r] = Untouched
    BY <1>2 DEF BaseInv, DbInv, RowLocks
  <2>2. CASE Committed(s)
    BY <2>1, <2>2 DEF Committed, View
  <2> QED
    BY <1>1, <2>2
<1>3. own'[t] = own[t]
  BY DEF Step, Others
<1> QED
  BY <1>2, <1>3 DEF Added

(* No row has been added by a session that has written nothing.            *)
LEMMA NoneAdded ==
  ASSUME NEW s \in Session, own[s] = Clean
  PROVE  Added(s) = {} /\ Cardinality(Added(s)) = 0
<1>1. Added(s) = {}
  BY DEF Added, Clean
<1> QED
  BY <1>1, FS_EmptySet

(* An item that the server refuses is the first of its batch to be dealt   *)
(* with in a transaction that is active, so nothing has been counted.      *)
LEMMA NothingCounted ==
  ASSUME TypeInv, NEW s \in Session, NulsFirst(s), job' = job, Left(s), Accepted(s),
         NEW f \in {"created", "skipped", "errors"}, Deals(s, f),
         tx[s] = "active", Head(batch[s]).defect = "nul"
  PROVE  tally[s].created = 0
<1> DEFINE d == Dealt(s)
           n == Now(s)
<1>1. /\ d \in Nat /\ d + 1 \in DOMAIN n /\ Head(batch[s]) = n[d + 1]
      /\ n = job[s].batches[Turn(s)] /\ Turn(s) \in DOMAIN job[s].batches
  BY NextOne DEF Left
<1>2. \A m \in 1 .. d + 1 : n[m].defect = "nul"
  BY <1>1 DEF NulsFirst
<1>3. \A m \in 1 .. d : n[m].defect # "nul"
  BY DEF Accepted
<1> HIDE DEF d, n
<1>4. d = 0
  <2>1. d # 0 => 1 \in 1 .. d /\ 1 \in 1 .. d + 1
    BY <1>1
  <2> QED
    BY <1>2, <1>3, <2>1
<1>5. Counted(s) = 0
  BY <1>4 DEF Left, d
<1> QED
  BY <1>5, PlaceTypes DEF Counted

(* What is counted as created stays what the commit will add,              *)
LEMMA HonestStep ==
  ASSUME BaseInv, TypeInv', NEW s \in Session, NulsFirst(s), Ingests(s), job' = job,
         Account(s), Honest(s), Ledger(s)
  PROVE  Honest(s)'
<1> USE DEF BaseInv, Inside
<1>0. /\ own \in [Session -> [RowId -> Row \cup {NoRow, Untouched}]]
      /\ \A r \in RowId : Clean[r] # NoRow
  BY NullsAssumption DEF TypeInv, TypeOK, Clean
<1>1. /\ CountHonest(s) /\ (pc[s] # "done" => stats[s].created = effect[s])
      /\ \A r \in RowId : own[s][r] # NoRow
      /\ tx[s] # "active" => own[s] = Clean
      /\ Running(s) /\ tx[s] = "active" => tally[s].created = Cardinality(Added(s))
      /\ Running(s) /\ tx[s] = "aborted" => tally[s].created = 0
  BY DEF Honest
<1>2. Running(s)' <=> pc'[s] \notin {"start", "done"}
  BY DEF Running
<1>h. stats'[s].created = effect'[s] => CountHonest(s)'
  BY DEF CountHonest
<1>k. ASSUME Kept(s), Opens(s) \/ Stops(s) \/ Admits(s) \/ Loses(s) \/ Adds(s) \/ PassesOver(s)
      PROVE  stats'[s].created = effect'[s] /\ CountHonest(s)'
  <2>1. pc[s] # "done"
    BY <1>k DEF Opens, Stops, Admits, Loses, Adds, PassesOver, Deals, Running
  <2> QED
    BY <1>1, <1>h, <1>k, <2>1 DEF Kept
<1>3. CASE Kept(s) /\ Opens(s)
  <2>1. own[s] = Clean /\ tx[s] = "active" /\ tally[s].created = 0
    BY <1>3 DEF Unwritten, Reading, Account, Fresh, Opens, ZeroTally, Counter
  <2>2. own'[s] = Clean /\ tx'[s] = "active" /\ tally'[s].created = 0
    BY <1>3, <2>1 DEF Opens
  <2>3. Cardinality(Added(s)') = 0
    <3>1. Added(s)' = {}
      BY <2>2 DEF Added, Clean
    <3> QED
      BY <3>1, FS_EmptySet
  <2> QED
    BY <1>0, <1>1, <1>3, <2>2, <2>3, <1>k DEF Honest, Kept
<1>4. CASE Kept(s) /\ Stops(s)
  BY <1>0, <1>1, <1>2, <1>4, <1>k DEF Honest, Kept, Stops
<1>5. CASE Kept(s) /\ Admits(s)
  <2>1. Added(s)' = Added(s)
    BY <1>5 DEF Added, Kept, Admits
  <2>2. Running(s)
    BY <1>5 DEF Admits, Running
  <2> QED
    BY <1>1, <1>5, <2>1, <2>2, <1>k DEF Honest, Kept, Admits, Still
<1>6. CASE Kept(s) /\ Loses(s)
  BY <1>0, <1>1, <1>6, <1>k DEF Honest, Kept, Loses
<1>7. CASE Kept(s) /\ Adds(s)
  <2>1. PICK w \in Row : own' = [own EXCEPT ![s][nextId] = w]
    BY <1>7 DEF Adds, Write
  <2>2. nextId \in RowId /\ table' = table /\ w # Untouched /\ w # NoRow /\ Running(s)
    BY <1>7, NullsAssumption DEF Adds, Kept, Running
  <2>3. table[nextId] = NoRow /\ own[s][nextId] = Untouched
    BY <2>2, BoundsAssumption DEF DbInv, FreshIds, RowId
  <2>4. Added(s)' = Added(s) \cup {nextId} /\ nextId \notin Added(s)
    BY <1>0, <2>1, <2>2, <2>3 DEF Added
  <2>5. Cardinality(Added(s)') = Cardinality(Added(s)) + 1
    BY <2>2, <2>4, OneMore DEF Added
  <2>6. tally'[s].created = tally[s].created + 1 /\ tx'[s] = "active" /\ tx[s] = "active"
    BY <1>7, PlaceTypes DEF Adds, Deals
  <2> QED
    BY <1>0, <1>1, <1>7, <2>1, <2>2, <2>5, <2>6, <1>k DEF Honest, Kept
<1>8. CASE Kept(s) /\ PassesOver(s)
  <2>1. PICK f \in {"skipped", "errors"} : Deals(s, f)
    BY <1>8 DEF PassesOver
  <2>2. tally'[s].created = tally[s].created /\ Running(s)
    BY <2>1, PlaceTypes DEF Deals, Running
  <2>3. CASE tx'[s] = tx[s] /\ own'[s] = own[s]
    <3>1. Added(s)' = Added(s)
      BY <1>8, <2>3 DEF Added, Kept
    <3> QED
      BY <1>1, <1>8, <2>2, <2>3, <3>1, <1>k DEF Honest, Kept
  <2>4. ASSUME tx'[s] = tx[s], tx[s] = "active", NEW r \in RowId, NEW w \in Row,
               View(s)[r] # NoRow, Write(s, r, w)
        PROVE  Honest(s)'
    <3>1. own' = [own EXCEPT ![s][r] = w] /\ w # Untouched /\ w # NoRow /\ table' = table
      BY <2>4, NullsAssumption DEF Write
    <3>2. table[r] = NoRow => own[s][r] # Untouched
      BY <2>4, ViewUntouched
    <3>3. Added(s)' = Added(s)
      BY <1>0, <3>1, <3>2 DEF Added
    <3> QED
      BY <1>0, <1>1, <1>8, <2>2, <2>4, <3>1, <3>3, <1>k DEF Honest, Kept
  <2>5. CASE /\ tx[s] = "active" /\ tx'[s] = "aborted" /\ own'[s] = Clean
             /\ Head(batch[s]).defect = "nul"
    <3>1. Left(s) /\ Accepted(s)
      BY <2>2 DEF Account
    <3>2. tally[s].created = 0
      BY <2>1, <2>5, <3>1, NothingCounted
    <3> QED
      BY <1>0, <1>1, <1>8, <2>2, <2>5, <3>2, <1>k DEF Honest, Kept
  <2>6. CASE tx'[s] = "deactive" /\ own'[s] = Clean
    BY <1>0, <1>1, <1>8, <2>6, <1>k DEF Honest, Kept
  <2> QED
    BY <1>8, <2>3, <2>4, <2>5, <2>6 DEF PassesOver, Settles
<1>9. CASE Books(s)
  <2>1. /\ Running(s) /\ own'[s] = Clean /\ tx'[s] = "active" /\ tally'[s].created = 0
        /\ tx[s] \in {"active", "aborted"} /\ table' = View(s)
    BY <1>0, <1>9 DEF Books, Committed, Undo, Running, ZeroTally, Counter, TypeInv, TypeOK
  <2>2. {r \in RowId : (table[r] = NoRow) # (table'[r] = NoRow)} = Added(s)
    BY <1>1, <2>1, CommitAdds DEF TypeInv
  <2>3. tally[s].created = Cardinality(Added(s))
    BY <1>1, <2>1, NoneAdded
  <2>4. stats'[s].created = effect'[s]
    BY <1>1, <1>9, <2>2, <2>3 DEF Books
  <2>5. Cardinality(Added(s)') = 0
    <3>1. Added(s)' = {}
      BY <2>1 DEF Added, Clean
    <3> QED
      BY <3>1, FS_EmptySet
  <2> QED
    BY <1>0, <1>h, <2>1, <2>4, <2>5 DEF Honest
<1>10. CASE LosesAnswer(s)
  <2>1. /\ Running(s) /\ ~Running(s)' /\ own'[s] = Clean /\ table' = View(s)
        /\ tx[s] \in {"active", "aborted"} /\ pc[s] = "commit" /\ pc'[s] = "done"
    BY <1>0, <1>10 DEF LosesAnswer, Committed, Undo, Running, TypeInv, TypeOK
  <2>2. {r \in RowId : (table[r] = NoRow) # (table'[r] = NoRow)} = Added(s)
    BY <1>1, <2>1, CommitAdds DEF TypeInv
  <2>3. tally[s].created = Cardinality(Added(s))
    BY <1>1, <2>1, NoneAdded
  <2>4. effect'[s] = stats'[s].created + tally'[s].created
    BY <1>1, <1>10, <2>1, <2>2, <2>3 DEF LosesAnswer
  <2>5. CountHonest(s)'
    BY <1>10, <2>4 DEF CountHonest, LosesAnswer
  <2> QED
    BY <1>0, <2>1, <2>5 DEF Honest
<1> QED
  BY <1>3, <1>4, <1>5, <1>6, <1>7, <1>8, <1>9, <1>10 DEF Ledger

HonestInv == AccountInv /\ \A s \in Session : NulsFirst(s) => Honest(s)

LEMMA HonestHolds == Spec => []HonestInv
<1>1. Init => HonestInv
  <2> SUFFICES ASSUME Init, NEW s \in Session PROVE Honest(s)
    BY AccountInit DEF HonestInv
  <2>1. /\ own[s] = Clean /\ tx[s] = "active" /\ pc[s] = "start" /\ effect[s] = 0
        /\ stats[s].created = 0
    BY DEF Init, ZeroTally, Counter
  <2> QED
    BY <2>1, NullsAssumption DEF Honest, CountHonest, Running, Clean
<1>2. HonestInv /\ [Next]_vars => HonestInv'
  <2> SUFFICES ASSUME HonestInv, [Next]_vars, NEW t \in Session, NulsFirst(t)'
               PROVE  Honest(t)'
    BY AccountNext DEF HonestInv
  <2>1. BaseInv /\ TypeInv /\ TypeInv'
    BY AccountNext DEF HonestInv, AccountInv, BaseInv
  <2>2. ASSUME NEW s \in Session,
               Moves(s)
        PROVE  Honest(t)'
    <3>1. Step(s) /\ Others(s) /\ Bystanders(s) /\ job' = job
      BY <2>1, <2>2, StatementSteps, CountsOwn DEF Step, DbStep
    <3>2. NulsFirst(t) /\ Honest(t) /\ Account(t)
      BY <3>1 DEF NulsFirst, HonestInv, AccountInv
    <3>3. CASE t # s
      <4>1. Added(t)' = Added(t)
        BY <2>1, <3>1, <3>3, AddedOthers
      <4> QED
        BY <3>1, <3>2, <3>3, <4>1 DEF Honest, CountHonest, Ingests, Running, Others, Bystanders
    <3>4. CASE t = s /\ Ingests(s)
      <4>1. Ledger(s)
        BY <2>1, <2>2, <3>4, LedgerSteps
      <4> QED
        BY <2>1, <3>1, <3>2, <3>4, <4>1, HonestStep
    <3>5. CASE t = s /\ ~Ingests(s)
      BY <3>1, <3>5 DEF Honest, Ingests
    <3> QED
      BY <3>3, <3>4, <3>5
  <2>3. CASE Waits
    <3>1. UNCHANGED <<job, pc, tx, own, table, tally, stats, effect, outcome>>
      BY <2>3, WaitsKeep
    <3>2. Honest(t)
      BY <3>1 DEF NulsFirst, HonestInv
    <3> QED
      BY <3>1, <3>2 DEF Honest, CountHonest, Ingests, Running, Added
  <2> QED
    BY <2>2, <2>3, NextCases
<1> QED
  BY <1>1, <1>2, PTL DEF Spec

(* The count of created rows that an ingestion reports is the number of    *)
(* rows its commits added, however it is interrupted and whatever others   *)
(* ingest, unless a batch of its own has an item that can be created       *)
(* before one with a NUL character (crud/iocs.py:121-154), or the answer   *)
(* to a COMMIT is lost: then the rows it does not report are exactly those *)
(* of the one batch the run was committing when it failed or died.         *)
THEOREM OwnCountIsHonest ==
  Spec => [](\A s \in Session : Ingests(s) /\ NulsFirst(s) => CountHonest(s))
<1>1. HonestInv => \A s \in Session : Ingests(s) /\ NulsFirst(s) => CountHonest(s)
  BY DEF HonestInv, Honest
<1> QED
  BY <1>1, HonestHolds, PTL

(* So the counts are honest when no job has such a batch; one that has is  *)
(* how ioc_nul violates the property.                                      *)
COROLLARY CreatedCountIsHonest ==
  Spec => []((\A s \in Session : NulsFirst(s)) => CreatedCountHonest)
<1>1. HonestInv => ((\A s \in Session : NulsFirst(s)) => CreatedCountHonest)
  BY DEF HonestInv, Honest, CreatedCountHonest
<1> QED
  BY <1>1, HonestHolds, PTL
=============================================================================
