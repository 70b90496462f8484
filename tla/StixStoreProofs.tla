--------------------------- MODULE StixStoreProofs ---------------------------
(***************************************************************************)
(* Proofs about StixStore for every number of sessions and jobs, whatever  *)
(* the providers hold, and for every bound on faults.                      *)
(***************************************************************************)
EXTENDS StixStore, FiniteSetTheorems, NaturalsInduction, WellFoundedInduction, TLAPS

-----------------------------------------------------------------------------
(* A non-empty set of numbers has a least one.                             *)
LEMMA LeastNumber ==
  ASSUME NEW T \in SUBSET Nat, T # {}
  PROVE  \E n \in T : \A y \in T : n =< y
<1>1. IsWellFoundedOn(OpToRel(<, Nat), Nat)
  BY NatLessThanWellFounded
<1>2. PICK n \in T : \A y \in T : ~(<<y, n>> \in OpToRel(<, Nat))
  BY <1>1, WFMin
<1>3. ASSUME NEW y \in T PROVE n =< y
  <2>1. y \in Nat /\ n \in Nat
    OBVIOUS
  <2>2. ~(y < n)
    <3>1. ASSUME y < n PROVE <<y, n>> \in OpToRel(<, Nat)
      BY <2>1, <3>1 DEF OpToRel
    <3> QED
      BY <1>2, <3>1
  <2> QED
    BY <2>1, <2>2
<1> QED
  BY <1>3

-----------------------------------------------------------------------------
(***************************************************************************)
(* The inductive invariant.                                                *)
(***************************************************************************)

(* The outcomes of a commit that was carried out.                          *)
Saved == {"ok", "unanswered"}

(* The rows: one for each id; those that a session inserted came with its  *)
(* commit; and what they refer to is there.                                *)
Rows ==
    /\ \A row, other \in table : other.id = row.id => other = row
    /\ \A row \in table : row.by # Past => outcome[row.by] \in Saved
    /\ \A row \in table :
        row.ref # NoRef => Stored(row.ref) \/ (row.by \in Session /\ skipped[row.by])

(* No two sessions have written the same id and not ended.                 *)
Apart == \A s, t \in Session : s # t => wrote[s] \cap wrote[t] = {}

(* Where a session is.                                                     *)
Stage(s) ==
    /\ pc[s] # "done" <=> outcome[s] = "none"
    /\ pc[s] = "fetch" => added[s] = {} /\ changed[s] = {}
    /\ pc[s] = "flush" => bundle[s] = {}

(* The objects to add: as many as are counted as new, and no earlier       *)
(* collection has stored them.                                             *)
Counted(s) ==
    /\ IsFiniteSet(added[s]) /\ tally[s].new = Cardinality(added[s])
    /\ bundle[s] \cap added[s] = {}
    /\ \A o \in added[s] : \A row \in table : row.id = o.id => row.by # Past

(* What the flush has inserted is not stored yet.                          *)
Pending(s) == \A id \in wrote[s] \ changed[s] : ~Stored(id)

(* What an object refers to is in the same bundle or stored, and so is     *)
(* what the cache of malware names promises.                               *)
InBundle(s, id) == \E q \in bundle[s] \cup added[s] : q.id = id
Closed(s) ==
    /\ pc[s] # "done" =>
         \A o \in bundle[s] \cup added[s] :
            o.ref # NoRef => InBundle(s, o.ref) \/ Stored(o.ref) \/ skipped[s]
    /\ pc[s] = "fetch" =>
         \A n \in cache[s] : InBundle(s, Malware(n)) \/ skipped[s]

(* What the ends of a session mean.                                        *)
RowsOf(s) == {row \in table : row.by = s}
Over(s) ==
    /\ outcome[s] = "ok" => tally[s].new = Cardinality(RowsOf(s))
    /\ outcome[s] = "conflict" =>
         \/ \E o \in added[s] : \E row \in table : row.id = o.id /\ row.by # Past
         \/ \E o, q \in added[s] : o # q /\ o.id = q.id

SessionOK(s) == Stage(s) /\ Counted(s) /\ Pending(s) /\ Closed(s) /\ Over(s)
IInv == TypeOK /\ Rows /\ Apart /\ \A s \in Session : SessionOK(s)

-----------------------------------------------------------------------------
(* The ids that are made from names, and what a conversion yields.         *)
LEMMA MalwareIds ==
  ASSUME NEW n \in Name
  PROVE  Malware(n) \in Id /\ Malware(n) \in Ref /\ Malware(n) # NoRef
<1>1. Slug[n] \in Nat \ {0}
  BY SlugAssumption
<1> QED
  BY <1>1 DEF Malware, NoRef, Id, Ref

LEMMA Answers ==
  ASSUME TypeOK, NEW s \in Session, NEW k \in Nat
  PROVE  /\ Held(s) \in Seq(Item) /\ Answer(s, k) \subseteq DOMAIN Held(s)
         /\ \A i \in DOMAIN Held(s) : i \in Nat /\ NameOf(s, i) \in Name \cup {NoName}
<1>1. job[s].kind \in Kind
  BY JobsAssumption DEF TypeOK, Job
<1>2. Held(s) \in Seq(Item)
  BY <1>1, HoldingAssumption DEF TypeOK, Held
<1>3. Answer(s, k) \subseteq DOMAIN Held(s)
  BY DEF Answer, Younger
<1>4. ASSUME NEW i \in DOMAIN Held(s) PROVE i \in Nat /\ NameOf(s, i) \in Name \cup {NoName}
  <2>1. i \in Nat /\ Held(s)[i] \in Item
    BY <1>2
  <2> QED
    BY <2>1 DEF NameOf, Item
<1> QED
  BY <1>2, <1>3, <1>4

LEMMA ConvertHas ==
  ASSUME TypeOK, NEW s \in Session, NEW k \in Nat, NEW S \in SUBSET DOMAIN Held(s)
  PROVE  /\ Convert(s, k, S) \subseteq Object
         /\ \A i \in S : NameOf(s, i) # NoName =>
              \/ NameOf(s, i) \in cache[s]
              \/ \E q \in Convert(s, k, S) : q.id = Malware(NameOf(s, i))
         /\ \A o \in Convert(s, k, S) : o.ref # NoRef =>
              \E i \in S : NameOf(s, i) # NoName /\ o.ref = Malware(NameOf(s, i))
<1> DEFINE items == {[id |-> <<s, k, i>>, ref |-> RefOf(s, i), at |-> <<k, i, 0>>] : i \in S}
           names == {[id |-> Malware(NameOf(s, i)), ref |-> NoRef, at |-> <<k, i, 1>>] :
                       i \in {j \in S : Introduces(s, S, j)}}
<1>1. \A i \in S : i \in Nat /\ NameOf(s, i) \in Name \cup {NoName}
  BY Answers
<1>2. Convert(s, k, S) = items \cup names
  BY DEF Convert
<1>3. ASSUME NEW i \in S
      PROVE  /\ RefOf(s, i) \in Ref
             /\ RefOf(s, i) # NoRef => NameOf(s, i) # NoName /\ RefOf(s, i) = Malware(NameOf(s, i))
  BY <1>1, MalwareIds DEF RefOf, Ref
<1>4. ASSUME NEW o \in items
      PROVE  /\ o \in Object
             /\ o.ref # NoRef => \E i \in S : NameOf(s, i) # NoName /\ o.ref = Malware(NameOf(s, i))
  <2>1. PICK i \in S : o = [id |-> <<s, k, i>>, ref |-> RefOf(s, i), at |-> <<k, i, 0>>]
    OBVIOUS
  <2>2. <<s, k, i>> \in Id /\ <<k, i, 0>> \in Nat \X Nat \X {0, 1}
    BY <1>1 DEF Id
  <2>3. o \in Object /\ o.ref = RefOf(s, i)
    BY <1>3, <2>1, <2>2 DEF Object
  <2> QED
    BY <1>3, <2>3
<1>5. ASSUME NEW o \in names
      PROVE  o \in Object /\ o.ref = NoRef
  <2>1. PICK i \in S :
          /\ Introduces(s, S, i)
          /\ o = [id |-> Malware(NameOf(s, i)), ref |-> NoRef, at |-> <<k, i, 1>>]
    OBVIOUS
  <2>2. NameOf(s, i) \in Name
    BY <1>1, <2>1 DEF Introduces
  <2>3. Malware(NameOf(s, i)) \in Id /\ NoRef \in Ref /\ <<k, i, 1>> \in Nat \X Nat \X {0, 1}
    BY <1>1, <2>2, MalwareIds DEF Ref
  <2> QED
    BY <2>1, <2>3 DEF Object
<1>6. ASSUME NEW i \in S, NameOf(s, i) # NoName, NameOf(s, i) \notin cache[s]
      PROVE  \E q \in names : q.id = Malware(NameOf(s, i))
  <2> DEFINE T == {j \in S : NameOf(s, j) = NameOf(s, i)}
  <2>1. T \in SUBSET Nat /\ T # {}
    BY <1>1
  <2>2. PICK j \in T : \A y \in T : j =< y
    BY <2>1, LeastNumber
  <2>3. \A y \in S : y < j => NameOf(s, y) # NameOf(s, j)
    <3> SUFFICES ASSUME NEW y \in S, y < j, NameOf(s, y) = NameOf(s, j) PROVE FALSE
      OBVIOUS
    <3>1. y \in T
      OBVIOUS
    <3>2. j =< y /\ j \in Nat /\ y \in Nat
      BY <1>1, <2>2, <3>1
    <3> QED
      BY <3>2
  <2>4. Introduces(s, S, j) /\ NameOf(s, j) = NameOf(s, i)
    BY <1>6, <2>3 DEF Introduces
  <2>5. j \in {x \in S : Introduces(s, S, x)}
    BY <2>4
  <2>6. [id |-> Malware(NameOf(s, j)), ref |-> NoRef, at |-> <<k, j, 1>>] \in names
    BY <2>5
  <2> HIDE DEF names
  <2> QED
    BY <2>4, <2>6
<1> HIDE DEF items, names
<1> QED
  BY <1>2, <1>4, <1>5, <1>6

-----------------------------------------------------------------------------
(***************************************************************************)
(* What a step of one session means for the others.                        *)
(***************************************************************************)
Unmoved(t) ==
    /\ pc'[t] = pc[t] /\ cache'[t] = cache[t] /\ bundle'[t] = bundle[t]
    /\ changed'[t] = changed[t] /\ added'[t] = added[t] /\ wrote'[t] = wrote[t]
    /\ tally'[t] = tally[t] /\ skipped'[t] = skipped[t] /\ outcome'[t] = outcome[t]
Adds(s) ==
    /\ table \subseteq table'
    /\ \A row \in table' : row \in table \/ (row.by = s /\ row.id \in wrote[s])

LEMMA StoredStays ==
  ASSUME NEW id, table \subseteq table', Stored(id)
  PROVE  Stored(id)'
BY DEF Stored

LEMMA OthersKeep ==
  ASSUME Apart, NEW s \in Session, NEW t \in Session \ {s}, SessionOK(t), Unmoved(t), Adds(s)
  PROVE  SessionOK(t)'
<1>1. Stage(t)'
  BY DEF SessionOK, Stage, Unmoved
<1>2. Counted(t)'
  <2>1. ASSUME NEW o \in added[t], NEW row \in table', row.id = o.id PROVE row.by # Past
    <3>1. CASE row \in table
      BY <2>1, <3>1 DEF SessionOK, Counted
    <3>2. CASE row.by = s
      BY <3>2, PastAssumption
    <3> QED
      BY <3>1, <3>2 DEF Adds
  <2> QED
    BY <2>1 DEF SessionOK, Counted, Unmoved
<1>3. Pending(t)'
  <2> SUFFICES ASSUME NEW id \in wrote[t] \ changed[t], NEW row \in table', row.id = id PROVE FALSE
    BY DEF Pending, Unmoved, Stored
  <2>1. row \notin table
    BY DEF SessionOK, Pending, Stored
  <2> QED
    BY <2>1 DEF Adds, Apart
<1>4. Closed(t)'
  <2>1. \A id : InBundle(t, id) => InBundle(t, id)'
    BY DEF InBundle, Unmoved
  <2>2. ASSUME pc[t] # "done", NEW o \in bundle[t] \cup added[t], o.ref # NoRef
        PROVE  InBundle(t, o.ref)' \/ Stored(o.ref)' \/ skipped[t]
    <3>1. InBundle(t, o.ref) \/ Stored(o.ref) \/ skipped[t]
      BY <2>2 DEF SessionOK, Closed
    <3> QED
      BY <2>1, <3>1, StoredStays DEF Adds
  <2>3. ASSUME pc[t] = "fetch", NEW n \in cache[t]
        PROVE  InBundle(t, Malware(n))' \/ skipped[t]
    BY <2>1, <2>3 DEF SessionOK, Closed
  <2> QED
    BY <2>2, <2>3 DEF Closed, Unmoved, InBundle, Malware, NoRef
<1>5. Over(t)'
  <2>1. RowsOf(t)' = RowsOf(t)
    <3>1. \A row : row \in table' /\ row.by = t <=> row \in table /\ row.by = t
      BY DEF Adds
    <3> QED
      BY <3>1 DEF RowsOf
  <2>2. table \subseteq table'
    BY DEF Adds
  <2> QED
    BY <2>1, <2>2 DEF SessionOK, Over, Unmoved
<1> QED
  BY <1>1, <1>2, <1>3, <1>4, <1>5 DEF SessionOK

LEMMA OneMoves ==
  ASSUME IInv, NEW s \in Session, TypeOK', Rows', Apart', SessionOK(s)',
         \A t \in Session \ {s} : Unmoved(t), Adds(s)
  PROVE  IInv'
<1>1. ASSUME NEW t \in Session PROVE SessionOK(t)'
  <2>1. CASE t = s
    BY <2>1
  <2>2. CASE t # s
    BY <2>2, OthersKeep DEF IInv
  <2> QED
    BY <2>1, <2>2
<1> QED
  BY <1>1 DEF IInv

(* A step that does not commit: the rows are what they were.               *)
LEMMA RowsStay ==
  ASSUME TypeOK, Rows, UNCHANGED table, \A t \in Session : outcome[t] \in Saved => outcome'[t] \in Saved,
         \A t \in Session : skipped[t] => skipped'[t]
  PROVE  Rows' /\ \A s \in Session : Adds(s)
<1>1. \A row \in table : row.by \in Session \cup {Past}
  BY DEF TypeOK
<1>2. \A id : Stored(id)' <=> Stored(id)
  BY DEF Stored
<1>3. /\ \A row, other \in table' : other.id = row.id => other = row
      /\ \A row \in table' : row.by # Past => outcome'[row.by] \in Saved
  BY <1>1 DEF Rows
<1>4. ASSUME NEW row \in table, row.ref # NoRef
      PROVE  Stored(row.ref)' \/ (row.by \in Session /\ skipped'[row.by])
  BY <1>2, <1>4 DEF Rows
<1> QED
  BY <1>3, <1>4 DEF Rows, Adds, NoRef

-----------------------------------------------------------------------------
(***************************************************************************)
(* The steps.                                                              *)
(***************************************************************************)

(* Initially the table has what earlier collections stored, nothing else.  *)
LEMMA Starts == Init => IInv
<1> SUFFICES ASSUME Init PROVE IInv
  OBVIOUS
<1> USE DEF Init
<1>1. PICK known \in KnownSets :
        table = {[id |-> <<Past, 0, m>>, ref |-> NoRef, by |-> Past] : m \in known}
  OBVIOUS
<1>2. ASSUME NEW row \in table
      PROVE  /\ row \in [id : Id, ref : Ref, by : Session \cup {Past}]
             /\ row.by = Past /\ row.ref = NoRef
  <2>1. PICK m \in known : row = [id |-> <<Past, 0, m>>, ref |-> NoRef, by |-> Past]
    BY <1>1
  <2>2. m \in Nat
    BY KnownAssumption
  <2>3. <<Past, 0, m>> \in Id /\ NoRef \in Ref
    BY <2>2 DEF Id, Ref
  <2> QED
    BY <2>1, <2>3
<1>3. TypeOK
  <2>1. table \subseteq [id : Id, ref : Ref, by : Session \cup {Past}]
    BY <1>2
  <2>2. tally \in [Session -> [new : Nat, updated : Nat]]
    OBVIOUS
  <2> QED
    BY <2>1, <2>2, BoundsAssumption DEF TypeOK
<1>4. Rows
  <2>1. ASSUME NEW row \in table, NEW other \in table, other.id = row.id PROVE other = row
    BY <1>1, <2>1
  <2> QED
    BY <1>2, <2>1 DEF Rows
<1>5. Apart
  BY DEF Apart
<1>6. ASSUME NEW s \in Session PROVE SessionOK(s)
  <2>1. IsFiniteSet(added[s]) /\ tally[s].new = Cardinality(added[s])
    BY FS_EmptySet
  <2> QED
    BY <2>1 DEF SessionOK, Stage, Counted, Pending, Closed, Over
<1> QED
  BY <1>3, <1>4, <1>5, <1>6 DEF IInv

LEMMA Advanced ==
  ASSUME TypeOK, NEW s \in Session, Advance(s)
  PROVE  /\ pc' \in [Session -> {"fetch", "select", "flush", "done"}]
         /\ pc'[s] \in {"fetch", "select"} /\ request' \in [Session -> Nat]
         /\ \A t \in Session \ {s} : pc'[t] = pc[t]
<1>1. /\ pc \in [Session -> {"fetch", "select", "flush", "done"}]
      /\ request \in [Session -> Nat]
  BY DEF TypeOK
<1>2. request' \in [Session -> Nat]
  BY <1>1 DEF Advance
<1> QED
  BY <1>1, <1>2 DEF Advance

(* While nothing is written, each id has no more than one writer.          *)
LEMMA StillApart ==
  ASSUME Apart, \A t \in Session : wrote'[t] \subseteq wrote[t]
  PROVE  Apart'
BY DEF Apart

(* An answer: its objects come to the bundle with what they refer to.      *)
LEMMA FetchKeeps ==
  ASSUME IInv, NEW s \in Session, Fetch(s), UNCHANGED idle
  PROVE  IInv'
<1>0. PICK k, S, new : k = request[s] /\ S = Answer(s, k) /\ new = Convert(s, k, S)
  OBVIOUS
<1>1. TypeOK /\ Rows /\ Apart /\ SessionOK(s) /\ pc[s] = "fetch"
  BY DEF IInv, Fetch
<1>2. k \in Nat
  BY <1>0, <1>1 DEF TypeOK
<1>3. S \in SUBSET DOMAIN Held(s) /\ \A i \in S : NameOf(s, i) \in Name \cup {NoName}
  BY <1>0, <1>1, <1>2, Answers
<1>4. /\ new \subseteq Object
      /\ \A i \in S : NameOf(s, i) # NoName =>
            NameOf(s, i) \in cache[s] \/ \E q \in new : q.id = Malware(NameOf(s, i))
      /\ \A o \in new : o.ref # NoRef =>
            \E i \in S : NameOf(s, i) # NoName /\ o.ref = Malware(NameOf(s, i))
  BY <1>0, <1>1, <1>2, <1>3, ConvertHas
<1>5. /\ bundle' = [bundle EXCEPT ![s] = @ \cup new]
      /\ cache' = [cache EXCEPT ![s] = IF job[s].kind = "history" THEN @ \cup Names(s, S) ELSE @]
      /\ Advance(s)
      /\ UNCHANGED <<table, job, holding, changed, added, wrote, tally, skipped, outcome, faults>>
  BY <1>0 DEF Fetch, input, saving
<1>6. Names(s, S) \subseteq Name
  BY <1>3 DEF Names
<1>7. bundle \in [Session -> SUBSET Object] /\ cache \in [Session -> SUBSET Name]
  BY <1>1 DEF TypeOK
<1>8. /\ bundle' \in [Session -> SUBSET Object] /\ bundle'[s] = bundle[s] \cup new
      /\ \A t \in Session \ {s} : bundle'[t] = bundle[t]
  BY <1>4, <1>5, <1>7
<1>9. /\ cache' \in [Session -> SUBSET Name]
      /\ cache'[s] \subseteq cache[s] \cup Names(s, S)
      /\ \A t \in Session \ {s} : cache'[t] = cache[t]
  BY <1>5, <1>6, <1>7
<1>10. /\ pc' \in [Session -> {"fetch", "select", "flush", "done"}]
       /\ pc'[s] \in {"fetch", "select"} /\ request' \in [Session -> Nat]
       /\ \A t \in Session \ {s} : pc'[t] = pc[t]
  BY <1>1, <1>5, Advanced
<1>11. outcome[s] = "none" /\ added[s] = {} /\ changed[s] = {} /\ wrote[s] = {}
  BY <1>1 DEF SessionOK, Stage, TypeOK
<1>12. TypeOK'
  <2>1. \A t \in Session : wrote[t] # {} => pc'[t] = "flush"
    <3> TAKE t \in Session
    <3>1. wrote[t] # {} => pc[t] = "flush"
      BY <1>1 DEF TypeOK
    <3> QED
      BY <1>10, <1>11, <3>1
  <2>2. \A t \in Session : \A id \in changed[t] : Stored(id)'
    BY <1>1, <1>5 DEF TypeOK, Stored
  <2> QED
    BY <1>1, <1>5, <1>8, <1>9, <1>10, <2>1, <2>2 DEF TypeOK
<1>13. Rows' /\ Adds(s)
  BY <1>1, <1>5, RowsStay
<1>14. Apart'
  BY <1>1, <1>5, StillApart
<1>15. Stage(s)'
  BY <1>5, <1>10, <1>11 DEF Stage
<1>16. Counted(s)' /\ Pending(s)' /\ Over(s)'
  <2>1. IsFiniteSet(added[s]) /\ tally[s].new = Cardinality(added[s])
    BY <1>1 DEF SessionOK, Counted
  <2> QED
    BY <1>5, <1>11, <2>1 DEF Counted, Pending, Over
<1>17. Closed(s)'
  <2>1. \A id : InBundle(s, id) => InBundle(s, id)'
    BY <1>5, <1>8 DEF InBundle
  <2>2. \A q \in new : InBundle(s, q.id)'
    BY <1>8 DEF InBundle
  <2>3. ASSUME NEW n \in cache[s] PROVE InBundle(s, Malware(n))' \/ skipped[s]
    BY <1>1, <2>1 DEF SessionOK, Closed
  <2>4. ASSUME NEW i \in S, NameOf(s, i) # NoName
        PROVE  \E n \in Name : n = NameOf(s, i) /\ (InBundle(s, Malware(n))' \/ skipped[s])
    <3>1. PICK n : n = NameOf(s, i)
      OBVIOUS
    <3>2. n \in Name
      BY <1>3, <2>4, <3>1
    <3>3. CASE n \in cache[s]
      BY <2>3, <3>1, <3>2, <3>3
    <3>4. CASE \E q \in new : q.id = Malware(n)
      BY <2>2, <3>1, <3>2, <3>4
    <3> QED
      BY <1>4, <2>4, <3>1, <3>3, <3>4
  <2>5. ASSUME NEW o \in bundle'[s] \cup added[s], o.ref # NoRef
        PROVE  InBundle(s, o.ref)' \/ Stored(o.ref)' \/ skipped[s]
    <3>1. CASE o \in bundle[s]
      <4>1. InBundle(s, o.ref) \/ Stored(o.ref) \/ skipped[s]
        BY <1>1, <2>5, <3>1 DEF SessionOK, Closed
      <4> QED
        BY <1>5, <2>1, <4>1 DEF Stored
    <3>2. CASE o \in new
      <4>1. PICK i \in S : NameOf(s, i) # NoName /\ o.ref = Malware(NameOf(s, i))
        BY <1>4, <2>5, <3>2
      <4>2. \E n \in Name : o.ref = Malware(n) /\ (InBundle(s, Malware(n))' \/ skipped[s])
        BY <2>4, <4>1
      <4> QED
        BY <4>2
    <3> QED
      BY <1>8, <1>11, <3>1, <3>2
  <2>6. ASSUME NEW n \in cache'[s] PROVE InBundle(s, Malware(n))' \/ skipped[s]
    <3>1. CASE n \in cache[s]
      BY <2>3, <3>1
    <3>2. CASE n \in Names(s, S)
      <4>1. PICK i \in S : n = NameOf(s, i) /\ n # NoName
        BY <3>2 DEF Names
      <4> QED
        BY <2>4, <4>1
    <3> QED
      BY <1>9, <3>1, <3>2
  <2> QED
    BY <1>5, <2>5, <2>6 DEF Closed, NoRef, Malware
<1>18. \A t \in Session \ {s} : Unmoved(t)
  BY <1>5, <1>8, <1>9, <1>10 DEF Unmoved
<1> QED
  BY <1>12, <1>13, <1>14, <1>15, <1>16, <1>17, <1>18, OneMoves DEF SessionOK

(* A session ends without a commit.                                        *)
LEMMA EndKeeps ==
  ASSUME IInv, NEW s \in Session, pc[s] # "done",
         NEW how \in {"failed", "conflict", "deadlock"}, End(s, how),
         UNCHANGED idle, UNCHANGED <<table, input, request, cache, bundle, changed, added, tally, skipped>>,
         faults' \in 0 .. MaxFaults,
         how = "conflict" =>
            \/ \E o \in added[s] : \E row \in table : row.id = o.id /\ row.by # Past
            \/ \E o, q \in added[s] : o # q /\ o.id = q.id
  PROVE  IInv'
<1>1. TypeOK /\ Rows /\ Apart /\ SessionOK(s) /\ outcome[s] = "none"
  BY DEF IInv, SessionOK, Stage
<1>2. /\ pc \in [Session -> {"fetch", "select", "flush", "done"}]
      /\ outcome \in [Session -> {"none", "ok", "unanswered", "failed", "conflict", "deadlock"}]
      /\ wrote \in [Session -> SUBSET Id]
      /\ \A t \in Session : wrote[t] # {} => pc[t] = "flush"
  BY <1>1 DEF TypeOK
<1>3. /\ pc' \in [Session -> {"fetch", "select", "flush", "done"}] /\ pc'[s] = "done"
      /\ \A t \in Session \ {s} : pc'[t] = pc[t]
  BY <1>2 DEF End
<1>4. /\ outcome' \in [Session -> {"none", "ok", "unanswered", "failed", "conflict", "deadlock"}]
      /\ outcome'[s] = how
      /\ \A t \in Session \ {s} : outcome'[t] = outcome[t]
  BY <1>2 DEF End
<1>5. /\ wrote' \in [Session -> SUBSET Id] /\ wrote'[s] = {}
      /\ \A t \in Session \ {s} : wrote'[t] = wrote[t]
  BY <1>2 DEF End
<1>6. TypeOK'
  <2>1. \A t \in Session : wrote'[t] # {} => pc'[t] = "flush"
    BY <1>2, <1>3, <1>5
  <2>2. \A t \in Session : \A id \in changed[t] : Stored(id)'
    BY <1>1 DEF TypeOK, Stored
  <2> QED
    BY <1>1, <1>3, <1>4, <1>5, <2>1, <2>2 DEF TypeOK, input
<1>7. Rows' /\ Adds(s)
  <2>1. \A t \in Session : outcome[t] \in Saved => outcome'[t] \in Saved
    BY <1>1, <1>4 DEF Saved
  <2> QED
    BY <1>1, <2>1, RowsStay
<1>8. Apart'
  <2>1. \A t \in Session : wrote'[t] \subseteq wrote[t]
    BY <1>5
  <2> QED
    BY <1>1, <2>1, StillApart
<1>9. Stage(s)' /\ Pending(s)' /\ Closed(s)' /\ Over(s)'
  BY <1>3, <1>4, <1>5 DEF Stage, Pending, Closed, Over
<1>10. Counted(s)'
  BY <1>1 DEF SessionOK, Counted
<1>11. \A t \in Session \ {s} : Unmoved(t)
  BY <1>3, <1>4, <1>5 DEF Unmoved
<1> QED
  BY <1>6, <1>7, <1>8, <1>9, <1>10, <1>11, OneMoves DEF SessionOK

(* A chunk of the history that is skipped, and OTX's early end.            *)
LEMMA SkipKeeps ==
  ASSUME IInv, NEW s \in Session, pc[s] = "fetch",
         UNCHANGED idle,
         \/ /\ pc' = [pc EXCEPT ![s] = "select"] /\ UNCHANGED <<request, cache, skipped>>
         \/ /\ Advance(s) /\ skipped' = [skipped EXCEPT ![s] = TRUE]
            /\ cache' \in [Session -> SUBSET Name]
            /\ \A t \in Session \ {s} : cache'[t] = cache[t],
         UNCHANGED <<table, input, bundle, changed, added, wrote, tally, outcome>>,
         faults' \in 0 .. MaxFaults
  PROVE  IInv'
<1>1. TypeOK /\ Rows /\ Apart /\ SessionOK(s)
  BY DEF IInv
<1>2. /\ pc \in [Session -> {"fetch", "select", "flush", "done"}]
      /\ skipped \in [Session -> BOOLEAN] /\ cache \in [Session -> SUBSET Name]
      /\ request \in [Session -> Nat]
  BY <1>1 DEF TypeOK
<1>3. /\ pc' \in [Session -> {"fetch", "select", "flush", "done"}]
      /\ pc'[s] \in {"fetch", "select"}
      /\ request' \in [Session -> Nat] /\ cache' \in [Session -> SUBSET Name]
      /\ \A t \in Session \ {s} : pc'[t] = pc[t] /\ cache'[t] = cache[t]
  <2>1. CASE pc' = [pc EXCEPT ![s] = "select"] /\ UNCHANGED <<request, cache, skipped>>
    BY <1>2, <2>1
  <2>2. CASE /\ Advance(s)
             /\ cache' \in [Session -> SUBSET Name]
             /\ \A t \in Session \ {s} : cache'[t] = cache[t]
    BY <1>1, <2>2, Advanced
  <2> QED
    BY <2>1, <2>2
<1>4. /\ skipped' \in [Session -> BOOLEAN]
      /\ \A t \in Session \ {s} : skipped'[t] = skipped[t]
      /\ skipped'[s] \/ (pc'[s] = "select" /\ skipped'[s] = skipped[s])
  <2>1. CASE pc' = [pc EXCEPT ![s] = "select"] /\ UNCHANGED <<request, cache, skipped>>
    BY <1>2, <2>1
  <2>2. CASE skipped' = [skipped EXCEPT ![s] = TRUE]
    <3>1. skipped' \in [Session -> BOOLEAN] /\ skipped'[s] = TRUE
      BY <1>2, <2>2
    <3>2. \A t \in Session \ {s} : skipped'[t] = skipped[t]
      BY <1>2, <2>2
    <3> QED
      BY <3>1, <3>2
  <2> QED
    BY <2>1, <2>2
<1>5. outcome[s] = "none" /\ added[s] = {} /\ changed[s] = {} /\ wrote[s] = {}
  BY <1>1 DEF SessionOK, Stage, TypeOK
<1>6. TypeOK'
  <2>1. \A t \in Session : wrote[t] # {} => pc'[t] = "flush"
    <3> TAKE t \in Session
    <3>1. wrote[t] # {} => pc[t] = "flush"
      BY <1>1 DEF TypeOK
    <3> QED
      BY <1>3, <1>5, <3>1
  <2>2. \A t \in Session : \A id \in changed[t] : Stored(id)'
    BY <1>1 DEF TypeOK, Stored
  <2> QED
    BY <1>1, <1>3, <1>4, <2>1, <2>2 DEF TypeOK, input
<1>7. \A t \in Session : skipped[t] => skipped'[t]
  BY <1>4
<1>8. Rows' /\ Adds(s) /\ Apart'
  BY <1>1, <1>7, RowsStay, StillApart
<1>9. Stage(s)'
  BY <1>3, <1>5 DEF Stage
<1>10. Counted(s)' /\ Pending(s)' /\ Over(s)'
  <2>1. IsFiniteSet(added[s]) /\ tally[s].new = Cardinality(added[s])
    BY <1>1 DEF SessionOK, Counted
  <2> QED
    BY <1>5, <2>1 DEF Counted, Pending, Over
<1>11. Closed(s)'
  <2>1. CASE skipped'[s]
    BY <2>1 DEF Closed
  <2>2. CASE pc'[s] = "select" /\ skipped'[s] = skipped[s]
    <3>1. ASSUME NEW o \in bundle[s] \cup added[s], o.ref # NoRef
          PROVE  InBundle(s, o.ref)' \/ Stored(o.ref)' \/ skipped[s]
      <4>1. InBundle(s, o.ref) \/ Stored(o.ref) \/ skipped[s]
        BY <1>1, <3>1 DEF SessionOK, Closed
      <4> QED
        BY <4>1 DEF Stored, InBundle
    <3> QED
      BY <2>2, <3>1 DEF Closed, NoRef
  <2> QED
    BY <1>4, <2>1, <2>2
<1>12. \A t \in Session \ {s} : Unmoved(t)
  BY <1>3, <1>4 DEF Unmoved
<1> QED
  BY <1>6, <1>8, <1>9, <1>10, <1>11, <1>12, OneMoves DEF SessionOK

LEMMA FetchFailsKeeps ==
  ASSUME IInv, NEW s \in Session, FetchFails(s), UNCHANGED idle
  PROVE  IInv'
<1>1. TypeOK /\ pc[s] = "fetch"
  BY DEF IInv, FetchFails
<1>2. faults' \in 0 .. MaxFaults
  BY <1>1, BoundsAssumption DEF FetchFails, Fault, TypeOK
<1>3. UNCHANGED <<table, input, bundle, changed, added, tally>>
  BY DEF FetchFails
<1>4. CASE job[s].kind \in {"urlhaus", "current"}
  <2>1. End(s, "failed") /\ UNCHANGED <<request, cache, skipped>>
    BY <1>4 DEF FetchFails
  <2> QED
    BY <1>1, <1>2, <1>3, <2>1, EndKeeps
<1>5. CASE job[s].kind = "otx"
  <2>1. /\ pc' = [pc EXCEPT ![s] = "select"]
        /\ UNCHANGED <<request, cache, skipped, wrote, outcome>>
    BY <1>5 DEF FetchFails
  <2> QED
    BY <1>1, <1>2, <1>3, <2>1, SkipKeeps
<1>6. CASE job[s].kind \notin {"urlhaus", "current", "otx"}
  <2>0. PICK S : S = Answer(s, request[s])
    OBVIOUS
  <2>1. /\ Advance(s) /\ skipped' = [skipped EXCEPT ![s] = TRUE]
        /\ cache' = [cache EXCEPT ![s] =
                      IF faults' = faults THEN @ \cup Names(s, Before(s, S)) ELSE @]
        /\ UNCHANGED <<wrote, outcome>>
    BY <1>6, <2>0 DEF FetchFails
  <2>2. cache \in [Session -> SUBSET Name] /\ request[s] \in Nat
    BY <1>1 DEF TypeOK
  <2>3. Names(s, Before(s, S)) \subseteq Name
    BY <1>1, <2>0, <2>2, Answers DEF Names, Before
  <2>4. /\ cache' \in [Session -> SUBSET Name]
        /\ \A t \in Session \ {s} : cache'[t] = cache[t]
    BY <2>1, <2>2, <2>3
  <2> QED
    BY <1>1, <1>2, <1>3, <2>1, <2>4, SkipKeeps
<1> QED
  BY <1>4, <1>5, <1>6

(* A look-up: what is dropped from the bundle is stored.                   *)
LEMMA SelectKeeps ==
  ASSUME IInv, NEW s \in Session, Select(s), UNCHANGED idle
  PROVE  IInv'
<1>1. TypeOK /\ Rows /\ Apart /\ SessionOK(s) /\ pc[s] = "select"
  BY DEF IInv, Select
<1>2. PICK o \in First(bundle[s]) :
        /\ bundle' = [bundle EXCEPT ![s] = @ \ {o}]
        /\ IF Stored(o.id)
           THEN /\ changed' = [changed EXCEPT ![s] = @ \cup {o.id}]
                /\ tally' = [tally EXCEPT ![s].updated = @ + 1]
                /\ added' = added
           ELSE /\ added' = [added EXCEPT ![s] = @ \cup {o}]
                /\ tally' = [tally EXCEPT ![s].new = @ + 1]
                /\ changed' = changed
  BY DEF Select
<1>3. UNCHANGED <<table, job, holding, pc, request, cache, skipped, wrote, outcome, faults>>
  BY DEF Select, input, collecting
<1>4. /\ bundle \in [Session -> SUBSET Object] /\ added \in [Session -> SUBSET Object]
      /\ changed \in [Session -> SUBSET Id]
      /\ tally \in [Session -> [new : Nat, updated : Nat]]
  BY <1>1 DEF TypeOK
<1>5. o \in bundle[s] /\ o \in Object /\ o.id \in Id
  <2>1. o \in bundle[s] /\ o \in Object
    BY <1>4 DEF First
  <2> QED
    BY <2>1 DEF Object
<1>6. /\ bundle' \in [Session -> SUBSET Object] /\ bundle'[s] = bundle[s] \ {o}
      /\ \A t \in Session \ {s} : bundle'[t] = bundle[t]
  BY <1>2, <1>4
<1>7. wrote[s] = {} /\ outcome[s] = "none"
  BY <1>1 DEF SessionOK, Stage, TypeOK
<1>8. /\ IsFiniteSet(added[s]) /\ tally[s].new = Cardinality(added[s]) /\ tally[s].new \in Nat
      /\ bundle[s] \cap added[s] = {}
      /\ \A q \in added[s] : \A row \in table : row.id = q.id => row.by # Past
  BY <1>1, <1>4 DEF SessionOK, Counted
<1>9. Rows' /\ Adds(s) /\ Apart'
  BY <1>1, <1>3, RowsStay, StillApart
<1>10. Stage(s)' /\ Pending(s)' /\ Over(s)'
  BY <1>1, <1>3, <1>7 DEF SessionOK, Stage, Pending, Over
<1>11. CASE Stored(o.id)
  <2>1. /\ changed' = [changed EXCEPT ![s] = @ \cup {o.id}]
        /\ tally' = [tally EXCEPT ![s].updated = @ + 1] /\ added' = added
    BY <1>2, <1>11
  <2>2. /\ changed' \in [Session -> SUBSET Id] /\ changed'[s] = changed[s] \cup {o.id}
        /\ \A t \in Session \ {s} : changed'[t] = changed[t]
    BY <1>4, <1>5, <2>1
  <2>3. /\ tally' \in [Session -> [new : Nat, updated : Nat]] /\ tally'[s].new = tally[s].new
        /\ \A t \in Session \ {s} : tally'[t] = tally[t]
    BY <1>4, <2>1
  <2>4. \A t \in Session : \A id \in changed'[t] : Stored(id)'
    <3>1. \A t \in Session : \A id \in changed'[t] : id \in changed[t] \/ id = o.id
      BY <2>2
    <3> QED
      BY <1>1, <1>3, <1>11, <3>1 DEF TypeOK, Stored
  <2>5. TypeOK'
    BY <1>1, <1>3, <1>4, <1>6, <2>1, <2>2, <2>3, <2>4 DEF TypeOK
  <2>6. Counted(s)'
    BY <1>3, <1>6, <1>8, <2>1, <2>3 DEF Counted
  <2>7. Closed(s)'
    <3>1. \A id : InBundle(s, id) => InBundle(s, id)' \/ Stored(id)'
      BY <1>3, <1>6, <1>11, <2>1 DEF InBundle, Stored
    <3>2. ASSUME NEW q \in bundle'[s] \cup added'[s], q.ref # NoRef
          PROVE  InBundle(s, q.ref)' \/ Stored(q.ref)' \/ skipped[s]
      <4>1. q \in bundle[s] \cup added[s]
        BY <1>6, <2>1
      <4>2. InBundle(s, q.ref) \/ Stored(q.ref) \/ skipped[s]
        BY <1>1, <3>2, <4>1 DEF SessionOK, Closed
      <4> QED
        BY <1>3, <3>1, <4>2 DEF Stored
    <3> QED
      BY <1>1, <1>3, <3>2 DEF Closed, NoRef
  <2>8. \A t \in Session \ {s} : Unmoved(t)
    BY <1>3, <1>6, <2>1, <2>2, <2>3 DEF Unmoved
  <2> QED
    BY <1>9, <1>10, <2>5, <2>6, <2>7, <2>8, OneMoves DEF SessionOK
<1>12. CASE ~Stored(o.id)
  <2>1. /\ added' = [added EXCEPT ![s] = @ \cup {o}]
        /\ tally' = [tally EXCEPT ![s].new = @ + 1] /\ changed' = changed
    BY <1>2, <1>12
  <2>2. /\ added' \in [Session -> SUBSET Object] /\ added'[s] = added[s] \cup {o}
        /\ \A t \in Session \ {s} : added'[t] = added[t]
    BY <1>4, <1>5, <2>1
  <2>3. /\ tally' \in [Session -> [new : Nat, updated : Nat]] /\ tally'[s].new = tally[s].new + 1
        /\ \A t \in Session \ {s} : tally'[t] = tally[t]
    BY <1>4, <2>1
  <2>4. \A t \in Session : \A id \in changed[t] : Stored(id)'
    BY <1>1, <1>3 DEF TypeOK, Stored
  <2>5. TypeOK'
    BY <1>1, <1>3, <1>6, <2>1, <2>2, <2>3, <2>4 DEF TypeOK
  <2>6. Counted(s)'
    <3>1. o \notin added[s]
      BY <1>5, <1>8
    <3>2. IsFiniteSet(added'[s]) /\ Cardinality(added'[s]) = Cardinality(added[s]) + 1
      BY <1>8, <2>2, <3>1, FS_AddElement
    <3>3. \A row \in table : row.id # o.id
      BY <1>12 DEF Stored
    <3>4. bundle'[s] \cap added'[s] = {}
      BY <1>6, <1>8, <2>2
    <3>5. \A q \in added'[s] : \A row \in table : row.id = q.id => row.by # Past
      BY <1>8, <2>2, <3>3
    <3> QED
      BY <1>3, <1>8, <2>3, <3>2, <3>4, <3>5 DEF Counted
  <2>7. Closed(s)'
    <3>1. bundle'[s] \cup added'[s] = bundle[s] \cup added[s]
      BY <1>5, <1>6, <2>2
    <3>2. \A id : InBundle(s, id) => InBundle(s, id)'
      BY <3>1 DEF InBundle
    <3>3. ASSUME NEW q \in bundle'[s] \cup added'[s], q.ref # NoRef
          PROVE  InBundle(s, q.ref)' \/ Stored(q.ref)' \/ skipped[s]
      <4>1. InBundle(s, q.ref) \/ Stored(q.ref) \/ skipped[s]
        BY <1>1, <3>1, <3>3 DEF SessionOK, Closed
      <4> QED
        BY <1>3, <3>2, <4>1 DEF Stored
    <3> QED
      BY <1>1, <1>3, <3>3 DEF Closed, NoRef
  <2>8. \A t \in Session \ {s} : Unmoved(t)
    BY <1>3, <1>6, <2>1, <2>2, <2>3 DEF Unmoved
  <2> QED
    BY <1>9, <1>10, <2>5, <2>6, <2>7, <2>8, OneMoves DEF SessionOK
<1> QED
  BY <1>11, <1>12

LEMMA CommitBeginsKeeps ==
  ASSUME IInv, NEW s \in Session, CommitBegins(s), UNCHANGED idle
  PROVE  IInv'
<1>1. TypeOK /\ Rows /\ Apart /\ SessionOK(s) /\ pc[s] = "select" /\ bundle[s] = {}
  BY DEF IInv, CommitBegins
<1>2. /\ pc' = [pc EXCEPT ![s] = "flush"]
      /\ UNCHANGED <<table, job, holding, request, cache, skipped, bundle, changed, added,
                     wrote, tally, outcome, faults>>
  BY DEF CommitBegins, input, collecting, saving
<1>3. /\ pc' \in [Session -> {"fetch", "select", "flush", "done"}] /\ pc'[s] = "flush"
      /\ \A t \in Session \ {s} : pc'[t] = pc[t]
  BY <1>1, <1>2 DEF TypeOK
<1>4. TypeOK'
  <2>1. \A t \in Session : wrote[t] # {} => pc'[t] = "flush"
    BY <1>1, <1>3 DEF TypeOK
  <2>2. \A t \in Session : \A id \in changed[t] : Stored(id)'
    BY <1>1, <1>2 DEF TypeOK, Stored
  <2> QED
    BY <1>1, <1>2, <1>3, <2>1, <2>2 DEF TypeOK
<1>5. Rows' /\ Adds(s) /\ Apart'
  BY <1>1, <1>2, RowsStay, StillApart
<1>6. Stage(s)'
  BY <1>1, <1>2, <1>3 DEF SessionOK, Stage
<1>7. Counted(s)' /\ Pending(s)' /\ Over(s)'
  BY <1>1, <1>2 DEF SessionOK, Counted, Pending, Over, Stored, RowsOf
<1>8. Closed(s)'
  <2>1. \A id : InBundle(s, id)' <=> InBundle(s, id)
    BY <1>2 DEF InBundle
  <2>2. \A id : Stored(id)' <=> Stored(id)
    BY <1>2 DEF Stored
  <2> QED
    BY <1>1, <1>2, <1>3, <2>1, <2>2 DEF SessionOK, Closed, NoRef
<1>9. \A t \in Session \ {s} : Unmoved(t)
  BY <1>2, <1>3 DEF Unmoved
<1> QED
  BY <1>4, <1>5, <1>6, <1>7, <1>8, <1>9, OneMoves DEF SessionOK

(* A statement of the flush: its ids are nobody else's, and those that are *)
(* inserted are not stored.                                                *)
LEMMA WriteKeeps ==
  ASSUME IInv, NEW s \in Session, Write(s), UNCHANGED idle
  PROVE  IInv'
<1>0. PICK ids : ids = ToWrite(s)
  OBVIOUS
<1>1. TypeOK /\ Rows /\ Apart /\ SessionOK(s) /\ pc[s] = "flush"
  BY DEF IInv, Write
<1>2. /\ WaitsFor(s) = {} /\ ~Conflict(s) /\ wrote' = [wrote EXCEPT ![s] = @ \cup ids]
      /\ UNCHANGED <<table, job, holding, pc, request, cache, skipped, bundle, changed, added,
                     tally, outcome, faults>>
  BY <1>0 DEF Write, input, collecting
<1>3. /\ wrote \in [Session -> SUBSET Id] /\ changed[s] \subseteq Id
      /\ added[s] \subseteq Object
  BY <1>1 DEF TypeOK
<1>4. ids \subseteq Id
  <2>1. \A o \in added[s] : o.id \in Id
    BY <1>3 DEF Object
  <2> QED
    BY <1>0, <1>3, <2>1 DEF ToWrite, ToUpdate, ToInsert, First
<1>5. /\ wrote' \in [Session -> SUBSET Id] /\ wrote'[s] = wrote[s] \cup ids
      /\ \A t \in Session \ {s} : wrote'[t] = wrote[t]
  BY <1>2, <1>3, <1>4
<1>6. TypeOK'
  <2>1. \A t \in Session : wrote'[t] # {} => pc[t] = "flush"
    BY <1>1, <1>5 DEF TypeOK
  <2>2. \A t \in Session : \A id \in changed[t] : Stored(id)'
    BY <1>1, <1>2 DEF TypeOK, Stored
  <2> QED
    BY <1>1, <1>2, <1>5, <2>1, <2>2 DEF TypeOK
<1>7. Rows' /\ Adds(s)
  BY <1>1, <1>2, RowsStay
<1>8. Apart'
  <2>1. \A t \in Session \ {s} : ids \cap wrote[t] = {}
    BY <1>0, <1>1, <1>2 DEF WaitsFor
  <2> SUFFICES ASSUME NEW t \in Session, NEW u \in Session, t # u PROVE wrote'[t] \cap wrote'[u] = {}
    BY DEF Apart
  <2>2. wrote[t] \cap wrote[u] = {}
    BY <1>1 DEF Apart
  <2>3. CASE t = s
    BY <1>5, <2>1, <2>2, <2>3
  <2>4. CASE u = s
    BY <1>5, <2>1, <2>2, <2>4
  <2>5. CASE t # s /\ u # s
    BY <1>5, <2>2, <2>5
  <2> QED
    BY <2>3, <2>4, <2>5
<1>9. Stage(s)' /\ Counted(s)' /\ Over(s)'
  BY <1>1, <1>2 DEF SessionOK, Stage, Counted, Over, RowsOf
<1>10. Pending(s)'
  <2>1. ASSUME NEW id \in ids, id \notin changed[s] PROVE ~Stored(id)
    <3>1. ToUpdate(s) = {}
      BY <1>0, <2>1 DEF ToWrite, ToUpdate
    <3>2. changed[s] \subseteq wrote[s]
      BY <3>1 DEF ToUpdate
    <3> QED
      BY <1>0, <1>2, <2>1, <3>2 DEF Conflict
  <2>2. ASSUME NEW id \in wrote[s] \ changed[s] PROVE ~Stored(id)
    BY <1>1 DEF SessionOK, Pending
  <2>3. \A id : Stored(id)' <=> Stored(id)
    BY <1>2 DEF Stored
  <2> QED
    BY <1>2, <1>5, <2>1, <2>2, <2>3 DEF Pending
<1>11. Closed(s)'
  <2>1. \A id : InBundle(s, id)' <=> InBundle(s, id)
    BY <1>2 DEF InBundle
  <2>2. \A id : Stored(id)' <=> Stored(id)
    BY <1>2 DEF Stored
  <2> QED
    BY <1>1, <1>2, <2>1, <2>2 DEF SessionOK, Closed, NoRef
<1>12. \A t \in Session \ {s} : Unmoved(t)
  BY <1>2, <1>5 DEF Unmoved
<1> QED
  BY <1>6, <1>7, <1>8, <1>9, <1>10, <1>11, <1>12, OneMoves DEF SessionOK

(* A conflict is with a newcomer, or with an object of the same bundle.    *)
LEMMA FlushFailsKeeps ==
  ASSUME IInv, NEW s \in Session, FlushFails(s), UNCHANGED idle
  PROVE  IInv'
<1>1. TypeOK /\ SessionOK(s) /\ pc[s] = "flush" /\ Conflict(s) /\ End(s, "conflict")
  BY DEF IInv, FlushFails
<1>2. PICK id \in ToWrite(s) : Stored(id) \/ id \in wrote[s]
  BY <1>1 DEF Conflict
<1>3. changed[s] \subseteq wrote[s] /\ ToUpdate(s) = {}
  BY <1>1 DEF Conflict, ToUpdate
<1>4. PICK o \in added[s] : id = o.id /\ (o.id \in wrote[s] \ changed[s] => Repeats(s, o))
  BY <1>2, <1>3 DEF ToWrite, First, ToInsert
<1>5. CASE Stored(id)
  <2>1. PICK row \in table : row.id = o.id
    BY <1>4, <1>5 DEF Stored
  <2>2. row.by # Past
    BY <1>1, <2>1 DEF SessionOK, Counted
  <2> QED
    BY <1>1, <1>4, <2>1, <2>2, EndKeeps DEF FlushFails, collecting, TypeOK
<1>6. CASE ~Stored(id)
  <2>1. id \notin changed[s]
    BY <1>1, <1>6 DEF TypeOK
  <2>2. Repeats(s, o)
    BY <1>2, <1>4, <1>6, <2>1
  <2>3. \E p, q \in added[s] : p # q /\ p.id = q.id
    BY <2>2 DEF Repeats
  <2> QED
    BY <1>1, <2>3, EndKeeps DEF FlushFails, collecting, TypeOK
<1> QED
  BY <1>5, <1>6

LEMMA DeadlockVictimKeeps ==
  ASSUME IInv, NEW s \in Session, DeadlockVictim(s), UNCHANGED idle
  PROVE  IInv'
<1>1. WaitsFor(s) # {}
  BY DEF DeadlockVictim, Deadlocked
<1>2. pc[s] # "done"
  BY <1>1 DEF WaitsFor
<1>3. faults \in 0 .. MaxFaults
  BY DEF IInv, TypeOK
<1> QED
  BY <1>2, <1>3, EndKeeps DEF DeadlockVictim, collecting

LEMMA ConnectionLostKeeps ==
  ASSUME IInv, NEW s \in Session, ConnectionLost(s), UNCHANGED idle
  PROVE  IInv'
<1>1. faults' \in 0 .. MaxFaults
  BY BoundsAssumption DEF ConnectionLost, Fault, IInv, TypeOK
<1> QED
  BY <1>1, EndKeeps DEF ConnectionLost, collecting

(* When nothing is left to insert, no two of the new objects share an id.  *)
LEMMA OneRowEach ==
  ASSUME TypeOK, NEW s \in Session, ToInsert(s) = {}
  PROVE  /\ \A o \in added[s] : o.id \in wrote[s] \ changed[s]
         /\ \A o, q \in added[s] : o.id = q.id => o = q
<1>1. \A o \in added[s] : o.id \in wrote[s] \ changed[s] /\ ~Repeats(s, o)
  BY DEF ToInsert
<1>2. ASSUME NEW o \in added[s], NEW q \in added[s], o.id = q.id, o # q PROVE FALSE
  <2>1. o \in Object /\ q \in Object
    BY DEF TypeOK
  <2>2. /\ o.at[1] \in Nat /\ o.at[2] \in Nat /\ o.at[3] \in {0, 1}
        /\ q.at[1] \in Nat /\ q.at[2] \in Nat /\ q.at[3] \in {0, 1}
    BY <2>1 DEF Object
  <2>3. Earlier(o, q) \/ Earlier(q, o)
    BY <2>2 DEF Earlier
  <2>4. Repeats(s, o) \/ Repeats(s, q)
    BY <1>2, <2>3 DEF Repeats
  <2> QED
    BY <1>1, <2>4
<1> QED
  BY <1>1, <1>2

(* The commit: a row for each new object, whether or not it is answered.   *)
LEMMA CommitKeeps ==
  ASSUME IInv, NEW s \in Session, NEW how \in Saved, Publish(s, how), UNCHANGED idle,
         faults' \in 0 .. MaxFaults
  PROVE  IInv'
<1> DEFINE Row(o) == [id |-> o.id, ref |-> o.ref, by |-> s]
           rows == {Row(o) : o \in added[s]}
<1>1. TypeOK /\ Rows /\ Apart /\ SessionOK(s) /\ pc[s] = "flush"
  BY DEF IInv, Publish
<1>2. /\ ToInsert(s) = {} /\ table' = table \cup rows /\ End(s, how)
      /\ UNCHANGED <<job, holding, request, cache, skipped, bundle, changed, added, tally>>
  BY DEF Publish, input, collecting
<1>3. /\ \A o \in added[s] : o.id \in wrote[s] \ changed[s]
      /\ \A o, q \in added[s] : o.id = q.id => o = q
  BY <1>1, <1>2, OneRowEach
<1>4. /\ outcome[s] = "none" /\ bundle[s] = {}
      /\ \A id \in wrote[s] \ changed[s] : ~Stored(id)
  BY <1>1 DEF SessionOK, Stage, Pending
<1>5. s # Past
  BY PastAssumption
<1>6. \A row \in table : row.by # s
  BY <1>1, <1>4, <1>5 DEF Rows, Saved
<1>7. \A o \in added[s] : o \in Object /\ Row(o) \in [id : Id, ref : Ref, by : Session \cup {Past}]
  <2> TAKE o \in added[s]
  <2>1. o \in Object
    BY <1>1 DEF TypeOK
  <2>2. o.id \in Id /\ o.ref \in Ref
    BY <2>1 DEF Object
  <2> QED
    BY <2>1, <2>2
<1>8. ASSUME NEW row \in rows
      PROVE  \E o \in added[s] : row = Row(o) /\ row.id = o.id /\ row.ref = o.ref /\ row.by = s
  OBVIOUS
<1>9. \A o \in added[s] : Row(o) \in rows /\ Row(o).id = o.id
  OBVIOUS
<1> HIDE DEF rows
<1>10. /\ pc' \in [Session -> {"fetch", "select", "flush", "done"}] /\ pc'[s] = "done"
       /\ \A t \in Session \ {s} : pc'[t] = pc[t]
  BY <1>1, <1>2 DEF End, TypeOK
<1>11. /\ outcome' \in [Session -> {"none", "ok", "unanswered", "failed", "conflict", "deadlock"}]
       /\ outcome'[s] = how
       /\ \A t \in Session \ {s} : outcome'[t] = outcome[t]
  BY <1>1, <1>2 DEF End, TypeOK, Saved
<1>12. /\ wrote' \in [Session -> SUBSET Id] /\ wrote'[s] = {}
       /\ \A t \in Session \ {s} : wrote'[t] = wrote[t]
  BY <1>1, <1>2 DEF End, TypeOK
<1>13. \A id : Stored(id) => Stored(id)'
  BY <1>2 DEF Stored
<1>14. TypeOK'
  <2>1. table' \subseteq [id : Id, ref : Ref, by : Session \cup {Past}]
    BY <1>1, <1>2, <1>7, <1>8 DEF TypeOK
  <2>2. \A t \in Session : \A id \in changed[t] : Stored(id)'
    BY <1>1, <1>13 DEF TypeOK
  <2>3. \A t \in Session : wrote'[t] # {} => pc'[t] = "flush"
    BY <1>1, <1>10, <1>12 DEF TypeOK
  <2> QED
    BY <1>1, <1>2, <1>10, <1>11, <1>12, <2>1, <2>2, <2>3 DEF TypeOK
<1>15. Rows'
  <2>1. ASSUME NEW row \in table', NEW other \in table', other.id = row.id PROVE other = row
    <3>1. \A r \in rows : ~Stored(r.id)
      BY <1>3, <1>4, <1>8
    <3>2. CASE row \in table /\ other \in table
      BY <1>1, <2>1, <3>2 DEF Rows
    <3>3. CASE row \in rows /\ other \in rows
      BY <1>3, <1>8, <2>1, <3>3
    <3>4. CASE row \in rows /\ other \in table
      BY <2>1, <3>1, <3>4 DEF Stored
    <3>5. CASE row \in table /\ other \in rows
      BY <2>1, <3>1, <3>5 DEF Stored
    <3> QED
      BY <1>2, <3>2, <3>3, <3>4, <3>5
  <2>2. ASSUME NEW row \in table', row.by # Past PROVE outcome'[row.by] \in Saved
    <3>1. CASE row \in table
      <4>1. row.by \in Session /\ outcome[row.by] \in Saved
        BY <1>1, <2>2, <3>1 DEF Rows, TypeOK
      <4> QED
        BY <1>11, <4>1
    <3>2. CASE row \in rows
      BY <1>8, <1>11, <3>2
    <3> QED
      BY <1>2, <3>1, <3>2
  <2>3. ASSUME NEW row \in table', row.ref # NoRef
        PROVE  Stored(row.ref)' \/ (row.by \in Session /\ skipped[row.by])
    <3>1. CASE row \in table
      BY <1>1, <1>13, <2>3, <3>1 DEF Rows
    <3>2. CASE row \in rows
      <4>1. PICK o \in added[s] : row.ref = o.ref /\ row.by = s
        BY <1>8, <3>2
      <4>2. InBundle(s, o.ref) \/ Stored(o.ref) \/ skipped[s]
        BY <1>1, <2>3, <4>1 DEF SessionOK, Closed
      <4>3. InBundle(s, o.ref) => Stored(o.ref)'
        <5>1. SUFFICES ASSUME NEW q \in added[s], q.id = o.ref PROVE Stored(o.ref)'
          BY <1>4 DEF InBundle
        <5>2. Row(q) \in table' /\ Row(q).id = o.ref
          BY <1>2, <1>9, <5>1
        <5> QED
          BY <5>2 DEF Stored
      <4> QED
        BY <1>13, <4>1, <4>2, <4>3
    <3> QED
      BY <1>2, <3>1, <3>2
  <2> QED
    BY <1>2, <2>1, <2>2, <2>3 DEF Rows, NoRef
<1>16. Adds(s)
  <2>1. \A row \in rows : row.by = s /\ row.id \in wrote[s]
    BY <1>3, <1>8
  <2> QED
    BY <1>2, <2>1 DEF Adds
<1>17. Apart'
  <2>1. \A t \in Session : wrote'[t] \subseteq wrote[t]
    BY <1>12
  <2> QED
    BY <1>1, <2>1, StillApart
<1>18. Stage(s)' /\ Pending(s)' /\ Closed(s)'
  BY <1>10, <1>11, <1>12 DEF Stage, Pending, Closed, Saved
<1>19. IsFiniteSet(added[s]) /\ tally[s].new = Cardinality(added[s]) /\ bundle[s] \cap added[s] = {}
  BY <1>1 DEF SessionOK, Counted
<1>20. Counted(s)'
  <2>1. ASSUME NEW o \in added[s], NEW row \in table', row.id = o.id PROVE row.by # Past
    BY <1>1, <1>2, <1>5, <1>8, <2>1 DEF SessionOK, Counted
  <2> QED
    BY <1>2, <1>19, <2>1 DEF Counted
<1>21. Over(s)'
  <2>1. RowsOf(s)' = rows
    <3>1. \A row : row \in table' /\ row.by = s <=> row \in rows
      BY <1>2, <1>6, <1>8
    <3> QED
      BY <3>1 DEF RowsOf
  <2> DEFINE give == [o \in added[s] |-> Row(o)]
  <2>2. give \in Surjection(added[s], rows)
    <3>1. give \in [added[s] -> rows]
      BY <1>9
    <3>2. \A row \in rows : \E o \in added[s] : give[o] = row
      BY <1>8
    <3> QED
      BY <3>1, <3>2 DEF Surjection
  <2>3. give \in Injection(added[s], rows)
    <3>1. give \in [added[s] -> rows]
      BY <1>9
    <3>2. \A o, q \in added[s] : give[o] = give[q] => o = q
      <4> TAKE o, q \in added[s]
      <4>1. give[o].id = o.id /\ give[q].id = q.id
        BY <1>9
      <4> QED
        BY <1>3, <4>1
    <3> HIDE DEF give
    <3> QED
      BY <3>1, <3>2 DEF Injection, IsInjective
  <2>4. Cardinality(rows) = Cardinality(added[s])
    BY <1>19, <2>2, <2>3, FS_Surjection
  <2> QED
    BY <1>2, <1>11, <1>19, <2>1, <2>4 DEF Over, Saved
<1>22. \A t \in Session \ {s} : Unmoved(t)
  BY <1>2, <1>10, <1>11, <1>12 DEF Unmoved
<1> QED
  BY <1>14, <1>15, <1>16, <1>17, <1>18, <1>20, <1>21, <1>22, OneMoves DEF SessionOK

-----------------------------------------------------------------------------
(* Suspending and resuming change nothing else.                            *)
LEMMA StutterKeeps ==
  ASSUME IInv, idle' \subseteq Session, faults' \in 0 .. MaxFaults,
         UNCHANGED <<table, input, pc, collecting, bundle, saving, outcome>>
  PROVE  IInv'
<1>1. TypeOK'
  BY DEF IInv, TypeOK, Stored, input, collecting, saving
<1>2. Rows' /\ Apart' /\ \A s \in Session : Adds(s)
  BY RowsStay, StillApart DEF IInv, collecting, saving
<1>3. ASSUME NEW t \in Session PROVE SessionOK(t)'
  <2>1. Unmoved(t) /\ SessionOK(t)
    BY DEF IInv, Unmoved, collecting, saving
  <2>2. Stage(t)' /\ Pending(t)' /\ Over(t)' /\ Counted(t)'
    BY <2>1 DEF SessionOK, Stage, Pending, Over, Counted, Unmoved, Stored, RowsOf, collecting, saving
  <2>3. Closed(t)'
    BY <2>1 DEF SessionOK, Closed, InBundle, Stored, Unmoved, collecting, saving, Malware, NoRef
  <2> QED
    BY <2>2, <2>3 DEF SessionOK
<1> QED
  BY <1>1, <1>2, <1>3 DEF IInv

(* IInv is an inductive invariant of the collections.                      *)
LEMMA Inductive == Spec => []IInv
<1>1. IInv /\ [Next]_vars => IInv'
  <2> SUFFICES ASSUME IInv, [Next]_vars PROVE IInv'
    OBVIOUS
  <2>1. TypeOK
    BY DEF IInv
  <2>2. ASSUME NEW s \in Session, Proceeds(s)
        PROVE  IInv'
    <3>1. CASE Commit(s)
      <4>1. faults' \in 0 .. MaxFaults
        BY <2>1, <3>1 DEF TypeOK, Commit
      <4> QED
        BY <2>2, <3>1, <4>1, CommitKeeps DEF Proceeds, Commit, Saved
    <3>2. CASE ~Commit(s)
      BY <2>2, <3>2, FetchKeeps, FetchFailsKeeps, SelectKeeps, CommitBeginsKeeps, WriteKeeps,
         FlushFailsKeeps, DeadlockVictimKeeps DEF Proceeds, Step
    <3> QED
      BY <3>1, <3>2
  <2>3. ASSUME NEW s \in Session, Breaks(s)
        PROVE  IInv'
    <3>1. CASE CommitUnanswered(s)
      <4>1. faults' \in 0 .. MaxFaults
        BY <2>1, <3>1, BoundsAssumption DEF TypeOK, CommitUnanswered, Fault
      <4> QED
        BY <2>3, <3>1, <4>1, CommitKeeps DEF Breaks, CommitUnanswered, Saved
    <3> QED
      BY <2>3, <3>1, ConnectionLostKeeps DEF Breaks
  <2>4. ASSUME NEW s \in Session, Suspend(s) \/ Resume(s)
        PROVE  IInv'
    <3>1. idle' \subseteq Session /\ faults' \in 0 .. MaxFaults
      BY <2>1, <2>4, BoundsAssumption DEF TypeOK, Suspend, Resume, Fault
    <3> QED
      BY <2>4, <3>1, StutterKeeps DEF Suspend, Resume
  <2>5. CASE UNCHANGED vars
    BY <2>1, <2>5, StutterKeeps DEF vars, TypeOK, input, collecting, saving
  <2> QED
    BY <2>2, <2>3, <2>4, <2>5 DEF Next, Finished
<1> QED
  BY <1>1, Starts, PTL DEF Spec

(* What the table and the sessions hold has its type: crud/stix.py.        *)
THEOREM TypeCorrect == Spec => []TypeOK
<1>1. IInv => TypeOK
  BY DEF IInv
<1> QED
  BY <1>1, Inductive, PTL

(* One row for each id, and what a relationship points to is stored, or    *)
(* the history that stored it had skipped a chunk: the conversions of      *)
(* connectors/threatfox_stix.py and save_stix_bundle in crud/stix.py.      *)
THEOREM ReferencesResolve == Spec => []RefsResolve
<1>1. IInv => RefsResolve
  BY DEF IInv, Rows, RefsResolve
<1> QED
  BY <1>1, Inductive, PTL

(* The "new" that save_stix_bundle reports is what its commit added.       *)
THEOREM NewCountIsHonest == Spec => []NewCountHonest
<1>1. IInv => NewCountHonest
  BY DEF IInv, SessionOK, Over, RowsOf, NewCountHonest
<1> QED
  BY <1>1, Inductive, PTL

(* A bundle that a conflict loses met a malware that was stored since its  *)
(* look-up, or one it names twice.                                         *)
THEOREM ConflictsExplained == Spec => []ConflictNeedsNewcomer
<1>1. IInv => ConflictNeedsNewcomer
  BY DEF IInv, SessionOK, Over, ConflictNeedsNewcomer
<1> QED
  BY <1>1, Inductive, PTL
=============================================================================
