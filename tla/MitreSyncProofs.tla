--------------------------- MODULE MitreSyncProofs ---------------------------
(***************************************************************************)
(* Proofs about MitreSync for every number of syncs, every sequence of     *)
(* releases, every content of their bundles and every bound on faults.     *)
(***************************************************************************)
EXTENDS MitreSync, NaturalsInduction, WellFoundedInduction, FiniteSetTheorems, TLAPS

-----------------------------------------------------------------------------
(* The statements of a bundle and their order.                             *)
Stmt == [rank : 1 .. 7, pos : Nat, key : Key, tactic : Key, op : {"upsert", "find", "link"}]

LEMMA KindsNumbered ==
  /\ DOMAIN Kinds = 1 .. 7 /\ Range(Kinds) = {Kinds[n] : n \in 1 .. 7}
  /\ Kinds[1] = "tactic" /\ Kinds[2] = "technique" /\ Kinds[3] = "link"
  /\ \A n \in 1 .. 7 : Kinds[n] = "link" => n = 3
<1>1. DOMAIN Kinds = 1 .. 7
  BY DEF Kinds
<1>2. Range(Kinds) = {Kinds[n] : n \in 1 .. 7}
  BY <1>1 DEF Range
<1>3. \A n \in 1 .. 7 : n \in {1, 2, 3, 4, 5, 6, 7}
  OBVIOUS
<1>4. /\ Kinds[1] = "tactic" /\ Kinds[2] = "technique" /\ Kinds[3] = "link"
      /\ Kinds[4] # "link" /\ Kinds[5] # "link" /\ Kinds[6] # "link" /\ Kinds[7] # "link"
  BY DEF Kinds
<1> QED
  BY <1>1, <1>2, <1>3, <1>4

(* Every release has the same URLs, and each of them a bundle.             *)
LEMMA ReleasesShape ==
  /\ Len(Releases) \in Nat \ {0} /\ DOMAIN Releases = 1 .. Len(Releases)
  /\ Len(Releases[1]) \in Nat \ {0} /\ Url = 1 .. Len(Releases[1])
  /\ \A r \in DOMAIN Releases : \A u \in Url : Releases[r][u] \in Seq(Key)
<1>1. Len(Releases) \in Nat \ {0} /\ DOMAIN Releases = 1 .. Len(Releases)
  BY ReleaseAssumption
<1>2. Releases[1] \in Seq(Seq(Key))
  BY <1>1, ReleaseAssumption
<1>3. Url = 1 .. Len(Releases[1]) /\ Len(Releases[1]) \in Nat
  BY <1>2 DEF Url
<1>4. Len(Releases[1]) # 0
  BY <1>3, ReleaseAssumption
<1>5. ASSUME NEW r \in DOMAIN Releases, NEW u \in Url PROVE Releases[r][u] \in Seq(Key)
  <2>1. Releases[r] \in Seq(Seq(Key)) /\ u \in DOMAIN Releases[r]
    BY <1>1, ReleaseAssumption
  <2> QED
    BY <2>1
<1> QED
  BY <1>1, <1>3, <1>4, <1>5

(* What is in the plan of a bundle.                                        *)
LEMMA PlanHas ==
  ASSUME NEW b \in Seq(Key)
  PROVE  /\ Plan(b) \subseteq Stmt
         /\ \A st \in Plan(b) :
              /\ st.op \in {"upsert", "find"} /\ (st.op = "upsert" <=> st.rank # 3)
              /\ st.pos \in DOMAIN b /\ st.key = b[st.pos]
              /\ st.op = "find" => Asks("link", st.key)
         /\ \A i \in DOMAIN b, n \in 1 .. 7 :
              Asks(Kinds[n], b[i]) => Ask(b, n, i) \in Plan(b)
<1>1. \A n \in 1 .. 7, i \in DOMAIN b :
        /\ Ask(b, n, i) \in Stmt
        /\ Ask(b, n, i).rank = n /\ Ask(b, n, i).pos = i /\ Ask(b, n, i).key = b[i]
        /\ Ask(b, n, i).op = IF Kinds[n] = "link" THEN "find" ELSE "upsert"
  <2> TAKE n \in 1 .. 7, i \in DOMAIN b
  <2>1. i \in Nat /\ b[i] \in Key
    OBVIOUS
  <2> QED
    BY <2>1 DEF Ask, Stmt
<1>2. ASSUME NEW st \in Plan(b)
      PROVE  \E n \in 1 .. 7, i \in DOMAIN b : Asks(Kinds[n], b[i]) /\ st = Ask(b, n, i)
  BY KindsNumbered DEF Plan
<1>3. \A i \in DOMAIN b, n \in 1 .. 7 : Asks(Kinds[n], b[i]) => Ask(b, n, i) \in Plan(b)
  BY KindsNumbered DEF Plan
<1>4. ASSUME NEW st \in Plan(b)
      PROVE  /\ st \in Stmt
             /\ st.op \in {"upsert", "find"} /\ (st.op = "upsert" <=> st.rank # 3)
             /\ st.pos \in DOMAIN b /\ st.key = b[st.pos]
             /\ st.op = "find" => Asks("link", st.key)
  <2>1. PICK n \in 1 .. 7, i \in DOMAIN b : Asks(Kinds[n], b[i]) /\ st = Ask(b, n, i)
    BY <1>2
  <2>2. Kinds[n] = "link" <=> n = 3
    BY KindsNumbered
  <2> QED
    BY <1>1, <2>1, <2>2
<1> QED
  BY <1>3, <1>4

(* A non-empty set of numbers has a least one.                             *)
LEMMA LeastNumber ==
  ASSUME NEW T \in SUBSET Nat, T # {}
  PROVE  \E n \in T : \A y \in T : n =< y
<1>1. IsWellFoundedOn(OpToRel(<, Nat), Nat)
  BY NatLessThanWellFounded
<1>2. PICK n \in T : \A y \in T : ~(<<y, n>> \in OpToRel(<, Nat))
  BY <1>1, WFMin
<1>3. \A y \in T : n =< y
  <2> TAKE y \in T
  <2>1. y \in Nat /\ n \in Nat
    OBVIOUS
  <2>2. ~(y < n)
    <3>1. ASSUME y < n PROVE <<y, n>> \in OpToRel(<, Nat)
      BY <2>1, <3>1 DEF OpToRel
    <3> QED
      BY <1>2, <3>1
  <2> QED
    BY <2>1, <2>2
<1> QED
  BY <1>3

(* The statement at hand is the first of those that are left.              *)
LEMMA FirstStatement ==
  ASSUME NEW s \in Sync, todo[s] \subseteq Stmt, todo[s] # {}
  PROVE  Statement(s) \in todo[s] /\ \A o \in todo[s] : Comes(Statement(s), o)
<1>1. \A st \in todo[s] : st.rank \in Nat /\ st.pos \in Nat
  BY DEF Stmt
<1>2. PICK n \in {st.rank : st \in todo[s]} : \A y \in {st.rank : st \in todo[s]} : n =< y
  <2>1. {st.rank : st \in todo[s]} \in SUBSET Nat /\ {st.rank : st \in todo[s]} # {}
    BY <1>1
  <2> HIDE DEF Stmt
  <2> QED
    BY <2>1, LeastNumber
<1> DEFINE F == {st \in todo[s] : st.rank = n}
<1>3. F # {}
  BY <1>2
<1>4. PICK i \in {st.pos : st \in F} : \A y \in {st.pos : st \in F} : i =< y
  <2>1. {st.pos : st \in F} \in SUBSET Nat /\ {st.pos : st \in F} # {}
    BY <1>1, <1>3
  <2> QED
    BY <2>1, LeastNumber
<1>5. PICK first \in F : first.pos = i
  BY <1>4
<1>6. \A o \in todo[s] : Comes(first, o)
  <2> TAKE o \in todo[s]
  <2>1. n =< o.rank /\ first.rank = n /\ n \in Nat /\ o.rank \in Nat
    BY <1>1, <1>2, <1>5
  <2>2. o.rank = n => i =< o.pos
    BY <1>4
  <2> QED
    BY <1>5, <2>1, <2>2 DEF Comes
<1>7. \E st \in todo[s] : \A o \in todo[s] : Comes(st, o)
  BY <1>5, <1>6
<1> QED
  BY <1>7 DEF Statement

-----------------------------------------------------------------------------
(***************************************************************************)
(* The inductive invariant: what holds of a sync at every point of its     *)
(* transaction, so that the commit saves whole bundles.                    *)
(***************************************************************************)
Bundle(f) == Releases[f[2]][f[1]]

(* Where a sync is.                                                        *)
Place(s) ==
    /\ pc[s] \in {"fetch", "write"} => url[s] \in Url
    /\ pc[s] # "done" => outcome[s] = "none"
    /\ \A o \in todo[s] : o.op = "upsert" <=> o.rank # 3

(* Every statement of a bundle that the sync got, and did not give up on   *)
(* its own side, is still to be run or has had its effect.                 *)
Same(o, st) == o.rank = st.rank /\ o.pos = st.pos /\ o.key = st.key
Open(s, f, st) == pc[s] = "write" /\ f[1] = url[s] /\ \E o \in todo[s] : Same(o, st)
HasTactic(b, q) == \E t \in Range(b) : Kind[t] = "tactic" /\ Name[t] = Name[q]
Joint(l, q) == l[2] = q /\ Name[l[1]] = Name[q]
Effect(s, b, st) ==
    /\ st.op = "upsert" => st.key \in held[s]
    /\ st.op = "find" /\ HasTactic(b, st.key) => \E l \in joined[s] \cup links : Joint(l, st.key)
Carried(s) ==
    aborted[s] = "no" /\ pc[s] # "done" =>
        \A f \in fetched[s] : f[1] \notin cut[s] =>
            \A st \in Plan(Bundle(f)) : Open(s, f, st) \/ Effect(s, Bundle(f), st)

(* The ends of a link are rows by the time it is inserted.                 *)
There(s) == table \cup held[s]
Ends(s, l) == l[1] \in There(s) /\ l[2] \in There(s) /\ Name[l[1]] = Name[l[2]]
Coming(s, q) == \E o \in todo[s] : o.rank = 2 /\ o.key = q
Grounded(s) ==
    /\ \A l \in joined[s] : Ends(s, l)
    /\ aborted[s] = "no" =>
         \A o \in todo[s] :
            /\ o.op = "link" => o.tactic \in There(s) /\ Name[o.tactic] = Name[o.key]
            /\ o.rank = 3 => o.key \in There(s) \/ Coming(s, o.key)

(* What a completed sync has saved.                                        *)
Kept(s) ==
    outcome[s] = "completed" /\ aborted[s] = "no" =>
        \A f \in fetched[s] : f[1] \notin cut[s] => Saved(Bundle(f))

Typed == TypeOK /\ todo \in [Sync -> SUBSET Stmt]
SyncOK(s) == Place(s) /\ Carried(s) /\ Grounded(s) /\ Kept(s)
Moves(s) == (Step(s) \/ Breaks(s)) /\ UNCHANGED idle
IInv == Typed /\ \A s \in Sync : SyncOK(s)

(* A step of one sync leaves the others alone and adds to the catalogue.   *)
Unmoved(t) ==
    /\ pc'[t] = pc[t] /\ url'[t] = url[t] /\ todo'[t] = todo[t]
    /\ fetched'[t] = fetched[t] /\ cut'[t] = cut[t]
    /\ held'[t] = held[t] /\ joined'[t] = joined[t]
    /\ aborted'[t] = aborted[t] /\ outcome'[t] = outcome[t]
Grows == table \subseteq table' /\ links \subseteq links'

LEMMA FetchedBundle ==
  ASSUME Typed, NEW s \in Sync, NEW f \in fetched[s]
  PROVE  Bundle(f) \in Seq(Key) /\ f[1] \in Url /\ f[2] \in DOMAIN Releases
<1>1. fetched[s] \subseteq Url \X DOMAIN Releases
  BY DEF Typed, TypeOK
<1>2. f[1] \in Url /\ f[2] \in DOMAIN Releases
  BY <1>1
<1> QED
  BY <1>2, ReleasesShape DEF Bundle

LEMMA SavedStays ==
  ASSUME NEW b, Saved(b), Grows
  PROVE  Saved(b)'
BY DEF Saved, Linked, Grows

LEMMA OthersKeep ==
  ASSUME NEW t \in Sync, SyncOK(t), Unmoved(t), Grows
  PROVE  SyncOK(t)'
<1>1. Place(t)'
  BY DEF SyncOK, Place, Unmoved
<1>2. Carried(t)'
  <2> SUFFICES ASSUME aborted[t] = "no", pc[t] # "done",
                      NEW f \in fetched[t], f[1] \notin cut[t], NEW st \in Plan(Bundle(f))
               PROVE  (Open(t, f, st) \/ Effect(t, Bundle(f), st))'
    BY DEF Carried, Unmoved, Bundle
  <2>1. Open(t, f, st) \/ Effect(t, Bundle(f), st)
    BY DEF SyncOK, Carried
  <2>2. CASE Open(t, f, st)
    BY <2>2 DEF Open, Unmoved
  <2>3. CASE Effect(t, Bundle(f), st)
    BY <2>3 DEF Effect, Unmoved, Grows, Bundle
  <2> QED
    BY <2>1, <2>2, <2>3
<1>3. Grounded(t)'
  <2>1. There(t) \subseteq There(t)'
    BY DEF There, Unmoved, Grows
  <2>2. ASSUME NEW l \in joined[t] PROVE Ends(t, l)'
    BY <2>1 DEF SyncOK, Grounded, Ends
  <2>3. \A q : Coming(t, q) => Coming(t, q)'
    BY DEF Coming, Unmoved
  <2>4. ASSUME aborted[t] = "no", NEW o \in todo[t]
        PROVE  /\ o.op = "link" => o.tactic \in There(t)' /\ Name[o.tactic] = Name[o.key]
               /\ o.rank = 3 => o.key \in There(t)' \/ Coming(t, o.key)'
    BY <2>1, <2>3, <2>4 DEF SyncOK, Grounded
  <2> QED
    BY <2>2, <2>4 DEF Grounded, Unmoved
<1>4. Kept(t)'
  <2> SUFFICES ASSUME outcome[t] = "completed", aborted[t] = "no",
                      NEW f \in fetched[t], f[1] \notin cut[t]
               PROVE  Saved(Bundle(f))'
    BY DEF Kept, Unmoved
  <2>1. Saved(Bundle(f))
    BY DEF SyncOK, Kept
  <2> QED
    BY <2>1, SavedStays DEF Bundle
<1> QED
  BY <1>1, <1>2, <1>3, <1>4 DEF SyncOK

LEMMA OneMoves ==
  ASSUME IInv, NEW s \in Sync, Typed', SyncOK(s)', \A t \in Sync \ {s} : Unmoved(t), Grows
  PROVE  IInv'
<1>1. ASSUME NEW t \in Sync PROVE SyncOK(t)'
  <2>1. CASE t = s
    BY <2>1
  <2>2. CASE t # s
    BY <2>2, OthersKeep DEF IInv
  <2> QED
    BY <2>1, <2>2
<1> QED
  BY <1>1 DEF IInv

-----------------------------------------------------------------------------
(***************************************************************************)
(* The steps.                                                              *)
(***************************************************************************)

(* Initially nothing has been asked for.                                   *)
LEMMA Starts == Init => IInv
<1> SUFFICES ASSUME Init PROVE IInv
  OBVIOUS
<1> USE DEF Init
<1>1. Typed
  <2>1. table \subseteq Key /\ release \in DOMAIN Releases /\ grade \in Gradings
    BY ReleasesShape, CatalogueAssumption
  <2>2. url \in [Sync -> 1 .. Len(Releases[1]) + 1]
    BY ReleasesShape
  <2> QED
    BY <2>1, <2>2, FaultsAssumption DEF Typed, TypeOK
<1>2. ASSUME NEW s \in Sync PROVE SyncOK(s)
  <2>1. Place(s)
    BY ReleasesShape DEF Place
  <2> QED
    BY <2>1 DEF SyncOK, Carried, Grounded, Kept
<1> QED
  BY <1>1, <1>2 DEF IInv

(* The sync goes on with the statements that are left.                     *)
LEMMA GoesOn ==
  ASSUME Typed, NEW s \in Sync, SyncOK(s), pc[s] \in {"fetch", "write"},
         NEW rest \in SUBSET Stmt, Proceed(s, rest)
  PROVE  /\ todo' \in [Sync -> SUBSET Stmt] /\ todo'[s] = rest
         /\ pc' \in [Sync -> {"fetch", "write", "commit", "done"}]
         /\ url' \in [Sync -> 1 .. Len(Releases[1]) + 1]
         /\ pc'[s] \in {"fetch", "write", "commit"}
         /\ pc'[s] = "write" <=> rest # {}
         /\ pc'[s] \in {"fetch", "write"} => url'[s] \in Url
         /\ rest # {} => url'[s] = url[s]
         /\ \A t \in Sync \ {s} : pc'[t] = pc[t] /\ url'[t] = url[t] /\ todo'[t] = todo[t]
<1>1. url[s] \in Url /\ Url = 1 .. Len(Releases[1]) /\ Len(Releases[1]) \in Nat
  BY ReleasesShape DEF SyncOK, Place
<1>2. /\ pc \in [Sync -> {"fetch", "write", "commit", "done"}]
      /\ url \in [Sync -> 1 .. Len(Releases[1]) + 1] /\ todo \in [Sync -> SUBSET Stmt]
  BY DEF Typed, TypeOK
<1>3. todo' = [todo EXCEPT ![s] = rest]
  BY DEF Proceed
<1>4. todo' \in [Sync -> SUBSET Stmt] /\ todo'[s] = rest
  BY <1>2, <1>3
<1>5. \A t \in Sync \ {s} : pc'[t] = pc[t] /\ url'[t] = url[t] /\ todo'[t] = todo[t]
  BY <1>2, <1>3 DEF Proceed
<1>6. CASE rest # {}
  BY <1>1, <1>2, <1>4, <1>5, <1>6 DEF Proceed
<1>7. CASE rest = {}
  <2>1. url' = [url EXCEPT ![s] = url[s] + 1]
    BY <1>7 DEF Proceed
  <2>2. pc' = [pc EXCEPT ![s] = IF url[s] < Len(Releases[1]) THEN "fetch" ELSE "commit"]
    BY <1>7 DEF Proceed
  <2>3. url' \in [Sync -> 1 .. Len(Releases[1]) + 1] /\ url'[s] = url[s] + 1
    BY <1>1, <1>2, <2>1
  <2>4. pc'[s] = IF url[s] < Len(Releases[1]) THEN "fetch" ELSE "commit"
    BY <1>2, <2>2
  <2>5. pc' \in [Sync -> {"fetch", "write", "commit", "done"}]
    BY <1>2, <2>2
  <2> QED
    BY <1>1, <1>4, <1>5, <1>7, <2>3, <2>4, <2>5
<1> QED
  BY <1>6, <1>7

(* Two pieces that most steps share: the place, and the types.             *)
LEMMA PlaceAfter ==
  ASSUME Typed, NEW s \in Sync, SyncOK(s), pc[s] \in {"fetch", "write"},
         NEW rest \in SUBSET Stmt, Proceed(s, rest),
         \A o \in rest : o.op = "upsert" <=> o.rank # 3, outcome' = outcome
  PROVE  Place(s)'
<1>1. outcome[s] = "none"
  BY DEF SyncOK, Place
<1> QED
  BY <1>1, GoesOn DEF Place

LEMMA TypedAfter ==
  ASSUME Typed, NEW s \in Sync, SyncOK(s), pc[s] \in {"fetch", "write"},
         NEW rest \in SUBSET Stmt, Proceed(s, rest),
         UNCHANGED <<table, links, world, outcome>>,
         fetched' \in [Sync -> SUBSET (Url \X DOMAIN Releases)],
         cut' \in [Sync -> SUBSET Url],
         held' \in [Sync -> SUBSET Key], joined' \in [Sync -> SUBSET (Key \X Key)],
         aborted' \in [Sync -> {"no", "refused", "deadlock", "lost"}],
         faults' \in 0 .. MaxFaults, UNCHANGED idle
  PROVE  Typed'
<1>1. \A t \in Sync : pc'[t] = "write" <=> todo'[t] # {}
  <2> TAKE t \in Sync
  <2>1. pc[t] = "write" <=> todo[t] # {}
    BY DEF Typed, TypeOK
  <2>2. CASE t = s
    BY <2>2, GoesOn
  <2>3. CASE t # s
    BY <2>1, <2>3, GoesOn
  <2> QED
    BY <2>2, <2>3
<1>2. \A t \in Sync : \A st \in todo'[t] : st.key \in Key /\ st.tactic \in Key
  <2> TAKE t \in Sync
  <2>1. todo'[t] \subseteq Stmt
    BY GoesOn
  <2> QED
    BY <2>1 DEF Stmt
<1>3. /\ table \subseteq Key /\ release \in DOMAIN Releases /\ grade \in Gradings
      /\ \A l \in links : l[1] \in table /\ l[2] \in table /\ Name[l[1]] = Name[l[2]]
      /\ outcome \in [Sync -> {"none", "completed", "failed"}]
  BY DEF Typed, TypeOK
<1>4. /\ todo' \in [Sync -> SUBSET Stmt]
      /\ pc' \in [Sync -> {"fetch", "write", "commit", "done"}]
      /\ url' \in [Sync -> 1 .. Len(Releases[1]) + 1]
  BY GoesOn
<1> QED
  BY <1>1, <1>2, <1>3, <1>4 DEF Typed, TypeOK, world

(* A sync that has not ended has nothing to keep.                          *)
LEMMA NothingKept ==
  ASSUME NEW s \in Sync, Place(s)', pc'[s] # "done"
  PROVE  Kept(s)'
BY DEF Place, Kept

(* What has been done stays done while rows and links only come.           *)
LEMMA EffectStays ==
  ASSUME NEW s \in Sync, NEW b, NEW st, Effect(s, b, st), held[s] \subseteq held'[s],
         joined[s] \cup links \subseteq joined'[s] \cup links'
  PROVE  Effect(s, b, st)'
BY DEF Effect

(* A bundle is fetched: all its statements are to be run.                  *)
LEMMA FetchKeeps ==
  ASSUME IInv, NEW s \in Sync, Fetch(s), UNCHANGED idle
  PROVE  IInv'
<1> DEFINE b == Releases[release][url[s]]
           new == <<url[s], release>>
<1>1. Typed /\ SyncOK(s) /\ pc[s] = "fetch" /\ Proceed(s, Plan(b))
  BY DEF IInv, Fetch
<1>2. url[s] \in Url /\ release \in DOMAIN Releases
  BY <1>1 DEF SyncOK, Place, Typed, TypeOK
<1>3. b \in Seq(Key)
  BY <1>2, ReleasesShape
<1> HIDE DEF b
<1>4. /\ Plan(b) \in SUBSET Stmt
      /\ \A st \in Plan(b) : st.op \in {"upsert", "find"} /\ (st.op = "upsert" <=> st.rank # 3)
  BY <1>3, PlanHas
<1>5. /\ UNCHANGED <<table, links, world, cut, held, joined, aborted, outcome, faults>>
      /\ fetched' = [fetched EXCEPT ![s] = @ \cup {new}]
  BY DEF Fetch, written
<1>6. /\ fetched' \in [Sync -> SUBSET (Url \X DOMAIN Releases)]
      /\ fetched'[s] = fetched[s] \cup {new}
      /\ \A t \in Sync \ {s} : fetched'[t] = fetched[t]
  BY <1>1, <1>2, <1>5 DEF Typed, TypeOK
<1>7. /\ cut \in [Sync -> SUBSET Url]
      /\ held \in [Sync -> SUBSET Key] /\ joined \in [Sync -> SUBSET (Key \X Key)]
      /\ aborted \in [Sync -> {"no", "refused", "deadlock", "lost"}]
      /\ faults \in 0 .. MaxFaults
  BY <1>1 DEF Typed, TypeOK
<1>8. Typed'
  BY <1>1, <1>4, <1>5, <1>6, <1>7, TypedAfter
<1>9. Place(s)'
  BY <1>1, <1>4, <1>5, PlaceAfter
<1>10. /\ todo'[s] = Plan(b) /\ (Plan(b) # {} => pc'[s] = "write" /\ url'[s] = url[s])
       /\ pc'[s] # "done"
       /\ \A t \in Sync \ {s} : pc'[t] = pc[t] /\ url'[t] = url[t] /\ todo'[t] = todo[t]
  BY <1>1, <1>4, GoesOn
<1>11. Carried(s)'
  <2> SUFFICES ASSUME aborted[s] = "no", NEW f \in fetched'[s], f[1] \notin cut[s],
                      NEW st \in Plan(Bundle(f))
               PROVE  (Open(s, f, st) \/ Effect(s, Bundle(f), st))'
    BY <1>5 DEF Carried, Bundle
  <2>1. CASE f = new
    <3>1. Bundle(f) = b
      BY <2>1 DEF Bundle, b
    <3>2. st \in todo'[s] /\ Same(st, st) /\ Plan(b) # {} /\ f[1] = url[s]
      BY <1>10, <2>1, <3>1 DEF Same
    <3> QED
      BY <1>10, <3>2 DEF Open
  <2>2. CASE f \in fetched[s]
    <3>1. ~Open(s, f, st)
      BY <1>1 DEF Open
    <3>2. Effect(s, Bundle(f), st)
      BY <1>1, <2>2, <3>1 DEF SyncOK, Carried
    <3> QED
      BY <1>5, <3>2 DEF Effect, Bundle
  <2> QED
    BY <1>6, <2>1, <2>2
<1>12. Grounded(s)'
  <2>1. \A l \in joined[s] : Ends(s, l)
    BY <1>1 DEF SyncOK, Grounded
  <2>2. \A l \in joined'[s] : Ends(s, l)'
    BY <1>5, <2>1 DEF Ends, There
  <2>3. ASSUME NEW o \in Plan(b), o.rank = 3
        PROVE  Coming(s, o.key)'
    <3>1. /\ o.op = "find" /\ o.pos \in DOMAIN b /\ o.key = b[o.pos] /\ Asks("link", o.key)
      BY <1>3, <2>3, PlanHas
    <3>2. Asks(Kinds[2], b[o.pos])
      BY <3>1, KindsNumbered DEF Asks
    <3>3. Ask(b, 2, o.pos) \in Plan(b)
      BY <1>3, <3>1, <3>2, PlanHas
    <3>4. Ask(b, 2, o.pos).rank = 2 /\ Ask(b, 2, o.pos).key = o.key
      BY <3>1 DEF Ask
    <3> QED
      BY <1>10, <3>3, <3>4 DEF Coming
  <2>4. \A o \in Plan(b) : o.op # "link"
    BY <1>4
  <2> QED
    BY <1>10, <2>2, <2>3, <2>4 DEF Grounded
<1>13. Kept(s)'
  BY <1>9, <1>10, NothingKept
<1>14. \A t \in Sync \ {s} : Unmoved(t)
  BY <1>5, <1>6, <1>10 DEF Unmoved
<1> QED
  BY <1>5, <1>8, <1>9, <1>11, <1>12, <1>13, <1>14, OneMoves DEF SyncOK, Grows

(* The sync gives a bundle up on its own side.                             *)
LEMMA GivesUp ==
  ASSUME IInv, NEW s \in Sync, pc[s] \in {"fetch", "write"},
         cut' = [cut EXCEPT ![s] = @ \cup {url[s]}], Proceed(s, {}),
         UNCHANGED <<table, links, world, fetched, held, joined, aborted, outcome>>,
         faults' \in 0 .. MaxFaults, UNCHANGED idle
  PROVE  IInv'
<1>1. Typed /\ SyncOK(s)
  BY DEF IInv
<1>2. url[s] \in Url /\ {} \in SUBSET Stmt
  BY <1>1 DEF SyncOK, Place
<1>3. /\ cut' \in [Sync -> SUBSET Url] /\ cut'[s] = cut[s] \cup {url[s]}
      /\ \A t \in Sync \ {s} : cut'[t] = cut[t]
  BY <1>1, <1>2 DEF Typed, TypeOK
<1>4. /\ fetched \in [Sync -> SUBSET (Url \X DOMAIN Releases)]
      /\ held \in [Sync -> SUBSET Key] /\ joined \in [Sync -> SUBSET (Key \X Key)]
      /\ aborted \in [Sync -> {"no", "refused", "deadlock", "lost"}]
  BY <1>1 DEF Typed, TypeOK
<1>5. Typed'
  BY <1>1, <1>2, <1>3, <1>4, TypedAfter
<1>6. Place(s)'
  BY <1>1, <1>2, PlaceAfter
<1>7. /\ todo'[s] = {} /\ pc'[s] # "done"
      /\ \A t \in Sync \ {s} : pc'[t] = pc[t] /\ url'[t] = url[t] /\ todo'[t] = todo[t]
  BY <1>1, <1>2, GoesOn
<1>8. Carried(s)'
  <2> SUFFICES ASSUME aborted[s] = "no", NEW f \in fetched[s], f[1] \notin cut'[s],
                      NEW st \in Plan(Bundle(f))
               PROVE  Effect(s, Bundle(f), st)'
    BY DEF Carried, Bundle
  <2>1. f[1] \notin cut[s] /\ f[1] # url[s]
    BY <1>3
  <2>2. Effect(s, Bundle(f), st)
    BY <1>1, <2>1 DEF SyncOK, Carried, Open
  <2> QED
    BY <2>2 DEF Effect, Bundle
<1>9. Grounded(s)'
  <2>1. \A l \in joined[s] : Ends(s, l)
    BY <1>1 DEF SyncOK, Grounded
  <2> QED
    BY <1>7, <2>1 DEF Grounded, Ends, There
<1>10. Kept(s)'
  BY <1>6, <1>7, NothingKept
<1>11. \A t \in Sync \ {s} : Unmoved(t)
  BY <1>3, <1>7 DEF Unmoved
<1> QED
  BY <1>5, <1>6, <1>8, <1>9, <1>10, <1>11, OneMoves DEF SyncOK, Grows

(* The transaction has been aborted, now or before: nothing is promised.   *)
LEMMA Undone ==
  ASSUME IInv, NEW s \in Sync, pc[s] = "write", NEW why \in {"refused", "deadlock", "lost"},
         NEW rest \in SUBSET todo[s], Proceed(s, rest),
         \/ /\ aborted' = [aborted EXCEPT ![s] = why]
            /\ held' = [held EXCEPT ![s] = {}] /\ joined' = [joined EXCEPT ![s] = {}]
         \/ aborted[s] # "no" /\ UNCHANGED <<aborted, held, joined>>,
         UNCHANGED <<table, links, world, fetched, cut, outcome>>,
         faults' \in 0 .. MaxFaults, UNCHANGED idle
  PROVE  IInv'
<1>1. Typed /\ SyncOK(s)
  BY DEF IInv
<1>2. rest \in SUBSET Stmt /\ \A o \in rest : o.op = "upsert" <=> o.rank # 3
  BY <1>1 DEF Typed, SyncOK, Place
<1>3. /\ fetched \in [Sync -> SUBSET (Url \X DOMAIN Releases)] /\ cut \in [Sync -> SUBSET Url]
      /\ held \in [Sync -> SUBSET Key] /\ joined \in [Sync -> SUBSET (Key \X Key)]
      /\ aborted \in [Sync -> {"no", "refused", "deadlock", "lost"}]
  BY <1>1 DEF Typed, TypeOK
<1>4. /\ held' \in [Sync -> SUBSET Key] /\ joined' \in [Sync -> SUBSET (Key \X Key)]
      /\ aborted' \in [Sync -> {"no", "refused", "deadlock", "lost"}]
      /\ aborted'[s] # "no" /\ (joined'[s] = {} \/ (held'[s] = held[s] /\ joined'[s] = joined[s]))
      /\ \A t \in Sync \ {s} : held'[t] = held[t] /\ joined'[t] = joined[t] /\ aborted'[t] = aborted[t]
  <2>1. CASE /\ aborted' = [aborted EXCEPT ![s] = why]
             /\ held' = [held EXCEPT ![s] = {}] /\ joined' = [joined EXCEPT ![s] = {}]
    <3>1. aborted' \in [Sync -> {"no", "refused", "deadlock", "lost"}] /\ aborted'[s] = why
      BY <1>3, <2>1
    <3>2. held' \in [Sync -> SUBSET Key] /\ joined' \in [Sync -> SUBSET (Key \X Key)]
      BY <1>3, <2>1
    <3>3. joined'[s] = {} /\ why # "no"
      BY <1>3, <2>1
    <3>4. \A t \in Sync \ {s} : held'[t] = held[t] /\ joined'[t] = joined[t] /\ aborted'[t] = aborted[t]
      BY <1>3, <2>1
    <3> QED
      BY <3>1, <3>2, <3>3, <3>4
  <2>2. CASE aborted[s] # "no" /\ UNCHANGED <<aborted, held, joined>>
    BY <1>3, <2>2
  <2> QED
    BY <2>1, <2>2
<1>5. Typed'
  BY <1>1, <1>2, <1>3, <1>4, TypedAfter
<1>6. Place(s)'
  BY <1>1, <1>2, PlaceAfter
<1>7. /\ pc'[s] # "done"
      /\ \A t \in Sync \ {s} : pc'[t] = pc[t] /\ url'[t] = url[t] /\ todo'[t] = todo[t]
  BY <1>1, <1>2, GoesOn
<1>8. Carried(s)' /\ Kept(s)'
  BY <1>4 DEF Carried, Kept
<1>9. Grounded(s)'
  <2>1. \A l \in joined[s] : Ends(s, l)
    BY <1>1 DEF SyncOK, Grounded
  <2>2. \A l \in joined'[s] : Ends(s, l)'
    BY <1>4, <2>1 DEF Ends, There
  <2> QED
    BY <1>4, <2>2 DEF Grounded
<1>10. \A t \in Sync \ {s} : Unmoved(t)
  BY <1>4, <1>7 DEF Unmoved
<1> QED
  BY <1>5, <1>6, <1>8, <1>9, <1>10, OneMoves DEF SyncOK, Grows

(* The statement at hand, when the sync writes.                            *)
LEMMA AtHand ==
  ASSUME Typed, NEW s \in Sync, SyncOK(s), pc[s] = "write"
  PROVE  /\ todo[s] \subseteq Stmt /\ Statement(s) \in todo[s]
         /\ Others(s) \in SUBSET Stmt
         /\ \A o \in todo[s] : o \in Others(s) \/ o = Statement(s)
         /\ \A o \in todo[s] : o.op = "upsert" <=> o.rank # 3
         /\ Statement(s).rank = 3 => \A o \in todo[s] : o.rank \in Nat /\ o.rank >= 3
<1>1. todo[s] \subseteq Stmt /\ todo[s] # {}
  BY DEF Typed, TypeOK
<1>2. Statement(s) \in todo[s] /\ \A o \in todo[s] : Comes(Statement(s), o)
  BY <1>1, FirstStatement
<1>3. ASSUME NEW o \in todo[s], Statement(s).rank = 3 PROVE o.rank \in Nat /\ o.rank >= 3
  <2>1. o.rank \in Nat
    BY <1>1 DEF Stmt
  <2>2. Comes(Statement(s), o)
    BY <1>2
  <2>3. 3 < o.rank \/ 3 = o.rank
    BY <1>3, <2>2 DEF Comes
  <2> QED
    BY <2>1, <2>3
<1> QED
  BY <1>1, <1>2, <1>3 DEF Others, SyncOK, Place

(* A statement that is still to be run after this one.                     *)
LEMMA StaysOpen ==
  ASSUME NEW s \in Sync, NEW f, NEW st, NEW o \in todo'[s], Same(o, st),
         pc'[s] = "write" <=> todo'[s] # {}, f[1] = url[s], todo'[s] # {} => url'[s] = url[s]
  PROVE  Open(s, f, st)'
BY DEF Open

(* The facts that all statements that are carried out share.               *)
LEMMA RunKeeps ==
  ASSUME IInv, NEW s \in Sync, pc[s] = "write", aborted[s] = "no",
         NEW rest \in SUBSET Stmt, Proceed(s, rest), Others(s) \subseteq rest,
         \A o \in rest : o.op = "upsert" <=> o.rank # 3,
         UNCHANGED <<table, links, world, fetched, cut, aborted, outcome, faults, idle>>,
         held' \in [Sync -> SUBSET Key], joined' \in [Sync -> SUBSET (Key \X Key)],
         held[s] \subseteq held'[s], joined[s] \subseteq joined'[s],
         \A t \in Sync \ {s} : held'[t] = held[t] /\ joined'[t] = joined[t],
         \A f \in fetched[s] : f[1] \notin cut[s] => \A st \in Plan(Bundle(f)) :
            f[1] = url[s] /\ Same(Statement(s), st) =>
                (\E o \in rest : Same(o, st)) \/ Effect(s, Bundle(f), st)',
         Grounded(s)'
  PROVE  IInv'
<1>1. Typed /\ SyncOK(s)
  BY DEF IInv
<1>2. /\ fetched \in [Sync -> SUBSET (Url \X DOMAIN Releases)] /\ cut \in [Sync -> SUBSET Url]
      /\ aborted \in [Sync -> {"no", "refused", "deadlock", "lost"}]
      /\ faults \in 0 .. MaxFaults
  BY <1>1 DEF Typed, TypeOK
<1>3. Typed'
  BY <1>1, <1>2, TypedAfter
<1>4. Place(s)'
  BY <1>1, PlaceAfter
<1>5. /\ todo'[s] = rest /\ (pc'[s] = "write" <=> rest # {}) /\ pc'[s] # "done"
      /\ (rest # {} => url'[s] = url[s])
      /\ \A t \in Sync \ {s} : pc'[t] = pc[t] /\ url'[t] = url[t] /\ todo'[t] = todo[t]
  BY <1>1, GoesOn
<1>6. Carried(s)'
  <2> SUFFICES ASSUME NEW f \in fetched[s], f[1] \notin cut[s], NEW st \in Plan(Bundle(f))
               PROVE  Open(s, f, st)' \/ Effect(s, Bundle(f), st)'
    BY DEF Carried, Bundle
  <2>1. CASE Effect(s, Bundle(f), st)
    BY <2>1, EffectStays DEF Effect, Bundle
  <2>2. CASE Open(s, f, st)
    <3>1. PICK o \in todo[s] : Same(o, st)
      BY <2>2 DEF Open
    <3>2. CASE o \in rest
      BY <1>5, <2>2, <3>1, <3>2, StaysOpen DEF Open
    <3>3. CASE o = Statement(s)
      <4>1. (\E x \in rest : Same(x, st)) \/ Effect(s, Bundle(f), st)'
        BY <2>2, <3>1, <3>3 DEF Open
      <4> QED
        BY <1>5, <2>2, <4>1, StaysOpen DEF Open
    <3> QED
      BY <1>1, <3>2, <3>3, AtHand
  <2> QED
    BY <1>1, <2>1, <2>2 DEF SyncOK, Carried
<1>7. Kept(s)'
  BY <1>4, <1>5, NothingKept
<1>8. \A t \in Sync \ {s} : Unmoved(t)
  BY <1>5 DEF Unmoved
<1> QED
  BY <1>3, <1>4, <1>6, <1>7, <1>8, OneMoves DEF SyncOK, Grows

(* An object's row is written.                                             *)
LEMMA UpsertKeeps ==
  ASSUME IInv, NEW s \in Sync, Upsert(s), UNCHANGED idle
  PROVE  IInv'
<1> DEFINE first == Statement(s)
           rest == Others(s)
<1>1. Typed /\ SyncOK(s)
  BY DEF IInv
<1>2. pc[s] = "write" /\ aborted[s] = "no" /\ first.op = "upsert" /\ Proceed(s, rest)
  BY DEF Upsert, Runs
<1>3. /\ todo[s] \subseteq Stmt /\ first \in todo[s] /\ rest \in SUBSET Stmt /\ first.rank # 3
      /\ rest \subseteq todo[s] /\ \A o \in todo[s] : o \in rest \/ o = first
      /\ \A o \in rest : o.op = "upsert" <=> o.rank # 3
  BY <1>1, <1>2, AtHand DEF Others
<1>4. first.key \in Key
  BY <1>3 DEF Stmt
<1> HIDE DEF first, rest
<1>5. held' = [held EXCEPT ![s] = @ \cup {first.key}]
  BY DEF Upsert, first
<1>6. held \in [Sync -> SUBSET Key] /\ joined \in [Sync -> SUBSET (Key \X Key)]
  BY <1>1 DEF Typed, TypeOK
<1>7. /\ held' \in [Sync -> SUBSET Key] /\ held'[s] = held[s] \cup {first.key}
      /\ \A t \in Sync \ {s} : held'[t] = held[t]
  BY <1>4, <1>5, <1>6
<1>8. UNCHANGED <<table, links, world, fetched, cut, joined, aborted, outcome, faults>>
  BY DEF Upsert
<1>9. todo'[s] = rest
  BY <1>1, <1>2, <1>3, GoesOn
<1>10. ASSUME NEW f \in fetched[s], NEW st \in Plan(Bundle(f)), Same(first, st)
       PROVE  Effect(s, Bundle(f), st)'
  <2>1. st.op = "upsert" /\ st.key = first.key
    BY <1>1, <1>3, <1>10, FetchedBundle, PlanHas DEF Same
  <2> QED
    BY <1>7, <2>1 DEF Effect
<1>11. Grounded(s)'
  <2>1. There(s)' = There(s) \cup {first.key}
    BY <1>7, <1>8 DEF There
  <2>2. ASSUME NEW l \in joined[s] PROVE Ends(s, l)'
    BY <1>1, <2>1 DEF SyncOK, Grounded, Ends
  <2>3. ASSUME NEW o \in rest
        PROVE  /\ o.op = "link" => o.tactic \in There(s)' /\ Name[o.tactic] = Name[o.key]
               /\ o.rank = 3 => o.key \in There(s)' \/ Coming(s, o.key)'
    <3>1. /\ o.op = "link" => o.tactic \in There(s) /\ Name[o.tactic] = Name[o.key]
          /\ o.rank = 3 => o.key \in There(s) \/ Coming(s, o.key)
      BY <1>1, <1>2, <1>3 DEF SyncOK, Grounded
    <3>2. Coming(s, o.key) => o.key \in There(s)' \/ Coming(s, o.key)'
      BY <1>3, <1>9, <2>1 DEF Coming
    <3> QED
      BY <2>1, <3>1, <3>2
  <2> QED
    BY <1>8, <1>9, <2>2, <2>3 DEF Grounded
<1> QED
  BY <1>2, <1>3, <1>6, <1>7, <1>8, <1>10, <1>11, RunKeeps DEF first, rest

(* A tactic is looked up: its row is there if the bundle has it, because   *)
(* the bundle's tactics have been written before.                          *)
LEMMA FindKeeps ==
  ASSUME IInv, NEW s \in Sync, FindTactic(s), UNCHANGED idle
  PROVE  IInv'
<1>0. PICK first : first = Statement(s)
  OBVIOUS
<1> DEFINE found == {k \in table \cup held[s] : Kind[k] = "tactic" /\ Name[k] = Name[first.key]}
<1>1. Typed /\ SyncOK(s)
  BY DEF IInv
<1>2. pc[s] = "write" /\ aborted[s] = "no" /\ first.op = "find"
  BY <1>0 DEF FindTactic, Runs
<1>3. /\ todo[s] \subseteq Stmt /\ first \in todo[s] /\ first.rank = 3
      /\ Others(s) \subseteq todo[s] /\ \A o \in todo[s] : o \in Others(s) \/ o = first
      /\ \A o \in todo[s] : o.op = "upsert" <=> o.rank # 3
      /\ \A o \in todo[s] : o.rank \in Nat /\ o.rank >= 3
  BY <1>0, <1>1, <1>2, AtHand DEF Others
<1>4. /\ UNCHANGED <<table, links, world, fetched, cut, held, joined, aborted, outcome, faults>>
      /\ held \in [Sync -> SUBSET Key] /\ joined \in [Sync -> SUBSET (Key \X Key)]
      /\ table \subseteq Key
  BY <1>1 DEF FindTactic, written, Typed, TypeOK
<1>5. \/ found = {} /\ Proceed(s, Others(s))
      \/ \E t \in found : Proceed(s, Others(s) \cup {Joins(s, t)})
  BY <1>0 DEF FindTactic
<1>6. found \subseteq Key /\ found = {k \in There(s) : Kind[k] = "tactic" /\ Name[k] = Name[first.key]}
  BY <1>4 DEF There
<1>7. ASSUME NEW t \in found
      PROVE  /\ Joins(s, t) \in Stmt /\ Joins(s, t).op = "link" /\ Joins(s, t).tactic = t
             /\ Joins(s, t).rank = 3 /\ Same(Joins(s, t), first) /\ Joins(s, t).key = first.key
  <2>1. first \in Stmt /\ t \in Key
    BY <1>3, <1>6
  <2> HIDE DEF found
  <2> QED
    BY <1>0, <1>3, <2>1 DEF Joins, Stmt, Same
<1> HIDE DEF found
<1>8. PICK rest :
        /\ Proceed(s, rest)
        /\ \/ found = {} /\ rest = Others(s)
           \/ \E t \in found : rest = Others(s) \cup {Joins(s, t)}
  BY <1>5
<1>9. /\ rest \in SUBSET Stmt /\ Others(s) \subseteq rest
      /\ \A o \in rest : o.op = "upsert" <=> o.rank # 3
      /\ \A o \in rest : o \in Others(s) \/ \E t \in found : o = Joins(s, t)
  <2>1. CASE rest = Others(s)
    BY <1>3, <2>1
  <2>2. CASE \E t \in found : rest = Others(s) \cup {Joins(s, t)}
    BY <1>3, <1>7, <2>2
  <2> QED
    BY <1>8, <2>1, <2>2
<1>10. todo'[s] = rest
  BY <1>1, <1>2, <1>8, <1>9, GoesOn
<1>11. ASSUME NEW f \in fetched[s], f[1] \notin cut[s], NEW st \in Plan(Bundle(f)), Same(first, st)
       PROVE  (\E o \in rest : Same(o, st)) \/ Effect(s, Bundle(f), st)'
  <2>1. CASE found # {}
    <3>1. PICK t \in found : rest = Others(s) \cup {Joins(s, t)}
      BY <1>8, <2>1
    <3>2. Same(Joins(s, t), st)
      BY <1>7, <1>11 DEF Same
    <3> QED
      BY <3>1, <3>2
  <2>2. CASE found = {}
    <3> DEFINE b == Bundle(f)
    <3>1. b \in Seq(Key)
      BY <1>1, FetchedBundle
    <3>2. st.op = "find" /\ st.key = first.key
      BY <1>3, <1>11, <3>1, PlanHas DEF Same
    <3>3. ASSUME HasTactic(b, first.key) PROVE FALSE
      <4>1. PICK i \in DOMAIN b : Kind[b[i]] = "tactic" /\ Name[b[i]] = Name[first.key]
        BY <3>3 DEF HasTactic, Range
      <4> DEFINE up == Ask(b, 1, i)
      <4>2. Asks(Kinds[1], b[i]) /\ Kinds[1] # "link"
        BY <4>1, KindsNumbered DEF Asks
      <4>3. up \in Plan(b)
        BY <3>1, <4>2, PlanHas
      <4>4. up.rank = 1 /\ up.op = "upsert" /\ up.key = b[i]
        BY <4>2 DEF Ask
      <4>5. Open(s, f, up) \/ Effect(s, b, up)
        BY <1>1, <1>2, <1>11, <4>3 DEF SyncOK, Carried
      <4>6. ~Open(s, f, up)
        BY <1>3, <4>4 DEF Open, Same
      <4>7. b[i] \in held[s]
        BY <4>4, <4>5, <4>6 DEF Effect
      <4>8. b[i] \in found
        BY <1>6, <4>1, <4>7 DEF There
      <4> QED
        BY <2>2, <4>8
    <3> QED
      BY <3>2, <3>3 DEF Effect, Bundle, HasTactic
  <2> QED
    BY <2>1, <2>2
<1>12. Grounded(s)'
  <2>1. There(s)' = There(s)
    BY <1>4 DEF There
  <2>2. ASSUME NEW l \in joined[s] PROVE Ends(s, l)'
    BY <1>1, <2>1 DEF SyncOK, Grounded, Ends
  <2>3. ASSUME NEW q, q \in There(s) \/ Coming(s, q) PROVE q \in There(s)' \/ Coming(s, q)'
    BY <1>3, <1>9, <1>10, <2>1, <2>3 DEF Coming
  <2>4. ASSUME NEW o \in todo[s]
        PROVE  /\ o.op = "link" => o.tactic \in There(s)' /\ Name[o.tactic] = Name[o.key]
               /\ o.rank = 3 => o.key \in There(s)' \/ Coming(s, o.key)'
    BY <1>1, <1>2, <2>1, <2>3 DEF SyncOK, Grounded
  <2>5. ASSUME NEW o, NEW t \in found, o = Joins(s, t)
        PROVE  /\ o.op = "link" => o.tactic \in There(s)' /\ Name[o.tactic] = Name[o.key]
               /\ o.rank = 3 => o.key \in There(s)' \/ Coming(s, o.key)'
    <3>1. t \in There(s) /\ Name[t] = Name[first.key]
      BY <1>6
    <3>2. first.key \in There(s)' \/ Coming(s, first.key)'
      BY <1>3, <2>4
    <3> QED
      BY <1>7, <2>1, <2>5, <3>1, <3>2
  <2>6. ASSUME NEW o \in rest
        PROVE  /\ o.op = "link" => o.tactic \in There(s)' /\ Name[o.tactic] = Name[o.key]
               /\ o.rank = 3 => o.key \in There(s)' \/ Coming(s, o.key)'
    <3>1. CASE o \in Others(s)
      BY <1>3, <2>4, <3>1
    <3>2. CASE \E t \in found : o = Joins(s, t)
      BY <2>5, <3>2
    <3> QED
      BY <1>9, <3>1, <3>2
  <2> QED
    BY <1>4, <1>10, <2>2, <2>6 DEF Grounded
<1> QED
  BY <1>0, <1>2, <1>4, <1>8, <1>9, <1>11, <1>12, RunKeeps

(* A link is inserted, between rows that are there.                        *)
LEMMA LinkKeeps ==
  ASSUME IInv, NEW s \in Sync, Link(s), UNCHANGED idle
  PROVE  IInv'
<1>0. PICK first, pair : first = Statement(s) /\ pair = <<first.tactic, first.key>>
  OBVIOUS
<1> DEFINE rest == Others(s)
<1>1. Typed /\ SyncOK(s)
  BY DEF IInv
<1>2. pc[s] = "write" /\ aborted[s] = "no" /\ first.op = "link" /\ Proceed(s, rest)
  BY <1>0 DEF Link, Runs
<1>3. /\ todo[s] \subseteq Stmt /\ first \in todo[s] /\ first.rank = 3
      /\ rest \in SUBSET Stmt /\ rest \subseteq todo[s]
      /\ \A o \in rest : o.op = "upsert" <=> o.rank # 3
      /\ \A o \in todo[s] : o.rank \in Nat /\ o.rank >= 3
  BY <1>0, <1>1, <1>2, AtHand DEF Others
<1>4. pair \in Key \X Key /\ pair[1] = first.tactic /\ pair[2] = first.key
  BY <1>0, <1>3 DEF Stmt
<1>5. first.tactic \in There(s) /\ Name[first.tactic] = Name[first.key] /\ first.key \in There(s)
  <2>1. ~Coming(s, first.key)
    BY <1>3 DEF Coming
  <2> QED
    BY <1>1, <1>2, <1>3, <2>1 DEF SyncOK, Grounded
<1>6. /\ UNCHANGED <<table, links, world, fetched, cut, held, aborted, outcome, faults>>
      /\ joined' = [joined EXCEPT ![s] = IF pair \in links THEN @ ELSE @ \cup {pair}]
  BY <1>0 DEF Link
<1>7. held \in [Sync -> SUBSET Key] /\ joined \in [Sync -> SUBSET (Key \X Key)]
  BY <1>1 DEF Typed, TypeOK
<1> HIDE DEF rest
<1>8. /\ joined' \in [Sync -> SUBSET (Key \X Key)]
      /\ joined[s] \subseteq joined'[s] /\ joined'[s] \subseteq joined[s] \cup {pair}
      /\ pair \in joined'[s] \cup links
      /\ \A t \in Sync \ {s} : joined'[t] = joined[t]
  BY <1>4, <1>6, <1>7
<1>9. todo'[s] = rest
  BY <1>1, <1>2, <1>3, GoesOn
<1>10. ASSUME NEW f \in fetched[s], NEW st \in Plan(Bundle(f)), Same(first, st)
       PROVE  Effect(s, Bundle(f), st)'
  <2>1. st.op # "upsert" /\ st.key = first.key
    BY <1>1, <1>3, <1>10, FetchedBundle, PlanHas DEF Same
  <2>2. Joint(pair, st.key)
    BY <1>4, <1>5, <2>1 DEF Joint
  <2> QED
    BY <1>6, <1>8, <2>1, <2>2 DEF Effect
<1>11. Grounded(s)'
  <2>1. There(s)' = There(s)
    BY <1>6 DEF There
  <2>2. Ends(s, pair)'
    BY <1>4, <1>5, <2>1 DEF Ends
  <2>3. ASSUME NEW l \in joined'[s] PROVE Ends(s, l)'
    BY <1>1, <1>8, <2>1, <2>2 DEF SyncOK, Grounded, Ends
  <2>4. ASSUME NEW o \in rest
        PROVE  /\ o.op = "link" => o.tactic \in There(s)' /\ Name[o.tactic] = Name[o.key]
               /\ o.rank = 3 => o.key \in There(s)' \/ Coming(s, o.key)'
    <3>1. ~Coming(s, o.key)
      BY <1>3 DEF Coming
    <3> QED
      BY <1>1, <1>2, <1>3, <2>1, <3>1 DEF SyncOK, Grounded
  <2> QED
    BY <1>9, <2>3, <2>4 DEF Grounded
<1> QED
  BY <1>0, <1>2, <1>3, <1>6, <1>7, <1>8, <1>10, <1>11, RunKeeps DEF rest

(* The commit adds what the sync holds to the catalogue: whole bundles.    *)
LEMMA WholeBundle ==
  ASSUME Typed, NEW s \in Sync, SyncOK(s), pc[s] = "commit", aborted[s] = "no",
         NEW f \in fetched[s], f[1] \notin cut[s],
         held[s] \subseteq table', joined[s] \cup links \subseteq links'
  PROVE  Saved(Bundle(f))'
<1> DEFINE b == Bundle(f)
<1>1. b \in Seq(Key)
  BY FetchedBundle
<1>2. ASSUME NEW st \in Plan(b) PROVE Effect(s, b, st)
  BY DEF SyncOK, Carried, Open
<1>3. ASSUME NEW i \in DOMAIN b PROVE b[i] \in held[s]
  <2>1. b[i] \in Key /\ Kind[b[i]] \in Range(Kinds) \ {"link"}
    BY <1>1, KindAssumption
  <2>2. PICK n \in 1 .. 7 : Kinds[n] = Kind[b[i]]
    BY <2>1, KindsNumbered
  <2>3. Kinds[n] # "link" /\ Asks(Kinds[n], b[i])
    BY <2>1, <2>2 DEF Asks
  <2>4. Ask(b, n, i) \in Plan(b)
    BY <1>1, <2>3, PlanHas
  <2>5. Ask(b, n, i).op = "upsert" /\ Ask(b, n, i).key = b[i]
    BY <2>3 DEF Ask
  <2> QED
    BY <1>2, <2>4, <2>5 DEF Effect
<1>4. ASSUME NEW i \in DOMAIN b, NEW t \in Range(b), Asks("link", b[i]),
             Kind[t] = "tactic", Name[b[i]] = Name[t]
      PROVE  \E l \in links' : l[2] = b[i] /\ Name[l[1]] = Name[b[i]]
  <2>1. Ask(b, 3, i) \in Plan(b)
    BY <1>1, <1>4, KindsNumbered, PlanHas
  <2>2. Ask(b, 3, i).op = "find" /\ Ask(b, 3, i).key = b[i]
    BY KindsNumbered DEF Ask
  <2>3. HasTactic(b, b[i])
    BY <1>4 DEF HasTactic
  <2>4. \E l \in joined[s] \cup links : Joint(l, b[i])
    BY <1>2, <2>1, <2>2, <2>3 DEF Effect
  <2> QED
    BY <2>4 DEF Joint
<1> QED
  BY <1>3, <1>4 DEF Saved, Linked, Range, Bundle

LEMMA CommitKeeps ==
  ASSUME IInv, NEW s \in Sync, Commit(s), UNCHANGED idle
  PROVE  IInv'
<1>1. Typed /\ SyncOK(s) /\ pc[s] = "commit"
  BY DEF IInv, Commit
<1>2. /\ table \subseteq Key
      /\ \A l \in links : l[1] \in table /\ l[2] \in table /\ Name[l[1]] = Name[l[2]]
      /\ pc \in [Sync -> {"fetch", "write", "commit", "done"}]
      /\ held \in [Sync -> SUBSET Key] /\ joined \in [Sync -> SUBSET (Key \X Key)]
      /\ outcome \in [Sync -> {"none", "completed", "failed"}]
      /\ \A t \in Sync : pc[t] = "write" <=> todo[t] # {}
  BY <1>1 DEF Typed, TypeOK
<1>3. /\ table' = table \cup held[s] /\ links' = links \cup joined[s]
      /\ pc' = [pc EXCEPT ![s] = "done"]
      /\ held' = [held EXCEPT ![s] = {}] /\ joined' = [joined EXCEPT ![s] = {}]
      /\ outcome' = [outcome EXCEPT ![s] = IF aborted[s] = "lost" THEN "failed" ELSE "completed"]
      /\ UNCHANGED <<world, url, todo, fetched, cut, aborted, faults>>
  BY DEF Commit
<1>4. /\ pc' \in [Sync -> {"fetch", "write", "commit", "done"}] /\ pc'[s] = "done"
      /\ \A t \in Sync \ {s} : pc'[t] = pc[t]
  BY <1>2, <1>3
<1>5. /\ held' \in [Sync -> SUBSET Key] /\ joined' \in [Sync -> SUBSET (Key \X Key)]
      /\ joined'[s] = {}
      /\ \A t \in Sync \ {s} : held'[t] = held[t] /\ joined'[t] = joined[t]
  BY <1>2, <1>3
<1>6. /\ outcome' \in [Sync -> {"none", "completed", "failed"}]
      /\ \A t \in Sync \ {s} : outcome'[t] = outcome[t]
  BY <1>2, <1>3
<1>7. todo[s] = {} /\ \A t \in Sync : pc'[t] = "write" <=> todo[t] # {}
  <2>1. todo[s] = {}
    BY <1>1, <1>2
  <2>2. ASSUME NEW t \in Sync PROVE pc'[t] = "write" <=> todo[t] # {}
    <3>1. CASE t = s
      BY <1>4, <2>1, <3>1
    <3>2. CASE t # s
      BY <1>2, <1>4, <3>2
    <3> QED
      BY <3>1, <3>2
  <2> QED
    BY <2>1, <2>2
<1>8. ASSUME NEW l \in links' PROVE l[1] \in table' /\ l[2] \in table' /\ Name[l[1]] = Name[l[2]]
  <2>1. CASE l \in links
    BY <1>2, <1>3, <2>1
  <2>2. CASE l \in joined[s]
    BY <1>1, <1>3, <2>2 DEF SyncOK, Grounded, Ends, There
  <2> QED
    BY <1>3, <2>1, <2>2
<1>9. Typed'
  <2>1. table' \subseteq Key
    BY <1>2, <1>3
  <2> QED
    BY <1>1, <1>3, <1>4, <1>5, <1>6, <1>7, <1>8, <2>1 DEF Typed, TypeOK, world
<1>10. Grows
  BY <1>3 DEF Grows
<1>11. Place(s)' /\ Carried(s)' /\ Grounded(s)'
  BY <1>3, <1>4, <1>5, <1>7 DEF Place, Carried, Grounded
<1>12. Kept(s)'
  <2> SUFFICES ASSUME aborted[s] = "no", NEW f \in fetched[s], f[1] \notin cut[s]
               PROVE  Saved(Bundle(f))'
    BY <1>3 DEF Kept, Bundle
  <2> QED
    BY <1>1, <1>3, WholeBundle
<1>13. \A t \in Sync \ {s} : Unmoved(t)
  BY <1>3, <1>4, <1>5, <1>6 DEF Unmoved
<1> QED
  BY <1>9, <1>10, <1>11, <1>12, <1>13, OneMoves DEF SyncOK

-----------------------------------------------------------------------------
(* MITRE publishes; and a step that changes nothing.                       *)
LEMMA StutterKeeps ==
  ASSUME IInv, UNCHANGED vars
  PROVE  IInv'
<1>1. Typed'
  BY DEF IInv, Typed, TypeOK, vars
<1>2. ASSUME NEW t \in Sync PROVE SyncOK(t)'
  <2>1. Unmoved(t) /\ Grows /\ SyncOK(t)
    BY DEF IInv, Unmoved, Grows, vars
  <2> QED
    BY <2>1, OthersKeep
<1> QED
  BY <1>1, <1>2 DEF IInv

LEMMA PublishKeeps ==
  ASSUME IInv, Publish, UNCHANGED idle
  PROVE  IInv'
<1>1. release' \in DOMAIN Releases
  <2>1. release \in 1 .. Len(Releases) /\ DOMAIN Releases = 1 .. Len(Releases)
    BY ReleasesShape DEF IInv, Typed, TypeOK
  <2> QED
    BY <2>1, ReleasesShape DEF Publish
<1>2. UNCHANGED <<table, links, grade, pc, url, todo, fetched, cut, held, joined, aborted, outcome, faults, idle>>
  BY DEF Publish, written
<1>3. Typed'
  BY <1>1, <1>2 DEF IInv, Typed, TypeOK
<1>4. ASSUME NEW t \in Sync PROVE SyncOK(t)'
  <2>1. Unmoved(t) /\ Grows /\ SyncOK(t)
    BY <1>2 DEF IInv, Unmoved, Grows
  <2> QED
    BY <2>1, OthersKeep
<1> QED
  BY <1>3, <1>4 DEF IInv

(* The steps that abort the transaction, or find it aborted.               *)
LEMMA AbortKeeps ==
  ASSUME IInv, NEW s \in Sync, pc[s] = "write", NEW why \in {"refused", "deadlock", "lost"},
         Abort(s, why), UNCHANGED <<table, links, world, fetched, cut, outcome>>,
         faults' \in 0 .. MaxFaults, UNCHANGED idle
  PROVE  IInv'
<1> DEFINE rest == IF Statement(s).op = "link" THEN Others(s) ELSE {}
<1>1. rest \in SUBSET todo[s] /\ Proceed(s, rest)
  BY DEF Others, Abort
<1> HIDE DEF rest
<1> QED
  BY <1>1, Undone DEF Abort

LEMMA FaultCounts == ASSUME IInv, Fault PROVE faults' \in 0 .. MaxFaults
BY FaultsAssumption DEF IInv, Typed, TypeOK, Fault

(* An exception ends the sync, whether the server has committed or not.    *)
LEMMA RaisesKeeps ==
  ASSUME IInv, NEW s \in Sync, Raises(s), UNCHANGED <<world, url, fetched, cut, aborted, idle>>,
         \/ UNCHANGED <<table, links>>
         \/ table' = table \cup held[s] /\ links' = links \cup joined[s],
         faults' \in 0 .. MaxFaults
  PROVE  IInv'
<1>1. Typed /\ SyncOK(s)
  BY DEF IInv
<1>2. /\ table \subseteq Key
      /\ \A l \in links : l[1] \in table /\ l[2] \in table /\ Name[l[1]] = Name[l[2]]
      /\ pc \in [Sync -> {"fetch", "write", "commit", "done"}] /\ todo \in [Sync -> SUBSET Stmt]
      /\ held \in [Sync -> SUBSET Key] /\ joined \in [Sync -> SUBSET (Key \X Key)]
      /\ outcome \in [Sync -> {"none", "completed", "failed"}]
      /\ \A t \in Sync : pc[t] = "write" <=> todo[t] # {}
  BY <1>1 DEF Typed, TypeOK
<1>3. /\ pc' \in [Sync -> {"fetch", "write", "commit", "done"}] /\ pc'[s] = "done"
      /\ todo' \in [Sync -> SUBSET Stmt] /\ todo'[s] = {}
      /\ \A t \in Sync \ {s} : pc'[t] = pc[t] /\ todo'[t] = todo[t]
  BY <1>2 DEF Raises
<1>4. /\ held' \in [Sync -> SUBSET Key] /\ joined' \in [Sync -> SUBSET (Key \X Key)]
      /\ joined'[s] = {}
      /\ \A t \in Sync \ {s} : held'[t] = held[t] /\ joined'[t] = joined[t]
  BY <1>2 DEF Raises
<1>5. /\ outcome' \in [Sync -> {"none", "completed", "failed"}] /\ outcome'[s] = "failed"
      /\ \A t \in Sync \ {s} : outcome'[t] = outcome[t]
  BY <1>2 DEF Raises
<1>6. \A t \in Sync : pc'[t] = "write" <=> todo'[t] # {}
  <2> TAKE t \in Sync
  <2>1. CASE t = s
    BY <1>3, <2>1
  <2>2. CASE t # s
    BY <1>2, <1>3, <2>2
  <2> QED
    BY <2>1, <2>2
<1>7. ASSUME NEW l \in links' PROVE l[1] \in table' /\ l[2] \in table' /\ Name[l[1]] = Name[l[2]]
  <2>1. CASE l \in links
    BY <1>2, <2>1
  <2>2. CASE l \notin links
    BY <1>1, <2>2 DEF SyncOK, Grounded, Ends, There
  <2> QED
    BY <2>1, <2>2
<1>8. \A t \in Sync : \A st \in todo'[t] : st.key \in Key /\ st.tactic \in Key
  BY <1>3 DEF Stmt
<1>9. Typed'
  <2>1. table' \subseteq Key
    BY <1>2
  <2>2. /\ fetched' = fetched /\ cut' = cut /\ aborted' = aborted /\ url' = url /\ idle' = idle
        /\ release' = release /\ grade' = grade
    BY DEF world
  <2> QED
    BY <1>1, <1>3, <1>4, <1>5, <1>6, <1>7, <1>8, <2>1, <2>2 DEF Typed, TypeOK
<1>10. Place(s)' /\ Carried(s)' /\ Grounded(s)' /\ Kept(s)'
  BY <1>3, <1>4, <1>5 DEF Place, Carried, Grounded, Kept
<1>11. (\A t \in Sync \ {s} : Unmoved(t)) /\ Grows
  BY <1>3, <1>4, <1>5 DEF Unmoved, Grows
<1> QED
  BY <1>9, <1>10, <1>11, OneMoves DEF SyncOK

(* A sync that stops, or goes on after it, keeps what it has.              *)
LEMMA PausesKeep ==
  ASSUME IInv, NEW s \in Sync, Stop(s) \/ Resume(s)
  PROVE  IInv' /\ \A t \in Sync : Unmoved(t)
<1>1. /\ UNCHANGED <<table, links, release, grade, pc, url, todo, fetched, cut, held, joined, aborted, outcome>>
      /\ idle' \subseteq Sync /\ faults' \in 0 .. MaxFaults
  BY FaultCounts DEF Stop, Resume, world, written, IInv, Typed, TypeOK
<1>2. Typed'
  BY <1>1 DEF IInv, Typed, TypeOK
<1>3. ASSUME NEW t \in Sync PROVE SyncOK(t)' /\ Unmoved(t)
  <2>1. Unmoved(t) /\ Grows /\ SyncOK(t)
    BY <1>1 DEF IInv, Unmoved, Grows
  <2> QED
    BY <2>1, OthersKeep
<1> QED
  BY <1>2, <1>3 DEF IInv

LEMMA StepKeeps ==
  ASSUME IInv, NEW s \in Sync, Moves(s)
  PROVE  IInv'
<1>1. faults \in 0 .. MaxFaults /\ UNCHANGED idle
  BY DEF IInv, Typed, TypeOK, Moves
<1>2. CASE FetchFails(s)
  <2>1. faults' \in 0 .. MaxFaults
    BY <1>2, FaultCounts DEF FetchFails
  <2> QED
    BY <1>1, <1>2, <2>1, GivesUp DEF FetchFails, written
<1>3. CASE Odd(s)
  BY <1>1, <1>3, GivesUp DEF Odd, written
<1>4. CASE Refused(s)
  BY <1>1, <1>4, AbortKeeps DEF Refused, Runs
<1>5. CASE DeadlockVictim(s)
  <2>1. WaitsFor(s) # {}
    BY <1>5 DEF DeadlockVictim, Deadlocked
  <2>2. pc[s] = "write"
    BY <2>1 DEF WaitsFor
  <2> QED
    BY <1>1, <1>5, <2>2, AbortKeeps DEF DeadlockVictim
<1>6. CASE ConnectionLost(s)
  <2>1. faults' \in 0 .. MaxFaults
    BY <1>6, FaultCounts DEF ConnectionLost
  <2> QED
    BY <1>1, <1>6, <2>1, AbortKeeps DEF ConnectionLost
<1>7. CASE Fails(s)
  <2>1. {} \in SUBSET todo[s] /\ "lost" \in {"refused", "deadlock", "lost"}
    OBVIOUS
  <2> QED
    BY <1>1, <1>7, <2>1, Undone DEF Fails, written
<1>8. CASE CommitUnanswered(s) \/ Kill(s)
  <2>1. faults' \in 0 .. MaxFaults
    BY <1>8, FaultCounts DEF CommitUnanswered, Kill
  <2> QED
    BY <1>8, <2>1, RaisesKeeps DEF CommitUnanswered, Kill, Moves
<1> QED
  BY <1>2, <1>3, <1>4, <1>5, <1>6, <1>7, <1>8, FetchKeeps, UpsertKeeps, FindKeeps, LinkKeeps,
     CommitKeeps DEF Step, Breaks, Moves

(* IInv is an inductive invariant of the syncs.                            *)
LEMMA Inductive == Spec => []IInv
<1>1. IInv /\ [Next]_vars => IInv'
  <2> SUFFICES ASSUME IInv, [Next]_vars PROVE IInv'
    OBVIOUS
  <2>1. CASE \E s \in Sync : Moves(s)
    BY <2>1, StepKeeps
  <2>2. CASE Publish /\ UNCHANGED idle
    BY <2>2, PublishKeeps
  <2>3. CASE UNCHANGED vars
    BY <2>3, StutterKeeps
  <2>4. CASE \E s \in Sync : Stop(s) \/ Resume(s)
    BY <2>4, PausesKeep
  <2> QED
    BY <2>1, <2>2, <2>3, <2>4 DEF Next, Finished, Proceeds, Moves
<1> QED
  BY <1>1, Starts, PTL DEF Spec

(* What the syncs and the catalogue hold has its type, and both ends of    *)
(* every link are rows: services/mitre.py:157-187.                         *)
THEOREM TypeCorrect == Spec => []TypeOK
<1>1. IInv => TypeOK
  BY DEF IInv, Typed
<1> QED
  BY <1>1, Inductive, PTL

(* A sync that reports completion without an aborted transaction has saved *)
(* whole bundles, with the links, all but those it gave up on its own side *)
(* (services/mitre.py:59-71 and 266-276), however many syncs run together  *)
(* and whatever MITRE publishes meanwhile.                                 *)
THEOREM WholeBundlesSaved == Spec => []SavedWhole
<1>1. IInv => SavedWhole
  BY DEF IInv, SyncOK, Kept, SavedWhole, Bundle
<1> QED
  BY <1>1, Inductive, PTL

-----------------------------------------------------------------------------
(***************************************************************************)
(* Deadlocks.  A sync that has written anything has written the first row  *)
(* of the first bundle that is not empty.  That row is the same for all    *)
(* syncs of one release, so only one of them has written anything.         *)
(***************************************************************************)
Opening(b) == (CHOOSE st \in Plan(b) : \A o \in Plan(b) : Comes(st, o)).key
Holds(s)   == held[s] # {} \/ joined[s] # {}
EmptyTo(s, u) == \A v \in Url : v < u => \E f \in fetched[s] : f[1] = v /\ Bundle(f) = <<>>

(* Before its first write a sync has met empty bundles only, and is at the *)
(* first statement of one that is not.                                     *)
Before(s) ==
    ~Holds(s) /\ aborted[s] = "no" /\ pc[s] \in {"fetch", "write"} /\ cut[s] = {} =>
        /\ EmptyTo(s, url[s])
        /\ pc[s] = "write" => \E f \in fetched[s] : f[1] = url[s] /\ todo[s] = Plan(Bundle(f))
(* After it, it holds the row that it wrote first.                         *)
After(s) ==
    Holds(s) =>
        /\ aborted[s] = "no" /\ pc[s] # "done"
        /\ cut[s] = {} => \E f \in fetched[s] :
              Bundle(f) # <<>> /\ EmptyTo(s, f[1]) /\ Opening(Bundle(f)) \in held[s]

(* A row is locked by one sync at most.                                    *)
Exclusive == \A s, t \in Sync : s # t => held[s] \cap held[t] = {}
(* No sync has missed a bundle, and all have met one release.              *)
NoGap ==
    /\ \A s \in Sync : cut[s] = {}
    /\ \A s, t \in Sync : \A f \in fetched[s], g \in fetched[t] : f[2] = g[2]

LockInv ==
    /\ IInv /\ Exclusive
    /\ \A s \in Sync : Before(s) /\ After(s)
    /\ NoGap => \A s \in Sync : aborted[s] # "deadlock"

(* A bundle whose plan is empty is empty, since every object has a kind.   *)
LEMMA EmptyPlan ==
  ASSUME NEW b \in Seq(Key), Plan(b) = {}
  PROVE  b = <<>>
<1> SUFFICES ASSUME b # <<>> PROVE FALSE
  OBVIOUS
<1>1. 1 \in DOMAIN b /\ b[1] \in Key
  OBVIOUS
<1>2. PICK n \in 1 .. 7 : Kinds[n] = Kind[b[1]] /\ Kinds[n] # "link"
  BY <1>1, KindAssumption, KindsNumbered
<1>3. Ask(b, n, 1) \in Plan(b)
  BY <1>1, <1>2, PlanHas DEF Asks
<1> QED
  BY <1>3

(* The first statement of a bundle writes its opening row.                 *)
LEMMA FirstWrites ==
  ASSUME Typed, NEW s \in Sync, NEW f \in fetched[s], pc[s] = "write", todo[s] = Plan(Bundle(f))
  PROVE  /\ Statement(s).op = "upsert" /\ Statement(s).key = Opening(Bundle(f))
         /\ Bundle(f) # <<>>
<1> DEFINE b == Bundle(f)
           st == Statement(s)
<1>1. b \in Seq(Key)
  BY FetchedBundle
<1>2. st.key = Opening(b)
  BY DEF Statement, Opening
<1>3. st \in Plan(b) /\ \A o \in Plan(b) : Comes(st, o)
  <2>1. todo[s] \subseteq Stmt /\ todo[s] # {}
    BY DEF Typed, TypeOK
  <2> QED
    BY <2>1, FirstStatement
<1> HIDE DEF b, st
<1>4. /\ st.op \in {"upsert", "find"} /\ (st.op = "upsert" <=> st.rank # 3)
      /\ st.pos \in DOMAIN b /\ st.key = b[st.pos]
      /\ st.op = "find" => Asks("link", st.key)
  BY <1>1, <1>3, PlanHas
<1>5. ASSUME st.op = "find" PROVE FALSE
  <2>1. Kind[b[st.pos]] = "technique" /\ st.rank = 3
    BY <1>4, <1>5 DEF Asks
  <2>2. Asks(Kinds[2], b[st.pos])
    BY <2>1, KindsNumbered DEF Asks
  <2>3. Ask(b, 2, st.pos) \in Plan(b)
    BY <1>1, <1>4, <2>2, PlanHas
  <2>4. Comes(st, Ask(b, 2, st.pos)) /\ Ask(b, 2, st.pos).rank = 2
    BY <1>3, <2>3 DEF Ask
  <2> QED
    BY <2>1, <2>4 DEF Comes
<1>6. b # <<>>
  BY <1>1, <1>4
<1> QED
  BY <1>2, <1>4, <1>5, <1>6 DEF b, st

(* Syncs that have met one release open with one row.                      *)
LEMMA SameOpening ==
  ASSUME Typed, NoGap, NEW s \in Sync, NEW t \in Sync, NEW f \in fetched[s], NEW g \in fetched[t],
         Bundle(f) # <<>>, Bundle(g) # <<>>, EmptyTo(s, f[1]), EmptyTo(t, g[1])
  PROVE  Bundle(f) = Bundle(g)
<1>1. f[1] \in Url /\ g[1] \in Url /\ f[2] = g[2] /\ f[1] \in Nat /\ g[1] \in Nat
  BY FetchedBundle, ReleasesShape DEF NoGap
<1>2. ASSUME f[1] < g[1] PROVE FALSE
  <2>1. PICK h \in fetched[t] : h[1] = f[1] /\ Bundle(h) = <<>>
    BY <1>1, <1>2 DEF EmptyTo
  <2>2. h[2] = f[2]
    BY DEF NoGap
  <2> QED
    BY <2>1, <2>2 DEF Bundle
<1>3. ASSUME g[1] < f[1] PROVE FALSE
  <2>1. PICK h \in fetched[s] : h[1] = g[1] /\ Bundle(h) = <<>>
    BY <1>1, <1>3 DEF EmptyTo
  <2>2. h[2] = g[2]
    BY DEF NoGap
  <2> QED
    BY <2>1, <2>2 DEF Bundle
<1>4. f[1] = g[1]
  BY <1>1, <1>2, <1>3
<1> QED
  BY <1>1, <1>4 DEF Bundle

(* So one sync at most has written anything.                               *)
LEMMA OneHolder ==
  ASSUME LockInv, NoGap, NEW s \in Sync, NEW t \in Sync, Holds(s), Holds(t)
  PROVE  s = t
<1>1. Typed /\ cut[s] = {} /\ cut[t] = {}
  BY DEF LockInv, IInv, NoGap
<1>2. PICK f \in fetched[s] :
        Bundle(f) # <<>> /\ EmptyTo(s, f[1]) /\ Opening(Bundle(f)) \in held[s]
  BY <1>1 DEF LockInv, After
<1>3. PICK g \in fetched[t] :
        Bundle(g) # <<>> /\ EmptyTo(t, g[1]) /\ Opening(Bundle(g)) \in held[t]
  BY <1>1 DEF LockInv, After
<1>4. Bundle(f) = Bundle(g)
  BY <1>1, <1>2, <1>3, SameOpening
<1> QED
  BY <1>2, <1>3, <1>4 DEF LockInv, Exclusive

(* Only one who has written something is waited for.                       *)
LEMMA WaitedForHolds ==
  ASSUME NEW s \in Sync, NEW t \in WaitsFor(s)
  PROVE  t \in Sync /\ t # s /\ Holds(t)
BY DEF WaitsFor, Locks, Holds

(* The one who has written does not wait, so no cycle closes.              *)
LEMMA NoCycle ==
  ASSUME LockInv, NoGap, NEW s \in Sync
  PROVE  ~Deadlocked(s)
<1> SUFFICES ASSUME NEW C \in SUBSET Sync, s \in C, \A u \in C : WaitsFor(u) \cap C # {}
             PROVE  FALSE
  BY DEF Deadlocked
<1>1. PICK h \in C : h \in WaitsFor(s)
  OBVIOUS
<1>2. PICK g \in C : g \in WaitsFor(h)
  OBVIOUS
<1>3. Holds(h) /\ Holds(g) /\ g # h
  BY <1>1, <1>2, WaitedForHolds
<1> QED
  BY <1>3, OneHolder

(* A step of one sync leaves the others as they are.                       *)
LEMMA OthersStay ==
  ASSUME Typed, NEW s \in Sync, Moves(s), NEW t \in Sync, t # s
  PROVE  Unmoved(t)
<1> USE DEF written
<1>1. /\ pc \in [Sync -> {"fetch", "write", "commit", "done"}]
      /\ url \in [Sync -> 1 .. Len(Releases[1]) + 1] /\ todo \in [Sync -> SUBSET Stmt]
      /\ fetched \in [Sync -> SUBSET (Url \X DOMAIN Releases)] /\ cut \in [Sync -> SUBSET Url]
      /\ held \in [Sync -> SUBSET Key] /\ joined \in [Sync -> SUBSET (Key \X Key)]
      /\ aborted \in [Sync -> {"no", "refused", "deadlock", "lost"}]
      /\ outcome \in [Sync -> {"none", "completed", "failed"}]
  BY DEF Typed, TypeOK
<1>2. ASSUME NEW rest, Proceed(s, rest)
      PROVE  pc'[t] = pc[t] /\ url'[t] = url[t] /\ todo'[t] = todo[t]
  BY <1>1, <1>2 DEF Proceed
<1>3. ASSUME NEW why, Abort(s, why), UNCHANGED <<fetched, cut, outcome>>
      PROVE  Unmoved(t)
  BY <1>1, <1>2, <1>3 DEF Abort, Unmoved
<1>4. CASE Refused(s) \/ DeadlockVictim(s) \/ ConnectionLost(s)
  BY <1>3, <1>4 DEF Refused, DeadlockVictim, ConnectionLost
<1>5. CASE Fetch(s) \/ FetchFails(s) \/ Odd(s) \/ Fails(s) \/ Upsert(s) \/ Link(s)
  BY <1>1, <1>2, <1>5 DEF Fetch, FetchFails, Odd, Fails, Upsert, Link, Unmoved
<1>6. CASE FindTactic(s)
  <2>1. \E rest : Proceed(s, rest)
    BY <1>6 DEF FindTactic
  <2> QED
    BY <1>2, <1>6, <2>1 DEF FindTactic, Unmoved
<1>7. CASE Commit(s)
  BY <1>1, <1>7 DEF Commit, Unmoved
<1>8. CASE CommitUnanswered(s) \/ Kill(s)
  BY <1>1, <1>8 DEF CommitUnanswered, Kill, Raises, Unmoved
<1> QED
  BY <1>4, <1>5, <1>6, <1>7, <1>8 DEF Step, Breaks, Moves

(* What a sync knows of its locks is not changed by others.                *)
LEMMA LocksStay ==
  ASSUME NEW t \in Sync, Unmoved(t), Before(t), After(t)
  PROVE  Before(t)' /\ After(t)'
BY DEF Unmoved, Before, After, Holds, EmptyTo, Bundle

(* Only the upsert takes a lock on a row, and only when nobody else has it.*)
LEMMA ExclusiveStep ==
  ASSUME Typed, Exclusive, NEW s \in Sync, Moves(s)
  PROVE  Exclusive'
<1>1. held \in [Sync -> SUBSET Key]
  BY DEF Typed, TypeOK
<1>2. ASSUME NEW t \in Sync, t # s PROVE held'[t] = held[t]
  BY <1>2, OthersStay DEF Unmoved
<1>3. CASE held'[s] \subseteq held[s]
  BY <1>2, <1>3 DEF Exclusive
<1>4. CASE Upsert(s)
  <2>1. held'[s] = held[s] \cup {Statement(s).key}
    BY <1>1, <1>4 DEF Upsert
  <2>2. ASSUME NEW t \in Sync, t # s PROVE Statement(s).key \notin held[t]
    <3>1. t \notin WaitsFor(s) /\ pc[s] = "write" /\ aborted[s] = "no" /\ Builds(s)
      BY <1>4 DEF Upsert, Runs, Builds
    <3>2. ~Locks(t, Statement(s)) /\ Statement(s).op = "upsert"
      BY <1>4, <2>2, <3>1 DEF WaitsFor, Upsert, Runs
    <3> QED
      BY <3>2 DEF Locks
  <2> QED
    BY <1>2, <2>1, <2>2 DEF Exclusive
<1>5. CASE ~Upsert(s)
  <2>1. held'[s] = held[s] \/ held'[s] = {}
    BY <1>1, <1>5 DEF Step, Fetch, FetchFails, FindTactic, Link, Odd, Refused, DeadlockVictim,
                      ConnectionLost, Fails, Commit, Abort, written, Breaks, Moves,
                      CommitUnanswered, Kill, Raises
  <2> QED
    BY <1>3, <2>1
<1> QED
  BY <1>4, <1>5

(* A fetched bundle that is empty is passed by, another one is opened.     *)
LEMMA FetchLocks ==
  ASSUME IInv, NEW s \in Sync, Before(s), After(s), Fetch(s)
  PROVE  Before(s)' /\ After(s)'
<1> DEFINE b == Releases[release][url[s]]
           f0 == <<url[s], release>>
           Passed(u) == \A v \in Url : v < u => \E f \in fetched'[s] : f[1] = v /\ Bundle(f) = <<>>
<1>1. /\ Typed /\ SyncOK(s) /\ pc[s] = "fetch" /\ url[s] \in Url
      /\ release \in DOMAIN Releases /\ \A v \in Url : v \in Nat
  BY ReleasesShape DEF IInv, SyncOK, Place, Fetch, Typed, TypeOK
<1>2. /\ held' = held /\ joined' = joined /\ aborted' = aborted /\ cut' = cut
      /\ fetched'[s] = fetched[s] \cup {f0} /\ Proceed(s, Plan(b))
  BY <1>1 DEF Fetch, written, Typed, TypeOK
<1>3. b \in Seq(Key) /\ Bundle(f0) = b /\ f0[1] = url[s]
  BY <1>1, ReleasesShape DEF Bundle
<1> HIDE DEF b, f0
<1>4. Plan(b) \in SUBSET Stmt
  BY <1>3, PlanHas
<1>5. /\ todo'[s] = Plan(b) /\ pc'[s] \in {"fetch", "write", "commit"}
      /\ pc'[s] = "write" <=> Plan(b) # {}
      /\ Plan(b) # {} => url'[s] = url[s]
  BY <1>1, <1>2, <1>4, GoesOn
<1>6. Plan(b) = {} => url'[s] = url[s] + 1
  BY <1>1, <1>2 DEF Proceed, Typed, TypeOK
<1>7. \A u : EmptyTo(s, u) => Passed(u)
  BY <1>2 DEF EmptyTo
<1>8. Holds(s)' <=> Holds(s)
  BY <1>2 DEF Holds
<1>9. After(s)'
  <2>1. CASE ~Holds(s)
    BY <1>8, <2>1 DEF After
  <2>2. CASE Holds(s) /\ cut[s] # {}
    BY <1>2, <1>5, <2>2 DEF After
  <2>3. CASE Holds(s) /\ cut[s] = {}
    <3>1. PICK f \in fetched[s] :
            Bundle(f) # <<>> /\ EmptyTo(s, f[1]) /\ Opening(Bundle(f)) \in held[s]
      BY <2>3 DEF After
    <3>2. f \in fetched'[s] /\ Passed(f[1])
      BY <1>2, <1>7, <3>1
    <3> QED
      BY <1>2, <1>5, <2>3, <3>1, <3>2 DEF After, EmptyTo, Bundle
  <2> QED
    BY <2>1, <2>2, <2>3
<1>10. Before(s)'
  <2> SUFFICES ASSUME ~Holds(s), aborted[s] = "no", pc'[s] \in {"fetch", "write"}, cut[s] = {}
               PROVE  /\ Passed(url'[s])
                      /\ pc'[s] = "write" => \E f \in fetched'[s] : f[1] = url'[s] /\ todo'[s] = Plan(Bundle(f))
    BY <1>2, <1>8 DEF Before, EmptyTo, Bundle
  <2>1. Passed(url[s])
    BY <1>1, <1>7 DEF Before
  <2>2. CASE Plan(b) # {}
    BY <1>2, <1>3, <1>5, <2>1, <2>2
  <2>3. CASE Plan(b) = {}
    <3>1. Bundle(f0) = <<>> /\ f0 \in fetched'[s]
      BY <1>2, <1>3, <2>3, EmptyPlan
    <3>2. ASSUME NEW v \in Url, v < url[s] + 1
          PROVE  \E f \in fetched'[s] : f[1] = v /\ Bundle(f) = <<>>
      <4>1. v < url[s] \/ v = url[s]
        BY <1>1, <3>2
      <4> QED
        BY <1>3, <2>1, <3>1, <4>1
    <3> QED
      BY <1>5, <1>6, <2>3, <3>2
  <2> QED
    BY <2>2, <2>3
<1> QED
  BY <1>9, <1>10

(* The first write takes the opening row, and any other adds to it.        *)
LEMMA WriteLocks ==
  ASSUME IInv, NEW s \in Sync, Before(s), After(s), Upsert(s)
  PROVE  Before(s)' /\ After(s)'
<1>1. /\ Typed /\ SyncOK(s) /\ pc[s] = "write" /\ aborted[s] = "no" /\ Proceed(s, Others(s))
      /\ held'[s] = held[s] \cup {Statement(s).key}
      /\ fetched' = fetched /\ cut' = cut /\ aborted' = aborted
  BY DEF IInv, Upsert, Runs, Typed, TypeOK
<1>2. pc'[s] \in {"fetch", "write", "commit"}
  <2>1. Others(s) \in SUBSET Stmt
    BY <1>1 DEF Others, Typed
  <2> QED
    BY <1>1, <2>1, GoesOn
<1>3. Holds(s)'
  BY <1>1 DEF Holds
<1>4. ASSUME cut[s] = {}
      PROVE  \E f \in fetched[s] :
               Bundle(f) # <<>> /\ EmptyTo(s, f[1]) /\ Opening(Bundle(f)) \in held'[s]
  <2>1. CASE Holds(s)
    BY <1>1, <1>4, <2>1 DEF After
  <2>2. CASE ~Holds(s)
    <3>1. EmptyTo(s, url[s]) /\ \E f \in fetched[s] : f[1] = url[s] /\ todo[s] = Plan(Bundle(f))
      BY <1>1, <1>4, <2>2 DEF Before
    <3>2. PICK f \in fetched[s] : f[1] = url[s] /\ todo[s] = Plan(Bundle(f))
      BY <3>1
    <3>3. Statement(s).key = Opening(Bundle(f)) /\ Bundle(f) # <<>>
      BY <1>1, <3>2, FirstWrites
    <3> QED
      BY <1>1, <3>1, <3>2, <3>3
  <2> QED
    BY <2>1, <2>2
<1> QED
  BY <1>1, <1>2, <1>3, <1>4 DEF Before, After, EmptyTo, Bundle

(* A look-up or a link is never the first statement.                       *)
LEMMA LinkLocks ==
  ASSUME IInv, NEW s \in Sync, Before(s), After(s), FindTactic(s) \/ Link(s)
  PROVE  Before(s)' /\ After(s)'
<1>1. /\ Typed /\ SyncOK(s) /\ pc[s] = "write" /\ aborted[s] = "no" /\ Statement(s).op # "upsert"
      /\ held' = held /\ joined[s] \subseteq joined'[s]
      /\ fetched' = fetched /\ cut' = cut /\ aborted' = aborted
  BY DEF IInv, FindTactic, Link, Runs, Typed, TypeOK, written
<1>2. pc'[s] # "done" /\ url[s] \in Url
  <2>1. \E rest : Proceed(s, rest)
    BY DEF FindTactic, Link
  <2> QED
    BY <1>1, <2>1 DEF Proceed, Typed, TypeOK, SyncOK, Place
<1>3. cut[s] = {} => Holds(s)
  <2> SUFFICES ASSUME cut[s] = {}, ~Holds(s) PROVE FALSE
    OBVIOUS
  <2>1. PICK f \in fetched[s] : todo[s] = Plan(Bundle(f))
    BY <1>1 DEF Before
  <2> QED
    BY <1>1, <2>1, FirstWrites
<1>4. Holds(s) => Holds(s)'
  BY <1>1 DEF Holds
<1> QED
  BY <1>1, <1>2, <1>3, <1>4 DEF Before, After, EmptyTo, Bundle

(* Each step of a sync keeps what it knows of its locks.                   *)
LEMMA LocksStep ==
  ASSUME IInv, NEW s \in Sync, Before(s), After(s), Moves(s)
  PROVE  Before(s)' /\ After(s)'
<1>1. Typed
  BY DEF IInv
<1>2. CASE FetchFails(s) \/ Odd(s)
  <2>1. /\ held' = held /\ joined' = joined /\ aborted' = aborted /\ cut'[s] # {}
        /\ Proceed(s, {}) /\ pc[s] # "done"
    <3>1. cut' = [cut EXCEPT ![s] = @ \cup {url[s]}] /\ cut \in [Sync -> SUBSET Url]
      BY <1>1, <1>2 DEF FetchFails, Odd, Typed, TypeOK
    <3>2. url[s] \in cut'[s]
      BY <3>1
    <3> QED
      BY <1>2, <3>2 DEF FetchFails, Odd, written
  <2>2. pc'[s] # "done"
    BY <1>1, <2>1 DEF Proceed, Typed, TypeOK
  <2> QED
    BY <2>1, <2>2 DEF Before, After, Holds
<1>3. CASE Refused(s) \/ DeadlockVictim(s) \/ ConnectionLost(s)
  <2>1. held'[s] = {} /\ joined'[s] = {} /\ aborted'[s] # "no"
    BY <1>1, <1>3 DEF Refused, DeadlockVictim, ConnectionLost, Abort, Typed, TypeOK
  <2> QED
    BY <2>1 DEF Before, After, Holds
<1>4. CASE Fails(s)
  <2>1. held' = held /\ joined' = joined /\ aborted' = aborted /\ aborted[s] # "no"
    BY <1>4 DEF Fails, written
  <2> QED
    BY <2>1 DEF Before, After, Holds
<1>5. CASE Commit(s)
  <2>1. held'[s] = {} /\ joined'[s] = {} /\ pc'[s] = "done"
    BY <1>1, <1>5 DEF Commit, Typed, TypeOK
  <2> QED
    BY <2>1 DEF Before, After, Holds
<1>6. CASE CommitUnanswered(s) \/ Kill(s)
  <2>1. held'[s] = {} /\ joined'[s] = {} /\ pc'[s] = "done"
    BY <1>1, <1>6 DEF CommitUnanswered, Kill, Raises, Typed, TypeOK
  <2> QED
    BY <2>1 DEF Before, After, Holds
<1> QED
  BY <1>2, <1>3, <1>4, <1>5, <1>6, FetchLocks, WriteLocks, LinkLocks DEF Step, Breaks, Moves

(* What has been missed or met stays so.                                   *)
LEMMA GapsStay ==
  ASSUME Typed, NEW s \in Sync, Moves(s), NEW t \in Sync
  PROVE  fetched[t] \subseteq fetched'[t] /\ cut[t] \subseteq cut'[t]
<1>1. /\ fetched \in [Sync -> SUBSET (Url \X DOMAIN Releases)]
      /\ cut \in [Sync -> SUBSET Url]
  BY DEF Typed, TypeOK
<1> QED
  BY <1>1 DEF Step, Fetch, FetchFails, Upsert, FindTactic, Link, Odd, Refused, DeadlockVictim,
              ConnectionLost, Fails, Commit, Breaks, Moves, CommitUnanswered, Kill

LEMMA LockStep ==
  ASSUME LockInv, NEW s \in Sync, Moves(s)
  PROVE  LockInv'
<1>1. Typed /\ IInv /\ IInv' /\ Exclusive'
  BY StepKeeps, ExclusiveStep DEF LockInv, IInv
<1>2. ASSUME NEW t \in Sync PROVE Before(t)' /\ After(t)'
  <2>1. Before(t) /\ After(t)
    BY DEF LockInv
  <2>2. CASE t = s
    BY <1>1, <2>1, <2>2, LocksStep
  <2>3. CASE t # s
    BY <1>1, <2>1, <2>3, OthersStay, LocksStay
  <2> QED
    BY <2>2, <2>3
<1>3. ASSUME NoGap', NEW t \in Sync PROVE aborted'[t] # "deadlock"
  <2>1. NoGap
    BY <1>1, <1>3, GapsStay DEF NoGap
  <2>2. aborted[t] # "deadlock" /\ ~Deadlocked(s)
    BY <2>1, NoCycle DEF LockInv
  <2>3. CASE t # s
    BY <1>1, <2>2, <2>3, OthersStay DEF Unmoved
  <2>4. CASE t = s
    BY <1>1, <2>2, <2>4
       DEF Step, Fetch, FetchFails, Upsert, FindTactic, Link, Odd, Refused, DeadlockVictim,
           ConnectionLost, Fails, Commit, Abort, written, Typed, TypeOK, Breaks, Moves,
           CommitUnanswered, Kill
  <2> QED
    BY <2>3, <2>4
<1> QED
  BY <1>1, <1>2, <1>3 DEF LockInv

LEMMA LocksHold == Spec => []LockInv
<1>1. Init => LockInv
  <2> SUFFICES ASSUME Init PROVE LockInv
    OBVIOUS
  <2>1. \A s \in Sync : ~Holds(s) /\ aborted[s] = "no" /\ url[s] = 1 /\ pc[s] = "fetch"
    BY DEF Init, Holds
  <2>2. \A s \in Sync : EmptyTo(s, 1)
    BY ReleasesShape DEF EmptyTo
  <2>3. \A s \in Sync : held[s] = {}
    BY DEF Init
  <2> QED
    BY <2>1, <2>2, <2>3, Starts DEF LockInv, Before, After, Exclusive
<1>2. LockInv /\ [Next]_vars => LockInv'
  <2> SUFFICES ASSUME LockInv, [Next]_vars PROVE LockInv'
    OBVIOUS
  <2>1. CASE \E s \in Sync : Moves(s)
    BY <2>1, LockStep
  <2>2. CASE (Publish /\ UNCHANGED idle) \/ UNCHANGED vars \/ \E s \in Sync : Stop(s) \/ Resume(s)
    <3>1. UNCHANGED <<pc, url, todo, fetched, cut, held, joined, aborted, outcome>>
      BY <2>2 DEF Publish, vars, written, Stop, Resume
    <3>2. IInv'
      BY <2>2, PublishKeeps, StutterKeeps, PausesKeep DEF LockInv
    <3>3. \A t \in Sync : Unmoved(t)
      BY <3>1 DEF Unmoved
    <3>4. \A t \in Sync : Before(t)' /\ After(t)'
      BY <3>3, LocksStay DEF LockInv
    <3> QED
      BY <3>1, <3>2, <3>4 DEF LockInv, Exclusive, NoGap
  <2> QED
    BY <2>1, <2>2 DEF Next, Finished, Proceeds, Moves
<1> QED
  BY <1>1, <1>2, PTL DEF Spec

(* Syncs that meet one release and miss nothing of it wait for each other  *)
(* at the first row and never close a cycle: the order of                  *)
(* services/mitre.py:73-253 is one order of locks for all of them.         *)
THEOREM DeadlocksNeedGap == Spec => []DeadlockNeedsGap
<1>1. LockInv => DeadlockNeedsGap
  <2> SUFFICES ASSUME LockInv, \E s \in Sync : aborted[s] = "deadlock", \A s \in Sync : cut[s] = {}
               PROVE  Cardinality({f[2] : f \in UNION Range(fetched)}) > 1
    BY DEF DeadlockNeedsGap
  <2> DEFINE R == {f[2] : f \in UNION Range(fetched)}
  <2>1. /\ fetched \in [Sync -> SUBSET (Url \X DOMAIN Releases)]
        /\ Range(fetched) = {fetched[s] : s \in Sync}
    BY DEF LockInv, IInv, Typed, TypeOK, Range
  <2>2. ~NoGap
    BY DEF LockInv
  <2>3. \E a \in R : \E c \in R : a # c
    <3>1. PICK s \in Sync, t \in Sync : \E f \in fetched[s] : \E g \in fetched[t] : f[2] # g[2]
      BY <2>2 DEF NoGap
    <3>2. PICK f \in fetched[s], g \in fetched[t] : f[2] # g[2]
      BY <3>1
    <3>3. f \in UNION Range(fetched) /\ g \in UNION Range(fetched)
      BY <2>1
    <3>4. f[2] \in R /\ g[2] \in R
      BY <3>3
    <3> QED
      BY <3>2, <3>4
  <2>a. PICK a \in R, c \in R : a # c
    BY <2>3
  <2>4. R \subseteq 1 .. Len(Releases) /\ Len(Releases) \in Nat
    <3>1. ASSUME NEW s \in Sync, NEW f \in fetched[s] PROVE f[2] \in 1 .. Len(Releases)
      BY FetchedBundle, ReleasesShape DEF LockInv, IInv
    <3> QED
      BY <2>1, <3>1, ReleasesShape
  <2> HIDE DEF R
  <2>5. IsFiniteSet(R) /\ {a, c} \subseteq R
    <3>1. IsFiniteSet(1 .. Len(Releases))
      BY <2>4, FS_Interval
    <3> QED
      BY <2>a, <2>4, <3>1, FS_Subset
  <2>6. Cardinality({a}) = 1 /\ IsFiniteSet({a})
    BY FS_Singleton
  <2>7. Cardinality({a} \cup {c}) = 2
    <3>1. c \notin {a}
      BY <2>a
    <3>2. Cardinality({a} \cup {c}) = Cardinality({a}) + 1
      BY <2>6, <3>1, FS_AddElement
    <3> QED
      BY <2>6, <3>2
  <2>8. Cardinality({a, c}) =< Cardinality(R)
    BY <2>5, FS_Subset
  <2>9. {a, c} = {a} \cup {c} /\ Cardinality(R) \in Nat
    BY <2>5, FS_CardinalityType
  <2>10. Cardinality(R) > 1
    BY <2>7, <2>8, <2>9
  <2> QED
    BY <2>10 DEF R
<1> QED
  BY <1>1, LocksHold, PTL
=============================================================================
