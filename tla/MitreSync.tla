----------------------------- MODULE MitreSync -----------------------------
(***************************************************************************)
(* MITRE ATT&CK synchronisation.  Each sync (the worker's at three in the  *)
(* morning, one for every POST /api/mitre/sync) fetches the three bundles  *)
(* one after the other and upserts their objects, all in one transaction   *)
(* that run_mitre_sync commits at the end.  An exception ends the bundle   *)
(* it happens in and the next one is fetched.                              *)
(*                                                                         *)
(* The server keeps every row a sync has written locked until the sync     *)
(* ends; a statement that it refuses aborts the transaction, frees the     *)
(* locks, and makes every later statement fail.  Committing an aborted     *)
(* transaction rolls it back and raises nothing.                           *)
(*                                                                         *)
(* Nothing bounds the time of a download, and a worker's soft limit may    *)
(* leave its sync suspended: a sync may keep its locks and go no further.  *)
(***************************************************************************)
EXTENDS Integers, Sequences, FiniteSets, Functions

CONSTANTS
    Sync,       \* the syncs
    Key,        \* the keys of objects: STIX ids, or the three of a relationship
    Kind,       \* the kind of each key
    Name,       \* a tactic's short name, the phase of a technique, else NoName
    NoName,
    Releases,   \* what MITRE publishes over time: for each of the URLs, in their
                \* order, the keys of its bundle in the bundle's order
    Gradings,   \* the gradings of objects that are considered
    Catalogues, \* what earlier syncs may have stored: sets of keys
    MaxFaults   \* bound on failed requests, lost connections, killed
                \* processes and syncs that stop

\* Those of MITRE_JSON_URLS.
Url   == DOMAIN Releases[1]
Kinds == <<"tactic", "technique", "link", "group", "software", "mitigation", "relationship">>
\* "odd" objects raise while their row is built, "refused" ones at the server.
Grade == {"good", "odd", "refused"}

ASSUME KindAssumption    == Kind \in [Key -> Range(Kinds) \ {"link"}]
ASSUME ReleaseAssumption ==
    /\ Releases \in Seq(Seq(Seq(Key))) /\ Releases # <<>> /\ Url # {}
    /\ \A r \in DOMAIN Releases : DOMAIN Releases[r] = Url
ASSUME GradingAssumption == Gradings \subseteq [Key -> Grade]
ASSUME CatalogueAssumption == Catalogues \subseteq SUBSET Key
ASSUME FaultsAssumption  == MaxFaults \in Nat

VARIABLES
    table,      \* the keys of the committed rows
    links,      \* mitre_tactic_technique: pairs of a tactic and a technique
    release,    \* the release MITRE publishes now
    grade,      \* the grade of each object
    pc,         \* "fetch", "write", "commit", "done"
    url,        \* the URL a sync is at
    todo,       \* the statements left of its bundle
    fetched,    \* the bundles it has got: pairs of a URL and a release
    cut,        \* the URLs it missed by a failure on this side of the server
    held,       \* the keys it has written, and locked
    joined,     \* the links it has inserted; their tactics are locked for key share
    aborted,    \* what aborted its transaction: "refused", "deadlock", "lost"
    outcome,    \* "completed", "failed": what the sync reports
    faults,
    idle        \* the syncs that hang in a download or are left suspended

world  == <<release, grade>>
written == <<held, joined>>
vars   == <<table, links, release, grade, pc, url, todo, fetched, cut, held, joined,
            aborted, outcome, faults, idle>>

\* The statements for a bundle: kind by kind, each in the bundle's order, the
\* links of all techniques after the techniques.
Asks(kind, k) ==
    IF kind = "link" THEN Kind[k] = "technique" /\ Name[k] # NoName ELSE Kind[k] = kind
Ask(b, n, i) ==
    [rank |-> n, pos |-> i, key |-> b[i], tactic |-> b[i],
     op |-> IF Kinds[n] = "link" THEN "find" ELSE "upsert"]

\* Mutant of Plan: the links of the techniques before the tactics.
PlanLinksFirst(b) ==
    UNION {{[Ask(b, n, i) EXCEPT !.rank = IF Kinds[n] = "link" THEN 0 ELSE n] :
               i \in {j \in DOMAIN b : Asks(Kinds[n], b[j])}} : n \in DOMAIN Kinds}

Plan(b) ==
    UNION {{Ask(b, n, i) : i \in {j \in DOMAIN b : Asks(Kinds[n], b[j])}} : n \in DOMAIN Kinds}

Comes(st, o) == st.rank < o.rank \/ (st.rank = o.rank /\ st.pos =< o.pos)
-----------------------------------------------------------------------------
Init ==
    /\ table \in Catalogues /\ links = {}
    /\ release = 1 /\ grade \in Gradings
    /\ pc = [s \in Sync |-> "fetch"] /\ url = [s \in Sync |-> 1]
    /\ todo = [s \in Sync |-> {}]
    /\ fetched = [s \in Sync |-> {}] /\ cut = [s \in Sync |-> {}]
    /\ held = [s \in Sync |-> {}] /\ joined = [s \in Sync |-> {}]
    /\ aborted = [s \in Sync |-> "no"]
    /\ outcome = [s \in Sync |-> "none"]
    /\ faults = 0 /\ idle = {}

Publish ==
    /\ release < Len(Releases)
    /\ release' = release + 1
    /\ UNCHANGED <<table, links, grade, pc, url, todo, fetched, cut, written, aborted, outcome, faults>>

Fault == faults < MaxFaults /\ faults' = faults + 1

\* With these statements left the sync goes on, to the next URL or to the end.
Proceed(s, rest) ==
    /\ todo' = [todo EXCEPT ![s] = rest]
    /\ IF rest # {} THEN pc' = [pc EXCEPT ![s] = "write"] /\ UNCHANGED url
       ELSE /\ url' = [url EXCEPT ![s] = @ + 1]
            /\ pc' = [pc EXCEPT ![s] = IF url[s] < Len(Releases[1]) THEN "fetch" ELSE "commit"]

Fetch(s) ==
    /\ pc[s] = "fetch"
    /\ fetched' = [fetched EXCEPT ![s] = @ \cup {<<url[s], release>>}]
    /\ Proceed(s, Plan(Releases[release][url[s]]))
    /\ UNCHANGED <<table, links, world, cut, written, aborted, outcome, faults>>

\* No answer, an error status, or a bundle that is no STIX.
FetchFails(s) ==
    /\ pc[s] = "fetch"
    /\ Fault
    /\ cut' = [cut EXCEPT ![s] = @ \cup {url[s]}]
    /\ Proceed(s, {})
    /\ UNCHANGED <<table, links, world, fetched, written, aborted, outcome>>

(***************************************************************************)
(* The statements of a bundle.                                             *)
(***************************************************************************)
Statement(s) == CHOOSE st \in todo[s] : \A o \in todo[s] : Comes(st, o)
Others(s)    == todo[s] \ {Statement(s)}
Builds(s)    == Statement(s).op # "upsert" \/ grade[Statement(s).key] # "odd"

\* A row that another sync has written or refers to cannot be written, and one
\* that another sync has written cannot be referred to, until that sync ends.
Locks(t, st) ==
    CASE st.op = "upsert" -> st.key \in held[t] \cup {l[1] : l \in joined[t]}
      [] st.op = "link"   -> /\ st.tactic \in held[t]
                             /\ <<st.tactic, st.key>> \notin links
      [] OTHER            -> FALSE
WaitsFor(s) ==
    {t \in Sync \ {s} : pc[s] = "write" /\ aborted[s] = "no" /\ Builds(s) /\ Locks(t, Statement(s))}
Deadlocked(s) == \E C \in SUBSET Sync : s \in C /\ \A u \in C : WaitsFor(u) \cap C # {}

Runs(s, op) == pc[s] = "write" /\ Statement(s).op = op /\ aborted[s] = "no" /\ WaitsFor(s) = {}

\* Mutant of Upsert: the objects in no particular order, as from a set.
UpsertAnyOrder(s) ==
    /\ pc[s] = "write" /\ aborted[s] = "no"
    /\ \E st \in todo[s] :
        /\ st.op = "upsert" /\ grade[st.key] = "good"
        /\ \A t \in Sync \ {s} : ~Locks(t, st)
        /\ held' = [held EXCEPT ![s] = @ \cup {st.key}]
        /\ Proceed(s, todo[s] \ {st})
    /\ UNCHANGED <<table, links, world, fetched, cut, joined, aborted, outcome, faults>>

Upsert(s) ==
    /\ Runs(s, "upsert") /\ grade[Statement(s).key] = "good"
    /\ held' = [held EXCEPT ![s] = @ \cup {Statement(s).key}]
    /\ Proceed(s, Others(s))
    /\ UNCHANGED <<table, links, world, fetched, cut, joined, aborted, outcome, faults>>

\* The look-up of a tactic becomes the insertion of the link to it.
Joins(s, t) == [Statement(s) EXCEPT !.op = "link", !.tactic = t]

\* Mutant of FindTactic: the short name is not compared.
FindAnyTactic(s) ==
    /\ Runs(s, "find")
    /\ \E t \in table \cup held[s] :
        /\ Kind[t] = "tactic"
        /\ Proceed(s, Others(s) \cup {Joins(s, t)})
    /\ UNCHANGED <<table, links, world, fetched, cut, written, aborted, outcome, faults>>

\* The first tactic of that short name, in any order and of any domain.
FindTactic(s) ==
    LET q == Statement(s).key
        found == {k \in table \cup held[s] : Kind[k] = "tactic" /\ Name[k] = Name[q]}
    IN
    /\ Runs(s, "find")
    /\ \/ /\ found = {} /\ Proceed(s, Others(s))
       \/ \E t \in found :
            Proceed(s, Others(s) \cup {Joins(s, t)})
    /\ UNCHANGED <<table, links, world, fetched, cut, written, aborted, outcome, faults>>

Link(s) ==
    /\ Runs(s, "link")
    /\ LET l == <<Statement(s).tactic, Statement(s).key>> IN
        joined' = [joined EXCEPT ![s] = IF l \in links THEN @ ELSE @ \cup {l}]
    /\ Proceed(s, Others(s))
    /\ UNCHANGED <<table, links, world, fetched, cut, held, aborted, outcome, faults>>

\* The exception leaves the bundle, for the next one.
Odd(s) ==
    /\ pc[s] = "write" /\ ~Builds(s)
    /\ cut' = [cut EXCEPT ![s] = @ \cup {url[s]}]
    /\ Proceed(s, {})
    /\ UNCHANGED <<table, links, world, fetched, written, aborted, outcome, faults>>

\* Mutant of Abort: the handler rolls back, so that the next bundle has a new
\* transaction.
RollBack(s, why) ==
    /\ held' = [held EXCEPT ![s] = {}]
    /\ joined' = [joined EXCEPT ![s] = {}]
    /\ Proceed(s, {})
    /\ UNCHANGED aborted

\* An error of the server: what was written is undone, also of earlier bundles.
\* A link's own error is passed over.
Abort(s, why) ==
    /\ aborted' = [aborted EXCEPT ![s] = why]
    /\ held' = [held EXCEPT ![s] = {}]
    /\ joined' = [joined EXCEPT ![s] = {}]
    /\ Proceed(s, IF Statement(s).op = "link" THEN Others(s) ELSE {})

Refused(s) ==
    /\ Runs(s, "upsert") /\ grade[Statement(s).key] = "refused"
    /\ Abort(s, "refused")
    /\ UNCHANGED <<table, links, world, fetched, cut, outcome, faults>>

\* Mutant of DeadlockVictim: the server does not look for deadlocks.
NoVictim(s) == Deadlocked(s) /\ UNCHANGED vars

DeadlockVictim(s) ==
    /\ Deadlocked(s)
    /\ Abort(s, "deadlock")
    /\ UNCHANGED <<table, links, world, fetched, cut, outcome, faults>>

ConnectionLost(s) ==
    /\ pc[s] = "write" /\ aborted[s] = "no" /\ Builds(s)
    /\ Fault
    /\ Abort(s, "lost")
    /\ UNCHANGED <<table, links, world, fetched, cut, outcome>>

\* A statement in a transaction that has been aborted.
Fails(s) ==
    /\ pc[s] = "write" /\ aborted[s] # "no" /\ Builds(s)
    /\ Proceed(s, {})
    /\ UNCHANGED <<table, links, world, fetched, cut, written, aborted, outcome, faults>>

\* The sync ends by an exception, without its locks.
Raises(s) ==
    /\ held' = [held EXCEPT ![s] = {}] /\ joined' = [joined EXCEPT ![s] = {}]
    /\ outcome' = [outcome EXCEPT ![s] = "failed"]
    /\ pc' = [pc EXCEPT ![s] = "done"] /\ todo' = [todo EXCEPT ![s] = {}]

\* "MITRE ingestion completed" has been logged; the commit raises only when
\* there is no connection.
Commit(s) ==
    /\ pc[s] = "commit"
    /\ table' = table \cup held[s] /\ links' = links \cup joined[s]
    /\ held' = [held EXCEPT ![s] = {}] /\ joined' = [joined EXCEPT ![s] = {}]
    /\ outcome' = [outcome EXCEPT ![s] = IF aborted[s] = "lost" THEN "failed" ELSE "completed"]
    /\ pc' = [pc EXCEPT ![s] = "done"]
    /\ UNCHANGED <<world, url, todo, fetched, cut, aborted, faults>>

\* The commit raises: the server has not carried it out, or it has and its answer
\* is lost.
CommitUnanswered(s) ==
    /\ pc[s] = "commit" /\ aborted[s] = "no"
    /\ Fault
    /\ \/ UNCHANGED <<table, links>>
       \/ table' = table \cup held[s] /\ links' = links \cup joined[s]
    /\ Raises(s)
    /\ UNCHANGED <<world, url, fetched, cut, aborted>>

\* The process ends: a worker's hard limit, a shutdown.
Kill(s) ==
    /\ pc[s] # "done"
    /\ Fault
    /\ Raises(s)
    /\ UNCHANGED <<table, links, world, url, fetched, cut, aborted>>

\* The download does not end and blocks its event loop; or the soft limit is
\* raised in the worker's loop, which leaves the coroutine where it waits.
Stop(s) ==
    /\ pc[s] # "done" /\ s \notin idle
    /\ Fault
    /\ idle' = idle \cup {s}
    /\ UNCHANGED <<table, links, world, pc, url, todo, fetched, cut, written, aborted, outcome>>

\* The download goes on, or the worker's loop runs for its next task.
Resume(s) ==
    /\ s \in idle
    /\ idle' = idle \ {s}
    /\ UNCHANGED <<table, links, world, pc, url, todo, fetched, cut, written, aborted, outcome, faults>>

Finished == (\A s \in Sync : pc[s] = "done") /\ UNCHANGED vars

Step(s) ==
    \/ Fetch(s) \/ FetchFails(s) \/ Upsert(s) \/ FindTactic(s) \/ Link(s) \/ Odd(s)
    \/ Refused(s) \/ DeadlockVictim(s) \/ Fails(s) \/ Commit(s)

Breaks(s) == ConnectionLost(s) \/ CommitUnanswered(s) \/ Kill(s)

Proceeds(s) == s \notin idle /\ Step(s) /\ UNCHANGED idle

Next ==
    \/ \E s \in Sync : Proceeds(s) \/ (Breaks(s) /\ UNCHANGED idle) \/ Stop(s) \/ Resume(s)
    \/ Publish /\ UNCHANGED idle
    \/ Finished

\* A statement ends by an answer or an error, and so does a download but for one
\* that hangs.
Spec == Init /\ [][Next]_vars /\ \A s \in Sync : WF_vars(Proceeds(s))
-----------------------------------------------------------------------------
(* Properties.                                                             *)

Good(b) == \A k \in Range(b) : grade[k] = "good"
Linked(q) == \E l \in links : l[2] = q /\ Name[l[1]] = Name[q]
\* All of this bundle is in the catalogue, and each technique that has a phase is
\* linked to some tactic of it if the bundle has one.
Saved(b) ==
    /\ Range(b) \subseteq table
    /\ \A q, t \in Range(b) :
        Asks("link", q) /\ Kind[t] = "tactic" /\ Name[q] = Name[t] => Linked(q)

TypeOK ==
    /\ table \subseteq Key /\ release \in DOMAIN Releases /\ grade \in Gradings
    /\ \A l \in links : l[1] \in table /\ l[2] \in table /\ Name[l[1]] = Name[l[2]]
    /\ pc \in [Sync -> {"fetch", "write", "commit", "done"}]
    /\ url \in [Sync -> 1 .. Len(Releases[1]) + 1]
    /\ \A s \in Sync : pc[s] = "write" <=> todo[s] # {}
    /\ \A s \in Sync : \A st \in todo[s] : st.key \in Key /\ st.tactic \in Key
    /\ fetched \in [Sync -> SUBSET (Url \X DOMAIN Releases)] /\ cut \in [Sync -> SUBSET Url]
    /\ held \in [Sync -> SUBSET Key] /\ joined \in [Sync -> SUBSET (Key \X Key)]
    /\ aborted \in [Sync -> {"no", "refused", "deadlock", "lost"}]
    /\ outcome \in [Sync -> {"none", "completed", "failed"}]
    /\ faults \in 0 .. MaxFaults /\ idle \subseteq Sync

\* A completed sync whose transaction was not aborted has saved, with their
\* links, all bundles but those it could not fetch or convert itself.
SavedWhole ==
    \A s \in Sync : outcome[s] = "completed" /\ aborted[s] = "no" =>
        \A f \in fetched[s] : f[1] \notin cut[s] => Saved(Releases[f[2]][f[1]])

\* Syncs that run at the same time wait for each other at the first row and do
\* not deadlock, unless one missed a bundle or MITRE published in between.
DeadlockNeedsGap ==
    (\E s \in Sync : aborted[s] = "deadlock") =>
        \/ \E s \in Sync : cut[s] # {}
        \/ Cardinality({f[2] : f \in UNION Range(fetched)}) > 1

\* Every sync ends, also when two lock rows in opposite orders, unless one hangs
\* or stays suspended, for whose locks the others wait as long.
Termination ==
    <>[](\A s \in idle : pc[s] = "done") => \A s \in Sync : <>(pc[s] = "done")

\* "Continue to next URL even if one fails": a completed sync has saved the
\* bundles in which nothing failed.
OneFailureOneBundle ==
    \A s \in Sync : outcome[s] = "completed" =>
        \A f \in fetched[s] : Good(Releases[f[2]][f[1]]) => Saved(Releases[f[2]][f[1]])
=============================================================================
