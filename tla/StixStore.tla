----------------------------- MODULE StixStore -----------------------------
(***************************************************************************)
(* STIX collection: connectors turn what a provider holds into bundles,    *)
(* and each bundle is saved by one session and one commit.                 *)
(*                                                                         *)
(* Every object gets a fresh id but one kind: the id of a malware object   *)
(* is made from its name, so bundles of ThreatFox share ids with earlier   *)
(* and with concurrent ones (beat, the collectors' own STIX runs, POST     *)
(* /stix/collect, the script).  save_stix_bundle looks each id up and adds *)
(* or changes the object in memory; nothing reaches the server before the  *)
(* commit, which sends the UPDATEs in the order of their ids and then the  *)
(* INSERTs in the order of the bundle.                                     *)
(***************************************************************************)
EXTENDS Integers, Sequences, FiniteSets

CONSTANTS
    Session,    \* the connectors' sessions, each saves one bundle
    Name,       \* malware names as the provider spells them
    NoName,     \* an item that names no malware
    Slug,       \* the id made from each name: lower case, dashes for blanks
    Holdings,   \* what the providers may hold, newest first: see Item
    Jobs,       \* the assignments of jobs to sessions that are considered
    Span,       \* the most days one ThreatFox request covers (90)
    KnownSets,  \* the malware slugs earlier collections may have stored
    MaxFaults   \* bound on failed requests, lost connections, ended or suspended runs

\* "current" is ThreatFox's collect, "history" its collect_historical.
Kind    == {"urlhaus", "otx", "current", "history"}
\* A record of the provider; one that is not sound makes the conversion raise.
Item    == [age : Nat, name : Name \cup {NoName}, sound : BOOLEAN]
Job     == [kind : Kind, days : Nat]

ASSUME SlugAssumption    == Slug \in [Name -> Nat \ {0}] /\ NoName \notin Name
ASSUME HoldingAssumption == Holdings \subseteq [Kind -> Seq(Item)]
ASSUME JobsAssumption    == Jobs \subseteq [Session -> Job]
ASSUME BoundsAssumption  == Span \in Nat \ {0} /\ MaxFaults \in Nat

\* Ids: <<Past, 0, slug>> of a malware; the indicator, the observable and the
\* relationships made of one item share <<session, request, position>> here.
\* An object's place in the bundle is the request and the position that it comes
\* from, a malware's behind that of the item which names it.
Past       == "any session"
Malware(n) == <<Past, 0, Slug[n]>>
NoRef      == <<Past, 0, 0>>
Id         == (Session \cup {Past}) \X Nat \X Nat
Ref        == {NoRef} \cup {Malware(n) : n \in Name}
Object     == [id : Id, ref : Ref, at : Nat \X Nat \X {0, 1}]

ASSUME KnownAssumption   == KnownSets \subseteq SUBSET Nat
ASSUME PastAssumption    == Past \notin Session

Earlier(o, q) ==
    \/ o.at[1] < q.at[1]
    \/ o.at[1] = q.at[1] /\ o.at[2] < q.at[2]
    \/ o.at[1] = q.at[1] /\ o.at[2] = q.at[2] /\ o.at[3] =< q.at[3]
First(O) == {o \in O : \A q \in O : Earlier(o, q)}

VARIABLES
    table,     \* the committed objects, each with the session that inserted it;
               \* ref is the malware its relationship points to
    job,       \* the job of each session
    holding,   \* what each provider holds during the collections
    pc,        \* "fetch", "select", "flush", "done"
    request,   \* the number of the next request to the provider
    cache,     \* malware_cache: the names that have their object already
    bundle,    \* the objects collected, then those still to look up
    changed,   \* the ids of loaded objects the flush will UPDATE
    added,     \* the new objects the flush will INSERT
    wrote,     \* the ids written and locked by the flush
    tally,     \* "new" and "updated" of the bundle's statistics
    skipped,   \* history: a chunk of the history failed and was skipped
    outcome,   \* how the session ended
    idle,      \* the sessions whose coroutine is left where it waits
    faults

collecting == <<request, cache, skipped>>
saving     == <<changed, added, wrote, tally>>
input      == <<job, holding>>
vars       == <<table, job, holding, pc, request, cache, bundle, changed, added, wrote,
                tally, skipped, outcome, idle, faults>>

Stored(id) == \E row \in table : row.id = id

(***************************************************************************)
(* Requests.  The k-th request of a job gets the items at these positions. *)
(***************************************************************************)
Held(s)       == holding[job[s].kind]
Younger(s, d) == {i \in DOMAIN Held(s) : Held(s)[i].age < d}
\* Each chunk asks for so many days, counted back from now.
ChunkDays(s, k) ==
    LET left == job[s].days - (k - 1) * Span IN IF left < Span THEN left ELSE Span
Answer(s, k) ==
    CASE job[s].kind = "history" -> Younger(s, ChunkDays(s, k))
      [] job[s].kind = "current" -> Younger(s, Span)
      [] OTHER                   -> {k} \cap DOMAIN Held(s)
\* The chunks of the range; one; three downloads; the pages there are.
Requests(s) ==
    CASE job[s].kind = "history" -> (job[s].days + Span - 1) \div Span
      [] job[s].kind = "current" -> 1
      [] job[s].kind = "urlhaus" -> 3
      [] OTHER                   -> Len(Held(s))

(***************************************************************************)
(* Conversion of the items S of the k-th answer, in order.                 *)
(***************************************************************************)
NameOf(s, i) == Held(s)[i].name
Names(s, S)  == {NameOf(s, i) : i \in S} \ {NoName}

\* A malware object follows the first item that names it, unless an earlier
\* chunk has put the name into the cache.
Introduces(s, S, i) ==
    /\ NameOf(s, i) \notin cache[s] \cup {NoName}
    /\ \A j \in S : j < i => NameOf(s, j) # NameOf(s, i)
RefOf(s, i) == IF NameOf(s, i) = NoName THEN NoRef ELSE Malware(NameOf(s, i))

Convert(s, k, S) ==
    {[id |-> <<s, k, i>>, ref |-> RefOf(s, i), at |-> <<k, i, 0>>] : i \in S}
    \cup {[id |-> Malware(NameOf(s, i)), ref |-> NoRef, at |-> <<k, i, 1>>] :
             i \in {j \in S : Introduces(s, S, j)}}

Unsound(s, S) == {i \in S : ~Held(s)[i].sound}
\* What is converted before the first item that raises.
Before(s, S)  == {i \in S : \A u \in Unsound(s, S) : i < u}
-----------------------------------------------------------------------------
Init ==
    /\ \E known \in KnownSets :
        table = {[id |-> <<Past, 0, m>>, ref |-> NoRef, by |-> Past] : m \in known}
    /\ job \in Jobs /\ holding \in Holdings
    /\ pc = [s \in Session |-> "fetch"]
    /\ request = [s \in Session |-> 1]
    /\ cache = [s \in Session |-> {}]
    /\ bundle = [s \in Session |-> {}]
    /\ changed = [s \in Session |-> {}] /\ wrote = [s \in Session |-> {}]
    /\ added = [s \in Session |-> {}]
    /\ tally = [s \in Session |-> [new |-> 0, updated |-> 0]]
    /\ skipped = [s \in Session |-> FALSE]
    /\ outcome = [s \in Session |-> "none"]
    /\ idle = {} /\ faults = 0

End(s, how) ==
    /\ pc' = [pc EXCEPT ![s] = "done"]
    /\ outcome' = [outcome EXCEPT ![s] = how]
    /\ wrote' = [wrote EXCEPT ![s] = {}]

Fault == faults < MaxFaults /\ faults' = faults + 1

\* Further requests, or the look-ups.
Advance(s) ==
    /\ pc' = [pc EXCEPT ![s] = IF request[s] < Requests(s) THEN "fetch" ELSE "select"]
    /\ request' = [request EXCEPT ![s] = @ + 1]

\* An answer that converts as a whole.
Fetch(s) ==
    LET k == request[s]  S == Answer(s, k) IN
    /\ pc[s] = "fetch" /\ Unsound(s, S) = {}
    /\ bundle' = [bundle EXCEPT ![s] = @ \cup Convert(s, k, S)]
    /\ cache' = [cache EXCEPT ![s] = IF job[s].kind = "history" THEN @ \cup Names(s, S) ELSE @]
    /\ Advance(s)
    /\ UNCHANGED <<table, input, saving, skipped, outcome, faults>>

\* The request or the conversion raises.  URLhaus and the current ThreatFox
\* collection fail with it; OTX keeps the objects made so far and stops; the
\* history drops the chunk and goes on, with the cache as it is by then.
FetchFails(s) ==
    LET S == Answer(s, request[s]) IN
    /\ pc[s] = "fetch"
    /\ \/ Unsound(s, S) # {} /\ UNCHANGED faults
       \/ Fault
    /\ CASE job[s].kind \in {"urlhaus", "current"} ->
                End(s, "failed") /\ UNCHANGED <<request, cache, skipped>>
         [] job[s].kind = "otx" ->
                /\ pc' = [pc EXCEPT ![s] = "select"]
                /\ UNCHANGED <<request, cache, skipped, wrote, outcome>>
         [] OTHER ->
                /\ Advance(s)
                /\ skipped' = [skipped EXCEPT ![s] = TRUE]
                /\ cache' = [cache EXCEPT ![s] =
                      IF faults' = faults THEN @ \cup Names(s, Before(s, S)) ELSE @]
                /\ UNCHANGED <<wrote, outcome>>
    /\ UNCHANGED <<table, input, bundle, changed, added, tally>>

(***************************************************************************)
(* save_stix_bundle.                                                       *)
(***************************************************************************)
\* Mutant of Select: with autoflush a look-up finds what was added before.
SelectSeesAdded(s) ==
    /\ pc[s] = "select"
    /\ \E o \in First(bundle[s]) :
        /\ bundle' = [bundle EXCEPT ![s] = @ \ {o}]
        /\ IF Stored(o.id) \/ \E q \in added[s] : q.id = o.id
           THEN /\ changed' = [changed EXCEPT ![s] = @ \cup {o.id}]
                /\ tally' = [tally EXCEPT ![s].updated = @ + 1]
                /\ added' = added
           ELSE /\ added' = [added EXCEPT ![s] = @ \cup {o}]
                /\ tally' = [tally EXCEPT ![s].new = @ + 1]
                /\ changed' = changed
    /\ UNCHANGED <<table, input, pc, collecting, wrote, outcome, faults>>

\* Mutant of Select: a stored object is not looked for.
SelectBlind(s) ==
    /\ pc[s] = "select"
    /\ \E o \in First(bundle[s]) :
        /\ bundle' = [bundle EXCEPT ![s] = @ \ {o}]
        /\ added' = [added EXCEPT ![s] = @ \cup {o}]
    /\ tally' = [tally EXCEPT ![s].new = @ + 1]
    /\ UNCHANGED <<table, input, pc, collecting, changed, wrote, outcome, faults>>

\* The next object: a stored one is changed in memory, any other one added, also
\* a second time, for what was added before is not in the table yet.
Select(s) ==
    /\ pc[s] = "select"
    /\ \E o \in First(bundle[s]) :
        /\ bundle' = [bundle EXCEPT ![s] = @ \ {o}]
        /\ IF Stored(o.id)
           THEN /\ changed' = [changed EXCEPT ![s] = @ \cup {o.id}]
                /\ tally' = [tally EXCEPT ![s].updated = @ + 1]
                /\ added' = added
           ELSE /\ added' = [added EXCEPT ![s] = @ \cup {o}]
                /\ tally' = [tally EXCEPT ![s].new = @ + 1]
                /\ changed' = changed
    /\ UNCHANGED <<table, input, pc, collecting, wrote, outcome, faults>>

CommitBegins(s) ==
    /\ pc[s] = "select" /\ bundle[s] = {}
    /\ pc' = [pc EXCEPT ![s] = "flush"]
    /\ UNCHANGED <<table, input, collecting, bundle, saving, outcome, faults>>

(***************************************************************************)
(* The flush of the commit.                                                *)
(***************************************************************************)
\* What is left of the flush: an object is inserted once its id is written by
\* an INSERT, unless it is a second one of that id.
Repeats(s, o) == \E q \in added[s] \ {o} : q.id = o.id /\ Earlier(q, o)
ToUpdate(s)   == changed[s] \ wrote[s]
ToInsert(s)   == {o \in added[s] : o.id \in wrote[s] \ changed[s] => Repeats(s, o)}
ToWrite(s) ==
    IF ToUpdate(s) # {} THEN {id \in ToUpdate(s) : \A o \in ToUpdate(s) : id[3] =< o[3]}
    ELSE {o.id : o \in First(ToInsert(s))}

\* Another session has written this id and not ended: the server waits for it.
WaitsFor(s) == {t \in Session \ {s} : pc[s] = "flush" /\ ToWrite(s) \cap wrote[t] # {}}
Deadlocked(s) == \E C \in SUBSET Session : s \in C /\ \A u \in C : WaitsFor(u) \cap C # {}

\* Mutant of Conflict: without a primary key only the session itself notices.
ConflictOwnOnly(s) == changed[s] \subseteq wrote[s] /\ ToWrite(s) \cap wrote[s] # {}

\* The next INSERT finds its primary key taken, by a commit since the look-up
\* or by the same bundle.
Conflict(s) ==
    /\ changed[s] \subseteq wrote[s]
    /\ \E id \in ToWrite(s) : Stored(id) \/ id \in wrote[s]

Write(s) ==
    /\ pc[s] = "flush" /\ ToWrite(s) # {} /\ WaitsFor(s) = {} /\ ~Conflict(s)
    /\ wrote' = [wrote EXCEPT ![s] = @ \cup ToWrite(s)]
    /\ UNCHANGED <<table, input, pc, collecting, bundle, changed, added, tally, outcome, faults>>

\* Mutant of FlushFails: the INSERT that conflicts is left out.
FlushSkips(s) ==
    /\ pc[s] = "flush" /\ WaitsFor(s) = {} /\ Conflict(s)
    /\ added' = [added EXCEPT ![s] = @ \ First(ToInsert(s))]
    /\ UNCHANGED <<table, input, pc, collecting, bundle, changed, wrote, tally, outcome, faults>>

FlushFails(s) ==
    /\ pc[s] = "flush" /\ WaitsFor(s) = {} /\ Conflict(s)
    /\ End(s, "conflict")
    /\ UNCHANGED <<table, input, collecting, bundle, changed, added, tally, faults>>

\* Mutant of DeadlockVictim: the server does not look for deadlocks.
NoVictim(s) == Deadlocked(s) /\ UNCHANGED vars

DeadlockVictim(s) ==
    /\ Deadlocked(s)
    /\ End(s, "deadlock")
    /\ UNCHANGED <<table, input, collecting, bundle, changed, added, tally, faults>>

\* The connection breaks, or at any time the process ends.
ConnectionLost(s) ==
    /\ pc[s] # "done"
    /\ Fault
    /\ End(s, "failed")
    /\ UNCHANGED <<table, input, collecting, bundle, changed, added, tally>>

\* The server carries the commit out.
Publish(s, how) ==
    /\ pc[s] = "flush" /\ ToUpdate(s) = {} /\ ToInsert(s) = {}
    /\ table' = table \cup {[id |-> o.id, ref |-> o.ref, by |-> s] : o \in added[s]}
    /\ End(s, how)
    /\ UNCHANGED <<input, collecting, bundle, changed, added, tally>>

Commit(s) == Publish(s, "ok") /\ UNCHANGED faults

\* The answer to the COMMIT is lost: the rows are there, and the connector reports
\* an error.
CommitUnanswered(s) == Publish(s, "unanswered") /\ Fault

\* The soft limit is raised in the worker's loop, which leaves the coroutine where
\* it waits, with its locks, until the loop runs for another task.
Suspend(s) ==
    /\ pc[s] # "done" /\ s \notin idle
    /\ Fault
    /\ idle' = idle \cup {s}
    /\ UNCHANGED <<table, input, pc, collecting, bundle, saving, outcome>>

Resume(s) ==
    /\ s \in idle
    /\ idle' = idle \ {s}
    /\ UNCHANGED <<table, input, pc, collecting, bundle, saving, outcome, faults>>

Finished == (\A s \in Session : pc[s] = "done") /\ UNCHANGED vars

Step(s) ==
    \/ Fetch(s) \/ FetchFails(s) \/ Select(s) \/ CommitBegins(s)
    \/ Write(s) \/ FlushFails(s) \/ DeadlockVictim(s) \/ Commit(s)

Proceeds(s) == s \notin idle /\ Step(s) /\ UNCHANGED idle

Breaks(s) == (ConnectionLost(s) \/ CommitUnanswered(s)) /\ UNCHANGED idle

Next == (\E s \in Session : Proceeds(s) \/ Breaks(s) \/ Suspend(s) \/ Resume(s)) \/ Finished

\* Every request and statement ends; no fault is assumed to happen, and nothing
\* resumes a coroutine that was left.
Spec == Init /\ [][Next]_vars /\ \A s \in Session : WF_vars(Proceeds(s))
-----------------------------------------------------------------------------
(* Properties.                                                             *)

TypeOK ==
    /\ table \subseteq [id : Id, ref : Ref, by : Session \cup {Past}]
    /\ job \in Jobs /\ holding \in Holdings
    /\ pc \in [Session -> {"fetch", "select", "flush", "done"}]
    /\ request \in [Session -> Nat]
    /\ cache \in [Session -> SUBSET Name]
    /\ bundle \in [Session -> SUBSET Object] /\ added \in [Session -> SUBSET Object]
    /\ changed \in [Session -> SUBSET Id] /\ wrote \in [Session -> SUBSET Id]
    /\ \A s \in Session : \A id \in changed[s] : Stored(id)
    /\ \A s \in Session : wrote[s] # {} => pc[s] = "flush"
    /\ tally \in [Session -> [new : Nat, updated : Nat]]
    /\ skipped \in [Session -> BOOLEAN]
    /\ outcome \in [Session -> {"none", "ok", "unanswered", "failed", "conflict", "deadlock"}]
    /\ idle \subseteq Session /\ faults \in 0 .. MaxFaults

\* No two rows share an id, and a relationship points to a stored malware:
\* but for a history that skipped a chunk whose names stay in its cache.
RefsResolve ==
    \A row \in table :
        /\ \A other \in table : other.id = row.id => other = row
        /\ row.ref = NoRef \/ Stored(row.ref) \/ skipped[row.by]

\* The new objects a saved bundle reports are the rows it added, whatever other
\* collections stored between its look-ups and its commit.
NewCountHonest ==
    \A s \in Session :
        outcome[s] = "ok" => tally[s].new = Cardinality({row \in table : row.by = s})

\* A bundle is lost to a conflict only if another collection stored one of its
\* malware for the first time meanwhile, or if it spells one in two ways.
ConflictNeedsNewcomer ==
    \A s \in Session : outcome[s] = "conflict" =>
        \/ \E o \in added[s] : \E row \in table : row.id = o.id /\ row.by # Past
        \/ \E o, q \in added[s] : o # q /\ o.id = q.id

\* Every collection ends, also when two of them store the same malware in
\* opposite orders, unless one stays suspended, for whose locks others may wait.
Termination ==
    <>[](\A s \in idle : pc[s] = "done") => \A s \in Session : <>(pc[s] = "done")

\* What collect_historical is for: a history that went well has stored every
\* item of the range it was asked for.
HistoryReachesBack ==
    \A s \in Session :
        job[s].kind = "history" /\ outcome[s] = "ok" /\ ~skipped[s] =>
            \A i \in Younger(s, job[s].days) : \E row \in table : row.id[1] = s /\ row.id[3] = i
=============================================================================
