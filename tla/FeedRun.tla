------------------------------ MODULE FeedRun ------------------------------
(***************************************************************************)
(* One run of one collector: the STIX collection before it, the requests   *)
(* to the provider with their retries and their fallbacks to smaller       *)
(* requests, the records kept of each answer, and the batches saved.       *)
(*                                                                         *)
(* A request asks for some of what the provider holds.  Each feed has its  *)
(* own list of requests to fall back to, and its own reason to: an answer  *)
(* that says no (MalwareBazaar, ThreatFox), or any error (OTX on its first *)
(* page, AbuseIPDB).  A run may be told to stop by the soft time limit, an *)
(* exception raised wherever its code happens to be; raised in the event   *)
(* loop instead, it leaves the run suspended until a later task of the     *)
(* process runs the loop again.                                            *)
(***************************************************************************)
EXTENDS Integers, Sequences, FiniteSets

CONSTANTS
    Offers,      \* what the provider may hold: sequences of record classes
    Settings,    \* the configurations considered: see Setting
    BatchSize    \* records per commit (500)

Feed == {"urlhaus", "openphish", "malwarebazaar", "threatfox", "otx", "abuseipdb"}

\* "blank" has no value, "long" has a value longer than the schema allows,
\* "wide" too long a text beside it, "odd" a score out of range or missing;
\* "nul" holds a NUL character, which the schema lets through and the server
\* refuses.
Class == {"good", "blank", "long", "wide", "odd", "nul"}

\* The requests a feed may make, in order, by how many records each covers (of
\* each page, for OTX); maxPages is otx_max_pages, 0 for no limit; keyed: an API key is set.
Setting == [feed : Feed, sizes : Seq(Nat \ {0}), maxPages : Nat, keyed : BOOLEAN]

ASSUME OffersAssumption   == Offers \subseteq Seq(Class)
ASSUME SettingsAssumption ==
    /\ Settings \subseteq Setting /\ \A c \in Settings : c.sizes # <<>>
    \* The smaller request of OTX is not the larger one.
    /\ \A c \in Settings : c.feed = "otx" => \A n \in DOMAIN c.sizes : c.sizes[n] =< c.sizes[1]
ASSUME BatchAssumption    == BatchSize \in Nat \ {0}

MaxAttempts == 3
Keyed       == {"threatfox", "otx", "abuseipdb"}     \* need a key to start
SaysNo      == {"malwarebazaar", "threatfox"}        \* look at query_status

\* The classes a collector's own tests drop, and those whose IOCCreate raises.
Drops(f) == {"blank"} \cup (IF f \in {"urlhaus", "otx"} THEN {"long"} ELSE {})
Breaks(f) ==
    CASE f = "urlhaus"   -> {}
      [] f = "openphish" -> {"long"}
      [] f = "otx"       -> {"wide"}
      [] OTHER           -> {"long", "wide", "odd"}

VARIABLES
    offer,      \* what the provider holds during the run
    setting,    \* the feed and its configuration
    pc,         \* "stix", "request", "parse", "save", "done"
    attempt,    \* the attempts of fetch_url so far at the current request
    choice,     \* the position in sizes of the current request
    page,       \* the page asked for (OTX)
    iocs,       \* the positions in offer of the records still to save
    saved,      \* the positions of those committed
    error,      \* stats["error"] is set
    warned,     \* a warning was logged
    requests,   \* history: requests made
    seen,       \* history: a fallback request was answered, an answer said no
    told,       \* history: the soft time limit has struck
    left        \* the coroutine is left suspended, no loop runs it

input  == <<offer, setting>>
fetch  == <<attempt, choice, page>>
run    == <<page, iocs, saved>>
vars   == <<offer, setting, pc, attempt, choice, page, iocs, saved, error,
            warned, requests, seen, told, left>>

TypeOK ==
    /\ offer \in Offers /\ setting \in Settings
    /\ pc \in {"stix", "request", "parse", "save", "done"}
    /\ attempt \in 0 .. MaxAttempts - 1
    /\ choice \in DOMAIN setting.sizes
    /\ page \in 1 .. Len(offer) + 1
    /\ iocs \subseteq DOMAIN offer
    /\ saved \subseteq DOMAIN offer /\ seen \subseteq {"smaller", "no"}
    /\ {error, warned, told, left} \subseteq BOOLEAN
    /\ requests \in Nat

feed    == setting.feed
size    == setting.sizes[choice]
More    == choice < Len(setting.sizes)
\* The records the current request covers.
Covered == {i \in DOMAIN offer : (page - 1) * size < i /\ i =< page * size}
Kept    == {i \in Covered : offer[i] \notin Drops(feed)}
-----------------------------------------------------------------------------
Init ==
    /\ offer \in Offers /\ setting \in Settings
    /\ pc = "stix" /\ attempt = 0 /\ choice = 1 /\ page = 1
    /\ iocs = {} /\ saved = {} /\ requests = 0 /\ seen = {}
    /\ error = FALSE /\ warned = FALSE /\ told = FALSE /\ left = FALSE

\* Whatever the STIX collection of some sources raises is logged, no more; a
\* feed that needs a key and has none is skipped with a warning.
CollectStix ==
    /\ pc = "stix"
    /\ \E raised \in BOOLEAN :
        /\ raised => feed \in {"urlhaus", "threatfox", "otx"}
        /\ told' \in {told, told \/ raised}
        /\ IF feed \in Keyed /\ ~setting.keyed
             THEN pc' = "done" /\ warned' = TRUE
             ELSE pc' = "request" /\ warned' = raised
    /\ UNCHANGED <<input, fetch, iocs, saved, error, requests, seen>>

(***************************************************************************)
(* Requests.                                                               *)
(***************************************************************************)
\* The exception ends the run: what was kept so far is dropped.
Fail == pc' = "done" /\ error' = TRUE /\ iocs' = {} /\ UNCHANGED <<choice, warned>>

Fallback ==
    /\ choice' = choice + 1 /\ warned' = TRUE
    /\ UNCHANGED <<pc, error, iocs>>

\* The run goes on with what it has.
Settle == pc' = "save" /\ warned' = TRUE /\ UNCHANGED <<choice, error, iocs>>

\* Mutant of Raise: the last request of AbuseIPDB falls back once more.
RaiseOnceMore ==
    CASE feed = "otx" /\ page > 1           -> Settle
      [] feed = "otx" /\ page = 1 /\ More   -> Fallback
      [] feed = "abuseipdb"                 -> Fallback
      [] OTHER                              -> Fail

\* What each collector does about an exception of its request.
Raise ==
    CASE feed = "otx" /\ page > 1           -> Settle
      [] feed = "otx" /\ page = 1 /\ More   -> Fallback
      [] feed = "abuseipdb" /\ More         -> Fallback
      [] feed = "abuseipdb" /\ ~More        -> Settle
      [] OTHER                              -> Fail

\* An attempt fails for good: the server refuses it, the answer is no JSON, or
\* the soft limit strikes.
RequestFails ==
    /\ pc = "request"
    /\ Raise
    /\ attempt' = 0 /\ requests' = requests + 1
    /\ told' \in BOOLEAN /\ (told => told')
    /\ UNCHANGED <<input, page, saved, seen>>

\* Mutant of RetryLater: the attempts are not counted.
RetryUncounted ==
    /\ pc = "request" /\ attempt < MaxAttempts - 1
    /\ attempt' = attempt /\ requests' = requests + 1
    /\ UNCHANGED <<input, pc, choice, run, error, warned, seen, told>>

\* An attempt fails with a status or a network error worth another one.
RetryLater ==
    /\ pc = "request" /\ attempt < MaxAttempts - 1
    /\ attempt' = attempt + 1 /\ requests' = requests + 1
    /\ UNCHANGED <<input, pc, choice, run, error, warned, seen, told>>

RetriesExhausted ==
    /\ pc = "request" /\ attempt = MaxAttempts - 1
    /\ Raise
    /\ attempt' = 0 /\ requests' = requests + 1
    /\ UNCHANGED <<input, page, saved, seen, told>>

Answered ==
    /\ pc = "request"
    /\ pc' = "parse"
    /\ attempt' = 0 /\ requests' = requests + 1
    /\ seen' = seen \cup (IF choice > 1 THEN {"smaller"} ELSE {})
    /\ UNCHANGED <<input, choice, run, error, warned, told>>

\* The answer says no: the next request, and after the last one no records.
AnsweredNo ==
    /\ pc = "request" /\ feed \in SaysNo
    /\ IF More THEN Fallback ELSE pc' = "save" /\ UNCHANGED <<choice, warned, error, iocs>>
    /\ attempt' = 0 /\ requests' = requests + 1
    /\ seen' = seen \cup {"no"}
    /\ UNCHANGED <<input, page, saved, told>>

(***************************************************************************)
(* Records.                                                                *)
(***************************************************************************)
\* One record the schema refuses costs the run, with all its pages; so does
\* the soft limit, unless a bare except around a date takes it.
ParseFails ==
    /\ pc = "parse"
    /\ \/ \E i \in Kept : offer[i] \in Breaks(feed) /\ told' = told
       \/ told' = TRUE
    /\ Fail
    /\ UNCHANGED <<input, attempt, page, saved, requests, seen>>

HasNext == feed = "otx" /\ page * size < Len(offer)

\* Mutant of Parse: the page moves on by two.
ParseSkipsPage ==
    /\ pc = "parse"
    /\ \A i \in Kept : offer[i] \notin Breaks(feed)
    /\ iocs' = iocs \cup Kept
    /\ \/ ~HasNext /\ pc' = "save" /\ UNCHANGED <<choice, page, warned>>
       \/ HasNext /\ pc' = "request" /\ page' = page + 2 /\ choice' = 1 /\ warned' = warned
    /\ UNCHANGED <<input, attempt, saved, error, requests, seen, told>>

Parse ==
    /\ pc = "parse"
    /\ \A i \in Kept : offer[i] \notin Breaks(feed)
    /\ iocs' = iocs \cup Kept
    /\ \/ ~HasNext /\ pc' = "save" /\ UNCHANGED <<choice, page, warned>>
       \/ /\ HasNext /\ page = setting.maxPages
          /\ pc' = "save" /\ warned' = TRUE /\ UNCHANGED <<choice, page>>
       \/ /\ HasNext /\ page # setting.maxPages
          /\ pc' = "request" /\ page' = page + 1 /\ choice' = 1 /\ warned' = warned
    /\ UNCHANGED <<input, attempt, saved, error, requests, seen, told>>

\* Records are kept and saved in the order of the offer: the first ones.
InBatch == {i \in iocs : Cardinality({j \in iocs : j =< i}) =< BatchSize}

\* Mutant of SaveBatch: the loop does not advance to the next batch.
SaveAgain ==
    /\ pc = "save" /\ iocs # {}
    /\ saved' = saved \cup InBatch
    /\ UNCHANGED <<input, pc, fetch, iocs, error, warned, requests, seen, told>>

\* What is committed of the items a batch has tried: nothing once the server
\* has refused a value, for that aborts the transaction, whose COMMIT then
\* undoes it without an error.
Stored(tried) == IF \E i \in tried : offer[i] = "nul" THEN {} ELSE tried

\* The next batch is committed, perhaps without one item whose statement the
\* soft limit interrupted.  The errors of items are counted and logged.
SaveBatch ==
    /\ pc = "save" /\ iocs # {}
    /\ iocs' = iocs \ InBatch
    /\ \/ /\ saved' = saved \cup Stored(InBatch) /\ told' = told
          /\ warned' = (warned \/ Stored(InBatch) # InBatch)
       \/ /\ told' = TRUE /\ warned' = TRUE
          /\ \E i \in InBatch : saved' = saved \cup Stored(InBatch \ {i})
    /\ UNCHANGED <<input, pc, fetch, error, requests, seen>>

\* The batch's commit raises: the batch is lost, unless it is only the answer
\* of the server that is.
SaveFails ==
    /\ pc = "save" /\ iocs # {}
    /\ Fail
    /\ saved' \in {saved, saved \cup Stored(InBatch)}
    /\ told' \in BOOLEAN /\ (told => told')
    /\ UNCHANGED <<input, attempt, page, requests, seen>>

\* Mutant of Report: the last batch is left out unless it is a full one.
ReportEarly ==
    /\ pc = "save" /\ Cardinality(iocs) < BatchSize
    /\ pc' = "done"
    /\ UNCHANGED <<input, fetch, iocs, saved, error, warned, requests, seen, told>>

\* The run returns its statistics.
Report ==
    /\ pc = "save" /\ iocs = {}
    /\ pc' = "done"
    /\ UNCHANGED <<input, fetch, iocs, saved, error, warned, requests, seen, told>>

Request == RequestFails \/ RetryLater \/ RetriesExhausted \/ Answered \/ AnsweredNo
Read    == ParseFails \/ Parse

\* A step of the run, while its task keeps the loop running.
Proceeds == ~left /\ (CollectStix \/ Request \/ Read \/ SaveBatch \/ Report) /\ UNCHANGED left

\* The soft limit strikes the loop while the run awaits an answer or a
\* statement: run_until_complete raises, and the task ends without the run.
Suspend ==
    /\ pc \in {"stix", "request", "save"} /\ ~left
    /\ left' = TRUE /\ told' = TRUE
    /\ UNCHANGED <<input, pc, fetch, iocs, saved, error, warned, requests, seen>>

\* A later task of the same process runs the loop, and with it the run.
Resume ==
    /\ left /\ left' = FALSE
    /\ UNCHANGED <<input, pc, fetch, iocs, saved, error, warned, requests, seen, told>>

Finished == pc = "done" /\ UNCHANGED vars

Next ==
    \/ Proceeds
    \/ ~left /\ SaveFails /\ UNCHANGED left
    \/ Suspend
    \/ Resume
    \/ Finished

\* Every request ends, at worst with a timeout, and so does every statement;
\* no commit is assumed to raise, and no later task to come.
Spec == Init /\ [][Next]_vars /\ WF_vars(Proceeds)
-----------------------------------------------------------------------------
(* Properties.                                                             *)

Good == {i \in DOMAIN offer : offer[i] = "good"}

\* What the first request of the feed asks for: OTX goes on to further pages.
Wanted == {i \in DOMAIN offer : feed = "otx" \/ i =< setting.sizes[1]}

\* A run that logs neither an error nor a warning has saved every good record
\* it set out to get, but for a provider that said no to the only request
\* there is: fallbacks, page limits, retries and time limits are not silent.
NoSilentLoss ==
    pc = "done" /\ ~error /\ ~warned =>
        Good \cap Wanted \subseteq saved \/ ("no" \in seen /\ Len(setting.sizes) = 1)

\* Record j may share a batch with a value that the server refuses: no more
\* good records than a batch takes lie from one to the other.
NearNul(j) ==
    \E n \in DOMAIN offer :
        /\ offer[n] = "nul"
        /\ Cardinality({k \in Good : k \in j .. n \cup n .. j}) =< BatchSize

\* What is saved has no gaps: a good record is missing before a saved one only
\* if the soft limit interrupted its statement, if OTX answered the first
\* page in a smaller size and went on with the second page in the full one, or
\* if its batch held a value that the server refuses, and was lost with it.
GapsHaveReasons ==
    \A i \in saved : \A j \in Good :
        j < i => \/ j \in saved \/ told \/ NearNul(j)
                 \/ feed = "otx" /\ "smaller" \in seen

\* Retries, fallbacks and pages multiply to a known number of requests.
RequestBudget ==
    requests =< MaxAttempts * (Len(setting.sizes) + page - 1)

\* A run ends and reports, unless the soft limit leaves it suspended and no
\* later task ever lets it go on.
Reports == <>[](~left) => <>(pc = "done")
=============================================================================
