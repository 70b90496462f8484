------------------------------ MODULE Requests ------------------------------
(***************************************************************************)
(* The read side of the API: what a request for a page does with its       *)
(* database connection, with the services it asks, and with the KEV cache. *)
(*                                                                         *)
(* get_db gives every request one session.  Its first statement, the       *)
(* look-up of the user, takes a connection from the pool; the request      *)
(* holds it until it is answered, also while it waits for a service or for *)
(* the lock of the KEV cache.  All statements of a request share one       *)
(* transaction: after an error every later one fails too, the fallbacks of *)
(* the page included.                                                      *)
(***************************************************************************)
EXTENDS Integers, Sequences, FiniteSets, SequencesExt

CONSTANTS
    Request,    \* the requests
    Conn,       \* the connections of the pool (pool_size + max_overflow)
    None,       \* no connection
    Workloads,  \* the assignments of pages to requests that are considered
    Contents,   \* what may be there to find at first: sets of sources
    Late,       \* the sources that collections may fill meanwhile
    TTL,        \* KEV_CACHE_TTL_SECONDS
    MaxClock, MaxFaults  \* bounds on time and on failures

\* What a page reads: queries, by what they can find, and services.
Query   == {"iocs", "stix", "mitre", "mitre id", "mitre name", "mitre part", "technique",
            "relations", "timeout"}
Service == {"cve", "virustotal", "otx", "ipapi", "kev", "unset"}
\* What there may be to find; "twins" are two techniques with one external id.
Stock   == Query \cup Service \cup {"twins"}
\* How each can fail: an error of the server; no answer, an error status, a
\* rejected key.
Kinds(of) ==
    IF of \in Query THEN {"sql"}
    ELSE IF of = "virustotal" THEN {"down", "status", "rejected"} ELSE {"down", "status"}

(***************************************************************************)
(* The pages.  A page is a sequence of groups; a group is the alternatives *)
(* tried until one finds something.  A read passes over some failures as   *)
(* if nothing was found; "more" goes on with the group also after a find;  *)
(* "one" raises if there are two to find.                                  *)
(* Consecutive statements on the same tables are one read.                 *)
(***************************************************************************)
Read(of)          == [of |-> of, passes |-> {}, more |-> FALSE, one |-> FALSE]
Try(of, kinds)    == [Read(of) EXCEPT !.passes = kinds]
Also(of)          == [Read(of) EXCEPT !.more = TRUE]
One(of)           == [Read(of) EXCEPT !.one = TRUE]
Each(s)           == [n \in DOMAIN s |-> <<Read(s[n])>>]
\* A page with an except branch: other reads, and what is answered at last.
Handled(groups, fallback, last) ==
    [try |-> groups, fallback |-> fallback, last |-> last, must |-> FALSE]
Plain(groups)     == Handled(groups, <<>>, "error")
\* A page that is "not found" or found:False if its first group finds nothing.
Found(groups)     == [Plain(groups) EXCEPT !.must = TRUE]

\* _set_statement_timeout, and _get_country_counts without a GeoIP database.
SetTimeout == <<Try("timeout", {"sql"})>>
Countries  == <<Try("iocs", {"sql"}), Also("stix"), Try("ipapi", {"down", "status"})>>

\* routes/dashboard.py
Kpis          == Handled(Each(<<"mitre", "iocs">>), Each(<<"iocs">>), "blank")
Regions       == Handled(<<Countries>>, Each(<<"iocs">>), "blank")
CountryMap    == Handled(<<Countries>>, Each(<<"iocs">>), "error")
ActiveActors  == Handled(<<SetTimeout>> \o Each(<<"mitre">>), <<>>, "error")
SectorsOnward == Handled(Each(<<"iocs">>), <<>>, "blank")
ActiveTools   == Handled(<<SetTimeout>> \o Each(<<"mitre">>), <<>>, "blank")
LatestIocs    == Handled(Each(<<"iocs">>), <<>>, "blank")
\* What the statistics are made of (crud/iocs.py, routes/stats.py): the tables
\* are asked for the same until one has it.
IocStats         == <<Read("iocs")>>
StixCounts       == <<Read("stix")>>
MitreCounts      == <<Read("mitre")>>
IndicatorSources == <<Read("stix")>>
TopMitre         == <<Read("mitre")>>
CountriesStored  == <<Read("iocs"), Read("stix")>>
Timeline         == <<Read("stix"), Read("iocs")>>
MalwareFamilies  == <<Read("stix"), Read("mitre"), Read("iocs")>>
TopCves          == <<Read("stix"), Read("iocs")>>
RecentIocs       == <<Read("iocs")>>
\* routes/stats.py
Summary       == Plain(<<IocStats, StixCounts, MitreCounts>>)
Sources       == Plain(<<IocStats, IndicatorSources>>)
CountryStats  == Plain(<<CountriesStored>>)
Distributions == Plain(<<IocStats>>)
DashboardStats ==
    Plain(<<IocStats, StixCounts, MitreCounts, IndicatorSources, TopMitre, CountriesStored,
            Timeline, MalwareFamilies, TopCves, TopMitre, RecentIocs>>)
\* routes/entities.py
CveDetail       == Found(Each(<<"cve", "iocs">>))
ThreatDetail    ==
    Found(<< <<Read("mitre id"), Read("mitre name"), Read("mitre part"), Read("stix")>> >>
          \o Each(<<"relations">>))
IndicatorDetail == Found(Each(<<"stix", "relations">>))
\* routes/search.py
MatchingIocs == <<Read("iocs")>>
SearchIocs  == Plain(<<MatchingIocs>>)
OneIoc      == Found(Each(<<"iocs">>))
Suggest     == Plain(Each(<<"iocs", "mitre", "stix">>))
LookupCve   == Found(Each(<<"cve">>))
\* Asks the services that have a key, none of which has one by default.
HashSources(keys) ==
    (IF "virustotal" \in keys
     THEN <<Try("virustotal", IF "otx" \in keys THEN {"rejected"} ELSE {})>> ELSE <<>>)
    \o (IF "otx" \in keys THEN <<Read("otx")>> ELSE <<>>)
    \o (IF keys = {} THEN <<Read("unset")>> ELSE <<>>)
LookupHash(keys) == Found(<<HashSources(keys)>>)
QuickLookup == Plain(Each(<<"iocs">>) \o << <<Try("ipapi", {"down"})>> >>)
\* routes/mitre.py, routes/kev.py
MitreLists  == Plain(Each(<<"mitre">>))
Technique   == Found(<< <<One("technique")>> >>)
KevList     == Plain(Each(<<"kev">>))

Pages == [
    kpis |-> Kpis, regions |-> Regions, countries |-> CountryMap, actors |-> ActiveActors,
    sectors |-> SectorsOnward, tools |-> ActiveTools, latest |-> LatestIocs, summary |-> Summary,
    sources |-> Sources, countrystats |-> CountryStats, distributions |-> Distributions,
    dashboard |-> DashboardStats, cvedetail |-> CveDetail, threat |-> ThreatDetail,
    indicator |-> IndicatorDetail, search |-> SearchIocs, ioc |-> OneIoc, suggest |-> Suggest,
    cve |-> LookupCve, hash |-> LookupHash({"virustotal", "otx"}),
    vthash |-> LookupHash({"virustotal"}), otxhash |-> LookupHash({"otx"}), nohash |-> LookupHash({}),
    lookup |-> QuickLookup, mitre |-> MitreLists, technique |-> Technique, kev |-> KevList]
Unauthenticated == {"mitre", "technique"}

ASSUME WorkloadAssumption == Workloads \subseteq [Request -> DOMAIN Pages] /\ None \notin Conn
ASSUME ContentsAssumption == Contents \cup {Late} \subseteq SUBSET Stock
ASSUME BoundsAssumption   == TTL \in Nat \ {0} /\ MaxClock \in Nat \ {0} /\ MaxFaults \in Nat

VARIABLES
    page, pc,   \* each request's page; "new", "read", "done"
    conn,       \* the connection it holds
    aborted,    \* the connections whose transaction an error has aborted
    branch,     \* "try", "fallback"
    at,         \* the group and the alternative it is at
    found,      \* the groups of its branch that found something
    failed,     \* what failed of its own: reads, "user", "pool"
    answer,     \* "full", "fallback", "blank", "absent", "error"
    content,    \* what there is to find
    before,     \* what there was when the request began
    cache,      \* _kev_cache: "ts", "data", and when they were fetched; 0 for never
    queue,      \* _kev_lock: its holder and those who wait for it, in order
    fetching,   \* the holder has asked for the feed
    entered,    \* "now" of each request for the feed
    served,     \* when the feed it was given had been fetched
    given,      \* and what that feed was
    clock, faults

where == <<branch, at, found>>
kev   == <<cache, queue, fetching, entered, served, given>>
rest  == <<page, content, before, clock>>
vars  == <<page, pc, conn, aborted, branch, at, found, failed, answer, content, before,
           cache, queue, fetching, entered, served, given, clock, faults>>

Groups(r)  == Pages[page[r]][branch[r]]
Group(r)   == Groups(r)[at[r][1]]
Current(r) == Group(r)[at[r][2]]
-----------------------------------------------------------------------------
Init ==
    /\ page \in Workloads /\ pc = [r \in Request |-> "new"]
    /\ conn = [r \in Request |-> None] /\ aborted = {}
    /\ branch = [r \in Request |-> "try"] /\ at = [r \in Request |-> <<1, 1>>]
    /\ found = [r \in Request |-> {}] /\ failed = [r \in Request |-> {}]
    /\ answer = [r \in Request |-> "none"]
    /\ content \in Contents /\ before = [r \in Request |-> {}]
    /\ cache = [ts |-> 0, taken |-> 0, data |-> "null"] /\ queue = <<>> /\ fetching = FALSE
    /\ entered = [r \in Request |-> 0] /\ served = [r \in Request |-> 0]
    /\ given = [r \in Request |-> "null"]
    /\ clock = 1 /\ faults = 0

Fault == faults < MaxFaults /\ faults' = faults + 1

\* Only the KEV list looks at the time.
Tick ==
    /\ clock < MaxClock /\ clock' = clock + 1
    /\ \E r \in Request : page[r] = "kev" /\ pc[r] # "done"
    /\ UNCHANGED <<page, pc, conn, aborted, where, failed, answer, content, before, kev, faults>>

\* A collection or a sync commits what was not there before.  The KEV list looks
\* at no table.
Fill(of) ==
    /\ of \in Late \ content /\ content' = content \cup {of}
    /\ \E r \in Request : page[r] # "kev" /\ pc[r] # "done"
    /\ UNCHANGED <<page, pc, conn, aborted, where, failed, answer, before, kev, clock, faults>>

(***************************************************************************)
(* The life of a request.                                                  *)
(***************************************************************************)
\* Mutant of Connect: the connection of another request is taken.
ConnectShared(r) ==
    /\ pc[r] = "new" /\ pc' = [pc EXCEPT ![r] = "read"]
    /\ \E c \in Conn : conn' = [conn EXCEPT ![r] = c]
    /\ before' = [before EXCEPT ![r] = content]
    /\ UNCHANGED <<page, aborted, where, failed, answer, content, kev, clock, faults>>

\* A free connection, and the user.
Connect(r) ==
    /\ pc[r] = "new" /\ pc' = [pc EXCEPT ![r] = "read"]
    /\ \E c \in Conn \ {conn[o] : o \in Request} : conn' = [conn EXCEPT ![r] = c]
    /\ before' = [before EXCEPT ![r] = content]
    /\ UNCHANGED <<page, aborted, where, failed, answer, content, kev, clock, faults>>

\* No connection came free within pool_timeout.
PoolTimeout(r) ==
    /\ pc[r] = "new" /\ Conn \subseteq {conn[o] : o \in Request}
    /\ pc' = [pc EXCEPT ![r] = "done"] /\ answer' = [answer EXCEPT ![r] = "error"]
    /\ failed' = [failed EXCEPT ![r] = {"pool"}]
    /\ UNCHANGED <<rest, conn, aborted, where, kev, faults>>

\* Mutant of Close: the connection goes back as it is.
CloseDirty(r, dirty) ==
    conn' = [conn EXCEPT ![r] = None] /\ aborted' = dirty

\* get_db commits, rolls back or closes: nothing of the transaction remains.
Close(r, dirty) ==
    conn' = [conn EXCEPT ![r] = None] /\ aborted' = dirty \ {conn[r]}

Reply(r, how, dirty) ==
    /\ pc' = [pc EXCEPT ![r] = "done"] /\ answer' = [answer EXCEPT ![r] = how]
    /\ Close(r, dirty) /\ UNCHANGED where

\* The user cannot be read: no branch of the page handles that.
AuthFails(r) ==
    /\ pc[r] = "new" /\ page[r] \notin Unauthenticated
    /\ \E c \in Conn : c \notin {conn[o] : o \in Request}
    /\ Fault
    /\ pc' = [pc EXCEPT ![r] = "done"] /\ answer' = [answer EXCEPT ![r] = "error"]
    /\ failed' = [failed EXCEPT ![r] = {"user"}]
    /\ UNCHANGED <<rest, conn, aborted, where, kev>>

Goes(r, there, dirty) ==
    at' = [at EXCEPT ![r] = there] /\ aborted' = dirty /\ UNCHANGED <<pc, conn, branch, answer>>

\* Mutant of Move: a group is left after its first alternative.
MoveOn(r, hit, dirty) ==
    LET in  == IF hit THEN found[r] \cup {at[r][1]} ELSE found[r] IN
    IF at[r][1] < Len(Groups(r))
    THEN Goes(r, <<at[r][1] + 1, 1>>, dirty) /\ found' = [found EXCEPT ![r] = in]
    ELSE Reply(r, IF Pages[page[r]].must /\ 1 \notin in THEN "absent" ELSE "full", dirty)

\* After a read: the next alternative, the next group, or the answer.
Move(r, hit, dirty) ==
    LET in  == IF hit THEN found[r] \cup {at[r][1]} ELSE found[r]
        out == at[r][2] = Len(Group(r)) \/ (hit /\ ~Current(r).more)
    IN
    IF ~out
    THEN Goes(r, <<at[r][1], at[r][2] + 1>>, dirty) /\ found' = [found EXCEPT ![r] = in]
    ELSE IF Pages[page[r]].must /\ 1 \notin in THEN Reply(r, "absent", dirty)
    ELSE IF at[r][1] < Len(Groups(r))
    THEN Goes(r, <<at[r][1] + 1, 1>>, dirty) /\ found' = [found EXCEPT ![r] = in]
    ELSE Reply(r, IF branch[r] = "try" THEN "full" ELSE "fallback", dirty)

\* An exception: the except branch, or its last answer, or an error.
Raise(r, dirty) ==
    IF branch[r] = "try" /\ Pages[page[r]].fallback # <<>>
    THEN /\ branch' = [branch EXCEPT ![r] = "fallback"]
         /\ at' = [at EXCEPT ![r] = <<1, 1>>] /\ found' = [found EXCEPT ![r] = {}]
         /\ aborted' = dirty
         /\ UNCHANGED <<pc, conn, answer>>
    ELSE Reply(r, Pages[page[r]].last, dirty)

Reading(r) == pc[r] = "read" /\ Current(r).of # "kev"
Works(r)   == Current(r).of # "unset" /\ (Current(r).of \in Query => conn[r] \notin aborted)

ReadOk(r) ==
    /\ Reading(r) /\ Works(r)
    /\ IF Current(r).one /\ "twins" \in content THEN Raise(r, aborted)
       ELSE Move(r, Current(r).of \in content, aborted)
    /\ UNCHANGED <<rest, failed, kev, faults>>

ReadFails(r) ==
    /\ Reading(r) /\ Works(r)
    /\ Fault
    /\ failed' = [failed EXCEPT ![r] = @ \cup {Current(r).of}]
    /\ \E kind \in Kinds(Current(r).of) :
        LET dirty == IF kind = "sql" THEN aborted \cup {conn[r]} ELSE aborted IN
        IF kind \in Current(r).passes THEN Move(r, FALSE, dirty) ELSE Raise(r, dirty)
    /\ UNCHANGED <<rest, kev>>

\* A statement in an aborted transaction, or no service to ask.
ReadRefused(r) ==
    /\ Reading(r) /\ ~Works(r)
    /\ IF "sql" \in Current(r).passes THEN Move(r, FALSE, aborted) ELSE Raise(r, aborted)
    /\ UNCHANGED <<rest, failed, kev, faults>>

(***************************************************************************)
(* The KEV feed.  "now" is read before the lock is waited for, and used    *)
(* for the second look and as the time of the data.                        *)
(*                                                                         *)
(* Whatever JSON comes with status 200 is kept as it is, and converted for *)
(* each request: "list" is a list of vulnerabilities, "odd" any other      *)
(* document, "{}" and "null" those that are false in Python.               *)
(***************************************************************************)
AtKev(r) == pc[r] = "read" /\ Current(r).of = "kev"
Holds(r) == AtKev(r) /\ queue # <<>> /\ Head(queue) = r

Data      == {"list", "odd", "{}", "null"}
Truthy(d) == d \in {"list", "odd"}
Listed(d) == d \in {"list", "{}"}

\* Mutant of Fresh: an age of exactly the time to live is fresh.
FreshTooLong(now) == Truthy(cache.data) /\ now - cache.ts =< TTL
Fresh(now) == Truthy(cache.data) /\ now - cache.ts < TTL

Serve(r, taken, data) ==
    /\ served' = [served EXCEPT ![r] = taken] /\ given' = [given EXCEPT ![r] = data]
    /\ IF Listed(data) THEN Move(r, TRUE, aborted) ELSE Raise(r, aborted)

KevEnter(r) ==
    /\ AtKev(r) /\ r \notin Range(queue)
    /\ entered' = [entered EXCEPT ![r] = clock]
    /\ IF Fresh(clock) THEN Serve(r, cache.taken, cache.data) /\ UNCHANGED queue
       ELSE /\ queue' = Append(queue, r)
            /\ UNCHANGED <<pc, conn, aborted, where, answer, served, given>>
    /\ UNCHANGED <<rest, failed, cache, fetching, faults>>

\* Mutant of KevLookAgain: whoever gets the lock fetches.
KevFetchAnyway(r) ==
    /\ Holds(r) /\ ~fetching
    /\ fetching' = TRUE
    /\ UNCHANGED <<rest, pc, conn, aborted, where, failed, answer, cache, queue, entered, served, given, faults>>

\* Mutant of KevLookAgain: the fetch is left to the next in the queue.
KevPassOn(r) ==
    /\ Holds(r) /\ ~fetching
    /\ IF Fresh(entered[r])
       THEN Serve(r, cache.taken, cache.data) /\ queue' = Tail(queue)
       ELSE /\ queue' = Append(Tail(queue), r)
            /\ UNCHANGED <<pc, conn, aborted, where, answer, served, given>>
    /\ UNCHANGED <<rest, failed, cache, entered, faults, fetching>>

KevLookAgain(r) ==
    /\ Holds(r) /\ ~fetching
    /\ IF Fresh(entered[r])
       THEN Serve(r, cache.taken, cache.data) /\ queue' = Tail(queue) /\ UNCHANGED fetching
       ELSE /\ fetching' = TRUE
            /\ UNCHANGED <<pc, conn, aborted, where, answer, queue, served, given>>
    /\ UNCHANGED <<rest, failed, cache, entered, faults>>

KevGets(r, data) ==
    /\ Holds(r) /\ fetching
    /\ cache' = [ts |-> entered[r], taken |-> clock, data |-> data]
    /\ Serve(r, clock, data)
    /\ fetching' = FALSE /\ queue' = Tail(queue)
    /\ UNCHANGED <<rest, failed, entered>>

KevFetched(r)   == KevGets(r, "list") /\ UNCHANGED faults
KevMalformed(r) == Fault /\ \E data \in Data \ {"list"} : KevGets(r, data)

\* The old data, if there are any; the next in the queue will fetch again.
KevFails(r) ==
    /\ Holds(r) /\ fetching
    /\ Fault
    /\ failed' = [failed EXCEPT ![r] = @ \cup {"kev"}]
    /\ IF Truthy(cache.data) THEN Serve(r, cache.taken, cache.data)
       ELSE Raise(r, aborted) /\ UNCHANGED <<served, given>>
    /\ fetching' = FALSE /\ queue' = Tail(queue)
    /\ UNCHANGED <<rest, cache, entered>>

Finished == (\A r \in Request : pc[r] = "done") /\ UNCHANGED vars

Step(r) ==
    \/ Connect(r) \/ PoolTimeout(r) \/ ReadOk(r) \/ ReadRefused(r)
    \/ KevEnter(r) \/ KevLookAgain(r) \/ KevFetched(r)

Next ==
    \/ \E r \in Request : Step(r) \/ AuthFails(r) \/ ReadFails(r) \/ KevFails(r) \/ KevMalformed(r)
    \/ \E of \in Late : Fill(of)
    \/ Tick
    \/ Finished

\* Statements end, services answer or time out, and so does the pool.
Spec == Init /\ [][Next]_vars /\ \A r \in Request : WF_vars(Step(r))
-----------------------------------------------------------------------------
(* Properties.                                                             *)

TypeOK ==
    /\ page \in Workloads /\ pc \in [Request -> {"new", "read", "done"}]
    /\ conn \in [Request -> Conn \cup {None}]
    /\ \A r \in Request : conn[r] # None <=> pc[r] = "read"
    /\ \A r, o \in Request : r # o /\ conn[r] = conn[o] => conn[r] = None
    /\ aborted \subseteq Range(conn) \ {None}
    /\ branch \in [Request -> {"try", "fallback"}]
    /\ at \in [Request -> Nat \X Nat] /\ found \in [Request -> SUBSET Nat]
    /\ \A r \in Request : at[r][1] \in DOMAIN Groups(r) /\ at[r][2] \in DOMAIN Group(r)
    /\ failed \in [Request -> SUBSET (Query \cup Service \cup {"user", "pool"})]
    /\ answer \in [Request -> {"none", "full", "fallback", "blank", "absent", "error"}]
    /\ content \subseteq Stock /\ before \in [Request -> SUBSET Stock]
    /\ cache \in [ts : 0 .. MaxClock, taken : 0 .. MaxClock, data : Data]
    /\ queue \in Seq(Request) /\ Range(queue) \subseteq {r \in Request : AtKev(r)}
    /\ fetching \in BOOLEAN
    /\ entered \in [Request -> 0 .. MaxClock] /\ served \in [Request -> 0 .. MaxClock]
    /\ given \in [Request -> Data]
    /\ clock \in 1 .. MaxClock /\ faults \in 0 .. MaxFaults

\* Every request is answered, also those that wait for a connection or for the
\* lock of the KEV cache behind fetches that fail.
EveryoneAnswered == \A r \in Request : <>(pc[r] = "done")

\* One request's failure is not another's: what ends in an error or in zeros had
\* a read of its own fail or no connection, unless nobody can be answered: no hash
\* service has a key, an id is not unique, or the KEV feed came in an odd shape.
OwnFailureOnly ==
    \A r \in Request : answer[r] \in {"error", "blank"} =>
        \/ failed[r] # {}
        \/ page[r] = "nohash"
        \/ page[r] = "technique" /\ "twins" \in content
        \/ page[r] = "kev" /\ served[r] # 0 /\ ~Listed(given[r])

\* A page says that something is not there only if each of its alternatives, but
\* for one that failed when it was asked, lacked it when the request began.
NotFoundHonest ==
    \A r \in Request : answer[r] = "absent" =>
        \A read \in Range(Pages[page[r]].try[1]) : read.of \notin before[r] \ failed[r]

\* A KEV feed, also one in an odd shape, is given out only to requests that asked
\* less than its time to live after it was fetched, or whose own fetch failed.
KevFreshEnough ==
    \A r \in Request : served[r] # 0 => "kev" \in failed[r] \/ entered[r] - served[r] < TTL

\* Requests that find the cache stale together fetch the feed once: what is kept is
\* replaced by data stamped a time to live later.
KevFetchedOnce ==
    [][cache' # cache => ~Truthy(cache.data) \/ cache'.ts - cache.ts >= TTL]_vars
=============================================================================
