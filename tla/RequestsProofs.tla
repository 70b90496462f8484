--------------------------- MODULE RequestsProofs ---------------------------
(***************************************************************************)
(* Proofs about Requests for every set of requests, connections, contents  *)
(* and workloads, and every time to live and bound.                        *)
(***************************************************************************)
EXTENDS Requests, SequenceTheorems, TLAPS

-----------------------------------------------------------------------------
(* The shape of the pages.                                                 *)

Asked       == Query \cup Service
Passable    == SUBSET {"sql", "down", "status", "rejected"}
ReadShape   == [of : Asked, passes : Passable, more : BOOLEAN, one : BOOLEAN]
GroupShape  == Seq(ReadShape) \ {<<>>}
BranchShape == Seq(GroupShape)
PageShape   ==
    [try : BranchShape \ {<<>>}, fallback : BranchShape, last : {"error", "blank"}, must : BOOLEAN]

(* Most pages neither ask for the KEV feed nor for a service that is not   *)
(* there, and have no read that raises if there are two to find.           *)
Usual       == Asked \ {"kev", "unset"}
UsualRead   == [of : Usual, passes : Passable, more : BOOLEAN, one : {FALSE}]
UsualGroup  == Seq(UsualRead) \ {<<>>}
UsualBranch == Seq(UsualGroup)
UsualPage   ==
    [try : UsualBranch \ {<<>>}, fallback : UsualBranch, last : {"error", "blank"}, must : BOOLEAN]

(* The operators that reads are written with.                              *)
LEMMA ReadIsRead ==
  ASSUME NEW of \in Usual
  PROVE  /\ Read(of) \in UsualRead /\ Also(of) \in UsualRead
         /\ \A ks \in Passable : Try(of, ks) \in UsualRead
BY DEF Read, Also, Try, UsualRead, Passable

(* One or more groups of one read each.                                    *)
LEMMA EachIsBranch ==
  ASSUME NEW s \in Seq(Usual)
  PROVE  Each(s) \in UsualBranch /\ (s # <<>> => Each(s) # <<>>)
<1>1. \A n \in 1 .. Len(s) : <<Read(s[n])>> \in UsualGroup
  BY ReadIsRead DEF UsualGroup
<1>2. DOMAIN s = 1 .. Len(s) /\ Len(s) \in Nat
  OBVIOUS
<1>3. Each(s) = [n \in 1 .. Len(s) |-> <<Read(s[n])>>]
  BY <1>2 DEF Each
<1> HIDE DEF Each
<1>4. Each(s) \in UsualBranch
  BY <1>1, <1>2, <1>3 DEF UsualBranch
<1>5. DOMAIN Each(s) = 1 .. Len(s)
  BY <1>3
<1>6. s # <<>> => Each(s) # <<>>
  BY <1>2, <1>5
<1> QED
  BY <1>4, <1>6

(* The operators that pages are written with.                              *)
LEMMA PageIsPage ==
  ASSUME NEW g \in UsualBranch \ {<<>>}, NEW f \in UsualBranch, NEW l \in {"error", "blank"}
  PROVE  Handled(g, f, l) \in UsualPage /\ Plain(g) \in UsualPage /\ Found(g) \in UsualPage
<1>1. <<>> \in UsualBranch
  BY DEF UsualBranch
<1> QED
  BY <1>1 DEF Handled, Plain, Found, UsualPage

(* The pages of routes/dashboard.py.                                       *)
LEMMA DashboardPages ==
  {Kpis, Regions, CountryMap, ActiveActors, SectorsOnward, ActiveTools, LatestIocs} \subseteq UsualPage
<1>1. /\ <<"mitre", "iocs">> \in Seq(Usual) /\ <<"iocs">> \in Seq(Usual) /\ <<"mitre">> \in Seq(Usual)
      /\ <<>> \in UsualBranch
  BY DEF Usual, Asked, Query, Service, UsualBranch
<1>2. Countries \in UsualGroup
  <2>1. Try("iocs", {"sql"}) \in UsualRead /\ Also("stix") \in UsualRead
    BY ReadIsRead DEF Usual, Asked, Query, Service, Passable
  <2>2. Try("ipapi", {"down", "status"}) \in UsualRead
    BY ReadIsRead DEF Usual, Asked, Query, Service, Passable
  <2>3. \A x, y, z \in UsualRead : <<x, y, z>> \in UsualGroup
    BY DEF UsualGroup
  <2> QED
    BY <2>1, <2>2, <2>3 DEF Countries
<1>3. SetTimeout \in UsualGroup
  <2>1. Try("timeout", {"sql"}) \in UsualRead
    BY ReadIsRead DEF Usual, Asked, Query, Service, Passable
  <2>2. \A x \in UsualRead : <<x>> \in UsualGroup
    BY DEF UsualGroup
  <2> QED
    BY <2>1, <2>2 DEF SetTimeout
<1>4. <<Countries>> \in UsualBranch \ {<<>>}
  BY <1>2 DEF UsualBranch
<1>5. <<SetTimeout>> \o Each(<<"mitre">>) \in UsualBranch \ {<<>>}
  <2> DEFINE e == Each(<<"mitre">>)
             t == <<SetTimeout>>
  <2>1. e \in UsualBranch
    BY <1>1, EachIsBranch
  <2>2. t \in UsualBranch /\ t # <<>>
    BY <1>3 DEF UsualBranch
  <2> HIDE DEF e, t
  <2>3. t \o e \in UsualBranch
    BY <2>1, <2>2, ConcatProperties DEF UsualBranch
  <2>4. t \o e # <<>>
    BY <2>1, <2>2, ConcatEqualIffEmpty DEF UsualBranch
  <2> QED
    BY <2>3, <2>4 DEF e, t
<1>6. /\ Each(<<"mitre", "iocs">>) \in UsualBranch \ {<<>>}
      /\ Each(<<"iocs">>) \in UsualBranch \ {<<>>}
      /\ Each(<<"mitre">>) \in UsualBranch \ {<<>>}
  BY <1>1, EachIsBranch
<1> QED
  BY <1>1, <1>4, <1>5, <1>6, PageIsPage
  DEF Kpis, Regions, CountryMap, ActiveActors, SectorsOnward, ActiveTools, LatestIocs

(* The pages of routes/stats.py.                                           *)
LEMMA StatsPages ==
  {Summary, Sources, CountryStats, Distributions, DashboardStats} \subseteq UsualPage
<1>1. /\ Read("iocs") \in UsualRead /\ Read("stix") \in UsualRead /\ Read("mitre") \in UsualRead
  BY ReadIsRead DEF Usual, Asked, Query, Service, Passable
<1>2. \A x, y, z \in UsualRead :
        <<x>> \in UsualGroup /\ <<x, y>> \in UsualGroup /\ <<x, y, z>> \in UsualGroup
  BY DEF UsualGroup
<1>3. /\ IocStats \in UsualGroup /\ StixCounts \in UsualGroup /\ MitreCounts \in UsualGroup
      /\ IndicatorSources \in UsualGroup /\ TopMitre \in UsualGroup /\ CountriesStored \in UsualGroup
      /\ Timeline \in UsualGroup /\ MalwareFamilies \in UsualGroup /\ TopCves \in UsualGroup
      /\ RecentIocs \in UsualGroup
  BY <1>1, <1>2 DEF IocStats, StixCounts, MitreCounts, IndicatorSources, TopMitre, CountriesStored,
                    Timeline, MalwareFamilies, TopCves, RecentIocs
<1>4. /\ <<IocStats, StixCounts, MitreCounts>> \in UsualBranch \ {<<>>}
      /\ <<IocStats, IndicatorSources>> \in UsualBranch \ {<<>>}
      /\ <<CountriesStored>> \in UsualBranch \ {<<>>}
      /\ <<IocStats>> \in UsualBranch \ {<<>>}
  BY <1>3 DEF UsualBranch
<1>5. <<IocStats, StixCounts, MitreCounts, IndicatorSources, TopMitre, CountriesStored,
        Timeline, MalwareFamilies, TopCves, TopMitre, RecentIocs>> \in UsualBranch \ {<<>>}
  BY <1>3 DEF UsualBranch
<1> QED
  BY <1>4, <1>5, PageIsPage DEF Summary, Sources, CountryStats, Distributions, DashboardStats

(* The hash look-up asks at least one of the services that have a key.     *)
LEMMA HashSourcesShape ==
  ASSUME NEW keys \in SUBSET {"virustotal", "otx"}, keys # {}
  PROVE  HashSources(keys) \in UsualGroup
<1> DEFINE v == IF "virustotal" \in keys
                THEN <<Try("virustotal", IF "otx" \in keys THEN {"rejected"} ELSE {})>> ELSE <<>>
           o == IF "otx" \in keys THEN <<Read("otx")>> ELSE <<>>
<1>1. /\ \A ks \in Passable : Try("virustotal", ks) \in UsualRead
      /\ Read("otx") \in UsualRead
  BY ReadIsRead DEF Usual, Asked, Query, Service
<1>2. v \in Seq(UsualRead) /\ o \in Seq(UsualRead)
  <2>1. Try("virustotal", IF "otx" \in keys THEN {"rejected"} ELSE {}) \in UsualRead
    BY <1>1 DEF Passable
  <2>2. \A x \in UsualRead : <<x>> \in Seq(UsualRead)
    OBVIOUS
  <2> QED
    BY <1>1, <2>1, <2>2
<1>3. v # <<>> \/ o # <<>>
  OBVIOUS
<1>4. HashSources(keys) = v \o o \o <<>>
  BY DEF HashSources
<1> HIDE DEF v, o
<1>5. v \o o \in Seq(UsualRead) /\ v \o o # <<>>
  BY <1>2, <1>3, ConcatProperties, ConcatEqualIffEmpty
<1>6. HashSources(keys) = v \o o
  BY <1>4, <1>5, ConcatEmptySeq
<1> QED
  BY <1>5, <1>6 DEF UsualGroup

(* The pages of routes/entities.py, search.py and mitre.py.                *)
LEMMA OtherPages ==
  /\ {CveDetail, ThreatDetail, IndicatorDetail, SearchIocs, OneIoc, Suggest, LookupCve,
      QuickLookup, MitreLists} \subseteq UsualPage
  /\ \A keys \in SUBSET {"virustotal", "otx"} : keys # {} => LookupHash(keys) \in UsualPage
<1>1. \A x \in Usual : Read(x) \in UsualRead /\ Try(x, {"down"}) \in UsualRead
  BY ReadIsRead DEF Passable
<1>2. \A x \in UsualRead : <<x>> \in UsualGroup
  BY DEF UsualGroup
<1>3. \A g \in UsualGroup : <<g>> \in UsualBranch \ {<<>>}
  BY DEF UsualBranch
<1>4. /\ <<"cve", "iocs">> \in Seq(Usual) /\ <<"relations">> \in Seq(Usual)
      /\ <<"stix", "relations">> \in Seq(Usual) /\ <<"iocs", "mitre", "stix">> \in Seq(Usual)
      /\ <<"cve">> \in Seq(Usual) /\ <<"iocs">> \in Seq(Usual) /\ <<"mitre">> \in Seq(Usual)
  BY DEF Usual, Asked, Query, Service
<1>5. /\ Each(<<"cve", "iocs">>) \in UsualBranch \ {<<>>}
      /\ Each(<<"relations">>) \in UsualBranch
      /\ Each(<<"stix", "relations">>) \in UsualBranch \ {<<>>}
      /\ Each(<<"iocs", "mitre", "stix">>) \in UsualBranch \ {<<>>}
      /\ Each(<<"cve">>) \in UsualBranch \ {<<>>} /\ Each(<<"iocs">>) \in UsualBranch \ {<<>>}
      /\ Each(<<"mitre">>) \in UsualBranch \ {<<>>}
  BY <1>4, EachIsBranch
<1>6. \A g, h \in UsualBranch : g # <<>> => g \o h \in UsualBranch \ {<<>>}
  BY ConcatProperties, ConcatEqualIffEmpty DEF UsualBranch
<1>7. <<Read("mitre id"), Read("mitre name"), Read("mitre part"), Read("stix")>> \in UsualGroup
  <2>1. \A w, x, y, z \in UsualRead : <<w, x, y, z>> \in UsualGroup
    BY DEF UsualGroup
  <2>2. {"mitre id", "mitre name", "mitre part", "stix"} \subseteq Usual
    BY DEF Usual, Asked, Query
  <2> QED
    BY <1>1, <2>1, <2>2
<1>8. MatchingIocs \in UsualGroup /\ << <<Try("ipapi", {"down"})>> >> \in UsualBranch \ {<<>>}
  BY <1>1, <1>2, <1>3 DEF MatchingIocs, Usual, Asked, Query, Service
<1>9. \A b \in UsualBranch \ {<<>>} : Plain(b) \in UsualPage /\ Found(b) \in UsualPage
  BY PageIsPage DEF UsualBranch
<1>10. {CveDetail, IndicatorDetail, OneIoc, Suggest, LookupCve, MitreLists} \subseteq UsualPage
  BY <1>5, <1>9 DEF CveDetail, IndicatorDetail, OneIoc, Suggest, LookupCve, MitreLists
<1>11. ThreatDetail \in UsualPage
  <2> DEFINE g == << <<Read("mitre id"), Read("mitre name"), Read("mitre part"), Read("stix")>> >>
             h == Each(<<"relations">>)
  <2>1. g \in UsualBranch \ {<<>>} /\ h \in UsualBranch
    BY <1>3, <1>5, <1>7
  <2>2. ThreatDetail = Found(g \o h)
    BY DEF ThreatDetail
  <2> HIDE DEF g, h
  <2> QED
    BY <1>6, <1>9, <2>1, <2>2
<1>12. SearchIocs \in UsualPage
  BY <1>3, <1>8, <1>9 DEF SearchIocs
<1>13. QuickLookup \in UsualPage
  <2> DEFINE g == Each(<<"iocs">>)
             h == << <<Try("ipapi", {"down"})>> >>
  <2>1. g \in UsualBranch \ {<<>>} /\ h \in UsualBranch
    BY <1>5, <1>8
  <2>2. QuickLookup = Plain(g \o h)
    BY DEF QuickLookup
  <2> HIDE DEF g, h
  <2> QED
    BY <1>6, <1>9, <2>1, <2>2
<1>14. ASSUME NEW keys \in SUBSET {"virustotal", "otx"}, keys # {} PROVE LookupHash(keys) \in UsualPage
  <2>1. HashSources(keys) \in UsualGroup
    BY <1>14, HashSourcesShape
  <2> QED
    BY <1>3, <1>9, <2>1 DEF LookupHash
<1> QED
  BY <1>10, <1>11, <1>12, <1>13, <1>14

(* Of the other pages each has one read, the answer is an error when that  *)
(* raises, and nothing else is tried then: the KEV list, the hash look-up  *)
(* without a key, and one technique.                                       *)
OneRead(read, must) ==
    [try |-> << <<read>> >>, fallback |-> <<>>, last |-> "error", must |-> must]
LEMMA OddPages ==
  /\ Pages["kev"] = OneRead(Read("kev"), FALSE)
  /\ Pages["nohash"] = OneRead(Read("unset"), TRUE)
  /\ Pages["technique"] = OneRead(One("technique"), TRUE)
<1>1. Pages["kev"] = OneRead(Read("kev"), FALSE)
  <2>1. Each(<<"kev">>) = << <<Read("kev")>> >>
    BY DEF Each
  <2>2. Pages["kev"] = KevList
    BY DEF Pages
  <2> QED
    BY <2>1, <2>2 DEF KevList, Plain, Handled, OneRead
<1>2. HashSources({}) = <<Read("unset")>>
  BY DEF HashSources
<1>3. Pages["nohash"] = OneRead(Read("unset"), TRUE)
  BY <1>2 DEF Pages, LookupHash, Found, Plain, Handled, OneRead
<1>4. Pages["technique"] = OneRead(One("technique"), TRUE)
  BY DEF Pages, Technique, Found, Plain, Handled, OneRead
<1> QED
  BY <1>1, <1>3, <1>4

Odd == {"kev", "nohash", "technique"}

LEMMA UsualPages ==
  ASSUME NEW p \in DOMAIN Pages, p \notin Odd
  PROVE  Pages[p] \in UsualPage
BY DashboardPages, StatsPages, OtherPages DEF Pages, Odd

(* Every page is made of non-empty groups of reads.                        *)
LEMMA PagesShape ==
  ASSUME NEW p \in DOMAIN Pages
  PROVE  Pages[p] \in PageShape
<1>1. CASE p \notin Odd
  <2>1. UsualRead \subseteq ReadShape
    BY DEF UsualRead, ReadShape, Usual
  <2>2. UsualGroup \subseteq GroupShape
    BY <2>1 DEF UsualGroup, GroupShape
  <2>3. UsualBranch \subseteq BranchShape
    BY <2>2 DEF UsualBranch, BranchShape
  <2>4. UsualPage \subseteq PageShape
    BY <2>3 DEF UsualPage, PageShape
  <2> QED
    BY <1>1, <2>4, UsualPages
<1>2. CASE p \in Odd
  <2>1. ASSUME NEW x \in ReadShape, NEW m \in BOOLEAN PROVE OneRead(x, m) \in PageShape
    <3>1. <<x>> \in GroupShape
      BY DEF GroupShape
    <3>2. << <<x>> >> \in BranchShape \ {<<>>} /\ <<>> \in BranchShape
      BY <3>1 DEF BranchShape
    <3> QED
      BY <3>2 DEF OneRead, PageShape
  <2>2. Read("kev") \in ReadShape /\ Read("unset") \in ReadShape /\ One("technique") \in ReadShape
    BY DEF Read, One, ReadShape, Asked, Query, Service, Passable
  <2> QED
    BY <1>2, <2>1, <2>2, OddPages DEF Odd
<1> QED
  BY <1>1, <1>2

(* A page that may be "not found" has no except branch, and does not pass  *)
(* over an error of the server while it looks.                             *)
LEMMA MustShape ==
  ASSUME NEW p \in DOMAIN Pages, Pages[p].must
  PROVE  /\ Pages[p].fallback = <<>>
         /\ \A k \in DOMAIN Pages[p].try[1] : "sql" \notin Pages[p].try[1][k].passes
<1> DEFINE Strict(group) == \A k \in DOMAIN group : "sql" \notin group[k].passes
           hashes == {"hash", "vthash", "otxhash", "nohash"}
<1>1. p \in {"cvedetail", "threat", "indicator", "ioc", "cve", "technique"} \cup hashes
  BY DEF Pages, Kpis, Regions, CountryMap, ActiveActors, SectorsOnward, ActiveTools, LatestIocs, Summary,
         Sources, CountryStats, Distributions, DashboardStats, SearchIocs, Suggest, QuickLookup,
         MitreLists, KevList, Plain, Handled
<1>2. \A g : Found(g).fallback = <<>> /\ Found(g).try = g
  BY DEF Found, Plain, Handled
<1>3. \A of : "sql" \notin Read(of).passes /\ "sql" \notin One(of).passes
  BY DEF Read, One
<1>4. CASE p \in {"cvedetail", "indicator", "ioc", "cve"}
  <2>1. PICK s : s \in Seq(Asked) /\ s # <<>> /\ Pages[p] = Found(Each(s))
    <3>1. {<<"cve", "iocs">>, <<"stix", "relations">>, <<"iocs">>, <<"cve">>} \subseteq Seq(Asked) \ {<<>>}
      BY DEF Asked, Query, Service
    <3>2. \/ Pages[p] = Found(Each(<<"cve", "iocs">>)) \/ Pages[p] = Found(Each(<<"stix", "relations">>))
          \/ Pages[p] = Found(Each(<<"iocs">>)) \/ Pages[p] = Found(Each(<<"cve">>))
      BY <1>4 DEF Pages, CveDetail, IndicatorDetail, OneIoc, LookupCve
    <3> QED
      BY <3>1, <3>2
  <2>2. 1 \in DOMAIN s /\ Each(s)[1] = <<Read(s[1])>>
    BY <2>1 DEF Each
  <2>3. Pages[p].fallback = <<>> /\ Pages[p].try[1] = <<Read(s[1])>>
    BY <1>2, <2>1, <2>2
  <2> QED
    BY <1>3, <2>3
<1>5. CASE p = "threat"
  <2> DEFINE g == <<Read("mitre id"), Read("mitre name"), Read("mitre part"), Read("stix")>>
             h == Each(<<"relations">>)
  <2>1. Pages[p] = Found(<<g>> \o h)
    BY <1>5 DEF Pages, ThreatDetail
  <2>2. h \in Seq({<<Read("relations")>>})
    BY DEF Each
  <2>3. Strict(g)
    <3>1. \A w, x, y, z : \A k \in DOMAIN <<w, x, y, z>> : <<w, x, y, z>>[k] \in {w, x, y, z}
      OBVIOUS
    <3>2. \A k \in DOMAIN g :
            g[k] \in {Read("mitre id"), Read("mitre name"), Read("mitre part"), Read("stix")}
      BY <3>1
    <3> HIDE DEF g
    <3> QED
      BY <1>3, <3>2
  <2> HIDE DEF g, h
  <2>4. (<<g>> \o h)[1] = g
    <3>1. <<g>> \in Seq({g, <<Read("relations")>>}) /\ h \in Seq({g, <<Read("relations")>>})
      BY <2>2
    <3> QED
      BY <3>1
  <2>5. Pages[p].fallback = <<>> /\ Pages[p].try[1] = g
    BY <1>2, <2>1, <2>4
  <2> QED
    BY <2>3, <2>5
<1>6. CASE p \in hashes
  <2>1. PICK keys \in SUBSET {"virustotal", "otx"} : Pages[p] = Found(<<HashSources(keys)>>)
    BY <1>6 DEF Pages, LookupHash
  <2>2. Strict(HashSources(keys))
    <3> DEFINE v == IF "virustotal" \in keys
                    THEN <<Try("virustotal", IF "otx" \in keys THEN {"rejected"} ELSE {})>> ELSE <<>>
               o == IF "otx" \in keys THEN <<Read("otx")>> ELSE <<>>
               u == IF keys = {} THEN <<Read("unset")>> ELSE <<>>
               R == {Try("virustotal", {"rejected"}), Try("virustotal", {}), Read("otx"), Read("unset")}
    <3>1. v \in Seq(R) /\ o \in Seq(R) /\ u \in Seq(R)
      <4>1. \A x \in R : <<x>> \in Seq(R)
        OBVIOUS
      <4> QED
        BY <4>1
    <3>2. \A x \in R : "sql" \notin x.passes
      BY <1>3 DEF Try, Read
    <3>3. HashSources(keys) = v \o o \o u
      BY DEF HashSources
    <3> HIDE DEF v, o, u, R
    <3>4. HashSources(keys) \in Seq(R)
      BY <3>1, <3>3, ConcatProperties
    <3> QED
      BY <3>2, <3>4
  <2> QED
    BY <1>2, <2>1, <2>2
<1>7. CASE p = "technique"
  BY <1>2, <1>3, <1>7 DEF Pages, Technique
<1> QED
  BY <1>1, <1>4, <1>5, <1>6, <1>7

-----------------------------------------------------------------------------
(* The parts of the type invariant that a read changes: who holds which    *)
(* connection, and where in its page each request is.  The queue of the    *)
(* KEV lock has nobody twice, and whoever fetches is its head; the cache   *)
(* has a document only once one has been fetched.                          *)
Held ==
    /\ pc \in [Request -> {"new", "read", "done"}]
    /\ conn \in [Request -> Conn \cup {None}]
    /\ \A r \in Request : conn[r] # None <=> pc[r] = "read"
    /\ \A r, o \in Request : r # o /\ conn[r] = conn[o] => conn[r] = None
    /\ aborted \subseteq Range(conn) \ {None}
Placed ==
    /\ branch \in [Request -> {"try", "fallback"}]
    /\ at \in [Request -> Nat \X Nat] /\ found \in [Request -> SUBSET Nat]
    /\ \A r \in Request : at[r][1] \in DOMAIN Groups(r) /\ at[r][2] \in DOMAIN Group(r)
Told == answer \in [Request -> {"none", "full", "fallback", "blank", "absent", "error"}]
Queued ==
    /\ queue \in Seq(Request) /\ Range(queue) \subseteq {r \in Request : AtKev(r)}
    /\ \A i, j \in DOMAIN queue : queue[i] = queue[j] => i = j
    /\ fetching \in BOOLEAN /\ (fetching => queue # <<>>)
Timed ==
    /\ cache \in [ts : 0 .. MaxClock, taken : 0 .. MaxClock, data : Data]
    /\ given \in [Request -> Data] /\ (Truthy(cache.data) => cache.taken # 0)
    /\ entered \in [Request -> 0 .. MaxClock] /\ served \in [Request -> 0 .. MaxClock]
    /\ clock \in 1 .. MaxClock /\ faults \in 0 .. MaxFaults
Known ==
    /\ failed \in [Request -> SUBSET (Asked \cup {"user", "pool"})]
    /\ content \subseteq Stock
    /\ before \in [Request -> SUBSET Stock]
Typed == page \in Workloads /\ Held /\ Placed /\ Told /\ Queued /\ Timed /\ Known

(* The parts make up the type invariant.                                   *)
LEMMA TypedIsTypeOK ==
  Typed <=> /\ TypeOK
            /\ \A i, j \in DOMAIN queue : queue[i] = queue[j] => i = j
            /\ fetching => queue # <<>>
            /\ Truthy(cache.data) => cache.taken # 0
BY DEF Typed, TypeOK, Held, Placed, Told, Queued, Timed, Known, Asked

(* Where a request is, there is a read.                                    *)
LEMMA ReadThere ==
  ASSUME Typed, NEW r \in Request
  PROVE  /\ page[r] \in DOMAIN Pages /\ Pages[page[r]] \in PageShape
         /\ Groups(r) \in BranchShape /\ Group(r) \in GroupShape /\ Current(r) \in ReadShape
         /\ branch[r] = "try" => Groups(r) = Pages[page[r]].try
         /\ branch[r] = "fallback" => Groups(r) = Pages[page[r]].fallback
         /\ at[r] \in Nat \X Nat /\ at[r] = <<at[r][1], at[r][2]>>
         /\ at[r][1] \in 1 .. Len(Groups(r)) /\ at[r][2] \in 1 .. Len(Group(r))
<1>1. page[r] \in DOMAIN Pages
  BY WorkloadAssumption DEF Typed
<1>2. Pages[page[r]] \in PageShape
  BY <1>1, PagesShape
<1> DEFINE P == Pages[page[r]]
<1>3. branch[r] \in {"try", "fallback"}
  BY DEF Typed, Placed
<1>4. Groups(r) = P[branch[r]]
  BY DEF Groups
<1> HIDE DEF P
<1>5. /\ P["try"] \in BranchShape /\ P["fallback"] \in BranchShape
      /\ branch[r] = "try" => Groups(r) = P["try"]
      /\ branch[r] = "fallback" => Groups(r) = P["fallback"]
  BY <1>2, <1>4 DEF P, PageShape
<1>6. Groups(r) \in BranchShape
  BY <1>3, <1>5
<1>7. at[r][1] \in DOMAIN Groups(r) /\ at[r][2] \in DOMAIN Group(r) /\ at[r] \in Nat \X Nat
  BY DEF Typed, Placed
<1>8. Group(r) \in GroupShape
  BY <1>6, <1>7 DEF Group, BranchShape
<1>9. Current(r) \in ReadShape
  BY <1>7, <1>8 DEF Current, GroupShape
<1>10. at[r][1] \in 1 .. Len(Groups(r)) /\ at[r][2] \in 1 .. Len(Group(r))
  BY <1>6, <1>7, <1>8 DEF BranchShape, GroupShape
<1> QED
  BY <1>1, <1>2, <1>5, <1>6, <1>7, <1>8, <1>9, <1>10 DEF P

(* Only the odd pages have the odd reads, and no other.                    *)
LEMMA OddReads ==
  ASSUME Typed, NEW r \in Request
  PROVE  /\ page[r] = "kev" <=> Current(r).of = "kev"
         /\ Current(r).of = "unset" => page[r] = "nohash"
         /\ Current(r).one => page[r] = "technique"
         /\ page[r] \in Odd => /\ Pages[page[r]].fallback = <<>> /\ Pages[page[r]].last = "error"
                               /\ branch[r] = "try" /\ Len(Groups(r)) = 1 /\ Len(Group(r)) = 1
<1>1. CASE page[r] \notin Odd
  <2>1. Pages[page[r]] \in UsualPage
    BY <1>1, ReadThere, UsualPages
  <2>2. Groups(r) \in UsualBranch
    BY <2>1, ReadThere DEF UsualPage, Typed, Placed
  <2>3. Group(r) \in UsualGroup
    BY <2>2, ReadThere DEF Group, UsualBranch
  <2>4. Current(r) \in UsualRead
    BY <2>3, ReadThere DEF Current, UsualGroup
  <2> QED
    BY <1>1, <2>4 DEF UsualRead, Usual, Odd
<1>2. CASE page[r] \in Odd
  <2>1. PICK read \in {Read("kev"), Read("unset"), One("technique")}, must \in BOOLEAN :
          /\ Pages[page[r]] = OneRead(read, must)
          /\ page[r] = "kev" => read = Read("kev")
          /\ page[r] = "nohash" => read = Read("unset")
          /\ page[r] = "technique" => read = One("technique")
    BY <1>2, OddPages DEF Odd
  <2>2. /\ Pages[page[r]].try = << <<read>> >> /\ Pages[page[r]].fallback = <<>>
        /\ Pages[page[r]].last = "error"
    BY <2>1 DEF OneRead
  <2>3. branch[r] = "try" /\ Groups(r) = << <<read>> >>
    <3>1. branch[r] \in {"try", "fallback"}
      BY DEF Typed, Placed
    <3>2. at[r][1] \in 1 .. Len(Groups(r)) /\ (branch[r] = "fallback" => Groups(r) = <<>>)
      BY <2>2, ReadThere
    <3>3. branch[r] = "try"
      BY <3>1, <3>2
    <3> QED
      BY <2>2, <3>3, ReadThere
  <2>4. at[r][1] = 1
    BY <2>3, ReadThere
  <2>5. Group(r) = <<read>>
    BY <2>3, <2>4 DEF Group
  <2>6. at[r][2] = 1
    BY <2>5, ReadThere
  <2>7. Current(r) = read
    BY <2>5, <2>6 DEF Current
  <2> QED
    BY <1>2, <2>1, <2>2, <2>3, <2>5, <2>7 DEF Read, One, Odd
<1> QED
  BY <1>1, <1>2

(* What happens to a request after a read: the next alternative, the next  *)
(* group, an answer, or the except branch.                                 *)
In(r, hit) == IF hit THEN found[r] \cup {at[r][1]} ELSE found[r]
Lacks(r, hit) == Pages[page[r]].must /\ 1 \notin In(r, hit)
NextRead(r, hit, dirty) ==
    /\ at[r][2] + 1 \in DOMAIN Group(r)
    /\ hit => Current(r).more
    /\ Goes(r, <<at[r][1], at[r][2] + 1>>, dirty) /\ found' = [found EXCEPT ![r] = In(r, hit)]
NextGroup(r, hit, dirty) ==
    /\ at[r][1] + 1 \in DOMAIN Groups(r) /\ ~Lacks(r, hit)
    /\ Goes(r, <<at[r][1] + 1, 1>>, dirty) /\ found' = [found EXCEPT ![r] = In(r, hit)]
NotThere(r, hit, dirty) ==
    /\ Lacks(r, hit) /\ (hit \/ at[r][2] = Len(Group(r))) /\ Reply(r, "absent", dirty)
Complete(r, hit, dirty) ==
    ~Lacks(r, hit) /\ Reply(r, IF branch[r] = "try" THEN "full" ELSE "fallback", dirty)
ToFallback(r, dirty) ==
    /\ branch[r] = "try" /\ Pages[page[r]].fallback # <<>>
    /\ branch' = [branch EXCEPT ![r] = "fallback"]
    /\ at' = [at EXCEPT ![r] = <<1, 1>>] /\ found' = [found EXCEPT ![r] = {}]
    /\ aborted' = dirty /\ UNCHANGED <<pc, conn, answer>>
GivesUp(r, dirty) == Reply(r, Pages[page[r]].last, dirty)

(* A move is one of the first four; it moves on only when a read found     *)
(* nothing or the group goes on after a find.                              *)
LEMMA MoveCases ==
  ASSUME Typed, NEW r \in Request, NEW hit \in BOOLEAN, NEW dirty, Move(r, hit, dirty)
  PROVE  \/ NextRead(r, hit, dirty) \/ NextGroup(r, hit, dirty)
         \/ NotThere(r, hit, dirty) \/ Complete(r, hit, dirty)
<1>1. /\ Groups(r) \in BranchShape /\ Group(r) \in GroupShape
      /\ at[r][1] \in 1 .. Len(Groups(r)) /\ at[r][2] \in 1 .. Len(Group(r))
  BY ReadThere
<1>2. DOMAIN Groups(r) = 1 .. Len(Groups(r)) /\ DOMAIN Group(r) = 1 .. Len(Group(r))
      /\ Len(Groups(r)) \in Nat /\ Len(Group(r)) \in Nat
  BY <1>1 DEF BranchShape, GroupShape
<1> DEFINE out == at[r][2] = Len(Group(r)) \/ (hit /\ ~Current(r).more)
<1>3. CASE ~out
  <2>1. at[r][2] + 1 \in DOMAIN Group(r)
    BY <1>1, <1>2, <1>3
  <2>2. Goes(r, <<at[r][1], at[r][2] + 1>>, dirty) /\ found' = [found EXCEPT ![r] = In(r, hit)]
    BY <1>3 DEF Move, In
  <2> QED
    BY <1>3, <2>1, <2>2 DEF NextRead
<1>4. CASE out /\ Lacks(r, hit)
  BY <1>4 DEF Move, In, Lacks, NotThere
<1>5. CASE out /\ ~Lacks(r, hit) /\ at[r][1] < Len(Groups(r))
  <2>1. at[r][1] + 1 \in DOMAIN Groups(r)
    BY <1>1, <1>2, <1>5
  <2> QED
    BY <1>5, <2>1 DEF Move, In, Lacks, NextGroup
<1>6. CASE out /\ ~Lacks(r, hit) /\ ~(at[r][1] < Len(Groups(r)))
  BY <1>6 DEF Move, In, Lacks, Complete
<1> QED
  BY <1>3, <1>4, <1>5, <1>6

(* An exception takes the except branch or ends the request.               *)
LEMMA RaiseCases ==
  ASSUME NEW r \in Request, NEW dirty, Raise(r, dirty)
  PROVE  ToFallback(r, dirty) \/ GivesUp(r, dirty)
BY DEF Raise, ToFallback, GivesUp

Moves(r, hit, dirty) ==
    \/ NextRead(r, hit, dirty) \/ NextGroup(r, hit, dirty)
    \/ NotThere(r, hit, dirty) \/ Complete(r, hit, dirty)
    \/ ToFallback(r, dirty) \/ GivesUp(r, dirty)

(* Nobody else is moved.                                                   *)
LEMMA OthersStay ==
  ASSUME Typed, NEW r \in Request, NEW hit \in BOOLEAN, NEW dirty, UNCHANGED page,
         Moves(r, hit, dirty), NEW o \in Request, o # r
  PROVE  /\ pc'[o] = pc[o] /\ conn'[o] = conn[o] /\ answer'[o] = answer[o]
         /\ branch'[o] = branch[o] /\ at'[o] = at[o] /\ found'[o] = found[o]
         /\ Groups(o)' = Groups(o) /\ Group(o)' = Group(o) /\ Current(o)' = Current(o)
         /\ AtKev(o)' <=> AtKev(o)
<1>1. /\ pc'[o] = pc[o] /\ conn'[o] = conn[o] /\ answer'[o] = answer[o]
      /\ branch'[o] = branch[o] /\ at'[o] = at[o] /\ found'[o] = found[o]
  BY DEF Typed, Held, Placed, Told, Moves, NextRead, NextGroup, NotThere, Complete, ToFallback, GivesUp,
         Goes, Reply, Close, where
<1>2. Groups(o)' = Groups(o) /\ Group(o)' = Group(o) /\ Current(o)' = Current(o)
  BY <1>1 DEF Groups, Group, Current
<1> QED
  BY <1>1, <1>2 DEF AtKev

(* A request that goes on keeps its connection; one that is answered gives *)
(* it back, clean.                                                         *)
LEMMA MoveHeld ==
  ASSUME Typed, NEW r \in Request, NEW hit \in BOOLEAN, NEW dirty, pc[r] = "read",
         aborted \subseteq dirty, dirty \subseteq aborted \cup {conn[r]}, Moves(r, hit, dirty)
  PROVE  Held'
<1>1. dirty \subseteq Range(conn) \ {None} /\ conn[r] # None
  BY DEF Typed, Held, Range
<1>2. CASE NextRead(r, hit, dirty) \/ NextGroup(r, hit, dirty) \/ ToFallback(r, dirty)
  <2>1. UNCHANGED <<pc, conn>> /\ aborted' = dirty
    BY <1>2 DEF NextRead, NextGroup, ToFallback, Goes
  <2> QED
    BY <1>1, <2>1 DEF Typed, Held
<1>3. CASE NotThere(r, hit, dirty) \/ Complete(r, hit, dirty) \/ GivesUp(r, dirty)
  <2>1. /\ pc' = [pc EXCEPT ![r] = "done"] /\ conn' = [conn EXCEPT ![r] = None]
        /\ aborted' = dirty \ {conn[r]}
    BY <1>3 DEF NotThere, Complete, GivesUp, Reply, Close
  <2>2. /\ pc' \in [Request -> {"new", "read", "done"}]
        /\ conn' \in [Request -> Conn \cup {None}]
        /\ \A o \in Request : conn'[o] # None <=> pc'[o] = "read"
        /\ \A p, o \in Request : p # o /\ conn'[p] = conn'[o] => conn'[p] = None
    BY <2>1 DEF Typed, Held
  <2>3. ASSUME NEW c \in aborted' PROVE c \in Range(conn') \ {None}
    <3>1. c # conn[r] /\ c \in Range(conn) \ {None}
      BY <1>1, <2>1
    <3>2. PICK o \in Request : conn[o] = c
      BY <3>1 DEF Range, Typed, Held
    <3>3. o # r /\ conn'[o] = c
      BY <2>1, <3>1, <3>2 DEF Typed, Held
    <3> QED
      BY <2>2, <3>1, <3>2, <3>3 DEF Range
  <2> QED
    BY <2>2, <2>3 DEF Held
<1> QED
  BY <1>2, <1>3 DEF Moves

(* Every step of a page leads to a read or ends it.                        *)
LEMMA MovePlaced ==
  ASSUME Typed, NEW r \in Request, NEW hit \in BOOLEAN, NEW dirty, UNCHANGED page,
         Moves(r, hit, dirty)
  PROVE  Placed' /\ Told'
<1> DEFINE There(o) == at'[o][1] \in DOMAIN (Groups(o)') /\ at'[o][2] \in DOMAIN (Group(o)')
<1>1. /\ Groups(r) \in BranchShape /\ Group(r) \in GroupShape
      /\ at[r] \in Nat \X Nat /\ Pages[page[r]] \in PageShape
  BY ReadThere
<1>2. ASSUME NEW o \in Request, o # r PROVE There(o)
  <2>1. /\ Groups(o)' = Groups(o) /\ Group(o)' = Group(o) /\ at'[o] = at[o]
    BY <1>2, OthersStay
  <2> QED
    BY <2>1 DEF Typed, Placed
<1>3. CASE NextRead(r, hit, dirty) \/ NextGroup(r, hit, dirty)
  <2>1. /\ UNCHANGED <<branch, answer>>
        /\ found' = [found EXCEPT ![r] = In(r, hit)]
    BY <1>3 DEF NextRead, NextGroup, Goes
  <2>2. In(r, hit) \in SUBSET Nat
    BY <1>1 DEF In, Typed, Placed
  <2>3. at'[r] \in Nat \X Nat /\ at' = [at EXCEPT ![r] = at'[r]] /\ There(r)
    <3>1. Groups(r)' = Groups(r)
      BY <2>1 DEF Groups
    <3>2. CASE NextRead(r, hit, dirty)
      <4>1. at' = [at EXCEPT ![r] = <<at[r][1], at[r][2] + 1>>] /\ at[r][2] + 1 \in DOMAIN Group(r)
        BY <3>2 DEF NextRead, Goes
      <4>2. at'[r] = <<at[r][1], at[r][2] + 1>>
        BY <4>1 DEF Typed, Placed
      <4>3. Group(r)' = Group(r)
        BY <3>1, <4>2 DEF Group
      <4> QED
        BY <1>1, <3>1, <4>1, <4>2, <4>3 DEF Typed, Placed
    <3>3. CASE NextGroup(r, hit, dirty)
      <4>1. at' = [at EXCEPT ![r] = <<at[r][1] + 1, 1>>] /\ at[r][1] + 1 \in DOMAIN Groups(r)
        BY <3>3 DEF NextGroup, Goes
      <4>2. at'[r] = <<at[r][1] + 1, 1>>
        BY <4>1 DEF Typed, Placed
      <4>3. Group(r)' = Groups(r)[at[r][1] + 1]
        BY <3>1, <4>2 DEF Group
      <4>4. Groups(r)[at[r][1] + 1] \in GroupShape
        BY <1>1, <4>1 DEF BranchShape
      <4>5. 1 \in DOMAIN (Group(r)')
        BY <4>3, <4>4 DEF GroupShape
      <4> QED
        BY <1>1, <3>1, <4>1, <4>2, <4>5 DEF Typed, Placed
    <3> QED
      BY <1>3, <3>2, <3>3
  <2>4. at' \in [Request -> Nat \X Nat]
    BY <2>3 DEF Typed, Placed
  <2>5. \A o \in Request : There(o)
    BY <1>2, <2>3
  <2> QED
    BY <2>1, <2>2, <2>4, <2>5 DEF Typed, Placed, Told
<1>4. CASE NotThere(r, hit, dirty) \/ Complete(r, hit, dirty) \/ GivesUp(r, dirty)
  <2>1. UNCHANGED where
    BY <1>4 DEF NotThere, Complete, GivesUp, Reply
  <2>2. PICK how \in {"absent", "full", "fallback", "error", "blank"} : answer' = [answer EXCEPT ![r] = how]
    BY <1>1, <1>4 DEF NotThere, Complete, GivesUp, Reply, PageShape
  <2>3. UNCHANGED <<branch, at, found>>
    BY <2>1 DEF where
  <2>4. \A o \in Request : There(o)
    BY <2>3 DEF Typed, Placed, Groups, Group
  <2>5. Told'
    BY <2>2 DEF Typed, Told
  <2> QED
    BY <2>3, <2>4, <2>5 DEF Typed, Placed
<1>5. CASE ToFallback(r, dirty)
  <2>1. /\ branch' = [branch EXCEPT ![r] = "fallback"] /\ at' = [at EXCEPT ![r] = <<1, 1>>]
        /\ found' = [found EXCEPT ![r] = {}] /\ UNCHANGED answer
        /\ Pages[page[r]].fallback # <<>>
    BY <1>5 DEF ToFallback
  <2>2. branch'[r] = "fallback" /\ at'[r] = <<1, 1>>
    BY <2>1 DEF Typed, Placed
  <2>3. Groups(r)' = Pages[page[r]].fallback
    BY <2>2 DEF Groups
  <2>4. Groups(r)' \in BranchShape /\ Groups(r)' # <<>>
    BY <1>1, <2>1, <2>3 DEF PageShape
  <2>5. 1 \in DOMAIN (Groups(r)') /\ Groups(r)'[1] \in GroupShape
    BY <2>4 DEF BranchShape
  <2>6. Group(r)' = Groups(r)'[1]
    BY <2>2 DEF Group
  <2>7. 1 \in DOMAIN (Group(r)')
    BY <2>5, <2>6 DEF GroupShape
  <2>8. There(r)
    BY <2>2, <2>5, <2>7
  <2>9. \A o \in Request : There(o)
    BY <1>2, <2>8
  <2> QED
    BY <2>1, <2>9 DEF Typed, Placed, Told
<1> QED
  BY <1>3, <1>4, <1>5 DEF Moves

(* Who joins the queue is its last; who leaves it was its head, and is not *)
(* in it any more.                                                         *)
LEMMA JoinQueue ==
  ASSUME Typed, NEW r \in Request, r \notin Range(queue)
  PROVE  /\ Append(queue, r) \in Seq(Request) /\ Append(queue, r) # <<>>
         /\ \A q \in Range(Append(queue, r)) : q = r \/ q \in Range(queue)
         /\ \A i, j \in DOMAIN Append(queue, r) : Append(queue, r)[i] = Append(queue, r)[j] => i = j
         /\ queue # <<>> => Head(Append(queue, r)) = Head(queue)
         /\ queue = <<>> => Head(Append(queue, r)) = r
<1> DEFINE n == Len(queue)
           new == Append(queue, r)
<1>1. queue \in Seq(Request) /\ n \in Nat /\ DOMAIN queue = 1 .. n
  BY DEF Typed, Queued
<1>2. /\ new \in Seq(Request) /\ DOMAIN new = 1 .. n + 1
      /\ \A i \in 1 .. n : new[i] = queue[i]
      /\ new[n + 1] = r
  BY <1>1
<1> HIDE DEF new
<1>3. new # <<>> /\ Head(new) = new[1]
  BY <1>1, <1>2
<1>4. \A q \in Range(new) : q = r \/ q \in Range(queue)
  <2> SUFFICES ASSUME NEW i \in 1 .. n + 1 PROVE new[i] = r \/ new[i] \in Range(queue)
    BY <1>2 DEF Range
  <2>1. CASE i \in 1 .. n
    BY <1>1, <1>2, <2>1 DEF Range
  <2>2. CASE i = n + 1
    BY <1>2, <2>2
  <2> QED
    BY <1>1, <2>1, <2>2
<1>5. \A i \in 1 .. n : queue[i] # r
  BY <1>1 DEF Range
<1>6. \A i, j \in DOMAIN new : new[i] = new[j] => i = j
  <2> SUFFICES ASSUME NEW i \in 1 .. n + 1, NEW j \in 1 .. n + 1, new[i] = new[j] PROVE i = j
    BY <1>2
  <2>1. CASE i \in 1 .. n /\ j \in 1 .. n
    BY <1>1, <1>2, <2>1 DEF Typed, Queued
  <2>2. CASE i = n + 1 /\ j = n + 1
    BY <2>2
  <2>3. CASE i \in 1 .. n /\ j = n + 1
    BY <1>2, <1>5, <2>3
  <2>4. CASE i = n + 1 /\ j \in 1 .. n
    BY <1>2, <1>5, <2>4
  <2> QED
    BY <1>1, <2>1, <2>2, <2>3, <2>4
<1>7. queue # <<>> => Head(new) = Head(queue)
  BY <1>1, <1>2, <1>3
<1>8. queue = <<>> => Head(new) = r
  BY <1>1, <1>2, <1>3
<1> QED
  BY <1>2, <1>3, <1>4, <1>6, <1>7, <1>8 DEF new

LEMMA LeaveQueue ==
  ASSUME Typed, NEW r \in Request, queue # <<>>, Head(queue) = r
  PROVE  /\ Tail(queue) \in Seq(Request)
         /\ \A q \in Range(Tail(queue)) : q # r /\ q \in Range(queue)
         /\ \A i, j \in DOMAIN Tail(queue) : Tail(queue)[i] = Tail(queue)[j] => i = j
<1> DEFINE n == Len(queue)
           new == Tail(queue)
<1>1. queue \in Seq(Request) /\ n \in Nat /\ DOMAIN queue = 1 .. n /\ n >= 1
  BY DEF Typed, Queued
<1>2. /\ new \in Seq(Request) /\ DOMAIN new = 1 .. n - 1 /\ queue[1] = r
      /\ \A i \in 1 .. n - 1 : new[i] = queue[i + 1]
  BY <1>1
<1> HIDE DEF new
<1>3. \A i, j \in 1 .. n : queue[i] = queue[j] => i = j
  BY <1>1 DEF Typed, Queued
<1>4. \A i, j \in DOMAIN new : new[i] = new[j] => i = j
  <2> SUFFICES ASSUME NEW i \in 1 .. n - 1, NEW j \in 1 .. n - 1, new[i] = new[j] PROVE i = j
    BY <1>2
  <2>1. queue[i + 1] = queue[j + 1] /\ i + 1 \in 1 .. n /\ j + 1 \in 1 .. n
    BY <1>1, <1>2
  <2>2. i + 1 = j + 1
    BY <1>3, <2>1
  <2> QED
    BY <1>1, <2>2
<1>5. \A q \in Range(new) : q # r /\ q \in Range(queue)
  <2> SUFFICES ASSUME NEW i \in 1 .. n - 1 PROVE new[i] # r /\ new[i] \in Range(queue)
    BY <1>2 DEF Range
  <2>1. i + 1 \in 1 .. n /\ 1 \in 1 .. n /\ i + 1 # 1 /\ new[i] = queue[i + 1]
    BY <1>1, <1>2
  <2>2. queue[i + 1] # queue[1]
    BY <1>3, <2>1
  <2> QED
    BY <1>1, <1>2, <2>1, <2>2 DEF Range
<1> QED
  BY <1>2, <1>4, <1>5 DEF new

(* A request that moves on is not in the queue; the others wait as before. *)
LEMMA MoveQueued ==
  ASSUME Typed, NEW r \in Request, NEW hit \in BOOLEAN, NEW dirty, UNCHANGED page,
         Moves(r, hit, dirty),
         queue' \in Seq(Request), \A q \in Range(queue') : q # r /\ q \in Range(queue),
         \A i, j \in DOMAIN queue' : queue'[i] = queue'[j] => i = j,
         fetching' \in BOOLEAN, fetching' => queue' # <<>>
  PROVE  Queued'
<1>1. ASSUME NEW q \in Range(queue') PROVE q \in Request /\ AtKev(q)'
  <2>1. q # r /\ q \in Range(queue)
    OBVIOUS
  <2>2. q \in Request /\ AtKev(q)
    BY <2>1 DEF Typed, Queued
  <2> QED
    BY <2>1, <2>2, OthersStay
<1> QED
  BY <1>1 DEF Queued

(* What the two ways of getting past a read keep.                          *)
LEMMA MoveTyped ==
  ASSUME Typed, NEW r \in Request, NEW hit \in BOOLEAN, NEW dirty, UNCHANGED page, pc[r] = "read",
         aborted \subseteq dirty, dirty \subseteq aborted \cup {conn[r]},
         Move(r, hit, dirty) \/ Raise(r, dirty)
  PROVE  Moves(r, hit, dirty) /\ Held' /\ Placed' /\ Told'
<1>1. Moves(r, hit, dirty)
  BY MoveCases, RaiseCases DEF Moves
<1> QED
  BY <1>1, MoveHeld, MovePlaced

(* A request that is reading something else does not wait for the lock.    *)
LEMMA ReadMoveTyped ==
  ASSUME Typed, NEW r \in Request, Reading(r), NEW hit \in BOOLEAN, NEW dirty,
         aborted \subseteq dirty, dirty \subseteq aborted \cup {conn[r]},
         Move(r, hit, dirty) \/ Raise(r, dirty), UNCHANGED <<rest, kev>>
  PROVE  page' \in Workloads /\ Held' /\ Placed' /\ Told' /\ Queued'
<1>1. pc[r] = "read" /\ ~AtKev(r) /\ UNCHANGED page
  BY DEF Reading, AtKev, rest
<1>2. Moves(r, hit, dirty) /\ Held' /\ Placed' /\ Told'
  BY <1>1, MoveTyped
<1>3. r \notin Range(queue)
  BY <1>1 DEF Typed, Queued
<1>4. UNCHANGED <<queue, fetching>>
  BY DEF kev
<1>5. Queued'
  BY <1>1, <1>2, <1>3, <1>4, MoveQueued DEF Typed, Queued
<1> QED
  BY <1>1, <1>2, <1>5 DEF Typed

(* What there is to read, and what a request sees of it, has its type.     *)
LEMMA FaultTimed ==
  ASSUME Timed, Fault
  PROVE  faults' \in 0 .. MaxFaults
BY BoundsAssumption DEF Timed, Fault

(* The steps that are not part of a page.                                  *)
LEMMA OutsideTyped ==
  ASSUME Typed, Tick \/ (\E of \in Late : Fill(of)) \/ Finished \/ UNCHANGED vars
  PROVE  Typed'
<1>1. UNCHANGED <<page, pc, conn, aborted, branch, at, found, failed, answer, before,
                  cache, queue, fetching, entered, served, given, faults>>
  BY DEF Tick, Fill, Finished, vars, where, kev
<1>2. page' \in Workloads /\ Held' /\ Told'
  BY <1>1 DEF Typed, Held, Told
<1>3. Placed'
  BY <1>1 DEF Typed, Placed, Groups, Group
<1>4. Queued'
  <2>1. \A q : AtKev(q)' <=> AtKev(q)
    BY <1>1 DEF AtKev, Current, Group, Groups
  <2> QED
    BY <1>1, <2>1 DEF Typed, Queued
<1>5. clock' \in 1 .. MaxClock
  BY BoundsAssumption DEF Tick, Fill, Finished, vars, Typed, Timed
<1>6. content' \subseteq Stock
  BY ContentsAssumption DEF Tick, Fill, Finished, vars, Typed, Known
<1>7. Timed' /\ Known'
  BY <1>1, <1>5, <1>6 DEF Typed, Timed, Known
<1> QED
  BY <1>2, <1>3, <1>4, <1>7 DEF Typed

(* A request that begins, or that ends before its first read.              *)
LEMMA BeginTyped ==
  ASSUME Typed, NEW r \in Request, Connect(r) \/ PoolTimeout(r) \/ AuthFails(r)
  PROVE  Typed'
<1>1. ~AtKev(r) /\ pc[r] = "new" /\ conn[r] = None
  BY DEF Connect, PoolTimeout, AuthFails, AtKev, Typed, Held
<1>2. /\ UNCHANGED <<page, branch, at, found, queue, fetching, content, cache, entered, served, given, clock>>
      /\ \A o \in Request : o # r => pc'[o] = pc[o]
  BY DEF Connect, PoolTimeout, AuthFails, where, rest, kev, Typed, Held
<1>3. Placed' /\ page' \in Workloads
  BY <1>2 DEF Typed, Placed, Groups, Group
<1>4. Queued'
  <2>1. ASSUME NEW q \in Range(queue) PROVE q \in Request /\ AtKev(q)'
    <3>1. q \in Request /\ AtKev(q) /\ q # r
      BY <1>1 DEF Typed, Queued
    <3> QED
      BY <1>2, <3>1 DEF AtKev, Current, Group, Groups
  <2> QED
    BY <1>2, <2>1 DEF Typed, Queued
<1>5. faults' \in 0 .. MaxFaults
  BY FaultTimed DEF Connect, PoolTimeout, AuthFails, Typed, Timed
<1>6. Timed'
  BY <1>2, <1>5 DEF Typed, Timed
<1>7. CASE Connect(r)
  <2>1. PICK c \in Conn \ {conn[o] : o \in Request} : conn' = [conn EXCEPT ![r] = c]
    BY <1>7 DEF Connect
  <2>2. /\ pc' = [pc EXCEPT ![r] = "read"] /\ before' = [before EXCEPT ![r] = content]
        /\ UNCHANGED <<aborted, failed, answer>>
    BY <1>7 DEF Connect
  <2>3. c # None
    BY WorkloadAssumption
  <2>4. aborted \subseteq Range(conn') \ {None}
    <3> SUFFICES ASSUME NEW a \in aborted PROVE a \in Range(conn') /\ a # None
      OBVIOUS
    <3>1. PICK o \in Request : conn[o] = a /\ a # None
      BY DEF Typed, Held, Range
    <3>2. o # r /\ conn'[o] = a
      BY <1>1, <2>1, <3>1 DEF Typed, Held
    <3> QED
      BY <2>1, <3>1, <3>2 DEF Range, Typed, Held
  <2>5. Held'
    BY <2>1, <2>2, <2>3, <2>4 DEF Typed, Held
  <2>6. Known' /\ Told'
    BY <1>2, <2>2 DEF Typed, Known, Told
  <2> QED
    BY <1>3, <1>4, <1>6, <2>5, <2>6 DEF Typed
<1>8. CASE PoolTimeout(r) \/ AuthFails(r)
  <2>1. /\ pc' = [pc EXCEPT ![r] = "done"] /\ answer' = [answer EXCEPT ![r] = "error"]
        /\ failed' = [failed EXCEPT ![r] = {"pool"}] \/ failed' = [failed EXCEPT ![r] = {"user"}]
        /\ UNCHANGED <<conn, aborted, before>>
    BY <1>8 DEF PoolTimeout, AuthFails, rest
  <2>2. Held'
    BY <1>1, <2>1 DEF Typed, Held
  <2>3. Known' /\ Told'
    BY <1>2, <2>1 DEF Typed, Known, Told
  <2> QED
    BY <1>3, <1>4, <1>6, <2>2, <2>3 DEF Typed
<1> QED
  BY <1>7, <1>8

(* The reads of a page.                                                    *)
LEMMA ReadTyped ==
  ASSUME Typed, NEW r \in Request, ReadOk(r) \/ ReadFails(r) \/ ReadRefused(r)
  PROVE  Typed'
<1>1. Reading(r) /\ UNCHANGED <<rest, kev>>
  BY DEF ReadOk, ReadFails, ReadRefused
<1>2. PICK hit \in BOOLEAN, dirty \in {aborted, aborted \cup {conn[r]}} :
        Move(r, hit, dirty) \/ Raise(r, dirty)
  <2>1. CASE ReadOk(r)
    <3>1. (Current(r).of \in content) \in BOOLEAN
      OBVIOUS
    <3>2. Move(r, Current(r).of \in content, aborted) \/ Raise(r, aborted)
      BY <2>1 DEF ReadOk
    <3> QED
      BY <3>1, <3>2
  <2>2. CASE ReadFails(r)
    BY <2>2 DEF ReadFails
  <2>3. CASE ReadRefused(r)
    BY <2>3 DEF ReadRefused
  <2> QED
    BY <2>1, <2>2, <2>3
<1>3. page' \in Workloads /\ Held' /\ Placed' /\ Told' /\ Queued'
  BY <1>1, <1>2, ReadMoveTyped
<1>4. faults' \in 0 .. MaxFaults
  BY FaultTimed DEF ReadOk, ReadFails, ReadRefused, Typed, Timed
<1>5. failed' \in [Request -> SUBSET (Asked \cup {"user", "pool"})]
  <2>1. Current(r).of \in Asked
    BY ReadThere DEF ReadShape
  <2>2. UNCHANGED failed \/ failed' = [failed EXCEPT ![r] = @ \cup {Current(r).of}]
    BY DEF ReadOk, ReadFails, ReadRefused
  <2> QED
    BY <2>1, <2>2 DEF Typed, Known
<1>6. Timed' /\ Known'
  BY <1>1, <1>4, <1>5 DEF Typed, Timed, Known, rest, kev
<1> QED
  BY <1>3, <1>6 DEF Typed

(* A request that is at the KEV feed and gets past it, with the queue      *)
(* rid of it.                                                              *)
LEMMA KevMoveTyped ==
  ASSUME Typed, NEW r \in Request, AtKev(r), UNCHANGED <<rest>>,
         Move(r, TRUE, aborted) \/ Raise(r, aborted),
         queue' \in Seq(Request), \A q \in Range(queue') : q # r /\ q \in Range(queue),
         \A i, j \in DOMAIN queue' : queue'[i] = queue'[j] => i = j,
         fetching' \in BOOLEAN, fetching' => queue' # <<>>,
         faults' \in 0 .. MaxFaults, Timed'
  PROVE  page' \in Workloads /\ Held' /\ Placed' /\ Told' /\ Queued' /\ Timed'
<1>1. pc[r] = "read" /\ UNCHANGED page
  BY DEF AtKev, rest
<1>2. Moves(r, TRUE, aborted) /\ Held' /\ Placed' /\ Told'
  BY <1>1, MoveTyped
<1>3. Queued'
  BY <1>1, <1>2, MoveQueued
<1> QED
  BY <1>1, <1>2, <1>3 DEF Typed

(* Who stays at the feed is where it was; only the queue changes.          *)
LEMMA KevStayTyped ==
  ASSUME Typed, UNCHANGED <<rest, pc, conn, aborted, where, failed, answer>>,
         queue' \in Seq(Request), \A q \in Range(queue') : q \in Request /\ AtKev(q),
         \A i, j \in DOMAIN queue' : queue'[i] = queue'[j] => i = j,
         fetching' \in BOOLEAN, fetching' => queue' # <<>>, Timed'
  PROVE  Typed'
<1>1. UNCHANGED <<page, content, before, clock, pc, conn, aborted, branch, at, found, failed, answer>>
  BY DEF rest, where
<1>2. page' \in Workloads /\ Held' /\ Told' /\ Known'
  BY <1>1 DEF Typed, Held, Told, Known
<1>3. Placed'
  BY <1>1 DEF Typed, Placed, Groups, Group
<1>4. \A q : AtKev(q)' <=> AtKev(q)
  BY <1>1 DEF AtKev, Current, Group, Groups
<1>5. Queued'
  BY <1>4 DEF Queued
<1> QED
  BY <1>2, <1>3, <1>5 DEF Typed

LEMMA KevEnterTyped ==
  ASSUME Typed, NEW r \in Request, KevEnter(r)
  PROVE  Typed'
<1>1. /\ AtKev(r) /\ r \notin Range(queue) /\ UNCHANGED <<rest, failed, cache, fetching, faults>>
      /\ entered' = [entered EXCEPT ![r] = clock]
  BY DEF KevEnter
<1>2. Known'
  BY <1>1 DEF Typed, Known, rest
<1>3. entered' \in [Request -> 0 .. MaxClock] /\ UNCHANGED <<clock, cache, faults>>
  BY <1>1, BoundsAssumption DEF Typed, Timed, rest
<1>4. CASE Fresh(clock)
  <2>1. /\ UNCHANGED queue /\ served' = [served EXCEPT ![r] = cache.taken]
        /\ given' = [given EXCEPT ![r] = cache.data]
        /\ Move(r, TRUE, aborted) \/ Raise(r, aborted)
    BY <1>4 DEF KevEnter, Serve
  <2>2. Timed'
    BY <1>3, <2>1 DEF Typed, Timed
  <2>3. faults' \in 0 .. MaxFaults
    BY <2>2 DEF Timed
  <2>4. /\ queue' \in Seq(Request) /\ fetching' \in BOOLEAN /\ (fetching' => queue' # <<>>)
        /\ \A q \in Range(queue') : q # r /\ q \in Range(queue)
        /\ \A i, j \in DOMAIN queue' : queue'[i] = queue'[j] => i = j
    BY <1>1, <2>1 DEF Typed, Queued
  <2>5. page' \in Workloads /\ Held' /\ Placed' /\ Told' /\ Queued' /\ Timed'
    BY <1>1, <2>1, <2>2, <2>3, <2>4, KevMoveTyped
  <2> QED
    BY <1>2, <2>5 DEF Typed
<1>5. CASE ~Fresh(clock)
  <2>1. queue' = Append(queue, r) /\ UNCHANGED <<pc, conn, aborted, where, answer, served, given>>
    BY <1>5 DEF KevEnter
  <2>2. Timed'
    BY <1>3, <2>1 DEF Typed, Timed
  <2>3. \A q \in Range(queue) : q \in Request /\ AtKev(q)
    BY DEF Typed, Queued
  <2>4. /\ queue' \in Seq(Request) /\ fetching' \in BOOLEAN /\ (fetching' => queue' # <<>>)
        /\ \A q \in Range(queue') : q \in Request /\ AtKev(q)
        /\ \A i, j \in DOMAIN queue' : queue'[i] = queue'[j] => i = j
    BY <1>1, <2>1, <2>3, JoinQueue DEF Typed, Queued
  <2> QED
    BY <1>1, <2>1, <2>2, <2>4, KevStayTyped
<1> QED
  BY <1>4, <1>5

(* What the holder of the lock does.                                       *)
Holding(r) == KevLookAgain(r) \/ KevFetched(r) \/ KevMalformed(r) \/ KevFails(r)
LEMMA HoldingCases ==
  ASSUME NEW r \in Request, Holding(r)
  PROVE  KevLookAgain(r) \/ (\E d \in Data : KevGets(r, d)) \/ KevFails(r)
BY DEF Holding, KevFetched, KevMalformed, Data

LEMMA KevHoldTyped ==
  ASSUME Typed, NEW r \in Request, Holding(r)
  PROVE  Typed'
<1>1. AtKev(r) /\ queue # <<>> /\ Head(queue) = r /\ UNCHANGED <<rest, entered>>
  BY HoldingCases DEF KevLookAgain, KevGets, KevFails, Holds
<1>2. failed' \in [Request -> SUBSET (Asked \cup {"user", "pool"})]
  <2>1. UNCHANGED failed \/ failed' = [failed EXCEPT ![r] = @ \cup {"kev"}]
    BY HoldingCases DEF KevLookAgain, KevGets, KevFails
  <2> QED
    BY <2>1 DEF Typed, Known, Asked, Service
<1>3. Known'
  BY <1>1, <1>2 DEF Typed, Known, rest
<1>4. faults' \in 0 .. MaxFaults
  BY FaultTimed DEF Holding, KevLookAgain, KevFetched, KevMalformed, KevFails, Typed, Timed
<1>5. /\ cache' \in [ts : 0 .. MaxClock, taken : 0 .. MaxClock, data : Data]
      /\ Truthy(cache'.data) => cache'.taken # 0
  <2>1. UNCHANGED cache \/ \E d \in Data : cache' = [ts |-> entered[r], taken |-> clock, data |-> d]
    BY HoldingCases DEF KevLookAgain, KevGets, KevFails
  <2>2. entered[r] \in 0 .. MaxClock /\ clock \in 0 .. MaxClock /\ clock # 0
    BY BoundsAssumption DEF Typed, Timed
  <2> QED
    BY <2>1, <2>2 DEF Typed, Timed
<1>6. UNCHANGED clock
  BY <1>1 DEF rest
<1>7. CASE KevLookAgain(r) /\ ~Fresh(entered[r])
  <2>1. fetching' = TRUE /\ UNCHANGED <<pc, conn, aborted, where, answer, queue, served, given, failed>>
    BY <1>7 DEF KevLookAgain
  <2>2. Timed'
    BY <1>1, <1>4, <1>5, <1>6, <2>1 DEF Typed, Timed
  <2>3. /\ queue' \in Seq(Request) /\ fetching' \in BOOLEAN /\ queue' # <<>>
        /\ \A q \in Range(queue') : q \in Request /\ AtKev(q)
        /\ \A i, j \in DOMAIN queue' : queue'[i] = queue'[j] => i = j
    BY <1>1, <2>1 DEF Typed, Queued
  <2> QED
    BY <1>1, <2>1, <2>2, <2>3, KevStayTyped
<1>8. CASE ~(KevLookAgain(r) /\ ~Fresh(entered[r]))
  <2>1. /\ Move(r, TRUE, aborted) \/ Raise(r, aborted)
        /\ queue' = Tail(queue) /\ fetching' = FALSE
        /\ \/ UNCHANGED <<served, given>>
           \/ \E taken \in {cache.taken, clock}, d \in Data :
                 served' = [served EXCEPT ![r] = taken] /\ given' = [given EXCEPT ![r] = d]
    <3>0. cache.data \in Data
      BY DEF Typed, Timed
    <3>1. CASE KevLookAgain(r)
      BY <1>8, <3>0, <3>1 DEF KevLookAgain, Serve, Typed, Queued
    <3>2. CASE \E d \in Data : KevGets(r, d)
      BY <3>2 DEF KevGets, Serve
    <3>3. CASE KevFails(r)
      BY <3>0, <3>3 DEF KevFails, Serve
    <3> QED
      BY <3>1, <3>2, <3>3, HoldingCases
  <2>2. served' \in [Request -> 0 .. MaxClock] /\ given' \in [Request -> Data]
    <3>1. cache.taken \in 0 .. MaxClock /\ clock \in 0 .. MaxClock
      BY BoundsAssumption DEF Typed, Timed
    <3>2. served \in [Request -> 0 .. MaxClock] /\ given \in [Request -> Data]
      BY DEF Typed, Timed
    <3>3. CASE UNCHANGED <<served, given>>
      BY <3>2, <3>3
    <3>4. CASE \E taken \in {cache.taken, clock}, d \in Data :
                 served' = [served EXCEPT ![r] = taken] /\ given' = [given EXCEPT ![r] = d]
      <4>1. PICK taken \in {cache.taken, clock}, d \in Data :
              served' = [served EXCEPT ![r] = taken] /\ given' = [given EXCEPT ![r] = d]
        BY <3>4
      <4>2. taken \in 0 .. MaxClock
        BY <3>1
      <4> QED
        BY <3>2, <4>1, <4>2
    <3> QED
      BY <2>1, <3>3, <3>4
  <2>3. Timed'
    BY <1>1, <1>4, <1>5, <1>6, <2>2 DEF Typed, Timed
  <2>4. /\ queue' \in Seq(Request) /\ fetching' \in BOOLEAN /\ (fetching' => queue' # <<>>)
        /\ \A q \in Range(queue') : q # r /\ q \in Range(queue)
        /\ \A i, j \in DOMAIN queue' : queue'[i] = queue'[j] => i = j
    BY <1>1, <2>1, LeaveQueue
  <2>5. page' \in Workloads /\ Held' /\ Placed' /\ Told' /\ Queued' /\ Timed'
    BY <1>1, <1>4, <2>1, <2>3, <2>4, KevMoveTyped
  <2> QED
    BY <1>3, <2>5 DEF Typed
<1> QED
  BY <1>7, <1>8

(* At first every request is at the first read of its page.                *)
LEMMA InitTyped ==
  ASSUME Init
  PROVE  Typed
<1>1. page \in Workloads /\ \A r \in Request : page[r] \in DOMAIN Pages
  BY WorkloadAssumption DEF Init
<1>2. Held /\ Told
  BY DEF Init, Held, Told, Range
<1>3. ASSUME NEW r \in Request PROVE at[r][1] \in DOMAIN Groups(r) /\ at[r][2] \in DOMAIN Group(r)
  <2>1. Pages[page[r]] \in PageShape /\ branch[r] = "try" /\ at[r] = <<1, 1>>
    BY <1>1, PagesShape DEF Init
  <2>2. Groups(r) \in BranchShape /\ Groups(r) # <<>>
    BY <2>1 DEF Groups, PageShape
  <2>3. 1 \in DOMAIN Groups(r) /\ Groups(r)[1] \in GroupShape
    BY <2>2 DEF BranchShape
  <2>4. Group(r) = Groups(r)[1]
    BY <2>1 DEF Group
  <2>5. 1 \in DOMAIN Group(r)
    BY <2>3, <2>4 DEF GroupShape
  <2> QED
    BY <2>1, <2>3, <2>5
<1>4. Placed
  BY <1>3 DEF Init, Placed
<1>5. Queued
  <2>1. queue \in Seq(Request) /\ DOMAIN queue = {} /\ fetching = FALSE
    BY DEF Init
  <2>2. Range(queue) = {}
    BY <2>1 DEF Range
  <2> QED
    BY <2>1, <2>2 DEF Queued
<1>6. Timed
  BY BoundsAssumption DEF Init, Timed, Data, Truthy
<1>7. Known
  BY ContentsAssumption DEF Init, Known
<1> QED
  BY <1>1, <1>2, <1>4, <1>5, <1>6, <1>7 DEF Typed

(* The steps of a request, and the others.                                 *)
Acts(r) ==
    \/ Connect(r) \/ PoolTimeout(r) \/ AuthFails(r)
    \/ ReadOk(r) \/ ReadFails(r) \/ ReadRefused(r)
    \/ KevEnter(r) \/ Holding(r)
LEMMA NextCases ==
  ASSUME [Next]_vars
  PROVE  \/ \E r \in Request : Acts(r)
         \/ Tick \/ (\E of \in Late : Fill(of)) \/ Finished \/ UNCHANGED vars
BY DEF Next, Step, Acts, Holding

LEMMA NextTyped ==
  ASSUME Typed, [Next]_vars
  PROVE  Typed'
<1>1. ASSUME NEW r \in Request, Acts(r) PROVE Typed'
  BY <1>1, BeginTyped, ReadTyped, KevEnterTyped, KevHoldTyped DEF Acts
<1> QED
  BY <1>1, NextCases, OutsideTyped

(* Every state is well typed: a request has a connection exactly while it  *)
(* reads, no two share one, a connection on which an error happened is in  *)
(* somebody's hands, everyone is at a read of their page, and only those   *)
(* who are at the KEV feed, each once, are in the queue of its lock.       *)
THEOREM TypeCorrect == Spec => []TypeOK
<1>1. Init => Typed
  BY InitTyped
<1>2. Typed /\ [Next]_vars => Typed'
  BY NextTyped
<1>3. Typed => TypeOK
  BY TypedIsTypeOK
<1> QED
  BY <1>1, <1>2, <1>3, PTL DEF Spec

-----------------------------------------------------------------------------
(* Why a failure is one's own: a connection on which an error happened is  *)
(* in the hands of the request the error happened to.  Nobody else can be  *)
(* answered where there is no service to ask, no single thing to find, or  *)
(* no list of vulnerabilities in the feed.                                 *)
Excuse(r) ==
    \/ page[r] = "nohash"
    \/ page[r] = "technique" /\ "twins" \in content
    \/ page[r] = "kev" /\ served[r] # 0 /\ ~Listed(given[r])
Blamed(r) ==
    /\ conn[r] \in aborted => failed[r] # {}
    /\ branch[r] = "fallback" => failed[r] # {}
    /\ answer[r] \in {"error", "blank"} => failed[r] # {} \/ Excuse(r)
Pending(r) == pc[r] # "done" => answer[r] = "none"
Blame == \A r \in Request : Blamed(r) /\ Pending(r)

(* Why a "not found" is honest: what such a page has passed over failed or *)
(* was not there when the request began.                                   *)
Lacked(r, read) == read.of \notin before[r] \ failed[r]
PassedOver(r) ==
    Pages[page[r]].must /\ at[r][1] = 1 /\ 1 \notin found[r] =>
        \A k \in 1 .. at[r][2] - 1 : Lacked(r, Pages[page[r]].try[1][k])
Sure(r) == Pages[page[r]].must /\ at[r][1] > 1 => 1 \in found[r]
Honestly(r) ==
    /\ before[r] \subseteq content
    /\ pc[r] = "new" => at[r] = <<1, 1>>
    /\ pc[r] # "done" => PassedOver(r) /\ Sure(r)
    /\ answer[r] = "absent" => \A read \in Range(Pages[page[r]].try[1]) : Lacked(r, read)
Honest == \A r \in Request : Honestly(r)

(* Why the KEV list is fresh and fetched once: the cache is never younger  *)
(* than its data nor its data than now, and who fetches found it stale.    *)
(* Nobody asks for the feed again after having been given it.              *)
KevLocked ==
    /\ cache.ts =< cache.taken /\ cache.taken =< clock
    /\ \A r \in Request : entered[r] =< clock
    /\ fetching => ~Fresh(entered[Head(queue)])
KevFresh ==
    \A r \in Request :
        /\ served[r] # 0 => "kev" \in failed[r] \/ entered[r] - served[r] < TTL
        /\ pc[r] # "done" => served[r] = 0

(* A step past a read is a move, or an exception for which there is a      *)
(* failure or an excuse.  A move passes over what failed or is not there,  *)
(* or over any error of the transaction.                                   *)
Passes(r, hit, f) ==
    \/ hit \/ Current(r).of \in f
    \/ Current(r).of \notin content \/ "sql" \in Current(r).passes
Past(r, hit, dirty, f) ==
    /\ pc[r] = "read" /\ UNCHANGED rest
    /\ failed' = [failed EXCEPT ![r] = f] /\ failed[r] \subseteq f
    /\ \/ Move(r, hit, dirty) /\ Passes(r, hit, f)
       \/ Raise(r, dirty) /\ (f # {} \/ Excuse(r)')
    /\ dirty = aborted \/ (f # {} /\ dirty = aborted \cup {conn[r]})
    /\ \A o \in Request : o # r => served'[o] = served[o] /\ given'[o] = given[o]
Through(r) == \E hit \in BOOLEAN : \E dirty, f : Past(r, hit, dirty, f)
(* A step that leaves a request where it is.                               *)
Waits == UNCHANGED <<rest, pc, conn, aborted, where, failed, answer, served, given>>

LEMMA ReadThrough ==
  ASSUME Typed, Blame, NEW r \in Request, ReadOk(r) \/ ReadFails(r) \/ ReadRefused(r)
  PROVE  Through(r)
<1>1. /\ pc[r] = "read" /\ UNCHANGED rest /\ failed \in [Request -> SUBSET (Asked \cup {"user", "pool"})]
      /\ UNCHANGED <<page, content, served, given>>
  BY DEF ReadOk, ReadFails, ReadRefused, Reading, Typed, Known, rest, kev
<1>2. CASE ReadOk(r)
  <2> DEFINE hit == Current(r).of \in content
  <2>1. hit \in BOOLEAN /\ failed' = [failed EXCEPT ![r] = failed[r]]
    BY <1>1, <1>2 DEF ReadOk
  <2>2. CASE Current(r).one /\ "twins" \in content
    <3>1. Excuse(r)'
      BY <1>1, <2>2, OddReads DEF Excuse
    <3>2. Raise(r, aborted)
      BY <1>2, <2>2 DEF ReadOk
    <3>3. Past(r, hit, aborted, failed[r])
      BY <1>1, <2>1, <3>1, <3>2 DEF Past
    <3> QED
      BY <2>1, <3>3 DEF Through
  <2>3. CASE ~(Current(r).one /\ "twins" \in content)
    <3>1. Move(r, hit, aborted)
      BY <1>2, <2>3 DEF ReadOk
    <3>2. Past(r, hit, aborted, failed[r])
      BY <1>1, <2>1, <3>1 DEF Past, Passes
    <3> QED
      BY <2>1, <3>2 DEF Through
  <2> QED
    BY <2>2, <2>3
<1>3. CASE ReadFails(r)
  <2> DEFINE f == failed[r] \cup {Current(r).of}
  <2>1. failed' = [failed EXCEPT ![r] = f] /\ f # {} /\ failed[r] \subseteq f
    BY <1>1, <1>3 DEF ReadFails
  <2>2. PICK dirty \in {aborted, aborted \cup {conn[r]}} : Move(r, FALSE, dirty) \/ Raise(r, dirty)
    BY <1>3 DEF ReadFails
  <2>3. Past(r, FALSE, dirty, f)
    BY <1>1, <2>1, <2>2 DEF Past, Passes
  <2> QED
    BY <2>3 DEF Through
<1>4. CASE ReadRefused(r)
  <2>1. failed' = [failed EXCEPT ![r] = failed[r]]
    BY <1>1, <1>4 DEF ReadRefused
  <2>2. failed[r] # {} \/ Excuse(r)'
    <3>1. Current(r).of = "unset" \/ conn[r] \in aborted
      BY <1>4 DEF ReadRefused, Works
    <3> QED
      BY <1>1, <3>1, OddReads DEF Blame, Blamed, Excuse
  <2>3. Past(r, FALSE, aborted, failed[r])
    BY <1>1, <1>4, <2>1, <2>2 DEF Past, Passes, ReadRefused
  <2> QED
    BY <2>3 DEF Through
<1> QED
  BY <1>2, <1>3, <1>4

(* Being given the feed, or failing to get one.                            *)
LEMMA ServeThrough ==
  ASSUME Typed, NEW r \in Request, AtKev(r), UNCHANGED rest, NEW taken, taken # 0, NEW data,
         NEW f, failed' = [failed EXCEPT ![r] = f], failed[r] \subseteq f, Serve(r, taken, data)
  PROVE  Past(r, TRUE, aborted, f)
<1>1. page[r] = "kev" /\ pc[r] = "read" /\ UNCHANGED page
  BY OddReads DEF AtKev, rest
<1>2. /\ served'[r] = taken /\ given'[r] = data
      /\ \A o \in Request : o # r => served'[o] = served[o] /\ given'[o] = given[o]
  BY DEF Serve, Typed, Timed
<1>3. Move(r, TRUE, aborted) \/ (Raise(r, aborted) /\ Excuse(r)')
  BY <1>1, <1>2 DEF Serve, Excuse
<1> QED
  BY <1>1, <1>2, <1>3 DEF Past, Passes

LEMMA KevThrough ==
  ASSUME Typed, NEW r \in Request, KevEnter(r) \/ Holding(r)
  PROVE  Through(r) \/ Waits
<1>1. /\ AtKev(r) /\ pc[r] = "read" /\ UNCHANGED rest
      /\ failed \in [Request -> SUBSET (Asked \cup {"user", "pool"})]
  BY HoldingCases DEF KevEnter, KevLookAgain, KevGets, KevFails, Holds, AtKev, Typed, Known
<1>2. (Truthy(cache.data) => cache.taken # 0) /\ clock # 0
  BY BoundsAssumption DEF Typed, Timed
<1>3. CASE KevFails(r)
  <2> DEFINE f == failed[r] \cup {"kev"}
  <2>1. failed' = [failed EXCEPT ![r] = f] /\ f # {} /\ failed[r] \subseteq f
    BY <1>1, <1>3 DEF KevFails
  <2>2. CASE Truthy(cache.data)
    <3>1. Serve(r, cache.taken, cache.data)
      BY <1>3, <2>2 DEF KevFails
    <3>2. Past(r, TRUE, aborted, f)
      BY <1>1, <1>2, <2>1, <2>2, <3>1, ServeThrough
    <3> QED
      BY <3>2 DEF Through
  <2>3. CASE ~Truthy(cache.data)
    <3>1. Raise(r, aborted) /\ UNCHANGED <<served, given>>
      BY <1>3, <2>3 DEF KevFails
    <3>2. Past(r, TRUE, aborted, f)
      BY <1>1, <2>1, <3>1 DEF Past
    <3> QED
      BY <3>2 DEF Through
  <2> QED
    BY <2>2, <2>3
<1>4. CASE ~KevFails(r)
  <2>1. failed' = [failed EXCEPT ![r] = failed[r]] /\ UNCHANGED failed
    BY <1>1, <1>4, HoldingCases DEF KevEnter, KevLookAgain, KevGets
  <2>2. \/ UNCHANGED <<pc, conn, aborted, where, answer, served, given>>
        \/ Truthy(cache.data) /\ Serve(r, cache.taken, cache.data)
        \/ \E d \in Data : Serve(r, clock, d)
    <3>1. Fresh(clock) \/ Fresh(entered[r]) => Truthy(cache.data)
      BY DEF Fresh
    <3>2. CASE KevEnter(r)
      BY <3>1, <3>2 DEF KevEnter
    <3>3. CASE KevLookAgain(r)
      BY <3>1, <3>3 DEF KevLookAgain
    <3>4. CASE \E d \in Data : KevGets(r, d)
      BY <3>4 DEF KevGets
    <3> QED
      BY <1>4, <3>2, <3>3, <3>4, HoldingCases
  <2>3. CASE UNCHANGED <<pc, conn, aborted, where, answer, served, given>>
    BY <1>1, <2>1, <2>3 DEF Waits
  <2>4. CASE Truthy(cache.data) /\ Serve(r, cache.taken, cache.data)
    <3>1. Past(r, TRUE, aborted, failed[r])
      BY <1>1, <1>2, <2>1, <2>4, ServeThrough
    <3> QED
      BY <3>1 DEF Through
  <2>5. CASE \E d \in Data : Serve(r, clock, d)
    <3>1. PICK d \in Data : Serve(r, clock, d)
      BY <2>5
    <3>2. Past(r, TRUE, aborted, failed[r])
      BY <1>1, <1>2, <2>1, <3>1, ServeThrough
    <3> QED
      BY <3>2 DEF Through
  <2> QED
    BY <2>2, <2>3, <2>4, <2>5
<1> QED
  BY <1>3, <1>4

(* What every step does to the pages.                                      *)
LEMMA StepKinds ==
  ASSUME Typed, Blame, [Next]_vars
  PROVE  \/ \E r \in Request : Connect(r) \/ PoolTimeout(r) \/ AuthFails(r) \/ Through(r)
         \/ \E of \in Late : Fill(of)
         \/ UNCHANGED <<page, pc, conn, aborted, where, failed, answer, content, before, served, given>>
<1>1. ASSUME NEW r \in Request, Acts(r)
      PROVE  Connect(r) \/ PoolTimeout(r) \/ AuthFails(r) \/ Through(r) \/ Waits
  BY <1>1, ReadThrough, KevThrough DEF Acts
<1>2. Tick \/ Finished \/ UNCHANGED vars \/ Waits =>
        UNCHANGED <<page, pc, conn, aborted, where, failed, answer, content, before, served, given>>
  BY DEF Tick, Finished, vars, where, kev, Waits, rest
<1> QED
  BY <1>1, <1>2, NextCases

(* What a step past a read does, in terms of the cases above: the excuses  *)
(* are those of pages without an except branch.                            *)
LEMMA PastCases ==
  ASSUME Typed, NEW r \in Request, NEW hit \in BOOLEAN, NEW dirty, NEW f, Past(r, hit, dirty, f)
  PROVE  /\ Moves(r, hit, dirty) /\ UNCHANGED <<page, content, before>> /\ pc[r] = "read"
         /\ aborted \subseteq dirty /\ dirty \subseteq aborted \cup {conn[r]}
         /\ \/ /\ Passes(r, hit, f)
               /\ \/ NextRead(r, hit, dirty) \/ NextGroup(r, hit, dirty)
                  \/ NotThere(r, hit, dirty) \/ Complete(r, hit, dirty)
            \/ f # {} /\ ToFallback(r, dirty)
            \/ (f # {} \/ Excuse(r)') /\ GivesUp(r, dirty)
         /\ \A o \in Request : o # r =>
               failed'[o] = failed[o] /\ served'[o] = served[o] /\ given'[o] = given[o]
         /\ failed'[r] = f
<1>1. /\ UNCHANGED <<page, content, before>> /\ pc[r] = "read"
      /\ aborted \subseteq dirty /\ dirty \subseteq aborted \cup {conn[r]}
  BY DEF Past, rest
<1>2. /\ \A o \in Request : o # r =>
            failed'[o] = failed[o] /\ served'[o] = served[o] /\ given'[o] = given[o]
      /\ failed'[r] = f
  BY DEF Past, Typed, Known
<1>3. CASE Move(r, hit, dirty) /\ Passes(r, hit, f)
  BY <1>1, <1>2, <1>3, MoveCases DEF Moves
<1>4. CASE Raise(r, dirty) /\ (f # {} \/ Excuse(r)')
  <2>1. Excuse(r)' => Pages[page[r]].fallback = <<>>
    BY <1>1, OddReads DEF Excuse, Odd
  <2> QED
    BY <1>1, <1>2, <1>4, <2>1, RaiseCases DEF Moves, ToFallback
<1> QED
  BY <1>3, <1>4 DEF Past

LEMMA BlameThrough ==
  ASSUME Typed, Blame, NEW r \in Request, Through(r)
  PROVE  Blame'
<1>0. PICK hit \in BOOLEAN : \E dirty, f : Past(r, hit, dirty, f)
  BY DEF Through
<1>1. PICK dirty, f : Past(r, hit, dirty, f)
  BY <1>0
<1>2. /\ Moves(r, hit, dirty) /\ UNCHANGED <<page, content>> /\ pc[r] = "read"
      /\ aborted \subseteq dirty /\ dirty \subseteq aborted \cup {conn[r]}
      /\ \/ NextRead(r, hit, dirty) \/ NextGroup(r, hit, dirty)
         \/ NotThere(r, hit, dirty) \/ Complete(r, hit, dirty)
         \/ f # {} /\ ToFallback(r, dirty)
         \/ (f # {} \/ Excuse(r)') /\ GivesUp(r, dirty)
      /\ \A o \in Request : o # r =>
            failed'[o] = failed[o] /\ served'[o] = served[o] /\ given'[o] = given[o]
      /\ failed'[r] = f
  BY <1>1, PastCases
<1>3. conn[r] # None /\ aborted' \subseteq dirty
  BY <1>2 DEF Typed, Held, Moves, NextRead, NextGroup, NotThere, Complete, ToFallback, GivesUp,
              Goes, Reply, Close
<1>4. ASSUME NEW o \in Request, o # r PROVE Blamed(o)' /\ Pending(o)'
  <2>1. /\ pc'[o] = pc[o] /\ conn'[o] = conn[o] /\ answer'[o] = answer[o] /\ branch'[o] = branch[o]
        /\ failed'[o] = failed[o]
    BY <1>2, <1>4, OthersStay
  <2>2. conn[o] \in dirty => conn[o] \in aborted
    BY <1>2, <1>3, <1>4 DEF Typed, Held
  <2>3. Blamed(o) /\ Pending(o)
    BY DEF Blame
  <2>4. Excuse(o)' <=> Excuse(o)
    BY <1>2, <1>4 DEF Excuse
  <2> QED
    BY <1>3, <2>1, <2>2, <2>3, <2>4 DEF Blamed, Pending
<1>5. Blamed(r) /\ Pending(r) /\ failed[r] \subseteq f /\ (f = {} => dirty = aborted)
  BY <1>1 DEF Blame, Past
<1>6. CASE f # {}
  <2>1. Blamed(r)'
    BY <1>2, <1>6 DEF Blamed
  <2>2. Pending(r)'
    BY <1>2, <1>5 DEF Pending, Moves, NextRead, NextGroup, NotThere, Complete, ToFallback, GivesUp,
                      Goes, Reply, Typed, Held
  <2> QED
    BY <1>4, <2>1, <2>2 DEF Blame
<1>7. CASE f = {}
  <2>1. \/ NextRead(r, hit, dirty) \/ NextGroup(r, hit, dirty)
        \/ NotThere(r, hit, dirty) \/ Complete(r, hit, dirty)
        \/ Excuse(r)' /\ GivesUp(r, dirty)
    BY <1>2, <1>7
  <2>2. failed[r] = {} /\ conn[r] \notin dirty /\ branch[r] # "fallback" /\ answer[r] = "none"
    BY <1>2, <1>5, <1>7 DEF Blamed, Pending
  <2>3. branch'[r] # "fallback"
    BY <2>1, <2>2 DEF NextRead, NextGroup, NotThere, Complete, GivesUp, Goes, Reply, where
  <2>4. (answer'[r] \notin {"error", "blank"} \/ Excuse(r)') /\ Pending(r)'
    BY <1>2, <2>1, <2>2 DEF NextRead, NextGroup, NotThere, Complete, GivesUp, Goes, Reply,
                            Typed, Told, Held, Pending
  <2>5. conn'[r] \notin aborted'
    <3>1. Held'
      BY <1>2, MoveHeld
    <3>2. conn'[r] \in {conn[r], None}
      BY <2>1 DEF NextRead, NextGroup, NotThere, Complete, GivesUp, Goes, Reply, Close, Typed, Held
    <3> QED
      BY <1>3, <2>2, <3>1, <3>2 DEF Held
  <2> QED
    BY <1>4, <2>3, <2>4, <2>5 DEF Blame, Blamed
<1> QED
  BY <1>6, <1>7

LEMMA BlameBegin ==
  ASSUME Typed, Blame, NEW r \in Request, Connect(r) \/ PoolTimeout(r) \/ AuthFails(r)
  PROVE  Blame'
<1>1. /\ UNCHANGED <<aborted, branch, page, content, served, given>> /\ pc[r] = "new" /\ conn[r] = None
      /\ \A o \in Request : o # r =>
            UNCHANGED <<conn[o], answer[o], failed[o]>> /\ pc'[o] = pc[o]
  BY DEF Connect, PoolTimeout, AuthFails, where, rest, kev, Typed, Held, Told, Known
<1>2. ASSUME NEW o \in Request, o # r PROVE Blamed(o)' /\ Pending(o)'
  BY <1>1, <1>2 DEF Blame, Blamed, Pending, Excuse
<1>3. Blamed(r) /\ Pending(r)
  BY DEF Blame
<1>4. CASE Connect(r)
  <2>1. PICK c \in Conn \ {conn[o] : o \in Request} : conn' = [conn EXCEPT ![r] = c]
    BY <1>4 DEF Connect
  <2>2. c \notin aborted /\ conn'[r] = c
    BY <2>1 DEF Typed, Held, Range
  <2>3. UNCHANGED <<failed, answer>>
    BY <1>4 DEF Connect
  <2> QED
    BY <1>1, <1>2, <1>3, <2>2, <2>3 DEF Blame, Blamed, Pending, Excuse
<1>5. CASE PoolTimeout(r) \/ AuthFails(r)
  <2>1. failed'[r] # {} /\ pc'[r] = "done"
    BY <1>5 DEF PoolTimeout, AuthFails, Typed, Held, Known
  <2> QED
    BY <1>2, <2>1 DEF Blame, Blamed, Pending
<1> QED
  BY <1>4, <1>5

LEMMA NextBlame ==
  ASSUME Typed, Blame, [Next]_vars
  PROVE  Blame'
<1>1. CASE UNCHANGED <<page, pc, conn, aborted, where, failed, answer, content, before,
                     served, given>>
  BY <1>1 DEF Blame, Blamed, Pending, Excuse, where
<1>2. CASE \E of \in Late : Fill(of)
  <2>1. /\ UNCHANGED <<page, pc, conn, aborted, branch, failed, answer, served, given>>
        /\ content \subseteq content'
    BY <1>2 DEF Fill, where, kev
  <2> QED
    BY <2>1 DEF Blame, Blamed, Pending, Excuse
<1> QED
  BY <1>1, <1>2, StepKinds, BlameThrough, BlameBegin

(* An answer that is an error or zeros goes to a request of which a read   *)
(* failed, or that got no connection: nobody inherits a broken transaction.*)
(* Else it is one nobody gets more of: there is no key for the hash        *)
(* services, which is the default, two techniques have the id, or the feed *)
(* that was given has no list of vulnerabilities, whoever fetched it.      *)
THEOREM FailsOnlyOnItsOwn == Spec => []OwnFailureOnly
<1>1. Init => Typed /\ Blame
  BY InitTyped DEF Init, Blame, Blamed, Pending
<1>2. Typed /\ Blame /\ [Next]_vars => (Typed /\ Blame)'
  BY NextTyped, NextBlame
<1>3. Blame => OwnFailureOnly
  BY DEF Blame, Blamed, Excuse, OwnFailureOnly
<1> QED
  BY <1>1, <1>2, <1>3, PTL DEF Spec

-----------------------------------------------------------------------------
(* A step past a read keeps the search honest.                             *)
LEMMA HonestThrough ==
  ASSUME Typed, Blame, Honest, NEW r \in Request, Through(r)
  PROVE  Honest'
<1>0. PICK hit \in BOOLEAN : \E dirty, f : Past(r, hit, dirty, f)
  BY DEF Through
<1>1. PICK dirty, f : Past(r, hit, dirty, f)
  BY <1>0
<1>2. /\ Moves(r, hit, dirty) /\ UNCHANGED <<page, content, before>> /\ pc[r] = "read"
      /\ \/ /\ Passes(r, hit, f)
            /\ \/ NextRead(r, hit, dirty) \/ NextGroup(r, hit, dirty)
               \/ NotThere(r, hit, dirty) \/ Complete(r, hit, dirty)
         \/ ToFallback(r, dirty)
         \/ GivesUp(r, dirty)
      /\ \A o \in Request : o # r => failed'[o] = failed[o]
      /\ failed'[r] = f
  BY <1>1, PastCases
<1>3. failed[r] \subseteq f
  BY <1>1 DEF Past
<1>4. ASSUME NEW o \in Request, o # r PROVE Honestly(o)'
  <2>1. /\ pc'[o] = pc[o] /\ answer'[o] = answer[o] /\ at'[o] = at[o] /\ found'[o] = found[o]
        /\ failed'[o] = failed[o]
    BY <1>2, <1>4, OthersStay
  <2>2. Honestly(o)
    BY DEF Honest
  <2> QED
    BY <1>2, <2>1, <2>2 DEF Honestly, PassedOver, Sure, Lacked
<1>5. Honestly(r) /\ Pending(r) /\ answer[r] = "none"
  BY <1>2 DEF Honest, Blame, Pending
<1>6. pc'[r] # "new"
  BY <1>2 DEF Moves, NextRead, NextGroup, NotThere, Complete, ToFallback, GivesUp, Goes, Reply, Typed, Held
<1>7. /\ NotThere(r, hit, dirty) => Pages[page[r]].must
      /\ ~NotThere(r, hit, dirty) => answer'[r] # "absent"
  <2>1. NotThere(r, hit, dirty) => Pages[page[r]].must
    BY DEF NotThere, Lacks
  <2>2. Pages[page[r]].last # "absent"
    BY ReadThere DEF PageShape
  <2> QED
    BY <1>2, <1>5, <2>1, <2>2
    DEF NextRead, NextGroup, Complete, ToFallback, GivesUp, Goes, Reply, Typed, Told
<1>8. CASE ~Pages[page[r]].must
  <2>1. (PassedOver(r) /\ Sure(r))'
    BY <1>2, <1>8 DEF PassedOver, Sure
  <2> QED
    BY <1>2, <1>4, <1>5, <1>6, <1>7, <1>8, <2>1 DEF Honest, Honestly
<1>9. CASE Pages[page[r]].must /\ GivesUp(r, dirty)
  <2>1. pc'[r] = "done" /\ answer'[r] # "absent"
    <3>1. Pages[page[r]].last # "absent"
      BY ReadThere DEF PageShape
    <3> QED
      BY <1>9, <3>1 DEF GivesUp, Reply, Typed, Held, Told
  <2> QED
    BY <1>2, <1>4, <1>5, <1>6, <2>1 DEF Honest, Honestly
<1>10. CASE Pages[page[r]].must /\ ~GivesUp(r, dirty)
  <2> DEFINE first == Pages[page[r]].try[1]
             Gone(read) == read.of \notin before[r] \ f
  <2>1. /\ Passes(r, hit, f)
        /\ \/ NextRead(r, hit, dirty) \/ NextGroup(r, hit, dirty)
           \/ NotThere(r, hit, dirty) \/ Complete(r, hit, dirty)
    BY <1>2, <1>10, MustShape, ReadThere DEF ToFallback
  <2>2. branch[r] = "try"
    <3>1. Pages[page[r]].fallback = <<>> /\ branch[r] \in {"try", "fallback"}
      BY <1>10, MustShape, ReadThere DEF Typed, Placed
    <3>2. branch[r] = "fallback" => Groups(r) = <<>>
      BY <3>1, ReadThere
    <3> QED
      BY <3>1, <3>2, ReadThere
  <2>3. PassedOver(r) /\ Sure(r) /\ before[r] \subseteq content
    BY <1>2, <1>5 DEF Honestly
  <2>4. at[r][1] = 1 => Group(r) = first /\ Current(r) = first[at[r][2]]
    BY <2>2, ReadThere DEF Group, Current
  <2>5. /\ at[r] \in Nat \X Nat /\ at[r][1] \in 1 .. Len(Groups(r)) /\ at[r][2] \in 1 .. Len(Group(r))
        /\ Group(r) \in GroupShape
    BY ReadThere
  \* What is passed over failed or was not there.
  <2>6. at[r][1] = 1 /\ ~hit => Gone(first[at[r][2]])
    <3> SUFFICES ASSUME at[r][1] = 1, ~hit PROVE Gone(Current(r))
      BY <2>4
    <3>1. "sql" \notin Current(r).passes
      <4>1. at[r][2] \in DOMAIN first
        BY <2>4, <2>5 DEF GroupShape
      <4> QED
        BY <1>10, <2>4, <4>1, MustShape, ReadThere
    <3> QED
      BY <2>1, <2>3, <3>1 DEF Passes
  \* What the invariant says once the present alternative is passed over too.
  <2>7. at[r][1] = 1 /\ 1 \notin In(r, hit) =>
          \A k \in 1 .. at[r][2] : Gone(first[k])
    <3> SUFFICES ASSUME at[r][1] = 1, 1 \notin In(r, hit), NEW k \in 1 .. at[r][2]
                 PROVE  Gone(first[k])
      OBVIOUS
    <3>1. ~hit /\ 1 \notin found[r]
      BY DEF In
    <3>2. CASE k = at[r][2]
      BY <2>6, <3>1, <3>2
    <3>3. CASE k # at[r][2]
      <4>1. k \in 1 .. at[r][2] - 1
        BY <2>5, <3>3
      <4>2. Lacked(r, first[k])
        BY <1>10, <2>3, <3>1, <4>1 DEF PassedOver
      <4> QED
        BY <1>3, <4>2 DEF Lacked
    <3> QED
      BY <3>2, <3>3
  <2>8. CASE NextRead(r, hit, dirty)
    <3>1. at'[r] = <<at[r][1], at[r][2] + 1>> /\ found'[r] = In(r, hit) /\ answer'[r] = "none"
      BY <1>5, <2>8 DEF NextRead, Goes, Typed, Placed
    <3>2. at'[r][1] = at[r][1] /\ at'[r][2] - 1 = at[r][2]
      BY <2>5, <3>1
    <3>3. PassedOver(r)'
      <4> SUFFICES ASSUME at'[r][1] = 1, 1 \notin found'[r], NEW k \in 1 .. at'[r][2] - 1
                   PROVE  Lacked(r, first[k])'
        BY <1>2 DEF PassedOver
      <4>1. Gone(first[k])
        BY <2>7, <3>1, <3>2
      <4> QED
        BY <1>2, <4>1 DEF Lacked
    <3>4. Sure(r)'
      BY <1>2, <2>3, <3>1, <3>2 DEF Sure, In
    <3> QED
      BY <1>2, <1>4, <1>6, <2>3, <3>1, <3>3, <3>4 DEF Honest, Honestly
  <2>9. CASE NextGroup(r, hit, dirty)
    <3>1. at'[r] = <<at[r][1] + 1, 1>> /\ found'[r] = In(r, hit) /\ answer'[r] = "none" /\ ~Lacks(r, hit)
      BY <1>5, <2>9 DEF NextGroup, Goes, Typed, Placed
    <3>2. at'[r][1] # 1
      BY <2>5, <3>1
    <3>3. PassedOver(r)' /\ Sure(r)'
      BY <1>2, <3>1, <3>2 DEF PassedOver, Sure, Lacks
    <3> QED
      BY <1>2, <1>4, <1>6, <2>3, <3>1, <3>3 DEF Honest, Honestly
  <2>10. CASE NotThere(r, hit, dirty)
    <3>1. Lacks(r, hit) /\ (hit \/ at[r][2] = Len(Group(r)))
      BY <2>10 DEF NotThere
    <3>2. at[r][1] = 1
      BY <2>3, <2>5, <3>1 DEF Lacks, In, Sure
    <3>3. at[r][2] = Len(Group(r)) /\ Group(r) = first
      BY <2>4, <3>1, <3>2 DEF Lacks, In
    <3>4. \A k \in 1 .. Len(first) : Gone(first[k])
      BY <2>7, <3>1, <3>2, <3>3 DEF Lacks
    <3>5. \A read \in Range(first) : Gone(read)
      <4> SUFFICES ASSUME NEW k \in DOMAIN first PROVE Gone(first[k])
        BY DEF Range
      <4> QED
        BY <2>5, <3>3, <3>4 DEF GroupShape
    <3>6. pc'[r] = "done"
      BY <2>10 DEF NotThere, Reply, Typed, Held
    <3>7. (\A read \in Range(Pages[page[r]].try[1]) : Lacked(r, read))'
      BY <1>2, <3>5 DEF Lacked
    <3> QED
      BY <1>2, <1>4, <1>6, <2>3, <3>6, <3>7 DEF Honest, Honestly
  <2>11. CASE Complete(r, hit, dirty)
    <3>1. pc'[r] = "done" /\ answer'[r] # "absent"
      BY <2>11 DEF Complete, Reply, Typed, Held, Told
    <3> QED
      BY <1>2, <1>4, <1>6, <2>3, <3>1 DEF Honest, Honestly
  <2> QED
    BY <2>1, <2>8, <2>9, <2>10, <2>11
<1> QED
  BY <1>8, <1>9, <1>10

LEMMA HonestBegin ==
  ASSUME Typed, Blame, Honest, NEW r \in Request, Connect(r) \/ PoolTimeout(r) \/ AuthFails(r)
  PROVE  Honest'
<1>1. /\ UNCHANGED <<page, content, at, found>> /\ pc[r] = "new"
      /\ \A o \in Request : o # r =>
            UNCHANGED <<before[o], answer[o], failed[o]>> /\ pc'[o] = pc[o]
  BY DEF Connect, PoolTimeout, AuthFails, where, rest, kev, Typed, Held, Told, Known
<1>2. ASSUME NEW o \in Request, o # r PROVE Honestly(o)'
  BY <1>1, <1>2 DEF Honest, Honestly, PassedOver, Sure, Lacked
<1>3. Honestly(r) /\ at[r] = <<1, 1>> /\ answer[r] = "none"
  BY <1>1 DEF Honest, Honestly, Blame, Pending
<1>4. PassedOver(r)' /\ Sure(r)'
  BY <1>1, <1>3 DEF PassedOver, Sure
<1>5. before'[r] \subseteq content /\ pc'[r] # "new" /\ answer'[r] # "absent"
  BY <1>1, <1>3 DEF Connect, PoolTimeout, AuthFails, rest, Typed, Held, Told, Known, Honestly
<1> QED
  BY <1>1, <1>2, <1>4, <1>5 DEF Honest, Honestly

LEMMA NextHonest ==
  ASSUME Typed, Blame, Honest, [Next]_vars
  PROVE  Honest'
<1>1. CASE UNCHANGED <<page, pc, conn, aborted, where, failed, answer, content, before,
                     served, given>>
  BY <1>1 DEF Honest, Honestly, PassedOver, Sure, Lacked, where
<1>2. CASE \E of \in Late : Fill(of)
  <2>1. /\ UNCHANGED <<page, pc, at, found, failed, answer, before>> /\ content \subseteq content'
    BY <1>2 DEF Fill, where
  <2> QED
    BY <2>1 DEF Honest, Honestly, PassedOver, Sure, Lacked
<1> QED
  BY <1>1, <1>2, StepKinds, HonestThrough, HonestBegin

LEMMA InitHonest ==
  ASSUME Init
  PROVE  Blame /\ Honest
<1>1. Blame
  BY DEF Init, Blame, Blamed, Pending
<1>2. \A r \in Request : PassedOver(r) /\ Sure(r)
  BY DEF Init, PassedOver, Sure
<1>3. Honest
  BY <1>2 DEF Init, Honest, Honestly
<1> QED
  BY <1>1, <1>3

(* A page says that something is not there only if none of the places it   *)
(* looks in had it when the request began, but for those that failed when  *)
(* they were asked: whatever was collected meanwhile, and whichever of the *)
(* services failed.                                                        *)
THEOREM NotFoundIsHonest == Spec => []NotFoundHonest
<1>1. Init => Typed /\ Blame /\ Honest
  BY InitTyped, InitHonest
<1>2. Typed /\ Blame /\ Honest /\ [Next]_vars => (Typed /\ Blame /\ Honest)'
  BY NextTyped, NextBlame, NextHonest
<1>3. Honest => NotFoundHonest
  BY DEF Honest, Honestly, Lacked, NotFoundHonest
<1> QED
  BY <1>1, <1>2, <1>3, PTL DEF Spec

-----------------------------------------------------------------------------
(* Steps that leave the cache and its lock alone.                          *)
LEMMA KevUntouched ==
  ASSUME Typed, KevLocked, UNCHANGED kev, clock' >= clock, clock' \in Nat
  PROVE  KevLocked'
<1>1. UNCHANGED <<cache, queue, fetching, entered>>
  BY DEF kev
<1>2. cache.taken \in 0 .. MaxClock /\ clock \in 1 .. MaxClock
  BY DEF Typed, Timed
<1>3. \A r \in Request : entered[r] \in 0 .. MaxClock
  BY DEF Typed, Timed
<1>4. (Fresh(entered[Head(queue)]) <=> Fresh(entered[Head(queue)])')
  BY <1>1 DEF Fresh
<1> QED
  BY <1>1, <1>2, <1>3, <1>4, BoundsAssumption DEF KevLocked

(* Steps of a request elsewhere.                                           *)
LEMMA ElsewhereFresh ==
  ASSUME Typed, Blame, KevLocked, KevFresh,
         NEW r \in Request, \/ Connect(r) \/ PoolTimeout(r) \/ AuthFails(r)
                            \/ ReadOk(r) \/ ReadFails(r) \/ ReadRefused(r)
  PROVE  KevLocked' /\ KevFresh' /\ cache' = cache
<1>1. UNCHANGED kev /\ UNCHANGED <<page, clock>>
  BY DEF Connect, PoolTimeout, AuthFails, ReadOk, ReadFails, ReadRefused, rest
<1>2. KevLocked'
  <2>1. clock \in Nat
    BY BoundsAssumption DEF Typed, Timed
  <2> QED
    BY <1>1, <2>1, KevUntouched
<1>3. ASSUME NEW o \in Request
      PROVE  /\ pc'[o] # "done" => pc[o] # "done"
             /\ failed[o] \subseteq failed'[o] \/ pc[o] # "done"
  <2>1. pc[r] # "done"
    BY DEF Connect, PoolTimeout, AuthFails, ReadOk, ReadFails, ReadRefused, Reading
  <2>2. CASE o = r
    BY <2>1, <2>2
  <2>3. CASE o # r /\ (Connect(r) \/ PoolTimeout(r) \/ AuthFails(r))
    BY <2>3 DEF Connect, PoolTimeout, AuthFails, Typed, Held, Known
  <2>4. CASE o # r /\ (ReadOk(r) \/ ReadFails(r) \/ ReadRefused(r))
    <3>1. Through(r)
      BY <2>4, ReadThrough
    <3>2. PICK hit, dirty, f : hit \in BOOLEAN /\ Past(r, hit, dirty, f)
      BY <3>1 DEF Through
    <3> QED
      BY <1>1, <2>4, <3>2, PastCases, OthersStay
  <2> QED
    BY <2>2, <2>3, <2>4
<1>4. KevFresh'
  <2>1. UNCHANGED <<entered, served>>
    BY <1>1 DEF kev
  <2> QED
    BY <1>3, <2>1 DEF KevFresh
<1> QED
  BY <1>1, <1>2, <1>4 DEF kev

(* The feed is the last that its page reads.                               *)
LEMMA KevEnds ==
  ASSUME Typed, NEW r \in Request, AtKev(r), NEW hit \in BOOLEAN, NEW dirty, Moves(r, hit, dirty)
  PROVE  pc'[r] = "done"
<1>1. /\ Pages[page[r]].fallback = <<>> /\ Len(Groups(r)) = 1 /\ Len(Group(r)) = 1
  BY OddReads DEF AtKev, Odd
<1>2. at[r][1] = 1 /\ at[r][2] = 1 /\ DOMAIN Groups(r) = 1 .. 1 /\ DOMAIN Group(r) = 1 .. 1
  <2>1. /\ Groups(r) \in BranchShape /\ Group(r) \in GroupShape
        /\ at[r][1] \in 1 .. Len(Groups(r)) /\ at[r][2] \in 1 .. Len(Group(r))
    BY ReadThere
  <2>2. DOMAIN Groups(r) = 1 .. Len(Groups(r)) /\ DOMAIN Group(r) = 1 .. Len(Group(r))
    BY <2>1 DEF BranchShape, GroupShape
  <2> QED
    BY <1>1, <2>1, <2>2
<1>3. ~NextRead(r, hit, dirty) /\ ~NextGroup(r, hit, dirty) /\ ~ToFallback(r, dirty)
  BY <1>1, <1>2 DEF NextRead, NextGroup, ToFallback
<1> QED
  BY <1>3 DEF Moves, NotThere, Complete, GivesUp, Reply, Typed, Held

(* Being served: what one is given is younger than a time to live when one *)
(* asked, or one's own fetch failed; and then one is answered.             *)
LEMMA ServedFresh ==
  ASSUME Typed, Blame, KevFresh, NEW r \in Request, AtKev(r), Through(r) \/ Waits,
         entered' \in [Request -> 0 .. MaxClock], served' \in [Request -> 0 .. MaxClock],
         \A o \in Request : o # r => entered'[o] = entered[o] /\ served'[o] = served[o],
         UNCHANGED served \/ "kev" \in failed'[r] \/ entered'[r] - served'[r] < TTL
  PROVE  KevFresh'
<1>1. UNCHANGED page /\ served[r] = 0
  BY DEF Waits, Through, Past, rest, AtKev, KevFresh
<1>2. CASE Waits
  <2>1. UNCHANGED <<pc, failed, served>>
    BY <1>2 DEF Waits
  <2>2. \A o \in Request : o # r => entered'[o] = entered[o]
    OBVIOUS
  <2> QED
    BY <1>1, <2>1, <2>2 DEF KevFresh
<1>3. CASE Through(r)
  <2>1. PICK hit, dirty, f : hit \in BOOLEAN /\ Past(r, hit, dirty, f)
    BY <1>3 DEF Through
  <2>2. Moves(r, hit, dirty)
    BY <2>1, PastCases
  <2>3. pc'[r] = "done"
    BY <2>1, <2>2, KevEnds
  <2>4. \A o \in Request : o # r => pc'[o] = pc[o] /\ failed'[o] = failed[o]
    BY <1>1, <2>1, PastCases, OthersStay
  <2> QED
    BY <1>1, <2>3, <2>4 DEF KevFresh
<1> QED
  BY <1>2, <1>3

LEMMA KevEnterFresh ==
  ASSUME Typed, Blame, KevLocked, KevFresh, NEW r \in Request, KevEnter(r)
  PROVE  KevLocked' /\ KevFresh' /\ cache' = cache
<1>1. /\ AtKev(r) /\ r \notin Range(queue) /\ UNCHANGED <<clock, cache, fetching, failed>>
      /\ entered' = [entered EXCEPT ![r] = clock] /\ pc[r] = "read"
  BY DEF KevEnter, rest, AtKev
<1>2. /\ clock \in 1 .. MaxClock /\ entered \in [Request -> 0 .. MaxClock]
      /\ served \in [Request -> 0 .. MaxClock] /\ cache.ts \in 0 .. MaxClock
      /\ cache.taken \in 0 .. MaxClock /\ TTL \in Nat \ {0}
  BY BoundsAssumption DEF Typed, Timed
<1>3. cache.ts =< cache.taken /\ cache.taken =< clock /\ \A o \in Request : entered[o] =< clock
  BY DEF KevLocked
<1>4. queue' = queue \/ queue' = Append(queue, r)
  BY DEF KevEnter
<1>5. fetching => Head(queue') = Head(queue) /\ Head(queue) # r /\ Head(queue) \in Request
  <2>1. ASSUME fetching PROVE Head(queue) \in Range(queue) /\ Head(queue) \in Request
    <3>1. queue # <<>> /\ queue \in Seq(Request)
      BY <2>1 DEF Typed, Queued
    <3> QED
      BY <3>1 DEF Range
  <2>2. fetching => Head(queue') = Head(queue)
    BY <1>1, <1>4, JoinQueue DEF Typed, Queued
  <2> QED
    BY <1>1, <2>1, <2>2
<1>6. fetching' => ~Fresh(entered[Head(queue)])'
  BY <1>1, <1>2, <1>5 DEF KevLocked, Fresh
<1>7. KevLocked'
  BY <1>1, <1>2, <1>3, <1>6 DEF KevLocked
<1>8. Through(r) \/ Waits
  BY KevThrough
<1>9. \/ UNCHANGED served
      \/ Fresh(clock) /\ served' = [served EXCEPT ![r] = cache.taken]
  BY DEF KevEnter, Serve
<1>10. /\ served' \in [Request -> 0 .. MaxClock] /\ entered' \in [Request -> 0 .. MaxClock]
       /\ \A o \in Request : o # r => entered'[o] = entered[o] /\ served'[o] = served[o]
       /\ entered'[r] = clock
  BY <1>1, <1>2, <1>9
<1>11. Fresh(clock) => clock - cache.taken < TTL
  BY <1>2, <1>3 DEF Fresh
<1>12. UNCHANGED served \/ entered'[r] - served'[r] < TTL
  BY <1>2, <1>9, <1>10, <1>11
<1>13. KevFresh'
  BY <1>1, <1>8, <1>10, <1>12, ServedFresh
<1> QED
  BY <1>1, <1>7, <1>13

LEMMA KevHoldFresh ==
  ASSUME Typed, Blame, KevLocked, KevFresh, NEW r \in Request, Holding(r)
  PROVE  /\ KevLocked' /\ KevFresh'
         /\ cache' # cache => ~Truthy(cache.data) \/ cache'.ts - cache.ts >= TTL
<1>1. /\ AtKev(r) /\ Head(queue) = r /\ UNCHANGED <<clock, entered>>
  BY HoldingCases DEF KevLookAgain, KevGets, KevFails, Holds, rest
<1>2. /\ clock \in 1 .. MaxClock /\ entered \in [Request -> 0 .. MaxClock]
      /\ served \in [Request -> 0 .. MaxClock] /\ cache.ts \in 0 .. MaxClock
      /\ cache.taken \in 0 .. MaxClock /\ TTL \in Nat \ {0} /\ entered[r] \in 0 .. MaxClock
  BY BoundsAssumption DEF Typed, Timed
<1>3. /\ cache.ts =< cache.taken /\ cache.taken =< clock /\ \A o \in Request : entered[o] =< clock
      /\ fetching => ~Fresh(entered[r])
  BY <1>1 DEF KevLocked
<1>4. entered' \in [Request -> 0 .. MaxClock] /\ \A o \in Request : entered'[o] = entered[o]
  BY <1>1, <1>2
<1>5. Through(r) \/ Waits
  BY KevThrough
<1>6. CASE KevLookAgain(r)
  <2>1. UNCHANGED <<cache, failed>>
    BY <1>6 DEF KevLookAgain
  <2>2. Fresh(entered[r])' <=> Fresh(entered[r])
    BY <1>1, <2>1 DEF Fresh
  <2>3. fetching' => ~Fresh(entered[r]) /\ queue' = queue
    BY <1>6 DEF KevLookAgain
  <2>4. KevLocked'
    BY <1>1, <1>3, <2>1, <2>2, <2>3 DEF KevLocked
  <2>5. \/ Fresh(entered[r]) /\ served' = [served EXCEPT ![r] = cache.taken]
        \/ UNCHANGED served
    BY <1>6 DEF KevLookAgain, Serve
  <2>6. Fresh(entered[r]) => entered[r] - cache.taken < TTL
    BY <1>2, <1>3 DEF Fresh
  <2>7. /\ served' \in [Request -> 0 .. MaxClock]
        /\ \A o \in Request : o # r => served'[o] = served[o]
        /\ UNCHANGED served \/ entered'[r] - served'[r] < TTL
    BY <1>2, <1>4, <2>5, <2>6
  <2>8. KevFresh'
    BY <1>1, <1>4, <1>5, <2>7, ServedFresh
  <2> QED
    BY <2>1, <2>4, <2>8
<1>7. CASE \E d \in Data : KevGets(r, d)
  <2>0. PICK d \in Data : KevGets(r, d)
    BY <1>7
  <2>1. /\ cache' = [ts |-> entered[r], taken |-> clock, data |-> d] /\ fetching /\ fetching' = FALSE
        /\ served' = [served EXCEPT ![r] = clock]
    BY <2>0 DEF KevGets, Serve
  <2>2. cache'.ts = entered[r] /\ cache'.taken = clock
    BY <2>1
  <2>3. KevLocked'
    BY <1>1, <1>2, <1>3, <2>1, <2>2 DEF KevLocked
  <2>4. ~Truthy(cache.data) \/ cache'.ts - cache.ts >= TTL
    BY <1>2, <1>3, <2>1, <2>2 DEF Fresh
  <2>5. /\ served' \in [Request -> 0 .. MaxClock]
        /\ \A o \in Request : o # r => served'[o] = served[o]
        /\ entered'[r] - served'[r] < TTL
    BY <1>2, <1>3, <1>4, <2>1
  <2>6. KevFresh'
    BY <1>1, <1>4, <1>5, <2>5, ServedFresh
  <2> QED
    BY <2>3, <2>4, <2>6
<1>8. CASE KevFails(r)
  <2>1. /\ UNCHANGED cache /\ fetching' = FALSE /\ failed' = [failed EXCEPT ![r] = @ \cup {"kev"}]
        /\ UNCHANGED served \/ served' = [served EXCEPT ![r] = cache.taken]
    BY <1>8 DEF KevFails, Serve
  <2>2. KevLocked'
    BY <1>1, <1>3, <2>1 DEF KevLocked
  <2>3. "kev" \in failed'[r]
    BY <2>1 DEF Typed, Known
  <2>4. served' \in [Request -> 0 .. MaxClock] /\ \A o \in Request : o # r => served'[o] = served[o]
    BY <1>2, <2>1
  <2>5. KevFresh'
    BY <1>1, <1>4, <1>5, <2>3, <2>4, ServedFresh
  <2> QED
    BY <2>1, <2>2, <2>5
<1> QED
  BY <1>6, <1>7, <1>8, HoldingCases

LEMMA NextFresh ==
  ASSUME Typed, Blame, KevLocked, KevFresh, [Next]_vars
  PROVE  /\ KevLocked' /\ KevFresh'
         /\ cache' # cache => ~Truthy(cache.data) \/ cache'.ts - cache.ts >= TTL
<1>1. ASSUME NEW r \in Request, Acts(r)
      PROVE  /\ KevLocked' /\ KevFresh'
             /\ cache' # cache => ~Truthy(cache.data) \/ cache'.ts - cache.ts >= TTL
  BY <1>1, ElsewhereFresh, KevEnterFresh, KevHoldFresh DEF Acts
<1>2. CASE Tick \/ (\E of \in Late : Fill(of)) \/ Finished \/ UNCHANGED vars
  <2>1. /\ UNCHANGED kev /\ UNCHANGED <<pc, failed, entered, served, cache>>
        /\ clock' = clock \/ clock' = clock + 1
    BY <1>2 DEF Tick, Fill, Finished, vars, kev
  <2>2. clock \in Nat
    BY BoundsAssumption DEF Typed, Timed
  <2>3. KevLocked'
    BY <2>1, <2>2, KevUntouched
  <2>4. KevFresh'
    BY <2>1 DEF KevFresh
  <2> QED
    BY <2>1, <2>3, <2>4
<1> QED
  BY <1>1, <1>2, NextCases

LEMMA InitFresh ==
  ASSUME Init
  PROVE  Typed /\ Blame /\ KevLocked /\ KevFresh
<1>1. KevLocked
  BY DEF Init, KevLocked
<1>2. KevFresh
  BY DEF Init, KevFresh
<1> QED
  BY <1>1, <1>2, InitTyped, InitHonest

(* A KEV feed that is given to a request, also one in an odd shape, was    *)
(* fetched less than a time to live before the request asked, although     *)
(* "now" is read before the lock is waited for, unless the request itself  *)
(* tried to fetch and failed.                                              *)
THEOREM KevIsFresh == Spec => []KevFreshEnough
<1>1. Init => Typed /\ Blame /\ KevLocked /\ KevFresh
  BY InitFresh
<1>2. Typed /\ Blame /\ KevLocked /\ KevFresh /\ [Next]_vars => (Typed /\ Blame /\ KevLocked /\ KevFresh)'
  BY NextTyped, NextBlame, NextFresh
<1>3. KevFresh => KevFreshEnough
  BY DEF KevFresh, KevFreshEnough
<1> QED
  BY <1>1, <1>2, <1>3, PTL DEF Spec

(* The feed replaces what is cached only when that is as old as its time   *)
(* to live or empty, however many requests found it stale together.        *)
THEOREM KevIsFetchedOnce == Spec => KevFetchedOnce
<1>1. Init => Typed /\ Blame /\ KevLocked /\ KevFresh
  BY InitFresh
<1>2. Typed /\ Blame /\ KevLocked /\ KevFresh /\ [Next]_vars => (Typed /\ Blame /\ KevLocked /\ KevFresh)'
  BY NextTyped, NextBlame, NextFresh
<1>3. Typed /\ Blame /\ KevLocked /\ KevFresh /\ [Next]_vars =>
        [cache' # cache => ~Truthy(cache.data) \/ cache'.ts - cache.ts >= TTL]_vars
  BY NextFresh
<1> QED
  BY <1>1, <1>2, <1>3, PTL DEF Spec, KevFetchedOnce
=============================================================================
