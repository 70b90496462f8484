----------------------------- MODULE MCFeedRun -----------------------------
(***************************************************************************)
(* Feeds and what their providers hold, for checking FeedRun with TLC.     *)
(***************************************************************************)
EXTENDS FeedRun

Plain(f, s) == [feed |-> f, sizes |-> s, maxPages |-> 0, keyed |-> TRUE]

\* The collectors at sizes that make the fallbacks of each differ: OTX pages
\* of two records that shrink to one, three days of ThreatFox, one day of it.
AllSettings ==
    {Plain("urlhaus", <<9>>), Plain("openphish", <<9>>), Plain("malwarebazaar", <<3, 4>>),
     Plain("threatfox", <<4, 2, 1>>), Plain("threatfox", <<2>>),
     [Plain("threatfox", <<2>>) EXCEPT !.keyed = FALSE],
     Plain("otx", <<2, 1>>), [Plain("otx", <<2, 1>>) EXCEPT !.maxPages = 2],
     Plain("abuseipdb", <<4, 2, 1>>)}

\* Up to five records, at most one of them not good.
Records(n) == {[i \in 1 .. n |-> IF i = k THEN c ELSE "good"] : k \in 1 .. n, c \in Class}
AllOffers  == {<<>>} \cup UNION {Records(n) : n \in {1, 3, 5}}
=============================================================================
