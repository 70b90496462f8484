---------------------------- MODULE MCStixStore ----------------------------
(***************************************************************************)
(* Providers and jobs for checking StixStore with TLC.                     *)
(***************************************************************************)
EXTENDS StixStore, TLC

CONSTANTS s1, s2, s3, x, y, yy

Rec(a, n) == [age |-> a, name |-> n, sound |-> TRUE]
Null(a)   == [age |-> a, name |-> NoName, sound |-> FALSE]

\* y and yy are one name in two spellings.
Slugs    == (x :> 1) @@ (y :> 2) @@ (yy :> 2)
\* ThreatFox as the history and as the current collection find it, and what
\* OTX has; URLhaus has something in two of its three downloads.
Provider(h, c) ==
    [urlhaus |-> <<Rec(0, NoName), Rec(0, NoName)>>, otx |-> <<Rec(0, NoName), Null(0)>>,
     history |-> h, current |-> c]
\* Opposite orders; a record that does not convert in the first and larger
\* chunk; a bundle with one malware in two spellings; a record that is old.
Crossed  == Provider(<<Rec(0, x), Rec(0, y)>>, <<Rec(0, y), Rec(0, x)>>)
Spoilt   == Provider(<<Rec(0, x), Rec(0, y), Null(1)>>, <<Rec(0, x), Null(0)>>)
Spelled  == Provider(<<Rec(0, x), Rec(3, y)>>, <<Rec(0, y), Rec(0, yy)>>)
Mixed    == {Crossed, Spoilt, Spelled}
Aged     == {Spelled}
Known    == {{}, {2}}

Give(k, l, m) == (s1 :> [kind |-> k, days |-> 3]) @@ (s2 :> [kind |-> l, days |-> 1])
                 @@ (s3 :> [kind |-> m, days |-> 1])
MixedJobs   == {Give("history", "current", "otx"), Give("current", "current", "urlhaus")}
HistoryJobs == {s1 :> [kind |-> "history", days |-> 4]}
============================================================================
