---------------------------- MODULE MCRequests ----------------------------
(***************************************************************************)
(* Pages and contents for checking Requests with TLC.                      *)
(***************************************************************************)
EXTENDS Requests, TLC

CONSTANTS r1, r2, r3, c1, c2

Ask(p, q, k) == (r1 :> p) @@ (r2 :> q) @@ (r3 :> k)
\* The KEV list among itself and beside another page; every other page once.
Mixes == {
    Ask("kev", "kev", "kev"), Ask("kev", "kev", "latest"), Ask("kpis", "regions", "hash"),
    Ask("countries", "actors", "cve"), Ask("sectors", "tools", "threat"),
    Ask("summary", "lookup", "mitre"), Ask("sources", "countrystats", "cvedetail"),
    Ask("distributions", "indicator", "search"), Ask("suggest", "dashboard", "latest"),
    Ask("vthash", "otxhash", "nohash"), Ask("technique", "technique", "ioc")}
InStore == {{}, {"iocs", "cve", "virustotal", "mitre part", "technique", "kev"}}
Later  == {"mitre name", "twins"}
============================================================================
