---------------------------- MODULE MCMitreSync ----------------------------
(***************************************************************************)
(* Releases of ATT&CK for checking MitreSync with TLC.                     *)
(***************************************************************************)
EXTENDS MitreSync, TLC

CONSTANTS daily, manual, te, tm, ti, qe, qm, g1, g2, access, impact

Kinded ==
    (te :> "tactic") @@ (tm :> "tactic") @@ (ti :> "tactic") @@ (qe :> "technique") @@ (qm :> "technique")
    @@ (g1 :> "group") @@ (g2 :> "relationship")
\* Both domains call their tactic the same.
Named == [k \in Key |-> IF k \in {te, tm, qe, qm} THEN access
                    ELSE IF k = ti THEN impact ELSE NoName]

\* Two domains that share rows, in different orders, and a release that lists
\* the first one's rows in another order.
Domains == << <<qe, te, g1, g2>>, <<ti, tm, qm, g2>> >>
Later   == << <<g2, te, qe>>, <<tm, qm, g1>> >>
Both    == <<Domains, Later>>

AllGood == [k \in Key |-> "good"]
Bad     == [AllGood EXCEPT ![qm] = "refused"]
Strange == [AllGood EXCEPT ![qe] = "odd"]
Grades  == {AllGood, Bad, Strange}
Stored  == {{}, {te, tm, qe, g1}}
Refusal == {Bad}
============================================================================
