---------------------------- MODULE MCIocStore ----------------------------
(***************************************************************************)
(* Jobs and workloads for checking IocStore with TLC.                      *)
(***************************************************************************)
EXTENDS IocStore, TLC

CONSTANTS s1, s2, s3, k1, k2, k3

It(k)        == [key |-> k, defect |-> "none", seen |-> NoTime]
Old(k)       == [key |-> k, defect |-> "none", seen |-> 0]
Bad(k, d)    == [key |-> k, defect |-> d, seen |-> NoTime]
Blank        == [kind |-> "bulk", batches |-> <<>>, skip |-> TRUE, row |-> 1,
                 seen |-> Keep, defect |-> "none"]
Bulk(bs)     == [Blank EXCEPT !.batches = bs]
Strict(bs)   == [Bulk(bs) EXCEPT !.skip = FALSE]
Post(i)      == [Blank EXCEPT !.kind = "create", !.batches = <<<<i>>>>]
Put(r, t)    == [Blank EXCEPT !.kind = "update", !.row = r, !.seen = t]
PutLong(r)   == [Put(r, Keep) EXCEPT !.defect = "long"]
Drop(r)      == [Blank EXCEPT !.kind = "delete", !.row = r]
Clean90      == [Blank EXCEPT !.kind = "cleanup"]

\* Every way of giving the sessions jobs from three sets.
Give(A, B, C) == {(s1 :> a) @@ (s2 :> b) @@ (s3 :> c) : a \in A, b \in B, c \in C}
Give2(A, B)   == {(s1 :> a) @@ (s2 :> b) : a \in A, b \in B}

NoRows  == <<>>
OneRow  == <<[key |-> k1, seen |-> 0]>>
TwoRows == <<[key |-> k1, seen |-> 0], [key |-> k2, seen |-> 0]>>

\* A collector, a second ingestion of the same keys, and one of the others.
SharedWork ==
    Give({Bulk(<<<<It(k1), It(k2)>>, <<It(k2)>>>>)},
         {Bulk(<<<<It(k3), It(k1)>>>>), Strict(<<<<Bad(k3, "long"), It(k2)>>>>), Post(Old(k2))},
         {Clean90, Put(1, NoTime), PutLong(1), Drop(1)})
\* Two collectors of different feeds, each seeing its key more than once, and
\* one session that deletes, edits or posts a third key.
DisjointWork ==
    Give({Bulk(<<<<It(k1), It(k1)>>, <<It(k1)>>>>)},
         {Bulk(<<<<Bad(k2, "nul"), It(k2)>>, <<It(k2)>>>>), Post(It(k2))},
         {Clean90, Drop(2)})

\* All of these.
SharedWorks == SharedWork \cup DisjointWork

\* The same feed ingested twice at once: the task is redelivered, or a manual
\* pull overlaps the schedule.
TwiceWork == Give2({Bulk(<<<<It(k1)>>, <<It(k1)>>>>)}, {Bulk(<<<<It(k1)>>, <<It(k2)>>>>)})

\* One request with a value the server refuses, and a collector.
NulWork == Give2({Bulk(<<<<It(k1), Bad(k2, "nul")>>>>)}, {Bulk(<<<<It(k1), It(k2)>>>>)})

============================================================================
