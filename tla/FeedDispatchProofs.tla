------------------------- MODULE FeedDispatchProofs -------------------------
(***************************************************************************)
(* Proofs about FeedDispatch for every pool and list of sources, every set *)
(* of requests, and for every bound on requests, beats and faults.         *)
(***************************************************************************)
EXTENDS FeedDispatch, FiniteSetTheorems, SequenceTheorems, TLAPS

-----------------------------------------------------------------------------
(***************************************************************************)
(* Counting how often lists name a source.                                 *)
(***************************************************************************)
IsLists(L) == IsFiniteSet(DOMAIN L) /\ L \in [DOMAIN L -> Seq(Source)]
Weight(s, L) == Cardinality(Mentions(s, L))
Only(L, D) == [k \in D |-> L[k]]

LEMMA TimesCount ==
  ASSUME NEW s, NEW l \in Seq(Source)
  PROVE  /\ IsFiniteSet({i \in DOMAIN l : l[i] = s}) /\ Times(s, l) \in Nat
         /\ (\E i \in DOMAIN l : l[i] = s) => Times(s, l) >= 1
         /\ (\A i \in DOMAIN l : l[i] # s) => Times(s, l) = 0
<1> DEFINE D == {i \in DOMAIN l : l[i] = s}
<1>1. IsFiniteSet(DOMAIN l)
  <2>1. DOMAIN l = 1 .. Len(l) /\ Len(l) \in Nat
    OBVIOUS
  <2> QED
    BY <2>1, FS_Interval
<1>2. IsFiniteSet(D) /\ Cardinality(D) \in Nat
  BY <1>1, FS_Subset, FS_CardinalityType
<1>3. (Cardinality(D) = 0 <=> D = {})
  BY <1>2, FS_EmptySet
<1>4. Times(s, l) = Cardinality(D)
  BY DEF Times
<1> QED
  BY <1>2, <1>3, <1>4

LEMMA InMentions ==
  ASSUME NEW s, NEW L, NEW x
  PROVE  x \in Mentions(s, L) <=>
           \E k \in DOMAIN L : \E i \in DOMAIN L[k] : x = <<k, i>> /\ L[k][i] = s
BY DEF Mentions

LEMMA MentionsFinite ==
  ASSUME NEW s, NEW L, IsLists(L)
  PROVE  IsFiniteSet(Mentions(s, L)) /\ Weight(s, L) \in Nat
<1> DEFINE Part(k) == {k} \X {i \in DOMAIN L[k] : L[k][i] = s}
           parts == {Part(k) : k \in DOMAIN L}
           f == [k \in DOMAIN L |-> Part(k)]
<1>1. \A k \in DOMAIN L : IsFiniteSet(Part(k))
  <2> TAKE k \in DOMAIN L
  <2>1. IsFiniteSet({i \in DOMAIN L[k] : L[k][i] = s})
    BY TimesCount DEF IsLists
  <2>2. IsFiniteSet({k})
    BY FS_Singleton
  <2> QED
    BY <2>1, <2>2, FS_Product
<1>2. f \in Surjection(DOMAIN L, parts)
  BY DEF Surjection
<1>3. IsFiniteSet(parts)
  BY <1>2, FS_Surjection DEF IsLists
<1>4. \A T \in parts : IsFiniteSet(T)
  BY <1>1
<1>5. Mentions(s, L) = UNION parts
  BY DEF Mentions
<1> QED
  BY <1>3, <1>4, <1>5, FS_UNION, FS_CardinalityType DEF Weight

(* Two disjoint groups of lists count for themselves.                      *)
LEMMA Groups ==
  ASSUME NEW s, NEW L, IsLists(L), NEW D, NEW E, DOMAIN L = D \cup E, D \cap E = {}
  PROVE  /\ IsLists(Only(L, D)) /\ IsLists(Only(L, E))
         /\ Weight(s, L) = Weight(s, Only(L, D)) + Weight(s, Only(L, E))
<1>1. IsLists(Only(L, D)) /\ IsLists(Only(L, E))
  <2>1. IsFiniteSet(D) /\ IsFiniteSet(E)
    BY FS_Subset DEF IsLists
  <2> QED
    BY <2>1 DEF IsLists, Only
<1>2. Mentions(s, L) = Mentions(s, Only(L, D)) \cup Mentions(s, Only(L, E))
  <2> SUFFICES ASSUME NEW x
               PROVE  x \in Mentions(s, L) <=>
                        x \in Mentions(s, Only(L, D)) \/ x \in Mentions(s, Only(L, E))
    OBVIOUS
  <2>1. DOMAIN Only(L, D) = D /\ DOMAIN Only(L, E) = E
        /\ (\A k \in D : Only(L, D)[k] = L[k]) /\ (\A k \in E : Only(L, E)[k] = L[k])
    BY DEF Only
  <2> QED
    BY <2>1, InMentions
<1>3. Mentions(s, Only(L, D)) \cap Mentions(s, Only(L, E)) = {}
  <2> SUFFICES ASSUME NEW x, x \in Mentions(s, Only(L, D)), x \in Mentions(s, Only(L, E))
               PROVE  FALSE
    OBVIOUS
  <2>1. x[1] \in D
    BY InMentions DEF Only
  <2>2. x[1] \in E
    BY InMentions DEF Only
  <2> QED
    BY <2>1, <2>2
<1>4. /\ IsFiniteSet(Mentions(s, Only(L, D))) /\ Weight(s, Only(L, D)) \in Nat
      /\ IsFiniteSet(Mentions(s, Only(L, E))) /\ Weight(s, Only(L, E)) \in Nat
  BY <1>1, MentionsFinite
<1>5. ASSUME NEW A, NEW B, IsFiniteSet(A), IsFiniteSet(B), A \cap B = {}
      PROVE  Cardinality(A \cup B) = Cardinality(A) + Cardinality(B)
  <2>1. Cardinality(A \cap B) = 0
    BY <1>5, FS_EmptySet
  <2>2. Cardinality(A \cup B) = Cardinality(A) + Cardinality(B) - Cardinality(A \cap B)
    BY <1>5, FS_Union
  <2>3. Cardinality(A) \in Nat /\ Cardinality(B) \in Nat
    BY <1>5, FS_CardinalityType
  <2> QED
    BY <2>1, <2>2, <2>3
<1>6. Cardinality(Mentions(s, L)) =
        Cardinality(Mentions(s, Only(L, D))) + Cardinality(Mentions(s, Only(L, E)))
  BY <1>2, <1>3, <1>4, <1>5
<1> QED
  BY <1>1, <1>6 DEF Weight

(* One list counts as often as it names the source.                        *)
LEMMA OneList ==
  ASSUME NEW s, NEW L, IsLists(L), NEW k, DOMAIN L = {k}
  PROVE  Weight(s, L) = Times(s, L[k])
<1> DEFINE D == {i \in DOMAIN L[k] : L[k][i] = s}
           f == [i \in D |-> <<k, i>>]
<1>1. L[k] \in Seq(Source)
  BY DEF IsLists
<1>2. \A x : x \in Mentions(s, L) <=> \E i \in D : x = <<k, i>>
  BY InMentions
<1>3. f \in Surjection(D, Mentions(s, L))
  BY <1>2 DEF Surjection
<1>4. f \in Injection(D, Mentions(s, L))
  BY <1>2 DEF Injection, IsInjective
<1>5. IsFiniteSet(D)
  BY <1>1, TimesCount
<1> QED
  BY <1>1, <1>3, <1>4, <1>5, FS_Surjection DEF Weight, Times

(* The same lists under other keys count the same.                         *)
LEMMA Rekeyed ==
  ASSUME NEW s, NEW L, NEW M, IsLists(L), IsLists(M),
         NEW f \in Injection(DOMAIN L, DOMAIN M), \A k \in DOMAIN L : L[k] = M[f[k]]
  PROVE  Weight(s, L) =< Weight(s, M)
<1> DEFINE g == [x \in Mentions(s, L) |-> <<f[x[1]], x[2]>>]
<1>1. /\ \A k \in DOMAIN L : f[k] \in DOMAIN M
      /\ \A j, k \in DOMAIN L : f[j] = f[k] => j = k
  BY DEF Injection, IsInjective
<1>2. ASSUME NEW x \in Mentions(s, L)
      PROVE  x[1] \in DOMAIN L /\ x = <<x[1], x[2]>> /\ <<f[x[1]], x[2]>> \in Mentions(s, M)
  <2>0. PICK k \in DOMAIN L : \E i \in DOMAIN L[k] : x = <<k, i>> /\ L[k][i] = s
    BY InMentions
  <2>1. PICK i \in DOMAIN L[k] : x = <<k, i>> /\ L[k][i] = s
    BY <2>0
  <2>2. f[k] \in DOMAIN M /\ i \in DOMAIN M[f[k]] /\ M[f[k]][i] = s
    BY <1>1, <2>1
  <2>3. <<f[k], i>> \in Mentions(s, M)
    BY <2>2, InMentions
  <2> QED
    BY <2>1, <2>3
<1>3. g \in [Mentions(s, L) -> Mentions(s, M)]
  BY <1>2
<1>4. \A x, y \in Mentions(s, L) : g[x] = g[y] => x = y
  <2> SUFFICES ASSUME NEW x \in Mentions(s, L), NEW y \in Mentions(s, L), g[x] = g[y] PROVE x = y
    OBVIOUS
  <2>1. f[x[1]] = f[y[1]] /\ x[2] = y[2]
    OBVIOUS
  <2>2. x[1] = y[1]
    BY <1>1, <1>2, <2>1
  <2> QED
    BY <1>2, <2>1, <2>2
<1> HIDE DEF g
<1>5. g \in Injection(Mentions(s, L), Mentions(s, M))
  BY <1>3, <1>4 DEF Injection, IsInjective
<1>6. IsFiniteSet(Mentions(s, M))
  BY MentionsFinite
<1> QED
  BY <1>5, <1>6, FS_Injection DEF Weight

(* A list less.                                                            *)
LEMMA Without ==
  ASSUME NEW s, NEW L, IsLists(L), NEW k \in DOMAIN L
  PROVE  /\ IsLists(Only(L, DOMAIN L \ {k}))
         /\ Weight(s, L) = Weight(s, Only(L, DOMAIN L \ {k})) + Times(s, L[k])
<1>1. /\ IsLists(Only(L, DOMAIN L \ {k})) /\ IsLists(Only(L, {k}))
      /\ Weight(s, L) = Weight(s, Only(L, DOMAIN L \ {k})) + Weight(s, Only(L, {k}))
  BY Groups
<1>2. Weight(s, Only(L, {k})) = Times(s, L[k])
  BY <1>1, OneList DEF Only
<1> QED
  BY <1>1, <1>2

LEMMA Covered ==
  ASSUME NEW s, NEW L, NEW M, IsLists(L), IsLists(M),
         NEW f \in Surjection(DOMAIN L, DOMAIN M), \A k \in DOMAIN L : L[k] = M[f[k]]
  PROVE  Weight(s, M) =< Weight(s, L)
<1> DEFINE g == [x \in Mentions(s, L) |-> <<f[x[1]], x[2]>>]
<1>1. /\ \A k \in DOMAIN L : f[k] \in DOMAIN M
      /\ \A j \in DOMAIN M : \E k \in DOMAIN L : f[k] = j
  BY DEF Surjection
<1>2. \A x \in Mentions(s, L) : g[x] \in Mentions(s, M)
  <2> SUFFICES ASSUME NEW x \in Mentions(s, L) PROVE <<f[x[1]], x[2]>> \in Mentions(s, M)
    OBVIOUS
  <2>1. PICK k \in DOMAIN L : \E i \in DOMAIN L[k] : x = <<k, i>> /\ L[k][i] = s
    BY InMentions
  <2>2. PICK i \in DOMAIN L[k] : x = <<k, i>> /\ L[k][i] = s
    BY <2>1
  <2>3. f[k] \in DOMAIN M /\ i \in DOMAIN M[f[k]] /\ M[f[k]][i] = s
    BY <1>1, <2>2
  <2>4. <<f[k], i>> \in Mentions(s, M)
    BY <2>3, InMentions
  <2> QED
    BY <2>2, <2>4
<1>3. \A y \in Mentions(s, M) : \E x \in Mentions(s, L) : g[x] = y
  <2> SUFFICES ASSUME NEW y \in Mentions(s, M) PROVE \E x \in Mentions(s, L) : g[x] = y
    OBVIOUS
  <2>1. PICK j \in DOMAIN M : \E i \in DOMAIN M[j] : y = <<j, i>> /\ M[j][i] = s
    BY InMentions
  <2>2. PICK i \in DOMAIN M[j] : y = <<j, i>> /\ M[j][i] = s
    BY <2>1
  <2>3. PICK k \in DOMAIN L : f[k] = j
    BY <1>1
  <2>4. i \in DOMAIN L[k] /\ L[k][i] = s
    BY <2>2, <2>3
  <2>5. <<k, i>> \in Mentions(s, L)
    BY <2>4, InMentions
  <2>6. g[<<k, i>>] = <<j, i>>
    BY <2>3, <2>5
  <2> QED
    BY <2>2, <2>5, <2>6
<1>4. DOMAIN g = Mentions(s, L)
  OBVIOUS
<1> HIDE DEF g
<1>5. g \in Surjection(Mentions(s, L), Mentions(s, M))
  <2>1. g \in [Mentions(s, L) -> Mentions(s, M)]
    <3>1. g = [x \in Mentions(s, L) |-> g[x]]
      BY DEF g
    <3> QED
      BY <1>2, <3>1
  <2> QED
    BY <1>3, <2>1 DEF Surjection
<1>6. IsFiniteSet(Mentions(s, L))
  BY MentionsFinite
<1> QED
  BY <1>5, <1>6, FS_Surjection DEF Weight

LEMMA Same ==
  ASSUME NEW s, NEW L, NEW M, IsLists(L), IsLists(M),
         NEW f \in Bijection(DOMAIN L, DOMAIN M), \A k \in DOMAIN L : L[k] = M[f[k]]
  PROVE  Weight(s, L) = Weight(s, M)
<1>1. f \in Injection(DOMAIN L, DOMAIN M) /\ f \in Surjection(DOMAIN L, DOMAIN M)
  BY DEF Bijection
<1>2. Weight(s, L) =< Weight(s, M)
  BY <1>1, Rekeyed
<1>3. Weight(s, M) =< Weight(s, L)
  BY <1>1, Covered
<1>4. Weight(s, L) \in Nat /\ Weight(s, M) \in Nat
  BY MentionsFinite
<1> QED
  BY <1>2, <1>3, <1>4

(* A list more, or another in its place.                                   *)
Extends(M, L, k) ==
    /\ IsLists(L) /\ IsLists(M) /\ k \notin DOMAIN L
    /\ DOMAIN M = DOMAIN L \cup {k} /\ \A x \in DOMAIN L : M[x] = L[x]

LEMMA Added ==
  ASSUME NEW s, NEW L, NEW M, NEW k, Extends(M, L, k)
  PROVE  Weight(s, M) = Weight(s, L) + Times(s, M[k])
<1>1. Only(M, DOMAIN M \ {k}) = L
  <2>1. DOMAIN M \ {k} = DOMAIN L
    BY DEF Extends
  <2>2. L = [x \in DOMAIN L |-> L[x]]
    BY DEF IsLists, Extends
  <2> QED
    BY <2>1, <2>2 DEF Only, Extends
<1>2. k \in DOMAIN M /\ IsLists(M)
  BY DEF Extends
<1>3. Weight(s, M) = Weight(s, Only(M, DOMAIN M \ {k})) + Times(s, M[k])
  BY <1>2, Without
<1> QED
  BY <1>1, <1>3

LEMMA Changed ==
  ASSUME NEW s, NEW L, IsLists(L), NEW k \in DOMAIN L, NEW l \in Seq(Source)
  PROVE  /\ IsLists([L EXCEPT ![k] = l]) /\ Times(s, L[k]) \in Nat
         /\ Weight(s, [L EXCEPT ![k] = l]) + Times(s, L[k]) = Weight(s, L) + Times(s, l)
<1>0. PICK R, M : R = Only(L, DOMAIN L \ {k}) /\ M = [L EXCEPT ![k] = l]
  OBVIOUS
<1>1. IsLists(R) /\ Weight(s, L) = Weight(s, R) + Times(s, L[k])
  BY <1>0, Without
<1>2. DOMAIN R = DOMAIN L \ {k} /\ \A x \in DOMAIN R : R[x] = L[x]
  BY <1>0 DEF Only
<1>3. DOMAIN M = DOMAIN R \cup {k} /\ M[k] = l /\ \A x \in DOMAIN R : M[x] = R[x]
  BY <1>0, <1>2 DEF IsLists
<1>4. k \notin DOMAIN R /\ IsLists(M)
  BY <1>0, <1>2 DEF IsLists
<1>5. Weight(s, M) = Weight(s, R) + Times(s, M[k])
  <2>1. IsLists(R) /\ IsLists(M) /\ k \notin DOMAIN R
    BY <1>1, <1>4
  <2>2. DOMAIN M = DOMAIN R \cup {k} /\ \A x \in DOMAIN R : M[x] = R[x]
    BY <1>3
  <2>3. Extends(M, R, k)
    BY <2>1, <2>2 DEF Extends
  <2> QED
    BY <2>3, Added
<1>6. Times(s, L[k]) \in Nat /\ Times(s, l) \in Nat /\ Weight(s, R) \in Nat
  <2>1. L[k] \in Seq(Source)
    BY DEF IsLists
  <2> QED
    BY <1>1, <2>1, TimesCount, MentionsFinite
<1> QED
  BY <1>0, <1>1, <1>3, <1>4, <1>5, <1>6

LEMMA Fewer ==
  ASSUME NEW s, NEW L, IsLists(L), NEW D, D \subseteq DOMAIN L
  PROVE  /\ IsLists(Only(L, D)) /\ IsLists(Only(L, DOMAIN L \ D))
         /\ Weight(s, L) = Weight(s, Only(L, D)) + Weight(s, Only(L, DOMAIN L \ D))
         /\ Weight(s, Only(L, D)) \in Nat /\ Weight(s, Only(L, DOMAIN L \ D)) \in Nat
         /\ Weight(s, Only(L, D)) =< Weight(s, L)
<1>1. DOMAIN L = D \cup (DOMAIN L \ D) /\ D \cap (DOMAIN L \ D) = {}
  OBVIOUS
<1>2. /\ IsLists(Only(L, D)) /\ IsLists(Only(L, DOMAIN L \ D))
      /\ Weight(s, L) = Weight(s, Only(L, D)) + Weight(s, Only(L, DOMAIN L \ D))
  BY <1>1, Groups
<1>3. Weight(s, Only(L, D)) \in Nat /\ Weight(s, Only(L, DOMAIN L \ D)) \in Nat
  BY <1>2, MentionsFinite
<1> QED
  BY <1>2, <1>3

(* One list, element by element.                                           *)
LEMMA TimesTail ==
  ASSUME NEW s, NEW l \in Seq(Source), l # <<>>
  PROVE  Times(s, l) = Times(s, Tail(l)) + (IF Head(l) = s THEN 1 ELSE 0)
<1> DEFINE D == {i \in DOMAIN l : l[i] = s}
           E == {i \in DOMAIN Tail(l) : Tail(l)[i] = s}
           f == [i \in E |-> i + 1]
<1>1. /\ Tail(l) \in Seq(Source) /\ Len(l) \in Nat /\ Len(Tail(l)) = Len(l) - 1
      /\ DOMAIN l = 1 .. Len(l) /\ DOMAIN Tail(l) = 1 .. Len(l) - 1
      /\ \A i \in 1 .. Len(l) - 1 : Tail(l)[i] = l[i + 1]
      /\ Head(l) = l[1] /\ 1 \in DOMAIN l
  OBVIOUS
<1>2. IsFiniteSet(D) /\ IsFiniteSet(E)
  BY <1>1, TimesCount
<1>3. \A i \in E : i \in Nat /\ i + 1 \in D \ {1}
  BY <1>1
<1>4. \A j \in D \ {1} : j - 1 \in E /\ j = (j - 1) + 1
  BY <1>1
<1>5. f \in Surjection(E, D \ {1})
  <2>1. f \in [E -> D \ {1}]
    BY <1>3
  <2>2. \A j \in D \ {1} : \E i \in E : f[i] = j
    BY <1>4
  <2> QED
    BY <2>1, <2>2 DEF Surjection
<1>6. f \in Injection(E, D \ {1})
  BY <1>3 DEF Injection, IsInjective
<1> HIDE DEF D, E, f
<1>7. Cardinality(E) = Cardinality(D \ {1}) /\ Cardinality(E) \in Nat
  BY <1>2, <1>5, <1>6, FS_Surjection, FS_CardinalityType
<1> USE DEF D, E
<1>8. Cardinality(D) = Cardinality(D \ {1}) + (IF 1 \in D THEN 1 ELSE 0)
  <2>1. D \ {1} = D \/ 1 \in D
    OBVIOUS
  <2>2. Cardinality(D \ {1}) = IF 1 \in D THEN Cardinality(D) - 1 ELSE Cardinality(D)
    BY <1>2, FS_RemoveElement
  <2>3. Cardinality(D) \in Nat
    BY <1>2, FS_CardinalityType
  <2> QED
    BY <2>2, <2>3
<1>9. 1 \in D <=> Head(l) = s
  BY <1>1
<1> QED
  BY <1>7, <1>8, <1>9 DEF Times

LEMMA TimesShort ==
  ASSUME NEW s
  PROVE  Times(s, <<>>) = 0 /\ \A x \in Source : Times(s, <<x>>) = IF x = s THEN 1 ELSE 0
<1>1. <<>> \in Seq(Source) /\ Times(s, <<>>) = 0
  <2>1. {i \in DOMAIN <<>> : <<>>[i] = s} = {}
    OBVIOUS
  <2> QED
    BY <2>1, FS_EmptySet DEF Times
<1>2. ASSUME NEW x \in Source
      PROVE  Times(s, <<x>>) = IF x = s THEN 1 ELSE 0
  <2>1. <<x>> \in Seq(Source) /\ <<x>> # <<>> /\ Tail(<<x>>) = <<>> /\ Head(<<x>>) = x
    OBVIOUS
  <2>2. Times(s, <<x>>) = Times(s, Tail(<<x>>)) + (IF Head(<<x>>) = s THEN 1 ELSE 0)
    BY <2>1, TimesTail
  <2>3. Times(s, <<x>>) = Times(s, <<>>) + (IF x = s THEN 1 ELSE 0)
    BY <2>1, <2>2
  <2> QED
    BY <1>1, <2>3
<1> QED
  BY <1>1, <1>2

(* Lists in a row.                                                         *)
Rows == Seq(Seq(Source))

LEMMA Row ==
  ASSUME NEW F \in Rows
  PROVE  IsLists(F) /\ DOMAIN F = 1 .. Len(F) /\ Len(F) \in Nat
<1>1. DOMAIN F = 1 .. Len(F) /\ F \in [DOMAIN F -> Seq(Source)]
  BY DEF Rows
<1>2. Len(F) \in Nat
  BY DEF Rows
<1>3. IsFiniteSet(1 .. Len(F))
  BY <1>2, FS_Interval
<1> QED
  BY <1>1, <1>2, <1>3 DEF IsLists

LEMMA RowLonger ==
  ASSUME NEW s, NEW F \in Rows, NEW l \in Seq(Source)
  PROVE  Weight(s, Append(F, l)) = Weight(s, F) + Times(s, l)
<1>1. IsLists(F) /\ DOMAIN F = 1 .. Len(F) /\ Len(F) \in Nat
  BY Row
<1>0. PICK k : k = Len(F) + 1
  OBVIOUS
<1>2. k \notin DOMAIN F /\ DOMAIN F \cup {k} = 1 .. k
  BY <1>0, <1>1
<1>3. PICK A \in Rows : /\ A = Append(F, l) /\ Len(A) = k
                       /\ \A x \in 1 .. k : A[x] = IF x = k THEN l ELSE F[x]
  <2>1. Append(F, l) \in Rows /\ Len(Append(F, l)) = Len(F) + 1
    BY DEF Rows
  <2>2. \A x \in 1 .. Len(F) + 1 : Append(F, l)[x] = IF x = Len(F) + 1 THEN l ELSE F[x]
    BY DEF Rows
  <2> QED
    BY <1>0, <2>1, <2>2
<1>4. IsLists(A) /\ DOMAIN A = DOMAIN F \cup {k} /\ A[k] = l /\ \A x \in DOMAIN F : A[x] = F[x]
  <2>1. IsLists(A) /\ DOMAIN A = 1 .. k
    BY <1>3, Row
  <2> QED
    BY <1>0, <1>1, <1>2, <1>3, <2>1
<1>5. k \notin DOMAIN F
  BY <1>2
<1>6. Weight(s, A) = Weight(s, F) + Times(s, A[k])
  <2>1. Extends(A, F, k)
    BY <1>1, <1>4, <1>5 DEF Extends
  <2> QED
    BY <2>1, Added
<1> QED
  BY <1>3, <1>4, <1>6

LEMMA RowShorter ==
  ASSUME NEW s, NEW F \in Rows, NEW i \in DOMAIN F,
         NEW G \in Rows, Len(G) = Len(F) - 1,
         \A j \in 1 .. Len(F) - 1 : G[j] = F[IF j < i THEN j ELSE j + 1]
  PROVE  Weight(s, F) = Weight(s, G) + Times(s, F[i])
<1> DEFINE D == DOMAIN F \ {i}
           f == [j \in DOMAIN G |-> IF j < i THEN j ELSE j + 1]
           R == Only(F, D)
<1>1. /\ IsLists(F) /\ IsLists(G) /\ Len(F) \in Nat /\ DOMAIN F = 1 .. Len(F)
      /\ DOMAIN G = 1 .. Len(F) - 1 /\ i \in 1 .. Len(F)
  BY Row
<1>2. IsLists(R) /\ Weight(s, F) = Weight(s, R) + Times(s, F[i])
  BY <1>1, Without
<1>3. DOMAIN R = D
  BY DEF Only
<1>4. \A j \in DOMAIN G : f[j] \in D /\ f[j] = (IF j < i THEN j ELSE j + 1)
  BY <1>1
<1>5. \A x \in D : \E j \in DOMAIN G : f[j] = x
  <2> SUFFICES ASSUME NEW x \in D PROVE \E j \in DOMAIN G : f[j] = x
    OBVIOUS
  <2>1. CASE x < i
    <3>1. x \in DOMAIN G /\ f[x] = x
      BY <1>1, <1>4, <2>1
    <3> QED
      BY <3>1
  <2>2. CASE ~ (x < i)
    <3>1. x - 1 \in DOMAIN G /\ ~ (x - 1 < i) /\ (x - 1) + 1 = x
      BY <1>1, <2>2
    <3>2. f[x - 1] = x
      BY <1>4, <3>1
    <3> QED
      BY <3>1, <3>2
  <2> QED
    BY <2>1, <2>2
<1>7. f = [j \in DOMAIN G |-> f[j]]
  OBVIOUS
<1> HIDE DEF f
<1>6. \A j, k \in DOMAIN G : f[j] = f[k] => j = k
  <2> SUFFICES ASSUME NEW j \in DOMAIN G, NEW k \in DOMAIN G, f[j] = f[k] PROVE j = k
    OBVIOUS
  <2>1. j \in Int /\ k \in Int /\ i \in Int
    BY <1>1
  <2>2. (IF j < i THEN j ELSE j + 1) = (IF k < i THEN k ELSE k + 1)
    BY <1>4
  <2> QED
    BY <2>1, <2>2
<1>8. f \in Bijection(DOMAIN G, DOMAIN R)
  <2>1. f \in [DOMAIN G -> D]
    BY <1>4, <1>7
  <2> QED
    BY <1>3, <1>5, <1>6, <2>1 DEF Bijection, Injection, Surjection, IsInjective
<1>9. \A j \in DOMAIN G : G[j] = R[f[j]]
  BY <1>1, <1>4 DEF Only
<1>10. Weight(s, G) = Weight(s, R)
  BY <1>1, <1>2, <1>8, <1>9, Same
<1> QED
  BY <1>2, <1>10

LEMMA RowTail ==
  ASSUME NEW s, NEW F \in Rows, F # <<>>
  PROVE  Weight(s, F) = Weight(s, Tail(F)) + Times(s, F[1])
<1>1. Tail(F) \in Rows /\ Len(Tail(F)) = Len(F) - 1 /\ 1 \in DOMAIN F
  BY DEF Rows
<1>2. \A j \in 1 .. Len(F) - 1 : Tail(F)[j] = F[IF j < 1 THEN j ELSE j + 1]
  BY DEF Rows
<1> QED
  BY <1>1, <1>2, RowShorter

LEMMA RowsJoined ==
  ASSUME NEW s, NEW F \in Rows, NEW G \in Rows
  PROVE  Weight(s, F \o G) = Weight(s, F) + Weight(s, G)
<1> DEFINE H == F \o G
           n == Len(F)
           E == n + 1 .. n + Len(G)
           f == [j \in DOMAIN G |-> n + j]
<1>1. /\ n \in Nat /\ Len(G) \in Nat /\ DOMAIN F = 1 .. n /\ DOMAIN G = 1 .. Len(G)
      /\ IsLists(F) /\ IsLists(G)
  BY Row
<1>2. /\ H \in Rows /\ Len(H) = n + Len(G)
      /\ \A j \in 1 .. n : H[j] = F[j]
  BY DEF Rows
<1>3. \A j \in 1 .. Len(G) : H[n + j] = G[j]
  <2>1. \A j \in n + 1 .. n + Len(G) : H[j] = G[j - n]
    BY DEF Rows
  <2>2. \A j \in 1 .. Len(G) : n + j \in n + 1 .. n + Len(G) /\ (n + j) - n = j
    BY <1>1
  <2> QED
    BY <2>1, <2>2
<1> HIDE DEF H, n
<1>4. DOMAIN H = DOMAIN F \cup E /\ DOMAIN F \cap E = {} /\ IsLists(H)
  <2>1. DOMAIN H = 1 .. n + Len(G) /\ IsLists(H)
    BY <1>2, Row
  <2> QED
    BY <1>1, <2>1
<1>5. /\ IsLists(Only(H, E))
      /\ Weight(s, H) = Weight(s, Only(H, DOMAIN F)) + Weight(s, Only(H, E))
  <2>1. ASSUME NEW A, NEW B, DOMAIN H = A \cup B, A \cap B = {}
        PROVE  /\ IsLists(Only(H, B))
               /\ Weight(s, H) = Weight(s, Only(H, A)) + Weight(s, Only(H, B))
    BY <1>4, <2>1, Groups
  <2> QED
    BY <1>4, <2>1
<1>6. Only(H, DOMAIN F) = F
  <2>1. F = [j \in DOMAIN F |-> F[j]]
    BY <1>1 DEF IsLists
  <2> QED
    BY <1>1, <1>2, <2>1 DEF Only
<1>7. Weight(s, G) = Weight(s, Only(H, E))
  <2>1. DOMAIN Only(H, E) = E
    BY DEF Only
  <2>2. \A j \in DOMAIN G : f[j] \in E /\ f[j] = n + j
    BY <1>1
  <2>3. \A x \in E : x - n \in DOMAIN G /\ f[x - n] = x
    BY <1>1
  <2>4. \A j, k \in DOMAIN G : f[j] = f[k] => j = k
    BY <1>1
  <2>5. f = [j \in DOMAIN G |-> f[j]]
    OBVIOUS
  <2> HIDE DEF f, E
  <2>6. f \in [DOMAIN G -> E]
    BY <2>2, <2>5
  <2>7. f \in Bijection(DOMAIN G, DOMAIN Only(H, E))
    BY <2>1, <2>3, <2>4, <2>6 DEF Bijection, Injection, Surjection, IsInjective
  <2>8. \A j \in DOMAIN G : G[j] = Only(H, E)[f[j]]
    BY <1>1, <1>3, <2>2 DEF Only
  <2> QED
    BY <1>1, <1>5, <2>7, <2>8, Same
<1> QED
  BY <1>5, <1>6, <1>7 DEF H

-----------------------------------------------------------------------------
(***************************************************************************)
(* The inductive invariant.                                                *)
(*                                                                         *)
(* Held: nothing is in the broker, in the worker or in a loop that was     *)
(* never sent, and what runs or is suspended was started.                  *)
(*                                                                         *)
(* Listed: every message names only what was asked for.  The messages of   *)
(* collect_all_feeds name a source together no more often than it was      *)
(* asked for, however often they are delivered; the others name one source *)
(* or none.  A run of collect_all_feeds has a rest of its list left, any   *)
(* other run its whole list.                                               *)
(*                                                                         *)
(* Balanced: what was served or given up, and what is still to do anywhere *)
(* in the system, is no more than was asked for, once for itself and once  *)
(* for each fault.                                                         *)
(***************************************************************************)
Sent == 1 .. Len(sent)

Held ==
    /\ queue \in Seq(Sent) /\ reserved \in Seq(Sent)
    /\ started \subseteq Sent
    /\ \A p \in Proc : proc[p] = Idle \/ proc[p].msg \in started
    /\ \A p \in Proc : loop[p] \subseteq started

Typed == TypeOK /\ Held

AllMessages == {m \in Sent : sent[m].kind = "all"}
RestOf(l, whole) == \A s \in Source : Times(s, l) =< Times(s, whole)

Named ==
    /\ \A s \in Source : Weight(s, Lists(AllMessages)) =< asked[s]
    /\ \A m \in Sent \ AllMessages : \A s \in Source :
          Times(s, sent[m].list) =< 1 /\ Times(s, sent[m].list) =< asked[s]
RunOK(p) == proc[p] # Idle =>
    IF Running(p).kind = "all" THEN RestOf(proc[p].todo, Running(p).list)
                               ELSE proc[p].todo = Running(p).list

Listed == Named /\ \A p \in Proc : RunOK(p)

Waiting(q) == [k \in DOMAIN q |-> sent[q[k]].list]
Todos      == [p \in Proc |-> proc[p].todo]
Stays      == {run \in Proc \X Message : run[2] \in loop[run[1]]}
Suspended  == [run \in Stays |-> sent[run[2]].list]

ToDo(s) ==
    Weight(s, Waiting(queue)) + Weight(s, Waiting(reserved)) + Weight(s, Todos)
      + Weight(s, Suspended) + Weight(s, fallback)

Balanced ==
    \A s \in Source : served[s] + refused[s] + ToDo(s) =< asked[s] * (1 + faults)

IInv == Typed /\ Listed /\ Balanced

-----------------------------------------------------------------------------
(***************************************************************************)
(* Sequences.                                                              *)
(***************************************************************************)
LEMMA Removing ==
  ASSUME NEW S, NEW q \in Seq(S), NEW i \in DOMAIN q
  PROVE  /\ RemoveAt(q, i) \in Seq(S) /\ Len(RemoveAt(q, i)) = Len(q) - 1
         /\ \A j \in 1 .. Len(q) - 1 :
               RemoveAt(q, i)[j] = q[IF j < i THEN j ELSE j + 1]
<1> DEFINE u == SubSeq(q, 1, i - 1)
           v == SubSeq(q, i + 1, Len(q))
<1>1. Len(q) \in Nat /\ i \in 1 .. Len(q) /\ \A j \in 1 .. Len(q) : q[j] \in S
  OBVIOUS
<1>2. u \in Seq(S) /\ Len(u) = i - 1 /\ \A j \in 1 .. i - 1 : u[j] = q[j]
  <2>1. \A j \in 1 .. i - 1 : j \in 1 .. Len(q)
    BY <1>1
  <2> QED
    BY <1>1, <2>1
<1>3. v \in Seq(S) /\ Len(v) = Len(q) - i /\ \A j \in 1 .. Len(q) - i : v[j] = q[i + j]
  BY <1>1
<1>4. RemoveAt(q, i) = u \o v
  BY DEF RemoveAt
<1> HIDE DEF u, v
<1>5. u \o v \in Seq(S) /\ Len(u \o v) = Len(q) - 1
  BY <1>1, <1>2, <1>3
<1>6. ASSUME NEW j \in 1 .. Len(q) - 1
      PROVE  (u \o v)[j] = q[IF j < i THEN j ELSE j + 1]
  <2>1. CASE j < i
    BY <1>1, <1>2, <1>3, <2>1
  <2>2. CASE ~ (j < i)
    <3>0. j \in Int /\ j > Len(u) /\ j =< Len(u) + Len(v)
      BY <1>1, <1>2, <1>3, <2>2
    <3>1. (u \o v)[j] = v[j - (i - 1)]
      <4>1. \A w, z \in Seq(S) : \A k \in Len(w) + 1 .. Len(w) + Len(z) : (w \o z)[k] = z[k - Len(w)]
        OBVIOUS
      <4>2. u \in Seq(S) /\ v \in Seq(S) /\ j \in Len(u) + 1 .. Len(u) + Len(v)
        BY <1>1, <1>2, <1>3, <3>0
      <4>3. (u \o v)[j] = v[j - Len(u)]
        BY <4>1, <4>2
      <4> QED
        BY <4>3, <1>2
    <3>2. v[j - (i - 1)] = q[j + 1]
      BY <1>1, <1>3, <2>2
    <3> QED
      BY <2>2, <3>1, <3>2
  <2> QED
    BY <2>1, <2>2
<1> QED
  BY <1>4, <1>5, <1>6

LEMMA Appending ==
  ASSUME NEW S, NEW q \in Seq(S), NEW m \in S
  PROVE  /\ Append(q, m) \in Seq(S) /\ Len(Append(q, m)) = Len(q) + 1 /\ Len(q) \in Nat
         /\ \A k \in 1 .. Len(q) + 1 : Append(q, m)[k] = IF k = Len(q) + 1 THEN m ELSE q[k]
OBVIOUS

LEMMA Tailing ==
  ASSUME NEW S, NEW q \in Seq(S), q # <<>>
  PROVE  /\ Tail(q) \in Seq(S) /\ Len(Tail(q)) = Len(q) - 1
         /\ \A j \in 1 .. Len(q) - 1 : Tail(q)[j] = q[j + 1]
OBVIOUS

LEMMA Joining ==
  ASSUME NEW S, NEW q \in Seq(S), NEW r \in Seq(S)
  PROVE  /\ q \o r \in Seq(S) /\ Len(q \o r) = Len(q) + Len(r)
         /\ Len(q) \in Nat /\ Len(r) \in Nat
         /\ \A k \in 1 .. Len(q) : (q \o r)[k] = q[k]
         /\ \A k \in Len(q) + 1 .. Len(q) + Len(r) : (q \o r)[k] = r[k - Len(q)]
OBVIOUS

LEMMA Alike ==
  ASSUME NEW S, NEW q \in Seq(S), NEW r \in Seq(S), Len(q) = Len(r),
         \A k \in 1 .. Len(q) : q[k] = r[k]
  PROVE  q = r
OBVIOUS

LEMMA Widening ==
  ASSUME NEW S, NEW T, S \subseteq T, NEW q \in Seq(S)
  PROVE  q \in Seq(T)
OBVIOUS

(***************************************************************************)
(* Types.                                                                  *)
(***************************************************************************)
LEMMA SourceMapTyped == SourceMap \in Seq(Source) /\ Never \in [Source -> Nat]
BY AsksAssumption DEF Never

LEMMA Counts ==
  ASSUME NEW f \in [Source -> Nat], NEW l \in Seq(Source)
  PROVE  Plus(f, l) \in [Source -> Nat]
<1>1. \A s \in Source : Times(s, l) \in Nat
  BY TimesCount
<1> QED
  BY <1>1 DEF Plus

LEMMA CountsAll ==
  ASSUME NEW f \in [Source -> Nat], NEW L, IsLists(L)
  PROVE  PlusAll(f, L) \in [Source -> Nat]
<1>1. \A s \in Source : Cardinality(Mentions(s, L)) \in Nat
  BY MentionsFinite DEF Weight
<1> QED
  BY <1>1 DEF PlusAll

LEMMA SentTyped ==
  ASSUME TypeOK
  PROVE  /\ Len(sent) \in Nat /\ Sent \subseteq Message
         /\ \A m \in Sent : sent[m] \in Body /\ sent[m].list \in Seq(Source)
         /\ IsFiniteSet(Message) /\ IsFiniteSet(Sent)
<1>1. Len(sent) \in Nat /\ Len(sent) =< MaxSent /\ sent \in Seq(Body)
  BY DEF TypeOK
<1>2. Sent \subseteq Message
  BY <1>1, BoundsAssumption DEF Sent, Message
<1>3. \A m \in Sent : sent[m] \in Body
  BY <1>1 DEF Sent
<1>4. \A b \in Body : b.list \in Seq(Source)
  BY DEF Body
<1>5. IsFiniteSet(Message) /\ IsFiniteSet(Sent)
  BY <1>1, FS_Interval, BoundsAssumption DEF Sent, Message
<1> QED
  BY <1>1, <1>2, <1>3, <1>4, <1>5

LEMMA ListsTyped ==
  ASSUME TypeOK, NEW ms, ms \subseteq Sent
  PROVE  IsLists(Lists(ms))
<1>1. IsFiniteSet(ms)
  BY SentTyped, FS_Subset
<1> QED
  BY <1>1, SentTyped DEF IsLists, Lists

LEMMA FallbackTyped ==
  ASSUME TypeOK
  PROVE  IsLists(fallback)
<1>1. fallback \in Seq(Seq(Source))
  BY DEF TypeOK
<1>2. IsFiniteSet(DOMAIN fallback)
  <2>1. DOMAIN fallback = 1 .. Len(fallback) /\ Len(fallback) \in Nat
    BY <1>1
  <2> QED
    BY <2>1, FS_Interval
<1> QED
  BY <1>1, <1>2 DEF IsLists

LEMMA Tailed ==
  ASSUME NEW S, NEW l \in Seq(S), l # <<>>
  PROVE  /\ Head(l) \in S /\ Tail(l) \in Seq(S) /\ Len(Tail(l)) = Len(l) - 1
         /\ 1 \in DOMAIN l /\ Head(l) = l[1]
OBVIOUS

(* A message is sent.                                                      *)
LEMMA Sending ==
  ASSUME Typed, NEW b \in Body, Send(b)
  PROVE  /\ sent' \in Seq(Body) /\ Len(sent') = Len(sent) + 1 /\ Len(sent') =< MaxSent
         /\ Sent \subseteq Sent' /\ queue' \in Seq(Sent')
         /\ \A m \in Sent : sent'[m] = sent[m]
<1>1. sent \in Seq(Body) /\ Len(sent) \in Nat /\ Len(sent) < MaxSent /\ MaxSent \in Nat
  BY BoundsAssumption DEF Typed, TypeOK, Send
<1>2. sent' = Append(sent, b) /\ queue' = Append(queue, Len(sent) + 1)
  BY DEF Send
<1>3. sent' \in Seq(Body) /\ Len(sent') = Len(sent) + 1 /\ Len(sent') =< MaxSent
  BY <1>1, <1>2
<1>4. Sent \subseteq Sent' /\ Len(sent) + 1 \in Sent'
  BY <1>1, <1>3 DEF Sent
<1>5. queue \in Seq(Sent)
  BY DEF Typed, Held
<1>6. queue \in Seq(Sent')
  BY <1>4, <1>5, Widening
<1>7. \A m \in Sent : sent'[m] = sent[m]
  BY <1>1, <1>2 DEF Sent
<1>8. queue' \in Seq(Sent')
  BY <1>2, <1>4, <1>6
<1> QED
  BY <1>3, <1>4, <1>7, <1>8

LEMMA Bodies ==
  /\ \A l \in Seq(Source) : All(l) \in Body
  /\ \A s \in Source : One(s) \in Body
  /\ Chore \in Body
<1>1. \A s \in Source : <<s>> \in Seq(Source)
  OBVIOUS
<1>2. <<>> \in Seq(Source)
  OBVIOUS
<1> QED
  BY <1>1, <1>2 DEF All, One, Chore, Body

LEMMA Occupied ==
  ASSUME NEW B, NEW C, B \subseteq C, C \subseteq Proc
  PROVE  /\ Cardinality(B) \in Nat /\ Cardinality(C) \in Nat
         /\ Cardinality(B) =< Cardinality(C) /\ Cardinality(C) =< Prefetch
<1>1. IsFiniteSet(B) /\ IsFiniteSet(C)
  BY ProcAssumption, FS_Subset
<1> QED
  BY <1>1, ProcAssumption, FS_Subset, FS_CardinalityType DEF Prefetch

LEMMA Occupying ==
  ASSUME NEW B, B \subseteq Proc, NEW p
  PROVE  Cardinality(B) \in Nat /\ Cardinality(B \cup {p}) \in Nat
         /\ Cardinality(B \cup {p}) =< Cardinality(B) + 1
<1>1. IsFiniteSet(B)
  BY ProcAssumption, FS_Subset
<1> QED
  BY <1>1, FS_AddElement, FS_CardinalityType

LEMMA RunningSent ==
  ASSUME Typed, NEW p \in Proc, proc[p] # Idle
  PROVE  /\ proc[p].msg \in Sent /\ proc[p].msg \in started /\ proc[p].msg \in Message
         /\ Running(p) = sent[proc[p].msg] /\ Running(p) \in Body
         /\ proc[p].todo \in Seq(Source)
<1>1. proc[p].msg \in started /\ started \subseteq Sent
  BY DEF Typed, Held
<1>2. proc[p].todo \in Seq(Source)
  BY DEF Typed, TypeOK
<1> QED
  BY <1>1, <1>2, SentTyped DEF Typed, Running

LEMMA TypedInit == Init => Typed
<1> SUFFICES ASSUME Init PROVE Typed
  OBVIOUS
<1>1. Busy = {}
  BY DEF Init, Busy
<1>2. Cardinality(Busy) = 0 /\ Prefetch \in Nat
  BY <1>1, FS_EmptySet, ProcAssumption, FS_CardinalityType DEF Prefetch
<1>3. proc \in [Proc -> [msg : Message \cup {0}, todo : Seq(Source)]]
  BY DEF Init, Idle
<1>4. TypeOK
  BY <1>2, <1>3, SourceMapTyped, BoundsAssumption DEF Init, TypeOK
<1>5. Held
  BY DEF Init, Held
<1> QED
  BY <1>4, <1>5 DEF Typed

(* What the API process and beat do.                                       *)
LEMMA TypedApi ==
  ASSUME Typed, PullFeeds \/ PullFallsBack \/ ApiRestarts \/ Beat
                \/ \E i \in DOMAIN fallback : RunCollectorsSync(i)
  PROVE  Typed'
<1> USE BoundsAssumption
<1> DEFINE Sends == /\ sent' \in Seq(Body) /\ Len(sent') =< MaxSent /\ Sent \subseteq Sent'
                    /\ queue' \in Seq(Sent') /\ Sent' \subseteq Message
           Bounded == /\ pulls' \in 0 .. MaxPulls /\ beats' \in 0 .. MaxBeats
                      /\ faults' \in 0 .. MaxFaults
           Counted == /\ asked' \in [Source -> Nat] /\ served' \in [Source -> Nat]
                      /\ refused' \in [Source -> Nat] /\ fallback' \in Seq(Seq(Source))
<1>1. ASSUME NEW b \in Body, Send(b)
      PROVE  Sends
  <2>1. /\ sent' \in Seq(Body) /\ Len(sent') =< MaxSent /\ Sent \subseteq Sent'
        /\ queue' \in Seq(Sent') /\ Len(sent') = Len(sent) + 1
    BY <1>1, Sending
  <2>2. Sent' \subseteq Message
    BY <2>1 DEF Sent, Message
  <2> QED
    BY <2>1, <2>2
<1>2. ASSUME UNCHANGED broker
      PROVE  Sends
  BY <1>2, SentTyped DEF Typed, TypeOK, Held, broker, Sent
<1>3. ASSUME Sends, Bounded, Counted, UNCHANGED <<worker, started, ended>>
      PROVE  Typed'
  <2>1. reserved' \in Seq(Sent')
    BY <1>3, Widening DEF Typed, Held, worker
  <2>2. Held'
    BY <1>3, <2>1 DEF Typed, Held, worker, Idle
  <2>3. queue' \in Seq(Message)
    BY <1>3, Widening
  <2>4. Busy' = Busy /\ Len(reserved') = Len(reserved)
    BY <1>3 DEF worker, Busy
  <2>5. Len(reserved') + Cardinality(Busy') =< Prefetch
    BY <2>4 DEF Typed, TypeOK
  <2>6. /\ reserved' \in Seq(Message) /\ started' \subseteq Message /\ ended' \subseteq started'
        /\ proc' \in [Proc -> [msg : Message \cup {0}, todo : Seq(Source)]]
        /\ loop' \in [Proc -> SUBSET Message] /\ token' \in BOOLEAN
    BY <1>3 DEF Typed, TypeOK, worker
  <2>7. TypeOK'
    BY <1>3, <2>3, <2>5, <2>6 DEF TypeOK, Message, Prefetch
  <2> QED
    BY <2>2, <2>7 DEF Typed
<1>5. /\ asked \in [Source -> Nat] /\ served \in [Source -> Nat] /\ refused \in [Source -> Nat]
      /\ fallback \in Seq(Seq(Source)) /\ pulls \in 0 .. MaxPulls /\ beats \in 0 .. MaxBeats
      /\ faults \in 0 .. MaxFaults
  BY DEF Typed, TypeOK
<1> DEFINE Others == UNCHANGED <<worker, started, ended>>
<1>6. CASE PullFeeds
  <2>1. PICK l \in Asks : Send(All(l)) /\ asked' = Plus(asked, l)
    BY <1>6 DEF PullFeeds
  <2>2. asked' \in [Source -> Nat]
    BY <1>5, <2>1, Counts, AsksAssumption
  <2>3. Bounded /\ Counted /\ Others
    BY <1>5, <1>6, <2>2 DEF PullFeeds
  <2> QED
    BY <1>1, <1>3, <2>1, <2>3, AsksAssumption, Bodies
<1>7. CASE Beat
  <2>1. asked' \in [Source -> Nat] /\ (Send(All(SourceMap)) \/ Send(Chore))
    BY <1>5, <1>7, Counts, SourceMapTyped DEF Beat
  <2>2. Bounded /\ Counted /\ Others
    BY <1>5, <1>7, <2>1 DEF Beat
  <2> QED
    BY <1>1, <1>3, <2>1, <2>2, SourceMapTyped, Bodies
<1>8. CASE PullFallsBack
  <2>1. PICK l \in Asks : fallback' = Append(fallback, l) /\ asked' = Plus(asked, l)
    BY <1>8 DEF PullFallsBack
  <2>2. asked' \in [Source -> Nat]
    BY <1>5, <2>1, Counts, AsksAssumption
  <2>3. fallback' \in Seq(Seq(Source))
    BY <1>5, <2>1, AsksAssumption
  <2>4. Bounded /\ Counted /\ Others /\ UNCHANGED broker
    BY <1>5, <1>8, <2>2, <2>3 DEF PullFallsBack
  <2> QED
    BY <1>2, <1>3, <2>4
<1>9. CASE \E i \in DOMAIN fallback : RunCollectorsSync(i)
  <2>1. PICK i \in DOMAIN fallback : RunCollectorsSync(i)
    BY <1>9
  <2>2. fallback[i] \in Seq(Source) /\ fallback[i] # <<>>
    BY <1>5, <2>1 DEF RunCollectorsSync
  <2>3. PICK h \in Source, t \in Seq(Source) : h = Head(fallback[i]) /\ t = Tail(fallback[i])
    BY <2>2, Tailed
  <2>4. served' \in [Source -> Nat]
    <3>1. served' = [served EXCEPT ![h] = @ + 1]
      BY <2>1, <2>3 DEF RunCollectorsSync
    <3> QED
      BY <1>5, <3>1
  <2>5. fallback' \in Seq(Seq(Source))
    <3>1. fallback' = [fallback EXCEPT ![i] = t]
      BY <2>1, <2>3 DEF RunCollectorsSync
    <3>2. \A S : \A q \in Seq(S) : \A x \in S : \A j \in DOMAIN q : [q EXCEPT ![j] = x] \in Seq(S)
      OBVIOUS
    <3> QED
      BY <1>5, <3>1, <3>2
  <2>6. Bounded /\ Counted /\ Others /\ UNCHANGED broker
    BY <1>5, <2>1, <2>4, <2>5 DEF RunCollectorsSync, bounds
  <2> QED
    BY <1>2, <1>3, <2>6
<1>10. CASE ApiRestarts
  <2>1. refused' \in [Source -> Nat]
    BY <1>5, <1>10, CountsAll, FallbackTyped DEF ApiRestarts, Typed
  <2>2. fallback' = [i \in DOMAIN fallback |-> <<>>]
    BY <1>10 DEF ApiRestarts
  <2>3. DOMAIN fallback = 1 .. Len(fallback) /\ Len(fallback) \in Nat /\ <<>> \in Seq(Source)
    BY <1>5
  <2>4. fallback' \in Seq(Seq(Source))
    BY <2>2, <2>3
  <2>5. Fault /\ UNCHANGED <<worker, broker, asked, served, started, ended, bounds>>
    BY <1>10 DEF ApiRestarts
  <2>6. faults' \in 0 .. MaxFaults
    BY <1>5, <2>5 DEF Fault
  <2>7. Bounded /\ Counted /\ Others /\ UNCHANGED broker
    BY <1>5, <2>1, <2>4, <2>5, <2>6 DEF bounds
  <2> QED
    BY <1>2, <1>3, <2>7
<1> QED
  BY <1>6, <1>7, <1>8, <1>9, <1>10

(* What the worker does, a send of collect_all_feeds apart.                *)
Job == [msg : Message \cup {0}, todo : Seq(Source)]

LEMMA TypedJob ==
  /\ Idle \in Job
  /\ \A m \in Message, l \in Seq(Source) : [msg |-> m, todo |-> l] \in Job
  /\ \A m \in Message, l \in Seq(Source) : [msg |-> m, todo |-> l] # Idle
<1>1. \A m \in Message : m # 0
  BY BoundsAssumption DEF Message
<1>2. <<>> \in Seq(Source)
  OBVIOUS
<1> QED
  BY <1>1, <1>2 DEF Idle, Job

LEMMA TypedRun ==
  ASSUME Typed, UNCHANGED <<sent, asked, fallback, pulls, beats>>,
         queue' \in Seq(Sent), reserved' \in Seq(Sent),
         proc' \in [Proc -> Job], \A p \in Proc : proc'[p] = Idle \/ proc'[p].msg \in started',
         loop' \in [Proc -> SUBSET started'], token' \in BOOLEAN,
         started' \subseteq Sent, ended' \subseteq started',
         served' \in [Source -> Nat], refused' \in [Source -> Nat],
         faults' = faults \/ Fault,
         Len(reserved') + Cardinality(Busy') =< Prefetch
  PROVE  Typed'
<1>1. Sent' = Sent /\ Sent \subseteq Message
  BY SentTyped DEF Sent, Typed
<1>2. Held'
  BY <1>1 DEF Held, Idle
<1>3. faults' \in 0 .. MaxFaults
  BY BoundsAssumption DEF Typed, TypeOK, Fault
<1>4. /\ queue' \in Seq(Message) /\ reserved' \in Seq(Message)
      /\ started' \subseteq Message /\ loop' \in [Proc -> SUBSET Message]
  BY <1>1, Widening
<1>5. /\ sent' \in Seq(Body) /\ Len(sent') =< MaxSent
      /\ fallback' \in Seq(Seq(Source)) /\ asked' \in [Source -> Nat]
      /\ pulls' \in 0 .. MaxPulls /\ beats' \in 0 .. MaxBeats
  BY DEF Typed, TypeOK
<1>6. TypeOK'
  BY <1>3, <1>4, <1>5 DEF TypeOK, Message, Prefetch, Job
<1> QED
  BY <1>2, <1>6 DEF Typed

(* The parts of Typed, one by one.                                         *)
LEMMA Parts ==
  ASSUME Typed
  PROVE  /\ sent \in Seq(Body) /\ Len(sent) =< MaxSent
         /\ queue \in Seq(Sent) /\ reserved \in Seq(Sent)
         /\ proc \in [Proc -> Job] /\ \A p \in Proc : proc[p] = Idle \/ proc[p].msg \in started
         /\ loop \in [Proc -> SUBSET started] /\ token \in BOOLEAN
         /\ started \subseteq Sent /\ ended \subseteq started
         /\ asked \in [Source -> Nat] /\ served \in [Source -> Nat] /\ refused \in [Source -> Nat]
         /\ fallback \in Seq(Seq(Source))
         /\ Len(reserved) + Cardinality(Busy) =< Prefetch
         /\ Busy \subseteq Proc /\ Cardinality(Busy) \in Nat /\ Prefetch \in Nat
         /\ Len(reserved) \in Nat
<1>1. Busy \subseteq Proc
  BY DEF Busy
<1>2. Cardinality(Busy) \in Nat /\ Prefetch \in Nat
  BY <1>1, ProcAssumption, FS_Subset, FS_CardinalityType DEF Prefetch
<1>3. loop \in [Proc -> SUBSET started]
  BY DEF Typed, TypeOK, Held
<1>4. Len(reserved) \in Nat
  BY DEF Typed, Held
<1> QED
  BY <1>1, <1>2, <1>3, <1>4 DEF Typed, TypeOK, Held, Job

LEMMA TypedLoops ==
  ASSUME Typed, NEW p \in Proc
  PROVE  /\ loop[p] \subseteq Sent /\ IsLists(Lists(loop[p]))
         /\ UNION {loop[q] : q \in Proc} \subseteq Sent
         /\ IsLists(Lists(UNION {loop[q] : q \in Proc}))
<1>1. \A q \in Proc : loop[q] \subseteq Sent
  BY DEF Typed, Held
<1>2. UNION {loop[q] : q \in Proc} \subseteq Sent
  BY <1>1
<1> QED
  BY <1>1, <1>2, ListsTyped DEF Typed

LEMMA TypedQueue ==
  ASSUME Typed, Take \/ Refill \/ VisibilityTimeout
  PROVE  Typed'
<1> USE Parts
<1>1. CASE Take
  <2>1. /\ queue # <<>> /\ Len(reserved) + Cardinality(Busy) < Prefetch
        /\ UNCHANGED <<sent, asked, fallback, pulls, beats, faults, proc, loop, token, served,
                       refused, started, ended>>
    BY <1>1 DEF Take, bounds, history
  <2>2. PICK m \in Sent, q \in Seq(Sent) : m = Head(queue) /\ q = Tail(queue)
    BY <2>1, Tailed
  <2>3. queue' = q /\ reserved' = Append(reserved, m)
    BY <1>1, <2>2 DEF Take
  <2>4. reserved' \in Seq(Sent) /\ Len(reserved') = Len(reserved) + 1
    BY <2>2, <2>3
  <2>5. Busy' = Busy
    BY <2>1 DEF Busy
  <2>6. Len(reserved') + Cardinality(Busy') =< Prefetch
    BY <2>1, <2>4, <2>5
  <2> QED
    BY <2>1, <2>2, <2>3, <2>4, <2>6, TypedRun
<1>2. CASE Refill
  <2>1. /\ UNCHANGED <<sent, queue, reserved, asked, fallback, pulls, beats, faults, proc, loop, served,
                       refused, started, ended>>
        /\ token' = TRUE
    BY <1>2 DEF Refill, bounds, history, broker
  <2>2. Busy' = Busy
    BY <2>1 DEF Busy
  <2> QED
    BY <2>1, <2>2, TypedRun
<1>3. CASE VisibilityTimeout
  <2>1. /\ UNCHANGED <<sent, reserved, asked, fallback, pulls, beats, proc, loop, token, served,
                       refused, started, ended>>
        /\ Fault
    BY <1>3 DEF VisibilityTimeout, bounds, history, worker
  <2>2. PICK m \in Range(reserved) \cup {proc[p].msg : p \in Busy} : queue' = Append(queue, m)
    BY <1>3 DEF VisibilityTimeout
  <2>3. m \in Sent
    BY <2>2, RunningSent DEF Range, Busy
  <2>4. queue' \in Seq(Sent)
    BY <2>2, <2>3
  <2>5. Busy' = Busy
    BY <2>1 DEF Busy
  <2> QED
    BY <2>1, <2>4, <2>5, TypedRun
<1> QED
  BY <1>1, <1>2, <1>3

LEMMA TypedFree ==
  ASSUME Typed, NEW p \in Proc, proc' = [proc EXCEPT ![p] = Idle], reserved' = reserved,
         started' = started
  PROVE  /\ proc' \in [Proc -> Job] /\ \A q \in Proc : proc'[q] = Idle \/ proc'[q].msg \in started'
         /\ Len(reserved') + Cardinality(Busy') =< Prefetch
         /\ Busy' \subseteq Busy
<1> USE Parts
<1>1. proc' \in [Proc -> Job] /\ \A q \in Proc : proc'[q] = Idle \/ proc'[q] = proc[q]
  BY TypedJob
<1>2. Busy' \subseteq Busy
  BY <1>1 DEF Busy
<1>3. Cardinality(Busy') \in Nat /\ Cardinality(Busy') =< Cardinality(Busy)
  BY <1>2, Occupied
<1>4. Len(reserved') + Cardinality(Busy') =< Prefetch
  BY <1>3
<1> QED
  BY <1>1, <1>2, <1>4

LEMMA TypedEnd ==
  ASSUME Typed, NEW p \in Proc,
         Return(p) \/ SoftLimit(p) \/ HardLimit(p) \/ ProcessLost(p)
  PROVE  Typed'
<1> USE Parts
<1>1. /\ proc[p] # Idle /\ proc' = [proc EXCEPT ![p] = Idle]
      /\ UNCHANGED <<sent, reserved, asked, fallback, pulls, beats, token, started>>
  BY DEF Return, SoftLimit, HardLimit, ProcessLost, Acknowledge, bounds, broker
<1>2. /\ proc' \in [Proc -> Job] /\ \A q \in Proc : proc'[q] = Idle \/ proc'[q].msg \in started'
      /\ Len(reserved') + Cardinality(Busy') =< Prefetch
  BY <1>1, TypedFree
<1>3. PICK m \in Sent : m = proc[p].msg /\ m \in started
  BY <1>1, RunningSent
<1>4. Running(p) = sent[m] /\ sent[m].list \in Seq(Source)
  BY <1>3, SentTyped DEF Running, Typed
<1>5. PICK l \in Seq(Source) : l = Running(p).list
  BY <1>4
<1>6. PICK ms : ms = Lists(loop[p]) /\ IsLists(ms)
  BY TypedLoops
<1>7. [loop EXCEPT ![p] = {}] \in [Proc -> SUBSET started']
  BY <1>1
<1>8. CASE Return(p)
  <2>1. served' \in [Source -> Nat]
    BY <1>5, <1>8, Counts DEF Return
  <2>2. ended' = ended \cup {m} /\ UNCHANGED <<queue, loop, refused, faults>>
    BY <1>3, <1>8 DEF Return, Acknowledge, broker
  <2> QED
    BY <1>1, <1>2, <1>3, <2>1, <2>2, TypedRun
<1>9. CASE SoftLimit(p)
  <2>1. /\ ended' = ended \cup {m} /\ UNCHANGED <<queue, served, refused>> /\ Fault
        /\ loop' = [loop EXCEPT ![p] = @ \cup {m}]
    BY <1>3, <1>9 DEF SoftLimit, Acknowledge, broker
  <2>2. loop' \in [Proc -> SUBSET started']
    BY <1>1, <1>3, <2>1
  <2> QED
    BY <1>1, <1>2, <1>3, <2>1, <2>2, TypedRun
<1>10. CASE HardLimit(p)
  <2>1. /\ ended' = ended \cup {m} /\ UNCHANGED <<queue, served>> /\ Fault
        /\ loop' = [loop EXCEPT ![p] = {}]
        /\ refused' = PlusAll(Plus(refused, l), ms)
    BY <1>3, <1>5, <1>6, <1>10 DEF HardLimit, Acknowledge, broker
  <2>2. refused' \in [Source -> Nat]
    BY <1>5, <1>6, <2>1, Counts, CountsAll
  <2> QED
    BY <1>1, <1>2, <1>3, <1>7, <2>1, <2>2, TypedRun
<1>11. CASE ProcessLost(p)
  <2>1. /\ queue' = Append(queue, m) /\ UNCHANGED <<ended, served>> /\ Fault
        /\ loop' = [loop EXCEPT ![p] = {}]
        /\ refused' = PlusAll(refused, ms)
    BY <1>3, <1>6, <1>11 DEF ProcessLost
  <2>2. refused' \in [Source -> Nat]
    BY <1>6, <2>1, CountsAll
  <2>3. queue' \in Seq(Sent)
    BY <1>3, <2>1
  <2> QED
    BY <1>1, <1>2, <1>7, <2>1, <2>2, <2>3, TypedRun
<1> QED
  BY <1>8, <1>9, <1>10, <1>11

LEMMA TypedLoop ==
  ASSUME Typed, NEW p \in Proc, Resume(p) \/ Recycle(p)
  PROVE  Typed'
<1> USE Parts
<1>1. /\ UNCHANGED <<sent, queue, reserved, proc, asked, fallback, pulls, beats, faults, token,
                     started, ended>>
  BY DEF Resume, Recycle, bounds, broker
<1>2. Busy' = Busy
  BY <1>1 DEF Busy
<1>3. PICK ms : ms = Lists(loop[p]) /\ IsLists(ms)
  BY TypedLoops
<1>4. CASE Resume(p)
  <2>1. PICK m \in loop[p] : /\ loop' = [loop EXCEPT ![p] = @ \ {m}]
                             /\ served' = Plus(served, sent[m].list) /\ refused' = refused
    BY <1>4 DEF Resume
  <2>2. sent[m].list \in Seq(Source)
    BY <2>1, TypedLoops, SentTyped DEF Typed
  <2>3. served' \in [Source -> Nat] /\ loop' \in [Proc -> SUBSET started']
    BY <1>1, <2>1, <2>2, Counts
  <2> QED
    BY <1>1, <1>2, <2>1, <2>3, TypedRun
<1>5. CASE Recycle(p)
  <2>1. loop' = [loop EXCEPT ![p] = {}] /\ refused' = PlusAll(refused, ms) /\ served' = served
    BY <1>3, <1>5 DEF Recycle
  <2>2. refused' \in [Source -> Nat] /\ loop' \in [Proc -> SUBSET started']
    BY <1>1, <1>3, <2>1, CountsAll
  <2> QED
    BY <1>1, <1>2, <2>1, <2>2, TypedRun
<1> QED
  BY <1>4, <1>5

LEMMA TypedStart ==
  ASSUME Typed, NEW p \in Proc, StartTask(p)
  PROVE  Typed'
<1> USE Parts
<1>1. /\ proc[p] = Idle
      /\ UNCHANGED <<sent, queue, loop, asked, served, refused, fallback, pulls, beats, faults, ended>>
  BY DEF StartTask, broker, bounds
<1>2. PICK i \in DOMAIN reserved :
        /\ proc' = [proc EXCEPT ![p] = [msg |-> reserved[i], todo |-> sent[reserved[i]].list]]
        /\ reserved' = RemoveAt(reserved, i) /\ started' = started \cup {reserved[i]}
        /\ token' = (token /\ sent[reserved[i]].kind # "all")
  BY DEF StartTask, Next1
<1>3. PICK m \in Sent : m = reserved[i]
  BY <1>2
<1>4. PICK l \in Seq(Source) : l = sent[m].list
  BY <1>3, SentTyped DEF Typed
<1>5. PICK j \in Job : j = [msg |-> m, todo |-> l] /\ j # Idle /\ j.msg = m
  BY <1>3, <1>4, TypedJob, SentTyped DEF Typed
<1>6. proc' = [proc EXCEPT ![p] = j]
  BY <1>2, <1>3, <1>4, <1>5
<1>7. proc' \in [Proc -> Job] /\ \A q \in Proc : proc'[q] = Idle \/ proc'[q].msg \in started'
  BY <1>2, <1>3, <1>5, <1>6
<1>8. reserved' \in Seq(Sent) /\ Len(reserved') = Len(reserved) - 1
  BY <1>2, Removing
<1>9. Busy' = Busy \cup {p}
  BY <1>5, <1>6 DEF Busy
<1>10. Len(reserved') + Cardinality(Busy') =< Prefetch
  <2>1. PICK c \in Nat, d \in Nat, n \in Nat :
          c = Cardinality(Busy) /\ d = Cardinality(Busy') /\ d =< c + 1 /\ n = Len(reserved)
    BY <1>9, Occupying
  <2>2. n + c =< Prefetch /\ Len(reserved') = n - 1
    BY <1>8, <2>1
  <2> QED
    BY <2>1, <2>2
<1>11. loop' \in [Proc -> SUBSET started'] /\ started' \subseteq Sent /\ ended' \subseteq started'
  BY <1>1, <1>2, <1>3
<1>12. token' \in BOOLEAN
  BY <1>2
<1> QED
  BY <1>1, <1>7, <1>8, <1>10, <1>11, <1>12, TypedRun

LEMMA TypedLost ==
  ASSUME Typed, WorkerLost
  PROVE  Typed'
<1> USE Parts
<1>1. /\ UNCHANGED <<sent, asked, served, fallback, pulls, beats, started, ended>> /\ Fault
      /\ proc' = [p \in Proc |-> Idle] /\ loop' = [p \in Proc |-> {}]
      /\ reserved' = <<>> /\ token' = TRUE
      /\ refused' = PlusAll(refused, Lists(UNION {loop[p] : p \in Proc}))
  BY DEF WorkerLost, bounds
<1>2. PICK runs : runs = {proc[p].msg : p \in Busy} /\ runs \subseteq Sent
  <2>1. \A p \in Busy : proc[p].msg \in Sent
    BY RunningSent DEF Busy
  <2>2. {proc[p].msg : p \in Busy} \subseteq Sent
    BY <2>1
  <2> QED
    BY <2>2
<1>3. PICK order \in Bijection(1 .. Cardinality(runs), runs) : queue' = queue \o reserved \o order
  BY <1>2 DEF WorkerLost
<1>4. order \in Seq(Sent)
  <2>1. Cardinality(runs) \in Nat
    BY <1>2, SentTyped, FS_Subset, FS_CardinalityType DEF Typed
  <2>2. order \in [1 .. Cardinality(runs) -> Sent]
    BY <1>2, <1>3 DEF Bijection, Injection
  <2>3. \A n \in Nat : \A S : \A f \in [1 .. n -> S] : f \in Seq(S)
    OBVIOUS
  <2> QED
    BY <2>1, <2>2, <2>3
<1>5. queue' \in Seq(Sent)
  BY <1>3, <1>4
<1>6. refused' \in [Source -> Nat]
  <2>1. CASE Proc = {}
    <3>1. UNION {loop[p] : p \in Proc} = {}
      BY <2>1
    <3>2. IsLists(Lists({}))
      BY ListsTyped DEF Typed
    <3> QED
      BY <1>1, <3>1, <3>2, CountsAll
  <2>2. CASE Proc # {}
    BY <1>1, <2>2, TypedLoops, CountsAll
  <2> QED
    BY <2>1, <2>2
<1>7. proc' \in [Proc -> Job] /\ loop' \in [Proc -> SUBSET started']
      /\ \A q \in Proc : proc'[q] = Idle \/ proc'[q].msg \in started'
  BY <1>1, TypedJob
<1>8. Busy' = {} /\ Len(reserved') = 0 /\ reserved' \in Seq(Sent)
  BY <1>1 DEF Busy
<1>9. Len(reserved') + Cardinality(Busy') =< Prefetch
  BY <1>8, FS_EmptySet
<1> QED
  BY <1>1, <1>5, <1>6, <1>7, <1>8, <1>9, TypedRun

LEMMA Shortened ==
  ASSUME NEW j \in Job, NEW t \in Seq(Source)
  PROVE  [j EXCEPT !.todo = t] = [msg |-> j.msg, todo |-> t]
<1> DEFINE i == [j EXCEPT !.todo = t]
<1>1. i \in [msg : Message \cup {0}, todo : Seq(Source)]
  BY DEF Job
<1>2. i.msg = j.msg /\ i.todo = t
  BY DEF Job
<1> HIDE DEF i
<1>3. i = [msg |-> i.msg, todo |-> i.todo]
  BY <1>1
<1> QED
  BY <1>2, <1>3 DEF i

LEMMA TypedDelay ==
  ASSUME Typed, NEW p \in Proc, Delay(p)
  PROVE  Typed'
<1> USE Parts
<1>1. /\ proc[p] # Idle /\ proc[p].todo # <<>>
      /\ proc' = [proc EXCEPT ![p].todo = Tail(@)]
      /\ UNCHANGED <<reserved, loop, token, fallback, asked, served, started, ended, pulls, beats>>
  BY DEF Delay, bounds
<1>2. PICK s \in Source, t \in Seq(Source) : s = Head(proc[p].todo) /\ t = Tail(proc[p].todo)
  BY <1>1, RunningSent, Tailed
<1>3. PICK m \in Sent : m = proc[p].msg /\ m \in started /\ m \in Message
  BY <1>1, RunningSent
<1>4. proc' = [proc EXCEPT ![p] = [msg |-> m, todo |-> t]]
  <2>1. proc[p] \in Job
    OBVIOUS
  <2>2. [proc[p] EXCEPT !.todo = t] = [msg |-> m, todo |-> t]
    BY <1>2, <1>3, <2>1, Shortened
  <2>3. proc' = [proc EXCEPT ![p] = [proc[p] EXCEPT !.todo = t]]
    BY <1>1, <1>2
  <2> QED
    BY <2>2, <2>3
<1>5. PICK j \in Job : j = [msg |-> m, todo |-> t] /\ j.msg = m
  BY <1>2, <1>3, TypedJob
<1>6. proc' \in [Proc -> Job] /\ \A q \in Proc : proc'[q] = Idle \/ proc'[q].msg \in started
  BY <1>3, <1>4, <1>5
<1>7. Len(reserved') + Cardinality(Busy') =< Prefetch
  <2>1. Busy' \subseteq Busy
    BY <1>1 DEF Busy
  <2>2. PICK c \in Nat, d \in Nat, n \in Nat :
          c = Cardinality(Busy) /\ d = Cardinality(Busy') /\ d =< c /\ n = Len(reserved)
    BY <2>1, Occupied
  <2>3. n + c =< Prefetch /\ Len(reserved') = n
    BY <1>1, <2>2
  <2> QED
    BY <2>2, <2>3
<1>8. CASE Send(One(Head(proc[p].todo))) /\ UNCHANGED <<refused, faults>>
  <2>1. Send(One(s)) /\ One(s) \in Body
    BY <1>2, <1>8, Bodies
  <2>2. /\ sent' \in Seq(Body) /\ Len(sent') =< MaxSent /\ Sent \subseteq Sent'
        /\ queue' \in Seq(Sent') /\ Len(sent') = Len(sent) + 1
    BY <2>1, Sending
  <2>3. Sent' \subseteq Message
    BY <2>2, BoundsAssumption DEF Sent, Message
  <2>4. reserved' \in Seq(Sent')
    BY <1>1, <2>2, Widening
  <2>5. queue' \in Seq(Message) /\ reserved' \in Seq(Message)
    BY <2>2, <2>3, <2>4, Widening
  <2>6. Held'
    BY <1>1, <1>6, <2>2, <2>4 DEF Held, Idle
  <2>7. /\ loop' \in [Proc -> SUBSET Message] /\ started' \subseteq Message
        /\ fallback' \in Seq(Seq(Source)) /\ token' \in BOOLEAN /\ ended' \subseteq started'
        /\ asked' \in [Source -> Nat] /\ served' \in [Source -> Nat] /\ refused' \in [Source -> Nat]
        /\ pulls' \in 0 .. MaxPulls /\ beats' \in 0 .. MaxBeats /\ faults' \in 0 .. MaxFaults
    BY <1>1, <1>8 DEF Typed, TypeOK
  <2>8. TypeOK'
    BY <1>6, <1>7, <2>2, <2>5, <2>7 DEF TypeOK, Message, Prefetch, Job
  <2> QED
    BY <2>6, <2>8 DEF Typed
<1>9. CASE Fault /\ refused' = Plus(refused, <<Head(proc[p].todo)>>) /\ UNCHANGED broker
  <2>1. refused' = Plus(refused, <<s>>) /\ UNCHANGED <<sent, queue>>
    BY <1>2, <1>9 DEF broker
  <2>2. <<s>> \in Seq(Source)
    OBVIOUS
  <2>3. refused' \in [Source -> Nat]
    BY <2>1, <2>2, Counts
  <2>4. /\ proc' \in [Proc -> Job] /\ \A q \in Proc : proc'[q] = Idle \/ proc'[q].msg \in started'
        /\ loop' \in [Proc -> SUBSET started']
    BY <1>1, <1>6
  <2> QED
    BY <1>1, <1>7, <1>9, <2>1, <2>3, <2>4, TypedRun
<1> QED
  BY <1>8, <1>9 DEF Delay

LEMMA TypedNext == Typed /\ [Next]_vars => Typed'
<1> SUFFICES ASSUME Typed, [Next]_vars PROVE Typed'
  OBVIOUS
<1>1. CASE PullFeeds \/ PullFallsBack \/ ApiRestarts \/ Beat
           \/ \E i \in DOMAIN fallback : RunCollectorsSync(i)
  BY <1>1, TypedApi
<1>2. CASE Take \/ Refill \/ WorkerLost \/ VisibilityTimeout
  BY <1>2, TypedQueue, TypedLost
<1>3. ASSUME NEW p \in Proc, StartTask(p) \/ Step(p) \/ Resume(p) \/ Recycle(p)
                             \/ SoftLimit(p) \/ HardLimit(p) \/ ProcessLost(p)
      PROVE  Typed'
  BY <1>3, TypedStart, TypedDelay, TypedEnd, TypedLoop DEF Step
<1>4. CASE UNCHANGED vars
  BY <1>4 DEF vars, Typed, TypeOK, Held, Sent, Busy
<1> QED
  BY <1>1, <1>2, <1>3, <1>4 DEF Next, Finished

LEMMA TypedAlways == Spec => []Typed
BY TypedInit, TypedNext, PTL DEF Spec

(* Everything keeps its type, the broker and the worker hold only messages *)
(* that were sent, what ended was started, and the worker never holds more *)
(* messages than its prefetch limit, counting those its processes run:     *)
(* worker_prefetch_multiplier in tasks/celery_app.py.                      *)
THEOREM TypeCorrect == Spec => []TypeOK
BY TypedAlways, PTL DEF Typed

-----------------------------------------------------------------------------
(***************************************************************************)
(* Broker and worker implement a task queue, as far as what they may do is *)
(* concerned: a step of FeedDispatch is a step of TaskQueue or changes     *)
(* nothing of it.  That every task ends is left to TLC.                    *)
(***************************************************************************)
LEMMA QueueStep == Typed /\ [Next]_vars => [Queue!Next]_(Queue!view)
<1> SUFFICES ASSUME Typed, [Next]_vars PROVE [Queue!Next]_(Queue!view)
  OBVIOUS
<1> USE Parts
<1>1. ASSUME NEW b \in Body, Send(b), UNCHANGED <<started, ended>>
      PROVE  Queue!Send
  BY <1>1, Sending DEF Queue!Send
<1>2. ASSUME UNCHANGED <<sent, started, ended>>
      PROVE  UNCHANGED Queue!view
  BY <1>2 DEF Queue!view
<1>3. ASSUME NEW p \in Proc, proc[p] # Idle, Acknowledge(p), UNCHANGED <<sent, started>>
      PROVE  Queue!Next
  <2>1. proc[p].msg \in Message /\ proc[p].msg \in started
    BY <1>3, RunningSent
  <2>2. Queue!End(proc[p].msg)
    BY <1>3, <2>1 DEF Queue!End, Acknowledge
  <2> QED
    BY <2>1, <2>2 DEF Queue!Next
<1>4. CASE PullFeeds
  BY <1>1, <1>4, Bodies, AsksAssumption DEF PullFeeds, Queue!Next
<1>5. CASE Beat
  BY <1>1, <1>5, Bodies, SourceMapTyped DEF Beat, Queue!Next
<1>6. CASE PullFallsBack \/ ApiRestarts \/ \E i \in DOMAIN fallback : RunCollectorsSync(i)
  BY <1>2, <1>6 DEF PullFallsBack, ApiRestarts, RunCollectorsSync, broker
<1>7. CASE Take \/ Refill \/ WorkerLost \/ VisibilityTimeout \/ UNCHANGED vars
  BY <1>2, <1>7 DEF Take, Refill, WorkerLost, VisibilityTimeout, broker, history, vars
<1>8. ASSUME NEW p \in Proc, StartTask(p)
      PROVE  Queue!Next
  <2>1. PICK i \in DOMAIN reserved : started' = started \cup {reserved[i]}
    BY <1>8 DEF StartTask, Next1
  <2>2. PICK m \in Sent : m = reserved[i]
    BY <2>1
  <2>3. m \in Message /\ m \in 1 .. Len(sent)
    BY SentTyped DEF Typed, Sent
  <2>4. Queue!Start(m)
    BY <1>8, <2>1, <2>2, <2>3 DEF Queue!Start, StartTask, broker
  <2> QED
    BY <2>3, <2>4 DEF Queue!Next
<1>9. ASSUME NEW p \in Proc, Delay(p)
      PROVE  [Queue!Next]_(Queue!view)
  <2>1. /\ proc[p] # Idle /\ proc[p].todo # <<>> /\ UNCHANGED <<started, ended>>
    BY <1>9 DEF Delay
  <2>2. Head(proc[p].todo) \in Source
    BY <2>1, RunningSent, Tailed
  <2>3. CASE Send(One(Head(proc[p].todo)))
    BY <1>1, <2>1, <2>2, <2>3, Bodies DEF Queue!Next
  <2>4. CASE UNCHANGED broker
    BY <1>2, <2>1, <2>4 DEF broker
  <2> QED
    BY <1>9, <2>3, <2>4 DEF Delay
<1>10. ASSUME NEW p \in Proc, Return(p) \/ SoftLimit(p) \/ HardLimit(p)
       PROVE  Queue!Next
  <2>1. proc[p] # Idle /\ Acknowledge(p) /\ UNCHANGED <<sent, started>>
    BY <1>10 DEF Return, SoftLimit, HardLimit, broker
  <2> QED
    BY <1>3, <2>1
<1>11. ASSUME NEW p \in Proc, Resume(p) \/ Recycle(p) \/ ProcessLost(p)
       PROVE  UNCHANGED Queue!view
  BY <1>2, <1>11 DEF Resume, Recycle, ProcessLost, broker
<1> QED
  BY <1>4, <1>5, <1>6, <1>7, <1>8, <1>9, <1>10, <1>11 DEF Next, Step, Finished

(* To those who send it tasks, the broker with its worker is a task queue: *)
(* what ends was started and what starts was sent, whatever faults do:     *)
(* task_acks_late and task_reject_on_worker_lost in tasks/celery_app.py.   *)
THEOREM IsTaskQueue == Spec => Queue!Safety
<1>1. Init => Queue!Init
  BY DEF Init, Queue!Init
<1> QED
  BY <1>1, TypedAlways, QueueStep, PTL DEF Spec, Queue!Safety

-----------------------------------------------------------------------------
(***************************************************************************)
(* What is still to do, step by step.                                      *)
(***************************************************************************)
LEMMA Waits ==
  ASSUME Typed, NEW q \in Seq(Sent)
  PROVE  /\ Waiting(q) \in Rows /\ Len(Waiting(q)) = Len(q) /\ DOMAIN Waiting(q) = 1 .. Len(q)
         /\ \A k \in 1 .. Len(q) : q[k] \in Sent /\ Waiting(q)[k] = sent[q[k]].list
<1>1. Len(q) \in Nat /\ DOMAIN q = 1 .. Len(q) /\ \A k \in 1 .. Len(q) : q[k] \in Sent
  OBVIOUS
<1>2. \A k \in 1 .. Len(q) : sent[q[k]].list \in Seq(Source)
  BY <1>1, SentTyped DEF Typed
<1>3. Waiting(q) = [k \in 1 .. Len(q) |-> sent[q[k]].list]
  BY <1>1 DEF Waiting
<1>4. \A n \in Nat : \A S : \A f \in [1 .. n -> S] : f \in Seq(S) /\ Len(f) = n
  OBVIOUS
<1>5. Waiting(q) \in [1 .. Len(q) -> Seq(Source)]
  BY <1>2, <1>3
<1>6. Waiting(q) \in Seq(Seq(Source)) /\ Len(Waiting(q)) = Len(q)
  BY <1>1, <1>4, <1>5
<1> QED
  BY <1>1, <1>3, <1>6 DEF Rows

LEMMA WaitsMore ==
  ASSUME Typed, NEW s, NEW q \in Seq(Sent), NEW m \in Sent
  PROVE  Weight(s, Waiting(Append(q, m))) = Weight(s, Waiting(q)) + Times(s, sent[m].list)
<1>1. PICK r \in Seq(Sent) : /\ r = Append(q, m) /\ Len(r) = Len(q) + 1 /\ Len(q) \in Nat
                             /\ \A k \in 1 .. Len(q) + 1 : r[k] = IF k = Len(q) + 1 THEN m ELSE q[k]
  <2>1. /\ Append(q, m) \in Seq(Sent) /\ Len(Append(q, m)) = Len(q) + 1 /\ Len(q) \in Nat
        /\ \A k \in 1 .. Len(q) + 1 : Append(q, m)[k] = IF k = Len(q) + 1 THEN m ELSE q[k]
    BY Appending
  <2> QED
    BY <2>1
<1>2. PICK a, b : a = Waiting(q) /\ b = Waiting(r)
  OBVIOUS
<1>3. /\ a \in Rows /\ b \in Rows /\ DOMAIN a = 1 .. Len(q) /\ DOMAIN b = 1 .. Len(q) + 1
      /\ \A k \in 1 .. Len(q) : a[k] = sent[q[k]].list
      /\ \A k \in 1 .. Len(q) + 1 : b[k] = sent[r[k]].list
  BY <1>1, <1>2, Waits
<1>4. IsLists(a) /\ IsLists(b)
  BY <1>3, Row
<1>5. PICK k : k = Len(q) + 1
  OBVIOUS
<1>6. k \notin DOMAIN a /\ DOMAIN b = DOMAIN a \cup {k} /\ b[k] = sent[m].list
  BY <1>1, <1>3, <1>5
<1>7. \A x \in DOMAIN a : b[x] = a[x]
  <2>1. \A x \in 1 .. Len(q) : x \in 1 .. Len(q) + 1 /\ x # Len(q) + 1
    BY <1>1
  <2> QED
    BY <1>1, <1>3, <2>1
<1>8. Extends(b, a, k)
  BY <1>4, <1>6, <1>7 DEF Extends
<1> QED
  BY <1>1, <1>2, <1>6, <1>8, Added

LEMMA WaitsLess ==
  ASSUME Typed, NEW s, NEW q \in Seq(Sent), NEW i \in DOMAIN q
  PROVE  Weight(s, Waiting(q)) = Weight(s, Waiting(RemoveAt(q, i))) + Times(s, sent[q[i]].list)
<1>1. PICK r \in Seq(Sent) : /\ r = RemoveAt(q, i) /\ Len(r) = Len(q) - 1
                             /\ \A j \in 1 .. Len(q) - 1 : r[j] = q[IF j < i THEN j ELSE j + 1]
  BY Removing
<1>2. PICK a, b : a = Waiting(q) /\ b = Waiting(r)
  OBVIOUS
<1>3. /\ a \in Rows /\ b \in Rows /\ Len(a) = Len(q) /\ Len(b) = Len(q) - 1
      /\ DOMAIN a = 1 .. Len(q) /\ i \in 1 .. Len(q) /\ Len(q) \in Nat
      /\ \A k \in 1 .. Len(q) : a[k] = sent[q[k]].list
      /\ \A k \in 1 .. Len(q) - 1 : b[k] = sent[r[k]].list
  BY <1>1, <1>2, Waits
<1>4. \A j \in 1 .. Len(q) - 1 : b[j] = a[IF j < i THEN j ELSE j + 1]
  BY <1>1, <1>3
<1>5. Weight(s, a) = Weight(s, b) + Times(s, a[i])
  BY <1>3, <1>4, RowShorter
<1> QED
  BY <1>1, <1>2, <1>3, <1>5

LEMMA WaitsTail ==
  ASSUME Typed, NEW s, NEW q \in Seq(Sent), q # <<>>
  PROVE  Weight(s, Waiting(q)) = Weight(s, Waiting(Tail(q))) + Times(s, sent[Head(q)].list)
<1>1. PICK r \in Seq(Sent) : /\ r = Tail(q) /\ Len(r) = Len(q) - 1
                             /\ \A j \in 1 .. Len(q) - 1 : r[j] = q[j + 1]
  BY Tailing
<1>0. Len(q) \in Nat /\ 1 \in 1 .. Len(q) /\ Head(q) = q[1]
  OBVIOUS
<1>2. PICK a, b : a = Waiting(q) /\ b = Waiting(r)
  OBVIOUS
<1>3. /\ a \in Rows /\ b \in Rows /\ Len(a) = Len(q) /\ Len(b) = Len(q) - 1
      /\ DOMAIN a = 1 .. Len(q)
      /\ \A k \in 1 .. Len(q) : a[k] = sent[q[k]].list
      /\ \A k \in 1 .. Len(q) - 1 : b[k] = sent[r[k]].list
  BY <1>1, <1>2, Waits
<1>4. \A j \in 1 .. Len(q) - 1 : b[j] = a[IF j < 1 THEN j ELSE j + 1]
  BY <1>0, <1>1, <1>3
<1>5. 1 \in DOMAIN a
  BY <1>0, <1>3
<1>6. Weight(s, a) = Weight(s, b) + Times(s, a[1])
  BY <1>3, <1>4, <1>5, RowShorter
<1> QED
  BY <1>0, <1>1, <1>2, <1>3, <1>6

LEMMA WaitsJoined ==
  ASSUME Typed, NEW s, NEW q \in Seq(Sent), NEW r \in Seq(Sent)
  PROVE  Weight(s, Waiting(q \o r)) = Weight(s, Waiting(q)) + Weight(s, Waiting(r))
<1>1. /\ q \o r \in Seq(Sent) /\ Len(q \o r) = Len(q) + Len(r)
      /\ Len(q) \in Nat /\ Len(r) \in Nat
      /\ \A k \in 1 .. Len(q) : (q \o r)[k] = q[k]
      /\ \A k \in Len(q) + 1 .. Len(q) + Len(r) : (q \o r)[k] = r[k - Len(q)]
  BY Joining
<1>2. PICK a \in Rows, b \in Rows, c \in Rows :
        a = Waiting(q) /\ b = Waiting(r) /\ c = Waiting(q \o r)
  BY <1>1, Waits
<1>3. /\ Len(a) = Len(q) /\ Len(b) = Len(r) /\ Len(c) = Len(q) + Len(r)
      /\ \A k \in 1 .. Len(q) : a[k] = sent[q[k]].list
      /\ \A k \in 1 .. Len(r) : b[k] = sent[r[k]].list
      /\ \A k \in 1 .. Len(q) + Len(r) : c[k] = sent[(q \o r)[k]].list
  BY <1>1, <1>2, Waits
<1>4. /\ a \o b \in Rows /\ Len(a \o b) = Len(q) + Len(r)
      /\ \A k \in 1 .. Len(q) : (a \o b)[k] = a[k]
      /\ \A k \in Len(q) + 1 .. Len(q) + Len(r) : (a \o b)[k] = b[k - Len(q)]
  <2>1. PICK S : S = Seq(Source)
    OBVIOUS
  <2>2. a \in Seq(S) /\ b \in Seq(S)
    BY <2>1 DEF Rows
  <2>3. /\ a \o b \in Seq(S) /\ Len(a \o b) = Len(a) + Len(b)
        /\ \A k \in 1 .. Len(a) : (a \o b)[k] = a[k]
        /\ \A k \in Len(a) + 1 .. Len(a) + Len(b) : (a \o b)[k] = b[k - Len(a)]
    BY <2>2, Joining
  <2> QED
    BY <1>3, <2>1, <2>3 DEF Rows
<1>5. \A k \in 1 .. Len(q) + Len(r) : (a \o b)[k] = c[k]
  <2> SUFFICES ASSUME NEW k \in 1 .. Len(q) + Len(r) PROVE (a \o b)[k] = c[k]
    OBVIOUS
  <2>1. CASE k =< Len(q)
    <3>1. k \in 1 .. Len(q)
      BY <1>1, <2>1
    <3> QED
      BY <1>1, <1>3, <1>4, <3>1
  <2>2. CASE ~ (k =< Len(q))
    <3>1. k \in Len(q) + 1 .. Len(q) + Len(r) /\ k - Len(q) \in 1 .. Len(r)
      BY <1>1, <2>2
    <3> QED
      BY <1>1, <1>3, <1>4, <3>1
  <2> QED
    BY <2>1, <2>2
<1>6. a \o b = c
  <2>1. PICK d \in Rows : d = a \o b
    BY <1>4
  <2>2. Len(d) = Len(c) /\ \A k \in 1 .. Len(c) : d[k] = c[k]
    BY <1>3, <1>4, <1>5, <2>1
  <2>3. d = c
    BY <2>2, Alike DEF Rows
  <2> QED
    BY <2>1, <2>3
<1>7. Weight(s, a \o b) = Weight(s, a) + Weight(s, b)
  BY RowsJoined
<1> QED
  BY <1>2, <1>6, <1>7

Load(s) == served[s] + refused[s] + ToDo(s)

LEMMA Weighed ==
  ASSUME Typed, NEW s \in Source
  PROVE  /\ served[s] \in Nat /\ refused[s] \in Nat /\ asked[s] \in Nat /\ faults \in Nat
         /\ Weight(s, Waiting(queue)) \in Nat /\ Weight(s, Waiting(reserved)) \in Nat
         /\ IsLists(Todos) /\ Weight(s, Todos) \in Nat
         /\ IsLists(Suspended) /\ Weight(s, Suspended) \in Nat
         /\ IsLists(fallback) /\ Weight(s, fallback) \in Nat
         /\ Load(s) \in Nat
<1>1. served[s] \in Nat /\ refused[s] \in Nat /\ asked[s] \in Nat /\ faults \in Nat
  BY DEF Typed, TypeOK
<1>2. IsLists(Waiting(queue)) /\ IsLists(Waiting(reserved))
  BY Parts, Waits, Row
<1>3. IsLists(Todos)
  <2>1. \A p \in Proc : proc[p].todo \in Seq(Source)
    BY Parts DEF Job
  <2>2. DOMAIN Todos = Proc /\ Todos \in [Proc -> Seq(Source)]
    BY <2>1 DEF Todos
  <2> QED
    BY <2>2, ProcAssumption DEF IsLists
<1>4. IsLists(Suspended)
  <2>1. IsFiniteSet(Proc \X Message)
    BY ProcAssumption, SentTyped, FS_Product DEF Typed
  <2>2. IsFiniteSet(Stays)
    BY <2>1, FS_Subset DEF Stays
  <2>3. \A run \in Stays : run[2] \in Sent
    BY Parts DEF Stays
  <2>4. \A run \in Stays : sent[run[2]].list \in Seq(Source)
    BY <2>3, SentTyped DEF Typed
  <2>5. DOMAIN Suspended = Stays /\ Suspended \in [Stays -> Seq(Source)]
    BY <2>4 DEF Suspended
  <2> QED
    BY <2>2, <2>5 DEF IsLists
<1>5. IsLists(fallback)
  BY FallbackTyped DEF Typed
<1>6. \A L : IsLists(L) => Weight(s, L) \in Nat
  BY MentionsFinite
<1>7. /\ Weight(s, Waiting(queue)) \in Nat /\ Weight(s, Waiting(reserved)) \in Nat
      /\ Weight(s, Todos) \in Nat /\ Weight(s, Suspended) \in Nat /\ Weight(s, fallback) \in Nat
  BY <1>2, <1>3, <1>4, <1>5, <1>6
<1>8. Load(s) \in Nat
  BY <1>1, <1>7 DEF Load, ToDo
<1> QED
  BY <1>1, <1>3, <1>4, <1>5, <1>7, <1>8

(* What does not change.                                                   *)
LEMMA Frame ==
  ASSUME Typed, \A m \in Sent : sent'[m] = sent[m]
  PROVE  /\ queue' = queue => Waiting(queue)' = Waiting(queue)
         /\ reserved' = reserved => Waiting(reserved)' = Waiting(reserved)
         /\ proc' = proc => Todos' = Todos
         /\ loop' = loop => Suspended' = Suspended
         /\ queue' \in Seq(Sent) => Waiting(queue)' = Waiting(queue')
         /\ reserved' \in Seq(Sent) => Waiting(reserved)' = Waiting(reserved')
<1> USE Parts
<1>1. \A q \in Seq(Sent) : \A k \in DOMAIN q : sent'[q[k]] = sent[q[k]]
  OBVIOUS
<1>2. ASSUME NEW q \in Seq(Sent)
      PROVE  [k \in DOMAIN q |-> sent'[q[k]].list] = [k \in DOMAIN q |-> sent[q[k]].list]
  BY <1>1
<1>3. queue' \in Seq(Sent) => Waiting(queue)' = Waiting(queue')
  BY <1>1 DEF Waiting
<1>4. reserved' \in Seq(Sent) => Waiting(reserved)' = Waiting(reserved')
  BY <1>1 DEF Waiting
<1>5. proc' = proc => Todos' = Todos
  BY DEF Todos
<1>6. loop' = loop => Suspended' = Suspended
  <2>1. \A run \in Stays : run[2] \in Sent
    BY DEF Stays
  <2>2. loop' = loop => Stays' = Stays
    BY DEF Stays
  <2> QED
    BY <2>1, <2>2 DEF Suspended
<1>7. queue' = queue => Waiting(queue)' = Waiting(queue)
  BY <1>3
<1>8. reserved' = reserved => Waiting(reserved)' = Waiting(reserved)
  BY <1>4
<1> QED
  BY <1>3, <1>4, <1>5, <1>6, <1>7, <1>8

(* Three ways to keep the balance.                                         *)
LEMMA Steady ==
  ASSUME Typed, Balanced, UNCHANGED <<asked, faults>>,
         \A s \in Source : Load(s)' \in Nat /\ Load(s)' =< Load(s)
  PROVE  Balanced'
<1> SUFFICES ASSUME NEW s \in Source PROVE Load(s)' =< asked[s] * (1 + faults)
  BY DEF Balanced, Load
<1>1. Load(s) =< asked[s] * (1 + faults)
  BY DEF Balanced, Load
<1>2. asked[s] * (1 + faults) \in Int /\ Load(s) \in Nat
  BY Weighed
<1> QED
  BY <1>1, <1>2

LEMMA Distributes ==
  ASSUME NEW a \in Nat, NEW f \in Nat, NEW t \in Nat
  PROVE  /\ (a + t) * (1 + f) = a * (1 + f) + t + t * f
         /\ a * (1 + (f + 1)) = a * (1 + f) + a
         /\ a * (1 + f) \in Nat /\ t * f \in Nat
OBVIOUS

LEMMA MoreAsked ==
  ASSUME Typed, Balanced, NEW l \in Seq(Source), asked' = Plus(asked, l), faults' = faults,
         \A s \in Source : Load(s)' = Load(s) + Times(s, l)
  PROVE  Balanced'
<1> SUFFICES ASSUME NEW s \in Source PROVE Load(s)' =< asked'[s] * (1 + faults)
  BY DEF Balanced, Load
<1>1. Load(s) =< asked[s] * (1 + faults)
  BY DEF Balanced, Load
<1>2. PICK a \in Nat, f \in Nat, t \in Nat, n \in Nat :
        a = asked[s] /\ f = faults /\ t = Times(s, l) /\ n = Load(s)
  BY Weighed, TimesCount
<1>3. asked'[s] = a + t
  BY <1>2 DEF Plus
<1>4. (a + t) * (1 + f) = a * (1 + f) + t + t * f
  BY Distributes
<1>5. a * (1 + f) \in Nat /\ t * f \in Nat
  BY Distributes
<1>6. n + t =< (a + t) * (1 + f)
  BY <1>1, <1>2, <1>4, <1>5
<1> QED
  BY <1>2, <1>3, <1>6

LEMMA OneFault ==
  ASSUME Typed, Balanced, asked' = asked, Fault,
         \A s \in Source : Load(s)' \in Nat /\ Load(s)' =< Load(s) + asked[s]
  PROVE  Balanced'
<1> SUFFICES ASSUME NEW s \in Source PROVE Load(s)' =< asked[s] * (1 + faults')
  BY DEF Balanced, Load
<1>1. Load(s) =< asked[s] * (1 + faults)
  BY DEF Balanced, Load
<1>2. PICK a \in Nat, f \in Nat, n \in Nat : a = asked[s] /\ f = faults /\ n = Load(s)
  BY Weighed
<1>3. faults' = f + 1
  BY <1>2 DEF Fault
<1>4. a * (1 + (f + 1)) = a * (1 + f) + a /\ a * (1 + f) \in Nat
  BY Distributes
<1>5. PICK k \in Nat : k = Load(s)' /\ k =< n + a
  BY <1>2
<1>6. k =< a * (1 + (f + 1))
  BY <1>1, <1>2, <1>4, <1>5
<1> QED
  BY <1>2, <1>3, <1>5, <1>6

LEMMA BalancedTake ==
  ASSUME Typed, Balanced, Take
  PROVE  Balanced'
<1>1. queue # <<>> /\ UNCHANGED <<sent, proc, loop, fallback, asked, served, refused, faults>>
      /\ queue' = Tail(queue) /\ reserved' = Append(reserved, Head(queue))
  BY DEF Take, history
<1>2. PICK q \in Seq(Sent), r \in Seq(Sent), m \in Sent :
        q = Tail(queue) /\ m = Head(queue) /\ r = Append(reserved, m)
  BY <1>1, Parts, Tailed, Appending
<1>3. queue' = q /\ reserved' = r
  BY <1>1, <1>2
<1>4. /\ Waiting(queue)' = Waiting(q) /\ Waiting(reserved)' = Waiting(r) /\ Todos' = Todos
      /\ Suspended' = Suspended
  BY <1>1, <1>2, <1>3, Frame, Parts
<1>5. ASSUME NEW s \in Source
      PROVE  Load(s)' = Load(s)
  <2>1. PICK t \in Nat : t = Times(s, sent[m].list)
    BY TimesCount, SentTyped DEF Typed
  <2>2. Weight(s, Waiting(queue)) = Weight(s, Waiting(q)) + t
    BY <1>1, <1>2, <2>1, WaitsTail, Parts
  <2>3. Weight(s, Waiting(r)) = Weight(s, Waiting(reserved)) + t
    BY <1>1, <1>2, <2>1, WaitsMore, Parts
  <2>4. Weight(s, Waiting(q)) \in Nat
    BY Waits, Row, MentionsFinite
  <2>5. /\ served'[s] = served[s] /\ refused'[s] = refused[s]
        /\ Weight(s, Waiting(queue))' = Weight(s, Waiting(q))
        /\ Weight(s, Waiting(reserved))' = Weight(s, Waiting(r))
        /\ Weight(s, Todos)' = Weight(s, Todos) /\ Weight(s, Suspended)' = Weight(s, Suspended)
        /\ Weight(s, fallback)' = Weight(s, fallback)
    BY <1>1, <1>4
  <2> QED
    BY <2>1, <2>2, <2>3, <2>4, <2>5, Weighed DEF Load, ToDo
<1>6. \A s \in Source : Load(s)' \in Nat /\ Load(s)' =< Load(s)
  BY <1>5, Weighed
<1> QED
  BY <1>1, <1>6, Steady

LEMMA WaitsSent ==
  ASSUME Typed, NEW b \in Body, Send(b), NEW s \in Source
  PROVE  /\ Weight(s, Waiting(queue))' = Weight(s, Waiting(queue)) + Times(s, b.list)
         /\ Times(s, b.list) \in Nat
         /\ reserved' = reserved => Weight(s, Waiting(reserved))' = Weight(s, Waiting(reserved))
         /\ loop' = loop => Weight(s, Suspended)' = Weight(s, Suspended)
<1>1. PICK n \in Nat, e \in Nat : n = Len(queue) /\ e = Len(sent) + 1
  BY Parts DEF Typed, TypeOK
<1>2. /\ \A m \in Sent : sent'[m] = sent[m]
      /\ sent'[e] = b
      /\ queue' = Append(queue, e) /\ Len(sent) \in Nat
  <2>1. sent' = Append(sent, b) /\ queue' = Append(queue, e)
    BY <1>1 DEF Send
  <2>2. sent'[e] = b
    BY <1>1, <2>1, Parts, Appending
  <2>3. \A m \in Sent : sent'[m] = sent[m]
    BY Sending
  <2>4. Len(sent) \in Nat
    BY SentTyped DEF Typed
  <2> QED
    BY <2>1, <2>2, <2>3, <2>4
<1>3. PICK q \in Seq(Sent) : q = queue
  BY Parts
<1>4. /\ DOMAIN q = 1 .. n /\ DOMAIN Append(q, e) = 1 .. n + 1
      /\ \A k \in 1 .. n : q[k] \in Sent /\ Append(q, e)[k] = q[k]
      /\ Append(q, e)[n + 1] = e
  BY <1>1, <1>3
<1>5. PICK a \in Rows : a = Waiting(queue) /\ Len(a) = n /\ \A k \in 1 .. n : a[k] = sent[q[k]].list
  BY <1>1, <1>3, Waits
<1>6. b.list \in Seq(Source)
  BY DEF Body
<1>7. PICK d \in Rows : /\ d = Append(a, b.list) /\ Len(d) = n + 1
                        /\ \A k \in 1 .. n + 1 : d[k] = IF k = n + 1 THEN b.list ELSE a[k]
  <2>1. PICK S : S = Seq(Source)
    OBVIOUS
  <2>2. a \in Seq(S) /\ b.list \in S
    BY <1>6, <2>1 DEF Rows
  <2>3. /\ Append(a, b.list) \in Seq(S) /\ Len(Append(a, b.list)) = n + 1
        /\ \A k \in 1 .. n + 1 : Append(a, b.list)[k] = IF k = n + 1 THEN b.list ELSE a[k]
    BY <1>5, <2>2, Appending
  <2> QED
    BY <2>1, <2>3 DEF Rows
<1>8. Waiting(queue)' = [k \in 1 .. n + 1 |-> sent'[Append(q, e)[k]].list]
  BY <1>2, <1>3, <1>4 DEF Waiting
<1>9. \A k \in 1 .. n + 1 : sent'[Append(q, e)[k]].list = d[k]
  <2> SUFFICES ASSUME NEW k \in 1 .. n + 1 PROVE sent'[Append(q, e)[k]].list = d[k]
    OBVIOUS
  <2>1. CASE k = n + 1
    BY <1>2, <1>4, <1>7, <2>1
  <2>2. CASE k # n + 1
    <3>1. k \in 1 .. n
      BY <2>2
    <3> QED
      BY <1>2, <1>4, <1>5, <1>7, <2>2, <3>1
  <2> QED
    BY <2>1, <2>2
<1>10. d = [k \in 1 .. n + 1 |-> d[k]]
  BY <1>7 DEF Rows
<1>11. Waiting(queue)' = Append(a, b.list)
  BY <1>7, <1>8, <1>9, <1>10
<1>12. Weight(s, Append(a, b.list)) = Weight(s, a) + Times(s, b.list)
  BY <1>6, RowLonger
<1>13. /\ reserved' = reserved => Waiting(reserved)' = Waiting(reserved)
       /\ loop' = loop => Suspended' = Suspended
  BY <1>2, Frame
<1> QED
  BY <1>5, <1>6, <1>11, <1>12, <1>13, TimesCount

(* What the API process and beat do.                                       *)
LEMMA BalancedApi ==
  ASSUME Typed, Balanced, PullFeeds \/ PullFallsBack \/ ApiRestarts \/ Beat
                          \/ \E i \in DOMAIN fallback : RunCollectorsSync(i)
  PROVE  Balanced'
<1>1. ASSUME NEW b \in Body, Send(b), asked' = Plus(asked, b.list),
             UNCHANGED <<worker, fallback, served, refused, faults>>
      PROVE  Balanced'
  <2>1. b.list \in Seq(Source)
    BY DEF Body
  <2>2. ASSUME NEW s \in Source
        PROVE  Load(s)' = Load(s) + Times(s, b.list)
    <3>1. /\ served'[s] = served[s] /\ refused'[s] = refused[s]
          /\ Weight(s, Waiting(queue))' = Weight(s, Waiting(queue)) + Times(s, b.list)
          /\ Weight(s, Waiting(reserved))' = Weight(s, Waiting(reserved))
          /\ Weight(s, Todos)' = Weight(s, Todos) /\ Weight(s, Suspended)' = Weight(s, Suspended)
          /\ Weight(s, fallback)' = Weight(s, fallback) /\ Times(s, b.list) \in Nat
      BY <1>1, WaitsSent DEF worker, Todos
    <3> QED
      BY <3>1, Weighed DEF Load, ToDo
  <2> QED
    BY <1>1, <2>1, <2>2, MoreAsked
<1>2. ASSUME UNCHANGED <<worker, broker>>, NEW s \in Source
      PROVE  /\ Weight(s, Waiting(queue))' = Weight(s, Waiting(queue))
             /\ Weight(s, Waiting(reserved))' = Weight(s, Waiting(reserved))
             /\ Weight(s, Todos)' = Weight(s, Todos) /\ Weight(s, Suspended)' = Weight(s, Suspended)
  BY <1>2, Frame DEF worker, broker
<1>3. CASE PullFeeds
  <2>1. PICK l \in Asks : Send(All(l)) /\ asked' = Plus(asked, l)
    BY <1>3 DEF PullFeeds
  <2>2. All(l) \in Body /\ All(l).list = l
    BY Bodies, AsksAssumption DEF All
  <2>3. UNCHANGED <<worker, fallback, served, refused, faults>>
    BY <1>3 DEF PullFeeds
  <2> QED
    BY <1>1, <2>1, <2>2, <2>3
<1>4. CASE Beat
  <2>1. UNCHANGED <<worker, fallback, served, refused, faults>>
    BY <1>4 DEF Beat
  <2>2. CASE Send(All(SourceMap)) /\ asked' = Plus(asked, SourceMap)
    <3>1. All(SourceMap) \in Body /\ All(SourceMap).list = SourceMap
      BY Bodies, SourceMapTyped DEF All
    <3> QED
      BY <1>1, <2>1, <2>2, <3>1
  <2>3. CASE Send(Chore) /\ asked' = asked
    <3>1. Chore \in Body /\ Chore.list = <<>>
      BY Bodies DEF Chore
    <3>2. Plus(asked, <<>>) = asked
      <4>1. \A s \in Source : asked[s] + Times(s, <<>>) = asked[s]
        BY TimesShort, Weighed
      <4>2. asked = [s \in Source |-> asked[s]]
        BY Parts
      <4> QED
        BY <4>1, <4>2 DEF Plus
    <3> QED
      BY <1>1, <2>1, <2>3, <3>1, <3>2
  <2> QED
    BY <1>4, <2>2, <2>3 DEF Beat
<1>5. CASE PullFallsBack
  <2>1. PICK l \in Asks : fallback' = Append(fallback, l) /\ asked' = Plus(asked, l)
    BY <1>5 DEF PullFallsBack
  <2>2. l \in Seq(Source) /\ fallback \in Rows
    BY AsksAssumption, Parts DEF Rows
  <2>3. UNCHANGED <<worker, broker, served, refused, faults>>
    BY <1>5 DEF PullFallsBack
  <2>4. ASSUME NEW s \in Source
        PROVE  Load(s)' = Load(s) + Times(s, l)
    <3>1. Weight(s, Append(fallback, l)) = Weight(s, fallback) + Times(s, l)
      BY <2>2, RowLonger
    <3>2. Weight(s, fallback)' = Weight(s, fallback) + Times(s, l) /\ Times(s, l) \in Nat
      BY <2>1, <2>2, <3>1, TimesCount
    <3>3. served'[s] = served[s] /\ refused'[s] = refused[s]
      BY <2>3
    <3>4. UNCHANGED <<worker, broker>>
      BY <2>3
    <3> QED
      BY <1>2, <3>2, <3>3, <3>4, Weighed DEF Load, ToDo
  <2> QED
    BY <2>1, <2>2, <2>3, <2>4, MoreAsked
<1>6. CASE \E i \in DOMAIN fallback : RunCollectorsSync(i)
  <2>1. PICK i \in DOMAIN fallback : RunCollectorsSync(i)
    BY <1>6
  <2>2. fallback[i] \in Seq(Source) /\ fallback[i] # <<>>
    BY <2>1, Parts DEF RunCollectorsSync
  <2>3. PICK h \in Source, t \in Seq(Source) : h = Head(fallback[i]) /\ t = Tail(fallback[i])
    BY <2>2, Tailed
  <2>4. /\ fallback' = [fallback EXCEPT ![i] = t] /\ served' = [served EXCEPT ![h] = @ + 1]
        /\ UNCHANGED <<worker, broker, asked, refused, faults>>
    BY <2>1, <2>3 DEF RunCollectorsSync
  <2>5. ASSUME NEW s \in Source
        PROVE  Load(s)' = Load(s)
    <3>1. PICK e \in Nat : e = IF h = s THEN 1 ELSE 0
      OBVIOUS
    <3>2. served'[s] = served[s] + e /\ refused'[s] = refused[s]
      BY <2>4, <3>1, Parts
    <3>3. Times(s, fallback[i]) = Times(s, t) + e
      BY <2>2, <2>3, <3>1, TimesTail
    <3>4. Weight(s, [fallback EXCEPT ![i] = t]) + Times(s, fallback[i]) = Weight(s, fallback) + Times(s, t)
          /\ IsLists([fallback EXCEPT ![i] = t])
      BY Weighed, Changed
    <3>5. PICK w \in Nat, x \in Nat : w = Weight(s, [fallback EXCEPT ![i] = t]) /\ x = Times(s, t)
      BY <3>4, MentionsFinite, TimesCount
    <3>8. w + (x + e) = Weight(s, fallback) + x /\ Weight(s, fallback) \in Nat
      BY <3>3, <3>4, <3>5, Weighed
    <3>6. Weight(s, fallback)' = w
      BY <2>4, <3>5
    <3>9. w + e = Weight(s, fallback)
      BY <3>8
    <3>7. /\ Weight(s, Waiting(queue))' = Weight(s, Waiting(queue))
          /\ Weight(s, Waiting(reserved))' = Weight(s, Waiting(reserved))
          /\ Weight(s, Todos)' = Weight(s, Todos) /\ Weight(s, Suspended)' = Weight(s, Suspended)
      BY <1>2, <2>4
    <3>10. PICK a \in Nat, b \in Nat, c \in Nat, d \in Nat, g \in Nat, j \in Nat :
             /\ a = served[s] /\ b = refused[s] /\ c = Weight(s, Waiting(queue))
             /\ d = Weight(s, Waiting(reserved)) /\ g = Weight(s, Todos) /\ j = Weight(s, Suspended)
      BY Weighed
    <3>11. Load(s) = a + b + (c + d + g + j + (w + e))
      BY <3>9, <3>10 DEF Load, ToDo
    <3>12. Load(s)' = (a + e) + b + (c + d + g + j + w)
      BY <3>2, <3>6, <3>7, <3>10 DEF Load, ToDo
    <3> QED
      BY <3>11, <3>12
  <2>6. \A s \in Source : Load(s)' \in Nat /\ Load(s)' =< Load(s)
    BY <2>5, Weighed
  <2> QED
    BY <2>4, <2>6, Steady
<1>7. CASE ApiRestarts
  <2>1. /\ Fault /\ fallback' = [i \in DOMAIN fallback |-> <<>>]
        /\ refused' = PlusAll(refused, fallback)
        /\ UNCHANGED <<worker, broker, asked, served>>
    BY <1>7 DEF ApiRestarts
  <2>2. ASSUME NEW s \in Source
        PROVE  Load(s)' = Load(s)
    <3>1. served'[s] = served[s] /\ refused'[s] = refused[s] + Weight(s, fallback)
      BY <2>1 DEF PlusAll, Weight
    <3>2. PICK f : f = fallback'
      OBVIOUS
    <3>3. \A x : x \notin Mentions(s, f)
      <4>1. \A k \in DOMAIN f : DOMAIN f[k] = {}
        BY <2>1, <3>2
      <4> QED
        BY <4>1, InMentions
    <3>4. Mentions(s, f) = {}
      BY <3>3
    <3>5. Weight(s, fallback)' = 0
      BY <3>2, <3>4, FS_EmptySet DEF Weight
    <3>6. UNCHANGED <<worker, broker>>
      BY <2>1
    <3> QED
      BY <1>2, <3>1, <3>5, <3>6, Weighed DEF Load, ToDo
  <2>3. \A s \in Source : Load(s)' \in Nat /\ Load(s)' =< Load(s) + asked[s]
    BY <2>2, Weighed
  <2> QED
    BY <2>1, <2>3, OneFault
<1> QED
  BY <1>3, <1>4, <1>5, <1>6, <1>7

(* What processes run, and what stays in their loops.                      *)
LEMMA TodosChange ==
  ASSUME Typed, NEW s \in Source, NEW p \in Proc, NEW j \in Job, proc' = [proc EXCEPT ![p] = j]
  PROVE  /\ Weight(s, Todos)' + Times(s, proc[p].todo) = Weight(s, Todos) + Times(s, j.todo)
         /\ Weight(s, Todos)' \in Nat /\ Times(s, proc[p].todo) \in Nat /\ Times(s, j.todo) \in Nat
<1>1. PICK t, u : t = Todos /\ u = Todos'
  OBVIOUS
<1>2. j.todo \in Seq(Source) /\ proc[p].todo \in Seq(Source)
  BY Parts DEF Job
<1>3. u = [t EXCEPT ![p] = j.todo] /\ t[p] = proc[p].todo /\ p \in DOMAIN t
  BY <1>1, Parts DEF Todos
<1>4. IsLists(t)
  BY <1>1, Weighed
<1>5. IsLists(u) /\ Weight(s, u) + Times(s, t[p]) = Weight(s, t) + Times(s, j.todo)
  <2>1. PICK l \in Seq(Source) : l = j.todo
    BY <1>2
  <2>2. /\ IsLists([t EXCEPT ![p] = l])
        /\ Weight(s, [t EXCEPT ![p] = l]) + Times(s, t[p]) = Weight(s, t) + Times(s, l)
    BY <1>3, <1>4, Changed
  <2> QED
    BY <1>3, <2>1, <2>2
<1>6. Weight(s, u) \in Nat
  BY <1>5, MentionsFinite
<1> QED
  BY <1>1, <1>2, <1>3, <1>5, <1>6, TimesCount

LEMMA StaysIn ==
  ASSUME Typed, NEW p \in Proc
  PROVE  /\ \A m \in loop[p] : m \in Sent /\ m \in Message /\ <<p, m>> \in Stays
         /\ \A run \in Stays : /\ run = <<run[1], run[2]>> /\ run[1] \in Proc
                               /\ run[2] \in loop[run[1]] /\ run[2] \in Sent
         /\ DOMAIN Suspended = Stays
         /\ \A run \in Stays : Suspended[run] = sent[run[2]].list
<1>1. \A q \in Proc : loop[q] \subseteq Sent
  BY Parts
<1>2. Sent \subseteq Message
  BY SentTyped DEF Typed
<1> QED
  BY <1>1, <1>2 DEF Stays, Suspended

LEMMA LoopDrop ==
  ASSUME Typed, NEW s \in Source, NEW p \in Proc, sent' = sent, loop' = [loop EXCEPT ![p] = {}]
  PROVE  /\ Weight(s, Suspended) = Weight(s, Suspended)' + Weight(s, Lists(loop[p]))
         /\ Weight(s, Suspended)' \in Nat /\ Weight(s, Lists(loop[p])) \in Nat
<1>1. PICK u, v, D, E : /\ u = Suspended /\ v = Suspended' /\ D = Stays'
                        /\ E = {run \in Stays : run[1] = p}
  OBVIOUS
<1>2. D = Stays \ E /\ E \subseteq Stays /\ D = DOMAIN u \ E /\ DOMAIN u = Stays
  <2>1. \A x \in Proc \X Message : x[2] \in loop'[x[1]] <=> x[1] # p /\ x[2] \in loop[x[1]]
    BY Parts
  <2>2. D = Stays \ E
    BY <1>1, <2>1 DEF Stays
  <2> QED
    BY <1>1, <2>2, StaysIn
<1>3. v = Only(u, D)
  BY <1>1, <1>2, StaysIn DEF Only, Suspended
<1>4. IsLists(u)
  BY <1>1, Weighed
<1>5. /\ IsLists(Only(u, E)) /\ Weight(s, u) = Weight(s, Only(u, E)) + Weight(s, Only(u, DOMAIN u \ E))
      /\ Weight(s, Only(u, E)) \in Nat /\ Weight(s, Only(u, DOMAIN u \ E)) \in Nat
  BY <1>2, <1>4, Fewer
<1>6. PICK w, x, f : w = Lists(loop[p]) /\ x = Only(u, E) /\ f = [m \in loop[p] |-> <<p, m>>]
  OBVIOUS
<1>7. IsLists(w) /\ IsLists(x) /\ DOMAIN w = loop[p] /\ DOMAIN x = E
  BY <1>5, <1>6, TypedLoops DEF Lists, Only
<1>8. f \in Bijection(DOMAIN w, DOMAIN x)
  <2>1. \A m \in loop[p] : f[m] = <<p, m>> /\ f[m] \in E
    BY <1>1, <1>6, StaysIn
  <2>2. \A run \in E : run[2] \in loop[p] /\ run = <<p, run[2]>>
    BY <1>1, StaysIn
  <2>3. f \in [loop[p] -> E]
    BY <1>6, <2>1
  <2> QED
    BY <1>7, <2>1, <2>2, <2>3 DEF Bijection, Injection, Surjection, IsInjective
<1>9. \A m \in DOMAIN w : w[m] = x[f[m]]
  BY <1>1, <1>6, <1>7, StaysIn DEF Lists, Only
<1>10. Weight(s, w) = Weight(s, x)
  BY <1>7, <1>8, <1>9, Same
<1> QED
  BY <1>1, <1>2, <1>3, <1>5, <1>6, <1>10

LEMMA LoopOut ==
  ASSUME Typed, NEW s \in Source, NEW p \in Proc, NEW m \in loop[p], sent' = sent,
         loop' = [loop EXCEPT ![p] = @ \ {m}]
  PROVE  /\ Weight(s, Suspended) = Weight(s, Suspended)' + Times(s, sent[m].list)
         /\ Weight(s, Suspended)' \in Nat /\ Times(s, sent[m].list) \in Nat
<1>1. PICK u, v, D, k : u = Suspended /\ v = Suspended' /\ D = Stays' /\ k = <<p, m>>
  OBVIOUS
<1>2. D = Stays \ {k} /\ k \in Stays /\ DOMAIN u = Stays
  <2>1. \A x \in Proc \X Message : x[2] \in loop'[x[1]] <=> x # k /\ x[2] \in loop[x[1]]
    BY <1>1, Parts
  <2>2. D = Stays \ {k}
    BY <1>1, <2>1 DEF Stays
  <2> QED
    BY <1>1, <2>2, StaysIn
<1>3. v = Only(u, DOMAIN u \ {k})
  BY <1>1, <1>2, StaysIn DEF Only, Suspended
<1>4. IsLists(u) /\ u[k] = sent[m].list
  BY <1>1, <1>2, Weighed, StaysIn
<1>5. IsLists(v) /\ Weight(s, u) = Weight(s, v) + Times(s, u[k])
  BY <1>2, <1>3, <1>4, Without
<1>6. Weight(s, v) \in Nat
  BY <1>5, MentionsFinite
<1>7. Times(s, sent[m].list) \in Nat
  BY StaysIn, SentTyped, TimesCount DEF Typed
<1> QED
  BY <1>1, <1>4, <1>5, <1>6, <1>7

LEMMA LoopIn ==
  ASSUME Typed, NEW s \in Source, NEW p \in Proc, NEW m \in Sent, sent' = sent,
         loop' = [loop EXCEPT ![p] = @ \cup {m}]
  PROVE  /\ Weight(s, Suspended)' =< Weight(s, Suspended) + Times(s, sent[m].list)
         /\ Weight(s, Suspended)' \in Nat /\ Times(s, sent[m].list) \in Nat
<1>1. PICK u, v, D, k : u = Suspended /\ v = Suspended' /\ D = Stays' /\ k = <<p, m>>
  OBVIOUS
<1>2. D = Stays \cup {k} /\ DOMAIN u = Stays /\ DOMAIN v = D
  <2>1. k \in Proc \X Message
    BY <1>1, SentTyped DEF Typed
  <2>2. \A x \in Proc \X Message : x[2] \in loop'[x[1]] <=> x = k \/ x[2] \in loop[x[1]]
    BY <1>1, Parts
  <2>3. D = Stays \cup {k}
    BY <1>1, <2>1, <2>2 DEF Stays
  <2> QED
    BY <1>1, <2>3, StaysIn DEF Suspended
<1>3. \A run \in D : v[run] = sent[run[2]].list
  BY <1>1 DEF Suspended
<1>4. /\ Times(s, sent[m].list) \in Nat /\ sent[m].list \in Seq(Source) /\ Weight(s, u) \in Nat
      /\ IsLists(u)
  BY <1>1, SentTyped, TimesCount, Weighed DEF Typed
<1>5. CASE k \in Stays
  <2>1. D = Stays
    BY <1>2, <1>5
  <2>2. v = u
    BY <1>1, <2>1 DEF Suspended
  <2> QED
    BY <1>1, <1>4, <2>2
<1>6. CASE k \notin Stays
  <2>1. IsLists(v)
    <3>1. IsFiniteSet(D)
      <4>1. IsFiniteSet(Stays)
        BY <1>2, <1>4 DEF IsLists
      <4>2. IsFiniteSet(Stays \cup {k})
        BY <4>1, FS_AddElement
      <4> QED
        BY <1>2, <4>2
    <3>2. \A run \in D : v[run] \in Seq(Source)
      BY <1>1, <1>2, <1>3, <1>4, StaysIn, SentTyped DEF Typed
    <3>3. v = [run \in D |-> v[run]]
      BY <1>1 DEF Suspended
    <3> QED
      BY <1>2, <3>1, <3>2, <3>3 DEF IsLists
  <2>2. Extends(v, u, k)
    BY <1>1, <1>2, <1>3, <1>4, <1>6, <2>1, StaysIn DEF Extends
  <2>3. Weight(s, v) = Weight(s, u) + Times(s, v[k])
    BY <2>2, Added
  <2>4. v[k] = sent[m].list
    BY <1>1, <1>2, <1>3
  <2> QED
    BY <1>1, <1>4, <2>3, <2>4
<1> QED
  BY <1>5, <1>6

LEMMA LoopAll ==
  ASSUME Typed, NEW s \in Source, sent' = sent, loop' = [p \in Proc |-> {}]
  PROVE  /\ Weight(s, Suspended)' = 0
         /\ Weight(s, Lists(UNION {loop[p] : p \in Proc})) \in Nat
         /\ Weight(s, Lists(UNION {loop[p] : p \in Proc})) =< Weight(s, Suspended)
<1>1. PICK u, v, ms : u = Suspended /\ v = Suspended' /\ ms = UNION {loop[p] : p \in Proc}
  OBVIOUS
<1>2. Weight(s, v) = 0
  <2>1. Stays' = {}
    BY DEF Stays
  <2>2. DOMAIN v = {}
    BY <1>1, <2>1 DEF Suspended
  <2>3. Mentions(s, v) = {}
    BY <2>2, InMentions
  <2> QED
    BY <2>3, FS_EmptySet DEF Weight
<1>3. \A m \in ms : m \in Sent /\ \E p \in Proc : m \in loop[p]
  BY <1>1, Parts
<1>4. PICK w : w = Lists(ms) /\ DOMAIN w = ms /\ IsLists(w)
  BY <1>3, ListsTyped DEF Typed, Lists
<1>5. PICK f : f = [m \in ms |-> <<CHOOSE p \in Proc : m \in loop[p], m>>]
  OBVIOUS
<1>6. \A m \in ms : f[m] \in Stays /\ f[m][2] = m
  BY <1>3, <1>5, StaysIn
<1>7. f \in Injection(ms, Stays)
  <2>1. f \in [ms -> Stays]
    BY <1>5, <1>6
  <2> QED
    BY <1>6, <2>1 DEF Injection, IsInjective
<1>8. IsLists(u) /\ DOMAIN u = Stays /\ \A m \in ms : w[m] = u[f[m]]
  <2>1. IsLists(u)
    BY <1>1, Weighed
  <2>2. DOMAIN u = Stays /\ \A run \in Stays : u[run] = sent[run[2]].list
    BY <1>1 DEF Suspended
  <2> QED
    BY <1>4, <1>6, <2>1, <2>2 DEF Lists
<1>9. Weight(s, w) =< Weight(s, u)
  BY <1>4, <1>7, <1>8, Rekeyed
<1>10. Weight(s, w) \in Nat
  BY <1>4, MentionsFinite
<1> QED
  BY <1>1, <1>2, <1>4, <1>9, <1>10

(* No message names a source more often than it was asked for.             *)
LEMMA NamedAsked ==
  ASSUME Typed, Listed, NEW s \in Source, NEW m \in Sent
  PROVE  /\ Times(s, sent[m].list) \in Nat /\ Times(s, sent[m].list) =< asked[s]
         /\ sent[m].list \in Seq(Source)
<1>1. sent[m].list \in Seq(Source) /\ Times(s, sent[m].list) \in Nat /\ asked[s] \in Nat
  BY SentTyped, TimesCount, Weighed DEF Typed
<1>2. CASE m \in AllMessages
  <2>1. PICK w : w = Lists(AllMessages) /\ DOMAIN w = AllMessages /\ w[m] = sent[m].list
    <3>1. DOMAIN Lists(AllMessages) = AllMessages /\ Lists(AllMessages)[m] = sent[m].list
      BY <1>2 DEF Lists
    <3> QED
      BY <3>1
  <2>2. IsLists(w)
    BY <2>1, ListsTyped DEF Typed, AllMessages
  <2>3. PICK r : r = Only(w, DOMAIN w \ {m})
    OBVIOUS
  <2>4. Weight(s, w) = Weight(s, r) + Times(s, w[m]) /\ IsLists(r)
    BY <1>2, <2>1, <2>2, <2>3, Without
  <2>5. Weight(s, r) \in Nat /\ Weight(s, w) =< asked[s]
    BY <2>1, <2>4, MentionsFinite DEF Listed, Named
  <2> QED
    BY <1>1, <2>1, <2>4, <2>5
<1>3. CASE m \notin AllMessages
  BY <1>1, <1>3 DEF Listed, Named
<1> QED
  BY <1>1, <1>2, <1>3

LEMMA RunListed ==
  ASSUME Typed, Listed, NEW s \in Source, NEW p \in Proc, proc[p] # Idle
  PROVE  /\ Running(p).list \in Seq(Source) /\ proc[p].todo \in Seq(Source)
         /\ Times(s, Running(p).list) \in Nat /\ Times(s, proc[p].todo) \in Nat
         /\ Times(s, Running(p).list) =< asked[s]
         /\ Times(s, proc[p].todo) =< Times(s, Running(p).list)
         /\ Running(p).kind # "all" => proc[p].todo = Running(p).list
<1>1. PICK m \in Sent : m = proc[p].msg /\ Running(p) = sent[m] /\ proc[p].todo \in Seq(Source)
  BY RunningSent
<1>2. /\ Times(s, sent[m].list) \in Nat /\ Times(s, sent[m].list) =< asked[s]
      /\ sent[m].list \in Seq(Source)
  BY NamedAsked
<1>3. /\ Times(s, proc[p].todo) =< Times(s, Running(p).list)
      /\ Running(p).kind # "all" => proc[p].todo = Running(p).list
  BY <1>1, <1>2 DEF Listed, RunOK, RestOf
<1> QED
  BY <1>1, <1>2, <1>3, TimesCount

LEMMA FreeLoad ==
  ASSUME Typed, NEW s \in Source, NEW p \in Proc, sent' = sent, reserved' = reserved,
         fallback' = fallback, proc' = [proc EXCEPT ![p] = Idle]
  PROVE  /\ Weight(s, Waiting(reserved))' = Weight(s, Waiting(reserved))
         /\ Weight(s, fallback)' = Weight(s, fallback)
         /\ Weight(s, Todos)' + Times(s, proc[p].todo) = Weight(s, Todos)
         /\ Weight(s, Todos)' \in Nat /\ Times(s, proc[p].todo) \in Nat
         /\ queue' = queue => Weight(s, Waiting(queue))' = Weight(s, Waiting(queue))
         /\ loop' = loop => Weight(s, Suspended)' = Weight(s, Suspended)
<1>1. Idle \in Job /\ Times(s, Idle.todo) = 0
  BY TypedJob, TimesShort DEF Idle
<1>2. /\ Weight(s, Todos)' + Times(s, proc[p].todo) = Weight(s, Todos) + Times(s, Idle.todo)
      /\ Weight(s, Todos)' \in Nat /\ Times(s, proc[p].todo) \in Nat
  BY <1>1, TodosChange
<1>3. Weight(s, Todos) \in Nat
  BY Weighed
<1>4. /\ Waiting(reserved)' = Waiting(reserved)
      /\ queue' = queue => Waiting(queue)' = Waiting(queue)
      /\ loop' = loop => Suspended' = Suspended
  BY Frame
<1> QED
  BY <1>1, <1>2, <1>3, <1>4

LEMMA BalancedEnd ==
  ASSUME Typed, Listed, Balanced, NEW p \in Proc,
         Return(p) \/ SoftLimit(p) \/ HardLimit(p) \/ ProcessLost(p)
  PROVE  Balanced'
<1>1. /\ proc[p] # Idle /\ proc' = [proc EXCEPT ![p] = Idle]
      /\ UNCHANGED <<sent, reserved, asked, fallback>>
  BY DEF Return, SoftLimit, HardLimit, ProcessLost, Acknowledge, broker
<1>2. PICK m \in Sent : m = proc[p].msg /\ Running(p) = sent[m]
  BY <1>1, RunningSent
<1>3. CASE Return(p)
  <2>1. /\ UNCHANGED <<queue, loop, refused, faults>>
        /\ served' = IF Running(p).kind = "one" THEN Plus(served, Running(p).list) ELSE served
    BY <1>3 DEF Return, broker
  <2>2. ASSUME NEW s \in Source
        PROVE  Load(s)' \in Nat /\ Load(s)' =< Load(s)
    <3>1. PICK t \in Nat, w \in Nat :
            /\ t = Times(s, proc[p].todo) /\ w = Weight(s, Todos)' /\ w + t = Weight(s, Todos)
      BY <1>1, FreeLoad
    <3>2. /\ Weight(s, Waiting(reserved))' = Weight(s, Waiting(reserved))
          /\ Weight(s, fallback)' = Weight(s, fallback)
          /\ Weight(s, Waiting(queue))' = Weight(s, Waiting(queue))
          /\ Weight(s, Suspended)' = Weight(s, Suspended)
      BY <1>1, <2>1, FreeLoad
    <3>3. PICK e \in Nat : served'[s] = served[s] + e /\ e =< t
      <4>1. CASE Running(p).kind = "one"
        BY <1>1, <2>1, <3>1, <4>1, RunListed DEF Plus
      <4>2. CASE Running(p).kind # "one"
        <5>1. served'[s] = served[s] + 0 /\ 0 \in Nat /\ 0 =< t
          BY <2>1, <4>2, Weighed
        <5> QED
          BY <5>1
      <4> QED
        BY <4>1, <4>2
    <3>4. refused'[s] = refused[s]
      BY <2>1
    <3> QED
      BY <3>1, <3>2, <3>3, <3>4, Weighed DEF Load, ToDo
  <2> QED
    BY <1>1, <2>1, <2>2, Steady
<1>4. CASE SoftLimit(p)
  <2>1. /\ UNCHANGED <<queue, served, refused>> /\ Fault /\ Running(p).kind # "all"
        /\ loop' = [loop EXCEPT ![p] = @ \cup {m}]
    BY <1>2, <1>4 DEF SoftLimit, broker
  <2>2. ASSUME NEW s \in Source
        PROVE  Load(s)' \in Nat /\ Load(s)' =< Load(s) + asked[s]
    <3>1. PICK t \in Nat, w \in Nat :
            /\ t = Times(s, proc[p].todo) /\ w = Weight(s, Todos)' /\ w + t = Weight(s, Todos)
      BY <1>1, FreeLoad
    <3>2. /\ Weight(s, Waiting(reserved))' = Weight(s, Waiting(reserved))
          /\ Weight(s, fallback)' = Weight(s, fallback)
          /\ Weight(s, Waiting(queue))' = Weight(s, Waiting(queue))
      BY <1>1, <2>1, FreeLoad
    <3>3. Times(s, sent[m].list) = t
      BY <1>1, <1>2, <2>1, <3>1, RunListed
    <3>4. Weight(s, Suspended)' \in Nat /\ Weight(s, Suspended)' =< Weight(s, Suspended) + t
      BY <1>1, <2>1, <3>3, LoopIn
    <3>5. refused'[s] = refused[s] /\ served'[s] = served[s]
      BY <2>1
    <3> QED
      BY <3>1, <3>2, <3>4, <3>5, Weighed DEF Load, ToDo
  <2> QED
    BY <1>1, <2>1, <2>2, OneFault
<1>5. CASE HardLimit(p)
  <2>1. /\ UNCHANGED <<queue, served>> /\ Fault /\ Running(p).kind # "all"
        /\ loop' = [loop EXCEPT ![p] = {}]
        /\ refused' = PlusAll(Plus(refused, Running(p).list), Lists(loop[p]))
    BY <1>5 DEF HardLimit, broker
  <2>2. ASSUME NEW s \in Source
        PROVE  Load(s)' \in Nat /\ Load(s)' =< Load(s) + asked[s]
    <3>1. PICK t \in Nat, w \in Nat :
            /\ t = Times(s, proc[p].todo) /\ w = Weight(s, Todos)' /\ w + t = Weight(s, Todos)
      BY <1>1, FreeLoad
    <3>2. /\ Weight(s, Waiting(reserved))' = Weight(s, Waiting(reserved))
          /\ Weight(s, fallback)' = Weight(s, fallback)
          /\ Weight(s, Waiting(queue))' = Weight(s, Waiting(queue))
      BY <1>1, <2>1, FreeLoad
    <3>3. Times(s, Running(p).list) = t
      BY <1>1, <2>1, <3>1, RunListed
    <3>4. PICK x \in Nat, y \in Nat :
            /\ x = Weight(s, Suspended)' /\ y = Weight(s, Lists(loop[p]))
            /\ Weight(s, Suspended) = x + y
      BY <1>1, <2>1, LoopDrop
    <3>5. refused'[s] = refused[s] + t + y /\ served'[s] = served[s]
      BY <2>1, <3>3, <3>4 DEF PlusAll, Plus, Weight
    <3> QED
      BY <3>1, <3>2, <3>4, <3>5, Weighed DEF Load, ToDo
  <2> QED
    BY <1>1, <2>1, <2>2, OneFault
<1>6. CASE ProcessLost(p)
  <2>1. /\ UNCHANGED served /\ Fault /\ queue' = Append(queue, m)
        /\ loop' = [loop EXCEPT ![p] = {}] /\ refused' = PlusAll(refused, Lists(loop[p]))
    BY <1>2, <1>6 DEF ProcessLost
  <2>2. PICK q \in Seq(Sent) : q = Append(queue, m)
    BY Parts, Appending
  <2>3. Waiting(queue)' = Waiting(q)
    BY <1>1, <2>1, <2>2, Frame
  <2>4. ASSUME NEW s \in Source
        PROVE  Load(s)' \in Nat /\ Load(s)' =< Load(s) + asked[s]
    <3>1. PICK t \in Nat, w \in Nat :
            /\ t = Times(s, proc[p].todo) /\ w = Weight(s, Todos)' /\ w + t = Weight(s, Todos)
      BY <1>1, FreeLoad
    <3>2. /\ Weight(s, Waiting(reserved))' = Weight(s, Waiting(reserved))
          /\ Weight(s, fallback)' = Weight(s, fallback)
      BY <1>1, FreeLoad
    <3>3. PICK l \in Nat : l = Times(s, sent[m].list) /\ l =< asked[s]
      BY NamedAsked
    <3>4. Weight(s, Waiting(queue))' = Weight(s, Waiting(queue)) + l
      BY <2>2, <2>3, <3>3, Parts, WaitsMore
    <3>5. PICK x \in Nat, y \in Nat :
            /\ x = Weight(s, Suspended)' /\ y = Weight(s, Lists(loop[p]))
            /\ Weight(s, Suspended) = x + y
      BY <1>1, <2>1, LoopDrop
    <3>6. refused'[s] = refused[s] + y /\ served'[s] = served[s]
      BY <2>1, <3>5 DEF PlusAll, Weight
    <3>7. PICK a \in Nat, b \in Nat, c \in Nat, d \in Nat, f \in Nat :
            /\ a = served[s] /\ b = refused[s] /\ c = Weight(s, Waiting(queue))
            /\ d = Weight(s, Waiting(reserved)) /\ f = Weight(s, fallback)
      BY Weighed
    <3>8. Load(s) = a + b + (c + d + (w + t) + (x + y) + f)
      BY <3>1, <3>5, <3>7 DEF Load, ToDo
    <3>9. Load(s)' = a + (b + y) + ((c + l) + d + w + x + f)
      BY <3>1, <3>2, <3>4, <3>5, <3>6, <3>7 DEF Load, ToDo
    <3>10. asked[s] \in Nat
      BY Weighed
    <3>11. PICK n : n = Load(s)'
      OBVIOUS
    <3>12. n = a + (b + y) + ((c + l) + d + w + x + f)
      BY <3>9, <3>11
    <3>13. n \in Nat
      BY <3>12
    <3>14. PICK k \in Nat, o \in Nat : k = Load(s) /\ o = asked[s]
      BY Weighed
    <3>15. n + t = k + l
      BY <3>8, <3>12, <3>14
    <3> QED
      BY <3>3, <3>11, <3>13, <3>14, <3>15
  <2> QED
    BY <1>1, <2>1, <2>4, OneFault
<1> QED
  BY <1>3, <1>4, <1>5, <1>6

LEMMA BalancedLoop ==
  ASSUME Typed, Balanced, NEW p \in Proc, Resume(p) \/ Recycle(p)
  PROVE  Balanced'
<1>1. UNCHANGED <<sent, queue, reserved, proc, asked, fallback, faults>>
  BY DEF Resume, Recycle, broker
<1>2. ASSUME NEW s \in Source
      PROVE  /\ Weight(s, Waiting(queue))' = Weight(s, Waiting(queue))
             /\ Weight(s, Waiting(reserved))' = Weight(s, Waiting(reserved))
             /\ Weight(s, Todos)' = Weight(s, Todos)
             /\ Weight(s, fallback)' = Weight(s, fallback)
  BY <1>1, Frame
<1>3. CASE Resume(p)
  <2>1. PICK m \in loop[p] : /\ loop' = [loop EXCEPT ![p] = @ \ {m}] /\ refused' = refused
                             /\ served' = Plus(served, sent[m].list)
    BY <1>3 DEF Resume
  <2>2. ASSUME NEW s \in Source
        PROVE  Load(s)' = Load(s)
    <3>1. PICK x \in Nat, t \in Nat : /\ x = Weight(s, Suspended)' /\ t = Times(s, sent[m].list)
                                      /\ Weight(s, Suspended) = x + t
      BY <1>1, <2>1, LoopOut
    <3>2. served'[s] = served[s] + t /\ refused'[s] = refused[s]
      BY <2>1, <3>1 DEF Plus
    <3> QED
      BY <1>2, <3>1, <3>2, Weighed DEF Load, ToDo
  <2>3. \A s \in Source : Load(s)' \in Nat /\ Load(s)' =< Load(s)
    BY <2>2, Weighed
  <2> QED
    BY <1>1, <2>3, Steady
<1>4. CASE Recycle(p)
  <2>1. loop' = [loop EXCEPT ![p] = {}] /\ refused' = PlusAll(refused, Lists(loop[p])) /\ served' = served
    BY <1>4 DEF Recycle
  <2>2. ASSUME NEW s \in Source
        PROVE  Load(s)' = Load(s)
    <3>1. PICK x \in Nat, y \in Nat : /\ x = Weight(s, Suspended)' /\ y = Weight(s, Lists(loop[p]))
                                      /\ Weight(s, Suspended) = x + y
      BY <1>1, <2>1, LoopDrop
    <3>2. refused'[s] = refused[s] + y /\ served'[s] = served[s]
      BY <2>1, <3>1 DEF PlusAll, Weight
    <3> QED
      BY <1>2, <3>1, <3>2, Weighed DEF Load, ToDo
  <2>3. \A s \in Source : Load(s)' \in Nat /\ Load(s)' =< Load(s)
    BY <2>2, Weighed
  <2> QED
    BY <1>1, <2>3, Steady
<1> QED
  BY <1>3, <1>4

LEMMA BalancedStart ==
  ASSUME Typed, Balanced, NEW p \in Proc, StartTask(p)
  PROVE  Balanced'
<1>1. /\ proc[p] = Idle
      /\ UNCHANGED <<sent, queue, loop, asked, served, refused, fallback, faults>>
  BY DEF StartTask, broker
<1>2. PICK i \in DOMAIN reserved :
        /\ proc' = [proc EXCEPT ![p] = [msg |-> reserved[i], todo |-> sent[reserved[i]].list]]
        /\ reserved' = RemoveAt(reserved, i)
  BY DEF StartTask, Next1
<1>3. PICK m \in Sent : m = reserved[i]
  BY <1>2, Parts
<1>4. PICK j \in Job : j = [msg |-> m, todo |-> sent[m].list] /\ j.todo = sent[m].list
  BY <1>3, TypedJob, SentTyped DEF Typed
<1>5. PICK r \in Seq(Sent) : r = RemoveAt(reserved, i)
  BY <1>2, Parts, Removing
<1>6. proc' = [proc EXCEPT ![p] = j] /\ reserved' = r
  BY <1>2, <1>3, <1>4, <1>5
<1>7. /\ Waiting(queue)' = Waiting(queue) /\ Waiting(reserved)' = Waiting(r)
      /\ Suspended' = Suspended
  BY <1>1, <1>5, <1>6, Frame
<1>8. ASSUME NEW s \in Source
      PROVE  Load(s)' = Load(s)
  <2>1. PICK t \in Nat : t = Times(s, j.todo)
    BY <1>6, TodosChange
  <2>2. Times(s, proc[p].todo) = 0
    BY <1>1, TimesShort DEF Idle
  <2>3. Weight(s, Todos)' = Weight(s, Todos) + t
    <3>1. PICK w \in Nat, o \in Nat : w = Weight(s, Todos)' /\ o = Times(s, proc[p].todo)
                                      /\ w + o = Weight(s, Todos) + t
      BY <1>6, <2>1, TodosChange
    <3>2. w + 0 = Weight(s, Todos) + t
      BY <2>2, <3>1
    <3> QED
      BY <3>1, <3>2
  <2>4. Weight(s, Waiting(reserved)) = Weight(s, Waiting(r)) + t
    BY <1>3, <1>4, <1>5, <2>1, Parts, WaitsLess
  <2>5. Weight(s, Waiting(r)) \in Nat
    BY Waits, Row, MentionsFinite
  <2>6. /\ served'[s] = served[s] /\ refused'[s] = refused[s]
        /\ Weight(s, Waiting(queue))' = Weight(s, Waiting(queue))
        /\ Weight(s, Waiting(reserved))' = Weight(s, Waiting(r))
        /\ Weight(s, Suspended)' = Weight(s, Suspended)
        /\ Weight(s, fallback)' = Weight(s, fallback)
    BY <1>1, <1>7
  <2> QED
    BY <2>1, <2>3, <2>4, <2>5, <2>6, Weighed DEF Load, ToDo
<1>9. \A s \in Source : Load(s)' \in Nat /\ Load(s)' =< Load(s)
  BY <1>8, Weighed
<1> QED
  BY <1>1, <1>9, Steady

LEMMA DelayParts ==
  ASSUME Typed, NEW p \in Proc, Delay(p)
  PROVE  /\ proc[p] # Idle /\ proc[p].todo # <<>> /\ Running(p).kind = "all"
         /\ UNCHANGED <<reserved, loop, token, fallback, asked, served, started, ended>>
         /\ \E s \in Source, j \in Job :
              /\ s = Head(proc[p].todo) /\ j = [msg |-> proc[p].msg, todo |-> Tail(proc[p].todo)]
              /\ j.msg = proc[p].msg /\ j.todo = Tail(proc[p].todo)
              /\ proc' = [proc EXCEPT ![p] = j]
              /\ \A x : Times(x, proc[p].todo) = Times(x, j.todo) + (IF s = x THEN 1 ELSE 0)
<1>1. /\ proc[p] # Idle /\ proc[p].todo # <<>> /\ Running(p).kind = "all"
      /\ UNCHANGED <<reserved, loop, token, fallback, asked, served, started, ended>>
      /\ proc' = [proc EXCEPT ![p].todo = Tail(@)]
  BY DEF Delay
<1>2. PICK s \in Source, t \in Seq(Source) : s = Head(proc[p].todo) /\ t = Tail(proc[p].todo)
  BY <1>1, RunningSent, Tailed
<1>3. proc[p] \in Job /\ proc[p].msg \in Message
  BY <1>1, Parts, RunningSent
<1>4. PICK j \in Job : j = [msg |-> proc[p].msg, todo |-> t]
  BY <1>2, <1>3, TypedJob
<1>5. j.msg = proc[p].msg /\ j.todo = t
  BY <1>4
<1>6. proc' = [proc EXCEPT ![p] = j]
  <2>1. [proc[p] EXCEPT !.todo = t] = j
    BY <1>2, <1>3, <1>4, Shortened
  <2>2. proc' = [proc EXCEPT ![p] = [proc[p] EXCEPT !.todo = t]]
    BY <1>1, <1>2
  <2> QED
    BY <2>1, <2>2
<1>7. \A x : Times(x, proc[p].todo) = Times(x, t) + (IF s = x THEN 1 ELSE 0)
  BY <1>1, <1>2, RunningSent, TimesTail
<1> QED
  BY <1>1, <1>2, <1>4, <1>5, <1>6, <1>7

LEMMA BalancedDelay ==
  ASSUME Typed, Listed, Balanced, NEW p \in Proc, Delay(p)
  PROVE  Balanced'
<1>1. /\ proc[p] # Idle /\ UNCHANGED <<reserved, loop, fallback, asked, served>>
  BY DelayParts
<1>2. PICK h \in Source, j \in Job :
        /\ h = Head(proc[p].todo) /\ proc' = [proc EXCEPT ![p] = j]
        /\ \A x : Times(x, proc[p].todo) = Times(x, j.todo) + (IF h = x THEN 1 ELSE 0)
  BY DelayParts
<1>3. ASSUME NEW s \in Source, NEW e \in Nat, e = IF h = s THEN 1 ELSE 0
      PROVE  Weight(s, Todos)' \in Nat /\ Weight(s, Todos)' + e = Weight(s, Todos)
  <2>1. PICK t \in Nat, w \in Nat :
          /\ t = Times(s, j.todo) /\ w = Weight(s, Todos)'
          /\ w + Times(s, proc[p].todo) = Weight(s, Todos) + t
    BY <1>2, TodosChange
  <2>2. Times(s, proc[p].todo) = t + e
    BY <1>2, <1>3, <2>1
  <2>3. Weight(s, Todos) \in Nat
    BY Weighed
  <2> QED
    BY <2>1, <2>2, <2>3
<1>4. CASE Send(One(h)) /\ UNCHANGED <<refused, faults>>
  <2>1. One(h) \in Body /\ One(h).list = <<h>>
    BY Bodies DEF One
  <2>2. ASSUME NEW s \in Source
        PROVE  Load(s)' = Load(s)
    <3>1. PICK e \in Nat : e = (IF h = s THEN 1 ELSE 0) /\ Times(s, <<h>>) = e
      BY TimesShort
    <3>2. PICK w \in Nat : w = Weight(s, Todos)' /\ w + e = Weight(s, Todos)
      BY <1>3, <3>1
    <3>3. /\ Weight(s, Waiting(queue))' = Weight(s, Waiting(queue)) + e
          /\ Weight(s, Waiting(reserved))' = Weight(s, Waiting(reserved))
          /\ Weight(s, Suspended)' = Weight(s, Suspended)
      BY <1>1, <1>4, <2>1, <3>1, WaitsSent
    <3>4. served'[s] = served[s] /\ refused'[s] = refused[s]
          /\ Weight(s, fallback)' = Weight(s, fallback)
      BY <1>1, <1>4
    <3> QED
      BY <3>1, <3>2, <3>3, <3>4, Weighed DEF Load, ToDo
  <2>3. \A s \in Source : Load(s)' \in Nat /\ Load(s)' =< Load(s)
    BY <2>2, Weighed
  <2> QED
    BY <1>1, <1>4, <2>3, Steady
<1>5. CASE Fault /\ refused' = Plus(refused, <<h>>) /\ UNCHANGED broker
  <2>1. UNCHANGED <<sent, queue>>
    BY <1>5 DEF broker
  <2>2. ASSUME NEW s \in Source
        PROVE  Load(s)' = Load(s)
    <3>1. PICK e \in Nat : e = (IF h = s THEN 1 ELSE 0) /\ Times(s, <<h>>) = e
      BY TimesShort
    <3>2. PICK w \in Nat : w = Weight(s, Todos)' /\ w + e = Weight(s, Todos)
      BY <1>3, <3>1
    <3>3. /\ Weight(s, Waiting(queue))' = Weight(s, Waiting(queue))
          /\ Weight(s, Waiting(reserved))' = Weight(s, Waiting(reserved))
          /\ Weight(s, Suspended)' = Weight(s, Suspended)
          /\ Weight(s, fallback)' = Weight(s, fallback)
      BY <1>1, <2>1, Frame
    <3>4. served'[s] = served[s] /\ refused'[s] = refused[s] + e
      BY <1>1, <1>5, <3>1 DEF Plus
    <3> QED
      BY <3>1, <3>2, <3>3, <3>4, Weighed DEF Load, ToDo
  <2>3. \A s \in Source : Load(s)' \in Nat /\ Load(s)' =< Load(s) + asked[s]
    BY <2>2, Weighed
  <2> QED
    BY <1>1, <1>5, <2>3, OneFault
<1> QED
  BY <1>2, <1>4, <1>5 DEF Delay

LEMMA BalancedTimeout ==
  ASSUME Typed, Listed, Balanced, Refill \/ VisibilityTimeout
  PROVE  Balanced'
<1>1. UNCHANGED <<sent, reserved, proc, loop, fallback, asked, served, refused>>
  BY DEF Refill, VisibilityTimeout, worker, history, broker
<1>2. ASSUME NEW s \in Source
      PROVE  /\ Weight(s, Waiting(reserved))' = Weight(s, Waiting(reserved))
             /\ Weight(s, Todos)' = Weight(s, Todos) /\ Weight(s, Suspended)' = Weight(s, Suspended)
             /\ Weight(s, fallback)' = Weight(s, fallback)
             /\ served'[s] = served[s] /\ refused'[s] = refused[s]
  BY <1>1, Frame
<1>3. CASE Refill
  <2>1. UNCHANGED <<queue, faults>>
    BY <1>3 DEF Refill, broker
  <2>2. ASSUME NEW s \in Source
        PROVE  Load(s)' = Load(s)
    <3>1. Weight(s, Waiting(queue))' = Weight(s, Waiting(queue))
      BY <1>1, <2>1, Frame
    <3> QED
      BY <1>2, <3>1, Weighed DEF Load, ToDo
  <2>3. \A s \in Source : Load(s)' \in Nat /\ Load(s)' =< Load(s)
    BY <2>2, Weighed
  <2> QED
    BY <1>1, <2>1, <2>3, Steady
<1>4. CASE VisibilityTimeout
  <2>1. PICK m \in Range(reserved) \cup {proc[p].msg : p \in Busy} : queue' = Append(queue, m)
    BY <1>4 DEF VisibilityTimeout
  <2>2. m \in Sent /\ Fault
    BY <1>4, <2>1, Parts, RunningSent DEF Range, Busy, VisibilityTimeout
  <2>3. PICK q \in Seq(Sent) : q = Append(queue, m)
    BY <2>2, Parts, Appending
  <2>4. Waiting(queue)' = Waiting(q)
    BY <1>1, <2>1, <2>3, Frame
  <2>5. ASSUME NEW s \in Source
        PROVE  Load(s)' \in Nat /\ Load(s)' =< Load(s) + asked[s]
    <3>1. PICK l \in Nat : l = Times(s, sent[m].list) /\ l =< asked[s]
      BY <2>2, NamedAsked
    <3>2. Weight(s, Waiting(queue))' = Weight(s, Waiting(queue)) + l
      BY <2>2, <2>3, <2>4, <3>1, Parts, WaitsMore
    <3>3. /\ Weight(s, Waiting(reserved))' = Weight(s, Waiting(reserved))
          /\ Weight(s, Todos)' = Weight(s, Todos) /\ Weight(s, Suspended)' = Weight(s, Suspended)
          /\ Weight(s, fallback)' = Weight(s, fallback)
          /\ served'[s] = served[s] /\ refused'[s] = refused[s]
      BY <1>2
    <3>4. PICK a \in Nat, b \in Nat, c \in Nat, d \in Nat, g \in Nat, j \in Nat, f \in Nat :
            /\ a = served[s] /\ b = refused[s] /\ c = Weight(s, Waiting(queue))
            /\ d = Weight(s, Waiting(reserved)) /\ g = Weight(s, Todos) /\ j = Weight(s, Suspended)
            /\ f = Weight(s, fallback)
      BY Weighed
    <3>5. Load(s) = a + b + (c + d + g + j + f)
      BY <3>4 DEF Load, ToDo
    <3>6. Load(s)' = a + b + ((c + l) + d + g + j + f)
      BY <3>2, <3>3, <3>4 DEF Load, ToDo
    <3>0. PICK k \in Nat, o \in Nat : k = Load(s) /\ o = asked[s]
      BY Weighed
    <3>7. PICK n : n = Load(s)'
      OBVIOUS
    <3>8. n = a + b + ((c + l) + d + g + j + f) /\ k = a + b + (c + d + g + j + f)
      BY <3>0, <3>5, <3>6, <3>7
    <3>9. n \in Nat /\ n = k + l
      BY <3>8
    <3>10. l =< o
      BY <3>0, <3>1
    <3>11. n =< k + o
      BY <3>9, <3>10
    <3> QED
      BY <3>0, <3>7, <3>9, <3>11
  <2> QED
    BY <1>1, <2>2, <2>5, OneFault
<1> QED
  BY <1>3, <1>4

(* A collect_all_feeds that comes back starts over, the others are what    *)
(* their processes had still to do.                                        *)
LEMMA RunsLoad ==
  ASSUME Typed, Listed, NEW s \in Source, NEW ms, ms = {proc[p].msg : p \in Busy}
  PROVE  /\ ms \subseteq Sent /\ IsLists(Lists(ms)) /\ Weight(s, Lists(ms)) \in Nat
         /\ Weight(s, Lists(ms)) =< Weight(s, Todos) + asked[s]
<1>1. \A m \in ms : \E p \in Proc : proc[p] # Idle /\ proc[p].msg = m
  BY DEF Busy
<1>2. ms \subseteq Sent
  BY <1>1, RunningSent
<1>3. PICK w, u, A, B, t : /\ w = Lists(ms) /\ u = Lists(AllMessages) /\ A = ms \cap AllMessages
                           /\ B = ms \ A /\ t = Todos
  OBVIOUS
<1>4. /\ IsLists(w) /\ DOMAIN w = ms /\ \A m \in ms : w[m] = sent[m].list
      /\ IsLists(u) /\ DOMAIN u = AllMessages /\ \A m \in AllMessages : u[m] = sent[m].list
  <2>1. AllMessages \subseteq Sent
    BY DEF AllMessages
  <2>2. IsLists(w) /\ IsLists(u)
    BY <1>2, <1>3, <2>1, ListsTyped DEF Typed
  <2> QED
    BY <1>3, <2>2 DEF Lists
<1>5. /\ Weight(s, w) = Weight(s, Only(w, A)) + Weight(s, Only(w, B)) /\ IsLists(Only(w, B))
      /\ Weight(s, Only(w, A)) \in Nat /\ Weight(s, Only(w, B)) \in Nat
  <2>1. A \subseteq DOMAIN w /\ B = DOMAIN w \ A
    BY <1>3, <1>4
  <2> QED
    BY <1>4, <2>1, Fewer
<1>6. Weight(s, Only(w, A)) =< asked[s]
  <2>1. Only(w, A) = Only(u, A)
    BY <1>3, <1>4 DEF Only
  <2>2. A \subseteq DOMAIN u
    BY <1>3, <1>4
  <2>3. Weight(s, Only(u, A)) =< Weight(s, u) /\ Weight(s, Only(u, A)) \in Nat
    BY <1>4, <2>2, Fewer
  <2>4. Weight(s, u) =< asked[s] /\ Weight(s, u) \in Nat /\ asked[s] \in Nat
    BY <1>3, <1>4, MentionsFinite, Weighed DEF Listed, Named
  <2> QED
    BY <2>1, <2>3, <2>4
<1>7. Weight(s, Only(w, B)) =< Weight(s, t)
  <2>1. PICK g : g = [m \in B |-> CHOOSE p \in Proc : proc[p] # Idle /\ proc[p].msg = m]
    OBVIOUS
  <2>2. \A m \in B : g[m] \in Proc /\ proc[g[m]] # Idle /\ proc[g[m]].msg = m
    BY <1>1, <1>3, <2>1
  <2>3. g \in Injection(B, Proc)
    <3>1. g \in [B -> Proc]
      BY <2>1, <2>2
    <3> QED
      BY <2>2, <3>1 DEF Injection, IsInjective
  <2>4. \A m \in B : t[g[m]] = sent[m].list
    <3> SUFFICES ASSUME NEW m \in B PROVE t[g[m]] = sent[m].list
      OBVIOUS
    <3>1. Running(g[m]) = sent[m] /\ m \notin AllMessages /\ m \in Sent
      BY <1>2, <1>3, <2>2 DEF Running
    <3>2. Running(g[m]).kind # "all"
      BY <3>1 DEF AllMessages
    <3>3. proc[g[m]].todo = Running(g[m]).list
      BY <2>2, <3>2 DEF Listed, RunOK
    <3> QED
      BY <1>3, <2>2, <3>1, <3>3 DEF Todos
  <2>5. IsLists(t) /\ DOMAIN t = Proc
    BY <1>3, Weighed DEF Todos
  <2>9. B \subseteq ms /\ \A m \in B : w[m] = sent[m].list
    BY <1>3, <1>4
  <2>10. DOMAIN Only(w, B) = B /\ \A m \in B : Only(w, B)[m] = sent[m].list
    BY <2>9 DEF Only
  <2>6. PICK v : v = Only(w, B) /\ DOMAIN v = B /\ \A m \in B : v[m] = sent[m].list
    BY <2>10
  <2>7. g \in Injection(DOMAIN v, DOMAIN t) /\ \A m \in DOMAIN v : v[m] = t[g[m]]
    BY <2>3, <2>4, <2>5, <2>6
  <2>8. Weight(s, v) =< Weight(s, t)
    BY <1>5, <2>5, <2>6, <2>7, Rekeyed
  <2> QED
    BY <2>6, <2>8
<1>8. Weight(s, t) \in Nat /\ asked[s] \in Nat
  BY <1>3, Weighed
<1>9. Weight(s, w) \in Nat /\ Weight(s, w) =< Weight(s, t) + asked[s]
  BY <1>5, <1>6, <1>7, <1>8
<1> QED
  BY <1>2, <1>3, <1>4, <1>9

LEMMA OrderLoad ==
  ASSUME Typed, NEW s, NEW ms, ms \subseteq Sent, NEW order \in Bijection(1 .. Cardinality(ms), ms)
  PROVE  order \in Seq(Sent) /\ Weight(s, Waiting(order)) = Weight(s, Lists(ms))
<1>1. order \in Seq(Sent) /\ DOMAIN order = 1 .. Cardinality(ms) /\ Len(order) = Cardinality(ms)
  <2>1. Cardinality(ms) \in Nat
    BY SentTyped, FS_Subset, FS_CardinalityType DEF Typed
  <2>2. order \in [1 .. Cardinality(ms) -> Sent]
    BY DEF Bijection, Injection
  <2>3. \A n \in Nat : \A S : \A f \in [1 .. n -> S] : f \in Seq(S) /\ Len(f) = n
    OBVIOUS
  <2> QED
    BY <2>1, <2>2, <2>3
<1>2. PICK a, w : a = Waiting(order) /\ w = Lists(ms)
  OBVIOUS
<1>3. IsLists(a) /\ DOMAIN a = DOMAIN order
  BY <1>1, <1>2, Waits, Row
<1>4. IsLists(w) /\ DOMAIN w = ms
  BY <1>2, ListsTyped DEF Typed, Lists
<1>5. order \in Bijection(DOMAIN a, DOMAIN w)
  BY <1>1, <1>3, <1>4
<1>6. \A k \in DOMAIN a : order[k] \in ms /\ a[k] = w[order[k]]
  BY <1>1, <1>2, <1>3, Waits DEF Lists, Bijection, Injection
<1> QED
  BY <1>1, <1>2, <1>3, <1>4, <1>5, <1>6, Same

LEMMA IdleLoad ==
  ASSUME NEW s, proc' = [p \in Proc |-> Idle]
  PROVE  Weight(s, Todos)' = 0
<1>1. PICK t : t = Todos'
  OBVIOUS
<1>2. \A p \in DOMAIN t : t[p] = <<>>
  BY <1>1 DEF Todos, Idle
<1>3. \A x : x \notin Mentions(s, t)
  <2>1. \A p \in DOMAIN t : DOMAIN t[p] = {}
    BY <1>2
  <2> QED
    BY <2>1, InMentions
<1>4. Mentions(s, t) = {}
  BY <1>3
<1> QED
  BY <1>1, <1>4, FS_EmptySet DEF Weight

LEMMA BalancedLost ==
  ASSUME Typed, Listed, Balanced, WorkerLost
  PROVE  Balanced'
<1>1. /\ Fault /\ UNCHANGED <<sent, fallback, asked, served>>
      /\ proc' = [p \in Proc |-> Idle] /\ loop' = [p \in Proc |-> {}]
      /\ reserved' = <<>> /\ refused' = PlusAll(refused, Lists(UNION {loop[p] : p \in Proc}))
  BY DEF WorkerLost
<1>2. PICK ms : ms = {proc[p].msg : p \in Busy}
  OBVIOUS
<1>3. ms \subseteq Sent
  BY <1>2, RunningSent DEF Busy
<1>4. PICK order \in Bijection(1 .. Cardinality(ms), ms) : queue' = queue \o reserved \o order
  BY <1>2 DEF WorkerLost
<1>5. order \in Seq(Sent)
  BY <1>3, OrderLoad
<1>6. PICK q \in Seq(Sent), r \in Seq(Sent), x \in Seq(Sent), y \in Seq(Sent) :
        q = queue /\ r = reserved /\ x = q \o r /\ y = x \o order
  BY <1>5, Parts, Joining
<1>7. queue' = y
  BY <1>4, <1>6
<1>8. Waiting(queue)' = Waiting(y) /\ Waiting(reserved)' = Waiting(<<>>)
  <2>1. \A m \in Sent : sent'[m] = sent[m]
    BY <1>1
  <2>2. queue' \in Seq(Sent) /\ reserved' \in Seq(Sent)
    BY <1>1, <1>6, <1>7
  <2> QED
    BY <1>1, <1>7, <2>1, <2>2, Frame
<1>9. ASSUME NEW s \in Source
      PROVE  Load(s)' \in Nat /\ Load(s)' =< Load(s) + asked[s]
  <2>1. PICK c \in Nat, d \in Nat, e \in Nat :
          c = Weight(s, Waiting(queue)) /\ d = Weight(s, Waiting(reserved)) /\ e = Weight(s, Lists(ms))
    BY <1>2, Weighed, RunsLoad
  <2>2. Weight(s, Waiting(x)) = c + d
    BY <1>6, <2>1, WaitsJoined
  <2>3. Weight(s, Waiting(y)) = Weight(s, Waiting(x)) + Weight(s, Waiting(order))
    BY <1>5, <1>6, WaitsJoined
  <2>4. Weight(s, Waiting(order)) = e
    BY <1>3, <2>1, OrderLoad
  <2>5. Weight(s, Waiting(queue))' = c + d + e
    BY <1>8, <2>2, <2>3, <2>4
  <2>6. Weight(s, Waiting(reserved))' = 0
    <3>1. PICK v : v = Waiting(<<>>)
      OBVIOUS
    <3>2. DOMAIN v = {}
      BY <3>1 DEF Waiting
    <3>3. Mentions(s, v) = {}
      BY <3>2, InMentions
    <3>4. Weight(s, v) = 0
      BY <3>3, FS_EmptySet DEF Weight
    <3> QED
      BY <1>8, <3>1, <3>4
  <2>7. Weight(s, Todos)' = 0
    BY <1>1, IdleLoad
  <2>8. PICK g \in Nat, j \in Nat :
          /\ Weight(s, Suspended)' = 0 /\ j = Weight(s, Suspended) /\ g =< j
          /\ g = Weight(s, Lists(UNION {loop[p] : p \in Proc}))
    BY <1>1, LoopAll, Weighed
  <2>9. PICK a \in Nat, b \in Nat, t \in Nat, f \in Nat, o \in Nat, k \in Nat :
          /\ a = served[s] /\ b = refused[s] /\ t = Weight(s, Todos) /\ f = Weight(s, fallback)
          /\ o = asked[s] /\ k = Load(s)
    BY Weighed
  <2>10. e =< t + o
    BY <1>2, <2>1, <2>9, RunsLoad
  <2>11. k = a + b + (c + d + t + j + f)
    BY <2>1, <2>8, <2>9 DEF Load, ToDo
  <2>12. /\ served'[s] = a /\ refused'[s] = b + g /\ Weight(s, fallback)' = f
    BY <1>1, <2>8, <2>9 DEF PlusAll, Weight
  <2>13. PICK n : n = Load(s)'
    OBVIOUS
  <2>14. n = a + (b + g) + ((c + d + e) + 0 + 0 + 0 + f)
    <3>1. Load(s)' = served'[s] + refused'[s] + ToDo(s)'
      BY DEF Load
    <3>2. ToDo(s)' = Weight(s, Waiting(queue))' + Weight(s, Waiting(reserved))' + Weight(s, Todos)'
                       + Weight(s, Suspended)' + Weight(s, fallback)'
      BY DEF ToDo
    <3>3. Weight(s, Suspended)' = 0
      BY <2>8
    <3>4. ToDo(s)' = (c + d + e) + 0 + 0 + 0 + f
      BY <2>5, <2>6, <2>7, <2>12, <3>2, <3>3
    <3> QED
      BY <2>12, <2>13, <3>1, <3>4
  <2>15. n \in Nat
    BY <2>14
  <2>16. n =< k + o
    <3>1. g =< j
      BY <2>8
    <3>2. n = (a + b + c + d + f) + (g + e) /\ k + o = (a + b + c + d + f) + (j + (t + o))
      BY <2>11, <2>14
    <3>3. g + e =< j + (t + o)
      BY <2>10, <3>1
    <3> QED
      BY <3>2, <3>3
  <2> QED
    BY <2>9, <2>13, <2>15, <2>16
<1> QED
  BY <1>1, <1>9, OneFault

-----------------------------------------------------------------------------
(***************************************************************************)
(* What messages name.                                                     *)
(***************************************************************************)
LEMMA NamedKept ==
  ASSUME Typed, Named, sent' = sent, \A s \in Source : asked'[s] \in Nat /\ asked[s] =< asked'[s]
  PROVE  Named'
<1>1. AllMessages' = AllMessages /\ Sent' = Sent
  BY DEF AllMessages, Sent
<1>2. PICK u : u = Lists(AllMessages)
  OBVIOUS
<1>3. Lists(AllMessages)' = u
  BY <1>1, <1>2 DEF Lists
<1>4. ASSUME NEW s \in Source
      PROVE  Weight(s, u) =< asked'[s]
  <2>1. IsLists(u)
    BY <1>2, ListsTyped DEF Typed, AllMessages
  <2>2. Weight(s, u) \in Nat /\ Weight(s, u) =< asked[s] /\ asked[s] \in Nat
    BY <1>2, <2>1, MentionsFinite, Weighed DEF Named
  <2> QED
    BY <2>2
<1>5. ASSUME NEW m \in Sent \ AllMessages, NEW s \in Source
      PROVE  Times(s, sent[m].list) =< 1 /\ Times(s, sent[m].list) =< asked'[s]
  <2>1. Times(s, sent[m].list) =< 1 /\ Times(s, sent[m].list) =< asked[s]
    BY DEF Named
  <2>2. Times(s, sent[m].list) \in Nat /\ asked[s] \in Nat
    BY SentTyped, TimesCount, Weighed DEF Typed
  <2> QED
    BY <2>1, <2>2
<1> QED
  BY <1>1, <1>3, <1>4, <1>5 DEF Named

LEMMA NamedSent ==
  ASSUME Typed, Named, NEW b \in Body, Send(b),
         \/ b.kind = "all" /\ asked' = Plus(asked, b.list)
         \/ /\ b.kind # "all" /\ asked' = asked
            /\ \A s \in Source : Times(s, b.list) =< 1 /\ Times(s, b.list) =< asked[s]
  PROVE  Named'
<1>1. PICK e \in Nat : e = Len(sent) + 1
  BY SentTyped DEF Typed
<1>2. /\ sent' = Append(sent, b) /\ sent'[e] = b /\ e \notin Sent /\ Sent' = Sent \cup {e}
      /\ \A m \in Sent : sent'[m] = sent[m]
  <2>1. sent \in Seq(Body) /\ Len(sent) \in Nat
    BY Parts, SentTyped DEF Typed
  <2>2. sent' = Append(sent, b) /\ Len(sent') = Len(sent) + 1 /\ \A m \in Sent : sent'[m] = sent[m]
    BY Sending DEF Send
  <2>3. sent'[e] = b
    BY <1>1, <2>1, <2>2, Appending
  <2> QED
    BY <1>1, <2>1, <2>2, <2>3 DEF Sent
<1>3. b.list \in Seq(Source)
  BY DEF Body
<1>4. PICK u, v : u = Lists(AllMessages) /\ v = Lists(AllMessages)'
  OBVIOUS
<1>5. IsLists(u) /\ DOMAIN u = AllMessages /\ \A m \in AllMessages : u[m] = sent[m].list
  BY <1>4, ListsTyped DEF Typed, Lists, AllMessages
<1>6. DOMAIN v = AllMessages' /\ \A m \in AllMessages' : v[m] = sent'[m].list
  BY <1>4 DEF Lists
<1>7. \A m \in Sent : m \in AllMessages' <=> m \in AllMessages
  BY <1>2 DEF AllMessages
<1>8. e \in AllMessages' <=> b.kind = "all"
  BY <1>2 DEF AllMessages
<1>9. AllMessages \subseteq Sent /\ AllMessages' \subseteq Sent'
  BY DEF AllMessages
<1>10. ASSUME NEW s \in Source
       PROVE  /\ Times(s, b.list) \in Nat /\ asked[s] \in Nat /\ Weight(s, u) \in Nat
              /\ Weight(s, u) =< asked[s]
  BY <1>3, <1>4, <1>5, TimesCount, Weighed, MentionsFinite DEF Named
<1>11. ASSUME NEW m \in Sent \ AllMessages, NEW s \in Source
       PROVE  /\ Times(s, sent'[m].list) =< 1 /\ Times(s, sent'[m].list) =< asked[s]
              /\ Times(s, sent'[m].list) \in Nat
  BY <1>2, SentTyped, TimesCount DEF Named, Typed
<1>12. CASE b.kind = "all" /\ asked' = Plus(asked, b.list)
  <2>1. AllMessages' = AllMessages \cup {e}
    BY <1>2, <1>7, <1>8, <1>9, <1>12
  <2>2. v[e] = b.list /\ \A m \in AllMessages : v[m] = u[m]
    BY <1>2, <1>5, <1>6, <1>9, <2>1
  <2>3. IsLists(v)
    <3>1. IsFiniteSet(AllMessages')
      BY <1>5, <2>1, FS_AddElement DEF IsLists
    <3>2. \A m \in AllMessages' : v[m] \in Seq(Source)
      BY <1>3, <1>5, <2>1, <2>2 DEF IsLists
    <3>3. v = [m \in AllMessages' |-> v[m]]
      BY <1>4 DEF Lists
    <3> QED
      BY <1>6, <3>1, <3>2, <3>3 DEF IsLists
  <2>4. Extends(v, u, e)
    BY <1>2, <1>5, <1>6, <1>9, <2>1, <2>2, <2>3 DEF Extends
  <2>5. ASSUME NEW s \in Source
        PROVE  /\ Weight(s, v) =< asked'[s] /\ asked[s] =< asked'[s] /\ asked'[s] \in Nat
    <3>1. Weight(s, v) = Weight(s, u) + Times(s, b.list)
      BY <2>2, <2>4, Added
    <3>2. asked'[s] = asked[s] + Times(s, b.list)
      BY <1>12 DEF Plus
    <3> QED
      BY <1>10, <3>1, <3>2
  <2>6. ASSUME NEW m \in Sent' \ AllMessages', NEW s \in Source
        PROVE  Times(s, sent'[m].list) =< 1 /\ Times(s, sent'[m].list) =< asked'[s]
    <3>1. m \in Sent \ AllMessages
      BY <1>2, <2>1
    <3> QED
      BY <1>10, <1>11, <2>5, <3>1
  <2> QED
    BY <1>4, <2>5, <2>6 DEF Named
<1>13. CASE /\ b.kind # "all" /\ asked' = asked
            /\ \A s \in Source : Times(s, b.list) =< 1 /\ Times(s, b.list) =< asked[s]
  <2>1. AllMessages' = AllMessages
    BY <1>2, <1>7, <1>8, <1>9, <1>13
  <2>2. v = u
    BY <1>2, <1>4, <1>9, <2>1 DEF Lists
  <2>3. ASSUME NEW m \in Sent' \ AllMessages', NEW s \in Source
        PROVE  Times(s, sent'[m].list) =< 1 /\ Times(s, sent'[m].list) =< asked'[s]
    <3>1. CASE m = e
      BY <1>2, <1>13, <3>1
    <3>2. CASE m # e
      BY <1>2, <1>11, <1>13, <2>1, <3>2
    <3> QED
      BY <3>1, <3>2
  <2> QED
    BY <1>4, <1>10, <1>13, <2>2, <2>3 DEF Named
<1> QED
  BY <1>12, <1>13

LEMMA RunKept ==
  ASSUME Typed, \A m \in Sent : sent'[m] = sent[m], NEW q \in Proc, RunOK(q),
         proc'[q] = Idle \/ proc'[q] = proc[q]
  PROVE  RunOK(q)'
<1>1. SUFFICES ASSUME proc[q] # Idle, proc'[q] = proc[q] PROVE RunOK(q)'
  BY DEF RunOK, Idle
<1>2. Running(q)' = Running(q)
  BY <1>1, RunningSent DEF Running
<1> QED
  BY <1>1, <1>2 DEF RunOK, RestOf

LEMMA ListedIdle ==
  ASSUME Typed, Listed, sent' = sent,
         \A s \in Source : asked'[s] \in Nat /\ asked[s] =< asked'[s],
         \A q \in Proc : proc'[q] = Idle \/ proc'[q] = proc[q]
  PROVE  Listed'
<1>1. Named'
  BY NamedKept DEF Listed
<1>2. \A q \in Proc : RunOK(q)'
  BY RunKept DEF Listed
<1> QED
  BY <1>1, <1>2 DEF Listed

LEMMA ListedApi ==
  ASSUME Typed, Listed, PullFeeds \/ PullFallsBack \/ Beat
  PROVE  Listed'
<1>1. proc' = proc
  BY DEF PullFeeds, PullFallsBack, Beat, worker
<1>2. ASSUME NEW b \in Body, Send(b),
             \/ b.kind = "all" /\ asked' = Plus(asked, b.list)
             \/ /\ b.kind # "all" /\ asked' = asked
                /\ \A s \in Source : Times(s, b.list) =< 1 /\ Times(s, b.list) =< asked[s]
      PROVE  Listed'
  <2>1. Named'
    BY <1>2, NamedSent DEF Listed
  <2>2. \A m \in Sent : sent'[m] = sent[m]
    BY <1>2, Sending
  <2>3. \A q \in Proc : RunOK(q)'
    BY <1>1, <2>2, RunKept DEF Listed
  <2> QED
    BY <2>1, <2>3 DEF Listed
<1>3. \A l \in Seq(Source) : All(l) \in Body /\ All(l).list = l /\ All(l).kind = "all"
  BY Bodies DEF All
<1>4. CASE PullFeeds
  <2>1. PICK l \in Asks : Send(All(l)) /\ asked' = Plus(asked, l)
    BY <1>4 DEF PullFeeds
  <2> QED
    BY <1>2, <1>3, <2>1, AsksAssumption
<1>5. CASE PullFallsBack
  <2>1. PICK l \in Asks : asked' = Plus(asked, l) /\ sent' = sent
    BY <1>5 DEF PullFallsBack, broker
  <2>2. ASSUME NEW s \in Source
        PROVE  asked'[s] \in Nat /\ asked[s] =< asked'[s]
    <3>1. asked'[s] = asked[s] + Times(s, l) /\ Times(s, l) \in Nat
      BY <2>1, AsksAssumption, TimesCount DEF Plus
    <3> QED
      BY <3>1, Weighed
  <2> QED
    BY <1>1, <2>1, <2>2, ListedIdle
<1>6. CASE Beat
  <2>1. CASE Send(All(SourceMap)) /\ asked' = Plus(asked, SourceMap)
    BY <1>2, <1>3, <2>1, SourceMapTyped
  <2>2. CASE Send(Chore) /\ asked' = asked
    <3>1. Chore \in Body /\ Chore.list = <<>> /\ Chore.kind # "all"
      BY Bodies DEF Chore
    <3>2. \A s \in Source : Times(s, <<>>) =< 1 /\ Times(s, <<>>) =< asked[s]
      BY TimesShort, Weighed
    <3> QED
      BY <1>2, <2>2, <3>1, <3>2
  <2> QED
    BY <1>6, <2>1, <2>2 DEF Beat
<1> QED
  BY <1>4, <1>5, <1>6

LEMMA ListedStart ==
  ASSUME Typed, Listed, NEW p \in Proc, StartTask(p)
  PROVE  Listed'
<1>1. UNCHANGED <<sent, asked>>
  BY DEF StartTask, broker
<1>2. PICK i \in DOMAIN reserved :
        proc' = [proc EXCEPT ![p] = [msg |-> reserved[i], todo |-> sent[reserved[i]].list]]
  BY DEF StartTask, Next1
<1>3. PICK m \in Sent : m = reserved[i]
  BY Parts
<1>4. Named'
  BY <1>1, NamedKept, Weighed DEF Listed
<1>5. ASSUME NEW q \in Proc
      PROVE  RunOK(q)'
  <2>1. CASE q = p
    <3>1. proc'[q] = [msg |-> m, todo |-> sent[m].list]
      BY <1>2, <1>3, <2>1, Parts
    <3>2. Running(q)' = sent[m] /\ proc'[q].todo = sent[m].list
      BY <1>1, <3>1 DEF Running
    <3>3. \A s \in Source : Times(s, sent[m].list) =< Times(s, sent[m].list)
      <4>1. sent[m].list \in Seq(Source)
        BY SentTyped DEF Typed
      <4>2. \A s \in Source : Times(s, sent[m].list) \in Nat
        BY <4>1, TimesCount
      <4> QED
        BY <4>2
    <3> QED
      BY <3>2, <3>3 DEF RunOK, RestOf
  <2>2. CASE q # p
    <3>1. proc'[q] = proc[q]
      BY <1>2, <2>2, Parts
    <3> QED
      BY <1>1, <3>1, RunKept DEF Listed
  <2> QED
    BY <2>1, <2>2
<1> QED
  BY <1>4, <1>5 DEF Listed

LEMMA ListedDelay ==
  ASSUME Typed, Listed, NEW p \in Proc, Delay(p)
  PROVE  Listed'
<1>1. /\ proc[p] # Idle /\ Running(p).kind = "all" /\ asked' = asked
  BY DelayParts
<1>2. PICK h \in Source, j \in Job :
        /\ h = Head(proc[p].todo) /\ j.msg = proc[p].msg /\ proc' = [proc EXCEPT ![p] = j]
        /\ \A x : Times(x, proc[p].todo) = Times(x, j.todo) + (IF h = x THEN 1 ELSE 0)
  BY DelayParts
<1>3. ASSUME NEW s \in Source
      PROVE  /\ Times(s, j.todo) =< Times(s, Running(p).list)
             /\ Times(s, <<h>>) =< 1 /\ Times(s, <<h>>) =< asked[s]
  <2>1. PICK a \in Nat, b \in Nat, c \in Nat, d \in Nat, e \in Nat :
          /\ a = Times(s, j.todo) /\ b = Times(s, proc[p].todo) /\ c = Times(s, Running(p).list)
          /\ d = asked[s] /\ e = (IF h = s THEN 1 ELSE 0) /\ b =< c /\ c =< d
    <3>1. Times(s, j.todo) \in Nat /\ asked[s] \in Nat
      BY TimesCount, Weighed DEF Job
    <3>2. /\ Times(s, proc[p].todo) \in Nat /\ Times(s, Running(p).list) \in Nat
          /\ Times(s, proc[p].todo) =< Times(s, Running(p).list)
          /\ Times(s, Running(p).list) =< asked[s]
      BY <1>1, RunListed
    <3> QED
      BY <3>1, <3>2
  <2>2. b = a + e
    BY <1>2, <2>1
  <2>3. Times(s, <<h>>) = e
    BY <2>1, TimesShort
  <2> QED
    BY <2>1, <2>2, <2>3
<1>4. Named' /\ \A m \in Sent : sent'[m] = sent[m]
  <2>1. CASE Send(One(h))
    <3>1. One(h) \in Body /\ One(h).list = <<h>> /\ One(h).kind # "all"
      BY Bodies DEF One
    <3> QED
      BY <1>1, <1>3, <2>1, <3>1, NamedSent, Sending DEF Listed
  <2>2. CASE sent' = sent
    BY <1>1, <2>2, NamedKept, Weighed DEF Listed
  <2> QED
    BY <1>2, <2>1, <2>2 DEF Delay, broker
<1>5. ASSUME NEW q \in Proc
      PROVE  RunOK(q)'
  <2>1. CASE q = p
    <3>1. proc'[q] = j
      BY <1>2, <2>1, Parts
    <3>2. Running(q)' = Running(p)
      BY <1>1, <1>2, <1>4, <3>1, RunningSent DEF Running
    <3> QED
      BY <1>1, <1>3, <3>1, <3>2 DEF RunOK, RestOf
  <2>2. CASE q # p
    <3>1. proc'[q] = proc[q]
      BY <1>2, <2>2, Parts
    <3> QED
      BY <1>4, <3>1, RunKept DEF Listed
  <2> QED
    BY <2>1, <2>2
<1> QED
  BY <1>4, <1>5 DEF Listed

LEMMA ListedNext == Typed /\ Listed /\ [Next]_vars => Listed'
<1> SUFFICES ASSUME Typed, Listed, [Next]_vars PROVE Listed'
  OBVIOUS
<1>1. \A s \in Source : asked[s] \in Nat /\ asked[s] =< asked[s]
  BY Weighed
<1>2. CASE \/ ApiRestarts \/ Take \/ Refill \/ WorkerLost \/ VisibilityTimeout \/ UNCHANGED vars
           \/ \E i \in DOMAIN fallback : RunCollectorsSync(i)
  <2>1. /\ sent' = sent /\ asked' = asked /\ \A q \in Proc : proc'[q] = Idle \/ proc'[q] = proc[q]
    BY <1>2 DEF ApiRestarts, Take, Refill, WorkerLost, VisibilityTimeout, RunCollectorsSync, vars,
                worker, broker, history
  <2> QED
    BY <1>1, <2>1, ListedIdle
<1>3. CASE PullFeeds \/ PullFallsBack \/ Beat
  BY <1>3, ListedApi
<1>4. ASSUME NEW p \in Proc, Return(p) \/ SoftLimit(p) \/ HardLimit(p) \/ ProcessLost(p)
                             \/ Resume(p) \/ Recycle(p)
      PROVE  Listed'
  <2>1. sent' = sent /\ asked' = asked
    BY <1>4 DEF Return, SoftLimit, HardLimit, ProcessLost, Resume, Recycle, broker
  <2>2. proc' = proc \/ proc' = [proc EXCEPT ![p] = Idle]
    BY <1>4 DEF Return, SoftLimit, HardLimit, ProcessLost, Resume, Recycle, Acknowledge
  <2>3. \A q \in Proc : proc'[q] = Idle \/ proc'[q] = proc[q]
    BY <2>2, Parts
  <2> QED
    BY <1>1, <2>1, <2>3, ListedIdle
<1> QED
  BY <1>2, <1>3, <1>4, ListedStart, ListedDelay DEF Next, Step, Finished

-----------------------------------------------------------------------------
LEMMA InvInit == Init => IInv
<1> SUFFICES ASSUME Init PROVE IInv
  OBVIOUS
<1>1. Typed
  BY TypedInit
<1>2. sent = <<>> /\ queue = <<>> /\ reserved = <<>> /\ fallback = <<>>
      /\ proc = [p \in Proc |-> Idle] /\ loop = [p \in Proc |-> {}]
  BY DEF Init
<1>3. \A s, L : DOMAIN L = {} => Weight(s, L) = 0
  <2> SUFFICES ASSUME NEW s, NEW L, DOMAIN L = {} PROVE Weight(s, L) = 0
    OBVIOUS
  <2>1. Mentions(s, L) = {}
    BY InMentions
  <2> QED
    BY <2>1, FS_EmptySet DEF Weight
<1>4. Sent = {} /\ AllMessages = {}
  BY <1>2 DEF Sent, AllMessages
<1>5. Listed
  <2>1. DOMAIN Lists(AllMessages) = {}
    BY <1>4 DEF Lists
  <2>2. \A s \in Source : Weight(s, Lists(AllMessages)) = 0
    BY <1>3, <2>1
  <2>3. \A s \in Source : Weight(s, Lists(AllMessages)) =< asked[s]
    BY <1>1, <2>2, Weighed
  <2>4. \A p \in Proc : RunOK(p)
    BY <1>2 DEF RunOK
  <2> QED
    BY <1>4, <2>3, <2>4 DEF Listed, Named
<1>6. Balanced
  <2> SUFFICES ASSUME NEW s \in Source
               PROVE  served[s] + refused[s] + ToDo(s) =< asked[s] * (1 + faults)
    BY DEF Balanced
  <2>1. served[s] = 0 /\ refused[s] = 0 /\ asked[s] = 0 /\ faults = 0
    BY DEF Init, Never
  <2>2. /\ DOMAIN Waiting(queue) = {} /\ DOMAIN Waiting(reserved) = {} /\ DOMAIN fallback = {}
        /\ DOMAIN Suspended = {}
    BY <1>2 DEF Waiting, Suspended, Stays
  <2>3. Weight(s, Todos) = 0
    <3>1. PICK t : t = Todos
      OBVIOUS
    <3>2. \A p \in DOMAIN t : DOMAIN t[p] = {}
      BY <1>2, <3>1 DEF Todos, Idle
    <3>3. \A x : x \notin Mentions(s, t)
      BY <3>2, InMentions
    <3>4. Mentions(s, t) = {}
      BY <3>3
    <3> QED
      BY <3>1, <3>4, FS_EmptySet DEF Weight
  <2>4. ToDo(s) = 0 + 0 + 0 + 0 + 0
    BY <1>3, <2>2, <2>3 DEF ToDo
  <2> QED
    BY <2>1, <2>4
<1> QED
  BY <1>1, <1>5, <1>6 DEF IInv

LEMMA BalancedNext == Typed /\ Listed /\ Balanced /\ [Next]_vars => Balanced'
<1> SUFFICES ASSUME Typed, Listed, Balanced, [Next]_vars PROVE Balanced'
  OBVIOUS
<1>1. CASE PullFeeds \/ PullFallsBack \/ ApiRestarts \/ Beat
           \/ \E i \in DOMAIN fallback : RunCollectorsSync(i)
  BY <1>1, BalancedApi
<1>2. CASE Take \/ Refill \/ WorkerLost \/ VisibilityTimeout
  BY <1>2, BalancedTake, BalancedTimeout, BalancedLost
<1>3. ASSUME NEW p \in Proc, StartTask(p) \/ Step(p) \/ Resume(p) \/ Recycle(p)
                             \/ SoftLimit(p) \/ HardLimit(p) \/ ProcessLost(p)
      PROVE  Balanced'
  BY <1>3, BalancedStart, BalancedDelay, BalancedEnd, BalancedLoop DEF Step
<1>4. CASE UNCHANGED vars
  <2>1. /\ UNCHANGED <<sent, queue, reserved, proc, loop, fallback, asked, served, refused, faults>>
    BY <1>4 DEF vars
  <2>2. \A s \in Source : Load(s)' = Load(s)
    BY <2>1, Frame DEF Load, ToDo
  <2>3. \A s \in Source : Load(s)' \in Nat /\ Load(s)' =< Load(s)
    BY <2>2, Weighed
  <2> QED
    BY <2>1, <2>3, Steady
<1> QED
  BY <1>1, <1>2, <1>3, <1>4 DEF Next, Finished

LEMMA Inductive == IInv /\ [Next]_vars => IInv'
BY TypedNext, ListedNext, BalancedNext DEF IInv

LEMMA InvBounded == IInv => RepeatsBounded
<1> SUFFICES ASSUME IInv, NEW s \in Source
             PROVE  served[s] + refused[s] =< asked[s] * (1 + faults)
  BY DEF RepeatsBounded
<1>1. served[s] + refused[s] + ToDo(s) =< asked[s] * (1 + faults)
  BY DEF IInv, Balanced
<1>2. PICK a \in Nat, b \in Nat, c \in Nat, f \in Nat :
        a = served[s] /\ b = refused[s] /\ c = asked[s] /\ f = faults
  BY Weighed DEF IInv
<1>3. ToDo(s) \in Nat
  BY Weighed DEF IInv, ToDo
<1>4. c * (1 + f) \in Nat
  BY Distributes
<1> QED
  BY <1>1, <1>2, <1>3, <1>4

(* However messages are redelivered, a source is served or given up no     *)
(* more often than it was asked for, and once more for each fault: the     *)
(* redeliveries of task_acks_late (tasks/celery_app.py) add up and never   *)
(* multiply, whatever the pool, the requests and the bounds.               *)
THEOREM RepeatsStayBounded == Spec => []RepeatsBounded
BY InvInit, Inductive, InvBounded, PTL DEF Spec
=============================================================================
