------------------------- MODULE ProjectRegistryProofs -------------------------
(***************************************************************************)
(* What holds of ProjectRegistry, for any number of calls and of folders.  *)
(*                                                                         *)
(* First what the operators on entries return: given entries whose orders  *)
(* are distinct and below their number (Good), all of them return such     *)
(* entries again, and keep the relative order of all but the one they put  *)
(* somewhere.  Then what a step that saves does to the file (SaveFacts).   *)
(***************************************************************************)
EXTENDS ProjectRegistry, FiniteSetTheorems, TLAPS

\* No two entries tie.
Distinct(es) == \A p, q \in DOMAIN es : es[p].order = es[q].order => p = q

\* Distinct orders below the number of entries: such orders are dense (GoodIsDense).
Good(es) ==
    /\ IsRegistry(es)
    /\ Distinct(es)
    /\ \A p \in DOMAIN es : es[p].order < Size(es)

\* es and fs have the entries ps in the same relative order.
SameOrder(es, fs, ps) ==
    \A p, q \in ps : es[p].order < es[q].order <=> fs[p].order < fs[q].order

\* The entries are good wherever they are.
GoodInv == Good(file) /\ \A c \in Calls : Good(mem[c])

\* A call at work has been asked for something, and a scan that has not ended has
\* something left to add.
RequestInv == \A c \in Calls :
    /\ pc[c] \in {"load", "discover", "save"} => ask[c] \in Requests
    /\ pc[c] = "save" /\ ask[c].op = "scan" => todo[c] # {}

-----------------------------------------------------------------------------
(* The operators on entries. *)

\* Entries are finitely many, and each has a natural number for its order.
LEMMA RegistryFacts ==
    ASSUME NEW es, IsRegistry(es)
    PROVE  /\ IsFiniteSet(DOMAIN es) /\ Size(es) \in Nat
           /\ \A p \in DOMAIN es : es[p] \in Entry /\ es[p].order \in Nat
<1>1. IsFiniteSet(DOMAIN es)
  BY FS_Subset, PathsAssumption DEF IsRegistry
<1>2. Size(es) \in Nat
  BY <1>1, FS_CardinalityType DEF Size
<1>. QED
  BY <1>1, <1>2 DEF IsRegistry, Entry

\* Place is below the number of the entries counted, and grows with the order.
LEMMA PlaceFacts ==
    ASSUME NEW es, IsFiniteSet(DOMAIN es), \A p \in DOMAIN es : es[p].order \in Nat,
           NEW ps \in SUBSET DOMAIN es
    PROVE  /\ Cardinality(ps) \in Nat
           /\ \A p \in DOMAIN es : Place(es, ps, p) \in 0..Cardinality(ps)
           /\ \A p \in ps : Place(es, ps, p) < Cardinality(ps)
           /\ \A p, q \in DOMAIN es :
                 es[p].order <= es[q].order => Place(es, ps, p) <= Place(es, ps, q)
           /\ \A p \in ps, q \in DOMAIN es :
                 es[p].order < es[q].order => Place(es, ps, p) < Place(es, ps, q)
<1> DEFINE below(p) == {q \in ps : es[q].order < es[p].order}
<1>1. IsFiniteSet(ps) /\ Cardinality(ps) \in Nat
  BY FS_Subset, FS_CardinalityType
<1>2. \A p \in DOMAIN es : /\ IsFiniteSet(below(p)) /\ Cardinality(below(p)) \in Nat
                           /\ Cardinality(below(p)) <= Cardinality(ps)
  BY <1>1, FS_Subset, FS_CardinalityType
<1>3. \A p \in ps : Cardinality(below(p)) < Cardinality(ps)
  <2> SUFFICES ASSUME NEW p \in ps PROVE Cardinality(below(p)) < Cardinality(ps)
    OBVIOUS
  <2>1. below(p) \subseteq ps /\ below(p) # ps
    OBVIOUS
  <2>2. Cardinality(ps) = Cardinality(below(p)) => ps = below(p)
    BY <1>1, <2>1, FS_Subset
  <2>3. Cardinality(below(p)) \in Nat /\ Cardinality(below(p)) <= Cardinality(ps)
    BY <1>2
  <2>. HIDE DEF below
  <2>. QED
    BY <1>1, <2>1, <2>2, <2>3
<1>4. ASSUME NEW p \in DOMAIN es, NEW q \in DOMAIN es, es[p].order <= es[q].order
      PROVE  Cardinality(below(p)) <= Cardinality(below(q))
  <2>1. below(p) \subseteq below(q)
    BY <1>4
  <2>. QED
    BY <1>2, <2>1, FS_Subset
<1>5. ASSUME NEW p \in ps, NEW q \in DOMAIN es, es[p].order < es[q].order
      PROVE  Cardinality(below(p)) < Cardinality(below(q))
  <2>1. below(p) \subseteq below(q) /\ below(p) # below(q)
    <3>1. p \in below(q) /\ p \notin below(p)
      BY <1>5
    <3>2. below(p) \subseteq below(q)
      BY <1>5
    <3>. QED
      BY <3>1, <3>2
  <2>2. /\ IsFiniteSet(below(q))
        /\ Cardinality(below(q)) \in Nat /\ Cardinality(below(p)) \in Nat
    BY <1>2
  <2>3. Cardinality(below(q)) = Cardinality(below(p)) => below(q) = below(p)
    BY <2>1, <2>2, FS_Subset
  <2>4. Cardinality(below(p)) <= Cardinality(below(q))
    BY <2>1, <2>2, FS_Subset
  <2>. QED
    BY <2>1, <2>2, <2>3, <2>4
<1>6. \A p \in DOMAIN es : Place(es, ps, p) = Cardinality(below(p))
  BY DEF Place
<1>. HIDE DEF below
<1>. QED
  BY <1>1, <1>2, <1>3, <1>4, <1>5, <1>6

\* Distinct numbers below the number of them leave no gap.
LEMMA NoGaps ==
    ASSUME NEW es, IsFiniteSet(DOMAIN es), Distinct(es),
           \A p \in DOMAIN es : es[p].order \in Nat /\ es[p].order < Size(es)
    PROVE  Dense(es)
<1> DEFINE S == DOMAIN es
           T == 0 .. Size(es) - 1
           f == [p \in S |-> es[p].order]
<1>1. Size(es) \in Nat
  BY FS_CardinalityType DEF Size
<1>2. IsFiniteSet(T) /\ Cardinality(T) = Cardinality(S)
  <2>1. IsFiniteSet(T) /\ Cardinality(T) = IF 0 > Size(es) - 1 THEN 0
                                           ELSE Size(es) - 1 - 0 + 1
    BY <1>1, FS_Interval
  <2>. QED
    BY <1>1, <2>1 DEF Size
<1>3. f \in Injection(S, T)
  <2>1. f \in [S -> T]
    BY <1>1
  <2>2. \A p, q \in S : f[p] = f[q] => p = q
    BY DEF Distinct
  <2>. QED
    BY <2>1, <2>2 DEF Injection, IsInjective
<1>4. f \in Surjection(S, T)
  BY <1>2, <1>3, FS_Injection
<1>5. \A n \in T : \E p \in S : f[p] = n
  BY <1>4 DEF Surjection
<1>. QED
  BY <1>1, <1>5 DEF Dense

\* Good entries are dense ones.
LEMMA GoodIsDense ==
    ASSUME NEW es, Good(es)
    PROVE  Dense(es)
<1>1. /\ IsFiniteSet(DOMAIN es) /\ Distinct(es)
      /\ \A p \in DOMAIN es : es[p].order \in Nat /\ es[p].order < Size(es)
  BY RegistryFacts DEF Good
<1>. QED
  BY <1>1, NoGaps

\* The community modules' Min is a minimum, of any set of natural numbers: some
\* element of what is below one of it has the place 0.
LEMMA MinIsInSet ==
    ASSUME NEW S \in SUBSET Nat, S # {}
    PROVE  Min(S) \in S
<1>1. PICK m \in S : TRUE
  OBVIOUS
<1> DEFINE T == {n \in S : n <= m}
           es == [n \in T |-> [order |-> n]]
           fs == [n \in T |-> [order |-> Place(es, T, n)]]
<1>2. IsFiniteSet(T)
  <2>1. T \in SUBSET Nat /\ \A n \in T : n <= m
    BY <1>1
  <2>. HIDE DEF T
  <2>. QED
    BY <1>1, <2>1, FS_BoundedSetOfNaturals
<1>3. DOMAIN es = T /\ \A n \in T : es[n].order = n /\ n \in Nat
  OBVIOUS
<1>4. /\ Cardinality(T) \in Nat
      /\ \A n \in T : Place(es, T, n) \in Nat /\ Place(es, T, n) < Cardinality(T)
      /\ \A n, k \in T : n < k => Place(es, T, n) < Place(es, T, k)
  <2>. HIDE DEF T, es
  <2>1. \A n \in T : es[n].order \in Nat
    BY <1>3
  <2>. QED
    BY <1>2, <1>3, <2>1, PlaceFacts
<1>5. Dense(fs)
  <2>1. DOMAIN fs = T /\ \A n \in T : fs[n].order = Place(es, T, n)
    OBVIOUS
  <2>. HIDE DEF T, es, fs
  <2>2. Distinct(fs)
    <3> SUFFICES ASSUME NEW n \in T, NEW k \in T, Place(es, T, n) = Place(es, T, k)
                 PROVE  n = k
      BY <2>1 DEF Distinct
    <3>1. ~(n < k) /\ ~(k < n)
      BY <1>4
    <3>. QED
      BY <1>3, <3>1
  <2>3. Size(fs) = Cardinality(T)
    BY <2>1 DEF Size
  <2>. QED
    BY <1>2, <1>4, <2>1, <2>2, <2>3, NoGaps
<1>6. Cardinality(T) # 0
  <2>1. m \in T
    BY <1>1
  <2>. QED
    BY <1>2, <2>1, FS_EmptySet
<1>7. PICK n \in T : Place(es, T, n) = 0
  <2>1. DOMAIN fs = T /\ \A n \in T : fs[n].order = Place(es, T, n)
    OBVIOUS
  <2>. HIDE DEF T, es, fs
  <2>2. 0 \in {fs[n].order : n \in T}
    BY <1>4, <1>5, <1>6, <2>1 DEF Dense, Size
  <2>. QED
    BY <2>1, <2>2
<1>8. \A k \in S : n <= k
  <2> SUFFICES ASSUME NEW k \in S, k < n PROVE FALSE
    BY <1>7
  <2>1. k \in T
    BY <1>1, <1>7
  <2>. HIDE DEF T, es
  <2>2. Place(es, T, k) < 0 /\ Place(es, T, k) \in Nat
    BY <1>4, <1>7, <2>1
  <2>. QED
    BY <2>2
<1>. QED
  BY <1>7, <1>8 DEF Min

\* _normalize_order: entries of distinct orders are numbered in that order.
LEMMA RankedGood ==
    ASSUME NEW es, IsRegistry(es), Distinct(es)
    PROVE  /\ DOMAIN Ranked(es) = DOMAIN es /\ Good(Ranked(es))
           /\ SameOrder(es, Ranked(es), DOMAIN es)
           /\ \A p \in DOMAIN es : Ranked(es)[p].order = Place(es, DOMAIN es, p)
<1> DEFINE S == DOMAIN es
           r == Ranked(es)
<1>1. /\ IsFiniteSet(S) /\ Size(es) \in Nat
      /\ \A p \in S : es[p] \in Entry /\ es[p].order \in Nat
  BY RegistryFacts
<1>2. /\ \A p \in S : Place(es, S, p) \in Nat /\ Place(es, S, p) < Size(es)
      /\ \A p, q \in S : es[p].order <= es[q].order => Place(es, S, p) <= Place(es, S, q)
      /\ \A p, q \in S : es[p].order < es[q].order => Place(es, S, p) < Place(es, S, q)
  <2>1. \A p \in S : es[p].order \in Nat
    BY <1>1
  <2>. QED
    BY <1>1, <2>1, PlaceFacts DEF Size
<1>3. /\ DOMAIN r = S
      /\ \A p \in S : r[p] = [es[p] EXCEPT !.order = Place(es, S, p)]
  BY DEF Ranked
<1>4. \A p \in S : r[p] \in Entry /\ r[p].order = Place(es, S, p)
  BY <1>1, <1>2, <1>3 DEF Entry
<1>5. r \in [S -> Entry]
  BY <1>4 DEF Ranked
<1>6. Distinct(r)
  <2> SUFFICES ASSUME NEW p \in S, NEW q \in S, Place(es, S, p) = Place(es, S, q)
               PROVE  p = q
    BY <1>3, <1>4 DEF Distinct
  <2>1. ~(es[p].order < es[q].order) /\ ~(es[q].order < es[p].order)
    BY <1>2
  <2>. QED
    BY <1>1, <2>1 DEF Distinct
<1>7. SameOrder(es, r, S)
  <2> SUFFICES ASSUME NEW p \in S, NEW q \in S
               PROVE  es[p].order < es[q].order <=> r[p].order < r[q].order
    BY DEF SameOrder
  <2>1. es[p].order < es[q].order \/ es[q].order <= es[p].order
    BY <1>1
  <2>. HIDE DEF r
  <2>. QED
    BY <1>2, <1>4, <2>1
<1>8. Size(r) = Size(es)
  BY <1>3 DEF Size
<1>. QED
  BY <1>2, <1>3, <1>4, <1>5, <1>6, <1>7, <1>8 DEF Good, IsRegistry

\* _reorder: the one entry comes where it was put, and the others keep their order.
LEMMA ReorderedGood ==
    ASSUME NEW es, IsRegistry(es), Distinct(es), NEW p \in DOMAIN es, NEW position \in Nat
    PROVE  /\ DOMAIN Reordered(es, p, position) = DOMAIN es
           /\ Good(Reordered(es, p, position))
           /\ SameOrder(es, Reordered(es, p, position), DOMAIN es \ {p})
           /\ Reordered(es, p, position)[p].order =
                 IF position < Size(es) - 1 THEN position ELSE Size(es) - 1
<1> DEFINE S == DOMAIN es
           others == S \ {p}
           at == IF position < Cardinality(others) THEN position ELSE Cardinality(others)
           place(q) == Place(es, others, q)
           r == Reordered(es, p, position)
<1>1. /\ IsFiniteSet(S) /\ Size(es) \in Nat
      /\ \A q \in S : es[q] \in Entry /\ es[q].order \in Nat
  BY RegistryFacts
<1>2. Cardinality(others) = Size(es) - 1 /\ Cardinality(others) \in Nat
  BY <1>1, FS_RemoveElement, FS_CardinalityType DEF Size
<1>3. /\ \A q \in others : place(q) \in Nat /\ place(q) < Cardinality(others)
      /\ \A q, t \in others : es[q].order <= es[t].order => place(q) <= place(t)
      /\ \A q, t \in others : es[q].order < es[t].order => place(q) < place(t)
  <2>1. (\A q \in S : es[q].order \in Nat) /\ others \in SUBSET S
    BY <1>1
  <2>. HIDE DEF others
  <2>. QED
    BY <1>1, <2>1, PlaceFacts
<1>4. at \in Nat /\ at <= Cardinality(others)
  BY <1>2
<1>5. /\ DOMAIN r = S
      /\ r[p] = [es[p] EXCEPT !.order = at]
      /\ \A q \in others : r[q] = [es[q] EXCEPT !.order =
                                      IF place(q) < at THEN place(q) ELSE place(q) + 1]
  BY DEF Reordered
<1>6. r[p] \in Entry /\ r[p].order = at
  BY <1>1, <1>4, <1>5 DEF Entry
<1>7. \A q \in others :
         r[q] \in Entry /\ r[q].order = IF place(q) < at THEN place(q) ELSE place(q) + 1
  BY <1>1, <1>3, <1>5 DEF Entry
<1>8. r \in [S -> Entry]
  BY <1>6, <1>7 DEF Reordered
<1> HIDE DEF others, at, place, r
<1>9. \A q \in S : q = p \/ q \in others
  BY DEF others
<1>10. \A q, t \in others :
          /\ es[q].order < es[t].order => r[q].order < r[t].order
          /\ es[t].order <= es[q].order => r[t].order <= r[q].order
  BY <1>3, <1>4, <1>7
<1>11. \A q, t \in others : r[q].order = r[t].order => q = t
  <2> SUFFICES ASSUME NEW q \in others, NEW t \in others, r[q].order = r[t].order
               PROVE  q = t
    OBVIOUS
  <2>1. r[q].order \in Nat /\ r[t].order \in Nat
    BY <1>3, <1>7
  <2>2. ~(es[q].order < es[t].order) /\ ~(es[t].order < es[q].order)
    BY <1>10, <2>1
  <2>. QED
    BY <1>1, <2>2 DEF Distinct, others
<1>12. \A q \in others : r[q].order # r[p].order
  BY <1>3, <1>4, <1>6, <1>7
<1>13. Distinct(r)
  BY <1>5, <1>9, <1>11, <1>12 DEF Distinct
<1>14. SameOrder(es, r, others)
  <2> SUFFICES ASSUME NEW q \in others, NEW t \in others
               PROVE  es[q].order < es[t].order <=> r[q].order < r[t].order
    BY DEF SameOrder
  <2>1. es[q].order \in Nat /\ es[t].order \in Nat
    BY <1>1 DEF others
  <2>2. r[q].order \in Nat /\ r[t].order \in Nat
    BY <1>3, <1>7
  <2>. QED
    BY <1>10, <2>1, <2>2
<1>15. Size(r) = Size(es)
  BY <1>5 DEF Size
<1>16. \A q \in S : r[q].order < Size(r)
  BY <1>1, <1>2, <1>3, <1>4, <1>6, <1>7, <1>9, <1>15
<1>17. Good(r)
  BY <1>5, <1>8, <1>13, <1>16 DEF Good, IsRegistry
<1>. QED
  BY <1>2, <1>5, <1>6, <1>14, <1>17 DEF others, at, r

\* add: a new entry comes last, or where it is asked to; a known one stays, unless
\* it is asked to move.
LEMMA AddedGood ==
    ASSUME NEW es, Good(es), NEW p \in Paths, NEW status \in Statuses \cup {"active"},
           NEW position \in Positions \cup {None}
    PROVE  LET fs == Added(es, p, status, position)
               last == Size(fs) - 1
           IN  /\ DOMAIN fs = DOMAIN es \cup {p} /\ Good(fs)
               /\ SameOrder(es, fs, DOMAIN es \ {p})
               /\ fs[p].order = IF position # None
                                THEN IF position < last THEN position ELSE last
                                ELSE IF p \in DOMAIN es THEN es[p].order ELSE last
<1> DEFINE S == DOMAIN es
           P == S \cup {p}
           put == [q \in P |-> [order |-> IF q \in S THEN es[q].order ELSE Size(es),
                                status |-> IF q = p THEN status ELSE es[q].status]]
           fs == Added(es, p, status, position)
<1>0. IsRegistry(es) /\ Distinct(es) /\ \A q \in S : es[q].order < Size(es)
  BY DEF Good
<1>1. /\ IsFiniteSet(S) /\ Size(es) \in Nat
      /\ \A q \in S : es[q] \in Entry /\ es[q].order \in Nat
  BY <1>0, RegistryFacts
<1>2. /\ DOMAIN put = P /\ P \subseteq Paths
      /\ \A q \in P : put[q].order = IF q \in S THEN es[q].order ELSE Size(es)
  BY <1>0 DEF IsRegistry
<1>3. put \in [P -> Entry]
  BY <1>1 DEF Entry
<1>4. fs = IF position # None THEN Reordered(put, p, position)
           ELSE IF p \in S THEN put ELSE Ranked(put)
  BY DEF Added
<1> HIDE DEF put, fs
<1>5. IsRegistry(put) /\ Distinct(put)
  BY <1>0, <1>1, <1>2, <1>3 DEF IsRegistry, Distinct
<1>6. Size(put) = IF p \in S THEN Size(es) ELSE Size(es) + 1
  BY <1>1, <1>2, FS_AddElement DEF Size
<1>7. Good(put)
  BY <1>0, <1>1, <1>2, <1>5, <1>6 DEF Good
<1>8. SameOrder(es, put, S)
  BY <1>2 DEF SameOrder
<1>9. CASE position # None
  <2>1. position \in Nat
    BY <1>9, PositionsAssumption
  <2>2. /\ DOMAIN fs = P /\ Good(fs) /\ SameOrder(put, fs, P \ {p})
        /\ fs[p].order = IF position < Size(put) - 1 THEN position ELSE Size(put) - 1
    BY <1>2, <1>4, <1>5, <1>9, <2>1, ReorderedGood
  <2>3. Size(fs) = Size(put)
    BY <1>2, <2>2 DEF Size
  <2>. QED
    BY <1>8, <1>9, <2>2, <2>3 DEF SameOrder, fs
<1>10. CASE position = None /\ p \in S
  BY <1>2, <1>4, <1>7, <1>8, <1>10 DEF SameOrder, fs
<1>11. CASE position = None /\ p \notin S
  <2>1. /\ DOMAIN fs = P /\ Good(fs) /\ SameOrder(put, fs, P)
        /\ fs[p].order = Place(put, P, p)
    BY <1>2, <1>4, <1>5, <1>11, RankedGood
  <2>2. {q \in P : put[q].order < put[p].order} = S
    <3>1. put[p].order = Size(es) /\ ~(put[p].order < put[p].order)
      BY <1>1, <1>2, <1>11
    <3>2. \A q \in S : put[q].order < put[p].order
      BY <1>0, <1>2, <3>1
    <3>3. \A q \in P : q \in S \/ q = p
      OBVIOUS
    <3>4. S \subseteq P
      OBVIOUS
    <3>. HIDE DEF P
    <3>. QED
      BY <1>11, <3>1, <3>2, <3>3, <3>4
  <2>3. fs[p].order = Size(es)
    BY <2>1, <2>2 DEF Place, Size
  <2>4. Size(fs) = Size(es) + 1
    BY <1>2, <1>6, <1>11, <2>1 DEF Size
  <2>5. Size(fs) - 1 = Size(es)
    BY <1>1, <2>4
  <2>. QED
    BY <1>8, <1>11, <2>1, <2>3, <2>5 DEF SameOrder, fs
<1>. QED
  BY <1>9, <1>10, <1>11

\* remove: the others close the gap.
LEMMA RemovedGood ==
    ASSUME NEW es, Good(es), NEW p
    PROVE  /\ DOMAIN Removed(es, p) = DOMAIN es \ {p} /\ Good(Removed(es, p))
           /\ SameOrder(es, Removed(es, p), DOMAIN es \ {p})
<1> DEFINE rest == Restrict(es, DOMAIN es \ {p})
<1>1. DOMAIN rest = DOMAIN es \ {p} /\ \A q \in DOMAIN rest : rest[q] = es[q]
  BY DEF Restrict
<1>2. IsRegistry(rest) /\ Distinct(rest)
  <2>1. rest \in [DOMAIN rest -> Entry]
    BY <1>1 DEF Restrict, Good, IsRegistry
  <2>. HIDE DEF rest
  <2>. QED
    BY <1>1, <2>1 DEF Good, IsRegistry, Distinct
<1>3. SameOrder(es, rest, DOMAIN es \ {p})
  BY <1>1 DEF SameOrder
<1>4. Removed(es, p) = Ranked(rest)
  BY DEF Removed
<1> HIDE DEF rest
<1>. QED
  BY <1>1, <1>2, <1>3, <1>4, RankedGood DEF SameOrder

\* refresh: entries change their status and nothing else.
LEMMA RefreshedGood ==
    ASSUME NEW es, Good(es), NEW ps
    PROVE  /\ DOMAIN Refreshed(es, ps) = DOMAIN es /\ Good(Refreshed(es, ps))
           /\ SameOrder(es, Refreshed(es, ps), DOMAIN es)
<1> DEFINE r == Refreshed(es, ps)
<1>1. \A p \in DOMAIN es : es[p] \in Entry
  BY DEF Good, IsRegistry
<1>2. DOMAIN r = DOMAIN es /\ \A p \in DOMAIN es :
         r[p] = es[p] \/ r[p] = [es[p] EXCEPT !.status = "missing"]
  BY DEF Refreshed
<1>3. \A p \in DOMAIN es : r[p] \in Entry /\ r[p].order = es[p].order
  BY <1>1, <1>2 DEF Entry
<1>4. r \in [DOMAIN es -> Entry]
  BY <1>3 DEF Refreshed
<1> HIDE DEF r
<1>5. SameOrder(es, r, DOMAIN es)
  BY <1>3 DEF SameOrder
<1>6. Size(r) = Size(es)
  BY <1>2 DEF Size
<1>7. Good(r)
  BY <1>2, <1>3, <1>4, <1>6 DEF Good, IsRegistry, Distinct
<1>. QED
  BY <1>2, <1>5, <1>7 DEF r

-----------------------------------------------------------------------------
(* The steps. *)

\* What a call is asked for.
LEMMA RequestTypes ==
    ASSUME NEW r \in Requests
    PROVE  /\ r.op \in {"add", "scan", "move", "remove", "refresh"}
           /\ r.op = "add" => /\ r.path \in Paths /\ r.status \in Statuses
                              /\ r.position \in Positions \cup {None}
           /\ r.op = "move" => r.position \in Positions
<1>1. CASE r \in [op : {"add"}, path : Paths, status : Statuses,
                  position : Positions \cup {None}]
  BY <1>1
<1>2. CASE r \in [op : {"scan"}]
  BY <1>2
<1>3. CASE r \in [op : {"move"}, key : Keys, position : Positions]
  BY <1>3
<1>4. CASE r \in [op : {"remove"}, key : Keys]
  BY <1>4
<1>5. CASE r \in [op : {"refresh"}, key : Keys \cup {None}]
  BY <1>5
<1>. QED
  BY <1>1, <1>2, <1>3, <1>4, <1>5 DEF Requests

\* get returns one entry or none.
LEMMA GetOne ==
    ASSUME NEW es, IsRegistry(es), NEW k, NEW p \in Get(es, k)
    PROVE  p \in DOMAIN es /\ Get(es, k) = {p}
<1>1. Get(es, k) = Named(es, k) /\ Cardinality(Named(es, k)) = 1
  BY DEF Get
<1>2. Named(es, k) \subseteq DOMAIN es
  BY DEF Named
<1>3. IsFiniteSet(Named(es, k))
  BY <1>2, RegistryFacts, FS_Subset
<1>4. PICK x : Named(es, k) = {x}
  BY <1>1, <1>3, FS_Singleton
<1>. QED
  BY <1>1, <1>2, <1>4

\* Where a step puts an entry, as RestKeepsItsPlace has it.
Lands(c, p) ==
    LET last == Size(file') - 1
    IN  IF ask[c].op # "scan" /\ ask[c].position # None
        THEN file'[p].order = IF ask[c].position < last THEN ask[c].position ELSE last
        ELSE file'[p].order = IF p \in DOMAIN mem[c] THEN mem[c][p].order ELSE last

\* What a step of c that saves does to the file.
SaveFacts(c) ==
    /\ Good(file')
    /\ \A p \in DOMAIN mem[c] \ Removes(c) : p \in DOMAIN file'
    /\ SameOrder(mem[c], file', (DOMAIN mem[c] \cap DOMAIN file') \ Puts(c))
    /\ \A p \in Puts(c) : Lands(c, p)
    /\ Saves(c)

\* projects add saves the entries with the one it adds.
LEMMA AddFacts ==
    ASSUME TypeOK, RequestInv, GoodInv, NEW c \in Calls, Add(c)
    PROVE  SaveFacts(c)
<1>1. pc[c] = "save" /\ ask[c].op = "add" /\ ask[c] \in Requests
  BY DEF Add, Ready, RequestInv
<1>2. /\ ask[c].path \in Paths /\ ask[c].status \in Statuses
      /\ ask[c].position \in Positions \cup {None}
  BY <1>1, RequestTypes
<1>3. file' = Added(mem[c], ask[c].path, ask[c].status, ask[c].position)
  BY DEF Add, Save
<1>4. pc'[c] = "ok"
  BY DEF Add, End, GoTo, TypeOK
<1>5. Puts(c) = {ask[c].path} /\ Removes(c) = {}
  BY <1>1 DEF Puts, Removes
<1>6. Good(mem[c])
  BY DEF GoodInv
<1>7. /\ DOMAIN file' = DOMAIN mem[c] \cup {ask[c].path} /\ Good(file')
      /\ SameOrder(mem[c], file', DOMAIN mem[c] \ {ask[c].path})
      /\ Lands(c, ask[c].path)
  <2> DEFINE p == ask[c].path
             s == ask[c].status
             n == ask[c].position
  <2>1. p \in Paths /\ s \in Statuses \cup {"active"} /\ n \in Positions \cup {None}
    BY <1>2
  <2> HIDE DEF p, s, n
  <2>2. LET fs == Added(mem[c], p, s, n)
            last == Size(fs) - 1
        IN  /\ DOMAIN fs = DOMAIN mem[c] \cup {p} /\ Good(fs)
            /\ SameOrder(mem[c], fs, DOMAIN mem[c] \ {p})
            /\ fs[p].order = IF n # None THEN IF n < last THEN n ELSE last
                             ELSE IF p \in DOMAIN mem[c] THEN mem[c][p].order ELSE last
    BY <1>6, <2>1, AddedGood
  <2>. QED
    BY <1>1, <1>3, <2>2 DEF Lands, p, s, n
<1>8. Saves(c)
  BY <1>1, <1>4 DEF Saves
<1>. QED
  BY <1>5, <1>7, <1>8 DEF SaveFacts, SameOrder

\* Every folder of a scan is saved on its own, on top of those before it.
LEMMA ScanFacts ==
    ASSUME TypeOK, RequestInv, GoodInv, NEW c \in Calls, ScanOne(c)
    PROVE  SaveFacts(c) /\ (mem' = [mem EXCEPT ![c] = file'] \/ End(c, "ok"))
<1> DEFINE p == Min(todo[c])
<1>1. pc[c] = "save" /\ ask[c].op = "scan" /\ todo[c] # {} /\ todo[c] \subseteq Paths
  BY DEF ScanOne, Ready, RequestInv, TypeOK
<1>2. p \in todo[c] /\ p \in Paths
  <2>1. todo[c] \in SUBSET Nat
    BY <1>1, PathsAssumption
  <2>. QED
    BY <1>1, <2>1, MinIsInSet
<1>3. /\ file' = Added(mem[c], p, "active", None)
      /\ \/ End(c, "ok")
         \/ /\ mem' = [mem EXCEPT ![c] = file'] /\ UNCHANGED pc
            /\ todo' = [todo EXCEPT ![c] = @ \ {p}]
  BY DEF ScanOne, Save
<1>4. Saves(c)
  <2>1. CASE End(c, "ok")
    BY <1>1, <2>1 DEF End, GoTo, Saves, TypeOK
  <2>2. CASE UNCHANGED pc /\ todo' = [todo EXCEPT ![c] = @ \ {p}]
    <3>1. todo'[c] = todo[c] \ {p}
      BY <2>2 DEF TypeOK
    <3>2. todo'[c] # todo[c]
      BY <1>2, <3>1
    <3>. QED
      BY <1>1, <2>2, <3>2 DEF Saves
  <2>. QED
    BY <1>3, <2>1, <2>2
<1>5. Puts(c) = {p} /\ Removes(c) = {}
  BY <1>1 DEF Puts, Removes
<1>6. Good(mem[c])
  BY DEF GoodInv
<1>. HIDE DEF p
<1>7. /\ DOMAIN file' = DOMAIN mem[c] \cup {p} /\ Good(file')
      /\ SameOrder(mem[c], file', DOMAIN mem[c] \ {p})
      /\ Lands(c, p)
  <2>1. "active" \in Statuses \cup {"active"} /\ None \in Positions \cup {None}
    OBVIOUS
  <2>2. LET fs == Added(mem[c], p, "active", None)
            last == Size(fs) - 1
        IN  /\ DOMAIN fs = DOMAIN mem[c] \cup {p} /\ Good(fs)
            /\ SameOrder(mem[c], fs, DOMAIN mem[c] \ {p})
            /\ fs[p].order = IF p \in DOMAIN mem[c] THEN mem[c][p].order ELSE last
    BY <1>2, <1>6, <2>1, AddedGood
  <2>. QED
    BY <1>1, <1>3, <2>2 DEF Lands
<1>. QED
  BY <1>3, <1>4, <1>5, <1>7 DEF SaveFacts, SameOrder

\* projects move saves the entries with the one moved.
LEMMA MoveFacts ==
    ASSUME TypeOK, RequestInv, GoodInv, NEW c \in Calls, Move(c)
    PROVE  SaveFacts(c)
<1>1. pc[c] = "save" /\ ask[c].op = "move" /\ ask[c] \in Requests
  BY DEF Move, Ready, RequestInv
<1>2. ask[c].position \in Nat /\ ask[c].position # None
  BY <1>1, RequestTypes, PositionsAssumption
<1>3. PICK p \in Get(mem[c], ask[c].key) : file' = Reordered(mem[c], p, ask[c].position)
  BY DEF Move, Save
<1>4. pc'[c] = "ok"
  BY DEF Move, End, GoTo, TypeOK
<1>5. Good(mem[c])
  BY DEF GoodInv
<1>6. p \in DOMAIN mem[c] /\ Get(mem[c], ask[c].key) = {p}
  BY <1>5, GetOne DEF Good
<1>7. Puts(c) = {p} /\ Removes(c) = {}
  BY <1>1, <1>6 DEF Puts, Removes
<1>8. /\ DOMAIN file' = DOMAIN mem[c] /\ Good(file')
      /\ SameOrder(mem[c], file', DOMAIN mem[c] \ {p})
      /\ file'[p].order = IF ask[c].position < Size(mem[c]) - 1
                          THEN ask[c].position ELSE Size(mem[c]) - 1
  BY <1>2, <1>3, <1>5, <1>6, ReorderedGood DEF Good
<1>9. Lands(c, p)
  BY <1>1, <1>2, <1>8 DEF Lands, Size
<1>10. Saves(c)
  BY <1>1, <1>4 DEF Saves
<1>. QED
  BY <1>7, <1>8, <1>9, <1>10 DEF SaveFacts, SameOrder

\* projects remove saves the entries without the one.
LEMMA RemoveFacts ==
    ASSUME TypeOK, RequestInv, GoodInv, NEW c \in Calls, Remove(c)
    PROVE  SaveFacts(c)
<1>1. pc[c] = "save" /\ ask[c].op = "remove"
  BY DEF Remove, Ready
<1>2. PICK p \in Get(mem[c], ask[c].key) : file' = Removed(mem[c], p)
  BY DEF Remove, Save
<1>3. pc'[c] = "ok"
  BY DEF Remove, End, GoTo, TypeOK
<1>4. Good(mem[c])
  BY DEF GoodInv
<1>5. Get(mem[c], ask[c].key) = {p}
  BY <1>4, GetOne DEF Good
<1>6. Puts(c) = {} /\ Removes(c) = {p}
  BY <1>1, <1>5 DEF Puts, Removes
<1>7. /\ DOMAIN file' = DOMAIN mem[c] \ {p} /\ Good(file')
      /\ SameOrder(mem[c], file', DOMAIN mem[c] \ {p})
  BY <1>2, <1>4, RemovedGood
<1>8. Saves(c)
  BY <1>1, <1>3 DEF Saves
<1>. QED
  BY <1>6, <1>7, <1>8 DEF SaveFacts, SameOrder

\* projects refresh saves the same entries.
LEMMA RefreshFacts ==
    ASSUME TypeOK, RequestInv, GoodInv, NEW c \in Calls, Refresh(c)
    PROVE  SaveFacts(c)
<1>1. pc[c] = "save" /\ ask[c].op = "refresh"
  BY DEF Refresh, Ready
<1>2. PICK ps : file' = Refreshed(mem[c], ps)
  BY DEF Refresh, Save
<1>3. pc'[c] = "ok"
  BY DEF Refresh, End, GoTo, TypeOK
<1>4. Good(mem[c])
  BY DEF GoodInv
<1>5. Puts(c) = {} /\ Removes(c) = {}
  BY <1>1 DEF Puts, Removes
<1>6. /\ DOMAIN file' = DOMAIN mem[c] /\ Good(file')
      /\ SameOrder(mem[c], file', DOMAIN mem[c])
  BY <1>2, <1>4, RefreshedGood
<1>7. Saves(c)
  BY <1>1, <1>3 DEF Saves
<1>. QED
  BY <1>5, <1>6, <1>7 DEF SaveFacts, SameOrder

\* Splits a step into the actions, so that every proof can cite it.
LEMMA StepCases ==
    ASSUME [Next]_vars, NEW P,
           ASSUME NEW c \in Calls, NEW r \in Requests, Ask(c, r) PROVE P,
           ASSUME NEW c \in Calls, Load(c) PROVE P,
           ASSUME NEW c \in Calls, Discover(c) PROVE P,
           ASSUME NEW c \in Calls, Add(c) PROVE P,
           ASSUME NEW c \in Calls, Move(c) PROVE P,
           ASSUME NEW c \in Calls, Remove(c) PROVE P,
           ASSUME NEW c \in Calls, Refresh(c) PROVE P,
           ASSUME NEW c \in Calls, ScanOne(c) PROVE P,
           ASSUME NEW c \in Calls, Fail(c) PROVE P,
           ASSUME NEW c \in Calls, Die(c) PROVE P,
           ASSUME NEW p \in Paths, Toggle(p) PROVE P,
           ASSUME UNCHANGED vars PROVE P
    PROVE  P
  BY DEF Next, Step

\* A process that holds no entries holds good ones.
LEMMA NothingGood == Good(Nothing) /\ IsRegistry(Nothing)
<1>1. DOMAIN Nothing = {} /\ Nothing \in [{} -> Entry]
  BY DEF Nothing
<1>. QED
  BY <1>1 DEF Good, IsRegistry, Distinct

\* Every save writes good entries, and what is loaded is what was saved.
LEMMA GoodStep ==
    ASSUME TypeOK, RequestInv, GoodInv, [Next]_vars
    PROVE  GoodInv'
<1>1. ASSUME NEW c \in Calls, NEW r \in Requests, Ask(c, r) PROVE GoodInv'
  BY <1>1 DEF Ask, GoTo, GoodInv
<1>2. ASSUME NEW c \in Calls, Load(c) PROVE GoodInv'
  <2>1. Good(Ranked(file))
    BY RankedGood DEF GoodInv, Good
  <2>2. mem' = [mem EXCEPT ![c] = Ranked(file)] /\ UNCHANGED file
    BY <1>2 DEF Load
  <2>. QED
    BY <2>1, <2>2 DEF GoodInv, TypeOK
<1>3. ASSUME NEW c \in Calls, Discover(c) PROVE GoodInv'
  <2>1. (mem' = [mem EXCEPT ![c] = Nothing] \/ UNCHANGED mem) /\ UNCHANGED file
    BY <1>3 DEF Discover, End
  <2>. QED
    BY <2>1, NothingGood DEF GoodInv, TypeOK
<1>4. ASSUME NEW c \in Calls, Add(c) PROVE GoodInv'
  <2>1. Good(file')
    BY <1>4, AddFacts DEF SaveFacts
  <2>2. mem' = [mem EXCEPT ![c] = Nothing]
    BY <1>4 DEF Add, End
  <2>. QED
    BY <2>1, <2>2, NothingGood DEF GoodInv, TypeOK
<1>5. ASSUME NEW c \in Calls, Move(c) PROVE GoodInv'
  <2>1. Good(file')
    BY <1>5, MoveFacts DEF SaveFacts
  <2>2. mem' = [mem EXCEPT ![c] = Nothing]
    BY <1>5 DEF Move, End
  <2>. QED
    BY <2>1, <2>2, NothingGood DEF GoodInv, TypeOK
<1>6. ASSUME NEW c \in Calls, Remove(c) PROVE GoodInv'
  <2>1. Good(file')
    BY <1>6, RemoveFacts DEF SaveFacts
  <2>2. mem' = [mem EXCEPT ![c] = Nothing]
    BY <1>6 DEF Remove, End
  <2>. QED
    BY <2>1, <2>2, NothingGood DEF GoodInv, TypeOK
<1>7. ASSUME NEW c \in Calls, Refresh(c) PROVE GoodInv'
  <2>1. Good(file')
    BY <1>7, RefreshFacts DEF SaveFacts
  <2>2. mem' = [mem EXCEPT ![c] = Nothing]
    BY <1>7 DEF Refresh, End
  <2>. QED
    BY <2>1, <2>2, NothingGood DEF GoodInv, TypeOK
<1>8. ASSUME NEW c \in Calls, ScanOne(c) PROVE GoodInv'
  <2>1. Good(file') /\ (mem' = [mem EXCEPT ![c] = file'] \/ End(c, "ok"))
    BY <1>8, ScanFacts DEF SaveFacts
  <2>. QED
    BY <2>1, NothingGood DEF End, GoodInv, TypeOK
<1>9. ASSUME NEW c \in Calls, Fail(c) PROVE GoodInv'
  <2>1. (mem' = [mem EXCEPT ![c] = Nothing] \/ UNCHANGED mem) /\ UNCHANGED file
    BY <1>9 DEF Fail, End
  <2>. QED
    BY <2>1, NothingGood DEF GoodInv, TypeOK
<1>10. ASSUME NEW c \in Calls, Die(c) PROVE GoodInv'
  <2>1. (mem' = [mem EXCEPT ![c] = Nothing] \/ UNCHANGED mem) /\ UNCHANGED file
    BY <1>10 DEF Die, End
  <2>. QED
    BY <2>1, NothingGood DEF GoodInv, TypeOK
<1>11. ASSUME NEW p \in Paths, Toggle(p) PROVE GoodInv'
  BY <1>11 DEF Toggle, GoodInv
<1>12. ASSUME UNCHANGED vars PROVE GoodInv'
  BY <1>12 DEF vars, GoodInv
<1>. QED
  BY <1>1, <1>2, <1>3, <1>4, <1>5, <1>6, <1>7, <1>8, <1>9, <1>10, <1>11, <1>12,
       StepCases

\* A call keeps what it was asked for until it ends.
LEMMA RequestStep ==
    ASSUME TypeOK, RequestInv, [Next]_vars
    PROVE  RequestInv'
<1>1. ASSUME NEW c \in Calls, NEW r \in Requests, Ask(c, r) PROVE RequestInv'
  BY <1>1 DEF Ask, GoTo, TypeOK, RequestInv
<1>2. ASSUME NEW c \in Calls, Load(c) PROVE RequestInv'
  BY <1>2 DEF Load, GoTo, TypeOK, RequestInv
<1>3. ASSUME NEW c \in Calls, Discover(c) PROVE RequestInv'
  <2>1. CASE End(c, "ok")
    BY <2>1 DEF End, GoTo, TypeOK, RequestInv
  <2>2. PICK out : (out # {} /\ todo' = [todo EXCEPT ![c] = out]) \/ End(c, "ok")
    BY <1>3 DEF Discover
  <2>3. CASE todo' = [todo EXCEPT ![c] = out] /\ out # {} /\ ~End(c, "ok")
    BY <1>3, <2>3 DEF Discover, GoTo, TypeOK, RequestInv
  <2>. QED
    BY <2>1, <2>2, <2>3
<1>4. ASSUME NEW c \in Calls, Add(c) PROVE RequestInv'
  BY <1>4 DEF Add, End, GoTo, Save, TypeOK, RequestInv
<1>5. ASSUME NEW c \in Calls, Move(c) PROVE RequestInv'
  BY <1>5 DEF Move, End, GoTo, Save, TypeOK, RequestInv
<1>6. ASSUME NEW c \in Calls, Remove(c) PROVE RequestInv'
  BY <1>6 DEF Remove, End, GoTo, Save, TypeOK, RequestInv
<1>7. ASSUME NEW c \in Calls, Refresh(c) PROVE RequestInv'
  BY <1>7 DEF Refresh, End, GoTo, Save, TypeOK, RequestInv
<1>8. ASSUME NEW c \in Calls, ScanOne(c) PROVE RequestInv'
  <2>1. todo[c] # {} /\ todo[c] \in SUBSET Nat
    BY <1>8, PathsAssumption DEF ScanOne, Ready, RequestInv, TypeOK
  <2>2. Min(todo[c]) \in todo[c]
    BY <2>1, MinIsInSet
  <2>3. \/ End(c, "ok")
        \/ /\ todo[c] # {Min(todo[c])} /\ UNCHANGED <<pc, ask>>
           /\ todo' = [todo EXCEPT ![c] = todo[c] \ {Min(todo[c])}]
    BY <1>8 DEF ScanOne
  <2>4. CASE End(c, "ok")
    BY <2>4 DEF End, GoTo, TypeOK, RequestInv
  <2>5. CASE /\ todo[c] # {Min(todo[c])} /\ UNCHANGED <<pc, ask>>
             /\ todo' = [todo EXCEPT ![c] = todo[c] \ {Min(todo[c])}]
    <3>1. todo[c] \ {Min(todo[c])} # {}
      BY <2>2, <2>5
    <3>. QED
      BY <2>5, <3>1 DEF TypeOK, RequestInv
  <2>. QED
    BY <2>3, <2>4, <2>5
<1>9. ASSUME NEW c \in Calls, Fail(c) PROVE RequestInv'
  BY <1>9 DEF Fail, End, GoTo, TypeOK, RequestInv
<1>10. ASSUME NEW c \in Calls, Die(c) PROVE RequestInv'
  BY <1>10 DEF Die, End, GoTo, TypeOK, RequestInv
<1>11. ASSUME NEW p \in Paths, Toggle(p) PROVE RequestInv'
  BY <1>11 DEF Toggle, TypeOK, RequestInv
<1>12. ASSUME UNCHANGED vars PROVE RequestInv'
  BY <1>12 DEF vars, TypeOK, RequestInv
<1>. QED
  BY <1>1, <1>2, <1>3, <1>4, <1>5, <1>6, <1>7, <1>8, <1>9, <1>10, <1>11, <1>12,
       StepCases

\* Every step keeps the types.
LEMMA TypeStep ==
    ASSUME TypeOK, RequestInv, GoodInv, [Next]_vars
    PROVE  TypeOK'
<1>1. ASSUME NEW c \in Calls, NEW r \in Requests, Ask(c, r) PROVE TypeOK'
  <2>1. IsRegistry(file') /\ \A d \in Calls : IsRegistry(mem'[d])
    BY <1>1, GoodStep DEF GoodInv, Good
  <2>. QED
    BY <1>1, <2>1 DEF Ask, End, GoTo, Save, TypeOK, Steps, Ended
<1>2. ASSUME NEW c \in Calls, Load(c) PROVE TypeOK'
  <2>1. IsRegistry(file') /\ \A d \in Calls : IsRegistry(mem'[d])
    BY <1>2, GoodStep DEF GoodInv, Good
  <2>. QED
    BY <1>2, <2>1 DEF Load, End, GoTo, Save, TypeOK, Steps, Ended
<1>3. ASSUME NEW c \in Calls, Discover(c) PROVE TypeOK'
  <2>1. IsRegistry(file') /\ \A d \in Calls : IsRegistry(mem'[d])
    BY <1>3, GoodStep DEF GoodInv, Good
  <2>. QED
    BY <1>3, <2>1 DEF Discover, End, GoTo, Save, TypeOK, Steps, Ended
<1>4. ASSUME NEW c \in Calls, Add(c) PROVE TypeOK'
  <2>1. IsRegistry(file') /\ \A d \in Calls : IsRegistry(mem'[d])
    BY <1>4, GoodStep DEF GoodInv, Good
  <2>. QED
    BY <1>4, <2>1 DEF Add, End, GoTo, Save, TypeOK, Steps, Ended
<1>5. ASSUME NEW c \in Calls, Move(c) PROVE TypeOK'
  <2>1. IsRegistry(file') /\ \A d \in Calls : IsRegistry(mem'[d])
    BY <1>5, GoodStep DEF GoodInv, Good
  <2>. QED
    BY <1>5, <2>1 DEF Move, End, GoTo, Save, TypeOK, Steps, Ended
<1>6. ASSUME NEW c \in Calls, Remove(c) PROVE TypeOK'
  <2>1. IsRegistry(file') /\ \A d \in Calls : IsRegistry(mem'[d])
    BY <1>6, GoodStep DEF GoodInv, Good
  <2>. QED
    BY <1>6, <2>1 DEF Remove, End, GoTo, Save, TypeOK, Steps, Ended
<1>7. ASSUME NEW c \in Calls, Refresh(c) PROVE TypeOK'
  <2>1. IsRegistry(file') /\ \A d \in Calls : IsRegistry(mem'[d])
    BY <1>7, GoodStep DEF GoodInv, Good
  <2>. QED
    BY <1>7, <2>1 DEF Refresh, End, GoTo, Save, TypeOK, Steps, Ended
<1>8. ASSUME NEW c \in Calls, ScanOne(c) PROVE TypeOK'
  <2>1. IsRegistry(file') /\ \A d \in Calls : IsRegistry(mem'[d])
    BY <1>8, GoodStep DEF GoodInv, Good
  <2>. QED
    BY <1>8, <2>1 DEF ScanOne, End, GoTo, Save, TypeOK, Steps, Ended
<1>9. ASSUME NEW c \in Calls, Fail(c) PROVE TypeOK'
  <2>1. IsRegistry(file') /\ \A d \in Calls : IsRegistry(mem'[d])
    BY <1>9, GoodStep DEF GoodInv, Good
  <2>. QED
    BY <1>9, <2>1 DEF Fail, End, GoTo, Save, TypeOK, Steps, Ended
<1>10. ASSUME NEW c \in Calls, Die(c) PROVE TypeOK'
  <2>1. IsRegistry(file') /\ \A d \in Calls : IsRegistry(mem'[d])
    BY <1>10, GoodStep DEF GoodInv, Good
  <2>. QED
    BY <1>10, <2>1 DEF Die, End, GoTo, Save, TypeOK, Steps, Ended
<1>11. ASSUME NEW p \in Paths, Toggle(p) PROVE TypeOK'
  BY <1>11 DEF Toggle, TypeOK, Steps
<1>12. ASSUME UNCHANGED vars PROVE TypeOK'
  BY <1>12 DEF vars, TypeOK, Steps
<1>. QED
  BY <1>1, <1>2, <1>3, <1>4, <1>5, <1>6, <1>7, <1>8, <1>9, <1>10, <1>11, <1>12,
       StepCases

\* Only these steps save.
LEMMA SaversOnly ==
    ASSUME TypeOK, [Next]_vars
    PROVE  (\E d \in Calls : Add(d) \/ Move(d) \/ Remove(d) \/ Refresh(d) \/ ScanOne(d))
           \/ (UNCHANGED file /\ \A d \in Calls : ~Saves(d))
<1>1. ASSUME NEW c \in Calls, NEW r \in Requests, Ask(c, r) PROVE (\E d \in Calls :
     Add(d) \/ Move(d) \/ Remove(d) \/ Refresh(d) \/ ScanOne(d))            \/
     (UNCHANGED file /\ \A d \in Calls : ~Saves(d))
  BY <1>1 DEF Ask, GoTo, TypeOK, Saves, Ended
<1>2. ASSUME NEW c \in Calls, Load(c) PROVE (\E d \in Calls : Add(d) \/ Move(d) \/
     Remove(d) \/ Refresh(d) \/ ScanOne(d))            \/ (UNCHANGED file /\ \A d \in
     Calls : ~Saves(d))
  BY <1>2 DEF Load, GoTo, TypeOK, Saves, Ended
<1>3. ASSUME NEW c \in Calls, Discover(c) PROVE (\E d \in Calls : Add(d) \/ Move(d) \/
     Remove(d) \/ Refresh(d) \/ ScanOne(d))            \/ (UNCHANGED file /\ \A d \in
     Calls : ~Saves(d))
  BY <1>3 DEF Discover, GoTo, End, TypeOK, Saves, Ended
<1>4. ASSUME NEW c \in Calls, Add(c) PROVE (\E d \in Calls : Add(d) \/ Move(d) \/
     Remove(d) \/ Refresh(d) \/ ScanOne(d))            \/ (UNCHANGED file /\ \A d \in
     Calls : ~Saves(d))
  BY <1>4
<1>5. ASSUME NEW c \in Calls, Move(c) PROVE (\E d \in Calls : Add(d) \/ Move(d) \/
     Remove(d) \/ Refresh(d) \/ ScanOne(d))            \/ (UNCHANGED file /\ \A d \in
     Calls : ~Saves(d))
  BY <1>5
<1>6. ASSUME NEW c \in Calls, Remove(c) PROVE (\E d \in Calls : Add(d) \/ Move(d) \/
     Remove(d) \/ Refresh(d) \/ ScanOne(d))            \/ (UNCHANGED file /\ \A d \in
     Calls : ~Saves(d))
  BY <1>6
<1>7. ASSUME NEW c \in Calls, Refresh(c) PROVE (\E d \in Calls : Add(d) \/ Move(d) \/
     Remove(d) \/ Refresh(d) \/ ScanOne(d))            \/ (UNCHANGED file /\ \A d \in
     Calls : ~Saves(d))
  BY <1>7
<1>8. ASSUME NEW c \in Calls, ScanOne(c) PROVE (\E d \in Calls : Add(d) \/ Move(d) \/
     Remove(d) \/ Refresh(d) \/ ScanOne(d))            \/ (UNCHANGED file /\ \A d \in
     Calls : ~Saves(d))
  BY <1>8
<1>9. ASSUME NEW c \in Calls, Fail(c) PROVE (\E d \in Calls : Add(d) \/ Move(d) \/
     Remove(d) \/ Refresh(d) \/ ScanOne(d))            \/ (UNCHANGED file /\ \A d \in
     Calls : ~Saves(d))
  BY <1>9 DEF Fail, End, GoTo, TypeOK, Saves, Ended
<1>10. ASSUME NEW c \in Calls, Die(c) PROVE (\E d \in Calls : Add(d) \/ Move(d) \/
     Remove(d) \/ Refresh(d) \/ ScanOne(d))            \/ (UNCHANGED file /\ \A d \in
     Calls : ~Saves(d))
  BY <1>10 DEF Die, End, GoTo, TypeOK, Saves, Ended
<1>11. ASSUME NEW p \in Paths, Toggle(p) PROVE (\E d \in Calls : Add(d) \/ Move(d) \/
     Remove(d) \/ Refresh(d) \/ ScanOne(d))            \/ (UNCHANGED file /\ \A d \in
     Calls : ~Saves(d))
  BY <1>11 DEF Toggle, TypeOK, Saves, Ended
<1>12. ASSUME UNCHANGED vars PROVE (\E d \in Calls : Add(d) \/ Move(d) \/ Remove(d) \/
     Refresh(d) \/ ScanOne(d))            \/ (UNCHANGED file /\ \A d \in Calls :
     ~Saves(d))
  BY <1>12 DEF vars, TypeOK, Saves, Ended
<1>. QED
  BY <1>1, <1>2, <1>3, <1>4, <1>5, <1>6, <1>7, <1>8, <1>9, <1>10, <1>11, <1>12,
       StepCases

\* A step saves for one call, or for none and leaves the file alone.
LEMMA OneSaves ==
    ASSUME TypeOK, RequestInv, GoodInv, [Next]_vars
    PROVE  \/ UNCHANGED file /\ \A c \in Calls : ~Saves(c)
           \/ \E c \in Calls : SaveFacts(c) /\ \A d \in Calls : Saves(d) => d = c
<1>1. ASSUME NEW c \in Calls, Add(c) \/ Move(c) \/ Remove(c) \/ Refresh(c) \/ ScanOne(c)
      PROVE  SaveFacts(c) /\ \A d \in Calls : Saves(d) => d = c
  <2>1. SaveFacts(c)
    BY <1>1, AddFacts, MoveFacts, RemoveFacts, RefreshFacts, ScanFacts
  <2>2. \A d \in Calls \ {c} : pc'[d] = pc[d] /\ todo'[d] = todo[d]
    BY <1>1 DEF Add, Move, Remove, Refresh, ScanOne, End, GoTo, TypeOK
  <2>. QED
    BY <2>1, <2>2 DEF Saves
<1>. QED
  BY <1>1, SaversOnly

IInv == TypeOK /\ RequestInv /\ GoodInv

\* Any registry of dense orders is good.
LEMMA InitIInv == Init => IInv
<1> SUFFICES ASSUME Init PROVE IInv
  OBVIOUS
<1>1. PICK S \in SUBSET Paths :
         /\ file \in [S -> [order : 0 .. Cardinality(S) - 1, status : {"active"}]]
         /\ \A p, q \in S : file[p].order = file[q].order => p = q
  BY DEF Init
<1>2. IsFiniteSet(S) /\ Cardinality(S) \in Nat
  BY PathsAssumption, FS_Subset, FS_CardinalityType
<1>3. \A p \in S : file[p] \in Entry /\ file[p].order < Cardinality(S)
  BY <1>1, <1>2 DEF Entry
<1>4. IsRegistry(file)
  BY <1>1, <1>3 DEF IsRegistry
<1>5. Good(file)
  BY <1>1, <1>3, <1>4 DEF Good, Distinct, Size
<1>6. GoodInv
  BY <1>5, NothingGood DEF Init, GoodInv
<1>7. TypeOK
  BY <1>4, NothingGood DEF Init, TypeOK, Steps
<1>8. RequestInv
  BY DEF Init, RequestInv
<1>. QED
  BY <1>6, <1>7, <1>8 DEF IInv

\* Entries stay good in the file and in every process, whatever calls interleave.
THEOREM Invariance == Spec => []IInv
<1>1. Init => IInv
  BY InitIInv
<1>2. IInv /\ [Next]_vars => IInv'
  BY TypeStep, RequestStep, GoodStep DEF IInv
<1>. QED
  BY <1>1, <1>2, PTL DEF Spec

\* The variables keep their types: no entry of the registry is for anything but a
\* folder, or without an order and a status.
THEOREM TypeCorrect == Spec => []TypeOK
<1>1. IInv => TypeOK
  BY DEF IInv
<1>. QED
  BY <1>1, Invariance, PTL

\* The orders are 0, 1, 2 ... without gaps or ties, in the file and in every process,
\* though nothing is locked: _save replaces the file by entries that are so numbered.
THEOREM DenseOrder == Spec => []OrderIsDense
<1>1. IInv => OrderIsDense
  BY GoodIsDense DEF IInv, GoodInv, OrderIsDense
<1>. QED
  BY <1>1, Invariance, PTL

\* A project goes out of the registry file only by a remove that names it, or when a
\* process saves that had loaded the file before the project was in it.
THEOREM LossesExplained == Spec => LosesOnlyWhatItNeverSaw
<1>1. IInv /\ [Next]_vars =>
         \A p \in DOMAIN file \ DOMAIN file' :
            \E c \in Calls : Saves(c) /\ (p \notin DOMAIN mem[c] \/ p \in Removes(c))
  BY OneSaves DEF IInv, SaveFacts
<1>. QED
  BY <1>1, Invariance, PTL DEF Spec, LosesOnlyWhatItNeverSaw

\* A save changes the relative order of no two projects but the one it puts, which
\* comes where add, move or the scan say.
THEOREM RestInPlace == Spec => RestKeepsItsPlace
<1>1. IInv /\ [Next]_vars =>
         \A c \in Calls : Saves(c) =>
          LET last == Size(file') - 1
              before(es, p, q) == es[p].order < es[q].order
          IN  /\ \A p, q \in (DOMAIN mem[c] \cap DOMAIN file') \ Puts(c) :
                    before(mem[c], p, q) <=> before(file', p, q)
              /\ \A p \in Puts(c) :
                    IF ask[c].op # "scan" /\ ask[c].position # None
                    THEN file'[p].order = IF ask[c].position < last
                                          THEN ask[c].position ELSE last
                    ELSE file'[p].order = IF p \in DOMAIN mem[c]
                                          THEN mem[c][p].order ELSE last
  BY OneSaves DEF IInv, SaveFacts, SameOrder, Lands
<1>. QED
  BY <1>1, Invariance, PTL DEF Spec, RestKeepsItsPlace

===============================================================================
