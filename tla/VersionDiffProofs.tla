------------------------- MODULE VersionDiffProofs -------------------------
(***************************************************************************)
(* Proofs about VersionDiff: the two passes of a Policy Version Diff are   *)
(* sound for lists of rules of any length and any contents.                *)
(*                                                                         *)
(* A pass is a recursive function over the positions of the candidates.    *)
(* PassedIs shows that it exists, TurnKeeps and PassKeeps carry an         *)
(* invariant along it (the least position where it failed would follow one *)
(* where it holds), and PassCounts derives the counting definition from    *)
(* it: in every signature the pairs are the first of both sides, and one   *)
(* side is used up.  Nothing in a count depends on the order of the        *)
(* baseline, and a reordering keeps the counts.                            *)
(***************************************************************************)
EXTENDS VersionDiff, WellFoundedInduction, FiniteSetTheorems, TLAPS

(* Every set of natural numbers has a least element.                       *)
LEMMA Least ==
  ASSUME NEW S \in SUBSET Nat, S # {}
  PROVE  \E i \in S : \A j \in S : i <= j
<1> DEFINE R == {ss \in Nat \X Nat : ss[1] < ss[2]}
<1>1. IsWellFoundedOn(R, Nat)
  BY NatLessThanWellFounded DEF OpToRel
<1> HIDE DEF R
<1>2. PICK i \in S : \A j \in S : <<j, i>> \notin R
  BY <1>1, WFMin
<1>3. \A j \in S : ~(j < i)
  BY <1>2 DEF R
<1> QED BY <1>2, <1>3

(* A position of a pass, and where a pass starts.                          *)
After(acc, candidates0, turns, current0, kind, n) ==
  IF n \in turns THEN Turn(acc, candidates0, current0, kind, n) ELSE acc
Start(pool) == [pool |-> pool, unmatched |-> {}, pairs |-> {}]

(* The recursive function of a pass exists: it is built position by        *)
(* position.                                                               *)
LEMMA PassedIs ==
  ASSUME NEW cs, Len(cs) \in Nat, NEW turns, NEW bs, NEW pool, NEW kind
  PROVE  Passed(cs, turns, bs, pool, kind) =
           [n \in 0..Len(cs) |->
              IF n = 0 THEN Start(pool)
              ELSE After(Passed(cs, turns, bs, pool, kind)[n - 1],
                         cs, turns, bs, kind, n)]
<1> DEFINE G(acc, n) == After(acc, cs, turns, bs, kind, n)
           Built(g, m) == g = [n \in 0..m |-> IF n = 0 THEN Start(pool)
                                              ELSE G(g[n - 1], n)]
           T == {m \in Nat : ~\E g : Built(g, m)}
<1>1. T = {}
  <2> SUFFICES ASSUME T # {} PROVE FALSE
    OBVIOUS
  <2>1. PICK m \in T : \A k \in T : m <= k
    BY Least
  <2> HIDE DEF G
  <2>2. m # 0
    <3>1. Built([n \in 0..0 |-> Start(pool)], 0)
      OBVIOUS
    <3> QED BY <2>1, <3>1
  <2>3. m \in Nat /\ m - 1 \in Nat /\ m - 1 \notin T
    <3>1. m \in Nat /\ \A k \in T : m <= k
      BY <2>1
    <3> HIDE DEF T
    <3> QED BY <2>2, <3>1
  <2>4. PICK g : Built(g, m - 1)
    BY <2>3
  <2> DEFINE h == [n \in 0..m |-> IF n = m THEN G(g[m - 1], m) ELSE g[n]]
  <2>5. \A n \in 0..m : h[n] = IF n = 0 THEN Start(pool) ELSE G(h[n - 1], n)
    <3> SUFFICES ASSUME NEW n \in 0..m
                 PROVE  h[n] = IF n = 0 THEN Start(pool) ELSE G(h[n - 1], n)
      OBVIOUS
    <3>1. CASE n = m
      BY <2>2, <2>3, <3>1
    <3>2. CASE n # m
      BY <2>2, <2>3, <2>4, <3>2
    <3> QED BY <3>1, <3>2
  <2>6. Built(h, m)
    BY <2>5
  <2> QED BY <2>1, <2>6
<1>2. PICK g : Built(g, Len(cs))
  BY <1>1
<1> QED BY <1>2 DEF Passed, After, Start

(* What a pass has found, by the positions it was to match.                *)
AccOf(turns, pool) == [pool      : SUBSET pool,
                       unmatched : SUBSET turns,
                       pairs     : SUBSET [candidate : turns, current : pool]]

(* Up to position n nothing is lost, a pair has a signature in common, what*)
(* is unmatched has no hit left, and of a signature the earliest rules of  *)
(* either list are the ones in pairs.                                      *)
Accounted(acc, cs, turns, bs, pool, n) ==
  /\ acc \in AccOf(turns, pool)
  /\ OneToOne(acc.pairs)
  /\ \A p \in acc.pairs : /\ p.candidate <= n
                           /\ p.candidate \notin acc.unmatched
                           /\ p.current \notin acc.pool
  /\ \A k \in acc.unmatched : k <= n
  /\ \A k \in turns : k <= n =>
       k \in acc.unmatched \/ \E p \in acc.pairs : p.candidate = k
  /\ \A i \in pool : i \in acc.pool \/ \E p \in acc.pairs : p.current = i

Greedy(acc, cs, bs, kind) ==
  /\ \A p \in acc.pairs : Same(cs[p.candidate], bs[p.current], kind)
  /\ \A k \in acc.unmatched, i \in acc.pool : ~Same(cs[k], bs[i], kind)
  /\ \A k \in acc.unmatched, p \in acc.pairs :
       Same(cs[k], cs[p.candidate], kind) => p.candidate < k
  /\ \A i \in acc.pool, p \in acc.pairs :
       Same(bs[i], bs[p.current], kind) => p.current < i

(* A turn keeps both.                                                      *)
LEMMA TurnKeeps ==
  ASSUME NEW cs, NEW bs, NEW turns \in SUBSET Nat, NEW pool \in SUBSET Nat,
         NEW kind, NEW n \in Nat, n # 0, NEW acc,
         Accounted(acc, cs, turns, bs, pool, n - 1), Greedy(acc, cs, bs, kind)
  PROVE  LET next == After(acc, cs, turns, bs, kind, n)
         IN  /\ Accounted(next, cs, turns, bs, pool, n)
             /\ Greedy(next, cs, bs, kind)
<1> DEFINE next == After(acc, cs, turns, bs, kind, n)
           hits == Hits(bs, acc.pool, cs[n], kind)
           h == FirstHit(hits)
<1>0. acc \in AccOf(turns, pool) /\ n - 1 \in Nat
  BY DEF Accounted
<1>1. CASE n \notin turns
  <2>1. next = acc
    BY <1>1 DEF After
  <2>2. \A k \in turns : k <= n => k <= n - 1
    BY <1>1
  <2>3. \A k \in turns : k <= n - 1 => k <= n
    OBVIOUS
  <2>4. Accounted(acc, cs, turns, bs, pool, n)
    BY <1>0, <2>2, <2>3 DEF Accounted, AccOf
  <2> QED BY <2>1, <2>4
<1>2. CASE n \in turns /\ hits = {}
  <2> DEFINE x == [pool |-> acc.pool, unmatched |-> acc.unmatched \cup {n},
                   pairs |-> acc.pairs]
  <2>1. next = x
    BY <1>0, <1>2 DEF After, Turn, AccOf
  <2>2. \A i \in acc.pool : ~Same(cs[n], bs[i], kind)
    BY <1>2 DEF Hits, Same
  <2>3. \A p \in acc.pairs : p.candidate \in Nat /\ p.candidate <= n - 1
    BY <1>0 DEF AccOf, Accounted
  <2>4. \A p \in acc.pairs : p.candidate < n
    BY <2>3
  <2>5. Accounted(x, cs, turns, bs, pool, n)
    <3>1. x \in AccOf(turns, pool)
      BY <1>0, <1>2 DEF AccOf
    <3>2. \A k \in acc.unmatched \cup {n} : k <= n
      BY <1>0 DEF AccOf, Accounted
    <3>3. \A k \in turns : k <= n => k = n \/ k <= n - 1
      OBVIOUS
    <3>4. \A p \in acc.pairs : p.candidate <= n /\ p.candidate # n
      BY <2>3
    <3> QED BY <3>1, <3>2, <3>3, <3>4 DEF Accounted
  <2>6. Greedy(x, cs, bs, kind)
    BY <2>2, <2>4 DEF Greedy
  <2> HIDE DEF x
  <2> QED BY <2>1, <2>5, <2>6
<1>3. CASE n \in turns /\ hits # {}
  <2>1. /\ h \in acc.pool /\ Same(cs[n], bs[h], kind)
        /\ \A i \in acc.pool : Same(cs[n], bs[i], kind) => h <= i
    <3>1. hits \in SUBSET acc.pool /\ hits \in SUBSET Nat
      BY <1>0 DEF Hits, AccOf
    <3>2. \E i \in hits : \A j \in hits : i <= j
      <4> HIDE DEF hits
      <4> QED BY <1>3, <3>1, Least
    <3>3. h \in hits /\ \A j \in hits : h <= j
      <4> HIDE DEF hits
      <4> QED BY <3>2 DEF FirstHit
    <3> HIDE DEF h
    <3> QED BY <3>1, <3>3 DEF Hits, Same
  <2> DEFINE w == [candidate |-> n, current |-> h]
             x == [pool |-> acc.pool \ {h}, unmatched |-> acc.unmatched,
                   pairs |-> acc.pairs \cup {w}]
  <2>2. next = x
    <3> HIDE DEF h
    <3>1. next = [acc EXCEPT !.pool = Pop(@, h), !.pairs = @ \cup {w}]
      BY <1>3 DEF After, Turn, h
    <3> QED BY <1>0, <3>1 DEF Pop, AccOf
  <2> HIDE DEF h, hits
  <2>3. h \in pool /\ h \in Nat
    BY <1>0, <2>1 DEF AccOf
  <2>4. w \in [candidate : turns, current : pool] /\ w.candidate = n /\ w.current = h
    BY <1>3, <2>3
  <2> HIDE DEF w
  <2>5. \A p \in acc.pairs : /\ p.candidate \in Nat /\ p.candidate <= n - 1
                             /\ p.current # h /\ p.current \in Nat
    BY <1>0, <2>1 DEF AccOf, Accounted
  <2>6. \A k \in acc.unmatched : k \in Nat /\ k <= n - 1
    BY <1>0 DEF AccOf, Accounted
  <2>7. Accounted(x, cs, turns, bs, pool, n)
    <3>1. x \in AccOf(turns, pool)
      BY <1>0, <2>4 DEF AccOf
    <3>2. \A k \in acc.unmatched : k <= n /\ k # n
      BY <2>6
    <3>3. \A k \in turns : k <= n => k = n \/ k <= n - 1
      OBVIOUS
    <3>4. \A p \in acc.pairs : p.candidate <= n /\ p.candidate # n /\ p.current # h
      BY <2>5
    <3>5. OneToOne(acc.pairs \cup {w})
      BY <2>4, <3>4 DEF OneToOne, Accounted
    <3>6. \A p \in x.pairs : /\ p.candidate <= n
                             /\ p.candidate \notin x.unmatched
                             /\ p.current \notin x.pool
      BY <2>4, <3>2, <3>4 DEF Accounted
    <3>7. \A k \in turns : k <= n =>
            k \in x.unmatched \/ \E p \in x.pairs : p.candidate = k
      BY <2>4, <3>3 DEF Accounted
    <3>8. \A i \in pool : i \in x.pool \/ \E p \in x.pairs : p.current = i
      BY <2>4 DEF Accounted
    <3> QED BY <3>1, <3>2, <3>5, <3>6, <3>7, <3>8 DEF Accounted
  <2>8. Greedy(x, cs, bs, kind)
    <3>1. \A k \in acc.unmatched : ~Same(cs[k], cs[n], kind)
      BY <2>1 DEF Greedy, Same
    <3>2. \A i \in acc.pool \ {h} : Same(bs[i], bs[h], kind) => h < i
      <4>1. \A i \in acc.pool \ {h} : i \in Nat
        BY <1>0 DEF AccOf
      <4> QED BY <2>1, <2>3, <4>1 DEF Same
    <3> QED BY <2>1, <2>4, <3>1, <3>2 DEF Greedy
  <2> HIDE DEF x
  <2> QED BY <2>2, <2>7, <2>8
<1> QED BY <1>1, <1>2, <1>3

(* So the pass does.                                                       *)
LEMMA PassKeeps ==
  ASSUME NEW cs, Len(cs) \in Nat, NEW bs, NEW turns \in SUBSET (1..Len(cs)),
         NEW pool \in SUBSET Nat, NEW kind
  PROVE  LET r == MatchPass(cs, turns, bs, pool, kind)
         IN  /\ Accounted(r, cs, turns, bs, pool, Len(cs))
             /\ Greedy(r, cs, bs, kind)
<1> DEFINE f == Passed(cs, turns, bs, pool, kind)
           Good(n) == /\ Accounted(f[n], cs, turns, bs, pool, n)
                      /\ Greedy(f[n], cs, bs, kind)
           T == {n \in 0..Len(cs) : ~Good(n)}
<1>1. \A n \in 0..Len(cs) :
        f[n] = IF n = 0 THEN Start(pool)
               ELSE After(f[n - 1], cs, turns, bs, kind, n)
  <2>1. f = [n \in 0..Len(cs) |-> IF n = 0 THEN Start(pool)
                                  ELSE After(f[n - 1], cs, turns, bs, kind, n)]
    BY PassedIs
  <2> HIDE DEF f
  <2> QED BY <2>1
<1> HIDE DEF f
<1>2. Good(0)
  <2>1. f[0] = Start(pool)
    BY <1>1
  <2>2. Accounted(Start(pool), cs, turns, bs, pool, 0)
    BY DEF Accounted, AccOf, Start, OneToOne
  <2>3. Greedy(Start(pool), cs, bs, kind)
    BY DEF Greedy, Start
  <2> QED BY <2>1, <2>2, <2>3
<1>3. ASSUME NEW n \in 1..Len(cs), Good(n - 1)
      PROVE  Good(n)
  <2>1. n \in Nat /\ n # 0 /\ turns \in SUBSET Nat /\ n \in 0..Len(cs)
    OBVIOUS
  <2>2. f[n] = After(f[n - 1], cs, turns, bs, kind, n)
    BY <1>1, <2>1
  <2> QED BY <1>3, <2>1, <2>2, TurnKeeps
<1> HIDE DEF Good
<1>4. T = {}
  <2> SUFFICES ASSUME T # {} PROVE FALSE
    OBVIOUS
  <2>1. T \in SUBSET Nat
    OBVIOUS
  <2>2. PICK m \in T : \A k \in T : m <= k
    <3> HIDE DEF T
    <3> QED BY <2>1, Least
  <2>3. m \in 0..Len(cs) /\ ~Good(m)
    BY <2>2
  <2>4. m # 0
    BY <1>2, <2>3
  <2>5. m - 1 \in 0..Len(cs) /\ m \in 1..Len(cs)
    BY <2>3, <2>4
  <2>6. m - 1 \notin T
    <3>1. ~(m <= m - 1)
      BY <2>5
    <3> HIDE DEF T
    <3> QED BY <2>2, <3>1
  <2> QED BY <1>3, <2>3, <2>5, <2>6
<1>5. Good(Len(cs))
  BY <1>4
<1> QED BY <1>5 DEF MatchPass, Good, f

-----------------------------------------------------------------------------
(* Pairs that are one to one have as many candidates as current rules.     *)
LEMMA PairsCount ==
  ASSUME NEW P, OneToOne(P), IsFiniteSet(CandidatesOf(P))
  PROVE  /\ IsFiniteSet(CurrentOf(P))
         /\ Cardinality(CurrentOf(P)) = Cardinality(CandidatesOf(P))
<1> DEFINE M == CandidatesOf(P)
           N == CurrentOf(P)
           f == [m \in M |-> (CHOOSE p \in P : p.candidate = m).current]
<1>1. \A m \in M : \E p \in P : p.candidate = m /\ f[m] = p.current
  BY DEF CandidatesOf
<1>2. \A p \in P : p.candidate \in M /\ p.current \in N /\ f[p.candidate] = p.current
  BY <1>1 DEF OneToOne, CandidatesOf, CurrentOf
<1>3. \A i \in N : \E p \in P : p.current = i
  BY DEF CurrentOf
<1>4. f \in [M -> N]
  <2>1. \A m \in M : f[m] \in N
    BY <1>1, <1>2
  <2> QED BY <2>1
<1>5. \A a, b \in M : f[a] = f[b] => a = b
  BY <1>1 DEF OneToOne
<1> HIDE DEF f
<1>6. \A i \in N : \E m \in M : f[m] = i
  <2> HIDE DEF M, N
  <2> QED BY <1>2, <1>3
<1>7. f \in Bijection(M, N)
  <2> HIDE DEF M, N
  <2>1. f \in Injection(M, N)
    BY <1>4, <1>5 DEF Injection, IsInjective
  <2>2. f \in Surjection(M, N)
    BY <1>4, <1>6 DEF Surjection
  <2> QED BY <2>1, <2>2 DEF Bijection
<1>8. ExistsBijection(M, N)
  BY <1>7 DEF ExistsBijection
<1> QED BY <1>8, FS_Bijection

(* X and Y are the rules of one signature on either side, M and N those    *)
(* that are matched: the earliest ones, as many as there are of both.      *)
LEMMA Ranks ==
  ASSUME NEW X \in SUBSET Nat, IsFiniteSet(X), NEW Y, IsFiniteSet(Y),
         NEW M \in SUBSET X, NEW N \in SUBSET Y,
         Cardinality(M) = Cardinality(N),
         \A m \in M, k \in X \ M : m < k,
         M = X \/ N = Y,
         NEW x \in X
  PROVE  x \in M <=> Cardinality({j \in X : j <= x}) <= Cardinality(Y)
<1> DEFINE D == {j \in X : j <= x}
<1>1. /\ IsFiniteSet(M) /\ IsFiniteSet(N) /\ IsFiniteSet(D)
      /\ Cardinality(M) \in Nat /\ Cardinality(Y) \in Nat /\ Cardinality(D) \in Nat
  BY FS_Subset, FS_CardinalityType
<1>2. CASE x \in M
  <2>1. D \in SUBSET M
    <3>1. \A j \in D : j \in X /\ j \in Nat /\ x \in Nat /\ j <= x
      OBVIOUS
    <3>2. \A j \in D : ~(x < j)
      BY <3>1
    <3> HIDE DEF D
    <3> QED BY <1>2, <3>1, <3>2
  <2>2. Cardinality(D) <= Cardinality(M)
    BY <1>1, <2>1, FS_Subset
  <2>3. Cardinality(N) <= Cardinality(Y)
    BY FS_Subset
  <2> HIDE DEF D
  <2>4. Cardinality(D) <= Cardinality(Y)
    BY <1>1, <2>2, <2>3
  <2> QED BY <1>2, <2>4 DEF D
<1>3. CASE x \notin M
  <2>1. M \cup {x} \in SUBSET D
    BY <1>3
  <2>2. IsFiniteSet(M \cup {x}) /\ Cardinality(M \cup {x}) = Cardinality(M) + 1
    BY <1>1, <1>3, FS_AddElement
  <2>3. Cardinality(M \cup {x}) <= Cardinality(D)
    BY <1>1, <2>1, FS_Subset
  <2>4. Cardinality(M) = Cardinality(Y)
    BY <1>3
  <2> HIDE DEF D
  <2>5. ~(Cardinality(D) <= Cardinality(Y))
    BY <1>1, <2>2, <2>3, <2>4
  <2> QED BY <1>3, <2>5 DEF D
<1> QED BY <1>2, <1>3

(* What a pass matches is what the counting definition says.               *)
LEMMA PassCounts ==
  ASSUME NEW cs, NEW bs, NEW kind, NEW n \in Nat, NEW acc,
         NEW turns \in SUBSET (1..n), NEW pool \in SUBSET Nat, IsFiniteSet(pool),
         Accounted(acc, cs, turns, bs, pool, n), Greedy(acc, cs, bs, kind)
  PROVE  /\ CandidatesOf(acc.pairs) = Matched(turns, cs, pool, bs, kind)
         /\ CurrentOf(acc.pairs) = Matched(pool, bs, turns, cs, kind)
<1> DEFINE U == CandidatesOf(acc.pairs)
           V == CurrentOf(acc.pairs)
           X(r) == {k \in turns : Same(cs[k], r, kind)}
           Y(r) == {i \in pool : Same(bs[i], r, kind)}
           M(r) == {k \in U : Same(cs[k], r, kind)}
           N(r) == {i \in V : Same(bs[i], r, kind)}
<1>1. IsFiniteSet(turns) /\ turns \in SUBSET Nat
  <2>1. IsFiniteSet(1..n)
    BY FS_Interval
  <2>2. IsFiniteSet(turns)
    BY <2>1, FS_Subset
  <2> QED BY <2>2
<1>2. /\ acc.unmatched \subseteq turns /\ acc.pool \subseteq pool
      /\ \A p \in acc.pairs : p.candidate \in turns /\ p.current \in pool
  BY DEF Accounted, AccOf
<1>3. U \subseteq turns /\ V \subseteq pool
  BY <1>2 DEF CandidatesOf, CurrentOf
<1>4. \A k \in turns : k \in U <=> k \notin acc.unmatched
  <2>1. \A k \in turns : k <= n
    OBVIOUS
  <2> QED BY <2>1 DEF Accounted, CandidatesOf
<1>5. \A i \in pool : i \in V <=> i \notin acc.pool
  BY DEF Accounted, CurrentOf
<1>6. ASSUME NEW r
      PROVE  /\ X(r) \in SUBSET Nat /\ IsFiniteSet(X(r))
             /\ Y(r) \in SUBSET Nat /\ IsFiniteSet(Y(r))
             /\ M(r) \in SUBSET X(r) /\ N(r) \in SUBSET Y(r)
             /\ Cardinality(M(r)) = Cardinality(N(r))
             /\ \A m \in M(r), k \in X(r) \ M(r) : m < k
             /\ \A m \in N(r), k \in Y(r) \ N(r) : m < k
             /\ M(r) = X(r) \/ N(r) = Y(r)
  <2> DEFINE P == {p \in acc.pairs : Same(cs[p.candidate], r, kind)}
  <2>1. X(r) \in SUBSET Nat /\ IsFiniteSet(X(r)) /\ Y(r) \in SUBSET Nat /\ IsFiniteSet(Y(r))
    BY <1>1, FS_Subset
  <2>2. M(r) \in SUBSET X(r) /\ N(r) \in SUBSET Y(r)
    BY <1>3
  <2>3. M(r) = CandidatesOf(P) /\ N(r) = CurrentOf(P)
    BY DEF CandidatesOf, CurrentOf, Greedy, Same
  <2>4. OneToOne(P)
    BY DEF Accounted, OneToOne
  <2>5. IsFiniteSet(M(r))
    BY <2>1, <2>2, FS_Subset
  <2>6. Cardinality(M(r)) = Cardinality(N(r))
    <3> HIDE DEF P
    <3> QED BY <2>3, <2>4, <2>5, PairsCount
  <2>7. \A m \in M(r), k \in X(r) \ M(r) : m < k
    BY <1>4 DEF Greedy, Same, CandidatesOf
  <2>8. \A m \in N(r), k \in Y(r) \ N(r) : m < k
    BY <1>5 DEF Greedy, Same, CurrentOf
  <2>9. M(r) = X(r) \/ N(r) = Y(r)
    BY <1>3, <1>4, <1>5 DEF Greedy, Same
  <2> QED BY <2>1, <2>2, <2>6, <2>7, <2>8, <2>9
<1>7. ASSUME NEW k \in turns
      PROVE  k \in U <=> Cardinality({j \in turns : j <= k /\ Same(cs[j], cs[k], kind)})
                           <= Cardinality({j \in pool : Same(bs[j], cs[k], kind)})
  <2>1. k \in X(cs[k]) /\ (k \in U <=> k \in M(cs[k]))
    BY <1>3 DEF Same
  <2>2. {j \in turns : j <= k /\ Same(cs[j], cs[k], kind)} = {j \in X(cs[k]) : j <= k}
    OBVIOUS
  <2> HIDE DEF U, X, Y, M, N
  <2>3. k \in M(cs[k]) <=> Cardinality({j \in X(cs[k]) : j <= k}) <= Cardinality(Y(cs[k]))
    BY <1>6, <2>1, Ranks
  <2> QED BY <2>1, <2>2, <2>3 DEF Y
<1>8. ASSUME NEW i \in pool
      PROVE  i \in V <=> Cardinality({j \in pool : j <= i /\ Same(bs[j], bs[i], kind)})
                           <= Cardinality({j \in turns : Same(cs[j], bs[i], kind)})
  <2>1. i \in Y(bs[i]) /\ (i \in V <=> i \in N(bs[i]))
    BY <1>3 DEF Same
  <2>2. {j \in pool : j <= i /\ Same(bs[j], bs[i], kind)} = {j \in Y(bs[i]) : j <= i}
    OBVIOUS
  <2> HIDE DEF V, X, Y, M, N
  <2>3. i \in N(bs[i]) <=> Cardinality({j \in Y(bs[i]) : j <= i}) <= Cardinality(X(bs[i]))
    BY <1>6, <2>1, Ranks
  <2> QED BY <2>1, <2>2, <2>3 DEF X
<1> HIDE DEF U, V
<1>9. U = Matched(turns, cs, pool, bs, kind)
  BY <1>3, <1>7 DEF Matched
<1>10. V = Matched(pool, bs, turns, cs, kind)
  BY <1>3, <1>8 DEF Matched
<1> QED BY <1>9, <1>10 DEF U, V

-----------------------------------------------------------------------------
(* A list of Rules that the diff can be called with.                       *)
OfContents(list) == \E n \in Nat : list \in [1..n -> {Signed(c) : c \in Contents}]

LEMMA ListsAre ==
  ASSUME NEW list, OfContents(list)
  PROVE  /\ Len(list) \in Nat /\ DOMAIN list = 1..Len(list)
         /\ IsFiniteSet(DOMAIN list)
         /\ \A i \in DOMAIN list : \E c \in Contents : list[i] = Signed(c)
<1>1. PICK n \in Nat : list \in [1..n -> {Signed(c) : c \in Contents}]
  BY DEF OfContents
<1>2. Len(list) = n /\ DOMAIN list = 1..n
  BY <1>1
<1>3. IsFiniteSet(1..n)
  BY FS_Interval
<1>4. \A i \in 1..n : \E c \in Contents : list[i] = Signed(c)
  BY <1>1
<1> QED BY <1>2, <1>3, <1>4

(* Equal exact signatures are equal relaxed ones: the latter leaves out    *)
(* what the former has, or normalises it.                                  *)
LEMMA ExactIsRelaxed ==
  ASSUME NEW a \in Contents, NEW b \in Contents,
         Same(Signed(a), Signed(b), "exact")
  PROVE  Same(Signed(a), Signed(b), "relaxed")
<1>1. SemanticSignature(a) = SemanticSignature(b)
  BY DEF Same, Signed
<1>2. /\ a.statement = b.statement /\ a.class = b.class
      /\ ScopeSignature(a) = ScopeSignature(b)
      /\ a.condition = b.condition /\ a.applicability = b.applicability
  BY <1>1 DEF SemanticSignature
<1>3. a.shape = b.shape
  BY <1>2, DiffAssumption
<1>4. RelaxedSignature(a) = RelaxedSignature(b)
  BY <1>2, <1>3 DEF RelaxedSignature
<1> QED BY <1>4 DEF Same, Signed

First(cs, bs) == MatchPass(cs, DOMAIN cs, bs, DOMAIN bs, "exact")
Second(cs, bs) ==
  MatchPass(cs, First(cs, bs).unmatched, bs, First(cs, bs).pool, "relaxed")

(* The two passes of a diff, each with what TurnKeeps says of it.          *)
LEMMA DiffPasses ==
  ASSUME NEW cs, OfContents(cs), NEW bs, OfContents(bs)
  PROVE  /\ Accounted(First(cs, bs), cs, DOMAIN cs, bs, DOMAIN bs, Len(cs))
         /\ Greedy(First(cs, bs), cs, bs, "exact")
         /\ Accounted(Second(cs, bs), cs, First(cs, bs).unmatched,
                      bs, First(cs, bs).pool, Len(cs))
         /\ Greedy(Second(cs, bs), cs, bs, "relaxed")
         /\ First(cs, bs).unmatched \in SUBSET (1..Len(cs))
         /\ First(cs, bs).pool \in SUBSET Nat
         /\ IsFiniteSet(First(cs, bs).pool)
<1> DEFINE C == DOMAIN cs
           B == DOMAIN bs
<1>1. /\ Len(cs) \in Nat /\ C \in SUBSET (1..Len(cs))
      /\ B \in SUBSET Nat /\ IsFiniteSet(B)
  BY ListsAre
<1> HIDE DEF C, B
<1>2. /\ Accounted(First(cs, bs), cs, C, bs, B, Len(cs))
      /\ Greedy(First(cs, bs), cs, bs, "exact")
  <2>1. First(cs, bs) = MatchPass(cs, C, bs, B, "exact")
    BY DEF First, C, B
  <2> QED BY <1>1, <2>1, PassKeeps
<1>3. First(cs, bs).unmatched \in SUBSET C /\ First(cs, bs).pool \in SUBSET B
  BY <1>2 DEF Accounted, AccOf
<1>4. First(cs, bs).unmatched \in SUBSET (1..Len(cs))
  BY <1>1, <1>3
<1>5. First(cs, bs).pool \in SUBSET Nat
  BY <1>1, <1>3
<1>6. IsFiniteSet(First(cs, bs).pool)
  BY <1>1, <1>3, FS_Subset
<1>7. /\ Accounted(Second(cs, bs), cs, First(cs, bs).unmatched,
                   bs, First(cs, bs).pool, Len(cs))
      /\ Greedy(Second(cs, bs), cs, bs, "relaxed")
  BY <1>1, <1>4, <1>5, PassKeeps DEF Second
<1> QED BY <1>2, <1>4, <1>5, <1>6, <1>7 DEF C, B

LEMMA DiffIs ==
  ASSUME NEW cs, NEW bs
  PROVE  /\ Diff(cs, bs).unchanged = First(cs, bs).pairs
         /\ Diff(cs, bs).changed = Second(cs, bs).pairs
         /\ Diff(cs, bs).added = Second(cs, bs).unmatched
         /\ Diff(cs, bs).removed = Second(cs, bs).pool
BY DEF Diff, First, Second

(* How many rules of a list have a signature in common with r.             *)
Count(S, list, r, kind) == Cardinality({i \in S : Same(list[i], r, kind)})

(* Every exact match takes a rule of the same relaxed signature from either*)
(* side: how many are left for the second pass does not depend on which    *)
(* ones the first pass took.                                               *)
LEMMA LeftForSecond ==
  ASSUME NEW cs, OfContents(cs), NEW bs, OfContents(bs), NEW r
  PROVE  /\ Count(DOMAIN bs, bs, r, "relaxed") \in Nat
         /\ Count(CandidatesOf(First(cs, bs).pairs), cs, r, "relaxed") \in Nat
         /\ Count(First(cs, bs).pool, bs, r, "relaxed") =
              Count(DOMAIN bs, bs, r, "relaxed")
                - Count(CandidatesOf(First(cs, bs).pairs), cs, r, "relaxed")
<1> DEFINE one == First(cs, bs)
           S == {i \in DOMAIN bs : Same(bs[i], r, "relaxed")}
           P == {p \in one.pairs : Same(cs[p.candidate], r, "relaxed")}
<1>1. Accounted(one, cs, DOMAIN cs, bs, DOMAIN bs, Len(cs)) /\ Greedy(one, cs, bs, "exact")
  BY DiffPasses
<1> HIDE DEF one
<1>2. \A p \in one.pairs : /\ p.candidate \in DOMAIN cs /\ p.current \in DOMAIN bs
                           /\ Same(cs[p.candidate], bs[p.current], "relaxed")
  <2> SUFFICES ASSUME NEW p \in one.pairs
               PROVE  /\ p.candidate \in DOMAIN cs /\ p.current \in DOMAIN bs
                      /\ Same(cs[p.candidate], bs[p.current], "relaxed")
    OBVIOUS
  <2>1. p.candidate \in DOMAIN cs /\ p.current \in DOMAIN bs
    BY <1>1 DEF Accounted, AccOf
  <2>2. PICK a \in Contents : cs[p.candidate] = Signed(a)
    BY <2>1, ListsAre
  <2>3. PICK b \in Contents : bs[p.current] = Signed(b)
    BY <2>1, ListsAre
  <2>4. Same(Signed(a), Signed(b), "exact")
    BY <1>1, <2>2, <2>3 DEF Greedy
  <2>5. Same(cs[p.candidate], bs[p.current], "relaxed")
    BY <2>2, <2>3, <2>4, ExactIsRelaxed
  <2> QED BY <2>1, <2>5
<1>3. CandidatesOf(P) = {k \in CandidatesOf(one.pairs) : Same(cs[k], r, "relaxed")}
  BY DEF CandidatesOf
<1>4. CurrentOf(P) \subseteq S
  BY <1>2 DEF CurrentOf, Same
<1>5. {i \in one.pool : Same(bs[i], r, "relaxed")} = S \ CurrentOf(P)
  <2>1. \A i \in S : i \in CurrentOf(P) <=> \E p \in one.pairs : p.current = i
    BY <1>2 DEF CurrentOf, Same
  <2>2. \A i \in S : i \in one.pool <=> ~\E p \in one.pairs : p.current = i
    BY <1>1 DEF Accounted
  <2>3. one.pool \subseteq DOMAIN bs
    BY <1>1 DEF Accounted, AccOf
  <2> HIDE DEF P
  <2> QED BY <2>1, <2>2, <2>3
<1>6. IsFiniteSet(S)
  <2>1. S \in SUBSET DOMAIN bs /\ IsFiniteSet(DOMAIN bs)
    BY ListsAre
  <2> QED BY <2>1, FS_Subset
<1>7. IsFiniteSet(CandidatesOf(P))
  <2>1. IsFiniteSet(DOMAIN cs)
    BY ListsAre
  <2>2. CandidatesOf(P) \in SUBSET DOMAIN cs
    BY <1>2 DEF CandidatesOf
  <2> QED BY <2>1, <2>2, FS_Subset
<1>8. OneToOne(P)
  BY <1>1 DEF Accounted, OneToOne
<1> HIDE DEF P, S
<1>9. /\ IsFiniteSet(CurrentOf(P))
      /\ Cardinality(CurrentOf(P)) = Cardinality(CandidatesOf(P))
  BY <1>7, <1>8, PairsCount
<1>10. S \cap CurrentOf(P) = CurrentOf(P)
  BY <1>4
<1>11. Cardinality(S \ CurrentOf(P)) = Cardinality(S) - Cardinality(CurrentOf(P))
  BY <1>6, <1>10, FS_Difference
<1>12. Cardinality(S) \in Nat /\ Cardinality(CandidatesOf(P)) \in Nat
  BY <1>6, <1>7, FS_CardinalityType
<1> QED BY <1>3, <1>5, <1>9, <1>11, <1>12 DEF Count, S, one

(* Another order of a list has the same rules.                             *)
LEMMA OrderCounts ==
  ASSUME NEW bs, OfContents(bs), NEW q \in Orders(Len(bs)), NEW r, NEW kind
  PROVE  LET other == [i \in DOMAIN bs |-> bs[q[i]]]
         IN  /\ OfContents(other) /\ DOMAIN other = DOMAIN bs
             /\ Count(DOMAIN bs, other, r, kind) = Count(DOMAIN bs, bs, r, kind)
<1> DEFINE B == DOMAIN bs
           other == [i \in B |-> bs[q[i]]]
           S == {i \in B : Same(other[i], r, kind)}
           T == {i \in B : Same(bs[i], r, kind)}
           f == [i \in S |-> q[i]]
<1>1. IsFiniteSet(B) /\ B = 1..Len(bs)
  BY ListsAre
<1>2. q \in [B -> B] /\ \A i, j \in B : q[i] = q[j] => i = j
  BY <1>1 DEF Orders
<1> HIDE DEF B
<1>3. q \in Injection(B, B)
  BY <1>2 DEF Injection, IsInjective
<1>4. q \in Surjection(B, B)
  BY <1>1, <1>3, FS_Injection
<1>5. \A j \in B : \E i \in B : q[i] = j
  BY <1>4 DEF Surjection
<1>6. OfContents(other)
  <2>1. PICK n \in Nat : bs \in [1..n -> {Signed(c) : c \in Contents}]
    BY DEF OfContents
  <2>2. B = 1..n
    BY <2>1 DEF B
  <2>3. other \in [1..n -> {Signed(c) : c \in Contents}]
    BY <1>2, <2>1, <2>2
  <2> QED BY <2>3 DEF OfContents
<1>7. f \in Bijection(S, T)
  <2>1. f \in [S -> T]
    BY <1>2
  <2>2. f \in Injection(S, T)
    BY <1>2, <2>1 DEF Injection, IsInjective
  <2>3. f \in Surjection(S, T)
    BY <1>2, <1>5, <2>1 DEF Surjection
  <2> QED BY <2>2, <2>3 DEF Bijection
<1>8. ExistsBijection(S, T)
  BY <1>7 DEF ExistsBijection
<1>9. IsFiniteSet(S)
  BY <1>1, FS_Subset
<1>10. Cardinality(S) = Cardinality(T)
  <2> HIDE DEF S, T
  <2> QED BY <1>8, <1>9, FS_Bijection
<1>11. DOMAIN other = B
  OBVIOUS
<1> QED BY <1>6, <1>10, <1>11 DEF Count, B

(* The two passes share out both lists.                                    *)
LEMMA PassesShareOut ==
  ASSUME NEW cs, OfContents(cs), NEW bs, OfContents(bs)
  PROVE  LET one == First(cs, bs)
             two == Second(cs, bs)
         IN  /\ one.unmatched = DOMAIN cs \ CandidatesOf(one.pairs)
             /\ one.pool = DOMAIN bs \ CurrentOf(one.pairs)
             /\ two.unmatched = one.unmatched \ CandidatesOf(two.pairs)
             /\ two.pool = one.pool \ CurrentOf(two.pairs)
             /\ CandidatesOf(one.pairs) \subseteq DOMAIN cs
             /\ CurrentOf(one.pairs) \subseteq DOMAIN bs
             /\ CandidatesOf(two.pairs) \subseteq one.unmatched
             /\ CurrentOf(two.pairs) \subseteq one.pool
<1> DEFINE one == First(cs, bs)
           two == Second(cs, bs)
<1>1. ASSUME NEW acc, NEW turns \in SUBSET (1..Len(cs)), NEW pool,
             Accounted(acc, cs, turns, bs, pool, Len(cs))
      PROVE  /\ acc.unmatched = turns \ CandidatesOf(acc.pairs)
             /\ acc.pool = pool \ CurrentOf(acc.pairs)
             /\ CandidatesOf(acc.pairs) \subseteq turns
             /\ CurrentOf(acc.pairs) \subseteq pool
  <2>1. \A k \in turns : k <= Len(cs)
    BY ListsAre
  <2>2. /\ acc.unmatched \subseteq turns /\ acc.pool \subseteq pool
        /\ \A p \in acc.pairs : p.candidate \in turns /\ p.current \in pool
    BY <1>1 DEF Accounted, AccOf
  <2>3. acc.unmatched = turns \ CandidatesOf(acc.pairs)
    <3>1. \A k \in turns : k \in CandidatesOf(acc.pairs) <=> k \notin acc.unmatched
      BY <1>1, <2>1 DEF Accounted, CandidatesOf
    <3> QED BY <2>2, <3>1
  <2>4. acc.pool = pool \ CurrentOf(acc.pairs)
    BY <1>1, <2>2 DEF Accounted, CurrentOf
  <2> QED BY <2>2, <2>3, <2>4 DEF CandidatesOf, CurrentOf
<1>2. DOMAIN cs \in SUBSET (1..Len(cs)) /\ one.unmatched \in SUBSET (1..Len(cs))
  BY ListsAre, DiffPasses
<1>3. /\ Accounted(one, cs, DOMAIN cs, bs, DOMAIN bs, Len(cs))
      /\ Accounted(two, cs, one.unmatched, bs, one.pool, Len(cs))
  BY DiffPasses
<1> HIDE DEF one, two
<1>4. /\ one.unmatched = DOMAIN cs \ CandidatesOf(one.pairs)
      /\ one.pool = DOMAIN bs \ CurrentOf(one.pairs)
      /\ CandidatesOf(one.pairs) \subseteq DOMAIN cs
      /\ CurrentOf(one.pairs) \subseteq DOMAIN bs
  BY <1>1, <1>2, <1>3
<1>5. /\ two.unmatched = one.unmatched \ CandidatesOf(two.pairs)
      /\ two.pool = one.pool \ CurrentOf(two.pairs)
      /\ CandidatesOf(two.pairs) \subseteq one.unmatched
      /\ CurrentOf(two.pairs) \subseteq one.pool
  BY <1>1, <1>2, <1>3
<1> QED BY <1>4, <1>5 DEF one, two

(* Each pass computes the counting definition.                             *)
LEMMA DiffCounts ==
  ASSUME NEW cs, OfContents(cs), NEW bs, OfContents(bs)
  PROVE  LET one == First(cs, bs)
             two == Second(cs, bs)
         IN  /\ CandidatesOf(one.pairs) =
                  Matched(DOMAIN cs, cs, DOMAIN bs, bs, "exact")
             /\ CurrentOf(one.pairs) =
                  Matched(DOMAIN bs, bs, DOMAIN cs, cs, "exact")
             /\ CandidatesOf(two.pairs) =
                  Matched(one.unmatched, cs, one.pool, bs, "relaxed")
             /\ CurrentOf(two.pairs) =
                  Matched(one.pool, bs, one.unmatched, cs, "relaxed")
<1> DEFINE C == DOMAIN cs
           B == DOMAIN bs
<1>1. /\ Len(cs) \in Nat /\ C \in SUBSET (1..Len(cs))
      /\ B \in SUBSET Nat /\ IsFiniteSet(B)
  BY ListsAre
<1>2. /\ Accounted(First(cs, bs), cs, C, bs, B, Len(cs))
      /\ Greedy(First(cs, bs), cs, bs, "exact")
  BY DiffPasses
<1> HIDE DEF C, B
<1>3. /\ CandidatesOf(First(cs, bs).pairs) = Matched(C, cs, B, bs, "exact")
      /\ CurrentOf(First(cs, bs).pairs) = Matched(B, bs, C, cs, "exact")
  <2> DEFINE acc == First(cs, bs)
             n == Len(cs)
             kind == "exact"
  <2>1. /\ n \in Nat /\ C \in SUBSET (1..n)
        /\ Accounted(acc, cs, C, bs, B, n) /\ Greedy(acc, cs, bs, kind)
    BY <1>1, <1>2
  <2> HIDE DEF acc, n, kind
  <2>2. /\ CandidatesOf(acc.pairs) = Matched(C, cs, B, bs, kind)
        /\ CurrentOf(acc.pairs) = Matched(B, bs, C, cs, kind)
    BY <1>1, <2>1, PassCounts
  <2> QED BY <2>2 DEF acc, kind
<1>4. LET one == First(cs, bs)
          two == Second(cs, bs)
      IN  /\ CandidatesOf(two.pairs) =
               Matched(one.unmatched, cs, one.pool, bs, "relaxed")
          /\ CurrentOf(two.pairs) =
               Matched(one.pool, bs, one.unmatched, cs, "relaxed")
  BY <1>1, DiffPasses, PassCounts
<1> QED BY <1>3, <1>4 DEF C, B

LEMMA PartitionIs ==
  ASSUME NEW a, NEW b, NEW c, NEW S, a \cup b \cup c = S,
         a \cap b = {}, a \cap c = {}, b \cap c = {}
  PROVE  Partition(<<a, b, c>>, S)
<1> DEFINE parts == <<a, b, c>>
<1>1. 1..3 = {1, 2, 3} /\ parts[1] = a /\ parts[2] = b /\ parts[3] = c
  OBVIOUS
<1> HIDE DEF parts
<1>2. {parts[i] : i \in 1..3} = {a, b, c}
  BY <1>1
<1>3. UNION {a, b, c} = S
  OBVIOUS
<1>4. \A i, j \in 1..3 : i # j => parts[i] \cap parts[j] = {}
  BY <1>1
<1> QED BY <1>2, <1>3, <1>4 DEF Partition, parts

(* Which category a candidate gets does not depend on the order of the     *)
(* baseline: both passes only count the rules of a signature.              *)
LEMMA OrderOfBaseline ==
  ASSUME NEW cs, OfContents(cs), NEW bs, OfContents(bs), NEW q \in Orders(Len(bs))
  PROVE  LET other == [i \in DOMAIN bs |-> bs[q[i]]]
         IN  /\ CandidatesOf(First(cs, bs).pairs) =
                  CandidatesOf(First(cs, other).pairs)
             /\ CandidatesOf(Second(cs, bs).pairs) =
                  CandidatesOf(Second(cs, other).pairs)
             /\ Second(cs, bs).unmatched = Second(cs, other).unmatched
<1> DEFINE other == [i \in DOMAIN bs |-> bs[q[i]]]
           one == First(cs, bs)
           two == Second(cs, bs)
           one1 == First(cs, other)
           two1 == Second(cs, other)
<1>1. OfContents(other) /\ DOMAIN other = DOMAIN bs
  BY OrderCounts
<1>2. \A r, kind : Count(DOMAIN bs, other, r, kind) = Count(DOMAIN bs, bs, r, kind)
  BY OrderCounts
<1> HIDE DEF other
<1>3. CandidatesOf(one.pairs) = CandidatesOf(one1.pairs)
  <2>1. CandidatesOf(one.pairs) = Matched(DOMAIN cs, cs, DOMAIN bs, bs, "exact")
    BY DiffCounts
  <2>2. CandidatesOf(one1.pairs) = Matched(DOMAIN cs, cs, DOMAIN bs, other, "exact")
    BY <1>1, DiffCounts
  <2>3. Matched(DOMAIN cs, cs, DOMAIN bs, bs, "exact") =
          Matched(DOMAIN cs, cs, DOMAIN bs, other, "exact")
    BY <1>2 DEF Matched, Count
  <2> QED BY <2>1, <2>2, <2>3
<1>4. one.unmatched = one1.unmatched
  BY <1>1, <1>3, PassesShareOut
<1>5. \A r : Count(one.pool, bs, r, "relaxed") = Count(one1.pool, other, r, "relaxed")
  <2> TAKE r
  <2>1. Count(one.pool, bs, r, "relaxed") =
          Count(DOMAIN bs, bs, r, "relaxed")
            - Count(CandidatesOf(one.pairs), cs, r, "relaxed")
    BY LeftForSecond
  <2>2. Count(one1.pool, other, r, "relaxed") =
          Count(DOMAIN bs, other, r, "relaxed")
            - Count(CandidatesOf(one1.pairs), cs, r, "relaxed")
    BY <1>1, LeftForSecond
  <2> QED BY <1>2, <1>3, <2>1, <2>2
<1>6. CandidatesOf(two.pairs) = CandidatesOf(two1.pairs)
  <2>1. CandidatesOf(two.pairs) = Matched(one.unmatched, cs, one.pool, bs, "relaxed")
    BY DiffCounts
  <2>2. CandidatesOf(two1.pairs) =
          Matched(one1.unmatched, cs, one1.pool, other, "relaxed")
    BY <1>1, DiffCounts
  <2>3. Matched(one.unmatched, cs, one.pool, bs, "relaxed") =
          Matched(one1.unmatched, cs, one1.pool, other, "relaxed")
    <3> HIDE DEF one, one1
    <3> QED BY <1>4, <1>5 DEF Matched, Count
  <2> QED BY <2>1, <2>2, <2>3
<1>7. two.unmatched = two1.unmatched
  <2>1. two.unmatched = one.unmatched \ CandidatesOf(two.pairs)
    BY PassesShareOut
  <2>2. two1.unmatched = one1.unmatched \ CandidatesOf(two1.pairs)
    BY <1>1, PassesShareOut
  <2> QED BY <1>4, <1>6, <2>1, <2>2
<1> QED BY <1>3, <1>6, <1>7 DEF other

-----------------------------------------------------------------------------
(* The lists stay, and what is computed is their diff.                     *)
Computed ==
  /\ OfContents(candidates)
  /\ OfContents(current)
  /\ computed => diff = Diff(candidates, current)

LEMMA ComputedAlways == Spec => []Computed
<1>1. Init => Computed
  BY DEF Init, Computed, Lists, OfContents
<1>2. Computed /\ [Compute]_vars => Computed'
  <2> SUFFICES ASSUME Computed, [Compute]_vars PROVE Computed'
    OBVIOUS
  <2>1. candidates' = candidates /\ current' = current
    BY DEF Compute, vars
  <2>2. CASE Compute
    BY <2>1, <2>2 DEF Compute, Computed, OfContents
  <2>3. CASE UNCHANGED vars
    BY <2>3 DEF vars, Computed, OfContents
  <2> QED BY <2>2, <2>3
<1> QED BY <1>1, <1>2, PTL DEF Spec

(* For candidate lists and baselines of any length, over any contents, the *)
(* diff is a partition of both lists, agrees with the counting definition, *)
(* leaves out no match, and gives every candidate the same category        *)
(* whatever the order of the baseline.                                     *)
THEOREM DiffSound == Spec => []DiffIsSound
<1>1. Computed => DiffIsSound
  <2> SUFFICES ASSUME Computed, computed PROVE DiffIsSound
    BY DEF DiffIsSound, DiffIsPartition, PairsMatch, DiffMatchesCounting,
           BaselineOrderIrrelevant
  <2> DEFINE one == First(candidates, current)
             two == Second(candidates, current)
             C == DOMAIN candidates
             B == DOMAIN current
  <2>1. /\ OfContents(candidates) /\ OfContents(current)
        /\ diff.unchanged = one.pairs /\ diff.changed = two.pairs
        /\ diff.added = two.unmatched /\ diff.removed = two.pool
    BY DiffIs DEF Computed
  <2>2. /\ one.unmatched = C \ CandidatesOf(one.pairs)
        /\ one.pool = B \ CurrentOf(one.pairs)
        /\ two.unmatched = one.unmatched \ CandidatesOf(two.pairs)
        /\ two.pool = one.pool \ CurrentOf(two.pairs)
        /\ CandidatesOf(one.pairs) \subseteq C /\ CurrentOf(one.pairs) \subseteq B
        /\ CandidatesOf(two.pairs) \subseteq one.unmatched
        /\ CurrentOf(two.pairs) \subseteq one.pool
    BY <2>1, PassesShareOut
  <2>3. /\ Accounted(one, candidates, C, current, B, Len(candidates))
        /\ Greedy(one, candidates, current, "exact")
        /\ Accounted(two, candidates, one.unmatched, current, one.pool, Len(candidates))
        /\ Greedy(two, candidates, current, "relaxed")
    BY <2>1, DiffPasses
  <2>4. /\ CandidatesOf(one.pairs) = Matched(C, candidates, B, current, "exact")
        /\ CurrentOf(one.pairs) = Matched(B, current, C, candidates, "exact")
        /\ CandidatesOf(two.pairs) =
             Matched(one.unmatched, candidates, one.pool, current, "relaxed")
        /\ CurrentOf(two.pairs) =
             Matched(one.pool, current, one.unmatched, candidates, "relaxed")
    BY <2>1, DiffCounts
  <2>5. \A q \in Orders(Len(current)) :
          LET d == Diff(candidates, [i \in B |-> current[q[i]]])
          IN  /\ CandidatesOf(one.pairs) = CandidatesOf(d.unchanged)
              /\ CandidatesOf(two.pairs) = CandidatesOf(d.changed)
              /\ two.unmatched = d.added
    BY <2>1, OrderOfBaseline, DiffIs
  <2> HIDE DEF one, two, C, B
  <2>6. DiffIsPartition
    <3>1. Partition(<<CandidatesOf(one.pairs), CandidatesOf(two.pairs),
                      two.unmatched>>, C)
      BY <2>2, PartitionIs
    <3>2. Partition(<<CurrentOf(one.pairs), CurrentOf(two.pairs), two.pool>>, B)
      BY <2>2, PartitionIs
    <3>3. OneToOne(one.pairs \cup two.pairs)
      <4>1. OneToOne(one.pairs) /\ OneToOne(two.pairs)
        BY <2>3 DEF Accounted
      <4>2. \A p \in one.pairs, r \in two.pairs :
              p.candidate # r.candidate /\ p.current # r.current
        BY <2>2 DEF CandidatesOf, CurrentOf
      <4> QED BY <4>1, <4>2 DEF OneToOne
    <3> QED BY <2>1, <3>1, <3>2, <3>3 DEF DiffIsPartition, C, B
  <2>7. PairsMatch
    <3>1. /\ CandidatesOf(two.pairs) \cup two.unmatched = one.unmatched
          /\ CurrentOf(two.pairs) \cup two.pool = one.pool
      BY <2>2
    <3> QED BY <2>1, <2>3, <3>1 DEF PairsMatch, Greedy
  <2>8. DiffMatchesCounting
    BY <2>1, <2>2, <2>4 DEF DiffMatchesCounting, C, B
  <2>9. BaselineOrderIrrelevant
    BY <2>1, <2>5 DEF BaselineOrderIrrelevant, B
  <2> QED BY <2>6, <2>7, <2>8, <2>9 DEF DiffIsSound
<1> QED BY <1>1, ComputedAlways, PTL
=============================================================================
