---------------------------- MODULE ProviderProofs ----------------------------
(***************************************************************************)
(* What is proved about providers.  Of Routing: every session that has     *)
(* decided has the best route its rules allow, and none goes to what was   *)
(* out of rotation, for any rules, providers and sessions.  Of             *)
(* ProviderLimit: the cap is respected, the counter is exact and no wakeup *)
(* is lost, for any number of sessions, providers and caps.                *)
(***************************************************************************)
EXTENDS Routing, ProviderLimit, SequenceTheorems, FunctionTheorems, FiniteSetTheorems, TLAPS

-----------------------------------------------------------------------------
(* Sets in their order, and the places of a sequence.                       *)

LEMMA CountUpTo ==
  ASSUME NEW n \in Nat
  PROVE  IsFiniteSet(1 .. n) /\ Cardinality(1 .. n) = n
<1>1. /\ IsFiniteSet(1 .. n)
      /\ Cardinality(1 .. n) = IF 1 > n THEN 0 ELSE n - 1 + 1
  BY FS_Interval
<1> QED BY <1>1

\* Where D[x] is what comes before x, the elements of S in their order.
Linear(D, S) ==
  /\ D \in [S -> SUBSET S]
  /\ \A x \in S : x \notin D[x]
  /\ \A x, y \in S : x \in D[y] => D[x] \subseteq D[y]
  /\ \A x, y \in S : x # y => x \in D[y] \/ y \in D[x]
Picks(order, D, S) ==
  /\ order = [k \in 1 .. Cardinality(S) |-> order[k]]
  /\ \A k \in 1 .. Cardinality(S) :
       (\E x \in S : Cardinality(D[x]) = k - 1) =>
         order[k] \in S /\ Cardinality(D[order[k]]) = k - 1
Sorted(order, D, S) ==
  /\ order \in [1 .. Cardinality(S) -> S]
  /\ \A x \in S : \E k \in 1 .. Cardinality(S) : order[k] = x
  /\ \A i, j \in 1 .. Cardinality(S) : i < j => order[i] \in D[order[j]]

LEMMA Ordering ==
  ASSUME NEW S, IsFiniteSet(S), NEW D, Linear(D, S), NEW order, Picks(order, D, S)
  PROVE  Sorted(order, D, S)
<1> USE DEF Linear, Picks, Sorted
<1> DEFINE n == Cardinality(S)
           rank == [x \in S |-> Cardinality(D[x]) + 1]
<1>1. n \in Nat
  BY FS_CardinalityType
<1>2. \A x \in S : IsFiniteSet(D[x]) /\ Cardinality(D[x]) \in Nat
  BY FS_Subset, FS_CardinalityType
<1>3. ASSUME NEW x \in S, NEW y \in S, x \in D[y]
      PROVE  Cardinality(D[x]) < Cardinality(D[y])
  <2>1. D[x] \subseteq D[y] /\ D[x] # D[y]
    BY <1>3
  <2>2. /\ Cardinality(D[x]) <= Cardinality(D[y])
        /\ Cardinality(D[x]) # Cardinality(D[y])
    BY <2>1, <1>2, FS_Subset
  <2> QED BY <2>2, <1>2
<1>4. ASSUME NEW x \in S PROVE Cardinality(D[x]) < n
  <2>1. D[x] \in SUBSET S /\ D[x] # S
    OBVIOUS
  <2>2. Cardinality(D[x]) <= n /\ Cardinality(D[x]) # n
    BY <2>1, FS_Subset
  <2> QED BY <2>2, <1>1, <1>2
<1>5. rank \in [S -> 1 .. n]
  BY <1>1, <1>2, <1>4
<1>6. \A x, y \in S : rank[x] = rank[y] => x = y
  <2> SUFFICES ASSUME NEW x \in S, NEW y \in S, rank[x] = rank[y], x # y PROVE FALSE
    OBVIOUS
  <2>1. Cardinality(D[x]) = Cardinality(D[y])
    BY <1>2
  <2>2. x \in D[y] \/ y \in D[x]
    OBVIOUS
  <2> QED BY <2>1, <2>2, <1>2, <1>3
<1>7. rank \in Injection(S, 1 .. n)
  BY <1>5, <1>6, Fun_IsInj
<1>8. rank \in Surjection(S, 1 .. n)
  <2>1. IsFiniteSet(1 .. n) /\ Cardinality(S) = Cardinality(1 .. n)
    BY <1>1, CountUpTo
  <2> QED BY <1>7, <2>1, FS_Injection
<1> HIDE DEF rank
<1>9. \A k \in 1 .. n : \E x \in S : rank[x] = k
  BY <1>8 DEF Surjection
<1>10. ASSUME NEW k \in 1 .. n PROVE order[k] \in S /\ Cardinality(D[order[k]]) = k - 1
  <2>1. PICK x \in S : rank[x] = k
    BY <1>9
  <2>2. Cardinality(D[x]) = k - 1
    BY <2>1, <1>2 DEF rank
  <2> QED BY <2>2
<1>11. order \in [1 .. n -> S]
  BY <1>10
<1>12. ASSUME NEW x \in S PROVE \E k \in 1 .. n : order[k] = x
  <2>1. rank[x] \in 1 .. n /\ Cardinality(D[x]) = rank[x] - 1
    BY <1>2, <1>5 DEF rank
  <2>2. order[rank[x]] \in S /\ Cardinality(D[order[rank[x]]]) = Cardinality(D[x])
    BY <2>1, <1>10
  <2>3. order[rank[x]] = x
    BY <2>2, <1>6 DEF rank
  <2> QED BY <2>1, <2>3
<1>13. ASSUME NEW i \in 1 .. n, NEW j \in 1 .. n, i < j PROVE order[i] \in D[order[j]]
  <2>1. /\ order[i] \in S /\ Cardinality(D[order[i]]) = i - 1
        /\ order[j] \in S /\ Cardinality(D[order[j]]) = j - 1
    BY <1>10
  <2>2. order[i] # order[j]
    BY <2>1, <1>1, <1>13
  <2>3. order[i] \in D[order[j]] \/ order[j] \in D[order[i]]
    BY <2>1, <2>2
  <2>4. order[j] \notin D[order[i]]
    <3>1. ASSUME order[j] \in D[order[i]] PROVE FALSE
      <4>1. Cardinality(D[order[j]]) < Cardinality(D[order[i]])
        BY <2>1, <3>1, <1>3
      <4> QED BY <4>1, <2>1, <1>1, <1>13
    <3> QED BY <3>1
  <2> QED BY <2>3, <2>4
<1> QED BY <1>11, <1>12, <1>13

\* The numbers of I, from the least to the greatest.
Enumerates(at, I) ==
  /\ Cardinality(I) \in Nat /\ at \in [1 .. Cardinality(I) -> I]
  /\ \A x \in I : \E k \in 1 .. Cardinality(I) : at[k] = x
  /\ \A i, j \in 1 .. Cardinality(I) : i < j => at[i] < at[j]

LEMMA Places ==
  ASSUME NEW I \in SUBSET Nat, IsFiniteSet(I)
  PROVE  Enumerates(InOrder(I, <), I)
<1> DEFINE D == [x \in I |-> {y \in I : y < x}]
           at == InOrder(I, <)
           Nth(k) == CHOOSE x \in I : Cardinality({y \in I : y < x}) = k - 1
<1>1. at = [k \in 1 .. Cardinality(I) |-> Nth(k)]
  BY DEF InOrder
<1> HIDE DEF at
<1>2. ASSUME NEW k \in 1 .. Cardinality(I), NEW z \in I, Cardinality(D[z]) = k - 1
      PROVE  at[k] \in I /\ Cardinality(D[at[k]]) = k - 1
  <2>1. Cardinality({y \in I : y < z}) = k - 1
    BY <1>2
  <2>2. at[k] = CHOOSE x \in I : Cardinality({y \in I : y < x}) = k - 1
    <3> HIDE DEF Nth
    <3>1. at[k] = Nth(k)
      BY <1>1
    <3> QED BY <3>1 DEF Nth
  <2>3. at[k] \in I /\ Cardinality({y \in I : y < at[k]}) = k - 1
    BY <2>1, <2>2
  <2> QED BY <2>3
<1>3. at = [k \in 1 .. Cardinality(I) |-> at[k]]
  <2> HIDE DEF Nth
  <2> QED BY <1>1
<1>4. /\ D \in [I -> SUBSET I]
      /\ \A x \in I : x \notin D[x]
      /\ \A x, y \in I : x \in D[y] => D[x] \subseteq D[y]
      /\ \A x, y \in I : x # y => x \in D[y] \/ y \in D[x]
  <2>1. \A x, y \in I : x \in D[y] <=> x < y
    OBVIOUS
  <2>2. D \in [I -> SUBSET I]
    OBVIOUS
  <2> HIDE DEF D
  <2>3. \A x, y, z \in I : x < y /\ z < x => z < y
    OBVIOUS
  <2>4. \A x, y \in I : x \in D[y] => D[x] \subseteq D[y]
    BY <2>1, <2>2, <2>3
  <2>5. \A x, y \in I : ~(x < x) /\ (x # y => x < y \/ y < x)
    OBVIOUS
  <2> QED BY <2>1, <2>2, <2>4, <2>5
<1>5. \A x, y \in I : x \in D[y] => x < y
  OBVIOUS
<1>6. Cardinality(I) \in Nat
  BY FS_CardinalityType
<1> HIDE DEF D, Nth
<1>7. \A k \in 1 .. Cardinality(I) :
         (\E x \in I : Cardinality(D[x]) = k - 1) => at[k] \in I /\ Cardinality(D[at[k]]) = k - 1
  BY <1>2
<1>8. Linear(D, I) /\ Picks(at, D, I)
  BY <1>3, <1>4, <1>7 DEF Linear, Picks
<1>9. Sorted(at, D, I)
  BY <1>8, Ordering
<1>10. /\ at \in [1 .. Cardinality(I) -> I]
      /\ \A x \in I : \E k \in 1 .. Cardinality(I) : at[k] = x
      /\ \A i, j \in 1 .. Cardinality(I) : i < j => at[i] \in D[at[j]]
  BY <1>9 DEF Sorted
<1>11. \A i, j \in 1 .. Cardinality(I) : i < j => at[i] < at[j]
  <2>1. \A i \in 1 .. Cardinality(I) : at[i] \in I
    BY <1>10
  <2> QED BY <1>5, <1>10, <2>1
<1>12. Enumerates(at, I)
  BY <1>6, <1>10, <1>11 DEF Enumerates
<1> QED BY <1>12 DEF at

LEMMA LeastNumber ==
  ASSUME NEW Some \in SUBSET Nat, Some # {}
  PROVE  \E n \in Some : \A m \in Some : n <= m
<1>1. PICK n \in Some : \A m \in Some : <<m, n>> \notin OpToRel(<, Nat)
  BY NatLessThanWellFounded, WFMin
<1>2. ASSUME NEW m \in Some PROVE n <= m
  <2>1. ASSUME m < n PROVE FALSE
    <3>1. <<m, n>> \in OpToRel(<, Nat)
      BY <2>1 DEF OpToRel
    <3> QED BY <3>1, <1>1
  <2>2. m \in Nat /\ n \in Nat
    OBVIOUS
  <2> QED BY <2>1, <2>2
<1> QED BY <1>2

\* What SelectInSeq returns, for the places where the test holds.
FirstOf(n, I) == IF I = {} THEN n = 0 ELSE n \in I /\ \A k \in I : n <= k

LEMMA LeastOf ==
  ASSUME NEW I \in SUBSET Nat
  PROVE  FirstOf(IF I # {} THEN Min(I) ELSE 0, I)
<1>1. CASE I = {}
  BY <1>1 DEF FirstOf
<1>2. CASE I # {}
  <2>1. \E x \in I : \A y \in I : x <= y
    BY <1>2, LeastNumber
  <2>2. Min(I) \in I /\ \A y \in I : Min(I) <= y
    BY <2>1 DEF Min
  <2> QED BY <1>2, <2>2 DEF FirstOf
<1> QED BY <1>1, <1>2

-----------------------------------------------------------------------------
(* Lists of rules.                                                          *)

\* rules.yaml, seeds and overrides.
RuleList(rs) == \E R : rs \in Seq(R) /\ \A r \in R : RuleOK(r)

LEMMA ListOfRules ==
  ASSUME NEW rs, RuleList(rs)
  PROVE  /\ Len(rs) \in Nat /\ DOMAIN rs = 1 .. Len(rs)
         /\ \A i \in 1 .. Len(rs) : RuleOK(rs[i])
<1>1. PICK R : rs \in Seq(R) /\ \A r \in R : RuleOK(r)
  BY DEF RuleList
<1> QED BY <1>1

LEMMA RuleListOf ==
  ASSUME NEW rs, NEW n \in Nat, rs = [i \in 1 .. n |-> rs[i]], \A i \in 1 .. n : RuleOK(rs[i])
  PROVE  RuleList(rs)
<1> DEFINE R == {rs[i] : i \in 1 .. n}
<1>1. rs \in Seq(R)
  OBVIOUS
<1>2. \A r \in R : RuleOK(r)
  OBVIOUS
<1> HIDE DEF R
<1> QED BY <1>1, <1>2 DEF RuleList

LEMMA FileIsList ==
  ASSUME NEW rs, RuleFile(rs)
  PROVE  RuleList(rs)
<1> DEFINE R == {rs[i] : i \in DOMAIN rs}
<1>1. rs \in Seq(R) /\ \A r \in R : RuleOK(r)
  BY DEF RuleFile
<1> HIDE DEF R
<1> QED BY <1>1 DEF RuleList

LEMMA ListsTogether ==
  ASSUME NEW rs, RuleList(rs), NEW new, RuleList(new)
  PROVE  RuleList(rs \o new)
<1>1. PICK R : rs \in Seq(R) /\ \A r \in R : RuleOK(r)
  BY DEF RuleList
<1>2. PICK S : new \in Seq(S) /\ \A r \in S : RuleOK(r)
  BY DEF RuleList
<1>3. rs \in Seq(R \cup S)
  BY <1>1
<1>4. new \in Seq(R \cup S)
  BY <1>2
<1>5. rs \o new \in Seq(R \cup S)
  BY <1>3, <1>4, ConcatProperties
<1>6. \A r \in R \cup S : RuleOK(r)
  BY <1>1, <1>2
<1> QED BY <1>5, <1>6 DEF RuleList

LEMMA OneRuleMore ==
  ASSUME NEW rs, RuleList(rs), NEW r, RuleOK(r)
  PROVE  RuleList(Append(rs, r)) /\ \A i : RuleList([rs EXCEPT ![i] = r])
<1>1. PICK R : rs \in Seq(R) /\ \A x \in R : RuleOK(x)
  BY DEF RuleList
<1>2. rs \in Seq(R \cup {r}) /\ \A x \in R \cup {r} : RuleOK(x)
  BY <1>1
<1>3. Append(rs, r) \in Seq(R \cup {r})
  BY <1>2, AppendProperties
<1>4. ASSUME NEW i PROVE [rs EXCEPT ![i] = r] \in Seq(R \cup {r})
  <2>1. PICK g : g = [rs EXCEPT ![i] = r]
    OBVIOUS
  <2>2. Len(rs) \in Nat /\ DOMAIN rs = 1 .. Len(rs) /\ \A k \in 1 .. Len(rs) : rs[k] \in R \cup {r}
    BY <1>2
  <2>3. g = [k \in 1 .. Len(rs) |-> IF k = i THEN r ELSE rs[k]]
    BY <2>1, <2>2
  <2>4. g \in Seq(R \cup {r})
    BY <2>2, <2>3
  <2> QED BY <2>1, <2>4
<1> QED BY <1>2, <1>3, <1>4 DEF RuleList

\* The elements of a sequence at some of its places.
LEMMA KeptElements ==
  ASSUME NEW s, NEW n \in Nat, DOMAIN s = 1 .. n, NEW I \in SUBSET (1 .. n)
  PROVE  /\ Kept(s, I) = [k \in 1 .. Cardinality(I) |-> Kept(s, I)[k]] /\ Cardinality(I) \in Nat
         /\ \A k \in 1 .. Cardinality(I) : \E i \in I : Kept(s, I)[k] = s[i]
<1>1. I \in SUBSET Nat /\ IsFiniteSet(I)
  <2>1. IsFiniteSet(1 .. n)
    BY CountUpTo
  <2>2. IsFiniteSet(I)
    BY <2>1, FS_Subset
  <2> QED BY <2>2
<1> DEFINE at == InOrder(I, <)
           kept == Kept(s, I)
<1>2. Enumerates(at, I)
  BY <1>1, Places
<1>3. kept = [k \in DOMAIN at |-> s[at[k]]]
  BY DEF Kept
<1> HIDE DEF at, kept
<1>4. PICK c \in Nat : c = Cardinality(I)
  BY <1>2 DEF Enumerates
<1>5. DOMAIN at = 1 .. c /\ \A k \in 1 .. c : at[k] \in I
  BY <1>2, <1>4 DEF Enumerates
<1>6. kept = [k \in 1 .. c |-> kept[k]] /\ \A k \in 1 .. c : kept[k] = s[at[k]]
  BY <1>3, <1>5
<1>7. \A k \in 1 .. c : \E i \in I : kept[k] = s[i]
  BY <1>5, <1>6
<1> QED BY <1>4, <1>6, <1>7 DEF kept

LEMMA KeptRules ==
  ASSUME NEW rs, RuleList(rs), NEW I \in SUBSET DOMAIN rs
  PROVE  RuleList(Kept(rs, I))
<1>1. Len(rs) \in Nat /\ DOMAIN rs = 1 .. Len(rs) /\ \A i \in 1 .. Len(rs) : RuleOK(rs[i])
  BY ListOfRules
<1>2. PICK kept : kept = Kept(rs, I)
  OBVIOUS
<1>3. PICK c : c = Cardinality(I)
  OBVIOUS
<1>4. /\ kept = [k \in 1 .. c |-> kept[k]] /\ c \in Nat
      /\ \A k \in 1 .. c : \E i \in I : kept[k] = rs[i]
  <2>1. PICK n \in Nat : n = Len(rs) /\ DOMAIN rs = 1 .. n
    BY <1>1
  <2>2. I \in SUBSET (1 .. n)
    BY <2>1
  <2> QED BY <1>2, <1>3, <2>1, <2>2, KeptElements
<1>5. \A k \in 1 .. c : RuleOK(kept[k])
  BY <1>1, <1>4
<1>6. RuleList(kept)
  BY <1>4, <1>5, RuleListOf
<1> QED BY <1>2, <1>6

LEMMA KeptEntries ==
  ASSUME NEW S, NEW s \in Seq(S), NEW I \in SUBSET DOMAIN s
  PROVE  Kept(s, I) \in Seq(S)
<1>1. PICK n \in Nat : n = Len(s) /\ DOMAIN s = 1 .. n /\ \A i \in 1 .. n : s[i] \in S
  OBVIOUS
<1>2. PICK kept, c : kept = Kept(s, I) /\ c = Cardinality(I)
  OBVIOUS
<1>3. I \in SUBSET (1 .. n)
  BY <1>1
<1>4. /\ kept = [k \in 1 .. c |-> kept[k]] /\ c \in Nat
      /\ \A k \in 1 .. c : \E i \in I : kept[k] = s[i]
  BY <1>1, <1>2, <1>3, KeptElements
<1>5. \A k \in 1 .. c : kept[k] \in S
  BY <1>1, <1>3, <1>4
<1>6. kept \in Seq(S)
  BY <1>4, <1>5
<1> QED BY <1>2, <1>6

\* What rule init adds.
LEMMA CutRules ==
  ASSUME NEW r, RuleOK(r), NEW chain \in Seq(Entries)
  PROVE  RuleOK([r EXCEPT !.chain = chain])
<1>1. PICK x : x = [r EXCEPT !.chain = chain]
  OBVIOUS
<1>2. /\ DOMAIN x = DOMAIN r /\ x.chain = chain
      /\ x.role = r.role /\ x.min = r.min /\ x.prio = r.prio
  BY <1>1 DEF RuleOK
<1>3. RuleOK(x)
  BY <1>2 DEF RuleOK
<1> QED BY <1>1, <1>3

\* A rule with another priority.
LEMMA OtherPriority ==
  ASSUME NEW r, RuleOK(r), NEW n \in Int
  PROVE  RuleOK([r EXCEPT !.prio = n])
<1>1. PICK x : x = [r EXCEPT !.prio = n]
  OBVIOUS
<1>2. /\ DOMAIN x = DOMAIN r /\ x.chain = r.chain
      /\ x.role = r.role /\ x.min = r.min /\ x.prio = n
  BY <1>1 DEF RuleOK
<1>3. RuleOK(x)
  BY <1>2 DEF RuleOK
<1> QED BY <1>1, <1>3

LEMMA SeedsAreRules ==
  ASSUME RuleList(rules), SeedRules
  PROVE  RuleList(rules')
<1> DEFINE I(i) == {n \in DOMAIN Seeds[i].chain : registry[Seeds[i].chain[n].p] # NULL}
           cut(r) == [r EXCEPT !.chain = Kept(@, {n \in DOMAIN @ : registry[@[n].p] # NULL})]
           cuts == [i \in DOMAIN Seeds |-> cut(Seeds[i])]
           new == {i \in DOMAIN cuts : cuts[i].chain # <<>> /\ cuts[i].id \notin Ids(rules)}
<1>1. RuleList(Seeds)
  BY RulesOK, FileIsList
<1>2. PICK n \in Nat : DOMAIN Seeds = 1 .. n /\ \A i \in 1 .. n : RuleOK(Seeds[i])
  BY <1>1, ListOfRules
<1>3. ASSUME NEW i \in 1 .. n PROVE RuleOK(cut(Seeds[i]))
  <2>1. PICK r : r = Seeds[i]
    OBVIOUS
  <2>2. RuleOK(r)
    BY <1>2, <2>1
  <2>3. PICK K : K = {m \in DOMAIN r.chain : registry[r.chain[m].p] # NULL}
    OBVIOUS
  <2>4. PICK kept : kept = Kept(r.chain, K)
    OBVIOUS
  <2>5. kept \in Seq(Entries)
    <3>1. r.chain \in Seq(Entries)
      BY <2>2 DEF RuleOK
    <3>2. K \in SUBSET DOMAIN r.chain
      BY <2>3
    <3> QED BY <2>4, <3>1, <3>2, KeptEntries
  <2>6. cut(r) = [r EXCEPT !.chain = kept]
    BY <2>3, <2>4
  <2> HIDE DEF cut
  <2>7. RuleOK([r EXCEPT !.chain = kept])
    BY <2>2, <2>5, CutRules
  <2>8. RuleOK(cut(r))
    BY <2>6, <2>7
  <2> QED BY <2>1, <2>8
<1>4. rules' = rules \o Kept(cuts, new)
  BY DEF SeedRules
<1> HIDE DEF cut
<1>5. cuts = [i \in 1 .. n |-> cuts[i]] /\ \A i \in 1 .. n : RuleOK(cuts[i])
  BY <1>2, <1>3
<1>6. RuleList(cuts)
  <2>1. PICK rs : rs = cuts
    OBVIOUS
  <2> HIDE DEF cuts
  <2>2. RuleList(rs)
    BY <1>5, <2>1, RuleListOf
  <2> QED BY <2>1, <2>2
<1>7. new \in SUBSET DOMAIN cuts
  OBVIOUS
<1> HIDE DEF cuts, new
<1>8. PICK added : added = Kept(cuts, new)
  OBVIOUS
<1>9. RuleList(added)
  BY <1>6, <1>7, <1>8, KeptRules
<1> QED BY <1>4, <1>8, <1>9, ListsTogether

LEMMA MergedAreRules ==
  ASSUME NEW rs, RuleList(rs), NEW overrides, overrides = <<>> \/ overrides = Overrides
  PROVE  RuleList(MergedWith(rs, overrides))
<1>1. RuleList(overrides)
  <2>1. CASE overrides = Overrides
    BY <2>1, RulesOK, FileIsList
  <2>2. CASE overrides = <<>>
    <3>1. <<>> \in Seq({}) /\ \A r \in {} : RuleOK(r)
      OBVIOUS
    <3> QED BY <2>2, <3>1 DEF RuleList
  <2> QED BY <2>1, <2>2
<1>2. PICK n \in Nat : DOMAIN overrides = 1 .. n /\ \A i \in 1 .. n : RuleOK(overrides[i])
  BY <1>1, ListOfRules
<1> DEFINE more(r) == [r EXCEPT !.prio = @ + Bonus]
           first == [i \in DOMAIN overrides |-> more(overrides[i])]
<1>3. ASSUME NEW i \in 1 .. n PROVE RuleOK(more(overrides[i]))
  <2>1. PICK r : r = overrides[i]
    OBVIOUS
  <2>2. RuleOK(r)
    BY <1>2, <2>1
  <2>3. PICK k : k = r.prio + Bonus
    OBVIOUS
  <2>4. k \in Int
    BY <2>2, <2>3 DEF RuleOK, Bonus
  <2>5. more(r) = [r EXCEPT !.prio = k]
    BY <2>3
  <2> HIDE DEF more
  <2>6. RuleOK([r EXCEPT !.prio = k])
    BY <2>2, <2>4, OtherPriority
  <2>7. RuleOK(more(r))
    BY <2>5, <2>6
  <2> QED BY <2>1, <2>7
<1>4. MergedWith(rs, overrides) = first \o rs
  BY DEF MergedWith
<1> HIDE DEF more
<1>5. first = [i \in 1 .. n |-> first[i]] /\ \A i \in 1 .. n : RuleOK(first[i])
  BY <1>2, <1>3
<1>6. PICK f : f = first
  OBVIOUS
<1> HIDE DEF first
<1>7. RuleList(f)
  BY <1>5, <1>6, RuleListOf
<1>8. RuleList(f \o rs)
  BY <1>7, ListsTogether
<1> QED BY <1>4, <1>6, <1>8

-----------------------------------------------------------------------------
(* What is left of a quota is a percentage.                                 *)

LEMMA Percent ==
  ASSUME NEW l \in Nat, l > 0, NEW rest \in Nat, rest <= l
  PROVE  (rest * 100) \div l \in 0 .. 100
<1>1. PICK a \in Nat : a = rest * 100
  OBVIOUS
<1>2. PICK q : q = a \div l
  OBVIOUS
<1>3. q \in Int /\ l * q <= a /\ a < l * q + l
  BY <1>1, <1>2
<1>4. q >= 0
  <2>1. ASSUME q < 0 PROVE FALSE
    <3>1. PICK m \in Int : m = - 1 - q
      BY <1>3
    <3>2. m >= 0 /\ q = - 1 - m
      BY <1>3, <2>1, <3>1
    <3>3. l * m >= 0
      BY <3>2
    <3>4. l * q + l = - (l * m)
      BY <3>2
    <3> QED BY <1>3, <3>3, <3>4
  <2> QED BY <1>3, <2>1
<1>5. q <= 100
  <2>1. ASSUME q > 100 PROVE FALSE
    <3>1. PICK m \in Int : m = q - 101
      BY <1>3
    <3>2. m >= 0 /\ q = 101 + m
      BY <1>3, <2>1, <3>1
    <3>3. l * m >= 0
      BY <3>2
    <3>4. l * q = l * 101 + l * m
      BY <3>2
    <3>5. l * 101 <= a
      BY <1>3, <3>3, <3>4
    <3> QED BY <1>1, <3>5
  <2> QED BY <1>3, <2>1
<1> QED BY <1>1, <1>2, <1>3, <1>4, <1>5

\* A subscription: its cycle began with tokens spent already.
Budgeted(s, total) ==
  /\ DOMAIN s = {"limit", "used", "source", "since"}
  /\ s.limit \in Nat \cup {NULL} /\ s.used \in Nat
  /\ s.since \in Nat /\ s.since <= total

LEMMA QuotaIsPercent ==
  ASSUME NEW p, NEW s, spent[p] \in Nat, s = NULL \/ Budgeted(s, spent[p])
  PROVE  Remaining(s, p) \in {NULL} \cup 0 .. 100
<1>1. CASE s = NULL \/ s.limit \in {NULL, 0}
  BY <1>1 DEF Remaining
<1>2. CASE s # NULL /\ s.limit \notin {NULL, 0}
  <2> DEFINE used == IF s.source = "synced" /\ s.used > 0 THEN s.used ELSE spent[p] - s.since
             rest == IF used > s.limit THEN 0 ELSE s.limit - used
  <2>1. Remaining(s, p) = (rest * 100) \div s.limit
    BY <1>2 DEF Remaining
  <2>2. s.limit \in Nat /\ s.limit > 0
    BY <1>2 DEF Budgeted
  <2>3. used \in Nat
    BY <1>2 DEF Budgeted
  <2> HIDE DEF used
  <2>4. rest \in Nat /\ rest <= s.limit
    BY <2>2, <2>3
  <2> HIDE DEF rest
  <2>5. (rest * 100) \div s.limit \in 0 .. 100
    BY <2>2, <2>4, Percent
  <2> QED BY <2>1, <2>5
<1> QED BY <1>1, <1>2

\* What a session knows of quotas are percentages.
KnownQuotas(ctx) == \A p \in Providers \cap DOMAIN ctx : ctx[p].quota \in {NULL} \cup 0 .. 100

LEMMA WalkIsFirst ==
  ASSUME NEW s, KnownQuotas(s.ctx), NEW r, RuleOK(r)
  PROVE  /\ Good(s, r) \in SUBSET (1 .. Len(r.chain))
         /\ \A n \in Good(s, r) : Usable(r.chain[n], r.min, s.ctx) /\ r.chain[n] \in Entries
         /\ Good(s, r) # {} <=> Applies(r, s.project, s.ctx) /\ WalkChain(r, s.ctx) # 0
         /\ Good(s, r) # {} => FirstOf(WalkChain(r, s.ctx), Good(s, r))
<1> DEFINE U == {n \in 1 .. Len(r.chain) : Usable(r.chain[n], r.min, s.ctx)}
           M == {n \in 1 .. Len(r.chain) : r.chain[n].m = NULL}
           stop == SelectInSeq(r.chain, LAMBDA e : e.m = NULL \/ Usable(e, r.min, s.ctx))
           applies == Applies(r, s.project, s.ctx)
<1>1. /\ Len(r.chain) \in Nat /\ DOMAIN r.chain = 1 .. Len(r.chain)
      /\ \A n \in 1 .. Len(r.chain) : r.chain[n] \in Entries
  BY DEF RuleOK
<1>2. FirstOf(stop, M \cup U)
  <2> DEFINE S == {n \in 1 .. Len(r.chain) : r.chain[n].m = NULL \/ Usable(r.chain[n], r.min, s.ctx)}
  <2>1. stop = IF S # {} THEN Min(S) ELSE 0
    BY DEF SelectInSeq
  <2>2. S = M \cup U /\ S \in SUBSET Nat
    BY <1>1
  <2> HIDE DEF S, M, U, stop
  <2> QED BY <2>1, <2>2, LeastOf
<1>3. WalkChain(r, s.ctx) = IF stop # 0 /\ r.chain[stop].m = NULL THEN 0 ELSE stop
  BY DEF WalkChain
<1>5. ASSUME NEW e \in Entries
      PROVE  Usable(e, r.min, s.ctx) <=>
               /\ e.p \in DOMAIN s.ctx /\ s.ctx[e.p].healthy
               /\ s.ctx[e.p].quota \in {NULL} \cup (r.min .. 100)
               /\ e.m \in s.ctx[e.p].models \/ s.ctx[e.p].models = {}
  <2>1. CASE e.p \in DOMAIN s.ctx
    <3>1. PICK q : q = s.ctx[e.p].quota
      OBVIOUS
    <3>2. q \in {NULL} \cup 0 .. 100
      BY <2>1, <3>1 DEF KnownQuotas, Entries
    <3>3. PICK m \in Nat : m = r.min
      BY DEF RuleOK
    <3>4. ((m > 0 /\ q # NULL) => q >= m) <=> q \in {NULL} \cup (m .. 100)
      BY <3>2
    <3> QED BY <2>1, <3>1, <3>3, <3>4 DEF Usable
  <2>2. CASE e.p \notin DOMAIN s.ctx
    BY <2>2 DEF Usable
  <2> QED BY <2>1, <2>2
<1>6. applies <=> r.scope \in {NULL, s.project} /\ \A c \in r.conds : Holds(c, s.project, s.ctx)
  BY DEF Applies
<1>7. ASSUME NEW n PROVE n \in Good(s, r) <=> applies /\ n \in U /\ \A k \in 1 .. n : r.chain[k].m # NULL
  <2> HIDE DEF applies
  <2>1. CASE n \in 1 .. Len(r.chain)
    <3>1. PICK e \in Entries : e = r.chain[n]
      BY <1>1, <2>1
    <3> QED BY <1>1, <1>5, <1>6, <2>1, <3>1 DEF Good
  <2>2. CASE n \notin 1 .. Len(r.chain)
    BY <1>1, <2>2 DEF Good
  <2> QED BY <2>1, <2>2
<1>8. /\ U \in SUBSET (1 .. Len(r.chain))
      /\ \A n \in 1 .. Len(r.chain) : n \in M <=> r.chain[n].m = NULL
      /\ M \in SUBSET (1 .. Len(r.chain))
  OBVIOUS
<1>9. \A n \in U : Usable(r.chain[n], r.min, s.ctx) /\ r.chain[n] \in Entries
  BY <1>1
<1> HIDE DEF U, M, stop, applies
\* The entries that can be used, up to the first malformed one.
<1> DEFINE G == {n \in U : \A k \in 1 .. n : r.chain[k].m # NULL}
<1>10. PICK w : w = WalkChain(r, s.ctx)
  OBVIOUS
<1>11. /\ G # {} <=> w # 0
       /\ G # {} => FirstOf(w, G)
  <2>1. CASE M \cup U = {}
    BY <1>2, <1>3, <1>10, <2>1 DEF FirstOf
  <2>2. CASE M \cup U # {} /\ stop \in M
    <3>1. w = 0
      BY <1>1, <1>3, <1>8, <1>10, <2>2
    <3>2. ASSUME NEW n \in G PROVE FALSE
      <4>1. n \in U /\ stop <= n /\ stop \in 1 .. n
        BY <1>1, <1>2, <1>8, <2>2, <3>2 DEF FirstOf
      <4> QED BY <1>8, <2>2, <3>2, <4>1
    <3> QED BY <3>1, <3>2
  <2>3. CASE M \cup U # {} /\ stop \notin M
    <3>1. stop \in U /\ (\A k \in M \cup U : stop <= k) /\ stop \in 1 .. Len(r.chain)
      BY <1>2, <1>8, <2>3 DEF FirstOf
    <3>2. \A k \in 1 .. stop : r.chain[k].m # NULL
      <4>1. ASSUME NEW k \in 1 .. stop, r.chain[k].m = NULL PROVE FALSE
        <5>1. k \in 1 .. Len(r.chain) /\ k \in M
          BY <1>1, <1>8, <3>1, <4>1
        <5>2. k = stop
          BY <1>1, <3>1, <5>1
        <5> QED BY <2>3, <5>1, <5>2
      <4> QED BY <4>1
    <3>3. stop \in G /\ w = stop /\ w # 0
      BY <1>1, <1>3, <1>8, <1>10, <3>1, <3>2
    <3> QED BY <3>1, <3>3 DEF FirstOf
  <2> QED BY <2>1, <2>2, <2>3
<1>12. Good(s, r) = IF applies THEN G ELSE {}
  BY <1>7
<1> HIDE DEF G
<1>13. /\ Good(s, r) # {} <=> applies /\ w # 0
       /\ Good(s, r) # {} => FirstOf(w, Good(s, r))
  BY <1>11, <1>12
<1>14. /\ Good(s, r) \in SUBSET (1 .. Len(r.chain))
       /\ \A n \in Good(s, r) : Usable(r.chain[n], r.min, s.ctx) /\ r.chain[n] \in Entries
  BY <1>8, <1>9, <1>12 DEF G
<1> QED BY <1>10, <1>13, <1>14 DEF applies

\* The rules for a role, one after the other: their places in the file.
InRole(rs, role) == {i \in DOMAIN rs : rs[i].role = role}
Ranked(rs, role) == InOrder(InRole(rs, role), LAMBDA i, j : Ahead(rs, i, j))

LEMMA ByPriority ==
  ASSUME NEW rs, RuleList(rs), NEW role, NEW order, order = Ranked(rs, role)
  PROVE  LET I == InRole(rs, role)
         IN /\ Cardinality(I) \in Nat
            /\ order \in [1 .. Cardinality(I) -> I]
            /\ \A x \in I : \E k \in 1 .. Cardinality(I) : order[k] = x
            /\ \A i, j \in 1 .. Cardinality(I) : i < j => Ahead(rs, order[i], order[j])
<1> DEFINE I == InRole(rs, role)
           D == [x \in I |-> {y \in I : Ahead(rs, y, x)}]
           Nth(k) == CHOOSE x \in I : Cardinality({y \in I : Ahead(rs, y, x)}) = k - 1
<1>1. PICK n \in Nat : DOMAIN rs = 1 .. n /\ \A i \in 1 .. n : RuleOK(rs[i])
  BY ListOfRules
<1>2. order = [k \in 1 .. Cardinality(I) |-> Nth(k)]
  BY DEF Ranked, InOrder
<1>3. IsFiniteSet(I)
  <2>1. IsFiniteSet(1 .. n)
    BY CountUpTo
  <2>2. I \in SUBSET (1 .. n)
    BY <1>1 DEF InRole
  <2> QED BY <2>1, <2>2, FS_Subset
<1>4. Cardinality(I) \in Nat
  BY <1>3, FS_CardinalityType
<1>5. \A x \in I : x \in Nat /\ rs[x].prio \in Int
  BY <1>1 DEF RuleOK, InRole
<1> HIDE DEF I
<1>6. \A x, y \in I : /\ ~Ahead(rs, x, x)
                      /\ x # y => Ahead(rs, x, y) \/ Ahead(rs, y, x)
  BY <1>5 DEF Ahead
<1>7. \A x, y, z \in I : Ahead(rs, x, y) /\ Ahead(rs, z, x) => Ahead(rs, z, y)
  BY <1>5 DEF Ahead
<1>8. /\ D \in [I -> SUBSET I]
      /\ \A x, y \in I : x \in D[y] <=> Ahead(rs, x, y)
  OBVIOUS
<1>9. ASSUME NEW k \in 1 .. Cardinality(I), NEW z \in I, Cardinality(D[z]) = k - 1
      PROVE  order[k] \in I /\ Cardinality(D[order[k]]) = k - 1
  <2>1. Cardinality({y \in I : Ahead(rs, y, z)}) = k - 1
    BY <1>9
  <2>2. order[k] = CHOOSE x \in I : Cardinality({y \in I : Ahead(rs, y, x)}) = k - 1
    <3> HIDE DEF Nth
    <3>1. order[k] = Nth(k)
      BY <1>2
    <3> QED BY <3>1 DEF Nth
  <2>3. order[k] \in I /\ Cardinality({y \in I : Ahead(rs, y, order[k])}) = k - 1
    BY <2>1, <2>2
  <2> QED BY <2>3
<1> HIDE DEF D, Nth
<1>10. order = [k \in 1 .. Cardinality(I) |-> order[k]]
  BY <1>2
<1>11. /\ \A x \in I : x \notin D[x]
       /\ \A x, y \in I : x \in D[y] => D[x] \subseteq D[y]
       /\ \A x, y \in I : x # y => x \in D[y] \/ y \in D[x]
  <2>1. \A x \in I : x \notin D[x]
    BY <1>6, <1>8
  <2>2. \A x, y \in I : x \in D[y] => D[x] \subseteq D[y]
    BY <1>7, <1>8
  <2>3. \A x, y \in I : x # y => x \in D[y] \/ y \in D[x]
    BY <1>6, <1>8
  <2> QED BY <2>1, <2>2, <2>3
<1>12. \A k \in 1 .. Cardinality(I) :
         (\E x \in I : Cardinality(D[x]) = k - 1) => order[k] \in I /\ Cardinality(D[order[k]]) = k - 1
  BY <1>9
<1>13. D \in [I -> SUBSET I]
  BY <1>8
<1>14. /\ order \in [1 .. Cardinality(I) -> I]
       /\ \A x \in I : \E k \in 1 .. Cardinality(I) : order[k] = x
       /\ \A i, j \in 1 .. Cardinality(I) : i < j => order[i] \in D[order[j]]
  <2>1. Linear(D, I) /\ Picks(order, D, I)
    BY <1>10, <1>11, <1>12, <1>13 DEF Linear, Picks
  <2>2. Sorted(order, D, I)
    BY <1>3, <2>1, Ordering
  <2> QED BY <2>2 DEF Sorted
<1>15. \A i, j \in 1 .. Cardinality(I) : i < j => Ahead(rs, order[i], order[j])
  <2>1. \A i \in 1 .. Cardinality(I) : order[i] \in I
    BY <1>14
  <2> QED BY <1>8, <1>14, <2>1
<1> QED BY <1>4, <1>14, <1>15 DEF I

\* What RouteIsBest says of a session that has a route.
IsBest(s, route) ==
  \E i \in Leading(s) :
     /\ route.rule = s.rules[i]
     /\ \A j \in Leading(s) \ {i} : s.rules[j].prio < s.rules[i].prio
                                   \/ (s.rules[j].prio = s.rules[i].prio /\ i < j)
     /\ \E n \in Good(s, s.rules[i]) :
           /\ route.entry = s.rules[i].chain[n]
           /\ \A k \in Good(s, s.rules[i]) : n <= k

LEMMA DecideIsBest ==
  ASSUME NEW s, RuleList(s.rules), KnownQuotas(s.ctx), s.role \notin paused,
         NEW d, d = Decide(s.rules, s.role, s.project, s.ctx)
  PROVE  \/ d = NoRoute /\ Leading(s) = {}
         \/ /\ IsBest(s, d) /\ d.entry \in Entries
            /\ \E min : Usable(d.entry, min, s.ctx)
<1> DEFINE rs == s.rules
           I == InRole(rs, s.role)
           order == Ranked(rs, s.role)
           c == ForRole(rs, s.role)
           leads(r) == Applies(r, s.project, s.ctx) /\ WalkChain(r, s.ctx) # 0
           N == {k \in 1 .. Len(c) : leads(c[k])}
           first == IF N # {} THEN Min(N) ELSE 0
<1>1. /\ DOMAIN rs = 1 .. Len(rs) /\ Len(rs) \in Nat
      /\ \A i \in 1 .. Len(rs) : RuleOK(rs[i])
  BY ListOfRules
<1>2. PICK m \in Nat : m = Cardinality(I)
  BY ByPriority
<1>3. c = [n \in DOMAIN order |-> rs[order[n]]]
  BY DEF ForRole, Ranked, InRole
<1> HIDE DEF order
<1>4. /\ order \in [1 .. m -> I]
      /\ \A x \in I : \E k \in 1 .. m : order[k] = x
      /\ \A i, j \in 1 .. m : i < j => Ahead(rs, order[i], order[j])
  BY <1>2, ByPriority DEF order
<1>5. d = IF first = 0 THEN NoRoute
          ELSE [rule |-> c[first], entry |-> c[first].chain[WalkChain(c[first], s.ctx)]]
  BY DEF Decide, SelectInSeq
<1> HIDE DEF c
<1>6. c = [n \in 1 .. m |-> rs[order[n]]] /\ Len(c) = m
  BY <1>4, <1>3
<1>7. FirstOf(first, N)
  <2>1. N \in SUBSET Nat
    BY <1>6
  <2> HIDE DEF N
  <2> QED BY <2>1, LeastOf
<1>8. \A i \in I : Good(s, rs[i]) # {} <=> leads(rs[i])
  <2>1. \A i \in I : RuleOK(rs[i])
    BY <1>1 DEF InRole
  <2> HIDE DEF I
  <2> QED BY <2>1, WalkIsFirst
<1>9. \A i : i \in Leading(s) <=> i \in I /\ leads(rs[i])
  <2>1. \A i : i \in Leading(s) <=> i \in I /\ Good(s, rs[i]) # {}
    BY DEF Leading, InRole
  <2> HIDE DEF I, leads
  <2> QED BY <1>8, <2>1
<1>10. \A k \in 1 .. m : k \in N <=> order[k] \in Leading(s)
  <2>1. \A k \in 1 .. m : order[k] \in I /\ c[k] = rs[order[k]]
    BY <1>4, <1>6
  <2>2. \A k \in 1 .. m : k \in N <=> leads(c[k])
    BY <1>6
  <2> HIDE DEF N, I, leads
  <2> QED BY <1>9, <2>1, <2>2
<1>11. N \in SUBSET (1 .. m)
  BY <1>6
<1>12. Leading(s) \in SUBSET I
  BY <1>9
<1>13. \A i \in I : i \in DOMAIN rs
  BY DEF InRole
<1> HIDE DEF N, I, leads, first
<1>14. CASE N = {}
  <2>1. first = 0
    BY <1>7, <1>14 DEF FirstOf
  <2>2. Leading(s) = {}
    BY <1>4, <1>10, <1>12, <1>14
  <2> QED BY <1>5, <2>1, <2>2
<1>15. CASE N # {}
  <2>1. first \in 1 .. m /\ first \in N /\ \A k \in N : first <= k
    BY <1>7, <1>11, <1>15 DEF FirstOf
  <2>2. PICK i : i = order[first]
    OBVIOUS
  <2>3. i \in Leading(s) /\ c[first] = rs[i]
    BY <1>6, <1>10, <2>1, <2>2
  <2>4. ASSUME NEW j \in Leading(s) \ {i}
        PROVE  rs[j].prio < rs[i].prio \/ (rs[j].prio = rs[i].prio /\ i < j)
    <3>1. PICK k \in 1 .. m : order[k] = j
      BY <1>4, <1>12
    <3>2. first < k
      BY <1>10, <2>1, <2>2, <3>1
    <3>3. Ahead(rs, i, j)
      BY <1>4, <2>1, <2>2, <3>1, <3>2
    <3>4. rs[j].prio \in Int /\ rs[i].prio \in Int
      BY <1>1, <1>12, <1>13, <2>3 DEF RuleOK
    <3> QED BY <3>3, <3>4 DEF Ahead
  <2>5. PICK r : r = rs[i] /\ RuleOK(r)
    BY <1>1, <1>12, <1>13, <2>3
  <2>6. Good(s, r) # {}
    BY <2>3, <2>5 DEF Leading
  <2>7. PICK w : w = WalkChain(r, s.ctx)
    OBVIOUS
  <2>8. /\ w \in Good(s, r) /\ \A k \in Good(s, r) : w <= k
        /\ r.chain[w] \in Entries /\ Usable(r.chain[w], r.min, s.ctx)
    <3>1. FirstOf(w, Good(s, r))
      BY <2>5, <2>6, <2>7, WalkIsFirst
    <3>2. w \in Good(s, r) /\ \A k \in Good(s, r) : w <= k
      BY <2>6, <3>1 DEF FirstOf
    <3> QED BY <2>5, <3>2, WalkIsFirst
  <2>9. d.rule = r /\ d.entry = r.chain[w]
    <3>1. first # 0
      BY <2>1
    <3> QED BY <1>5, <2>3, <2>5, <2>7, <3>1
  <2>10. IsBest(s, d)
    BY <2>3, <2>4, <2>5, <2>8, <2>9 DEF IsBest
  <2> QED BY <2>8, <2>9, <2>10
<1> QED BY <1>14, <1>15

-----------------------------------------------------------------------------
(* The invariant.                                                           *)

Budgets == /\ spent \in [Providers -> Nat] /\ DOMAIN subs = Providers
           /\ \A p \in Providers : subs[p] = NULL \/ Budgeted(subs[p], spent[p])

Bound(route, ctx) == /\ route.entry \in Entries
                     /\ route.entry.p \in DOMAIN ctx /\ ctx[route.entry.p].healthy
Unrouted(s) == s.blocked \/ Leading(s) = {} \/ (s.failed # NULL /\ s.known # Providers)

\* A session that asks or has decided: healthy is who was not suspended as it
\* began, nor has failed it.
Asks(s) ==
  /\ DOMAIN s = {"pc", "role", "project", "failed", "known", "rules", "reg", "todo", "ctx",
                 "route", "blocked"}
  /\ s.role \in Roles
  /\ s.pc \in {"probe", "decided"} =>
       /\ RuleList(s.rules) /\ KnownQuotas(s.ctx)
       /\ \A p \in Providers \cap DOMAIN s.ctx :
            s.ctx[p].healthy => ~s.reg[p].susp /\ p # s.failed
  /\ s.pc = "decided" =>
       IF s.route.entry = NULL THEN Unrouted(s) ELSE IsBest(s, s.route) /\ Bound(s.route, s.ctx)

\* What it knows of what is out of rotation.
Avoids(s, out) ==
  /\ s.pc \in {"probe", "decided"} => \A p \in out \cap Providers : s.reg[p].susp
  /\ s.pc = "decided" /\ s.route.entry # NULL => s.role \notin out

SessionsOK == DOMAIN proc = Agents /\ \A a \in Agents : proc[a] = NULL \/ Asks(proc[a])
Rotation == /\ DOMAIN off = Agents
            /\ \A a \in Agents : /\ off[a] \cap Roles \subseteq paused
                                 /\ proc[a] = NULL \/ Avoids(proc[a], off[a])

Routed == Budgets /\ RuleList(rules) /\ paused \subseteq Roles /\ SessionsOK /\ Rotation

LEMMA RoutedInit == Init => Routed
<1> SUFFICES ASSUME Init PROVE Routed
  OBVIOUS
<1>1. RuleList(rules)
  <2>1. RuleList(FirstRules)
    BY RulesOK, FileIsList
  <2> QED BY <2>1 DEF Init
<1>2. Budgets
  BY DEF Init, Budgets
<1>3. SessionsOK /\ Rotation
  BY DEF Init, SessionsOK, Rotation
<1>4. paused \subseteq Roles
  BY DEF Init
<1> QED BY <1>1, <1>2, <1>3, <1>4 DEF Routed

LEMMA RoutedSays == Routed => RouteIsBest /\ OutOfRotation
<1> SUFFICES ASSUME Routed PROVE RouteIsBest /\ OutOfRotation
  OBVIOUS
<1>1. ASSUME NEW a \in Decided
      PROVE  LET s == proc[a] IN
             /\ IF s.route.entry = NULL THEN Unrouted(s) ELSE IsBest(s, s.route)
             /\ s.route.entry # NULL => /\ s.route.entry.p \notin off[a] \cup {s.failed}
                                        /\ s.role \notin off[a]
  <2>1. PICK s : s = proc[a]
    OBVIOUS
  <2>2. a \in Agents /\ s # NULL /\ s.pc = "decided"
    BY <2>1 DEF Decided
  <2>3. Asks(s) /\ Avoids(s, off[a])
    BY <2>1, <2>2 DEF Routed, SessionsOK, Rotation
  <2>4. IF s.route.entry = NULL THEN Unrouted(s) ELSE IsBest(s, s.route) /\ Bound(s.route, s.ctx)
    BY <2>2, <2>3 DEF Asks
  <2>5. ASSUME s.route.entry # NULL
        PROVE  s.route.entry.p \notin off[a] \cup {s.failed} /\ s.role \notin off[a]
    <3>1. PICK p : p = s.route.entry.p
      OBVIOUS
    <3>2. p \in Providers \cap DOMAIN s.ctx /\ s.ctx[p].healthy
      BY <2>4, <2>5, <3>1 DEF Bound, Entries
    <3>3. ~s.reg[p].susp /\ p # s.failed
      BY <2>2, <2>3, <3>2 DEF Asks
    <3>4. p \notin off[a] /\ s.role \notin off[a]
      BY <2>2, <2>3, <2>5, <3>2, <3>3 DEF Avoids
    <3> QED BY <3>1, <3>3, <3>4
  <2> QED BY <2>1, <2>4, <2>5
<1>2. RouteIsBest
  BY <1>1 DEF RouteIsBest, Unrouted, IsBest
<1>3. OutOfRotation
  BY <1>1 DEF OutOfRotation
<1> QED BY <1>2, <1>3

-----------------------------------------------------------------------------
(* What users and alerts change.                                            *)

\* What is out of rotation only shrinks.
LEMMA StillAvoids ==
  ASSUME SessionsOK, Rotation, UNCHANGED proc, StillOff
  PROVE  SessionsOK' /\ Rotation'
<1> DEFINE X == {p \in Providers : registry'[p] # NULL /\ registry'[p].susp}
<1>1. X \subseteq Providers
  OBVIOUS
<1>2. off' = [a \in Agents |-> off[a] \cap (X \cup paused')]
  BY DEF StillOff
<1> HIDE DEF X
<1>3. ASSUME NEW a \in Agents
      PROVE  off'[a] \cap Roles \subseteq paused' /\ off'[a] \subseteq off[a]
  BY <1>1, <1>2, RulesOK
<1>4. ASSUME NEW s, NEW out, Avoids(s, out), NEW less, less \subseteq out PROVE Avoids(s, less)
  BY <1>4 DEF Avoids
<1>5. Rotation'
  BY <1>2, <1>3, <1>4 DEF Rotation
<1> QED BY <1>5 DEF SessionsOK

LEMMA NothingOfThem ==
  ASSUME SessionsOK, Rotation, UNCHANGED <<proc, off>>, paused \subseteq paused'
  PROVE  SessionsOK' /\ Rotation'
BY DEF SessionsOK, Rotation

LEMMA BudgetsKept ==
  ASSUME Budgets, UNCHANGED spent, BudgetOp
  PROVE  Budgets'
<1>1. PICK p \in Providers :
          \/ \E n \in Limits : SetManualBudget(p, n)
          \/ ClearBudget(p)
          \/ SetCycle(p)
          \/ \E n \in Limits \cup {NULL} : RecordSynced(p, MaxSpent, n)
  BY DEF BudgetOp
<1>2. PICK t : t = SubOf(p)
  OBVIOUS
<1>3. spent[p] \in Nat
  BY DEF Budgets
<1>4. Budgeted(t, spent[p])
  <2>1. Budgeted(NoSub, spent[p])
    BY <1>3 DEF NoSub, Budgeted
  <2>2. subs[p] = NULL \/ Budgeted(subs[p], spent[p])
    BY DEF Budgets
  <2> QED BY <1>2, <2>1, <2>2 DEF SubOf
<1>5. \E u : subs' = [subs EXCEPT ![p] = u] /\ (u = NULL \/ Budgeted(u, spent[p]))
  <2>1. ASSUME NEW n \in Limits, SetManualBudget(p, n)
        PROVE  \E u : subs' = [subs EXCEPT ![p] = u] /\ Budgeted(u, spent[p])
    <3>1. PICK u : u = [t EXCEPT !.limit = n, !.source = "manual"]
      OBVIOUS
    <3>2. subs' = [subs EXCEPT ![p] = u]
      BY <1>2, <2>1, <3>1 DEF SetManualBudget
    <3>3. Budgeted(u, spent[p])
      BY <1>4, <3>1, RoutingOK DEF Budgeted
    <3> QED BY <3>2, <3>3
  <2>2. ASSUME SetCycle(p)
        PROVE  \E u : subs' = [subs EXCEPT ![p] = u] /\ Budgeted(u, spent[p])
    <3>1. PICK u : u = [t EXCEPT !.since = spent[p]]
      OBVIOUS
    <3>2. subs' = [subs EXCEPT ![p] = u]
      BY <1>2, <2>2, <3>1 DEF SetCycle
    <3>3. Budgeted(u, spent[p])
      BY <1>3, <1>4, <3>1 DEF Budgeted
    <3> QED BY <3>2, <3>3
  <2>3. ASSUME NEW n \in Limits \cup {NULL}, RecordSynced(p, MaxSpent, n)
        PROVE  \E u : subs' = [subs EXCEPT ![p] = u] /\ Budgeted(u, spent[p])
    <3>1. PICK l : l = IF n = NULL THEN t.limit ELSE n
      OBVIOUS
    <3>2. l \in Nat \cup {NULL}
      BY <1>4, <3>1, RoutingOK DEF Budgeted
    <3>3. PICK u : u = [t EXCEPT !.used = MaxSpent, !.limit = l, !.source = "synced"]
      OBVIOUS
    <3>4. subs' = [subs EXCEPT ![p] = u]
      BY <1>2, <2>3, <3>1, <3>3 DEF RecordSynced
    <3>5. Budgeted(u, spent[p])
      BY <1>4, <3>2, <3>3, RoutingOK DEF Budgeted
    <3> QED BY <3>4, <3>5
  <2>4. CASE ClearBudget(p)
    BY <2>4 DEF ClearBudget
  <2> QED BY <1>1, <2>1, <2>2, <2>3, <2>4
<1>6. PICK u : subs' = [subs EXCEPT ![p] = u] /\ (u = NULL \/ Budgeted(u, spent[p]))
  BY <1>5
<1>7. \A x \in Providers : subs'[x] = NULL \/ Budgeted(subs'[x], spent[x])
  BY <1>6 DEF Budgets
<1> QED BY <1>6, <1>7 DEF Budgets

LEMMA RulesKept ==
  ASSUME RuleList(rules), RuleOp
  PROVE  RuleList(rules')
<1>1. ASSUME NEW r \in RulePool, AddRule(r) \/ EditRule(r) PROVE RuleList(rules')
  <2>1. RuleOK(r)
    BY RulesOK
  <2>2. \/ rules' = Append(rules, r)
        \/ \E i : rules' = [rules EXCEPT ![i] = r]
    <3>1. CASE AddRule(r)
      BY <3>1 DEF AddRule
    <3>2. CASE EditRule(r) /\ r.id \notin Ids(rules)
      BY <3>2 DEF EditRule
    <3>3. CASE EditRule(r) /\ r.id \in Ids(rules)
      <4> DEFINE i == CHOOSE j \in DOMAIN rules :
                        rules[j].id = r.id /\ \A k \in 1 .. (j - 1) : rules[k].id # r.id
      <4>1. rules' = [rules EXCEPT ![i] = r]
        BY <3>3 DEF EditRule
      <4> HIDE DEF i
      <4> QED BY <4>1
    <3> QED BY <1>1, <3>1, <3>2, <3>3
  <2>3. /\ RuleList(Append(rules, r))
        /\ \A i : RuleList([rules EXCEPT ![i] = r])
    BY <2>1, OneRuleMore
  <2> QED BY <2>2, <2>3
<1>2. ASSUME NEW id \in Ids(rules), DeleteRule(id) PROVE RuleList(rules')
  <2>1. PICK I : I = {i \in DOMAIN rules : rules[i].id # id}
    OBVIOUS
  <2>2. rules' = Kept(rules, I) /\ I \in SUBSET DOMAIN rules
    BY <1>2, <2>1 DEF DeleteRule
  <2> QED BY <2>2, KeptRules
<1>3. CASE SeedRules
  BY <1>3, SeedsAreRules
<1> QED BY <1>1, <1>2, <1>3 DEF RuleOp

-----------------------------------------------------------------------------
(* One session's step.                                                      *)

\* One session becomes t, that has to avoid out.
OneStep(a, t, out) ==
  /\ proc' = [proc EXCEPT ![a] = t] /\ UNCHANGED paused
  /\ \A b \in Agents : off'[b] = IF b = a THEN out ELSE off[b]
  /\ DOMAIN off' = DOMAIN off

LEMMA OneSession ==
  ASSUME SessionsOK, Rotation, NEW a \in Agents, NEW t, NEW out, OneStep(a, t, out),
         t = NULL \/ (Asks(t) /\ Avoids(t, out)), out \cap Roles \subseteq paused
  PROVE  SessionsOK' /\ Rotation'
<1>1. /\ DOMAIN proc' = Agents
      /\ \A b \in Agents : proc'[b] = IF b = a THEN t ELSE proc[b]
  BY DEF OneStep, SessionsOK
<1>2. \A b \in Agents : proc'[b] = NULL \/ Asks(proc'[b])
  BY <1>1 DEF SessionsOK
<1>3. SessionsOK'
  BY <1>1, <1>2 DEF SessionsOK
<1>4. /\ DOMAIN off' = Agents /\ paused' = paused
      /\ \A b \in Agents : off'[b] = IF b = a THEN out ELSE off[b]
  BY DEF OneStep, Rotation
<1>5. \A b \in Agents : /\ off'[b] \cap Roles \subseteq paused
                        /\ proc'[b] = NULL \/ Avoids(proc'[b], off'[b])
  BY <1>1, <1>4 DEF Rotation
<1>6. Rotation'
  BY <1>4, <1>5 DEF Rotation
<1> QED BY <1>3, <1>6

\* A session that begins to ask.
LEMMA AskingStarts ==
  ASSUME RuleList(rules), paused \subseteq Roles, NEW role \in Roles, NEW project, NEW known, NEW failed,
         NEW t, t = Asking(role, project, known, failed)
  PROVE  Asks(t) /\ Avoids(t, OffNow) /\ OffNow \cap Roles \subseteq paused
<1>1. PICK overrides : overrides = IF project = NULL THEN <<>> ELSE Overrides
  OBVIOUS
<1>2. RuleList(MergedWith(rules, overrides))
  BY <1>1, MergedAreRules
<1>3. /\ DOMAIN t = {"pc", "role", "project", "failed", "known", "rules", "reg", "todo", "ctx",
                     "route", "blocked"}
      /\ t.pc = "probe" /\ t.role = role /\ t.reg = registry /\ t.ctx = <<>>
      /\ t.rules = MergedWith(rules, overrides)
  BY <1>1 DEF Asking
<1>4. DOMAIN t.ctx = {}
  BY <1>3
<1>5. Asks(t)
  BY <1>2, <1>3, <1>4 DEF Asks, KnownQuotas
<1>6. \A p \in OffNow : p \in paused \/ (p \in Providers /\ registry[p].susp)
  BY DEF OffNow
<1>7. OffNow \cap Roles \subseteq paused
  BY <1>6, RulesOK
<1>8. \A p \in OffNow \cap Providers : registry[p].susp
  BY <1>6, RulesOK
<1>9. Avoids(t, OffNow)
  BY <1>3, <1>8 DEF Avoids
<1> QED BY <1>5, <1>7, <1>9

LEMMA AskKeeps ==
  ASSUME Routed, NEW a \in Agents, Ask(a)
  PROVE  SessionsOK' /\ Rotation'
<1>1. PICK project : proc' = [proc EXCEPT ![a] = Asking(RoleOf[a], project, Registered(registry), NULL)]
  BY DEF Ask
<1>2. PICK t : t = Asking(RoleOf[a], project, Registered(registry), NULL)
  OBVIOUS
<1>3. RoleOf[a] \in Roles
  BY RulesOK
<1>4. Asks(t) /\ Avoids(t, OffNow) /\ OffNow \cap Roles \subseteq paused
  BY <1>2, <1>3, AskingStarts DEF Routed
<1>5. OneStep(a, t, OffNow)
  BY <1>1, <1>2 DEF OneStep, Ask, config, Routed, Rotation
<1> QED BY <1>4, <1>5, OneSession DEF Routed

LEMMA RerouteKeeps ==
  ASSUME Routed, NEW a \in Agents, Migrate(a)
  PROVE  SessionsOK' /\ Rotation'
<1>1. PICK s : s = proc[a] /\ s # NULL /\ Asks(s)
  BY DEF Migrate, Routed, SessionsOK
<1>2. PICK t : t = Asking(s.role, s.project, s.known, s.route.entry.p)
  OBVIOUS
<1>3. proc' = [proc EXCEPT ![a] = t]
  BY <1>1, <1>2 DEF Migrate
<1>4. s.role \in Roles
  BY <1>1 DEF Asks
<1>5. Asks(t) /\ Avoids(t, OffNow) /\ OffNow \cap Roles \subseteq paused
  BY <1>2, <1>4, AskingStarts DEF Routed
<1>6. OneStep(a, t, OffNow)
  BY <1>3 DEF OneStep, Migrate, config, Routed, Rotation
<1> QED BY <1>5, <1>6, OneSession DEF Routed

LEMMA ProbeKeeps ==
  ASSUME Routed, NEW a \in Agents, ProbeOne(a)
  PROVE  SessionsOK' /\ Rotation'
<1>1. PICK s : s = proc[a] /\ s # NULL /\ Asks(s) /\ Avoids(s, off[a]) /\ s.pc = "probe"
  BY DEF ProbeOne, Routed, SessionsOK, Rotation
<1>2. PICK p : p = Head(s.todo)
  OBVIOUS
<1>3. PICK answer : answer = [healthy |-> Probed(s.reg, p) /\ p # s.failed,
                              quota |-> Remaining(subs[p], p), cost |-> spent[p],
                              models |-> s.reg[p].models]
  OBVIOUS
<1>4. PICK ctx : ctx = [x \in DOMAIN s.ctx \cup {p} |-> IF x = p THEN answer ELSE s.ctx[x]]
  OBVIOUS
<1>5. PICK t : t = [s EXCEPT !.todo = Tail(@), !.ctx = ctx]
  OBVIOUS
<1>6. proc' = [proc EXCEPT ![a] = t]
  BY <1>1, <1>2, <1>3, <1>4, <1>5 DEF ProbeOne, Routed, SessionsOK
<1>7. /\ DOMAIN t = DOMAIN s /\ t.ctx = ctx
      /\ t.pc = "probe" /\ t.role = s.role /\ t.rules = s.rules /\ t.reg = s.reg
      /\ t.failed = s.failed
  BY <1>1, <1>5 DEF Asks
<1>8. p \in Providers => answer.quota \in {NULL} \cup 0 .. 100
  BY <1>3, QuotaIsPercent DEF Routed, Budgets
<1>9. answer.healthy => ~s.reg[p].susp /\ p # s.failed
  BY <1>3 DEF Probed
<1>10. DOMAIN ctx = DOMAIN s.ctx \cup {p}
       /\ \A x \in DOMAIN ctx : ctx[x] = IF x = p THEN answer ELSE s.ctx[x]
  BY <1>4
<1>11. KnownQuotas(ctx)
  <2>1. KnownQuotas(s.ctx)
    BY <1>1 DEF Asks
  <2> QED BY <1>8, <1>10, <2>1 DEF KnownQuotas
<1>12. \A x \in Providers \cap DOMAIN ctx : ctx[x].healthy => ~s.reg[x].susp /\ x # s.failed
  <2>1. \A x \in Providers \cap DOMAIN s.ctx :
          s.ctx[x].healthy => ~s.reg[x].susp /\ x # s.failed
    BY <1>1 DEF Asks
  <2> QED BY <1>9, <1>10, <2>1
<1>13. Asks(t)
  BY <1>1, <1>7, <1>11, <1>12 DEF Asks
<1>14. Avoids(t, off[a])
  BY <1>1, <1>7 DEF Avoids
<1>15. OneStep(a, t, off[a])
  BY <1>6 DEF OneStep, ProbeOne, config
<1>16. off[a] \cap Roles \subseteq paused
  BY DEF Routed, Rotation
<1> QED BY <1>13, <1>14, <1>15, <1>16, OneSession DEF Routed

LEMMA DecideKeeps ==
  ASSUME Routed, NEW a \in Agents, DecideRoute(a)
  PROVE  SessionsOK' /\ Rotation'
<1>1. PICK s : s = proc[a] /\ s # NULL /\ Asks(s) /\ Avoids(s, off[a]) /\ s.pc = "probe"
  BY DEF DecideRoute, Routed, SessionsOK, Rotation
<1>2. PICK d : d = Decide(s.rules, s.role, s.project, s.ctx)
  OBVIOUS
<1>3. PICK route : route = IF d.entry # NULL /\ s.failed # NULL /\ d.entry.p \notin s.known
                           THEN NoRoute ELSE d
  OBVIOUS
<1>4. PICK t : t = [s EXCEPT !.pc = "decided", !.blocked = s.role \in paused, !.route = route]
  OBVIOUS
<1>5. proc' = [proc EXCEPT ![a] = t]
  BY <1>1, <1>2, <1>3, <1>4 DEF DecideRoute, Routed, SessionsOK
<1>6. /\ DOMAIN t = DOMAIN s /\ t.ctx = s.ctx /\ t.pc = "decided" /\ t.role = s.role
      /\ t.rules = s.rules /\ t.reg = s.reg /\ t.failed = s.failed /\ t.project = s.project
      /\ t.known = s.known /\ t.route = route /\ (t.blocked <=> s.role \in paused)
  BY <1>1, <1>4 DEF Asks
<1>7. /\ RuleList(s.rules) /\ KnownQuotas(s.ctx)
      /\ \A p \in Providers \cap DOMAIN s.ctx : s.ctx[p].healthy => ~s.reg[p].susp /\ p # s.failed
  BY <1>1 DEF Asks
<1>8. \A r : Good(t, r) = Good(s, r)
  BY <1>6 DEF Good
<1>9. Leading(t) = Leading(s)
  BY <1>6, <1>8 DEF Leading
<1>10. IsBest(s, d) => IsBest(t, d)
  BY <1>6, <1>8, <1>9 DEF IsBest
<1>11. NoRoute.entry = NULL
  BY DEF NoRoute
<1>12. ASSUME s.role \in paused PROVE route.entry = NULL /\ Unrouted(t)
  <2>1. d = NoRoute
    BY <1>2, <1>12 DEF Decide
  <2> QED BY <1>3, <1>6, <1>11, <1>12, <2>1 DEF Unrouted
<1>13. ASSUME s.role \notin paused
       PROVE  IF route.entry = NULL THEN Unrouted(t) ELSE IsBest(t, route) /\ Bound(route, t.ctx)
  <2>1. \/ d = NoRoute /\ Leading(s) = {}
        \/ /\ IsBest(s, d) /\ d.entry \in Entries
           /\ \E min : Usable(d.entry, min, s.ctx)
    BY <1>2, <1>7, <1>13, DecideIsBest
  <2>2. CASE d = NoRoute /\ Leading(s) = {}
    BY <1>3, <1>9, <1>11, <2>2 DEF Unrouted
  <2>3. CASE IsBest(s, d) /\ d.entry \in Entries /\ \E min : Usable(d.entry, min, s.ctx)
    <3>1. Bound(d, s.ctx)
      BY <2>3 DEF Bound, Usable
    <3>2. CASE route = d
      BY <1>6, <1>10, <2>3, <3>1, <3>2, RulesOK
    <3>3. CASE s.failed # NULL /\ d.entry.p \notin s.known
      <4>1. d.entry.p \in Providers
        BY <2>3 DEF Entries
      <4>2. Unrouted(t)
        BY <1>6, <3>3, <4>1 DEF Unrouted
      <4>3. route.entry = NULL
        BY <1>3, <1>11, <2>3, <3>3, RulesOK
      <4> QED BY <4>2, <4>3
    <3> QED BY <1>3, <3>2, <3>3
  <2> QED BY <2>1, <2>2, <2>3
<1>14. IF route.entry = NULL THEN Unrouted(t) ELSE IsBest(t, route) /\ Bound(route, t.ctx)
  BY <1>12, <1>13
<1>15. Asks(t)
  BY <1>1, <1>6, <1>7, <1>14 DEF Asks
<1>16. off[a] \cap Roles \subseteq paused /\ s.role \in Roles
  BY <1>1 DEF Routed, Rotation, Asks
<1>17. Avoids(t, off[a])
  BY <1>1, <1>6, <1>12, <1>16 DEF Avoids
<1>18. OneStep(a, t, off[a])
  BY <1>5 DEF OneStep, DecideRoute, config
<1> QED BY <1>15, <1>16, <1>17, <1>18, OneSession DEF Routed

LEMMA SpendKeeps ==
  ASSUME Routed, NEW a \in Agents, Spend(a)
  PROVE  SessionsOK' /\ Rotation' /\ Budgets'
<1>1. PICK s : s = proc[a] /\ s # NULL /\ Asks(s)
  BY DEF Spend, Routed, SessionsOK
<1>2. PICK t : t = [s EXCEPT !.pc = "runs", !.rules = <<>>, !.reg = NULL, !.ctx = <<>>]
  OBVIOUS
<1>3. proc' = [proc EXCEPT ![a] = t]
  BY <1>1, <1>2 DEF Spend, Routed, SessionsOK
<1>4. DOMAIN t = DOMAIN s /\ t.pc = "runs" /\ t.role = s.role
  BY <1>1, <1>2 DEF Asks
<1>5. Asks(t) /\ Avoids(t, off[a])
  BY <1>1, <1>4 DEF Asks, Avoids
<1>6. OneStep(a, t, off[a])
  BY <1>3 DEF OneStep, Spend, config
<1>7. off[a] \cap Roles \subseteq paused
  BY DEF Routed, Rotation
<1>8. SessionsOK' /\ Rotation'
  BY <1>5, <1>6, <1>7, OneSession DEF Routed
<1>9. PICK p : spent' = [spent EXCEPT ![p] = @ + 1]
  BY DEF Spend
<1>10. spent \in [Providers -> Nat]
  BY DEF Routed, Budgets
<1>11. spent' \in [Providers -> Nat] /\ \A x \in Providers : spent[x] <= spent'[x]
  <2>1. spent' = [x \in Providers |-> spent'[x]]
    BY <1>9, <1>10
  <2>2. ASSUME NEW x \in Providers PROVE spent'[x] \in Nat /\ spent[x] <= spent'[x]
    <3>1. spent'[x] = spent[x] \/ spent'[x] = spent[x] + 1
      BY <1>9, <1>10
    <3>2. spent[x] \in Nat
      BY <1>10
    <3> QED BY <3>1, <3>2
  <2> QED BY <2>1, <2>2
<1>12. subs' = subs
  BY DEF Spend, config
<1>13. ASSUME NEW x \in Providers PROVE subs[x] = NULL \/ Budgeted(subs[x], spent'[x])
  <2>1. subs[x] = NULL \/ Budgeted(subs[x], spent[x])
    BY DEF Routed, Budgets
  <2> QED BY <1>10, <1>11, <2>1 DEF Budgeted
<1>14. Budgets'
  BY <1>11, <1>12, <1>13 DEF Routed, Budgets
<1> QED BY <1>8, <1>14

LEMMA EndKeeps ==
  ASSUME Routed, NEW a \in Agents, End(a)
  PROVE  SessionsOK' /\ Rotation'
<1>1. PICK t, out : t = NULL /\ out = {}
  OBVIOUS
<1>2. OneStep(a, t, out)
  BY <1>1 DEF OneStep, End, config, Routed, Rotation
<1>3. out \cap Roles \subseteq paused
  BY <1>1
<1> QED BY <1>1, <1>2, <1>3, OneSession DEF Routed

LEMMA ActKeeps ==
  ASSUME Routed, NEW p, Act(p) \/ ActFails(p)
  PROVE  UNCHANGED <<rules, subs>> /\ paused \subseteq paused' /\ paused' \subseteq Roles
<1>1. RolesVia(p) \subseteq Roles
  <2>1. DOMAIN rules = 1 .. Len(rules) /\ \A i \in 1 .. Len(rules) : RuleOK(rules[i])
    BY ListOfRules DEF Routed
  <2> QED BY <2>1 DEF RolesVia, RuleOK
<1> QED BY <1>1 DEF Act, ActFails, config, Routed

LEMMA RoutedKept == Routed /\ [Next]_vars => Routed'
<1> SUFFICES ASSUME Routed, [Next]_vars PROVE Routed'
  OBVIOUS
<1> USE DEF config
<1>1. ASSUME User PROVE Routed'
  <2>1. SessionsOK' /\ Rotation'
    BY <1>1, StillAvoids DEF User, Routed
  <2>2. Budgets' /\ RuleList(rules') /\ paused' \subseteq Roles
    <3>1. UNCHANGED spent
      BY <1>1 DEF User
    <3>2. CASE BudgetOp
      BY <3>1, <3>2, BudgetsKept DEF Routed, BudgetOp
    <3>3. CASE RuleOp
      BY <3>1, <3>3, RulesKept DEF Routed, RuleOp, Budgets
    <3>4. CASE RoleOp
      BY <3>1, <3>4 DEF Routed, RoleOp, Budgets
    <3>5. CASE RegistryOp
      BY <3>1, <3>5 DEF Routed, RegistryOp, Budgets
    <3> QED BY <1>1, <3>2, <3>3, <3>4, <3>5 DEF User
  <2> QED BY <2>1, <2>2 DEF Routed
<1>2. ASSUME UNCHANGED <<proc, off, rules, subs, spent>>,
             paused \subseteq paused', paused' \subseteq Roles
      PROVE  Routed'
  <2>1. SessionsOK' /\ Rotation'
    BY <1>2, NothingOfThem DEF Routed
  <2>2. Budgets' /\ RuleList(rules')
    BY <1>2 DEF Routed, Budgets
  <2> QED BY <1>2, <2>1, <2>2 DEF Routed
<1>3. CASE ConfigOp
  BY <1>2, <1>3 DEF ConfigOp, Routed
<1>4. ASSUME NEW first \in Configs, ImportSetup(first) PROVE Routed'
  <2>1. SessionsOK' /\ Rotation'
    BY <1>4, StillAvoids DEF ImportSetup, Routed
  <2>2. RuleList(FirstRules)
    BY RulesOK, FileIsList
  <2>3. Budgets' /\ RuleList(rules') /\ paused' \subseteq Roles
    BY <1>4, <2>2 DEF ImportSetup, Routed, Budgets
  <2> QED BY <2>1, <2>3 DEF Routed
<1>5. ASSUME NEW p \in Providers, Health(p) PROVE Routed'
  BY <1>2, <1>5 DEF Health, Routed
<1>6. CASE Restart
  BY <1>2, <1>6 DEF Restart, Routed
<1>7. ASSUME NEW a \in Agents,
             Ask(a) \/ ProbeOne(a) \/ DecideRoute(a) \/ Spend(a) \/ Migrate(a) \/ End(a)
      PROVE  Routed'
  <2>1. SessionsOK' /\ Rotation'
    BY <1>7, AskKeeps, ProbeKeeps, DecideKeeps, SpendKeeps, RerouteKeeps, EndKeeps
  <2>2. UNCHANGED <<rules, paused>>
    BY <1>7 DEF Ask, ProbeOne, DecideRoute, Spend, Migrate, End
  <2>3. Budgets'
    <3>1. CASE Spend(a)
      BY <3>1, SpendKeeps
    <3>2. CASE ~Spend(a)
      <4>1. UNCHANGED <<subs, spent>>
        BY <1>7, <3>2 DEF Ask, ProbeOne, DecideRoute, Migrate, End
      <4> QED BY <4>1 DEF Routed, Budgets
    <3> QED BY <3>1, <3>2
  <2> QED BY <2>1, <2>2, <2>3 DEF Routed
<1>8. CASE CheckBegin \/ CheckEnd
  BY <1>2, <1>8 DEF CheckBegin, CheckEnd, Routed
<1>9. ASSUME NEW p \in Providers, CheckOne(p) PROVE Routed'
  <2>1. UNCHANGED config \/ Act(p) \/ ActFails(p)
    BY <1>9 DEF CheckOne, Alert, Rearm
  <2>2. UNCHANGED <<rules, subs>> /\ paused \subseteq paused' /\ paused' \subseteq Roles
    BY <2>1, ActKeeps DEF Routed
  <2>3. UNCHANGED <<spent, proc, off>>
    BY <1>9 DEF CheckOne
  <2> QED BY <1>2, <2>2, <2>3
<1>10. CASE UNCHANGED vars
  BY <1>2, <1>10 DEF vars, Routed
<1> QED BY <1>1, <1>3, <1>4, <1>5, <1>6, <1>7, <1>8, <1>9, <1>10 DEF Next, Check

\* Whatever users, sessions and alerts do meanwhile, each session's knowledge stays
\* what it took as it began and what its probes found.
THEOREM AlwaysRouted == Spec => []Routed
<1>1. Init => Routed
  BY RoutedInit
<1>2. Routed /\ [Next]_vars => Routed'
  BY RoutedKept
<1> QED BY <1>1, <1>2, PTL DEF Spec

\* decide returns the first usable entry of the foremost rule that leads anywhere
\* (rules.rs:160-206), for any rules and overrides and whatever is known of quotas.
THEOREM BestRouteTaken == Spec => []RouteIsBest
<1>1. Routed => RouteIsBest
  BY RoutedSays
<1> QED BY <1>1, AlwaysRouted, PTL

\* What was suspended or paused as a session began and ever since is no route of it
\* (routing.rs:136-143), nor is the provider that failed it (agent.rs:124-141).
THEOREM RotationHeeded == Spec => []OutOfRotation
<1>1. Routed => OutOfRotation
  BY RoutedSays
<1> QED BY <1>1, AlwaysRouted, PTL

-----------------------------------------------------------------------------
(* ProviderLimit                                                            *)

\* What a session has at each point of its loop: nothing while it waits, a
\* positive cap while it looks at the counter, a permit of the provider it
\* calls, and a call left to make until it leaves.
Waiting == {"acquire", "lock", "asleep", "woken"}
Holding ==
  \A s \in Sessions :
    /\ pc[s] \in Waiting \cup {"route", "ended"} => holds[s] = None /\ ~counted[s]
    /\ counted[s] => holds[s] \in Slots
    /\ pc[s] \in Waiting \cup {"call", "drop"} => provider[s] \in Slots
    /\ pc[s] \in {"lock", "asleep", "woken"} => cap[s] \in Caps /\ cap[s] > 0
    /\ pc[s] = "call" => holds[s] = provider[s]
    /\ pc[s] \notin {"leave", "ended"} => steps[s] < Steps

UnderCap == \A p \in Slots : \E c \in Caps \cup {0} : active[p] <= c

Limit == TypeOK /\ Holding /\ CounterExact /\ UnderCap /\ NoLostWakeup

USE LimitOK DEF LimitOK

\* There are finitely many sessions.
LEMMA CountedFinite ==
  ASSUME NEW p PROVE IsFiniteSet(Counted(p))
BY FS_Subset DEF Counted

\* At first nobody holds a permit.
LEMMA InitLimit == LimitInit => Limit
<1> SUFFICES ASSUME LimitInit PROVE Limit
  OBVIOUS
<1>1. TypeOK
  BY DEF LimitInit, TypeOK, States
<1>2. Holding
  BY DEF LimitInit, Holding, Waiting
<1>3. CounterExact
  <2> SUFFICES ASSUME NEW p \in Slots PROVE active[p] = Cardinality(Counted(p))
    BY DEF CounterExact
  <2>1. Counted(p) = {}
    BY DEF LimitInit, Counted
  <2> QED
    BY <2>1, FS_EmptySet DEF LimitInit
<1>4. UnderCap
  BY DEF LimitInit, UnderCap
<1>5. NoLostWakeup
  BY DEF LimitInit, NoLostWakeup
<1> QED
  BY <1>1, <1>2, <1>3, <1>4, <1>5 DEF Limit

-----------------------------------------------------------------------------
(* The steps that leave the counter and the permits alone.                 *)

\* If no permit and no counter changes, the counter stays exact.
LEMMA CounterKept ==
  ASSUME CounterExact, UnderCap, UNCHANGED <<active, permit>>
  PROVE  CounterExact' /\ UnderCap'
<1>1. \A p \in Slots : Counted(p)' = Counted(p)
  BY DEF Counted, permit
<1> QED
  BY <1>1 DEF CounterExact, UnderCap

\* Routing touches no permit.
LEMMA RouteKeeps ==
  ASSUME Limit, NEW s \in Sessions, Route(s) PROVE Limit'
<1> USE DEF Limit, Route, Goto, Set, permit, budget
<1>1. TypeOK'
  BY DEF TypeOK, States
<1>2. Holding'
  BY DEF TypeOK, Holding, Waiting
<1>3. CounterExact' /\ UnderCap'
  BY CounterKept
<1>4. NoLostWakeup'
  BY DEF TypeOK, NoLostWakeup
<1> QED
  BY <1>1, <1>2, <1>3, <1>4

\* A permit taken without a cap is not counted.
LEMMA ReadCapKeeps ==
  ASSUME Limit, NEW s \in Sessions, ReadCap(s) PROVE Limit'
<1> USE DEF Limit, ReadCap, Goto, Set, permit, budget
<1>1. pc[s] = "acquire" /\ holds[s] = None /\ ~counted[s] /\ provider[s] \in Slots
  BY DEF Holding, Waiting
<1>2. TypeOK'
  BY <1>1 DEF TypeOK, States
<1>3. Holding'
  BY <1>1 DEF TypeOK, Holding, Waiting
<1>4. counted' = counted
  BY <1>1 DEF TypeOK
<1>5. \A p \in Slots : Counted(p)' = Counted(p)
  BY <1>1, <1>4 DEF TypeOK, Counted
<1>6. CounterExact' /\ UnderCap'
  BY <1>5 DEF CounterExact, UnderCap
<1>7. NoLostWakeup'
  BY <1>1 DEF TypeOK, NoLostWakeup
<1> QED
  BY <1>2, <1>3, <1>6, <1>7

\* Who finds the slot full leaves somebody who holds a permit.
LEMMA SleepKeeps ==
  ASSUME Limit, NEW s \in Sessions, Sleep(s) PROVE Limit'
<1> USE DEF Limit, Sleep, Admitted, Set, permit, budget
<1>1. TypeOK'
  BY DEF TypeOK, States
<1>2. Holding'
  BY DEF TypeOK, Holding, Waiting
<1>3. CounterExact' /\ UnderCap'
  BY CounterKept
<1>4. active[provider[s]] > 0
  BY DEF TypeOK, Holding, Waiting
<1>5. NoLostWakeup'
  BY <1>4 DEF TypeOK, NoLostWakeup
<1> QED
  BY <1>1, <1>2, <1>3, <1>5

\* A woken session looks again.
LEMMA WakeUpKeeps ==
  ASSUME Limit, NEW s \in Sessions, WakeUp(s) PROVE Limit'
<1> USE DEF Limit, WakeUp, Goto, permit, budget
<1>1. TypeOK'
  BY DEF TypeOK, States
<1>2. Holding'
  BY DEF TypeOK, Holding, Waiting
<1>3. CounterExact' /\ UnderCap'
  BY CounterKept
<1>4. NoLostWakeup'
  BY DEF TypeOK, NoLostWakeup
<1> QED
  BY <1>1, <1>2, <1>3, <1>4

\* A session in its call loop, which stays there, moves or is done.
LEMMA CallKeeps ==
  ASSUME Limit, NEW s \in Sessions,
         Answered(s) \/ Retry(s) \/ MigrateAway(s) \/ Fail(s)
  PROVE  Limit'
<1> USE DEF Limit, Goto, Set, permit, budget
<1>1. /\ pc[s] = "call"
      /\ pc' \in [Sessions -> States]
      /\ pc'[s] \in {"call", "drop", "leave"}
      /\ pc' = [pc EXCEPT ![s] = pc'[s]]
      /\ UNCHANGED <<active, permit, cap>>
  BY DEF TypeOK, States, Answered, Retry, MigrateAway, AfterMigration, Fail
<1>2. TypeOK'
  <2>1. CASE Answered(s)
    <3>1. steps[s] < Steps
      BY <1>1 DEF Holding
    <3> QED
      BY <2>1, <3>1, <1>1 DEF TypeOK, Answered
  <2>2. CASE Retry(s)
    BY <2>2, <1>1 DEF TypeOK, Retry
  <2>3. CASE MigrateAway(s)
    BY <2>3, <1>1 DEF TypeOK, MigrateAway, MayMigrate, Fallbacks
  <2>4. CASE Fail(s)
    BY <2>4, <1>1 DEF TypeOK, Fail
  <2> QED
    BY <2>1, <2>2, <2>3, <2>4
<1>3. Holding'
  <2>1. CASE Answered(s)
    BY <2>1, <1>1 DEF TypeOK, Holding, Waiting, Answered
  <2>2. CASE Retry(s)
    BY <2>2, <1>1 DEF TypeOK, Holding, Waiting, Retry
  <2>3. CASE MigrateAway(s)
    BY <2>3, <1>1 DEF TypeOK, Holding, Waiting, MigrateAway, AfterMigration, Fallbacks
  <2>4. CASE Fail(s)
    BY <2>4, <1>1 DEF TypeOK, Holding, Waiting, Fail
  <2> QED
    BY <2>1, <2>2, <2>3, <2>4
<1>4. CounterExact' /\ UnderCap'
  BY <1>1, CounterKept
<1>5. \A t \in Sessions \ {s} : provider'[t] = provider[t] /\ pc'[t] = pc[t]
  BY <1>1 DEF TypeOK, Answered, Retry, MigrateAway, Fail
<1>6. NoLostWakeup'
  BY <1>1, <1>5 DEF TypeOK, NoLostWakeup
<1> QED
  BY <1>2, <1>3, <1>4, <1>6

-----------------------------------------------------------------------------
(* The steps that take and give permits.                                   *)

\* A session enters below the cap it has read and is counted.
LEMMA EnterKeeps ==
  ASSUME Limit, NEW s \in Sessions, Enter(s) PROVE Limit'
<1> USE DEF Limit, Enter, Admitted, Set, budget
<1> DEFINE q == provider[s]
<1>1. /\ q \in Slots /\ ~counted[s]
      /\ cap[s] \in Caps /\ active[q] < cap[s]
  BY DEF Holding, Waiting
<1>2. TypeOK'
  BY <1>1 DEF TypeOK, States
<1>3. Holding'
  BY <1>1 DEF TypeOK, Holding, Waiting
<1>4. CounterExact'
  <2> SUFFICES ASSUME NEW p \in Slots PROVE active'[p] = Cardinality(Counted(p)')
    BY DEF CounterExact
  <2>1. CASE p = q
    <3>1. Counted(p)' = Counted(p) \cup {s} /\ s \notin Counted(p)
      BY <2>1, <1>1 DEF TypeOK, Counted
    <3>2. Cardinality(Counted(p)') = Cardinality(Counted(p)) + 1
      BY <3>1, CountedFinite, FS_AddElement
    <3> QED
      BY <3>2, <2>1 DEF TypeOK, CounterExact
  <2>2. CASE p # q
    <3>1. Counted(p)' = Counted(p)
      BY <2>2, <1>1 DEF TypeOK, Counted
    <3> QED
      BY <3>1, <2>2 DEF TypeOK, CounterExact
  <2> QED
    BY <2>1, <2>2
<1>5. UnderCap'
  <2> SUFFICES ASSUME NEW p \in Slots PROVE \E c \in Caps \cup {0} : active'[p] <= c
    BY DEF UnderCap
  <2>1. CASE p = q
    <3>1. active'[p] <= cap[s]
      BY <2>1, <1>1 DEF TypeOK
    <3> QED
      BY <3>1, <1>1
  <2>2. CASE p # q
    BY <2>2, <1>1 DEF TypeOK, UnderCap
  <2> QED
    BY <2>1, <2>2
<1>6. NoLostWakeup'
  BY <1>1 DEF TypeOK, NoLostWakeup
<1> QED
  BY <1>2, <1>3, <1>4, <1>5, <1>6

\* A counted permit is given back once, and wakes a sleeper if there is one.
LEMMA ReleaseKeeps ==
  ASSUME Limit, NEW s \in Sessions, NEW to \in {"acquire", "ended"},
         pc[s] = IF to = "acquire" THEN "drop" ELSE "leave",
         Release(s, to), UNCHANGED <<provider, cap, budget>>
  PROVE  Limit'
<1> USE DEF Limit, Set, budget
<1>1. /\ pc' \in [Sessions -> States]
      /\ pc'[s] = to
      /\ \A t \in Sessions \ {s} :
           \/ pc'[t] = pc[t]
           \/ pc[t] = "asleep" /\ pc'[t] = "woken"
      /\ holds' = [holds EXCEPT ![s] = None]
      /\ counted' = [counted EXCEPT ![s] = FALSE]
  BY DEF TypeOK, States, Release, Wakes, Sleepers
<1>2. CASE ~counted[s]
  <2>1. active' = active /\ pc' = [pc EXCEPT ![s] = to]
    BY <1>2 DEF Release, GivesBack
  <2>2. \A r \in Slots : Counted(r)' = Counted(r)
    BY <1>1, <1>2 DEF TypeOK, Counted
  <2>3. TypeOK'
    BY <1>1, <2>1 DEF TypeOK
  <2>4. Holding'
    BY <1>1, <2>1 DEF TypeOK, Holding, Waiting
  <2>5. CounterExact' /\ UnderCap'
    BY <2>1, <2>2 DEF CounterExact, UnderCap
  <2>6. NoLostWakeup'
    BY <2>1 DEF TypeOK, NoLostWakeup
  <2> QED
    BY <2>3, <2>4, <2>5, <2>6
<1>3. CASE counted[s]
  <2> PICK p \in Slots : p = holds[s]
    BY <1>3 DEF Holding
  <2>1. active' = [active EXCEPT ![p] = @ - 1]
    BY <1>3 DEF Release, GivesBack
  <2>2. Counted(p)' = Counted(p) \ {s} /\ s \in Counted(p)
    BY <1>1, <1>3 DEF TypeOK, Counted
  <2>3. /\ Cardinality(Counted(p)') = Cardinality(Counted(p)) - 1
        /\ Cardinality(Counted(p)') \in Nat
    BY <2>2, CountedFinite, FS_RemoveElement, FS_CardinalityType, FS_Subset
  <2>4. active'[p] = Cardinality(Counted(p)') /\ active'[p] \in Nat
    BY <2>1, <2>3 DEF TypeOK, CounterExact
  <2>5. TypeOK'
    BY <1>1, <2>1, <2>4 DEF TypeOK
  <2>6. Holding'
    BY <1>1, <2>1 DEF TypeOK, Holding, Waiting
  <2>7. CounterExact'
    <3>1. \A r \in Slots \ {p} : Counted(r)' = Counted(r)
      BY <1>1, <1>3 DEF TypeOK, Counted
    <3> QED
      BY <3>1, <2>1, <2>4 DEF TypeOK, CounterExact
  <2>8. UnderCap'
    <3> SUFFICES ASSUME NEW r \in Slots PROVE \E c \in Caps \cup {0} : active'[r] <= c
      BY DEF UnderCap
    <3>1. active'[r] <= active[r]
      BY <2>1 DEF TypeOK
    <3>2. PICK c \in Caps \cup {0} : active[r] <= c
      BY DEF UnderCap
    <3>3. active'[r] <= c
      BY <3>1, <3>2, <2>5 DEF TypeOK
    <3> QED
      BY <3>3
  <2>9. NoLostWakeup'
    <3> SUFFICES ASSUME NEW t \in Sessions, pc'[t] = "asleep"
                 PROVE  \/ active'[provider[t]] > 0
                        \/ \E w \in Sessions : pc'[w] = "woken" /\ provider[w] = provider[t]
      BY DEF NoLostWakeup
    <3>1. pc[t] = "asleep" /\ t # s /\ provider[t] \in Slots
      BY <1>1 DEF Holding, Waiting
    <3>2. CASE provider[t] = p
      <4>1. t \in Wakes(p)
        BY <3>1, <3>2 DEF Wakes, Sleepers
      <4>2. PICK w \in Wakes(p) : pc' = [pc EXCEPT ![s] = to, ![w] = "woken"]
        BY <4>1, <1>3 DEF Release, GivesBack
      <4>3. w \in Sessions /\ pc'[w] = "woken" /\ provider[w] = p
        BY <4>2 DEF TypeOK, Wakes, Sleepers
      <4> QED
        BY <4>3, <3>2
    <3>3. CASE provider[t] # p
      <4>1. active'[provider[t]] = active[provider[t]]
        BY <3>1, <3>3, <2>1 DEF TypeOK
      <4>2. \A w \in Sessions : pc[w] = "woken" => pc'[w] = "woken"
        BY <1>1
      <4> QED
        BY <3>1, <4>1, <4>2 DEF NoLostWakeup
    <3> QED
      BY <3>2, <3>3
  <2> QED
    BY <2>5, <2>6, <2>7, <2>8, <2>9
<1> QED
  BY <1>2, <1>3

-----------------------------------------------------------------------------

\* All steps together.
LEMMA LimitInductive == Limit /\ [LimitNext]_limitVars => Limit'
<1> SUFFICES ASSUME Limit, [LimitNext]_limitVars PROVE Limit'
  OBVIOUS
<1>1. CASE UNCHANGED limitVars
  <2>1. UNCHANGED <<active, permit>> /\ UNCHANGED <<pc, provider, cap, budget>>
    BY <1>1 DEF limitVars, permit, budget
  <2>2. CounterExact' /\ UnderCap'
    BY <2>1, CounterKept DEF Limit
  <2> QED
    BY <2>2, <1>1 DEF limitVars, Limit, TypeOK, Holding, NoLostWakeup
<1>2. ASSUME NEW s \in Sessions, Session(s) PROVE Limit'
  <2>1. CASE Route(s)
    BY <2>1, RouteKeeps
  <2>2. CASE ReadCap(s)
    BY <2>2, ReadCapKeeps
  <2>3. CASE Enter(s)
    BY <2>3, EnterKeeps
  <2>4. CASE Sleep(s)
    BY <2>4, SleepKeeps
  <2>5. CASE Answered(s) \/ Retry(s) \/ MigrateAway(s) \/ Fail(s)
    BY <2>5, CallKeeps
  <2>6. CASE Drop(s)
    BY <2>6, ReleaseKeeps DEF Drop
  <2>7. CASE Leave(s)
    BY <2>7, ReleaseKeeps DEF Leave
  <2> QED
    BY <1>2, <2>1, <2>2, <2>3, <2>4, <2>5, <2>6, <2>7 DEF Session
<1>3. ASSUME NEW s \in Sessions, WakeUp(s) PROVE Limit'
  BY <1>3, WakeUpKeeps
<1> QED
  BY <1>1, <1>2, <1>3 DEF LimitNext

\* The inductive invariant of the limit.
THEOREM LimitInvariant == LimitSpec => []Limit
BY InitLimit, LimitInductive, PTL DEF LimitSpec

\* ProviderSlot::active counts the permits there are, whatever is retried,
\* migrated or left, and whichever permits count.
THEOREM CounterIsExact == LimitSpec => []CounterExact
<1>1. Limit => CounterExact
  BY DEF Limit
<1> QED
  BY <1>1, LimitInvariant, PTL

\* No provider ever serves more counted sessions than the largest cap allows,
\* and nobody calls a provider without its permit.
THEOREM LimitIsRespected == LimitSpec => []CapRespected
<1>1. Limit => CapRespected
  BY DEF Limit, CapRespected, UnderCap, CounterExact, Holding
<1> QED
  BY <1>1, LimitInvariant, PTL

\* Whoever sleeps on a provider's Condvar can still be woken by somebody.
THEOREM WakeupsAreNotLost == LimitSpec => []NoLostWakeup
<1>1. Limit => NoLostWakeup
  BY DEF Limit
<1> QED
  BY <1>1, LimitInvariant, PTL
=============================================================================
