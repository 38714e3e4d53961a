--------------------------- MODULE LevelStoreProofs ---------------------------
(***************************************************************************)
(* That a Get of leveldb finds what was written last, at the present and   *)
(* at every snapshot, for every value of the constants of LevelStore.      *)
(*                                                                         *)
(* First what the operators of Version compute: the order of the internal  *)
(* keys, FindFile, GetOverlappingInputs, AddBoundaryInputs, the inputs of  *)
(* a compaction, an edit, the tables a compaction writes, the files a      *)
(* lookup reads.  Then four invariants of the store, each resting on the   *)
(* one before it:                                                          *)
(*                                                                         *)
(*   TypeInv     tables with entries, numbers of their own;                *)
(*   OrderInv    the levels in order, newer above older, and a running     *)
(*               compaction that still fits into the current version;      *)
(*   KeyInv      without snapshots, the entries of a key in one file of a  *)
(*               level, so that a marker is dropped last;                  *)
(*   ViewInv     what the present and each snapshot must show is stored.   *)
(*                                                                         *)
(* The last part maps the store to SnapshotStore.                          *)
(***************************************************************************)
EXTENDS LevelStore, FiniteSetTheorems, WellFoundedInduction, TLAPS

\* A set of numbers has a least one.
LEMMA LeastNumber ==
    ASSUME NEW T \in SUBSET Nat, T # {}
    PROVE  \E k \in T : \A y \in T : k <= y
<1> DEFINE R == {ss \in Nat \X Nat : ss[1] < ss[2]}
<1>1. IsWellFoundedOn(OpToRel(<, Nat), Nat) BY NatLessThanWellFounded
<1>2. OpToRel(<, Nat) = R BY DEF OpToRel
<1>3. PICK k \in T : \A y \in T : <<y, k>> \notin R BY <1>1, <1>2, WFMin
<1>4. \A y \in T : ~(y < k) BY <1>3
<1> QED BY <1>4

\* Min of the library.
LEMMA MinIs ==
    ASSUME NEW T \in SUBSET Nat, T # {}
    PROVE  Min(T) \in T /\ \A y \in T : Min(T) <= y
<1>1. PICK k \in T : \A y \in T : k <= y BY LeastNumber
<1> QED BY <1>1 DEF Min

\* Max of the library, of numbers up to a bound.
LEMMA MaxIs ==
    ASSUME NEW n \in Nat, NEW T \in SUBSET (0 .. n), T # {}
    PROVE  Max(T) \in T /\ \A y \in T : y <= Max(T)
<1>1. PICK U : U = {n - y : y \in T} OBVIOUS
<1>2. U \subseteq Nat /\ U # {}
  <2>1. \A y \in T : y \in 0 .. n /\ n - y \in Nat OBVIOUS
  <2> QED BY <1>1, <2>1
<1>3. PICK k \in U : \A y \in U : k <= y BY <1>2, LeastNumber
<1>4. PICK x \in T : k = n - x BY <1>1
<1>5. \A y \in T : y <= x
  <2> TAKE y \in T
  <2>1. n - y \in U BY <1>1
  <2>2. k <= n - y BY <1>3, <2>1
  <2> QED BY <1>4, <2>2
<1>6. \A y \in T : x >= y BY <1>5
<1>7. Max(T) \in T /\ \A y \in T : Max(T) >= y BY <1>6 DEF Max
<1> QED BY <1>7

-----------------------------------------------------------------------------
(* Strict total orders on finite sets.                                      *)

\* R orders S strictly and totally.
StrictOrder(S, R) ==
    /\ \A x \in S : <<x, x>> \notin R
    /\ \A x, y, z \in S : <<x, y>> \in R /\ <<y, z>> \in R => <<x, z>> \in R
    /\ \A x, y \in S : x = y \/ <<x, y>> \in R \/ <<y, x>> \in R

\* How many elements come before x.
Rank(S, R, x) == Cardinality({y \in S : <<y, x>> \in R})

\* A rank is a number.
LEMMA RankType ==
    ASSUME NEW S, IsFiniteSet(S), NEW R, NEW x
    PROVE  Rank(S, R, x) \in Nat
<1>1. {y \in S : <<y, x>> \in R} \subseteq S OBVIOUS
<1>2. IsFiniteSet({y \in S : <<y, x>> \in R}) BY <1>1, FS_Subset
<1> QED BY <1>2, FS_CardinalityType DEF Rank

\* What is before another element has a smaller rank.
LEMMA RankOrder ==
    ASSUME NEW S, IsFiniteSet(S), NEW R, StrictOrder(S, R),
           NEW x \in S, NEW z \in S, <<x, z>> \in R
    PROVE  Rank(S, R, x) < Rank(S, R, z)
<1>1. PICK A : A = {y \in S : <<y, x>> \in R} OBVIOUS
<1>2. PICK B : B = {y \in S : <<y, z>> \in R} OBVIOUS
<1>3. A \subseteq B BY <1>1, <1>2 DEF StrictOrder
<1>4. x \in B /\ x \notin A BY <1>1, <1>2 DEF StrictOrder
<1>5. B \subseteq S BY <1>2
<1>6. IsFiniteSet(B) BY <1>5, FS_Subset
<1>7. IsFiniteSet(A) /\ Cardinality(A) <= Cardinality(B) /\ Cardinality(A) # Cardinality(B)
  BY <1>3, <1>4, <1>6, FS_Subset
<1>8. Cardinality(A) \in Nat /\ Cardinality(B) \in Nat BY <1>6, <1>7, FS_CardinalityType
<1> QED BY <1>1, <1>2, <1>7, <1>8 DEF Rank

\* A finite set has a first element.
LEMMA FirstOf ==
    ASSUME NEW S, IsFiniteSet(S), S # {}, NEW R, StrictOrder(S, R)
    PROVE  \E x \in S : \A y \in S \ {x} : <<x, y>> \in R
<1>1. PICK T : T = {Rank(S, R, x) : x \in S} OBVIOUS
<1>2. T \subseteq Nat /\ T # {} BY <1>1, RankType
<1>3. PICK k \in T : \A y \in T : k <= y BY <1>2, LeastNumber
<1>4. PICK x \in S : k = Rank(S, R, x) BY <1>1
<1>5. \A y \in S \ {x} : <<x, y>> \in R
  <2> TAKE y \in S \ {x}
  <2>1. CASE <<y, x>> \in R
    <3>1. Rank(S, R, y) < Rank(S, R, x) BY <2>1, RankOrder
    <3>2. Rank(S, R, y) \in T BY <1>1
    <3>3. Rank(S, R, x) <= Rank(S, R, y) BY <1>3, <1>4, <3>2
    <3>4. Rank(S, R, x) \in Nat /\ Rank(S, R, y) \in Nat BY RankType
    <3> QED BY <3>1, <3>3, <3>4
  <2> QED BY <2>1 DEF StrictOrder
<1> QED BY <1>5

\* The elements in the order of their ranks.
Ranked(S, R) == [i \in 1 .. Cardinality(S) |-> CHOOSE x \in S : Rank(S, R, x) = i - 1]

\* Ranked lists every element, and in the order.
LEMMA RankedIs ==
    ASSUME NEW S, IsFiniteSet(S), NEW R, StrictOrder(S, R)
    PROVE  /\ Cardinality(S) \in Nat
           /\ Ranked(S, R) \in [1 .. Cardinality(S) -> S]
           /\ \A x \in S : \E i \in 1 .. Cardinality(S) : Ranked(S, R)[i] = x
           /\ \A i, j \in 1 .. Cardinality(S) :
                i < j => <<Ranked(S, R)[i], Ranked(S, R)[j]>> \in R
<1>1. PICK n : n = Cardinality(S) OBVIOUS
<1>2. n \in Nat BY <1>1, FS_CardinalityType
<1>3. \A x \in S : Rank(S, R, x) \in 0 .. n - 1
  <2> TAKE x \in S
  <2>1. PICK A : A = {y \in S : <<y, x>> \in R} OBVIOUS
  <2>2. A \subseteq S /\ A # S BY <2>1 DEF StrictOrder
  <2>3. Cardinality(A) <= n /\ Cardinality(A) # n BY <1>1, <2>2, FS_Subset
  <2>4. Rank(S, R, x) = Cardinality(A) BY <2>1 DEF Rank
  <2>5. Rank(S, R, x) \in Nat BY RankType
  <2> QED BY <1>2, <2>3, <2>4, <2>5
<1>4. \A x, y \in S : Rank(S, R, x) = Rank(S, R, y) => x = y
  <2> TAKE x, y \in S
  <2>1. Rank(S, R, x) \in Nat /\ Rank(S, R, y) \in Nat BY RankType
  <2>2. CASE <<x, y>> \in R BY <2>1, <2>2, RankOrder
  <2>3. CASE <<y, x>> \in R BY <2>1, <2>3, RankOrder
  <2> QED BY <2>2, <2>3 DEF StrictOrder
<1>5. PICK f : f = [x \in S |-> Rank(S, R, x)] OBVIOUS
<1>6. PICK T : T = {Rank(S, R, x) : x \in S} OBVIOUS
<1>7. f \in Bijection(S, T) BY <1>4, <1>5, <1>6 DEF Bijection, Injection, Surjection, IsInjective
<1>8. IsFiniteSet(T) /\ Cardinality(T) = n
  <2>1. ExistsBijection(S, T) BY <1>7 DEF ExistsBijection
  <2> QED BY <2>1, <1>1, FS_Bijection
<1>9. T = 0 .. n - 1
  <2>1. T \subseteq 0 .. n - 1 BY <1>3, <1>6
  <2>2. IsFiniteSet(0 .. n - 1) /\ Cardinality(0 .. n - 1) = n
    BY <1>2, FS_Interval
  <2> QED BY <1>8, <2>1, <2>2, FS_Subset
<1>10. \A i \in 1 .. n : \E x \in S : Rank(S, R, x) = i - 1
  <2> TAKE i \in 1 .. n
  <2>1. i - 1 \in T BY <1>2, <1>9
  <2> QED BY <1>6, <2>1
<1>11. PICK s : s = Ranked(S, R) OBVIOUS
<1>12. \A i \in 1 .. n : s[i] \in S /\ Rank(S, R, s[i]) = i - 1
  BY <1>1, <1>10, <1>11 DEF Ranked
<1>13. s \in [1 .. n -> S]
  <2>1. s = [i \in 1 .. n |-> s[i]] BY <1>1, <1>11 DEF Ranked
  <2> QED BY <1>12, <2>1
<1>14. \A x \in S : \E i \in 1 .. n : s[i] = x
  <2> TAKE x \in S
  <2>1. PICK r \in 0 .. n - 1 : r = Rank(S, R, x) BY <1>3
  <2>2. r + 1 \in 1 .. n BY <1>2, <2>1
  <2>3. Rank(S, R, s[r + 1]) = r + 1 - 1 /\ s[r + 1] \in S BY <1>12, <2>2
  <2>4. Rank(S, R, s[r + 1]) = Rank(S, R, x) BY <2>1, <2>3
  <2>5. s[r + 1] = x BY <2>3, <2>4, <1>4
  <2> QED BY <2>2, <2>5
<1>15. \A i, j \in 1 .. n : i < j => <<s[i], s[j]>> \in R
  <2> SUFFICES ASSUME NEW i \in 1 .. n, NEW j \in 1 .. n, i < j
               PROVE  <<s[i], s[j]>> \in R
    OBVIOUS
  <2>1. s[i] \in S /\ s[j] \in S /\ Rank(S, R, s[i]) = i - 1 /\ Rank(S, R, s[j]) = j - 1
    BY <1>12
  <2>2. s[i] # s[j] BY <1>2, <2>1
  <2>3. CASE <<s[j], s[i]>> \in R
    <3>1. Rank(S, R, s[j]) < Rank(S, R, s[i]) BY <2>1, <2>3, RankOrder
    <3> QED BY <1>2, <2>1, <3>1
  <2> QED BY <2>1, <2>2, <2>3 DEF StrictOrder
<1> QED BY <1>1, <1>2, <1>11, <1>13, <1>14, <1>15

-----------------------------------------------------------------------------
(* Entries in the order of the internal keys.                               *)

\* Before, as a relation.
BeforeR == {p \in Entry \X Entry : Before(p[1], p[2])}

\* InternalKeyComparator orders the entries.
LEMMA BeforeOrder ==
    /\ \A d \in Entry : ~Before(d, d)
    /\ \A d, e, f \in Entry : Before(d, e) /\ Before(e, f) => Before(d, f)
    /\ \A d, e \in Entry : d = e \/ Before(d, e) \/ Before(e, d)
<1>1. \A e \in Entry : e.key \in Int /\ e.seq \in Int /\ e.type \in Int
  BY VersionAssumption DEF Entry, Key, kTypeDeletion, kTypeValue
<1>2. \A d, e \in Entry : d.key = e.key /\ d.seq = e.seq /\ d.type = e.type => d = e
  BY DEF Entry
<1>3. \A d \in Entry : ~Before(d, d) BY <1>1 DEF Before
<1>4. \A d, e, f \in Entry : Before(d, e) /\ Before(e, f) => Before(d, f)
  BY <1>1 DEF Before
<1>5. \A d, e \in Entry : d = e \/ Before(d, e) \/ Before(e, d)
  <2> TAKE d, e \in Entry
  <2>1. CASE d.key # e.key BY <1>1, <2>1 DEF Before
  <2>2. CASE d.key = e.key /\ d.seq # e.seq BY <1>1, <2>2 DEF Before
  <2>3. CASE d.key = e.key /\ d.seq = e.seq /\ d.type # e.type BY <1>1, <2>3 DEF Before
  <2> QED BY <1>2, <2>1, <2>2, <2>3
<1> QED BY <1>3, <1>4, <1>5

\* So does its relation, on any set of them.
LEMMA BeforeStrict ==
    ASSUME NEW S \in SUBSET Entry
    PROVE  StrictOrder(S, BeforeR)
<1>1. \A d, e \in S : <<d, e>> \in BeforeR <=> Before(d, e) BY DEF BeforeR
<1>2. \A d \in S : d \in Entry OBVIOUS
<1>3. \A x \in S : <<x, x>> \notin BeforeR BY <1>1, <1>2, BeforeOrder
<1>4. \A x, y, z \in S : <<x, y>> \in BeforeR /\ <<y, z>> \in BeforeR => <<x, z>> \in BeforeR
  BY <1>1, <1>2, BeforeOrder
<1>5. \A x, y \in S : x = y \/ <<x, y>> \in BeforeR \/ <<y, x>> \in BeforeR
  BY <1>1, <1>2, BeforeOrder
<1> QED BY <1>3, <1>4, <1>5 DEF StrictOrder

\* And its converse.
LEMMA AfterStrict ==
    ASSUME NEW S \in SUBSET Entry
    PROVE  StrictOrder(S, {p \in Entry \X Entry : Before(p[2], p[1])})
<1>0. PICK R : R = {p \in Entry \X Entry : Before(p[2], p[1])} OBVIOUS
<1>1. \A d, e \in S : <<d, e>> \in R <=> Before(e, d) BY <1>0
<1>2. \A d \in S : d \in Entry OBVIOUS
<1>3. \A x \in S : <<x, x>> \notin R BY <1>1, <1>2, BeforeOrder
<1>4. \A x, y, z \in S : <<x, y>> \in R /\ <<y, z>> \in R => <<x, z>> \in R
  BY <1>1, <1>2, BeforeOrder
<1>5. \A x, y \in S : x = y \/ <<x, y>> \in R \/ <<y, x>> \in R
  BY <1>1, <1>2, BeforeOrder
<1>6. StrictOrder(S, R) BY <1>3, <1>4, <1>5 DEF StrictOrder
<1> QED BY <1>0, <1>6

\* There are finitely many entries.
LEMMA EntryFinite == IsFiniteSet(Entry)
<1>1. PICK T : T = {kTypeDeletion, kTypeValue} OBVIOUS
<1>2. PICK P : P = (Key \X (1 .. MaxSequence)) \X T OBVIOUS
<1>3. IsFiniteSet(Key) /\ IsFiniteSet(1 .. MaxSequence)
  BY VersionAssumption, FS_Interval DEF Key
<1>4. IsFiniteSet(T)
  <2>1. IsFiniteSet({kTypeDeletion}) BY FS_Singleton
  <2>2. IsFiniteSet({kTypeDeletion} \cup {kTypeValue}) BY <2>1, FS_AddElement
  <2> QED BY <2>2, <1>1
<1>5. IsFiniteSet(Key \X (1 .. MaxSequence)) BY <1>3, FS_Product
<1>6. IsFiniteSet(P) BY <1>2, <1>4, <1>5, FS_Product
<1>7. PICK f : f = [e \in Entry |-> <<<<e.key, e.seq>>, e.type>>] OBVIOUS
<1>8. f \in [Entry -> P]
  <2>1. \A e \in Entry : <<<<e.key, e.seq>>, e.type>> \in P BY <1>1, <1>2 DEF Entry
  <2> QED BY <1>7, <2>1
<1>9. \A d, e \in Entry : f[d] = f[e] => d = e
  <2> TAKE d, e \in Entry
  <2>1. f[d] = f[e] => d.key = e.key /\ d.seq = e.seq /\ d.type = e.type BY <1>7
  <2> QED BY <2>1 DEF Entry
<1>10. f \in Injection(Entry, P) BY <1>8, <1>9 DEF Injection, IsInjective
<1> QED BY <1>6, <1>10, FS_Injection

\* FileMetaData::smallest is an entry of the file, and before the others.
LEMMA SmallestIs ==
    ASSUME NEW f, f.entries \subseteq Entry, f.entries # {}
    PROVE  /\ Smallest(f) \in f.entries
           /\ \A d \in f.entries : d = Smallest(f) \/ Before(Smallest(f), d)
<1>1. PICK S : S = f.entries OBVIOUS
<1>2. IsFiniteSet(S) /\ S \in SUBSET Entry /\ S # {} BY <1>1, EntryFinite, FS_Subset
<1>3. PICK x \in S : \A y \in S \ {x} : <<x, y>> \in BeforeR BY <1>2, BeforeStrict, FirstOf
<1>4. \A y \in S \ {x} : Before(x, y) BY <1>3 DEF BeforeR
<1>5. Smallest(f) \in S /\ \A d \in S \ {Smallest(f)} : Before(Smallest(f), d)
  BY <1>1, <1>3, <1>4 DEF Smallest
<1> QED BY <1>1, <1>5

\* FileMetaData::largest is an entry of the file, and after the others.
LEMMA LargestIs ==
    ASSUME NEW f, f.entries \subseteq Entry, f.entries # {}
    PROVE  /\ Largest(f) \in f.entries
           /\ \A d \in f.entries : d = Largest(f) \/ Before(d, Largest(f))
<1>1. PICK S : S = f.entries OBVIOUS
<1>2. IsFiniteSet(S) /\ S \in SUBSET Entry /\ S # {} BY <1>1, EntryFinite, FS_Subset
<1>3. PICK R : R = {p \in Entry \X Entry : Before(p[2], p[1])} OBVIOUS
<1>4. PICK x \in S : \A y \in S \ {x} : <<x, y>> \in R
  BY <1>2, <1>3, AfterStrict, FirstOf
<1>5. \A y \in S \ {x} : Before(y, x) BY <1>3, <1>4
<1>6. Largest(f) \in S /\ \A d \in S \ {Largest(f)} : Before(d, Largest(f))
  BY <1>1, <1>4, <1>5 DEF Largest
<1> QED BY <1>1, <1>6

\* The ends of a file by user keys.
LEMMA Ends ==
    ASSUME NEW f, f.entries \subseteq Entry, f.entries # {}
    PROVE  /\ Smallest(f) \in f.entries /\ Smallest(f) \in Entry /\ Smallest(f).key \in Key
           /\ Largest(f) \in f.entries /\ Largest(f) \in Entry /\ Largest(f).key \in Key
           /\ \A d \in f.entries : d \in Entry /\ d.key \in Key
           /\ \A d \in f.entries : Smallest(f).key <= d.key /\ d.key <= Largest(f).key
           /\ Smallest(f).key <= Largest(f).key
<1>1. Smallest(f) \in f.entries /\ \A d \in f.entries : d = Smallest(f) \/ Before(Smallest(f), d)
  BY SmallestIs
<1>2. Largest(f) \in f.entries /\ \A d \in f.entries : d = Largest(f) \/ Before(d, Largest(f))
  BY LargestIs
<1>3. \A d \in Entry : d.key \in Key BY DEF Entry
<1>4. \A d \in Entry : d.key \in Int BY <1>3 DEF Key
<1>5. \A d, e \in Entry : Before(d, e) => d.key <= e.key BY <1>3, <1>4 DEF Before
<1>6. \A d \in f.entries : d \in Entry /\ d.key \in Key BY <1>3
<1>7. \A d \in f.entries : Smallest(f).key <= d.key
  <2> TAKE d \in f.entries
  <2>1. Smallest(f) \in Entry /\ d \in Entry BY <1>1
  <2>2. CASE d = Smallest(f) BY <2>1, <2>2, <1>3, <1>4
  <2>3. CASE Before(Smallest(f), d) BY <2>1, <2>3, <1>5
  <2> QED BY <1>1, <2>2, <2>3
<1>8. \A d \in f.entries : d.key <= Largest(f).key
  <2> TAKE d \in f.entries
  <2>1. Largest(f) \in Entry /\ d \in Entry BY <1>2
  <2>2. CASE d = Largest(f) BY <2>1, <2>2, <1>3, <1>4
  <2>3. CASE Before(d, Largest(f)) BY <2>1, <2>3, <1>5
  <2> QED BY <1>2, <2>2, <2>3
<1> QED BY <1>1, <1>2, <1>6, <1>7, <1>8

-----------------------------------------------------------------------------
(* Sequences by positions.                                                  *)

\* A subsequence holds the elements at its positions.
LEMMA SubsequenceIs ==
    ASSUME NEW S, NEW s \in Seq(S), NEW P \in SUBSET DOMAIN s
    PROVE  /\ Subsequence(s, P) \in Seq(S)
           /\ ToSet(Subsequence(s, P)) = {s[i] : i \in P}
           /\ \A a, b \in DOMAIN Subsequence(s, P) : a < b =>
                \E i, j \in DOMAIN s : /\ i < j /\ Subsequence(s, P)[a] = s[i]
                                       /\ Subsequence(s, P)[b] = s[j]
<1>1. PICK l \in Nat : l = Len(s) /\ DOMAIN s = 1 .. l OBVIOUS
<1>2. IsFiniteSet(P) /\ Cardinality(P) \in Nat
  <2>1. IsFiniteSet(1 .. l) BY FS_Interval
  <2> QED BY <1>1, <2>1, FS_Subset, FS_CardinalityType
<1>3. PICK R : R = {p \in Nat \X Nat : p[1] < p[2]} OBVIOUS
<1>4. \A i \in P : i \in Nat BY <1>1
<1>5. \A i, j \in P : <<i, j>> \in R <=> i < j BY <1>3, <1>4
<1>6. StrictOrder(P, R)
  <2>1. \A x \in P : <<x, x>> \notin R BY <1>4, <1>5
  <2>2. \A x, y, z \in P : <<x, y>> \in R /\ <<y, z>> \in R => <<x, z>> \in R BY <1>4, <1>5
  <2>3. \A x, y \in P : x = y \/ <<x, y>> \in R \/ <<y, x>> \in R
    <3> TAKE x, y \in P
    <3>1. x \in Nat /\ y \in Nat BY <1>4
    <3>2. x = y \/ x < y \/ y < x BY <3>1
    <3> QED BY <3>2, <1>5
  <2> QED BY <2>1, <2>2, <2>3 DEF StrictOrder
<1>7. ASSUME NEW i \in P
      PROVE  Cardinality({j \in P : j <= i}) = Rank(P, R, i) + 1
  <2>1. PICK A : A = {j \in P : <<j, i>> \in R} OBVIOUS
  <2>2. {j \in P : j <= i} = A \cup {i} BY <1>4, <1>5, <2>1
  <2>3. i \notin A BY <1>4, <1>5, <2>1
  <2>4. A \subseteq P BY <2>1
  <2>5. IsFiniteSet(A) BY <1>2, <2>4, FS_Subset
  <2>6. Cardinality(A \cup {i}) = Cardinality(A) + 1 BY <2>3, <2>5, FS_AddElement
  <2> QED BY <2>1, <2>2, <2>6 DEF Rank
<1>8. PICK n \in Nat : n = Cardinality(P) BY <1>2
<1>9. \A k \in 1 .. n : Nth(P, k) = Ranked(P, R)[k]
  <2> TAKE k \in 1 .. n
  <2>1. \A i \in P : Rank(P, R, i) \in Nat BY <1>2, RankType
  <2>2. \A i \in P : Cardinality({j \in P : j <= i}) = k <=> Rank(P, R, i) = k - 1
    BY <1>7, <2>1
  <2>3. Nth(P, k) = CHOOSE i \in P : Rank(P, R, i) = k - 1 BY <2>2 DEF Nth
  <2> QED BY <1>8, <2>3 DEF Ranked
<1>10. PICK q : q = Ranked(P, R) OBVIOUS
<1>11. q \in [1 .. n -> P] /\ \A i \in P : \E k \in 1 .. n : q[k] = i
  BY <1>2, <1>6, <1>8, <1>10, RankedIs
<1>12. Subsequence(s, P) = [k \in 1 .. n |-> s[q[k]]]
  BY <1>8, <1>9, <1>10 DEF Subsequence
<1>13. \A k \in 1 .. n : s[q[k]] \in S BY <1>1, <1>11
<1>14. PICK r : r = [k \in 1 .. n |-> s[q[k]]] OBVIOUS
<1>15. r \in Seq(S) /\ DOMAIN r = 1 .. n BY <1>13, <1>14
<1>16. ToSet(r) = {s[i] : i \in P}
  <2>1. \A k \in 1 .. n : r[k] = s[q[k]] /\ q[k] \in P BY <1>11, <1>14
  <2>2. ToSet(r) \subseteq {s[i] : i \in P} BY <1>15, <2>1 DEF ToSet
  <2>3. \A i \in P : \E k \in 1 .. n : r[k] = s[i] BY <1>11, <2>1
  <2>4. {s[i] : i \in P} \subseteq ToSet(r) BY <1>15, <2>3 DEF ToSet
  <2> QED BY <2>2, <2>4
<1>17. \A a, b \in 1 .. n : a < b => q[a] \in DOMAIN s /\ q[b] \in DOMAIN s /\ q[a] < q[b]
  <2>1. \A a, b \in 1 .. n : a < b => <<q[a], q[b]>> \in R
    BY <1>2, <1>6, <1>8, <1>10, RankedIs
  <2> QED BY <1>5, <1>11, <2>1
<1>18. \A a, b \in 1 .. n : a < b =>
            \E i, j \in DOMAIN s : i < j /\ r[a] = s[i] /\ r[b] = s[j]
  BY <1>14, <1>17
<1>19. Subsequence(s, P) = r BY <1>12, <1>14
<1> QED BY ONLY <1>15, <1>16, <1>18, <1>19

\* The elements of a sequence and its positions.
LEMMA ElementsOf ==
    ASSUME NEW S, NEW s \in Seq(S)
    PROVE  /\ ToSet(s) \subseteq S
           /\ \A i \in 1 .. Len(s) : s[i] \in ToSet(s)
           /\ \A x \in ToSet(s) : \E i \in 1 .. Len(s) : s[i] = x
           /\ Len(s) \in Nat
           /\ s = <<>> <=> ToSet(s) = {}
           /\ IsFiniteSet(ToSet(s)) /\ Cardinality(ToSet(s)) <= Len(s)
<1>1. PICK l \in Nat : l = Len(s) /\ DOMAIN s = 1 .. l OBVIOUS
<1>2. \A i \in 1 .. l : s[i] \in S BY <1>1
<1>3. /\ ToSet(s) \subseteq S
      /\ \A i \in 1 .. l : s[i] \in ToSet(s)
      /\ \A x \in ToSet(s) : \E i \in 1 .. l : s[i] = x
  BY <1>1, <1>2 DEF ToSet
<1>4. s = <<>> <=> ToSet(s) = {}
  <2>1. s = <<>> <=> l = 0 BY <1>1
  <2>2. l # 0 => 1 \in 1 .. l OBVIOUS
  <2> QED BY <1>3, <2>1, <2>2
<1>5. IsFiniteSet(ToSet(s)) /\ Cardinality(ToSet(s)) <= l
  <2>1. PICK f : f = [i \in 1 .. l |-> s[i]] OBVIOUS
  <2>2. f \in Surjection(1 .. l, ToSet(s)) BY <2>1, <1>3 DEF Surjection
  <2>3. IsFiniteSet(1 .. l) /\ Cardinality(1 .. l) = l BY FS_Interval
  <2> QED BY <2>2, <2>3, FS_Surjection
<1> QED BY <1>1, <1>3, <1>4, <1>5

\* A concatenation has the elements of both.
LEMMA ElementsOfConcat ==
    ASSUME NEW S, NEW s \in Seq(S), NEW t \in Seq(S)
    PROVE  s \o t \in Seq(S) /\ ToSet(s \o t) = ToSet(s) \cup ToSet(t)
<1>1. PICK l \in Nat : l = Len(s) /\ DOMAIN s = 1 .. l OBVIOUS
<1>2. PICK m \in Nat : m = Len(t) /\ DOMAIN t = 1 .. m OBVIOUS
<1>3. PICK u : u = s \o t OBVIOUS
<1>4. u \in Seq(S) /\ DOMAIN u = 1 .. l + m BY <1>1, <1>2, <1>3
<1>5. \A i \in 1 .. l : u[i] = s[i] BY <1>1, <1>2, <1>3
<1>6. \A i \in 1 .. m : u[l + i] = t[i] BY <1>1, <1>2, <1>3
<1>7. ToSet(u) \subseteq ToSet(s) \cup ToSet(t)
  <2> SUFFICES ASSUME NEW i \in 1 .. l + m PROVE u[i] \in ToSet(s) \cup ToSet(t)
    BY <1>4 DEF ToSet
  <2>1. CASE i <= l
    <3>1. i \in 1 .. l BY <2>1
    <3> QED BY <1>1, <1>5, <3>1 DEF ToSet
  <2>2. CASE i > l
    <3>1. i - l \in 1 .. m /\ i = l + (i - l) BY <2>2
    <3>2. u[i] = t[i - l] BY <1>6, <3>1
    <3> QED BY <1>2, <3>1, <3>2 DEF ToSet
  <2> QED BY <2>1, <2>2
<1>8. ToSet(s) \subseteq ToSet(u)
  <2>1. \A i \in 1 .. l : i \in 1 .. l + m /\ u[i] = s[i] BY <1>5
  <2> QED BY <1>1, <1>4, <2>1 DEF ToSet
<1>9. ToSet(t) \subseteq ToSet(u)
  <2>1. \A i \in 1 .. m : l + i \in 1 .. l + m /\ u[l + i] = t[i] BY <1>6
  <2> QED BY <1>2, <1>4, <2>1 DEF ToSet
<1> QED BY <1>3, <1>4, <1>7, <1>8, <1>9

-----------------------------------------------------------------------------
(* Functions defined by recursion on a number.                              *)

\* g is the function that starts with a and goes on with h.
Recurs(S, a, h, N, g) ==
    /\ g \in [0 .. N -> S]
    /\ \A n \in 0 .. N : g[n] = IF n = 0 THEN a ELSE h[<<n, g[n - 1]>>]

\* A function that steps from each number to the next exists.
LEMMA Recursive ==
    ASSUME NEW S, NEW a \in S, NEW h \in [Nat \X S -> S], NEW N \in Nat
    PROVE  \E g : Recurs(S, a, h, N, g)
<1> DEFINE Defines(m, g) ==
        g \in [0 .. m -> S] /\
        \A n \in 0 .. m : g[n] = IF n = 0 THEN a ELSE h[<<n, g[n - 1]>>]
<1>1. \E g : Defines(0, g)
  <2>1. PICK g : g = [n \in 0 .. 0 |-> a] OBVIOUS
  <2>2. Defines(0, g) BY <2>1
  <2> QED BY <2>2
<1>2. ASSUME NEW m \in Nat, NEW g, Defines(m, g)
      PROVE  \E f : Defines(m + 1, f)
  <2>1. PICK f : f = [n \in 0 .. m + 1 |-> IF n = m + 1 THEN h[<<n, g[m]>>] ELSE g[n]]
    OBVIOUS
  <2>2. m \in 0 .. m /\ g[m] \in S /\ h[<<m + 1, g[m]>>] \in S BY <1>2
  <2>3. \A n \in 0 .. m + 1 : f[n] = IF n = m + 1 THEN h[<<m + 1, g[m]>>] ELSE g[n]
    BY <2>1
  <2>4. \A n \in 0 .. m + 1 : f[n] \in S
    <3> TAKE n \in 0 .. m + 1
    <3>1. n # m + 1 => n \in 0 .. m OBVIOUS
    <3> QED BY <1>2, <2>2, <2>3, <3>1
  <2>5. \A n \in 0 .. m + 1 : f[n] = IF n = 0 THEN a ELSE h[<<n, f[n - 1]>>]
    <3> TAKE n \in 0 .. m + 1
    <3>1. CASE n = m + 1
      <4>1. n # 0 /\ n - 1 = m /\ m \in 0 .. m + 1 /\ m # m + 1 BY <3>1
      <4>2. f[n] = h[<<n, g[m]>>] /\ f[m] = g[m] BY <2>3, <3>1, <4>1
      <4> QED BY <4>1, <4>2
    <3>2. CASE n # m + 1
      <4>1. n \in 0 .. m BY <3>2
      <4>2. f[n] = g[n] BY <2>3, <3>2
      <4>3. g[n] = IF n = 0 THEN a ELSE h[<<n, g[n - 1]>>] BY <4>1, <1>2
      <4>4. n # 0 => f[n - 1] = g[n - 1]
        <5>1. n # 0 => n - 1 \in 0 .. m + 1 /\ n - 1 # m + 1 BY <4>1
        <5> QED BY <2>3, <5>1
      <4> QED BY <4>2, <4>3, <4>4
    <3> QED BY <3>1, <3>2
  <2>6. f = [n \in 0 .. m + 1 |-> f[n]] BY <2>1
  <2>7. f \in [0 .. m + 1 -> S] BY <2>4, <2>6
  <2>8. Defines(m + 1, f) BY <2>5, <2>7
  <2> QED BY <2>8
<1> HIDE DEF Defines
<1>3. PICK T : T = {m \in Nat : ~\E g : Defines(m, g)} OBVIOUS
<1>4. T = {}
  <2> SUFFICES ASSUME T # {} PROVE FALSE OBVIOUS
  <2>1. T \subseteq Nat BY <1>3
  <2>2. PICK m \in T : \A y \in T : m <= y BY <2>1, LeastNumber
  <2>3. m # 0 BY <1>1, <1>3, <2>2
  <2>4. m - 1 \in Nat /\ m - 1 \notin T BY <2>1, <2>2, <2>3
  <2>5. \E g : Defines(m - 1, g) BY <1>3, <2>4
  <2>6. \E g : Defines(m - 1 + 1, g) BY <1>2, <2>4, <2>5
  <2>7. m - 1 + 1 = m BY <2>1, <2>2
  <2> QED BY <1>3, <2>2, <2>6, <2>7
<1>5. \E g : Defines(N, g) BY <1>3, <1>4
<1> QED BY <1>5 DEF Defines, Recurs

\* What holds at the start and is kept by every step holds all along.
LEMMA AlongIt ==
    ASSUME NEW N \in Nat, NEW T \in SUBSET (0 .. N), 0 \in T,
           \A n \in 0 .. N - 1 : n \in T => n + 1 \in T
    PROVE  T = 0 .. N
<1>1. PICK U : U = (0 .. N) \ T OBVIOUS
<1>2. U = {}
  <2> SUFFICES ASSUME U # {} PROVE FALSE OBVIOUS
  <2>1. U \subseteq Nat BY <1>1
  <2>2. PICK m \in U : \A y \in U : m <= y BY <2>1, LeastNumber
  <2>3. m \in 0 .. N /\ m # 0 /\ m \notin T BY <1>1, <2>2
  <2>4. m - 1 \in 0 .. N - 1 /\ m - 1 \in 0 .. N /\ m - 1 + 1 = m BY <2>3
  <2>5. m - 1 \in U BY <1>1, <2>3, <2>4
  <2>6. m <= m - 1 BY <2>2, <2>5
  <2> QED BY <2>3, <2>6
<1> QED BY <1>1, <1>2

\* The files the store writes are never empty.
Table == [number : Nat, entries : (SUBSET Entry) \ {{}}]

\* Internal keys: those of entries and those that lookups begin at.
IKey == [key : Int, seq : Int, type : Int]

\* The comparison of internal keys is transitive.
LEMMA IKeyOrder ==
    /\ Entry \subseteq IKey
    /\ \A d, e, f \in IKey : Before(d, e) /\ Before(e, f) => Before(d, f)
<1>1. \A e \in Entry : e \in IKey
  BY VersionAssumption DEF Entry, IKey, Key, kTypeDeletion, kTypeValue
<1>2. \A e \in IKey : e.key \in Int /\ e.seq \in Int /\ e.type \in Int BY DEF IKey
<1> QED BY <1>1, <1>2 DEF Before

\* What a table is made of.
LEMMA TableIs ==
    ASSUME NEW f \in Table
    PROVE  f.number \in Nat /\ f.entries \subseteq Entry /\ f.entries # {}
BY DEF Table

\* The ends of a table.
LEMMA TableEnds ==
    ASSUME NEW f \in Table
    PROVE  /\ Smallest(f) \in f.entries /\ Largest(f) \in f.entries
           /\ Smallest(f) \in Entry /\ Largest(f) \in Entry
           /\ Smallest(f).key \in Key /\ Largest(f).key \in Key
           /\ Smallest(f).key \in Int /\ Largest(f).key \in Int
           /\ Smallest(f).key <= Largest(f).key
           /\ \A d \in f.entries :
                /\ d \in Entry /\ d.key \in Key /\ d.key \in Int
                /\ Smallest(f).key <= d.key /\ d.key <= Largest(f).key
                /\ d = Smallest(f) \/ Before(Smallest(f), d)
                /\ d = Largest(f) \/ Before(d, Largest(f))
<1>1. f.entries \subseteq Entry /\ f.entries # {} BY TableIs
<1>2. \A k \in Key : k \in Int BY DEF Key
<1> QED BY <1>1, <1>2, Ends, SmallestIs, LargestIs

\* The files of a level one after another.
InOrder(files) ==
    \A i, j \in DOMAIN files : i < j => Before(Largest(files[i]), Smallest(files[j]))

-----------------------------------------------------------------------------
(* FindFile.                                                                *)

\* The files whose largest key is before the target come first.
Parted(files, target) ==
    \A i, j \in DOMAIN files : i < j =>
        (Before(Largest(files[j]), target) => Before(Largest(files[i]), target))

\* FindFile: among files whose ends are in order, the bisection returns the
\* first that does not end before the target.
LEMMA FindFileIs ==
    ASSUME NEW files \in Seq(Table), NEW target
    PROVE  /\ FindFile(files, target) \in 1 .. Len(files) + 1
           /\ Parted(files, target) => \A i \in DOMAIN files :
                i < FindFile(files, target) <=> Before(Largest(files[i]), target)
<1> DEFINE Index == 1 .. Len(files) + 1
           halves == [w \in [left : Index, right : Index] |->
            LET mid == (w.left + w.right) \div 2
            IN  IF w.left >= w.right THEN w
                ELSE IF Before(Largest(files[mid]), target)
                     THEN [left |-> mid + 1, right |-> w.right]
                     ELSE [left |-> w.left, right |-> mid]]
           Rounds(g) == g = [n \in 0 .. Len(files) |->
                                IF n = 0 THEN [left |-> 1, right |-> Len(files) + 1]
                                ELSE halves[g[n - 1]]]
<1>0. FindFile(files, target) = (CHOOSE g : Rounds(g))[Len(files)].right BY DEF FindFile
<1>1. PICK l \in Nat : l = Len(files) /\ DOMAIN files = 1 .. l OBVIOUS
<1>2. PICK W : W = [left : 1 .. l + 1, right : 1 .. l + 1] OBVIOUS
<1>3. PICK halve : halve = halves OBVIOUS
<1>33. halve = [w \in W |->
            LET mid == (w.left + w.right) \div 2
            IN  IF w.left >= w.right THEN w
                ELSE IF Before(Largest(files[mid]), target)
                     THEN [left |-> mid + 1, right |-> w.right]
                     ELSE [left |-> w.left, right |-> mid]]
  BY <1>1, <1>2, <1>3
<1> HIDE DEF halves
<1>4. ASSUME NEW w \in W
      PROVE  /\ w.left \in 1 .. l + 1 /\ w.right \in 1 .. l + 1
             /\ halve[w] \in W
             /\ w.left >= w.right => halve[w] = w
             /\ w.left < w.right => \E mid \in 1 .. l :
                    /\ w.left <= mid /\ mid < w.right
                    /\ IF Before(Largest(files[mid]), target)
                       THEN halve[w].left = mid + 1 /\ halve[w].right = w.right
                       ELSE halve[w].left = w.left /\ halve[w].right = mid
  <2>1. PICK mid : mid = (w.left + w.right) \div 2 OBVIOUS
  <2>2. halve[w] = IF w.left >= w.right THEN w
                   ELSE IF Before(Largest(files[mid]), target)
                        THEN [left |-> mid + 1, right |-> w.right]
                        ELSE [left |-> w.left, right |-> mid]
    BY <1>33, <2>1
  <2>3. w.left \in 1 .. l + 1 /\ w.right \in 1 .. l + 1 BY <1>2
  <2>4. CASE w.left >= w.right BY <2>2, <2>3, <2>4
  <2>5. CASE w.left < w.right
    <3>1. mid \in 1 .. l /\ w.left <= mid /\ mid < w.right BY <2>1, <2>3, <2>5
    <3>2. ~(w.left >= w.right) BY <2>3, <2>5
    <3>3. CASE Before(Largest(files[mid]), target)
      <4>1. halve[w] = [left |-> mid + 1, right |-> w.right] BY <2>2, <3>2, <3>3
      <4>2. mid + 1 \in 1 .. l + 1 BY <3>1
      <4> QED BY <1>2, <2>3, <3>1, <3>2, <3>3, <4>1, <4>2
    <3>4. CASE ~Before(Largest(files[mid]), target)
      <4>1. halve[w] = [left |-> w.left, right |-> mid] BY <2>2, <3>2, <3>4
      <4>2. mid \in 1 .. l + 1 BY <3>1
      <4> QED BY <1>2, <2>3, <3>1, <3>2, <3>4, <4>1, <4>2
    <3> QED BY <3>3, <3>4
  <2> QED BY <2>3, <2>4, <2>5
<1>5. PICK start : start = [left |-> 1, right |-> l + 1] OBVIOUS
<1>6. start \in W /\ start.left = 1 /\ start.right = l + 1 BY <1>2, <1>5
<1>7. \E g : Rounds(g)
  <2>1. PICK h : h = [p \in Nat \X W |-> halve[p[2]]] OBVIOUS
  <2>2. h \in [Nat \X W -> W] BY <1>4, <2>1
  <2>3. PICK g : Recurs(W, start, h, l, g)
    <3>1. start \in W /\ l \in Nat BY <1>1, <1>6
    <3> QED BY ONLY <3>1, <2>2, Recursive
  <2>4. \A n \in 0 .. l : g[n] = IF n = 0 THEN start ELSE halve[g[n - 1]]
    <3> TAKE n \in 0 .. l
    <3>1. CASE n = 0 BY <2>3, <3>1 DEF Recurs
    <3>2. CASE n # 0
      <4>1. n - 1 \in 0 .. l /\ n \in Nat BY <3>2
      <4>2. <<n, g[n - 1]>> \in Nat \X W BY <2>3, <4>1 DEF Recurs
      <4>3. h[<<n, g[n - 1]>>] = halve[g[n - 1]] BY <2>1, <4>2
      <4> QED BY <2>3, <3>2, <4>3 DEF Recurs
    <3> QED BY <3>1, <3>2
  <2>5. g = [n \in 0 .. l |-> g[n]] BY <2>3 DEF Recurs
  <2>6. g = [n \in 0 .. l |-> IF n = 0 THEN start ELSE halve[g[n - 1]]] BY <2>4, <2>5
  <2>7. Rounds(g) BY <1>1, <1>3, <1>5, <2>6
  <2> QED BY <2>7
<1>8. PICK round : round = CHOOSE g : Rounds(g) OBVIOUS
<1>9. Rounds(round)
  <2> HIDE DEF Rounds
  <2> QED BY <1>7, <1>8
<1>10. \A n \in 0 .. l : round[n] = IF n = 0 THEN start ELSE halve[round[n - 1]]
  <2>1. round = [n \in 0 .. l |-> IF n = 0 THEN start ELSE halve[round[n - 1]]]
    BY <1>1, <1>3, <1>5, <1>9
  <2> QED BY <2>1
<1>11. FindFile(files, target) = round[l].right BY <1>0, <1>1, <1>8
<1> HIDE DEF Rounds
<1> DEFINE Good(w, n) ==
        /\ w \in W /\ w.left <= w.right
        /\ w.right - w.left <= l - n \/ w.left = w.right
        /\ Parted(files, target) =>
                /\ \A i \in 1 .. l : i < w.left => Before(Largest(files[i]), target)
                /\ \A i \in 1 .. l : i >= w.right => ~Before(Largest(files[i]), target)
<1>12. Good(start, 0) BY <1>6
<1>13. ASSUME NEW n \in 0 .. l - 1, NEW w \in W, Good(w, n)
       PROVE  Good(halve[w], n + 1)
  <2>1. w.left \in 1 .. l + 1 /\ w.right \in 1 .. l + 1 BY <1>4
  <2>2. CASE w.left = w.right BY <1>4, <1>13, <2>1, <2>2
  <2>3. CASE w.left < w.right
    <3>1. PICK mid \in 1 .. l :
                    /\ w.left <= mid /\ mid < w.right
                    /\ IF Before(Largest(files[mid]), target)
                       THEN halve[w].left = mid + 1 /\ halve[w].right = w.right
                       ELSE halve[w].left = w.left /\ halve[w].right = mid
      BY <1>4, <2>3
    <3>2. w.right - w.left <= l - n BY <1>13, <2>1, <2>3
    <3>3. halve[w] \in W BY <1>4
    <3>4. CASE Before(Largest(files[mid]), target)
      <4>1. halve[w].left = mid + 1 /\ halve[w].right = w.right BY <3>1, <3>4
      <4>2. Parted(files, target) => \A i \in 1 .. l : i < mid + 1 => Before(Largest(files[i]), target)
        <5> HAVE Parted(files, target)
        <5> TAKE i \in 1 .. l
        <5>1. i < mid + 1 => i = mid \/ i < mid OBVIOUS
        <5> QED BY <1>1, <3>4, <5>1 DEF Parted
      <4> QED BY <1>13, <2>1, <3>1, <3>2, <3>3, <4>1, <4>2
    <3>5. CASE ~Before(Largest(files[mid]), target)
      <4>1. halve[w].left = w.left /\ halve[w].right = mid BY <3>1, <3>5
      <4>2. Parted(files, target) => \A i \in 1 .. l : i >= mid => ~Before(Largest(files[i]), target)
        <5> HAVE Parted(files, target)
        <5> TAKE i \in 1 .. l
        <5>1. i >= mid => i = mid \/ mid < i OBVIOUS
        <5> QED BY <1>1, <3>5, <5>1 DEF Parted
      <4> QED BY <1>13, <2>1, <3>1, <3>2, <3>3, <4>1, <4>2
    <3> QED BY <3>4, <3>5
  <2> QED BY <1>13, <2>1, <2>2, <2>3
<1> HIDE DEF Good
<1>14. PICK T : T = {n \in 0 .. l : round[n] \in W /\ Good(round[n], n)} OBVIOUS
<1>15. T = 0 .. l
  <2>1. 0 \in T BY <1>6, <1>10, <1>12, <1>14
  <2>2. \A n \in 0 .. l - 1 : n \in T => n + 1 \in T
    <3> TAKE n \in 0 .. l - 1
    <3>1. n + 1 \in 0 .. l /\ n + 1 # 0 /\ n + 1 - 1 = n OBVIOUS
    <3>2. round[n + 1] = halve[round[n]] BY <1>10, <3>1
    <3>3. n \in T => Good(halve[round[n]], n + 1) /\ halve[round[n]] \in W BY <1>4, <1>13, <1>14
    <3> QED BY <1>14, <3>1, <3>2, <3>3
  <2> QED BY <1>14, <2>1, <2>2, AlongIt
<1>16. Good(round[l], l) /\ round[l] \in W
  <2>1. l \in T BY <1>15
  <2> QED BY <1>14, <2>1
<1>17. PICK w : w = round[l] OBVIOUS
<1>18. w.left \in 1 .. l + 1 /\ w.right \in 1 .. l + 1 BY <1>4, <1>16, <1>17
<1>19. w.left = w.right BY <1>16, <1>17, <1>18 DEF Good
<1>20. Parted(files, target) =>
            \A i \in 1 .. l : i < w.right <=> Before(Largest(files[i]), target)
  BY <1>16, <1>17, <1>18, <1>19 DEF Good
<1> QED BY <1>1, <1>11, <1>17, <1>18, <1>20

-----------------------------------------------------------------------------
(* GetOverlappingInputs.                                                    *)

\* A table of the set spans the key.
Covers(S, k) == \E f \in S : Smallest(f).key <= k /\ k <= Largest(f).key

\* The tables found are those that touch a range around the one asked for; it is
\* the same below level 0, and in level 0 no table reaches out of it; what it has
\* in addition is spanned by the tables found.
FoundIn(v, level, low, high, lo, hi) ==
    LET found == ToSet(GetOverlappingInputs(v, level, low, high))
    IN  /\ found = {f \in ToSet(v[level]) : ~Outside(lo, hi, f)}
        /\ lo <= low /\ high <= hi
        /\ level # 0 => lo = low /\ hi = high
        /\ level = 0 => \A f \in found : lo <= Smallest(f).key /\ Largest(f).key <= hi
        /\ \A k \in lo .. hi : k \in low .. high \/ Covers(found, k)

\* A table is not outside a range when it has an end on each side of it.
LEMMA OutsideIs ==
    ASSUME NEW f \in Table, NEW lo \in Int, NEW hi \in Int
    PROVE  ~Outside(lo, hi, f) <=> lo <= Largest(f).key /\ Smallest(f).key <= hi
BY TableEnds DEF Outside, AfterFile, BeforeFile

\* GetOverlappingInputs: the widening of the range in level 0 comes to rest.
LEMMA GetOverlappingInputsIs ==
    ASSUME NEW v \in [Level -> Seq(Table)], NEW level \in Level,
           NEW low \in Key, NEW high \in Key, low <= high
    PROVE  /\ GetOverlappingInputs(v, level, low, high) \in Seq(Table)
           /\ \E lo, hi \in Key : FoundIn(v, level, low, high, lo, hi)
<1> DEFINE hit(r) == {i \in DOMAIN v[level] : ~Outside(r.low, r.high, v[level][i])}
           widens == [r \in [low : 0 .. MaxKey + 1, high : 0 .. MaxKey + 1] |->
            [low |-> Min({r.low} \cup {Smallest(v[level][i]).key : i \in hit(r)}),
             high |-> Max({r.high} \cup {Largest(v[level][i]).key : i \in hit(r)})]]
           Ranges(g) == g = [n \in 0 .. MaxKey |->
                                IF n = 0 \/ level > 0 THEN [low |-> low, high |-> high]
                                ELSE widens[g[n - 1]]]
           result == (CHOOSE g : Ranges(g))[MaxKey]
<1>0. GetOverlappingInputs(v, level, low, high) = Subsequence(v[level], hit(result))
  BY DEF GetOverlappingInputs
<1>1. PICK files \in Seq(Table) : files = v[level] OBVIOUS
<1>2. /\ MaxKey \in Nat \ {0} /\ level \in Nat
      /\ \A k : k \in Key <=> k \in Nat /\ 1 <= k /\ k <= MaxKey
  BY VersionAssumption DEF Key, Level
<1>3. \A i \in DOMAIN files : files[i] \in Table /\ files[i] \in ToSet(files)
  BY ElementsOf
<1>4. PICK K : K = [low : Key, high : Key] OBVIOUS
<1>5. PICK widen : widen = widens OBVIOUS
<1>6. ASSUME NEW r \in K
      PROVE  /\ r.low \in Key /\ r.high \in Key
             /\ widen[r] \in K
             /\ widen[r].low <= r.low /\ r.high <= widen[r].high
             /\ \A i \in hit(r) : /\ widen[r].low <= Smallest(files[i]).key
                                  /\ Largest(files[i]).key <= widen[r].high
             /\ \/ widen[r].low = r.low
                \/ \E i \in hit(r) : widen[r].low = Smallest(files[i]).key
             /\ \/ widen[r].high = r.high
                \/ \E i \in hit(r) : widen[r].high = Largest(files[i]).key
  <2>1. r.low \in Key /\ r.high \in Key BY <1>4
  <2>2. PICK H : H = hit(r) OBVIOUS
  <2>3. \A i \in H : i \in DOMAIN files BY <1>1, <2>2
  <2>4. PICK L : L = {r.low} \cup {Smallest(files[i]).key : i \in H} OBVIOUS
  <2>5. PICK U : U = {r.high} \cup {Largest(files[i]).key : i \in H} OBVIOUS
  <2>6. L \subseteq Nat /\ L \subseteq Key /\ L # {}
    <3>1. \A i \in H : Smallest(files[i]).key \in Key BY <1>3, <2>3, TableEnds
    <3>2. L \subseteq Key /\ L # {} BY <2>1, <2>4, <3>1
    <3> QED BY <1>2, <3>2
  <2>7. U \in SUBSET (0 .. MaxKey) /\ U \subseteq Key /\ U # {}
    <3>1. \A i \in H : Largest(files[i]).key \in Key BY <1>3, <2>3, TableEnds
    <3>2. U \subseteq Key /\ U # {} BY <2>1, <2>5, <3>1
    <3>3. \A k \in Key : k \in 0 .. MaxKey BY <1>2
    <3> QED BY <3>2, <3>3
  <2>8. widen[r] = [low |-> Min(L), high |-> Max(U)]
    <3>1. r \in [low : 0 .. MaxKey + 1, high : 0 .. MaxKey + 1]
      <4>1. \A k \in Key : k \in 0 .. MaxKey + 1 BY <1>2
      <4> QED BY <1>4, <4>1
    <3>2. widens[r] = [low |-> Min({r.low} \cup {Smallest(v[level][i]).key : i \in hit(r)}),
                       high |-> Max({r.high} \cup {Largest(v[level][i]).key : i \in hit(r)})]
      <4> HIDE DEF hit
      <4> QED BY <3>1
    <3> HIDE DEF hit, widens
    <3> QED BY <1>1, <1>5, <2>2, <2>4, <2>5, <3>2
  <2>9. Min(L) \in L /\ \A y \in L : Min(L) <= y BY <2>6, MinIs
  <2>10. Max(U) \in U /\ \A y \in U : y <= Max(U) BY <1>2, <2>7, MaxIs
  <2>11. widen[r].low = Min(L) /\ widen[r].high = Max(U) BY <2>8
  <2>12. widen[r] \in K
    <3>1. Min(L) \in Key /\ Max(U) \in Key BY <2>6, <2>7, <2>9, <2>10
    <3> QED BY ONLY <1>4, <2>8, <3>1
  <2> HIDE DEF hit
  <2> QED BY <2>1, <2>2, <2>4, <2>5, <2>9, <2>10, <2>11, <2>12
<1>7. PICK start : start = [low |-> low, high |-> high] OBVIOUS
<1>8. start \in K /\ start.low = low /\ start.high = high BY <1>4, <1>7
<1> HIDE DEF hit, widens
<1>9. \E g : Ranges(g)
  <2>1. PICK h : h = [p \in Nat \X K |-> IF level > 0 THEN start ELSE widen[p[2]]] OBVIOUS
  <2>2. h \in [Nat \X K -> K] BY <1>6, <1>8, <2>1
  <2>3. PICK g : Recurs(K, start, h, MaxKey, g)
    <3>1. start \in K /\ MaxKey \in Nat BY <1>2, <1>8
    <3> QED BY ONLY <3>1, <2>2, Recursive
  <2>4. \A n \in 0 .. MaxKey : g[n] = IF n = 0 \/ level > 0 THEN start ELSE widen[g[n - 1]]
    <3> TAKE n \in 0 .. MaxKey
    <3>1. CASE n = 0 BY <2>3, <3>1 DEF Recurs
    <3>2. CASE n # 0
      <4>1. n - 1 \in 0 .. MaxKey /\ n \in Nat BY <1>2, <3>2
      <4>2. <<n, g[n - 1]>> \in Nat \X K BY <2>3, <4>1 DEF Recurs
      <4>3. h[<<n, g[n - 1]>>] = IF level > 0 THEN start ELSE widen[g[n - 1]] BY <2>1, <4>2
      <4> QED BY <2>3, <3>2, <4>3 DEF Recurs
    <3> QED BY <3>1, <3>2
  <2>5. g = [n \in 0 .. MaxKey |-> g[n]] BY <2>3 DEF Recurs
  <2>6. g = [n \in 0 .. MaxKey |-> IF n = 0 \/ level > 0 THEN start ELSE widen[g[n - 1]]]
    BY <2>4, <2>5
  <2>7. Ranges(g) BY <1>5, <1>7, <2>6
  <2> QED BY <2>7
<1>10. PICK range : range = CHOOSE g : Ranges(g) OBVIOUS
<1>11. Ranges(range)
  <2> HIDE DEF Ranges
  <2> QED BY <1>9, <1>10
<1>12. \A n \in 0 .. MaxKey :
            range[n] = IF n = 0 \/ level > 0 THEN start ELSE widen[range[n - 1]]
  <2>1. range = [n \in 0 .. MaxKey |-> IF n = 0 \/ level > 0 THEN start ELSE widen[range[n - 1]]]
    BY <1>5, <1>7, <1>11
  <2> QED BY <2>1
<1>13. PICK R : R = GetOverlappingInputs(v, level, low, high) OBVIOUS
<1>14. R = Subsequence(files, hit(range[MaxKey])) BY <1>0, <1>1, <1>10, <1>13
<1> HIDE DEF Ranges, result
<1> DEFINE
    spanned(r) == \A k \in r.low .. r.high :
        k \in low .. high \/ \E i \in hit(r) : Smallest(files[i]).key <= k /\ k <= Largest(files[i]).key
    closed(r) == \A i \in hit(r) : r.low <= Smallest(files[i]).key /\ Largest(files[i]).key <= r.high
    Good(r, n) ==
        /\ r \in K /\ r.low <= low /\ high <= r.high /\ spanned(r)
        /\ closed(r) \/ r.high - r.low >= n
<1>15. Good(start, 0)
  <2>1. start.high - start.low >= 0 BY <1>2, <1>8
  <2>2. start.low <= low /\ high <= start.high BY <1>2, <1>8
  <2>3. spanned(start) BY <1>8
  <2> HIDE DEF spanned, closed
  <2> QED BY <1>8, <2>1, <2>2, <2>3
<1>16. \A i \in DOMAIN files : \A r \in K :
            i \in hit(r) <=> r.low <= Largest(files[i]).key /\ Smallest(files[i]).key <= r.high
  <2> TAKE i \in DOMAIN files
  <2> TAKE r \in K
  <2>1. r.low \in Int /\ r.high \in Int BY <1>2, <1>6
  <2>2. ~Outside(r.low, r.high, files[i])
            <=> r.low <= Largest(files[i]).key /\ Smallest(files[i]).key <= r.high
    BY <1>3, <2>1, OutsideIs
  <2> QED BY <1>1, <2>2 DEF hit
<1>17. \A r : \A i \in hit(r) : i \in DOMAIN files BY <1>1 DEF hit
<1>18. \A i \in DOMAIN files : /\ Smallest(files[i]).key \in Int /\ Largest(files[i]).key \in Int
                               /\ Smallest(files[i]).key <= Largest(files[i]).key
  BY <1>3, TableEnds
<1>19. \A k \in Key : k \in Int BY <1>2
<1>20. ASSUME NEW n \in 0 .. MaxKey - 1, NEW r \in K, Good(r, n)
       PROVE  Good(widen[r], n + 1)
  <2>1. PICK w \in K : w = widen[r] BY <1>6
  <2>2. /\ r.low \in Int /\ r.high \in Int /\ w.low \in Int /\ w.high \in Int
        /\ w.low <= r.low /\ r.high <= w.high
    BY <1>6, <1>19, <2>1
  <2>3. low \in Int /\ high \in Int BY <1>19
  <2>4. \A i \in hit(r) : i \in hit(w)
    <3> TAKE i \in hit(r)
    <3>1. i \in DOMAIN files BY <1>17
    <3>2. r.low <= Largest(files[i]).key /\ Smallest(files[i]).key <= r.high BY <1>16, <3>1
    <3>3. Smallest(files[i]).key \in Int /\ Largest(files[i]).key \in Int BY <1>18, <3>1
    <3>4. w.low <= Largest(files[i]).key /\ Smallest(files[i]).key <= w.high
      BY <2>2, <3>2, <3>3
    <3> QED BY <1>16, <2>1, <3>1, <3>4
  <2>5. spanned(w)
    <3> SUFFICES ASSUME NEW k \in w.low .. w.high, k \notin low .. high
                 PROVE  \E i \in hit(w) : Smallest(files[i]).key <= k /\ k <= Largest(files[i]).key
      OBVIOUS
    <3>1. CASE k \in r.low .. r.high BY <1>20, <2>4, <3>1
    <3>2. CASE k < r.low
      <4>1. w.low # r.low BY <2>2, <3>2
      <4>2. PICK i \in hit(r) : w.low = Smallest(files[i]).key BY <1>6, <2>1, <4>1
      <4>3. r.low <= Largest(files[i]).key BY <1>16, <1>17, <4>2
      <4>4. k <= Largest(files[i]).key BY <1>17, <1>18, <2>2, <3>2, <4>2, <4>3
      <4> QED BY <2>2, <2>4, <4>2, <4>4
    <3>3. CASE k > r.high
      <4>1. w.high # r.high BY <2>2, <3>3
      <4>2. PICK i \in hit(r) : w.high = Largest(files[i]).key BY <1>6, <2>1, <4>1
      <4>3. Smallest(files[i]).key <= r.high BY <1>16, <1>17, <4>2
      <4>4. Smallest(files[i]).key <= k BY <1>17, <1>18, <2>2, <3>3, <4>2, <4>3
      <4> QED BY <2>2, <2>4, <4>2, <4>4
    <3> QED BY <2>2, <3>1, <3>2, <3>3
  <2>6. CASE closed(r)
    <3>1. w.low = r.low
      <4>1. CASE \E i \in hit(r) : w.low = Smallest(files[i]).key
        <5>1. PICK i \in hit(r) : w.low = Smallest(files[i]).key BY <4>1
        <5>2. r.low <= w.low BY <2>6, <5>1
        <5> QED BY <2>2, <5>2
      <4> QED BY <1>6, <2>1, <4>1
    <3>2. w.high = r.high
      <4>1. CASE \E i \in hit(r) : w.high = Largest(files[i]).key
        <5>1. PICK i \in hit(r) : w.high = Largest(files[i]).key BY <4>1
        <5>2. w.high <= r.high BY <2>6, <5>1
        <5> QED BY <2>2, <5>2
      <4> QED BY <1>6, <2>1, <4>1
    <3>3. w = r BY <1>4, <2>1, <3>1, <3>2
    <3>4. closed(w) BY <2>6, <3>3
    <3> HIDE DEF closed, spanned
    <3> QED BY <1>20, <2>1, <3>3, <3>4
  <2>7. CASE ~closed(r)
    <3>1. r.high - r.low >= n BY <1>20, <2>7
    <3>2. PICK i \in hit(r) : ~(r.low <= Smallest(files[i]).key /\ Largest(files[i]).key <= r.high)
      BY <2>7
    <3>3. i \in DOMAIN files BY <1>17, <3>2
    <3>4. w.low <= Smallest(files[i]).key /\ Largest(files[i]).key <= w.high BY <1>6, <2>1, <3>2
    <3>5. w.low < r.low \/ r.high < w.high BY <1>18, <2>2, <3>2, <3>3, <3>4
    <3>6. w.high - w.low >= n + 1 BY <2>2, <3>1, <3>5
    <3>7. w.low <= low /\ high <= w.high BY <1>20, <2>2, <2>3
    <3> HIDE DEF closed, spanned
    <3> QED BY <2>1, <2>5, <3>6, <3>7
  <2> QED BY <2>6, <2>7
<1> HIDE DEF closed, spanned
<1>21. ASSUME level = 0
       PROVE  Good(range[MaxKey], MaxKey)
  <2> HIDE DEF Good
  <2>1. PICK T : T = {n \in 0 .. MaxKey : range[n] \in K /\ Good(range[n], n)} OBVIOUS
  <2>2. 0 \in T BY <1>2, <1>8, <1>12, <1>15, <2>1
  <2>3. \A n \in 0 .. MaxKey - 1 : n \in T => n + 1 \in T
    <3> TAKE n \in 0 .. MaxKey - 1
    <3>1. n + 1 \in 0 .. MaxKey /\ n + 1 # 0 /\ n + 1 - 1 = n BY <1>2
    <3>2. range[n + 1] = widen[range[n]] BY <1>12, <1>21, <3>1
    <3>3. n \in T => Good(widen[range[n]], n + 1) /\ widen[range[n]] \in K BY <1>6, <1>20, <2>1
    <3> QED BY <2>1, <3>1, <3>2, <3>3
  <2>4. T = 0 .. MaxKey BY <1>2, <2>1, <2>2, <2>3, AlongIt
  <2>5. MaxKey \in T BY <1>2, <2>4
  <2> QED BY <2>1, <2>5
<1>22. PICK r : r = range[MaxKey] OBVIOUS
<1>23. /\ r \in K /\ r.low <= low /\ high <= r.high /\ spanned(r)
       /\ level # 0 => r = start
       /\ level = 0 => closed(r)
  <2>1. CASE level = 0
    <3>1. Good(r, MaxKey) BY <1>21, <1>22, <2>1
    <3>2. r \in K BY <3>1
    <3>3. r.high - r.low < MaxKey BY <1>2, <1>6, <3>2
    <3>4. ~(r.high - r.low >= MaxKey) BY <1>2, <1>6, <3>2, <3>3
    <3> QED BY <2>1, <3>1, <3>4
  <2>2. CASE level # 0
    <3>1. r = start BY <1>2, <1>12, <1>22, <2>2
    <3> QED BY <1>15, <2>2, <3>1
  <2> QED BY <2>1, <2>2
<1>24. R \in Seq(Table) /\ ToSet(R) = {files[i] : i \in hit(r)}
  <2>1. hit(r) \in SUBSET DOMAIN files BY <1>17
  <2> QED BY <1>14, <1>22, <2>1, SubsequenceIs
<1>25. r.low \in Key /\ r.high \in Key BY <1>6, <1>23
<1>26. ToSet(R) = {f \in ToSet(files) : ~Outside(r.low, r.high, f)}
  <2>1. \A i \in hit(r) : i \in DOMAIN files /\ ~Outside(r.low, r.high, files[i])
    BY <1>1 DEF hit
  <2>2. \A i \in DOMAIN files : ~Outside(r.low, r.high, files[i]) => i \in hit(r)
    BY <1>1 DEF hit
  <2>3. \A f \in ToSet(files) : \E i \in DOMAIN files : files[i] = f BY DEF ToSet
  <2> QED BY <1>3, <1>24, <2>1, <2>2, <2>3
<1>27. FoundIn(v, level, low, high, r.low, r.high)
  <2>1. level # 0 => r.low = low /\ r.high = high BY <1>8, <1>23
  <2>2. level = 0 => \A f \in ToSet(R) : r.low <= Smallest(f).key /\ Largest(f).key <= r.high
    BY <1>23, <1>24 DEF closed
  <2>3. \A k \in r.low .. r.high : k \in low .. high \/ Covers(ToSet(R), k)
    BY <1>23, <1>24 DEF spanned, Covers
  <2> QED BY <1>1, <1>13, <1>23, <1>26, <2>1, <2>2, <2>3 DEF FoundIn
<1> QED BY <1>13, <1>24, <1>25, <1>27

-----------------------------------------------------------------------------
(* Ranges of files.                                                         *)

\* GetRange: the ends of some files are ends of two of them.
LEMMA RangeIs ==
    ASSUME NEW files \in Seq(Table), files # <<>>
    PROVE  /\ Entries(files) \subseteq Entry /\ Entries(files) # {}
           /\ Smallest(GetRange(files)) \in Entry /\ Largest(GetRange(files)) \in Entry
           /\ Smallest(GetRange(files)).key \in Key /\ Largest(GetRange(files)).key \in Key
           /\ Smallest(GetRange(files)).key <= Largest(GetRange(files)).key
           /\ \A f \in ToSet(files) :
                /\ Smallest(GetRange(files)).key <= Smallest(f).key
                /\ Largest(f).key <= Largest(GetRange(files)).key
           /\ \E f \in ToSet(files) : Smallest(GetRange(files)).key = Smallest(f).key
           /\ \E f \in ToSet(files) : Largest(GetRange(files)) = Largest(f)
           /\ \A e \in Entries(files) :
                e = Largest(GetRange(files)) \/ Before(e, Largest(GetRange(files)))
<1>1. ToSet(files) \subseteq Table /\ ToSet(files) # {} BY ElementsOf
<1>2. PICK r : r = GetRange(files) OBVIOUS
<1>3. r.entries = Entries(files) BY <1>2 DEF GetRange
<1>4. \A e : e \in Entries(files) <=> \E f \in ToSet(files) : e \in f.entries BY DEF Entries
<1>5. \A f \in ToSet(files) : f \in Table /\ f.entries \subseteq Entry /\ f.entries # {} BY <1>1, TableIs
<1>6. Entries(files) \subseteq Entry /\ Entries(files) # {} BY <1>1, <1>4, <1>5
<1>7. r.entries \subseteq Entry /\ r.entries # {} BY <1>3, <1>6
<1>8. /\ Smallest(r) \in r.entries /\ Smallest(r) \in Entry /\ Smallest(r).key \in Key
      /\ Largest(r) \in r.entries /\ Largest(r) \in Entry /\ Largest(r).key \in Key
      /\ \A d \in r.entries : Smallest(r).key <= d.key /\ d.key <= Largest(r).key
      /\ Smallest(r).key <= Largest(r).key
  BY <1>7, Ends
<1>9. \A d \in r.entries : d = Largest(r) \/ Before(d, Largest(r)) BY <1>7, LargestIs
<1>10. \A f \in ToSet(files) : /\ Smallest(f) \in r.entries /\ Largest(f) \in r.entries
  BY <1>3, <1>4, <1>5, TableEnds
<1>11. \A f \in ToSet(files) : Smallest(r).key <= Smallest(f).key /\ Largest(f).key <= Largest(r).key
  BY <1>8, <1>10
<1>12. \E f \in ToSet(files) : Smallest(r).key = Smallest(f).key
  <2>1. PICK f \in ToSet(files) : Smallest(r) \in f.entries BY <1>3, <1>4, <1>8
  <2>2. Smallest(f).key <= Smallest(r).key /\ Smallest(f).key \in Int BY <1>5, <2>1, TableEnds
  <2>3. Smallest(r).key \in Int BY <1>8 DEF Key
  <2> QED BY <1>11, <2>1, <2>2, <2>3
<1>13. \E f \in ToSet(files) : Largest(r) = Largest(f)
  <2>1. PICK f \in ToSet(files) : Largest(r) \in f.entries BY <1>3, <1>4, <1>8
  <2>2. Largest(r) = Largest(f) \/ Before(Largest(r), Largest(f)) BY <1>5, <2>1, TableEnds
  <2>3. Largest(f) = Largest(r) \/ Before(Largest(f), Largest(r)) BY <1>9, <1>10, <2>1
  <2>4. Largest(f) \in Entry /\ Largest(r) \in Entry BY <1>5, <1>8, <2>1, TableEnds
  <2> QED BY <2>1, <2>2, <2>3, <2>4, BeforeOrder
<1> QED BY <1>2, <1>3, <1>6, <1>8, <1>9, <1>11, <1>12, <1>13

\* No key between the ends of the set is outside all its files.
Contiguous(S) ==
    \A k \in Int :
        (\E f \in S : Smallest(f).key <= k) /\ (\E f \in S : k <= Largest(f).key)
            => Covers(S, k)

\* A set stays contiguous when files join it that share a key with it.
LEMMA ContiguousJoin ==
    ASSUME NEW S, NEW T, S \subseteq Table, T \subseteq Table, Contiguous(S),
           \A f \in T : \E k \in Int : Covers(S, k) /\ Covers({f}, k)
    PROVE  Contiguous(S \cup T)
<1>1. \A f \in S \cup T : /\ Smallest(f).key \in Int /\ Largest(f).key \in Int
                          /\ Smallest(f).key <= Largest(f).key
  BY TableEnds
<1> SUFFICES ASSUME NEW k \in Int, NEW a \in S \cup T, NEW b \in S \cup T,
                    Smallest(a).key <= k, k <= Largest(b).key
             PROVE  Covers(S \cup T, k)
  BY DEF Contiguous
<1>2. CASE k <= Largest(a).key BY <1>2 DEF Covers
<1>3. CASE Smallest(b).key <= k BY <1>3 DEF Covers
<1>4. CASE Largest(a).key < k /\ k < Smallest(b).key
  <2>1. \E f \in S : Smallest(f).key <= k
    <3>1. CASE a \in S BY <3>1
    <3>2. CASE a \in T
      <4>1. PICK l \in Int : Covers(S, l) /\ Covers({a}, l) BY <3>2
      <4>2. l <= Largest(a).key BY <4>1 DEF Covers
      <4>3. PICK f \in S : Smallest(f).key <= l BY <4>1 DEF Covers
      <4>4. Smallest(f).key <= k BY <1>1, <1>4, <4>2, <4>3
      <4> QED BY <4>4
    <3> QED BY <3>1, <3>2
  <2>2. \E f \in S : k <= Largest(f).key
    <3>1. CASE b \in S BY <3>1
    <3>2. CASE b \in T
      <4>1. PICK l \in Int : Covers(S, l) /\ Covers({b}, l) BY <3>2
      <4>2. Smallest(b).key <= l BY <4>1 DEF Covers
      <4>3. PICK f \in S : l <= Largest(f).key BY <4>1 DEF Covers
      <4>4. k <= Largest(f).key BY <1>1, <1>4, <4>2, <4>3
      <4> QED BY <4>4
    <3> QED BY <3>1, <3>2
  <2>3. Covers(S, k) BY <2>1, <2>2 DEF Contiguous
  <2> QED BY <2>3 DEF Covers
<1> QED BY <1>1, <1>2, <1>3, <1>4

-----------------------------------------------------------------------------
(* Files by their smallest key.                                             *)

\* BySmallestKey, as a relation.
SmallestR == {p \in Table \X Table : BySmallestKey(p[1], p[2])}

\* No two files of the set have the same number.
Numbered(S) == \A f, g \in S : f.number = g.number => f = g

\* BySmallestKey orders files with numbers of their own.
LEMMA BySmallestKeyStrict ==
    ASSUME NEW S \in SUBSET Table, Numbered(S)
    PROVE  StrictOrder(S, SmallestR)
<1>1. \A f, g \in S : <<f, g>> \in SmallestR <=> BySmallestKey(f, g) BY DEF SmallestR
<1>2. \A f \in S : Smallest(f) \in Entry /\ f.number \in Nat BY TableEnds, TableIs
<1>3. \A f \in S : <<f, f>> \notin SmallestR BY <1>1, <1>2, BeforeOrder DEF BySmallestKey
<1>4. \A f, g, h \in S :
        <<f, g>> \in SmallestR /\ <<g, h>> \in SmallestR => <<f, h>> \in SmallestR
  <2> SUFFICES ASSUME NEW f \in S, NEW g \in S, NEW h \in S,
                      BySmallestKey(f, g), BySmallestKey(g, h)
               PROVE  BySmallestKey(f, h)
    BY <1>1
  <2>1. PICK a \in Entry, b \in Entry, c \in Entry :
            a = Smallest(f) /\ b = Smallest(g) /\ c = Smallest(h)
    BY <1>2
  <2>2. PICK l \in Nat, m \in Nat, n \in Nat : l = f.number /\ m = g.number /\ n = h.number
    BY <1>2
  <2>3. Before(a, b) \/ (a = b /\ l < m) BY <2>1, <2>2 DEF BySmallestKey
  <2>4. Before(b, c) \/ (b = c /\ m < n) BY <2>1, <2>2 DEF BySmallestKey
  <2>5. Before(a, b) /\ Before(b, c) => Before(a, c) BY BeforeOrder
  <2>6. Before(a, c) \/ (a = c /\ l < n) BY <2>3, <2>4, <2>5
  <2> QED BY <2>1, <2>2, <2>6 DEF BySmallestKey
<1>5. \A f, g \in S : f = g \/ <<f, g>> \in SmallestR \/ <<g, f>> \in SmallestR
  <2> SUFFICES ASSUME NEW f \in S, NEW g \in S, f # g
               PROVE  BySmallestKey(f, g) \/ BySmallestKey(g, f)
    BY <1>1
  <2>1. f.number < g.number \/ g.number < f.number BY <1>2 DEF Numbered
  <2>2. Smallest(f) = Smallest(g) \/ Before(Smallest(f), Smallest(g)) \/ Before(Smallest(g), Smallest(f))
    BY <1>2, BeforeOrder
  <2> QED BY <2>1, <2>2 DEF BySmallestKey
<1> QED BY <1>3, <1>4, <1>5 DEF StrictOrder

\* The files of a set in this order.
LEMMA SortedFiles ==
    ASSUME NEW S \in SUBSET Table, Numbered(S), IsFiniteSet(S)
    PROVE  /\ Sorted(S, BySmallestKey) \in Seq(Table)
           /\ ToSet(Sorted(S, BySmallestKey)) = S
           /\ \A i, j \in DOMAIN Sorted(S, BySmallestKey) :
                i < j => BySmallestKey(Sorted(S, BySmallestKey)[i], Sorted(S, BySmallestKey)[j])
<1>1. PICK q : q = Ranked(S, SmallestR) OBVIOUS
<1>2. \A x \in S : Rank(S, SmallestR, x) = Cardinality({y \in S : BySmallestKey(y, x)})
  <2> TAKE x \in S
  <2>1. {y \in S : <<y, x>> \in SmallestR} = {y \in S : BySmallestKey(y, x)} BY DEF SmallestR
  <2> QED BY <2>1 DEF Rank
<1>3. Sorted(S, BySmallestKey) = q
  <2>1. \A i : (CHOOSE x \in S : Rank(S, SmallestR, x) = i - 1)
                = (CHOOSE x \in S : Cardinality({y \in S : BySmallestKey(y, x)}) = i - 1)
    BY <1>2
  <2>2. Sorted(S, BySmallestKey) = [i \in 1 .. Cardinality(S) |->
            CHOOSE x \in S : Cardinality({y \in S : BySmallestKey(y, x)}) = i - 1]
    BY DEF Sorted
  <2>3. Ranked(S, SmallestR) = [i \in 1 .. Cardinality(S) |->
            CHOOSE x \in S : Cardinality({y \in S : BySmallestKey(y, x)}) = i - 1]
    BY <2>1 DEF Ranked
  <2> QED BY <1>1, <2>2, <2>3
<1>4. PICK n \in Nat : n = Cardinality(S) BY FS_CardinalityType
<1>5. /\ q \in [1 .. n -> S]
      /\ \A x \in S : \E i \in 1 .. n : q[i] = x
      /\ \A i, j \in 1 .. n : i < j => <<q[i], q[j]>> \in SmallestR
  BY <1>1, <1>4, BySmallestKeyStrict, RankedIs
<1>6. q \in Seq(Table) /\ DOMAIN q = 1 .. n BY <1>4, <1>5
<1>7. ToSet(q) = S BY <1>5, <1>6 DEF ToSet
<1>8. \A i, j \in 1 .. n : i < j => BySmallestKey(q[i], q[j]) BY <1>5 DEF SmallestR
<1> QED BY <1>3, <1>6, <1>7, <1>8

-----------------------------------------------------------------------------
(* AddBoundaryInputs.                                                       *)

\* The file continues the last user key of the files.
Continues(files, f) ==
    /\ Before(Largest(GetRange(files)), Smallest(f))
    /\ Smallest(f).key = Largest(GetRange(files)).key

\* Append adds one element.
LEMMA Appended ==
    ASSUME NEW S, NEW s \in Seq(S), NEW e \in S
    PROVE  /\ Append(s, e) \in Seq(S) /\ Append(s, e) # <<>>
           /\ ToSet(Append(s, e)) = ToSet(s) \cup {e}
<1>1. PICK l \in Nat : l = Len(s) /\ DOMAIN s = 1 .. l OBVIOUS
<1>2. PICK t : t = Append(s, e) OBVIOUS
<1>3. t \in Seq(S) /\ DOMAIN t = 1 .. l + 1 BY <1>1, <1>2
<1>4. t[l + 1] = e /\ \A i \in 1 .. l : t[i] = s[i] BY <1>1, <1>2
<1>5. ToSet(t) = ToSet(s) \cup {e}
  <2>1. \A i \in 1 .. l + 1 : i \in 1 .. l \/ i = l + 1 OBVIOUS
  <2>2. ToSet(t) \subseteq ToSet(s) \cup {e} BY <1>1, <1>3, <1>4, <2>1 DEF ToSet
  <2>3. \A i \in 1 .. l : i \in 1 .. l + 1 /\ t[i] = s[i] BY <1>4
  <2>4. ToSet(s) \subseteq ToSet(t) BY <1>1, <1>3, <2>3 DEF ToSet
  <2>5. l + 1 \in 1 .. l + 1 OBVIOUS
  <2>6. e \in ToSet(t) BY <1>3, <1>4, <2>5 DEF ToSet
  <2> QED BY <2>2, <2>4, <2>6
<1>6. t # <<>> BY <1>3
<1> QED BY <1>2, <1>3, <1>5, <1>6

\* Files of which no two overlap.
Apart(F) ==
    \A f, g \in F :
        f = g \/ Before(Largest(f), Smallest(g)) \/ Before(Largest(g), Smallest(f))

\* No file of F lies between two of S.
Unbroken(F, S) ==
    \A f \in F : \A g, h \in S :
        Before(Largest(g), Smallest(f)) /\ Before(Largest(f), Smallest(h)) => f \in S

\* The comparisons of the ends of two files, and of three.
LEMMA FileOrder ==
    ASSUME NEW f \in Table, NEW g \in Table, Before(Largest(f), Smallest(g))
    PROVE  /\ Before(Smallest(f), Smallest(g)) /\ Before(Largest(f), Largest(g))
           /\ Before(Smallest(f), Largest(g))
           /\ ~Before(Largest(g), Smallest(f)) /\ f # g
           /\ \A d \in f.entries : \A e \in g.entries : Before(d, e)
           /\ Largest(f).key <= Smallest(g).key
<1>1. PICK a, b \in Entry : a = Smallest(f) /\ b = Largest(f) BY TableEnds
<1>2. PICK c, d \in Entry : c = Smallest(g) /\ d = Largest(g) BY TableEnds
<1>3. a = b \/ Before(a, b) BY <1>1, TableEnds
<1>4. c = d \/ Before(c, d) BY <1>2, TableEnds
<1>5. Before(b, c) BY <1>1, <1>2
<1>6. Before(a, c) /\ Before(b, d) BY <1>3, <1>4, <1>5, BeforeOrder
<1>7. Before(a, d) BY <1>3, <1>6, BeforeOrder
<1>8. ~Before(d, a) BY <1>7, BeforeOrder
<1>9. f # g BY <1>1, <1>2, <1>6, BeforeOrder
<1>10. \A x \in f.entries : \A y \in g.entries : Before(x, y)
  <2> TAKE x \in f.entries
  <2> TAKE y \in g.entries
  <2>1. x \in Entry /\ y \in Entry BY TableEnds
  <2>2. x = b \/ Before(x, b) BY <1>1, TableEnds
  <2>3. y = c \/ Before(c, y) BY <1>2, TableEnds
  <2>4. Before(x, c) BY <1>5, <2>1, <2>2, BeforeOrder
  <2> QED BY <2>1, <2>3, <2>4, BeforeOrder
<1>11. b.key <= c.key
  <2>1. b.key \in Int /\ c.key \in Int BY DEF Entry, Key
  <2> QED BY <1>5, <2>1 DEF Before
<1> QED BY <1>1, <1>2, <1>6, <1>7, <1>8, <1>9, <1>10, <1>11

\* The next boundary file leaves no gap.
LEMMA BoundaryUnbroken ==
    ASSUME NEW F \in SUBSET Table, Apart(F), NEW s \in Seq(Table), s # <<>>,
           ToSet(s) \subseteq F, Unbroken(F, ToSet(s)), NEW b \in F, Continues(s, b),
           \A f \in F : Continues(s, f) /\ f # b => BySmallestKey(b, f)
    PROVE  Unbroken(F, ToSet(s) \cup {b})
<1> SUFFICES ASSUME NEW f \in F, NEW g \in ToSet(s) \cup {b}, NEW h \in ToSet(s) \cup {b},
                    Before(Largest(g), Smallest(f)), Before(Largest(f), Smallest(h)),
                    f \notin ToSet(s) \cup {b}
             PROVE  FALSE
  BY DEF Unbroken
<1>1. f \in Table /\ g \in Table /\ h \in Table /\ b \in Table OBVIOUS
<1>2. PICK top \in ToSet(s) : Largest(GetRange(s)) = Largest(top) BY RangeIs
<1>3. top \in Table OBVIOUS
<1>4. PICK e \in Entry : e = Largest(top) BY <1>3, TableEnds
<1>5. Before(e, Smallest(b)) /\ Smallest(b).key = e.key BY <1>2, <1>4 DEF Continues
<1>6. CASE h = b
  <2>1. PICK x, y \in Entry : x = Smallest(f) /\ y = Smallest(b) BY <1>1, TableEnds
  <2>2. Before(x, y) BY <1>1, <1>6, <2>1, FileOrder
  <2>3. f # top BY <1>2
  <2>4. CASE Before(Largest(f), Smallest(top))
    <3>1. g # b
      <4>1. ASSUME g = b PROVE FALSE
        <5>1. Before(Largest(b), Smallest(f)) /\ Before(Largest(f), Smallest(b)) BY <1>6, <4>1
        <5> QED BY <1>1, <5>1, FileOrder
      <4> QED BY <4>1
    <3>2. g \in ToSet(s) BY <3>1
    <3> QED BY <1>2, <2>4, <3>2 DEF Unbroken
  <2>5. CASE Before(Largest(top), Smallest(f))
    <3>1. Before(e, x) /\ Before(x, y) /\ y.key = e.key BY <1>4, <1>5, <2>1, <2>2, <2>5
    <3>2. x.key \in Int /\ y.key \in Int /\ e.key \in Int BY DEF Entry, Key
    <3>3. x.key = e.key BY <3>1, <3>2 DEF Before
    <3>4. Continues(s, f) BY <1>2, <1>4, <2>1, <3>1, <3>3 DEF Continues
    <3>5. BySmallestKey(b, f) BY <3>4
    <3>6. Before(y, x) \/ y = x BY <2>1, <3>5 DEF BySmallestKey
    <3> QED BY <2>2, <3>6, BeforeOrder
  <2> QED BY <1>2, <2>3, <2>4, <2>5 DEF Apart
<1>7. CASE h # b
  <2>1. h \in ToSet(s) BY <1>7
  <2>2. g # b
    <3>1. ASSUME g = b PROVE FALSE
      <4>1. PICK x, y, z, t \in Entry :
                x = Smallest(b) /\ y = Largest(b) /\ z = Smallest(h) /\ t = Largest(h)
        BY <1>1, TableEnds
      <4>2. Before(y, z)
        <5>1. Before(y, Smallest(f)) /\ Before(Smallest(f), z)
          BY <1>1, <3>1, <4>1, FileOrder
        <5>2. Smallest(f) \in Entry BY <1>1, TableEnds
        <5> QED BY <5>1, <5>2, BeforeOrder
      <4>3. x = y \/ Before(x, y) BY <1>1, <4>1, TableEnds
      <4>4. z = t \/ Before(z, t) BY <1>1, <4>1, TableEnds
      <4>5. t = e \/ Before(t, e)
        <5>1. t \in h.entries BY <1>1, <4>1, TableEnds
        <5>2. t \in Entries(s) BY <2>1, <5>1 DEF Entries
        <5> QED BY <1>2, <1>4, <5>2, RangeIs
      <4>6. Before(x, z) BY <4>2, <4>3, BeforeOrder
      <4>7. Before(x, t) BY <4>4, <4>6, BeforeOrder
      <4>8. Before(x, e) BY <4>5, <4>7, BeforeOrder
      <4> QED BY <1>5, <4>1, <4>8, BeforeOrder
    <3> QED BY <3>1
  <2>3. g \in ToSet(s) BY <2>2
  <2> QED BY <2>1, <2>3 DEF Unbroken
<1> QED BY <1>6, <1>7

\* AddBoundaryInputs: the inputs grow until no file continues their last user
\* key; they stay in one piece with whatever they were in one piece with, and
\* they leave no gap in a level whose files do not overlap.
LEMMA AddBoundaryInputsIs ==
    ASSUME NEW level_files \in Seq(Table), Numbered(ToSet(level_files)),
           NEW compaction_files \in Seq(Table), compaction_files # <<>>,
           ToSet(compaction_files) \subseteq ToSet(level_files),
           NEW X \in SUBSET Table
    PROVE  LET R == AddBoundaryInputs(level_files, compaction_files)
           IN  /\ R \in Seq(Table) /\ R # <<>>
               /\ ToSet(compaction_files) \subseteq ToSet(R)
               /\ ToSet(R) \subseteq ToSet(level_files)
               /\ \A f \in ToSet(level_files) : ~Continues(R, f)
               /\ Contiguous(X \cup ToSet(compaction_files)) => Contiguous(X \cup ToSet(R))
               /\ (\A f \in ToSet(level_files) : ~Continues(compaction_files, f))
                    => R = compaction_files
               /\ Apart(ToSet(level_files)) /\ Unbroken(ToSet(level_files), ToSet(compaction_files))
                    => Unbroken(ToSet(level_files), ToSet(R))
<1> DEFINE
    boundary(files) ==
            LET largest_key == Largest(GetRange(files))
            IN  {f \in ToSet(level_files) :
                    /\ Before(largest_key, Smallest(f))
                    /\ Smallest(f).key = largest_key.key}
    first(fs) == CHOOSE f \in fs : \A g \in fs \ {f} : BySmallestKey(f, g)
    Grows(g) == g = [n \in 0 .. Len(level_files) |->
            IF n = 0 THEN compaction_files
            ELSE LET files == g[n - 1]
                     next == boundary(files)
                 IN  IF next = {} THEN files ELSE Append(files, first(next))]
    result == (CHOOSE g : Grows(g))[Len(level_files)]
<1>0. AddBoundaryInputs(level_files, compaction_files) = result BY DEF AddBoundaryInputs
<1>1. PICK N \in Nat : N = Len(level_files) BY ElementsOf
<1>2. PICK F : F = ToSet(level_files) OBVIOUS
<1>3. F \in SUBSET Table /\ IsFiniteSet(F) /\ Cardinality(F) <= N /\ Cardinality(F) \in Nat
  BY <1>1, <1>2, ElementsOf, FS_CardinalityType
<1>4. \A s : boundary(s) = {f \in F : Continues(s, f)} BY <1>2 DEF Continues
<1> HIDE DEF boundary
<1>5. ASSUME NEW B \in SUBSET F, B # {}
      PROVE  first(B) \in B /\ \A g \in B \ {first(B)} : BySmallestKey(first(B), g)
  <2>1. IsFiniteSet(B) /\ B \in SUBSET Table BY <1>3, FS_Subset
  <2>2. Numbered(B) BY <1>2 DEF Numbered
  <2>3. PICK f \in B : \A g \in B \ {f} : <<f, g>> \in SmallestR
    <3>1. StrictOrder(B, SmallestR) BY <2>1, <2>2, BySmallestKeyStrict
    <3>2. IsFiniteSet(B) /\ B # {} BY <1>5, <2>1
    <3> QED BY ONLY <3>1, <3>2, FirstOf
  <2>4. \A g \in B \ {f} : BySmallestKey(f, g) BY <2>3 DEF SmallestR
  <2> QED BY <2>4
<1> HIDE DEF first
<1>6. PICK P : P = {s \in Seq(Table) : s # <<>> /\ ToSet(s) \subseteq F} OBVIOUS
<1>7. PICK step : step = [s \in P |-> IF boundary(s) = {} THEN s ELSE Append(s, first(boundary(s)))]
  OBVIOUS
<1>8. ASSUME NEW s \in P
      PROVE  /\ s \in Seq(Table) /\ s # <<>> /\ ToSet(s) \subseteq F
             /\ step[s] \in P
             /\ boundary(s) = {} => step[s] = s
             /\ boundary(s) # {} => \E f \in F :
                    /\ Continues(s, f) /\ ToSet(step[s]) = ToSet(s) \cup {f}
                    /\ \A g \in F : Continues(s, g) /\ g # f => BySmallestKey(f, g)
  <2>1. s \in Seq(Table) /\ s # <<>> /\ ToSet(s) \subseteq F BY <1>6
  <2>2. CASE boundary(s) = {} BY <1>7, <2>1, <2>2
  <2>3. CASE boundary(s) # {}
    <3>1. PICK B : B = boundary(s) OBVIOUS
    <3>2. B \in SUBSET F /\ B # {} BY <1>4, <2>3, <3>1
    <3>3. PICK f : f = first(B) OBVIOUS
    <3>4. f \in B /\ f \in F /\ Continues(s, f) BY <1>4, <1>5, <3>1, <3>2, <3>3
    <3>5. step[s] = Append(s, f) BY <1>7, <2>3, <3>1, <3>3
    <3>6. f \in Table BY <1>3, <3>4
    <3>7. /\ Append(s, f) \in Seq(Table) /\ Append(s, f) # <<>>
          /\ ToSet(Append(s, f)) = ToSet(s) \cup {f}
      BY <2>1, <3>6, Appended
    <3>8. step[s] \in P BY <1>6, <2>1, <3>4, <3>5, <3>7
    <3>9. \A g \in F : Continues(s, g) /\ g # f => BySmallestKey(f, g)
      <4>1. \A g \in B \ {f} : BySmallestKey(f, g) BY <1>5, <3>2, <3>3
      <4> QED BY <1>4, <3>1, <4>1
    <3> QED BY <2>1, <2>3, <3>4, <3>5, <3>7, <3>8, <3>9
  <2> QED BY <2>2, <2>3
<1>9. compaction_files \in P BY <1>2, <1>6
<1>10. \E g : Grows(g)
  <2>1. PICK h : h = [p \in Nat \X P |-> step[p[2]]] OBVIOUS
  <2>2. h \in [Nat \X P -> P] BY <1>8, <2>1
  <2>3. PICK g : Recurs(P, compaction_files, h, N, g)
    <3>1. compaction_files \in P /\ N \in Nat BY <1>1, <1>9
    <3> QED BY ONLY <3>1, <2>2, Recursive
  <2>4. \A n \in 0 .. N : g[n] = IF n = 0 THEN compaction_files
                                 ELSE IF boundary(g[n - 1]) = {} THEN g[n - 1]
                                 ELSE Append(g[n - 1], first(boundary(g[n - 1])))
    <3> TAKE n \in 0 .. N
    <3>1. CASE n = 0 BY <2>3, <3>1 DEF Recurs
    <3>2. CASE n # 0
      <4>1. n - 1 \in 0 .. N /\ n \in Nat BY <1>1, <3>2
      <4>2. g[n - 1] \in P BY <2>3, <4>1 DEF Recurs
      <4>3. <<n, g[n - 1]>> \in Nat \X P BY <4>1, <4>2
      <4>4. h[<<n, g[n - 1]>>] = step[g[n - 1]] BY <2>1, <4>3
      <4>5. g[n] = step[g[n - 1]] BY <2>3, <3>2, <4>4 DEF Recurs
      <4> QED BY <1>7, <3>2, <4>2, <4>5
    <3> QED BY <3>1, <3>2
  <2>5. g = [n \in 0 .. N |-> g[n]] BY <2>3 DEF Recurs
  <2>6. g = [n \in 0 .. N |-> IF n = 0 THEN compaction_files
                                 ELSE IF boundary(g[n - 1]) = {} THEN g[n - 1]
                                 ELSE Append(g[n - 1], first(boundary(g[n - 1])))]
    BY <2>4, <2>5
  <2>7. Grows(g) BY <1>1, <2>6
  <2> QED BY <2>7
<1>11. PICK grow : grow = CHOOSE g : Grows(g) OBVIOUS
<1>12. Grows(grow)
  <2> HIDE DEF Grows
  <2> QED BY <1>10, <1>11
<1>13. \A n \in 0 .. N : grow[n] = IF n = 0 THEN compaction_files
                                 ELSE IF boundary(grow[n - 1]) = {} THEN grow[n - 1]
                                 ELSE Append(grow[n - 1], first(boundary(grow[n - 1])))
  <2>1. grow = [n \in 0 .. N |-> IF n = 0 THEN compaction_files
                                 ELSE IF boundary(grow[n - 1]) = {} THEN grow[n - 1]
                                 ELSE Append(grow[n - 1], first(boundary(grow[n - 1])))]
    BY <1>1, <1>12
  <2> QED BY <2>1
<1>14. AddBoundaryInputs(level_files, compaction_files) = grow[N] BY <1>0, <1>1, <1>11
<1> HIDE DEF Grows, result
<1> DEFINE Good(s, n) ==
        /\ s \in P
        /\ ToSet(compaction_files) \subseteq ToSet(s)
        /\ Contiguous(X \cup ToSet(compaction_files)) => Contiguous(X \cup ToSet(s))
        /\ boundary(compaction_files) = {} => s = compaction_files
        /\ boundary(s) = {} \/ Cardinality(ToSet(s)) > n
        /\ Apart(F) /\ Unbroken(F, ToSet(compaction_files)) => Unbroken(F, ToSet(s))
<1>15. Good(compaction_files, 0)
  <2>1. PICK S : S = ToSet(compaction_files) OBVIOUS
  <2>2. IsFiniteSet(S) /\ S # {} BY <2>1, ElementsOf
  <2>3. Cardinality(S) \in Nat /\ Cardinality(S) # 0 BY <2>2, FS_EmptySet, FS_CardinalityType
  <2>4. Cardinality(S) > 0 BY <2>3
  <2> QED BY <1>9, <2>1, <2>4
<1>16. ASSUME NEW s \in P, NEW n \in Nat, Good(s, n)
       PROVE  Good(step[s], n + 1)
  <2>0. s \in Seq(Table) /\ s # <<>> /\ ToSet(s) \subseteq F /\ step[s] \in P BY <1>8
  <2>1. CASE boundary(s) = {}
    <3>1. step[s] = s BY <1>8, <2>1
    <3> QED BY <1>16, <2>1, <3>1
  <2>2. CASE boundary(s) # {}
    <3>1. PICK f \in F :
                /\ Continues(s, f) /\ ToSet(step[s]) = ToSet(s) \cup {f}
                /\ \A g \in F : Continues(s, g) /\ g # f => BySmallestKey(f, g)
      BY <1>8, <2>2
    <3>2. f \in Table BY <1>3
    <3>3. PICK e : e = Largest(GetRange(s)) OBVIOUS
    <3>4. e \in Entry /\ e.key \in Int
      <4>1. e \in Entry BY <2>0, <3>3, RangeIs
      <4> QED BY <4>1 DEF Entry, Key
    <3>5. PICK g \in ToSet(s) : e = Largest(g) BY <2>0, <3>3, RangeIs
    <3>6. g \in Table BY <1>3, <2>0
    <3>7. Before(e, Smallest(f)) /\ Smallest(f).key = e.key BY <3>1, <3>3 DEF Continues
    <3>8. f \notin ToSet(s)
      <4>1. ASSUME f \in ToSet(s) PROVE FALSE
        <5>1. Smallest(f) \in f.entries /\ Smallest(f) \in Entry BY <3>2, TableEnds
        <5>2. Smallest(f) \in Entries(s) BY <4>1, <5>1 DEF Entries
        <5>3. Smallest(f) = e \/ Before(Smallest(f), e) BY <2>0, <3>3, <5>2, RangeIs
        <5> QED BY <3>4, <3>7, <5>1, <5>3, BeforeOrder
      <4> QED BY <4>1
    <3>9. Cardinality(ToSet(step[s])) > n + 1
      <4>1. PICK S : S = ToSet(s) OBVIOUS
      <4>2. IsFiniteSet(S) /\ Cardinality(S) \in Nat BY <2>0, <4>1, ElementsOf, FS_CardinalityType
      <4>30. f \notin S /\ IsFiniteSet(S) BY <3>8, <4>1, <4>2
      <4>3. Cardinality(S \cup {f}) = Cardinality(S) + 1 BY ONLY <4>30, FS_AddElement
      <4>4. Cardinality(S) > n BY <1>16, <2>2, <4>1
      <4> QED BY <3>1, <4>1, <4>2, <4>3, <4>4
    <3>10. ASSUME Contiguous(X \cup ToSet(compaction_files))
           PROVE  Contiguous((X \cup ToSet(s)) \cup {f})
      <4>1. X \cup ToSet(s) \subseteq Table BY <1>3, <2>0
      <4>2. Covers(X \cup ToSet(s), e.key)
        <5>1. Smallest(g).key <= e.key /\ e.key <= Largest(g).key BY <3>4, <3>5, <3>6, TableEnds
        <5> QED BY <3>5, <5>1 DEF Covers
      <4>3. Covers({f}, e.key)
        <5>1. Smallest(f).key <= e.key /\ e.key <= Largest(f).key BY <3>2, <3>4, <3>7, TableEnds
        <5> QED BY <5>1 DEF Covers
      <4>4. Contiguous(X \cup ToSet(s)) BY <1>16, <3>10
      <4>5. \A h \in {f} : \E k \in Int : Covers(X \cup ToSet(s), k) /\ Covers({h}, k)
        BY <3>4, <4>2, <4>3
      <4>6. {f} \subseteq Table BY <3>2
      <4> QED BY ONLY <4>1, <4>4, <4>5, <4>6, ContiguousJoin
    <3>11. Contiguous(X \cup ToSet(compaction_files)) => Contiguous(X \cup ToSet(step[s]))
      <4>1. X \cup ToSet(step[s]) = (X \cup ToSet(s)) \cup {f} BY <3>1
      <4> QED BY <3>10, <4>1
    <3>12. ToSet(compaction_files) \subseteq ToSet(step[s]) BY <1>16, <3>1
    <3>13. boundary(compaction_files) # {} BY <1>16, <2>2
    <3>14. Apart(F) /\ Unbroken(F, ToSet(compaction_files)) => Unbroken(F, ToSet(step[s]))
      <4> HAVE Apart(F) /\ Unbroken(F, ToSet(compaction_files))
      <4>1. Unbroken(F, ToSet(s)) BY <1>16
      <4>2. Unbroken(F, ToSet(s) \cup {f}) BY ONLY Apart(F), <1>3, <2>0, <3>1, <4>1, BoundaryUnbroken
      <4> QED BY <3>1, <4>2
    <3> QED BY <2>0, <3>9, <3>11, <3>12, <3>13, <3>14
  <2> QED BY <2>1, <2>2
<1> HIDE DEF Good
<1>17. PICK T : T = {n \in 0 .. N : grow[n] \in P /\ Good(grow[n], n)} OBVIOUS
<1>18. T = 0 .. N
  <2>1. 0 \in T BY <1>1, <1>9, <1>13, <1>15, <1>17
  <2>2. \A n \in 0 .. N - 1 : n \in T => n + 1 \in T
    <3> TAKE n \in 0 .. N - 1
    <3>1. n + 1 \in 0 .. N /\ n + 1 # 0 /\ n + 1 - 1 = n /\ n \in Nat BY <1>1
    <3>2. grow[n] \in P => grow[n + 1] = step[grow[n]]
      <4>1. grow[n + 1] = IF boundary(grow[n]) = {} THEN grow[n]
                          ELSE Append(grow[n], first(boundary(grow[n])))
        <5>1. PICK m \in 0 .. N : m = n + 1 /\ m # 0 /\ m - 1 = n BY <3>1
        <5>2. grow[m] = IF m = 0 THEN compaction_files
                        ELSE IF boundary(grow[m - 1]) = {} THEN grow[m - 1]
                        ELSE Append(grow[m - 1], first(boundary(grow[m - 1])))
          BY <1>13
        <5> QED BY <5>1, <5>2
      <4>2. grow[n] \in P =>
                step[grow[n]] = IF boundary(grow[n]) = {} THEN grow[n]
                                ELSE Append(grow[n], first(boundary(grow[n])))
        BY <1>7
      <4> QED BY <4>1, <4>2
    <3>3. n \in T => Good(step[grow[n]], n + 1) /\ step[grow[n]] \in P BY <1>8, <1>16, <1>17, <3>1
    <3> QED BY <1>17, <3>1, <3>2, <3>3
  <2> QED BY <1>1, <1>17, <2>1, <2>2, AlongIt
<1>19. PICK R : R = grow[N] OBVIOUS
<1>20. R \in P /\ Good(R, N)
  <2>1. N \in T BY <1>1, <1>18
  <2> QED BY <1>17, <1>19, <2>1
<1>21. R \in Seq(Table) /\ R # <<>> /\ ToSet(R) \subseteq F BY <1>8, <1>20
<1>22. boundary(R) = {}
  <2>1. IsFiniteSet(ToSet(R)) /\ Cardinality(ToSet(R)) <= Cardinality(F) /\ Cardinality(ToSet(R)) \in Nat
    BY <1>3, <1>21, FS_Subset, FS_CardinalityType
  <2>2. ~(Cardinality(ToSet(R)) > N) BY <1>1, <1>3, <2>1
  <2> QED BY <1>20, <2>2 DEF Good
<1>23. \A f \in F : ~Continues(R, f) BY <1>4, <1>22
<1>24. (\A f \in F : ~Continues(compaction_files, f)) => R = compaction_files
  <2>1. (\A f \in F : ~Continues(compaction_files, f)) => boundary(compaction_files) = {} BY <1>4
  <2> QED BY <1>20, <2>1 DEF Good
<1> QED BY <1>2, <1>14, <1>19, <1>20, <1>21, <1>23, <1>24 DEF Good

-----------------------------------------------------------------------------
(* SetupOtherInputs.                                                        *)

\* The files of every level, no number twice in a level.
VersionOK(v) ==
    /\ v \in [Level -> Seq(Table)]
    /\ \A level \in Level : Numbered(ToSet(v[level]))

\* The file touches the range of the files.
Touches(files, f) ==
    ~Outside(Smallest(GetRange(files)).key, Largest(GetRange(files)).key, f)

\* The files found for a range that a contiguous set spans join it.
LEMMA FoundContiguous ==
    ASSUME NEW v \in [Level -> Seq(Table)], NEW level \in Level,
           NEW low \in Int, NEW high \in Int, low <= high,
           NEW lo \in Int, NEW hi \in Int, FoundIn(v, level, low, high, lo, hi),
           NEW S \in SUBSET Table, Contiguous(S),
           \E f \in S : Smallest(f).key <= low, \E f \in S : high <= Largest(f).key
    PROVE  Contiguous(S \cup ToSet(GetOverlappingInputs(v, level, low, high)))
<1>1. PICK F : F = ToSet(GetOverlappingInputs(v, level, low, high)) OBVIOUS
<1>2. PICK a0 \in S : Smallest(a0).key <= low OBVIOUS
<1>3. PICK b0 \in S : high <= Largest(b0).key OBVIOUS
<1>4. /\ F = {f \in ToSet(v[level]) : ~Outside(lo, hi, f)}
      /\ lo <= low /\ high <= hi
      /\ \A k \in lo .. hi : k \in low .. high \/ Covers(F, k)
  BY <1>1 DEF FoundIn
<1>5. ToSet(v[level]) \subseteq Table BY ElementsOf
<1>6. \A f \in S \cup F : /\ Smallest(f).key \in Int /\ Largest(f).key \in Int
                          /\ Smallest(f).key <= Largest(f).key
  BY <1>4, <1>5, TableEnds
<1>7. \A f \in F : lo <= Largest(f).key /\ Smallest(f).key <= hi
  BY <1>4, <1>5, OutsideIs
<1>8. \A k \in low .. high : Covers(S, k)
  <2> TAKE k \in low .. high
  <2>1. Smallest(a0).key <= k /\ k <= Largest(b0).key BY <1>2, <1>3, <1>6
  <2> QED BY <1>2, <1>3, <2>1 DEF Contiguous
<1> SUFFICES ASSUME NEW k \in Int, NEW a \in S \cup F, NEW b \in S \cup F,
                    Smallest(a).key <= k, k <= Largest(b).key
             PROVE  Covers(S \cup F, k)
  BY <1>1 DEF Contiguous
<1>9. CASE k \in lo .. hi BY <1>4, <1>8, <1>9 DEF Covers
<1>10. CASE k < lo
  <2>1. CASE a \in F
    <3>1. k <= Largest(a).key BY <1>6, <1>7, <1>10, <2>1
    <3> QED BY <3>1 DEF Covers
  <2>2. CASE a \in S
    <3>1. k <= Largest(b0).key BY <1>3, <1>4, <1>6, <1>10
    <3>2. Covers(S, k) BY <1>3, <2>2, <3>1 DEF Contiguous
    <3> QED BY <3>2 DEF Covers
  <2> QED BY <2>1, <2>2
<1>11. CASE k > hi
  <2>1. CASE b \in F
    <3>1. Smallest(b).key <= k BY <1>6, <1>7, <1>11, <2>1
    <3> QED BY <3>1 DEF Covers
  <2>2. CASE b \in S
    <3>1. Smallest(a0).key <= k BY <1>2, <1>4, <1>6, <1>11
    <3>2. Covers(S, k) BY <1>2, <2>2, <3>1 DEF Contiguous
    <3> QED BY <3>2 DEF Covers
  <2> QED BY <2>1, <2>2
<1> QED BY <1>9, <1>10, <1>11

\* In level 0 the files found have all that touch them.
LEMMA FoundClosed ==
    ASSUME NEW v \in [Level -> Seq(Table)], NEW level \in Level, level = 0,
           NEW low \in Key, NEW high \in Key, low <= high,
           NEW lo \in Key, NEW hi \in Key, FoundIn(v, level, low, high, lo, hi),
           GetOverlappingInputs(v, level, low, high) # <<>>
    PROVE  \A f \in ToSet(v[level]) :
                Touches(GetOverlappingInputs(v, level, low, high), f)
                    => f \in ToSet(GetOverlappingInputs(v, level, low, high))
<1>1. PICK R : R = GetOverlappingInputs(v, level, low, high) OBVIOUS
<1>2. R \in Seq(Table) /\ R # <<>> BY <1>1, GetOverlappingInputsIs
<1>3. lo \in Int /\ hi \in Int BY DEF Key
<1>4. /\ ToSet(R) = {f \in ToSet(v[level]) : ~Outside(lo, hi, f)}
      /\ \A f \in ToSet(R) : lo <= Smallest(f).key /\ Largest(f).key <= hi
  BY <1>1 DEF FoundIn
<1> SUFFICES ASSUME NEW f \in ToSet(v[level]), Touches(R, f) PROVE f \in ToSet(R)
  BY <1>1
<1>5. PICK l, h : l = Smallest(GetRange(R)).key /\ h = Largest(GetRange(R)).key OBVIOUS
<1>6. l \in Int /\ h \in Int BY <1>2, <1>5, RangeIs DEF Key
<1>7. lo <= l /\ h <= hi
  <2>1. PICK g \in ToSet(R) : l = Smallest(g).key BY <1>2, <1>5, RangeIs
  <2>2. PICK k \in ToSet(R) : Largest(GetRange(R)) = Largest(k) BY <1>2, RangeIs
  <2> QED BY <1>4, <1>5, <2>1, <2>2
<1>8. f \in Table BY ElementsOf
<1>9. l <= Largest(f).key /\ Smallest(f).key <= h BY <1>5, <1>6, <1>8, OutsideIs DEF Touches
<1>10. Smallest(f).key \in Int /\ Largest(f).key \in Int BY <1>8, TableEnds
<1>11. lo <= Largest(f).key /\ Smallest(f).key <= hi BY <1>3, <1>6, <1>7, <1>9, <1>10
<1>12. ~Outside(lo, hi, f) BY <1>3, <1>8, <1>11, OutsideIs
<1> QED BY <1>4, <1>12

\* The files found for some files: at least those that touch their range, below
\* level 0 no others, and in level 0 all that touch the range of what is found.
LEMMA OverlappingIs ==
    ASSUME NEW v, VersionOK(v), NEW level \in Level,
           NEW files \in Seq(Table), files # <<>>,
           NEW S \in SUBSET Table, ToSet(files) \subseteq S
    PROVE  LET R == Overlapping(v, level, files)
           IN  /\ R \in Seq(Table) /\ ToSet(R) \subseteq ToSet(v[level])
               /\ \A f \in ToSet(v[level]) : Touches(files, f) => f \in ToSet(R)
               /\ level # 0 => \A f \in ToSet(R) : Touches(files, f)
               /\ level = 0 /\ R # <<>> =>
                    \A f \in ToSet(v[level]) : Touches(R, f) => f \in ToSet(R)
               /\ Contiguous(S) => Contiguous(S \cup ToSet(R))
<1>1. PICK R : R = Overlapping(v, level, files) OBVIOUS
<1>2. PICK low, high : low = Smallest(GetRange(files)).key /\ high = Largest(GetRange(files)).key
  OBVIOUS
<1>3. R = GetOverlappingInputs(v, level, low, high) BY <1>1, <1>2 DEF Overlapping
<1>4. low \in Key /\ high \in Key /\ low <= high BY <1>2, RangeIs
<1>5. v \in [Level -> Seq(Table)] BY DEF VersionOK
<1>6. R \in Seq(Table) /\ \E lo, hi \in Key : FoundIn(v, level, low, high, lo, hi)
  BY <1>3, <1>4, <1>5, GetOverlappingInputsIs
<1>7. PICK lo \in Key, hi \in Key : FoundIn(v, level, low, high, lo, hi) BY <1>6
<1>8. low \in Int /\ high \in Int /\ lo \in Int /\ hi \in Int BY <1>4 DEF Key
<1>9. /\ ToSet(R) = {f \in ToSet(v[level]) : ~Outside(lo, hi, f)}
      /\ lo <= low /\ high <= hi
      /\ level # 0 => lo = low /\ hi = high
      /\ level = 0 => \A f \in ToSet(R) : lo <= Smallest(f).key /\ Largest(f).key <= hi
  BY <1>3, <1>7 DEF FoundIn
<1>10. ToSet(v[level]) \subseteq Table BY <1>5, ElementsOf
<1>11. \A f \in ToSet(v[level]) :
            /\ Smallest(f).key \in Int /\ Largest(f).key \in Int
            /\ (Touches(files, f) <=> low <= Largest(f).key /\ Smallest(f).key <= high)
            /\ (f \in ToSet(R) <=> lo <= Largest(f).key /\ Smallest(f).key <= hi)
  <2> TAKE f \in ToSet(v[level])
  <2>1. f \in Table BY <1>10
  <2>2. Smallest(f).key \in Int /\ Largest(f).key \in Int BY <2>1, TableEnds
  <2>3. Touches(files, f) <=> low <= Largest(f).key /\ Smallest(f).key <= high
    BY <1>2, <1>8, <2>1, OutsideIs DEF Touches
  <2>4. f \in ToSet(R) <=> lo <= Largest(f).key /\ Smallest(f).key <= hi
    BY <1>8, <1>9, <2>1, OutsideIs
  <2> QED BY <2>2, <2>3, <2>4
<1>12. \A f \in ToSet(v[level]) : Touches(files, f) => f \in ToSet(R) BY <1>8, <1>9, <1>11
<1>13. level # 0 => \A f \in ToSet(R) : Touches(files, f) BY <1>9, <1>11
<1>14. level = 0 /\ R # <<>> => \A f \in ToSet(v[level]) : Touches(R, f) => f \in ToSet(R)
  BY <1>3, <1>4, <1>5, <1>7, FoundClosed
<1>15. ASSUME Contiguous(S) PROVE Contiguous(S \cup ToSet(R))
  <2>1. \E f \in S : Smallest(f).key <= low
    <3>1. PICK f \in ToSet(files) : low = Smallest(f).key BY <1>2, RangeIs
    <3> QED BY <1>8, <3>1
  <2>2. \E f \in S : high <= Largest(f).key
    <3>1. PICK f \in ToSet(files) : Largest(GetRange(files)) = Largest(f) BY RangeIs
    <3> QED BY <1>2, <1>8, <3>1
  <2> QED BY <1>3, <1>4, <1>5, <1>7, <1>8, <1>15, <2>1, <2>2, FoundContiguous
<1>16. ToSet(R) \subseteq ToSet(v[level]) BY <1>9
<1> QED BY <1>1, <1>6, <1>12, <1>13, <1>14, <1>15, <1>16

\* No file of level 0 that touches the files is missing from them.
Closed(v, files) == \A f \in ToSet(v[0]) : Touches(files, f) => f \in ToSet(files)

\* The inputs of a compaction of a level.
Inputs(v, level, inputs) ==
    /\ inputs[1] \in Seq(Table) /\ inputs[1] # <<>> /\ inputs[2] \in Seq(Table)
    /\ ToSet(inputs[1]) \subseteq ToSet(v[level])
    /\ ToSet(inputs[2]) = {f \in ToSet(v[level + 1]) : Touches(inputs[1], f)}
    /\ \A f \in ToSet(v[level]) : ~Continues(inputs[1], f)
    /\ level = 0 => Closed(v, inputs[1])

\* The range of more files is wider.
LEMMA WiderRange ==
    ASSUME NEW s \in Seq(Table), NEW t \in Seq(Table), s # <<>>, t # <<>>,
           ToSet(s) \subseteq ToSet(t)
    PROVE  /\ Smallest(GetRange(t)).key <= Smallest(GetRange(s)).key
           /\ Largest(GetRange(s)).key <= Largest(GetRange(t)).key
           /\ \A f \in Table : Touches(s, f) => Touches(t, f)
<1>1. PICK a \in Int, b \in Int : a = Smallest(GetRange(s)).key /\ b = Largest(GetRange(s)).key
  BY RangeIs DEF Key
<1>2. PICK c \in Int, d \in Int : c = Smallest(GetRange(t)).key /\ d = Largest(GetRange(t)).key
  BY RangeIs DEF Key
<1>3. c <= a
  <2>1. PICK f \in ToSet(s) : a = Smallest(f).key BY <1>1, RangeIs
  <2> QED BY <1>2, <2>1, RangeIs
<1>4. b <= d
  <2>1. PICK f \in ToSet(s) : Largest(GetRange(s)) = Largest(f) BY RangeIs
  <2> QED BY <1>1, <1>2, <2>1, RangeIs
<1>5. ASSUME NEW f \in Table, Touches(s, f) PROVE Touches(t, f)
  <2>1. a <= Largest(f).key /\ Smallest(f).key <= b BY <1>1, <1>5, OutsideIs DEF Touches
  <2>2. Smallest(f).key \in Int /\ Largest(f).key \in Int BY TableEnds
  <2>3. c <= Largest(f).key /\ Smallest(f).key <= d BY <1>3, <1>4, <2>1, <2>2
  <2> QED BY <1>2, <2>3, OutsideIs DEF Touches
<1> QED BY <1>1, <1>2, <1>3, <1>4, <1>5

\* Files touch their own range.
LEMMA TouchOwn ==
    ASSUME NEW s \in Seq(Table), s # <<>>, NEW f \in ToSet(s)
    PROVE  Touches(s, f)
<1>1. f \in Table BY ElementsOf
<1>2. PICK a \in Int, b \in Int : a = Smallest(GetRange(s)).key /\ b = Largest(GetRange(s)).key
  BY RangeIs DEF Key
<1>3. a <= Smallest(f).key /\ Largest(f).key <= b BY <1>2, RangeIs
<1>4. Smallest(f).key \in Int /\ Largest(f).key \in Int /\ Smallest(f).key <= Largest(f).key
  BY <1>1, TableEnds
<1>5. a <= Largest(f).key /\ Smallest(f).key <= b BY <1>2, <1>3, <1>4
<1> QED BY <1>1, <1>2, <1>5, OutsideIs DEF Touches

\* In level 0, files that are closed have no file that continues them.
LEMMA ClosedEnds ==
    ASSUME NEW v, VersionOK(v), NEW s \in Seq(Table), s # <<>>, Closed(v, s)
    PROVE  \A f \in ToSet(v[0]) : ~Continues(s, f)
<1> SUFFICES ASSUME NEW f \in ToSet(v[0]), Continues(s, f) PROVE FALSE OBVIOUS
<1>0. 0 \in Level BY VersionAssumption DEF Level
<1>1. f \in Table BY <1>0, ElementsOf DEF VersionOK
<1>2. PICK e : e = Largest(GetRange(s)) OBVIOUS
<1>3. e \in Entry /\ e.key \in Int BY <1>2, RangeIs DEF Key
<1>4. PICK a \in Int : a = Smallest(GetRange(s)).key /\ a <= e.key BY <1>2, RangeIs DEF Key
<1>5. Before(e, Smallest(f)) /\ Smallest(f).key = e.key BY <1>2 DEF Continues
<1>6. Smallest(f) \in Entry /\ Smallest(f) \in f.entries /\ Smallest(f).key <= Largest(f).key
      /\ Largest(f).key \in Int
  BY <1>1, TableEnds
<1>7. a <= Largest(f).key /\ Smallest(f).key <= e.key BY <1>3, <1>4, <1>5, <1>6
<1>8. Touches(s, f) BY <1>1, <1>2, <1>3, <1>4, <1>7, OutsideIs DEF Touches
<1>9. f \in ToSet(s) BY <1>8 DEF Closed
<1>10. Smallest(f) \in Entries(s) BY <1>6, <1>9 DEF Entries
<1>11. Smallest(f) = e \/ Before(Smallest(f), e) BY <1>2, <1>10, RangeIs
<1> QED BY <1>3, <1>5, <1>6, <1>11, BeforeOrder

\* The files across a range have no other between them.
LEMMA TouchUnbroken ==
    ASSUME NEW F \in SUBSET Table, NEW s \in Seq(Table), s # <<>>,
           NEW S, S = {f \in F : Touches(s, f)}
    PROVE  Unbroken(F, S)
<1> SUFFICES ASSUME NEW f \in F, NEW g \in S, NEW h \in S,
                    Before(Largest(g), Smallest(f)), Before(Largest(f), Smallest(h))
             PROVE  f \in S
  BY DEF Unbroken
<1>1. f \in Table /\ g \in Table /\ h \in Table /\ g \in F /\ h \in F OBVIOUS
<1>2. PICK lo, hi \in Int :
        lo = Smallest(GetRange(s)).key /\ hi = Largest(GetRange(s)).key
  BY RangeIs DEF Key
<1>3. lo <= Largest(g).key BY <1>1, <1>2, OutsideIs DEF Touches
<1>4. Smallest(h).key <= hi BY <1>1, <1>2, OutsideIs DEF Touches
<1>5. Largest(g).key <= Smallest(f).key BY <1>1, FileOrder
<1>6. Largest(f).key <= Smallest(h).key BY <1>1, FileOrder
<1>7. /\ Smallest(f).key <= Largest(f).key
      /\ Smallest(f).key \in Int /\ Largest(f).key \in Int
      /\ Largest(g).key \in Int /\ Smallest(h).key \in Int
  BY <1>1, TableEnds
<1>8. lo <= Largest(f).key /\ Smallest(f).key <= hi BY <1>3, <1>4, <1>5, <1>6, <1>7
<1>9. Touches(s, f) BY <1>1, <1>2, <1>8, OutsideIs DEF Touches
<1> QED BY <1>9

\* SetupOtherInputs, with the expansion of the inputs of the level: the inputs
\* of the next level are the files that touch them, no file continues them, and
\* they stay contiguous and unbroken when the files picked were.
LEMMA SetupOtherInputsIs ==
    ASSUME NEW v, VersionOK(v), NEW level \in 0 .. NumLevels - 2,
           NEW picked \in Seq(Table), picked # <<>>,
           ToSet(picked) \subseteq ToSet(v[level]), level = 0 => Closed(v, picked)
    PROVE  LET c == SetupOtherInputs(v, level, picked)
           IN  /\ c.level = level /\ c.largest \in Entry
               /\ Inputs(v, level, c.inputs) /\ c.grandparents \in Seq(Table)
               /\ Contiguous(ToSet(picked))
                    => Contiguous(ToSet(c.inputs[1]) \cup ToSet(c.inputs[2]))
               /\ level # 0 /\ Apart(ToSet(v[level])) /\ Unbroken(ToSet(v[level]), ToSet(picked))
                    => Unbroken(ToSet(v[level]), ToSet(c.inputs[1]))
<1>1. PICK c : c = SetupOtherInputs(v, level, picked) OBVIOUS
<1>2. PICK i0 : i0 = AddBoundaryInputs(v[level], picked) OBVIOUS
<1>3. PICK i1 : i1 = Overlapping(v, level + 1, i0) OBVIOUS
<1>4. PICK o : o = Overlapping(v, level, i0 \o i1) OBVIOUS
<1>5. PICK x0 : x0 = AddBoundaryInputs(v[level], o) OBVIOUS
<1>6. PICK x1 : x1 = Overlapping(v, level + 1, x0) OBVIOUS
<1>7. /\ c.level = level
      /\ c.inputs = Expand(v, level, i0, i1, x0)
      /\ c.largest = Largest(GetRange(c.inputs[1]))
      /\ c.grandparents = IF level + 2 < NumLevels
                          THEN Overlapping(v, level + 2, c.inputs[1] \o c.inputs[2])
                          ELSE <<>>
  BY <1>1, <1>2, <1>3, <1>4, <1>5 DEF SetupOtherInputs
<1>8. c.inputs = <<i0, i1>> \/ c.inputs = <<x0, x1>> BY <1>6, <1>7 DEF Expand
<1>9. level \in Level /\ level + 1 \in Level /\ level + 1 # 0
  BY VersionAssumption DEF Level
<1>10. /\ v[level] \in Seq(Table) /\ Numbered(ToSet(v[level]))
       /\ v[level + 1] \in Seq(Table)
       /\ ToSet(v[level]) \in SUBSET Table /\ ToSet(v[level + 1]) \in SUBSET Table
       /\ ToSet(picked) \in SUBSET Table
  BY <1>9, ElementsOf DEF VersionOK
<1>11. /\ i0 \in Seq(Table) /\ i0 # <<>> /\ ToSet(picked) \subseteq ToSet(i0)
       /\ ToSet(i0) \subseteq ToSet(v[level]) /\ ToSet(i0) \subseteq Table
       /\ \A f \in ToSet(v[level]) : ~Continues(i0, f)
       /\ Contiguous(ToSet(picked)) => Contiguous(ToSet(i0))
       /\ (\A f \in ToSet(v[level]) : ~Continues(picked, f)) => i0 = picked
       /\ Apart(ToSet(v[level])) /\ Unbroken(ToSet(v[level]), ToSet(picked))
            => Unbroken(ToSet(v[level]), ToSet(i0))
  <2>1. /\ i0 \in Seq(Table) /\ i0 # <<>> /\ ToSet(picked) \subseteq ToSet(i0)
        /\ ToSet(i0) \subseteq ToSet(v[level])
        /\ \A f \in ToSet(v[level]) : ~Continues(i0, f)
        /\ Contiguous({} \cup ToSet(picked)) => Contiguous({} \cup ToSet(i0))
        /\ (\A f \in ToSet(v[level]) : ~Continues(picked, f)) => i0 = picked
        /\ Apart(ToSet(v[level])) /\ Unbroken(ToSet(v[level]), ToSet(picked))
            => Unbroken(ToSet(v[level]), ToSet(i0))
    <3>1. {} \in SUBSET Table OBVIOUS
    <3> QED BY <1>2, <1>10, <3>1, AddBoundaryInputsIs
  <2>2. {} \cup ToSet(picked) = ToSet(picked) /\ {} \cup ToSet(i0) = ToSet(i0) OBVIOUS
  <2> QED BY <1>10, <2>1, <2>2
<1>12. level = 0 => Closed(v, i0)
  <2>1. ASSUME level = 0 PROVE Closed(v, i0)
    <3>1. \A f \in ToSet(v[level]) : ~Continues(picked, f) BY <2>1, ClosedEnds
    <3> QED BY <1>11, <2>1, <3>1
  <2> QED BY <2>1
<1>13. /\ i1 \in Seq(Table) /\ ToSet(i1) \subseteq ToSet(v[level + 1])
       /\ \A f \in ToSet(v[level + 1]) : Touches(i0, f) => f \in ToSet(i1)
       /\ \A f \in ToSet(i1) : Touches(i0, f)
       /\ Contiguous(ToSet(i0)) => Contiguous(ToSet(i0) \cup ToSet(i1))
  <2>1. ToSet(i0) \in SUBSET Table /\ ToSet(i0) \subseteq ToSet(i0) BY <1>11
  <2> QED BY <1>3, <1>9, <1>11, <2>1, OverlappingIs
<1>14. Inputs(v, level, <<i0, i1>>)
  <2>1. ToSet(i1) = {f \in ToSet(v[level + 1]) : Touches(i0, f)} BY <1>13
  <2>2. <<i0, i1>>[1] = i0 /\ <<i0, i1>>[2] = i1 OBVIOUS
  <2> QED BY <1>11, <1>12, <1>13, <2>1, <2>2 DEF Inputs
<1>15. /\ i0 \o i1 \in Seq(Table) /\ i0 \o i1 # <<>>
       /\ ToSet(i0 \o i1) = ToSet(i0) \cup ToSet(i1)
  <2>1. /\ i0 \o i1 \in Seq(Table)
        /\ ToSet(i0 \o i1) = ToSet(i0) \cup ToSet(i1)
    BY <1>11, <1>13, ElementsOfConcat
  <2>2. ToSet(i0) # {} BY <1>11, ElementsOf
  <2>3. ToSet(<<>>) = {} BY DEF ToSet
  <2> QED BY <2>1, <2>2, <2>3
<1>16. PICK S : S = ToSet(i0) \cup ToSet(i1) OBVIOUS
<1>17. S \in SUBSET Table BY <1>10, <1>11, <1>13, <1>16
<1>18. /\ o \in Seq(Table) /\ ToSet(o) \subseteq ToSet(v[level])
       /\ \A f \in ToSet(v[level]) : Touches(i0 \o i1, f) => f \in ToSet(o)
       /\ level = 0 /\ o # <<>> => Closed(v, o)
       /\ Contiguous(S) => Contiguous(S \cup ToSet(o))
       /\ level # 0 => Unbroken(ToSet(v[level]), ToSet(o))
  <2>1. /\ o \in Seq(Table) /\ ToSet(o) \subseteq ToSet(v[level])
        /\ \A f \in ToSet(v[level]) : Touches(i0 \o i1, f) => f \in ToSet(o)
        /\ level = 0 /\ o # <<>> =>
                    \A f \in ToSet(v[level]) : Touches(o, f) => f \in ToSet(o)
        /\ Contiguous(S) => Contiguous(S \cup ToSet(o))
        /\ level # 0 => Unbroken(ToSet(v[level]), ToSet(o))
    <3>1. PICK io : io = i0 \o i1 OBVIOUS
    <3>2. io \in Seq(Table) /\ io # <<>> /\ ToSet(io) \subseteq S /\ o = Overlapping(v, level, io)
      BY <1>4, <1>15, <1>16, <3>1
    <3>3. /\ o \in Seq(Table) /\ ToSet(o) \subseteq ToSet(v[level])
          /\ \A f \in ToSet(v[level]) : Touches(io, f) => f \in ToSet(o)
          /\ level = 0 /\ o # <<>> =>
                    \A f \in ToSet(v[level]) : Touches(o, f) => f \in ToSet(o)
          /\ Contiguous(S) => Contiguous(S \cup ToSet(o))
          /\ level # 0 => \A f \in ToSet(o) : Touches(io, f)
      BY <1>9, <1>17, <3>2, OverlappingIs
    <3>4. ASSUME level # 0 PROVE Unbroken(ToSet(v[level]), ToSet(o))
      <4>1. ToSet(o) = {f \in ToSet(v[level]) : Touches(io, f)} BY <3>3, <3>4
      <4> QED BY <1>10, <3>2, <4>1, TouchUnbroken
    <3> QED BY <3>1, <3>3, <3>4
  <2> QED BY <2>1 DEF Closed
<1>19. ToSet(i0) \subseteq ToSet(o)
  <2> SUFFICES ASSUME NEW f \in ToSet(i0) PROVE f \in ToSet(o) OBVIOUS
  <2>1. f \in ToSet(i0 \o i1) BY <1>15
  <2>2. Touches(i0 \o i1, f) BY <1>15, <2>1, TouchOwn
  <2> QED BY <1>11, <1>18, <2>2
<1>20. o # <<>>
  <2>1. ToSet(i0) # {} BY <1>11, ElementsOf
  <2>2. ToSet(<<>>) = {} BY DEF ToSet
  <2> QED BY <1>19, <2>1, <2>2
<1>21. /\ x0 \in Seq(Table) /\ x0 # <<>> /\ ToSet(o) \subseteq ToSet(x0)
       /\ ToSet(x0) \subseteq ToSet(v[level]) /\ ToSet(x0) \subseteq Table
       /\ \A f \in ToSet(v[level]) : ~Continues(x0, f)
       /\ Contiguous(S \cup ToSet(o)) => Contiguous(S \cup ToSet(x0))
       /\ (\A f \in ToSet(v[level]) : ~Continues(o, f)) => x0 = o
       /\ Apart(ToSet(v[level])) /\ Unbroken(ToSet(v[level]), ToSet(o))
            => Unbroken(ToSet(v[level]), ToSet(x0))
  <2>1. /\ x0 \in Seq(Table) /\ x0 # <<>> /\ ToSet(o) \subseteq ToSet(x0)
        /\ ToSet(x0) \subseteq ToSet(v[level])
        /\ \A f \in ToSet(v[level]) : ~Continues(x0, f)
        /\ Contiguous(S \cup ToSet(o)) => Contiguous(S \cup ToSet(x0))
        /\ (\A f \in ToSet(v[level]) : ~Continues(o, f)) => x0 = o
        /\ Apart(ToSet(v[level])) /\ Unbroken(ToSet(v[level]), ToSet(o))
            => Unbroken(ToSet(v[level]), ToSet(x0))
    BY <1>5, <1>10, <1>17, <1>18, <1>20, AddBoundaryInputsIs
  <2> QED BY <1>10, <2>1
<1>22. level = 0 => Closed(v, x0)
  <2>1. ASSUME level = 0 PROVE Closed(v, x0)
    <3>1. \A f \in ToSet(v[level]) : ~Continues(o, f) BY <1>18, <1>20, <2>1, ClosedEnds
    <3> QED BY <1>18, <1>20, <1>21, <2>1, <3>1
  <2> QED BY <2>1
<1>23. PICK U : U = S \cup ToSet(x0) OBVIOUS
<1>24. /\ x1 \in Seq(Table) /\ ToSet(x1) \subseteq ToSet(v[level + 1])
       /\ \A f \in ToSet(v[level + 1]) : Touches(x0, f) => f \in ToSet(x1)
       /\ \A f \in ToSet(x1) : Touches(x0, f)
       /\ Contiguous(U) => Contiguous(U \cup ToSet(x1))
  <2>1. U \in SUBSET Table /\ ToSet(x0) \subseteq U BY <1>17, <1>21, <1>23
  <2> QED BY <1>6, <1>9, <1>21, <2>1, OverlappingIs
<1>25. Inputs(v, level, <<x0, x1>>)
  <2>1. ToSet(x1) = {f \in ToSet(v[level + 1]) : Touches(x0, f)} BY <1>24
  <2>2. <<x0, x1>>[1] = x0 /\ <<x0, x1>>[2] = x1 OBVIOUS
  <2> QED BY <1>21, <1>22, <1>24, <2>1, <2>2 DEF Inputs
<1>26. U \cup ToSet(x1) = ToSet(x0) \cup ToSet(x1)
  <2>1. ToSet(i0) \subseteq ToSet(x0) BY <1>19, <1>21
  <2>2. ToSet(i1) \subseteq ToSet(x1)
    <3> SUFFICES ASSUME NEW f \in ToSet(i1) PROVE f \in ToSet(x1) OBVIOUS
    <3>1. f \in Table /\ f \in ToSet(v[level + 1]) /\ Touches(i0, f) BY <1>10, <1>13
    <3>2. Touches(x0, f) BY <1>11, <1>21, <2>1, <3>1, WiderRange
    <3> QED BY <1>24, <3>1, <3>2
  <2> QED BY <1>16, <1>23, <2>1, <2>2
<1>27. Contiguous(ToSet(picked)) =>
            /\ Contiguous(ToSet(i0) \cup ToSet(i1))
            /\ Contiguous(ToSet(x0) \cup ToSet(x1))
  BY <1>11, <1>13, <1>16, <1>18, <1>21, <1>23, <1>24, <1>26
<1>28. Inputs(v, level, c.inputs) BY <1>8, <1>14, <1>25
<1>29. c.largest \in Entry BY <1>7, <1>28, RangeIs DEF Inputs
<1>30. <<i0, i1>>[1] = i0 /\ <<i0, i1>>[2] = i1 /\ <<x0, x1>>[1] = x0 /\ <<x0, x1>>[2] = x1
  OBVIOUS
<1>31. c.grandparents \in Seq(Table)
  <2>1. CASE ~(level + 2 < NumLevels) BY <1>7, <2>1
  <2>2. CASE level + 2 < NumLevels
    <3>1. PICK io : io = c.inputs[1] \o c.inputs[2] OBVIOUS
    <3>2. /\ c.inputs[1] \in Seq(Table) /\ c.inputs[1] # <<>>
          /\ c.inputs[2] \in Seq(Table)
      BY <1>28 DEF Inputs
    <3>3. io \in Seq(Table) /\ io # <<>> BY <3>1, <3>2
    <3>4. ToSet(io) \in SUBSET Table /\ ToSet(io) \subseteq ToSet(io) BY <3>3, ElementsOf
    <3>5. level + 2 \in Level BY <2>2, VersionAssumption DEF Level
    <3>6. Overlapping(v, level + 2, io) \in Seq(Table)
      BY ONLY <3>3, <3>4, <3>5, VersionOK(v), OverlappingIs
    <3> QED BY <1>7, <2>2, <3>1, <3>6
  <2> QED BY <2>1, <2>2
<1>32. level # 0 /\ Apart(ToSet(v[level])) /\ Unbroken(ToSet(v[level]), ToSet(picked))
            => /\ Unbroken(ToSet(v[level]), ToSet(i0))
               /\ Unbroken(ToSet(v[level]), ToSet(x0))
  BY <1>11, <1>18, <1>21
<1> QED BY <1>1, <1>7, <1>8, <1>27, <1>28, <1>29, <1>30, <1>31, <1>32

-----------------------------------------------------------------------------
(* Picking a compaction.                                                    *)

\* No files have no bytes.
LEMMA TotalOfNone == TotalFileSize(<<>>) = 0
<1> DEFINE Sizes(g) == g = [n \in 0 .. Len(<<>>) |->
            IF n = 0 THEN 0 ELSE Cardinality(<<>>[n].entries) + g[n - 1]]
<1>1. TotalFileSize(<<>>) = (CHOOSE g : Sizes(g))[Len(<<>>)] BY DEF TotalFileSize
<1>2. \E g : Sizes(g)
  <2>1. PICK g : g = [n \in 0 .. 0 |-> 0] OBVIOUS
  <2>2. g = [n \in 0 .. 0 |-> IF n = 0 THEN 0 ELSE Cardinality(<<>>[n].entries) + g[n - 1]]
    BY <2>1
  <2>3. Len(<<>>) = 0 OBVIOUS
  <2>4. Sizes(g) BY <2>2, <2>3
  <2> QED BY <2>4
<1>3. PICK g : g = CHOOSE f : Sizes(f) OBVIOUS
<1>4. Sizes(g)
  <2> HIDE DEF Sizes
  <2> QED BY <1>2, <1>3
<1>5. g[0] = 0 BY <1>4
<1> QED BY <1>1, <1>3, <1>5

\* The limit of a level is positive.
LEMMA LimitIs ==
    ASSUME NEW level \in Level
    PROVE  Limit(level) \in Nat /\ Limit(level) > 0
<1> DEFINE Bytes(g) == g = [n \in Level |-> IF n <= 1 THEN MaxBytes ELSE 10 * g[n - 1]]
<1>1. Limit(level) = IF level = 0 THEN L0Trigger ELSE (CHOOSE g : Bytes(g))[level] BY DEF Limit
<1>2. PICK N \in Nat : N = NumLevels - 1 /\ Level = 0 .. N BY VersionAssumption DEF Level
<1>3. PICK P : P = Nat \ {0} OBVIOUS
<1>4. MaxBytes \in P /\ L0Trigger \in P BY <1>3, VersionAssumption
<1>5. \A x \in P : 10 * x \in P BY <1>3
<1>6. \E g : Bytes(g)
  <2>1. PICK h : h = [p \in Nat \X P |-> IF p[1] <= 1 THEN MaxBytes ELSE 10 * p[2]] OBVIOUS
  <2>2. h \in [Nat \X P -> P] BY <1>4, <1>5, <2>1
  <2>3. PICK g : Recurs(P, MaxBytes, h, N, g)
    <3>1. MaxBytes \in P /\ N \in Nat BY <1>2, <1>4
    <3> QED BY ONLY <3>1, <2>2, Recursive
  <2>4. \A n \in 0 .. N : g[n] = IF n <= 1 THEN MaxBytes ELSE 10 * g[n - 1]
    <3> TAKE n \in 0 .. N
    <3>1. CASE n = 0
      <4>1. g[n] = MaxBytes BY <2>3, <3>1 DEF Recurs
      <4> QED BY <3>1, <4>1
    <3>2. CASE n # 0
      <4>1. n - 1 \in 0 .. N /\ n \in Nat BY <1>2, <3>2
      <4>2. <<n, g[n - 1]>> \in Nat \X P BY <2>3, <4>1 DEF Recurs
      <4>3. h[<<n, g[n - 1]>>] = IF n <= 1 THEN MaxBytes ELSE 10 * g[n - 1] BY <2>1, <4>2
      <4> QED BY <2>3, <3>2, <4>3 DEF Recurs
    <3> QED BY <3>1, <3>2
  <2>5. g = [n \in 0 .. N |-> g[n]] BY <2>3 DEF Recurs
  <2>6. g = [n \in 0 .. N |-> IF n <= 1 THEN MaxBytes ELSE 10 * g[n - 1]] BY <2>4, <2>5
  <2>7. Bytes(g) BY <1>2, <2>6
  <2> QED BY <2>7
<1>7. PICK bytes : bytes = CHOOSE g : Bytes(g) OBVIOUS
<1>8. Bytes(bytes)
  <2> HIDE DEF Bytes
  <2> QED BY <1>6, <1>7
<1>9. \A n \in 0 .. N : bytes[n] = IF n <= 1 THEN MaxBytes ELSE 10 * bytes[n - 1] BY <1>2, <1>8
<1>10. PICK T : T = {n \in 0 .. N : bytes[n] \in P} OBVIOUS
<1>11. T = 0 .. N
  <2>1. 0 \in T BY <1>2, <1>4, <1>9, <1>10
  <2>2. \A n \in 0 .. N - 1 : n \in T => n + 1 \in T
    <3> TAKE n \in 0 .. N - 1
    <3>1. PICK m \in 0 .. N : m = n + 1 /\ m - 1 = n BY <1>2
    <3>2. bytes[m] = IF m <= 1 THEN MaxBytes ELSE 10 * bytes[m - 1] BY <1>9
    <3> QED BY <1>4, <1>5, <1>10, <3>1, <3>2
  <2> QED BY <1>2, <1>10, <2>1, <2>2, AlongIt
<1>12. bytes[level] \in P BY <1>2, <1>10, <1>11
<1> HIDE DEF Bytes
<1>13. Limit(level) \in P BY <1>1, <1>4, <1>7, <1>12
<1> QED BY <1>3, <1>13

\* Finalize never scores the last level.
LEMMA CompactionLevelIs ==
    ASSUME NEW v
    PROVE  CompactionLevel(v) \in 0 .. NumLevels - 2
<1> DEFINE Bests(g) == g = [n \in 0 .. NumLevels - 2 |->
            IF n = 0 THEN 0
            ELSE IF Files(v, n) * Limit(g[n - 1]) > Files(v, g[n - 1]) * Limit(n)
                 THEN n ELSE g[n - 1]]
<1>1. CompactionLevel(v) = (CHOOSE g : Bests(g))[NumLevels - 2] BY DEF CompactionLevel
<1>2. PICK N \in Nat : N = NumLevels - 2 BY VersionAssumption
<1>3. \E g : Bests(g)
  <2>1. PICK h : h = [p \in Nat \X Nat |->
                IF Files(v, p[1]) * Limit(p[2]) > Files(v, p[2]) * Limit(p[1])
                THEN p[1] ELSE p[2]]
    OBVIOUS
  <2>2. h \in [Nat \X Nat -> Nat] BY <2>1
  <2>3. PICK g : Recurs(Nat, 0, h, N, g)
    <3>1. 0 \in Nat /\ N \in Nat BY <1>2
    <3> QED BY ONLY <3>1, <2>2, Recursive
  <2>4. \A n \in 0 .. N : g[n] = IF n = 0 THEN 0
            ELSE IF Files(v, n) * Limit(g[n - 1]) > Files(v, g[n - 1]) * Limit(n)
                 THEN n ELSE g[n - 1]
    <3> TAKE n \in 0 .. N
    <3>1. CASE n = 0 BY <2>3, <3>1 DEF Recurs
    <3>2. CASE n # 0
      <4>1. n - 1 \in 0 .. N /\ n \in Nat BY <1>2, <3>2
      <4>2. <<n, g[n - 1]>> \in Nat \X Nat BY <2>3, <4>1 DEF Recurs
      <4>3. h[<<n, g[n - 1]>>] =
                IF Files(v, n) * Limit(g[n - 1]) > Files(v, g[n - 1]) * Limit(n)
                THEN n ELSE g[n - 1]
        BY <2>1, <4>2
      <4> QED BY <2>3, <3>2, <4>3 DEF Recurs
    <3> QED BY <3>1, <3>2
  <2>5. g = [n \in 0 .. N |-> g[n]] BY <2>3 DEF Recurs
  <2>6. g = [n \in 0 .. N |-> IF n = 0 THEN 0
            ELSE IF Files(v, n) * Limit(g[n - 1]) > Files(v, g[n - 1]) * Limit(n)
                 THEN n ELSE g[n - 1]]
    BY <2>4, <2>5
  <2>7. Bests(g) BY <1>2, <2>6
  <2> QED BY <2>7
<1>4. PICK best : best = CHOOSE g : Bests(g) OBVIOUS
<1>5. Bests(best)
  <2> HIDE DEF Bests
  <2> QED BY <1>3, <1>4
<1>6. \A n \in 0 .. N : best[n] = IF n = 0 THEN 0 ELSE IF Files(v, n) * Limit(best[n - 1])
            > Files(v, best[n - 1]) * Limit(n) THEN n ELSE best[n - 1]
  BY <1>2, <1>5
<1>7. PICK T : T = {n \in 0 .. N : best[n] \in 0 .. N} OBVIOUS
<1>8. T = 0 .. N
  <2>1. 0 \in T BY <1>2, <1>6, <1>7
  <2>2. \A n \in 0 .. N - 1 : n \in T => n + 1 \in T
    <3> TAKE n \in 0 .. N - 1
    <3>1. PICK m \in 0 .. N : m = n + 1 /\ m - 1 = n /\ m # 0 BY <1>2
    <3>2. best[m] = m \/ best[m] = best[m - 1] BY <1>6, <3>1
    <3> QED BY <1>7, <3>1, <3>2
  <2> QED BY <1>2, <1>7, <2>1, <2>2, AlongIt
<1>9. best[N] \in 0 .. N BY <1>2, <1>7, <1>8
<1> HIDE DEF Bests
<1> QED BY <1>1, <1>2, <1>4, <1>9

\* A level over its limit has a file.
LEMMA SizeCompactionIs ==
    ASSUME NEW v, VersionOK(v), SizeCompaction(v)
    PROVE  /\ CompactionLevel(v) \in 0 .. NumLevels - 2
           /\ v[CompactionLevel(v)] # <<>>
<1>1. PICK l \in 0 .. NumLevels - 2 : l = CompactionLevel(v) BY CompactionLevelIs
<1>2. l \in Level BY VersionAssumption DEF Level
<1>3. Files(v, l) >= Limit(l) BY <1>1 DEF SizeCompaction
<1>4. Limit(l) \in Nat /\ Limit(l) > 0 BY <1>2, LimitIs
<1>5. v[l] = <<>> => Files(v, l) = 0
  <2>1. CASE l = 0 BY <2>1 DEF Files
  <2>2. CASE l # 0 BY <2>2, TotalOfNone DEF Files
  <2> QED BY <2>1, <2>2
<1>6. v[l] # <<>> BY <1>3, <1>4, <1>5
<1> QED BY <1>1, <1>6

\* The file charged with the reads that went through it is one of the version.
Seeks(v, s) ==
    s = {} \/ \E l \in 0 .. NumLevels - 2 : \E f \in ToSet(v[l]) :
                    s = {[level |-> l, file |-> f]}

\* PickCompaction, of a level over its limit or of a file charged with reads:
\* its inputs are contiguous, and below level 0 leave no gap.
LEMMA PickCompactionIs ==
    ASSUME NEW v, VersionOK(v), NEW p, NEW s, Seeks(v, s), SizeCompaction(v) \/ s # {}
    PROVE  LET c == PickCompaction(v, p, s)
           IN  /\ c.level \in 0 .. NumLevels - 2 /\ c.largest \in Entry
               /\ Inputs(v, c.level, c.inputs) /\ c.grandparents \in Seq(Table)
               /\ Contiguous(ToSet(c.inputs[1]) \cup ToSet(c.inputs[2]))
               /\ c.level # 0 /\ Apart(ToSet(v[c.level]))
                    => Unbroken(ToSet(v[c.level]), ToSet(c.inputs[1]))
<1>1. PICK level : level = IF SizeCompaction(v) THEN CompactionLevel(v)
                           ELSE (CHOOSE x \in s : TRUE).level
  OBVIOUS
<1>2. PICK after : after = {i \in DOMAIN v[level] :
                    \A q \in p[level] : Before(q, Largest(v[level][i]))}
  OBVIOUS
<1>3. PICK picked : picked = IF ~SizeCompaction(v) THEN (CHOOSE x \in s : TRUE).file
                  ELSE v[level][IF after = {} THEN 1 ELSE Min(after)]
  OBVIOUS
<1>4. PickCompaction(v, p, s) = SetupOtherInputs(v, level,
            IF level = 0
            THEN GetOverlappingInputs(v, 0, Smallest(GetRange(<<picked>>)).key,
                                      Largest(GetRange(<<picked>>)).key)
            ELSE <<picked>>)
  BY <1>1, <1>2, <1>3 DEF PickCompaction
<1>5. level \in 0 .. NumLevels - 2 /\ picked \in ToSet(v[level])
  <2>1. CASE SizeCompaction(v)
    <3>1. level \in 0 .. NumLevels - 2 /\ v[level] # <<>> BY <1>1, <2>1, SizeCompactionIs
    <3>2. level \in Level BY <3>1, VersionAssumption DEF Level
    <3>3. v[level] \in Seq(Table) BY <3>2 DEF VersionOK
    <3>4. Len(v[level]) \in Nat /\ Len(v[level]) > 0 /\ DOMAIN v[level] = 1 .. Len(v[level])
      BY <3>1, <3>3
    <3>5. after \in SUBSET Nat /\ after \subseteq 1 .. Len(v[level]) BY <1>2, <3>4
    <3>6. PICK i : i = IF after = {} THEN 1 ELSE Min(after) OBVIOUS
    <3>7. i \in 1 .. Len(v[level])
      <4>1. CASE after = {} BY <3>4, <3>6, <4>1
      <4>2. CASE after # {}
        <5>1. Min(after) \in after BY <3>5, <4>2, MinIs
        <5> QED BY <3>5, <3>6, <4>2, <5>1
      <4> QED BY <4>1, <4>2
    <3>8. v[level][i] \in ToSet(v[level]) BY <3>3, <3>7, ElementsOf
    <3> QED BY <1>3, <2>1, <3>1, <3>6, <3>8
  <2>2. CASE ~SizeCompaction(v)
    <3>1. PICK l \in 0 .. NumLevels - 2, f \in UNION {ToSet(v[x]) : x \in 0 .. NumLevels - 2} :
                f \in ToSet(v[l]) /\ s = {[level |-> l, file |-> f]}
      BY <2>2 DEF Seeks
    <3>2. (CHOOSE x \in s : TRUE) = [level |-> l, file |-> f] BY <3>1
    <3> QED BY <1>1, <1>3, <2>2, <3>1, <3>2
  <2> QED BY <2>1, <2>2
<1>6. level \in Level /\ 0 \in Level BY <1>5, VersionAssumption DEF Level
<1>7. v[level] \in Seq(Table) BY <1>6 DEF VersionOK
<1>8. picked \in Table /\ <<picked>> \in Seq(Table) /\ <<picked>> # <<>>
      /\ ToSet(<<picked>>) = {picked}
  <2>1. picked \in Table BY <1>5, <1>7, ElementsOf
  <2>2. ToSet(<<picked>>) = {picked} BY DEF ToSet
  <2> QED BY <2>1, <2>2
<1>9. Contiguous({picked})
  <2>1. Smallest(picked).key \in Int /\ Largest(picked).key \in Int BY <1>8, TableEnds
  <2> QED BY <2>1 DEF Contiguous, Covers
<1>10. PICK q : q = IF level = 0 THEN Overlapping(v, 0, <<picked>>) ELSE <<picked>> OBVIOUS
<1>11. PickCompaction(v, p, s) = SetupOtherInputs(v, level, q) BY <1>4, <1>10 DEF Overlapping
<1>12. /\ q \in Seq(Table) /\ q # <<>> /\ ToSet(q) \subseteq ToSet(v[level])
       /\ level = 0 => Closed(v, q)
       /\ Contiguous(ToSet(q))
       /\ level # 0 => Unbroken(ToSet(v[level]), ToSet(q))
  <2>1. CASE level # 0
    <3>1. Unbroken(ToSet(v[level]), {picked})
      <4> SUFFICES ASSUME NEW f \in ToSet(v[level]), Before(Largest(picked), Smallest(f)),
                          Before(Largest(f), Smallest(picked))
                   PROVE  FALSE
        BY DEF Unbroken
      <4>1. f \in Table BY <1>7, ElementsOf
      <4> QED BY <1>8, <4>1, FileOrder
    <3> QED BY <1>5, <1>8, <1>9, <1>10, <2>1, <3>1
  <2>2. CASE level = 0
    <3>1. /\ q \in Seq(Table) /\ ToSet(q) \subseteq ToSet(v[0])
          /\ \A f \in ToSet(v[0]) : Touches(<<picked>>, f) => f \in ToSet(q)
          /\ q # <<>> => \A f \in ToSet(v[0]) : Touches(q, f) => f \in ToSet(q)
          /\ Contiguous({picked}) => Contiguous({picked} \cup ToSet(q))
      <4>1. q = Overlapping(v, 0, <<picked>>) BY <1>10, <2>2
      <4>2. {picked} \in SUBSET Table /\ ToSet(<<picked>>) \subseteq {picked} BY <1>8
      <4> QED BY <1>6, <1>8, <4>1, <4>2, OverlappingIs
    <3>2. picked \in ToSet(<<picked>>) BY <1>8
    <3>3. picked \in ToSet(q) BY <1>5, <1>8, <2>2, <3>1, <3>2, TouchOwn
    <3>4. q # <<>>
      <4>1. ToSet(<<>>) = {} BY DEF ToSet
      <4> QED BY <3>3, <4>1
    <3>5. {picked} \cup ToSet(q) = ToSet(q) BY <3>3
    <3> QED BY <1>9, <2>2, <3>1, <3>4, <3>5 DEF Closed
  <2> QED BY <2>1, <2>2
<1>13. PICK c : c = SetupOtherInputs(v, level, q) OBVIOUS
<1>14. /\ c.level = level /\ c.largest \in Entry
       /\ Inputs(v, level, c.inputs) /\ c.grandparents \in Seq(Table)
       /\ Contiguous(ToSet(q)) => Contiguous(ToSet(c.inputs[1]) \cup ToSet(c.inputs[2]))
       /\ level # 0 /\ Apart(ToSet(v[level])) /\ Unbroken(ToSet(v[level]), ToSet(q))
            => Unbroken(ToSet(v[level]), ToSet(c.inputs[1]))
  BY <1>5, <1>12, <1>13, SetupOtherInputsIs
<1>15. /\ c.level \in 0 .. NumLevels - 2 /\ c.largest \in Entry
       /\ Inputs(v, c.level, c.inputs) /\ c.grandparents \in Seq(Table)
       /\ Contiguous(ToSet(c.inputs[1]) \cup ToSet(c.inputs[2]))
       /\ c.level # 0 /\ Apart(ToSet(v[c.level]))
            => Unbroken(ToSet(v[c.level]), ToSet(c.inputs[1]))
  BY <1>5, <1>12, <1>14
<1> QED BY <1>11, <1>13, <1>15

\* The files found are in the order of the level.
LEMMA OverlappingInOrder ==
    ASSUME NEW v \in [Level -> Seq(Table)], NEW level \in Level, NEW low, NEW high
    PROVE  LET r == GetOverlappingInputs(v, level, low, high)
           IN  \A a, b \in DOMAIN r : a < b =>
                \E i, j \in DOMAIN v[level] :
                    i < j /\ r[a] = v[level][i] /\ r[b] = v[level][j]
<1>1. PICK P : P \in SUBSET DOMAIN v[level]
                /\ GetOverlappingInputs(v, level, low, high) = Subsequence(v[level], P)
  BY DEF GetOverlappingInputs
<1>2. PICK s \in Seq(Table) : s = v[level] OBVIOUS
<1> QED BY <1>1, <1>2, SubsequenceIs

\* CompactRange, with the cut below level 0.
LEMMA CompactRangeInputsIs ==
    ASSUME NEW v, VersionOK(v), NEW level \in Level,
           NEW begin \in Key, NEW end \in Key, begin <= end
    PROVE  LET r == CompactRangeInputs(v, level, begin, end)
           IN  /\ r \in Seq(Table) /\ ToSet(r) \subseteq ToSet(v[level])
               /\ level = 0 /\ r # <<>> => Closed(v, r)
               /\ level # 0 /\ InOrder(v[level]) => Unbroken(ToSet(v[level]), ToSet(r))
<1>1. PICK inputs : inputs = GetOverlappingInputs(v, level, begin, end) OBVIOUS
<1>2. PICK full : full = {i \in DOMAIN inputs :
                    TotalFileSize(SubSeq(inputs, 1, i)) >= TargetFileSize}
  OBVIOUS
<1>3. PICK r : r = CompactRangeInputs(v, level, begin, end) OBVIOUS
<1>4. r = IF level = 0 \/ full = {} THEN inputs ELSE SubSeq(inputs, 1, Min(full))
  BY <1>1, <1>2, <1>3 DEF CompactRangeInputs
<1>5. v \in [Level -> Seq(Table)] BY DEF VersionOK
<1>6. PICK lo \in Key, hi \in Key : FoundIn(v, level, begin, end, lo, hi)
  BY <1>5, GetOverlappingInputsIs
<1>7. inputs \in Seq(Table) BY <1>1, <1>5, GetOverlappingInputsIs
<1>8. ToSet(inputs) \subseteq ToSet(v[level]) BY <1>1, <1>6 DEF FoundIn
<1>9. /\ r \in Seq(Table) /\ ToSet(r) \subseteq ToSet(inputs)
      /\ Len(r) <= Len(inputs) /\ \A i \in 1 .. Len(r) : r[i] = inputs[i]
  <2>1. CASE level = 0 \/ full = {}
    <3>1. r = inputs BY <1>4, <2>1
    <3>2. Len(inputs) <= Len(inputs) BY <1>7
    <3> QED BY <1>7, <3>1, <3>2
  <2>2. CASE ~(level = 0 \/ full = {})
    <3>1. full \in SUBSET Nat /\ full \subseteq 1 .. Len(inputs) BY <1>2, <1>7
    <3>2. PICK m : m = Min(full) OBVIOUS
    <3>3. m \in 1 .. Len(inputs) BY <2>2, <3>1, <3>2, MinIs
    <3>4. r = SubSeq(inputs, 1, m) BY <1>4, <2>2, <3>2
    <3>5. r \in Seq(Table) /\ Len(r) = m /\ \A i \in 1 .. m : r[i] = inputs[i]
      BY <1>7, <3>3, <3>4
    <3>6. \A x \in ToSet(r) : x \in ToSet(inputs)
      <4> TAKE x \in ToSet(r)
      <4>1. PICK i \in 1 .. Len(r) : r[i] = x BY <3>5, ElementsOf
      <4>2. i \in 1 .. Len(inputs) /\ inputs[i] = x BY <3>3, <3>5, <4>1, <1>7
      <4> QED BY <1>7, <4>2, ElementsOf
    <3>7. m <= Len(inputs) BY <3>3, <1>7
    <3> QED BY <3>5, <3>6, <3>7
  <2> QED BY <2>1, <2>2
<1>10. level = 0 /\ r # <<>> => Closed(v, r)
  <2> SUFFICES ASSUME level = 0, r # <<>> PROVE Closed(v, r) OBVIOUS
  <2>1. r = inputs BY <1>4
  <2> QED BY <1>1, <1>5, <1>6, <2>1, FoundClosed DEF Closed
<1>11. level # 0 /\ InOrder(v[level]) => Unbroken(ToSet(v[level]), ToSet(r))
  <2> SUFFICES ASSUME level # 0, InOrder(v[level]),
                      NEW f \in ToSet(v[level]), NEW g \in ToSet(r), NEW h \in ToSet(r),
                      Before(Largest(g), Smallest(f)), Before(Largest(f), Smallest(h))
               PROVE  f \in ToSet(r)
    BY DEF Unbroken
  <2>1. v[level] \in Seq(Table) BY <1>5
  <2>2. f \in Table /\ g \in Table /\ h \in Table
    <3>1. ToSet(v[level]) \subseteq Table /\ ToSet(r) \subseteq Table BY <1>9, <2>1, ElementsOf
    <3> QED BY <3>1
  <2>3. ToSet(inputs) = {x \in ToSet(v[level]) : ~Outside(lo, hi, x)}
    BY <1>1, <1>6 DEF FoundIn
  <2>4. lo \in Int /\ hi \in Int BY DEF Key
  <2>5. lo <= Largest(g).key /\ Smallest(h).key <= hi
    <3>1. ~Outside(lo, hi, g) /\ ~Outside(lo, hi, h) BY <1>9, <2>3
    <3> QED BY <2>2, <2>4, <3>1, OutsideIs
  <2>6. ~Outside(lo, hi, f)
    <3>1. Largest(g).key <= Smallest(f).key BY <2>2, FileOrder
    <3>2. Largest(f).key <= Smallest(h).key BY <2>2, FileOrder
    <3>3. /\ Smallest(f).key <= Largest(f).key
          /\ Smallest(f).key \in Int /\ Largest(f).key \in Int
          /\ Largest(g).key \in Int /\ Smallest(h).key \in Int
      BY <2>2, TableEnds
    <3>4. lo <= Largest(f).key /\ Smallest(f).key <= hi BY <2>4, <2>5, <3>1, <3>2, <3>3
    <3> QED BY <2>2, <2>4, <3>4, OutsideIs
  <2>7. PICK k \in 1 .. Len(inputs) : inputs[k] = f
    <3>1. f \in ToSet(inputs) BY <2>3, <2>6
    <3> QED BY <1>7, <3>1, ElementsOf
  <2>8. PICK b \in 1 .. Len(r) : r[b] = h BY <1>9, ElementsOf
  <2>9. Len(r) \in Nat /\ Len(inputs) \in Nat /\ DOMAIN inputs = 1 .. Len(inputs) BY <1>7, <1>9
  <2>10. CASE k <= Len(r)
    <3>1. k \in 1 .. Len(r) /\ r[k] = f BY <1>9, <2>7, <2>9, <2>10
    <3> QED BY <1>9, <3>1, ElementsOf
  <2>11. CASE ~(k <= Len(r))
    <3>1. b \in DOMAIN inputs /\ k \in DOMAIN inputs /\ b < k /\ inputs[b] = h
      BY <1>9, <2>7, <2>8, <2>9, <2>11
    <3>2. PICK i \in DOMAIN v[level], j \in DOMAIN v[level] :
                i < j /\ inputs[b] = v[level][i] /\ inputs[k] = v[level][j]
      BY <1>1, <1>5, <3>1, OverlappingInOrder
    <3>3. Before(Largest(h), Smallest(f)) BY <2>7, <3>1, <3>2 DEF InOrder
    <3> QED BY <2>2, <3>3, FileOrder
  <2> QED BY <2>10, <2>11
<1> QED BY <1>3, <1>8, <1>9, <1>10, <1>11

-----------------------------------------------------------------------------
(* Installing an edit.                                                      *)

\* The files of a level after an edit.
After(v, deleted, added, level) ==
    {f \in ToSet(v[level]) : <<level, f>> \notin deleted}
        \cup {f \in {p[2] : p \in added} : <<level, f>> \in added}

\* The version w has the files of v after the edit.
Edited(v, w, deleted, added) ==
    \A l \in Level : ToSet(w[l]) = After(v, deleted, added, l)

\* The files of every level by their smallest keys.
Ordered(w) ==
    \A l \in Level : \A i, j \in DOMAIN w[l] : i < j => BySmallestKey(w[l][i], w[l][j])

\* VersionSet::Builder: the levels have the files of the edit, by smallest key.
LEMMA ApplyIs ==
    ASSUME NEW v, NEW deleted, NEW added,
           \A level \in Level : After(v, deleted, added, level) \in SUBSET Table,
           \A level \in Level : IsFiniteSet(After(v, deleted, added, level)),
           \A level \in Level : Numbered(After(v, deleted, added, level))
    PROVE  LET w == Apply(v, deleted, added)
           IN  /\ VersionOK(w)
               /\ \A level \in Level : ToSet(w[level]) = After(v, deleted, added, level)
               /\ \A level \in Level : \A i, j \in DOMAIN w[level] :
                    i < j => BySmallestKey(w[level][i], w[level][j])
<1>1. PICK w : w = Apply(v, deleted, added) OBVIOUS
<1>2. w = [level \in Level |-> Sorted(After(v, deleted, added, level), BySmallestKey)]
  BY <1>1 DEF Apply, After
<1>3. \A level \in Level :
        /\ w[level] = Sorted(After(v, deleted, added, level), BySmallestKey)
        /\ w[level] \in Seq(Table)
        /\ ToSet(w[level]) = After(v, deleted, added, level)
        /\ \A i, j \in DOMAIN w[level] :
                    i < j => BySmallestKey(w[level][i], w[level][j])
  <2> TAKE level \in Level
  <2>1. PICK S : S = After(v, deleted, added, level) OBVIOUS
  <2>2. S \in SUBSET Table /\ Numbered(S) /\ IsFiniteSet(S) BY <2>1
  <2>3. w[level] = Sorted(S, BySmallestKey) BY <1>2, <2>1
  <2>4. /\ Sorted(S, BySmallestKey) \in Seq(Table)
        /\ ToSet(Sorted(S, BySmallestKey)) = S
        /\ \A i, j \in DOMAIN Sorted(S, BySmallestKey) :
                i < j => BySmallestKey(Sorted(S, BySmallestKey)[i], Sorted(S, BySmallestKey)[j])
    BY ONLY <2>2, SortedFiles
  <2> QED BY <2>1, <2>3, <2>4
<1>4. w \in [Level -> Seq(Table)] BY <1>2, <1>3
<1>5. \A level \in Level : Numbered(ToSet(w[level])) BY <1>3
<1> QED BY <1>1, <1>3, <1>4, <1>5 DEF VersionOK

-----------------------------------------------------------------------------
(* The level of a flushed table.                                            *)

\* In a level in order the largest keys are in order as well.
LEMMA InOrderLargest ==
    ASSUME NEW files \in Seq(Table), InOrder(files), NEW t \in IKey
    PROVE  Parted(files, t)
<1> SUFFICES ASSUME NEW i \in DOMAIN files, NEW j \in DOMAIN files, i < j,
                    Before(Largest(files[j]), t)
             PROVE  Before(Largest(files[i]), t)
  BY DEF Parted
<1>1. files[i] \in Table /\ files[j] \in Table OBVIOUS
<1>2. Before(Largest(files[i]), Smallest(files[j])) BY DEF InOrder
<1>3. PICK a \in IKey : a = Largest(files[i]) BY <1>1, TableEnds, IKeyOrder
<1>4. PICK b \in IKey : b = Smallest(files[j]) BY <1>1, TableEnds, IKeyOrder
<1>5. PICK c \in IKey : c = Largest(files[j]) BY <1>1, TableEnds, IKeyOrder
<1>6. b = c \/ Before(b, c) BY <1>1, <1>4, <1>5, TableEnds
<1>7. Before(a, b) /\ Before(c, t) BY <1>2, <1>3, <1>4, <1>5
<1>8. Before(a, c) BY <1>6, <1>7, IKeyOrder
<1>9. Before(a, t) BY <1>7, <1>8, IKeyOrder
<1> QED BY <1>3, <1>9

\* OverlapInLevel, by bisection below level 0: when it says no, every file of
\* the level is outside the range.
LEMMA OverlapInLevelIs ==
    ASSUME NEW v \in [Level -> Seq(Table)], NEW level \in Level,
           level # 0 => InOrder(v[level]),
           NEW low \in Key, NEW high \in Key,
           ~OverlapInLevel(v, level, low, high)
    PROVE  \A f \in ToSet(v[level]) : Outside(low, high, f)
<1>1. PICK files \in Seq(Table) : files = v[level] OBVIOUS
<1> SUFFICES ASSUME NEW f \in ToSet(v[level]) PROVE Outside(low, high, f) OBVIOUS
<1>2. PICK i \in 1 .. Len(files) : files[i] = f BY <1>1, ElementsOf
<1>3. DOMAIN files = 1 .. Len(files) /\ Len(files) \in Nat OBVIOUS
<1>4. CASE level = 0 BY <1>1, <1>2, <1>3, <1>4 DEF OverlapInLevel
<1>5. CASE level # 0
  <2>1. PICK t : t = [key |-> low, seq |-> kMaxSequenceNumber, type |-> kTypeValue] OBVIOUS
  <2>2. kMaxSequenceNumber \in Int /\ kTypeValue \in Int /\ kMaxSequenceNumber > MaxSequence
        /\ MaxSequence \in Nat /\ low \in Int /\ high \in Int /\ MaxKey \in Nat
    BY VersionAssumption DEF kMaxSequenceNumber, kTypeValue, Key
  <2>3. t \in IKey BY <2>1, <2>2 DEF IKey
  <2>4. PICK index : index = FindFile(files, t) OBVIOUS
  <2>5. ~(index <= Len(files) /\ ~BeforeFile(high, files[index]))
    BY <1>1, <1>5, <2>1, <2>4 DEF OverlapInLevel
  <2>6. InOrder(files) BY <1>1, <1>5
  <2>7. Parted(files, t)
    BY ONLY <1>1, <2>3, <2>6, InOrderLargest
  <2>8. /\ index \in 1 .. Len(files) + 1
        /\ \A a \in DOMAIN files : a < index <=> Before(Largest(files[a]), t)
    BY ONLY <1>1, <2>4, <2>7, FindFileIs
  <2>9. f \in Table BY <1>2
  <2>10. CASE i < index
    <3>1. Before(Largest(f), t) BY <1>2, <1>3, <2>8, <2>10
    <3>2. PICK e \in Entry : e = Largest(f) BY <2>9, TableEnds
    <3>3. e.seq \in 1 .. MaxSequence /\ e.key \in Int BY <2>2 DEF Entry, Key
    <3>4. e.key < low BY <2>1, <2>2, <3>1, <3>2, <3>3 DEF Before
    <3> QED BY <2>2, <3>2, <3>3, <3>4 DEF Outside, AfterFile
  <2>11. CASE ~(i < index)
    <3>1. index \in 1 .. Len(files) /\ index \in DOMAIN files BY <1>3, <2>8, <2>11
    <3>2. PICK g \in Table : g = files[index] BY <3>1
    <3>3. high < Smallest(g).key BY <2>5, <3>1, <3>2 DEF BeforeFile
    <3>4. Smallest(g).key <= Smallest(f).key
      <4>1. CASE i = index BY <1>2, <3>2, <4>1, TableEnds
      <4>2. CASE i # index
        <5>1. index < i BY <2>8, <2>11, <4>2
        <5>2. Before(Largest(g), Smallest(f)) BY <1>2, <1>3, <2>6, <3>1, <3>2, <5>1 DEF InOrder
        <5>3. Largest(g).key <= Smallest(f).key
          <6>1. Largest(g).key \in Int /\ Smallest(f).key \in Int BY <2>9, TableEnds
          <6> QED BY <5>2, <6>1 DEF Before
        <5>4. Smallest(g).key <= Largest(g).key /\ Smallest(g).key \in Int
              /\ Largest(g).key \in Int /\ Smallest(f).key \in Int
          BY <2>9, TableEnds
        <5> QED BY <5>3, <5>4
      <4> QED BY <4>1, <4>2
    <3>5. Smallest(g).key \in Int /\ Smallest(f).key \in Int BY <2>9, TableEnds
    <3> QED BY <2>2, <3>3, <3>4, <3>5 DEF Outside, BeforeFile
  <2> QED BY <2>10, <2>11
<1> QED BY <1>4, <1>5

\* PickLevelForMemTableOutput: a flushed table passes only levels without
\* overlap.
LEMMA PickLevelIs ==
    ASSUME NEW v, NEW low, NEW high
    PROVE  LET level == PickLevelForMemTableOutput(v, low, high)
           IN  /\ level \in 0 .. MaxMemCompactLevel /\ level \in Level
               /\ level # 0 => \A l \in 0 .. level : ~OverlapInLevel(v, l, low, high)
<1>1. PICK blocked : blocked = {l \in 0 .. MaxMemCompactLevel :
            \/ OverlapInLevel(v, l + 1, low, high)
            \/ /\ l + 2 < NumLevels
               /\ TotalFileSize(GetOverlappingInputs(v, l + 2, low, high))
                    > GrandParentLimit}
  OBVIOUS
<1>2. PICK level : level = PickLevelForMemTableOutput(v, low, high) OBVIOUS
<1>3. MaxMemCompactLevel \in Nat /\ NumLevels \in Nat /\ MaxMemCompactLevel <= NumLevels - 1
  BY VersionAssumption
<1>4. CASE OverlapInLevel(v, 0, low, high)
  <2>1. level = 0 BY <1>2, <1>4 DEF PickLevelForMemTableOutput
  <2> QED BY <1>2, <1>3, <2>1 DEF Level
<1>5. CASE ~OverlapInLevel(v, 0, low, high)
  <2>1. level = CHOOSE l \in 0 .. MaxMemCompactLevel :
                /\ l = MaxMemCompactLevel
                    \/ \/ OverlapInLevel(v, l + 1, low, high)
                       \/ /\ l + 2 < NumLevels
                          /\ TotalFileSize(GetOverlappingInputs(v, l + 2, low, high))
                                > GrandParentLimit
                /\ \A above \in 0 .. l - 1 :
                    ~(\/ OverlapInLevel(v, above + 1, low, high)
                      \/ /\ above + 2 < NumLevels
                         /\ TotalFileSize(GetOverlappingInputs(v, above + 2, low, high))
                                > GrandParentLimit)
    BY <1>2, <1>5 DEF PickLevelForMemTableOutput
  <2>2. PICK T : T = blocked \cup {MaxMemCompactLevel} OBVIOUS
  <2>3. T \in SUBSET Nat /\ T # {} /\ T \subseteq 0 .. MaxMemCompactLevel BY <1>1, <1>3, <2>2
  <2>4. PICK m \in T : \A y \in T : m <= y BY <2>3, LeastNumber
  <2>5. m \in 0 .. MaxMemCompactLevel /\ (m = MaxMemCompactLevel \/ m \in blocked)
    BY <2>2, <2>3, <2>4
  <2>6. \A above \in 0 .. m - 1 : above \in 0 .. MaxMemCompactLevel /\ above \notin blocked
    BY <1>3, <2>2, <2>4, <2>5
  <2>7. \E l \in 0 .. MaxMemCompactLevel :
                /\ l = MaxMemCompactLevel
                    \/ \/ OverlapInLevel(v, l + 1, low, high)
                       \/ /\ l + 2 < NumLevels
                          /\ TotalFileSize(GetOverlappingInputs(v, l + 2, low, high))
                                > GrandParentLimit
                /\ \A above \in 0 .. l - 1 :
                    ~(\/ OverlapInLevel(v, above + 1, low, high)
                      \/ /\ above + 2 < NumLevels
                         /\ TotalFileSize(GetOverlappingInputs(v, above + 2, low, high))
                                > GrandParentLimit)
    BY <1>1, <2>5, <2>6
  <2>8. /\ level \in 0 .. MaxMemCompactLevel
        /\ \A above \in 0 .. level - 1 : ~OverlapInLevel(v, above + 1, low, high)
    BY <2>1, <2>7
  <2>9. \A l \in 0 .. level : ~OverlapInLevel(v, l, low, high)
    <3> TAKE l \in 0 .. level
    <3>1. CASE l = 0 BY <1>5, <3>1
    <3>2. CASE l # 0
      <4>1. PICK above \in 0 .. level - 1 : above + 1 = l BY <1>3, <2>8, <3>2
      <4> QED BY <2>8, <4>1
    <3> QED BY <3>1, <3>2
  <2>10. level \in Level BY <1>3, <2>8 DEF Level
  <2> QED BY <1>2, <2>8, <2>9, <2>10
<1> QED BY <1>4, <1>5

-----------------------------------------------------------------------------
(* What a compaction writes.                                                *)

\* TotalFileSize is a number.
LEMMA TotalIs ==
    ASSUME NEW files \in Seq(Table)
    PROVE  TotalFileSize(files) \in Nat
<1> DEFINE Sizes(g) == g = [n \in 0 .. Len(files) |->
            IF n = 0 THEN 0 ELSE Cardinality(files[n].entries) + g[n - 1]]
<1>1. TotalFileSize(files) = (CHOOSE g : Sizes(g))[Len(files)] BY DEF TotalFileSize
<1>2. PICK N \in Nat : N = Len(files) OBVIOUS
<1>3. \A n \in 1 .. N : Cardinality(files[n].entries) \in Nat
  <2> TAKE n \in 1 .. N
  <2>0. files[n] \in Table BY <1>2
  <2>1. files[n].entries \subseteq Entry BY <2>0, TableIs
  <2>2. IsFiniteSet(files[n].entries) BY <2>1, EntryFinite, FS_Subset
  <2> QED BY <2>2, FS_CardinalityType
<1>4. PICK h : h = [p \in Nat \X Nat |->
            IF p[1] \in 1 .. N THEN Cardinality(files[p[1]].entries) + p[2] ELSE 0]
  OBVIOUS
<1>5. h \in [Nat \X Nat -> Nat] BY <1>3, <1>4
<1>6. PICK f : Recurs(Nat, 0, h, N, f)
  <2>1. 0 \in Nat OBVIOUS
  <2> QED BY ONLY <1>2, <1>5, <2>1, Recursive
<1>7. \A n \in 0 .. N : f[n] = IF n = 0 THEN 0 ELSE Cardinality(files[n].entries) + f[n - 1]
  <2> TAKE n \in 0 .. N
  <2>1. CASE n = 0 BY <1>6, <2>1 DEF Recurs
  <2>2. CASE n # 0
    <3>1. n - 1 \in 0 .. N /\ n \in Nat /\ n \in 1 .. N BY <1>2, <2>2
    <3>2. <<n, f[n - 1]>> \in Nat \X Nat BY <1>6, <3>1 DEF Recurs
    <3>3. h[<<n, f[n - 1]>>] = Cardinality(files[n].entries) + f[n - 1]
      BY <1>4, <3>1, <3>2
    <3> QED BY <1>6, <2>2, <3>3 DEF Recurs
  <2> QED BY <2>1, <2>2
<1>8. \E g : Sizes(g)
  <2>1. f = [n \in 0 .. N |-> f[n]] BY <1>6 DEF Recurs
  <2>2. f = [n \in 0 .. N |-> IF n = 0 THEN 0 ELSE Cardinality(files[n].entries) + f[n - 1]]
    BY <1>7, <2>1
  <2>3. Sizes(f) BY <1>2, <2>2
  <2> QED BY <2>3
<1>9. PICK size : size = CHOOSE g : Sizes(g) OBVIOUS
<1>10. Sizes(size)
  <2> HIDE DEF Sizes
  <2> QED BY <1>8, <1>9
<1>11. \A n \in 0 .. N : size[n] = IF n = 0 THEN 0
                                   ELSE Cardinality(files[n].entries) + size[n - 1]
  BY <1>2, <1>10
<1> HIDE DEF Sizes
<1>12. PICK T : T = {n \in 0 .. N : size[n] \in Nat} OBVIOUS
<1>13. T = 0 .. N
  <2>1. 0 \in T BY <1>2, <1>11, <1>12
  <2>2. \A n \in 0 .. N - 1 : n \in T => n + 1 \in T
    <3> TAKE n \in 0 .. N - 1
    <3>1. PICK m \in 0 .. N : m = n + 1 /\ m - 1 = n /\ m # 0 /\ m \in 1 .. N BY <1>2
    <3>2. size[m] = Cardinality(files[m].entries) + size[m - 1] BY <1>11, <3>1
    <3>3. Cardinality(files[m].entries) \in Nat BY <1>3, <3>1
    <3> QED BY <1>12, <3>1, <3>2, <3>3
  <2> QED BY <1>2, <1>12, <2>1, <2>2, AlongIt
<1>14. size[N] \in Nat BY <1>2, <1>12, <1>13
<1> QED BY <1>1, <1>2, <1>9, <1>14

\* The tables written and the open one, of the entries X, in their order.
Written(outputs, open, X) ==
    /\ outputs \in Seq((SUBSET Entry) \ {{}}) /\ open \subseteq Entry
    /\ X = open \cup UNION ToSet(outputs)
    /\ \A i, j \in DOMAIN outputs : i < j =>
            \A d \in outputs[i] : \A e \in outputs[j] : Before(d, e)
    /\ \A i \in DOMAIN outputs : \A d \in outputs[i] : \A e \in open : Before(d, e)

\* A later entry enters the open table.
LEMMA WrittenOpen ==
    ASSUME NEW o, NEW p, NEW X, Written(o, p, X), NEW e \in Entry,
           \A d \in X : Before(d, e)
    PROVE  Written(o, p \cup {e}, X \cup {e})
<1>1. \A i \in DOMAIN o : \A d \in o[i] : d \in X
  <2> TAKE i \in DOMAIN o
  <2>1. o[i] \in ToSet(o) BY ElementsOf DEF Written
  <2> QED BY <2>1 DEF Written
<1> QED BY <1>1 DEF Written

\* The open table is closed.
LEMMA WrittenClose ==
    ASSUME NEW o, NEW p, NEW X, Written(o, p, X), p # {}
    PROVE  Written(o \o <<p>>, {}, X)
<1>1. PICK S : S = (SUBSET Entry) \ {{}} OBVIOUS
<1>2. o \in Seq(S) /\ p \in S BY <1>1 DEF Written
<1>3. PICK q : q = o \o <<p>> OBVIOUS
<1>4. /\ q \in Seq(S) /\ Len(q) = Len(o) + 1
      /\ \A i \in 1 .. Len(o) : q[i] = o[i]
      /\ q[Len(o) + 1] = p
  BY <1>2, <1>3
<1>5. ToSet(q) = ToSet(o) \cup {p}
  <2>1. PICK t : t = <<p>> OBVIOUS
  <2>2. t \in Seq(S) /\ ToSet(t) = {p} BY <1>2, <2>1 DEF ToSet
  <2>3. ToSet(o \o t) = ToSet(o) \cup ToSet(t) BY ONLY <1>2, <2>2, ElementsOfConcat
  <2> QED BY <1>3, <2>1, <2>2, <2>3
<1>6. X = {} \cup UNION ToSet(q) BY <1>5 DEF Written
<1>7. \A i, j \in DOMAIN q : i < j =>
            \A d \in q[i] : \A e \in q[j] : Before(d, e)
  <2> SUFFICES ASSUME NEW i \in DOMAIN q, NEW j \in DOMAIN q, i < j,
                      NEW d \in q[i], NEW e \in q[j]
               PROVE  Before(d, e)
    OBVIOUS
  <2>1. i \in 1 .. Len(o) /\ j \in 1 .. Len(o) + 1 /\ Len(o) \in Nat /\ DOMAIN o = 1 .. Len(o)
    BY <1>2, <1>4
  <2>2. CASE j \in 1 .. Len(o)
    <3>1. d \in o[i] /\ e \in o[j] BY <1>4, <2>1, <2>2
    <3> QED BY <2>1, <2>2, <3>1 DEF Written
  <2>3. CASE j = Len(o) + 1
    <3>1. d \in o[i] /\ e \in p BY <1>4, <2>1, <2>3
    <3> QED BY <2>1, <3>1 DEF Written
  <2> QED BY <2>1, <2>2, <2>3
<1> QED BY <1>1, <1>3, <1>4, <1>6, <1>7 DEF Written

\* What the loop of DoCompactionWork carries along.
Working(grandparents) ==
    [outputs : Seq(SUBSET Entry), open : SUBSET Entry,
     grandparent_index : 1 .. Len(grandparents) + 1, overlapped : Nat, seen_key : BOOLEAN]

\* One round of the loop: the entry is dropped or written after the others.
LEMMA AddIs ==
    ASSUME NEW c, c.grandparents \in Seq(Table), NEW snap, NEW e \in Entry,
           NEW w \in Working(c.grandparents)
    PROVE  LET a == Add(c, snap, w, e)
           IN  /\ a \in Working(c.grandparents)
               /\ \A X : Written(w.outputs, w.open, X) /\ (\A d \in X : Before(d, e)) =>
                    Written(a.outputs, a.open, X \cup (IF Drop(c, snap, e) THEN {} ELSE {e}))
<1>1. PICK gp \in Seq(Table) : gp = c.grandparents OBVIOUS
<1>2. PICK gi \in 1 .. Len(gp) + 1 : gi = w.grandparent_index BY <1>1 DEF Working
<1>3. PICK passed : passed = {i \in DOMAIN gp : /\ i >= gi
                    /\ \A j \in gi .. i : Before(Largest(gp[j]), e)}
  OBVIOUS
<1>4. passed \subseteq gi .. Len(gp) BY <1>1, <1>2, <1>3
<1>5. PICK n \in Nat : n = Cardinality(passed) /\ gi + n <= Len(gp) + 1
  <2>1. Len(gp) \in Nat /\ gi \in Nat OBVIOUS
  <2>0. Len(gp) \in Int /\ gi \in Int BY <2>1
  <2>2. IsFiniteSet(gi .. Len(gp)) /\ Cardinality(gi .. Len(gp)) = Len(gp) - gi + 1
    <3>1. gi > Len(gp) \/ gi <= Len(gp) BY <2>1
    <3>2. IsFiniteSet(gi .. Len(gp)) /\ Cardinality(gi .. Len(gp)) =
                IF gi > Len(gp) THEN 0 ELSE Len(gp) - gi + 1
      BY <2>1, <2>0, FS_Interval
    <3>3. gi > Len(gp) => Len(gp) - gi + 1 = 0 BY <1>2, <2>1
    <3> QED BY <3>2, <3>3
  <2>3. Cardinality(passed) <= Cardinality(gi .. Len(gp)) /\ IsFiniteSet(passed)
    BY <1>4, <2>2, FS_Subset
  <2>4. Cardinality(passed) \in Nat BY <2>3, FS_CardinalityType
  <2> QED BY <2>1, <2>2, <2>3, <2>4
<1>6. PICK skipped : skipped = [i \in 1 .. n |-> gp[gi + i - 1]] OBVIOUS
<1>7. TotalFileSize(skipped) \in Nat
  <2>1. \A i \in 1 .. n : gi + i - 1 \in 1 .. Len(gp) BY <1>5
  <2>2. \A i \in 1 .. n : gp[gi + i - 1] \in Table
    <3>1. \A j \in 1 .. Len(gp) : gp[j] \in Table OBVIOUS
    <3> QED BY ONLY <2>1, <3>1
  <2>3. skipped \in Seq(Table) BY <1>5, <1>6, <2>2
  <2> QED BY <2>3, TotalIs
<1>8. PICK overlapped \in Nat : overlapped = w.overlapped
                        + (IF w.seen_key THEN TotalFileSize(skipped) ELSE 0)
  BY <1>7 DEF Working
<1>9. PICK stop : stop = (overlapped > GrandParentLimit) OBVIOUS
<1>10. PICK split \in BOOLEAN : split = (stop /\ w.open # {}) OBVIOUS
<1>11. PICK keep \in BOOLEAN : keep = ~Drop(c, snap, e) OBVIOUS
<1>12. PICK begun : begun = IF split THEN {} ELSE w.open OBVIOUS
<1>13. PICK closed : closed = w.outputs \o (IF split THEN <<w.open>> ELSE <<>>) OBVIOUS
<1>14. PICK open : open = begun \cup (IF keep THEN {e} ELSE {}) OBVIOUS
<1>15. PICK full \in BOOLEAN : full = (keep /\ Cardinality(open) >= TargetFileSize) OBVIOUS
<1>16. PICK a : a = Add(c, snap, w, e) OBVIOUS
<1>17. a = [outputs |-> closed \o (IF full THEN <<open>> ELSE <<>>),
            open |-> IF full THEN {} ELSE open,
            grandparent_index |-> gi + n,
            overlapped |-> IF stop THEN 0 ELSE overlapped,
            seen_key |-> TRUE]
  BY <1>1, <1>2, <1>3, <1>5, <1>6, <1>8, <1>9, <1>10, <1>11, <1>12, <1>13, <1>14, <1>15, <1>16
     DEF Add
<1>18. /\ w.outputs \in Seq(SUBSET Entry) /\ w.open \in SUBSET Entry BY DEF Working
<1>19. closed \in Seq(SUBSET Entry) /\ begun \in SUBSET Entry
  <2>1. w.outputs \o <<w.open>> \in Seq(SUBSET Entry) /\ w.outputs \o <<>> = w.outputs
    BY <1>18
  <2> QED BY <1>12, <1>13, <1>18, <2>1
<1>20. open \in SUBSET Entry BY <1>14, <1>19
<1>21. a \in Working(gp)
  <2>1. a.outputs \in Seq(SUBSET Entry)
    <3>1. closed \o <<open>> \in Seq(SUBSET Entry) /\ closed \o <<>> = closed
      BY <1>19, <1>20
    <3> QED BY <1>17, <1>19, <3>1
  <2>2. a.open \in SUBSET Entry BY <1>17, <1>20
  <2>3. gi + n \in 1 .. Len(gp) + 1 BY <1>2, <1>5
  <2>4. (IF stop THEN 0 ELSE overlapped) \in Nat BY <1>8
  <2>5. PICK x, y, z, t : /\ x = a.outputs /\ y = a.open /\ z = gi + n
                          /\ t = IF stop THEN 0 ELSE overlapped
    OBVIOUS
  <2>6. a = [outputs |-> x, open |-> y, grandparent_index |-> z, overlapped |-> t,
             seen_key |-> TRUE]
    BY <1>17, <2>5
  <2> QED BY <2>1, <2>2, <2>3, <2>4, <2>5, <2>6 DEF Working
<1>22. ASSUME NEW X, Written(w.outputs, w.open, X), \A d \in X : Before(d, e)
       PROVE  Written(a.outputs, a.open, X \cup (IF Drop(c, snap, e) THEN {} ELSE {e}))
  <2>1. Written(closed, begun, X)
    <3>1. CASE split
      <4>1. Written(w.outputs \o <<w.open>>, {}, X) BY <1>10, <1>22, <3>1, WrittenClose
      <4> QED BY <1>12, <1>13, <3>1, <4>1
    <3>2. CASE ~split
      <4>1. closed = w.outputs BY <1>13, <1>18, <3>2
      <4> QED BY <1>12, <1>22, <3>2, <4>1
    <3> QED BY <3>1, <3>2
  <2>2. PICK Y : Y = X \cup (IF Drop(c, snap, e) THEN {} ELSE {e}) OBVIOUS
  <2>3. Written(closed, open, Y)
    <3>1. CASE keep
      <4>1. Written(closed, begun \cup {e}, X \cup {e}) BY <1>22, <2>1, WrittenOpen
      <4> QED BY <1>11, <1>14, <2>2, <3>1, <4>1
    <3>2. CASE ~keep
      <4>1. open = begun /\ Y = X BY <1>11, <1>14, <2>2, <3>2
      <4> QED BY <2>1, <4>1
    <3> QED BY <3>1, <3>2
  <2>4. Written(a.outputs, a.open, Y)
    <3>1. CASE full
      <4>1. open # {} BY <1>14, <1>15, <3>1
      <4>2. Written(closed \o <<open>>, {}, Y) BY <2>3, <4>1, WrittenClose
      <4> QED BY <1>17, <3>1, <4>2
    <3>2. CASE ~full
      <4>1. a.outputs = closed BY <1>17, <1>19, <3>2
      <4>2. a.open = open BY <1>17, <3>2
      <4> QED BY <2>3, <4>1, <4>2
    <3> QED BY <3>1, <3>2
  <2> QED BY <2>2, <2>4
<1> QED BY <1>1, <1>16, <1>21, <1>22

\* The merging iterator yields the entries in order.
LEMMA SortedEntries ==
    ASSUME NEW S \in SUBSET Entry
    PROVE  /\ Sorted(S, Before) \in Seq(Entry)
           /\ ToSet(Sorted(S, Before)) = S
           /\ \A i, j \in DOMAIN Sorted(S, Before) :
                i < j => Before(Sorted(S, Before)[i], Sorted(S, Before)[j])
<1>1. PICK q : q = Ranked(S, BeforeR) OBVIOUS
<1>2. \A x \in S : Rank(S, BeforeR, x) = Cardinality({y \in S : Before(y, x)})
  <2> TAKE x \in S
  <2>1. {y \in S : <<y, x>> \in BeforeR} = {y \in S : Before(y, x)} BY DEF BeforeR
  <2> QED BY <2>1 DEF Rank
<1>3. Sorted(S, Before) = q
  <2>1. \A i : (CHOOSE x \in S : Rank(S, BeforeR, x) = i - 1)
                = (CHOOSE x \in S : Cardinality({y \in S : Before(y, x)}) = i - 1)
    BY <1>2
  <2>2. Sorted(S, Before) = [i \in 1 .. Cardinality(S) |->
            CHOOSE x \in S : Cardinality({y \in S : Before(y, x)}) = i - 1]
    BY DEF Sorted
  <2>3. Ranked(S, BeforeR) = [i \in 1 .. Cardinality(S) |->
            CHOOSE x \in S : Cardinality({y \in S : Before(y, x)}) = i - 1]
    BY <2>1 DEF Ranked
  <2> QED BY <1>1, <2>2, <2>3
<1>4. IsFiniteSet(S) /\ StrictOrder(S, BeforeR) BY EntryFinite, FS_Subset, BeforeStrict
<1>5. PICK n \in Nat : n = Cardinality(S) BY <1>4, FS_CardinalityType
<1>6. /\ q \in [1 .. n -> S]
      /\ \A x \in S : \E i \in 1 .. n : q[i] = x
      /\ \A i, j \in 1 .. n : i < j => <<q[i], q[j]>> \in BeforeR
  BY <1>1, <1>4, <1>5, RankedIs
<1>7. q \in Seq(Entry) /\ DOMAIN q = 1 .. n BY <1>5, <1>6
<1>8. ToSet(q) = S BY <1>6, <1>7 DEF ToSet
<1>9. \A i, j \in 1 .. n : i < j => Before(q[i], q[j]) BY <1>6 DEF BeforeR
<1> QED BY <1>3, <1>7, <1>8, <1>9

\* Files by falling numbers.
NumberR == {p \in Table \X Table : p[1].number > p[2].number}

\* NewestFirst: the files of level 0 by falling numbers.
LEMMA SortedNumbers ==
    ASSUME NEW S \in SUBSET Table, Numbered(S), IsFiniteSet(S)
    PROVE  LET q == [i \in 1 .. Cardinality(S) |->
                        CHOOSE x \in S : Cardinality({y \in S : y.number > x.number}) = i - 1]
           IN  /\ q \in Seq(Table) /\ ToSet(q) = S
               /\ \A i, j \in DOMAIN q : i < j => q[i].number > q[j].number
<1>1. PICK q : q = [i \in 1 .. Cardinality(S) |->
            CHOOSE x \in S : Cardinality({y \in S : y.number > x.number}) = i - 1]
  OBVIOUS
<1>2. \A x \in S : Rank(S, NumberR, x) = Cardinality({y \in S : y.number > x.number})
  <2> TAKE x \in S
  <2>1. {y \in S : <<y, x>> \in NumberR} = {y \in S : y.number > x.number} BY DEF NumberR
  <2> QED BY <2>1 DEF Rank
<1>3. q = Ranked(S, NumberR)
  <2> DEFINE ByRank(i) == CHOOSE x \in S : Rank(S, NumberR, x) = i - 1
             ByNumber(i) == CHOOSE x \in S : Cardinality({y \in S : y.number > x.number}) = i - 1
  <2>1. \A i : ByRank(i) = ByNumber(i) BY <1>2
  <2>2. Ranked(S, NumberR) = [i \in 1 .. Cardinality(S) |-> ByRank(i)] BY DEF Ranked
  <2>3. q = [i \in 1 .. Cardinality(S) |-> ByNumber(i)] BY <1>1
  <2> HIDE DEF ByRank, ByNumber
  <2> QED BY <2>1, <2>2, <2>3
<1>4. StrictOrder(S, NumberR)
  <2>1. \A f \in S : f \in Table /\ f.number \in Nat BY TableIs
  <2>2. \A f \in S : <<f, f>> \notin NumberR BY <2>1 DEF NumberR
  <2>3. \A x, y, z \in S : <<x, y>> \in NumberR /\ <<y, z>> \in NumberR => <<x, z>> \in NumberR
    BY <2>1 DEF NumberR
  <2>4. \A x, y \in S : x = y \/ <<x, y>> \in NumberR \/ <<y, x>> \in NumberR
    <3> TAKE x, y \in S
    <3>1. x.number = y.number \/ x.number > y.number \/ y.number > x.number BY <2>1
    <3> QED BY <2>1, <3>1 DEF NumberR, Numbered
  <2> QED BY <2>2, <2>3, <2>4 DEF StrictOrder
<1>5. PICK n \in Nat : n = Cardinality(S) BY FS_CardinalityType
<1>6. /\ q \in [1 .. n -> S]
      /\ \A x \in S : \E i \in 1 .. n : q[i] = x
      /\ \A i, j \in 1 .. n : i < j => <<q[i], q[j]>> \in NumberR
  BY <1>3, <1>4, <1>5, RankedIs
<1>7. q \in Seq(Table) /\ DOMAIN q = 1 .. n BY <1>5, <1>6
<1>8. ToSet(q) = S BY <1>6, <1>7 DEF ToSet
<1>9. \A i, j \in 1 .. n : i < j => q[i].number > q[j].number BY <1>6 DEF NumberR
<1> QED BY <1>1, <1>7, <1>8, <1>9

\* The entries a compaction keeps, in tables that follow each other.
LEMMA DoCompactionWorkIs ==
    ASSUME NEW c, c.inputs[1] \in Seq(Table), c.inputs[2] \in Seq(Table),
           c.grandparents \in Seq(Table), NEW snap
    PROVE  LET D == DoCompactionWork(c, snap)
           IN  /\ D \in Seq((SUBSET Entry) \ {{}})
               /\ UNION ToSet(D) = {e \in Entries(c.inputs[1] \o c.inputs[2]) : ~Drop(c, snap, e)}
               /\ \A i, j \in DOMAIN D : i < j =>
                    \A d \in D[i] : \A e \in D[j] : Before(d, e)
<1>1. PICK E : E = Entries(c.inputs[1] \o c.inputs[2]) OBVIOUS
<1>2. E \in SUBSET Entry
  <2>1. PICK io : io = c.inputs[1] \o c.inputs[2] OBVIOUS
  <2>4. io \in Seq(Table) BY <2>1
  <2>2. ToSet(c.inputs[1] \o c.inputs[2]) \subseteq Table
    <3>1. ToSet(io) \subseteq Table BY ONLY <2>4, ElementsOf
    <3> QED BY <2>1, <3>1
  <2>3. \A f \in ToSet(c.inputs[1] \o c.inputs[2]) : f.entries \subseteq Entry BY <2>2, TableIs
  <2> QED BY <1>1, <2>3 DEF Entries
<1>3. PICK input : input = Sorted(E, Before) OBVIOUS
<1>4. /\ input \in Seq(Entry) /\ ToSet(input) = E
      /\ \A i, j \in DOMAIN input : i < j => Before(input[i], input[j])
  BY <1>2, <1>3, SortedEntries
<1>5. PICK N \in Nat : N = Len(input) /\ DOMAIN input = 1 .. N BY <1>4
<1>6. PICK start : start = [outputs |-> <<>>, open |-> {}, grandparent_index |-> 1,
                  overlapped |-> 0, seen_key |-> FALSE]
  OBVIOUS
<1> DEFINE Afters(g) == g = [n \in 0 .. N |->
                IF n = 0 THEN start ELSE Add(c, snap, g[n - 1], input[n])]
<1>7. PICK after : after = CHOOSE g : Afters(g) OBVIOUS
<1>8. DoCompactionWork(c, snap) = after[N].outputs \o
            (IF after[N].open = {} THEN <<>> ELSE <<after[N].open>>)
  BY <1>1, <1>3, <1>5, <1>6, <1>7 DEF DoCompactionWork
<1>9. PICK W : W = Working(c.grandparents) OBVIOUS
<1>10. start \in W
  <2>1. 1 \in 1 .. Len(c.grandparents) + 1 OBVIOUS
  <2>2. <<>> \in Seq(SUBSET Entry) /\ {} \in SUBSET Entry OBVIOUS
  <2> QED BY <1>6, <1>9, <2>1, <2>2 DEF Working
<1>11. \A n \in 1 .. N : \A w \in W : Add(c, snap, w, input[n]) \in W
  <2> TAKE n \in 1 .. N
  <2> TAKE w \in W
  <2>1. input[n] \in Entry BY <1>4, <1>5
  <2>2. w \in Working(c.grandparents) BY <1>9
  <2>3. Add(c, snap, w, input[n]) \in Working(c.grandparents)
    BY ONLY c.grandparents \in Seq(Table), <2>1, <2>2, AddIs
  <2> QED BY <1>9, <2>3
<1>12. \E g : Afters(g)
  <2>1. PICK h : h = [p \in Nat \X W |->
                        IF p[1] \in 1 .. N THEN Add(c, snap, p[2], input[p[1]]) ELSE p[2]]
    OBVIOUS
  <2>2. h \in [Nat \X W -> W] BY <1>11, <2>1
  <2>3. PICK g : Recurs(W, start, h, N, g) BY ONLY <1>5, <1>10, <2>2, Recursive
  <2>4. \A n \in 0 .. N : g[n] = IF n = 0 THEN start ELSE Add(c, snap, g[n - 1], input[n])
    <3> TAKE n \in 0 .. N
    <3>1. CASE n = 0 BY <2>3, <3>1 DEF Recurs
    <3>2. CASE n # 0
      <4>1. n - 1 \in 0 .. N /\ n \in Nat /\ n \in 1 .. N BY <1>5, <3>2
      <4>2. <<n, g[n - 1]>> \in Nat \X W BY <2>3, <4>1 DEF Recurs
      <4>3. h[<<n, g[n - 1]>>] = Add(c, snap, g[n - 1], input[n]) BY <2>1, <4>1, <4>2
      <4> QED BY <2>3, <3>2, <4>3 DEF Recurs
    <3> QED BY <3>1, <3>2
  <2>5. g = [n \in 0 .. N |-> g[n]] BY <2>3 DEF Recurs
  <2>6. g = [n \in 0 .. N |-> IF n = 0 THEN start ELSE Add(c, snap, g[n - 1], input[n])]
    BY <2>4, <2>5
  <2> QED BY <2>6
<1>13. Afters(after)
  <2> HIDE DEF Afters
  <2> QED BY <1>7, <1>12
<1>14. \A n \in 0 .. N : after[n] = IF n = 0 THEN start
                                    ELSE Add(c, snap, after[n - 1], input[n])
  BY <1>13
<1> HIDE DEF Afters
<1> DEFINE Kept(n) == {input[i] : i \in {j \in 1 .. n : ~Drop(c, snap, input[j])}}
           Good(n) == after[n] \in W /\ Written(after[n].outputs, after[n].open, Kept(n))
<1>15. Good(0)
  <2>1. after[0] = start BY <1>5, <1>14
  <2>2. Kept(0) = {} OBVIOUS
  <2>3. Written(<<>>, {}, {})
    <3>1. ToSet(<<>>) = {} BY DEF ToSet
    <3>2. <<>> \in Seq((SUBSET Entry) \ {{}}) /\ DOMAIN <<>> = {} OBVIOUS
    <3> QED BY <3>1, <3>2 DEF Written
  <2>4. start.outputs = <<>> /\ start.open = {} BY <1>6
  <2> HIDE DEF Kept
  <2>5. Written(after[0].outputs, after[0].open, Kept(0)) BY <2>1, <2>2, <2>3, <2>4
  <2> QED BY <1>10, <2>1, <2>5
<1>16. ASSUME NEW n \in 0 .. N - 1, Good(n) PROVE Good(n + 1)
  <2>1. PICK m \in 1 .. N : m = n + 1 /\ m - 1 = n /\ m # 0 /\ m \in 0 .. N BY <1>5
  <2>2. after[m] = Add(c, snap, after[n], input[m]) BY <1>14, <2>1
  <2>3. input[m] \in Entry BY <1>4, <1>5, <2>1
  <2>4. \A d \in Kept(n) : Before(d, input[m])
    <3> TAKE d \in Kept(n)
    <3>1. PICK i \in 1 .. n : d = input[i] OBVIOUS
    <3>2. i \in 1 .. N /\ i < m BY <1>5, <2>1
    <3> QED BY <1>4, <1>5, <3>1, <3>2
  <2>5. Kept(m) = Kept(n) \cup (IF Drop(c, snap, input[m]) THEN {} ELSE {input[m]})
    <3>1. 1 .. m = (1 .. n) \cup {m} BY <1>5, <2>1
    <3> QED BY <3>1
  <2>6. PICK X : X = Kept(n) OBVIOUS
  <2>7. PICK w \in W : w = after[n] /\ Written(w.outputs, w.open, X) BY <1>16, <2>6
  <2>8. PICK a : a = Add(c, snap, w, input[m]) OBVIOUS
  <2>9. \A d \in X : Before(d, input[m]) BY <2>4, <2>6
  <2> HIDE DEF Kept
  <2>10. a \in W /\ Written(a.outputs, a.open,
                        X \cup (IF Drop(c, snap, input[m]) THEN {} ELSE {input[m]}))
    BY <1>9, <2>3, <2>7, <2>8, <2>9, AddIs
  <2>11. after[m] = a BY <2>2, <2>7, <2>8
  <2> QED BY <2>1, <2>5, <2>6, <2>10, <2>11
<1>17. PICK T : T = {n \in 0 .. N : Good(n)} OBVIOUS
<1>18. T = 0 .. N
  <2> HIDE DEF Good
  <2>1. 0 \in T BY <1>5, <1>15, <1>17
  <2>2. \A n \in 0 .. N - 1 : n \in T => n + 1 \in T BY <1>5, <1>16, <1>17
  <2> QED BY <1>5, <1>17, <2>1, <2>2, AlongIt
<1>19. after[N] \in W /\ Written(after[N].outputs, after[N].open, Kept(N))
  <2>1. N \in T BY <1>5, <1>18
  <2>2. Good(N)
    <3> HIDE DEF Good
    <3> QED BY <1>17, <2>1
  <2> HIDE DEF Kept
  <2> QED BY <2>2
<1>20. Kept(N) = {e \in E : ~Drop(c, snap, e)}
  <2>1. \A e \in E : \E i \in 1 .. N : input[i] = e BY <1>4, <1>5, ElementsOf
  <2>2. \A i \in 1 .. N : input[i] \in E BY <1>4, <1>5, ElementsOf
  <2> QED BY <2>1, <2>2
<1>21. PICK D : D = DoCompactionWork(c, snap) OBVIOUS
<1>22. PICK X : X = Kept(N) OBVIOUS
<1> HIDE DEF Kept
<1>23. Written(D, {}, X)
  <2>1. PICK w \in W : w = after[N] BY <1>19
  <2>2. Written(w.outputs, w.open, X) BY <1>19, <1>22, <2>1
  <2>3. CASE w.open = {}
    <3>1. w.outputs \in Seq((SUBSET Entry) \ {{}}) BY <2>2 DEF Written
    <3>2. D = w.outputs \o <<>> BY <1>8, <1>21, <2>1, <2>3
    <3>3. D = w.outputs BY <3>1, <3>2
    <3> QED BY <2>2, <2>3, <3>3
  <2>4. CASE w.open # {}
    <3>1. D = w.outputs \o <<w.open>> BY <1>8, <1>21, <2>1, <2>4
    <3> QED BY <2>2, <2>4, <3>1, WrittenClose
  <2> QED BY <2>3, <2>4
<1> QED BY <1>1, <1>20, <1>21, <1>22, <1>23 DEF Written

-----------------------------------------------------------------------------
(* What a lookup reads.                                                     *)

\* What a lookup reads.
Read == [level : Level, file : Table]
\* Where a lookup of the key at seq begins.
SeekKey(key, seq) == [key |-> key, seq |-> seq, type |-> kTypeValue]

\* The file of a level below level 0 that a lookup reads, if any.
Consulted(v, level, key, seq) ==
    LET index == FindFile(v[level], SeekKey(key, seq))
    IN  IF index > Len(v[level]) \/ BeforeFile(key, v[level][index])
        THEN <<>>
        ELSE <<[level |-> level, file |-> v[level][index]]>>

\* It is a file of the level.
LEMMA ConsultedIs ==
    ASSUME NEW v, VersionOK(v), NEW level \in Level, NEW key, NEW seq
    PROVE  /\ Consulted(v, level, key, seq) \in Seq(Read)
           /\ \A r \in ToSet(Consulted(v, level, key, seq)) :
                r.level = level /\ r.file \in ToSet(v[level])
           /\ Len(Consulted(v, level, key, seq)) <= 1
<1>1. PICK index : index = FindFile(v[level], SeekKey(key, seq)) OBVIOUS
<1>2. v[level] \in Seq(Table) BY DEF VersionOK
<1>3. index \in 1 .. Len(v[level]) + 1 BY <1>1, <1>2, FindFileIs
<1>4. PICK s : s = Consulted(v, level, key, seq) OBVIOUS
<1>5. CASE s = <<>>
  <2>1. ToSet(s) = {} BY <1>5 DEF ToSet
  <2> QED BY <1>4, <1>5, <2>1
<1>6. CASE s # <<>>
  <2>1. /\ index \in 1 .. Len(v[level])
        /\ s = <<[level |-> level, file |-> v[level][index]]>>
    BY <1>1, <1>2, <1>3, <1>4, <1>6 DEF Consulted
  <2>2. v[level][index] \in Table /\ v[level][index] \in ToSet(v[level])
    BY <1>2, <2>1, ElementsOf
  <2>3. PICK r : r = [level |-> level, file |-> v[level][index]] OBVIOUS
  <2>4. r \in Read /\ r.level = level /\ r.file \in ToSet(v[level]) BY <2>2, <2>3 DEF Read
  <2>5. s = <<r>> /\ ToSet(s) = {r} BY <2>1, <2>3 DEF ToSet
  <2> QED BY <1>4, <2>4, <2>5
<1> QED BY <1>5, <1>6

\* The files read of the levels down to n, in order.
Reading(v, key, seq, n, s) ==
    /\ s \in Seq(Read)
    /\ \A i \in DOMAIN s : s[i].level \in 0 .. n /\ s[i].file \in ToSet(v[s[i].level])
    /\ \A i, j \in DOMAIN s : i < j =>
        \/ s[i].level < s[j].level
        \/ s[i].level = 0 /\ s[j].level = 0 /\ s[i].file.number > s[j].file.number
    /\ \A r \in ToSet(s) :
        IF r.level = 0 THEN ~Outside(key, key, r.file)
        ELSE r \in ToSet(Consulted(v, r.level, key, seq))
    /\ \A f \in ToSet(v[0]) : ~Outside(key, key, f) => [level |-> 0, file |-> f] \in ToSet(s)
    /\ \A level \in 1 .. n : ToSet(Consulted(v, level, key, seq)) \subseteq ToSet(s)

\* The next level comes after those above it.
LEMMA ReadFurther ==
    ASSUME NEW v, VersionOK(v), NEW key, NEW seq, NEW n \in Nat, n + 1 \in Level,
           NEW s, Reading(v, key, seq, n, s)
    PROVE  Reading(v, key, seq, n + 1, s \o Consulted(v, n + 1, key, seq))
<1>1. PICK m \in Level : m = n + 1 /\ m # 0 /\ m > n BY DEF Level
<1>2. PICK t : t = Consulted(v, m, key, seq) OBVIOUS
<1>3. /\ t \in Seq(Read) /\ Len(t) <= 1
      /\ \A r \in ToSet(t) : r.level = m /\ r.file \in ToSet(v[m])
  BY <1>2, ConsultedIs
<1>4. PICK q : q = s \o t OBVIOUS
<1>5. s \in Seq(Read) BY DEF Reading
<1>6. q \in Seq(Read) /\ ToSet(q) = ToSet(s) \cup ToSet(t) BY <1>3, <1>4, <1>5, ElementsOfConcat
<1>7. /\ Len(q) = Len(s) + Len(t) /\ Len(s) \in Nat /\ Len(t) \in Nat
      /\ DOMAIN q = 1 .. Len(q) /\ DOMAIN s = 1 .. Len(s)
      /\ \A i \in 1 .. Len(s) : q[i] = s[i]
      /\ \A i \in Len(s) + 1 .. Len(q) : q[i] = t[i - Len(s)]
  BY <1>3, <1>4, <1>5
<1>8. \A i \in DOMAIN q :
        \/ i \in DOMAIN s /\ q[i] = s[i] /\ q[i] \in ToSet(s)
        \/ i = Len(s) + 1 /\ i \notin DOMAIN s /\ q[i] \in ToSet(t)
  <2> TAKE i \in DOMAIN q
  <2>1. CASE i \in 1 .. Len(s) BY <1>5, <1>7, <2>1, ElementsOf
  <2>2. CASE i \notin 1 .. Len(s)
    <3>1. i \in Len(s) + 1 .. Len(q) BY <1>7, <2>2
    <3>2. i = Len(s) + 1 /\ i - Len(s) = 1 /\ 1 \in 1 .. Len(t) BY <1>3, <1>7, <3>1
    <3>3. q[i] = t[1] BY <1>7, <3>1, <3>2
    <3>4. t[1] \in ToSet(t) BY <1>3, <3>2, ElementsOf
    <3> QED BY <1>7, <2>2, <3>2, <3>3, <3>4
  <2> QED BY <2>1, <2>2
<1>9. \A r \in ToSet(s) : r.level \in 0 .. n /\ r.file \in ToSet(v[r.level])
  <2> TAKE r \in ToSet(s)
  <2>1. PICK i \in 1 .. Len(s) : s[i] = r BY <1>5, ElementsOf
  <2> QED BY <1>7, <2>1 DEF Reading
<1>10. \A i \in DOMAIN q : q[i].level \in 0 .. m /\ q[i].file \in ToSet(v[q[i].level])
  <2> TAKE i \in DOMAIN q
  <2>1. CASE q[i] \in ToSet(s) BY <1>1, <1>9, <2>1
  <2>2. CASE q[i] \in ToSet(t) BY <1>1, <1>3, <2>2
  <2> QED BY <1>8, <2>1, <2>2
<1>11. \A i, j \in DOMAIN q : i < j =>
        \/ q[i].level < q[j].level
        \/ q[i].level = 0 /\ q[j].level = 0 /\ q[i].file.number > q[j].file.number
  <2> SUFFICES ASSUME NEW i \in DOMAIN q, NEW j \in DOMAIN q, i < j
               PROVE  \/ q[i].level < q[j].level
                      \/ /\ q[i].level = 0 /\ q[j].level = 0
                         /\ q[i].file.number > q[j].file.number
    OBVIOUS
  <2>1. CASE j \in DOMAIN s
    <3>1. i \in DOMAIN s BY <1>7, <2>1
    <3>2. q[i] = s[i] /\ q[j] = s[j] BY <1>7, <2>1, <3>1
    <3> QED BY <2>1, <3>1, <3>2 DEF Reading
  <2>2. CASE j \notin DOMAIN s
    <3>1. j = Len(s) + 1 /\ q[j] \in ToSet(t) BY <1>8, <2>2
    <3>2. i \in DOMAIN s /\ q[i] \in ToSet(s) BY <1>7, <1>8, <3>1
    <3>3. q[i].level \in 0 .. n /\ q[j].level = m BY <1>3, <1>9, <3>1, <3>2
    <3> QED BY <1>1, <3>3
  <2> QED BY <2>1, <2>2
<1>12. \A r \in ToSet(q) :
        IF r.level = 0 THEN ~Outside(key, key, r.file)
        ELSE r \in ToSet(Consulted(v, r.level, key, seq))
  <2> TAKE r \in ToSet(q)
  <2>1. CASE r \in ToSet(s) BY <2>1 DEF Reading
  <2>2. CASE r \in ToSet(t) BY <1>1, <1>2, <1>3, <2>2
  <2> QED BY <1>6, <2>1, <2>2
<1>13. \A f \in ToSet(v[0]) : ~Outside(key, key, f) => [level |-> 0, file |-> f] \in ToSet(q)
  BY <1>6 DEF Reading
<1>14. \A level \in 1 .. m : ToSet(Consulted(v, level, key, seq)) \subseteq ToSet(q)
  <2> TAKE level \in 1 .. m
  <2>1. CASE level = m BY <1>2, <1>6, <2>1
  <2>2. CASE level # m
    <3>1. level \in 1 .. n BY <1>1, <2>2
    <3> QED BY <1>6, <3>1 DEF Reading
  <2> QED BY <2>1, <2>2
<1>15. Reading(v, key, seq, m, q) BY <1>6, <1>10, <1>11, <1>12, <1>13, <1>14 DEF Reading
<1> QED BY <1>1, <1>2, <1>4, <1>15

\* ForEachOverlapping goes down the levels, in level 0 from the newest file.
LEMMA ForEachOverlappingIs ==
    ASSUME NEW v, VersionOK(v), NEW key, NEW seq
    PROVE  Reading(v, key, seq, NumLevels - 1, ForEachOverlapping(v, key, seq))
<1>1. PICK around : around = {f \in ToSet(v[0]) : ~Outside(key, key, f)} OBVIOUS
<1>2. PICK newest : newest = [i \in 1 .. Cardinality(around) |->
            CHOOSE x \in around : Cardinality({y \in around : y.number > x.number}) = i - 1]
  OBVIOUS
<1>3. PICK first : first = [i \in DOMAIN newest |-> [level |-> 0, file |-> newest[i]]] OBVIOUS
<1>4. PICK N \in Nat : N = NumLevels - 1 /\ Level = 0 .. N BY VersionAssumption DEF Level
<1> DEFINE UpTo(g) == g = [level \in Level |-> IF level = 0 THEN first
                                ELSE g[level - 1] \o Consulted(v, level, key, seq)]
<1>5. PICK upTo : upTo = CHOOSE g : UpTo(g) OBVIOUS
<1>6. ForEachOverlapping(v, key, seq) = upTo[N]
  BY <1>1, <1>2, <1>3, <1>4, <1>5
     DEF ForEachOverlapping, Consulted, SeekKey, Sorted
<1>7. 0 \in Level /\ v[0] \in Seq(Table) /\ Numbered(ToSet(v[0])) BY <1>4 DEF VersionOK
<1>8. around \in SUBSET Table /\ IsFiniteSet(around) /\ Numbered(around)
  <2>1. ToSet(v[0]) \subseteq Table /\ IsFiniteSet(ToSet(v[0])) BY <1>7, ElementsOf
  <2>2. IsFiniteSet(around) BY <1>1, <2>1, FS_Subset
  <2> QED BY <1>1, <1>7, <2>1, <2>2 DEF Numbered
<1>9. /\ newest \in Seq(Table) /\ ToSet(newest) = around
      /\ \A i, j \in DOMAIN newest : i < j => newest[i].number > newest[j].number
  BY <1>2, <1>8, SortedNumbers
<1>10. first \in Seq(Read) /\ DOMAIN first = DOMAIN newest
       /\ \A i \in DOMAIN newest : first[i] = [level |-> 0, file |-> newest[i]]
  <2>1. \A i \in DOMAIN newest : [level |-> 0, file |-> newest[i]] \in Read
    BY <1>7, <1>9 DEF Read
  <2>2. DOMAIN newest = 1 .. Len(newest) /\ Len(newest) \in Nat BY <1>9
  <2>3. first \in [1 .. Len(newest) -> Read] BY <1>3, <2>1, <2>2
  <2> QED BY <1>3, <2>2, <2>3
<1>11. Reading(v, key, seq, 0, first)
  <2>1. \A i \in DOMAIN first :
            /\ first[i].level = 0 /\ first[i].file = newest[i] /\ newest[i] \in around
    BY <1>9, <1>10, ElementsOf
  <2>2. \A r \in ToSet(first) : r.level = 0 /\ r.file \in around
    BY <1>10, <2>1, ElementsOf
  <2>3. \A f \in around : [level |-> 0, file |-> f] \in ToSet(first)
    <3> TAKE f \in around
    <3>1. PICK i \in 1 .. Len(newest) : newest[i] = f BY <1>9, ElementsOf
    <3>2. i \in DOMAIN newest BY <1>9, <3>1
    <3>3. first[i] = [level |-> 0, file |-> f] BY <1>10, <3>1, <3>2
    <3>4. i \in 1 .. Len(first) BY <1>10, <3>2
    <3>5. first[i] \in ToSet(first) BY <1>10, <3>4, ElementsOf
    <3> QED BY <3>3, <3>5
  <2>4. \A i, j \in DOMAIN first : i < j =>
            /\ first[i].level = 0 /\ first[j].level = 0
            /\ first[i].file.number > first[j].file.number
    BY <1>9, <1>10, <2>1
  <2>5. 1 .. 0 = {} /\ 0 \in 0 .. 0 OBVIOUS
  <2>6. \A i \in DOMAIN first : first[i].level \in 0 .. 0 /\ first[i].file \in ToSet(v[first[i].level])
    BY <1>1, <2>1
  <2>7. \A r \in ToSet(first) :
        IF r.level = 0 THEN ~Outside(key, key, r.file)
        ELSE r \in ToSet(Consulted(v, r.level, key, seq))
    BY <1>1, <2>2
  <2>8. \A f \in ToSet(v[0]) : ~Outside(key, key, f) => [level |-> 0, file |-> f] \in ToSet(first)
    BY <1>1, <2>3
  <2>9. \A level \in 1 .. 0 : ToSet(Consulted(v, level, key, seq)) \subseteq ToSet(first) OBVIOUS
  <2> QED BY <1>10, <2>4, <2>6, <2>7, <2>8, <2>9 DEF Reading
<1>12. \E g : UpTo(g)
  <2>1. PICK S : S = Seq(Read) OBVIOUS
  <2>2. first \in S BY <1>10, <2>1
  <2>3. \A n \in Level : \A s \in S : s \o Consulted(v, n, key, seq) \in S
    BY <2>1, ConsultedIs
  <2>4. PICK h : h = [p \in Nat \X S |->
                IF p[1] \in Level THEN p[2] \o Consulted(v, p[1], key, seq) ELSE p[2]]
    OBVIOUS
  <2>5. h \in [Nat \X S -> S] BY <2>3, <2>4
  <2>6. PICK g : Recurs(S, first, h, N, g) BY ONLY <1>4, <2>2, <2>5, Recursive
  <2>7. \A n \in 0 .. N : g[n] = IF n = 0 THEN first ELSE g[n - 1] \o Consulted(v, n, key, seq)
    <3> TAKE n \in 0 .. N
    <3>1. CASE n = 0 BY <2>6, <3>1 DEF Recurs
    <3>2. CASE n # 0
      <4>1. n - 1 \in 0 .. N /\ n \in Nat /\ n \in Level BY <1>4, <3>2
      <4>2. <<n, g[n - 1]>> \in Nat \X S BY <2>6, <4>1 DEF Recurs
      <4>3. h[<<n, g[n - 1]>>] = g[n - 1] \o Consulted(v, n, key, seq)
        BY <2>4, <4>1, <4>2
      <4> QED BY <2>6, <3>2, <4>3 DEF Recurs
    <3> QED BY <3>1, <3>2
  <2>8. g = [n \in 0 .. N |-> g[n]] BY <2>6 DEF Recurs
  <2>9. g = [n \in 0 .. N |-> IF n = 0 THEN first ELSE g[n - 1] \o Consulted(v, n, key, seq)]
    BY <2>7, <2>8
  <2>10. UpTo(g) BY <1>4, <2>9
  <2> QED BY <2>10
<1>13. UpTo(upTo)
  <2> HIDE DEF UpTo
  <2> QED BY <1>5, <1>12
<1>14. \A n \in 0 .. N : upTo[n] = IF n = 0 THEN first
                                   ELSE upTo[n - 1] \o Consulted(v, n, key, seq)
  BY <1>4, <1>13
<1> HIDE DEF UpTo
<1>15. PICK T : T = {n \in 0 .. N : Reading(v, key, seq, n, upTo[n])} OBVIOUS
<1>16. T = 0 .. N
  <2>1. upTo[0] = first /\ 0 \in 0 .. N BY <1>4, <1>14
  <2>2. 0 \in T BY <1>11, <1>15, <2>1
  <2>3. \A n \in 0 .. N - 1 : n \in T => n + 1 \in T
    <3> TAKE n \in 0 .. N - 1
    <3> HAVE n \in T
    <3>1. PICK m \in 0 .. N : m = n + 1 /\ m - 1 = n /\ m # 0 BY <1>4
    <3>2. upTo[m] = upTo[n] \o Consulted(v, m, key, seq) BY <1>14, <3>1
    <3>3. Reading(v, key, seq, n, upTo[n]) BY <1>15
    <3>4. n \in Nat /\ n + 1 \in Level BY <1>4, <3>1
    <3>5. PICK s : s = upTo[n] OBVIOUS
    <3>6. Reading(v, key, seq, n, s) BY <3>3, <3>5
    <3>7. Reading(v, key, seq, n + 1, s \o Consulted(v, n + 1, key, seq))
      BY ONLY VersionOK(v), <3>4, <3>6, ReadFurther
    <3>8. Reading(v, key, seq, m, upTo[m]) BY <3>1, <3>2, <3>5, <3>7
    <3> QED BY <1>15, <3>1, <3>8
  <2> QED BY <1>4, <1>15, <2>2, <2>3, AlongIt
<1>17. Reading(v, key, seq, N, upTo[N]) BY <1>4, <1>15, <1>16
<1> QED BY <1>4, <1>6, <1>17

\* The first of two files a lookup goes through is not of the last level.
LEMMA ChargedIs ==
    ASSUME NEW v, VersionOK(v), NEW key, NEW seq, Len(ForEachOverlapping(v, key, seq)) >= 2
    PROVE  Seeks(v, {ForEachOverlapping(v, key, seq)[1]})
<1>1. PICK s : s = ForEachOverlapping(v, key, seq) OBVIOUS
<1>2. Reading(v, key, seq, NumLevels - 1, s) BY <1>1, ForEachOverlappingIs
<1>3. s \in Seq(Read) /\ Len(s) >= 2 BY <1>1, <1>2 DEF Reading
<1>4. 1 \in DOMAIN s /\ 2 \in DOMAIN s BY <1>3
<1>5. s[1] \in Read BY <1>3, <1>4
<1>6. /\ s[1].level \in 0 .. NumLevels - 1 /\ s[2].level \in 0 .. NumLevels - 1
      /\ s[1].file \in ToSet(v[s[1].level])
  BY <1>2, <1>4 DEF Reading
<1>7. s[1].level < s[2].level \/ s[1].level = 0 BY <1>2, <1>4 DEF Reading
<1>8. s[1].level \in 0 .. NumLevels - 2 BY <1>6, <1>7, VersionAssumption
<1>9. s[1] = [level |-> s[1].level, file |-> s[1].file] BY <1>5 DEF Read
<1> QED BY <1>1, <1>6, <1>8, <1>9 DEF Seeks

-----------------------------------------------------------------------------
(* The store.                                                               *)

\* File numbers are used up in order and name one file of one level.
Counted(v, n) ==
    /\ \A l \in Level : \A f \in ToSet(v[l]) : f.number \in 1 .. n - 1
    /\ \A l, m \in Level : \A f \in ToSet(v[l]) : \A g \in ToSet(v[m]) :
            f.number = g.number => l = m /\ f = g

\* An edit that adds files under new numbers and moves others keeps the
\* version and the numbers in order.
LEMMA InstallIs ==
    ASSUME NEW v, VersionOK(v), NEW n \in Nat, Counted(v, n), NEW m \in Nat, n <= m,
           NEW deleted, NEW added, added \subseteq Level \X Table, IsFiniteSet(added),
           \A p, q \in added : p[2].number = q[2].number => p = q,
           \A p \in added : p[2].number \in 1 .. m - 1,
           \A p \in added : \A l \in Level : \A f \in ToSet(v[l]) :
                f.number = p[2].number => <<l, f>> \in deleted
    PROVE  LET w == Apply(v, deleted, added)
           IN  /\ VersionOK(w) /\ Counted(w, m)
               /\ \A level \in Level : ToSet(w[level]) = After(v, deleted, added, level)
               /\ \A level \in Level : \A i, j \in DOMAIN w[level] :
                    i < j => BySmallestKey(w[level][i], w[level][j])
<1>1. \A l \in Level : v[l] \in Seq(Table) BY DEF VersionOK
<1>2. ASSUME NEW l \in Level, NEW f \in After(v, deleted, added, l)
      PROVE  /\ f \in Table
             /\ \/ f \in ToSet(v[l]) /\ <<l, f>> \notin deleted
                \/ <<l, f>> \in added
  <2>1. ToSet(v[l]) \subseteq Table BY <1>1, ElementsOf
  <2> QED BY <1>2, <2>1 DEF After
<1>3. ASSUME NEW l \in Level, NEW k \in Level,
             NEW f \in After(v, deleted, added, l), NEW g \in After(v, deleted, added, k),
             f.number = g.number
      PROVE  l = k /\ f = g
  <2>1. CASE <<l, f>> \in added /\ <<k, g>> \in added
    <3>1. <<l, f>>[2] = f /\ <<k, g>>[2] = g OBVIOUS
    <3>2. <<l, f>> = <<k, g>> BY <1>3, <2>1, <3>1
    <3> QED BY <3>2
  <2>2. CASE <<l, f>> \in added /\ <<k, g>> \notin added
    <3>1. g \in ToSet(v[k]) /\ <<k, g>> \notin deleted BY <1>2, <2>2
    <3>2. <<l, f>>[2] = f OBVIOUS
    <3> QED BY <1>3, <2>2, <3>1, <3>2
  <2>3. CASE <<l, f>> \notin added /\ <<k, g>> \in added
    <3>1. f \in ToSet(v[l]) /\ <<l, f>> \notin deleted BY <1>2, <2>3
    <3>2. <<k, g>>[2] = g OBVIOUS
    <3> QED BY <1>3, <2>3, <3>1, <3>2
  <2>4. CASE <<l, f>> \notin added /\ <<k, g>> \notin added
    <3>1. f \in ToSet(v[l]) /\ g \in ToSet(v[k]) BY <1>2, <2>4
    <3> QED BY <1>3, <3>1 DEF Counted
  <2> QED BY <2>1, <2>2, <2>3, <2>4
<1>4. ASSUME NEW l \in Level, NEW f \in After(v, deleted, added, l)
      PROVE  f.number \in 1 .. m - 1
  <2>1. CASE f \in ToSet(v[l]) BY <2>1 DEF Counted
  <2>2. CASE <<l, f>> \in added
    <3>1. <<l, f>>[2] = f OBVIOUS
    <3> QED BY <2>2, <3>1
  <2> QED BY <1>2, <1>4, <2>1, <2>2
<1>5. \A l \in Level : After(v, deleted, added, l) \in SUBSET Table BY <1>2
<1>6. \A l \in Level : Numbered(After(v, deleted, added, l)) BY <1>3 DEF Numbered
<1>7. \A l \in Level : IsFiniteSet(After(v, deleted, added, l))
  <2> TAKE l \in Level
  <2>1. IsFiniteSet(ToSet(v[l])) BY <1>1, ElementsOf
  <2>2. IsFiniteSet({p[2] : p \in added})
    <3>1. PICK F : F = [p \in added |-> p[2]] OBVIOUS
    <3>2. IsFiniteSet({F[p] : p \in added})
      <4>1. F \in [added -> {F[p] : p \in added}] BY <3>1
      <4>2. F \in Surjection(added, {F[p] : p \in added}) BY <4>1 DEF Surjection
      <4> QED BY <4>2, FS_Surjection
    <3>3. {F[p] : p \in added} = {p[2] : p \in added} BY <3>1
    <3> QED BY <3>2, <3>3
  <2>3. IsFiniteSet(ToSet(v[l]) \cup {p[2] : p \in added}) BY <2>1, <2>2, FS_Union
  <2>4. After(v, deleted, added, l) \subseteq ToSet(v[l]) \cup {p[2] : p \in added} BY DEF After
  <2> QED BY <2>3, <2>4, FS_Subset
<1>8. PICK w : w = Apply(v, deleted, added) OBVIOUS
<1>9. /\ VersionOK(w)
      /\ \A level \in Level : ToSet(w[level]) = After(v, deleted, added, level)
      /\ \A level \in Level : \A i, j \in DOMAIN w[level] :
            i < j => BySmallestKey(w[level][i], w[level][j])
  BY ONLY <1>5, <1>6, <1>7, <1>8, ApplyIs
<1>10. Counted(w, m)
  <2>1. \A l \in Level : \A f \in ToSet(w[l]) : f.number \in 1 .. m - 1 BY <1>4, <1>9
  <2>2. \A l, k \in Level : \A f \in ToSet(w[l]) : \A g \in ToSet(w[k]) :
            f.number = g.number => l = k /\ f = g
    BY <1>3, <1>9
  <2> QED BY <2>1, <2>2 DEF Counted
<1> QED BY <1>8, <1>9, <1>10

\* The fresh tables of a compaction.
Fresh(level, n, tables) ==
    {<<level, [number |-> n + i - 1, entries |-> tables[i]]>> : i \in DOMAIN tables}

\* The tables a compaction adds have new numbers, each its own.
LEMMA FreshIs ==
    ASSUME NEW level \in Level, NEW n \in Nat, n # 0,
           NEW tables \in Seq((SUBSET Entry) \ {{}})
    PROVE  LET added == Fresh(level, n, tables)
           IN  /\ n + Len(tables) \in Nat /\ n <= n + Len(tables)
               /\ added \subseteq Level \X Table /\ IsFiniteSet(added)
               /\ \A p, q \in added : p[2].number = q[2].number => p = q
               /\ \A p \in added : p[2].number \in n .. n + Len(tables) - 1
<1>1. PICK added : added = Fresh(level, n, tables) OBVIOUS
<1>2. DOMAIN tables = 1 .. Len(tables) /\ Len(tables) \in Nat OBVIOUS
<1>3. \A i \in 1 .. Len(tables) :
        /\ tables[i] \in (SUBSET Entry) \ {{}}
        /\ n + i - 1 \in n .. n + Len(tables) - 1 /\ n + i - 1 \in Nat
  OBVIOUS
<1>4. \A i \in 1 .. Len(tables) : [number |-> n + i - 1, entries |-> tables[i]] \in Table
  BY <1>3 DEF Table
<1>5. \A p \in added : \E i \in 1 .. Len(tables) :
            p = <<level, [number |-> n + i - 1, entries |-> tables[i]]>>
  BY <1>1, <1>2 DEF Fresh
<1>6. \A p \in added : \E i \in 1 .. Len(tables) :
            /\ p = <<level, [number |-> n + i - 1, entries |-> tables[i]]>>
            /\ p[2].number = n + i - 1
  BY <1>5
<1>7. added \subseteq Level \X Table BY <1>4, <1>5
<1>8. \A p, q \in added : p[2].number = q[2].number => p = q
  <2> SUFFICES ASSUME NEW p \in added, NEW q \in added, p[2].number = q[2].number
               PROVE  p = q
    OBVIOUS
  <2>1. PICK i \in 1 .. Len(tables) :
            /\ p = <<level, [number |-> n + i - 1, entries |-> tables[i]]>>
            /\ p[2].number = n + i - 1
    BY <1>6
  <2>2. PICK j \in 1 .. Len(tables) :
            /\ q = <<level, [number |-> n + j - 1, entries |-> tables[j]]>>
            /\ q[2].number = n + j - 1
    BY <1>6
  <2>3. i = j BY <2>1, <2>2
  <2> QED BY <2>1, <2>2, <2>3
<1>9. IsFiniteSet(added)
  <2>1. PICK F : F = [i \in 1 .. Len(tables) |->
                        <<level, [number |-> n + i - 1, entries |-> tables[i]]>>]
    OBVIOUS
  <2>2. F \in [1 .. Len(tables) -> added] BY <1>1, <1>2, <2>1 DEF Fresh
  <2>3. \A p \in added : \E i \in 1 .. Len(tables) : F[i] = p BY <1>5, <2>1
  <2>4. F \in Surjection(1 .. Len(tables), added) BY <2>2, <2>3 DEF Surjection
  <2>5. IsFiniteSet(1 .. Len(tables)) BY <1>2, FS_Interval
  <2> QED BY <2>4, <2>5, FS_Surjection
<1>10. \A p \in added : p[2].number \in n .. n + Len(tables) - 1 BY <1>3, <1>6
<1>11. n + Len(tables) \in Nat /\ n <= n + Len(tables) BY <1>2
<1> QED BY <1>1, <1>7, <1>8, <1>9, <1>10, <1>11

\* The types of a compaction that runs, and of a request for one.
RunningOK(c) ==
    /\ c.level \in 0 .. NumLevels - 2
    /\ c.inputs[1] \in Seq(Table) /\ c.inputs[2] \in Seq(Table)
    /\ c.grandparents \in Seq(Table)

ManualOK ==
    /\ manual.level \in 0 .. NumLevels - 2
    /\ manual.begin \in Key /\ manual.end \in Key /\ manual.begin <= manual.end

\* The types, and what keeps them: the files are tables with entries, under
\* numbers of their own.
TypeInv ==
    /\ options \in Options
    /\ mem \subseteq Entry /\ (imm = NoTable \/ imm \in (SUBSET Entry) \ {{}})
    /\ last_sequence \in 0 .. options.writes
    /\ next_file \in Nat \ {0}
    /\ VersionOK(current) /\ Counted(current, next_file)
    /\ Seeks(current, seek)
    /\ snapshots \in Seq(0 .. last_sequence)
    /\ pointer \in [Level -> SUBSET Entry]
    /\ manual = NoManual \/ ManualOK
    /\ compaction = NoCompaction \/ RunningOK(compaction)

\* An empty store.
LEMMA InitTypeInv == Init => TypeInv
<1> SUFFICES ASSUME Init PROVE TypeInv OBVIOUS
<1>1. \A l \in Level : current[l] = <<>> BY DEF Init
<1>2. ToSet(<<>>) = {} BY DEF ToSet
<1>3. VersionOK(current)
  <2>1. <<>> \in Seq(Table) OBVIOUS
  <2>2. current \in [Level -> Seq(Table)] BY <2>1 DEF Init
  <2> QED BY <1>1, <1>2, <2>2 DEF VersionOK, Numbered
<1>4. Counted(current, next_file) BY <1>1, <1>2 DEF Counted
<1>5. options \in Options /\ options.writes \in 0 .. MaxSequence BY StoreAssumption DEF Init
<1>6. last_sequence \in 0 .. options.writes BY <1>5, VersionAssumption DEF Init
<1>7. pointer \in [Level -> SUBSET Entry] BY DEF Init
<1>8. snapshots \in Seq(0 .. last_sequence) BY DEF Init
<1>9. Seeks(current, seek) BY DEF Init, Seeks
<1> QED BY <1>3, <1>4, <1>5, <1>6, <1>7, <1>8, <1>9 DEF Init, TypeInv

\* RemoveAt moves the later elements up by one.
LEMMA RemovedAt ==
    ASSUME NEW S, NEW s \in Seq(S), NEW i \in DOMAIN s
    PROVE  /\ RemoveAt(s, i) \in Seq(S)
           /\ Len(RemoveAt(s, i)) = Len(s) - 1
           /\ \A j \in 1 .. Len(s) - 1 : RemoveAt(s, i)[j] = s[IF j < i THEN j ELSE j + 1]
<1>1. i \in 1 .. Len(s) /\ Len(s) \in Nat OBVIOUS
<1>2. PICK a : a = SubSeq(s, 1, i - 1) OBVIOUS
<1>3. PICK b : b = SubSeq(s, i + 1, Len(s)) OBVIOUS
<1>4. a \in Seq(S) /\ Len(a) = i - 1 /\ \A j \in 1 .. i - 1 : a[j] = s[j] BY <1>1, <1>2
<1>5. b \in Seq(S) /\ Len(b) = Len(s) - i /\ \A j \in 1 .. Len(s) - i : b[j] = s[i + j]
  BY <1>1, <1>3
<1>6. PICK q : q = a \o b OBVIOUS
<1>7. q \in Seq(S) /\ Len(q) = Len(s) - 1 BY <1>1, <1>4, <1>5, <1>6
<1>8. \A j \in 1 .. Len(s) - 1 : q[j] = s[IF j < i THEN j ELSE j + 1]
  <2> TAKE j \in 1 .. Len(s) - 1
  <2>1. CASE j < i
    <3>1. j \in 1 .. Len(a) BY <1>1, <1>4, <2>1
    <3>2. q[j] = a[j] BY <1>4, <1>5, <1>6, <3>1
    <3> QED BY <1>4, <2>1, <3>1, <3>2
  <2>2. CASE ~(j < i)
    <3>1. j \in Len(a) + 1 .. Len(a) + Len(b) /\ j - Len(a) \in 1 .. Len(s) - i
          /\ i + (j - Len(a)) = j + 1
      BY <1>1, <1>4, <1>5, <2>2
    <3>2. q[j] = b[j - Len(a)]
      <4>1. a \in Seq(S) /\ b \in Seq(S) /\ Len(a) \in Nat /\ Len(b) \in Nat BY <1>4, <1>5
      <4> QED BY ONLY <1>6, <3>1, <4>1
    <3> QED BY <1>5, <2>2, <3>1, <3>2
  <2> QED BY <2>1, <2>2
<1>9. RemoveAt(s, i) = q BY <1>2, <1>3, <1>6 DEF RemoveAt
<1> QED BY <1>7, <1>8, <1>9

\* A sequence over a set is one over a larger set.
LEMMA LongerRange ==
    ASSUME NEW S, NEW T, S \subseteq T, NEW s \in Seq(S)
    PROVE  s \in Seq(T)
OBVIOUS

\* A write.
LEMMA WriteTypeInv ==
    ASSUME TypeInv, NEW key \in Key, NEW type \in {kTypeDeletion, kTypeValue}, Write(key, type)
    PROVE  TypeInv'
<1>1. PICK e : e = [key |-> key, seq |-> last_sequence + 1, type |-> type] OBVIOUS
<1>2. options.writes \in 0 .. MaxSequence BY StoreAssumption DEF TypeInv
<1>3. MaxSequence \in Nat BY VersionAssumption
<1>4. last_sequence + 1 \in 1 .. options.writes /\ last_sequence \in Nat
  BY <1>2, <1>3 DEF TypeInv, Write
<1>5. e \in Entry BY <1>1, <1>2, <1>3, <1>4 DEF Entry
<1>6. mem' \subseteq Entry BY <1>1, <1>5 DEF TypeInv, Write
<1>7. last_sequence' \in 0 .. options.writes BY <1>2, <1>4 DEF Write
<1>8. snapshots \in Seq(0 .. last_sequence')
  <2>1. 0 .. last_sequence \subseteq 0 .. last_sequence' BY <1>4 DEF Write
  <2>2. snapshots \in Seq(0 .. last_sequence) BY DEF TypeInv
  <2> QED BY <2>1, <2>2, LongerRange
<1>9. UNCHANGED <<options, imm, background, snapshots, manual>> BY DEF Write
<1> QED BY <1>6, <1>7, <1>8, <1>9 DEF TypeInv, ManualOK, background

\* The other steps of clients.
LEMMA ClientsTypeInv ==
    ASSUME TypeInv,
           \/ MakeRoomForWrite
           \/ GetSnapshot
           \/ \E i \in DOMAIN snapshots : ReleaseSnapshot(i)
           \/ \E key \in Key, seq \in 0 .. last_sequence : UpdateStats(key, seq)
           \/ \E level \in 0 .. NumLevels - 2, begin, end \in Key :
                begin <= end /\ CompactRange(level, begin, end)
    PROVE  TypeInv'
<1>1. last_sequence \in Nat
  <2>1. options.writes \in 0 .. MaxSequence BY StoreAssumption DEF TypeInv
  <2> QED BY <2>1, VersionAssumption DEF TypeInv
<1>2. CASE MakeRoomForWrite
  BY <1>2 DEF TypeInv, MakeRoomForWrite, background, views, ManualOK
<1>3. CASE GetSnapshot
  <2>1. snapshots' \in Seq(0 .. last_sequence) BY <1>1, <1>3 DEF TypeInv, GetSnapshot
  <2> QED BY <1>3, <2>1 DEF TypeInv, GetSnapshot, background, memtables, ManualOK
<1>4. CASE \E i \in DOMAIN snapshots : ReleaseSnapshot(i)
  <2>1. PICK i \in DOMAIN snapshots : ReleaseSnapshot(i) BY <1>4
  <2>2. snapshots \in Seq(0 .. last_sequence) BY DEF TypeInv
  <2>3. RemoveAt(snapshots, i) \in Seq(0 .. last_sequence) BY ONLY <2>1, <2>2, RemovedAt
  <2>4. snapshots' \in Seq(0 .. last_sequence) BY <2>1, <2>3 DEF ReleaseSnapshot
  <2> QED BY <2>1, <2>4 DEF TypeInv, ReleaseSnapshot, background, memtables, ManualOK
<1>5. CASE \E key \in Key, seq \in 0 .. last_sequence : UpdateStats(key, seq)
  <2>1. PICK key \in Key, seq \in 0 .. last_sequence : UpdateStats(key, seq) BY <1>5
  <2>2. PICK v : v = current OBVIOUS
  <2>3. VersionOK(v) BY <2>2 DEF TypeInv
  <2>4. Len(ForEachOverlapping(v, key, seq)) >= 2
        /\ seek' = {ForEachOverlapping(v, key, seq)[1]}
    BY <2>1, <2>2 DEF UpdateStats
  <2>5. Seeks(v, {ForEachOverlapping(v, key, seq)[1]}) BY ONLY <2>3, <2>4, ChargedIs
  <2>6. Seeks(current, seek') BY <2>2, <2>4, <2>5
  <2> QED BY <2>1, <2>6 DEF TypeInv, UpdateStats, memtables, views, ManualOK
<1>6. CASE \E level \in 0 .. NumLevels - 2, begin, end \in Key :
                begin <= end /\ CompactRange(level, begin, end)
  <2>1. PICK level \in 0 .. NumLevels - 2, begin \in Key, end \in Key :
            begin <= end /\ CompactRange(level, begin, end)
    BY <1>6
  <2>2. ManualOK' BY <2>1 DEF CompactRange, ManualOK
  <2> QED BY <2>1, <2>2 DEF TypeInv, CompactRange, background, memtables, views
<1> QED BY <1>2, <1>3, <1>4, <1>5, <1>6

\* The keys of the immutable memtable.
LEMMA FlushRange ==
    ASSUME NEW S \in SUBSET Entry, S # {}
    PROVE  LET low == CHOOSE k \in {e.key : e \in S} : \A e \in S : k <= e.key
               high == CHOOSE k \in {e.key : e \in S} : \A e \in S : k >= e.key
           IN  /\ low \in Key /\ high \in Key /\ low <= high
               /\ \A e \in S : low <= e.key /\ e.key <= high
<1>1. PICK K : K = {e.key : e \in S} OBVIOUS
<1>2. MaxKey \in Nat BY VersionAssumption
<1>3. \A e \in S : e.key \in Key BY DEF Entry
<1>4. K \subseteq Key /\ K # {} /\ K \in SUBSET Nat /\ K \in SUBSET (0 .. MaxKey)
  BY <1>1, <1>2, <1>3 DEF Key
<1>5. Min(K) \in K /\ \A y \in K : Min(K) <= y BY ONLY <1>4, MinIs
<1>6. Max(K) \in K /\ \A y \in K : y <= Max(K) BY ONLY <1>2, <1>4, MaxIs
<1>7. \E k \in {e.key : e \in S} : \A e \in S : k <= e.key BY <1>1, <1>5
<1>8. \E k \in {e.key : e \in S} : \A e \in S : k >= e.key
  <2>1. \A e \in S : Max(K) >= e.key
    <3> TAKE e \in S
    <3>1. e.key \in K BY <1>1
    <3>2. e.key \in Int BY <1>3 DEF Key
    <3>3. Max(K) \in Int
      <4>1. K \subseteq Int BY <1>4
      <4> QED BY ONLY <1>6, <4>1
    <3> QED BY <1>6, <3>1, <3>2, <3>3
  <2> QED BY <1>1, <1>6, <2>1
<1>9. PICK low : low = CHOOSE k \in {e.key : e \in S} : \A e \in S : k <= e.key OBVIOUS
<1>10. PICK high : high = CHOOSE k \in {e.key : e \in S} : \A e \in S : k >= e.key OBVIOUS
<1>11. low \in K /\ \A e \in S : low <= e.key BY <1>1, <1>7, <1>9
<1>12. high \in K /\ \A e \in S : high >= e.key BY <1>1, <1>8, <1>10
<1>13. low \in Key /\ high \in Key /\ low \in Int /\ high \in Int
  BY <1>4, <1>11, <1>12 DEF Key
<1>14. \A e \in S : low <= e.key /\ e.key <= high
  <2> TAKE e \in S
  <2>1. e.key \in Int BY <1>3 DEF Key
  <2> QED BY <1>11, <1>12, <1>13, <2>1
<1>15. PICK e : e \in S OBVIOUS
<1>16. low <= high
  <2>1. e.key \in Int BY <1>3, <1>15 DEF Key
  <2> QED BY <1>13, <1>14, <1>15, <2>1
<1> QED BY <1>9, <1>10, <1>13, <1>14, <1>16

\* A flush.
LEMMA CompactMemTableTypeInv ==
    ASSUME TypeInv, CompactMemTable
    PROVE  TypeInv'
<1>1. PICK t : t = imm OBVIOUS
<1>2. t \in (SUBSET Entry) \ {{}} BY <1>1 DEF TypeInv, CompactMemTable
<1>3. PICK low : low = CHOOSE k \in {e.key : e \in t} : \A e \in t : k <= e.key OBVIOUS
<1>4. PICK high : high = CHOOSE k \in {e.key : e \in t} : \A e \in t : k >= e.key OBVIOUS
<1>5. PICK v : v = current OBVIOUS
<1>6. PICK n \in Nat \ {0} : n = next_file BY DEF TypeInv
<1>7. PICK level : level = PickLevelForMemTableOutput(v, low, high) OBVIOUS
<1>8. level \in Level BY <1>7, PickLevelIs
<1>9. PICK table : table = [number |-> n, entries |-> t] OBVIOUS
<1>10. table \in Table /\ table.number = n BY <1>2, <1>6, <1>9 DEF Table
<1>11. PICK added : added = {<<level, table>>} OBVIOUS
<1>12. PICK w : w = Apply(v, {}, added) OBVIOUS
<1>13. /\ current' = w /\ seek' = {} /\ imm' = NoTable /\ next_file' = n + 1
       /\ UNCHANGED <<options, mem, last_sequence, views, pointer, manual, compaction>>
  BY <1>1, <1>3, <1>4, <1>5, <1>6, <1>7, <1>9, <1>11, <1>12 DEF CompactMemTable, Install
<1>14. VersionOK(v) /\ Counted(v, n) BY <1>5, <1>6 DEF TypeInv
<1>15. VersionOK(w) /\ Counted(w, n + 1)
  <2>1. n \in Nat /\ n + 1 \in Nat /\ n <= n + 1 BY <1>6
  <2>2. added \subseteq Level \X Table BY <1>8, <1>10, <1>11
  <2>3. IsFiniteSet(added) BY <1>11, FS_Singleton
  <2>4. \A p \in added : p[2].number = n BY <1>10, <1>11
  <2>5. \A p, q \in added : p[2].number = q[2].number => p = q BY <1>11
  <2>6. \A p \in added : p[2].number \in 1 .. n + 1 - 1 BY <1>6, <2>4
  <2>7. \A p \in added : \A l \in Level : \A f \in ToSet(v[l]) :
                f.number = p[2].number => <<l, f>> \in {}
    <3>1. \A l \in Level : \A f \in ToSet(v[l]) : f.number \in 1 .. n - 1
      BY <1>14 DEF Counted
    <3>2. n \notin 1 .. n - 1 BY <1>6
    <3> QED BY <2>4, <3>1, <3>2
  <2> QED BY ONLY <1>12, <1>14, <2>1, <2>2, <2>3, <2>5, <2>6, <2>7, InstallIs
<1>16. VersionOK(current') /\ Counted(current', next_file') /\ next_file' \in Nat \ {0}
  BY <1>6, <1>13, <1>15
<1>17. Seeks(current', seek') BY <1>13 DEF Seeks
<1> QED BY <1>13, <1>16, <1>17 DEF TypeInv, ManualOK, views

\* A compaction that is picked moves a file or starts.
LEMMA StartIs ==
    ASSUME NEW c, c.level \in 0 .. NumLevels - 2, c.inputs[1] \in Seq(Table),
           c.inputs[2] \in Seq(Table), c.grandparents \in Seq(Table)
    PROVE  RunningOK(Start(c))
BY DEF RunningOK, Start

\* compact_pointer_ after a compaction.
LEMMA PointerIs ==
    ASSUME TypeInv, NEW c, c.level \in 0 .. NumLevels - 2, c.largest \in Entry
    PROVE  [pointer EXCEPT ![c.level] = {c.largest}] \in [Level -> SUBSET Entry]
<1>1. c.level \in Level BY VersionAssumption DEF Level
<1> QED BY <1>1 DEF TypeInv

\* The files of a set, placed in a level.
Placed(level, F) == {<<level, f>> : f \in F}

\* A file moved to the next level keeps its number.
LEMMA MoveIs ==
    ASSUME NEW v, VersionOK(v), NEW n \in Nat, Counted(v, n),
           NEW level \in 0 .. NumLevels - 2, NEW f \in ToSet(v[level])
    PROVE  LET w == Apply(v, Placed(level, {f}), Placed(level + 1, {f}))
           IN  /\ VersionOK(w) /\ Counted(w, n)
               /\ Edited(v, w, Placed(level, {f}), Placed(level + 1, {f})) /\ Ordered(w)
<1>1. level \in Level /\ level + 1 \in Level BY VersionAssumption DEF Level
<1>2. v[level] \in Seq(Table) BY <1>1 DEF VersionOK
<1>3. f \in Table BY <1>2, ElementsOf
<1>4. PICK added : added = {<<level + 1, f>>} /\ added = Placed(level + 1, {f}) BY DEF Placed
<1>5. PICK deleted : deleted = {<<level, f>>} /\ deleted = Placed(level, {f}) BY DEF Placed
<1>6. added \subseteq Level \X Table /\ IsFiniteSet(added)
  <2>1. added \subseteq Level \X Table BY <1>1, <1>3, <1>4
  <2>2. IsFiniteSet(added) BY <1>4, FS_Singleton
  <2> QED BY <2>1, <2>2
<1>7. \A p, q \in added : p[2].number = q[2].number => p = q BY <1>4
<1>8. \A p \in added : p[2] = f BY <1>4
<1>9. \A p \in added : p[2].number \in 1 .. n - 1 BY <1>1, <1>8 DEF Counted
<1>10. \A p \in added : \A l \in Level : \A g \in ToSet(v[l]) :
            g.number = p[2].number => <<l, g>> \in deleted
  BY <1>1, <1>5, <1>8 DEF Counted
<1>11. n <= n OBVIOUS
<1>12. PICK w : w = Apply(v, deleted, added) OBVIOUS
<1>13. /\ VersionOK(w) /\ Counted(w, n)
       /\ \A l \in Level : ToSet(w[l]) = After(v, deleted, added, l)
       /\ \A l \in Level : \A i, j \in DOMAIN w[l] :
            i < j => BySmallestKey(w[l][i], w[l][j])
  BY ONLY <1>6, <1>7, <1>9, <1>10, <1>11, <1>12, VersionOK(v), n \in Nat, Counted(v, n), InstallIs
<1>14. Edited(v, w, deleted, added) /\ Ordered(w) BY <1>13 DEF Edited, Ordered
<1> QED BY <1>4, <1>5, <1>12, <1>13, <1>14

\* A compaction picked by the background thread.
LEMMA BackgroundCompactionTypeInv ==
    ASSUME TypeInv, BackgroundCompaction
    PROVE  TypeInv'
<1>1. PICK v : v = current OBVIOUS
<1>2. PICK n \in Nat \ {0} : n = next_file BY DEF TypeInv
<1>3. VersionOK(v) /\ Counted(v, n) BY <1>1, <1>2 DEF TypeInv
<1>4. PICK c : /\ c = PickCompaction(current, pointer, seek)
               /\ pointer' = [pointer EXCEPT ![c.level] = {c.largest}]
               /\ IF IsTrivialMove(c)
                  THEN MoveFile(c) /\ UNCHANGED compaction
                  ELSE compaction' = Start(c) /\ UNCHANGED <<current, seek>>
  BY DEF BackgroundCompaction
<1>5. UNCHANGED <<options, memtables, next_file, last_sequence, views, manual, bounds>>
  BY DEF BackgroundCompaction
<1>6. /\ c.level \in 0 .. NumLevels - 2 /\ c.largest \in Entry
      /\ Inputs(v, c.level, c.inputs) /\ c.grandparents \in Seq(Table)
  <2>1. PICK p, s : p = pointer /\ s = seek OBVIOUS
  <2>2. Seeks(v, s) /\ (SizeCompaction(v) \/ s # {})
    BY <1>1, <2>1 DEF TypeInv, BackgroundCompaction, NeedsCompaction
  <2>3. c = PickCompaction(v, p, s) BY <1>1, <1>4, <2>1
  <2> QED BY ONLY <1>3, <2>2, <2>3, PickCompactionIs
<1>7. pointer' \in [Level -> SUBSET Entry] BY <1>4, <1>6, PointerIs
<1>8. c.inputs[1] \in Seq(Table) /\ c.inputs[2] \in Seq(Table)
      /\ ToSet(c.inputs[1]) \subseteq ToSet(v[c.level])
  BY <1>6 DEF Inputs
<1>9. CASE IsTrivialMove(c)
  <2>1. PICK f : f = c.inputs[1][1] OBVIOUS
  <2>2. 1 \in 1 .. Len(c.inputs[1]) BY <1>9 DEF IsTrivialMove
  <2>3. f \in ToSet(v[c.level]) BY <1>8, <2>1, <2>2, ElementsOf
  <2>4. PICK w : w = Apply(v, Placed(c.level, {f}), Placed(c.level + 1, {f})) OBVIOUS
  <2>5. current' = w /\ seek' = {} /\ UNCHANGED compaction
    BY <1>1, <1>4, <1>9, <2>1, <2>4 DEF MoveFile, Install, Placed
  <2>6. VersionOK(w) /\ Counted(w, n)
    <3>1. n \in Nat BY <1>2
    <3> QED BY ONLY <1>3, <1>6, <2>3, <2>4, <3>1, MoveIs
  <2>7. VersionOK(current') /\ Counted(current', next_file') BY <1>2, <1>5, <2>5, <2>6
  <2>8. Seeks(current', seek') BY <2>5 DEF Seeks
  <2> QED BY <1>5, <1>7, <2>5, <2>7, <2>8 DEF TypeInv, ManualOK, memtables, views
<1>10. CASE ~IsTrivialMove(c)
  <2>1. compaction' = Start(c) /\ UNCHANGED <<current, seek>> BY <1>4, <1>10
  <2>2. RunningOK(Start(c)) BY <1>6, <1>8, StartIs
  <2>3. RunningOK(compaction') BY <2>1, <2>2
  <2> QED BY <1>5, <1>7, <2>1, <2>3 DEF TypeInv, ManualOK, memtables, views
<1> QED BY <1>9, <1>10

\* A requested compaction.
LEMMA ManualCompactionTypeInv ==
    ASSUME TypeInv, ManualCompaction
    PROVE  TypeInv'
<1>1. PICK v : v = current OBVIOUS
<1>2. VersionOK(v) BY <1>1 DEF TypeInv
<1>3. UNCHANGED <<options, memtables, current, seek, next_file, last_sequence, views, bounds>>
  BY DEF ManualCompaction
<1>4. ManualOK BY DEF ManualCompaction, TypeInv
<1>5. PICK level \in 0 .. NumLevels - 2 : level = manual.level BY <1>4 DEF ManualOK
<1>6. PICK inputs : inputs = CompactRangeInputs(v, level, manual.begin, manual.end) OBVIOUS
<1>7. \/ inputs = <<>> /\ manual' = NoManual /\ UNCHANGED <<pointer, compaction>>
      \/ /\ inputs # <<>>
         /\ \E c \in {SetupOtherInputs(v, level, inputs)} :
                /\ pointer' = [pointer EXCEPT ![c.level] = {c.largest}]
                /\ compaction' = Start(c)
                /\ UNCHANGED manual
  BY <1>1, <1>5, <1>6 DEF ManualCompaction
<1>8. CASE inputs = <<>>
  BY <1>3, <1>7, <1>8 DEF TypeInv, ManualOK, memtables, views
<1>9. CASE inputs # <<>>
  <2>1. PICK c : /\ c = SetupOtherInputs(v, level, inputs)
                 /\ pointer' = [pointer EXCEPT ![c.level] = {c.largest}]
                 /\ compaction' = Start(c)
                 /\ UNCHANGED manual
    BY <1>7, <1>9
  <2>2. level \in Level BY VersionAssumption DEF Level
  <2>3. /\ inputs \in Seq(Table) /\ ToSet(inputs) \subseteq ToSet(v[level])
        /\ level = 0 /\ inputs # <<>> => Closed(v, inputs)
    <3>1. PICK begin \in Key, end \in Key :
                begin = manual.begin /\ end = manual.end /\ begin <= end
      BY <1>4 DEF ManualOK
    <3>2. inputs = CompactRangeInputs(v, level, begin, end) BY <1>6, <3>1
    <3> QED BY <1>2, <2>2, <3>1, <3>2, CompactRangeInputsIs
  <2>4. c.level = level /\ c.largest \in Entry /\ Inputs(v, level, c.inputs)
        /\ c.grandparents \in Seq(Table)
    BY <1>2, <1>9, <2>1, <2>3, SetupOtherInputsIs
  <2>5. pointer' \in [Level -> SUBSET Entry] BY <2>1, <2>4, PointerIs
  <2>6. c.inputs[1] \in Seq(Table) /\ c.inputs[2] \in Seq(Table) BY <2>4 DEF Inputs
  <2>7. RunningOK(Start(c)) BY <2>4, <2>6, StartIs
  <2>8. RunningOK(compaction') BY <2>1, <2>7
  <2> QED BY <1>3, <2>1, <2>5, <2>8 DEF TypeInv, ManualOK, memtables, views
<1> QED BY <1>8, <1>9

\* What FinishCompaction removes from the version and adds to it.
Removed(c) == {<<c.level, f>> : f \in ToSet(c.inputs[1])}
                \cup {<<c.level + 1, f>> : f \in ToSet(c.inputs[2])}

\* InstallCompactionResults: the edit and the version it makes.
LEMMA FinishIs ==
    ASSUME TypeInv, FinishCompaction
    PROVE  LET tables == DoCompactionWork(compaction, compaction.smallest_snapshot)
               added == Fresh(compaction.level + 1, next_file, tables)
           IN  /\ RunningOK(compaction)
               /\ current' = Apply(current, Removed(compaction), added)
               /\ seek' = {} /\ next_file' = next_file + Len(tables)
               /\ compaction' = NoCompaction
               /\ manual' = NoManual \/ UNCHANGED manual
               /\ tables \in Seq((SUBSET Entry) \ {{}})
               /\ VersionOK(current') /\ Counted(current', next_file')
               /\ \A level \in Level : ToSet(current'[level])
                        = After(current, Removed(compaction), added, level)
               /\ \A level \in Level : \A i, j \in DOMAIN current'[level] :
                    i < j => BySmallestKey(current'[level][i], current'[level][j])
<1>1. RunningOK(compaction) BY DEF TypeInv, FinishCompaction
<1>2. PICK c : c = compaction OBVIOUS
<1>3. PICK tables : tables = DoCompactionWork(c, c.smallest_snapshot) OBVIOUS
<1>4. PICK v : v = current OBVIOUS
<1>5. PICK n \in Nat \ {0} : n = next_file BY DEF TypeInv
<1>6. PICK added : added = Fresh(c.level + 1, n, tables) OBVIOUS
<1>7. /\ c.level \in 0 .. NumLevels - 2
      /\ c.inputs[1] \in Seq(Table) /\ c.inputs[2] \in Seq(Table)
      /\ c.grandparents \in Seq(Table)
  BY <1>1, <1>2 DEF RunningOK
<1>8. c.level + 1 \in Level BY <1>7, VersionAssumption DEF Level
<1>9. tables \in Seq((SUBSET Entry) \ {{}}) BY <1>3, <1>7, DoCompactionWorkIs
<1>10. /\ current' = Apply(v, Removed(c), added)
       /\ seek' = {} /\ next_file' = n + Len(tables)
       /\ compaction' = NoCompaction
       /\ manual' = NoManual \/ UNCHANGED manual
  <2>1. {<<c.level + 1 - 1, f>> : f \in ToSet(c.inputs[1])}
            = {<<c.level, f>> : f \in ToSet(c.inputs[1])}
    <3>1. c.level + 1 - 1 = c.level BY <1>7
    <3> QED BY <3>1
  <2>2. {<<c.level + 2 - 1, f>> : f \in ToSet(c.inputs[2])}
            = {<<c.level + 1, f>> : f \in ToSet(c.inputs[2])}
    <3>1. c.level + 2 - 1 = c.level + 1 BY <1>7
    <3> QED BY <3>1
  <2>3. /\ current' = Apply(v, {<<c.level + 1 - 1, f>> : f \in ToSet(c.inputs[1])}
                            \cup {<<c.level + 2 - 1, f>> : f \in ToSet(c.inputs[2])}, added)
        /\ seek' = {} /\ next_file' = n + Len(tables)
        /\ compaction' = NoCompaction
        /\ manual' = NoManual \/ UNCHANGED manual
    BY <1>2, <1>3, <1>4, <1>5, <1>6 DEF FinishCompaction, Install, Fresh
  <2> QED BY <2>1, <2>2, <2>3 DEF Removed
<1>11. VersionOK(v) /\ Counted(v, n) BY <1>4, <1>5 DEF TypeInv
<1>12. PICK w : w = Apply(v, Removed(c), added) OBVIOUS
<1>13. n \in Nat /\ n # 0 BY <1>5
<1>14. /\ n + Len(tables) \in Nat /\ n <= n + Len(tables)
       /\ added \subseteq Level \X Table /\ IsFiniteSet(added)
       /\ \A p, q \in added : p[2].number = q[2].number => p = q
       /\ \A p \in added : p[2].number \in n .. n + Len(tables) - 1
  BY ONLY <1>6, <1>8, <1>9, <1>13, FreshIs
<1>15. \A p \in added : p[2].number \in 1 .. n + Len(tables) - 1 BY <1>5, <1>14
<1>16. \A p \in added : \A l \in Level : \A f \in ToSet(v[l]) :
                f.number = p[2].number => <<l, f>> \in Removed(c)
  <2>1. \A l \in Level : \A f \in ToSet(v[l]) : f.number \in 1 .. n - 1 BY <1>11 DEF Counted
  <2>2. \A k \in n .. n + Len(tables) - 1 : k \notin 1 .. n - 1 BY <1>5, <1>14
  <2> QED BY <1>14, <2>1, <2>2
<1>17. /\ VersionOK(w) /\ Counted(w, n + Len(tables))
       /\ \A level \in Level : ToSet(w[level]) = After(v, Removed(c), added, level)
       /\ \A level \in Level : \A i, j \in DOMAIN w[level] :
                    i < j => BySmallestKey(w[level][i], w[level][j])
  <2>1. PICK m \in Nat : m = n + Len(tables) BY <1>14
  <2>2. n <= m /\ \A p \in added : p[2].number \in 1 .. m - 1 BY <1>14, <1>15, <2>1
  <2>3. /\ added \subseteq Level \X Table /\ IsFiniteSet(added)
        /\ \A p, q \in added : p[2].number = q[2].number => p = q
    BY <1>14
  <2>4. PICK r : r = Removed(c) OBVIOUS
  <2>5. \A p \in added : \A l \in Level : \A f \in ToSet(v[l]) :
                f.number = p[2].number => <<l, f>> \in r
    BY <1>16, <2>4
  <2>6. w = Apply(v, r, added) BY <1>12, <2>4
  <2>7. /\ VersionOK(w) /\ Counted(w, m)
        /\ \A level \in Level : ToSet(w[level]) = After(v, r, added, level)
        /\ \A level \in Level : \A i, j \in DOMAIN w[level] :
                    i < j => BySmallestKey(w[level][i], w[level][j])
    BY ONLY <1>11, <1>13, <2>2, <2>3, <2>5, <2>6, InstallIs
  <2> QED BY <2>1, <2>4, <2>7
<1>18. current' = w BY <1>10, <1>12
<1>19. VersionOK(current') /\ Counted(current', next_file') BY <1>10, <1>17, <1>18
<1> QED BY <1>1, <1>2, <1>3, <1>4, <1>5, <1>6, <1>9, <1>10, <1>17, <1>18, <1>19

\* The end of a compaction.
LEMMA FinishTypeInv ==
    ASSUME TypeInv, FinishCompaction
    PROVE  TypeInv'
<1>1. PICK tables : tables = DoCompactionWork(compaction, compaction.smallest_snapshot) OBVIOUS
<1>2. /\ seek' = {} /\ next_file' = next_file + Len(tables)
      /\ compaction' = NoCompaction
      /\ manual' = NoManual \/ UNCHANGED manual
      /\ tables \in Seq((SUBSET Entry) \ {{}})
      /\ VersionOK(current') /\ Counted(current', next_file')
  BY <1>1, FinishIs
<1>3. UNCHANGED <<options, memtables, last_sequence, views, pointer, bounds>>
  BY DEF FinishCompaction
<1>4. next_file' \in Nat \ {0}
  <2>1. Len(tables) \in Nat BY <1>2
  <2> QED BY <1>2, <2>1 DEF TypeInv
<1>5. Seeks(current', seek') BY <1>2 DEF Seeks
<1> QED BY <1>2, <1>3, <1>4, <1>5 DEF TypeInv, ManualOK, memtables, views

\* The files of a store are never empty, each has a number of its own below
\* next_file, in one level, and what the background thread carries between its
\* two steps has the types its second one needs.
THEOREM StoreTypeInv == Spec => []TypeInv
<1>1. TypeInv /\ [Next]_vars => TypeInv'
  <2> SUFFICES ASSUME TypeInv, [Next]_vars PROVE TypeInv' OBVIOUS
  <2>1. ASSUME NEW key \in Key, NEW type \in {kTypeDeletion, kTypeValue}, Write(key, type)
        PROVE  TypeInv'
    BY <2>1, WriteTypeInv
  <2>2. CASE \/ MakeRoomForWrite
             \/ GetSnapshot
             \/ \E i \in DOMAIN snapshots : ReleaseSnapshot(i)
             \/ \E key \in Key, seq \in 0 .. last_sequence : UpdateStats(key, seq)
             \/ \E level \in 0 .. NumLevels - 2, begin, end \in Key :
                    begin <= end /\ CompactRange(level, begin, end)
    BY <2>2, ClientsTypeInv
  <2>3. CASE CompactMemTable BY <2>3, CompactMemTableTypeInv
  <2>4. CASE BackgroundCompaction BY <2>4, BackgroundCompactionTypeInv
  <2>5. CASE ManualCompaction BY <2>5, ManualCompactionTypeInv
  <2>6. CASE FinishCompaction BY <2>6, FinishTypeInv
  <2>7. CASE UNCHANGED vars
    BY <2>7 DEF vars, TypeInv, ManualOK, memtables, background, views, bounds
  <2> QED BY <2>1, <2>2, <2>3, <2>4, <2>5, <2>6, <2>7 DEF Next
<1> QED BY <1>1, InitTypeInv, PTL DEF Spec

\* The type invariant of the run, through every write, flush, move and
\* compaction: tables are never empty, each has a number of its own below the
\* next one, and a running compaction is made of tables.
THEOREM LevelStoreTypeOK == Spec => []TypeOK
<1>1. TypeInv => TypeOK
  <2> SUFFICES ASSUME TypeInv PROVE TypeOK OBVIOUS
  <2>1. \A level \in Level : \A f \in ToSet(current[level]) :
            /\ IsTable(f) /\ f.number \in 1 .. next_file - 1
            /\ \A other \in Level : \A g \in ToSet(current[other]) :
                f.number = g.number => level = other /\ f = g
    <3> TAKE level \in Level
    <3> TAKE f \in ToSet(current[level])
    <3>1. current[level] \in Seq(Table) BY DEF TypeInv, VersionOK
    <3>2. f \in Table BY <3>1, ElementsOf
    <3> QED BY <3>2, TableIs DEF TypeInv, Counted, IsTable
  <2>2. compaction # NoCompaction =>
            /\ compaction.level \in 0 .. NumLevels - 2
            /\ \A files \in {compaction.inputs[1], compaction.inputs[2],
                             compaction.grandparents} :
                \A f \in ToSet(files) : IsTable(f)
    <3> SUFFICES ASSUME compaction # NoCompaction, RunningOK(compaction),
                        NEW files \in {compaction.inputs[1], compaction.inputs[2],
                                       compaction.grandparents},
                        NEW f \in ToSet(files)
                 PROVE  IsTable(f)
      BY DEF TypeInv, RunningOK
    <3>1. files \in Seq(Table) BY DEF RunningOK
    <3>2. f \in Table BY <3>1, ElementsOf
    <3> QED BY <3>2, TableIs DEF IsTable
  <2>3. imm = NoTable \/ (imm \subseteq Entry /\ imm # {}) BY DEF TypeInv
  <2> QED BY <2>1, <2>2, <2>3 DEF TypeInv, TypeOK
<1> QED BY <1>1, StoreTypeInv, PTL

-----------------------------------------------------------------------------
(* Levels in order.                                                         *)

\* Files one after another do not overlap.
LEMMA InOrderApart ==
    ASSUME NEW s \in Seq(Table), InOrder(s)
    PROVE  Apart(ToSet(s))
<1> SUFFICES ASSUME NEW f \in ToSet(s), NEW g \in ToSet(s), f # g
             PROVE  Before(Largest(f), Smallest(g)) \/ Before(Largest(g), Smallest(f))
  BY DEF Apart
<1>1. PICK i \in 1 .. Len(s) : s[i] = f BY ElementsOf
<1>2. PICK j \in 1 .. Len(s) : s[j] = g BY ElementsOf
<1>3. i < j \/ j < i
  <2>1. i # j BY <1>1, <1>2
  <2> QED BY <2>1
<1>4. i \in DOMAIN s /\ j \in DOMAIN s OBVIOUS
<1> QED BY <1>1, <1>2, <1>3, <1>4 DEF InOrder

\* Files that do not overlap, by smallest key, come one after another.
LEMMA ApartInOrder ==
    ASSUME NEW s \in Seq(Table), Apart(ToSet(s)),
           \A i, j \in DOMAIN s : i < j => BySmallestKey(s[i], s[j])
    PROVE  InOrder(s)
<1> SUFFICES ASSUME NEW i \in DOMAIN s, NEW j \in DOMAIN s, i < j
             PROVE  Before(Largest(s[i]), Smallest(s[j]))
  BY DEF InOrder
<1>1. PICK f, g \in Table : f = s[i] /\ g = s[j] OBVIOUS
<1>2. f \in ToSet(s) /\ g \in ToSet(s) BY <1>1, ElementsOf
<1>3. BySmallestKey(f, g) BY <1>1
<1>4. PICK x, y \in Entry : x = Smallest(f) /\ y = Smallest(g) BY TableEnds
<1>5. f # g
  <2>1. ~BySmallestKey(f, f)
    <3>1. f.number \in Nat BY TableIs
    <3>2. ~Before(x, x) BY BeforeOrder
    <3> QED BY <1>4, <3>1, <3>2 DEF BySmallestKey
  <2> QED BY <1>3, <2>1
<1>6. ~Before(Largest(g), Smallest(f))
  <2>1. ASSUME Before(Largest(g), Smallest(f)) PROVE FALSE
    <3>1. Before(y, x) BY <1>4, <2>1, FileOrder
    <3>2. Before(x, y) \/ x = y BY <1>3, <1>4 DEF BySmallestKey
    <3> QED BY <3>1, <3>2, BeforeOrder
  <2> QED BY <2>1
<1> QED BY <1>1, <1>2, <1>5, <1>6 DEF Apart

\* Keys on different sides.
LEMMA KeyBefore ==
    ASSUME NEW d \in Entry, NEW e \in Entry, d.key < e.key
    PROVE  Before(d, e)
BY DEF Before

\* The files a compaction reads, and the files beside them in the level of
\* its outputs.
In(c) == ToSet(c.inputs[1]) \cup ToSet(c.inputs[2])
BelowAll(g, S) == \A f \in S : \A e \in f.entries : Before(Largest(g), e)
AboveAll(g, S) == \A f \in S : \A e \in f.entries : Before(e, Smallest(g))
Beside(v, c) ==
    \A g \in ToSet(v[c.level + 1]) : g \in ToSet(c.inputs[2])
        \/ BelowAll(g, In(c)) \/ AboveAll(g, In(c))

\* The inputs of the next level are all that the outputs can touch there.
LEMMA InputsBeside ==
    ASSUME NEW v, VersionOK(v), NEW c, c.level \in 0 .. NumLevels - 2,
           Inputs(v, c.level, c.inputs), Apart(ToSet(v[c.level + 1]))
    PROVE  Beside(v, c)
<1>1. c.level + 1 \in Level BY VersionAssumption DEF Level
<1>2. PICK i1, i2 \in Seq(Table) : i1 = c.inputs[1] /\ i2 = c.inputs[2] /\ i1 # <<>>
  BY DEF Inputs
<1>3. PICK F : F = ToSet(v[c.level + 1]) OBVIOUS
<1>4. F \subseteq Table BY <1>1, <1>3, ElementsOf DEF VersionOK
<1>5. ToSet(i2) = {f \in F : Touches(i1, f)} BY <1>2, <1>3 DEF Inputs
<1>6. PICK lo, hi \in Key : lo = Smallest(GetRange(i1)).key /\ hi = Largest(GetRange(i1)).key
  BY <1>2, RangeIs
<1>7. lo \in Int /\ hi \in Int BY DEF Key
<1>8. \A f \in ToSet(i1) : f \in Table /\ lo <= Smallest(f).key /\ Largest(f).key <= hi
  BY <1>2, <1>6, RangeIs, ElementsOf
<1> SUFFICES ASSUME NEW g \in F, g \notin ToSet(i2)
             PROVE  BelowAll(g, In(c)) \/ AboveAll(g, In(c))
  BY <1>2, <1>3 DEF Beside
<1>9. g \in Table BY <1>4
<1>10. Outside(lo, hi, g) BY <1>5, <1>6 DEF Touches
<1>11. \A f \in ToSet(i2) : f \in Table /\ f \in F /\ f # g /\ lo <= Largest(f).key /\ Smallest(f).key <= hi
  <2> TAKE f \in ToSet(i2)
  <2>1. f \in Table /\ f \in F /\ f # g BY <1>4, <1>5
  <2>2. ~Outside(lo, hi, f) BY <1>5, <1>6 DEF Touches
  <2> QED BY <1>7, <2>1, <2>2, OutsideIs
<1>12. PICK gs, gl \in Entry : gs = Smallest(g) /\ gl = Largest(g) BY <1>9, TableEnds
<1>13. gs.key \in Int /\ gl.key \in Int /\ gs.key <= gl.key BY <1>9, <1>12, TableEnds
<1>14. CASE gl.key < lo
  <2>1. ASSUME NEW f \in ToSet(i1), NEW e \in f.entries PROVE Before(gl, e)
    <3>1. f \in Table /\ lo <= Smallest(f).key BY <1>8
    <3>2. e \in Entry /\ e.key \in Int /\ Smallest(f).key <= e.key /\ Smallest(f).key \in Int
      BY <3>1, TableEnds
    <3>3. gl.key < e.key BY <1>7, <1>13, <1>14, <3>1, <3>2
    <3> QED BY <3>2, <3>3, KeyBefore
  <2>2. ASSUME NEW f \in ToSet(i2), NEW e \in f.entries PROVE Before(gl, e)
    <3>1. f \in Table /\ f \in F /\ f # g /\ lo <= Largest(f).key BY <1>11
    <3>2. Largest(f) \in Entry /\ Largest(f).key \in Int BY <3>1, TableEnds
    <3>3. gl.key < Largest(f).key BY <1>7, <1>13, <1>14, <3>1, <3>2
    <3>4. Before(gl, Largest(f)) BY <3>2, <3>3, KeyBefore
    <3>5. ~Before(Largest(f), Smallest(g))
      <4>1. ASSUME Before(Largest(f), Smallest(g)) PROVE FALSE
        <5>1. Before(Largest(f), gl) BY <1>9, <1>12, <3>1, <4>1, FileOrder
        <5> QED BY <3>2, <3>4, <5>1, BeforeOrder
      <4> QED BY <4>1
    <3>6. Before(Largest(g), Smallest(f)) BY <1>3, <3>1, <3>5 DEF Apart
    <3>7. Largest(g) \in g.entries BY <1>9, TableEnds
    <3> QED BY <1>9, <1>12, <3>1, <3>6, <3>7, FileOrder
  <2>3. BelowAll(g, In(c)) BY <1>2, <1>12, <2>1, <2>2 DEF BelowAll, In
  <2> QED BY <2>3
<1>15. CASE hi < gs.key
  <2>1. ASSUME NEW f \in ToSet(i1), NEW e \in f.entries PROVE Before(e, gs)
    <3>1. f \in Table /\ Largest(f).key <= hi BY <1>8
    <3>2. e \in Entry /\ e.key \in Int /\ e.key <= Largest(f).key /\ Largest(f).key \in Int
      BY <3>1, TableEnds
    <3>3. e.key < gs.key BY <1>7, <1>13, <1>15, <3>1, <3>2
    <3> QED BY <3>2, <3>3, KeyBefore
  <2>2. ASSUME NEW f \in ToSet(i2), NEW e \in f.entries PROVE Before(e, gs)
    <3>1. f \in Table /\ f \in F /\ f # g /\ Smallest(f).key <= hi BY <1>11
    <3>2. Smallest(f) \in Entry /\ Smallest(f).key \in Int BY <3>1, TableEnds
    <3>3. Smallest(f).key < gs.key BY <1>7, <1>13, <1>15, <3>1, <3>2
    <3>4. Before(Smallest(f), gs) BY <3>2, <3>3, KeyBefore
    <3>5. ~Before(Largest(g), Smallest(f))
      <4>1. ASSUME Before(Largest(g), Smallest(f)) PROVE FALSE
        <5>1. Before(gs, Smallest(f)) BY <1>9, <1>12, <3>1, <4>1, FileOrder
        <5> QED BY <3>2, <3>4, <5>1, BeforeOrder
      <4> QED BY <4>1
    <3>6. Before(Largest(f), Smallest(g)) BY <1>3, <3>1, <3>5 DEF Apart
    <3>7. Smallest(g) \in g.entries BY <1>9, TableEnds
    <3> QED BY <1>9, <1>12, <3>1, <3>6, <3>7, FileOrder
  <2>3. AboveAll(g, In(c)) BY <1>2, <1>12, <2>1, <2>2 DEF AboveAll, In
  <2> QED BY <2>3
<1> QED BY <1>7, <1>10, <1>12, <1>13, <1>14, <1>15 DEF Outside, AfterFile, BeforeFile

\* A table over no file of a contiguous set lies on one side of all of them.
LEMMA TableBeside ==
    ASSUME NEW S \in SUBSET Table, Contiguous(S), NEW t \in Table,
           NEW low \in Int, NEW high \in Int, low <= high,
           \A e \in t.entries : low <= e.key /\ e.key <= high,
           \A f \in S : Outside(low, high, f)
    PROVE  BelowAll(t, S) \/ AboveAll(t, S)
<1>1. \A f \in S : /\ f \in Table /\ Smallest(f).key \in Int /\ Largest(f).key \in Int
                   /\ Smallest(f).key <= Largest(f).key
  BY TableEnds
<1>2. \A f \in S : low > Largest(f).key \/ high < Smallest(f).key
  BY DEF Outside, AfterFile, BeforeFile
<1>3. (\A f \in S : low > Largest(f).key) \/ (\A f \in S : high < Smallest(f).key)
  <2> SUFFICES ASSUME NEW f \in S, low > Largest(f).key, NEW g \in S, high < Smallest(g).key
               PROVE  FALSE
    BY <1>2
  <2>1. Smallest(f).key <= low /\ low <= Largest(g).key BY <1>1
  <2>2. Covers(S, low) BY <2>1 DEF Contiguous
  <2>3. PICK h \in S : Smallest(h).key <= low /\ low <= Largest(h).key BY <2>2 DEF Covers
  <2> QED BY <1>1, <1>2, <2>3
<1>4. CASE \A f \in S : low > Largest(f).key
  <2>1. ASSUME NEW f \in S, NEW e \in f.entries PROVE Before(e, Smallest(t))
    <3>1. e \in Entry /\ e.key \in Int /\ e.key <= Largest(f).key BY <1>1, TableEnds
    <3>2. Smallest(t) \in Entry /\ Smallest(t).key \in Int /\ low <= Smallest(t).key
      BY TableEnds
    <3>3. e.key < Smallest(t).key BY <1>1, <1>4, <3>1, <3>2
    <3> QED BY <3>1, <3>2, <3>3, KeyBefore
  <2> QED BY <2>1 DEF AboveAll
<1>5. CASE \A f \in S : high < Smallest(f).key
  <2>1. ASSUME NEW f \in S, NEW e \in f.entries PROVE Before(Largest(t), e)
    <3>1. e \in Entry /\ e.key \in Int /\ Smallest(f).key <= e.key BY <1>1, TableEnds
    <3>2. Largest(t) \in Entry /\ Largest(t).key \in Int /\ Largest(t).key <= high
      BY TableEnds
    <3>3. Largest(t).key < e.key BY <1>1, <1>5, <3>1, <3>2
    <3> QED BY <3>1, <3>2, <3>3, KeyBefore
  <2> QED BY <2>1 DEF BelowAll
<1> QED BY <1>3, <1>4, <1>5

-----------------------------------------------------------------------------
(* Newer above older.                                                       *)

\* Of one key, the entries of the files F are newer than those of the files G.
Newer(F, G) ==
    \A f \in F, g \in G : \A d \in f.entries, e \in g.entries :
        d.key = e.key => d.seq > e.seq

\* The entries of the tables of a version.
Tabled(v) == UNION {Entries(v[level]) : level \in Level}

\* One sequence number, one entry.
Unique(S) == \A d, e \in S : d.seq = e.seq => d = e

\* What a lookup relies on.
Layered(v) ==
    /\ \A level \in 1 .. NumLevels - 1 : InOrder(v[level])
    /\ \A a, b \in Level : a < b => Newer(ToSet(v[a]), ToSet(v[b]))
    /\ \A f, g \in ToSet(v[0]) : f.number > g.number =>
            \A d \in f.entries, e \in g.entries : d.seq > e.seq

\* An entry of the tables is one of a file of some level.
LEMMA TabledIs ==
    ASSUME NEW v
    PROVE  \A e : e \in Tabled(v) <=>
                \E level \in Level : \E f \in ToSet(v[level]) : e \in f.entries
BY DEF Tabled, Entries

\* The files of a level below level 0 do not overlap.
LEMMA LevelApart ==
    ASSUME NEW v, VersionOK(v), Layered(v), NEW level \in Level, level # 0
    PROVE  Apart(ToSet(v[level]))
<1>1. level \in 1 .. NumLevels - 1 BY VersionAssumption DEF Level
<1>2. v[level] \in Seq(Table) BY DEF VersionOK
<1>3. InOrder(v[level]) BY <1>1 DEF Layered
<1> QED BY <1>2, <1>3, InOrderApart

\* The inputs of a compaction leave nothing behind in their level that is
\* older.
LEMMA InputsNewer ==
    ASSUME NEW v, VersionOK(v), Layered(v), Unique(Tabled(v)),
           NEW c, c.level \in 0 .. NumLevels - 2, Inputs(v, c.level, c.inputs),
           c.level # 0 => Unbroken(ToSet(v[c.level]), ToSet(c.inputs[1]))
    PROVE  Newer(ToSet(v[c.level]) \ ToSet(c.inputs[1]), In(c))
<1>1. c.level \in Level /\ c.level + 1 \in Level /\ c.level < c.level + 1
  BY VersionAssumption DEF Level
<1>2. PICK i1, i2 \in Seq(Table) : i1 = c.inputs[1] /\ i2 = c.inputs[2] /\ i1 # <<>>
  BY DEF Inputs
<1>3. PICK F : F = ToSet(v[c.level]) OBVIOUS
<1>4. v[c.level] \in Seq(Table) BY <1>1 DEF VersionOK
<1>5. F \in SUBSET Table BY <1>3, <1>4, ElementsOf
<1>6. ToSet(i1) \subseteq F BY <1>2, <1>3 DEF Inputs
<1>7. \A f \in F : ~Continues(i1, f) BY <1>2, <1>3 DEF Inputs
<1> SUFFICES ASSUME NEW f \in F, f \notin ToSet(i1), NEW g \in In(c),
                    NEW d \in f.entries, NEW e \in g.entries, d.key = e.key
             PROVE  d.seq > e.seq
  BY <1>2, <1>3 DEF Newer
<1>8. CASE g \in ToSet(i2)
  <2>1. g \in ToSet(v[c.level + 1]) BY <1>2, <1>8 DEF Inputs
  <2>2. Newer(ToSet(v[c.level]), ToSet(v[c.level + 1])) BY <1>1 DEF Layered
  <2> QED BY <1>3, <2>1, <2>2 DEF Newer
<1>9. CASE g \in ToSet(i1)
  <2>1. f \in Table /\ g \in Table /\ g \in F BY <1>5, <1>6, <1>9
  <2>2. /\ d \in Entry /\ d.key \in Int /\ Smallest(f).key <= d.key /\ d.key <= Largest(f).key
        /\ e \in Entry /\ e.key \in Int /\ Smallest(g).key <= e.key /\ e.key <= Largest(g).key
        /\ Smallest(f).key \in Int /\ Largest(f).key \in Int
        /\ Smallest(g).key \in Int /\ Largest(g).key \in Int
    BY <2>1, TableEnds
  <2>3. PICK lo, hi \in Key : /\ lo = Smallest(GetRange(i1)).key
                              /\ hi = Largest(GetRange(i1)).key
    BY <1>2, RangeIs
  <2>4. lo <= Smallest(g).key /\ Largest(g).key <= hi /\ lo \in Int /\ hi \in Int
    BY <1>2, <1>9, <2>3, RangeIs DEF Key
  <2>5. CASE c.level = 0
    <3>1. ~Outside(lo, hi, f) BY <2>1, <2>2, <2>4, OutsideIs
    <3>2. Touches(i1, f) BY <2>3, <3>1 DEF Touches
    <3>3. Closed(v, i1) BY <1>2, <2>5 DEF Inputs
    <3> QED BY <1>3, <2>5, <3>2, <3>3 DEF Closed
  <2>6. CASE c.level # 0
    <3>1. Apart(F) BY <1>1, <1>3, <2>6, LevelApart
    <3>2. Before(Largest(f), Smallest(g)) \/ Before(Largest(g), Smallest(f))
      BY <1>9, <2>1, <3>1 DEF Apart
    <3>3. CASE Before(Largest(f), Smallest(g))
      <4>1. Before(d, e) BY <2>1, <3>3, FileOrder
      <4>2. d # e BY <2>2, <4>1, BeforeOrder
      <4>3. d \in Tabled(v) /\ e \in Tabled(v) BY <1>1, <1>3, <2>1, TabledIs
      <4>4. d.seq # e.seq BY <4>2, <4>3 DEF Unique
      <4>5. d.seq \in Int /\ e.seq \in Int BY <2>2 DEF Entry
      <4> QED BY <2>2, <4>1, <4>4, <4>5 DEF Before
    <3>4. CASE Before(Largest(g), Smallest(f))
      <4>1. Largest(g).key <= Smallest(f).key BY <2>1, <3>4, FileOrder
      <4>2. PICK h \in ToSet(i1) : Largest(GetRange(i1)) = Largest(h)
        BY <1>2, RangeIs
      <4>3. h \in F /\ h \in Table /\ h # f BY <1>5, <1>6, <4>2
      <4>4. Before(Largest(f), Smallest(h)) \/ Before(Largest(h), Smallest(f))
        BY <3>1, <4>3 DEF Apart
      <4>5. ~Before(Largest(f), Smallest(h))
        <5>1. Unbroken(F, ToSet(i1)) BY <1>2, <1>3, <2>6
        <5> QED BY <1>9, <3>4, <4>2, <5>1 DEF Unbroken
      <4>6. Before(Largest(h), Smallest(f)) BY <4>4, <4>5
      <4>7. Largest(h).key <= Smallest(f).key BY <2>1, <4>3, <4>6, FileOrder
      <4>8. Smallest(f).key = hi BY <2>2, <2>3, <2>4, <4>2, <4>7
      <4>9. Continues(i1, f) BY <2>3, <4>2, <4>6, <4>8 DEF Continues
      <4> QED BY <1>7, <4>9
    <3> QED BY <3>2, <3>3, <3>4
  <2> QED BY <2>5, <2>6
<1> QED BY <1>2, <1>8, <1>9 DEF In

\* Files replaced by others of the next level with the same entries, or fewer.
LEMMA ReplaceLayered ==
    ASSUME NEW v, VersionOK(v), Layered(v), NEW w, VersionOK(w),
           NEW level \in 0 .. NumLevels - 2,
           NEW I1 \in SUBSET ToSet(v[level]), NEW I2 \in SUBSET ToSet(v[level + 1]),
           NEW T \in SUBSET Table, Apart(T),
           \A t \in T : \A e \in t.entries : \E f \in I1 \cup I2 : e \in f.entries,
           ToSet(w[level]) = ToSet(v[level]) \ I1,
           ToSet(w[level + 1]) = (ToSet(v[level + 1]) \ I2) \cup T,
           \A l \in Level \ {level, level + 1} : ToSet(w[l]) = ToSet(v[l]),
           \A l \in Level : \A i, j \in DOMAIN w[l] : i < j => BySmallestKey(w[l][i], w[l][j]),
           \A g \in ToSet(v[level + 1]) \ I2 :
                BelowAll(g, I1 \cup I2) \/ AboveAll(g, I1 \cup I2),
           Newer(ToSet(v[level]) \ I1, I1 \cup I2)
    PROVE  Layered(w)
<1>1. /\ level \in Level /\ level + 1 \in Level /\ level < level + 1
      /\ level + 1 # 0 /\ level \in Nat
  BY VersionAssumption DEF Level
<1>2. \A l \in Level : v[l] \in Seq(Table) /\ w[l] \in Seq(Table) BY DEF VersionOK
<1>3. \A l \in Level : ToSet(v[l]) \subseteq Table /\ ToSet(w[l]) \subseteq Table
  BY <1>2, ElementsOf
<1>4. \A l \in Level : l # 0 => Apart(ToSet(v[l])) BY LevelApart
<1>5. \A l \in Level : l # level + 1 => ToSet(w[l]) \subseteq ToSet(v[l]) BY <1>1
<1>6. ASSUME NEW g \in ToSet(v[level + 1]) \ I2, NEW t \in T
      PROVE  Before(Largest(g), Smallest(t)) \/ Before(Largest(t), Smallest(g))
  <2>1. Smallest(t) \in t.entries /\ Largest(t) \in t.entries BY <1>6, TableEnds
  <2>2. CASE BelowAll(g, I1 \cup I2) BY <1>6, <2>1, <2>2 DEF BelowAll
  <2>3. CASE AboveAll(g, I1 \cup I2) BY <1>6, <2>1, <2>3 DEF AboveAll
  <2> QED BY <1>6, <2>2, <2>3
<1>7. Apart(ToSet(w[level + 1]))
  <2>1. Apart(ToSet(v[level + 1])) BY <1>1, <1>4
  <2> QED BY <1>6, <2>1 DEF Apart
<1>8. ASSUME NEW l \in 1 .. NumLevels - 1 PROVE InOrder(w[l])
  <2>1. l \in Level /\ l # 0 BY <1>8 DEF Level
  <2>2. Apart(ToSet(w[l]))
    <3>1. CASE l = level + 1 BY <1>7, <3>1
    <3>2. CASE l # level + 1
      <4>1. Apart(ToSet(v[l])) BY <1>4, <2>1
      <4> QED BY <1>5, <2>1, <3>2, <4>1 DEF Apart
    <3> QED BY <3>1, <3>2
  <2>3. PICK s \in Seq(Table) : s = w[l] BY <1>2, <2>1
  <2>4. Apart(ToSet(s)) /\ \A i, j \in DOMAIN s : i < j => BySmallestKey(s[i], s[j])
    BY <2>1, <2>2, <2>3
  <2>5. InOrder(s) BY ONLY <2>4, s \in Seq(Table), ApartInOrder
  <2> QED BY <2>3, <2>5
<1>9. ASSUME NEW a \in Level, NEW b \in Level, a < b,
             NEW f \in ToSet(w[a]), NEW g \in ToSet(w[b]),
             NEW d \in f.entries, NEW e \in g.entries, d.key = e.key
      PROVE  d.seq > e.seq
  <2>1. \A x, y \in Level : x < y => Newer(ToSet(v[x]), ToSet(v[y])) BY DEF Layered
  <2>2. a \in Int /\ b \in Int BY DEF Level
  <2>3. CASE b = level + 1 /\ g \in T
    <3>1. PICK h \in I1 \cup I2 : e \in h.entries BY <2>3
    <3>2. f \in ToSet(v[a]) BY <1>5, <1>9, <2>2, <2>3
    <3>3. CASE a = level
      <4>1. f \in ToSet(v[level]) \ I1 BY <1>9, <3>3
      <4> QED BY <1>9, <3>1, <4>1 DEF Newer
    <3>4. CASE a # level
      <4>1. a < level BY <1>1, <1>9, <2>2, <2>3, <3>4
      <4>2. h \in ToSet(v[level]) \/ h \in ToSet(v[level + 1]) BY <3>1
      <4>3. a < level + 1 BY <1>1, <2>2, <4>1
      <4>4. Newer(ToSet(v[a]), ToSet(v[level])) BY <1>1, <2>1, <4>1
      <4>5. Newer(ToSet(v[a]), ToSet(v[level + 1])) BY <1>1, <2>1, <4>3
      <4> QED BY <1>9, <3>1, <3>2, <4>2, <4>4, <4>5 DEF Newer
    <3> QED BY <3>3, <3>4
  <2>4. CASE a = level + 1 /\ f \in T
    <3>1. PICK h \in I1 \cup I2 : d \in h.entries BY <2>4
    <3>2. b # level + 1 BY <1>9, <2>2, <2>4
    <3>3. g \in ToSet(v[b]) BY <1>5, <1>9, <3>2
    <3>4. h \in ToSet(v[level]) \/ h \in ToSet(v[level + 1]) BY <3>1
    <3>5. level < b /\ level + 1 < b BY <1>1, <1>9, <2>2, <2>4
    <3>6. Newer(ToSet(v[level]), ToSet(v[b])) BY <1>1, <2>1, <3>5
    <3>7. Newer(ToSet(v[level + 1]), ToSet(v[b])) BY <1>1, <2>1, <3>5
    <3> QED BY <1>9, <3>1, <3>3, <3>4, <3>6, <3>7 DEF Newer
  <2>5. CASE ~(b = level + 1 /\ g \in T) /\ ~(a = level + 1 /\ f \in T)
    <3>1. f \in ToSet(v[a]) BY <1>5, <1>9, <2>5
    <3>2. g \in ToSet(v[b]) BY <1>5, <1>9, <2>5
    <3>3. Newer(ToSet(v[a]), ToSet(v[b])) BY <1>9, <2>1
    <3> QED BY <1>9, <3>1, <3>2, <3>3 DEF Newer
  <2> QED BY <2>3, <2>4, <2>5
<1>10. \A f, g \in ToSet(w[0]) : f.number > g.number =>
            \A d \in f.entries, e \in g.entries : d.seq > e.seq
  <2>1. 0 \in Level BY <1>1, VersionAssumption DEF Level
  <2>2. ToSet(w[0]) \subseteq ToSet(v[0]) BY <1>1, <1>5, <2>1
  <2> QED BY <2>2 DEF Layered
<1>11. \A a, b \in Level : a < b => Newer(ToSet(w[a]), ToSet(w[b])) BY <1>9 DEF Newer
<1> QED BY <1>8, <1>10, <1>11 DEF Layered

\* A table added to a level, newer than all others, that touches none of the
\* levels above it and of its own.
LEMMA AddLayered ==
    ASSUME NEW v, VersionOK(v), Layered(v), NEW w, VersionOK(w),
           NEW level \in Level, NEW t \in Table,
           \A f \in ToSet(v[level]) : f.number < t.number,
           \A l \in Level : ToSet(w[l]) = ToSet(v[l]) \cup (IF l = level THEN {t} ELSE {}),
           \A l \in Level : \A i, j \in DOMAIN w[l] : i < j => BySmallestKey(w[l][i], w[l][j]),
           \A d \in t.entries : \A e \in Tabled(v) : d.seq > e.seq,
           NEW low \in Int, NEW high \in Int,
           \A e \in t.entries : low <= e.key /\ e.key <= high,
           level # 0 => \A l \in 0 .. level : \A f \in ToSet(v[l]) : Outside(low, high, f)
    PROVE  Layered(w)
<1>1. \A l \in Level : v[l] \in Seq(Table) /\ w[l] \in Seq(Table) BY DEF VersionOK
<1>2. \A l \in Level : ToSet(v[l]) \subseteq Table BY <1>1, ElementsOf
<1>3. level \in Nat /\ level <= NumLevels - 1 /\ NumLevels \in Nat
  BY VersionAssumption DEF Level
<1>4. ASSUME level # 0, NEW l \in 0 .. level, NEW f \in ToSet(v[l]), NEW e \in t.entries
      PROVE  e.key > Largest(f).key \/ e.key < Smallest(f).key
  <2>1. l \in Level BY <1>3, <1>4 DEF Level
  <2>2. f \in Table BY <1>2, <1>4, <2>1
  <2>3. Outside(low, high, f) BY <1>4
  <2>4. e.key \in Int /\ low <= e.key /\ e.key <= high BY <1>4, TableEnds
  <2>5. Largest(f).key \in Int /\ Smallest(f).key \in Int BY <2>2, TableEnds
  <2> QED BY <2>3, <2>4, <2>5 DEF Outside, AfterFile, BeforeFile
<1>5. ASSUME NEW l \in 1 .. NumLevels - 1 PROVE InOrder(w[l])
  <2>1. l \in Level /\ l # 0 BY <1>5 DEF Level
  <2>2. Apart(ToSet(v[l])) BY <2>1, LevelApart
  <2>3. Apart(ToSet(w[l]))
    <3>1. CASE l # level BY <2>1, <2>2, <3>1
    <3>2. CASE l = level
      <4>1. ASSUME NEW f \in ToSet(v[l])
            PROVE  Before(Largest(f), Smallest(t)) \/ Before(Largest(t), Smallest(f))
        <5>1. l \in 0 .. level /\ level # 0 BY <1>3, <2>1, <3>2
        <5>2. f \in Table BY <1>2, <2>1, <4>1
        <5>3. PICK fs, fl \in Entry : fs = Smallest(f) /\ fl = Largest(f) BY <5>2, TableEnds
        <5>4. PICK ts, tl \in Entry : ts = Smallest(t) /\ tl = Largest(t) BY TableEnds
        <5>5. /\ fs.key \in Int /\ fl.key \in Int /\ ts.key \in Int /\ tl.key \in Int
              /\ ts \in t.entries /\ tl \in t.entries
          BY <5>2, <5>3, <5>4, TableEnds
        <5>6. Outside(low, high, f) BY <4>1, <5>1
        <5>7. low <= ts.key /\ tl.key <= high BY <5>5
        <5>8. CASE low > fl.key
          <6>1. fl.key < ts.key BY <5>5, <5>7, <5>8
          <6> QED BY <5>3, <5>4, <6>1, KeyBefore
        <5>9. CASE high < fs.key
          <6>1. tl.key < fs.key BY <5>5, <5>7, <5>9
          <6> QED BY <5>3, <5>4, <6>1, KeyBefore
        <5> QED BY <5>3, <5>6, <5>8, <5>9 DEF Outside, AfterFile, BeforeFile
      <4>2. ToSet(w[l]) = ToSet(v[l]) \cup {t} BY <2>1, <3>2
      <4> QED BY <2>2, <4>1, <4>2 DEF Apart
    <3> QED BY <3>1, <3>2
  <2>4. PICK s \in Seq(Table) : s = w[l] BY <1>1, <2>1
  <2>5. Apart(ToSet(s)) /\ \A i, j \in DOMAIN s : i < j => BySmallestKey(s[i], s[j])
    BY <2>1, <2>3, <2>4
  <2>6. InOrder(s) BY ONLY <2>5, s \in Seq(Table), ApartInOrder
  <2> QED BY <2>4, <2>6
<1>6. ASSUME NEW a \in Level, NEW b \in Level, a < b,
             NEW f \in ToSet(w[a]), NEW g \in ToSet(w[b]),
             NEW d \in f.entries, NEW e \in g.entries, d.key = e.key
      PROVE  d.seq > e.seq
  <2>1. a \in Int /\ b \in Int BY DEF Level
  <2>2. f \in ToSet(v[a]) \/ (a = level /\ f = t) BY <1>6
  <2>3. g \in ToSet(v[b]) \/ (b = level /\ g = t) BY <1>6
  <2>4. CASE f \in ToSet(v[a]) /\ g \in ToSet(v[b])
    <3>1. Newer(ToSet(v[a]), ToSet(v[b])) BY <1>6 DEF Layered
    <3> QED BY <1>6, <2>4, <3>1 DEF Newer
  <2>5. CASE a = level /\ f = t
    <3>1. b # level BY <1>6, <2>1, <2>5
    <3>2. g \in ToSet(v[b]) BY <2>3, <3>1
    <3>3. e \in Tabled(v) BY <1>6, <3>2, TabledIs
    <3> QED BY <1>6, <2>5, <3>3
  <2>6. CASE f \in ToSet(v[a]) /\ b = level /\ g = t
    <3>1. a \in Nat BY DEF Level
    <3>2. level # 0 /\ a \in 0 .. level BY <1>3, <1>6, <2>6, <3>1
    <3>3. d.key > Largest(f).key \/ d.key < Smallest(f).key BY <1>4, <1>6, <2>6, <3>2
    <3>4. f \in Table BY <1>2, <2>6
    <3> QED BY <1>6, <3>3, <3>4, TableEnds
  <2> QED BY <2>2, <2>3, <2>4, <2>5, <2>6
<1>7. ASSUME NEW f \in ToSet(w[0]), NEW g \in ToSet(w[0]), f.number > g.number,
             NEW d \in f.entries, NEW e \in g.entries
      PROVE  d.seq > e.seq
  <2>1. 0 \in Level BY <1>3 DEF Level
  <2>2. f \in ToSet(v[0]) \/ (level = 0 /\ f = t) BY <1>7, <2>1
  <2>3. g \in ToSet(v[0]) \/ (level = 0 /\ g = t) BY <1>7, <2>1
  <2>4. CASE f \in ToSet(v[0]) /\ g \in ToSet(v[0]) BY <1>7, <2>4 DEF Layered
  <2>5. CASE level = 0 /\ f = t
    <3>1. f # g
      <4>1. f.number \in Nat BY <2>5, TableIs
      <4> QED BY <1>7, <4>1
    <3>2. g \in ToSet(v[0]) BY <2>3, <2>5, <3>1
    <3>3. e \in Tabled(v) BY <1>7, <2>1, <3>2, TabledIs
    <3> QED BY <1>7, <2>5, <3>3
  <2>6. CASE f \in ToSet(v[0]) /\ level = 0 /\ g = t
    <3>1. f.number < t.number BY <2>6
    <3>2. f.number \in Nat /\ t.number \in Nat
      <4>1. f \in Table BY <1>2, <2>1, <2>6
      <4> QED BY <4>1, TableIs
    <3> QED BY <1>7, <2>6, <3>1, <3>2
  <2> QED BY <2>2, <2>3, <2>4, <2>5, <2>6
<1>8. \A a, b \in Level : a < b => Newer(ToSet(w[a]), ToSet(w[b])) BY <1>6 DEF Newer
<1>9. \A f, g \in ToSet(w[0]) : f.number > g.number =>
            \A d \in f.entries, e \in g.entries : d.seq > e.seq
  BY <1>7
<1> QED BY <1>5, <1>8, <1>9 DEF Layered

-----------------------------------------------------------------------------
(* Memtables above tables.                                                  *)

\* The memtable M, the immutable one F and the tables' entries T, by age.
Sequenced(M, F, T, n) ==
    /\ \A e \in M \cup F \cup T : e.seq <= n
    /\ \A d \in M, e \in F \cup T : d.seq > e.seq
    /\ \A d \in F, e \in T : d.seq > e.seq
    /\ Unique(M \cup F \cup T)

\* A write adds the newest entry.
LEMMA WriteSequenced ==
    ASSUME NEW M \in SUBSET Entry, NEW F \in SUBSET Entry, NEW T \in SUBSET Entry,
           NEW n \in Nat, Sequenced(M, F, T, n), NEW e \in Entry, e.seq = n + 1
    PROVE  Sequenced(M \cup {e}, F, T, n + 1)
<1>1. \A d \in M \cup F \cup T : d.seq \in Int /\ d.seq <= n BY DEF Sequenced, Entry
<1>2. \A d \in M \cup F \cup T : e.seq > d.seq /\ d.seq <= n + 1 /\ d.seq # e.seq BY <1>1
<1>3. \A d \in M \cup {e}, x \in F \cup T : d.seq > x.seq
  <2>1. \A d \in M, x \in F \cup T : d.seq > x.seq BY DEF Sequenced
  <2> QED BY <1>2, <2>1
<1>4. Unique(M \cup {e} \cup F \cup T)
  <2>1. Unique(M \cup F \cup T) BY DEF Sequenced
  <2> QED BY <1>2, <2>1 DEF Unique
<1>5. \A d \in M \cup {e} \cup F \cup T : d.seq <= n + 1 BY <1>2
<1>6. \A d \in F, x \in T : d.seq > x.seq BY DEF Sequenced
<1> QED BY <1>3, <1>4, <1>5, <1>6 DEF Sequenced

\* The memtable becomes the immutable one.
LEMMA FreezeSequenced ==
    ASSUME NEW M, NEW F, F \subseteq M, NEW T, NEW n, Sequenced(M, {}, T, n)
    PROVE  Sequenced({}, F, T, n)
BY DEF Sequenced, Unique

\* The immutable memtable becomes a table.
LEMMA FlushSequenced ==
    ASSUME NEW M, NEW F, NEW T, NEW n, Sequenced(M, F, T, n)
    PROVE  Sequenced(M, {}, T \cup F, n)
BY DEF Sequenced, Unique

\* Entries of the tables are dropped.
LEMMA ShrinkSequenced ==
    ASSUME NEW M, NEW F, NEW T, NEW U, U \subseteq T, NEW n, Sequenced(M, F, T, n)
    PROVE  Sequenced(M, F, U, n)
BY DEF Sequenced, Unique

-----------------------------------------------------------------------------
(* The entries of a version after an edit.                                  *)

\* Of a level I1 and of the next one I2 are replaced by T in the next one.
Replaced(v, w, level, I1, I2, T) ==
    /\ ToSet(w[level]) = ToSet(v[level]) \ I1
    /\ ToSet(w[level + 1]) = (ToSet(v[level + 1]) \ I2) \cup T
    /\ \A l \in Level \ {level, level + 1} : ToSet(w[l]) = ToSet(v[l])

\* What such an edit removes.
Removing(level, I1, I2) == Placed(level, I1) \cup Placed(level + 1, I2)

\* Such an edit, level by level.
LEMMA AfterReplaced ==
    ASSUME NEW v, NEW w, NEW level \in 0 .. NumLevels - 2, NEW I1, NEW I2, NEW T,
           Edited(v, w, Removing(level, I1, I2), Placed(level + 1, T))
    PROVE  Replaced(v, w, level, I1, I2, T)
<1>1. level # level + 1 OBVIOUS
<1>2. PICK deleted, added : /\ deleted = Placed(level, I1) \cup Placed(level + 1, I2)
                            /\ added = Placed(level + 1, T)
                            /\ Edited(v, w, deleted, added)
  BY DEF Removing
<1>3. \A l, f : /\ <<l, f>> \in deleted <=> (l = level /\ f \in I1) \/ (l = level + 1 /\ f \in I2)
                /\ <<l, f>> \in added <=> l = level + 1 /\ f \in T
  BY <1>2 DEF Placed
<1>4. {p[2] : p \in added} = T
  <2>1. \A p \in added : p[2] \in T BY <1>2 DEF Placed
  <2>2. \A f \in T : <<level + 1, f>> \in added /\ <<level + 1, f>>[2] = f BY <1>3
  <2> QED BY <2>1, <2>2
<1>5. \A l : After(v, deleted, added, l)
            = {f \in ToSet(v[l]) : <<l, f>> \notin deleted} \cup {f \in T : <<l, f>> \in added}
  BY <1>4 DEF After
<1>6. After(v, deleted, added, level) = ToSet(v[level]) \ I1
  <2>1. \A f : /\ <<level, f>> \in deleted <=> f \in I1
               /\ <<level, f>> \notin added
    BY <1>1, <1>3
  <2> QED BY <1>5, <2>1
<1>7. After(v, deleted, added, level + 1) = (ToSet(v[level + 1]) \ I2) \cup T
  <2>1. \A f : /\ <<level + 1, f>> \in deleted <=> f \in I2
               /\ <<level + 1, f>> \in added <=> f \in T
    BY <1>1, <1>3
  <2> QED BY <1>5, <2>1
<1>8. ASSUME NEW l \in Level \ {level, level + 1}
      PROVE  After(v, deleted, added, l) = ToSet(v[l])
  <2>1. \A f : <<l, f>> \notin deleted /\ <<l, f>> \notin added BY <1>3
  <2> QED BY <1>5, <2>1
<1>9. level \in Level /\ level + 1 \in Level BY VersionAssumption DEF Level
<1>10. \A l \in Level : ToSet(w[l]) = After(v, deleted, added, l) BY <1>2 DEF Edited
<1> QED BY <1>6, <1>7, <1>8, <1>9, <1>10 DEF Replaced

\* Every entry of the files T is one of the files S.
Within(T, S) == \A t \in T : \A e \in t.entries : \E f \in S : e \in f.entries

\* The version w has lost no entry of v, other than of S and not in T.
Remains(v, w, S, T) ==
    \A e : /\ e \in Tabled(w) => e \in Tabled(v)
           /\ e \in Tabled(v) /\ e \notin Tabled(w) =>
                /\ \E f \in S : e \in f.entries
                /\ \A t \in T : e \notin t.entries

\* What such an edit loses.
LEMMA ReplaceTabled ==
    ASSUME NEW v, NEW w, NEW level \in 0 .. NumLevels - 2, NEW I1, NEW I2, NEW T,
           I1 \subseteq ToSet(v[level]), I2 \subseteq ToSet(v[level + 1]),
           NEW S, S = I1 \cup I2, Within(T, S), Replaced(v, w, level, I1, I2, T)
    PROVE  Remains(v, w, S, T)
<1>1. level \in Level /\ level + 1 \in Level BY VersionAssumption DEF Level
<1> USE DEF Replaced, Within
<1>2. ASSUME NEW e \in Tabled(w) PROVE e \in Tabled(v)
  <2>1. PICK l \in Level : \E f \in ToSet(w[l]) : e \in f.entries BY <1>2, TabledIs
  <2>2. PICK f \in ToSet(w[l]) : e \in f.entries BY <2>1
  <2>3. CASE l = level + 1 /\ f \in T
    <3>1. PICK g \in I1 \cup I2 : e \in g.entries BY <2>2, <2>3
    <3>2. g \in ToSet(v[level]) \/ g \in ToSet(v[level + 1]) BY <3>1
    <3> QED BY <1>1, <3>1, <3>2, TabledIs
  <2>4. CASE ~(l = level + 1 /\ f \in T)
    <3>1. f \in ToSet(v[l]) BY <2>2, <2>4
    <3> QED BY <2>2, <3>1, TabledIs
  <2> QED BY <2>3, <2>4
<1>3. ASSUME NEW e \in Tabled(v), e \notin Tabled(w)
      PROVE  /\ \E f \in S : e \in f.entries
             /\ \A t \in T : e \notin t.entries
  <2>1. PICK l \in Level : \E f \in ToSet(v[l]) : e \in f.entries BY <1>3, TabledIs
  <2>2. PICK f \in ToSet(v[l]) : e \in f.entries BY <2>1
  <2>3. f \notin ToSet(w[l]) BY <1>3, <2>2, TabledIs
  <2>4. f \in I1 \cup I2 BY <2>2, <2>3
  <2>5. \A t \in T : e \notin t.entries
    <3>1. \A t \in T : t \in ToSet(w[level + 1]) OBVIOUS
    <3> QED BY <1>1, <1>3, <3>1, TabledIs
  <2> QED BY <2>2, <2>4, <2>5
<1> QED BY <1>2, <1>3 DEF Remains

\* A table more.
LEMMA AddTabled ==
    ASSUME NEW v, NEW w, NEW level \in Level, NEW t,
           ToSet(w[level]) = ToSet(v[level]) \cup {t},
           \A l \in Level : l # level => ToSet(w[l]) = ToSet(v[l])
    PROVE  \A e : e \in Tabled(w) <=> (e \in Tabled(v) \/ e \in t.entries)
<1>1. ASSUME NEW e \in Tabled(w) PROVE e \in Tabled(v) \cup t.entries
  <2>1. PICK l \in Level : \E f \in ToSet(w[l]) : e \in f.entries BY <1>1, TabledIs
  <2>2. PICK f \in ToSet(w[l]) : e \in f.entries BY <2>1
  <2>3. f \in ToSet(v[l]) \/ f = t BY <2>2
  <2> QED BY <2>2, <2>3, TabledIs
<1>2. ASSUME NEW e \in Tabled(v) PROVE e \in Tabled(w)
  <2>1. PICK l \in Level : \E f \in ToSet(v[l]) : e \in f.entries BY <1>2, TabledIs
  <2>2. PICK f \in ToSet(v[l]) : e \in f.entries BY <2>1
  <2>3. f \in ToSet(w[l]) BY <2>2
  <2> QED BY <2>2, <2>3, TabledIs
<1>3. ASSUME NEW e \in t.entries PROVE e \in Tabled(w)
  <2>1. t \in ToSet(w[level]) OBVIOUS
  <2> QED BY <1>3, <2>1, TabledIs
<1> QED BY <1>1, <1>2, <1>3

\* Tables hold entries.
LEMMA TabledEntries ==
    ASSUME NEW v, VersionOK(v)
    PROVE  Tabled(v) \subseteq Entry
<1> SUFFICES ASSUME NEW e \in Tabled(v) PROVE e \in Entry OBVIOUS
<1>1. PICK l \in Level : \E f \in ToSet(v[l]) : e \in f.entries BY TabledIs
<1>2. PICK f \in ToSet(v[l]) : e \in f.entries BY <1>1
<1>3. v[l] \in Seq(Table) BY DEF VersionOK
<1>4. f \in Table BY <1>2, <1>3, ElementsOf
<1> QED BY <1>2, <1>4, TableIs

-----------------------------------------------------------------------------
(* A compaction and the version it will be installed in.                    *)

\* What holds of a running compaction in whatever version is current: its inputs
\* are still there, the files beside the inputs of the next level are clear of
\* the outputs, and nothing left behind in the level is older.
Running(v, c) ==
    /\ ToSet(c.inputs[1]) \subseteq ToSet(v[c.level])
    /\ ToSet(c.inputs[2]) \subseteq ToSet(v[c.level + 1])
    /\ Beside(v, c)
    /\ MaxMemCompactLevel # 0 => Contiguous(In(c))
    /\ Newer(ToSet(v[c.level]) \ ToSet(c.inputs[1]), In(c))

\* The compaction that is chosen.
LEMMA RunningChosen ==
    ASSUME NEW v, VersionOK(v), Layered(v), Unique(Tabled(v)),
           NEW c, c.level \in 0 .. NumLevels - 2, Inputs(v, c.level, c.inputs),
           c.level # 0 => Unbroken(ToSet(v[c.level]), ToSet(c.inputs[1])),
           MaxMemCompactLevel # 0 => Contiguous(In(c))
    PROVE  Running(v, c)
<1>1. c.level + 1 \in Level /\ c.level + 1 # 0 BY VersionAssumption DEF Level
<1>2. Apart(ToSet(v[c.level + 1])) BY <1>1, LevelApart
<1>3. Beside(v, c) BY <1>2, InputsBeside
<1>4. Newer(ToSet(v[c.level]) \ ToSet(c.inputs[1]), In(c)) BY InputsNewer
<1>5. ToSet(c.inputs[1]) \subseteq ToSet(v[c.level])
      /\ ToSet(c.inputs[2]) \subseteq ToSet(v[c.level + 1])
  BY DEF Inputs
<1> QED BY <1>3, <1>4, <1>5 DEF Running

\* A flush while the compaction runs.
LEMMA RunningFlush ==
    ASSUME NEW v, VersionOK(v), NEW w, NEW c, c.level \in 0 .. NumLevels - 2,
           Running(v, c),
           NEW level \in Level, level <= MaxMemCompactLevel, NEW t \in Table,
           \A l \in Level : ToSet(w[l]) = ToSet(v[l]) \cup (IF l = level THEN {t} ELSE {}),
           \A d \in t.entries : \A e \in Tabled(v) : d.seq > e.seq,
           NEW low \in Int, NEW high \in Int, low <= high,
           \A e \in t.entries : low <= e.key /\ e.key <= high,
           level # 0 => \A l \in 0 .. level : \A f \in ToSet(v[l]) : Outside(low, high, f)
    PROVE  Running(w, c)
<1>1. /\ c.level \in Level /\ c.level + 1 \in Level /\ c.level \in Nat
      /\ level \in Nat /\ MaxMemCompactLevel \in Nat
  BY VersionAssumption DEF Level
<1>2. PICK I1, I2 : I1 = ToSet(c.inputs[1]) /\ I2 = ToSet(c.inputs[2]) OBVIOUS
<1>3. In(c) = I1 \cup I2 /\ I1 \subseteq ToSet(v[c.level]) /\ I2 \subseteq ToSet(v[c.level + 1])
  BY <1>2 DEF In, Running
<1>4. I1 \subseteq ToSet(w[c.level]) /\ I2 \subseteq ToSet(w[c.level + 1]) BY <1>1, <1>3
<1>5. \A l \in Level : ToSet(v[l]) \subseteq Table
  <2> TAKE l \in Level
  <2>1. v[l] \in Seq(Table) BY DEF VersionOK
  <2> QED BY <2>1, ElementsOf
<1>6. In(c) \in SUBSET Table BY <1>1, <1>3, <1>5
<1>7. Beside(w, c)
  <2>1. ASSUME NEW g \in ToSet(w[c.level + 1]), g \notin I2
        PROVE  BelowAll(g, In(c)) \/ AboveAll(g, In(c))
    <3>1. CASE g \in ToSet(v[c.level + 1])
      BY <1>2, <2>1, <3>1 DEF Running, Beside
    <3>2. CASE g \notin ToSet(v[c.level + 1])
      <4>1. level = c.level + 1 /\ g = t BY <1>1, <2>1, <3>2
      <4>2. level # 0 /\ MaxMemCompactLevel # 0 BY <1>1, <4>1
      <4>3. Contiguous(In(c)) BY <4>2 DEF Running
      <4>4. \A f \in In(c) : Outside(low, high, f)
        <5>1. c.level \in 0 .. level /\ c.level + 1 \in 0 .. level BY <1>1, <4>1
        <5> QED BY <1>3, <4>2, <5>1
      <4> QED BY ONLY <1>6, <4>1, <4>3, <4>4, t \in Table, low \in Int, high \in Int, low <= high,
                      \A e \in t.entries : low <= e.key /\ e.key <= high, TableBeside
    <3> QED BY <3>1, <3>2
  <2> QED BY <1>2, <2>1 DEF Beside
<1>8. Newer(ToSet(w[c.level]) \ I1, In(c))
  <2> SUFFICES ASSUME NEW f \in ToSet(w[c.level]), f \notin I1, NEW g \in In(c),
                      NEW d \in f.entries, NEW e \in g.entries, d.key = e.key
               PROVE  d.seq > e.seq
    BY DEF Newer
  <2>1. CASE f \in ToSet(v[c.level]) BY <1>2, <2>1 DEF Running, Newer
  <2>2. CASE f \notin ToSet(v[c.level])
    <3>1. f = t BY <1>1, <2>2
    <3>2. e \in Tabled(v) BY <1>1, <1>3, TabledIs
    <3> QED BY <3>1, <3>2
  <2> QED BY <2>1, <2>2
<1> QED BY <1>2, <1>4, <1>7, <1>8 DEF Running

-----------------------------------------------------------------------------
(* The order of the store.                                                  *)

\* No flush goes below level 0, or nobody compacts a range by hand.
NoHoles == MaxMemCompactLevel = 0 \/ \A o \in Options : o.manuals = 0

\* The entries of the immutable memtable.
Frozen == IF imm = NoTable THEN {} ELSE imm

\* What keeps the order of the store through every step.
OrderInv ==
    /\ TypeInv
    /\ Layered(current)
    /\ Sequenced(mem, Frozen, Tabled(current), last_sequence)
    /\ manuals \in Nat /\ (manual # NoManual => MaxMemCompactLevel = 0)
    /\ compaction # NoCompaction => Running(current, compaction)

\* The entries of the store, by where they are.
LEMMA StoredIs == Stored = mem \cup Frozen \cup Tabled(current)
BY DEF Stored, Frozen, Tabled

\* The immutable memtable holds entries.
LEMMA FrozenType == TypeInv => Frozen \in SUBSET Entry
BY DEF TypeInv, Frozen

\* An empty store is in order.
LEMMA InitOrder == Init => OrderInv
<1> SUFFICES ASSUME Init PROVE OrderInv OBVIOUS
<1>1. TypeInv BY InitTypeInv
<1>2. \A l \in Level : current[l] = <<>> BY DEF Init
<1>3. ToSet(<<>>) = {} BY DEF ToSet
<1>4. Layered(current)
  <2>1. 0 \in Level /\ 1 .. NumLevels - 1 \subseteq Level BY VersionAssumption DEF Level
  <2> QED BY <1>2, <1>3, <2>1 DEF Layered, InOrder, Newer
<1>5. Tabled(current) = {} BY <1>2, <1>3, TabledIs
<1>6. mem = {} /\ Frozen = {} /\ last_sequence = 0 BY DEF Init, Frozen
<1>7. Sequenced(mem, Frozen, Tabled(current), last_sequence)
  BY <1>5, <1>6 DEF Sequenced, Unique
<1> QED BY <1>1, <1>4, <1>7 DEF Init, OrderInv

\* A write enters the memtable above everything.
LEMMA WriteOrder ==
    ASSUME OrderInv, NEW key \in Key, NEW type \in {kTypeDeletion, kTypeValue}, Write(key, type)
    PROVE  OrderInv'
<1>1. TypeInv /\ TypeInv' BY WriteTypeInv DEF OrderInv
<1>2. PICK e : e = [key |-> key, seq |-> last_sequence + 1, type |-> type] OBVIOUS
<1>3. mem' = mem \cup {e} /\ last_sequence' = last_sequence + 1 BY <1>2 DEF Write
<1>4. UNCHANGED <<options, imm, background, manual, manuals>> BY DEF Write
<1>5. last_sequence \in Nat /\ mem \in SUBSET Entry /\ mem' \in SUBSET Entry
  <2>1. options.writes \in 0 .. MaxSequence BY <1>1, StoreAssumption DEF TypeInv
  <2>2. MaxSequence \in Nat BY VersionAssumption
  <2> QED BY <1>1, <2>1, <2>2 DEF TypeInv
<1>6. e \in Entry /\ e.seq = last_sequence + 1 BY <1>2, <1>3, <1>5
<1>7. Frozen \in SUBSET Entry BY <1>1, FrozenType
<1>8. Tabled(current) \in SUBSET Entry BY <1>1, TabledEntries DEF TypeInv
<1>9. Sequenced(mem \cup {e}, Frozen, Tabled(current), last_sequence + 1)
  BY <1>5, <1>6, <1>7, <1>8, WriteSequenced DEF OrderInv
<1>10. Frozen' = Frozen /\ current' = current /\ compaction' = compaction
  BY <1>4 DEF Frozen, background
<1>11. Tabled(current') = Tabled(current) BY <1>10
<1>12. Sequenced(mem', Frozen', Tabled(current'), last_sequence')
  BY <1>3, <1>9, <1>10, <1>11
<1>13. Layered(current') /\ (compaction' # NoCompaction => Running(current', compaction'))
  BY <1>10 DEF OrderInv
<1> QED BY <1>1, <1>4, <1>12, <1>13 DEF OrderInv

\* Steps that touch neither entries nor the compaction.
LEMMA SameOrder ==
    ASSUME OrderInv, TypeInv',
           UNCHANGED <<current, compaction, manual, manuals, memtables, last_sequence>>
    PROVE  OrderInv'
<1>1. Frozen' = Frozen BY DEF Frozen, memtables
<1>2. Tabled(current') = Tabled(current) OBVIOUS
<1>3. Sequenced(mem', Frozen', Tabled(current'), last_sequence')
  BY <1>1, <1>2 DEF OrderInv, memtables
<1>4. Layered(current') /\ (compaction' # NoCompaction => Running(current', compaction'))
  BY DEF OrderInv
<1> QED BY <1>3, <1>4 DEF OrderInv

\* The other steps of clients: MakeRoomForWrite hands the whole memtable on.
LEMMA ClientsOrder ==
    ASSUME NoHoles, OrderInv,
           \/ MakeRoomForWrite
           \/ GetSnapshot
           \/ \E i \in DOMAIN snapshots : ReleaseSnapshot(i)
           \/ \E key \in Key, seq \in 0 .. last_sequence : UpdateStats(key, seq)
           \/ \E level \in 0 .. NumLevels - 2, begin, end \in Key :
                begin <= end /\ CompactRange(level, begin, end)
    PROVE  OrderInv'
<1>1. TypeInv /\ TypeInv' BY ClientsTypeInv DEF OrderInv
<1>2. CASE MakeRoomForWrite
  <2>1. imm = NoTable /\ imm' = mem /\ mem' = {} BY <1>2 DEF MakeRoomForWrite
  <2>2. UNCHANGED <<current, compaction, manual, manuals, last_sequence>>
    BY <1>2 DEF MakeRoomForWrite, background, bounds
  <2>3. Frozen = {} /\ Frozen' \subseteq mem BY <2>1 DEF Frozen
  <2>4. PICK F : F = Frozen' OBVIOUS
  <2>5. Sequenced({}, F, Tabled(current), last_sequence)
    BY <2>3, <2>4, FreezeSequenced DEF OrderInv
  <2>6. Tabled(current') = Tabled(current) BY <2>2
  <2>7. Sequenced(mem', Frozen', Tabled(current'), last_sequence')
    BY <2>1, <2>2, <2>4, <2>5, <2>6
  <2>8. Layered(current') /\ (compaction' # NoCompaction => Running(current', compaction'))
    BY <2>2 DEF OrderInv
  <2> QED BY <1>1, <2>2, <2>7, <2>8 DEF OrderInv
<1>3. CASE GetSnapshot
  BY <1>1, <1>3, SameOrder DEF GetSnapshot, background, bounds
<1>4. CASE \E i \in DOMAIN snapshots : ReleaseSnapshot(i)
  BY <1>1, <1>4, SameOrder DEF ReleaseSnapshot, background, bounds
<1>5. CASE \E key \in Key, seq \in 0 .. last_sequence : UpdateStats(key, seq)
  BY <1>1, <1>5, SameOrder DEF UpdateStats, bounds
<1>6. CASE \E level \in 0 .. NumLevels - 2, begin, end \in Key :
                begin <= end /\ CompactRange(level, begin, end)
  <2>1. PICK level \in 0 .. NumLevels - 2, begin \in Key, end \in Key :
            begin <= end /\ CompactRange(level, begin, end)
    BY <1>6
  <2>2. /\ manuals < options.manuals /\ manuals' = manuals + 1
        /\ UNCHANGED <<current, compaction, memtables, last_sequence>>
    BY <2>1 DEF CompactRange, background
  <2>3. MaxMemCompactLevel = 0
    <3>1. options \in Options BY <1>1 DEF TypeInv
    <3>2. manuals \in Nat BY DEF OrderInv
    <3> QED BY <2>2, <3>1, <3>2 DEF NoHoles
  <2>4. Frozen' = Frozen BY <2>2 DEF Frozen, memtables
  <2>5. Tabled(current') = Tabled(current) BY <2>2
  <2>6. Sequenced(mem', Frozen', Tabled(current'), last_sequence')
    BY <2>2, <2>4, <2>5 DEF OrderInv, memtables
  <2>7. Layered(current') /\ (compaction' # NoCompaction => Running(current', compaction'))
    BY <2>2 DEF OrderInv
  <2>8. manuals' \in Nat BY <2>2 DEF OrderInv
  <2> QED BY <1>1, <2>3, <2>6, <2>7, <2>8 DEF OrderInv
<1> QED BY <1>2, <1>3, <1>4, <1>5, <1>6

-----------------------------------------------------------------------------
(* Flushes.                                                                 *)

\* Where the immutable memtable goes.
FlushedTo(level, t, low, high) ==
    /\ level <= MaxMemCompactLevel
    /\ t.entries = imm /\ t.number = next_file
    /\ low <= high /\ \A e \in t.entries : low <= e.key /\ e.key <= high
    /\ level # 0 => \A l \in 0 .. level : \A f \in ToSet(current[l]) : Outside(low, high, f)
    /\ \A l \in Level :
            ToSet(current'[l]) = ToSet(current[l]) \cup (IF l = level THEN {t} ELSE {})
    /\ \A l \in Level : \A i, j \in DOMAIN current'[l] :
            i < j => BySmallestKey(current'[l][i], current'[l][j])

\* An edit that adds one table.
LEMMA ApplyFlushed ==
    ASSUME NEW v, VersionOK(v), NEW n \in Nat \ {0}, Counted(v, n),
           NEW level \in Level, NEW t \in Table, t.number = n
    PROVE  LET w == Apply(v, {}, {<<level, t>>})
           IN  /\ \A l \in Level :
                    ToSet(w[l]) = ToSet(v[l]) \cup (IF l = level THEN {t} ELSE {})
               /\ \A l \in Level : \A i, j \in DOMAIN w[l] :
                    i < j => BySmallestKey(w[l][i], w[l][j])
<1>1. PICK added : added = {<<level, t>>} OBVIOUS
<1>2. PICK w : w = Apply(v, {}, added) OBVIOUS
<1>3. n \in Nat /\ n + 1 \in Nat /\ n <= n + 1 OBVIOUS
<1>4. added \subseteq Level \X Table BY <1>1
<1>5. IsFiniteSet(added) BY <1>1, FS_Singleton
<1>6. \A p \in added : p[2].number = n BY <1>1
<1>7. \A p, q \in added : p[2].number = q[2].number => p = q BY <1>1
<1>8. \A p \in added : p[2].number \in 1 .. n + 1 - 1 BY <1>6
<1>9. \A p \in added : \A l \in Level : \A f \in ToSet(v[l]) :
            f.number = p[2].number => <<l, f>> \in {}
  <2>1. \A l \in Level : \A f \in ToSet(v[l]) : f.number \in 1 .. n - 1 BY DEF Counted
  <2>2. n \notin 1 .. n - 1 OBVIOUS
  <2> QED BY <1>6, <2>1, <2>2
<1>10. /\ \A l \in Level : ToSet(w[l]) = After(v, {}, added, l)
       /\ \A l \in Level : \A i, j \in DOMAIN w[l] :
                i < j => BySmallestKey(w[l][i], w[l][j])
  BY ONLY <1>2, VersionOK(v), Counted(v, n), <1>3, <1>4, <1>5, <1>7, <1>8, <1>9, InstallIs
<1>11. \A l \in Level : After(v, {}, added, l)
            = ToSet(v[l]) \cup (IF l = level THEN {t} ELSE {})
  <2>1. {p[2] : p \in added} = {t} BY <1>1
  <2>2. \A l, f : <<l, f>> \in added <=> l = level /\ f = t BY <1>1
  <2> QED BY <2>1, <2>2 DEF After
<1> QED BY <1>1, <1>2, <1>10, <1>11

\* The least and the greatest key of a memtable.
LowKey(S) == CHOOSE k \in {e.key : e \in S} : \A e \in S : k <= e.key
HighKey(S) == CHOOSE k \in {e.key : e \in S} : \A e \in S : k >= e.key

\* They bound its keys.
LEMMA LowHigh ==
    ASSUME NEW S \in SUBSET Entry, S # {}
    PROVE  /\ LowKey(S) \in Key /\ HighKey(S) \in Key /\ LowKey(S) <= HighKey(S)
           /\ \A e \in S : LowKey(S) <= e.key /\ e.key <= HighKey(S)
BY FlushRange DEF LowKey, HighKey

\* WriteLevel0Table and LogAndApply.
LEMMA FlushIs ==
    ASSUME TypeInv, Layered(current), CompactMemTable
    PROVE  /\ \E level \in Level, t \in Table, low, high \in Int : FlushedTo(level, t, low, high)
           /\ imm # NoTable /\ imm' = NoTable
           /\ UNCHANGED <<options, mem, last_sequence, views, manual, compaction, bounds>>
<1>1. PICK s : s = imm OBVIOUS
<1>2. s \in (SUBSET Entry) \ {{}} BY <1>1 DEF TypeInv, CompactMemTable
<1>3. PICK low : low = LowKey(s) OBVIOUS
<1>4. PICK high : high = HighKey(s) OBVIOUS
<1>5. low \in Key /\ high \in Key /\ low <= high /\ \A e \in s : low <= e.key /\ e.key <= high
  BY <1>2, <1>3, <1>4, LowHigh
<1>6. PICK v : v = current OBVIOUS
<1>7. VersionOK(v) /\ Layered(v) BY <1>6 DEF TypeInv
<1>8. PICK n \in Nat \ {0} : n = next_file BY DEF TypeInv
<1>9. Counted(v, n) BY <1>6, <1>8 DEF TypeInv
<1>10. PICK level : level = PickLevelForMemTableOutput(v, low, high) OBVIOUS
<1>11. /\ level \in 0 .. MaxMemCompactLevel /\ level \in Level
       /\ level # 0 => \A l \in 0 .. level : ~OverlapInLevel(v, l, low, high)
  BY <1>10, PickLevelIs
<1>12. PICK t : t = [number |-> n, entries |-> s] OBVIOUS
<1>13. t \in Table /\ t.number = n /\ t.entries = s BY <1>2, <1>12 DEF Table
<1>14. PICK w : w = Apply(v, {}, {<<level, t>>}) OBVIOUS
<1>15. current' = w
  BY <1>1, <1>3, <1>4, <1>6, <1>8, <1>10, <1>12, <1>14
  DEF CompactMemTable, Install, LowKey, HighKey
<1>16. /\ \A l \in Level : ToSet(w[l]) = ToSet(v[l]) \cup (IF l = level THEN {t} ELSE {})
       /\ \A l \in Level : \A i, j \in DOMAIN w[l] : i < j => BySmallestKey(w[l][i], w[l][j])
  BY ONLY <1>7, <1>9, <1>11, <1>13, <1>14, n \in Nat \ {0}, ApplyFlushed
<1>17. level # 0 => \A l \in 0 .. level : \A f \in ToSet(v[l]) : Outside(low, high, f)
  <2> SUFFICES ASSUME level # 0, NEW l \in 0 .. level
               PROVE  \A f \in ToSet(v[l]) : Outside(low, high, f)
    OBVIOUS
  <2>1. l \in Level
    <3>1. level \in Level BY <1>11
    <3>2. level \in Nat /\ level <= NumLevels - 1 /\ NumLevels \in Nat
      BY <3>1, VersionAssumption DEF Level
    <3> QED BY <3>2 DEF Level
  <2>2. ~OverlapInLevel(v, l, low, high) BY <1>11
  <2>3. v \in [Level -> Seq(Table)] BY <1>7 DEF VersionOK
  <2>4. l # 0 => InOrder(v[l])
    <3>1. l # 0 => l \in 1 .. NumLevels - 1 BY <2>1 DEF Level
    <3> QED BY <1>7, <3>1 DEF Layered
  <2>5. low \in Key /\ high \in Key BY <1>5
  <2> QED BY ONLY <2>1, <2>2, <2>3, <2>4, <2>5, OverlapInLevelIs
<1>18. level <= MaxMemCompactLevel BY <1>11, VersionAssumption
<1>19. low \in Int /\ high \in Int BY <1>5 DEF Key
<1>20. FlushedTo(level, t, low, high)
  BY <1>1, <1>5, <1>6, <1>8, <1>13, <1>15, <1>16, <1>17, <1>18 DEF FlushedTo
<1>21. /\ imm # NoTable /\ imm' = NoTable
       /\ UNCHANGED <<options, mem, last_sequence, views, manual, compaction, bounds>>
  BY DEF CompactMemTable
<1> QED BY <1>11, <1>13, <1>19, <1>20, <1>21

\* A flush, also one that the loop of a compaction makes: the table passes no
\* level it overlaps, and stays clear of the running compaction.
LEMMA FlushOrder ==
    ASSUME OrderInv, CompactMemTable
    PROVE  OrderInv'
<1>1. TypeInv /\ TypeInv' BY CompactMemTableTypeInv DEF OrderInv
<1>2. imm # NoTable /\ imm' = NoTable
      /\ UNCHANGED <<options, mem, last_sequence, views, manual, compaction, bounds>>
  BY <1>1, FlushIs DEF OrderInv
<1>3. PICK level \in Level, t \in Table, low \in Int, high \in Int : FlushedTo(level, t, low, high)
  BY <1>1, FlushIs DEF OrderInv
<1>4. PICK v : v = current OBVIOUS
<1>5. PICK w : w = current' OBVIOUS
<1>6. VersionOK(v) /\ Counted(v, next_file) /\ VersionOK(w) /\ next_file \in Nat
  BY <1>1, <1>4, <1>5 DEF TypeInv
<1>7. Layered(v) BY <1>4 DEF OrderInv
<1>8. Frozen = t.entries /\ Frozen' = {} BY <1>2, <1>3 DEF Frozen, FlushedTo
<1>9. \A d \in t.entries : \A e \in Tabled(v) : d.seq > e.seq
  BY <1>4, <1>8 DEF OrderInv, Sequenced
<1>10. /\ level <= MaxMemCompactLevel /\ low <= high
       /\ \A e \in t.entries : low <= e.key /\ e.key <= high
       /\ level # 0 => \A l \in 0 .. level : \A f \in ToSet(v[l]) : Outside(low, high, f)
       /\ \A l \in Level : ToSet(w[l]) = ToSet(v[l]) \cup (IF l = level THEN {t} ELSE {})
       /\ \A l \in Level : \A i, j \in DOMAIN w[l] :
            i < j => BySmallestKey(w[l][i], w[l][j])
  BY <1>3, <1>4, <1>5 DEF FlushedTo
<1>11. \A f \in ToSet(v[level]) : f.number < t.number
  <2>1. t.number = next_file BY <1>3 DEF FlushedTo
  <2> QED BY <1>6, <2>1 DEF Counted
<1>12. Layered(w)
  BY ONLY <1>6, <1>7, <1>9, <1>10, <1>11, level \in Level, t \in Table, low \in Int,
          high \in Int, AddLayered
<1>13. Tabled(w) = Tabled(v) \cup t.entries
  <2>1. /\ ToSet(w[level]) = ToSet(v[level]) \cup {t}
        /\ \A l \in Level : l # level => ToSet(w[l]) = ToSet(v[l])
    BY <1>10
  <2>2. \A e : e \in Tabled(w) <=> (e \in Tabled(v) \/ e \in t.entries)
    BY ONLY <2>1, level \in Level, AddTabled
  <2> QED BY <2>2
<1>14. Sequenced(mem, {}, Tabled(v) \cup t.entries, last_sequence)
  BY <1>4, <1>8, FlushSequenced DEF OrderInv
<1>15. Sequenced(mem', Frozen', Tabled(w), last_sequence')
  BY <1>2, <1>8, <1>13, <1>14
<1>16. compaction' # NoCompaction => Running(w, compaction')
  <2> SUFFICES ASSUME compaction # NoCompaction PROVE Running(w, compaction) BY <1>2
  <2>1. PICK c : c = compaction OBVIOUS
  <2>2. c.level \in 0 .. NumLevels - 2 BY <1>1, <2>1 DEF TypeInv, RunningOK
  <2>3. Running(v, c) BY <1>4, <2>1 DEF OrderInv
  <2>4. Running(w, c)
    BY ONLY <1>6, <1>9, <1>10, <2>2, <2>3, level \in Level, t \in Table, low \in Int,
            high \in Int, RunningFlush
  <2> QED BY <2>1, <2>4
<1>17. Tabled(current') = Tabled(w) BY <1>5
<1>18. Sequenced(mem', Frozen', Tabled(current'), last_sequence') BY <1>15, <1>17
<1>19. Layered(current') /\ (compaction' # NoCompaction => Running(current', compaction'))
  BY <1>5, <1>12, <1>16
<1> QED BY <1>1, <1>2, <1>18, <1>19 DEF OrderInv, bounds

-----------------------------------------------------------------------------
(* Compactions.                                                             *)

\* Files that are replaced by tables of the next level: what holds of the new
\* version.
LEMMA ReplaceOrder ==
    ASSUME NEW v, VersionOK(v), Layered(v), NEW w, VersionOK(w),
           NEW c, c.level \in 0 .. NumLevels - 2, Running(v, c),
           NEW T \in SUBSET Table, Apart(T),
           Within(T, In(c)),
           Edited(v, w, Removed(c), Placed(c.level + 1, T)),
           Ordered(w)
    PROVE  Layered(w) /\ Remains(v, w, In(c), T)
<1>1. PICK I1, I2 : I1 = ToSet(c.inputs[1]) /\ I2 = ToSet(c.inputs[2]) OBVIOUS
<1>2. PICK level : level = c.level /\ level \in 0 .. NumLevels - 2 OBVIOUS
<1>3. In(c) = I1 \cup I2 BY <1>1 DEF In
<1>4. I1 \in SUBSET ToSet(v[level]) /\ I2 \in SUBSET ToSet(v[level + 1])
  BY <1>1, <1>2 DEF Running
<1>5. level \in Level /\ level + 1 \in Level BY <1>2, VersionAssumption DEF Level
<1>6. Removed(c) = Removing(level, I1, I2) BY <1>1, <1>2 DEF Removed, Removing, Placed
<1>7. Edited(v, w, Removing(level, I1, I2), Placed(level + 1, T)) BY <1>2, <1>6
<1>8. Replaced(v, w, level, I1, I2, T) BY ONLY <1>2, <1>7, AfterReplaced
<1>9. \A t \in T : \A e \in t.entries : \E f \in I1 \cup I2 : e \in f.entries
  BY <1>3 DEF Within
<1>10. /\ \A g \in ToSet(v[level + 1]) \ I2 : BelowAll(g, I1 \cup I2) \/ AboveAll(g, I1 \cup I2)
       /\ Newer(ToSet(v[level]) \ I1, I1 \cup I2)
  BY <1>1, <1>2, <1>3 DEF Running, Beside
<1>13. /\ ToSet(w[level]) = ToSet(v[level]) \ I1
       /\ ToSet(w[level + 1]) = (ToSet(v[level + 1]) \ I2) \cup T
       /\ \A l \in Level \ {level, level + 1} : ToSet(w[l]) = ToSet(v[l])
  BY <1>8 DEF Replaced
<1>14. \A l \in Level : \A i, j \in DOMAIN w[l] : i < j => BySmallestKey(w[l][i], w[l][j])
  BY DEF Ordered
<1>11. Layered(w)
  BY ONLY <1>2, <1>4, <1>13, <1>9, <1>10, VersionOK(v), Layered(v), VersionOK(w),
          T \in SUBSET Table, Apart(T),
          <1>14, ReplaceLayered
<1>12. Remains(v, w, In(c), T)
  <2>1. PICK S : S = In(c) OBVIOUS
  <2>2. S = I1 \cup I2 /\ Within(T, S) BY <1>3, <2>1
  <2>3. Remains(v, w, S, T) BY ONLY <1>2, <1>4, <1>8, <2>2, ReplaceTabled
  <2> QED BY <2>1, <2>3
<1> QED BY <1>11, <1>12

\* The compaction that is picked.
LEMMA PickedRunning ==
    ASSUME OrderInv, NeedsCompaction, NEW c, c = PickCompaction(current, pointer, seek)
    PROVE  /\ c.level \in 0 .. NumLevels - 2 /\ Inputs(current, c.level, c.inputs)
           /\ Running(current, c)
<1>1. PICK v, p, s : v = current /\ p = pointer /\ s = seek OBVIOUS
<1>2. VersionOK(v) /\ Layered(v) BY <1>1 DEF OrderInv, TypeInv
<1>3. Seeks(v, s) /\ (SizeCompaction(v) \/ s # {})
  BY <1>1 DEF OrderInv, TypeInv, NeedsCompaction
<1>4. c = PickCompaction(v, p, s) BY <1>1
<1>5. /\ c.level \in 0 .. NumLevels - 2 /\ Inputs(v, c.level, c.inputs)
      /\ Contiguous(ToSet(c.inputs[1]) \cup ToSet(c.inputs[2]))
      /\ c.level # 0 /\ Apart(ToSet(v[c.level]))
            => Unbroken(ToSet(v[c.level]), ToSet(c.inputs[1]))
  BY ONLY <1>2, <1>3, <1>4, PickCompactionIs
<1>6. Contiguous(In(c)) BY <1>5 DEF In
<1>7. c.level # 0 => Unbroken(ToSet(v[c.level]), ToSet(c.inputs[1]))
  <2> SUFFICES ASSUME c.level # 0 PROVE Unbroken(ToSet(v[c.level]), ToSet(c.inputs[1])) OBVIOUS
  <2>1. c.level \in Level BY <1>5, VersionAssumption DEF Level
  <2>2. Apart(ToSet(v[c.level])) BY <1>2, <2>1, LevelApart
  <2> QED BY <1>5, <2>2
<1>8. Unique(Tabled(v)) BY <1>1 DEF OrderInv, Sequenced, Unique
<1>9. Running(v, c) BY ONLY <1>2, <1>5, <1>6, <1>7, <1>8, RunningChosen
<1> QED BY <1>1, <1>5, <1>9

\* Starting it changes nothing of that.
LEMMA StartRunning ==
    ASSUME NEW v, NEW c, Running(v, c)
    PROVE  Running(v, Start(c))
BY DEF Running, Start, Beside, In

\* A file moved to the next level.
LEMMA MoveOrder ==
    ASSUME OrderInv, NEW c, c.level \in 0 .. NumLevels - 2, Inputs(current, c.level, c.inputs),
           Running(current, c), IsTrivialMove(c), MoveFile(c)
    PROVE  Layered(current') /\ Tabled(current') = Tabled(current)
<1>1. PICK v : v = current OBVIOUS
<1>2. PICK f : f = c.inputs[1][1] OBVIOUS
<1>3. PICK level : level = c.level /\ level \in 0 .. NumLevels - 2 OBVIOUS
<1>4. c.inputs[1] \in Seq(Table) /\ Len(c.inputs[1]) = 1 /\ c.inputs[2] = <<>>
  BY DEF IsTrivialMove, Inputs
<1>5. ToSet(c.inputs[1]) = {f} /\ ToSet(c.inputs[2]) = {}
  <2>1. DOMAIN c.inputs[1] = {1} BY <1>4
  <2>2. ToSet(c.inputs[1]) = {f} BY <1>2, <2>1 DEF ToSet
  <2>3. ToSet(<<>>) = {} BY DEF ToSet
  <2> QED BY <1>4, <2>2, <2>3
<1>6. In(c) = {f} BY <1>5 DEF In
<1>7. f \in ToSet(v[level]) BY <1>1, <1>3, <1>5 DEF Running
<1>8. level \in Level /\ v[level] \in Seq(Table)
  <2>1. level \in Level BY <1>3, VersionAssumption DEF Level
  <2> QED BY <1>1, <2>1 DEF OrderInv, TypeInv, VersionOK
<1>9. f \in Table BY <1>7, <1>8, ElementsOf
<1>11. PICK w : w = Apply(v, Placed(level, {f}), Placed(level + 1, {f})) OBVIOUS
<1>12. current' = w BY <1>1, <1>2, <1>3, <1>11 DEF MoveFile, Install, Placed
<1>13. PICK n \in Nat : n = next_file BY DEF OrderInv, TypeInv
<1>14. VersionOK(v) /\ Counted(v, n) /\ Layered(v) BY <1>1, <1>13 DEF OrderInv, TypeInv
<1>15. /\ VersionOK(w)
       /\ Edited(v, w, Placed(level, {f}), Placed(level + 1, {f}))
       /\ Ordered(w)
  BY ONLY <1>3, <1>7, <1>11, <1>13, <1>14, MoveIs
<1>16. PICK T : T = {f} OBVIOUS
<1>17. T \in SUBSET Table /\ Apart(T) BY <1>9, <1>16 DEF Apart
<1>18. Within(T, In(c)) BY <1>6, <1>16 DEF Within
<1>19. Placed(level, {f}) = Removed(c) /\ Placed(level + 1, {f}) = Placed(c.level + 1, T)
  BY <1>3, <1>5, <1>16 DEF Placed, Removed
<1>20. Running(v, c) /\ c.level \in 0 .. NumLevels - 2 BY <1>1
<1>21. Layered(w) /\ Remains(v, w, In(c), T)
  <2>1. Edited(v, w, Removed(c), Placed(c.level + 1, T)) BY <1>15, <1>19
  <2>2. Ordered(w) BY <1>15
  <2>3. VersionOK(w) BY <1>15
  <2> QED BY ONLY <1>14, <1>17, <1>18, <1>20, <2>1, <2>2, <2>3, ReplaceOrder
<1>22. Tabled(w) = Tabled(v) BY <1>6, <1>16, <1>21 DEF Remains
<1>23. Layered(current') BY <1>12, <1>21
<1>24. Tabled(current') = Tabled(current)
  <2>1. Tabled(current') = Tabled(w) BY <1>12
  <2> QED BY <1>1, <1>22, <2>1
<1> QED BY <1>23, <1>24

\* A trivial move or the start of a compaction; no entry is lost.
LEMMA BackgroundOrder ==
    ASSUME OrderInv, BackgroundCompaction
    PROVE  /\ OrderInv'
           /\ Tabled(current') = Tabled(current)
<1>1. TypeInv /\ TypeInv' BY BackgroundCompactionTypeInv DEF OrderInv
<1>2. PICK c : /\ c = PickCompaction(current, pointer, seek)
               /\ IF IsTrivialMove(c)
                  THEN MoveFile(c) /\ UNCHANGED compaction
                  ELSE compaction' = Start(c) /\ UNCHANGED <<current, seek>>
  BY DEF BackgroundCompaction
<1>3. UNCHANGED <<memtables, last_sequence, manual, manuals>> BY DEF BackgroundCompaction, bounds
<1>4. /\ c.level \in 0 .. NumLevels - 2 /\ Inputs(current, c.level, c.inputs)
      /\ Running(current, c)
  <2>1. NeedsCompaction BY DEF BackgroundCompaction
  <2> QED BY <1>2, <2>1, PickedRunning
<1>5. Frozen' = Frozen BY <1>3 DEF Frozen, memtables
<1>6. CASE IsTrivialMove(c)
  <2>1. MoveFile(c) /\ compaction' = compaction BY <1>2, <1>6
  <2>2. compaction = NoCompaction BY DEF BackgroundCompaction
  <2>3. Layered(current') /\ Tabled(current') = Tabled(current)
    BY <1>4, <1>6, <2>1, MoveOrder
  <2>4. Sequenced(mem', Frozen', Tabled(current'), last_sequence')
    BY <1>3, <1>5, <2>3 DEF OrderInv, memtables
  <2> QED BY <1>1, <1>3, <2>1, <2>2, <2>3, <2>4 DEF OrderInv
<1>7. CASE ~IsTrivialMove(c)
  <2>1. compaction' = Start(c) /\ current' = current BY <1>2, <1>7
  <2>2. Running(current', compaction') BY <1>4, <2>1, StartRunning
  <2>3. Tabled(current') = Tabled(current) BY <2>1
  <2>4. Sequenced(mem', Frozen', Tabled(current'), last_sequence')
    BY <1>3, <1>5, <2>3 DEF OrderInv, memtables
  <2>5. Layered(current') BY <2>1 DEF OrderInv
  <2> QED BY <1>1, <1>3, <2>2, <2>3, <2>4, <2>5 DEF OrderInv
<1> QED BY <1>6, <1>7

\* What a requested compaction begins with.
LEMMA ManualChosen ==
    ASSUME OrderInv, ManualCompaction, compaction' # NoCompaction
    PROVE  \E c : /\ c.level \in 0 .. NumLevels - 2 /\ Inputs(current, c.level, c.inputs)
                 /\ Running(current, c) /\ compaction' = Start(c)
<1>1. TypeInv BY DEF OrderInv
<1>2. compaction = NoCompaction /\ manual # NoManual BY DEF ManualCompaction
<1>3. MaxMemCompactLevel = 0 BY <1>2 DEF OrderInv
<1>4. PICK v : v = current OBVIOUS
<1>5. VersionOK(v) /\ Layered(v) BY <1>1, <1>4 DEF OrderInv, TypeInv
<1>6. ManualOK BY <1>1, <1>2 DEF TypeInv
<1>7. PICK level \in 0 .. NumLevels - 2 : level = manual.level BY <1>6 DEF ManualOK
<1>8. PICK begin \in Key, end \in Key :
          begin = manual.begin /\ end = manual.end /\ begin <= end
  BY <1>6 DEF ManualOK
<1>9. PICK inputs : inputs = CompactRangeInputs(v, level, begin, end) OBVIOUS
<1>10. inputs # <<>> /\ \E c \in {SetupOtherInputs(v, level, inputs)} : compaction' = Start(c)
  BY <1>2, <1>4, <1>7, <1>8, <1>9 DEF ManualCompaction
<1>11. PICK c : c = SetupOtherInputs(v, level, inputs) /\ compaction' = Start(c) BY <1>10
<1>12. level \in Level BY <1>7, VersionAssumption DEF Level
<1>13. /\ inputs \in Seq(Table) /\ ToSet(inputs) \subseteq ToSet(v[level])
       /\ level = 0 /\ inputs # <<>> => Closed(v, inputs)
       /\ level # 0 /\ InOrder(v[level]) => Unbroken(ToSet(v[level]), ToSet(inputs))
  BY <1>5, <1>8, <1>9, <1>12, CompactRangeInputsIs
<1>14. level = 0 => Closed(v, inputs) BY <1>10, <1>13
<1>15. /\ c.level = level /\ Inputs(v, level, c.inputs)
       /\ level # 0 /\ Apart(ToSet(v[level])) /\ Unbroken(ToSet(v[level]), ToSet(inputs))
              => Unbroken(ToSet(v[level]), ToSet(c.inputs[1]))
  BY <1>5, <1>7, <1>10, <1>11, <1>13, <1>14, SetupOtherInputsIs
<1>16. level # 0 => Unbroken(ToSet(v[level]), ToSet(c.inputs[1]))
  <2> SUFFICES ASSUME level # 0 PROVE Unbroken(ToSet(v[level]), ToSet(c.inputs[1])) OBVIOUS
  <2>1. Apart(ToSet(v[level])) BY <1>5, <1>12, LevelApart
  <2>2. level \in 1 .. NumLevels - 1 BY <1>12 DEF Level
  <2>3. InOrder(v[level]) BY <1>5, <2>2 DEF Layered
  <2> QED BY <1>13, <1>15, <2>1, <2>3
<1>17. Unique(Tabled(v)) BY <1>4 DEF OrderInv, Sequenced, Unique
<1>18. /\ c.level \in 0 .. NumLevels - 2 /\ Inputs(v, c.level, c.inputs)
       /\ c.level # 0 => Unbroken(ToSet(v[c.level]), ToSet(c.inputs[1]))
  BY <1>7, <1>15, <1>16
<1>19. Running(v, c) BY ONLY <1>3, <1>5, <1>17, <1>18, RunningChosen
<1> QED BY <1>4, <1>11, <1>18, <1>19

\* The start of a requested compaction, or the answer that nothing is left.
LEMMA ManualOrder ==
    ASSUME OrderInv, ManualCompaction
    PROVE  OrderInv' /\ UNCHANGED current
<1>1. TypeInv /\ TypeInv' BY ManualCompactionTypeInv DEF OrderInv
<1>2. UNCHANGED <<current, memtables, last_sequence, manuals>> BY DEF ManualCompaction, bounds
<1>3. compaction = NoCompaction /\ manual # NoManual BY DEF ManualCompaction
<1>4. MaxMemCompactLevel = 0 BY <1>3 DEF OrderInv
<1>5. Frozen' = Frozen BY <1>2 DEF Frozen, memtables
<1>6. Tabled(current') = Tabled(current) BY <1>2
<1>7. Sequenced(mem', Frozen', Tabled(current'), last_sequence')
  BY <1>2, <1>5, <1>6 DEF OrderInv, memtables
<1>8. Layered(current') BY <1>2 DEF OrderInv
<1>9. compaction' # NoCompaction => Running(current', compaction')
  <2> SUFFICES ASSUME compaction' # NoCompaction PROVE Running(current', compaction') OBVIOUS
  <2>1. PICK c : Running(current, c) /\ compaction' = Start(c) BY ManualChosen
  <2>2. Running(current, Start(c)) BY <2>1, StartRunning
  <2> QED BY <1>2, <2>1, <2>2
<1>10. MaxMemCompactLevel = 0 /\ manuals' \in Nat BY <1>2, <1>4 DEF OrderInv
<1> QED BY <1>1, <1>2, <1>7, <1>8, <1>9, <1>10 DEF OrderInv

\* The outputs of a compaction follow each other.
Tables(n, D) == {[number |-> n + i - 1, entries |-> D[i]] : i \in DOMAIN D}

\* They do not overlap and hold what was not dropped.
LEMMA OutputsApart ==
    ASSUME NEW D \in Seq((SUBSET Entry) \ {{}}), NEW n \in Nat \ {0},
           \A i, j \in DOMAIN D : i < j => \A d \in D[i] : \A e \in D[j] : Before(d, e)
    PROVE  /\ Tables(n, D) \in SUBSET Table /\ Apart(Tables(n, D))
           /\ \A e : e \in UNION ToSet(D) <=> \E t \in Tables(n, D) : e \in t.entries
<1>1. DOMAIN D = 1 .. Len(D) /\ Len(D) \in Nat OBVIOUS
<1>2. \A i \in DOMAIN D : n + i - 1 \in Nat /\ D[i] \in (SUBSET Entry) \ {{}} BY <1>1
<1>3. PICK T : T = Tables(n, D) OBVIOUS
<1>4. T \in SUBSET Table BY <1>2, <1>3 DEF Table, Tables
<1>5. \A t \in T : \E i \in DOMAIN D : t = [number |-> n + i - 1, entries |-> D[i]]
  BY <1>3 DEF Tables
<1>6. \A i \in DOMAIN D : [number |-> n + i - 1, entries |-> D[i]] \in T
  BY <1>3 DEF Tables
<1>7. \A t, u \in T : t = u \/ Before(Largest(t), Smallest(u)) \/ Before(Largest(u), Smallest(t))
  <2> SUFFICES ASSUME NEW t \in T, NEW u \in T, t # u
               PROVE  Before(Largest(t), Smallest(u)) \/ Before(Largest(u), Smallest(t))
    OBVIOUS
  <2>1. PICK i \in DOMAIN D : t = [number |-> n + i - 1, entries |-> D[i]] BY <1>5
  <2>2. PICK j \in DOMAIN D : u = [number |-> n + j - 1, entries |-> D[j]] BY <1>5
  <2>3. i # j BY <2>1, <2>2
  <2>4. i < j \/ j < i BY <1>1, <2>3
  <2>5. t \in Table /\ u \in Table BY <1>4
  <2>6. Smallest(t) \in D[i] /\ Largest(t) \in D[i] BY <2>1, <2>5, TableEnds
  <2>7. Smallest(u) \in D[j] /\ Largest(u) \in D[j] BY <2>2, <2>5, TableEnds
  <2> QED BY <2>4, <2>6, <2>7
<1>8. \A e : e \in UNION ToSet(D) <=> \E t \in T : e \in t.entries
  <2>1. \A e : e \in UNION ToSet(D) <=> \E i \in DOMAIN D : e \in D[i] BY DEF ToSet
  <2>2. ASSUME NEW e, NEW t \in T, e \in t.entries PROVE \E i \in DOMAIN D : e \in D[i]
    <3>1. PICK i \in DOMAIN D : t = [number |-> n + i - 1, entries |-> D[i]] BY <1>5
    <3> QED BY <2>2, <3>1
  <2>3. ASSUME NEW e, NEW i \in DOMAIN D, e \in D[i] PROVE \E t \in T : e \in t.entries
    <3>1. PICK t \in T : t = [number |-> n + i - 1, entries |-> D[i]] BY <1>6
    <3> QED BY <2>3, <3>1
  <2> QED BY <2>1, <2>2, <2>3
<1> QED BY <1>3, <1>4, <1>7, <1>8 DEF Apart

\* The entries of the inputs, file by file.
LEMMA InputEntries ==
    ASSUME NEW c, RunningOK(c)
    PROVE  \A e : e \in Entries(c.inputs[1] \o c.inputs[2]) <=> \E f \in In(c) : e \in f.entries
<1>1. c.inputs[1] \in Seq(Table) /\ c.inputs[2] \in Seq(Table) BY DEF RunningOK
<1>2. ToSet(c.inputs[1] \o c.inputs[2]) = In(c) BY <1>1, ElementsOfConcat DEF In
<1> QED BY <1>2 DEF Entries

\* The tables T replace the inputs of c, and hold what is not dropped.
Merged(v, w, c, T) ==
    /\ T \in SUBSET Table /\ Apart(T)
    /\ \A e : (\E t \in T : e \in t.entries) <=>
            (\E f \in In(c) : e \in f.entries) /\ ~Drop(c, c.smallest_snapshot, e)
    /\ Edited(v, w, Removed(c), Placed(c.level + 1, T)) /\ Ordered(w)

\* The end of a compaction: its outputs replace its inputs in a version other
\* than the one these were chosen in.
LEMMA FinishMerges ==
    ASSUME OrderInv, FinishCompaction
    PROVE  /\ RunningOK(compaction) /\ Running(current, compaction)
           /\ VersionOK(current') /\ \E T : Merged(current, current', compaction, T)
<1>1. TypeInv BY DEF OrderInv
<1>2. PICK c : c = compaction OBVIOUS
<1>3. PICK n \in Nat \ {0} : n = next_file BY DEF OrderInv, TypeInv
<1>4. PICK D : D = DoCompactionWork(c, c.smallest_snapshot) OBVIOUS
<1>5. PICK v : v = current OBVIOUS
<1>6. PICK w : w = current' OBVIOUS
<1>7. PICK added : added = Fresh(c.level + 1, n, D) OBVIOUS
<1>8. /\ RunningOK(c) /\ D \in Seq((SUBSET Entry) \ {{}}) /\ VersionOK(w)
      /\ \A level \in Level : ToSet(w[level]) = After(v, Removed(c), added, level)
      /\ \A level \in Level : \A i, j \in DOMAIN w[level] :
            i < j => BySmallestKey(w[level][i], w[level][j])
  BY <1>1, <1>2, <1>3, <1>4, <1>5, <1>6, <1>7, FinishIs
<1>9. /\ c.level \in 0 .. NumLevels - 2
      /\ c.inputs[1] \in Seq(Table) /\ c.inputs[2] \in Seq(Table)
      /\ c.grandparents \in Seq(Table)
  BY <1>8 DEF RunningOK
<1>10. PICK all : all = Entries(c.inputs[1] \o c.inputs[2]) OBVIOUS
<1>11. /\ UNION ToSet(D) = {e \in all : ~Drop(c, c.smallest_snapshot, e)}
       /\ \A i, j \in DOMAIN D : i < j => \A d \in D[i] : \A e \in D[j] : Before(d, e)
  BY <1>4, <1>9, <1>10, DoCompactionWorkIs
<1>12. \A e : e \in all <=> \E f \in In(c) : e \in f.entries BY <1>8, <1>10, InputEntries
<1>13. PICK T : T = Tables(n, D) OBVIOUS
<1>14. /\ T \in SUBSET Table /\ Apart(T)
       /\ \A e : e \in UNION ToSet(D) <=> \E t \in T : e \in t.entries
  <2>1. D \in Seq((SUBSET Entry) \ {{}}) BY <1>8
  <2>2. \A i, j \in DOMAIN D : i < j => \A d \in D[i] : \A e \in D[j] : Before(d, e) BY <1>11
  <2> QED BY ONLY <1>3, <2>1, <2>2, <1>13, OutputsApart
<1>15. \A e : (\E t \in T : e \in t.entries) <=>
            (\E f \in In(c) : e \in f.entries) /\ ~Drop(c, c.smallest_snapshot, e)
  <2>1. \A e : (\E t \in T : e \in t.entries) <=> e \in {d \in all : ~Drop(c, c.smallest_snapshot, d)}
    BY <1>11, <1>14
  <2> QED BY <1>12, <2>1
<1>16. added = Placed(c.level + 1, T) BY <1>7, <1>13 DEF Placed, Fresh, Tables
<1>17. Edited(v, w, Removed(c), Placed(c.level + 1, T)) BY <1>8, <1>16 DEF Edited
<1>18. Ordered(w) BY <1>8 DEF Ordered
<1>19. Running(v, c)
  <2>1. c # NoCompaction BY <1>2 DEF FinishCompaction
  <2> QED BY <1>2, <1>5, <2>1 DEF OrderInv
<1>20. Merged(v, w, c, T) BY <1>14, <1>15, <1>17, <1>18 DEF Merged
<1> QED BY <1>2, <1>5, <1>6, <1>8, <1>19, <1>20

\* The end of a compaction: the version installed is in order, although its
\* inputs were chosen in another one, and only what Drop lets go is lost.
LEMMA FinishStep ==
    ASSUME OrderInv, FinishCompaction
    PROVE  /\ Layered(current') /\ Tabled(current') \subseteq Tabled(current)
           /\ \A e \in Tabled(current) \ Tabled(current') :
                /\ e \in Entries(compaction.inputs[1] \o compaction.inputs[2])
                /\ Drop(compaction, compaction.smallest_snapshot, e)
           /\ Entries(compaction.inputs[1] \o compaction.inputs[2]) \subseteq Tabled(current)
<1>1. PICK c, v, w : c = compaction /\ v = current /\ w = current' OBVIOUS
<1>2. RunningOK(c) /\ Running(v, c) /\ VersionOK(w) BY <1>1, FinishMerges
<1>3. PICK T : Merged(v, w, c, T) BY <1>1, FinishMerges
<1>4. c.level \in 0 .. NumLevels - 2 BY <1>2 DEF RunningOK
<1>5. VersionOK(v) /\ Layered(v) BY <1>1 DEF OrderInv, TypeInv
<1>6. PICK all : all = Entries(c.inputs[1] \o c.inputs[2]) OBVIOUS
<1>7. \A e : e \in all <=> \E f \in In(c) : e \in f.entries BY <1>2, <1>6, InputEntries
<1>8. Within(T, In(c)) BY <1>3 DEF Merged, Within
<1>9. Layered(w) /\ Remains(v, w, In(c), T)
  <2>1. /\ T \in SUBSET Table /\ Apart(T) /\ Ordered(w)
        /\ Edited(v, w, Removed(c), Placed(c.level + 1, T))
    BY <1>3 DEF Merged
  <2> QED BY ONLY <1>2, <1>4, <1>5, <1>8, <2>1, ReplaceOrder
<1>10. \A e \in Tabled(v) \ Tabled(w) : e \in all /\ Drop(c, c.smallest_snapshot, e)
  <2> TAKE e \in Tabled(v) \ Tabled(w)
  <2>1. (\E f \in In(c) : e \in f.entries) /\ \A t \in T : e \notin t.entries BY <1>9 DEF Remains
  <2> QED BY <1>3, <1>7, <2>1 DEF Merged
<1>11. all \subseteq Tabled(v)
  <2> SUFFICES ASSUME NEW e \in all PROVE e \in Tabled(v) OBVIOUS
  <2>1. PICK f \in In(c) : e \in f.entries BY <1>7
  <2>2. c.level \in Level /\ c.level + 1 \in Level BY <1>4, VersionAssumption DEF Level
  <2>3. f \in ToSet(v[c.level]) \/ f \in ToSet(v[c.level + 1]) BY <1>2, <2>1 DEF In, Running
  <2> QED BY <2>1, <2>2, <2>3, TabledIs
<1>12. Tabled(current') = Tabled(w) /\ Tabled(current) = Tabled(v) BY <1>1
<1>13. Layered(current') BY <1>1, <1>9
<1>14. Tabled(current') \subseteq Tabled(current) BY <1>9, <1>12 DEF Remains
<1>15. \A e \in Tabled(current) \ Tabled(current') :
                /\ e \in Entries(compaction.inputs[1] \o compaction.inputs[2])
                /\ Drop(compaction, compaction.smallest_snapshot, e)
  BY <1>1, <1>6, <1>10, <1>12
<1>16. Entries(compaction.inputs[1] \o compaction.inputs[2]) \subseteq Tabled(current)
  BY <1>1, <1>6, <1>11, <1>12
<1> QED BY <1>13, <1>14, <1>15, <1>16

\* The end of a compaction keeps the order.
LEMMA FinishOrder ==
    ASSUME OrderInv, FinishCompaction
    PROVE  OrderInv'
<1>1. TypeInv /\ TypeInv' BY FinishTypeInv DEF OrderInv
<1>2. Layered(current') /\ Tabled(current') \subseteq Tabled(current) BY FinishStep
<1>3. UNCHANGED <<memtables, last_sequence, manuals>> /\ compaction' = NoCompaction
      /\ (manual' = NoManual \/ manual' = manual)
  BY DEF FinishCompaction, bounds
<1>4. Frozen' = Frozen BY <1>3 DEF Frozen, memtables
<1>5. PICK U : U = Tabled(current') OBVIOUS
<1>6. Sequenced(mem, Frozen, U, last_sequence) BY <1>2, <1>5, ShrinkSequenced DEF OrderInv
<1>7. Sequenced(mem', Frozen', Tabled(current'), last_sequence')
  BY <1>3, <1>4, <1>5, <1>6 DEF memtables
<1>8. manuals' \in Nat /\ (manual' # NoManual => MaxMemCompactLevel = 0)
  BY <1>3 DEF OrderInv
<1> QED BY <1>1, <1>2, <1>3, <1>7, <1>8 DEF OrderInv

\* Every step does.
LEMMA OrderStep ==
    ASSUME NoHoles, OrderInv, [Next]_vars
    PROVE  OrderInv'
<1>1. ASSUME NEW key \in Key, NEW type \in {kTypeDeletion, kTypeValue}, Write(key, type)
      PROVE  OrderInv'
  BY <1>1, WriteOrder
<1>2. CASE \/ MakeRoomForWrite
           \/ GetSnapshot
           \/ \E i \in DOMAIN snapshots : ReleaseSnapshot(i)
           \/ \E key \in Key, seq \in 0 .. last_sequence : UpdateStats(key, seq)
           \/ \E level \in 0 .. NumLevels - 2, begin, end \in Key :
                    begin <= end /\ CompactRange(level, begin, end)
  BY <1>2, ClientsOrder
<1>3. CASE CompactMemTable BY <1>3, FlushOrder
<1>4. CASE BackgroundCompaction BY <1>4, BackgroundOrder
<1>5. CASE ManualCompaction BY <1>5, ManualOrder
<1>6. CASE FinishCompaction BY <1>6, FinishOrder
<1>7. CASE UNCHANGED vars
  <2>1. UNCHANGED <<options, next_file, seek, snapshots, pointer>>
        /\ UNCHANGED <<current, compaction, manual, manuals, memtables, last_sequence>>
    BY <1>7 DEF vars, background, views, bounds
  <2>2. TypeInv' BY <2>1 DEF OrderInv, TypeInv, ManualOK, memtables
  <2> QED BY <2>1, <2>2, SameOrder
<1> QED BY <1>1, <1>2, <1>3, <1>4, <1>5, <1>6, <1>7 DEF Next

\* Levels, memtables and the running compaction stay in order: whatever clients
\* and flushes do while a compaction runs, its outputs fit into the version they
\* are installed in.
THEOREM StoreOrder ==
    ASSUME NoHoles
    PROVE  Spec => []OrderInv
<1>1. OrderInv /\ [Next]_vars => OrderInv' BY OrderStep
<1> QED BY <1>1, InitOrder, PTL DEF Spec

\* The files of a version.
LEMMA FilesOf ==
    ASSUME NEW v, VersionOK(v), NEW level \in Level, NEW f \in ToSet(v[level])
    PROVE  f \in Table /\ f.number \in Nat /\ f.entries \subseteq Entry
<1>1. v[level] \in Seq(Table) BY DEF VersionOK
<1>2. f \in Table BY <1>1, ElementsOf
<1> QED BY <1>2, TableIs

\* Below level 0 the files of a level never overlap ("Must not overlap",
\* version_set.cc:747), so that FindFile's bisection finds the right one.
THEOREM LevelStoreLevelsDisjoint ==
    ASSUME NoHoles
    PROVE  Spec => []LevelsDisjoint
<1>1. OrderInv => LevelsDisjoint
  <2> SUFFICES ASSUME OrderInv, NEW level \in 1 .. NumLevels - 1,
                      NEW i \in 2 .. Len(current[level])
               PROVE  Before(Largest(current[level][i - 1]), Smallest(current[level][i]))
    BY DEF LevelsDisjoint
  <2>1. level \in Level BY DEF Level
  <2>2. PICK s \in Seq(Table) : s = current[level]
    BY <2>1 DEF OrderInv, TypeInv, VersionOK
  <2>3. InOrder(s) BY <2>2 DEF OrderInv, Layered
  <2>4. i \in 2 .. Len(s) BY <2>2
  <2>5. i - 1 \in DOMAIN s /\ i \in DOMAIN s /\ i - 1 < i BY <2>4
  <2>6. Before(Largest(s[i - 1]), Smallest(s[i])) BY <2>3, <2>5 DEF InOrder
  <2> QED BY <2>2, <2>6
<1> QED BY <1>1, StoreOrder, PTL

\* Where the lookup meets an entry of the tables.
LEMMA AgeTabled ==
    ASSUME TypeInv, NEW e \in Tabled(current), e \notin mem, e \notin Frozen
    PROVE  \/ \E f \in ToSet(current[0]) :
                e \in f.entries /\ Age(e) = <<2, next_file - f.number>>
           \/ /\ \A f \in ToSet(current[0]) : e \notin f.entries
              /\ \E level \in 1 .. NumLevels - 1 : \E f \in ToSet(current[level]) :
                    e \in f.entries /\ Age(e) = <<2 + level, 0>>
<1>1. ~(imm # NoTable /\ e \in imm) BY DEF Frozen
<1>2. CASE \E f \in ToSet(current[0]) : e \in f.entries
  <2>1. PICK f : f = CHOOSE g \in ToSet(current[0]) : e \in g.entries OBVIOUS
  <2>2. f \in ToSet(current[0]) /\ e \in f.entries BY <1>2, <2>1
  <2>3. Age(e) = <<2, next_file - f.number>> BY <1>1, <1>2, <2>1 DEF Age
  <2> QED BY <2>2, <2>3
<1>3. CASE \A f \in ToSet(current[0]) : e \notin f.entries
  <2>1. \E level \in Level : e \in Entries(current[level]) BY DEF Tabled
  <2>2. PICK level : level = CHOOSE l \in Level : e \in Entries(current[l]) OBVIOUS
  <2>3. level \in Level /\ e \in Entries(current[level]) BY <2>1, <2>2
  <2>4. PICK f \in ToSet(current[level]) : e \in f.entries BY <2>3 DEF Entries
  <2>5. level # 0 BY <1>3, <2>4
  <2>6. level \in 1 .. NumLevels - 1 BY <2>3, <2>5 DEF Level
  <2>7. Age(e) = <<2 + level, 0>> BY <1>1, <1>3, <2>2 DEF Age
  <2> QED BY <1>3, <2>4, <2>6, <2>7
<1> QED BY <1>2, <1>3

\* Of one key a newer entry is met no later.
LEMMA AgesInOrder ==
    ASSUME OrderInv, NEW d \in Stored, NEW e \in Stored, d.key = e.key, d.seq > e.seq
    PROVE  \/ Age(d)[1] < Age(e)[1]
           \/ Age(d)[1] = Age(e)[1] /\ Age(d)[2] <= Age(e)[2]
<1>1. TypeInv /\ VersionOK(current) BY DEF OrderInv, TypeInv
<1>2. d \in mem \cup Frozen \cup Tabled(current) /\ e \in mem \cup Frozen \cup Tabled(current)
  BY StoredIs
<1>3. /\ \A x \in mem, y \in Frozen \cup Tabled(current) : x.seq > y.seq
      /\ \A x \in Frozen, y \in Tabled(current) : x.seq > y.seq
  BY DEF OrderInv, Sequenced
<1>4. d \in Entry /\ e \in Entry /\ d.seq \in Int /\ e.seq \in Int
  <2>1. mem \subseteq Entry /\ Frozen \subseteq Entry BY <1>1, FrozenType DEF TypeInv
  <2>2. Tabled(current) \subseteq Entry BY <1>1, TabledEntries
  <2>3. d \in Entry /\ e \in Entry BY <1>2, <2>1, <2>2
  <2> QED BY <2>3 DEF Entry
<1>5. ~(e.seq > d.seq) BY <1>4
<1>6. \A x \in mem : Age(x) = <<0, 0>> BY DEF Age
<1>7. \A x \in Frozen : x \notin mem => Age(x) = <<1, 0>>
  <2>1. \A x \in Frozen : imm # NoTable /\ x \in imm BY DEF Frozen
  <2> QED BY <2>1 DEF Age
<1>8. ASSUME NEW x \in Tabled(current), x \notin mem, x \notin Frozen
      PROVE  Age(x)[1] \in Int /\ Age(x)[1] >= 2
  <2>1. \/ \E n : Age(x) = <<2, n>>
        \/ \E l \in 1 .. NumLevels - 1 : Age(x) = <<2 + l, 0>>
    BY <1>1, <1>8, AgeTabled
  <2>2. ASSUME NEW n, Age(x) = <<2, n>> PROVE Age(x)[1] = 2 BY <2>2
  <2>3. ASSUME NEW l \in 1 .. NumLevels - 1, Age(x) = <<2 + l, 0>> PROVE Age(x)[1] = 2 + l
    BY <2>3
  <2> QED BY <2>1, <2>2, <2>3
<1>9. CASE d \in mem
  <2>1. Age(d)[1] = 0 /\ Age(d)[2] = 0 BY <1>6, <1>9
  <2>2. CASE e \in mem
    <3>1. Age(e)[1] = 0 /\ Age(e)[2] = 0 BY <1>6, <2>2
    <3> QED BY <2>1, <3>1
  <2>3. CASE e \notin mem /\ e \in Frozen
    <3>1. Age(e)[1] = 1 BY <1>7, <2>3
    <3> QED BY <2>1, <3>1
  <2>4. CASE e \notin mem /\ e \notin Frozen
    <3>1. Age(e)[1] \in Int /\ Age(e)[1] >= 2 BY <1>2, <1>8, <2>4
    <3> QED BY <2>1, <3>1
  <2> QED BY <2>2, <2>3, <2>4
<1>10. CASE d \notin mem /\ d \in Frozen
  <2>1. Age(d)[1] = 1 /\ Age(d)[2] = 0 BY <1>7, <1>10
  <2>2. e \notin mem BY <1>3, <1>5, <1>10
  <2>3. CASE e \in Frozen
    <3>1. Age(e)[1] = 1 /\ Age(e)[2] = 0 BY <1>7, <2>2, <2>3
    <3> QED BY <2>1, <3>1
  <2>4. CASE e \notin Frozen
    <3>1. Age(e)[1] \in Int /\ Age(e)[1] >= 2 BY <1>2, <1>8, <2>2, <2>4
    <3> QED BY <2>1, <3>1
  <2> QED BY <2>3, <2>4
<1>11. CASE d \notin mem /\ d \notin Frozen
  <2>1. d \in Tabled(current) BY <1>2, <1>11
  <2>2. e \notin mem /\ e \notin Frozen /\ e \in Tabled(current)
    BY <1>2, <1>3, <1>5, <2>1
  <2>3. 0 \in Level /\ 1 .. NumLevels - 1 \subseteq Level BY VersionAssumption DEF Level
  <2>4. \A a, b \in Level : a < b => Newer(ToSet(current[a]), ToSet(current[b]))
    BY DEF OrderInv, Layered
  <2>5. ~\E a, b \in Level : a < b /\ \E f \in ToSet(current[a]), g \in ToSet(current[b]) :
                e \in f.entries /\ d \in g.entries
    <3> SUFFICES ASSUME NEW a \in Level, NEW b \in Level, a < b,
                        NEW f \in ToSet(current[a]), NEW g \in ToSet(current[b]),
                        e \in f.entries, d \in g.entries
                 PROVE  FALSE
      OBVIOUS
    <3>1. Newer(ToSet(current[a]), ToSet(current[b])) BY <2>4
    <3>2. e.seq > d.seq BY <3>1 DEF Newer
    <3> QED BY <1>5, <3>2
  <2>6. CASE \E f \in ToSet(current[0]) :
                d \in f.entries /\ Age(d) = <<2, next_file - f.number>>
    <3>1. PICK f \in ToSet(current[0]) :
                d \in f.entries /\ Age(d) = <<2, next_file - f.number>>
      BY <2>6
    <3>2. Age(d)[1] = 2 /\ Age(d)[2] = next_file - f.number BY <3>1
    <3>3. CASE \E g \in ToSet(current[0]) :
                e \in g.entries /\ Age(e) = <<2, next_file - g.number>>
      <4>1. PICK g \in ToSet(current[0]) :
                e \in g.entries /\ Age(e) = <<2, next_file - g.number>>
        BY <3>3
      <4>2. Age(e)[1] = 2 /\ Age(e)[2] = next_file - g.number BY <4>1
      <4>3. f.number \in Nat /\ g.number \in Nat /\ next_file \in Nat
        <5>1. f.number \in Nat BY <1>1, <2>3, FilesOf
        <5>2. g.number \in Nat BY <1>1, <2>3, FilesOf
        <5> QED BY <5>1, <5>2, <1>1 DEF TypeInv
      <4>4. ~(g.number > f.number)
        <5>1. g.number > f.number => e.seq > d.seq BY <3>1, <4>1 DEF OrderInv, Layered
        <5> QED BY <1>5, <5>1
      <4>5. next_file - f.number <= next_file - g.number BY <4>3, <4>4
      <4> QED BY <3>2, <4>2, <4>5
    <3>4. CASE \E level \in 1 .. NumLevels - 1 : \E g \in ToSet(current[level]) :
                e \in g.entries /\ Age(e) = <<2 + level, 0>>
      <4>1. PICK level \in 1 .. NumLevels - 1 : Age(e) = <<2 + level, 0>> BY <3>4
      <4>2. Age(e)[1] = 2 + level BY <4>1
      <4> QED BY <3>2, <4>2
    <3> QED BY <1>1, <2>2, <3>3, <3>4, AgeTabled
  <2>7. CASE \E level \in 1 .. NumLevels - 1 : \E f \in ToSet(current[level]) :
                d \in f.entries /\ Age(d) = <<2 + level, 0>>
    <3>1. PICK level \in 1 .. NumLevels - 1 : \E f \in ToSet(current[level]) :
                d \in f.entries /\ Age(d) = <<2 + level, 0>>
      BY <2>7
    <3>2. PICK f \in ToSet(current[level]) : d \in f.entries /\ Age(d) = <<2 + level, 0>>
      BY <3>1
    <3>3. Age(d)[1] = 2 + level /\ Age(d)[2] = 0 BY <3>2
    <3>4. \A g \in ToSet(current[0]) : e \notin g.entries
      <4>1. level \in Level /\ 0 < level BY <2>3
      <4> QED BY <2>3, <2>5, <3>2, <4>1
    <3>5. PICK m \in 1 .. NumLevels - 1 : \E g \in ToSet(current[m]) :
                e \in g.entries /\ Age(e) = <<2 + m, 0>>
      BY <1>1, <2>2, <3>4, AgeTabled
    <3>6. PICK g \in ToSet(current[m]) : e \in g.entries /\ Age(e) = <<2 + m, 0>> BY <3>5
    <3>7. Age(e)[1] = 2 + m /\ Age(e)[2] = 0 BY <3>6
    <3>8. ~(m < level) BY <2>3, <2>5, <3>2, <3>6
    <3>9. 2 + level < 2 + m \/ 2 + level = 2 + m BY <3>8
    <3> QED BY <3>3, <3>7, <3>9
  <2> QED BY <1>1, <1>11, <2>1, <2>6, <2>7, AgeTabled
<1> QED BY <1>9, <1>10, <1>11

\* No step leaves an older entry of a key where a lookup meets it first:
\* "entries never hop across levels" (version_set.cc:338).
THEOREM LevelStoreNewerFirst ==
    ASSUME NoHoles
    PROVE  Spec => []NewerFirst
<1>1. OrderInv => NewerFirst BY AgesInOrder DEF NewerFirst
<1> QED BY <1>1, StoreOrder, PTL

-----------------------------------------------------------------------------
(* What a compaction leaves of a key whose marker it drops.                 *)

\* Two files share no key.
KeyApart(f, g) == \A d \in f.entries, e \in g.entries : d.key # e.key

\* Below level 0 the entries of a key are all in one file of a level.
Whole(v) ==
    \A level \in 1 .. NumLevels - 1 : \A f, g \in ToSet(v[level]) : f # g => KeyApart(f, g)

\* Without snapshots the inputs of a running compaction hold every entry of
\* their keys that lies in the next level, all of them may be dropped, and a
\* deeper file the compaction has not seen is newer.
Alone(v, c) ==
    /\ \A g \in ToSet(v[c.level + 1]) \ ToSet(c.inputs[2]) : \A f \in In(c) : KeyApart(f, g)
    /\ \A f \in In(c) : \A e \in f.entries : e.seq <= c.smallest_snapshot
    /\ VersionOK(c.version) /\ \A l \in 1 .. NumLevels - 1 : InOrder(c.version[l])
    /\ \A l \in c.level + 2 .. NumLevels - 1 : \A g \in ToSet(v[l]) :
            g \in ToSet(c.version[l]) \/ Newer({g}, In(c))

\* A file outside the range of a table shares no key with it.
LEMMA OutsideKeyApart ==
    ASSUME NEW f \in Table, NEW t \in Table, NEW low \in Int, NEW high \in Int,
           Outside(low, high, f), \A e \in t.entries : low <= e.key /\ e.key <= high
    PROVE  KeyApart(f, t) /\ KeyApart(t, f)
<1>1. ASSUME NEW d \in f.entries, NEW e \in t.entries PROVE d.key # e.key
  <2>1. low > Largest(f).key \/ high < Smallest(f).key BY DEF Outside, AfterFile, BeforeFile
  <2>2. /\ Smallest(f).key \in Int /\ Largest(f).key \in Int /\ d.key \in Int
        /\ Smallest(f).key <= d.key /\ d.key <= Largest(f).key
    BY TableEnds
  <2>3. e.key \in Int BY TableEnds
  <2> QED BY <2>1, <2>2, <2>3
<1> QED BY <1>1 DEF KeyApart

\* Files of the next level that are not chosen share no key with the inputs.
LEMMA InputsUntouched ==
    ASSUME NEW v, VersionOK(v), Whole(v), NEW c, c.level \in 0 .. NumLevels - 2,
           Inputs(v, c.level, c.inputs),
           NEW g \in ToSet(v[c.level + 1]), g \notin ToSet(c.inputs[2]), NEW f \in In(c)
    PROVE  KeyApart(f, g) /\ KeyApart(g, f)
<1>1. PICK level \in 0 .. NumLevels - 2 : level = c.level OBVIOUS
<1>2. PICK s, t : s = c.inputs[1] /\ t = c.inputs[2] OBVIOUS
<1>3. /\ s \in Seq(Table) /\ s # <<>> /\ t \in Seq(Table)
      /\ ToSet(t) = {h \in ToSet(v[level + 1]) : Touches(s, h)}
  BY <1>1, <1>2 DEF Inputs
<1>4. level + 1 \in Level /\ level + 1 \in 1 .. NumLevels - 1 BY VersionAssumption DEF Level
<1>5. g \in Table BY <1>1, <1>4, FilesOf
<1>6. CASE f \in ToSet(s)
  <2>1. f \in Table BY <1>3, <1>6, ElementsOf
  <2>2. ~Touches(s, g) BY <1>1, <1>2, <1>3
  <2>3. PICK low, high : low = Smallest(GetRange(s)).key /\ high = Largest(GetRange(s)).key
    OBVIOUS
  <2>4. Outside(low, high, g) BY <2>2, <2>3 DEF Touches
  <2>5. low \in Int /\ high \in Int
        /\ low <= Smallest(f).key /\ Largest(f).key <= high
    BY <1>3, <1>6, <2>3, RangeIs DEF Key
  <2>6. \A e \in f.entries : low <= e.key /\ e.key <= high BY <2>1, <2>5, TableEnds
  <2> QED BY ONLY <1>5, <2>1, <2>4, <2>5, <2>6, OutsideKeyApart
<1>7. CASE f \in ToSet(t)
  <2>1. f \in ToSet(v[level + 1]) BY <1>3, <1>7
  <2>2. f # g BY <1>2, <1>7
  <2> QED BY <1>1, <1>4, <2>1, <2>2 DEF Whole
<1> QED BY <1>2, <1>6, <1>7 DEF In

\* Files replaced by tables of the next level leave each key in one file.
LEMMA WholeReplaced ==
    ASSUME NEW v, Whole(v), NEW w, NEW level \in 0 .. NumLevels - 2, NEW I1, NEW I2, NEW T,
           Replaced(v, w, level, I1, I2, T),
           \A t, u \in T : t # u => KeyApart(t, u),
           \A g \in ToSet(v[level + 1]) \ I2 : \A t \in T : KeyApart(t, g) /\ KeyApart(g, t)
    PROVE  Whole(w)
<1> SUFFICES ASSUME NEW l \in 1 .. NumLevels - 1, NEW f \in ToSet(w[l]), NEW g \in ToSet(w[l]),
                    f # g
             PROVE  KeyApart(f, g)
  BY DEF Whole
<1>1. l \in Level /\ level + 1 \in 1 .. NumLevels - 1 BY VersionAssumption DEF Level
<1>2. CASE l = level + 1
  <2>1. PICK G : G = ToSet(v[level + 1]) \ I2 OBVIOUS
  <2>2. f \in G \cup T /\ g \in G \cup T BY <1>2, <2>1 DEF Replaced
  <2>3. CASE f \in G /\ g \in G BY <1>1, <2>1, <2>3 DEF Whole
  <2>4. CASE f \in T /\ g \in T BY <2>4
  <2>5. CASE f \in G /\ g \in T BY <2>1, <2>5
  <2>6. CASE f \in T /\ g \in G BY <2>1, <2>6
  <2> QED BY <2>2, <2>3, <2>4, <2>5, <2>6
<1>3. CASE l # level + 1
  <2>1. ToSet(w[l]) \subseteq ToSet(v[l])
    <3>1. CASE l = level BY <3>1 DEF Replaced
    <3>2. CASE l # level BY <1>1, <1>3, <3>2 DEF Replaced
    <3> QED BY <3>1, <3>2
  <2> QED BY <2>1 DEF Whole
<1> QED BY <1>2, <1>3

\* A flush below level 0 goes where no file shares a key with the memtable.
LEMMA WholeFlush ==
    ASSUME NEW v, VersionOK(v), Whole(v), NEW w, NEW level \in Level, NEW t \in Table,
           \A l \in Level : ToSet(w[l]) = ToSet(v[l]) \cup (IF l = level THEN {t} ELSE {}),
           NEW low \in Int, NEW high \in Int,
           \A e \in t.entries : low <= e.key /\ e.key <= high,
           level # 0 => \A l \in 0 .. level : \A f \in ToSet(v[l]) : Outside(low, high, f)
    PROVE  Whole(w)
<1> SUFFICES ASSUME NEW l \in 1 .. NumLevels - 1, NEW f \in ToSet(w[l]), NEW g \in ToSet(w[l]),
                    f # g
             PROVE  KeyApart(f, g)
  BY DEF Whole
<1>1. l \in Level /\ l # 0 BY DEF Level
<1>2. ToSet(w[l]) = ToSet(v[l]) \cup (IF l = level THEN {t} ELSE {}) BY <1>1
<1>3. ASSUME NEW h \in ToSet(v[l]), l = level PROVE KeyApart(h, t) /\ KeyApart(t, h)
  <2>1. Outside(low, high, h)
    <3>1. l \in 0 .. level BY <1>1, <1>3
    <3> QED BY <1>1, <1>3, <3>1
  <2>2. h \in Table BY <1>1, FilesOf
  <2> QED BY <2>1, <2>2, OutsideKeyApart
<1>4. CASE f \in ToSet(v[l]) /\ g \in ToSet(v[l]) BY <1>4 DEF Whole
<1>5. CASE f \in ToSet(v[l]) /\ l = level /\ g = t BY <1>3, <1>5
<1>6. CASE g \in ToSet(v[l]) /\ l = level /\ f = t BY <1>3, <1>6
<1> QED BY <1>2, <1>4, <1>5, <1>6

\* A flush under a running compaction shares no key with its inputs there, or
\* is newer.
LEMMA AloneFlush ==
    ASSUME NEW v, VersionOK(v), NEW w, NEW c, c.level \in 0 .. NumLevels - 2,
           Running(v, c), Alone(v, c), NEW level \in Level, NEW t \in Table,
           \A l \in Level : ToSet(w[l]) = ToSet(v[l]) \cup (IF l = level THEN {t} ELSE {}),
           \A d \in t.entries : \A e \in Tabled(v) : d.seq > e.seq,
           NEW low \in Int, NEW high \in Int,
           \A e \in t.entries : low <= e.key /\ e.key <= high,
           level # 0 => \A l \in 0 .. level : \A f \in ToSet(v[l]) : Outside(low, high, f)
    PROVE  Alone(w, c)
<1>1. PICK m \in 0 .. NumLevels - 2 : m = c.level OBVIOUS
<1>2. m \in Level /\ m + 1 \in Level /\ m + 1 # 0 BY VersionAssumption DEF Level
<1>3. \A f \in In(c) : f \in ToSet(v[m]) \/ f \in ToSet(v[m + 1]) BY <1>1 DEF Running, In
<1>4. \A g \in ToSet(w[m + 1]) \ ToSet(c.inputs[2]) : \A f \in In(c) : KeyApart(f, g)
  <2> SUFFICES ASSUME NEW g \in ToSet(w[m + 1]), g \notin ToSet(c.inputs[2]), NEW f \in In(c)
               PROVE  KeyApart(f, g)
    OBVIOUS
  <2>1. g \in ToSet(v[m + 1]) \/ (m + 1 = level /\ g = t) BY <1>2
  <2>2. CASE g \in ToSet(v[m + 1]) BY <1>1, <2>2 DEF Alone
  <2>3. CASE m + 1 = level /\ g = t
    <3>1. m \in 0 .. level /\ m + 1 \in 0 .. level BY <2>3
    <3>2. Outside(low, high, f) BY <1>2, <1>3, <2>3, <3>1
    <3>3. f \in Table BY <1>2, <1>3, FilesOf
    <3> QED BY <2>3, <3>2, <3>3, OutsideKeyApart
  <2> QED BY <2>1, <2>2, <2>3
<1>5. \A l \in m + 2 .. NumLevels - 1 : \A g \in ToSet(w[l]) :
            g \in ToSet(c.version[l]) \/ Newer({g}, In(c))
  <2> SUFFICES ASSUME NEW l \in m + 2 .. NumLevels - 1, NEW g \in ToSet(w[l])
               PROVE  g \in ToSet(c.version[l]) \/ Newer({g}, In(c))
    OBVIOUS
  <2>1. l \in Level BY DEF Level
  <2>2. g \in ToSet(v[l]) \/ g = t BY <2>1
  <2>3. CASE g \in ToSet(v[l]) BY <1>1, <2>3 DEF Alone
  <2>4. CASE g = t
    <3>1. \A f \in In(c) : f.entries \subseteq Tabled(v) BY <1>2, <1>3, TabledIs
    <3> QED BY <2>4, <3>1 DEF Newer
  <2> QED BY <2>2, <2>3, <2>4
<1> QED BY <1>1, <1>4, <1>5 DEF Alone

\* A compaction that begins without snapshots may drop all but the newest.
LEMMA AloneStart ==
    ASSUME OrderInv, Whole(current), snapshots = <<>>, NEW c, c.level \in 0 .. NumLevels - 2,
           Inputs(current, c.level, c.inputs), Running(current, c)
    PROVE  Alone(current, Start(c))
<1>1. PICK v, r : v = current /\ r = Start(c) OBVIOUS
<1>2. VersionOK(v) /\ Whole(v) /\ Layered(v) BY <1>1 DEF OrderInv, TypeInv
<1>3. /\ r.level = c.level /\ r.inputs = c.inputs /\ r.version = v
      /\ r.smallest_snapshot = last_sequence
  BY <1>1 DEF Start
<1>4. In(r) = In(c) BY <1>3 DEF In
<1>5. \A g \in ToSet(v[c.level + 1]) \ ToSet(c.inputs[2]) : \A f \in In(c) : KeyApart(f, g)
  BY <1>1, <1>2, InputsUntouched
<1>6. \A f \in In(c) : \A e \in f.entries : e.seq <= last_sequence
  <2> SUFFICES ASSUME NEW f \in In(c), NEW e \in f.entries PROVE e.seq <= last_sequence OBVIOUS
  <2>1. c.level \in Level /\ c.level + 1 \in Level BY VersionAssumption DEF Level
  <2>2. f \in ToSet(v[c.level]) \/ f \in ToSet(v[c.level + 1]) BY <1>1 DEF Running, In
  <2>3. e \in Tabled(v) BY <2>1, <2>2, TabledIs
  <2>4. e \in Tabled(current) BY <1>1, <2>3
  <2> QED BY <2>4 DEF OrderInv, Sequenced
<1>7. \A l \in c.level + 2 .. NumLevels - 1 : \A g \in ToSet(v[l]) : g \in ToSet(v[l]) OBVIOUS
<1>8. \A l \in 1 .. NumLevels - 1 : InOrder(v[l]) BY <1>2 DEF Layered
<1>9. Alone(v, r) BY <1>2, <1>3, <1>4, <1>5, <1>6, <1>7, <1>8 DEF Alone
<1> QED BY <1>1, <1>9

\* What the edit of a compaction does to each level.
LEMMA MergedReplaced ==
    ASSUME NEW v, NEW w, NEW c, c.level \in 0 .. NumLevels - 2, NEW T, Merged(v, w, c, T)
    PROVE  Replaced(v, w, c.level, ToSet(c.inputs[1]), ToSet(c.inputs[2]), T)
<1>1. Removed(c) = Removing(c.level, ToSet(c.inputs[1]), ToSet(c.inputs[2]))
  BY DEF Removed, Removing, Placed
<1>2. Edited(v, w, Removing(c.level, ToSet(c.inputs[1]), ToSet(c.inputs[2])), Placed(c.level + 1, T))
  BY <1>1 DEF Merged
<1> QED BY <1>2, AfterReplaced

\* Two undropped entries of a key would be one too many.
LEMMA MergedWhole ==
    ASSUME NEW v, VersionOK(v), Whole(v), Unique(Tabled(v)),
           NEW c, c.level \in 0 .. NumLevels - 2, RunningOK(c), Running(v, c), Alone(v, c),
           NEW w, NEW T, Merged(v, w, c, T)
    PROVE  Whole(w)
<1>1. PICK all : all = Entries(c.inputs[1] \o c.inputs[2]) OBVIOUS
<1>2. \A e : e \in all <=> \E f \in In(c) : e \in f.entries BY <1>1, InputEntries
<1>3. \A t \in T : \A e \in t.entries : e \in all /\ ~Drop(c, c.smallest_snapshot, e)
  BY <1>2 DEF Merged
<1>4. all \subseteq Tabled(v)
  <2> SUFFICES ASSUME NEW f \in In(c), NEW e \in f.entries PROVE e \in Tabled(v) BY <1>2
  <2>1. c.level \in Level /\ c.level + 1 \in Level BY VersionAssumption DEF Level
  <2>2. f \in ToSet(v[c.level]) \/ f \in ToSet(v[c.level + 1]) BY DEF Running, In
  <2> QED BY <2>1, <2>2, TabledIs
<1>5. all \subseteq Entry BY <1>4, TabledEntries
<1>6. \A d, e \in all : d.key = e.key /\ ~Drop(c, c.smallest_snapshot, d)
                            /\ ~Drop(c, c.smallest_snapshot, e) => d = e
  <2> SUFFICES ASSUME NEW d \in all, NEW e \in all, d.key = e.key, d # e
               PROVE  Drop(c, c.smallest_snapshot, d) \/ Drop(c, c.smallest_snapshot, e)
    OBVIOUS
  <2>1. d.seq # e.seq BY <1>4 DEF Unique
  <2>2. d.seq \in Int /\ e.seq \in Int BY <1>5 DEF Entry
  <2>3. d.seq <= c.smallest_snapshot /\ e.seq <= c.smallest_snapshot BY <1>2 DEF Alone
  <2>4. CASE d.seq > e.seq BY <1>1, <2>3, <2>4 DEF Drop
  <2>5. CASE e.seq > d.seq BY <1>1, <2>3, <2>5 DEF Drop
  <2> QED BY <2>1, <2>2, <2>4, <2>5
<1>7. \A t, u \in T : t # u => KeyApart(t, u)
  <2> SUFFICES ASSUME NEW t \in T, NEW u \in T, t # u, NEW d \in t.entries, NEW e \in u.entries,
                      d.key = e.key
               PROVE  FALSE
    BY DEF KeyApart
  <2>1. d = e BY <1>3, <1>6
  <2>2. t \in Table /\ u \in Table BY DEF Merged
  <2>3. Before(Largest(t), Smallest(u)) \/ Before(Largest(u), Smallest(t)) BY DEF Merged, Apart
  <2>4. Before(d, e) \/ Before(e, d) BY <2>2, <2>3, FileOrder
  <2>5. d \in Entry BY <2>2, TableEnds
  <2> QED BY <2>1, <2>4, <2>5, BeforeOrder
<1>8. \A g \in ToSet(v[c.level + 1]) \ ToSet(c.inputs[2]) : \A t \in T :
            KeyApart(t, g) /\ KeyApart(g, t)
  <2> SUFFICES ASSUME NEW g \in ToSet(v[c.level + 1]) \ ToSet(c.inputs[2]), NEW t \in T,
                      NEW d \in t.entries, NEW e \in g.entries
               PROVE  d.key # e.key
    BY DEF KeyApart
  <2>1. PICK f \in In(c) : d \in f.entries BY <1>2, <1>3
  <2>2. KeyApart(f, g) BY DEF Alone
  <2> QED BY <2>1, <2>2 DEF KeyApart
<1>9. PICK level \in 0 .. NumLevels - 2 : level = c.level OBVIOUS
<1>10. PICK I1, I2 : I1 = ToSet(c.inputs[1]) /\ I2 = ToSet(c.inputs[2]) OBVIOUS
<1>11. Replaced(v, w, level, I1, I2, T) BY <1>9, <1>10, MergedReplaced
<1>12. \A g \in ToSet(v[level + 1]) \ I2 : \A t \in T : KeyApart(t, g) /\ KeyApart(g, t)
  BY <1>8, <1>9, <1>10
<1> QED BY ONLY Whole(v), <1>7, <1>11, <1>12, level \in 0 .. NumLevels - 2, WholeReplaced

\* A key whose base level is that of the outputs is in no file below.
LEMMA BaseLevelIs ==
    ASSUME NEW v, VersionOK(v), \A l \in 1 .. NumLevels - 1 : InOrder(v[l]),
           NEW level \in 0 .. NumLevels - 2, NEW key \in Key, IsBaseLevelForKey(v, level, key),
           NEW l \in level + 2 .. NumLevels - 1, NEW g \in ToSet(v[l]), NEW e \in g.entries
    PROVE  e.key # key
<1> SUFFICES ASSUME e.key = key PROVE FALSE OBVIOUS
<1>1. l \in Level /\ l \in 1 .. NumLevels - 1 BY DEF Level
<1>2. PICK s : s = v[l] OBVIOUS
<1>3. s \in Seq(Table) /\ InOrder(s) BY <1>1, <1>2 DEF VersionOK
<1>4. PICK n : n = Len(s) OBVIOUS
<1>5. n \in Nat /\ DOMAIN s = 1 .. n /\ \A i \in 1 .. n : s[i] \in Table BY <1>3, <1>4
<1>6. PICK j \in 1 .. n : s[j] = g BY <1>2, <1>3, <1>4, ElementsOf
<1>7. PICK reach : reach = {i \in 1 .. n : ~AfterFile(key, s[i])} OBVIOUS
<1>8. reach = {} \/ BeforeFile(key, s[Min(reach)])
  BY <1>2, <1>5, <1>7 DEF IsBaseLevelForKey
<1>9. /\ Smallest(g).key \in Int /\ Largest(g).key \in Int /\ key \in Int
      /\ Smallest(g).key <= key /\ key <= Largest(g).key
  <2>1. g \in Table BY <1>5, <1>6
  <2> QED BY <2>1, TableEnds
<1>10. j \in reach BY <1>6, <1>7, <1>9 DEF AfterFile
<1>11. PICK m : m = Min(reach) OBVIOUS
<1>12. m \in reach /\ m <= j
  <2>1. reach \in SUBSET Nat BY <1>5, <1>7
  <2> QED BY <1>10, <1>11, <2>1, MinIs
<1>13. m \in 1 .. n BY <1>7, <1>12
<1>14. key < Smallest(s[m]).key BY <1>8, <1>10, <1>11 DEF BeforeFile
<1>15. CASE m = j BY <1>6, <1>9, <1>14, <1>15
<1>16. CASE m # j
  <2>1. m < j BY <1>12, <1>13, <1>16
  <2>2. Before(Largest(s[m]), Smallest(s[j])) BY <1>3, <1>5, <1>13, <2>1 DEF InOrder
  <2>3. s[m] \in Table BY <1>5, <1>13
  <2>4. Largest(s[m]).key <= Smallest(s[j]).key BY <1>5, <2>2, <2>3, FileOrder
  <2>5. /\ Smallest(s[m]).key \in Int /\ Largest(s[m]).key \in Int
        /\ Smallest(s[m]).key <= Largest(s[m]).key
    BY <2>3, TableEnds
  <2> QED BY <1>6, <1>9, <1>14, <2>4, <2>5
<1> QED BY <1>15, <1>16

\* Once a marker is dropped, only newer entries of its key are left.
LEMMA MarkerLast ==
    ASSUME NEW v, VersionOK(v), Layered(v), Unique(Tabled(v)),
           NEW c, c.level \in 0 .. NumLevels - 2, RunningOK(c), Running(v, c), Alone(v, c),
           NEW w, VersionOK(w), NEW T, Merged(v, w, c, T),
           NEW h \in In(c), NEW e \in h.entries, e \notin Tabled(w),
           IsBaseLevelForKey(c.version, c.level, e.key),
           NEW d \in Tabled(w), d.key = e.key
    PROVE  d.seq > e.seq
<1>1. PICK m \in 0 .. NumLevels - 2 : m = c.level OBVIOUS
<1>2. m \in Level /\ m + 1 \in Level BY VersionAssumption DEF Level
<1>3. h \in ToSet(v[m]) \/ h \in ToSet(v[m + 1]) BY <1>1 DEF Running, In
<1>4. PICK all : all = Entries(c.inputs[1] \o c.inputs[2]) OBVIOUS
<1>5. \A x : x \in all <=> \E f \in In(c) : x \in f.entries BY <1>4, InputEntries
<1>6. e \in Tabled(v) /\ e \in Entry
  <2>1. e \in Tabled(v) BY <1>2, <1>3, TabledIs
  <2> QED BY <2>1, TabledEntries
<1>7. d \in Entry BY TabledEntries
<1>8. PICK l \in Level : \E f \in ToSet(w[l]) : d \in f.entries BY TabledIs
<1>9. PICK f \in ToSet(w[l]) : d \in f.entries BY <1>8
<1>10. Replaced(v, w, m, ToSet(c.inputs[1]), ToSet(c.inputs[2]), T) BY <1>1, MergedReplaced
<1>11. CASE f \in T
  <2>1. d \in all /\ ~Drop(c, c.smallest_snapshot, d) BY <1>5, <1>9, <1>11 DEF Merged
  <2>2. e \in all /\ e.seq <= c.smallest_snapshot BY <1>5 DEF Alone
  <2>3. ~(e.seq > d.seq) BY <1>4, <2>1, <2>2 DEF Drop
  <2>4. d \in Tabled(v)
    <3>1. PICK g \in In(c) : d \in g.entries BY <1>5, <2>1
    <3>2. g \in ToSet(v[m]) \/ g \in ToSet(v[m + 1]) BY <1>1 DEF Running, In
    <3> QED BY <1>2, <3>1, <3>2, TabledIs
  <2>5. d.seq # e.seq BY <1>6, <2>4 DEF Unique
  <2>6. d.seq \in Int /\ e.seq \in Int BY <1>6, <1>7 DEF Entry
  <2> QED BY <2>3, <2>5, <2>6
<1>12. CASE f \notin T /\ l < m
  <2>1. f \in ToSet(v[l])
    <3>1. l # m /\ l # m + 1 BY <1>12 DEF Level
    <3> QED BY <1>9, <1>10, <3>1 DEF Replaced
  <2>2. l < m + 1 BY <1>12 DEF Level
  <2>3. Newer(ToSet(v[l]), ToSet(v[m])) /\ Newer(ToSet(v[l]), ToSet(v[m + 1]))
    BY <1>2, <1>12, <2>2 DEF Layered
  <2> QED BY <1>3, <1>9, <2>1, <2>3 DEF Newer
<1>13. CASE f \notin T /\ l = m
  <2>1. f \in ToSet(v[m]) \ ToSet(c.inputs[1]) BY <1>9, <1>10, <1>13 DEF Replaced
  <2>2. Newer(ToSet(v[m]) \ ToSet(c.inputs[1]), In(c)) BY <1>1 DEF Running
  <2> QED BY <1>9, <2>1, <2>2 DEF Newer
<1>14. CASE f \notin T /\ l = m + 1
  <2>1. f \in ToSet(v[m + 1]) \ ToSet(c.inputs[2]) BY <1>9, <1>10, <1>14 DEF Replaced
  <2>2. KeyApart(h, f) BY <1>1, <2>1 DEF Alone
  <2> QED BY <1>9, <2>2 DEF KeyApart
<1>15. CASE f \notin T /\ l > m + 1
  <2>1. l \in m + 2 .. NumLevels - 1 BY <1>15 DEF Level
  <2>2. f \in ToSet(v[l])
    <3>1. l # m /\ l # m + 1 BY <2>1
    <3> QED BY <1>9, <1>10, <3>1 DEF Replaced
  <2>3. f \in ToSet(c.version[l]) \/ Newer({f}, In(c)) BY <1>1, <2>1, <2>2 DEF Alone
  <2>4. CASE f \in ToSet(c.version[l])
    <3>1. e.key \in Key BY <1>6 DEF Entry
    <3>2. VersionOK(c.version) /\ \A i \in 1 .. NumLevels - 1 : InOrder(c.version[i]) BY DEF Alone
    <3>3. IsBaseLevelForKey(c.version, m, e.key) BY <1>1
    <3>4. d.key # e.key BY ONLY <1>9, <2>1, <2>4, <3>1, <3>2, <3>3, BaseLevelIs, m \in 0 .. NumLevels - 2
    <3> QED BY <3>4
  <2>5. CASE Newer({f}, In(c)) BY <1>9, <2>5 DEF Newer
  <2> QED BY <2>3, <2>4, <2>5
<1>16. l < m \/ l = m \/ l = m + 1 \/ l > m + 1 BY DEF Level
<1> QED BY <1>11, <1>12, <1>13, <1>14, <1>15, <1>16

-----------------------------------------------------------------------------
(* The entries of the store, step by step.                                  *)

\* Steps that leave the memtables alone and no entry out of the tables.
LEMMA StoredSame ==
    ASSUME UNCHANGED <<mem, imm>>, Tabled(current') = Tabled(current)
    PROVE  Stored' = Stored
<1>1. Stored' = mem' \cup Frozen' \cup Tabled(current') BY DEF Stored, Frozen, Tabled
<1>2. Frozen' = Frozen BY DEF Frozen
<1> QED BY <1>1, <1>2, StoredIs

\* A write adds one entry.
LEMMA StoredWritten ==
    ASSUME OrderInv, NEW key \in Key, NEW type \in {kTypeDeletion, kTypeValue}, Write(key, type)
    PROVE  \E e \in Entry : /\ e.key = key /\ e.seq = last_sequence + 1 /\ e.type = type
                            /\ Stored' = Stored \cup {e}
<1>1. PICK n : n = last_sequence OBVIOUS
<1>2. PICK e : e = [key |-> key, seq |-> n + 1, type |-> type] OBVIOUS
<1>3. e \in Entry
  <2>1. options.writes \in 0 .. MaxSequence BY StoreAssumption DEF OrderInv, TypeInv
  <2>2. n < options.writes BY <1>1 DEF Write
  <2>3. n \in 0 .. options.writes BY <1>1 DEF OrderInv, TypeInv
  <2>4. n + 1 \in 1 .. MaxSequence BY <2>1, <2>2, <2>3, VersionAssumption
  <2> QED BY <1>2, <2>4 DEF Entry
<1>4. mem' = mem \cup {e} /\ imm' = imm /\ current' = current
  BY <1>1, <1>2 DEF Write, background
<1>5. Stored' = Stored \cup {e}
  <2>1. Stored' = mem' \cup Frozen' \cup Tabled(current') BY DEF Stored, Frozen, Tabled
  <2>2. Frozen' = Frozen BY <1>4 DEF Frozen
  <2>3. Tabled(current') = Tabled(current) BY <1>4
  <2> QED BY <1>4, <2>1, <2>2, <2>3, StoredIs
<1> QED BY <1>1, <1>2, <1>3, <1>5

\* MakeRoomForWrite moves the memtable as a whole.
LEMMA StoredFrozen ==
    ASSUME OrderInv, MakeRoomForWrite
    PROVE  Stored' = Stored
<1>1. imm = NoTable /\ imm' = mem /\ mem' = {} /\ current' = current
  BY DEF MakeRoomForWrite, background
<1>2. mem # NoTable
  <2>1. mem \in SUBSET Entry BY DEF OrderInv, TypeInv
  <2> QED BY <2>1, StoreAssumption
<1>3. Frozen = {} /\ Frozen' = mem BY <1>1, <1>2 DEF Frozen
<1>4. Stored' = mem' \cup Frozen' \cup Tabled(current') BY DEF Stored, Frozen, Tabled
<1>5. Tabled(current') = Tabled(current) BY <1>1
<1> QED BY <1>1, <1>3, <1>4, <1>5, StoredIs

\* A flush moves the immutable memtable into a table as a whole.
LEMMA StoredFlushed ==
    ASSUME OrderInv, CompactMemTable
    PROVE  Stored' = Stored
<1>1. TypeInv /\ Layered(current) BY DEF OrderInv
<1>2. imm # NoTable /\ imm' = NoTable /\ mem' = mem BY <1>1, FlushIs
<1>3. PICK level \in Level, t \in Table, low \in Int, high \in Int : FlushedTo(level, t, low, high)
  BY <1>1, FlushIs
<1>4. PICK v, w : v = current /\ w = current' OBVIOUS
<1>5. Frozen = t.entries /\ Frozen' = {} BY <1>2, <1>3 DEF Frozen, FlushedTo
<1>6. \A l \in Level : ToSet(w[l]) = ToSet(v[l]) \cup (IF l = level THEN {t} ELSE {})
  BY <1>3, <1>4 DEF FlushedTo
<1>7. Tabled(w) = Tabled(v) \cup t.entries
  <2>1. /\ ToSet(w[level]) = ToSet(v[level]) \cup {t}
        /\ \A l \in Level : l # level => ToSet(w[l]) = ToSet(v[l])
    BY <1>6
  <2>2. \A e : e \in Tabled(w) <=> (e \in Tabled(v) \/ e \in t.entries)
    BY ONLY <2>1, level \in Level, AddTabled
  <2> QED BY <2>2
<1>8. Stored' = mem' \cup Frozen' \cup Tabled(current') BY DEF Stored, Frozen, Tabled
<1>9. Tabled(current') = Tabled(w) /\ Tabled(current) = Tabled(v) BY <1>4
<1> QED BY <1>2, <1>5, <1>7, <1>8, <1>9, StoredIs

\* A compaction adds no entry.
LEMMA StoredFinished ==
    ASSUME OrderInv, FinishCompaction
    PROVE  Stored' \subseteq Stored
<1>1. Stored' = mem' \cup Frozen' \cup Tabled(current') BY DEF Stored, Frozen, Tabled
<1>2. mem' = mem /\ Frozen' = Frozen BY DEF FinishCompaction, memtables, Frozen
<1>3. Tabled(current') \subseteq Tabled(current) BY FinishStep
<1> QED BY <1>1, <1>2, <1>3, StoredIs

-----------------------------------------------------------------------------
(* Keys that are deleted, in a store without snapshots.                     *)

\* What deletions rest on: without them there are no markers, and without
\* snapshots below level 0 a key is in one file of a level.
KeyInv ==
    /\ OrderInv
    /\ deletes \in Nat
    /\ options.deletes = 0 => \A e \in Stored : e.type = kTypeValue
    /\ options.snapshots = 0 =>
            /\ snapshots = <<>> /\ Whole(current)
            /\ compaction # NoCompaction => Alone(current, compaction)

\* An empty store has no keys.
LEMMA InitKeys == Init => KeyInv
<1> SUFFICES ASSUME Init PROVE KeyInv OBVIOUS
<1>1. OrderInv BY InitOrder
<1>2. \A l \in Level : ToSet(current[l]) = {} BY DEF Init, ToSet
<1>3. Tabled(current) = {} BY <1>2, TabledIs
<1>4. Stored = {} BY <1>3, StoredIs DEF Init, Frozen
<1>5. Whole(current)
  <2>1. 1 .. NumLevels - 1 \subseteq Level BY DEF Level
  <2> QED BY <1>2, <2>1 DEF Whole
<1> QED BY <1>1, <1>4, <1>5 DEF Init, KeyInv

\* Steps that leave the entries and the versions alone.
LEMMA SameKeys ==
    ASSUME KeyInv, OrderInv', Stored' = Stored,
           UNCHANGED <<options, current, snapshots, compaction, deletes>>
    PROVE  KeyInv'
BY DEF KeyInv

\* A write goes to the memtable.
LEMMA WriteKeys ==
    ASSUME KeyInv, NEW key \in Key, NEW type \in {kTypeDeletion, kTypeValue}, Write(key, type)
    PROVE  KeyInv'
<1>1. OrderInv /\ OrderInv' BY WriteOrder DEF KeyInv
<1>2. PICK e \in Entry : e.type = type /\ Stored' = Stored \cup {e} BY <1>1, StoredWritten
<1>3. /\ UNCHANGED <<options, current, snapshots, compaction>>
      /\ deletes' = IF type = kTypeDeletion THEN deletes + 1 ELSE deletes
      /\ type = kTypeDeletion => deletes < options.deletes
  BY DEF Write, background
<1>4. deletes \in Nat /\ deletes' \in Nat BY <1>3 DEF KeyInv
<1>5. options.deletes = 0 => \A d \in Stored' : d.type = kTypeValue
  <2> SUFFICES ASSUME options.deletes = 0 PROVE \A d \in Stored' : d.type = kTypeValue OBVIOUS
  <2>1. type = kTypeValue BY <1>3, <1>4
  <2> QED BY <1>2, <2>1 DEF KeyInv
<1> QED BY <1>1, <1>3, <1>4, <1>5 DEF KeyInv

\* A store without snapshots takes and releases none.
LEMMA SnapshotKeys ==
    ASSUME KeyInv, OrderInv',
           GetSnapshot \/ \E i \in DOMAIN snapshots : ReleaseSnapshot(i)
    PROVE  KeyInv'
<1>1. UNCHANGED <<options, mem, imm, current, compaction, deletes>>
  BY DEF GetSnapshot, ReleaseSnapshot, memtables, background, bounds
<1>2. Stored' = Stored
  <2>1. Tabled(current') = Tabled(current) BY <1>1
  <2> QED BY <1>1, <2>1, StoredSame
<1>3. options.snapshots # 0
  <2> SUFFICES ASSUME options.snapshots = 0 PROVE FALSE OBVIOUS
  <2>1. snapshots = <<>> BY DEF KeyInv
  <2>2. Len(snapshots) = 0 /\ DOMAIN snapshots = {} BY <2>1
  <2> QED BY <2>2 DEF GetSnapshot
<1> QED BY <1>1, <1>2, <1>3 DEF KeyInv

\* A flush, maybe under a running compaction.
LEMMA FlushKeys ==
    ASSUME KeyInv, OrderInv', CompactMemTable
    PROVE  KeyInv'
<1>1. OrderInv /\ TypeInv /\ Layered(current) BY DEF KeyInv, OrderInv
<1>2. UNCHANGED <<options, snapshots, compaction, deletes>> BY <1>1, FlushIs DEF views, bounds
<1>3. Stored' = Stored BY <1>1, StoredFlushed
<1>4. PICK level \in Level, t \in Table, low \in Int, high \in Int : FlushedTo(level, t, low, high)
  BY <1>1, FlushIs
<1>5. PICK v, w : v = current /\ w = current' OBVIOUS
<1>6. /\ \A e \in t.entries : low <= e.key /\ e.key <= high
      /\ level # 0 => \A l \in 0 .. level : \A f \in ToSet(v[l]) : Outside(low, high, f)
      /\ \A l \in Level : ToSet(w[l]) = ToSet(v[l]) \cup (IF l = level THEN {t} ELSE {})
  BY <1>4, <1>5 DEF FlushedTo
<1>7. VersionOK(v) BY <1>1, <1>5 DEF TypeInv
<1>8. ASSUME Whole(v) PROVE Whole(w)
  BY ONLY <1>6, <1>7, <1>8, level \in Level, t \in Table, low \in Int, high \in Int, WholeFlush
<1>9. ASSUME compaction # NoCompaction, Alone(v, compaction) PROVE Alone(w, compaction)
  <2>1. PICK c : c = compaction OBVIOUS
  <2>2. c.level \in 0 .. NumLevels - 2 /\ Running(v, c)
    BY <1>1, <1>5, <1>9, <2>1 DEF OrderInv, TypeInv, RunningOK
  <2>3. \A d \in t.entries : \A e \in Tabled(v) : d.seq > e.seq
    <3>1. t.entries = Frozen BY <1>4 DEF FlushedTo, Frozen, CompactMemTable
    <3>2. Tabled(v) = Tabled(current) BY <1>5
    <3> QED BY <1>1, <3>1, <3>2 DEF OrderInv, Sequenced
  <2>4. Alone(v, c) BY <1>9, <2>1
  <2>5. Alone(w, c)
    BY ONLY <1>6, <1>7, <2>2, <2>3, <2>4, level \in Level, t \in Table, low \in Int,
            high \in Int, AloneFlush
  <2> QED BY <2>1, <2>5
<1> QED BY <1>2, <1>3, <1>5, <1>8, <1>9 DEF KeyInv

\* A trivial move: the file shares no key with its new level.
LEMMA MoveKeys ==
    ASSUME OrderInv, Whole(current), NEW c, c.level \in 0 .. NumLevels - 2,
           Inputs(current, c.level, c.inputs), IsTrivialMove(c), MoveFile(c)
    PROVE  Whole(current')
<1>1. PICK v, level, f : v = current /\ level = c.level /\ f = c.inputs[1][1] OBVIOUS
<1>2. level \in 0 .. NumLevels - 2 BY <1>1
<1>3. c.inputs[1] \in Seq(Table) /\ c.inputs[2] = <<>> /\ Len(c.inputs[1]) = 1
  BY DEF Inputs, IsTrivialMove
<1>4. ToSet(c.inputs[1]) = {f} /\ ToSet(c.inputs[2]) = {} /\ f \in In(c)
  <2>1. DOMAIN c.inputs[1] = {1} BY <1>3
  <2>2. ToSet(c.inputs[1]) = {f} BY <1>1, <2>1 DEF ToSet
  <2>3. ToSet(<<>>) = {} BY DEF ToSet
  <2> QED BY <1>3, <2>2, <2>3 DEF In
<1>5. f \in ToSet(v[level]) BY <1>1, <1>4 DEF Inputs
<1>6. PICK n \in Nat : n = next_file BY DEF OrderInv, TypeInv
<1>7. VersionOK(v) /\ Counted(v, n) /\ Whole(v) BY <1>1, <1>6 DEF OrderInv, TypeInv
<1>8. PICK w : w = Apply(v, Placed(level, {f}), Placed(level + 1, {f})) OBVIOUS
<1>9. current' = w BY <1>1, <1>8 DEF MoveFile, Install, Placed
<1>10. Edited(v, w, Placed(level, {f}), Placed(level + 1, {f}))
  BY ONLY <1>2, <1>5, <1>7, <1>8, n \in Nat, MoveIs
<1>11. Replaced(v, w, level, {f}, {}, {f})
  <2>1. Placed(level, {f}) = Removing(level, {f}, {}) BY DEF Placed, Removing
  <2>2. Edited(v, w, Removing(level, {f}, {}), Placed(level + 1, {f})) BY <1>10, <2>1
  <2> QED BY <1>2, <2>2, AfterReplaced
<1>12. \A g \in ToSet(v[level + 1]) : KeyApart(f, g) /\ KeyApart(g, f)
  <2> TAKE g \in ToSet(v[level + 1])
  <2>1. g \notin ToSet(c.inputs[2]) BY <1>4
  <2> QED BY <1>1, <1>4, <1>7, <2>1, InputsUntouched
<1>13. \A t, u \in {f} : t # u => KeyApart(t, u) OBVIOUS
<1>14. \A g \in ToSet(v[level + 1]) \ {} : \A t \in {f} : KeyApart(t, g) /\ KeyApart(g, t)
  BY <1>12
<1>15. Whole(w) BY ONLY <1>2, <1>7, <1>11, <1>13, <1>14, WholeReplaced
<1> QED BY <1>9, <1>15

\* A trivial move, or the start of a compaction.
LEMMA BackgroundKeys ==
    ASSUME KeyInv, OrderInv', BackgroundCompaction
    PROVE  KeyInv'
<1>1. OrderInv BY DEF KeyInv
<1>2. PICK c : /\ c = PickCompaction(current, pointer, seek)
               /\ IF IsTrivialMove(c)
                  THEN MoveFile(c) /\ UNCHANGED compaction
                  ELSE compaction' = Start(c) /\ UNCHANGED <<current, seek>>
  BY DEF BackgroundCompaction
<1>3. UNCHANGED <<options, mem, imm, snapshots, deletes>> /\ compaction = NoCompaction
  BY DEF BackgroundCompaction, memtables, views, bounds
<1>4. Stored' = Stored BY <1>1, <1>3, BackgroundOrder, StoredSame
<1>5. /\ c.level \in 0 .. NumLevels - 2 /\ Inputs(current, c.level, c.inputs)
      /\ Running(current, c)
  <2>1. NeedsCompaction BY DEF BackgroundCompaction
  <2> QED BY <1>1, <1>2, <2>1, PickedRunning
<1>6. ASSUME options.snapshots = 0
      PROVE  /\ Whole(current')
             /\ compaction' # NoCompaction => Alone(current', compaction')
  <2>1. snapshots = <<>> /\ Whole(current) BY <1>6 DEF KeyInv
  <2>2. CASE IsTrivialMove(c) BY <1>1, <1>2, <1>3, <1>5, <2>1, <2>2, MoveKeys
  <2>3. CASE ~IsTrivialMove(c)
    <3>1. Alone(current, Start(c)) BY <1>1, <1>5, <2>1, AloneStart
    <3> QED BY <1>2, <2>1, <2>3, <3>1
  <2> QED BY <2>2, <2>3
<1> QED BY <1>3, <1>4, <1>6 DEF KeyInv

\* The start of a requested compaction.
LEMMA ManualKeys ==
    ASSUME KeyInv, OrderInv', ManualCompaction
    PROVE  KeyInv'
<1>1. OrderInv BY DEF KeyInv
<1>2. UNCHANGED <<options, mem, imm, current, snapshots, deletes>> /\ compaction = NoCompaction
  BY DEF ManualCompaction, memtables, views, bounds
<1>3. Stored' = Stored
  <2>1. Tabled(current') = Tabled(current) BY <1>2
  <2> QED BY <1>2, <2>1, StoredSame
<1>4. ASSUME options.snapshots = 0, compaction' # NoCompaction PROVE Alone(current, compaction')
  <2>1. snapshots = <<>> /\ Whole(current) BY <1>4 DEF KeyInv
  <2>2. PICK c : /\ c.level \in 0 .. NumLevels - 2 /\ Inputs(current, c.level, c.inputs)
                 /\ Running(current, c) /\ compaction' = Start(c)
    BY <1>1, <1>4, ManualChosen
  <2> QED BY <1>1, <2>1, <2>2, AloneStart
<1> QED BY <1>2, <1>3, <1>4 DEF KeyInv

\* The end of a compaction.
LEMMA FinishKeys ==
    ASSUME KeyInv, OrderInv', FinishCompaction
    PROVE  KeyInv'
<1>1. OrderInv BY DEF KeyInv
<1>2. UNCHANGED <<options, snapshots, deletes>> /\ compaction' = NoCompaction
  BY DEF FinishCompaction, views, bounds
<1>3. Stored' \subseteq Stored BY <1>1, StoredFinished
<1>4. ASSUME options.snapshots = 0 PROVE Whole(current')
  <2>1. PICK c, v, w : c = compaction /\ v = current /\ w = current' OBVIOUS
  <2>2. Whole(v) /\ Alone(v, c) BY <1>4, <2>1 DEF KeyInv, FinishCompaction
  <2>3. RunningOK(c) /\ Running(v, c) BY <1>1, <2>1, FinishMerges
  <2>4. PICK T : Merged(v, w, c, T) BY <1>1, <2>1, FinishMerges
  <2>5. VersionOK(v) /\ Unique(Tabled(v))
    <3>1. Tabled(v) = Tabled(current) BY <2>1
    <3> QED BY <1>1, <2>1, <3>1 DEF OrderInv, TypeInv, Sequenced, Unique
  <2>6. c.level \in 0 .. NumLevels - 2 BY <2>3 DEF RunningOK
  <2>7. Whole(w) BY ONLY <2>2, <2>3, <2>4, <2>5, <2>6, MergedWhole
  <2> QED BY <2>1, <2>7
<1> QED BY <1>2, <1>3, <1>4 DEF KeyInv

\* Every step keeps the keys whole.
LEMMA KeyStep ==
    ASSUME NoHoles, KeyInv, [Next]_vars
    PROVE  KeyInv'
<1>1. OrderInv /\ OrderInv' BY OrderStep DEF KeyInv
<1>2. ASSUME NEW key \in Key, NEW type \in {kTypeDeletion, kTypeValue}, Write(key, type)
      PROVE  KeyInv'
  BY <1>2, WriteKeys
<1>3. CASE MakeRoomForWrite
  <2>1. Stored' = Stored BY <1>1, <1>3, StoredFrozen
  <2>2. UNCHANGED <<options, current, snapshots, compaction, deletes>>
    BY <1>3 DEF MakeRoomForWrite, background, views, bounds
  <2> QED BY <1>1, <2>1, <2>2, SameKeys
<1>4. CASE GetSnapshot \/ \E i \in DOMAIN snapshots : ReleaseSnapshot(i)
  BY <1>1, <1>4, SnapshotKeys
<1>5. ASSUME UNCHANGED <<options, mem, imm, current, snapshots, compaction, deletes>>
      PROVE  KeyInv'
  <2>1. Tabled(current') = Tabled(current) BY <1>5
  <2>2. Stored' = Stored BY <1>5, <2>1, StoredSame
  <2> QED BY <1>1, <1>5, <2>2, SameKeys
<1>6. ASSUME NEW key \in Key, NEW seq \in 0 .. last_sequence, UpdateStats(key, seq)
      PROVE  KeyInv'
  BY <1>5, <1>6 DEF UpdateStats, memtables, views, bounds
<1>7. ASSUME NEW level, NEW begin, NEW end, CompactRange(level, begin, end)
      PROVE  KeyInv'
  BY <1>5, <1>7 DEF CompactRange, memtables, background, views
<1>8. CASE CompactMemTable BY <1>1, <1>8, FlushKeys
<1>9. CASE BackgroundCompaction BY <1>1, <1>9, BackgroundKeys
<1>10. CASE ManualCompaction BY <1>1, <1>10, ManualKeys
<1>11. CASE FinishCompaction BY <1>1, <1>11, FinishKeys
<1>12. CASE UNCHANGED vars
  BY <1>5, <1>12 DEF vars, memtables, background, views, bounds
<1> QED BY <1>2, <1>3, <1>4, <1>6, <1>7, <1>8, <1>9, <1>10, <1>11, <1>12 DEF Next

-----------------------------------------------------------------------------
(* What a read finds.                                                       *)

\* The newest entry of the key in S that a reader at seq sees.
Newest(S, key, seq, e) ==
    /\ e \in S /\ e.key = key /\ e.seq <= seq
    /\ \A d \in S : d.key = key /\ d.seq <= seq => d.seq <= e.seq

\* There is none.
Nothing(S, key, seq) == \A d \in S : ~(d.key = key /\ d.seq <= seq)

\* A table shows the newest entry.
LEMMA VisibleNewest ==
    ASSUME NEW S \in SUBSET Entry, Unique(S), NEW key, NEW seq, NEW e, Newest(S, key, seq, e)
    PROVE  Visible(S, key, seq) = {e}
<1>1. \A d \in S : d.seq \in Int BY DEF Entry
<1>2. e \in Visible(S, key, seq) BY DEF Visible, Newest
<1>3. ASSUME NEW d \in Visible(S, key, seq) PROVE d = e
  <2>1. d \in S /\ e.seq <= d.seq BY <1>3 DEF Visible, Newest
  <2>2. d.seq <= e.seq BY <1>3 DEF Visible, Newest
  <2>3. d.seq = e.seq BY <1>1, <2>1, <2>2 DEF Newest
  <2> QED BY <2>1, <2>3 DEF Unique, Newest
<1> QED BY <1>2, <1>3

\* Or nothing.
LEMMA VisibleNothing ==
    ASSUME NEW S, NEW key, NEW seq, Nothing(S, key, seq)
    PROVE  Visible(S, key, seq) = {}
BY DEF Visible, Nothing

\* Among entries a reader sees there is a newest one.
LEMMA NewestExists ==
    ASSUME NEW S \in SUBSET Entry, NEW key, NEW seq, ~Nothing(S, key, seq)
    PROVE  \E e : Newest(S, key, seq, e)
<1>1. MaxSequence \in Nat BY VersionAssumption
<1>2. PICK N : N = {d.seq : d \in {x \in S : x.key = key /\ x.seq <= seq}} OBVIOUS
<1>3. \A d \in S : d.seq \in 1 .. MaxSequence /\ d.seq \in 0 .. MaxSequence BY <1>1 DEF Entry
<1>4. N \in SUBSET (0 .. MaxSequence) /\ N # {} BY <1>2, <1>3 DEF Nothing
<1>5. Max(N) \in N /\ \A y \in N : y <= Max(N) BY ONLY <1>1, <1>4, MaxIs
<1>6. PICK e \in S : e.key = key /\ e.seq <= seq /\ e.seq = Max(N) BY <1>2, <1>5
<1>7. \A d \in S : d.key = key /\ d.seq <= seq => d.seq <= e.seq
  <2> SUFFICES ASSUME NEW d \in S, d.key = key, d.seq <= seq PROVE d.seq <= e.seq OBVIOUS
  <2>1. d.seq \in N BY <1>2
  <2> QED BY <1>5, <1>6, <2>1
<1> QED BY <1>6, <1>7 DEF Newest

\* The file of a level that a lookup reads has the newest entry of the level.
LEMMA ConsultedHas ==
    ASSUME NEW v, VersionOK(v), NEW level \in 1 .. NumLevels - 1, InOrder(v[level]),
           NEW key \in Key, NEW seq \in Nat, NEW f \in ToSet(v[level]),
           NEW e \in f.entries, e.key = key, e.seq <= seq
    PROVE  \E r \in ToSet(Consulted(v, level, key, seq)) :
                \E x \in r.file.entries : x.key = key /\ x.seq <= seq /\ e.seq <= x.seq
<1>1. level \in Level BY DEF Level
<1>2. PICK s \in Seq(Table) : s = v[level] BY <1>1 DEF VersionOK
<1>3. PICK t : t = SeekKey(key, seq) OBVIOUS
<1>4. key \in Int BY DEF Key
<1>5. t = [key |-> key, seq |-> seq, type |-> 1] BY <1>3 DEF SeekKey, kTypeValue
<1>6. t \in IKey BY <1>4, <1>5 DEF IKey
<1>7. InOrder(s) BY <1>2
<1>8. Parted(s, t) BY ONLY s \in Seq(Table), <1>6, <1>7, InOrderLargest
<1>9. PICK index : index = FindFile(s, t) OBVIOUS
<1>10. /\ index \in 1 .. Len(s) + 1
       /\ \A a \in DOMAIN s : a < index <=> Before(Largest(s[a]), t)
  BY ONLY s \in Seq(Table), <1>8, <1>9, FindFileIs
<1>11. DOMAIN s = 1 .. Len(s) /\ Len(s) \in Nat OBVIOUS
<1>12. PICK i \in 1 .. Len(s) : s[i] = f BY <1>2, ElementsOf
<1>13. f \in Table BY <1>12
<1>14. /\ e \in Entry /\ e.key \in Int /\ e.seq \in Int /\ e.type \in Int /\ e.type <= 1
       /\ Largest(f) \in Entry
       /\ (e = Largest(f) \/ Before(e, Largest(f))) /\ Smallest(f).key \in Int
       /\ Smallest(f).key <= e.key
  <2>1. /\ e \in Entry /\ Largest(f) \in Entry /\ Smallest(f).key \in Int
        /\ (e = Largest(f) \/ Before(e, Largest(f))) /\ Smallest(f).key <= e.key
    BY <1>13, TableEnds
  <2>2. e.key \in Int /\ e.seq \in Int /\ e.type \in Int /\ e.type <= 1
    BY ONLY <2>1, VersionAssumption DEF Entry, Key, kTypeDeletion, kTypeValue
  <2> QED BY <2>1, <2>2
<1>15. ~Before(e, t) BY <1>5, <1>14 DEF Before
<1>16. ~Before(Largest(f), t)
  <2>1. ASSUME Before(Largest(f), t) PROVE FALSE
    <3>1. PICK a \in IKey, b \in IKey : a = e /\ b = Largest(f) BY <1>14, IKeyOrder
    <3>2. Before(a, t)
      <4>1. Before(b, t) BY <2>1, <3>1
      <4>2. a = b \/ Before(a, b) BY <1>14, <3>1
      <4> QED BY ONLY a \in IKey, b \in IKey, <1>6, <4>1, <4>2, IKeyOrder
    <3> QED BY <1>15, <3>1, <3>2
  <2> QED BY <2>1
<1>17. i \in DOMAIN s /\ ~(i < index) BY <1>10, <1>11, <1>12, <1>16
<1>18. index \in 1 .. Len(s) /\ index \in DOMAIN s BY <1>10, <1>11, <1>17
<1>19. PICK g \in Table : g = s[index] BY <1>18
<1>20. ~Before(Largest(g), t) BY <1>10, <1>18, <1>19
<1>21. PICK x \in g.entries :
            x.key = key /\ x.seq <= seq /\ e.seq <= x.seq /\ Smallest(g).key <= key
  <2>1. CASE i = index
    <3>1. g = f BY <1>12, <1>19, <2>1
    <3> QED BY <1>14, <3>1
  <2>2. CASE i # index
    <3>1. index < i BY <1>10, <1>17, <2>2
    <3>2. Before(Largest(g), Smallest(f))
      BY <1>7, <1>11, <1>12, <1>17, <1>18, <1>19, <3>1 DEF InOrder
    <3>3. PICK x : x = Largest(g) OBVIOUS
    <3>4. /\ x \in g.entries /\ x \in Entry /\ x.key \in Int /\ x.seq \in Int /\ x.type \in Int
          /\ Smallest(g).key \in Int /\ Smallest(g).key <= x.key
      <4>1. /\ x \in g.entries /\ x \in Entry /\ x.key \in Int
            /\ Smallest(g).key \in Int /\ Smallest(g).key <= x.key
        BY <1>19, <3>3, TableEnds
      <4>2. x.seq \in Int /\ x.type \in Int
        BY ONLY <4>1, VersionAssumption DEF Entry, kTypeDeletion, kTypeValue
      <4> QED BY <4>1, <4>2
    <3>5. x.key <= Smallest(f).key BY <1>13, <3>2, <3>3, FileOrder
    <3>6. ~(x.key < key) BY <1>5, <1>20, <3>3 DEF Before
    <3>7. x.key = key BY <1>4, <1>14, <3>4, <3>5, <3>6
    <3>8. x.seq <= seq
      <4>1. ~(x.key = key /\ x.seq > seq) BY <1>5, <1>20, <3>3 DEF Before
      <4> QED BY <3>4, <3>7, <4>1
    <3>9. Before(x, e) BY <1>13, <3>2, <3>3, <3>4, FileOrder
    <3>10. e.seq <= x.seq BY <1>14, <3>4, <3>7, <3>9 DEF Before
    <3> QED BY <3>4, <3>7, <3>8, <3>10
  <2> QED BY <2>1, <2>2
<1>22. ~BeforeFile(key, g)
  <2>1. Smallest(g).key \in Int BY <1>19, TableEnds
  <2> QED BY <1>4, <1>21, <2>1 DEF BeforeFile
<1>23. Consulted(v, level, key, seq) = <<[level |-> level, file |-> g]>>
  <2>1. ~(index > Len(s)) BY <1>11, <1>18
  <2> QED BY <1>2, <1>3, <1>9, <1>19, <1>22, <2>1 DEF Consulted
<1>24. PICK r : r = [level |-> level, file |-> g] OBVIOUS
<1>25. r \in ToSet(Consulted(v, level, key, seq)) BY <1>23, <1>24 DEF ToSet
<1> QED BY <1>21, <1>24, <1>25

\* A lookup in the tables.
LEMMA VersionGetSteps ==
    ASSUME NEW v, NEW key, NEW seq
    PROVE  LET read == ForEachOverlapping(v, key, seq)
               has == {i \in DOMAIN read : Visible(read[i].file.entries, key, seq) # {}}
           IN  VersionGet(v, key, seq) = IF has = {} THEN {}
                    ELSE Visible(read[Min(has)].file.entries, key, seq)
BY DEF VersionGet

\* Version::Get stops at the first file that has the key; in a layered version
\* that is the newest entry of all the tables.
LEMMA VersionGetIs ==
    ASSUME NEW v, VersionOK(v), Layered(v), Unique(Tabled(v)),
           NEW key \in Key, NEW seq \in Nat
    PROVE  /\ Nothing(Tabled(v), key, seq) => VersionGet(v, key, seq) = {}
           /\ \A e : Newest(Tabled(v), key, seq, e) => VersionGet(v, key, seq) = {e}
<1>1. PICK read : read = ForEachOverlapping(v, key, seq) OBVIOUS
<1>2. PICK has : has = {i \in DOMAIN read : Visible(read[i].file.entries, key, seq) # {}}
  OBVIOUS
<1>3. VersionGet(v, key, seq) = IF has = {} THEN {}
                                ELSE Visible(read[Min(has)].file.entries, key, seq)
  BY <1>1, <1>2, VersionGetSteps
<1>4. Reading(v, key, seq, NumLevels - 1, read) BY <1>1, ForEachOverlappingIs
<1>5. NumLevels \in Nat /\ NumLevels >= 2 BY VersionAssumption
<1>6. /\ read \in Seq(Read) /\ DOMAIN read = 1 .. Len(read) /\ Len(read) \in Nat
      /\ \A i \in DOMAIN read : read[i] \in Read
  <2>1. read \in Seq(Read) BY <1>4 DEF Reading
  <2> QED BY <2>1
<1>7. \A i \in DOMAIN read :
        /\ read[i].level \in Level /\ read[i].file \in ToSet(v[read[i].level])
        /\ read[i].file \in Table
  <2> TAKE i \in DOMAIN read
  <2>1. read[i].level \in 0 .. NumLevels - 1 /\ read[i].file \in ToSet(v[read[i].level])
    BY <1>4 DEF Reading
  <2>2. read[i].file \in Table /\ read[i].level \in Level BY <1>6 DEF Read
  <2> QED BY <2>1, <2>2
<1>8. \A i \in DOMAIN read : /\ read[i].file.entries \subseteq Tabled(v)
                             /\ read[i].file.entries \in SUBSET Entry
  <2> TAKE i \in DOMAIN read
  <2>1. read[i].file.entries \subseteq Tabled(v) BY <1>7, TabledIs
  <2>2. read[i].file.entries \subseteq Entry BY <1>7, TableIs
  <2> QED BY <2>1, <2>2
<1>9. Nothing(Tabled(v), key, seq) => VersionGet(v, key, seq) = {}
  <2> SUFFICES ASSUME Nothing(Tabled(v), key, seq) PROVE VersionGet(v, key, seq) = {} OBVIOUS
  <2>1. \A i \in DOMAIN read : Nothing(read[i].file.entries, key, seq) BY <1>8 DEF Nothing
  <2>2. \A i \in DOMAIN read : Visible(read[i].file.entries, key, seq) = {}
    BY <2>1, VisibleNothing
  <2>3. has = {} BY <1>2, <2>2
  <2> QED BY <1>3, <2>3
<1>10. ASSUME NEW e, Newest(Tabled(v), key, seq, e) PROVE VersionGet(v, key, seq) = {e}
  <2>1. e \in Tabled(v) /\ e.key = key /\ e.seq <= seq
        /\ \A d \in Tabled(v) : d.key = key /\ d.seq <= seq => d.seq <= e.seq
    BY <1>10 DEF Newest
  <2>2. Tabled(v) \subseteq Entry BY TabledEntries
  <2>3. \A d \in Tabled(v) : d.seq \in Int BY <2>2 DEF Entry
  <2>4. PICK i \in DOMAIN read : e \in read[i].file.entries
    <3>1. PICK level \in Level : \E f \in ToSet(v[level]) : e \in f.entries BY <2>1, TabledIs
    <3>2. PICK f \in ToSet(v[level]) : e \in f.entries BY <3>1
    <3>3. f \in Table BY <3>2, FilesOf
    <3>4. CASE level = 0
      <4>1. Smallest(f).key <= key /\ key <= Largest(f).key BY <2>1, <3>2, <3>3, TableEnds
      <4>2. ~Outside(key, key, f)
        <5>1. key \in Int BY DEF Key
        <5> QED BY <3>3, <4>1, <5>1, OutsideIs
      <4>3. [level |-> 0, file |-> f] \in ToSet(read) BY <1>4, <3>2, <3>4, <4>2 DEF Reading
      <4>4. PICK i \in 1 .. Len(read) : read[i] = [level |-> 0, file |-> f]
        BY <1>6, <4>3, ElementsOf
      <4>5. read[i].file = f BY <4>4
      <4> QED BY <1>6, <3>2, <4>5
    <3>5. CASE level # 0
      <4>1. level \in 1 .. NumLevels - 1 BY <3>5 DEF Level
      <4>2. InOrder(v[level]) BY <4>1 DEF Layered
      <4>3. \E r \in ToSet(Consulted(v, level, key, seq)) :
                \E x \in r.file.entries : x.key = key /\ x.seq <= seq /\ e.seq <= x.seq
        BY ONLY <2>1, <3>2, <4>1, <4>2, VersionOK(v), key \in Key, seq \in Nat, ConsultedHas
      <4>4. PICK r \in ToSet(Consulted(v, level, key, seq)) :
                \E x \in r.file.entries : x.key = key /\ x.seq <= seq /\ e.seq <= x.seq
        BY <4>3
      <4>5. r \in ToSet(read) BY <1>4, <4>1, <4>4 DEF Reading
      <4>6. PICK i \in 1 .. Len(read) : read[i] = r BY <1>6, <4>5, ElementsOf
      <4>7. PICK x \in read[i].file.entries : x.key = key /\ x.seq <= seq /\ e.seq <= x.seq
        BY <4>4, <4>6
      <4>8. x \in Tabled(v) BY <1>6, <1>8, <4>6, <4>7
      <4>9. x.seq = e.seq BY <2>1, <2>3, <4>7, <4>8
      <4>10. x = e BY <2>1, <4>8, <4>9 DEF Unique
      <4> QED BY <1>6, <4>6, <4>7, <4>10
    <3> QED BY <3>4, <3>5
  <2>5. \A j \in DOMAIN read : e \in read[j].file.entries =>
            Visible(read[j].file.entries, key, seq) = {e}
    <3> SUFFICES ASSUME NEW j \in DOMAIN read, e \in read[j].file.entries
                 PROVE  Visible(read[j].file.entries, key, seq) = {e}
      OBVIOUS
    <3>1. PICK S \in SUBSET Entry : S = read[j].file.entries BY <1>8
    <3>2. S \subseteq Tabled(v) /\ e \in S BY <1>8, <3>1
    <3>3. Unique(S) BY <3>2 DEF Unique
    <3>4. Newest(S, key, seq, e) BY <2>1, <3>2 DEF Newest
    <3>5. Visible(S, key, seq) = {e} BY <3>3, <3>4, VisibleNewest
    <3> QED BY <3>1, <3>5
  <2>6. i \in has BY <1>2, <2>4, <2>5
  <2>7. has \in SUBSET Nat /\ has # {}
    <3>1. has \subseteq DOMAIN read BY <1>2
    <3>2. has \subseteq 1 .. Len(read) BY <1>6, <3>1
    <3>3. \A k \in 1 .. Len(read) : k \in Nat BY <1>6
    <3> QED BY ONLY <3>2, <3>3, <2>6
  <2>8. Min(has) \in has /\ \A y \in has : Min(has) <= y BY ONLY <2>7, MinIs
  <2>9. PICK m \in has : m = Min(has) BY <2>8
  <2>10. m \in DOMAIN read /\ m <= i BY <1>2, <2>6, <2>8, <2>9
  <2>11. m = i
    <3> SUFFICES ASSUME m # i PROVE FALSE OBVIOUS
    <3>1. m < i BY <1>6, <2>4, <2>10
    <3>2. Visible(read[m].file.entries, key, seq) # {} BY <1>2, <2>9
    <3>3. PICK d \in read[m].file.entries : d.key = key /\ d.seq <= seq
      BY <3>2 DEF Visible
    <3>4. d \in Tabled(v) BY <1>8, <2>10, <3>3
    <3>5. d.seq <= e.seq BY <2>1, <3>3, <3>4
    <3>6. PICK a, b \in Level : a = read[m].level /\ b = read[i].level
      BY <1>7, <2>4, <2>10
    <3>7. PICK f, g \in Table : f = read[m].file /\ g = read[i].file BY <1>7, <2>4, <2>10
    <3>8. f \in ToSet(v[a]) /\ g \in ToSet(v[b]) /\ d \in f.entries /\ e \in g.entries
      BY <1>7, <2>4, <2>10, <3>3, <3>6, <3>7
    <3>9. a < b \/ (a = 0 /\ b = 0 /\ f.number > g.number)
      BY <1>4, <2>4, <2>10, <3>1, <3>6, <3>7 DEF Reading
    <3>10. d.seq > e.seq
      <4>1. CASE a < b
        <5>1. Newer(ToSet(v[a]), ToSet(v[b])) BY <4>1 DEF Layered
        <5>2. d.key = e.key BY <2>1, <3>3
        <5> QED BY <3>8, <5>1, <5>2 DEF Newer
      <4>2. CASE a = 0 /\ b = 0 /\ f.number > g.number
        BY <3>8, <4>2 DEF Layered
      <4> QED BY <3>9, <4>1, <4>2
    <3> QED BY <2>1, <2>3, <3>4, <3>5, <3>10
  <2>12. Visible(read[Min(has)].file.entries, key, seq) = {e} BY <2>4, <2>5, <2>9, <2>11
  <2> QED BY <1>3, <2>7, <2>12
<1> QED BY <1>9, <1>10

-----------------------------------------------------------------------------
(* What the entries of the store show to a reader.                          *)

\* No store both deletes keys and takes snapshots.
Tidy == \A o \in Options : o.deletes = 0 \/ o.snapshots = 0

\* To a reader of the key at seq the entries show the write n, 0 for none.
Shows(S, key, seq, n) ==
    IF n = 0 THEN Tidy => \A e : Newest(S, key, seq, e) => e.type = kTypeDeletion
    ELSE \E e \in S : Newest(S, key, seq, e) /\ e.seq = n /\ e.type = kTypeValue

\* Readers at older sequence numbers do not see a write.
LEMMA ShowsOlder ==
    ASSUME NEW S \in SUBSET Entry, NEW n \in Nat, NEW e \in Entry, e.seq = n + 1,
           NEW key, NEW seq \in 0 .. n, NEW m, Shows(S, key, seq, m)
    PROVE  Shows(S \cup {e}, key, seq, m)
<1>1. ~(e.seq <= seq) OBVIOUS
<1>2. \A x : Newest(S \cup {e}, key, seq, x) <=> Newest(S, key, seq, x)
  BY <1>1 DEF Newest
<1> QED BY <1>2 DEF Shows

\* A write does not change what other keys show.
LEMMA ShowsOther ==
    ASSUME NEW S \in SUBSET Entry, NEW n \in Nat, \A d \in S : d.seq <= n,
           NEW e \in Entry, NEW key, e.key # key, NEW m, Shows(S, key, n, m)
    PROVE  Shows(S \cup {e}, key, n + 1, m)
<1>1. \A d \in S : d.seq <= n + 1
  <2>1. \A d \in S : d.seq \in Int BY DEF Entry
  <2> QED BY <2>1
<1>2. \A x : Newest(S \cup {e}, key, n + 1, x) <=> Newest(S, key, n, x)
  BY <1>1 DEF Newest
<1> QED BY <1>2 DEF Shows

\* A write is the newest entry of its key.
LEMMA NewestOwn ==
    ASSUME NEW S \in SUBSET Entry, NEW n \in Nat, \A d \in S : d.seq <= n,
           NEW e \in Entry, e.seq = n + 1
    PROVE  \A x : Newest(S \cup {e}, e.key, n + 1, x) <=> x = e
<1>1. \A d \in S : d.seq \in Int /\ d.seq < n + 1
  <2>1. \A d \in S : d.seq \in Int BY DEF Entry
  <2> QED BY <2>1
<1>2. \A d \in S \cup {e} : d.seq <= n + 1 BY <1>1
<1>3. Newest(S \cup {e}, e.key, n + 1, e) BY <1>2 DEF Newest
<1>4. ASSUME NEW x, Newest(S \cup {e}, e.key, n + 1, x) PROVE x = e
  <2>1. x \in S \cup {e} /\ n + 1 <= x.seq BY <1>2, <1>4 DEF Newest
  <2>2. x \notin S
    <3> SUFFICES ASSUME x \in S PROVE FALSE OBVIOUS
    <3>1. x.seq \in Int /\ x.seq < n + 1 BY <1>1
    <3> QED BY <2>1, <3>1
  <2> QED BY <2>1, <2>2
<1> QED BY <1>3, <1>4

\* So the write of a value shows it, and a deletion shows nothing.
LEMMA ShowsOwn ==
    ASSUME NEW S \in SUBSET Entry, NEW n \in Nat, \A d \in S : d.seq <= n,
           NEW e \in Entry, e.seq = n + 1, e.type \in {kTypeDeletion, kTypeValue}
    PROVE  Shows(S \cup {e}, e.key, n + 1, IF e.type = kTypeDeletion THEN 0 ELSE n + 1)
<1>1. \A x : Newest(S \cup {e}, e.key, n + 1, x) <=> x = e BY NewestOwn
<1>2. n + 1 # 0 OBVIOUS
<1>3. CASE e.type = kTypeDeletion BY <1>1, <1>3 DEF Shows
<1>4. CASE e.type # kTypeDeletion
  <2>1. e.type = kTypeValue BY <1>4
  <2>2. Newest(S \cup {e}, e.key, n + 1, e) BY <1>1
  <2> QED BY <1>2, <1>4, <2>1, <2>2 DEF Shows
<1> QED BY <1>3, <1>4

\* Entries that a reader at seq does not see, and the last markers of keys,
\* are dropped.
LEMMA ShowsDropped ==
    ASSUME NEW S \in SUBSET Entry, Unique(S), NEW L \in SUBSET S, NEW key, NEW seq \in Nat,
           \A e \in S \ L :
                \/ \E d \in S : d.key = e.key /\ d.seq > e.seq /\ d.seq <= seq
                \/ /\ e.type = kTypeDeletion
                   /\ Tidy => \A d \in L : d.key = e.key => d.seq > e.seq,
           NEW m, Shows(S, key, seq, m)
    PROVE  Shows(L, key, seq, m)
<1>1. \A d \in S : d.seq \in Int BY DEF Entry
<1>2. ASSUME NEW x, Newest(S, key, seq, x), x \notin L
      PROVE  x.type = kTypeDeletion /\ (Tidy => \A d \in L : d.key = key => d.seq > x.seq)
  <2>1. x \in S /\ x.key = key /\ \A d \in S : d.key = key /\ d.seq <= seq => d.seq <= x.seq
    BY <1>2 DEF Newest
  <2>2. ASSUME NEW d \in S, d.key = x.key, d.seq > x.seq, d.seq <= seq PROVE FALSE
    <3>1. d.seq <= x.seq BY <2>1, <2>2
    <3> QED BY <1>1, <2>1, <2>2, <3>1
  <2> QED BY <1>2, <2>1, <2>2
<1>3. CASE m # 0
  <2>1. PICK x \in S : Newest(S, key, seq, x) /\ x.seq = m /\ x.type = kTypeValue
    BY <1>3 DEF Shows
  <2>2. x \in L BY <1>2, <2>1 DEF kTypeDeletion, kTypeValue
  <2>3. Newest(L, key, seq, x) BY <2>1, <2>2 DEF Newest
  <2> QED BY <1>3, <2>1, <2>2, <2>3 DEF Shows
<1>4. CASE m = 0
  <2> SUFFICES ASSUME Tidy, NEW x, Newest(L, key, seq, x) PROVE x.type = kTypeDeletion
    BY <1>4 DEF Shows
  <2>1. x \in L /\ x \in S /\ x.key = key /\ x.seq <= seq BY DEF Newest
  <2>2. ~Nothing(S, key, seq) BY <2>1 DEF Nothing
  <2>3. PICK e : Newest(S, key, seq, e) BY <2>2, NewestExists
  <2>4. e \in S /\ e.type = kTypeDeletion BY <1>4, <2>3 DEF Shows, Newest
  <2>5. CASE e \in L
    <3>1. e.key = key /\ e.seq <= seq /\ x.seq <= e.seq BY <2>1, <2>3 DEF Newest
    <3>2. e.seq <= x.seq BY <2>5, <3>1 DEF Newest
    <3>3. e.seq = x.seq BY <1>1, <2>1, <2>4, <3>1, <3>2
    <3> QED BY <2>1, <2>4, <3>3 DEF Unique
  <2>6. CASE e \notin L
    <3>1. x.seq > e.seq BY <1>2, <2>1, <2>3, <2>6
    <3>2. x.seq <= e.seq BY <2>1, <2>3 DEF Newest
    <3> QED BY <1>1, <2>1, <2>4, <3>1, <3>2
  <2> QED BY <2>5, <2>6
<1> QED BY <1>3, <1>4

\* The types that the views rest on.
LEMMA ViewTypes ==
    ASSUME OrderInv
    PROVE  /\ last_sequence \in Nat /\ snapshots \in Seq(0 .. last_sequence)
           /\ DOMAIN snapshots = 1 .. Len(snapshots) /\ Len(snapshots) \in Nat
           /\ \A i \in DOMAIN snapshots : snapshots[i] \in 0 .. last_sequence
           /\ \A i \in DOMAIN snapshots : snapshots[i] \in Nat
           /\ Stored \in SUBSET Entry /\ \A e \in Stored : e.seq <= last_sequence
<1>1. TypeInv BY DEF OrderInv
<1>2. last_sequence \in Nat
  <2>1. options.writes \in 0 .. MaxSequence BY <1>1, StoreAssumption DEF TypeInv
  <2> QED BY <1>1, <2>1, VersionAssumption DEF TypeInv
<1>3. snapshots \in Seq(0 .. last_sequence) BY <1>1 DEF TypeInv
<1>4. DOMAIN snapshots = 1 .. Len(snapshots) /\ Len(snapshots) \in Nat
      /\ \A i \in DOMAIN snapshots : snapshots[i] \in 0 .. last_sequence
  <2>1. PICK R : R = 0 .. last_sequence OBVIOUS
  <2>2. snapshots \in Seq(R) BY <1>3, <2>1
  <2>3. DOMAIN snapshots = 1 .. Len(snapshots) /\ Len(snapshots) \in Nat BY <2>2
  <2>4. \A i \in DOMAIN snapshots : snapshots[i] \in R BY <2>2, <2>3
  <2> QED BY <2>1, <2>3, <2>4
<1>5. \A i \in DOMAIN snapshots : snapshots[i] \in Nat BY <1>2, <1>4
<1>6. Stored \in SUBSET Entry
  <2>1. mem \in SUBSET Entry /\ Frozen \in SUBSET Entry BY <1>1, FrozenType DEF TypeInv
  <2>2. Tabled(current) \in SUBSET Entry BY <1>1, TabledEntries DEF TypeInv
  <2> QED BY <2>1, <2>2, StoredIs
<1>7. \A e \in Stored : e.seq <= last_sequence BY StoredIs DEF OrderInv, Sequenced
<1> QED BY <1>2, <1>3, <1>4, <1>5, <1>6, <1>7

\* A lookup returns the newest entry of the key, if that is a value.
LEMMA LookupIs ==
    ASSUME OrderInv, NEW key \in Key, NEW seq \in Nat
    PROVE  /\ Nothing(Stored, key, seq) => Lookup(key, seq) = 0
           /\ \A e : Newest(Stored, key, seq, e) =>
                Lookup(key, seq) = IF e.type = kTypeValue THEN e.seq ELSE 0
<1>1. PICK M, F, v : M = mem /\ F = Frozen /\ v = current OBVIOUS
<1>2. PICK T : T = Tabled(v) OBVIOUS
<1>3. PICK S : S = Stored OBVIOUS
<1>4. S = M \cup F \cup T
  <2>1. T = Tabled(current) BY <1>1, <1>2
  <2> QED BY <1>1, <1>3, <2>1, StoredIs
<1>5. VersionOK(v) /\ Layered(v) BY <1>1 DEF OrderInv, TypeInv
<1>6. M \in SUBSET Entry /\ F \in SUBSET Entry /\ T \in SUBSET Entry
  <2>1. M \in SUBSET Entry BY <1>1 DEF OrderInv, TypeInv
  <2>2. F \in SUBSET Entry BY <1>1, FrozenType DEF OrderInv
  <2>3. T \in SUBSET Entry BY <1>2, <1>5, TabledEntries
  <2> QED BY <2>1, <2>2, <2>3
<1>7. Sequenced(M, F, T, last_sequence)
  <2>1. T = Tabled(current) BY <1>1, <1>2
  <2> QED BY <1>1, <2>1 DEF OrderInv
<1>8. Unique(M) /\ Unique(F) /\ Unique(T) BY <1>7 DEF Sequenced, Unique
<1> DEFINE inImm == IF imm = NoTable THEN {} ELSE Visible(imm, key, seq)
           found == IF Visible(mem, key, seq) # {} THEN Visible(mem, key, seq)
                    ELSE IF inImm # {} THEN inImm ELSE VersionGet(current, key, seq)
<1>9. Lookup(key, seq) = IF \E e \in found : e.type = kTypeValue
                         THEN (CHOOSE e \in found : TRUE).seq ELSE 0
  BY DEF Lookup
<1>10. /\ Visible(M, key, seq) # {} => found = Visible(M, key, seq)
       /\ Visible(M, key, seq) = {} /\ Visible(F, key, seq) # {} => found = Visible(F, key, seq)
       /\ Visible(M, key, seq) = {} /\ Visible(F, key, seq) = {}
            => found = VersionGet(v, key, seq)
  <2>1. Visible({}, key, seq) = {} BY DEF Visible
  <2>2. inImm = Visible(F, key, seq) BY <1>1, <2>1 DEF Frozen
  <2> QED BY <1>1, <2>2
<1> HIDE DEF found, inImm
<1>11. ASSUME Nothing(Stored, key, seq) PROVE Lookup(key, seq) = 0
  <2>1. Nothing(S, key, seq) BY <1>3, <1>11
  <2>2. Nothing(M, key, seq) /\ Nothing(F, key, seq) /\ Nothing(T, key, seq)
    BY <1>4, <2>1 DEF Nothing
  <2>3. Visible(M, key, seq) = {} BY <2>2, VisibleNothing
  <2>4. Visible(F, key, seq) = {} BY <2>2, VisibleNothing
  <2>5. VersionGet(v, key, seq) = {} BY <1>2, <1>5, <1>8, <2>2, VersionGetIs
  <2>6. found = {} BY <1>10, <2>3, <2>4, <2>5
  <2> QED BY <1>9, <2>6
<1>12. ASSUME NEW e, Newest(Stored, key, seq, e)
       PROVE  Lookup(key, seq) = IF e.type = kTypeValue THEN e.seq ELSE 0
  <2>1. e \in S /\ Newest(S, key, seq, e) BY <1>3, <1>12 DEF Newest
  <2>2. \A d \in S : d.key = key /\ d.seq <= seq => ~(d.seq > e.seq)
    <3>1. \A d \in S : d.seq \in Int BY <1>4, <1>6 DEF Entry
    <3>2. e.seq \in Int BY <2>1, <3>1
    <3>3. \A d \in S : d.key = key /\ d.seq <= seq => d.seq <= e.seq BY <2>1 DEF Newest
    <3> QED BY <3>1, <3>2, <3>3
  <2>3. CASE e \in M
    <3>1. Newest(M, key, seq, e) BY <1>4, <2>1, <2>3 DEF Newest
    <3>2. Visible(M, key, seq) = {e} BY <1>6, <1>8, <3>1, VisibleNewest
    <3>3. found = {e} BY <1>10, <3>2
    <3> QED BY <1>9, <3>3
  <2>4. CASE e \notin M /\ e \in F
    <3>1. Nothing(M, key, seq)
      <4>1. \A d \in M : d.seq > e.seq BY <1>7, <2>4 DEF Sequenced
      <4> QED BY <1>4, <2>2, <4>1 DEF Nothing
    <3>2. Visible(M, key, seq) = {} BY <3>1, VisibleNothing
    <3>3. Newest(F, key, seq, e) BY <1>4, <2>1, <2>4 DEF Newest
    <3>4. Visible(F, key, seq) = {e} BY <1>6, <1>8, <3>3, VisibleNewest
    <3>5. found = {e} BY <1>10, <3>2, <3>4
    <3> QED BY <1>9, <3>5
  <2>5. CASE e \notin M /\ e \notin F
    <3>1. e \in T BY <1>4, <2>1, <2>5
    <3>2. Nothing(M, key, seq)
      <4>1. \A d \in M : d.seq > e.seq BY <1>7, <3>1 DEF Sequenced
      <4> QED BY <1>4, <2>2, <4>1 DEF Nothing
    <3>3. Nothing(F, key, seq)
      <4>1. \A d \in F : d.seq > e.seq BY <1>7, <3>1 DEF Sequenced
      <4> QED BY <1>4, <2>2, <4>1 DEF Nothing
    <3>4. Visible(M, key, seq) = {} BY <3>2, VisibleNothing
    <3>5. Visible(F, key, seq) = {} BY <3>3, VisibleNothing
    <3>6. Newest(T, key, seq, e) BY <1>4, <2>1, <3>1 DEF Newest
    <3>7. VersionGet(v, key, seq) = {e} BY <1>2, <1>5, <1>8, <3>6, VersionGetIs
    <3>8. found = {e} BY <1>10, <3>4, <3>5, <3>7
    <3> QED BY <1>9, <3>8
  <2> QED BY <2>3, <2>4, <2>5
<1> QED BY <1>11, <1>12

\* A lookup finds what the entries show.
LEMMA LookupShows ==
    ASSUME OrderInv, NEW key \in Key, NEW seq \in Nat, NEW m,
           Shows(Stored, key, seq, m), m # 0 \/ Tidy
    PROVE  Lookup(key, seq) = m
<1>1. CASE m # 0
  <2>1. PICK e \in Stored : Newest(Stored, key, seq, e) /\ e.seq = m /\ e.type = kTypeValue
    BY <1>1 DEF Shows
  <2> QED BY <2>1, LookupIs
<1>2. CASE m = 0
  <2>1. CASE Nothing(Stored, key, seq) BY <1>2, <2>1, LookupIs
  <2>2. CASE ~Nothing(Stored, key, seq)
    <3>1. Stored \in SUBSET Entry BY ViewTypes
    <3>2. PICK e : Newest(Stored, key, seq, e) BY <2>2, <3>1, NewestExists
    <3>3. e.type # kTypeValue BY <1>2, <3>2 DEF Shows, kTypeDeletion, kTypeValue
    <3> QED BY <1>2, <3>2, <3>3, LookupIs
  <2> QED BY <2>1, <2>2
<1> QED BY <1>1, <1>2

-----------------------------------------------------------------------------
(* What the store shows at the present and at the snapshots.                *)

\* What keeps the reads right: the entries show what was written, the snapshots
\* are taken in order, and the running compaction spares the oldest one.
ViewInv ==
    /\ KeyInv
    /\ now \in [Key -> Nat]
    /\ \A key \in Key : Shows(Stored, key, last_sequence, now[key])
    /\ kept \in Seq([Key -> Nat]) /\ Len(kept) = Len(snapshots)
    /\ \A i \in DOMAIN snapshots : \A key \in Key :
            Shows(Stored, key, snapshots[i], kept[i][key])
    /\ \A i, j \in DOMAIN snapshots : i <= j => snapshots[i] <= snapshots[j]
    /\ compaction # NoCompaction =>
            /\ compaction.smallest_snapshot \in Nat
            /\ compaction.smallest_snapshot <= last_sequence
            /\ \A i \in DOMAIN snapshots : compaction.smallest_snapshot <= snapshots[i]

\* The order of the store is part of what keeps the reads right.
LEMMA ViewOrder == ViewInv => OrderInv
BY DEF ViewInv, KeyInv

\* An empty store shows nothing.
LEMMA InitView == Init => ViewInv
<1> SUFFICES ASSUME Init PROVE ViewInv OBVIOUS
<1>1. KeyInv BY InitKeys
<1>2. Stored = {}
  <2>1. \A l \in Level : current[l] = <<>> BY DEF Init
  <2>2. ToSet(<<>>) = {} BY DEF ToSet
  <2>3. Tabled(current) = {} BY <2>1, <2>2, TabledIs
  <2>4. mem = {} /\ Frozen = {} BY DEF Init, Frozen
  <2> QED BY <2>3, <2>4, StoredIs
<1>3. \A key \in Key : Shows(Stored, key, last_sequence, now[key])
  BY <1>2 DEF Init, Shows, Newest
<1>4. snapshots = <<>> /\ kept = <<>> /\ compaction = NoCompaction
      /\ now \in [Key -> Nat]
  BY DEF Init
<1> QED BY <1>1, <1>3, <1>4 DEF ViewInv

\* Steps that leave the entries and the views alone.
LEMMA SameView ==
    ASSUME ViewInv, KeyInv', Stored' = Stored,
           UNCHANGED <<now, kept, snapshots, last_sequence, compaction>>
    PROVE  ViewInv'
BY DEF ViewInv

\* A write changes the present of its key and no snapshot.
LEMMA WriteView ==
    ASSUME ViewInv, NEW key \in Key, NEW type \in {kTypeDeletion, kTypeValue}, Write(key, type)
    PROVE  ViewInv'
<1>1. KeyInv' /\ OrderInv BY WriteKeys, ViewOrder DEF ViewInv
<1>2. PICK S, n : S = Stored /\ n = last_sequence OBVIOUS
<1>3. n \in Nat /\ S \in SUBSET Entry /\ \A d \in S : d.seq <= n BY <1>1, <1>2, ViewTypes
<1>4. PICK e \in Entry : /\ e.key = key /\ e.seq = n + 1 /\ e.type = type
                        /\ Stored' = S \cup {e}
  BY <1>1, <1>2, StoredWritten
<1>5. /\ last_sequence' = n + 1 /\ UNCHANGED <<compaction, snapshots, kept>>
      /\ now' = [now EXCEPT ![key] = IF type = kTypeDeletion THEN 0 ELSE n + 1]
  BY <1>2 DEF Write, background
<1>6. now \in [Key -> Nat] /\ now' \in [Key -> Nat] BY <1>3, <1>5 DEF ViewInv
<1>7. \A k \in Key : Shows(S \cup {e}, k, n + 1, now'[k])
  <2> SUFFICES ASSUME NEW k \in Key PROVE Shows(S \cup {e}, k, n + 1, now'[k]) OBVIOUS
  <2>1. CASE k # key
    <3>1. now'[k] = now[k] BY <1>5, <1>6, <2>1
    <3>2. Shows(S, k, n, now[k]) BY <1>2 DEF ViewInv
    <3>3. Shows(S \cup {e}, k, n + 1, now[k])
      <4>1. e.key # k BY <1>4, <2>1
      <4> QED BY ONLY <1>3, e \in Entry, <3>2, <4>1, ShowsOther
    <3> QED BY <3>1, <3>3
  <2>2. CASE k = key
    <3>1. now'[k] = IF e.type = kTypeDeletion THEN 0 ELSE n + 1 BY <1>4, <1>5, <1>6, <2>2
    <3>2. e.type \in {kTypeDeletion, kTypeValue} /\ e.seq = n + 1 BY <1>4
    <3>3. Shows(S \cup {e}, e.key, n + 1, IF e.type = kTypeDeletion THEN 0 ELSE n + 1)
      BY ONLY <1>3, e \in Entry, <3>2, ShowsOwn
    <3> QED BY <1>4, <2>2, <3>1, <3>3
  <2> QED BY <2>1, <2>2
<1>8. \A i \in DOMAIN snapshots : \A k \in Key : Shows(S \cup {e}, k, snapshots[i], kept[i][k])
  <2> SUFFICES ASSUME NEW i \in DOMAIN snapshots, NEW k \in Key
               PROVE  Shows(S \cup {e}, k, snapshots[i], kept[i][k])
    OBVIOUS
  <2>1. PICK s \in 0 .. n : s = snapshots[i] BY <1>1, <1>2, ViewTypes
  <2>2. PICK m : m = kept[i][k] OBVIOUS
  <2>3. Shows(S, k, s, m) BY <1>2, <2>1, <2>2 DEF ViewInv
  <2>4. e.seq = n + 1 BY <1>4
  <2>5. Shows(S \cup {e}, k, s, m)
    BY ONLY <1>3, e \in Entry, s \in 0 .. n, <2>3, <2>4, ShowsOlder
  <2> QED BY <2>1, <2>2, <2>5
<1>9. compaction' # NoCompaction => compaction.smallest_snapshot <= n + 1
  BY <1>2, <1>3, <1>5 DEF ViewInv
<1>10. \A k \in Key : Shows(Stored', k, last_sequence', now'[k]) BY <1>4, <1>5, <1>7
<1>11. \A i \in DOMAIN snapshots' : \A k \in Key : Shows(Stored', k, snapshots'[i], kept'[i][k])
  BY <1>4, <1>5, <1>8
<1> QED BY <1>1, <1>5, <1>6, <1>9, <1>10, <1>11 DEF ViewInv

\* A new snapshot shows the present, and is the newest.
LEMMA GetSnapshotView ==
    ASSUME ViewInv, KeyInv', GetSnapshot
    PROVE  ViewInv'
<1>1. /\ snapshots' = Append(snapshots, last_sequence) /\ kept' = Append(kept, now)
      /\ UNCHANGED <<mem, imm, current, compaction, last_sequence, now>>
  BY DEF GetSnapshot, memtables, background
<1>2. Stored' = Stored
  <2>1. Tabled(current') = Tabled(current) BY <1>1
  <2> QED BY <1>1, <2>1, StoredSame
<1>3. OrderInv BY ViewOrder
<1>4. PICK N : N = Len(snapshots) OBVIOUS
<1>5. N \in Nat /\ DOMAIN snapshots = 1 .. N /\ snapshots \in Seq(Nat)
      /\ last_sequence \in Nat
      /\ \A i \in 1 .. N : snapshots[i] \in Nat /\ snapshots[i] <= last_sequence
  <2>1. \A i \in DOMAIN snapshots : snapshots[i] \in 0 .. last_sequence BY <1>3, ViewTypes
  <2>2. snapshots \in Seq(0 .. last_sequence) BY <1>3, ViewTypes
  <2>3. last_sequence \in Nat BY <1>3, ViewTypes
  <2>4. \A i \in DOMAIN snapshots : snapshots[i] \in Nat BY <1>3, ViewTypes
  <2>5. DOMAIN snapshots = 1 .. N /\ N \in Nat BY <1>4, <2>2
  <2>6. snapshots \in Seq(Nat) BY <2>2, <2>4, <2>5
  <2> QED BY <2>1, <2>3, <2>4, <2>5, <2>6
<1>6. kept \in Seq([Key -> Nat]) /\ Len(kept) = N /\ now \in [Key -> Nat]
  BY <1>4 DEF ViewInv
<1>7. /\ DOMAIN snapshots' = 1 .. N + 1 /\ Len(snapshots') = N + 1
      /\ \A i \in 1 .. N : snapshots'[i] = snapshots[i]
      /\ snapshots'[N + 1] = last_sequence
  BY <1>1, <1>4, <1>5
<1>8. /\ kept' \in Seq([Key -> Nat]) /\ Len(kept') = N + 1
      /\ \A i \in 1 .. N : kept'[i] = kept[i]
      /\ kept'[N + 1] = now
  BY <1>1, <1>5, <1>6
<1>9. \A i \in 1 .. N + 1 : i \in 1 .. N \/ i = N + 1 BY <1>5
<1>10. \A i \in DOMAIN snapshots' : \A k \in Key : Shows(Stored', k, snapshots'[i], kept'[i][k])
  <2> SUFFICES ASSUME NEW i \in 1 .. N + 1, NEW k \in Key
               PROVE  Shows(Stored, k, snapshots'[i], kept'[i][k])
    BY <1>2, <1>7
  <2>1. CASE i \in 1 .. N
    <3>1. Shows(Stored, k, snapshots[i], kept[i][k]) BY <1>5, <2>1 DEF ViewInv
    <3> QED BY <1>7, <1>8, <2>1, <3>1
  <2>2. CASE i = N + 1
    <3>1. Shows(Stored, k, last_sequence, now[k]) BY DEF ViewInv
    <3> QED BY <1>7, <1>8, <2>2, <3>1
  <2> QED BY <1>9, <2>1, <2>2
<1>11. \A i, j \in DOMAIN snapshots' : i <= j => snapshots'[i] <= snapshots'[j]
  <2> SUFFICES ASSUME NEW i \in 1 .. N + 1, NEW j \in 1 .. N + 1, i <= j
               PROVE  snapshots'[i] <= snapshots'[j]
    BY <1>7
  <2>1. CASE j \in 1 .. N
    <3>1. i \in 1 .. N BY <1>5, <2>1
    <3>2. snapshots[i] <= snapshots[j] BY <1>5, <2>1, <3>1 DEF ViewInv
    <3> QED BY <1>7, <2>1, <3>1, <3>2
  <2>2. CASE j = N + 1
    <3>1. snapshots'[i] <= last_sequence BY <1>5, <1>7, <1>9
    <3> QED BY <1>7, <2>2, <3>1
  <2> QED BY <1>9, <2>1, <2>2
<1>12. compaction' # NoCompaction =>
            /\ compaction'.smallest_snapshot \in Nat
            /\ compaction'.smallest_snapshot <= last_sequence'
            /\ \A i \in DOMAIN snapshots' : compaction'.smallest_snapshot <= snapshots'[i]
  <2> SUFFICES ASSUME compaction # NoCompaction, NEW i \in 1 .. N + 1
               PROVE  compaction.smallest_snapshot <= snapshots'[i]
    BY <1>1, <1>7 DEF ViewInv
  <2>1. CASE i \in 1 .. N BY <1>5, <1>7, <2>1 DEF ViewInv
  <2>2. CASE i = N + 1 BY <1>7, <2>2 DEF ViewInv
  <2> QED BY <1>9, <2>1, <2>2
<1>13. \A k \in Key : Shows(Stored', k, last_sequence', now'[k]) BY <1>1, <1>2 DEF ViewInv
<1>14. now' \in [Key -> Nat] BY <1>1 DEF ViewInv
<1> QED BY <1>7, <1>8, <1>10, <1>11, <1>12, <1>13, <1>14 DEF ViewInv

\* The other snapshots stay, in order, above the running compaction's.
LEMMA ReleaseSnapshotView ==
    ASSUME ViewInv, KeyInv', NEW r \in DOMAIN snapshots, ReleaseSnapshot(r)
    PROVE  ViewInv'
<1>1. /\ snapshots' = RemoveAt(snapshots, r) /\ kept' = RemoveAt(kept, r)
      /\ UNCHANGED <<mem, imm, current, compaction, last_sequence, now>>
  BY DEF ReleaseSnapshot, memtables, background
<1>2. Stored' = Stored
  <2>1. Tabled(current') = Tabled(current) BY <1>1
  <2> QED BY <1>1, <2>1, StoredSame
<1>3. OrderInv BY ViewOrder
<1>4. PICK N : N = Len(snapshots) OBVIOUS
<1>5. PICK R, M : R = 0 .. last_sequence /\ M = [Key -> Nat] OBVIOUS
<1>6. snapshots \in Seq(R) BY <1>3, <1>5, ViewTypes
<1>7. kept \in Seq(M) /\ Len(kept) = N BY <1>4, <1>5 DEF ViewInv
<1>8. N \in Nat /\ DOMAIN snapshots = 1 .. N /\ r \in 1 .. N BY <1>4, <1>6
<1>9. PICK old : old = [j \in 1 .. N - 1 |-> IF j < r THEN j ELSE j + 1] OBVIOUS
<1>10. /\ \A j \in 1 .. N - 1 : old[j] \in 1 .. N
       /\ \A i, j \in 1 .. N - 1 : i <= j => old[i] <= old[j]
  BY <1>8, <1>9
<1>11. snapshots' \in Seq(R) /\ Len(snapshots') = N - 1
       /\ \A j \in 1 .. N - 1 : snapshots'[j] = snapshots[old[j]]
  <2>1. PICK s : s = snapshots OBVIOUS
  <2>2. s \in Seq(R) /\ r \in DOMAIN s /\ Len(s) = N BY <1>4, <1>6, <2>1
  <2>3. /\ RemoveAt(s, r) \in Seq(R) /\ Len(RemoveAt(s, r)) = N - 1
        /\ \A j \in 1 .. N - 1 : RemoveAt(s, r)[j] = s[IF j < r THEN j ELSE j + 1]
    BY ONLY <2>2, RemovedAt
  <2>4. snapshots' = RemoveAt(s, r) BY <1>1, <2>1
  <2> QED BY <1>9, <2>1, <2>3, <2>4
<1>12. kept' \in Seq(M) /\ Len(kept') = N - 1
       /\ \A j \in 1 .. N - 1 : kept'[j] = kept[old[j]]
  <2>1. PICK s : s = kept OBVIOUS
  <2>2. s \in Seq(M) /\ r \in DOMAIN s /\ Len(s) = N BY <1>7, <1>8, <2>1
  <2>3. /\ RemoveAt(s, r) \in Seq(M) /\ Len(RemoveAt(s, r)) = N - 1
        /\ \A j \in 1 .. N - 1 : RemoveAt(s, r)[j] = s[IF j < r THEN j ELSE j + 1]
    BY ONLY <2>2, RemovedAt
  <2>4. kept' = RemoveAt(s, r) BY <1>1, <2>1
  <2> QED BY <1>9, <2>1, <2>3, <2>4
<1>13. DOMAIN snapshots' = 1 .. N - 1 BY <1>11
<1>14. \A i \in DOMAIN snapshots' : \A k \in Key : Shows(Stored', k, snapshots'[i], kept'[i][k])
  <2> SUFFICES ASSUME NEW i \in 1 .. N - 1, NEW k \in Key
               PROVE  Shows(Stored, k, snapshots'[i], kept'[i][k])
    BY <1>2, <1>13
  <2>1. old[i] \in DOMAIN snapshots BY <1>8, <1>10
  <2>2. Shows(Stored, k, snapshots[old[i]], kept[old[i]][k]) BY <2>1 DEF ViewInv
  <2> QED BY <1>11, <1>12, <2>2
<1>15. \A i, j \in DOMAIN snapshots' : i <= j => snapshots'[i] <= snapshots'[j]
  <2> SUFFICES ASSUME NEW i \in 1 .. N - 1, NEW j \in 1 .. N - 1, i <= j
               PROVE  snapshots'[i] <= snapshots'[j]
    BY <1>13
  <2>1. old[i] \in DOMAIN snapshots /\ old[j] \in DOMAIN snapshots /\ old[i] <= old[j]
    BY <1>8, <1>10
  <2>2. snapshots[old[i]] <= snapshots[old[j]] BY <2>1 DEF ViewInv
  <2> QED BY <1>11, <2>2
<1>16. compaction' # NoCompaction =>
            /\ compaction'.smallest_snapshot \in Nat
            /\ compaction'.smallest_snapshot <= last_sequence'
            /\ \A i \in DOMAIN snapshots' : compaction'.smallest_snapshot <= snapshots'[i]
  <2> SUFFICES ASSUME compaction # NoCompaction, NEW i \in 1 .. N - 1
               PROVE  compaction.smallest_snapshot <= snapshots'[i]
    BY <1>1, <1>13 DEF ViewInv
  <2>1. old[i] \in DOMAIN snapshots BY <1>8, <1>10
  <2>2. compaction.smallest_snapshot <= snapshots[old[i]] BY <2>1 DEF ViewInv
  <2> QED BY <1>11, <2>2
<1>17. \A k \in Key : Shows(Stored', k, last_sequence', now'[k]) BY <1>1, <1>2 DEF ViewInv
<1>18. now' \in [Key -> Nat] BY <1>1 DEF ViewInv
<1>19. kept' \in Seq([Key -> Nat]) /\ Len(kept') = Len(snapshots') BY <1>5, <1>11, <1>12
<1> QED BY <1>14, <1>15, <1>16, <1>17, <1>18, <1>19 DEF ViewInv

\* A compaction that begins spares what the oldest snapshot shows.
LEMMA StartView ==
    ASSUME ViewInv, KeyInv', Stored' = Stored,
           UNCHANGED <<now, kept, snapshots, last_sequence>>,
           NEW c, compaction' = compaction \/ compaction' = NoCompaction \/ compaction' = Start(c)
    PROVE  ViewInv'
<1>1. OrderInv BY ViewOrder
<1>2. /\ last_sequence \in Nat /\ Len(snapshots) \in Nat /\ DOMAIN snapshots = 1 .. Len(snapshots)
      /\ \A i \in DOMAIN snapshots : snapshots[i] \in 0 .. last_sequence
  BY <1>1, ViewTypes
<1>3. CASE compaction' = compaction \/ compaction' = NoCompaction
  BY <1>3 DEF ViewInv
<1>4. CASE compaction' = Start(c)
  <2>1. PICK s : s = compaction'.smallest_snapshot OBVIOUS
  <2>2. s = IF snapshots = <<>> THEN last_sequence ELSE snapshots[1] BY <1>4, <2>1 DEF Start
  <2>3. s \in Nat /\ s <= last_sequence /\ \A i \in DOMAIN snapshots : s <= snapshots[i]
    <3>1. CASE snapshots = <<>> BY <1>2, <2>2, <3>1
    <3>2. CASE snapshots # <<>>
      <4>1. 1 \in DOMAIN snapshots
        <5>1. snapshots \in Seq(0 .. last_sequence) BY <1>1, ViewTypes
        <5>2. Len(snapshots) # 0 BY <3>2, <5>1
        <5> QED BY <1>2, <5>2
      <4>2. s = snapshots[1] BY <2>2, <3>2
      <4>3. s \in 0 .. last_sequence BY <1>2, <4>1, <4>2
      <4>4. \A i \in DOMAIN snapshots : 1 <= i BY <1>2
      <4>5. \A i \in DOMAIN snapshots : s <= snapshots[i] BY <4>1, <4>2, <4>4 DEF ViewInv
      <4> QED BY <1>2, <4>3, <4>5
    <3> QED BY <3>1, <3>2
  <2> QED BY <2>1, <2>3 DEF ViewInv
<1> QED BY <1>3, <1>4

\* A trivial move, or the start of a compaction.
LEMMA BackgroundView ==
    ASSUME ViewInv, KeyInv', BackgroundCompaction
    PROVE  ViewInv'
<1>1. UNCHANGED <<mem, imm, last_sequence, snapshots, now, kept>>
  BY DEF BackgroundCompaction, memtables, views
<1>2. Stored' = Stored BY <1>1, ViewOrder, BackgroundOrder, StoredSame
<1>3. PICK c : compaction' = compaction \/ compaction' = Start(c) BY DEF BackgroundCompaction
<1> QED BY <1>1, <1>2, <1>3, StartView

\* The start of a requested compaction.
LEMMA ManualView ==
    ASSUME ViewInv, KeyInv', ManualCompaction
    PROVE  ViewInv'
<1>1. UNCHANGED <<mem, imm, current, last_sequence, snapshots, now, kept>>
  BY DEF ManualCompaction, memtables, views
<1>2. Stored' = Stored
  <2>1. Tabled(current') = Tabled(current) BY <1>1
  <2> QED BY <1>1, <2>1, StoredSame
<1>3. PICK inputs : IF inputs = <<>>
        THEN manual' = NoManual /\ UNCHANGED <<pointer, compaction>>
        ELSE \E c \in {SetupOtherInputs(current, manual.level, inputs)} : compaction' = Start(c)
  BY DEF ManualCompaction
<1>4. PICK c : compaction' = compaction \/ compaction' = Start(c) BY <1>3
<1> QED BY <1>1, <1>2, <1>4, StartView

\* A compaction that ends drops what a newer entry hides from every snapshot,
\* and a marker only when, in a tidy store, nothing older is left.
LEMMA FinishDrops ==
    ASSUME KeyInv, FinishCompaction, NEW e \in Stored, e \notin Stored'
    PROVE  \/ \E d \in Stored : /\ d.key = e.key /\ d.seq > e.seq
                               /\ d.seq <= compaction.smallest_snapshot
           \/ /\ e.type = kTypeDeletion
              /\ Tidy => \A d \in Stored' : d.key = e.key => d.seq > e.seq
<1>1. OrderInv /\ TypeInv BY DEF KeyInv, OrderInv
<1>2. PICK c, v, w : c = compaction /\ v = current /\ w = current' OBVIOUS
<1>3. RunningOK(c) /\ Running(v, c) /\ VersionOK(w) BY <1>1, <1>2, FinishMerges
<1>4. PICK T : Merged(v, w, c, T) BY <1>1, <1>2, FinishMerges
<1>5. Tabled(current) = Tabled(v) /\ Tabled(current') = Tabled(w) BY <1>2
<1>6. Stored' = mem \cup Frozen \cup Tabled(w)
  <2>1. Stored' = mem' \cup Frozen' \cup Tabled(current') BY DEF Stored, Frozen, Tabled
  <2>2. mem' = mem /\ Frozen' = Frozen BY DEF FinishCompaction, memtables, Frozen
  <2> QED BY <1>5, <2>1, <2>2
<1>7. e \in Tabled(v) \ Tabled(w) BY <1>5, <1>6, StoredIs
<1>8. PICK all : all = Entries(c.inputs[1] \o c.inputs[2]) OBVIOUS
<1>9. all \subseteq Tabled(v) /\ e \in all /\ Drop(c, c.smallest_snapshot, e)
  BY <1>1, <1>2, <1>5, <1>7, <1>8, FinishStep
<1>10. CASE \E d \in all : d.key = e.key /\ d.seq > e.seq /\ d.seq <= c.smallest_snapshot
  BY <1>2, <1>5, <1>9, <1>10, StoredIs
<1>11. CASE e.type = kTypeDeletion /\ IsBaseLevelForKey(c.version, c.level, e.key)
  <2> SUFFICES ASSUME Tidy, NEW d \in Stored', d.key = e.key PROVE d.seq > e.seq BY <1>11
  <2>1. CASE d \in mem \cup Frozen BY <1>1, <1>5, <1>7, <2>1 DEF OrderInv, Sequenced
  <2>2. CASE d \in Tabled(w)
    <3>1. options.snapshots = 0
      <4>1. options \in Options BY <1>1 DEF TypeInv
      <4>2. options.deletes # 0 BY <1>11 DEF KeyInv, kTypeDeletion, kTypeValue
      <4> QED BY <4>1, <4>2 DEF Tidy
    <3>2. Alone(v, c) BY <1>2, <3>1 DEF KeyInv, FinishCompaction
    <3>3. VersionOK(v) /\ Layered(v) /\ Unique(Tabled(v))
      BY <1>1, <1>2, <1>5 DEF OrderInv, TypeInv, Sequenced, Unique
    <3>4. c.level \in 0 .. NumLevels - 2 BY <1>3 DEF RunningOK
    <3>5. PICK h \in In(c) : e \in h.entries BY <1>3, <1>8, <1>9, InputEntries
    <3>6. e \notin Tabled(w) BY <1>7
    <3>7. IsBaseLevelForKey(c.version, c.level, e.key) BY <1>11
    <3> QED BY ONLY <1>3, <1>4, <2>2, <3>2, <3>3, <3>4, <3>5, <3>6, <3>7, d.key = e.key, MarkerLast
  <2> QED BY <1>6, <2>1, <2>2
<1> QED BY <1>8, <1>9, <1>10, <1>11 DEF Drop

\* So nothing changes that a live snapshot or the present shows.
LEMMA FinishView ==
    ASSUME ViewInv, KeyInv', FinishCompaction
    PROVE  ViewInv'
<1>1. KeyInv /\ OrderInv BY ViewOrder DEF ViewInv
<1>2. /\ UNCHANGED <<last_sequence, snapshots, now, kept>>
      /\ compaction # NoCompaction /\ compaction' = NoCompaction
  BY DEF FinishCompaction, views
<1>3. PICK S, L, s : S = Stored /\ L = Stored' /\ s = compaction.smallest_snapshot OBVIOUS
<1>4. S \in SUBSET Entry /\ L \in SUBSET S /\ Unique(S)
  <2>1. S \in SUBSET Entry BY <1>1, <1>3, ViewTypes
  <2>2. Unique(S) BY <1>1, <1>3, StoredIs DEF OrderInv, Sequenced
  <2> QED BY <1>1, <1>3, <2>1, <2>2, StoredFinished
<1>5. \A e \in S \ L : \/ \E d \in S : d.key = e.key /\ d.seq > e.seq /\ d.seq <= s
                       \/ /\ e.type = kTypeDeletion
                          /\ Tidy => \A d \in L : d.key = e.key => d.seq > e.seq
  BY <1>1, <1>3, FinishDrops
<1>6. ASSUME NEW seq \in Nat, s \in Nat, s <= seq, NEW k, NEW m, Shows(S, k, seq, m)
      PROVE  Shows(L, k, seq, m)
  <2>1. \A d \in S : d.seq <= s => d.seq <= seq
    <3>1. \A d \in S : d.seq \in Int BY <1>4 DEF Entry
    <3> QED BY <1>6, <3>1
  <2>2. \A e \in S \ L : \/ \E d \in S : d.key = e.key /\ d.seq > e.seq /\ d.seq <= seq
                         \/ /\ e.type = kTypeDeletion
                            /\ Tidy => \A d \in L : d.key = e.key => d.seq > e.seq
    BY ONLY <1>5, <2>1
  <2> QED BY ONLY <1>4, <1>6, seq \in Nat, <2>2, ShowsDropped
<1>7. s \in Nat /\ s <= last_sequence /\ \A i \in DOMAIN snapshots : s <= snapshots[i]
  BY <1>2, <1>3 DEF ViewInv
<1>8. last_sequence \in Nat /\ \A i \in DOMAIN snapshots : snapshots[i] \in Nat
  BY <1>1, ViewTypes
<1>9. \A k \in Key : Shows(Stored', k, last_sequence', now'[k])
  <2> SUFFICES ASSUME NEW k \in Key PROVE Shows(L, k, last_sequence, now[k]) BY <1>2, <1>3
  <2>1. Shows(S, k, last_sequence, now[k]) BY <1>3 DEF ViewInv
  <2> QED BY <1>6, <1>7, <1>8, <2>1
<1>10. \A i \in DOMAIN snapshots' : \A k \in Key : Shows(Stored', k, snapshots'[i], kept'[i][k])
  <2> SUFFICES ASSUME NEW i \in DOMAIN snapshots, NEW k \in Key
               PROVE  Shows(L, k, snapshots[i], kept[i][k])
    BY <1>2, <1>3
  <2>1. Shows(S, k, snapshots[i], kept[i][k]) BY <1>3 DEF ViewInv
  <2> QED BY <1>6, <1>7, <1>8, <2>1
<1> QED BY <1>2, <1>9, <1>10 DEF ViewInv

\* Every step keeps what is shown.
LEMMA ViewStep ==
    ASSUME NoHoles, ViewInv, [Next]_vars
    PROVE  ViewInv'
<1>1. KeyInv' /\ OrderInv BY KeyStep, ViewOrder DEF ViewInv
<1>2. ASSUME NEW key \in Key, NEW type \in {kTypeDeletion, kTypeValue}, Write(key, type)
      PROVE  ViewInv'
  BY <1>2, WriteView
<1>3. CASE MakeRoomForWrite
  <2>1. Stored' = Stored BY <1>1, <1>3, StoredFrozen
  <2>2. UNCHANGED <<now, kept, snapshots, last_sequence, compaction>>
    BY <1>3 DEF MakeRoomForWrite, background, views
  <2> QED BY <1>1, <2>1, <2>2, SameView
<1>4. CASE GetSnapshot BY <1>1, <1>4, GetSnapshotView
<1>5. ASSUME NEW i \in DOMAIN snapshots, ReleaseSnapshot(i) PROVE ViewInv'
  BY <1>1, <1>5, ReleaseSnapshotView
<1>6. ASSUME UNCHANGED <<mem, imm, current, compaction, last_sequence, snapshots, now, kept>>
      PROVE  ViewInv'
  <2>1. Tabled(current') = Tabled(current) BY <1>6
  <2>2. Stored' = Stored BY <1>6, <2>1, StoredSame
  <2> QED BY <1>1, <1>6, <2>2, SameView
<1>7. ASSUME NEW key \in Key, NEW seq \in 0 .. last_sequence, UpdateStats(key, seq)
      PROVE  ViewInv'
  BY <1>6, <1>7 DEF UpdateStats, memtables, views
<1>8. ASSUME NEW level, NEW begin, NEW end, CompactRange(level, begin, end)
      PROVE  ViewInv'
  BY <1>6, <1>8 DEF CompactRange, memtables, background, views
<1>9. CASE CompactMemTable
  <2>1. Stored' = Stored BY <1>1, <1>9, StoredFlushed
  <2>2. UNCHANGED <<now, kept, snapshots, last_sequence, compaction>>
    BY <1>9 DEF CompactMemTable, views
  <2> QED BY <1>1, <2>1, <2>2, SameView
<1>10. CASE BackgroundCompaction BY <1>1, <1>10, BackgroundView
<1>11. CASE ManualCompaction BY <1>1, <1>11, ManualView
<1>12. CASE FinishCompaction BY <1>1, <1>12, FinishView
<1>13. CASE UNCHANGED vars
  BY <1>6, <1>13 DEF vars, memtables, background, views
<1> QED BY <1>2, <1>3, <1>4, <1>5, <1>7, <1>8, <1>9, <1>10, <1>11, <1>12, <1>13 DEF Next

\* What the store must show at the present and at every live snapshot is there,
\* however far it has moved down and whatever was dropped.
THEOREM StoreViews ==
    ASSUME NoHoles
    PROVE  Spec => []ViewInv
<1>1. ViewInv /\ [Next]_vars => ViewInv' BY ViewStep
<1> QED BY <1>1, InitView, PTL DEF Spec

\* The last write of a key is found, at the present and at every snapshot,
\* unless it was a deletion.
WritesFound ==
    /\ \A key \in Key : now[key] # 0 => Lookup(key, last_sequence) = now[key]
    /\ \A i \in DOMAIN snapshots, key \in Key :
            kept[i][key] # 0 => Lookup(key, snapshots[i]) = kept[i][key]

\* So every value shown is found.
LEMMA ViewFound == ViewInv => WritesFound
<1> SUFFICES ASSUME ViewInv PROVE WritesFound OBVIOUS
<1>1. OrderInv BY ViewOrder
<1>2. \A key \in Key : now[key] # 0 => Lookup(key, last_sequence) = now[key]
  <2> SUFFICES ASSUME NEW key \in Key, now[key] # 0
               PROVE  Lookup(key, last_sequence) = now[key]
    OBVIOUS
  <2>1. Shows(Stored, key, last_sequence, now[key]) BY DEF ViewInv
  <2>2. last_sequence \in Nat BY <1>1, ViewTypes
  <2> QED BY <1>1, <2>1, <2>2, LookupShows
<1>3. \A i \in DOMAIN snapshots : \A key \in Key :
            kept[i][key] # 0 => Lookup(key, snapshots[i]) = kept[i][key]
  <2> SUFFICES ASSUME NEW i \in DOMAIN snapshots, NEW key \in Key, kept[i][key] # 0
               PROVE  Lookup(key, snapshots[i]) = kept[i][key]
    OBVIOUS
  <2>1. Shows(Stored, key, snapshots[i], kept[i][key]) BY DEF ViewInv
  <2>2. snapshots[i] \in Nat BY <1>1, ViewTypes
  <2> QED BY <1>1, <2>1, <2>2, LookupShows
<1> QED BY <1>2, <1>3 DEF WritesFound

\* And where no store both deletes and takes snapshots, what was deleted, or
\* never written, is not.
LEMMA ViewReadsRight ==
    ASSUME Tidy, ViewInv
    PROVE  ReadsRight
<1>1. OrderInv BY ViewOrder
<1>2. \A key \in Key : Lookup(key, last_sequence) = now[key]
  <2> TAKE key \in Key
  <2>1. Shows(Stored, key, last_sequence, now[key]) BY DEF ViewInv
  <2>2. last_sequence \in Nat BY <1>1, ViewTypes
  <2> QED BY <1>1, <2>1, <2>2, LookupShows
<1>3. \A i \in DOMAIN snapshots : \A key \in Key : Lookup(key, snapshots[i]) = kept[i][key]
  <2> TAKE i \in DOMAIN snapshots
  <2> TAKE key \in Key
  <2>1. Shows(Stored, key, snapshots[i], kept[i][key]) BY DEF ViewInv
  <2>2. snapshots[i] \in Nat BY <1>1, ViewTypes
  <2> QED BY <1>1, <2>1, <2>2, LookupShows
<1> QED BY <1>2, <1>3 DEF ReadsRight

\* A Get finds the last write of a key, at the present and at every live
\* snapshot, unless that write was a deletion; deletions may be among the others.
THEOREM LevelStoreWritesFound ==
    ASSUME NoHoles
    PROVE  Spec => []WritesFound
BY StoreViews, ViewFound, PTL

\* Where no store both deletes keys and takes snapshots, a Get finds exactly what
\* was written last, or nothing where that was a deletion or nothing was.  (With
\* both it may find an older value again: the run level_store_deleted.)
THEOREM LevelStoreReadsRight ==
    ASSUME NoHoles, Tidy
    PROVE  Spec => []ReadsRight
<1>1. ViewInv => ReadsRight BY ViewReadsRight
<1> QED BY <1>1, StoreViews, PTL

-----------------------------------------------------------------------------
(* The map with snapshots.                                                  *)

\* The mapped variables of Store, and what they equal.
ShownNow == [k \in Key |-> IF options.mapped THEN Lookup(k, last_sequence) ELSE 0]
ShownSnapshots ==
    IF options.mapped
    THEN [i \in DOMAIN snapshots |-> [k \in Key |-> Lookup(k, snapshots[i])]]
    ELSE <<>>
\* They equal the histories.
Shown ==
    /\ ShownNow = IF options.mapped THEN now ELSE [k \in Key |-> 0]
    /\ ShownSnapshots = IF options.mapped THEN kept ELSE <<>>

\* They are the histories of the writes and of the snapshots.
LEMMA ViewShown ==
    ASSUME Tidy, ViewInv
    PROVE  Shown
<1>1. ReadsRight BY ViewReadsRight
<1>2. ShownNow = IF options.mapped THEN now ELSE [k \in Key |-> 0]
  <2>1. now \in [Key -> Nat] BY DEF ViewInv
  <2>2. \A k \in Key : Lookup(k, last_sequence) = now[k] BY <1>1 DEF ReadsRight
  <2> QED BY <2>1, <2>2 DEF ShownNow
<1>3. ShownSnapshots = IF options.mapped THEN kept ELSE <<>>
  <2>1. CASE options.mapped
    <3>1. kept \in Seq([Key -> Nat]) /\ Len(kept) = Len(snapshots) BY DEF ViewInv
    <3>2. DOMAIN snapshots = 1 .. Len(snapshots) BY ViewOrder, ViewTypes
    <3>3. DOMAIN kept = DOMAIN snapshots BY <3>1, <3>2
    <3>4. \A i \in DOMAIN snapshots : kept[i] \in [Key -> Nat] BY <3>1, <3>3
    <3>5. \A i \in DOMAIN snapshots : [k \in Key |-> Lookup(k, snapshots[i])] = kept[i]
      <4> TAKE i \in DOMAIN snapshots
      <4>1. kept[i] \in [Key -> Nat] BY <3>4
      <4>2. \A k \in Key : Lookup(k, snapshots[i]) = kept[i][k] BY <1>1 DEF ReadsRight
      <4> QED BY <4>1, <4>2
    <3>6. kept = [i \in DOMAIN snapshots |-> kept[i]] BY <3>1, <3>3
    <3> QED BY <2>1, <3>5, <3>6 DEF ShownSnapshots
  <2>2. CASE ~options.mapped BY <2>2 DEF ShownSnapshots
  <2> QED BY <2>1, <2>2
<1> QED BY <1>2, <1>3 DEF Shown

\* They are the state of the map.
StoreVars == <<ShownNow, ShownSnapshots>>

\* An empty store is an empty map.
LEMMA StoreInit ==
    ASSUME Init, Shown
    PROVE  Store!Init
<1>1. ShownNow = [k \in Key |-> 0] /\ ShownSnapshots = <<>> BY DEF Init, Shown
<1> QED BY <1>1 DEF Store!Init, ShownNow, ShownSnapshots

\* A write is a Put, or a Delete, the steps for snapshots are those of the map, and all
\* others, flushes, moves and compactions among them, are invisible.
LEMMA StoreStep ==
    ASSUME ViewInv, ViewInv', Shown, Shown', [Next]_vars
    PROVE  [Store!Next]_StoreVars
<1>1. options' = options
  BY DEF Next, Write, MakeRoomForWrite, GetSnapshot, ReleaseSnapshot, UpdateStats,
         CompactRange, CompactMemTable, BackgroundCompaction, ManualCompaction,
         FinishCompaction, vars
<1>2. ASSUME ~options.mapped PROVE UNCHANGED StoreVars
  BY <1>1, <1>2 DEF Shown, StoreVars
<1>3. ASSUME options.mapped
      PROVE  ShownNow = now /\ ShownNow' = now' /\ ShownSnapshots = kept /\ ShownSnapshots' = kept'
  BY <1>1, <1>3 DEF Shown
<1>4. ASSUME NEW key \in Key, NEW type \in {kTypeDeletion, kTypeValue}, Write(key, type),
             options.mapped
      PROVE  Store!Next
  <2>1. PICK n : n = IF type = kTypeDeletion THEN 0 ELSE last_sequence + 1 OBVIOUS
  <2>2. now' = [now EXCEPT ![key] = n] /\ kept' = kept BY <1>4, <2>1 DEF Write
  <2>3. ShownNow' = [ShownNow EXCEPT ![key] = n] /\ ShownSnapshots' = ShownSnapshots
    BY <1>3, <1>4, <2>2
  <2>4. CASE type = kTypeDeletion
    <3>1. Store!Delete(key) BY <2>1, <2>3, <2>4 DEF Store!Delete, ShownNow, ShownSnapshots
    <3> QED BY <3>1 DEF Store!Next
  <2>5. CASE type # kTypeDeletion
    <3>1. OrderInv BY ViewOrder
    <3>2. n \in Sequence
      <4>1. options.writes \in 0 .. MaxSequence BY <3>1, StoreAssumption DEF OrderInv, TypeInv
      <4>2. last_sequence \in Nat BY <3>1, ViewTypes
      <4>3. last_sequence < options.writes BY <1>4 DEF Write
      <4> QED BY <2>1, <2>5, <4>1, <4>2, <4>3, VersionAssumption DEF Sequence
    <3>3. Store!Put(key, n) BY <2>3 DEF Store!Put, ShownNow, ShownSnapshots
    <3> QED BY <3>2, <3>3 DEF Store!Next
  <2> QED BY <2>4, <2>5
<1>5. ASSUME GetSnapshot, options.mapped PROVE Store!Next
  <2>1. kept' = Append(kept, now) /\ now' = now BY <1>5 DEF GetSnapshot
  <2>2. ShownSnapshots' = Append(ShownSnapshots, ShownNow) /\ ShownNow' = ShownNow
    BY <1>3, <1>5, <2>1
  <2>3. Store!GetSnapshot BY <2>2 DEF Store!GetSnapshot, ShownNow, ShownSnapshots
  <2> QED BY <2>3 DEF Store!Next
<1>6. ASSUME NEW i \in DOMAIN snapshots, ReleaseSnapshot(i), options.mapped PROVE Store!Next
  <2>1. kept' = RemoveAt(kept, i) /\ now' = now BY <1>6 DEF ReleaseSnapshot
  <2>2. i \in DOMAIN ShownSnapshots BY <1>6 DEF ShownSnapshots
  <2>3. ShownSnapshots' = RemoveAt(ShownSnapshots, i) /\ ShownNow' = ShownNow
    BY <1>3, <1>6, <2>1
  <2>4. Store!ReleaseSnapshot(i)
    BY <2>3 DEF Store!ReleaseSnapshot, Store!RemoveAt, RemoveAt, ShownNow, ShownSnapshots
  <2>5. \E r \in DOMAIN ShownSnapshots : Store!ReleaseSnapshot(r) BY <2>2, <2>4
  <2> QED BY <2>5 DEF Store!Next, ShownSnapshots
<1>7. ASSUME UNCHANGED <<now, kept>> PROVE UNCHANGED StoreVars
  BY <1>1, <1>7 DEF Shown, StoreVars
<1>8. ASSUME \/ MakeRoomForWrite
             \/ \E key \in Key, seq \in 0 .. last_sequence : UpdateStats(key, seq)
             \/ \E level \in 0 .. NumLevels - 2, begin, end \in Key :
                    begin <= end /\ CompactRange(level, begin, end)
             \/ CompactMemTable
             \/ BackgroundCompaction
             \/ ManualCompaction
             \/ FinishCompaction
             \/ UNCHANGED vars
      PROVE  UNCHANGED <<now, kept>>
  BY <1>8 DEF MakeRoomForWrite, UpdateStats, CompactRange, CompactMemTable,
              BackgroundCompaction, ManualCompaction, FinishCompaction, vars, views
<1> QED BY <1>2, <1>4, <1>5, <1>6, <1>7, <1>8 DEF Next

\* Where no store both deletes keys and takes snapshots, the store implements the
\* map with snapshots: tables, levels, flushes and compactions are invisible.
THEOREM LevelStoreSnapshotsKept ==
    ASSUME NoHoles, Tidy
    PROVE  Spec => SnapshotsKept
<1>1. ViewInv => Shown BY ViewShown
<1>2. Init /\ Shown => Store!Init BY StoreInit
<1>3. ViewInv /\ ViewInv' /\ Shown /\ Shown' /\ [Next]_vars => [Store!Next]_StoreVars
  BY StoreStep
<1>4. Spec => Store!Init /\ [][Store!Next]_StoreVars
  BY <1>1, <1>2, <1>3, StoreViews, PTL DEF Spec
<1> QED BY <1>4, PTL DEF SnapshotsKept, Store!Spec, StoreVars, ShownNow, ShownSnapshots
===============================================================================
