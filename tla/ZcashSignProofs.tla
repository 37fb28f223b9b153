-------------------------- MODULE ZcashSignProofs ---------------------------
(***************************************************************************)
(* Proofs about module ZcashSign: types, and that whatever zcash-sign      *)
(* writes is authorised, with any number of spends.                        *)
(*                                                                         *)
(* The argument: the list that is printed has the spends that await a      *)
(* signature, all of them and no others (RandomizersAreAwaiting).  The     *)
(* file is written only after every signature has verified for the spend   *)
(* at its position in that list (AppliedVerify), and every spend that      *)
(* awaited one is at some position.                                        *)
(*                                                                         *)
(* That a list of all of them exists is shown by induction on the length   *)
(* of a bundle.  Lemma Induction provides it for a property given as a     *)
(* set: from the finite sets being well-founded under strict inclusion.    *)
(***************************************************************************)
EXTENDS ZcashSign, FiniteSetTheorems, SequenceTheorems, TLAPS

-----------------------------------------------------------------------------
(* Lists in order.                                                         *)

\* Induction, for a property given as the set of the numbers that have it: of
\* the intervals up to the numbers that lack it, none is least.
LEMMA Induction ==
    ASSUME NEW P, 0 \in P, \A k \in Nat : k \in P => k + 1 \in P, NEW n \in Nat
    PROVE  n \in P
<1> DEFINE T == {0..k : k \in Nat \ P}
<1> SUFFICES ASSUME n \notin P PROVE FALSE
  OBVIOUS
<1>1. T \subseteq FiniteSubsetsOf(Nat)
  <2> SUFFICES ASSUME NEW k \in Nat PROVE 0..k \in FiniteSubsetsOf(Nat)
    OBVIOUS
  <2> QED  BY FS_Interval DEF FiniteSubsetsOf
<1>2. T # {}
  OBVIOUS
<1>3. PICK U \in T : \A V \in T : <<V, U>> \notin StrictSubsetOrdering(Nat)
  <2> HIDE DEF T
  <2> QED  BY <1>1, <1>2, FS_StrictSubsetOrderingWellFounded, WFMin
<1>4. PICK k \in Nat \ P : U = 0..k
  OBVIOUS
<1>5. k # 0 /\ k - 1 \in Nat \ P
  OBVIOUS
<1>6. 0..(k - 1) \in T
  BY <1>5
<1>7. <<0..(k - 1), U>> \in StrictSubsetOrdering(Nat)
  <2>1. 0..(k - 1) \subseteq 0..k /\ k \in 0..k /\ k \notin 0..(k - 1)
    BY <1>5
  <2>2. 0..k \in SUBSET Nat /\ 0..(k - 1) \in SUBSET Nat
    BY <1>5
  <2> QED  BY <1>4, <2>1, <2>2 DEF StrictSubsetOrdering
<1> QED  BY <1>3, <1>6, <1>7

\* What is bounded is finite.
LEMMA BoundedIsFinite ==
    ASSUME NEW n \in Nat, NEW S
    PROVE  /\ IsFiniteSet(S \cap (1..n))
           /\ Cardinality(S \cap (1..n)) \in Nat
           /\ Cardinality(S \cap (1..n)) <= n
           /\ S \in SUBSET (1..n) =>
                 IsFiniteSet(S) /\ Cardinality(S) \in Nat /\ Cardinality(S) <= n
<1>1. IsFiniteSet(1..n) /\ Cardinality(1..n) = n
  BY FS_Interval
<1> DEFINE T == S \cap (1..n)
<1>2. T \in SUBSET (1..n)
  OBVIOUS
<1>3. IsFiniteSet(T) /\ Cardinality(T) <= Cardinality(1..n)
  <2> HIDE DEF T
  <2> QED  BY <1>1, <1>2, FS_Subset
<1>4. Cardinality(T) \in Nat
  BY <1>3, FS_CardinalityType
<1>5. S \in SUBSET (1..n) => T = S
  OBVIOUS
<1> QED  BY <1>1, <1>3, <1>4, <1>5

\* s lists the members of S, each once, the smallest first.
Lists(s, S) ==
    /\ s \in [1..Cardinality(S) -> S]
    /\ \A j, k \in DOMAIN s : j < k => s[j] < s[k]

\* Every bounded set of numbers can be listed in order: a list of the members
\* up to k is one of those up to k + 1, with k + 1 appended if it is a member.
LEMMA ListExists ==
    ASSUME NEW n \in Nat, NEW S \in SUBSET (1..n)
    PROVE  \E s : Lists(s, S)
<1> DEFINE Upto(k) == S \cap (1..k)
           P == {k \in Nat : \E s : Lists(s, Upto(k))}
<1>1. 0 \in P
  <2>1. Upto(0) = {} /\ Cardinality({}) = 0
    BY FS_EmptySet
  <2>2. Lists(<<>>, {})
    BY <2>1 DEF Lists
  <2> QED  BY <2>1, <2>2
<1>2. \A k \in Nat : k \in P => k + 1 \in P
  <2> TAKE k \in Nat
  <2> HAVE k \in P
  <2> SUFFICES \E r : Lists(r, Upto(k + 1))
    OBVIOUS
  <2> PICK s : Lists(s, Upto(k))
    OBVIOUS
  <2>1. IsFiniteSet(Upto(k)) /\ Cardinality(Upto(k)) \in Nat
    <3> HIDE DEF P
    <3> QED  BY BoundedIsFinite
  <2>2. CASE k + 1 \in S
    <3>1. Upto(k + 1) = Upto(k) \cup {k + 1} /\ k + 1 \notin Upto(k)
      BY <2>2
    <3> DEFINE m == Cardinality(Upto(k))
               r == [j \in 1..(m + 1) |-> IF j = m + 1 THEN k + 1 ELSE s[j]]
    <3>2. Cardinality(Upto(k + 1)) = m + 1
      BY <2>1, <3>1, FS_AddElement
    <3>3. \A j \in 1..m : s[j] \in Upto(k)
      BY DEF Lists
    <3>4. \A i, j \in 1..m : i < j => s[i] < s[j]
      BY DEF Lists
    <3> HIDE DEF Upto
    <3>5. r \in [1..(m + 1) -> Upto(k + 1)]
      BY <2>1, <3>1, <3>3
    <3>6. \A i, j \in DOMAIN r : i < j => r[i] < r[j]
      <4> SUFFICES ASSUME NEW i \in 1..(m + 1), NEW j \in 1..(m + 1), i < j
                   PROVE  r[i] < r[j]
        OBVIOUS
      <4>1. CASE j = m + 1
        BY <2>1, <3>3, <4>1 DEF Upto
      <4>2. CASE j # m + 1
        BY <2>1, <3>4, <4>2
      <4> QED  BY <4>1, <4>2
    <3> QED  BY <3>2, <3>5, <3>6 DEF Lists
  <2>3. CASE k + 1 \notin S
    <3>1. Upto(k + 1) = Upto(k)
      BY <2>3
    <3> QED  BY <3>1
  <2> QED  BY <2>2, <2>3
<1>3. n \in P
  <2> HIDE DEF P
  <2> QED  BY <1>1, <1>2, Induction
<1>4. Upto(n) = S
  OBVIOUS
<1> QED  BY <1>3, <1>4

\* The list of a bounded set of numbers is a sequence of exactly its members,
\* which is no longer than the bound.
LEMMA InOrderLists ==
    ASSUME NEW n \in Nat, NEW S \in SUBSET (1..n)
    PROVE  /\ InOrder(S) \in Seq(S)
           /\ DOMAIN InOrder(S) = 1..Len(InOrder(S))
           /\ Len(InOrder(S)) <= n
           /\ \A i \in S : \E j \in 1..Len(InOrder(S)) : InOrder(S)[j] = i
<1> DEFINE m == Cardinality(S)
<1> PICK s : s = InOrder(S)
  OBVIOUS
<1>1. IsFiniteSet(S) /\ m \in Nat /\ m <= n
  BY BoundedIsFinite
<1>2. Lists(s, S)
  <2>1. InOrder(S) = CHOOSE r \in [1..m -> S] :
                        \A j, k \in DOMAIN r : j < k => r[j] < r[k]
    BY DEF InOrder
  <2>2. \E r \in [1..m -> S] : \A j, k \in DOMAIN r : j < k => r[j] < r[k]
    BY ListExists DEF Lists
  <2> QED  BY <2>1, <2>2 DEF Lists
<1>3. s \in Injection(1..m, S)
  <2>1. s \in [1..m -> S]
    BY <1>2 DEF Lists
  <2>2. ASSUME NEW j \in 1..m, NEW k \in 1..m, s[j] = s[k] PROVE j = k
    <3>1. s[j] \in 1..n /\ s[k] \in 1..n
      BY <2>1
    <3>2. j < k => s[j] < s[k]
      BY <1>2, <2>1 DEF Lists
    <3>3. k < j => s[k] < s[j]
      BY <1>2, <2>1 DEF Lists
    <3> QED  BY <1>1, <2>2, <3>1, <3>2, <3>3
  <2> QED  BY <2>1, <2>2 DEF Injection, IsInjective
<1>4. s \in Surjection(1..m, S)
  <2>1. Cardinality(1..m) = m
    BY <1>1, FS_Interval
  <2> QED  BY <1>1, <1>3, <2>1, FS_Injection
<1>5. s \in [1..m -> S] /\ \A i \in S : \E j \in 1..m : s[j] = i
  BY <1>4 DEF Surjection
<1>6. s \in Seq(S) /\ Len(s) = m
  BY <1>1, <1>5
<1> QED  BY <1>1, <1>5, <1>6

-----------------------------------------------------------------------------
(* Flattening the lists of one pool, or of two.                            *)

\* The spends of a v5 transaction are those of its only pool.
LEMMA FlattenOne ==
    ASSUME NEW a
    PROVE  FlattenSeq(<<a>>) = a
<1> DEFINE F(f) ==
               f = [i \in 1..1 |-> IF i = 1 THEN a ELSE f[i - 1] \o <<a>>[i]]
           fl == CHOOSE f : F(f)
<1>1. F([i \in 1..1 |-> a])
  OBVIOUS
<1>2. F(fl)
  <2> HIDE DEF F
  <2> QED  BY <1>1
<1>3. fl[1] = a
  BY <1>2
<1>4. FlattenSeq(<<a>>) = fl[1]
  BY DEF FlattenSeq
<1> QED  BY <1>3, <1>4

\* The place before the second of two is the first.
LEMMA FirstAndSecond == 2 \in 1..2 /\ 2 # 1 /\ 2 - 1 = 1
  OBVIOUS

\* The recursion that flattens two lists, unfolded.
LEMMA FlattenSteps ==
    ASSUME NEW q, NEW g, NEW f,
           f = [i \in 1..2 |-> IF i = 1 THEN q[i] ELSE g[i - 1] \o q[i]]
    PROVE  f[1] = q[1] /\ f[2] = g[1] \o q[2]
<1>1. f[1] = q[1]
  OBVIOUS
<1>2. f[2] = g[2 - 1] \o q[2]
  BY FirstAndSecond, ZenonT(60)
<1> QED  BY <1>1, <1>2, FirstAndSecond, Zenon

\* The spends of a v6 transaction are those of one pool, then those of the
\* other.
LEMMA FlattenTwo ==
    ASSUME NEW a, NEW b
    PROVE  FlattenSeq(<<a, b>>) = a \o b
<1> PICK q : q = <<a, b>>
  OBVIOUS
<1> DEFINE F(f) ==
               f = [i \in 1..Len(q) |->
                       IF i = 1 THEN q[i] ELSE f[i - 1] \o q[i]]
           fl == CHOOSE f : F(f)
<1>1. Len(q) = 2 /\ q[1] = a /\ q[2] = b
  OBVIOUS
<1>2. F([i \in 1..2 |-> IF i = 1 THEN a ELSE a \o b])
  BY <1>1
<1>3. F(fl)
  <2> HIDE DEF F
  <2> QED  BY <1>2
<1>4. /\ fl[1] = q[1]
      /\ fl[2] = fl[1] \o q[2]
  <2> HIDE DEF fl
  <2>1. fl = [i \in 1..2 |-> IF i = 1 THEN q[i] ELSE fl[i - 1] \o q[i]]
    BY <1>1, <1>3
  <2> QED  BY <2>1, FlattenSteps
<1>5. FlattenSeq(q) = fl[2]
  BY <1>1 DEF FlattenSeq
<1> QED  BY <1>1, <1>4, <1>5

-----------------------------------------------------------------------------
(* The randomizers that are printed.                                       *)

\* Spend a of the input awaits a signature and carries its alpha.
IsAwaiting(a) ==
    /\ a \in Alphas
    /\ a[2] \in DOMAIN input.bundles[a[1]]
    /\ input.bundles[a[1]][a[2]] = Awaiting

\* The randomizers of a bundle, tagged with its pool.
Tagged(pool, bundle) ==
    LET found == CollectRandomizers(bundle)
    IN  [j \in DOMAIN found |-> <<pool, found[j]>>]

\* The randomizers found in a bundle are those of its spends that await a
\* signature: none is left out, none made up (collect_randomizers).
LEMMA TaggedAreAwaiting ==
    ASSUME NEW pool \in Pools, NEW bundle \in BoundedSeq(Actions, MaxActions)
    PROVE  /\ Tagged(pool, bundle) \in Seq(Alphas)
           /\ Len(Tagged(pool, bundle)) <= MaxActions
           /\ \A j \in 1..Len(Tagged(pool, bundle)) :
                 \E i \in DOMAIN bundle :
                    /\ bundle[i] = Awaiting
                    /\ Tagged(pool, bundle)[j] = <<pool, i>>
           /\ \A i \in DOMAIN bundle :
                 bundle[i] = Awaiting =>
                    \E j \in 1..Len(Tagged(pool, bundle)) :
                       Tagged(pool, bundle)[j] = <<pool, i>>
<1> PICK n \in 0..MaxActions : bundle \in [1..n -> Actions]
  BY DEF BoundedSeq, SeqOf
<1> DEFINE S == {i \in DOMAIN bundle : bundle[i] = Awaiting}
<1> PICK found : found = CollectRandomizers(bundle)
  OBVIOUS
<1>1. n \in Nat /\ n <= MaxActions /\ MaxActions \in Nat
  BY ZcashBoundsAssumption
<1>2. S \in SUBSET (1..n)
  OBVIOUS
<1>3. /\ found \in Seq(S)
      /\ DOMAIN found = 1..Len(found)
      /\ Len(found) <= n
      /\ \A i \in S : \E j \in 1..Len(found) : found[j] = i
  <2>1. found = InOrder(S)
    BY DEF CollectRandomizers
  <2> HIDE DEF S
  <2> QED  BY <1>1, <1>2, <2>1, InOrderLists
<1> PICK t : t = Tagged(pool, bundle)
  OBVIOUS
<1>4. t = [j \in 1..Len(found) |-> <<pool, found[j]>>]
  BY <1>3 DEF Tagged
<1>5. Len(found) \in Nat /\ \A j \in 1..Len(found) : found[j] \in S
  <2> HIDE DEF S
  <2> QED  BY <1>3
<1>6. \A j \in 1..Len(found) : <<pool, found[j]>> \in Alphas
  BY <1>1, <1>5 DEF Alphas
<1>7. t \in Seq(Alphas) /\ Len(t) = Len(found)
  <2> HIDE DEF S
  <2> QED  BY <1>4, <1>5, <1>6
<1>8. Len(t) <= MaxActions
  BY <1>1, <1>3, <1>5, <1>7
<1> QED  BY <1>3, <1>4, <1>5, <1>7, <1>8

\* The lists of the pools that a version has, one after the other.
LEMMA RandomizersByPool ==
    Randomizers =
        IF input.version = "V6"
        THEN Tagged("Orchard", input.bundles["Orchard"])
                \o Tagged("Ironwood", input.bundles["Ironwood"])
        ELSE Tagged("Orchard", input.bundles["Orchard"])
<1> PICK bs : bs = input.bundles
  OBVIOUS
<1> PICK a : a = Tagged("Orchard", bs["Orchard"])
  OBVIOUS
<1> PICK b : b = Tagged("Ironwood", bs["Ironwood"])
  OBVIOUS
<1>1. CASE input.version = "V6"
  <2> DEFINE pools == <<"Orchard", "Ironwood">>
  <2>1. [k \in DOMAIN pools |-> Tagged(pools[k], bs[pools[k]])] = <<a, b>>
    OBVIOUS
  <2>2. Randomizers = FlattenSeq(<<a, b>>)
    BY <1>1, <2>1 DEF Randomizers, PoolsFor, Tagged
  <2> QED  BY <1>1, <2>2, FlattenTwo
<1>2. CASE input.version # "V6"
  <2> DEFINE pools == <<"Orchard">>
  <2>1. [k \in DOMAIN pools |-> Tagged(pools[k], bs[pools[k]])] = <<a>>
    OBVIOUS
  <2>2. Randomizers = FlattenSeq(<<a>>)
    BY <1>2, <2>1 DEF Randomizers, PoolsFor, Tagged
  <2> QED  BY <1>2, <2>2, FlattenOne
<1> QED  BY <1>1, <1>2

\* A PCZT that is supported is one of the PCZTs, and has a hash.
LEMMA SupportedIsPczt ==
    ASSUME input \in Pczts \cup Others, Supported
    PROVE  /\ input \in Pczts
           /\ Sighash = RequiredSighash
           /\ Sighash \in Hashes
<1>1. input \in Pczts
  BY DEF Supported, Pczts, Others
<1>2. Sighash = RequiredSighash /\ Sighash \in {"v5", "v6"}
  BY <1>1 DEF Supported, Sighash, SighashForPczt, RequiredSighash, Pczts
<1> QED  BY <1>1, <1>2 DEF Hashes

\* The randomizers printed are those of the spends that await a signature, of
\* both pools: none is left out, none made up.
LEMMA RandomizersAreAwaiting ==
    ASSUME input \in Pczts
    PROVE  /\ Randomizers \in Seq(Alphas)
           /\ Len(Randomizers) <= 2 * MaxActions
           /\ \A k \in 1..Len(Randomizers) : IsAwaiting(Randomizers[k])
           /\ \A a \in Alphas :
                 IsAwaiting(a) =>
                    \E k \in 1..Len(Randomizers) : Randomizers[k] = a
<1> PICK bs : bs = input.bundles
  OBVIOUS
<1> PICK rs : rs = Randomizers
  OBVIOUS
<1> PICK o : o = Tagged("Orchard", bs["Orchard"])
  OBVIOUS
<1> PICK w : w = Tagged("Ironwood", bs["Ironwood"])
  OBVIOUS
<1>1. /\ bs \in [Pools -> BoundedSeq(Actions, MaxActions)]
      /\ input.version # "V6" => bs["Ironwood"] = <<>>
  BY DEF Pczts
<1>2. MaxActions \in Nat /\ "Orchard" \in Pools /\ "Ironwood" \in Pools
  BY ZcashBoundsAssumption DEF Pools
<1>3. /\ o \in Seq(Alphas) /\ Len(o) <= MaxActions
      /\ \A j \in 1..Len(o) : \E i \in DOMAIN bs["Orchard"] :
            bs["Orchard"][i] = Awaiting /\ o[j] = <<"Orchard", i>>
      /\ \A i \in DOMAIN bs["Orchard"] : bs["Orchard"][i] = Awaiting =>
            \E j \in 1..Len(o) : o[j] = <<"Orchard", i>>
  <2> PICK b : b = bs["Orchard"]
    OBVIOUS
  <2>1. b \in BoundedSeq(Actions, MaxActions)
    BY <1>1, <1>2
  <2>2. /\ Tagged("Orchard", b) \in Seq(Alphas)
        /\ Len(Tagged("Orchard", b)) <= MaxActions
        /\ \A j \in 1..Len(Tagged("Orchard", b)) : \E i \in DOMAIN b :
              b[i] = Awaiting /\ Tagged("Orchard", b)[j] = <<"Orchard", i>>
        /\ \A i \in DOMAIN b : b[i] = Awaiting =>
              \E j \in 1..Len(Tagged("Orchard", b)) :
                 Tagged("Orchard", b)[j] = <<"Orchard", i>>
    BY <1>2, <2>1, TaggedAreAwaiting
  <2> QED  BY <2>2
<1>4. /\ w \in Seq(Alphas) /\ Len(w) <= MaxActions
      /\ \A j \in 1..Len(w) : \E i \in DOMAIN bs["Ironwood"] :
            bs["Ironwood"][i] = Awaiting /\ w[j] = <<"Ironwood", i>>
      /\ \A i \in DOMAIN bs["Ironwood"] : bs["Ironwood"][i] = Awaiting =>
            \E j \in 1..Len(w) : w[j] = <<"Ironwood", i>>
  <2> PICK b : b = bs["Ironwood"]
    OBVIOUS
  <2>1. b \in BoundedSeq(Actions, MaxActions)
    BY <1>1, <1>2
  <2>2. /\ Tagged("Ironwood", b) \in Seq(Alphas)
        /\ Len(Tagged("Ironwood", b)) <= MaxActions
        /\ \A j \in 1..Len(Tagged("Ironwood", b)) : \E i \in DOMAIN b :
              b[i] = Awaiting /\ Tagged("Ironwood", b)[j] = <<"Ironwood", i>>
        /\ \A i \in DOMAIN b : b[i] = Awaiting =>
              \E j \in 1..Len(Tagged("Ironwood", b)) :
                 Tagged("Ironwood", b)[j] = <<"Ironwood", i>>
    BY <1>2, <2>1, TaggedAreAwaiting
  <2> QED  BY <2>2
<1>5. \A j \in 1..Len(o) : IsAwaiting(o[j])
  BY <1>3 DEF IsAwaiting
<1>6. \A j \in 1..Len(w) : IsAwaiting(w[j])
  BY <1>4 DEF IsAwaiting
<1>7. ASSUME NEW a \in Alphas, IsAwaiting(a)
      PROVE  \/ \E j \in 1..Len(o) : o[j] = a
             \/ \E j \in 1..Len(w) : w[j] = a
  <2> PICK pool \in Pools, i \in 1..MaxActions : a = <<pool, i>>
    BY DEF Alphas
  <2>1. i \in DOMAIN bs[pool] /\ bs[pool][i] = Awaiting
    BY <1>7 DEF IsAwaiting
  <2>2. CASE pool = "Orchard"
    BY <1>3, <2>1, <2>2
  <2>3. CASE pool = "Ironwood"
    BY <1>4, <2>1, <2>3
  <2> QED  BY <2>2, <2>3 DEF Pools
<1>8. CASE input.version = "V6"
  <2>1. rs = o \o w
    BY <1>8, RandomizersByPool
  <2>2. /\ rs \in Seq(Alphas)
        /\ Len(rs) = Len(o) + Len(w)
        /\ \A k \in 1..Len(rs) :
              rs[k] = IF k <= Len(o) THEN o[k] ELSE w[k - Len(o)]
    BY <1>3, <1>4, <2>1
  <2>3. \A k \in 1..Len(rs) : IsAwaiting(rs[k])
    <3> TAKE k \in 1..Len(rs)
    <3>1. CASE k <= Len(o)
      BY <1>3, <1>5, <2>2, <3>1
    <3>2. CASE ~(k <= Len(o))
      <4>1. k - Len(o) \in 1..Len(w)
        BY <1>3, <1>4, <2>2, <3>2
      <4> QED  BY <1>6, <2>2, <3>2, <4>1
    <3> QED  BY <3>1, <3>2
  <2>4. \A j \in 1..Len(o) : j \in 1..Len(rs) /\ rs[j] = o[j]
    BY <1>3, <1>4, <2>2
  <2>5. \A j \in 1..Len(w) :
            Len(o) + j \in 1..Len(rs) /\ rs[Len(o) + j] = w[j]
    <3> TAKE j \in 1..Len(w)
    <3>1. Len(o) \in Nat /\ Len(w) \in Nat
      BY <1>3, <1>4
    <3> PICK k : k = Len(o) + j
      OBVIOUS
    <3>2. k \in 1..Len(rs) /\ ~(k <= Len(o)) /\ k - Len(o) = j
      BY <2>2, <3>1
    <3> QED  BY <2>2, <3>2
  <2>6. \A a \in Alphas :
            IsAwaiting(a) => \E k \in 1..Len(rs) : rs[k] = a
    BY <1>7, <2>4, <2>5, SMTT(30)
  <2>7. Len(rs) <= 2 * MaxActions
    BY <1>2, <1>3, <1>4, <2>2
  <2> QED  BY <2>2, <2>3, <2>6, <2>7
<1>9. CASE input.version # "V6"
  <2>1. rs = o
    BY <1>9, RandomizersByPool
  <2>2. \A j \in 1..Len(w) : FALSE
    BY <1>1, <1>4, <1>9
  <2>3. Len(rs) <= 2 * MaxActions
    BY <1>2, <1>3, <2>1
  <2> QED  BY <1>3, <1>5, <1>7, <2>1, <2>2, <2>3
<1> QED  BY <1>8, <1>9

-----------------------------------------------------------------------------
(* The invariant.                                                          *)

\* The records that the zcash-sign process is kept in.
Processes ==
    [pc : {"idle", "prompt", "write", "done", "failed", "rejected"},
     randomizers : Seq(Alphas), signatures : Seq(Signatures)]

\* The zcash-sign process z is one of the states that TypeOK allows.
ProcessTyped(z) ==
    /\ z \in Processes
    /\ Len(z.signatures) <= Len(z.randomizers)
    /\ Len(z.randomizers) <= 2 * MaxActions

\* The records that the coordinator's command is kept in.
Commands ==
    [pc : {"none", "signing", "output"}, want : Seq(Alphas),
     messages : Seq(Hashes), randomizers : Seq(Alphas),
     signatures : Seq(Signatures), written : 0..MaxCount]

\* The coordinator's command c is one of the states that TypeOK allows.  One
\* that signs has messages, and a randomizer for each or none at all; one that
\* writes its signatures has some left to write, and not too many.
CommandTyped(c) ==
    /\ c \in Commands
    /\ Len(c.messages) <= MaxCount
    /\ c.pc = "signing" =>
          /\ Len(c.messages) > 0
          /\ Len(c.randomizers) \in {0, Len(c.messages)}
          /\ c.written = 0
    /\ c.pc = "output" =>
          /\ c.written < Len(c.signatures)
          /\ Len(c.signatures) <= MaxCount

\* What the user has noted.
Noted == [Alphas -> Signatures \cup {NoSig}]

\* Process z prompts for, or writes, only what is supported, and its
\* randomizers are those of the spends that await a signature.
PromptOK(z) ==
    z.pc \in {"prompt", "write"} =>
        /\ Supported
        /\ \A k \in 1..Len(z.randomizers) : IsAwaiting(z.randomizers[k])
        /\ \A a \in Alphas :
              IsAwaiting(a) =>
                 \E k \in 1..Len(z.randomizers) : z.randomizers[k] = a

\* Every signature of z is one of the hash, for the randomizer at its position.
AllVerify(z) ==
    \A k \in 1..Len(z.randomizers) :
        z.signatures[k] = [sighash |-> Sighash, alpha |-> z.randomizers[k]]

\* Process z writes only what has verified.
WriteOK(z) == z.pc = "write" => AllVerify(z)

SignInv ==
    /\ input \in Pczts \cup Others
    /\ ProcessTyped(zs)
    /\ tx \in {None, Half} \/ DOMAIN tx = Pools
    /\ CommandTyped(cmd)
    /\ notes \in Noted
    /\ faults \in 0..MaxFaults
    /\ PromptOK(zs)
    /\ WriteOK(zs)
    /\ SpendsAuthorised

-----------------------------------------------------------------------------
(* What is applied and written.                                            *)

\* Pass 2 verifies every signature, those of both pools, each for the spend
\* that its randomizer is of.
LEMMA AppliedVerify ==
    ASSUME SignInv, zs.pc = "prompt", ApplyOk
    PROVE  AllVerify(zs)
<1> PICK rs : rs = zs.randomizers
  OBVIOUS
<1>1. input \in Pczts
  BY SupportedIsPczt DEF SignInv, PromptOK
<1> SUFFICES ASSUME NEW k \in 1..Len(rs)
             PROVE  zs.signatures[k] = [sighash |-> Sighash, alpha |-> rs[k]]
  BY DEF AllVerify
<1>2. rs \in Seq(Alphas) /\ k \in DOMAIN rs
  BY DEF SignInv, ProcessTyped, Processes
<1>3. IsAwaiting(rs[k])
  BY DEF SignInv, PromptOK
<1> PICK pool \in Pools, i \in 1..MaxActions : rs[k] = <<pool, i>>
  BY <1>2 DEF Alphas
<1>4. i \in DOMAIN input.bundles[pool]
  BY <1>3 DEF IsAwaiting
<1>5. \E j \in DOMAIN PoolsFor(input.version) :
          PoolsFor(input.version)[j] = pool
  <2>1. CASE input.version = "V6"
    <3>1. PoolsFor(input.version) = <<"Orchard", "Ironwood">>
      BY <2>1 DEF PoolsFor
    <3>2. 1 \in DOMAIN PoolsFor(input.version)
          /\ 2 \in DOMAIN PoolsFor(input.version)
      BY <3>1
    <3>3. CASE pool = "Orchard"
      BY <3>1, <3>2, <3>3
    <3>4. CASE pool = "Ironwood"
      BY <3>1, <3>2, <3>4
    <3> QED  BY <3>3, <3>4 DEF Pools
  <2>2. CASE input.version # "V6"
    <3>1. PoolsFor(input.version) = <<"Orchard">>
      BY <2>2 DEF PoolsFor
    <3>2. pool # "Ironwood"
      BY <1>1, <1>4, <2>2 DEF Pczts
    <3>3. pool = "Orchard"
      BY <3>2 DEF Pools
    <3>4. 1 \in DOMAIN PoolsFor(input.version)
      BY <3>1
    <3> QED  BY <3>1, <3>3, <3>4
  <2> QED  BY <2>1, <2>2
<1>6. k \in ForPool(pool)
  BY <1>2 DEF ForPool
<1>7. Verifies(zs.signatures[k], pool, rs[k][2])
  BY <1>5, <1>6 DEF ApplyOk
<1> QED  BY <1>7 DEF Verifies

\* The bundles t carry, for every spend that awaited a signature, one of the
\* hash demanded with its own randomizer, and are otherwise unchanged.
Authorised(t) ==
    \A pool \in Pools : \A i \in DOMAIN input.bundles[pool] :
        t[pool][i] =
            IF input.bundles[pool][i] = Awaiting
            THEN [alpha |-> TRUE,
                  sig   |-> [sighash |-> RequiredSighash, alpha |-> <<pool, i>>]]
            ELSE input.bundles[pool][i]

\* What is written is authorised.
LEMMA SignedIsAuthorised ==
    ASSUME SignInv, zs.pc = "write"
    PROVE  Authorised(Signed) /\ DOMAIN Signed = Pools
<1> PICK rs : rs = zs.randomizers
  OBVIOUS
<1>1. input \in Pczts /\ Sighash = RequiredSighash
  BY SupportedIsPczt DEF SignInv, PromptOK
<1>2. rs \in Seq(Alphas) /\ DOMAIN rs = 1..Len(rs)
  BY DEF SignInv, ProcessTyped, Processes
<1>3. AllVerify(zs)
  BY DEF SignInv, WriteOK
<1> SUFFICES ASSUME NEW pool \in Pools, NEW i \in DOMAIN input.bundles[pool]
             PROVE  Signed[pool][i] =
                IF input.bundles[pool][i] = Awaiting
                THEN [alpha |-> TRUE,
                      sig   |-> [sighash |-> RequiredSighash,
                                 alpha |-> <<pool, i>>]]
                ELSE input.bundles[pool][i]
  BY DEF Authorised, Signed
<1>4. <<pool, i>> \in Alphas
  <2> PICK n \in 0..MaxActions : input.bundles[pool] \in [1..n -> Actions]
    BY <1>1 DEF Pczts, BoundedSeq, SeqOf
  <2> QED  BY ZcashBoundsAssumption DEF Alphas
<1>5. <<pool, i>> \in Range(rs) <=> input.bundles[pool][i] = Awaiting
  <2>1. <<pool, i>> \in Range(rs) <=> \E k \in 1..Len(rs) : rs[k] = <<pool, i>>
    BY <1>2 DEF Range
  <2>2. IsAwaiting(<<pool, i>>) <=> input.bundles[pool][i] = Awaiting
    BY <1>4 DEF IsAwaiting
  <2>3. (\E k \in 1..Len(rs) : rs[k] = <<pool, i>>) => IsAwaiting(<<pool, i>>)
    BY DEF SignInv, PromptOK
  <2>4. IsAwaiting(<<pool, i>>) => \E k \in 1..Len(rs) : rs[k] = <<pool, i>>
    BY <1>4 DEF SignInv, PromptOK
  <2> QED  BY <2>1, <2>2, <2>3, <2>4
<1>6. CASE input.bundles[pool][i] = Awaiting
  <2> DEFINE k == CHOOSE k \in DOMAIN rs : rs[k] = <<pool, i>>
  <2>1. k \in DOMAIN rs /\ rs[k] = <<pool, i>>
    BY <1>5, <1>6 DEF Range
  <2>2. zs.signatures[k] = [sighash |-> Sighash, alpha |-> <<pool, i>>]
    BY <1>2, <1>3, <2>1 DEF AllVerify
  <2>3. Signed[pool][i] = [input.bundles[pool][i] EXCEPT !.sig = zs.signatures[k]]
    BY <1>5, <1>6 DEF Signed
  <2>4. ASSUME NEW sig
        PROVE  [Awaiting EXCEPT !.sig = sig] = [alpha |-> TRUE, sig |-> sig]
    <3>1. ASSUME NEW b
          PROVE  [[alpha |-> b, sig |-> NoSig] EXCEPT !.sig = sig]
                    = [alpha |-> b, sig |-> sig]
      OBVIOUS
    <3> QED  BY <3>1 DEF Awaiting
  <2>5. Signed[pool][i] = [alpha |-> TRUE, sig |-> zs.signatures[k]]
    BY <1>6, <2>3, <2>4
  <2> HIDE DEF k
  <2> QED  BY <1>1, <1>6, <2>2, <2>5
<1>7. CASE input.bundles[pool][i] # Awaiting
  BY <1>5, <1>7 DEF Signed
<1> QED  BY <1>6, <1>7

-----------------------------------------------------------------------------
(* What the user asks for and takes down.                                  *)

\* A place in the first part of a list is a place in the list.
LEMMA Earlier ==
    ASSUME NEW l \in Nat, NEW m \in Nat, m <= l, NEW i \in 1..m
    PROVE  i \in 1..l
  OBVIOUS

\* The first elements of a sequence, as many as n, are a sequence.
LEMMA PrefixTyped ==
    ASSUME NEW S, NEW s \in Seq(S), NEW n \in Nat
    PROVE  SubSeq(s, 1, IF Len(s) <= n THEN Len(s) ELSE n) \in Seq(S)
<1>0. Len(s) \in Nat
  BY LenProperties
<1>1. \A i \in 1..Len(s) : s[i] \in S
  BY ElementOfSeq
<1>2. ASSUME NEW m \in Nat, m <= Len(s)
      PROVE  SubSeq(s, 1, m) \in Seq(S)
  <2>1. m \in Int /\ 1 \in Int
    BY <1>2
  <2>2. ASSUME NEW i \in 1..m PROVE s[i] \in S
    <3>1. i \in 1..Len(s)
      BY <1>0, <1>2, Earlier, ZenonT(60)
    <3> QED  BY <1>1, <3>1
  <2> QED  BY <2>1, <2>2, SubSeqProperties
<1> QED  BY <1>0, <1>2

\* The randomizers without a signature are some of those printed.
LEMMA MissingTyped ==
    ASSUME SignInv
    PROVE  Missing \in Seq(Alphas)
<1> PICK rs : rs = zs.randomizers
  OBVIOUS
<1>1. rs \in Seq(Alphas) /\ Len(rs) \in Nat /\ DOMAIN rs = 1..Len(rs)
  BY DEF SignInv, ProcessTyped, Processes
<1> DEFINE S == {k \in DOMAIN rs : notes[rs[k]] = NoSig}
<1> PICK left : left = InOrder(S)
  OBVIOUS
<1>2. S \in SUBSET (1..Len(rs))
  BY <1>1
<1>3. left \in Seq(S) /\ DOMAIN left = 1..Len(left)
  <2> HIDE DEF S
  <2> QED  BY <1>1, <1>2, InOrderLists
<1> PICK all : all = [j \in DOMAIN left |-> rs[left[j]]]
  OBVIOUS
<1>4. Len(left) \in Nat /\ \A j \in 1..Len(left) : left[j] \in S
  <2> HIDE DEF S
  <2> QED  BY <1>3
<1>5. \A j \in 1..Len(left) : rs[left[j]] \in Alphas
  <2>1. \A k \in S : rs[k] \in Alphas
    BY <1>1
  <2> HIDE DEF S
  <2> QED  BY <1>4, <2>1
<1>6. all \in Seq(Alphas)
  <2> HIDE DEF S
  <2> QED  BY <1>3, <1>4, <1>5
<1>7. Missing = SubSeq(all, 1, IF Len(all) <= MaxCount
                                  THEN Len(all) ELSE MaxCount)
  BY DEF Missing
<1>8. MaxCount \in Nat
  BY ZcashBoundsAssumption
<1> QED  BY <1>6, <1>7, <1>8, PrefixTyped

\* A command that has failed, or ended, is typed.
LEMMA NoProcessTyped == CommandTyped(NoProcess)
<1>1. NoProcess \in Commands
  BY ZcashBoundsAssumption DEF NoProcess, Commands
<1> QED  BY <1>1, ZcashBoundsAssumption DEF CommandTyped, Commands, NoProcess

\* A command that is started is typed, and nothing else changes.
LEMMA StartTyped ==
    ASSUME SignInv, NEW want \in Seq(Alphas), NEW messages \in Seq(Hashes),
           NEW randomizers \in Seq(Alphas), NEW outputs,
           StartCommand(want, messages, randomizers, outputs)
    PROVE  CommandTyped(cmd')
<1> PICK ms : ms = ReadMessages(messages)
  OBVIOUS
<1>1. Sighash \in Hashes
  BY SupportedIsPczt DEF SignInv, PromptOK, StartCommand
<1>2. ms \in Seq(Hashes) /\ Len(ms) \in Nat /\ Len(ms) > 0
  <2>1. CASE messages = <<>>
    <3>1. ms = <<Sighash>>
      BY <2>1 DEF ReadMessages
    <3> QED  BY <1>1, <3>1
  <2>2. CASE messages # <<>>
    <3>1. ms = messages
      BY <2>2 DEF ReadMessages
    <3> QED  BY <2>2, <3>1, EmptySeq
  <2> QED  BY <2>1, <2>2
<1>5. CASE ~CommandOk(ms, randomizers, outputs)
  BY <1>5, NoProcessTyped DEF StartCommand
<1>6. CASE CommandOk(ms, randomizers, outputs)
  <2> DEFINE c == [pc |-> "signing", want |-> want, messages |-> ms,
                   randomizers |-> randomizers, signatures |-> <<>>,
                   written |-> 0]
  <2>1. cmd' = c
    <3>1. cmd' = [NoProcess EXCEPT !.pc = "signing", !.want = want,
                       !.messages = ms, !.randomizers = randomizers]
      BY <1>6 DEF StartCommand
    <3> QED  BY <3>1 DEF NoProcess
  <2>2. /\ c.pc = "signing" /\ c.messages = ms
        /\ c.randomizers = randomizers /\ c.written = 0
        /\ c \in Commands
    BY <1>2, ZcashBoundsAssumption DEF NoProcess, Commands
  <2>3. Len(ms) <= MaxCount /\ Len(randomizers) \in {0, Len(ms)}
    BY <1>6 DEF CommandOk, OutputsFit, RandomizersFit, CountFits
  <2> HIDE DEF c
  <2> QED  BY <1>2, <2>1, <2>2, <2>3 DEF CommandTyped, Commands
<1> QED  BY <1>5, <1>6

\* The signatures are as many as the messages.
LEMMA SignTyped ==
    ASSUME SignInv, Sign
    PROVE  CommandTyped(cmd')
<1> PICK ms : ms = cmd.messages
  OBVIOUS
<1> PICK rs : rs = cmd.randomizers
  OBVIOUS
<1> PICK sigs : sigs = Aggregated(ms, rs)
  OBVIOUS
<1>1. /\ ms \in Seq(Hashes) /\ Len(ms) \in Nat /\ Len(ms) > 0
      /\ Len(ms) <= MaxCount
      /\ rs \in Seq(Alphas) /\ Len(rs) \in {0, Len(ms)}
  BY DEF SignInv, CommandTyped, Commands, Sign
<1>2. \A i \in 1..Len(ms) :
          [sighash |-> ms[i], alpha |-> IF rs = <<>> THEN None ELSE rs[i]]
             \in Signatures
  <2> TAKE i \in 1..Len(ms)
  <2>1. ms[i] \in Hashes
    BY <1>1
  <2>2. rs # <<>> => rs[i] \in Alphas
    BY <1>1, EmptySeq
  <2> QED  BY <2>1, <2>2 DEF Signatures
<1>3. sigs \in Seq(Signatures) /\ Len(sigs) = Len(ms)
  BY <1>1, <1>2 DEF Aggregated
<1> DEFINE c == [cmd EXCEPT !.pc = "output", !.signatures = sigs]
<1>4. cmd' = c
  BY DEF Sign
<1>5. cmd \in Commands
      /\ cmd.written = 0
  BY DEF SignInv, CommandTyped, Commands, Sign
<1>6. /\ c.pc = "output" /\ c.signatures = sigs /\ c.messages = ms
      /\ c.written = 0
      /\ c \in Commands
  BY <1>3, <1>5 DEF Commands
<1> HIDE DEF c
<1> QED  BY <1>1, <1>3, <1>4, <1>6 DEF CommandTyped, Commands

\* One signature is written at a time, and the command ends after the last.
LEMMA OutputTyped ==
    ASSUME SignInv, Output
    PROVE  CommandTyped(cmd') /\ notes' \in Noted
<1> PICK i : i = cmd.written + 1
  OBVIOUS
<1> PICK sigs : sigs = cmd.signatures
  OBVIOUS
<1> PICK want : want = cmd.want
  OBVIOUS
<1>1. cmd \in Commands
      /\ cmd.pc = "output"
      /\ cmd.written < Len(sigs) /\ Len(sigs) <= MaxCount
      /\ Len(cmd.messages) <= MaxCount
  BY DEF SignInv, CommandTyped, Commands, Output
<1>2. sigs \in Seq(Signatures) /\ i \in 1..Len(sigs) /\ i \in 0..MaxCount
  BY <1>1, ZcashBoundsAssumption DEF Commands
<1>3. notes' \in Noted
  <2>1. sigs[i] \in Signatures
    BY <1>2
  <2>2. notes' = IF i \in DOMAIN want THEN [notes EXCEPT ![want[i]] = sigs[i]]
                 ELSE notes
    BY DEF Output
  <2> QED  BY <2>1, <2>2 DEF SignInv, Noted
<1>4. CommandTyped(cmd')
  <2>1. CASE i = Len(sigs)
    BY <2>1, NoProcessTyped DEF Output
  <2>2. CASE i # Len(sigs)
    <3> DEFINE c == [cmd EXCEPT !.written = i]
    <3>1. cmd' = c
      BY <2>2 DEF Output
    <3>2. /\ c.pc = "output" /\ c.signatures = sigs
          /\ c.messages = cmd.messages /\ c.written = i
          /\ c \in Commands
      BY <1>1, <1>2 DEF Commands
    <3>3. i < Len(sigs)
      BY <1>2, <2>2
    <3> HIDE DEF c
    <3> QED  BY <1>1, <3>1, <3>2, <3>3 DEF CommandTyped, Commands
  <2> QED  BY <2>1, <2>2
<1> QED  BY <1>3, <1>4

-----------------------------------------------------------------------------
(* The invariant is preserved.                                             *)

\* Starting without anything.
LEMMA InitSignInv == Init => SignInv
<1> SUFFICES ASSUME Init PROVE SignInv
  OBVIOUS
<1>1. ProcessTyped(zs) /\ PromptOK(zs) /\ WriteOK(zs)
  <2>1. /\ zs.pc = "idle" /\ zs.randomizers = <<>> /\ zs.signatures = <<>>
        /\ zs \in Processes
    BY DEF Init, Processes
  <2> QED  BY <2>1, ZcashBoundsAssumption DEF ProcessTyped, PromptOK, WriteOK
<1>2. CommandTyped(cmd)
  BY NoProcessTyped DEF Init
<1>3. notes \in Noted /\ faults \in 0..MaxFaults
  BY ZcashBoundsAssumption DEF Init, Noted
<1> QED  BY <1>1, <1>2, <1>3 DEF Init, SignInv, SpendsAuthorised

\* The command, the user's notes and the count of faults do not disturb what
\* zcash-sign relies on.
LEMMA ProcessKept ==
    ASSUME SignInv, UNCHANGED <<input, zs, tx>>,
           CommandTyped(cmd'), notes' \in Noted, faults' \in 0..MaxFaults
    PROVE  SignInv'
<1>1. PromptOK(zs)'
  BY DEF SignInv, PromptOK, IsAwaiting, Supported
<1>2. WriteOK(zs)'
  BY DEF SignInv, WriteOK, AllVerify, Sighash
<1>3. SpendsAuthorised'
  BY DEF SignInv, SpendsAuthorised, RequiredSighash
<1>4. ProcessTyped(zs)' /\ CommandTyped(cmd)'
  BY DEF SignInv, ProcessTyped, Processes, CommandTyped, Commands
<1> QED  BY <1>1, <1>2, <1>3, <1>4 DEF SignInv, Noted

\* A step of zcash-sign that writes no file has to keep what it relies on.
LEMMA CommandKept ==
    ASSUME SignInv, UNCHANGED <<input, cmd>>, tx' \in {tx, Half},
           ProcessTyped(zs'), PromptOK(zs'), WriteOK(zs'),
           notes' \in Noted, faults' \in 0..MaxFaults
    PROVE  SignInv'
<1>1. PromptOK(zs)'
  BY DEF PromptOK, IsAwaiting, Supported
<1>2. WriteOK(zs)'
  BY DEF WriteOK, AllVerify, Sighash
<1>3. SpendsAuthorised'
  BY DEF SignInv, SpendsAuthorised, RequiredSighash
<1> QED  BY <1>1, <1>2, <1>3 DEF SignInv, ProcessTyped, Processes, CommandTyped,
            Commands, Noted

\* zcash-sign may go on or give up at any time.
LEMMA FailedKept ==
    ASSUME SignInv, NEW pc \in {"done", "failed", "rejected"},
           zs' = [zs EXCEPT !.pc = pc]
    PROVE  ProcessTyped(zs') /\ PromptOK(zs') /\ WriteOK(zs')
<1>1. zs'.pc = pc /\ zs'.randomizers = zs.randomizers
      /\ zs'.signatures = zs.signatures
      /\ zs' \in Processes
  BY DEF SignInv, ProcessTyped, Processes
<1> QED  BY <1>1 DEF SignInv, ProcessTyped, Processes, PromptOK, WriteOK

\* A file is opened: the randomizers are those of its spends.
LEMMA OpenSignInv ==
    ASSUME SignInv, Open
    PROVE  SignInv'
<1>1. CASE Supported
  <2>1. input \in Pczts
    BY <1>1, SupportedIsPczt DEF SignInv
  <2> PICK rs : rs = Randomizers
    OBVIOUS
  <2>2. /\ rs \in Seq(Alphas) /\ Len(rs) <= 2 * MaxActions
        /\ \A k \in 1..Len(rs) : IsAwaiting(rs[k])
        /\ \A a \in Alphas :
              IsAwaiting(a) => \E k \in 1..Len(rs) : rs[k] = a
    BY <2>1, RandomizersAreAwaiting
  <2>3. zs' = [pc |-> "prompt", randomizers |-> rs, signatures |-> <<>>]
    BY <1>1 DEF Open
  <2>4. zs'.pc = "prompt" /\ zs'.randomizers = rs /\ zs'.signatures = <<>>
    BY <2>3
  <2>5. ProcessTyped(zs')
    BY <2>2, <2>3, <2>4 DEF ProcessTyped, Processes
  <2>6. PromptOK(zs') /\ WriteOK(zs')
    BY <1>1, <2>2, <2>4 DEF PromptOK, WriteOK
  <2> QED  BY <2>5, <2>6, CommandKept DEF Open, SignInv
<1>2. CASE ~Supported
  BY <1>2, FailedKept, CommandKept DEF Open, SignInv
<1> QED  BY <1>1, <1>2

\* An answer is appended to the signatures, or ends the run.
LEMMA AnswerSignInv ==
    ASSUME SignInv, NEW sig \in Signatures \cup {NoSig}, Answer(sig),
           faults' \in 0..MaxFaults
    PROVE  SignInv'
<1>1. CASE sig = NoSig
  BY <1>1, FailedKept, CommandKept DEF Answer, SignInv
<1>2. CASE sig # NoSig
  <2>1. zs' = [zs EXCEPT !.signatures = Append(zs.signatures, sig)]
    BY <1>2 DEF Answer
  <2>2. zs.signatures \in Seq(Signatures) /\ zs.randomizers \in Seq(Alphas)
    BY DEF SignInv, ProcessTyped, Processes
  <2>3. Append(zs.signatures, sig) \in Seq(Signatures)
        /\ Len(Append(zs.signatures, sig)) = Len(zs.signatures) + 1
    BY <1>2, <2>2
  <2>4. zs'.pc = "prompt" /\ zs'.randomizers = zs.randomizers
        /\ zs'.signatures = Append(zs.signatures, sig)
    BY <2>1 DEF Answer, SignInv, ProcessTyped, Processes
  <2>5. ProcessTyped(zs')
    <3>1. zs' \in Processes
      BY <2>1, <2>3 DEF SignInv, ProcessTyped, Processes
    <3>2. Len(zs.signatures) < Len(zs.randomizers)
      BY DEF Answer
    <3>3. Len(zs.signatures) \in Nat /\ Len(zs.randomizers) \in Nat
      BY <2>2
    <3> QED  BY <2>3, <2>4, <3>1, <3>2, <3>3 DEF SignInv, ProcessTyped
  <2>6. PromptOK(zs') /\ WriteOK(zs')
    BY <2>4 DEF Answer, SignInv, PromptOK, WriteOK
  <2> QED  BY <2>5, <2>6, CommandKept DEF Answer, SignInv
<1> QED  BY <1>1, <1>2

\* The signatures are applied: all verify, or nothing is written.
LEMMA ApplySignInv ==
    ASSUME SignInv, Apply
    PROVE  SignInv'
<1>1. CASE ApplyOk
  <2>1. zs' = [zs EXCEPT !.pc = "write"] /\ tx' = Half
    BY <1>1 DEF Apply
  <2>2. zs'.pc = "write" /\ zs'.randomizers = zs.randomizers
        /\ zs'.signatures = zs.signatures
        /\ zs' \in Processes
    BY <2>1 DEF SignInv, ProcessTyped, Processes
  <2>3. ProcessTyped(zs')
    BY <2>2 DEF SignInv, ProcessTyped, Processes
  <2>4. PromptOK(zs')
    BY <2>2 DEF Apply, SignInv, PromptOK
  <2>5. WriteOK(zs')
    BY <1>1, <2>2, AppliedVerify DEF Apply, WriteOK, AllVerify
  <2> QED  BY <2>1, <2>3, <2>4, <2>5, CommandKept DEF Apply, SignInv
<1>2. CASE ~ApplyOk
  BY <1>2, FailedKept, CommandKept DEF Apply, SignInv
<1> QED  BY <1>1, <1>2

\* The file is written.
LEMMA WriteSignInv ==
    ASSUME SignInv, Write
    PROVE  SignInv'
<1>1. ProcessTyped(zs') /\ PromptOK(zs') /\ WriteOK(zs')
  BY FailedKept DEF Write
<1>2. Authorised(tx') /\ DOMAIN tx' = Pools
  BY SignedIsAuthorised DEF Write
<1>3. UNCHANGED <<input, cmd, notes, faults>>
  BY DEF Write
<1>4. PromptOK(zs)'
  BY <1>1, <1>3 DEF PromptOK, IsAwaiting, Supported
<1>5. WriteOK(zs)'
  BY <1>1, <1>3 DEF WriteOK, AllVerify, Sighash
<1>6. SpendsAuthorised'
  BY <1>2, <1>3 DEF Authorised, SpendsAuthorised, RequiredSighash
<1> QED  BY <1>1, <1>2, <1>3, <1>4, <1>5, <1>6
         DEF SignInv, ProcessTyped, Processes, CommandTyped, Commands, Noted

\* The user, careful or not, and what fails.
LEMMA UserSignInv ==
    ASSUME SignInv,
           \/ CarefulCommand \/ CarefulAnswer \/ StartOver
           \/ CarelessCommand \/ CarelessAnswer
           \/ CommandFails \/ ZcashSignFails
    PROVE  SignInv'
<1>1. Fault => faults' \in 0..MaxFaults
  BY ZcashBoundsAssumption DEF SignInv, Fault
<1>2. CASE CarefulCommand
  <2> PICK outputs : StartCommand(Missing, [i \in DOMAIN Missing |-> Sighash],
                                  Missing, outputs)
    BY <1>2 DEF CarefulCommand
  <2> PICK want : want = Missing
    OBVIOUS
  <2>1. want \in Seq(Alphas)
    BY MissingTyped
  <2>2. Sighash \in Hashes
    BY SupportedIsPczt DEF SignInv, PromptOK, StartCommand
  <2>3. [i \in DOMAIN want |-> Sighash] \in Seq(Hashes)
    BY <2>1, <2>2
  <2>4. CommandTyped(cmd')
    BY <2>1, <2>3, StartTyped
  <2> QED  BY <1>2, <2>4, ProcessKept DEF CarefulCommand, StartCommand, SignInv
<1>3. CASE CarelessCommand
  <2> PICK want : want = Missing
    OBVIOUS
  <2> PICK messages \in BoundedSeq({Sighash, "other"}, MaxCount + 1),
           randomizers \in BoundedSeq(Range(want), Len(want)),
           outputs \in {0, Len(want)} :
           StartCommand(want, messages, randomizers, outputs)
    BY <1>3 DEF CarelessCommand
  <2>1. want \in Seq(Alphas)
    BY MissingTyped
  <2>2. Sighash \in Hashes
    BY SupportedIsPczt DEF SignInv, PromptOK, StartCommand
  <2>3. messages \in Seq(Hashes)
    <3> PICK n \in 0..(MaxCount + 1) : messages \in [1..n -> {Sighash, "other"}]
      BY DEF BoundedSeq, SeqOf
    <3>1. n \in Nat /\ messages \in [1..n -> Hashes]
      BY <2>2 DEF Hashes
    <3> QED  BY <3>1
  <2>4. randomizers \in Seq(Alphas)
    <3> PICK n \in 0..Len(want) : randomizers \in [1..n -> Range(want)]
      BY DEF BoundedSeq, SeqOf
    <3>1. Range(want) \subseteq Alphas
      BY <2>1 DEF Range
    <3>2. n \in Nat /\ randomizers \in [1..n -> Alphas]
      BY <3>1
    <3> QED  BY <3>2
  <2>5. CommandTyped(cmd')
    BY <2>1, <2>3, <2>4, StartTyped
  <2> QED  BY <1>1, <1>3, <2>5, ProcessKept DEF CarelessCommand, StartCommand,
              SignInv
<1>4. CASE CarefulAnswer
  <2> DEFINE next == zs.randomizers[Len(zs.signatures) + 1]
  <2>1. next \in Alphas
    <3>1. zs.randomizers \in Seq(Alphas) /\ zs.signatures \in Seq(Signatures)
      BY DEF SignInv, ProcessTyped, Processes
    <3>2. Len(zs.signatures) < Len(zs.randomizers)
      BY <1>4 DEF CarefulAnswer
    <3> QED  BY <3>1, <3>2
  <2>2. notes[next] \in Signatures \cup {NoSig}
    BY <2>1 DEF SignInv, Noted
  <2>3. Answer(notes[next]) /\ faults' = faults
    BY <1>4 DEF CarefulAnswer
  <2> HIDE DEF next
  <2> QED  BY <2>2, <2>3, AnswerSignInv DEF SignInv
<1>5. CASE CarelessAnswer
  <2> PICK sig \in Range(notes) \cup {NoSig} : Answer(sig)
    BY <1>5 DEF CarelessAnswer
  <2>1. sig \in Signatures \cup {NoSig}
    BY DEF SignInv, Noted, Range
  <2> QED  BY <1>1, <1>5, <2>1, AnswerSignInv DEF CarelessAnswer
<1>6. CASE StartOver
  <2>1. zs' = [pc |-> "idle", randomizers |-> <<>>, signatures |-> <<>>]
    BY <1>6 DEF StartOver
  <2>2. zs'.pc = "idle" /\ zs'.randomizers = <<>> /\ zs'.signatures = <<>>
    BY <2>1
  <2>3. ProcessTyped(zs') /\ PromptOK(zs') /\ WriteOK(zs')
    BY <2>1, <2>2, ZcashBoundsAssumption
    DEF ProcessTyped, Processes, PromptOK, WriteOK
  <2>4. notes' \in Noted
    BY <1>6 DEF StartOver, Noted
  <2> QED  BY <1>6, <2>3, <2>4, CommandKept DEF StartOver, SignInv
<1>7. CASE CommandFails
  BY <1>1, <1>7, NoProcessTyped, ProcessKept DEF CommandFails, SignInv
<1>8. CASE ZcashSignFails
  BY <1>1, <1>8, FailedKept, CommandKept DEF ZcashSignFails, SignInv
<1> QED  BY <1>2, <1>3, <1>4, <1>5, <1>6, <1>7, <1>8

\* The invariant of zcash-sign and the coordinator's command.
THEOREM SignInvariant == Spec => []SignInv
<1>1. SignInv /\ [Next]_vars => SignInv'
  <2> SUFFICES ASSUME SignInv, [Next]_vars PROVE SignInv'
    OBVIOUS
  <2>1. CASE Open
    BY <2>1, OpenSignInv
  <2>2. CASE Apply
    BY <2>2, ApplySignInv
  <2>3. CASE Write
    BY <2>3, WriteSignInv
  <2>4. CASE Sign
    BY <2>4, SignTyped, ProcessKept DEF Sign, SignInv
  <2>5. CASE Output
    BY <2>5, OutputTyped, ProcessKept DEF Output, SignInv
  <2>6. CASE \/ CarefulCommand \/ CarefulAnswer \/ StartOver
             \/ CarelessCommand \/ CarelessAnswer
             \/ CommandFails \/ ZcashSignFails
    BY <2>6, UserSignInv
  <2>7. CASE UNCHANGED vars
    BY <2>7, ProcessKept DEF vars, SignInv
  <2> QED  BY <2>1, <2>2, <2>3, <2>4, <2>5, <2>6, <2>7
           DEF Next, Proceed, Finished
<1> QED  BY <1>1, InitSignInv, PTL DEF Spec

-----------------------------------------------------------------------------
(* The theorems.                                                           *)

\* However the user errs and whatever crashes, the processes are in states of
\* their types: no more signatures than were prompted for, and no command with
\* more messages than a u8 counts.
THEOREM ZcashTypesAreCorrect == Spec => []TypeOK
<1>1. SignInv => TypeOK
  BY DEF SignInv, TypeOK, ProcessTyped, Processes, CommandTyped, Commands, Noted
<1> QED  BY <1>1, SignInvariant, PTL

\* Whatever the user types in, and in whatever order: what zcash-sign writes
\* has, for every spend of either pool that awaited a signature, one of the
\* hash that its version demands under that spend's own randomizer, and is
\* otherwise what was read.
THEOREM SpendsAreAuthorised == Spec => []SpendsAuthorised
<1>1. SignInv => SpendsAuthorised
  BY DEF SignInv
<1> QED  BY <1>1, SignInvariant, PTL

=============================================================================
