---------------------------- MODULE Flatten_proof ----------------------------
(***************************************************************************)
(* Counting, functions that step through states, and what FlattenSeq of    *)
(* the community modules returns, for sequences of any length: the model   *)
(* uses it for the edges and bindings an edit keeps, the edges it pushes   *)
(* and the values a run moves.                                             *)
(***************************************************************************)
EXTENDS Integers, Sequences, SequencesExt, SequenceTheorems, WellFoundedInduction, TLAPS

\* Counting up from 1.
LEMMA Counting ==
    ASSUME NEW n \in Nat, NEW S, 1 \in S, \A i \in 1..(n - 1) : i \in S => i + 1 \in S
    PROVE  1..n \subseteq S
<1> SUFFICES ASSUME (1..n) \ S # {} PROVE FALSE
  OBVIOUS
<1> DEFINE R == {ss \in Nat \X Nat : ss[1] < ss[2]}
<1>1. IsWellFoundedOn(R, Nat)
  BY NatLessThanWellFounded DEF OpToRel
<1>2. PICK k \in (1..n) \ S : \A m \in (1..n) \ S : <<m, k>> \notin R
  <2>1. (1..n) \ S \subseteq Nat
    OBVIOUS
  <2>. QED BY <1>1, <2>1, WFMin
<1>3. k - 1 \in 1..(n - 1)
  BY <1>2
<1>4. <<k - 1, k>> \in R
  BY <1>2, <1>3
<1>5. k - 1 \in S
  BY <1>2, <1>3, <1>4
<1>. QED BY <1>2, <1>3, <1>5

\* A set of positions that is not empty has a first one.
LEMMA FirstPosition ==
    ASSUME NEW S, S \subseteq Nat, S # {}
    PROVE  \E i \in S : \A j \in S : i <= j
<1> DEFINE R == {ss \in Nat \X Nat : ss[1] < ss[2]}
<1>1. IsWellFoundedOn(R, Nat)
  BY NatLessThanWellFounded DEF OpToRel
<1>2. PICK i \in S : \A j \in S : <<j, i>> \notin R
  BY <1>1, WFMin
<1>3. ASSUME NEW j \in S PROVE i <= j
  <2>1. i \in Nat /\ j \in Nat /\ <<j, i>> \notin R
    BY <1>2
  <2>2. ~(j < i)
    BY <2>1
  <2>. QED BY <2>1, <2>2
<1>. QED BY <1>3

-----------------------------------------------------------------------------
(* Functions that step through a number of states. *)

\* Counting up from 0.
LEMMA CountingUp ==
    ASSUME NEW n \in Nat, NEW S, 0 \in S, \A i \in 0..(n - 1) : i \in S => i + 1 \in S
    PROVE  0..n \subseteq S
<1>1. CASE n = 0
  BY <1>1
<1>2. CASE n # 0
  <2>1. 1 \in S
    BY <1>2
  <2>2. \A i \in 1..(n - 1) : i \in S => i + 1 \in S
    OBVIOUS
  <2>3. 1..n \subseteq S
    BY <2>1, <2>2, Counting
  <2>. QED BY <2>3
<1>. QED BY <1>1, <1>2

\* The states that a function steps through.
Stepping(n, start, step, f) ==
    f = [k \in 0..n |-> IF k = 0 THEN start ELSE step[k][f[k - 1]]]

LEMMA TurnsExist ==
    ASSUME NEW n \in Nat, NEW start, NEW step PROVE \E f : Stepping(n, start, step, f)
<1> DEFINE Upto(m, f) == f = [k \in 0..m |-> IF k = 0 THEN start ELSE step[k][f[k - 1]]]
           S == {m \in 0..n : \E f : Upto(m, f)}
<1>1. 0 \in S
  <2> DEFINE g == [k \in 0..0 |-> start]
  <2>1. Upto(0, g)
    OBVIOUS
  <2> HIDE DEF Upto, g
  <2>. QED BY <2>1
<1>2. ASSUME NEW m \in 0..(n - 1), m \in S PROVE m + 1 \in S
  <2>1. PICK f : Upto(m, f)
    BY <1>2
  <2> DEFINE g == [k \in 0..(m + 1) |-> IF k = m + 1 THEN step[k][f[m]] ELSE f[k]]
  <2>2. ASSUME NEW k \in 0..(m + 1)
        PROVE  g[k] = IF k = 0 THEN start ELSE step[k][g[k - 1]]
    <3>1. CASE k = m + 1
      <4>1. k # 0 /\ k - 1 = m /\ m \in 0..(m + 1) /\ m # m + 1
        BY <3>1
      <4>2. g[m] = f[m]
        BY <4>1
      <4>. QED BY <3>1, <4>1, <4>2
    <3>2. CASE k # m + 1
      <4>1. k \in 0..m
        BY <3>2
      <4>2. f[k] = IF k = 0 THEN start ELSE step[k][f[k - 1]]
        BY <2>1, <4>1
      <4>3. g[k] = f[k]
        BY <3>2
      <4>4. k # 0 => k - 1 \in 0..(m + 1) /\ k - 1 # m + 1
        BY <4>1
      <4>. QED BY <4>2, <4>3, <4>4
    <3>. QED BY <3>1, <3>2
  <2> HIDE DEF g
  <2>3. g = [k \in 0..(m + 1) |-> g[k]]
    BY DEF g
  <2>4. [k \in 0..(m + 1) |-> g[k]]
           = [k \in 0..(m + 1) |-> IF k = 0 THEN start ELSE step[k][g[k - 1]]]
    BY <2>2
  <2>5. Upto(m + 1, g)
    BY <2>3, <2>4
  <2>6. m + 1 \in 0..n
    BY <1>2
  <2> HIDE DEF Upto
  <2>. QED BY <2>5, <2>6
<1>3. n \in S
  <2> HIDE DEF S
  <2>1. 0..n \subseteq S
    BY <1>1, <1>2, CountingUp
  <2>. QED BY <2>1
<1>. QED BY <1>3 DEF Stepping

\* The same step every time.
Repeating(n, start, step, f) == f = [k \in 0..n |-> IF k = 0 THEN start ELSE step[f[k - 1]]]

LEMMA RepeatsExist ==
    ASSUME NEW n \in Nat, NEW start, NEW step PROVE \E f : Repeating(n, start, step, f)
<1> DEFINE steps == [k \in 1..n |-> step]
<1>1. PICK f : Stepping(n, start, steps, f)
  BY TurnsExist
<1>2. f = [k \in 0..n |-> IF k = 0 THEN start ELSE steps[k][f[k - 1]]]
  BY <1>1 DEF Stepping
<1>3. ASSUME NEW k \in 0..n
      PROVE  (IF k = 0 THEN start ELSE steps[k][f[k - 1]])
                = (IF k = 0 THEN start ELSE step[f[k - 1]])
  <2>1. k # 0 => k \in 1..n
    OBVIOUS
  <2>. QED BY <2>1
<1> HIDE DEF steps
<1>4. f = [k \in 0..n |-> IF k = 0 THEN start ELSE step[f[k - 1]]]
  BY <1>2, <1>3
<1>. QED BY <1>4 DEF Repeating

\* A state of type T after every step.
LEMMA TypedSteps ==
    ASSUME NEW n \in Nat, NEW T, NEW start \in T, NEW step,
           \A k \in 1..n : \A w \in T : step[k][w] \in T
    PROVE  \E f : Stepping(n, start, step, f) /\ \A k \in 0..n : f[k] \in T
<1>0. PICK f : Stepping(n, start, step, f)
  BY TurnsExist
<1>1. f = [k \in 0..n |-> IF k = 0 THEN start ELSE step[k][f[k - 1]]]
  BY <1>0 DEF Stepping
<1> DEFINE S == {k \in 0..n : f[k] \in T}
<1>2. 0 \in S
  BY <1>1
<1>3. ASSUME NEW k \in 0..(n - 1), k \in S PROVE k + 1 \in S
  <2>1. k + 1 \in 0..n /\ k + 1 # 0 /\ (k + 1) - 1 = k /\ k + 1 \in 1..n
    OBVIOUS
  <2>2. f[k + 1] = step[k + 1][f[k]]
    BY <1>1, <2>1
  <2>. QED BY <1>3, <2>1, <2>2
<1>4. 0..n \subseteq S
  <2> HIDE DEF S
  <2>. QED BY <1>2, <1>3, CountingUp
<1>. QED BY <1>0, <1>4

-----------------------------------------------------------------------------
(* The prefixes of a sequence of sequences. *)

\* The prefixes of s, concatenated.
Partials(s, f) ==
    f = [i \in 1..Len(s) |-> IF i = 1 THEN s[i] ELSE f[i - 1] \o s[i]]

LEMMA PrefixesExist ==
    ASSUME NEW s, Len(s) \in Nat, Len(s) # 0 PROVE \E f : Partials(s, f)
<1> DEFINE n == Len(s)
           Upto(k, f) == f = [i \in 1..k |-> IF i = 1 THEN s[i] ELSE f[i - 1] \o s[i]]
           S == {k \in 1..n : \E f : Upto(k, f)}
<1>1. 1 \in S
  <2> DEFINE g == [i \in 1..1 |-> s[i]]
  <2>1. Upto(1, g)
    OBVIOUS
  <2>2. 1 \in 1..n
    OBVIOUS
  <2> HIDE DEF Upto, g
  <2>. QED BY <2>1, <2>2
<1>2. ASSUME NEW k \in 1..(n - 1), k \in S PROVE k + 1 \in S
  <2>1. PICK f : Upto(k, f)
    BY <1>2
  <2> DEFINE g == [i \in 1..(k + 1) |-> IF i = k + 1 THEN f[k] \o s[k + 1] ELSE f[i]]
  <2>2. ASSUME NEW i \in 1..(k + 1)
        PROVE  g[i] = IF i = 1 THEN s[i] ELSE g[i - 1] \o s[i]
    <3>1. CASE i = k + 1
      <4>1. i # 1 /\ i - 1 = k /\ k \in 1..(k + 1) /\ k # k + 1
        BY <3>1
      <4>2. g[k] = f[k]
        BY <4>1
      <4>. QED BY <3>1, <4>1, <4>2
    <3>2. CASE i # k + 1
      <4>1. i \in 1..k
        BY <3>2
      <4>2. f[i] = IF i = 1 THEN s[i] ELSE f[i - 1] \o s[i]
        BY <2>1, <4>1
      <4>3. g[i] = f[i]
        BY <3>2
      <4>4. i # 1 => i - 1 \in 1..(k + 1) /\ i - 1 # k + 1
        BY <4>1
      <4>. QED BY <4>2, <4>3, <4>4
    <3>. QED BY <3>1, <3>2
  <2> HIDE DEF g
  <2>3. g = [i \in 1..(k + 1) |-> g[i]]
    BY DEF g
  <2>4. [i \in 1..(k + 1) |-> g[i]]
           = [i \in 1..(k + 1) |-> IF i = 1 THEN s[i] ELSE g[i - 1] \o s[i]]
    BY <2>2
  <2>5. Upto(k + 1, g)
    BY <2>3, <2>4
  <2>6. k + 1 \in 1..n
    BY <1>2
  <2> HIDE DEF Upto
  <2>. QED BY <2>5, <2>6
<1>3. n \in S
  <2> HIDE DEF S
  <2>1. 1..n \subseteq S
    BY <1>1, <1>2, Counting
  <2>. QED BY <2>1
<1>. QED BY <1>3 DEF Partials

LEMMA FlattenIsPrefix ==
    ASSUME NEW s, Len(s) \in Nat, Len(s) # 0
    PROVE  \E f : Partials(s, f) /\ FlattenSeq(s) = f[Len(s)]
<1> DEFINE f == CHOOSE f : f = [i \in 1..Len(s) |-> IF i = 1 THEN s[i] ELSE f[i - 1] \o s[i]]
<1>1. Partials(s, f)
  BY PrefixesExist DEF Partials
<1>2. FlattenSeq(s) = f[Len(s)]
  BY DEF FlattenSeq
<1>. QED BY <1>1, <1>2

\* The same, for sequences of sequences over T.
LEMMA FlattenSteps ==
    ASSUME NEW T, NEW s \in Seq(Seq(T)), s # <<>>
    PROVE  \E f \in [1..Len(s) -> Seq(T)] :
              /\ f[1] = s[1]
              /\ \A i \in 1..(Len(s) - 1) : f[i + 1] = f[i] \o s[i + 1]
              /\ FlattenSeq(s) = f[Len(s)]
<1>1. Len(s) \in Nat /\ Len(s) # 0
  OBVIOUS
<1>2. PICK f : Partials(s, f) /\ FlattenSeq(s) = f[Len(s)]
  BY <1>1, FlattenIsPrefix
<1>3. /\ f[1] = s[1]
      /\ \A i \in 1..(Len(s) - 1) : f[i + 1] = f[i] \o s[i + 1]
  <2>1. ASSUME NEW i \in 1..Len(s)
        PROVE  f[i] = IF i = 1 THEN s[i] ELSE f[i - 1] \o s[i]
    BY <1>2 DEF Partials
  <2>2. ASSUME NEW i \in 1..(Len(s) - 1) PROVE f[i + 1] = f[i] \o s[i + 1]
    <3>1. i + 1 \in 1..Len(s) /\ i + 1 # 1 /\ (i + 1) - 1 = i
      BY <1>1
    <3>. QED BY <2>1, <3>1
  <2>3. 1 \in 1..Len(s)
    BY <1>1
  <2>. QED BY <2>1, <2>2, <2>3
<1> DEFINE S == {i \in 1..Len(s) : f[i] \in Seq(T)}
<1>4. 1 \in S
  BY <1>1, <1>3
<1>5. ASSUME NEW i \in 1..(Len(s) - 1), i \in S PROVE i + 1 \in S
  <2>1. i + 1 \in 1..Len(s) /\ s[i + 1] \in Seq(T)
    BY <1>1
  <2>2. f[i] \o s[i + 1] \in Seq(T)
    BY <1>5, <2>1
  <2>. QED BY <1>3, <2>1, <2>2
<1>6. 1..Len(s) \subseteq S
  <2> HIDE DEF S
  <2>. QED BY <1>1, <1>4, <1>5, Counting
<1>7. f \in [1..Len(s) -> Seq(T)]
  BY <1>2, <1>6 DEF Partials
<1>. QED BY <1>2, <1>3, <1>7

-----------------------------------------------------------------------------
(* Concatenation. *)

LEMMA ConcatElements ==
    ASSUME NEW T, NEW s \in Seq(T), NEW t \in Seq(T)
    PROVE  ToSet(s \o t) = ToSet(s) \cup ToSet(t)
<1>1. /\ Len(s) \in Nat /\ Len(t) \in Nat
      /\ DOMAIN s = 1..Len(s) /\ DOMAIN t = 1..Len(t)
      /\ DOMAIN (s \o t) = 1..(Len(s) + Len(t))
  OBVIOUS
<1>2. ASSUME NEW i \in DOMAIN (s \o t) PROVE (s \o t)[i] \in ToSet(s) \cup ToSet(t)
  <2>1. CASE i <= Len(s)
    BY <1>1, <2>1 DEF ToSet
  <2>2. CASE i > Len(s)
    <3>1. i - Len(s) \in DOMAIN t /\ (s \o t)[i] = t[i - Len(s)]
      BY <1>1, <2>2
    <3>. QED BY <3>1 DEF ToSet
  <2>. QED BY <1>1, <2>1, <2>2
<1>3. ASSUME NEW i \in DOMAIN s PROVE s[i] \in ToSet(s \o t)
  <2>1. i \in DOMAIN (s \o t) /\ (s \o t)[i] = s[i]
    BY <1>1
  <2>. QED BY <2>1 DEF ToSet
<1>4. ASSUME NEW i \in DOMAIN t PROVE t[i] \in ToSet(s \o t)
  <2>1. Len(s) + i \in DOMAIN (s \o t) /\ (s \o t)[Len(s) + i] = t[i]
    BY <1>1
  <2>. QED BY <2>1 DEF ToSet
<1>5. ToSet(s \o t) \subseteq ToSet(s) \cup ToSet(t)
  BY <1>2 DEF ToSet
<1>6. ToSet(s) \subseteq ToSet(s \o t)
  BY <1>3 DEF ToSet
<1>7. ToSet(t) \subseteq ToSet(s \o t)
  BY <1>4 DEF ToSet
<1>. QED BY <1>5, <1>6, <1>7

LEMMA ConcatInjective ==
    ASSUME NEW T, NEW s \in Seq(T), NEW t \in Seq(T),
           IsInjective(s), IsInjective(t), ToSet(s) \cap ToSet(t) = {}
    PROVE  IsInjective(s \o t)
<1>1. /\ Len(s) \in Nat /\ Len(t) \in Nat
      /\ DOMAIN s = 1..Len(s) /\ DOMAIN t = 1..Len(t)
      /\ DOMAIN (s \o t) = 1..(Len(s) + Len(t))
  OBVIOUS
<1>2. ASSUME NEW i \in DOMAIN (s \o t)
      PROVE  \/ i \in DOMAIN s /\ (s \o t)[i] = s[i]
             \/ i - Len(s) \in DOMAIN t /\ (s \o t)[i] = t[i - Len(s)]
  BY <1>1
<1>3. SUFFICES ASSUME NEW i \in DOMAIN (s \o t), NEW j \in DOMAIN (s \o t),
                      (s \o t)[i] = (s \o t)[j]
               PROVE  i = j
  BY DEF IsInjective
<1>4. \A a \in DOMAIN s, b \in DOMAIN t : s[a] # t[b]
  BY DEF ToSet
<1>5. CASE i \in DOMAIN s /\ (s \o t)[i] = s[i]
  BY <1>2, <1>3, <1>4, <1>5 DEF IsInjective
<1>6. CASE i - Len(s) \in DOMAIN t /\ (s \o t)[i] = t[i - Len(s)]
  <2>1. j - Len(s) \in DOMAIN t /\ (s \o t)[j] = t[j - Len(s)]
    BY <1>2, <1>3, <1>4, <1>6
  <2>2. i - Len(s) = j - Len(s)
    BY <1>3, <1>6, <2>1 DEF IsInjective
  <2>. QED BY <1>1, <2>2
<1>. QED BY <1>2, <1>5, <1>6

-----------------------------------------------------------------------------
(* FlattenSeq. *)

LEMMA FlattenEmpty == FlattenSeq(<<>>) = <<>>
BY DEF FlattenSeq

LEMMA Parts ==
    ASSUME NEW T, NEW s \in Seq(Seq(T))
    PROVE  /\ Len(s) \in Nat /\ DOMAIN s = 1..Len(s)
           /\ \A i \in 1..Len(s) : s[i] \in Seq(T)
           /\ s # <<>> => Len(s) \in 1..Len(s)
<1>1. Len(s) \in Nat /\ DOMAIN s = 1..Len(s)
  BY LenProperties
<1>2. \A i \in 1..Len(s) : s[i] \in Seq(T)
  BY ElementOfSeq
<1>3. s # <<>> => Len(s) \in 1..Len(s)
  OBVIOUS
<1>. QED BY <1>1, <1>2, <1>3

LEMMA FlattenType ==
    ASSUME NEW T, NEW s \in Seq(Seq(T)) PROVE FlattenSeq(s) \in Seq(T)
<1>1. CASE s = <<>>
  <2>1. FlattenSeq(s) = <<>>
    BY <1>1, FlattenEmpty, Zenon
  <2>. QED BY <2>1
<1>2. CASE s # <<>>
  <2>1. PICK f \in [1..Len(s) -> Seq(T)] : FlattenSeq(s) = f[Len(s)]
    BY <1>2, FlattenSteps
  <2>2. Len(s) \in 1..Len(s)
    BY <1>2
  <2>. QED BY <2>1, <2>2
<1>. QED BY <1>1, <1>2

LEMMA FlattenElements ==
    ASSUME NEW T, NEW s \in Seq(Seq(T))
    PROVE  ToSet(FlattenSeq(s)) = UNION {ToSet(s[i]) : i \in DOMAIN s}
<1>1. CASE s = <<>>
  <2>1. DOMAIN s = {} /\ FlattenSeq(s) = s
    BY <1>1, FlattenEmpty
  <2>2. ToSet(FlattenSeq(s)) = {} /\ {ToSet(s[i]) : i \in DOMAIN s} = {}
    BY <2>1 DEF ToSet
  <2>. QED BY <2>2
<1>2. CASE s # <<>>
  <2>1. PICK f \in [1..Len(s) -> Seq(T)] :
              /\ f[1] = s[1]
              /\ \A i \in 1..(Len(s) - 1) : f[i + 1] = f[i] \o s[i + 1]
              /\ FlattenSeq(s) = f[Len(s)]
    BY <1>2, FlattenSteps
  <2>2. /\ Len(s) \in Nat /\ Len(s) \in 1..Len(s) /\ DOMAIN s = 1..Len(s)
        /\ \A i \in 1..Len(s) : s[i] \in Seq(T)
    BY <1>2, Parts, Zenon
  <2>a. ASSUME NEW a \in Seq(T), NEW b \in Seq(T)
        PROVE  ToSet(a \o b) = ToSet(a) \cup ToSet(b)
    BY ConcatElements
  <2> DEFINE S == {k \in 1..Len(s) : ToSet(f[k]) = UNION {ToSet(s[i]) : i \in 1..k}}
  <2>3. 1 \in S
    <3>1. 1..1 = {1} /\ 1 \in 1..Len(s)
      BY <2>2
    <3>2. UNION {ToSet(s[i]) : i \in 1..1} = ToSet(s[1])
      BY <3>1
    <3>. QED BY <2>1, <3>1, <3>2
  <2>4. ASSUME NEW k \in 1..(Len(s) - 1), k \in S PROVE k + 1 \in S
    <3>1. k \in 1..Len(s) /\ k + 1 \in 1..Len(s) /\ 1..(k + 1) = (1..k) \cup {k + 1}
      BY <2>2
    <3>2. ToSet(f[k + 1]) = ToSet(f[k]) \cup ToSet(s[k + 1])
      <4>1. f[k] \in Seq(T) /\ s[k + 1] \in Seq(T)
        BY <2>2, <3>1
      <4>2. f[k + 1] = f[k] \o s[k + 1]
        BY <2>1
      <4>. QED BY <4>1, <4>2, <2>a, Zenon
    <3>3. UNION {ToSet(s[i]) : i \in 1..(k + 1)}
             = (UNION {ToSet(s[i]) : i \in 1..k}) \cup ToSet(s[k + 1])
      <4>1. ASSUME NEW K, NEW u, K = (1..k) \cup {u}
            PROVE  UNION {ToSet(s[i]) : i \in K}
                      = (UNION {ToSet(s[i]) : i \in 1..k}) \cup ToSet(s[u])
        BY <4>1
      <4>. QED BY <3>1, <4>1
    <3>4. ToSet(f[k]) = UNION {ToSet(s[i]) : i \in 1..k}
      BY <2>4
    <3>. QED BY <3>1, <3>2, <3>3, <3>4
  <2>5. Len(s) \in S
    <3> HIDE DEF S
    <3>1. 1..Len(s) \subseteq S
      BY <2>2, <2>3, <2>4, Counting
    <3>. QED BY <2>2, <3>1
  <2>. QED BY <2>1, <2>2, <2>5
<1>. QED BY <1>1, <1>2

LEMMA FlattenInjective ==
    ASSUME NEW T, NEW s \in Seq(Seq(T)),
           \A i \in DOMAIN s : IsInjective(s[i]),
           \A i, j \in DOMAIN s : i # j => ToSet(s[i]) \cap ToSet(s[j]) = {}
    PROVE  IsInjective(FlattenSeq(s))
<1>1. CASE s = <<>>
  <2>1. DOMAIN s = {} /\ FlattenSeq(s) = s
    BY <1>1, FlattenEmpty
  <2>. QED BY <2>1 DEF IsInjective
<1>2. CASE s # <<>>
  <2>1. PICK f \in [1..Len(s) -> Seq(T)] :
              /\ f[1] = s[1]
              /\ \A i \in 1..(Len(s) - 1) : f[i + 1] = f[i] \o s[i + 1]
              /\ FlattenSeq(s) = f[Len(s)]
    BY <1>2, FlattenSteps
  <2>2. /\ Len(s) \in Nat /\ Len(s) \in 1..Len(s) /\ DOMAIN s = 1..Len(s)
        /\ \A i \in 1..Len(s) : s[i] \in Seq(T)
    BY <1>2, Parts, Zenon
  <2>a. ASSUME NEW a \in Seq(T), NEW b \in Seq(T)
        PROVE  ToSet(a \o b) = ToSet(a) \cup ToSet(b)
    BY ConcatElements
  <2> DEFINE S == {k \in 1..Len(s) : /\ IsInjective(f[k])
                                     /\ \A x \in ToSet(f[k]) :
                                            \E i \in 1..k : x \in ToSet(s[i])}
  <2>3. 1 \in S
    <3>1. 1 \in 1..Len(s) /\ 1 \in 1..1
      BY <2>2
    <3>. QED BY <2>1, <2>2, <3>1
  <2>4. ASSUME NEW k \in 1..(Len(s) - 1), k \in S PROVE k + 1 \in S
    <3>1. k \in 1..Len(s) /\ k + 1 \in 1..Len(s) /\ k + 1 \in 1..(k + 1)
          /\ \A i \in 1..k : i \in 1..(k + 1) /\ i # k + 1 /\ i \in 1..Len(s)
      BY <2>2
    <3>2. f[k] \in Seq(T) /\ s[k + 1] \in Seq(T)
      BY <2>2, <3>1
    <3>3. ToSet(f[k + 1]) = ToSet(f[k]) \cup ToSet(s[k + 1])
      <4>1. f[k + 1] = f[k] \o s[k + 1]
        BY <2>1
      <4>. QED BY <3>2, <4>1, <2>a, Zenon
    <3>4. \A x \in ToSet(f[k + 1]) : \E i \in 1..(k + 1) : x \in ToSet(s[i])
      BY <2>4, <3>1, <3>3
    <3>5. ToSet(f[k]) \cap ToSet(s[k + 1]) = {}
      BY <2>2, <2>4, <3>1
    <3>6. IsInjective(f[k]) /\ IsInjective(s[k + 1])
      BY <2>2, <2>4, <3>1
    <3>7. IsInjective(f[k] \o s[k + 1])
      BY <3>2, <3>5, <3>6, ConcatInjective
    <3>. QED BY <2>1, <3>1, <3>4, <3>7
  <2>5. Len(s) \in S
    <3> HIDE DEF S
    <3>1. 1..Len(s) \subseteq S
      BY <2>2, <2>3, <2>4, Counting
    <3>. QED BY <2>2, <3>1
  <2>. QED BY <2>1, <2>2, <2>5
<1>. QED BY <1>1, <1>2

\* Where all other parts are empty, one part is the whole.
LEMMA FlattenOne ==
    ASSUME NEW T, NEW s \in Seq(Seq(T)), NEW k \in DOMAIN s,
           \A i \in DOMAIN s : i # k => s[i] = <<>>
    PROVE  FlattenSeq(s) = s[k]
<1>0. s # <<>>
  OBVIOUS
<1>1. /\ s # <<>> /\ Len(s) \in Nat /\ Len(s) \in 1..Len(s) /\ DOMAIN s = 1..Len(s)
      /\ \A i \in 1..Len(s) : s[i] \in Seq(T)
  BY <1>0, Parts, Zenon
<1>2. PICK f \in [1..Len(s) -> Seq(T)] :
            /\ f[1] = s[1]
            /\ \A i \in 1..(Len(s) - 1) : f[i + 1] = f[i] \o s[i + 1]
            /\ FlattenSeq(s) = f[Len(s)]
  BY <1>1, FlattenSteps
<1> DEFINE S == {i \in 1..Len(s) : f[i] = IF i < k THEN <<>> ELSE s[k]}
<1>a. \A i \in 1..Len(s) : s[i] \in Seq(T) /\ (i # k => s[i] = <<>>)
  BY <1>1, Zenon
<1>b. k \in 1..Len(s)
  BY <1>1
<1>3. 1 \in S
  <2>1. 1 \in 1..Len(s)
    BY <1>1
  <2>2. f[1] = IF 1 < k THEN <<>> ELSE s[k]
    BY <1>2, <1>a, <1>b, <2>1
  <2>. QED BY <2>1, <2>2
<1>4. ASSUME NEW i \in 1..(Len(s) - 1), i \in S PROVE i + 1 \in S
  <2>1. /\ i + 1 \in 1..Len(s) /\ i \in Nat /\ k \in Nat
        /\ f[i + 1] = f[i] \o s[i + 1] /\ s[k] \in Seq(T)
        /\ i + 1 # k => s[i + 1] = <<>>
        /\ f[i] = IF i < k THEN <<>> ELSE s[k]
    <3>1. i + 1 \in 1..Len(s) /\ i \in Nat /\ k \in Nat
      BY <1>1, <1>b
    <3>. QED BY <1>2, <1>4, <1>a, <1>b, <3>1
  <2>2. ASSUME NEW q \in Seq(T) PROVE <<>> \o q = q /\ q \o <<>> = q
    OBVIOUS
  <2>3. CASE i + 1 < k
    <3>1. f[i] = <<>> /\ s[i + 1] = <<>>
      BY <2>1, <2>3
    <3>2. <<>> \o <<>> = <<>>
      OBVIOUS
    <3>3. f[i + 1] = <<>>
      BY <2>1, <3>1, <3>2, Zenon
    <3>. QED BY <2>1, <2>3, <3>3
  <2>4. CASE i + 1 = k
    <3>1. f[i] = <<>> /\ ~(i + 1 < k)
      BY <2>1, <2>4
    <3>2. f[i + 1] = s[k]
      BY <2>1, <2>2, <2>4, <3>1, Zenon
    <3>. QED BY <2>1, <3>1, <3>2
  <2>5. CASE i + 1 > k
    <3>1. f[i] = s[k] /\ s[i + 1] = <<>> /\ ~(i + 1 < k)
      BY <2>1, <2>5
    <3>2. f[i + 1] = s[k]
      BY <2>1, <2>2, <3>1, Zenon
    <3>. QED BY <2>1, <3>1, <3>2
  <2>6. i + 1 < k \/ i + 1 = k \/ i + 1 > k
    BY <2>1
  <2>. QED BY <2>3, <2>4, <2>5, <2>6
<1>5. Len(s) \in S
  <2> HIDE DEF S
  <2>1. 1..Len(s) \subseteq S
    BY <1>1, <1>3, <1>4, Counting
  <2>. QED BY <1>1, <2>1
<1>. QED BY <1>1, <1>2, <1>5
=============================================================================
