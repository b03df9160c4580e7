------------------------------ MODULE SumLemmas ------------------------------
(***************************************************************************)
(* What SumFunctionOnSet of the community modules computes.  It chooses    *)
(* the next argument at every step, so what it returns is proved by        *)
(* well-founded induction along the strict subsets of a finite set: a      *)
(* least subset for which a lemma failed would have a smaller one for      *)
(* which it fails too.  The account books, the tallies of the proposals,   *)
(* the power of the validators and their earnings are such sums.  At the   *)
(* end: least numbers, for the same kind of induction over numbers, what   *)
(* a division rounds, and the powers of two, which count subsets.          *)
(***************************************************************************)
EXTENDS Integers, FiniteSets, Functions, FiniteSetTheorems, TLAPS

\* The argument whose term is added next.
Chosen(s) == CHOOSE x \in s : TRUE

LEMMA ChosenIn == ASSUME NEW s, s # {} PROVE Chosen(s) \in s
  BY DEF Chosen

\* g computes the sums of f over all subsets of S.
Sums(f, S, g) ==
  g = [s \in SUBSET S |-> IF s = {} THEN 0 ELSE f[Chosen(s)] + g[s \ {Chosen(s)}]]

LEMMA SumIs == ASSUME NEW f, NEW S PROVE SumFunctionOnSet(f, S) = (CHOOSE g : Sums(f, S, g))[S]
  BY DEF SumFunctionOnSet, FoldFunctionOnSet, MapThenFoldSet, Sums, Chosen

LEMMA Smallest ==
  ASSUME NEW S, NEW T, T \subseteq SUBSET S, T # {}, IsFiniteSet(S)
  PROVE  \E s \in T : \A t \in T : t \subseteq s => t = s
  <1>. DEFINE F == FiniteSubsetsOf(S)
              R == StrictSubsetOrdering(S)
  <1>1. IsWellFoundedOn(R, F)
    BY FS_StrictSubsetOrderingWellFounded
  <1>2. T \subseteq F
    BY FS_Subset DEF FiniteSubsetsOf
  <1>. HIDE DEF R
  <1>3. PICK s \in T : \A t \in T : ~(<<t, s>> \in R)
    <2>. HIDE DEF F
    <2>. QED BY <1>1, <1>2, WFMin
  <1>. QED  BY <1>3 DEF R, StrictSubsetOrdering

LEMMA SumsStep ==
  ASSUME NEW f, NEW S, NEW g, Sums(f, S, g), NEW s \in SUBSET S
  PROVE  /\ s = {} => g[s] = 0
         /\ s # {} => g[s] = f[Chosen(s)] + g[s \ {Chosen(s)}]
  BY DEF Sums

LEMMA SumsUnique ==
  ASSUME NEW f, NEW S, NEW R, NEW g, NEW h, IsFiniteSet(S), Sums(f, S, g), Sums(f, R, h),
         NEW s \in SUBSET S, s \subseteq R
  PROVE  g[s] = h[s]
  <1>. DEFINE T == {t \in SUBSET S : t \subseteq R /\ g[t] # h[t]}
  <1>1. SUFFICES ASSUME T # {} PROVE FALSE
    OBVIOUS
  <1>2. PICK t \in T : \A u \in T : u \subseteq t => u = t
    <2>1. T \subseteq SUBSET S
      OBVIOUS
    <2>. HIDE DEF T
    <2>. QED  BY <1>1, <2>1, Smallest
  <1>3. t \in SUBSET S /\ t \in SUBSET R /\ g[t] # h[t]
    BY <1>2
  <1>4. t # {}
    BY <1>3, SumsStep
  <1>5. PICK x : x = Chosen(t) /\ x \in t
    BY <1>4, ChosenIn
  <1>6. g[t \ {x}] = h[t \ {x}]
    BY <1>2, <1>3, <1>5
  <1>7. g[t] = f[x] + g[t \ {x}]
    BY <1>3, <1>4, <1>5, SumsStep
  <1>8. h[t] = f[x] + h[t \ {x}]
    BY <1>3, <1>4, <1>5, SumsStep
  <1>. QED  BY <1>3, <1>6, <1>7, <1>8

HasSums(f, S) == \E g : Sums(f, S, g)

SumsFor(f, S) == CHOOSE g : Sums(f, S, g)

LEMMA SumsExist ==
  ASSUME NEW f, NEW S, IsFiniteSet(S)
  PROVE  HasSums(f, S)
  <1>. DEFINE T == {t \in SUBSET S : ~HasSums(f, t)}
  <1>1. SUFFICES ASSUME T # {} PROVE FALSE
    BY DEF HasSums
  <1>2. PICK s \in T : \A u \in T : u \subseteq s => u = s
    <2>1. T \subseteq SUBSET S
      OBVIOUS
    <2>. HIDE DEF T
    <2>. QED  BY <1>1, <2>1, Smallest
  <1>3. s \in SUBSET S /\ ~HasSums(f, s)
    BY <1>2
  <1>4. ASSUME NEW u \in SUBSET s, u # s
        PROVE  IsFiniteSet(u) /\ Sums(f, u, SumsFor(f, u))
    <2>1. u \in SUBSET S /\ u \notin T
      BY <1>2, <1>3, <1>4
    <2>2. HasSums(f, u)
      BY <2>1
    <2>. QED  BY <2>1, <2>2, FS_Subset DEF HasSums, SumsFor
  <1>5. PICK h : h = [t \in SUBSET s |-> IF t = {} THEN 0
                        ELSE f[Chosen(t)] + SumsFor(f, t \ {Chosen(t)})[t \ {Chosen(t)}]]
    OBVIOUS
  <1>6. ASSUME NEW t \in SUBSET s, t # s PROVE h[t] = SumsFor(f, t)[t]
    <2>1. PICK g : g = SumsFor(f, t) /\ Sums(f, t, g)
      BY <1>4, <1>6
    <2>2. CASE t = {}
      <3>1. h[t] = 0
        BY <1>5, <2>2
      <3>2. t \in SUBSET t
        OBVIOUS
      <3>3. g[t] = 0
        BY <2>1, <2>2, <3>2, SumsStep
      <3>. QED  BY <2>1, <3>1, <3>3
    <2>3. CASE t # {}
      <3>1. PICK x : x = Chosen(t) /\ x \in t
        BY <2>3, ChosenIn
      <3>2. PICK w : w = t \ {x}
        OBVIOUS
      <3>7. w \in SUBSET t /\ w # s /\ w \in SUBSET s
        BY <3>1, <3>2
      <3>3. PICK k : k = SumsFor(f, w) /\ IsFiniteSet(w) /\ Sums(f, w, k)
        BY <1>4, <3>7
      <3>4. k[w] = g[w]
        BY <2>1, <3>3, <3>7, SumsUnique
      <3>8. t \in SUBSET t
        OBVIOUS
      <3>5. g[t] = f[x] + g[w]
        BY <2>1, <2>3, <3>1, <3>2, <3>8, SumsStep
      <3>6. h[t] = f[x] + k[w]
        BY <1>5, <2>3, <3>1, <3>2, <3>3
      <3>. QED  BY <2>1, <3>4, <3>5, <3>6
    <2>. QED  BY <2>2, <2>3
  <1>7. ASSUME NEW t \in SUBSET s, t # {}
        PROVE  SumsFor(f, t \ {Chosen(t)})[t \ {Chosen(t)}] = h[t \ {Chosen(t)}]
    <2>1. PICK x : x = Chosen(t) /\ x \in t
      BY <1>7, ChosenIn
    <2>2. t \ {x} \in SUBSET s /\ t \ {x} # s
      BY <2>1
    <2>. QED  BY <1>6, <2>1, <2>2
  <1>8. h = [t \in SUBSET s |-> IF t = {} THEN 0 ELSE f[Chosen(t)] + h[t \ {Chosen(t)}]]
    BY <1>5, <1>7
  <1>9. Sums(f, s, h)
    BY <1>8 DEF Sums
  <1>. QED  BY <1>3, <1>9 DEF HasSums

LEMMA SumFor ==
  ASSUME NEW f, NEW S, IsFiniteSet(S)
  PROVE  Sums(f, S, SumsFor(f, S)) /\ SumFunctionOnSet(f, S) = SumsFor(f, S)[S]
  BY SumsExist, SumIs DEF HasSums, SumsFor

LEMMA SumStep ==
  ASSUME NEW f, NEW S, IsFiniteSet(S)
  PROVE  /\ S = {} => SumFunctionOnSet(f, S) = 0
         /\ S # {} => SumFunctionOnSet(f, S) = f[Chosen(S)] + SumFunctionOnSet(f, S \ {Chosen(S)})
  <1>1. PICK g : Sums(f, S, g) /\ SumFunctionOnSet(f, S) = g[S]
    BY SumFor
  <1>2. ASSUME S # {} PROVE SumFunctionOnSet(f, S) = f[Chosen(S)] + SumFunctionOnSet(f, S \ {Chosen(S)})
    <2>1. PICK w : w = S \ {Chosen(S)} /\ IsFiniteSet(w) /\ w \in SUBSET S
      BY FS_Subset
    <2>2. PICK k : Sums(f, w, k) /\ SumFunctionOnSet(f, w) = k[w]
      BY <2>1, SumFor
    <2>3. g[w] = k[w]
      BY <1>1, <2>1, <2>2, SumsUnique
    <2>5. S \in SUBSET S
      OBVIOUS
    <2>4. g[S] = f[Chosen(S)] + g[w]
      <3>1. g[S] = f[Chosen(S)] + g[S \ {Chosen(S)}]
        BY <1>1, <1>2, <2>5, SumsStep
      <3>. QED  BY <2>1, <3>1
    <2>. QED  BY <1>1, <2>1, <2>2, <2>3, <2>4
  <1>. QED  BY <1>1, <1>2, SumsStep

\* The terms of a sum are integers.
Terms(f, S) == IsFiniteSet(S) /\ \A x \in S : f[x] \in Int

LEMMA SumType ==
  ASSUME NEW f, NEW S, Terms(f, S)
  PROVE  SumFunctionOnSet(f, S) \in Int
  <1>. DEFINE T == {t \in SUBSET S : SumFunctionOnSet(f, t) \notin Int}
  <1>1. SUFFICES ASSUME T # {} PROVE FALSE
    OBVIOUS
  <1>2. PICK s \in T : \A u \in T : u \subseteq s => u = s
    <2>1. T \subseteq SUBSET S /\ IsFiniteSet(S)
      BY DEF Terms
    <2>. HIDE DEF T
    <2>. QED  BY <1>1, <2>1, Smallest
  <1>3. s \in SUBSET S /\ SumFunctionOnSet(f, s) \notin Int /\ IsFiniteSet(s)
    BY <1>2, FS_Subset DEF Terms
  <1>4. s # {}
    <2>1. s = {} => SumFunctionOnSet(f, s) = 0
      BY <1>3, SumStep
    <2>. QED  BY <1>3, <2>1
  <1>5. PICK x : x = Chosen(s) /\ x \in s
    BY <1>4, ChosenIn
  <1>6. SumFunctionOnSet(f, s) = f[x] + SumFunctionOnSet(f, s \ {x})
    BY <1>3, <1>4, <1>5, SumStep
  <1>7. SumFunctionOnSet(f, s \ {x}) \in Int
    BY <1>2, <1>3, <1>5
  <1>8. f[x] \in Int
    BY <1>3, <1>5 DEF Terms
  <1>. QED  BY <1>3, <1>6, <1>7, <1>8

\* Any term may be taken out of a sum.
LEMMA SumTake ==
  ASSUME NEW f, NEW S, NEW x \in S, Terms(f, S)
  PROVE  SumFunctionOnSet(f, S) = f[x] + SumFunctionOnSet(f, S \ {x})
  <1>. DEFINE T == {t \in SUBSET S : \E y \in t : SumFunctionOnSet(f, t) # f[y] + SumFunctionOnSet(f, t \ {y})}
  <1>1. SUFFICES ASSUME T # {} PROVE FALSE
    BY DEF Terms
  <1>2. PICK s \in T : \A u \in T : u \subseteq s => u = s
    <2>1. T \subseteq SUBSET S /\ IsFiniteSet(S)
      BY DEF Terms
    <2>. HIDE DEF T
    <2>. QED  BY <1>1, <2>1, Smallest
  <1>3. PICK y \in s : /\ s \in SUBSET S /\ IsFiniteSet(s)
                       /\ SumFunctionOnSet(f, s) # f[y] + SumFunctionOnSet(f, s \ {y})
    BY <1>2, FS_Subset DEF Terms
  <1>4. PICK c : c = Chosen(s) /\ c \in s
    BY <1>3, ChosenIn
  <1>5. SumFunctionOnSet(f, s) = f[c] + SumFunctionOnSet(f, s \ {c})
    BY <1>3, <1>4, SumStep
  <1>6. c # y
    BY <1>3, <1>5
  <1>7. SumFunctionOnSet(f, s \ {c}) = f[y] + SumFunctionOnSet(f, (s \ {c}) \ {y})
    <2>1. s \ {c} \notin T
      BY <1>2, <1>4
    <2>. QED  BY <1>3, <1>4, <1>6, <2>1
  <1>8. SumFunctionOnSet(f, s \ {y}) = f[c] + SumFunctionOnSet(f, (s \ {y}) \ {c})
    <2>1. s \ {y} \notin T
      BY <1>2, <1>3
    <2>. QED  BY <1>3, <1>4, <1>6, <2>1
  <1>9. PICK rest : rest = (s \ {c}) \ {y} /\ rest = (s \ {y}) \ {c} /\ Terms(f, rest)
    <2>1. Terms(f, (s \ {c}) \ {y})
      BY <1>3, FS_Subset DEF Terms
    <2>2. (s \ {c}) \ {y} = (s \ {y}) \ {c}
      OBVIOUS
    <2>. QED  BY <2>1, <2>2
  <1>10. SumFunctionOnSet(f, rest) \in Int
    BY <1>9, SumType
  <1>11. PICK p \in Int, q \in Int, r \in Int :
            p = f[c] /\ q = f[y] /\ r = SumFunctionOnSet(f, rest)
    BY <1>3, <1>4, <1>10 DEF Terms
  <1>12. SumFunctionOnSet(f, s) = p + (q + r)
    BY <1>5, <1>7, <1>9, <1>11
  <1>13. SumFunctionOnSet(f, s \ {y}) = p + r
    BY <1>8, <1>9, <1>11
  <1>14. SumFunctionOnSet(f, s) # q + (p + r)
    BY <1>3, <1>11, <1>13
  <1>. QED  BY <1>12, <1>14

Without(S, x) == S \ {x}

\* The same, with a name for the rest that the provers can match.
LEMMA SumWithout ==
  ASSUME NEW f, NEW S, NEW x, x \in S, Terms(f, S)
  PROVE  SumFunctionOnSet(f, S) = f[x] + SumFunctionOnSet(f, Without(S, x))
  <1>1. PICK rest : rest = S \ {x}
    OBVIOUS
  <1>2. SumFunctionOnSet(f, S) = f[x] + SumFunctionOnSet(f, rest)
    BY <1>1, SumTake
  <1>. QED  BY <1>1, <1>2 DEF Without

\* What a sum is does not depend on anything but its terms.
LEMMA SumSame ==
  ASSUME NEW f, NEW g, NEW S, IsFiniteSet(S), \A x \in S : f[x] = g[x]
  PROVE  SumFunctionOnSet(f, S) = SumFunctionOnSet(g, S)
  <1>. DEFINE T == {t \in SUBSET S : SumFunctionOnSet(f, t) # SumFunctionOnSet(g, t)}
  <1>1. SUFFICES ASSUME T # {} PROVE FALSE
    OBVIOUS
  <1>2. PICK s \in T : \A u \in T : u \subseteq s => u = s
    <2>1. T \subseteq SUBSET S
      OBVIOUS
    <2>. HIDE DEF T
    <2>. QED  BY <1>1, <2>1, Smallest
  <1>3. s \in SUBSET S /\ SumFunctionOnSet(f, s) # SumFunctionOnSet(g, s) /\ IsFiniteSet(s)
    BY <1>2, FS_Subset
  <1>4. s # {}
    <2>1. s = {} => SumFunctionOnSet(f, s) = 0
      BY <1>3, SumStep
    <2>2. s = {} => SumFunctionOnSet(g, s) = 0
      BY <1>3, SumStep
    <2>. QED  BY <1>3, <2>1, <2>2
  <1>5. PICK x : x = Chosen(s) /\ x \in s
    BY <1>4, ChosenIn
  <1>6. SumFunctionOnSet(f, s) = f[x] + SumFunctionOnSet(f, s \ {x})
    BY <1>3, <1>4, <1>5, SumStep
  <1>7. SumFunctionOnSet(g, s) = g[x] + SumFunctionOnSet(g, s \ {x})
    BY <1>3, <1>4, <1>5, SumStep
  <1>8. SumFunctionOnSet(f, s \ {x}) = SumFunctionOnSet(g, s \ {x})
    BY <1>2, <1>3, <1>5
  <1>. QED  BY <1>3, <1>5, <1>6, <1>7, <1>8

LEMMA SumEmpty == ASSUME NEW f PROVE SumFunctionOnSet(f, {}) = 0
  BY SumStep, FS_EmptySet

\* One term more.
LEMMA SumAdd ==
  ASSUME NEW f, NEW S, NEW x, x \notin S, Terms(f, S \cup {x})
  PROVE  SumFunctionOnSet(f, S \cup {x}) = f[x] + SumFunctionOnSet(f, S)
  <1>1. SumFunctionOnSet(f, S \cup {x}) = f[x] + SumFunctionOnSet(f, (S \cup {x}) \ {x})
    BY SumTake
  <1>2. (S \cup {x}) \ {x} = S
    OBVIOUS
  <1>. QED  BY <1>1, <1>2

\* f and g differ in x at most.
SameBut(f, g, S, x) == \A y \in S \ {x} : f[y] = g[y]

\* One term changes.
LEMMA SumChange ==
  ASSUME NEW f, NEW g, NEW S, NEW x \in S, Terms(f, S), Terms(g, S), SameBut(f, g, S, x)
  PROVE  SumFunctionOnSet(g, S) = SumFunctionOnSet(f, S) - f[x] + g[x]
  <1>1. PICK rest : rest = S \ {x} /\ Terms(f, rest)
    BY FS_Subset DEF Terms
  <1>2. SumFunctionOnSet(f, rest) = SumFunctionOnSet(g, rest)
    BY <1>1, SumSame DEF Terms, SameBut
  <1>3. PICK a \in Int, b \in Int, r \in Int :
           a = f[x] /\ b = g[x] /\ r = SumFunctionOnSet(f, rest)
    BY <1>1, SumType DEF Terms
  <1>4. SumFunctionOnSet(f, S) = f[x] + SumFunctionOnSet(f, rest)
    BY <1>1, SumTake
  <1>5. SumFunctionOnSet(g, S) = g[x] + SumFunctionOnSet(g, rest)
    BY <1>1, SumTake
  <1>. QED  BY <1>2, <1>3, <1>4, <1>5

\* The sum of two functions, term by term.
AddsUp(f, g, h, S) == \A x \in S : h[x] = f[x] + g[x]

LEMMA SumPlus ==
  ASSUME NEW f, NEW g, NEW h, NEW S, Terms(f, S), Terms(g, S), AddsUp(f, g, h, S)
  PROVE  SumFunctionOnSet(h, S) = SumFunctionOnSet(f, S) + SumFunctionOnSet(g, S)
  <1>. DEFINE Bad(t) == SumFunctionOnSet(h, t) # SumFunctionOnSet(f, t) + SumFunctionOnSet(g, t)
              T == {t \in SUBSET S : Bad(t)}
  <1>1. SUFFICES ASSUME T # {} PROVE FALSE
    OBVIOUS
  <1>2. PICK s \in T : \A u \in T : u \subseteq s => u = s
    <2>1. T \subseteq SUBSET S /\ IsFiniteSet(S)
      BY DEF Terms
    <2>. HIDE DEF T
    <2>. QED  BY <1>1, <2>1, Smallest
  <1>3. s \in SUBSET S /\ Bad(s) /\ IsFiniteSet(s)
    BY <1>2, FS_Subset DEF Terms
  <1>4. s # {}
    <2>1. SumFunctionOnSet(f, {}) = 0 /\ SumFunctionOnSet(g, {}) = 0
          /\ SumFunctionOnSet(h, {}) = 0
      BY SumEmpty
    <2>. QED  BY <1>3, <2>1
  <1>5. PICK x : x \in s
    BY <1>4
  <1>6. PICK rest : rest = s \ {x} /\ Terms(f, rest) /\ Terms(g, rest)
    BY <1>3, FS_Subset DEF Terms
  <1>7. ~Bad(rest)
    BY <1>2, <1>3, <1>5, <1>6
  <1>8. Terms(f, s) /\ Terms(g, s) /\ Terms(h, s)
    BY <1>3 DEF Terms, AddsUp
  <1>9. PICK a \in Int, b \in Int, p \in Int, q \in Int :
           /\ a = f[x] /\ p = SumFunctionOnSet(f, rest)
           /\ b = g[x] /\ q = SumFunctionOnSet(g, rest)
    BY <1>5, <1>6, <1>8, SumType DEF Terms
  <1>10. SumFunctionOnSet(f, s) = f[x] + SumFunctionOnSet(f, rest)
    BY <1>5, <1>6, <1>8, SumTake
  <1>11. SumFunctionOnSet(g, s) = g[x] + SumFunctionOnSet(g, rest)
    BY <1>5, <1>6, <1>8, SumTake
  <1>12. SumFunctionOnSet(h, s) = (a + b) + (p + q)
    <2>1. h[x] = a + b
      BY <1>3, <1>5, <1>9 DEF AddsUp
    <2>2. SumFunctionOnSet(h, s) = h[x] + SumFunctionOnSet(h, rest)
      BY <1>5, <1>6, <1>8, SumTake
    <2>. QED  BY <1>7, <1>9, <2>1, <2>2
  <1>. QED  BY <1>3, <1>9, <1>10, <1>11, <1>12

\* No term of g is less than that of f.
NoMoreThan(f, g, S) == \A x \in S : f[x] <= g[x]

LEMMA SumMonotone ==
  ASSUME NEW f, NEW g, NEW S, Terms(f, S), Terms(g, S), NoMoreThan(f, g, S)
  PROVE  SumFunctionOnSet(f, S) <= SumFunctionOnSet(g, S)
  <1>. DEFINE Bad(t) == ~(SumFunctionOnSet(f, t) <= SumFunctionOnSet(g, t))
              T == {t \in SUBSET S : Bad(t)}
  <1>1. SUFFICES ASSUME T # {} PROVE FALSE
    OBVIOUS
  <1>2. PICK s \in T : \A u \in T : u \subseteq s => u = s
    <2>1. T \subseteq SUBSET S /\ IsFiniteSet(S)
      BY DEF Terms
    <2>. HIDE DEF T
    <2>. QED  BY <1>1, <2>1, Smallest
  <1>3. s \in SUBSET S /\ Bad(s) /\ IsFiniteSet(s)
    BY <1>2, FS_Subset DEF Terms
  <1>4. s # {}
    <2>1. SumFunctionOnSet(f, {}) = 0 /\ SumFunctionOnSet(g, {}) = 0
      BY SumEmpty
    <2>. QED  BY <1>3, <2>1
  <1>5. PICK x : x \in s
    BY <1>4
  <1>6. PICK rest : rest = s \ {x} /\ Terms(f, rest) /\ Terms(g, rest)
    BY <1>3, FS_Subset DEF Terms
  <1>7. ~Bad(rest)
    BY <1>2, <1>3, <1>5, <1>6
  <1>8. Terms(f, s) /\ Terms(g, s)
    BY <1>3 DEF Terms
  <1>9. PICK a \in Int, b \in Int, p \in Int, q \in Int :
           /\ a = f[x] /\ p = SumFunctionOnSet(f, rest)
           /\ b = g[x] /\ q = SumFunctionOnSet(g, rest)
    BY <1>5, <1>6, <1>8, SumType DEF Terms
  <1>10. SumFunctionOnSet(f, s) = f[x] + SumFunctionOnSet(f, rest)
    BY <1>5, <1>6, <1>8, SumTake
  <1>11. SumFunctionOnSet(g, s) = g[x] + SumFunctionOnSet(g, rest)
    BY <1>5, <1>6, <1>8, SumTake
  <1>12. a <= b /\ p <= q
    BY <1>3, <1>5, <1>7, <1>9 DEF NoMoreThan
  <1>. QED  BY <1>3, <1>9, <1>10, <1>11, <1>12

\* A sum of zeros.
LEMMA SumZero ==
  ASSUME NEW f, NEW S, IsFiniteSet(S), \A x \in S : f[x] = 0
  PROVE  SumFunctionOnSet(f, S) = 0
  <1>1. Terms(f, S) /\ AddsUp(f, f, f, S)
    BY DEF Terms, AddsUp
  <1>2. SumFunctionOnSet(f, S) \in Int
    BY <1>1, SumType
  <1>3. SumFunctionOnSet(f, S) = SumFunctionOnSet(f, S) + SumFunctionOnSet(f, S)
    BY <1>1, SumPlus
  <1>4. PICK n \in Int : n = SumFunctionOnSet(f, S)
    BY <1>2
  <1>5. n = n + n
    BY <1>3, <1>4
  <1>6. n = 0
    BY <1>5
  <1>. QED  BY <1>4, <1>6

LEMMA SumNat ==
  ASSUME NEW f, NEW S, Terms(f, S), \A x \in S : f[x] >= 0
  PROVE  SumFunctionOnSet(f, S) \in Nat
  <1>1. PICK z : z = [x \in S |-> 0]
    OBVIOUS
  <1>2. Terms(z, S) /\ NoMoreThan(z, f, S) /\ \A x \in S : z[x] = 0
    BY <1>1 DEF Terms, NoMoreThan
  <1>3. SumFunctionOnSet(z, S) = 0
    BY <1>2, SumZero DEF Terms
  <1>4. SumFunctionOnSet(z, S) <= SumFunctionOnSet(f, S)
    BY <1>2, SumMonotone
  <1>5. SumFunctionOnSet(f, S) \in Int
    BY SumType
  <1>. QED  BY <1>3, <1>4, <1>5

\* A part of a sum of natural numbers.
LEMMA SumPart ==
  ASSUME NEW f, NEW S, NEW x \in S, Terms(f, S), \A y \in S : f[y] >= 0
  PROVE  f[x] <= SumFunctionOnSet(f, S)
  <1>1. PICK rest : rest = S \ {x} /\ Terms(f, rest) /\ \A y \in rest : f[y] >= 0
    BY FS_Subset DEF Terms
  <1>2. SumFunctionOnSet(f, rest) \in Nat
    BY <1>1, SumNat
  <1>3. SumFunctionOnSet(f, S) = f[x] + SumFunctionOnSet(f, rest)
    BY <1>1, SumTake
  <1>4. f[x] \in Int
    BY DEF Terms
  <1>. QED  BY <1>2, <1>3, <1>4

\* Only the terms of R count.
Picks(f, g, R, S) == \A x \in S : g[x] = IF x \in R THEN f[x] ELSE 0

LEMMA SumPicks ==
  ASSUME NEW f, NEW g, NEW S, NEW R \in SUBSET S, Terms(f, R), IsFiniteSet(S), Picks(f, g, R, S)
  PROVE  SumFunctionOnSet(g, S) = SumFunctionOnSet(f, R)
  <1>. DEFINE Rest(t) == R \cup t
              Bad(t) == SumFunctionOnSet(g, Rest(t)) # SumFunctionOnSet(f, R)
              T == {t \in SUBSET (S \ R) : Bad(t)}
  <1>1. SUFFICES ASSUME T # {} PROVE FALSE
    <2>1. S \ R \in SUBSET (S \ R) /\ Rest(S \ R) = S
      OBVIOUS
    <2>2. SumFunctionOnSet(g, Rest(S \ R)) = SumFunctionOnSet(f, R)
      BY <2>1
    <2>. HIDE DEF Rest
    <2>. QED  BY <2>1, <2>2
  <1>2. PICK s \in T : \A u \in T : u \subseteq s => u = s
    <2>1. T \subseteq SUBSET (S \ R) /\ IsFiniteSet(S \ R)
      BY FS_Subset
    <2>. HIDE DEF T
    <2>. QED  BY <1>1, <2>1, Smallest
  <1>3. s \in SUBSET (S \ R) /\ Bad(s)
    BY <1>2
  <1>4. s # {}
    <2>1. \A x \in R : g[x] = f[x]
      BY DEF Picks
    <2>2. SumFunctionOnSet(g, R) = SumFunctionOnSet(f, R)
      BY <2>1, SumSame DEF Terms
    <2>3. Rest({}) = R
      OBVIOUS
    <2>. QED  BY <1>3, <2>2, <2>3
  <1>5. PICK x : x \in s
    BY <1>4
  <1>6. PICK rest : rest = R \cup (s \ {x})
    OBVIOUS
  <1>7. SumFunctionOnSet(g, rest) = SumFunctionOnSet(f, R)
    <2>1. s \ {x} \notin T
      BY <1>2, <1>5
    <2>. QED  BY <1>3, <1>6, <2>1
  <1>8. Rest(s) = rest \cup {x} /\ x \notin rest /\ g[x] = 0
    BY <1>3, <1>5, <1>6 DEF Picks
  <1>9. Terms(g, Rest(s)) /\ Terms(g, rest)
    <2>1. \A y \in S : g[y] \in Int
      BY DEF Picks, Terms
    <2>2. Rest(s) \subseteq S /\ rest \subseteq S
      BY <1>3, <1>6
    <2>. QED  BY <2>1, <2>2, FS_Subset DEF Terms
  <1>10. SumFunctionOnSet(g, Rest(s)) = g[x] + SumFunctionOnSet(g, rest)
    <2>. HIDE DEF Rest
    <2>. QED  BY <1>8, <1>9, SumAdd
  <1>11. PICK n \in Int : n = SumFunctionOnSet(g, rest)
    BY <1>9, SumType
  <1>12. SumFunctionOnSet(g, Rest(s)) = n
    BY <1>8, <1>10, <1>11
  <1>. QED  BY <1>3, <1>7, <1>11, <1>12

\* g has the terms of f under other names.
Renames(f, g, h, S) ==
    /\ \A x, y \in S : h[x] = h[y] => x = y
    /\ \A x \in S : g[x] = f[h[x]]

Named(h, S) == {h[x] : x \in S}

LEMMA SumRenamed ==
  ASSUME NEW f, NEW g, NEW h, NEW S, Terms(g, S), Renames(f, g, h, S)
  PROVE  SumFunctionOnSet(g, S) = SumFunctionOnSet(f, Named(h, S))
  <1>. DEFINE Bad(t) == SumFunctionOnSet(g, t) # SumFunctionOnSet(f, Named(h, t))
              T == {t \in SUBSET S : Bad(t)}
  <1>1. SUFFICES ASSUME T # {} PROVE FALSE
    OBVIOUS
  <1>2. PICK s \in T : \A u \in T : u \subseteq s => u = s
    <2>1. T \subseteq SUBSET S /\ IsFiniteSet(S)
      BY DEF Terms
    <2>. HIDE DEF T
    <2>. QED  BY <1>1, <2>1, Smallest
  <1>3. s \in SUBSET S /\ Bad(s)
    BY <1>2
  <1>4. s # {}
    <2>1. Named(h, {}) = {} /\ SumFunctionOnSet(g, {}) = 0 /\ SumFunctionOnSet(f, {}) = 0
      BY SumEmpty DEF Named
    <2>. QED  BY <1>3, <2>1
  <1>5. PICK x : x \in s
    BY <1>4
  <1>6. PICK rest : rest = s \ {x}
    OBVIOUS
  <1>7. SumFunctionOnSet(g, rest) = SumFunctionOnSet(f, Named(h, rest))
    BY <1>2, <1>3, <1>5, <1>6
  <1>8. Terms(g, s) /\ Terms(g, rest)
    BY <1>3, <1>6, FS_Subset DEF Terms
  <1>9. SumFunctionOnSet(g, s) = g[x] + SumFunctionOnSet(g, rest)
    <2>. HIDE DEF T, Bad
    <2>1. SumFunctionOnSet(g, s) = g[x] + SumFunctionOnSet(g, s \ {x})
      BY <1>5, <1>8, SumTake
    <2>. QED  BY <1>6, <2>1
  <1>10. Named(h, s) = Named(h, rest) \cup {h[x]} /\ h[x] \notin Named(h, rest)
    <2>1. s = rest \cup {x}
      BY <1>5, <1>6
    <2>2. \A y \in rest : h[y] # h[x]
      BY <1>3, <1>5, <1>6 DEF Renames
    <2>. QED  BY <2>1, <2>2 DEF Named
  <1>11. Terms(f, Named(h, s))
    <2>1. IsFiniteSet(s)
      BY <1>8 DEF Terms
    <2>2. IsFiniteSet(Named(h, s))
      <3>1. PICK r : r = [y \in s |-> h[y]]
        OBVIOUS
      <3>2. r \in Surjection(s, Named(h, s))
        BY <3>1 DEF Surjection, Named
      <3>. QED  BY <2>1, <3>2, FS_Surjection
    <2>3. \A y \in s : f[h[y]] \in Int
      BY <1>3, <1>8 DEF Renames, Terms
    <2>. QED  BY <2>2, <2>3 DEF Terms, Named
  <1>12. PICK n : n = h[x]
    OBVIOUS
  <1>13. SumFunctionOnSet(f, Named(h, rest) \cup {n}) = f[n] + SumFunctionOnSet(f, Named(h, rest))
    BY <1>10, <1>11, <1>12, SumAdd
  <1>14. g[x] = f[n]
    BY <1>3, <1>5, <1>12 DEF Renames
  <1>. QED  BY <1>3, <1>7, <1>9, <1>10, <1>12, <1>13, <1>14

\* The terms of S that p gives to a.
Part(p, S, a) == {x \in S : p[x] = a}

\* A sum by parts.
LEMMA SumByParts ==
  ASSUME NEW f, NEW p, NEW S, NEW A, NEW g, Terms(f, S), IsFiniteSet(A),
         \A x \in S : p[x] \in A,
         \A a \in A : g[a] = SumFunctionOnSet(f, Part(p, S, a))
  PROVE  SumFunctionOnSet(g, A) = SumFunctionOnSet(f, S)
  <1>. DEFINE By(t) == [a \in A |-> SumFunctionOnSet(f, Part(p, t, a))]
              Bad(t) == SumFunctionOnSet(By(t), A) # SumFunctionOnSet(f, t)
              T == {t \in SUBSET S : Bad(t)}
  <1>1. SumFunctionOnSet(g, A) = SumFunctionOnSet(By(S), A)
    BY SumSame
  <1>2. SUFFICES ASSUME T # {} PROVE FALSE
    BY <1>1
  <1>3. PICK s \in T : \A u \in T : u \subseteq s => u = s
    <2>1. T \subseteq SUBSET S /\ IsFiniteSet(S)
      BY DEF Terms
    <2>. HIDE DEF T
    <2>. QED  BY <1>2, <2>1, Smallest
  <1>4. s \in SUBSET S /\ Bad(s)
    BY <1>3
  <1>5. s # {}
    <2>1. \A a : Part(p, {}, a) = {}
      BY DEF Part
    <2>2. \A a \in A : By({})[a] = 0
      BY <2>1, SumEmpty
    <2>3. SumFunctionOnSet(By({}), A) = 0
      <3>. HIDE DEF By
      <3>. QED  BY <2>2, SumZero
    <2>4. SumFunctionOnSet(f, {}) = 0
      BY SumEmpty
    <2>. QED  BY <1>4, <2>3, <2>4
  <1>6. PICK x : x \in s
    BY <1>5
  <1>7. PICK rest : rest = s \ {x}
    OBVIOUS
  <1>8. SumFunctionOnSet(By(rest), A) = SumFunctionOnSet(f, rest)
    BY <1>3, <1>4, <1>6, <1>7
  <1>9. ASSUME NEW t \in SUBSET S PROVE Terms(f, t) /\ Terms(By(t), A)
    <2>1. \A a \in A : Terms(f, Part(p, t, a))
      BY FS_Subset DEF Terms, Part
    <2>2. \A a \in A : By(t)[a] \in Int
      BY <2>1, SumType
    <2>. QED  BY <2>2, FS_Subset DEF Terms
  <1>10. SumFunctionOnSet(f, s) = f[x] + SumFunctionOnSet(f, rest)
    <2>1. Terms(f, s)
      BY <1>4, <1>9
    <2>. HIDE DEF T, Bad
    <2>2. SumFunctionOnSet(f, s) = f[x] + SumFunctionOnSet(f, s \ {x})
      BY <1>6, <2>1, SumTake
    <2>. QED  BY <1>7, <2>2
  <1>11. PICK b \in A : b = p[x]
    BY <1>4, <1>6
  <1>12. By(s)[b] = f[x] + By(rest)[b]
    <2>1. PICK u, v : u = Part(p, s, b) /\ v = Part(p, rest, b)
      OBVIOUS
    <2>2. u = v \cup {x} /\ x \notin v
      BY <1>6, <1>7, <1>11, <2>1 DEF Part
    <2>3. Terms(f, u)
      BY <1>4, <2>1, FS_Subset DEF Terms, Part
    <2>4. SumFunctionOnSet(f, u) = f[x] + SumFunctionOnSet(f, v)
      BY <2>2, <2>3, SumAdd
    <2>5. By(s)[b] = SumFunctionOnSet(f, u) /\ By(rest)[b] = SumFunctionOnSet(f, v)
      BY <2>1
    <2>. QED  BY <2>4, <2>5
  <1>13. SameBut(By(rest), By(s), A, b)
    <2>1. \A a \in A \ {b} : Part(p, s, a) = Part(p, rest, a)
      BY <1>6, <1>7, <1>11 DEF Part
    <2>. QED  BY <2>1 DEF SameBut
  <1>14. Terms(By(s), A) /\ Terms(By(rest), A) /\ Terms(f, s) /\ Terms(f, rest)
    BY <1>4, <1>7, <1>9
  <1>. HIDE DEF By
  <1>15. SumFunctionOnSet(By(s), A) = SumFunctionOnSet(By(rest), A) - By(rest)[b] + By(s)[b]
    BY <1>13, <1>14, SumChange
  <1>16. PICK c \in Int, d \in Int, e \in Int :
            /\ c = f[x] /\ d = By(rest)[b] /\ e = SumFunctionOnSet(f, rest)
    BY <1>6, <1>14, SumType DEF Terms
  <1>17. SumFunctionOnSet(By(s), A) = e - d + (c + d)
    BY <1>8, <1>12, <1>15, <1>16
  <1>18. SumFunctionOnSet(f, s) = c + e
    BY <1>10, <1>16
  <1>. QED  BY <1>4, <1>16, <1>17, <1>18

\* A sum over one place more.
LEMMA SumOneMore ==
  ASSUME NEW n \in Nat, NEW f, NEW g, Terms(g, 1 .. n + 1), \A i \in 1 .. n : f[i] = g[i]
  PROVE  /\ SumFunctionOnSet(g, 1 .. n + 1) = SumFunctionOnSet(f, 1 .. n) + g[n + 1]
         /\ SumFunctionOnSet(f, 1 .. n) \in Int /\ g[n + 1] \in Int
  <1>1. PICK all, some, last : all = 1 .. n + 1 /\ some = 1 .. n /\ last = n + 1
    OBVIOUS
  <1>2. all = some \cup {last} /\ last \notin some /\ last \in all
    BY <1>1
  <1>3. Terms(g, some \cup {last}) /\ Terms(g, some)
    BY <1>1, <1>2, FS_Subset DEF Terms
  <1>4. SumFunctionOnSet(g, some \cup {last}) = g[last] + SumFunctionOnSet(g, some)
    BY <1>2, <1>3, SumAdd
  <1>5. SumFunctionOnSet(f, some) = SumFunctionOnSet(g, some)
    BY <1>1, <1>3, SumSame DEF Terms
  <1>6. PICK a \in Int, b \in Int : a = g[last] /\ b = SumFunctionOnSet(g, some)
    BY <1>1, <1>2, <1>3, SumType DEF Terms
  <1>7. SumFunctionOnSet(g, all) = b + a
    BY <1>2, <1>4, <1>6
  <1>. QED  BY <1>1, <1>5, <1>6, <1>7

----------------------------------------------------------------------------
\* A set of numbers that is not empty has a least one, and a finite one has
\* a greatest one.
LEMMA LeastNumber ==
  ASSUME NEW T, T \subseteq Nat, T # {}
  PROVE  \E m \in T : \A y \in T : m <= y
  <1>. DEFINE R == OpToRel(<, Nat)
  <1>1. IsWellFoundedOn(R, Nat)
    BY NatLessThanWellFounded
  <1>2. \A x, y \in Nat : <<y, x>> \in R <=> y < x
    BY DEF OpToRel
  <1>. HIDE DEF R
  <1>3. PICK m \in T : \A y \in T : ~(<<y, m>> \in R)
    BY <1>1, WFMin
  <1>4. ASSUME NEW y \in T PROVE m <= y
    <2>1. y \in Nat /\ m \in Nat /\ ~(y < m)
      BY <1>2, <1>3
    <2>. QED  BY <2>1
  <1>. QED  BY <1>4

\* g is f, k times.
Scales(f, g, k, S) == \A x \in S : g[x] = f[x] * k

LEMMA SumScale ==
  ASSUME NEW f, NEW g, NEW k \in Int, NEW S, Terms(f, S), Scales(f, g, k, S)
  PROVE  SumFunctionOnSet(g, S) = SumFunctionOnSet(f, S) * k
  <1>. DEFINE Bad(t) == SumFunctionOnSet(g, t) # SumFunctionOnSet(f, t) * k
              T == {t \in SUBSET S : Bad(t)}
  <1>1. SUFFICES ASSUME T # {} PROVE FALSE
    OBVIOUS
  <1>2. PICK s \in T : \A u \in T : u \subseteq s => u = s
    <2>1. T \subseteq SUBSET S /\ IsFiniteSet(S)
      BY DEF Terms
    <2>. HIDE DEF T
    <2>. QED  BY <1>1, <2>1, Smallest
  <1>3. s \in SUBSET S /\ Bad(s) /\ IsFiniteSet(s) /\ Terms(f, s)
    BY <1>2, FS_Subset DEF Terms
  <1>4. s # {}
    BY <1>3, SumEmpty
  <1>5. PICK x : x \in s
    BY <1>4
  <1>6. PICK rest : rest = s \ {x} /\ Terms(f, rest)
    BY <1>3, FS_Subset DEF Terms
  <1>7. ~Bad(rest)
    BY <1>2, <1>3, <1>5, <1>6
  <1>8. Terms(f, s) /\ Terms(g, s)
    BY <1>3 DEF Terms, Scales
  <1>. HIDE DEF T, Bad
  <1>9. PICK a \in Int, p \in Int : a = f[x] /\ p = SumFunctionOnSet(f, rest)
    BY <1>3, <1>5, <1>6, SumType DEF Terms
  <1>10. SumFunctionOnSet(f, s) = f[x] + SumFunctionOnSet(f, rest)
    BY <1>5, <1>6, <1>8, SumTake
  <1>11. SumFunctionOnSet(g, s) = g[x] + SumFunctionOnSet(g, rest)
    BY <1>5, <1>6, <1>8, SumTake
  <1>12. g[x] = a * k /\ SumFunctionOnSet(g, rest) = p * k
    BY <1>3, <1>5, <1>7, <1>9 DEF Scales, Bad
  <1>13. a * k + p * k = (a + p) * k
    OBVIOUS
  <1>. QED  BY <1>3, <1>9, <1>10, <1>11, <1>12, <1>13 DEF Bad

\* Equal terms.
LEMMA SumEqual ==
  ASSUME NEW f, NEW S, NEW c \in Int, IsFiniteSet(S), \A x \in S : f[x] = c
  PROVE  SumFunctionOnSet(f, S) = c * Cardinality(S)
  <1>. DEFINE Bad(t) == SumFunctionOnSet(f, t) # c * Cardinality(t)
              T == {t \in SUBSET S : Bad(t)}
  <1>1. SUFFICES ASSUME T # {} PROVE FALSE
    OBVIOUS
  <1>2. PICK s \in T : \A u \in T : u \subseteq s => u = s
    <2>1. T \subseteq SUBSET S
      OBVIOUS
    <2>. HIDE DEF T
    <2>. QED  BY <1>1, <2>1, Smallest
  <1>3. s \in SUBSET S /\ IsFiniteSet(s)
    BY <1>2, FS_Subset
  <1>4. CASE s = {}
    <2>1. Cardinality(s) = 0 /\ SumFunctionOnSet(f, s) = 0
      BY <1>4, FS_EmptySet, SumEmpty
    <2>. QED  BY <1>2, <2>1
  <1>5. CASE s # {}
    <2>1. PICK x : x \in s
      BY <1>5
    <2>2. PICK w : w = s \ {x}
      OBVIOUS
    <2>3. Terms(f, s)
      BY <1>3 DEF Terms
    <2>4. SumFunctionOnSet(f, s) = c + SumFunctionOnSet(f, w)
      BY <1>3, <2>1, <2>2, <2>3, SumTake
    <2>5. /\ IsFiniteSet(w) /\ Cardinality(w) = Cardinality(s) - 1
          /\ Cardinality(s) \in Nat
      BY <1>3, <2>1, <2>2, FS_RemoveElement, FS_CardinalityType
    <2>6. w \in SUBSET S /\ w # s /\ w \subseteq s
      BY <1>3, <2>1, <2>2
    <2>7. ~Bad(w)
      BY <1>2, <2>6
    <2>8. PICK n \in Int : n = Cardinality(s)
      BY <2>5
    <2>9. SumFunctionOnSet(f, w) = c * (n - 1)
      BY <2>5, <2>7, <2>8
    <2>10. c + c * (n - 1) = c * n
      OBVIOUS
    <2>. QED  BY <1>2, <2>4, <2>8, <2>9, <2>10
  <1>. QED  BY <1>4, <1>5

----------------------------------------------------------------------------
\* What an integer division returns.
LEMMA Quotient ==
  ASSUME NEW a \in Nat, NEW b \in Nat, b > 0
  PROVE  /\ a \div b \in Nat
         /\ b * (a \div b) <= a /\ a < b * ((a \div b) + 1)
  OBVIOUS

\* What is left of a number modulo another.
LEMMA Remains ==
  ASSUME NEW n \in Nat, NEW w \in Nat, n < w
  PROVE  n % w = n
  OBVIOUS

LEMMA RemainderIn ==
  ASSUME NEW n \in Int, NEW w \in Nat, w > 0
  PROVE  n % w \in 0 .. w - 1
  OBVIOUS

\* Remainders are determined by their bounds, so a remainder may be taken
\* early or late.
LEMMA RemainderIs ==
  ASSUME NEW q \in Int, NEW r \in Nat, NEW w \in Nat, r < w
  PROVE  (q * w + r) % w = r
  <1>1. PICK n \in Int : n = q * w + r
    OBVIOUS
  <1>2. PICK d \in Int, m \in Nat : d = n \div w /\ m = n % w /\ n = w * d + m /\ m < w
    OBVIOUS
  <1>3. w * d + m = w * q + r
    BY <1>1, <1>2
  <1>4. ASSUME d < q PROVE FALSE
    <2>1. PICK k \in Nat : q = d + 1 + k
      BY <1>4
    <2>2. w * q = w * d + w + w * k /\ w * k \in Nat
      BY <2>1
    <2>3. PICK x, y \in Int, z \in Nat : x = w * q /\ y = w * d /\ z = w * k
      BY <2>2
    <2>. QED  BY <1>2, <1>3, <2>2, <2>3
  <1>5. ASSUME q < d PROVE FALSE
    <2>1. PICK k \in Nat : d = q + 1 + k
      BY <1>5
    <2>2. w * d = w * q + w + w * k /\ w * k \in Nat
      BY <2>1
    <2>3. PICK x, y \in Int, z \in Nat : x = w * q /\ y = w * d /\ z = w * k
      BY <2>2
    <2>. QED  BY <1>2, <1>3, <2>2, <2>3
  <1>6. d = q
    BY <1>4, <1>5
  <1>. QED  BY <1>1, <1>2, <1>3, <1>6

LEMMA RemainderOfSum ==
  ASSUME NEW x \in Int, NEW y \in Int, NEW w \in Nat, w > 0
  PROVE  ((x % w) + y) % w = (x + y) % w
  <1>1. PICK m \in Nat, d \in Int : m = x % w /\ x = d * w + m
    <2>1. x % w \in Nat /\ x \div w \in Int /\ x = (x \div w) * w + (x % w)
      OBVIOUS
    <2>. QED  BY <2>1
  <1>2. PICK r \in Nat, q \in Int : r = (m + y) % w /\ m + y = q * w + r /\ r < w
    <2>1. PICK z \in Int : z = m + y
      OBVIOUS
    <2>2. z % w \in Nat /\ z % w < w /\ z \div w \in Int /\ z = (z \div w) * w + (z % w)
      OBVIOUS
    <2>. QED  BY <2>1, <2>2
  <1>3. (d + q) * w = d * w + q * w
    OBVIOUS
  <1>4. PICK e \in Int : e = d + q
    OBVIOUS
  <1>5. x + y = e * w + r
    BY <1>1, <1>2, <1>3, <1>4
  <1>6. (e * w + r) % w = r
    BY ONLY <1>2, <1>4, RemainderIs
  <1>. QED  BY <1>1, <1>2, <1>5, <1>6

LEMMA QuotientAtLeast ==
  ASSUME NEW a \in Nat, NEW b \in Nat, b > 0, NEW q \in Nat, b * q <= a
  PROVE  q <= a \div b
  <1>1. PICK r \in Nat : r = a \div b /\ b * r <= a /\ a < b * (r + 1)
    BY Quotient
  <1>2. ASSUME r < q PROVE FALSE
    <2>1. r + 1 <= q
      BY <1>2
    <2>2. b * (r + 1) <= b * q
      BY <2>1
    <2>. QED  BY <1>1, <2>2
  <1>. QED  BY <1>1, <1>2

LEMMA QuotientAtMost ==
  ASSUME NEW a \in Nat, NEW b \in Nat, b > 0, NEW q \in Nat, a <= b * q
  PROVE  a \div b <= q
  <1>1. PICK r \in Nat : r = a \div b /\ b * r <= a /\ a < b * (r + 1)
    BY Quotient
  <1>2. ASSUME q < r PROVE FALSE
    <2>1. q + 1 <= r
      BY <1>2
    <2>2. b * (q + 1) <= b * r
      BY <2>1
    <2>3. b * (q + 1) = b * q + b
      OBVIOUS
    <2>. QED  BY <1>1, <2>2, <2>3
  <1>. QED  BY <1>1, <1>2

\* A quotient is determined by its bounds.
LEMMA QuotientIs ==
  ASSUME NEW a \in Nat, NEW b \in Nat, b > 0, NEW q \in Nat, b * q <= a, a < b * (q + 1)
  PROVE  a \div b = q
  <1>1. PICK r \in Nat : r = a \div b /\ b * r <= a /\ a < b * (r + 1)
    BY Quotient
  <1>2. q <= r
    BY <1>1, QuotientAtLeast
  <1>3. ASSUME q < r PROVE FALSE
    <2>1. q + 1 <= r
      BY <1>3
    <2>2. b * (q + 1) <= b * r
      BY <2>1
    <2>. QED  BY <1>1, <2>2
  <1>. QED  BY <1>1, <1>2, <1>3

\* Dividing twice.
LEMMA QuotientTwice ==
  ASSUME NEW a \in Nat, NEW b \in Nat, b > 0
  PROVE  (a \div b) \div 2 = a \div (b * 2)
  <1>1. PICK q \in Nat : q = a \div b /\ b * q <= a /\ a < b * (q + 1)
    BY Quotient
  <1>2. PICK h \in Nat : h = q \div 2 /\ 2 * h <= q /\ q + 1 <= 2 * (h + 1)
    <2>1. q \div 2 \in Nat /\ 2 * (q \div 2) <= q /\ q < 2 * ((q \div 2) + 1)
      OBVIOUS
    <2>. QED  BY <2>1
  <1>3. (b * 2) * h <= a
    <2>1. b * (2 * h) <= b * q
      BY <1>2
    <2>2. (b * 2) * h = b * (2 * h)
      OBVIOUS
    <2>. QED  BY <1>1, <2>1, <2>2
  <1>4. a < (b * 2) * (h + 1)
    <2>1. b * (q + 1) <= b * (2 * (h + 1))
      BY <1>2
    <2>2. (b * 2) * (h + 1) = b * (2 * (h + 1))
      OBVIOUS
    <2>. QED  BY <1>1, <2>1, <2>2
  <1>5. b * 2 \in Nat /\ b * 2 > 0
    OBVIOUS
  <1>. QED  BY <1>1, <1>2, <1>3, <1>4, <1>5, QuotientIs

----------------------------------------------------------------------------
\* Twice as many subsets.
LEMMA SubsetsDouble ==
  ASSUME NEW S, IsFiniteSet(S), NEW x, x \notin S
  PROVE  Cardinality(SUBSET (S \cup {x})) = 2 * Cardinality(SUBSET S)
  <1>1. PICK A, B : A = SUBSET S /\ B = {s \cup {x} : s \in A}
    OBVIOUS
  <1>2. IsFiniteSet(A) /\ Cardinality(A) \in Nat
    BY <1>1, FS_SUBSET, FS_CardinalityType
  <1>3. PICK f : f = [s \in A |-> s \cup {x}]
    OBVIOUS
  <1>4. f \in Bijection(A, B)
    <2>1. f \in [A -> B] /\ \A s \in A : f[s] = s \cup {x}
      BY <1>1, <1>3
    <2>2. \A s, r \in A : f[s] = f[r] => s = r
      <3>1. ASSUME NEW s \in A, NEW r \in A, f[s] = f[r] PROVE s = r
        <4>1. s \cup {x} = r \cup {x} /\ x \notin s /\ x \notin r
          BY <1>1, <2>1, <3>1
        <4>. QED  BY <4>1
      <3>. QED  BY <3>1
    <2>3. \A b \in B : \E s \in A : f[s] = b
      BY <1>1, <2>1
    <2>. QED  BY <2>1, <2>2, <2>3 DEF Bijection, Injection, Surjection, IsInjective
  <1>5. IsFiniteSet(B) /\ Cardinality(B) = Cardinality(A)
    BY <1>2, <1>4, FS_Bijection DEF ExistsBijection
  <1>6. SUBSET (S \cup {x}) = A \cup B /\ A \cap B = {}
    <2>1. ASSUME NEW s \in SUBSET (S \cup {x}) PROVE s \in A \cup B
      <3>1. CASE x \in s
        <4>1. s \ {x} \in A /\ s = (s \ {x}) \cup {x}
          BY <1>1, <3>1
        <4>. QED  BY <1>1, <4>1
      <3>2. CASE x \notin s
        BY <1>1, <3>2
      <3>. QED  BY <3>1, <3>2
    <2>2. A \cup B \subseteq SUBSET (S \cup {x}) /\ A \cap B = {}
      BY <1>1
    <2>. QED  BY <2>1, <2>2
  <1>7. Cardinality(A \cup B) = Cardinality(A) + Cardinality(B) - Cardinality(A \cap B)
    BY <1>2, <1>5, FS_Union
  <1>8. Cardinality(A \cap B) = 0
    BY <1>6, FS_EmptySet
  <1>9. PICK n \in Nat : n = Cardinality(A)
    BY <1>2
  <1>10. Cardinality(A \cup B) = 2 * n
    BY <1>5, <1>7, <1>8, <1>9
  <1>. QED  BY <1>1, <1>6, <1>9, <1>10

\* The powers of two.
LEMMA PowerOfTwo ==
  /\ 2 ^ 0 = 1
  /\ \A n \in Nat : 2 ^ n \in Nat /\ 2 ^ n > 0 /\ 2 ^ (n + 1) = 2 ^ n * 2
  <1>1. 2 ^ 0 = 1
    <2>1. IsFiniteSet({}) /\ Cardinality({}) = 0
      BY FS_EmptySet
    <2>2. Cardinality(SUBSET {}) = 2 ^ Cardinality({})
      BY <2>1, FS_SUBSET
    <2>3. SUBSET {} = {{}} /\ Cardinality({{}}) = 1
      BY FS_Singleton
    <2>. QED  BY <2>1, <2>2, <2>3
  <1>2. ASSUME NEW n \in Nat PROVE 2 ^ n \in Nat /\ 2 ^ n > 0 /\ 2 ^ (n + 1) = 2 ^ n * 2
    <2>1. PICK S, x, R : S = 1 .. n /\ x = n + 1 /\ R = S \cup {x}
      OBVIOUS
    <2>2. IsFiniteSet(S) /\ Cardinality(S) = n /\ x \notin S
      BY <2>1, FS_Interval
    <2>3. IsFiniteSet(R) /\ Cardinality(R) = n + 1
      BY <2>1, <2>2, FS_AddElement
    <2>4. /\ Cardinality(SUBSET S) = 2 ^ Cardinality(S) /\ IsFiniteSet(SUBSET S)
          /\ Cardinality(SUBSET R) = 2 ^ Cardinality(R)
      BY <2>2, <2>3, FS_SUBSET
    <2>5. Cardinality(SUBSET R) = 2 * Cardinality(SUBSET S)
      BY <2>1, <2>2, SubsetsDouble
    <2>6. PICK a \in Nat : a = Cardinality(SUBSET S) /\ a # 0
      <3>1. Cardinality(SUBSET S) \in Nat /\ SUBSET S # {}
        BY <2>4, FS_CardinalityType
      <3>2. Cardinality(SUBSET S) # 0
        BY <2>4, <3>1, FS_EmptySet
      <3>. QED  BY <3>1, <3>2
    <2>7. 2 ^ n = a /\ 2 ^ (n + 1) = 2 * a
      BY <2>2, <2>3, <2>4, <2>5, <2>6
    <2>. QED  BY <2>6, <2>7
  <1>. QED  BY <1>1, <1>2
=============================================================================
