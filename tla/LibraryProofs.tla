--------------------------- MODULE LibraryProofs ---------------------------
(***************************************************************************)
(* Proofs about what a run of the pipeline settles.  First Pruning, for any *)
(* services, tags and rows of one picture: pruning its manual rows changes  *)
(* nothing of what the services give it.  GateHistory::plan decides for each *)
(* service apart which rows its gate needs, and then reduces, promotes and  *)
(* levels the rows together.  Then TaggingPipeline, for any pictures,       *)
(* services, tags, edits, patches, renames, chunk size and number of        *)
(* changes: a picture no service makes dirty carries what the services give *)
(* it, and a run takes off no tag its user gave.  Then ContentGroups, for   *)
(* any rows, keys and tags: a run that nothing overtook settles the group it *)
(* writes.  Last, both as Library joins them.                               *)
(*                                                                         *)
(* Induction is by the least counterexample: of a set of naturals, or of    *)
(* the subsets of a finite set.                                             *)
(***************************************************************************)
EXTENDS Library, FiniteSetTheorems, WellFoundedInduction, TLAPS
-----------------------------------------------------------------------------
(* Paths *)

LEMMA AncestorByLabel ==
    ASSUME NEW L, NEW a \in Seq(L), NEW b \in Seq(L)
    PROVE  IsAncestorOrSelf(a, b) <=> Len(a) <= Len(b) /\ \A i \in 1..Len(a) : a[i] = b[i]
<1>1. ASSUME Len(a) <= Len(b)
      PROVE  /\ SubSeq(b, 1, Len(a)) \in Seq(L) /\ Len(SubSeq(b, 1, Len(a))) = Len(a)
             /\ \A i \in 1..Len(a) : SubSeq(b, 1, Len(a))[i] = b[i]
  BY <1>1
<1>2. ASSUME Len(a) <= Len(b), \A i \in 1..Len(a) : a[i] = b[i]
      PROVE  SubSeq(b, 1, Len(a)) = a
  BY <1>1, <1>2
<1> QED BY <1>1, <1>2 DEF IsAncestorOrSelf

LEMMA AncestorOfSelf == ASSUME NEW L, NEW a \in Seq(L) PROVE IsAncestorOrSelf(a, a)
BY AncestorByLabel

LEMMA AncestorTransitive ==
    ASSUME NEW L, NEW a \in Seq(L), NEW b \in Seq(L), NEW c \in Seq(L),
           IsAncestorOrSelf(a, b), IsAncestorOrSelf(b, c)
    PROVE  IsAncestorOrSelf(a, c)
BY AncestorByLabel

LEMMA AncestorsEqual ==
    ASSUME NEW L, NEW a \in Seq(L), NEW b \in Seq(L), IsAncestorOrSelf(a, b), Len(a) >= Len(b)
    PROVE  a = b
BY AncestorByLabel

LEMMA AncestorsChain ==
    ASSUME NEW L, NEW a \in Seq(L), NEW b \in Seq(L), NEW m \in Seq(L),
           IsAncestorOrSelf(a, m), IsAncestorOrSelf(b, m), Len(a) <= Len(b)
    PROVE  IsAncestorOrSelf(a, b)
BY AncestorByLabel

LEMMA Proper ==
    ASSUME NEW L, NEW a \in Seq(L), NEW b \in Seq(L), IsAncestorOf(a, b)
    PROVE  Len(a) < Len(b) /\ IsAncestorOrSelf(a, b)
BY AncestorsEqual DEF IsAncestorOf, IsAncestorOrSelf
-----------------------------------------------------------------------------
(* Finite sets *)

LEMMA SmallestSet ==
    ASSUME NEW D, IsFiniteSet(D), NEW bad \in SUBSET SUBSET D, bad # {}
    PROVE  \E T \in bad : \A U \in SUBSET T : U # T => U \notin bad
<1>1. bad \subseteq FiniteSubsetsOf(D) BY FS_Subset DEF FiniteSubsetsOf
<1>2. PICK T \in bad : \A U \in bad : ~(<<U, T>> \in StrictSubsetOrdering(D))
  BY <1>1, FS_StrictSubsetOrderingWellFounded, WFMin
<1>3. \A U \in SUBSET T : U # T /\ U \in bad => <<U, T>> \in StrictSubsetOrdering(D)
  BY DEF StrictSubsetOrdering
<1>4. \A U \in SUBSET T : U # T => U \notin bad BY <1>2, <1>3
<1> QED BY <1>4

LEMMA FiniteMaximum ==
    ASSUME NEW S, IsFiniteSet(S), S # {}, NEW R,
           \A x, y \in S : <<x, y>> \in R \/ <<y, x>> \in R,
           \A x, y, z \in S : <<x, y>> \in R /\ <<y, z>> \in R => <<x, z>> \in R
    PROVE  \E m \in S : \A x \in S : <<x, m>> \in R
<1> DEFINE Topped(T) == \E m \in T : \A x \in T : <<x, m>> \in R
           bad == {T \in SUBSET S : T # {} /\ ~Topped(T)}
<1> SUFFICES ASSUME ~Topped(S) PROVE FALSE
  OBVIOUS
<1>1. S \in bad OBVIOUS
<1>2. PICK T \in bad : \A U \in SUBSET T : U # T => U \notin bad
  <2>1. bad \in SUBSET SUBSET S OBVIOUS
  <2> HIDE DEF bad
  <2> QED BY <1>1, <2>1, SmallestSet
<1>3. PICK x \in T : TRUE OBVIOUS
<1>4. T \ {x} = {} \/ Topped(T \ {x})
  <2>1. T \ {x} \in SUBSET T /\ T \ {x} # T /\ T \ {x} \in SUBSET S BY <1>3
  <2>2. T \ {x} \notin bad
    <3> HIDE DEF bad
    <3> QED BY <1>2, <2>1
  <2> QED BY <2>1, <2>2
<1>5. CASE T \ {x} = {}
  <2>1. \A y \in T : y = x BY <1>5
  <2>2. Topped(T) BY <2>1
  <2> QED BY <2>2
<1>6. CASE Topped(T \ {x})
  <2>1. PICK m \in T \ {x} : \A y \in T \ {x} : <<y, m>> \in R BY <1>6
  <2>2. CASE <<x, m>> \in R
    <3>1. \A y \in T : <<y, m>> \in R BY <2>1, <2>2
    <3> QED BY <3>1
  <2>3. CASE <<m, x>> \in R
    <3>1. \A y \in T : <<y, x>> \in R BY <2>1, <2>3, <1>3
    <3> QED BY <3>1
  <2> QED BY <2>2, <2>3
<1> QED BY <1>4, <1>5, <1>6

LEMMA LeastNatural ==
    ASSUME NEW S \in SUBSET Nat, S # {}
    PROVE  \E m \in S : \A n \in S : m <= n
<1>1. PICK m \in S : \A n \in S : ~(<<n, m>> \in OpToRel(<, Nat))
  BY NatLessThanWellFounded, WFMin
<1>2. \A n \in S : ~(n < m) BY <1>1 DEF OpToRel
<1>3. ASSUME NEW n \in S PROVE m <= n
  <2>1. n \in Nat /\ m \in Nat /\ ~(n < m) BY <1>2
  <2> QED BY <2>1
<1> QED BY <1>3

LEMMA DeepestAbove ==
    ASSUME NEW L, NEW S \in SUBSET Seq(L), IsFiniteSet(S), NEW a \in S
    PROVE  \E b \in FoldDeepest(S) : IsAncestorOrSelf(a, b)
<1> DEFINE T == {q \in S : IsAncestorOrSelf(a, q)}
           R == {pair \in T \X T : Len(pair[1]) <= Len(pair[2])}
<1>1. IsFiniteSet(T) BY FS_Subset
<1>2. T # {} BY AncestorOfSelf
<1>3. /\ \A x, y \in T : <<x, y>> \in R \/ <<y, x>> \in R
      /\ \A x, y, z \in T : <<x, y>> \in R /\ <<y, z>> \in R => <<x, z>> \in R
  <2>1. \A x \in T : Len(x) \in Nat OBVIOUS
  <2>2. \A x, y \in T : <<x, y>> \in R <=> Len(x) <= Len(y) OBVIOUS
  <2> HIDE DEF R, T
  <2> QED BY <2>1, <2>2
<1>4. PICK m \in T : \A x \in T : <<x, m>> \in R
  <2> HIDE DEF R, T
  <2> QED BY <1>1, <1>2, <1>3, FiniteMaximum
<1>5. \A q \in S : ~IsAncestorOf(m, q)
  <2> SUFFICES ASSUME NEW q \in S, IsAncestorOf(m, q) PROVE FALSE
    OBVIOUS
  <2>1. Len(m) < Len(q) /\ IsAncestorOrSelf(m, q) BY Proper
  <2>2. q \in T BY <2>1, AncestorTransitive
  <2>3. Len(q) <= Len(m) BY <2>2, <1>4
  <2> QED BY <2>1, <2>3
<1> QED BY <1>5 DEF FoldDeepest
-----------------------------------------------------------------------------
(* The outputs of a list of services *)

Step(svcs, base, out, k) ==
    IF Fires(svcs[k], SeenBy(out, base, k)) THEN FoldDeepest(svcs[k].emits) ELSE {}

IsOutput(svcs, base, out, n) == out = [k \in 1..n |-> Step(svcs, base, out, k)]

LEMMA StepLooksBack ==
    ASSUME NEW svcs, NEW base, NEW f, NEW g, NEW k \in Nat, \A j \in 1..(k - 1) : f[j] = g[j]
    PROVE  SeenBy(f, base, k) = SeenBy(g, base, k) /\ Step(svcs, base, f, k) = Step(svcs, base, g, k)
<1>1. {f[j] : j \in 1..(k - 1)} = {g[j] : j \in 1..(k - 1)} OBVIOUS
<1> QED BY <1>1 DEF SeenBy, Step

LEMMA OutputsExist ==
    ASSUME NEW svcs, NEW base, NEW n \in Nat
    PROVE  \E f : IsOutput(svcs, base, f, n)
<1> DEFINE bad == {m \in Nat : ~\E f : IsOutput(svcs, base, f, m)}
<1> SUFFICES ASSUME n \in bad PROVE FALSE
  OBVIOUS
<1>1. PICK m \in bad : \A l \in bad : m <= l
  <2>1. bad \in SUBSET Nat /\ bad # {} OBVIOUS
  <2> HIDE DEF bad
  <2> QED BY <2>1, LeastNatural
<1>2. m # 0
  <2>1. 1..0 = {} OBVIOUS
  <2>2. [k \in 1..0 |-> {}] = [k \in 1..0 |-> Step(svcs, base, [j \in 1..0 |-> {}], k)] BY <2>1
  <2> QED BY <2>2 DEF IsOutput
<1>3. m - 1 \in Nat /\ m - 1 \notin bad BY <1>1, <1>2
<1>4. PICK f : IsOutput(svcs, base, f, m - 1) BY <1>3
<1> DEFINE g == [k \in 1..m |-> IF k < m THEN f[k] ELSE Step(svcs, base, f, m)]
<1>5. ASSUME NEW k \in 1..m PROVE g[k] = Step(svcs, base, g, k)
  <2>1. \A j \in 1..(k - 1) : g[j] = f[j] OBVIOUS
  <2>2. Step(svcs, base, g, k) = Step(svcs, base, f, k)
    <3> HIDE DEF g
    <3> QED BY <2>1, StepLooksBack
  <2>3. CASE k < m
    <3>1. f[k] = Step(svcs, base, f, k) BY <1>4, <2>3 DEF IsOutput
    <3> QED BY <2>2, <2>3, <3>1
  <2>4. CASE k = m BY <2>2, <2>4
  <2> QED BY <2>3, <2>4
<1>6. g = [k \in 1..m |-> Step(svcs, base, g, k)] BY <1>5
<1>7. IsOutput(svcs, base, g, m) BY <1>6 DEF IsOutput
<1> QED BY <1>7

LEMMA OutputsStep ==
    ASSUME NEW svcs, Len(svcs) \in Nat, NEW base
    PROVE  IsOutput(svcs, base, Outputs(svcs, base), Len(svcs))
<1> DEFINE P(f) == f = [k \in 1..Len(svcs) |->
                IF Fires(svcs[k], SeenBy(f, base, k)) THEN FoldDeepest(svcs[k].emits) ELSE {}]
<1>1. \E f : P(f)
  <2>1. PICK f : IsOutput(svcs, base, f, Len(svcs)) BY OutputsExist
  <2>2. P(f) BY <2>1 DEF IsOutput, Step
  <2> QED BY <2>2
<1>2. Outputs(svcs, base) = CHOOSE f : P(f) BY DEF Outputs
<1>3. P(Outputs(svcs, base)) 
  <2> HIDE DEF P
  <2> QED BY <1>1, <1>2
<1> QED BY <1>3 DEF Step, IsOutput

LEMMA OutputsUnique ==
    ASSUME NEW svcs, Len(svcs) \in Nat, NEW base, NEW f, IsOutput(svcs, base, f, Len(svcs))
    PROVE  f = Outputs(svcs, base)
<1> DEFINE g == Outputs(svcs, base)
           bad == {k \in 1..Len(svcs) : f[k] # g[k]}
<1>1. bad = {}
  <2> SUFFICES ASSUME bad # {} PROVE FALSE
    OBVIOUS
  <2>1. PICK k \in bad : \A j \in bad : k <= j
    <3>1. bad \in SUBSET Nat OBVIOUS
    <3> HIDE DEF bad
    <3> QED BY <3>1, LeastNatural
  <2>2. \A j \in 1..(k - 1) : f[j] = g[j] BY <2>1
  <2>3. Step(svcs, base, f, k) = Step(svcs, base, g, k)
    <3> HIDE DEF g
    <3> QED BY <2>2, StepLooksBack
  <2>4. f[k] = Step(svcs, base, f, k) BY DEF IsOutput
  <2>5. g[k] = Step(svcs, base, g, k)
    <3>1. IsOutput(svcs, base, g, Len(svcs)) BY OutputsStep
    <3> HIDE DEF g
    <3> QED BY <3>1 DEF IsOutput
  <2> QED BY <2>1, <2>3, <2>4, <2>5
<1>2. IsOutput(svcs, base, g, Len(svcs)) BY OutputsStep
<1>3. f = [k \in 1..Len(svcs) |-> f[k]] BY DEF IsOutput
<1>4. g = [k \in 1..Len(svcs) |-> g[k]]
  <2> HIDE DEF g
  <2> QED BY <1>2 DEF IsOutput
<1>5. \A k \in 1..Len(svcs) : f[k] = g[k] BY <1>1
<1>6. f = g
  <2> HIDE DEF g
  <2> QED BY <1>3, <1>4, <1>5
<1> QED BY <1>6
-----------------------------------------------------------------------------
(* What the plan makes of the manual rows *)

(* the rows that go are covered by what comes, the others and what comes by what is left *)
Levelled(mine, remove, assign, n, after) ==
    /\ after \subseteq mine \cup assign
    /\ \A r \in mine \ remove : \E x \in after : IsAncestorOrSelf(r, x)
    /\ \A a \in assign : \E x \in after : IsAncestorOrSelf(a, x)
    /\ n.assign \subseteq assign /\ n.remove \subseteq mine
    /\ \A r \in n.remove : r \in remove \/ \E a \in assign : IsAncestorOrSelf(r, a)

LEMMA NormalizedCovers ==
    ASSUME NEW L, NEW mine \in SUBSET Seq(L), NEW remove \in SUBSET mine,
           NEW assign \in SUBSET Seq(L), IsFiniteSet(assign), NEW after,
           NEW n, n = Normalized(mine, remove, assign), after = Replace(mine, n.remove, n.assign)
    PROVE  Levelled(mine, remove, assign, n, after)
<1> DEFINE remaining == mine \ remove
           wanted == {a \in FoldDeepest(assign) : \A r \in remaining : ~IsAncestorOrSelf(a, r)}
           above == {r \in remaining : \E a \in wanted : IsAncestorOf(r, a)}
<1>1. after = (mine \ ((remove \ wanted) \cup above)) \cup (wanted \ mine)
  BY DEF Normalized, Replace
<1>2. wanted \subseteq assign BY DEF FoldDeepest
<1>3. wanted \subseteq after
  <2> SUFFICES ASSUME NEW a \in wanted, a \in mine PROVE a \in after
    BY <1>1
  <2>1. a \notin remaining BY AncestorOfSelf
  <2> QED BY <1>1, <2>1
<1>4. ASSUME NEW r \in remaining PROVE \E x \in after : IsAncestorOrSelf(r, x)
  <2>1. CASE r \in above
    <3>1. PICK a \in wanted : IsAncestorOf(r, a) BY <2>1
    <3> QED BY <1>3, <3>1 DEF IsAncestorOf
  <2>2. CASE r \notin above
    <3>1. r \in after BY <1>1, <2>2
    <3> QED BY <3>1, AncestorOfSelf
  <2> QED BY <2>1, <2>2
<1>5. ASSUME NEW a \in assign PROVE \E x \in after : IsAncestorOrSelf(a, x)
  <2>1. PICK b \in FoldDeepest(assign) : IsAncestorOrSelf(a, b) BY DeepestAbove
  <2>2. b \in assign BY DEF FoldDeepest
  <2>3. CASE b \in wanted BY <1>3, <2>1, <2>3
  <2>4. CASE b \notin wanted
    <3>1. PICK r \in remaining : IsAncestorOrSelf(b, r) BY <2>4
    <3>2. PICK x \in after : IsAncestorOrSelf(r, x) BY <1>4
    <3>3. x \in Seq(L) /\ r \in Seq(L) BY <1>1, <1>2
    <3> QED BY <2>1, <2>2, <3>1, <3>2, <3>3, AncestorTransitive
  <2> QED BY <2>3, <2>4
<1>6. after \subseteq mine \cup assign BY <1>1, <1>2
<1>7. n.assign \subseteq wanted /\ n.remove \subseteq remove \cup above BY DEF Normalized
<1>8. \A r \in n.remove : r \in remove \/ \E a \in assign : IsAncestorOrSelf(r, a)
  BY <1>2, <1>7 DEF IsAncestorOf
<1> QED BY <1>2, <1>4, <1>5, <1>6, <1>7, <1>8 DEF Levelled

LEMMA DeepestOf ==
    ASSUME NEW L, NEW m \in Seq(L), NEW A \in SUBSET Seq(L), A # {},
           \A a \in A : IsAncestorOrSelf(a, m)
    PROVE  Deepest(A) \in A /\ \A a \in A : IsAncestorOrSelf(a, Deepest(A))
<1> DEFINE short == {Len(m) - Len(a) : a \in A}
<1>1. \A a \in A : Len(a) \in Nat /\ Len(m) \in Nat /\ Len(a) <= Len(m) BY DEF IsAncestorOrSelf
<1>2. short \in SUBSET Nat /\ short # {} BY <1>1
<1>3. PICK d \in A : \A n \in short : Len(m) - Len(d) <= n
  <2>1. PICK s \in short : \A n \in short : s <= n
    <3> HIDE DEF short
    <3> QED BY <1>2, LeastNatural
  <2> QED BY <2>1
<1>4. \A a \in A : Len(a) <= Len(d)
  <2> SUFFICES ASSUME NEW a \in A PROVE Len(a) <= Len(d)
    OBVIOUS
  <2>1. Len(m) - Len(d) <= Len(m) - Len(a) BY <1>3
  <2>2. Len(a) \in Nat /\ Len(d) \in Nat /\ Len(m) \in Nat BY <1>1
  <2> QED BY <2>1, <2>2
<1>5. Deepest(A) \in A /\ \A a \in A : Len(a) <= Len(Deepest(A)) BY <1>4 DEF Deepest
<1> QED BY <1>5, AncestorsChain

(* the services gate on tags of T and keep tags of T *)
GatesOn(svcs, T) ==
    /\ Len(svcs) \in Nat /\ DOMAIN svcs = 1..Len(svcs)
    /\ \A k \in DOMAIN svcs :
           /\ svcs[k].requires \subseteq T /\ svcs[k].excludes \subseteq T
           /\ svcs[k].keep \subseteq T /\ svcs[k].emits \subseteq T

LEMMA AnchorsAbove ==
    ASSUME NEW T, NEW svcs, GatesOn(svcs, T), NEW out, NEW mine, NEW others, NEW m,
           NEW f \in Anchors(svcs, out, mine, others, m)
    PROVE  f \in T /\ IsAncestorOrSelf(f, m)
BY DEF Anchors, GatesOn, Hits

LEMMA NeededIsAnchor ==
    ASSUME NEW svcs, NEW out, NEW mine, NEW others, NEW k \in DOMAIN svcs,
           Fires(svcs[k], SeenBy(out, mine \cup others, k)), NEW arm \in svcs[k].requires,
           NEW t \in Hits(arm, SeenBy(out, mine \cup others, k)),
           \A s \in Hits(arm, SeenBy(out, mine \cup others, k)) :
               ~Survives(s, k, mine, others, Candidates(svcs, out, mine), out)
    PROVE  arm \in Anchors(svcs, out, mine, others, t)
<1> DEFINE candidates == Candidates(svcs, out, mine)
           base == mine \cup others
           Needed(j) == {a \in svcs[j].requires :
               t \in Hits(a, SeenBy(out, base, j))
               /\ \A s \in Hits(a, SeenBy(out, base, j)) : ~Survives(s, j, mine, others, candidates, out)}
           Fired == {j \in DOMAIN svcs : Fires(svcs[j], SeenBy(out, base, j))}
<1>1. arm \in Needed(k) /\ k \in Fired OBVIOUS
<1>2. arm \in UNION {Needed(j) : j \in Fired}
  <2> HIDE DEF Needed, Fired
  <2> QED BY <1>1
<1>3. UNION {Needed(j) : j \in Fired} \subseteq Anchors(svcs, out, mine, others, t) BY DEF Anchors
<1> QED BY <1>2, <1>3

(* what is taken from the rows is covered by what is left, and every anchor is *)
Covered(svcs, T, mine, others, out, loose, after) ==
    /\ IsFiniteSet(after) /\ after \subseteq T
    /\ \A x \in after : \E m \in mine : IsAncestorOrSelf(x, m)
    /\ IsFiniteSet(Plan(svcs, mine, others).assign) /\ Plan(svcs, mine, others).assign \subseteq T
    /\ \A r \in Plan(svcs, mine, others).remove : \E m \in loose : r \in T /\ IsAncestorOrSelf(r, m)
    /\ \A r \in mine \ loose : \E x \in after : IsAncestorOrSelf(r, x)
    /\ \A m \in loose : \A f \in Anchors(svcs, out, mine, others, m) :
           \E x \in after : IsAncestorOrSelf(f, x)

LEMMA PlanCovers ==
    ASSUME NEW L, NEW T \in SUBSET Seq(L), NEW svcs, GatesOn(svcs, T),
           NEW mine \in SUBSET T, IsFiniteSet(mine), NEW others \in SUBSET T,
           NEW out, out = Outputs(svcs, mine \cup others),
           NEW loose, loose = Candidates(svcs, out, mine) \ Kept(svcs, out, mine, others),
           NEW after, after = Pruned(svcs, mine, others)
    PROVE  Covered(svcs, T, mine, others, out, loose, after)
<1> DEFINE A(m) == Anchors(svcs, out, mine, others, m)
           moved == {m \in loose : A(m) # {} /\ Deepest(A(m)) # m}
           bare == {m \in loose : A(m) = {}}
           assign == {Deepest(A(m)) : m \in moved}
           drop == moved \cup bare
           n == Normalized(mine, drop, assign)
<1>1. n = Plan(svcs, mine, others) /\ after = Replace(mine, n.remove, n.assign) BY DEF Plan, Pruned
<1>2. loose \subseteq mine BY DEF Candidates
<1>3. ASSUME NEW m \in loose, A(m) # {}
      PROVE  /\ Deepest(A(m)) \in A(m) /\ Deepest(A(m)) \in T /\ IsAncestorOrSelf(Deepest(A(m)), m)
             /\ \A f \in A(m) : IsAncestorOrSelf(f, Deepest(A(m)))
  <2>1. \A f \in A(m) : f \in T /\ IsAncestorOrSelf(f, m) BY AnchorsAbove
  <2>2. m \in Seq(L) /\ A(m) \in SUBSET Seq(L) BY <1>2, <2>1
  <2> HIDE DEF A
  <2>3. Deepest(A(m)) \in A(m) /\ \A f \in A(m) : IsAncestorOrSelf(f, Deepest(A(m)))
    BY <1>3, <2>1, <2>2, DeepestOf
  <2> QED BY <2>1, <2>3
<1>4. assign \in SUBSET T /\ \A a \in assign : \E m \in loose : IsAncestorOrSelf(a, m)
  <2>1. ASSUME NEW m \in moved
        PROVE  Deepest(A(m)) \in T /\ \E l \in loose : IsAncestorOrSelf(Deepest(A(m)), l)
    <3>1. m \in loose /\ A(m) # {} OBVIOUS
    <3>2. Deepest(A(m)) \in T /\ IsAncestorOrSelf(Deepest(A(m)), m) BY <1>3, <3>1
    <3> QED BY <3>1, <3>2
  <2> HIDE DEF A, moved
  <2> QED BY <2>1
<1>5. IsFiniteSet(assign)
  <2> DEFINE g == [m \in moved |-> Deepest(A(m))]
  <2>1. IsFiniteSet(moved)
    <3>1. moved \subseteq mine BY <1>2
    <3> HIDE DEF moved
    <3> QED BY <3>1, FS_Subset
  <2>2. g \in Surjection(moved, assign)
    <3> HIDE DEF A
    <3> QED BY DEF Surjection
  <2> HIDE DEF g, moved, assign
  <2> QED BY <2>1, <2>2, FS_Surjection
<1>6. drop \in SUBSET mine /\ mine \in SUBSET Seq(L) /\ assign \in SUBSET Seq(L) BY <1>2, <1>4
<1>7. /\ after \subseteq mine \cup assign
      /\ \A r \in mine \ drop : \E x \in after : IsAncestorOrSelf(r, x)
      /\ \A a \in assign : \E x \in after : IsAncestorOrSelf(a, x)
      /\ n.assign \subseteq assign /\ n.remove \subseteq mine
      /\ \A r \in n.remove : r \in drop \/ \E a \in assign : IsAncestorOrSelf(r, a)
  <2> HIDE DEF assign, drop
  <2>1. n = Normalized(mine, drop, assign) OBVIOUS
  <2> HIDE DEF n
  <2>2. Levelled(mine, drop, assign, n, after) BY <1>1, <1>5, <1>6, <2>1, NormalizedCovers
  <2> QED BY <2>2 DEF Levelled
<1>8. IsFiniteSet(after) /\ after \subseteq T
  <2>1. IsFiniteSet(mine \cup assign)
    <3> HIDE DEF assign
    <3> QED BY <1>5, FS_Union
  <2> HIDE DEF assign
  <2> QED BY <1>4, <1>7, <2>1, FS_Subset
<1>9. \A x \in after : \E m \in mine : IsAncestorOrSelf(x, m)
  <2>1. \A m \in mine : IsAncestorOrSelf(m, m) BY AncestorOfSelf
  <2> HIDE DEF assign
  <2> QED BY <1>2, <1>4, <1>7, <2>1
<1>10. ASSUME NEW m \in loose, NEW f \in A(m) PROVE \E x \in after : IsAncestorOrSelf(f, x)
  <2> DEFINE d == Deepest(A(m))
  <2>1. d \in T /\ f \in T /\ IsAncestorOrSelf(f, d) BY <1>3, AnchorsAbove
  <2>2. PICK x \in after : IsAncestorOrSelf(d, x)
    <3>1. CASE d = m
      <4>1. m \notin drop BY <3>1
      <4>2. m \in mine \ drop BY <1>2, <4>1
      <4> HIDE DEF assign, drop, A, n, d
      <4>3. PICK x \in after : IsAncestorOrSelf(m, x) BY <1>7, <4>2
      <4> QED BY <3>1, <4>3
    <3>2. CASE d # m
      <4>1. d \in assign BY <3>2
      <4> HIDE DEF assign
      <4> QED BY <1>7, <4>1
    <3> QED BY <3>1, <3>2
  <2>3. x \in T
    <3> QED BY <1>8
  <2> HIDE DEF d
  <2>4. IsAncestorOrSelf(f, x) BY <2>1, <2>2, <2>3, AncestorTransitive
  <2> QED BY <2>4
<1>11. \A r \in mine \ loose : \E x \in after : IsAncestorOrSelf(r, x)
  <2>1. drop \subseteq loose OBVIOUS
  <2> HIDE DEF drop
  <2> QED BY <1>7, <2>1
<1>12. \A r \in n.remove : \E m \in loose : r \in T /\ IsAncestorOrSelf(r, m)
  <2>1. drop \subseteq loose OBVIOUS
  <2>2. \A m \in loose : IsAncestorOrSelf(m, m) BY <1>2, AncestorOfSelf
  <2> HIDE DEF drop, assign, n
  <2>3. SUFFICES ASSUME NEW r \in n.remove PROVE \E m \in loose : r \in T /\ IsAncestorOrSelf(r, m)
    OBVIOUS
  <2>4. r \in T BY <1>7
  <2>5. CASE r \in drop BY <2>1, <2>2, <2>4, <2>5
  <2>6. CASE r \notin drop
    <3>1. PICK a \in assign : IsAncestorOrSelf(r, a) BY <1>7, <2>6
    <3>2. PICK m \in loose : IsAncestorOrSelf(a, m) BY <1>4
    <3>3. IsAncestorOrSelf(r, m) BY <1>2, <1>4, <2>4, <3>1, <3>2, AncestorTransitive
    <3> QED BY <2>4, <3>3
  <2> QED BY <2>5, <2>6
<1>13. IsFiniteSet(n.assign) /\ n.assign \subseteq T
  <2> HIDE DEF n, assign
  <2> QED BY <1>4, <1>5, <1>7, FS_Subset
<1> HIDE DEF A, n
<1> QED BY <1>1, <1>8, <1>9, <1>10, <1>11, <1>12, <1>13 DEF Covered, A
-----------------------------------------------------------------------------
(* Pruning changes no gate *)

(* The services produce the same tags once the manual rows have been pruned. *)
THEOREM PruneIsNeutral ==
    ASSUME NEW L, NEW T \in SUBSET Seq(L), NEW svcs, GatesOn(svcs, T),
           NEW mine \in SUBSET T, IsFiniteSet(mine), NEW others \in SUBSET T,
           NEW after, after = Pruned(svcs, mine, others)
    PROVE  Outputs(svcs, after \cup others) = Outputs(svcs, mine \cup others)
<1> DEFINE out == Outputs(svcs, mine \cup others)
           cands == Candidates(svcs, out, mine)
           kept == Kept(svcs, out, mine, others)
           loose == cands \ kept
           seen(k) == SeenBy(out, mine \cup others, k)
           left(k) == SeenBy(out, after \cup others, k)
           lasts(t, k) == Survives(t, k, mine, others, cands, out)
<1>0. \A k \in 1..Len(svcs) : out[k] \subseteq T
  <2>1. IsOutput(svcs, mine \cup others, out, Len(svcs)) BY OutputsStep DEF GatesOn
  <2> HIDE DEF out
  <2> QED BY <2>1 DEF IsOutput, Step, FoldDeepest, GatesOn
<1>1. /\ after \subseteq T
      /\ \A x \in after : \E m \in mine : IsAncestorOrSelf(x, m)
      /\ \A r \in mine \ loose : \E x \in after : IsAncestorOrSelf(r, x)
      /\ \A m \in loose : \A f \in Anchors(svcs, out, mine, others, m) :
             \E x \in after : IsAncestorOrSelf(f, x)
  <2>1. out = Outputs(svcs, mine \cup others) /\ loose = Candidates(svcs, out, mine) \ Kept(svcs, out, mine, others)
    OBVIOUS
  <2> HIDE DEF out, loose
  <2>2. Covered(svcs, T, mine, others, out, loose, after) BY <2>1, PlanCovers
  <2> QED BY <2>2 DEF Covered
<1> HIDE DEF out, cands, kept
<1>2. ASSUME NEW k \in 1..Len(svcs)
      PROVE  /\ \A x \in seen(k) : x \in T /\ (x \in mine \/ x \in others \/ \E j \in 1..(k - 1) : x \in out[j])
             /\ \A x \in left(k) : x \in T /\ (x \in after \/ x \in others \/ \E j \in 1..(k - 1) : x \in out[j])
             /\ \A x : (x \in after \/ x \in others \/ \E j \in 1..(k - 1) : x \in out[j]) => x \in left(k)
             /\ \A x : (x \in mine \/ x \in others \/ \E j \in 1..(k - 1) : x \in out[j]) => x \in seen(k)
  <2>1. \A j \in 1..(k - 1) : j \in 1..Len(svcs) BY DEF GatesOn
  <2> QED BY <1>0, <1>1, <2>1 DEF SeenBy
<1>3. ASSUME NEW k \in 1..Len(svcs), NEW x \in left(k) PROVE \E y \in seen(k) : IsAncestorOrSelf(x, y)
  <2> HIDE DEF seen, left
  <2>1. CASE x \in after BY <1>1, <1>2, <2>1
  <2>2. CASE x \notin after
    <3>1. x \in seen(k) /\ x \in T BY <1>2, <2>2
    <3> QED BY <3>1, AncestorOfSelf
  <2> QED BY <2>1, <2>2
<1>4. ASSUME NEW k \in 1..Len(svcs), NEW t \in seen(k), lasts(t, k) \/ t \in mine \ loose
      PROVE  \E x \in left(k) : IsAncestorOrSelf(t, x)
  <2>1. t \in others \/ t \in mine \ loose \/ \E j \in 1..(k - 1) : t \in out[j]
    BY <1>4 DEF Survives
  <2>2. t \in T BY <1>2
  <2> HIDE DEF left, loose
  <2>3. CASE t \in mine \ loose BY <1>1, <1>2, <2>3
  <2>4. CASE t \notin mine \ loose
    <3>1. t \in left(k) BY <1>2, <2>1, <2>4
    <3> QED BY <2>2, <3>1, AncestorOfSelf
  <2> QED BY <2>3, <2>4
<1>5. ASSUME NEW k \in 1..Len(svcs), NEW t \in seen(k), ~lasts(t, k) PROVE t \in cands
  <2> HIDE DEF seen
  <2> QED BY <1>2, <1>5 DEF Survives
<1>6. ASSUME NEW k \in 1..Len(svcs), NEW arm \in T, Hits(arm, left(k)) # {}
      PROVE  Hits(arm, seen(k)) # {}
  <2>1. PICK x \in left(k) : IsAncestorOrSelf(arm, x) BY <1>6 DEF Hits
  <2>2. PICK y \in seen(k) : IsAncestorOrSelf(x, y) BY <1>3
  <2>3. x \in T /\ y \in T BY <1>2
  <2>4. IsAncestorOrSelf(arm, y) BY <2>1, <2>2, <2>3, AncestorTransitive
  <2> QED BY <2>4 DEF Hits
<1>7. ASSUME NEW k \in 1..Len(svcs), NEW arm \in T, NEW t \in Hits(arm, seen(k)),
             NEW x \in left(k), IsAncestorOrSelf(t, x)
      PROVE  Hits(arm, left(k)) # {}
  <2>1. IsAncestorOrSelf(arm, t) /\ t \in seen(k) BY DEF Hits
  <2>2. t \in T /\ x \in T BY <1>2, <2>1
  <2>3. IsAncestorOrSelf(arm, x) BY <1>7, <2>1, <2>2, AncestorTransitive
  <2> QED BY <2>3 DEF Hits
<1>8. ASSUME NEW k \in 1..Len(svcs), Fires(svcs[k], seen(k)) PROVE Fires(svcs[k], left(k))
  <2>1. ASSUME NEW arm \in svcs[k].requires PROVE Hits(arm, left(k)) # {}
    <3>1. arm \in T BY DEF GatesOn
    <3>2. Hits(arm, seen(k)) # {} BY <1>8 DEF Fires, RequiresMet
    <3>3. CASE \E t \in Hits(arm, seen(k)) : lasts(t, k)
      <4>1. PICK t \in Hits(arm, seen(k)) : lasts(t, k) BY <3>3
      <4>2. t \in seen(k) BY DEF Hits
      <4>3. PICK x \in left(k) : IsAncestorOrSelf(t, x) BY <1>4, <4>1, <4>2
      <4> QED BY <1>7, <3>1, <4>3
    <3>4. CASE \A t \in Hits(arm, seen(k)) : ~lasts(t, k)
      <4>1. PICK t \in Hits(arm, seen(k)) : TRUE BY <3>2
      <4>2. t \in seen(k) BY DEF Hits
      <4>3. t \in cands BY <1>5, <3>4, <4>2
      <4>4. CASE t \in loose
        <5>1. arm \in Anchors(svcs, out, mine, others, t)
          BY <1>8, <3>4, NeededIsAnchor DEF cands, GatesOn
        <5>2. PICK x \in after : IsAncestorOrSelf(arm, x) BY <1>1, <4>4, <5>1
        <5>3. x \in left(k) BY <1>2
        <5> QED BY <5>2, <5>3 DEF Hits
      <4>5. CASE t \notin loose
        <5>1. t \in mine BY <4>3 DEF cands, Candidates
        <5>2. PICK x \in left(k) : IsAncestorOrSelf(t, x) BY <1>4, <4>2, <4>5, <5>1
        <5> QED BY <1>7, <3>1, <5>2
      <4> QED BY <4>4, <4>5
    <3> QED BY <3>3, <3>4
  <2>2. ASSUME NEW arm \in svcs[k].excludes PROVE Hits(arm, left(k)) = {}
    <3>1. arm \in T BY DEF GatesOn
    <3>2. Hits(arm, seen(k)) = {} BY <1>8 DEF Fires, Excluded
    <3> QED BY <1>6, <3>1, <3>2
  <2>3. svcs[k].enabled BY <1>8 DEF Fires
  <2> HIDE DEF left
  <2> QED BY <2>1, <2>2, <2>3 DEF Fires, RequiresMet, Excluded
<1>9. ASSUME NEW k \in 1..Len(svcs), Fires(svcs[k], left(k)) PROVE Fires(svcs[k], seen(k))
  <2>1. svcs[k].enabled /\ ~Excluded(svcs[k], left(k)) BY <1>9 DEF Fires
  <2>2. ASSUME NEW arm \in svcs[k].requires PROVE Hits(arm, seen(k)) # {}
    <3>1. arm \in T BY DEF GatesOn
    <3>2. Hits(arm, left(k)) # {} BY <1>9 DEF Fires, RequiresMet
    <3> QED BY <1>6, <3>1, <3>2
  <2>3. RequiresMet(svcs[k], seen(k))
    <3> HIDE DEF seen
    <3> QED BY <2>2 DEF RequiresMet
  <2>4. SUFFICES ASSUME Excluded(svcs[k], seen(k)) PROVE FALSE
    <3> HIDE DEF seen
    <3> QED BY <2>1, <2>3 DEF Fires
  <2>5. ASSUME NEW arm \in svcs[k].excludes, NEW t \in Hits(arm, seen(k)), lasts(t, k) \/ t \in mine \ loose
        PROVE  FALSE
    <3>1. arm \in T /\ t \in seen(k) BY DEF GatesOn, Hits
    <3>2. PICK x \in left(k) : IsAncestorOrSelf(t, x) BY <1>4, <2>5, <3>1
    <3>3. Hits(arm, left(k)) # {} BY <1>7, <3>1, <3>2
    <3> QED BY <2>1, <3>3 DEF Excluded
  <2>6. PICK arm \in svcs[k].excludes : Hits(arm, seen(k)) # {} BY <2>4 DEF Excluded
  <2>7. PICK t \in Hits(arm, seen(k)) : TRUE BY <2>6
  <2>8. t \in seen(k) /\ IsAncestorOrSelf(arm, t) BY DEF Hits
  <2>9. t \in cands /\ t \in mine BY <1>5, <2>5, <2>8 DEF cands, Candidates
  <2>10. t \in kept
    <3>1. ~Fires(svcs[k], seen(k)) BY <2>4 DEF Fires
    <3>2. \A a \in svcs[k].excludes, s \in seen(k) : s \in Hits(a, seen(k)) => ~lasts(s, k)
      BY <2>5
    <3> QED BY <2>1, <2>3, <2>6, <2>8, <2>9, <3>1, <3>2 DEF Kept, kept, cands, GatesOn
  <2> QED BY <2>5, <2>9, <2>10
<1>10. IsOutput(svcs, after \cup others, out, Len(svcs))
  <2>1. IsOutput(svcs, mine \cup others, out, Len(svcs)) BY OutputsStep DEF GatesOn, out
  <2>2. \A k \in 1..Len(svcs) : Step(svcs, mine \cup others, out, k) = Step(svcs, after \cup others, out, k)
    BY <1>8, <1>9 DEF Step
  <2> QED BY <2>1, <2>2 DEF IsOutput
<1> QED BY <1>10, OutputsUnique DEF GatesOn, out
-----------------------------------------------------------------------------
(* Types *)

(* the row of a service *)
ServiceRow ==
    [kind : {"rule", "mapping"}, enabled : BOOLEAN, requires : FiniteTags, excludes : FiniteTags,
     assign : Assignable, prune : BOOLEAN, keep : FiniteTags, position : Int, invalidated : Nat]

(* a user's services: no two have the same place *)
Libraries ==
    {s \in UNION {[S -> ServiceRow] : S \in SUBSET Ids} :
        \A i, j \in DOMAIN s : i # j => s[i].position # s[j].position}

Rowset == {rs \in SUBSET (Ids \X Paths) : IsFiniteSet(rs)}
-----------------------------------------------------------------------------
(* The services in order *)

LEMMA Enumeration ==
    ASSUME NEW S, IsFiniteSet(S), NEW R,
           \A x \in S : <<x, x>> \notin R,
           \A x, y \in S : x = y \/ <<x, y>> \in R \/ <<y, x>> \in R,
           \A x, y, z \in S : <<x, y>> \in R /\ <<y, z>> \in R => <<x, z>> \in R
    PROVE  \E f \in [1..Cardinality(S) -> S] :
               \A k, l \in 1..Cardinality(S) : k < l => <<f[k], f[l]>> \in R
<1> DEFINE Sorted(T) == \E f \in [1..Cardinality(T) -> T] :
                \A k, l \in 1..Cardinality(T) : k < l => <<f[k], f[l]>> \in R
           bad == {T \in SUBSET S : ~Sorted(T)}
<1> SUFFICES ASSUME ~Sorted(S) PROVE FALSE
  OBVIOUS
<1>1. PICK T \in bad : \A U \in SUBSET T : U # T => U \notin bad
  <2>1. bad \in SUBSET SUBSET S /\ bad # {} OBVIOUS
  <2> HIDE DEF bad
  <2> QED BY <2>1, SmallestSet
<1>2. T \in SUBSET S /\ IsFiniteSet(T) /\ Cardinality(T) \in Nat BY FS_Subset, FS_CardinalityType
<1>3. CASE T = {}
  <2>1. Cardinality(T) = 0 BY <1>3, FS_EmptySet
  <2>2. 1..0 = {} OBVIOUS
  <2>3. [k \in 1..0 |-> k] \in [1..0 -> T] BY <2>2
  <2>4. \A k, l \in 1..0 : FALSE BY <2>2
  <2>5. Sorted(T)
    <3> SUFFICES \E f \in [1..0 -> T] : \A k, l \in 1..0 : k < l => <<f[k], f[l]>> \in R BY <2>1
    <3> QED BY <2>3, <2>4
  <2> QED BY <2>5
<1>4. CASE T # {}
  <2> DEFINE Q == {pair \in T \X T : pair[1] = pair[2] \/ <<pair[1], pair[2]>> \in R}
  <2>1. \A x, y \in T : <<x, y>> \in Q <=> x = y \/ <<x, y>> \in R OBVIOUS
  <2>2. /\ \A x, y \in T : <<x, y>> \in Q \/ <<y, x>> \in Q
        /\ \A x, y, z \in T : <<x, y>> \in Q /\ <<y, z>> \in Q => <<x, z>> \in Q
    <3> HIDE DEF Q
    <3> QED BY <1>2, <2>1
  <2>3. PICK m \in T : \A x \in T : <<x, m>> \in Q
    <3> HIDE DEF Q
    <3> QED BY <1>2, <1>4, <2>2, FiniteMaximum
  <2>4. \A x \in T : x # m => <<x, m>> \in R BY <2>3
  <2> DEFINE U == T \ {m}
             n == Cardinality(U)
  <2>5. IsFiniteSet(U) /\ n \in Nat /\ Cardinality(T) = n + 1
    <3>1. IsFiniteSet(U) /\ Cardinality(U) = Cardinality(T) - 1 BY <1>2, FS_RemoveElement
    <3>2. Cardinality(U) \in Nat
      <4> HIDE DEF U
      <4> QED BY <3>1, FS_CardinalityType
    <3> QED BY <1>2, <3>1, <3>2
  <2>6. Sorted(U)
    <3>1. U \in SUBSET T /\ U # T /\ U \in SUBSET S BY <1>2
    <3>2. U \notin bad
      <4> HIDE DEF U, bad
      <4> QED BY <1>1, <3>1
    <3> HIDE DEF U, Sorted
    <3> QED BY <3>1, <3>2
  <2>7. PICK f \in [1..n -> U] : \A k, l \in 1..n : k < l => <<f[k], f[l]>> \in R BY <2>6
  <2> DEFINE g == [k \in 1..(n + 1) |-> IF k <= n THEN f[k] ELSE m]
  <2> HIDE DEF n
  <2>8. ASSUME NEW k \in 1..(n + 1) PROVE g[k] \in T /\ (k <= n => g[k] = f[k] /\ f[k] \in T /\ f[k] # m) /\ (k = n + 1 => g[k] = m)
    BY <2>5, <2>7
  <2>9. g \in [1..(n + 1) -> T] BY <2>8
  <2>10. ASSUME NEW k \in 1..(n + 1), NEW l \in 1..(n + 1), k < l PROVE <<g[k], g[l]>> \in R
    <3>1. k \in 1..n BY <2>5, <2>10
    <3>2. CASE l \in 1..n
      <4>1. g[k] = f[k] /\ g[l] = f[l] BY <2>8, <3>1, <3>2
      <4> QED BY <2>7, <2>10, <3>1, <3>2, <4>1
    <3>3. CASE l = n + 1
      <4>1. g[k] = f[k] /\ f[k] \in T /\ f[k] # m /\ g[l] = m BY <2>8, <3>1, <3>3
      <4> QED BY <2>4, <4>1
    <3> QED BY <2>5, <3>2, <3>3
  <2>11. Sorted(T)
    <3> HIDE DEF g
    <3> QED BY <2>5, <2>9, <2>10
  <2> QED BY <2>11
<1> QED BY <1>3, <1>4

LEMMA LibraryRows ==
    ASSUME NEW s \in Libraries
    PROVE  /\ DOMAIN s \subseteq Ids /\ s \in [DOMAIN s -> ServiceRow]
           /\ \A i \in DOMAIN s : s[i] \in ServiceRow
           /\ \A i, j \in DOMAIN s : i # j => s[i].position # s[j].position
           /\ Active(s) \subseteq DOMAIN s /\ IsFiniteSet(Active(s))
<1>1. DOMAIN s \subseteq Ids /\ s \in [DOMAIN s -> ServiceRow] BY DEF Libraries
<1>2. Active(s) \subseteq Ids BY <1>1 DEF Active
<1>3. IsFiniteSet(Active(s)) BY <1>2, IdsAssumption, FS_Subset
<1> QED BY <1>1, <1>3 DEF Libraries, Active

LEMMA BeforeOrders ==
    ASSUME NEW s \in Libraries
    PROVE  /\ \A i \in DOMAIN s : ~Before(s, i, i)
           /\ \A i, j \in DOMAIN s : i = j \/ Before(s, i, j) \/ Before(s, j, i)
           /\ \A i, j \in DOMAIN s : ~(Before(s, i, j) /\ Before(s, j, i))
           /\ \A i, j, k \in DOMAIN s : Before(s, i, j) /\ Before(s, j, k) => Before(s, i, k)
<1>1. \A i \in DOMAIN s : Rank(s[i]) \in {0, 1} /\ s[i].position \in Int
  BY LibraryRows DEF Rank, ServiceRow
<1>2. \A i, j \in DOMAIN s : i # j => s[i].position # s[j].position BY LibraryRows
<1> QED BY <1>1, <1>2 DEF Before

LEMMA ListedOnce ==
    ASSUME NEW s \in Libraries, NEW order, order = ListEnabled(s)
    PROVE  /\ DOMAIN order = 1..Cardinality(Active(s)) /\ Cardinality(Active(s)) \in Nat
           /\ Len(order) = Cardinality(Active(s))
           /\ \A k \in DOMAIN order : order[k] \in Active(s)
           /\ \A k, l \in DOMAIN order : k < l <=> Before(s, order[k], order[l])
           /\ \A i \in Active(s) : \E k \in DOMAIN order : order[k] = i
<1> DEFINE A == Active(s)
           n == Cardinality(A)
           R == {pair \in A \X A : Before(s, pair[1], pair[2])}
           InOrder(f) == \A k, l \in DOMAIN f : k < l => Before(s, f[k], f[l])
<1>1. A \subseteq DOMAIN s /\ IsFiniteSet(A) /\ n \in Nat BY LibraryRows, FS_CardinalityType
<1>2. \A x, y \in A : <<x, y>> \in R <=> Before(s, x, y) OBVIOUS
<1>3. /\ \A x \in A : <<x, x>> \notin R
      /\ \A x, y \in A : x = y \/ <<x, y>> \in R \/ <<y, x>> \in R
      /\ \A x, y, z \in A : <<x, y>> \in R /\ <<y, z>> \in R => <<x, z>> \in R
  <2> HIDE DEF R, A
  <2> QED BY <1>1, <1>2, BeforeOrders
<1>4. PICK f \in [1..n -> A] : \A k, l \in 1..n : k < l => <<f[k], f[l]>> \in R
  <2> HIDE DEF R, A
  <2> QED BY <1>1, <1>3, Enumeration
<1>5. InOrder(f) BY <1>2, <1>4
<1>6. order \in [1..n -> A] /\ InOrder(order)
  <2>1. order = CHOOSE g \in [1..n -> A] : InOrder(g) BY DEF ListEnabled
  <2> HIDE DEF InOrder, A, n
  <2> QED BY <1>5, <2>1
<1>7. ASSUME NEW k \in 1..n, NEW l \in 1..n PROVE k < l <=> Before(s, order[k], order[l])
  <2>1. order[k] \in DOMAIN s /\ order[l] \in DOMAIN s BY <1>1, <1>6
  <2>2. k < l => Before(s, order[k], order[l]) BY <1>6
  <2>3. l < k => Before(s, order[l], order[k]) BY <1>6
  <2>4. k < l \/ l < k \/ k = l BY <1>1
  <2> QED BY <2>1, <2>2, <2>3, <2>4, BeforeOrders
<1>8. order \in Injection(1..n, A)
  <2>1. ASSUME NEW k \in 1..n, NEW l \in 1..n, order[k] = order[l] PROVE k = l
    <3>1. order[k] \in DOMAIN s BY <1>1, <1>6
    <3>2. ~(k < l) /\ ~(l < k) BY <1>7, <2>1, <3>1, BeforeOrders
    <3> QED BY <1>1, <3>2
  <2> QED BY <1>6, <2>1 DEF Injection, IsInjective
<1>9. order \in Surjection(1..n, A)
  <2>1. IsFiniteSet(1..n) /\ Cardinality(1..n) = n BY <1>1, FS_Interval
  <2> HIDE DEF A
  <2> QED BY <1>1, <1>8, <2>1, FS_Injection
<1>10. Len(order) = n BY <1>1, <1>6
<1> QED BY <1>1, <1>6, <1>7, <1>9, <1>10 DEF Surjection
-----------------------------------------------------------------------------
(* What a picture carries, said without the list: each service that counts gives what its gate *)
(* allows over the base rows and the rows of the services before it.                          *)

Heard(rs, s, base, i) ==
    base \cup {t \in Paths : \E j \in DOMAIN s : <<j, t>> \in rs /\ Before(s, j, i)}

Gives(rs, s, known, own, shared, i) ==
    IF Fires(Gated(s[i], known, shared), Heard(rs, s, own \cup shared, i))
    THEN FoldDeepest(Emits(s[i], known, shared)) ELSE {}

Consistent(rs, live, s, known, own, shared) ==
    /\ rs \subseteq live \X Paths
    /\ \A i \in live : \A t \in Paths : <<i, t>> \in rs <=> t \in Gives(rs, s, known, own, shared, i)

LEMMA EmitsPaths ==
    ASSUME NEW row \in ServiceRow, NEW known, NEW shared
    PROVE  Emits(row, known, shared) \in Assignable /\ Emits(row, known, shared) \subseteq Paths
<1>1. IsFiniteSet({}) BY FS_EmptySet
<1> QED BY <1>1 DEF Emits, ServiceRow, Assignable, FiniteTags, Tag

LEMMA ListGates ==
    ASSUME NEW s \in Libraries, NEW known, NEW shared, NEW svcs,
           svcs = ForPicture(s, ListEnabled(s), known, shared)
    PROVE  /\ GatesOn(svcs, Tag) /\ Len(svcs) = Cardinality(Active(s))
           /\ DOMAIN svcs = DOMAIN ListEnabled(s)
           /\ \A k \in DOMAIN svcs : svcs[k] = Gated(s[ListEnabled(s)[k]], known, shared)
<1> DEFINE order == ListEnabled(s)
<1>1. /\ DOMAIN order = 1..Cardinality(Active(s)) /\ Cardinality(Active(s)) \in Nat
      /\ \A k \in DOMAIN order : order[k] \in Active(s)
  BY ListedOnce
<1> HIDE DEF order
<1>2. svcs = [k \in DOMAIN order |-> Gated(s[order[k]], known, shared)] BY DEF ForPicture, order
<1>3. Len(svcs) = Cardinality(Active(s)) /\ DOMAIN svcs = DOMAIN order BY <1>1, <1>2
<1>4. ASSUME NEW k \in DOMAIN svcs
      PROVE  /\ svcs[k] = Gated(s[order[k]], known, shared)
             /\ svcs[k].requires \subseteq Tag /\ svcs[k].excludes \subseteq Tag
             /\ svcs[k].keep \subseteq Tag /\ svcs[k].emits \subseteq Tag
  <2>1. s[order[k]] \in ServiceRow BY <1>1, <1>3, LibraryRows
  <2>2. svcs[k] = Gated(s[order[k]], known, shared) BY <1>2, <1>3
  <2>3. Emits(s[order[k]], known, shared) \subseteq Tag BY <2>1, EmitsPaths DEF Tag
  <2> QED BY <2>1, <2>2, <2>3 DEF Gated, ServiceRow, FiniteTags
<1> QED BY <1>1, <1>3, <1>4 DEF GatesOn, order

(* rs and out, the outputs along order, are what one evaluation produces *)
Evaluation(s, known, own, shared, order, out, rs) ==
    /\ DOMAIN out = DOMAIN order
    /\ \A k \in DOMAIN order :
           out[k] = IF Fires(Gated(s[order[k]], known, shared), SeenBy(out, own \cup shared, k))
                    THEN FoldDeepest(Emits(s[order[k]], known, shared)) ELSE {}
    /\ \A k \in DOMAIN order : out[k] \subseteq Paths /\ IsFiniteSet(out[k])
    /\ \A i, t : <<i, t>> \in rs <=> \E k \in DOMAIN order : order[k] = i /\ t \in out[k]
    /\ rs \subseteq Active(s) \X Paths

LEMMA ProducedRows ==
    ASSUME NEW s \in Libraries, NEW known, NEW own, NEW shared
    PROVE  Evaluation(s, known, own, shared, ListEnabled(s),
                      Outputs(ForPicture(s, ListEnabled(s), known, shared), own \cup shared),
                      Produced(s, known, own, shared))
<1> DEFINE order == ListEnabled(s)
           svcs == ForPicture(s, order, known, shared)
           out == Outputs(svcs, own \cup shared)
<1>0. /\ DOMAIN order = 1..Cardinality(Active(s)) /\ \A k \in DOMAIN order : order[k] \in Active(s)
  BY ListedOnce
<1>1. /\ Len(svcs) \in Nat /\ 1..Len(svcs) = DOMAIN order
      /\ \A k \in DOMAIN order : svcs[k] = Gated(s[order[k]], known, shared)
  BY ListGates DEF GatesOn
<1>2. IsOutput(svcs, own \cup shared, out, Len(svcs))
  <2> HIDE DEF svcs
  <2> QED BY <1>1, OutputsStep
<1>3. ASSUME NEW k \in DOMAIN order
      PROVE  out[k] = IF Fires(Gated(s[order[k]], known, shared), SeenBy(out, own \cup shared, k))
                      THEN FoldDeepest(Emits(s[order[k]], known, shared)) ELSE {}
  <2> HIDE DEF svcs, out, order
  <2>0. svcs[k] = Gated(s[order[k]], known, shared) BY <1>1
  <2>1. svcs[k].emits = Emits(s[order[k]], known, shared) BY <2>0 DEF Gated
  <2>2. out[k] = IF Fires(svcs[k], SeenBy(out, own \cup shared, k)) THEN FoldDeepest(svcs[k].emits) ELSE {}
    BY <1>1, <1>2 DEF IsOutput, Step
  <2> QED BY <2>0, <2>1, <2>2
<1>4. ASSUME NEW k \in DOMAIN order PROVE out[k] \subseteq Paths /\ IsFiniteSet(out[k])
  <2>1. s[order[k]] \in ServiceRow BY <1>0, LibraryRows
  <2>2. FoldDeepest(Emits(s[order[k]], known, shared)) \subseteq Emits(s[order[k]], known, shared) BY DEF FoldDeepest
  <2>3. IsFiniteSet(Emits(s[order[k]], known, shared)) /\ Emits(s[order[k]], known, shared) \subseteq Paths
    BY <2>1, EmitsPaths DEF Assignable, FiniteTags
  <2>4. out[k] \subseteq Emits(s[order[k]], known, shared) BY <1>3, <2>2
  <2> QED BY <2>3, <2>4, FS_Subset
<1>5. DOMAIN out = DOMAIN order
  <2> HIDE DEF svcs, out, order
  <2> QED BY <1>1, <1>2 DEF IsOutput
<1>6. Produced(s, known, own, shared) = UNION {{order[k]} \X out[k] : k \in DOMAIN order} BY DEF Produced
<1> HIDE DEF svcs, out, order
<1>7. ASSUME NEW i, NEW t
      PROVE  <<i, t>> \in Produced(s, known, own, shared) <=> \E k \in DOMAIN order : order[k] = i /\ t \in out[k]
  BY <1>6
<1>8. ASSUME NEW r \in Produced(s, known, own, shared) PROVE r \in Active(s) \X Paths
  <2>1. PICK k \in DOMAIN order : r \in {order[k]} \X out[k] BY <1>6
  <2> QED BY <1>0, <1>4, <2>1
<1>9. Evaluation(s, known, own, shared, order, out, Produced(s, known, own, shared))
  BY <1>3, <1>4, <1>5, <1>7, <1>8 DEF Evaluation
<1> QED BY <1>9 DEF order, out, svcs

LEMMA HeardAsSeen ==
    ASSUME NEW s \in Libraries, NEW known, NEW own, NEW shared, NEW order, order = ListEnabled(s),
           NEW out, NEW rs, Evaluation(s, known, own, shared, order, out, rs),
           NEW k \in DOMAIN order
    PROVE  Heard(rs, s, own \cup shared, order[k]) = SeenBy(out, own \cup shared, k)
<1> DEFINE base == own \cup shared
           early == {t \in Paths : \E j \in DOMAIN s : <<j, t>> \in rs /\ Before(s, j, order[k])}
<1>1. /\ DOMAIN order = 1..Cardinality(Active(s)) /\ Cardinality(Active(s)) \in Nat
      /\ \A j \in DOMAIN order : order[j] \in Active(s)
      /\ \A j, l \in DOMAIN order : j < l <=> Before(s, order[j], order[l])
  BY ListedOnce
<1>2. /\ \A j \in DOMAIN order : out[j] \subseteq Paths
      /\ \A i, t : <<i, t>> \in rs <=> \E j \in DOMAIN order : order[j] = i /\ t \in out[j]
  BY DEF Evaluation
<1>3. Active(s) \subseteq DOMAIN s BY DEF Active
<1>4. ASSUME NEW t PROVE t \in early <=> \E j \in 1..(k - 1) : t \in out[j]
  <2>1. ASSUME t \in early PROVE \E j \in 1..(k - 1) : t \in out[j]
    <3>1. PICK i \in DOMAIN s : <<i, t>> \in rs /\ Before(s, i, order[k]) BY <2>1
    <3>2. PICK j \in DOMAIN order : order[j] = i /\ t \in out[j] BY <1>2, <3>1
    <3>3. j < k BY <1>1, <3>1, <3>2
    <3>4. j \in 1..(k - 1) BY <1>1, <3>3
    <3> QED BY <3>2, <3>4
  <2>2. ASSUME NEW j \in 1..(k - 1), t \in out[j] PROVE t \in early
    <3>1. j \in DOMAIN order /\ j < k BY <1>1
    <3>2. <<order[j], t>> \in rs /\ t \in Paths BY <1>2, <2>2, <3>1
    <3>3. Before(s, order[j], order[k]) /\ order[j] \in DOMAIN s BY <1>1, <1>3, <3>1
    <3> QED BY <3>2, <3>3
  <2> QED BY <2>1, <2>2
<1>5. early = UNION {out[j] : j \in 1..(k - 1)}
  <2> HIDE DEF early
  <2> QED BY <1>4
<1> QED BY <1>5 DEF Heard, SeenBy

LEMMA ProducedConsistent ==
    ASSUME NEW s \in Libraries, NEW known, NEW own, NEW shared
    PROVE  Consistent(Produced(s, known, own, shared), Active(s), s, known, own, shared)
<1> DEFINE rs == Produced(s, known, own, shared)
           order == ListEnabled(s)
           out == Outputs(ForPicture(s, order, known, shared), own \cup shared)
<1>0. Evaluation(s, known, own, shared, order, out, rs) BY ProducedRows
<1>1. rs \subseteq Active(s) \X Paths BY <1>0 DEF Evaluation
<1>2. ASSUME NEW i \in Active(s), NEW t \in Paths
      PROVE  <<i, t>> \in rs <=> t \in Gives(rs, s, known, own, shared, i)
  <2>1. PICK k \in DOMAIN order : order[k] = i BY ListedOnce
  <2>2. \A l \in DOMAIN order : order[l] = i => l = k
    <3>1. /\ DOMAIN order = 1..Cardinality(Active(s)) /\ Cardinality(Active(s)) \in Nat
          /\ \A j, l \in DOMAIN order : j < l <=> Before(s, order[j], order[l])
      BY ListedOnce
    <3>2. i \in DOMAIN s BY DEF Active
    <3> HIDE DEF order
    <3>3. ~Before(s, i, i) BY <3>2, BeforeOrders
    <3>4. ASSUME NEW l \in DOMAIN order, order[l] = i PROVE l = k
      <4>1. ~(l < k) /\ ~(k < l) BY <2>1, <3>1, <3>3, <3>4
      <4>2. l \in Nat /\ k \in Nat BY <3>1
      <4> QED BY <4>1, <4>2
    <3> QED BY <3>4
  <2>3. Heard(rs, s, own \cup shared, i) = SeenBy(out, own \cup shared, k)
    <3>1. order = ListEnabled(s) OBVIOUS
    <3> HIDE DEF order, out, rs
    <3> QED BY <1>0, <2>1, <3>1, HeardAsSeen
  <2>4. /\ out[k] = IF Fires(Gated(s[i], known, shared), SeenBy(out, own \cup shared, k))
                    THEN FoldDeepest(Emits(s[i], known, shared)) ELSE {}
        /\ \A j, u : <<j, u>> \in rs <=> \E l \in DOMAIN order : order[l] = j /\ u \in out[l]
    <3> HIDE DEF order, out, rs
    <3> QED BY <1>0, <2>1 DEF Evaluation
  <2> HIDE DEF rs, order, out
  <2> QED BY <2>1, <2>2, <2>3, <2>4 DEF Gives
<1> QED BY <1>1, <1>2 DEF Consistent

LEMMA ConsistentUnique ==
    ASSUME NEW s \in Libraries, NEW known, NEW own, NEW shared, NEW f, NEW g,
           Consistent(f, Active(s), s, known, own, shared), Consistent(g, Active(s), s, known, own, shared)
    PROVE  f = g
<1> DEFINE order == ListEnabled(s)
           bad == {k \in DOMAIN order : ~\A t \in Paths : <<order[k], t>> \in f <=> <<order[k], t>> \in g}
<1>1. /\ DOMAIN order = 1..Cardinality(Active(s)) /\ Cardinality(Active(s)) \in Nat
      /\ \A j \in DOMAIN order : order[j] \in Active(s)
      /\ \A j, l \in DOMAIN order : j < l <=> Before(s, order[j], order[l])
      /\ \A i \in Active(s) : \E k \in DOMAIN order : order[k] = i
  BY ListedOnce
<1>2. Active(s) \subseteq DOMAIN s BY DEF Active
<1> HIDE DEF order
<1>3. bad = {}
  <2> SUFFICES ASSUME bad # {} PROVE FALSE
    OBVIOUS
  <2>1. PICK k \in bad : \A j \in bad : k <= j
    <3>1. bad \in SUBSET Nat BY <1>1
    <3> HIDE DEF bad
    <3> QED BY <3>1, LeastNatural
  <2>2. k \in DOMAIN order /\ order[k] \in Active(s) BY <1>1
  <2>3. ASSUME NEW j \in DOMAIN s, Before(s, j, order[k]), NEW t \in Paths
        PROVE  <<j, t>> \in f <=> <<j, t>> \in g
    <3>1. CASE j \in Active(s)
      <4>1. PICK l \in DOMAIN order : order[l] = j BY <1>1, <3>1
      <4>2. l < k BY <1>1, <2>2, <2>3, <4>1
      <4>3. l \in Nat /\ k \in Nat BY <1>1, <2>2
      <4>4. l \notin bad BY <2>1, <4>2, <4>3
      <4> QED BY <4>1, <4>4
    <3>2. CASE j \notin Active(s) BY <3>2 DEF Consistent
    <3> QED BY <3>1, <3>2
  <2>4. Heard(f, s, own \cup shared, order[k]) = Heard(g, s, own \cup shared, order[k])
    <3>1. ASSUME NEW t \in Paths
          PROVE  (\E j \in DOMAIN s : <<j, t>> \in f /\ Before(s, j, order[k]))
                    <=> (\E j \in DOMAIN s : <<j, t>> \in g /\ Before(s, j, order[k]))
      BY <2>3
    <3> QED BY <3>1 DEF Heard
  <2>5. Gives(f, s, known, own, shared, order[k]) = Gives(g, s, known, own, shared, order[k])
    BY <2>4 DEF Gives
  <2>6. \A t \in Paths : <<order[k], t>> \in f <=> <<order[k], t>> \in g
    BY <2>2, <2>5 DEF Consistent
  <2> QED BY <2>1, <2>6
<1>4. \A i \in Active(s), t \in Paths : <<i, t>> \in f <=> <<i, t>> \in g BY <1>1, <1>3
<1>5. f \subseteq Active(s) \X Paths /\ g \subseteq Active(s) \X Paths BY DEF Consistent
<1> QED BY <1>4, <1>5
-----------------------------------------------------------------------------
(* When rows keep saying what the services give *)

Alike(a, b) ==
    /\ a.kind = b.kind /\ a.requires = b.requires /\ a.excludes = b.excludes
    /\ a.assign = b.assign /\ a.position = b.position

(* the enabled services no change has touched after at *)
Stamped(s, at) == {i \in Active(s) : s[i].invalidated <= at}

(* If no row belongs to a service changed since, the rows are what the others give.  Without that *)
(* hypothesis it is not kept: a service that is disabled or deleted takes its own rows away, but   *)
(* leaves those its rows made another service give.                                               *)
Trusted(rs, s, at, known, own, shared) ==
    (\A r \in rs : r[1] \notin Active(s) \ Stamped(s, at)) =>
        Consistent(rs, Stamped(s, at), s, known, own, shared)

Narrows(s, at, u, to) == \A i \in Stamped(u, to) : i \in Stamped(s, at) /\ Alike(u[i], s[i])

LEMMA AlikeGates ==
    ASSUME NEW a, NEW b, Alike(a, b), NEW known, NEW shared, NEW seen
    PROVE  /\ Fires(Gated(a, known, shared), seen) <=> Fires(Gated(b, known, shared), seen)
           /\ Emits(a, known, shared) = Emits(b, known, shared)
           /\ Rank(a) = Rank(b)
BY DEF Alike, Gated, Fires, RequiresMet, Excluded, Emits, Rank

LEMMA Narrowed ==
    ASSUME NEW s, NEW u, NEW live, NEW kept, kept \subseteq live, kept \subseteq DOMAIN s, kept \subseteq DOMAIN u,
           \A i \in kept : Alike(u[i], s[i]), NEW rs, rs \subseteq kept \X Paths,
           NEW known, NEW own, NEW shared, Consistent(rs, live, s, known, own, shared)
    PROVE  Consistent(rs, kept, u, known, own, shared)
<1>1. ASSUME NEW i \in kept, NEW j \in kept PROVE Before(u, j, i) <=> Before(s, j, i)
  <2>1. Rank(u[i]) = Rank(s[i]) /\ Rank(u[j]) = Rank(s[j]) BY AlikeGates
  <2>2. u[i].position = s[i].position /\ u[j].position = s[j].position BY DEF Alike
  <2> QED BY <2>1, <2>2 DEF Before
<1>2. ASSUME NEW i \in kept PROVE Heard(rs, u, own \cup shared, i) = Heard(rs, s, own \cup shared, i)
  <2>1. ASSUME NEW t \in Paths
        PROVE  (\E j \in DOMAIN u : <<j, t>> \in rs /\ Before(u, j, i))
                  <=> (\E j \in DOMAIN s : <<j, t>> \in rs /\ Before(s, j, i))
    <3>1. \A j : <<j, t>> \in rs => j \in kept OBVIOUS
    <3> QED BY <1>1, <3>1
  <2> QED BY <2>1 DEF Heard
<1>3. ASSUME NEW i \in kept PROVE Gives(rs, u, known, own, shared, i) = Gives(rs, s, known, own, shared, i)
  <2>1. Alike(u[i], s[i]) OBVIOUS
  <2> DEFINE seen == Heard(rs, s, own \cup shared, i)
  <2>2. Fires(Gated(u[i], known, shared), seen) <=> Fires(Gated(s[i], known, shared), seen)
    BY <2>1, AlikeGates
  <2>3. Emits(u[i], known, shared) = Emits(s[i], known, shared) BY <2>1, AlikeGates
  <2> QED BY <1>2, <2>2, <2>3 DEF Gives
<1> QED BY <1>3 DEF Consistent

LEMMA TrustKept ==
    ASSUME NEW s, NEW u, NEW at, NEW to, Narrows(s, at, u, to), NEW rs, rs \subseteq Ids \X Paths,
           \A r \in rs : r[1] \notin Active(s) \ Active(u),
           NEW known, NEW own, NEW shared, Trusted(rs, s, at, known, own, shared)
    PROVE  Trusted(rs, u, to, known, own, shared)
<1> SUFFICES ASSUME \A r \in rs : r[1] \notin Active(u) \ Stamped(u, to)
             PROVE  Consistent(rs, Stamped(u, to), u, known, own, shared)
  BY DEF Trusted
<1>1. Stamped(u, to) \subseteq Stamped(s, at) /\ \A i \in Stamped(u, to) : Alike(u[i], s[i]) BY DEF Narrows
<1>2. \A r \in rs : r[1] \notin Active(s) \ Stamped(s, at) BY <1>1
<1>3. Consistent(rs, Stamped(s, at), s, known, own, shared) BY <1>2 DEF Trusted
<1>4. rs \subseteq Stamped(u, to) \X Paths
  <2>1. ASSUME NEW r \in rs PROVE r \in Stamped(u, to) \X Paths
    <3>1. r \in Stamped(s, at) \X Paths BY <1>3 DEF Consistent
    <3>2. r[1] \in Active(s) BY <3>1 DEF Stamped
    <3>3. r[1] \in Stamped(u, to) BY <3>2
    <3> QED BY <3>1, <3>3
  <2> QED BY <2>1
<1>5. Stamped(u, to) \subseteq DOMAIN u /\ Stamped(u, to) \subseteq DOMAIN s BY <1>1 DEF Stamped, Active
<1> QED BY <1>1, <1>3, <1>4, <1>5, Narrowed

(* up to date, they are what one evaluation produces *)
LEMMA TrustHolds ==
    ASSUME NEW s \in Libraries, NEW at, \A i \in Active(s) : s[i].invalidated <= at,
           NEW rs, NEW known, NEW own, NEW shared, Trusted(rs, s, at, known, own, shared)
    PROVE  rs = Produced(s, known, own, shared)
<1>1. Stamped(s, at) = Active(s) BY DEF Stamped
<1>2. Consistent(rs, Active(s), s, known, own, shared) BY <1>1 DEF Trusted
<1> QED BY <1>2, ProducedConsistent, ConsistentUnique

LEMMA ProducedFinite ==
    ASSUME NEW s \in Libraries, NEW known, NEW own, NEW shared
    PROVE  Produced(s, known, own, shared) \in Rowset
<1> DEFINE order == ListEnabled(s)
           out == Outputs(ForPicture(s, order, known, shared), own \cup shared)
           rs == Produced(s, known, own, shared)
           parts == {{order[k]} \X out[k] : k \in DOMAIN order}
<1>1. Evaluation(s, known, own, shared, order, out, rs) BY ProducedRows
<1>2. DOMAIN order = 1..Cardinality(Active(s)) /\ Cardinality(Active(s)) \in Nat BY ListedOnce
<1>3. rs \subseteq Ids \X Paths
  <2>1. Active(s) \subseteq Ids BY LibraryRows
  <2> HIDE DEF rs, order, out
  <2> QED BY <1>1, <2>1 DEF Evaluation
<1>4. \A k \in DOMAIN order : IsFiniteSet(out[k])
  <2> HIDE DEF rs, order, out
  <2> QED BY <1>1 DEF Evaluation
<1>5. DOMAIN out = DOMAIN order
  <2> HIDE DEF rs, order, out
  <2> QED BY <1>1 DEF Evaluation
<1>6. rs = UNION parts BY DEF Produced
<1> HIDE DEF out, order
<1>7. ASSUME NEW part \in parts PROVE IsFiniteSet(part)
  <2>1. PICK k \in DOMAIN order : part = {order[k]} \X out[k] OBVIOUS
  <2>2. IsFiniteSet({order[k]}) /\ IsFiniteSet(out[k]) BY <1>4, FS_Singleton
  <2> QED BY <2>1, <2>2, FS_Product
<1>8. IsFiniteSet(parts)
  <2>1. IsFiniteSet(DOMAIN order) BY <1>2, FS_Interval
  <2>2. parts = {{order[k]} \X out[k] : k \in DOMAIN order} OBVIOUS
  <2> DEFINE F == [k \in DOMAIN order |-> {order[k]} \X out[k]]
  <2>3. F \in Surjection(DOMAIN order, parts) BY DEF Surjection
  <2> HIDE DEF parts, F
  <2> QED BY <2>1, <2>3, FS_Surjection
<1>9. IsFiniteSet(UNION parts)
  <2> HIDE DEF parts
  <2> QED BY <1>7, <1>8, FS_UNION
<1> QED BY <1>3, <1>6, <1>9 DEF Rowset

LEMMA UnprunedProduce ==
    ASSUME NEW s \in Libraries, NEW known, NEW own \in FiniteTags, NEW shared \in FiniteTags, NEW after,
           after = Pruned(ForPicture(s, ListEnabled(s), known, shared), own, shared)
    PROVE  /\ after \in FiniteTags
           /\ Produced(s, known, after, shared) = Produced(s, known, own, shared)
<1> DEFINE svcs == ForPicture(s, ListEnabled(s), known, shared)
           out == Outputs(svcs, own \cup shared)
           loose == Candidates(svcs, out, own) \ Kept(svcs, out, own, shared)
<1>1. GatesOn(svcs, Tag) BY ListGates
<1>2. Tag \in SUBSET Seq(STRING) BY TagAssumption
<1>3. own \in SUBSET Tag /\ IsFiniteSet(own) /\ shared \in SUBSET Tag BY DEF FiniteTags
<1>4. after = Pruned(svcs, own, shared) OBVIOUS
<1>5. Covered(svcs, Tag, own, shared, out, loose, after)
  <2> HIDE DEF svcs
  <2> QED BY <1>1, <1>2, <1>3, <1>4, PlanCovers
<1>6. Outputs(svcs, after \cup shared) = out
  <2> HIDE DEF svcs
  <2> QED BY <1>1, <1>2, <1>3, <1>4, PruneIsNeutral
<1>7. Produced(s, known, after, shared) = Produced(s, known, own, shared) BY <1>6 DEF Produced
<1>8. after \in FiniteTags
  <2> HIDE DEF svcs, out, loose
  <2> QED BY <1>5 DEF Covered, FiniteTags
<1> QED BY <1>7, <1>8

(* what a run has just applied is to be trusted up to its start, and for any mark before it *)
LEMMA TrustApplied ==
    ASSUME NEW s \in Libraries, NEW u \in Libraries, NEW at \in Nat, NEW to \in Nat, to <= at,
           Active(s) \subseteq Active(u), \A i \in Stamped(u, at) : i \in Active(s) /\ Alike(u[i], s[i]),
           NEW known, NEW own \in FiniteTags, NEW shared \in FiniteTags, NEW after,
           after = Pruned(ForPicture(s, ListEnabled(s), known, shared), own, shared)
    PROVE  Trusted(Produced(s, known, own, shared), u, to, known, after, shared)
<1> DEFINE rs == Produced(s, known, own, shared)
<1>1. Consistent(rs, Active(s), s, known, after, shared) BY UnprunedProduce, ProducedConsistent
<1>2. rs \subseteq Active(s) \X Paths BY <1>1 DEF Consistent
<1> HIDE DEF rs
<1>3. Stamped(u, to) \subseteq Stamped(u, at)
  <2>1. \A i \in Active(u) : u[i].invalidated \in Nat BY LibraryRows DEF Active, ServiceRow
  <2> QED BY <2>1 DEF Stamped
<1> SUFFICES ASSUME \A r \in rs : r[1] \notin Active(u) \ Stamped(u, to)
             PROVE  Consistent(rs, Stamped(u, to), u, known, after, shared)
  BY DEF Trusted, rs
<1>4. rs \subseteq Stamped(u, to) \X Paths
  <2>1. ASSUME NEW r \in rs PROVE r \in Stamped(u, to) \X Paths
    <3>1. r \in Active(s) \X Paths /\ r[1] \in Active(u) BY <1>2
    <3>2. r[1] \in Stamped(u, to) BY <3>1
    <3> QED BY <3>1, <3>2
  <2> QED BY <2>1
<1>5. /\ Stamped(u, to) \subseteq Active(s) /\ \A i \in Stamped(u, to) : Alike(u[i], s[i])
      /\ Stamped(u, to) \subseteq DOMAIN u /\ Active(s) \subseteq DOMAIN s
  BY <1>3 DEF Stamped, Active
<1> QED BY <1>1, <1>4, <1>5, Narrowed
-----------------------------------------------------------------------------
(* The inductive invariant.  EvaluatedTruth speaks of a picture no enabled service makes dirty; a  *)
(* picture gets there not only by being stamped but also when the service that made it dirty is     *)
(* disabled or deleted, so its rows must say something before: what the services stamped no later   *)
(* than its mark give it (MarksTrue).  What a run will stamp must say the same of the run's start   *)
(* (DoneTrue), for which what it has read must still be so, unless it was overtaken.               *)

MarksTrue ==
    \A p \in Pics : mark[p] # Never /\ p \notin missed =>
        Trusted(auto[p], svc, mark[p], fact[p], manual[p], incoming[p])

(* u, the services of now, against s, those a run started at at has read *)
Current(s, u, at) ==
    /\ Active(s) \subseteq Active(u)
    /\ \A i \in Stamped(u, at) : i \in Active(s) /\ Alike(u[i], s[i])

Past == {"loaded", "batch", "apply"}

ServicesRead == run.stage \in Past /\ run.overtaken # Pics => Current(run.services, svc, run.at)

RowsRead ==
    /\ run.stage \in {"batch", "apply"} =>
           \A p \in run.todo \ run.overtaken : run.facts[p] = fact[p]
    /\ run.stage = "apply" =>
           \A p \in run.left \ run.overtaken :
               run.facts[p] = fact[p] /\ run.own[p] = manual[p] /\ run.shared[p] = incoming[p]

DoneTrue ==
    run.stage = "apply" =>
        \A p \in run.done \ run.overtaken :
            Trusted(auto[p], svc, run.at, fact[p], manual[p], incoming[p])

Txns(ids, now) ==
    {None}
      \cup [kind : {"update"}, id : ids, patch : Patches, promote : BOOLEAN, stamp : 1..now]
      \cup [kind : {"delete"}, id : ids, promote : BOOLEAN]
      \cup [kind : {"config"}, id : ids]
      \cup [kind : {"rename"}, rename : Renames, stamp : 1..now]

Loaded == [stage : {"loaded"}, at : Nat, services : Libraries, overtaken : SUBSET Pics]
Batched == [stage : {"batch"}, at : Nat, services : Libraries, overtaken : SUBSET Pics,
            todo : SUBSET Pics, facts : [Pics -> BOOLEAN]]
Applying == [stage : {"apply"}, at : Nat, services : Libraries, overtaken : SUBSET Pics,
             todo : SUBSET Pics, facts : [Pics -> BOOLEAN], chunk : SUBSET Pics,
             left : SUBSET Pics, done : SUBSET Pics, own : [Pics -> FiniteTags],
             shared : [Pics -> FiniteTags]]
Runs == {Idle} \cup [stage : {"started"}, at : Nat] \cup Loaded \cup Batched \cup Applying

RowsSound ==
    /\ manual \in [Pics -> FiniteTags] /\ incoming \in [Pics -> FiniteTags]
    /\ auto \in [Pics -> Rowset] /\ fact \in [Pics -> BOOLEAN]
    /\ clock \in Nat \ {0} /\ mark \in [Pics -> 0..clock]
    /\ missed \in SUBSET Pics /\ events \in 0..MaxEvents

ServicesSound == svc \in Libraries /\ \A i \in DOMAIN svc : svc[i].invalidated \in 1..clock

RunSound ==
    /\ run \in Runs
    /\ run.stage # "idle" => run.at \in 1..clock /\ \A p \in Pics : mark[p] <= run.at
    /\ run.stage = "apply" =>
           run.left \cup run.done \subseteq run.chunk /\ run.left \cap run.done = {}

Sound == RowsSound /\ ServicesSound /\ txn \in Txns(DOMAIN svc, clock) /\ RunSound

PipelineSettled == Sound /\ MarksTrue /\ ServicesRead /\ RowsRead /\ DoneTrue
-----------------------------------------------------------------------------
(* Types: the statements on tag rows *)

LEMMA TagStatements ==
    ASSUME NEW rs \in FiniteTags, NEW add \in FiniteTags
    PROVE  /\ Assign(rs, add) \in FiniteTags /\ RemoveTags(rs, add) \in FiniteTags
           /\ PromoteManual(rs, add) \in FiniteTags
           /\ \A gone : Replace(rs, gone, add) \in FiniteTags
<1>1. IsFiniteSet(rs) /\ IsFiniteSet(add) /\ rs \subseteq Tag /\ add \subseteq Tag BY DEF FiniteTags
<1>2. IsFiniteSet(rs \cup add) /\ rs \cup add \subseteq Tag BY <1>1, FS_Union
<1>3. ASSUME NEW x, x \subseteq rs \cup add PROVE x \in FiniteTags
  BY <1>2, <1>3, FS_Subset DEF FiniteTags
<1>4. /\ Assign(rs, add) \subseteq rs \cup add /\ RemoveTags(rs, add) \subseteq rs \cup add
      /\ PromoteManual(rs, add) \subseteq rs \cup add
      /\ \A gone : Replace(rs, gone, add) \subseteq rs \cup add
  BY DEF Assign, FoldDeepest, RemoveTags, PromoteManual, Replace
<1> QED BY <1>3, <1>4

LEMMA RenamedTags ==
    ASSUME NEW r \in Renames, NEW rs \in FiniteTags
    PROVE  /\ RenamePaths(rs, r) \in FiniteTags /\ Rename(rs, r.old, r.new) \in FiniteTags
           /\ rs \in Assignable => RenamePaths(rs, r) \in Assignable
<1>1. IsFiniteSet(rs) /\ rs \subseteq Tag BY DEF FiniteTags
<1>2. /\ \A t \in Tag : RenameUnder(t, r.old, r.new) \in Tag
      /\ \A t \in Tag \ {ShareTag} : RenameUnder(t, r.old, r.new) \in Tag \ {ShareTag}
  BY EditsAssumption, TagAssumption DEF Tag, RenameUnder
<1> DEFINE image == {RenameUnder(t, r.old, r.new) : t \in rs}
           F == [t \in rs |-> RenameUnder(t, r.old, r.new)]
<1>3. F \in Surjection(rs, image) BY DEF Surjection
<1>4. IsFiniteSet(image)
  <2> HIDE DEF image, F
  <2> QED BY <1>1, <1>3, FS_Surjection
<1>5. image \in FiniteTags BY <1>1, <1>2, <1>4 DEF FiniteTags
<1>6. ASSUME rs \in Assignable PROVE image \in Assignable
  <2>1. ShareTag \notin rs BY <1>6 DEF Assignable
  <2>2. ShareTag \notin image BY <1>1, <1>2, <2>1
  <2> QED BY <1>5, <2>2 DEF Assignable
<1> QED BY <1>5, <1>6 DEF RenamePaths, Rename

LEMMA RowPaths ==
    ASSUME NEW rs \in Rowset, NEW i
    PROVE  /\ PathsOf({r \in rs : r[1] = i}) \in FiniteTags
           /\ rs \ {r \in rs : r[1] = i} \in Rowset /\ PathsOf(rs) \subseteq Tag
<1> DEFINE mine == {r \in rs : r[1] = i}
           paths == {r[2] : r \in mine}
           F == [r \in mine |-> r[2]]
<1>1. IsFiniteSet(rs) /\ rs \subseteq Ids \X Paths BY DEF Rowset
<1>2. IsFiniteSet(mine) BY <1>1, FS_Subset
<1>3. F \in Surjection(mine, paths) BY DEF Surjection
<1>4. IsFiniteSet(paths)
  <2> HIDE DEF F, mine, paths
  <2> QED BY <1>2, <1>3, FS_Surjection
<1>5. \A r \in rs : r[2] \in Paths BY <1>1
<1>6. paths \in FiniteTags BY <1>4, <1>5 DEF FiniteTags, Tag
<1>7. rs \ mine \in Rowset BY <1>1, FS_Subset DEF Rowset
<1> QED BY <1>5, <1>6, <1>7 DEF PathsOf, Tag
-----------------------------------------------------------------------------
(* Types: the services *)

LEMMA LibraryByRows ==
    ASSUME NEW s, NEW S \in SUBSET Ids, s = [i \in S |-> s[i]], \A i \in S : s[i] \in ServiceRow,
           \A i, j \in S : i # j => s[i].position # s[j].position
    PROVE  s \in Libraries
<1>1. s \in [S -> ServiceRow] /\ DOMAIN s = S OBVIOUS
<1> QED BY <1>1 DEF Libraries

LEMMA RowOfDefinition ==
    ASSUME NEW d, IsDefinition(d), NEW position \in Int, NEW stamp \in Nat
    PROVE  Service(d, position, stamp) \in ServiceRow /\ Service(d, position, stamp).position = position
           /\ Service(d, position, stamp).invalidated = stamp
           /\ Service(d, position, stamp).enabled = d.enabled
BY DEF IsDefinition, Service, ServiceRow

LEMMA RowPatched ==
    ASSUME NEW row \in ServiceRow, NEW patch, IsPatch(patch), NEW stamp \in Nat
    PROVE  /\ Patched(row, patch, stamp) \in ServiceRow
           /\ Patched(row, patch, stamp).position = row.position
           /\ Patched(row, patch, stamp).invalidated = stamp
           /\ ~Disables(patch) => (row.enabled => Patched(row, patch, stamp).enabled)
<1> DEFINE Field(f) == IF f \in DOMAIN patch THEN patch[f] ELSE row[f]
<1>1. Field("enabled") \in BOOLEAN /\ Field("prune") \in BOOLEAN /\ Field("requires") \in FiniteTags
      /\ Field("excludes") \in FiniteTags /\ Field("keep") \in FiniteTags
  BY DEF IsPatch, PatchFields, ServiceRow
<1>2. ~Disables(patch) => (row.enabled => Field("enabled"))
  <2> SUFFICES ASSUME ~Disables(patch), row.enabled, "enabled" \in DOMAIN patch PROVE patch.enabled
    OBVIOUS
  <2> QED BY DEF Disables
<1>3. Patched(row, patch, stamp) =
        [row EXCEPT !.enabled = Field("enabled"), !.requires = Field("requires"),
                    !.excludes = Field("excludes"), !.prune = Field("prune"),
                    !.keep = Field("keep"), !.invalidated = stamp]
  BY DEF Patched
<1> HIDE DEF Field
<1> QED BY <1>1, <1>2, <1>3 DEF ServiceRow

LEMMA RowRenamed ==
    ASSUME NEW row \in ServiceRow, NEW r \in Renames, NEW stamp \in Nat
    PROVE  /\ Renamed(row, r) \in ServiceRow
           /\ [Renamed(row, r) EXCEPT !.invalidated = stamp] \in ServiceRow
           /\ [Renamed(row, r) EXCEPT !.invalidated = stamp].position = row.position
           /\ [Renamed(row, r) EXCEPT !.invalidated = stamp].enabled = row.enabled
           /\ [Renamed(row, r) EXCEPT !.invalidated = stamp].invalidated = stamp
<1>1. RenamePaths(row.requires, r) \in FiniteTags /\ RenamePaths(row.excludes, r) \in FiniteTags
      /\ RenamePaths(row.assign, r) \in Assignable
  BY RenamedTags DEF ServiceRow, Assignable
<1> QED BY <1>1 DEF Renamed, ServiceRow

LEMMA ServiceWritten ==
    ASSUME NEW s \in Libraries, NEW i \in DOMAIN s, NEW row \in ServiceRow,
           row.position = s[i].position, NEW u, u = [s EXCEPT ![i] = row]
    PROVE  u \in Libraries /\ DOMAIN u = DOMAIN s /\ u[i] = row /\ \A j \in DOMAIN s : j # i => u[j] = s[j]
<1>1. /\ DOMAIN s \subseteq Ids /\ \A j \in DOMAIN s : s[j] \in ServiceRow
      /\ \A j, k \in DOMAIN s : j # k => s[j].position # s[k].position
  BY LibraryRows
<1>2. u = [j \in DOMAIN s |-> u[j]] /\ u[i] = row /\ \A j \in DOMAIN s : j # i => u[j] = s[j]
  OBVIOUS
<1>3. \A j \in DOMAIN s : u[j] \in ServiceRow /\ u[j].position = s[j].position BY <1>1, <1>2
<1>4. \A j, k \in DOMAIN s : j # k => u[j].position # u[k].position BY <1>1, <1>3
<1> DEFINE S == DOMAIN s
<1>5. S \in SUBSET Ids /\ u = [j \in S |-> u[j]] BY <1>1, <1>2
<1>6. \A j \in S : u[j] \in ServiceRow BY <1>3
<1>7. u \in Libraries
  <2> HIDE DEF S
  <2>1. \A j, k \in S : j # k => u[j].position # u[k].position BY <1>4 DEF S
  <2> DEFINE f == [j \in S |-> u[j]]
  <2>2. \A j \in S : f[j] = u[j] OBVIOUS
  <2>3. u = f BY <1>5
  <2> HIDE DEF f
  <2>4. S \in SUBSET Ids /\ (\A j \in S : f[j] \in ServiceRow) /\ f = [j \in S |-> f[j]]
    BY <1>5, <1>6, <2>3
  <2>5. \A j, k \in S : j # k => f[j].position # f[k].position BY <2>1, <2>2
  <2> QED BY <2>3, <2>4, <2>5, LibraryByRows
<1> QED BY <1>2, <1>7
-----------------------------------------------------------------------------
(* Changes outside the run: what they do to it *)

(* q is r with perhaps more pictures overtaken *)
Followed(r, q) ==
    /\ q \in Runs /\ q.stage = r.stage
    /\ r.stage # "idle" => q.at = r.at
    /\ r.stage \in Past => q.services = r.services /\ r.overtaken \subseteq q.overtaken
    /\ r.stage \in {"batch", "apply"} => q.todo = r.todo /\ q.facts = r.facts
    /\ r.stage = "apply" =>
           q.chunk = r.chunk /\ q.left = r.left /\ q.done = r.done /\ q.own = r.own /\ q.shared = r.shared

LEMMA RunFields ==
    ASSUME run \in Runs
    PROVE  /\ run.stage \in {"idle", "started"} \cup Past
           /\ run.stage = "idle" <=> run = Idle
           /\ run.stage = "started" => run \in [stage : {"started"}, at : Nat]
           /\ run.stage = "loaded" => run \in Loaded
           /\ run.stage = "batch" => run \in Batched
           /\ run.stage = "apply" => run \in Applying
BY DEF Runs, Idle, Loaded, Batched, Applying, Past

LEMMA OvertakenFollows ==
    ASSUME run \in Runs, run.stage \in Past, NEW ps \in SUBSET Pics
    PROVE  Followed(run, Overtaken(ps)) /\ Overtaken(ps).overtaken = run.overtaken \cup ps
<1>1. CASE run.stage = "loaded"
  <2>1. run \in Loaded BY <1>1, RunFields
  <2>2. Overtaken(ps) \in Loaded BY <2>1 DEF Overtaken, Loaded
  <2> QED BY <1>1, <2>1, <2>2 DEF Followed, Overtaken, Loaded, Runs, Past
<1>2. CASE run.stage = "batch"
  <2>1. run \in Batched BY <1>2, RunFields
  <2>2. Overtaken(ps) \in Batched BY <2>1 DEF Overtaken, Batched
  <2> QED BY <1>2, <2>1, <2>2 DEF Followed, Overtaken, Batched, Runs, Past
<1>3. CASE run.stage = "apply"
  <2>1. run \in Applying BY <1>3, RunFields
  <2>2. Overtaken(ps) \in Applying BY <2>1 DEF Overtaken, Applying
  <2> QED BY <1>3, <2>1, <2>2 DEF Followed, Overtaken, Applying, Runs, Past
<1> QED BY <1>1, <1>2, <1>3 DEF Past

LEMMA SameFollows == ASSUME run \in Runs PROVE Followed(run, run)
BY DEF Followed

LEMMA TagsFollow ==
    ASSUME run \in Runs, NEW ps \in SUBSET Pics
    PROVE  /\ Followed(run, OvertakenTags(ps))
           /\ run.stage = "apply" => ps \cap run.chunk \subseteq OvertakenTags(ps).overtaken
<1>1. CASE run.stage = "apply"
  <2>1. ReadTags = run.chunk /\ OvertakenTags(ps) = Overtaken(ps \cap run.chunk) BY <1>1 DEF ReadTags, OvertakenTags
  <2>2. ps \cap run.chunk \in SUBSET Pics /\ run.stage \in Past BY <1>1 DEF Past
  <2> QED BY <2>1, <2>2, OvertakenFollows
<1>2. CASE run.stage # "apply"
  <2>1. OvertakenTags(ps) = run BY <1>2 DEF OvertakenTags
  <2> QED BY <1>2, <2>1, SameFollows
<1> QED BY <1>1, <1>2

LEMMA ServicesFollow ==
    ASSUME run \in Runs
    PROVE  /\ Followed(run, OvertakenServices)
           /\ run.stage \in Past => OvertakenServices.overtaken = Pics
<1>1. CASE run.stage \in Past
  <2>1. OvertakenServices = Overtaken(Pics) BY <1>1 DEF OvertakenServices, Past
  <2>2. run.overtaken \subseteq Pics BY <1>1, RunFields DEF Past, Loaded, Batched, Applying
  <2> QED BY <1>1, <2>1, <2>2, OvertakenFollows
<1>2. CASE run.stage \notin Past
  <2>1. OvertakenServices = run BY <1>2 DEF OvertakenServices, Past
  <2> QED BY <1>2, <2>1, SameFollows
<1> QED BY <1>1, <1>2

LEMMA RowsFollow ==
    ASSUME run \in Runs, NEW ps \in SUBSET Pics
    PROVE  /\ Followed(run, OvertakenRows(ps))
           /\ run.stage \in {"batch", "apply"} => ps \cap ReadRows \subseteq OvertakenRows(ps).overtaken
<1>1. CASE ReadRows # {}
  <2>1. run.stage \in Past /\ OvertakenRows(ps) = Overtaken(ps \cap ReadRows)
    BY <1>1 DEF ReadRows, OvertakenRows, Past
  <2>2. ps \cap ReadRows \in SUBSET Pics OBVIOUS
  <2> QED BY <2>1, <2>2, OvertakenFollows
<1>2. CASE ReadRows = {}
  <2>1. OvertakenRows(ps) = run BY <1>2 DEF OvertakenRows
  <2> QED BY <1>2, <2>1, SameFollows
<1> QED BY <1>1, <1>2

(* A change leaves alone what the run has read and done, of the pictures it does not overtake. *)
Undisturbed ==
    /\ run.stage \in Past /\ run'.overtaken # Pics =>
           Active(svc) \subseteq Active(svc') /\ Narrows(svc, run.at, svc', run.at)
    /\ run.stage \in {"batch", "apply"} => \A p \in run.todo \ run'.overtaken : fact'[p] = fact[p]
    /\ run.stage = "apply" =>
           \A p \in run.chunk \ run'.overtaken :
               /\ fact'[p] = fact[p] /\ auto'[p] = auto[p]
               /\ manual'[p] = manual[p] /\ incoming'[p] = incoming[p]

(* A mark that is left, and trusted, still tells the truth. *)
MarksSpared ==
    \A p \in Pics : mark'[p] # Never /\ p \notin missed' =>
        /\ mark'[p] = mark[p] /\ p \notin missed
        /\ fact'[p] = fact[p] /\ auto'[p] = auto[p]
        /\ manual'[p] = manual[p] /\ incoming'[p] = incoming[p]
        /\ Narrows(svc, mark[p], svc', mark[p])
        /\ \A r \in auto[p] : r[1] \notin Active(svc) \ Active(svc')

LEMMA RowsetRows == ASSUME RowsSound, NEW p \in Pics PROVE auto[p] \subseteq Ids \X Paths
BY DEF RowsSound, Rowset

LEMMA CurrentKept ==
    ASSUME NEW s, NEW u, NEW w, NEW at, Current(s, u, at), Active(u) \subseteq Active(w), Narrows(u, at, w, at)
    PROVE  Current(s, w, at)
BY DEF Current, Narrows, Alike

LEMMA OutsideStep ==
    ASSUME PipelineSettled, RowsSound', ServicesSound', txn' \in Txns(DOMAIN svc, clock)',
           Followed(run, run'), Undisturbed, MarksSpared, clock <= clock',
           \A p \in Pics : mark'[p] \in {Never, mark[p]}
    PROVE  PipelineSettled'
<1>0. RowsSound /\ RunSound /\ MarksTrue /\ ServicesRead /\ RowsRead /\ DoneTrue BY DEF PipelineSettled, Sound
<1>1. MarksTrue'
  <2> SUFFICES ASSUME NEW p \in Pics, mark'[p] # Never, p \notin missed'
               PROVE  Trusted(auto'[p], svc', mark'[p], fact'[p], manual'[p], incoming'[p])
    BY DEF MarksTrue
  <2>1. /\ mark'[p] = mark[p] /\ p \notin missed
        /\ fact'[p] = fact[p] /\ auto'[p] = auto[p]
        /\ manual'[p] = manual[p] /\ incoming'[p] = incoming[p]
        /\ Narrows(svc, mark[p], svc', mark[p])
        /\ \A r \in auto[p] : r[1] \notin Active(svc) \ Active(svc')
    BY DEF MarksSpared
  <2>2. Trusted(auto[p], svc, mark[p], fact[p], manual[p], incoming[p]) BY <1>0, <2>1 DEF MarksTrue
  <2>3. auto[p] \subseteq Ids \X Paths BY <1>0, RowsetRows
  <2>4. Trusted(auto[p], svc', mark[p], fact[p], manual[p], incoming[p]) BY <2>1, <2>2, <2>3, TrustKept
  <2> QED BY <2>1, <2>4
<1>2. RunSound'
  <2>1. run' \in Runs /\ run'.stage = run.stage BY DEF Followed
  <2>2. ASSUME run'.stage # "idle" PROVE run'.at \in 1..clock' /\ \A p \in Pics : mark'[p] <= run'.at
    <3>1. run'.at = run.at /\ run.at \in 1..clock /\ \A p \in Pics : mark[p] <= run.at
      BY <1>0, <2>1, <2>2 DEF Followed, RunSound
    <3> QED BY <1>0, <3>1 DEF RowsSound, Never
  <2>3. ASSUME run'.stage = "apply"
        PROVE  run'.left \cup run'.done \subseteq run'.chunk /\ run'.left \cap run'.done = {}
    BY <1>0, <2>1, <2>3 DEF Followed, RunSound
  <2> QED BY <2>1, <2>2, <2>3 DEF RunSound
<1>3. ServicesRead'
  <2> SUFFICES ASSUME run'.stage \in Past, run'.overtaken # Pics
               PROVE  Current(run'.services, svc', run'.at)
    BY DEF ServicesRead
  <2>1. run.stage \in Past /\ run'.services = run.services /\ run'.at = run.at
        /\ run.overtaken \subseteq run'.overtaken
    BY DEF Followed, Past
  <2>2. run'.overtaken \subseteq Pics
    <3>1. run' \in Runs BY DEF Followed
    <3>2. run' \in Loaded \cup Batched \cup Applying BY <3>1 DEF Runs, Idle, Past
    <3> QED BY <3>2 DEF Loaded, Batched, Applying
  <2>3. Current(run.services, svc, run.at) BY <1>0, <2>1, <2>2 DEF ServicesRead
  <2>4. Active(svc) \subseteq Active(svc') /\ Narrows(svc, run.at, svc', run.at) BY <2>1 DEF Undisturbed
  <2>5. Current(run.services, svc', run.at) BY <2>3, <2>4, CurrentKept
  <2> QED BY <2>1, <2>5
<1>4. RowsRead'
  <2>1. ASSUME run'.stage \in {"batch", "apply"}, NEW p \in run'.todo \ run'.overtaken
        PROVE  run'.facts[p] = fact'[p]
    BY <1>0, <2>1 DEF Followed, Undisturbed, RowsRead, Past
  <2>2. ASSUME run'.stage = "apply", NEW p \in run'.left \ run'.overtaken
        PROVE  run'.facts[p] = fact'[p] /\ run'.own[p] = manual'[p] /\ run'.shared[p] = incoming'[p]
    <3>1. run.stage = "apply" /\ p \in run.left \ run.overtaken /\ p \in run.chunk \ run'.overtaken
      BY <1>0, <2>2 DEF Followed, RunSound, Past
    <3> QED BY <1>0, <3>1 DEF Followed, Undisturbed, RowsRead
  <2> QED BY <2>1, <2>2 DEF RowsRead
<1>5. DoneTrue'
  <2> SUFFICES ASSUME run'.stage = "apply", NEW p \in run'.done \ run'.overtaken
               PROVE  Trusted(auto'[p], svc', run'.at, fact'[p], manual'[p], incoming'[p])
    BY DEF DoneTrue
  <2>1. run.stage = "apply" /\ p \in run.done \ run.overtaken /\ p \in run.chunk \ run'.overtaken
        /\ run'.at = run.at /\ run.stage \in Past
    BY <1>0 DEF Followed, RunSound, Past
  <2>2. Trusted(auto[p], svc, run.at, fact[p], manual[p], incoming[p]) BY <1>0, <2>1 DEF DoneTrue
  <2>3. /\ fact'[p] = fact[p] /\ auto'[p] = auto[p]
        /\ manual'[p] = manual[p] /\ incoming'[p] = incoming[p]
    BY <2>1 DEF Undisturbed
  <2>4. p \in Pics BY <1>0, <2>1, RunFields DEF RunSound, Applying
  <2>5. Active(svc) \subseteq Active(svc') /\ Narrows(svc, run.at, svc', run.at)
    BY <2>1, <2>4 DEF Undisturbed
  <2>6. auto[p] \subseteq Ids \X Paths BY <1>0, <2>4, RowsetRows
  <2>7. \A r \in auto[p] : r[1] \notin Active(svc) \ Active(svc') BY <2>5
  <2>8. Trusted(auto[p], svc', run.at, fact[p], manual[p], incoming[p])
    BY <2>2, <2>5, <2>6, <2>7, TrustKept
  <2> QED BY <2>1, <2>3, <2>8
<1> QED BY <1>1, <1>2, <1>3, <1>4, <1>5 DEF PipelineSettled, Sound
-----------------------------------------------------------------------------
(* Changes to pictures *)

LEMMA SameServices ==
    ASSUME svc' = svc, NEW at
    PROVE  Active(svc) \subseteq Active(svc') /\ Narrows(svc, at, svc', at)
BY DEF Narrows, Alike

LEMMA EventCounted == ASSUME events \in 0..MaxEvents, Event PROVE events' \in 0..MaxEvents
BY BoundsAssumption DEF Event

LEMMA TxnStays ==
    ASSUME txn \in Txns(DOMAIN svc, clock), DOMAIN svc \subseteq DOMAIN svc', clock' \in Nat, clock <= clock',
           clock \in Nat, UNCHANGED txn
    PROVE  txn' \in Txns(DOMAIN svc, clock)'
<1>1. 1..clock \subseteq 1..clock' OBVIOUS
<1> QED BY <1>1 DEF Txns

LEMMA NothingAdded == ASSUME NEW rs PROVE Assign(rs, {}) = rs /\ PromoteManual(rs, {}) = rs
BY DEF Assign, FoldDeepest, PromoteManual

LEMMA EditTagsSettled == ASSUME PipelineSettled, EditTags PROVE PipelineSettled'
<1>0. RowsSound /\ ServicesSound /\ RunSound /\ txn \in Txns(DOMAIN svc, clock) /\ run \in Runs
  BY DEF PipelineSettled, Sound, RunSound
<1>1. PICK ps \in (SUBSET Pics) \ {{}}, e \in Edits :
        LET Removed(p) == RemoveTags(manual[p], e.remove)
            lost == {p \in ps : Removed(p) # manual[p]}
            dirtied == IF e.add = {} THEN lost ELSE ps
        IN  /\ manual' = [p \in Pics |-> IF p \in ps THEN Assign(Removed(p), e.add) ELSE manual[p]]
            /\ mark' = [p \in Pics |-> IF p \in dirtied THEN Never ELSE mark[p]]
            /\ run' = OvertakenTags(ps)
  BY DEF EditTags
<1>2. Event /\ UNCHANGED <<incoming, auto, fact, svc, clock, txn, missed>> BY DEF EditTags
<1> DEFINE cut(p) == RemoveTags(manual[p], e.remove)
<1>3. manual' = [p \in Pics |-> IF p \in ps THEN Assign(cut(p), e.add) ELSE manual[p]] BY <1>1
<1>4. \A p \in Pics : mark'[p] \in {Never, mark[p]} /\ (mark'[p] # Never /\ p \in ps => e.add = {} /\ cut(p) = manual[p])
  BY <1>1
<1>5. mark' \in [Pics -> 0..clock] BY <1>0, <1>1 DEF RowsSound, Never
<1>6. manual' \in [Pics -> FiniteTags]
  <2>1. ASSUME NEW p \in Pics PROVE manual[p] \in FiniteTags /\ Assign(cut(p), e.add) \in FiniteTags
    <3>1. manual[p] \in FiniteTags /\ e.remove \in FiniteTags /\ e.add \in FiniteTags
      BY <1>0, EditsAssumption DEF RowsSound
    <3>2. cut(p) \in FiniteTags BY <3>1, TagStatements
    <3> HIDE DEF cut
    <3> QED BY <3>1, <3>2, TagStatements
  <2> HIDE DEF cut
  <2> QED BY <1>3, <2>1
<1>7. RowsSound' BY <1>0, <1>2, <1>5, <1>6, EventCounted DEF RowsSound
<1>8. ServicesSound' BY <1>0, <1>2 DEF ServicesSound
<1>9. Followed(run, run') /\ (run.stage = "apply" => ps \cap run.chunk \subseteq run'.overtaken)
  BY <1>0, <1>1, TagsFollow
<1>10. Undisturbed
  <2>1. ASSUME run.stage = "apply", NEW p \in run.chunk \ run'.overtaken
        PROVE  p \in Pics /\ manual'[p] = manual[p]
    <3>1. p \in Pics BY <1>0, <2>1, RunFields DEF Applying
    <3>2. p \notin ps BY <1>9, <2>1
    <3> HIDE DEF cut
    <3> QED BY <1>3, <3>1, <3>2
  <2> QED BY <1>2, <2>1, SameServices DEF Undisturbed
<1>11. MarksSpared
  <2>1. ASSUME NEW p \in Pics, mark'[p] # Never PROVE manual'[p] = manual[p]
    <3>1. CASE p \in ps
      <4>1. Assign(manual[p], {}) = manual[p] BY NothingAdded
      <4>2. e.add = {} /\ cut(p) = manual[p] BY <1>4, <2>1, <3>1
      <4> HIDE DEF cut
      <4> QED BY <1>3, <3>1, <4>1, <4>2
    <3>2. CASE p \notin ps
      <4> HIDE DEF cut
      <4> QED BY <1>3, <3>2
    <3> QED BY <3>1, <3>2
  <2> HIDE DEF cut
  <2> QED BY <1>2, <1>4, <2>1, SameServices DEF MarksSpared
<1>12. txn' \in Txns(DOMAIN svc, clock)' BY <1>0, <1>2
<1>13. clock <= clock' BY <1>0, <1>2 DEF RowsSound
<1> HIDE DEF cut
<1> QED BY <1>4, <1>7, <1>8, <1>9, <1>10, <1>11, <1>12, <1>13, OutsideStep

LEMMA EditFactSettled == ASSUME PipelineSettled, EditFact PROVE PipelineSettled'
<1>0. RowsSound /\ ServicesSound /\ RunSound /\ txn \in Txns(DOMAIN svc, clock) /\ run \in Runs
  BY DEF PipelineSettled, Sound, RunSound
<1>1. PICK q \in Pics : /\ fact' = [fact EXCEPT ![q] = ~@] /\ mark' = [mark EXCEPT ![q] = Never]
                        /\ run' = OvertakenRows({q})
  BY DEF EditFact
<1>2. Event /\ UNCHANGED <<rows, svc, clock, txn, missed>> BY DEF EditFact
<1>3. \A p \in Pics : mark'[p] \in {Never, mark[p]} /\ (p = q => mark'[p] = Never) /\ (p # q => fact'[p] = fact[p])
  BY <1>0, <1>1 DEF RowsSound
<1>4. RowsSound'
  <2>1. mark' \in [Pics -> 0..clock] BY <1>0, <1>1 DEF RowsSound, Never
  <2>2. fact' \in [Pics -> BOOLEAN] BY <1>0, <1>1 DEF RowsSound
  <2> QED BY <1>0, <1>2, <2>1, <2>2, EventCounted DEF RowsSound, rows
<1>5. ServicesSound' BY <1>0, <1>2 DEF ServicesSound
<1>6. Followed(run, run') /\ (run.stage \in {"batch", "apply"} => {q} \cap ReadRows \subseteq run'.overtaken)
  BY <1>0, <1>1, RowsFollow
<1>7. Undisturbed
  <2>1. ASSUME run.stage \in {"batch", "apply"}, NEW p \in ReadRows \ run'.overtaken
        PROVE  fact'[p] = fact[p]
    <3>1. p \in Pics BY <1>0, <2>1, RunFields DEF ReadRows, ReadTags, Batched, Applying
    <3> QED BY <1>3, <1>6, <2>1, <3>1
  <2>2. run.stage \in {"batch", "apply"} => run.todo \subseteq ReadRows BY DEF ReadRows
  <2>3. run.stage = "apply" => run.chunk \subseteq ReadRows BY DEF ReadRows, ReadTags
  <2>4. auto' = auto /\ manual' = manual /\ incoming' = incoming BY <1>2 DEF rows
  <2> QED BY <1>2, <2>1, <2>2, <2>3, <2>4, SameServices DEF Undisturbed
<1>8. MarksSpared BY <1>2, <1>3, SameServices DEF MarksSpared, rows
<1>9. txn' \in Txns(DOMAIN svc, clock)' BY <1>0, <1>2
<1>10. clock <= clock' BY <1>0, <1>2 DEF RowsSound
<1> QED BY <1>3, <1>4, <1>5, <1>6, <1>7, <1>8, <1>9, <1>10, OutsideStep

LEMMA ShareTagChangesSettled == ASSUME PipelineSettled, ShareTagChanges PROVE PipelineSettled'
<1>0. RowsSound /\ ServicesSound /\ RunSound /\ txn \in Txns(DOMAIN svc, clock) /\ run \in Runs
  BY DEF PipelineSettled, Sound, RunSound
<1>1. PICK q \in Pics : /\ incoming' = [incoming EXCEPT ![q] = {ShareTag} \ @]
                        /\ mark' = [mark EXCEPT ![q] = Never]
                        /\ run' = OvertakenTags({q})
  BY DEF ShareTagChanges
<1>2. Event /\ UNCHANGED <<manual, auto, fact, svc, clock, txn, missed>> BY DEF ShareTagChanges
<1>3. \A p \in Pics : /\ mark'[p] \in {Never, mark[p]} /\ (p = q => mark'[p] = Never)
                      /\ (p # q => incoming'[p] = incoming[p])
  BY <1>0, <1>1 DEF RowsSound
<1>4. RowsSound'
  <2>1. mark' \in [Pics -> 0..clock] BY <1>0, <1>1 DEF RowsSound, Never
  <2>2. {ShareTag} \ incoming[q] \in FiniteTags
    <3>1. IsFiniteSet({ShareTag}) BY FS_Singleton
    <3>2. IsFiniteSet({ShareTag} \ incoming[q]) BY <3>1, FS_Subset
    <3> QED BY <3>2 DEF FiniteTags, Tag
  <2>3. incoming' \in [Pics -> FiniteTags] BY <1>0, <1>1, <2>2 DEF RowsSound
  <2> QED BY <1>0, <1>2, <2>1, <2>3, EventCounted DEF RowsSound
<1>5. ServicesSound' BY <1>0, <1>2 DEF ServicesSound
<1>6. Followed(run, run') /\ (run.stage = "apply" => {q} \cap run.chunk \subseteq run'.overtaken)
  BY <1>0, <1>1, TagsFollow
<1>7. Undisturbed
  <2>1. ASSUME run.stage = "apply", NEW p \in run.chunk \ run'.overtaken
        PROVE  incoming'[p] = incoming[p]
    <3>1. p \in Pics BY <1>0, <2>1, RunFields DEF Applying
    <3> QED BY <1>3, <1>6, <2>1, <3>1
  <2> QED BY <1>2, <2>1, SameServices DEF Undisturbed
<1>8. MarksSpared BY <1>2, <1>3, SameServices DEF MarksSpared
<1>9. txn' \in Txns(DOMAIN svc, clock)' BY <1>0, <1>2
<1>10. clock <= clock' BY <1>0, <1>2 DEF RowsSound
<1> QED BY <1>3, <1>4, <1>5, <1>6, <1>7, <1>8, <1>9, <1>10, OutsideStep
-----------------------------------------------------------------------------
(* Changes to services *)

LEMMA TxnFields ==
    ASSUME NEW ids, NEW now, txn \in Txns(ids, now)
    PROVE  /\ txn.kind = "update" =>
                  txn \in [kind : {"update"}, id : ids, patch : Patches, promote : BOOLEAN, stamp : 1..now]
           /\ txn.kind = "delete" => txn \in [kind : {"delete"}, id : ids, promote : BOOLEAN]
           /\ txn.kind = "config" => txn \in [kind : {"config"}, id : ids]
           /\ txn.kind = "rename" => txn \in [kind : {"rename"}, rename : Renames, stamp : 1..now]
           /\ txn.kind \in {"none", "update", "delete", "config", "rename"}
BY DEF Txns, None

LEMMA NarrowsBy ==
    ASSUME NEW s, NEW u, NEW at,
           \A i \in Active(u) : (i \in Active(s) /\ u[i] = s[i]) \/ ~(u[i].invalidated <= at)
    PROVE  Narrows(s, at, u, at)
BY DEF Narrows, Stamped, Alike

LEMMA AllOvertaken ==
    ASSUME run \in Runs, run' = OvertakenServices
    PROVE  Followed(run, run') /\ Undisturbed
<1>1. Followed(run, run') /\ (run.stage \in Past => run'.overtaken = Pics) BY ServicesFollow
<1>2. /\ run.stage \in {"batch", "apply"} => run.todo \subseteq Pics
      /\ run.stage = "apply" => run.chunk \subseteq Pics
  BY RunFields DEF Batched, Applying
<1> QED BY <1>1, <1>2 DEF Undisturbed, Past

LEMMA AllMissed == ASSUME missed' = Pics PROVE MarksSpared
BY DEF MarksSpared

LEMMA SameMarks ==
    ASSUME RowsSound, UNCHANGED mark
    PROVE  \A p \in Pics : mark'[p] \in {Never, mark[p]} /\ mark[p] \in Nat /\ mark[p] <= clock
BY DEF RowsSound

LEMMA CreateServiceSettled == ASSUME PipelineSettled, CreateService PROVE PipelineSettled'
<1>0. RowsSound /\ ServicesSound /\ RunSound /\ txn \in Txns(DOMAIN svc, clock) /\ run \in Runs
  BY DEF PipelineSettled, Sound, RunSound
<1> DEFINE taken == {svc[j].position : j \in DOMAIN svc}
           last == taken \cup {-1}
           position == 1 + CHOOSE m \in last : \A n \in last : n <= m
<1>1. PICK i \in Ids \ DOMAIN svc, d \in Creatable :
        svc' = [j \in DOMAIN svc \cup {i} |-> IF j = i THEN Service(d, position, clock + 1) ELSE svc[j]]
  BY DEF CreateService
<1>2. Event /\ clock' = clock + 1 /\ UNCHANGED <<rows, fact, mark, txn, run, missed>> BY DEF CreateService
<1>3. clock \in Nat /\ \A j \in DOMAIN svc : svc[j] \in ServiceRow /\ svc[j].position \in Int
  BY <1>0, LibraryRows DEF RowsSound, ServicesSound, ServiceRow
<1>4. position \in Int /\ \A j \in DOMAIN svc : svc[j].position # position
  <2>1. DOMAIN svc \subseteq Ids /\ IsFiniteSet(DOMAIN svc)
    <3>1. DOMAIN svc \subseteq Ids BY <1>0, LibraryRows DEF ServicesSound
    <3> QED BY <3>1, IdsAssumption, FS_Subset
  <2> DEFINE F == [j \in DOMAIN svc |-> svc[j].position]
             R == {pair \in last \X last : pair[1] <= pair[2]}
  <2>2. F \in Surjection(DOMAIN svc, taken) BY DEF Surjection
  <2>3. IsFiniteSet(taken)
    <3> HIDE DEF F, taken
    <3> QED BY <2>1, <2>2, FS_Surjection
  <2>4. IsFiniteSet(last) /\ last # {} /\ last \subseteq Int
    <3>1. taken \subseteq Int BY <1>3
    <3>2. IsFiniteSet({-1}) BY FS_Singleton
    <3> HIDE DEF taken
    <3>3. IsFiniteSet(last) BY <2>3, <3>2, FS_Union
    <3> QED BY <3>1, <3>3
  <2>5. PICK m \in last : \A n \in last : <<n, m>> \in R
    <3>1. \A x, y \in last : <<x, y>> \in R <=> x <= y OBVIOUS
    <3> HIDE DEF last, R
    <3>2. /\ \A x, y \in last : <<x, y>> \in R \/ <<y, x>> \in R
          /\ \A x, y, z \in last : <<x, y>> \in R /\ <<y, z>> \in R => <<x, z>> \in R
      BY <2>4, <3>1
    <3> QED BY <2>4, <3>2, FiniteMaximum
  <2>6. \A n \in last : n <= m BY <2>5
  <2> DEFINE top == CHOOSE k \in last : \A n \in last : n <= k
  <2>7. top \in last /\ \A n \in last : n <= top
    <3> HIDE DEF last
    <3> QED BY <2>6
  <2>8. position = 1 + top OBVIOUS
  <2>9. \A j \in DOMAIN svc : svc[j].position \in last OBVIOUS
  <2> HIDE DEF last, top, position
  <2>10. position \in Int BY <2>4, <2>7, <2>8
  <2>11. ASSUME NEW j \in DOMAIN svc PROVE svc[j].position # position
    <3>1. svc[j].position <= top /\ svc[j].position \in Int /\ top \in Int BY <1>3, <2>4, <2>7, <2>9
    <3> QED BY <2>8, <3>1
  <2> QED BY <2>10, <2>11
<1> HIDE DEF taken, last, position
<1> DEFINE row == Service(d, position, clock + 1)
           D == DOMAIN svc \cup {i}
<1>5. /\ row \in ServiceRow /\ row.position = position /\ row.invalidated = clock + 1
  <2>1. IsDefinition(d) BY ServicesAssumption
  <2> QED BY <1>3, <1>4, <2>1, RowOfDefinition
<1> HIDE DEF row
<1>6. DOMAIN svc' = D /\ svc'[i] = row /\ \A j \in DOMAIN svc : svc'[j] = svc[j] /\ j # i BY <1>1 DEF row
<1>7. svc' \in Libraries
  <2>1. DOMAIN svc \subseteq Ids /\ \A j, k \in DOMAIN svc : j # k => svc[j].position # svc[k].position
    BY <1>0, LibraryRows DEF ServicesSound
  <2>2. svc' = [j \in D |-> svc'[j]] BY <1>1
  <2>3. D \in SUBSET Ids BY <2>1
  <2>4. \A j \in D : svc'[j] \in ServiceRow BY <1>3, <1>5, <1>6
  <2>5. \A j, k \in D : j # k => svc'[j].position # svc'[k].position BY <1>4, <1>5, <1>6, <2>1
  <2> HIDE DEF D
  <2> QED BY <2>2, <2>3, <2>4, <2>5, LibraryByRows
<1>8. ServicesSound'
  <2>1. \A j \in DOMAIN svc : svc[j].invalidated \in 1..clock BY <1>0 DEF ServicesSound
  <2>2. \A j \in D : svc'[j].invalidated \in 1..clock' BY <1>2, <1>3, <1>5, <1>6, <2>1
  <2> QED BY <1>6, <1>7, <2>2 DEF ServicesSound
<1>9. RowsSound' BY <1>0, <1>2, EventCounted DEF RowsSound, rows
<1>10. ASSUME NEW at \in Nat, at <= clock PROVE Active(svc) \subseteq Active(svc') /\ Narrows(svc, at, svc', at)
  <2>1. Active(svc) \subseteq Active(svc') BY <1>6 DEF Active
  <2>2. ASSUME NEW j \in Active(svc')
        PROVE  (j \in Active(svc) /\ svc'[j] = svc[j]) \/ ~(svc'[j].invalidated <= at)
    <3>1. CASE j = i BY <1>3, <1>5, <1>6, <1>10, <3>1
    <3>2. CASE j # i BY <1>6, <3>2 DEF Active
    <3> QED BY <3>1, <3>2
  <2> QED BY <2>1, <2>2, NarrowsBy
<1>11. Undisturbed
  <2>1. run.stage \in Past => run.at \in Nat /\ run.at <= clock BY <1>0, <1>3 DEF RunSound, Past
  <2> QED BY <1>2, <1>10, <2>1 DEF Undisturbed, rows
<1>12. \A p \in Pics : mark'[p] \in {Never, mark[p]} /\ mark[p] \in Nat /\ mark[p] <= clock
  BY <1>0, <1>2, SameMarks
<1>13. MarksSpared
  <2>1. \A p \in Pics : /\ Active(svc) \subseteq Active(svc') /\ Narrows(svc, mark[p], svc', mark[p])
    BY <1>10, <1>12
  <2> QED BY <1>2, <2>1 DEF MarksSpared, rows
<1>14. txn' \in Txns(DOMAIN svc, clock)' BY <1>0, <1>2, <1>3, <1>6, TxnStays
<1>15. Followed(run, run') BY <1>0, <1>2, SameFollows
<1>16. clock <= clock' BY <1>2, <1>3
<1> QED BY <1>8, <1>9, <1>11, <1>12, <1>13, <1>14, <1>15, <1>16, OutsideStep

LEMMA BeginsSettled ==
    ASSUME PipelineSettled, events' \in 0..MaxEvents, clock' \in {clock, clock + 1},
           txn' \in Txns(DOMAIN svc, clock)', UNCHANGED <<rows, fact, mark, svc, run, missed>>
    PROVE  PipelineSettled'
<1>0. RowsSound /\ ServicesSound /\ RunSound /\ run \in Runs BY DEF PipelineSettled, Sound, RunSound
<1>1. clock \in Nat /\ clock <= clock' /\ clock' \in Nat \ {0} BY <1>0 DEF RowsSound
<1>2. RowsSound'
  <2>1. mark' \in [Pics -> 0..clock'] BY <1>0, <1>1 DEF RowsSound
  <2> QED BY <1>0, <1>1, <2>1 DEF RowsSound, rows
<1>3. ServicesSound' BY <1>0, <1>1 DEF ServicesSound
<1>4. Undisturbed BY SameServices DEF Undisturbed, rows
<1>5. MarksSpared BY SameServices DEF MarksSpared, rows
<1>6. Followed(run, run') BY <1>0, SameFollows
<1>7. \A p \in Pics : mark'[p] \in {Never, mark[p]} BY <1>0, SameMarks
<1> QED BY <1>1, <1>2, <1>3, <1>4, <1>5, <1>6, <1>7, OutsideStep

LEMMA UpdateBeginsSettled == ASSUME PipelineSettled, UpdateBegins PROVE PipelineSettled'
<1>0. clock \in Nat BY DEF PipelineSettled, Sound, RowsSound
<1>1. /\ Event /\ clock' = clock + 1 /\ UNCHANGED <<rows, fact, mark, svc, run, missed>>
  BY DEF UpdateBegins
<1>2. PICK i \in DOMAIN svc, promote \in BOOLEAN :
        \/ \E patch \in Patches :
               txn' = [kind |-> "update", id |-> i, patch |-> patch, promote |-> promote,
                       stamp |-> clock + 1]
        \/ txn' = [kind |-> "delete", id |-> i, promote |-> promote]
  BY DEF UpdateBegins
<1>3. clock + 1 \in 1..clock' BY <1>0, <1>1
<1>4. txn' \in Txns(DOMAIN svc, clock)' BY <1>1, <1>2, <1>3 DEF Txns
<1>5. events' \in 0..MaxEvents BY <1>1, EventCounted DEF PipelineSettled, Sound, RowsSound
<1> QED BY <1>1, <1>4, <1>5, BeginsSettled

LEMMA RenameBeginsSettled == ASSUME PipelineSettled, RenameBegins PROVE PipelineSettled'
<1>0. clock \in Nat BY DEF PipelineSettled, Sound, RowsSound
<1>1. /\ Event /\ clock' = clock + 1 /\ UNCHANGED <<rows, fact, mark, svc, run, missed>>
  BY DEF RenameBegins
<1>2. PICK r \in Renames : txn' = [kind |-> "rename", rename |-> r, stamp |-> clock + 1]
  BY DEF RenameBegins
<1>3. clock + 1 \in 1..clock' BY <1>0, <1>1
<1>4. txn' \in Txns(DOMAIN svc, clock)' BY <1>2, <1>3 DEF Txns
<1>5. events' \in 0..MaxEvents BY <1>1, EventCounted DEF PipelineSettled, Sound, RowsSound
<1> QED BY <1>1, <1>4, <1>5, BeginsSettled

LEMMA RequestDiesSettled == ASSUME PipelineSettled, RequestDies PROVE PipelineSettled'
<1>1. /\ Event /\ clock' = clock /\ UNCHANGED <<rows, fact, mark, svc, run, missed>> /\ txn' = None
  BY DEF RequestDies
<1>2. txn' \in Txns(DOMAIN svc, clock)' BY <1>1 DEF Txns
<1>3. events' \in 0..MaxEvents BY <1>1, EventCounted DEF PipelineSettled, Sound, RowsSound
<1> QED BY <1>1, <1>2, <1>3, BeginsSettled

LEMMA ReplaceConfigSettled == ASSUME PipelineSettled, ReplaceConfig PROVE PipelineSettled'
<1>0. RowsSound /\ ServicesSound /\ RunSound /\ run \in Runs BY DEF PipelineSettled, Sound, RunSound
<1>1. PICK i \in DOMAIN svc, assign \in Configs :
        /\ svc' = [svc EXCEPT ![i].assign = assign]
        /\ txn' = [kind |-> "config", id |-> i]
  BY DEF ReplaceConfig
<1>2. /\ Event /\ run' = OvertakenServices /\ missed' = Pics /\ UNCHANGED <<rows, fact, mark, clock>>
  BY DEF ReplaceConfig
<1> DEFINE row == [svc[i] EXCEPT !.assign = assign]
<1>3. row \in ServiceRow /\ row.position = svc[i].position /\ row.invalidated = svc[i].invalidated
  <2>1. svc[i] \in ServiceRow BY <1>0, LibraryRows DEF ServicesSound
  <2>2. assign \in Assignable BY ServicesAssumption
  <2> QED BY <2>1, <2>2 DEF ServiceRow
<1>4. svc' = [svc EXCEPT ![i] = row] BY <1>1
<1>5. /\ svc' \in Libraries /\ DOMAIN svc' = DOMAIN svc /\ svc'[i] = row
      /\ \A j \in DOMAIN svc : j # i => svc'[j] = svc[j]
  <2> HIDE DEF row
  <2> QED BY <1>0, <1>3, <1>4, ServiceWritten DEF ServicesSound
<1>6. ServicesSound' BY <1>0, <1>2, <1>3, <1>5 DEF ServicesSound
<1>7. RowsSound' BY <1>0, <1>2, EventCounted DEF RowsSound, rows
<1>8. Followed(run, run') /\ Undisturbed BY <1>0, <1>2, AllOvertaken
<1>9. MarksSpared BY <1>2, AllMissed
<1>10. txn' \in Txns(DOMAIN svc, clock)' BY <1>1, <1>5 DEF Txns
<1>11. clock <= clock' BY <1>0, <1>2 DEF RowsSound
<1>12. \A p \in Pics : mark'[p] \in {Never, mark[p]} BY <1>0, <1>2, SameMarks
<1> QED BY <1>6, <1>7, <1>8, <1>9, <1>10, <1>11, <1>12, OutsideStep

LEMMA ReorderSettled == ASSUME PipelineSettled, Reorder PROVE PipelineSettled'
<1>0. RowsSound /\ ServicesSound /\ RunSound /\ run \in Runs /\ txn \in Txns(DOMAIN svc, clock)
  BY DEF PipelineSettled, Sound, RunSound
<1>1. PICK i \in DOMAIN svc, j \in DOMAIN svc :
        /\ svc[i].position < svc[j].position
        /\ svc' = [svc EXCEPT ![i].position = svc[j].position, ![j].position = svc[i].position]
  BY DEF Reorder
<1>2. /\ Event /\ run' = OvertakenServices /\ missed' = Pics /\ UNCHANGED <<rows, fact, mark, clock, txn>>
  BY DEF Reorder
<1>3. /\ DOMAIN svc \subseteq Ids /\ \A k \in DOMAIN svc : svc[k] \in ServiceRow /\ svc[k].position \in Int
      /\ \A k, l \in DOMAIN svc : k # l => svc[k].position # svc[l].position
  BY <1>0, LibraryRows DEF ServicesSound, ServiceRow
<1>4. i # j BY <1>1, <1>3
<1>5. /\ DOMAIN svc' = DOMAIN svc
      /\ svc'[i] = [svc[i] EXCEPT !.position = svc[j].position]
      /\ svc'[j] = [svc[j] EXCEPT !.position = svc[i].position]
      /\ \A k \in DOMAIN svc : k # i /\ k # j => svc'[k] = svc[k]
      /\ svc' = [k \in DOMAIN svc |-> svc'[k]]
  BY <1>1, <1>4
<1>6. /\ svc'[i] \in ServiceRow /\ svc'[i].position = svc[j].position /\ svc'[i].invalidated = svc[i].invalidated
      /\ svc'[j] \in ServiceRow /\ svc'[j].position = svc[i].position /\ svc'[j].invalidated = svc[j].invalidated
  BY <1>3, <1>5 DEF ServiceRow
<1>7. svc' \in Libraries
  <2>1. \A k \in DOMAIN svc : svc'[k] \in ServiceRow BY <1>3, <1>5, <1>6
  <2>2. ASSUME NEW k \in DOMAIN svc, NEW l \in DOMAIN svc, k # l PROVE svc'[k].position # svc'[l].position
    <3> DEFINE Other(m) == IF m = i THEN j ELSE IF m = j THEN i ELSE m
    <3>1. \A m \in DOMAIN svc : svc'[m].position = svc[Other(m)].position /\ Other(m) \in DOMAIN svc
      BY <1>5, <1>6
    <3>2. Other(k) # Other(l) BY <1>4, <2>2
    <3> HIDE DEF Other
    <3> QED BY <1>3, <3>1, <3>2
  <2> DEFINE S == DOMAIN svc
  <2>3. S \in SUBSET Ids /\ svc' = [k \in S |-> svc'[k]] BY <1>3, <1>5
  <2>4. /\ \A k \in S : svc'[k] \in ServiceRow
        /\ \A k, l \in S : k # l => svc'[k].position # svc'[l].position
    BY <2>1, <2>2
  <2> HIDE DEF S
  <2> QED BY <2>3, <2>4, LibraryByRows
<1>8. ServicesSound'
  <2>1. \A k \in DOMAIN svc : svc'[k].invalidated = svc[k].invalidated BY <1>5, <1>6
  <2> QED BY <1>0, <1>2, <1>5, <1>7, <2>1 DEF ServicesSound
<1>9. RowsSound' BY <1>0, <1>2, EventCounted DEF RowsSound, rows
<1>10. Followed(run, run') /\ Undisturbed BY <1>0, <1>2, AllOvertaken
<1>11. MarksSpared BY <1>2, AllMissed
<1>12. txn' \in Txns(DOMAIN svc, clock)' BY <1>0, <1>2, <1>5
<1>13. clock <= clock' BY <1>0, <1>2 DEF RowsSound
<1>14. \A p \in Pics : mark'[p] \in {Never, mark[p]} BY <1>0, <1>2, SameMarks
<1> QED BY <1>8, <1>9, <1>10, <1>11, <1>12, <1>13, <1>14, OutsideStep

LEMMA ConfigTouchedSettled == ASSUME PipelineSettled, ConfigTouched PROVE PipelineSettled'
<1>0. RowsSound /\ ServicesSound /\ RunSound /\ run \in Runs /\ txn \in Txns(DOMAIN svc, clock)
  BY DEF PipelineSettled, Sound, RunSound
<1>1. /\ txn.kind = "config" /\ clock' = clock + 1 /\ svc' = [svc EXCEPT ![txn.id].invalidated = clock + 1]
      /\ txn' = None /\ UNCHANGED <<rows, fact, mark, run, missed, events>>
  BY DEF ConfigTouched
<1>2. txn.id \in DOMAIN svc BY <1>0, <1>1, TxnFields
<1> DEFINE i == txn.id
           row == [svc[i] EXCEPT !.invalidated = clock + 1]
<1>3. clock \in Nat /\ clock' \in Nat \ {0} /\ clock <= clock' BY <1>0, <1>1 DEF RowsSound
<1>4. /\ row \in ServiceRow /\ row.position = svc[i].position /\ row.invalidated = clock + 1
      /\ row.enabled = svc[i].enabled
  <2>1. svc[i] \in ServiceRow BY <1>0, <1>2, LibraryRows DEF ServicesSound
  <2> QED BY <1>3, <2>1 DEF ServiceRow
<1>5. svc' = [svc EXCEPT ![i] = row] BY <1>1
<1>6. /\ svc' \in Libraries /\ DOMAIN svc' = DOMAIN svc /\ svc'[i] = row
      /\ \A j \in DOMAIN svc : j # i => svc'[j] = svc[j]
  <2> HIDE DEF row, i
  <2>1. i \in DOMAIN svc BY <1>2 DEF i
  <2> QED BY <1>0, <1>4, <1>5, <2>1, ServiceWritten DEF ServicesSound
<1> HIDE DEF row, i
<1>7. ServicesSound'
  <2>1. \A j \in DOMAIN svc : svc[j].invalidated \in 1..clock BY <1>0 DEF ServicesSound
  <2>2. \A j \in DOMAIN svc : svc'[j].invalidated \in 1..clock' BY <1>1, <1>3, <1>4, <1>6, <2>1
  <2> QED BY <1>6, <2>2 DEF ServicesSound
<1>8. RowsSound'
  <2>1. mark' \in [Pics -> 0..clock'] BY <1>0, <1>1, <1>3 DEF RowsSound
  <2> QED BY <1>0, <1>1, <1>3, <2>1 DEF RowsSound, rows
<1>9. ASSUME NEW at \in Nat, at <= clock PROVE Active(svc) \subseteq Active(svc') /\ Narrows(svc, at, svc', at)
  <2>1. Active(svc) = Active(svc')
    <3>1. \A j \in DOMAIN svc : svc'[j].enabled = svc[j].enabled BY <1>4, <1>6
    <3> QED BY <1>6, <3>1 DEF Active
  <2>2. ASSUME NEW j \in Active(svc')
        PROVE  (j \in Active(svc) /\ svc'[j] = svc[j]) \/ ~(svc'[j].invalidated <= at)
    <3>1. j \in DOMAIN svc BY <2>1 DEF Active
    <3> QED BY <1>3, <1>4, <1>6, <1>9, <2>1, <3>1
  <2> QED BY <2>1, <2>2, NarrowsBy
<1>10. Undisturbed
  <2>1. run.stage \in Past => run.at \in Nat /\ run.at <= clock BY <1>0, <1>3 DEF RunSound, Past
  <2> QED BY <1>1, <1>9, <2>1 DEF Undisturbed, rows
<1>11. \A p \in Pics : mark'[p] \in {Never, mark[p]} /\ mark[p] \in Nat /\ mark[p] <= clock
  BY <1>0, <1>1, SameMarks
<1>12. MarksSpared
  <2>1. \A p \in Pics : /\ Active(svc) \subseteq Active(svc') /\ Narrows(svc, mark[p], svc', mark[p])
    BY <1>9, <1>11
  <2> QED BY <1>1, <2>1 DEF MarksSpared, rows
<1>13. txn' \in Txns(DOMAIN svc, clock)' BY <1>1 DEF Txns
<1>14. Followed(run, run') BY <1>0, <1>1, SameFollows
<1> QED BY <1>3, <1>7, <1>8, <1>10, <1>11, <1>12, <1>13, <1>14, OutsideStep

(* a service that goes takes its rows, and its marks, with it *)
LEMMA RetiredRows ==
    ASSUME RowsSound, NEW i, NEW promote \in BOOLEAN, Retired(i, promote)
    PROVE  /\ auto' \in [Pics -> Rowset] /\ manual' \in [Pics -> FiniteTags] /\ mark' \in [Pics -> 0..clock]
           /\ \A p \in Pics : mark'[p] \in {Never, mark[p]}
           /\ \A p \in Pics : mark'[p] # Never =>
                  /\ auto'[p] = auto[p] /\ manual'[p] = manual[p]
                  /\ \A r \in auto[p] : r[1] # i
<1>1. /\ auto' = [p \in Pics |-> auto[p] \ OwnRows(p, i)]
      /\ manual' = IF promote THEN [p \in Pics |-> PromoteManual(manual[p], PathsOf(OwnRows(p, i)))]
                              ELSE manual
      /\ mark' = [p \in Pics |-> IF p \in Holders(i) THEN Never ELSE mark[p]]
  BY DEF Retired
<1>2. ASSUME NEW p \in Pics
      PROVE  /\ PathsOf(OwnRows(p, i)) \in FiniteTags /\ auto[p] \ OwnRows(p, i) \in Rowset
             /\ PromoteManual(manual[p], PathsOf(OwnRows(p, i))) \in FiniteTags
  <2>1. auto[p] \in Rowset /\ manual[p] \in FiniteTags BY DEF RowsSound
  <2>2. PathsOf(OwnRows(p, i)) \in FiniteTags /\ auto[p] \ OwnRows(p, i) \in Rowset
    BY <2>1, RowPaths DEF OwnRows
  <2> QED BY <2>1, <2>2, TagStatements
<1>3. auto' \in [Pics -> Rowset] /\ manual' \in [Pics -> FiniteTags] BY <1>1, <1>2 DEF RowsSound
<1>4. mark' \in [Pics -> 0..clock] /\ \A p \in Pics : mark'[p] \in {Never, mark[p]}
  BY <1>1 DEF RowsSound, Never
<1>5. ASSUME NEW p \in Pics, mark'[p] # Never
      PROVE  auto'[p] = auto[p] /\ manual'[p] = manual[p] /\ \A r \in auto[p] : r[1] # i
  <2>1. OwnRows(p, i) = {} BY <1>1, <1>5 DEF Holders
  <2>2. PathsOf({}) = {} BY DEF PathsOf
  <2>3. PromoteManual(manual[p], {}) = manual[p] BY NothingAdded
  <2>4. \A r \in auto[p] : r[1] # i BY <2>1 DEF OwnRows
  <2> QED BY <1>1, <2>1, <2>2, <2>3, <2>4
<1> QED BY <1>3, <1>4, <1>5

LEMMA DeleteCommitsSettled == ASSUME PipelineSettled, DeleteCommits PROVE PipelineSettled'
<1>0. RowsSound /\ ServicesSound /\ RunSound /\ run \in Runs /\ txn \in Txns(DOMAIN svc, clock)
  BY DEF PipelineSettled, Sound, RunSound
<1> DEFINE i == txn.id
<1>1. /\ txn.kind = "delete" /\ svc' = [j \in DOMAIN svc \ {i} |-> svc[j]] /\ Retired(i, txn.promote)
      /\ txn' = None /\ run' = OvertakenServices /\ UNCHANGED <<incoming, fact, clock, missed, events>>
  BY DEF DeleteCommits
<1>2. txn.promote \in BOOLEAN BY <1>0, <1>1, TxnFields
<1> HIDE DEF i
<1>3. /\ auto' \in [Pics -> Rowset] /\ manual' \in [Pics -> FiniteTags] /\ mark' \in [Pics -> 0..clock]
      /\ \A p \in Pics : mark'[p] \in {Never, mark[p]}
      /\ \A p \in Pics : mark'[p] # Never =>
             auto'[p] = auto[p] /\ manual'[p] = manual[p] /\ \A r \in auto[p] : r[1] # i
  BY <1>0, <1>1, <1>2, RetiredRows
<1>4. DOMAIN svc' = DOMAIN svc \ {i} /\ \A j \in DOMAIN svc' : svc'[j] = svc[j] BY <1>1
<1>5. svc' \in Libraries
  <2>1. /\ DOMAIN svc \subseteq Ids /\ \A j \in DOMAIN svc : svc[j] \in ServiceRow
        /\ \A j, k \in DOMAIN svc : j # k => svc[j].position # svc[k].position
    BY <1>0, LibraryRows DEF ServicesSound
  <2> DEFINE S == DOMAIN svc \ {i}
  <2>2. S \in SUBSET Ids /\ svc' = [k \in S |-> svc'[k]] BY <1>1, <2>1
  <2>3. /\ \A k \in S : svc'[k] \in ServiceRow
        /\ \A k, l \in S : k # l => svc'[k].position # svc'[l].position
    BY <1>4, <2>1
  <2> HIDE DEF S
  <2> QED BY <2>2, <2>3, LibraryByRows
<1>6. ServicesSound' BY <1>0, <1>1, <1>4, <1>5 DEF ServicesSound
<1>7. RowsSound' BY <1>0, <1>1, <1>3 DEF RowsSound
<1>8. Followed(run, run') /\ Undisturbed BY <1>0, <1>1, AllOvertaken
<1>9. MarksSpared
  <2>1. ASSUME NEW at PROVE Narrows(svc, at, svc', at) BY <1>4, NarrowsBy DEF Active
  <2>2. Active(svc) \ Active(svc') \subseteq {i} BY <1>4 DEF Active
  <2>3. \A p \in Pics : mark'[p] # Never => mark'[p] = mark[p] BY <1>3
  <2> QED BY <1>1, <1>3, <2>1, <2>2, <2>3 DEF MarksSpared
<1>10. txn' \in Txns(DOMAIN svc, clock)' BY <1>1 DEF Txns
<1>11. clock <= clock' BY <1>0, <1>1 DEF RowsSound
<1> QED BY <1>3, <1>6, <1>7, <1>8, <1>9, <1>10, <1>11, OutsideStep

LEMMA UpdateCommitsSettled == ASSUME PipelineSettled, UpdateCommits PROVE PipelineSettled'
<1>0. RowsSound /\ ServicesSound /\ RunSound /\ run \in Runs /\ txn \in Txns(DOMAIN svc, clock)
  BY DEF PipelineSettled, Sound, RunSound
<1> DEFINE i == txn.id
           patch == txn.patch
           stamp == txn.stamp
           row == Patched(svc[i], patch, stamp)
<1>1. /\ txn.kind = "update" /\ svc' = [svc EXCEPT ![i] = row]
      /\ IF Disables(patch) THEN Retired(i, txn.promote) ELSE UNCHANGED <<manual, auto, mark>>
      /\ txn' = None /\ run' = OvertakenUnstamped({i}, stamp, {})
      /\ missed' = missed \cup StampedSince(stamp)
      /\ UNCHANGED <<incoming, fact, clock, events>>
  BY DEF UpdateCommits
<1>2. /\ i \in DOMAIN svc /\ patch \in Patches /\ txn.promote \in BOOLEAN
      /\ stamp \in Nat /\ stamp \in 1..clock /\ clock \in Nat
  BY <1>0, <1>1, TxnFields DEF RowsSound
<1>3. svc[i] \in ServiceRow BY <1>0, <1>2, LibraryRows DEF ServicesSound
<1>4. /\ row \in ServiceRow /\ row.position = svc[i].position /\ row.invalidated = stamp
      /\ ~Disables(patch) => (svc[i].enabled => row.enabled)
  <2>1. IsPatch(patch) BY <1>2, ServicesAssumption
  <2> HIDE DEF i, patch, stamp
  <2> QED BY <1>2, <1>3, <2>1, RowPatched
<1> HIDE DEF row, i, patch, stamp
<1>5. /\ svc' \in Libraries /\ DOMAIN svc' = DOMAIN svc /\ svc'[i] = row
      /\ \A j \in DOMAIN svc : j # i => svc'[j] = svc[j]
  BY <1>0, <1>1, <1>2, <1>4, ServiceWritten DEF ServicesSound
<1>6. ServicesSound'
  <2>1. \A j \in DOMAIN svc : svc[j].invalidated \in 1..clock BY <1>0 DEF ServicesSound
  <2>2. \A j \in DOMAIN svc : svc'[j].invalidated \in 1..clock' BY <1>1, <1>2, <1>4, <1>5, <2>1
  <2> QED BY <1>5, <2>2 DEF ServicesSound
<1>7. /\ auto' \in [Pics -> Rowset] /\ manual' \in [Pics -> FiniteTags] /\ mark' \in [Pics -> 0..clock]
      /\ \A p \in Pics : mark'[p] \in {Never, mark[p]}
      /\ \A p \in Pics : mark'[p] # Never =>
             /\ auto'[p] = auto[p] /\ manual'[p] = manual[p]
             /\ Disables(patch) => \A r \in auto[p] : r[1] # i
  <2>1. CASE Disables(patch) BY <1>0, <1>1, <1>2, <2>1, RetiredRows
  <2>2. CASE ~Disables(patch) BY <1>0, <1>1, <2>2 DEF RowsSound
  <2> QED BY <2>1, <2>2
<1>8. RowsSound' BY <1>0, <1>1, <1>7 DEF RowsSound, StampedSince
(* the written service no longer counts for anything stamped before the transaction *)
<1>9. ASSUME NEW at \in Nat, at < stamp PROVE Narrows(svc, at, svc', at)
  <2>1. ~(row.invalidated <= at) BY <1>2, <1>4, <1>9
  <2>2. ASSUME NEW j \in Active(svc')
        PROVE  (j \in Active(svc) /\ svc'[j] = svc[j]) \/ ~(svc'[j].invalidated <= at)
    BY <1>5, <2>1 DEF Active
  <2> QED BY <2>2, NarrowsBy
<1>10. Active(svc) \ Active(svc') \subseteq {i} /\ (~Disables(patch) => Active(svc) \subseteq Active(svc'))
  BY <1>4, <1>5 DEF Active
<1>11. Followed(run, run') /\ Undisturbed
  <2>1. CASE run.stage # "idle" /\ run.at < stamp /\ \E j \in {i} : svc'[j].enabled
    <3>1. run' = OvertakenTags({}) BY <1>1, <2>1 DEF OvertakenUnstamped
    <3>2. Followed(run, run') BY <1>0, <3>1, TagsFollow
    <3>3. Active(svc) \subseteq Active(svc')
      <4>1. i \in Active(svc') BY <1>2, <1>5, <2>1 DEF Active
      <4> QED BY <1>10, <4>1
    <3>4. run.at \in Nat BY <1>0, <2>1 DEF RunSound
    <3>5. ~Disables(patch)
      <4>1. svc'[i].enabled BY <2>1
      <4>2. Disables(patch) => ~row.enabled
        <5>1. Disables(patch) => ("enabled" \in DOMAIN patch /\ ~patch.enabled) BY DEF Disables
        <5>2. row.enabled = IF "enabled" \in DOMAIN patch THEN patch["enabled"] ELSE svc[i].enabled
          BY <1>3 DEF row, Patched, ServiceRow
        <5> QED BY <5>1, <5>2
      <4> QED BY <1>5, <4>1, <4>2
    <3>6. UNCHANGED <<manual, auto, mark, incoming, fact>> BY <1>1, <3>5
    <3>7. Undisturbed BY <1>9, <2>1, <3>3, <3>4, <3>6 DEF Undisturbed
    <3> QED BY <3>2, <3>7
  <2>2. CASE ~(run.stage # "idle" /\ run.at < stamp /\ \E j \in {i} : svc'[j].enabled)
    <3>1. run' = OvertakenServices BY <1>1, <2>2 DEF OvertakenUnstamped
    <3> QED BY <1>0, <3>1, AllOvertaken
  <2> QED BY <2>1, <2>2
<1>12. MarksSpared
  <2>1. ASSUME NEW p \in Pics, mark'[p] # Never, p \notin missed'
        PROVE  /\ mark'[p] = mark[p] /\ Narrows(svc, mark[p], svc', mark[p])
               /\ \A r \in auto[p] : r[1] \notin Active(svc) \ Active(svc')
    <3>1. mark'[p] = mark[p] /\ mark[p] \in Nat BY <1>0, <1>7, <2>1 DEF RowsSound
    <3>2. mark[p] < stamp
      <4>1. p \notin StampedSince(stamp) BY <1>1, <2>1
      <4> QED BY <1>2, <3>1, <4>1 DEF StampedSince
    <3>3. \A r \in auto[p] : r[1] \notin Active(svc) \ Active(svc') BY <1>7, <1>10, <2>1
    <3> QED BY <1>9, <3>1, <3>2, <3>3
  <2> QED BY <1>1, <1>7, <2>1 DEF MarksSpared
<1>13. txn' \in Txns(DOMAIN svc, clock)' BY <1>1 DEF Txns
<1>14. clock <= clock' BY <1>1, <1>2
<1> QED BY <1>6, <1>7, <1>8, <1>11, <1>12, <1>13, <1>14, OutsideStep

LEMMA RenameSettles ==
    ASSUME NEW rs, NEW r, \A t \in rs : ~IsAncestorOrSelf(r.old, t)
    PROVE  Rename(rs, r.old, r.new) = rs
BY DEF Rename, RenameUnder

LEMMA RenameCommitsSettled == ASSUME PipelineSettled, RenameCommits PROVE PipelineSettled'
<1>0. RowsSound /\ ServicesSound /\ RunSound /\ run \in Runs /\ txn \in Txns(DOMAIN svc, clock)
  BY DEF PipelineSettled, Sound, RunSound
<1> DEFINE r == txn.rename
           stamp == txn.stamp
           Written(service) == [Renamed(service, r) EXCEPT !.invalidated = stamp]
           written == {j \in DOMAIN svc : svc'[j] # svc[j]}
           moved == {p \in Pics : manual'[p] # manual[p]}
<1>1. /\ txn.kind = "rename"
      /\ manual' = [p \in Pics |-> Rename(manual[p], r.old, r.new)]
      /\ svc' = [j \in DOMAIN svc |-> IF Renamed(svc[j], r) # svc[j] THEN Written(svc[j]) ELSE svc[j]]
      /\ mark' = [p \in Pics |-> IF CarriesUnder(p, r.old) \/ CarriesUnder(p, r.new) THEN Never ELSE mark[p]]
      /\ txn' = None /\ run' = OvertakenUnstamped(written, stamp, moved)
      /\ missed' = missed \cup StampedSince(stamp)
      /\ UNCHANGED <<incoming, auto, fact, clock, events>>
  BY DEF RenameCommits
<1>2. r \in Renames /\ stamp \in Nat /\ stamp \in 1..clock /\ clock \in Nat
  BY <1>0, <1>1, TxnFields DEF RowsSound
<1> HIDE DEF r, stamp
<1>3. ASSUME NEW j \in DOMAIN svc
      PROVE  /\ svc[j] \in ServiceRow /\ svc'[j] \in ServiceRow
             /\ svc'[j].position = svc[j].position /\ svc'[j].enabled = svc[j].enabled
             /\ svc'[j] = svc[j] \/ svc'[j].invalidated = stamp
  <2>1. svc[j] \in ServiceRow BY <1>0, LibraryRows DEF ServicesSound
  <2>2. /\ Written(svc[j]) \in ServiceRow /\ Written(svc[j]).position = svc[j].position
        /\ Written(svc[j]).enabled = svc[j].enabled /\ Written(svc[j]).invalidated = stamp
    BY <1>2, <2>1, RowRenamed
  <2>3. svc'[j] = Written(svc[j]) \/ svc'[j] = svc[j] BY <1>1
  <2> HIDE DEF Written
  <2> QED BY <2>1, <2>2, <2>3
<1>4. DOMAIN svc' = DOMAIN svc /\ svc' = [j \in DOMAIN svc |-> svc'[j]] BY <1>1
<1> HIDE DEF Written
<1>5. svc' \in Libraries
  <2>1. DOMAIN svc \subseteq Ids /\ \A j, k \in DOMAIN svc : j # k => svc[j].position # svc[k].position
    BY <1>0, LibraryRows DEF ServicesSound
  <2> DEFINE S == DOMAIN svc
  <2>2. S \in SUBSET Ids /\ svc' = [k \in S |-> svc'[k]] BY <1>4, <2>1
  <2>3. /\ \A k \in S : svc'[k] \in ServiceRow
        /\ \A k, l \in S : k # l => svc'[k].position # svc'[l].position
    BY <1>3, <2>1
  <2> HIDE DEF S
  <2> QED BY <2>2, <2>3, LibraryByRows
<1>6. ServicesSound'
  <2>1. \A j \in DOMAIN svc : svc'[j].invalidated \in 1..clock' BY <1>0, <1>1, <1>2, <1>3 DEF ServicesSound
  <2> QED BY <1>4, <1>5, <2>1 DEF ServicesSound
<1>7. RowsSound'
  <2>1. manual' \in [Pics -> FiniteTags]
    <3>1. \A p \in Pics : Rename(manual[p], r.old, r.new) \in FiniteTags BY <1>0, <1>2, RenamedTags DEF RowsSound
    <3> QED BY <1>1, <3>1
  <2>2. mark' \in [Pics -> 0..clock] BY <1>0, <1>1 DEF RowsSound, Never
  <2> QED BY <1>0, <1>1, <2>1, <2>2 DEF RowsSound, StampedSince
<1>8. \A p \in Pics : mark'[p] \in {Never, mark[p]} BY <1>1
<1>9. Active(svc') = Active(svc) BY <1>3, <1>4 DEF Active
<1>10. ASSUME NEW at \in Nat, at < stamp PROVE Narrows(svc, at, svc', at)
  <2>1. ASSUME NEW j \in Active(svc')
        PROVE  (j \in Active(svc) /\ svc'[j] = svc[j]) \/ ~(svc'[j].invalidated <= at)
    <3>1. j \in DOMAIN svc /\ j \in Active(svc) BY <1>9 DEF Active
    <3>2. svc'[j] = svc[j] \/ svc'[j].invalidated = stamp BY <1>3, <3>1
    <3> QED BY <1>2, <1>10, <3>1, <3>2
  <2> QED BY <2>1, NarrowsBy
<1>11. Followed(run, run') /\ Undisturbed
  <2>1. CASE run.stage # "idle" /\ run.at < stamp /\ \E j \in written : svc'[j].enabled
    <3>1. run' = OvertakenTags(moved) BY <1>1, <2>1 DEF OvertakenUnstamped
    <3>2. Followed(run, run') /\ (run.stage = "apply" => moved \cap run.chunk \subseteq run'.overtaken)
      BY <1>0, <3>1, TagsFollow
    <3>3. run.at \in Nat BY <1>0, <2>1 DEF RunSound
    <3>4. ASSUME run.stage = "apply", NEW p \in run.chunk \ run'.overtaken PROVE manual'[p] = manual[p]
      <4>1. p \in Pics BY <1>0, <3>4, RunFields DEF Applying
      <4> QED BY <3>2, <3>4, <4>1
    <3>5. Undisturbed BY <1>1, <1>9, <1>10, <2>1, <3>3, <3>4 DEF Undisturbed
    <3> QED BY <3>2, <3>5
  <2>2. CASE ~(run.stage # "idle" /\ run.at < stamp /\ \E j \in written : svc'[j].enabled)
    <3>1. run' = OvertakenServices BY <1>1, <2>2 DEF OvertakenUnstamped
    <3> QED BY <1>0, <3>1, AllOvertaken
  <2> QED BY <2>1, <2>2
<1>12. MarksSpared
  <2>1. ASSUME NEW p \in Pics, mark'[p] # Never, p \notin missed'
        PROVE  /\ mark'[p] = mark[p] /\ manual'[p] = manual[p] /\ Narrows(svc, mark[p], svc', mark[p])
    <3>1. mark'[p] = mark[p] /\ mark[p] \in Nat BY <1>0, <1>8, <2>1 DEF RowsSound
    <3>2. mark[p] < stamp
      <4>1. p \notin StampedSince(stamp) BY <1>1, <2>1
      <4> QED BY <1>2, <3>1, <4>1 DEF StampedSince
    <3>3. ~CarriesUnder(p, r.old) BY <1>1, <2>1
    <3>4. \A t \in manual[p] : ~IsAncestorOrSelf(r.old, t) BY <3>3 DEF CarriesUnder
    <3>5. manual'[p] = manual[p] BY <1>1, <3>4, RenameSettles
    <3> QED BY <1>10, <3>1, <3>2, <3>5
  <2> QED BY <1>1, <1>9, <2>1 DEF MarksSpared
<1>13. txn' \in Txns(DOMAIN svc, clock)' BY <1>1 DEF Txns
<1>14. clock <= clock' BY <1>1, <1>2
<1> QED BY <1>6, <1>7, <1>8, <1>11, <1>12, <1>13, <1>14, OutsideStep
-----------------------------------------------------------------------------
(* The run *)

LEMMA RunMoves ==
    ASSUME PipelineSettled, events' \in 0..MaxEvents, UNCHANGED <<rows, fact, mark, svc, clock, txn, missed>>,
           RunSound', ServicesRead', RowsRead', DoneTrue'
    PROVE  PipelineSettled'
<1>1. RowsSound' BY DEF PipelineSettled, Sound, RowsSound, rows
<1>2. ServicesSound' BY DEF PipelineSettled, Sound, ServicesSound
<1>3. txn' \in Txns(DOMAIN svc, clock)' BY DEF PipelineSettled, Sound
<1>4. MarksTrue' BY DEF PipelineSettled, MarksTrue, rows
<1> QED BY <1>1, <1>2, <1>3, <1>4 DEF PipelineSettled, Sound

LEMMA EventOrNot ==
    ASSUME PipelineSettled, Event \/ UNCHANGED events
    PROVE  events' \in 0..MaxEvents
BY EventCounted DEF PipelineSettled, Sound, RowsSound

LEMMA IdleSettled ==
    ASSUME PipelineSettled, run' = Idle, events' \in 0..MaxEvents, UNCHANGED <<rows, fact, mark, svc, clock, txn, missed>>
    PROVE  PipelineSettled'
<1>1. run'.stage = "idle" /\ run' \in Runs BY DEF Idle, Runs
<1>2. RunSound' BY <1>1 DEF RunSound
<1>3. ServicesRead' /\ RowsRead' /\ DoneTrue' BY <1>1 DEF ServicesRead, RowsRead, DoneTrue, Past
<1> QED BY <1>2, <1>3, RunMoves

LEMMA RunDiesSettled == ASSUME PipelineSettled, RunDies PROVE PipelineSettled'
BY EventOrNot, IdleSettled DEF RunDies

LEMMA RunStartsSettled == ASSUME PipelineSettled, RunStarts PROVE PipelineSettled'
<1>1. /\ run' = [stage |-> "started", at |-> clock]
      /\ UNCHANGED <<rows, fact, mark, svc, clock, txn, missed, events>>
  BY DEF RunStarts
<1>2. RunSound'
  <2>1. clock \in Nat \ {0} /\ mark \in [Pics -> 0..clock] BY DEF PipelineSettled, Sound, RowsSound
  <2>2. run' \in Runs BY <1>1, <2>1 DEF Runs
  <2>3. run'.stage = "started" /\ run'.at = clock BY <1>1
  <2> QED BY <1>1, <2>1, <2>2, <2>3 DEF RunSound
<1>3. ServicesRead' /\ RowsRead' /\ DoneTrue' BY <1>1 DEF ServicesRead, RowsRead, DoneTrue, Past
<1>4. events' \in 0..MaxEvents BY <1>1, EventOrNot
<1> QED BY <1>1, <1>2, <1>3, <1>4, RunMoves

LEMMA LoadServicesSettled == ASSUME PipelineSettled, LoadServices PROVE PipelineSettled'
<1>1. /\ run.stage = "started"
      /\ run' = [stage |-> "loaded", at |-> run.at, services |-> svc, overtaken |-> {}]
      /\ UNCHANGED <<rows, fact, mark, svc, clock, txn, missed, events>>
  BY DEF LoadServices
<1>2. /\ run.at \in 1..clock /\ \A p \in Pics : mark[p] <= run.at
      /\ svc \in Libraries /\ clock \in Nat
  BY <1>1 DEF PipelineSettled, Sound, RunSound, ServicesSound, RowsSound
<1>3. RunSound'
  <2>1. run' \in Loaded BY <1>1, <1>2 DEF Loaded
  <2>2. run' \in Runs BY <2>1 DEF Runs
  <2> QED BY <1>1, <1>2, <2>2 DEF RunSound
<1>4. ServicesRead'
  <2>1. Current(svc, svc, run.at) BY DEF Current, Stamped, Alike
  <2> QED BY <1>1, <2>1 DEF ServicesRead
<1>5. RowsRead' /\ DoneTrue' BY <1>1 DEF RowsRead, DoneTrue
<1>6. events' \in 0..MaxEvents BY <1>1, EventOrNot
<1> QED BY <1>1, <1>3, <1>4, <1>5, <1>6, RunMoves

(* the run turns to what is left to do *)
LEMMA BatchSettled ==
    ASSUME PipelineSettled, run.stage \in Past, NEW todo \in SUBSET Pics, NEW facts \in [Pics -> BOOLEAN],
           run' = Batch(todo, facts), \A p \in todo \ run.overtaken : facts[p] = fact[p],
           events' \in 0..MaxEvents, UNCHANGED <<rows, fact, mark, svc, clock, txn, missed>>
    PROVE  PipelineSettled'
<1>1. run' = [stage |-> "batch", at |-> run.at, services |-> run.services, overtaken |-> run.overtaken,
              todo |-> todo, facts |-> facts]
  BY DEF Batch
<1>2. /\ run \in Runs /\ run.at \in 1..clock /\ \A p \in Pics : mark[p] <= run.at
      /\ clock \in Nat
  BY DEF PipelineSettled, Sound, RunSound, RowsSound, Past
<1>3. run.at \in Nat /\ run.services \in Libraries /\ run.overtaken \in SUBSET Pics
  BY <1>2, RunFields DEF Past, Loaded, Batched, Applying
<1>4. RunSound'
  <2>1. run' \in Batched BY <1>1, <1>3 DEF Batched
  <2>2. run' \in Runs BY <2>1 DEF Runs
  <2> QED BY <1>1, <1>2, <2>2 DEF RunSound
<1>5. ServicesRead'
  <2>1. run.overtaken # Pics => Current(run.services, svc, run.at) BY DEF PipelineSettled, ServicesRead
  <2> QED BY <1>1, <2>1 DEF ServicesRead
<1>6. RowsRead' /\ DoneTrue' BY <1>1 DEF RowsRead, DoneTrue
<1> QED BY <1>4, <1>5, <1>6, RunMoves

LEMMA FindDirtySettled == ASSUME PipelineSettled, FindDirty PROVE PipelineSettled'
<1> DEFINE dirty == {p \in Pics : Dirty(p, mark, svc)}
<1>1. /\ run.stage = "loaded" /\ run' = IF dirty = {} THEN Idle ELSE Batch(dirty, fact)
      /\ UNCHANGED <<rows, fact, mark, svc, clock, txn, missed, events>>
  BY DEF FindDirty
<1>2. dirty \in SUBSET Pics OBVIOUS
<1> HIDE DEF dirty
<1>3. events' \in 0..MaxEvents /\ fact \in [Pics -> BOOLEAN] BY <1>1, EventOrNot DEF PipelineSettled, Sound, RowsSound
<1>4. CASE dirty = {} BY <1>1, <1>3, <1>4, IdleSettled
<1>5. CASE dirty # {}
  <2>1. run' = Batch(dirty, fact) /\ run.stage \in Past BY <1>1, <1>5 DEF Past
  <2> QED BY <1>1, <1>2, <1>3, <2>1, BatchSettled
<1> QED BY <1>4, <1>5

LEMMA LoadTagsSettled == ASSUME PipelineSettled, LoadTags PROVE PipelineSettled'
<1>1. PICK chunk \in SUBSET run.todo :
        run' = [stage |-> "apply", at |-> run.at, services |-> run.services,
                overtaken |-> run.overtaken, todo |-> run.todo \ chunk, facts |-> run.facts,
                chunk |-> chunk, left |-> chunk, done |-> {}, own |-> manual, shared |-> incoming]
  BY DEF LoadTags
<1>2. run.stage = "batch" /\ UNCHANGED <<rows, fact, mark, svc, clock, txn, missed, events>> BY DEF LoadTags
<1>3. /\ run \in Batched /\ run.at \in 1..clock /\ \A p \in Pics : mark[p] <= run.at
      /\ clock \in Nat /\ manual \in [Pics -> FiniteTags] /\ incoming \in [Pics -> FiniteTags]
  BY <1>2, RunFields DEF PipelineSettled, Sound, RunSound, RowsSound
<1>4. RunSound'
  <2>1. run' \in Applying BY <1>1, <1>3 DEF Applying, Batched
  <2>2. run' \in Runs BY <2>1 DEF Runs
  <2> QED BY <1>1, <1>2, <1>3, <2>2 DEF RunSound
<1>5. ServicesRead'
  <2>1. run.overtaken # Pics => Current(run.services, svc, run.at) BY <1>2 DEF PipelineSettled, ServicesRead, Past
  <2> QED BY <1>1, <1>2, <2>1 DEF ServicesRead
<1>6. RowsRead'
  <2>1. \A p \in run.todo \ run.overtaken : run.facts[p] = fact[p] BY <1>2 DEF PipelineSettled, RowsRead
  <2> QED BY <1>1, <1>2, <2>1 DEF RowsRead, rows
<1>7. DoneTrue' BY <1>1 DEF DoneTrue
<1>8. events' \in 0..MaxEvents BY <1>2, EventOrNot
<1> QED BY <1>2, <1>4, <1>5, <1>6, <1>7, <1>8, RunMoves

LEMMA NextChunkSettled ==
    ASSUME PipelineSettled, run.stage = "apply", run' = NextChunk, events' \in 0..MaxEvents,
           UNCHANGED <<rows, fact, mark, svc, clock, txn, missed>>
    PROVE  PipelineSettled'
<1>1. CASE run.todo = {} BY <1>1, IdleSettled DEF NextChunk
<1>2. CASE run.todo # {}
  <2>1. run' = Batch(run.todo, run.facts) BY <1>2 DEF NextChunk
  <2>2. run.todo \in SUBSET Pics /\ run.facts \in [Pics -> BOOLEAN] /\ run.stage \in Past
    BY RunFields DEF PipelineSettled, Sound, RunSound, Applying, Past
  <2>3. \A p \in run.todo \ run.overtaken : run.facts[p] = fact[p] BY DEF PipelineSettled, RowsRead
  <2> QED BY <2>1, <2>2, <2>3, BatchSettled
<1> QED BY <1>1, <1>2

LEMMA MarkFailsSettled == ASSUME PipelineSettled, MarkFails PROVE PipelineSettled'
BY EventOrNot, NextChunkSettled DEF MarkFails

LEMMA ApplyFailsSettled == ASSUME PipelineSettled, ApplyFails PROVE PipelineSettled'
<1>1. PICK p \in run.left : run' = [run EXCEPT !.left = @ \ {p}] BY DEF ApplyFails
<1>2. run.stage = "apply" /\ Event /\ UNCHANGED <<rows, fact, mark, svc, clock, txn, missed>> BY DEF ApplyFails
<1>3. /\ run \in Applying /\ run.at \in 1..clock /\ \A q \in Pics : mark[q] <= run.at
      /\ run.left \cup run.done \subseteq run.chunk /\ run.left \cap run.done = {}
  BY <1>2, RunFields DEF PipelineSettled, Sound, RunSound
<1>4. /\ run' \in Applying /\ run'.stage = "apply" /\ run'.at = run.at /\ run'.services = run.services
      /\ run'.overtaken = run.overtaken /\ run'.todo = run.todo /\ run'.facts = run.facts
      /\ run'.own = run.own /\ run'.shared = run.shared /\ run'.done = run.done /\ run'.chunk = run.chunk
      /\ run'.left \subseteq run.left
  BY <1>1, <1>3 DEF Applying
<1>5. RunSound'
  <2>1. run' \in Runs BY <1>4 DEF Runs
  <2> QED BY <1>2, <1>3, <1>4, <2>1 DEF RunSound
<1>6. ServicesRead' BY <1>2, <1>4 DEF PipelineSettled, ServicesRead
<1>7. RowsRead' BY <1>2, <1>4 DEF PipelineSettled, RowsRead, rows
<1>8. DoneTrue' BY <1>2, <1>4 DEF PipelineSettled, DoneTrue, rows
<1>9. events' \in 0..MaxEvents BY <1>2, EventOrNot
<1> QED BY <1>2, <1>5, <1>6, <1>7, <1>8, <1>9, RunMoves

(* what a run stamps it has evaluated as things still are, or it remembers that it did not *)
LEMMA MarkRunSettled == ASSUME PipelineSettled, MarkRun PROVE PipelineSettled'
<1>0. RowsSound /\ ServicesSound /\ RunSound /\ run \in Runs /\ txn \in Txns(DOMAIN svc, clock)
      /\ MarksTrue /\ ServicesRead /\ RowsRead /\ DoneTrue
  BY DEF PipelineSettled, Sound, RunSound
<1>1. /\ run.stage = "apply" /\ mark' = [p \in Pics |-> IF p \in run.done THEN run.at ELSE mark[p]]
      /\ missed' = (missed \ run.done) \cup (run.done \cap run.overtaken)
      /\ run' = NextChunk /\ UNCHANGED <<rows, fact, svc, clock, txn, events>>
  BY DEF MarkRun
<1>2. run \in Applying /\ run.at \in 1..clock /\ \A p \in Pics : mark[p] <= run.at
  BY <1>0, <1>1, RunFields DEF RunSound
<1>3. clock \in Nat /\ mark \in [Pics -> 0..clock] BY <1>0 DEF RowsSound
<1>4. \A p \in Pics : mark'[p] = (IF p \in run.done THEN run.at ELSE mark[p]) /\ mark'[p] \in 0..clock /\ mark'[p] <= run.at
  BY <1>1, <1>2, <1>3
<1>5. RowsSound'
  <2>1. mark' \in [Pics -> 0..clock] BY <1>1, <1>4
  <2>2. missed' \in SUBSET Pics BY <1>0, <1>1, <1>2 DEF RowsSound, Applying
  <2> QED BY <1>0, <1>1, <2>1, <2>2 DEF RowsSound, rows
<1>6. ServicesSound' /\ txn' \in Txns(DOMAIN svc, clock)' BY <1>0, <1>1 DEF ServicesSound
<1>7. MarksTrue'
  <2> SUFFICES ASSUME NEW p \in Pics, mark'[p] # Never, p \notin missed'
               PROVE  Trusted(auto'[p], svc', mark'[p], fact'[p], manual'[p], incoming'[p])
    BY DEF MarksTrue
  <2>1. auto' = auto /\ svc' = svc /\ fact' = fact /\ manual' = manual /\ incoming' = incoming
    BY <1>1 DEF rows
  <2>2. CASE p \in run.done
    <3>1. p \in run.done \ run.overtaken /\ mark'[p] = run.at BY <1>1, <1>4, <2>2
    <3>2. Trusted(auto[p], svc, run.at, fact[p], manual[p], incoming[p]) BY <1>0, <1>1, <3>1 DEF DoneTrue
    <3> QED BY <2>1, <3>1, <3>2
  <2>3. CASE p \notin run.done
    <3>1. mark'[p] = mark[p] /\ p \notin missed BY <1>1, <1>4, <2>3
    <3>2. Trusted(auto[p], svc, mark[p], fact[p], manual[p], incoming[p]) BY <1>0, <3>1 DEF MarksTrue
    <3> QED BY <2>1, <3>1, <3>2
  <2> QED BY <2>2, <2>3
<1>8. CASE run.todo = {}
  <2>1. run' = Idle BY <1>1, <1>8 DEF NextChunk
  <2>2. run'.stage = "idle" /\ run' \in Runs BY <2>1 DEF Idle, Runs
  <2>3. RunSound' BY <2>2 DEF RunSound
  <2>4. ServicesRead' /\ RowsRead' /\ DoneTrue' BY <2>2 DEF ServicesRead, RowsRead, DoneTrue, Past
  <2> QED BY <1>5, <1>6, <1>7, <2>3, <2>4 DEF PipelineSettled, Sound
<1>9. CASE run.todo # {}
  <2>1. run' = [stage |-> "batch", at |-> run.at, services |-> run.services, overtaken |-> run.overtaken,
                todo |-> run.todo, facts |-> run.facts]
    BY <1>1, <1>9 DEF NextChunk, Batch
  <2>2. run' \in Batched BY <1>2, <2>1 DEF Applying, Batched
  <2>3. RunSound'
    <3>1. run' \in Runs BY <2>2 DEF Runs
    <3> QED BY <1>1, <1>2, <1>4, <2>1, <3>1 DEF RunSound
  <2>4. ServicesRead' BY <1>0, <1>1, <2>1 DEF ServicesRead, Past
  <2>5. RowsRead' BY <1>0, <1>1, <2>1 DEF RowsRead
  <2>6. DoneTrue' BY <2>1 DEF DoneTrue
  <2> QED BY <1>5, <1>6, <1>7, <2>3, <2>4, <2>5, <2>6 DEF PipelineSettled, Sound
<1> QED BY <1>8, <1>9

LEMMA PlanTyped ==
    ASSUME NEW s \in Libraries, NEW known, NEW own \in FiniteTags, NEW shared \in FiniteTags, NEW plan,
           plan = Plan(ForPicture(s, ListEnabled(s), known, shared), own, shared)
    PROVE  /\ plan.assign \in FiniteTags
           /\ \A r \in plan.remove :
                  r \in Tag /\ \E x \in Produced(s, known, own, shared) : IsAncestorOrSelf(r, x[2])
<1> DEFINE order == ListEnabled(s)
           svcs == ForPicture(s, order, known, shared)
           out == Outputs(svcs, own \cup shared)
           loose == Candidates(svcs, out, own) \ Kept(svcs, out, own, shared)
           rs == Produced(s, known, own, shared)
<1>1. GatesOn(svcs, Tag) /\ DOMAIN svcs = DOMAIN order BY ListGates
<1>2. Tag \in SUBSET Seq(STRING) BY TagAssumption
<1>3. own \in SUBSET Tag /\ IsFiniteSet(own) /\ shared \in SUBSET Tag BY DEF FiniteTags
<1>4. plan = Plan(svcs, own, shared) OBVIOUS
<1>5. Covered(svcs, Tag, own, shared, out, loose, Pruned(svcs, own, shared))
  <2> HIDE DEF svcs
  <2> QED BY <1>1, <1>2, <1>3, PlanCovers
<1>6. Evaluation(s, known, own, shared, order, out, rs) BY ProducedRows
<1> HIDE DEF svcs, out, order, rs
<1>7. plan.assign \in FiniteTags
  <2> HIDE DEF loose
  <2> QED BY <1>4, <1>5 DEF Covered, FiniteTags
<1>8. ASSUME NEW r \in plan.remove PROVE r \in Tag /\ \E x \in rs : IsAncestorOrSelf(r, x[2])
  <2>1. PICK m \in loose : r \in Tag /\ IsAncestorOrSelf(r, m)
    <3> HIDE DEF loose
    <3> QED BY <1>4, <1>5, <1>8 DEF Covered
  <2>2. PICK k \in DOMAIN svcs : m \in out[k] BY DEF Candidates
  <2>3. <<order[k], m>> \in rs BY <1>1, <1>6, <2>2 DEF Evaluation
  <2>4. <<order[k], m>>[2] = m OBVIOUS
  <2> QED BY <2>1, <2>3, <2>4
<1> QED BY <1>7, <1>8 DEF rs

(* what one application writes *)
Applied(p, plan) ==
    /\ plan = Plan(ForPicture(run.services, ListEnabled(run.services), run.facts[p], run.shared[p]),
                   run.own[p], run.shared[p])
    /\ auto' = [auto EXCEPT ![p] = Produced(run.services, run.facts[p], run.own[p], run.shared[p])]
    /\ manual' = [manual EXCEPT ![p] = Replace(@, plan.remove, plan.assign)]
    /\ \E pruned \in BOOLEAN : mark' = [mark EXCEPT ![p] = IF pruned THEN Never ELSE @]
    /\ missed' = missed \cup ({p} \cap run.overtaken)
    /\ NextPicture(p)

LEMMA ApplyApplies == ASSUME Apply PROVE run.stage = "apply" /\ \E p \in run.left : \E plan : Applied(p, plan)
<1>1. PICK p \in run.left :
        LET order == ListEnabled(run.services)
            svcs == ForPicture(run.services, order, run.facts[p], run.shared[p])
            plan == Plan(svcs, run.own[p], run.shared[p])
            pruned == plan.remove # {} \/ plan.assign # {}
        IN  /\ auto' = [auto EXCEPT ![p] =
                   Produced(run.services, run.facts[p], run.own[p], run.shared[p])]
            /\ manual' = [manual EXCEPT ![p] = Replace(@, plan.remove, plan.assign)]
            /\ mark' = [mark EXCEPT ![p] = IF pruned THEN Never ELSE @]
            /\ missed' = missed \cup ({p} \cap run.overtaken)
            /\ NextPicture(p)
  BY DEF Apply
<1> DEFINE plan == Plan(ForPicture(run.services, ListEnabled(run.services), run.facts[p], run.shared[p]),
                        run.own[p], run.shared[p])
           pruned == plan.remove # {} \/ plan.assign # {}
<1>2. mark' = [mark EXCEPT ![p] = IF pruned THEN Never ELSE @] BY <1>1
<1>3. pruned \in BOOLEAN OBVIOUS
<1>4. \E b \in BOOLEAN : mark' = [mark EXCEPT ![p] = IF b THEN Never ELSE @]
  <2> HIDE DEF pruned
  <2> QED BY <1>2, <1>3
<1>5. Applied(p, plan) BY <1>1, <1>4 DEF Applied
<1> QED BY <1>5 DEF Apply

LEMMA ApplySettled == ASSUME PipelineSettled, Apply PROVE PipelineSettled'
<1>0. RowsSound /\ ServicesSound /\ RunSound /\ run \in Runs /\ txn \in Txns(DOMAIN svc, clock)
      /\ MarksTrue /\ ServicesRead /\ RowsRead /\ DoneTrue
  BY DEF PipelineSettled, Sound, RunSound
<1>a. PICK p \in run.left : \E plan : Applied(p, plan) BY ApplyApplies
<1>1. PICK plan : Applied(p, plan) BY <1>a
<1>2. run.stage = "apply" /\ UNCHANGED <<incoming, fact, svc, clock, txn, events>> BY DEF Apply
<1> DEFINE known == run.facts[p]
           own == run.own[p]
           shared == run.shared[p]
           rs == Produced(run.services, known, own, shared)
           svcs == ForPicture(run.services, ListEnabled(run.services), known, shared)
<1>3. /\ run \in Applying /\ run.at \in 1..clock /\ \A q \in Pics : mark[q] <= run.at
      /\ run.left \cup run.done \subseteq run.chunk /\ run.left \cap run.done = {}
  BY <1>0, <1>2, RunFields DEF RunSound
<1>4. /\ p \in Pics /\ run.services \in Libraries /\ own \in FiniteTags /\ shared \in FiniteTags
      /\ svc \in Libraries /\ run.at \in Nat /\ clock \in Nat
  BY <1>0, <1>3 DEF Applying, ServicesSound, RowsSound
<1>5. plan = Plan(svcs, own, shared) BY <1>1 DEF Applied
<1>6. plan.assign \in FiniteTags /\ rs \in Rowset
  <2> HIDE DEF known, own, shared
  <2> QED BY <1>4, <1>5, PlanTyped, ProducedFinite
<1>7. /\ auto' = [auto EXCEPT ![p] = rs]
      /\ manual' = [manual EXCEPT ![p] = Replace(@, plan.remove, plan.assign)]
      /\ missed' = missed \cup ({p} \cap run.overtaken)
      /\ run' = [run EXCEPT !.left = @ \ {p}, !.done = @ \cup {p}]
  BY <1>1 DEF Applied, NextPicture
<1>8. PICK pruned \in BOOLEAN : mark' = [mark EXCEPT ![p] = IF pruned THEN Never ELSE @] BY <1>1 DEF Applied
<1> HIDE DEF rs, svcs, known, own, shared
<1>9. /\ auto'[p] = rs /\ manual'[p] = Replace(manual[p], plan.remove, plan.assign)
      /\ \A q \in Pics : q # p => auto'[q] = auto[q] /\ manual'[q] = manual[q] /\ mark'[q] = mark[q]
      /\ \A q \in Pics : mark'[q] \in {Never, mark[q]} /\ mark[q] \in 0..clock
  BY <1>0, <1>4, <1>7, <1>8 DEF RowsSound
<1>10. /\ run' \in Applying /\ run'.stage = "apply" /\ run'.at = run.at /\ run'.services = run.services
       /\ run'.overtaken = run.overtaken /\ run'.todo = run.todo /\ run'.facts = run.facts
       /\ run'.own = run.own /\ run'.shared = run.shared /\ run'.chunk = run.chunk
       /\ run'.left = run.left \ {p} /\ run'.done = run.done \cup {p}
  BY <1>3, <1>4, <1>7 DEF Applying
<1>11. RowsSound'
  <2>1. auto' \in [Pics -> Rowset] BY <1>0, <1>6, <1>7 DEF RowsSound
  <2>2. manual' \in [Pics -> FiniteTags]
    <3>1. manual[p] \in FiniteTags BY <1>0, <1>4 DEF RowsSound
    <3>2. Replace(manual[p], plan.remove, plan.assign) \in FiniteTags BY <1>6, <3>1, TagStatements
    <3> QED BY <1>0, <1>7, <3>2 DEF RowsSound
  <2>3. mark' \in [Pics -> 0..clock]
    <3>1. mark' = [q \in Pics |-> mark'[q]] BY <1>0, <1>8 DEF RowsSound
    <3>2. \A q \in Pics : mark'[q] \in 0..clock BY <1>4, <1>9 DEF Never
    <3> QED BY <3>1, <3>2
  <2>4. missed' \in SUBSET Pics BY <1>0, <1>4, <1>7 DEF RowsSound
  <2> QED BY <1>0, <1>2, <2>1, <2>2, <2>3, <2>4 DEF RowsSound
<1>12. ServicesSound' /\ txn' \in Txns(DOMAIN svc, clock)' BY <1>0, <1>2 DEF ServicesSound
<1>13. RunSound'
  <2>1. run' \in Runs BY <1>10 DEF Runs
  <2>2. \A q \in Pics : mark'[q] <= run.at
    <3>1. \A q \in Pics : mark'[q] \in {0, mark[q]} /\ mark[q] <= run.at BY <1>3, <1>9 DEF Never
    <3> QED BY <1>4, <3>1
  <2>3. run'.left \cup run'.done \subseteq run'.chunk /\ run'.left \cap run'.done = {} BY <1>3, <1>10
  <2>4. run'.at \in 1..clock' BY <1>2, <1>3, <1>10
  <2> QED BY <1>10, <2>1, <2>2, <2>3, <2>4 DEF RunSound
<1>14. ServicesRead' BY <1>0, <1>2, <1>10 DEF ServicesRead
<1>15. RowsRead'
  <2>1. \A q \in run'.todo \ run'.overtaken : run'.facts[q] = fact'[q]
    BY <1>0, <1>2, <1>10 DEF RowsRead
  <2>2. \A q \in run'.left \ run'.overtaken :
            run'.facts[q] = fact'[q] /\ run'.own[q] = manual'[q] /\ run'.shared[q] = incoming'[q]
    <3>1. \A q \in run'.left : q # p /\ q \in run.left /\ q \in Pics BY <1>3, <1>10 DEF Applying
    <3> QED BY <1>0, <1>2, <1>9, <1>10, <3>1 DEF RowsRead
  <2> QED BY <1>10, <2>1, <2>2 DEF RowsRead
(* the picture applied, when what the run read of it still holds *)
<1>16. ASSUME p \notin run.overtaken, NEW to \in Nat, to <= run.at
       PROVE  Trusted(rs, svc, to, fact[p], manual'[p], incoming[p])
  <2>1. known = fact[p] /\ own = manual[p] /\ shared = incoming[p]
    BY <1>0, <1>2, <1>16 DEF RowsRead, known, own, shared
  <2>2. Current(run.services, svc, run.at) BY <1>0, <1>2, <1>4, <1>16 DEF ServicesRead, Past
  <2>3. manual'[p] = Pruned(svcs, own, shared)
    <3>1. Pruned(svcs, own, shared) = Replace(own, plan.remove, plan.assign) BY <1>5 DEF Pruned
    <3> QED BY <1>9, <2>1, <3>1
  <2>4. /\ Active(run.services) \subseteq Active(svc)
        /\ \A i \in Stamped(svc, run.at) : i \in Active(run.services) /\ Alike(svc[i], run.services[i])
    BY <2>2 DEF Current
  <2> DEFINE after == manual'[p]
  <2>5. after = Pruned(ForPicture(run.services, ListEnabled(run.services), known, shared), own, shared)
    BY <2>3 DEF svcs
  <2> HIDE DEF after
  <2>6. Trusted(rs, svc, to, known, after, shared)
    BY <1>4, <1>16, <2>4, <2>5, TrustApplied DEF rs
  <2> QED BY <2>1, <2>6 DEF after
<1>17. MarksTrue'
  <2> SUFFICES ASSUME NEW q \in Pics, mark'[q] # Never, q \notin missed'
               PROVE  Trusted(auto'[q], svc', mark'[q], fact'[q], manual'[q], incoming'[q])
    BY DEF MarksTrue
  <2>1. mark'[q] = mark[q] /\ q \notin missed /\ mark[q] \in Nat /\ mark[q] <= run.at
    BY <1>3, <1>4, <1>7, <1>9
  <2>2. CASE q = p
    <3>1. p \notin run.overtaken BY <1>7, <2>2
    <3>2. Trusted(rs, svc, mark[p], fact[p], manual'[p], incoming[p]) BY <1>16, <2>1, <2>2, <3>1
    <3> QED BY <1>2, <1>9, <2>1, <2>2, <3>2
  <2>3. CASE q # p
    <3>1. Trusted(auto[q], svc, mark[q], fact[q], manual[q], incoming[q]) BY <1>0, <2>1 DEF MarksTrue
    <3> QED BY <1>2, <1>9, <2>1, <2>3, <3>1
  <2> QED BY <2>2, <2>3
<1>18. DoneTrue'
  <2> SUFFICES ASSUME NEW q \in run'.done \ run'.overtaken
               PROVE  Trusted(auto'[q], svc', run'.at, fact'[q], manual'[q], incoming'[q])
    BY DEF DoneTrue
  <2>1. CASE q = p
    <3>1. p \notin run.overtaken BY <1>10, <2>1
    <3>2. run.at <= run.at BY <1>4
    <3>3. Trusted(rs, svc, run.at, fact[p], manual'[p], incoming[p]) BY <1>4, <1>16, <3>1, <3>2
    <3> QED BY <1>2, <1>9, <1>10, <2>1, <3>3
  <2>2. CASE q # p
    <3>1. q \in run.done \ run.overtaken /\ q \in Pics BY <1>3, <1>10, <2>2 DEF Applying
    <3>2. Trusted(auto[q], svc, run.at, fact[q], manual[q], incoming[q]) BY <1>0, <1>2, <3>1 DEF DoneTrue
    <3> QED BY <1>2, <1>9, <1>10, <2>2, <3>1, <3>2
  <2> QED BY <2>1, <2>2
<1> QED BY <1>11, <1>12, <1>13, <1>14, <1>15, <1>17, <1>18 DEF PipelineSettled, Sound
-----------------------------------------------------------------------------
(* The theorems *)

LEMMA StartSettled == ASSUME NEW at \in {Never, 1}, PipelineStart(Initial, at) PROVE Sound
<1>1. /\ manual \in [Pics -> {{}}] /\ incoming \in [Pics -> {{}}] /\ auto \in [Pics -> {{}}]
      /\ fact \in [Pics -> {TRUE}] /\ mark \in [Pics -> {at}]
      /\ svc = [i \in DOMAIN Initial |-> Service(Initial[i], Initial[i].position, 1)]
      /\ clock = 1 /\ txn = None /\ run = Idle /\ missed = {} /\ events = 0
  BY DEF PipelineStart
<1>2. {} \in FiniteTags /\ {} \in Rowset BY FS_EmptySet DEF FiniteTags, Rowset
<1>3. RowsSound
  <2>1. at \in 0..1 BY DEF Never
  <2>2. clock \in Nat \ {0} /\ mark \in [Pics -> 0..clock] BY <1>1, <2>1
  <2>3. manual \in [Pics -> FiniteTags] /\ incoming \in [Pics -> FiniteTags] /\ auto \in [Pics -> Rowset]
    BY <1>1, <1>2
  <2>4. fact \in [Pics -> BOOLEAN] /\ missed \in SUBSET Pics BY <1>1
  <2>5. events \in 0..MaxEvents BY <1>1, BoundsAssumption
  <2> QED BY <2>2, <2>3, <2>4, <2>5 DEF RowsSound
<1>4. \A i \in DOMAIN Initial : /\ svc[i] \in ServiceRow /\ svc[i].position = Initial[i].position
                                /\ svc[i].invalidated = 1
  BY <1>1, ServicesAssumption, RowOfDefinition
<1>5. ServicesSound
  <2>1. DOMAIN svc = DOMAIN Initial BY <1>1
  <2>2. svc \in Libraries
    <3> DEFINE S == DOMAIN Initial
    <3>1. S \in SUBSET Ids /\ svc = [k \in S |-> svc[k]] BY <1>1, ServicesAssumption
    <3>2. /\ \A k \in S : svc[k] \in ServiceRow
          /\ \A k, l \in S : k # l => svc[k].position # svc[l].position
      BY <1>4, ServicesAssumption
    <3> HIDE DEF S
    <3> QED BY <3>1, <3>2, LibraryByRows
  <2> QED BY <1>1, <1>4, <2>1, <2>2 DEF ServicesSound
<1>6. RunSound BY <1>1 DEF RunSound, Runs, Idle
<1>7. txn \in Txns(DOMAIN svc, clock) BY <1>1 DEF Txns
<1> QED BY <1>3, <1>5, <1>6, <1>7 DEF Sound

LEMMA SettledInit == PipelineInit => PipelineSettled
<1> SUFFICES ASSUME PipelineInit PROVE PipelineSettled
  OBVIOUS
<1>1. Sound BY StartSettled DEF PipelineInit
<1>2. \A p \in Pics : mark[p] = Never BY DEF PipelineInit, PipelineStart
<1>3. run.stage = "idle" BY DEF PipelineInit, PipelineStart, Idle
<1> QED BY <1>1, <1>2, <1>3 DEF PipelineSettled, MarksTrue, ServicesRead, RowsRead, DoneTrue, Past

LEMMA SettledStep == PipelineSettled /\ [PipelineNext]_pipelineVars => PipelineSettled'
<1> SUFFICES ASSUME PipelineSettled, [PipelineNext]_pipelineVars PROVE PipelineSettled'
  OBVIOUS
<1>1. CASE EditTags BY <1>1, EditTagsSettled
<1>2. CASE EditFact BY <1>2, EditFactSettled
<1>3. CASE ShareTagChanges BY <1>3, ShareTagChangesSettled
<1>4. CASE CreateService BY <1>4, CreateServiceSettled
<1>5. CASE UpdateBegins BY <1>5, UpdateBeginsSettled
<1>6. CASE ReplaceConfig BY <1>6, ReplaceConfigSettled
<1>7. CASE Reorder BY <1>7, ReorderSettled
<1>8. CASE RenameBegins BY <1>8, RenameBeginsSettled
<1>9. CASE UpdateCommits BY <1>9, UpdateCommitsSettled
<1>10. CASE DeleteCommits BY <1>10, DeleteCommitsSettled
<1>11. CASE ConfigTouched BY <1>11, ConfigTouchedSettled
<1>12. CASE RenameCommits BY <1>12, RenameCommitsSettled
<1>13. CASE RequestDies BY <1>13, RequestDiesSettled
<1>14. CASE RunStarts BY <1>14, RunStartsSettled
<1>15. CASE LoadServices BY <1>15, LoadServicesSettled
<1>16. CASE FindDirty BY <1>16, FindDirtySettled
<1>17. CASE LoadTags BY <1>17, LoadTagsSettled
<1>18. CASE Apply BY <1>18, ApplySettled
<1>19. CASE ApplyFails BY <1>19, ApplyFailsSettled
<1>20. CASE MarkRun BY <1>20, MarkRunSettled
<1>21. CASE MarkFails BY <1>21, MarkFailsSettled
<1>22. CASE RunDies BY <1>22, RunDiesSettled
<1>23. CASE UNCHANGED pipelineVars
  <2>1. events' \in 0..MaxEvents /\ UNCHANGED <<rows, fact, mark, svc, clock, txn, missed, run>>
    BY <1>23, EventOrNot DEF pipelineVars
  <2>2. RunSound' BY <2>1 DEF PipelineSettled, Sound, RunSound
  <2>3. ServicesRead' /\ RowsRead' /\ DoneTrue'
    BY <2>1 DEF PipelineSettled, ServicesRead, RowsRead, DoneTrue, rows
  <2> QED BY <2>1, <2>2, <2>3, RunMoves
<1> QED BY <1>1, <1>2, <1>3, <1>4, <1>5, <1>6, <1>7, <1>8, <1>9, <1>10, <1>11, <1>12, <1>13, <1>14,
           <1>15, <1>16, <1>17, <1>18, <1>19, <1>20, <1>21, <1>22, <1>23 DEF PipelineNext

LEMMA SettledAlways == PipelineSpec => []PipelineSettled
BY SettledInit, SettledStep, PTL DEF PipelineSpec

LEMMA SettledTypes == PipelineSettled => PipelineTypeOK
<1> SUFFICES ASSUME PipelineSettled PROVE PipelineTypeOK
  OBVIOUS
<1>1. RowsSound /\ ServicesSound /\ run \in Runs /\ txn \in Txns(DOMAIN svc, clock)
  BY DEF PipelineSettled, Sound, RunSound
<1>2. manual \in Tags /\ incoming \in Tags /\ auto \in [Pics -> SUBSET (Ids \X Paths)]
  BY <1>1 DEF RowsSound, Tags, FiniteTags, Tag, Rowset
<1>3. DOMAIN svc \subseteq Ids /\ \A i \in DOMAIN svc : svc[i].invalidated \in 1..clock
  BY <1>1, LibraryRows DEF ServicesSound
<1>4. txn.kind \in {"none", "update", "delete", "config", "rename"} BY <1>1, TxnFields
<1>5. run.stage \in {"idle", "started", "loaded", "batch", "apply"} BY <1>1, RunFields DEF Past
<1> QED BY <1>1, <1>2, <1>3, <1>4, <1>5 DEF RowsSound, PipelineTypeOK

(* Type correctness of the tagging pipeline: every tag row is a tag the user's tree can hold, no mark *)
(* and no service's stamp lies in the future.                                                        *)
THEOREM PipelineTypes == PipelineSpec => []PipelineTypeOK
BY SettledTypes, SettledAlways, PTL

(* A picture no enabled service makes dirty carries exactly the tags the services give it, whatever  *)
(* edits, service updates and renames ran against the run that evaluated it, for any number of       *)
(* pictures, services and changes: what find_dirty_pictures leaves alone is up to date.              *)
THEOREM CleanIsEvaluated == PipelineSpec => []EvaluatedTruth
<1>1. PipelineSettled => EvaluatedTruth
  <2> SUFFICES ASSUME PipelineSettled, NEW p \in Pics, ~Dirty(p, mark, svc), p \notin missed
               PROVE  auto[p] = Produced(svc, fact[p], manual[p], incoming[p])
    BY DEF EvaluatedTruth
  <2>1. mark[p] # Never /\ \A i \in Active(svc) : ~(mark[p] < svc[i].invalidated) BY DEF Dirty
  <2>2. svc \in Libraries /\ mark[p] \in Int /\ \A i \in Active(svc) : svc[i].invalidated \in Int
    BY DEF PipelineSettled, Sound, RowsSound, ServicesSound, Active
  <2>3. \A i \in Active(svc) : svc[i].invalidated <= mark[p] BY <2>1, <2>2
  <2>4. Trusted(auto[p], svc, mark[p], fact[p], manual[p], incoming[p]) BY <2>1 DEF PipelineSettled, MarksTrue
  <2> QED BY <2>2, <2>3, <2>4, TrustHolds
<1> QED BY <1>1, SettledAlways, PTL

LEMMA UpCovers ==
    ASSUME NEW L, NEW S \in SUBSET Seq(L), NEW R \in SUBSET Seq(L),
           \A x \in S : x # << >> /\ \E y \in R : IsAncestorOrSelf(x, y)
    PROVE  Up(S) \subseteq Up(R)
<1>1. ASSUME NEW x \in Seq(L), x # << >>, NEW y \in R, IsAncestorOrSelf(x, y) PROVE x \in Up(R)
  <2>1. /\ Len(x) \in Nat /\ Len(y) \in Nat /\ 1 <= Len(x) /\ Len(x) <= Len(y)
        /\ SubSeq(y, 1, Len(x)) = x
    BY <1>1 DEF IsAncestorOrSelf
  <2>2. CASE Len(x) = Len(y)
    <3>1. x = y BY <1>1, <2>2, AncestorsEqual
    <3> QED BY <3>1 DEF Up
  <2>3. CASE Len(x) < Len(y)
    <3>1. Len(x) \in 1..(Len(y) - 1) BY <2>1, <2>3
    <3>2. x \in Ancestors(y) BY <2>1, <3>1 DEF Ancestors
    <3> QED BY <3>2 DEF Up
  <2> QED BY <2>1, <2>2, <2>3
<1>2. ASSUME NEW u \in Up(S) PROVE u \in Up(R)
  <2>1. CASE u \in S BY <1>1, <2>1
  <2>2. CASE u \notin S
    <3>1. PICK x \in S : u \in Ancestors(x) BY <2>2 DEF Up
    <3>2. PICK i \in 1..(Len(x) - 1) : u = SubSeq(x, 1, i) BY <3>1 DEF Ancestors
    <3>3. x \in Seq(L) /\ i \in Nat /\ 1 <= i /\ i <= Len(x) BY <3>2
    <3>4. u \in Seq(L) /\ Len(u) = i /\ u # << >> BY <3>2, <3>3
    <3>5. IsAncestorOrSelf(u, x) BY <3>2, <3>3, <3>4 DEF IsAncestorOrSelf
    <3>6. PICK y \in R : IsAncestorOrSelf(x, y) OBVIOUS
    <3>7. IsAncestorOrSelf(u, y) BY <3>3, <3>4, <3>5, <3>6, AncestorTransitive
    <3> QED BY <1>1, <3>4, <3>7
  <2> QED BY <2>1, <2>2
<1> QED BY <1>2

(* A run never takes a tag off a picture that its user put there: what it prunes stays present       *)
(* through a row a service gives, even when the rows changed after the run had read them.            *)
THEOREM PruningKeepsManual == PipelineSpec => PruneKeepsManual
<1>1. ASSUME PipelineSettled, Apply, NEW q \in Pics PROVE Up(manual[q]) \subseteq Present(q)'
  <2>0. RowsSound /\ RunSound /\ run \in Runs /\ RowsSound'
    <3>1. PipelineSettled' BY <1>1, ApplySettled
    <3> QED BY <1>1, <3>1 DEF PipelineSettled, Sound, RunSound
  <2>a. PICK p \in run.left : \E plan : Applied(p, plan) BY <1>1, ApplyApplies
  <2>1. PICK plan : Applied(p, plan) BY <2>a
  <2> DEFINE known == run.facts[p]
             own == run.own[p]
             shared == run.shared[p]
             rs == Produced(run.services, known, own, shared)
             now == manual'[q] \cup PathsOf(auto'[q])
  <2>2. run \in Applying BY <1>1, <2>0, RunFields DEF Apply
  <2>3. p \in Pics /\ run.services \in Libraries /\ own \in FiniteTags /\ shared \in FiniteTags
    BY <2>2 DEF Applying
  <2>4. plan = Plan(ForPicture(run.services, ListEnabled(run.services), known, shared), own, shared)
    BY <2>1 DEF Applied
  <2>5. \A r \in plan.remove : r \in Tag /\ \E x \in rs : IsAncestorOrSelf(r, x[2])
    <3> HIDE DEF known, own, shared
    <3> QED BY <2>3, <2>4, PlanTyped
  <2>6. /\ auto' = [auto EXCEPT ![p] = rs]
        /\ manual' = [manual EXCEPT ![p] = Replace(@, plan.remove, plan.assign)]
    BY <2>1 DEF Applied
  <2> HIDE DEF known, own, shared, rs
  <2>7. q # p => manual'[q] = manual[q] BY <2>0, <2>6 DEF RowsSound
  <2>8. q = p => auto'[q] = rs /\ manual'[q] = Replace(manual[q], plan.remove, plan.assign)
    BY <2>0, <2>3, <2>6 DEF RowsSound
  <2>9. /\ manual[q] \in SUBSET Seq(STRING) /\ \A x \in manual[q] : x # << >>
        /\ manual'[q] \in SUBSET Seq(STRING) /\ PathsOf(auto'[q]) \in SUBSET Seq(STRING)
    <3>1. manual[q] \subseteq Tag /\ manual'[q] \subseteq Tag BY <2>0 DEF RowsSound, FiniteTags
    <3>2. auto'[q] \in Rowset BY <2>0 DEF RowsSound
    <3>3. PathsOf(auto'[q]) \subseteq Tag BY <3>2, RowPaths
    <3> QED BY <3>1, <3>3, TagAssumption
  <2>10. ASSUME NEW x \in manual[q] PROVE \E y \in now : IsAncestorOrSelf(x, y)
    <3>1. CASE x \in manual'[q]
      <4>1. IsAncestorOrSelf(x, x) BY <2>9, AncestorOfSelf
      <4> QED BY <3>1, <4>1
    <3>2. CASE x \notin manual'[q]
      <4>1. q = p /\ x \in plan.remove BY <2>7, <2>8, <3>2 DEF Replace
      <4>2. PICK r \in rs : IsAncestorOrSelf(x, r[2]) BY <2>5, <4>1
      <4>3. r[2] \in PathsOf(auto'[q]) BY <2>8, <4>1 DEF PathsOf
      <4> QED BY <4>2, <4>3
    <3> QED BY <3>1, <3>2
  <2>11. Up(manual[q]) \subseteq Up(now)
    <3>1. now \in SUBSET Seq(STRING) BY <2>9
    <3> HIDE DEF now
    <3> QED BY <2>9, <2>10, <3>1, UpCovers
  <2> QED BY <2>11 DEF Present
<1>2. PipelineSettled /\ [PipelineNext]_pipelineVars =>
        [Apply => \A p \in Pics : Up(manual[p]) \subseteq Present(p)']_pipelineVars
  BY <1>1
<1> QED BY <1>2, SettledAlways, PTL DEF PipelineSpec, PruneKeepsManual
-----------------------------------------------------------------------------
(***************************************************************************)
(* The rows of one content.                                                  *)
(***************************************************************************)
RowsTyped == DOMAIN lib \subseteq Rows /\ lib \in [DOMAIN lib -> LibraryRow]

(* The order in which rows are preferred, as a number. *)
Weight(r, read) ==
    (IF read[r].ownerDeleted THEN 4 ELSE 0) + (IF Traits[r].owned THEN 0 ELSE 2) + (IF Traits[r].copy THEN 1 ELSE 0)

LEMMA WeightPrecedes ==
    ASSUME NEW read, NEW r \in Rows, NEW s \in Rows,
           read[r].ownerDeleted \in BOOLEAN, read[s].ownerDeleted \in BOOLEAN,
           Weight(r, read) < Weight(s, read) \/ (Weight(r, read) = Weight(s, read) /\ r <= s)
    PROVE  Precedes(r, s, read)
<1> DEFINE a == SortKey(r, read)
           b == SortKey(s, read)
<1>1. /\ Traits[r].owned \in BOOLEAN /\ Traits[r].copy \in BOOLEAN
      /\ Traits[s].owned \in BOOLEAN /\ Traits[s].copy \in BOOLEAN
  BY GroupsAssumption
<1>2. /\ a[1] = read[r].ownerDeleted /\ a[2] = ~Traits[r].owned /\ a[3] = Traits[r].copy
      /\ b[1] = read[s].ownerDeleted /\ b[2] = ~Traits[s].owned /\ b[3] = Traits[s].copy
  BY DEF SortKey
<1> HIDE DEF a, b
<1>a. ASSUME NEW i \in 1..3, ~a[i], b[i], \A j \in 1..(i - 1) : a[j] = b[j] PROVE Precedes(r, s, read)
  BY <1>a DEF Precedes, a, b
<1>3. CASE ~read[r].ownerDeleted /\ read[s].ownerDeleted
  <2>1. ~a[1] BY <1>2, <1>3
  <2>2. b[1] BY <1>2, <1>3
  <2>3. \A j \in 1..(1 - 1) : a[j] = b[j] OBVIOUS
  <2> QED BY <1>a, <2>1, <2>2, <2>3
<1>4. CASE read[r].ownerDeleted = read[s].ownerDeleted /\ Traits[r].owned /\ ~Traits[s].owned
  <2>1. ~a[2] BY <1>2, <1>4
  <2>2. b[2] BY <1>2, <1>4
  <2>3. \A j \in 1..(2 - 1) : a[j] = b[j]
    <3>1. \A j \in 1..(2 - 1) : j = 1 OBVIOUS
    <3>2. a[1] = b[1] BY <1>2, <1>4
    <3> QED BY <3>1, <3>2
  <2> QED BY <1>a, <2>1, <2>2, <2>3
<1>5. CASE /\ read[r].ownerDeleted = read[s].ownerDeleted /\ Traits[r].owned = Traits[s].owned
           /\ ~Traits[r].copy /\ Traits[s].copy
  <2>1. ~a[3] BY <1>2, <1>5
  <2>2. b[3] BY <1>2, <1>5
  <2>3. \A j \in 1..(3 - 1) : a[j] = b[j]
    <3>1. \A j \in 1..(3 - 1) : j = 1 \/ j = 2 OBVIOUS
    <3>2. a[1] = b[1] /\ a[2] = b[2] BY <1>2, <1>5
    <3> QED BY <3>1, <3>2
  <2> QED BY <1>a, <2>1, <2>2, <2>3
<1>6. CASE /\ read[r].ownerDeleted = read[s].ownerDeleted /\ Traits[r].owned = Traits[s].owned
           /\ Traits[r].copy = Traits[s].copy /\ r <= s
  BY <1>6 DEF Precedes, SortKey
<1> QED BY <1>1, <1>3, <1>4, <1>5, <1>6 DEF Weight

(* Some row is preferred to all. *)
LEMMA BestIs ==
    ASSUME NEW read, NEW rs \in SUBSET Rows, rs # {}, \A r \in rs : read[r].ownerDeleted \in BOOLEAN
    PROVE  Best(rs, read) \in rs
<1> DEFINE Weights == {Weight(r, read) : r \in rs}
<1>1. \A r \in rs : Weight(r, read) \in Nat BY DEF Weight
<1>2. Weights \in SUBSET Nat /\ Weights # {} BY <1>1
<1> HIDE DEF Weights
<1>3. PICK w \in Weights : \A x \in Weights : w <= x BY <1>2, LeastNatural
<1> DEFINE Lightest == {r \in rs : Weight(r, read) = w}
<1>4. Lightest \in SUBSET Nat /\ Lightest # {} BY <1>3, GroupsAssumption DEF Weights
<1> HIDE DEF Lightest
<1>5. PICK m \in Lightest : \A x \in Lightest : m <= x BY <1>4, LeastNatural
<1>6. m \in rs /\ Weight(m, read) = w BY <1>5 DEF Lightest
<1>7. ASSUME NEW s \in rs PROVE Precedes(m, s, read)
  <2>1. w <= Weight(s, read) BY <1>3 DEF Weights
  <2>2. Weight(s, read) = w => m <= s BY <1>5 DEF Lightest
  <2>3. Weight(s, read) \in Nat /\ w \in Nat BY <1>1, <1>6
  <2>4. Weight(m, read) < Weight(s, read) \/ (Weight(m, read) = Weight(s, read) /\ m <= s) BY <1>6, <2>1, <2>2, <2>3
  <2> QED BY <1>6, <2>4, WeightPrecedes
<1> QED BY <1>6, <1>7 DEF Best

(* Rows that are preferred alike have the same best. *)
LEMMA BestByRows ==
    ASSUME NEW read, NEW others, NEW rs, \A r \in rs : read[r].ownerDeleted = others[r].ownerDeleted
    PROVE  Best(rs, read) = Best(rs, others)
<1>1. \A r \in rs : SortKey(r, read) = SortKey(r, others) BY DEF SortKey
<1>2. \A r, s \in rs : Precedes(r, s, read) <=> Precedes(r, s, others) BY <1>1 DEF Precedes
<1>3. \A r : (r \in rs /\ \A s \in rs : Precedes(r, s, read)) <=> (r \in rs /\ \A s \in rs : Precedes(r, s, others))
  BY <1>2
<1> QED BY <1>3, Zenon DEF Best
-----------------------------------------------------------------------------
(* What a run writes for a group. *)
LEMMA VerdictsAre ==
    ASSUME NEW read, NEW r \in DOMAIN Verdicts(read)
    PROVE  Verdicts(read)[r] \in {Live, "content_dedupe"} \cup Rejection
BY DEF Verdicts, Rejection

Applies(r, read) == r \in DOMAIN Verdicts(read) /\ (Verdicts(read)[r] = Live => lib[r].reason = "content_dedupe")

LEMMA AssignWithin ==
    ASSUME NEW S, NEW rs \in SUBSET S, NEW added \in SUBSET S
    PROVE  Assign(rs, added) \in SUBSET S
BY DEF Assign, FoldDeepest

LEMMA MergedIs ==
    ASSUME NEW f, f \in [DOMAIN f -> LibraryRow], NEW rs \in SUBSET DOMAIN f, NEW target \in DOMAIN f
    PROVE  /\ DOMAIN Merged(f, rs, target) = DOMAIN f
           /\ Merged(f, rs, target) \in [DOMAIN f -> LibraryRow]
           /\ \A r \in DOMAIN f : /\ Merged(f, rs, target)[r].key = f[r].key
                                  /\ Merged(f, rs, target)[r].reason = f[r].reason
<1> DEFINE others == UNION {f[r].tags : r \in rs \ {target}}
<1>1. others \in SUBSET UserTags BY DEF LibraryRow
<1>2. f[target].tags \in SUBSET UserTags BY DEF LibraryRow
<1> HIDE DEF others
<1>3. Assign(f[target].tags, others) \in SUBSET UserTags BY <1>1, <1>2, AssignWithin
<1>4. Merged(f, rs, target) = IF f[target].reason = Live THEN [f EXCEPT ![target].tags = Assign(@, others)] ELSE f
  BY DEF Merged, others
<1> QED BY <1>3, <1>4 DEF LibraryRow

LEMMA ReconciledIs ==
    ASSUME RowsTyped, NEW read
    PROVE  /\ DOMAIN Reconciled(read) = DOMAIN lib
           /\ Reconciled(read) \in [DOMAIN lib -> LibraryRow]
           /\ \A r \in DOMAIN lib :
                /\ Reconciled(read)[r].key = lib[r].key
                /\ Reconciled(read)[r].reason = IF Applies(r, read) THEN Verdicts(read)[r] ELSE lib[r].reason
<1> DEFINE written == [r \in DOMAIN lib |-> IF Applies(r, read) THEN [lib[r] EXCEPT !.reason = Verdicts(read)[r]] ELSE lib[r]]
           heirs == Heir(read) \cap DOMAIN lib
<1>1. ASSUME NEW r \in DOMAIN lib
      PROVE  /\ written[r] \in LibraryRow /\ written[r].key = lib[r].key
             /\ written[r].reason = IF Applies(r, read) THEN Verdicts(read)[r] ELSE lib[r].reason
  <2>1. lib[r] \in LibraryRow BY DEF RowsTyped
  <2>2. CASE Applies(r, read)
    <3>1. Verdicts(read)[r] \in {Live, "content_dedupe"} \cup Rejection BY <2>2, VerdictsAre DEF Applies
    <3>2. written[r] = [lib[r] EXCEPT !.reason = Verdicts(read)[r]] BY <2>2
    <3> QED BY <2>1, <2>2, <3>1, <3>2 DEF LibraryRow
  <2>3. CASE ~Applies(r, read)
    BY <2>1, <2>3
  <2> QED BY <2>2, <2>3
<1>2. written \in [DOMAIN lib -> LibraryRow] /\ DOMAIN written = DOMAIN lib BY <1>1
<1>3. Reconciled(read) = IF heirs = {} THEN written
                         ELSE Merged(written, SameContent(CHOOSE r \in heirs : TRUE), CHOOSE r \in heirs : TRUE)
  BY DEF Reconciled, Applies
<1> HIDE DEF written
<1>4. CASE heirs = {} BY <1>1, <1>2, <1>3, <1>4
<1>5. ASSUME heirs # {}, NEW heir, heir = CHOOSE r \in heirs : TRUE
      PROVE  /\ DOMAIN Reconciled(read) = DOMAIN lib
             /\ Reconciled(read) \in [DOMAIN lib -> LibraryRow]
             /\ \A r \in DOMAIN lib :
                  Reconciled(read)[r].key = written[r].key /\ Reconciled(read)[r].reason = written[r].reason
  <2>1. heir \in DOMAIN lib BY <1>5
  <2>2. SameContent(heir) \subseteq DOMAIN lib BY DEF SameContent, Group
  <2>3. Reconciled(read) = Merged(written, SameContent(heir), heir) BY <1>3, <1>5
  <2> QED BY <1>2, <2>1, <2>2, <2>3, MergedIs
<1> QED BY <1>1, <1>4, <1>5
-----------------------------------------------------------------------------
(* A write for a group that is as it was read *)

AsRead(k) ==
    RowsTyped /\ GroupWrite /\ groupRun.key = k /\ groupRun.rows = [r \in Group(k) |-> lib[r]]

LEMMA ReadAsIs ==
    ASSUME NEW k \in Keys, AsRead(k), NEW read, read = groupRun.rows
    PROVE  /\ DOMAIN read = Group(k) /\ Group(k) \in SUBSET Rows /\ Group(k) \subseteq DOMAIN lib
           /\ \A r \in Group(k) : read[r] = lib[r] /\ lib[r] \in LibraryRow
           /\ lib' = Reconciled(read)
           /\ \A rs : rs \in SUBSET Group(k) /\ rs # {} => Best(rs, read) \in rs
<1>1. Group(k) \subseteq DOMAIN lib BY DEF Group
<1>2. /\ DOMAIN read = Group(k) /\ Group(k) \in SUBSET Rows
      /\ \A r \in Group(k) : read[r] = lib[r] /\ lib[r] \in LibraryRow
  BY <1>1 DEF AsRead, RowsTyped
<1>3. lib' = Reconciled(read) BY DEF AsRead, GroupWrite
<1>4. ASSUME NEW rs \in SUBSET Group(k), rs # {} PROVE Best(rs, read) \in rs
  <2>1. \A r \in rs : read[r].ownerDeleted \in BOOLEAN BY <1>2 DEF LibraryRow
  <2> QED BY <1>2, <1>4, <2>1, BestIs
<1> QED BY <1>1, <1>2, <1>3, <1>4

(* What the group is after the write. *)
LEMMA GroupAfter ==
    ASSUME NEW k \in Keys, AsRead(k), NEW read, read = groupRun.rows
    PROVE  /\ Group(k)' = Group(k)
           /\ \A r \in Group(k) : lib'[r].reason = IF Applies(r, read) THEN Verdicts(read)[r] ELSE lib[r].reason
<1>1. /\ DOMAIN lib' = DOMAIN lib
      /\ \A r \in DOMAIN lib :
            /\ lib'[r].key = lib[r].key
            /\ lib'[r].reason = IF Applies(r, read) THEN Verdicts(read)[r] ELSE lib[r].reason
  <2>1. lib' = Reconciled(read) /\ RowsTyped BY ReadAsIs DEF AsRead
  <2> QED BY <2>1, ReconciledIs
<1> QED BY <1>1 DEF Group

LEMMA Counts ==
    ASSUME RowsTyped, NEW k, NEW reasons
    PROVE  /\ IsFiniteSet(OfReason(Group(k), reasons)) /\ Counted(k, reasons) \in Nat
           /\ Counted(k, reasons) = 0 <=> OfReason(Group(k), reasons) = {}
<1>1. OfReason(Group(k), reasons) \subseteq Rows BY DEF RowsTyped, OfReason, Group
<1>2. IsFiniteSet(OfReason(Group(k), reasons)) BY <1>1, GroupsAssumption, FS_Subset
<1> QED BY <1>2, FS_CardinalityType, FS_EmptySet DEF Counted

(* A rejected group: one row shown in the trash, the others hidden with it. *)
LEMMA RejectionSettles ==
    ASSUME NEW k \in Keys, AsRead(k), OfReason(Group(k), Rejection) # {}
    PROVE  Settled(k)' /\ (Settled(k) /\ OfReason(Group(k), {"manual"}) = {Best(Group(k), lib)} => lib' = lib)
<1> DEFINE read == groupRun.rows
           best == Best(Group(k), read)
           Wanted(r) == IF r = best THEN "manual" ELSE "boomerang"
<1> HIDE DEF read
<1>1. /\ DOMAIN read = Group(k) /\ Group(k) \subseteq DOMAIN lib /\ lib' = Reconciled(read)
      /\ \A r \in Group(k) : read[r] = lib[r] /\ lib[r] \in LibraryRow
  BY ReadAsIs DEF read
<1>2. best \in Group(k) BY ReadAsIs DEF read, OfReason
<1>3. Verdicts(read) = [r \in {s \in Group(k) : read[s].reason # Wanted(s)} |-> Wanted(r)]
  <2>1. {r \in DOMAIN read : read[r].reason \in Rejection} # {} BY <1>1 DEF OfReason
  <2> QED BY <1>1, <2>1 DEF Verdicts
<1>4. \A r : Applies(r, read) <=> r \in Group(k) /\ lib[r].reason # Wanted(r)
  BY <1>1, <1>3 DEF Applies, Live
<1>5. \A r \in Group(k) : lib'[r].reason = Wanted(r)
  <2>1. \A r \in Group(k) : lib'[r].reason = IF Applies(r, read) THEN Verdicts(read)[r] ELSE lib[r].reason
    BY GroupAfter DEF read
  <2> QED BY <1>1, <1>3, <1>4, <2>1
<1>6. Settled(k)'
  <2>1. Group(k)' = Group(k) BY GroupAfter
  <2>2. OfReason(Group(k), {"manual"})' = {best} BY <1>2, <1>5, <2>1 DEF OfReason
  <2>3. OfReason(Group(k), {Live, "content_dedupe"})' = {} BY <1>5, <2>1 DEF OfReason, Live
  <2>4. Counted(k, {"manual"})' = 1 /\ Counted(k, {Live, "content_dedupe"})' = 0
    BY <2>2, <2>3, FS_Singleton, FS_EmptySet DEF Counted
  <2> QED BY <2>4 DEF Settled
<1>7. ASSUME Settled(k), OfReason(Group(k), {"manual"}) = {Best(Group(k), lib)} PROVE lib' = lib
  <2>1. RowsTyped BY DEF AsRead
  <2>2. Counted(k, Rejection) # 0 BY <2>1, Counts
  <2>3. Counted(k, {Live, "content_dedupe"}) = 0 BY <1>2, <1>7, <2>2 DEF Settled
  <2>4. OfReason(Group(k), {Live, "content_dedupe"}) = {} BY <2>1, <2>3, Counts
  <2>5. best = Best(Group(k), lib) BY <1>1, BestByRows
  <2>6. \A r \in Group(k) : lib[r].reason = Wanted(r)
    BY <1>1, <1>7, <2>4, <2>5 DEF OfReason, LibraryRow, Rejection
  <2>7. \A r : ~Applies(r, read) BY <1>4, <2>6
  <2>8. DOMAIN Verdicts(read) = {} BY <1>1, <1>3, <2>6
  <2>9. Heir(read) = {} BY <2>8 DEF Heir
  <2> QED BY <1>1, <2>1, <2>8, <2>9 DEF Reconciled, RowsTyped
<1> QED BY <1>6, <1>7
(* A live group: one row shown, and nothing moves if that is so already. *)
LEMMA LivingSettles ==
    ASSUME NEW k \in Keys, AsRead(k), OfReason(Group(k), Rejection) = {}
    PROVE  Settled(k)' /\ (Settled(k) => lib' = lib)
<1> DEFINE read == groupRun.rows
           live == OfReason(Group(k), {Live})
           hidden == OfReason(Group(k), {"content_dedupe"})
<1> HIDE DEF read, live, hidden
<1>1. /\ DOMAIN read = Group(k) /\ Group(k) \in SUBSET Rows /\ Group(k) \subseteq DOMAIN lib
      /\ lib' = Reconciled(read) /\ \A r \in Group(k) : read[r] = lib[r] /\ lib[r] \in LibraryRow
  BY ReadAsIs DEF read
<1>2. RowsTyped BY DEF AsRead
<1>3. /\ live = {r \in DOMAIN read : read[r].reason \in {Live}}
      /\ hidden = {r \in DOMAIN read : read[r].reason \in {"content_dedupe"}}
      /\ {r \in DOMAIN read : read[r].reason \in Rejection} = {}
  BY <1>1 DEF live, hidden, OfReason
<1>4. Group(k) = live \cup hidden /\ live \cap hidden = {}
  BY <1>1 DEF live, hidden, OfReason, LibraryRow, Live
<1>5. Verdicts(read) = IF Cardinality(live) > 1 THEN [r \in live \ {Best(live, read)} |-> "content_dedupe"]
                       ELSE IF live = {} /\ hidden # {} THEN [r \in {Best(hidden, read)} |-> Live]
                       ELSE [r \in {} |-> Live]
  BY <1>3 DEF Verdicts
<1>6. /\ IsFiniteSet(live) /\ Cardinality(live) \in Nat /\ (Cardinality(live) = 0 <=> live = {})
      /\ Counted(k, {Live}) = Cardinality(live) /\ Counted(k, Rejection) = 0
  BY <1>2, Counts DEF live, Counted
<1>7. /\ Group(k)' = Group(k)
      /\ \A r \in Group(k) : lib'[r].reason = IF Applies(r, read) THEN Verdicts(read)[r] ELSE lib[r].reason
  BY GroupAfter DEF read
<1>8. ASSUME NEW r \in Group(k), lib'[r].reason = Live,
             \A s \in Group(k) \ {r} : lib'[s].reason = "content_dedupe"
      PROVE  Settled(k)'
  <2>1. OfReason(Group(k), {Live})' = {r} /\ OfReason(Group(k), Rejection)' = {}
    BY <1>7, <1>8 DEF OfReason, Live, Rejection
  <2>2. Counted(k, {Live})' = 1 /\ Counted(k, Rejection)' = 0
    BY <2>1, FS_Singleton, FS_EmptySet DEF Counted
  <2> QED BY <2>2 DEF Settled
<1>9. Settled(k) => Group(k) = {} \/ Cardinality(live) = 1
  <2>1. Counted(k, {"manual"}) = 0
    <3>1. OfReason(Group(k), {"manual"}) = {} BY DEF OfReason, Rejection
    <3> QED BY <3>1, FS_EmptySet DEF Counted
  <2> QED BY <1>6, <2>1 DEF Settled
<1>10. CASE Cardinality(live) > 1
  <2>1. live # {} BY <1>6, <1>10
  <2>2. Best(live, read) \in live
    <3>1. live \in SUBSET Group(k) BY DEF live, OfReason
    <3> QED BY <2>1, <3>1, ReadAsIs DEF read
  <2>3. \A r : Applies(r, read) <=> r \in live \ {Best(live, read)}
    BY <1>5, <1>10 DEF Applies, Live
  <2>4. lib'[Best(live, read)].reason = Live BY <1>4, <1>7, <2>2, <2>3 DEF live, OfReason
  <2>5. ASSUME NEW s \in Group(k) \ {Best(live, read)} PROVE lib'[s].reason = "content_dedupe"
    <3>1. CASE s \in live BY <1>5, <1>7, <1>10, <2>3, <2>5, <3>1
    <3>2. CASE s \in hidden
      <4>1. s \notin live BY <1>4, <3>2
      <4> QED BY <1>7, <2>3, <2>5, <3>2, <4>1 DEF hidden, OfReason
    <3> QED BY <1>4, <2>5, <3>1, <3>2
  <2>6. Settled(k)' BY <1>4, <1>8, <2>2, <2>4, <2>5
  <2>7. ~Settled(k) BY <1>4, <1>6, <1>9, <1>10, <2>2
  <2> QED BY <2>6, <2>7
<1>11. CASE live = {} /\ hidden # {}
  <2>1. Best(hidden, read) \in hidden
    <3>1. hidden \in SUBSET Group(k) BY DEF hidden, OfReason
    <3> QED BY <1>11, <3>1, ReadAsIs DEF read
  <2>2. Verdicts(read) = [r \in {Best(hidden, read)} |-> Live] BY <1>5, <1>6, <1>11
  <2>3. \A r \in Group(k) : Applies(r, read) <=> r = Best(hidden, read)
    BY <1>4, <1>11, <2>2 DEF Applies, hidden, OfReason
  <2>4. lib'[Best(hidden, read)].reason = Live BY <1>4, <1>7, <2>1, <2>2, <2>3
  <2>5. \A s \in Group(k) \ {Best(hidden, read)} : lib'[s].reason = "content_dedupe"
    BY <1>4, <1>7, <1>11, <2>3 DEF hidden, OfReason
  <2>6. Settled(k)' BY <1>4, <1>8, <2>1, <2>4, <2>5
  <2>7. ~Settled(k) BY <1>4, <1>6, <1>9, <1>11, <2>1
  <2> QED BY <2>6, <2>7
<1>12. CASE Cardinality(live) <= 1 /\ (live # {} \/ hidden = {})
  <2>1. Verdicts(read) = [r \in {} |-> Live] BY <1>5, <1>6, <1>12
  <2>2. DOMAIN Verdicts(read) = {} BY <2>1
  <2>3. Heir(read) = {} BY <2>2 DEF Heir
  <2>4. lib' = lib BY <1>1, <1>2, <2>2, <2>3 DEF Reconciled, RowsTyped
  <2>5. Settled(k)
    <3>1. CASE live = {} BY <1>4, <1>12, <3>1 DEF Settled
    <3>2. CASE live # {} BY <1>6, <1>12, <3>2 DEF Settled
    <3> QED BY <3>1, <3>2
  <2>6. Settled(k)' BY <2>4, <2>5 DEF Settled, Counted, OfReason, Group
  <2> QED BY <2>4, <2>6
<1> QED BY <1>6, <1>10, <1>11, <1>12
-----------------------------------------------------------------------------
(* Types *)

Arrival == [row : Rows, verdict : {"unread", "reject"}]
Keeping == {NotKeeping} \cup [row : Rows, wasLive : BOOLEAN, old : Rows \cup {0}]
GroupsTyped ==
    /\ RowsTyped
    /\ arrivals \subseteq Arrival
    /\ keep \in Keeping
    /\ groupRun.stage \in {"idle", "keys", "write"}
    /\ groupRun.stage = "keys" => groupRun.todo \subseteq Keys
    /\ groupRun.stage = "write" => groupRun.todo \subseteq Keys /\ groupRun.key \in Keys
    /\ purging \subseteq Rows
    /\ woken \in BOOLEAN /\ lostWake \in BOOLEAN
LEMMA GroupsStart == GroupsInit => GroupsTyped
<1> SUFFICES ASSUME GroupsInit PROVE GroupsTyped OBVIOUS
<1>1. RowsTyped BY GroupsAssumption DEF GroupsInit, RowsTyped
<1>2. groupRun.stage = "idle" BY DEF GroupsInit, NotRunning
<1> QED BY <1>1, <1>2 DEF GroupsInit, GroupsTyped, Keeping

LEMMA MarkedIs ==
    ASSUME NEW f, f \in [DOMAIN f -> LibraryRow], NEW rs, NEW reason \in {Live, "content_dedupe"} \cup Rejection
    PROVE  DOMAIN Marked(f, rs, reason) = DOMAIN f /\ Marked(f, rs, reason) \in [DOMAIN f -> LibraryRow]
BY DEF Marked, LibraryRow

(* Marking twice, as the statements of most requests do. *)
LEMMA MarkedTwice ==
    ASSUME RowsTyped, NEW rs, NEW ss, NEW reason \in {Live, "content_dedupe"} \cup Rejection,
           NEW other \in {Live, "content_dedupe"} \cup Rejection,
           lib' = Marked(Marked(lib, rs, reason), ss, other)
    PROVE  RowsTyped'
<1>1. DOMAIN Marked(lib, rs, reason) = DOMAIN lib /\ Marked(lib, rs, reason) \in [DOMAIN lib -> LibraryRow]
  BY MarkedIs DEF RowsTyped
<1> QED BY <1>1, MarkedIs DEF RowsTyped

LEMMA MarkedOnce ==
    ASSUME RowsTyped, NEW rs, NEW reason \in {Live, "content_dedupe"} \cup Rejection, lib' = Marked(lib, rs, reason)
    PROVE  RowsTyped'
BY MarkedIs DEF RowsTyped

LEMMA CreatedIs ==
    ASSUME RowsTyped, NEW r \in Rows, NEW row \in LibraryRow, lib' = Created(r, row)
    PROVE  RowsTyped'
BY DEF RowsTyped, Created

(* Arrivals, uploads and hashes. *)
LEMMA ArrivalsTyped ==
    ASSUME GroupsTyped, Receive \/ ClassifyReads \/ ClassifyWrites \/ Upload \/ Hashed
    PROVE  GroupsTyped'
<1>0. RowsTyped BY DEF GroupsTyped
<1>1. CASE Receive
  <2>1. PICK r \in {s \in Rows : ~Traits[s].owned}, k \in Keys \cup {NoKey}, gone \in BOOLEAN :
          /\ lib' = IF r \in DOMAIN lib
                    THEN [lib EXCEPT ![r].ownerDeleted = gone, ![r].key = IF k = NoKey THEN @ ELSE k]
                    ELSE Created(r, [key |-> k, reason |-> Live, ownerDeleted |-> gone, tags |-> {}])
          /\ arrivals' = arrivals \cup {[row |-> r, verdict |-> "unread"]}
    BY <1>1 DEF Receive
  <2>2. ASSUME r \in DOMAIN lib PROVE RowsTyped'
    <3>1. lib' = [lib EXCEPT ![r].ownerDeleted = gone, ![r].key = IF k = NoKey THEN @ ELSE k] BY <2>1, <2>2
    <3>2. lib[r] \in LibraryRow BY <1>0, <2>2 DEF RowsTyped
    <3> QED BY <1>0, <2>2, <3>1, <3>2 DEF RowsTyped, LibraryRow
  <2>3. ASSUME r \notin DOMAIN lib PROVE RowsTyped'
    <3>1. [key |-> k, reason |-> Live, ownerDeleted |-> gone, tags |-> {}] \in LibraryRow BY DEF LibraryRow
    <3> QED BY <1>0, <2>1, <2>3, <3>1, CreatedIs
  <2>4. arrivals' \subseteq Arrival BY <2>1 DEF GroupsTyped, Arrival
  <2> QED BY <1>1, <2>2, <2>3, <2>4 DEF Receive, GroupChange, GroupsTyped
<1>2. CASE ClassifyReads
  <2>1. PICK a \in arrivals :
          /\ arrivals' \subseteq (arrivals \ {a}) \cup {[a EXCEPT !.verdict = "reject"]}
          /\ woken' \in BOOLEAN /\ UNCHANGED <<lib, keep, groupRun, purging, lostWake>>
    BY <1>2 DEF ClassifyReads, GroupsTyped
  <2>2. arrivals' \subseteq Arrival BY <2>1 DEF GroupsTyped, Arrival
  <2> QED BY <2>1, <2>2 DEF GroupsTyped, RowsTyped
<1>3. CASE ClassifyWrites
  <2>1. PICK a \in arrivals : lib' = Marked(lib, {a.row}, "boomerang") /\ arrivals' = arrivals \ {a}
    BY <1>3 DEF ClassifyWrites
  <2>2. RowsTyped' BY <1>0, <2>1, MarkedOnce DEF Rejection
  <2> QED BY <1>3, <2>1, <2>2 DEF ClassifyWrites, Wake, GroupsTyped
<1>4. CASE Upload
  <2>1. PICK r \in {s \in Rows \ DOMAIN lib : Traits[s].owned}, k \in Keys \cup {NoKey} :
          lib' = Created(r, [key |-> k, reason |-> Live, ownerDeleted |-> FALSE, tags |-> {}])
    BY <1>4 DEF Upload
  <2>2. [key |-> k, reason |-> Live, ownerDeleted |-> FALSE, tags |-> {}] \in LibraryRow BY DEF LibraryRow
  <2>3. RowsTyped' BY <1>0, <2>1, <2>2, CreatedIs
  <2> QED BY <1>4, <2>3 DEF Upload, GroupChange, Wake, GroupsTyped
<1>5. CASE Hashed
  <2>1. PICK r \in {s \in DOMAIN lib : Traits[s].owned}, k \in Keys : lib' = [lib EXCEPT ![r].key = k]
    BY <1>5 DEF Hashed
  <2>2. lib[r] \in LibraryRow BY <1>0 DEF RowsTyped
  <2>3. RowsTyped' BY <1>0, <2>1, <2>2 DEF RowsTyped, LibraryRow
  <2> QED BY <1>5, <2>3 DEF Hashed, GroupChange, Wake, GroupsTyped
<1> QED BY <1>1, <1>2, <1>3, <1>4, <1>5

(* Departures and the purge. *)
LEMMA DeparturesTyped ==
    ASSUME GroupsTyped, Unannounced \/ FindPurgeable \/ PurgeOne
    PROVE  GroupsTyped'
<1>0. RowsTyped BY DEF GroupsTyped
<1>1. ASSUME NEW r, lib' = [s \in DOMAIN lib \ {r} |-> lib[s]] PROVE RowsTyped'
  BY <1>0, <1>1 DEF RowsTyped
<1>2. CASE Unannounced
  <2>1. RowsTyped' BY <1>1, <1>2 DEF Unannounced
  <2> QED BY <1>2, <2>1 DEF Unannounced, GroupChange, Wake, GroupsTyped
<1>3. CASE FindPurgeable
  <2>1. purging' \subseteq Rows BY <1>0, <1>3 DEF FindPurgeable, RowsTyped
  <2> QED BY <1>3, <2>1 DEF FindPurgeable, GroupChange, GroupsTyped, RowsTyped
<1>4. CASE PurgeOne
  <2>1. PICK r \in purging : lib' = [s \in DOMAIN lib \ {r} |-> lib[s]] /\ purging' = purging \ {r}
                             /\ UNCHANGED <<arrivals, keep, groupRun, woken, lostWake>>
    BY <1>4 DEF PurgeOne
  <2>2. RowsTyped' BY <1>1, <2>1
  <2> QED BY <2>1, <2>2 DEF GroupsTyped
<1> QED BY <1>2, <1>3, <1>4

(* What the user tags, trashes and restores. *)
LEMMA UserTyped ==
    ASSUME GroupsTyped, TagPicture \/ Trash \/ Restore \/ TrashBatch \/ RestoreBatch
    PROVE  GroupsTyped'
<1>0. RowsTyped BY DEF GroupsTyped
<1>1. /\ Live \in {Live, "content_dedupe"} \cup Rejection /\ "content_dedupe" \in {Live, "content_dedupe"} \cup Rejection
      /\ "manual" \in {Live, "content_dedupe"} \cup Rejection /\ "boomerang" \in {Live, "content_dedupe"} \cup Rejection
  BY DEF Rejection
<1>2. CASE TagPicture
  <2>1. PICK r \in OfReason(DOMAIN lib, {Live}), t \in UserTags :
          \/ lib' = [lib EXCEPT ![r].tags = Assign(@, {t})]
          \/ lib' = [lib EXCEPT ![r].tags = RemoveTags(@, {t})]
    BY <1>2 DEF TagPicture
  <2>2. r \in DOMAIN lib /\ lib[r] \in LibraryRow BY <1>0 DEF RowsTyped, OfReason
  <2>3. lib[r].tags \in SUBSET UserTags BY <2>2 DEF LibraryRow
  <2>4. Assign(lib[r].tags, {t}) \in SUBSET UserTags /\ RemoveTags(lib[r].tags, {t}) \in SUBSET UserTags
    BY <2>3, AssignWithin DEF RemoveTags
  <2>5. PICK tags \in SUBSET UserTags : lib' = [lib EXCEPT ![r].tags = tags] BY <2>1, <2>2, <2>4
  <2>6. RowsTyped'
    <3>1. PICK row : row = [lib[r] EXCEPT !.tags = tags] OBVIOUS
    <3>2. row \in LibraryRow BY <2>2, <2>5, <3>1 DEF LibraryRow
    <3>3. lib' = [lib EXCEPT ![r] = row] BY <2>5, <3>1
    <3> QED BY <1>0, <2>2, <3>2, <3>3 DEF RowsTyped
  <2> QED BY <1>2, <2>6 DEF TagPicture, GroupChange, Wake, GroupsTyped
<1>3. CASE Trash
  <2>1. PICK r \in DOMAIN lib :
          \/ lib' = Marked(lib, {r}, "manual")
          \/ lib' = Marked(Marked(lib, SameContent(r), "boomerang"), {Best(SameContent(r), lib)}, "manual")
    BY <1>3 DEF Trash
  <2>2. RowsTyped' BY <1>0, <1>1, <2>1, MarkedOnce, MarkedTwice
  <2> QED BY <1>3, <2>2 DEF Trash, GroupChange, Wake, GroupsTyped
<1>4. CASE Restore
  <2>1. PICK r \in DOMAIN lib :
          lib' = Marked(Marked(lib, OfReason(SameContent(r) \ {r}, {"boomerang"}), "content_dedupe"), {r}, Live)
    BY <1>4 DEF Restore
  <2>2. RowsTyped' BY <1>0, <1>1, <2>1, MarkedTwice
  <2> QED BY <1>4, <2>2 DEF Restore, GroupChange, Wake, GroupsTyped
<1>5. CASE TrashBatch
  <2>1. \E rs, followers : lib' = Marked(Marked(lib, rs, "manual"), followers, "boomerang") BY <1>5 DEF TrashBatch
  <2>2. RowsTyped' BY <1>0, <1>1, <2>1, MarkedTwice
  <2> QED BY <1>5, <2>2 DEF TrashBatch, GroupChange, Wake, GroupsTyped
<1>6. CASE RestoreBatch
  <2>1. \E rs, followers : lib' = Marked(Marked(lib, rs, Live), followers, "content_dedupe") BY <1>6 DEF RestoreBatch
  <2>2. RowsTyped' BY <1>0, <1>1, <2>1, MarkedTwice
  <2> QED BY <1>6, <2>2 DEF RestoreBatch, GroupChange, Wake, GroupsTyped
<1> QED BY <1>2, <1>3, <1>4, <1>5, <1>6

(* "Keep this copy". *)
LEMMA KeepTyped ==
    ASSUME GroupsTyped, KeepBegins \/ KeepCommits \/ KeepRefused
    PROVE  GroupsTyped'
<1>0. RowsTyped BY DEF GroupsTyped
<1>1. CASE KeepBegins
  <2>1. PICK r \in DOMAIN lib :
          LET live == OfReason(SameContent(r) \ {r}, {Live})
          IN  keep' = [row |-> r, wasLive |-> lib[r].reason = Live,
                       old |-> IF live = {} THEN 0 ELSE CHOOSE s \in live : \A t \in live : s <= t]
    BY <1>1 DEF KeepBegins
  <2> DEFINE live == OfReason(SameContent(r) \ {r}, {Live})
             old == CHOOSE s \in live : \A t \in live : s <= t
  <2>2. live \in SUBSET Rows BY <1>0 DEF OfReason, SameContent, Group, RowsTyped
  <2>3. keep' = [row |-> r, wasLive |-> lib[r].reason = Live, old |-> IF live = {} THEN 0 ELSE old] BY <2>1
  <2> HIDE DEF live
  <2>4. live # {} => old \in Rows
    <3>1. live \in SUBSET Nat BY <2>2, GroupsAssumption
    <3>2. live # {} => \E s \in live : \A t \in live : s <= t BY <3>1, LeastNatural
    <3> QED BY <2>2, <3>2
  <2>5. r \in Rows BY <1>0 DEF RowsTyped
  <2> HIDE DEF old
  <2>6. keep' \in Keeping BY <2>3, <2>4, <2>5 DEF Keeping
  <2> QED BY <1>1, <2>6 DEF KeepBegins, GroupChange, GroupsTyped, RowsTyped
<1>2. CASE KeepCommits
  <2> DEFINE r == keep.row
             group == SameContent(r)
             kept == Marked(Marked(lib, group \ {r}, "content_dedupe"), group \cap {r}, Live)
             oldTags == IF keep.old \in DOMAIN lib THEN lib[keep.old].tags ELSE {}
  <2>1. CASE r \notin DOMAIN lib
    BY <1>0, <1>2, <2>1 DEF KeepCommits, GroupsTyped, Keeping, RowsTyped
  <2>2. CASE r \in DOMAIN lib
    <3>1. /\ lib' = IF keep.old # 0 THEN [kept EXCEPT ![r].tags = Assign({}, oldTags)]
                    ELSE IF keep.wasLive THEN kept ELSE Merged(kept, group, r)
          /\ woken' = TRUE
      BY <1>2, <2>2 DEF KeepCommits, Wake
    <3>2. DOMAIN kept = DOMAIN lib /\ kept \in [DOMAIN lib -> LibraryRow]
      <4>1. DOMAIN Marked(lib, group \ {r}, "content_dedupe") = DOMAIN lib
            /\ Marked(lib, group \ {r}, "content_dedupe") \in [DOMAIN lib -> LibraryRow]
        BY <1>0, MarkedIs DEF RowsTyped
      <4> QED BY <4>1, MarkedIs
    <3>3. oldTags \in SUBSET UserTags BY <1>0 DEF RowsTyped, LibraryRow
    <3>4. group \subseteq DOMAIN lib BY DEF SameContent, Group
    <3> HIDE DEF kept, oldTags, group
    <3>5. Assign({}, oldTags) \in SUBSET UserTags BY <3>3, AssignWithin
    <3>6. [kept EXCEPT ![r].tags = Assign({}, oldTags)] \in [DOMAIN lib -> LibraryRow]
      BY <2>2, <3>2, <3>5 DEF LibraryRow
    <3>7. Merged(kept, group, r) \in [DOMAIN lib -> LibraryRow]
      BY <2>2, <3>2, <3>4, MergedIs
    <3>8. lib' \in [DOMAIN lib -> LibraryRow] BY <3>1, <3>2, <3>6, <3>7
    <3>9. RowsTyped' BY <1>0, <3>8 DEF RowsTyped
    <3> QED BY <1>2, <3>1, <3>9 DEF KeepCommits, GroupsTyped, Keeping
  <2> QED BY <2>1, <2>2
<1>3. CASE KeepRefused
  BY <1>3 DEF KeepRefused, GroupsTyped, RowsTyped, Keeping
<1> QED BY <1>1, <1>2, <1>3

(* The run and the restart of the process. *)
LEMMA GroupRunTyped ==
    ASSUME GroupsTyped, GroupRunStarts \/ GroupRead \/ GroupWrite \/ GroupRunEnds \/ Restart
    PROVE  GroupsTyped'
<1>0. RowsTyped BY DEF GroupsTyped
<1>1. CASE GroupRunStarts BY <1>1 DEF GroupRunStarts, ListKeys, GroupsTyped, RowsTyped
<1>2. CASE GroupRead
  <2>1. PICK k \in groupRun.todo :
          groupRun' = [stage |-> "write", todo |-> groupRun.todo \ {k}, key |-> k, rows |-> [r \in Group(k) |-> lib[r]]]
    BY <1>2 DEF GroupRead, NextGroup
  <2> QED BY <1>2, <2>1 DEF GroupRead, NextGroup, GroupsTyped, RowsTyped
<1>3. CASE GroupWrite
  <2>1. lib' = Reconciled(groupRun.rows) BY <1>3 DEF GroupWrite
  <2>2. RowsTyped' BY <1>0, <2>1, ReconciledIs DEF RowsTyped
  <2> QED BY <1>3, <2>2 DEF GroupWrite, GroupDone, GroupsTyped
<1>4. CASE GroupRunEnds BY <1>4 DEF GroupRunEnds, KeysDone, NotRunning, GroupsTyped, RowsTyped
<1>5. CASE Restart BY <1>5 DEF Restart, NotRunning, GroupsTyped, RowsTyped, Keeping
<1> QED BY <1>1, <1>2, <1>3, <1>4, <1>5

LEMMA GroupsKept == GroupsTyped /\ [GroupsNext]_groupVars => GroupsTyped'
<1>1. ASSUME GroupsTyped, UNCHANGED groupVars PROVE GroupsTyped'
  BY <1>1 DEF groupVars, GroupsTyped, RowsTyped
<1> QED BY <1>1, ArrivalsTyped, DeparturesTyped, UserTyped, KeepTyped, GroupRunTyped DEF GroupsNext

LEMMA GroupsHold == GroupsSpec => []GroupsTyped
BY GroupsStart, GroupsKept, PTL DEF GroupsSpec

LEMMA TypedGroups == GroupsTyped => GroupsTypeOK
BY DEF GroupsTyped, RowsTyped, LibraryRow, Arrival, Keeping, NotKeeping, GroupsTypeOK

(* The rows, the arrivals, the keep request, the run and the purge list have their types. *)
THEOREM GroupsTypes == GroupsSpec => []GroupsTypeOK
BY TypedGroups, GroupsHold, PTL

(* A run that nothing overtook leaves its group with one row shown, in the library or in the trash, *)
(* and changes nothing, tags included, of a group that had it so.                                    *)
THEOREM RunsSettle == GroupsSpec => RunSettles
<1> DEFINE Chosen(k) == Counted(k, {"manual"}) = 1 => OfReason(Group(k), {"manual"}) = {Best(Group(k), lib)}
           Settles == \A k \in Keys :
               GroupWrite /\ groupRun.key = k /\ groupRun.rows = [r \in Group(k) |-> lib[r]]
               => Settled(k)' /\ (Settled(k) /\ Chosen(k) => lib' = lib)
<1>1. GroupsTyped /\ [GroupsNext]_groupVars => [Settles]_groupVars
  <2> SUFFICES ASSUME GroupsTyped, NEW k \in Keys, GroupWrite, groupRun.key = k,
                      groupRun.rows = [r \in Group(k) |-> lib[r]]
               PROVE  Settled(k)' /\ (Settled(k) /\ Chosen(k) => lib' = lib)
    OBVIOUS
  <2>1. AsRead(k) /\ RowsTyped BY DEF AsRead, GroupsTyped
  <2>2. CASE OfReason(Group(k), Rejection) = {} BY <2>1, <2>2, LivingSettles
  <2>3. CASE OfReason(Group(k), Rejection) # {}
    <3>1. Settled(k) => Counted(k, {"manual"}) = 1 BY <2>1, <2>3, Counts DEF Settled, Group, OfReason
    <3> QED BY <2>1, <2>3, <3>1, RejectionSettles
  <2> QED BY <2>2, <2>3
<1>2. GroupsSpec => [][Settles]_groupVars BY <1>1, GroupsHold, PTL DEF GroupsSpec
<1> QED BY <1>2 DEF RunSettles
-----------------------------------------------------------------------------
(* The library: the pipeline settled or at rest, the groups as they are *)

LibraryTyped ==
    /\ \/ plays = "pipeline" /\ PipelineSettled
       \/ plays = "groups" /\ PipelineTypeOK
    /\ GroupsTyped

(* a library without services, all of it evaluated *)
LEMMA RestTyped == PipelineStart(<< >>, 1) => PipelineTypeOK
<1> SUFFICES ASSUME PipelineStart(<< >>, 1) PROVE PipelineTypeOK
  OBVIOUS
<1>1. /\ manual \in [Pics -> {{}}] /\ incoming \in [Pics -> {{}}] /\ auto \in [Pics -> {{}}]
      /\ fact \in [Pics -> {TRUE}] /\ mark \in [Pics -> {1}] /\ clock = 1
  BY DEF PipelineStart
<1>2. manual \in Tags /\ incoming \in Tags BY <1>1 DEF Tags
<1>3. /\ auto \in [Pics -> SUBSET (Ids \X Paths)] /\ fact \in [Pics -> BOOLEAN]
      /\ mark \in [Pics -> 0..clock]
  <2>1. {} \in SUBSET (Ids \X Paths) /\ TRUE \in BOOLEAN /\ 1 \in 0..1 OBVIOUS
  <2>2. ASSUME NEW T, NEW t \in T, NEW f \in [Pics -> {t}] PROVE f \in [Pics -> T] OBVIOUS
  <2>3. auto \in [Pics -> SUBSET (Ids \X Paths)] BY <1>1, <2>1, <2>2
  <2>4. fact \in [Pics -> BOOLEAN] /\ mark \in [Pics -> 0..1] BY <1>1, <2>1, <2>2
  <2> QED BY <1>1, <2>3, <2>4
<1>4. DOMAIN svc = {}
  <2>1. DOMAIN << >> = {} OBVIOUS
  <2>2. DOMAIN svc = DOMAIN << >> BY DEF PipelineStart
  <2> QED BY <2>1, <2>2
<1>5. txn.kind = "none" /\ run.stage = "idle" /\ missed = {} BY DEF PipelineStart, None, Idle
<1>6. events \in 0..MaxEvents BY BoundsAssumption DEF PipelineStart
<1> QED BY <1>2, <1>3, <1>4, <1>5, <1>6 DEF PipelineTypeOK

LEMMA LibraryKept == LibraryTyped /\ [Next]_vars => LibraryTyped'
<1> SUFFICES ASSUME LibraryTyped, [Next]_vars PROVE LibraryTyped'
  OBVIOUS
<1>1. GroupsTyped'
  <2>1. [GroupsNext]_groupVars BY DEF Next, vars
  <2> QED BY <2>1, GroupsKept DEF LibraryTyped
<1>2. plays' = plays BY DEF Next, vars
<1>3. CASE plays = "pipeline"
  <2>1. PipelineSettled BY <1>3 DEF LibraryTyped
  <2>2. [PipelineNext]_pipelineVars BY DEF Next, vars
  <2>3. PipelineSettled' BY <2>1, <2>2, SettledStep
  <2> QED BY <1>1, <1>2, <1>3, <2>3 DEF LibraryTyped
<1>4. CASE plays = "groups"
  <2>1. PipelineTypeOK BY <1>4 DEF LibraryTyped
  <2>2. UNCHANGED pipelineVars BY <1>4 DEF Next, vars
  <2>3. PipelineTypeOK' BY <2>1, <2>2 DEF PipelineTypeOK, pipelineVars, rows
  <2> QED BY <1>1, <1>2, <1>4, <2>3 DEF LibraryTyped
<1> QED BY <1>3, <1>4 DEF LibraryTyped

(* The rows, the marks and the stamps, the run and the requests of the pipeline, and the rows, arrivals *)
(* and runs of the groups have their types in every state of a library.                                *)
THEOREM LibraryTypes == Spec => []LibraryTypeOK
<1>1. Init => LibraryTyped
  BY GroupsStart, SettledInit, RestTyped DEF Init, LibraryTyped
<1>2. LibraryTyped => LibraryTypeOK
  BY SettledTypes, TypedGroups DEF LibraryTyped, LibraryTypeOK
<1> QED BY <1>1, <1>2, LibraryKept, PTL DEF Spec
=============================================================================
