--------------------------- MODULE UploadsProofs ---------------------------
(***************************************************************************)
(* Proofs about Uploads: types, that no row is without its original, and    *)
(* that the quota holds, for every set of ids, slots and sizes, every quota *)
(* and any number of requests, expiries and crashes.                        *)
(***************************************************************************)
EXTENDS Uploads, FiniteSetTheorems, TLAPS

----------------------------------------------------------------------------
(* Sums *)

(* g sums f over every subset of T, an element at a time, as SumFunction does *)
Some(s) == CHOOSE x \in s : TRUE
Sums(g, f, T) ==
    /\ g = [s \in SUBSET T |-> g[s]]
    /\ \A s \in SUBSET T : g[s] = IF s = {} THEN 0 ELSE f[Some(s)] + g[s \ {Some(s)}]

LEMMA Smallest ==
    ASSUME NEW D, IsFiniteSet(D), NEW bad \in SUBSET SUBSET D, bad # {}
    PROVE  \E T \in bad : \A U \in SUBSET T : U # T => U \notin bad
<1>1. bad \subseteq FiniteSubsetsOf(D)
  BY FS_Subset DEF FiniteSubsetsOf
<1>2. PICK T \in bad : \A U \in bad : ~(<<U, T>> \in StrictSubsetOrdering(D))
  BY <1>1, FS_StrictSubsetOrderingWellFounded, WFMin
<1>3. \A U \in SUBSET T : U # T /\ U \in bad => <<U, T>> \in StrictSubsetOrdering(D)
  BY DEF StrictSubsetOrdering
<1>4. \A U \in SUBSET T : U # T => U \notin bad
  BY <1>2, <1>3
<1> QED BY <1>4

LEMMA SomeIn == \A s : s # {} => Some(s) \in s
BY DEF Some

LEMMA SumsAgree ==
    ASSUME NEW f, NEW T, IsFiniteSet(T), NEW U \in SUBSET T, NEW g, NEW h, Sums(g, f, T), Sums(h, f, U)
    PROVE  \A s \in SUBSET U : g[s] = h[s]
<1> DEFINE bad == {s \in SUBSET U : g[s] # h[s]}
<1> SUFFICES ASSUME bad # {} PROVE FALSE
  OBVIOUS
<1>1. IsFiniteSet(U) BY FS_Subset
<1>2. PICK s \in bad : \A r \in SUBSET s : r # s => r \notin bad
  <2>1. bad \in SUBSET SUBSET U OBVIOUS
  <2> HIDE DEF bad
  <2> QED BY <1>1, <2>1, Smallest
<1>3. CASE s = {} BY <1>3, s \in SUBSET T DEF Sums
<1>4. CASE s # {}
  <2>1. Some(s) \in s BY <1>4, SomeIn
  <2>2. s \ {Some(s)} \in SUBSET U /\ s \ {Some(s)} # s BY <2>1
  <2>3. g[s \ {Some(s)}] = h[s \ {Some(s)}] BY <1>2, <2>2
  <2> QED BY <2>3, <1>4, s \in SUBSET U, s \in SUBSET T DEF Sums
<1> QED BY <1>3, <1>4

LEMMA SumsExist ==
    ASSUME NEW f, NEW D, IsFiniteSet(D)
    PROVE  \E g : Sums(g, f, D)
<1> DEFINE bad == {T \in SUBSET D : ~ \E g : Sums(g, f, T)}
<1> SUFFICES ASSUME bad # {} PROVE FALSE
  OBVIOUS
<1>1. PICK T \in bad : \A U \in SUBSET T : U # T => U \notin bad
  <2>1. bad \in SUBSET SUBSET D OBVIOUS
  <2> HIDE DEF bad
  <2> QED BY <2>1, Smallest
<1>2. \A U \in SUBSET T : U # T => \E g : Sums(g, f, U)
  BY <1>1
<1> DEFINE Sub(U) == CHOOSE g : Sums(g, f, U)
<1>3. \A U \in SUBSET T : U # T => Sums(Sub(U), f, U)
  BY <1>2
<1> HIDE DEF Sub
<1> DEFINE Step(h, s) == IF s = {} THEN 0 ELSE f[Some(s)] + h[s \ {Some(s)}]
<1> DEFINE g == [s \in SUBSET T |-> IF s = T THEN (IF s = {} THEN 0 ELSE f[Some(s)] + Sub(s \ {Some(s)})[s \ {Some(s)}]) ELSE Sub(s)[s]]
<1>4. ASSUME NEW s \in SUBSET T PROVE g[s] = Step(g, s)
  <2>1. CASE s = {}
    BY <2>1, <1>3 DEF Sums
  <2>2. CASE s # {} /\ s = T
    <3>1. Some(s) \in s BY <2>2, SomeIn
    <3> QED BY <3>1, <2>2
  <2>3. CASE s # {} /\ s # T
    <3>1. Some(s) \in s BY <2>3, SomeIn
    <3> DEFINE r == s \ {Some(s)}
    <3>2. r \in SUBSET s /\ r \in SUBSET T /\ r # T /\ r # s BY <3>1, <2>3
    <3>3. Sums(Sub(s), f, s) /\ Sums(Sub(r), f, r) BY <1>3, <2>3, <3>2
    <3>4. Sub(s)[r] = Sub(r)[r]
      <4>1. IsFiniteSet(s) BY FS_Subset, s \in SUBSET D
      <4> QED BY <3>2, <3>3, <4>1, SumsAgree
    <3>5. Sub(s)[s] = f[Some(s)] + Sub(s)[r]
      BY <3>3, <2>3 DEF Sums
    <3>6. g[s] = Sub(s)[s] /\ g[r] = Sub(r)[r] BY <2>3, <3>2
    <3> QED BY <2>3, <3>4, <3>5, <3>6
  <2> QED BY <2>1, <2>2, <2>3
<1>5. g = [s \in SUBSET T |-> g[s]] OBVIOUS
<1> HIDE DEF g
<1>6. Sums(g, f, T) BY <1>4, <1>5 DEF Sums
<1> QED BY <1>1, <1>6

LEMMA SumsType ==
    ASSUME NEW f, NEW T, IsFiniteSet(T), \A x \in T : f[x] \in Nat, NEW g, Sums(g, f, T)
    PROVE  \A s \in SUBSET T : g[s] \in Nat
<1> DEFINE bad == {s \in SUBSET T : g[s] \notin Nat}
<1> SUFFICES ASSUME bad # {} PROVE FALSE
  OBVIOUS
<1>1. PICK s \in bad : \A r \in SUBSET s : r # s => r \notin bad
  <2>1. bad \in SUBSET SUBSET T OBVIOUS
  <2> HIDE DEF bad
  <2> QED BY <2>1, Smallest
<1>2. g[s] = IF s = {} THEN 0 ELSE f[Some(s)] + g[s \ {Some(s)}]
  BY DEF Sums
<1>3. s # {} BY <1>2
<1>4. Some(s) \in s BY <1>3, SomeIn
<1>5. f[Some(s)] \in Nat BY <1>4
<1>6. s \ {Some(s)} \in SUBSET T /\ s \ {Some(s)} \notin bad BY <1>1, <1>4
<1>7. g[s \ {Some(s)}] \in Nat BY <1>6
<1> QED BY <1>2, <1>3, <1>5, <1>7

LEMMA SumsOne ==
    ASSUME NEW f, NEW T, IsFiniteSet(T), \A x \in T : f[x] \in Nat, NEW g, Sums(g, f, T)
    PROVE  \A s \in SUBSET T : \A p \in s : g[s] = f[p] + g[s \ {p}]
<1> DEFINE bad == {s \in SUBSET T : \E p \in s : g[s] # f[p] + g[s \ {p}]}
<1> SUFFICES ASSUME bad # {} PROVE FALSE
  OBVIOUS
<1>1. PICK s \in bad : \A r \in SUBSET s : r # s => r \notin bad
  <2>1. bad \in SUBSET SUBSET T OBVIOUS
  <2> HIDE DEF bad
  <2> QED BY <2>1, Smallest
<1>2. PICK p \in s : g[s] # f[p] + g[s \ {p}] BY <1>1
<1> DEFINE x == Some(s)
<1>3. x \in s BY <1>2, SomeIn
<1>4. g[s] = f[x] + g[s \ {x}] BY <1>2 DEF Sums
<1>5. x # p BY <1>2, <1>4
<1> HIDE DEF x
<1>6. s \ {x} \notin bad /\ s \ {p} \notin bad BY <1>1, <1>2, <1>3
<1>7. g[s \ {x}] = f[p] + g[(s \ {x}) \ {p}] BY <1>6, <1>5, <1>2
<1>8. g[s \ {p}] = f[x] + g[(s \ {p}) \ {x}] BY <1>6, <1>5, <1>3
<1> DEFINE rest == (s \ {x}) \ {p}
<1>9. rest = (s \ {p}) \ {x} OBVIOUS
<1>10. f[x] \in Nat /\ f[p] \in Nat /\ g[rest] \in Nat
  BY <1>3, SumsType
<1>11. g[s \ {x}] = f[p] + g[rest] /\ g[s \ {p}] = f[x] + g[rest]
  BY <1>7, <1>8, <1>9
<1> HIDE DEF rest
<1> QED BY <1>2, <1>4, <1>10, <1>11

LEMMA SumIs ==
    ASSUME NEW f, IsFiniteSet(DOMAIN f)
    PROVE  \E g : Sums(g, f, DOMAIN f) /\ SumFunction(f) = g[DOMAIN f]
<1> DEFINE D == DOMAIN f
           Step(h) == [s \in SUBSET D |-> IF s = {} THEN 0 ELSE f[CHOOSE x \in s : TRUE] + h[s \ {CHOOSE x \in s : TRUE}]]
           iter == CHOOSE h : h = Step(h)
<1>1. \E g : g = Step(g)
  <2>1. PICK g : Sums(g, f, D) BY SumsExist
  <2>2. g = [s \in SUBSET D |-> g[s]]
        /\ \A s \in SUBSET D :
             g[s] = IF s = {} THEN 0 ELSE f[CHOOSE x \in s : TRUE] + g[s \ {CHOOSE x \in s : TRUE}]
    BY <2>1 DEF Sums, Some
  <2>3. g = Step(g) BY <2>2
  <2> QED BY <2>3
<1>2. iter = Step(iter)
  <2> HIDE DEF Step
  <2> QED BY <1>1
<1>3. Sums(iter, f, D)
  BY <1>2 DEF Sums, Some
<1>4. SumFunction(f) = iter[D]
  BY DEF SumFunction, SumFunctionOnSet, FoldFunctionOnSet, MapThenFoldSet
<1> QED BY <1>3, <1>4

LEMMA SumNat ==
    ASSUME NEW f, IsFiniteSet(DOMAIN f), \A x \in DOMAIN f : f[x] \in Nat
    PROVE  SumFunction(f) \in Nat
BY SumIs, SumsType

LEMMA SumLess ==
    ASSUME NEW f, IsFiniteSet(DOMAIN f), \A x \in DOMAIN f : f[x] \in Nat, NEW p \in DOMAIN f,
           NEW h, DOMAIN h = DOMAIN f \ {p}, \A x \in DOMAIN h : h[x] = f[x]
    PROVE  SumFunction(f) = f[p] + SumFunction(h)
<1> DEFINE D == DOMAIN f
           E == D \ {p}
<1>1. IsFiniteSet(E) BY FS_RemoveElement
<1>2. PICK g : Sums(g, f, D) /\ SumFunction(f) = g[D] BY SumIs
<1>3. PICK k : Sums(k, h, E) /\ SumFunction(h) = k[E] BY <1>1, SumIs
<1>4. \A s \in SUBSET E : s # {} => Some(s) \in E BY SomeIn
<1>5. Sums(k, f, E) BY <1>3, <1>4 DEF Sums
<1>6. g[E] = k[E]
  <2>1. E \in SUBSET D /\ E \in SUBSET E OBVIOUS
  <2> HIDE DEF D, E
  <2>2. IsFiniteSet(D) BY DEF D
  <2> QED BY <1>2, <1>5, <2>1, <2>2, SumsAgree
<1>7. g[D] = f[p] + g[D \ {p}] BY <1>2, SumsOne
<1> QED BY <1>2, <1>3, <1>6, <1>7

----------------------------------------------------------------------------
(* Types *)

LEMMA WithoutFacts ==
    ASSUME NEW f, NEW x
    PROVE  /\ DOMAIN Without(f, x) = DOMAIN f \ {x}
           /\ \A y \in DOMAIN f \ {x} : Without(f, x)[y] = f[y]
           /\ Without(f, x) = [y \in DOMAIN f \ {x} |-> f[y]]
BY DEF Without, Restrict

(* what may be put in a slot *)
CallsTyped ==
    /\ call \in [Slots -> CallType \cup {Free}]
    /\ \A s \in Slots : call[s] # Free => InOrder(call[s])

LEMMA FreeIsNoCall == Free \notin CallType
BY DEF Free, NewCall, CallOf, CallType

LEMMA CallsKept ==
    ASSUME CallsTyped, NEW s \in Slots, NEW c, c = Free \/ (c \in CallType /\ InOrder(c)),
           call' = [call EXCEPT ![s] = c]
    PROVE  CallsTyped'
BY DEF CallsTyped

LEMMA EndKept ==
    ASSUME CallsTyped, NEW s \in Slots, Ends(s)
    PROVE  CallsTyped'
BY DEF CallsTyped, Ends

LEMMA StageKept ==
    ASSUME CallsTyped, NEW s \in Slots, NEW st, call[s] # Free,
           st \in Checking \cup {"promote", "clear", "snapshot", "bytes", "commit", "invalidate"},
           InOrder([call[s] EXCEPT !.stage = st]), Moves(s, st)
    PROVE  CallsTyped'
<1>1. [call[s] EXCEPT !.stage = st] \in CallType BY DEF CallsTyped, CallType
<1>2. call' = [call EXCEPT ![s] = [call[s] EXCEPT !.stage = st]] BY DEF Moves
<1> QED BY <1>1, <1>2, CallsKept

LEMMA AtCall == \A s \in Slots : \A st : At(s, st) /\ st # "none" => call[s] # Free
BY DEF At, Free, NewCall, CallOf

LEMMA InitTypes == UploadsInit => UploadsTypeOK
<1> SUFFICES ASSUME UploadsInit PROVE UploadsTypeOK
  OBVIOUS
<1>1. Owned \in [DOMAIN Owned -> Sizes] /\ DOMAIN Owned \subseteq UploadIds BY QuotaAssumption
<1>2. pictures \in [DOMAIN pictures -> RowType] BY <1>1 DEF UploadsInit, NewRow, RowType
<1>3. call \in [Slots -> CallType \cup {Free}] /\ \A s \in Slots : call[s] = Free BY DEF UploadsInit
<1>4. staged \in [DOMAIN staged -> Sizes] /\ reserved \in [DOMAIN reserved -> Sizes \cup {0}]
      /\ DOMAIN staged = {} /\ DOMAIN reserved = {}
  BY DEF UploadsInit
<1> QED BY <1>1, <1>2, <1>3, <1>4 DEF UploadsInit, UploadsTypeOK, Nothing

Bytes(row) == row.size + row.versions
BilledFor(rows) == SumFunction([q \in DOMAIN rows |-> Bytes(rows[q])])

LEMMA BilledIs == Billed = BilledFor(pictures) /\ Billed' = BilledFor(pictures')
BY DEF Billed, BilledFor, Bytes

Rows(rows) == IsFiniteSet(DOMAIN rows) /\ rows \in [DOMAIN rows -> RowType]

LEMMA RowBytes == ASSUME NEW row \in RowType PROVE Bytes(row) \in Nat
BY QuotaAssumption DEF Bytes, RowType

LEMMA BilledForNat == ASSUME NEW rows, Rows(rows) PROVE BilledFor(rows) \in Nat
<1> DEFINE f == [q \in DOMAIN rows |-> Bytes(rows[q])]
<1>1. IsFiniteSet(DOMAIN f) BY DEF Rows
<1>2. \A q \in DOMAIN f : f[q] \in Nat BY RowBytes DEF Rows
<1> HIDE DEF f
<1>3. SumFunction(f) \in Nat BY <1>1, <1>2, SumNat
<1> QED BY <1>3 DEF BilledFor, f

LEMMA RowsAre == (UploadsTypeOK => Rows(pictures)) /\ (UploadsTypeOK' => Rows(pictures'))
BY FS_Subset, QuotaAssumption DEF UploadsTypeOK, Rows

LEMMA BilledNat == UploadsTypeOK => Billed \in Nat
BY RowsAre, BilledForNat, BilledIs

LEMMA BilledNatPrimed == ASSUME UploadsTypeOK' PROVE Billed' \in Nat
BY RowsAre, BilledForNat, BilledIs

LEMMA ReservedNat == UploadsTypeOK => SumFunction(reserved) \in Nat
<1> SUFFICES ASSUME UploadsTypeOK PROVE SumFunction(reserved) \in Nat
  OBVIOUS
<1>1. IsFiniteSet(DOMAIN reserved) BY FS_Subset, QuotaAssumption DEF UploadsTypeOK
<1>2. \A p \in DOMAIN reserved : reserved[p] \in Nat BY QuotaAssumption DEF UploadsTypeOK
<1> QED BY <1>1, <1>2, SumNat

(* The stores and caches, typed. *)
StoresTyped ==
    /\ pictures \in [DOMAIN pictures -> RowType]
    /\ objects \in [DOMAIN objects -> Sizes] /\ staged \in [DOMAIN staged -> Sizes]
    /\ reserved \in [DOMAIN reserved -> Sizes \cup {0}]
    /\ DOMAIN pictures \cup DOMAIN objects \cup DOMAIN staged \cup DOMAIN reserved \cup sessions \subseteq UploadIds
    /\ mirror \in Nat \cup {Nothing} /\ recount \in Nat \cup {Nothing}
    /\ listed \cup unlinked \cup shared \subseteq UploadIds
    /\ overlapped \in BOOLEAN /\ unchecked \in Nat

LEMMA TypesInTwo == UploadsTypeOK <=> StoresTyped /\ CallsTyped
BY DEF UploadsTypeOK, StoresTyped, CallsTyped

LEMMA TypesInTwoPrimed == UploadsTypeOK' <=> StoresTyped' /\ CallsTyped'
BY DEF UploadsTypeOK, StoresTyped, CallsTyped

LEMMA WithTyped ==
    ASSUME NEW S, NEW f, f \in [DOMAIN f -> S], NEW x \in UploadIds, NEW v \in S, DOMAIN f \subseteq UploadIds
    PROVE  With(f, x, v) \in [DOMAIN With(f, x, v) -> S] /\ DOMAIN With(f, x, v) \subseteq UploadIds
BY DEF With

LEMMA WithoutTyped ==
    ASSUME NEW S, NEW f, f \in [DOMAIN f -> S], NEW x, DOMAIN f \subseteq UploadIds
    PROVE  Without(f, x) \in [DOMAIN Without(f, x) -> S] /\ DOMAIN Without(f, x) \subseteq UploadIds
BY DEF Without, Restrict

(* a row that is changed where it is *)
LEMMA RowTyped ==
    ASSUME pictures \in [DOMAIN pictures -> RowType], NEW p \in DOMAIN pictures, NEW row \in RowType,
           pictures' = [pictures EXCEPT ![p] = row]
    PROVE  DOMAIN pictures' = DOMAIN pictures /\ pictures' \in [DOMAIN pictures' -> RowType]
OBVIOUS

LEMMA BillsTyped ==
    ASSUME StoresTyped, NEW s \in Slots, NEW bytes \in Int, NEW room \in Nat, Bills(s, bytes, room)
    PROVE  overlapped' \in BOOLEAN /\ unchecked' \in Nat
<1>1. overlapped' \in BOOLEAN BY DEF Bills, StoresTyped
<1>2. Beyond(bytes, room) \in Nat BY DEF Beyond
<1>3. unchecked' = unchecked + Beyond(bytes, room) /\ unchecked \in Nat BY DEF Bills, StoresTyped
<1> QED BY <1>1, <1>2, <1>3

LEMMA OverwriteServes ==
    ASSUME Overwrite
    PROVE  \E s \in Slots, size \in Sizes \ {0}, snaps \in BOOLEAN, p \in DOMAIN pictures :
              \/ Serve(s, Overwriting(p, size, snaps, "check"))
              \/ /\ Serve(s, Overwriting(p, size, snaps, IF snaps THEN "snapshot" ELSE "bytes"))
                 /\ ~(Incoming(Overwriting(p, size, snaps, "check")) > 0)
<1>1. PICK s \in Slots, size \in Sizes \ {0}, snaps \in BOOLEAN, p \in DOMAIN pictures :
          LET c == Overwriting(p, size, snaps, "check")
          IN  Serve(s, IF Incoming(c) > 0 THEN c ELSE Overwriting(p, size, snaps, Cleared(c)))
  BY Zenon DEF Overwrite
<1> DEFINE c == Overwriting(p, size, snaps, "check")
<1>2. c.kind = "overwrite" /\ c.snaps = snaps BY DEF Overwriting, CallOf
<1> HIDE DEF c
<1>3. Cleared(c) = IF snaps THEN "snapshot" ELSE "bytes" BY <1>2 DEF Cleared
<1>4. Serve(s, IF Incoming(c) > 0 THEN c ELSE Overwriting(p, size, snaps, Cleared(c))) BY <1>1 DEF c
<1>5. CASE Incoming(c) > 0 BY <1>4, <1>5 DEF c
<1>6. CASE ~(Incoming(c) > 0) BY <1>3, <1>4, <1>6 DEF c
<1> QED BY <1>5, <1>6

LEMMA TypesKept == UploadsTypeOK /\ [UploadsNext]_uploadVars => UploadsTypeOK'
<1> SUFFICES ASSUME StoresTyped, CallsTyped, [UploadsNext]_uploadVars PROVE StoresTyped' /\ CallsTyped'
  BY TypesInTwo, TypesInTwoPrimed
<1>0. UploadsTypeOK BY TypesInTwo
<1>1. CASE Begin
  <2>1. PICK s \in Slots, p \in Minted, size \in Sizes \cup {Nothing} :
            Serve(s, NewCall("begin", p, Nothing, size, "check"))
    BY <1>1 DEF Begin
  <2>2. CallsTyped' BY <2>1, CallsKept DEF Serve, NewCall, CallOf, CallType, InOrder, Minted, Checking
  <2>3. StoresTyped' BY <1>1 DEF Begin, StoresTyped, store, cache, sweeps, audit
  <2> QED BY <2>2, <2>3
<1>2. CASE Put
  <2>1. PICK p \in sessions, size \in Sizes : staged' = With(staged, p, size) BY <1>2 DEF Put
  <2>2. staged' \in [DOMAIN staged' -> Sizes] /\ DOMAIN staged' \subseteq UploadIds
    BY <2>1, WithTyped DEF StoresTyped
  <2>3. CallsTyped' BY <1>2 DEF Put, CallsTyped
  <2> QED BY <1>2, <2>2, <2>3 DEF Put, StoresTyped, cache, sweeps, audit
<1>3. CASE Complete
  <2>1. PICK s \in Slots, p \in sessions : Serve(s, NewCall("complete", p, Nothing, Nothing, "promote"))
                                           /\ shared' \in {shared, shared \cup {p}}
    BY <1>3 DEF Complete
  <2>2. CallsTyped' BY <2>1, CallsKept DEF Serve, NewCall, CallOf, CallType, InOrder, StoresTyped
  <2>3. StoresTyped' BY <1>3, <2>1 DEF Complete, StoresTyped, store, cache, sweeps, audit
  <2> QED BY <2>2, <2>3
<1>4. CASE Promote
  <2>1. PICK s \in Slots : At(s, "promote")
            /\ \/ /\ call[s].pic \in DOMAIN staged
                  /\ objects' = With(objects, call[s].pic, staged[call[s].pic]) /\ Moves(s, "clear")
               \/ Ends(s) /\ UNCHANGED objects
    BY <1>4 DEF Promote
  <2>2. call[s] \in CallType /\ InOrder(call[s]) BY <2>1, AtCall DEF CallsTyped
  <2>3. CallsTyped'
    <3>1. CASE Moves(s, "clear")
      BY <2>1, <2>2, <3>1, StageKept, AtCall DEF At, InOrder, CallType, Checking
    <3>2. CASE Ends(s) BY <3>2, EndKept
    <3> QED BY <2>1, <3>1, <3>2
  <2>4. objects' \in [DOMAIN objects' -> Sizes] /\ DOMAIN objects' \subseteq UploadIds
    <3>1. CASE call[s].pic \in DOMAIN staged /\ objects' = With(objects, call[s].pic, staged[call[s].pic])
      <4>1. call[s].pic \in UploadIds /\ staged[call[s].pic] \in Sizes BY <3>1 DEF StoresTyped
      <4>2. objects \in [DOMAIN objects -> Sizes] /\ DOMAIN objects \subseteq UploadIds BY DEF StoresTyped
      <4> QED BY <3>1, <4>1, <4>2, WithTyped
    <3>2. CASE UNCHANGED objects BY <3>2 DEF StoresTyped
    <3> QED BY <2>1, <3>1, <3>2
  <2> QED BY <1>4, <2>3, <2>4 DEF Promote, StoresTyped, cache, sweeps, audit
<1>5. CASE Clear
  <2>1. PICK s \in Slots : At(s, "clear")
            /\ staged' = Without(staged, call[s].pic) /\ reserved' = Without(reserved, call[s].pic)
            /\ \E size \in Sizes \cup {Nothing} :
                 call' = [call EXCEPT ![s].size = size, ![s].stage = IF size = Nothing THEN "commit" ELSE "check"]
    <3>1. PICK s \in Slots, told \in Sizes \cup {Nothing}, fails \in BOOLEAN : At(s, "clear")
            /\ Hears(s, call[s].pic, IF call[s].pic \in DOMAIN objects /\ ~fails THEN objects[call[s].pic] ELSE told)
      BY <1>5 DEF Clear
    <3>2. (IF call[s].pic \in DOMAIN objects /\ ~fails THEN objects[call[s].pic] ELSE told) \in Sizes \cup {Nothing}
      BY DEF StoresTyped
    <3>3. /\ At(s, "clear") /\ staged' = Without(staged, call[s].pic) /\ reserved' = Without(reserved, call[s].pic)
          /\ \E size \in Sizes \cup {Nothing} :
               call' = [call EXCEPT ![s].size = size, ![s].stage = IF size = Nothing THEN "commit" ELSE "check"]
      BY <3>1, <3>2 DEF Hears
    <3> QED BY <3>3
  <2>2. call[s] \in CallType /\ InOrder(call[s]) BY <2>1, AtCall DEF CallsTyped
  <2>3. PICK c : c \in CallType /\ InOrder(c) /\ call' = [call EXCEPT ![s] = c]
    <3>1. PICK size \in Sizes \cup {Nothing} :
            call' = [call EXCEPT ![s].size = size, ![s].stage = IF size = Nothing THEN "commit" ELSE "check"]
      BY <2>1
    <3> DEFINE c == [call[s] EXCEPT !.size = size, !.stage = IF size = Nothing THEN "commit" ELSE "check"]
    <3>2. c \in CallType BY <2>2 DEF CallType, Checking
    <3>3. c.kind = "complete" /\ c.stage \in {"commit", "check"} BY <2>1, <2>2 DEF At, InOrder, CallType, Checking
    <3>4. InOrder(c) BY <2>2, <3>3 DEF InOrder, Checking, CallType
    <3>5. call' = [call EXCEPT ![s] = c] BY <3>1
    <3> QED BY <3>2, <3>4, <3>5
  <2>4. CallsTyped' BY <2>3, CallsKept
  <2>5. /\ staged' \in [DOMAIN staged' -> Sizes] /\ DOMAIN staged' \subseteq UploadIds
        /\ reserved' \in [DOMAIN reserved' -> Sizes \cup {0}] /\ DOMAIN reserved' \subseteq UploadIds
    BY <2>1, WithoutTyped DEF StoresTyped
  <2> QED BY <1>5, <2>4, <2>5 DEF Clear, StoresTyped, sweeps, audit
<1>6. CASE Copy
  <2>1. PICK s \in Slots, p \in Minted, source \in DOMAIN pictures :
            Serve(s, NewCall("copy", p, source, pictures[source].size, "check"))
    BY <1>6 DEF Copy
  <2>2. source \in UploadIds /\ source # Nothing /\ pictures[source].size \in Sizes \cup {0} /\ pictures[source].size # Nothing
    BY QuotaAssumption DEF StoresTyped, Nothing, RowType
  <2>3. CallsTyped' BY <2>1, <2>2, CallsKept DEF Serve, NewCall, CallOf, CallType, InOrder, Minted, Checking
  <2>4. StoresTyped' BY <1>6 DEF Copy, StoresTyped, store, cache, sweeps, audit
  <2> QED BY <2>3, <2>4
<1>7. CASE ReadTotal
  <2>1. PICK s \in Slots : At(s, "check")
            /\ call' = [call EXCEPT ![s].total = IF mirror # Nothing THEN mirror ELSE Billed,
                                    ![s].stage = IF mirror # Nothing THEN "decide" ELSE "fill"]
    BY <1>7 DEF ReadTotal
  <2>2. call[s] \in CallType /\ InOrder(call[s]) BY <2>1, AtCall DEF CallsTyped
  <2>3. Billed \in Nat /\ mirror \in Nat \cup {Nothing} BY <1>0, BilledNat DEF StoresTyped
  <2>4. PICK c : c \in CallType /\ InOrder(c) /\ call' = [call EXCEPT ![s] = c]
    <3> DEFINE c == [call[s] EXCEPT !.total = IF mirror # Nothing THEN mirror ELSE Billed,
                                    !.stage = IF mirror # Nothing THEN "decide" ELSE "fill"]
    <3>1. c \in CallType BY <2>2, <2>3 DEF CallType, Checking
    <3>2. /\ c.stage \in {"decide", "fill"} /\ c.kind = call[s].kind /\ c.size = call[s].size
          /\ c.source = call[s].source /\ c.old = call[s].old /\ c.snaps = call[s].snaps
      BY <2>2 DEF CallType
    <3>3. call' = [call EXCEPT ![s] = c] BY <2>1
    <3> HIDE DEF c
    <3>4. InOrder(c) BY <2>1, <2>2, <3>2 DEF At, InOrder, Checking
    <3> QED BY <3>1, <3>3, <3>4
  <2>5. CallsTyped' BY <2>4, CallsKept
  <2> QED BY <1>7, <2>5 DEF ReadTotal, StoresTyped, store, cache, sweeps
<1>8. CASE FillMirror
  <2>1. PICK s \in Slots : At(s, "fill") /\ mirror' = call[s].total /\ Moves(s, "decide")
    BY <1>8 DEF FillMirror
  <2>2. call[s] \in CallType /\ InOrder(call[s]) BY <2>1, AtCall DEF CallsTyped
  <2>3. CallsTyped' BY <2>1, <2>2, StageKept, AtCall DEF At, InOrder, CallType, Checking
  <2>4. mirror' \in Nat \cup {Nothing} BY <2>1, <2>2 DEF CallType
  <2> QED BY <1>8, <2>3, <2>4 DEF FillMirror, StoresTyped, store, sweeps, audit
<1>9. CASE Decide
  <2>1. PICK s \in Slots : At(s, "decide") /\ (Granted(s, call[s].pic) \/ Refused(s, call[s].pic))
    BY <1>9 DEF Decide
  <2>2. call[s] \in CallType /\ InOrder(call[s]) BY <2>1, AtCall DEF CallsTyped
  <2> DEFINE Rest == UNCHANGED <<pictures, staged, mirror, sweeps, shared, audit, limits>>
  <2>3. Rest BY <1>9 DEF Decide
  <2>4. CASE Granted(s, call[s].pic) /\ call[s].kind = "begin"
    <3>1. Ends(s) /\ UNCHANGED objects /\ sessions' = sessions \cup {call[s].pic}
          /\ reserved' = IF call[s].size = Nothing THEN reserved ELSE With(reserved, call[s].pic, call[s].size)
      BY <2>4 DEF Granted
    <3>2. reserved' \in [DOMAIN reserved' -> Sizes \cup {0}] /\ DOMAIN reserved' \subseteq UploadIds
      <4>1. call[s].size \in Sizes \cup {0, Nothing}
        BY <2>2, <2>4 DEF CallType, InOrder
      <4>2. CASE call[s].size = Nothing BY <3>1, <4>2 DEF StoresTyped
      <4>3. CASE call[s].size # Nothing
        <5>1. call[s].pic \in UploadIds /\ call[s].size \in Sizes \cup {0} BY <2>2, <4>1, <4>3 DEF CallType
        <5>2. reserved \in [DOMAIN reserved -> Sizes \cup {0}] /\ DOMAIN reserved \subseteq UploadIds BY DEF StoresTyped
        <5>3. reserved' = With(reserved, call[s].pic, call[s].size) BY <3>1, <4>3
        <5> QED BY <5>1, <5>2, <5>3, WithTyped
      <4> QED BY <4>2, <4>3
    <3>3. CallsTyped' BY <3>1, EndKept
    <3>4. sessions' \subseteq UploadIds BY <2>2, <3>1 DEF StoresTyped, CallType
    <3> QED BY <2>3, <3>1, <3>2, <3>3, <3>4 DEF StoresTyped, sweeps, audit
  <2>5. CASE Granted(s, call[s].pic) /\ call[s].kind # "begin"
    <3>1. Moves(s, Cleared(call[s])) /\ UNCHANGED <<reserved, sessions, objects>> BY <2>5 DEF Granted
    <3>2. /\ Cleared(call[s]) \in {"snapshot", "bytes", "commit"}
          /\ Cleared(call[s]) = "commit" => call[s].kind = "complete"
          /\ Cleared(call[s]) = "snapshot" => call[s].snaps
          /\ Cleared(call[s]) = "bytes" => call[s].kind # "complete"
      BY DEF Cleared
    <3>3. InOrder([call[s] EXCEPT !.stage = Cleared(call[s])])
      <4>1. call[s].snaps => call[s].kind = "overwrite" BY <2>2 DEF InOrder
      <4> QED BY <2>2, <2>5, <3>2, <4>1 DEF InOrder, CallType, Checking
    <3>4. CallsTyped' BY <2>1, <3>1, <3>2, <3>3, StageKept, AtCall
    <3> QED BY <2>3, <3>1, <3>4 DEF StoresTyped, sweeps, audit
  <2>6. CASE Refused(s, call[s].pic)
    <3>1. objects' \in [DOMAIN objects' -> Sizes] /\ DOMAIN objects' \subseteq UploadIds
      BY <2>6, WithoutTyped DEF StoresTyped, Refused
    <3>2. CallsTyped' BY <2>6, EndKept DEF Refused
    <3> QED BY <2>3, <2>6, <3>1, <3>2 DEF StoresTyped, sweeps, audit, Refused
  <2> QED BY <2>1, <2>4, <2>5, <2>6
<1>10. CASE CopyBytes
  <2>1. PICK s \in Slots : At(s, "bytes")
            /\ \/ /\ call[s].kind = "copy" => call[s].source \in DOMAIN objects
                  /\ objects' = With(objects, call[s].pic,
                                     IF call[s].kind = "copy" THEN objects[call[s].source] ELSE call[s].size)
                  /\ Moves(s, "commit")
               \/ Ends(s) /\ UNCHANGED objects
    BY <1>10 DEF CopyBytes
  <2>2. call[s] \in CallType /\ InOrder(call[s]) BY <2>1, AtCall DEF CallsTyped
  <2>3. CallsTyped'
    <3>1. CASE Moves(s, "commit")
      BY <2>1, <2>2, <3>1, StageKept, AtCall DEF At, InOrder, CallType, Checking
    <3>2. CASE Ends(s) BY <3>2, EndKept
    <3> QED BY <2>1, <3>1, <3>2
  <2>4. objects' \in [DOMAIN objects' -> Sizes] /\ DOMAIN objects' \subseteq UploadIds
    <3> DEFINE size == IF call[s].kind = "copy" THEN objects[call[s].source] ELSE call[s].size
    <3>1. CASE (call[s].kind = "copy" => call[s].source \in DOMAIN objects) /\ objects' = With(objects, call[s].pic, size)
      <4>1. call[s].pic \in UploadIds BY <2>2 DEF CallType
      <4>2. objects \in [DOMAIN objects -> Sizes] /\ DOMAIN objects \subseteq UploadIds BY DEF StoresTyped
      <4>3. size \in Sizes BY <2>1, <2>2, <3>1, <4>2 DEF InOrder, Checking, At
      <4> QED BY <3>1, <4>1, <4>2, <4>3, WithTyped
    <3>2. CASE UNCHANGED objects BY <3>2 DEF StoresTyped
    <3> QED BY <2>1, <3>1, <3>2
  <2> QED BY <1>10, <2>3, <2>4 DEF CopyBytes, StoresTyped, cache, sweeps, audit
<1>11. CASE Commit
  <2>1. PICK s \in Slots : At(s, "commit")
            /\ \/ call[s].kind = "overwrite" /\ CommitSize(s, call[s].pic)
               \/ call[s].kind # "overwrite" /\ CommitRow(s, call[s].pic)
    BY <1>11 DEF Commit
  <2>2. call[s] \in CallType /\ InOrder(call[s]) BY <2>1, AtCall DEF CallsTyped
  <2> DEFINE size == IF call[s].size = Nothing THEN 0 ELSE call[s].size
             p == call[s].pic
  <2>3. size \in Sizes \cup {0} /\ size \in Nat /\ p \in UploadIds BY <2>2, QuotaAssumption DEF CallType
  <2>4. CallsTyped'
    <3>1. CASE Moves(s, "invalidate")
      BY <2>1, <2>2, <3>1, StageKept, AtCall DEF At, InOrder, CallType, Checking
    <3>2. CASE Ends(s) BY <3>2, EndKept
    <3> QED BY <2>1, <3>1, <3>2 DEF CommitSize, CommitRow
  <2> DEFINE Kept == /\ pictures' \in [DOMAIN pictures' -> RowType] /\ DOMAIN pictures' \subseteq UploadIds
                     /\ overlapped' \in BOOLEAN /\ unchecked' \in Nat
  <2>5. ASSUME UNCHANGED <<pictures, audit>> PROVE Kept BY <2>5 DEF StoresTyped, audit
  <2>6. ASSUME pictures' = With(pictures, p, NewRow(size)), Bills(s, size, size) PROVE Kept
    <3>1. NewRow(size) \in RowType BY <2>3 DEF NewRow, RowType
    <3>2. pictures \in [DOMAIN pictures -> RowType] /\ DOMAIN pictures \subseteq UploadIds BY DEF StoresTyped
    <3> HIDE DEF p, size
    <3>3. pictures' \in [DOMAIN pictures' -> RowType] /\ DOMAIN pictures' \subseteq UploadIds
      BY <2>3, <2>6, <3>1, <3>2, WithTyped
    <3>4. overlapped' \in BOOLEAN /\ unchecked' \in Nat BY <2>3, <2>6, BillsTyped
    <3> QED BY <3>3, <3>4
  <2>7. ASSUME call[s].kind = "overwrite", CommitSize(s, p), p \in DOMAIN pictures PROVE Kept
    <3> DEFINE row == [pictures[p] EXCEPT !.size = call[s].size]
    <3>1. pictures' = [pictures EXCEPT ![p] = row] BY <2>7 DEF CommitSize
    <3>2. pictures \in [DOMAIN pictures -> RowType] /\ call[s].size \in Sizes /\ call[s].old \in Sizes \cup {0}
      BY <2>2, <2>7 DEF StoresTyped, InOrder, CallType
    <3>3. row \in RowType BY <2>7, <3>2 DEF RowType
    <3>4. pictures[p].size \in Nat /\ call[s].size \in Nat /\ call[s].old \in Nat
      BY <2>7, <3>2, QuotaAssumption DEF RowType
    <3> HIDE DEF row
    <3>5. DOMAIN pictures' = DOMAIN pictures /\ pictures' \in [DOMAIN pictures' -> RowType]
      BY <2>7, <3>1, <3>2, <3>3, RowTyped
    <3>6. Bills(s, call[s].size - pictures[p].size, Beyond(call[s].size, call[s].old)) BY <2>7 DEF CommitSize
    <3>7. call[s].size - pictures[p].size \in Int /\ Beyond(call[s].size, call[s].old) \in Nat
      BY <3>4 DEF Beyond
    <3>8. overlapped' \in BOOLEAN /\ unchecked' \in Nat BY <3>6, <3>7, BillsTyped
    <3> QED BY <3>5, <3>8 DEF StoresTyped
  <2>8. Kept BY <2>1, <2>5, <2>6, <2>7 DEF CommitSize, CommitRow
  <2> QED BY <1>11, <2>4, <2>8 DEF Commit, StoresTyped, cache, sweeps
<1>12. CASE Invalidate
  <2>1. PICK s \in Slots : mirror' = Nothing /\ sessions' \subseteq sessions /\ Ends(s) BY <1>12 DEF Invalidate, SessionsLeft
  <2>2. CallsTyped' BY <2>1, EndKept
  <2> QED BY <1>12, <2>1, <2>2 DEF Invalidate, StoresTyped, store, sweeps, audit
<1>13. CASE CallDies
  <2>1. PICK s \in Slots : Ends(s) /\ overlapped' = (overlapped \/ Unannounced(call[s])) BY <1>13 DEF CallDies
  <2>2. CallsTyped' BY <2>1, EndKept
  <2>3. overlapped' \in BOOLEAN BY <2>1 DEF StoresTyped
  <2> QED BY <1>13, <2>2, <2>3 DEF CallDies, StoresTyped, store, cache, sweeps
<1>14. CASE Expires
  <2>1. CallsTyped' BY <1>14 DEF Expires, CallsTyped
  <2>2. reserved' \in [DOMAIN reserved' -> Sizes \cup {0}] /\ DOMAIN reserved' \subseteq UploadIds
    <3>1. reserved' = reserved \/ \E p : reserved' = Without(reserved, p) BY <1>14 DEF Expires
    <3>2. reserved \in [DOMAIN reserved -> Sizes \cup {0}] /\ DOMAIN reserved \subseteq UploadIds BY DEF StoresTyped
    <3>3. CASE reserved' = reserved BY <3>2, <3>3
    <3>4. ASSUME NEW p, reserved' = Without(reserved, p)
          PROVE  reserved' \in [DOMAIN reserved' -> Sizes \cup {0}] /\ DOMAIN reserved' \subseteq UploadIds
      BY <3>2, <3>4, WithoutTyped
    <3> QED BY <3>1, <3>3, <3>4
  <2>3. mirror' \in Nat \cup {Nothing} /\ sessions' \subseteq UploadIds BY <1>14 DEF Expires, StoresTyped
  <2> QED BY <1>14, <2>1, <2>2, <2>3 DEF Expires, StoresTyped, store, sweeps, audit
<1>15. CASE SetTrashed
  <2>1. CallsTyped' BY <1>15 DEF SetTrashed, CallsTyped
  <2>2. PICK p \in DOMAIN pictures : pictures' = [pictures EXCEPT ![p].trashed = ~@] BY <1>15 DEF SetTrashed
  <2> DEFINE row == [pictures[p] EXCEPT !.trashed = ~@]
  <2>3. pictures' = [pictures EXCEPT ![p] = row] BY <2>2
  <2>4. pictures \in [DOMAIN pictures -> RowType] BY DEF StoresTyped
  <2>5. row \in RowType BY <2>4 DEF RowType
  <2> HIDE DEF row
  <2>6. DOMAIN pictures' = DOMAIN pictures /\ pictures' \in [DOMAIN pictures' -> RowType]
    BY <2>3, <2>4, <2>5, RowTyped
  <2> QED BY <1>15, <2>1, <2>6 DEF SetTrashed, StoresTyped, cache, sweeps, audit
<1>16. CASE ListPurgeable BY <1>16 DEF ListPurgeable, StoresTyped, CallsTyped, store, cache, audit
<1>17. CASE PurgeRow
  <2>1. PICK p \in listed : pictures' = Without(pictures, p) /\ listed' = listed \ {p} /\ unlinked' = {p}
    BY <1>17 DEF PurgeRow
  <2>2. /\ pictures' \in [DOMAIN pictures' -> RowType]
        /\ DOMAIN pictures' \subseteq UploadIds
    BY <2>1, WithoutTyped DEF StoresTyped
  <2>3. CallsTyped' BY <1>17 DEF PurgeRow, CallsTyped
  <2> QED BY <1>17, <2>1, <2>2, <2>3 DEF PurgeRow, StoresTyped, cache, audit
<1>18. CASE PurgeObjects
  <2>1. objects' \in [DOMAIN objects' -> Sizes] /\ DOMAIN objects' \subseteq UploadIds
    <3>1. \E p : objects' = Without(objects, p) BY <1>18 DEF PurgeObjects
    <3>2. objects \in [DOMAIN objects -> Sizes] /\ DOMAIN objects \subseteq UploadIds BY DEF StoresTyped
    <3> QED BY <3>1, <3>2, WithoutTyped
  <2>2. CallsTyped' BY <1>18 DEF PurgeObjects, CallsTyped
  <2> QED BY <1>18, <2>1, <2>2 DEF PurgeObjects, StoresTyped, cache, audit
<1>19. CASE Recount
  BY <1>0, <1>19, BilledNat DEF Recount, StoresTyped, CallsTyped, store, cache, audit
<1>20. CASE CacheRecount BY <1>20 DEF CacheRecount, StoresTyped, CallsTyped, store, audit
<1>21. CASE PutNew
  <2>1. PICK s \in Slots, p \in Minted, size \in Sizes \ {0} :
            Serve(s, NewCall("put", p, Nothing, size, "check"))
    BY <1>21 DEF PutNew
  <2>2. CallsTyped' BY <2>1, CallsKept DEF Serve, NewCall, CallOf, CallType, InOrder, Minted, Checking
  <2>3. StoresTyped' BY <1>21 DEF PutNew, StoresTyped, store, cache, sweeps, audit
  <2> QED BY <2>2, <2>3
<1>22. CASE Overwrite
  <2>1. PICK s \in Slots, size \in Sizes \ {0}, snaps \in BOOLEAN, p \in DOMAIN pictures :
            Serve(s, Overwriting(p, size, snaps, "check")) \/ Serve(s, Overwriting(p, size, snaps, IF snaps THEN "snapshot" ELSE "bytes"))
    BY <1>22, OverwriteServes
  <2>2. p \in UploadIds /\ pictures[p].size \in Sizes \cup {0} BY DEF StoresTyped, RowType
  <2>3. /\ Overwriting(p, size, snaps, "check") \in CallType /\ InOrder(Overwriting(p, size, snaps, "check"))
        /\ \A st \in {"snapshot", "bytes"} : (st = "snapshot" => snaps) =>
              Overwriting(p, size, snaps, st) \in CallType /\ InOrder(Overwriting(p, size, snaps, st))
    BY <2>2 DEF Overwriting, CallOf, CallType, InOrder, Checking
  <2>8. CallsTyped' BY <2>1, <2>3, CallsKept DEF Serve
  <2>9. StoresTyped' BY <1>22 DEF Overwrite, StoresTyped, store, cache, sweeps, audit
  <2> QED BY <2>8, <2>9
<1>23. CASE CommitVersion
  <2>1. PICK s \in Slots : At(s, "snapshot")
            /\ LET p == call[s].pic IN
               \/ /\ p \in DOMAIN pictures /\ p \in DOMAIN objects
                  /\ pictures' = [pictures EXCEPT ![p].versions = @ + call[s].old]
                  /\ Bills(s, call[s].old, call[s].size)
                  /\ Moves(s, "bytes")
               \/ (Moves(s, "bytes") \/ Ends(s)) /\ UNCHANGED <<pictures, audit>>
    BY <1>23 DEF CommitVersion
  <2>2. call[s] \in CallType /\ InOrder(call[s]) BY <2>1, AtCall DEF CallsTyped
  <2>3. call[s].kind = "overwrite" BY <2>1, <2>2 DEF InOrder, At, Checking
  <2>4. CallsTyped'
    <3>1. CASE Moves(s, "bytes")
      BY <2>1, <2>2, <2>3, <3>1, StageKept, AtCall DEF InOrder, CallType, Checking
    <3>2. CASE Ends(s) BY <3>2, EndKept
    <3> QED BY <2>1, <3>1, <3>2
  <2> DEFINE p == call[s].pic
             Kept == /\ pictures' \in [DOMAIN pictures' -> RowType] /\ DOMAIN pictures' \subseteq UploadIds
                     /\ overlapped' \in BOOLEAN /\ unchecked' \in Nat
  <2>5. ASSUME UNCHANGED <<pictures, audit>> PROVE Kept BY <2>5 DEF StoresTyped, audit
  <2>6. ASSUME p \in DOMAIN pictures, pictures' = [pictures EXCEPT ![p].versions = @ + call[s].old],
               Bills(s, call[s].old, call[s].size)
        PROVE  Kept
    <3> DEFINE row == [pictures[p] EXCEPT !.versions = @ + call[s].old]
    <3>1. pictures' = [pictures EXCEPT ![p] = row] BY <2>6
    <3>2. pictures \in [DOMAIN pictures -> RowType] /\ call[s].size \in Nat /\ call[s].old \in Nat
      BY <2>2, <2>3, QuotaAssumption DEF StoresTyped, InOrder, CallType
    <3>3. row \in RowType BY <2>6, <3>2 DEF RowType
    <3> HIDE DEF row
    <3>4. DOMAIN pictures' = DOMAIN pictures /\ pictures' \in [DOMAIN pictures' -> RowType]
      BY <2>6, <3>1, <3>2, <3>3, RowTyped
    <3>5. overlapped' \in BOOLEAN /\ unchecked' \in Nat BY <2>6, <3>2, BillsTyped
    <3> QED BY <3>4, <3>5 DEF StoresTyped
  <2>7. Kept BY <2>1, <2>5, <2>6
  <2> QED BY <1>23, <2>4, <2>7 DEF CommitVersion, StoresTyped, cache, sweeps
<1>24. CASE WorkerSnapshots
  <2>1. CallsTyped' BY <1>24 DEF WorkerSnapshots, CallsTyped
  <2>2. PICK p \in DOMAIN pictures, size \in Sizes :
            /\ pictures' = [pictures EXCEPT ![p].versions = @ + size]
            /\ unchecked' = unchecked + size
    BY <1>24 DEF WorkerSnapshots
  <2> DEFINE row == [pictures[p] EXCEPT !.versions = @ + size]
  <2>3. pictures' = [pictures EXCEPT ![p] = row] BY <2>2
  <2>4. pictures \in [DOMAIN pictures -> RowType] /\ size \in Nat BY QuotaAssumption DEF StoresTyped
  <2>5. row \in RowType BY <2>4 DEF RowType
  <2> HIDE DEF row
  <2>6. DOMAIN pictures' = DOMAIN pictures /\ pictures' \in [DOMAIN pictures' -> RowType]
    BY <2>3, <2>4, <2>5, RowTyped
  <2>7. unchecked' \in Nat BY <2>2, <2>4 DEF StoresTyped
  <2> QED BY <1>24, <2>1, <2>6, <2>7 DEF WorkerSnapshots, StoresTyped, cache, sweeps
<1>25. CASE WorkerReports
  <2>1. CallsTyped' BY <1>25 DEF WorkerReports, CallsTyped
  <2>2. PICK p \in DOMAIN pictures, size \in Sizes :
            /\ pictures' = [pictures EXCEPT ![p].size = size]
            /\ unchecked' = unchecked + Beyond(size, pictures[p].size)
    BY <1>25 DEF WorkerReports
  <2> DEFINE row == [pictures[p] EXCEPT !.size = size]
  <2>3. pictures' = [pictures EXCEPT ![p] = row] BY <2>2
  <2>4. pictures \in [DOMAIN pictures -> RowType] /\ size \in Nat BY QuotaAssumption DEF StoresTyped
  <2>5. row \in RowType /\ pictures[p].size \in Nat BY <2>4, QuotaAssumption DEF RowType
  <2> HIDE DEF row
  <2>6. DOMAIN pictures' = DOMAIN pictures /\ pictures' \in [DOMAIN pictures' -> RowType]
    BY <2>3, <2>4, <2>5, RowTyped
  <2>7. Beyond(size, pictures[p].size) \in Nat BY <2>4, <2>5 DEF Beyond
  <2>8. unchecked' \in Nat BY <2>2, <2>7 DEF StoresTyped
  <2> QED BY <1>25, <2>1, <2>6, <2>8 DEF WorkerReports, StoresTyped, cache, sweeps
<1>26. CASE UNCHANGED uploadVars
  BY <1>26 DEF uploadVars, StoresTyped, CallsTyped, store, cache, sweeps, audit
<1> QED BY <1>1, <1>2, <1>3, <1>4, <1>5, <1>6, <1>7, <1>8, <1>9, <1>10, <1>11, <1>12, <1>13, <1>14,
           <1>15, <1>16, <1>17, <1>18, <1>19, <1>20, <1>21, <1>22, <1>23, <1>24, <1>25, <1>26 DEF UploadsNext

(* Types: rows, objects, cache entries and requests keep their types, over every interleaving. *)
THEOREM TypesHold == UploadsSpec => []UploadsTypeOK
BY InitTypes, TypesKept, PTL DEF UploadsSpec

----------------------------------------------------------------------------
(* The file behind every row *)

(* an upload or a copy that has its original in place, and is to keep it there *)
Placed(c) ==
    /\ c.kind # "overwrite"
    /\ \/ c.stage \in {"clear", "commit", "invalidate"}
       \/ c.kind = "complete" /\ c.stage \in Checking

(* two requests are about one picture only when both complete it, or one writes over it *)
Apart ==
    \A s, t \in Slots :
        s # t /\ call[s] # Free /\ call[t] # Free /\ call[s].pic = call[t].pic =>
            \/ call[s].kind = "overwrite" \/ call[t].kind = "overwrite"
            \/ call[s].kind = "complete" /\ call[t].kind = "complete" /\ call[s].pic \in shared

(* what begins, copies or brings a file has an id of its own *)
Fresh ==
    \A s \in Slots :
        call[s].kind \in {"begin", "copy", "put"} =>
            /\ call[s].pic \notin sessions
            /\ call[s].stage # "invalidate" => call[s].pic \notin DOMAIN pictures

PlacedHasFile == \A s \in Slots : Placed(call[s]) => call[s].pic \in DOMAIN objects \cup shared

(* a completion of a picture that has its row came second *)
SecondIsShared ==
    \A s \in Slots :
        /\ call[s].kind = "complete" /\ call[s].stage # "invalidate" /\ call[s].pic \in DOMAIN pictures
        => call[s].pic \in shared

(* of a picture the purge is about, nobody is about to make a row: only overwrites are about it *)
LeftAlone(p) == p \notin sessions /\ \A s \in Slots : call[s].pic = p => call[s].kind = "overwrite"
PurgeIsAlone ==
    /\ \A p \in listed : p \in DOMAIN pictures /\ LeftAlone(p)
    /\ \A p \in unlinked : p \notin DOMAIN pictures /\ LeftAlone(p)

Files == FileBehindEveryRow /\ PlacedHasFile /\ Apart /\ Fresh /\ SecondIsShared /\ PurgeIsAlone
FileInv == UploadsTypeOK /\ Files

(* what a move, an end and a new request do to the slots *)
Others(s) == \A t \in Slots : t # s => call'[t] = call[t]

LEMMA MovesFacts ==
    ASSUME UploadsTypeOK, NEW s \in Slots, NEW st, call[s] # Free, Moves(s, st)
    PROVE  /\ Others(s) /\ call'[s].stage = st /\ call'[s] # Free
           /\ call'[s].kind = call[s].kind /\ call'[s].pic = call[s].pic
           /\ call'[s].size = call[s].size /\ call'[s].total = call[s].total
           /\ call'[s].old = call[s].old /\ call'[s].snaps = call[s].snaps
<1>1. call[s] \in CallType BY DEF UploadsTypeOK
<1>2. call' = [call EXCEPT ![s].stage = st] /\ call \in [Slots -> CallType \cup {Free}] BY DEF Moves, UploadsTypeOK
<1>3. call'[s] = [call[s] EXCEPT !.stage = st] BY <1>2
<1>4. call'[s].kind \in {"begin", "complete", "copy", "put", "overwrite"} BY <1>1, <1>3 DEF CallType
<1>5. call'[s] # Free BY <1>4 DEF Free, NewCall, CallOf
<1> QED BY <1>1, <1>2, <1>3, <1>5 DEF Others, CallType

LEMMA EndsFacts ==
    ASSUME UploadsTypeOK, NEW s \in Slots, Ends(s)
    PROVE  Others(s) /\ call'[s] = Free
BY DEF Ends, UploadsTypeOK, Others

LEMMA ServeFacts ==
    ASSUME UploadsTypeOK, NEW s \in Slots, NEW c, Serve(s, c)
    PROVE  Others(s) /\ call'[s] = c /\ call[s] = Free
BY DEF Serve, UploadsTypeOK, Others

LEMMA FreeFacts == Free.kind = "free" /\ Free.stage = "none" /\ Free.pic = Nothing /\ Free.size = Nothing
BY DEF Free, NewCall, CallOf

LEMMA TypedCall ==
    ASSUME UploadsTypeOK, NEW s \in Slots, call[s] # Free
    PROVE  call[s] \in CallType /\ InOrder(call[s])
BY DEF UploadsTypeOK

(* Nearly every step leaves the rows, the ids of requests and the sweep as they are, loses no  *)
(* object, and lets a request end or go on, or overwrite a picture.                          *)
LEMMA Onward ==
    ASSUME FileInv, DOMAIN pictures' = DOMAIN pictures, DOMAIN objects \subseteq DOMAIN objects',
           sessions' \subseteq sessions, shared' = shared, listed' = listed, unlinked' = unlinked,
           \A s \in Slots :
              \/ call'[s] = call[s]
              \/ call'[s] = Free
              \/ call'[s].kind = "overwrite"
              \/ /\ call[s] # Free /\ call'[s].kind = call[s].kind /\ call'[s].pic = call[s].pic
                 /\ call[s].stage # "invalidate"
                 /\ Placed(call'[s]) => Placed(call[s]) \/ call[s].pic \in DOMAIN objects'
    PROVE  Files'
<1> USE FreeFacts DEF FileInv, Files
<1>1. Nothing \notin UploadIds BY QuotaAssumption DEF Nothing
<1>2. listed \cup unlinked \subseteq UploadIds BY DEF UploadsTypeOK
<1>3. FileBehindEveryRow' BY DEF FileBehindEveryRow
<1>4. PlacedHasFile'
  BY DEF PlacedHasFile, Placed, Checking
<1>5. Apart' BY DEF Apart
<1>6. Fresh' BY DEF Fresh
<1>7. SecondIsShared' BY DEF SecondIsShared
<1>8. PurgeIsAlone' BY <1>1, <1>2 DEF PurgeIsAlone, LeftAlone
<1> QED BY <1>3, <1>4, <1>5, <1>6, <1>7, <1>8

(* A step of one request that moves on or ends, and touches no row. *)
LEMMA OneOnward ==
    ASSUME FileInv, NEW s \in Slots, call[s] # Free, call[s].stage # "invalidate",
           NEW st, Moves(s, st), Placed([call[s] EXCEPT !.stage = st]) => Placed(call[s]) \/ call[s].pic \in DOMAIN objects',
           DOMAIN pictures' = DOMAIN pictures, DOMAIN objects \subseteq DOMAIN objects',
           sessions' \subseteq sessions, shared' = shared, listed' = listed, unlinked' = unlinked
    PROVE  Files'
<1>1. UploadsTypeOK BY DEF FileInv
<1>2. /\ Others(s) /\ call'[s].stage = st /\ call'[s].kind = call[s].kind /\ call'[s].pic = call[s].pic
  BY <1>1, MovesFacts
<1>3. call'[s] = [call[s] EXCEPT !.stage = st] BY <1>1 DEF Moves, UploadsTypeOK
<1> QED BY <1>2, <1>3, Onward DEF Others

LEMMA OneEnds ==
    ASSUME FileInv, NEW s \in Slots, Ends(s),
           DOMAIN pictures' = DOMAIN pictures, DOMAIN objects \subseteq DOMAIN objects',
           sessions' \subseteq sessions, shared' = shared, listed' = listed, unlinked' = unlinked
    PROVE  Files'
<1>1. Others(s) /\ call'[s] = Free BY EndsFacts DEF FileInv
<1> QED BY <1>1, Onward DEF Others

(* A step of an overwrite that touches no row and no object. *)
LEMMA OverwritesOn ==
    ASSUME FileInv, NEW s \in Slots, Others(s), call'[s].kind = "overwrite",
           DOMAIN pictures' = DOMAIN pictures, DOMAIN objects \subseteq DOMAIN objects',
           sessions' \subseteq sessions, shared' = shared, listed' = listed, unlinked' = unlinked
    PROVE  Files'
BY Onward DEF Others

(* A new request about an id of its own. *)
LEMMA NewIdServed ==
    ASSUME FileInv, NEW s \in Slots, NEW p \in Minted, NEW c, c.kind \in {"begin", "copy", "put"}, c.pic = p, c.stage = "check",
           Serve(s, c), UNCHANGED <<store, cache, sweeps, shared>>
    PROVE  Files'
<1>1. Others(s) /\ call'[s] = c /\ call[s] = Free BY ServeFacts DEF FileInv
<1>2. /\ p \notin DOMAIN pictures /\ p \notin sessions /\ p \notin unlinked
      /\ \A t \in Slots : call[t] # Free => call[t].pic # p
  BY DEF Minted, InUse
<1>3. p \notin listed BY <1>2 DEF FileInv, Files, PurgeIsAlone
<1>10. \A q \in listed \cup unlinked : q # p BY <1>2, <1>3
<1> USE <1>1, <1>2, FreeFacts DEF FileInv, Files, store, cache, sweeps, Others
<1>4. FileBehindEveryRow' BY DEF FileBehindEveryRow
<1>5. PlacedHasFile' BY DEF PlacedHasFile, Placed, Checking
<1>6. Apart' BY DEF Apart
<1>7. Fresh' BY DEF Fresh
<1>8. SecondIsShared' BY DEF SecondIsShared
<1>9. PurgeIsAlone' BY <1>10 DEF PurgeIsAlone, LeftAlone
<1> QED BY <1>4, <1>5, <1>6, <1>7, <1>8, <1>9

LEMMA FilesInit == UploadsInit => Files
<1> SUFFICES ASSUME UploadsInit PROVE Files
  OBVIOUS
<1>1. \A s \in Slots : call[s] = Free BY DEF UploadsInit
<1>2. DOMAIN pictures = DOMAIN objects BY DEF UploadsInit
<1> QED BY <1>1, <1>2, FreeFacts DEF UploadsInit, Files, FileBehindEveryRow, PlacedHasFile, Placed, Apart, Fresh,
        SecondIsShared, PurgeIsAlone

LEMMA FilesKept == FileInv /\ [UploadsNext]_uploadVars => Files'
<1> SUFFICES ASSUME FileInv, [UploadsNext]_uploadVars PROVE Files'
  OBVIOUS
<1>0. UploadsTypeOK BY DEF FileInv
<1>1. CASE Begin
  BY <1>1, NewIdServed DEF Begin, NewCall, CallOf
<1>2. CASE Put BY <1>2, Onward DEF Put, cache, sweeps
<1>3. CASE Complete
  <2>1. PICK s \in Slots, p \in sessions :
            /\ Serve(s, NewCall("complete", p, Nothing, Nothing, "promote"))
            /\ LET again == p \in DOMAIN pictures \/ \E t \in Slots : call[t].kind = "complete" /\ call[t].pic = p
               IN  shared' = IF again THEN shared \cup {p} ELSE shared
    BY <1>3 DEF Complete
  <2> DEFINE c == NewCall("complete", p, Nothing, Nothing, "promote")
  <2>2. Others(s) /\ call'[s] = c /\ call[s] = Free BY <2>1, <1>0, ServeFacts
  <2>3. c.kind = "complete" /\ c.pic = p /\ c.stage = "promote" BY DEF NewCall, CallOf
  <2>4. p \notin listed /\ p \notin unlinked BY DEF FileInv, Files, PurgeIsAlone, LeftAlone
  <2>5. shared \subseteq shared' BY <2>1
  <2>6. UNCHANGED <<store, cache, sweeps>> BY <1>3 DEF Complete
  <2> HIDE DEF c
  <2> USE <2>2, <2>3, <2>5, <2>6, FreeFacts DEF FileInv, Files, store, cache, sweeps, Others
  <2>7. FileBehindEveryRow' BY DEF FileBehindEveryRow
  <2>8. PlacedHasFile' BY DEF PlacedHasFile, Placed, Checking
  <2>9. Apart'
    <3>1. \A t \in Slots : t # s /\ call[t] # Free /\ call[t].pic = p => call[t].kind \in {"complete", "overwrite"}
      BY <1>0, TypedCall DEF Fresh, CallType
    <3>2. \A t \in Slots : t # s /\ call[t] # Free /\ call[t].pic = p => call[t].kind = "overwrite" \/ p \in shared'
      BY <2>1, <3>1
    <3> QED BY <3>1, <3>2 DEF Apart
  <2>10. Fresh' BY DEF Fresh
  <2>11. SecondIsShared' BY <2>1 DEF SecondIsShared
  <2>12. PurgeIsAlone' BY <2>4 DEF PurgeIsAlone, LeftAlone
  <2> QED BY <2>7, <2>8, <2>9, <2>10, <2>11, <2>12
<1>4. CASE Promote
  <2>1. PICK s \in Slots : At(s, "promote")
            /\ \/ objects' = With(objects, call[s].pic, staged[call[s].pic]) /\ Moves(s, "clear")
               \/ Ends(s) /\ UNCHANGED objects
    BY <1>4 DEF Promote
  <2>2. call[s] # Free /\ call[s].stage # "invalidate" BY <2>1, AtCall DEF At
  <2>3. CASE objects' = With(objects, call[s].pic, staged[call[s].pic]) /\ Moves(s, "clear")
    <3>1. DOMAIN objects' = DOMAIN objects \cup {call[s].pic} BY <2>3 DEF With
    <3> QED BY <1>4, <2>2, <2>3, <3>1, OneOnward DEF Promote, cache, sweeps
  <2>4. CASE Ends(s) /\ UNCHANGED objects BY <1>4, <2>4, OneEnds DEF Promote, cache, sweeps
  <2> QED BY <2>1, <2>3, <2>4
<1>5. CASE Clear
  <2>1. PICK s, size : s \in Slots /\ At(s, "clear")
            /\ call' = [call EXCEPT ![s].size = size, ![s].stage = IF size = Nothing THEN "commit" ELSE "check"]
    <3>1. PICK u \in Slots, told \in Sizes \cup {Nothing}, fails \in BOOLEAN : At(u, "clear")
            /\ Hears(u, call[u].pic, IF call[u].pic \in DOMAIN objects /\ ~fails THEN objects[call[u].pic] ELSE told)
      BY <1>5 DEF Clear
    <3> QED BY <3>1 DEF Hears
  <2>2. call[s] \in CallType /\ InOrder(call[s]) /\ call[s] # Free BY <2>1, <1>0, AtCall, TypedCall
  <2>3. /\ Others(s) /\ call'[s].kind = call[s].kind /\ call'[s].pic = call[s].pic
    BY <2>1, <2>2, <1>0 DEF UploadsTypeOK, CallType, Others
  <2>4. Placed(call[s]) \/ call[s].kind = "overwrite" BY <2>1 DEF At, Placed
  <2>5. call[s].stage # "invalidate" BY <2>1 DEF At
  <2> QED BY <1>5, <2>5, <2>2, <2>3, <2>4, Onward DEF Clear, Others, sweeps
<1>6. CASE Copy BY <1>6, NewIdServed DEF Copy, NewCall, CallOf
<1>7. CASE ReadTotal
  <2>1. PICK s, total, st : s \in Slots /\ At(s, "check") /\ st \in {"fill", "decide"}
            /\ call' = [call EXCEPT ![s].total = total, ![s].stage = st]
    BY <1>7 DEF ReadTotal
  <2>2. call[s] \in CallType /\ call[s] # Free BY <2>1, <1>0, AtCall, TypedCall
  <2>3. /\ Others(s) /\ call'[s].kind = call[s].kind /\ call'[s].pic = call[s].pic /\ call'[s].stage = st
    BY <2>1, <2>2, <1>0 DEF UploadsTypeOK, CallType, Others
  <2>4. Placed(call'[s]) => Placed(call[s]) BY <2>1, <2>3 DEF At, Placed, Checking
  <2>5. call[s].stage # "invalidate" BY <2>1 DEF At
  <2> QED BY <1>7, <2>2, <2>3, <2>4, <2>5, Onward DEF ReadTotal, Others, store, cache, sweeps
<1>8. CASE FillMirror
  <2>1. PICK s \in Slots : At(s, "fill") /\ Moves(s, "decide") BY <1>8 DEF FillMirror
  <2>2. call[s] \in CallType /\ call[s] # Free /\ call[s].stage # "invalidate" BY <2>1, <1>0, AtCall, TypedCall DEF At
  <2>3. Placed([call[s] EXCEPT !.stage = "decide"]) => Placed(call[s])
    BY <2>1, <2>2 DEF At, Placed, Checking, CallType
  <2> QED BY <1>8, <2>1, <2>2, <2>3, OneOnward DEF FillMirror, store, sweeps
<1>9. CASE Decide
  <2>1. PICK s \in Slots : At(s, "decide") /\ (Granted(s, call[s].pic) \/ Refused(s, call[s].pic))
    BY <1>9 DEF Decide
  <2>2. call[s] \in CallType /\ InOrder(call[s]) /\ call[s] # Free BY <2>1, <1>0, AtCall, TypedCall
  <2> DEFINE p == call[s].pic
  <2>3. UNCHANGED <<pictures, staged, mirror, sweeps, shared, audit, limits>> BY <1>9 DEF Decide
  <2>4. CASE Granted(s, p) /\ call[s].kind = "begin"
    <3>1. Ends(s) /\ UNCHANGED objects /\ sessions' = sessions \cup {p} BY <2>4 DEF Granted
    <3>2. Others(s) /\ call'[s] = Free BY <1>0, <3>1, EndsFacts
    <3>3. /\ p \notin DOMAIN pictures /\ p \notin listed /\ p \notin unlinked
          /\ \A t \in Slots : t # s /\ call[t] # Free /\ call[t].pic = p => call[t].kind = "overwrite"
      BY <2>1, <2>2, <2>4 DEF FileInv, Files, Fresh, PurgeIsAlone, LeftAlone, Apart, At
    <3> USE <2>3, <3>1, <3>2, <3>3, FreeFacts DEF FileInv, Files, sweeps, Others
    <3>4. FileBehindEveryRow' BY DEF FileBehindEveryRow
    <3>5. PlacedHasFile' BY DEF PlacedHasFile, Placed, Checking
    <3>6. Apart' BY DEF Apart
    <3>7. Fresh' BY DEF Fresh
    <3>8. SecondIsShared' BY DEF SecondIsShared
    <3>9. PurgeIsAlone'
      <4>1. Nothing \notin UploadIds BY QuotaAssumption DEF Nothing
      <4>2. listed \cup unlinked \subseteq UploadIds BY DEF UploadsTypeOK
      <4> QED BY <4>1, <4>2 DEF PurgeIsAlone, LeftAlone
    <3> QED BY <3>4, <3>5, <3>6, <3>7, <3>8, <3>9
  <2>5. CASE Granted(s, p) /\ call[s].kind \in {"copy", "put"}
    <3>1. Cleared(call[s]) = "bytes" BY <2>2, <2>5 DEF Cleared, InOrder
    <3>2. Moves(s, "bytes") /\ UNCHANGED <<sessions, objects>> BY <2>5, <3>1 DEF Granted
    <3>3. ~Placed([call[s] EXCEPT !.stage = "bytes"]) BY <2>2, <2>5 DEF Placed, CallType, Checking
    <3>4. call[s].stage # "invalidate" BY <2>1 DEF At
    <3> QED BY <2>2, <2>3, <3>2, <3>3, <3>4, OneOnward DEF sweeps
  <2>6. CASE Granted(s, p) /\ call[s].kind = "complete"
    <3>1. Cleared(call[s]) = "commit" BY <2>2, <2>6 DEF Cleared, InOrder
    <3>2. Moves(s, "commit") /\ UNCHANGED <<sessions, objects>> BY <2>6, <3>1 DEF Granted
    <3>3. Placed(call[s]) /\ call[s].stage # "invalidate" BY <2>1, <2>6 DEF Placed, At, Checking
    <3> QED BY <2>2, <2>3, <3>2, <3>3, OneOnward DEF sweeps
  <2>9. CASE Granted(s, p) /\ call[s].kind = "overwrite"
    <3>1. Moves(s, Cleared(call[s])) /\ UNCHANGED <<sessions, objects>> BY <2>9 DEF Granted
    <3>2. Others(s) /\ call'[s].kind = "overwrite" BY <1>0, <2>2, <2>9, <3>1, MovesFacts
    <3> QED BY <2>3, <3>1, <3>2, OverwritesOn DEF sweeps
  <2>7. CASE Refused(s, p) /\ call[s].kind # "complete"
    BY <2>3, <2>7, OneEnds DEF Refused, sweeps
  <2>8. CASE Refused(s, p) /\ call[s].kind = "complete"
    <3>1. objects' = Without(objects, p) /\ Ends(s) /\ UNCHANGED sessions BY <2>8 DEF Refused
    <3>2. Others(s) /\ call'[s] = Free BY <1>0, <3>1, EndsFacts
    <3>3. DOMAIN objects' = DOMAIN objects \ {p} BY <3>1, WithoutFacts
    <3>4. p \in DOMAIN pictures => p \in shared
      BY <2>1, <2>8 DEF FileInv, Files, SecondIsShared, At
    <3>5. \A t \in Slots : t # s /\ call[t] # Free /\ call[t].pic = p => call[t].kind = "overwrite" \/ p \in shared
      BY <2>2, <2>8 DEF FileInv, Files, Apart
    <3> USE <2>3, <3>1, <3>2, <3>3, FreeFacts DEF FileInv, Files, sweeps, Others
    <3>6. FileBehindEveryRow' BY <3>4 DEF FileBehindEveryRow
    <3>7. PlacedHasFile' BY <3>5 DEF PlacedHasFile, Placed, Checking
    <3>8. Apart' BY DEF Apart
    <3>9. Fresh' BY DEF Fresh
    <3>10. SecondIsShared' BY DEF SecondIsShared
    <3>11. PurgeIsAlone'
      <4>1. Nothing \notin UploadIds BY QuotaAssumption DEF Nothing
      <4>2. listed \cup unlinked \subseteq UploadIds BY DEF UploadsTypeOK
      <4> QED BY <4>1, <4>2 DEF PurgeIsAlone, LeftAlone
    <3> QED BY <3>6, <3>7, <3>8, <3>9, <3>10, <3>11
  <2> QED BY <2>1, <2>2, <2>4, <2>5, <2>6, <2>7, <2>8, <2>9 DEF CallType
<1>10. CASE CopyBytes
  <2>1. PICK s \in Slots : At(s, "bytes")
            /\ \/ (\E size : objects' = With(objects, call[s].pic, size)) /\ Moves(s, "commit")
               \/ Ends(s) /\ UNCHANGED objects
    BY <1>10 DEF CopyBytes
  <2>2. call[s] # Free /\ call[s].stage # "invalidate" BY <2>1, AtCall DEF At
  <2>3. CASE (\E size : objects' = With(objects, call[s].pic, size)) /\ Moves(s, "commit")
    <3>1. DOMAIN objects' = DOMAIN objects \cup {call[s].pic} BY <2>3 DEF With
    <3> QED BY <1>10, <2>2, <2>3, <3>1, OneOnward DEF CopyBytes, cache, sweeps
  <2>4. CASE Ends(s) /\ UNCHANGED objects BY <1>10, <2>4, OneEnds DEF CopyBytes, cache, sweeps
  <2> QED BY <2>1, <2>3, <2>4
<1>11. CASE Commit
  <2>1. PICK s, row : s \in Slots /\ At(s, "commit")
            /\ \/ Ends(s) /\ UNCHANGED pictures
               \/ call[s].kind = "overwrite" /\ CommitSize(s, call[s].pic)
               \/ /\ pictures' = With(pictures, call[s].pic, row) /\ Moves(s, "invalidate")
                  /\ call[s].pic \notin DOMAIN pictures /\ call[s].kind # "overwrite"
    BY <1>11 DEF Commit, CommitRow
  <2>2. call[s] \in CallType /\ InOrder(call[s]) /\ call[s] # Free BY <2>1, <1>0, AtCall, TypedCall
  <2> DEFINE p == call[s].pic
  <2>3. CASE Ends(s) /\ UNCHANGED pictures BY <1>11, <2>1, <2>3, OneEnds DEF Commit, cache, sweeps
  <2>5. CASE call[s].kind = "overwrite" /\ CommitSize(s, p)
    <3>1. DOMAIN pictures' = DOMAIN pictures BY <2>5 DEF CommitSize
    <3>2. Moves(s, "invalidate") BY <2>5 DEF CommitSize
    <3>3. Others(s) /\ call'[s].kind = "overwrite" BY <1>0, <2>1, <2>2, <2>5, <3>2, MovesFacts
    <3> QED BY <1>11, <2>1, <3>1, <3>3, OverwritesOn DEF Commit, cache, sweeps
  <2>4. CASE pictures' = With(pictures, p, row) /\ Moves(s, "invalidate") /\ p \notin DOMAIN pictures
             /\ call[s].kind # "overwrite"
    <3>1. DOMAIN pictures' = DOMAIN pictures \cup {p} BY <2>4 DEF With
    <3>2. /\ Others(s) /\ call'[s].stage = "invalidate" /\ call'[s] # Free
          /\ call'[s].kind = call[s].kind /\ call'[s].pic = p
      BY <1>0, <2>1, <2>2, <2>4, MovesFacts
    <3>3. UNCHANGED <<objects, staged, cache, sweeps, shared>> BY <1>11 DEF Commit
    <3>4. Placed(call[s]) BY <2>1, <2>4 DEF At, Placed
    <3>5. p \in DOMAIN objects \cup shared BY <2>1, <3>4 DEF FileInv, Files, PlacedHasFile
    <3>6. \A t \in Slots : t # s /\ call[t] # Free /\ call[t].pic = p =>
             call[t].kind = "overwrite" \/ (call[s].kind = "complete" /\ call[t].kind = "complete" /\ p \in shared)
      BY <2>1, <2>2, <2>4 DEF FileInv, Files, Apart
    <3>7. p \notin listed /\ p \notin unlinked
      BY <2>1, <2>4 DEF FileInv, Files, PurgeIsAlone, LeftAlone
    <3> USE <3>1, <3>2, <3>3, FreeFacts DEF FileInv, Files, cache, sweeps, Others
    <3>8. FileBehindEveryRow' BY <3>5 DEF FileBehindEveryRow
    <3>9. PlacedHasFile' BY <3>5 DEF PlacedHasFile, Placed, Checking
    <3>10. Apart' BY <2>2, <3>6 DEF Apart
    <3>11. Fresh' BY <3>6, <1>0, TypedCall DEF Fresh, CallType
    <3>12. SecondIsShared' BY <3>6, <1>0, TypedCall DEF SecondIsShared, CallType
    <3>13. PurgeIsAlone' BY <3>7 DEF PurgeIsAlone, LeftAlone
    <3> QED BY <3>8, <3>9, <3>10, <3>11, <3>12, <3>13
  <2> QED BY <2>1, <2>3, <2>4, <2>5
<1>12. CASE Invalidate
  BY <1>12, OneEnds DEF Invalidate, SessionsLeft, store, sweeps
<1>13. CASE CallDies BY <1>13, OneEnds DEF CallDies, store, cache, sweeps
<1>14. CASE Expires BY <1>14, Onward DEF Expires, store, sweeps
<1>15. CASE SetTrashed BY <1>15, Onward DEF SetTrashed, cache, sweeps
<1>16. CASE ListPurgeable
  <2> USE <1>16 DEF ListPurgeable, FileInv, Files, store, cache
  <2>1. FileBehindEveryRow' BY DEF FileBehindEveryRow
  <2>2. PlacedHasFile' BY DEF PlacedHasFile
  <2>3. Apart' BY DEF Apart
  <2>4. Fresh' BY DEF Fresh
  <2>5. SecondIsShared' BY DEF SecondIsShared
  <2>6. PurgeIsAlone' BY DEF PurgeIsAlone, LeftAlone, Retained
  <2> QED BY <2>1, <2>2, <2>3, <2>4, <2>5, <2>6
<1>17. CASE PurgeRow
  <2>1. PICK p \in listed : pictures' = Without(pictures, p) /\ listed' = listed \ {p} /\ unlinked' = {p}
    BY <1>17 DEF PurgeRow
  <2>2. DOMAIN pictures' = DOMAIN pictures \ {p} BY <2>1, WithoutFacts
  <2>3. UNCHANGED <<objects, staged, cache, call, shared>> BY <1>17 DEF PurgeRow
  <2> USE <2>2, <2>3 DEF FileInv, Files, cache
  <2>4. FileBehindEveryRow' BY DEF FileBehindEveryRow
  <2>5. PlacedHasFile' BY DEF PlacedHasFile
  <2>6. Apart' BY DEF Apart
  <2>7. Fresh' BY DEF Fresh
  <2>8. SecondIsShared' BY DEF SecondIsShared
  <2>9. PurgeIsAlone' BY <2>1 DEF PurgeIsAlone, LeftAlone
  <2> QED BY <2>4, <2>5, <2>6, <2>7, <2>8, <2>9
<1>18. CASE PurgeObjects
  <2>1. PICK p \in unlinked : objects' = Without(objects, p) /\ unlinked' = {} BY <1>18 DEF PurgeObjects
  <2>2. DOMAIN objects' = DOMAIN objects \ {p} BY <2>1, WithoutFacts
  <2>3. p \notin DOMAIN pictures /\ \A s \in Slots : call[s].pic = p => call[s].kind = "overwrite"
    BY DEF FileInv, Files, PurgeIsAlone, LeftAlone
  <2>4. UNCHANGED <<pictures, staged, cache, call, listed, shared>> BY <1>18 DEF PurgeObjects
  <2> USE <2>2, <2>3, <2>4 DEF FileInv, Files, cache
  <2>5. FileBehindEveryRow' BY DEF FileBehindEveryRow
  <2>6. PlacedHasFile' BY DEF PlacedHasFile, Placed
  <2>7. Apart' BY DEF Apart
  <2>8. Fresh' BY DEF Fresh
  <2>9. SecondIsShared' BY DEF SecondIsShared
  <2>10. PurgeIsAlone' BY <2>1 DEF PurgeIsAlone, LeftAlone
  <2> QED BY <2>5, <2>6, <2>7, <2>8, <2>9, <2>10
<1>19. CASE Recount BY <1>19, Onward DEF Recount, store, cache
<1>20. CASE CacheRecount BY <1>20, Onward DEF CacheRecount, store
<1>21. CASE PutNew BY <1>21, NewIdServed DEF PutNew, NewCall, CallOf
<1>22. CASE Overwrite
  <2>1. PICK s, c : s \in Slots /\ Serve(s, c) /\ c.kind = "overwrite"
    <3>1. \A p, size, snaps, st : Overwriting(p, size, snaps, st).kind = "overwrite" BY DEF Overwriting, CallOf
    <3> QED BY <1>22, <3>1, OverwriteServes
  <2>2. Others(s) /\ call'[s].kind = "overwrite" BY <1>0, <2>1, ServeFacts
  <2> QED BY <1>22, <2>1, <2>2, OverwritesOn DEF Overwrite, store, cache, sweeps
<1>23. CASE CommitVersion
  <2>1. PICK s \in Slots : At(s, "snapshot") /\ (Moves(s, "bytes") \/ Ends(s)) BY <1>23 DEF CommitVersion
  <2>2. DOMAIN pictures' = DOMAIN pictures BY <1>23 DEF CommitVersion
  <2>3. call[s] \in CallType /\ InOrder(call[s]) /\ call[s] # Free BY <2>1, <1>0, AtCall, TypedCall
  <2>4. call[s].kind = "overwrite" BY <2>1, <2>3 DEF InOrder, At, Checking
  <2>5. CASE Moves(s, "bytes")
    <3>1. Others(s) /\ call'[s].kind = "overwrite" BY <1>0, <2>3, <2>4, <2>5, MovesFacts
    <3> QED BY <1>23, <2>1, <2>2, <3>1, OverwritesOn DEF CommitVersion, cache, sweeps
  <2>6. CASE Ends(s) BY <1>23, <2>1, <2>2, <2>6, OneEnds DEF CommitVersion, cache, sweeps
  <2> QED BY <2>1, <2>5, <2>6
<1>24. CASE WorkerSnapshots BY <1>24, Onward DEF WorkerSnapshots, cache, sweeps
<1>25. CASE WorkerReports BY <1>25, Onward DEF WorkerReports, cache, sweeps
<1>26. CASE UNCHANGED uploadVars BY <1>26, Onward DEF uploadVars, store, cache, sweeps
<1> QED BY <1>1, <1>2, <1>3, <1>4, <1>5, <1>6, <1>7, <1>8, <1>9, <1>10, <1>11, <1>12, <1>13, <1>14,
           <1>15, <1>16, <1>17, <1>18, <1>19, <1>20, <1>21, <1>22, <1>23, <1>24, <1>25, <1>26 DEF UploadsNext

(* Every picture row has its original, over every interleaving of requests, purges and crashes, *)
(* but for an upload that a second request completed.                                          *)
THEOREM FilesHold == UploadsSpec => []FileBehindEveryRow
<1>1. UploadsInit => FileInv BY InitTypes, FilesInit DEF FileInv
<1>2. FileInv /\ [UploadsNext]_uploadVars => FileInv' BY TypesKept, FilesKept DEF FileInv
<1>3. FileInv => FileBehindEveryRow BY DEF FileInv, Files
<1> QED BY <1>1, <1>2, <1>3, PTL DEF UploadsSpec

----------------------------------------------------------------------------
(* The quota *)

(* the bytes billed that a check of the quota has let through *)
Net == Billed - unchecked

(* every total that is relied on covers them *)
MirrorCovers == mirror # Nothing /\ (\A s \in Slots : ~Unannounced(call[s])) => Net <= mirror
RecountCovers == recount # Nothing => Net <= recount
TotalCovers == \A s \in Slots : call[s].stage \in {"fill", "decide"} => call[s].total # Nothing /\ Net <= call[s].total

(* what was let through has room: a version and the file together, or what the picture grows by *)
RoomFor(c) ==
    /\ c.stage = "snapshot" => Net + c.size <= Quota
    /\ c.stage \in {"bytes", "commit"} /\ c.size # Nothing => Net + Beyond(c.size, c.old) <= Quota
Room == \A s \in Slots : RoomFor(call[s])

Covered == Net <= Quota /\ MirrorCovers /\ RecountCovers /\ TotalCovers /\ Room
QuotaInv == UploadsTypeOK /\ (overlapped \/ Covered)

LEMMA NetInt == (UploadsTypeOK => Net \in Int /\ unchecked \in Nat) /\ (UploadsTypeOK' => Net' \in Int /\ unchecked' \in Nat)
<1>1. UploadsTypeOK => Net \in Int /\ unchecked \in Nat BY BilledNat DEF Net, UploadsTypeOK
<1>2. ASSUME UploadsTypeOK' PROVE Net' \in Int /\ unchecked' \in Nat
  BY <1>2, BilledNatPrimed DEF Net, UploadsTypeOK
<1> QED BY <1>1, <1>2

LEMMA Numbers ==
    ASSUME UploadsTypeOK
    PROVE  /\ Quota \in Nat /\ mirror \in Nat \cup {Nothing} /\ recount \in Nat \cup {Nothing}
           /\ \A s \in Slots : /\ call[s].total \in Nat \cup {Nothing} /\ call[s].size \in Nat \cup {Nothing}
                               /\ call[s].old \in Nat
BY FreeFacts, QuotaAssumption DEF UploadsTypeOK, CallType, Free, NewCall, CallOf

LEMMA BeyondNat == ASSUME NEW a \in Int, NEW b \in Int PROVE Beyond(a, b) \in Nat /\ a - Beyond(a, b) <= b
                                                              /\ a - Beyond(a, b) <= a
BY DEF Beyond

(* Billed and what is let through follow the rows. *)
LEMMA BilledUnchanged == ASSUME UNCHANGED pictures PROVE Billed' = Billed
BY DEF Billed

LEMMA NetUnchanged == ASSUME UNCHANGED <<pictures, unchecked>> PROVE Net' = Net
BY BilledUnchanged DEF Net

(* A row more, or a row less, by its bytes. *)
RowLess(rows, p, fewer) ==
    /\ p \in DOMAIN rows /\ Rows(rows)
    /\ DOMAIN fewer = DOMAIN rows \ {p} /\ \A q \in DOMAIN fewer : fewer[q] = rows[q]

LEMMA BilledRow ==
    ASSUME NEW rows, NEW p, NEW fewer, RowLess(rows, p, fewer)
    PROVE  BilledFor(rows) = Bytes(rows[p]) + BilledFor(fewer) /\ BilledFor(fewer) \in Nat
<1> USE DEF RowLess
<1> DEFINE f == [q \in DOMAIN rows |-> Bytes(rows[q])]
           h == [q \in DOMAIN fewer |-> Bytes(fewer[q])]
<1>1. DOMAIN f = DOMAIN rows /\ DOMAIN h = DOMAIN f \ {p} OBVIOUS
<1>2. \A q \in DOMAIN f : f[q] \in Nat BY RowBytes DEF Rows
<1>3. \A q \in DOMAIN h : h[q] = f[q] OBVIOUS
<1>4. f[p] = Bytes(rows[p]) OBVIOUS
<1> HIDE DEF f, h
<1>5. IsFiniteSet(DOMAIN f) /\ p \in DOMAIN f BY <1>1 DEF Rows
<1>6. SumFunction(f) = f[p] + SumFunction(h) BY <1>1, <1>2, <1>3, <1>5, SumLess
<1>7. IsFiniteSet(DOMAIN h) BY <1>1, <1>5, FS_Subset
<1>8. SumFunction(h) \in Nat BY <1>1, <1>2, <1>3, <1>7, SumNat
<1> QED BY <1>4, <1>6, <1>8 DEF f, h, BilledFor

LEMMA BilledNew ==
    ASSUME UploadsTypeOK', NEW p, p \notin DOMAIN pictures, NEW row, pictures' = With(pictures, p, row)
    PROVE  Billed' = Billed + Bytes(row)
<1>1. /\ DOMAIN pictures' = DOMAIN pictures \cup {p} /\ pictures'[p] = row
      /\ \A q \in DOMAIN pictures : pictures'[q] = pictures[q]
  BY DEF With
<1>2. Rows(pictures') BY RowsAre
<1>3. RowLess(pictures', p, pictures) BY <1>1, <1>2 DEF RowLess
<1>4. BilledFor(pictures') = Bytes(pictures'[p]) + BilledFor(pictures) /\ BilledFor(pictures) \in Nat
  BY <1>3, BilledRow
<1>5. Bytes(row) \in Nat BY <1>1, <1>2, RowBytes DEF Rows
<1> QED BY <1>1, <1>4, <1>5, BilledIs

LEMMA BilledChanged ==
    ASSUME UploadsTypeOK, UploadsTypeOK', NEW p \in DOMAIN pictures, NEW row \in RowType,
           pictures' = [pictures EXCEPT ![p] = row]
    PROVE  Billed' = Billed + (Bytes(row) - Bytes(pictures[p]))
<1> DEFINE rest == Without(pictures, p)
<1>1. Rows(pictures) /\ Rows(pictures') BY RowsAre
<1>2. /\ DOMAIN rest = DOMAIN pictures \ {p}
      /\ \A q \in DOMAIN pictures \ {p} : rest[q] = pictures[q]
  BY WithoutFacts
<1> HIDE DEF rest
<1>3. /\ DOMAIN pictures' = DOMAIN pictures /\ pictures'[p] = row
      /\ \A q \in DOMAIN pictures : q # p => pictures'[q] = pictures[q]
  OBVIOUS
<1>4. RowLess(pictures, p, rest) /\ RowLess(pictures', p, rest) BY <1>1, <1>2, <1>3 DEF RowLess
<1>5. /\ BilledFor(pictures) = Bytes(pictures[p]) + BilledFor(rest) /\ BilledFor(rest) \in Nat
      /\ BilledFor(pictures') = Bytes(pictures'[p]) + BilledFor(rest)
  <2>1. BilledFor(pictures) = Bytes(pictures[p]) + BilledFor(rest) /\ BilledFor(rest) \in Nat BY <1>4, BilledRow
  <2>2. BilledFor(pictures') = Bytes(pictures'[p]) + BilledFor(rest) BY <1>4, BilledRow
  <2> QED BY <2>1, <2>2
<1>6. Bytes(row) \in Nat /\ Bytes(pictures[p]) \in Nat BY <1>1, RowBytes DEF Rows
<1> QED BY <1>3, <1>5, <1>6, BilledIs

(* Nearly every step lets nothing more through and, of the totals, only drops them or hands on one *)
(* that covers.                                                                                  *)
LEMMA StillCovered ==
    ASSUME QuotaInv, UploadsTypeOK', Net' <= Net,
           overlapped' \/ ~overlapped,
           overlapped' \/ mirror' = Nothing \/ (mirror' # Nothing /\ Net <= mirror')
               \/ (mirror' = mirror /\ \A s \in Slots : Unannounced(call[s]) => Unannounced(call'[s])),
           recount' \in {Nothing, recount} \/ Net <= recount',
           overlapped' \/ \A s \in Slots :
              \/ call'[s] = call[s]
              \/ /\ call'[s].stage \in {"fill", "decide"} => call'[s].total # Nothing /\ Net <= call'[s].total
                 /\ call'[s].stage = "snapshot" => Net + call'[s].size <= Quota
                 /\ call'[s].stage \in {"bytes", "commit"} /\ call'[s].size # Nothing =>
                       Net + Beyond(call'[s].size, call'[s].old) <= Quota
    PROVE  overlapped' \/ Covered'
<1> SUFFICES ASSUME ~overlapped' PROVE Covered'
  OBVIOUS
<1>1. Covered /\ UploadsTypeOK BY DEF QuotaInv
<1>2. Net \in Int /\ Net' \in Int BY <1>1, NetInt
<1>3. Quota \in Nat /\ mirror' \in Nat \cup {Nothing} /\ recount' \in Nat \cup {Nothing}
  BY <1>1, Numbers DEF UploadsTypeOK
<1>4. \A s \in Slots : /\ call'[s].total \in Nat \cup {Nothing} /\ call'[s].size \in Nat \cup {Nothing}
                       /\ call'[s].old \in Nat
  BY FreeFacts, QuotaAssumption DEF UploadsTypeOK, CallType, Free, NewCall, CallOf
<1>5. (Net <= Quota)' BY <1>1, <1>2, <1>3 DEF Covered
<1>6. MirrorCovers'
  <2> SUFFICES ASSUME mirror' # Nothing, \A s \in Slots : ~Unannounced(call'[s]) PROVE Net' <= mirror'
    BY DEF MirrorCovers, Unannounced
  <2>1. Net <= mirror' BY <1>1 DEF Covered, MirrorCovers
  <2> QED BY <2>1, <1>2, <1>3
<1>7. RecountCovers'
  <2> SUFFICES ASSUME recount' # Nothing PROVE Net' <= recount'
    BY DEF RecountCovers
  <2>1. Net <= recount' BY <1>1 DEF Covered, RecountCovers
  <2> QED BY <2>1, <1>2, <1>3
<1>8. TotalCovers'
  <2> SUFFICES ASSUME NEW s \in Slots, call'[s].stage \in {"fill", "decide"}
               PROVE  call'[s].total # Nothing /\ Net' <= call'[s].total
    BY DEF TotalCovers
  <2>1. call'[s].total # Nothing /\ Net <= call'[s].total BY <1>1 DEF Covered, TotalCovers
  <2> QED BY <2>1, <1>2, <1>4
<1>9. Room'
  <2> SUFFICES ASSUME NEW s \in Slots
               PROVE  /\ call'[s].stage = "snapshot" => Net' + call'[s].size <= Quota
                      /\ call'[s].stage \in {"bytes", "commit"} /\ call'[s].size # Nothing =>
                            Net' + Beyond(call'[s].size, call'[s].old) <= Quota
    BY DEF Room, RoomFor, Beyond
  <2>1. /\ call'[s].stage = "snapshot" => Net + call'[s].size <= Quota
        /\ call'[s].stage \in {"bytes", "commit"} /\ call'[s].size # Nothing =>
              Net + Beyond(call'[s].size, call'[s].old) <= Quota
    BY <1>1 DEF Covered, Room, RoomFor
  <2>2. call'[s].size \in Int /\ call'[s].old \in Int BY <1>4 DEF Nothing
  <2>3. Beyond(call'[s].size, call'[s].old) \in Nat BY <2>2, BeyondNat
  <2> QED BY <2>1, <2>2, <2>3, <1>2, <1>3
<1> QED BY <1>5, <1>6, <1>7, <1>8, <1>9 DEF Covered

(* A request that bills, under the totals of which nobody relies on one it is not in. *)
LEMMA Billing ==
    ASSUME QuotaInv, UploadsTypeOK', NEW s \in Slots, Others(s), UNCHANGED recount,
           Unannounced(call'[s]), call'[s].stage \in {"bytes", "commit", "invalidate"},
           overlapped' \/ (~overlapped /\ (Net' <= Net \/ ~Relying(s))),
           overlapped' \/ Net' <= Quota,
           overlapped' \/ call'[s].stage = "invalidate" \/ Net' + Beyond(call'[s].size, call'[s].old) <= Quota
    PROVE  overlapped' \/ Covered'
<1> SUFFICES ASSUME ~overlapped' PROVE Covered'
  OBVIOUS
<1>1. Covered /\ UploadsTypeOK BY DEF QuotaInv
<1>2. Net \in Int /\ Net' \in Int BY <1>1, NetInt
<1>3. Quota \in Nat /\ recount \in Nat \cup {Nothing} BY <1>1, Numbers
<1>4. \A t \in Slots : /\ call[t].total \in Nat \cup {Nothing} /\ call[t].size \in Nat \cup {Nothing}
                       /\ call[t].old \in Nat
  BY <1>1, Numbers
<1>5. MirrorCovers' BY DEF MirrorCovers, Unannounced
<1>6. RecountCovers'
  <2>1. CASE Net' <= Net BY <2>1, <1>1, <1>2, <1>3 DEF Covered, RecountCovers
  <2>2. CASE ~Relying(s) BY <2>2 DEF RecountCovers, Relying
  <2> QED BY <2>1, <2>2
<1>7. TotalCovers'
  <2> SUFFICES ASSUME NEW t \in Slots, call'[t].stage \in {"fill", "decide"}
               PROVE  call'[t].total # Nothing /\ Net' <= call'[t].total
    BY DEF TotalCovers
  <2>1. t # s /\ call'[t] = call[t] BY DEF Others
  <2>2. Relying(s) BY <2>1 DEF Relying, Relies
  <2>3. call[t].total # Nothing /\ Net <= call[t].total BY <1>1, <2>1 DEF Covered, TotalCovers
  <2> QED BY <2>1, <2>2, <2>3, <1>2, <1>4
<1>8. Room'
  <2> SUFFICES ASSUME NEW t \in Slots
               PROVE  /\ call'[t].stage = "snapshot" => Net' + call'[t].size <= Quota
                      /\ call'[t].stage \in {"bytes", "commit"} /\ call'[t].size # Nothing =>
                            Net' + Beyond(call'[t].size, call'[t].old) <= Quota
    BY DEF Room, RoomFor, Beyond
  <2>1. CASE t = s BY <2>1
  <2>2. CASE t # s /\ Net' <= Net
    <3>1. call'[t] = call[t] BY <2>2 DEF Others
    <3>2. /\ call[t].stage = "snapshot" => Net + call[t].size <= Quota
          /\ call[t].stage \in {"bytes", "commit"} /\ call[t].size # Nothing =>
                Net + Beyond(call[t].size, call[t].old) <= Quota
      BY <1>1 DEF Covered, Room, RoomFor
    <3>3. call[t].size \in Int /\ call[t].old \in Int BY <1>4 DEF Nothing
    <3>4. Beyond(call[t].size, call[t].old) \in Nat BY <3>3, BeyondNat
    <3> QED BY <2>2, <3>1, <3>2, <3>3, <3>4, <1>2, <1>3
  <2>3. CASE t # s /\ ~Relying(s)
    <3>1. call'[t] = call[t] BY <2>3 DEF Others
    <3>2. ~Relies(call[t]) BY <2>3 DEF Relying
    <3>3. call[t].stage # "snapshot" /\ (call[t].stage \in {"bytes", "commit"} => ~(call[t].size > call[t].old))
      BY <3>2 DEF Relies
    <3>4. call[t].stage \in {"bytes", "commit"} => Beyond(call[t].size, call[t].old) = 0
      BY <3>3 DEF Beyond
    <3> QED BY <3>1, <3>3, <3>4, <1>2, <1>3
  <2> QED BY <2>1, <2>2, <2>3
<1> QED BY <1>5, <1>6, <1>7, <1>8 DEF Covered

(* What a request bills, less what nothing was asked about. *)
LEMMA NetGrows ==
    ASSUME UploadsTypeOK, UploadsTypeOK', NEW s \in Slots, NEW bytes \in Int, NEW room \in Nat, Bills(s, bytes, room),
           Billed' = Billed + bytes
    PROVE  /\ Net' <= Net + room /\ Net' <= Net + bytes
           /\ overlapped' \/ (~overlapped /\ (Net' <= Net \/ ~Relying(s)))
           /\ Net' = Net + bytes - Beyond(bytes, room)
<1>1. Billed \in Nat /\ unchecked \in Nat /\ Beyond(bytes, room) \in Nat
  BY BilledNat, NetInt, BeyondNat
<1>2. unchecked' = unchecked + Beyond(bytes, room) BY DEF Bills
<1>3. Net' = Net + bytes - Beyond(bytes, room) BY <1>1, <1>2 DEF Net
<1>4. Net \in Int BY NetInt
<1> DEFINE beyond == Beyond(bytes, room)
<1>8. beyond \in Nat /\ bytes - beyond <= room /\ bytes - beyond <= bytes BY BeyondNat
<1>9. Net' = Net + bytes - beyond BY <1>3
<1> HIDE DEF beyond
<1>5. Net' <= Net + room /\ Net' <= Net + bytes BY <1>4, <1>8, <1>9
<1>6. bytes > 0 \/ Net' <= Net BY <1>4, <1>5, NetInt
<1>7. overlapped' \/ (~overlapped /\ ~(bytes > 0 /\ Relying(s))) BY DEF Bills
<1> QED BY <1>3, <1>5, <1>6, <1>7

LEMMA CoveredInit == UploadsInit => Covered
<1> SUFFICES ASSUME UploadsInit PROVE Covered
  OBVIOUS
<1>1. \A s \in Slots : call[s] = Free BY DEF UploadsInit
<1>2. [p \in DOMAIN pictures |-> pictures[p].size + pictures[p].versions] = Owned
  <2>1. DOMAIN pictures = DOMAIN Owned /\ Owned = [p \in DOMAIN Owned |-> Owned[p]]
    BY QuotaAssumption DEF UploadsInit
  <2>2. ASSUME NEW p \in DOMAIN Owned PROVE pictures[p].size + pictures[p].versions = Owned[p]
    <3>1. Owned[p] \in Nat BY QuotaAssumption
    <3>2. pictures[p].size = Owned[p] /\ pictures[p].versions = 0 BY DEF UploadsInit, NewRow
    <3> QED BY <3>1, <3>2
  <2> QED BY <2>1, <2>2
<1>3. Billed <= Quota /\ unchecked = 0 BY <1>2, QuotaAssumption DEF Billed, UploadsInit
<1>4. Billed \in Nat BY InitTypes, BilledNat
<1>5. Net <= Quota BY <1>3, <1>4, QuotaAssumption DEF Net
<1> QED BY <1>1, <1>5, FreeFacts DEF UploadsInit, Covered, MirrorCovers, RecountCovers, TotalCovers, Room, RoomFor

LEMMA CoveredKept == QuotaInv /\ UploadsTypeOK' /\ [UploadsNext]_uploadVars => overlapped' \/ Covered'
<1> SUFFICES ASSUME QuotaInv, UploadsTypeOK', [UploadsNext]_uploadVars PROVE overlapped' \/ Covered'
  OBVIOUS
<1>0. UploadsTypeOK /\ Billed \in Nat /\ Net \in Int /\ unchecked \in Nat BY BilledNat, NetInt DEF QuotaInv
<1>99. UNCHANGED <<pictures, unchecked>> => Net' <= Net
  <2>1. UNCHANGED <<pictures, unchecked>> => Net' = Net BY NetUnchanged
  <2> QED BY <2>1, <1>0
<1> USE FreeFacts
<1>1. CASE Begin
  <2>1. PICK s, c : s \in Slots /\ Serve(s, c) /\ c.stage = "check" BY <1>1 DEF Begin, NewCall, CallOf
  <2>2. Others(s) /\ call'[s] = c /\ call[s] = Free BY <2>1, <1>0, ServeFacts
  <2> QED BY <1>1, <1>99, <2>1, <2>2, StillCovered DEF Begin, Others, Unannounced, store, cache, sweeps, audit
<1>2. CASE Put BY <1>2, <1>99, StillCovered DEF Put, cache, sweeps, audit
<1>3. CASE Complete
  <2>1. PICK s, c : s \in Slots /\ Serve(s, c) /\ c.stage = "promote" BY <1>3 DEF Complete, NewCall, CallOf
  <2>2. Others(s) /\ call'[s] = c /\ call[s] = Free BY <2>1, <1>0, ServeFacts
  <2> QED BY <1>3, <1>99, <2>1, <2>2, StillCovered DEF Complete, Others, Unannounced, store, cache, sweeps, audit
<1>4. CASE Promote
  <2>1. PICK s \in Slots : At(s, "promote") /\ (Moves(s, "clear") \/ Ends(s)) BY <1>4 DEF Promote
  <2>2. Others(s) /\ call'[s].stage \in {"clear", "none"}
    BY <2>1, <1>0, AtCall, MovesFacts, EndsFacts
  <2>3. ~Unannounced(call[s]) BY <2>1 DEF At, Unannounced
  <2> QED BY <1>4, <1>99, <2>2, <2>3, StillCovered DEF Promote, Others, cache, sweeps, audit
<1>5. CASE Clear
  <2>1. PICK s, size : s \in Slots /\ At(s, "clear")
            /\ call' = [call EXCEPT ![s].size = size, ![s].stage = IF size = Nothing THEN "commit" ELSE "check"]
    <3>1. PICK u \in Slots, told \in Sizes \cup {Nothing}, fails \in BOOLEAN : At(u, "clear")
            /\ Hears(u, call[u].pic, IF call[u].pic \in DOMAIN objects /\ ~fails THEN objects[call[u].pic] ELSE told)
      BY <1>5 DEF Clear
    <3> QED BY <3>1 DEF Hears
  <2>2. call[s] \in CallType BY <2>1, <1>0, AtCall, TypedCall
  <2>3. /\ Others(s) /\ call'[s].size = size
        /\ call'[s].stage = IF size = Nothing THEN "commit" ELSE "check"
    BY <2>1, <2>2, <1>0 DEF UploadsTypeOK, CallType, Others
  <2>4. /\ call'[s].stage \in {"commit", "check"} /\ (call'[s].stage = "commit" => call'[s].size = Nothing)
        /\ ~Unannounced(call[s])
    BY <2>1, <2>3 DEF At, Unannounced
  <2>5. UNCHANGED <<pictures, unchecked, mirror, recount, overlapped>> BY <1>5 DEF Clear, sweeps, audit
  <2> QED BY <1>99, <2>3, <2>4, <2>5, StillCovered DEF Others
<1>6. CASE Copy
  <2>1. PICK s, c : s \in Slots /\ Serve(s, c) /\ c.stage = "check" BY <1>6 DEF Copy, NewCall, CallOf
  <2>2. Others(s) /\ call'[s] = c /\ call[s] = Free BY <2>1, <1>0, ServeFacts
  <2> QED BY <1>6, <1>99, <2>1, <2>2, StillCovered DEF Copy, Others, Unannounced, store, cache, sweeps, audit
<1>7. CASE ReadTotal
  <2>1. PICK s \in Slots : At(s, "check")
            /\ call' = [call EXCEPT ![s].total = IF mirror # Nothing THEN mirror ELSE Billed,
                                    ![s].stage = IF mirror # Nothing THEN "decide" ELSE "fill"]
            /\ overlapped' = (overlapped \/ (mirror # Nothing /\ \E t \in Slots : Unannounced(call[t])))
    BY <1>7 DEF ReadTotal
  <2>2. call[s] \in CallType BY <2>1, <1>0, AtCall, TypedCall
  <2>3. /\ Others(s) /\ call'[s].total = IF mirror # Nothing THEN mirror ELSE Billed
        /\ call'[s].stage = IF mirror # Nothing THEN "decide" ELSE "fill"
    BY <2>1, <2>2, <1>0 DEF UploadsTypeOK, CallType, Others
  <2>4. overlapped' \/ (call'[s].total # Nothing /\ Net <= call'[s].total)
    <3>1. CASE mirror # Nothing BY <2>1, <2>3, <3>1 DEF QuotaInv, Covered, MirrorCovers
    <3>2. CASE mirror = Nothing
      <4>1. call'[s].total = Billed BY <2>3, <3>2
      <4>2. Billed # Nothing /\ Net <= Billed BY <1>0 DEF Net, Nothing
      <4> QED BY <4>1, <4>2
    <3> QED BY <3>1, <3>2
  <2>5. call'[s].stage \in {"decide", "fill"} /\ ~Unannounced(call[s]) BY <2>1, <2>3 DEF At, Unannounced
  <2>6. overlapped' \/ ~overlapped BY <2>1
  <2>7. UNCHANGED <<pictures, unchecked, mirror, recount>> BY <1>7 DEF ReadTotal, store, cache, sweeps
  <2> QED BY <1>99, <2>3, <2>4, <2>5, <2>6, <2>7, StillCovered DEF Others
<1>8. CASE FillMirror
  <2>1. PICK s \in Slots : At(s, "fill") /\ Moves(s, "decide") /\ mirror' = call[s].total BY <1>8 DEF FillMirror
  <2>2. Others(s) /\ call'[s].stage = "decide" /\ call'[s].total = call[s].total
    BY <2>1, <1>0, AtCall, MovesFacts
  <2>3. overlapped \/ (call[s].total # Nothing /\ Net <= call[s].total)
    BY <2>1 DEF QuotaInv, Covered, TotalCovers, At
  <2>4. UNCHANGED <<pictures, unchecked, recount, overlapped>> BY <1>8 DEF FillMirror, store, sweeps, audit
  <2> QED BY <1>99, <2>1, <2>2, <2>3, <2>4, StillCovered DEF Others
<1>9. CASE Decide
  <2>1. PICK s \in Slots : At(s, "decide")
            /\ IF Fits(s) THEN Granted(s, call[s].pic) ELSE Refused(s, call[s].pic)
    BY <1>9 DEF Decide
  <2>2. call[s] \in CallType /\ InOrder(call[s]) /\ call[s] # Free BY <2>1, <1>0, AtCall, TypedCall
  <2>3. UNCHANGED <<pictures, unchecked, mirror, recount, overlapped>> BY <1>9 DEF Decide, sweeps, audit
  <2>4. ~Unannounced(call[s]) BY <2>1 DEF At, Unannounced
  <2>5. CASE Ends(s)
    <3>1. Others(s) /\ call'[s] = Free BY <2>5, <1>0, EndsFacts
    <3> QED BY <1>99, <2>3, <2>4, <3>1, StillCovered DEF Others
  <2>6. CASE ~Ends(s)
    <3>1. Fits(s) /\ Moves(s, Cleared(call[s])) BY <2>1, <2>6 DEF Granted, Refused
    <3>2. /\ Others(s) /\ call'[s].stage = Cleared(call[s]) /\ call'[s].size = call[s].size
          /\ call'[s].old = call[s].old
      BY <3>1, <2>2, <1>0, MovesFacts
    <3>3. overlapped \/ (call[s].total # Nothing /\ Net <= call[s].total)
      BY <2>1 DEF QuotaInv, Covered, TotalCovers, At
    <3>4. ASSUME call[s].size # Nothing, ~overlapped PROVE Net + Incoming(call[s]) <= Quota
      <4>1. SumFunction(reserved) \in Nat BY <1>0, ReservedNat
      <4>2. call[s].total \in Nat /\ call[s].size \in Nat /\ call[s].old \in Nat /\ Quota \in Nat
        BY <1>0, <3>3, <3>4, Numbers
      <4>3. Incoming(call[s]) \in Int BY <4>2 DEF Incoming
      <4>4. call[s].total + SumFunction(reserved) + Incoming(call[s]) <= Quota
        BY <3>1, <3>4 DEF Fits
      <4> HIDE DEF Incoming
      <4> QED BY <1>0, <3>3, <3>4, <4>1, <4>2, <4>3, <4>4
    <3>5. call[s].old \in Nat /\ call[s].size \in Nat \cup {Nothing} BY <1>0, Numbers
    <3>6. Cleared(call[s]) \in {"snapshot", "bytes", "commit"} /\ (Cleared(call[s]) = "snapshot" <=> call[s].snaps)
      BY DEF Cleared
    <3>7. call[s].snaps => call[s].size # Nothing
      BY <2>2, QuotaAssumption DEF InOrder, Nothing
    <3>8. ASSUME call[s].snaps, ~overlapped PROVE Net + call[s].size <= Quota
      <4>1. Incoming(call[s]) = call[s].size BY <3>5, <3>7, <3>8 DEF Incoming, Nothing
      <4> QED BY <4>1, <3>4, <3>7, <3>8
    <3>9. ASSUME ~call[s].snaps, call[s].size # Nothing, ~overlapped
          PROVE  Net + Beyond(call[s].size, call[s].old) <= Quota
      <4>1. Incoming(call[s]) = call[s].size - call[s].old BY <3>5, <3>9 DEF Incoming, Nothing
      <4>2. Net + (call[s].size - call[s].old) <= Quota BY <4>1, <3>4, <3>9
      <4>3. Net <= Quota BY <3>9 DEF QuotaInv, Covered
      <4> QED BY <4>2, <4>3, <3>5, <3>9, <1>0, QuotaAssumption DEF Beyond, Nothing
    <3>10. overlapped \/ ( /\ Cleared(call[s]) = "snapshot" => Net + call[s].size <= Quota
                           /\ Cleared(call[s]) \in {"bytes", "commit"} /\ call[s].size # Nothing =>
                                 Net + Beyond(call[s].size, call[s].old) <= Quota )
      BY <3>6, <3>8, <3>9
    <3>11. Cleared(call[s]) \notin {"fill", "decide"} BY <3>6
    <3> HIDE DEF Cleared
    <3> QED BY <1>99, <2>3, <2>4, <3>2, <3>10, <3>11, StillCovered DEF Others
  <2> QED BY <2>5, <2>6
<1>10. CASE CopyBytes
  <2>1. PICK s \in Slots : At(s, "bytes") /\ (Moves(s, "commit") \/ (Ends(s) /\ call[s].kind = "copy"))
    BY <1>10 DEF CopyBytes
  <2>2. call[s] \in CallType /\ InOrder(call[s]) /\ call[s] # Free BY <2>1, <1>0, AtCall, TypedCall
  <2>3. UNCHANGED <<pictures, unchecked, mirror, recount, overlapped>> BY <1>10 DEF CopyBytes, cache, sweeps, audit
  <2>4. CASE Moves(s, "commit")
    <3>1. /\ Others(s) /\ call'[s].stage = "commit" /\ call'[s].size = call[s].size /\ call'[s].old = call[s].old
          /\ call'[s].kind = call[s].kind /\ call'[s].snaps = call[s].snaps
      BY <2>2, <2>4, <1>0, MovesFacts
    <3>2. Unannounced(call[s]) => Unannounced(call'[s]) BY <2>1, <3>1 DEF At, Unannounced
    <3>3. call[s].size # Nothing /\ ~overlapped => Net + Beyond(call[s].size, call[s].old) <= Quota
      BY <2>1 DEF QuotaInv, Covered, Room, RoomFor, At
    <3> QED BY <1>99, <2>3, <3>1, <3>2, <3>3, StillCovered DEF Others
  <2>5. CASE Ends(s) /\ call[s].kind = "copy"
    <3>1. Others(s) /\ call'[s] = Free BY <2>5, <1>0, EndsFacts
    <3>2. ~Unannounced(call[s]) BY <2>1, <2>5 DEF At, Unannounced
    <3> QED BY <1>99, <2>3, <3>1, <3>2, StillCovered DEF Others
  <2> QED BY <2>1, <2>4, <2>5
<1>11. CASE Commit
  <2>1. PICK s \in Slots : At(s, "commit")
            /\ IF call[s].kind = "overwrite" THEN CommitSize(s, call[s].pic) ELSE CommitRow(s, call[s].pic)
    BY <1>11 DEF Commit
  <2>2. call[s] \in CallType /\ InOrder(call[s]) /\ call[s] # Free BY <2>1, <1>0, AtCall, TypedCall
  <2>3. UNCHANGED <<mirror, recount>> BY <1>11 DEF Commit, cache, sweeps
  <2>4. call[s].size \in Nat \cup {Nothing} /\ call[s].old \in Nat /\ Quota \in Nat BY <1>0, Numbers
  <2> DEFINE p == call[s].pic
             size == IF call[s].size = Nothing THEN 0 ELSE call[s].size
             room == Beyond(size, call[s].old)
  <2>5. size \in Nat /\ room \in Nat BY <2>4 DEF Beyond
  <2>6. overlapped \/ Net + room <= Quota
    <3>1. CASE call[s].size = Nothing
      <4>1. room = 0 BY <2>4, <3>1 DEF Beyond
      <4> QED BY <4>1, <1>0 DEF QuotaInv, Covered
    <3>2. CASE call[s].size # Nothing BY <2>1, <3>2 DEF QuotaInv, Covered, Room, RoomFor, At
    <3> QED BY <3>1, <3>2
  <2>7. CASE UNCHANGED <<pictures, unchecked, overlapped>> /\ (Ends(s) \/ Moves(s, "invalidate")) /\
             (Ends(s) => ~Unannounced(call[s]))
    <3>1. CASE Ends(s)
      <4>1. Others(s) /\ call'[s] = Free BY <3>1, <1>0, EndsFacts
      <4> QED BY <1>99, <2>3, <2>7, <3>1, <4>1, StillCovered DEF Others
    <3>2. CASE Moves(s, "invalidate")
      <4>1. Others(s) /\ call'[s].stage = "invalidate" BY <2>2, <3>2, <1>0, MovesFacts
      <4>2. Unannounced(call'[s]) BY <4>1 DEF Unannounced
      <4> QED BY <1>99, <2>3, <2>7, <4>1, <4>2, StillCovered DEF Others
    <3> QED BY <2>7, <3>1, <3>2
  <2>8. ASSUME NEW bytes \in Int, NEW let \in Nat, let <= room, Bills(s, bytes, let), Billed' = Billed + bytes,
               Moves(s, "invalidate")
        PROVE  overlapped' \/ Covered'
    <3>1. Others(s) /\ call'[s].stage = "invalidate" BY <2>2, <2>8, <1>0, MovesFacts
    <3>2. Unannounced(call'[s]) BY <3>1 DEF Unannounced
    <3>3. Net' <= Net + let /\ (overlapped' \/ (~overlapped /\ (Net' <= Net \/ ~Relying(s))))
      BY <1>0, <2>8, NetGrows
    <3>4. Net' \in Int BY NetInt
    <3> HIDE DEF room
    <3>5. overlapped' \/ Net' <= Quota BY <1>0, <2>4, <2>5, <2>6, <2>8, <3>3, <3>4
    <3> QED BY <2>3, <3>1, <3>2, <3>3, <3>5, Billing
  <2>9. CASE call[s].kind # "overwrite"
    <3>1. call[s].old = 0 BY <2>2, <2>9 DEF InOrder
    <3>2. size <= room BY <2>5, <3>1 DEF Beyond
    <3>3. CASE p \in DOMAIN pictures
      <4>1. Ends(s) /\ UNCHANGED <<pictures, unchecked, overlapped>> BY <2>1, <2>9, <3>3 DEF CommitRow, audit
      <4>2. ~Unannounced(call[s]) BY <2>1, <2>9 DEF Unannounced, At
      <4> QED BY <2>7, <4>1, <4>2
    <3>4. CASE p \notin DOMAIN pictures
      <4>1. pictures' = With(pictures, p, NewRow(size)) /\ Bills(s, size, size) /\ Moves(s, "invalidate")
        BY <2>1, <2>9, <3>4 DEF CommitRow
      <4>2. Bytes(NewRow(size)) = size BY <2>5 DEF Bytes, NewRow
      <4>3. Billed' = Billed + size BY <3>4, <4>1, <4>2, BilledNew
      <4> HIDE DEF size, room
      <4>4. size \in Int BY <2>5
      <4> QED BY <2>5, <2>8, <3>2, <4>1, <4>3, <4>4 DEF room
    <3> QED BY <3>3, <3>4
  <2>10. CASE call[s].kind = "overwrite"
    <3>1. call[s].size \in Sizes BY <2>2, <2>10 DEF InOrder
    <3>2. call[s].size \in Nat /\ size = call[s].size BY <3>1, QuotaAssumption DEF Nothing
    <3>3. CASE p \notin DOMAIN pictures
      <4>1. Moves(s, "invalidate") /\ UNCHANGED <<pictures, unchecked, overlapped>>
        BY <2>1, <2>10, <3>3 DEF CommitSize, audit
      <4>2. Others(s) /\ call'[s].stage = "invalidate" BY <2>2, <4>1, <1>0, MovesFacts
      <4>3. ~Ends(s) BY <4>2, <1>0, EndsFacts
      <4> QED BY <2>7, <4>1, <4>3
    <3>4. CASE p \in DOMAIN pictures
      <4> DEFINE row == [pictures[p] EXCEPT !.size = call[s].size]
                 bytes == call[s].size - pictures[p].size
      <4>1. pictures' = [pictures EXCEPT ![p] = row] /\ Moves(s, "invalidate")
            /\ Bills(s, bytes, Beyond(call[s].size, call[s].old))
        BY <2>1, <2>10, <3>4 DEF CommitSize
      <4>2. pictures[p] \in RowType BY <1>0, <3>4 DEF UploadsTypeOK
      <4>3. row \in RowType BY <3>1, <4>2 DEF RowType
      <4>4. pictures[p].size \in Nat /\ pictures[p].versions \in Nat BY <4>2, QuotaAssumption DEF RowType
      <4>5. Bytes(row) - Bytes(pictures[p]) = bytes BY <3>2, <4>2, <4>4 DEF Bytes, RowType
      <4>6. bytes \in Int BY <3>2, <4>4
      <4> HIDE DEF row, bytes
      <4>7. Billed' = Billed + bytes BY <1>0, <3>4, <4>1, <4>3, <4>5, BilledChanged
      <4>8. Bills(s, bytes, room) BY <3>2, <4>1
      <4> HIDE DEF room
      <4>9. room <= room BY <2>5
      <4> QED BY <2>5, <2>8, <4>1, <4>6, <4>7, <4>8, <4>9
    <3> QED BY <3>3, <3>4
  <2> QED BY <2>9, <2>10
<1>12. CASE Invalidate
  <2>1. PICK s \in Slots : Ends(s) /\ mirror' = Nothing BY <1>12 DEF Invalidate
  <2>2. Others(s) /\ call'[s] = Free BY <2>1, <1>0, EndsFacts
  <2> QED BY <1>12, <1>99, <2>1, <2>2, StillCovered DEF Invalidate, Others, store, sweeps, audit
<1>13. CASE CallDies
  <2>1. PICK s \in Slots : Ends(s) /\ overlapped' = (overlapped \/ Unannounced(call[s])) BY <1>13 DEF CallDies
  <2>2. Others(s) /\ call'[s] = Free BY <2>1, <1>0, EndsFacts
  <2>3. UNCHANGED <<pictures, unchecked, mirror, recount>> BY <1>13 DEF CallDies, store, cache, sweeps
  <2>4. overlapped' \/ (~overlapped /\ ~Unannounced(call[s])) BY <2>1
  <2>5. CASE overlapped' BY <2>5
  <2>6. CASE ~overlapped' BY <1>99, <2>2, <2>3, <2>4, <2>6, StillCovered DEF Others
  <2> QED BY <2>5, <2>6
<1>14. CASE Expires BY <1>14, <1>99, StillCovered DEF Expires, store, sweeps, audit
<1>15. CASE SetTrashed
  <2>1. PICK p \in DOMAIN pictures : pictures' = [pictures EXCEPT ![p].trashed = ~@] BY <1>15 DEF SetTrashed
  <2> DEFINE row == [pictures[p] EXCEPT !.trashed = ~@]
  <2>2. pictures' = [pictures EXCEPT ![p] = row] BY <2>1
  <2>3. pictures[p] \in RowType BY <1>0 DEF UploadsTypeOK
  <2>4. row \in RowType /\ Bytes(row) = Bytes(pictures[p]) BY <2>3 DEF RowType, Bytes
  <2>5. Bytes(pictures[p]) \in Nat BY <2>3, RowBytes
  <2> HIDE DEF row
  <2>6. Billed' = Billed + (Bytes(row) - Bytes(pictures[p])) BY <1>0, <2>2, <2>4, BilledChanged
  <2>7. UNCHANGED <<mirror, call, recount, overlapped, unchecked>> BY <1>15 DEF SetTrashed, cache, sweeps, audit
  <2>8. Net' <= Net BY <1>0, <2>4, <2>5, <2>6, <2>7 DEF Net
  <2> QED BY <2>7, <2>8, StillCovered
<1>16. CASE ListPurgeable BY <1>16, <1>99, StillCovered DEF ListPurgeable, store, cache, audit
<1>17. CASE PurgeRow
  <2>1. PICK p \in listed : pictures' = Without(pictures, p) BY <1>17 DEF PurgeRow
  <2>2. DOMAIN pictures' = DOMAIN pictures \ {p} /\ \A q \in DOMAIN pictures' : pictures'[q] = pictures[q]
    <3>1. /\ DOMAIN Without(pictures, p) = DOMAIN pictures \ {p}
          /\ \A q \in DOMAIN pictures \ {p} : Without(pictures, p)[q] = pictures[q]
      BY WithoutFacts
    <3> QED BY <2>1, <3>1
  <2>3. Billed' <= Billed
    <3>1. CASE p \notin DOMAIN pictures
      <4>1. pictures' = pictures
        <5>1. pictures' = [q \in DOMAIN pictures \ {p} |-> pictures[q]] BY <2>1, WithoutFacts
        <5>2. pictures = [q \in DOMAIN pictures |-> pictures[q]] BY <1>0 DEF UploadsTypeOK
        <5> QED BY <3>1, <5>1, <5>2
      <4> QED BY <4>1, <1>0, BilledUnchanged
    <3>2. CASE p \in DOMAIN pictures
      <4>1. RowLess(pictures, p, pictures') BY <1>0, <2>2, <3>2, RowsAre DEF RowLess
      <4>2. BilledFor(pictures) = Bytes(pictures[p]) + BilledFor(pictures') /\ BilledFor(pictures') \in Nat
        BY <4>1, BilledRow
      <4>3. Bytes(pictures[p]) \in Nat BY <1>0, <3>2, RowBytes DEF UploadsTypeOK
      <4> QED BY <4>2, <4>3, BilledIs
    <3> QED BY <3>1, <3>2
  <2>4. Billed' \in Nat BY BilledNatPrimed
  <2>5. UNCHANGED <<mirror, call, recount, overlapped, unchecked>> BY <1>17 DEF PurgeRow, cache, audit
  <2>6. Net' <= Net
    <3>1. Net' = Billed' - unchecked BY <2>5 DEF Net
    <3>2. Net = Billed - unchecked /\ Billed \in Nat /\ unchecked \in Nat
      BY <1>0, BilledNat DEF Net, UploadsTypeOK
    <3>3. \A a, b, u \in Nat : a <= b => a - u <= b - u OBVIOUS
    <3>4. Billed' - unchecked <= Billed - unchecked BY <2>3, <2>4, <3>2, <3>3
    <3> QED BY <3>1, <3>2, <3>4
  <2> QED BY <2>5, <2>6, StillCovered
<1>18. CASE PurgeObjects BY <1>18, <1>99, StillCovered DEF PurgeObjects, cache, audit
<1>19. CASE Recount
  <2>1. recount' = Billed /\ UNCHANGED <<pictures, mirror, call, overlapped, unchecked>>
    BY <1>19 DEF Recount, store, cache, audit
  <2>2. Net <= recount' BY <1>0, <2>1 DEF Net
  <2> QED BY <1>99, <2>1, <2>2, StillCovered
<1>20. CASE CacheRecount
  <2>1. overlapped \/ Net <= recount BY <1>20 DEF CacheRecount, QuotaInv, Covered, RecountCovers
  <2> QED BY <1>20, <1>99, <2>1, StillCovered DEF CacheRecount, store, audit
<1>21. CASE PutNew
  <2>1. PICK s, c : s \in Slots /\ Serve(s, c) /\ c.stage = "check" BY <1>21 DEF PutNew, NewCall, CallOf
  <2>2. Others(s) /\ call'[s] = c /\ call[s] = Free BY <2>1, <1>0, ServeFacts
  <2> QED BY <1>21, <1>99, <2>1, <2>2, StillCovered DEF PutNew, Others, Unannounced, store, cache, sweeps, audit
<1>22. CASE Overwrite
  <2>1. PICK s \in Slots, size \in Sizes \ {0}, snaps \in BOOLEAN, p \in DOMAIN pictures :
            \/ Serve(s, Overwriting(p, size, snaps, "check"))
            \/ /\ Serve(s, Overwriting(p, size, snaps, IF snaps THEN "snapshot" ELSE "bytes"))
               /\ ~(Incoming(Overwriting(p, size, snaps, "check")) > 0)
    BY <1>22, OverwriteServes
  <2>2. size \in Nat \ {0} /\ pictures[p].size \in Nat BY <1>0, QuotaAssumption DEF UploadsTypeOK, RowType
  <2>3. \A st : /\ Overwriting(p, size, snaps, st).stage = st /\ Overwriting(p, size, snaps, st).size = size
                /\ Overwriting(p, size, snaps, st).old = pictures[p].size
                /\ Overwriting(p, size, snaps, st).snaps = snaps
    BY DEF Overwriting, CallOf
  <2>4. UNCHANGED <<pictures, unchecked, mirror, recount, overlapped>> BY <1>22 DEF Overwrite, store, cache, sweeps, audit
  <2>5. CASE Serve(s, Overwriting(p, size, snaps, "check"))
    <3>1. Others(s) /\ call'[s].stage = "check" /\ call[s] = Free BY <2>3, <2>5, <1>0, ServeFacts
    <3> QED BY <1>99, <2>4, <3>1, StillCovered DEF Others, Unannounced
  <2>6. CASE /\ Serve(s, Overwriting(p, size, snaps, IF snaps THEN "snapshot" ELSE "bytes"))
             /\ ~(Incoming(Overwriting(p, size, snaps, "check")) > 0)
    <3>1. Incoming(Overwriting(p, size, snaps, "check")) = size - pictures[p].size + (IF snaps THEN pictures[p].size ELSE 0)
      BY <2>3 DEF Incoming
    <3>2. ~snaps /\ size <= pictures[p].size BY <2>2, <2>6, <3>1
    <3>3. Serve(s, Overwriting(p, size, snaps, "bytes")) BY <2>6, <3>2
    <3>4. /\ Others(s) /\ call[s] = Free /\ call'[s].stage = "bytes" /\ call'[s].size = size
          /\ call'[s].old = pictures[p].size
      BY <2>3, <3>3, <1>0, ServeFacts
    <3>5. Beyond(call'[s].size, call'[s].old) = 0 BY <2>2, <3>2, <3>4 DEF Beyond
    <3>6. overlapped \/ Net + Beyond(call'[s].size, call'[s].old) <= Quota BY <3>5, <1>0 DEF QuotaInv, Covered
    <3> QED BY <1>99, <2>4, <3>4, <3>6, StillCovered DEF Others, Unannounced
  <2> QED BY <2>1, <2>5, <2>6
<1>23. CASE CommitVersion
  <2>1. PICK s \in Slots : At(s, "snapshot")
            /\ LET p == call[s].pic IN
               \/ /\ p \in DOMAIN pictures /\ p \in DOMAIN objects
                  /\ pictures' = [pictures EXCEPT ![p].versions = @ + call[s].old]
                  /\ Bills(s, call[s].old, call[s].size)
                  /\ Moves(s, "bytes")
               \/ (Moves(s, "bytes") \/ Ends(s)) /\ UNCHANGED <<pictures, audit>>
    BY <1>23 DEF CommitVersion
  <2>2. call[s] \in CallType /\ InOrder(call[s]) /\ call[s] # Free BY <2>1, <1>0, AtCall, TypedCall
  <2>3. /\ call[s].kind = "overwrite" /\ call[s].snaps /\ call[s].size \in Nat /\ call[s].size # Nothing
        /\ call[s].old \in Nat /\ Quota \in Nat
    BY <1>0, <2>1, <2>2, Numbers, QuotaAssumption DEF InOrder, At, Checking, Nothing
  <2>4. UNCHANGED <<mirror, recount>> BY <1>23 DEF CommitVersion, cache, sweeps
  <2>5. overlapped \/ Net + call[s].size <= Quota BY <2>1 DEF QuotaInv, Covered, Room, RoomFor, At
  <2>6. ~Unannounced(call[s]) BY <2>1 DEF At, Unannounced
  <2>7. ASSUME Moves(s, "bytes")
        PROVE  /\ Others(s) /\ call'[s].stage = "bytes" /\ call'[s].size = call[s].size /\ call'[s].old = call[s].old
               /\ Unannounced(call'[s])
    <3>1. /\ Others(s) /\ call'[s].stage = "bytes" /\ call'[s].size = call[s].size /\ call'[s].old = call[s].old
          /\ call'[s].kind = call[s].kind /\ call'[s].snaps = call[s].snaps
      BY <2>2, <2>7, <1>0, MovesFacts
    <3> QED BY <2>3, <3>1 DEF Unannounced
  <2>8. CASE UNCHANGED <<pictures, audit>> /\ Ends(s)
    <3>1. Others(s) /\ call'[s] = Free BY <2>8, <1>0, EndsFacts
    <3>2. UNCHANGED <<pictures, unchecked, overlapped>> BY <2>8 DEF audit
    <3> QED BY <1>99, <2>4, <2>6, <3>1, <3>2, StillCovered DEF Others
  <2>9. CASE UNCHANGED <<pictures, audit>> /\ Moves(s, "bytes")
    <3>1. UNCHANGED <<pictures, unchecked, overlapped>> BY <2>9 DEF audit
    <3>2. Beyond(call[s].size, call[s].old) <= call[s].size /\ Beyond(call[s].size, call[s].old) \in Nat
      BY <2>3 DEF Beyond
    <3>3. overlapped \/ Net + Beyond(call[s].size, call[s].old) <= Quota BY <1>0, <2>3, <2>5, <3>2
    <3> QED BY <1>99, <2>4, <2>6, <2>7, <2>9, <3>1, <3>3, StillCovered DEF Others
  <2>10. CASE /\ call[s].pic \in DOMAIN pictures
              /\ pictures' = [pictures EXCEPT ![call[s].pic].versions = @ + call[s].old]
              /\ Bills(s, call[s].old, call[s].size) /\ Moves(s, "bytes")
    <3> DEFINE p == call[s].pic
               row == [pictures[p] EXCEPT !.versions = @ + call[s].old]
    <3>1. pictures' = [pictures EXCEPT ![p] = row] BY <2>10
    <3>2. pictures[p] \in RowType BY <1>0, <2>10 DEF UploadsTypeOK
    <3>3. pictures[p].size \in Nat /\ pictures[p].versions \in Nat BY <3>2, QuotaAssumption DEF RowType
    <3>4. row \in RowType BY <2>3, <3>2 DEF RowType
    <3>5. Bytes(row) - Bytes(pictures[p]) = call[s].old BY <2>3, <3>2, <3>3 DEF Bytes, RowType
    <3> HIDE DEF row
    <3>6. Billed' = Billed + call[s].old
      <4>1. p \in DOMAIN pictures BY <2>10
      <4> HIDE DEF p
      <4>2. Billed' = Billed + (Bytes(row) - Bytes(pictures[p])) BY <1>0, <3>1, <3>4, <4>1, BilledChanged
      <4> QED BY <3>5, <4>2
    <3>7. call[s].old \in Int BY <2>3
    <3>8. /\ Net' <= Net + call[s].size
          /\ overlapped' \/ (~overlapped /\ (Net' <= Net \/ ~Relying(s)))
          /\ Net' = Net + call[s].old - Beyond(call[s].old, call[s].size)
      BY <1>0, <2>3, <2>10, <3>6, <3>7, NetGrows
    <3>9. Net' + Beyond(call[s].size, call[s].old) = Net + call[s].size
      BY <1>0, <2>3, <3>8 DEF Beyond
    <3>10. Net' \in Int BY NetInt
    <3>11. overlapped' \/ (Net' <= Quota /\ Net' + Beyond(call[s].size, call[s].old) <= Quota)
      BY <1>0, <2>3, <2>5, <3>8, <3>9, <3>10
    <3> QED BY <2>4, <2>7, <2>10, <3>8, <3>11, Billing
  <2> QED BY <2>1, <2>8, <2>9, <2>10
<1>24. CASE WorkerSnapshots
  <2>1. PICK p \in DOMAIN pictures, size \in Sizes :
            pictures' = [pictures EXCEPT ![p].versions = @ + size] /\ unchecked' = unchecked + size
    BY <1>24 DEF WorkerSnapshots
  <2> DEFINE row == [pictures[p] EXCEPT !.versions = @ + size]
  <2>2. pictures' = [pictures EXCEPT ![p] = row] BY <2>1
  <2>3. pictures[p] \in RowType /\ size \in Nat BY <1>0, QuotaAssumption DEF UploadsTypeOK
  <2>4. pictures[p].size \in Nat /\ pictures[p].versions \in Nat BY <2>3, QuotaAssumption DEF RowType
  <2>5. row \in RowType BY <2>3 DEF RowType
  <2>6. Bytes(row) - Bytes(pictures[p]) = size BY <2>3, <2>4 DEF Bytes, RowType
  <2> HIDE DEF row
  <2>7. Billed' = Billed + size BY <1>0, <2>2, <2>5, <2>6, BilledChanged
  <2>8. Net' <= Net BY <1>0, <2>1, <2>3, <2>7 DEF Net
  <2>9. UNCHANGED <<mirror, call, recount, overlapped>> BY <1>24 DEF WorkerSnapshots, cache, sweeps
  <2> QED BY <2>8, <2>9, StillCovered
<1>25. CASE WorkerReports
  <2>1. PICK p \in DOMAIN pictures, size \in Sizes :
            pictures' = [pictures EXCEPT ![p].size = size] /\ unchecked' = unchecked + Beyond(size, pictures[p].size)
    BY <1>25 DEF WorkerReports
  <2> DEFINE row == [pictures[p] EXCEPT !.size = size]
  <2>2. pictures' = [pictures EXCEPT ![p] = row] BY <2>1
  <2>3. pictures[p] \in RowType /\ size \in Nat BY <1>0, QuotaAssumption DEF UploadsTypeOK
  <2>4. pictures[p].size \in Nat /\ pictures[p].versions \in Nat BY <2>3, QuotaAssumption DEF RowType
  <2>5. row \in RowType BY <2>3 DEF RowType
  <2>6. Bytes(row) - Bytes(pictures[p]) = size - pictures[p].size BY <2>3, <2>4 DEF Bytes, RowType
  <2> HIDE DEF row
  <2>7. Billed' = Billed + (size - pictures[p].size) BY <1>0, <2>2, <2>5, <2>6, BilledChanged
  <2>8. Beyond(size, pictures[p].size) \in Nat /\ size - pictures[p].size <= Beyond(size, pictures[p].size)
    BY <2>3, <2>4 DEF Beyond
  <2>9. Net' <= Net BY <1>0, <2>1, <2>3, <2>4, <2>7, <2>8 DEF Net
  <2>10. UNCHANGED <<mirror, call, recount, overlapped>> BY <1>25 DEF WorkerReports, cache, sweeps
  <2> QED BY <2>9, <2>10, StillCovered
<1>26. CASE UNCHANGED uploadVars
  BY <1>26, <1>99, StillCovered DEF uploadVars, store, cache, sweeps, audit
<1> QED BY <1>1, <1>2, <1>3, <1>4, <1>5, <1>6, <1>7, <1>8, <1>9, <1>10, <1>11, <1>12, <1>13, <1>14,
           <1>15, <1>16, <1>17, <1>18, <1>19, <1>20, <1>21, <1>22, <1>23, <1>24, <1>25, <1>26 DEF UploadsNext

(* What is billed stays within the quota and the bytes no check is asked about (versions that claims  *)
(* take, sizes that workers report, an overwrite's old bytes beyond its new ones), for any number of *)
(* requests at once, as long as no request commits bytes that another one, or the reconciler, has    *)
(* already counted without.                                                                          *)
THEOREM QuotaKept == UploadsSpec => []QuotaHolds
<1>1. UploadsInit => QuotaInv BY InitTypes, CoveredInit DEF QuotaInv
<1>2. QuotaInv /\ [UploadsNext]_uploadVars => QuotaInv' BY TypesKept, CoveredKept DEF QuotaInv
<1>3. ASSUME QuotaInv PROVE QuotaHolds
  <2>1. Billed \in Nat /\ unchecked \in Nat /\ Quota \in Nat BY <1>3, BilledNat, NetInt, Numbers DEF QuotaInv
  <2> QED BY <1>3, <2>1 DEF QuotaInv, Covered, Net, QuotaHolds
<1> QED BY <1>1, <1>2, <1>3, PTL DEF UploadsSpec
=============================================================================
