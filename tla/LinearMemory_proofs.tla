------------------------ MODULE LinearMemory_proofs ------------------------
(* Proofs about LinearMemory, for any contracts, limits, segments and word *)
(* size: the three invariants of the run, each a consequence of the        *)
(* inductive invariant IInv below.                                         *)
(*                                                                         *)
(* What Filled, a recursive function, computes is proved without an        *)
(* induction theorem: the function that is claimed satisfies the           *)
(* recursion, so the CHOOSE behind the definition has a value, and the     *)
(* least place where the two differ would have to be neither the first nor *)
(* a later one.                                                            *)
EXTENDS LinearMemory, WellFoundedInduction, TLAPS

(* A size that fits a word is not changed by the conversion, and one below *)
(* zero becomes the largest word.                                          *)
LEMMA UptrExact ==
    /\ \A n \in 0..Word - 1 : Uptr(n) = n
    /\ Uptr(-1) = Word - 1
BY MemoryAssumption DEF Uptr

(* A set of naturals that is not empty has a least element.                *)
LEMMA LeastNatural ==
    ASSUME NEW T \in SUBSET Nat, T # {}
    PROVE  \E x \in T : \A y \in T : x <= y
<1> DEFINE R == {ss \in Nat \X Nat : ss[1] < ss[2]}
<1>1. IsWellFoundedOn(R, Nat)
  BY NatLessThanWellFounded, Zenon DEF OpToRel
<1>2. \E x \in T : \A y \in T : ~(<<y, x>> \in R)
  BY <1>1, WFMin, Zenon
<1>3. \A x, y \in T : ~(<<y, x>> \in R) => x <= y
  OBVIOUS
<1>4. QED BY <1>2, <1>3, Zenon

(* A set of places of a sequence that is not empty has a last element.     *)
LEMMA GreatestOfInterval ==
    ASSUME NEW n \in Nat, NEW T \in SUBSET (1..n), T # {}
    PROVE  \E x \in T : \A y \in T : y <= x
<1> DEFINE D == {n - x : x \in T}
<1>1. D \in SUBSET Nat /\ D # {}
  <2>1. \A x \in T : n - x \in Nat
    OBVIOUS
  <2>2. QED BY <2>1, Zenon
<1>2. PICK d \in D : \A y \in D : d <= y
  BY <1>1, LeastNatural
<1>3. PICK x \in T : d = n - x
  BY <1>2
<1>4. \A y \in T : n - y \in D /\ n - x <= n - y
  BY <1>2, <1>3
<1>5. QED BY <1>4

-----------------------------------------------------------------------------
TableSegment == [offset: Nat, functions: Seq(Signature)]

Covers(segment, i) == i - segment.offset \in 0..Len(segment.functions) - 1

(* What the first k segments put at place i.                               *)
CoveringUpTo(segments, k, i) == {l \in 1..k : Covers(segments[l], i)}
Element(segment, i) == segment.functions[i - segment.offset + 1]
DeclaredUpTo(segments, k, i) ==
    LET covering == CoveringUpTo(segments, k, i)
        last == CHOOSE l \in covering : \A m \in covering : m <= l
    IN  IF covering = {} THEN None ELSE Element(segments[last], i)

(* One more segment overwrites what it covers.                             *)
LEMMA DeclaredStep ==
    ASSUME NEW segments \in Seq(TableSegment), NEW k \in 1..Len(segments), NEW i \in Int
    PROVE  DeclaredUpTo(segments, k, i) =
               IF Covers(segments[k], i) THEN Element(segments[k], i)
               ELSE DeclaredUpTo(segments, k - 1, i)
<1> DEFINE C == CoveringUpTo(segments, k, i)
<1>1. CASE Covers(segments[k], i)
  <2>1. k \in C /\ \A m \in C : m <= k
    BY <1>1 DEF CoveringUpTo
  <2>2. (CHOOSE l \in C : \A m \in C : m <= l) = k
    BY <2>1 DEF CoveringUpTo
  <2>3. QED BY <1>1, <2>1, <2>2 DEF DeclaredUpTo
<1>2. CASE ~Covers(segments[k], i)
  <2>1. C = CoveringUpTo(segments, k - 1, i)
    BY <1>2 DEF CoveringUpTo
  <2>2. QED BY <1>2, <2>1 DEF DeclaredUpTo
<1>3. QED BY <1>1, <1>2

(* No segment puts nothing in a table.                                     *)
LEMMA DeclaredNone ==
    ASSUME NEW segments, NEW i
    PROVE  DeclaredUpTo(segments, 0, i) = None
BY DEF DeclaredUpTo, CoveringUpTo

TableInstance ==
    [size: Nat, committed: SUBSET Nat, reserved: SUBSET Nat,
     elements: [0..maximum_table_elements - 1 -> Signature \cup {None}]]

(* A table with its elements replaced. *)
WithElements(t, e) ==
    [size |-> t.size, committed |-> t.committed, reserved |-> t.reserved, elements |-> e]

(* Copying the segments in order leaves at each place what the last        *)
(* segment that covers it says.                                            *)
LEMMA FilledExact ==
    ASSUME NEW segments \in Seq(TableSegment), NEW t \in TableInstance,
           t.elements = [i \in 0..maximum_table_elements - 1 |-> None]
    PROVE  Filled(t, segments) =
               WithElements(t, [i \in 0..maximum_table_elements - 1 |->
                                   DeclaredUpTo(segments, Len(segments), i)])
<1> DEFINE n == Len(segments)
           P == 0..maximum_table_elements - 1
           G(k) == WithElements(t, [i \in P |-> DeclaredUpTo(segments, k, i)])
           g == [k \in 0..n |-> G(k)]
           Body(f, k) == IF k = 0 THEN t
                         ELSE setTableElement(f[k - 1], segments[k].offset, segments[k].functions)
           IsAfter(f) == f = [k \in 0..n |-> Body(f, k)]
           After == CHOOSE f : IsAfter(f)
<1>1. n \in Nat
  OBVIOUS
<1>2. G(0) = t
  <2>1. [i \in P |-> DeclaredUpTo(segments, 0, i)] = t.elements
    BY DeclaredNone
  <2>2. QED BY <2>1 DEF WithElements, TableInstance
<1>3. \A k \in 1..n : G(k) = setTableElement(G(k - 1), segments[k].offset, segments[k].functions)
  <2>1. TAKE k \in 1..n
  <2>2. \A i \in P : DeclaredUpTo(segments, k, i) =
                 IF i - segments[k].offset \in 0..Len(segments[k].functions) - 1
                 THEN segments[k].functions[i - segments[k].offset + 1]
                 ELSE DeclaredUpTo(segments, k - 1, i)
    BY DeclaredStep DEF Covers, Element
  <2> DEFINE e == [i \in P |-> DeclaredUpTo(segments, k - 1, i)]
             base == segments[k].offset
             functions == segments[k].functions
  <2>3. [i \in P |-> DeclaredUpTo(segments, k, i)] =
          [i \in DOMAIN e |-> IF i - base \in 0..Len(functions) - 1
                              THEN functions[i - base + 1] ELSE e[i]]
    BY <2>2
  <2> HIDE DEF e
  <2>4. setTableElement(WithElements(t, e), base, functions) =
          WithElements(t, [i \in DOMAIN e |-> IF i - base \in 0..Len(functions) - 1
                                              THEN functions[i - base + 1] ELSE e[i]])
    BY DEF WithElements, setTableElement
  <2>5. QED BY <2>3, <2>4 DEF e
<1>4. IsAfter(g)
  BY <1>1, <1>2, <1>3
<1>5. IsAfter(After)
  BY <1>4, Zenon
<1>6. After[n] = G(n)
  <2> HIDE DEF G, After
  <2> DEFINE Bad == {k \in 0..n : After[k] # G(k)}
  <2>1. SUFFICES ASSUME Bad # {} PROVE FALSE
    BY <1>1
  <2>2. PICK k \in Bad : \A l \in Bad : k <= l
    <3>1. Bad \in SUBSET Nat
      BY <1>1
    <3> HIDE DEF Bad
    <3>2. QED BY <2>1, <3>1, LeastNatural
  <2>3. k # 0
    BY <1>2, <1>5, <2>2
  <2>4. k \in 1..n /\ k - 1 \in 0..n /\ After[k - 1] = G(k - 1)
    BY <1>1, <2>2, <2>3
  <2>5. After[k] = setTableElement(After[k - 1], segments[k].offset, segments[k].functions)
    BY <1>5, <2>3, <2>4
  <2>6. QED BY <1>3, <2>2, <2>4, <2>5
<1>7. QED BY <1>6, Zenon DEF Filled

-----------------------------------------------------------------------------
(* Memory.cpp *)

MemoryType == [min: 0..MaxPages, max: 0..MaxPages]

Committed(m) == m \in MemoryInstance /\ m.committed = 0..m.numPages - 1

(* growMemory commits exactly the new pages, wipes them and keeps to the   *)
(* maximum, whatever the subtraction of the sizes wraps to.                *)
LEMMA Growth ==
    ASSUME NEW m, Committed(m), NEW n \in Nat, NEW g \in growMemory(m, n)
    PROVE  /\ Committed(g)
           /\ g.type = m.type
           /\ g.numPages = m.numPages + n
           /\ n = 0 \/ g.numPages <= m.type.max
           /\ \A p \in g.committed : g.data[p] = IF p \in m.committed THEN m.data[p] ELSE {}
<1> DEFINE new == m.numPages..m.numPages + n - 1
<1>1. CASE n = 0
  <2>1. g = m
    BY <1>1 DEF growMemory
  <2>2. m.numPages \in Nat
    BY MemoryAssumption DEF Committed, MemoryInstance
  <2>3. QED BY <1>1, <2>1, <2>2
<1>2. CASE n # 0
  <2>1. ~ExceedsMaximum(m, n)
    BY <1>2 DEF growMemory
  <2>2. m.numPages \in Nat /\ m.type.max \in 0..MaxPages
    BY MemoryAssumption DEF Committed, MemoryInstance
  <2>3. n <= m.type.max /\ m.numPages <= m.type.max - n
    <3>1. n <= m.type.max
      BY <2>1, <2>2, MemoryAssumption DEF ExceedsMaximum
    <3>2. m.type.max - n \in 0..Word - 1
      BY <2>2, <3>1, MemoryAssumption
    <3>3. Uptr(m.type.max - n) = m.type.max - n
      BY <3>2, UptrExact
    <3>4. QED BY <2>1, <2>2, <3>1, <3>2, <3>3 DEF ExceedsMaximum
  <2>4. g = [m EXCEPT !.numPages = @ + n, !.committed = @ \cup new, !.data = Zeroed(@, new)]
    BY <1>2, <2>1 DEF growMemory
  <2>5. /\ g.type = m.type /\ g.numPages = m.numPages + n
        /\ g.committed = m.committed \cup new /\ g.data = Zeroed(m.data, new)
        /\ g = [type |-> g.type, numPages |-> g.numPages, committed |-> g.committed, data |-> g.data]
    BY <2>4 DEF Committed, MemoryInstance
  <2>6. g.numPages \in 0..MaxPages /\ g.numPages <= m.type.max
    BY <2>2, <2>3, <2>5, MemoryAssumption
  <2>7. g.committed = 0..g.numPages - 1 /\ g.committed \subseteq Page
    <3>1. g.committed = (0..m.numPages - 1) \cup new
      BY <2>5 DEF Committed
    <3>2. (0..m.numPages - 1) \cup new = 0..m.numPages + n - 1
      BY <2>2
    <3>3. g.committed = 0..g.numPages - 1
      <4>1. g.numPages = m.numPages + n
        BY <2>5
      <4>2. g.committed = 0..m.numPages + n - 1
        BY <3>1, <3>2
      <4>3. QED BY <2>2, <4>1, <4>2
    <3>4. 0..g.numPages - 1 \subseteq Page
      BY <2>6, MemoryAssumption DEF Page
    <3>5. QED BY <3>3, <3>4
  <2>8. g.data \in [Page -> SUBSET Contract]
    BY <2>5 DEF Zeroed, Committed, MemoryInstance
  <2>9. Committed(g)
    BY <2>5, <2>6, <2>7, <2>8 DEF Committed, MemoryInstance
  <2>10. \A p \in g.committed : g.data[p] = IF p \in m.committed THEN m.data[p] ELSE {}
    BY <2>2, <2>5, <2>7 DEF Zeroed, Committed
  <2>11. QED BY <2>5, <2>6, <2>9, <2>10
<1>3. QED BY <1>1, <1>2

(* shrinkMemory decommits exactly the pages at the end.                    *)
LEMMA Shrinking ==
    ASSUME NEW m, Committed(m), NEW n \in Nat, NEW s \in shrinkMemory(m, n)
    PROVE  /\ Committed(s)
           /\ s.type = m.type
           /\ n <= m.numPages /\ s.numPages = m.numPages - n
           /\ n = 0 \/ s.numPages >= m.type.min
<1> DEFINE gone == m.numPages - n..m.numPages - 1
<1>1. m.numPages \in 0..MaxPages /\ m.numPages \in Nat
  BY MemoryAssumption DEF Committed, MemoryInstance
<1>2. CASE n = 0
  BY <1>1, <1>2 DEF shrinkMemory
<1>3. CASE n # 0
  <2>1. n <= m.numPages /\ m.numPages - n >= m.type.min
    BY <1>1, <1>3, MemoryAssumption DEF shrinkMemory, Committed, MemoryInstance
  <2>2. s = [m EXCEPT !.numPages = @ - n, !.committed = @ \ gone, !.data = Zeroed(@, gone)]
    BY <1>3 DEF shrinkMemory
  <2>3. /\ s.type = m.type /\ s.numPages = m.numPages - n
        /\ s.committed = m.committed \ gone /\ s.data = Zeroed(m.data, gone)
        /\ s = [type |-> s.type, numPages |-> s.numPages, committed |-> s.committed, data |-> s.data]
    BY <2>2 DEF Committed, MemoryInstance
  <2>4. s.numPages \in 0..MaxPages
    BY <1>1, <2>1, <2>3, MemoryAssumption
  <2>5. s.committed = 0..s.numPages - 1 /\ s.committed \subseteq Page
    BY <1>1, <2>1, <2>3, <2>4, MemoryAssumption DEF Committed, Page
  <2>6. s.data \in [Page -> SUBSET Contract]
    BY <2>3 DEF Zeroed, Committed, MemoryInstance
  <2>7. Committed(s)
    BY <2>3, <2>4, <2>5, <2>6 DEF Committed, MemoryInstance
  <2>8. QED BY <2>1, <2>3, <2>7
<1>4. QED BY <1>2, <1>3

(* resetMemory succeeds only for a memory of a page or more and a type of  *)
(* at least one page, and leaves a wiped memory of the new type's minimum. *)
LEMMA Reset ==
    ASSUME NEW m, Committed(m), NEW t \in MemoryType, t.min = 1 => t.max >= 1,
           NEW r \in resetMemory(m, t)
    PROVE  /\ Committed(r)
           /\ r.type = t
           /\ r.numPages = t.min /\ t.min \in 1..t.max
           /\ \A p \in r.committed : r.data[p] = {}
<1> DEFINE low == [m EXCEPT !.type.min = 1]
           wiped(s) == [s EXCEPT !.data = Zeroed(@, {0}), !.type = t]
<1>1. PICK s \in shrinkMemory(low, Uptr(m.numPages - 1)) : r \in growMemory(wiped(s), Uptr(t.min - 1))
  BY Zenon DEF resetMemory
<1>2. m.numPages \in 0..MaxPages /\ t.min \in 0..MaxPages /\ t.max \in 0..MaxPages
  BY DEF Committed, MemoryInstance, MemoryType
<1>3. Committed(low) /\ low.numPages = m.numPages
  <2>1. low = [type |-> [min |-> 1, max |-> m.type.max], numPages |-> m.numPages,
               committed |-> m.committed, data |-> m.data]
    BY DEF Committed, MemoryInstance
  <2>2. 1 \in 0..MaxPages
    BY MemoryAssumption
  <2>3. QED BY <2>1, <2>2 DEF Committed, MemoryInstance
<1>4. Uptr(m.numPages - 1) \in Nat /\ (m.numPages = 0 => Uptr(m.numPages - 1) = Word - 1)
      /\ (m.numPages # 0 => Uptr(m.numPages - 1) = m.numPages - 1)
  <2>1. CASE m.numPages = 0
    BY <2>1, UptrExact, MemoryAssumption
  <2>2. CASE m.numPages # 0
    <3>1. m.numPages - 1 \in 0..Word - 1
      BY <1>2, <2>2, MemoryAssumption
    <3>2. QED BY <2>2, <3>1, UptrExact
  <2>3. QED BY <2>1, <2>2
<1>5. Committed(s) /\ m.numPages # 0 /\ s.numPages = 1
  <2> DEFINE n == Uptr(m.numPages - 1)
  <2>1. n \in Nat /\ s \in shrinkMemory(low, n)
    BY <1>1, <1>4
  <2> HIDE DEF n, low
  <2>2. Committed(s) /\ n <= m.numPages /\ s.numPages = m.numPages - n
    BY <1>3, <2>1, Shrinking
  <2>3. QED BY <1>2, <1>4, <2>2, MemoryAssumption DEF n
<1>6. Committed(wiped(s)) /\ wiped(s).numPages = 1 /\ wiped(s).type = t
      /\ \A p \in wiped(s).committed : wiped(s).data[p] = {}
  <2> DEFINE w == wiped(s)
  <2>1. s \in MemoryInstance
    BY <1>5 DEF Committed
  <2>2. w.type = t /\ w.numPages = 1 /\ w.committed = s.committed /\ w.data = Zeroed(s.data, {0})
    BY <1>5, <2>1 DEF MemoryInstance
  <2>3. s.committed = {0} /\ s.committed \subseteq Page
    BY <1>5 DEF Committed, MemoryInstance
  <2>4. Zeroed(s.data, {0}) \in [Page -> SUBSET Contract] /\ Zeroed(s.data, {0})[0] = {}
    BY <2>1, <2>3 DEF Zeroed, MemoryInstance
  <2>5. w \in MemoryInstance
    BY <2>1, <2>4 DEF MemoryInstance, MemoryType
  <2>6. 0..1 - 1 = {0}
    OBVIOUS
  <2>7. QED BY <2>2, <2>3, <2>4, <2>5, <2>6 DEF Committed
<1>7. Uptr(t.min - 1) \in Nat /\ (t.min = 0 => Uptr(t.min - 1) = Word - 1)
      /\ (t.min # 0 => Uptr(t.min - 1) = t.min - 1)
  <2>1. CASE t.min = 0
    BY <2>1, UptrExact, MemoryAssumption
  <2>2. CASE t.min # 0
    <3>1. t.min - 1 \in 0..Word - 1
      BY <1>2, <2>2, MemoryAssumption
    <3>2. QED BY <2>2, <3>1, UptrExact
  <2>3. QED BY <2>1, <2>2
<1> HIDE DEF wiped
<1>8. /\ Committed(r) /\ r.type = t
      /\ r.numPages = 1 + Uptr(t.min - 1)
      /\ Uptr(t.min - 1) = 0 \/ r.numPages <= t.max
      /\ \A p \in r.committed : r.data[p] = IF p \in wiped(s).committed THEN wiped(s).data[p] ELSE {}
  BY <1>1, <1>6, <1>7, Growth
<1>9. t.min # 0
  BY <1>2, <1>7, <1>8, MemoryAssumption
<1>10. QED BY <1>2, <1>6, <1>7, <1>8, <1>9

(* createMemory commits exactly the pages of the new memory.               *)
LEMMA Creation ==
    ASSUME NEW t \in MemoryType, NEW m \in createMemory(t)
    PROVE  Committed(m)
<1> DEFINE empty == [type |-> t, numPages |-> 0, committed |-> {}, data |-> [p \in Page |-> {}]]
<1>1. Committed(empty) /\ t.min \in Nat
  BY MemoryAssumption DEF Committed, MemoryInstance, MemoryType
<1>2. QED BY <1>1, Growth DEF createMemory

(* The clamped type of a contract; the clamp is at least a page.           *)
LEMMA Typing ==
    ASSUME NEW c \in Contract
    PROVE  TypeOf(c) \in MemoryType /\ (TypeOf(c).min = 1 => TypeOf(c).max >= 1)
BY MemoryAssumption DEF TypeOf, MemoryType

-----------------------------------------------------------------------------
(* Table.cpp *)

(* What \div gives.                                                        *)
LEMMA Division ==
    ASSUME NEW a \in Nat, NEW b \in Nat \ {0}
    PROVE  a \div b \in Nat /\ (a \div b) * b <= a /\ a < (a \div b) * b + b
OBVIOUS

(* A multiple divides without remainder.                                   *)
LEMMA DivisionUnique ==
    ASSUME NEW q \in Nat, NEW b \in Nat \ {0}
    PROVE  (q * b) \div b = q
OBVIOUS

(* Multiplication by a positive number is monotone.                        *)
LEMMA Products ==
    ASSUME NEW a \in Nat, NEW b \in Nat, NEW c \in Nat \ {0}
    PROVE  /\ a * c \in Nat
           /\ a <= b => a * c <= b * c
           /\ a < b => a * c < b * c
           /\ a * c < b * c => a < b
           /\ (a + 1) * c = a * c + c
OBVIOUS

(* A page of the platform holds a whole number of elements.                *)
LEMMA WholeElements == \E k \in Nat \ {0} : PlatformPage = k * ElementBytes
<1> DEFINE k == PlatformPage \div ElementBytes
<1>1. PlatformPage \in Nat /\ PlatformPage # 0 /\ ElementBytes \in Nat /\ ElementBytes # 0
      /\ PlatformPage % ElementBytes = 0
  BY TableAssumption
<1>2. PlatformPage = k * ElementBytes /\ k \in Nat
  BY <1>1
<1>3. k # 0
  BY <1>1, <1>2
<1>4. QED BY <1>2, <1>3

PageOf(i) == (i * ElementBytes) \div PlatformPage

(* The pages committed for n elements are those the elements are on.       *)
LEMMA PagesExact ==
    ASSUME NEW n \in Nat
    PROVE  0..getNumPlatformPages(n * ElementBytes) - 1 = {PageOf(i) : i \in 0..n - 1}
<1> DEFINE E == ElementBytes
           L == PlatformPage
           pages == getNumPlatformPages(n * E)
<1>1. E \in Nat \ {0} /\ L \in Nat \ {0} /\ n * E \in Nat /\ n * E + L - 1 \in Nat
  <2>1. E \in Nat \ {0} /\ L \in Nat \ {0}
    BY TableAssumption
  <2>2. n * E \in Nat
    BY <2>1, Products
  <2>3. QED BY <2>1, <2>2
<1>2. pages \in Nat /\ pages * L <= n * E + L - 1 /\ n * E + L - 1 < pages * L + L
  BY <1>1, Division DEF getNumPlatformPages
<1>3. ASSUME NEW i \in 0..n - 1 PROVE PageOf(i) \in 0..pages - 1
  <2> DEFINE q == PageOf(i)
  <2>1. i * E \in Nat /\ i * E < n * E
    BY <1>1, Products
  <2>2. q \in Nat /\ q * L <= i * E
    BY <1>1, <2>1, Division DEF PageOf
  <2>3. q * L < pages * L
    BY <1>1, <1>2, <2>1, <2>2
  <2>4. q < pages
    BY <1>1, <1>2, <2>2, <2>3, Products
  <2>5. QED BY <1>2, <2>2, <2>4
<1>4. ASSUME NEW p \in 0..pages - 1 PROVE \E i \in 0..n - 1 : p = PageOf(i)
  <2>1. PICK k \in Nat \ {0} : L = k * E
    BY WholeElements
  <2>2. p \in Nat /\ p < pages
    BY <1>2
  <2>3. (p * k) * E = p * L /\ p * k \in Nat
    BY <1>1, <2>1, <2>2
  <2>4. p = PageOf(p * k)
    BY <1>1, <2>2, <2>3, DivisionUnique DEF PageOf
  <2>5. (p + 1) * L <= pages * L /\ (p + 1) * L = p * L + L
    BY <1>1, <1>2, <2>2, Products
  <2>6. p * L < n * E
    BY <1>1, <1>2, <2>2, <2>5
  <2>7. p * k < n
    BY <1>1, <2>3, <2>6, Products
  <2>8. QED BY <2>3, <2>4, <2>7
<1> HIDE DEF pages
<1>5. QED BY <1>3, <1>4 DEF pages

(* The page of an element is not beyond the page of a later one.           *)
LEMMA PageMonotone ==
    ASSUME NEW i \in Nat, NEW n \in Nat, i <= n
    PROVE  PageOf(i) \in 0..PageOf(n)
<1> DEFINE E == ElementBytes
           L == PlatformPage
<1>1. E \in Nat \ {0} /\ L \in Nat \ {0} /\ i * E \in Nat /\ n * E \in Nat /\ i * E <= n * E
  BY TableAssumption, Products
<1>2. PageOf(i) \in Nat /\ PageOf(i) * L <= i * E
  BY <1>1, Division DEF PageOf
<1>3. PageOf(n) \in Nat /\ n * E < PageOf(n) * L + L
  BY <1>1, Division DEF PageOf
<1>4. PageOf(i) * L < (PageOf(n) + 1) * L
  BY <1>1, <1>2, <1>3, Products
<1>5. PageOf(i) < PageOf(n) + 1
  BY <1>1, <1>2, <1>3, <1>4, Products
<1>6. QED BY <1>2, <1>3, <1>5

(* createTable commits the pages of the declared size, in a reservation    *)
(* for the largest table, and has no function yet.                         *)
LEMMA TableCreated ==
    ASSUME NEW c \in Contract
    PROVE  /\ createTable(c) \in TableInstance
           /\ createTable(c).size = TableMin[c]
           /\ createTable(c).committed = {PageOf(i) : i \in 0..TableMin[c] - 1}
           /\ createTable(c).reserved = 0..PageOf(maximum_table_elements)
           /\ createTable(c).elements = [i \in 0..maximum_table_elements - 1 |-> None]
<1> DEFINE n == TableMin[c]
           t == createTable(c)
<1>1. n \in Nat /\ n <= maximum_table_elements /\ 0 + n = n
  BY TableAssumption
<1>2. getNumPlatformPages(0 * ElementBytes) = 0
  <2>1. PlatformPage \in Nat \ {0} /\ ElementBytes \in Nat
    BY TableAssumption
  <2>2. 0 * ElementBytes = 0 /\ (PlatformPage - 1) \div PlatformPage = 0 /\ 0 + PlatformPage - 1 = PlatformPage - 1
    BY <2>1
  <2>3. QED BY <2>2 DEF getNumPlatformPages
<1>3. /\ t.size = 0 + n
      /\ t.committed = {} \cup (getNumPlatformPages(0 * ElementBytes)
                                ..getNumPlatformPages((0 + n) * ElementBytes) - 1)
      /\ t.reserved = 0..PageOf(maximum_table_elements)
      /\ t.elements = [i \in 0..maximum_table_elements - 1 |-> None]
      /\ t \in [size: {t.size}, committed: {t.committed}, reserved: {t.reserved}, elements: {t.elements}]
  BY DEF createTable, growTable, emptyTable, PageOf
<1>4. t.committed = {PageOf(i) : i \in 0..n - 1}
  BY <1>1, <1>2, <1>3, PagesExact
<1>5. t.committed \subseteq Nat /\ t.reserved \subseteq Nat
  <2>1. ASSUME NEW i \in 0..n - 1 PROVE PageOf(i) \in Nat
    BY <1>1, PageMonotone
  <2> HIDE DEF t
  <2>2. t.committed \subseteq Nat
    BY <1>4, <2>1, Zenon
  <2>3. t.reserved \subseteq Nat
    BY <1>3
  <2>4. QED BY <2>2, <2>3
<1>6. t \in TableInstance
  BY <1>1, <1>3, <1>5 DEF TableInstance
<1>7. QED BY <1>1, <1>3, <1>4, <1>6

(* The table instantiateModule leaves for contract c. *)
TableOf(c) == Filled(createTable(c), Segments[c])

(* The table with its segments holds what the contract declares.           *)
LEMMA TableFilled ==
    ASSUME NEW c \in Contract
    PROVE  /\ TableOf(c).size = TableMin[c]
           /\ TableOf(c).committed = {PageOf(i) : i \in 0..TableMin[c] - 1}
           /\ TableOf(c).reserved = 0..PageOf(maximum_table_elements)
           /\ \A i \in 0..maximum_table_elements - 1 : TableOf(c).elements[i] = Declared(c, i)
<1> DEFINE s == Segments[c]
<1>1. s \in Seq(TableSegment)
  BY TableAssumption DEF TableSegment
<1>2. TableOf(c) = WithElements(createTable(c), [i \in 0..maximum_table_elements - 1 |->
                                                     DeclaredUpTo(s, Len(s), i)])
  BY <1>1, TableCreated, FilledExact DEF TableOf
<1>3. \A i : DeclaredUpTo(s, Len(s), i) = Declared(c, i)
  <2>1. DOMAIN s = 1..Len(s)
    BY <1>1
  <2>2. QED BY <2>1 DEF DeclaredUpTo, CoveringUpTo, Covers, Element, Declared
<1>4. QED BY <1>2, <1>3, TableCreated DEF WithElements

(* Segments that fit declare nothing at or beyond the size of the table.   *)
LEMMA DeclaredInside ==
    ASSUME NEW c \in Contract, NEW i \in Nat, Fits(createTable(c), Segments[c]), i >= TableMin[c]
    PROVE  Declared(c, i) = None
<1> DEFINE s == Segments[c]
<1>1. ASSUME NEW k \in DOMAIN s PROVE i - s[k].offset \notin 0..Len(s[k].functions) - 1
  <2>1. s[k].offset \in Nat /\ Len(s[k].functions) \in Nat
    <3>1. s \in Seq(TableSegment)
      BY TableAssumption DEF TableSegment
    <3>2. s[k] \in TableSegment
      BY <3>1
    <3>3. QED BY <3>2 DEF TableSegment
  <2>2. s[k].offset <= TableMin[c] /\ Uptr(TableMin[c] - s[k].offset) >= Len(s[k].functions)
    BY TableCreated DEF Fits
  <2>3. TableMin[c] \in Nat /\ TableMin[c] - s[k].offset \in 0..Word - 1
    BY <2>1, <2>2, TableAssumption, MemoryAssumption
  <2>4. TableMin[c] - s[k].offset >= Len(s[k].functions)
    BY <2>2, <2>3, UptrExact
  <2>5. QED BY <2>1, <2>3, <2>4
<1>2. QED BY <1>1 DEF Declared

(* What a call of a type should reach, given the function declared there.  *)
Verdict(declared, type) ==
    CASE declared = None -> "undefinedTableElement"
      [] declared = type -> type
      [] OTHER -> "indirectCallSignatureMismatch"

(* An indirect call of a loaded contract reaches what it should.           *)
LEMMA CallReaches ==
    ASSUME NEW c \in Contract, NEW i \in Nat, NEW type \in Signature,
           Fits(createTable(c), Segments[c])
    PROVE  call_indirect(TableOf(c), i, type) = Verdict(Declared(c, i), type)
<1> DEFINE t == TableOf(c)
           n == TableMin[c]
<1>1. n \in Nat /\ n <= maximum_table_elements /\ maximum_table_elements \in Nat /\ type # None
  BY TableAssumption, MemoryAssumption
<1>2. CASE i >= maximum_table_elements
  BY <1>1, <1>2, DeclaredInside DEF call_indirect, Verdict
<1>3. CASE i < maximum_table_elements /\ PageOf(i) \notin t.committed
  <2>1. i >= n
    BY <1>1, <1>3, TableFilled
  <2>2. PageOf(i) \in t.reserved
    BY <1>1, <1>3, PageMonotone, TableFilled
  <2>3. call_indirect(t, i, type) = "undefinedTableElement"
    BY <1>1, <1>3, <2>2 DEF call_indirect, handleHardwareTrap, PageOf
  <2>4. Declared(c, i) = None
    BY <2>1, DeclaredInside
  <2>5. QED BY <1>1, <2>3, <2>4, Zenon DEF Verdict
<1>4. CASE i < maximum_table_elements /\ PageOf(i) \in t.committed
  <2>1. t.elements[i] = Declared(c, i)
    BY <1>1, <1>4, TableFilled
  <2> HIDE DEF t
  <2>2. call_indirect(t, i, type) = IF t.elements[i] # type THEN signatureMismatch(t, i) ELSE type
    BY <1>1, <1>4 DEF call_indirect, PageOf
  <2>3. CASE Declared(c, i) = None
    BY <1>1, <2>1, <2>2, <2>3, Zenon DEF signatureMismatch, Verdict, t
  <2>4. CASE Declared(c, i) = type
    BY <1>1, <2>1, <2>2, <2>4, Zenon DEF Verdict, t
  <2>5. CASE Declared(c, i) # None /\ Declared(c, i) # type
    BY <1>1, <2>1, <2>2, <2>5, Zenon DEF signatureMismatch, Verdict, t
  <2>6. QED BY <2>3, <2>4, <2>5
<1>5. QED BY <1>1, <1>2, <1>3, <1>4

-----------------------------------------------------------------------------
(* The inductive invariant.                                                *)

TypeOK ==
    /\ contract \in Contract \cup {None}
    /\ phase \in {"idle", "loaded", "running", "escaped"}
    /\ memory = None \/ memory \in MemoryInstance
    /\ table # None => contract \in Contract /\ table = TableOf(contract)
    /\ called.index \in Nat

(* Exactly the pages below the size are committed, in every phase; a       *)
(* contract that is loaded has a memory and its own table, whose segments  *)
(* fit; one that runs has a memory of its type; and nothing is left of a   *)
(* contract that has returned but the memory.                              *)
MemoryCommitted == memory # None => Committed(memory)
LoadedComplete ==
    phase \in {"loaded", "running"} =>
        /\ contract \in Contract /\ Committed(memory)
        /\ table = TableOf(contract) /\ Fits(createTable(contract), Segments[contract])
RunningSized ==
    phase = "running" =>
        memory.type = TypeOf(contract) /\ memory.numPages \in memory.type.min..memory.type.max
IdleEmpty == phase = "idle" => table = None /\ called = NotCalled
Judged == called # NotCalled => called.reached = Verdict(Declared(contract, called.index), called.type)

IInv == TypeOK /\ MemoryCommitted /\ LoadedComplete /\ RunningSized /\ NoLeftovers /\ IdleEmpty /\ Judged

(* The invariant holds initially.                                          *)
LEMMA InitIInv == Init => IInv
BY DEF Init, IInv, TypeOK, MemoryCommitted, LoadedComplete, RunningSized, NoLeftovers, IdleEmpty, Judged, NotCalled

(* The invariant is preserved by instantiateModule.                        *)
LEMMA InstantiateIInv ==
    ASSUME IInv, NEW c \in Contract, Instantiate(c)
    PROVE  IInv'
<1> USE DEF Instantiate
<1>1. Committed(memory')
  <2>1. CASE memory # None
    BY <2>1 DEF IInv, MemoryCommitted
  <2>2. CASE memory = None
    BY <2>2, Typing, Creation
  <2>3. QED BY <2>1, <2>2
<1>2. memory' \in MemoryInstance
  BY <1>1 DEF Committed
<1>3. table = None /\ called = NotCalled /\ called' = NotCalled
  BY DEF IInv, IdleEmpty
<1>4. CASE Fits(createTable(c), Segments[c])
  <2>1. phase' = "loaded" /\ table' = TableOf(c) /\ contract' = c
    BY <1>4 DEF TableOf
  <2>2. QED BY <1>1, <1>2, <1>3, <1>4, <2>1
         DEF IInv, TypeOK, MemoryCommitted, LoadedComplete, RunningSized, NoLeftovers, IdleEmpty, Judged
<1>5. CASE ~Fits(createTable(c), Segments[c])
  <2>1. phase' = "escaped" /\ table' = None /\ contract' = c
    BY <1>3, <1>5
  <2>2. QED BY <1>1, <1>2, <1>3, <2>1
         DEF IInv, TypeOK, MemoryCommitted, LoadedComplete, RunningSized, NoLeftovers, IdleEmpty, Judged
<1>6. QED BY <1>4, <1>5

(* The invariant is preserved by a failed allocation.                      *)
LEMMA OutOfMemoryIInv ==
    ASSUME IInv, OutOfMemory
    PROVE  IInv'
BY DEF OutOfMemory, IInv, TypeOK, MemoryCommitted, LoadedComplete, RunningSized, NoLeftovers, IdleEmpty, Judged

(* The image goes to pages below the minimum.                              *)
LEMMA Image ==
    ASSUME NEW m, Committed(m), NEW c \in Contract
    PROVE  /\ Committed(WithImage(m, c))
           /\ WithImage(m, c).type = m.type /\ WithImage(m, c).numPages = m.numPages
           /\ \A p \in m.committed : WithImage(m, c).data[p] \subseteq m.data[p] \cup {c}
<1> DEFINE w == WithImage(m, c)
           d == [p \in Page |-> IF p < ImagePages[c] THEN m.data[p] \cup {c} ELSE m.data[p]]
<1>1. m \in MemoryInstance /\ d \in [Page -> SUBSET Contract]
  BY DEF Committed, MemoryInstance
<1>2. \A p \in m.committed : p \in Page /\ d[p] \subseteq m.data[p] \cup {c}
  BY <1>1 DEF MemoryInstance
<1>3. w = [m EXCEPT !.data = d]
  BY <1>1 DEF WithImage, MemoryInstance
<1> HIDE DEF d, w
<1>4. w \in MemoryInstance /\ w.type = m.type /\ w.numPages = m.numPages /\ w.committed = m.committed /\ w.data = d
  BY <1>1, <1>3 DEF MemoryInstance
<1>5. QED BY <1>2, <1>4 DEF Committed, w

(* The invariant is preserved by the reset before a call.                  *)
LEMMA CallIInv ==
    ASSUME IInv, Call
    PROVE  IInv'
<1>1. contract \in Contract /\ Committed(memory)
  BY DEF Call, IInv, LoadedComplete
<1>2. PICK m \in resetMemory(memory, TypeOf(contract)) : memory' = WithImage(m, contract)
  BY DEF Call
<1>3. /\ Committed(m) /\ m.type = TypeOf(contract)
      /\ m.numPages = m.type.min /\ m.type.min \in 1..m.type.max
      /\ \A p \in m.committed : m.data[p] = {}
  BY <1>1, Typing, Reset
<1>4. /\ Committed(memory') /\ memory'.type = m.type /\ memory'.numPages = m.numPages
      /\ \A p \in m.committed : memory'.data[p] \subseteq m.data[p] \cup {contract}
  BY <1>1, <1>2, <1>3, Image
<1>5. memory'.numPages \in memory'.type.min..memory'.type.max
  BY <1>1, <1>3, <1>4, Typing DEF MemoryType
<1>6. memory'.committed = m.committed /\ memory' \in MemoryInstance
  BY <1>3, <1>4 DEF Committed
<1>7. \A p \in memory'.committed : memory'.data[p] \subseteq {contract}
  BY <1>3, <1>4, <1>6
<1>8. phase' = "running" /\ contract' = contract /\ table' = table /\ called' = called /\ phase = "loaded"
  BY DEF Call
<1>9. QED BY <1>1, <1>3, <1>4, <1>5, <1>6, <1>7, <1>8
       DEF IInv, TypeOK, MemoryCommitted, LoadedComplete, RunningSized, NoLeftovers, IdleEmpty, Judged

(* The invariant is preserved by grow_memory.                              *)
LEMMA GrowMemoryIInv ==
    ASSUME IInv, NEW d \in Delta, GrowMemory(d)
    PROVE  IInv'
<1>1. contract \in Contract /\ Committed(memory) /\ phase = "running"
  BY DEF GrowMemory, IInv, LoadedComplete
<1>2. contract' = contract /\ phase' = phase /\ table' = table /\ called' = called
  BY DEF GrowMemory
<1>3. CASE memory' = memory
  BY <1>1, <1>2, <1>3
     DEF IInv, TypeOK, MemoryCommitted, LoadedComplete, RunningSized, NoLeftovers, IdleEmpty, Judged
<1>4. CASE memory' \in growMemory(memory, Uptr(d))
  <2>1. Uptr(d) \in Nat
    BY MemoryAssumption DEF Uptr
  <2>2. /\ Committed(memory') /\ memory'.type = memory.type
        /\ memory'.numPages = memory.numPages + Uptr(d)
        /\ Uptr(d) = 0 \/ memory'.numPages <= memory.type.max
        /\ \A p \in memory'.committed : memory'.data[p] = IF p \in memory.committed THEN memory.data[p] ELSE {}
    BY <1>1, <1>4, <2>1, Growth
  <2>3. memory.numPages \in memory.type.min..memory.type.max /\ memory.type = TypeOf(contract)
        /\ \A p \in memory.committed : memory.data[p] \subseteq {contract}
    BY <1>1 DEF IInv, RunningSized, NoLeftovers
  <2>4. memory.type.min \in Nat /\ memory.type.max \in Nat
    BY <1>1, MemoryAssumption DEF Committed, MemoryInstance
  <2>5. memory'.numPages \in memory'.type.min..memory'.type.max
    BY <2>1, <2>2, <2>3, <2>4
  <2>6. \A p \in memory'.committed : memory'.data[p] \subseteq {contract}
    BY <2>2, <2>3
  <2>7. memory' \in MemoryInstance
    BY <2>2 DEF Committed
  <2>8. QED BY <1>1, <1>2, <2>2, <2>3, <2>5, <2>6, <2>7
         DEF IInv, TypeOK, MemoryCommitted, LoadedComplete, RunningSized, NoLeftovers, IdleEmpty, Judged
<1>5. QED BY <1>3, <1>4 DEF GrowMemory

(* The invariant is preserved by a store.                                  *)
LEMMA StoreIInv ==
    ASSUME IInv, NEW p \in Page, Store(p)
    PROVE  IInv'
<1>1. contract \in Contract /\ Committed(memory) /\ phase = "running" /\ memory \in MemoryInstance
  BY DEF Store, IInv, LoadedComplete, Committed
<1>2. contract' = contract /\ phase' = phase /\ table' = table /\ called' = called
  BY DEF Store
<1> DEFINE d == [memory.data EXCEPT ![p] = @ \cup {contract}]
<1>3. d \in [Page -> SUBSET Contract]
  BY <1>1 DEF MemoryInstance
<1>4. \A q \in memory.committed : d[q] \subseteq memory.data[q] \cup {contract}
  BY <1>1 DEF MemoryInstance
<1>5. memory' = [memory EXCEPT !.data = d]
  BY DEF Store
<1> HIDE DEF d
<1>6. memory' \in MemoryInstance /\ memory'.type = memory.type /\ memory'.numPages = memory.numPages
      /\ memory'.committed = memory.committed /\ memory'.data = d
  BY <1>1, <1>3, <1>5 DEF MemoryInstance
<1>7. Committed(memory')
  BY <1>1, <1>6 DEF Committed
<1>8. \A q \in memory'.committed : memory'.data[q] \subseteq {contract}
  BY <1>1, <1>4, <1>6 DEF IInv, NoLeftovers
<1>9. QED BY <1>1, <1>2, <1>6, <1>7, <1>8
       DEF IInv, TypeOK, MemoryCommitted, LoadedComplete, RunningSized, NoLeftovers, IdleEmpty, Judged

(* The invariant is preserved by an indirect call.                         *)
LEMMA CallIndirectIInv ==
    ASSUME IInv, NEW i \in Index, NEW type \in Signature, CallIndirect(i, type)
    PROVE  IInv'
<1>1. /\ contract \in Contract /\ phase = "running"
      /\ table = TableOf(contract) /\ Fits(createTable(contract), Segments[contract])
  BY DEF CallIndirect, IInv, LoadedComplete
<1>2. i \in Nat
  BY TableAssumption
<1>3. call_indirect(table, i, type) = Verdict(Declared(contract, i), type)
  BY <1>1, <1>2, CallReaches
<1>4. called' = [index |-> i, type |-> type, reached |-> Verdict(Declared(contract, i), type)]
  BY <1>3 DEF CallIndirect
<1>5. contract' = contract /\ memory' = memory /\ table' = table /\ phase' \in {"running", "escaped"}
  BY <1>1 DEF CallIndirect
<1>6. Judged' /\ called'.index \in Nat
  BY <1>2, <1>4, <1>5 DEF Judged
<1>7. QED BY <1>1, <1>5, <1>6
       DEF IInv, TypeOK, MemoryCommitted, LoadedComplete, RunningSized, NoLeftovers, IdleEmpty

(* The invariant is preserved by the end of execute().                     *)
LEMMA ReturnIInv ==
    ASSUME IInv, Return
    PROVE  IInv'
BY DEF Return, IInv, TypeOK, MemoryCommitted, LoadedComplete, RunningSized, NoLeftovers, IdleEmpty, Judged, NotCalled

(* The invariant is preserved by the collection of the memory.             *)
LEMMA CollectIInv ==
    ASSUME IInv, Collect
    PROVE  IInv'
BY DEF Collect, IInv, TypeOK, MemoryCommitted, LoadedComplete, RunningSized, NoLeftovers, IdleEmpty, Judged

(* The invariant is preserved by every step.                               *)
LEMMA NextIInv ==
    ASSUME IInv, [Next]_vars
    PROVE  IInv'
<1>1. CASE UNCHANGED vars
  BY <1>1 DEF vars, IInv, TypeOK, MemoryCommitted, LoadedComplete, RunningSized, NoLeftovers, IdleEmpty, Judged
<1>2. CASE Next
  BY <1>1, <1>2, InstantiateIInv, OutOfMemoryIInv, CallIInv, GrowMemoryIInv, StoreIInv, CallIndirectIInv,
     ReturnIInv, CollectIInv DEF Next, Escaped
<1>3. QED BY <1>1, <1>2

(* IInv holds in every reachable state, for all constants that satisfy the *)
(* assumptions of LinearMemory.                                            *)
THEOREM Invariance == Spec => []IInv
BY InitIInv, NextIInv, PTL DEF Spec

(* The invariant implies what the JIT code relies on.                      *)
LEMMA IInvCommitted == IInv => CommittedExactly
<1> SUFFICES ASSUME IInv PROVE CommittedExactly
  OBVIOUS
<1>1. memory # None => memory.committed = 0..memory.numPages - 1
  BY DEF IInv, MemoryCommitted, Committed
<1>2. ASSUME table # None
      PROVE  /\ table.committed = {(i * ElementBytes) \div PlatformPage : i \in 0..table.size - 1}
             /\ table.committed \subseteq table.reserved
  <2>1. contract \in Contract /\ table = TableOf(contract)
    BY <1>2 DEF IInv, TypeOK
  <2>2. /\ table.size = TableMin[contract]
        /\ table.committed = {PageOf(i) : i \in 0..TableMin[contract] - 1}
        /\ table.reserved = 0..PageOf(maximum_table_elements)
    BY <2>1, TableFilled
  <2>3. ASSUME NEW i \in 0..TableMin[contract] - 1 PROVE PageOf(i) \in 0..PageOf(maximum_table_elements)
    BY <2>1, PageMonotone, TableAssumption
  <2>4. QED BY <2>2, <2>3, Zenon DEF PageOf
<1>3. QED BY <1>1, <1>2 DEF CommittedExactly, IInv, RunningSized

(* Exactly the pages below the size of the memory are committed, a running *)
(* contract has between its minimum and its clamped maximum, and the pages *)
(* of its table are those of its elements: growMemory, shrinkMemory,       *)
(* resetMemory and createTable compute with unsigned words and still never *)
(* commit a page too many or too few.                                      *)
THEOREM CommittedExactlyTheorem == Spec => []CommittedExactly
BY Invariance, IInvCommitted, PTL

(* A contract never finds what an earlier one left in the memory they      *)
(* share, because resetMemory wipes the page that stays and growMemory     *)
(* every page it adds.                                                     *)
THEOREM NoLeftoversTheorem == Spec => []NoLeftovers
<1>1. IInv => NoLeftovers
  BY DEF IInv
<1>2. QED BY <1>1, Invariance, PTL

(* call_indirect reaches exactly the functions that the contract's         *)
(* segments put in its table, and traps with the right cause otherwise.    *)
THEOREM IndirectCallsDeclaredTheorem == Spec => []IndirectCallsDeclared
<1>1. IInv => IndirectCallsDeclared
  BY DEF IInv, Judged, Verdict, IndirectCallsDeclared
<1>2. QED BY <1>1, Invariance, PTL
=============================================================================
