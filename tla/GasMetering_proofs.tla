------------------------- MODULE GasMetering_proofs -------------------------
(***************************************************************************)
(* Proofs about GasMetering: for every body that validation accepts, every *)
(* budget and every depth of the stack, the code that the gas pass writes  *)
(* pays exactly for what it runs, and does what the body did before. The   *)
(* first part is about sequences of operators: what inserting calls of     *)
(* use_gas does to positions, blocks and branches.                         *)
(***************************************************************************)
EXTENDS GasMetering, FiniteSetTheorems, SequenceTheorems, WellFoundedInduction, TLAPS

(* An operator of a contract, and one that the pass may write.             *)
Instruction == [op: Op, n: Nat]
Written == [op: Op \cup {"use_gas"}, n: Nat]

(* Original, of any sequence of operators: the position in the body before *)
(* the pass of the operator that position p stands for.                    *)
Place(c, p) == 1 + Cardinality({k \in 1..p - 1 : c[k].op # "use_gas"})

(* A set of naturals that is not empty has a least element. What would be  *)
(* an induction over positions is stated as: there is no least             *)
(* counterexample.                                                         *)
LEMMA LeastNatural ==
    ASSUME NEW T \in SUBSET Nat, T # {}
    PROVE  \E x \in T : \A y \in T : x <= y
<1> DEFINE R == {ss \in Nat \X Nat : ss[1] < ss[2]}
<1>1. IsWellFoundedOn(R, Nat)
  BY NatLessThanWellFounded, Zenon DEF OpToRel
<1>2. \E x \in T : \A y \in T : ~(<<y, x>> \in R)
  BY <1>1, WFMin, Zenon
<1>3. \A x, y \in T : ~(<<y, x>> \in R) => x <= y
  OBVIOUS
<1>4. QED BY <1>2, <1>3, Zenon

(* Every operator has a price, and use_gas is none of them.                *)
LEMMA OpFacts ==
    /\ "use_gas" \notin Op
    /\ gas_table \in [Op -> Nat]
    /\ \A x \in Op : gas_table[x] \in Nat
<1>1. "use_gas" \notin Op
  BY DEF Op, gas_table
<1>2. DOMAIN gas_table = Op
  BY DEF Op
<1>3. \A x \in Op : gas_table[x] \in Nat
  BY DEF Op, gas_table
<1>4. gas_table = [x \in Op |-> gas_table[x]]
  BY <1>2 DEF gas_table
<1>5. QED BY <1>1, <1>3, <1>4

(* The number of members of a set up to p.                                 *)
LEMMA CountStep ==
    ASSUME NEW S \in SUBSET Nat, NEW p \in Nat
    PROVE  /\ IsFiniteSet(S \cap (1..p)) /\ Cardinality(S \cap (1..p)) \in Nat
           /\ Cardinality(S \cap (1..p + 1)) = Cardinality(S \cap (1..p)) + IF p + 1 \in S THEN 1 ELSE 0
<1>1. \A n \in Nat : IsFiniteSet(S \cap (1..n)) /\ Cardinality(S \cap (1..n)) \in Nat
  <2> SUFFICES ASSUME NEW n \in Nat PROVE IsFiniteSet(S \cap (1..n)) /\ Cardinality(S \cap (1..n)) \in Nat
    OBVIOUS
  <2>1. IsFiniteSet(1..n)
    BY FS_Interval
  <2>2. IsFiniteSet(S \cap (1..n))
    BY <2>1, FS_Subset
  <2>3. QED BY <2>2, FS_CardinalityType
<1>2. CASE p + 1 \in S
  <2>1. S \cap (1..p + 1) = (S \cap (1..p)) \cup {p + 1} /\ p + 1 \notin S \cap (1..p)
    BY <1>2
  <2>2. QED BY <1>1, <1>2, <2>1, FS_AddElement
<1>3. CASE p + 1 \notin S
  <2>1. S \cap (1..p + 1) = S \cap (1..p)
    BY <1>3
  <2>2. QED BY <1>1, <1>3, <2>1
<1>4. QED BY <1>1, <1>2, <1>3

(* use_gas takes no place; every other operator takes one.                 *)
LEMMA PlaceStep ==
    ASSUME NEW c
    PROVE  /\ Place(c, 1) = 1
           /\ \A p \in Nat \ {0} :
                 /\ Place(c, p) \in Nat \ {0}
                 /\ Place(c, p + 1) = Place(c, p) + IF c[p].op # "use_gas" THEN 1 ELSE 0
<1> DEFINE S == {k \in Nat : c[k].op # "use_gas"}
<1>1. \A p \in Nat \ {0} : Place(c, p) = 1 + Cardinality(S \cap (1..p - 1))
  <2>1. \A p \in Nat \ {0} : {k \in 1..p - 1 : c[k].op # "use_gas"} = S \cap (1..p - 1)
    OBVIOUS
  <2>2. QED BY <2>1 DEF Place
<1>2. Place(c, 1) = 1
  <2>1. {k \in 1..1 - 1 : c[k].op # "use_gas"} = {}
    OBVIOUS
  <2>2. QED BY <2>1, FS_EmptySet DEF Place
<1>3. ASSUME NEW p \in Nat \ {0}
      PROVE  /\ Place(c, p) \in Nat \ {0}
             /\ Place(c, p + 1) = Place(c, p) + IF c[p].op # "use_gas" THEN 1 ELSE 0
  <2>1. p - 1 \in Nat /\ (p - 1) + 1 = p /\ (p + 1) - 1 = p /\ p + 1 \in Nat \ {0} /\ S \in SUBSET Nat
    OBVIOUS
  <2>2. /\ Cardinality(S \cap (1..p - 1)) \in Nat
        /\ Cardinality(S \cap (1..p)) = Cardinality(S \cap (1..p - 1)) + IF p \in S THEN 1 ELSE 0
    <3> HIDE DEF S
    <3>1. /\ Cardinality(S \cap (1..p - 1)) \in Nat
          /\ Cardinality(S \cap (1..(p - 1) + 1)) = Cardinality(S \cap (1..p - 1)) + IF (p - 1) + 1 \in S THEN 1 ELSE 0
      BY <2>1, CountStep
    <3>2. QED BY <2>1, <3>1
  <2>3. p \in S <=> c[p].op # "use_gas"
    OBVIOUS
  <2>4. /\ Place(c, p) = 1 + Cardinality(S \cap (1..p - 1))
        /\ Place(c, p + 1) = 1 + Cardinality(S \cap (1..p))
    BY <1>1, <2>1
  <2> HIDE DEF S
  <2>5. QED BY <2>2, <2>3, <2>4
<1>4. QED BY <1>2, <1>3

(* Places keep the order of positions.                                     *)
LEMMA PlaceMonotone ==
    ASSUME NEW c, NEW p \in Nat \ {0}, NEW q \in Nat, p <= q
    PROVE  Place(c, p) <= Place(c, q)
<1> DEFINE S == {k \in 1..p - 1 : c[k].op # "use_gas"}
           T == {k \in 1..q - 1 : c[k].op # "use_gas"}
<1>1. S \in SUBSET T
  OBVIOUS
<1>2. IsFiniteSet(T)
  <2>1. IsFiniteSet(1..q - 1)
    BY FS_Interval
  <2>2. QED BY <2>1, FS_Subset
<1> HIDE DEF S, T
<1>3. Cardinality(S) <= Cardinality(T) /\ Cardinality(S) \in Nat /\ Cardinality(T) \in Nat
  BY <1>1, <1>2, FS_Subset, FS_CardinalityType
<1>4. QED BY <1>3 DEF Place, S, T

(* A place is determined by what stands before the position.               *)
LEMMA PlacePrefix ==
    ASSUME NEW c, NEW d, NEW p \in Nat \ {0}, \A k \in 1..p - 1 : c[k] = d[k]
    PROVE  Place(c, p) = Place(d, p)
<1>1. {k \in 1..p - 1 : c[k].op # "use_gas"} = {k \in 1..p - 1 : d[k].op # "use_gas"}
  OBVIOUS
<1>2. QED BY <1>1 DEF Place

(* Operators without a use_gas between them have consecutive places.       *)
LEMMA PlaceRun ==
    ASSUME NEW c, NEW a \in Nat \ {0}, NEW m \in Nat,
           \A k \in 1..m : c[a + k - 1].op # "use_gas"
    PROVE  \A k \in 0..m : Place(c, a + k) = Place(c, a) + k
<1> DEFINE T == {k \in 0..m : Place(c, a + k) # Place(c, a) + k}
<1> SUFFICES ASSUME T # {} PROVE FALSE
  OBVIOUS
<1>1. PICK x \in T : \A y \in T : x <= y
  <2>1. T \in SUBSET Nat
    OBVIOUS
  <2> HIDE DEF T
  <2>2. QED BY <2>1, LeastNatural
<1>2. Place(c, a) \in Nat
  BY PlaceStep
<1>3. x # 0 /\ x \in 1..m
  BY <1>1, <1>2
<1>4. x - 1 \in 0..m /\ x - 1 \notin T
  BY <1>1, <1>3
<1>5. Place(c, a + (x - 1)) = Place(c, a) + (x - 1)
  BY <1>4
<1>6. a + x - 1 \in Nat \ {0} /\ a + (x - 1) = a + x - 1 /\ (a + x - 1) + 1 = a + x
  BY <1>3
<1>7. Place(c, a + x) = Place(c, a + x - 1) + 1
  <2>1. Place(c, (a + x - 1) + 1) = Place(c, a + x - 1) + IF c[a + x - 1].op # "use_gas" THEN 1 ELSE 0
    BY <1>6, PlaceStep
  <2>2. QED BY <1>3, <1>6, <2>1
<1>8. Place(c, a + x) = Place(c, a) + x
  <2>1. \A u, v \in Nat : u + (v - 1) + 1 = u + v
    OBVIOUS
  <2>2. QED BY <1>2, <1>3, <1>5, <1>6, <1>7, <2>1
<1>9. QED BY <1>1, <1>8

(* Every place below the last is that of some operator.                    *)
LEMMA PlaceOnto ==
    ASSUME NEW c, NEW L \in Nat, NEW j \in Nat \ {0}, j < Place(c, L + 1)
    PROVE  \E k \in 1..L : Place(c, k) = j /\ c[k].op # "use_gas"
<1> DEFINE T == {k \in 1..L + 1 : Place(c, k) > j}
<1>1. \A k \in Nat \ {0} : /\ Place(c, k) \in Nat \ {0} /\ Place(c, 1) = 1
                           /\ Place(c, k + 1) = Place(c, k) + IF c[k].op # "use_gas" THEN 1 ELSE 0
  BY PlaceStep
<1>2. PICK x \in T : \A y \in T : x <= y
  <2>1. T \in SUBSET Nat /\ L + 1 \in T
    BY <1>1
  <2> HIDE DEF T
  <2>2. QED BY <2>1, LeastNatural
<1>3. x # 1
  BY <1>1, <1>2
<1>4. x - 1 \in 1..L /\ x - 1 \in 1..L + 1 /\ x - 1 \notin T /\ (x - 1) + 1 = x /\ x - 1 \in Nat \ {0}
  BY <1>2, <1>3
<1>5. Place(c, x - 1) <= j /\ Place(c, x) > j
  BY <1>1, <1>2, <1>4
<1>6. Place(c, x) = Place(c, x - 1) + IF c[x - 1].op # "use_gas" THEN 1 ELSE 0
  BY <1>1, <1>4
<1>7. Place(c, x - 1) = j /\ c[x - 1].op # "use_gas"
  <2>1. \A u, v \in Nat : u <= j /\ v > j => (v = u + 1 => u = j) /\ v # u + 0
    OBVIOUS
  <2>2. Place(c, x - 1) \in Nat /\ Place(c, x) \in Nat
    BY <1>1, <1>4
  <2>3. QED BY <1>5, <1>6, <2>1, <2>2
<1>8. QED BY <1>4, <1>7
-----------------------------------------------------------------------------
(* Apart from calls of use_gas, c has the operators of d at their places.  *)
Copies(c, d) ==
    /\ d \in Seq(Instruction) /\ c \in Seq(Written)
    /\ \A p \in 1..Len(c) : c[p].op # "use_gas" => c[p] = d[Place(c, p)]

(* c is a whole body d with calls of use_gas, none of them at its end.     *)
Metered(c, d) ==
    /\ Copies(c, d) /\ WellFormed(d)
    /\ Place(c, Len(c) + 1) = Len(d) + 1
    /\ c # <<>> /\ Flushes(c[Len(c)])

(* The numbers of blocks opened and closed, operator by operator.          *)
LEMMA OpenedStep ==
    ASSUME NEW c, NEW p \in Nat
    PROVE  /\ Opened(c, p) \in Nat /\ Closed(c, p) \in Nat
           /\ Opened(c, 0) = 0 /\ Closed(c, 0) = 0
           /\ Opened(c, p + 1) = Opened(c, p) + IF Opens(c[p + 1]) THEN 1 ELSE 0
           /\ Closed(c, p + 1) = Closed(c, p) + IF c[p + 1].op = "end" THEN 1 ELSE 0
<1> DEFINE S == {k \in Nat : Opens(c[k])}
           T == {k \in Nat : c[k].op = "end"}
<1>1. \A n \in Nat : /\ {k \in 1..n : Opens(c[k])} = S \cap (1..n)
                     /\ {k \in 1..n : c[k].op = "end"} = T \cap (1..n)
  OBVIOUS
<1>2. \A n \in Nat : Opened(c, n) = Cardinality(S \cap (1..n)) /\ Closed(c, n) = Cardinality(T \cap (1..n))
  BY <1>1 DEF Opened, Closed
<1>3. S \in SUBSET Nat /\ T \in SUBSET Nat
  OBVIOUS
<1>4. (p + 1 \in S <=> Opens(c[p + 1])) /\ (p + 1 \in T <=> c[p + 1].op = "end")
  OBVIOUS
<1> HIDE DEF S, T
<1>5. S \cap (1..0) = {} /\ T \cap (1..0) = {}
  OBVIOUS
<1>6. Opened(c, 0) = 0 /\ Closed(c, 0) = 0
  BY <1>2, <1>5, FS_EmptySet
<1>7. /\ Cardinality(S \cap (1..p)) \in Nat /\ Cardinality(T \cap (1..p)) \in Nat
      /\ Cardinality(S \cap (1..p + 1)) = Cardinality(S \cap (1..p)) + IF p + 1 \in S THEN 1 ELSE 0
      /\ Cardinality(T \cap (1..p + 1)) = Cardinality(T \cap (1..p)) + IF p + 1 \in T THEN 1 ELSE 0
  BY <1>3, CountStep
<1>8. /\ Opened(c, p) = Cardinality(S \cap (1..p)) /\ Opened(c, p + 1) = Cardinality(S \cap (1..p + 1))
      /\ Closed(c, p) = Cardinality(T \cap (1..p)) /\ Closed(c, p + 1) = Cardinality(T \cap (1..p + 1))
  BY <1>2
<1>9. QED BY <1>4, <1>6, <1>7, <1>8

(* A body starts with the one label of the function itself.                *)
LEMMA LabelsType ==
    ASSUME NEW c, NEW p \in Nat
    PROVE  Labels(c, p) \in Int /\ Labels(c, 0) = 1
<1>1. Opened(c, p) \in Nat /\ Closed(c, p) \in Nat /\ Opened(c, 0) = 0 /\ Closed(c, 0) = 0
  BY OpenedStep
<1>2. QED BY <1>1 DEF Labels

(* use_gas opens and closes no block, so the labels are those of the body  *)
(* before the pass.                                                        *)
LEMMA LabelsCopied ==
    ASSUME NEW c, NEW d, Copies(c, d), NEW p \in 0..Len(c)
    PROVE  Labels(c, p) = Labels(d, Place(c, p + 1) - 1)
<1> DEFINE Alike(x) == /\ Opened(c, x) = Opened(d, Place(c, x + 1) - 1)
                       /\ Closed(c, x) = Closed(d, Place(c, x + 1) - 1)
           T == {x \in 0..Len(c) : ~Alike(x)}
<1> SUFFICES ASSUME T # {} PROVE FALSE
  BY DEF Labels
<1>1. c \in Seq(Written) /\ Len(c) \in Nat
  BY LenProperties DEF Copies
<1>2. PICK x \in T : \A y \in T : x <= y
  <2>1. T \in SUBSET Nat
    BY <1>1
  <2> HIDE DEF T
  <2>2. QED BY <2>1, LeastNatural
<1>3. x \in 0..Len(c) /\ ~Alike(x)
  BY <1>2
<1>4. x # 0
  <2>1. Place(c, 0 + 1) - 1 = 0
    BY PlaceStep
  <2>2. Opened(c, 0) = 0 /\ Closed(c, 0) = 0 /\ Opened(d, 0) = 0 /\ Closed(d, 0) = 0
    BY OpenedStep
  <2>3. Alike(0)
    BY <2>1, <2>2
  <2>4. QED BY <1>3, <2>3
<1>5. x - 1 \in 0..Len(c) /\ Alike(x - 1)
  <2>1. x - 1 \in 0..Len(c) /\ ~(x <= x - 1)
    BY <1>1, <1>3, <1>4
  <2>2. QED BY <1>2, <2>1
<1> HIDE DEF T
<1>6. x \in 1..Len(c) /\ (x - 1) + 1 = x /\ x - 1 \in Nat /\ x \in Nat \ {0}
  BY <1>1, <1>3, <1>4
<1> DEFINE y == Place(c, x)
<1>7. /\ y \in Nat \ {0} /\ y - 1 \in Nat /\ (y - 1) + 1 = y
      /\ Place(c, x + 1) = y + IF c[x].op # "use_gas" THEN 1 ELSE 0
  <2>1. y \in Nat \ {0} /\ Place(c, x + 1) = y + IF c[x].op # "use_gas" THEN 1 ELSE 0
    BY <1>6, PlaceStep
  <2> HIDE DEF y
  <2>2. QED BY <2>1
<1>8. /\ Opened(c, x - 1) = Opened(d, y - 1) /\ Closed(c, x - 1) = Closed(d, y - 1)
  BY <1>5, <1>6
<1>9. /\ Opened(c, x) = Opened(c, x - 1) + IF Opens(c[x]) THEN 1 ELSE 0
      /\ Closed(c, x) = Closed(c, x - 1) + IF c[x].op = "end" THEN 1 ELSE 0
      /\ Opened(c, x - 1) \in Nat /\ Closed(c, x - 1) \in Nat
  <2>1. /\ Opened(c, (x - 1) + 1) = Opened(c, x - 1) + IF Opens(c[(x - 1) + 1]) THEN 1 ELSE 0
        /\ Closed(c, (x - 1) + 1) = Closed(c, x - 1) + IF c[(x - 1) + 1].op = "end" THEN 1 ELSE 0
        /\ Opened(c, x - 1) \in Nat /\ Closed(c, x - 1) \in Nat
    BY <1>6, OpenedStep
  <2>2. QED BY <1>6, <2>1
<1>10. /\ Opened(d, y) = Opened(d, y - 1) + IF Opens(d[y]) THEN 1 ELSE 0
       /\ Closed(d, y) = Closed(d, y - 1) + IF d[y].op = "end" THEN 1 ELSE 0
  <2> HIDE DEF y
  <2>1. /\ Opened(d, (y - 1) + 1) = Opened(d, y - 1) + IF Opens(d[(y - 1) + 1]) THEN 1 ELSE 0
        /\ Closed(d, (y - 1) + 1) = Closed(d, y - 1) + IF d[(y - 1) + 1].op = "end" THEN 1 ELSE 0
    BY <1>7, OpenedStep
  <2>2. QED BY <1>7, <2>1
<1>11. CASE c[x].op = "use_gas"
  <2>1. Place(c, x + 1) - 1 = y - 1
    <3> HIDE DEF y
    <3>1. QED BY <1>7, <1>11
  <2>2. ~Opens(c[x]) /\ c[x].op # "end"
    BY <1>11 DEF Opens
  <2>3. QED BY <1>3, <1>8, <1>9, <2>1, <2>2
<1>12. CASE c[x].op # "use_gas"
  <2>1. Place(c, x + 1) - 1 = y
    <3> HIDE DEF y
    <3>1. QED BY <1>7, <1>12
  <2>2. c[x] = d[y]
    BY <1>6, <1>12 DEF Copies
  <2> HIDE DEF y
  <2>3. QED BY <1>3, <1>8, <1>9, <1>10, <2>1, <2>2
<1>13. QED BY <1>11, <1>12

(* Every operator but use_gas stands for one of the body before the pass,  *)
(* with the same labels around it; the last for the last.                  *)
LEMMA MeteredPlace ==
    ASSUME NEW c, NEW d, Metered(c, d)
    PROVE  /\ Len(c) \in Nat \ {0} /\ Len(d) \in Nat \ {0}
           /\ \A p \in 1..Len(c) : c[p].op # "use_gas" =>
                 /\ Place(c, p) \in 1..Len(d) /\ Place(c, p + 1) = Place(c, p) + 1
                 /\ c[p] = d[Place(c, p)] /\ Labels(c, p) = Labels(d, Place(c, p))
                 /\ Place(c, p) = Len(d) <=> p = Len(c)
<1>1. /\ Copies(c, d) /\ Place(c, Len(c) + 1) = Len(d) + 1 /\ Flushes(c[Len(c)])
      /\ c \in Seq(Written) /\ d \in Seq(Instruction) /\ c # <<>> /\ d # <<>>
  BY DEF Metered, Copies, WellFormed
<1>2. Len(c) \in Nat \ {0} /\ Len(d) \in Nat \ {0}
  BY <1>1, EmptySeq, LenProperties
<1>3. \A p \in Nat \ {0} : /\ Place(c, p) \in Nat \ {0}
                           /\ Place(c, p + 1) = Place(c, p) + IF c[p].op # "use_gas" THEN 1 ELSE 0
  BY PlaceStep
<1>4. ASSUME NEW p \in 1..Len(c), c[p].op # "use_gas"
      PROVE  /\ Place(c, p) \in 1..Len(d) /\ Place(c, p + 1) = Place(c, p) + 1
             /\ c[p] = d[Place(c, p)] /\ Labels(c, p) = Labels(d, Place(c, p))
             /\ Place(c, p) = Len(d) <=> p = Len(c)
  <2>1. p \in Nat \ {0} /\ p + 1 \in Nat \ {0} /\ p + 1 <= Len(c) + 1 /\ Len(c) + 1 \in Nat \ {0} /\ p \in 0..Len(c)
    BY <1>2
  <2>2. Place(c, p) \in Nat \ {0} /\ Place(c, p + 1) = Place(c, p) + 1
    BY <1>3, <1>4, <2>1
  <2>3. Place(c, p + 1) <= Len(d) + 1
    <3>1. Place(c, p + 1) <= Place(c, Len(c) + 1)
      BY <2>1, PlaceMonotone
    <3>2. QED BY <1>1, <3>1
  <2>4. Place(c, p) \in 1..Len(d)
    BY <1>2, <2>2, <2>3
  <2>5. c[p] = d[Place(c, p)]
    BY <1>1, <1>4 DEF Copies
  <2>6. Labels(c, p) = Labels(d, Place(c, p))
    <3>1. Labels(c, p) = Labels(d, Place(c, p + 1) - 1)
      BY <1>1, <2>1, LabelsCopied
    <3>2. Place(c, p + 1) - 1 = Place(c, p)
      BY <2>2
    <3>3. QED BY <3>1, <3>2
  <2>7. ASSUME p = Len(c) PROVE Place(c, p) = Len(d)
    BY <1>1, <1>2, <2>2, <2>7
  <2>8. ASSUME p # Len(c) PROVE Place(c, p) # Len(d)
    <3>1. Len(c) \in Nat \ {0} /\ p + 1 <= Len(c) /\ c[Len(c)].op # "use_gas"
      BY <1>1, <1>2, <2>8 DEF Flushes
    <3>2. Place(c, p + 1) <= Place(c, Len(c))
      BY <2>1, <3>1, PlaceMonotone
    <3>3. Place(c, Len(c)) \in Nat /\ Place(c, Len(c) + 1) = Place(c, Len(c)) + 1
      BY <1>3, <3>1
    <3>4. QED BY <1>1, <1>2, <2>2, <3>2, <3>3
  <2>9. QED BY <2>2, <2>4, <2>5, <2>6, <2>7, <2>8
<1>5. QED BY <1>2, <1>4

(* The code written ends with the end of the function and not before, as   *)
(* validation demands of the body it was written from.                     *)
LEMMA MeteredLabels ==
    ASSUME NEW c, NEW d, Metered(c, d)
    PROVE  /\ c[Len(c)].op = "end" /\ Labels(c, Len(c)) = 0
           /\ \A p \in 0..Len(c) - 1 : Labels(c, p) >= 1
<1>1. /\ Copies(c, d) /\ WellFormed(d) /\ Place(c, Len(c) + 1) = Len(d) + 1 /\ Flushes(c[Len(c)])
      /\ Len(c) \in Nat \ {0} /\ Len(d) \in Nat \ {0}
  BY MeteredPlace DEF Metered
<1>2. c[Len(c)].op # "use_gas" /\ Len(c) \in 1..Len(c)
  BY <1>1 DEF Flushes
<1>3. Place(c, Len(c)) = Len(d) /\ c[Len(c)] = d[Len(d)] /\ Labels(c, Len(c)) = Labels(d, Len(d))
  BY <1>2, MeteredPlace
<1>4. c[Len(c)].op = "end" /\ Labels(c, Len(c)) = 0
  BY <1>1, <1>3 DEF WellFormed
<1>5. ASSUME NEW p \in 0..Len(c) - 1 PROVE Labels(c, p) >= 1
  <2>1. p \in 0..Len(c) /\ p + 1 \in Nat \ {0} /\ p + 1 <= Len(c) /\ Len(c) \in Nat
    BY <1>1
  <2>2. Labels(c, p) = Labels(d, Place(c, p + 1) - 1)
    BY <1>1, <2>1, LabelsCopied
  <2>3. Place(c, p + 1) \in Nat \ {0} /\ Place(c, p + 1) <= Len(d)
    <3>1. Place(c, p + 1) <= Place(c, Len(c))
      BY <2>1, PlaceMonotone
    <3>2. Place(c, p + 1) \in Nat \ {0}
      BY <2>1, PlaceStep
    <3>3. QED BY <1>3, <3>1, <3>2
  <2>4. Place(c, p + 1) - 1 = 0 \/ Place(c, p + 1) - 1 \in 1..Len(d) - 1
    BY <1>1, <2>3
  <2>5. Labels(d, 0) = 1
    BY LabelsType
  <2>6. CASE Place(c, p + 1) - 1 = 0
    BY <2>2, <2>5, <2>6
  <2>7. CASE Place(c, p + 1) - 1 \in 1..Len(d) - 1
    <3>1. PICK j \in 1..Len(d) - 1 : j = Place(c, p + 1) - 1
      BY <2>7
    <3>2. Labels(d, j) > 0 /\ Labels(d, j) \in Int
      BY <1>1, <3>1, LabelsType DEF WellFormed
    <3>3. QED BY <2>2, <3>1, <3>2
  <2>8. QED BY <2>4, <2>6, <2>7
<1>6. QED BY <1>4, <1>5

(* One operator is within the block of another exactly when it was.        *)
LEMMA InsideCopied ==
    ASSUME NEW c, NEW d, Metered(c, d), NEW o \in 1..Len(c), NEW q \in 1..Len(c),
           c[o].op # "use_gas", c[q].op # "use_gas"
    PROVE  Inside(c, o, q) <=> Inside(d, Place(c, o), Place(c, q))
<1>1. /\ Len(c) \in Nat \ {0} /\ Len(d) \in Nat \ {0} /\ Copies(c, d)
      /\ o \in Nat \ {0} /\ q \in Nat \ {0} /\ o + 1 \in Nat \ {0} /\ q + 1 \in Nat \ {0}
  BY MeteredPlace DEF Metered
<1>2. /\ Place(c, o) \in 1..Len(d) /\ Place(c, q) \in 1..Len(d)
      /\ Place(c, o + 1) = Place(c, o) + 1 /\ Place(c, q + 1) = Place(c, q) + 1
      /\ Labels(c, o) = Labels(d, Place(c, o))
  BY MeteredPlace
<1>3. o < q <=> Place(c, o) < Place(c, q)
  <2>1. ASSUME o < q PROVE Place(c, o) < Place(c, q)
    <3>1. Place(c, o + 1) <= Place(c, q)
      BY <1>1, <2>1, PlaceMonotone
    <3>2. QED BY <1>1, <1>2, <3>1
  <2>2. ASSUME ~(o < q) PROVE ~(Place(c, o) < Place(c, q))
    <3>1. Place(c, q) <= Place(c, o)
      BY <1>1, <2>2, PlaceMonotone
    <3>2. QED BY <1>1, <1>2, <3>1
  <2>3. QED BY <2>1, <2>2
<1>4. ASSUME Inside(c, o, q), NEW j \in Place(c, o)..Place(c, q) - 1
      PROVE  Labels(d, j) >= Labels(d, Place(c, o))
  <2>1. j \in Nat \ {0} /\ j < Place(c, q) /\ Place(c, o) <= j
    BY <1>1, <1>2
  <2>2. q - 1 \in Nat /\ (q - 1) + 1 = q
    BY <1>1
  <2>3. PICK k \in 1..q - 1 : Place(c, k) = j /\ c[k].op # "use_gas"
    BY <2>1, <2>2, PlaceOnto
  <2>4. k \in 1..Len(c) /\ k \in Nat \ {0}
    BY <1>1, <2>3
  <2>5. o <= k
    <3>1. ASSUME k < o PROVE FALSE
      <4>1. Place(c, k + 1) <= Place(c, o) /\ Place(c, k + 1) = Place(c, k) + 1
        BY <1>1, <2>3, <2>4, <3>1, PlaceMonotone, MeteredPlace
      <4>2. QED BY <1>1, <1>2, <2>1, <2>3, <4>1
    <3>2. QED BY <1>1, <2>4, <3>1
  <2>6. Labels(c, k) >= Labels(c, o)
    BY <1>1, <1>4, <2>3, <2>4, <2>5 DEF Inside
  <2>7. Labels(c, k) = Labels(d, j)
    BY <2>3, <2>4, MeteredPlace
  <2>8. QED BY <1>2, <2>6, <2>7
<1>5. ASSUME Inside(d, Place(c, o), Place(c, q)), NEW k \in o..q - 1
      PROVE  Labels(c, k) >= Labels(c, o)
  <2>1. k \in 0..Len(c) /\ k + 1 \in Nat \ {0} /\ o + 1 <= k + 1 /\ k + 1 <= q
    BY <1>1
  <2>2. Labels(c, k) = Labels(d, Place(c, k + 1) - 1)
    BY <1>1, <2>1, LabelsCopied
  <2>3. Place(c, o + 1) <= Place(c, k + 1) /\ Place(c, k + 1) <= Place(c, q) /\ Place(c, k + 1) \in Nat \ {0}
    BY <1>1, <2>1, PlaceMonotone, PlaceStep
  <2>4. Place(c, k + 1) - 1 \in Place(c, o)..Place(c, q) - 1
    BY <1>1, <1>2, <2>3
  <2>5. Labels(d, Place(c, k + 1) - 1) >= Labels(d, Place(c, o))
    BY <1>5, <2>4 DEF Inside
  <2>6. QED BY <1>2, <2>2, <2>5
<1>6. QED BY <1>3, <1>4, <1>5 DEF Inside

(* An operator that opens a block adds a label to the function's own.      *)
LEMMA OpenerLabels ==
    ASSUME NEW c, NEW d, Metered(c, d), NEW o \in 1..Len(c) - 1, Opens(c[o])
    PROVE  Labels(c, o) >= 2 /\ Labels(c, o) \in Int
<1>1. Len(c) \in Nat \ {0}
  BY MeteredPlace
<1>2. o - 1 \in 0..Len(c) - 1 /\ o - 1 \in Nat /\ (o - 1) + 1 = o /\ o \in Nat
  BY <1>1
<1>3. Labels(c, o - 1) >= 1
  BY <1>2, MeteredLabels
<1>4. /\ Opened(c, o) = Opened(c, o - 1) + 1 /\ Closed(c, o) = Closed(c, o - 1)
      /\ Opened(c, o - 1) \in Nat /\ Closed(c, o - 1) \in Nat
  <2>1. /\ Opened(c, (o - 1) + 1) = Opened(c, o - 1) + IF Opens(c[(o - 1) + 1]) THEN 1 ELSE 0
        /\ Closed(c, (o - 1) + 1) = Closed(c, o - 1) + IF c[(o - 1) + 1].op = "end" THEN 1 ELSE 0
        /\ Opened(c, o - 1) \in Nat /\ Closed(c, o - 1) \in Nat
    BY <1>2, OpenedStep
  <2>2. c[o].op # "end"
    BY DEF Opens
  <2>3. QED BY <1>2, <2>1, <2>2
<1>5. QED BY <1>3, <1>4 DEF Labels

(* The end of a block is the end of that block before the pass.            *)
LEMMA EndsCopied ==
    ASSUME NEW c, NEW d, Metered(c, d), NEW o \in 1..Len(c), Opens(c[o]), NEW q \in Ends(c, o)
    PROVE  /\ q \in 1..Len(c) - 1 /\ c[q].op = "end"
           /\ Place(c, q) \in Ends(d, Place(c, o)) /\ Place(c, q + 1) = Place(c, q) + 1
<1>1. /\ q \in 1..Len(c) /\ Inside(c, o, q) /\ c[q].op = "end" /\ Labels(c, q) = Labels(c, o) - 1
  BY DEF Ends
<1>2. Len(c) \in Nat \ {0} /\ c[o].op # "use_gas" /\ c[q].op # "use_gas"
  BY <1>1, MeteredPlace DEF Opens
<1>3. q \in 1..Len(c) - 1
  <2>1. o < q /\ o \in 1..Len(c) - 1
    BY <1>1, <1>2 DEF Inside
  <2>2. Labels(c, o) >= 2 /\ Labels(c, o) \in Int
    BY <2>1, OpenerLabels
  <2>3. Labels(c, Len(c)) = 0
    BY MeteredLabels
  <2>4. QED BY <1>1, <1>2, <2>2, <2>3
<1>4. Place(c, q) \in 1..Len(d) /\ Place(c, q + 1) = Place(c, q) + 1 /\ c[q] = d[Place(c, q)]
  BY <1>1, <1>2, MeteredPlace
<1>5. Labels(c, q) = Labels(d, Place(c, q)) /\ Labels(c, o) = Labels(d, Place(c, o))
  BY <1>1, <1>2, MeteredPlace
<1>6. Inside(d, Place(c, o), Place(c, q))
  BY <1>1, <1>2, InsideCopied
<1>7. Place(c, q) \in Ends(d, Place(c, o))
  BY <1>1, <1>4, <1>5, <1>6 DEF Ends
<1>8. QED BY <1>1, <1>3, <1>4, <1>7

(* So is the else of an if; an if without one had none.                    *)
LEMMA ElsesCopied ==
    ASSUME NEW c, NEW d, Metered(c, d), NEW o \in 1..Len(c), Opens(c[o])
    PROVE  /\ \A q \in Elses(c, o) :
                 /\ q \in 1..Len(c) - 1 /\ c[q].op = "else"
                 /\ Place(c, q) \in Elses(d, Place(c, o)) /\ Place(c, q + 1) = Place(c, q) + 1
           /\ Elses(c, o) = {} => Elses(d, Place(c, o)) = {}
<1>1. Len(c) \in Nat \ {0} /\ c[o].op # "use_gas" /\ Labels(c, o) = Labels(d, Place(c, o))
      /\ Place(c, Len(c) + 1) = Len(d) + 1 /\ Len(d) \in Nat
  BY MeteredPlace DEF Opens, Metered
<1>2. ASSUME NEW q \in Elses(c, o)
      PROVE  /\ q \in 1..Len(c) - 1 /\ c[q].op = "else"
             /\ Place(c, q) \in Elses(d, Place(c, o)) /\ Place(c, q + 1) = Place(c, q) + 1
  <2>1. /\ q \in 1..Len(c) /\ Inside(c, o, q) /\ c[q].op = "else" /\ Labels(c, q) = Labels(c, o)
    BY DEF Elses
  <2>2. c[q].op # "use_gas" /\ c[q].op # "end" /\ c[Len(c)].op = "end"
    BY <2>1, MeteredLabels
  <2>3. q \in 1..Len(c) - 1
    BY <1>1, <2>1, <2>2
  <2>4. Place(c, q) \in 1..Len(d) /\ Place(c, q + 1) = Place(c, q) + 1 /\ c[q] = d[Place(c, q)]
        /\ Labels(c, q) = Labels(d, Place(c, q))
    BY <2>1, <2>2, MeteredPlace
  <2>5. Inside(d, Place(c, o), Place(c, q))
    BY <1>1, <2>1, <2>2, InsideCopied
  <2>6. Place(c, q) \in Elses(d, Place(c, o))
    BY <1>1, <2>1, <2>4, <2>5 DEF Elses
  <2>7. QED BY <2>1, <2>3, <2>4, <2>6
<1>3. ASSUME NEW j \in Elses(d, Place(c, o)) PROVE Elses(c, o) # {}
  <2>1. j \in 1..Len(d) /\ Inside(d, Place(c, o), j) /\ d[j].op = "else" /\ Labels(d, j) = Labels(d, Place(c, o))
    BY DEF Elses
  <2>2. j \in Nat \ {0} /\ j < Place(c, Len(c) + 1)
    BY <1>1, <2>1
  <2>3. PICK k \in 1..Len(c) : Place(c, k) = j /\ c[k].op # "use_gas"
    BY <1>1, <2>2, PlaceOnto
  <2>4. Inside(c, o, k)
    BY <1>1, <2>1, <2>3, InsideCopied
  <2>5. c[k] = d[j] /\ Labels(c, k) = Labels(d, j)
    BY <2>3, MeteredPlace
  <2>6. k \in Elses(c, o)
    BY <1>1, <2>1, <2>4, <2>5 DEF Elses
  <2>7. QED BY <2>6
<1>4. QED BY <1>2, <1>3

(* A branch goes to a position behind an operator that flushes, and to the *)
(* place that the branch of the body before the pass goes to.              *)
Lands(c, q, S) ==
    q \in 2..Len(c) /\ Flushes(c[q - 1]) /\ Place(c, q) \in S

(* A branch by n labels goes behind a loop operator or behind an end, both *)
(* of which flush, and to the place it went to before the pass.            *)
LEMMA TargetCopied ==
    ASSUME NEW c, NEW d, Metered(c, d), NEW p \in 1..Len(c), c[p].op # "use_gas",
           NEW n, NEW q \in Target(c, p, n)
    PROVE  \/ q = Exit /\ Exit \in Target(d, Place(c, p), n)
           \/ Lands(c, q, Target(d, Place(c, p), n))
<1> DEFINE r == Place(c, p)
<1>1. Len(c) \in Nat \ {0} /\ Labels(c, p) = Labels(d, r) /\ r \in 1..Len(d) /\ Len(d) \in Nat
  BY MeteredPlace
<1>2. CASE Labels(c, p) = n + 1
  <2>1. q = Exit /\ Target(d, r, n) = {Exit}
    BY <1>1, <1>2 DEF Target
  <2>2. QED BY <2>1
<1>3. CASE Labels(c, p) # n + 1
  <2>1. PICK o \in 1..p - 1 :
           /\ Opens(c[o]) /\ Inside(c, o, p) /\ Labels(c, o) = Labels(c, p) - n
           /\ q \in IF c[o].op = "loop" THEN {o + 1} ELSE {e + 1 : e \in Ends(c, o)}
    BY <1>3 DEF Target
  <2>2. o \in 1..Len(c) /\ c[o].op # "use_gas" /\ o + 1 \in 2..Len(c) /\ (o + 1) - 1 = o
    BY <1>1, <2>1 DEF Opens
  <2>3. /\ Place(c, o) \in 1..Len(d) /\ Place(c, o + 1) = Place(c, o) + 1 /\ c[o] = d[Place(c, o)]
        /\ Labels(c, o) = Labels(d, Place(c, o))
    BY <2>2, MeteredPlace
  <2>4. Inside(d, Place(c, o), r)
    BY <2>1, <2>2, InsideCopied
  <2>5. Place(c, o) \in 1..r - 1
    <3>1. Place(c, o) < r
      BY <2>4 DEF Inside
    <3> HIDE DEF r
    <3>2. QED BY <1>1, <2>3, <3>1
  <2>6. Opens(d[Place(c, o)]) /\ Labels(d, Place(c, o)) = Labels(d, r) - n /\ Labels(d, r) # n + 1
    BY <1>1, <1>3, <2>1, <2>3
  <2>7. (IF d[Place(c, o)].op = "loop" THEN {Place(c, o) + 1} ELSE {e + 1 : e \in Ends(d, Place(c, o))})
           \subseteq Target(d, r, n)
    <3> HIDE DEF r
    <3>1. QED BY <2>4, <2>5, <2>6 DEF Target
  <2>8. CASE c[o].op = "loop"
    <3>1. q = o + 1 /\ Place(c, q) \in Target(d, r, n)
      BY <2>1, <2>3, <2>7, <2>8
    <3>2. QED BY <2>2, <2>8, <3>1 DEF Lands, Flushes
  <2>9. CASE c[o].op # "loop"
    <3>1. PICK e \in Ends(c, o) : q = e + 1
      BY <2>1, <2>9
    <3>2. /\ e \in 1..Len(c) - 1 /\ c[e].op = "end"
          /\ Place(c, e) \in Ends(d, Place(c, o)) /\ Place(c, e + 1) = Place(c, e) + 1
      BY <2>1, <2>2, EndsCopied
    <3>3. Place(c, q) \in Target(d, r, n)
      BY <2>3, <2>7, <2>9, <3>1, <3>2
    <3>4. q \in 2..Len(c) /\ q - 1 = e
      BY <1>1, <3>1, <3>2
    <3>5. QED BY <3>2, <3>3, <3>4 DEF Lands, Flushes
  <2>10. QED BY <2>8, <2>9
<1>4. QED BY <1>2, <1>3

(* Whatever may follow an operator of the code written could follow it     *)
(* before the pass; and where that is not simply the next operator, both   *)
(* it and the operator before the target flush.                            *)
LEMMA SuccessorsCopied ==
    ASSUME NEW c, NEW d, Metered(c, d), NEW p \in 1..Len(c), c[p].op # "use_gas", NEW q \in Successors(c, p)
    PROVE  \/ q = Exit /\ Exit \in Successors(d, Place(c, p)) /\ Flushes(c[p])
           \/ Flushes(c[p]) /\ Lands(c, q, Successors(d, Place(c, p)))
           \/ q = p + 1 /\ q \in 2..Len(c) /\ Place(c, q) \in Successors(d, Place(c, p))
<1> DEFINE r == Place(c, p)
<1>1. /\ Len(c) \in Nat \ {0} /\ Len(d) \in Nat /\ c[p] = d[r] /\ Place(c, p + 1) = r + 1
      /\ r = Len(d) <=> p = Len(c)
  BY MeteredPlace
<1>2. c[Len(c)].op = "end"
  BY MeteredLabels
<1>3. c[p].op # "end" => p + 1 \in 2..Len(c)
  BY <1>1, <1>2
<1> HIDE DEF r
<1>4. CASE c[p].op = "br"
  <2>1. Successors(c, p) = Target(c, p, c[p].n) /\ Successors(d, r) = Target(d, r, c[p].n) /\ Flushes(c[p])
    BY <1>1, <1>4 DEF Successors, Flushes
  <2>2. QED BY <2>1, TargetCopied DEF r
<1>5. CASE c[p].op = "br_if"
  <2>1. /\ Successors(c, p) = Target(c, p, c[p].n) \cup {p + 1}
        /\ Successors(d, r) = Target(d, r, c[p].n) \cup {r + 1} /\ Flushes(c[p])
    BY <1>1, <1>5 DEF Successors, Flushes
  <2>2. CASE q \in Target(c, p, c[p].n)
    <3>1. \/ q = Exit /\ Exit \in Target(d, r, c[p].n)
          \/ Lands(c, q, Target(d, r, c[p].n))
      BY <2>2, TargetCopied DEF r
    <3>2. QED BY <2>1, <3>1 DEF Lands, r
  <2>3. CASE q = p + 1
    BY <1>1, <1>3, <1>5, <2>1, <2>3 DEF r
  <2>4. QED BY <2>1, <2>2, <2>3
<1>6. CASE c[p].op = "br_table"
  <2>1. /\ Successors(c, p) = UNION {Target(c, p, n) : n \in 0..c[p].n}
        /\ Successors(d, r) = UNION {Target(d, r, n) : n \in 0..c[p].n} /\ Flushes(c[p])
    BY <1>1, <1>6 DEF Successors, Flushes
  <2>2. PICK n \in 0..c[p].n : q \in Target(c, p, n)
    BY <2>1
  <2>3. \/ q = Exit /\ Exit \in Target(d, r, n)
        \/ Lands(c, q, Target(d, r, n))
    BY <2>2, TargetCopied DEF r
  <2>4. Target(d, r, n) \subseteq Successors(d, r)
    BY <2>1
  <2>5. QED BY <2>1, <2>3, <2>4 DEF Lands, r
<1>7. CASE c[p].op = "return"
  <2>1. Successors(c, p) = {Exit} /\ Successors(d, r) = {Exit} /\ Flushes(c[p])
    BY <1>1, <1>7 DEF Successors, Flushes
  <2>2. QED BY <2>1 DEF r
<1>8. CASE c[p].op = "if"
  <2>1. /\ Successors(c, p) = {p + 1} \cup {e + 1 : e \in IF Elses(c, p) = {} THEN Ends(c, p) ELSE Elses(c, p)}
        /\ Successors(d, r) = {r + 1} \cup {e + 1 : e \in IF Elses(d, r) = {} THEN Ends(d, r) ELSE Elses(d, r)}
        /\ Flushes(c[p]) /\ Opens(c[p])
    BY <1>1, <1>8 DEF Successors, Flushes, Opens
  <2>2. CASE q = p + 1
    BY <1>1, <1>3, <1>8, <2>1, <2>2 DEF r
  <2>3. CASE Elses(c, p) = {} /\ q # p + 1
    <3>1. PICK e \in Ends(c, p) : q = e + 1
      BY <2>1, <2>3
    <3>2. /\ e \in 1..Len(c) - 1 /\ c[e].op = "end"
          /\ Place(c, e) \in Ends(d, r) /\ Place(c, e + 1) = Place(c, e) + 1
      BY <2>1, EndsCopied DEF r
    <3>3. Elses(d, r) = {}
      BY <2>1, <2>3, ElsesCopied DEF r
    <3>4. Place(c, q) \in Successors(d, r)
      BY <2>1, <3>1, <3>2, <3>3
    <3>5. q \in 2..Len(c) /\ q - 1 = e
      BY <1>1, <3>1, <3>2
    <3>6. QED BY <2>1, <3>2, <3>4, <3>5 DEF Lands, Flushes, r
  <2>4. CASE Elses(c, p) # {} /\ q # p + 1
    <3>1. PICK e \in Elses(c, p) : q = e + 1
      BY <2>1, <2>4
    <3>2. /\ e \in 1..Len(c) - 1 /\ c[e].op = "else"
          /\ Place(c, e) \in Elses(d, r) /\ Place(c, e + 1) = Place(c, e) + 1
      BY <2>1, ElsesCopied DEF r
    <3>3. Place(c, q) \in Successors(d, r)
      BY <2>1, <3>1, <3>2
    <3>4. q \in 2..Len(c) /\ q - 1 = e
      BY <1>1, <3>1, <3>2
    <3>5. QED BY <2>1, <3>2, <3>3, <3>4 DEF Lands, Flushes, r
  <2>5. QED BY <2>2, <2>3, <2>4
<1>9. CASE c[p].op = "else"
  <2>1. Successors(c, p) = Target(c, p, 0) /\ Successors(d, r) = Target(d, r, 0) /\ Flushes(c[p])
    BY <1>1, <1>9 DEF Successors, Flushes
  <2>2. QED BY <2>1, TargetCopied DEF r
<1>10. CASE c[p].op = "end" /\ p = Len(c)
  <2>1. Successors(c, p) = {Exit} /\ Successors(d, r) = {Exit} /\ Flushes(c[p])
    BY <1>1, <1>10 DEF Successors, Flushes
  <2>2. QED BY <2>1 DEF r
<1>11. CASE c[p].op = "unreachable"
  <2>1. Successors(c, p) = {}
    BY <1>11 DEF Successors
  <2>2. QED BY <2>1
<1>12. CASE /\ c[p].op \notin {"br", "br_if", "br_table", "return", "if", "else", "unreachable"}
            /\ ~(c[p].op = "end" /\ p = Len(c))
  <2>1. Successors(c, p) = {p + 1} /\ Successors(d, r) = {r + 1}
    BY <1>1, <1>12 DEF Successors
  <2>2. p + 1 \in 2..Len(c)
    BY <1>1, <1>3, <1>12
  <2>3. QED BY <1>1, <2>1, <2>2 DEF r
<1>13. QED BY <1>4, <1>5, <1>6, <1>7, <1>8, <1>9, <1>10, <1>11, <1>12
-----------------------------------------------------------------------------
(* What waits on the stack for a call to return. TypeOK types the          *)
(* variables.                                                              *)
Frame == [pc: Nat, credit: Nat]

TypeOK ==
    /\ status \in {"inject", "running", "returned", "trapped", "aborted", "exhausted"}
    /\ code \in Program
    /\ pos \in 0..Len(code)
    /\ out \in Seq(Written)
    /\ tmp_stream \in Seq(Instruction)
    /\ gas \in Nat
    /\ pc \in Nat
    /\ credit \in Nat
    /\ callers \in Seq(Frame)
    /\ remained \in Nat

(* The price of the first k operators held back, for every k.              *)
Spent(spent) ==
    /\ spent \in [0..Len(tmp_stream) -> 0..gas]
    /\ spent[0] = 0 /\ spent[Len(tmp_stream)] = gas
    /\ \A k \in 1..Len(tmp_stream) : spent[k] = spent[k - 1] + Price(tmp_stream[k])

(* tmp_stream has the operators read last, none of which flushes, and gas  *)
(* is their price. The sum has no closed form, so it is given by a         *)
(* function that is said to exist.                                         *)
Held ==
    /\ Len(tmp_stream) <= pos
    /\ \A k \in 1..Len(tmp_stream) :
          tmp_stream[k] = code[pos - Len(tmp_stream) + k] /\ ~Flushes(tmp_stream[k])
    /\ \E spent : Spent(spent)

(* What is written so far copies what was read and is not held back, and   *)
(* ends with an operator that flushes.                                     *)
Copied ==
    /\ Place(out, Len(out) + 1) = pos - Len(tmp_stream) + 1
    /\ \A p \in 1..Len(out) : out[p].op # "use_gas" => out[p] = code[Place(out, p)]
    /\ out # <<>> => Flushes(out[Len(out)])

(* A function from positions of the code written to the credit a frame has *)
(* there: use_gas adds its argument, every other operator takes its price, *)
(* nothing is left behind one that flushes.                                *)
Balanced(due) ==
    /\ due \in [1..Len(out) + 1 -> Nat]
    /\ due[1] = 0
    /\ \A p \in 1..Len(out) :
          /\ out[p].op = "use_gas" => due[p + 1] = due[p] + out[p].n
          /\ out[p].op # "use_gas" => due[p] = due[p + 1] + Price(out[p])
          /\ Flushes(out[p]) => due[p + 1] = 0

(* The run is at positions of that code, and has the credit due there, in  *)
(* the current frame and in the frames below.                              *)
Paying(due) ==
    /\ status = "inject" => pc = 1 /\ credit = 0 /\ callers = <<>>
    /\ status # "inject" => pos = Len(code)
    /\ Running => pc \in 1..Len(out) /\ credit = due[pc]
    /\ \A k \in 1..Len(callers) : callers[k].pc \in 1..Len(out) /\ callers[k].credit = due[callers[k].pc]
    /\ status = "returned" => credit = 0

(* The pass extends such a function as it writes; the run keeps to it.     *)
Paid == \E due : Balanced(due) /\ Paying(due)

(* The inductive invariant. PaidExactly speaks of the credit at the        *)
(* present position only; that a branch finds no credit left at its        *)
(* target, and that a return finds in the frame below what it left there,  *)
(* needs the credit due at every position. Copied says where branches      *)
(* lead.                                                                   *)
IInv == TypeOK /\ Held /\ Copied /\ Paid

-----------------------------------------------------------------------------
(* What validation says of a body.                                         *)
LEMMA ProgramFacts ==
    ASSUME NEW c \in Program
    PROVE  /\ c \in Seq(Instruction) /\ WellFormed(c) /\ Len(c) \in Nat \ {0} /\ c[Len(c)].op = "end"
           /\ \A p \in 1..Len(c) : c[p] \in Instruction
<1>1. c \in Seq(Instruction) /\ WellFormed(c)
  BY GasAssumption DEF Instruction
<1>2. c # <<>> /\ c[Len(c)].op = "end"
  BY <1>1 DEF WellFormed
<1>3. Len(c) \in Nat \ {0}
  BY <1>1, <1>2, EmptySeq, LenProperties
<1>4. \A p \in 1..Len(c) : c[p] \in Instruction
  BY <1>1, ElementOfSeq
<1>5. QED BY <1>1, <1>2, <1>3, <1>4

(* What the decoder hands on.                                              *)
LEMMA InstructionFacts ==
    ASSUME NEW i \in Instruction
    PROVE  i.op \in Op /\ i.op # "use_gas" /\ Price(i) \in Nat /\ i \in Written
BY OpFacts DEF Instruction, Price, Written

(* Nothing is read, written or paid at the start.                          *)
LEMMA InitIInv == Init => IInv
<1> SUFFICES ASSUME Init PROVE IInv
  OBVIOUS
<1> USE DEF Init
<1>1. Len(code) \in Nat \ {0}
  BY ProgramFacts
<1>2. TypeOK
  BY <1>1, GasAssumption DEF TypeOK
<1>3. Held
  <2> DEFINE spent == [k \in 0..0 |-> 0]
  <2>1. Spent(spent)
    BY DEF Spent
  <2>2. QED BY <2>1 DEF Held
<1>4. Copied
  <2>1. Place(out, 0 + 1) = 1
    BY PlaceStep
  <2>2. QED BY <2>1 DEF Copied
<1>5. Paid
  <2> DEFINE due == [p \in 1..1 |-> 0]
  <2>1. Balanced(due)
    BY DEF Balanced
  <2>2. Paying(due)
    BY DEF Paying, Running
  <2>3. QED BY <2>1, <2>2 DEF Paid
<1>6. QED BY <1>2, <1>3, <1>4, <1>5 DEF IInv

(* A body ends with an end, which flushes, so when all of it is read all   *)
(* of it is written.                                                       *)
LEMMA FinalMetered ==
    ASSUME IInv, pos = Len(code)
    PROVE  Metered(out, code) /\ tmp_stream = <<>>
<1>1. TypeOK /\ Held /\ Copied
  BY DEF IInv
<1>2. /\ code \in Seq(Instruction) /\ WellFormed(code) /\ Len(code) \in Nat \ {0} /\ code[Len(code)].op = "end"
  BY <1>1, ProgramFacts DEF TypeOK
<1>3. tmp_stream = <<>>
  <2>1. tmp_stream \in Seq(Instruction) /\ Len(tmp_stream) \in Nat
    BY <1>1, LenProperties DEF TypeOK
  <2>2. ASSUME Len(tmp_stream) # 0 PROVE FALSE
    <3>1. Len(tmp_stream) \in 1..Len(tmp_stream) /\ pos - Len(tmp_stream) + Len(tmp_stream) = Len(code)
      BY <1>2, <2>1, <2>2
    <3>2. tmp_stream[Len(tmp_stream)] = code[Len(code)] /\ ~Flushes(tmp_stream[Len(tmp_stream)])
      BY <1>1, <3>1 DEF Held
    <3>3. QED BY <1>2, <3>2 DEF Flushes
  <2>3. QED BY <2>1, <2>2, EmptySeq
<1>4. Place(out, Len(out) + 1) = Len(code) + 1
  <2>1. Len(tmp_stream) = 0
    BY <1>3
  <2>2. QED BY <1>1, <1>2, <2>1 DEF Copied
<1>5. out # <<>>
  <2>1. ASSUME out = <<>> PROVE FALSE
    <3>1. Place(out, 0 + 1) = 1 /\ Len(out) = 0
      BY <2>1, PlaceStep
    <3>2. QED BY <1>2, <1>4, <3>1
  <2>2. QED BY <2>1
<1>6. QED BY <1>1, <1>2, <1>3, <1>4, <1>5 DEF Metered, Copies, Copied, TypeOK

(* Concatenation, by positions.                                            *)
LEMMA Joined ==
    ASSUME NEW S, NEW a \in Seq(S), NEW b \in Seq(S)
    PROVE  /\ a \o b \in Seq(S) /\ Len(a \o b) = Len(a) + Len(b) /\ Len(a) \in Nat /\ Len(b) \in Nat
           /\ \A k \in 1..Len(a) : (a \o b)[k] = a[k]
           /\ \A k \in 1..Len(b) : (a \o b)[Len(a) + k] = b[k]
<1>1. /\ a \o b \in Seq(S) /\ Len(a \o b) = Len(a) + Len(b) /\ Len(a) \in Nat /\ Len(b) \in Nat
      /\ \A k \in 1..Len(a) + Len(b) : (a \o b)[k] = IF k <= Len(a) THEN a[k] ELSE b[k - Len(a)]
  BY ConcatProperties, LenProperties
<1>2. \A k \in 1..Len(a) : (a \o b)[k] = a[k]
  BY <1>1
<1>3. ASSUME NEW k \in 1..Len(b) PROVE (a \o b)[Len(a) + k] = b[k]
  <2>1. Len(a) + k \in 1..Len(a) + Len(b) /\ ~(Len(a) + k <= Len(a)) /\ (Len(a) + k) - Len(a) = k
    BY <1>1
  <2>2. QED BY <1>1, <2>1
<1>4. QED BY <1>1, <1>2, <1>3

(* What a flush adds: a call of use_gas or none, the operators held back   *)
(* and the operator that flushes.                                          *)
LEMMA SegmentWritten ==
    ASSUME NEW a \in Seq(Written), NEW u \in Seq(Written), NEW t \in Seq(Instruction), NEW i \in Instruction
    PROVE  LET n == Len(a)  g == Len(u)  m == Len(t)  s == a \o u \o t \o <<i>>
           IN  /\ s \in Seq(Written) /\ Len(s) = n + g + m + 1
               /\ n \in Nat /\ g \in Nat /\ m \in Nat
               /\ \A k \in 1..n : s[k] = a[k]
               /\ \A k \in 1..g : s[n + k] = u[k]
               /\ \A k \in 1..m : s[n + g + k] = t[k]
               /\ s[n + g + m + 1] = i
<1> DEFINE n == Len(a)
           g == Len(u)
           m == Len(t)
           s == a \o u \o t \o <<i>>
<1>1. t \in Seq(Written) /\ <<i>> \in Seq(Written) /\ Len(<<i>>) = 1 /\ <<i>>[1] = i
  <2>1. \A x \in Instruction : x \in Written
    BY InstructionFacts
  <2>2. t \in [1..Len(t) -> Instruction] /\ Len(t) \in Nat
    BY LenProperties
  <2>3. t \in [1..Len(t) -> Written]
    BY <2>1, <2>2
  <2>4. t \in Seq(Written)
    BY <2>2, <2>3, IsASeq
  <2>5. QED BY <2>1, <2>4
<1> DEFINE x == a \o u
           y == x \o t
<1>2. /\ x \in Seq(Written) /\ Len(x) = n + g /\ n \in Nat /\ g \in Nat
      /\ \A k \in 1..n : x[k] = a[k]
      /\ \A k \in 1..g : x[n + k] = u[k]
  BY Joined
<1> HIDE DEF x, n, g, m
<1>3. /\ y \in Seq(Written) /\ Len(y) = n + g + m /\ m \in Nat
      /\ \A k \in 1..n + g : y[k] = x[k]
      /\ \A k \in 1..m : y[n + g + k] = t[k]
  <2>1. x \in Seq(Written) /\ t \in Seq(Written)
    BY <1>1, <1>2
  <2>2. /\ y \in Seq(Written) /\ Len(y) = Len(x) + Len(t) /\ Len(t) \in Nat
        /\ \A k \in 1..Len(x) : y[k] = x[k]
        /\ \A k \in 1..Len(t) : y[Len(x) + k] = t[k]
    BY <2>1, Joined
  <2> HIDE DEF y
  <2>3. QED BY <1>2, <2>2 DEF m
<1> HIDE DEF y
<1>4. /\ y \o <<i>> \in Seq(Written) /\ Len(y \o <<i>>) = n + g + m + 1
      /\ \A k \in 1..n + g + m : (y \o <<i>>)[k] = y[k]
      /\ (y \o <<i>>)[n + g + m + 1] = i
  <2> DEFINE w == <<i>>
  <2>1. w \in Seq(Written) /\ Len(w) = 1 /\ w[1] = i /\ 1 \in 1..1
    BY <1>1
  <2> HIDE DEF w
  <2>2. /\ y \o w \in Seq(Written) /\ Len(y \o w) = Len(y) + Len(w)
        /\ \A k \in 1..Len(y) : (y \o w)[k] = y[k]
        /\ \A k \in 1..Len(w) : (y \o w)[Len(y) + k] = w[k]
    <3>1. y \in Seq(Written) /\ w \in Seq(Written)
      BY <1>3, <2>1
    <3>2. QED BY <3>1, Joined
  <2>3. /\ y \o w \in Seq(Written) /\ Len(y \o w) = n + g + m + 1
        /\ \A k \in 1..n + g + m : (y \o w)[k] = y[k]
        /\ (y \o w)[n + g + m + 1] = i
    BY <1>3, <2>1, <2>2
  <2>4. QED BY <2>3 DEF w
<1>5. s = y \o <<i>>
  BY DEF x, y
<1> HIDE DEF s
<1>6. \A k \in 1..n : s[k] = a[k]
  <2>1. \A k \in 1..n : k \in 1..n + g /\ k \in 1..n + g + m
    BY <1>2, <1>3
  <2>2. QED BY <1>2, <1>3, <1>4, <1>5, <2>1
<1>7. \A k \in 1..g : s[n + k] = u[k]
  <2>1. \A k \in 1..g : n + k \in 1..n + g /\ n + k \in 1..n + g + m
    BY <1>2, <1>3
  <2>2. QED BY <1>2, <1>3, <1>4, <1>5, <2>1
<1>8. \A k \in 1..m : s[n + g + k] = t[k]
  <2>1. \A k \in 1..m : n + g + k \in 1..n + g + m
    BY <1>2, <1>3
  <2>2. QED BY <1>3, <1>4, <1>5, <2>1
<1>9. s[n + g + m + 1] = i /\ s \in Seq(Written) /\ Len(s) = n + g + m + 1
  BY <1>4, <1>5
<1>10. /\ s \in Seq(Written) /\ Len(s) = n + g + m + 1
       /\ n \in Nat /\ g \in Nat /\ m \in Nat
       /\ \A k \in 1..n : s[k] = a[k]
       /\ \A k \in 1..g : s[n + k] = u[k]
       /\ \A k \in 1..m : s[n + g + k] = t[k]
       /\ s[n + g + m + 1] = i
  BY <1>2, <1>3, <1>6, <1>7, <1>8, <1>9
<1>11. QED BY <1>10, Zenon DEF s, n, g, m

(* An operator that does not flush is held back and its price added. One   *)
(* that does is written behind what was held back; the sum due at the      *)
(* use_gas is used up operator by operator, to nothing at the end, so the  *)
(* credit due at every position of the longer code exists.                 *)
LEMMA DecodeInv ==
    ASSUME IInv, Decode
    PROVE  IInv'
<1> DEFINE op == code[pos + 1]
           sum == gas + Price(op)
           n == Len(out)
           m == Len(tmp_stream)
<1>1. TypeOK /\ Held /\ Copied /\ Paid
  BY DEF IInv
<1>2. /\ status = "inject" /\ pos < Len(code) /\ pos' = pos + 1
      /\ UNCHANGED <<status, code, pc, credit, callers, remained>>
  BY DEF Decode
<1>3. /\ code \in Seq(Instruction) /\ Len(code) \in Nat \ {0} /\ op \in Instruction /\ pos + 1 \in 0..Len(code)
      /\ pos \in Nat /\ pos + 1 \in 1..Len(code)
  <2>1. Len(code) \in Nat \ {0} /\ code \in Seq(Instruction) /\ \A p \in 1..Len(code) : code[p] \in Instruction
    BY <1>1, ProgramFacts DEF TypeOK
  <2>2. pos \in Nat /\ pos + 1 \in 1..Len(code) /\ pos + 1 \in 0..Len(code)
    BY <1>1, <1>2, <2>1 DEF TypeOK
  <2>3. QED BY <2>1, <2>2
<1>4. op.op \in Op /\ op.op # "use_gas" /\ Price(op) \in Nat
  BY <1>3, InstructionFacts
<1>5. n \in Nat /\ m \in Nat /\ m <= pos /\ gas \in Nat /\ sum \in Nat
      /\ out \in Seq(Written) /\ tmp_stream \in Seq(Instruction)
  <2>1. n \in Nat /\ m \in Nat /\ m <= pos /\ gas \in Nat /\ out \in Seq(Written) /\ tmp_stream \in Seq(Instruction)
    BY <1>1, LenProperties DEF TypeOK, Held
  <2>2. QED BY <1>4, <2>1
<1>6. PICK spent : Spent(spent)
  BY <1>1 DEF Held
<1>7. PICK due : Balanced(due) /\ Paying(due)
  BY <1>1 DEF Paid
<1>8. pc = 1 /\ credit = 0 /\ callers = <<>>
  BY <1>2, <1>7 DEF Paying
<1>9. CASE ~Flushes(op)
  <2>1. tmp_stream' = Append(tmp_stream, op) /\ gas' = sum /\ out' = out
    BY <1>9 DEF Decode, Price
  <2> HIDE DEF op, n, m, sum
  <2>2. /\ tmp_stream' \in Seq(Instruction) /\ Len(tmp_stream') = m + 1
        /\ \A k \in 1..m : tmp_stream'[k] = tmp_stream[k]
        /\ tmp_stream'[m + 1] = op
    BY <1>3, <1>5, <2>1, AppendProperties DEF m
  <2>3. TypeOK'
    BY <1>1, <1>2, <1>3, <1>5, <2>1, <2>2 DEF TypeOK
  <2>4. Held'
    <3>1. Len(tmp_stream') <= pos'
      BY <1>2, <1>3, <1>5, <2>2
    <3>2. ASSUME NEW k \in 1..m + 1
          PROVE  tmp_stream'[k] = code[pos' - (m + 1) + k] /\ ~Flushes(tmp_stream'[k])
      <4>1. CASE k \in 1..m
        <5>1. tmp_stream[k] = code[pos - m + k] /\ ~Flushes(tmp_stream[k])
          BY <1>1, <4>1 DEF Held, m
        <5>2. pos' - (m + 1) + k = pos - m + k
          BY <1>2, <1>3, <1>5
        <5>3. QED BY <2>2, <4>1, <5>1, <5>2
      <4>2. CASE k = m + 1
        <5>1. pos' - (m + 1) + k = pos + 1
          BY <1>2, <1>3, <1>5, <4>2
        <5>2. QED BY <1>9, <2>2, <4>2, <5>1 DEF op
      <4>3. QED BY <1>5, <4>1, <4>2
    <3>3. \E x : Spent(x)'
      <4> DEFINE x == [k \in 0..m + 1 |-> IF k <= m THEN spent[k] ELSE sum]
      <4>1. /\ spent \in [0..m -> 0..gas] /\ spent[0] = 0 /\ spent[m] = gas
            /\ \A k \in 1..m : spent[k] = spent[k - 1] + Price(tmp_stream[k])
        BY <1>6 DEF Spent, m
      <4>2. sum = gas + Price(op)
        BY DEF sum
      <4>3. x \in [0..m + 1 -> 0..sum]
        <5>1. ASSUME NEW k \in 0..m + 1 PROVE (IF k <= m THEN spent[k] ELSE sum) \in 0..sum
          <6>1. CASE k <= m
            BY <1>4, <1>5, <4>1, <4>2, <6>1
          <6>2. CASE ~(k <= m)
            BY <1>5, <6>2
          <6>3. QED BY <6>1, <6>2
        <5>2. QED BY <5>1
      <4>4. x[0] = 0 /\ x[m + 1] = sum
        BY <1>5, <4>1
      <4>5. ASSUME NEW k \in 1..m + 1 PROVE x[k] = x[k - 1] + Price(tmp_stream'[k])
        <5>1. CASE k \in 1..m
          <6>1. x[k] = spent[k] /\ x[k - 1] = spent[k - 1]
            BY <1>5, <5>1
          <6>2. QED BY <2>2, <4>1, <5>1, <6>1
        <5>2. CASE k = m + 1
          <6>1. x[k] = sum /\ x[k - 1] = spent[m]
            BY <1>5, <5>2
          <6>2. QED BY <2>2, <4>1, <4>2, <5>2, <6>1
        <5>3. QED BY <1>5, <5>1, <5>2
      <4> HIDE DEF x
      <4>6. PICK z : z = x
        OBVIOUS
      <4>7. Spent(z)'
        BY <2>1, <2>2, <4>3, <4>4, <4>5, <4>6 DEF Spent, Price
      <4>8. QED BY <4>7
    <3>4. QED BY <1>2, <2>2, <3>1, <3>2, <3>3 DEF Held
  <2>5. Copied'
    <3>1. pos' - Len(tmp_stream') = pos - m
      BY <1>2, <1>3, <1>5, <2>2
    <3>2. QED BY <1>1, <1>2, <2>1, <3>1 DEF Copied, m
  <2>6. Paid'
    <3>1. Balanced(due)'
      BY <1>7, <2>1 DEF Balanced, Price
    <3>2. Paying(due)'
      BY <1>2, <1>8 DEF Paying, Running
    <3>3. QED BY <3>1, <3>2 DEF Paid
  <2>7. QED BY <2>3, <2>4, <2>5, <2>6 DEF IInv
<1>10. CASE Flushes(op)
  <2> DEFINE u == IF sum > 0 THEN <<use_gas(sum)>> ELSE <<>>
             g == Len(u)
             s == out \o u \o tmp_stream \o <<op>>
             due2 == [p \in 1..n + g + m + 2 |->
                        IF p <= n THEN due[p] ELSE IF p <= n + g THEN 0
                        ELSE IF p <= n + g + m + 1 THEN sum - spent[p - n - g - 1] ELSE 0]
  <2>1. out' = s /\ tmp_stream' = <<>> /\ gas' = 0
    BY <1>10 DEF Decode, Price
  <2>2. u \in Seq(Written) /\ g \in {0, 1} /\ (g = 1 => u[1].op = "use_gas" /\ u[1].n = sum) /\ (g = 0 => sum = 0)
    <3> HIDE DEF sum
    <3>1. use_gas(sum) \in Written /\ use_gas(sum).op = "use_gas" /\ use_gas(sum).n = sum
      BY <1>5 DEF use_gas, Instr, Written
    <3>2. CASE sum > 0
      BY <1>5, <3>1, <3>2
    <3>3. CASE ~(sum > 0)
      BY <1>5, <3>3
    <3>4. QED BY <3>2, <3>3
  <2> HIDE DEF op, n, m, sum, u, g, s, due2
  <2>3. /\ s \in Seq(Written) /\ Len(s) = n + g + m + 1
        /\ \A k \in 1..n : s[k] = out[k]
        /\ \A k \in 1..g : s[n + k] = u[k]
        /\ \A k \in 1..m : s[n + g + k] = tmp_stream[k]
        /\ s[n + g + m + 1] = op
    <3>1. out \in Seq(Written) /\ u \in Seq(Written) /\ tmp_stream \in Seq(Instruction) /\ op \in Instruction
      BY <1>3, <1>5, <2>2
    <3>2. QED BY <3>1, SegmentWritten DEF n, g, m, s
  <2>4. TypeOK'
    BY <1>1, <1>2, <1>3, <2>1, <2>3 DEF TypeOK
  <2>5. Held'
    <3> DEFINE x == [k \in 0..0 |-> 0]
    <3>1. Spent(x)'
      BY <2>1 DEF Spent
    <3>2. QED BY <1>2, <1>3, <2>1, <3>1 DEF Held
  <2>6. \A k \in 1..m : tmp_stream[k].op # "use_gas" /\ tmp_stream[k] = code[pos - m + k] /\ ~Flushes(tmp_stream[k])
                        /\ Price(tmp_stream[k]) \in Nat
    <3>1. \A k \in 1..m : tmp_stream[k] \in Instruction
      BY <1>5, ElementOfSeq DEF m
    <3>2. QED BY <1>1, <3>1, InstructionFacts DEF Held, m
  <2>7. Copied'
    <3> DEFINE a == n + g + 1
    <3>1. a \in Nat \ {0} /\ n + 1 \in Nat \ {0} /\ m + 1 \in Nat
      BY <1>5, <2>2
    <3>2. Place(s, n + 1) = pos - m + 1
      <4>1. Place(s, n + 1) = Place(out, n + 1)
        <5>1. \A k \in 1..(n + 1) - 1 : s[k] = out[k]
          BY <1>5, <2>3
        <5>2. QED BY <3>1, <5>1, PlacePrefix
      <4>2. QED BY <1>1, <4>1 DEF Copied, n, m
    <3>3. Place(s, a) = pos - m + 1
      <4>1. CASE g = 0
        <5>1. a = n + 1
          BY <1>5, <4>1
        <5>2. QED BY <3>2, <5>1
      <4>2. CASE g = 1
        <5>1. a = (n + 1) + 1 /\ s[n + 1].op = "use_gas"
          BY <1>5, <2>2, <2>3, <4>2
        <5>2. Place(s, (n + 1) + 1) = Place(s, n + 1) + 0 /\ Place(s, n + 1) \in Nat
          BY <3>1, <5>1, PlaceStep
        <5>3. Place(s, n + 1) + 0 = Place(s, n + 1)
          BY <5>2
        <5>4. QED BY <3>2, <5>1, <5>2, <5>3
      <4>3. QED BY <2>2, <4>1, <4>2
    <3>4. \A k \in 1..m + 1 : s[a + k - 1].op # "use_gas"
      <4>1. ASSUME NEW k \in 1..m PROVE s[a + k - 1].op # "use_gas"
        <5>1. a + k - 1 = n + g + k
          BY <1>5, <2>2
        <5>2. QED BY <2>3, <2>6, <5>1
      <4>2. s[a + (m + 1) - 1].op # "use_gas"
        <5>1. a + (m + 1) - 1 = n + g + m + 1
          BY <1>5, <2>2
        <5>2. QED BY <1>4, <2>3, <5>1
      <4>3. \A k \in 1..m + 1 : k \in 1..m \/ k = m + 1
        BY <1>5
      <4>4. QED BY <4>1, <4>2, <4>3
    <3> HIDE DEF a
    <3>5. \A k \in 0..m + 1 : Place(s, a + k) = pos - m + 1 + k
      BY <3>1, <3>3, <3>4, PlaceRun
    <3>6. Place(s, Len(s) + 1) = pos' - 0 + 1
      <4>1. Len(s) + 1 = a + (m + 1) /\ m + 1 \in 0..m + 1 /\ pos - m + 1 + (m + 1) = pos' - 0 + 1
        BY <1>2, <1>3, <1>5, <2>2, <2>3 DEF a
      <4>2. QED BY <3>5, <4>1
    <3>7. ASSUME NEW p \in 1..Len(s), s[p].op # "use_gas" PROVE s[p] = code[Place(s, p)]
      <4>1. CASE p \in 1..n
        <5>1. out[p] = code[Place(out, p)]
          BY <1>1, <2>3, <3>7, <4>1 DEF Copied, n
        <5>2. Place(s, p) = Place(out, p)
          <6>1. p \in Nat \ {0} /\ \A k \in 1..p - 1 : s[k] = out[k]
            BY <1>5, <2>3, <4>1
          <6>2. QED BY <6>1, PlacePrefix
        <5>3. QED BY <2>3, <4>1, <5>1, <5>2
      <4>2. CASE p \in n + 1..n + g
        <5>1. g = 1 /\ p = n + 1
          BY <1>5, <2>2, <4>2
        <5>2. s[p].op = "use_gas"
          BY <2>2, <2>3, <5>1
        <5>3. QED BY <3>7, <5>2
      <4>3. CASE p \in n + g + 1..n + g + m
        <5>1. PICK k \in 1..m : p = n + g + k
          <6>1. p - (n + g) \in 1..m /\ p = n + g + (p - (n + g))
            BY <1>5, <2>2, <4>3
          <6>2. QED BY <6>1
        <5>2. s[p] = code[pos - m + k]
          BY <2>3, <2>6, <5>1
        <5>3. k - 1 \in 0..m + 1 /\ a + (k - 1) = p /\ pos - m + 1 + (k - 1) = pos - m + k
          BY <1>3, <1>5, <2>2, <5>1 DEF a
        <5>4. Place(s, p) = pos - m + k
          BY <3>5, <5>3
        <5>5. QED BY <5>2, <5>4
      <4>4. CASE p = n + g + m + 1
        <5>1. m \in 0..m + 1 /\ a + m = p /\ pos - m + 1 + m = pos + 1
          BY <1>3, <1>5, <2>2, <4>4 DEF a
        <5>2. Place(s, p) = pos + 1
          BY <3>5, <5>1
        <5>3. QED BY <2>3, <4>4, <5>2 DEF op
      <4>5. p \in 1..n \/ p \in n + 1..n + g \/ p \in n + g + 1..n + g + m \/ p = n + g + m + 1
        BY <1>5, <2>2, <2>3
      <4>6. QED BY <4>1, <4>2, <4>3, <4>4, <4>5
    <3>8. Flushes(s[Len(s)])
      BY <1>10, <2>3
    <3>9. QED BY <1>2, <2>1, <3>6, <3>7, <3>8 DEF Copied
  <2>8. Paid'
    <3>1. /\ due \in [1..n + 1 -> Nat] /\ due[1] = 0
          /\ \A p \in 1..n : /\ out[p].op = "use_gas" => due[p + 1] = due[p] + out[p].n
                             /\ out[p].op # "use_gas" => due[p] = due[p + 1] + Price(out[p])
                             /\ Flushes(out[p]) => due[p + 1] = 0
      BY <1>7 DEF Balanced, n
    <3>2. due[n + 1] = 0
      <4>1. CASE n = 0
        BY <3>1, <4>1
      <4>2. CASE n # 0
        <5>1. out # <<>> /\ n \in 1..n
          BY <1>5, <4>2, EmptySeq DEF n
        <5>2. Flushes(out[n])
          BY <1>1, <5>1 DEF Copied, n
        <5>3. QED BY <3>1, <5>1, <5>2
      <4>3. QED BY <4>1, <4>2
    <3>3. /\ spent \in [0..m -> 0..gas] /\ spent[0] = 0 /\ spent[m] = gas /\ sum = gas + Price(op)
          /\ \A k \in 1..m : spent[k] = spent[k - 1] + Price(tmp_stream[k])
      BY <1>6 DEF Spent, m, sum
    <3>4. \A k \in 0..m : spent[k] \in Nat /\ sum - spent[k] \in Nat
      BY <1>4, <1>5, <3>3
    <3>5. due2 \in [1..n + g + m + 2 -> Nat]
      <4>1. ASSUME NEW p \in 1..n + g + m + 2
            PROVE  (IF p <= n THEN due[p] ELSE IF p <= n + g THEN 0
                    ELSE IF p <= n + g + m + 1 THEN sum - spent[p - n - g - 1] ELSE 0) \in Nat
        <5>1. p <= n => p \in 1..n + 1
          BY <1>5, <2>2
        <5>2. ~(p <= n + g) /\ p <= n + g + m + 1 => p - n - g - 1 \in 0..m
          BY <1>5, <2>2
        <5>3. QED BY <3>1, <3>4, <5>1, <5>2
      <4>2. QED BY <4>1 DEF due2
    <3>6. \A p \in 1..n + 1 : due2[p] = due[p]
      <4>1. ASSUME NEW p \in 1..n PROVE due2[p] = due[p]
        BY <1>5, <2>2 DEF due2
      <4>2. due2[n + 1] = 0
        <5>1. CASE g = 1
          BY <1>5, <5>1 DEF due2
        <5>2. CASE g = 0
          <6>1. /\ n + 1 \in 1..n + g + m + 2 /\ ~(n + 1 <= n) /\ ~(n + 1 <= n + g) /\ n + 1 <= n + g + m + 1
                /\ (n + 1) - n - g - 1 = 0
            BY <1>5, <5>2
          <6>2. due2[n + 1] = sum - spent[0]
            BY <6>1 DEF due2
          <6>3. QED BY <1>5, <2>2, <3>3, <5>2, <6>2
        <5>3. QED BY <2>2, <5>1, <5>2
      <4>3. \A p \in 1..n + 1 : p \in 1..n \/ p = n + 1
        BY <1>5
      <4>4. QED BY <3>2, <4>1, <4>2, <4>3
    <3>7. ASSUME NEW k \in 0..m PROVE due2[n + g + 1 + k] = sum - spent[k]
      <4>1. /\ n + g + 1 + k \in 1..n + g + m + 2 /\ ~(n + g + 1 + k <= n) /\ ~(n + g + 1 + k <= n + g)
            /\ n + g + 1 + k <= n + g + m + 1 /\ (n + g + 1 + k) - n - g - 1 = k
        BY <1>5, <2>2
      <4>2. QED BY <4>1 DEF due2
    <3>8. due2[n + g + m + 2] = 0
      <4>1. /\ n + g + m + 2 \in 1..n + g + m + 2 /\ ~(n + g + m + 2 <= n) /\ ~(n + g + m + 2 <= n + g)
            /\ ~(n + g + m + 2 <= n + g + m + 1)
        BY <1>5, <2>2
      <4>2. QED BY <4>1 DEF due2
    <3>9. PICK z : z = due2
      OBVIOUS
    <3>10. ASSUME NEW p \in 1..Len(s)
           PROVE  /\ s[p].op = "use_gas" => z[p + 1] = z[p] + s[p].n
                  /\ s[p].op # "use_gas" => z[p] = z[p + 1] + Price(s[p])
                  /\ Flushes(s[p]) => z[p + 1] = 0
      <4>1. CASE p \in 1..n
        <5>1. z[p] = due[p] /\ z[p + 1] = due[p + 1] /\ s[p] = out[p]
          BY <1>5, <2>3, <3>6, <3>9, <4>1
        <5>2. QED BY <3>1, <4>1, <5>1
      <4>2. CASE p \in n + 1..n + g
        <5>1. g = 1 /\ p = n + 1 /\ n + 1 \in 1..n + 1 /\ p + 1 = n + g + 1 + 0 /\ 0 \in 0..m
          BY <1>5, <2>2, <4>2
        <5>2. z[p] = 0 /\ z[p + 1] = sum - spent[0]
          BY <3>2, <3>6, <3>7, <3>9, <5>1
        <5>3. s[p].op = "use_gas" /\ s[p].n = sum
          BY <2>2, <2>3, <5>1
        <5>4. z[p + 1] = z[p] + s[p].n
          BY <1>5, <3>3, <5>2, <5>3
        <5>5. QED BY <5>3, <5>4 DEF Flushes
      <4>3. CASE p \in n + g + 1..n + g + m
        <5>1. PICK k \in 1..m : p = n + g + k
          <6>1. p - (n + g) \in 1..m /\ p = n + g + (p - (n + g))
            BY <1>5, <2>2, <4>3
          <6>2. QED BY <6>1
        <5>2. k - 1 \in 0..m /\ k \in 0..m /\ p = n + g + 1 + (k - 1) /\ p + 1 = n + g + 1 + k
          BY <1>5, <2>2, <5>1
        <5>3. z[p] = sum - spent[k - 1] /\ z[p + 1] = sum - spent[k]
          BY <3>7, <3>9, <5>2
        <5>4. s[p] = tmp_stream[k]
          BY <2>3, <5>1
        <5>5. z[p] = z[p + 1] + Price(s[p])
          <6>1. spent[k] = spent[k - 1] + Price(tmp_stream[k]) /\ Price(tmp_stream[k]) \in Nat
                /\ spent[k] \in Nat /\ spent[k - 1] \in Nat
            BY <2>6, <3>3, <3>4, <5>2
          <6>2. QED BY <1>5, <5>3, <5>4, <6>1
        <5>6. QED BY <2>6, <5>4, <5>5
      <4>4. CASE p = n + g + m + 1
        <5>1. p = n + g + 1 + m /\ m \in 0..m /\ p + 1 = n + g + m + 2
          BY <1>5, <2>2, <4>4
        <5>2. z[p] = sum - spent[m] /\ z[p + 1] = 0
          BY <3>7, <3>8, <3>9, <5>1
        <5>3. z[p] = 0 + Price(op)
          BY <1>4, <1>5, <3>3, <5>2
        <5>4. s[p] = op
          BY <2>3, <4>4
        <5>5. QED BY <1>4, <5>2, <5>3, <5>4
      <4>5. p \in 1..n \/ p \in n + 1..n + g \/ p \in n + g + 1..n + g + m \/ p = n + g + m + 1
        BY <1>5, <2>2, <2>3
      <4>6. QED BY <4>1, <4>2, <4>3, <4>4, <4>5
    <3>11. z \in [1..Len(s) + 1 -> Nat] /\ z[1] = 0
      <4>1. Len(s) + 1 = n + g + m + 2 /\ 1 \in 1..n + 1
        BY <1>5, <2>2, <2>3
      <4>2. QED BY <3>1, <3>5, <3>6, <3>9, <4>1
    <3>12. Balanced(z)'
      BY <2>1, <3>10, <3>11 DEF Balanced, Price
    <3>13. Paying(z)'
      BY <1>2, <1>8 DEF Paying, Running
    <3>14. QED BY <3>12, <3>13 DEF Paid
  <2>9. QED BY <2>4, <2>5, <2>7, <2>8 DEF IInv
<1>11. QED BY <1>9, <1>10
-----------------------------------------------------------------------------
(* The run leaves the pass's variables alone.                              *)
LEMMA RunKept ==
    ASSUME IInv, UNCHANGED passVars, TypeOK', NEW due, Balanced(due), Paying(due)'
    PROVE  IInv'
<1>1. UNCHANGED <<code, pos, out, tmp_stream, gas>>
  BY DEF passVars
<1>2. Held' /\ Copied'
  <2>1. (\E spent : Spent(spent))' <=> \E spent : Spent(spent)
    BY <1>1 DEF Spent, Price
  <2>2. Held'
    BY <1>1, <2>1 DEF IInv, Held
  <2>3. Copied'
    BY <1>1 DEF IInv, Copied
  <2>4. QED BY <2>2, <2>3
<1>3. Balanced(due)'
  BY <1>1 DEF Balanced, Price
<1>4. QED BY <1>2, <1>3 DEF IInv, Paid

(* What holds whenever an operator runs.                                   *)
LEMMA RunFacts ==
    ASSUME IInv, Running
    PROVE  /\ Metered(out, code) /\ tmp_stream = <<>> /\ pos = Len(code)
           /\ Len(out) \in Nat \ {0} /\ pc \in 1..Len(out) /\ pc \in Nat \ {0}
           /\ out[pc] \in Written /\ out[pc].n \in Nat
           /\ out[pc].op # "use_gas" => Price(out[pc]) \in Nat
           /\ \E due : Balanced(due) /\ Paying(due)
<1>1. TypeOK /\ Paid
  BY DEF IInv
<1>2. PICK due : Balanced(due) /\ Paying(due)
  BY <1>1 DEF Paid
<1>3. pos = Len(code) /\ pc \in 1..Len(out)
  BY <1>2 DEF Paying, Running
<1>4. Metered(out, code) /\ tmp_stream = <<>>
  BY <1>3, FinalMetered
<1>5. Len(out) \in Nat \ {0}
  BY <1>4, MeteredPlace
<1>6. out[pc] \in Written
  BY <1>1, <1>3, ElementOfSeq DEF TypeOK
<1>7. out[pc].n \in Nat /\ (out[pc].op # "use_gas" => Price(out[pc]) \in Nat)
  BY <1>6, OpFacts DEF Written, Price
<1>8. QED BY <1>2, <1>3, <1>4, <1>5, <1>6, <1>7

(* The run starts with no credit, as the first position has it.            *)
LEMMA InjectInv ==
    ASSUME IInv, Inject
    PROVE  IInv'
<1>1. TypeOK /\ Paid
  BY DEF IInv
<1>2. /\ status = "inject" /\ pos = Len(code) /\ status' = "running"
      /\ UNCHANGED passVars /\ UNCHANGED <<pc, credit, callers, remained>>
  BY DEF Inject
<1>3. PICK due : Balanced(due) /\ Paying(due)
  BY <1>1 DEF Paid
<1>4. pc = 1 /\ credit = 0 /\ callers = <<>>
  BY <1>2, <1>3 DEF Paying
<1>5. Len(out) \in Nat \ {0}
  BY <1>2, FinalMetered, MeteredPlace
<1>6. TypeOK'
  BY <1>1, <1>2 DEF TypeOK, passVars
<1>7. Paying(due)'
  <2>1. due[1] = 0 /\ 1 \in 1..Len(out)
    BY <1>3, <1>5 DEF Balanced
  <2>2. QED BY <1>2, <1>4, <2>1 DEF Paying, Running, passVars
<1>8. QED BY <1>2, <1>3, <1>6, <1>7, RunKept

(* The run ends with everything else as it was.                            *)
LEMMA EndedInv ==
    ASSUME IInv, Running, status' \in {"trapped", "aborted", "exhausted"},
           UNCHANGED passVars, UNCHANGED <<pc, credit, callers>>, remained' \in Nat
    PROVE  IInv'
<1>1. TypeOK
  BY DEF IInv
<1>2. PICK due : Balanced(due) /\ Paying(due)
  BY RunFacts
<1>3. pos = Len(code)
  BY RunFacts
<1>4. TypeOK'
  BY <1>1 DEF TypeOK, passVars
<1>5. Paying(due)'
  BY <1>2, <1>3 DEF Paying, Running, passVars
<1>6. QED BY <1>2, <1>4, <1>5, RunKept

(* use_gas either ends the run or adds to the credit what the next         *)
(* position says.                                                          *)
LEMMA RunUseGasInv ==
    ASSUME IInv, RunUseGas
    PROVE  IInv'
<1>1. TypeOK /\ Running /\ out[pc].op = "use_gas"
  BY DEF IInv, RunUseGas
<1>2. /\ Metered(out, code) /\ Len(out) \in Nat \ {0} /\ pc \in 1..Len(out) /\ out[pc].n \in Nat /\ pos = Len(code)
  BY <1>1, RunFacts
<1>3. CASE remained < out[pc].n
  <2>1. status' = "exhausted" /\ UNCHANGED passVars /\ UNCHANGED <<pc, credit, callers, remained>>
    BY <1>3 DEF RunUseGas, Charge
  <2>2. QED BY <1>1, <2>1, EndedInv DEF TypeOK
<1>4. CASE ~(remained < out[pc].n)
  <2>1. /\ remained' = remained - out[pc].n /\ credit' = credit + out[pc].n /\ pc' = pc + 1
        /\ status' = status /\ UNCHANGED passVars /\ callers' = callers
    BY <1>4 DEF RunUseGas, Charge
  <2>2. PICK due : Balanced(due) /\ Paying(due)
    BY <1>1, RunFacts
  <2>3. TypeOK'
    <3>1. remained' \in Nat /\ credit' \in Nat /\ pc' \in Nat
      BY <1>1, <1>2, <1>4, <2>1 DEF TypeOK
    <3>2. QED BY <1>1, <2>1, <3>1 DEF TypeOK, passVars
  <2>4. pc + 1 \in 1..Len(out) /\ due[pc + 1] = credit + out[pc].n
    <3>2. pc # Len(out)
      <4>1. out[Len(out)].op = "end"
        BY <1>2, MeteredLabels
      <4>2. QED BY <1>1, <4>1
    <3>3. QED BY <1>1, <1>2, <2>2, <3>2 DEF Balanced, Paying
  <2>5. Paying(due)'
    BY <1>1, <1>2, <2>1, <2>2, <2>4 DEF Paying, Running, passVars
  <2>6. QED BY <2>1, <2>2, <2>3, <2>5, RunKept
<1>5. QED BY <1>3, <1>4

(* callers without the innermost frame.                                    *)
LEMMA Popped ==
    ASSUME NEW S, NEW s \in Seq(S), Len(s) \in Nat \ {0}
    PROVE  /\ SubSeq(s, 1, Len(s) - 1) \in Seq(S) /\ Len(SubSeq(s, 1, Len(s) - 1)) = Len(s) - 1
           /\ \A k \in 1..Len(s) - 1 : SubSeq(s, 1, Len(s) - 1)[k] = s[k]
<1> DEFINE n == Len(s) - 1
<1>1. n \in Nat /\ \A i \in 1..n : s[i] \in S
  BY ElementOfSeq
<1> HIDE DEF n
<1>2. /\ SubSeq(s, 1, n) \in Seq(S)
      /\ Len(SubSeq(s, 1, n)) = IF 1 <= n THEN n - 1 + 1 ELSE 0
      /\ \A i \in 1..n - 1 + 1 : SubSeq(s, 1, n)[i] = s[1 + i - 1]
  BY <1>1, SubSeqProperties
<1>3. SubSeq(s, 1, n) \in Seq(S) /\ Len(SubSeq(s, 1, n)) = n /\ \A k \in 1..n : SubSeq(s, 1, n)[k] = s[k]
  BY <1>1, <1>2
<1>4. QED BY <1>3 DEF n

(* The operator that returns flushes, so the frame leaves no credit; the   *)
(* frame below has what was due at the place it waits at.                  *)
LEMMA LeaveInv ==
    ASSUME IInv, Running, out[pc].op # "use_gas", Flushes(out[pc]), Leave(credit - Price(out[pc])),
           UNCHANGED passVars, remained' = remained
    PROVE  IInv'
<1>1. TypeOK
  BY DEF IInv
<1>2. PICK due : Balanced(due) /\ Paying(due)
  BY RunFacts
<1>3. /\ pos = Len(code) /\ pc \in 1..Len(out) /\ Price(out[pc]) \in Nat
  BY RunFacts
<1>4. credit - Price(out[pc]) = 0
  <2>1. due[pc] = due[pc + 1] + Price(out[pc]) /\ due[pc + 1] = 0 /\ credit = due[pc]
    BY <1>2, <1>3 DEF Balanced, Paying
  <2>2. QED BY <1>3, <2>1
<1>5. CASE callers = <<>>
  <2>1. status' = "returned" /\ credit' = 0 /\ UNCHANGED <<pc, callers>>
    BY <1>4, <1>5 DEF Leave
  <2>2. TypeOK'
    BY <1>1, <2>1 DEF TypeOK, passVars
  <2>3. Paying(due)'
    BY <1>2, <1>3, <2>1 DEF Paying, Running, passVars
  <2>4. QED BY <1>2, <2>2, <2>3, RunKept
<1>6. CASE callers # <<>>
  <2> DEFINE n == Len(callers)
  <2>1. /\ pc' = callers[n].pc /\ credit' = callers[n].credit /\ callers' = SubSeq(callers, 1, n - 1)
        /\ status' = status
    BY <1>6 DEF Leave
  <2>2. callers \in Seq(Frame) /\ n \in Nat \ {0}
    BY <1>1, <1>6, EmptySeq, LenProperties DEF TypeOK
  <2>3. callers' \in Seq(Frame) /\ Len(callers') = n - 1 /\ \A k \in 1..n - 1 : callers'[k] = callers[k]
    BY <2>1, <2>2, Popped
  <2>4. n \in 1..n /\ callers[n] \in Frame
    BY <2>2, ElementOfSeq
  <2>5. callers[n].pc \in 1..Len(out) /\ callers[n].credit = due[callers[n].pc]
    BY <1>2, <2>4 DEF Paying
  <2> HIDE DEF n
  <2>6. TypeOK'
    BY <1>1, <2>1, <2>3, <2>4 DEF TypeOK, passVars, Frame
  <2>7. \A k \in 1..n - 1 : callers[k].pc \in 1..Len(out) /\ callers[k].credit = due[callers[k].pc]
    BY <1>2, <2>2 DEF Paying, n
  <2>8. Paying(due)'
    BY <1>3, <2>1, <2>3, <2>5, <2>7 DEF Paying, Running, passVars
  <2>9. QED BY <1>2, <2>6, <2>8, RunKept
<1>7. QED BY <1>5, <1>6

(* An operator takes its price and goes to the next position, or flushes   *)
(* and goes to one behind another that flushes: nothing is due at either.  *)
LEMMA RunOpInv ==
    ASSUME IInv, RunOp
    PROVE  IInv'
<1>1. /\ TypeOK /\ Running /\ out[pc].op # "use_gas" /\ UNCHANGED passVars /\ remained' = remained
  BY DEF IInv, RunOp
<1>2. /\ Metered(out, code) /\ Len(out) \in Nat \ {0} /\ pc \in 1..Len(out) /\ pos = Len(code)
      /\ Price(out[pc]) \in Nat
  BY <1>1, RunFacts
<1>3. PICK q \in Successors(out, pc) :
         IF q = Exit THEN Leave(credit - Price(out[pc]))
         ELSE pc' = q /\ credit' = credit - Price(out[pc]) /\ UNCHANGED <<status, callers>>
  BY DEF RunOp
<1>4. \/ q = Exit /\ Flushes(out[pc])
      \/ Flushes(out[pc]) /\ q \in 2..Len(out) /\ Flushes(out[q - 1])
      \/ q = pc + 1 /\ q \in 2..Len(out)
  BY <1>1, <1>2, SuccessorsCopied DEF Lands
<1>5. CASE q = Exit
  <2>1. Flushes(out[pc])
    BY <1>2, <1>4, <1>5 DEF Exit
  <2>2. QED BY <1>1, <1>3, <1>5, <2>1, LeaveInv
<1>6. CASE q # Exit
  <2>1. pc' = q /\ credit' = credit - Price(out[pc]) /\ UNCHANGED <<status, callers>>
    BY <1>3, <1>6
  <2>2. PICK due : Balanced(due) /\ Paying(due)
    BY <1>1, RunFacts
  <2>3. /\ due \in [1..Len(out) + 1 -> Nat] /\ due[pc] = due[pc + 1] + Price(out[pc]) /\ credit = due[pc]
        /\ Flushes(out[pc]) => due[pc + 1] = 0
    BY <1>1, <1>2, <2>2 DEF Balanced, Paying
  <2>4. q \in 1..Len(out) /\ q - 1 \in 1..Len(out) /\ (q - 1) + 1 = q /\ pc + 1 \in 1..Len(out) + 1
    BY <1>2, <1>4, <1>6
  <2>5. due[q] = due[pc + 1]
    <3>1. CASE q = pc + 1
      BY <3>1
    <3>2. CASE Flushes(out[pc]) /\ Flushes(out[q - 1])
      <4>1. due[(q - 1) + 1] = 0
        BY <2>2, <2>4, <3>2 DEF Balanced
      <4>2. QED BY <2>3, <2>4, <3>2, <4>1
    <3>3. QED BY <1>4, <1>6, <3>1, <3>2
  <2>6. credit' = due[q] /\ credit' \in Nat
    BY <1>2, <2>1, <2>3, <2>4, <2>5
  <2>7. TypeOK'
    BY <1>1, <2>1, <2>4, <2>6 DEF TypeOK, passVars
  <2>8. Paying(due)'
    BY <1>1, <1>2, <2>1, <2>2, <2>4, <2>6 DEF Paying, Running, passVars
  <2>9. QED BY <1>1, <2>2, <2>7, <2>8, RunKept
<1>7. QED BY <1>5, <1>6

(* A call is no end of a body: it has a next operator, and the credit due  *)
(* there is what the frame keeps.                                          *)
LEMMA AfterCall ==
    ASSUME IInv, Running, Calls(out[pc]), NEW due, Balanced(due), Paying(due)
    PROVE  /\ out[pc].op # "use_gas" /\ Successors(out, pc) = {pc + 1} /\ pc + 1 \in 1..Len(out)
           /\ due[pc + 1] = credit - Price(out[pc]) /\ due[pc + 1] \in Nat /\ Price(out[pc]) \in Nat
<1>1. /\ Metered(out, code) /\ Len(out) \in Nat \ {0} /\ pc \in 1..Len(out) /\ out[pc].op # "use_gas"
      /\ Price(out[pc]) \in Nat
  BY RunFacts DEF Calls
<1>2. Successors(out, pc) = {pc + 1}
  BY DEF Successors, Calls
<1>3. pc + 1 \in 1..Len(out)
  <2>1. out[Len(out)].op = "end" /\ out[pc].op # "end"
    BY <1>1, MeteredLabels DEF Calls
  <2>2. QED BY <1>1, <2>1
<1>4. due[pc] = due[pc + 1] + Price(out[pc]) /\ credit = due[pc] /\ due \in [1..Len(out) + 1 -> Nat]
  BY <1>1 DEF Balanced, Paying
<1>5. pc + 1 \in 1..Len(out) + 1
  BY <1>1
<1>6. QED BY <1>1, <1>2, <1>3, <1>4, <1>5

(* An intrinsic charges its own price apart from the credit.               *)
LEMMA RunImportInv ==
    ASSUME IInv, RunImport
    PROVE  IInv'
<1>1. TypeOK /\ Running /\ Calls(out[pc])
  BY DEF IInv, RunImport
<1>2. GasCallBase \in Nat /\ remained \in Nat /\ pos = Len(code)
  BY <1>1, GasAssumption, RunFacts DEF TypeOK
<1>3. CASE remained < GasCallBase
  <2>1. status' = "exhausted" /\ UNCHANGED passVars /\ UNCHANGED <<pc, credit, callers, remained>>
    BY <1>3 DEF RunImport, Charge
  <2>2. QED BY <1>1, <1>2, <2>1, EndedInv
<1>4. CASE ~(remained < GasCallBase)
  <2>1. /\ remained' = remained - GasCallBase /\ UNCHANGED passVars /\ callers' = callers
        /\ \/ pc' = pc + 1 /\ credit' = credit - Price(out[pc]) /\ status' = status
           \/ status' = "aborted" /\ UNCHANGED <<pc, credit>>
    BY <1>4 DEF RunImport, Charge
  <2>2. remained' \in Nat
    BY <1>2, <1>4, <2>1
  <2>3. CASE pc' = pc + 1 /\ credit' = credit - Price(out[pc]) /\ status' = status
    <3>1. PICK due : Balanced(due) /\ Paying(due)
      BY <1>1, RunFacts
    <3>2. pc + 1 \in 1..Len(out) /\ due[pc + 1] = credit - Price(out[pc]) /\ due[pc + 1] \in Nat
      BY <1>1, <3>1, AfterCall
    <3>3. pc + 1 \in Nat
      BY <1>1, RunFacts
    <3>4. TypeOK'
      BY <1>1, <2>1, <2>2, <2>3, <3>2, <3>3 DEF TypeOK, passVars
    <3>5. Paying(due)'
      BY <1>1, <1>2, <2>1, <2>3, <3>1, <3>2 DEF Paying, Running, passVars
    <3>6. QED BY <2>1, <3>1, <3>4, <3>5, RunKept
  <2>4. CASE status' = "aborted" /\ UNCHANGED <<pc, credit>>
    BY <1>1, <2>1, <2>2, <2>4, EndedInv
  <2>5. QED BY <2>1, <2>3, <2>4
<1>5. QED BY <1>3, <1>4

(* A new frame starts at the first position with nothing.                  *)
LEMMA RunCallInv ==
    ASSUME IInv, RunCall
    PROVE  IInv'
<1>1. TypeOK /\ Running /\ Calls(out[pc]) /\ UNCHANGED passVars /\ remained' = remained
  BY DEF IInv, RunCall
<1>2. CASE Len(callers) = MaxCalls
  <2>1. status' = "trapped" /\ UNCHANGED <<pc, credit, callers>>
    BY <1>2 DEF RunCall
  <2>2. QED BY <1>1, <2>1, EndedInv DEF TypeOK
<1>3. CASE Len(callers) # MaxCalls
  <2> DEFINE f == [pc |-> pc + 1, credit |-> credit - Price(out[pc])]
             n == Len(callers)
  <2>1. callers' = Append(callers, f) /\ pc' = 1 /\ credit' = 0 /\ status' = status
    BY <1>3 DEF RunCall
  <2>2. PICK due : Balanced(due) /\ Paying(due)
    BY <1>1, RunFacts
  <2>3. pc + 1 \in 1..Len(out) /\ due[pc + 1] = credit - Price(out[pc]) /\ due[pc + 1] \in Nat
    BY <1>1, <2>2, AfterCall
  <2>4. pc + 1 \in Nat /\ pos = Len(code) /\ Len(out) \in Nat \ {0}
    BY <1>1, RunFacts
  <2>5. f \in Frame /\ f.pc = pc + 1 /\ f.credit = due[pc + 1]
    BY <2>3, <2>4 DEF Frame
  <2>6. callers \in Seq(Frame) /\ n \in Nat
    BY <1>1, LenProperties DEF TypeOK
  <2> HIDE DEF f
  <2>7. /\ callers' \in Seq(Frame) /\ Len(callers') = n + 1 /\ callers'[n + 1] = f
        /\ \A k \in 1..n : callers'[k] = callers[k]
    BY <2>1, <2>5, <2>6, AppendProperties
  <2>8. \A k \in 1..n : callers[k].pc \in 1..Len(out) /\ callers[k].credit = due[callers[k].pc]
    BY <2>2 DEF Paying
  <2> HIDE DEF n
  <2>9. \A k \in 1..n + 1 : k \in 1..n \/ k = n + 1
    BY <2>6
  <2>10. TypeOK'
    BY <1>1, <2>1, <2>7 DEF TypeOK, passVars
  <2>11. Paying(due)'
    <3>1. due[1] = 0 /\ 1 \in 1..Len(out)
      BY <2>2, <2>4 DEF Balanced
    <3>2. \A k \in 1..n + 1 : callers'[k].pc \in 1..Len(out) /\ callers'[k].credit = due[callers'[k].pc]
      BY <2>3, <2>5, <2>7, <2>8, <2>9
    <3>3. QED BY <1>1, <2>1, <2>4, <2>7, <3>1, <3>2 DEF Paying, Running, passVars
  <2>12. QED BY <1>1, <2>2, <2>10, <2>11, RunKept
<1>4. QED BY <1>2, <1>3
-----------------------------------------------------------------------------
(* In every reachable state of inject's gas pass and of the run of the     *)
(* code it wrote, for any contract that validation accepts, any budget and *)
(* any stack: the pass has copied what it read, and the run has paid what  *)
(* is due where it stands.                                                 *)
THEOREM Invariance == Spec => []IInv
<1>1. Init => IInv
  BY InitIInv
<1>2. IInv /\ [Next]_vars => IInv'
  <2> SUFFICES ASSUME IInv, [Next]_vars PROVE IInv'
    OBVIOUS
  <2>1. CASE Decode
    BY <2>1, DecodeInv
  <2>2. CASE Inject
    BY <2>2, InjectInv
  <2>3. CASE RunUseGas
    BY <2>3, RunUseGasInv
  <2>4. CASE RunOp
    BY <2>4, RunOpInv
  <2>5. CASE RunImport
    BY <2>5, RunImportInv
  <2>6. CASE RunCall
    BY <2>6, RunCallInv
  <2>7. CASE RunTrap
    BY <2>7, EndedInv DEF RunTrap, IInv, TypeOK
  <2>8. CASE UNCHANGED vars
    <3>1. UNCHANGED passVars /\ UNCHANGED <<status, pc, credit, callers, remained>>
      BY <2>8 DEF vars
    <3>2. PICK due : Balanced(due) /\ Paying(due)
      BY DEF IInv, Paid
    <3>3. TypeOK'
      BY <3>1 DEF IInv, TypeOK, passVars
    <3>4. Paying(due)'
      BY <3>1, <3>2 DEF Paying, Running, passVars
    <3>5. QED BY <3>1, <3>2, <3>3, <3>4, RunKept
  <2>9. QED BY <2>1, <2>2, <2>3, <2>4, <2>5, <2>6, <2>7, <2>8 DEF Next, Work, Ended
<1>3. QED BY <1>1, <1>2, PTL DEF Spec

(* The code that inject writes pays gas_table's price for every operator   *)
(* before it runs, in whatever block or frame, and for none that does not  *)
(* run.                                                                    *)
THEOREM PaidExactlyTheorem == Spec => []PaidExactly
<1>1. IInv => PaidExactly
  <2> SUFFICES ASSUME IInv PROVE PaidExactly
    OBVIOUS
  <2>1. TypeOK
    BY DEF IInv
  <2>2. PICK due : Balanced(due) /\ Paying(due)
    BY DEF IInv, Paid
  <2>3. credit >= 0
    BY <2>1 DEF TypeOK
  <2>4. \A k \in 1..Len(callers) : callers[k].credit >= 0
    <3>1. \A k \in 1..Len(callers) : callers[k] \in Frame
      BY <2>1, ElementOfSeq DEF TypeOK
    <3>2. QED BY <3>1 DEF Frame
  <2>5. ASSUME Running, pc = 1 \/ Flushes(out[pc - 1]) PROVE credit = 0
    <3>1. pc \in 1..Len(out) /\ credit = due[pc] /\ Len(out) \in Nat
      BY <2>2, <2>5, RunFacts DEF Paying
    <3>2. CASE pc = 1
      BY <2>2, <3>1, <3>2 DEF Balanced
    <3>3. CASE pc # 1
      <4>1. pc - 1 \in 1..Len(out) /\ (pc - 1) + 1 = pc
        BY <3>1, <3>3
      <4>2. due[(pc - 1) + 1] = 0
        BY <2>2, <2>5, <3>3, <4>1 DEF Balanced
      <4>3. QED BY <3>1, <4>1, <4>2
    <3>4. QED BY <3>2, <3>3
  <2>6. status = "returned" => credit = 0
    BY <2>2 DEF Paying
  <2>7. QED BY <2>3, <2>4, <2>5, <2>6 DEF PaidExactly
<1>2. QED BY <1>1, Invariance, PTL

-----------------------------------------------------------------------------
(* The operators of WasmCode that WasmRun sees are those that GasMetering  *)
(* sees.                                                                   *)
LEMMA RunCode ==
    /\ \A c : Run!WellFormed(c) <=> WellFormed(c)
    /\ \A c, p : Run!Successors(c, p) = Successors(c, p)
    /\ \A i : Run!Calls(i) <=> Calls(i)
    /\ \A i : Run!MayTrap(i) <=> MayTrap(i)
    /\ Run!Exit = Exit
<1>1. \A i : (Run!Opens(i) <=> Opens(i)) /\ (Run!Branches(i) <=> Branches(i))
  BY DEF Run!Opens, Run!Branches, Opens, Branches
<1>2. \A c, p : Run!Opened(c, p) = Opened(c, p) /\ Run!Closed(c, p) = Closed(c, p)
  <2> TAKE c, p
  <2>1. {k \in 1..p : Run!Opens(c[k])} = {k \in 1..p : Opens(c[k])}
    BY <1>1
  <2>2. \A S : Run!Cardinality(S) = Cardinality(S)
    BY DEF Run!Cardinality, Cardinality
  <2>3. QED BY <2>1, <2>2 DEF Run!Opened, Run!Closed, Opened, Closed
<1>3. \A c, p : Run!Labels(c, p) = Labels(c, p)
  BY <1>2 DEF Run!Labels, Labels
<1>4. \A c, o, q : Run!Inside(c, o, q) <=> Inside(c, o, q)
  BY <1>3 DEF Run!Inside, Inside
<1>5. \A c, o : Run!Ends(c, o) = Ends(c, o) /\ Run!Elses(c, o) = Elses(c, o)
  BY <1>3, <1>4 DEF Run!Ends, Run!Elses, Ends, Elses
<1>6. \A c : Run!WellFormed(c) <=> WellFormed(c)
  BY <1>1, <1>3, <1>5 DEF Run!WellFormed, WellFormed
<1>7. Run!Exit = Exit
  BY DEF Run!Exit, Exit
<1>8. \A c, p, n : Run!Target(c, p, n) = Target(c, p, n)
  <2> TAKE c, p, n
  <2> DEFINE S == {o \in 1..p - 1 : Opens(c[o]) /\ Inside(c, o, p) /\ Labels(c, o) = Labels(c, p) - n}
             F(o) == IF c[o].op = "loop" THEN {o + 1} ELSE {q + 1 : q \in Ends(c, o)}
  <2>1. {o \in 1..p - 1 : /\ Run!Opens(c[o]) /\ Run!Inside(c, o, p)
                          /\ Run!Labels(c, o) = Run!Labels(c, p) - n} = S
    BY <1>1, <1>3, <1>4
  <2>2. \A o : (IF c[o].op = "loop" THEN {o + 1} ELSE {q + 1 : q \in Run!Ends(c, o)}) = F(o)
    BY <1>5
  <2>3. Run!Target(c, p, n) = IF Labels(c, p) = n + 1 THEN {Exit} ELSE UNION {F(o) : o \in S}
    <3> HIDE DEF S, F
    <3>1. QED BY <1>3, <1>7, <2>1, <2>2 DEF Run!Target
  <2>4. QED BY <2>3, Zenon DEF Target
<1>9. \A c, p : Run!Successors(c, p) = Successors(c, p)
  BY <1>5, <1>7, <1>8 DEF Run!Successors, Successors
<1>10. (\A i : Run!Calls(i) <=> Calls(i)) /\ (\A i : Run!MayTrap(i) <=> MayTrap(i))
  BY DEF Run!Calls, Calls, Run!MayTrap, MayTrap
<1>11. QED BY <1>6, <1>7, <1>9, <1>10

(* The first state is that of a run that has not begun.                    *)
LEMMA RunInit == Init => Run!Init
<1> SUFFICES ASSUME Init PROVE Run!Init
  OBVIOUS
<1>1. WellFormed(code)
  BY ProgramFacts DEF Init
<1>2. Original(pc) = 1
  <2>1. Place(out, 1) = 1
    BY PlaceStep
  <2>2. QED BY <2>1 DEF Init, Original, Place
<1>3. [k \in 1..Len(callers) |-> Original(callers[k].pc)] = <<>>
  BY DEF Init
<1>4. QED BY <1>1, <1>2, <1>3, RunCode DEF Init, Run!Init

(* The places at which the frames below wait.                              *)
PlacesOf(c, f) == [k \in 1..Len(f) |-> Place(c, f[k].pc)]

(* There are as many of them as frames.                                    *)
LEMMA PlacesFacts ==
    ASSUME NEW c, NEW f \in Seq(Frame)
    PROVE  /\ PlacesOf(c, f) \in Seq({Place(c, p) : p \in Nat}) /\ Len(PlacesOf(c, f)) = Len(f) /\ Len(f) \in Nat
           /\ \A k \in 1..Len(f) : PlacesOf(c, f)[k] = Place(c, f[k].pc)
           /\ PlacesOf(c, f) = <<>> <=> f = <<>>
<1> DEFINE S == {Place(c, p) : p \in Nat}
           g == PlacesOf(c, f)
<1>1. Len(f) \in Nat /\ \A k \in 1..Len(f) : f[k] \in Frame
  BY LenProperties, ElementOfSeq
<1>2. \A k \in 1..Len(f) : g[k] = Place(c, f[k].pc)
  BY DEF PlacesOf
<1>3. g \in [1..Len(f) -> S]
  BY <1>1 DEF PlacesOf, Frame
<1> HIDE DEF g, S
<1>4. g \in Seq(S)
  BY <1>1, <1>3, IsASeq
<1>5. Len(g) = Len(f)
  BY <1>1, <1>3, <1>4, LenProperties
<1>6. g = <<>> <=> f = <<>>
  BY <1>4, <1>5, EmptySeq
<1>7. QED BY <1>1, <1>2, <1>4, <1>5, <1>6 DEF g, S

(* A frame more.                                                           *)
LEMMA PlacesPushed ==
    ASSUME NEW c, NEW f \in Seq(Frame), NEW x \in Frame
    PROVE  PlacesOf(c, Append(f, x)) = Append(PlacesOf(c, f), Place(c, x.pc))
<1> DEFINE S == {Place(c, p) : p \in Nat}
           h == Append(f, x)
           a == PlacesOf(c, h)
           g == PlacesOf(c, f)
           b == Append(g, Place(c, x.pc))
<1>1. /\ h \in Seq(Frame) /\ Len(h) = Len(f) + 1 /\ h[Len(f) + 1] = x /\ Len(f) \in Nat
      /\ \A k \in 1..Len(f) : h[k] = f[k]
  BY AppendProperties, LenProperties
<1> HIDE DEF h
<1>2. a \in Seq(S) /\ Len(a) = Len(f) + 1 /\ \A k \in 1..Len(f) + 1 : a[k] = Place(c, h[k].pc)
  BY <1>1, PlacesFacts
<1>3. g \in Seq(S) /\ Len(g) = Len(f) /\ \A k \in 1..Len(f) : g[k] = Place(c, f[k].pc)
  BY PlacesFacts
<1>4. Place(c, x.pc) \in S
  BY DEF Frame
<1> HIDE DEF S, a, g
<1>5. /\ b \in Seq(S) /\ Len(b) = Len(f) + 1 /\ b[Len(f) + 1] = Place(c, x.pc)
      /\ \A k \in 1..Len(f) : b[k] = g[k]
  BY <1>3, <1>4, AppendProperties
<1> HIDE DEF b
<1>6. \A k \in 1..Len(f) + 1 : k \in 1..Len(f) \/ k = Len(f) + 1
  BY <1>1
<1>7. \A k \in 1..Len(a) : a[k] = b[k]
  BY <1>1, <1>2, <1>3, <1>5, <1>6
<1>8. a = b
  BY <1>2, <1>5, <1>7, SeqEqual
<1>9. QED BY <1>8 DEF a, b, g, h

(* A frame less.                                                           *)
LEMMA PlacesPopped ==
    ASSUME NEW c, NEW f \in Seq(Frame), f # <<>>
    PROVE  PlacesOf(c, SubSeq(f, 1, Len(f) - 1)) = SubSeq(PlacesOf(c, f), 1, Len(f) - 1)
<1> DEFINE S == {Place(c, p) : p \in Nat}
           h == SubSeq(f, 1, Len(f) - 1)
           a == PlacesOf(c, h)
           g == PlacesOf(c, f)
           b == SubSeq(g, 1, Len(g) - 1)
<1>1. Len(f) \in Nat \ {0}
  BY EmptySeq, LenProperties
<1>2. h \in Seq(Frame) /\ Len(h) = Len(f) - 1 /\ \A k \in 1..Len(f) - 1 : h[k] = f[k]
  BY <1>1, Popped
<1> HIDE DEF h
<1>3. a \in Seq(S) /\ Len(a) = Len(f) - 1 /\ \A k \in 1..Len(f) - 1 : a[k] = Place(c, h[k].pc)
  BY <1>2, PlacesFacts
<1>4. g \in Seq(S) /\ Len(g) = Len(f) /\ \A k \in 1..Len(f) : g[k] = Place(c, f[k].pc)
  BY PlacesFacts
<1> HIDE DEF S, a, g
<1>5. b \in Seq(S) /\ Len(b) = Len(f) - 1 /\ \A k \in 1..Len(f) - 1 : b[k] = g[k]
  BY <1>1, <1>4, Popped
<1> HIDE DEF b
<1>6. \A k \in 1..Len(f) - 1 : k \in 1..Len(f)
  BY <1>1
<1>7. \A k \in 1..Len(a) : a[k] = b[k]
  BY <1>2, <1>3, <1>4, <1>5, <1>6
<1>8. a = b
  BY <1>3, <1>5, <1>7, SeqEqual
<1>9. QED BY <1>4, <1>8 DEF a, b, g, h

(* The mapping of Run, in terms of places.                                 *)
LEMMA RunMapped ==
    /\ Original(pc) = Place(out, pc)
    /\ [k \in 1..Len(callers) |-> Original(callers[k].pc)] = PlacesOf(out, callers)
BY DEF Original, Place, PlacesOf

(* The same of the next state.                                             *)
LEMMA RunMappedNext ==
    /\ Original(pc)' = Place(out', pc')
    /\ [k \in 1..Len(callers) |-> Original(callers[k].pc)]' = PlacesOf(out', callers')
BY DEF Original, Place, PlacesOf

(* WasmRun's variables as Run has them.                                    *)
RunStatus == CASE status = "inject" -> "loading"
               [] status = "exhausted" -> "aborted"
               [] OTHER -> status
RunPlace == Original(pc)
RunCallers == [k \in 1..Len(callers) |-> Original(callers[k].pc)]

(* WasmRun's actions of those variables.                                   *)
LEMMA RunActions ==
    /\ Run!runVars = <<RunStatus, code, RunPlace, RunCallers>>
    /\ Run!runVars' = <<RunStatus', code', RunPlace', RunCallers'>>
    /\ Run!Load <=> /\ RunStatus = "loading" /\ RunStatus' = "running"
                    /\ code' = code /\ RunPlace' = RunPlace /\ RunCallers' = RunCallers
    /\ Run!Leave <=> IF RunCallers = <<>>
                     THEN RunStatus' = "returned" /\ RunPlace' = RunPlace /\ RunCallers' = RunCallers
                     ELSE /\ RunPlace' = RunCallers[Len(RunCallers)]
                          /\ RunCallers' = SubSeq(RunCallers, 1, Len(RunCallers) - 1)
                          /\ RunStatus' = RunStatus
    /\ Run!Trap <=> /\ RunStatus = "running" /\ MayTrap(code[RunPlace]) /\ RunStatus' = "trapped"
                    /\ code' = code /\ RunPlace' = RunPlace /\ RunCallers' = RunCallers
    /\ Run!Abort <=> /\ RunStatus = "running" /\ RunStatus' = "aborted"
                     /\ code' = code /\ RunPlace' = RunPlace /\ RunCallers' = RunCallers
<1> USE DEF RunStatus, RunPlace, RunCallers
<1>1. Run!runVars = <<RunStatus, code, RunPlace, RunCallers>>
  BY DEF Run!runVars
<1>2. Run!runVars' = <<RunStatus', code', RunPlace', RunCallers'>>
  BY DEF Run!runVars
<1>3. Run!Load <=> /\ RunStatus = "loading" /\ RunStatus' = "running"
                   /\ code' = code /\ RunPlace' = RunPlace /\ RunCallers' = RunCallers
  BY DEF Run!Load
<1>4. Run!Leave <=> IF RunCallers = <<>>
                     THEN RunStatus' = "returned" /\ RunPlace' = RunPlace /\ RunCallers' = RunCallers
                     ELSE /\ RunPlace' = RunCallers[Len(RunCallers)]
                          /\ RunCallers' = SubSeq(RunCallers, 1, Len(RunCallers) - 1)
                          /\ RunStatus' = RunStatus
  BY DEF Run!Leave
<1>5. Run!Trap <=> /\ RunStatus = "running" /\ MayTrap(code[RunPlace]) /\ RunStatus' = "trapped"
                    /\ code' = code /\ RunPlace' = RunPlace /\ RunCallers' = RunCallers
  BY DEF Run!Trap, Run!MayTrap, MayTrap
<1>6. Run!Abort <=> /\ RunStatus = "running" /\ RunStatus' = "aborted"
                     /\ code' = code /\ RunPlace' = RunPlace /\ RunCallers' = RunCallers
  BY DEF Run!Abort
<1>7. QED BY <1>1, <1>2, <1>3, <1>4, <1>5, <1>6

(* The step of an operator, likewise.                                      *)
LEMMA RunStepIs ==
    Run!Step <=> /\ RunStatus = "running"
                 /\ \E q \in Successors(code, RunPlace) :
                       IF q = Exit THEN Run!Leave
                       ELSE RunPlace' = q /\ RunStatus' = RunStatus /\ RunCallers' = RunCallers
                 /\ code' = code
<1> DEFINE S == Successors(code, RunPlace)
<1>1. Run!Successors(code, Original(pc)) = S
  BY RunCode DEF RunPlace
<1>2. Run!Exit = Exit
  BY RunCode
<1> HIDE DEF S
<1>3. QED BY <1>1, <1>2 DEF Run!Step, RunStatus, RunPlace, RunCallers, S

(* And a call.                                                             *)
LEMMA RunCallIs ==
    Run!Call <=> /\ RunStatus = "running" /\ Calls(code[RunPlace])
                 /\ IF Len(RunCallers) = MaxCalls
                    THEN RunStatus' = "trapped" /\ RunPlace' = RunPlace /\ RunCallers' = RunCallers
                    ELSE /\ RunPlace' = 1 /\ RunCallers' = Append(RunCallers, RunPlace + 1)
                         /\ RunStatus' = RunStatus
                 /\ code' = code
BY RunCode DEF Run!Call, RunStatus, RunPlace, RunCallers

(* The mapped variables before and after a step.                           *)
LEMMA RunState ==
    /\ RunPlace = Place(out, pc) /\ RunPlace' = Place(out', pc')
    /\ RunCallers = PlacesOf(out, callers) /\ RunCallers' = PlacesOf(out', callers')
    /\ RunStatus = IF status = "inject" THEN "loading" ELSE IF status = "exhausted" THEN "aborted" ELSE status
    /\ RunStatus' = IF status' = "inject" THEN "loading" ELSE IF status' = "exhausted" THEN "aborted" ELSE status'
<1>1. RunPlace = Place(out, pc) /\ RunCallers = PlacesOf(out, callers)
  BY RunMapped DEF RunPlace, RunCallers
<1>2. RunPlace' = Place(out', pc') /\ RunCallers' = PlacesOf(out', callers')
  BY RunMappedNext DEF RunPlace, RunCallers
<1>3. RunStatus = IF status = "inject" THEN "loading" ELSE IF status = "exhausted" THEN "aborted" ELSE status
  BY DEF RunStatus
<1>4. RunStatus' = IF status' = "inject" THEN "loading" ELSE IF status' = "exhausted" THEN "aborted" ELSE status'
  BY DEF RunStatus
<1>5. QED BY <1>1, <1>2, <1>3, <1>4

(* A throw is an abort, for whatever reason; a trap is a trap.             *)
LEMMA RunStops ==
    ASSUME Running, UNCHANGED passVars, UNCHANGED <<pc, callers>>
    PROVE  /\ status' \in {"exhausted", "aborted"} => Run!Abort
           /\ status' = "trapped" /\ MayTrap(code[RunPlace]) => Run!Trap
<1>1. RunStatus = "running" /\ code' = code /\ out' = out
  BY RunState DEF Running, passVars
<1>2. RunPlace' = RunPlace /\ RunCallers' = RunCallers
  BY <1>1, RunState
<1>3. status' \in {"exhausted", "aborted"} => RunStatus' = "aborted"
  BY RunState
<1>4. status' = "trapped" => RunStatus' = "trapped"
  BY RunState
<1>5. QED BY <1>1, <1>2, <1>3, <1>4, RunActions

(* A frame returns to the place it was called from.                        *)
LEMMA LeaveMapped ==
    ASSUME IInv, Running, UNCHANGED out, NEW left, Leave(left)
    PROVE  Run!Leave
<1>1. callers \in Seq(Frame) /\ status = "running"
  BY DEF IInv, TypeOK, Running
<1>2. /\ RunPlace = Place(out, pc) /\ RunPlace' = Place(out, pc')
      /\ RunCallers = PlacesOf(out, callers) /\ RunCallers' = PlacesOf(out, callers')
  BY RunState
<1>3. /\ Len(RunCallers) = Len(callers) /\ Len(callers) \in Nat /\ (RunCallers = <<>> <=> callers = <<>>)
      /\ \A k \in 1..Len(callers) : RunCallers[k] = Place(out, callers[k].pc)
  BY <1>1, <1>2, PlacesFacts
<1>4. CASE callers = <<>>
  <2>1. status' = "returned" /\ pc' = pc /\ callers' = callers
    BY <1>4 DEF Leave
  <2>2. RunStatus' = "returned"
    BY <2>1, RunState
  <2>3. QED BY <1>2, <1>3, <1>4, <2>1, <2>2, RunActions
<1>5. CASE callers # <<>>
  <2>1. /\ pc' = callers[Len(callers)].pc /\ status' = status
        /\ callers' = SubSeq(callers, 1, Len(callers) - 1)
    BY <1>5 DEF Leave
  <2>2. Len(callers) \in 1..Len(callers)
    BY <1>1, <1>3, <1>5, EmptySeq
  <2>3. RunPlace' = RunCallers[Len(RunCallers)]
    BY <1>2, <1>3, <2>1, <2>2
  <2>4. RunCallers' = SubSeq(RunCallers, 1, Len(RunCallers) - 1)
    <3>1. PlacesOf(out, SubSeq(callers, 1, Len(callers) - 1)) = SubSeq(PlacesOf(out, callers), 1, Len(callers) - 1)
      BY <1>1, <1>5, PlacesPopped
    <3>2. QED BY <1>2, <1>3, <2>1, <3>1
  <2>5. RunStatus' = RunStatus
    BY <2>1, RunState
  <2>6. QED BY <1>3, <1>5, <2>3, <2>4, <2>5, RunActions
<1>6. QED BY <1>4, <1>5

(* Before the run there is nothing to see; the pass ends as the body is    *)
(* loaded.                                                                 *)
LEMMA LoadMapped ==
    ASSUME IInv
    PROVE  /\ Decode => UNCHANGED Run!runVars
           /\ Inject => Run!Load
<1>1. ASSUME Decode PROVE UNCHANGED Run!runVars
  <2>1. status = "inject" /\ UNCHANGED <<status, code, pc, callers>> /\ pc = 1 /\ callers = <<>>
    BY <1>1 DEF Decode, IInv, Paid, Paying
  <2>2. Place(out, 1) = 1 /\ Place(out', 1) = 1
    BY PlaceStep
  <2>3. PlacesOf(out, <<>>) = <<>> /\ PlacesOf(out', <<>>) = <<>>
    BY DEF PlacesOf
  <2>4. RunPlace' = RunPlace /\ RunCallers' = RunCallers
    BY <2>1, <2>2, <2>3, RunState
  <2>5. RunStatus' = RunStatus
    BY <2>1, RunState
  <2>6. QED BY <2>1, <2>4, <2>5, RunActions
<1>2. ASSUME Inject PROVE Run!Load
  <2>1. status = "inject" /\ status' = "running" /\ UNCHANGED <<code, out, pc, callers>>
    BY <1>2 DEF Inject, passVars
  <2>2. RunPlace' = RunPlace /\ RunCallers' = RunCallers
    BY <2>1, RunState
  <2>3. RunStatus = "loading" /\ RunStatus' = "running"
    BY <2>1, RunState
  <2>4. QED BY <2>1, <2>2, <2>3, RunActions
<1>3. QED BY <1>1, <1>2

(* A call of use_gas stays at its place, or stops the run.                 *)
LEMMA UseGasMapped ==
    ASSUME IInv, RunUseGas
    PROVE  Run!Abort \/ UNCHANGED Run!runVars
<1>1. Running /\ out[pc].op = "use_gas"
  BY DEF RunUseGas
<1>2. CASE remained < out[pc].n
  BY <1>1, <1>2, RunStops DEF RunUseGas, Charge
<1>3. CASE ~(remained < out[pc].n)
  <2>1. pc' = pc + 1 /\ UNCHANGED <<status, callers>> /\ UNCHANGED passVars
    BY <1>3 DEF RunUseGas, Charge
  <2>2. out' = out /\ code' = code
    BY <2>1 DEF passVars
  <2>3. Place(out, pc + 1) = Place(out, pc)
    <3>1. pc \in Nat \ {0}
      BY <1>1, RunFacts
    <3>2. Place(out, pc) \in Nat /\ Place(out, pc + 1) = Place(out, pc) + 0
      BY <1>1, <3>1, PlaceStep
    <3>3. QED BY <3>2
  <2>4. RunPlace' = RunPlace /\ RunCallers' = RunCallers
    BY <2>1, <2>2, <2>3, RunState
  <2>5. RunStatus' = RunStatus
    BY <2>1, RunState
  <2>6. QED BY <2>2, <2>4, <2>5, RunActions
<1>4. QED BY <1>2, <1>3

(* Control passes to the place of an operator that the body before the     *)
(* pass allows.                                                            *)
LEMMA StepMapped ==
    ASSUME IInv, Running, out[pc].op # "use_gas", UNCHANGED passVars, NEW q \in Successors(out, pc),
           \/ q = Exit /\ \E left : Leave(left)
           \/ q # Exit /\ pc' = q /\ UNCHANGED <<status, callers>>
    PROVE  Run!Step
<1>1. Metered(out, code) /\ pc \in 1..Len(out) /\ out' = out /\ code' = code /\ status = "running"
  BY RunFacts DEF passVars, Running
<1>2. RunStatus = "running" /\ RunPlace = Place(out, pc)
  BY <1>1, RunState
<1>3. CASE q = Exit
  <2>1. Exit \in Successors(code, Place(out, pc))
    <3>1. \A k \in 2..Len(out) : k # Exit
      BY DEF Exit
    <3>2. QED BY <1>1, <1>3, <3>1, SuccessorsCopied DEF Lands
  <2>2. Run!Leave
    BY <1>1, <1>3, LeaveMapped
  <2>3. QED BY <1>1, <1>2, <2>1, <2>2, RunStepIs
<1>4. CASE q # Exit
  <2>1. q \in 2..Len(out) /\ Place(out, q) \in Successors(code, Place(out, pc))
    BY <1>1, <1>4, SuccessorsCopied DEF Lands
  <2>2. Place(out, q) # Exit
    <3>1. q \in Nat \ {0}
      BY <2>1
    <3>2. Place(out, q) \in Nat \ {0}
      BY <3>1, PlaceStep
    <3>3. QED BY <3>2 DEF Exit
  <2>3. pc' = q /\ UNCHANGED <<status, callers>>
    BY <1>4
  <2>4. RunPlace' = Place(out, q) /\ RunCallers' = RunCallers
    BY <1>1, <2>3, RunState
  <2>5. RunStatus' = RunStatus
    BY <2>3, RunState
  <2>6. QED BY <1>1, <1>2, <2>1, <2>2, <2>4, <2>5, RunStepIs
<1>5. QED BY <1>3, <1>4

(* So do all operators but calls.                                          *)
LEMMA OpMapped ==
    ASSUME IInv, RunOp
    PROVE  Run!Step
<1>1. Running /\ out[pc].op # "use_gas" /\ UNCHANGED passVars
  BY DEF RunOp
<1>2. PICK q \in Successors(out, pc) :
            \/ q = Exit /\ \E left : Leave(left)
            \/ q # Exit /\ pc' = q /\ UNCHANGED <<status, callers>>
  BY DEF RunOp
<1>3. QED BY <1>1, <1>2, StepMapped

(* An intrinsic returns to the next operator or stops the run.             *)
LEMMA ImportMapped ==
    ASSUME IInv, RunImport
    PROVE  Run!Step \/ Run!Abort
<1>1. Running /\ Calls(out[pc])
  BY DEF RunImport
<1>2. CASE remained < GasCallBase
  BY <1>1, <1>2, RunStops DEF RunImport, Charge
<1>3. CASE ~(remained < GasCallBase)
  <2>1. /\ UNCHANGED passVars /\ callers' = callers
        /\ \/ pc' = pc + 1 /\ status' = status
           \/ status' = "aborted" /\ pc' = pc
    BY <1>3 DEF RunImport, Charge
  <2>2. CASE status' = "aborted" /\ pc' = pc
    BY <1>1, <2>1, <2>2, RunStops
  <2>3. CASE pc' = pc + 1 /\ status' = status
    <3>1. PICK due : Balanced(due) /\ Paying(due)
      BY <1>1, RunFacts
    <3>2. out[pc].op # "use_gas" /\ pc + 1 \in Successors(out, pc) /\ pc + 1 \in 1..Len(out)
      BY <1>1, <3>1, AfterCall
    <3>3. pc + 1 # Exit
      BY <3>2 DEF Exit
    <3>4. QED BY <1>1, <2>1, <2>3, <3>2, <3>3, StepMapped
  <2>4. QED BY <2>1, <2>2, <2>3
<1>4. QED BY <1>2, <1>3

(* A call starts a frame at the first place.                               *)
LEMMA CallMapped ==
    ASSUME IInv, RunCall
    PROVE  Run!Call
<1>1. Running /\ Calls(out[pc]) /\ UNCHANGED passVars /\ out' = out /\ code' = code
  BY DEF RunCall, passVars
<1>2. /\ Metered(out, code) /\ pc \in 1..Len(out) /\ pc \in Nat \ {0} /\ out[pc].op # "use_gas"
      /\ callers \in Seq(Frame)
  BY <1>1, RunFacts DEF Calls, IInv, TypeOK
<1>3. Place(out, pc + 1) = Place(out, pc) + 1 /\ out[pc] = code[Place(out, pc)]
  BY <1>2, MeteredPlace
<1>4. RunStatus = "running" /\ RunPlace = Place(out, pc) /\ RunPlace' = Place(out, pc')
  BY <1>1, RunState DEF Running
<1>5. RunCallers = PlacesOf(out, callers) /\ RunCallers' = PlacesOf(out, callers')
  BY <1>1, RunState
<1>6. Len(RunCallers) = Len(callers)
  BY <1>2, <1>5, PlacesFacts
<1>7. CASE Len(callers) = MaxCalls
  <2>1. status' = "trapped" /\ UNCHANGED <<pc, callers>>
    BY <1>7 DEF RunCall
  <2>2. RunStatus' = "trapped"
    BY <2>1, RunState
  <2>3. QED BY <1>1, <1>3, <1>4, <1>5, <1>6, <1>7, <2>1, <2>2, RunCallIs
<1>8. CASE Len(callers) # MaxCalls
  <2> DEFINE f == [pc |-> pc + 1, credit |-> credit - Price(out[pc])]
  <2>1. callers' = Append(callers, f) /\ pc' = 1 /\ status' = status
    BY <1>8 DEF RunCall
  <2>2. f \in Frame /\ f.pc = pc + 1
    <3>1. PICK due : Balanced(due) /\ Paying(due)
      BY <1>1, RunFacts
    <3>2. credit - Price(out[pc]) \in Nat
      BY <1>1, <3>1, AfterCall
    <3>3. QED BY <1>2, <3>2 DEF Frame
  <2> HIDE DEF f
  <2>3. PlacesOf(out, Append(callers, f)) = Append(PlacesOf(out, callers), Place(out, f.pc))
    BY <1>2, <2>2, PlacesPushed
  <2>4. RunCallers' = Append(RunCallers, RunPlace + 1)
    BY <1>3, <1>4, <1>5, <2>1, <2>2, <2>3
  <2>5. RunPlace' = 1
    BY <1>4, <2>1, PlaceStep
  <2>6. RunStatus' = RunStatus
    BY <2>1, RunState
  <2>7. QED BY <1>1, <1>3, <1>4, <1>6, <1>8, <2>4, <2>5, <2>6, RunCallIs
<1>9. QED BY <1>7, <1>8

(* What traps is the operator at that place.                               *)
LEMMA TrapMapped ==
    ASSUME IInv, RunTrap
    PROVE  Run!Trap
<1>1. Running /\ MayTrap(out[pc]) /\ status' = "trapped" /\ UNCHANGED passVars /\ UNCHANGED <<pc, callers>>
  BY DEF RunTrap
<1>2. out[pc] = code[RunPlace]
  <2>1. Metered(out, code) /\ pc \in 1..Len(out) /\ out[pc].op # "use_gas"
    BY <1>1, RunFacts DEF MayTrap
  <2>2. QED BY <2>1, MeteredPlace, RunState
<1>3. QED BY <1>1, <1>2, RunStops

(* inject's gas pass changes nothing that a contract does: the code it     *)
(* writes takes the steps that the body before the pass would take, to the *)
(* same operators, through the same frames, until it ends or runs out of   *)
(* gas. Every behaviour of GasMetering is one of WasmRun.                  *)
THEOREM TransparentTheorem == Spec => Transparent
<1>1. Init => Run!Init
  BY RunInit
<1>2. IInv /\ [Next]_vars => [Run!Next]_(Run!runVars)
  <2> SUFFICES ASSUME IInv, [Next]_vars PROVE Run!Next \/ UNCHANGED Run!runVars
    OBVIOUS
  <2>1. CASE Decode
    BY <2>1, LoadMapped
  <2>2. CASE Inject
    BY <2>2, LoadMapped DEF Run!Next
  <2>3. CASE RunUseGas
    BY <2>3, UseGasMapped DEF Run!Next
  <2>4. CASE RunOp
    BY <2>4, OpMapped DEF Run!Next
  <2>5. CASE RunImport
    BY <2>5, ImportMapped DEF Run!Next
  <2>6. CASE RunCall
    BY <2>6, CallMapped DEF Run!Next
  <2>7. CASE RunTrap
    BY <2>7, TrapMapped DEF Run!Next
  <2>8. CASE UNCHANGED vars
    <3>1. UNCHANGED <<status, code, out, pc, callers>>
      BY <2>8 DEF vars, passVars
    <3>2. RunPlace' = RunPlace /\ RunCallers' = RunCallers
      BY <3>1, RunState
    <3>3. RunStatus' = RunStatus
      BY <3>1, RunState
    <3>4. QED BY <3>1, <3>2, <3>3, RunActions
  <2>9. QED BY <2>1, <2>2, <2>3, <2>4, <2>5, <2>6, <2>7, <2>8 DEF Next, Work, Ended
<1>3. QED BY <1>1, <1>2, Invariance, PTL DEF Spec, Transparent, Run!Spec
=============================================================================
