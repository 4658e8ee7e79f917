--------------------------- MODULE CodeGen_proofs ---------------------------
(* Code that passes validation never fails an assertion of the emitter, for every module and   *)
(* every body: each operator that the validator accepts leaves the two in step (InStep), and    *)
(* the emitter at a point of IR whose blocks, PHIs and types are right but for those it has     *)
(* yet to end.                                                                                 *)
EXTENDS CodeGen, SequenceTheorems, FiniteSetTheorems, TLAPS

(* The fields of a context. *)
LEMMA CtxFields ==
  ASSUME NEW cs, NEW bts, NEW st, NEW d, NEW bs, NEW ord, NEW ins, NEW nx
  PROVE  LET c == Ctx(cs, bts, st, d, bs, ord, ins, nx) IN
         /\ c.controlStack = cs /\ c.branchTargetStack = bts /\ c.stack = st /\ c.depth = d
         /\ c.blocks = bs /\ c.order = ord /\ c.insert = ins /\ c.next = nx
BY DEF Ctx

(* What each method of the emitter does to a context. *)
LEMMA ContextSteps ==
  ASSUME NEW cs, NEW bts, NEW st, NEW d, NEW bs, NEW ord, NEW ins, NEW nx
  PROVE  LET c == Ctx(cs, bts, st, d, bs, ord, ins, nx) IN
         /\ \A phis : E!create(c, phis) = Ctx(cs, bts, st, d, bs \o Fresh(phis), ord \o Numbers(Len(bs), Len(phis)), ins, nx)
         /\ \A b : E!setInsertPoint(c, b) = Ctx(cs, bts, st, d, bs, ord, b, nx)
         /\ \A op, args, to : E!terminate(c, op, args, to) = Ctx(cs, bts, st, d, Ended(bs, ins, Term(op, args, to)), ord, ins, nx)
         /\ \A b, value : E!addIncoming(c, b, value) = Ctx(cs, bts, st, d, Given(bs, b, [value |-> value, from |-> ins]), ord, ins, nx)
         /\ \A op, args, type : E!instr(c, op, args, type) =
                Ctx(cs, bts, st, d, Coded(bs, ins, [id |-> nx, op |-> op, args |-> args, type |-> type]), ord, ins, nx + 1)
         /\ \A n : E!popped(c, n) = Ctx(cs, bts, SubSeq(st, 1, Len(st) - n), d, bs, ord, ins, nx)
         /\ \A value : E!push(c, value) = Ctx(cs, bts, Append(st, value), d, bs, ord, ins, nx)
         /\ \A type, resultType, endBlock, elseBlock : E!pushControlStack(c, type, resultType, endBlock, elseBlock) =
                Ctx(Append(cs, [type |-> type, resultType |-> resultType, endBlock |-> endBlock, elseBlock |-> elseBlock,
                                outerStackSize |-> Len(st), outerBranchTargetStackSize |-> Len(bts), isReachable |-> TRUE]),
                    bts, st, d, bs, ord, ins, nx)
         /\ \A argumentType, b : E!pushBranchTarget(c, argumentType, b) =
                Ctx(cs, Append(bts, [argumentType |-> argumentType, block |-> b]), st, d, bs, ord, ins, nx)
<1> DEFINE c == Ctx(cs, bts, st, d, bs, ord, ins, nx)
<1>0. /\ c.controlStack = cs /\ c.branchTargetStack = bts /\ c.stack = st /\ c.depth = d
      /\ c.blocks = bs /\ c.order = ord /\ c.insert = ins /\ c.next = nx
  BY CtxFields
<1>1. \A phis : E!create(c, phis) = Ctx(cs, bts, st, d, bs \o Fresh(phis), ord \o Numbers(Len(bs), Len(phis)), ins, nx)
  <2> TAKE phis
  <2> DEFINE x == bs \o Fresh(phis)
             y == ord \o Numbers(Len(bs), Len(phis))
  <2>1. E!create(c, phis) = [[c EXCEPT !.blocks = x] EXCEPT !.order = y]
    BY <1>0, Zenon DEF E!create, Fresh, Numbers, E!Block
  <2> HIDE DEF x, y
  <2>2. [c EXCEPT !.blocks = x] = Ctx(cs, bts, st, d, x, ord, ins, nx)
    BY DEF Ctx
  <2>3. [Ctx(cs, bts, st, d, x, ord, ins, nx) EXCEPT !.order = y] = Ctx(cs, bts, st, d, x, y, ins, nx)
    BY DEF Ctx
  <2>4. E!create(c, phis) = Ctx(cs, bts, st, d, x, y, ins, nx)
    BY <2>1, <2>2, <2>3, Zenon
  <2>5. QED BY <2>4 DEF x, y
<1>2. \A b : E!setInsertPoint(c, b) = Ctx(cs, bts, st, d, bs, ord, b, nx)
  BY DEF E!setInsertPoint, Ctx
<1>3. \A op, args, to : E!terminate(c, op, args, to) = Ctx(cs, bts, st, d, Ended(bs, ins, Term(op, args, to)), ord, ins, nx)
  <2> TAKE op, args, to
  <2> DEFINE x == Ended(bs, ins, Term(op, args, to))
  <2>1. E!terminate(c, op, args, to) = [c EXCEPT !.blocks = x]
    BY <1>0, Zenon DEF E!terminate, Ended, Term
  <2> HIDE DEF x
  <2>2. [c EXCEPT !.blocks = x] = Ctx(cs, bts, st, d, x, ord, ins, nx)
    BY DEF Ctx
  <2>3. E!terminate(c, op, args, to) = Ctx(cs, bts, st, d, x, ord, ins, nx)
    BY <2>1, <2>2, Zenon
  <2>4. QED BY <2>3 DEF x
<1>4. \A b, value : E!addIncoming(c, b, value) = Ctx(cs, bts, st, d, Given(bs, b, [value |-> value, from |-> ins]), ord, ins, nx)
  <2> TAKE b, value
  <2> DEFINE x == Given(bs, b, [value |-> value, from |-> ins])
  <2>1. E!addIncoming(c, b, value) = [c EXCEPT !.blocks = x]
    BY <1>0, Zenon DEF E!addIncoming, Given
  <2> HIDE DEF x
  <2>2. [c EXCEPT !.blocks = x] = Ctx(cs, bts, st, d, x, ord, ins, nx)
    BY DEF Ctx
  <2>3. E!addIncoming(c, b, value) = Ctx(cs, bts, st, d, x, ord, ins, nx)
    BY <2>1, <2>2, Zenon
  <2>4. QED BY <2>3 DEF x
<1>5. \A op, args, type : E!instr(c, op, args, type) =
                  Ctx(cs, bts, st, d, Coded(bs, ins, [id |-> nx, op |-> op, args |-> args, type |-> type]), ord, ins, nx + 1)
  <2> TAKE op, args, type
  <2> DEFINE x == Coded(bs, ins, [id |-> nx, op |-> op, args |-> args, type |-> type])
             y == nx + 1
  <2>1. E!instr(c, op, args, type) = [[c EXCEPT !.blocks = x] EXCEPT !.next = y]
    BY <1>0, Zenon DEF E!instr, Coded
  <2> HIDE DEF x, y
  <2>2. [c EXCEPT !.blocks = x] = Ctx(cs, bts, st, d, x, ord, ins, nx)
    BY DEF Ctx
  <2>3. [Ctx(cs, bts, st, d, x, ord, ins, nx) EXCEPT !.next = y] = Ctx(cs, bts, st, d, x, ord, ins, y)
    BY DEF Ctx
  <2>4. E!instr(c, op, args, type) = Ctx(cs, bts, st, d, x, ord, ins, y)
    BY <2>1, <2>2, <2>3, Zenon
  <2>5. QED BY <2>4 DEF x, y
<1>6. \A n : E!popped(c, n) = Ctx(cs, bts, SubSeq(st, 1, Len(st) - n), d, bs, ord, ins, nx)
  <2> TAKE n
  <2> DEFINE x == SubSeq(st, 1, Len(st) - n)
  <2>1. E!popped(c, n) = [c EXCEPT !.stack = x]
    BY <1>0, Zenon DEF E!popped
  <2> HIDE DEF x
  <2>2. [c EXCEPT !.stack = x] = Ctx(cs, bts, x, d, bs, ord, ins, nx)
    BY DEF Ctx
  <2>3. E!popped(c, n) = Ctx(cs, bts, x, d, bs, ord, ins, nx)
    BY <2>1, <2>2, Zenon
  <2>4. QED BY <2>3 DEF x
<1>7. \A value : E!push(c, value) = Ctx(cs, bts, Append(st, value), d, bs, ord, ins, nx)
  BY DEF E!push, Ctx
<1>8. \A type, resultType, endBlock, elseBlock : E!pushControlStack(c, type, resultType, endBlock, elseBlock) =
                  Ctx(Append(cs, [type |-> type, resultType |-> resultType, endBlock |-> endBlock, elseBlock |-> elseBlock,
                                  outerStackSize |-> Len(st), outerBranchTargetStackSize |-> Len(bts), isReachable |-> TRUE]),
                      bts, st, d, bs, ord, ins, nx)
  <2> TAKE type, resultType, endBlock, elseBlock
  <2> DEFINE x == Append(cs, [type |-> type, resultType |-> resultType, endBlock |-> endBlock, elseBlock |-> elseBlock,
                              outerStackSize |-> Len(st), outerBranchTargetStackSize |-> Len(bts), isReachable |-> TRUE])
  <2>1. E!pushControlStack(c, type, resultType, endBlock, elseBlock) = [c EXCEPT !.controlStack = x]
    BY <1>0, Zenon DEF E!pushControlStack
  <2> HIDE DEF x
  <2>2. [c EXCEPT !.controlStack = x] = Ctx(x, bts, st, d, bs, ord, ins, nx)
    BY DEF Ctx
  <2>3. E!pushControlStack(c, type, resultType, endBlock, elseBlock) = Ctx(x, bts, st, d, bs, ord, ins, nx)
    BY <2>1, <2>2, Zenon
  <2>4. QED BY <2>3 DEF x
<1>9. \A argumentType, b : E!pushBranchTarget(c, argumentType, b) =
                  Ctx(cs, Append(bts, [argumentType |-> argumentType, block |-> b]), st, d, bs, ord, ins, nx)
  BY DEF E!pushBranchTarget, Ctx
<1>10. QED BY <1>1, <1>2, <1>3, <1>4, <1>5, <1>6, <1>7, <1>8, <1>9, Zenon

-----------------------------------------------------------------------------
(* The control flow graph *)

(* Incoming values of p after incoming values of others. *)
LEMMA ConcatFrom ==
  ASSUME NEW s \in Seq(Incomings), NEW m \in Seq(Incomings), NEW p, AllFrom(m, p)
  PROVE  /\ s \o m \in Seq(Incomings)
         /\ \A k \in 1..Len(s \o m) : (\E j \in 1..Len(s) : (s \o m)[k] = s[j]) \/ (\E j \in 1..Len(m) : (s \o m)[k] = m[j])
         /\ NoneFrom(s, p) => From(s \o m, p) = Len(m)
         /\ \A q : q # p => From(s \o m, q) = From(s, q)
<1> DEFINE u == s \o m
           n == Len(s)
           l == Len(m)
<1>1. /\ u \in Seq(Incomings) /\ Len(u) = n + l /\ n \in Nat /\ l \in Nat
      /\ \A k \in 1..(n + l) : u[k] = IF k <= n THEN s[k] ELSE m[k - n]
  BY ConcatProperties, LenProperties
<1> HIDE DEF u, n, l
<1>2. \A k \in 1..n : k \in 1..Len(u) /\ u[k] = s[k]
  BY <1>1
<1>3. \A k \in (n + 1)..(n + l) : k \in 1..Len(u) /\ k - n \in 1..l /\ u[k] = m[k - n]
  BY <1>1
<1>4. \A k \in 1..Len(u) : k \in 1..n \/ k \in (n + 1)..(n + l)
  BY <1>1
<1>5. \A k \in (n + 1)..(n + l) : u[k].from = p
  BY <1>3 DEF l, AllFrom
<1>6. ASSUME NoneFrom(s, p) PROVE From(u, p) = l
  <2>1. {k \in 1..Len(u) : u[k].from = p} = (n + 1)..(n + l)
    BY <1>2, <1>3, <1>4, <1>5, <1>6 DEF NoneFrom, n
  <2>2. n + 1 \in Int /\ n + l \in Int
    BY <1>1
  <2>3. Cardinality((n + 1)..(n + l)) = IF n + 1 > n + l THEN 0 ELSE (n + l) - (n + 1) + 1
    BY <2>2, FS_Interval
  <2>4. From(u, p) = Cardinality((n + 1)..(n + l))
    BY <2>1, Zenon DEF From
  <2>5. QED BY <2>3, <2>4, <1>1
<1>7. ASSUME NEW q, q # p PROVE From(u, q) = From(s, q)
  <2>1. {k \in 1..Len(u) : u[k].from = q} = {k \in 1..n : s[k].from = q}
    BY <1>2, <1>4, <1>5, <1>7
  <2>2. QED BY <2>1, Zenon DEF From, n
<1>8. \A k \in 1..Len(u) : (\E j \in 1..n : u[k] = s[j]) \/ (\E j \in 1..l : u[k] = m[j])
  BY <1>2, <1>3, <1>4
<1>9. QED BY <1>1, <1>6, <1>7, <1>8, Zenon DEF u, n, l

(* The fields of a block. *)
LEMMA BlockTypes ==
  ASSUME NEW bs \in Seq(Blocks), NEW b \in 1..Len(bs)
  PROVE  /\ bs[b].phi \in ResultType /\ bs[b].in \in Seq(Incomings)
         /\ bs[b].code \in Seq(Instructions) /\ bs[b].terms \in Seq(Terms)
<1>1. bs[b] \in Blocks
  BY ElementOfSeq
<1>2. QED BY <1>1 DEF Blocks

(* A sequence of one. *)
LEMMA Singleton ==
  ASSUME NEW x
  PROVE  <<x>> # <<>> /\ Len(<<x>>) = 1 /\ <<x>>[1] = x
OBVIOUS

(* A terminator with its incoming values keeps the graph. *)
LEMMA Linked ==
  ASSUME NEW bs, Graph(bs), NEW p, NEW t, NEW more, NEW ds, Joins(bs, p, t, more, ds)
  PROVE  Graph(ds)
<1> SUFFICES ASSUME
           p \in 1..Len(bs), bs[p].terms = <<>>,
           TypedTerm(t), \A k \in 1..Len(t.to) : t.to[k] \in 1..Len(bs),
           \A b \in 1..Len(bs) : more[b] \in Seq(Incomings),
           \A b \in 1..Len(bs) : \A k \in 1..Len(more[b]) : more[b][k].from = p /\ more[b][k].value.type = bs[b].phi,
           \A b \in 1..Len(bs) : bs[b].phi # "none" => Len(more[b]) = To(t.to, b),
           ds \in Seq(Blocks), Len(ds) = Len(bs),
           \A b \in 1..Len(bs) : ds[b].phi = bs[b].phi /\ ds[b].in = bs[b].in \o more[b] /\ ds[b].code = bs[b].code,
           \A b \in 1..Len(bs) : ds[b].terms = IF b = p THEN <<t>> ELSE bs[b].terms
    PROVE  Graph(ds)
  BY Zenon DEF Joins
<1> DEFINE D == 1..Len(bs)
<1>0. ds[p].terms # <<>> /\ Len(ds[p].terms) = 1 /\ ds[p].terms[1] = t
  <2>1. ds[p].terms = <<t>>
    OBVIOUS
  <2>2. QED BY <2>1, Singleton, Zenon
<1>1. \A b \in D : b # p => ds[b].terms = bs[b].terms
  OBVIOUS
<1>2. ASSUME NEW b \in D
      PROVE  /\ \A k \in 1..Len(ds[b].in) : (\E j \in 1..Len(bs[b].in) : ds[b].in[k] = bs[b].in[j]) \/ (\E j \in 1..Len(more[b]) : ds[b].in[k] = more[b][j])
             /\ NoneFrom(bs[b].in, p) => From(ds[b].in, p) = Len(more[b])
             /\ \A q : q # p => From(ds[b].in, q) = From(bs[b].in, q)
  <2>1. bs[b].in \in Seq(Incomings)
    BY BlockTypes DEF Graph
  <2>2. AllFrom(more[b], p)
    BY DEF AllFrom
  <2>3. ds[b].in = bs[b].in \o more[b] /\ more[b] \in Seq(Incomings)
    OBVIOUS
  <2> DEFINE s == bs[b].in
             m == more[b]
  <2>4. s \in Seq(Incomings) /\ m \in Seq(Incomings) /\ AllFrom(m, p) /\ ds[b].in = s \o m
    BY <2>1, <2>2, <2>3
  <2> HIDE DEF s, m
  <2>5. Joined(s, m, s \o m, p)
    BY <2>4, ConcatFrom DEF Joined
  <2>6. Joined(bs[b].in, more[b], ds[b].in, p)
    BY <2>4, <2>5, Zenon DEF s, m
  <2>7. QED BY <2>6, Zenon DEF Joined
<1>3. Closed(ds)
  <2>1. ASSUME NEW b \in D, NEW k \in 1..Len(ds[b].in) PROVE ds[b].in[k].from \in D
    <3>1. CASE \E j \in 1..Len(bs[b].in) : ds[b].in[k] = bs[b].in[j]
      BY <3>1, Zenon DEF Graph, Closed
    <3>2. CASE \E j \in 1..Len(more[b]) : ds[b].in[k] = more[b][j]
      <4>1. PICK j \in 1..Len(more[b]) : ds[b].in[k] = more[b][j]
        BY <3>2, Zenon
      <4>2. more[b][j].from = p
        OBVIOUS
      <4>3. QED BY <4>1, <4>2, Zenon
    <3>3. QED BY <1>2, <3>1, <3>2, Zenon
  <2>2. ASSUME NEW b \in D
        PROVE ds[b].terms = <<>> \/ (Len(ds[b].terms) = 1 /\ \A k \in 1..Len(ds[b].terms[1].to) : ds[b].terms[1].to[k] \in D)
    <3>1. CASE b = p
      BY <1>0, <3>1, Zenon
    <3>2. CASE b # p
      BY <1>1, <3>2, Zenon DEF Graph, Closed
    <3>3. QED BY <3>1, <3>2, Zenon
  <2>3. QED BY <2>1, <2>2, Zenon DEF Closed
<1>4. TypedBlocks(ds)
  <2>1. ASSUME NEW b \in D, NEW k \in 1..Len(ds[b].in) PROVE ds[b].in[k].value.type = ds[b].phi
    <3>0. ds[b].phi = bs[b].phi
      OBVIOUS
    <3>1. CASE \E j \in 1..Len(bs[b].in) : ds[b].in[k] = bs[b].in[j]
      BY <3>0, <3>1, Zenon DEF Graph, TypedBlocks
    <3>2. CASE \E j \in 1..Len(more[b]) : ds[b].in[k] = more[b][j]
      <4>1. PICK j \in 1..Len(more[b]) : ds[b].in[k] = more[b][j]
        BY <3>2, Zenon
      <4>2. more[b][j].value.type = bs[b].phi
        OBVIOUS
      <4>3. QED BY <4>1, <4>2, <3>0, Zenon
    <3>3. QED BY <1>2, <3>1, <3>2, Zenon
  <2>2. ASSUME NEW b \in D, NEW k \in 1..Len(ds[b].code) PROVE WellTyped(ds[b].code[k])
    <3>1. ds[b].code = bs[b].code
      OBVIOUS
    <3>2. QED BY <3>1, Zenon DEF Graph, TypedBlocks
  <2>3. ASSUME NEW b \in D, ds[b].terms # <<>> PROVE TypedTerm(ds[b].terms[1])
    <3>1. CASE b = p
      BY <1>0, <3>1, Zenon
    <3>2. CASE b # p
      BY <1>1, <2>3, <3>2, Zenon DEF Graph, TypedBlocks
    <3>3. QED BY <3>1, <3>2, Zenon
  <2>4. QED BY <2>1, <2>2, <2>3, Zenon DEF TypedBlocks
<1>5. Matched(ds)
  <2>0. ASSUME NEW b \in D PROVE NoneFrom(bs[b].in, p)
    BY Zenon DEF Graph, Matched, NoneFrom
  <2>1. ASSUME NEW b \in D, NEW q \in D, ds[q].terms = <<>>, NEW k \in 1..Len(ds[b].in) PROVE ds[b].in[k].from # q
    <3>1. q # p
      BY <1>0, <2>1, Zenon
    <3>2. bs[q].terms = <<>>
      BY <1>1, <2>1, <3>1, Zenon
    <3>3. CASE \E j \in 1..Len(bs[b].in) : ds[b].in[k] = bs[b].in[j]
      <4>1. PICK j \in 1..Len(bs[b].in) : ds[b].in[k] = bs[b].in[j]
        BY <3>3, Zenon
      <4>2. bs[b].in[j].from # q
        BY <3>2, Zenon DEF Graph, Matched
      <4>3. QED BY <4>1, <4>2, Zenon
    <3>4. CASE \E j \in 1..Len(more[b]) : ds[b].in[k] = more[b][j]
      <4>1. PICK j \in 1..Len(more[b]) : ds[b].in[k] = more[b][j]
        BY <3>4, Zenon
      <4>2. more[b][j].from = p
        OBVIOUS
      <4>3. QED BY <4>1, <4>2, <3>1, Zenon
    <3>5. QED BY <1>2, <3>3, <3>4, Zenon
  <2>2. ASSUME NEW b \in D, NEW q \in D, ds[q].terms # <<>>, ds[b].phi # "none"
        PROVE  From(ds[b].in, q) = To(ds[q].terms[1].to, b)
    <3>0. bs[b].phi # "none"
      BY <2>2
    <3>1. CASE q = p
      <4>1. From(ds[b].in, p) = Len(more[b])
        BY <1>2, <2>0, Zenon
      <4>2. Len(more[b]) = To(t.to, b)
        BY <3>0, Zenon
      <4>3. QED BY <4>1, <4>2, <1>0, <3>1, Zenon
    <3>2. CASE q # p
      <4>1. From(ds[b].in, q) = From(bs[b].in, q)
        BY <1>2, <3>2, Zenon
      <4>2. ds[q].terms = bs[q].terms
        BY <1>1, <3>2, Zenon
      <4>3. From(bs[b].in, q) = To(bs[q].terms[1].to, b)
        BY <4>2, <2>2, <3>0, Zenon DEF Graph, Matched
      <4>4. QED BY <4>1, <4>2, <4>3, Zenon
    <3>3. QED BY <3>1, <3>2, Zenon
  <2>3. QED BY <2>1, <2>2, Zenon DEF Matched
<1>6. QED BY <1>3, <1>4, <1>5, Zenon DEF Graph

(* A block is given its terminator. *)
LEMMA EndedFields ==
  ASSUME NEW bs \in Seq(Blocks), NEW p \in 1..Len(bs), bs[p].terms = <<>>, NEW t \in Terms
  PROVE  /\ Ended(bs, p, t) \in Seq(Blocks) /\ Len(Ended(bs, p, t)) = Len(bs)
         /\ \A b \in 1..Len(bs) :
               /\ Ended(bs, p, t)[b].phi = bs[b].phi
               /\ Ended(bs, p, t)[b].in = bs[b].in
               /\ Ended(bs, p, t)[b].code = bs[b].code
               /\ Ended(bs, p, t)[b].terms = IF b = p THEN <<t>> ELSE bs[b].terms
<1> DEFINE x == [bs[p] EXCEPT !.terms = Append(@, t)]
<1>1. bs[p] \in Blocks
  BY ElementOfSeq
<1>2. Append(bs[p].terms, t) = <<t>>
  OBVIOUS
<1>3. <<t>> \in Seq(Terms)
  OBVIOUS
<1>4. x \in Blocks /\ x.phi = bs[p].phi /\ x.in = bs[p].in /\ x.code = bs[p].code /\ x.terms = <<t>>
  BY <1>1, <1>2, <1>3 DEF Blocks
<1>5. Ended(bs, p, t) = [bs EXCEPT ![p] = x]
  BY Zenon DEF Ended
<1> HIDE DEF x
<1>6. /\ [bs EXCEPT ![p] = x] \in Seq(Blocks) /\ Len([bs EXCEPT ![p] = x]) = Len(bs)
      /\ \A b \in 1..Len(bs) : [bs EXCEPT ![p] = x][b] = IF b = p THEN x ELSE bs[b]
  BY <1>4, ExceptSeq
<1> DEFINE ds == Ended(bs, p, t)
<1>7. ds \in Seq(Blocks) /\ Len(ds) = Len(bs) /\ \A b \in 1..Len(bs) : ds[b] = IF b = p THEN x ELSE bs[b]
  BY <1>5, <1>6
<1> HIDE DEF ds
<1>8. \A b \in 1..Len(bs) : /\ ds[b].phi = bs[b].phi /\ ds[b].in = bs[b].in /\ ds[b].code = bs[b].code
                            /\ ds[b].terms = IF b = p THEN <<t>> ELSE bs[b].terms
  BY <1>4, <1>7
<1>9. QED BY <1>7, <1>8 DEF ds

(* A PHI is given an incoming value. *)
LEMMA GivenFields ==
  ASSUME NEW bs \in Seq(Blocks), NEW a \in 1..Len(bs), NEW x \in Incomings
  PROVE  /\ Given(bs, a, x) \in Seq(Blocks) /\ Len(Given(bs, a, x)) = Len(bs)
         /\ \A b \in 1..Len(bs) :
               /\ Given(bs, a, x)[b].phi = bs[b].phi
               /\ Given(bs, a, x)[b].in = IF b = a THEN Append(bs[b].in, x) ELSE bs[b].in
               /\ Given(bs, a, x)[b].code = bs[b].code
               /\ Given(bs, a, x)[b].terms = bs[b].terms
<1> DEFINE y == [bs[a] EXCEPT !.in = Append(@, x)]
           z == Append(bs[a].in, x)
<1>1. bs[a] \in Blocks
  BY ElementOfSeq
<1>2. bs[a].in \in Seq(Incomings)
  BY BlockTypes
<1>3. z \in Seq(Incomings)
  BY <1>2, AppendProperties
<1>4. y = [bs[a] EXCEPT !.in = z]
  BY Zenon
<1> HIDE DEF y, z
<1>5. y \in Blocks /\ y.phi = bs[a].phi /\ y.in = z /\ y.code = bs[a].code /\ y.terms = bs[a].terms
  BY <1>1, <1>3, <1>4 DEF Blocks
<1>6. Given(bs, a, x) = [bs EXCEPT ![a] = y]
  BY Zenon DEF Given, y
<1>7. /\ [bs EXCEPT ![a] = y] \in Seq(Blocks) /\ Len([bs EXCEPT ![a] = y]) = Len(bs)
      /\ \A b \in 1..Len(bs) : [bs EXCEPT ![a] = y][b] = IF b = a THEN y ELSE bs[b]
  BY <1>5, ExceptSeq
<1> DEFINE ds == Given(bs, a, x)
<1>8. ds \in Seq(Blocks) /\ Len(ds) = Len(bs) /\ \A b \in 1..Len(bs) : ds[b] = IF b = a THEN y ELSE bs[b]
  BY <1>6, <1>7
<1> HIDE DEF ds
<1>9. \A b \in 1..Len(bs) : /\ ds[b].phi = bs[b].phi /\ ds[b].in = (IF b = a THEN Append(bs[b].in, x) ELSE bs[b].in)
                            /\ ds[b].code = bs[b].code /\ ds[b].terms = bs[b].terms
  BY <1>5, <1>8 DEF z
<1>10. QED BY <1>8, <1>9 DEF ds

(* A block is given an instruction. *)
LEMMA CodedFields ==
  ASSUME NEW bs \in Seq(Blocks), NEW a \in 1..Len(bs), NEW x \in Instructions
  PROVE  /\ Coded(bs, a, x) \in Seq(Blocks) /\ Len(Coded(bs, a, x)) = Len(bs)
         /\ \A b \in 1..Len(bs) :
               /\ Coded(bs, a, x)[b].phi = bs[b].phi
               /\ Coded(bs, a, x)[b].in = bs[b].in
               /\ Coded(bs, a, x)[b].code = IF b = a THEN Append(bs[b].code, x) ELSE bs[b].code
               /\ Coded(bs, a, x)[b].terms = bs[b].terms
<1> DEFINE y == [bs[a] EXCEPT !.code = Append(@, x)]
           z == Append(bs[a].code, x)
<1>1. bs[a] \in Blocks
  BY ElementOfSeq
<1>2. bs[a].code \in Seq(Instructions)
  BY BlockTypes
<1>3. z \in Seq(Instructions)
  BY <1>2, AppendProperties
<1>4. y = [bs[a] EXCEPT !.code = z]
  BY Zenon
<1> HIDE DEF y, z
<1>5. y \in Blocks /\ y.phi = bs[a].phi /\ y.in = bs[a].in /\ y.code = z /\ y.terms = bs[a].terms
  BY <1>1, <1>3, <1>4 DEF Blocks
<1>6. Coded(bs, a, x) = [bs EXCEPT ![a] = y]
  BY Zenon DEF Coded, y
<1>7. /\ [bs EXCEPT ![a] = y] \in Seq(Blocks) /\ Len([bs EXCEPT ![a] = y]) = Len(bs)
      /\ \A b \in 1..Len(bs) : [bs EXCEPT ![a] = y][b] = IF b = a THEN y ELSE bs[b]
  BY <1>5, ExceptSeq
<1> DEFINE ds == Coded(bs, a, x)
<1>8. ds \in Seq(Blocks) /\ Len(ds) = Len(bs) /\ \A b \in 1..Len(bs) : ds[b] = IF b = a THEN y ELSE bs[b]
  BY <1>6, <1>7
<1> HIDE DEF ds
<1>9. \A b \in 1..Len(bs) : /\ ds[b].phi = bs[b].phi /\ ds[b].in = bs[b].in
                            /\ ds[b].code = (IF b = a THEN Append(bs[b].code, x) ELSE bs[b].code) /\ ds[b].terms = bs[b].terms
  BY <1>5, <1>8 DEF z
<1>10. QED BY <1>8, <1>9 DEF ds

(* Blocks are added. *)
LEMMA FreshFields ==
  ASSUME NEW bs \in Seq(Blocks), NEW phis \in Seq(ResultType)
  PROVE  /\ bs \o Fresh(phis) \in Seq(Blocks) /\ Len(bs \o Fresh(phis)) = Len(bs) + Len(phis)
         /\ \A b \in 1..Len(bs) : (bs \o Fresh(phis))[b] = bs[b]
         /\ \A k \in 1..Len(phis) :
               /\ (bs \o Fresh(phis))[Len(bs) + k].phi = phis[k]
               /\ (bs \o Fresh(phis))[Len(bs) + k].in = <<>>
               /\ (bs \o Fresh(phis))[Len(bs) + k].code = <<>>
               /\ (bs \o Fresh(phis))[Len(bs) + k].terms = <<>>
<1> DEFINE f == Fresh(phis)
           n == Len(phis)
           m == Len(bs)
<1>1. n \in Nat /\ m \in Nat
  BY LenProperties
<1>2. \A k \in 1..n : phis[k] \in ResultType
  BY ElementOfSeq
<1>3. ASSUME NEW r \in ResultType
      PROVE  E!NewBlock(r) \in Blocks /\ E!NewBlock(r).phi = r /\ E!NewBlock(r).in = <<>> /\ E!NewBlock(r).code = <<>> /\ E!NewBlock(r).terms = <<>>
  BY EmptySeq DEF E!NewBlock, Blocks
<1>4. f = [k \in 1..n |-> E!NewBlock(phis[k])]
  BY DEF Fresh
<1>5. \A k \in 1..n : f[k] = E!NewBlock(phis[k]) /\ f[k] \in Blocks
  BY <1>2, <1>3, <1>4
<1>6. f \in Seq(Blocks) /\ Len(f) = n
  BY <1>1, <1>4, <1>5
<1> HIDE DEF f
<1> DEFINE u == bs \o f
<1>7. u \in Seq(Blocks) /\ Len(u) = m + n /\ \A k \in 1..(m + n) : u[k] = IF k <= m THEN bs[k] ELSE f[k - m]
  <2>1. bs \in Seq(Blocks) /\ f \in Seq(Blocks)
    BY <1>6
  <2>2. /\ bs \o f \in Seq(Blocks) /\ Len(bs \o f) = Len(bs) + Len(f)
        /\ \A k \in 1..Len(bs) + Len(f) : (bs \o f)[k] = IF k <= Len(bs) THEN bs[k] ELSE f[k - Len(bs)]
    BY <2>1, ConcatProperties
  <2>3. QED BY <2>2, <1>6
<1> HIDE DEF u, n, m
<1>8. \A k \in 1..m : u[k] = bs[k]
  BY <1>1, <1>7
<1>9. \A k \in 1..n : u[m + k] = f[k]
  BY <1>1, <1>7
<1>10. \A k \in 1..n : u[m + k] = E!NewBlock(phis[k]) /\ phis[k] \in ResultType
  BY <1>5, <1>9, <1>2
<1>11. \A k \in 1..n : u[m + k].phi = phis[k] /\ u[m + k].in = <<>> /\ u[m + k].code = <<>> /\ u[m + k].terms = <<>>
  <2> TAKE k \in 1..n
  <2> DEFINE r == phis[k]
  <2>1. u[m + k] = E!NewBlock(r) /\ r \in ResultType
    BY <1>10
  <2> HIDE DEF r
  <2>2. QED BY <2>1, <1>3, Zenon DEF r
<1>12. QED BY <1>7, <1>8, <1>11, Zenon DEF u, f, n, m

(* A terminator with no edge to a PHI keeps the graph. *)
LEMMA EndedGraph ==
  ASSUME NEW bs, Graph(bs), NEW p \in 1..Len(bs), bs[p].terms = <<>>,
         NEW t \in Terms, TypedTerm(t), Plain(bs, t.to)
  PROVE  Graph(Ended(bs, p, t))
<1> DEFINE ds == Ended(bs, p, t)
           more == [b \in 1..Len(bs) |-> <<>>]
<1>0. bs \in Seq(Blocks)
  BY DEF Graph
<1>1. /\ ds \in Seq(Blocks) /\ Len(ds) = Len(bs)
      /\ \A b \in 1..Len(bs) : ds[b].phi = bs[b].phi /\ ds[b].in = bs[b].in /\ ds[b].code = bs[b].code
      /\ \A b \in 1..Len(bs) : ds[b].terms = IF b = p THEN <<t>> ELSE bs[b].terms
  BY <1>0, EndedFields
<1> HIDE DEF ds
<1>2. \A b \in 1..Len(bs) : more[b] = <<>>
  OBVIOUS
<1> HIDE DEF more
<1>3. \A b \in 1..Len(bs) : more[b] \in Seq(Incomings) /\ Len(more[b]) = 0
  BY <1>2, EmptySeq
<1>4. \A b \in 1..Len(bs) : ds[b].in = bs[b].in \o more[b]
  <2> TAKE b \in 1..Len(bs)
  <2>1. bs[b].in \in Seq(Incomings)
    BY <1>0, BlockTypes
  <2>2. QED BY <2>1, <1>1, <1>2, ConcatEmptySeq
<1>5. \A b \in 1..Len(bs) : bs[b].phi # "none" => Len(more[b]) = To(t.to, b)
  <2> SUFFICES ASSUME NEW b \in 1..Len(bs), bs[b].phi # "none" PROVE To(t.to, b) = 0
    BY <1>3
  <2>1. {k \in 1..Len(t.to) : t.to[k] = b} = {}
    BY Zenon DEF Plain
  <2>2. QED BY <2>1, FS_EmptySet, Zenon DEF To
<1>6. \A k \in 1..Len(t.to) : t.to[k] \in 1..Len(bs)
  BY Zenon DEF Plain
<1>7. \A b \in 1..Len(bs) : \A k \in 1..Len(more[b]) : more[b][k].from = p /\ more[b][k].value.type = bs[b].phi
  BY <1>3
<1>8. \A b \in 1..Len(bs) : ds[b].phi = bs[b].phi /\ ds[b].in = bs[b].in \o more[b] /\ ds[b].code = bs[b].code
  BY <1>1, <1>4
<1>9. \A b \in 1..Len(bs) : more[b] \in Seq(Incomings)
  BY <1>3
<1>10. Joins(bs, p, t, more, ds)
  BY <1>1, <1>5, <1>6, <1>7, <1>8, <1>9, Zenon DEF Joins
<1>a. Graph(ds)
  BY <1>10, Linked
<1>11. QED BY <1>a DEF ds

(* So does one with an edge to a PHI that is given a value. *)
LEMMA PassedGraph ==
  ASSUME NEW bs, Graph(bs), NEW p \in 1..Len(bs), bs[p].terms = <<>>,
         NEW a \in 1..Len(bs), NEW x \in Values, x.type = bs[a].phi,
         NEW t \in Terms, TypedTerm(t), Sole(bs, t.to, a)
  PROVE  Graph(Ended(Given(bs, a, [value |-> x, from |-> p]), p, t))
<1> DEFINE y == [value |-> x, from |-> p]
           cs == Given(bs, a, y)
           ds == Ended(cs, p, t)
           more == [b \in 1..Len(bs) |-> IF b = a THEN <<y>> ELSE <<>>]
<1>0. bs \in Seq(Blocks) /\ Len(bs) \in Nat
  BY LenProperties DEF Graph
<1>a. y \in Incomings /\ y.from = p /\ y.value = x
  BY <1>0 DEF Incomings
<1> HIDE DEF y
<1>b. /\ cs \in Seq(Blocks) /\ Len(cs) = Len(bs)
      /\ \A b \in 1..Len(bs) : cs[b].phi = bs[b].phi /\ cs[b].code = bs[b].code /\ cs[b].terms = bs[b].terms
      /\ \A b \in 1..Len(bs) : cs[b].in = IF b = a THEN Append(bs[b].in, y) ELSE bs[b].in
  <2>1. bs \in Seq(Blocks) /\ a \in 1..Len(bs) /\ y \in Incomings
    BY <1>0, <1>a
  <2>2. QED BY ONLY <2>1, GivenFields
<1> HIDE DEF cs
<1>c. p \in 1..Len(cs) /\ cs[p].terms = <<>>
  BY <1>b
<1>1. /\ ds \in Seq(Blocks) /\ Len(ds) = Len(cs)
      /\ \A b \in 1..Len(cs) : ds[b].phi = cs[b].phi /\ ds[b].in = cs[b].in /\ ds[b].code = cs[b].code
      /\ \A b \in 1..Len(cs) : ds[b].terms = IF b = p THEN <<t>> ELSE cs[b].terms
  <2>1. cs \in Seq(Blocks) /\ p \in 1..Len(cs) /\ cs[p].terms = <<>> /\ t \in Terms
    BY <1>b, <1>c
  <2>2. QED BY ONLY <2>1, EndedFields
<1> HIDE DEF ds
<1>2. more[a] = <<y>> /\ \A b \in 1..Len(bs) : b # a => more[b] = <<>>
  OBVIOUS
<1> HIDE DEF more
<1>3. /\ more[a] \in Seq(Incomings) /\ Len(more[a]) = 1 /\ more[a][1] = y
      /\ \A b \in 1..Len(bs) : b # a => more[b] \in Seq(Incomings) /\ Len(more[b]) = 0
  <2>1. <<y>> \in Seq(Incomings) /\ Len(<<y>>) = 1 /\ <<y>>[1] = y
    BY <1>a
  <2>2. <<>> \in Seq(Incomings) /\ Len(<<>>) = 0
    BY EmptySeq
  <2>3. QED BY <1>2, <2>1, <2>2, Zenon
<1>4. \A b \in 1..Len(bs) : ds[b].in = bs[b].in \o more[b]
  <2> TAKE b \in 1..Len(bs)
  <2>1. bs[b].in \in Seq(Incomings)
    BY <1>0, BlockTypes
  <2>2. CASE b = a
    <3> DEFINE s == bs[b].in
    <3>1. ds[b].in = Append(s, y) /\ more[b] = <<y>>
      BY <2>2, <1>1, <1>2, <1>b
    <3>2. s \in Seq(Incomings)
      BY <2>1
    <3> HIDE DEF s
    <3>3. Append(s, y) = s \o <<y>>
      BY <3>2, <1>a, AppendIsConcat
    <3>4. QED BY <3>1, <3>3, Zenon DEF s
  <2>3. CASE b # a
    <3>1. ds[b].in = bs[b].in /\ more[b] = <<>>
      BY <2>3, <1>1, <1>2, <1>b
    <3>2. QED BY <2>1, <3>1, ConcatEmptySeq
  <2>4. QED BY <2>2, <2>3, Zenon
<1>5. PICK j \in 1..Len(t.to) : /\ t.to[j] = a
           /\ \A k \in 1..Len(t.to) : k # j => t.to[k] # a /\ t.to[k] \in 1..Len(bs) /\ bs[t.to[k]].phi = "none"
  BY Zenon DEF Sole
<1>6. \A b \in 1..Len(bs) : bs[b].phi # "none" => Len(more[b]) = To(t.to, b)
  <2> SUFFICES ASSUME NEW b \in 1..Len(bs), bs[b].phi # "none" PROVE Len(more[b]) = To(t.to, b)
    OBVIOUS
  <2>1. CASE b = a
    <3>1. {k \in 1..Len(t.to) : t.to[k] = b} = {j}
      BY <1>5, <2>1, Zenon
    <3>2. To(t.to, b) = 1
      BY <3>1, FS_Singleton, Zenon DEF To
    <3>3. QED BY <3>2, <1>3, <2>1, Zenon
  <2>2. CASE b # a
    <3>1. {k \in 1..Len(t.to) : t.to[k] = b} = {}
      BY <1>5, <2>2, Zenon
    <3>2. To(t.to, b) = 0
      BY <3>1, FS_EmptySet, Zenon DEF To
    <3>3. QED BY <3>2, <1>3, <2>2, Zenon
  <2>3. QED BY <2>1, <2>2, Zenon
<1>7. \A k \in 1..Len(t.to) : t.to[k] \in 1..Len(bs)
  BY <1>5, Zenon
<1>8. \A b \in 1..Len(bs) : \A k \in 1..Len(more[b]) : more[b][k].from = p /\ more[b][k].value.type = bs[b].phi
  BY <1>3, <1>a
<1>9. \A b \in 1..Len(bs) : ds[b].phi = bs[b].phi /\ ds[b].in = bs[b].in \o more[b] /\ ds[b].code = bs[b].code
  BY <1>1, <1>4, <1>b
<1>10. \A b \in 1..Len(bs) : more[b] \in Seq(Incomings)
  BY <1>3
<1>11. \A b \in 1..Len(bs) : ds[b].terms = IF b = p THEN <<t>> ELSE bs[b].terms
  BY <1>1, <1>b
<1>12. ds \in Seq(Blocks) /\ Len(ds) = Len(bs)
  BY <1>1, <1>b
<1>d. Joins(bs, p, t, more, ds)
  BY <1>6, <1>7, <1>8, <1>9, <1>10, <1>11, <1>12, Zenon DEF Joins
<1>13. Graph(ds)
  BY <1>d, Linked
<1>14. QED BY <1>13 DEF ds, cs, y

(* An instruction of the right types keeps the graph. *)
LEMMA CodedGraph ==
  ASSUME NEW bs, Graph(bs), NEW a \in 1..Len(bs), NEW x \in Instructions, WellTyped(x)
  PROVE  Graph(Coded(bs, a, x))
<1> DEFINE ds == Coded(bs, a, x)
<1>0. bs \in Seq(Blocks)
  BY DEF Graph
<1>1. /\ ds \in Seq(Blocks) /\ Len(ds) = Len(bs)
      /\ \A b \in 1..Len(bs) : ds[b].phi = bs[b].phi /\ ds[b].in = bs[b].in /\ ds[b].terms = bs[b].terms
      /\ \A b \in 1..Len(bs) : ds[b].code = IF b = a THEN Append(bs[b].code, x) ELSE bs[b].code
  BY <1>0, CodedFields
<1> HIDE DEF ds
<1>2. Closed(ds)
  BY <1>1, Zenon DEF Graph, Closed
<1>3. Matched(ds)
  <2>1. ASSUME NEW b \in 1..Len(bs), NEW p \in 1..Len(bs)
        PROVE  /\ bs[p].terms = <<>> => \A k \in 1..Len(bs[b].in) : bs[b].in[k].from # p
               /\ bs[p].terms # <<>> /\ bs[b].phi # "none" => From(bs[b].in, p) = To(bs[p].terms[1].to, b)
    BY Zenon DEF Graph, Matched
  <2>2. QED BY <1>1, <2>1 DEF Matched
<1>4. ASSUME NEW b \in 1..Len(bs), NEW k \in 1..Len(ds[b].code) PROVE WellTyped(ds[b].code[k])
  <2>1. CASE b = a
    <3> DEFINE s == bs[b].code
    <3>1. ds[b].code = Append(s, x) /\ s \in Seq(Instructions)
      BY <2>1, <1>1, <1>0, BlockTypes
    <3>2. \A j \in 1..Len(s) : WellTyped(s[j])
      BY Zenon DEF Graph, TypedBlocks
    <3> HIDE DEF s
    <3>3. k \in 1..Len(Append(s, x))
      BY <3>1, Zenon
    <3>4. (k \in 1..Len(s) /\ Append(s, x)[k] = s[k]) \/ Append(s, x)[k] = x
      BY <3>1, <3>3, AppendProperties
    <3>5. QED BY <3>1, <3>2, <3>4, Zenon
  <2>2. CASE b # a
    <3>1. ds[b].code = bs[b].code
      BY <1>1, <2>2
    <3>2. QED BY <3>1, Zenon DEF Graph, TypedBlocks
  <2>3. QED BY <2>1, <2>2, Zenon
<1>5. TypedBlocks(ds)
  BY <1>1, <1>4, Zenon DEF Graph, TypedBlocks
<1>6. QED BY <1>1, <1>2, <1>3, <1>5, Zenon DEF Graph, ds

(* A PHI without incoming values may go. *)
LEMMA DroppedGraph ==
  ASSUME NEW bs, Graph(bs), NEW a \in 1..Len(bs), bs[a].in = <<>>
  PROVE  LET ds == [bs EXCEPT ![a].phi = "none"] IN
         /\ Graph(ds) /\ Len(ds) = Len(bs)
         /\ \A b \in 1..Len(bs) : ds[b].terms = bs[b].terms /\ (b # a => ds[b] = bs[b])
<1> DEFINE ds == [bs EXCEPT ![a].phi = "none"]
           y == [bs[a] EXCEPT !.phi = "none"]
<1>0. bs \in Seq(Blocks) /\ bs[a] \in Blocks
  BY ElementOfSeq DEF Graph
<1>1. /\ y \in Blocks /\ y.phi = "none" /\ y.in = bs[a].in /\ y.code = bs[a].code /\ y.terms = bs[a].terms
  BY <1>0 DEF Blocks, ResultType
<1>2. ds = [bs EXCEPT ![a] = y]
  BY Zenon
<1> HIDE DEF y
<1>3. /\ [bs EXCEPT ![a] = y] \in Seq(Blocks) /\ Len([bs EXCEPT ![a] = y]) = Len(bs)
      /\ \A b \in 1..Len(bs) : [bs EXCEPT ![a] = y][b] = IF b = a THEN y ELSE bs[b]
  BY <1>0, <1>1, ExceptSeq
<1>4. ds \in Seq(Blocks) /\ Len(ds) = Len(bs) /\ \A b \in 1..Len(bs) : ds[b] = IF b = a THEN y ELSE bs[b]
  BY <1>2, <1>3
<1> HIDE DEF ds
<1>5. /\ \A b \in 1..Len(bs) : ds[b].in = bs[b].in /\ ds[b].code = bs[b].code /\ ds[b].terms = bs[b].terms
      /\ \A b \in 1..Len(bs) : b # a => ds[b] = bs[b]
      /\ ds[a].phi = "none"
  BY <1>1, <1>4
<1>6. Closed(ds)
  BY <1>4, <1>5, Zenon DEF Graph, Closed
<1>7. \A k \in 1..Len(bs[a].in) : FALSE
  OBVIOUS
<1>8. TypedBlocks(ds)
  <2>1. ASSUME NEW b \in 1..Len(bs), NEW k \in 1..Len(ds[b].in) PROVE ds[b].in[k].value.type = ds[b].phi
    <3>1. b # a
      BY <1>5, <1>7, <2>1, Zenon
    <3>2. QED BY <3>1, <1>5, Zenon DEF Graph, TypedBlocks
  <2>2. QED BY <2>1, <1>4, <1>5, Zenon DEF Graph, TypedBlocks
<1>9. Matched(ds)
  <2>1. ASSUME NEW b \in 1..Len(bs), NEW p \in 1..Len(bs), ds[p].terms = <<>> PROVE \A k \in 1..Len(ds[b].in) : ds[b].in[k].from # p
    <3>1. bs[p].terms = <<>> /\ ds[b].in = bs[b].in
      BY <1>5, <2>1, Zenon
    <3>2. \A k \in 1..Len(bs[b].in) : bs[b].in[k].from # p
      BY <3>1, Zenon DEF Graph, Matched
    <3>3. QED BY <3>1, <3>2, Zenon
  <2>2. ASSUME NEW b \in 1..Len(bs), NEW p \in 1..Len(bs), ds[p].terms # <<>>, ds[b].phi # "none"
        PROVE  From(ds[b].in, p) = To(ds[p].terms[1].to, b)
    <3>1. b # a
      BY <1>5, <2>2, Zenon
    <3>2. ds[b].in = bs[b].in /\ ds[p].terms = bs[p].terms /\ bs[b].phi # "none"
      BY <3>1, <1>5, <2>2, Zenon
    <3>3. Matched(bs) /\ bs[p].terms # <<>>
      BY <3>2, <2>2, Zenon DEF Graph
    <3>4. From(bs[b].in, p) = To(bs[p].terms[1].to, b)
      BY <3>2, <3>3, Zenon DEF Matched
    <3>5. QED BY <3>2, <3>4, Zenon
  <2>3. QED BY <2>1, <2>2, <1>4, Zenon DEF Matched
<1>10. QED BY <1>4, <1>5, <1>6, <1>8, <1>9, Zenon DEF Graph, ds

(* New blocks keep the graph. *)
LEMMA FreshGraph ==
  ASSUME NEW bs, Graph(bs), NEW phis \in Seq(ResultType)
  PROVE  Graph(bs \o Fresh(phis))
<1> DEFINE ds == bs \o Fresh(phis)
           n == Len(bs)
           m == Len(phis)
<1>0. bs \in Seq(Blocks) /\ n \in Nat /\ m \in Nat
  BY LenProperties DEF Graph
<1>1. /\ ds \in Seq(Blocks) /\ Len(ds) = n + m
      /\ \A b \in 1..n : ds[b] = bs[b]
      /\ \A k \in 1..m : ds[n + k].in = <<>> /\ ds[n + k].code = <<>> /\ ds[n + k].terms = <<>>
  BY <1>0, FreshFields
<1> HIDE DEF ds, n, m
<1>2. ASSUME NEW b \in 1..Len(ds)
      PROVE  \/ b \in 1..n /\ ds[b] = bs[b]
             \/ b \notin 1..n /\ ds[b].in = <<>> /\ ds[b].code = <<>> /\ ds[b].terms = <<>>
  <2>1. b \in 1..n \/ (b \notin 1..n /\ b - n \in 1..m /\ n + (b - n) = b)
    BY <1>0, <1>1
  <2>2. CASE b \in 1..n
    BY <2>2, <1>1
  <2>3. CASE b \notin 1..n /\ b - n \in 1..m /\ n + (b - n) = b
    <3> DEFINE k == b - n
    <3>1. k \in 1..m /\ n + k = b
      BY <2>3
    <3> HIDE DEF k
    <3>2. QED BY <3>1, <2>3, <1>1, Zenon
  <2>4. QED BY <2>1, <2>2, <2>3, Zenon
<1>3. /\ \A b \in 1..n : b \in 1..Len(ds)
      /\ \A k \in 1..Len(<<>>) : FALSE
      /\ \A p : From(<<>>, p) = 0
  <2>1. \A b \in 1..n : b \in 1..Len(ds)
    BY <1>0, <1>1
  <2>2. 1..Len(<<>>) = {}
    OBVIOUS
  <2>3. ASSUME NEW p PROVE From(<<>>, p) = 0
    <3>1. {k \in 1..Len(<<>>) : <<>>[k].from = p} = {}
      BY <2>2, Zenon
    <3>2. QED BY <3>1, FS_EmptySet, Zenon DEF From
  <2>4. QED BY <2>1, <2>2, <2>3, Zenon
<1>4. Closed(ds)
  <2>1. ASSUME NEW b \in 1..Len(ds)
        PROVE  /\ \A k \in 1..Len(ds[b].in) : ds[b].in[k].from \in 1..Len(ds)
               /\ ds[b].terms = <<>> \/ (Len(ds[b].terms) = 1 /\ \A k \in 1..Len(ds[b].terms[1].to) : ds[b].terms[1].to[k] \in 1..Len(ds))
    <3>1. CASE b \in 1..n /\ ds[b] = bs[b]
      BY <3>1, <1>3, Zenon DEF Graph, Closed, n
    <3>2. CASE ds[b].in = <<>> /\ ds[b].terms = <<>>
      BY <3>2, <1>3, Zenon
    <3>3. QED BY <1>2, <3>1, <3>2, Zenon
  <2>2. QED BY <2>1, Zenon DEF Closed
<1>5. TypedBlocks(ds)
  <2>1. ASSUME NEW b \in 1..Len(ds)
        PROVE  /\ \A k \in 1..Len(ds[b].in) : ds[b].in[k].value.type = ds[b].phi
               /\ \A k \in 1..Len(ds[b].code) : WellTyped(ds[b].code[k])
               /\ ds[b].terms # <<>> => TypedTerm(ds[b].terms[1])
    <3>1. CASE b \in 1..n /\ ds[b] = bs[b]
      BY <3>1, Zenon DEF Graph, TypedBlocks, n
    <3>2. CASE ds[b].in = <<>> /\ ds[b].code = <<>> /\ ds[b].terms = <<>>
      BY <3>2, <1>3, Zenon
    <3>3. QED BY <1>2, <3>1, <3>2, Zenon
  <2>2. QED BY <2>1, Zenon DEF TypedBlocks
<1>6. Matched(ds)
  <2>1. ASSUME NEW b \in 1..Len(ds), NEW p \in 1..Len(ds), ds[p].terms = <<>>, NEW k \in 1..Len(ds[b].in) PROVE ds[b].in[k].from # p
    <3>1. b \in 1..n /\ ds[b] = bs[b]
      BY <1>2, <1>3, <2>1, Zenon
    <3>2. bs[b].in[k].from \in 1..n
      BY <3>1, <2>1, Zenon DEF Graph, Closed, n
    <3>3. CASE p \in 1..n /\ ds[p] = bs[p]
      BY <3>1, <3>3, <2>1, Zenon DEF Graph, Matched, n
    <3>4. CASE p \notin 1..n
      BY <3>1, <3>2, <3>4, Zenon
    <3>5. QED BY <1>2, <3>3, <3>4, Zenon
  <2>2. ASSUME NEW b \in 1..Len(ds), NEW p \in 1..Len(ds), ds[p].terms # <<>>, ds[b].phi # "none"
        PROVE  From(ds[b].in, p) = To(ds[p].terms[1].to, b)
    <3>1. p \in 1..n /\ ds[p] = bs[p]
      BY <1>2, <2>2, Zenon
    <3>2. CASE b \in 1..n /\ ds[b] = bs[b]
      BY <3>1, <3>2, <2>2, Zenon DEF Graph, Matched, n
    <3>3. CASE b \notin 1..n /\ ds[b].in = <<>>
      <4>1. \A k \in 1..Len(bs[p].terms[1].to) : bs[p].terms[1].to[k] \in 1..n
        BY <3>1, <2>2, Zenon DEF Graph, Closed, n
      <4>2. {k \in 1..Len(bs[p].terms[1].to) : bs[p].terms[1].to[k] = b} = {}
        BY <4>1, <3>3, Zenon
      <4>3. To(bs[p].terms[1].to, b) = 0
        BY <4>2, FS_EmptySet, Zenon DEF To
      <4>4. QED BY <4>3, <3>1, <3>3, <1>3, Zenon
    <3>4. QED BY <1>2, <3>2, <3>3, Zenon
  <2>3. QED BY <2>1, <2>2, Zenon DEF Matched
<1>7. QED BY <1>1, <1>4, <1>5, <1>6, Zenon DEF Graph, ds

(* As many values as edges. *)
LEMMA RepeatedSeq ==
  ASSUME NEW to, Len(to) \in Nat, NEW x \in Incomings, NEW b
  PROVE  /\ Repeated(to, x, b) \in Seq(Incomings) /\ Len(Repeated(to, x, b)) = To(to, b)
         /\ \A k \in 1..Len(Repeated(to, x, b)) : Repeated(to, x, b)[k] = x /\ \E j \in 1..Len(to) : to[j] = b
<1> DEFINE S == {k \in 1..Len(to) : to[k] = b}
<1>1. IsFiniteSet(1..Len(to))
  BY FS_Interval
<1>2. IsFiniteSet(S)
  BY <1>1, FS_Subset
<1>3. To(to, b) = Cardinality(S) /\ Cardinality(S) \in Nat /\ (S = {} => Cardinality(S) = 0)
  BY <1>2, FS_CardinalityType, FS_EmptySet DEF To
<1> DEFINE n == To(to, b)
<1>4. n \in Nat /\ (S = {} => n = 0)
  BY <1>3
<1>5. Repeated(to, x, b) = [k \in 1..n |-> x]
  BY DEF Repeated
<1> HIDE DEF n
<1>6. [k \in 1..n |-> x] \in Seq(Incomings) /\ Len([k \in 1..n |-> x]) = n /\ \A k \in 1..n : [j \in 1..n |-> x][k] = x
  BY <1>4
<1>7. ASSUME NEW k \in 1..n PROVE \E j \in 1..Len(to) : to[j] = b
  <2>1. S # {}
    BY <1>4, <1>7
  <2>2. QED BY <2>1
<1>8. QED BY <1>5, <1>6, <1>7, Zenon DEF n

(* A table whose targets are given their values keeps the graph. *)
LEMMA TabledGraph ==
  ASSUME NEW bs, Graph(bs), NEW p \in 1..Len(bs), bs[p].terms = <<>>, NEW t \in Terms, TypedTerm(t),
         NEW x \in Incomings, x.from = p, Even(bs, t.to, x.value.type)
  PROVE  Leaves(bs, p, Ended(Tabled(bs, t.to, x), p, t))
<1> DEFINE cs == Tabled(bs, t.to, x)
           ds == Ended(cs, p, t)
           more == [b \in 1..Len(bs) |-> Repeated(t.to, x, b)]
<1> USE DEF Even
<1>0. bs \in Seq(Blocks) /\ Len(bs) \in Nat
  BY LenProperties DEF Graph
<1>1. Len(t.to) \in Nat
  <2>1. t.to \in Seq(Nat)
    BY DEF Terms
  <2>2. QED BY <2>1, LenProperties
<1>2. ASSUME NEW b \in 1..Len(bs)
      PROVE  /\ cs[b] \in Blocks /\ cs[b].phi = bs[b].phi /\ cs[b].code = bs[b].code /\ cs[b].terms = bs[b].terms
             /\ cs[b].in = bs[b].in \o Repeated(t.to, x, b)
  <2> DEFINE z == bs[b].in \o Repeated(t.to, x, b)
             y == bs[b]
  <2>1. y \in Blocks /\ bs[b].in \in Seq(Incomings)
    BY <1>0, ElementOfSeq, BlockTypes
  <2>2. Repeated(t.to, x, b) \in Seq(Incomings)
    BY <1>1, RepeatedSeq
  <2>3. z \in Seq(Incomings)
    BY <2>1, <2>2, ConcatProperties
  <2>4. cs[b] = [y EXCEPT !.in = z]
    BY Zenon DEF Tabled
  <2> HIDE DEF z, y
  <2>5. [y EXCEPT !.in = z] \in Blocks /\ [y EXCEPT !.in = z].phi = y.phi /\ [y EXCEPT !.in = z].code = y.code
        /\ [y EXCEPT !.in = z].terms = y.terms /\ [y EXCEPT !.in = z].in = z
    BY <2>1, <2>3 DEF Blocks
  <2>6. QED BY <2>4, <2>5 DEF y, z
<1>3. cs \in Seq(Blocks) /\ Len(cs) = Len(bs)
  <2>1. \A b \in 1..Len(bs) : [bs[b] EXCEPT !.in = @ \o Repeated(t.to, x, b)] \in Blocks
    <3> TAKE b \in 1..Len(bs)
    <3>1. cs[b] = [bs[b] EXCEPT !.in = @ \o Repeated(t.to, x, b)]
      BY Zenon DEF Tabled
    <3>2. QED BY <3>1, <1>2, Zenon
  <2> DEFINE y(b) == [bs[b] EXCEPT !.in = @ \o Repeated(t.to, x, b)]
  <2>2. cs = [b \in 1..Len(bs) |-> y(b)]
    BY Zenon DEF Tabled
  <2>3. \A b \in 1..Len(bs) : y(b) \in Blocks
    BY <2>1, Zenon
  <2> HIDE DEF y
  <2>4. QED BY <2>2, <2>3, <1>0
<1> HIDE DEF cs
<1>4. p \in 1..Len(cs) /\ cs[p].terms = <<>>
  BY <1>2, <1>3
<1>5. /\ ds \in Seq(Blocks) /\ Len(ds) = Len(cs)
      /\ \A b \in 1..Len(cs) : ds[b].phi = cs[b].phi /\ ds[b].in = cs[b].in /\ ds[b].code = cs[b].code
      /\ \A b \in 1..Len(cs) : ds[b].terms = IF b = p THEN <<t>> ELSE cs[b].terms
  <2>1. cs \in Seq(Blocks) /\ p \in 1..Len(cs) /\ cs[p].terms = <<>> /\ t \in Terms
    BY <1>3, <1>4
  <2>2. QED BY ONLY <2>1, EndedFields
<1> HIDE DEF ds
<1>6. \A b \in 1..Len(bs) : more[b] = Repeated(t.to, x, b)
  OBVIOUS
<1> HIDE DEF more
<1>7. ASSUME NEW b \in 1..Len(bs)
      PROVE  /\ more[b] \in Seq(Incomings)
             /\ \A k \in 1..Len(more[b]) : more[b][k].from = p /\ more[b][k].value.type = bs[b].phi
             /\ Len(more[b]) = To(t.to, b)
  <2> DEFINE r == Repeated(t.to, x, b)
  <2>1. /\ r \in Seq(Incomings) /\ Len(r) = To(t.to, b)
        /\ \A k \in 1..Len(r) : r[k] = x /\ \E j \in 1..Len(t.to) : t.to[j] = b
    BY <1>1, RepeatedSeq
  <2>2. more[b] = r
    BY <1>6
  <2> HIDE DEF r
  <2>3. ASSUME NEW k \in 1..Len(r) PROVE r[k].from = p /\ r[k].value.type = bs[b].phi
    <3>1. PICK j \in 1..Len(t.to) : t.to[j] = b
      BY <2>1
    <3>2. QED BY <2>1, <3>1
  <2>4. QED BY <2>1, <2>2, <2>3, Zenon
<1>8. \A b \in 1..Len(bs) : ds[b].phi = bs[b].phi /\ ds[b].in = bs[b].in \o more[b] /\ ds[b].code = bs[b].code
  <2> TAKE b \in 1..Len(bs)
  <2>1. ds[b].phi = cs[b].phi /\ ds[b].in = cs[b].in /\ ds[b].code = cs[b].code
    BY <1>3, <1>5, Zenon
  <2>2. QED BY <2>1, <1>2, <1>6, Zenon
<1>9. \A b \in 1..Len(bs) : ds[b].terms = IF b = p THEN <<t>> ELSE bs[b].terms
  BY <1>2, <1>3, <1>5
<1>10. Joins(bs, p, t, more, ds)
  BY <1>3, <1>5, <1>7, <1>8, <1>9, Zenon DEF Joins
<1>11. Graph(ds)
  BY <1>10, Linked
<1>12. Len(ds) = Len(bs)
  BY <1>3, <1>5
<1>13. <<t>> # <<>>
  OBVIOUS
<1> HIDE DEF ds
<1>14. Leaves(bs, p, ds)
  BY <1>8, <1>9, <1>11, <1>12, <1>13 DEF Leaves
<1>15. QED BY <1>14 DEF ds, cs

-----------------------------------------------------------------------------
(* The order of the blocks *)

(* RemoveAt, by position. *)
LEMMA RemoveAtSeq ==
  ASSUME NEW s \in Seq(Nat), NEW i \in 1..Len(s)
  PROVE  /\ RemoveAt(s, i) \in Seq(Nat) /\ Len(RemoveAt(s, i)) = Len(s) - 1
         /\ \A k \in 1..(Len(s) - 1) : RemoveAt(s, i)[k] = IF k < i THEN s[k] ELSE s[k + 1]
<1> DEFINE n == Len(s)
           a == SubSeq(s, 1, i - 1)
           b == SubSeq(s, i + 1, n)
<1>0. n \in Nat /\ i \in 1..n
  BY LenProperties
<1>1. \A k \in 1..n : s[k] \in Nat
  BY ElementOfSeq
<1>2. a \in Seq(Nat) /\ Len(a) = i - 1 /\ \A k \in 1..(i - 1) : a[k] = s[k]
  BY <1>0, <1>1, SubSeqProperties
<1>3. b \in Seq(Nat) /\ Len(b) = n - i /\ \A k \in 1..(n - i) : b[k] = s[i + k]
  <2>1. \A k \in (i + 1)..n : s[k] \in Nat
    BY <1>0, <1>1
  <2>2. i + 1 \in Int /\ n \in Int
    BY <1>0
  <2>3. /\ b \in Seq(Nat) /\ Len(b) = IF i + 1 <= n THEN n - (i + 1) + 1 ELSE 0
        /\ \A k \in 1..(n - (i + 1) + 1) : b[k] = s[(i + 1) + k - 1]
    BY <2>1, <2>2, SubSeqProperties
  <2> HIDE DEF b, n
  <2>4. \A k \in 1..(n - i) : k \in 1..(n - (i + 1) + 1) /\ (i + 1) + k - 1 = i + k
    BY <1>0
  <2>5. QED BY <2>3, <2>4, <1>0
<1>4. RemoveAt(s, i) = a \o b
  BY DEF RemoveAt
<1> HIDE DEF a, b, n
<1> DEFINE u == a \o b
<1>5. u \in Seq(Nat) /\ Len(u) = n - 1 /\ \A k \in 1..(n - 1) : u[k] = IF k <= i - 1 THEN a[k] ELSE b[k - (i - 1)]
  <2>1. u \in Seq(Nat) /\ Len(u) = Len(a) + Len(b) /\ \A k \in 1..(Len(a) + Len(b)) : u[k] = IF k <= Len(a) THEN a[k] ELSE b[k - Len(a)]
    BY <1>2, <1>3, ConcatProperties
  <2>2. Len(a) + Len(b) = n - 1
    BY <1>0, <1>2, <1>3
  <2>3. QED BY <2>1, <2>2, <1>2
<1> HIDE DEF u
<1>6. ASSUME NEW k \in 1..(n - 1) PROVE u[k] = IF k < i THEN s[k] ELSE s[k + 1]
  <2>1. CASE k < i
    BY <2>1, <1>0, <1>2, <1>5
  <2>2. CASE ~(k < i)
    <3>1. u[k] = b[k - (i - 1)] /\ k - (i - 1) \in 1..(n - i) /\ i + (k - (i - 1)) = k + 1
      BY <2>2, <1>0, <1>5
    <3>2. QED BY <3>1, <2>2, <1>3
  <2>3. QED BY <2>1, <2>2
<1>7. QED BY <1>4, <1>5, <1>6 DEF u, n

(* InsertAt, by position. *)
LEMMA InsertAtSeq ==
  ASSUME NEW s \in Seq(Nat), NEW j \in 1..Len(s), NEW x \in Nat
  PROVE  /\ InsertAt(s, j + 1, x) \in Seq(Nat) /\ Len(InsertAt(s, j + 1, x)) = Len(s) + 1
         /\ \A k \in 1..j : InsertAt(s, j + 1, x)[k] = s[k]
         /\ InsertAt(s, j + 1, x)[j + 1] = x
         /\ \A k \in (j + 1)..Len(s) : InsertAt(s, j + 1, x)[k + 1] = s[k]
<1> DEFINE n == Len(s)
           a == SubSeq(s, 1, j)
           b == SubSeq(s, j + 1, n)
<1>0. n \in Nat /\ j \in 1..n /\ (j + 1) - 1 = j
  BY LenProperties
<1>1. \A k \in 1..n : s[k] \in Nat
  BY ElementOfSeq
<1>2. a \in Seq(Nat) /\ Len(a) = j /\ \A k \in 1..j : a[k] = s[k]
  BY <1>0, <1>1, SubSeqProperties
<1>3. b \in Seq(Nat) /\ Len(b) = n - j /\ \A k \in 1..(n - j) : b[k] = s[j + k]
  <2>1. \A k \in (j + 1)..n : s[k] \in Nat
    BY <1>0, <1>1
  <2>2. j + 1 \in Int /\ n \in Int
    BY <1>0
  <2>3. /\ b \in Seq(Nat) /\ Len(b) = IF j + 1 <= n THEN n - (j + 1) + 1 ELSE 0
        /\ \A k \in 1..(n - (j + 1) + 1) : b[k] = s[(j + 1) + k - 1]
    BY <2>1, <2>2, SubSeqProperties
  <2> HIDE DEF b, n
  <2>4. \A k \in 1..(n - j) : k \in 1..(n - (j + 1) + 1) /\ (j + 1) + k - 1 = j + k
    BY <1>0
  <2>5. QED BY <2>3, <2>4, <1>0
<1>4. InsertAt(s, j + 1, x) = (a \o <<x>>) \o b
  BY <1>0 DEF InsertAt
<1> HIDE DEF a, b, n
<1> DEFINE c == a \o <<x>>
<1>5. c \in Seq(Nat) /\ Len(c) = j + 1 /\ (\A k \in 1..j : c[k] = s[k]) /\ c[j + 1] = x
  <2>1. <<x>> \in Seq(Nat) /\ Len(<<x>>) = 1 /\ <<x>>[1] = x
    OBVIOUS
  <2>2. /\ c \in Seq(Nat) /\ Len(c) = Len(a) + Len(<<x>>)
        /\ \A k \in 1..(Len(a) + Len(<<x>>)) : c[k] = IF k <= Len(a) THEN a[k] ELSE <<x>>[k - Len(a)]
    BY <2>1, <1>2, ConcatProperties
  <2>3. /\ \A k \in 1..j : k \in 1..(Len(a) + Len(<<x>>)) /\ k <= Len(a)
        /\ j + 1 \in 1..(Len(a) + Len(<<x>>)) /\ ~(j + 1 <= Len(a)) /\ (j + 1) - Len(a) = 1
    BY <2>1, <1>0, <1>2
  <2>4. QED BY <2>1, <2>2, <2>3, <1>2
<1> HIDE DEF c
<1> DEFINE u == c \o b
<1>6. u \in Seq(Nat) /\ Len(u) = n + 1 /\ \A k \in 1..(n + 1) : u[k] = IF k <= j + 1 THEN c[k] ELSE b[k - (j + 1)]
  <2>1. u \in Seq(Nat) /\ Len(u) = Len(c) + Len(b) /\ \A k \in 1..(Len(c) + Len(b)) : u[k] = IF k <= Len(c) THEN c[k] ELSE b[k - Len(c)]
    BY <1>5, <1>3, ConcatProperties
  <2>2. Len(c) + Len(b) = n + 1
    BY <1>0, <1>5, <1>3
  <2>3. QED BY <2>1, <2>2, <1>5
<1> HIDE DEF u
<1>7. (\A k \in 1..j : u[k] = s[k]) /\ u[j + 1] = x
  BY <1>0, <1>5, <1>6
<1>8. ASSUME NEW k \in (j + 1)..n PROVE u[k + 1] = s[k]
  <2>1. k + 1 \in 1..(n + 1) /\ ~(k + 1 <= j + 1) /\ (k + 1) - (j + 1) = k - j /\ k - j \in 1..(n - j) /\ j + (k - j) = k
    BY <1>0
  <2>2. QED BY <2>1, <1>3, <1>6
<1>9. QED BY <1>4, <1>6, <1>7, <1>8 DEF u, c, n

(* moveAfter, by position. *)
LEMMA MovedSeq ==
  ASSUME NEW ord \in Seq(Nat), NEW b \in Nat, NEW a \in Nat, a # b,
         \E k \in 1..Len(ord) : ord[k] = b, \E k \in 1..Len(ord) : ord[k] = a
  PROVE  \E i, j, rest : MovedAs(ord, b, a, Moved(ord, b, a), i, j, rest)
<1> DEFINE n == Len(ord)
           i == Where(ord, b)
           rest == RemoveAt(ord, i)
           j == Where(rest, a)
<1>0. n \in Nat
  BY LenProperties
<1>1. i \in 1..n /\ ord[i] = b
  BY DEF Where
<1> HIDE DEF i
<1>2. /\ rest \in Seq(Nat) /\ Len(rest) = n - 1
      /\ \A k \in 1..(n - 1) : rest[k] = IF k < i THEN ord[k] ELSE ord[k + 1]
  BY <1>1, RemoveAtSeq
<1> HIDE DEF rest
<1>3. PICK l \in 1..n : ord[l] = a
  OBVIOUS
<1>4. \E k \in 1..Len(rest) : rest[k] = a
  <2> HIDE DEF n
  <2>1. l # i
    BY <1>1, <1>3
  <2>2. CASE l < i
    <3>1. l \in 1..(n - 1)
      BY <2>2, <1>0, <1>1
    <3>2. rest[l] = a
      BY <3>1, <2>2, <1>2, <1>3, Zenon
    <3>3. QED BY <3>1, <3>2, <1>2
  <2>3. CASE l > i
    <3>1. l - 1 \in 1..(n - 1) /\ ~(l - 1 < i) /\ (l - 1) + 1 = l
      BY <2>3, <1>0, <1>1
    <3>2. rest[l - 1] = a
      BY <3>1, <1>2, <1>3
    <3>3. QED BY <3>1, <3>2, <1>2
  <2>4. QED BY <2>1, <2>2, <2>3, <1>0, <1>1
<1>5. j \in 1..Len(rest) /\ rest[j] = a
  BY <1>4 DEF Where
<1> HIDE DEF j
<1> DEFINE m == InsertAt(rest, j + 1, b)
<1>6. /\ m \in Seq(Nat) /\ Len(m) = Len(rest) + 1
      /\ \A k \in 1..j : m[k] = rest[k]
      /\ m[j + 1] = b
      /\ \A k \in (j + 1)..Len(rest) : m[k + 1] = rest[k]
  <2> HIDE DEF n
  <2>1. b \in Nat
    OBVIOUS
  <2>2. rest \in Seq(Nat) /\ j \in 1..Len(rest)
    BY <1>2, <1>5, Zenon
  <2>3. QED BY ONLY <2>1, <2>2, InsertAtSeq
<1>7. Moved(ord, b, a) = m
  BY DEF Moved, rest, i, j
<1> HIDE DEF m, n
<1>8. Len(rest) + 1 = n
  BY <1>0, <1>2
<1>9. j \in 1..(n - 1)
  BY <1>2, <1>5
<1>10. \A k \in (j + 1)..(n - 1) : m[k + 1] = rest[k]
  BY <1>2, <1>6
<1>11. MovedAs(ord, b, a, m, i, j, rest)
  BY <1>1, <1>2, <1>5, <1>6, <1>8, <1>9, <1>10, Zenon DEF MovedAs, n
<1>12. QED BY <1>7, <1>11, Zenon

(* moveAfter loses no block; the entry is first once the return block moves. *)
LEMMA MovedInOrder ==
  ASSUME NEW n \in Nat, NEW ord, InOrder(ord, n), Headed(ord), NEW b \in 1..n, NEW a \in 1..n, a # b, a # 1, b # 2
  PROVE  /\ InOrder(Moved(ord, b, a), n)
         /\ b # 1 => Headed(Moved(ord, b, a))
         /\ b = 1 => Moved(ord, b, a)[1] = 2
<1> DEFINE N == Len(ord)
           m == Moved(ord, b, a)
<1>0. ord \in Seq(Nat) /\ N \in Nat /\ N >= 2 /\ ord[1] = 1 /\ ord[2] = 2 /\ \A k \in 2..N : ord[k] # 1
  BY LenProperties DEF InOrder, Headed
<1>1. \A c \in 1..n : \E k \in 1..N : ord[k] = c
  BY DEF InOrder
<1>2. \E i, j, rest : MovedAs(ord, b, a, m, i, j, rest)
  <2>1. \E k \in 1..N : ord[k] = b
    BY <1>1
  <2>2. \E k \in 1..N : ord[k] = a
    BY <1>1
  <2>3. ord \in Seq(Nat) /\ a \in Nat /\ b \in Nat
    BY <1>0
  <2>4. QED BY <2>1, <2>2, <2>3, MovedSeq
<1>a. PICK i, j, rest : MovedAs(ord, b, a, m, i, j, rest)
  BY <1>2
<1> HIDE DEF m, N
<1>b. /\ i \in 1..N /\ ord[i] = b
      /\ j \in 1..(N - 1) /\ rest[j] = a /\ Len(rest) = N - 1
      /\ \A k \in 1..(N - 1) : rest[k] = IF k < i THEN ord[k] ELSE ord[k + 1]
      /\ m \in Seq(Nat) /\ Len(m) = N
      /\ \A k \in 1..j : m[k] = rest[k]
      /\ m[j + 1] = b
      /\ \A k \in (j + 1)..(N - 1) : m[k + 1] = rest[k]
  BY <1>a, Zenon DEF MovedAs, N
<1>c. i \in 1..N /\ j \in 1..(N - 1)
  BY <1>b
<1> USE <1>c
<1>3. \A k \in 1..(N - 1) : \E l \in 1..N : m[l] = rest[k]
  <2> TAKE k \in 1..(N - 1)
  <2>1. CASE k <= j
    <3>1. k \in 1..j /\ k \in 1..N
      BY <2>1, <1>0
    <3>2. QED BY <3>1, <1>b
  <2>2. CASE k > j
    <3>1. k \in (j + 1)..(N - 1) /\ k + 1 \in 1..N
      BY <2>2, <1>0
    <3>2. QED BY <3>1, <1>b
  <2>3. QED BY <2>1, <2>2
<1>4. \A k \in 1..N : k # i => \E l \in 1..(N - 1) : rest[l] = ord[k]
  <2> SUFFICES ASSUME NEW k \in 1..N, k # i PROVE \E l \in 1..(N - 1) : rest[l] = ord[k]
    OBVIOUS
  <2>1. CASE k < i
    <3>1. k \in 1..(N - 1) /\ rest[k] = ord[k]
      BY <2>1, <1>0, <1>b
    <3>2. QED BY <3>1
  <2>2. CASE k > i
    <3>1. k - 1 \in 1..(N - 1) /\ ~(k - 1 < i) /\ (k - 1) + 1 = k
      BY <2>2, <1>0
    <3>2. rest[k - 1] = ord[k]
      BY <3>1, <1>b
    <3>3. QED BY <3>1, <3>2
  <2>3. QED BY <2>1, <2>2
<1>5. \A c \in 1..n : \E l \in 1..N : m[l] = c
  <2> TAKE c \in 1..n
  <2>1. PICK k \in 1..N : ord[k] = c
    BY <1>1
  <2>2. CASE k = i
    <3>1. j + 1 \in 1..N /\ m[j + 1] = c
      BY <2>1, <2>2, <1>0, <1>b
    <3>2. QED BY <3>1
  <2>3. CASE k # i
    BY <2>1, <2>3, <1>3, <1>4
  <2>4. QED BY <2>2, <2>3
<1>6. InOrder(m, n)
  BY <1>b, <1>5, Zenon DEF InOrder
<1>7. ASSUME b # 1 PROVE Headed(m)
  <2>1. i > 2
    BY <1>0, <1>b, <1>7
  <2>2. rest[1] = 1 /\ rest[2] = 2 /\ \A k \in 2..(N - 1) : rest[k] # 1
    <3>0. 1 \in 1..(N - 1) /\ 2 \in 1..(N - 1) /\ 1 < i /\ 2 < i
      BY <2>1, <1>0
    <3>1. rest[1] = ord[1] /\ rest[2] = ord[2]
      BY <3>0, <1>b
    <3>2. ASSUME NEW k \in 2..(N - 1) PROVE rest[k] # 1
      <4>1. k \in 1..(N - 1) /\ k \in 2..N /\ k + 1 \in 2..N
        BY <1>0
      <4>2. rest[k] = ord[k] \/ rest[k] = ord[k + 1]
        BY <4>1, <1>b
      <4>3. QED BY <4>1, <4>2, <1>0
    <3>3. QED BY <3>1, <3>2, <1>0
  <2>3. j >= 2
    BY <2>2, <1>b
  <2>4. m[1] = 1 /\ m[2] = 2
    BY <2>2, <2>3, <1>b
  <2>5. ASSUME NEW k \in 2..N PROVE m[k] # 1
    <3>1. CASE k <= j
      <4>1. k \in 1..j /\ k \in 2..(N - 1)
        BY <3>1, <1>0
      <4>2. QED BY <4>1, <2>2, <1>b
    <3>2. CASE k = j + 1
      BY <3>2, <1>b, <1>7
    <3>3. CASE k > j + 1
      <4>1. k - 1 \in (j + 1)..(N - 1) /\ k - 1 \in 2..(N - 1) /\ (k - 1) + 1 = k
        BY <3>3, <1>0, <2>3
      <4>2. m[k] = rest[k - 1]
        BY <4>1, <1>b
      <4>3. QED BY <4>1, <4>2, <2>2
    <3>4. QED BY <3>1, <3>2, <3>3, <1>0
  <2>6. QED BY <2>4, <2>5, <1>0, <1>b DEF Headed
<1>8. ASSUME b = 1 PROVE m[1] = 2
  <2>1. i = 1
    BY <1>0, <1>b, <1>8
  <2>2. rest[1] = 2
    BY <2>1, <1>0, <1>b
  <2>3. QED BY <2>2, <1>b
<1>9. QED BY <1>6, <1>7, <1>8 DEF m

(* New blocks come last. *)
LEMMA FreshInOrder ==
  ASSUME NEW n \in Nat, n >= 1, NEW m \in Nat, NEW ord, InOrder(ord, n), Headed(ord)
  PROVE  InOrder(ord \o Numbers(n, m), n + m) /\ Headed(ord \o Numbers(n, m))
<1> DEFINE N == Len(ord)
           f == Numbers(n, m)
           u == ord \o f
<1>0. ord \in Seq(Nat) /\ N \in Nat /\ N >= 2 /\ ord[1] = 1 /\ ord[2] = 2 /\ \A k \in 2..N : ord[k] # 1
  BY LenProperties DEF InOrder, Headed
<1>1. f \in Seq(Nat) /\ Len(f) = m /\ \A k \in 1..m : f[k] = n + k
  BY DEF Numbers
<1> HIDE DEF f
<1>2. u \in Seq(Nat) /\ Len(u) = N + m /\ \A k \in 1..(N + m) : u[k] = IF k <= N THEN ord[k] ELSE f[k - N]
  <2>1. u \in Seq(Nat) /\ Len(u) = Len(ord) + Len(f) /\ \A k \in 1..(Len(ord) + Len(f)) : u[k] = IF k <= Len(ord) THEN ord[k] ELSE f[k - Len(ord)]
    BY <1>0, <1>1, ConcatProperties
  <2>2. QED BY <2>1, <1>1
<1> HIDE DEF u, N
<1>3. \A k \in 1..N : k \in 1..(N + m) /\ u[k] = ord[k]
  BY <1>0, <1>2
<1>4. \A k \in 1..m : N + k \in 1..(N + m) /\ u[N + k] = n + k
  <2> TAKE k \in 1..m
  <2>1. N + k \in 1..(N + m) /\ ~(N + k <= N) /\ (N + k) - N = k
    BY <1>0
  <2>2. QED BY <2>1, <1>1, <1>2
<1>5. ASSUME NEW b \in 1..(n + m) PROVE \E k \in 1..(N + m) : u[k] = b
  <2>1. CASE b \in 1..n
    <3>1. PICK k \in 1..N : ord[k] = b
      BY <2>1 DEF InOrder, N
    <3>2. QED BY <3>1, <1>3
  <2>2. CASE b \notin 1..n
    <3>1. b - n \in 1..m /\ n + (b - n) = b
      BY <2>2
    <3>2. QED BY <3>1, <1>4
  <2>3. QED BY <2>1, <2>2
<1>6. InOrder(u, n + m)
  BY <1>2, <1>5 DEF InOrder
<1>7. u[1] = 1 /\ u[2] = 2 /\ Len(u) >= 2
  BY <1>0, <1>2
<1>8. ASSUME NEW k \in 2..Len(u) PROVE u[k] # 1
  <2>1. CASE k <= N
    BY <2>1, <1>0, <1>2
  <2>2. CASE k > N
    <3>1. k - N \in 1..m /\ N + (k - N) = k
      BY <2>2, <1>0, <1>2
    <3>2. u[k] = n + (k - N)
      BY <3>1, <1>4
    <3>3. QED BY <3>1, <3>2
  <2>3. QED BY <2>1, <2>2, <1>0
<1>9. QED BY <1>6, <1>7, <1>8 DEF Headed, u, f

-----------------------------------------------------------------------------
(* The emitter between two operators *)

(* What a context between two operators consists of. *)
LEMMA EmittingTypes ==
  ASSUME NEW cs, NEW bts, NEW st, NEW bs, NEW ord, NEW ins, Emitting(cs, bts, st, bs, ord, ins)
  PROVE  /\ Len(cs) \in Nat /\ Len(cs) >= 1 /\ Len(bts) = Len(cs) /\ Len(bs) \in Nat /\ Len(bs) >= 2 /\ Len(st) \in Nat
         /\ ins \in 2..Len(bs) /\ bs \in Seq(Blocks)
         /\ \A j \in 1..Len(cs) : cs[j] \in Contexts /\ bts[j] \in Targets
         /\ \A k \in 1..Len(st) : st[k] \in Values
<1>1. cs \in Seq(Contexts) /\ cs # <<>> /\ bts \in Seq(Targets) /\ st \in Seq(Values) /\ bs \in Seq(Blocks)
  BY DEF Emitting, Graph
<1>2. Len(cs) \in Nat /\ Len(cs) >= 1 /\ Len(bs) \in Nat /\ Len(st) \in Nat
  BY <1>1, EmptySeq, LenProperties
<1>3. Len(bts) = Len(cs) /\ ins \in 2..Len(bs)
  BY DEF Emitting, Aimed, Cursor
<1>4. \A j \in 1..Len(cs) : cs[j] \in Contexts /\ bts[j] \in Targets
  BY <1>1, <1>3, ElementOfSeq
<1>5. \A k \in 1..Len(st) : st[k] \in Values
  BY <1>1, ElementOfSeq
<1>6. QED BY <1>1, <1>2, <1>3, <1>4, <1>5

(* Blocks that grow, and any stack above the context, keep the emitter's invariant. *)
LEMMA Grown ==
  ASSUME NEW cs, NEW bts, NEW st, NEW bs, NEW ord, NEW ins, Emitting(cs, bts, st, bs, ord, ins),
         cs[Len(cs)].isReachable,
         NEW stack \in Seq(Values), cs[Len(cs)].outerStackSize <= Len(stack),
         NEW ds, NEW order, NEW to, Grows(bs, ins, ds, to), InOrder(order, Len(ds)), Headed(order)
  PROVE  Emitting(cs, bts, stack, ds, order, to)
<1>0. /\ Len(cs) \in Nat /\ Len(cs) >= 1 /\ Len(bts) = Len(cs) /\ Len(bs) \in Nat /\ Len(bs) >= 2 /\ Len(ds) \in Nat
      /\ ins \in 2..Len(bs)
      /\ \A j \in 1..Len(cs) : cs[j] \in Contexts /\ bts[j] \in Targets
  BY EmittingTypes, LenProperties DEF Grows, Graph
<1>1. /\ Len(bs) <= Len(ds)
      /\ \A b \in 1..Len(bs) : b \in 1..Len(ds) /\ ds[b].phi = bs[b].phi
      /\ \A b \in 1..Len(bs) : b # ins => ds[b].terms = bs[b].terms
      /\ to \in 1..Len(ds) /\ ds[to].terms = <<>> /\ (to = ins \/ to > Len(bs))
      /\ \A b \in 1..Len(ds) : (b = ins \/ b > Len(bs)) /\ b # to => ds[b].terms # <<>>
  BY <1>0 DEF Grows
<1>2. /\ \A j \in 1..Len(cs) : ins # cs[j].endBlock /\ ins # cs[j].elseBlock
      /\ bs[ins].terms = <<>>
  BY DEF Emitting, Cursor
<1>3. Ports(cs, ds)
  <2> SUFFICES ASSUME NEW j \in 1..Len(cs)
        PROVE  /\ cs[j].endBlock \in 1..Len(ds) /\ ds[cs[j].endBlock].terms = <<>> /\ ds[cs[j].endBlock].phi = cs[j].resultType
               /\ IF j = 1 THEN cs[j].endBlock = 1 ELSE cs[j].endBlock > 2
               /\ IF cs[j].type = "ifThen"
                  THEN /\ cs[j].elseBlock \in 3..Len(ds) /\ ds[cs[j].elseBlock].terms = <<>> /\ ds[cs[j].elseBlock].phi = "none"
                  ELSE cs[j].elseBlock = 0
    BY Zenon DEF Ports
  <2>1. /\ cs[j].endBlock \in 1..Len(bs) /\ bs[cs[j].endBlock].terms = <<>> /\ bs[cs[j].endBlock].phi = cs[j].resultType
        /\ IF j = 1 THEN cs[j].endBlock = 1 ELSE cs[j].endBlock > 2
        /\ IF cs[j].type = "ifThen"
           THEN /\ cs[j].elseBlock \in 3..Len(bs) /\ bs[cs[j].elseBlock].terms = <<>> /\ bs[cs[j].elseBlock].phi = "none"
           ELSE cs[j].elseBlock = 0
    BY DEF Emitting, Ports
  <2>2. cs[j].endBlock \in 1..Len(ds) /\ ds[cs[j].endBlock].terms = <<>> /\ ds[cs[j].endBlock].phi = cs[j].resultType
    BY <1>1, <1>2, <2>1
  <2>3. CASE cs[j].type = "ifThen"
    <3>1. cs[j].elseBlock \in 1..Len(bs) /\ cs[j].elseBlock # ins /\ cs[j].elseBlock \in 3..Len(ds)
      BY <2>1, <2>3, <1>0, <1>1, <1>2
    <3>2. ds[cs[j].elseBlock].terms = <<>> /\ ds[cs[j].elseBlock].phi = "none"
      BY <3>1, <2>1, <2>3, <1>1
    <3>3. QED BY <2>1, <2>2, <2>3, <3>1, <3>2, Zenon
  <2>4. CASE cs[j].type # "ifThen"
    BY <2>1, <2>2, <2>4
  <2>5. QED BY <2>3, <2>4
<1>4. Aimed(cs, bts, ds)
  BY <1>1 DEF Emitting, Aimed
<1>5. Cursor(cs, ds, to)
  <2>1. to \in 2..Len(ds)
    BY <1>0, <1>1
  <2>2. ASSUME NEW j \in 1..Len(cs) PROVE to # cs[j].endBlock /\ to # cs[j].elseBlock
    <3>1. cs[j].endBlock <= Len(bs) /\ cs[j].elseBlock <= Len(bs)
      BY <1>0 DEF Emitting, Ports
    <3>2. cs[j].endBlock \in Nat /\ cs[j].elseBlock \in Nat
      BY <1>0 DEF Contexts
    <3>3. QED BY <3>1, <3>2, <1>0, <1>1, <1>2
  <2>3. QED BY <2>1, <2>2, <1>1, Zenon DEF Cursor
<1>6. Waited(cs, ds, to)
  <2> SUFFICES ASSUME NEW b \in 1..Len(ds), ds[b].terms = <<>>, b # to
        PROVE  \E j \in 1..Len(cs) : b = cs[j].endBlock \/ b = cs[j].elseBlock
    BY Zenon DEF Waited
  <2>1. b # ins /\ b \in 1..Len(bs)
    BY <1>0, <1>1
  <2>2. bs[b].terms = <<>>
    BY <2>1, <1>1
  <2>3. QED BY <2>1, <2>2, Zenon DEF Emitting, Waited
<1>7. Heights(cs, stack)
  <2>1. Heights(cs, st)
    BY DEF Emitting
  <2>2. Len(stack) \in Nat
    BY LenProperties
  <2>3. ASSUME NEW j \in 1..Len(cs) PROVE cs[j].outerStackSize <= Len(stack)
    <3>1. cs[j].outerStackSize \in Nat /\ cs[Len(cs)].outerStackSize \in Nat
      BY <1>0 DEF Contexts
    <3>2. cs[j].outerStackSize <= cs[Len(cs)].outerStackSize
      BY <1>0, <2>1, <3>1 DEF Heights
    <3>3. QED BY <3>1, <3>2, <2>2
  <2>4. QED BY <2>1, <2>3, Zenon DEF Heights
<1>8. QED BY <1>3, <1>4, <1>5, <1>6, <1>7, Zenon DEF Emitting, Grows

-----------------------------------------------------------------------------
(* The methods of the emitter *)

(* The stacks are those of the context. *)
LEMMA HoldsFields ==
  ASSUME NEW c, NEW cs, NEW bts, NEW st, NEW d, Holds(c, cs, bts, st, d)
  PROVE  /\ c.controlStack = cs /\ c.branchTargetStack = bts /\ c.stack = st /\ c.depth = d /\ c.next \in Nat
         /\ c = Ctx(cs, bts, st, d, c.blocks, c.order, c.insert, c.next)
         /\ Emitting(cs, bts, st, c.blocks, c.order, c.insert)
<1>1. PICK bs, ord, ins, nx : /\ c = Ctx(cs, bts, st, d, bs, ord, ins, nx)
                              /\ Emitting(cs, bts, st, bs, ord, ins) /\ nx \in Nat
  BY DEF Holds
<1>2. /\ c.controlStack = cs /\ c.branchTargetStack = bts /\ c.stack = st /\ c.depth = d
      /\ c.blocks = bs /\ c.order = ord /\ c.insert = ins /\ c.next = nx
  BY <1>1, CtxFields
<1>3. QED BY <1>1, <1>2, Zenon

(* The types of the stacks. *)
LEMMA HoldsTypes ==
  ASSUME NEW c, NEW cs, NEW bts, NEW st, NEW d, Holds(c, cs, bts, st, d)
  PROVE  /\ cs \in Seq(Contexts) /\ bts \in Seq(Targets) /\ st \in Seq(Values)
         /\ Len(cs) \in Nat /\ Len(cs) >= 1 /\ Len(bts) = Len(cs) /\ Len(st) \in Nat
         /\ \A j \in 1..Len(cs) : cs[j] \in Contexts /\ bts[j] \in Targets
         /\ \A k \in 1..Len(st) : st[k] \in Values
         /\ Heights(cs, st) /\ cs[1].resultType = body.ret
<1>1. PICK bs, ord, ins : Emitting(cs, bts, st, bs, ord, ins)
  BY DEF Holds
<1>2. QED BY <1>1, EmittingTypes DEF Emitting

(* A block that neither ends nor begins: the same graph but for its code. *)
LEMMA SameGrows ==
  ASSUME NEW cs, NEW bts, NEW st, NEW bs, NEW ord, NEW ins, Emitting(cs, bts, st, bs, ord, ins), cs[Len(cs)].isReachable
  PROVE  Grows(bs, ins, bs, ins) /\ InOrder(ord, Len(bs)) /\ Headed(ord)
<1>1. Graph(bs) /\ InOrder(ord, Len(bs)) /\ Headed(ord) /\ ins \in 2..Len(bs) /\ bs[ins].terms = <<>> /\ Len(bs) \in Nat
  BY EmittingTypes DEF Emitting, Cursor
<1>2. QED BY <1>1 DEF Grows

(* popped and push. *)
LEMMA StackHolds ==
  ASSUME NEW c, NEW cs, NEW bts, NEW st, NEW d, Open(c, cs, bts, st, d)
  PROVE  /\ \A n \in Nat : cs[Len(cs)].outerStackSize <= Len(st) - n
               => Open(E!popped(c, n), cs, bts, SubSeq(st, 1, Len(st) - n), d)
         /\ \A value \in Values : Open(E!push(c, value), cs, bts, Append(st, value), d)
<1>1. PICK bs, ord, ins, nx : /\ c = Ctx(cs, bts, st, d, bs, ord, ins, nx)
                              /\ Emitting(cs, bts, st, bs, ord, ins) /\ nx \in Nat
  BY DEF Holds, Open
<1>2. cs[Len(cs)].isReachable
  BY DEF Open
<1>3. Grows(bs, ins, bs, ins) /\ InOrder(ord, Len(bs)) /\ Headed(ord)
  BY <1>1, <1>2, SameGrows
<1>4. ASSUME NEW stack \in Seq(Values), cs[Len(cs)].outerStackSize <= Len(stack)
      PROVE  Open(Ctx(cs, bts, stack, d, bs, ord, ins, nx), cs, bts, stack, d)
  <2>1. Emitting(cs, bts, stack, bs, ord, ins)
    BY <1>1, <1>2, <1>3, <1>4, Grown
  <2>2. QED BY <2>1, <1>1, <1>2, Zenon DEF Open, Holds
<1>5. /\ st \in Seq(Values) /\ Len(st) \in Nat /\ Len(cs) \in Nat /\ Len(cs) >= 1
      /\ cs[Len(cs)].outerStackSize \in Nat /\ cs[Len(cs)].outerStackSize <= Len(st)
  <2>1. /\ st \in Seq(Values) /\ Len(st) \in Nat /\ Len(cs) \in Nat /\ Len(cs) >= 1
        /\ \A j \in 1..Len(cs) : cs[j] \in Contexts
    BY <1>1, EmittingTypes DEF Emitting
  <2>2. QED BY <2>1, <1>1 DEF Contexts, Emitting, Heights
<1>6. ASSUME NEW n \in Nat, cs[Len(cs)].outerStackSize <= Len(st) - n
      PROVE  Open(E!popped(c, n), cs, bts, SubSeq(st, 1, Len(st) - n), d)
  <2>1. SubSeq(st, 1, Len(st) - n) \in Seq(Values) /\ Len(SubSeq(st, 1, Len(st) - n)) = Len(st) - n
    <3>1. \A k \in 1..(Len(st) - n) : st[k] \in Values
      BY <1>5, ElementOfSeq
    <3>2. 1 \in Int /\ Len(st) - n \in Nat /\ Len(st) - n <= Len(st)
      BY <1>5, <1>6
    <3>3. QED BY <3>1, <3>2, <1>5, SubSeqProperties
  <2>2. E!popped(c, n) = Ctx(cs, bts, SubSeq(st, 1, Len(st) - n), d, bs, ord, ins, nx)
    BY <1>1, ContextSteps
  <2>3. QED BY <2>1, <2>2, <1>4, <1>6
<1>7. ASSUME NEW value \in Values PROVE Open(E!push(c, value), cs, bts, Append(st, value), d)
  <2>1. Append(st, value) \in Seq(Values) /\ Len(Append(st, value)) = Len(st) + 1
    BY <1>5, AppendProperties
  <2>2. E!push(c, value) = Ctx(cs, bts, Append(st, value), d, bs, ord, ins, nx)
    BY <1>1, ContextSteps
  <2>3. cs[Len(cs)].outerStackSize <= Len(Append(st, value))
    BY <1>5, <2>1
  <2>4. QED BY <2>1, <2>2, <2>3, <1>4
<1>8. QED BY <1>6, <1>7

(* instr. *)
LEMMA InstrHolds ==
  ASSUME NEW c, NEW cs, NEW bts, NEW st, NEW d, Open(c, cs, bts, st, d),
         NEW op \in OpRecords, NEW args \in Seq(Values), NEW type \in ResultType,
         WellTyped([id |-> c.next, op |-> op, args |-> args, type |-> type])
  PROVE  Open(E!instr(c, op, args, type), cs, bts, st, d) /\ E!instr(c, op, args, type).next = c.next + 1
<1>1. PICK bs, ord, ins, nx : /\ c = Ctx(cs, bts, st, d, bs, ord, ins, nx)
                              /\ Emitting(cs, bts, st, bs, ord, ins) /\ nx \in Nat
  BY DEF Holds, Open
<1>2. cs[Len(cs)].isReachable /\ c.next = nx
  BY <1>1, CtxFields DEF Open
<1> DEFINE x == [id |-> nx, op |-> op, args |-> args, type |-> type]
           ds == Coded(bs, ins, x)
<1>3. x \in Instructions /\ WellTyped(x)
  <2>1. x \in Instructions
    BY <1>1 DEF Instructions
  <2>2. QED BY <2>1, <1>2
<1> HIDE DEF x
<1>4. Graph(bs) /\ bs \in Seq(Blocks) /\ ins \in 1..Len(bs) /\ bs[ins].terms = <<>> /\ Len(bs) \in Nat
  BY <1>1, <1>2, EmittingTypes, SMTT(30) DEF Emitting, Cursor
<1>5. /\ Graph(ds) /\ Len(ds) = Len(bs)
      /\ \A b \in 1..Len(bs) : ds[b].phi = bs[b].phi /\ ds[b].terms = bs[b].terms
  BY <1>3, <1>4, CodedGraph, CodedFields
<1> HIDE DEF ds
<1>6. Grows(bs, ins, ds, ins) /\ InOrder(ord, Len(ds)) /\ Headed(ord)
  BY <1>1, <1>4, <1>5 DEF Grows, Emitting
<1>7. st \in Seq(Values) /\ cs[Len(cs)].outerStackSize <= Len(st)
  BY <1>1, EmittingTypes DEF Emitting, Heights
<1>8. Emitting(cs, bts, st, ds, ord, ins)
  BY <1>1, <1>2, <1>6, <1>7, Grown
<1>9. E!instr(c, op, args, type) = Ctx(cs, bts, st, d, ds, ord, ins, nx + 1)
  <2>1. E!instr(c, op, args, type) =
            Ctx(cs, bts, st, d, Coded(bs, ins, [id |-> nx, op |-> op, args |-> args, type |-> type]), ord, ins, nx + 1)
    BY <1>1, ContextSteps
  <2>2. QED BY <2>1, Zenon DEF ds, x
<1>10. Ctx(cs, bts, st, d, ds, ord, ins, nx + 1).next = nx + 1 /\ nx + 1 \in Nat
  BY <1>1, CtxFields
<1>11. QED BY <1>2, <1>8, <1>9, <1>10, Zenon DEF Open, Holds

(* The fields of a terminator. *)
LEMMA TermFields ==
  ASSUME NEW op \in TermOps, NEW args \in Seq(TermArgs), NEW to \in Seq(Nat)
  PROVE  /\ Term(op, args, to) \in Terms
         /\ Term(op, args, to).op = op /\ Term(op, args, to).args = args /\ Term(op, args, to).to = to
         /\ op # "condbr" /\ op # "switch" /\ op # "ret" => TypedTerm(Term(op, args, to))
<1>1. Term(op, args, to).op = op /\ Term(op, args, to).args = args /\ Term(op, args, to).to = to
  BY DEF Term
<1>2. Term(op, args, to) \in Terms
  BY DEF Term, Terms
<1>3. op # "condbr" /\ op # "switch" /\ op # "ret" => TypedTerm(Term(op, args, to))
  BY <1>1 DEF TypedTerm
<1>4. QED BY <1>1, <1>2, <1>3

(* A block ends with a branch to blocks without a PHI. *)
LEMMA EndedOnce ==
  ASSUME NEW bs, Graph(bs), NEW p \in 1..Len(bs), bs[p].terms = <<>>,
         NEW t \in Terms, TypedTerm(t), Plain(bs, t.to)
  PROVE  /\ Graph(Ended(bs, p, t)) /\ Len(Ended(bs, p, t)) = Len(bs)
         /\ \A b \in 1..Len(bs) : /\ Ended(bs, p, t)[b].phi = bs[b].phi
                                  /\ b # p => Ended(bs, p, t)[b].terms = bs[b].terms
         /\ Ended(bs, p, t)[p].terms # <<>>
<1>1. bs \in Seq(Blocks)
  BY DEF Graph
<1>2. <<t>> # <<>>
  BY Singleton
<1>3. Graph(Ended(bs, p, t))
  BY EndedGraph
<1>4. /\ Len(Ended(bs, p, t)) = Len(bs)
      /\ \A b \in 1..Len(bs) : /\ Ended(bs, p, t)[b].phi = bs[b].phi
                               /\ Ended(bs, p, t)[b].terms = IF b = p THEN <<t>> ELSE bs[b].terms
  BY <1>1, EndedFields
<1>5. QED BY <1>2, <1>3, <1>4, Zenon

(* create. *)
LEMMA FreshBlocks ==
  ASSUME NEW bs, Graph(bs), NEW phis \in Seq(ResultType)
  PROVE  Created(bs, phis, bs \o Fresh(phis))
<1> DEFINE ds == bs \o Fresh(phis)
<1>1. bs \in Seq(Blocks)
  BY DEF Graph
<1>2. Graph(ds) /\ Len(bs) \in Nat /\ Len(phis) \in Nat
  BY <1>1, FreshGraph, LenProperties
<1>3. /\ Len(ds) = Len(bs) + Len(phis)
      /\ \A b \in 1..Len(bs) : ds[b] = bs[b]
      /\ \A k \in 1..Len(phis) : ds[Len(bs) + k].phi = phis[k] /\ ds[Len(bs) + k].terms = <<>>
  BY <1>1, FreshFields
<1> HIDE DEF ds
<1>4. Created(bs, phis, ds)
  BY <1>2, <1>3, Zenon DEF Created
<1>5. QED BY <1>4 DEF ds

(* Sequences of up to two. *)
LEMMA PairSeq ==
  ASSUME NEW S, NEW a \in S, NEW b \in S
  PROVE  /\ <<a, b>> \in Seq(S) /\ Len(<<a, b>>) = 2 /\ <<a, b>>[1] = a /\ <<a, b>>[2] = b
         /\ <<a>> \in Seq(S) /\ Len(<<a>>) = 1 /\ <<a>>[1] = a
         /\ <<>> \in Seq(S) /\ Len(<<>>) = 0
OBVIOUS

(* The graph of emitConditionalTrap. *)
LEMMA TrapGraph ==
  ASSUME NEW bs, Graph(bs), NEW ins \in 1..Len(bs), bs[ins].terms = <<>>,
         NEW cause \in Causes, NEW args \in Seq(TermArgs)
  PROVE  LET n  == Len(bs)
             d2 == Ended(bs \o Fresh(<<"none", "none">>), ins, Term("trapif", <<cause>> \o args, <<n + 1, n + 2>>))
             d3 == Ended(d2, n + 1, Term("trap", <<cause>>, <<>>))
         IN  Grows(bs, ins, d3, n + 2) /\ Len(d3) = n + 2
<1> DEFINE n  == Len(bs)
           phis == <<"none", "none">>
           d1 == bs \o Fresh(phis)
           t2 == Term("trapif", <<cause>> \o args, <<n + 1, n + 2>>)
           d2 == Ended(d1, ins, t2)
           t3 == Term("trap", <<cause>>, <<>>)
           d3 == Ended(d2, n + 1, t3)
<1>1. phis \in Seq(ResultType) /\ Len(phis) = 2 /\ phis[1] = "none" /\ phis[2] = "none"
  BY PairSeq DEF ResultType
<1> HIDE DEF phis
<1>2. /\ Graph(d1) /\ n \in Nat /\ Len(d1) = n + 2
      /\ \A b \in 1..n : d1[b].phi = bs[b].phi /\ d1[b].terms = bs[b].terms
      /\ d1[n + 1].phi = "none" /\ d1[n + 1].terms = <<>> /\ d1[n + 2].phi = "none" /\ d1[n + 2].terms = <<>>
  <2>1. /\ Graph(d1) /\ n \in Nat /\ Len(d1) = n + 2
        /\ \A b \in 1..n : d1[b].phi = bs[b].phi /\ d1[b].terms = bs[b].terms
        /\ \A k \in 1..2 : d1[n + k].phi = phis[k] /\ d1[n + k].terms = <<>>
    <3>1. Created(bs, phis, d1)
      BY <1>1, FreshBlocks
    <3>2. QED BY <3>1, <1>1 DEF Created
  <2>2. QED BY <2>1, <1>1
<1>3. ins \in 1..(n + 2) /\ n + 1 \in 1..(n + 2) /\ n + 2 \in 1..(n + 2) /\ ins # n + 1 /\ n + 1 \in Nat /\ n + 2 \in Nat
  BY <1>2
<1>4. /\ t2 \in Terms /\ TypedTerm(t2) /\ t2.to = <<n + 1, n + 2>>
      /\ t3 \in Terms /\ TypedTerm(t3) /\ t3.to = <<>>
  <2>1. <<cause>> \in Seq(TermArgs) /\ <<cause>> \o args \in Seq(TermArgs)
    <3>1. cause \in TermArgs
      BY DEF TermArgs
    <3>2. QED BY <3>1, PairSeq, ConcatProperties
  <2>2. <<n + 1, n + 2>> \in Seq(Nat) /\ <<>> \in Seq(Nat)
    BY <1>3
  <2> DEFINE a == <<cause>> \o args
             to == <<n + 1, n + 2>>
             u == <<cause>>
             no == <<>>
  <2>0. a \in Seq(TermArgs) /\ to \in Seq(Nat) /\ u \in Seq(TermArgs) /\ no \in Seq(Nat)
    BY <2>1, <2>2
  <2> HIDE DEF a, to, u, no
  <2>3. /\ Term("trapif", a, to) \in Terms /\ TypedTerm(Term("trapif", a, to)) /\ Term("trapif", a, to).to = to
    BY <2>0, TermFields DEF TermOps
  <2>4. /\ Term("trap", u, no) \in Terms /\ TypedTerm(Term("trap", u, no)) /\ Term("trap", u, no).to = no
    BY <2>0, TermFields DEF TermOps
  <2>5. QED BY <2>3, <2>4, Zenon DEF t2, t3, a, to, u, no
<1> HIDE DEF d1, t2, t3
<1>5. Plain(d1, t2.to)
  BY <1>2, <1>3, <1>4 DEF Plain
<1>6. /\ Graph(d2) /\ Len(d2) = n + 2
      /\ \A b \in 1..(n + 2) : d2[b].phi = d1[b].phi /\ (b # ins => d2[b].terms = d1[b].terms)
      /\ d2[ins].terms # <<>>
  <2>1. Graph(d1) /\ ins \in 1..Len(d1) /\ d1[ins].terms = <<>> /\ t2 \in Terms /\ TypedTerm(t2) /\ Plain(d1, t2.to)
    BY <1>2, <1>3, <1>4, <1>5
  <2>2. QED BY <2>1, <1>2, EndedOnce
<1> HIDE DEF d2
<1>7. Plain(d2, t3.to)
  BY <1>4 DEF Plain
<1>8. d2[n + 1].terms = <<>>
  BY <1>2, <1>3, <1>6
<1>9. /\ Graph(d3) /\ Len(d3) = n + 2
      /\ \A b \in 1..(n + 2) : d3[b].phi = d2[b].phi /\ (b # n + 1 => d3[b].terms = d2[b].terms)
      /\ d3[n + 1].terms # <<>>
  BY <1>3, <1>4, <1>6, <1>7, <1>8, EndedOnce
<1> HIDE DEF d3
<1>10. Grows(bs, ins, d3, n + 2)
  <2>1. n <= n + 2 /\ \A b \in 1..n : b \in 1..(n + 2) /\ b # n + 1 /\ b # n + 2
    BY <1>2
  <2>2. \A b \in 1..n : d3[b].phi = bs[b].phi /\ (b # ins => d3[b].terms = bs[b].terms)
    BY <2>1, <1>2, <1>6, <1>9
  <2>3. d3[n + 2].terms = <<>>
    BY <1>2, <1>3, <1>6, <1>9
  <2>4. d3[ins].terms # <<>>
    BY <1>3, <1>6, <1>9
  <2>5. \A b \in 1..(n + 2) : (b = ins \/ b > n) /\ b # n + 2 => d3[b].terms # <<>>
    <3> SUFFICES ASSUME NEW b \in 1..(n + 2), b = ins \/ b > n, b # n + 2 PROVE d3[b].terms # <<>>
      OBVIOUS
    <3>0. n \in Nat
      BY <1>2
    <3> HIDE DEF n
    <3>1. b = ins \/ b = n + 1
      BY <3>0
    <3>2. QED BY <3>1, <2>4, <1>9
  <2>6. QED BY <2>1, <2>2, <2>3, <2>5, <1>2, <1>3, <1>9 DEF Grows
<1>11. QED BY <1>9, <1>10, Zenon DEF d3, d2, d1, t2, t3, phis

(* emitConditionalTrap. *)
LEMMA TrapHolds ==
  ASSUME NEW c, NEW cs, NEW bts, NEW st, NEW d, Open(c, cs, bts, st, d),
         NEW cause \in Causes, NEW args \in Seq(TermArgs)
  PROVE  Open(E!emitConditionalTrap(c, cause, args), cs, bts, st, d)
<1>1. PICK bs, ord, ins, nx : /\ c = Ctx(cs, bts, st, d, bs, ord, ins, nx)
                              /\ Emitting(cs, bts, st, bs, ord, ins) /\ nx \in Nat
  BY DEF Holds, Open
<1>2. cs[Len(cs)].isReachable /\ c.blocks = bs
  BY <1>1, CtxFields DEF Open
<1> DEFINE n  == Len(bs)
           phis == <<"none", "none">>
           d1 == bs \o Fresh(phis)
           d2 == Ended(d1, ins, Term("trapif", <<cause>> \o args, <<n + 1, n + 2>>))
           d3 == Ended(d2, n + 1, Term("trap", <<cause>>, <<>>))
           order == ord \o Numbers(n, 2)
<1>3. Graph(bs) /\ ins \in 1..n /\ bs[ins].terms = <<>> /\ n \in Nat /\ n >= 2 /\ InOrder(ord, n) /\ Headed(ord)
  BY <1>1, <1>2, EmittingTypes DEF Emitting, Cursor
<1>4. Grows(bs, ins, d3, n + 2) /\ Len(d3) = n + 2
  BY <1>3, TrapGraph
<1>5. InOrder(order, n + 2) /\ Headed(order)
  BY <1>3, FreshInOrder
<1>6. st \in Seq(Values) /\ cs[Len(cs)].outerStackSize <= Len(st)
  BY <1>1, EmittingTypes DEF Emitting, Heights
<1>7. Len(phis) = 2
  OBVIOUS
<1> HIDE DEF phis
<1>8. E!emitConditionalTrap(c, cause, args) = Ctx(cs, bts, st, d, d3, order, n + 2, nx)
  <2>1. E!create(c, <<"none", "none">>) = Ctx(cs, bts, st, d, d1, order, ins, nx)
    <3>1. E!create(c, phis) = Ctx(cs, bts, st, d, d1, ord \o Numbers(n, Len(phis)), ins, nx)
      BY <1>1, ContextSteps
    <3>2. QED BY <3>1, <1>7, Zenon DEF phis
  <2>2. E!Block(c, 1) = n + 1 /\ E!Block(c, 2) = n + 2
    BY <1>2 DEF E!Block
  <2> HIDE DEF d1, order, n
  <2>3. E!terminate(Ctx(cs, bts, st, d, d1, order, ins, nx), "trapif", <<cause>> \o args, <<n + 1, n + 2>>)
            = Ctx(cs, bts, st, d, d2, order, ins, nx)
    BY ContextSteps
  <2> HIDE DEF d2
  <2>4. E!setInsertPoint(Ctx(cs, bts, st, d, d2, order, ins, nx), n + 1) = Ctx(cs, bts, st, d, d2, order, n + 1, nx)
    BY ContextSteps
  <2>5. E!terminate(Ctx(cs, bts, st, d, d2, order, n + 1, nx), "trap", <<cause>>, <<>>) = Ctx(cs, bts, st, d, d3, order, n + 1, nx)
    BY ContextSteps
  <2> HIDE DEF d3
  <2>6. E!setInsertPoint(Ctx(cs, bts, st, d, d3, order, n + 1, nx), n + 2) = Ctx(cs, bts, st, d, d3, order, n + 2, nx)
    BY ContextSteps
  <2>7. QED BY <2>1, <2>2, <2>3, <2>4, <2>5, <2>6, Zenon DEF E!emitConditionalTrap
<1> HIDE DEF d3, order, n
<1>9. Emitting(cs, bts, st, d3, order, n + 2)
  BY <1>1, <1>2, <1>4, <1>5, <1>6, Grown
<1>10. QED BY <1>1, <1>2, <1>8, <1>9, Zenon DEF Open, Holds

(* The operands that an instruction takes and the stack below them. *)
LEMMA StackParts ==
  ASSUME NEW S, NEW s \in Seq(S), NEW n \in Nat, n <= Len(s)
  PROVE  /\ SubSeq(s, 1, Len(s) - n) \in Seq(S) /\ Len(SubSeq(s, 1, Len(s) - n)) = Len(s) - n
         /\ \A k \in 1..(Len(s) - n) : SubSeq(s, 1, Len(s) - n)[k] = s[k]
         /\ SubSeq(s, Len(s) - n + 1, Len(s)) \in Seq(S) /\ Len(SubSeq(s, Len(s) - n + 1, Len(s))) = n
         /\ \A k \in 1..n : SubSeq(s, Len(s) - n + 1, Len(s))[k] = s[Len(s) - n + k]
<1>0. Len(s) \in Nat
  BY LenProperties
<1>1. \A k \in 1..Len(s) : s[k] \in S
  BY ElementOfSeq
<1>2. /\ SubSeq(s, 1, Len(s) - n) \in Seq(S) /\ Len(SubSeq(s, 1, Len(s) - n)) = Len(s) - n
      /\ \A k \in 1..(Len(s) - n) : SubSeq(s, 1, Len(s) - n)[k] = s[k]
  <2>1. 1 \in Int /\ Len(s) - n \in Int /\ \A k \in 1..(Len(s) - n) : k \in 1..Len(s)
    BY <1>0
  <2>2. QED BY <2>1, <1>0, <1>1
<1>3. /\ SubSeq(s, Len(s) - n + 1, Len(s)) \in Seq(S) /\ Len(SubSeq(s, Len(s) - n + 1, Len(s))) = n
      /\ \A k \in 1..n : SubSeq(s, Len(s) - n + 1, Len(s))[k] = s[Len(s) - n + k]
  <2>1. Len(s) - n + 1 \in Int /\ \A k \in (Len(s) - n + 1)..Len(s) : k \in 1..Len(s)
    BY <1>0
  <2>2. QED BY <2>1, <1>0, <1>1
<1>4. QED BY <1>2, <1>3

(* last. *)
LEMMA LastValue ==
  ASSUME NEW f, f.next \in Nat, NEW type \in ValueType
  PROVE  E!last(f, type) \in Values /\ E!last(f, type).type = type
<1>1. f.next - 1 \in Int
  OBVIOUS
<1>2. QED BY <1>1 DEF E!last, E!Value, Values

(* The result of an instruction is pushed if it has one. *)
LEMMA ResultPushed ==
  ASSUME NEW f, NEW cs, NEW bts, NEW st, NEW d, NEW n, NEW type \in ResultType,
         Open(f, cs, bts, SubSeq(st, 1, Len(st) - n), d)
  PROVE  Replaces(IF type = "none" THEN f ELSE E!push(f, E!last(f, type)), cs, bts, st, d, n, type)
<1> DEFINE low == SubSeq(st, 1, Len(st) - n)
<1> HIDE DEF low
<1>0. Open(f, cs, bts, low, d)
  BY DEF low
<1>1. CASE type = "none"
  BY <1>1 DEF Replaces
<1>2. CASE type # "none"
  <2>1. type \in ValueType
    BY <1>2 DEF ResultType
  <2>2. f.next \in Nat
    BY <1>0, HoldsFields DEF Open
  <2>3. E!last(f, type) \in Values /\ E!last(f, type).type = type
    BY <2>1, <2>2, LastValue
  <2>4. Open(E!push(f, E!last(f, type)), cs, bts, Append(low, E!last(f, type)), d)
    BY <1>0, <2>3, StackHolds
  <2>5. QED BY <1>2, <2>3, <2>4, Zenon DEF Replaces, low
<1>3. QED BY <1>1, <1>2

(* through. *)
LEMMA ThroughHolds ==
  ASSUME NEW c, NEW cs, NEW bts, NEW st, NEW d, Open(c, cs, bts, st, d),
         NEW n \in Nat, cs[Len(cs)].outerStackSize <= Len(st) - n,
         NEW op \in OpRecords, NEW type \in ResultType,
         WellTyped([id |-> c.next, op |-> op, args |-> SubSeq(st, Len(st) - n + 1, Len(st)), type |-> type])
  PROVE  Replaces(E!through(c, n, op, type), cs, bts, st, d, n, type)
<1> DEFINE args == SubSeq(st, Len(st) - n + 1, Len(st))
           low == SubSeq(st, 1, Len(st) - n)
           p == E!popped(c, n)
           f == E!instr(p, op, args, type)
<1>0. Holds(c, cs, bts, st, d)
  BY DEF Open
<1>1. c.stack = st /\ c.next \in Nat /\ c = Ctx(cs, bts, st, d, c.blocks, c.order, c.insert, c.next)
  BY <1>0, HoldsFields
<1>2. st \in Seq(Values) /\ Len(st) \in Nat /\ cs[Len(cs)].outerStackSize \in Nat
  <2>1. st \in Seq(Values) /\ Len(st) \in Nat /\ cs[Len(cs)] \in Contexts
    BY <1>0, HoldsTypes
  <2>2. QED BY <2>1 DEF Contexts
<1>3. args \in Seq(Values)
  <2>1. n <= Len(st)
    BY <1>2
  <2>2. QED BY <1>2, <2>1, StackParts
<1>4. Open(p, cs, bts, low, d)
  BY StackHolds
<1>5. p.next = c.next
  <2>1. PICK bs, ord, ins, nx : c = Ctx(cs, bts, st, d, bs, ord, ins, nx)
    BY <1>1
  <2>2. p = Ctx(cs, bts, low, d, bs, ord, ins, nx)
    BY <2>1, ContextSteps
  <2>3. QED BY <2>1, <2>2, CtxFields
<1>6. E!operands(c, n) = args
  BY <1>1 DEF E!operands
<1>7. WellTyped([id |-> p.next, op |-> op, args |-> args, type |-> type])
  BY <1>5, Zenon
<1> HIDE DEF p, args, low
<1>8. Open(f, cs, bts, low, d)
  BY <1>3, <1>4, <1>7, InstrHolds
<1>9. E!through(c, n, op, type) = IF type = "none" THEN f ELSE E!push(f, E!last(f, type))
  BY <1>6, Zenon DEF E!through, p
<1> HIDE DEF f
<1>10. QED BY <1>8, <1>9, ResultPushed DEF low

(* A value and a terminator may be given in either order. *)
LEMMA GivenEnded ==
  ASSUME NEW bs \in Seq(Blocks), NEW p \in 1..Len(bs), NEW a \in 1..Len(bs), NEW x, NEW t
  PROVE  Given(Ended(bs, p, t), a, x) = Ended(Given(bs, a, x), p, t)
<1>0. Len(bs) \in Nat /\ DOMAIN bs = 1..Len(bs)
  BY LenProperties
<1> DEFINE l == Given(Ended(bs, p, t), a, x)
           r == Ended(Given(bs, a, x), p, t)
<1>1. DOMAIN l = 1..Len(bs) /\ DOMAIN r = 1..Len(bs)
  BY <1>0 DEF Given, Ended
<1>2. ASSUME NEW b \in 1..Len(bs) PROVE l[b] = r[b]
  <2>0. bs[b] \in Blocks
    BY ElementOfSeq
  <2>1. CASE b = p /\ b = a
    <3>1. l[b] = [[bs[b] EXCEPT !.terms = Append(bs[b].terms, t)] EXCEPT !.in = Append(bs[b].in, x)]
      BY <1>0, <2>0, <2>1 DEF Given, Ended, Blocks
    <3>2. r[b] = [[bs[b] EXCEPT !.in = Append(bs[b].in, x)] EXCEPT !.terms = Append(bs[b].terms, t)]
      BY <1>0, <2>0, <2>1 DEF Given, Ended, Blocks
    <3> DEFINE A == Append(bs[b].terms, t)
               I == Append(bs[b].in, x)
    <3> HIDE DEF A, I
    <3>3. [[bs[b] EXCEPT !.terms = A] EXCEPT !.in = I] = [[bs[b] EXCEPT !.in = I] EXCEPT !.terms = A]
      BY <2>0 DEF Blocks
    <3>4. QED BY <3>1, <3>2, <3>3, Zenon DEF A, I
  <2>2. CASE b = p /\ b # a
    BY <1>0, <2>2 DEF Given, Ended
  <2>3. CASE b # p /\ b = a
    BY <1>0, <2>3 DEF Given, Ended
  <2>4. CASE b # p /\ b # a
    BY <1>0, <2>4 DEF Given, Ended
  <2>5. QED BY <2>1, <2>2, <2>3, <2>4
<1>3. l = [b \in 1..Len(bs) |-> l[b]] /\ r = [b \in 1..Len(bs) |-> r[b]]
  BY <1>1 DEF Given, Ended
<1> HIDE DEF l, r
<1>4. QED BY <1>2, <1>3 DEF l, r

(* A value is passed to the PHI of a, along the one edge to it. *)
LEMMA PassedOnce ==
  ASSUME NEW bs, Graph(bs), NEW p \in 1..Len(bs), bs[p].terms = <<>>,
         NEW a \in 1..Len(bs), NEW x \in Values, x.type = bs[a].phi,
         NEW t \in Terms, TypedTerm(t), Sole(bs, t.to, a)
  PROVE  LET ds == Ended(Given(bs, a, [value |-> x, from |-> p]), p, t) IN
         /\ Graph(ds) /\ Len(ds) = Len(bs)
         /\ Given(Ended(bs, p, t), a, [value |-> x, from |-> p]) = ds
         /\ \A b \in 1..Len(bs) : ds[b].phi = bs[b].phi /\ (b # p => ds[b].terms = bs[b].terms)
         /\ ds[p].terms # <<>>
<1> DEFINE y  == [value |-> x, from |-> p]
           gs == Given(bs, a, y)
           ds == Ended(gs, p, t)
<1>0. bs \in Seq(Blocks) /\ Len(bs) \in Nat
  BY LenProperties DEF Graph
<1>1. y \in Incomings
  BY <1>0 DEF Incomings
<1>2. Graph(ds)
  BY PassedGraph
<1> HIDE DEF y
<1>3. /\ gs \in Seq(Blocks) /\ Len(gs) = Len(bs)
      /\ \A b \in 1..Len(bs) : gs[b].phi = bs[b].phi /\ gs[b].terms = bs[b].terms
  BY <1>0, <1>1, GivenFields
<1>4. Given(Ended(bs, p, t), a, y) = ds
  BY <1>0, GivenEnded
<1> HIDE DEF gs
<1>5. /\ Len(ds) = Len(bs)
      /\ \A b \in 1..Len(bs) : ds[b].phi = gs[b].phi /\ (b # p => ds[b].terms = gs[b].terms)
      /\ ds[p].terms = <<t>>
  <2>1. gs \in Seq(Blocks) /\ p \in 1..Len(gs) /\ gs[p].terms = <<>>
    BY <1>3
  <2>2. /\ Len(ds) = Len(gs)
        /\ \A b \in 1..Len(gs) : ds[b].phi = gs[b].phi /\ ds[b].terms = IF b = p THEN <<t>> ELSE gs[b].terms
    BY <2>1, EndedFields
  <2> HIDE DEF ds
  <2>3. \A b \in 1..Len(gs) : ds[b].phi = gs[b].phi /\ (b # p => ds[b].terms = gs[b].terms)
    BY <2>2, Zenon
  <2>4. ds[p].terms = <<t>>
    BY <2>1, <2>2, Zenon
  <2>5. QED BY <2>2, <2>3, <2>4, <1>3, Zenon
<1>6. <<t>> # <<>>
  BY Singleton
<1> HIDE DEF ds
<1>7. QED BY <1>2, <1>3, <1>4, <1>5, <1>6 DEF ds, gs, y

(* The same, as Advanced states it. *)
LEMMA PassedOn ==
  ASSUME NEW bs, Graph(bs), NEW p \in 1..Len(bs), bs[p].terms = <<>>,
         NEW a \in 1..Len(bs), NEW x \in Values, x.type = bs[a].phi,
         NEW t \in Terms, TypedTerm(t), Sole(bs, t.to, a)
  PROVE  Advanced(bs, p, Ended(Given(bs, a, [value |-> x, from |-> p]), p, t))
<1> DEFINE ds == Ended(Given(bs, a, [value |-> x, from |-> p]), p, t)
<1>1. /\ Graph(ds) /\ Len(ds) = Len(bs) /\ ds[p].terms # <<>>
      /\ \A b \in 1..Len(bs) : ds[b].phi = bs[b].phi /\ (b # p => ds[b].terms = bs[b].terms)
  BY PassedOnce
<1> HIDE DEF ds
<1>2. Advanced(bs, p, ds)
  BY <1>1, Zenon DEF Advanced
<1>3. QED BY <1>2 DEF ds

(* The graph of a remainder grows. *)
LEMMA RemGrows ==
  ASSUME NEW bs, Graph(bs), NEW ins \in 1..Len(bs), bs[ins].terms = <<>>,
         NEW type \in ValueType, NEW args \in Seq(Values), NEW zero \in Values, zero.type = type,
         NEW x \in Instructions, WellTyped(x), NEW quotient \in Values, quotient.type = type
  PROVE  LET ds == RemGraph(bs, ins, type, args, zero, x, quotient) IN
         Grows(bs, ins, ds, Len(bs) + 2) /\ Len(ds) = Len(bs) + 2
<1> DEFINE n  == Len(bs)
           s1 == n + 1
           s2 == n + 2
           phis == <<"none", type>>
           d1 == bs \o Fresh(phis)
           t2 == Term("overflowif", args, <<s2, s1>>)
           d3 == Given(Ended(d1, ins, t2), s2, [value |-> zero, from |-> ins])
           d4 == Coded(d3, s1, x)
           t6 == Term("br", <<>>, <<s2>>)
           d6 == Ended(Given(d4, s2, [value |-> quotient, from |-> s1]), s1, t6)
<1>0. n \in Nat /\ s1 = n + 1 /\ s2 = n + 2
  BY LenProperties DEF Graph
<1>1. phis \in Seq(ResultType) /\ Len(phis) = 2 /\ phis[1] = "none" /\ phis[2] = type
  <2>1. "none" \in ResultType /\ type \in ResultType
    BY DEF ResultType
  <2>2. QED BY <2>1, PairSeq
<1> HIDE DEF phis
<1>2. /\ Graph(d1) /\ n \in Nat /\ Len(d1) = s2
      /\ \A b \in 1..n : d1[b].phi = bs[b].phi /\ d1[b].terms = bs[b].terms
      /\ d1[s1].phi = "none" /\ d1[s1].terms = <<>> /\ d1[s2].phi = type /\ d1[s2].terms = <<>>
  <2>1. /\ Graph(d1) /\ n \in Nat /\ Len(d1) = s2
        /\ \A b \in 1..n : d1[b].phi = bs[b].phi /\ d1[b].terms = bs[b].terms
        /\ \A k \in 1..2 : d1[n + k].phi = phis[k] /\ d1[n + k].terms = <<>>
    <3>1. Created(bs, phis, d1)
      BY <1>1, FreshBlocks
    <3>2. QED BY <3>1, <1>1 DEF Created
  <2>2. QED BY <2>1, <1>1
<1> HIDE DEF s1, s2
<1>3. /\ ins \in 1..s2 /\ s1 \in 1..s2 /\ s2 \in 1..s2 /\ ins # s1 /\ ins # s2 /\ s1 # s2
      /\ s1 \in Nat /\ s2 \in Nat
  BY <1>0
<1>4. /\ t2 \in Terms /\ TypedTerm(t2) /\ t2.to = <<s2, s1>>
      /\ t6 \in Terms /\ TypedTerm(t6) /\ t6.to = <<s2>>
  <2> DEFINE to == <<s2, s1>>
             u == <<s2>>
             no == <<>>
  <2>0. args \in Seq(TermArgs) /\ to \in Seq(Nat) /\ u \in Seq(Nat) /\ no \in Seq(TermArgs)
    <3>1. to \in Seq(Nat) /\ u \in Seq(Nat) /\ no \in Seq(TermArgs)
      BY <1>3
    <3>2. args \in Seq(TermArgs)
      <4>1. \A k \in 1..Len(args) : args[k] \in TermArgs
        BY ElementOfSeq DEF TermArgs
      <4>2. QED BY <4>1, LenProperties, IsASeq
    <3>3. QED BY <3>1, <3>2
  <2> HIDE DEF to, u, no
  <2>3. /\ Term("overflowif", args, to) \in Terms /\ TypedTerm(Term("overflowif", args, to)) /\ Term("overflowif", args, to).to = to
    BY <2>0, TermFields DEF TermOps
  <2>4. /\ Term("br", no, u) \in Terms /\ TypedTerm(Term("br", no, u)) /\ Term("br", no, u).to = u
    BY <2>0, TermFields DEF TermOps
  <2>5. QED BY <2>3, <2>4, Zenon DEF t2, t6, to, u, no
<1> HIDE DEF d1, t2, t6
<1>5. Sole(d1, t2.to, s2)
  <2>1. Len(t2.to) = 2 /\ t2.to[1] = s2 /\ t2.to[2] = s1
    BY <1>4
  <2>2. \A k \in 1..Len(t2.to) : k # 1 => t2.to[k] # s2 /\ t2.to[k] \in 1..Len(d1) /\ d1[t2.to[k]].phi = "none"
    BY <2>1, <1>2, <1>3
  <2>3. 1 \in 1..Len(t2.to)
    BY <2>1
  <2>4. QED BY <2>1, <2>2, <2>3, Zenon DEF Sole
<1>6. /\ Graph(d3) /\ Len(d3) = s2
      /\ \A b \in 1..s2 : d3[b].phi = d1[b].phi /\ (b # ins => d3[b].terms = d1[b].terms)
      /\ d3[ins].terms # <<>>
  <2>1. /\ Graph(d1) /\ ins \in 1..Len(d1) /\ d1[ins].terms = <<>> /\ t2 \in Terms /\ TypedTerm(t2)
        /\ s2 \in 1..Len(d1) /\ zero.type = d1[s2].phi
    BY <1>2, <1>3, <1>4
  <2> DEFINE es == Ended(Given(d1, s2, [value |-> zero, from |-> ins]), ins, t2)
  <2>2. /\ Graph(es) /\ Len(es) = Len(d1) /\ d3 = es
        /\ \A b \in 1..Len(d1) : es[b].phi = d1[b].phi /\ (b # ins => es[b].terms = d1[b].terms)
        /\ es[ins].terms # <<>>
    BY <2>1, <1>5, PassedOnce
  <2>3. QED BY <2>2, <1>2, Zenon
<1> HIDE DEF d3
<1>7. /\ Graph(d4) /\ Len(d4) = s2
      /\ \A b \in 1..s2 : d4[b].phi = d3[b].phi /\ d4[b].terms = d3[b].terms
  <2>1. d3 \in Seq(Blocks) /\ s1 \in 1..Len(d3)
    BY <1>3, <1>6 DEF Graph
  <2>2. /\ Graph(d4) /\ Len(d4) = Len(d3)
        /\ \A b \in 1..Len(d3) : d4[b].phi = d3[b].phi /\ d4[b].terms = d3[b].terms
    BY <2>1, <1>6, CodedGraph, CodedFields
  <2>3. QED BY <2>2, <1>6, Zenon
<1> HIDE DEF d4
<1>8. d4[s1].terms = <<>> /\ d4[s2].phi = type /\ d4[s2].terms = <<>> /\ d4[ins].terms # <<>>
  BY <1>2, <1>3, <1>6, <1>7
<1>9. Sole(d4, t6.to, s2)
  <2>1. Len(t6.to) = 1 /\ t6.to[1] = s2
    BY <1>4
  <2>2. QED BY <2>1 DEF Sole
<1>10. /\ Graph(d6) /\ Len(d6) = s2
       /\ \A b \in 1..s2 : d6[b].phi = d4[b].phi /\ (b # s1 => d6[b].terms = d4[b].terms)
       /\ d6[s1].terms # <<>>
  <2>1. /\ Graph(d4) /\ s1 \in 1..Len(d4) /\ d4[s1].terms = <<>> /\ t6 \in Terms /\ TypedTerm(t6)
        /\ s2 \in 1..Len(d4) /\ quotient.type = d4[s2].phi
    BY <1>3, <1>4, <1>7, <1>8
  <2>2. /\ Graph(d6) /\ Len(d6) = Len(d4)
        /\ \A b \in 1..Len(d4) : d6[b].phi = d4[b].phi /\ (b # s1 => d6[b].terms = d4[b].terms)
        /\ d6[s1].terms # <<>>
    <3>1. Advanced(d4, s1, d6)
      BY <2>1, <1>9, PassedOn
    <3>2. QED BY <3>1, Zenon DEF Advanced
  <2>3. QED BY <2>2, <1>7, Zenon
<1> HIDE DEF d6
<1>11. Grows(bs, ins, d6, s2)
  <2>1. n <= s2 /\ \A b \in 1..n : b \in 1..s2 /\ b # s1 /\ b # s2
    BY <1>0
  <2>2. \A b \in 1..n : d6[b].phi = bs[b].phi /\ (b # ins => d6[b].terms = bs[b].terms)
    BY <2>1, <1>2, <1>6, <1>7, <1>10
  <2>3. d6[s2].terms = <<>> /\ d6[ins].terms # <<>>
    BY <1>3, <1>8, <1>10
  <2>4. ASSUME NEW b \in 1..s2, b = ins \/ b > n, b # s2 PROVE d6[b].terms # <<>>
    <3> HIDE DEF n
    <3>1. b = ins \/ b = s1
      BY <1>0, <2>4
    <3>2. QED BY <3>1, <2>3, <1>10
  <2>5. QED BY <2>1, <2>2, <2>3, <2>4, <1>0, <1>3, <1>10 DEF Grows
<1>12. RemGraph(bs, ins, type, args, zero, x, quotient) = d6
  BY Zenon DEF RemGraph, s1, s2, d6, d4, d3, d1, t2, t6, phis
<1>13. QED BY <1>0, <1>10, <1>11, <1>12, Zenon

(* remainder. *)
LEMMA RemainderHolds ==
  ASSUME NEW c, NEW cs, NEW bts, NEW st, NEW d, Open(c, cs, bts, st, d),
         cs[Len(cs)].outerStackSize <= Len(st) - 2,
         NEW i \in OpRecords, i.type \in ValueType,
         Fits(i, SubSeq(st, Len(st) - 2 + 1, Len(st)), i.type)
  PROVE  Replaces(E!remainder(c, i), cs, bts, st, d, 2, i.type)
<1> DEFINE type == i.type
           args == SubSeq(st, Len(st) - 2 + 1, Len(st))
           f == E!emitConditionalTrap(c, "zero", args)
           zero == E!typedZero(type)
<1>0. Holds(c, cs, bts, st, d) /\ c.stack = st
  BY HoldsFields DEF Open
<1>1. st \in Seq(Values) /\ Len(st) \in Nat /\ cs[Len(cs)].outerStackSize \in Nat
  <2>1. st \in Seq(Values) /\ Len(st) \in Nat /\ cs[Len(cs)] \in Contexts
    BY <1>0, HoldsTypes
  <2>2. QED BY <2>1 DEF Contexts
<1>2. args \in Seq(Values) /\ args \in Seq(TermArgs)
  <2>1. 2 \in Nat /\ 2 <= Len(st)
    BY <1>1
  <2>2. args \in Seq(Values)
    BY <1>1, <2>1, StackParts
  <2> HIDE DEF args
  <2>3. \A k \in 1..Len(args) : args[k] \in TermArgs
    BY <2>2, ElementOfSeq DEF TermArgs
  <2>4. QED BY <2>2, <2>3, LenProperties, IsASeq
<1>3. E!operands(c, 2) = args
  BY <1>0 DEF E!operands
<1>4. Fits(i, args, type) /\ type \in ValueType /\ type \in ResultType
  BY DEF ResultType
<1> HIDE DEF args
<1>5. Open(f, cs, bts, st, d)
  <2>1. "zero" \in Causes
    BY DEF Causes
  <2>2. QED BY <2>1, <1>2, TrapHolds
<1> HIDE DEF f
<1>6. PICK bs, ord, ins, nx : /\ f = Ctx(cs, bts, st, d, bs, ord, ins, nx)
                              /\ Emitting(cs, bts, st, bs, ord, ins) /\ nx \in Nat
  BY <1>5 DEF Holds, Open
<1> DEFINE n == Len(bs)
           s1 == n + 1
           s2 == n + 2
           phis == <<"none", type>>
           order == ord \o Numbers(n, 2)
           x == [id |-> nx, op |-> i, args |-> args, type |-> type]
           quotient == E!Value("inst", nx, type)
           d1 == bs \o Fresh(phis)
           d2 == Ended(d1, ins, Term("overflowif", args, <<s2, s1>>))
           d3 == Given(d2, s2, [value |-> zero, from |-> ins])
           d4 == Coded(d3, s1, x)
           d5 == Given(d4, s2, [value |-> quotient, from |-> s1])
           d6 == Ended(d5, s1, Term("br", <<>>, <<s2>>))
<1>7. cs[Len(cs)].isReachable /\ f.blocks = bs
  BY <1>5, <1>6, CtxFields DEF Open
<1>8. Graph(bs) /\ ins \in 1..n /\ bs[ins].terms = <<>> /\ n \in Nat /\ n >= 2 /\ InOrder(ord, n) /\ Headed(ord)
  BY <1>6, <1>7, EmittingTypes DEF Emitting, Cursor
<1>9. x \in Instructions /\ WellTyped(x)
  <2>1. x \in Instructions
    BY <1>2, <1>4, <1>6 DEF Instructions
  <2>2. QED BY <2>1, <1>4, Zenon DEF Fits
<1>10. zero \in Values /\ zero.type = type /\ quotient \in Values /\ quotient.type = type
  BY <1>4, <1>6 DEF Values, E!typedZero, E!Constant, E!Value
<1> HIDE DEF type, zero, x, quotient
<1>11. d6 = RemGraph(bs, ins, type, args, zero, x, quotient)
  BY Zenon DEF RemGraph
<1>12. Grows(bs, ins, d6, s2) /\ Len(d6) = s2
  <2> HIDE DEF d6
  <2>1. QED BY <1>2, <1>4, <1>8, <1>9, <1>10, <1>11, RemGrows
<1>13. InOrder(order, s2) /\ Headed(order)
  BY <1>8, FreshInOrder
<1>14. st \in Seq(Values) /\ cs[Len(cs)].outerStackSize <= Len(st)
  BY <1>6, EmittingTypes DEF Emitting, Heights
<1>15. Len(phis) = 2
  OBVIOUS
<1>16. E!Block(f, 1) = s1 /\ E!Block(f, 2) = s2 /\ nx + 1 - 1 = nx /\ s2 \in Nat /\ nx + 1 \in Nat
  BY <1>6, <1>7, <1>8 DEF E!Block
<1> HIDE DEF phis, s1, s2, n
<1> DEFINE z == Ctx(cs, bts, st, d, d6, order, s2, nx + 1)
<1>17. E!remainder(c, i) = E!push(E!popped(z, 2), E!Value("phi", s2, type))
  <2>1. E!create(f, phis) = Ctx(cs, bts, st, d, d1, order, ins, nx)
    <3>1. E!create(f, phis) = Ctx(cs, bts, st, d, d1, ord \o Numbers(Len(bs), Len(phis)), ins, nx)
      BY <1>6, ContextSteps
    <3>2. QED BY <3>1, <1>15, Zenon DEF n
  <2> HIDE DEF d1, order
  <2>2. E!terminate(Ctx(cs, bts, st, d, d1, order, ins, nx), "overflowif", args, <<s2, s1>>) = Ctx(cs, bts, st, d, d2, order, ins, nx)
    BY ContextSteps
  <2> HIDE DEF d2
  <2>3. E!addIncoming(Ctx(cs, bts, st, d, d2, order, ins, nx), s2, zero) = Ctx(cs, bts, st, d, d3, order, ins, nx)
    BY ContextSteps
  <2> HIDE DEF d3
  <2>4. E!setInsertPoint(Ctx(cs, bts, st, d, d3, order, ins, nx), s1) = Ctx(cs, bts, st, d, d3, order, s1, nx)
    BY ContextSteps
  <2>5. E!instr(Ctx(cs, bts, st, d, d3, order, s1, nx), i, args, type) = Ctx(cs, bts, st, d, d4, order, s1, nx + 1)
    <3>1. E!instr(Ctx(cs, bts, st, d, d3, order, s1, nx), i, args, type)
              = Ctx(cs, bts, st, d, Coded(d3, s1, [id |-> nx, op |-> i, args |-> args, type |-> type]), order, s1, nx + 1)
      BY ContextSteps
    <3>2. QED BY <3>1, Zenon DEF d4, x
  <2> HIDE DEF d4
  <2>6. E!last(Ctx(cs, bts, st, d, d4, order, s1, nx + 1), type) = quotient
    <3>1. Ctx(cs, bts, st, d, d4, order, s1, nx + 1).next = nx + 1
      BY CtxFields
    <3> DEFINE g == Ctx(cs, bts, st, d, d4, order, s1, nx + 1)
    <3>2. g.next - 1 = nx
      BY <3>1, <1>6
    <3> HIDE DEF g
    <3>3. E!last(g, type) = E!Value("inst", g.next - 1, type)
      BY DEF E!last
    <3>4. QED BY <3>2, <3>3, Zenon DEF g, quotient
  <2>7. E!addIncoming(Ctx(cs, bts, st, d, d4, order, s1, nx + 1), s2, quotient) = Ctx(cs, bts, st, d, d5, order, s1, nx + 1)
    BY ContextSteps
  <2> HIDE DEF d5
  <2>8. E!terminate(Ctx(cs, bts, st, d, d5, order, s1, nx + 1), "br", <<>>, <<s2>>) = Ctx(cs, bts, st, d, d6, order, s1, nx + 1)
    BY ContextSteps
  <2> HIDE DEF d6
  <2>9. E!setInsertPoint(Ctx(cs, bts, st, d, d6, order, s1, nx + 1), s2) = z
    BY ContextSteps
  <2>10. E!remainder(c, i) =
           LET some == E!Block(f, 1)  done == E!Block(f, 2)
               test == E!terminate(E!create(f, <<"none", type>>), "overflowif", args, <<done, some>>)
               g    == E!instr(E!setInsertPoint(E!addIncoming(test, done, zero), some), i, args, type)
               h    == E!terminate(E!addIncoming(g, done, E!last(g, type)), "br", <<>>, <<done>>)
           IN  E!push(E!popped(E!setInsertPoint(h, done), 2), E!Value("phi", done, type))
    BY <1>3, Zenon DEF E!remainder, f, type, zero
  <2> HIDE DEF z
  <2>11. QED BY <2>1, <2>2, <2>3, <2>4, <2>5, <2>6, <2>7, <2>8, <2>9, <2>10, <1>16, Zenon DEF phis
<1> HIDE DEF d6, order
<1>18. Emitting(cs, bts, st, d6, order, s2)
  BY <1>6, <1>7, <1>12, <1>13, <1>14, Grown
<1>19. Open(z, cs, bts, st, d)
  BY <1>7, <1>16, <1>18, Zenon DEF Open, Holds
<1> HIDE DEF z
<1> DEFINE low == SubSeq(st, 1, Len(st) - 2)
           value == E!Value("phi", s2, type)
<1>20. Open(E!popped(z, 2), cs, bts, low, d)
  BY <1>19, StackHolds
<1>21. value \in Values /\ value.type = type
  BY <1>4, <1>16 DEF Values, E!Value
<1> HIDE DEF low, value
<1>22. Open(E!push(E!popped(z, 2), value), cs, bts, Append(low, value), d)
  BY <1>20, <1>21, StackHolds
<1>23. type # "none"
  BY <1>4 DEF ValueType, IntTypes, FloatTypes
<1>24. QED BY <1>17, <1>21, <1>22, <1>23, Zenon DEF Replaces, low, value, type

(* The types of the operands taken. *)
LEMMA TypedArgs ==
  ASSUME NEW st \in Seq(Values), NEW types, Typed(st, types)
  PROVE  LET n == Len(types)
             args == SubSeq(st, Len(st) - n + 1, Len(st))
         IN  /\ args \in Seq(Values) /\ n \in Nat /\ Len(args) = n
             /\ [k \in 1..Len(args) |-> args[k].type] = types
<1> DEFINE n == Len(types)
           args == SubSeq(st, Len(st) - n + 1, Len(st))
<1>1. types \in Seq(ValueType) /\ n \in Nat /\ n <= Len(st) /\ \A k \in 1..n : st[Len(st) - n + k].type = types[k]
  BY LenProperties DEF Typed
<1>2. args \in Seq(Values) /\ Len(args) = n /\ \A k \in 1..n : args[k] = st[Len(st) - n + k]
  BY <1>1, StackParts
<1>3. types = [k \in 1..n |-> types[k]]
  BY <1>1
<1> HIDE DEF args, n
<1>4. \A k \in 1..n : args[k].type = types[k]
  BY <1>1, <1>2, Zenon
<1>5. [k \in 1..Len(args) |-> args[k].type] = types
  BY <1>2, <1>3, <1>4
<1>6. QED BY <1>1, <1>2, <1>5 DEF args, n

(* The types an operator is listed with. *)
LEMMA OperandSeq ==
  ASSUME NEW i, IsOperator(i), i.op \in ListedOps
  PROVE  /\ OperandTypes(i) \in Seq(ValueType) /\ ResultTypeOf(i) \in ResultType
         /\ Len(OperandTypes(i)) \in Nat /\ i \in OpRecords
         /\ i.op = "binary" => OperandTypes(i) = <<i.of, i.of>>
         /\ i.op \in {"nop", "const"} => Len(OperandTypes(i)) = 0 /\ ResultTypeOf(i) = i.type
<1>1. "i32" \in ValueType
  BY DEF ValueType, IntTypes
<1>2. /\ i \in [op : Ops, name : STRING, n : Nat, to : Seq(Nat), of : ResultType, type : ResultType, align : Nat]
      /\ i.op \in {"unary", "binary", "store"} => i.of \in ValueType
  BY DEF IsOperator
<1>3. OperandTypes(i) \in Seq(ValueType)
  <2>1. CASE i.op \in {"nop", "const", "current_memory"}
    BY <2>1 DEF OperandTypes
  <2>2. CASE i.op \in {"load", "grow_memory"}
    BY <2>2, <1>1 DEF OperandTypes
  <2>3. CASE i.op = "store"
    BY <2>3, <1>1, <1>2 DEF OperandTypes
  <2>4. CASE i.op = "unary"
    BY <2>4, <1>2 DEF OperandTypes
  <2>5. CASE i.op = "binary"
    BY <2>5, <1>2 DEF OperandTypes
  <2>6. QED BY <2>1, <2>2, <2>3, <2>4, <2>5 DEF ListedOps
<1>4. ResultTypeOf(i) \in ResultType
  BY <1>1, <1>2 DEF ResultTypeOf, ResultType
<1>5. i \in OpRecords
  <2>1. i.n \in Int /\ i.name \in STRING \cup Ops
    BY <1>2
  <2>2. QED BY <1>2, <2>1 DEF OpRecords
<1>6. Len(OperandTypes(i)) \in Nat
  BY <1>3, LenProperties
<1>7. i.op = "binary" => OperandTypes(i) = <<i.of, i.of>>
  BY DEF OperandTypes
<1>8. i.op \in {"nop", "const"} => Len(OperandTypes(i)) = 0 /\ ResultTypeOf(i) = i.type
  BY DEF OperandTypes, ResultTypeOf
<1>9. QED BY <1>3, <1>4, <1>5, <1>6, <1>7, <1>8

(* An operator that takes what it is listed with. *)
LEMMA ListedFits ==
  ASSUME NEW i, IsOperator(i), i.op \in ListedOps,
         NEW args \in Seq(Values), [k \in 1..Len(args) |-> args[k].type] = OperandTypes(i), NEW type
  PROVE  Fits(i, args, type)
<1> DEFINE x(k) == [id |-> k, op |-> i, args |-> args, type |-> type]
<1>1. ASSUME NEW k PROVE WellTyped(x(k))
  <2>1. x(k).op = i /\ x(k).args = args
    OBVIOUS
  <2>2. i.op \notin {"select", "set_local", "set_global", "get_local", "get_global", "call", "call_indirect"}
    BY DEF ListedOps
  <2> HIDE DEF x
  <2>3. QED BY <2>1, <2>2, Zenon DEF WellTyped
<1>2. QED BY <1>1 DEF Fits

(* division. *)
LEMMA DivisionHolds ==
  ASSUME NEW c, NEW cs, NEW bts, NEW st, NEW d, Open(c, cs, bts, st, d),
         cs[Len(cs)].outerStackSize <= Len(st) - 2,
         NEW i \in OpRecords, i \in Divisions,
         Fits(i, SubSeq(st, Len(st) - 2 + 1, Len(st)), i.type)
  PROVE  Replaces(E!division(c, i), cs, bts, st, d, 2, i.type)
<1> DEFINE args == SubSeq(st, Len(st) - 2 + 1, Len(st))
<1>1. i.name \in {"div_s", "div_u", "rem_s", "rem_u"} /\ i.type \in ValueType
  <2>1. PICK dv \in {"div_s", "div_u", "rem_s", "rem_u"}, t \in IntTypes : i = Binary(dv, t, t)
    BY DEF Divisions
  <2>2. i.name = dv /\ i.type = t
    BY <2>1 DEF Binary, Operator
  <2>3. QED BY <2>2 DEF ValueType
<1>2. i.type \in ResultType
  BY <1>1 DEF ResultType
<1>3. Holds(c, cs, bts, st, d) /\ c.stack = st
  BY HoldsFields DEF Open
<1>4. st \in Seq(Values) /\ Len(st) \in Nat /\ cs[Len(cs)].outerStackSize \in Nat
  <2>1. st \in Seq(Values) /\ Len(st) \in Nat /\ cs[Len(cs)] \in Contexts
    BY <1>3, HoldsTypes
  <2>2. QED BY <2>1 DEF Contexts
<1>5. args \in Seq(Values) /\ args \in Seq(TermArgs)
  <2>1. 2 \in Nat /\ 2 <= Len(st)
    BY <1>4
  <2>2. args \in Seq(Values)
    BY <1>4, <2>1, StackParts
  <2> HIDE DEF args
  <2>3. \A k \in 1..Len(args) : args[k] \in TermArgs
    BY <2>2, ElementOfSeq DEF TermArgs
  <2>4. QED BY <2>2, <2>3, LenProperties, IsASeq
<1>6. E!operands(c, 2) = args
  BY <1>3 DEF E!operands
<1>7. ASSUME NEW cause \in Causes
      PROVE  Replaces(E!through(E!emitConditionalTrap(c, cause, E!operands(c, 2)), 2, i, i.type), cs, bts, st, d, 2, i.type)
  <2> DEFINE f == E!emitConditionalTrap(c, cause, args)
  <2>1. Open(f, cs, bts, st, d)
    <3> HIDE DEF args
    <3>1. QED BY <1>5, TrapHolds
  <2> HIDE DEF f
  <2>2. WellTyped([id |-> f.next, op |-> i, args |-> SubSeq(st, Len(st) - 2 + 1, Len(st)), type |-> i.type])
    BY Zenon DEF Fits
  <2>3. Replaces(E!through(f, 2, i, i.type), cs, bts, st, d, 2, i.type)
    BY <1>2, <2>1, <2>2, ThroughHolds
  <2>4. QED BY <2>3, <1>6, Zenon DEF f
<1>8. "zero" \in Causes /\ "zeroOrOverflow" \in Causes
  BY DEF Causes
<1>9. CASE i.name = "div_s"
  <2>1. E!division(c, i) = E!through(E!emitConditionalTrap(c, "zeroOrOverflow", E!operands(c, 2)), 2, i, i.type)
    BY <1>9 DEF E!division
  <2>2. QED BY <2>1, <1>7, <1>8, Zenon
<1>10. CASE i.name \in {"div_u", "rem_u"}
  <2>1. E!division(c, i) = E!through(E!emitConditionalTrap(c, "zero", E!operands(c, 2)), 2, i, i.type)
    BY <1>10 DEF E!division
  <2>2. QED BY <2>1, <1>7, <1>8, Zenon
<1>11. CASE i.name = "rem_s"
  <2>1. E!division(c, i) = E!remainder(c, i)
    BY <1>11 DEF E!division
  <2>2. QED BY <2>1, <1>1, RemainderHolds
<1>12. QED BY <1>1, <1>9, <1>10, <1>11

-----------------------------------------------------------------------------
(* The validator next to the emitter *)

(* Agreement, for contexts in parts. *)
LEMMA LiveFrom ==
  ASSUME NEW vcs, NEW vst, NEW c, NEW cs, NEW bts, NEW st, NEW d,
         Holds(c, cs, bts, st, d), Agree(vcs, vst, cs, bts, st, d)
  PROVE  Live(VCtx(vcs, vst), c)
<1>1. c.controlStack = cs /\ c.branchTargetStack = bts /\ c.stack = st /\ c.depth = d
  BY HoldsFields
<1>2. VCtx(vcs, vst).controlStack = vcs /\ VCtx(vcs, vst).stack = vst
  BY DEF VCtx
<1>3. QED BY <1>1, <1>2, Zenon DEF Live

(* popAndValidateOperands leaves the stack below some height. *)
LEMMA PopsOperands ==
  ASSUME NEW vcs \in Seq(VContexts), vcs # <<>>, NEW vst \in Seq(OperandType), Rising(vcs, vst),
         NEW expected, Len(expected) \in Nat,
         NEW w \in V!popAndValidate(VCtx(vcs, vst), expected)
  PROVE  \E m : Pops(vcs, vst, expected, m) /\ w = VCtx(vcs, SubSeq(vst, 1, m))
<1> DEFINE x == VCtx(vcs, vst)
           n == Len(expected)
           c == vcs[Len(vcs)]
           h == Len(vst) - c.outerStackSize
<1>0. x.controlStack = vcs /\ x.stack = vst
  BY DEF VCtx
<1>1. Len(vcs) \in Nat /\ Len(vcs) >= 1 /\ Len(vst) \in Nat
  BY EmptySeq, LenProperties
<1>2. c \in VContexts /\ c.outerStackSize \in Nat /\ c.outerStackSize <= Len(vst)
  <2>1. c \in VContexts
    BY <1>1, ElementOfSeq
  <2>2. QED BY <2>1, <1>1 DEF VContexts, Rising
<1>3. V!Top(x) = c /\ V!Height(x) = h
  <2>1. V!Top(x) = c
    BY <1>0 DEF V!Top, V!Last
  <2>2. QED BY <2>1, <1>0 DEF V!Height
<1>4. CASE n = 0
  <2>1. w = x
    BY <1>4 DEF V!popAndValidate
  <2>2. SubSeq(vst, 1, Len(vst)) = vst
    BY <1>1
  <2>3. Pops(vcs, vst, expected, Len(vst))
    BY <1>1, <1>2, <1>4 DEF Pops
  <2>4. QED BY <2>1, <2>2, <2>3, Zenon
<1>5. CASE n # 0
  <2>1. /\ V!canPop(x, n) /\ w = V!popOperands(x, n)
        /\ \A k \in 0..n - 1 : V!matches(expected[n - k], V!operand(x, k))
    BY <1>5 DEF V!popAndValidate
  <2> DEFINE m == Len(vst) - (IF n < h THEN n ELSE h)
  <2>2. w = VCtx(vcs, SubSeq(vst, 1, m))
    <3>1. w = [x EXCEPT !.stack = SubSeq(vst, 1, m)]
      BY <2>1, <1>0, <1>3, Zenon DEF V!popOperands
    <3> HIDE DEF m
    <3>2. QED BY <3>1 DEF VCtx
  <2>3. m \in c.outerStackSize..Len(vst)
    BY <1>1, <1>2
  <2>4. ASSUME c.isReachable PROVE /\ m = Len(vst) - n
                                   /\ \A k \in 1..n : V!matches(expected[k], vst[m + k])
    <3>1. n <= h
      BY <2>1, <2>4, <1>3 DEF V!canPop
    <3>2. m = Len(vst) - n
      BY <3>1, <1>1, <1>2
    <3>3. ASSUME NEW k \in 1..n PROVE V!matches(expected[k], vst[m + k])
      <4>1. n - k \in 0..n - 1 /\ n - (n - k) = k /\ n - k < h
        BY <3>1, <1>1, <1>2
      <4>2. V!matches(expected[n - (n - k)], V!operand(x, n - k))
        BY <4>1, <2>1
      <4>3. V!operand(x, n - k) = vst[Len(vst) - (n - k)]
        BY <4>1, <1>0, <1>3 DEF V!operand
      <4>4. Len(vst) - (n - k) = m + k
        BY <3>2, <1>1
      <4>5. QED BY <4>1, <4>2, <4>3, <4>4, Zenon
    <3>4. QED BY <3>2, <3>3
  <2> HIDE DEF m
  <2>5. Pops(vcs, vst, expected, m)
    BY <2>3, <2>4 DEF Pops
  <2>6. QED BY <2>2, <2>5, Zenon
<1>6. QED BY <1>4, <1>5

(* What the two contexts consist of. *)
LEMMA AgreeTypes ==
  ASSUME NEW vcs, NEW vst, NEW c, NEW cs, NEW bts, NEW st, NEW d,
         Holds(c, cs, bts, st, d), Agree(vcs, vst, cs, bts, st, d)
  PROVE  /\ vcs \in Seq(VContexts) /\ vcs # <<>> /\ Len(vcs) \in Nat /\ Len(vcs) >= Len(cs)
         /\ vst \in Seq(OperandType) /\ Len(vst) \in Nat /\ Rising(vcs, vst)
         /\ \A j \in 1..Len(vcs) : vcs[j] \in VContexts /\ vcs[j].outerStackSize \in Nat
         /\ Len(cs) \in Nat /\ Len(cs) >= 1 /\ Len(cs) \in 1..Len(cs)
         /\ cs[Len(cs)].outerStackSize \in Nat /\ cs[Len(cs)].outerStackSize <= Len(st)
         /\ st \in Seq(Values) /\ Len(st) \in Nat /\ Matching(vst, st)
         /\ cs[Len(cs)].isReachable
               => d = 0 /\ Len(vcs) = Len(cs) /\ Len(vst) = Len(st)
                  /\ vcs[Len(vcs)].outerStackSize = cs[Len(cs)].outerStackSize /\ vcs[Len(vcs)].isReachable
<1>1. /\ Len(cs) \in Nat /\ Len(cs) >= 1 /\ Len(cs) \in 1..Len(cs) /\ st \in Seq(Values) /\ Len(st) \in Nat
      /\ cs[Len(cs)] \in Contexts /\ Heights(cs, st)
  BY HoldsTypes
<1>2. cs[Len(cs)].outerStackSize \in Nat /\ cs[Len(cs)].outerStackSize <= Len(st)
  BY <1>1 DEF Contexts, Heights
<1>3. /\ vcs \in Seq(VContexts) /\ vst \in Seq(OperandType) /\ d \in Nat /\ Len(vcs) = Len(cs) + d
      /\ (d > 0 => ~cs[Len(cs)].isReachable) /\ Rising(vcs, vst) /\ Matching(vst, st)
      /\ (cs[Len(cs)].isReachable => Len(vst) = Len(st))
  BY DEF Agree
<1>4. Len(vcs) \in Nat /\ Len(vst) \in Nat /\ vcs # <<>> /\ Len(vcs) >= Len(cs)
  BY <1>1, <1>3, LenProperties, EmptySeq
<1>5. \A j \in 1..Len(vcs) : vcs[j] \in VContexts /\ vcs[j].outerStackSize \in Nat
  <2>1. \A j \in 1..Len(vcs) : vcs[j] \in VContexts
    BY <1>3, ElementOfSeq
  <2>2. QED BY <2>1 DEF VContexts
<1>6. ASSUME cs[Len(cs)].isReachable
      PROVE  /\ d = 0 /\ Len(vcs) = Len(cs) /\ Len(vst) = Len(st)
             /\ vcs[Len(vcs)].outerStackSize = cs[Len(cs)].outerStackSize /\ vcs[Len(vcs)].isReachable
  <2>1. d = 0 /\ Len(vcs) = Len(cs)
    BY <1>1, <1>3, <1>6
  <2>2. Same(vcs[Len(cs)], cs[Len(cs)], bts[Len(cs)])
    BY <1>1, Zenon DEF Agree
  <2>3. QED BY <2>1, <2>2, <1>3, <1>6, Zenon DEF Same
<1>7. QED BY <1>1, <1>2, <1>3, <1>4, <1>5, <1>6

(* The operand stack changes in reachable code. *)
LEMMA AgreeStack ==
  ASSUME NEW vcs, NEW vst, NEW c, NEW cs, NEW bts, NEW st, NEW d,
         Open(c, cs, bts, st, d), Agree(vcs, vst, cs, bts, st, d),
         NEW types \in Seq(OperandType), NEW values, Len(values) = Len(types),
         cs[Len(cs)].outerStackSize <= Len(types), \A k \in 1..Len(types) : types[k] = values[k].type
  PROVE  Agree(vcs, types, cs, bts, values, d)
<1>0. Holds(c, cs, bts, st, d) /\ cs[Len(cs)].isReachable
  BY DEF Open
<1>1. /\ Len(vcs) \in Nat /\ Len(vcs) >= 1 /\ \A j \in 1..Len(vcs) : vcs[j].outerStackSize \in Nat
      /\ vcs[Len(vcs)].outerStackSize = cs[Len(cs)].outerStackSize /\ Rising(vcs, vst)
  BY <1>0, AgreeTypes
<1>2. Len(types) \in Nat
  BY LenProperties
<1>3. ASSUME NEW j \in 1..Len(vcs) PROVE vcs[j].outerStackSize <= Len(types)
  <2>1. j = Len(vcs) \/ vcs[j].outerStackSize <= vcs[Len(vcs)].outerStackSize
    BY <1>1 DEF Rising
  <2>2. Len(vcs) \in 1..Len(vcs)
    BY <1>1
  <2>3. QED BY <2>1, <2>2, <1>1, <1>2
<1>4. Rising(vcs, types)
  BY <1>1, <1>3, Zenon DEF Rising
<1>5. Matching(types, values)
  BY <1>2 DEF Matching
<1>6. QED BY <1>0, <1>4, <1>5, Zenon DEF Agree

(* Operands the validator accepts are on the emitter's stack, with these types. *)
LEMMA OperatorOn ==
  ASSUME NEW vcs, NEW vst, NEW c, NEW cs, NEW bts, NEW st, NEW d,
         Open(c, cs, bts, st, d), Agree(vcs, vst, cs, bts, st, d),
         NEW params \in Seq(ValueType), NEW ret \in ResultType,
         NEW w \in V!operatorOn(VCtx(vcs, vst), params, ret)
  PROVE  /\ Typed(st, params) /\ cs[Len(cs)].outerStackSize <= Len(st) - Len(params)
         /\ \A z : Replaces(z, cs, bts, st, d, Len(params), ret) => Live(w, z)
<1>0. Holds(c, cs, bts, st, d) /\ cs[Len(cs)].isReachable
  BY DEF Open
<1>1. /\ vcs \in Seq(VContexts) /\ vcs # <<>> /\ Rising(vcs, vst) /\ vst \in Seq(OperandType) /\ Len(vst) \in Nat
      /\ cs[Len(cs)].outerStackSize \in Nat /\ st \in Seq(Values) /\ Len(st) \in Nat /\ Len(vst) = Len(st)
      /\ vcs[Len(vcs)].outerStackSize = cs[Len(cs)].outerStackSize /\ vcs[Len(vcs)].isReachable
      /\ Matching(vst, st)
  BY <1>0, AgreeTypes
<1> DEFINE n == Len(params)
<1>2. n \in Nat /\ \A k \in 1..n : params[k] \in ValueType
  BY LenProperties, ElementOfSeq
<1>3. PICK u \in V!popAndValidate(VCtx(vcs, vst), params) : w = V!push(u, ret)
  BY DEF V!operatorOn
<1>4. PICK m : Pops(vcs, vst, params, m) /\ u = VCtx(vcs, SubSeq(vst, 1, m))
  BY <1>1, <1>2, <1>3, PopsOperands
<1>5. /\ m = Len(vst) - n /\ m \in cs[Len(cs)].outerStackSize..Len(vst) /\ m \in Nat
      /\ \A k \in 1..n : V!matches(params[k], vst[m + k])
  BY <1>1, <1>4 DEF Pops
<1>6. Typed(st, params)
  <2>1. ASSUME NEW k \in 1..n PROVE st[Len(st) - n + k].type = params[k]
    <3>1. m + k \in 1..Len(st) /\ Len(st) - n + k = m + k
      BY <1>1, <1>2, <1>5
    <3>2. vst[m + k] = st[m + k].type /\ st[m + k] \in Values
      BY <3>1, <1>1, ElementOfSeq DEF Matching
    <3>3. vst[m + k] # "any" /\ params[k] # "any"
      BY <3>2, <1>2 DEF Values, ValueType, IntTypes, FloatTypes
    <3>4. params[k] = vst[m + k]
      BY <3>3, <1>5 DEF V!matches
    <3>5. QED BY <3>1, <3>2, <3>4, Zenon
  <2>2. n <= Len(st)
    BY <1>1, <1>2, <1>5
  <2>3. QED BY <2>1, <2>2 DEF Typed
<1>7. cs[Len(cs)].outerStackSize <= Len(st) - n
  BY <1>1, <1>2, <1>5
<1> DEFINE vlow == SubSeq(vst, 1, m)
           low == SubSeq(st, 1, Len(st) - n)
<1>8. /\ vlow \in Seq(OperandType) /\ Len(vlow) = m /\ low \in Seq(Values) /\ Len(low) = m
      /\ \A k \in 1..m : vlow[k] = low[k].type
  <2>1. n <= Len(st) /\ Len(vst) - n = m /\ Len(st) - n = m
    BY <1>1, <1>2, <1>5
  <2>2. /\ vlow \in Seq(OperandType) /\ Len(vlow) = m /\ \A k \in 1..m : vlow[k] = vst[k]
    <3>1. LET q == SubSeq(vst, 1, Len(vst) - n) IN
          q \in Seq(OperandType) /\ Len(q) = Len(vst) - n /\ \A k \in 1..(Len(vst) - n) : q[k] = vst[k]
      BY <2>1, <1>1, <1>2, StackParts
    <3>2. QED BY <3>1, <2>1, Zenon
  <2>3. /\ low \in Seq(Values) /\ Len(low) = m /\ \A k \in 1..m : low[k] = st[k]
    <3>1. LET q == SubSeq(st, 1, Len(st) - n) IN
          q \in Seq(Values) /\ Len(q) = Len(st) - n /\ \A k \in 1..(Len(st) - n) : q[k] = st[k]
      BY <2>1, <1>1, <1>2, StackParts
    <3>2. QED BY <3>1, <2>1, Zenon
  <2>4. \A k \in 1..m : vst[k] = st[k].type
    BY <1>1, <1>5 DEF Matching
  <2>5. QED BY <2>2, <2>3, <2>4
<1> HIDE DEF vlow, low
<1>9. CASE ret = "none"
  <2>1. w = VCtx(vcs, vlow)
    <3>1. w = [u EXCEPT !.stack = u.stack]
      BY <1>3, <1>9 DEF V!push
    <3>2. QED BY <3>1, <1>4 DEF VCtx, vlow
  <2>2. Agree(vcs, vlow, cs, bts, low, d)
    BY <1>8, <1>5, <1>1, AgreeStack
  <2>3. ASSUME NEW z, Replaces(z, cs, bts, st, d, n, ret) PROVE Live(w, z)
    <3>1. Holds(z, cs, bts, low, d)
      BY <2>3, <1>9, Zenon DEF Replaces, low, Open
    <3>2. QED BY <3>1, <2>1, <2>2, LiveFrom
  <2>4. QED BY <2>3, <1>6, <1>7
<1>10. CASE ret # "none"
  <2>0. ret \in ValueType /\ ret \in OperandType
    BY <1>10 DEF ResultType, OperandType
  <2>1. w = VCtx(vcs, Append(vlow, ret))
    <3>1. u = VCtx(vcs, vlow) /\ w = [u EXCEPT !.stack = Append(u.stack, ret)]
      BY <1>3, <1>4, <1>10 DEF V!push, vlow
    <3>2. u.stack = vlow
      BY <3>1 DEF VCtx
    <3>3. QED BY <3>1, <3>2 DEF VCtx
  <2>2. ASSUME NEW z, Replaces(z, cs, bts, st, d, n, ret) PROVE Live(w, z)
    <3>1. PICK value \in Values : value.type = ret /\ Open(z, cs, bts, Append(low, value), d)
      BY <2>2, <1>10, Zenon DEF Replaces, low
    <3> DEFINE types == Append(vlow, ret)
               values == Append(low, value)
    <3>2. /\ types \in Seq(OperandType) /\ Len(types) = m + 1 /\ \A k \in 1..m : types[k] = vlow[k]
          /\ types[m + 1] = ret
      <4>1. vlow \in Seq(OperandType) /\ Len(vlow) = m /\ ret \in OperandType
        BY <1>8, <2>0
      <4>2. QED BY <4>1, AppendProperties
    <3>3. /\ Len(values) = m + 1 /\ \A k \in 1..m : values[k] = low[k]
          /\ values[m + 1] = value
      <4>1. low \in Seq(Values) /\ Len(low) = m /\ value \in Values
        BY <1>8
      <4>2. QED BY <4>1, AppendProperties
    <3> HIDE DEF types, values
    <3>4. \A k \in 1..(m + 1) : types[k] = values[k].type
      <4> TAKE k \in 1..(m + 1)
      <4>1. k \in 1..m \/ k = m + 1
        BY <1>5
      <4>2. QED BY <4>1, <3>1, <3>2, <3>3, <1>8
    <3>5. cs[Len(cs)].outerStackSize <= Len(types)
      BY <3>2, <1>1, <1>5
    <3>6. Agree(vcs, types, cs, bts, values, d)
      BY <3>2, <3>3, <3>4, <3>5, AgreeStack
    <3>7. Holds(z, cs, bts, values, d)
      BY <3>1, Zenon DEF Open, values
    <3>8. QED BY <3>6, <3>7, <2>1, LiveFrom DEF types
  <2>3. QED BY <2>2, <1>6, <1>7
<1>11. QED BY <1>9, <1>10

-----------------------------------------------------------------------------
(* Reachable operators that leave the control stack alone *)

(* The instances have the operators of the module. *)
LEMMA SameOperators ==
  /\ \A i : V!OperandTypes(i) = OperandTypes(i) /\ V!ResultTypeOf(i) = ResultTypeOf(i)
  /\ \A i : E!OperandTypes(i) = OperandTypes(i) /\ E!ResultTypeOf(i) = ResultTypeOf(i)
  /\ E!Divisions = Divisions
  /\ \A op, n : E!Indexed(op, n) = Indexed(op, n) /\ E!NoImm(op) = NoImm(op)
  /\ E!ControlStructureImm = ControlStructureImm
<1>1. \A i : V!OperandTypes(i) = OperandTypes(i) /\ V!ResultTypeOf(i) = ResultTypeOf(i)
  BY Zenon DEF V!OperandTypes, OperandTypes, V!ResultTypeOf, ResultTypeOf
<1>2. \A i : E!OperandTypes(i) = OperandTypes(i) /\ E!ResultTypeOf(i) = ResultTypeOf(i)
  BY Zenon DEF E!OperandTypes, OperandTypes, E!ResultTypeOf, ResultTypeOf
<1>3. E!Divisions = Divisions
  <2>1. \A dv, t : E!Binary(dv, t, t) = Binary(dv, t, t)
    BY Zenon DEF E!Binary, Binary, E!Operator, Operator
  <2>2. E!IntTypes = IntTypes
    BY Zenon DEF E!IntTypes, IntTypes
  <2>3. ASSUME NEW x \in E!Divisions PROVE x \in Divisions
    BY <2>1, <2>2 DEF E!Divisions, Divisions
  <2>4. ASSUME NEW x \in Divisions PROVE x \in E!Divisions
    BY <2>1, <2>2 DEF E!Divisions, Divisions
  <2>5. QED BY <2>3, <2>4
<1>4. \A op, n : E!Indexed(op, n) = Indexed(op, n) /\ E!NoImm(op) = NoImm(op)
  BY Zenon DEF E!Indexed, Indexed, E!NoImm, NoImm, E!Operator, Operator
<1>5. E!ControlStructureImm = ControlStructureImm
  BY Zenon DEF E!ControlStructureImm, ControlStructureImm
<1>6. QED BY <1>1, <1>2, <1>3, <1>4, <1>5

(* canPop. *)
LEMMA CanPop ==
  ASSUME NEW c, NEW cs, NEW bts, NEW st, NEW d, Holds(c, cs, bts, st, d), NEW n \in Nat,
         cs[Len(cs)].outerStackSize <= Len(st) - n
  PROVE  E!canPop(c, n)
<1>1. c.controlStack = cs /\ c.stack = st
  BY HoldsFields
<1>2. cs # <<>> /\ Len(st) \in Nat /\ cs[Len(cs)] \in Contexts
  BY HoldsTypes, EmptySeq
<1>3. cs[Len(cs)].outerStackSize \in Nat
  BY <1>2 DEF Contexts
<1>4. E!base(c) = cs[Len(cs)].outerStackSize
  BY <1>1, <1>2 DEF E!base, E!Top, E!Last
<1>5. QED BY <1>1, <1>2, <1>3, <1>4 DEF E!canPop

(* operator passes its assertion and has its effect. *)
LEMMA OperatorHolds ==
  ASSUME NEW c, NEW cs, NEW bts, NEW st, NEW d, Open(c, cs, bts, st, d),
         NEW i, IsOperator(i), i.op \in ListedOps, Typed(st, OperandTypes(i)),
         cs[Len(cs)].outerStackSize <= Len(st) - Len(OperandTypes(i))
  PROVE  \E z : E!operator(c, i) = {z} /\ Replaces(z, cs, bts, st, d, Len(OperandTypes(i)), ResultTypeOf(i))
<1> DEFINE n == Len(OperandTypes(i))
           type == ResultTypeOf(i)
<1>0. Holds(c, cs, bts, st, d) /\ st \in Seq(Values) /\ Len(st) \in Nat
  BY HoldsTypes DEF Open
<1>1. n \in Nat /\ type \in ResultType /\ i \in OpRecords
  BY OperandSeq
<1>2. SubSeq(st, 1, Len(st) - 0) = st
  BY <1>0
<1>3. CASE i.op = "const"
  <2>1. E!operator(c, i) = {E!push(c, E!Constant(i.n, i.type))}
    BY <1>3 DEF E!operator
  <2>2. n = 0 /\ type = i.type
    BY <1>3, OperandSeq
  <2>3. i.type \in ValueType /\ i.n \in Int
    BY <1>3 DEF IsOperator
  <2> DEFINE value == E!Constant(i.n, i.type)
  <2>4. value \in Values /\ value.type = i.type
    BY <2>3 DEF Values, E!Constant, E!Value
  <2> HIDE DEF value
  <2>5. Open(E!push(c, value), cs, bts, Append(st, value), d)
    BY <2>4, StackHolds
  <2>6. i.type # "none"
    BY <2>3 DEF ValueType, IntTypes, FloatTypes
  <2>7. Replaces(E!push(c, value), cs, bts, st, d, n, type)
    BY <2>2, <2>4, <2>5, <2>6, <1>2, Zenon DEF Replaces
  <2>8. QED BY <2>1, <2>7, Zenon DEF value
<1>4. CASE i.op = "nop"
  <2>1. E!operator(c, i) = {c}
    BY <1>4 DEF E!operator
  <2>2. n = 0 /\ type = "none"
    BY <1>4, OperandSeq DEF IsOperator
  <2>3. Replaces(c, cs, bts, st, d, n, type)
    BY <2>2, <1>2, Zenon DEF Replaces
  <2>4. QED BY <2>1, <2>3, Zenon
<1>5. CASE i.op \notin {"const", "nop"}
  <2>1. E!canPop(c, n)
    BY <1>0, <1>1, CanPop
  <2>2. E!operator(c, i) = IF i \in Divisions THEN {E!division(c, i)} ELSE {E!through(c, n, i, type)}
    <3>1. E!Divisions = Divisions /\ E!OperandTypes(i) = OperandTypes(i) /\ E!ResultTypeOf(i) = ResultTypeOf(i)
      BY SameOperators, Zenon
    <3>2. E!canPop(c, Len(E!OperandTypes(i)))
      BY <2>1, <3>1, Zenon
    <3>3. E!operator(c, i) = IF i \in E!Divisions THEN {E!division(c, i)} ELSE {E!through(c, Len(E!OperandTypes(i)), i, E!ResultTypeOf(i))}
      BY <3>2, <1>5 DEF E!operator
    <3>4. QED BY <3>1, <3>3, Zenon
  <2> DEFINE args == SubSeq(st, Len(st) - n + 1, Len(st))
  <2>3. args \in Seq(Values) /\ [k \in 1..Len(args) |-> args[k].type] = OperandTypes(i)
    BY <1>0, TypedArgs
  <2> HIDE DEF args
  <2>4. Fits(i, args, type)
    BY <2>3, ListedFits
  <2>5. CASE i \in Divisions
    <3>1. i.op = "binary"
      <4>1. PICK dv \in {"div_s", "div_u", "rem_s", "rem_u"}, t \in IntTypes : i = Binary(dv, t, t)
        BY <2>5 DEF Divisions
      <4>2. QED BY <4>1 DEF Binary, Operator
    <3>2. n = 2
      BY <3>1, OperandSeq
    <3>3. type = i.type
      BY <3>1 DEF ResultTypeOf
    <3>4. Replaces(E!division(c, i), cs, bts, st, d, 2, i.type)
      <4>1. Fits(i, SubSeq(st, Len(st) - 2 + 1, Len(st)), i.type)
        BY <2>4, <3>2, <3>3, Zenon DEF args
      <4>2. cs[Len(cs)].outerStackSize <= Len(st) - 2
        BY <3>2
      <4>3. QED BY <4>1, <4>2, <1>1, <2>5, DivisionHolds
    <3>5. QED BY <2>2, <2>5, <3>2, <3>3, <3>4, Zenon
  <2>6. CASE i \notin Divisions
    <3>1. WellTyped([id |-> c.next, op |-> i, args |-> SubSeq(st, Len(st) - n + 1, Len(st)), type |-> type])
      BY <2>4, Zenon DEF Fits, args
    <3>2. Replaces(E!through(c, n, i, type), cs, bts, st, d, n, type)
      BY <1>1, <3>1, ThroughHolds
    <3>3. QED BY <2>2, <2>6, <3>2, Zenon
  <2>7. QED BY <2>5, <2>6
<1>6. QED BY <1>3, <1>4, <1>5

(* An operator with fixed operand types keeps both in step. *)
LEMMA FixedFollows ==
  ASSUME NEW vcs, NEW vst, NEW c, NEW cs, NEW bts, NEW st, NEW d,
         Open(c, cs, bts, st, d), Agree(vcs, vst, cs, bts, st, d),
         NEW params \in Seq(ValueType), NEW ret \in ResultType,
         NEW w \in V!operatorOn(VCtx(vcs, vst), params, ret),
         NEW results, Emits(results, cs, bts, st, d, params, ret)
  PROVE  Follows(w, results)
<1>1. /\ Typed(st, params) /\ cs[Len(cs)].outerStackSize <= Len(st) - Len(params)
      /\ \A z : Replaces(z, cs, bts, st, d, Len(params), ret) => Live(w, z)
  BY OperatorOn
<1>2. QED BY <1>1, Zenon DEF Emits, Follows

(* The operators that are listed with their operand types. *)
LEMMA ListedOn ==
  ASSUME NEW x, NEW i, IsOperator(i), i.op \in ListedOps, NEW w \in V!validated(x, i)
  PROVE  w \in V!operatorOn(x, OperandTypes(i), ResultTypeOf(i))
<1>1. V!OperandTypes(i) = OperandTypes(i) /\ V!ResultTypeOf(i) = ResultTypeOf(i)
  BY SameOperators, Zenon
<1>2. CASE i.op \in {"load", "store"}
  <2>1. w \in IF V!aligned(i) THEN V!onMemory(x, V!OperandTypes(i), V!ResultTypeOf(i)) ELSE {}
    BY <1>2 DEF V!validated
  <2>2. QED BY <2>1, <1>1 DEF V!onMemory
<1>3. CASE i.op \in {"current_memory", "grow_memory"}
  <2>1. w \in V!onMemory(x, V!OperandTypes(i), V!ResultTypeOf(i))
    BY <1>3 DEF V!validated
  <2>2. QED BY <2>1, <1>1 DEF V!onMemory
<1>4. CASE i.op \in {"nop", "const", "unary", "binary"}
  <2>1. w \in V!operatorOn(x, V!OperandTypes(i), V!ResultTypeOf(i))
    BY <1>4 DEF V!validated
  <2>2. QED BY <2>1, <1>1
<1>5. QED BY <1>2, <1>3, <1>4 DEF ListedOps

(* The operators listed with their operand types. *)
LEMMA ListedFollows ==
  ASSUME NEW vcs, NEW vst, NEW c, NEW cs, NEW bts, NEW st, NEW d,
         Open(c, cs, bts, st, d), Agree(vcs, vst, cs, bts, st, d),
         NEW i, IsOperator(i), i.op \in ListedOps, NEW w \in V!validated(VCtx(vcs, vst), i)
  PROVE  Follows(w, E!visit(c, i))
<1> DEFINE x == VCtx(vcs, vst)
<1>1. OperandTypes(i) \in Seq(ValueType) /\ ResultTypeOf(i) \in ResultType
  BY OperandSeq
<1> HIDE DEF x
<1>3. w \in V!operatorOn(x, OperandTypes(i), ResultTypeOf(i))
  BY ListedOn DEF x
<1>4. E!visit(c, i) = E!operator(c, i)
  BY DEF E!visit, ListedOps
<1>5. Emits(E!visit(c, i), cs, bts, st, d, OperandTypes(i), ResultTypeOf(i))
  BY <1>4, OperatorHolds DEF Emits
<1>6. QED BY <1>1, <1>3, <1>5, FixedFollows DEF x

(* The locals, as both instances have them. *)
LEMMA LocalTypes ==
  ASSUME family \in 1..Len(Bodies)
  PROVE  /\ V!locals \in Seq(ValueType) /\ E!locals = V!locals /\ Len(E!locals) \in Nat
         /\ \A n \in Nat : n < Len(V!locals) => V!locals[n + 1] \in ValueType
         /\ body.ret \in ResultType /\ body.params \in Seq(ValueType) /\ body.locals \in Seq(ValueType)
         /\ \A i \in body.operators : IsOperator(i)
<1>1. /\ body.params \in Seq(ValueType) /\ body.locals \in Seq(ValueType) /\ body.ret \in ResultType
      /\ \A i \in body.operators : IsOperator(i)
  BY BodiesAssumption DEF body
<1>2. V!locals = body.params \o body.locals /\ E!locals = body.params \o body.locals
  BY DEF V!locals, E!locals, Type
<1>3. V!locals \in Seq(ValueType)
  BY <1>1, <1>2, ConcatProperties
<1>4. Len(E!locals) \in Nat /\ E!locals = V!locals
  BY <1>2, <1>3, LenProperties
<1>5. ASSUME NEW n \in Nat, n < Len(V!locals) PROVE V!locals[n + 1] \in ValueType
  <2>1. n + 1 \in 1..Len(V!locals)
    BY <1>4, <1>5
  <2>2. QED BY <2>1, <1>3, ElementOfSeq
<1>6. QED BY <1>1, <1>3, <1>4, <1>5

(* An operator with an index, and one without immediates. *)
LEMMA IndexedRecord ==
  ASSUME NEW op \in Ops, NEW n \in Nat
  PROVE  /\ Indexed(op, n) \in OpRecords /\ Indexed(op, n).op = op /\ Indexed(op, n).n = n
         /\ NoImm(op) \in OpRecords /\ NoImm(op).op = op
<1>1. "none" \in ResultType /\ <<>> \in Seq(Nat) /\ n \in Int /\ op \in STRING \cup Ops
  BY DEF ResultType
<1>2. QED BY <1>1 DEF Indexed, NoImm, Operator, OpRecords

(* An operator with an index takes the operands its definition says. *)
LEMMA IndexedFits ==
  ASSUME NEW op \in Ops, NEW n \in Nat, NEW args \in Seq(Values), NEW type,
         Takes(op, n, [k \in 1..Len(args) |-> args[k].type])
  PROVE  Fits(Indexed(op, n), args, type)
<1> DEFINE y(k) == [id |-> k, op |-> Indexed(op, n), args |-> args, type |-> type]
           types == [k \in 1..Len(args) |-> args[k].type]
<1>1. ASSUME NEW k PROVE WellTyped(y(k))
  <2>1. y(k).op.op = op /\ y(k).op.n = n /\ y(k).args = args
    BY IndexedRecord
  <2> DEFINE z == y(k)
             got == [j \in 1..Len(z.args) |-> z.args[j].type]
  <2>2. got = types
    BY <2>1, Zenon
  <2> HIDE DEF y, z, types, got
  <2>3. z.op.op = op /\ z.op.n = n
    BY <2>1 DEF z
  <2>4. WellTyped(z) = (CASE op = "select" -> got[1] = got[2] /\ got[1] = z.type /\ got[3] = "i32"
          [] op = "set_local" -> got = <<E!locals[n + 1]>>
          [] op = "set_global" -> got = <<Globals[n + 1].type>>
          [] op \in {"get_local", "get_global"} -> got = <<>>
          [] op = "call" -> got = Types[Functions[n + 1] + 1].params
          [] op = "call_indirect" -> got = Append(Types[n + 1].params, "i32")
          [] OTHER -> got = OperandTypes(z.op))
    BY <2>3, Zenon DEF WellTyped, got
  <2> SUFFICES WellTyped(z)
    BY DEF z
  <2>5. CASE op = "set_local"
    BY <2>2, <2>4, <2>5 DEF types, Takes
  <2>6. CASE op = "set_global"
    BY <2>2, <2>4, <2>6 DEF types, Takes
  <2>7. CASE op \in {"get_local", "get_global"}
    BY <2>2, <2>4, <2>7 DEF types, Takes
  <2>8. CASE op = "call"
    BY <2>2, <2>4, <2>8 DEF types, Takes
  <2>9. CASE op = "call_indirect"
    BY <2>2, <2>4, <2>9 DEF types, Takes
  <2>10. op \in {"set_local", "set_global", "get_local", "get_global", "call", "call_indirect"}
    BY DEF Takes
  <2>11. QED BY <2>5, <2>6, <2>7, <2>8, <2>9, <2>10
<1>2. QED BY <1>1 DEF Fits

(* What an operator with an index emits. *)
LEMMA IndexedEmits ==
  ASSUME NEW c, NEW cs, NEW bts, NEW st, NEW d, Open(c, cs, bts, st, d),
         NEW op \in Ops, NEW j \in Nat, NEW params, Takes(op, j, params), NEW ret \in ResultType
  PROVE  Emits({E!through(c, Len(params), Indexed(op, j), ret)}, cs, bts, st, d, params, ret)
<1> SUFFICES ASSUME Typed(st, params), cs[Len(cs)].outerStackSize <= Len(st) - Len(params)
             PROVE  Replaces(E!through(c, Len(params), Indexed(op, j), ret), cs, bts, st, d, Len(params), ret)
  BY Zenon DEF Emits
<1> DEFINE n == Len(params)
           args == SubSeq(st, Len(st) - n + 1, Len(st))
           o == Indexed(op, j)
<1>1. st \in Seq(Values)
  BY HoldsTypes DEF Open
<1>2. n \in Nat /\ args \in Seq(Values) /\ [k \in 1..Len(args) |-> args[k].type] = params
  BY <1>1, TypedArgs
<1>3. o \in OpRecords
  BY IndexedRecord
<1> HIDE DEF args, n
<1>4. Takes(op, j, [k \in 1..Len(args) |-> args[k].type])
  BY <1>2, Zenon
<1>5. Fits(o, args, ret)
  BY <1>2, <1>4, IndexedFits
<1> HIDE DEF o
<1>6. WellTyped([id |-> c.next, op |-> o, args |-> SubSeq(st, Len(st) - n + 1, Len(st)), type |-> ret])
  BY <1>5, Zenon DEF Fits, args
<1>7. cs[Len(cs)].outerStackSize <= Len(st) - n
  BY DEF n
<1>8. Replaces(E!through(c, n, o, ret), cs, bts, st, d, n, ret)
  BY <1>2, <1>3, <1>6, <1>7, ThroughHolds
<1>9. QED BY <1>8 DEF o, n

(* Operators that only push, and operators that only pop. *)
LEMMA OneSided ==
  ASSUME NEW vcs \in Seq(VContexts), vcs # <<>>, NEW vst \in Seq(OperandType), Rising(vcs, vst)
  PROVE  LET x == VCtx(vcs, vst) IN
         /\ \A t : V!push(x, t) \in V!operatorOn(x, <<>>, t)
         /\ \A expected : Len(expected) \in Nat =>
               \A w \in V!popAndValidate(x, expected) : w \in V!operatorOn(x, expected, "none")
<1> DEFINE x == VCtx(vcs, vst)
<1>1. ASSUME NEW t PROVE V!push(x, t) \in V!operatorOn(x, <<>>, t)
  <2>1. x \in V!popAndValidate(x, <<>>)
    BY DEF V!popAndValidate
  <2>2. QED BY <2>1, Zenon DEF V!operatorOn
<1>2. ASSUME NEW expected, Len(expected) \in Nat, NEW w \in V!popAndValidate(x, expected)
      PROVE  w \in V!operatorOn(x, expected, "none")
  <2>1. PICK m : w = VCtx(vcs, SubSeq(vst, 1, m))
    BY <1>2, PopsOperands
  <2> DEFINE s == SubSeq(vst, 1, m)
  <2> HIDE DEF s
  <2>2. w = VCtx(vcs, s)
    BY <2>1 DEF s
  <2>3. V!push(w, "none") = [w EXCEPT !.stack = w.stack]
    BY DEF V!push
  <2>4. V!push(w, "none") = w
    BY <2>2, <2>3 DEF VCtx
  <2>5. QED BY <2>4, <1>2, Zenon DEF V!operatorOn
<1>3. QED BY <1>1, <1>2, Zenon

(* What an index stands for. *)
LEMMA IndexTypes ==
  ASSUME NEW n \in Nat
  PROVE  /\ n < Len(Globals) => Globals[n + 1].type \in ValueType
         /\ n < Len(Types) => Types[n + 1].params \in Seq(ValueType) /\ Types[n + 1].ret \in ResultType
         /\ n < Len(Functions) => Functions[n + 1] \in Nat /\ Functions[n + 1] < Len(Types)
<1>1. /\ Types \in Seq([params : Seq(ValueType), ret : ResultType]) /\ Functions \in Seq(0..Len(Types) - 1)
      /\ Globals \in Seq([type : ValueType, isMutable : BOOLEAN])
  BY ModuleAssumption
<1>2. Len(Types) \in Nat /\ Len(Functions) \in Nat /\ Len(Globals) \in Nat
  BY <1>1, LenProperties
<1>3. n < Len(Globals) => Globals[n + 1] \in [type : ValueType, isMutable : BOOLEAN]
  <2>1. n < Len(Globals) => n + 1 \in 1..Len(Globals)
    BY <1>2
  <2>2. QED BY <2>1, <1>1, ElementOfSeq
<1>4. n < Len(Types) => Types[n + 1] \in [params : Seq(ValueType), ret : ResultType]
  <2>1. n < Len(Types) => n + 1 \in 1..Len(Types)
    BY <1>2
  <2>2. QED BY <2>1, <1>1, ElementOfSeq
<1>5. n < Len(Functions) => Functions[n + 1] \in 0..Len(Types) - 1
  <2>1. n < Len(Functions) => n + 1 \in 1..Len(Functions)
    BY <1>2
  <2>2. QED BY <2>1, <1>1, ElementOfSeq
<1>6. QED BY <1>2, <1>3, <1>4, <1>5

(* What the validator wants of them and what the emitter does, an index *)
(* being in range for both or for neither. *)
LEMMA IndexedCase ==
  ASSUME family \in 1..Len(Bodies),
         NEW vcs, NEW vst, NEW c, NEW cs, NEW bts, NEW st, NEW d,
         Open(c, cs, bts, st, d), Agree(vcs, vst, cs, bts, st, d),
         NEW i, IsOperator(i), i.op \in IndexedOps, NEW w \in V!validated(VCtx(vcs, vst), i)
  PROVE  \E params \in Seq(ValueType), ret \in ResultType :
            /\ w \in V!operatorOn(VCtx(vcs, vst), params, ret) /\ Takes(i.op, i.n, params)
            /\ E!canPop(c, Len(params)) => E!visit(c, i) = {E!through(c, Len(params), Indexed(i.op, i.n), ret)}
<1> DEFINE x == VCtx(vcs, vst)
           n == i.n
<1>0. n \in Nat /\ i.op \in Ops
  BY DEF IsOperator
<1>1. Holds(c, cs, bts, st, d)
  BY DEF Open
<1>2. vcs \in Seq(VContexts) /\ vcs # <<>> /\ Rising(vcs, vst) /\ vst \in Seq(OperandType)
  BY <1>1, AgreeTypes
<1>3. /\ \A t : V!push(x, t) \in V!operatorOn(x, <<>>, t)
      /\ \A expected : Len(expected) \in Nat =>
            \A u \in V!popAndValidate(x, expected) : u \in V!operatorOn(x, expected, "none")
  BY <1>2, OneSided
<1>4. w \in V!validated(x, i)
  OBVIOUS
<1>5. \A op, k : E!Indexed(op, k) = Indexed(op, k)
  BY SameOperators
<1> HIDE DEF x, n
<1>6. "none" \in ResultType /\ <<>> \in Seq(ValueType) /\ Len(<<>>) = 0
  BY DEF ResultType
<1>7. \A t \in ValueType : t \in ResultType /\ <<t>> \in Seq(ValueType) /\ Len(<<t>>) = 1
  BY DEF ResultType
<1>8. CASE i.op = "get_local"
  <2>1. w \in IF n < Len(V!locals) THEN {V!push(x, V!locals[n + 1])} ELSE {}
    BY <1>4, <1>8 DEF V!validated, V!get_local, n
  <2> DEFINE t == V!locals[n + 1]
  <2>2. n < Len(V!locals) /\ w = V!push(x, t)
    BY <2>1
  <2>3. t \in ValueType /\ E!locals = V!locals
    BY <2>2, <1>0, LocalTypes
  <2>4. E!visit(c, i) = IF n < Len(E!locals) THEN {E!through(c, 0, E!Indexed("get_local", n), E!locals[n + 1])} ELSE {}
    BY <1>8 DEF E!visit, E!get_local, n
  <2>5. E!visit(c, i) = {E!through(c, 0, Indexed("get_local", n), t)}
    BY <2>2, <2>3, <2>4, <1>5, Zenon
  <2>6. Takes("get_local", n, <<>>)
    BY DEF Takes
  <2> HIDE DEF t
  <2>7. w \in V!operatorOn(x, <<>>, t)
    BY <2>2, <1>3
  <2>8. QED BY <2>3, <2>5, <2>6, <2>7, <1>6, <1>7, <1>8, Zenon DEF x, n
<1>9. CASE i.op = "set_local"
  <2>1. w \in IF n < Len(V!locals) THEN V!popAndValidate(x, <<V!locals[n + 1]>>) ELSE {}
    BY <1>4, <1>9 DEF V!validated, V!set_local, n
  <2> DEFINE t == V!locals[n + 1]
  <2>2. n < Len(V!locals) /\ w \in V!popAndValidate(x, <<t>>)
    BY <2>1
  <2>3. t \in ValueType /\ E!locals = V!locals
    BY <2>2, <1>0, LocalTypes
  <2>4. E!visit(c, i) = IF n < Len(E!locals) /\ E!canPop(c, 1) THEN {E!through(c, 1, E!Indexed("set_local", n), "none")} ELSE {}
    BY <1>9 DEF E!visit, E!set_local, n
  <2>5. E!canPop(c, 1) => E!visit(c, i) = {E!through(c, 1, Indexed("set_local", n), "none")}
    BY <2>2, <2>3, <2>4, <1>5, Zenon
  <2>6. Takes("set_local", n, <<t>>)
    BY <2>3 DEF Takes
  <2> HIDE DEF t
  <2>7. w \in V!operatorOn(x, <<t>>, "none")
    BY <2>2, <2>3, <1>3, <1>7
  <2>8. QED BY <2>3, <2>5, <2>6, <2>7, <1>6, <1>7, <1>9, Zenon DEF x, n
<1>10. CASE i.op = "get_global"
  <2> DEFINE t == Globals[n + 1].type
  <2>1. w \in IF n < Len(Globals) THEN {V!push(x, t)} ELSE {}
    BY <1>4, <1>10 DEF V!validated, V!get_global, n
  <2>2. n < Len(Globals) /\ w = V!push(x, t)
    BY <2>1
  <2>3. t \in ValueType
    BY <2>2, <1>0, IndexTypes
  <2>4. E!visit(c, i) = IF n < Len(Globals) THEN {E!through(c, 0, E!Indexed("get_global", n), t)} ELSE {}
    BY <1>10 DEF E!visit, E!get_global, n
  <2>5. E!visit(c, i) = {E!through(c, 0, Indexed("get_global", n), t)}
    BY <2>2, <2>4, <1>5, Zenon
  <2>6. Takes("get_global", n, <<>>)
    BY DEF Takes
  <2> HIDE DEF t
  <2>7. w \in V!operatorOn(x, <<>>, t)
    BY <2>2, <1>3
  <2>8. QED BY <2>3, <2>5, <2>6, <2>7, <1>6, <1>7, <1>10, Zenon DEF x, n
<1>11. CASE i.op = "set_global"
  <2> DEFINE t == Globals[n + 1].type
  <2>1. w \in IF n < Len(Globals) /\ Globals[n + 1].isMutable THEN V!popAndValidate(x, <<t>>) ELSE {}
    BY <1>4, <1>11 DEF V!validated, V!set_global, n
  <2>2. n < Len(Globals) /\ w \in V!popAndValidate(x, <<t>>)
    BY <2>1
  <2>3. t \in ValueType
    BY <2>2, <1>0, IndexTypes
  <2>4. E!visit(c, i) = IF n < Len(Globals) /\ E!canPop(c, 1) THEN {E!through(c, 1, E!Indexed("set_global", n), "none")} ELSE {}
    BY <1>11 DEF E!visit, E!set_global, n
  <2>5. E!canPop(c, 1) => E!visit(c, i) = {E!through(c, 1, Indexed("set_global", n), "none")}
    BY <2>2, <2>4, <1>5, Zenon
  <2>6. Takes("set_global", n, <<t>>)
    BY DEF Takes
  <2> HIDE DEF t
  <2>7. w \in V!operatorOn(x, <<t>>, "none")
    BY <2>2, <2>3, <1>3, <1>7
  <2>8. QED BY <2>3, <2>5, <2>6, <2>7, <1>6, <1>7, <1>11, Zenon DEF x, n
<1>12. CASE i.op = "call"
  <2> DEFINE t == Types[Functions[n + 1] + 1]
  <2>1. w \in IF n < Len(Functions) THEN V!operatorOn(x, t.params, t.ret) ELSE {}
    BY <1>4, <1>12 DEF V!validated, V!call, n
  <2>2. n < Len(Functions) /\ w \in V!operatorOn(x, t.params, t.ret)
    BY <2>1
  <2>3. t.params \in Seq(ValueType) /\ t.ret \in ResultType
    <3>1. Functions[n + 1] \in Nat /\ Functions[n + 1] < Len(Types)
      BY <2>2, <1>0, IndexTypes
    <3>2. QED BY <3>1, IndexTypes
  <2>4. E!visit(c, i) = IF n < Len(Functions) /\ E!canPop(c, Len(t.params))
                        THEN {E!through(c, Len(t.params), E!Indexed("call", n), t.ret)} ELSE {}
    BY <1>12 DEF E!visit, E!call, n
  <2>5. E!canPop(c, Len(t.params)) => E!visit(c, i) = {E!through(c, Len(t.params), Indexed("call", n), t.ret)}
    BY <2>2, <2>4, <1>5, Zenon
  <2>6. Takes("call", n, t.params)
    BY DEF Takes
  <2> HIDE DEF t
  <2>7. QED BY <2>2, <2>3, <2>5, <2>6, <1>12, Zenon DEF x, n
<1>13. QED BY <1>8, <1>9, <1>10, <1>11, <1>12 DEF IndexedOps

(* Locals, globals and direct calls. *)
LEMMA IndexedFollows ==
  ASSUME family \in 1..Len(Bodies),
         NEW vcs, NEW vst, NEW c, NEW cs, NEW bts, NEW st, NEW d,
         Open(c, cs, bts, st, d), Agree(vcs, vst, cs, bts, st, d),
         NEW i, IsOperator(i), i.op \in IndexedOps, NEW w \in V!validated(VCtx(vcs, vst), i)
  PROVE  Follows(w, E!visit(c, i))
<1>1. PICK params \in Seq(ValueType), ret \in ResultType :
              /\ w \in V!operatorOn(VCtx(vcs, vst), params, ret) /\ Takes(i.op, i.n, params)
              /\ E!canPop(c, Len(params)) => E!visit(c, i) = {E!through(c, Len(params), Indexed(i.op, i.n), ret)}
  BY IndexedCase
<1>2. i.n \in Nat /\ i.op \in Ops
  BY DEF IsOperator
<1>3. Len(params) \in Nat /\ Holds(c, cs, bts, st, d)
  BY LenProperties DEF Open
<1>4. Emits({E!through(c, Len(params), Indexed(i.op, i.n), ret)}, cs, bts, st, d, params, ret)
  BY <1>1, <1>2, IndexedEmits
<1>5. cs[Len(cs)].outerStackSize <= Len(st) - Len(params) => E!canPop(c, Len(params))
  BY <1>3, CanPop
<1>6. Emits(E!visit(c, i), cs, bts, st, d, params, ret)
  BY <1>1, <1>4, <1>5, Zenon DEF Emits
<1>7. QED BY <1>1, <1>6, FixedFollows

(* Operators that take operands of any type, with the types they find. *)
LEMMA Retyped ==
  ASSUME NEW vcs, NEW vst, NEW c, NEW cs, NEW bts, NEW st, NEW d,
         Open(c, cs, bts, st, d), Agree(vcs, vst, cs, bts, st, d),
         NEW expected, Len(expected) \in Nat, Len(expected) > 0,
         NEW w \in V!popAndValidate(VCtx(vcs, vst), expected)
  PROVE  Refits(VCtx(vcs, vst), w, expected, vst, st, cs[Len(cs)].outerStackSize)
<1> DEFINE x == VCtx(vcs, vst)
           n == Len(expected)
<1>0. x.controlStack = vcs /\ x.stack = vst
  BY DEF VCtx
<1>1. Holds(c, cs, bts, st, d) /\ cs[Len(cs)].isReachable
  BY DEF Open
<1>2. /\ vcs # <<>> /\ Len(vcs) \in Nat /\ Len(vst) \in Nat /\ cs[Len(cs)].outerStackSize \in Nat
      /\ st \in Seq(Values) /\ Len(st) \in Nat /\ Len(vst) = Len(st)
      /\ vcs[Len(vcs)].outerStackSize = cs[Len(cs)].outerStackSize /\ vcs[Len(vcs)].isReachable
      /\ Matching(vst, st)
  BY <1>1, AgreeTypes
<1>3. V!Top(x) = vcs[Len(vcs)] /\ V!Height(x) = Len(st) - cs[Len(cs)].outerStackSize
  <2>1. V!Top(x) = vcs[Len(vcs)]
    BY <1>0 DEF V!Top, V!Last
  <2>2. QED BY <2>1, <1>0, <1>2 DEF V!Height
<1>4. /\ V!canPop(x, n) /\ w = V!popOperands(x, n)
      /\ \A k \in 0..n - 1 : V!matches(expected[n - k], V!operand(x, k))
  BY DEF V!popAndValidate
<1>5. n <= Len(st) - cs[Len(cs)].outerStackSize
  BY <1>2, <1>3, <1>4 DEF V!canPop
<1>6. ASSUME NEW k \in 0..n - 1
      PROVE  V!operand(x, k) = vst[Len(vst) - k] /\ vst[Len(vst) - k] = st[Len(st) - k].type /\ st[Len(st) - k] \in Values
  <2>1. k < V!Height(x) /\ Len(st) - k \in 1..Len(st)
    BY <1>2, <1>3, <1>5
  <2>2. V!operand(x, k) = vst[Len(vst) - k]
    BY <2>1, <1>0 DEF V!operand
  <2>3. vst[Len(st) - k] = st[Len(st) - k].type /\ st[Len(st) - k] \in Values
    BY <2>1, <1>2, ElementOfSeq DEF Matching
  <2>4. QED BY <2>2, <2>3, <1>2, Zenon
<1>7. ASSUME NEW params, Len(params) = n, \A k \in 0..n - 1 : params[n - k] = vst[Len(vst) - k]
      PROVE  w \in V!popAndValidate(x, params)
  <2>1. \A k \in 0..n - 1 : V!matches(params[n - k], V!operand(x, k))
    BY <1>6, <1>7, Zenon DEF V!matches
  <2>2. Len(params) # 0
    BY <1>7
  <2>3. V!popAndValidate(x, params) = {V!popOperands(x, n)}
    BY <2>1, <2>2, <1>0, <1>2, <1>4, <1>7, Zenon DEF V!popAndValidate
  <2>4. QED BY <2>3, <1>4
<1>8. QED BY <1>4, <1>5, <1>6, <1>7, Zenon DEF Refits

(* drop *)
LEMMA DropFollows ==
  ASSUME NEW vcs, NEW vst, NEW c, NEW cs, NEW bts, NEW st, NEW d,
         Open(c, cs, bts, st, d), Agree(vcs, vst, cs, bts, st, d),
         NEW i, i.op = "drop", NEW w \in V!validated(VCtx(vcs, vst), i)
  PROVE  Follows(w, E!visit(c, i))
<1> DEFINE x == VCtx(vcs, vst)
           any == <<"any">>
           t == vst[Len(vst)]
<1>1. Len(any) = 1
  OBVIOUS
<1>2. w \in V!popAndValidate(x, any)
  BY DEF V!validated, V!drop
<1> HIDE DEF any
<1>3. Holds(c, cs, bts, st, d) /\ c.stack = st
  BY HoldsFields DEF Open
<1>4. /\ vcs \in Seq(VContexts) /\ vcs # <<>> /\ Rising(vcs, vst) /\ vst \in Seq(OperandType) /\ Len(vst) \in Nat
      /\ Len(st) \in Nat /\ cs[Len(cs)].outerStackSize \in Nat /\ st \in Seq(Values)
  BY <1>3, AgreeTypes
<1>5. /\ 1 <= Len(st) - cs[Len(cs)].outerStackSize
      /\ \A k \in 0..1 - 1 : vst[Len(vst) - k] = st[Len(st) - k].type /\ st[Len(st) - k] \in Values
      /\ \A params : /\ Len(params) = 1
                     /\ \A k \in 0..1 - 1 : params[1 - k] = vst[Len(vst) - k]
                     => w \in V!popAndValidate(x, params)
  <2>1. Len(any) \in Nat /\ Len(any) > 0
    BY <1>1
  <2>2. Refits(x, w, any, vst, st, cs[Len(cs)].outerStackSize)
    BY <1>2, <2>1, Retyped
  <2>3. QED BY <1>1, <2>2, Zenon DEF Refits
<1>6. 0 \in 0..1 - 1 /\ Len(vst) - 0 = Len(vst) /\ Len(st) - 0 = Len(st) /\ \A k \in 0..1 - 1 : k = 0
  BY <1>4
<1>7. t = st[Len(st)].type /\ st[Len(st)] \in Values
  BY <1>5, <1>6, Zenon
<1>8. t \in ValueType
  BY <1>7 DEF Values
<1> HIDE DEF t, x
<1>9. <<t>> \in Seq(ValueType) /\ Len(<<t>>) = 1 /\ <<t>>[1] = t
  BY <1>8
<1>10. w \in V!popAndValidate(x, <<t>>)
  <2> DEFINE p == <<t>>
  <2> HIDE DEF p
  <2>1. Len(p) = 1 /\ p[1] = t
    BY <1>9 DEF p
  <2>2. \A k \in 0..1 - 1 : p[1 - k] = vst[Len(vst) - k]
    BY <2>1, <1>4 DEF t
  <2>3. QED BY <2>1, <2>2, <1>5, Zenon DEF p
<1>11. w \in V!operatorOn(x, <<t>>, "none")
  <2> DEFINE p == <<t>>
  <2>0. Len(p) \in Nat
    BY <1>9
  <2> HIDE DEF p
  <2>1. QED BY <2>0, <1>4, <1>10, OneSided DEF p, x
<1>12. E!visit(c, i) = {E!popped(c, 1)}
  <2>1. c.stack # <<>>
    BY <1>3, <1>4, <1>5, EmptySeq
  <2>2. QED BY <2>1 DEF E!visit, E!drop
<1>13. Emits(E!visit(c, i), cs, bts, st, d, <<t>>, "none")
  <2>1. cs[Len(cs)].outerStackSize <= Len(st) - 1
    BY <1>4, <1>5
  <2>2. Open(E!popped(c, 1), cs, bts, SubSeq(st, 1, Len(st) - 1), d)
    BY <2>1, StackHolds
  <2>3. QED BY <2>2, <1>9, <1>12, Zenon DEF Emits, Replaces
<1>14. "none" \in ResultType
  BY DEF ResultType
<1>15. QED
  <2> DEFINE p == <<t>>
  <2>1. p \in Seq(ValueType) /\ w \in V!operatorOn(x, p, "none") /\ Emits(E!visit(c, i), cs, bts, st, d, p, "none")
    BY <1>9, <1>11, <1>13
  <2> HIDE DEF p
  <2>2. QED BY <2>1, <1>14, FixedFollows DEF x

(* select *)
LEMMA SelectFollows ==
  ASSUME NEW vcs, NEW vst, NEW c, NEW cs, NEW bts, NEW st, NEW d,
         Open(c, cs, bts, st, d), Agree(vcs, vst, cs, bts, st, d),
         NEW i, i.op = "select", NEW w \in V!validated(VCtx(vcs, vst), i)
  PROVE  Follows(w, E!visit(c, i))
<1> DEFINE x == VCtx(vcs, vst)
           any == <<"any", "any", "i32">>
           l == Len(st)
           t == vst[l - 1]
           p == <<t, t, "i32">>
<1>1. Len(any) = 3 /\ any[3] = "i32"
  OBVIOUS
<1>2. /\ V!popAndValidate(x, any) # {} /\ V!matches(V!operand(x, 1), V!operand(x, 2))
      /\ w \in V!operatorOn(x, any, V!operand(x, 1))
  BY DEF V!validated, V!select
<1> HIDE DEF any
<1>3. PICK u \in V!popAndValidate(x, any) : w = V!push(u, V!operand(x, 1))
  BY <1>2 DEF V!operatorOn
<1>4. Holds(c, cs, bts, st, d) /\ c.stack = st
  BY HoldsFields DEF Open
<1>5. /\ l \in Nat /\ cs[Len(cs)].outerStackSize \in Nat /\ st \in Seq(Values) /\ Len(vst) = l
  BY <1>4, AgreeTypes DEF Open
<1>6. /\ 3 <= l - cs[Len(cs)].outerStackSize
      /\ \A k \in 0..3 - 1 : /\ V!operand(x, k) = vst[Len(vst) - k]
                             /\ vst[Len(vst) - k] = st[l - k].type /\ st[l - k] \in Values
                             /\ V!matches(any[3 - k], vst[Len(vst) - k])
      /\ \A params : /\ Len(params) = 3
                     /\ \A k \in 0..3 - 1 : params[3 - k] = vst[Len(vst) - k]
                     => u \in V!popAndValidate(x, params)
  <2>1. Len(any) \in Nat /\ Len(any) > 0
    BY <1>1
  <2>2. Refits(x, u, any, vst, st, cs[Len(cs)].outerStackSize)
    BY <2>1, <1>3, Retyped
  <2>3. QED BY <2>2, <1>1, Zenon DEF Refits
<1>7. /\ 0 \in 0..3 - 1 /\ 1 \in 0..3 - 1 /\ 2 \in 0..3 - 1 /\ l - 0 = l /\ 3 - 0 = 3
      /\ \A k \in 0..3 - 1 : k = 0 \/ k = 1 \/ k = 2
  BY <1>5
<1>8. /\ V!operand(x, 1) = vst[l - 1] /\ V!operand(x, 2) = vst[l - 2]
      /\ vst[l] = st[l].type /\ st[l] \in Values /\ vst[l - 1] = st[l - 1].type /\ st[l - 1] \in Values
      /\ vst[l - 2] = st[l - 2].type /\ st[l - 2] \in Values /\ V!matches("i32", vst[l])
  BY <1>1, <1>5, <1>6, <1>7, Zenon
<1>9. \A val \in Values : val.type \in ValueType /\ val.type # "any"
  BY DEF Values, ValueType, IntTypes, FloatTypes
<1>10. vst[l] = "i32" /\ vst[l - 2] = t /\ t \in ValueType /\ t # "none"
  <2>1. vst[l] # "any" /\ vst[l - 1] # "any" /\ vst[l - 2] # "any" /\ t \in ValueType
    BY <1>8, <1>9
  <2>2. QED BY <2>1, <1>2, <1>8 DEF V!matches, ValueType, IntTypes, FloatTypes
<1> HIDE DEF t, x
<1>11. p \in Seq(ValueType) /\ Len(p) = 3 /\ p[1] = t /\ p[2] = t /\ p[3] = "i32"
  <2>1. "i32" \in ValueType
    BY DEF ValueType, IntTypes
  <2>2. QED BY <2>1, <1>10
<1> HIDE DEF p
<1>12. u \in V!popAndValidate(x, p)
  <2>1. \A k \in 0..3 - 1 : p[3 - k] = vst[Len(vst) - k]
    <3> TAKE k \in 0..3 - 1
    <3>1. k = 0 \/ k = 1 \/ k = 2
      OBVIOUS
    <3>2. CASE k = 0
      BY <3>2, <1>5, <1>10, <1>11
    <3>3. CASE k = 1
      <4>1. 3 - k = 2 /\ Len(vst) - k = l - 1
        BY <3>3, <1>5
      <4>2. QED BY <4>1, <1>11 DEF t
    <3>4. CASE k = 2
      <4>1. 3 - k = 1 /\ Len(vst) - k = l - 2
        BY <3>4, <1>5
      <4>2. QED BY <4>1, <1>10, <1>11
    <3>5. QED BY <3>1, <3>2, <3>3, <3>4
  <2>2. QED BY <2>1, <1>6, <1>11, Zenon
<1>13. w \in V!operatorOn(x, p, t)
  BY <1>3, <1>8, <1>12, Zenon DEF V!operatorOn, t
<1>14. E!visit(c, i) = {E!through(c, 3, NoImm("select"), st[l - 1].type)}
  <2>1. E!canPop(c, 3)
    <3>1. cs[Len(cs)].outerStackSize <= Len(st) - 3
      BY <1>5, <1>6
    <3>2. QED BY <3>1, <1>4, CanPop
  <2>2. E!NoImm("select") = NoImm("select")
    BY SameOperators, Zenon
  <2>3. E!visit(c, i) = {E!through(c, 3, E!NoImm("select"), c.stack[Len(c.stack) - 1].type)}
    BY <2>1 DEF E!visit, E!select
  <2>4. QED BY <2>2, <2>3, <1>4, Zenon
<1>15. Emits(E!visit(c, i), cs, bts, st, d, p, t)
  <2> SUFFICES ASSUME Typed(st, p), cs[Len(cs)].outerStackSize <= Len(st) - Len(p)
               PROVE  Replaces(E!through(c, 3, NoImm("select"), t), cs, bts, st, d, 3, t)
    BY <1>8, <1>11, <1>14, Zenon DEF Emits, t
  <2> DEFINE args == SubSeq(st, Len(st) - 3 + 1, Len(st))
             o == NoImm("select")
             y == [id |-> c.next, op |-> o, args |-> args, type |-> t]
  <2>1. args \in Seq(Values) /\ Len(args) = 3 /\ [k \in 1..Len(args) |-> args[k].type] = p
    BY <1>5, <1>11, TypedArgs
  <2>2. o \in OpRecords /\ o.op = "select"
    <3>1. "select" \in Ops /\ 0 \in Nat
      BY DEF Ops
    <3>2. QED BY <3>1, IndexedRecord
  <2>3. WellTyped(y)
    <3>1. y.op.op = "select" /\ y.args = args /\ y.type = t
      BY <2>2
    <3> HIDE DEF y, args
    <3>2. LET types == [k \in 1..Len(y.args) |-> y.args[k].type] IN
          WellTyped(y) = (types[1] = types[2] /\ types[1] = y.type /\ types[3] = "i32")
      BY <3>1 DEF WellTyped
    <3>3. [k \in 1..Len(y.args) |-> y.args[k].type] = p
      BY <2>1, <3>1, Zenon
    <3>4. QED BY <3>1, <3>2, <3>3, <1>11, Zenon
  <2>4. t \in ResultType /\ cs[Len(cs)].outerStackSize <= Len(st) - 3
    BY <1>10, <1>11 DEF ResultType
  <2> HIDE DEF o
  <2>5. QED BY <2>2, <2>3, <2>4, ThroughHolds DEF o
<1>16. QED
  <2>1. t \in ResultType
    BY <1>10 DEF ResultType
  <2>2. QED BY <2>1, <1>11, <1>13, <1>15, FixedFollows DEF x

(* A sequence without its last element. *)
LEMMA AllButLast ==
  ASSUME NEW S, NEW s \in Seq(S), Len(s) >= 1
  PROVE  /\ SubSeq(s, 1, Len(s) - 1) \in Seq(S) /\ Len(SubSeq(s, 1, Len(s) - 1)) = Len(s) - 1
         /\ \A k \in 1..(Len(s) - 1) : SubSeq(s, 1, Len(s) - 1)[k] = s[k]
<1> DEFINE n == 1
<1>1. n \in Nat /\ n <= Len(s)
  OBVIOUS
<1> HIDE DEF n
<1>2. /\ SubSeq(s, 1, Len(s) - n) \in Seq(S) /\ Len(SubSeq(s, 1, Len(s) - n)) = Len(s) - n
      /\ \A k \in 1..(Len(s) - n) : SubSeq(s, 1, Len(s) - n)[k] = s[k]
  BY <1>1, StackParts
<1>3. QED BY <1>2, Zenon DEF n

(* The value on top of the stack. *)
LEMMA TopValue ==
  ASSUME NEW c, NEW cs, NEW bts, NEW st, NEW d, Holds(c, cs, bts, st, d),
         cs[Len(cs)].outerStackSize <= Len(st) - 1
  PROVE  /\ Len(st) \in Nat /\ Len(st) >= 1 /\ st # <<>> /\ c.stack # <<>>
         /\ st[Len(st)] \in Values /\ E!top(c) = st[Len(st)]
         /\ st = Append(SubSeq(st, 1, Len(st) - 1), st[Len(st)])
<1>1. c.stack = st
  BY HoldsFields
<1>2. /\ Len(st) \in Nat /\ st \in Seq(Values) /\ cs[Len(cs)] \in Contexts /\ \A k \in 1..Len(st) : st[k] \in Values
  BY HoldsTypes
<1>3. Len(st) >= 1
  <2>1. cs[Len(cs)].outerStackSize \in Nat
    BY <1>2 DEF Contexts
  <2>2. QED BY <2>1, <1>2
<1>4. st # <<>> /\ st[Len(st)] \in Values
  BY <1>2, <1>3, EmptySeq
<1>5. E!top(c) = st[Len(st)]
  BY <1>1 DEF E!top, E!Last
<1> DEFINE q == SubSeq(st, 1, Len(st) - 1)
           r == Append(q, st[Len(st)])
<1>6. q \in Seq(Values) /\ Len(q) = Len(st) - 1 /\ \A k \in 1..(Len(st) - 1) : q[k] = st[k]
  BY <1>2, <1>3, AllButLast
<1> HIDE DEF q
<1>7. r \in Seq(Values) /\ Len(r) = Len(st) /\ \A k \in 1..Len(st) : r[k] = st[k]
  BY <1>2, <1>3, <1>4, <1>6
<1> HIDE DEF r
<1>8. r = st
  BY <1>2, <1>7, SeqEqual
<1>9. QED BY <1>1, <1>2, <1>3, <1>4, <1>5, <1>8 DEF r, q

(* tee_local *)
LEMMA TeeFollows ==
  ASSUME family \in 1..Len(Bodies),
         NEW vcs, NEW vst, NEW c, NEW cs, NEW bts, NEW st, NEW d,
         Open(c, cs, bts, st, d), Agree(vcs, vst, cs, bts, st, d),
         NEW i, IsOperator(i), i.op = "tee_local", NEW w \in V!validated(VCtx(vcs, vst), i)
  PROVE  Follows(w, E!visit(c, i))
<1> DEFINE x == VCtx(vcs, vst)
           n == i.n
           t == V!locals[n + 1]
           p == <<t>>
<1>1. n \in Nat /\ n < Len(V!locals) /\ w \in V!operatorOn(x, p, t)
  BY DEF V!validated, V!tee_local, IsOperator
<1>2. t \in ValueType /\ E!locals = V!locals
  BY <1>1, LocalTypes
<1>3. t \in ResultType /\ t # "none"
  BY <1>2 DEF ResultType, ValueType, IntTypes, FloatTypes
<1>4. p \in Seq(ValueType) /\ Len(p) = 1 /\ p[1] = t /\ p = <<E!locals[n + 1]>>
  BY <1>2
<1> HIDE DEF x, n
<1>5. Emits(E!visit(c, i), cs, bts, st, d, p, t)
  <2> HIDE DEF p
  <2> SUFFICES ASSUME Typed(st, p), cs[Len(cs)].outerStackSize <= Len(st) - 1
               PROVE  \E z : E!visit(c, i) = {z} /\ Replaces(z, cs, bts, st, d, 1, t)
    BY <1>4, Zenon DEF Emits
  <2> DEFINE value == st[Len(st)]
             o == Indexed("set_local", n)
             args == <<value>>
             z == E!instr(c, o, args, "none")
  <2>0. Holds(c, cs, bts, st, d)
    BY DEF Open
  <2>1. /\ Len(st) \in Nat /\ Len(st) >= 1 /\ c.stack # <<>> /\ value \in Values /\ E!top(c) = value
        /\ st = Append(SubSeq(st, 1, Len(st) - 1), value)
    BY <2>0, TopValue
  <2>2. value.type = t
    <3>1. Len(p) = 1 /\ 1 \in 1..1 /\ Len(st) - 1 + 1 = Len(st)
      BY <1>4, <2>1
    <3>2. \A k \in 1..Len(p) : st[Len(st) - Len(p) + k].type = p[k]
      BY DEF Typed
    <3>3. st[Len(st) - 1 + 1].type = p[1]
      BY <3>1, <3>2, Zenon
    <3>4. QED BY <3>1, <3>3, <1>4, Zenon
  <2> HIDE DEF value
  <2>3. args \in Seq(Values) /\ [k \in 1..Len(args) |-> args[k].type] = <<value.type>>
    BY <2>1
  <2> HIDE DEF args
  <2>4. "set_local" \in Ops /\ "none" \in ResultType
    BY DEF Ops, ResultType
  <2>5. o \in OpRecords
    BY <2>4, <1>1, IndexedRecord
  <2>6. Fits(o, args, "none")
    <3>1. Takes("set_local", n, [k \in 1..Len(args) |-> args[k].type])
      BY <2>2, <2>3, <1>2 DEF Takes
    <3>2. QED BY <3>1, <2>3, <2>4, <1>1, IndexedFits
  <2> HIDE DEF o
  <2>7. Open(z, cs, bts, st, d)
    <3>1. WellTyped([id |-> c.next, op |-> o, args |-> args, type |-> "none"])
      BY <2>6, Zenon DEF Fits
    <3>2. QED BY <3>1, <2>3, <2>4, <2>5, InstrHolds
  <2>8. E!visit(c, i) = {z}
    <3>1. E!visit(c, i) = IF n < Len(E!locals) /\ c.stack # <<>> THEN {E!instr(c, E!Indexed("set_local", n), <<E!top(c)>>, "none")} ELSE {}
      BY DEF E!visit, E!tee_local, n
    <3>2. E!Indexed("set_local", n) = o
      BY SameOperators, Zenon DEF o
    <3>3. QED BY <3>1, <3>2, <1>1, <1>2, <2>1, Zenon DEF args
  <2> HIDE DEF z
  <2>9. Replaces(z, cs, bts, st, d, 1, t)
    BY <1>3, <2>1, <2>2, <2>7, Zenon DEF Replaces
  <2>10. QED BY <2>8, <2>9, Zenon
<1> HIDE DEF p, t
<1>6. QED BY <1>1, <1>3, <1>4, <1>5, FixedFollows DEF x

(* call_indirect *)
LEMMA IndirectFollows ==
  ASSUME NEW vcs, NEW vst, NEW c, NEW cs, NEW bts, NEW st, NEW d,
         Open(c, cs, bts, st, d), Agree(vcs, vst, cs, bts, st, d),
         NEW i, IsOperator(i), i.op = "call_indirect", NEW w \in V!validated(VCtx(vcs, vst), i)
  PROVE  Follows(w, E!visit(c, i))
<1> DEFINE x == VCtx(vcs, vst)
           j == i.n
           type == Types[j + 1]
           n == Len(type.params)
           p == Append(type.params, "i32")
<1>1. j \in Nat /\ j < Len(Types) /\ w \in V!operatorOn(x, p, type.ret)
  BY DEF V!validated, V!call_indirect, IsOperator
<1>2. type.params \in Seq(ValueType) /\ type.ret \in ResultType /\ n \in Nat
  BY <1>1, IndexTypes, LenProperties
<1>3. p \in Seq(ValueType) /\ Len(p) = n + 1 /\ p[n + 1] = "i32" /\ \A k \in 1..n : p[k] = type.params[k]
  <2>1. "i32" \in ValueType
    BY DEF ValueType, IntTypes
  <2>2. QED BY <2>1, <1>2, AppendProperties
<1> HIDE DEF x, j, type
<1>4. E!visit(c, i) =
        LET checked == E!emitConditionalTrap(E!emitConditionalTrap(E!popped(c, 1), "index", <<E!top(c)>>), "signature", <<E!top(c), j>>)
            f == E!instr(E!popped(checked, n), E!Indexed("call_indirect", j), Append(E!operands(checked, n), E!top(c)), type.ret)
        IN  IF j < Len(Types) /\ E!canPop(c, n + 1) THEN {IF type.ret = "none" THEN f ELSE E!push(f, E!last(f, type.ret))} ELSE {}
  BY Zenon DEF E!visit, E!call_indirect, j, type
<1>5. Emits(E!visit(c, i), cs, bts, st, d, p, type.ret)
  <2> HIDE DEF p, n
  <2> SUFFICES ASSUME Typed(st, p), cs[Len(cs)].outerStackSize <= Len(st) - (n + 1)
               PROVE  \E z : E!visit(c, i) = {z} /\ Replaces(z, cs, bts, st, d, n + 1, type.ret)
    BY <1>3, Zenon DEF Emits
  <2> DEFINE value == st[Len(st)]
             o == Indexed("call_indirect", j)
             s1 == SubSeq(st, 1, Len(st) - 1)
             a1 == E!popped(c, 1)
             a2 == E!emitConditionalTrap(a1, "index", <<value>>)
             a3 == E!emitConditionalTrap(a2, "signature", <<value, j>>)
             a4 == E!popped(a3, n)
             s2 == SubSeq(s1, 1, Len(s1) - n)
             low == SubSeq(st, 1, Len(st) - (n + 1))
             ops == SubSeq(s1, Len(s1) - n + 1, Len(s1))
             args == Append(ops, value)
             f == E!instr(a4, o, args, type.ret)
  <2>0. Holds(c, cs, bts, st, d) /\ st \in Seq(Values) /\ Len(st) \in Nat /\ cs[Len(cs)].outerStackSize \in Nat
    <3>1. Holds(c, cs, bts, st, d) /\ st \in Seq(Values) /\ Len(st) \in Nat /\ cs[Len(cs)] \in Contexts
      BY HoldsTypes DEF Open
    <3>2. QED BY <3>1 DEF Contexts
  <2>1. cs[Len(cs)].outerStackSize <= Len(st) - 1 /\ n + 1 <= Len(st) /\ 1 <= Len(st)
    BY <2>0, <1>2
  <2>2. value \in Values /\ E!top(c) = value
    BY <2>0, <2>1, TopValue
  <2>3. Open(a1, cs, bts, s1, d)
    BY <2>1, StackHolds
  <2>4. s1 \in Seq(Values) /\ Len(s1) = Len(st) - 1 /\ \A k \in 1..(Len(st) - 1) : s1[k] = st[k]
    BY <2>0, <2>1, AllButLast
  <2> HIDE DEF s1, a1, value
  <2>5. <<value>> \in Seq(TermArgs) /\ <<value, j>> \in Seq(TermArgs)
    <3>1. value \in TermArgs /\ j \in TermArgs
      BY <2>2, <1>1 DEF TermArgs
    <3>2. QED BY <3>1, PairSeq
  <2>6. "index" \in Causes /\ "signature" \in Causes /\ "call_indirect" \in Ops
    BY DEF Causes, Ops
  <2>7. Open(a2, cs, bts, s1, d)
    <3> DEFINE q == <<value>>
    <3>1. q \in Seq(TermArgs)
      BY <2>5
    <3> HIDE DEF q
    <3>2. Open(E!emitConditionalTrap(a1, "index", q), cs, bts, s1, d)
      BY <3>1, <2>3, <2>6, TrapHolds
    <3>3. QED BY <3>2 DEF q
  <2> HIDE DEF a2
  <2>8. Open(a3, cs, bts, s1, d)
    <3> DEFINE q == <<value, j>>
    <3>1. q \in Seq(TermArgs)
      BY <2>5
    <3> HIDE DEF q
    <3>2. Open(E!emitConditionalTrap(a2, "signature", q), cs, bts, s1, d)
      BY <3>1, <2>6, <2>7, TrapHolds
    <3>3. QED BY <3>2 DEF q
  <2> HIDE DEF a3
  <2>9. Open(a4, cs, bts, s2, d)
    <3>1. cs[Len(cs)].outerStackSize <= Len(s1) - n
      BY <2>0, <2>4, <1>2
    <3>2. QED BY <3>1, <2>8, <1>2, StackHolds
  <2>10. s2 = low
    <3>1. Len(s1) - n = Len(st) - (n + 1) /\ n <= Len(s1)
      BY <2>0, <2>1, <2>4, <1>2, SMTT(30)
    <3>2. s2 \in Seq(Values) /\ Len(s2) = Len(s1) - n /\ \A k \in 1..(Len(s1) - n) : s2[k] = s1[k]
      BY <3>1, <2>4, <1>2, StackParts, ZenonT(30)
    <3>3. low \in Seq(Values) /\ Len(low) = Len(st) - (n + 1) /\ \A k \in 1..(Len(st) - (n + 1)) : low[k] = st[k]
      <4>1. n + 1 \in Nat /\ n + 1 <= Len(st)
        BY <2>1, <1>2
      <4>2. QED BY <4>1, <2>0, StackParts
    <3> HIDE DEF s2, low
    <3>4. \A k \in 1..Len(s2) : s2[k] = low[k]
      <4> TAKE k \in 1..Len(s2)
      <4>1. k \in 1..(Len(s1) - n) /\ k \in 1..(Len(st) - (n + 1)) /\ k \in 1..(Len(st) - 1)
        BY <3>1, <3>2, <2>0, <1>2
      <4>2. QED BY <4>1, <3>2, <3>3, <2>4
    <3>5. Len(s2) = Len(low)
      BY <3>1, <3>2, <3>3
    <3>6. QED BY <3>2, <3>3, <3>4, <3>5, SeqEqual
  <2>11. ops \in Seq(Values) /\ Len(ops) = n /\ \A k \in 1..n : ops[k] = s1[Len(s1) - n + k]
    <3>1. n <= Len(s1)
      BY <2>0, <2>1, <2>4, <1>2
    <3>2. QED BY <3>1, <2>4, <1>2, StackParts
  <2>12. E!operands(a3, n) = ops
    <3>1. a3.stack = s1
      BY <2>8, HoldsFields DEF Open
    <3>2. QED BY <3>1 DEF E!operands
  <2> HIDE DEF s2, low, ops, a4
  <2>13. /\ args \in Seq(Values) /\ Len(args) = n + 1
         /\ \A k \in 1..n : args[k] = ops[k]
         /\ args[n + 1] = value
    BY <2>2, <2>11, AppendProperties
  <2> HIDE DEF args
  <2>14. [k \in 1..Len(args) |-> args[k].type] = p
    <3>1. \A k \in 1..(n + 1) : args[k].type = p[k]
      <4> TAKE k \in 1..(n + 1)
      <4>1. st[Len(st) - (n + 1) + k].type = p[k]
        BY <1>3, Zenon DEF Typed
      <4>2. CASE k = n + 1
        <5>1. Len(st) - (n + 1) + k = Len(st)
          BY <4>2, <2>0, <1>2
        <5>2. QED BY <5>1, <4>1, <4>2, <2>13 DEF value
      <4>3. CASE k # n + 1
        <5>1. k \in 1..n /\ Len(s1) - n + k = Len(st) - (n + 1) + k /\ Len(s1) - n + k \in 1..(Len(st) - 1)
          BY <4>3, <2>0, <2>1, <2>4, <1>2
        <5>2. QED BY <5>1, <4>1, <2>4, <2>11, <2>13
      <4>4. QED BY <4>2, <4>3
    <3>2. p = [k \in 1..(n + 1) |-> p[k]]
      BY <1>3
    <3>3. QED BY <3>1, <3>2, <2>13
  <2>15. Fits(o, args, type.ret)
    <3>1. Takes("call_indirect", j, [k \in 1..Len(args) |-> args[k].type])
      <4>1. Takes("call_indirect", j, Append(Types[j + 1].params, "i32"))
        BY DEF Takes
      <4>2. QED BY <4>1, <2>14, Zenon DEF p, type
    <3>2. QED BY <3>1, <2>6, <2>13, <1>1, IndexedFits
  <2>16. o \in OpRecords
    BY <2>6, <1>1, IndexedRecord
  <2> HIDE DEF o
  <2>17. Open(f, cs, bts, low, d)
    <3>1. WellTyped([id |-> a4.next, op |-> o, args |-> args, type |-> type.ret])
      BY <2>15, Zenon DEF Fits
    <3>2. Open(a4, cs, bts, low, d)
      BY <2>9, <2>10
    <3>3. QED BY <3>1, <3>2, <2>13, <2>16, <1>2, InstrHolds
  <2>18. E!canPop(c, n + 1)
    <3>1. n + 1 \in Nat
      BY <1>2
    <3>2. QED BY <3>1, <2>0, CanPop
  <2>19. E!Indexed("call_indirect", j) = o
    BY SameOperators, Zenon DEF o
  <2>20. E!visit(c, i) = {IF type.ret = "none" THEN f ELSE E!push(f, E!last(f, type.ret))}
    BY <1>1, <1>4, <2>2, <2>12, <2>18, <2>19, Zenon DEF args, a4, a3, a2, a1
  <2> HIDE DEF f
  <2>21. Replaces(IF type.ret = "none" THEN f ELSE E!push(f, E!last(f, type.ret)), cs, bts, st, d, n + 1, type.ret)
    BY <1>2, <2>17, ResultPushed DEF low
  <2>22. QED BY <2>20, <2>21, Zenon
<1> HIDE DEF p
<1>6. QED BY <1>1, <1>2, <1>3, <1>5, FixedFollows DEF x

-----------------------------------------------------------------------------
(* Control structures that begin *)

(* A sequence with one more element. *)
LEMMA Appended ==
  ASSUME NEW S, NEW s \in Seq(S), NEW x \in S
  PROVE  /\ Append(s, x) \in Seq(S) /\ Len(s) \in Nat /\ Len(Append(s, x)) = Len(s) + 1 /\ Append(s, x) # <<>>
         /\ \A k \in 1..Len(s) : Append(s, x)[k] = s[k]
         /\ Append(s, x)[Len(s) + 1] = x
<1>1. /\ Append(s, x) \in Seq(S) /\ Len(s) \in Nat /\ Len(Append(s, x)) = Len(s) + 1
      /\ \A k \in 1..Len(s) : Append(s, x)[k] = s[k]
      /\ Append(s, x)[Len(s) + 1] = x
  BY AppendProperties, LenProperties
<1>2. Append(s, x) # <<>>
  BY <1>1, EmptySeq
<1>3. QED BY <1>1, <1>2

(* The emitter's invariant when a context is entered. *)
LEMMA Entered ==
  ASSUME NEW cs, NEW bts, NEW st, NEW bs, NEW ord, NEW ins, Emitting(cs, bts, st, bs, ord, ins),
         cs[Len(cs)].isReachable,
         NEW stack \in Seq(Values), cs[Len(cs)].outerStackSize <= Len(stack),
         NEW ds, NEW order, NEW to, NEW ctx, NEW tgt,
         Enters(bs, ins, ds, to, ctx, tgt, stack, Len(cs)), InOrder(order, Len(ds)), Headed(order)
  PROVE  Emitting(Append(cs, ctx), Append(bts, tgt), stack, ds, order, to)
<1> DEFINE k == Len(cs)
           cs2 == Append(cs, ctx)
           bts2 == Append(bts, tgt)
<1>0. /\ k \in Nat /\ k >= 1 /\ Len(bts) = k /\ Len(bs) \in Nat /\ Len(bs) >= 2 /\ Len(ds) \in Nat
      /\ ins \in 2..Len(bs) /\ Len(stack) \in Nat
      /\ \A j \in 1..k : cs[j] \in Contexts /\ bts[j] \in Targets
  BY EmittingTypes, LenProperties DEF Enters, Graph
<1>1. /\ cs \in Seq(Contexts) /\ bts \in Seq(Targets) /\ ctx \in Contexts /\ tgt \in Targets
      /\ Graph(ds) /\ ctx.isReachable
  BY DEF Emitting, Enters
<1>2. /\ cs2 \in Seq(Contexts) /\ Len(cs2) = k + 1 /\ cs2 # <<>> /\ cs2[k + 1] = ctx /\ \A j \in 1..k : cs2[j] = cs[j]
      /\ bts2 \in Seq(Targets) /\ Len(bts2) = k + 1 /\ bts2[k + 1] = tgt /\ \A j \in 1..k : bts2[j] = bts[j]
  BY <1>0, <1>1, Appended
<1>3. /\ Len(bs) <= Len(ds)
      /\ \A b \in 1..Len(bs) : b \in 1..Len(ds) /\ ds[b].phi = bs[b].phi
      /\ \A b \in 1..Len(bs) : b # ins => ds[b].terms = bs[b].terms
      /\ to \in 1..Len(ds) /\ ds[to].terms = <<>> /\ (to = ins \/ to > Len(bs)) /\ to # ctx.endBlock /\ to # ctx.elseBlock
      /\ \A b \in 1..Len(ds) : (b = ins \/ b > Len(bs)) /\ b # to /\ b # ctx.endBlock /\ b # ctx.elseBlock => ds[b].terms # <<>>
  BY <1>0 DEF Enters
<1>4. /\ \A j \in 1..k : ins # cs[j].endBlock /\ ins # cs[j].elseBlock
      /\ bs[ins].terms = <<>>
  BY DEF Emitting, Cursor
<1> HIDE DEF cs2, bts2
<1>5. \A j \in 1..(k + 1) : j \in 1..k \/ j = k + 1
  BY <1>0
<1>6. ASSUME NEW j \in 1..k
      PROVE  /\ cs[j].endBlock \in 1..Len(bs) /\ bs[cs[j].endBlock].terms = <<>> /\ bs[cs[j].endBlock].phi = cs[j].resultType
             /\ IF j = 1 THEN cs[j].endBlock = 1 ELSE cs[j].endBlock > 2
             /\ IF cs[j].type = "ifThen"
                THEN /\ cs[j].elseBlock \in 3..Len(bs) /\ bs[cs[j].elseBlock].terms = <<>> /\ bs[cs[j].elseBlock].phi = "none"
                ELSE cs[j].elseBlock = 0
             /\ cs[j].elseBlock \in Nat /\ cs[j].elseBlock <= Len(bs)
             /\ bts[j].block \in 1..Len(bs) /\ bs[bts[j].block].phi = bts[j].argumentType
  <2>1. /\ cs[j].endBlock \in 1..Len(bs) /\ bs[cs[j].endBlock].terms = <<>> /\ bs[cs[j].endBlock].phi = cs[j].resultType
        /\ IF j = 1 THEN cs[j].endBlock = 1 ELSE cs[j].endBlock > 2
        /\ IF cs[j].type = "ifThen"
           THEN /\ cs[j].elseBlock \in 3..Len(bs) /\ bs[cs[j].elseBlock].terms = <<>> /\ bs[cs[j].elseBlock].phi = "none"
           ELSE cs[j].elseBlock = 0
    BY DEF Emitting, Ports
  <2>2. cs[j].elseBlock \in Nat /\ cs[j].elseBlock <= Len(bs)
    BY <2>1, <1>0
  <2>3. bts[j].block \in 1..Len(bs) /\ bs[bts[j].block].phi = bts[j].argumentType
    BY DEF Emitting, Aimed
  <2>4. QED BY <2>1, <2>2, <2>3
<1>7. /\ ctx.endBlock \in (Len(bs) + 1)..Len(ds) /\ ds[ctx.endBlock].terms = <<>> /\ ds[ctx.endBlock].phi = ctx.resultType
      /\ IF ctx.type = "ifThen"
         THEN /\ ctx.elseBlock \in (Len(bs) + 1)..Len(ds) /\ ds[ctx.elseBlock].terms = <<>> /\ ds[ctx.elseBlock].phi = "none"
              /\ ctx.elseBlock # ctx.endBlock
         ELSE ctx.elseBlock = 0
      /\ tgt.block \in 1..Len(ds) /\ ds[tgt.block].phi = tgt.argumentType
      /\ ctx.outerStackSize = Len(stack) /\ ctx.outerBranchTargetStackSize = k
  BY DEF Enters
<1>8. Ports(cs2, ds)
  <2> SUFFICES ASSUME NEW j \in 1..(k + 1)
        PROVE  /\ cs2[j].endBlock \in 1..Len(ds) /\ ds[cs2[j].endBlock].terms = <<>> /\ ds[cs2[j].endBlock].phi = cs2[j].resultType
               /\ IF j = 1 THEN cs2[j].endBlock = 1 ELSE cs2[j].endBlock > 2
               /\ IF cs2[j].type = "ifThen"
                  THEN /\ cs2[j].elseBlock \in 3..Len(ds) /\ ds[cs2[j].elseBlock].terms = <<>> /\ ds[cs2[j].elseBlock].phi = "none"
                  ELSE cs2[j].elseBlock = 0
    BY <1>2, Zenon DEF Ports
  <2>1. CASE j \in 1..k
    <3>0. cs2[j] = cs[j]
      BY <1>2, <2>1
    <3>1. cs[j].endBlock \in 1..Len(ds) /\ ds[cs[j].endBlock].terms = <<>> /\ ds[cs[j].endBlock].phi = cs[j].resultType
      BY <1>3, <1>4, <1>6, <2>1
    <3>2. IF j = 1 THEN cs[j].endBlock = 1 ELSE cs[j].endBlock > 2
      BY <1>6, <2>1
    <3>3. CASE cs[j].type = "ifThen"
      <4>1. cs[j].elseBlock \in 1..Len(bs) /\ cs[j].elseBlock # ins /\ cs[j].elseBlock \in 3..Len(ds)
        BY <1>0, <1>3, <1>4, <1>6, <2>1, <3>3
      <4>2. ds[cs[j].elseBlock].terms = <<>> /\ ds[cs[j].elseBlock].phi = "none"
        BY <4>1, <1>3, <1>6, <2>1, <3>3
      <4>3. QED BY <3>0, <3>1, <3>2, <3>3, <4>1, <4>2, Zenon
    <3>4. CASE cs[j].type # "ifThen"
      <4>1. cs[j].elseBlock = 0
        BY <1>6, <2>1, <3>4
      <4>2. QED BY <4>1, <3>0, <3>1, <3>2, <3>4, Zenon
    <3>5. QED BY <3>3, <3>4
  <2>2. CASE j = k + 1
    <3>0. cs2[j] = ctx /\ j # 1
      BY <1>0, <1>2, <2>2
    <3>1. ctx.endBlock \in 1..Len(ds) /\ ctx.endBlock > 2 /\ (ctx.type = "ifThen" => ctx.elseBlock \in 3..Len(ds))
      BY <1>0, <1>7
    <3>2. QED BY <3>0, <3>1, <1>7, Zenon
  <2>3. QED BY <2>1, <2>2, <1>5
<1>9. Distinct(cs2, bts2)
  <2>0. /\ \A j \in 1..k : cs[j].endBlock \in Nat /\ cs[j].endBlock <= Len(bs) /\ cs[j].endBlock >= 1
                           /\ cs[j].elseBlock \in Nat /\ cs[j].elseBlock <= Len(bs) /\ bts[j].block \in Nat /\ bts[j].block <= Len(bs)
        /\ ctx.endBlock \in Nat /\ ctx.endBlock > Len(bs) /\ (ctx.elseBlock = 0 \/ ctx.elseBlock > Len(bs)) /\ ctx.elseBlock \in Nat
        /\ ctx.elseBlock # ctx.endBlock
    BY <1>0, <1>6, <1>7, SMTT(30)
  <2> SUFFICES ASSUME NEW j \in 1..(k + 1), NEW l \in 1..(k + 1)
        PROVE  /\ cs2[j].elseBlock # cs2[l].endBlock
               /\ j < l => /\ cs2[j].endBlock # cs2[l].endBlock
                           /\ bts2[j].block # cs2[l].endBlock
                           /\ cs2[j].elseBlock # 0 => cs2[j].elseBlock # cs2[l].elseBlock
    BY <1>2, Zenon DEF Distinct
  <2>1. CASE j \in 1..k /\ l \in 1..k
    <3>1. cs2[j] = cs[j] /\ cs2[l] = cs[l] /\ bts2[j] = bts[j]
      BY <1>2, <2>1
    <3>2. /\ cs[j].elseBlock # cs[l].endBlock
          /\ j < l => /\ cs[j].endBlock # cs[l].endBlock
                      /\ bts[j].block # cs[l].endBlock
                      /\ cs[j].elseBlock # 0 => cs[j].elseBlock # cs[l].elseBlock
      BY <2>1, Zenon DEF Emitting, Distinct
    <3>3. QED BY <3>1, <3>2, Zenon
  <2>2. CASE j \in 1..k /\ l = k + 1
    <3>1. cs2[j] = cs[j] /\ cs2[l] = ctx /\ bts2[j] = bts[j]
      BY <1>2, <2>2
    <3>2. QED BY <3>1, <2>0, <2>2, <1>0
  <2>3. CASE j = k + 1 /\ l \in 1..k
    <3>1. cs2[j] = ctx /\ cs2[l] = cs[l] /\ ~(j < l)
      BY <1>0, <1>2, <2>3
    <3>2. QED BY <3>1, <2>0, <2>3, <1>0
  <2>4. CASE j = k + 1 /\ l = k + 1
    <3>1. cs2[j] = ctx /\ cs2[l] = ctx /\ ~(j < l)
      BY <1>0, <1>2, <2>4
    <3>2. QED BY <3>1, <2>0
  <2>5. QED BY <2>1, <2>2, <2>3, <2>4, <1>5
<1>10. Aimed(cs2, bts2, ds)
  <2>1. ASSUME NEW j \in 1..(k + 1) PROVE bts2[j].block \in 1..Len(ds) /\ ds[bts2[j].block].phi = bts2[j].argumentType
    <3>1. CASE j \in 1..k
      <4>1. bts2[j] = bts[j] /\ bts[j].block \in 1..Len(bs) /\ bs[bts[j].block].phi = bts[j].argumentType
        BY <1>2, <1>6, <3>1
      <4>2. QED BY <4>1, <1>3
    <3>2. CASE j = k + 1
      BY <1>2, <1>7, <3>2
    <3>3. QED BY <3>1, <3>2, <1>5
  <2>2. QED BY <2>1, <1>2 DEF Aimed
<1>11. Cursor(cs2, ds, to)
  <2>1. to \in 2..Len(ds)
    BY <1>0, <1>3
  <2>2. ASSUME NEW j \in 1..(k + 1) PROVE to # cs2[j].endBlock /\ to # cs2[j].elseBlock
    <3>1. CASE j \in 1..k
      <4>1. cs2[j] = cs[j] /\ cs[j].endBlock \in 1..Len(bs) /\ cs[j].elseBlock \in Nat /\ cs[j].elseBlock <= Len(bs)
        BY <1>2, <1>6, <3>1
      <4>2. QED BY <4>1, <1>0, <1>3, <1>4, <3>1
    <3>2. CASE j = k + 1
      BY <1>2, <1>3, <3>2
    <3>3. QED BY <3>1, <3>2, <1>5
  <2>3. cs2[Len(cs2)].isReachable
    BY <1>1, <1>2
  <2>4. QED BY <2>1, <2>2, <2>3, <1>2, <1>3, Zenon DEF Cursor
<1>12. Waited(cs2, ds, to)
  <2> SUFFICES ASSUME NEW b \in 1..Len(ds), ds[b].terms = <<>>, b # to
        PROVE  \E j \in 1..Len(cs2) : b = cs2[j].endBlock \/ b = cs2[j].elseBlock
    BY Zenon DEF Waited
  <2>0. k + 1 \in 1..Len(cs2) /\ \A j \in 1..k : j \in 1..Len(cs2)
    BY <1>0, <1>2
  <2>1. CASE b = ctx.endBlock \/ b = ctx.elseBlock
    BY <2>0, <2>1, <1>2
  <2>2. CASE b # ctx.endBlock /\ b # ctx.elseBlock
    <3>1. b # ins /\ b \in 1..Len(bs)
      BY <1>0, <1>3, <2>2
    <3>2. bs[b].terms = <<>>
      BY <3>1, <1>3
    <3>3. PICK j \in 1..k : b = cs[j].endBlock \/ b = cs[j].elseBlock
      BY <3>1, <3>2, Zenon DEF Emitting, Waited
    <3>4. cs2[j] = cs[j] /\ j \in 1..Len(cs2)
      BY <2>0, <1>2
    <3>5. QED BY <3>3, <3>4, Zenon
  <2>3. QED BY <2>1, <2>2
<1>13. Heights(cs2, stack)
  <2>0. Heights(cs, st)
    BY DEF Emitting
  <2>1. ASSUME NEW j \in 1..k
        PROVE  /\ cs[j].outerStackSize \in Nat /\ cs[j].outerStackSize <= Len(stack)
               /\ cs[j].outerBranchTargetStackSize = j - 1 /\ cs[j].isReachable
    <3>1. cs[j].outerStackSize \in Nat /\ cs[k].outerStackSize \in Nat
      BY <1>0 DEF Contexts
    <3>2. cs[j].outerStackSize <= cs[k].outerStackSize
      BY <1>0, <2>0, <3>1 DEF Heights
    <3>3. cs[j].outerBranchTargetStackSize = j - 1 /\ cs[j].isReachable
      BY <1>0, <2>0 DEF Heights
    <3>4. QED BY <3>1, <3>2, <3>3, <1>0
  <2>2. ASSUME NEW j \in 1..(k + 1)
        PROVE  /\ cs2[j].outerStackSize <= Len(stack) /\ cs2[j].outerBranchTargetStackSize = j - 1
               /\ j < k + 1 => cs2[j].isReachable
    <3>1. CASE j \in 1..k
      BY <1>2, <2>1, <3>1
    <3>2. CASE j = k + 1
      BY <1>0, <1>2, <1>7, <3>2
    <3>3. QED BY <3>1, <3>2, <1>5
  <2>3. ASSUME NEW j \in 1..(k + 1), NEW l \in 1..(k + 1), j < l
        PROVE  cs2[j].outerStackSize <= cs2[l].outerStackSize
    <3>0. j \in 1..k /\ cs2[j] = cs[j]
      BY <1>0, <1>2, <2>3
    <3>1. CASE l \in 1..k
      <4>1. cs2[l] = cs[l]
        BY <1>2, <3>1
      <4>2. cs[j].outerStackSize <= cs[l].outerStackSize
        BY <2>0, <2>3, <3>0, <3>1 DEF Heights
      <4>3. QED BY <3>0, <4>1, <4>2
    <3>2. CASE l = k + 1
      BY <1>2, <1>7, <2>1, <3>0, <3>2
    <3>3. QED BY <3>1, <3>2, <1>5
  <2>4. QED BY <2>2, <2>3, <1>2, Zenon DEF Heights
<1>14. cs2[1].resultType = body.ret
  BY <1>0, <1>2 DEF Emitting
<1>15. QED BY <1>1, <1>2, <1>8, <1>9, <1>10, <1>11, <1>12, <1>13, <1>14, Zenon DEF Emitting, cs2, bts2

(* The validator and the emitter enter the same context. *)
LEMMA AgreePush ==
  ASSUME NEW vcs, NEW vst, NEW c, NEW cs, NEW bts, NEW st, NEW d,
         Open(c, cs, bts, st, d), Agree(vcs, vst, cs, bts, st, d),
         NEW y \in VContexts, NEW x \in Contexts, NEW t \in Targets, Same(y, x, t),
         x.isReachable, y.outerStackSize = Len(st)
  PROVE  Agree(Append(vcs, y), vst, Append(cs, x), Append(bts, t), st, d)
<1> DEFINE k == Len(cs)
           vcs2 == Append(vcs, y)
           cs2 == Append(cs, x)
           bts2 == Append(bts, t)
<1>0. Holds(c, cs, bts, st, d) /\ cs[Len(cs)].isReachable
  BY DEF Open
<1>1. /\ vcs \in Seq(VContexts) /\ vst \in Seq(OperandType) /\ Len(vst) \in Nat /\ k \in Nat /\ k >= 1 /\ Len(vcs) = k
      /\ d = 0 /\ Len(vst) = Len(st) /\ Rising(vcs, vst) /\ Matching(vst, st)
  BY <1>0, AgreeTypes
<1>2. cs \in Seq(Contexts) /\ bts \in Seq(Targets) /\ Len(bts) = k
  BY <1>0, HoldsTypes
<1>3. /\ vcs2 \in Seq(VContexts) /\ Len(vcs2) = k + 1 /\ vcs2[k + 1] = y /\ \A j \in 1..k : vcs2[j] = vcs[j]
      /\ Len(cs2) = k + 1 /\ cs2[k + 1] = x /\ \A j \in 1..k : cs2[j] = cs[j]
      /\ bts2[k + 1] = t /\ \A j \in 1..k : bts2[j] = bts[j]
  BY <1>1, <1>2, Appended
<1> HIDE DEF vcs2, cs2, bts2
<1>4. \A j \in 1..(k + 1) : j \in 1..k \/ j = k + 1
  BY <1>1
<1>5. \A j \in 1..Len(cs2) : Same(vcs2[j], cs2[j], bts2[j])
  <2>1. \A j \in 1..k : Same(vcs[j], cs[j], bts[j])
    BY DEF Agree
  <2>2. QED BY <1>3, <1>4, <2>1
<1>6. Rising(vcs2, vst)
  <2>1. \A j \in 1..k : vcs[j].outerStackSize <= Len(vst)
    BY <1>1 DEF Rising
  <2>2. \A j, l \in 1..k : j < l => vcs[j].outerStackSize <= vcs[l].outerStackSize
    BY <1>1 DEF Rising
  <2>3. ASSUME NEW j \in 1..(k + 1) PROVE vcs2[j].outerStackSize <= Len(vst)
    BY <1>1, <1>3, <1>4, <2>1
  <2>4. ASSUME NEW j \in 1..(k + 1), NEW l \in 1..(k + 1), j < l PROVE vcs2[j].outerStackSize <= vcs2[l].outerStackSize
    <3>1. j \in 1..k /\ vcs2[j] = vcs[j]
      BY <1>1, <1>3, <2>4
    <3>2. CASE l \in 1..k
      BY <1>3, <2>2, <2>4, <3>1, <3>2
    <3>3. CASE l = k + 1
      BY <1>1, <1>3, <2>1, <3>1, <3>3
    <3>4. QED BY <1>4, <3>2, <3>3
  <2>5. QED BY <1>3, <2>3, <2>4 DEF Rising
<1>7. cs2[Len(cs2)].isReachable
  BY <1>3
<1>8. Len(vcs2) = Len(cs2) + d /\ d \in Nat /\ ~(d > 0)
  BY <1>1, <1>3
<1>9. Agree(vcs2, vst, cs2, bts2, st, d)
  BY <1>1, <1>3, <1>5, <1>6, <1>7, <1>8, Zenon DEF Agree
<1>10. QED BY <1>9 DEF vcs2, cs2, bts2

(* A context that begins is entered. *)
LEMMA BeginsEnters ==
  ASSUME NEW type, NEW t, NEW argument, NEW endBlock, NEW elseBlock, NEW b, NEW st, Len(st) \in Nat, NEW bts, Len(bts) \in Nat,
         NEW bs, NEW ins, NEW ds, NEW to, Begins(bs, ins, ds, to, type, t, endBlock, elseBlock, argument, b)
  PROVE  Enters(bs, ins, ds, to, Context(type, t, endBlock, elseBlock, st, bts), Target(argument, b), st, Len(bts))
<1> DEFINE x == Context(type, t, endBlock, elseBlock, st, bts)
           z == Target(argument, b)
<1>1. /\ type \in {"function", "block", "loop", "ifThen", "ifElse"} /\ t \in ResultType /\ argument \in ResultType
      /\ endBlock \in Nat /\ elseBlock \in Nat /\ b \in Nat
  BY DEF BeginTypes, Begins
<1>2. /\ x \in Contexts /\ x.type = type /\ x.resultType = t /\ x.endBlock = endBlock /\ x.elseBlock = elseBlock
      /\ x.outerStackSize = Len(st) /\ x.outerBranchTargetStackSize = Len(bts) /\ x.isReachable = TRUE
      /\ z \in Targets /\ z.block = b /\ z.argumentType = argument
  BY <1>1 DEF Context, Target, Contexts, Targets
<1> HIDE DEF x, z
<1>3. Enters(bs, ins, ds, to, x, z, st, Len(bts))
  BY <1>2, Zenon DEF Enters, Begins
<1>4. QED BY <1>3 DEF x, z

(* A context begins. *)
LEMMA Begun ==
  ASSUME NEW vcs, NEW vst, NEW cs, NEW bts, NEW st, NEW d, NEW bs, NEW ord, NEW ins, NEW nx \in Nat,
         Emitting(cs, bts, st, bs, ord, ins), cs[Len(cs)].isReachable, Agree(vcs, vst, cs, bts, st, d),
         NEW type, NEW t, NEW argument, NEW endBlock, NEW elseBlock, NEW b,
         NEW ds, NEW to, NEW m \in Nat, Len(ds) = Len(bs) + m,
         Begins(bs, ins, ds, to, type, t, endBlock, elseBlock, argument, b)
  PROVE  Live(VCtx(Append(vcs, VContext(type, argument, t, vst)), vst),
              Ctx(Append(cs, Context(type, t, endBlock, elseBlock, st, bts)), Append(bts, Target(argument, b)), st, d,
                  ds, ord \o Numbers(Len(bs), m), to, nx))
<1> DEFINE x == Context(type, t, endBlock, elseBlock, st, bts)
           y == VContext(type, argument, t, vst)
           z == Target(argument, b)
           order == ord \o Numbers(Len(bs), m)
           c == Ctx(cs, bts, st, d, bs, ord, ins, nx)
<1>0. Holds(c, cs, bts, st, d) /\ Open(c, cs, bts, st, d)
  BY Zenon DEF Open, Holds
<1> HIDE DEF c
<1>1. /\ Len(cs) \in Nat /\ Len(cs) >= 1 /\ Len(bts) = Len(cs) /\ Len(st) \in Nat /\ st \in Seq(Values)
      /\ Len(vst) = Len(st) /\ cs[Len(cs)].outerStackSize <= Len(st)
  BY <1>0, HoldsTypes, AgreeTypes
<1>2. Enters(bs, ins, ds, to, x, z, st, Len(bts))
  BY <1>1, BeginsEnters
<1>3. /\ x \in Contexts /\ x.isReachable = TRUE /\ y \in VContexts /\ y.outerStackSize = Len(st) /\ Same(y, x, z) /\ z \in Targets
  <2>1. Len(bts) \in Nat /\ Len(st) \in Nat /\ Len(vst) = Len(st)
    BY <1>1
  <2>2. /\ type \in {"function", "block", "loop", "ifThen", "ifElse"} /\ t \in ResultType /\ argument \in ResultType
        /\ endBlock \in Nat /\ elseBlock \in Nat /\ b \in Nat
    BY DEF BeginTypes, Begins
  <2>3. QED BY <2>1, <2>2 DEF Context, VContext, Target, Contexts, VContexts, Targets, Same
<1> HIDE DEF x, y, z
<1>4. Len(bs) \in Nat /\ Len(bs) >= 1 /\ InOrder(ord, Len(bs)) /\ Headed(ord)
  BY EmittingTypes DEF Emitting
<1>5. InOrder(order, Len(bs) + m) /\ Headed(order)
  BY <1>4, FreshInOrder
<1> HIDE DEF order
<1>6. InOrder(order, Len(ds))
  BY <1>5, Zenon
<1>7. Enters(bs, ins, ds, to, x, z, st, Len(cs))
  BY <1>1, <1>2
<1>8. Emitting(Append(cs, x), Append(bts, z), st, ds, order, to)
  BY <1>1, <1>5, <1>6, <1>7, Entered
<1>9. Holds(Ctx(Append(cs, x), Append(bts, z), st, d, ds, order, to, nx), Append(cs, x), Append(bts, z), st, d)
  BY <1>8, Zenon DEF Holds
<1>10. Agree(Append(vcs, y), vst, Append(cs, x), Append(bts, z), st, d)
  BY <1>0, <1>3, AgreePush
<1>11. Live(VCtx(Append(vcs, y), vst), Ctx(Append(cs, x), Append(bts, z), st, d, ds, order, to, nx))
  BY <1>9, <1>10, LiveFrom
<1>12. QED BY <1>11 DEF x, y, z, order

(* The blocks of block. *)
LEMMA BlockBegins ==
  ASSUME NEW bs, Graph(bs), NEW ins \in 1..Len(bs), bs[ins].terms = <<>>, NEW t \in ResultType
  PROVE  LET ds == bs \o Fresh(<<t>>) IN
         /\ Begins(bs, ins, ds, ins, "block", t, Len(bs) + 1, 0, t, Len(bs) + 1)
         /\ Len(ds) = Len(bs) + 1
<1> DEFINE n == Len(bs)
           phis == <<t>>
           ds == bs \o Fresh(phis)
           s1 == n + 1
<1>1. phis \in Seq(ResultType) /\ Len(phis) = 1 /\ phis[1] = t
  BY PairSeq
<1> HIDE DEF phis
<1>2. /\ Graph(ds) /\ n \in Nat /\ Len(ds) = n + 1
      /\ \A b \in 1..n : ds[b].phi = bs[b].phi /\ ds[b].terms = bs[b].terms
      /\ \A k \in 1..1 : ds[n + k].phi = phis[k] /\ ds[n + k].terms = <<>>
  <2>1. Created(bs, phis, ds)
    BY <1>1, FreshBlocks
  <2>2. QED BY <2>1, <1>1 DEF Created
<1> HIDE DEF ds, n
<1>3. ds[s1].phi = t /\ ds[s1].terms = <<>> /\ s1 \in (n + 1)..Len(ds) /\ s1 # ins /\ s1 # 0 /\ ins # 0 /\ ins \in 1..Len(ds) /\ n <= Len(ds)
  BY <1>1, <1>2 DEF n
<1>4. ASSUME NEW a \in 1..Len(ds), a > n PROVE a = s1
  BY <1>2, <1>4
<1>5. ins \in 1..n /\ bs[ins].terms = <<>>
  BY DEF n
<1> HIDE DEF s1
<1>6. Begins(bs, ins, ds, ins, "block", t, s1, 0, t, s1)
  <2>1. s1 \in 1..Len(ds) /\ ds[ins].terms = <<>> /\ s1 \in Nat /\ 0 \in Nat /\ "block" \in BeginTypes
    BY <1>2, <1>3, <1>5 DEF BeginTypes
  <2>2. QED BY <1>2, <1>3, <1>4, <2>1, Zenon DEF Begins, n
<1>7. QED BY <1>2, <1>6 DEF s1, ds, n, phis

(* An unconditional branch. *)
LEMMA BranchTerm ==
  ASSUME NEW to \in Seq(Nat)
  PROVE  Term("br", <<>>, to) \in Terms /\ Term("br", <<>>, to).to = to /\ TypedTerm(Term("br", <<>>, to))
<1> DEFINE no == <<>>
<1>1. no \in Seq(TermArgs)
  BY EmptySeq
<1> HIDE DEF no
<1>2. Term("br", no, to) \in Terms /\ Term("br", no, to).to = to /\ TypedTerm(Term("br", no, to))
  BY <1>1, TermFields DEF TermOps
<1>3. QED BY <1>2, Zenon DEF no

(* The blocks of loop. *)
LEMMA LoopBegins ==
  ASSUME NEW bs, Graph(bs), NEW ins \in 1..Len(bs), bs[ins].terms = <<>>, NEW t \in ResultType
  PROVE  LET n  == Len(bs)
             ds == Ended(bs \o Fresh(<<"none", t>>), ins, Term("br", <<>>, <<n + 1>>))
         IN  /\ Begins(bs, ins, ds, n + 1, "loop", t, n + 2, 0, "none", n + 1)
             /\ Len(ds) = n + 2
<1> DEFINE n == Len(bs)
           phis == <<"none", t>>
           fs == bs \o Fresh(phis)
           s1 == n + 1
           s2 == n + 2
           to == <<s1>>
           x == Term("br", <<>>, to)
           ds == Ended(fs, ins, x)
<1>0. "none" \in ResultType
  BY DEF ResultType
<1>1. phis \in Seq(ResultType) /\ Len(phis) = 2 /\ phis[1] = "none" /\ phis[2] = t
  BY <1>0, PairSeq
<1> HIDE DEF phis
<1>2. /\ Graph(fs) /\ n \in Nat /\ Len(fs) = n + 2
      /\ \A b \in 1..n : fs[b].phi = bs[b].phi /\ fs[b].terms = bs[b].terms
      /\ \A k \in 1..2 : fs[n + k].phi = phis[k] /\ fs[n + k].terms = <<>>
  <2>1. Created(bs, phis, fs)
    BY <1>1, FreshBlocks
  <2>2. QED BY <2>1, <1>1 DEF Created
<1> HIDE DEF fs
<1>a. ins \in 1..n /\ bs[ins].terms = <<>>
  OBVIOUS
<1> HIDE DEF n
<1>3. /\ fs[s1].phi = "none" /\ fs[s1].terms = <<>> /\ fs[s2].phi = t /\ fs[s2].terms = <<>>
  BY <1>1, <1>2
<1>4. /\ s1 \in (n + 1)..Len(fs) /\ s2 \in (n + 1)..Len(fs) /\ s1 # s2 /\ ins # s1 /\ ins # s2 /\ s1 # 0 /\ s1 > n
      /\ ins \in 1..Len(fs) /\ s1 \in 1..Len(fs) /\ n <= Len(fs) /\ s1 \in Nat
  BY <1>2, <1>a
<1>5. \A a \in 1..Len(fs) : a > n => a = s1 \/ a = s2
  BY <1>2
<1> HIDE DEF s1, s2
<1>6. to \in Seq(Nat) /\ Len(to) = 1 /\ to[1] = s1
  BY <1>4
<1> HIDE DEF to
<1>7. x \in Terms /\ x.to = to /\ TypedTerm(x)
  BY <1>6, BranchTerm
<1> HIDE DEF x
<1>8. Plain(fs, x.to)
  <2>1. \A k \in 1..Len(to) : to[k] \in 1..Len(fs) /\ fs[to[k]].phi = "none"
    BY <1>3, <1>4, <1>6
  <2>2. QED BY <2>1, <1>7, Zenon DEF Plain
<1>9. fs[ins].terms = <<>>
  BY <1>2, <1>a
<1>10. /\ Graph(ds) /\ Len(ds) = Len(fs)
       /\ \A b \in 1..Len(fs) : ds[b].phi = fs[b].phi /\ (b # ins => ds[b].terms = fs[b].terms)
       /\ ds[ins].terms # <<>>
  BY <1>2, <1>4, <1>7, <1>8, <1>9, EndedOnce
<1> HIDE DEF ds
<1>11. Begins(bs, ins, ds, s1, "loop", t, s2, 0, "none", s1)
  <2>1. \A a \in 1..n : a \in 1..Len(fs)
    BY <1>2
  <2>2. \A a \in 1..n : ds[a].phi = bs[a].phi /\ (a # ins => ds[a].terms = bs[a].terms)
    BY <1>2, <1>10, <2>1
  <2>3. \A a \in 1..Len(ds) : (a = ins \/ a > n) /\ a # s1 /\ a # s2 => ds[a].terms # <<>>
    BY <1>5, <1>10
  <2>4. s2 \in 1..Len(fs) /\ s2 \in Nat /\ 0 \in Nat /\ "loop" \in BeginTypes
    BY <1>2, <1>4 DEF BeginTypes
  <2>5. QED BY <1>0, <1>3, <1>4, <1>10, <2>2, <2>3, <2>4, Zenon DEF Begins, n
<1>12. Begins(bs, ins, ds, s1, "loop", t, s2, 0, "none", s1) /\ Len(ds) = s2
  BY <1>2, <1>10, <1>11 DEF s2
<1>13. QED BY <1>12 DEF s1, s2, ds, x, to, fs, phis, n

(* A sequence of three. *)
LEMMA TripleSeq ==
  ASSUME NEW S, NEW a \in S, NEW b \in S, NEW c \in S
  PROVE  <<a, b, c>> \in Seq(S) /\ Len(<<a, b, c>>) = 3 /\ <<a, b, c>>[1] = a /\ <<a, b, c>>[2] = b /\ <<a, b, c>>[3] = c
OBVIOUS

(* A test of the i32 on top of the stack. *)
LEMMA TestTerm ==
  ASSUME NEW x \in Values, x.type = "i32", NEW op \in {"condbr", "switch"}, NEW to \in Seq(Nat)
  PROVE  Term(op, <<x>>, to) \in Terms /\ Term(op, <<x>>, to).to = to /\ TypedTerm(Term(op, <<x>>, to))
<1> DEFINE args == <<x>>
<1>1. args \in Seq(TermArgs) /\ args[1] = x
  BY DEF TermArgs
<1> HIDE DEF args
<1>2. op \in TermOps
  BY DEF TermOps
<1>3. /\ Term(op, args, to) \in Terms
      /\ Term(op, args, to).op = op /\ Term(op, args, to).args = args /\ Term(op, args, to).to = to
  BY <1>1, <1>2, TermFields
<1>4. TypedTerm(Term(op, args, to))
  BY <1>1, <1>3 DEF TypedTerm
<1>5. QED BY <1>3, <1>4 DEF args

(* The blocks of if. *)
LEMMA IfBegins ==
  ASSUME NEW bs, Graph(bs), NEW ins \in 1..Len(bs), bs[ins].terms = <<>>, NEW t \in ResultType,
         NEW test \in Values, test.type = "i32"
  PROVE  LET n  == Len(bs)
             ds == Ended(bs \o Fresh(<<"none", "none", t>>), ins, Term("condbr", <<test>>, <<n + 1, n + 2>>))
         IN  /\ Begins(bs, ins, ds, n + 1, "ifThen", t, n + 3, n + 2, t, n + 3)
             /\ Len(ds) = n + 3
<1> DEFINE n == Len(bs)
           phis == <<"none", "none", t>>
           fs == bs \o Fresh(phis)
           s1 == n + 1
           s2 == n + 2
           s3 == n + 3
           to == <<s1, s2>>
           x == Term("condbr", <<test>>, to)
           ds == Ended(fs, ins, x)
<1>0. "none" \in ResultType
  BY DEF ResultType
<1>1. phis \in Seq(ResultType) /\ Len(phis) = 3 /\ phis[1] = "none" /\ phis[2] = "none" /\ phis[3] = t
  BY <1>0, TripleSeq
<1> HIDE DEF phis
<1>2. /\ Graph(fs) /\ n \in Nat /\ Len(fs) = n + 3
      /\ \A b \in 1..n : fs[b].phi = bs[b].phi /\ fs[b].terms = bs[b].terms
      /\ \A k \in 1..3 : fs[n + k].phi = phis[k] /\ fs[n + k].terms = <<>>
  <2>1. Created(bs, phis, fs)
    BY <1>1, FreshBlocks
  <2>2. QED BY <2>1, <1>1 DEF Created
<1> HIDE DEF fs
<1>a. ins \in 1..n /\ bs[ins].terms = <<>>
  OBVIOUS
<1> HIDE DEF n
<1>3. /\ fs[s1].phi = "none" /\ fs[s1].terms = <<>> /\ fs[s2].phi = "none" /\ fs[s2].terms = <<>>
      /\ fs[s3].phi = t /\ fs[s3].terms = <<>>
  BY <1>1, <1>2
<1>4. /\ s1 \in (n + 1)..Len(fs) /\ s2 \in (n + 1)..Len(fs) /\ s3 \in (n + 1)..Len(fs)
      /\ s1 # s2 /\ s1 # s3 /\ s2 # s3 /\ ins # s1 /\ ins # s2 /\ ins # s3 /\ s1 > n
      /\ ins \in 1..Len(fs) /\ s1 \in 1..Len(fs) /\ s2 \in 1..Len(fs) /\ s3 \in 1..Len(fs) /\ n <= Len(fs) /\ s1 \in Nat /\ s2 \in Nat
  BY <1>2, <1>a
<1>5. \A a \in 1..Len(fs) : a > n => a = s1 \/ a = s2 \/ a = s3
  BY <1>2
<1> HIDE DEF s1, s2, s3
<1>6. to \in Seq(Nat) /\ Len(to) = 2 /\ to[1] = s1 /\ to[2] = s2
  BY <1>4
<1> HIDE DEF to
<1>7. x \in Terms /\ x.to = to /\ TypedTerm(x)
  BY <1>6, TestTerm
<1> HIDE DEF x
<1>8. Plain(fs, x.to)
  <2>1. \A k \in 1..Len(to) : to[k] \in 1..Len(fs) /\ fs[to[k]].phi = "none"
    BY <1>3, <1>4, <1>6
  <2>2. QED BY <2>1, <1>7, Zenon DEF Plain
<1>9. fs[ins].terms = <<>>
  BY <1>2, <1>a
<1>10. /\ Graph(ds) /\ Len(ds) = Len(fs)
       /\ \A b \in 1..Len(fs) : ds[b].phi = fs[b].phi /\ (b # ins => ds[b].terms = fs[b].terms)
       /\ ds[ins].terms # <<>>
  BY <1>2, <1>4, <1>7, <1>8, <1>9, EndedOnce
<1> HIDE DEF ds
<1>11. Begins(bs, ins, ds, s1, "ifThen", t, s3, s2, t, s3)
  <2>1. \A a \in 1..n : a \in 1..Len(fs)
    BY <1>2
  <2>2. \A a \in 1..n : ds[a].phi = bs[a].phi /\ (a # ins => ds[a].terms = bs[a].terms)
    BY <1>2, <1>10, <2>1
  <2>3. \A a \in 1..Len(ds) : (a = ins \/ a > n) /\ a # s1 /\ a # s2 /\ a # s3 => ds[a].terms # <<>>
    BY <1>5, <1>10
  <2>4. s3 \in Nat /\ "ifThen" \in BeginTypes
    BY <1>2, <1>4 DEF BeginTypes
  <2>5. QED BY <1>3, <1>4, <1>10, <2>2, <2>3, <2>4, Zenon DEF Begins, n
<1>12. Begins(bs, ins, ds, s1, "ifThen", t, s3, s2, t, s3) /\ Len(ds) = s3
  BY <1>2, <1>10, <1>11 DEF s3
<1>13. QED BY <1>12 DEF s1, s2, s3, ds, x, to, fs, phis, n

(* The validator's pushControlStack. *)
LEMMA VSteps ==
  ASSUME NEW vcs, NEW vst, NEW type, NEW argument, NEW t
  PROVE  V!pushControlStack(VCtx(vcs, vst), type, argument, t) = VCtx(Append(vcs, VContext(type, argument, t, vst)), vst)
<1> DEFINE x == Append(vcs, VContext(type, argument, t, vst))
<1>1. VCtx(vcs, vst).controlStack = vcs /\ VCtx(vcs, vst).stack = vst
  BY DEF VCtx
<1>2. V!pushControlStack(VCtx(vcs, vst), type, argument, t) = [VCtx(vcs, vst) EXCEPT !.controlStack = x]
  BY <1>1, Zenon DEF V!pushControlStack, VContext
<1> HIDE DEF x
<1>3. [VCtx(vcs, vst) EXCEPT !.controlStack = x] = VCtx(x, vst)
  BY DEF VCtx
<1>4. V!pushControlStack(VCtx(vcs, vst), type, argument, t) = VCtx(x, vst)
  BY <1>2, <1>3, Zenon
<1>5. QED BY <1>4 DEF x

(* The emitter's pushControlStack and pushBranchTarget. *)
LEMMA PushSteps ==
  ASSUME NEW cs, NEW bts, NEW st, NEW d, NEW bs, NEW ord, NEW ins, NEW nx, NEW type, NEW t, NEW endBlock, NEW elseBlock, NEW argument, NEW b
  PROVE  E!pushBranchTarget(E!pushControlStack(Ctx(cs, bts, st, d, bs, ord, ins, nx), type, t, endBlock, elseBlock), argument, b)
           = Ctx(Append(cs, Context(type, t, endBlock, elseBlock, st, bts)), Append(bts, Target(argument, b)), st, d, bs, ord, ins, nx)
<1> DEFINE x == Append(cs, Context(type, t, endBlock, elseBlock, st, bts))
<1>1. E!pushControlStack(Ctx(cs, bts, st, d, bs, ord, ins, nx), type, t, endBlock, elseBlock) = Ctx(x, bts, st, d, bs, ord, ins, nx)
  BY ContextSteps DEF Context
<1> HIDE DEF x
<1>2. E!pushBranchTarget(Ctx(x, bts, st, d, bs, ord, ins, nx), argument, b) = Ctx(x, Append(bts, Target(argument, b)), st, d, bs, ord, ins, nx)
  BY ContextSteps DEF Target
<1>3. QED BY <1>1, <1>2, Zenon DEF x

(* The context on top, for the emitter. *)
LEMMA TopContext ==
  ASSUME NEW c, NEW cs, NEW bts, NEW st, NEW d, Holds(c, cs, bts, st, d)
  PROVE  /\ E!Top(c) = cs[Len(cs)] /\ c.controlStack # <<>> /\ cs # <<>>
         /\ cs[Len(cs)].isReachable => E!reachable(c)
<1>1. c.controlStack = cs /\ Len(cs) \in Nat /\ Len(cs) >= 1
  BY HoldsFields, HoldsTypes
<1>2. cs # <<>>
  BY <1>1, EmptySeq
<1>3. E!Top(c) = cs[Len(cs)]
  BY <1>1, Zenon DEF E!Top, E!Last
<1>4. QED BY <1>1, <1>2, <1>3, Zenon DEF E!reachable

(* Where reachable code is emitted. *)
LEMMA OpenParts ==
  ASSUME NEW c, NEW cs, NEW bts, NEW st, NEW d, Open(c, cs, bts, st, d)
  PROVE  \E bs, ord, ins, nx :
            /\ c = Ctx(cs, bts, st, d, bs, ord, ins, nx) /\ nx \in Nat /\ Emitting(cs, bts, st, bs, ord, ins)
            /\ c.blocks = bs /\ Graph(bs) /\ Len(bs) \in Nat /\ Len(bs) >= 2
            /\ ins \in 2..Len(bs) /\ ins \in 1..Len(bs) /\ bs[ins].terms = <<>>
<1>1. PICK bs, ord, ins, nx : /\ c = Ctx(cs, bts, st, d, bs, ord, ins, nx)
                              /\ Emitting(cs, bts, st, bs, ord, ins) /\ nx \in Nat
  BY DEF Holds, Open
<1>2. cs[Len(cs)].isReachable /\ c.blocks = bs
  BY <1>1, CtxFields DEF Open
<1>3. Len(bs) \in Nat /\ Len(bs) >= 2 /\ ins \in 2..Len(bs)
  BY <1>1, EmittingTypes
<1>4. Graph(bs) /\ bs[ins].terms = <<>> /\ ins \in 1..Len(bs)
  BY <1>1, <1>2, <1>3 DEF Emitting, Cursor
<1>5. QED BY <1>1, <1>2, <1>3, <1>4, Zenon

(* block *)
LEMMA BlockFollows ==
  ASSUME NEW vcs, NEW vst, NEW c, NEW cs, NEW bts, NEW st, NEW d,
         Open(c, cs, bts, st, d), Agree(vcs, vst, cs, bts, st, d),
         NEW i, i.op = "block", NEW w \in V!validated(VCtx(vcs, vst), i)
  PROVE  Follows(w, E!visit(c, i))
<1>1. PICK bs, ord, ins, nx :
              /\ c = Ctx(cs, bts, st, d, bs, ord, ins, nx) /\ nx \in Nat /\ Emitting(cs, bts, st, bs, ord, ins)
              /\ c.blocks = bs /\ Graph(bs) /\ Len(bs) \in Nat /\ Len(bs) >= 2
              /\ ins \in 2..Len(bs) /\ ins \in 1..Len(bs) /\ bs[ins].terms = <<>>
  BY OpenParts
<1> DEFINE t == i.type
           n == Len(bs)
           s1 == n + 1
           phis == <<t>>
           ds == bs \o Fresh(phis)
           order == ord \o Numbers(n, 1)
           z == Ctx(Append(cs, Context("block", t, s1, 0, st, bts)), Append(bts, Target(t, s1)), st, d, ds, order, ins, nx)
<1>0. Holds(c, cs, bts, st, d) /\ cs[Len(cs)].isReachable
  BY DEF Open
<1>2. w \in V!block(VCtx(vcs, vst), t)
  BY i.op = "block" DEF V!validated
<1>3. t \in ResultType /\ w = V!pushControlStack(VCtx(vcs, vst), "block", t, t)
  BY <1>2 DEF V!block, V!validResult, V!IntTypes, V!FloatTypes, ResultType, ValueType, IntTypes, FloatTypes
<1> HIDE DEF t
<1>4. w = VCtx(Append(vcs, VContext("block", t, t, vst)), vst)
  <2>1. V!pushControlStack(VCtx(vcs, vst), "block", t, t) = VCtx(Append(vcs, VContext("block", t, t, vst)), vst)
    BY VSteps
  <2>2. QED BY <1>3, <2>1, Zenon
<1>6. Begins(bs, ins, ds, ins, "block", t, s1, 0, t, s1) /\ Len(ds) = s1
  BY <1>1, <1>3, BlockBegins
<1>7. Len(phis) = 1
  BY PairSeq
<1> HIDE DEF phis
<1>8. E!visit(c, i) = {z}
  <2>1. E!visit(c, i) = E!block(c, t)
    BY i.op = "block" DEF E!visit, t
  <2>2. E!reachable(c)
    BY <1>0, TopContext
  <2>3. E!Block(c, 1) = s1
    BY <1>1 DEF E!Block
  <2>4. E!create(c, phis) = Ctx(cs, bts, st, d, ds, order, ins, nx)
    <3>1. E!create(c, phis) = Ctx(cs, bts, st, d, ds, ord \o Numbers(n, Len(phis)), ins, nx)
      BY <1>1, ContextSteps
    <3>2. QED BY <3>1, <1>7, Zenon
  <2> HIDE DEF s1, ds, order
  <2>5. E!pushBranchTarget(E!pushControlStack(E!create(c, phis), "block", t, s1, 0), t, s1) = z
    BY <2>4, PushSteps
  <2>6. E!block(c, t) = {E!pushBranchTarget(E!pushControlStack(E!create(c, phis), "block", t, s1, 0), t, s1)}
    BY <2>2, <2>3, Zenon DEF E!block, phis
  <2>7. QED BY <2>1, <2>5, <2>6, Zenon
<1>9. Live(w, z)
  <2> DEFINE none == 0
             one == 1
  <2>1. s1 \in Nat /\ none \in Nat /\ one \in Nat /\ "block" \in BeginTypes /\ Len(ds) = n + one
    BY <1>1, <1>6 DEF BeginTypes
  <2>2. Begins(bs, ins, ds, ins, "block", t, s1, none, t, s1)
    BY <1>6
  <2> HIDE DEF s1, ds, n, none, one
  <2>3. Live(VCtx(Append(vcs, VContext("block", t, t, vst)), vst),
             Ctx(Append(cs, Context("block", t, s1, none, st, bts)), Append(bts, Target(t, s1)), st, d,
                 ds, ord \o Numbers(Len(bs), one), ins, nx))
    BY <2>1, <2>2, <1>0, <1>1, <1>3, Begun DEF n
  <2>4. QED BY <2>3, <1>4, Zenon DEF none, one, n
<1>10. QED BY <1>8, <1>9, Zenon DEF Follows

(* loop *)
LEMMA LoopFollows ==
  ASSUME NEW vcs, NEW vst, NEW c, NEW cs, NEW bts, NEW st, NEW d,
         Open(c, cs, bts, st, d), Agree(vcs, vst, cs, bts, st, d),
         NEW i, i.op = "loop", NEW w \in V!validated(VCtx(vcs, vst), i)
  PROVE  Follows(w, E!visit(c, i))
<1>1. PICK bs, ord, ins, nx :
              /\ c = Ctx(cs, bts, st, d, bs, ord, ins, nx) /\ nx \in Nat /\ Emitting(cs, bts, st, bs, ord, ins)
              /\ c.blocks = bs /\ Graph(bs) /\ Len(bs) \in Nat /\ Len(bs) >= 2
              /\ ins \in 2..Len(bs) /\ ins \in 1..Len(bs) /\ bs[ins].terms = <<>>
  BY OpenParts
<1> DEFINE t == i.type
           n == Len(bs)
           s1 == n + 1
           s2 == n + 2
           phis == <<"none", t>>
           fs == bs \o Fresh(phis)
           ds == Ended(fs, ins, Term("br", <<>>, <<s1>>))
           order == ord \o Numbers(n, 2)
           z == Ctx(Append(cs, Context("loop", t, s2, 0, st, bts)), Append(bts, Target("none", s1)), st, d, ds, order, s1, nx)
<1>0. Holds(c, cs, bts, st, d) /\ cs[Len(cs)].isReachable
  BY DEF Open
<1>2. w \in V!loop(VCtx(vcs, vst), t)
  BY i.op = "loop" DEF V!validated
<1>3. t \in ResultType /\ w = V!pushControlStack(VCtx(vcs, vst), "loop", "none", t) /\ "none" \in ResultType
  BY <1>2 DEF V!loop, V!validResult, V!IntTypes, V!FloatTypes, ResultType, ValueType, IntTypes, FloatTypes
<1> HIDE DEF t
<1>4. w = VCtx(Append(vcs, VContext("loop", "none", t, vst)), vst)
  <2>1. V!pushControlStack(VCtx(vcs, vst), "loop", "none", t) = VCtx(Append(vcs, VContext("loop", "none", t, vst)), vst)
    BY VSteps
  <2>2. QED BY <1>3, <2>1, Zenon
<1>6. Begins(bs, ins, ds, s1, "loop", t, s2, 0, "none", s1) /\ Len(ds) = s2
  BY <1>1, <1>3, LoopBegins
<1>7. Len(phis) = 2
  OBVIOUS
<1> HIDE DEF phis
<1>8. E!visit(c, i) = {z}
  <2>1. E!visit(c, i) = E!loop(c, t)
    BY i.op = "loop" DEF E!visit, t
  <2>2. E!reachable(c)
    BY <1>0, TopContext
  <2>3. E!Block(c, 1) = s1 /\ E!Block(c, 2) = s2
    BY <1>1 DEF E!Block
  <2>4. E!create(c, phis) = Ctx(cs, bts, st, d, fs, order, ins, nx)
    <3>1. E!create(c, phis) = Ctx(cs, bts, st, d, fs, ord \o Numbers(n, Len(phis)), ins, nx)
      BY <1>1, ContextSteps
    <3>2. QED BY <3>1, <1>7, Zenon
  <2> HIDE DEF s1, s2, fs, order
  <2>5. E!terminate(Ctx(cs, bts, st, d, fs, order, ins, nx), "br", <<>>, <<s1>>) = Ctx(cs, bts, st, d, ds, order, ins, nx)
    BY ContextSteps
  <2> HIDE DEF ds
  <2>6. E!setInsertPoint(Ctx(cs, bts, st, d, ds, order, ins, nx), s1) = Ctx(cs, bts, st, d, ds, order, s1, nx)
    BY ContextSteps
  <2>7. E!pushBranchTarget(E!pushControlStack(Ctx(cs, bts, st, d, ds, order, s1, nx), "loop", t, s2, 0), "none", s1) = z
    BY PushSteps
  <2>8. E!loop(c, t) = {E!pushBranchTarget(E!pushControlStack(
                          E!setInsertPoint(E!terminate(E!create(c, phis), "br", <<>>, <<s1>>), s1), "loop", t, s2, 0), "none", s1)}
    BY <2>2, <2>3, Zenon DEF E!loop, phis
  <2> HIDE DEF z
  <2>9. QED BY <2>1, <2>4, <2>5, <2>6, <2>7, <2>8, Zenon
<1>9. Live(w, z)
  <2> DEFINE no == 0
             two == 2
             none == "none"
  <2>1. s1 \in Nat /\ s2 \in Nat /\ no \in Nat /\ two \in Nat /\ "loop" \in BeginTypes /\ Len(ds) = n + two
    BY <1>1, <1>6 DEF BeginTypes
  <2>2. Begins(bs, ins, ds, s1, "loop", t, s2, no, none, s1) /\ none \in ResultType
    BY <1>3, <1>6
  <2> HIDE DEF s1, s2, ds, n, no, two, none
  <2>3. Live(VCtx(Append(vcs, VContext("loop", none, t, vst)), vst),
             Ctx(Append(cs, Context("loop", t, s2, no, st, bts)), Append(bts, Target(none, s1)), st, d,
                 ds, ord \o Numbers(Len(bs), two), s1, nx))
    BY <2>1, <2>2, <1>0, <1>1, Begun DEF n
  <2>4. QED BY <2>3, <1>4, Zenon DEF no, two, none, n
<1>10. QED BY <1>8, <1>9, Zenon DEF Follows

(* Operands are popped by both. *)
LEMMA Popped ==
  ASSUME NEW vcs, NEW vst, NEW c, NEW cs, NEW bts, NEW st, NEW d,
         Open(c, cs, bts, st, d), Agree(vcs, vst, cs, bts, st, d),
         NEW params \in Seq(ValueType), NEW u \in V!popAndValidate(VCtx(vcs, vst), params)
  PROVE  Typed(st, params) /\ PopsBoth(u, vcs, c, cs, bts, st, d, Len(params))
<1> DEFINE n == Len(params)
           low == SubSeq(st, 1, Len(st) - n)
           p == E!popped(c, n)
<1>0. Holds(c, cs, bts, st, d)
  BY DEF Open
<1>1. vcs \in Seq(VContexts) /\ vcs # <<>> /\ vst \in Seq(OperandType) /\ Rising(vcs, vst) /\ n \in Nat
  BY <1>0, AgreeTypes, LenProperties
<1>2. u \in V!operatorOn(VCtx(vcs, vst), params, "none")
  BY <1>1, OneSided
<1>3. "none" \in ResultType
  BY DEF ResultType
<1>4. /\ Typed(st, params) /\ cs[Len(cs)].outerStackSize <= Len(st) - n
      /\ \A z : Replaces(z, cs, bts, st, d, n, "none") => Live(u, z)
  BY <1>2, <1>3, OperatorOn
<1>5. Open(p, cs, bts, low, d)
  BY <1>1, <1>4, StackHolds
<1> HIDE DEF p, low
<1>6. Live(u, p)
  BY <1>4, <1>5, Zenon DEF Replaces, low
<1>7. Holds(p, cs, bts, low, d)
  BY <1>5 DEF Open
<1>8. p.controlStack = cs /\ p.branchTargetStack = bts /\ p.stack = low /\ p.depth = d
  BY <1>7, HoldsFields
<1>9. u = VCtx(u.controlStack, u.stack) /\ Agree(u.controlStack, u.stack, cs, bts, low, d)
  BY <1>6, <1>8, Zenon DEF Live
<1>10. u.controlStack = vcs
  <2>1. \E m : u = VCtx(vcs, SubSeq(vst, 1, m))
    BY <1>1, PopsOperands
  <2>2. QED BY <2>1 DEF VCtx
<1>11. QED BY <1>1, <1>4, <1>5, <1>9, <1>10, Zenon DEF p, low, PopsBoth

(* if *)
LEMMA IfFollows ==
  ASSUME NEW vcs, NEW vst, NEW c, NEW cs, NEW bts, NEW st, NEW d,
         Open(c, cs, bts, st, d), Agree(vcs, vst, cs, bts, st, d),
         NEW i, i.op = "if", NEW w \in V!validated(VCtx(vcs, vst), i)
  PROVE  Follows(w, E!visit(c, i))
<1>1. PICK bs, ord, ins, nx :
              /\ c = Ctx(cs, bts, st, d, bs, ord, ins, nx) /\ nx \in Nat /\ Emitting(cs, bts, st, bs, ord, ins)
              /\ c.blocks = bs /\ Graph(bs) /\ Len(bs) \in Nat /\ Len(bs) >= 2
              /\ ins \in 2..Len(bs) /\ ins \in 1..Len(bs) /\ bs[ins].terms = <<>>
  BY OpenParts
<1> DEFINE t == i.type
           n == Len(bs)
           s1 == n + 1
           s2 == n + 2
           s3 == n + 3
           phis == <<"none", "none", t>>
           test == st[Len(st)]
           args == <<test>>
           to == <<s1, s2>>
           low == SubSeq(st, 1, Len(st) - 1)
           fs == bs \o Fresh(phis)
           ds == Ended(fs, ins, Term("condbr", args, to))
           order == ord \o Numbers(n, 3)
           z == Ctx(Append(cs, Context("ifThen", t, s3, s2, low, bts)), Append(bts, Target(t, s3)), low, d, ds, order, s1, nx)
<1>0. Holds(c, cs, bts, st, d) /\ cs[Len(cs)].isReachable
  BY DEF Open
<1>2. w \in V!if_(VCtx(vcs, vst), t)
  BY i.op = "if" DEF V!validated
<1> DEFINE params == <<"i32">>
<1>3. /\ t \in ResultType
      /\ \E u \in V!popAndValidate(VCtx(vcs, vst), params) : w = V!pushControlStack(u, "ifThen", t, t)
  BY <1>2 DEF V!if_, V!validResult, V!IntTypes, V!FloatTypes, ResultType, ValueType, IntTypes, FloatTypes
<1> HIDE DEF t
<1>4. PICK u \in V!popAndValidate(VCtx(vcs, vst), params) : w = V!pushControlStack(u, "ifThen", t, t)
  BY <1>3
<1>5. params \in Seq(ValueType) /\ Len(params) = 1 /\ params[1] = "i32"
  BY DEF ValueType, IntTypes
<1> HIDE DEF params
<1>6. /\ Typed(st, params) /\ cs[Len(cs)].outerStackSize <= Len(st) - 1
      /\ Open(E!popped(c, 1), cs, bts, low, d)
      /\ \E vlow : u = VCtx(vcs, vlow) /\ Agree(vcs, vlow, cs, bts, low, d)
  <2>1. Typed(st, params) /\ PopsBoth(u, vcs, c, cs, bts, st, d, Len(params))
    BY <1>5, Popped
  <2>2. PopsBoth(u, vcs, c, cs, bts, st, d, 1)
    BY <2>1, <1>5, Zenon
  <2>3. QED BY <2>1, <2>2, Zenon DEF PopsBoth
<1>7. PICK vlow : u = VCtx(vcs, vlow) /\ Agree(vcs, vlow, cs, bts, low, d)
  BY <1>6
<1>8. /\ Len(st) \in Nat /\ Len(st) >= 1 /\ test \in Values /\ E!top(c) = test
  BY <1>0, <1>6, TopValue
<1>9. test.type = "i32"
  BY <1>5, <1>6, <1>8 DEF Typed
<1> HIDE DEF test, low
<1>10. w = VCtx(Append(vcs, VContext("ifThen", t, t, vlow)), vlow)
  BY <1>4, <1>7, VSteps, Zenon
<1>11. Begins(bs, ins, ds, s1, "ifThen", t, s3, s2, t, s3) /\ Len(ds) = s3
  BY <1>1, <1>3, <1>8, <1>9, IfBegins
<1>12. Len(phis) = 3
  OBVIOUS
<1> HIDE DEF phis, args, to
<1>13. E!visit(c, i) = {z}
  <2>1. E!visit(c, i) = E!if_(c, t)
    BY i.op = "if" DEF E!visit, t
  <2>2. E!reachable(c) /\ E!canPop(c, 1)
    BY <1>0, <1>6, TopContext, CanPop
  <2>3. E!Block(c, 1) = s1 /\ E!Block(c, 2) = s2 /\ E!Block(c, 3) = s3
    BY <1>1 DEF E!Block
  <2>4. E!create(c, phis) = Ctx(cs, bts, st, d, fs, order, ins, nx)
    <3>1. E!create(c, phis) = Ctx(cs, bts, st, d, fs, ord \o Numbers(n, Len(phis)), ins, nx)
      BY <1>1, ContextSteps
    <3>2. QED BY <3>1, <1>12, Zenon
  <2> HIDE DEF s1, s2, s3, fs, order
  <2>a. E!popped(Ctx(cs, bts, st, d, fs, order, ins, nx), 1) = Ctx(cs, bts, low, d, fs, order, ins, nx)
    BY ContextSteps DEF low
  <2>5. E!terminate(Ctx(cs, bts, low, d, fs, order, ins, nx), "condbr", args, to) = Ctx(cs, bts, low, d, ds, order, ins, nx)
    BY ContextSteps
  <2> HIDE DEF ds
  <2>6. E!setInsertPoint(Ctx(cs, bts, low, d, ds, order, ins, nx), s1) = Ctx(cs, bts, low, d, ds, order, s1, nx)
    BY ContextSteps
  <2>7. E!pushBranchTarget(E!pushControlStack(Ctx(cs, bts, low, d, ds, order, s1, nx), "ifThen", t, s3, s2), t, s3) = z
    BY PushSteps
  <2>8. E!if_(c, t) = {E!pushBranchTarget(E!pushControlStack(
                          E!setInsertPoint(E!terminate(E!popped(E!create(c, phis), 1), "condbr", args, to), s1), "ifThen", t, s3, s2), t, s3)}
    BY <2>2, <2>3, <1>8, Zenon DEF E!if_, phis, args, to
  <2> HIDE DEF z
  <2>9. QED BY <2>1, <2>4, <2>a, <2>5, <2>6, <2>7, <2>8, Zenon
<1>14. Live(w, z)
  <2> DEFINE three == 3
  <2>1. s1 \in Nat /\ s2 \in Nat /\ s3 \in Nat /\ three \in Nat /\ "ifThen" \in BeginTypes /\ Len(ds) = n + three
    BY <1>1, <1>11 DEF BeginTypes
  <2>2. Emitting(cs, bts, low, bs, ord, ins)
    <3>1. E!popped(c, 1) = Ctx(cs, bts, low, d, bs, ord, ins, nx)
      BY <1>1, ContextSteps DEF low
    <3>2. Holds(E!popped(c, 1), cs, bts, low, d)
      BY <1>6 DEF Open
    <3>3. QED BY <3>1, <3>2, HoldsFields, CtxFields
  <2> HIDE DEF s1, s2, s3, ds, n, three
  <2>3. Live(VCtx(Append(vcs, VContext("ifThen", t, t, vlow)), vlow),
             Ctx(Append(cs, Context("ifThen", t, s3, s2, low, bts)), Append(bts, Target(t, s3)), low, d,
                 ds, ord \o Numbers(Len(bs), three), s1, nx))
    BY <2>1, <2>2, <1>0, <1>1, <1>3, <1>7, <1>11, Begun DEF n
  <2>4. QED BY <2>3, <1>10, Zenon DEF three, n
<1>15. QED BY <1>13, <1>14, Zenon DEF Follows

-----------------------------------------------------------------------------
(* Code that leaves its context *)

(* The contexts with the one on top unreachable. *)
LEMMA MarkedFields ==
  ASSUME NEW cs \in Seq(Contexts), cs # <<>>
  PROVE  LET k == Len(cs) IN
         /\ Marked(cs) \in Seq(Contexts) /\ Len(Marked(cs)) = k /\ k \in Nat /\ k >= 1 /\ Marked(cs) # <<>>
         /\ \A j \in 1..k : /\ Marked(cs)[j].type = cs[j].type /\ Marked(cs)[j].resultType = cs[j].resultType
                            /\ Marked(cs)[j].endBlock = cs[j].endBlock /\ Marked(cs)[j].elseBlock = cs[j].elseBlock
                            /\ Marked(cs)[j].outerStackSize = cs[j].outerStackSize
                            /\ Marked(cs)[j].outerBranchTargetStackSize = cs[j].outerBranchTargetStackSize
                            /\ j # k => Marked(cs)[j] = cs[j]
         /\ Marked(cs)[k].isReachable = FALSE
<1> DEFINE k == Len(cs)
           x == [cs[k] EXCEPT !.isReachable = FALSE]
           m == [cs EXCEPT ![k] = x]
<1>1. k \in Nat /\ k >= 1 /\ k \in 1..k
  <2>1. k \in Nat /\ k # 0
    BY LenProperties, EmptySeq
  <2>2. QED BY <2>1
<1>2. cs[k] \in Contexts
  BY <1>1, ElementOfSeq
<1>3. /\ x \in Contexts /\ x.type = cs[k].type /\ x.resultType = cs[k].resultType
      /\ x.endBlock = cs[k].endBlock /\ x.elseBlock = cs[k].elseBlock
      /\ x.outerStackSize = cs[k].outerStackSize /\ x.outerBranchTargetStackSize = cs[k].outerBranchTargetStackSize
      /\ x.isReachable = FALSE
  BY <1>2 DEF Contexts
<1>4. Marked(cs) = m
  BY Zenon DEF Marked
<1> HIDE DEF x
<1>5. m \in Seq(Contexts) /\ Len(m) = k /\ \A j \in 1..k : m[j] = IF j = k THEN x ELSE cs[j]
  BY <1>1, <1>3, ExceptSeq
<1> HIDE DEF m, k
<1>6. m # <<>>
  BY <1>1, <1>5, EmptySeq
<1>7. \A j \in 1..k : /\ m[j].type = cs[j].type /\ m[j].resultType = cs[j].resultType
                      /\ m[j].endBlock = cs[j].endBlock /\ m[j].elseBlock = cs[j].elseBlock
                      /\ m[j].outerStackSize = cs[j].outerStackSize
                      /\ m[j].outerBranchTargetStackSize = cs[j].outerBranchTargetStackSize
                      /\ j # k => m[j] = cs[j]
  BY <1>3, <1>5
<1>8. m[k].isReachable = FALSE
  BY <1>1, <1>3, <1>5
<1>9. QED BY <1>1, <1>4, <1>5, <1>6, <1>7, <1>8, Zenon DEF k

(* The emitter's invariant when its context is left. *)
LEMMA Left ==
  ASSUME NEW cs, NEW bts, NEW st, NEW bs, NEW ord, NEW ins, Emitting(cs, bts, st, bs, ord, ins),
         cs[Len(cs)].isReachable,
         NEW stack \in Seq(Values), cs[Len(cs)].outerStackSize <= Len(stack),
         NEW ds, Leaves(bs, ins, ds)
  PROVE  Emitting(Marked(cs), bts, stack, ds, ord, ins)
<1> DEFINE k == Len(cs)
           m == Marked(cs)
<1>0. /\ k \in Nat /\ k >= 1 /\ Len(bts) = k /\ Len(bs) \in Nat /\ Len(bs) >= 2 /\ Len(stack) \in Nat
      /\ ins \in 2..Len(bs) /\ \A j \in 1..k : cs[j] \in Contexts
  BY EmittingTypes, LenProperties
<1>1. cs \in Seq(Contexts) /\ cs # <<>> /\ bts \in Seq(Targets)
  BY DEF Emitting
<1>2. /\ m \in Seq(Contexts) /\ Len(m) = k /\ m # <<>>
      /\ \A j \in 1..k : /\ m[j].type = cs[j].type /\ m[j].resultType = cs[j].resultType
                         /\ m[j].endBlock = cs[j].endBlock /\ m[j].elseBlock = cs[j].elseBlock
                         /\ m[j].outerStackSize = cs[j].outerStackSize
                         /\ m[j].outerBranchTargetStackSize = cs[j].outerBranchTargetStackSize
                         /\ j # k => m[j] = cs[j]
      /\ m[k].isReachable = FALSE
  BY <1>1, MarkedFields
<1> HIDE DEF m
<1>3. /\ Graph(ds) /\ Len(ds) = Len(bs) /\ ds[ins].terms # <<>>
      /\ \A b \in 1..Len(bs) : ds[b].phi = bs[b].phi
      /\ \A b \in 1..Len(bs) : b # ins => ds[b].terms = bs[b].terms
  BY DEF Leaves
<1>4. \A j \in 1..k : ins # cs[j].endBlock /\ ins # cs[j].elseBlock
  BY DEF Emitting, Cursor
<1>5. m[1].resultType = body.ret
  <2>1. 1 \in 1..k /\ cs[1].resultType = body.ret
    BY <1>0 DEF Emitting
  <2>2. QED BY <2>1, <1>2
<1>6. Ports(m, ds)
  <2> SUFFICES ASSUME NEW j \in 1..k
        PROVE  /\ m[j].endBlock \in 1..Len(ds) /\ ds[m[j].endBlock].terms = <<>> /\ ds[m[j].endBlock].phi = m[j].resultType
               /\ IF j = 1 THEN m[j].endBlock = 1 ELSE m[j].endBlock > 2
               /\ IF m[j].type = "ifThen"
                  THEN /\ m[j].elseBlock \in 3..Len(ds) /\ ds[m[j].elseBlock].terms = <<>> /\ ds[m[j].elseBlock].phi = "none"
                  ELSE m[j].elseBlock = 0
    BY <1>2, Zenon DEF Ports
  <2>1. /\ cs[j].endBlock \in 1..Len(bs) /\ bs[cs[j].endBlock].terms = <<>> /\ bs[cs[j].endBlock].phi = cs[j].resultType
        /\ IF j = 1 THEN cs[j].endBlock = 1 ELSE cs[j].endBlock > 2
        /\ IF cs[j].type = "ifThen"
           THEN /\ cs[j].elseBlock \in 3..Len(bs) /\ bs[cs[j].elseBlock].terms = <<>> /\ bs[cs[j].elseBlock].phi = "none"
           ELSE cs[j].elseBlock = 0
    BY DEF Emitting, Ports
  <2>2. ds[cs[j].endBlock].terms = <<>> /\ ds[cs[j].endBlock].phi = cs[j].resultType
    BY <2>1, <1>3, <1>4
  <2>3. CASE cs[j].type = "ifThen"
    <3>1. cs[j].elseBlock \in 1..Len(bs) /\ cs[j].elseBlock # ins
      BY <2>1, <2>3, <1>0, <1>4
    <3>2. ds[cs[j].elseBlock].terms = <<>> /\ ds[cs[j].elseBlock].phi = "none"
      BY <3>1, <2>1, <2>3, <1>3
    <3>3. QED BY <2>1, <2>2, <2>3, <3>2, <1>2, <1>3
  <2>4. CASE cs[j].type # "ifThen"
    BY <2>1, <2>2, <2>4, <1>2, <1>3
  <2>5. QED BY <2>3, <2>4
<1>7. Distinct(m, bts)
  <2> SUFFICES ASSUME NEW j \in 1..k, NEW l \in 1..k
        PROVE  /\ m[j].elseBlock # m[l].endBlock
               /\ j < l => /\ m[j].endBlock # m[l].endBlock
                           /\ bts[j].block # m[l].endBlock
                           /\ m[j].elseBlock # 0 => m[j].elseBlock # m[l].elseBlock
    BY <1>2, Zenon DEF Distinct
  <2>1. /\ cs[j].elseBlock # cs[l].endBlock
        /\ j < l => /\ cs[j].endBlock # cs[l].endBlock
                    /\ bts[j].block # cs[l].endBlock
                    /\ cs[j].elseBlock # 0 => cs[j].elseBlock # cs[l].elseBlock
    BY Zenon DEF Emitting, Distinct
  <2>2. QED BY <2>1, <1>2
<1>8. Aimed(m, bts, ds)
  <2>1. \A j \in 1..k : bts[j].block \in 1..Len(bs) /\ bs[bts[j].block].phi = bts[j].argumentType
    BY DEF Emitting, Aimed
  <2>2. QED BY <2>1, <1>0, <1>2, <1>3 DEF Aimed
<1>9. Cursor(m, ds, ins)
  <2>1. \A j \in 1..k : ins # m[j].endBlock /\ ins # m[j].elseBlock
    BY <1>2, <1>4
  <2>2. QED BY <2>1, <1>0, <1>2, <1>3 DEF Cursor
<1>10. Waited(m, ds, ins)
  <2> SUFFICES ASSUME NEW b \in 1..Len(ds), ds[b].terms = <<>>, b # ins
        PROVE  \E j \in 1..Len(m) : b = m[j].endBlock \/ b = m[j].elseBlock
    BY Zenon DEF Waited
  <2>1. b \in 1..Len(bs) /\ bs[b].terms = <<>>
    BY <1>3
  <2>2. PICK j \in 1..k : b = cs[j].endBlock \/ b = cs[j].elseBlock
    BY <2>1, Zenon DEF Emitting, Waited
  <2>3. QED BY <2>2, <1>2
<1>11. Heights(m, stack)
  <2>0. Heights(cs, st)
    BY DEF Emitting
  <2>1. \A j \in 1..k : cs[j].outerStackSize \in Nat
    BY <1>0 DEF Contexts
  <2>2. ASSUME NEW j \in 1..k
        PROVE  /\ m[j].outerStackSize <= Len(stack) /\ m[j].outerBranchTargetStackSize = j - 1
               /\ j < k => m[j].isReachable
    <3>1. cs[j].outerStackSize <= cs[k].outerStackSize
      BY <1>0, <2>0, <2>1 DEF Heights
    <3>2. cs[j].outerBranchTargetStackSize = j - 1 /\ (j < k => cs[j].isReachable)
      BY <2>0 DEF Heights
    <3>3. m[j].outerStackSize <= Len(stack)
      BY <3>1, <2>1, <1>0, <1>2
    <3>4. j < k => m[j].isReachable
      <4>1. ASSUME j < k PROVE m[j].isReachable
        <5>1. j # k
          BY <4>1, <1>0
        <5>2. QED BY <4>1, <5>1, <3>2, <1>2
      <4>2. QED BY <4>1
    <3>5. QED BY <3>2, <3>3, <3>4, <1>2
  <2>3. \A j, l \in 1..k : j < l => m[j].outerStackSize <= m[l].outerStackSize
    BY <2>0, <1>2 DEF Heights
  <2>4. QED BY <2>2, <2>3, <1>2 DEF Heights
<1>12. Emitting(m, bts, stack, ds, ord, ins)
  <2>1. InOrder(ord, Len(ds)) /\ Headed(ord)
    BY <1>3 DEF Emitting
  <2>2. QED BY <1>1, <1>2, <1>3, <1>5, <1>6, <1>7, <1>8, <1>9, <1>10, <1>11, <2>1, Zenon DEF Emitting
<1>13. QED BY <1>12 DEF m

(* Only the operand stack differs. *)
LEMMA Restacked ==
  ASSUME NEW cs, NEW bts, NEW st, NEW bs, NEW ord, NEW ins, Emitting(cs, bts, st, bs, ord, ins),
         NEW stack \in Seq(Values), cs[Len(cs)].outerStackSize <= Len(stack)
  PROVE  Emitting(cs, bts, stack, bs, ord, ins)
<1> DEFINE k == Len(cs)
<1>0. k \in Nat /\ k >= 1 /\ Len(stack) \in Nat /\ \A j \in 1..k : cs[j] \in Contexts
  BY EmittingTypes, LenProperties
<1>1. Heights(cs, st)
  BY DEF Emitting
<1>2. \A j \in 1..k : cs[j].outerStackSize \in Nat
  BY <1>0 DEF Contexts
<1>3. ASSUME NEW j \in 1..k PROVE cs[j].outerStackSize <= Len(stack)
  <2>1. cs[j].outerStackSize <= cs[k].outerStackSize
    BY <1>0, <1>1, <1>2 DEF Heights
  <2>2. QED BY <2>1, <1>0, <1>2
<1>4. Heights(cs, stack)
  BY <1>1, <1>3 DEF Heights
<1>5. QED BY <1>4, Zenon DEF Emitting

(* enterUnreachable *)
LEMMA ClosingLeaves ==
  ASSUME NEW f, NEW cs, NEW bts, NEW st, NEW d, Closing(f, cs, bts, st, d), cs \in Seq(Contexts), cs # <<>>
  PROVE  \E z : /\ E!enterUnreachable(f) = {z}
                /\ Holds(z, Marked(cs), bts, SubSeq(st, 1, cs[Len(cs)].outerStackSize), d)
<1>1. PICK bs, ord, ins, nx : /\ f = Ctx(cs, bts, st, d, bs, ord, ins, nx)
                              /\ Emitting(Marked(cs), bts, st, bs, ord, ins) /\ nx \in Nat
  BY DEF Closing
<1> DEFINE k == Len(cs)
           m == Marked(cs)
           h == cs[k].outerStackSize
           low == SubSeq(st, 1, h)
<1>2. /\ f.controlStack = cs /\ f.branchTargetStack = bts /\ f.stack = st
  BY <1>1, CtxFields
<1>3. k \in Nat /\ k >= 1 /\ Len(m) = k /\ m[k].outerStackSize = h /\ k \in 1..k
  <2>1. /\ Len(m) = k /\ k \in Nat /\ k >= 1
        /\ \A j \in 1..k : m[j].outerStackSize = cs[j].outerStackSize
    BY MarkedFields
  <2>2. QED BY <2>1
<1>4. E!Top(f) = cs[k]
  BY <1>2, Zenon DEF E!Top, E!Last
<1>5. st \in Seq(Values) /\ h \in Nat /\ h <= Len(st) /\ Len(st) \in Nat
  <2>1. Heights(m, st) /\ st \in Seq(Values) /\ Len(st) \in Nat
    BY <1>1, EmittingTypes DEF Emitting
  <2>2. m[k].outerStackSize <= Len(st)
    BY <2>1, <1>3 DEF Heights
  <2>3. h \in Nat
    <3>1. cs[k] \in Contexts
      BY <1>3, ElementOfSeq
    <3>2. QED BY <3>1 DEF Contexts
  <2>4. QED BY <2>1, <2>2, <2>3, <1>3
<1>6. low \in Seq(Values) /\ Len(low) = h
  <2>1. LET n == Len(st) - h IN n \in Nat /\ n <= Len(st) /\ Len(st) - n = h
    BY <1>5
  <2>2. QED BY <2>1, <1>5, StackParts
<1> HIDE DEF m
<1>7. Emitting(m, bts, low, bs, ord, ins)
  <2>1. m[Len(m)].outerStackSize <= Len(low)
    BY <1>3, <1>5, <1>6
  <2>2. Emitting(m, bts, st, bs, ord, ins)
    BY <1>1 DEF m
  <2> HIDE DEF low
  <2>3. QED BY <1>6, <2>1, <2>2, Restacked
<1> DEFINE z == Ctx(m, bts, low, d, bs, ord, ins, nx)
<1>8. E!enterUnreachable(f) = {z}
  <2>1. E!enterUnreachable(f) = {[[f EXCEPT !.stack = low] EXCEPT !.controlStack = m]}
    BY <1>2, <1>4, <1>5, Zenon DEF E!enterUnreachable, m, Marked
  <2> HIDE DEF low, h, k
  <2>2. [f EXCEPT !.stack = low] = Ctx(cs, bts, low, d, bs, ord, ins, nx)
    BY <1>1 DEF Ctx
  <2>3. [Ctx(cs, bts, low, d, bs, ord, ins, nx) EXCEPT !.controlStack = m] = z
    BY DEF Ctx
  <2>4. QED BY <2>1, <2>2, <2>3, Zenon
<1> HIDE DEF low
<1>9. Holds(z, m, bts, low, d)
  BY <1>1, <1>7, Zenon DEF Holds
<1>10. QED BY <1>8, <1>9, Zenon DEF m, low

(* A branch to a block, with a value for its PHI. *)
LEMMA BranchGraph ==
  ASSUME NEW bs, Graph(bs), NEW ins \in 1..Len(bs), bs[ins].terms = <<>>,
         NEW b \in 1..Len(bs), NEW x, bs[b].phi # "none" => x \in Values /\ x.type = bs[b].phi
  PROVE  LET t == Term("br", <<>>, <<b>>) IN
         Leaves(bs, ins, IF bs[b].phi = "none" THEN Ended(bs, ins, t)
                         ELSE Ended(Given(bs, b, [value |-> x, from |-> ins]), ins, t))
<1> DEFINE to == <<b>>
           t == Term("br", <<>>, to)
<1>1. Len(bs) \in Nat /\ to \in Seq(Nat) /\ Len(to) = 1 /\ to[1] = b
  BY LenProperties DEF Graph
<1> HIDE DEF to
<1>2. t \in Terms /\ TypedTerm(t) /\ t.to = to
  BY <1>1, BranchTerm
<1> HIDE DEF t
<1>3. CASE bs[b].phi = "none"
  <2>1. \A k \in 1..Len(to) : to[k] \in 1..Len(bs) /\ bs[to[k]].phi = "none"
    BY <1>1, <1>3
  <2>2. Plain(bs, t.to)
    BY <2>1, <1>2, Zenon DEF Plain
  <2>3. Leaves(bs, ins, Ended(bs, ins, t))
    BY <1>2, <2>2, EndedOnce DEF Leaves
  <2>4. QED BY <2>3, <1>3, Zenon DEF t, to
<1>4. CASE bs[b].phi # "none"
  <2> DEFINE y == [value |-> x, from |-> ins]
  <2>1. Sole(bs, to, b)
    <3>1. 1 \in 1..Len(to) /\ \A k \in 1..Len(to) : k = 1
      BY <1>1
    <3>2. QED BY <3>1, <1>1, Zenon DEF Sole
  <2>2. Sole(bs, t.to, b)
    BY <2>1, <1>2, Zenon
  <2>3. x \in Values /\ x.type = bs[b].phi
    BY <1>4
  <2>4. /\ Graph(Ended(Given(bs, b, y), ins, t)) /\ Len(Ended(Given(bs, b, y), ins, t)) = Len(bs)
        /\ \A a \in 1..Len(bs) : /\ Ended(Given(bs, b, y), ins, t)[a].phi = bs[a].phi
                                 /\ a # ins => Ended(Given(bs, b, y), ins, t)[a].terms = bs[a].terms
        /\ Ended(Given(bs, b, y), ins, t)[ins].terms # <<>>
    BY <1>2, <2>2, <2>3, PassedOnce
  <2> HIDE DEF y
  <2>5. Leaves(bs, ins, Ended(Given(bs, b, y), ins, t))
    BY <2>4, Zenon DEF Leaves
  <2>6. QED BY <2>5, <1>4, Zenon DEF t, to, y
<1>5. QED BY <1>3, <1>4

(* A branch ends the block. *)
LEMMA BranchCloses ==
  ASSUME NEW c, NEW cs, NEW bts, NEW st, NEW d, Open(c, cs, bts, st, d),
         NEW b \in 1..Len(c.blocks), NEW type, c.blocks[b].phi = type, Passes(cs, st, type)
  PROVE  Closing(Branch(c, type, b), cs, bts, Passed(st, type), d) /\ (type # "none" => E!canPop(c, 1))
<1>1. PICK bs, ord, ins, nx :
              /\ c = Ctx(cs, bts, st, d, bs, ord, ins, nx) /\ nx \in Nat /\ Emitting(cs, bts, st, bs, ord, ins)
              /\ c.blocks = bs /\ Graph(bs) /\ Len(bs) \in Nat /\ Len(bs) >= 2
              /\ ins \in 2..Len(bs) /\ ins \in 1..Len(bs) /\ bs[ins].terms = <<>>
  BY OpenParts
<1>0. Holds(c, cs, bts, st, d) /\ cs[Len(cs)].isReachable
  BY DEF Open
<1> DEFINE x == st[Len(st)]
           to == <<b>>
           t == Term("br", <<>>, to)
           y == [value |-> x, from |-> ins]
           low == SubSeq(st, 1, Len(st) - 1)
<1>2. type # "none" => /\ x \in Values /\ x.type = type /\ E!top(c) = x /\ Len(st) \in Nat /\ Len(st) >= 1
                       /\ E!canPop(c, 1)
  <2> SUFFICES ASSUME type # "none"
               PROVE  /\ x \in Values /\ x.type = type /\ E!top(c) = x /\ Len(st) \in Nat /\ Len(st) >= 1
                      /\ E!canPop(c, 1)
    OBVIOUS
  <2>1. cs[Len(cs)].outerStackSize <= Len(st) - 1 /\ x.type = type
    BY DEF Passes
  <2>2. QED BY <2>1, <1>0, TopValue, CanPop
<1>3. b \in 1..Len(bs) /\ bs[b].phi = type
  BY <1>1
<1>4. CASE type = "none"
  <2> DEFINE ds == Ended(bs, ins, t)
  <2>1. Leaves(bs, ins, IF bs[b].phi = "none" THEN Ended(bs, ins, t)
                           ELSE Ended(Given(bs, b, [value |-> x, from |-> ins]), ins, t))
    BY <1>1, <1>2, <1>3, BranchGraph
  <2>2. Leaves(bs, ins, ds)
    BY <2>1, <1>3, <1>4, Zenon
  <2>3. st \in Seq(Values) /\ cs[Len(cs)].outerStackSize <= Len(st)
    <3>1. Heights(cs, st) /\ st \in Seq(Values) /\ Len(cs) \in Nat /\ Len(cs) >= 1
      BY <1>0, HoldsTypes
    <3>2. QED BY <3>1 DEF Heights
  <2> HIDE DEF t
  <2>4. E!terminate(c, "br", <<>>, to) = Ctx(cs, bts, st, d, ds, ord, ins, nx)
    <3>1. E!terminate(c, "br", <<>>, to) = Ctx(cs, bts, st, d, Ended(bs, ins, Term("br", <<>>, to)), ord, ins, nx)
      BY <1>1, ContextSteps
    <3>2. QED BY <3>1, Zenon DEF t
  <2> HIDE DEF ds, to
  <2>5. Emitting(Marked(cs), bts, st, ds, ord, ins)
    BY <1>0, <1>1, <2>2, <2>3, Left
  <2>6. Branch(c, type, b) = Ctx(cs, bts, st, d, ds, ord, ins, nx)
    BY <1>4, <2>4, Zenon DEF Branch, to
  <2>7. Passed(st, type) = st
    BY <1>4 DEF Passed
  <2>8. QED BY <1>1, <1>4, <2>5, <2>6, <2>7, Zenon DEF Closing
<1>5. CASE type # "none"
  <2> DEFINE es == Given(bs, b, y)
             ds == Ended(es, ins, t)
  <2>1. Leaves(bs, ins, IF bs[b].phi = "none" THEN Ended(bs, ins, t)
                           ELSE Ended(Given(bs, b, [value |-> x, from |-> ins]), ins, t))
    BY <1>1, <1>2, <1>3, <1>5, BranchGraph
  <2>2. Leaves(bs, ins, ds)
    BY <2>1, <1>3, <1>5, Zenon
  <2>3. low \in Seq(Values) /\ cs[Len(cs)].outerStackSize <= Len(low)
    <3>1. st \in Seq(Values) /\ Len(st) >= 1
      BY <1>0, <1>2, <1>5, HoldsTypes
    <3>2. low \in Seq(Values) /\ Len(low) = Len(st) - 1
      BY <3>1, AllButLast
    <3>3. QED BY <3>2, <1>5 DEF Passes
  <2>a. E!top(c) = x
    BY <1>2, <1>5
  <2> HIDE DEF t, x
  <2>4. E!popped(c, 1) = Ctx(cs, bts, low, d, bs, ord, ins, nx)
    BY <1>1, ContextSteps
  <2> HIDE DEF low
  <2>5. E!addIncoming(Ctx(cs, bts, low, d, bs, ord, ins, nx), b, x) = Ctx(cs, bts, low, d, es, ord, ins, nx)
    BY ContextSteps
  <2> HIDE DEF es
  <2>6. E!terminate(Ctx(cs, bts, low, d, es, ord, ins, nx), "br", <<>>, to) = Ctx(cs, bts, low, d, ds, ord, ins, nx)
    <3>1. E!terminate(Ctx(cs, bts, low, d, es, ord, ins, nx), "br", <<>>, to) = Ctx(cs, bts, low, d, Ended(es, ins, Term("br", <<>>, to)), ord, ins, nx)
      BY ContextSteps
    <3>2. QED BY <3>1, Zenon DEF t
  <2> HIDE DEF ds, to
  <2>7. Emitting(Marked(cs), bts, low, ds, ord, ins)
    BY <1>0, <1>1, <2>2, <2>3, Left
  <2>8. Branch(c, type, b) = Ctx(cs, bts, low, d, ds, ord, ins, nx)
    BY <1>5, <2>a, <2>4, <2>5, <2>6, Zenon DEF Branch, to
  <2>9. Passed(st, type) = low
    BY <1>5 DEF Passed, low
  <2>10. QED BY <1>1, <1>2, <1>5, <2>7, <2>8, <2>9, Zenon DEF Closing
<1>6. QED BY <1>4, <1>5

(* The same for the validator. *)
LEMMA VMarkedFields ==
  ASSUME NEW vcs \in Seq(VContexts), vcs # <<>>
  PROVE  LET k == Len(vcs) IN
         /\ Marked(vcs) \in Seq(VContexts) /\ Len(Marked(vcs)) = k /\ k \in Nat /\ k >= 1 /\ Marked(vcs) # <<>>
         /\ \A j \in 1..k : /\ Marked(vcs)[j].type = vcs[j].type /\ Marked(vcs)[j].resultType = vcs[j].resultType
                            /\ Marked(vcs)[j].outerStackSize = vcs[j].outerStackSize
                            /\ Marked(vcs)[j].branchArgumentType = vcs[j].branchArgumentType
                            /\ j # k => Marked(vcs)[j] = vcs[j]
         /\ Marked(vcs)[k].isReachable = FALSE
<1> DEFINE k == Len(vcs)
           x == [vcs[k] EXCEPT !.isReachable = FALSE]
           m == [vcs EXCEPT ![k] = x]
<1>1. k \in Nat /\ k >= 1 /\ k \in 1..k
  <2>1. k \in Nat /\ k # 0
    BY LenProperties, EmptySeq
  <2>2. QED BY <2>1
<1>2. vcs[k] \in VContexts
  BY <1>1, ElementOfSeq
<1>3. /\ x \in VContexts /\ x.type = vcs[k].type /\ x.resultType = vcs[k].resultType
      /\ x.outerStackSize = vcs[k].outerStackSize /\ x.branchArgumentType = vcs[k].branchArgumentType
      /\ x.isReachable = FALSE
  BY <1>2 DEF VContexts
<1>4. Marked(vcs) = m
  BY Zenon DEF Marked
<1> HIDE DEF x
<1>5. m \in Seq(VContexts) /\ Len(m) = k /\ \A j \in 1..k : m[j] = IF j = k THEN x ELSE vcs[j]
  BY <1>1, <1>3, ExceptSeq
<1> HIDE DEF m, k
<1>6. m # <<>>
  BY <1>1, <1>5, EmptySeq
<1>7. \A j \in 1..k : /\ m[j].type = vcs[j].type /\ m[j].resultType = vcs[j].resultType
                      /\ m[j].outerStackSize = vcs[j].outerStackSize
                      /\ m[j].branchArgumentType = vcs[j].branchArgumentType
                      /\ j # k => m[j] = vcs[j]
  BY <1>3, <1>5
<1>8. m[k].isReachable = FALSE
  BY <1>1, <1>3, <1>5
<1>9. QED BY <1>1, <1>4, <1>5, <1>6, <1>7, <1>8, Zenon DEF k

(* What is left of a stack below a height. *)
LEMMA Below ==
  ASSUME NEW S, NEW s \in Seq(S), NEW h \in Nat, h <= Len(s)
  PROVE  SubSeq(s, 1, h) \in Seq(S) /\ Len(SubSeq(s, 1, h)) = h /\ \A k \in 1..h : SubSeq(s, 1, h)[k] = s[k]
<1> DEFINE n == Len(s) - h
<1>1. Len(s) \in Nat
  BY LenProperties
<1>2. n \in Nat /\ n <= Len(s) /\ Len(s) - n = h
  BY <1>1
<1> HIDE DEF n
<1>3. /\ SubSeq(s, 1, Len(s) - n) \in Seq(S) /\ Len(SubSeq(s, 1, Len(s) - n)) = Len(s) - n
      /\ \A k \in 1..(Len(s) - n) : SubSeq(s, 1, Len(s) - n)[k] = s[k]
  BY <1>2, StackParts
<1>4. QED BY <1>2, <1>3, Zenon

(* The validator's enterUnreachable, on a stack that was agreed on. *)
LEMMA VLeaves ==
  ASSUME NEW vcs \in Seq(VContexts), vcs # <<>>, NEW vst, NEW w \in V!enterUnreachable(VCtx(vcs, vst))
  PROVE  w = VCtx(Marked(vcs), SubSeq(vst, 1, vcs[Len(vcs)].outerStackSize))
<1> DEFINE x == VCtx(vcs, vst)
           low == SubSeq(vst, 1, vcs[Len(vcs)].outerStackSize)
<1>1. x.controlStack = vcs /\ x.stack = vst
  BY DEF VCtx
<1>2. V!Top(x) = vcs[Len(vcs)]
  BY <1>1, Zenon DEF V!Top, V!Last
<1>3. w = [[x EXCEPT !.stack = low] EXCEPT !.controlStack = Marked(vcs)]
  BY <1>1, <1>2, Zenon DEF V!enterUnreachable, Marked
<1> HIDE DEF low
<1>4. [x EXCEPT !.stack = low] = VCtx(vcs, low)
  BY DEF VCtx
<1>5. [VCtx(vcs, low) EXCEPT !.controlStack = Marked(vcs)] = VCtx(Marked(vcs), low)
  BY DEF VCtx
<1>6. w = VCtx(Marked(vcs), low)
  BY <1>3, <1>4, <1>5, Zenon
<1>7. QED BY <1>6 DEF low

(* Both leave the context. *)
LEMMA MarkedAgree ==
  ASSUME NEW vcs, NEW vst, NEW p, NEW cs, NEW bts, NEW st, NEW d,
         Open(p, cs, bts, st, d), Agree(vcs, vst, cs, bts, st, d)
  PROVE  LET h == cs[Len(cs)].outerStackSize IN
         /\ vcs[Len(vcs)].outerStackSize = h
         /\ Agree(Marked(vcs), SubSeq(vst, 1, h), Marked(cs), bts, SubSeq(st, 1, h), d)
<1> DEFINE k == Len(cs)
           h == cs[k].outerStackSize
           vm == Marked(vcs)
           m == Marked(cs)
           vlow == SubSeq(vst, 1, h)
           low == SubSeq(st, 1, h)
<1>0. Holds(p, cs, bts, st, d) /\ cs[Len(cs)].isReachable
  BY DEF Open
<1>1. /\ vcs \in Seq(VContexts) /\ vcs # <<>> /\ vst \in Seq(OperandType) /\ Len(vst) \in Nat /\ Rising(vcs, vst)
      /\ k \in Nat /\ k >= 1 /\ h \in Nat /\ h <= Len(st) /\ st \in Seq(Values) /\ Matching(vst, st)
      /\ d = 0 /\ Len(vcs) = k /\ Len(vst) = Len(st) /\ vcs[Len(vcs)].outerStackSize = h
      /\ \A j \in 1..k : vcs[j].outerStackSize \in Nat
  BY <1>0, AgreeTypes
<1>2. cs \in Seq(Contexts) /\ cs # <<>>
  <2>1. cs \in Seq(Contexts)
    BY <1>0, HoldsTypes
  <2>2. QED BY <1>0, <2>1, TopContext
<1>3. /\ vm \in Seq(VContexts) /\ Len(vm) = Len(vcs)
      /\ \A j \in 1..Len(vcs) : /\ vm[j].type = vcs[j].type /\ vm[j].resultType = vcs[j].resultType
                                /\ vm[j].outerStackSize = vcs[j].outerStackSize
                                /\ vm[j].branchArgumentType = vcs[j].branchArgumentType
                                /\ j # Len(vcs) => vm[j] = vcs[j]
      /\ vm[Len(vcs)].isReachable = FALSE
  BY <1>1, VMarkedFields
<1>4. /\ Len(m) = k
      /\ \A j \in 1..k : /\ m[j].type = cs[j].type /\ m[j].resultType = cs[j].resultType
                         /\ m[j].outerStackSize = cs[j].outerStackSize
                         /\ j # k => m[j] = cs[j]
      /\ m[k].isReachable = FALSE
  BY <1>2, MarkedFields
<1>5. /\ vlow \in Seq(OperandType) /\ Len(vlow) = h /\ \A j \in 1..h : vlow[j] = vst[j]
      /\ Len(low) = h /\ \A j \in 1..h : low[j] = st[j]
  BY <1>1, Below
<1> HIDE DEF vm, m, vlow, low
<1>6. \A j \in 1..Len(m) : Same(vm[j], m[j], bts[j])
  <2>1. ASSUME NEW j \in 1..k PROVE Same(vm[j], m[j], bts[j])
    <3>1. Same(vcs[j], cs[j], bts[j])
      BY DEF Agree
    <3>2. vm[j].isReachable = m[j].isReachable
      <4>1. CASE j = k
        BY <4>1, <1>1, <1>3, <1>4
      <4>2. CASE j # k
        <5>1. vm[j] = vcs[j] /\ m[j] = cs[j]
          BY <4>2, <1>1, <1>3, <1>4
        <5>2. QED BY <5>1, <3>1 DEF Same
      <4>3. QED BY <4>1, <4>2
    <3>3. QED BY <3>1, <3>2, <1>1, <1>3, <1>4 DEF Same
  <2>2. QED BY <2>1, <1>4
<1>7. Rising(vm, vlow)
  <2>1. \A j, l \in 1..k : j < l => vcs[j].outerStackSize <= vcs[l].outerStackSize
    BY <1>1 DEF Rising
  <2>2. ASSUME NEW j \in 1..k PROVE vm[j].outerStackSize <= Len(vlow)
    <3>1. vcs[j].outerStackSize <= vcs[k].outerStackSize
      BY <2>1, <1>1
    <3>2. QED BY <3>1, <1>1, <1>3, <1>5
  <2>3. QED BY <2>1, <2>2, <1>1, <1>3 DEF Rising
<1>8. Matching(vlow, low)
  <2>1. \A j \in 1..h : j \in 1..Len(st)
    BY <1>1
  <2>2. \A j \in 1..h : vst[j] = st[j].type
    BY <2>1, <1>1 DEF Matching
  <2>3. QED BY <2>2, <1>1, <1>5 DEF Matching
<1>9. ~m[Len(m)].isReachable /\ Len(low) = m[Len(m)].outerStackSize
  <2>1. k \in 1..k
    BY <1>1
  <2>2. QED BY <2>1, <1>4, <1>5
<1>10. Len(vm) = Len(m) + d /\ d \in Nat
  BY <1>1, <1>3, <1>4
<1>11. Agree(vm, vlow, m, bts, low, d)
  BY <1>3, <1>5, <1>6, <1>7, <1>8, <1>9, <1>10, Zenon DEF Agree
<1>12. QED BY <1>1, <1>11, Zenon DEF vm, m, vlow, low

(* enterUnreachable, for both. *)
LEMMA LeavesFollow ==
  ASSUME NEW vcs, NEW vst, NEW p, NEW cs, NEW bts, NEW st, NEW d,
         Open(p, cs, bts, st, d), Agree(vcs, vst, cs, bts, st, d),
         NEW w \in V!enterUnreachable(VCtx(vcs, vst)), NEW f, Closing(f, cs, bts, st, d)
  PROVE  Follows(w, E!enterUnreachable(f))
<1> DEFINE h == cs[Len(cs)].outerStackSize
<1>0. Holds(p, cs, bts, st, d)
  BY DEF Open
<1>1. cs \in Seq(Contexts) /\ cs # <<>>
  BY <1>0, HoldsTypes, TopContext
<1>2. PICK z : E!enterUnreachable(f) = {z} /\ Holds(z, Marked(cs), bts, SubSeq(st, 1, h), d)
  BY <1>1, ClosingLeaves
<1>3. vcs \in Seq(VContexts) /\ vcs # <<>>
  BY <1>0, AgreeTypes
<1>4. w = VCtx(Marked(vcs), SubSeq(vst, 1, vcs[Len(vcs)].outerStackSize))
  BY <1>3, VLeaves
<1>5. vcs[Len(vcs)].outerStackSize = h /\ Agree(Marked(vcs), SubSeq(vst, 1, h), Marked(cs), bts, SubSeq(st, 1, h), d)
  BY MarkedAgree
<1>6. w = VCtx(Marked(vcs), SubSeq(vst, 1, h))
  BY <1>4, <1>5, Zenon
<1> HIDE DEF h
<1>7. Live(VCtx(Marked(vcs), SubSeq(vst, 1, h)), z)
  BY <1>2, <1>5, LiveFrom
<1>8. QED BY <1>2, <1>6, <1>7, Zenon DEF Follows

(* What a branch takes. *)
LEMMA ResultSeq ==
  ASSUME NEW type \in ResultType
  PROVE  /\ V!result(type) \in Seq(ValueType)
         /\ type = "none" => Len(V!result(type)) = 0
         /\ type # "none" => Len(V!result(type)) = 1 /\ V!result(type)[1] = type /\ type \in ValueType
<1>1. CASE type = "none"
  <2>1. V!result(type) = <<>>
    BY <1>1 DEF V!result
  <2>2. QED BY <1>1, <2>1, EmptySeq
<1>2. CASE type # "none"
  <2>1. V!result(type) = <<type>> /\ type \in ValueType
    BY <1>2 DEF V!result, ResultType
  <2>2. QED BY <1>2, <2>1
<1>3. QED BY <1>1, <1>2

(* The result is what the branch takes. *)
LEMMA ResultPassed ==
  ASSUME NEW cs, NEW st \in Seq(Values), NEW type \in ResultType,
         Typed(st, V!result(type)), cs[Len(cs)].outerStackSize <= Len(st) - Len(V!result(type))
  PROVE  Passes(cs, st, type) /\ Passed(st, type) = SubSeq(st, 1, Len(st) - Len(V!result(type)))
<1>0. Len(st) \in Nat
  BY LenProperties
<1>1. CASE type = "none"
  <2>1. Len(V!result(type)) = 0
    BY <1>1, ResultSeq
  <2>2. Len(st) - Len(V!result(type)) = Len(st)
    BY <1>0, <2>1
  <2>3. SubSeq(st, 1, Len(st)) = st
    <3>1. SubSeq(st, 1, Len(st)) \in Seq(Values) /\ Len(SubSeq(st, 1, Len(st))) = Len(st)
          /\ \A k \in 1..Len(st) : SubSeq(st, 1, Len(st))[k] = st[k]
      BY <1>0, Below
    <3> DEFINE s == SubSeq(st, 1, Len(st))
    <3> HIDE DEF s
    <3>2. s \in Seq(Values) /\ Len(s) = Len(st) /\ \A k \in 1..Len(st) : s[k] = st[k]
      BY <3>1 DEF s
    <3>3. s = st
      BY <3>2, SeqEqual
    <3>4. QED BY <3>3 DEF s
  <2>4. QED BY <1>1, <2>2, <2>3, Zenon DEF Passes, Passed
<1>2. CASE type # "none"
  <2> DEFINE r == V!result(type)
  <2>1. Len(r) = 1 /\ r[1] = type
    BY <1>2, ResultSeq
  <2>2. Len(r) <= Len(st) /\ \A k \in 1..Len(r) : st[Len(st) - Len(r) + k].type = r[k]
    BY DEF Typed
  <2>3. cs[Len(cs)].outerStackSize <= Len(st) - Len(r)
    OBVIOUS
  <2> HIDE DEF r
  <2>4. st[Len(st) - 1 + 1].type = type /\ Len(st) >= 1
    BY <1>0, <2>1, <2>2
  <2>5. st[Len(st)].type = type
    BY <1>0, <2>4
  <2>6. cs[Len(cs)].outerStackSize <= Len(st) - 1
    BY <2>1, <2>3
  <2>7. SubSeq(st, 1, Len(st) - 1) = SubSeq(st, 1, Len(st) - Len(r))
    BY <2>1
  <2>8. QED BY <1>2, <2>5, <2>6, <2>7, Zenon DEF Passes, Passed, r
<1>3. QED BY <1>1, <1>2

(* leaveTo *)
LEMMA LeaveToFollows ==
  ASSUME NEW vcs, NEW vst, NEW c, NEW cs, NEW bts, NEW st, NEW d,
         Open(c, cs, bts, st, d), Agree(vcs, vst, cs, bts, st, d),
         NEW type \in ResultType, NEW w \in V!leaves(VCtx(vcs, vst), V!result(type)),
         NEW b \in 1..Len(c.blocks), c.blocks[b].phi = type
  PROVE  Follows(w, E!leaveTo(c, type, b))
<1> DEFINE params == V!result(type)
           low == SubSeq(st, 1, Len(st) - Len(params))
<1>0. Holds(c, cs, bts, st, d) /\ st \in Seq(Values)
  BY HoldsTypes DEF Open
<1>1. PICK u \in V!popAndValidate(VCtx(vcs, vst), params) : w \in V!enterUnreachable(u)
  BY DEF V!leaves
<1>2. params \in Seq(ValueType)
  BY ResultSeq
<1>3. Typed(st, params) /\ PopsBoth(u, vcs, c, cs, bts, st, d, Len(params))
  BY <1>2, Popped
<1>4. PICK vlow : u = VCtx(vcs, vlow) /\ Agree(vcs, vlow, cs, bts, low, d)
  BY <1>3, Zenon DEF PopsBoth
<1>5. cs[Len(cs)].outerStackSize <= Len(st) - Len(params) /\ Open(E!popped(c, Len(params)), cs, bts, low, d)
  BY <1>3, Zenon DEF PopsBoth
<1>6. Passes(cs, st, type) /\ Passed(st, type) = low
  BY <1>0, <1>3, <1>5, ResultPassed
<1> HIDE DEF low, params
<1>7. Closing(Branch(c, type, b), cs, bts, Passed(st, type), d) /\ (type # "none" => E!canPop(c, 1))
  BY <1>6, BranchCloses
<1>8. Closing(Branch(c, type, b), cs, bts, low, d)
  BY <1>6, <1>7, Zenon
<1>9. E!leaveTo(c, type, b) = E!enterUnreachable(Branch(c, type, b))
  <2>1. CASE type = "none"
    BY <2>1 DEF E!leaveTo, Branch
  <2>2. CASE type # "none"
    BY <2>2, <1>7 DEF E!leaveTo, Branch
  <2>3. QED BY <2>1, <2>2
<1> DEFINE f == Branch(c, type, b)
<1> HIDE DEF f
<1>10. w \in V!enterUnreachable(VCtx(vcs, vlow)) /\ Closing(f, cs, bts, low, d)
  BY <1>1, <1>4, <1>8 DEF f
<1>11. Follows(w, E!enterUnreachable(f))
  BY <1>4, <1>5, <1>10, LeavesFollow
<1>12. QED BY <1>9, <1>11 DEF f

(* A depth the validator accepts has a target. *)
LEMMA TargetAims ==
  ASSUME NEW vcs, NEW vst, NEW c, NEW cs, NEW bts, NEW st, NEW d,
         Open(c, cs, bts, st, d), Agree(vcs, vst, cs, bts, st, d),
         NEW n \in Nat, V!hasTarget(VCtx(vcs, vst), n)
  PROVE  Aims(vcs, vst, c, n)
<1>1. Holds(c, cs, bts, st, d) /\ cs[Len(cs)].isReachable
  BY DEF Open
<1>2. Len(vcs) = Len(cs) /\ Len(cs) \in Nat
  BY <1>1, AgreeTypes
<1>3. Len(bts) = Len(cs) /\ (\A j \in 1..Len(cs) : bts[j] \in Targets)
  BY <1>1, HoldsTypes
<1>4. c.branchTargetStack = bts /\ Emitting(cs, bts, st, c.blocks, c.order, c.insert)
  BY <1>1, HoldsFields
<1>5. n < Len(vcs)
  BY DEF V!hasTarget, VCtx
<1> DEFINE j == Len(bts) - n
<1>6. j \in 1..Len(cs) /\ j = Len(vcs) - n
  BY <1>2, <1>3, <1>5
<1>7. E!target(c, n) = bts[j] /\ E!hasTarget(c, n)
  BY <1>2, <1>3, <1>4, <1>5 DEF E!target, E!hasTarget
<1>8. V!argumentOf(VCtx(vcs, vst), n) = vcs[j].branchArgumentType
  BY <1>6 DEF V!argumentOf, VCtx
<1> HIDE DEF j
<1>9. vcs[j].branchArgumentType = bts[j].argumentType
  BY <1>6 DEF Agree, Same
<1>10. bts[j].argumentType \in ResultType /\ bts[j].block \in Nat
  BY <1>3, <1>6 DEF Targets
<1>11. bts[j].block \in 1..Len(c.blocks) /\ c.blocks[bts[j].block].phi = bts[j].argumentType
  BY <1>4, <1>6 DEF Emitting, Aimed
<1>12. QED BY <1>7, <1>8, <1>9, <1>10, <1>11, Zenon DEF Aims

(* br *)
LEMMA BrFollows ==
  ASSUME NEW vcs, NEW vst, NEW c, NEW cs, NEW bts, NEW st, NEW d,
         Open(c, cs, bts, st, d), Agree(vcs, vst, cs, bts, st, d),
         NEW i, IsOperator(i), i.op = "br", NEW w \in V!validated(VCtx(vcs, vst), i)
  PROVE  Follows(w, E!visit(c, i))
<1> DEFINE n == i.n
           t == E!target(c, n)
           type == t.argumentType
           b == t.block
<1>1. n \in Nat
  BY DEF IsOperator
<1>2. w \in V!br(VCtx(vcs, vst), n)
  BY i.op = "br" DEF V!validated
<1>3. V!hasTarget(VCtx(vcs, vst), n) /\ w \in V!leaves(VCtx(vcs, vst), V!result(V!argumentOf(VCtx(vcs, vst), n)))
  BY <1>2 DEF V!br
<1>4. Aims(vcs, vst, c, n)
  BY <1>1, <1>3, TargetAims
<1>5. /\ E!hasTarget(c, n) /\ type = V!argumentOf(VCtx(vcs, vst), n) /\ type \in ResultType
      /\ b \in 1..Len(c.blocks) /\ c.blocks[b].phi = type
  BY <1>4, Zenon DEF Aims
<1>6. E!visit(c, i) = E!leaveTo(c, type, b)
  <2>1. E!visit(c, i) = E!br(c, n)
    BY i.op = "br" DEF E!visit
  <2>2. QED BY <2>1, <1>5, Zenon DEF E!br
<1>7. w \in V!leaves(VCtx(vcs, vst), V!result(type))
  BY <1>3, <1>5, Zenon
<1> HIDE DEF type, b
<1>8. Follows(w, E!leaveTo(c, type, b))
  BY <1>5, <1>7, LeaveToFollows
<1>9. QED BY <1>6, <1>8, Zenon

(* return *)
LEMMA ReturnFollows ==
  ASSUME family \in 1..Len(Bodies),
         NEW vcs, NEW vst, NEW c, NEW cs, NEW bts, NEW st, NEW d,
         Open(c, cs, bts, st, d), Agree(vcs, vst, cs, bts, st, d),
         NEW i, i.op = "return", NEW w \in V!validated(VCtx(vcs, vst), i)
  PROVE  Follows(w, E!visit(c, i))
<1> DEFINE type == body.ret
           b == cs[1].endBlock
<1>1. Holds(c, cs, bts, st, d) /\ cs[Len(cs)].isReachable
  BY DEF Open
<1>2. Type.ret = type
  BY DEF Type
<1>3. type \in ResultType
  BY LocalTypes
<1>4. w \in V!leaves(VCtx(vcs, vst), V!result(type))
  <2>1. w \in V!return_(VCtx(vcs, vst))
    BY i.op = "return" DEF V!validated
  <2>2. QED BY <2>1, <1>2, Zenon DEF V!return_
<1>5. c.controlStack = cs /\ Emitting(cs, bts, st, c.blocks, c.order, c.insert)
  BY <1>1, HoldsFields
<1>6. Len(cs) \in Nat /\ Len(cs) >= 1 /\ cs[1].resultType = type
  BY <1>1, HoldsTypes
<1>7. Ports(cs, c.blocks)
  BY <1>5 DEF Emitting
<1>8. b \in 1..Len(c.blocks) /\ c.blocks[b].phi = type
  BY <1>6, <1>7 DEF Ports
<1>9. E!visit(c, i) = E!leaveTo(c, type, b)
  <2>1. E!visit(c, i) = E!return_(c)
    BY i.op = "return" DEF E!visit
  <2>2. QED BY <2>1, <1>2, <1>5, Zenon DEF E!return_
<1> HIDE DEF type, b
<1>10. Follows(w, E!leaveTo(c, type, b))
  BY <1>3, <1>4, <1>8, LeaveToFollows
<1>11. QED BY <1>9, <1>10, Zenon

(* A terminator without edges to a PHI leaves the context. *)
LEMMA EndedCloses ==
  ASSUME NEW c, NEW cs, NEW bts, NEW st, NEW d, Open(c, cs, bts, st, d),
         NEW op, NEW args, NEW to, Term(op, args, to) \in Terms, TypedTerm(Term(op, args, to)), Plain(c.blocks, to)
  PROVE  Closing(E!terminate(c, op, args, to), cs, bts, st, d)
<1>1. PICK bs, ord, ins, nx :
              /\ c = Ctx(cs, bts, st, d, bs, ord, ins, nx) /\ nx \in Nat /\ Emitting(cs, bts, st, bs, ord, ins)
              /\ c.blocks = bs /\ Graph(bs) /\ Len(bs) \in Nat /\ Len(bs) >= 2
              /\ ins \in 2..Len(bs) /\ ins \in 1..Len(bs) /\ bs[ins].terms = <<>>
  BY OpenParts
<1>0. Holds(c, cs, bts, st, d) /\ cs[Len(cs)].isReachable
  BY DEF Open
<1> DEFINE t == Term(op, args, to)
           ds == Ended(bs, ins, t)
<1>2. t \in Terms /\ TypedTerm(t) /\ t.to = to
  BY DEF Term
<1>3. E!terminate(c, op, args, to) = Ctx(cs, bts, st, d, ds, ord, ins, nx)
  <2>1. E!terminate(c, op, args, to) = Ctx(cs, bts, st, d, Ended(bs, ins, Term(op, args, to)), ord, ins, nx)
    BY <1>1, ContextSteps
  <2>2. QED BY <2>1, Zenon
<1> HIDE DEF t
<1>4. Plain(bs, t.to)
  BY <1>1, <1>2, Zenon
<1>5. Leaves(bs, ins, ds)
  <2>1. /\ Graph(ds) /\ Len(ds) = Len(bs)
        /\ \A b \in 1..Len(bs) : ds[b].phi = bs[b].phi /\ (b # ins => ds[b].terms = bs[b].terms)
        /\ ds[ins].terms # <<>>
    BY <1>1, <1>2, <1>4, EndedOnce
  <2>2. QED BY <2>1, Zenon DEF Leaves
<1>6. st \in Seq(Values) /\ cs[Len(cs)].outerStackSize <= Len(st)
  <2>1. Heights(cs, st) /\ st \in Seq(Values) /\ Len(cs) \in Nat /\ Len(cs) >= 1
    BY <1>0, HoldsTypes
  <2>2. QED BY <2>1 DEF Heights
<1> HIDE DEF ds
<1>7. Emitting(Marked(cs), bts, st, ds, ord, ins)
  BY <1>0, <1>1, <1>5, <1>6, Left
<1>8. QED BY <1>1, <1>3, <1>7, Zenon DEF Closing

(* unreachable *)
LEMMA UnreachableFollows ==
  ASSUME NEW vcs, NEW vst, NEW c, NEW cs, NEW bts, NEW st, NEW d,
         Open(c, cs, bts, st, d), Agree(vcs, vst, cs, bts, st, d),
         NEW i, i.op = "unreachable", NEW w \in V!validated(VCtx(vcs, vst), i)
  PROVE  Follows(w, E!visit(c, i))
<1> DEFINE args == <<"unreachable">>
           none == <<>>
           f == E!terminate(c, "trap", args, none)
<1>1. w \in V!enterUnreachable(VCtx(vcs, vst))
  BY i.op = "unreachable" DEF V!validated, V!unreachable
<1>2. E!visit(c, i) = E!enterUnreachable(f)
  BY i.op = "unreachable" DEF E!visit, E!unreachable
<1>3. Plain(c.blocks, none)
  BY DEF Plain
<1>4. args \in Seq(TermArgs) /\ none \in Seq(Nat) /\ "trap" \in TermOps
  BY DEF TermArgs, Causes, TermOps
<1> HIDE DEF args, none
<1>5. Term("trap", args, none) \in Terms /\ TypedTerm(Term("trap", args, none))
  BY <1>4, TermFields
<1>6. Closing(f, cs, bts, st, d)
  BY <1>3, <1>5, EndedCloses
<1> HIDE DEF f
<1>7. QED BY <1>1, <1>2, <1>6, LeavesFollow

(* Blocks are created after a value has been given to a PHI. *)
LEMMA GivenFresh ==
  ASSUME NEW bs \in Seq(Blocks), NEW a \in 1..Len(bs), NEW x \in Incomings, NEW fs \in Seq(Blocks)
  PROVE  Given(bs, a, x) \o fs = Given(bs \o fs, a, x)
<1> DEFINE gs == Given(bs, a, x)
           hs == bs \o fs
           l == gs \o fs
           r == Given(hs, a, x)
           n == Len(bs) + Len(fs)
<1>0. Len(bs) \in Nat /\ Len(fs) \in Nat /\ n \in Nat /\ a \in 1..n /\ a <= Len(bs)
  BY LenProperties
<1>1. gs \in Seq(Blocks) /\ Len(gs) = Len(bs)
  BY GivenFields
<1>2. hs \in Seq(Blocks) /\ Len(hs) = n /\ \A b \in 1..n : hs[b] = IF b <= Len(bs) THEN bs[b] ELSE fs[b - Len(bs)]
  BY ConcatProperties
<1>3. a \in 1..Len(hs)
  BY <1>0, <1>2
<1>4. \A b \in 1..Len(bs) : gs[b] = IF b = a THEN [bs[b] EXCEPT !.in = Append(@, x)] ELSE bs[b]
  <2>1. DOMAIN bs = 1..Len(bs)
    BY LenProperties
  <2>2. QED BY <2>1 DEF Given
<1> HIDE DEF gs, hs
<1>5. l \in Seq(Blocks) /\ Len(l) = n /\ \A b \in 1..n : l[b] = IF b <= Len(bs) THEN gs[b] ELSE fs[b - Len(bs)]
  <2>1. l \in Seq(Blocks) /\ Len(l) = Len(gs) + Len(fs)
        /\ \A b \in 1..(Len(gs) + Len(fs)) : l[b] = IF b <= Len(gs) THEN gs[b] ELSE fs[b - Len(gs)]
    BY <1>1, ConcatProperties
  <2>2. QED BY <2>1, <1>1
<1>6. r \in Seq(Blocks) /\ Len(r) = n
  BY <1>2, <1>3, GivenFields
<1>7. \A b \in 1..n : r[b] = IF b = a THEN [hs[b] EXCEPT !.in = Append(@, x)] ELSE hs[b]
  <2>1. DOMAIN hs = 1..n
    BY <1>2, LenProperties
  <2>2. QED BY <2>1 DEF Given
<1> HIDE DEF l, r, n
<1>8. ASSUME NEW b \in 1..n PROVE l[b] = r[b]
  <2>2. CASE b <= Len(bs)
    <3>1. b \in 1..Len(bs)
      BY <1>0, <2>2
    <3>2. l[b] = gs[b] /\ hs[b] = bs[b]
      BY <1>2, <1>5, <2>2
    <3>3. QED BY <1>4, <1>7, <3>1, <3>2
  <2>3. CASE ~(b <= Len(bs))
    <3>1. b # a
      BY <1>0, <2>3
    <3>2. l[b] = fs[b - Len(bs)] /\ hs[b] = fs[b - Len(bs)]
      BY <1>2, <1>5, <2>3
    <3>3. QED BY <1>7, <3>1, <3>2
  <2>4. QED BY <2>2, <2>3
<1>9. l = r
  BY <1>5, <1>6, <1>8, SeqEqual
<1>10. QED BY <1>9 DEF l, r, gs, hs

(* The graph of br_if grows. *)
LEMMA TestGrows ==
  ASSUME NEW bs, Graph(bs), NEW ins \in 1..Len(bs), bs[ins].terms = <<>>,
         NEW test \in Values, test.type = "i32",
         NEW b \in 1..Len(bs), NEW x, bs[b].phi # "none" => x \in Values /\ x.type = bs[b].phi
  PROVE  LET n == Len(bs)
             ds == Ended(GivenIf(bs, b, x, ins) \o Fresh(<<"none">>), ins, Term("condbr", <<test>>, <<b, n + 1>>))
         IN  Grows(bs, ins, ds, n + 1) /\ Len(ds) = n + 1 /\ Len(GivenIf(bs, b, x, ins)) = n
<1> DEFINE n == Len(bs)
           s1 == n + 1
           phis == <<"none">>
           args == <<test>>
           to == <<b, s1>>
           t == Term("condbr", args, to)
           hs == bs \o Fresh(phis)
           y == [value |-> x, from |-> ins]
           gs == GivenIf(bs, b, x, ins)
           ds == Ended(gs \o Fresh(phis), ins, t)
<1>1. phis \in Seq(ResultType) /\ Len(phis) = 1 /\ phis[1] = "none"
  BY DEF ResultType
<1>0. bs \in Seq(Blocks) /\ n \in Nat
  BY DEF Graph
<1>f. Fresh(phis) \in Seq(Blocks)
  <2>1. E!NewBlock("none") \in Blocks
    BY EmptySeq DEF E!NewBlock, Blocks, ResultType
  <2>2. Fresh(phis) = [k \in 1..1 |-> E!NewBlock("none")]
    BY DEF Fresh
  <2> DEFINE z == E!NewBlock("none")
  <2> HIDE DEF z
  <2>3. [k \in 1..1 |-> z] \in Seq(Blocks)
    BY <2>1 DEF z
  <2>4. QED BY <2>2, <2>3 DEF z
<1> HIDE DEF phis
<1>2. Created(bs, phis, hs)
  BY <1>1, FreshBlocks
<1>3. /\ Graph(hs) /\ Len(hs) = s1
      /\ \A a \in 1..n : hs[a].phi = bs[a].phi /\ hs[a].terms = bs[a].terms
      /\ hs[s1].phi = "none" /\ hs[s1].terms = <<>>
  BY <1>0, <1>1, <1>2 DEF Created
<1>4. /\ s1 \in 1..s1 /\ s1 \in Nat /\ b \in 1..s1 /\ b # s1 /\ b \in Nat /\ ins \in 1..s1 /\ ins # s1
      /\ \A a \in 1..n : a \in 1..s1 /\ a # s1
      /\ \A a \in 1..s1 : a > n => a = s1
      /\ n <= s1 /\ s1 > n
  BY <1>0
<1>5. args \in Seq(Values) /\ to \in Seq(Nat) /\ Len(to) = 2 /\ to[1] = b /\ to[2] = s1
  BY <1>4, PairSeq
<1> HIDE DEF s1, to
<1>6. t \in Terms /\ t.to = to /\ TypedTerm(t)
  BY <1>5, TestTerm
<1> HIDE DEF args, t, hs
<1>7. /\ Graph(ds) /\ Len(ds) = s1
      /\ \A a \in 1..s1 : ds[a].phi = hs[a].phi /\ (a # ins => ds[a].terms = hs[a].terms)
      /\ ds[ins].terms # <<>> /\ Len(gs) = n
  <2>1. CASE bs[b].phi = "none"
    <3>1. gs = bs /\ ds = Ended(hs, ins, t)
      BY <2>1 DEF GivenIf, hs
    <3>2. Plain(hs, t.to)
      <4>1. \A k \in 1..Len(to) : to[k] = b \/ to[k] = s1
        BY <1>5
      <4>2. b \in 1..Len(hs) /\ hs[b].phi = "none" /\ s1 \in 1..Len(hs) /\ hs[s1].phi = "none"
        BY <1>3, <1>4, <2>1
      <4>3. QED BY <1>6, <4>1, <4>2 DEF Plain
    <3>3. hs[ins].terms = <<>> /\ ins \in 1..Len(hs)
      BY <1>3, <1>4
    <3>4. /\ Graph(Ended(hs, ins, t)) /\ Len(Ended(hs, ins, t)) = Len(hs)
          /\ \A a \in 1..Len(hs) : /\ Ended(hs, ins, t)[a].phi = hs[a].phi
                                   /\ a # ins => Ended(hs, ins, t)[a].terms = hs[a].terms
          /\ Ended(hs, ins, t)[ins].terms # <<>>
      BY <1>3, <1>6, <3>2, <3>3, EndedOnce
    <3> HIDE DEF ds, gs
    <3>5. QED BY <3>1, <3>4, <1>3
  <2>2. CASE bs[b].phi # "none"
    <3>1. gs = Given(bs, b, y)
      BY <2>2, Zenon DEF GivenIf
    <3>y. y \in Incomings
      BY <2>2, <1>0 DEF Incomings
    <3> HIDE DEF y
    <3>2. gs \o Fresh(phis) = Given(hs, b, y)
      <4> DEFINE fs == Fresh(phis)
      <4> HIDE DEF fs
      <4>1. Given(bs, b, y) \o fs = Given(bs \o fs, b, y)
        BY <1>0, <1>f, <3>y, GivenFresh DEF fs
      <4>2. QED BY <4>1, <3>1, Zenon DEF fs, hs
    <3>3. hs[ins].terms = <<>> /\ ins \in 1..Len(hs) /\ b \in 1..Len(hs) /\ x \in Values /\ x.type = hs[b].phi
      BY <1>3, <1>4, <2>2
    <3>4. Sole(hs, t.to, b)
      <4>1. \A k \in 1..Len(to) : k # 1 => to[k] = s1
        BY <1>5
      <4>2. 1 \in 1..Len(to) /\ to[1] = b /\ s1 # b /\ s1 \in 1..Len(hs) /\ hs[s1].phi = "none"
        BY <1>3, <1>4, <1>5
      <4>3. QED BY <1>6, <4>1, <4>2 DEF Sole
    <3> DEFINE es == Ended(Given(hs, b, y), ins, t)
    <3>5. /\ Graph(es) /\ Len(es) = Len(hs)
          /\ \A a \in 1..Len(hs) : es[a].phi = hs[a].phi /\ (a # ins => es[a].terms = hs[a].terms)
          /\ es[ins].terms # <<>>
      <4>1. Advanced(hs, ins, es)
        BY <1>3, <1>6, <3>3, <3>4, PassedOn DEF y
      <4>2. QED BY <4>1, Zenon DEF Advanced
    <3>6. Len(gs) = n
      <4>1. Len(Given(bs, b, y)) = n
        BY <1>0, <3>y, GivenFields
      <4>2. QED BY <4>1, <3>1
    <3>7. ds = es
      BY <3>2, Zenon
    <3> HIDE DEF ds, gs, es
    <3>8. QED BY <3>5, <3>6, <3>7, <1>3
  <2>3. QED BY <2>1, <2>2
<1> HIDE DEF ds, gs
<1>8. Grows(bs, ins, ds, s1)
  <2>1. \A a \in 1..n : ds[a].phi = bs[a].phi /\ (a # ins => ds[a].terms = bs[a].terms)
    BY <1>3, <1>4, <1>7
  <2>2. ds[s1].terms = <<>>
    BY <1>3, <1>4, <1>7
  <2>3. \A a \in 1..s1 : (a = ins \/ a > n) /\ a # s1 => ds[a].terms # <<>>
    BY <1>4, <1>7
  <2>4. QED BY <2>1, <2>2, <2>3, <1>4, <1>7 DEF Grows
<1>9. QED BY <1>7, <1>8, Zenon DEF ds, gs, t, args, to, s1, phis

(* br_if with its operands on the stack: the test goes, the argument stays. *)
LEMMA TestHolds ==
  ASSUME NEW c, NEW cs, NEW bts, NEW st, NEW d, Open(c, cs, bts, st, d),
         cs[Len(cs)].outerStackSize <= Len(st) - 1, st[Len(st)].type = "i32",
         NEW n, NEW vcs, NEW vst, Aims(vcs, vst, c, n),
         LET type == E!target(c, n).argumentType IN
         type # "none" => cs[Len(cs)].outerStackSize <= Len(st) - 2 /\ st[Len(st) - 1].type = type
  PROVE  \E z : E!br_if(c, n) = {z} /\ Open(z, cs, bts, SubSeq(st, 1, Len(st) - 1), d)
<1>1. PICK bs, ord, ins, nx :
              /\ c = Ctx(cs, bts, st, d, bs, ord, ins, nx) /\ nx \in Nat /\ Emitting(cs, bts, st, bs, ord, ins)
              /\ c.blocks = bs /\ Graph(bs) /\ Len(bs) \in Nat /\ Len(bs) >= 2
              /\ ins \in 2..Len(bs) /\ ins \in 1..Len(bs) /\ bs[ins].terms = <<>>
  BY OpenParts
<1>0. Holds(c, cs, bts, st, d) /\ cs[Len(cs)].isReachable
  BY DEF Open
<1> DEFINE t == E!target(c, n)
           type == t.argumentType
           b == t.block
           test == st[Len(st)]
           low == SubSeq(st, 1, Len(st) - 1)
           x == low[Len(low)]
           m == Len(bs)
           s1 == m + 1
           phis == <<"none">>
           args == <<test>>
           to == <<b, s1>>
           gs == GivenIf(bs, b, x, ins)
           hs == gs \o Fresh(phis)
           ds == Ended(hs, ins, Term("condbr", args, to))
           order == ord \o Numbers(m, 1)
           z == Ctx(cs, bts, low, d, ds, order, s1, nx)
           f == E!popped(c, 1)
<1>2. E!hasTarget(c, n) /\ b \in 1..m /\ bs[b].phi = type /\ type \in ResultType
  BY <1>1, Zenon DEF Aims
<1>3. /\ Len(st) \in Nat /\ Len(st) >= 1 /\ test \in Values /\ E!top(c) = test /\ E!canPop(c, 1) /\ st \in Seq(Values)
  BY <1>0, TopValue, CanPop, HoldsTypes
<1>4. low \in Seq(Values) /\ Len(low) = Len(st) - 1 /\ (\A k \in 1..(Len(st) - 1) : low[k] = st[k])
  BY <1>3, AllButLast
<1>5. Open(f, cs, bts, low, d) /\ f = Ctx(cs, bts, low, d, bs, ord, ins, nx)
  BY <1>1, StackHolds, ContextSteps
<1>6. type # "none" => x \in Values /\ x.type = type /\ E!top(f) = x /\ f.stack # <<>>
  <2> SUFFICES ASSUME type # "none" PROVE x \in Values /\ x.type = type /\ E!top(f) = x /\ f.stack # <<>>
    OBVIOUS
  <2>1. cs[Len(cs)].outerStackSize <= Len(st) - 2 /\ st[Len(st) - 1].type = type
    OBVIOUS
  <2>2. Holds(f, cs, bts, low, d)
    BY <1>5 DEF Open
  <2> HIDE DEF low, f
  <2>3. cs[Len(cs)].outerStackSize <= Len(low) - 1
    BY <2>1, <1>3, <1>4
  <2>4. Len(low) \in Nat /\ Len(low) >= 1 /\ x \in Values /\ E!top(f) = x /\ f.stack # <<>>
    BY <2>2, <2>3, TopValue
  <2>5. x = st[Len(st) - 1]
    BY <1>3, <1>4, <2>4
  <2>6. QED BY <2>1, <2>4, <2>5
<1> HIDE DEF x, low, test, type, b
<1>7. Grows(bs, ins, ds, s1) /\ Len(ds) = s1 /\ Len(gs) = m
  BY <1>1, <1>2, <1>3, <1>6, TestGrows DEF test
<1>8. InOrder(order, s1) /\ Headed(order)
  <2>1. InOrder(ord, m) /\ Headed(ord)
    BY <1>1 DEF Emitting
  <2>2. QED BY <2>1, <1>1, FreshInOrder
<1>9. Len(phis) = 1
  OBVIOUS
<1> HIDE DEF phis, args, to, gs, f
<1>10. E!br_if(c, n) = {z}
  <2> DEFINE g == Ctx(cs, bts, low, d, gs, ord, ins, nx)
  <2>1. (IF type = "none" THEN f ELSE E!addIncoming(f, b, E!top(f))) = g
    <3>1. CASE type = "none"
      BY <3>1, <1>2, <1>5, Zenon DEF gs, GivenIf
    <3>2. CASE type # "none"
      <4>1. E!addIncoming(Ctx(cs, bts, low, d, bs, ord, ins, nx), b, x) = Ctx(cs, bts, low, d, Given(bs, b, [value |-> x, from |-> ins]), ord, ins, nx)
        BY ContextSteps
      <4>2. QED BY <4>1, <3>2, <1>2, <1>5, <1>6, Zenon DEF gs, GivenIf
    <3>3. QED BY <3>1, <3>2
  <2>2. E!Block(c, 1) = s1
    BY <1>1 DEF E!Block
  <2>3. E!create(g, phis) = Ctx(cs, bts, low, d, hs, order, ins, nx)
    <3>1. E!create(g, phis) = Ctx(cs, bts, low, d, hs, ord \o Numbers(Len(gs), Len(phis)), ins, nx)
      BY ContextSteps
    <3>2. QED BY <3>1, <1>7, <1>9, Zenon
  <2> HIDE DEF s1, hs, order, g
  <2>4. E!terminate(Ctx(cs, bts, low, d, hs, order, ins, nx), "condbr", args, to) = Ctx(cs, bts, low, d, ds, order, ins, nx)
    BY ContextSteps
  <2> HIDE DEF ds
  <2>5. E!setInsertPoint(Ctx(cs, bts, low, d, ds, order, ins, nx), s1) = z
    BY ContextSteps
  <2>6. type # "none" => f.stack # <<>>
    BY <1>6
  <2>7. E!br_if(c, n) = {E!setInsertPoint(E!terminate(E!create(IF type = "none" THEN f ELSE E!addIncoming(f, b, E!top(f)), phis), "condbr", args, to), s1)}
    BY <1>2, <1>3, <2>2, <2>6, Zenon DEF E!br_if, type, b, f, phis, args, to
  <2> HIDE DEF z
  <2>8. QED BY <2>1, <2>3, <2>4, <2>5, <2>7, Zenon
<1>11. Open(z, cs, bts, low, d)
  <2>1. cs[Len(cs)].outerStackSize <= Len(low)
    BY <1>4
  <2> HIDE DEF ds, order, s1
  <2>2. Emitting(cs, bts, low, ds, order, s1)
    BY <1>0, <1>1, <1>4, <1>7, <1>8, <2>1, Grown
  <2>3. QED BY <1>0, <1>1, <2>2, Zenon DEF Open, Holds
<1>12. QED BY <1>10, <1>11, Zenon DEF low

(* br_if *)
LEMMA BrIfFollows ==
  ASSUME NEW vcs, NEW vst, NEW c, NEW cs, NEW bts, NEW st, NEW d,
         Open(c, cs, bts, st, d), Agree(vcs, vst, cs, bts, st, d),
         NEW i, IsOperator(i), i.op = "br_if", NEW w \in V!validated(VCtx(vcs, vst), i)
  PROVE  Follows(w, E!visit(c, i))
<1> DEFINE n == i.n
           type == V!argumentOf(VCtx(vcs, vst), n)
           r == V!result(type)
           params == Append(r, "i32")
<1>1. n \in Nat
  BY DEF IsOperator
<1>2. w \in V!br_if(VCtx(vcs, vst), n)
  BY i.op = "br_if" DEF V!validated
<1>3. V!hasTarget(VCtx(vcs, vst), n) /\ w \in V!operatorOn(VCtx(vcs, vst), params, type)
  BY <1>2 DEF V!br_if
<1>4. Aims(vcs, vst, c, n)
  BY <1>1, <1>3, TargetAims
<1>5. E!target(c, n).argumentType = type /\ type \in ResultType
  BY <1>4, Zenon DEF Aims
<1> HIDE DEF type
<1>6. /\ r \in Seq(ValueType) /\ Len(r) \in Nat /\ (type = "none" => Len(r) = 0)
      /\ (type # "none" => Len(r) = 1 /\ r[1] = type)
  BY <1>5, ResultSeq
<1> HIDE DEF r
<1>7. "i32" \in ValueType
  BY DEF ValueType, IntTypes
<1>8. params \in Seq(ValueType) /\ Len(params) = Len(r) + 1 /\ (\A k \in 1..Len(r) : params[k] = r[k]) /\ params[Len(r) + 1] = "i32"
  BY <1>6, <1>7, Appended
<1> HIDE DEF params
<1>9. Emits(E!visit(c, i), cs, bts, st, d, params, type)
  <2> SUFFICES ASSUME Typed(st, params), cs[Len(cs)].outerStackSize <= Len(st) - Len(params)
               PROVE  \E z : E!visit(c, i) = {z} /\ Replaces(z, cs, bts, st, d, Len(params), type)
    BY Zenon DEF Emits
  <2>0. Holds(c, cs, bts, st, d) /\ Len(st) \in Nat /\ cs[Len(cs)].outerStackSize \in Nat /\ st \in Seq(Values)
    BY AgreeTypes DEF Open
  <2>1. Len(params) <= Len(st) /\ \A k \in 1..Len(params) : st[Len(st) - Len(params) + k].type = params[k]
    BY DEF Typed
  <2>2. st[Len(st)].type = "i32" /\ cs[Len(cs)].outerStackSize <= Len(st) - 1
    <3>1. st[Len(st) - Len(params) + Len(params)].type = "i32"
      BY <1>6, <1>8, <2>1
    <3>2. QED BY <3>1, <1>6, <1>8, <2>0
  <2>3. type # "none" => cs[Len(cs)].outerStackSize <= Len(st) - 2 /\ st[Len(st) - 1].type = type
    <3> SUFFICES ASSUME type # "none" PROVE cs[Len(cs)].outerStackSize <= Len(st) - 2 /\ st[Len(st) - 1].type = type
      OBVIOUS
    <3>0. Len(r) = 1 /\ r[1] = type
      BY <1>6, Zenon
    <3>1. Len(params) = 2 /\ params[1] = type
      BY ONLY <1>8, <3>0
    <3>2. st[Len(st) - 2 + 1].type = type
      BY <2>1, <3>1
    <3>3. QED BY <2>0, <3>1, <3>2
  <2>4. PICK z : E!br_if(c, n) = {z} /\ Open(z, cs, bts, SubSeq(st, 1, Len(st) - 1), d)
    BY <1>4, <1>5, <2>2, <2>3, TestHolds
  <2>5. E!visit(c, i) = {z}
    BY <2>4, i.op = "br_if" DEF E!visit
  <2>6. Replaces(z, cs, bts, st, d, Len(params), type)
    <3>1. CASE type = "none"
      <4>1. Len(params) = 1
        BY <1>6, <1>8, <3>1
      <4>2. QED BY <4>1, <3>1, <2>4 DEF Replaces
    <3>2. CASE type # "none"
      <4>0. Len(r) = 1
        BY <1>6, <3>2, Zenon
      <4>1. Len(params) = 2
        BY ONLY <1>8, <4>0
      <4> DEFINE low == SubSeq(st, 1, Len(st) - 1)
                 value == st[Len(st) - 1]
      <4>2. Len(st) >= 2 /\ value.type = type /\ value \in Values
        BY <2>0, <2>3, <3>2
      <4>3. low = Append(SubSeq(st, 1, Len(st) - 2), value)
        <5>1. low \in Seq(Values) /\ Len(low) = Len(st) - 1 /\ \A k \in 1..(Len(st) - 1) : low[k] = st[k]
          BY <2>0, <4>2, AllButLast
        <5>2. SubSeq(st, 1, Len(st) - 2) \in Seq(Values) /\ Len(SubSeq(st, 1, Len(st) - 2)) = Len(st) - 2
              /\ \A k \in 1..(Len(st) - 2) : SubSeq(st, 1, Len(st) - 2)[k] = st[k]
          <6> DEFINE h == Len(st) - 2
          <6>1. h \in Nat /\ h <= Len(st)
            BY <2>0, <4>2
          <6> HIDE DEF h
          <6>2. SubSeq(st, 1, h) \in Seq(Values) /\ Len(SubSeq(st, 1, h)) = h /\ \A k \in 1..h : SubSeq(st, 1, h)[k] = st[k]
            BY <2>0, <6>1, Below
          <6>3. QED BY <6>2 DEF h
        <5> DEFINE s == SubSeq(st, 1, Len(st) - 2)
        <5> HIDE DEF s, low, value
        <5>3. Append(s, value) \in Seq(Values) /\ Len(Append(s, value)) = Len(st) - 1
              /\ \A k \in 1..(Len(st) - 1) : Append(s, value)[k] = IF k = Len(st) - 1 THEN value ELSE s[k]
          BY <2>0, <4>2, <5>2, AppendProperties DEF s
        <5>4. \A k \in 1..(Len(st) - 1) : Append(s, value)[k] = low[k]
          BY <2>0, <4>2, <5>1, <5>2, <5>3 DEF s, value
        <5>5. low = Append(s, value)
          BY <5>1, <5>3, <5>4, SeqEqual
        <5>6. QED BY <5>5 DEF s
      <4>4. QED BY <4>1, <4>2, <4>3, <3>2, <2>4, Zenon DEF Replaces
    <3>3. QED BY <3>1, <3>2
  <2>7. QED BY <2>5, <2>6
<1>10. QED BY <1>3, <1>5, <1>8, <1>9, FixedFollows

(* The graph of br_table ends its block. *)
LEMMA TableLeaves ==
  ASSUME NEW bs, Graph(bs), NEW ins \in 1..Len(bs), bs[ins].terms = <<>>,
         NEW test \in Values, test.type = "i32", NEW type, NEW x, type # "none" => x \in Values /\ x.type = type,
         NEW to \in Seq(Nat), \A k \in 1..Len(to) : to[k] \in 1..Len(bs) /\ bs[to[k]].phi = type
  PROVE  Leaves(bs, ins, Ended(TabledIf(bs, to, type, x, ins), ins, Term("switch", <<test>>, to)))
<1> DEFINE args == <<test>>
           t == Term("switch", args, to)
           y == [value |-> x, from |-> ins]
<1>0. bs \in Seq(Blocks) /\ Len(bs) \in Nat
  BY DEF Graph
<1>1. t \in Terms /\ t.to = to /\ TypedTerm(t)
  BY TestTerm
<1> HIDE DEF t
<1>2. CASE type = "none"
  <2> DEFINE ds == Ended(bs, ins, t)
  <2>1. Plain(bs, t.to)
    BY <1>1, <1>2 DEF Plain
  <2>2. /\ Graph(ds) /\ Len(ds) = Len(bs)
        /\ \A b \in 1..Len(bs) : ds[b].phi = bs[b].phi /\ (b # ins => ds[b].terms = bs[b].terms)
        /\ ds[ins].terms # <<>>
    BY <1>1, <2>1, EndedOnce
  <2>3. Leaves(bs, ins, ds)
    BY <2>2, Zenon DEF Leaves
  <2>4. TabledIf(bs, to, type, x, ins) = bs
    BY <1>2 DEF TabledIf
  <2>5. QED BY <2>3, <2>4, Zenon DEF t
<1>3. CASE type # "none"
  <2>1. y \in Incomings /\ y.from = ins /\ y.value = x /\ x.type = type
    BY <1>0, <1>3 DEF Incomings
  <2> HIDE DEF y
  <2> DEFINE ds == Ended(Tabled(bs, t.to, y), ins, t)
  <2>2. Even(bs, t.to, y.value.type)
    BY <1>1, <2>1 DEF Even
  <2>4. Leaves(bs, ins, ds)
    BY <1>1, <2>1, <2>2, TabledGraph
  <2>5. TabledIf(bs, to, type, x, ins) = Tabled(bs, t.to, y)
    BY <1>1, <1>3, Zenon DEF TabledIf, y
  <2>6. QED BY <2>4, <2>5, Zenon DEF t, ds
<1>4. QED BY <1>2, <1>3

(* The incoming values of a table, one for every depth. *)
LEMMA IncomingSteps ==
  ASSUME NEW cs, NEW bts, NEW st, NEW d, NEW bs, NEW ord, NEW ins, NEW nx, NEW x, NEW depths, Len(depths) \in Nat,
         NEW to, Len(to) = Len(depths),
         \A k \in 1..Len(depths) : to[k] = bts[Len(bts) - depths[k]].block
  PROVE  E!incomings(Ctx(cs, bts, st, d, bs, ord, ins, nx), depths, x)
           = Ctx(cs, bts, st, d, Tabled(bs, to, [value |-> x, from |-> ins]), ord, ins, nx)
<1> DEFINE c == Ctx(cs, bts, st, d, bs, ord, ins, nx)
           y == [value |-> x, from |-> ins]
<1>1. c.blocks = bs /\ c.insert = ins /\ c.branchTargetStack = bts
  BY CtxFields
<1>2. ASSUME NEW b PROVE {k \in 1..Len(depths) : E!target(c, depths[k]).block = b} = {k \in 1..Len(to) : to[k] = b}
  BY <1>1 DEF E!target
<1>3. \A b : Cardinality({k \in 1..Len(depths) : E!target(c, depths[k]).block = b}) = To(to, b)
  BY <1>2, Zenon DEF To
<1> HIDE DEF c
<1> DEFINE new(b) == [k \in 1..Cardinality({k \in 1..Len(depths) : E!target(c, depths[k]).block = b}) |-> [value |-> x, from |-> c.insert]]
<1>4. \A b : new(b) = Repeated(to, y, b)
  <2> TAKE b
  <2> DEFINE N == Cardinality({k \in 1..Len(depths) : E!target(c, depths[k]).block = b})
  <2>1. N = To(to, b)
    BY <1>3
  <2> HIDE DEF N
  <2>2. [k \in 1..N |-> [value |-> x, from |-> c.insert]] = Repeated(to, y, b)
    BY <2>1, <1>1 DEF Repeated
  <2>3. QED BY <2>2 DEF N
<1> DEFINE ds == [b \in 1..Len(c.blocks) |-> [c.blocks[b] EXCEPT !.in = @ \o new(b)]]
<1>5. ds = Tabled(bs, to, y)
  <2> HIDE DEF new, y
  <2>1. ds = [b \in 1..Len(bs) |-> [bs[b] EXCEPT !.in = @ \o new(b)]]
    BY <1>1, Zenon
  <2> HIDE DEF ds
  <2>2. QED BY <2>1, <1>4, Zenon DEF Tabled
<1>6. E!incomings(c, depths, x) = [c EXCEPT !.blocks = ds]
  <2>1. \A S : E!Cardinality(S) = Cardinality(S)
    BY DEF E!Cardinality, Cardinality
  <2>2. QED BY <2>1 DEF E!incomings
<1> HIDE DEF ds
<1>7. [c EXCEPT !.blocks = ds] = Ctx(cs, bts, st, d, ds, ord, ins, nx)
  BY DEF Ctx, c
<1>8. QED BY <1>5, <1>6, <1>7, Zenon DEF c, y

(* The depths of a table that the validator accepts, default last. *)
LEMMA TableAims ==
  ASSUME NEW vcs, NEW vst, NEW c, NEW cs, NEW bts, NEW st, NEW d,
         Open(c, cs, bts, st, d), Agree(vcs, vst, cs, bts, st, d),
         NEW depths \in Seq(Nat), NEW n \in Nat, V!br_table(VCtx(vcs, vst), depths, n) # {}
  PROVE  LET ds == Append(depths, n) IN
         /\ ds \in Seq(Nat) /\ Len(ds) \in Nat
         /\ \A k \in 1..Len(ds) : /\ Aims(vcs, vst, c, ds[k])
                                  /\ V!argumentOf(VCtx(vcs, vst), ds[k]) = V!argumentOf(VCtx(vcs, vst), n)
<1> DEFINE x == VCtx(vcs, vst)
           ds == Append(depths, n)
<1>1. /\ \A j \in V!Range(depths) \cup {n} : V!hasTarget(x, j)
      /\ \A j \in V!Range(depths) : V!argumentOf(x, j) = V!argumentOf(x, n)
  BY DEF V!br_table
<1>2. /\ ds \in Seq(Nat) /\ Len(depths) \in Nat /\ Len(ds) = Len(depths) + 1
      /\ (\A k \in 1..Len(depths) : ds[k] = depths[k]) /\ ds[Len(depths) + 1] = n
  BY Appended
<1>3. \A k \in 1..Len(depths) : depths[k] \in V!Range(depths)
  BY DEF V!Range
<1> HIDE DEF ds, x
<1>4. \A k \in 1..Len(ds) : ds[k] \in V!Range(depths) \/ ds[k] = n
  BY <1>2, <1>3
<1>5. ASSUME NEW k \in 1..Len(ds)
      PROVE  Aims(vcs, vst, c, ds[k]) /\ V!argumentOf(x, ds[k]) = V!argumentOf(x, n)
  <2> DEFINE m == ds[k]
  <2>1. m \in Nat
    BY <1>2
  <2>2. V!hasTarget(x, m) /\ V!argumentOf(x, m) = V!argumentOf(x, n)
    BY <1>1, <1>4
  <2> HIDE DEF m
  <2>3. Aims(vcs, vst, c, m)
    BY <2>1, <2>2, TargetAims DEF x
  <2>4. QED BY <2>2, <2>3 DEF m
<1>6. QED BY <1>2, <1>5 DEF ds, x

(* br_table, with its operands on the stack. *)
LEMMA TableCloses ==
  ASSUME NEW c, NEW cs, NEW bts, NEW st, NEW d, Open(c, cs, bts, st, d),
         NEW vcs, NEW vst, NEW depths \in Seq(Nat), NEW n \in Nat, NEW type,
         \A k \in 1..Len(Append(depths, n)) : /\ Aims(vcs, vst, c, Append(depths, n)[k])
                                              /\ V!argumentOf(VCtx(vcs, vst), Append(depths, n)[k]) = type,
         Indexes(cs, st, type)
  PROVE  \E f : /\ E!br_table(c, depths, n) = E!enterUnreachable(f)
                /\ Closing(f, cs, bts, Passed(SubSeq(st, 1, Len(st) - 1), type), d)
<1>1. PICK bs, ord, ins, nx :
              /\ c = Ctx(cs, bts, st, d, bs, ord, ins, nx) /\ nx \in Nat /\ Emitting(cs, bts, st, bs, ord, ins)
              /\ c.blocks = bs /\ Graph(bs) /\ Len(bs) \in Nat /\ Len(bs) >= 2
              /\ ins \in 2..Len(bs) /\ ins \in 1..Len(bs) /\ bs[ins].terms = <<>>
  BY OpenParts
<1>0. Holds(c, cs, bts, st, d) /\ cs[Len(cs)].isReachable
  BY DEF Open
<1> DEFINE all == Append(depths, n)
           test == st[Len(st)]
           low == SubSeq(st, 1, Len(st) - 1)
           x == low[Len(low)]
           y == [value |-> x, from |-> ins]
           to == [k \in 1..Len(all) |-> E!target(c, all[k]).block]
           args == <<test>>
           rest == Passed(low, type)
           gs == TabledIf(bs, to, type, x, ins)
           ds == Ended(gs, ins, Term("switch", args, to))
           f == E!popped(c, 1)
           z == Ctx(cs, bts, rest, d, ds, ord, ins, nx)
<1>2. /\ Len(depths) \in Nat /\ Len(all) = Len(depths) + 1 /\ all[Len(depths) + 1] = n /\ Len(all) \in Nat
  BY Appended
<1>3. \A k \in 1..Len(all) : Aims(vcs, vst, c, all[k]) /\ V!argumentOf(VCtx(vcs, vst), all[k]) = type
  OBVIOUS
<1> HIDE DEF all
<1>4. \A k \in 1..Len(all) : /\ E!hasTarget(c, all[k]) /\ E!target(c, all[k]).argumentType = type
                             /\ E!target(c, all[k]).block \in 1..Len(bs) /\ E!target(c, all[k]).block \in Nat
                             /\ bs[E!target(c, all[k]).block].phi = type
  BY <1>1, <1>3, Zenon DEF Aims
<1>5. E!target(c, n).argumentType = type
  <2>1. Len(depths) + 1 \in 1..Len(all)
    BY <1>2
  <2>2. QED BY <2>1, <1>2, <1>4
<1>6. /\ to \in Seq(Nat) /\ Len(to) = Len(all)
      /\ \A k \in 1..Len(all) : to[k] = E!target(c, all[k]).block
  BY <1>2, <1>4
<1> HIDE DEF to
<1>7. \A k \in 1..Len(to) : to[k] \in 1..Len(bs) /\ bs[to[k]].phi = type
  BY <1>4, <1>6
<1>8. /\ cs[Len(cs)].outerStackSize <= Len(st) - 1 /\ test.type = "i32" /\ Passes(cs, low, type)
  BY DEF Indexes
<1>9. /\ Len(st) \in Nat /\ Len(st) >= 1 /\ test \in Values /\ E!top(c) = test /\ E!canPop(c, 1) /\ st \in Seq(Values)
  BY <1>0, <1>8, TopValue, CanPop, HoldsTypes
<1>10. low \in Seq(Values) /\ Len(low) = Len(st) - 1
  BY <1>9, AllButLast
<1>11. Open(f, cs, bts, low, d) /\ f = Ctx(cs, bts, low, d, bs, ord, ins, nx)
  BY <1>1, <1>8, StackHolds, ContextSteps
<1> HIDE DEF low, f
<1>12. type # "none" => x \in Values /\ x.type = type /\ E!top(f) = x /\ E!canPop(f, 1)
                        /\ cs[Len(cs)].outerStackSize <= Len(low) - 1 /\ Len(low) >= 1
  <2> SUFFICES ASSUME type # "none"
               PROVE  x \in Values /\ x.type = type /\ E!top(f) = x /\ E!canPop(f, 1)
                      /\ cs[Len(cs)].outerStackSize <= Len(low) - 1 /\ Len(low) >= 1
    OBVIOUS
  <2>1. cs[Len(cs)].outerStackSize <= Len(low) - 1 /\ x.type = type
    BY <1>8 DEF Passes
  <2>2. Holds(f, cs, bts, low, d)
    BY <1>11 DEF Open
  <2>3. QED BY <2>1, <2>2, TopValue, CanPop
<1>13. rest \in Seq(Values) /\ cs[Len(cs)].outerStackSize <= Len(rest)
  <2>1. CASE type = "none"
    BY <2>1, <1>8, <1>9, <1>10 DEF Passed
  <2>2. CASE type # "none"
    <3>1. SubSeq(low, 1, Len(low) - 1) \in Seq(Values) /\ Len(SubSeq(low, 1, Len(low) - 1)) = Len(low) - 1
      BY <1>10, <1>12, <2>2, AllButLast
    <3>2. rest = SubSeq(low, 1, Len(low) - 1)
      BY <2>2 DEF Passed
    <3>3. QED BY <3>1, <3>2, <1>12, <2>2
  <2>3. QED BY <2>1, <2>2
<1> HIDE DEF x, test
<1>14. Leaves(bs, ins, ds)
  BY <1>1, <1>6, <1>7, <1>8, <1>9, <1>12, TableLeaves
<1> HIDE DEF args, rest, gs
<1>15. E!br_table(c, depths, n) = E!enterUnreachable(z)
  <2> DEFINE g == IF type = "none" THEN f ELSE E!incomings(E!popped(f, 1), all, E!top(f))
  <2>1. g = Ctx(cs, bts, rest, d, gs, ord, ins, nx)
    <3>1. CASE type = "none"
      BY <3>1, <1>11, Zenon DEF gs, TabledIf, rest, Passed
    <3>2. CASE type # "none"
      <4>1. E!popped(f, 1) = Ctx(cs, bts, rest, d, bs, ord, ins, nx)
        <5>1. E!popped(Ctx(cs, bts, low, d, bs, ord, ins, nx), 1) = Ctx(cs, bts, SubSeq(low, 1, Len(low) - 1), d, bs, ord, ins, nx)
          BY ContextSteps
        <5>2. QED BY <5>1, <1>11, <3>2, Zenon DEF rest, Passed
      <4>2. \A k \in 1..Len(all) : to[k] = bts[Len(bts) - all[k]].block
        <5>1. c.branchTargetStack = bts
          BY <1>0, HoldsFields
        <5>2. QED BY <5>1, <1>6 DEF E!target
      <4>3. E!incomings(Ctx(cs, bts, rest, d, bs, ord, ins, nx), all, x)
               = Ctx(cs, bts, rest, d, Tabled(bs, to, [value |-> x, from |-> ins]), ord, ins, nx)
        BY <1>2, <1>6, <4>2, IncomingSteps, SMTT(30)
      <4>4. QED BY <4>1, <4>3, <1>12, <3>2, Zenon DEF gs, TabledIf
    <3>3. QED BY <3>1, <3>2
  <2>2. E!terminate(Ctx(cs, bts, rest, d, gs, ord, ins, nx), "switch", args, to) = z
    BY ContextSteps
  <2>3. type # "none" => E!canPop(f, 1)
    BY <1>12
  <2>4. \A k \in 1..Len(all) : E!hasTarget(c, all[k])
    BY <1>4
  <2> HIDE DEF z
  <2>5. E!br_table(c, depths, n) = E!enterUnreachable(E!terminate(g, "switch", args, to))
    BY <1>5, <1>9, <2>3, <2>4, Zenon DEF E!br_table, all, f, args, to
  <2> HIDE DEF g
  <2>6. QED BY <2>1, <2>2, <2>5, Zenon
<1>16. Closing(z, cs, bts, rest, d)
  <2> HIDE DEF ds
  <2>1. Emitting(Marked(cs), bts, rest, ds, ord, ins)
    BY <1>0, <1>1, <1>13, <1>14, Left
  <2>2. QED BY <1>1, <2>1, Zenon DEF Closing
<1>17. QED BY <1>15, <1>16, Zenon DEF rest, low

(* The operands of br_table. *)
LEMMA TableOperands ==
  ASSUME NEW cs, cs[Len(cs)].outerStackSize \in Nat, NEW st \in Seq(Values), NEW type \in ResultType,
         Typed(st, Append(V!result(type), "i32")),
         cs[Len(cs)].outerStackSize <= Len(st) - Len(Append(V!result(type), "i32"))
  PROVE  /\ Indexes(cs, st, type)
         /\ Passed(SubSeq(st, 1, Len(st) - 1), type) = SubSeq(st, 1, Len(st) - Len(Append(V!result(type), "i32")))
<1> DEFINE r == V!result(type)
           params == Append(r, "i32")
           h == cs[Len(cs)].outerStackSize
           low == SubSeq(st, 1, Len(st) - 1)
<1>0. Len(st) \in Nat
  BY LenProperties
<1>1. r \in Seq(ValueType) /\ (type = "none" => Len(r) = 0) /\ (type # "none" => Len(r) = 1 /\ r[1] = type)
  BY ResultSeq
<1>2. "i32" \in ValueType
  BY DEF ValueType, IntTypes
<1>3. Len(params) <= Len(st) /\ (\A k \in 1..Len(params) : st[Len(st) - Len(params) + k].type = params[k]) /\ h <= Len(st) - Len(params)
  BY DEF Typed
<1> HIDE DEF r
<1>4. Len(r) \in Nat /\ Len(params) = Len(r) + 1 /\ (\A k \in 1..Len(r) : params[k] = r[k]) /\ params[Len(r) + 1] = "i32"
  BY <1>1, <1>2, Appended
<1> HIDE DEF params, h
<1>5. st[Len(st)].type = "i32" /\ Len(st) >= 1 /\ h <= Len(st) - 1
  <2>1. Len(params) \in 1..Len(params)
    BY <1>4
  <2>2. st[Len(st) - Len(params) + Len(params)].type = params[Len(params)]
    BY <2>1, <1>3
  <2>3. Len(st) - Len(params) + Len(params) = Len(st) /\ params[Len(params)] = "i32"
    BY <1>0, <1>4
  <2>4. st[Len(st)].type = "i32"
    BY <2>2, <2>3
  <2>5. QED BY <2>4, <1>0, <1>3, <1>4 DEF h
<1>6. low \in Seq(Values) /\ Len(low) = Len(st) - 1 /\ (\A k \in 1..(Len(st) - 1) : low[k] = st[k])
  BY <1>5, AllButLast
<1> HIDE DEF low
<1>7. CASE type = "none"
  <2>1. Len(params) = 1
    BY ONLY <1>1, <1>4, <1>7
  <2>2. Passes(cs, low, type) /\ Passed(low, type) = low
    BY <1>7 DEF Passes, Passed
  <2>3. Passed(low, type) = SubSeq(st, 1, Len(st) - Len(params))
    BY <2>1, <2>2 DEF low
  <2>4. QED BY <1>5, <2>2, <2>3, Zenon DEF Indexes, low, params, r, h
<1>8. CASE type # "none"
  <2>0. Len(r) = 1 /\ r[1] = type
    BY <1>1, <1>8, Zenon
  <2>1. Len(params) = 2 /\ params[1] = type
    BY ONLY <1>4, <2>0
  <2>2. st[Len(st) - 1].type = type /\ Len(st) >= 2 /\ h <= Len(st) - 2
    <3>1. st[Len(st) - 2 + 1].type = params[1]
      BY <1>3, <2>1
    <3>2. Len(st) - 2 + 1 = Len(st) - 1
      BY <1>0
    <3>3. QED BY <3>1, <3>2, <1>3, <2>1
  <2>3. low[Len(low)].type = type /\ h <= Len(low) - 1 /\ Len(low) >= 1
    <3>1. Len(low) = Len(st) - 1 /\ Len(st) - 1 \in 1..(Len(st) - 1)
      BY <1>0, <1>6, <2>2
    <3>2. QED BY <1>0, <1>6, <2>2, <3>1 DEF h
  <2>4. Passes(cs, low, type) /\ Passed(low, type) = SubSeq(low, 1, Len(low) - 1)
    BY <1>8, <2>3 DEF Passes, Passed, h
  <2>5. SubSeq(low, 1, Len(low) - 1) = SubSeq(st, 1, Len(st) - 2)
    <3> DEFINE a == SubSeq(low, 1, Len(low) - 1)
               m == Len(st) - 2
               b == SubSeq(st, 1, m)
    <3>1. a \in Seq(Values) /\ Len(a) = Len(low) - 1 /\ \A k \in 1..(Len(low) - 1) : a[k] = low[k]
      BY <1>6, <2>3, AllButLast
    <3>2. m \in Nat /\ m <= Len(st) /\ Len(low) - 1 = m
      BY <1>0, <1>6, <2>2
    <3> HIDE DEF m
    <3>3. b \in Seq(Values) /\ Len(b) = m /\ \A k \in 1..m : b[k] = st[k]
      BY <3>2, Below
    <3> HIDE DEF a, b
    <3>4. \A k \in 1..m : a[k] = b[k]
      <4>1. \A k \in 1..m : k \in 1..(Len(st) - 1) /\ k \in 1..(Len(low) - 1)
        BY <1>0, <1>6, <3>2
      <4>2. QED BY <4>1, <1>6, <3>1, <3>3
    <3>5. a = b
      BY <3>1, <3>2, <3>3, <3>4, SeqEqual
    <3>6. QED BY <3>5 DEF a, b, m
  <2>6. Passed(low, type) = SubSeq(st, 1, Len(st) - Len(params))
    BY <2>1, <2>4, <2>5
  <2>7. QED BY <1>5, <2>4, <2>6, Zenon DEF Indexes, low, params, r, h
<1>9. QED BY <1>7, <1>8

(* br_table *)
LEMMA BrTableFollows ==
  ASSUME NEW vcs, NEW vst, NEW c, NEW cs, NEW bts, NEW st, NEW d,
         Open(c, cs, bts, st, d), Agree(vcs, vst, cs, bts, st, d),
         NEW i, IsOperator(i), i.op = "br_table", NEW w \in V!validated(VCtx(vcs, vst), i)
  PROVE  Follows(w, E!visit(c, i))
<1> DEFINE n == i.n
           depths == i.to
           x == VCtx(vcs, vst)
           type == V!argumentOf(x, n)
           params == Append(V!result(type), "i32")
           all == Append(depths, n)
           low == SubSeq(st, 1, Len(st) - Len(params))
<1>1. n \in Nat /\ depths \in Seq(Nat)
  BY DEF IsOperator
<1>2. w \in V!br_table(x, depths, n)
  BY i.op = "br_table" DEF V!validated
<1>3. w \in V!leaves(x, params)
  BY <1>2 DEF V!br_table
<1>4. V!br_table(x, depths, n) # {}
  BY <1>2
<1> HIDE DEF n, depths
<1>5. /\ all \in Seq(Nat) /\ Len(all) \in Nat
      /\ \A k \in 1..Len(all) : Aims(vcs, vst, c, all[k]) /\ V!argumentOf(VCtx(vcs, vst), all[k]) = V!argumentOf(VCtx(vcs, vst), n)
  BY <1>1, <1>4, TableAims
<1>6. type \in ResultType
  <2>1. Len(depths) + 1 \in 1..Len(all) /\ all[Len(depths) + 1] = n
    BY <1>1, Appended
  <2>2. Aims(vcs, vst, c, n)
    BY <2>1, <1>5
  <2>3. QED BY <2>2, Zenon DEF Aims
<1>7. params \in Seq(ValueType)
  <2>1. V!result(type) \in Seq(ValueType) /\ "i32" \in ValueType
    BY <1>6, ResultSeq DEF ValueType, IntTypes
  <2>2. QED BY <2>1, Appended
<1>8. PICK u \in V!popAndValidate(x, params) : w \in V!enterUnreachable(u)
  BY <1>3 DEF V!leaves
<1> HIDE DEF type
<1>9. Typed(st, params) /\ PopsBoth(u, vcs, c, cs, bts, st, d, Len(params))
  <2> HIDE DEF params
  <2>1. QED BY <1>7, Popped
<1>10. PICK vlow : u = VCtx(vcs, vlow) /\ Agree(vcs, vlow, cs, bts, low, d)
  BY <1>9, Zenon DEF PopsBoth
<1>11. cs[Len(cs)].outerStackSize <= Len(st) - Len(params) /\ Open(E!popped(c, Len(params)), cs, bts, low, d)
  BY <1>9, Zenon DEF PopsBoth
<1>12. Holds(c, cs, bts, st, d) /\ st \in Seq(Values) /\ cs[Len(cs)].outerStackSize \in Nat
  BY AgreeTypes DEF Open
<1>13. Indexes(cs, st, type) /\ Passed(SubSeq(st, 1, Len(st) - 1), type) = low
  BY <1>6, <1>9, <1>11, <1>12, TableOperands
<1>14. \E f : E!br_table(c, depths, n) = E!enterUnreachable(f) /\ Closing(f, cs, bts, Passed(SubSeq(st, 1, Len(st) - 1), type), d)
  <2>1. \A k \in 1..Len(all) : Aims(vcs, vst, c, all[k]) /\ V!argumentOf(VCtx(vcs, vst), all[k]) = type
    BY <1>5 DEF type
  <2>2. QED BY <1>1, <1>13, <2>1, TableCloses, SMTT(30)
<1>15. PICK f : E!br_table(c, depths, n) = E!enterUnreachable(f) /\ Closing(f, cs, bts, low, d)
  BY <1>13, <1>14, Zenon
<1>16. E!visit(c, i) = E!enterUnreachable(f)
  <2>1. E!visit(c, i) = E!br_table(c, depths, n)
    BY i.op = "br_table" DEF E!visit, depths, n
  <2>2. QED BY <2>1, <1>15
<1> HIDE DEF low, params
<1>17. w \in V!enterUnreachable(VCtx(vcs, vlow))
  BY <1>8, <1>10
<1>18. Follows(w, E!enterUnreachable(f))
  BY <1>10, <1>11, <1>15, <1>17, LeavesFollow
<1>19. QED BY <1>16, <1>18, Zenon

-----------------------------------------------------------------------------
(* The end of a context *)

(* The validator at an else or an end. *)
LEMMA VCloses ==
  ASSUME NEW vcs \in Seq(VContexts), vcs # <<>>, NEW vst \in Seq(OperandType), Rising(vcs, vst),
         NEW isElse \in BOOLEAN, NEW w \in V!closes(VCtx(vcs, vst), isElse)
  PROVE  \E u \in V!popAndValidate(VCtx(vcs, vst), V!result(vcs[Len(vcs)].resultType)) : VClosing(w, vcs, u, isElse)
<1> DEFINE x == VCtx(vcs, vst)
           top == vcs[Len(vcs)]
           front == SubSeq(vcs, 1, Len(vcs) - 1)
           expected == V!result(top.resultType)
<1>0. Len(vcs) \in Nat /\ Len(vcs) >= 1 /\ top \in VContexts
  BY LenProperties, EmptySeq
<1>1. V!Top(x) = top /\ x.controlStack = vcs
  BY DEF V!Top, V!Last, VCtx
<1>2. PICK u \in V!popAndValidate(x, expected) : w \in V!popControlStack(u, isElse)
  BY <1>1 DEF V!closes
<1>3. Len(expected) \in Nat
  <2>1. top.resultType \in ResultType
    BY <1>0 DEF VContexts
  <2>2. expected \in Seq(ValueType)
    BY <2>1, ResultSeq
  <2>3. QED BY <2>2, LenProperties
<1> HIDE DEF expected
<1>4. PICK m : Pops(vcs, vst, expected, m) /\ u = VCtx(vcs, SubSeq(vst, 1, m))
  BY <1>2, <1>3, PopsOperands
<1> DEFINE vlow == SubSeq(vst, 1, m)
<1> HIDE DEF vlow
<1>5. u = VCtx(vcs, vlow) /\ u.controlStack = vcs /\ u.stack = vlow
  BY <1>4 DEF VCtx, vlow
<1>6. V!Top(u) = top
  BY <1>5 DEF V!Top, V!Last
<1>a. Len(vlow) \in Nat /\ top.outerStackSize \in Nat
  <2>1. m \in top.outerStackSize..Len(vst)
    BY <1>4 DEF Pops
  <2>2. top.outerStackSize \in Nat
    BY <1>0 DEF VContexts
  <2>3. m \in Nat /\ m <= Len(vst)
    BY <2>1, <2>2, LenProperties
  <2>4. QED BY <2>2, <2>3, Below DEF vlow
<1>7. ~(Len(vlow) > top.outerStackSize)
  <2> SUFFICES ASSUME Len(vlow) > top.outerStackSize PROVE FALSE
    OBVIOUS
  <2>0. ~(Len(vlow) <= top.outerStackSize)
    BY <1>a
  <2>1. V!popControlStack(u, isElse) = {}
    BY <1>5, <1>6, <2>0 DEF V!popControlStack
  <2>2. QED BY <2>1, <1>2
<1>8. Len(vlow) <= top.outerStackSize
  BY <1>7, <1>a
<1>9. CASE isElse
  <2> DEFINE turned == [top EXCEPT !.type = "ifElse", !.isReachable = TRUE]
  <2>1. w \in IF top.type = "ifThen" THEN {[u EXCEPT !.controlStack = Append(V!Front(@), turned)]} ELSE {}
    BY <1>2, <1>5, <1>6, <1>7, <1>8, <1>9 DEF V!popControlStack
  <2>2. top.type = "ifThen" /\ w = [u EXCEPT !.controlStack = Append(V!Front(@), turned)]
    BY <2>1
  <2> HIDE DEF turned
  <2>3. V!Front(vcs) = front
    BY DEF V!Front
  <2>4. w = VCtx(Append(front, turned), vlow)
    BY <2>2, <2>3, <1>5 DEF VCtx
  <2>5. w = VCtx(Turned(vcs), vlow)
    BY <2>4, Zenon DEF Turned, turned
  <2>6. QED BY <1>2, <1>5, <1>7, <1>9, <2>2, <2>5, Zenon DEF VClosing, expected
<1>10. CASE ~isElse
  <2> DEFINE ret == IF Len(vcs) > 1 THEN top.resultType ELSE "none"
  <2>1. w \in IF top.type = "ifThen" /\ top.resultType # "none" THEN {} ELSE {V!push([u EXCEPT !.controlStack = V!Front(@)], ret)}
    BY <1>2, <1>5, <1>6, <1>7, <1>8, <1>10 DEF V!popControlStack
  <2>2. (top.type = "ifThen" => top.resultType = "none") /\ w = V!push([u EXCEPT !.controlStack = V!Front(@)], ret)
    BY <2>1
  <2>3. V!Front(vcs) = front
    BY DEF V!Front
  <2>4. [u EXCEPT !.controlStack = V!Front(@)] = VCtx(front, vlow)
    <3> DEFINE g == V!Front(u.controlStack)
    <3>1. g = front
      BY <2>3, <1>5
    <3> HIDE DEF g, front
    <3>2. [u EXCEPT !.controlStack = g] = VCtx(g, vlow)
      BY <1>5 DEF VCtx
    <3>3. QED BY <3>1, <3>2 DEF g
  <2> HIDE DEF front
  <2>5. V!push(VCtx(front, vlow), ret) = VCtx(front, IF ret = "none" THEN vlow ELSE Append(vlow, ret))
    <3> HIDE DEF ret
    <3>1. CASE ret = "none"
      BY <3>1 DEF V!push, VCtx
    <3>2. CASE ret # "none"
      <4> DEFINE s == Append(vlow, ret)
      <4> HIDE DEF s
      <4>1. V!push(VCtx(front, vlow), ret) = [VCtx(front, vlow) EXCEPT !.stack = s]
        BY <3>2 DEF V!push, VCtx, s
      <4>2. [VCtx(front, vlow) EXCEPT !.stack = s] = VCtx(front, s)
        BY DEF VCtx
      <4>3. QED BY <4>1, <4>2, <3>2, Zenon DEF s
    <3>3. QED BY <3>1, <3>2
  <2>6. (IF ret = "none" THEN vlow ELSE Append(vlow, ret)) = IF Len(vcs) > 1 /\ top.resultType # "none" THEN Append(vlow, top.resultType) ELSE vlow
    OBVIOUS
  <2>7. w = VEnded(vcs, vlow)
    BY <2>2, <2>4, <2>5, <2>6, Zenon DEF VEnded, front
  <2>8. QED BY <1>2, <1>5, <1>7, <1>10, <2>2, <2>7, Zenon DEF VClosing, expected
<1>11. QED BY <1>9, <1>10

(* A context that is unreachable already. *)
LEMMA MarkedTwice ==
  ASSUME NEW cs \in Seq(Contexts), cs # <<>>, ~cs[Len(cs)].isReachable
  PROVE  Marked(cs) = cs
<1>0. Len(cs) \in Nat /\ Len(cs) >= 1 /\ cs[Len(cs)] \in Contexts /\ DOMAIN cs = 1..Len(cs)
  BY LenProperties, EmptySeq
<1>1. cs[Len(cs)].isReachable = FALSE
  BY <1>0 DEF Contexts
<1>2. [cs[Len(cs)] EXCEPT !.isReachable = FALSE] = cs[Len(cs)]
  <2> DEFINE x == cs[Len(cs)]
  <2>1. x \in Contexts /\ x.isReachable = FALSE
    BY <1>0, <1>1
  <2> HIDE DEF x
  <2>2. [x EXCEPT !.isReachable = FALSE] = x
    BY <2>1 DEF Contexts
  <2>3. QED BY <2>2 DEF x
<1>3. Marked(cs) = [cs EXCEPT ![Len(cs)] = [cs[Len(cs)] EXCEPT !.isReachable = FALSE]]
  BY DEF Marked
<1> DEFINE x == cs[Len(cs)]
           l == Len(cs)
<1>4. Marked(cs) = [cs EXCEPT ![l] = x]
  BY <1>2, <1>3, Zenon
<1>5. [cs EXCEPT ![l] = x] = cs
  <2> DEFINE r == [cs EXCEPT ![l] = x]
  <2>1. DOMAIN r = DOMAIN cs /\ \A k \in DOMAIN cs : r[k] = cs[k]
    BY <1>0
  <2>2. r \in Seq(Contexts) /\ Len(r) = Len(cs)
    BY <1>0
  <2> HIDE DEF r
  <2>3. \A k \in 1..Len(cs) : r[k] = cs[k]
    BY <2>1, <1>0
  <2>4. r = cs
    BY <2>2, <2>3, SeqEqual
  <2>5. QED BY <2>4 DEF r
<1>6. QED BY <1>4, <1>5, Zenon

(* toEnd: the current block has ended, with the result of the context. *)
LEMMA ToEndCloses ==
  ASSUME NEW vcs, NEW vst, NEW c, NEW cs, NEW bts, NEW st, NEW d,
         Holds(c, cs, bts, st, d), Agree(vcs, vst, cs, bts, st, d), d = 0,
         NEW u \in V!popAndValidate(VCtx(vcs, vst), V!result(vcs[Len(vcs)].resultType)),
         NEW vlow, u = VCtx(vcs, vlow), ~(Len(vlow) > vcs[Len(vcs)].outerStackSize)
  PROVE  \E f, low : /\ E!toEnd(c) = {f} /\ Closing(f, cs, bts, low, d)
                     /\ Meets(u, vcs, vlow, low, cs[Len(cs)].outerStackSize)
<1> DEFINE k == Len(cs)
           type == cs[k].resultType
           b == cs[k].endBlock
           h == cs[k].outerStackSize
<1>1. /\ vcs \in Seq(VContexts) /\ vcs # <<>> /\ vst \in Seq(OperandType) /\ Len(vst) \in Nat /\ Rising(vcs, vst)
      /\ k \in Nat /\ k >= 1 /\ k \in 1..k /\ h \in Nat /\ h <= Len(st) /\ st \in Seq(Values) /\ Len(st) \in Nat
      /\ Matching(vst, st)
  BY AgreeTypes
<1>2. Len(vcs) = k /\ Same(vcs[k], cs[k], bts[k])
  BY <1>1 DEF Agree
<1>3. vcs[Len(vcs)].resultType = type /\ vcs[Len(vcs)].outerStackSize = h /\ vcs[Len(vcs)].isReachable = cs[k].isReachable
  BY <1>2 DEF Same
<1>4. cs \in Seq(Contexts) /\ cs # <<>> /\ cs[k] \in Contexts /\ E!Top(c) = cs[k]
  BY <1>1, HoldsTypes, TopContext
<1>5. type \in ResultType /\ cs[k].isReachable \in BOOLEAN
  BY <1>4 DEF Contexts
<1>6. u \in V!popAndValidate(VCtx(vcs, vst), V!result(type))
  BY <1>3
<1>7. ~(Len(vlow) > h)
  BY <1>3
<1>v. \A x : u = VCtx(vcs, x) => x = vlow
  BY DEF VCtx
<1>8. CASE cs[k].isReachable
  <2>0. Open(c, cs, bts, st, d)
    BY <1>8 DEF Open
  <2> DEFINE r == V!result(type)
             low == SubSeq(st, 1, Len(st) - Len(r))
  <2>1. r \in Seq(ValueType)
    BY <1>5, ResultSeq
  <2>2. Typed(st, r) /\ PopsBoth(u, vcs, c, cs, bts, st, d, Len(r))
    <3> HIDE DEF r
    <3>1. QED BY <2>0, <2>1, <1>6, Popped DEF r
  <2>3. PICK x : u = VCtx(vcs, x) /\ Agree(vcs, x, cs, bts, low, d)
    BY <2>2, Zenon DEF PopsBoth
  <2>4. Agree(vcs, vlow, cs, bts, low, d)
    BY <2>3, <1>v
  <2>5. h <= Len(st) - Len(r) /\ Open(E!popped(c, Len(r)), cs, bts, low, d)
    BY <2>2, Zenon DEF PopsBoth
  <2>6. Passes(cs, st, type) /\ Passed(st, type) = low
    BY <1>1, <1>5, <2>2, <2>5, ResultPassed
  <2> HIDE DEF low, r
  <2>7. Emitting(cs, bts, st, c.blocks, c.order, c.insert)
    BY HoldsFields
  <2>8. b \in 1..Len(c.blocks) /\ c.blocks[b].phi = type
    BY <1>1, <2>7 DEF Emitting, Ports
  <2>9. Closing(Branch(c, type, b), cs, bts, Passed(st, type), d) /\ (type # "none" => E!canPop(c, 1))
    <3> HIDE DEF type, b
    <3>1. QED BY <2>0, <2>6, <2>8, BranchCloses
  <2>10. E!toEnd(c) = {Branch(c, type, b)}
    <3>1. CASE type = "none"
      BY <3>1, <1>4, <1>8 DEF E!toEnd, Branch
    <3>2. CASE type # "none"
      BY <3>2, <1>4, <1>8, <2>9 DEF E!toEnd, Branch
    <3>3. QED BY <3>1, <3>2
  <2>11. Meets(u, vcs, vlow, low, h)
    <3>1. /\ vlow \in Seq(OperandType) /\ Len(vlow) \in Nat /\ low \in Seq(Values) /\ Len(low) \in Nat
          /\ h <= Len(low) /\ Matching(vlow, low) /\ Len(vlow) = Len(low)
      <4>1. Holds(E!popped(c, Len(r)), cs, bts, low, d)
        BY <2>5 DEF Open
      <4>2. QED BY <4>1, <2>4, <1>8, AgreeTypes
    <3>2. Len(low) = h
      BY <3>1, <1>1, <1>7
    <3>3. QED BY <3>1, <3>2, <1>1 DEF Meets, Matching
  <2>12. QED BY <2>6, <2>9, <2>10, <2>11, Zenon
<1>9. CASE ~cs[k].isReachable
  <2>1. E!toEnd(c) = {c}
    BY <1>4, <1>9 DEF E!toEnd
  <2>2. Len(st) = h
    BY <1>9 DEF Agree
  <2>3. Closing(c, cs, bts, st, d)
    <3>1. c.next \in Nat /\ c = Ctx(cs, bts, st, d, c.blocks, c.order, c.insert, c.next)
          /\ Emitting(cs, bts, st, c.blocks, c.order, c.insert)
      BY HoldsFields
    <3>2. Marked(cs) = cs
      BY <1>4, <1>9, MarkedTwice
    <3>3. QED BY <3>1, <3>2, Zenon DEF Closing
  <2>4. PICK m : Pops(vcs, vst, V!result(type), m) /\ u = VCtx(vcs, SubSeq(vst, 1, m))
    <3> DEFINE r == V!result(type)
    <3>1. Len(r) \in Nat
      BY <1>5, ResultSeq, LenProperties
    <3> HIDE DEF r
    <3>2. QED BY <1>1, <1>6, <3>1, PopsOperands DEF r
  <2>5. vlow = SubSeq(vst, 1, m)
    BY <2>4, <1>v
  <2>6. m \in Nat /\ m <= Len(vst) /\ h <= m
    BY <2>4, <1>1, <1>3 DEF Pops
  <2>7. vlow \in Seq(OperandType) /\ Len(vlow) = m /\ \A j \in 1..m : vlow[j] = vst[j]
    BY <1>1, <2>5, <2>6, Below
  <2>8. m = h
    BY <1>1, <1>7, <2>6, <2>7
  <2>9. \A j \in 1..h : vlow[j] = st[j].type
    BY <1>1, <2>2, <2>7, <2>8 DEF Matching
  <2>10. Meets(u, vcs, vlow, st, h)
    BY <1>1, <2>2, <2>7, <2>8, <2>9 DEF Meets
  <2>11. QED BY <2>1, <2>3, <2>10, Zenon
<1>10. QED BY <1>8, <1>9

(* resumeAt *)
LEMMA ResumeSteps ==
  ASSUME NEW cs, NEW bts, NEW st, NEW d, NEW bs, NEW ord, NEW ins, NEW nx, NEW b
  PROVE  E!resumeAt(Ctx(cs, bts, st, d, bs, ord, ins, nx), b) = Ctx(cs, bts, st, d, bs, Moved(ord, b, ins), b, nx)
<1> DEFINE c == Ctx(cs, bts, st, d, bs, ord, ins, nx)
           m == Moved(ord, b, ins)
<1>1. c.order = ord /\ c.insert = ins
  BY CtxFields
<1> HIDE DEF c
<1>2. E!moveAfterInsert(c, b) = [c EXCEPT !.order = m]
  <2>1. \A s, k : E!RemoveAt(s, k) = RemoveAt(s, k)
    BY DEF E!RemoveAt, RemoveAt
  <2>2. \A s, k, x : E!InsertAt(s, k, x) = InsertAt(s, k, x)
    BY DEF E!InsertAt, InsertAt
  <2>3. QED BY <1>1, <2>1, <2>2 DEF E!moveAfterInsert, Moved, Where
<1> HIDE DEF m
<1>3. [c EXCEPT !.order = m] = Ctx(cs, bts, st, d, bs, m, ins, nx)
  BY DEF c, Ctx
<1>4. E!setInsertPoint(Ctx(cs, bts, st, d, bs, m, ins, nx), b) = Ctx(cs, bts, st, d, bs, m, b, nx)
  BY ContextSteps
<1>5. QED BY <1>2, <1>3, <1>4, Zenon DEF E!resumeAt, c, m

(* The emitter's invariant when an else begins. *)
LEMMA SwitchedEmitting ==
  ASSUME NEW ms, NEW bts, NEW st, NEW bs, NEW ord, NEW ins, Emitting(ms, bts, st, bs, ord, ins),
         ~ms[Len(ms)].isReachable, ms[Len(ms)].type = "ifThen", NEW xs, Switched(ms, xs)
  PROVE  LET b == ms[Len(ms)].elseBlock IN Emitting(xs, bts, st, bs, Moved(ord, b, ins), b)
<1> DEFINE k == Len(ms)
           b == ms[k].elseBlock
           n == Len(bs)
           m == Moved(ord, b, ins)
<1>1. /\ k \in Nat /\ k >= 1 /\ Len(bts) = k /\ n \in Nat /\ n >= 2 /\ Len(st) \in Nat
      /\ ins \in 2..n /\ bs \in Seq(Blocks) /\ k \in 1..k
      /\ \A j \in 1..k : ms[j] \in Contexts /\ bts[j] \in Targets
  BY EmittingTypes
<1>2. /\ bts \in Seq(Targets) /\ st \in Seq(Values) /\ ms[1].resultType = body.ret
      /\ Graph(bs) /\ InOrder(ord, n) /\ Headed(ord)
      /\ Ports(ms, bs) /\ Distinct(ms, bts) /\ Aimed(ms, bts, bs) /\ Cursor(ms, bs, ins) /\ Waited(ms, bs, ins)
      /\ Heights(ms, st)
  BY DEF Emitting
<1>3. /\ xs \in Seq(Contexts) /\ Len(xs) = k /\ xs # <<>>
      /\ \A j \in 1..k : j < k => xs[j] = ms[j]
      /\ xs[k].resultType = ms[k].resultType /\ xs[k].endBlock = ms[k].endBlock
      /\ xs[k].outerStackSize = ms[k].outerStackSize
      /\ xs[k].outerBranchTargetStackSize = ms[k].outerBranchTargetStackSize
      /\ xs[k].type = "ifElse" /\ xs[k].elseBlock = 0 /\ xs[k].isReachable
  BY DEF Switched
<1>4. b \in 3..n /\ bs[b].terms = <<>> /\ bs[b].phi = "none"
  BY <1>1, <1>2 DEF Ports
<1>5. ins # b /\ bs[ins].terms # <<>>
  BY <1>1, <1>2 DEF Cursor
<1>6. InOrder(m, n) /\ Headed(m)
  <2>1. b \in 1..n /\ ins \in 1..n /\ ins # 1 /\ b # 2 /\ b # 1 /\ b # ins
    BY <1>1, <1>4, <1>5
  <2> HIDE DEF b
  <2>2. QED BY <1>1, <1>2, <2>1, MovedInOrder
<1> HIDE DEF k, n, m
<1>7. \A j \in 1..k : /\ xs[j].resultType = ms[j].resultType /\ xs[j].endBlock = ms[j].endBlock
                      /\ xs[j].outerStackSize = ms[j].outerStackSize
                      /\ xs[j].outerBranchTargetStackSize = ms[j].outerBranchTargetStackSize
                      /\ xs[j].isReachable
                      /\ (j # k => xs[j] = ms[j])
  <2> TAKE j \in 1..k
  <2>1. CASE j = k
    BY <2>1, <1>3
  <2>2. CASE j # k
    <3>1. j < k /\ xs[j] = ms[j]
      BY <2>2, <1>1, <1>3
    <3>2. ms[j].isReachable
      BY <1>2, <3>1 DEF Heights, k
    <3>3. QED BY <3>1, <3>2
  <2>3. QED BY <2>1, <2>2
<1>8. Ports(xs, bs)
  <2> SUFFICES ASSUME NEW j \in 1..k
               PROVE  /\ xs[j].endBlock \in 1..Len(bs) /\ bs[xs[j].endBlock].terms = <<>> /\ bs[xs[j].endBlock].phi = xs[j].resultType
                      /\ IF j = 1 THEN xs[j].endBlock = 1 ELSE xs[j].endBlock > 2
                      /\ IF xs[j].type = "ifThen"
                         THEN /\ xs[j].elseBlock \in 3..Len(bs) /\ bs[xs[j].elseBlock].terms = <<>> /\ bs[xs[j].elseBlock].phi = "none"
                         ELSE xs[j].elseBlock = 0
    BY <1>3, Zenon DEF Ports
  <2>1. /\ ms[j].endBlock \in 1..Len(bs) /\ bs[ms[j].endBlock].terms = <<>> /\ bs[ms[j].endBlock].phi = ms[j].resultType
        /\ IF j = 1 THEN ms[j].endBlock = 1 ELSE ms[j].endBlock > 2
        /\ IF ms[j].type = "ifThen"
           THEN /\ ms[j].elseBlock \in 3..Len(bs) /\ bs[ms[j].elseBlock].terms = <<>> /\ bs[ms[j].elseBlock].phi = "none"
           ELSE ms[j].elseBlock = 0
    BY <1>2 DEF Ports, k
  <2>2. CASE j = k
    BY <2>1, <2>2, <1>3
  <2>3. CASE j # k
    <3>1. xs[j] = ms[j]
      BY <2>3, <1>7
    <3>2. QED BY <2>1, <3>1
  <2>4. QED BY <2>2, <2>3
<1>9. Distinct(xs, bts)
  <2> SUFFICES ASSUME NEW j \in 1..k, NEW l \in 1..k
               PROVE  /\ xs[j].elseBlock # xs[l].endBlock
                      /\ j < l => /\ xs[j].endBlock # xs[l].endBlock
                                  /\ bts[j].block # xs[l].endBlock
                                  /\ xs[j].elseBlock # 0 => xs[j].elseBlock # xs[l].elseBlock
    BY <1>3, Zenon DEF Distinct
  <2>1. /\ ms[j].elseBlock # ms[l].endBlock
        /\ j < l => /\ ms[j].endBlock # ms[l].endBlock
                    /\ bts[j].block # ms[l].endBlock
                    /\ ms[j].elseBlock # 0 => ms[j].elseBlock # ms[l].elseBlock
    BY <1>2 DEF Distinct, k
  <2>2. xs[j].endBlock = ms[j].endBlock /\ xs[l].endBlock = ms[l].endBlock
    BY <1>7
  <2>3. xs[l].endBlock # 0
    <3>1. xs[l].endBlock \in 1..Len(bs)
      BY <1>3, <1>8 DEF Ports
    <3>2. QED BY <3>1
  <2>4. xs[j].elseBlock = 0 \/ xs[j].elseBlock = ms[j].elseBlock
    BY <1>3, <1>7
  <2>5. xs[l].elseBlock = 0 \/ xs[l].elseBlock = ms[l].elseBlock
    BY <1>3, <1>7
  <2>6. QED BY <2>1, <2>2, <2>3, <2>4, <2>5, Zenon
<1>10. Aimed(xs, bts, bs)
  BY <1>1, <1>2, <1>3 DEF Aimed, k
<1>11. Cursor(xs, bs, b)
  <2>1. b \in 2..Len(bs)
    BY <1>1, <1>4 DEF n
  <2>2. ASSUME NEW j \in 1..k PROVE b # xs[j].endBlock /\ b # xs[j].elseBlock
    <3>1. b # ms[j].endBlock
      BY <1>1, <1>2 DEF Distinct, k
    <3>2. CASE j = k
      <4>1. xs[j].elseBlock = 0 /\ b # 0
        BY <3>2, <1>3, <2>1
      <4>2. QED BY <3>1, <4>1, <1>7
    <3>3. CASE j # k
      <4>1. xs[j] = ms[j] /\ j < k
        BY <3>3, <1>1, <1>7
      <4>2. ms[j].elseBlock # 0 => ms[j].elseBlock # b
        BY <1>1, <1>2, <4>1 DEF Distinct, k
      <4>3. b # 0
        BY <2>1
      <4>4. QED BY <3>1, <4>1, <4>2, <4>3
    <3>4. QED BY <3>2, <3>3
  <2>3. QED BY <2>1, <2>2, <1>3, <1>4 DEF Cursor
<1>12. Waited(xs, bs, b)
  <2> SUFFICES ASSUME NEW a \in 1..Len(bs), bs[a].terms = <<>>
               PROVE  a = b \/ \E j \in 1..Len(xs) : a = xs[j].endBlock \/ a = xs[j].elseBlock
    BY Zenon DEF Waited
  <2>1. a # ins
    BY <1>5
  <2>2. PICK j \in 1..k : a = ms[j].endBlock \/ a = ms[j].elseBlock
    BY <1>2, <2>1 DEF Waited, k
  <2>3. CASE j = k
    BY <2>2, <2>3, <1>3, <1>7 DEF b
  <2>4. CASE j # k
    BY <2>2, <2>4, <1>3, <1>7
  <2>5. QED BY <2>3, <2>4
<1>13. Heights(xs, st)
  <2>1. \A j \in 1..k : ms[j].outerStackSize <= Len(st) /\ ms[j].outerBranchTargetStackSize = j - 1
    BY <1>2 DEF Heights, k
  <2>2. \A j, l \in 1..k : j < l => ms[j].outerStackSize <= ms[l].outerStackSize
    BY <1>2 DEF Heights, k
  <2>3. QED BY <2>1, <2>2, <1>3, <1>7 DEF Heights
<1>14. xs[1].resultType = body.ret
  BY <1>1, <1>2, <1>7
<1> HIDE DEF b
<1>15. Emitting(xs, bts, st, bs, m, b)
  BY <1>2, <1>3, <1>6, <1>8, <1>9, <1>10, <1>11, <1>12, <1>13, <1>14, Zenon DEF Emitting, n
<1>16. QED BY <1>15, Zenon DEF m, b, k

(* The last context of a stack is replaced. *)
LEMMA Replaced ==
  ASSUME NEW S, NEW s \in Seq(S), s # <<>>, NEW x \in S
  PROVE  LET r == Append(SubSeq(s, 1, Len(s) - 1), x) IN
         /\ r \in Seq(S) /\ Len(r) = Len(s) /\ r # <<>> /\ r[Len(s)] = x
         /\ \A j \in 1..Len(s) : j < Len(s) => r[j] = s[j]
<1> DEFINE a == SubSeq(s, 1, Len(s) - 1)
           r == Append(a, x)
<1>0. Len(s) \in Nat /\ Len(s) >= 1
  BY LenProperties, EmptySeq
<1>1. a \in Seq(S) /\ Len(a) = Len(s) - 1 /\ \A k \in 1..(Len(s) - 1) : a[k] = s[k]
  BY <1>0, AllButLast
<1> HIDE DEF a
<1>2. r \in Seq(S) /\ Len(r) = Len(a) + 1 /\ r # <<>> /\ (\A k \in 1..Len(a) : r[k] = a[k]) /\ r[Len(a) + 1] = x
  BY <1>1, Appended
<1> HIDE DEF r
<1>3. Len(r) = Len(s) /\ r[Len(s)] = x
  BY <1>0, <1>1, <1>2
<1>4. \A j \in 1..Len(s) : j < Len(s) => r[j] = s[j]
  <2>1. \A j \in 1..Len(s) : j < Len(s) => j \in 1..Len(a) /\ j \in 1..(Len(s) - 1)
    BY <1>0, <1>1
  <2>2. QED BY <2>1, <1>1, <1>2
<1>5. QED BY <1>2, <1>3, <1>4, Zenon DEF r, a

(* else_ turns the context. *)
LEMMA ETurnedSwitched ==
  ASSUME NEW cs \in Seq(Contexts), cs # <<>>
  PROVE  Switched(Marked(cs), ETurned(cs)) /\ Switched(cs, ETurned(cs))
<1> DEFINE k == Len(cs)
           top == cs[k]
           x == [top EXCEPT !.type = "ifElse", !.isReachable = TRUE, !.elseBlock = 0]
           xs == ETurned(cs)
<1>0. k \in Nat /\ k >= 1 /\ top \in Contexts /\ k \in 1..k
  BY LenProperties, EmptySeq
<1>1. /\ x \in Contexts /\ x.resultType = top.resultType /\ x.endBlock = top.endBlock
      /\ x.outerStackSize = top.outerStackSize /\ x.outerBranchTargetStackSize = top.outerBranchTargetStackSize
      /\ x.type = "ifElse" /\ x.elseBlock = 0 /\ x.isReachable
  <2> HIDE DEF top
  <2>1. QED BY <1>0 DEF Contexts
<1> HIDE DEF x
<1>2. /\ xs \in Seq(Contexts) /\ Len(xs) = k /\ xs # <<>> /\ xs[k] = x
      /\ \A j \in 1..k : j < k => xs[j] = cs[j]
  <2> DEFINE r == Append(SubSeq(cs, 1, Len(cs) - 1), x)
  <2>1. xs = r
    BY Zenon DEF ETurned, x
  <2>2. /\ r \in Seq(Contexts) /\ Len(r) = Len(cs) /\ r # <<>> /\ r[Len(cs)] = x
        /\ \A j \in 1..Len(cs) : j < Len(cs) => r[j] = cs[j]
    BY <1>1, Replaced
  <2> HIDE DEF r, xs
  <2>3. QED BY <2>1, <2>2
<1> HIDE DEF xs
<1>3. Switched(cs, xs)
  BY <1>1, <1>2, Zenon DEF Switched
<1>4. /\ Len(Marked(cs)) = k
      /\ \A j \in 1..k : /\ Marked(cs)[j].resultType = cs[j].resultType
                         /\ Marked(cs)[j].endBlock = cs[j].endBlock
                         /\ Marked(cs)[j].outerStackSize = cs[j].outerStackSize
                         /\ Marked(cs)[j].outerBranchTargetStackSize = cs[j].outerBranchTargetStackSize
                         /\ j # k => Marked(cs)[j] = cs[j]
  BY MarkedFields
<1>5. \A j \in 1..k : j < k => xs[j] = Marked(cs)[j]
  BY <1>0, <1>2, <1>4
<1>6. Switched(Marked(cs), xs)
  <2> DEFINE ms == Marked(cs)
  <2>1. /\ ms[k].resultType = top.resultType /\ ms[k].endBlock = top.endBlock /\ ms[k].outerStackSize = top.outerStackSize
        /\ ms[k].outerBranchTargetStackSize = top.outerBranchTargetStackSize /\ Len(ms) = k
    BY <1>0, <1>4, Zenon
  <2> HIDE DEF ms, top, k
  <2>2. QED BY <2>1, <1>1, <1>2, <1>5, Zenon DEF Switched, ms
<1>7. QED BY <1>3, <1>6 DEF xs

(* Both turn to the else clause of the same context. *)
LEMMA AgreeTurned ==
  ASSUME NEW vcs, NEW vst, NEW c, NEW cs, NEW bts, NEW st, NEW d,
         Holds(c, cs, bts, st, d), Agree(vcs, vst, cs, bts, st, d), d = 0,
         NEW u, NEW vlow, NEW low, Meets(u, vcs, vlow, low, cs[Len(cs)].outerStackSize)
  PROVE  Agree(Turned(vcs), vlow, ETurned(cs), bts, low, d)
<1> DEFINE k == Len(cs)
           h == cs[k].outerStackSize
           vtop == vcs[Len(vcs)]
           y == [vtop EXCEPT !.type = "ifElse", !.isReachable = TRUE]
           vs == Turned(vcs)
           xs == ETurned(cs)
<1>1. /\ vcs \in Seq(VContexts) /\ vcs # <<>> /\ Rising(vcs, vst) /\ Len(vcs) \in Nat
      /\ k \in Nat /\ k >= 1 /\ k \in 1..k /\ h \in Nat
      /\ (\A j \in 1..Len(vcs) : vcs[j] \in VContexts)
  BY AgreeTypes
<1>2. Len(vcs) = k /\ (\A j \in 1..k : Same(vcs[j], cs[j], bts[j])) /\ d \in Nat
  BY <1>1 DEF Agree
<1>3. /\ y \in VContexts /\ y.resultType = vtop.resultType /\ y.outerStackSize = vtop.outerStackSize
      /\ y.branchArgumentType = vtop.branchArgumentType /\ y.type = "ifElse" /\ y.isReachable = TRUE
  <2>1. vtop \in VContexts
    BY <1>1, <1>2
  <2> HIDE DEF vtop
  <2>2. QED BY <2>1 DEF VContexts
<1> HIDE DEF y
<1>4. /\ vs \in Seq(VContexts) /\ Len(vs) = k /\ vs # <<>> /\ vs[k] = y
      /\ \A j \in 1..k : j < k => vs[j] = vcs[j]
  <2> DEFINE r == Append(SubSeq(vcs, 1, Len(vcs) - 1), y)
  <2>1. vs = r
    BY Zenon DEF Turned, y
  <2>2. /\ r \in Seq(VContexts) /\ Len(r) = Len(vcs) /\ r # <<>> /\ r[Len(vcs)] = y
        /\ \A j \in 1..Len(vcs) : j < Len(vcs) => r[j] = vcs[j]
    BY <1>1, <1>3, Replaced
  <2> HIDE DEF r, vs
  <2>3. QED BY <2>1, <2>2, <1>2
<1>5. cs \in Seq(Contexts) /\ cs # <<>>
  BY HoldsTypes, TopContext
<1>6. Switched(cs, xs)
  BY <1>5, ETurnedSwitched
<1> HIDE DEF vs, xs
<1>7. /\ Len(xs) = k /\ (\A j \in 1..k : j < k => xs[j] = cs[j])
      /\ xs[k].resultType = cs[k].resultType /\ xs[k].outerStackSize = cs[k].outerStackSize
      /\ xs[k].type = "ifElse" /\ xs[k].isReachable /\ xs[k].isReachable = TRUE
  <2>1. xs[k] \in Contexts
    BY <1>1, <1>6 DEF Switched
  <2>2. xs[k].isReachable \in BOOLEAN
    BY <2>1 DEF Contexts
  <2>3. QED BY <1>6, <2>2 DEF Switched
<1>8. \A j \in 1..k : Same(vs[j], xs[j], bts[j])
  <2> TAKE j \in 1..k
  <2>1. CASE j = k
    <3>1. Same(vcs[k], cs[k], bts[k]) /\ vtop = vcs[k]
      BY <1>1, <1>2
    <3>2. QED BY <2>1, <3>1, <1>3, <1>4, <1>7 DEF Same
  <2>2. CASE j # k
    BY <2>2, <1>1, <1>2, <1>4, <1>7
  <2>3. QED BY <2>1, <2>2
<1>9. /\ vlow \in Seq(OperandType) /\ low \in Seq(Values) /\ Len(vlow) = h /\ Len(low) = h
      /\ \A j \in 1..h : vlow[j] = low[j].type
  BY DEF Meets
<1>10. Rising(vs, vlow)
  <2>1. \A j \in 1..k : vs[j].outerStackSize = vcs[j].outerStackSize
    <3> TAKE j \in 1..k
    <3>1. CASE j = k
      BY <3>1, <1>2, <1>3, <1>4
    <3>2. CASE j # k
      BY <3>2, <1>1, <1>4
    <3>3. QED BY <3>1, <3>2
  <2>2. vcs[k].outerStackSize = h /\ (\A j \in 1..k : vcs[j].outerStackSize \in Nat)
    BY <1>1, <1>2 DEF Same, VContexts
  <2>3. \A j, l \in 1..k : j < l => vcs[j].outerStackSize <= vcs[l].outerStackSize
    BY <1>1, <1>2 DEF Rising
  <2>4. \A j \in 1..k : vcs[j].outerStackSize <= h
    <3> TAKE j \in 1..k
    <3>1. CASE j = k
      BY <3>1, <2>2, <1>1
    <3>2. CASE j # k
      BY <3>2, <2>2, <2>3, <1>1
    <3>3. QED BY <3>1, <3>2
  <2>5. QED BY <2>1, <2>3, <2>4, <1>4, <1>9 DEF Rising
<1>11. Matching(vlow, low)
  BY <1>1, <1>9 DEF Matching
<1>12. Len(vs) = Len(xs) + d /\ (d > 0 => ~xs[Len(xs)].isReachable)
  BY <1>1, <1>4, <1>7
<1>13. Agree(vs, vlow, xs, bts, low, d)
  BY <1>2, <1>4, <1>7, <1>8, <1>9, <1>10, <1>11, <1>12 DEF Agree
<1>14. QED BY <1>13 DEF vs, xs

(* The context at the end of its clause. *)
LEMMA ClosingTop ==
  ASSUME NEW f, NEW cs, NEW bts, NEW low, NEW d, Closing(f, cs, bts, low, d), cs \in Seq(Contexts), cs # <<>>
  PROVE  \E bs, ord, ins, nx :
            /\ f = Ctx(cs, bts, low, d, bs, ord, ins, nx) /\ nx \in Nat
            /\ Emitting(Marked(cs), bts, low, bs, ord, ins) /\ f.stack = low
            /\ LET m == Marked(cs)[Len(Marked(cs))] IN
               /\ ~m.isReachable /\ m.type = cs[Len(cs)].type /\ m.elseBlock = cs[Len(cs)].elseBlock
               /\ m.endBlock = cs[Len(cs)].endBlock /\ m.resultType = cs[Len(cs)].resultType
<1>1. PICK bs, ord, ins, nx : /\ f = Ctx(cs, bts, low, d, bs, ord, ins, nx)
                              /\ Emitting(Marked(cs), bts, low, bs, ord, ins) /\ nx \in Nat
  BY DEF Closing
<1>2. f.stack = low
  BY <1>1, CtxFields
<1> DEFINE k == Len(cs)
<1>3. /\ Len(Marked(cs)) = k /\ k \in Nat /\ k >= 1 /\ k \in 1..k /\ Marked(cs)[k].isReachable = FALSE
      /\ Marked(cs)[k].type = cs[k].type /\ Marked(cs)[k].resultType = cs[k].resultType
      /\ Marked(cs)[k].endBlock = cs[k].endBlock /\ Marked(cs)[k].elseBlock = cs[k].elseBlock
  <2>1. Len(Marked(cs)) = k /\ k \in Nat /\ k >= 1 /\ Marked(cs)[k].isReachable = FALSE
    BY MarkedFields
  <2>2. k \in 1..k
    BY <2>1
  <2>3. \A j \in 1..k : /\ Marked(cs)[j].type = cs[j].type /\ Marked(cs)[j].resultType = cs[j].resultType
                        /\ Marked(cs)[j].endBlock = cs[j].endBlock /\ Marked(cs)[j].elseBlock = cs[j].elseBlock
    BY MarkedFields
  <2>4. QED BY <2>1, <2>2, <2>3, Zenon
<1>4. QED BY <1>1, <1>2, <1>3, Zenon

(* else *)
LEMMA ElseFollows ==
  ASSUME NEW vcs, NEW vst, NEW c, NEW cs, NEW bts, NEW st, NEW d,
         Holds(c, cs, bts, st, d), Agree(vcs, vst, cs, bts, st, d), d = 0,
         NEW w \in V!else_(VCtx(vcs, vst))
  PROVE  Follows(w, E!else_(c))
<1> DEFINE k == Len(cs)
           top == cs[k]
           b == top.elseBlock
           h == top.outerStackSize
           xs == ETurned(cs)
<1>1. /\ vcs \in Seq(VContexts) /\ vcs # <<>> /\ vst \in Seq(OperandType) /\ Rising(vcs, vst) /\ Len(vcs) \in Nat
      /\ k \in Nat /\ k >= 1 /\ k \in 1..k
  BY AgreeTypes
<1>2. Len(vcs) = k /\ Same(vcs[k], top, bts[k])
  BY <1>1 DEF Agree
<1>3. PICK u \in V!popAndValidate(VCtx(vcs, vst), V!result(vcs[Len(vcs)].resultType)) : VClosing(w, vcs, u, TRUE)
  BY <1>1, VCloses DEF V!else_
<1>4. PICK vlow : /\ u = VCtx(vcs, vlow) /\ ~(Len(vlow) > vcs[Len(vcs)].outerStackSize)
                  /\ vcs[Len(vcs)].type = "ifThen" /\ w = VCtx(Turned(vcs), vlow)
  BY <1>3, Zenon DEF VClosing
<1>5. top.type = "ifThen"
  BY <1>2, <1>4 DEF Same
<1>6. PICK f, low : /\ E!toEnd(c) = {f} /\ Closing(f, cs, bts, low, d)
                    /\ Meets(u, vcs, vlow, low, cs[Len(cs)].outerStackSize)
  BY <1>3, <1>4, ToEndCloses
<1>7. cs \in Seq(Contexts) /\ cs # <<>> /\ E!Top(c) = top /\ c.controlStack = cs
  BY HoldsTypes, TopContext, HoldsFields
<1>8. PICK bs, ord, ins, nx :
              /\ f = Ctx(cs, bts, low, d, bs, ord, ins, nx) /\ nx \in Nat
              /\ Emitting(Marked(cs), bts, low, bs, ord, ins) /\ f.stack = low
              /\ LET m == Marked(cs)[Len(Marked(cs))] IN
                 /\ ~m.isReachable /\ m.type = cs[Len(cs)].type /\ m.elseBlock = cs[Len(cs)].elseBlock
                 /\ m.endBlock = cs[Len(cs)].endBlock /\ m.resultType = cs[Len(cs)].resultType
  BY <1>6, <1>7, ClosingTop
<1>9. Switched(Marked(cs), xs)
  BY <1>7, ETurnedSwitched
<1> DEFINE order == Moved(ord, b, ins)
           z == Ctx(xs, bts, low, d, bs, order, b, nx)
<1>10. Emitting(xs, bts, low, bs, order, b)
  <2> DEFINE ms == Marked(cs)
  <2>1. ~ms[Len(ms)].isReachable /\ ms[Len(ms)].type = "ifThen" /\ ms[Len(ms)].elseBlock = b
    BY <1>5, <1>8
  <2> HIDE DEF ms, xs
  <2>2. Emitting(xs, bts, low, bs, Moved(ord, ms[Len(ms)].elseBlock, ins), ms[Len(ms)].elseBlock)
    BY <1>8, <1>9, <2>1, SwitchedEmitting DEF ms
  <2>3. QED BY <2>1, <2>2, Zenon
<1>11. Len(low) = h
  BY <1>6 DEF Meets
<1>12. b # 0
  <2>1. Emitting(cs, bts, st, c.blocks, c.order, c.insert)
    BY HoldsFields
  <2>2. b \in 3..Len(c.blocks)
    BY <2>1, <1>1, <1>5 DEF Emitting, Ports
  <2>3. QED BY <2>2
<1> HIDE DEF order
<1>13. E!else_(c) = {z}
  <2> DEFINE turned == [top EXCEPT !.type = "ifElse", !.isReachable = TRUE, !.elseBlock = 0]
             switch(g) == [E!resumeAt(g, b) EXCEPT !.controlStack = Append(E!Front(@), turned)]
  <2>1. E!resumeAt(f, b) = Ctx(cs, bts, low, d, bs, order, b, nx)
    BY <1>8, ResumeSteps DEF order
  <2>2. E!Front(cs) = SubSeq(cs, 1, Len(cs) - 1)
    BY DEF E!Front
  <2>3. switch(f) = z
    <3> DEFINE g == Ctx(cs, bts, low, d, bs, order, b, nx)
    <3>1. g.controlStack = cs
      BY CtxFields
    <3>2. Append(E!Front(g.controlStack), turned) = xs
      BY <3>1, <2>2, Zenon DEF ETurned
    <3> HIDE DEF turned, xs
    <3>3. [g EXCEPT !.controlStack = xs] = z
      BY DEF Ctx
    <3> HIDE DEF z
    <3>4. QED BY <2>1, <3>2, <3>3, Zenon
  <2>4. E!else_(c) = {switch(g) : g \in {g \in E!toEnd(c) : Len(g.stack) = top.outerStackSize}}
    BY <1>5, <1>7, <1>12 DEF E!else_
  <2>5. {g \in E!toEnd(c) : Len(g.stack) = top.outerStackSize} = {f}
    BY <1>6, <1>8, <1>11
  <2> HIDE DEF z
  <2>6. QED BY <2>3, <2>4, <2>5
<1>14. Holds(z, xs, bts, low, d)
  BY <1>8, <1>10, Zenon DEF Holds
<1>15. Agree(Turned(vcs), vlow, xs, bts, low, d)
  BY <1>6, AgreeTurned
<1> HIDE DEF z, xs
<1>16. Live(w, z)
  BY <1>4, <1>14, <1>15, LiveFrom
<1>17. QED BY <1>13, <1>16, Zenon DEF Follows

(* A context other than the function's is left for the one around it. *)
LEMMA Surrounded ==
  ASSUME NEW ms, NEW bts, NEW st, NEW bs, NEW ord, NEW ins, Emitting(ms, bts, st, bs, ord, ins),
         Len(ms) > 1, ~ms[Len(ms)].isReachable, ms[Len(ms)].elseBlock = 0,
         NEW xs \in Seq(Contexts), Shortened(ms, xs), NEW ts \in Seq(Targets), Shortened(bts, ts),
         NEW stack \in Seq(Values), ms[Len(ms)].outerStackSize <= Len(stack),
         NEW ds, Resumes(bs, ms[Len(ms)].endBlock, ds)
  PROVE  LET b == ms[Len(ms)].endBlock IN Emitting(xs, ts, stack, ds, Moved(ord, b, ins), b)
<1> DEFINE k == Len(ms)
           b == ms[k].endBlock
           n == Len(bs)
           m == Moved(ord, b, ins)
<1>1. /\ k \in Nat /\ k >= 1 /\ Len(bts) = k /\ n \in Nat /\ n >= 2
      /\ ins \in 2..n /\ bs \in Seq(Blocks) /\ k \in 1..k
      /\ \A j \in 1..k : ms[j] \in Contexts /\ bts[j] \in Targets
  BY EmittingTypes
<1>2. /\ ms[1].resultType = body.ret
      /\ Graph(bs) /\ InOrder(ord, n) /\ Headed(ord)
      /\ Ports(ms, bs) /\ Distinct(ms, bts) /\ Aimed(ms, bts, bs) /\ Cursor(ms, bs, ins) /\ Waited(ms, bs, ins)
      /\ Heights(ms, st)
  BY DEF Emitting
<1>3. /\ Len(xs) = k - 1 /\ Len(ts) = k - 1 /\ Len(xs) \in Nat /\ Len(xs) >= 1
      /\ \A j \in 1..Len(xs) : j \in 1..k /\ j < k /\ xs[j] = ms[j] /\ ts[j] = bts[j]
  BY <1>1 DEF Shortened
<1>4. b \in 1..n /\ bs[b].terms = <<>> /\ b > 2
  BY <1>1, <1>2 DEF Ports
<1>5. ins # b /\ bs[ins].terms # <<>>
  BY <1>1, <1>2 DEF Cursor
<1>6. InOrder(m, n) /\ Headed(m)
  <2>1. ins \in 1..n /\ ins # 1 /\ b # 2 /\ b # 1 /\ b # ins
    BY <1>1, <1>4, <1>5
  <2> HIDE DEF b
  <2>2. QED BY <1>1, <1>2, <1>4, <2>1, MovedInOrder
<1>7. /\ Graph(ds) /\ Len(ds) = n
      /\ \A a \in 1..n : ds[a].terms = bs[a].terms /\ (a # b => ds[a].phi = bs[a].phi)
  BY DEF Resumes
<1> HIDE DEF n, m
<1>8. \A j \in 1..Len(xs) : ms[j].endBlock # b /\ ms[j].elseBlock # b /\ bts[j].block # b
  BY <1>1, <1>2, <1>3 DEF Distinct
<1>9. Ports(xs, ds)
  <2> SUFFICES ASSUME NEW j \in 1..Len(xs)
               PROVE  /\ xs[j].endBlock \in 1..Len(ds) /\ ds[xs[j].endBlock].terms = <<>> /\ ds[xs[j].endBlock].phi = xs[j].resultType
                      /\ IF j = 1 THEN xs[j].endBlock = 1 ELSE xs[j].endBlock > 2
                      /\ IF xs[j].type = "ifThen"
                         THEN /\ xs[j].elseBlock \in 3..Len(ds) /\ ds[xs[j].elseBlock].terms = <<>> /\ ds[xs[j].elseBlock].phi = "none"
                         ELSE xs[j].elseBlock = 0
    BY Zenon DEF Ports
  <2>1. /\ ms[j].endBlock \in 1..n /\ bs[ms[j].endBlock].terms = <<>> /\ bs[ms[j].endBlock].phi = ms[j].resultType
        /\ IF j = 1 THEN ms[j].endBlock = 1 ELSE ms[j].endBlock > 2
        /\ IF ms[j].type = "ifThen"
           THEN /\ ms[j].elseBlock \in 3..n /\ bs[ms[j].elseBlock].terms = <<>> /\ bs[ms[j].elseBlock].phi = "none"
           ELSE ms[j].elseBlock = 0
    BY <1>2, <1>3 DEF Ports, n
  <2>2. xs[j] = ms[j] /\ ms[j].endBlock # b /\ ms[j].elseBlock # b
    BY <1>3, <1>8
  <2>3. 3..n \subseteq 1..n
    BY <1>1
  <2> HIDE DEF b
  <2>4. QED BY <2>1, <2>2, <2>3, <1>7
<1>10. Distinct(xs, ts)
  <2> SUFFICES ASSUME NEW j \in 1..Len(xs), NEW l \in 1..Len(xs)
               PROVE  /\ xs[j].elseBlock # xs[l].endBlock
                      /\ j < l => /\ xs[j].endBlock # xs[l].endBlock
                                  /\ ts[j].block # xs[l].endBlock
                                  /\ xs[j].elseBlock # 0 => xs[j].elseBlock # xs[l].elseBlock
    BY Zenon DEF Distinct
  <2>1. j \in 1..k /\ l \in 1..k /\ xs[j] = ms[j] /\ xs[l] = ms[l] /\ ts[j] = bts[j]
    BY <1>3
  <2>2. /\ ms[j].elseBlock # ms[l].endBlock
        /\ j < l => /\ ms[j].endBlock # ms[l].endBlock
                    /\ bts[j].block # ms[l].endBlock
                    /\ ms[j].elseBlock # 0 => ms[j].elseBlock # ms[l].elseBlock
    BY <1>2, <2>1, Zenon DEF Distinct
  <2>3. QED BY <2>1, <2>2, Zenon
<1>11. Aimed(xs, ts, ds)
  <2>1. ASSUME NEW j \in 1..Len(xs) PROVE ts[j].block \in 1..Len(ds) /\ ds[ts[j].block].phi = ts[j].argumentType
    <3>1. bts[j].block \in 1..n /\ bs[bts[j].block].phi = bts[j].argumentType
      BY <1>2, <1>3 DEF Aimed, n
    <3>2. QED BY <3>1, <1>3, <1>7, <1>8
  <2>2. QED BY <1>3, <2>1 DEF Aimed
<1>12. Cursor(xs, ds, b)
  <2>1. b \in 2..Len(ds)
    BY <1>1, <1>4, <1>7
  <2>2. \A j \in 1..Len(xs) : b # xs[j].endBlock /\ b # xs[j].elseBlock
    BY <1>3, <1>8
  <2>3. xs[Len(xs)].isReachable
    <3>1. Len(xs) \in 1..Len(xs)
      BY <1>3
    <3>2. xs[Len(xs)] = ms[Len(xs)] /\ Len(xs) < k /\ Len(xs) \in 1..k
      BY <1>3, <3>1
    <3>3. QED BY <1>2, <3>2 DEF Heights
  <2>4. ds[b].terms = <<>>
    BY <1>4, <1>7
  <2> HIDE DEF b
  <2>5. QED BY <2>1, <2>2, <2>3, <2>4 DEF Cursor
<1>13. Waited(xs, ds, b)
  <2> SUFFICES ASSUME NEW a \in 1..Len(ds), ds[a].terms = <<>>
               PROVE  a = b \/ \E j \in 1..Len(xs) : a = xs[j].endBlock \/ a = xs[j].elseBlock
    BY Zenon DEF Waited
  <2>1. a \in 1..n /\ bs[a].terms = <<>> /\ a # ins /\ a # 0
    BY <1>5, <1>7
  <2>2. PICK j \in 1..k : a = ms[j].endBlock \/ a = ms[j].elseBlock
    BY <1>2, <2>1 DEF Waited, n
  <2>3. CASE j = k
    BY <2>1, <2>2, <2>3
  <2>4. CASE j # k
    <3>1. j \in 1..Len(xs)
      BY <2>4, <1>1, <1>3
    <3>2. QED BY <2>2, <3>1, <1>3
  <2>5. QED BY <2>3, <2>4
<1>14. Heights(xs, stack)
  <2>1. \A j \in 1..k : /\ ms[j].outerBranchTargetStackSize = j - 1 /\ (j < k => ms[j].isReachable)
                        /\ ms[j].outerStackSize \in Nat
    BY <1>1, <1>2 DEF Heights, Contexts
  <2>2. \A j, l \in 1..k : j < l => ms[j].outerStackSize <= ms[l].outerStackSize
    BY <1>2 DEF Heights
  <2>3. Len(stack) \in Nat
    BY LenProperties
  <2>4. ASSUME NEW j \in 1..Len(xs)
        PROVE  xs[j].outerStackSize <= Len(stack) /\ xs[j].outerBranchTargetStackSize = j - 1 /\ xs[j].isReachable
    <3>1. xs[j] = ms[j] /\ j \in 1..k /\ j < k
      BY <1>3
    <3>2. ms[j].outerStackSize <= ms[k].outerStackSize
      BY <3>1, <1>1, <2>2
    <3>3. ms[j].outerStackSize \in Nat /\ ms[k].outerStackSize \in Nat
      BY <3>1, <1>1, <2>1
    <3> DEFINE p == ms[j].outerStackSize
               q == ms[k].outerStackSize
    <3>4. p <= Len(stack)
      <4>1. p \in Nat /\ q \in Nat /\ p <= q /\ q <= Len(stack)
        BY <3>2, <3>3
      <4> HIDE DEF p, q
      <4>2. QED BY <4>1, <2>3
    <3>5. QED BY <3>1, <3>4, <2>1
  <2>5. ASSUME NEW j \in 1..Len(xs), NEW l \in 1..Len(xs), j < l
        PROVE  xs[j].outerStackSize <= xs[l].outerStackSize
    <3>1. xs[j] = ms[j] /\ j \in 1..k /\ xs[l] = ms[l] /\ l \in 1..k
      BY <1>3
    <3>2. QED BY <3>1, <2>2, <2>5
  <2>6. QED BY <2>4, <2>5, Zenon DEF Heights
<1>15. xs # <<>> /\ xs[1].resultType = body.ret
  <2>1. 1 \in 1..Len(xs)
    BY <1>3
  <2>2. xs[1] = ms[1]
    BY <1>3, <2>1
  <2>3. QED BY <1>2, <1>3, <2>2
<1> HIDE DEF b
<1>16. Emitting(xs, ts, stack, ds, m, b)
  BY <1>6, <1>7, <1>9, <1>10, <1>11, <1>12, <1>13, <1>14, <1>15 DEF Emitting
<1>17. QED BY <1>16, Zenon DEF m, b, k

(* The else block of an if without else is given its branch. *)
LEMMA ElseEmptied ==
  ASSUME NEW f, NEW cs \in Seq(Contexts), cs # <<>>, NEW bts, NEW low, NEW d, Closing(f, cs, bts, low, d),
         cs[Len(cs)].type = "ifThen" => cs[Len(cs)].resultType = "none", cs[Len(cs)].outerStackSize <= Len(low)
  PROVE  EmptyElse(E!emptyElse(f, cs[Len(cs)]), cs, bts, low, d)
<1> DEFINE k == Len(cs)
           top == cs[k]
           b == top.elseBlock
<1>1. PICK bs, ord, ins, nx :
              /\ f = Ctx(cs, bts, low, d, bs, ord, ins, nx) /\ nx \in Nat
              /\ Emitting(Marked(cs), bts, low, bs, ord, ins) /\ f.stack = low
              /\ LET m == Marked(cs)[Len(Marked(cs))] IN
                 /\ ~m.isReachable /\ m.type = cs[Len(cs)].type /\ m.elseBlock = cs[Len(cs)].elseBlock
                 /\ m.endBlock = cs[Len(cs)].endBlock /\ m.resultType = cs[Len(cs)].resultType
  BY ClosingTop
<1>2. /\ Len(Marked(cs)) = k /\ k \in Nat /\ k >= 1 /\ k \in 1..k /\ Marked(cs)[k].outerStackSize = top.outerStackSize
      /\ \A j \in 1..k : j < k => Marked(cs)[j] = cs[j]
  <2>1. Len(Marked(cs)) = k /\ k \in Nat /\ k >= 1
    BY MarkedFields
  <2>2. k \in 1..k
    BY <2>1
  <2>3. \A j \in 1..k : Marked(cs)[j].outerStackSize = cs[j].outerStackSize /\ (j # k => Marked(cs)[j] = cs[j])
    BY MarkedFields
  <2>4. \A j \in 1..k : j < k => j # k
    BY <2>1
  <2>5. QED BY <2>1, <2>2, <2>3, <2>4, Zenon
<1>3. CASE b = 0
  <2>1. E!emptyElse(f, top) = f
    BY <1>3, Zenon DEF E!emptyElse
  <2>2. Spent(Marked(cs), cs)
    BY <1>1, <1>2, <1>3, Zenon DEF Spent
  <2>3. QED BY <1>1, <2>1, <2>2, Zenon DEF EmptyElse
<1>4. CASE b # 0
  <2> DEFINE ms == Marked(cs)
             xs == ETurned(cs)
             order == Moved(ord, b, ins)
             t == Term("br", <<>>, <<top.endBlock>>)
             ds == Ended(bs, b, t)
  <2>1. ms[Len(ms)].type = "ifThen" /\ ~ms[Len(ms)].isReachable /\ ms[Len(ms)].elseBlock = b
        /\ bs[top.endBlock].phi = "none" /\ top.endBlock \in 1..Len(bs) /\ Graph(bs)
    <3>1. Ports(ms, bs) /\ Graph(bs)
      BY <1>1 DEF Emitting
    <3> HIDE DEF ms
    <3>2. /\ ms[k].endBlock \in 1..Len(bs) /\ bs[ms[k].endBlock].phi = ms[k].resultType
          /\ ms[k].type # "ifThen" => ms[k].elseBlock = 0
      BY <3>1, <1>2 DEF Ports, ms
    <3>3. Len(ms) = k
      BY <1>2 DEF ms
    <3>4. /\ ~ms[k].isReachable /\ ms[k].type = top.type /\ ms[k].elseBlock = top.elseBlock
          /\ ms[k].endBlock = top.endBlock /\ ms[k].resultType = top.resultType
      BY <1>1, <3>3, Zenon DEF ms
    <3>5. QED BY <1>4, <3>1, <3>2, <3>3, <3>4, Zenon
  <2>2. Switched(ms, xs)
    BY ETurnedSwitched
  <2>3. Emitting(xs, bts, low, bs, order, b)
    <3> HIDE DEF ms, xs, b
    <3>1. Emitting(xs, bts, low, bs, Moved(ord, ms[Len(ms)].elseBlock, ins), ms[Len(ms)].elseBlock)
      BY <1>1, <2>1, <2>2, SwitchedEmitting DEF ms
    <3>2. QED BY <2>1, <3>1, Zenon
  <2>4. Switched(cs, xs)
    BY ETurnedSwitched
  <2>5. /\ xs \in Seq(Contexts) /\ Len(xs) = k /\ xs # <<>> /\ xs[k].isReachable /\ xs[k].elseBlock = 0
        /\ xs[k].endBlock = top.endBlock /\ xs[k].resultType = top.resultType
        /\ xs[k].outerStackSize = top.outerStackSize
        /\ \A j \in 1..k : j < k => xs[j] = cs[j]
    BY <2>4, Zenon DEF Switched
  <2> HIDE DEF xs
  <2>6. b \in 1..Len(bs) /\ bs[b].terms = <<>>
    <3>1. Cursor(xs, bs, b) /\ Len(bs) \in Nat
      BY <2>3, EmittingTypes DEF Emitting
    <3>2. QED BY <3>1, <2>5 DEF Cursor
  <2>7. Leaves(bs, b, ds)
    <3> HIDE DEF b
    <3> DEFINE y == top.endBlock
    <3> HIDE DEF y
    <3>1. y \in 1..Len(bs) /\ bs[y].phi = "none"
      BY <2>1 DEF y
    <3>2. Leaves(bs, b, IF bs[y].phi = "none" THEN Ended(bs, b, Term("br", <<>>, <<y>>))
                        ELSE Ended(Given(bs, y, [value |-> 0, from |-> b]), b, Term("br", <<>>, <<y>>)))
      BY <2>1, <2>6, <3>1, BranchGraph
    <3>3. QED BY <3>1, <3>2, Zenon DEF y
  <2>8. Emitting(Marked(xs), bts, low, ds, order, b)
    <3> HIDE DEF ds, order, b
    <3>1. low \in Seq(Values) /\ xs[Len(xs)].isReachable /\ xs[Len(xs)].outerStackSize <= Len(low)
      BY <2>3, <2>5 DEF Emitting
    <3>2. QED BY <2>3, <2>7, <3>1, Left
  <2>9. Spent(Marked(xs), cs)
    <3>1. /\ Len(Marked(xs)) = Len(xs) /\ Marked(xs)[Len(xs)].isReachable = FALSE
          /\ \A j \in 1..Len(xs) : /\ Marked(xs)[j].resultType = xs[j].resultType
                                   /\ Marked(xs)[j].endBlock = xs[j].endBlock /\ Marked(xs)[j].elseBlock = xs[j].elseBlock
                                   /\ Marked(xs)[j].outerStackSize = xs[j].outerStackSize
                                   /\ j # Len(xs) => Marked(xs)[j] = xs[j]
      BY <2>5, MarkedFields
    <3>2. \A j \in 1..k : j < k => j # k
      BY <1>2
    <3>3. QED BY <3>1, <3>2, <1>2, <2>5, Zenon DEF Spent
  <2>10. E!emptyElse(f, top) = Ctx(cs, bts, low, d, ds, order, b, nx)
    <3>1. E!emptyElse(f, top) = E!terminate(E!resumeAt(f, b), "br", <<>>, <<top.endBlock>>)
      BY <1>4, Zenon DEF E!emptyElse
    <3>2. E!resumeAt(f, b) = Ctx(cs, bts, low, d, bs, order, b, nx)
      BY <1>1, ResumeSteps
    <3> HIDE DEF order, b
    <3> DEFINE y == <<top.endBlock>>
               none == <<>>
    <3> HIDE DEF y, none
    <3>3. E!terminate(Ctx(cs, bts, low, d, bs, order, b, nx), "br", none, y)
            = Ctx(cs, bts, low, d, Ended(bs, b, Term("br", none, y)), order, b, nx)
      BY ContextSteps
    <3>4. QED BY <3>1, <3>2, <3>3, Zenon DEF y, none
  <2> HIDE DEF ds, order, b
  <2>11. QED BY <1>1, <2>8, <2>9, <2>10, Zenon DEF EmptyElse
<1>5. QED BY <1>3, <1>4

(* What end leaves. *)
LEMMA EndSteps ==
  ASSUME NEW c, NEW cs, NEW bts, NEW top, NEW f, NEW low, NEW d, NEW bs, NEW ord, NEW ins, NEW nx,
         AtEnd(c, cs, bts, top, f, Ctx(cs, bts, low, d, bs, ord, ins, nx))
  PROVE  LET b == top.endBlock IN
         E!end(c) = {Ctx(SubSeq(cs, 1, Len(cs) - 1), SubSeq(bts, 1, top.outerBranchTargetStackSize),
                         MergedStack(low, bs, b, top.resultType), d,
                         MergedBlocks(bs, b, top.resultType), Moved(ord, b, ins), b, nx)}
<1> DEFINE b == top.endBlock
           type == top.resultType
           order == Moved(ord, b, ins)
           merged(g) == CASE type = "none" -> g
                          [] type # "none" /\ g.blocks[b].in # <<>> -> E!push(g, E!Value("phi", b, type))
                          [] type # "none" /\ g.blocks[b].in = <<>> ->
                                 E!push([g EXCEPT !.blocks[b].phi = "none"], E!typedZero(type))
           leave(g) == [merged(E!resumeAt(E!emptyElse(g, top), b)) EXCEPT
                            !.branchTargetStack = SubSeq(@, 1, top.outerBranchTargetStackSize),
                            !.controlStack = E!Front(@)]
           g1 == Ctx(cs, bts, low, d, bs, order, b, nx)
           st2 == MergedStack(low, bs, b, type)
           bs2 == MergedBlocks(bs, b, type)
           g2 == Ctx(cs, bts, st2, d, bs2, order, b, nx)
           xs == SubSeq(cs, 1, Len(cs) - 1)
           ts == SubSeq(bts, 1, top.outerBranchTargetStackSize)
           z == Ctx(xs, ts, st2, d, bs2, order, b, nx)
<1>0. /\ c.controlStack = cs /\ cs # <<>> /\ c.branchTargetStack = bts
      /\ E!Top(c) = top /\ top.outerBranchTargetStackSize <= Len(bts)
      /\ E!toEnd(c) = {f} /\ Len(f.stack) = top.outerStackSize
      /\ E!emptyElse(f, top) = Ctx(cs, bts, low, d, bs, ord, ins, nx)
  BY Zenon DEF AtEnd
<1>1. E!resumeAt(E!emptyElse(f, top), b) = g1
  BY <1>0, ResumeSteps
<1>2. g1.blocks = bs
  BY CtxFields
<1>3. merged(g1) = g2
  <2> HIDE DEF order
  <2>1. CASE type = "none"
    <3>1. merged(g1) = g1
      BY <2>1
    <3>2. st2 = low /\ bs2 = bs
      BY <2>1 DEF MergedStack, MergedBlocks
    <3>3. QED BY <3>1, <3>2, Zenon
  <2>2. CASE type # "none" /\ bs[b].in # <<>>
    <3> DEFINE y == E!Value("phi", b, type)
    <3>1. merged(g1) = E!push(g1, y)
      <4> HIDE DEF g1, y
      <4>1. QED BY <2>2, <1>2 DEF y
    <3>2. st2 = Append(low, y) /\ bs2 = bs
      BY <2>2 DEF MergedStack, MergedBlocks
    <3> HIDE DEF y, b
    <3>3. E!push(g1, y) = Ctx(cs, bts, Append(low, y), d, bs, order, b, nx)
      BY ContextSteps
    <3>4. QED BY <3>1, <3>2, <3>3, Zenon
  <2>3. CASE type # "none" /\ bs[b].in = <<>>
    <3> DEFINE y == E!typedZero(type)
               dropped == [bs EXCEPT ![b].phi = "none"]
    <3>1. merged(g1) = E!push([g1 EXCEPT !.blocks[b].phi = "none"], y)
      <4> HIDE DEF g1, y
      <4>1. QED BY <2>3, <1>2 DEF y
    <3>2. st2 = Append(low, y) /\ bs2 = dropped
      BY <2>3 DEF MergedStack, MergedBlocks
    <3>3. [g1 EXCEPT !.blocks[b].phi = "none"] = Ctx(cs, bts, low, d, dropped, order, b, nx)
      <4>1. [g1 EXCEPT !.blocks = dropped] = Ctx(cs, bts, low, d, dropped, order, b, nx)
        <5> HIDE DEF dropped, b
        <5>1. QED BY DEF Ctx
      <4>2. [g1 EXCEPT !.blocks[b].phi = "none"] = [g1 EXCEPT !.blocks = [g1.blocks EXCEPT ![b].phi = "none"]]
        BY Zenon
      <4>3. [g1.blocks EXCEPT ![b].phi = "none"] = dropped
        BY <1>2, Zenon
      <4> HIDE DEF dropped, g1
      <4>4. QED BY <4>1, <4>2, <4>3, Zenon
    <3> HIDE DEF y, b, dropped
    <3>4. E!push(Ctx(cs, bts, low, d, dropped, order, b, nx), y) = Ctx(cs, bts, Append(low, y), d, dropped, order, b, nx)
      BY ContextSteps
    <3>5. QED BY <3>1, <3>2, <3>3, <3>4, Zenon
  <2>4. QED BY <2>1, <2>2, <2>3, Zenon
<1>4. leave(f) = z
  <2>1. g2.branchTargetStack = bts /\ g2.controlStack = cs
    BY CtxFields
  <2>2. SubSeq(g2.branchTargetStack, 1, top.outerBranchTargetStackSize) = ts /\ E!Front(g2.controlStack) = xs
    BY <2>1, Zenon DEF E!Front
  <2>3. [[g2 EXCEPT !.branchTargetStack = ts] EXCEPT !.controlStack = xs] = z
    <3> HIDE DEF ts, xs, st2, bs2, order, b
    <3>1. [g2 EXCEPT !.branchTargetStack = ts] = Ctx(cs, ts, st2, d, bs2, order, b, nx)
      BY DEF Ctx
    <3>2. [Ctx(cs, ts, st2, d, bs2, order, b, nx) EXCEPT !.controlStack = xs] = z
      BY DEF Ctx
    <3> HIDE DEF g2, z
    <3>3. QED BY <3>1, <3>2, Zenon
  <2>4. [g2 EXCEPT !.branchTargetStack = ts].controlStack = cs
    <3> HIDE DEF ts, st2, bs2, order, b
    <3>1. QED BY DEF Ctx
  <2>5. leave(f) = [[g2 EXCEPT !.branchTargetStack = SubSeq(@, 1, top.outerBranchTargetStackSize)] EXCEPT !.controlStack = E!Front(@)]
    <3> HIDE DEF merged, g1, g2
    <3>1. QED BY <1>1, <1>3, Zenon
  <2>6. E!Front(cs) = xs
    BY Zenon DEF E!Front
  <2> HIDE DEF g2, ts, xs, z
  <2>7. [g2 EXCEPT !.branchTargetStack = SubSeq(@, 1, top.outerBranchTargetStackSize)] = [g2 EXCEPT !.branchTargetStack = ts]
    BY <2>2, Zenon
  <2> DEFINE h == [g2 EXCEPT !.branchTargetStack = ts]
  <2> HIDE DEF h
  <2>8. [h EXCEPT !.controlStack = E!Front(@)] = [h EXCEPT !.controlStack = xs]
    <3>1. E!Front(h.controlStack) = xs
      BY <2>4, <2>6, Zenon DEF h
    <3>2. QED BY <3>1, Zenon
  <2>9. leave(f) = [h EXCEPT !.controlStack = E!Front(@)] /\ [h EXCEPT !.controlStack = xs] = z
    BY <2>3, <2>5, <2>7, ZenonT(30) DEF h
  <2> HIDE DEF leave
  <2>10. QED BY <2>8, <2>9, Zenon
<1>5. E!end(c) = {leave(g) : g \in {g \in E!toEnd(c) : Len(g.stack) = top.outerStackSize}}
  BY <1>0, ZenonT(30) DEF E!end
<1>6. {g \in E!toEnd(c) : Len(g.stack) = top.outerStackSize} = {f}
  BY <1>0
<1> HIDE DEF z, leave
<1>7. E!end(c) = {z}
  BY <1>4, <1>5, <1>6
<1>8. QED BY <1>7 DEF z

(* The end block begins with the result of the context. *)
LEMMA MergedResumes ==
  ASSUME NEW bs, Graph(bs), NEW b \in 1..Len(bs), NEW type \in ResultType, NEW low \in Seq(Values)
  PROVE  Resumes(bs, b, MergedBlocks(bs, b, type)) /\ Pushed(low, MergedStack(low, bs, b, type), type)
<1>1. Resumes(bs, b, MergedBlocks(bs, b, type))
  <2>1. CASE type # "none" /\ bs[b].in = <<>>
    <3> DEFINE ds == [bs EXCEPT ![b].phi = "none"]
    <3>1. /\ Graph(ds) /\ Len(ds) = Len(bs)
          /\ \A a \in 1..Len(bs) : ds[a].terms = bs[a].terms /\ (a # b => ds[a] = bs[a])
      BY <2>1, DroppedGraph
    <3>2. MergedBlocks(bs, b, type) = ds
      BY <2>1 DEF MergedBlocks
    <3> HIDE DEF ds
    <3>3. Resumes(bs, b, ds)
      BY <3>1 DEF Resumes
    <3>4. QED BY <3>2, <3>3, Zenon
  <2>2. CASE ~(type # "none" /\ bs[b].in = <<>>)
    <3>1. MergedBlocks(bs, b, type) = bs
      BY <2>2, Zenon DEF MergedBlocks
    <3>2. Resumes(bs, b, bs)
      BY DEF Resumes
    <3>3. QED BY <3>1, <3>2, Zenon
  <2>3. QED BY <2>1, <2>2
<1>2. CASE type = "none"
  <2>1. MergedStack(low, bs, b, type) = low
    BY <1>2 DEF MergedStack
  <2>2. QED BY <1>1, <1>2, <2>1 DEF Pushed
<1>3. CASE type # "none"
  <2> DEFINE x == IF bs[b].in = <<>> THEN E!typedZero(type) ELSE E!Value("phi", b, type)
  <2>1. type \in ValueType /\ b \in Int /\ 0 \in Int
    BY <1>3 DEF ResultType
  <2>2. E!typedZero(type) \in Values /\ E!typedZero(type).type = type
    BY <2>1 DEF E!typedZero, E!Constant, E!Value, Values
  <2>3. E!Value("phi", b, type) \in Values /\ E!Value("phi", b, type).type = type
    BY <2>1 DEF E!Value, Values
  <2>4. x \in Values /\ x.type = type
    BY <2>2, <2>3, Zenon
  <2>5. MergedStack(low, bs, b, type) = Append(low, x)
    BY <1>3 DEF MergedStack
  <2> HIDE DEF x
  <2>6. Append(low, x) \in Seq(Values)
    BY <2>4, AppendProperties
  <2>7. Pushed(low, MergedStack(low, bs, b, type), type)
    BY <1>3, <2>4, <2>5, <2>6, Zenon DEF Pushed
  <2>8. QED BY <1>1, <2>7
<1>4. QED BY <1>2, <1>3

(* Both are in the context around. *)
LEMMA AgreeEnded ==
  ASSUME NEW vcs, NEW vst, NEW c, NEW cs, NEW bts, NEW st, NEW d,
         Holds(c, cs, bts, st, d), Agree(vcs, vst, cs, bts, st, d), d = 0, Len(cs) > 1,
         NEW u, NEW vlow, NEW low, Meets(u, vcs, vlow, low, cs[Len(cs)].outerStackSize),
         NEW xs \in Seq(Contexts), Shortened(cs, xs), NEW ts \in Seq(Targets), Shortened(bts, ts),
         NEW stack, Pushed(low, stack, cs[Len(cs)].resultType)
  PROVE  Around(VEnded(vcs, vlow), xs, ts, stack, d)
<1> DEFINE k == Len(cs)
           h == cs[k].outerStackSize
           type == cs[k].resultType
           ys == SubSeq(vcs, 1, Len(vcs) - 1)
           types == IF Len(vcs) > 1 /\ vcs[Len(vcs)].resultType # "none" THEN Append(vlow, vcs[Len(vcs)].resultType) ELSE vlow
<1>1. /\ vcs \in Seq(VContexts) /\ vcs # <<>> /\ Len(vcs) \in Nat /\ Rising(vcs, vst)
      /\ k \in Nat /\ k \in 1..k /\ h \in Nat
      /\ \A j \in 1..Len(vcs) : vcs[j] \in VContexts /\ vcs[j].outerStackSize \in Nat
  BY AgreeTypes
<1>2. /\ cs \in Seq(Contexts) /\ Len(bts) = k /\ Heights(cs, st)
      /\ \A j \in 1..k : cs[j] \in Contexts
  BY HoldsTypes
<1>3. Len(vcs) = k /\ \A j \in 1..k : Same(vcs[j], cs[j], bts[j])
  BY <1>1 DEF Agree
<1>4. vcs[Len(vcs)].resultType = type /\ type \in ResultType /\ vcs[k].outerStackSize = h
  <2>1. Same(vcs[k], cs[k], bts[k]) /\ cs[k] \in Contexts
    BY <1>1, <1>2, <1>3
  <2>2. QED BY <2>1, <1>3 DEF Same, Contexts
<1>5. VEnded(vcs, vlow) = VCtx(ys, types)
  BY DEF VEnded
<1>6. /\ vlow \in Seq(OperandType) /\ low \in Seq(Values) /\ Len(vlow) = h /\ Len(low) = h
      /\ \A j \in 1..h : vlow[j] = low[j].type
  BY DEF Meets
<1>7. ys \in Seq(VContexts) /\ Len(ys) = k - 1 /\ \A j \in 1..(k - 1) : ys[j] = vcs[j]
  <2>1. Len(vcs) >= 1
    BY <1>1, <1>3
  <2>2. QED BY <1>1, <1>3, <2>1, AllButLast
<1>8. /\ types \in Seq(OperandType) /\ stack \in Seq(Values) /\ Len(types) = Len(stack) /\ Len(stack) \in Nat /\ h <= Len(stack)
      /\ \A j \in 1..Len(stack) : types[j] = stack[j].type
  <2>1. CASE type = "none"
    <3>1. types = vlow /\ stack = low
      BY <2>1, <1>4 DEF Pushed
    <3>2. QED BY <3>1, <1>1, <1>6
  <2>2. CASE type # "none"
    <3>1. PICK x \in Values : x.type = type /\ stack = Append(low, x)
      BY <2>2 DEF Pushed
    <3>2. types = Append(vlow, type)
      BY <2>2, <1>3, <1>4
    <3>3. type \in OperandType
      BY <2>2, <1>4 DEF OperandType, ResultType
    <3> HIDE DEF types, type, h
    <3>4. /\ types \in Seq(OperandType) /\ Len(types) = h + 1 /\ (\A j \in 1..h : types[j] = vlow[j]) /\ types[h + 1] = type
      BY <3>2, <3>3, <1>6, Appended
    <3>5. /\ stack \in Seq(Values) /\ Len(stack) = h + 1 /\ (\A j \in 1..h : stack[j] = low[j]) /\ stack[h + 1] = x
      BY <3>1, <1>6, Appended
    <3>6. \A j \in 1..(h + 1) : j \in 1..h \/ j = h + 1
      BY <1>1
    <3>7. \A j \in 1..(h + 1) : types[j] = stack[j].type
      BY <3>1, <3>4, <3>5, <3>6, <1>6
    <3>8. h + 1 \in Nat /\ h <= h + 1
      BY <1>1
    <3>9. QED BY <3>4, <3>5, <3>7, <3>8
  <2>3. QED BY <2>1, <2>2
<1> HIDE DEF types, ys
<1>9. /\ Len(xs) = k - 1 /\ Len(xs) \in Nat /\ Len(xs) >= 1 /\ Len(ys) = Len(xs)
      /\ \A j \in 1..Len(xs) : j \in 1..k /\ j < k /\ j \in 1..(k - 1) /\ xs[j] = cs[j] /\ ts[j] = bts[j] /\ ys[j] = vcs[j]
  <2>1. Len(xs) = k - 1 /\ \A j \in 1..(k - 1) : xs[j] = cs[j]
    BY DEF Shortened
  <2>2. \A j \in 1..(k - 1) : ts[j] = bts[j]
    BY <1>2 DEF Shortened
  <2>3. Len(xs) \in Nat /\ Len(xs) >= 1 /\ \A j \in 1..(k - 1) : j \in 1..k /\ j < k
    BY <2>1, <1>1
  <2> HIDE DEF k
  <2>4. QED BY <2>1, <2>2, <2>3, <1>7
<1>10. \A j \in 1..Len(xs) : Same(ys[j], xs[j], ts[j])
  BY <1>3, <1>9
<1>11. xs[Len(xs)].isReachable
  <2>1. Len(xs) \in 1..Len(xs)
    BY <1>9
  <2>2. xs[Len(xs)] = cs[Len(xs)] /\ Len(xs) < k /\ Len(xs) \in 1..k
    BY <1>9, <2>1
  <2>3. QED BY <1>2, <2>2 DEF Heights
<1>12. Rising(ys, types)
  <2>1. \A j, l \in 1..k : j < l => vcs[j].outerStackSize <= vcs[l].outerStackSize
    BY <1>1, <1>3 DEF Rising
  <2>2. ASSUME NEW j \in 1..Len(ys) PROVE ys[j].outerStackSize <= Len(types)
    <3>1. ys[j] = vcs[j] /\ j \in 1..k /\ j < k
      BY <1>9
    <3> DEFINE p == vcs[j].outerStackSize
    <3>2. p \in Nat /\ p <= h
      BY <3>1, <1>1, <1>3, <1>4, <2>1
    <3> HIDE DEF p, h
    <3>3. p <= Len(types)
      BY <3>2, <1>1, <1>8
    <3>4. QED BY <3>1, <3>3 DEF p
  <2>3. ASSUME NEW j \in 1..Len(ys), NEW l \in 1..Len(ys), j < l PROVE ys[j].outerStackSize <= ys[l].outerStackSize
    BY <1>9, <2>1, <2>3
  <2>4. QED BY <2>2, <2>3, Zenon DEF Rising
<1>13. Matching(types, stack)
  BY <1>8 DEF Matching
<1>14. Len(ys) = Len(xs) + d /\ d \in Nat /\ ~(d > 0)
  BY <1>9
<1>15. Agree(ys, types, xs, ts, stack, d)
  BY <1>7, <1>8, <1>10, <1>11, <1>12, <1>13, <1>14 DEF Agree
<1>16. QED BY <1>5, <1>15, Zenon DEF Around

(* The end of the function: only its return is missing. *)
LEMMA LastEnd ==
  ASSUME NEW ms, NEW bts, NEW low, NEW bs, NEW ord, NEW ins, Emitting(ms, bts, low, bs, ord, ins),
         Len(ms) = 1, ~ms[1].isReachable, ms[1].elseBlock = 0,
         NEW ds, Resumes(bs, ms[1].endBlock, ds), NEW stack, Pushed(low, stack, ms[1].resultType),
         NEW ts, NEW d, NEW nx
  PROVE  Returning(Ctx(<<>>, ts, stack, d, ds, Moved(ord, ms[1].endBlock, ins), ms[1].endBlock, nx))
<1> DEFINE b == ms[1].endBlock
           order == Moved(ord, b, ins)
           z == Ctx(<<>>, ts, stack, d, ds, order, b, nx)
<1>1. /\ Len(bs) \in Nat /\ Len(bs) >= 2 /\ ins \in 2..Len(bs) /\ bs \in Seq(Blocks) /\ 1 \in 1..Len(ms)
  BY EmittingTypes
<1>2. /\ InOrder(ord, Len(bs)) /\ Headed(ord) /\ Ports(ms, bs) /\ Cursor(ms, bs, ins) /\ Waited(ms, bs, ins)
      /\ ms[1].resultType = body.ret /\ low \in Seq(Values)
  BY DEF Emitting
<1>3. b = 1 /\ bs[b].terms = <<>>
  BY <1>1, <1>2 DEF Ports
<1>4. bs[ins].terms # <<>>
  BY <1>2 DEF Cursor
<1>5. order[1] = 2
  <2>1. ins \in 1..Len(bs) /\ ins # 1 /\ 1 \in 1..Len(bs)
    BY <1>1
  <2>2. b \in 1..Len(bs) /\ ins # b /\ b # 2 /\ b = 1
    BY <2>1, <1>3
  <2> HIDE DEF b
  <2>3. QED BY <1>1, <1>2, <2>1, <2>2, MovedInOrder
<1>6. Graph(ds) /\ Len(ds) = Len(bs) /\ \A a \in 1..Len(bs) : ds[a].terms = bs[a].terms
  BY DEF Resumes
<1>7. ASSUME NEW a \in 1..Len(ds) PROVE ds[a].terms = <<>> <=> a = 1
  <2>1. bs[a].terms = <<>> => a = ins \/ \E j \in 1..Len(ms) : a = ms[j].endBlock \/ a = ms[j].elseBlock
    BY <1>2, <1>6 DEF Waited
  <2>2. \A j \in 1..Len(ms) : j = 1
    OBVIOUS
  <2>3. a # 0
    BY <1>1, <1>6
  <2>4. bs[a].terms = <<>> => a = 1
    BY <2>1, <2>2, <2>3, <1>3, <1>4
  <2>5. QED BY <2>4, <1>3, <1>6
<1>8. stack \in Seq(Values) /\ (body.ret # "none" => stack # <<>> /\ stack[Len(stack)].type = body.ret)
  <2>1. stack \in Seq(Values)
    BY DEF Pushed
  <2>2. CASE body.ret # "none"
    <3>1. PICK x \in Values : x.type = body.ret /\ stack = Append(low, x)
      BY <1>2, <2>2 DEF Pushed
    <3>2. stack # <<>> /\ Len(stack) = Len(low) + 1 /\ stack[Len(low) + 1] = x
      BY <1>2, <3>1, Appended
    <3>3. QED BY <2>1, <3>1, <3>2
  <2>3. QED BY <2>1, <2>2
<1> HIDE DEF order
<1>9. z.stack = stack /\ z.blocks = ds /\ z.order = order
  BY CtxFields
<1>10. z = Ctx(<<>>, ts, z.stack, d, z.blocks, z.order, 1, nx)
  BY <1>3, <1>9, Zenon
<1> HIDE DEF z
<1>11. \E x, y, n : z = Ctx(<<>>, x, z.stack, y, z.blocks, z.order, 1, n)
  BY <1>10, Zenon
<1>12. Graph(z.blocks) /\ Len(z.blocks) >= 2 /\ z.order[1] = 2 /\ z.stack \in Seq(Values)
  BY <1>1, <1>5, <1>6, <1>8, <1>9
<1>13. \A a \in 1..Len(z.blocks) : z.blocks[a].terms = <<>> <=> a = 1
  BY <1>7, <1>9, Zenon
<1>14. body.ret # "none" => z.stack # <<>> /\ z.stack[Len(z.stack)].type = body.ret
  BY <1>8, <1>9, Zenon
<1>15. Returning(z)
  BY <1>11, <1>12, <1>13, <1>14, Zenon DEF Returning
<1>16. QED BY <1>15 DEF z, order

(* end *)
LEMMA EndFollows ==
  ASSUME NEW vcs, NEW vst, NEW c, NEW cs, NEW bts, NEW st, NEW d,
         Holds(c, cs, bts, st, d), Agree(vcs, vst, cs, bts, st, d), d = 0,
         NEW w \in V!end(VCtx(vcs, vst))
  PROVE  Follows(w, E!end(c))
<1> DEFINE k == Len(cs)
           top == cs[k]
           b == top.endBlock
           type == top.resultType
<1>1. /\ vcs \in Seq(VContexts) /\ vcs # <<>> /\ vst \in Seq(OperandType) /\ Rising(vcs, vst) /\ Len(vcs) \in Nat
      /\ k \in Nat /\ k >= 1 /\ k \in 1..k
  BY AgreeTypes
<1>2. Len(vcs) = k /\ Same(vcs[k], top, bts[k])
  BY <1>1 DEF Agree
<1>3. PICK u \in V!popAndValidate(VCtx(vcs, vst), V!result(vcs[Len(vcs)].resultType)) : VClosing(w, vcs, u, FALSE)
  BY <1>1, VCloses DEF V!end
<1>4. PICK vlow : /\ u = VCtx(vcs, vlow) /\ ~(Len(vlow) > vcs[Len(vcs)].outerStackSize)
                  /\ (vcs[Len(vcs)].type = "ifThen" => vcs[Len(vcs)].resultType = "none") /\ w = VEnded(vcs, vlow)
  BY <1>3, Zenon DEF VClosing
<1>5. top.type = "ifThen" => type = "none"
  BY <1>2, <1>4 DEF Same
<1>6. PICK f, low : /\ E!toEnd(c) = {f} /\ Closing(f, cs, bts, low, d)
                    /\ Meets(u, vcs, vlow, low, cs[Len(cs)].outerStackSize)
  BY <1>3, <1>4, ToEndCloses
<1>7. /\ cs \in Seq(Contexts) /\ cs # <<>> /\ E!Top(c) = top /\ c.controlStack = cs /\ c.branchTargetStack = bts
      /\ bts \in Seq(Targets) /\ Len(bts) = k /\ Heights(cs, st) /\ top \in Contexts
  BY <1>1, HoldsTypes, TopContext, HoldsFields
<1>8. Len(low) = top.outerStackSize /\ low \in Seq(Values) /\ top.outerStackSize \in Nat
  BY <1>6 DEF Meets
<1>9. EmptyElse(E!emptyElse(f, top), cs, bts, low, d)
  BY <1>5, <1>6, <1>7, <1>8, ElseEmptied
<1>10. PICK ms, bs, ord, ins, nx : /\ E!emptyElse(f, top) = Ctx(cs, bts, low, d, bs, ord, ins, nx) /\ nx \in Nat
                                   /\ Emitting(ms, bts, low, bs, ord, ins) /\ Spent(ms, cs)
  BY <1>9 DEF EmptyElse
<1>11. f.stack = low
  <2>1. PICK fb, fo, fi, fn : f = Ctx(cs, bts, low, d, fb, fo, fi, fn)
    BY <1>6 DEF Closing
  <2>2. QED BY <2>1, CtxFields
<1>12. top.outerBranchTargetStackSize = k - 1 /\ top.outerBranchTargetStackSize <= Len(bts)
  BY <1>1, <1>7 DEF Heights
<1> DEFINE stack == MergedStack(low, bs, b, type)
           ds == MergedBlocks(bs, b, type)
           order == Moved(ord, b, ins)
           xs == SubSeq(cs, 1, k - 1)
           ts == SubSeq(bts, 1, k - 1)
           z == Ctx(xs, ts, stack, d, ds, order, b, nx)
<1>13. E!end(c) = {z}
  <2> HIDE DEF k, top
  <2>1. E!end(c) = {Ctx(SubSeq(cs, 1, Len(cs) - 1), SubSeq(bts, 1, top.outerBranchTargetStackSize), stack, d, ds, order, b, nx)}
    <3>1. AtEnd(c, cs, bts, top, f, Ctx(cs, bts, low, d, bs, ord, ins, nx))
      BY <1>6, <1>7, <1>8, <1>10, <1>11, <1>12, Zenon DEF AtEnd
    <3>2. QED BY <3>1, EndSteps
  <2> HIDE DEF stack, ds, order
  <2>2. QED BY <2>1, <1>12, Zenon DEF k
<1>14. /\ Len(ms) = k /\ ~ms[k].isReachable /\ ms[k].elseBlock = 0 /\ ms[k].endBlock = b /\ ms[k].resultType = type
       /\ ms[k].outerStackSize = top.outerStackSize /\ \A j \in 1..k : j < k => ms[j] = cs[j]
  BY <1>10, Zenon DEF Spent
<1>15. Graph(bs) /\ b \in 1..Len(bs) /\ type \in ResultType
  <2>1. Graph(bs) /\ Ports(ms, bs)
    BY <1>10 DEF Emitting
  <2>2. b \in 1..Len(bs)
    BY <2>1, <1>1, <1>14 DEF Ports
  <2>3. QED BY <2>1, <2>2, <1>7 DEF Contexts
<1>16. Resumes(bs, b, ds) /\ Pushed(low, stack, type)
  <2> HIDE DEF b, type
  <2>1. QED BY <1>8, <1>15, MergedResumes
<1>17. xs \in Seq(Contexts) /\ Shortened(cs, xs) /\ ts \in Seq(Targets) /\ Shortened(bts, ts)
  <2>1. Len(bts) >= 1 /\ Len(cs) >= 1
    BY <1>1, <1>7
  <2>2. SubSeq(cs, 1, Len(cs) - 1) \in Seq(Contexts) /\ Shortened(cs, SubSeq(cs, 1, Len(cs) - 1))
    BY <1>7, <2>1, AllButLast DEF Shortened
  <2>3. SubSeq(bts, 1, Len(bts) - 1) \in Seq(Targets) /\ Shortened(bts, SubSeq(bts, 1, Len(bts) - 1))
    BY <1>7, <2>1, AllButLast DEF Shortened
  <2>4. QED BY <2>2, <2>3, <1>7, Zenon
<1> HIDE DEF stack, ds, z
<1>18. CASE k = 1
  <2>1. xs = <<>>
    BY <1>1, <1>17, <1>18, EmptySeq DEF Shortened
  <2>2. Returning(Ctx(<<>>, ts, stack, d, ds, Moved(ord, ms[1].endBlock, ins), ms[1].endBlock, nx))
    <3> HIDE DEF xs, ts, order
    <3>1. Len(ms) = 1 /\ ~ms[1].isReachable /\ ms[1].elseBlock = 0
      BY <1>14, <1>18
    <3>2. Resumes(bs, ms[1].endBlock, ds) /\ Pushed(low, stack, ms[1].resultType)
      BY <1>14, <1>16, <1>18, Zenon
    <3>3. QED BY <1>10, <3>1, <3>2, LastEnd
  <2>3. ms[1].endBlock = b
    BY <1>14, <1>18
  <2> HIDE DEF xs, ts, b
  <2>4. Returning(z)
    BY <2>1, <2>2, <2>3, Zenon DEF z, order
  <2>5. QED BY <1>13, <2>4, Zenon DEF Follows
<1>19. CASE k # 1
  <2>1. Len(cs) > 1 /\ Len(ms) > 1
    BY <1>1, <1>14, <1>19
  <2>2. Shortened(ms, xs)
    <3>1. /\ Len(xs) = k - 1 /\ \A j \in 1..(k - 1) : xs[j] = cs[j]
      BY <1>17 DEF Shortened
    <3> HIDE DEF xs
    <3>2. \A j \in 1..(k - 1) : xs[j] = ms[j]
      BY <3>1, <1>1, <1>14
    <3>3. QED BY <3>1, <3>2, <1>14 DEF Shortened
  <2>3. Emitting(xs, ts, stack, ds, order, b)
    <3> HIDE DEF xs, ts
    <3>1. ~ms[Len(ms)].isReachable /\ ms[Len(ms)].elseBlock = 0 /\ ms[Len(ms)].endBlock = b
          /\ ms[Len(ms)].outerStackSize = top.outerStackSize
      BY <1>14, Zenon
    <3>2. stack \in Seq(Values) /\ top.outerStackSize <= Len(stack)
      <4>1. CASE type = "none"
        BY <4>1, <1>8, <1>16 DEF Pushed
      <4>2. CASE type # "none"
        <5>1. PICK x \in Values : stack = Append(low, x)
          BY <4>2, <1>16 DEF Pushed
        <5>2. stack \in Seq(Values) /\ Len(stack) = Len(low) + 1
          BY <5>1, <1>8, Appended
        <5>3. QED BY <5>2, <1>8
      <4>3. QED BY <4>1, <4>2
    <3>3. Resumes(bs, ms[Len(ms)].endBlock, ds) /\ ms[Len(ms)].outerStackSize <= Len(stack)
      BY <1>16, <3>1, <3>2
    <3> HIDE DEF b, top
    <3>4. Emitting(xs, ts, stack, ds, Moved(ord, ms[Len(ms)].endBlock, ins), ms[Len(ms)].endBlock)
      BY <1>10, <1>17, <2>1, <2>2, <3>1, <3>2, <3>3, Surrounded
    <3>5. QED BY <3>1, <3>4, Zenon
  <2>4. PICK ys, types : VEnded(vcs, vlow) = VCtx(ys, types) /\ Agree(ys, types, xs, ts, stack, d)
    <3> HIDE DEF xs, ts
    <3>1. Around(VEnded(vcs, vlow), xs, ts, stack, d)
      BY <1>6, <1>16, <1>17, <2>1, AgreeEnded
    <3>2. QED BY <3>1, Zenon DEF Around
  <2>5. Holds(z, xs, ts, stack, d)
    BY <1>10, <2>3, Zenon DEF Holds, z
  <2> HIDE DEF xs, ts
  <2>6. Live(w, z)
    <3>1. Live(VCtx(ys, types), z)
      BY <2>4, <2>5, LiveFrom
    <3>2. QED BY <1>4, <2>4, <3>1, Zenon
  <2>7. QED BY <1>13, <2>6, Zenon DEF Follows
<1>20. QED BY <1>18, <1>19

-----------------------------------------------------------------------------
(* Code that is not reachable *)

(* Such an operator leaves what is below the context alone. *)
LEMMA TypeableKept ==
  ASSUME NEW vcs \in Seq(VContexts), vcs # <<>>, NEW vst \in Seq(OperandType), Rising(vcs, vst),
         NEW w, Typeable(VCtx(vcs, vst), w)
  PROVE  Kept(w, vcs, vst)
<1> DEFINE h == vcs[Len(vcs)].outerStackSize
<1>1. PICK params, ret : Len(params) \in Nat /\ ret \in PushTypes /\ w \in V!operatorOn(VCtx(vcs, vst), params, ret)
  BY DEF Typeable
<1>2. PICK u \in V!popAndValidate(VCtx(vcs, vst), params) : w = V!push(u, ret)
  BY <1>1 DEF V!operatorOn
<1>3. PICK m : Pops(vcs, vst, params, m) /\ u = VCtx(vcs, SubSeq(vst, 1, m))
  BY <1>1, <1>2, PopsOperands
<1>4. Len(vcs) \in Nat /\ Len(vcs) >= 1 /\ Len(vst) \in Nat /\ h \in Nat
  <2>1. Len(vcs) \in Nat /\ Len(vcs) >= 1 /\ Len(vst) \in Nat
    BY EmptySeq, LenProperties
  <2>2. vcs[Len(vcs)] \in VContexts
    BY <2>1, ElementOfSeq
  <2>3. QED BY <2>1, <2>2 DEF VContexts
<1>5. m \in Nat /\ h <= m /\ m <= Len(vst)
  <2>1. m \in h..Len(vst)
    BY <1>3 DEF Pops
  <2> HIDE DEF h
  <2>2. QED BY <2>1, <1>4
<1> DEFINE s == SubSeq(vst, 1, m)
<1> HIDE DEF h
<1>6. s \in Seq(OperandType) /\ Len(s) = m /\ \A k \in 1..m : s[k] = vst[k]
  BY <1>5, Below
<1>7. \A k \in 1..h : k \in 1..m
  BY <1>4, <1>5
<1> HIDE DEF s
<1>8. u.stack = s /\ u = VCtx(vcs, s)
  BY <1>3 DEF VCtx, s
<1>9. CASE ret = "none"
  <2>1. w = VCtx(vcs, s)
    BY <1>2, <1>8, <1>9 DEF V!push, VCtx
  <2>2. QED BY <2>1, <1>5, <1>6, <1>7 DEF Kept, h
<1>10. CASE ret # "none"
  <2>1. ret \in OperandType
    BY <1>1, <1>10 DEF PushTypes
  <2> DEFINE types == Append(s, ret)
  <2>2. w = VCtx(vcs, types)
    <3> HIDE DEF types
    <3>1. w = [u EXCEPT !.stack = types]
      BY <1>2, <1>8, <1>10 DEF V!push, types
    <3>2. QED BY <3>1, <1>8 DEF VCtx
  <2>3. types \in Seq(OperandType) /\ Len(types) = m + 1 /\ \A k \in 1..m : types[k] = s[k]
    BY <2>1, <1>6, Appended
  <2> HIDE DEF types
  <2>4. h <= Len(types) /\ \A k \in 1..h : types[k] = vst[k]
    BY <2>3, <1>4, <1>5, <1>6, <1>7
  <2>5. QED BY <2>2, <2>3, <2>4 DEF Kept, h
<1>11. QED BY <1>9, <1>10

(* The emitter only counts the structures that are open. *)
LEMMA StaysLive ==
  ASSUME NEW vcs, NEW vst, NEW c, NEW cs, NEW bts, NEW st, NEW d,
         Holds(c, cs, bts, st, d), Agree(vcs, vst, cs, bts, st, d), ~cs[Len(cs)].isReachable,
         NEW ycs, NEW yst, NEW q, Stays(ycs, yst, vcs, vst, cs, bts, st, q)
  PROVE  Live(VCtx(ycs, yst), [c EXCEPT !.depth = q]) /\ (q = d => Live(VCtx(ycs, yst), c))
<1>1. /\ ycs \in Seq(VContexts) /\ yst \in Seq(OperandType) /\ q \in Nat /\ Len(ycs) = Len(cs) + q
      /\ \A j \in 1..Len(cs) : Same(ycs[j], cs[j], bts[j])
      /\ Rising(ycs, yst) /\ \A k \in 1..Len(st) : yst[k] = vst[k]
  BY DEF Stays
<1>2. /\ Len(cs) \in Nat /\ Len(cs) \in 1..Len(cs) /\ Matching(vst, st)
      /\ Len(st) = cs[Len(cs)].outerStackSize
  BY AgreeTypes DEF Agree
<1>3. Len(st) <= Len(yst)
  <2>1. Same(ycs[Len(cs)], cs[Len(cs)], bts[Len(cs)])
    BY <1>1, <1>2
  <2>2. Len(cs) \in 1..Len(ycs)
    BY <1>1, <1>2
  <2>3. ycs[Len(cs)].outerStackSize <= Len(yst)
    BY <1>1, <2>2 DEF Rising
  <2>4. QED BY <1>2, <2>1, <2>3 DEF Same
<1>4. Matching(yst, st)
  BY <1>1, <1>2, <1>3 DEF Matching
<1>5. Agree(ycs, yst, cs, bts, st, q)
  BY <1>1, <1>2, <1>4 DEF Agree
<1>6. Holds([c EXCEPT !.depth = q], cs, bts, st, q)
  <2>1. PICK bs, ord, ins, nx : /\ c = Ctx(cs, bts, st, d, bs, ord, ins, nx)
                                /\ Emitting(cs, bts, st, bs, ord, ins) /\ nx \in Nat
    BY DEF Holds
  <2>2. [c EXCEPT !.depth = q] = Ctx(cs, bts, st, q, bs, ord, ins, nx)
    BY <2>1 DEF Ctx
  <2>3. QED BY <2>1, <2>2 DEF Holds
<1>7. Live(VCtx(ycs, yst), [c EXCEPT !.depth = q])
  BY <1>5, <1>6, LiveFrom
<1>8. q = d => Live(VCtx(ycs, yst), c)
  BY <1>5, LiveFrom
<1>9. QED BY <1>7, <1>8

(* Contexts still begin on top of each other. *)
LEMMA RisingOn ==
  ASSUME NEW vcs \in Seq(VContexts), vcs # <<>>, NEW vst, Rising(vcs, vst),
         NEW types, Len(types) \in Nat, vcs[Len(vcs)].outerStackSize <= Len(types)
  PROVE  Rising(vcs, types)
<1>1. Len(vcs) \in Nat /\ Len(vcs) >= 1 /\ Len(vcs) \in 1..Len(vcs)
  BY EmptySeq, LenProperties
<1>2. \A j \in 1..Len(vcs) : vcs[j].outerStackSize \in Nat
  <2> TAKE j \in 1..Len(vcs)
  <2>1. vcs[j] \in VContexts
    BY ElementOfSeq
  <2>2. QED BY <2>1 DEF VContexts
<1>3. ASSUME NEW j \in 1..Len(vcs) PROVE vcs[j].outerStackSize <= Len(types)
  <2>1. j = Len(vcs) \/ vcs[j].outerStackSize <= vcs[Len(vcs)].outerStackSize
    BY <1>1 DEF Rising
  <2>2. QED BY <2>1, <1>1, <1>2
<1>4. QED BY <1>3, Zenon DEF Rising

(* In unreachable code the emitter's operands are below the context. *)
LEMMA HeldBelow ==
  ASSUME NEW vcs, NEW vst, NEW c, NEW cs, NEW bts, NEW st, NEW d,
         Holds(c, cs, bts, st, d), Agree(vcs, vst, cs, bts, st, d), ~cs[Len(cs)].isReachable
  PROVE  Held(vcs, vst, cs, bts, st, d)
<1>1. /\ vcs \in Seq(VContexts) /\ vcs # <<>> /\ Len(vcs) \in Nat /\ Len(vcs) >= Len(cs)
      /\ vst \in Seq(OperandType) /\ Len(vst) \in Nat /\ Rising(vcs, vst)
      /\ \A j \in 1..Len(vcs) : vcs[j] \in VContexts /\ vcs[j].outerStackSize \in Nat
      /\ Len(cs) \in Nat /\ Len(cs) >= 1 /\ Len(cs) \in 1..Len(cs) /\ Len(st) \in Nat
  BY AgreeTypes
<1>2. /\ d \in Nat /\ Len(vcs) = Len(cs) + d /\ Len(st) = cs[Len(cs)].outerStackSize
      /\ \A j \in 1..Len(cs) : Same(vcs[j], cs[j], bts[j])
  BY DEF Agree
<1>3. \A j \in 1..Len(cs) : j \in 1..Len(vcs)
  BY <1>1
<1>4. cs[Len(cs)].isReachable = FALSE
  <2>1. cs[Len(cs)] \in Contexts
    BY <1>1, HoldsTypes
  <2>2. QED BY <2>1 DEF Contexts
<1> DEFINE h == vcs[Len(vcs)].outerStackSize
<1>5. h \in Nat /\ h <= Len(vst)
  BY <1>1 DEF Rising
<1>6. Len(st) <= h
  <2>1. Len(st) = vcs[Len(cs)].outerStackSize
    BY <1>1, <1>2 DEF Same
  <2>2. CASE Len(cs) = Len(vcs)
    BY <2>1, <2>2, <1>5
  <2>3. CASE Len(cs) # Len(vcs)
    <3>1. Len(cs) \in 1..Len(vcs) /\ Len(vcs) \in 1..Len(vcs) /\ Len(cs) < Len(vcs)
      BY <2>3, <1>1
    <3>2. QED BY <2>1, <3>1, <1>1 DEF Rising
  <2>4. QED BY <2>2, <2>3
<1> HIDE DEF h
<1>7. \A k \in 1..Len(st) : k \in 1..h
  BY <1>1, <1>5, <1>6
<1>8. QED BY <1>1, <1>2, <1>3, <1>4, <1>5, <1>6, <1>7, Zenon DEF h, Held

(* Operators on operands. *)
LEMMA KeptLive ==
  ASSUME NEW vcs, NEW vst, NEW c, NEW cs, NEW bts, NEW st, NEW d,
         Holds(c, cs, bts, st, d), Agree(vcs, vst, cs, bts, st, d), ~cs[Len(cs)].isReachable,
         NEW w, Kept(w, vcs, vst)
  PROVE  Live(w, c)
<1> DEFINE h == vcs[Len(vcs)].outerStackSize
<1>0. Held(vcs, vst, cs, bts, st, d)
  BY HeldBelow
<1>1. /\ d \in Nat /\ Len(vcs) = Len(cs) + d /\ h \in Nat /\ \A k \in 1..Len(st) : k \in 1..h
      /\ \A j \in 1..Len(cs) : Same(vcs[j], cs[j], bts[j])
      /\ vcs \in Seq(VContexts) /\ vcs # <<>> /\ Rising(vcs, vst)
  BY <1>0, Zenon DEF Held
<1>2. PICK types \in Seq(OperandType) : w = VCtx(vcs, types) /\ h <= Len(types) /\ \A k \in 1..h : types[k] = vst[k]
  BY DEF Kept
<1>3. Rising(vcs, types)
  <2>1. Len(types) \in Nat
    BY LenProperties
  <2>2. QED BY <2>1, <1>1, <1>2, RisingOn
<1>4. Stays(vcs, types, vcs, vst, cs, bts, st, d)
  BY <1>1, <1>2, <1>3 DEF Stays
<1>5. QED BY <1>2, <1>4, StaysLive

(* Operators that end in a branch. *)
LEMMA LeftLive ==
  ASSUME NEW vcs, NEW vst, NEW c, NEW cs, NEW bts, NEW st, NEW d,
         Holds(c, cs, bts, st, d), Agree(vcs, vst, cs, bts, st, d), ~cs[Len(cs)].isReachable,
         NEW w, NEW expected, Len(expected) \in Nat, w \in V!leaves(VCtx(vcs, vst), expected)
  PROVE  Live(w, c)
<1> DEFINE h == vcs[Len(vcs)].outerStackSize
           ms == Marked(vcs)
<1>0. Held(vcs, vst, cs, bts, st, d)
  BY HeldBelow
<1>1. /\ d \in Nat /\ Len(vcs) = Len(cs) + d /\ h \in Nat /\ \A k \in 1..Len(st) : k \in 1..h
      /\ \A j \in 1..Len(cs) : Same(vcs[j], cs[j], bts[j]) /\ j \in 1..Len(vcs)
      /\ vcs \in Seq(VContexts) /\ vcs # <<>> /\ vst \in Seq(OperandType) /\ Rising(vcs, vst)
      /\ Len(cs) \in Nat /\ Len(cs) >= 1 /\ cs[Len(cs)].isReachable = FALSE
  BY <1>0, Zenon DEF Held
<1>2. PICK u \in V!popAndValidate(VCtx(vcs, vst), expected) : w \in V!enterUnreachable(u)
  BY DEF V!leaves
<1>3. PICK m : Pops(vcs, vst, expected, m) /\ u = VCtx(vcs, SubSeq(vst, 1, m))
  BY <1>1, <1>2, PopsOperands
<1> DEFINE s == SubSeq(vst, 1, m)
           types == SubSeq(s, 1, h)
<1>4. w = VCtx(ms, types)
  <2> HIDE DEF s
  <2>1. w \in V!enterUnreachable(VCtx(vcs, s))
    BY <1>2, <1>3 DEF s
  <2>2. QED BY <2>1, <1>1, VLeaves
<1>5. Len(vst) \in Nat /\ m \in Nat /\ h <= m /\ m <= Len(vst)
  <2>1. m \in h..Len(vst) /\ Len(vst) \in Nat
    BY <1>1, <1>3, LenProperties DEF Pops
  <2> HIDE DEF h
  <2>2. QED BY <2>1, <1>1
<1> HIDE DEF h
<1>6. s \in Seq(OperandType) /\ Len(s) = m /\ \A k \in 1..m : s[k] = vst[k]
  BY <1>1, <1>5, Below
<1> HIDE DEF s
<1>7. types \in Seq(OperandType) /\ Len(types) = h /\ \A k \in 1..h : types[k] = s[k]
  BY <1>1, <1>5, <1>6, Below
<1> HIDE DEF types
<1>8. \A k \in 1..Len(st) : types[k] = vst[k]
  <2>1. \A k \in 1..h : k \in 1..m
    BY <1>1, <1>5
  <2>2. QED BY <2>1, <1>1, <1>6, <1>7
<1>9. /\ ms \in Seq(VContexts) /\ Len(ms) = Len(vcs) /\ ms # <<>> /\ Len(vcs) \in Nat
      /\ \A j \in 1..Len(vcs) : /\ ms[j].type = vcs[j].type /\ ms[j].resultType = vcs[j].resultType
                                /\ ms[j].outerStackSize = vcs[j].outerStackSize
                                /\ ms[j].branchArgumentType = vcs[j].branchArgumentType
                                /\ j # Len(vcs) => ms[j] = vcs[j]
      /\ ms[Len(vcs)].isReachable = FALSE
  BY <1>1, VMarkedFields
<1> HIDE DEF ms
<1>10. ASSUME NEW j \in 1..Len(cs) PROVE Same(ms[j], cs[j], bts[j])
  <2>1. CASE j # Len(vcs)
    BY <2>1, <1>1, <1>9
  <2>2. CASE j = Len(vcs)
    <3>1. j = Len(cs)
      BY <2>2, <1>1
    <3>2. Same(vcs[j], cs[j], bts[j]) /\ j \in 1..Len(vcs)
      BY <1>1
    <3>3. QED BY <2>2, <3>1, <3>2, <1>1, <1>9 DEF Same
  <2>3. QED BY <2>1, <2>2
<1>11. Rising(ms, types)
  <2>1. Rising(vcs, types)
    <3>1. Len(types) \in Nat /\ vcs[Len(vcs)].outerStackSize <= Len(types)
      BY <1>1, <1>7 DEF h
    <3>2. QED BY <3>1, <1>1, RisingOn
  <2>2. QED BY <2>1, <1>9 DEF Rising
<1>12. Stays(ms, types, vcs, vst, cs, bts, st, d)
  BY <1>1, <1>7, <1>8, <1>9, <1>10, <1>11 DEF Stays
<1>13. QED BY <1>4, <1>12, StaysLive

(* Operands are popped, or not there to be popped. *)
LEMMA PoppedKept ==
  ASSUME NEW vcs \in Seq(VContexts), vcs # <<>>, NEW vst \in Seq(OperandType), Rising(vcs, vst),
         NEW expected, Len(expected) \in Nat, NEW u \in V!popAndValidate(VCtx(vcs, vst), expected)
  PROVE  Kept(u, vcs, vst)
<1>1. u \in V!operatorOn(VCtx(vcs, vst), expected, "none")
  BY OneSided
<1>2. "none" \in PushTypes
  BY DEF PushTypes
<1>3. Typeable(VCtx(vcs, vst), u)
  BY <1>1, <1>2, Zenon DEF Typeable
<1>4. QED BY <1>3, TypeableKept

(* A structure begins. *)
LEMMA BegunLive ==
  ASSUME NEW vcs, NEW vst, NEW c, NEW cs, NEW bts, NEW st, NEW d,
         Holds(c, cs, bts, st, d), Agree(vcs, vst, cs, bts, st, d), ~cs[Len(cs)].isReachable,
         NEW u, Kept(u, vcs, vst), NEW type \in BeginTypes, NEW argument \in ResultType, NEW t \in ResultType,
         NEW w, w = V!pushControlStack(u, type, argument, t)
  PROVE  Live(w, [c EXCEPT !.depth = d + 1])
<1> DEFINE h == vcs[Len(vcs)].outerStackSize
<1>0. Held(vcs, vst, cs, bts, st, d)
  BY HeldBelow
<1>1. /\ d \in Nat /\ Len(vcs) = Len(cs) + d /\ h \in Nat /\ (\A k \in 1..Len(st) : k \in 1..h)
      /\ \A j \in 1..Len(cs) : Same(vcs[j], cs[j], bts[j]) /\ j \in 1..Len(vcs)
      /\ vcs \in Seq(VContexts) /\ vcs # <<>> /\ Rising(vcs, vst) /\ Len(cs) \in Nat
  BY <1>0, Zenon DEF Held
<1>2. PICK types \in Seq(OperandType) : u = VCtx(vcs, types) /\ h <= Len(types) /\ \A k \in 1..h : types[k] = vst[k]
  BY DEF Kept
<1> DEFINE y == VContext(type, argument, t, types)
           ys == Append(vcs, y)
<1>3. w = VCtx(ys, types)
  BY <1>2, VSteps
<1>4. Len(types) \in Nat
  BY LenProperties
<1>5. y \in VContexts /\ y.outerStackSize = Len(types)
  BY <1>4 DEF VContext, VContexts, BeginTypes
<1> HIDE DEF y
<1>6. /\ ys \in Seq(VContexts) /\ Len(ys) = Len(vcs) + 1 /\ (\A j \in 1..Len(vcs) : ys[j] = vcs[j])
      /\ ys[Len(vcs) + 1] = y /\ Len(vcs) \in Nat
  BY <1>1, <1>5, Appended
<1> HIDE DEF ys
<1>7. Rising(vcs, types)
  BY <1>1, <1>2, <1>4, RisingOn
<1>8. Rising(ys, types)
  <2>1. \A j \in 1..Len(ys) : j \in 1..Len(vcs) \/ j = Len(vcs) + 1
    BY <1>6
  <2>2. /\ \A j \in 1..Len(vcs) : ys[j].outerStackSize <= Len(types)
        /\ \A j, l \in 1..Len(vcs) : j < l => ys[j].outerStackSize <= ys[l].outerStackSize
    BY <1>6, <1>7 DEF Rising
  <2>3. ys[Len(vcs) + 1].outerStackSize = Len(types) /\ Len(types) <= Len(types)
    BY <1>4, <1>5, <1>6
  <2>4. \A j \in 1..Len(ys) : ys[j].outerStackSize <= Len(types)
    BY <2>1, <2>2, <2>3
  <2>5. ASSUME NEW j \in 1..Len(ys), NEW l \in 1..Len(ys), j < l PROVE ys[j].outerStackSize <= ys[l].outerStackSize
    <3>1. j \in 1..Len(vcs)
      BY <2>5, <1>6
    <3>2. CASE l \in 1..Len(vcs)
      BY <3>1, <3>2, <2>2, <2>5
    <3>3. CASE l = Len(vcs) + 1
      BY <3>1, <3>3, <2>2, <2>3
    <3>4. QED BY <2>1, <3>2, <3>3
  <2>6. QED BY <2>4, <2>5, Zenon DEF Rising
<1>9. Stays(ys, types, vcs, vst, cs, bts, st, d + 1)
  <2>1. Len(ys) = Len(cs) + (d + 1) /\ d + 1 \in Nat
    BY <1>1, <1>6
  <2>2. \A j \in 1..Len(cs) : Same(ys[j], cs[j], bts[j])
    BY <1>1, <1>6
  <2>3. \A k \in 1..Len(st) : types[k] = vst[k]
    BY <1>1, <1>2
  <2>4. QED BY <1>6, <1>8, <2>1, <2>2, <2>3 DEF Stays
<1> DEFINE q == d + 1
<1> HIDE DEF q
<1>10. Stays(ys, types, vcs, vst, cs, bts, st, q)
  BY <1>9 DEF q
<1>11. Live(VCtx(ys, types), [c EXCEPT !.depth = q])
  BY <1>10, StaysLive
<1>12. QED BY <1>3, <1>11 DEF q

(* The validator at an else or an end of unreachable code. *)
LEMMA IdleCloses ==
  ASSUME NEW vcs \in Seq(VContexts), vcs # <<>>, NEW vst \in Seq(OperandType), Rising(vcs, vst),
         NEW isElse \in BOOLEAN, NEW w \in V!closes(VCtx(vcs, vst), isElse)
  PROVE  \E vlow : ClosesAt(w, vcs, vst, vlow, isElse)
<1> DEFINE h == vcs[Len(vcs)].outerStackSize
<1>1. PICK u \in V!popAndValidate(VCtx(vcs, vst), V!result(vcs[Len(vcs)].resultType)) : VClosing(w, vcs, u, isElse)
  BY VCloses
<1>2. h \in Nat /\ vcs[Len(vcs)].resultType \in ResultType
  <2>1. Len(vcs) \in Nat /\ Len(vcs) >= 1
    BY EmptySeq, LenProperties
  <2>2. vcs[Len(vcs)] \in VContexts
    BY <2>1, ElementOfSeq
  <2>3. QED BY <2>2 DEF VContexts
<1>3. Kept(u, vcs, vst)
  <2> DEFINE expected == V!result(vcs[Len(vcs)].resultType)
  <2>1. Len(expected) \in Nat
    BY <1>2, ResultSeq
  <2>2. u \in V!popAndValidate(VCtx(vcs, vst), expected)
    OBVIOUS
  <2> HIDE DEF expected
  <2>3. QED BY <2>1, <2>2, PoppedKept
<1>4. PICK types \in Seq(OperandType) : u = VCtx(vcs, types) /\ h <= Len(types) /\ \A k \in 1..h : types[k] = vst[k]
  BY <1>3 DEF Kept
<1>5. PICK vlow : /\ u = VCtx(vcs, vlow) /\ ~(Len(vlow) > h)
                  /\ w = IF isElse THEN VCtx(Turned(vcs), vlow) ELSE VEnded(vcs, vlow)
  BY <1>1, Zenon DEF VClosing
<1>6. vlow = types
  BY <1>4, <1>5 DEF VCtx
<1>7. Len(types) \in Nat
  BY LenProperties
<1> HIDE DEF h
<1>8. Len(vlow) = h
  BY <1>2, <1>4, <1>5, <1>6, <1>7
<1>9. ClosesAt(w, vcs, vst, vlow, isElse)
  BY <1>4, <1>5, <1>6, <1>8, Zenon DEF ClosesAt, h
<1>10. QED BY <1>9

(* A structure ends that was not reachable. *)
LEMMA EndedLive ==
  ASSUME NEW vcs, NEW vst, NEW c, NEW cs, NEW bts, NEW st, NEW d,
         Holds(c, cs, bts, st, d), Agree(vcs, vst, cs, bts, st, d), ~cs[Len(cs)].isReachable, d # 0,
         NEW w \in V!end(VCtx(vcs, vst))
  PROVE  Live(w, [c EXCEPT !.depth = d - 1])
<1> DEFINE h == vcs[Len(vcs)].outerStackSize
           ys == SubSeq(vcs, 1, Len(vcs) - 1)
<1>0. Held(vcs, vst, cs, bts, st, d)
  BY HeldBelow
<1>1. /\ d \in Nat /\ Len(vcs) = Len(cs) + d /\ h \in Nat /\ (\A k \in 1..Len(st) : k \in 1..h)
      /\ \A j \in 1..Len(cs) : Same(vcs[j], cs[j], bts[j]) /\ j \in 1..Len(vcs)
      /\ vcs \in Seq(VContexts) /\ vcs # <<>> /\ vst \in Seq(OperandType) /\ Rising(vcs, vst)
      /\ Len(cs) \in Nat /\ Len(cs) >= 1
  BY <1>0, Zenon DEF Held
<1>2. PICK vlow : ClosesAt(w, vcs, vst, vlow, FALSE)
  BY <1>1, IdleCloses DEF V!end
<1>3. /\ vlow \in Seq(OperandType) /\ Len(vlow) = h /\ (\A k \in 1..h : vlow[k] = vst[k])
      /\ w = VEnded(vcs, vlow)
  BY <1>2, Zenon DEF ClosesAt
<1>4. Len(vcs) \in Nat /\ Len(vcs) >= 1 /\ Len(vcs) - 1 \in Nat /\ Len(vcs) - 1 = Len(cs) + (d - 1) /\ d - 1 \in Nat
  BY <1>1
<1>5. ys \in Seq(VContexts) /\ Len(ys) = Len(vcs) - 1 /\ \A j \in 1..(Len(vcs) - 1) : ys[j] = vcs[j]
  BY <1>1, <1>4, AllButLast
<1> HIDE DEF ys
<1>6. PICK types \in Seq(OperandType) : w = VCtx(ys, types) /\ h <= Len(types) /\ \A k \in 1..h : types[k] = vlow[k]
  <2> DEFINE r == vcs[Len(vcs)].resultType
  <2>1. r \in ResultType
    <3>1. vcs[Len(vcs)] \in VContexts
      BY <1>1, <1>4, ElementOfSeq
    <3>2. QED BY <3>1 DEF VContexts
  <2>2. CASE Len(vcs) > 1 /\ r # "none"
    <3>1. w = VCtx(ys, Append(vlow, r))
      BY <2>2, <1>3 DEF VEnded, ys
    <3>2. r \in OperandType
      BY <2>1, <2>2 DEF ResultType, OperandType
    <3> HIDE DEF r, h
    <3>3. Append(vlow, r) \in Seq(OperandType) /\ Len(Append(vlow, r)) = h + 1 /\ \A k \in 1..h : Append(vlow, r)[k] = vlow[k]
      BY <3>2, <1>3, Appended
    <3>4. h <= h + 1
      BY <1>1
    <3>5. QED BY <3>1, <3>3, <3>4
  <2>3. CASE ~(Len(vcs) > 1 /\ r # "none")
    <3>1. w = VCtx(ys, vlow)
      BY <2>3, <1>3 DEF VEnded, ys
    <3> HIDE DEF h
    <3>2. h <= h
      BY <1>1
    <3>3. QED BY <3>1, <3>2, <1>3
  <2>4. QED BY <2>2, <2>3
<1>7. \A j \in 1..Len(ys) : j \in 1..Len(vcs) /\ j \in 1..(Len(vcs) - 1)
  BY <1>4, <1>5
<1>8. Len(types) \in Nat
  BY LenProperties
<1>9. Rising(ys, types)
  <2>1. Rising(vcs, types)
    BY <1>1, <1>6, <1>8, RisingOn
  <2>2. QED BY <2>1, <1>5, <1>7 DEF Rising
<1>10. Stays(ys, types, vcs, vst, cs, bts, st, d - 1)
  <2>1. \A j \in 1..Len(cs) : j \in 1..(Len(vcs) - 1)
    BY <1>1, <1>4
  <2>2. \A j \in 1..Len(cs) : Same(ys[j], cs[j], bts[j])
    BY <1>1, <1>5, <2>1
  <2>3. \A k \in 1..Len(st) : types[k] = vst[k]
    BY <1>1, <1>3, <1>6
  <2>4. Len(ys) = Len(cs) + (d - 1)
    BY <1>4, <1>5
  <2>5. QED BY <1>4, <1>5, <1>9, <2>2, <2>3, <2>4 DEF Stays
<1> DEFINE q == d - 1
<1> HIDE DEF q
<1>11. Stays(ys, types, vcs, vst, cs, bts, st, q)
  BY <1>10 DEF q
<1>12. Live(VCtx(ys, types), [c EXCEPT !.depth = q])
  BY <1>11, StaysLive
<1>13. QED BY <1>6, <1>12 DEF q

(* The else of an if that was not reachable. *)
LEMMA TurnedLive ==
  ASSUME NEW vcs, NEW vst, NEW c, NEW cs, NEW bts, NEW st, NEW d,
         Holds(c, cs, bts, st, d), Agree(vcs, vst, cs, bts, st, d), ~cs[Len(cs)].isReachable, d # 0,
         NEW w \in V!else_(VCtx(vcs, vst))
  PROVE  Live(w, c)
<1> DEFINE h == vcs[Len(vcs)].outerStackSize
           ys == Turned(vcs)
           y == [vcs[Len(vcs)] EXCEPT !.type = "ifElse", !.isReachable = TRUE]
<1>0. Held(vcs, vst, cs, bts, st, d)
  BY HeldBelow
<1>1. /\ d \in Nat /\ Len(vcs) = Len(cs) + d /\ h \in Nat /\ (\A k \in 1..Len(st) : k \in 1..h)
      /\ \A j \in 1..Len(cs) : Same(vcs[j], cs[j], bts[j]) /\ j \in 1..Len(vcs)
      /\ vcs \in Seq(VContexts) /\ vcs # <<>> /\ vst \in Seq(OperandType) /\ Rising(vcs, vst)
      /\ Len(cs) \in Nat /\ Len(cs) >= 1
  BY <1>0, Zenon DEF Held
<1>2. PICK vlow : ClosesAt(w, vcs, vst, vlow, TRUE)
  BY <1>1, IdleCloses DEF V!else_
<1>3. /\ vlow \in Seq(OperandType) /\ Len(vlow) = h /\ (\A k \in 1..h : vlow[k] = vst[k])
      /\ w = VCtx(ys, vlow)
  BY <1>2, Zenon DEF ClosesAt
<1>4. y \in VContexts /\ y.outerStackSize = vcs[Len(vcs)].outerStackSize /\ Len(vcs) \in Nat /\ Len(vcs) >= 1
  <2>1. Len(vcs) \in Nat /\ Len(vcs) >= 1
    BY <1>1
  <2>2. vcs[Len(vcs)] \in VContexts
    BY <1>1, <2>1, ElementOfSeq
  <2>3. QED BY <2>1, <2>2 DEF VContexts
<1>5. ys = Append(SubSeq(vcs, 1, Len(vcs) - 1), y)
  BY DEF Turned
<1> HIDE DEF y, ys
<1>6. /\ ys \in Seq(VContexts) /\ Len(ys) = Len(vcs) /\ ys # <<>> /\ ys[Len(vcs)] = y
      /\ \A j \in 1..Len(vcs) : j < Len(vcs) => ys[j] = vcs[j]
  BY <1>1, <1>4, <1>5, Replaced
<1>7. \A j \in 1..Len(vcs) : ys[j].outerStackSize = vcs[j].outerStackSize
  <2> TAKE j \in 1..Len(vcs)
  <2>1. j < Len(vcs) \/ j = Len(vcs)
    BY <1>4
  <2>2. QED BY <2>1, <1>4, <1>6
<1>8. Rising(ys, vlow)
  <2>1. Rising(vcs, vlow)
    <3>1. Len(vlow) \in Nat /\ h <= Len(vlow)
      BY <1>1, <1>3
    <3>2. QED BY <3>1, <1>1, RisingOn
  <2>2. QED BY <2>1, <1>6, <1>7 DEF Rising
<1>9. Stays(ys, vlow, vcs, vst, cs, bts, st, d)
  <2>1. \A j \in 1..Len(cs) : j < Len(vcs)
    BY <1>1
  <2>2. \A j \in 1..Len(cs) : Same(ys[j], cs[j], bts[j])
    BY <1>1, <1>6, <2>1
  <2>3. \A k \in 1..Len(st) : vlow[k] = vst[k]
    BY <1>1, <1>3
  <2>4. QED BY <1>1, <1>3, <1>6, <1>8, <2>2, <2>3 DEF Stays
<1>10. QED BY <1>3, <1>9, StaysLive

(* Operators on operands have some type. *)
LEMMA StackTypeable ==
  ASSUME family \in 1..Len(Bodies), NEW vcs \in Seq(VContexts), vcs # <<>>, NEW vst \in Seq(OperandType), Rising(vcs, vst),
         NEW i, IsOperator(i), i.op \in StackOps, NEW w \in V!validated(VCtx(vcs, vst), i)
  PROVE  Typeable(VCtx(vcs, vst), w)
<1> DEFINE x == VCtx(vcs, vst)
           n == i.n
<1>0. n \in Nat
  BY DEF IsOperator
<1>1. \A params, ret : Len(params) \in Nat /\ ret \in PushTypes /\ w \in V!operatorOn(x, params, ret) => Typeable(x, w)
  BY Zenon DEF Typeable
<1>2. /\ \A t \in ResultType : t \in PushTypes
      /\ \A t \in ValueType : t \in PushTypes
      /\ \A t : Len(<<t>>) \in Nat
      /\ Len(<<>>) \in Nat /\ "none" \in PushTypes
  BY DEF PushTypes, OperandType, ResultType
<1>3. /\ \A t : V!push(x, t) \in V!operatorOn(x, <<>>, t)
      /\ \A expected : Len(expected) \in Nat =>
            \A u \in V!popAndValidate(x, expected) : u \in V!operatorOn(x, expected, "none")
  BY OneSided
<1>4. w \in V!validated(x, i)
  OBVIOUS
<1>5. vcs[Len(vcs)] \in VContexts /\ Len(vcs) \in Nat /\ Len(vcs) >= 1
  BY EmptySeq, LenProperties, ElementOfSeq
<1>6. \A t : V!push(x, t) = w /\ t \in PushTypes => Typeable(x, w)
  BY <1>1, <1>2, <1>3, Zenon
<1>7. \A expected : Len(expected) \in Nat /\ w \in V!popAndValidate(x, expected) => Typeable(x, w)
  BY <1>1, <1>2, <1>3, Zenon
<1> HIDE DEF x, n
<1>8. CASE i.op \in ListedOps
  <2>1. w \in V!operatorOn(x, OperandTypes(i), ResultTypeOf(i)) /\ Len(OperandTypes(i)) \in Nat /\ ResultTypeOf(i) \in ResultType
    BY <1>4, <1>8, ListedOn, OperandSeq
  <2>2. QED BY <2>1, <1>1, <1>2 DEF x
<1>9. CASE i.op = "get_local"
  <2>1. w \in IF n < Len(V!locals) THEN {V!push(x, V!locals[n + 1])} ELSE {}
    BY <1>4, <1>9 DEF V!validated, V!get_local, n
  <2>2. n < Len(V!locals) /\ w = V!push(x, V!locals[n + 1])
    BY <2>1
  <2>3. V!locals[n + 1] \in ValueType
    BY <2>2, <1>0, LocalTypes
  <2>4. QED BY <2>2, <2>3, <1>2, <1>6, Zenon DEF x
<1>10. CASE i.op = "set_local"
  <2>1. w \in IF n < Len(V!locals) THEN V!popAndValidate(x, <<V!locals[n + 1]>>) ELSE {}
    BY <1>4, <1>10 DEF V!validated, V!set_local, n
  <2>2. QED BY <2>1, <1>2, <1>7 DEF x
<1>11. CASE i.op = "tee_local"
  <2>1. w \in IF n < Len(V!locals) THEN V!operatorOn(x, <<V!locals[n + 1]>>, V!locals[n + 1]) ELSE {}
    BY <1>4, <1>11 DEF V!validated, V!tee_local, n
  <2>2. n < Len(V!locals) /\ w \in V!operatorOn(x, <<V!locals[n + 1]>>, V!locals[n + 1])
    BY <2>1
  <2>3. V!locals[n + 1] \in ValueType
    BY <2>2, <1>0, LocalTypes
  <2>4. QED BY <2>2, <2>3, <1>1, <1>2, Zenon DEF x
<1>12. CASE i.op = "get_global"
  <2>1. w \in IF n < Len(Globals) THEN {V!push(x, Globals[n + 1].type)} ELSE {}
    BY <1>4, <1>12 DEF V!validated, V!get_global, n
  <2>2. n < Len(Globals) /\ w = V!push(x, Globals[n + 1].type)
    BY <2>1
  <2>3. Globals[n + 1].type \in ValueType
    BY <2>2, <1>0, IndexTypes
  <2>4. QED BY <2>2, <2>3, <1>2, <1>6, Zenon DEF x
<1>13. CASE i.op = "set_global"
  <2> DEFINE t == Globals[n + 1].type
  <2>1. w \in IF n < Len(Globals) /\ Globals[n + 1].isMutable THEN V!popAndValidate(x, <<t>>) ELSE {}
    BY <1>4, <1>13 DEF V!validated, V!set_global, n
  <2> HIDE DEF t
  <2>2. QED BY <2>1, <1>2, <1>7 DEF x
<1>14. CASE i.op = "call"
  <2> DEFINE type == Types[Functions[n + 1] + 1]
  <2>1. w \in IF n < Len(Functions) THEN V!operatorOn(x, type.params, type.ret) ELSE {}
    BY <1>4, <1>14 DEF V!validated, V!call, n
  <2>2. n < Len(Functions) /\ w \in V!operatorOn(x, type.params, type.ret)
    BY <2>1
  <2>3. type.params \in Seq(ValueType) /\ type.ret \in ResultType
    <3>1. Functions[n + 1] \in Nat /\ Functions[n + 1] < Len(Types)
      BY <2>2, <1>0, IndexTypes
    <3>2. QED BY <3>1, IndexTypes
  <2> HIDE DEF type
  <2>4. Len(type.params) \in Nat
    BY <2>3, LenProperties
  <2>5. QED BY <2>2, <2>3, <2>4, <1>1, <1>2, Zenon DEF x
<1>15. CASE i.op = "call_indirect"
  <2> DEFINE type == Types[n + 1]
             params == Append(type.params, "i32")
  <2>1. w \in IF n < Len(Types) /\ HasTable THEN V!operatorOn(x, params, type.ret) ELSE {}
    BY <1>4, <1>15 DEF V!validated, V!call_indirect, n
  <2>2. n < Len(Types) /\ w \in V!operatorOn(x, params, type.ret)
    BY <2>1
  <2>3. type.params \in Seq(ValueType) /\ type.ret \in ResultType
    BY <2>2, <1>0, IndexTypes
  <2>4. Len(params) \in Nat
    <3>1. Len(params) = Len(type.params) + 1 /\ Len(type.params) \in Nat
      BY <2>3, AppendProperties, LenProperties
    <3>2. QED BY <3>1
  <2> HIDE DEF type, params
  <2>5. QED BY <2>2, <2>3, <2>4, <1>1, <1>2, Zenon DEF x
<1>16. CASE i.op = "drop"
  <2>1. w \in V!popAndValidate(x, <<"any">>)
    BY <1>4, <1>16 DEF V!validated, V!drop
  <2>2. QED BY <2>1, <1>2, <1>7 DEF x
<1>17. CASE i.op = "select"
  <2> DEFINE expected == <<"any", "any", "i32">>
             t == V!operand(x, 1)
  <2>1. w \in V!operatorOn(x, expected, t)
    BY <1>4, <1>17 DEF V!validated, V!select
  <2>2. Len(expected) \in Nat
    OBVIOUS
  <2>3. t \in PushTypes
    <3> DEFINE h == vcs[Len(vcs)].outerStackSize
    <3>1. t = IF 1 < Len(vst) - h THEN vst[Len(vst) - 1] ELSE "any"
      BY DEF V!operand, V!Height, V!Top, V!Last, x, VCtx
    <3>2. h \in Nat /\ Len(vst) \in Nat
      BY <1>5, LenProperties DEF VContexts
    <3> HIDE DEF h
    <3>3. 1 < Len(vst) - h => Len(vst) - 1 \in 1..Len(vst)
      BY <3>2
    <3>4. 1 < Len(vst) - h => vst[Len(vst) - 1] \in OperandType
      BY <3>3, ElementOfSeq
    <3>5. QED BY <3>1, <3>4 DEF PushTypes, OperandType
  <2> HIDE DEF expected, t
  <2>4. QED BY <2>1, <2>2, <2>3, <1>1, Zenon DEF x
<1>18. CASE i.op = "br_if"
  <2> DEFINE t == V!argumentOf(x, n)
             params == Append(V!result(t), "i32")
  <2>1. w \in IF V!hasTarget(x, n) THEN V!operatorOn(x, params, t) ELSE {}
    BY <1>4, <1>18 DEF V!validated, V!br_if, n
  <2>2. V!hasTarget(x, n) /\ w \in V!operatorOn(x, params, t)
    BY <2>1
  <2>3. t \in ResultType
    <3>1. n < Len(vcs) /\ t = vcs[Len(vcs) - n].branchArgumentType
      BY <2>2 DEF V!hasTarget, V!argumentOf, x, VCtx
    <3>2. Len(vcs) - n \in 1..Len(vcs)
      BY <3>1, <1>0, <1>5
    <3>3. vcs[Len(vcs) - n] \in VContexts
      BY <3>2, ElementOfSeq
    <3>4. QED BY <3>1, <3>3 DEF VContexts
  <2>4. Len(params) \in Nat
    <3> HIDE DEF t
    <3>1. V!result(t) \in Seq(ValueType)
      BY <2>3, ResultSeq
    <3>2. "i32" \in ValueType
      BY DEF ValueType, IntTypes
    <3>3. Append(V!result(t), "i32") \in Seq(ValueType)
      BY <3>1, <3>2, AppendProperties
    <3>4. QED BY <3>3, LenProperties
  <2> HIDE DEF t, params
  <2>5. QED BY <2>2, <2>3, <2>4, <1>1, <1>2, Zenon DEF x
<1>19. QED BY <1>8, <1>9, <1>10, <1>11, <1>12, <1>13, <1>14, <1>15, <1>16, <1>17, <1>18 DEF StackOps, IndexedOps

(* The operators that end in a branch. *)
LEMMA LeavesTypeable ==
  ASSUME family \in 1..Len(Bodies), NEW vcs \in Seq(VContexts), vcs # <<>>, NEW vst,
         NEW i, IsOperator(i), i.op \in LeaveOps, NEW w \in V!validated(VCtx(vcs, vst), i)
  PROVE  \E expected : Len(expected) \in Nat /\ w \in V!leaves(VCtx(vcs, vst), expected)
<1> DEFINE x == VCtx(vcs, vst)
           n == i.n
<1>0. n \in Nat
  BY DEF IsOperator
<1>1. w \in V!validated(x, i) /\ Len(vcs) \in Nat
  BY LenProperties
<1> HIDE DEF x, n
<1>2. "i32" \in ValueType
  BY DEF ValueType, IntTypes
<1>3. \A t \in ResultType : Len(V!result(t)) \in Nat /\ Len(Append(V!result(t), "i32")) \in Nat
  <2> TAKE t \in ResultType
  <2>1. V!result(t) \in Seq(ValueType)
    BY ResultSeq
  <2>2. Append(V!result(t), "i32") \in Seq(ValueType)
    BY <1>2, <2>1, AppendProperties
  <2>3. QED BY <2>1, <2>2, LenProperties
<1>4. V!hasTarget(x, n) => V!argumentOf(x, n) \in ResultType
  <2> SUFFICES ASSUME V!hasTarget(x, n) PROVE V!argumentOf(x, n) \in ResultType
    OBVIOUS
  <2>1. n < Len(vcs) /\ V!argumentOf(x, n) = vcs[Len(vcs) - n].branchArgumentType
    BY DEF V!hasTarget, V!argumentOf, x, VCtx
  <2>2. Len(vcs) - n \in 1..Len(vcs)
    BY <2>1, <1>0, <1>1
  <2>3. vcs[Len(vcs) - n] \in VContexts
    BY <2>2, ElementOfSeq
  <2>4. QED BY <2>1, <2>3 DEF VContexts
<1>5. CASE i.op = "br"
  <2>1. w \in IF V!hasTarget(x, n) THEN V!leaves(x, V!result(V!argumentOf(x, n))) ELSE {}
    BY <1>1, <1>5 DEF V!validated, V!br, n
  <2>2. QED BY <2>1, <1>3, <1>4 DEF x
<1>6. CASE i.op = "br_table"
  <2>1. w \in V!br_table(x, i.to, n)
    BY <1>1, <1>6 DEF V!validated, n
  <2>2. /\ \A a \in V!Range(i.to) \cup {n} : V!hasTarget(x, a)
        /\ w \in V!leaves(x, Append(V!result(V!argumentOf(x, n)), "i32"))
    BY <2>1 DEF V!br_table
  <2>3. V!hasTarget(x, n)
    BY <2>2
  <2>4. QED BY <2>2, <2>3, <1>3, <1>4 DEF x
<1>7. CASE i.op = "return"
  <2>1. w \in V!leaves(x, V!result(body.ret))
    BY <1>1, <1>7 DEF V!validated, V!return_, Type
  <2>2. body.ret \in ResultType
    BY LocalTypes
  <2>3. QED BY <2>1, <2>2, <1>3 DEF x
<1>8. CASE i.op = "unreachable"
  <2>1. w \in V!enterUnreachable(x)
    BY <1>1, <1>8 DEF V!validated, V!unreachable
  <2> DEFINE none == <<>>
  <2>2. Len(none) = 0
    OBVIOUS
  <2> HIDE DEF none
  <2>3. V!popAndValidate(x, none) = {x}
    BY <2>2 DEF V!popAndValidate
  <2>4. w \in V!leaves(x, none)
    BY <2>1, <2>3 DEF V!leaves
  <2>5. QED BY <2>2, <2>4 DEF x
<1>9. QED BY <1>5, <1>6, <1>7, <1>8 DEF LeaveOps

(* The emitter counts the structure that the validator enters. *)
LEMMA IdleBegins ==
  ASSUME NEW vcs, NEW vst, NEW c, NEW cs, NEW bts, NEW st, NEW d,
         Holds(c, cs, bts, st, d), Agree(vcs, vst, cs, bts, st, d), ~cs[Len(cs)].isReachable,
         NEW i, IsOperator(i), i.op \in ControlStructureImm, NEW w \in V!validated(VCtx(vcs, vst), i)
  PROVE  Live(w, [c EXCEPT !.depth = d + 1])
<1> DEFINE x == VCtx(vcs, vst)
           t == i.type
<1>0. Held(vcs, vst, cs, bts, st, d)
  BY HeldBelow
<1>1. vcs \in Seq(VContexts) /\ vcs # <<>> /\ vst \in Seq(OperandType) /\ Rising(vcs, vst)
  BY <1>0, Zenon DEF Held
<1>2. t \in ResultType /\ "none" \in ResultType
  BY DEF IsOperator, ResultType
<1>3. "block" \in BeginTypes /\ "loop" \in BeginTypes /\ "ifThen" \in BeginTypes
  BY DEF BeginTypes
<1>4. w \in V!validated(x, i)
  OBVIOUS
<1>5. \A u \in V!popAndValidate(x, <<"i32">>) : Kept(u, vcs, vst)
  <2> DEFINE expected == <<"i32">>
  <2>1. Len(expected) \in Nat
    OBVIOUS
  <2> HIDE DEF expected
  <2>2. \A u \in V!popAndValidate(x, expected) : Kept(u, vcs, vst)
    BY <1>1, <2>1, PoppedKept
  <2>3. QED BY <2>2 DEF expected
<1>6. Kept(x, vcs, vst)
  <2> DEFINE none == <<>>
  <2>1. Len(none) = 0
    OBVIOUS
  <2> HIDE DEF none
  <2>2. Len(none) \in Nat /\ x \in V!popAndValidate(x, none)
    BY <2>1 DEF V!popAndValidate
  <2>3. QED BY <1>1, <2>2, PoppedKept
<1> HIDE DEF x, t
<1>7. CASE i.op = "block"
  <2>1. w = V!pushControlStack(x, "block", t, t)
    BY <1>4, <1>7 DEF V!validated, V!block, t
  <2>2. QED BY <1>2, <1>3, <1>6, <2>1, BegunLive
<1>8. CASE i.op = "loop"
  <2>1. w = V!pushControlStack(x, "loop", "none", t)
    BY <1>4, <1>8 DEF V!validated, V!loop, t
  <2>2. QED BY <1>2, <1>3, <1>6, <2>1, BegunLive
<1>9. CASE i.op = "if"
  <2>1. PICK u \in V!popAndValidate(x, <<"i32">>) : w = V!pushControlStack(u, "ifThen", t, t)
    BY <1>4, <1>9 DEF V!validated, V!if_, t
  <2>2. Kept(u, vcs, vst)
    BY <1>5, <2>1
  <2>3. QED BY <1>2, <1>3, <2>1, <2>2, BegunLive
<1>10. QED BY <1>7, <1>8, <1>9 DEF ControlStructureImm

(* An operator in code that is not reachable. *)
LEMMA IdleFollows ==
  ASSUME family \in 1..Len(Bodies),
         NEW vcs, NEW vst, NEW c, NEW cs, NEW bts, NEW st, NEW d,
         Holds(c, cs, bts, st, d), Agree(vcs, vst, cs, bts, st, d), ~cs[Len(cs)].isReachable,
         NEW i, IsOperator(i), NEW w \in V!validated(VCtx(vcs, vst), i)
  PROVE  Follows(w, E!unreachableVisit(c, i))
<1>0. Held(vcs, vst, cs, bts, st, d)
  BY HeldBelow
<1>1. vcs \in Seq(VContexts) /\ vcs # <<>> /\ vst \in Seq(OperandType) /\ Rising(vcs, vst)
  BY <1>0, Zenon DEF Held
<1>2. c.depth = d
  BY HoldsFields
<1>3. i.op \in Ops
  BY DEF IsOperator
<1>4. \A z : E!unreachableVisit(c, i) = {z} /\ Live(w, z) => Follows(w, E!unreachableVisit(c, i))
  BY Zenon DEF Follows
<1>5. E!ControlStructureImm = {"block", "loop", "if"} /\ ControlStructureImm = {"block", "loop", "if"}
  BY Zenon DEF E!ControlStructureImm, ControlStructureImm
<1>6. CASE i.op \in ControlStructureImm
  <2>1. E!unreachableVisit(c, i) = {[c EXCEPT !.depth = c.depth + 1]}
    BY <1>5, <1>6 DEF E!unreachableVisit
  <2>2. Live(w, [c EXCEPT !.depth = d + 1])
    BY <1>6, IdleBegins
  <2>3. QED BY <2>1, <2>2, <1>2, <1>4
<1>7. CASE i.op = "else" /\ d = 0
  <2>1. E!unreachableVisit(c, i) = E!else_(c)
    BY <1>2, <1>5, <1>7 DEF E!unreachableVisit
  <2>2. w \in V!else_(VCtx(vcs, vst))
    BY <1>7 DEF V!validated
  <2>3. QED BY <1>7, <2>1, <2>2, ElseFollows
<1>8. CASE i.op = "end" /\ d = 0
  <2>1. E!unreachableVisit(c, i) = E!end(c)
    BY <1>2, <1>5, <1>8 DEF E!unreachableVisit
  <2>2. w \in V!end(VCtx(vcs, vst))
    BY <1>8 DEF V!validated
  <2>3. QED BY <1>8, <2>1, <2>2, EndFollows
<1>9. CASE i.op = "else" /\ d # 0
  <2>1. E!unreachableVisit(c, i) = {c}
    BY <1>2, <1>5, <1>9 DEF E!unreachableVisit
  <2>2. w \in V!else_(VCtx(vcs, vst))
    BY <1>9 DEF V!validated
  <2>3. Live(w, c)
    BY <1>9, <2>2, TurnedLive
  <2>4. QED BY <2>1, <2>3, <1>4
<1>10. CASE i.op = "end" /\ d # 0
  <2>1. E!unreachableVisit(c, i) = {[c EXCEPT !.depth = c.depth - 1]}
    BY <1>2, <1>5, <1>10 DEF E!unreachableVisit
  <2>2. w \in V!end(VCtx(vcs, vst))
    BY <1>10 DEF V!validated
  <2>3. Live(w, [c EXCEPT !.depth = d - 1])
    BY <1>10, <2>2, EndedLive
  <2>4. QED BY <2>1, <2>3, <1>2, <1>4
<1>11. CASE i.op \in LeaveOps
  <2>1. E!unreachableVisit(c, i) = {c}
    BY <1>5, <1>11 DEF E!unreachableVisit, LeaveOps
  <2>2. PICK expected : Len(expected) \in Nat /\ w \in V!leaves(VCtx(vcs, vst), expected)
    BY <1>1, <1>11, LeavesTypeable
  <2>3. Live(w, c)
    BY <2>2, LeftLive
  <2>4. QED BY <2>1, <2>3, <1>4
<1>12. CASE i.op \in StackOps
  <2>1. E!unreachableVisit(c, i) = {c}
    BY <1>5, <1>12 DEF E!unreachableVisit, StackOps, ListedOps, IndexedOps
  <2>2. Typeable(VCtx(vcs, vst), w)
    BY <1>1, <1>12, StackTypeable
  <2>3. Kept(w, vcs, vst)
    BY <1>1, <2>2, TypeableKept
  <2>4. Live(w, c)
    BY <2>3, KeptLive
  <2>5. QED BY <2>1, <2>4, <1>4
<1>13. QED
  BY <1>3, <1>5, <1>6, <1>7, <1>8, <1>9, <1>10, <1>11, <1>12 DEF Ops, LeaveOps, StackOps, ListedOps, IndexedOps

-----------------------------------------------------------------------------
(* A step that stays with the same body *)

(* The types of an instruction depend on the body alone. *)
LEMMA WellTypedPrime ==
  ASSUME family' = family, NEW x
  PROVE  WellTyped(x)' <=> WellTyped(x)
BY DEF WellTyped, E!locals, Type, body

(* So do those of a terminator, *)
LEMMA TypedTermPrime ==
  ASSUME family' = family, NEW t
  PROVE  TypedTerm(t)' <=> TypedTerm(t)
BY DEF TypedTerm, body

(* of a graph, *)
LEMMA GraphPrime ==
  ASSUME family' = family, NEW bs
  PROVE  Graph(bs)' <=> Graph(bs)
<1>1. TypedBlocks(bs)' <=> TypedBlocks(bs)
  BY WellTypedPrime, TypedTermPrime DEF TypedBlocks
<1>2. QED BY <1>1 DEF Graph

(* the emitter's invariant, *)
LEMMA EmittingPrime ==
  ASSUME family' = family, NEW cs, NEW bts, NEW st, NEW bs, NEW ord, NEW ins
  PROVE  Emitting(cs, bts, st, bs, ord, ins)' <=> Emitting(cs, bts, st, bs, ord, ins)
BY GraphPrime DEF Emitting, body

(* being in step *)
LEMMA LivePrime ==
  ASSUME family' = family, NEW x, NEW c
  PROVE  Live(x, c)' <=> Live(x, c)
<1>1. ASSUME NEW cs, NEW bts, NEW st, NEW d PROVE Holds(c, cs, bts, st, d)' <=> Holds(c, cs, bts, st, d)
  BY EmittingPrime DEF Holds
<1>2. QED BY <1>1 DEF Live

(* and the end of a function. *)
LEMMA ReturningPrime ==
  ASSUME family' = family, NEW c
  PROVE  Returning(c)' <=> Returning(c)
BY GraphPrime DEF Returning, body

(* An operator that the validator accepts, in reachable code. *)
LEMMA VisitFollows ==
  ASSUME family \in 1..Len(Bodies),
         NEW vcs, NEW vst, NEW c, NEW cs, NEW bts, NEW st, NEW d,
         Open(c, cs, bts, st, d), Agree(vcs, vst, cs, bts, st, d),
         NEW i, IsOperator(i), NEW w \in V!validated(VCtx(vcs, vst), i)
  PROVE  Follows(w, E!visit(c, i))
<1>1. i.op \in Ops
  BY DEF IsOperator
<1>2. Holds(c, cs, bts, st, d) /\ d = 0
  BY AgreeTypes DEF Open
<1>3. i.op \in ListedOps => Follows(w, E!visit(c, i))
  BY ListedFollows
<1>4. i.op \in IndexedOps => Follows(w, E!visit(c, i))
  BY IndexedFollows
<1>5. CASE i.op = "else"
  <2>1. w \in V!else_(VCtx(vcs, vst)) /\ E!visit(c, i) = E!else_(c)
    BY <1>5 DEF V!validated, E!visit
  <2>2. QED BY <1>2, <2>1, ElseFollows
<1>6. CASE i.op = "end"
  <2>1. w \in V!end(VCtx(vcs, vst)) /\ E!visit(c, i) = E!end(c)
    BY <1>6 DEF V!validated, E!visit
  <2>2. QED BY <1>2, <2>1, EndFollows
<1>7. CASE i.op = "block"
  BY <1>7, BlockFollows
<1>8. CASE i.op = "loop"
  BY <1>8, LoopFollows
<1>9. CASE i.op = "if"
  BY <1>9, IfFollows
<1>10. CASE i.op = "return"
  BY <1>10, ReturnFollows
<1>11. CASE i.op = "br"
  BY <1>11, BrFollows
<1>12. CASE i.op = "br_if"
  BY <1>12, BrIfFollows
<1>13. CASE i.op = "br_table"
  BY <1>13, BrTableFollows
<1>14. CASE i.op = "unreachable"
  BY <1>14, UnreachableFollows
<1>15. CASE i.op = "drop"
  BY <1>15, DropFollows
<1>16. CASE i.op = "select"
  BY <1>16, SelectFollows
<1>17. CASE i.op = "tee_local"
  BY <1>17, TeeFollows
<1>18. CASE i.op = "call_indirect"
  BY <1>18, IndirectFollows
<1>19. QED
  BY <1>1, <1>3, <1>4, <1>5, <1>6, <1>7, <1>8, <1>9, <1>10, <1>11, <1>12, <1>13, <1>14, <1>15, <1>16, <1>17, <1>18
     DEF Ops, ListedOps, IndexedOps

(* The next operator, wherever it is. *)
LEMMA DecodeFollows ==
  ASSUME family \in 1..Len(Bodies), NEW x, NEW c, Live(x, c) \/ Returning(c),
         NEW i, IsOperator(i), NEW w \in V!validated(x, i)
  PROVE  Follows(w, E!decodeOp(c, i))
<1>1. CASE Returning(c)
  <2>1. c.controlStack = <<>>
    BY <1>1, CtxFields DEF Returning
  <2>2. E!decodeOp(c, i) = {c}
    BY <2>1 DEF E!decodeOp
  <2>3. QED BY <1>1, <2>2, Zenon DEF Follows
<1>2. CASE Live(x, c)
  <2> DEFINE vcs == x.controlStack
             vst == x.stack
             cs == c.controlStack
             bts == c.branchTargetStack
             st == c.stack
             d == c.depth
  <2>1. Holds(c, cs, bts, st, d) /\ Agree(vcs, vst, cs, bts, st, d) /\ x = VCtx(vcs, vst)
    BY <1>2, Zenon DEF Live
  <2> HIDE DEF vcs, vst, cs, bts, st, d
  <2>2. w \in V!validated(VCtx(vcs, vst), i)
    BY <2>1
  <2>3. E!Top(c) = cs[Len(cs)] /\ c.controlStack # <<>>
    BY <2>1, TopContext
  <2>4. CASE cs[Len(cs)].isReachable
    <3>1. E!decodeOp(c, i) = E!visit(c, i)
      BY <2>3, <2>4 DEF E!decodeOp
    <3>2. Open(c, cs, bts, st, d)
      BY <2>1, <2>4 DEF Open
    <3>3. Follows(w, E!visit(c, i))
      BY <2>1, <2>2, <3>2, VisitFollows
    <3>4. QED BY <3>1, <3>3, Zenon
  <2>5. CASE ~cs[Len(cs)].isReachable
    <3>1. E!decodeOp(c, i) = E!unreachableVisit(c, i)
      BY <2>3, <2>5 DEF E!decodeOp
    <3>2. Follows(w, E!unreachableVisit(c, i))
      BY <2>1, <2>2, <2>5, IdleFollows
    <3>3. QED BY <3>1, <3>2, Zenon
  <2>6. QED BY <2>4, <2>5
<1>3. QED BY <1>1, <1>2

-----------------------------------------------------------------------------
(* The first and the last step *)

(* The stores to the locals have the types of the locals. *)
LEMMA StoreTyped ==
  ASSUME family \in 1..Len(Bodies), NEW k \in 1..Len(E!locals)
  PROVE  StoreLocal(k) \in Instructions /\ WellTyped(StoreLocal(k))
<1>1. V!locals \in Seq(ValueType) /\ E!locals = V!locals /\ Len(E!locals) \in Nat
  BY LocalTypes
<1>2. E!locals[k] \in ValueType /\ k \in Nat /\ k - 1 \in Nat /\ (k - 1) + 1 = k
  BY <1>1, ElementOfSeq
<1> DEFINE t == E!locals[k]
           y == InitialValue(k)
           n == k - 1
<1>3. y \in Values /\ y.type = t
  <2> HIDE DEF t
  <2>1. t \in ValueType /\ k \in Int
    BY <1>2 DEF t
  <2>2. E!Value("arg", k, t) \in Values /\ E!Value("arg", k, t).type = t
    BY <2>1 DEF E!Value, Values
  <2>3. E!typedZero(t) \in Values /\ E!typedZero(t).type = t
    BY <2>1 DEF E!typedZero, E!Constant, E!Value, Values
  <2>4. y = IF k <= Len(body.params) THEN E!Value("arg", k, t) ELSE E!typedZero(t)
    BY DEF InitialValue, t
  <2>5. QED BY <2>2, <2>3, <2>4, Zenon
<1> DEFINE args == <<y>>
<1>4. args \in Seq(Values) /\ Len(args) = 1 /\ args[1] = y
  <2> HIDE DEF y
  <2>1. QED BY <1>3
<1> HIDE DEF args, y
<1>5. [j \in 1..Len(args) |-> args[j].type] = <<t>>
  <2> DEFINE types == [j \in 1..Len(args) |-> args[j].type]
  <2>1. types = [j \in 1..1 |-> t]
    BY <1>3, <1>4
  <2>2. [j \in 1..1 |-> t] = <<t>>
    <3> HIDE DEF t
    <3>1. QED OBVIOUS
  <2>3. QED BY <2>1, <2>2, Zenon
<1>6. "set_local" \in Ops
  BY DEF Ops
<1> HIDE DEF n
<1>7. Takes("set_local", n, [j \in 1..Len(args) |-> args[j].type])
  <2>1. E!locals[n + 1] = t
    BY <1>2 DEF n
  <2>2. QED BY <1>5, <2>1 DEF Takes
<1>8. n \in Nat
  BY <1>2 DEF n
<1>9. Fits(Indexed("set_local", n), args, "none")
  BY <1>4, <1>6, <1>7, <1>8, IndexedFits
<1>10. StoreLocal(k) = [id |-> k, op |-> Indexed("set_local", n), args |-> args, type |-> "none"]
  BY DEF StoreLocal, args, y, n
<1>11. WellTyped(StoreLocal(k))
  BY <1>9, <1>10, Zenon DEF Fits
<1>12. Indexed("set_local", n) \in OpRecords
  BY <1>6, <1>8, IndexedRecord
<1>13. StoreLocal(k) \in Instructions
  <2> DEFINE op == Indexed("set_local", n)
  <2> HIDE DEF op
  <2>1. op \in OpRecords /\ "none" \in ResultType /\ k \in Int
    BY <1>2, <1>12 DEF op, ResultType
  <2>2. [id |-> k, op |-> op, args |-> args, type |-> "none"] \in Instructions
    BY <2>1, <1>4 DEF Instructions
  <2>3. QED BY <2>2, <1>10 DEF op
<1>14. QED BY <1>11, <1>13

(* The first two blocks are a graph. *)
LEMMA EntryBlocks ==
  ASSUME family \in 1..Len(Bodies)
  PROVE  LET bs == <<ReturnBlock, EntryBlock>> IN
         /\ Graph(bs) /\ Len(bs) = 2 /\ bs[1].phi = body.ret /\ bs[1].terms = <<>> /\ bs[2].terms = <<>>
<1> DEFINE bs == <<ReturnBlock, EntryBlock>>
           stores == [k \in 1..Len(E!locals) |-> StoreLocal(k)]
<1>1. Len(E!locals) \in Nat /\ body.ret \in ResultType
  BY LocalTypes
<1>2. stores \in Seq(Instructions) /\ Len(stores) = Len(E!locals) /\ \A k \in 1..Len(stores) : WellTyped(stores[k])
  <2>1. \A k \in 1..Len(E!locals) : StoreLocal(k) \in Instructions /\ WellTyped(StoreLocal(k))
    BY StoreTyped
  <2> DEFINE n == Len(E!locals)
  <2> HIDE DEF n
  <2>2. [k \in 1..n |-> StoreLocal(k)] \in Seq(Instructions) /\ Len([k \in 1..n |-> StoreLocal(k)]) = n
        /\ \A k \in 1..n : [k_1 \in 1..n |-> StoreLocal(k_1)][k] = StoreLocal(k)
    BY <2>1, <1>1 DEF n
  <2>3. QED BY <2>1, <2>2 DEF n
<1> HIDE DEF stores
<1>3. /\ EntryBlock \in Blocks /\ EntryBlock.phi = "none" /\ EntryBlock.in = <<>> /\ EntryBlock.code = stores /\ EntryBlock.terms = <<>>
  <2>1. EntryBlock = [phi |-> "none", in |-> <<>>, code |-> stores, terms |-> <<>>]
    BY DEF EntryBlock, stores
  <2>2. "none" \in ResultType /\ <<>> \in Seq(Incomings) /\ <<>> \in Seq(Terms)
    BY DEF ResultType
  <2> HIDE DEF stores
  <2>3. QED BY <2>1, <2>2, <1>2 DEF Blocks
<1>4. /\ ReturnBlock \in Blocks /\ ReturnBlock.phi = body.ret /\ ReturnBlock.in = <<>> /\ ReturnBlock.code = <<>> /\ ReturnBlock.terms = <<>>
  <2>1. <<>> \in Seq(Incomings) /\ <<>> \in Seq(Terms) /\ <<>> \in Seq(Instructions)
    OBVIOUS
  <2>2. QED BY <2>1, <1>1 DEF Blocks, ReturnBlock
<1> DEFINE r == ReturnBlock
           s == EntryBlock
<1> HIDE DEF r, s
<1>5. bs \in Seq(Blocks) /\ Len(bs) = 2 /\ bs[1] = r /\ bs[2] = s /\ \A b \in 1..Len(bs) : b = 1 \/ b = 2
  <2>1. r \in Blocks /\ s \in Blocks /\ bs = <<r, s>>
    BY <1>3, <1>4 DEF r, s
  <2>2. <<r, s>> \in Seq(Blocks) /\ Len(<<r, s>>) = 2 /\ <<r, s>>[1] = r /\ <<r, s>>[2] = s
    BY <2>1, PairSeq
  <2>3. QED BY <2>1, <2>2
<1> HIDE DEF bs
<1>6. \A b \in 1..Len(bs) : /\ bs[b].in = <<>> /\ bs[b].terms = <<>> /\ Len(bs[b].in) = 0
                            /\ (bs[b].code = <<>> \/ bs[b].code = stores)
  BY <1>3, <1>4, <1>5 DEF r, s
<1>7. Closed(bs)
  BY <1>6 DEF Closed
<1>8. TypedBlocks(bs)
  BY <1>2, <1>6 DEF TypedBlocks
<1>9. Matched(bs)
  BY <1>6 DEF Matched
<1>10. Graph(bs)
  BY <1>5, <1>7, <1>8, <1>9 DEF Graph
<1>11. bs[1].phi = body.ret /\ bs[1].terms = <<>> /\ bs[2].terms = <<>>
  BY <1>3, <1>4, <1>5 DEF r, s
<1>12. QED BY <1>5, <1>10, <1>11 DEF bs

(* EmitFunction begins with the context of the function, on the return *)
(* block and the entry. *)
LEMMA FirstEmitting ==
  ASSUME family \in 1..Len(Bodies)
  PROVE  Emitting(<<Context("function", body.ret, 1, 0, <<>>, <<>>)>>, <<Target(body.ret, 1)>>, <<>>,
                  <<ReturnBlock, EntryBlock>>, <<1, 2>>, 2)
<1> DEFINE none == <<>>
           ctx == Context("function", body.ret, 1, 0, none, none)
           tgt == Target(body.ret, 1)
           cs == <<ctx>>
           bts == <<tgt>>
           bs == <<ReturnBlock, EntryBlock>>
           ord == <<1, 2>>
<1>1. Graph(bs) /\ Len(bs) = 2 /\ bs[1].phi = body.ret /\ bs[1].terms = <<>> /\ bs[2].terms = <<>>
  BY EntryBlocks
<1>2. body.ret \in ResultType
  BY LocalTypes
<1>3. /\ ctx \in Contexts /\ ctx.type = "function" /\ ctx.resultType = body.ret /\ ctx.endBlock = 1 /\ ctx.elseBlock = 0
      /\ ctx.outerStackSize = 0 /\ ctx.outerBranchTargetStackSize = 0 /\ ctx.isReachable
  <2> DEFINE t == body.ret
  <2> HIDE DEF t
  <2>1. t \in ResultType /\ Len(none) = 0
    BY <1>2 DEF t
  <2>2. ctx = [type |-> "function", resultType |-> t, endBlock |-> 1, elseBlock |-> 0,
               outerStackSize |-> 0, outerBranchTargetStackSize |-> 0, isReachable |-> TRUE]
    BY <2>1, Zenon DEF Context, t
  <2> HIDE DEF ctx
  <2>3. QED BY <2>1, <2>2 DEF Contexts, t
<1>4. tgt \in Targets /\ tgt.argumentType = body.ret /\ tgt.block = 1
  BY <1>2 DEF Targets, Target
<1> HIDE DEF ctx, tgt
<1>5. /\ cs \in Seq(Contexts) /\ cs # <<>> /\ Len(cs) = 1 /\ cs[1] = ctx
      /\ bts \in Seq(Targets) /\ Len(bts) = 1 /\ bts[1] = tgt
  BY <1>3, <1>4
<1>6. ord \in Seq(Nat) /\ Len(ord) = 2 /\ ord[1] = 1 /\ ord[2] = 2
  OBVIOUS
<1> HIDE DEF cs, bts, bs, ord
<1>7. \A j \in 1..Len(cs) : j = 1 /\ cs[j] = ctx /\ bts[j] = tgt /\ j = Len(cs)
  BY <1>5
<1>8. none \in Seq(Values) /\ Len(none) = 0
  OBVIOUS
<1> HIDE DEF none
<1>9. InOrder(ord, Len(bs)) /\ Headed(ord)
  <2>1. \A b \in 1..Len(bs) : b \in 1..Len(ord) /\ ord[b] = b
    BY <1>1, <1>6
  <2>2. QED BY <2>1, <1>1, <1>6 DEF InOrder, Headed
<1>10. Ports(cs, bs)
  BY <1>1, <1>3, <1>7 DEF Ports
<1>11. Distinct(cs, bts)
  BY <1>3, <1>7 DEF Distinct
<1>12. Aimed(cs, bts, bs)
  BY <1>1, <1>4, <1>5, <1>7 DEF Aimed
<1>13. Cursor(cs, bs, 2)
  BY <1>1, <1>3, <1>5, <1>7 DEF Cursor
<1>14. Waited(cs, bs, 2)
  <2>1. \A b \in 1..Len(bs) : b = 2 \/ b = cs[1].endBlock
    BY <1>1, <1>3, <1>5
  <2>2. 1 \in 1..Len(cs)
    BY <1>5
  <2>3. QED BY <2>1, <2>2 DEF Waited
<1>15. Heights(cs, none)
  BY <1>3, <1>7, <1>8 DEF Heights
<1>16. cs[1].resultType = body.ret
  BY <1>3, <1>5
<1>17. Emitting(cs, bts, none, bs, ord, 2)
  BY <1>1, <1>5, <1>8, <1>9, <1>10, <1>11, <1>12, <1>13, <1>14, <1>15, <1>16, Zenon DEF Emitting
<1>18. QED BY <1>17, Zenon DEF cs, bts, bs, ord, ctx, tgt, none

(* The contexts that both begin with. *)
LEMMA FirstContext ==
  ASSUME family \in 1..Len(Bodies)
  PROVE  /\ V!FunctionContext = VCtx(<<VContext("function", body.ret, body.ret, <<>>)>>, <<>>)
         /\ E!EmitFunction = Ctx(<<Context("function", body.ret, 1, 0, <<>>, <<>>)>>, <<Target(body.ret, 1)>>, <<>>, 0,
                                 <<ReturnBlock, EntryBlock>>, <<1, 2>>, 2, Len(E!locals) + 1)
<1> DEFINE none == <<>>
           t == body.ret
           bs == <<ReturnBlock, EntryBlock>>
           ord == <<1, 2>>
           nx == Len(E!locals) + 1
<1>1. Type.ret = body.ret /\ Type.params = body.params
  BY DEF Type
<1>2. \A x : Append(none, x) = <<x>>
  OBVIOUS
<1>3. V!FunctionContext = VCtx(<<VContext("function", t, t, none)>>, none)
  <2>1. V!FunctionContext = V!pushControlStack(VCtx(none, none), "function", t, t)
    BY <1>1, Zenon DEF V!FunctionContext, VCtx
  <2> HIDE DEF none, t
  <2>2. V!pushControlStack(VCtx(none, none), "function", t, t) = VCtx(Append(none, VContext("function", t, t, none)), none)
    BY VSteps
  <2>3. QED BY <2>1, <2>2, <1>2, Zenon
<1>4. E!EmitFunction = E!pushBranchTarget(E!pushControlStack(Ctx(none, none, none, 0, bs, ord, 2, nx), "function", t, 1, 0), t, 1)
  <2> DEFINE initial(k) == IF k <= Len(Type.params) THEN E!Value("arg", k, E!locals[k]) ELSE E!typedZero(E!locals[k])
             store(k)   == [id |-> k, op |-> E!Indexed("set_local", k - 1), args |-> <<initial(k)>>, type |-> "none"]
             entry      == [E!NewBlock("none") EXCEPT !.code = [k \in 1..Len(E!locals) |-> store(k)]]
             stores     == [k \in 1..Len(E!locals) |-> store(k)]
  <2>1. E!NewBlock(Type.ret) = ReturnBlock
    BY <1>1, Zenon DEF E!NewBlock, ReturnBlock
  <2>2. entry = EntryBlock
    <3>1. \A k : E!Indexed("set_local", k - 1) = Indexed("set_local", k - 1)
      BY SameOperators, Zenon
    <3>0. stores = [k \in 1..Len(E!locals) |-> StoreLocal(k)]
      <4>1. \A k : store(k) = StoreLocal(k)
        BY <1>1, <3>1, Zenon DEF StoreLocal, InitialValue
      <4> HIDE DEF store
      <4>2. QED BY <4>1
    <3>2. entry = [E!NewBlock("none") EXCEPT !.code = stores]
      OBVIOUS
    <3> HIDE DEF stores, entry
    <3>3. [E!NewBlock("none") EXCEPT !.code = stores] = [phi |-> "none", in |-> <<>>, code |-> stores, terms |-> <<>>]
      BY DEF E!NewBlock
    <3>4. QED BY <3>0, <3>2, <3>3, Zenon DEF EntryBlock
  <2>3. E!EmitFunction = E!pushBranchTarget(E!pushControlStack(Ctx(none, none, none, 0, <<E!NewBlock(Type.ret), entry>>, ord, 2, nx), "function", Type.ret, 1, 0), Type.ret, 1)
    BY Zenon DEF E!EmitFunction, Ctx
  <2> HIDE DEF entry
  <2>4. QED BY <1>1, <2>1, <2>2, <2>3, Zenon
<1> HIDE DEF none, t, bs, ord, nx
<1>5. E!pushBranchTarget(E!pushControlStack(Ctx(none, none, none, 0, bs, ord, 2, nx), "function", t, 1, 0), t, 1)
        = Ctx(Append(none, Context("function", t, 1, 0, none, none)), Append(none, Target(t, 1)), none, 0, bs, ord, 2, nx)
  BY PushSteps
<1>6. E!EmitFunction = Ctx(<<Context("function", t, 1, 0, none, none)>>, <<Target(t, 1)>>, none, 0, bs, ord, 2, nx)
  <2>1. /\ Append(none, Context("function", t, 1, 0, none, none)) = <<Context("function", t, 1, 0, none, none)>>
        /\ Append(none, Target(t, 1)) = <<Target(t, 1)>>
    BY <1>2, Zenon
  <2>2. QED BY <2>1, <1>4, <1>5, Zenon
<1>7. QED BY <1>3, <1>6, Zenon DEF none, t, bs, ord, nx

(* Both begin in step. *)
LEMMA FirstLive ==
  ASSUME family \in 1..Len(Bodies)
  PROVE  Live(V!FunctionContext, E!EmitFunction)
<1> DEFINE none == <<>>
           t == body.ret
           ctx == Context("function", t, 1, 0, none, none)
           tgt == Target(t, 1)
           vctx == VContext("function", t, t, none)
           cs == <<ctx>>
           bts == <<tgt>>
           vcs == <<vctx>>
<1>1. Holds(E!EmitFunction, cs, bts, none, 0)
  <2>1. Len(E!locals) + 1 \in Nat
    BY LocalTypes
  <2>2. Emitting(cs, bts, none, <<ReturnBlock, EntryBlock>>, <<1, 2>>, 2)
    BY FirstEmitting
  <2>3. E!EmitFunction = Ctx(cs, bts, none, 0, <<ReturnBlock, EntryBlock>>, <<1, 2>>, 2, Len(E!locals) + 1)
    BY FirstContext
  <2>4. QED BY <2>1, <2>2, <2>3, Zenon DEF Holds
<1>2. t \in ResultType
  BY LocalTypes
<1>3. none \in Seq(OperandType) /\ none \in Seq(Values) /\ Len(none) = 0
  OBVIOUS
<1>4. V!FunctionContext = VCtx(vcs, none)
  BY FirstContext
<1> HIDE DEF t, none
<1>5. /\ ctx.type = "function" /\ ctx.resultType = t /\ ctx.outerStackSize = 0 /\ ctx.isReachable = TRUE
      /\ tgt.argumentType = t
  BY <1>3 DEF Context, Target
<1>6. /\ vctx.type = "function" /\ vctx.resultType = t /\ vctx.outerStackSize = 0 /\ vctx.isReachable = TRUE
      /\ vctx.branchArgumentType = t /\ vctx \in VContexts
  <2>1. vctx = [type |-> "function", outerStackSize |-> 0, isReachable |-> TRUE, branchArgumentType |-> t, resultType |-> t]
    BY <1>3, Zenon DEF VContext
  <2> HIDE DEF vctx
  <2>2. QED BY <1>2, <2>1 DEF VContexts
<1> HIDE DEF ctx, tgt, vctx
<1>7. /\ Len(cs) = 1 /\ cs[1] = ctx /\ bts[1] = tgt /\ vcs \in Seq(VContexts) /\ Len(vcs) = 1 /\ vcs[1] = vctx
  BY <1>6
<1> HIDE DEF cs, bts, vcs
<1>8. \A j \in 1..1 : j = 1
  OBVIOUS
<1>9. \A j \in 1..Len(cs) : Same(vcs[j], cs[j], bts[j])
  BY <1>5, <1>6, <1>7, <1>8, Zenon DEF Same
<1>10. Rising(vcs, none)
  BY <1>3, <1>6, <1>7, <1>8 DEF Rising
<1>11. Matching(none, none)
  BY <1>3 DEF Matching
<1>12. Agree(vcs, none, cs, bts, none, 0)
  BY <1>3, <1>5, <1>7, <1>9, <1>10, <1>11 DEF Agree
<1>13. Live(VCtx(vcs, none), E!EmitFunction)
  BY <1>1, <1>12, LiveFrom
<1>14. QED BY <1>4, <1>13, Zenon

(* The terminator of the return block. *)
LEMMA ReturnTerm ==
  ASSUME NEW args \in Seq(TermArgs), NEW to \in Seq(Nat)
  PROVE  IsReturn(Term("ret", args, to), args, to)
BY TermFields DEF TermOps, IsReturn

(* The blocks of a function that is complete. *)
LEMMA CompleteGraph ==
  ASSUME NEW bs, Graph(bs), Len(bs) >= 2, \A b \in 1..Len(bs) : bs[b].terms = <<>> <=> b = 1,
         NEW args \in Seq(TermArgs), IF body.ret = "none" THEN args = <<>> ELSE args[1].type = body.ret
  PROVE  LET ds == Ended(bs, 1, Term("ret", args, <<>>)) IN
         Graph(ds) /\ \A b \in 1..Len(ds) : Len(ds[b].terms) = 1 /\ ds[b].terms # <<>>
<1> DEFINE none == <<>>
           t == Term("ret", args, none)
           ds == Ended(bs, 1, t)
<1>1. none \in Seq(Nat) /\ Len(none) = 0 /\ "ret" \in TermOps /\ "ret" # "condbr" /\ "ret" # "switch"
  BY DEF TermOps
<1> HIDE DEF none
<1>2. t \in Terms /\ t.op = "ret" /\ t.args = args /\ t.to = none
  <2>1. IsReturn(t, args, none)
    BY <1>1, ReturnTerm
  <2>2. QED BY <2>1, Zenon DEF IsReturn
<1>3. TypedTerm(t)
  BY <1>1, <1>2 DEF TypedTerm
<1>4. Plain(bs, t.to)
  BY <1>1, <1>2 DEF Plain
<1>5. bs \in Seq(Blocks) /\ Closed(bs)
  BY DEF Graph
<1>6. 1 \in 1..Len(bs) /\ bs[1].terms = <<>>
  BY <1>5, LenProperties
<1> HIDE DEF t
<1>7. Graph(ds)
  BY <1>2, <1>3, <1>4, <1>6, EndedGraph
<1>8. Len(ds) = Len(bs) /\ \A b \in 1..Len(bs) : ds[b].terms = IF b = 1 THEN <<t>> ELSE bs[b].terms
  BY <1>2, <1>5, <1>6, EndedFields
<1> HIDE DEF ds
<1>9. Len(<<t>>) = 1 /\ <<t>> # <<>>
  BY Singleton
<1>10. \A b \in 1..Len(bs) : b # 1 => Len(bs[b].terms) = 1 /\ bs[b].terms # <<>>
  BY <1>5 DEF Closed
<1>11. \A b \in 1..Len(ds) : Len(ds[b].terms) = 1 /\ ds[b].terms # <<>>
  BY <1>8, <1>9, <1>10
<1>12. Graph(ds) /\ \A b \in 1..Len(ds) : Len(ds[b].terms) = 1 /\ ds[b].terms # <<>>
  BY <1>7, <1>11
<1>13. QED BY <1>12, Zenon DEF ds, t, none

(* What finish leaves. *)
LEMMA FinishSteps ==
  ASSUME NEW c, Returning(c)
  PROVE  \E z : /\ E!finish(c) = {z} /\ z.order[1] = 2 /\ Graph(z.blocks)
                /\ \A b \in 1..Len(z.blocks) : Len(z.blocks[b].terms) = 1 /\ z.blocks[b].terms # <<>>
<1> DEFINE none == <<>>
           st == c.stack
           bs == c.blocks
           ord == c.order
           n == Len(st)
           low == SubSeq(st, 1, n - 1)
<1>1. PICK bts, d, nx : c = Ctx(none, bts, st, d, bs, ord, 1, nx)
  BY DEF Returning
<1>2. /\ Graph(bs) /\ Len(bs) >= 2 /\ ord[1] = 2 /\ st \in Seq(Values)
      /\ \A b \in 1..Len(bs) : bs[b].terms = <<>> <=> b = 1
      /\ body.ret # "none" => st # <<>> /\ st[Len(st)].type = body.ret
  BY Zenon DEF Returning
<1>3. c.controlStack = none /\ c.insert = 1 /\ Type.ret = body.ret
  <2>1. Type.ret = body.ret
    BY DEF Type
  <2> HIDE DEF st, bs, ord, none
  <2>2. QED BY <1>1, <2>1, CtxFields
<1>4. E!base(c) = 0
  BY <1>3, Zenon DEF E!base
<1>5. c.stack = st
  OBVIOUS
<1> HIDE DEF st, bs, ord, none
<1>6. n \in Nat /\ (st # <<>> => n >= 1 /\ st[n] \in Values)
  BY <1>2, LenProperties, ElementOfSeq
<1>7. body.ret # "none" => E!canPop(c, 1) /\ E!top(c) = st[n]
  <2>1. E!top(c) = st[n]
    BY <1>5, Zenon DEF E!top, E!Last
  <2>2. st # <<>> => E!canPop(c, 1)
    BY <1>4, <1>5, <1>6 DEF E!canPop
  <2>3. QED BY <1>2, <2>1, <2>2
<1>8. \A args, stack : E!terminate(Ctx(none, bts, stack, d, bs, ord, 1, nx), "ret", args, <<>>)
          = Ctx(none, bts, stack, d, Ended(bs, 1, Term("ret", args, <<>>)), ord, 1, nx)
  BY ContextSteps
<1>9. E!popped(c, 1) = Ctx(none, bts, low, d, bs, ord, 1, nx)
  BY <1>1, ContextSteps
<1>10. PICK stack, args : /\ E!finish(c) = {E!terminate(Ctx(none, bts, stack, d, bs, ord, 1, nx), "ret", args, <<>>)}
                          /\ args \in Seq(TermArgs) /\ IF body.ret = "none" THEN args = <<>> ELSE args[1].type = body.ret
  <2>1. CASE body.ret = "none"
    <3>1. E!finish(c) = {E!terminate(Ctx(none, bts, st, d, bs, ord, 1, nx), "ret", <<>>, <<>>)}
      BY <2>1, <1>1, <1>3, Zenon DEF E!finish
    <3>2. <<>> \in Seq(TermArgs)
      OBVIOUS
    <3>3. QED BY <3>1, <3>2, <2>1, Zenon
  <2>2. CASE body.ret # "none"
    <3> DEFINE x == st[n]
    <3>1. E!finish(c) = {E!terminate(Ctx(none, bts, low, d, bs, ord, 1, nx), "ret", <<x>>, <<>>)}
      BY <2>2, <1>3, <1>7, <1>9, Zenon DEF E!finish
    <3>2. x \in TermArgs /\ x.type = body.ret
      BY <2>2, <1>2, <1>6 DEF TermArgs
    <3> HIDE DEF x
    <3>3. <<x>> \in Seq(TermArgs) /\ <<x>>[1] = x
      BY <3>2
    <3>4. QED BY <3>1, <3>2, <3>3, <2>2, Zenon
  <2>3. QED BY <2>1, <2>2
<1> DEFINE ds == Ended(bs, 1, Term("ret", args, <<>>))
           z == Ctx(none, bts, stack, d, ds, ord, 1, nx)
<1>11. E!finish(c) = {z}
  BY <1>8, <1>10, Zenon
<1>12. Graph(ds) /\ \A b \in 1..Len(ds) : Len(ds[b].terms) = 1 /\ ds[b].terms # <<>>
  BY <1>2, <1>10, CompleteGraph
<1> HIDE DEF ds
<1>13. z.order = ord /\ z.blocks = ds
  BY CtxFields
<1> HIDE DEF z
<1>14. QED BY <1>2, <1>11, <1>12, <1>13, Zenon

-----------------------------------------------------------------------------
(* The invariant *)

(* A complete function depends on the body alone, too. *)
LEMMA CompletePrime ==
  ASSUME family' = family, NEW c
  PROVE  Complete(c)' <=> Complete(c)
BY GraphPrime DEF Complete

(* A complete function is one that LLVM accepts. *)
LEMMA CompleteWellFormed ==
  ASSUME Complete(e)
  PROVE  WellFormedIR
<1> DEFINE bs == e.blocks
<1>1. e.order[1] = 2 /\ Graph(bs) /\ \A b \in 1..Len(bs) : Len(bs[b].terms) = 1 /\ bs[b].terms # <<>>
  BY Zenon DEF Complete
<1>2. TypedBlocks(bs) /\ Matched(bs)
  BY <1>1 DEF Graph
<1>3. \A b \in 1..Len(bs) : \A p \in 1..Len(bs) : bs[b].phi # "none" => Incoming(p, b) = Edges(p, b)
  <2>1. \A p, b : Incoming(p, b) = From(bs[b].in, p) /\ Edges(p, b) = To(bs[p].terms[1].to, b)
    BY Zenon DEF Incoming, Edges, From, To
  <2> HIDE DEF bs
  <2>2. QED BY <1>1, <1>2, <2>1, Zenon DEF Matched
<1>4. \A b \in 1..Len(bs) : /\ \A k \in 1..Len(bs[b].in) : bs[b].in[k].value.type = bs[b].phi
                            /\ \A k \in 1..Len(bs[b].code) : WellTyped(bs[b].code[k])
                            /\ TypedTerm(bs[b].terms[1])
  <2> HIDE DEF bs
  <2>1. QED BY <1>1, <1>2, Zenon DEF TypedBlocks
<1>5. QED BY <1>1, <1>3, <1>4, Zenon DEF WellFormedIR, TypedTerm

(* EmitFunction and the validator's first context are in step. *)
LEMMA InStepFirst == Init => InStep
<1> SUFFICES ASSUME Init PROVE InStep
  OBVIOUS
<1>1. family \in 1..Len(Bodies) /\ asserted = TRUE /\ phase = "reading" /\ v = V!FunctionContext /\ e = E!EmitFunction
  BY DEF Init
<1>2. Live(v, e)
  BY <1>1, FirstLive, Zenon
<1>3. QED BY <1>1, <1>2 DEF InStep

(* Decode passes the emitter an operator that the validator accepts. *)
LEMMA InStepDecode ==
  ASSUME InStep, NEW i \in body.operators, Decode(i)
  PROVE  InStep'
<1>1. /\ family \in 1..Len(Bodies) /\ asserted = TRUE /\ phase = "reading" /\ family' = family /\ phase' = phase
      /\ (Live(v, e) \/ Returning(e)) /\ v' \in V!validated(v, i) /\ emit(E!decodeOp(e, i))
  BY DEF InStep, Decode
<1>2. IsOperator(i)
  BY <1>1, LocalTypes
<1>3. Follows(v', E!decodeOp(e, i))
  BY <1>1, <1>2, DecodeFollows
<1>4. PICK z : E!decodeOp(e, i) = {z} /\ (Live(v', z) \/ Returning(z))
  BY <1>3, Zenon DEF Follows
<1>5. e' = z /\ asserted' = asserted
  BY <1>1, <1>4, Zenon DEF emit
<1>6. Live(v', e') \/ Returning(e')
  BY <1>4, <1>5, Zenon
<1>7. Live(v, e)' \/ Returning(e)'
  BY <1>1, <1>6, LivePrime, ReturningPrime
<1>8. QED BY <1>1, <1>5, <1>7 DEF InStep

(* The validator's finish wants the context of the function to be gone. *)
LEMMA InStepFinish ==
  ASSUME InStep, Finish
  PROVE  InStep'
<1>1. /\ family \in 1..Len(Bodies) /\ asserted = TRUE /\ phase = "reading" /\ family' = family /\ phase' = "emitted"
      /\ (Live(v, e) \/ Returning(e)) /\ v' \in V!finish(v) /\ emit(E!finish(e))
  BY DEF InStep, Finish
<1>2. ~Live(v, e)
  <2>1. v.controlStack = <<>>
    BY <1>1, Zenon DEF V!finish
  <2> SUFFICES ASSUME Live(v, e) PROVE FALSE
    OBVIOUS
  <2> DEFINE vcs == v.controlStack
             cs == e.controlStack
  <2>2. Holds(e, cs, e.branchTargetStack, e.stack, e.depth) /\ Agree(vcs, v.stack, cs, e.branchTargetStack, e.stack, e.depth)
    BY Zenon DEF Live
  <2>3. Len(cs) \in Nat /\ Len(cs) >= 1
    BY <2>2, HoldsTypes
  <2>4. e.depth \in Nat /\ Len(vcs) = Len(cs) + e.depth
    BY <2>2 DEF Agree
  <2>5. Len(vcs) = 0
    BY <2>1
  <2>6. QED BY <2>3, <2>4, <2>5
<1>3. PICK z : /\ E!finish(e) = {z} /\ z.order[1] = 2 /\ Graph(z.blocks)
               /\ \A b \in 1..Len(z.blocks) : Len(z.blocks[b].terms) = 1 /\ z.blocks[b].terms # <<>>
  BY <1>1, <1>2, FinishSteps
<1>4. e' = z /\ asserted' = asserted
  BY <1>1, <1>3, Zenon DEF emit
<1>5. Complete(z)
  BY <1>3, Zenon DEF Complete
<1>6. Complete(e')
  BY <1>4, <1>5, Zenon
<1>7. Complete(e)'
  BY <1>1, <1>6, CompletePrime
<1>8. QED BY <1>1, <1>4, <1>7 DEF InStep

(* A step that changes nothing. *)
LEMMA InStepStays ==
  ASSUME InStep, UNCHANGED vars
  PROVE  InStep'
<1>1. family' = family /\ v' = v /\ e' = e /\ asserted' = asserted /\ phase' = phase
  BY DEF vars
<1>2. (Live(v', e') <=> Live(v, e)) /\ (Returning(e') <=> Returning(e)) /\ (Complete(e') <=> Complete(e))
  BY <1>1, Zenon
<1>3. (Live(v, e)' <=> Live(v, e)) /\ (Returning(e)' <=> Returning(e)) /\ (Complete(e)' <=> Complete(e))
  BY <1>1, <1>2, LivePrime, ReturningPrime, CompletePrime
<1>4. QED BY <1>1, <1>3 DEF InStep

(* The emitter is in step with the validator for every module and every body: the inductive *)
(* invariant that ValidCodeEmits needs. *)
THEOREM InStepInvariant == Spec => []InStep
<1>1. InStep /\ [Next]_vars => InStep'
  BY InStepDecode, InStepFinish, InStepStays DEF Next
<1>2. QED BY <1>1, InStepFirst, PTL DEF Spec

(* Code that passes validation, in any module and whatever it contains, never fails an *)
(* assertion of the emitter, and the IR it leaves is one LLVM accepts. *)
THEOREM ValidCodeAlwaysEmits == Spec => []ValidCodeEmits
<1>1. InStep => ValidCodeEmits
  BY CompleteWellFormed DEF InStep, ValidCodeEmits
<1>2. QED BY <1>1, InStepInvariant, PTL
=============================================================================
