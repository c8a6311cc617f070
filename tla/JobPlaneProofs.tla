---------------------------- MODULE JobPlaneProofs ----------------------------
(* What any number of jobs send the server, with results of any size, any    *)
(* batch size and any requests and answers lost.                            *)
EXTENDS JobPlane, NatRecursion, SequenceTheorems

-----------------------------------------------------------------------------
(* Concatenation *)

(* What holds of the empty sequence, and of Append(s, e) if of s, holds of   *)
(* every sequence.                                                          *)
LEMMA SeqSetInduction ==
  ASSUME NEW T, NEW P, <<>> \in P, \A s \in Seq(T), e \in T : s \in P => Append(s, e) \in P
  PROVE  \A s \in Seq(T) : s \in P
<1> SUFFICES ASSUME NEW s \in Seq(T) PROVE s \in P
  OBVIOUS
<1> DEFINE F(k) == SubSeq(s, 1, k)
           S == {k \in Nat : k <= Len(s) => F(k) \in P}
<1>1. 0 \in S
  <2>1. F(0) = <<>>
    OBVIOUS
  <2>2. QED
    BY <2>1
<1>2. ASSUME NEW k \in Nat, k \in S PROVE k + 1 \in S
  <2>1. CASE k + 1 <= Len(s)
    <3>1. F(k) \in Seq(T) /\ s[k + 1] \in T /\ k <= Len(s) /\ F(k + 1) = Append(F(k), s[k + 1])
      BY <2>1
    <3> HIDE DEF F
    <3>2. F(k) \in P
      BY <1>2, <3>1
    <3>3. F(k + 1) \in P
      BY <3>1, <3>2
    <3>4. QED
      BY <3>3
  <2>2. QED
    BY <2>1
<1> HIDE DEF S
<1>3. \A k \in Nat : k \in S
  BY <1>1, <1>2, NatSetInduction
<1>4. F(Len(s)) = s /\ Len(s) \in Nat
  OBVIOUS
<1> HIDE DEF F
<1>5. QED
  BY <1>3, <1>4 DEF S

(* FlattenSeq adds one sequence after the other. *)
LEMMA FlattenIs ==
  ASSUME NEW T, NEW ss \in Seq(Seq(T)), Len(ss) # 0
  PROVE  \E f \in [Nat -> Seq(T)] :
            /\ f[0] = <<>>
            /\ \A k \in 1..Len(ss) : f[k] = f[k - 1] \o ss[k]
            /\ FlattenSeq(ss) = f[Len(ss)]
<1> DEFINE Solves(g) == g = [i \in 1..Len(ss) |-> IF i = 1 THEN ss[i] ELSE g[i - 1] \o ss[i]]
           flatten == CHOOSE g : Solves(g)
           step == [n \in Nat |-> [p \in Seq(T) |->
                      IF n + 1 \in 1..Len(ss) THEN p \o ss[n + 1] ELSE p]]
<1>1. step \in [Nat -> [Seq(T) -> Seq(T)]]
  <2>1. ASSUME NEW n \in Nat, NEW p \in Seq(T)
        PROVE  (IF n + 1 \in 1..Len(ss) THEN p \o ss[n + 1] ELSE p) \in Seq(T)
    <3>1. CASE n + 1 \in 1..Len(ss)
      <4>1. ss[n + 1] \in Seq(T)
        BY <3>1
      <4>2. QED
        BY <3>1, <4>1
    <3>2. QED
      BY <3>1
  <2>2. QED
    BY <2>1
<1>2. <<>> \in Seq(T) /\ Len(ss) \in Nat /\ 1 \in 1..Len(ss)
  OBVIOUS
<1>3. PICK f \in [Nat -> Seq(T)] : Iterates(f, <<>>, step)
  <2> HIDE DEF step
  <2>1. QED
    BY <1>1, <1>2, NatRecursionExists, Zenon
<1>4. f[0] = <<>> /\ \A k \in 1..Len(ss) : f[k] = f[k - 1] \o ss[k]
  <2>1. ASSUME NEW k \in 1..Len(ss) PROVE f[k] = f[k - 1] \o ss[k]
    <3>1. k - 1 \in Nat /\ (k - 1) + 1 = k /\ f[k - 1] \in Seq(T)
      BY <1>3
    <3>2. f[k] = step[k - 1][f[k - 1]]
      BY <1>3, <3>1 DEF Iterates
    <3>3. QED
      BY <3>1, <3>2
  <2>2. QED
    BY <1>3, <2>1 DEF Iterates
<1>5. f[1] = ss[1]
  <2>1. f[1] = f[0] \o ss[1]
    <3>1. 1 - 1 = 0
      OBVIOUS
    <3>2. f[1] = f[1 - 1] \o ss[1]
      BY <1>2, <1>4, Zenon
    <3>3. QED
      BY <3>1, <3>2
  <2>2. ss[1] \in Seq(T)
    BY <1>2
  <2>3. QED
    BY <1>4, <2>1, <2>2
<1>6. Solves([k \in 1..Len(ss) |-> f[k]])
  <2> DEFINE g == [k \in 1..Len(ss) |-> f[k]]
  <2>1. ASSUME NEW k \in 1..Len(ss)
        PROVE  g[k] = IF k = 1 THEN ss[k] ELSE g[k - 1] \o ss[k]
    <3>1. CASE k = 1
      <4>1. f[1] = ss[1]
        BY <1>5
      <4>2. QED
        BY <3>1, <4>1
    <3>2. CASE k # 1
      <4>1. k - 1 \in 1..Len(ss)
        BY <1>2, <3>2
      <4>2. QED
        BY <1>4, <3>2, <4>1
    <3>3. QED
      BY <3>1, <3>2
  <2>2. QED
    BY <2>1
<1>7. Solves(flatten)
  <2> HIDE DEF Solves
  <2>1. QED
    BY <1>6
<1>8. \A k \in Nat : k \in 1..Len(ss) => flatten[k] = f[k]
  <2> DEFINE S == {k \in Nat : k \in 1..Len(ss) => flatten[k] = f[k]}
  <2>0. \A k \in 1..Len(ss) : flatten[k] = IF k = 1 THEN ss[k] ELSE flatten[k - 1] \o ss[k]
    <3> HIDE DEF flatten
    <3>1. QED
      BY <1>7
  <2> HIDE DEF flatten, Solves
  <2>1. 0 \in S
    BY <1>2
  <2>2. ASSUME NEW k \in Nat, k \in S PROVE k + 1 \in S
    <3>1. CASE k = 0
      <4>1. flatten[1] = f[1]
        BY <1>2, <1>5, <2>0
      <4>2. QED
        BY <3>1, <4>1
    <3>2. CASE k # 0 /\ k + 1 \in 1..Len(ss)
      <4>1. k \in 1..Len(ss) /\ k + 1 # 1 /\ (k + 1) - 1 = k
        BY <1>2, <3>2
      <4>2. flatten[k + 1] = flatten[k] \o ss[k + 1] /\ f[k + 1] = f[k] \o ss[k + 1]
        BY <1>4, <2>0, <3>2, <4>1
      <4>3. flatten[k] = f[k]
        BY <2>2, <4>1
      <4>4. flatten[k + 1] = f[k + 1]
        BY <4>2, <4>3
      <4>5. QED
        BY <4>4
    <3>3. QED
      BY <3>1, <3>2
  <2> HIDE DEF S
  <2>3. \A k \in Nat : k \in S
    BY <2>1, <2>2, NatSetInduction
  <2>4. QED
    BY <2>3 DEF S
<1>9. FlattenSeq(ss) = flatten[Len(ss)]
  BY DEF FlattenSeq
<1> HIDE DEF flatten
<1>10. FlattenSeq(ss) = f[Len(ss)]
  <2>1. Len(ss) \in 1..Len(ss)
    BY <1>2
  <2>2. QED
    BY <1>8, <1>9, <2>1
<1>11. QED
  BY <1>4, <1>10

(* Flattening nothing gives nothing. *)
LEMMA FlattenEmpty == FlattenSeq(<<>>) = <<>>
  BY DEF FlattenSeq

(* Flattening sequences over T gives one over T. *)
LEMMA FlattenType ==
  ASSUME NEW T, NEW ss \in Seq(Seq(T))
  PROVE  FlattenSeq(ss) \in Seq(T)
<1>1. CASE Len(ss) = 0
  <2>1. ss = <<>> /\ <<>> \in Seq(T)
    BY <1>1
  <2>2. QED
    BY <2>1, FlattenEmpty
<1>2. CASE Len(ss) # 0
  <2>1. PICK f \in [Nat -> Seq(T)] : FlattenSeq(ss) = f[Len(ss)]
    BY <1>2, FlattenIs
  <2>2. Len(ss) \in Nat
    OBVIOUS
  <2>3. QED
    BY <2>1, <2>2
<1>3. QED
  BY <1>1, <1>2

(* Adding a sequence adds its elements. *)
LEMMA FlattenAppend ==
  ASSUME NEW T, NEW ss \in Seq(Seq(T)), NEW x \in Seq(T)
  PROVE  FlattenSeq(Append(ss, x)) = FlattenSeq(ss) \o x
<1> DEFINE tt == Append(ss, x)
<1>1. /\ tt \in Seq(Seq(T)) /\ Len(tt) = Len(ss) + 1 /\ Len(ss) \in Nat /\ Len(tt) # 0
      /\ tt[Len(ss) + 1] = x /\ \A k \in 1..Len(ss) : tt[k] = ss[k]
  OBVIOUS
<1> HIDE DEF tt
<1>2. PICK g \in [Nat -> Seq(T)] :
            /\ g[0] = <<>>
            /\ \A k \in 1..Len(tt) : g[k] = g[k - 1] \o tt[k]
            /\ FlattenSeq(tt) = g[Len(tt)]
  BY <1>1, FlattenIs
<1>3. Len(ss) + 1 \in 1..Len(tt) /\ (Len(ss) + 1) - 1 = Len(ss)
  BY <1>1
<1>4. FlattenSeq(tt) = g[Len(ss)] \o x
  BY <1>1, <1>2, <1>3
<1>5. g[Len(ss)] = FlattenSeq(ss)
  <2>1. CASE Len(ss) = 0
    <3>1. ss = <<>>
      BY <2>1
    <3>2. QED
      BY <1>2, <2>1, <3>1, FlattenEmpty
  <2>2. CASE Len(ss) # 0
    <3>1. PICK f \in [Nat -> Seq(T)] :
                /\ f[0] = <<>>
                /\ \A k \in 1..Len(ss) : f[k] = f[k - 1] \o ss[k]
                /\ FlattenSeq(ss) = f[Len(ss)]
      BY <2>2, FlattenIs
    <3> DEFINE S == {k \in Nat : k <= Len(ss) => g[k] = f[k]}
    <3>2. 0 \in S
      BY <1>2, <3>1
    <3>3. ASSUME NEW k \in Nat, k \in S PROVE k + 1 \in S
      <4>1. CASE k + 1 <= Len(ss)
        <5>1. k + 1 \in 1..Len(ss)
          BY <1>1, <4>1
        <5>2. k + 1 \in 1..Len(tt) /\ (k + 1) - 1 = k /\ k <= Len(ss)
          BY <1>1, <4>1
        <5>3. g[k + 1] = g[k] \o ss[k + 1] /\ f[k + 1] = f[k] \o ss[k + 1]
          BY <1>1, <1>2, <3>1, <5>1, <5>2
        <5>4. g[k] = f[k]
          BY <3>3, <5>2
        <5>5. g[k + 1] = f[k + 1]
          BY <5>3, <5>4
        <5>6. QED
          BY <5>5
      <4>2. QED
        BY <4>1
    <3> HIDE DEF S
    <3>4. \A k \in Nat : k \in S
      BY <3>2, <3>3, NatSetInduction
    <3>5. QED
      BY <1>1, <3>1, <3>4 DEF S
  <2>3. QED
    BY <2>1, <2>2
<1>6. QED
  BY <1>4, <1>5 DEF tt

(* A sequence of one is its element. *)
LEMMA FlattenOne ==
  ASSUME NEW T, NEW x \in Seq(T)
  PROVE  FlattenSeq(<<x>>) = x
<1>1. <<>> \in Seq(Seq(T)) /\ Append(<<>>, x) = <<x>> /\ <<>> \o x = x
  OBVIOUS
<1>2. QED
  BY <1>1, FlattenAppend, FlattenEmpty

(* Flattening goes part by part. *)
LEMMA FlattenCat ==
  ASSUME NEW T, NEW ss \in Seq(Seq(T)), NEW tt \in Seq(Seq(T))
  PROVE  FlattenSeq(ss \o tt) = FlattenSeq(ss) \o FlattenSeq(tt)
<1> DEFINE P == {uu \in Seq(Seq(T)) :
                    FlattenSeq(ss \o uu) = FlattenSeq(ss) \o FlattenSeq(uu)}
<1>1. FlattenSeq(ss) \in Seq(T)
  BY FlattenType
<1>2. <<>> \in P
  <2>1. ss \o <<>> = ss /\ FlattenSeq(ss) \o <<>> = FlattenSeq(ss) /\ <<>> \in Seq(Seq(T))
    BY <1>1, ConcatEmptySeq, EmptySeq
  <2>2. QED
    BY <2>1, FlattenEmpty
<1>3. ASSUME NEW uu \in Seq(Seq(T)), NEW e \in Seq(T), uu \in P
      PROVE  Append(uu, e) \in P
  <2>1. /\ Append(uu, e) \in Seq(Seq(T)) /\ ss \o uu \in Seq(Seq(T))
        /\ ss \o Append(uu, e) = Append(ss \o uu, e)
    <3>1. Append(uu, e) \in Seq(Seq(T)) /\ ss \o uu \in Seq(Seq(T)) /\ <<e>> \in Seq(Seq(T))
      BY ConcatProperties
    <3>2. Append(uu, e) = uu \o <<e>> /\ Append(ss \o uu, e) = (ss \o uu) \o <<e>>
      BY <3>1, AppendIsConcat
    <3>3. QED
      BY <3>1, <3>2, ConcatAssociative
  <2>2. /\ FlattenSeq(Append(ss \o uu, e)) = FlattenSeq(ss \o uu) \o e
        /\ FlattenSeq(Append(uu, e)) = FlattenSeq(uu) \o e
    BY <2>1, FlattenAppend
  <2>3. FlattenSeq(ss \o uu) = FlattenSeq(ss) \o FlattenSeq(uu) /\ FlattenSeq(uu) \in Seq(T)
    BY <1>3, FlattenType
  <2>4. (FlattenSeq(ss) \o FlattenSeq(uu)) \o e = FlattenSeq(ss) \o (FlattenSeq(uu) \o e)
    BY <1>1, <2>3, ConcatAssociative
  <2>5. FlattenSeq(ss \o Append(uu, e)) = FlattenSeq(ss) \o FlattenSeq(Append(uu, e))
    BY <2>1, <2>2, <2>3, <2>4
  <2>6. QED
    BY <2>1, <2>5
<1> HIDE DEF P
<1>4. tt \in P
  BY <1>2, <1>3, SeqSetInduction
<1>5. QED
  BY <1>4 DEF P

(* What a concatenation holds, and when it holds nothing twice. *)
LEMMA InjectiveCat ==
  ASSUME NEW T, NEW a \in Seq(T), NEW b \in Seq(T)
  PROVE  IsInjective(a \o b) <=>
            IsInjective(a) /\ IsInjective(b) /\ Range(a) \cap Range(b) = {}
<1> DEFINE c == a \o b
<1>1. /\ DOMAIN a = 1..Len(a) /\ DOMAIN b = 1..Len(b) /\ DOMAIN c = 1..(Len(a) + Len(b))
      /\ Len(a) \in Nat /\ Len(b) \in Nat
  BY ConcatProperties, LenProperties
<1>2. \A i \in 1..Len(a) : i \in DOMAIN c /\ c[i] = a[i]
  BY <1>1, ConcatProperties
<1>3. \A i \in 1..Len(b) : Len(a) + i \in DOMAIN c /\ c[Len(a) + i] = b[i]
  BY <1>1
<1>4. \A i \in DOMAIN c : i \in 1..Len(a) \/ \E k \in 1..Len(b) : i = Len(a) + k
  <2>1. ASSUME NEW i \in DOMAIN c, i \notin 1..Len(a) PROVE i - Len(a) \in 1..Len(b) /\ i = Len(a) + (i - Len(a))
    BY <1>1, <2>1
  <2>2. QED
    BY <2>1
<1> HIDE DEF c
<1>5. ASSUME IsInjective(c)
      PROVE  IsInjective(a) /\ IsInjective(b) /\ Range(a) \cap Range(b) = {}
  <2>1. IsInjective(a)
    BY <1>1, <1>2, <1>5 DEF IsInjective
  <2>2. IsInjective(b)
    <3>1. ASSUME NEW i \in 1..Len(b), NEW k \in 1..Len(b), b[i] = b[k] PROVE i = k
      <4>1. Len(a) + i = Len(a) + k
        BY <1>3, <1>5, <3>1 DEF IsInjective
      <4>2. QED
        BY <1>1, <4>1
    <3>2. QED
      BY <1>1, <3>1 DEF IsInjective
  <2>3. ASSUME NEW x \in Range(a), x \in Range(b) PROVE FALSE
    <3>1. PICK i \in 1..Len(a), k \in 1..Len(b) : x = a[i] /\ x = b[k]
      BY <1>1, <2>3 DEF Range
    <3>2. i = Len(a) + k
      BY <1>2, <1>3, <1>5, <3>1 DEF IsInjective
    <3>3. QED
      BY <1>1, <3>1, <3>2
  <2>4. QED
    BY <2>1, <2>2, <2>3
<1>6. ASSUME IsInjective(a), IsInjective(b), Range(a) \cap Range(b) = {}
      PROVE  IsInjective(c)
  <2>1. SUFFICES ASSUME NEW i \in DOMAIN c, NEW k \in DOMAIN c, c[i] = c[k] PROVE i = k
    BY DEF IsInjective
  <2>2. \A m \in 1..Len(a), n \in 1..Len(b) : a[m] # b[n]
    BY <1>1, <1>6 DEF Range
  <2>3. CASE i \in 1..Len(a) /\ k \in 1..Len(a)
    BY <1>1, <1>2, <1>6, <2>1, <2>3 DEF IsInjective
  <2>4. CASE i \notin 1..Len(a) /\ k \notin 1..Len(a)
    <3>1. PICK m \in 1..Len(b), n \in 1..Len(b) : i = Len(a) + m /\ k = Len(a) + n
      BY <1>4, <2>4
    <3>2. m = n
      BY <1>1, <1>3, <1>6, <2>1, <3>1 DEF IsInjective
    <3>3. QED
      BY <3>1, <3>2
  <2>5. CASE i \in 1..Len(a) /\ k \notin 1..Len(a)
    BY <1>2, <1>3, <1>4, <2>1, <2>2, <2>5
  <2>6. CASE i \notin 1..Len(a) /\ k \in 1..Len(a)
    BY <1>2, <1>3, <1>4, <2>1, <2>2, <2>6
  <2>7. QED
    BY <2>3, <2>4, <2>5, <2>6
<1>7. QED
  BY <1>5, <1>6 DEF c

(* What is left when a part is taken out. *)
LEMMA InjectiveWithout ==
  ASSUME NEW T, NEW a \in Seq(T), NEW m \in Seq(T), NEW b \in Seq(T), IsInjective(a \o (m \o b))
  PROVE  IsInjective(a \o b) /\ Range(a \o b) \subseteq Range(a \o (m \o b))
<1>1. m \o b \in Seq(T)
  BY ConcatProperties
<1>2. Range(m \o b) = Range(m) \cup Range(b) /\ Range(a \o b) = Range(a) \cup Range(b)
      /\ Range(a \o (m \o b)) = Range(a) \cup Range(m \o b)
  <2>1. Range(m \o b) = Range(m) \cup Range(b)
    BY RangeConcatenation
  <2>2. Range(a \o b) = Range(a) \cup Range(b)
    BY RangeConcatenation
  <2>3. \A u \in Seq(T), w \in Seq(T) : Range(u \o w) = Range(u) \cup Range(w)
    BY RangeConcatenation
  <2>4. QED
    BY <1>1, <2>1, <2>2, <2>3, Zenon
<1>3. IsInjective(a) /\ IsInjective(m \o b) /\ Range(a) \cap Range(m \o b) = {}
  BY <1>1, InjectiveCat
<1>4. IsInjective(b)
  BY <1>3, InjectiveCat
<1>5. IsInjective(a \o b)
  BY <1>2, <1>3, <1>4, InjectiveCat
<1>6. QED
  BY <1>2, <1>5

-----------------------------------------------------------------------------
(* Requests and the items they carry *)

Kinds == {"domains", "services", "web", "sast"}
Item == Nat \X Kinds \X Nat

(* A request carries at least nothing, and of assets at most BatchSize. *)
Sized == {b \in Batch : /\ b.first <= b.last + 1
                        /\ b.kind \in {"domains", "services"} => b.last - b.first < BatchSize}

(* The items of one kind of one result are numbered, each once. *)
LEMMA ItemsOfFacts ==
  ASSUME NEW i \in Nat, NEW kind \in Kinds, NEW n \in Nat
  PROVE  /\ ItemsOf(i, kind, n) \in Seq(Item)
         /\ IsInjective(ItemsOf(i, kind, n))
         /\ \A x \in Range(ItemsOf(i, kind, n)) : x[1] = i /\ x[2] = kind
<1>1. \A k \in 1..n : <<i, kind, k>> \in Item
  BY DEF Item
<1>2. ItemsOf(i, kind, n) \in Seq(Item)
  BY <1>1 DEF ItemsOf
<1>3. QED
  BY <1>2 DEF ItemsOf, IsInjective, Range

(* A request carries items. *)
LEMMA ItemsOfBatchType ==
  ASSUME NEW b \in Sized
  PROVE  ItemsOfBatch(b) \in Seq(Item)
<1>1. /\ b.result \in Nat /\ b.kind \in Kinds /\ b.first \in Nat /\ b.last \in Nat
      /\ b.last - b.first + 1 \in Nat
  BY DEF Sized, Batch, Kinds
<1>2. \A k \in 1..(b.last - b.first + 1) : <<b.result, b.kind, b.first + k - 1>> \in Item
  BY <1>1 DEF Item
<1>3. QED
  BY <1>1, <1>2 DEF ItemsOfBatch

(* The items of requests, request by request. *)
Carried(batches) == [i \in DOMAIN batches |-> ItemsOfBatch(batches[i])]

(* One sequence of items for every request. *)
LEMMA CarriedFacts ==
  ASSUME NEW bs \in Seq(Sized)
  PROVE  /\ Carried(bs) \in Seq(Seq(Item)) /\ Len(Carried(bs)) = Len(bs)
         /\ DOMAIN Carried(bs) = 1..Len(bs)
         /\ \A i \in 1..Len(bs) : Carried(bs)[i] = ItemsOfBatch(bs[i])
<1>1. DOMAIN bs = 1..Len(bs) /\ Len(bs) \in Nat
  OBVIOUS
<1>2. \A i \in 1..Len(bs) : ItemsOfBatch(bs[i]) \in Seq(Item)
  BY ItemsOfBatchType
<1>3. Carried(bs) \in Seq(Seq(Item))
  BY <1>1, <1>2 DEF Carried
<1>4. QED
  BY <1>1, <1>3 DEF Carried

(* Requests put together carry what each of them carries. *)
LEMMA CarriedCat ==
  ASSUME NEW ss \in Seq(Sized), NEW bs \in Seq(Sized)
  PROVE  Carried(ss \o bs) = Carried(ss) \o Carried(bs)
<1>1. ss \o bs \in Seq(Sized) /\ Len(ss \o bs) = Len(ss) + Len(bs) /\ Len(ss) \in Nat /\ Len(bs) \in Nat
  OBVIOUS
<1>0. /\ Carried(ss) \in Seq(Seq(Item)) /\ Len(Carried(ss)) = Len(ss)
      /\ Carried(bs) \in Seq(Seq(Item)) /\ Len(Carried(bs)) = Len(bs)
      /\ Carried(ss \o bs) \in Seq(Seq(Item)) /\ Len(Carried(ss \o bs)) = Len(ss) + Len(bs)
  BY <1>1, CarriedFacts
<1> DEFINE both == Carried(ss) \o Carried(bs)
<1>2. both \in Seq(Seq(Item)) /\ Len(both) = Len(ss) + Len(bs)
  <2>1. Len(both) = Len(Carried(ss)) + Len(Carried(bs)) /\ both \in Seq(Seq(Item))
    <3>1. \A u \in Seq(Seq(Item)), w \in Seq(Seq(Item)) : Len(u \o w) = Len(u) + Len(w) /\ u \o w \in Seq(Seq(Item))
      OBVIOUS
    <3>2. QED
      BY <1>0, <3>1, Zenon
  <2>2. QED
    BY <1>0, <2>1, Zenon
<1>3. ASSUME NEW i \in 1..(Len(ss) + Len(bs))
      PROVE  Carried(ss \o bs)[i] = (Carried(ss) \o Carried(bs))[i]
  <2>0. Len(ss) \in Nat /\ Len(bs) \in Nat /\ i \in Nat /\ 1 <= i /\ i <= Len(ss) + Len(bs)
    OBVIOUS
  <2>1. Carried(ss \o bs)[i] = ItemsOfBatch((ss \o bs)[i])
    BY <1>1, CarriedFacts
  <2>2. (Carried(ss) \o Carried(bs))[i]
           = IF i <= Len(ss) THEN Carried(ss)[i] ELSE Carried(bs)[i - Len(ss)]
    BY <1>0
  <2>3. (ss \o bs)[i] = IF i <= Len(ss) THEN ss[i] ELSE bs[i - Len(ss)]
    OBVIOUS
  <2>4. CASE i <= Len(ss)
    <3>1. i \in 1..Len(ss)
      BY <2>0, <2>4
    <3>2. QED
      BY <2>1, <2>2, <2>3, <2>4, <3>1, CarriedFacts
  <2>5. CASE ~(i <= Len(ss))
    <3>1. i - Len(ss) \in 1..Len(bs)
      BY <2>0, <2>5
    <3>2. QED
      BY <2>1, <2>2, <2>3, <2>5, <3>1, CarriedFacts
  <2>6. QED
    BY <2>4, <2>5
<1>4. QED
  BY <1>0, <1>2, <1>3, SeqEqual

(* So do they with all the items in a row. *)
LEMMA ItemsInCat ==
  ASSUME NEW ss \in Seq(Sized), NEW bs \in Seq(Sized)
  PROVE  /\ ItemsIn(ss) \in Seq(Item)
         /\ ItemsIn(ss \o bs) = ItemsIn(ss) \o ItemsIn(bs)
<1>1. \A cs : ItemsIn(cs) = FlattenSeq(Carried(cs))
  BY DEF ItemsIn, Carried
<1>2. Carried(ss) \in Seq(Seq(Item)) /\ Carried(bs) \in Seq(Seq(Item))
  BY CarriedFacts
<1>3. QED
  BY <1>1, <1>2, CarriedCat, FlattenType, FlattenCat

(* One request carries its own items. *)
LEMMA ItemsInOne ==
  ASSUME NEW b \in Sized
  PROVE  ItemsIn(<<b>>) = ItemsOfBatch(b)
<1>1. <<b>> \in Seq(Sized)
  OBVIOUS
<1>2. Carried(<<b>>) = <<ItemsOfBatch(b)>>
  <2>1. Len(<<b>>) = 1 /\ <<b>>[1] = b
    OBVIOUS
  <2>2. /\ Carried(<<b>>) \in Seq(Seq(Item)) /\ Len(Carried(<<b>>)) = 1
        /\ Carried(<<b>>)[1] = ItemsOfBatch(b)
    <3>1. 1 \in 1..Len(<<b>>)
      OBVIOUS
    <3>2. QED
      BY <1>1, <2>1, <3>1, CarriedFacts, Zenon
  <2>3. <<ItemsOfBatch(b)>> \in Seq(Seq(Item))
    BY ItemsOfBatchType
  <2>4. QED
    BY <2>2, <2>3
<1>3. QED
  BY <1>2, ItemsOfBatchType, FlattenOne DEF ItemsIn, Carried

(* No request carries none. *)
LEMMA ItemsInNone == ItemsIn(<<>>) = <<>>
<1>1. Carried(<<>>) = <<>>
  BY DEF Carried
<1>2. QED
  BY <1>1, FlattenEmpty DEF ItemsIn, Carried

(* Ceil(n) chunks are as many as n items need. *)
LEMMA CeilFacts ==
  ASSUME NEW n \in Nat
  PROVE  /\ Ceil(n) \in Nat /\ n <= Ceil(n) * BatchSize
         /\ \A k \in Nat : k + 1 <= Ceil(n) => k * BatchSize \in Nat /\ k * BatchSize < n
<1>1. BatchSize \in Nat /\ BatchSize > 0
  BY BatchAssumption
<1> DEFINE q == (n + BatchSize - 1) \div BatchSize
<1>2. q \in Nat /\ q * BatchSize <= n + BatchSize - 1 /\ n + BatchSize - 1 < q * BatchSize + BatchSize
  BY <1>1
<1> HIDE DEF q
<1>3. q * BatchSize \in Nat
  BY <1>1, <1>2
<1>4. n <= q * BatchSize /\ q * BatchSize - BatchSize < n
  BY <1>1, <1>2, <1>3
<1>5. ASSUME NEW k \in Nat, k + 1 <= q PROVE k * BatchSize \in Nat /\ k * BatchSize < n
  <2>1. k * BatchSize \in Nat /\ k * BatchSize <= q * BatchSize - BatchSize
    <3>1. PICK d \in Nat : q = k + 1 + d
      <4>1. q - (k + 1) \in Nat /\ q = k + 1 + (q - (k + 1))
        BY <1>2, <1>5
      <4>2. QED
        BY <4>1
    <3>2. q * BatchSize = k * BatchSize + BatchSize + d * BatchSize
      BY <1>1, <3>1
    <3>3. k * BatchSize \in Nat /\ d * BatchSize \in Nat
      BY <1>1
    <3>4. QED
      BY <1>1, <3>2, <3>3
  <2>2. QED
    BY <1>1, <1>3, <1>4, <2>1
<1>6. Ceil(n) = q
  BY DEF Ceil, q
<1>7. QED
  BY <1>2, <1>4, <1>5, <1>6

(* The items up to l are those up to m, then those from m + 1 to l. *)
LEMMA ItemsOfCat ==
  ASSUME NEW i \in Nat, NEW kind \in Kinds, NEW m \in Nat, NEW l \in Nat, m + 1 <= l
  PROVE  ItemsOf(i, kind, m) \o [x \in 1..(l - m) |-> <<i, kind, m + x>>] = ItemsOf(i, kind, l)
<1> DEFINE rest == [x \in 1..(l - m) |-> <<i, kind, m + x>>]
           front == ItemsOf(i, kind, m)
           whole == ItemsOf(i, kind, l)
<1>1. \A x \in 1..(l - m) : <<i, kind, m + x>> \in Item
  BY DEF Item
<1>2. l - m \in Nat
  OBVIOUS
<1>3. rest \in Seq(Item) /\ Len(rest) = l - m /\ \A x \in 1..(l - m) : rest[x] = <<i, kind, m + x>>
  BY <1>1, <1>2
<1>4. front \in Seq(Item) /\ Len(front) = m /\ \A x \in 1..m : front[x] = <<i, kind, x>>
  <2>1. front \in Seq(Item)
    BY ItemsOfFacts
  <2>2. DOMAIN front = 1..m /\ \A x \in 1..m : front[x] = <<i, kind, x>>
    BY DEF ItemsOf
  <2> HIDE DEF front
  <2>3. QED
    BY <2>1, <2>2
<1>5. whole \in Seq(Item) /\ Len(whole) = l /\ \A x \in 1..l : whole[x] = <<i, kind, x>>
  <2>1. whole \in Seq(Item)
    BY ItemsOfFacts
  <2>2. DOMAIN whole = 1..l /\ \A x \in 1..l : whole[x] = <<i, kind, x>>
    BY DEF ItemsOf
  <2> HIDE DEF whole
  <2>3. QED
    BY <2>1, <2>2
<1> HIDE DEF rest, front, whole
<1>6. /\ front \o rest \in Seq(Item) /\ Len(front \o rest) = l
      /\ \A y \in 1..l : (front \o rest)[y] = IF y <= m THEN front[y] ELSE rest[y - m]
  BY <1>2, <1>3, <1>4
<1>7. ASSUME NEW y \in 1..l PROVE (front \o rest)[y] = whole[y]
  <2>1. CASE y <= m
    <3>1. y \in 1..m
      BY <2>1
    <3>2. QED
      BY <1>4, <1>5, <1>6, <2>1, <3>1
  <2>2. CASE ~(y <= m)
    <3>1. y - m \in 1..(l - m) /\ m + (y - m) = y
      BY <2>2
    <3>2. rest[y - m] = <<i, kind, y>>
      BY <1>3, <3>1
    <3>3. QED
      BY <1>5, <1>6, <2>2, <3>2
  <2>3. QED
    BY <2>1, <2>2
<1>8. QED
  BY <1>5, <1>6, <1>7, SeqEqual DEF rest, front, whole

(* The chunks carry the items 1..n, in order and each once. *)
LEMMA BatchesFacts ==
  ASSUME NEW i \in Nat, NEW kind \in {"domains", "services"}, NEW n \in Nat
  PROVE  /\ Batches(i, kind, n) \in Seq(Sized)
         /\ ItemsIn(Batches(i, kind, n)) = ItemsOf(i, kind, n)
<1> DEFINE B == BatchSize
           low(k) == IF k * B < n THEN k * B ELSE n
           first(k) == [c \in 1..k |-> Chunk(i, kind, c, n)]
           S == {k \in Nat : k <= Ceil(n) => ItemsIn(first(k)) = ItemsOf(i, kind, low(k))}
<1>0. B \in Nat \ {0} /\ kind \in Kinds /\ Ceil(n) \in Nat
  BY BatchAssumption, CeilFacts DEF Kinds
<1>1. ASSUME NEW k \in Nat, k + 1 <= Ceil(n)
      PROVE  /\ k * B \in Nat /\ low(k) = k * B
             /\ low(k + 1) \in Nat /\ k * B + 1 <= low(k + 1) /\ low(k + 1) <= k * B + B
             /\ Chunk(i, kind, k + 1, n)
                   = [result |-> i, kind |-> kind, first |-> k * B + 1, last |-> low(k + 1)]
             /\ Chunk(i, kind, k + 1, n) \in Sized
  <2>1. k * B \in Nat /\ k * B < n
    BY <1>1, CeilFacts
  <2>2. (k + 1) * B = k * B + B /\ (k + 1) - 1 = k
    BY <1>0
  <2>3. low(k) = k * B /\ low(k + 1) = IF k * B + B < n THEN k * B + B ELSE n
    BY <2>1, <2>2
  <2>4. low(k + 1) \in Nat /\ k * B + 1 <= low(k + 1) /\ low(k + 1) <= k * B + B
    BY <1>0, <2>1, <2>3
  <2>5. Chunk(i, kind, k + 1, n)
           = [result |-> i, kind |-> kind, first |-> k * B + 1, last |-> low(k + 1)]
    BY <2>2 DEF Chunk
  <2> HIDE DEF low
  <2>6. k * B + 1 \in Nat /\ k * B + 1 <= low(k + 1) + 1 /\ low(k + 1) - (k * B + 1) < B
    BY <1>0, <2>1, <2>4
  <2>7. Chunk(i, kind, k + 1, n) \in Batch
    BY <1>0, <2>4, <2>5, <2>6 DEF Batch, Kinds
  <2>8. Chunk(i, kind, k + 1, n) \in Sized
    BY <2>5, <2>6, <2>7 DEF Sized
  <2>9. QED
    BY <2>1, <2>3, <2>4, <2>5, <2>8
<1>2. \A k \in Nat : k <= Ceil(n) => first(k) \in Seq(Sized)
  <2>1. ASSUME NEW k \in Nat, k <= Ceil(n), NEW c \in 1..k PROVE Chunk(i, kind, c, n) \in Sized
    <3>1. c - 1 \in Nat /\ (c - 1) + 1 = c /\ (c - 1) + 1 <= Ceil(n)
      BY <1>0, <2>1
    <3> HIDE DEF low
    <3>2. Chunk(i, kind, (c - 1) + 1, n) \in Sized
      BY <1>1, <3>1
    <3>3. QED
      BY <3>1, <3>2
  <2>2. QED
    BY <2>1
<1>3. 0 \in S
  <2>1. first(0) = <<>>
    OBVIOUS
  <2>2. low(0) = 0 /\ ItemsOf(i, kind, 0) = <<>>
    BY <1>0 DEF ItemsOf
  <2> HIDE DEF first, low
  <2>3. QED
    BY <2>1, <2>2, ItemsInNone
<1>4. ASSUME NEW k \in Nat, k \in S PROVE k + 1 \in S
  <2>1. SUFFICES ASSUME k + 1 <= Ceil(n)
                 PROVE  ItemsIn(first(k + 1)) = ItemsOf(i, kind, low(k + 1))
    OBVIOUS
  <2> DEFINE c == Chunk(i, kind, k + 1, n)
  <2>2. first(k + 1) = first(k) \o <<c>>
    BY <2>1
  <2>3. k <= Ceil(n)
    BY <1>0, <2>1
  <2>4. /\ k * B \in Nat /\ low(k) = k * B /\ c \in Sized
        /\ low(k + 1) \in Nat /\ k * B + 1 <= low(k + 1)
        /\ c = [result |-> i, kind |-> kind, first |-> k * B + 1, last |-> low(k + 1)]
    BY <1>1, <2>1
  <2>5. first(k) \in Seq(Sized)
    BY <1>2, <2>3
  <2>6. ItemsIn(first(k)) = ItemsOf(i, kind, low(k))
    BY <1>4, <2>3
  <2> HIDE DEF first, low, c
  <2>7. <<c>> \in Seq(Sized)
    BY <2>4
  <2>8. ItemsIn(first(k + 1)) = ItemsOf(i, kind, k * B) \o ItemsOfBatch(c)
    BY <2>2, <2>4, <2>5, <2>6, <2>7, ItemsInCat, ItemsInOne
  <2>9. ItemsOf(i, kind, k * B) \o [x \in 1..(low(k + 1) - k * B) |-> <<i, kind, k * B + x>>]
           = ItemsOf(i, kind, low(k + 1))
    <3>1. \A m, l \in Nat : m + 1 <= l =>
             ItemsOf(i, kind, m) \o [x \in 1..(l - m) |-> <<i, kind, m + x>>] = ItemsOf(i, kind, l)
      BY <1>0, ItemsOfCat
    <3>2. QED
      BY <2>4, <3>1, Zenon
  <2>10. ItemsOfBatch(c) = [x \in 1..(low(k + 1) - k * B) |-> <<i, kind, k * B + x>>]
    <3>1. \A m \in Nat, l \in Nat : /\ l - (m + 1) + 1 = l - m
                                    /\ \A x \in 1..(l - m) : m + 1 + x - 1 = m + x
      OBVIOUS
    <3>2. ItemsOfBatch(c) = [x \in 1..(low(k + 1) - (k * B + 1) + 1) |-> <<i, kind, k * B + 1 + x - 1>>]
      BY <2>4 DEF ItemsOfBatch
    <3>3. low(k + 1) - (k * B + 1) + 1 = low(k + 1) - k * B
      BY <2>4, <3>1
    <3>4. \A x \in 1..(low(k + 1) - k * B) : k * B + 1 + x - 1 = k * B + x
      BY <2>4, <3>1
    <3>5. QED
      BY <3>2, <3>3, <3>4
  <2>11. QED
    BY <2>4, <2>8, <2>9, <2>10
<1> HIDE DEF S
<1>5. \A k \in Nat : k \in S
  BY <1>3, <1>4, NatSetInduction
<1>6. low(Ceil(n)) = n
  <2>1. \A a \in Nat : n <= a => ~(a < n)
    OBVIOUS
  <2>2. Ceil(n) * B \in Nat /\ n <= Ceil(n) * B
    BY <1>0, CeilFacts
  <2>3. QED
    BY <2>1, <2>2
<1>7. Batches(i, kind, n) = first(Ceil(n))
  BY DEF Batches
<1>8. ItemsIn(first(Ceil(n))) = ItemsOf(i, kind, low(Ceil(n))) /\ first(Ceil(n)) \in Seq(Sized)
  <2>1. Ceil(n) \in S /\ Ceil(n) <= Ceil(n)
    BY <1>0, <1>5
  <2>2. ItemsIn(first(Ceil(n))) = ItemsOf(i, kind, low(Ceil(n)))
    BY <2>1 DEF S
  <2>3. QED
    BY <1>0, <1>2, <2>1, <2>2
<1> HIDE DEF first, low
<1>9. QED
  BY <1>6, <1>7, <1>8

(* Findings go out in one request, or none. *)
LEMMA WholeFacts ==
  ASSUME NEW i \in Nat, NEW kind \in {"web", "sast"}, NEW n \in Nat
  PROVE  /\ Whole(i, kind, n) \in Seq(Sized)
         /\ ItemsIn(Whole(i, kind, n)) = ItemsOf(i, kind, n)
<1>1. CASE n = 0
  <2>1. Whole(i, kind, n) = <<>> /\ <<>> \in Seq(Sized)
    BY <1>1 DEF Whole
  <2>2. ItemsOf(i, kind, 0) = <<>>
    BY DEF ItemsOf
  <2>3. QED
    BY <1>1, <2>1, <2>2, ItemsInNone
<1>2. CASE n # 0
  <2> DEFINE b == [result |-> i, kind |-> kind, first |-> 1, last |-> n]
  <2>1. b \in Sized
    <3>1. b \in Batch
      BY DEF Batch
    <3>2. b.first <= b.last + 1 /\ b.kind \notin {"domains", "services"}
      OBVIOUS
    <3> HIDE DEF b
    <3>3. QED
      BY <3>1, <3>2 DEF Sized
  <2>2. ItemsOfBatch(b) = [k \in 1..(n - 1 + 1) |-> <<i, kind, 1 + k - 1>>]
    BY DEF ItemsOfBatch
  <2>3. n - 1 + 1 = n /\ \A k \in 1..n : 1 + k - 1 = k
    OBVIOUS
  <2>4. ItemsOfBatch(b) = ItemsOf(i, kind, n)
    BY <2>2, <2>3 DEF ItemsOf
  <2>5. Whole(i, kind, n) = <<b>>
    BY <1>2 DEF Whole
  <2> HIDE DEF b
  <2>6. <<b>> \in Seq(Sized)
    BY <2>1
  <2>7. QED
    BY <2>1, <2>4, <2>5, <2>6, ItemsInOne
<1>3. QED
  BY <1>1, <1>2

(* What importResult sends for a result carries the result's items. *)
LEMMA RequestsFacts ==
  ASSUME NEW i \in Nat, NEW res \in Result
  PROVE  /\ Requests(i, res) \in Seq(Sized)
         /\ ItemsIn(Requests(i, res)) = ItemsOfResult(i, res)
<1> DEFINE a == Batches(i, "domains", res.domains)
           b == Batches(i, "services", res.services)
           c == Whole(i, "web", res.web)
           d == Whole(i, "sast", res.sast)
<1>1. res.domains \in Nat /\ res.services \in Nat /\ res.web \in Nat /\ res.sast \in Nat
  BY DEF Result
<1>2. a \in Seq(Sized) /\ ItemsIn(a) = ItemsOf(i, "domains", res.domains)
  BY <1>1, BatchesFacts
<1>3. b \in Seq(Sized) /\ ItemsIn(b) = ItemsOf(i, "services", res.services)
  BY <1>1, BatchesFacts
<1>4. c \in Seq(Sized) /\ ItemsIn(c) = ItemsOf(i, "web", res.web)
  BY <1>1, WholeFacts
<1>5. d \in Seq(Sized) /\ ItemsIn(d) = ItemsOf(i, "sast", res.sast)
  BY <1>1, WholeFacts
<1>6. Requests(i, res) = a \o b \o c \o d
  BY DEF Requests
<1> HIDE DEF a, b, c, d
<1>7. \A u, w \in Seq(Sized) : u \o w \in Seq(Sized) /\ ItemsIn(u \o w) = ItemsIn(u) \o ItemsIn(w)
  BY ConcatProperties, ItemsInCat
<1>8. a \o b \in Seq(Sized) /\ ItemsIn(a \o b) = ItemsIn(a) \o ItemsIn(b)
  BY <1>2, <1>3, <1>7
<1>9. a \o b \o c \in Seq(Sized) /\ ItemsIn(a \o b \o c) = ItemsIn(a) \o ItemsIn(b) \o ItemsIn(c)
  BY <1>4, <1>7, <1>8, Zenon
<1>10. /\ a \o b \o c \o d \in Seq(Sized)
       /\ ItemsIn(a \o b \o c \o d) = ItemsIn(a) \o ItemsIn(b) \o ItemsIn(c) \o ItemsIn(d)
  BY <1>5, <1>7, <1>9, Zenon
<1>11. QED
  BY <1>2, <1>3, <1>4, <1>5, <1>6, <1>10, Zenon DEF ItemsOfResult

(* A result has no item twice, and its items carry its number. *)
LEMMA ItemsOfResultFacts ==
  ASSUME NEW i \in Nat, NEW res \in Result
  PROVE  /\ ItemsOfResult(i, res) \in Seq(Item)
         /\ IsInjective(ItemsOfResult(i, res))
         /\ \A x \in Range(ItemsOfResult(i, res)) : x[1] = i
<1> DEFINE a == ItemsOf(i, "domains", res.domains)
           b == ItemsOf(i, "services", res.services)
           c == ItemsOf(i, "web", res.web)
           d == ItemsOf(i, "sast", res.sast)
           Good(s, kinds) == /\ s \in Seq(Item) /\ IsInjective(s)
                             /\ \A x \in Range(s) : x[1] = i /\ x[2] \in kinds
<1>1. res.domains \in Nat /\ res.services \in Nat /\ res.web \in Nat /\ res.sast \in Nat
  BY DEF Result
<1>2. ASSUME NEW kind \in Kinds, NEW n \in Nat PROVE Good(ItemsOf(i, kind, n), {kind})
  <2>1. /\ ItemsOf(i, kind, n) \in Seq(Item) /\ IsInjective(ItemsOf(i, kind, n))
        /\ \A x \in Range(ItemsOf(i, kind, n)) : x[1] = i /\ x[2] = kind
    BY ItemsOfFacts
  <2>2. QED
    BY <2>1, Zenon
<1>3. {"domains", "services", "web", "sast"} \subseteq Kinds
  BY DEF Kinds
<1> HIDE DEF Good
<1>4. Good(a, {"domains"})
  BY <1>1, <1>2, <1>3
<1>5. Good(b, {"services"})
  BY <1>1, <1>2, <1>3
<1>6. Good(c, {"web"})
  BY <1>1, <1>2, <1>3
<1>7. Good(d, {"sast"})
  BY <1>1, <1>2, <1>3
<1>8. ItemsOfResult(i, res) = a \o b \o c \o d
  BY DEF ItemsOfResult
<1> HIDE DEF a, b, c, d
<1>9. ASSUME NEW s, NEW t, NEW K, NEW L, Good(s, K), Good(t, L), K \cap L = {}
      PROVE  Good(s \o t, K \cup L)
  <2> USE DEF Good
  <2>1. s \in Seq(Item) /\ t \in Seq(Item)
    BY <1>9
  <2>2. s \o t \in Seq(Item) /\ Range(s \o t) = Range(s) \cup Range(t)
    BY <2>1, ConcatProperties, RangeConcatenation
  <2>3. Range(s) \cap Range(t) = {}
    BY <1>9
  <2>4. IsInjective(s \o t)
    BY <1>9, <2>1, <2>3, InjectiveCat
  <2>5. QED
    BY <1>9, <2>2, <2>4
<1>10. Good(a \o b, {"domains"} \cup {"services"})
  BY <1>4, <1>5, <1>9
<1>11. Good(a \o b \o c, ({"domains"} \cup {"services"}) \cup {"web"})
  BY <1>6, <1>9, <1>10
<1>12. Good(a \o b \o c \o d, (({"domains"} \cup {"services"}) \cup {"web"}) \cup {"sast"})
  BY <1>7, <1>9, <1>11
<1>13. QED
  BY <1>8, <1>12 DEF Good

-----------------------------------------------------------------------------
(* The inductive invariant *)

(* Requests are well-formed, under way or booked. *)
RequestsSized ==
    \A j \in Jobs : todo[j] \in Seq(Sized) /\ received[j] \in Seq(Sized)

(* What the server has booked on a job, followed by what the job has yet to *)
(* send of its last result, holds nothing twice and nothing the handler did *)
(* not emit, and is all that it emitted unless an import failed. An item    *)
(* carries the number of its result, so that the next result is new.        *)
AllItems(results) == FlattenSeq([i \in DOMAIN results |-> ItemsOfResult(i, results[i])])
OnTheWay(sent, left) == ItemsIn(sent) \o ItemsIn(left)

Accounted(results, left, lost, sent) ==
    /\ ~lost => OnTheWay(sent, left) = AllItems(results)
    /\ IsInjective(OnTheWay(sent, left))
    /\ Range(OnTheWay(sent, left)) \subseteq Range(AllItems(results))
    /\ \A x \in Range(AllItems(results)) : x[1] <= Len(results)

ImportsOnTheWay ==
    \A j \in Jobs : Accounted(emitted[j], todo[j], failed[j], received[j])

(* A terminal report is booked only once the job has sent it. *)
ReportedLast == \A j \in Jobs : ended[j] # "no" => pc[j] \in {"cleanup", "over"}

(* Whoever may call holds the token minted for it, which is accepted no     *)
(* longer once the terminal report has been booked.                         *)
TokensHeld == \A j \in Jobs :
    /\ jobToken[j] # NoToken => minted[jobToken[j]] = j
    /\ pc[j] \notin {"mint", "over"} \/ logs[j] # 0 => jobToken[j] # NoToken
    /\ ended[j] # "no" => jobToken[j] \notin tokens

PlaneInv == /\ TypeOK /\ OwnCredentials /\ TokensHeld
            /\ RequestsSized /\ ImportsOnTheWay /\ ReportedLast

-----------------------------------------------------------------------------
(* What emitting and importing do to the account *)

(* One more result adds its items at the end. *)
LEMMA AllItemsFacts ==
  ASSUME NEW es \in Seq(Results), NEW res \in Results
  PROVE  /\ AllItems(es) \in Seq(Item)
         /\ AllItems(Append(es, res)) = AllItems(es) \o ItemsOfResult(Len(es) + 1, res)
<1> DEFINE M(s) == [i \in DOMAIN s |-> ItemsOfResult(i, s[i])]
<1>1. \A i \in Nat, r \in Results : ItemsOfResult(i, r) \in Seq(Item)
  BY ItemsOfResultFacts, ResultsAssumption
<1>2. ASSUME NEW s \in Seq(Results) PROVE M(s) \in Seq(Seq(Item)) /\ Len(M(s)) = Len(s)
  <2>1. DOMAIN s = 1..Len(s) /\ Len(s) \in Nat
    OBVIOUS
  <2>2. \A i \in 1..Len(s) : ItemsOfResult(i, s[i]) \in Seq(Item)
    <3>1. \A i \in 1..Len(s) : i \in Nat /\ s[i] \in Results
      OBVIOUS
    <3>2. QED
      BY <1>1, <3>1, Zenon
  <2>3. QED
    BY <2>1, <2>2
<1> DEFINE fs == Append(es, res)
           last == ItemsOfResult(Len(es) + 1, res)
<1>3. /\ Len(es) \in Nat /\ fs \in Seq(Results) /\ Len(fs) = Len(es) + 1 /\ fs[Len(es) + 1] = res
      /\ \A i \in 1..Len(es) : fs[i] = es[i]
      /\ DOMAIN es = 1..Len(es) /\ DOMAIN fs = 1..(Len(es) + 1)
  BY AppendProperties
<1>4. last \in Seq(Item)
  BY <1>1, <1>3
<1>5. M(fs) = Append(M(es), last)
  <2>1. /\ M(fs) \in Seq(Seq(Item)) /\ Len(M(fs)) = Len(es) + 1
        /\ M(es) \in Seq(Seq(Item)) /\ Len(M(es)) = Len(es)
    BY <1>2, <1>3
  <2>2. \A i \in 1..(Len(es) + 1) : M(fs)[i] = ItemsOfResult(i, fs[i])
    BY <1>3
  <2>3. \A i \in 1..Len(es) : M(es)[i] = ItemsOfResult(i, es[i])
    BY <1>3
  <2> HIDE DEF M, fs, last
  <2>4. /\ Append(M(es), last) \in Seq(Seq(Item)) /\ Len(Append(M(es), last)) = Len(es) + 1
        /\ Append(M(es), last)[Len(es) + 1] = last
        /\ \A i \in 1..Len(es) : Append(M(es), last)[i] = M(es)[i]
    BY <1>3, <1>4, <2>1
  <2>5. ASSUME NEW i \in 1..(Len(es) + 1) PROVE M(fs)[i] = Append(M(es), last)[i]
    <3>1. CASE i = Len(es) + 1
      BY <1>3, <2>2, <2>4, <3>1 DEF last
    <3>2. CASE i # Len(es) + 1
      <4>1. i \in 1..Len(es)
        BY <1>3, <3>2
      <4>2. QED
        BY <1>3, <2>2, <2>3, <2>4, <4>1
    <3>3. QED
      BY <3>1, <3>2
  <2>6. QED
    BY <2>1, <2>4, <2>5, SeqEqual
<1>6. M(es) \in Seq(Seq(Item))
  BY <1>2
<1>7. AllItems(es) = FlattenSeq(M(es)) /\ AllItems(fs) = FlattenSeq(M(fs))
  BY DEF AllItems
<1> HIDE DEF M, fs, last
<1>8. AllItems(es) \in Seq(Item) /\ AllItems(fs) = AllItems(es) \o last
  BY <1>4, <1>5, <1>6, <1>7, FlattenType, FlattenAppend
<1>9. QED
  BY <1>8 DEF fs, last

(* The handler emits a result when the last one has been sent. *)
LEMMA EmitAccounted ==
  ASSUME NEW es \in Seq(Results), NEW res \in Results, NEW lost \in BOOLEAN,
         NEW sent \in Seq(Sized), Accounted(es, <<>>, lost, sent)
  PROVE  LET i == Len(Append(es, res)) IN
         /\ Requests(i, res) \in Seq(Sized)
         /\ Accounted(Append(es, res), Requests(i, res), lost, sent)
<1> DEFINE i == Len(Append(es, res))
           new == ItemsOfResult(i, res)
           fs == Append(es, res)
<1>1. Len(es) \in Nat /\ i = Len(es) + 1 /\ i \in Nat /\ res \in Result
  BY ResultsAssumption
<1>2. Requests(i, res) \in Seq(Sized) /\ ItemsIn(Requests(i, res)) = new
  BY <1>1, RequestsFacts
<1>3. AllItems(es) \in Seq(Item) /\ AllItems(fs) = AllItems(es) \o new
  BY <1>1, AllItemsFacts
<1>4. new \in Seq(Item) /\ IsInjective(new) /\ \A x \in Range(new) : x[1] = i
  BY <1>1, ItemsOfResultFacts
<1>5. ItemsIn(sent) \in Seq(Item) /\ OnTheWay(sent, <<>>) = ItemsIn(sent)
  <2>1. ItemsIn(sent) \in Seq(Item)
    BY ItemsInCat
  <2>2. QED
    BY <2>1, ItemsInNone, ConcatEmptySeq DEF OnTheWay
<1>6. /\ ~lost => ItemsIn(sent) = AllItems(es)
      /\ IsInjective(ItemsIn(sent))
      /\ Range(ItemsIn(sent)) \subseteq Range(AllItems(es))
      /\ \A x \in Range(AllItems(es)) : x[1] <= Len(es)
  BY <1>5 DEF Accounted
<1>7. OnTheWay(sent, Requests(i, res)) = ItemsIn(sent) \o new
  BY <1>2 DEF OnTheWay
<1>8. Len(fs) = i
  OBVIOUS
<1> HIDE DEF i, new, fs
<1>9. /\ Range(ItemsIn(sent) \o new) = Range(ItemsIn(sent)) \cup Range(new)
      /\ Range(AllItems(es) \o new) = Range(AllItems(es)) \cup Range(new)
  <2>1. Range(ItemsIn(sent) \o new) = Range(ItemsIn(sent)) \cup Range(new)
    BY <1>4, <1>5, RangeConcatenation
  <2>2. Range(AllItems(es) \o new) = Range(AllItems(es)) \cup Range(new)
    BY <1>3, <1>4, RangeConcatenation
  <2>3. QED
    BY <2>1, <2>2
<1>10. Range(ItemsIn(sent)) \cap Range(new) = {}
  <2>1. \A n \in Nat : ~(n + 1 <= n)
    OBVIOUS
  <2>2. ~(i <= Len(es))
    BY <1>1, <2>1
  <2>3. QED
    BY <1>4, <1>6, <2>2
<1>11. IsInjective(ItemsIn(sent) \o new)
  BY <1>4, <1>5, <1>6, <1>10, InjectiveCat
<1>12. \A x \in Range(AllItems(fs)) : x[1] <= Len(fs)
  <2>1. \A x \in Range(new) : x[1] <= Len(fs)
    <3>1. i <= Len(fs)
      BY <1>1, <1>8
    <3>2. QED
      BY <1>4, <3>1
  <2>2. ASSUME NEW x \in Range(AllItems(es)) PROVE x[1] <= Len(fs)
    <3>1. x[1] <= Len(es) /\ x \in Item
      BY <1>3, <1>6, <2>2, RangeOfSeq
    <3>2. x[1] \in Nat
      BY <3>1 DEF Item
    <3>3. QED
      BY <1>1, <1>8, <3>1, <3>2
  <2>3. QED
    BY <1>3, <1>9, <2>1, <2>2
<1>13. Accounted(fs, Requests(i, res), lost, sent)
  BY <1>3, <1>6, <1>7, <1>9, <1>11, <1>12 DEF Accounted
<1>14. QED
  BY <1>2, <1>13 DEF i, fs

(* A request is booked, or lost; either way the job goes on to the next. *)
LEMMA PushAccounted ==
  ASSUME NEW es \in Seq(Results), NEW left \in Seq(Sized), left # <<>>, NEW lost \in BOOLEAN,
         NEW sent \in Seq(Sized), Accounted(es, left, lost, sent)
  PROVE  /\ Append(sent, Head(left)) \in Seq(Sized) /\ Tail(left) \in Seq(Sized)
         /\ Accounted(es, Tail(left), lost, Append(sent, Head(left)))
         /\ Accounted(es, Tail(left), TRUE, Append(sent, Head(left)))
         /\ Accounted(es, Tail(left), TRUE, sent)
<1> DEFINE b == Head(left)
           R == ItemsIn(sent)
           H == ItemsOfBatch(b)
           L == ItemsIn(Tail(left))
<1>1. b \in Sized /\ Tail(left) \in Seq(Sized) /\ left = <<b>> \o Tail(left) /\ <<b>> \in Seq(Sized)
      /\ Append(sent, b) \in Seq(Sized) /\ Append(sent, b) = sent \o <<b>>
  <2>1. b \in Sized /\ Tail(left) \in Seq(Sized)
    BY HeadTailProperties
  <2>2. left = <<b>> \o Tail(left)
    OBVIOUS
  <2> HIDE DEF b
  <2>3. <<b>> \in Seq(Sized)
    BY <2>1
  <2>4. Append(sent, b) \in Seq(Sized) /\ Append(sent, b) = sent \o <<b>>
    BY <2>1, AppendProperties, AppendIsConcat
  <2>5. QED
    BY <2>1, <2>2, <2>3, <2>4
<1> HIDE DEF b
<1>2. R \in Seq(Item) /\ H \in Seq(Item) /\ L \in Seq(Item)
  BY <1>1, ItemsInCat, ItemsOfBatchType
<1>3. ItemsIn(<<b>>) = H
  BY <1>1, ItemsInOne
<1>4. ItemsIn(left) = H \o L /\ ItemsIn(Append(sent, b)) = R \o H
  <2>1. \A u, w \in Seq(Sized) : ItemsIn(u \o w) = ItemsIn(u) \o ItemsIn(w)
    BY ItemsInCat
  <2>2. QED
    BY <1>1, <1>3, <2>1
<1> HIDE DEF R, H, L
<1>5. OnTheWay(sent, left) = R \o (H \o L)
  BY <1>4 DEF OnTheWay, R
<1>6. OnTheWay(Append(sent, b), Tail(left)) = R \o (H \o L)
  <2>1. OnTheWay(Append(sent, b), Tail(left)) = (R \o H) \o L
    BY <1>4 DEF OnTheWay, L
  <2>2. (R \o H) \o L = R \o (H \o L)
    BY <1>2, ConcatAssociative
  <2>3. QED
    BY <2>1, <2>2
<1>7. OnTheWay(sent, Tail(left)) = R \o L
  BY DEF OnTheWay, R, L
<1>8. /\ Accounted(es, Tail(left), lost, Append(sent, b))
      /\ Accounted(es, Tail(left), TRUE, Append(sent, b))
  BY <1>5, <1>6 DEF Accounted
<1>9. Accounted(es, Tail(left), TRUE, sent)
  <2>1. IsInjective(R \o L) /\ Range(R \o L) \subseteq Range(R \o (H \o L))
    BY <1>2, <1>5, InjectiveWithout DEF Accounted
  <2>2. QED
    BY <1>5, <1>7, <2>1 DEF Accounted
<1>10. QED
  BY <1>1, <1>8, <1>9 DEF b

-----------------------------------------------------------------------------
(* Every step preserves the invariant *)

(* Nothing has been emitted, sent or booked. *)
LEMMA PlaneInit == Init => PlaneInv
<1> SUFFICES ASSUME Init PROVE PlaneInv
  OBVIOUS
<1>1. <<>> \in Seq(Results) /\ <<>> \in Seq(Batch) /\ <<>> \in Seq(Sized) /\ <<>> \in Seq(Item)
  OBVIOUS
<1>2. TypeOK
  <2>1. 0 \in 0..MaxLogs
    BY BoundsAssumption
  <2>2. <<>> \in Seq(Jobs)
    OBVIOUS
  <2>3. QED
    BY <1>1, <2>1, <2>2, Zenon DEF Init, TypeOK
<1>3. OwnCredentials /\ TokensHeld /\ RequestsSized /\ ReportedLast
  BY <1>1 DEF Init, OwnCredentials, TokensHeld, RequestsSized, ReportedLast
<1>4. Accounted(<<>>, <<>>, FALSE, <<>>)
  <2>1. AllItems(<<>>) = <<>>
    <3>1. [i \in DOMAIN <<>> |-> ItemsOfResult(i, <<>>[i])] = <<>>
      OBVIOUS
    <3>2. QED
      BY <3>1, FlattenEmpty DEF AllItems
  <2>2. OnTheWay(<<>>, <<>>) = <<>>
    <3>1. <<>> \o <<>> = <<>>
      OBVIOUS
    <3>2. QED
      BY <3>1, ItemsInNone DEF OnTheWay
  <2>3. IsInjective(<<>>) /\ Range(<<>>) = {}
    BY DEF IsInjective, Range
  <2>4. QED
    BY <2>1, <2>2, <2>3 DEF Accounted
<1>5. ImportsOnTheWay
  BY <1>4 DEF Init, ImportsOnTheWay
<1>6. QED
  BY <1>2, <1>3, <1>5 DEF PlaneInv

(* A request that names its maker, and not late, may be added. *)
LEMMA OwnRequest ==
  ASSUME OwnCredentials, reached \subseteq Request, NEW who \in Principals,
         NEW own, own = [by |-> who, names |-> {who}, late |-> FALSE],
         reached' = reached \/ reached' = reached \cup {own}
  PROVE  OwnCredentials' /\ reached' \subseteq Request
<1>1. own \in Request /\ own.names = {own.by} /\ ~own.late
  BY DEF Request
<1>2. \A r \in reached' : r \in reached \/ r = own
  OBVIOUS
<1>3. \A r \in reached' : r \in Request
  BY <1>1, <1>2
<1>4. \A r \in reached' : r.names = {r.by} /\ ~r.late
  BY <1>1, <1>2 DEF OwnCredentials
<1>5. QED
  BY <1>3, <1>4 DEF OwnCredentials

(* The agent's context carries no token, and RoundTrip falls back.          *)
LEMMA AgentCalls ==
  ASSUME OwnCredentials, reached \subseteq Request, NEW processed, NEW answered,
         Call(Agent, NoToken, processed, answered)
  PROVE  OwnCredentials' /\ reached' \subseteq Request
<1> DEFINE header == Header(NoToken)
<1>1. header.scheme = "X-Token"
  BY TokenAssumption DEF Header
<1> HIDE DEF header
<1>2. Names(header) = {Agent}
  BY <1>1 DEF Names
<1>3. \/ reached' = reached
      \/ reached' = reached \cup {[by |-> Agent, names |-> {Agent}, late |-> FALSE]}
  BY <1>2, PrincipalsAssumption DEF Call, header
<1>4. QED
  BY <1>3, OwnRequest DEF Principals

(* jobCtx carries a token, and RoundTrip does not: the header names the job *)
(* of the context, and the server accepts it until the job has ended.       *)
LEMMA JobCalls ==
  ASSUME OwnCredentials, TokensHeld, reached \subseteq Request, NEW j \in Jobs,
         jobToken[j] # NoToken, NEW processed, NEW answered,
         Call(j, jobToken[j], processed, answered)
  PROVE  OwnCredentials' /\ reached' \subseteq Request
<1> DEFINE header == Header(jobToken[j])
<1>1. header.scheme = "Bearer" /\ header.token = jobToken[j]
  BY DEF Header
<1> HIDE DEF header
<1>2. Names(header) = {j}
  BY <1>1 DEF Names, TokensHeld
<1>3. header.token \in tokens => ended[j] = "no"
  BY <1>1 DEF TokensHeld
<1>4. \/ reached' = reached
      \/ reached' = reached \cup {[by |-> j, names |-> {j}, late |-> FALSE]}
  BY <1>1, <1>2, <1>3 DEF Call, header
<1>5. QED
  BY <1>4, OwnRequest DEF Principals

(* What is left unchanged leaves the credentials as they are. *)
LEMMA TokensKept ==
  ASSUME TokensHeld, UNCHANGED <<pc, jobToken, logs, minted, tokens, ended>>
  PROVE  TokensHeld'
  BY DEF TokensHeld

(* Asking for the job's token, and getting one, or none, or an empty one.   *)
LEMMA MintKeeps ==
  ASSUME PlaneInv, NEW j \in Jobs, CreateJobToken(j) PROVE PlaneInv'
<1>0. TypeOK /\ OwnCredentials /\ TokensHeld /\ RequestsSized /\ ImportsOnTheWay /\ ReportedLast
  BY DEF PlaneInv
<1>1. PICK how \in {"error", "empty", "token"}, processed \in BOOLEAN, answered \in BOOLEAN,
           empty \in BOOLEAN :
        /\ Call(Agent, NoToken, processed, answered)
        /\ minted' = IF processed /\ ~empty THEN Append(minted, j) ELSE minted
        /\ tokens' = tokens \cup (DOMAIN minted' \ DOMAIN minted)
        /\ how = IF ~answered THEN "error" ELSE IF empty THEN "empty" ELSE "token"
        /\ jobToken' = IF how = "token" THEN [jobToken EXCEPT ![j] = Len(minted')] ELSE jobToken
        /\ pc[j] = "mint"
        /\ pc' = [pc EXCEPT ![j] = IF how = "token" THEN "detail" ELSE "over"]
  BY DEF CreateJobToken, AsksForToken, Goto
<1>2. UNCHANGED <<work, ctxDone, received, ended>>
  BY DEF CreateJobToken, AsksForToken
<1>3. OwnCredentials' /\ reached' \subseteq Request
  BY <1>0, <1>1, AgentCalls DEF TypeOK
<1>4. /\ minted \in Seq(Jobs) /\ tokens \subseteq DOMAIN minted
      /\ jobToken \in [Jobs -> {NoToken} \cup DOMAIN minted]
      /\ pc \in [Jobs -> {"mint", "detail", "start", "artifact", "scan", "completed", "failed",
                          "cleanup", "over"}]
      /\ \A k \in Jobs : todo[k] # <<>> => pc[k] = "scan"
  BY <1>0 DEF TypeOK
<1>5. /\ minted' \in Seq(Jobs) /\ DOMAIN minted = 1..Len(minted) /\ Len(minted) \in Nat
      /\ DOMAIN minted \subseteq DOMAIN minted'
      /\ \A t \in DOMAIN minted : minted'[t] = minted[t]
      /\ how = "token" => /\ Len(minted') \in DOMAIN minted' /\ minted'[Len(minted')] = j
                          /\ Len(minted') # NoToken
  <2>1. how = "token" => processed /\ ~empty
    BY <1>1 DEF Call
  <2>2. CASE processed /\ ~empty
    <3>1. minted' = Append(minted, j)
      BY <1>1, <2>2
    <3>2. QED
      BY <1>4, <3>1 DEF NoToken
  <2>3. CASE ~(processed /\ ~empty)
    <3>1. minted' = minted
      BY <1>1, <2>3
    <3>2. QED
      BY <1>4, <2>1, <2>3, <3>1
  <2>4. QED
    BY <2>2, <2>3
<1>6. /\ \A k \in Jobs \ {j} : jobToken'[k] = jobToken[k] /\ pc'[k] = pc[k]
      /\ jobToken'[j] = IF how = "token" THEN Len(minted') ELSE jobToken[j]
      /\ pc'[j] = IF how = "token" THEN "detail" ELSE "over"
  BY <1>1, <1>4
<1>7. jobToken' \in [Jobs -> {NoToken} \cup DOMAIN minted'] /\ tokens' \subseteq DOMAIN minted'
  BY <1>1, <1>4, <1>5
<1>8. TypeOK'
  <2>1. /\ pc' \in [Jobs -> {"mint", "detail", "start", "artifact", "scan", "completed", "failed",
                             "cleanup", "over"}]
        /\ \A k \in Jobs : todo[k] # <<>> => pc'[k] = "scan"
    BY <1>1, <1>4
  <2>2. QED
    BY <1>0, <1>2, <1>3, <1>5, <1>7, <2>1 DEF TypeOK, work
<1>9. TokensHeld'
  <2>1. ASSUME NEW k \in Jobs
        PROVE  /\ jobToken'[k] # NoToken => minted'[jobToken'[k]] = k
               /\ pc'[k] \notin {"mint", "over"} \/ logs[k] # 0 => jobToken'[k] # NoToken
               /\ ended[k] # "no" => jobToken'[k] \notin tokens'
    <3>1. /\ jobToken[k] # NoToken => jobToken[k] \in DOMAIN minted /\ minted[jobToken[k]] = k
          /\ pc[k] \notin {"mint", "over"} \/ logs[k] # 0 => jobToken[k] # NoToken
          /\ ended[k] # "no" => jobToken[k] \notin tokens /\ pc[k] \in {"cleanup", "over"}
      BY <1>0, <1>4 DEF TokensHeld, ReportedLast
    <3>2. CASE k # j \/ how # "token"
      <4>1. jobToken'[k] = jobToken[k]
        BY <1>6, <3>2
      <4>2. jobToken[k] \in tokens' => jobToken[k] \in tokens
        <5>1. CASE jobToken[k] = NoToken
          BY <1>1, <1>5, <1>7, <5>1 DEF NoToken
        <5>2. CASE jobToken[k] # NoToken
          BY <1>1, <3>1, <5>2
        <5>3. QED
          BY <5>1, <5>2
      <4>3. QED
        BY <1>1, <1>5, <1>6, <3>1, <3>2, <4>1, <4>2
    <3>3. CASE k = j /\ how = "token"
      BY <1>1, <1>5, <1>6, <3>1, <3>3
    <3>4. QED
      BY <3>2, <3>3
  <2>2. QED
    BY <1>2, <2>1 DEF TokensHeld, work
<1>10. RequestsSized' /\ ImportsOnTheWay'
  BY <1>0, <1>2 DEF RequestsSized, ImportsOnTheWay, work
<1>11. ReportedLast'
  BY <1>0, <1>1, <1>2, <1>6 DEF ReportedLast
<1>12. QED
  BY <1>3, <1>8, <1>9, <1>10, <1>11 DEF PlaneInv

(* Moves of one job among the states of executeJob. *)
PlainMove(j) ==
    \/ GetJobDetail(j) \/ JobStart(j) \/ GetArtifactDownload(j)
    \/ JobHeartbeat(j) \/ ScanReturns(j) \/ Cleanup(j) \/ Log(j) \/ LogSent(j)

(* None of them touches results, tokens or the account. *)
LEMMA PlainMoveKeeps ==
  ASSUME PlaneInv, NEW j \in Jobs, PlainMove(j) PROVE PlaneInv'
<1>0. TypeOK /\ OwnCredentials /\ TokensHeld /\ RequestsSized /\ ImportsOnTheWay /\ ReportedLast
      /\ reached \subseteq Request
  BY DEF PlaneInv, TypeOK
<1>1. UNCHANGED <<jobToken, emitted, todo, failed, minted, tokens, received, ended, ctxDone>>
  BY DEF PlainMove, GetJobDetail, JobStart, GetArtifactDownload, JobHeartbeat,
     ScanReturns, Cleanup, Log, LogSent, client, work, server
<1>2. /\ UNCHANGED pc \/ \E to \in {"start", "artifact", "scan", "completed", "failed",
                                   "cleanup", "over"} :
                              /\ pc' = [pc EXCEPT ![j] = to]
                              /\ pc[j] = "cleanup" => to = "over"
                              /\ pc[j] = "scan" => todo[j] = <<>>
                              /\ pc[j] \notin {"mint", "over"}
  <2>1. CASE JobHeartbeat(j) \/ Log(j) \/ LogSent(j)
    BY <2>1 DEF JobHeartbeat, Log, LogSent, client
  <2>2. CASE GetJobDetail(j) \/ JobStart(j) \/ GetArtifactDownload(j)
    BY <2>2 DEF GetJobDetail, JobStart, GetArtifactDownload, Goto
  <2>3. CASE ScanReturns(j) \/ Cleanup(j)
    BY <2>3 DEF ScanReturns, Cleanup, Goto
  <2>4. QED
    BY <2>1, <2>2, <2>3 DEF PlainMove
<1>3. jobToken[j] # NoToken
  <2>1. pc[j] \notin {"mint", "over"} \/ (LogSent(j) /\ logs[j] > 0)
    BY DEF PlainMove, GetJobDetail, JobStart, GetArtifactDownload, JobHeartbeat,
       ScanReturns, Cleanup, Log, LogSent, Goto
  <2>2. logs[j] > 0 => logs[j] # 0
    BY <1>0, BoundsAssumption DEF TypeOK
  <2>3. QED
    BY <1>0, <2>1, <2>2 DEF TokensHeld
<1>4. OwnCredentials' /\ reached' \subseteq Request
  <2>1. CASE UNCHANGED reached
    BY <1>0, <2>1 DEF OwnCredentials
  <2>2. CASE \E processed, answered \in BOOLEAN : Call(j, jobToken[j], processed, answered)
    BY <1>0, <1>3, <2>2, JobCalls
  <2>3. QED
    BY <2>1, <2>2 DEF PlainMove, GetJobDetail, JobStart, GetArtifactDownload,
       JobHeartbeat, ScanReturns, Cleanup, Log, LogSent, client, server
<1>5. logs' \in [Jobs -> 0..MaxLogs] /\ \A k \in Jobs \ {j} : logs'[k] = logs[k]
  <2>1. CASE UNCHANGED logs
    BY <1>0, <2>1 DEF TypeOK
  <2>2. CASE Log(j) \/ LogSent(j)
    <3>1. logs[j] \in 0..MaxLogs /\ MaxLogs \in Nat /\ logs \in [Jobs -> 0..MaxLogs]
      BY <1>0, BoundsAssumption DEF TypeOK
    <3>2. CASE Log(j)
      <4>1. logs' = [logs EXCEPT ![j] = logs[j] + 1] /\ logs[j] < MaxLogs
        BY <3>2 DEF Log
      <4>2. logs[j] + 1 \in 0..MaxLogs
        BY <3>1, <4>1
      <4>3. QED
        BY <3>1, <4>1, <4>2, Zenon
    <3>3. CASE LogSent(j)
      <4>1. logs' = [logs EXCEPT ![j] = logs[j] - 1] /\ logs[j] > 0
        BY <3>3 DEF LogSent
      <4>2. logs[j] - 1 \in 0..MaxLogs
        BY <3>1, <4>1
      <4>3. QED
        BY <3>1, <4>1, <4>2, Zenon
    <3>4. QED
      BY <2>2, <3>2, <3>3
  <2>3. QED
    BY <2>1, <2>2 DEF PlainMove, GetJobDetail, JobStart, GetArtifactDownload,
       JobHeartbeat, ScanReturns, Cleanup, work, client
<1>6. /\ pc' \in [Jobs -> {"mint", "detail", "start", "artifact", "scan", "completed", "failed",
                           "cleanup", "over"}]
      /\ \A k \in Jobs : todo[k] # <<>> => pc'[k] = "scan"
      /\ \A k \in Jobs : pc[k] \in {"cleanup", "over"} => pc'[k] \in {"cleanup", "over"}
      /\ \A k \in Jobs \ {j} : pc'[k] = pc[k]
  <2>1. /\ pc \in [Jobs -> {"mint", "detail", "start", "artifact", "scan", "completed", "failed",
                            "cleanup", "over"}]
        /\ \A k \in Jobs : todo[k] # <<>> => pc[k] = "scan"
    BY <1>0 DEF TypeOK
  <2>2. QED
    BY <1>2, <2>1
<1>7. TypeOK'
  BY <1>0, <1>1, <1>4, <1>5, <1>6, Zenon DEF TypeOK
<1>8. RequestsSized' /\ ImportsOnTheWay'
  BY <1>0, <1>1 DEF RequestsSized, ImportsOnTheWay
<1>9. ReportedLast'
  BY <1>0, <1>1, <1>6 DEF ReportedLast
<1>10. TokensHeld'
  BY <1>0, <1>1, <1>3, <1>5, <1>6 DEF TokensHeld
<1>11. QED
  BY <1>4, <1>7, <1>8, <1>9, <1>10 DEF PlaneInv

(* A request that is well-formed is one. *)
LEMMA SizedIsBatch == \A bs \in Seq(Sized) : bs \in Seq(Batch)
<1>1. Sized \subseteq Batch
  BY DEF Sized
<1>2. QED
  BY <1>1, SeqMonotonic

(* Emitting a result. *)
LEMMA EmitKeeps ==
  ASSUME PlaneInv, NEW j \in Jobs, NEW res \in Results, Emit(j, res) PROVE PlaneInv'
<1>0. TypeOK /\ OwnCredentials /\ TokensHeld /\ RequestsSized /\ ImportsOnTheWay /\ ReportedLast
  BY DEF PlaneInv
<1> DEFINE es == Append(emitted[j], res)
           rs == Requests(Len(es), res)
<1>1. /\ pc[j] = "scan" /\ todo[j] = <<>>
      /\ emitted' = [emitted EXCEPT ![j] = es]
      /\ todo' = [todo EXCEPT ![j] = Requests(Len(emitted'[j]), res)]
      /\ UNCHANGED <<pc, jobToken, failed, logs, ctxDone, server>>
  BY DEF Emit
<1>2. /\ emitted \in [Jobs -> Seq(Results)] /\ todo \in [Jobs -> Seq(Batch)]
      /\ failed \in [Jobs -> BOOLEAN]
      /\ \A k \in Jobs : todo[k] # <<>> => pc[k] = "scan"
  BY <1>0 DEF TypeOK
<1>3. /\ emitted'[j] = es /\ \A k \in Jobs \ {j} : emitted'[k] = emitted[k]
      /\ todo'[j] = rs /\ \A k \in Jobs \ {j} : todo'[k] = todo[k]
  BY <1>1, <1>2, Zenon
<1>4. rs \in Seq(Sized) /\ Accounted(es, rs, failed[j], received[j])
  <2>1. /\ emitted[j] \in Seq(Results) /\ received[j] \in Seq(Sized)
        /\ Accounted(emitted[j], <<>>, failed[j], received[j])
    BY <1>0, <1>1, <1>2 DEF RequestsSized, ImportsOnTheWay
  <2>2. failed[j] \in BOOLEAN
    BY <1>2
  <2>3. QED
    BY <2>1, <2>2, EmitAccounted
<1>5. es \in Seq(Results)
  BY <1>2
<1> HIDE DEF es, rs
<1>6. RequestsSized' /\ ImportsOnTheWay'
  <2>1. received' = received /\ failed' = failed
    BY <1>1 DEF server
  <2>2. RequestsSized'
    BY <1>0, <1>3, <1>4, <2>1 DEF RequestsSized
  <2>3. ImportsOnTheWay'
    <3>1. \A k \in Jobs : Accounted(emitted'[k], todo'[k], failed'[k], received'[k])
      BY <1>0, <1>3, <1>4, <2>1, Zenon DEF ImportsOnTheWay
    <3>2. ImportsOnTheWay' <=> \A k \in Jobs : Accounted(emitted'[k], todo'[k], failed'[k], received'[k])
      BY DEF ImportsOnTheWay, Accounted, OnTheWay, AllItems, ItemsIn, ItemsOfBatch, ItemsOfResult, ItemsOf
    <3>3. QED
      BY <3>1, <3>2
  <2>4. QED
    BY <2>2, <2>3
<1>7. emitted' \in [Jobs -> Seq(Results)]
  BY <1>1, <1>2, <1>5, Zenon
<1>8. todo' \in [Jobs -> Seq(Batch)]
  <2>1. rs \in Seq(Batch)
    BY <1>4, SizedIsBatch
  <2>2. todo' = [todo EXCEPT ![j] = rs]
    BY <1>1, <1>3, Zenon DEF rs
  <2>3. QED
    BY <1>2, <2>1, <2>2, Zenon
<1>9. \A k \in Jobs : todo'[k] # <<>> => pc'[k] = "scan"
  BY <1>1, <1>2, <1>3
<1>10. TypeOK'
  BY <1>0, <1>1, <1>7, <1>8, <1>9 DEF TypeOK, server
<1>11. OwnCredentials' /\ TokensHeld' /\ ReportedLast'
  BY <1>0, <1>1, TokensKept DEF OwnCredentials, ReportedLast, server
<1>12. QED
  BY <1>6, <1>10, <1>11 DEF PlaneInv

(* Sending a request, which may be lost on either way. *)
LEMMA PushKeeps ==
  ASSUME PlaneInv, NEW j \in Jobs, Push(j) PROVE PlaneInv'
<1>0. TypeOK /\ OwnCredentials /\ TokensHeld /\ RequestsSized /\ ImportsOnTheWay /\ ReportedLast
  BY DEF PlaneInv
<1>own. jobToken[j] # NoToken /\ minted[jobToken[j]] = j
  <2>1. pc[j] = "scan"
    BY <1>0 DEF Push, TypeOK
  <2>2. QED
    BY <1>0, <2>1 DEF TokensHeld
<1>1. PICK processed \in BOOLEAN, answered \in BOOLEAN :
        /\ Call(j, jobToken[j], processed, answered)
        /\ received' = IF processed THEN [received EXCEPT ![j] = Append(received[j], Head(todo[j]))]
                       ELSE received
        /\ todo' = [todo EXCEPT ![j] = Tail(todo[j])]
        /\ failed' = [failed EXCEPT ![j] = failed[j] \/ ~answered]
  BY <1>own DEF Push
<1>2. todo[j] # <<>> /\ UNCHANGED <<pc, jobToken, emitted, logs, ctxDone, minted, tokens, ended>>
  BY DEF Push
<1>3. /\ emitted \in [Jobs -> Seq(Results)] /\ todo \in [Jobs -> Seq(Batch)]
      /\ received \in [Jobs -> Seq(Batch)] /\ failed \in [Jobs -> BOOLEAN]
      /\ reached \subseteq Request
      /\ \A k \in Jobs : todo[k] # <<>> => pc[k] = "scan"
  BY <1>0 DEF TypeOK
<1> DEFINE left == todo[j]
           sent == received[j]
           more == Append(sent, Head(left))
<1>4. /\ more \in Seq(Sized) /\ Tail(left) \in Seq(Sized)
      /\ Accounted(emitted[j], Tail(left), failed[j], more)
      /\ Accounted(emitted[j], Tail(left), TRUE, more)
      /\ Accounted(emitted[j], Tail(left), TRUE, sent)
  <2>1. emitted[j] \in Seq(Results) /\ left \in Seq(Sized) /\ sent \in Seq(Sized)
        /\ Accounted(emitted[j], left, failed[j], sent)
    BY <1>0, <1>3 DEF RequestsSized, ImportsOnTheWay
  <2>2. failed[j] \in BOOLEAN
    BY <1>3
  <2> HIDE DEF left, sent
  <2>3. QED
    BY <1>2, <2>1, <2>2, PushAccounted DEF left
<1>5. /\ todo'[j] = Tail(left) /\ \A k \in Jobs \ {j} : todo'[k] = todo[k]
      /\ \A k \in Jobs \ {j} : received'[k] = received[k] /\ failed'[k] = failed[k]
      /\ received'[j] = IF processed THEN more ELSE sent
      /\ failed'[j] = (failed[j] \/ ~answered)
  <2>1. /\ todo'[j] = Tail(left) /\ \A k \in Jobs \ {j} : todo'[k] = todo[k]
    BY <1>1, <1>3, Zenon
  <2>2. /\ \A k \in Jobs \ {j} : failed'[k] = failed[k]
        /\ failed'[j] = (failed[j] \/ ~answered)
    BY <1>1, <1>3, Zenon
  <2>3. /\ \A k \in Jobs \ {j} : received'[k] = received[k]
        /\ received'[j] = IF processed THEN more ELSE sent
    BY <1>1, <1>3, Zenon
  <2>4. QED
    BY <2>1, <2>2, <2>3, Zenon
<1>6. answered => processed
  BY <1>1 DEF Call
<1> HIDE DEF more, left, sent
<1>7. received'[j] \in Seq(Sized) /\ todo'[j] \in Seq(Sized)
  <2>1. sent \in Seq(Sized)
    BY <1>0 DEF RequestsSized, sent
  <2>2. QED
    BY <1>4, <1>5, <2>1, Zenon
<1>8. Accounted(emitted[j], todo'[j], failed'[j], received'[j])
  <2>1. CASE answered
    <3>1. processed /\ (failed[j] \/ ~answered) = failed[j]
      BY <1>3, <1>6, <2>1
    <3>2. QED
      BY <1>4, <1>5, <3>1, Zenon
  <2>2. CASE ~answered
    <3>1. (failed[j] \/ ~answered) = TRUE
      BY <2>2
    <3>2. CASE processed
      BY <1>4, <1>5, <3>1, <3>2, Zenon
    <3>3. CASE ~processed
      BY <1>4, <1>5, <3>1, <3>3, Zenon
    <3>4. QED
      BY <3>2, <3>3
  <2>3. QED
    BY <2>1, <2>2
<1>9. RequestsSized'
  BY <1>0, <1>5, <1>7, Zenon DEF RequestsSized
<1>10. ImportsOnTheWay'
  <2>1. \A k \in Jobs : Accounted(emitted'[k], todo'[k], failed'[k], received'[k])
    BY <1>0, <1>2, <1>5, <1>8, Zenon DEF ImportsOnTheWay
  <2>2. ImportsOnTheWay' <=> \A k \in Jobs : Accounted(emitted'[k], todo'[k], failed'[k], received'[k])
    BY DEF ImportsOnTheWay, Accounted, OnTheWay, AllItems, ItemsIn, ItemsOfBatch, ItemsOfResult, ItemsOf
  <2>3. QED
    BY <2>1, <2>2
<1>11. OwnCredentials' /\ reached' \subseteq Request
  BY <1>0, <1>own, <1>1, <1>3, JobCalls
<1>12. TypeOK'
  <2>1. todo' \in [Jobs -> Seq(Batch)] /\ failed' \in [Jobs -> BOOLEAN]
    <3>1. Tail(left) \in Seq(Batch)
      BY <1>4, SizedIsBatch
    <3>2. (failed[j] \/ ~answered) \in BOOLEAN
      OBVIOUS
    <3>3. QED
      BY <1>1, <1>3, <3>1, <3>2, Zenon DEF left
  <2>2. received' \in [Jobs -> Seq(Batch)]
    <3>1. more \in Seq(Batch)
      BY <1>4, SizedIsBatch
    <3>2. CASE processed
      <4>1. received' = [received EXCEPT ![j] = more]
        BY <1>1, <3>2, Zenon DEF more, sent, left
      <4>2. QED
        BY <1>3, <3>1, <4>1, Zenon
    <3>3. CASE ~processed
      BY <1>1, <1>3, <3>3, Zenon
    <3>4. QED
      BY <3>2, <3>3
  <2>3. \A k \in Jobs : todo'[k] # <<>> => pc'[k] = "scan"
    BY <1>2, <1>3, <1>5
  <2>4. QED
    BY <1>0, <1>2, <1>11, <2>1, <2>2, <2>3 DEF TypeOK
<1>13. ReportedLast' /\ TokensHeld'
  BY <1>0, <1>2, TokensKept DEF ReportedLast
<1>14. QED
  BY <1>9, <1>10, <1>11, <1>12, <1>13 DEF PlaneInv

(* The terminal report, after which the token is gone. *)
LEMMA ReportKeeps ==
  ASSUME PlaneInv, NEW j \in Jobs, Report(j) PROVE PlaneInv'
<1>0. TypeOK /\ OwnCredentials /\ TokensHeld /\ RequestsSized /\ ImportsOnTheWay /\ ReportedLast
  BY DEF PlaneInv
<1>own. jobToken[j] # NoToken /\ minted[jobToken[j]] = j
  <2>1. pc[j] \in {"completed", "failed"}
    BY DEF Report
  <2>2. QED
    BY <1>0, <2>1 DEF TokensHeld
<1>1. PICK processed \in BOOLEAN, answered \in BOOLEAN :
        /\ pc[j] \in {"completed", "failed"}
        /\ Call(j, jobToken[j], processed, answered)
        /\ ended' = IF processed THEN [ended EXCEPT ![j] = pc[j]] ELSE ended
        /\ tokens' = IF processed THEN tokens \ {jobToken[j]} ELSE tokens
        /\ pc' = [pc EXCEPT ![j] = "cleanup"]
        /\ UNCHANGED <<jobToken, work, ctxDone, minted, received>>
  BY <1>own DEF Report
<1>2. OwnCredentials' /\ reached' \subseteq Request
  BY <1>0, <1>own, <1>1, JobCalls DEF TypeOK
<1>3. /\ pc \in [Jobs -> {"mint", "detail", "start", "artifact", "scan", "completed", "failed",
                          "cleanup", "over"}]
      /\ ended \in [Jobs -> {"no", "completed", "failed"}]
      /\ tokens \subseteq DOMAIN minted
      /\ \A k \in Jobs : todo[k] # <<>> => pc[k] = "scan"
  BY <1>0 DEF TypeOK
<1>4. /\ pc' \in [Jobs -> {"mint", "detail", "start", "artifact", "scan", "completed", "failed",
                           "cleanup", "over"}]
      /\ ended' \in [Jobs -> {"no", "completed", "failed"}]
      /\ tokens' \subseteq DOMAIN minted'
      /\ \A k \in Jobs : todo'[k] # <<>> => pc'[k] = "scan"
  BY <1>1, <1>3 DEF work
<1>5. TypeOK'
  BY <1>0, <1>1, <1>2, <1>4, Zenon DEF TypeOK, work
<1>6. RequestsSized' /\ ImportsOnTheWay'
  BY <1>0, <1>1 DEF RequestsSized, ImportsOnTheWay, work
<1>7. ReportedLast'
  BY <1>0, <1>1, <1>3 DEF ReportedLast
<1>8. TokensHeld'
  BY <1>0, <1>1, <1>3 DEF TokensHeld, work
<1>9. QED
  BY <1>2, <1>5, <1>6, <1>7, <1>8 DEF PlaneInv

(* So every step keeps the invariant. *)
LEMMA PlaneStep == PlaneInv /\ [Next]_vars => PlaneInv'
<1> SUFFICES ASSUME PlaneInv, [Next]_vars PROVE PlaneInv'
  OBVIOUS
<1>0. TypeOK /\ OwnCredentials /\ TokensHeld /\ RequestsSized /\ ImportsOnTheWay /\ ReportedLast
  BY DEF PlaneInv
<1>1. ASSUME UNCHANGED <<client, minted, tokens, received, ended>>, ctxDone' \in BOOLEAN,
             OwnCredentials', reached' \subseteq Request
      PROVE  PlaneInv'
  <2>1. TypeOK'
    BY <1>0, <1>1 DEF TypeOK, client, work
  <2>2. RequestsSized' /\ ImportsOnTheWay' /\ ReportedLast' /\ TokensHeld'
    BY <1>0, <1>1, TokensKept DEF RequestsSized, ImportsOnTheWay, ReportedLast, client, work
  <2>3. QED
    BY <1>1, <2>1, <2>2 DEF PlaneInv
<1>2. ctxDone \in BOOLEAN /\ reached \subseteq Request
  BY <1>0 DEF TypeOK
<1>3. CASE UNCHANGED vars
  BY <1>0, <1>1, <1>2, <1>3 DEF vars, server, OwnCredentials
<1>4. CASE CancelContext
  BY <1>0, <1>1, <1>2, <1>4 DEF CancelContext, server, OwnCredentials
<1>5. CASE AgentCall
  <2>1. UNCHANGED <<client, ctxDone, minted, tokens, received, ended>>
    BY <1>5 DEF AgentCall
  <2>2. OwnCredentials' /\ reached' \subseteq Request
    BY <1>0, <1>2, <1>5, AgentCalls DEF AgentCall
  <2>3. QED
    BY <1>1, <1>2, <2>1, <2>2
<1>6. ASSUME NEW j \in Jobs, Step(j) PROVE PlaneInv'
  BY <1>6, MintKeeps, PlainMoveKeeps, EmitKeeps, PushKeeps, ReportKeeps DEF Step, PlainMove
<1>7. QED
  BY <1>3, <1>4, <1>5, <1>6 DEF Next

(* The inductive invariant holds of all jobs, calls and losses. *)
THEOREM PlaneInvariant == Spec => []PlaneInv
  BY PlaneInit, PlaneStep, PTL DEF Spec

(* Every variable stays in its range; in particular a request is left only  *)
(* while its job scans, for emit waits (agent_execute.go, agent_import.go). *)
THEOREM PlaneTypeCorrect == Spec => []TypeOK
<1>1. PlaneInv => TypeOK
  BY DEF PlaneInv
<1>2. QED
  BY <1>1, PlaneInvariant, PTL

(* Jobs, heartbeats, imports and log goroutines may interleave in any way,   *)
(* and come as late as they like: a request carries the token minted for    *)
(* the job that makes it, RoundTrip never falls back to the agent's, and    *)
(* nothing is booked on a job after its terminal report                     *)
(* (transport/client.go:24-27, 94-101, 157-159).                            *)
THEOREM PlaneOwnCredentials == Spec => []OwnCredentials
<1>1. PlaneInv => OwnCredentials
  BY DEF PlaneInv
<1>2. QED
  BY <1>1, PlaneInvariant, PTL

(* Nothing is booked twice or made up, assets come in batches of at most     *)
(* BatchSize, and a job that is reported completed without a logged failure *)
(* has delivered everything, in order (agent_import.go:11-89), for results  *)
(* of any size.                                                             *)
THEOREM PlaneImportsComplete == Spec => []ImportsComplete
<1>1. PlaneInv => ImportsComplete
  <2>1. SUFFICES ASSUME PlaneInv, NEW j \in Jobs
        PROVE  /\ IsInjective(ItemsReceived(j))
               /\ Range(ItemsReceived(j)) \subseteq Range(ItemsEmitted(j))
               /\ \A b \in Range(received[j]) :
                     b.kind \in {"domains", "services"} => b.last - b.first < BatchSize
               /\ ended[j] = "completed" /\ ~failed[j] => ItemsReceived(j) = ItemsEmitted(j)
    BY DEF ImportsComplete
  <2>2. /\ todo[j] \in Seq(Sized) /\ received[j] \in Seq(Sized)
        /\ Accounted(emitted[j], todo[j], failed[j], received[j])
    BY <2>1 DEF PlaneInv, RequestsSized, ImportsOnTheWay
  <2>3. ItemsReceived(j) = ItemsIn(received[j]) /\ ItemsEmitted(j) = AllItems(emitted[j])
    BY DEF ItemsReceived, ItemsEmitted, AllItems
  <2>4. ItemsReceived(j) \in Seq(Item) /\ ItemsIn(todo[j]) \in Seq(Item)
    BY <2>2, <2>3, ItemsInCat
  <2>5. OnTheWay(received[j], todo[j]) = ItemsReceived(j) \o ItemsIn(todo[j])
    BY <2>3 DEF OnTheWay
  <2>6. IsInjective(ItemsReceived(j))
    BY <2>2, <2>4, <2>5, InjectiveCat DEF Accounted
  <2>7. Range(ItemsReceived(j)) \subseteq Range(ItemsEmitted(j))
    <3>1. Range(ItemsReceived(j) \o ItemsIn(todo[j])) = Range(ItemsReceived(j)) \cup Range(ItemsIn(todo[j]))
      BY <2>4, RangeConcatenation
    <3>2. Range(ItemsReceived(j) \o ItemsIn(todo[j])) \subseteq Range(ItemsEmitted(j))
      BY <2>2, <2>3, <2>5 DEF Accounted
    <3>3. QED
      BY <3>1, <3>2, Zenon
  <2>8. \A b \in Range(received[j]) : b.kind \in {"domains", "services"} => b.last - b.first < BatchSize
    <3>1. Range(received[j]) \subseteq Sized
      BY <2>2, RangeOfSeq
    <3>2. QED
      BY <3>1 DEF Sized
  <2>9. ASSUME ended[j] = "completed", ~failed[j] PROVE ItemsReceived(j) = ItemsEmitted(j)
    <3>1. pc[j] # "scan"
      BY <2>1, <2>9 DEF PlaneInv, ReportedLast
    <3>2. todo[j] = <<>>
      BY <2>1, <3>1 DEF PlaneInv, TypeOK
    <3>3. ItemsReceived(j) \o <<>> = ItemsReceived(j)
      BY <2>4, ConcatEmptySeq
    <3>4. OnTheWay(received[j], todo[j]) = ItemsReceived(j)
      BY <2>5, <3>2, <3>3, ItemsInNone
    <3>5. QED
      BY <2>2, <2>3, <2>9, <3>4 DEF Accounted
  <2>10. QED
    BY <2>6, <2>7, <2>8, <2>9
<1>2. QED
  BY <1>1, PlaneInvariant, PTL
=============================================================================
