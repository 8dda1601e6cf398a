-------------------------- MODULE Conjunction_proofs --------------------------
(***************************************************************************)
(* The algebra for any carriers and folds of any length: it is closed,     *)
(* a result has room for what it holds, & and | are the two operations of  *)
(* SemiringSpec, and a fold of three may be nested either way, to the form *)
(* of the type it has.                                                     *)
(***************************************************************************)
EXTENDS Conjunction, SequenceTheorems, TLAPS

(***************************************************************************)
(* Sides.                                                                  *)
(***************************************************************************)
\* A fold of two alternatives is a pack of the fields of both.
LEMMA FoldIsPack ==
    ASSUME NEW l \in Alternatives, NEW r \in Alternatives
    PROVE  /\ fold(l, r) \in Alternatives /\ fold(l, r) # Unit
           /\ fold(l, r).fields = l.fields \o r.fields
BY DEF fold, Pack, Alternatives, Unit

\* What enters a sum is an alternative with the same fields and never void.
LEMMA SumElement ==
    ASSUME NEW a \in Alternatives
    PROVE  /\ sum_element(a) \in Alternatives /\ sum_element(a) # Unit
           /\ sum_element(a).fields = a.fields
BY DEF sum_element, Pack, Alternatives, Unit

\* Void is a side of one alternative, the empty word.
LEMMA VoidSide == Unit \in Alternatives /\ Void.alternatives = {Unit} /\ Void.form = "void"
BY DEF Void, Side, Unit, Alternatives

\* The sides of a carrier hold alternatives.
LEMMA SidesHoldAlternatives ==
    \A s \in ValueSides : s.alternatives \subseteq Alternatives
BY VoidSide DEF ValueSides, PayloadSides

\* The product of two sides with payloads has one, and multiplies words.
LEMMA ProductSide ==
    ASSUME NEW L \in PayloadSides, NEW R \in PayloadSides
    PROVE  /\ product(L, R) \in PayloadSides
           /\ Words(product(L, R)) = Semiring!Times(Words(L), Words(R))
<1> DEFINE S == {fold(l, r) : l \in L.alternatives, r \in R.alternatives}
<1>1. L.alternatives \subseteq Alternatives /\ R.alternatives \subseteq Alternatives
    BY DEF PayloadSides
<1>2. S \subseteq Alternatives /\ Unit \notin S
    <2>1. \A l \in L.alternatives, r \in R.alternatives : fold(l, r) \in Alternatives /\ fold(l, r) # Unit
        BY <1>1, FoldIsPack
    <2>2. \A a \in S : \E l \in L.alternatives, r \in R.alternatives : a = fold(l, r)
        OBVIOUS
    <2> QED
        BY <2>1, <2>2
<1>3. product(L, R).alternatives = S
    BY DEF product, Side
<1>4. product(L, R) \in PayloadSides
    <2>1. CASE some_copack(L) \/ some_copack(R)
        BY <1>2, <2>1 DEF product, Side, PayloadSides
    <2>2. CASE ~(some_copack(L) \/ some_copack(R))
        <3>1. PICK l \in L.alternatives, r \in R.alternatives : L = Plain(l) /\ R = Plain(r)
            BY <2>2 DEF some_copack, PayloadSides
        <3>2. S = {fold(l, r)}
            BY <3>1 DEF Plain, Side
        <3>3. product(L, R) = Side("plain", S)
            BY <2>2 DEF product, Side
        <3>4. product(L, R) = Plain(fold(l, r))
            <4> HIDE DEF S
            <4> QED
                BY <3>2, <3>3 DEF Plain
        <3> QED
            BY <1>2, <3>2, <3>4 DEF Plain, Side, PayloadSides
    <2> QED
        BY <2>1, <2>2
<1>5. Words(product(L, R)) = Semiring!Times(Words(L), Words(R))
    <2> DEFINE V == Words(L)
               W == Words(R)
    <2>1. \A w : w \in V <=> \E l \in L.alternatives : w = l.fields
        BY DEF Words
    <2>2. \A w : w \in W <=> \E r \in R.alternatives : w = r.fields
        BY DEF Words
    <2>3. \A w : w \in Semiring!Times(V, W) <=> \E v \in V, u \in W : w = v \o u
        <3> HIDE DEF V, W
        <3> QED
            BY DEF Semiring!Times
    <2>4. \A w : w \in Words(product(L, R)) <=> \E a \in S : w = a.fields
        BY <1>3 DEF Words
    <2>5. \A w : (\E a \in S : w = a.fields) <=>
                 \E l \in L.alternatives, r \in R.alternatives : w = fold(l, r).fields
        OBVIOUS
    <2>6. \A l \in L.alternatives, r \in R.alternatives : fold(l, r).fields = l.fields \o r.fields
        BY <1>1, FoldIsPack
    <2> HIDE DEF V, W
    <2>7. ASSUME NEW w \in Words(product(L, R))
          PROVE  w \in Semiring!Times(V, W)
        <3>1. PICK l \in L.alternatives, r \in R.alternatives : w = fold(l, r).fields
            BY <2>4, <2>5
        <3>2. w = l.fields \o r.fields /\ l.fields \in V /\ r.fields \in W
            BY <2>1, <2>2, <2>6, <3>1
        <3> QED
            BY <2>3, <3>2
    <2>8. ASSUME NEW w \in Semiring!Times(V, W)
          PROVE  w \in Words(product(L, R))
        <3>1. PICK v \in V, u \in W : w = v \o u
            BY <2>3
        <3>2. PICK l \in L.alternatives, r \in R.alternatives : v = l.fields /\ u = r.fields
            BY <2>1, <2>2
        <3>3. w = fold(l, r).fields
            BY <2>6, <3>1, <3>2
        <3> QED
            BY <2>4, <2>5, <3>3
    <2>9. Words(product(L, R)) = Semiring!Times(V, W)
        BY <2>7, <2>8, Zenon
    <2> QED
        BY <2>9 DEF V, W
<1> QED
    BY <1>4, <1>5

\* The empty word is the unit of multiplication.
LEMMA EmptyWord ==
    ASSUME NEW W \in SUBSET Seq(Types)
    PROVE  Semiring!Times({<<>>}, W) = W /\ Semiring!Times(W, {<<>>}) = W
<1>1. \A w \in W : <<>> \o w = w /\ w \o <<>> = w
    OBVIOUS
<1> QED
    BY <1>1 DEF Semiring!Times

\* So does the product that elides void.
LEMMA JoinedSide ==
    ASSUME NEW L \in ValueSides, NEW R \in ValueSides
    PROVE  /\ joined(L, R) \in ValueSides
           /\ L \in PayloadSides \/ R \in PayloadSides => joined(L, R) \in PayloadSides
           /\ Words(joined(L, R)) = Semiring!Times(Words(L), Words(R))
<1>1. Words(L) \in SUBSET Seq(Types) /\ Words(R) \in SUBSET Seq(Types)
    BY SidesHoldAlternatives DEF Words, Alternatives
<1>2. Words(Void) = {<<>>}
    BY VoidSide DEF Words, Unit
<1>3. Void \notin PayloadSides
    BY VoidSide DEF PayloadSides
<1>4. CASE L = Void
    BY <1>1, <1>2, <1>3, <1>4, EmptyWord DEF joined, ValueSides
<1>5. CASE R = Void
    BY <1>1, <1>2, <1>3, <1>5, EmptyWord DEF joined, ValueSides
<1>6. CASE L # Void /\ R # Void
    <2>1. L \in PayloadSides /\ R \in PayloadSides
        BY <1>6 DEF ValueSides
    <2> QED
        BY <1>6, <2>1, ProductSide DEF joined, ValueSides
<1> QED
    BY <1>4, <1>5, <1>6

\* A sum adds words.
LEMMA SumSide ==
    ASSUME NEW L \in ValueSides, NEW R \in ValueSides
    PROVE  /\ sum(L, R) \in ValueSides
           /\ L \in PayloadSides /\ R \in PayloadSides => sum(L, R) \in PayloadSides
           /\ Words(sum(L, R)) = Words(L) \cup Words(R)
<1>1. CASE L = R
    BY <1>1 DEF sum
<1>2. CASE L # R
    <2> DEFINE S == {sum_element(a) : a \in L.alternatives \cup R.alternatives}
    <2>1. sum(L, R) = Copack(S)
        BY <1>2 DEF sum
    <2>2. S \subseteq Alternatives /\ Unit \notin S
        BY SumElement, SidesHoldAlternatives
    <2>3. Copack(S) \in PayloadSides
        BY <2>2 DEF Copack, Side, PayloadSides
    <2>4. Words(Copack(S)) = Words(L) \cup Words(R)
        <3>1. Words(Copack(S)) = {sum_element(a).fields : a \in L.alternatives \cup R.alternatives}
            BY DEF Words, Copack, Side
        <3>2. \A a \in L.alternatives \cup R.alternatives : sum_element(a).fields = a.fields
            BY SumElement, SidesHoldAlternatives
        <3> QED
            BY <3>1, <3>2 DEF Words
    <2> QED
        BY <2>1, <2>3, <2>4 DEF ValueSides
<1> QED
    BY <1>1, <1>2

\* Sets of words are multiplied one by one.
LEMMA TimesDistributes ==
    \A V, W, X : /\ Semiring!Times(V, W \cup X) = Semiring!Times(V, W) \cup Semiring!Times(V, X)
                 /\ Semiring!Times(W \cup X, V) = Semiring!Times(W, V) \cup Semiring!Times(X, V)
                 /\ Semiring!Times(V, {}) = {} /\ Semiring!Times({}, V) = {}
<1> SUFFICES ASSUME NEW V, NEW W, NEW X
             PROVE  /\ Semiring!Times(V, W \cup X) = Semiring!Times(V, W) \cup Semiring!Times(V, X)
                    /\ Semiring!Times(W \cup X, V) = Semiring!Times(W, V) \cup Semiring!Times(X, V)
                    /\ Semiring!Times(V, {}) = {} /\ Semiring!Times({}, V) = {}
    OBVIOUS
<1>1. Semiring!Times(V, W \cup X) = Semiring!Times(V, W) \cup Semiring!Times(V, X)
    BY DEF Semiring!Times
<1>2. Semiring!Times(W \cup X, V) = Semiring!Times(W, V) \cup Semiring!Times(X, V)
    BY DEF Semiring!Times
<1>3. Semiring!Times(V, {}) = {} /\ Semiring!Times({}, V) = {}
    BY DEF Semiring!Times
<1> QED
    BY <1>1, <1>2, <1>3

\* The product distributes over the sum from either side, and the side that nothing is
\* in annihilates it (TYPE_ALGEBRA, section 6), through every elision of void.  In words
\* only: a scalar and the pack of it are two alternatives of a sum, and one once
\* they are multiplied.
THEOREM ProductDistributes ==
    ASSUME NEW L \in ValueSides, NEW R \in ValueSides, NEW S \in ValueSides
    PROVE  /\ Words(joined(L, sum(R, S))) = Words(sum(joined(L, R), joined(L, S)))
           /\ Words(joined(sum(R, S), L)) = Words(sum(joined(R, L), joined(S, L)))
           /\ joined(L, Copack({})) = Copack({}) /\ joined(Copack({}), L) = Copack({})
<1>1. sum(R, S) \in ValueSides /\ Words(sum(R, S)) = Words(R) \cup Words(S)
    BY SumSide
<1>2. /\ joined(L, R) \in ValueSides /\ joined(L, S) \in ValueSides
      /\ joined(R, L) \in ValueSides /\ joined(S, L) \in ValueSides
    BY JoinedSide
<1>3. Words(joined(L, sum(R, S))) = Semiring!Times(Words(L), Words(R) \cup Words(S))
    BY <1>1, JoinedSide
<1>4. Words(joined(sum(R, S), L)) = Semiring!Times(Words(R) \cup Words(S), Words(L))
    BY <1>1, JoinedSide
<1>5. /\ Words(joined(L, R)) = Semiring!Times(Words(L), Words(R))
      /\ Words(joined(L, S)) = Semiring!Times(Words(L), Words(S))
      /\ Words(joined(R, L)) = Semiring!Times(Words(R), Words(L))
      /\ Words(joined(S, L)) = Semiring!Times(Words(S), Words(L))
    BY JoinedSide
<1>6. /\ Words(sum(joined(L, R), joined(L, S))) = Words(joined(L, R)) \cup Words(joined(L, S))
      /\ Words(sum(joined(R, L), joined(S, L))) = Words(joined(R, L)) \cup Words(joined(S, L))
    BY <1>2, SumSide
<1>7. joined(L, Copack({})) = Copack({}) /\ joined(Copack({}), L) = Copack({})
    <2>1. Copack({}) # Void /\ some_copack(Copack({})) /\ Copack({}).alternatives = {}
        BY VoidSide DEF Copack, Side, some_copack
    <2> QED
        BY <2>1 DEF joined, product, Copack, Side
<1> QED
    BY <1>3, <1>4, <1>5, <1>6, <1>7, TimesDistributes

(***************************************************************************)
(* Types.                                                                  *)
(***************************************************************************)
\* What the kind of a carrier says of its sides.
LEMMA CarrierByKind ==
    ASSUME NEW c \in CarrierTypes
    PROVE  /\ c.value \in ValueSides
           /\ \/ in_cluster(c) /\ c.error = NoError
              \/ c.kind = "optional" /\ c.value \in PayloadSides /\ c.error = Empty
              \/ c.kind = "expected" /\ c.error \in PayloadSides
BY DEF CarrierTypes, CopackSides, ValueSides, in_cluster

\* A just and a choice always hold something.
LEMMA ClusterInhabited ==
    ASSUME NEW c \in CarrierTypes, in_cluster(c)
    PROVE  c.value.alternatives # {}
<1>1. CASE c.value = Void
    BY <1>1 DEF Void, Side
<1>2. CASE c.value \in PayloadSides /\ c.value.form = "plain"
    BY <1>2 DEF PayloadSides, Plain, Side
<1>3. CASE c.value \in PayloadSides /\ c.value.form = "copack"
    <2>1. c.value # Copack({})
        BY <1>3 DEF CarrierTypes, CopackSides, ValueSides, Void, Side, some_copack, in_cluster
    <2>2. c.value = [form |-> "copack", alternatives |-> c.value.alternatives]
        BY <1>3 DEF PayloadSides
    <2> QED
        BY <2>1, <2>2 DEF Copack, Side
<1>4. c.value = Void \/ (c.value \in PayloadSides /\ c.value.form \in {"plain", "copack"})
    BY CarrierByKind DEF ValueSides, PayloadSides
<1> QED
    BY <1>1, <1>2, <1>3, <1>4

\* Two sides that hold something make a product that does.
LEMMA JoinedInhabited ==
    ASSUME NEW L, NEW R, L.alternatives # {}, R.alternatives # {}
    PROVE  joined(L, R) # Copack({})
<1>1. joined(L, R).alternatives # {}
    BY DEF joined, product, Side
<1> QED
    BY <1>1 DEF Copack, Side

\* A carrier is built from a kind and the sides that go with it.
LEMMA CarriersAreBuilt ==
    /\ \A v \in ValueSides : v # Copack({}) => total(v) \in CarrierTypes
    /\ \A v : total(v).value = v /\ total(v).error = NoError
    /\ \A v \in PayloadSides : optional(v) \in CarrierTypes
    /\ \A v \in ValueSides, e \in PayloadSides : expected(v, e) \in CarrierTypes
    /\ \A v : optional(v).value = v /\ optional(v).error = Empty
    /\ \A v, e : expected(v, e).value = v /\ expected(v, e).error = e
<1>1. \A v \in ValueSides : v # Copack({}) => total(v) \in CarrierTypes
    <2> SUFFICES ASSUME NEW v \in ValueSides, v # Copack({})
                 PROVE  total(v) \in CarrierTypes
        OBVIOUS
    <2>1. CASE some_copack(v)
        <3>1. v \in CopackSides \ {Copack({})}
            BY <2>1 DEF CopackSides, ValueSides, Void, Side, some_copack
        <3> QED
            BY <2>1, <3>1 DEF CarrierTypes, total, Carrier
    <2>2. CASE ~some_copack(v)
        <3>1. v \in ValueSides \ CopackSides
            BY <2>2 DEF CopackSides
        <3> QED
            BY <2>2, <3>1 DEF CarrierTypes, total, Carrier
    <2> QED
        BY <2>1, <2>2
<1> QED
    BY <1>1 DEF CarrierTypes, total, optional, expected, Carrier

\* The words of the sides that hold none, and of the one that holds nothing else.
LEMMA WordsOfUnits == /\ Words(NoError) = {} /\ Words(Copack({})) = {}
                      /\ Words(Empty) = {<<>>}
BY DEF Words, NoError, Copack, Empty, Side, Unit

\* The words of an error are sequences of types.
LEMMA ErrorWords ==
    ASSUME NEW c \in CarrierTypes
    PROVE  Words(c.error) \in SUBSET Seq(Types)
<1>1. Words(NoError) \in SUBSET Seq(Types) /\ Words(Empty) \in SUBSET Seq(Types)
    BY WordsOfUnits
<1>2. \A e \in PayloadSides : Words(e) \in SUBSET Seq(Types)
    BY SidesHoldAlternatives DEF Words, Alternatives, ValueSides
<1> QED
    BY <1>1, <1>2, CarrierByKind

\* An operand that cannot fail has no words in its error.
LEMMA ClusterHasNoError ==
    ASSUME NEW c \in CarrierTypes, cluster_operand(c)
    PROVE  c.error.alternatives = {} /\ Words(c.error) = {}
BY CarrierByKind, WordsOfUnits
DEF cluster_operand, identity_expected, in_cluster, NoError, Copack, Side

\* A sum of errors holds every alternative of either.
LEMMA SumKeepsAlternatives ==
    ASSUME NEW L \in PayloadSides, NEW R \in PayloadSides
    PROVE  L.alternatives \cup R.alternatives \subseteq sum(L, R).alternatives
<1>1. CASE L = R
    BY <1>1 DEF sum
<1>2. CASE L # R
    <2>1. \A a \in L.alternatives \cup R.alternatives : sum_element(a) = a
        BY DEF PayloadSides, sum_element
    <2> QED
        BY <1>2, <2>1 DEF sum, Copack, Side
<1> QED
    BY <1>1, <1>2

\* a & b is a carrier, whose values multiply and whose errors add up.
LEMMA AndType ==
    ASSUME NEW l \in CarrierTypes, NEW r \in CarrierTypes, and_compiles(l, r)
    PROVE  /\ and_type(l, r) \in CarrierTypes
           /\ and_type(l, r).value = joined(l.value, r.value)
           /\ Words(and_type(l, r).error) = Words(l.error) \cup Words(r.error)
           /\ l.error.alternatives \cup r.error.alternatives \subseteq and_type(l, r).error.alternatives
<1> DEFINE v == joined(l.value, r.value)
<1>1. v \in ValueSides
    BY JoinedSide, CarrierByKind
<1>2. CASE "optional" \in {l.kind, r.kind}
    <2>1. l.value \in PayloadSides \/ r.value \in PayloadSides
        BY <1>2, CarrierByKind DEF in_cluster
    <2>2. v \in PayloadSides
        BY <2>1, JoinedSide, CarrierByKind
    <2>3. and_type(l, r) = optional(v)
        BY <1>2 DEF and_type
    <2>4. \A c \in {l, r} : IF c.kind = "optional" THEN Words(c.error) = {<<>>} ELSE Words(c.error) = {}
        <3>1. \A c \in {l, r} : c.kind = "optional" \/ cluster_operand(c)
            BY <1>2 DEF and_compiles
        <3>2. \A c \in {l, r} : c.kind = "optional" => c.error = Empty
            BY CarrierByKind DEF in_cluster
        <3> QED
            BY <3>1, <3>2, ClusterHasNoError, WordsOfUnits
    <2>5. Words(l.error) \cup Words(r.error) = {<<>>}
        BY <1>2, <2>4
    <2>6. l.error.alternatives \cup r.error.alternatives \subseteq Empty.alternatives
        <3>1. \A c \in {l, r} : c.error = Empty \/ c.error.alternatives = {}
            BY <1>2, CarrierByKind, ClusterHasNoError DEF and_compiles, in_cluster
        <3> QED
            BY <3>1
    <2> QED
        BY <2>2, <2>3, <2>5, <2>6, CarriersAreBuilt, WordsOfUnits
<1>3. CASE "optional" \notin {l.kind, r.kind}
    <2>1. CASE in_cluster(l) /\ in_cluster(r)
        <3>1. and_type(l, r) = total(v)
            BY <1>3, <2>1 DEF and_type
        <3>2. l.error = NoError /\ r.error = NoError
            BY <2>1, CarrierByKind DEF in_cluster
        <3>3. v # Copack({})
            BY <2>1, ClusterInhabited, JoinedInhabited
        <3> QED
            BY <1>1, <3>1, <3>2, <3>3, CarriersAreBuilt, WordsOfUnits DEF NoError, Side
    <2>2. CASE in_cluster(l) /\ ~in_cluster(r)
        <3>1. and_type(l, r) = expected(v, r.error)
            BY <1>3, <2>2 DEF and_type
        <3>2. l.error = NoError /\ r.error \in PayloadSides
            BY <1>3, <2>2, CarrierByKind DEF in_cluster
        <3> QED
            BY <1>1, <3>1, <3>2, CarriersAreBuilt, WordsOfUnits DEF NoError, Side
    <2>3. CASE ~in_cluster(l) /\ in_cluster(r)
        <3>1. and_type(l, r) = expected(v, l.error)
            BY <1>3, <2>3 DEF and_type
        <3>2. r.error = NoError /\ l.error \in PayloadSides
            BY <1>3, <2>3, CarrierByKind DEF in_cluster
        <3> QED
            BY <1>1, <3>1, <3>2, CarriersAreBuilt, WordsOfUnits DEF NoError, Side
    <2>4. CASE ~in_cluster(l) /\ ~in_cluster(r)
        <3>1. and_type(l, r) = expected(v, sum(l.error, r.error))
            BY <1>3, <2>4 DEF and_type
        <3>2. l.error \in PayloadSides /\ r.error \in PayloadSides
            BY <1>3, <2>4, CarrierByKind
        <3>3. /\ sum(l.error, r.error) \in PayloadSides
              /\ Words(sum(l.error, r.error)) = Words(l.error) \cup Words(r.error)
            BY <3>2, SumSide DEF ValueSides
        <3> QED
            BY <1>1, <3>1, <3>2, <3>3, SumKeepsAlternatives, CarriersAreBuilt
    <2> QED
        BY <2>1, <2>2, <2>3, <2>4
<1> QED
    BY <1>2, <1>3

\* a | b is a carrier, whose values add up and whose errors multiply.
LEMMA OrType ==
    ASSUME NEW l \in CarrierTypes, NEW r \in CarrierTypes, or_compiles(l, r)
    PROVE  /\ or_type(l, r) \in CarrierTypes
           /\ or_type(l, r).value = sum(l.value, r.value)
           /\ Words(or_type(l, r).error) = Semiring!Times(Words(l.error), Words(r.error))
<1> DEFINE v == sum(l.value, r.value)
<1>1. v \in ValueSides
    BY SumSide, CarrierByKind
<1>2. CASE cluster_operand(l) \/ cluster_operand(r)
    <2>1. or_type(l, r) = total(v)
        BY <1>2 DEF or_type
    <2>2. Words(l.error) = {} \/ Words(r.error) = {}
        BY <1>2, ClusterHasNoError
    <2>3. Semiring!Times(Words(l.error), Words(r.error)) = {}
        BY <2>2 DEF Semiring!Times
    <2>4. v # Copack({})
        BY <1>2 DEF or_compiles
    <2> QED
        BY <1>1, <2>1, <2>3, <2>4, CarriersAreBuilt, WordsOfUnits
<1>3. CASE ~cluster_operand(l) /\ ~cluster_operand(r)
    <2>1. l.kind = r.kind /\ ~in_cluster(l) /\ ~in_cluster(r)
        BY <1>3 DEF or_compiles, cluster_operand
    <2>2. CASE l.kind = "optional"
        <3>1. /\ l.error = Empty /\ r.error = Empty
              /\ l.value \in PayloadSides /\ r.value \in PayloadSides
            BY <2>1, <2>2, CarrierByKind DEF in_cluster
        <3>2. or_type(l, r) = optional(v) /\ v \in PayloadSides
            BY <1>3, <2>2, <3>1, SumSide DEF or_type, ValueSides
        <3>3. Semiring!Times({<<>>}, {<<>>}) = {<<>>}
            <4>1. {<<>>} \in SUBSET Seq(Types)
                OBVIOUS
            <4> QED
                BY <4>1, EmptyWord
        <3>4. Words(l.error) = {<<>>} /\ Words(r.error) = {<<>>}
            BY <3>1, WordsOfUnits
        <3>5. Semiring!Times(Words(l.error), Words(r.error)) = {<<>>}
            BY <3>3, <3>4
        <3> QED
            BY <3>2, <3>5, CarriersAreBuilt, WordsOfUnits
    <2>3. CASE l.kind # "optional"
        <3>1. l.error \in PayloadSides /\ r.error \in PayloadSides
            BY <2>1, <2>3, CarrierByKind
        <3>2. or_type(l, r) = expected(v, product(l.error, r.error))
            BY <1>3, <2>3 DEF or_type
        <3> QED
            BY <1>1, <3>1, <3>2, ProductSide, CarriersAreBuilt
    <2> QED
        BY <2>2, <2>3
<1> QED
    BY <1>2, <1>3

(***************************************************************************)
(* Contents.                                                               *)
(***************************************************************************)
Fields == [type : Types, from : Nat]
TypesOf(payload) == [j \in DOMAIN payload |-> payload[j].type]

\* A carrier whose type has room for what it holds.
Sound(x) ==
    /\ x.type \in CarrierTypes
    /\ x.content.side \in {"value", "error"}
    /\ x.content.alternative \in x.type[x.content.side].alternatives
    /\ x.content.payload \in Seq(Fields)
    /\ x.content.alternative.fields = TypesOf(x.content.payload)

\* The alternatives of either side of a carrier are alternatives.
LEMMA HeldIsAlternative ==
    ASSUME NEW x, Sound(x)
    PROVE  /\ x.content.alternative \in Alternatives
           /\ x.content.side = "value" => x.content.alternative \in x.type.value.alternatives
           /\ x.content.side = "error" => x.content.alternative \in x.type.error.alternatives
<1>1. NoError.alternatives \subseteq Alternatives /\ Empty.alternatives \subseteq Alternatives
    BY VoidSide DEF NoError, Empty, Side
<1>2. /\ x.type.value.alternatives \subseteq Alternatives
      /\ x.type.error.alternatives \subseteq Alternatives
    BY <1>1, CarrierByKind, SidesHoldAlternatives DEF Sound, ValueSides
<1> QED
    BY <1>2 DEF Sound

\* The types of a payload are as many as its fields.
LEMMA TypesOfPayload ==
    ASSUME NEW p \in Seq(Fields)
    PROVE  /\ TypesOf(p) \in Seq(Types) /\ Len(TypesOf(p)) = Len(p)
           /\ \A j \in 1..Len(p) : TypesOf(p)[j] = p[j].type
<1>1. Len(p) \in Nat /\ DOMAIN p = 1..Len(p) /\ \A j \in 1..Len(p) : p[j] \in Fields
    BY LenProperties, ElementOfSeq
<1>2. TypesOf(p) \in [1..Len(p) -> Types] /\ \A j \in 1..Len(p) : TypesOf(p)[j] = p[j].type
    BY <1>1 DEF TypesOf, Fields
<1>3. TypesOf(p) \in Seq(Types)
    BY <1>1, <1>2, SeqDef
<1>4. Len(TypesOf(p)) = Len(p)
    BY <1>1, <1>2, <1>3, LenProperties
<1> QED
    BY <1>2, <1>3, <1>4

\* Payloads that are put in a row have types that are.
LEMMA TypesInARow ==
    ASSUME NEW p \in Seq(Fields), NEW q \in Seq(Fields)
    PROVE  p \o q \in Seq(Fields) /\ TypesOf(p \o q) = TypesOf(p) \o TypesOf(q)
<1>1. /\ p \o q \in Seq(Fields) /\ Len(p \o q) = Len(p) + Len(q)
      /\ Len(p) \in Nat /\ Len(q) \in Nat
      /\ \A j \in 1..Len(p) + Len(q) : (p \o q)[j] = IF j <= Len(p) THEN p[j] ELSE q[j - Len(p)]
    BY ConcatProperties, LenProperties
<1> DEFINE s == TypesOf(p \o q)
           t == TypesOf(p) \o TypesOf(q)
<1>2. /\ s \in Seq(Types) /\ Len(s) = Len(p) + Len(q)
      /\ \A j \in 1..Len(p) + Len(q) : s[j] = (p \o q)[j].type
    BY <1>1, TypesOfPayload
<1>3. /\ t \in Seq(Types) /\ Len(t) = Len(p) + Len(q)
      /\ \A j \in 1..Len(p) + Len(q) :
            t[j] = IF j <= Len(p) THEN TypesOf(p)[j] ELSE TypesOf(q)[j - Len(p)]
    <2> DEFINE a == TypesOf(p)
               b == TypesOf(q)
    <2>1. a \in Seq(Types) /\ Len(a) = Len(p) /\ b \in Seq(Types) /\ Len(b) = Len(q)
        BY TypesOfPayload
    <2> HIDE DEF a, b
    <2>2. /\ a \o b \in Seq(Types) /\ Len(a \o b) = Len(a) + Len(b)
          /\ \A j \in 1..Len(a) + Len(b) : (a \o b)[j] = IF j <= Len(a) THEN a[j] ELSE b[j - Len(a)]
        BY <2>1, ConcatProperties
    <2> QED
        BY <2>1, <2>2 DEF a, b
<1>4. ASSUME NEW j \in 1..Len(s)
      PROVE  s[j] = t[j]
    <2>1. j \in 1..Len(p) + Len(q)
        BY <1>2
    <2>2. CASE j <= Len(p)
        <3>1. j \in 1..Len(p)
            BY <1>1, <2>1, <2>2
        <3> QED
            BY <1>1, <1>2, <1>3, <2>1, <2>2, <3>1, TypesOfPayload
    <2>3. CASE ~(j <= Len(p))
        <3>1. j - Len(p) \in 1..Len(q)
            BY <1>1, <2>1, <2>3
        <3> QED
            BY <1>1, <1>2, <1>3, <2>1, <2>3, <3>1, TypesOfPayload
    <2> QED
        BY <2>2, <2>3
<1> HIDE DEF s, t
<1>5. s = t
    BY <1>2, <1>3, <1>4, SeqEqual
<1> QED
    BY <1>1, <1>5 DEF s, t

\* The payload of void is nothing.
LEMMA UnitPayload ==
    ASSUME NEW x, Sound(x), x.content.alternative = Unit
    PROVE  x.content.payload = <<>>
<1>1. Len(x.content.payload) = Len(TypesOf(x.content.payload))
    BY TypesOfPayload DEF Sound
<1>2. TypesOf(x.content.payload) = <<>>
    BY DEF Sound, Unit
<1> QED
    BY <1>1, <1>2, EmptySeq DEF Sound

\* What a & b holds fits its type; a value has the fields of both operands in a row.
LEMMA AndContent ==
    ASSUME NEW x, NEW y, Sound(x), Sound(y), and_compiles(x.type, y.type)
    PROVE  /\ Sound(And(x, y))
           /\ Live(And(x, y).content) = Semiring!Select("value", Live(x.content), Live(y.content))
<1> DEFINE z == And(x, y)
<1>1. /\ z.type = and_type(x.type, y.type) /\ z.content = and_content(x, y)
      /\ z.type \in CarrierTypes /\ z.type.value = joined(x.type.value, y.type.value)
      /\ x.type.error.alternatives \cup y.type.error.alternatives \subseteq z.type.error.alternatives
    BY AndType DEF And, Sound
<1> HIDE DEF z
<1>2. CASE has_value(x) /\ has_value(y)
    <2> DEFINE l == x.content.alternative
               r == y.content.alternative
               a == IF x.type.value = Void THEN r ELSE IF y.type.value = Void THEN l ELSE fold(l, r)
               p == x.content.payload \o y.content.payload
    <2>1. z.content = Holding("value", a, p)
        BY <1>1, <1>2 DEF and_content
    <2>2. /\ l \in Alternatives /\ l \in x.type.value.alternatives
          /\ r \in Alternatives /\ r \in y.type.value.alternatives
        BY <1>2, HeldIsAlternative DEF has_value
    <2>3. l.fields \in Seq(Types) /\ r.fields \in Seq(Types)
        BY <2>2 DEF Alternatives
    <2>4. a.fields = l.fields \o r.fields
        <3>1. x.type.value = Void => l.fields = <<>>
            BY <2>2, VoidSide DEF Unit
        <3>2. y.type.value = Void => r.fields = <<>>
            BY <2>2, VoidSide DEF Unit
        <3>3. fold(l, r).fields = l.fields \o r.fields
            BY <2>2, FoldIsPack
        <3> QED
            BY <2>3, <3>1, <3>2, <3>3, ConcatEmptySeq
    <2>5. a \in z.type.value.alternatives
        <3>1. fold(l, r) \in product(x.type.value, y.type.value).alternatives
            BY <2>2 DEF product, Side
        <3> QED
            BY <1>1, <2>2, <3>1 DEF joined
    <2>6. p \in Seq(Fields) /\ a.fields = TypesOf(p)
        <3>1. /\ x.content.payload \in Seq(Fields) /\ l.fields = TypesOf(x.content.payload)
              /\ y.content.payload \in Seq(Fields) /\ r.fields = TypesOf(y.content.payload)
            BY DEF Sound
        <3>2. p \in Seq(Fields) /\ TypesOf(p) = l.fields \o r.fields
            BY <3>1, TypesInARow
        <3> QED
            BY <2>4, <3>2
    <2> HIDE DEF a
    <2>7. Sound(z)
        BY <1>1, <2>1, <2>5, <2>6 DEF Sound, Holding
    <2>8. Live(z.content) = Semiring!Both("value", Live(x.content), Live(y.content))
        <3>1. Live(z.content) = [side |-> "value", word |-> l.fields \o r.fields, payload |-> p]
            <4> DEFINE w == l.fields \o r.fields
            <4>1. a.fields = w
                BY <2>4
            <4> HIDE DEF p, w
            <4>2. Live(z.content) = [side |-> "value", word |-> a.fields, payload |-> p]
                BY <2>1 DEF Live, Holding
            <4>3. Live(z.content) = [side |-> "value", word |-> w, payload |-> p]
                BY <4>1, <4>2
            <4> QED
                BY <4>3 DEF w, p
        <3> QED
            BY <3>1 DEF Live, Semiring!Both
    <2>9. Semiring!Select("value", Live(x.content), Live(y.content))
          = Semiring!Both("value", Live(x.content), Live(y.content))
        BY <1>2 DEF Semiring!Select, Live, has_value
    <2> QED
        BY <2>7, <2>8, <2>9 DEF z
<1>3. CASE ~has_value(x)
    <2>1. z.content = x.content /\ x.content.side = "error"
        BY <1>1, <1>3 DEF and_content, leftmost_error, has_value, Sound
    <2>2. Sound(z)
        BY <1>1, <2>1, HeldIsAlternative DEF Sound
    <2>3. Semiring!Select("value", Live(x.content), Live(y.content)) = Live(x.content)
        BY <2>1 DEF Semiring!Select, Live
    <2> QED
        BY <2>1, <2>2, <2>3 DEF z
<1>4. CASE has_value(x) /\ ~has_value(y)
    <2>1. z.content = y.content /\ x.content.side = "value" /\ y.content.side = "error"
        BY <1>1, <1>4 DEF and_content, leftmost_error, has_value, Sound
    <2>2. Sound(z)
        BY <1>1, <2>1, HeldIsAlternative DEF Sound
    <2>3. Semiring!Select("value", Live(x.content), Live(y.content)) = Live(y.content)
        BY <2>1 DEF Semiring!Select, Live
    <2> QED
        BY <2>1, <2>2, <2>3 DEF z
<1> QED
    BY <1>2, <1>3, <1>4

\* What is injected into a sum is one of its alternatives and keeps its fields.
LEMMA InjectedFits ==
    ASSUME NEW L \in ValueSides, NEW R \in ValueSides,
           NEW a \in L.alternatives \cup R.alternatives,
           NEW b, b = IF some_copack(sum(L, R)) THEN sum_element(a) ELSE a
    PROVE  b \in sum(L, R).alternatives /\ b.fields = a.fields
<1>1. a \in Alternatives
    BY SidesHoldAlternatives
<1>2. CASE L = R
    <2>1. CASE some_copack(L)
        <3>1. L \in PayloadSides
            BY <2>1 DEF ValueSides, Void, Side, some_copack
        <3>2. a # Unit
            BY <1>2, <3>1 DEF PayloadSides
        <3> QED
            BY <1>2, <3>2 DEF sum, sum_element
    <2>2. CASE ~some_copack(L)
        BY <1>2, <2>2 DEF sum
    <2> QED
        BY <2>1, <2>2
<1>3. CASE L # R
    <2>1. b = sum_element(a)
        BY <1>3 DEF sum, Copack, Side, some_copack
    <2>2. b \in sum(L, R).alternatives
        BY <1>3, <2>1 DEF sum, Copack, Side
    <2> QED
        BY <1>1, <2>1, <2>2, SumElement
<1> QED
    BY <1>2, <1>3

\* An operand that holds an error can fail.
LEMMA FailedCanFail ==
    ASSUME NEW x, Sound(x), ~has_value(x)
    PROVE  x.content.side = "error" /\ ~cluster_operand(x.type)
BY ClusterHasNoError DEF has_value, Sound

\* The value of either operand, injected.
LEMMA OrValue ==
    ASSUME NEW x, NEW y, Sound(x), Sound(y), or_compiles(x.type, y.type),
           NEW w \in {x, y}, has_value(w),
           or_content(x, y) = inject(w, sum(x.type.value, y.type.value))
    PROVE  /\ Sound(Or(x, y))
           /\ Live(Or(x, y).content) = Live(w.content)
<1> DEFINE z == Or(x, y)
           a == w.content.alternative
           b == IF some_copack(sum(x.type.value, y.type.value)) THEN sum_element(a) ELSE a
<1>1. /\ z.type \in CarrierTypes /\ z.type.value = sum(x.type.value, y.type.value)
      /\ z.content = Holding("value", b, w.content.payload)
    BY OrType DEF Or, Sound, inject
<1>2. /\ x.type.value \in ValueSides /\ y.type.value \in ValueSides
      /\ a \in x.type.value.alternatives \cup y.type.value.alternatives
      /\ w.content.side = "value"
    BY CarrierByKind, HeldIsAlternative DEF Sound, has_value
<1>3. b \in z.type.value.alternatives /\ b.fields = a.fields
    BY <1>1, <1>2, InjectedFits
<1>4. w.content.payload \in Seq(Fields) /\ a.fields = TypesOf(w.content.payload)
    BY DEF Sound
<1> HIDE DEF z, b
<1>5. Sound(z)
    BY <1>1, <1>3, <1>4 DEF Sound, Holding
<1>6. Live(z.content) = Live(w.content)
    BY <1>1, <1>2, <1>3 DEF Live, Holding
<1> QED
    BY <1>5, <1>6 DEF z

\* What a | b holds fits its type; an error has the fields of both operands in a row.
LEMMA OrContent ==
    ASSUME NEW x, NEW y, Sound(x), Sound(y), or_compiles(x.type, y.type)
    PROVE  /\ Sound(Or(x, y))
           /\ Live(Or(x, y).content) = Semiring!Select("error", Live(x.content), Live(y.content))
<1> DEFINE z == Or(x, y)
<1>1. CASE has_value(x)
    <2>1. or_content(x, y) = inject(x, sum(x.type.value, y.type.value))
        BY <1>1 DEF or_content
    <2>2. Sound(z) /\ Live(z.content) = Live(x.content)
        BY <1>1, <2>1, OrValue
    <2>3. Semiring!Select("error", Live(x.content), Live(y.content)) = Live(x.content)
        BY <1>1 DEF Semiring!Select, Live, has_value
    <2> QED
        BY <2>2, <2>3
<1>2. CASE ~has_value(x) /\ has_value(y)
    <2>1. or_content(x, y) = inject(y, sum(x.type.value, y.type.value))
        BY <1>2 DEF or_content
    <2>2. Sound(z) /\ Live(z.content) = Live(y.content)
        BY <1>2, <2>1, OrValue
    <2>3. Semiring!Select("error", Live(x.content), Live(y.content)) = Live(y.content)
        BY <1>2, FailedCanFail DEF Semiring!Select, Live, has_value
    <2> QED
        BY <2>2, <2>3
<1>3. CASE ~has_value(x) /\ ~has_value(y)
    <2> DEFINE l == x.content.alternative
               r == y.content.alternative
               p == x.content.payload \o y.content.payload
    <2>1. /\ x.content.side = "error" /\ y.content.side = "error"
          /\ ~cluster_operand(x.type) /\ ~cluster_operand(y.type)
          /\ l \in Alternatives /\ l \in x.type.error.alternatives
          /\ r \in Alternatives /\ r \in y.type.error.alternatives
        BY <1>3, FailedCanFail, HeldIsAlternative
    <2>2. x.type.kind = y.type.kind /\ ~in_cluster(x.type) /\ ~in_cluster(y.type)
        BY <2>1 DEF or_compiles, cluster_operand
    <2>3. z.type = or_type(x.type, y.type) /\ z.type \in CarrierTypes /\ z.content = or_content(x, y)
        BY OrType DEF Or, Sound
    <2>4. /\ x.content.payload \in Seq(Fields) /\ l.fields = TypesOf(x.content.payload)
          /\ y.content.payload \in Seq(Fields) /\ r.fields = TypesOf(y.content.payload)
        BY DEF Sound
    <2>5. p \in Seq(Fields) /\ TypesOf(p) = l.fields \o r.fields
        BY <2>4, TypesInARow
    <2>6. Semiring!Select("error", Live(x.content), Live(y.content))
          = [side |-> "error", word |-> l.fields \o r.fields, payload |-> p]
        BY <2>1 DEF Semiring!Select, Semiring!Both, Live
    <2>7. CASE x.type.kind = "optional"
        <3>1. l = Unit /\ r = Unit
            <4>1. x.type \in CarrierTypes /\ y.type \in CarrierTypes
                BY DEF Sound
            <4>2. x.type.error = Empty /\ y.type.error = Empty
                BY <2>2, <2>7, <4>1, CarrierByKind DEF in_cluster
            <4> QED
                BY <2>1, <4>2 DEF Empty, Side
        <3>2. x.content.payload = <<>> /\ y.content.payload = <<>>
            BY <3>1, UnitPayload
        <3>3. l.fields \o r.fields = <<>> /\ p = <<>>
            BY <3>1, <3>2 DEF Unit
        <3>4. z.content = x.content
            BY <1>3, <2>3, <2>7 DEF or_content
        <3>5. z.type.error = Empty
            BY <2>1, <2>3, <2>7 DEF or_type, optional, Carrier
        <3>6. Sound(z)
            BY <2>1, <2>3, <2>4, <3>1, <3>4, <3>5 DEF Sound, Empty, Side
        <3>7. Live(z.content) = [side |-> "error", word |-> <<>>, payload |-> <<>>]
            BY <2>1, <3>1, <3>2, <3>4 DEF Live, Unit
        <3> QED
            BY <2>6, <3>3, <3>6, <3>7
    <2>8. CASE x.type.kind # "optional"
        <3>1. z.type.error = product(x.type.error, y.type.error)
            BY <2>1, <2>3, <2>8 DEF or_type, expected, Carrier
        <3>2. z.content = Holding("error", fold(l, r), p)
            BY <1>3, <2>3, <2>8 DEF or_content
        <3>3. fold(l, r) \in z.type.error.alternatives /\ fold(l, r).fields = l.fields \o r.fields
            <4>1. fold(l, r) \in product(x.type.error, y.type.error).alternatives
                BY <2>1 DEF product, Side
            <4>2. fold(l, r).fields = l.fields \o r.fields
                BY <2>1, FoldIsPack
            <4> QED
                BY <3>1, <4>1, <4>2
        <3> DEFINE f == fold(l, r)
                   u == l.fields \o r.fields
        <3>4. f \in z.type.error.alternatives /\ f.fields = u /\ TypesOf(p) = u /\ p \in Seq(Fields)
              /\ z.content = Holding("error", f, p) /\ z.type \in CarrierTypes
            BY <2>3, <2>5, <3>2, <3>3
        <3> HIDE DEF z, f, u, p
        <3>5. Sound(z)
            BY <3>4 DEF Sound, Holding
        <3>6. Live(z.content) = [side |-> "error", word |-> u, payload |-> p]
            BY <3>4 DEF Live, Holding
        <3> QED
            BY <2>6, <3>5, <3>6 DEF z, u, p
    <2> QED
        BY <2>7, <2>8
<1> QED
    BY <1>1, <1>2, <1>3

(***************************************************************************)
(* Folds.                                                                  *)
(***************************************************************************)
\* An operand holds what its type has room for.
LEMMA OperandIsSound ==
    ASSUME NEW i \in Nat, NEW y \in OperandsAt(i)
    PROVE  Sound(y)
<1>1. PICK type \in Operands : \E c \in Contents(type, i) : y = [type |-> type, content |-> c]
    BY DEF OperandsAt
<1> PICK c \in Contents(type, i) : y = [type |-> type, content |-> c]
    BY <1>1
<1>2. type \in CarrierTypes
    BY OperandsAssumption
<1>3. PICK side \in {"value", "error"} :
          \E x \in type[side].alternatives : c = Holding(side, x, Payload(x, i))
    BY DEF Contents
<1> PICK a \in type[side].alternatives : c = Holding(side, a, Payload(a, i))
    BY <1>3
<1>4. a \in Alternatives
    <2>1. NoError.alternatives \subseteq Alternatives /\ Empty.alternatives \subseteq Alternatives
        BY VoidSide DEF NoError, Empty, Side
    <2>2. /\ type.value.alternatives \subseteq Alternatives
          /\ type.error.alternatives \subseteq Alternatives
        BY <1>2, <2>1, CarrierByKind, SidesHoldAlternatives DEF ValueSides
    <2> QED
        BY <2>2
<1>5. a.fields \in Seq(Types)
    BY <1>4 DEF Alternatives
<1> DEFINE w == a.fields
           p == [j \in DOMAIN w |-> [type |-> w[j], from |-> i]]
<1>6. Payload(a, i) = p
    BY DEF Payload
<1>7. Len(w) \in Nat /\ DOMAIN w = 1..Len(w) /\ \A j \in DOMAIN w : w[j] \in Types
    BY <1>5, LenProperties, ElementOfSeq
<1>8. p \in [1..Len(w) -> Fields]
    BY <1>7 DEF Fields
<1>9. p \in Seq(Fields)
    BY <1>7, <1>8, SeqDef
<1>10. TypesOf(p) = w
    <2> HIDE DEF w
    <2>1. DOMAIN p = DOMAIN w /\ \A j \in DOMAIN w : p[j].type = w[j]
        OBVIOUS
    <2>2. w = [j \in DOMAIN w |-> w[j]]
        BY <1>5, LenProperties DEF w
    <2> QED
        BY <2>1, <2>2 DEF TypesOf
<1> HIDE DEF p
<1> QED
    BY <1>2, <1>6, <1>9, <1>10 DEF Sound, Holding

\* The inductive invariant: what a fold has so far is sound, and so many operands
\* of it are taken.
Sequenced == /\ operands \in Seq(UNION {OperandsAt(i) : i \in Nat})
             /\ Len(operands) \in 1..MaxOperands
Inv == Sequenced /\ Sound(result)

\* What a step makes of the result.
LEMMA StepApplies ==
    ASSUME Inv, NEW op \in {"&", "|"}, Operate(op)
    PROVE  /\ Inv'
           /\ Len(operands)' = Len(operands) + 1
           /\ \E y \in OperandsAt(Len(operands) + 1) :
                 /\ Sound(y) /\ Compiles(op, result, y)
                 /\ result' = Apply(op, result, y)
<1>1. PICK y \in OperandsAt(Len(operands) + 1) :
          Compiles(op, result, y) /\ operands' = Append(operands, y) /\ result' = Apply(op, result, y)
    BY DEF Operate
<1>2. Len(operands) \in Nat /\ Len(operands) + 1 \in 1..MaxOperands
    BY MaxOperandsAssumption DEF Inv, Sequenced, Operate
<1>3. Sound(y)
    BY <1>2, OperandIsSound
<1>4. Sequenced' /\ Len(operands)' = Len(operands) + 1
    <2>1. y \in UNION {OperandsAt(i) : i \in Nat}
        BY <1>2
    <2> QED
        BY <1>1, <1>2, <2>1 DEF Inv, Sequenced
<1>5. Sound(result)'
    <2>1. CASE op = "&"
        <3>1. and_compiles(result.type, y.type) /\ result' = And(result, y)
            BY <1>1, <2>1 DEF Compiles, Apply
        <3>2. Sound(And(result, y))
            BY <1>3, <3>1, AndContent DEF Inv
        <3> QED
            BY <3>1, <3>2 DEF Sound
    <2>2. CASE op = "|"
        <3>1. or_compiles(result.type, y.type) /\ result' = Or(result, y)
            BY <1>1, <2>2 DEF Compiles, Apply
        <3>2. Sound(Or(result, y))
            BY <1>3, <3>1, OrContent DEF Inv
        <3> QED
            BY <3>1, <3>2 DEF Sound
    <2> QED
        BY <2>1, <2>2
<1> QED
    BY <1>1, <1>3, <1>4, <1>5 DEF Inv

\* It is inductive.
LEMMA InvHolds == Spec => []Inv
<1>1. Init => Inv
    <2> SUFFICES ASSUME Init PROVE Inv
        OBVIOUS
    <2>1. PICK x \in OperandsAt(1) : operands = <<x>> /\ result = x
        BY DEF Init
    <2>2. x \in UNION {OperandsAt(i) : i \in Nat}
        OBVIOUS
    <2>3. Sequenced
        BY <2>1, <2>2, MaxOperandsAssumption DEF Sequenced
    <2> QED
        BY <2>1, <2>3, OperandIsSound DEF Inv
<1>2. Inv /\ [Next]_vars => Inv'
    <2> SUFFICES ASSUME Inv, [Next]_vars PROVE Inv'
        OBVIOUS
    <2>1. CASE Conjoin
        BY <2>1, StepApplies DEF Conjoin
    <2>2. CASE Disjoin
        BY <2>2, StepApplies DEF Disjoin
    <2>3. CASE UNCHANGED vars
        BY <2>3 DEF vars, Inv, Sequenced, Sound
    <2> QED
        BY <2>1, <2>2, <2>3 DEF Next
<1> QED
    BY <1>1, <1>2, PTL DEF Spec

\* The carriers are closed under & and | (expected.hpp, optional.hpp, choice.hpp,
\* just.hpp: the result types of operator & and operator |).
THEOREM TypeCorrect == Spec => []TypeOK
<1>1. Inv => TypeOK
    BY DEF Inv, Sound, TypeOK
<1> QED
    BY <1>1, InvHolds, PTL

\* A result has room for what it holds, field by field (pack.hpp: _join; the arms of
\* operator & and operator |).
THEOREM ContentAlwaysFits == Spec => []ContentFits
<1>1. Inv => ContentFits
    BY DEF Inv, Sound, ContentFits, TypesOf
<1> QED
    BY <1>1, InvHolds, PTL

\* & and | are the operations of the semiring of sets of words, whatever overload
\* takes the operands: values multiply where errors add up and the other way round,
\* and the leftmost operand answers.
THEOREM AlgebraIsSemiring == Spec => ImplementsSemiring
<1> DEFINE Offered == [i \in 1..MaxOperands |-> {Forget(x) : x \in OperandsAt(i)}]
<1>1. Init => Semiring!Init
    <2> SUFFICES ASSUME Init PROVE Semiring!Init
        OBVIOUS
    <2>1. PICK x \in OperandsAt(1) : operands = <<x>> /\ result = x
        BY DEF Init
    <2>2. 1 \in 1..MaxOperands /\ Forget(x) \in Offered[1]
        BY MaxOperandsAssumption
    <2>3. Len(operands) = 1
        BY <2>1
    <2> QED
        BY <2>1, <2>2, <2>3 DEF Semiring!Init, Forget
<1>2. ASSUME Inv, NEW op \in {"&", "|"}, Operate(op)
      PROVE  Semiring!Next
    <2>1. PICK y \in OperandsAt(Len(operands) + 1) :
              Sound(y) /\ Compiles(op, result, y) /\ result' = Apply(op, result, y)
        BY <1>2, StepApplies
    <2>2. Len(operands)' = Len(operands) + 1 /\ Len(operands)' \in 1..MaxOperands
        BY <1>2, StepApplies DEF Inv, Sequenced
    <2>3. Forget(y) \in Offered[Len(operands)']
        BY <2>1, <2>2
    <2>4. Sound(result) /\ result.type \in CarrierTypes /\ y.type \in CarrierTypes
        BY <1>2, <2>1 DEF Inv, Sound
    <2>5. /\ result.type.value \in ValueSides /\ y.type.value \in ValueSides
        BY <2>4, CarrierByKind
    <2>6. CASE op = "&"
        <3>1. and_compiles(result.type, y.type) /\ result' = And(result, y)
            BY <2>1, <2>6 DEF Compiles, Apply
        <3>2. /\ Words(result.type.value)' = Semiring!Times(Words(result.type.value), Words(y.type.value))
              /\ Words(result.type.error)' = Words(result.type.error) \cup Words(y.type.error)
            BY <2>4, <2>5, <3>1, AndType, JoinedSide DEF And
        <3>3. Live(result.content)' = Semiring!Select("value", Live(result.content), Live(y.content))
            BY <2>1, <2>4, <3>1, AndContent DEF Live
        <3>4. Semiring!Conjoin(Forget(y))
            BY <3>2, <3>3 DEF Semiring!Conjoin, Forget
        <3> QED
            BY <2>2, <2>3, <3>4 DEF Semiring!Next
    <2>7. CASE op = "|"
        <3>1. or_compiles(result.type, y.type) /\ result' = Or(result, y)
            BY <2>1, <2>7 DEF Compiles, Apply
        <3>2. /\ Words(result.type.value)' = Words(result.type.value) \cup Words(y.type.value)
              /\ Words(result.type.error)' = Semiring!Times(Words(result.type.error), Words(y.type.error))
            BY <2>4, <2>5, <3>1, OrType, SumSide DEF Or
        <3>3. Live(result.content)' = Semiring!Select("error", Live(result.content), Live(y.content))
            BY <2>1, <2>4, <3>1, OrContent DEF Live
        <3>4. Semiring!Disjoin(Forget(y))
            BY <3>2, <3>3 DEF Semiring!Disjoin, Forget
        <3> QED
            BY <2>2, <2>3, <3>4 DEF Semiring!Next
    <2> QED
        BY <2>6, <2>7
<1>3. Inv /\ [Next]_vars => [Semiring!Next]_(Semiring!vars)
    <2> SUFFICES ASSUME Inv, [Next]_vars PROVE [Semiring!Next]_(Semiring!vars)
        OBVIOUS
    <2>1. CASE Conjoin
        BY <1>2, <2>1 DEF Conjoin
    <2>2. CASE Disjoin
        BY <1>2, <2>2 DEF Disjoin
    <2>3. CASE UNCHANGED vars
        BY <2>3 DEF vars, Semiring!vars, Words, Live
    <2> QED
        BY <2>1, <2>2, <2>3 DEF Next
<1> QED
    BY <1>1, <1>3, InvHolds, PTL DEF Spec, ImplementsSemiring, Semiring!Spec

(***************************************************************************)
(* Associativity.                                                          *)
(***************************************************************************)
\* A pack of packs is flat.
LEMMA FoldAssociates ==
    ASSUME NEW a \in Alternatives, NEW b \in Alternatives, NEW c \in Alternatives
    PROVE  fold(fold(a, b), c) = fold(a, fold(b, c))
<1>1. a.fields \in Seq(Types) /\ b.fields \in Seq(Types) /\ c.fields \in Seq(Types)
    BY DEF Alternatives
<1>2. (a.fields \o b.fields) \o c.fields = a.fields \o (b.fields \o c.fields)
    <2> DEFINE p == a.fields
               q == b.fields
               r == c.fields
    <2> HIDE DEF p, q, r
    <2>1. p \in Seq(Types) /\ q \in Seq(Types) /\ r \in Seq(Types)
        BY <1>1 DEF p, q, r
    <2>2. (p \o q) \o r = p \o (q \o r)
        BY <2>1, ConcatAssociative
    <2> QED
        BY <2>2 DEF p, q, r
<1>3. fold(a, b).fields = a.fields \o b.fields /\ fold(b, c).fields = b.fields \o c.fields
    BY FoldIsPack
<1> QED
    BY <1>2, <1>3 DEF fold

\* A copack anywhere makes the product one, whichever product is taken first.
LEMMA ProductAssociates ==
    ASSUME NEW L \in PayloadSides, NEW R \in PayloadSides, NEW S \in PayloadSides
    PROVE  product(product(L, R), S) = product(L, product(R, S))
<1> DEFINE LR == {fold(l, r) : l \in L.alternatives, r \in R.alternatives}
           RS == {fold(r, s) : r \in R.alternatives, s \in S.alternatives}
           left == {fold(p, s) : p \in LR, s \in S.alternatives}
           right == {fold(l, p) : l \in L.alternatives, p \in RS}
<1>1. \A l \in L.alternatives, r \in R.alternatives, s \in S.alternatives :
          fold(fold(l, r), s) = fold(l, fold(r, s))
    <2>1. \A T \in PayloadSides : T.alternatives \subseteq Alternatives
        BY SidesHoldAlternatives DEF ValueSides
    <2> QED
        BY <2>1, FoldAssociates
<1>2. left = right
    <2>1. ASSUME NEW z \in left PROVE z \in right
        <3>1. PICK p \in LR, s \in S.alternatives : z = fold(p, s)
            OBVIOUS
        <3>2. PICK l \in L.alternatives, r \in R.alternatives : p = fold(l, r)
            OBVIOUS
        <3>3. fold(r, s) \in RS /\ z = fold(l, fold(r, s))
            BY <1>1, <3>1, <3>2
        <3> QED
            BY <3>3
    <2>2. ASSUME NEW z \in right PROVE z \in left
        <3>1. PICK l \in L.alternatives, p \in RS : z = fold(l, p)
            OBVIOUS
        <3>2. PICK r \in R.alternatives, s \in S.alternatives : p = fold(r, s)
            OBVIOUS
        <3>3. fold(l, r) \in LR /\ z = fold(fold(l, r), s)
            BY <1>1, <3>1, <3>2
        <3> QED
            BY <3>3
    <2> HIDE DEF left, right
    <2> QED
        BY <2>1, <2>2
<1> DEFINE P == product(L, R)
           Q == product(R, S)
<1>3. P.alternatives = LR /\ Q.alternatives = RS
    BY DEF product, Side
<1>4. /\ some_copack(P) <=> some_copack(L) \/ some_copack(R)
      /\ some_copack(Q) <=> some_copack(R) \/ some_copack(S)
    BY DEF product, Side, some_copack
<1> HIDE DEF P, Q, LR, RS
<1>5. product(P, S) = Side(IF some_copack(P) \/ some_copack(S) THEN "copack" ELSE "plain", left)
    <2> DEFINE set == {fold(l, r) : l \in P.alternatives, r \in S.alternatives}
    <2>1. product(P, S) = Side(IF some_copack(P) \/ some_copack(S) THEN "copack" ELSE "plain", set)
        BY DEF product
    <2>2. set = left
        BY <1>3
    <2> HIDE DEF set, left
    <2> QED
        BY <2>1, <2>2
<1>6. product(L, Q) = Side(IF some_copack(L) \/ some_copack(Q) THEN "copack" ELSE "plain", right)
    <2> DEFINE set == {fold(l, r) : l \in L.alternatives, r \in Q.alternatives}
    <2>1. product(L, Q) = Side(IF some_copack(L) \/ some_copack(Q) THEN "copack" ELSE "plain", set)
        BY DEF product
    <2>2. set = right
        BY <1>3
    <2> HIDE DEF set, right
    <2> QED
        BY <2>1, <2>2
<1> HIDE DEF left, right
<1> QED
    BY <1>2, <1>4, <1>5, <1>6 DEF P, Q

\* A side is a payload or void, and a product is not void.
LEMMA PayloadOrVoid ==
    /\ \A s \in ValueSides : s # Void <=> s \in PayloadSides
    /\ \A s \in PayloadSides : s.form # "none" /\ s.form # "empty"
BY DEF ValueSides, PayloadSides, Void, Side

LEMMA JoinedAssociates ==
    ASSUME NEW L \in ValueSides, NEW R \in ValueSides, NEW S \in ValueSides
    PROVE  joined(joined(L, R), S) = joined(L, joined(R, S))
<1>1. CASE L = Void \/ R = Void \/ S = Void
    <2>1. joined(L, R) = Void => L = Void /\ R = Void
        BY PayloadOrVoid, JoinedSide
    <2>2. joined(R, S) = Void => R = Void /\ S = Void
        BY PayloadOrVoid, JoinedSide
    <2> QED
        BY <1>1, <2>1, <2>2 DEF joined
<1>2. CASE L # Void /\ R # Void /\ S # Void
    <2>1. L \in PayloadSides /\ R \in PayloadSides /\ S \in PayloadSides
        BY <1>2, PayloadOrVoid
    <2>2. product(L, R) # Void /\ product(R, S) # Void
        BY <2>1, ProductSide, PayloadOrVoid DEF ValueSides
    <2> QED
        BY <1>2, <2>1, <2>2, ProductAssociates DEF joined
<1> QED
    BY <1>1, <1>2

\* The alternatives of a sum of sides that differ.
Elements(A) == {sum_element(a) : a \in A}

LEMMA ElementsOfCopack ==
    ASSUME NEW s \in ValueSides
    PROVE  /\ Elements(Elements(s.alternatives)) = Elements(s.alternatives)
           /\ some_copack(s) => s = Copack(Elements(s.alternatives))
<1>1. \A a : sum_element(sum_element(a)) = sum_element(a)
    BY DEF sum_element, Pack, Unit
<1>2. ASSUME some_copack(s) PROVE s = Copack(Elements(s.alternatives))
    <2>1. s \in PayloadSides /\ Unit \notin s.alternatives
        BY <1>2 DEF ValueSides, PayloadSides, some_copack, Void, Side
    <2>2. Elements(s.alternatives) = s.alternatives
        BY <2>1 DEF Elements, sum_element
    <2>3. s = [form |-> "copack", alternatives |-> s.alternatives]
        BY <1>2, <2>1 DEF PayloadSides, some_copack
    <2> QED
        BY <2>2, <2>3 DEF Copack, Side
<1> QED
    BY <1>1, <1>2 DEF Elements

LEMMA ElementsOfUnion == \A A, B : Elements(A \cup B) = Elements(A) \cup Elements(B)
BY DEF Elements

LEMMA ElementsOnce == \A A : Elements(Elements(A)) = Elements(A)
<1>1. \A a : sum_element(sum_element(a)) = sum_element(a)
    BY DEF sum_element, Pack, Unit
<1> QED
    BY <1>1 DEF Elements

\* A sum of three sides is the side they all are, or the copack of all their
\* alternatives.
LEMMA SumOfThree ==
    ASSUME NEW L \in ValueSides, NEW R \in ValueSides, NEW S \in ValueSides
    PROVE  LET all == IF L = R /\ R = S THEN L
                      ELSE Copack(Elements(L.alternatives \cup R.alternatives \cup S.alternatives))
           IN  sum(sum(L, R), S) = all /\ sum(L, sum(R, S)) = all
<1> DEFINE l == Elements(L.alternatives)
           r == Elements(R.alternatives)
           s == Elements(S.alternatives)
<1>1. \A X, Y \in ValueSides :
          sum(X, Y) = IF X = Y THEN X ELSE Copack(Elements(X.alternatives) \cup Elements(Y.alternatives))
    BY ElementsOfUnion DEF sum, Elements
<1>2. \A B : \A X \in ValueSides : X = Copack(B) => X = Copack(Elements(X.alternatives))
    BY ElementsOfCopack DEF some_copack, Copack, Side
<1>3. \A B : Copack(B).alternatives = B
    BY DEF Copack, Side
<1>4. Elements(L.alternatives \cup R.alternatives \cup S.alternatives) = l \cup r \cup s
    <2> DEFINE A == L.alternatives \cup R.alternatives
    <2>1. Elements(A) = l \cup r
        BY ElementsOfUnion
    <2> HIDE DEF A
    <2>2. Elements(A \cup S.alternatives) = Elements(A) \cup s
        BY ElementsOfUnion
    <2> QED
        BY <2>1, <2>2 DEF A
<1>5. sum(L, R) \in ValueSides /\ sum(R, S) \in ValueSides
    BY SumSide
<1>6. Elements(l \cup r) = l \cup r /\ Elements(r \cup s) = r \cup s
    <2>1. Elements(l) = l /\ Elements(r) = r /\ Elements(s) = s
        BY ElementsOnce
    <2> HIDE DEF l, r, s
    <2>2. /\ Elements(l \cup r) = Elements(l) \cup Elements(r)
          /\ Elements(r \cup s) = Elements(r) \cup Elements(s)
        BY ElementsOfUnion
    <2> QED
        BY <2>1, <2>2
<1>7. sum(sum(L, R), S) = IF L = R /\ R = S THEN L ELSE Copack(l \cup r \cup s)
    <2>1. CASE L = R
        BY <1>1, <2>1
    <2>2. CASE L # R
        <3>1. sum(L, R) = Copack(l \cup r)
            BY <1>1, <2>2
        <3>2. Elements(sum(L, R).alternatives) = l \cup r
            BY <1>3, <1>6, <3>1
        <3>3. CASE S = sum(L, R)
            <4>1. s = l \cup r
                BY <3>2, <3>3
            <4>2. sum(sum(L, R), S) = Copack(l \cup r)
                BY <1>1, <1>5, <3>1, <3>3
            <4> QED
                BY <2>2, <4>1, <4>2
        <3>4. CASE S # sum(L, R)
            <4>1. sum(sum(L, R), S) = Copack((l \cup r) \cup s)
                BY <1>1, <1>5, <3>2, <3>4
            <4> QED
                BY <2>2, <4>1
        <3> QED
            BY <3>3, <3>4
    <2> QED
        BY <2>1, <2>2
<1>8. sum(L, sum(R, S)) = IF L = R /\ R = S THEN L ELSE Copack(l \cup r \cup s)
    <2>1. CASE R = S
        BY <1>1, <2>1
    <2>2. CASE R # S
        <3>1. sum(R, S) = Copack(r \cup s)
            BY <1>1, <2>2
        <3>2. Elements(sum(R, S).alternatives) = r \cup s
            BY <1>3, <1>6, <3>1
        <3>3. CASE L = sum(R, S)
            <4>1. l = r \cup s
                BY <3>2, <3>3
            <4>2. sum(L, sum(R, S)) = Copack(r \cup s)
                BY <1>1, <1>5, <3>1, <3>3
            <4>3. l \cup r \cup s = r \cup s
                BY <4>1
            <4> QED
                BY <2>2, <4>2, <4>3
        <3>4. CASE L # sum(R, S)
            <4>1. sum(L, sum(R, S)) = Copack(l \cup (r \cup s))
                BY <1>1, <1>5, <3>2, <3>4
            <4>2. l \cup (r \cup s) = l \cup r \cup s
                OBVIOUS
            <4> QED
                BY <2>2, <4>1, <4>2
        <3> QED
            BY <3>3, <3>4
    <2> QED
        BY <2>1, <2>2
<1> HIDE DEF l, r, s
<1> QED
    BY <1>4, <1>7, <1>8

LEMMA SumAssociates ==
    ASSUME NEW L \in ValueSides, NEW R \in ValueSides, NEW S \in ValueSides
    PROVE  sum(sum(L, R), S) = sum(L, sum(R, S))
<1> DEFINE all == IF L = R /\ R = S THEN L
                  ELSE Copack(Elements(L.alternatives \cup R.alternatives \cup S.alternatives))
<1>1. sum(sum(L, R), S) = all /\ sum(L, sum(R, S)) = all
    BY SumOfThree
<1> HIDE DEF all
<1> QED
    BY <1>1

\* An error that is not there is no operand of a sum.
AddErrors(E, F) == IF E = NoError THEN F ELSE IF F = NoError THEN E ELSE sum(E, F)
Carry(v, e) == IF e = NoError THEN total(v) ELSE expected(v, e)
Fallible(c) == c.kind = "expected" /\ c.error # Copack({})
ErrorSides == PayloadSides \cup {NoError}
Harmless == {NoError, Copack({})}

\* The kind of a carrier, from its error.
LEMMA KindFromError ==
    ASSUME NEW c \in CarrierTypes
    PROVE  /\ c.kind \in {"just", "choice", "optional", "expected"}
           /\ c.kind = "optional" => ~in_cluster(c) /\ ~cluster_operand(c) /\ ~Fallible(c)
           /\ c.kind # "optional" => /\ c.error \in ErrorSides
                                     /\ in_cluster(c) <=> c.error = NoError
                                     /\ cluster_operand(c) <=> c.error \in Harmless
                                     /\ Fallible(c) <=> c.error \notin Harmless
<1>1. c.kind \in {"just", "choice", "optional", "expected"}
    BY DEF CarrierTypes
<1>2. NoError \notin PayloadSides /\ NoError # Copack({})
    BY PayloadOrVoid DEF NoError, Copack, Side
<1> QED
    BY <1>1, <1>2, CarrierByKind
    DEF in_cluster, cluster_operand, identity_expected, Fallible, ErrorSides, Harmless

\* Only sides with nothing in them have a sum with nothing in it.
LEMMA EmptySum ==
    ASSUME NEW E \in PayloadSides, NEW F \in PayloadSides
    PROVE  /\ E = Copack({}) <=> E.alternatives = {}
           /\ sum(E, F) \in PayloadSides
           /\ sum(E, F) = Copack({}) <=> E = Copack({}) /\ F = Copack({})
<1>1. ASSUME NEW G \in PayloadSides
      PROVE  G = Copack({}) <=> G.alternatives = {}
    <2>1. G.alternatives = {} => G.form = "copack"
        BY DEF PayloadSides, Plain, Side
    <2>2. G = [form |-> G.form, alternatives |-> G.alternatives]
        BY DEF PayloadSides
    <2> QED
        BY <2>1, <2>2 DEF Copack, Side
<1>2. sum(E, F) \in PayloadSides
    BY SumSide DEF ValueSides
<1>3. E = Copack({}) /\ F = Copack({}) => sum(E, F) = Copack({})
    BY DEF sum
<1>4. sum(E, F).alternatives = {} => E.alternatives = {} /\ F.alternatives = {}
    BY SumKeepsAlternatives
<1> QED
    BY <1>1, <1>2, <1>3, <1>4

LEMMA ErrorsAdd ==
    ASSUME NEW E \in ErrorSides, NEW F \in ErrorSides
    PROVE  /\ AddErrors(E, F) \in ErrorSides
           /\ AddErrors(E, F) = NoError <=> E = NoError /\ F = NoError
           /\ AddErrors(E, F) \in Harmless <=> E \in Harmless /\ F \in Harmless
<1>1. NoError \notin PayloadSides
    BY PayloadOrVoid DEF NoError, Side
<1> QED
    BY <1>1, EmptySum DEF AddErrors, ErrorSides, Harmless

LEMMA ErrorsAssociate ==
    ASSUME NEW E \in ErrorSides, NEW F \in ErrorSides, NEW G \in ErrorSides
    PROVE  AddErrors(AddErrors(E, F), G) = AddErrors(E, AddErrors(F, G))
<1>1. AddErrors(E, F) = NoError <=> E = NoError /\ F = NoError
    BY ErrorsAdd
<1>2. AddErrors(F, G) = NoError <=> F = NoError /\ G = NoError
    BY ErrorsAdd
<1>3. CASE E = NoError \/ F = NoError \/ G = NoError
    BY <1>1, <1>2, <1>3 DEF AddErrors
<1>4. CASE E # NoError /\ F # NoError /\ G # NoError
    <2>1. E \in ValueSides /\ F \in ValueSides /\ G \in ValueSides
        BY <1>4 DEF ErrorSides, ValueSides
    <2>2. sum(sum(E, F), G) = sum(E, sum(F, G))
        BY <2>1, SumAssociates
    <2>3. AddErrors(E, F) = sum(E, F) /\ AddErrors(F, G) = sum(F, G)
        BY <1>4 DEF AddErrors
    <2>4. sum(E, F) # NoError /\ sum(F, G) # NoError
        BY <1>1, <1>2, <1>4, <2>3
    <2>5. AddErrors(sum(E, F), G) = sum(sum(E, F), G) /\ AddErrors(E, sum(F, G)) = sum(E, sum(F, G))
        BY <1>4, <2>4 DEF AddErrors
    <2> QED
        BY <2>2, <2>3, <2>5
<1> QED
    BY <1>3, <1>4

\* The type of a & b, from the sides of its operands.
LEMMA AndForm ==
    ASSUME NEW l \in CarrierTypes, NEW r \in CarrierTypes
    PROVE  and_type(l, r) = IF l.kind = "optional" \/ r.kind = "optional"
                            THEN optional(joined(l.value, r.value))
                            ELSE Carry(joined(l.value, r.value), AddErrors(l.error, r.error))
<1> DEFINE v == joined(l.value, r.value)
<1>1. CASE l.kind = "optional" \/ r.kind = "optional"
    <2>1. "optional" \in {l.kind, r.kind}
        BY <1>1
    <2> HIDE DEF v
    <2>2. and_type(l, r) = optional(v)
        BY <2>1 DEF and_type, v
    <2> QED
        BY <1>1, <2>2 DEF v
<1>2. CASE l.kind # "optional" /\ r.kind # "optional"
    <2>1. "optional" \notin {l.kind, r.kind}
        BY <1>2
    <2>2. /\ in_cluster(l) <=> l.error = NoError
          /\ in_cluster(r) <=> r.error = NoError
          /\ l.error \in ErrorSides /\ r.error \in ErrorSides
        BY <1>2, KindFromError
    <2>3. and_type(l, r) =
              IF in_cluster(l) /\ in_cluster(r) THEN total(v)
              ELSE IF in_cluster(l) THEN expected(v, r.error)
              ELSE IF in_cluster(r) THEN expected(v, l.error)
              ELSE expected(v, sum(l.error, r.error))
        BY <2>1 DEF and_type
    <2>4. AddErrors(l.error, r.error) = NoError <=> l.error = NoError /\ r.error = NoError
        BY <2>2, ErrorsAdd
    <2> HIDE DEF v
    <2>5. and_type(l, r) = Carry(v, AddErrors(l.error, r.error))
        BY <2>2, <2>3, <2>4 DEF Carry, AddErrors
    <2> QED
        BY <1>2, <2>5 DEF v
<1> QED
    BY <1>1, <1>2

\* What the type of a & b says of a further operand.
LEMMA AndSides ==
    ASSUME NEW l \in CarrierTypes, NEW r \in CarrierTypes, and_compiles(l, r)
    PROVE  LET t == and_type(l, r)
           IN  /\ t \in CarrierTypes
               /\ t.value = joined(l.value, r.value)
               /\ t.kind = "optional" <=> l.kind = "optional" \/ r.kind = "optional"
               /\ t.kind # "optional" => t.error = AddErrors(l.error, r.error)
<1> DEFINE t == and_type(l, r)
           e == AddErrors(l.error, r.error)
           v == joined(l.value, r.value)
<1>1. t \in CarrierTypes /\ t.value = v
    BY AndType
<1>2. t = IF l.kind = "optional" \/ r.kind = "optional" THEN optional(v) ELSE Carry(v, e)
    BY AndForm
<1> HIDE DEF t, e, v
<1>3. optional(v).kind = "optional" /\ Carry(v, e).kind # "optional" /\ Carry(v, e).error = e
    BY DEF optional, Carry, total, expected, Carrier
<1>4. /\ t \in CarrierTypes /\ t.value = v
      /\ t.kind = "optional" <=> l.kind = "optional" \/ r.kind = "optional"
      /\ t.kind # "optional" => t.error = e
    BY <1>1, <1>2, <1>3
<1> QED
    BY <1>4 DEF t, e, v

\* An optional and a fallible expected do not meet.
LEMMA AndCompiles ==
    ASSUME NEW l \in CarrierTypes, NEW r \in CarrierTypes
    PROVE  and_compiles(l, r) <=> \/ l.kind # "optional" /\ r.kind # "optional"
                                  \/ ~Fallible(l) /\ ~Fallible(r)
<1>1. \A c \in {l, r} : c.kind = "optional" \/ cluster_operand(c) <=> ~Fallible(c)
    BY KindFromError
<1> QED
    BY <1>1 DEF and_compiles

LEMMA AndFallible ==
    ASSUME NEW l \in CarrierTypes, NEW r \in CarrierTypes, and_compiles(l, r)
    PROVE  Fallible(and_type(l, r)) <=> Fallible(l) \/ Fallible(r)
<1> DEFINE t == and_type(l, r)
<1>1. /\ t \in CarrierTypes
      /\ t.kind = "optional" <=> l.kind = "optional" \/ r.kind = "optional"
      /\ t.kind # "optional" => t.error = AddErrors(l.error, r.error)
    BY AndSides
<1> HIDE DEF t
<1>2. CASE t.kind = "optional"
    BY <1>1, <1>2, AndCompiles, KindFromError DEF t
<1>3. CASE t.kind # "optional"
    <2>1. /\ l.error \in ErrorSides /\ (Fallible(l) <=> l.error \notin Harmless)
          /\ r.error \in ErrorSides /\ (Fallible(r) <=> r.error \notin Harmless)
          /\ Fallible(t) <=> t.error \notin Harmless
        BY <1>1, <1>3, KindFromError
    <2>2. Fallible(t) <=> Fallible(l) \/ Fallible(r)
        BY <1>1, <1>3, <2>1, ErrorsAdd
    <2> QED
        BY <2>2 DEF t
<1> QED
    BY <1>2, <1>3

LEMMA AndTypeAssociates ==
    ASSUME NEW a \in CarrierTypes, NEW b \in CarrierTypes, NEW c \in CarrierTypes,
           and_compiles(a, b), and_compiles(and_type(a, b), c)
    PROVE  /\ and_compiles(b, c) /\ and_compiles(a, and_type(b, c))
           /\ and_type(and_type(a, b), c) = and_type(a, and_type(b, c))
<1> DEFINE p == and_type(a, b)
           q == and_type(b, c)
           v == joined(joined(a.value, b.value), c.value)
           e == AddErrors(AddErrors(a.error, b.error), c.error)
<1>1. /\ p \in CarrierTypes /\ p.value = joined(a.value, b.value)
      /\ p.kind = "optional" <=> a.kind = "optional" \/ b.kind = "optional"
      /\ p.kind # "optional" => p.error = AddErrors(a.error, b.error)
      /\ Fallible(p) <=> Fallible(a) \/ Fallible(b)
    BY AndSides, AndFallible
<1>2. and_compiles(b, c)
    <2> HIDE DEF p
    <2>1. and_compiles(p, c) <=> \/ p.kind # "optional" /\ c.kind # "optional"
                                 \/ ~Fallible(p) /\ ~Fallible(c)
        BY <1>1, AndCompiles
    <2>2. and_compiles(b, c) <=> \/ b.kind # "optional" /\ c.kind # "optional"
                                 \/ ~Fallible(b) /\ ~Fallible(c)
        BY AndCompiles
    <2>3. and_compiles(p, c)
        BY DEF p
    <2> QED
        BY <1>1, <2>1, <2>2, <2>3
<1>3. /\ q \in CarrierTypes /\ q.value = joined(b.value, c.value)
      /\ q.kind = "optional" <=> b.kind = "optional" \/ c.kind = "optional"
      /\ q.kind # "optional" => q.error = AddErrors(b.error, c.error)
      /\ Fallible(q) <=> Fallible(b) \/ Fallible(c)
    BY <1>2, AndSides, AndFallible
<1>4. and_compiles(p, c)
    OBVIOUS
<1> HIDE DEF p, q
<1>5. and_compiles(a, q)
    <2>1. and_compiles(p, c) <=> \/ p.kind # "optional" /\ c.kind # "optional"
                                 \/ ~Fallible(p) /\ ~Fallible(c)
        BY <1>1, AndCompiles
    <2>2. and_compiles(a, b) <=> \/ a.kind # "optional" /\ b.kind # "optional"
                                 \/ ~Fallible(a) /\ ~Fallible(b)
        BY AndCompiles
    <2>3. and_compiles(a, q) <=> \/ a.kind # "optional" /\ q.kind # "optional"
                                 \/ ~Fallible(a) /\ ~Fallible(q)
        BY <1>3, AndCompiles
    <2> QED
        BY <1>1, <1>3, <1>4, <2>1, <2>2, <2>3
<1>6. joined(p.value, c.value) = v /\ joined(a.value, q.value) = v
    <2>1. joined(p.value, c.value) = v
        BY <1>1
    <2>2. joined(a.value, q.value) = joined(a.value, joined(b.value, c.value))
        BY <1>3
    <2> QED
        BY <2>1, <2>2, JoinedAssociates, CarrierByKind
<1>7. ASSUME a.kind # "optional", b.kind # "optional", c.kind # "optional"
      PROVE  AddErrors(p.error, c.error) = e /\ AddErrors(a.error, q.error) = e
    <2>1. p.error = AddErrors(a.error, b.error) /\ q.error = AddErrors(b.error, c.error)
        BY <1>1, <1>3, <1>7
    <2>2. a.error \in ErrorSides /\ b.error \in ErrorSides /\ c.error \in ErrorSides
        BY <1>7, KindFromError
    <2>3. e = AddErrors(a.error, AddErrors(b.error, c.error))
        BY <2>2, ErrorsAssociate
    <2> HIDE DEF e
    <2>4. AddErrors(p.error, c.error) = e
        BY <2>1 DEF e
    <2> QED
        BY <2>1, <2>3, <2>4
<1> HIDE DEF v, e
<1>8. and_type(p, c) = IF p.kind = "optional" \/ c.kind = "optional" THEN optional(v)
                       ELSE Carry(v, AddErrors(p.error, c.error))
    BY <1>1, <1>6, AndForm
<1>9. and_type(a, q) = IF a.kind = "optional" \/ q.kind = "optional" THEN optional(v)
                       ELSE Carry(v, AddErrors(a.error, q.error))
    BY <1>3, <1>6, AndForm
<1>10. and_type(p, c) = and_type(a, q)
    BY <1>1, <1>3, <1>7, <1>8, <1>9
<1> QED
    BY <1>2, <1>5, <1>10 DEF p, q

\* The type of a | b, and what it says of a further operand.
LEMMA OrSides ==
    ASSUME NEW l \in CarrierTypes, NEW r \in CarrierTypes, or_compiles(l, r)
    PROVE  LET t == or_type(l, r)
           IN  /\ t \in CarrierTypes
               /\ t.value = sum(l.value, r.value)
               /\ cluster_operand(t) <=> cluster_operand(l) \/ cluster_operand(r)
               /\ ~cluster_operand(t) => /\ t.kind = l.kind /\ t.kind = r.kind
                                         /\ t.kind # "optional" => t.error = product(l.error, r.error)
<1> DEFINE t == or_type(l, r)
           v == sum(l.value, r.value)
           e == product(l.error, r.error)
<1>1. t \in CarrierTypes /\ t.value = v
    BY OrType
<1>2. t = IF cluster_operand(l) \/ cluster_operand(r) THEN total(v)
          ELSE IF l.kind = "optional" THEN optional(v)
          ELSE expected(v, e)
    BY DEF or_type
<1>3. CASE cluster_operand(l) \/ cluster_operand(r)
    <2> HIDE DEF t, v, e
    <2>1. cluster_operand(t)
        BY <1>2, <1>3 DEF cluster_operand, in_cluster, total, Carrier
    <2> QED
        BY <1>1, <1>3, <2>1 DEF t, v
<1>4. CASE ~cluster_operand(l) /\ ~cluster_operand(r)
    <2>1. l.kind = r.kind
        BY <1>4 DEF or_compiles
    <2>2. CASE l.kind = "optional"
        <3> HIDE DEF t, v, e
        <3>1. t.kind = "optional"
            BY <1>2, <1>4, <2>2 DEF optional, Carrier
        <3>2. ~cluster_operand(t)
            BY <1>1, <3>1, KindFromError
        <3> QED
            BY <1>1, <1>4, <2>1, <2>2, <3>1, <3>2 DEF t, v
    <2>3. CASE l.kind # "optional"
        <3>1. /\ l.kind = "expected" /\ l.error \in PayloadSides /\ l.error # Copack({})
              /\ r.kind = "expected" /\ r.error \in PayloadSides /\ r.error # Copack({})
            BY <1>4, <2>1, <2>3, KindFromError, CarrierByKind
            DEF cluster_operand, identity_expected, in_cluster
        <3>2. PICK a \in l.error.alternatives, b \in r.error.alternatives : TRUE
            BY <3>1, EmptySum
        <3>3. fold(a, b) \in e.alternatives
            BY DEF product, Side
        <3>4. e # Copack({})
            BY <3>3 DEF Copack, Side
        <3> HIDE DEF t, v, e
        <3>5. t = expected(v, e)
            BY <1>2, <1>4, <2>3
        <3>6. t.kind = "expected" /\ t.error = e
            BY <3>5 DEF expected, Carrier
        <3>7. ~cluster_operand(t)
            BY <3>4, <3>6 DEF cluster_operand, identity_expected, in_cluster
        <3> QED
            BY <1>1, <1>4, <3>1, <3>6, <3>7 DEF t, v, e
    <2> QED
        BY <2>2, <2>3
<1> QED
    BY <1>3, <1>4

LEMMA OrTypeAssociates ==
    ASSUME NEW a \in CarrierTypes, NEW b \in CarrierTypes, NEW c \in CarrierTypes,
           or_compiles(a, b), or_compiles(or_type(a, b), c),
           or_compiles(b, c), or_compiles(a, or_type(b, c))
    PROVE  or_type(or_type(a, b), c) = or_type(a, or_type(b, c))
<1> DEFINE p == or_type(a, b)
           q == or_type(b, c)
           v == sum(sum(a.value, b.value), c.value)
           e == product(product(a.error, b.error), c.error)
<1>1. /\ p \in CarrierTypes /\ p.value = sum(a.value, b.value)
      /\ cluster_operand(p) <=> cluster_operand(a) \/ cluster_operand(b)
      /\ ~cluster_operand(p) => /\ p.kind = a.kind /\ p.kind = b.kind
                                /\ p.kind # "optional" => p.error = product(a.error, b.error)
    BY OrSides
<1>2. /\ q \in CarrierTypes /\ q.value = sum(b.value, c.value)
      /\ cluster_operand(q) <=> cluster_operand(b) \/ cluster_operand(c)
      /\ ~cluster_operand(q) => /\ q.kind = b.kind /\ q.kind = c.kind
                                /\ q.kind # "optional" => q.error = product(b.error, c.error)
    BY OrSides
<1> HIDE DEF p, q
<1>3. sum(p.value, c.value) = v /\ sum(a.value, q.value) = v
    <2>1. sum(a.value, q.value) = sum(a.value, sum(b.value, c.value))
        BY <1>2
    <2> QED
        BY <1>1, <2>1, SumAssociates, CarrierByKind
<1>4. ASSUME ~cluster_operand(a), ~cluster_operand(b), ~cluster_operand(c), a.kind # "optional"
      PROVE  product(p.error, c.error) = e /\ product(a.error, q.error) = e
    <2>1. p.kind # "optional" /\ q.kind # "optional" /\ b.kind # "optional" /\ c.kind # "optional"
        BY <1>1, <1>2, <1>4
    <2>2. a.error \in PayloadSides /\ b.error \in PayloadSides /\ c.error \in PayloadSides
        BY <1>4, <2>1, CarrierByKind DEF cluster_operand
    <2>3. product(a.error, q.error) = product(a.error, product(b.error, c.error))
        BY <1>2, <1>4, <2>1
    <2> QED
        BY <1>1, <1>4, <2>1, <2>2, <2>3, ProductAssociates
<1> HIDE DEF v, e
<1>5. or_type(p, c) = IF cluster_operand(p) \/ cluster_operand(c) THEN total(v)
                      ELSE IF p.kind = "optional" THEN optional(v)
                      ELSE expected(v, product(p.error, c.error))
    BY <1>3, Zenon DEF or_type
<1>6. or_type(a, q) = IF cluster_operand(a) \/ cluster_operand(q) THEN total(v)
                      ELSE IF a.kind = "optional" THEN optional(v)
                      ELSE expected(v, product(a.error, q.error))
    BY <1>3, Zenon DEF or_type
<1>7. or_type(p, c) = or_type(a, q)
    BY <1>1, <1>2, <1>4, <1>5, <1>6
<1> QED
    BY <1>7 DEF p, q

\* The alternative a & b holds, from those of its operands.
Joins(V, W, a, b) == IF V = Void THEN b ELSE IF W = Void THEN a ELSE fold(a, b)

LEMMA JoinsAssociate ==
    ASSUME NEW U \in ValueSides, NEW V \in ValueSides, NEW W \in ValueSides,
           NEW a \in Alternatives, NEW b \in Alternatives, NEW c \in Alternatives
    PROVE  Joins(joined(U, V), W, Joins(U, V, a, b), c) = Joins(U, joined(V, W), a, Joins(V, W, b, c))
<1>1. joined(U, V) = Void <=> U = Void /\ V = Void
    <2>1. U # Void \/ V # Void => joined(U, V) # Void
        BY PayloadOrVoid, JoinedSide
    <2> QED
        BY <2>1 DEF joined
<1>2. joined(V, W) = Void <=> V = Void /\ W = Void
    <2>1. V # Void \/ W # Void => joined(V, W) # Void
        BY PayloadOrVoid, JoinedSide
    <2> QED
        BY <2>1 DEF joined
<1>3. fold(fold(a, b), c) = fold(a, fold(b, c))
    BY FoldAssociates
<1> QED
    BY <1>1, <1>2, <1>3 DEF Joins

LEMMA AndContentForm ==
    ASSUME NEW x, NEW y
    PROVE  /\ has_value(x) /\ has_value(y) =>
                  and_content(x, y) = Holding("value",
                                              Joins(x.type.value, y.type.value,
                                                    x.content.alternative, y.content.alternative),
                                              x.content.payload \o y.content.payload)
           /\ ~has_value(x) => and_content(x, y) = x.content
           /\ has_value(x) /\ ~has_value(y) => and_content(x, y) = y.content
BY Zenon DEF and_content, leftmost_error, Joins

\* A record of an operator's result.
LEMMA AndParts == \A x, y : And(x, y).type = and_type(x.type, y.type) /\ And(x, y).content = and_content(x, y)
BY DEF And

LEMMA OrParts == \A x, y : Or(x, y).type = or_type(x.type, y.type) /\ Or(x, y).content = or_content(x, y)
BY DEF Or

LEMMA HeldParts ==
    ASSUME NEW x, NEW a, NEW w, NEW side, x.content = Holding(side, a, w)
    PROVE  x.content.side = side /\ x.content.alternative = a /\ x.content.payload = w
BY DEF Holding

\* conjoin gives one result, from the left or from the right.
LEMMA AndAssociates ==
    ASSUME NEW x, NEW y, NEW z, Sound(x), Sound(y), Sound(z),
           and_compiles(x.type, y.type), and_compiles(And(x, y).type, z.type)
    PROVE  /\ and_compiles(y.type, z.type) /\ and_compiles(x.type, And(y, z).type)
           /\ And(And(x, y), z) = And(x, And(y, z))
<1> DEFINE p == And(x, y)
           q == And(y, z)
<1>1. x.type \in CarrierTypes /\ y.type \in CarrierTypes /\ z.type \in CarrierTypes
    BY DEF Sound
<1>2. /\ p.type = and_type(x.type, y.type) /\ p.content = and_content(x, y)
      /\ q.type = and_type(y.type, z.type) /\ q.content = and_content(y, z)
    BY AndParts
<1> HIDE DEF p, q
<1>3. and_compiles(and_type(x.type, y.type), z.type)
    BY <1>2 DEF p
<1>4. /\ and_compiles(y.type, z.type) /\ and_compiles(x.type, and_type(y.type, z.type))
      /\ and_type(and_type(x.type, y.type), z.type) = and_type(x.type, and_type(y.type, z.type))
    BY <1>1, <1>3, AndTypeAssociates
<1>5. p.type.value = joined(x.type.value, y.type.value) /\ q.type.value = joined(y.type.value, z.type.value)
    BY <1>1, <1>2, <1>4, AndType
<1>6. and_content(p, z) = and_content(x, q)
    <2>1. CASE ~has_value(x)
        <3>1. p.content = x.content /\ ~has_value(p)
            BY <1>2, <2>1, AndContentForm DEF has_value
        <3> QED
            BY <2>1, <3>1, AndContentForm
    <2>2. CASE has_value(x) /\ ~has_value(y)
        <3>1. p.content = y.content /\ ~has_value(p) /\ q.content = y.content /\ ~has_value(q)
            BY <1>2, <2>2, AndContentForm DEF has_value
        <3> QED
            BY <2>2, <3>1, AndContentForm
    <2>3. CASE has_value(x) /\ has_value(y)
        <3> DEFINE a == x.content.alternative
                   b == y.content.alternative
                   c == z.content.alternative
                   U == x.type.value
                   V == y.type.value
                   W == z.type.value
                   d == x.content.payload
                   f == y.content.payload
                   g == z.content.payload
        <3>1. p.content = Holding("value", Joins(U, V, a, b), d \o f)
            BY <1>2, <2>3, AndContentForm
        <3>2. has_value(p) /\ p.content.alternative = Joins(U, V, a, b) /\ p.content.payload = d \o f
            BY <3>1, HeldParts DEF has_value
        <3>3. CASE ~has_value(z)
            <4>1. q.content = z.content /\ ~has_value(q)
                BY <1>2, <2>3, <3>3, AndContentForm DEF has_value
            <4> QED
                BY <2>3, <3>2, <3>3, <4>1, AndContentForm
        <3>4. CASE has_value(z)
            <4>1. q.content = Holding("value", Joins(V, W, b, c), f \o g)
                BY <1>2, <2>3, <3>4, AndContentForm
            <4>2. has_value(q) /\ q.content.alternative = Joins(V, W, b, c) /\ q.content.payload = f \o g
                BY <4>1, HeldParts DEF has_value
            <4>3. Joins(joined(U, V), W, Joins(U, V, a, b), c) = Joins(U, joined(V, W), a, Joins(V, W, b, c))
                BY <1>1, JoinsAssociate, CarrierByKind, HeldIsAlternative
            <4>4. (d \o f) \o g = d \o (f \o g)
                <5>1. d \in Seq(Fields) /\ f \in Seq(Fields) /\ g \in Seq(Fields)
                    BY DEF Sound
                <5> HIDE DEF d, f, g
                <5> QED
                    BY <5>1, ConcatAssociative
            <4>5. and_content(p, z) = Holding("value", Joins(p.type.value, W, p.content.alternative, c),
                                              p.content.payload \o g)
                BY <3>2, <3>4, AndContentForm
            <4>6. and_content(x, q) = Holding("value", Joins(U, q.type.value, a, q.content.alternative),
                                              d \o q.content.payload)
                BY <2>3, <4>2, AndContentForm
            <4> HIDE DEF a, b, c, d, f, g
            <4>7. Joins(p.type.value, W, p.content.alternative, c) = Joins(U, q.type.value, a, q.content.alternative)
                BY <1>5, <3>2, <4>2, <4>3
            <4>8. p.content.payload \o g = d \o q.content.payload
                BY <3>2, <4>2, <4>4
            <4> QED
                BY <4>5, <4>6, <4>7, <4>8
        <3> QED
            BY <3>3, <3>4
    <2> QED
        BY <2>1, <2>2, <2>3
<1>7. And(p, z) = And(x, q)
    BY <1>2, <1>4, <1>6 DEF And
<1> QED
    BY <1>2, <1>4, <1>7 DEF p, q

\* The alternative a side of a sum holds, and that it enters no further than once.
Injected(a, V) == IF some_copack(V) THEN sum_element(a) ELSE a

LEMMA InjectedOnce ==
    ASSUME NEW L, NEW R, NEW a
    PROVE  /\ some_copack(L) \/ some_copack(R) => some_copack(sum(L, R))
           /\ Injected(Injected(a, L), sum(L, R)) = Injected(a, sum(L, R))
           /\ Injected(Injected(a, R), sum(L, R)) = Injected(a, sum(L, R))
<1>1. some_copack(L) \/ some_copack(R) => some_copack(sum(L, R))
    BY DEF sum, some_copack, Copack, Side
<1>2. sum_element(sum_element(a)) = sum_element(a)
    BY DEF sum_element, Pack, Unit
<1> QED
    BY <1>1, <1>2 DEF Injected

LEMMA HeldValue ==
    ASSUME NEW x, NEW a, NEW w, x.content = Holding("value", a, w)
    PROVE  has_value(x) /\ x.content.alternative = a /\ x.content.payload = w
BY HeldParts DEF has_value

\* What a | b holds, case by case.
LEMMA OrContentForm ==
    ASSUME NEW x, NEW y, NEW z, z = Or(x, y)
    PROVE  LET S == sum(x.type.value, y.type.value)
           IN  /\ has_value(x) =>
                      z.content = Holding("value", Injected(x.content.alternative, S), x.content.payload)
               /\ ~has_value(x) /\ has_value(y) =>
                      z.content = Holding("value", Injected(y.content.alternative, S), y.content.payload)
               /\ ~has_value(x) /\ ~has_value(y) /\ x.type.kind = "optional" => z.content = x.content
               /\ ~has_value(x) /\ ~has_value(y) /\ x.type.kind # "optional" =>
                      z.content = Holding("error", fold(x.content.alternative, y.content.alternative),
                                          x.content.payload \o y.content.payload)
<1> DEFINE S == sum(x.type.value, y.type.value)
<1>1. ASSUME NEW w
      PROVE  inject(w, S) = Holding("value", Injected(w.content.alternative, S), w.content.payload)
    BY DEF inject, Injected
<1>2. z.content = IF has_value(x) THEN inject(x, S)
                  ELSE IF has_value(y) THEN inject(y, S)
                  ELSE IF x.type.kind = "optional" THEN x.content
                  ELSE Holding("error", fold(x.content.alternative, y.content.alternative),
                               x.content.payload \o y.content.payload)
    <2>1. z.content = or_content(x, y)
        BY OrParts
    <2> QED
        BY <2>1 DEF or_content
<1>3. inject(x, S) = Holding("value", Injected(x.content.alternative, S), x.content.payload)
    BY <1>1
<1>4. inject(y, S) = Holding("value", Injected(y.content.alternative, S), y.content.payload)
    BY <1>1
<1> HIDE DEF S
<1> QED
    BY <1>2, <1>3, <1>4 DEF S

LEMMA ErrorsMultiply ==
    ASSUME NEW x, NEW y, NEW z, z = Or(x, y),
           ~has_value(x), ~has_value(y), x.type.kind # "optional"
    PROVE  /\ z.content = Holding("error", fold(x.content.alternative, y.content.alternative),
                                  x.content.payload \o y.content.payload)
           /\ z.content.alternative = fold(x.content.alternative, y.content.alternative)
           /\ z.content.payload = x.content.payload \o y.content.payload
<1> DEFINE e == fold(x.content.alternative, y.content.alternative)
           w == x.content.payload \o y.content.payload
<1>1. z.content = Holding("error", e, w)
    BY OrContentForm
<1> HIDE DEF e, w
<1>2. z.content = Holding("error", e, w) /\ z.content.alternative = e /\ z.content.payload = w
    BY <1>1, HeldParts
<1> QED
    BY <1>2 DEF e, w

\* Three failures: none of the operands is total, and their kinds agree.
LEMMA FailuresAgree ==
    ASSUME NEW x, NEW y, Sound(x), Sound(y), ~has_value(x), ~has_value(y),
           or_compiles(x.type, y.type)
    PROVE  /\ x.type.kind = y.type.kind
           /\ Or(x, y).type.kind = x.type.kind
           /\ ~has_value(Or(x, y))
<1>1. ~cluster_operand(x.type) /\ ~cluster_operand(y.type)
    BY FailedCanFail
<1>2. x.type.kind = y.type.kind
    BY <1>1 DEF or_compiles
<1>3. x.type \in CarrierTypes /\ y.type \in CarrierTypes
    BY DEF Sound
<1>4. or_type(x.type, y.type).kind = x.type.kind
    BY <1>1, <1>3, OrSides
<1>5. Or(x, y).type.kind = x.type.kind
    BY <1>4, OrParts
<1> DEFINE p == Or(x, y)
<1>6. p = Or(x, y)
    OBVIOUS
<1> HIDE DEF p
<1>7. ~has_value(p)
    <2>1. CASE x.type.kind = "optional"
        BY <1>6, <2>1, OrContentForm DEF has_value
    <2>2. CASE x.type.kind # "optional"
        <3>1. p.content = Holding("error", fold(x.content.alternative, y.content.alternative),
                                  x.content.payload \o y.content.payload)
            BY <1>6, <2>2, OrContentForm
        <3> QED
            BY <3>1, HeldParts DEF has_value
    <2> QED
        BY <2>1, <2>2
<1> QED
    BY <1>2, <1>5, <1>7 DEF p

\* disjoin gives one result, from the left or from the right, wherever both compile.
LEMMA OrAssociates ==
    ASSUME NEW x, NEW y, NEW z, Sound(x), Sound(y), Sound(z),
           or_compiles(x.type, y.type), or_compiles(Or(x, y).type, z.type),
           or_compiles(y.type, z.type), or_compiles(x.type, Or(y, z).type)
    PROVE  Or(Or(x, y), z) = Or(x, Or(y, z))
<1> DEFINE p == Or(x, y)
           q == Or(y, z)
           u == Or(p, z)
           w == Or(x, q)
<1>1. x.type \in CarrierTypes /\ y.type \in CarrierTypes /\ z.type \in CarrierTypes
    BY DEF Sound
<1>2. p.type = or_type(x.type, y.type) /\ q.type = or_type(y.type, z.type)
    BY OrParts
<1>3. or_type(p.type, z.type) = or_type(x.type, q.type)
    <2>1. or_compiles(or_type(x.type, y.type), z.type) /\ or_compiles(x.type, or_type(y.type, z.type))
        BY OrParts
    <2>2. or_type(or_type(x.type, y.type), z.type) = or_type(x.type, or_type(y.type, z.type))
        BY <1>1, <2>1, OrTypeAssociates
    <2> HIDE DEF p, q
    <2> QED
        BY <1>2, <2>2
<1> DEFINE U == x.type.value
           V == y.type.value
           W == z.type.value
           T == sum(sum(U, V), W)
           a == x.content.alternative
           b == y.content.alternative
           c == z.content.alternative
           d == x.content.payload
           f == y.content.payload
           g == z.content.payload
<1>4. p = Or(x, y) /\ q = Or(y, z) /\ u = Or(p, z) /\ w = Or(x, q)
    OBVIOUS
<1>5. ~has_value(x) /\ ~has_value(y) => ~has_value(p) /\ p.type.kind = x.type.kind /\ x.type.kind = y.type.kind
    BY FailuresAgree
<1>6. ~has_value(y) /\ ~has_value(z) => ~has_value(q)
    BY FailuresAgree
<1> HIDE DEF p, q, u, w
<1>7. sum(p.type.value, W) = T /\ sum(U, q.type.value) = T
    <2>1. p.type.value = sum(U, V) /\ q.type.value = sum(V, W)
        BY <1>1, <1>2, OrType
    <2>2. T = sum(U, sum(V, W))
        BY <1>1, SumAssociates, CarrierByKind
    <2>3. sum(p.type.value, W) = T
        BY <2>1
    <2>4. sum(U, q.type.value) = sum(U, sum(V, W))
        BY <2>1
    <2> QED
        BY <2>2, <2>3, <2>4
<1>8. /\ Injected(Injected(a, sum(U, V)), T) = Injected(a, T)
      /\ Injected(Injected(b, sum(U, V)), T) = Injected(b, T)
    BY InjectedOnce
<1>9. /\ Injected(Injected(b, sum(V, W)), T) = Injected(b, T)
      /\ Injected(Injected(c, sum(V, W)), T) = Injected(c, T)
    <2>1. T = sum(U, sum(V, W))
        BY <1>1, SumAssociates, CarrierByKind
    <2> HIDE DEF T
    <2> QED
        BY <2>1, InjectedOnce
<1> HIDE DEF T
<1>10. u.content = w.content
    <2>1. CASE has_value(x)
        <3>1. p.content = Holding("value", Injected(a, sum(U, V)), d)
            BY <1>4, <2>1, OrContentForm
        <3>2. has_value(p) /\ p.content.alternative = Injected(a, sum(U, V)) /\ p.content.payload = d
            BY <3>1, HeldValue
        <3>3. u.content = Holding("value", Injected(p.content.alternative, T), p.content.payload)
            BY <1>4, <1>7, <3>2, OrContentForm
        <3>4. w.content = Holding("value", Injected(a, T), d)
            BY <1>4, <1>7, <2>1, OrContentForm
        <3> QED
            BY <1>8, <3>2, <3>3, <3>4
    <2>2. CASE ~has_value(x) /\ has_value(y)
        <3>1. p.content = Holding("value", Injected(b, sum(U, V)), f)
            BY <1>4, <2>2, OrContentForm
        <3>2. has_value(p) /\ p.content.alternative = Injected(b, sum(U, V)) /\ p.content.payload = f
            BY <3>1, HeldValue
        <3>3. u.content = Holding("value", Injected(p.content.alternative, T), p.content.payload)
            BY <1>4, <1>7, <3>2, OrContentForm
        <3>4. q.content = Holding("value", Injected(b, sum(V, W)), f)
            BY <1>4, <2>2, OrContentForm
        <3>5. has_value(q) /\ q.content.alternative = Injected(b, sum(V, W)) /\ q.content.payload = f
            BY <3>4, HeldValue
        <3>6. w.content = Holding("value", Injected(q.content.alternative, T), q.content.payload)
            BY <1>4, <1>7, <2>2, <3>5, OrContentForm
        <3> QED
            BY <1>8, <1>9, <3>2, <3>3, <3>5, <3>6
    <2>3. CASE ~has_value(x) /\ ~has_value(y) /\ has_value(z)
        <3>1. u.content = Holding("value", Injected(c, T), g)
            BY <1>4, <1>5, <1>7, <2>3, OrContentForm
        <3>2. q.content = Holding("value", Injected(c, sum(V, W)), g)
            BY <1>4, <2>3, OrContentForm
        <3>3. has_value(q) /\ q.content.alternative = Injected(c, sum(V, W)) /\ q.content.payload = g
            BY <3>2, HeldValue
        <3>4. w.content = Holding("value", Injected(q.content.alternative, T), q.content.payload)
            BY <1>4, <1>7, <2>3, <3>3, OrContentForm
        <3> QED
            BY <1>9, <3>1, <3>3, <3>4
    <2>4. CASE ~has_value(x) /\ ~has_value(y) /\ ~has_value(z)
        <3>1. CASE x.type.kind = "optional"
            <4>1. p.content = x.content
                BY <1>4, <2>4, <3>1, OrContentForm
            <4>2. u.content = p.content
                BY <1>4, <1>5, <2>4, <3>1, OrContentForm
            <4>3. w.content = x.content
                BY <1>4, <1>6, <2>4, <3>1, OrContentForm
            <4> QED
                BY <4>1, <4>2, <4>3
        <3>2. CASE x.type.kind # "optional"
            <4>1. p.content.alternative = fold(a, b) /\ p.content.payload = d \o f
                BY <1>4, <2>4, <3>2, ErrorsMultiply
            <4>2. u.content = Holding("error", fold(p.content.alternative, c), p.content.payload \o g)
                BY <1>4, <1>5, <2>4, <3>2, ErrorsMultiply
            <4>3. y.type.kind # "optional"
                BY <1>5, <2>4, <3>2
            <4>4. q.content.alternative = fold(b, c) /\ q.content.payload = f \o g
                BY <1>4, <2>4, <4>3, ErrorsMultiply
            <4>5. w.content = Holding("error", fold(a, q.content.alternative), d \o q.content.payload)
                BY <1>4, <1>6, <2>4, <3>2, ErrorsMultiply
            <4>6. fold(fold(a, b), c) = fold(a, fold(b, c))
                BY HeldIsAlternative, FoldAssociates
            <4>7. (d \o f) \o g = d \o (f \o g)
                <5>1. d \in Seq(Fields) /\ f \in Seq(Fields) /\ g \in Seq(Fields)
                    BY DEF Sound
                <5> HIDE DEF d, f, g
                <5> QED
                    BY <5>1, ConcatAssociative
            <4> HIDE DEF a, b, c, d, f, g
            <4> QED
                BY <4>1, <4>2, <4>4, <4>5, <4>6, <4>7
        <3> QED
            BY <3>1, <3>2
    <2> QED
        BY <2>1, <2>2, <2>3, <2>4
<1>11. or_content(p, z) = or_content(x, q)
    BY <1>4, <1>10, OrParts
<1>12. Or(p, z) = Or(x, q)
    BY <1>3, <1>11 DEF Or
<1> QED
    BY <1>12 DEF p, q

(***************************************************************************)
(* A fold of three.                                                        *)
(***************************************************************************)
\* The inductive invariant of short folds: the result is that of the operators,
\* taken from the left, and each of them compiled.
Folded == /\ \A i \in 1..Len(operands) : Sound(operands[i])
          /\ ops \in Seq({"&", "|"}) /\ Len(ops) = Len(operands) - 1
          /\ Len(operands) = 1 => result = operands[1]
          /\ Len(operands) = 2 => /\ Compiles(ops[1], operands[1], operands[2])
                                  /\ result = Apply(ops[1], operands[1], operands[2])
          /\ Len(operands) = 3 =>
                 LET first == Apply(ops[1], operands[1], operands[2])
                 IN  /\ Compiles(ops[1], operands[1], operands[2])
                     /\ Compiles(ops[2], first, operands[3])
                     /\ result = Apply(ops[2], first, operands[3])

LEMMA StepFolds ==
    ASSUME Inv, Folded, NEW op \in {"&", "|"}, Operate(op)
    PROVE  Folded'
<1> DEFINE n == Len(operands)
<1>1. PICK y \in OperandsAt(n + 1) :
          /\ Compiles(op, result, y) /\ operands' = Append(operands, y)
          /\ ops' = Append(ops, op) /\ result' = Apply(op, result, y)
    BY DEF Operate
<1>2. n \in Nat /\ n >= 1
    BY MaxOperandsAssumption DEF Inv, Sequenced
<1>3. Sound(y)
    BY <1>2, OperandIsSound
<1>4. /\ Len(operands') = n + 1
      /\ operands'[n + 1] = y
      /\ \A i \in 1..n : operands'[i] = operands[i]
    <2>1. operands \in Seq(UNION {OperandsAt(i) : i \in Nat})
        BY DEF Inv, Sequenced
    <2>2. y \in UNION {OperandsAt(i) : i \in Nat}
        BY <1>2
    <2> QED
        BY <1>1, <2>1, <2>2, AppendProperties
<1>5. /\ ops' \in Seq({"&", "|"}) /\ Len(ops') = n
      /\ ops'[n] = op
      /\ \A i \in 1..n - 1 : ops'[i] = ops[i]
    <2>1. ops \in Seq({"&", "|"}) /\ Len(ops) = n - 1
        BY DEF Folded
    <2>2. /\ Append(ops, op) \in Seq({"&", "|"}) /\ Len(Append(ops, op)) = (n - 1) + 1
          /\ Append(ops, op)[(n - 1) + 1] = op
          /\ \A i \in 1..n - 1 : Append(ops, op)[i] = ops[i]
        BY <2>1, AppendProperties
    <2> HIDE DEF n
    <2> QED
        BY <1>1, <1>2, <2>2
<1> DEFINE first == Apply(ops[1], operands[1], operands[2])
           first2 == Apply(ops'[1], operands'[1], operands'[2])
<1>6. \A i \in 1..Len(operands') : Sound(operands'[i])
    <2>1. \A i \in 1..n : Sound(operands[i])
        BY DEF Folded
    <2> HIDE DEF n
    <2>2. ASSUME NEW i \in 1..n + 1 PROVE Sound(operands'[i])
        <3>1. CASE i = n + 1
            BY <1>3, <1>4, <3>1
        <3>2. CASE i # n + 1
            <4>1. i \in 1..n
                BY <1>2, <3>2
            <4>2. operands'[i] = operands[i] /\ Sound(operands[i])
                BY <1>4, <2>1, <4>1
            <4> QED
                BY <4>2
        <3> QED
            BY <3>1, <3>2
    <2> QED
        BY <1>4, <2>2
<1>7. ASSUME Len(operands') = 2
      PROVE  /\ Compiles(ops'[1], operands'[1], operands'[2])
             /\ result' = Apply(ops'[1], operands'[1], operands'[2])
    <2>1. n = 1
        <3> DEFINE m == Len(operands')
        <3>1. m = n + 1 /\ m = 2
            BY <1>4, <1>7
        <3> HIDE DEF n, m
        <3> QED
            BY <1>2, <3>1
    <2>2. result = operands[1]
        BY <2>1 DEF Folded
    <2>3. operands'[1] = operands[1] /\ operands'[2] = y /\ ops'[1] = op
        BY <1>4, <1>5, <2>1
    <2> QED
        BY <1>1, <2>2, <2>3, Zenon
<1>8. ASSUME Len(operands') = 3
      PROVE  /\ Compiles(ops'[1], operands'[1], operands'[2])
             /\ Compiles(ops'[2], first2, operands'[3])
             /\ result' = Apply(ops'[2], first2, operands'[3])
    <2>1. n = 2
        <3> DEFINE m == Len(operands')
        <3>1. m = n + 1 /\ m = 3
            BY <1>4, <1>8
        <3> HIDE DEF n, m
        <3> QED
            BY <1>2, <3>1
    <2>2. Compiles(ops[1], operands[1], operands[2]) /\ result = first
        BY <2>1 DEF Folded
    <2>3. /\ operands'[1] = operands[1] /\ operands'[2] = operands[2] /\ operands'[3] = y
          /\ ops'[1] = ops[1] /\ ops'[2] = op
        BY <1>4, <1>5, <2>1
    <2> QED
        BY <1>1, <2>2, <2>3, Zenon
<1> HIDE DEF n
<1>9. Len(operands') # 1 /\ Len(ops') = Len(operands') - 1
    BY <1>2, <1>4, <1>5
<1> QED
    BY <1>5, <1>6, <1>7, <1>8, <1>9 DEF Folded

LEMMA FoldedHolds == Spec => []Folded
<1>1. Init => Folded
    <2> SUFFICES ASSUME Init PROVE Folded
        OBVIOUS
    <2>1. PICK x \in OperandsAt(1) : operands = <<x>> /\ ops = <<>> /\ result = x
        BY DEF Init
    <2>2. Sound(x)
        BY OperandIsSound
    <2>3. Len(operands) = 1 /\ operands[1] = x /\ Len(ops) = 0 /\ ops \in Seq({"&", "|"})
        BY <2>1
    <2> QED
        BY <2>1, <2>2, <2>3 DEF Folded
<1>2. Inv /\ Folded /\ [Next]_vars => Folded'
    <2> SUFFICES ASSUME Inv, Folded, [Next]_vars PROVE Folded'
        OBVIOUS
    <2>1. CASE Conjoin
        BY <2>1, StepFolds DEF Conjoin
    <2>2. CASE Disjoin
        BY <2>2, StepFolds DEF Disjoin
    <2>3. CASE UNCHANGED vars
        BY <2>3 DEF vars, Folded
    <2> QED
        BY <2>1, <2>2, <2>3 DEF Next
<1> QED
    BY <1>1, <1>2, InvHolds, PTL DEF Spec

\* conjoin and disjoin may be nested either way (TYPE_ALGEBRA, section 6): the type
\* agrees to the form of each side and so does what is held, whatever the payloads
\* and whichever overloads take them, and a conjunction that compiles one way
\* compiles the other.
THEOREM FoldsAlwaysAssociate == Spec => []FoldsAssociate
<1>1. Folded => FoldsAssociate
    <2> SUFFICES ASSUME Folded, Len(operands) = 3, NEW op \in {"&", "|"}, ops = <<op, op>>
                 PROVE  /\ op = "&" => RegroupedCompiles(op)
                        /\ RegroupedCompiles(op) => Regrouped(op) = result
        BY DEF FoldsAssociate
    <2> DEFINE x == operands[1]
               y == operands[2]
               z == operands[3]
    <2>1. ops[1] = op /\ ops[2] = op
        OBVIOUS
    <2>2. Sound(x) /\ Sound(y) /\ Sound(z)
        BY DEF Folded
    <2>3. Compiles(op, x, y) /\ Compiles(op, Apply(op, x, y), z) /\ result = Apply(op, Apply(op, x, y), z)
        BY <2>1 DEF Folded
    <2>4. /\ RegroupedCompiles(op) <=> Compiles(op, y, z) /\ Compiles(op, x, Apply(op, y, z))
          /\ Regrouped(op) = Apply(op, x, Apply(op, y, z))
        BY DEF RegroupedCompiles, Regrouped
    <2> HIDE DEF x, y, z
    <2>5. CASE op = "&"
        <3>1. /\ and_compiles(x.type, y.type) /\ and_compiles(And(x, y).type, z.type)
              /\ result = And(And(x, y), z)
            BY <2>3, <2>5 DEF Compiles, Apply
        <3>2. /\ and_compiles(y.type, z.type) /\ and_compiles(x.type, And(y, z).type)
              /\ And(And(x, y), z) = And(x, And(y, z))
            BY <2>2, <3>1, AndAssociates
        <3>3. Compiles(op, y, z) /\ Compiles(op, x, Apply(op, y, z))
            BY <2>5, <3>2 DEF Compiles, Apply
        <3>4. Apply(op, x, Apply(op, y, z)) = And(x, And(y, z))
            BY <2>5 DEF Apply
        <3> QED
            BY <2>4, <3>1, <3>2, <3>3, <3>4
    <2>6. CASE op = "|"
        <3>1. /\ or_compiles(x.type, y.type) /\ or_compiles(Or(x, y).type, z.type)
              /\ result = Or(Or(x, y), z)
            BY <2>3, <2>6 DEF Compiles, Apply
        <3>2. ASSUME Compiles(op, y, z), Compiles(op, x, Apply(op, y, z))
              PROVE  or_compiles(y.type, z.type) /\ or_compiles(x.type, Or(y, z).type)
            BY <2>6, <3>2 DEF Compiles, Apply
        <3>3. Apply(op, x, Apply(op, y, z)) = Or(x, Or(y, z))
            BY <2>6 DEF Apply
        <3>4. Compiles(op, y, z) /\ Compiles(op, x, Apply(op, y, z)) => Or(x, Or(y, z)) = result
            BY <2>2, <3>1, <3>2, OrAssociates
        <3> QED
            BY <2>4, <2>6, <3>3, <3>4
    <2> QED
        BY <2>5, <2>6
<1> QED
    BY <1>1, FoldedHolds, PTL
=============================================================================
