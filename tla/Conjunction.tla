----------------------------- MODULE Conjunction -----------------------------
(***************************************************************************)
(* operator & and operator | over carriers, and their n-ary folds conjoin  *)
(* and disjoin.  Values multiply into packs where errors add up into a     *)
(* copack, or the other way round; every pair of carriers has an overload  *)
(* of its own, void elides or becomes pack<>, equal types stay bare and    *)
(* an uninhabited side is kept from being named.                           *)
(***************************************************************************)
EXTENDS Naturals, Sequences

CONSTANTS Types,       \* the payload types
          Operands,    \* the carriers, their types
          MaxOperands  \* the bound on the length of a fold

(***************************************************************************)
(* An alternative is a scalar or a pack; a pack is flat and holds neither  *)
(* a pack nor a copack.  A side is one alternative or a copack of them.    *)
(***************************************************************************)
Scalar(t) == [pack |-> FALSE, fields |-> <<t>>]
Pack(fields) == [pack |-> TRUE, fields |-> fields]
Unit == [pack |-> FALSE, fields |-> <<>>]

Side(form, S) == [form |-> form, alternatives |-> S]
Void == Side("void", {Unit})
Empty == Side("empty", {Unit})   \* where optional has an error
NoError == Side("none", {})      \* where just and choice have one
Plain(a) == Side("plain", {a})
Copack(S) == Side("copack", S)
some_copack(side) == side.form = "copack"

Carrier(kind, value, error) == [kind |-> kind, value |-> value, error |-> error]
just(value) == Carrier("just", value, NoError)
choice(S) == Carrier("choice", Copack(S), NoError)
optional(value) == Carrier("optional", value, Empty)
expected(value, error) == Carrier("expected", value, error)

Alternatives == [pack : BOOLEAN, fields : Seq(Types)]
PayloadSides ==
    {s \in [form : {"plain", "copack"}, alternatives : SUBSET Alternatives] :
        /\ Unit \notin s.alternatives
        /\ s.form = "plain" => \E a \in s.alternatives : s = Plain(a)}
ValueSides == PayloadSides \cup {Void}
CopackSides == {s \in PayloadSides : some_copack(s)}
\* just refuses a copack, choice anything else, and choice<> is incomplete.
CarrierTypes == [kind : {"just"}, value : ValueSides \ CopackSides, error : {NoError}]
                \cup [kind : {"choice"}, value : CopackSides \ {Copack({})}, error : {NoError}]
                \cup [kind : {"optional"}, value : PayloadSides, error : {Empty}]
                \cup [kind : {"expected"}, value : ValueSides, error : PayloadSides]

ASSUME OperandsAssumption == Operands \subseteq CarrierTypes
ASSUME MaxOperandsAssumption == MaxOperands \in Nat \ {0}

in_cluster(c) == c.kind \in {"just", "choice"}
identity_expected(c) == c.kind = "expected" /\ c.error = Copack({})
cluster_operand(c) == in_cluster(c) \/ identity_expected(c)

(***************************************************************************)
(* Products and sums.                                                      *)
(***************************************************************************)
fold(l, r) == Pack(l.fields \o r.fields)
\* Mutant: a copack on the right is distributed over as if it were on the left.
ProductSwaps(L, R) ==
    Side(IF some_copack(L) \/ some_copack(R) THEN "copack" ELSE "plain",
         {IF some_copack(R) THEN fold(r, l) ELSE fold(l, r) : l \in L.alternatives, r \in R.alternatives})
product(L, R) ==
    Side(IF some_copack(L) \/ some_copack(R) THEN "copack" ELSE "plain",
         {fold(l, r) : l \in L.alternatives, r \in R.alternatives})
joined(L, R) == IF L = Void THEN R ELSE IF R = Void THEN L ELSE product(L, R)

sum_element(a) == IF a = Unit THEN Pack(<<>>) ELSE a
\* Mutant: void is an alternative like any other.
SumHoldsVoid(L, R) == IF L = R THEN L ELSE Copack(L.alternatives \cup R.alternatives)
sum(L, R) == IF L = R THEN L
             ELSE Copack({sum_element(a) : a \in L.alternatives \cup R.alternatives})

(***************************************************************************)
(* The types of a & b and a | b.                                           *)
(***************************************************************************)
total(value) == Carrier(IF some_copack(value) THEN "choice" ELSE "just", value, NoError)

and_compiles(l, r) ==
    "optional" \in {l.kind, r.kind} =>
        \A c \in {l, r} : c.kind = "optional" \/ cluster_operand(c)
and_type(l, r) ==
    LET value == joined(l.value, r.value)
    IN  IF "optional" \in {l.kind, r.kind} THEN optional(value)
        ELSE IF in_cluster(l) /\ in_cluster(r) THEN total(value)
        ELSE IF in_cluster(l) THEN expected(value, r.error)
        ELSE IF in_cluster(r) THEN expected(value, l.error)
        ELSE expected(value, sum(l.error, r.error))

\* A total result needs a value: there is no choice<> to hold none.
or_compiles(l, r) ==
    IF cluster_operand(l) \/ cluster_operand(r) THEN sum(l.value, r.value) # Copack({})
    ELSE l.kind = r.kind
or_type(l, r) ==
    LET value == sum(l.value, r.value)
    IN  IF cluster_operand(l) \/ cluster_operand(r) THEN total(value)
        ELSE IF l.kind = "optional" THEN optional(value)
        ELSE expected(value, product(l.error, r.error))

(***************************************************************************)
(* What a carrier holds, and what the result of an operator does.          *)
(***************************************************************************)
Holding(side, a, payload) == [side |-> side, alternative |-> a, payload |-> payload]
has_value(x) == x.content.side = "value"

\* Mutant: the last operand is asked first.
RightmostError(x, y) == IF ~has_value(y) THEN y.content ELSE x.content
leftmost_error(x, y) == IF ~has_value(x) THEN x.content ELSE y.content
and_content(x, y) ==
    IF has_value(x) /\ has_value(y)
    THEN Holding("value", IF x.type.value = Void THEN y.content.alternative
                          ELSE IF y.type.value = Void THEN x.content.alternative
                          ELSE fold(x.content.alternative, y.content.alternative),
                 x.content.payload \o y.content.payload)
    ELSE leftmost_error(x, y)

\* Mutant: a void operand enters a sum as it is.
InjectsVoid(x, value) == Holding("value", x.content.alternative, x.content.payload)
\* The value of an operand, injected by type.
inject(x, value) ==
    Holding("value", IF some_copack(value) THEN sum_element(x.content.alternative)
                     ELSE x.content.alternative, x.content.payload)
or_content(x, y) ==
    IF has_value(x) THEN inject(x, sum(x.type.value, y.type.value))
    ELSE IF has_value(y) THEN inject(y, sum(x.type.value, y.type.value))
    ELSE IF x.type.kind = "optional" THEN x.content
    ELSE Holding("error", fold(x.content.alternative, y.content.alternative),
                 x.content.payload \o y.content.payload)

And(x, y) == [type |-> and_type(x.type, y.type), content |-> and_content(x, y)]
Or(x, y) == [type |-> or_type(x.type, y.type), content |-> or_content(x, y)]
Compiles(op, x, y) == IF op = "&" THEN and_compiles(x.type, y.type) ELSE or_compiles(x.type, y.type)
Apply(op, x, y) == IF op = "&" THEN And(x, y) ELSE Or(x, y)

(***************************************************************************)
(* A fold from the left.  Every field of an operand remembers its type and *)
(* the position of the operand it comes from.                              *)
(***************************************************************************)
VARIABLES operands,  \* the carriers folded so far
          ops,       \* the operators between them
          result

vars == <<operands, ops, result>>

Payload(a, i) == [j \in DOMAIN a.fields |-> [type |-> a.fields[j], from |-> i]]
Contents(type, i) ==
    {Holding("value", a, Payload(a, i)) : a \in type.value.alternatives}
    \cup {Holding("error", a, Payload(a, i)) : a \in type.error.alternatives}
OperandsAt(i) == UNION {{[type |-> type, content |-> x] : x \in Contents(type, i)} : type \in Operands}

Init == \E x \in OperandsAt(1) : operands = <<x>> /\ ops = <<>> /\ result = x

Operate(op) ==
    /\ Len(operands) < MaxOperands
    /\ \E y \in OperandsAt(Len(operands) + 1) :
          /\ Compiles(op, result, y)
          /\ operands' = Append(operands, y)
          /\ ops' = Append(ops, op)
          /\ result' = Apply(op, result, y)

Conjoin == Operate("&")
Disjoin == Operate("|")

Next == Conjoin \/ Disjoin

Spec == Init /\ [][Next]_vars

(***************************************************************************)
(* Properties.                                                             *)
(***************************************************************************)
\* Carriers are closed under & and |: no optional<void>, no void in a copack, no error
\* in just and choice, no just over a copack, no choice of anything else or of nothing.
TypeOK == result.type \in CarrierTypes

\* The type of a result has room for what it holds: the alternative is one of its
\* side's, and every field of a pack has the type its place in the pack names,
\* whichever operand it came from.
ContentFits ==
    LET x == result.content
    IN  /\ x.alternative \in result.type[x.side].alternatives
        /\ x.alternative.fields = [j \in DOMAIN x.payload |-> x.payload[j].type]

\* conjoin and disjoin fold from the left.  Nested from the right, the same operands
\* have the same type, to the form of each side, and hold the same in it
\* (TYPE_ALGEBRA, section 6: the structure is strict).  A conjunction that compiles
\* one way compiles the other.
Regrouped(op) == Apply(op, operands[1], Apply(op, operands[2], operands[3]))
RegroupedCompiles(op) == /\ Compiles(op, operands[2], operands[3])
                         /\ Compiles(op, operands[1], Apply(op, operands[2], operands[3]))
FoldsAssociate ==
    Len(operands) = 3 => \A op \in {"&", "|"} :
        ops = <<op, op>> => /\ op = "&" => RegroupedCompiles(op)
                            /\ RegroupedCompiles(op) => Regrouped(op) = result

\* pack<> is the unit of the product: pack<> & A is the same type as A
\* (TYPE_ALGEBRA, section 6).
PackUnitIsStrict ==
    result.type.value # Void => product(Plain(Pack(<<>>)), result.type.value) = result.type.value

\* & and | are the product and the sum of a semiring on either side.
Words(side) == {a.fields : a \in side.alternatives}
Live(x) == [side |-> x.side, word |-> x.alternative.fields, payload |-> x.payload]
Forget(x) == [value |-> Words(x.type.value), error |-> Words(x.type.error), live |-> Live(x.content)]
Semiring == INSTANCE SemiringSpec WITH
               Offered <- [i \in 1..MaxOperands |-> {Forget(x) : x \in OperandsAt(i)}],
               value <- Words(result.type.value),
               error <- Words(result.type.error),
               live <- Live(result.content),
               position <- Len(operands)
ImplementsSemiring == Semiring!Spec
=============================================================================
