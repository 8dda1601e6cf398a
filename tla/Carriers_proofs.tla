--------------------------- MODULE Carriers_proofs ---------------------------
(***************************************************************************)
(* Facts about canonical lists, sides and joins, for any finite set of     *)
(* payload types.                                                          *)
(***************************************************************************)
EXTENDS Verbs, FiniteSetTheorems, TLAPS

Copacks == {Copack(S) : S \in SUBSET Types}
Sides == PayloadSides \cup {Void, None, NoError}
United(sides) == UNION {Alternatives(s) : s \in sides}

(***************************************************************************)
(* Canonical lists.                                                        *)
(***************************************************************************)
UpTo(S, t) == {u \in S : u <= t}

\* A member's rank, the number of members up to it, is one of the positions.
LEMMA RankInRange ==
    ASSUME NEW S \in SUBSET Nat, IsFiniteSet(S), NEW t \in S
    PROVE  /\ IsFiniteSet(UpTo(S, t))
           /\ Cardinality(UpTo(S, t)) \in 1..Cardinality(S)
<1>1. UpTo(S, t) \in SUBSET S BY DEF UpTo
<1>2. t \in UpTo(S, t) BY DEF UpTo
<1>3. /\ IsFiniteSet(UpTo(S, t))
      /\ Cardinality(UpTo(S, t)) <= Cardinality(S)
    BY <1>1, FS_Subset
<1>4. Cardinality(UpTo(S, t)) \in Nat /\ Cardinality(S) \in Nat BY <1>3, FS_CardinalityType
<1>5. Cardinality(UpTo(S, t)) # 0 BY <1>2, <1>3, FS_EmptySet
<1> QED BY <1>3, <1>4, <1>5

\* Two members have two ranks.
LEMMA RankSeparates ==
    ASSUME NEW S \in SUBSET Nat, IsFiniteSet(S), NEW s \in S, NEW t \in S,
           Cardinality(UpTo(S, s)) = Cardinality(UpTo(S, t))
    PROVE  s = t
<1>1. ASSUME NEW x \in S, NEW y \in S, x < y,
             Cardinality(UpTo(S, x)) = Cardinality(UpTo(S, y))
      PROVE  FALSE
    <2> \A u \in S : u \in Nat OBVIOUS
    <2> \A u \in S : u <= x => u <= y BY <1>1
    <2>1. UpTo(S, x) \in SUBSET UpTo(S, y) BY DEF UpTo
    <2>2. IsFiniteSet(UpTo(S, y)) BY RankInRange
    <2>3. UpTo(S, y) = UpTo(S, x) BY <1>1, <2>1, <2>2, FS_Subset
    <2>4. y \in UpTo(S, y) /\ y \notin UpTo(S, x) BY <1>1 DEF UpTo
    <2> QED BY <2>3, <2>4
<1>2. s \in Nat /\ t \in Nat OBVIOUS
<1> QED BY <1>1, <1>2

\* A canonical list holds what it was made of.
LEMMA NormalizedHolds ==
    ASSUME NEW S \in SUBSET Nat, IsFiniteSet(S)
    PROVE  Range(normalized(S)) = S
<1> DEFINE n == Cardinality(S)
           rank == [t \in S |-> Cardinality(UpTo(S, t))]
<1>1. n \in Nat BY FS_CardinalityType
<1>2. rank \in [S -> 1..n] BY RankInRange
<1>3. \A s, t \in S : rank[s] = rank[t] => s = t BY RankSeparates
<1>4. rank \in Injection(S, 1..n) BY <1>2, <1>3 DEF Injection, IsInjective
<1>5. IsFiniteSet(1..n) /\ Cardinality(1..n) = n BY <1>1, FS_Interval
<1>6. rank \in Surjection(S, 1..n) BY <1>4, <1>5, FS_Injection
<1>7. \A i \in 1..n : \E t \in S : rank[t] = i BY <1>6 DEF Surjection
<1>8. normalized(S) = [i \in 1..n |-> CHOOSE t \in S : Cardinality(UpTo(S, t)) = i]
    BY DEF normalized, UpTo
<1>9. \A i \in 1..n : normalized(S)[i] \in S /\ rank[normalized(S)[i]] = i
    BY <1>7, <1>8
<1>10. DOMAIN normalized(S) = 1..n BY <1>8
<1>11. \A t \in S : rank[t] \in 1..n /\ normalized(S)[rank[t]] = t
    <2> HIDE DEF rank, n
    <2>1. TAKE t \in S
    <2>2. rank[t] \in 1..n BY <1>2
    <2>3. normalized(S)[rank[t]] \in S /\ rank[normalized(S)[rank[t]]] = rank[t] BY <1>9, <2>2
    <2> QED BY <1>3, <2>2, <2>3
<1> QED BY <1>9, <1>10, <1>11 DEF Range

(***************************************************************************)
(* Sides.                                                                  *)
(***************************************************************************)
LEMMA ListHolds ==
    ASSUME NEW S \in SUBSET (Types \cup {Unit})
    PROVE  Range(normalized(S)) = S
<1>1. IsFiniteSet(Types \cup {Unit})
    BY CarriersAssumption, FS_Singleton, FS_Union DEF Unit
<1>2. IsFiniteSet(S) BY <1>1, FS_Subset
<1>3. S \in SUBSET Nat BY CarriersAssumption DEF Unit
<1> QED BY <1>2, <1>3, NormalizedHolds

\* A copack of a set has the types of the set as alternatives.
LEMMA CopackHolds ==
    ASSUME NEW S \in SUBSET (Types \cup {Unit})
    PROVE  Copack(S).form = "copack" /\ Alternatives(Copack(S)) = S
BY ListHolds DEF Copack, Side, Alternatives

\* A plain side has one alternative, its type.
LEMMA PlainHolds ==
    ASSUME NEW t \in Types
    PROVE  Plain(t).form = "plain" /\ Alternatives(Plain(t)) = {t}
<1>1. {t} \in SUBSET (Types \cup {Unit}) OBVIOUS
<1> QED BY <1>1, ListHolds DEF Plain, Side, Alternatives

\* A void value and the empty state of an optional have one alternative, Unit; the
\* error side of just and choice has none.
LEMMA EmptySidesHold ==
    /\ Void.form = "void" /\ Alternatives(Void) = {Unit}
    /\ None.form = "none" /\ Alternatives(None) = {Unit}
    /\ NoError.form = "nothing" /\ Alternatives(NoError) = {}
    /\ Absent.form = "absent"
<1>1. {Unit} \in SUBSET (Types \cup {Unit}) /\ {} \in SUBSET (Types \cup {Unit}) OBVIOUS
<1> QED BY <1>1, ListHolds DEF Void, None, NoError, Absent, Side, Alternatives

\* A side is told by its form and its alternatives.
LEMMA SideForms ==
    ASSUME NEW s \in Sides
    PROVE  \/ s.form = "copack" /\ s \in Copacks /\ s = Copack(Alternatives(s))
              /\ Alternatives(s) \in SUBSET Types
           \/ s.form = "plain" /\ \E t \in Types : s = Plain(t) /\ Alternatives(s) = {t}
           \/ s.form = "void" /\ s = Void /\ Alternatives(s) = {Unit}
           \/ s.form = "none" /\ s = None /\ Alternatives(s) = {Unit}
           \/ s.form = "nothing" /\ s = NoError /\ Alternatives(s) = {}
<1>1. CASE s \in {Plain(t) : t \in Types} BY <1>1, PlainHolds
<1>2. CASE s \in Copacks
    <2>1. PICK S \in SUBSET Types : s = Copack(S) BY <1>2 DEF Copacks
    <2>2. S \in SUBSET (Types \cup {Unit}) OBVIOUS
    <2> QED BY <1>2, <2>1, <2>2, CopackHolds
<1>3. CASE s \in {Void, None, NoError} BY <1>3, EmptySidesHold
<1> QED BY <1>1, <1>2, <1>3 DEF Sides, PayloadSides, Copacks

\* The kinds of side, and that the absent one is none of them.
LEMMA CopacksAreSides ==
    /\ Copacks \subseteq PayloadSides
    /\ PayloadSides \subseteq Sides /\ ValueSides \subseteq Sides /\ ErrorSides \subseteq Sides
    /\ ValueSides = PayloadSides \cup {Void} /\ ErrorSides = PayloadSides \cup {None, NoError}
    /\ Absent \notin Sides
BY SideForms, EmptySidesHold DEF Copacks, Sides, PayloadSides, ValueSides, ErrorSides

\* A copack is told from all other sides by its form.
LEMMA CopackForm == \A s \in Copacks : s.form = "copack" /\ s \notin {Void, None, NoError}
<1>1. \A S \in SUBSET Types : S \in SUBSET (Types \cup {Unit}) OBVIOUS
<1> QED BY <1>1, CopackHolds, EmptySidesHold DEF Copacks

\* What collapses into a copack is plain or a copack, and has payload types only.
LEMMA CollapsibleSides ==
    ASSUME NEW s \in Sides
    PROVE  Collapsible(s) => s \in PayloadSides /\ Alternatives(s) \in SUBSET Types
BY SideForms DEF Collapsible, PayloadSides, Copacks

(***************************************************************************)
(* Joins: where there is one, it holds what the joined sides hold.         *)
(***************************************************************************)
LEMMA CopackForHolds ==
    ASSUME NEW sides \in SUBSET Sides, copack_for(sides) # Absent
    PROVE  copack_for(sides) \in Copacks /\ Alternatives(copack_for(sides)) = United(sides)
<1>1. \A s \in sides : Collapsible(s) BY DEF copack_for
<1>2. copack_for(sides) = Copack(United(sides)) BY <1>1 DEF copack_for, United
<1>3. United(sides) \in SUBSET Types BY <1>1, CollapsibleSides DEF United
<1> QED BY <1>2, <1>3, CopackHolds DEF Copacks

\* The join of the side dispatched on, where there is one, has the types of all branches.
LEMMA ListJoinHolds ==
    ASSUME NEW sides \in SUBSET Sides, list_join(sides) # Absent
    PROVE  /\ sides = {list_join(sides)} \/ list_join(sides) \in Copacks
           /\ Alternatives(list_join(sides)) = United(sides)
<1>1. CASE \E s \in sides : sides = {s}
    <2>1. PICK s \in sides : sides = {s} BY <1>1
    <2>2. list_join(sides) = s BY <2>1 DEF list_join
    <2> QED BY <2>1, <2>2 DEF United
<1>2. CASE ~\E s \in sides : sides = {s}
    <2>1. list_join(sides) = copack_for(sides) BY <1>2 DEF list_join
    <2> QED BY <2>1, CopackForHolds
<1> QED BY <1>1, <1>2

\* The join of the carried side, where there is one, has its own types and those of all branches.
LEMMA GradedJoinHolds ==
    ASSUME NEW own \in Sides, NEW sides \in SUBSET Sides, own # NoError, graded_join(own, sides) # Absent
    PROVE  /\ \/ graded_join(own, sides) = own /\ sides \subseteq {own}
              \/ graded_join(own, sides) \in Copacks /\ own \in PayloadSides
           /\ Alternatives(graded_join(own, sides)) = Alternatives(own) \cup United(sides)
<1>1. CASE some_copack(own)
    <2>1. graded_join(own, sides) = copack_for(sides \cup {own}) BY <1>1 DEF graded_join
    <2>2. own \in PayloadSides BY <1>1, SideForms, CopacksAreSides DEF some_copack
    <2>3. sides \cup {own} \in SUBSET Sides OBVIOUS
    <2>4. United(sides \cup {own}) = Alternatives(own) \cup United(sides) BY DEF United
    <2> QED BY <2>1, <2>2, <2>3, <2>4, CopackForHolds
<1>2. CASE ~some_copack(own) /\ sides \subseteq {own}
    <2>1. graded_join(own, sides) = own BY <1>2 DEF graded_join
    <2>2. United(sides) \subseteq Alternatives(own) BY <1>2 DEF United
    <2> QED BY <1>2, <2>1, <2>2
<1>3. CASE ~some_copack(own) /\ ~(sides \subseteq {own})
    <2>1. sides \subseteq {own, Lift(own)} /\ graded_join(own, sides) = Lift(own)
        BY <1>3 DEF graded_join
    <2>2. Alternatives(own) \in SUBSET (Types \cup {Unit}) BY SideForms
    <2>3. Lift(own).form = "copack" /\ Alternatives(Lift(own)) = Alternatives(own)
        BY <2>2, CopackHolds DEF Lift
    <2>4. Lift(own) \in Sides BY <1>3, <2>1
    <2>5. Lift(own) \in Copacks /\ Alternatives(own) \in SUBSET Types
        BY <2>3, <2>4, SideForms
    <2>6. own \in PayloadSides
        <3>1. Unit \notin Types BY CarriersAssumption DEF Unit
        <3> QED BY <2>5, <3>1, SideForms, <1>3 DEF PayloadSides, some_copack
    <2>7. United(sides) \subseteq Alternatives(own) BY <2>1, <2>3 DEF United
    <2> QED BY <2>1, <2>3, <2>5, <2>6, <2>7
<1> QED BY <1>1, <1>2, <1>3

(***************************************************************************)
(* Which joins exist, and what converts to them.                           *)
(***************************************************************************)
\* There is a join of sides that are one and the same, and of sides that collapse.
LEMMA ListJoinExists ==
    ASSUME NEW sides \in SUBSET Sides
    PROVE  list_join(sides) # Absent <=> (\E s \in sides : sides = {s}) \/ (\A s \in sides : Collapsible(s))
<1>1. CASE \E s \in sides : sides = {s}
    <2>1. list_join(sides) \in sides BY <1>1 DEF list_join
    <2> QED BY <1>1, <2>1, CopacksAreSides
<1>2. CASE ~(\E s \in sides : sides = {s}) /\ \A s \in sides : Collapsible(s)
    <2>1. list_join(sides) = Copack(United(sides)) BY <1>2 DEF list_join, copack_for, United
    <2>2. United(sides) \in SUBSET (Types \cup {Unit}) BY <1>2, CollapsibleSides DEF United
    <2>3. list_join(sides).form = "copack" BY <2>1, <2>2, CopackHolds
    <2> QED BY <1>2, <2>3, EmptySidesHold
<1>3. CASE ~(\E s \in sides : sides = {s}) /\ ~\A s \in sides : Collapsible(s)
    BY <1>3 DEF list_join, copack_for
<1> QED BY <1>1, <1>2, <1>3

\* A join collapses if all it joins does, and is otherwise the one side it joins.
LEMMA ListJoinCollapses ==
    ASSUME NEW sides \in SUBSET Sides, list_join(sides) # Absent
    PROVE  /\ list_join(sides) \in Sides
           /\ Collapsible(list_join(sides)) => \A s \in sides : Collapsible(s)
           /\ (\A s \in sides : Collapsible(s)) => Collapsible(list_join(sides))
           /\ ~Collapsible(list_join(sides)) => sides = {list_join(sides)}
<1>1. CASE sides = {list_join(sides)} BY <1>1
<1>2. CASE sides # {list_join(sides)}
    <2>1. list_join(sides) \in Copacks BY <1>2, ListJoinHolds
    <2>2. Collapsible(list_join(sides)) /\ list_join(sides) \in Sides
        BY <2>1, CopackForm, CopacksAreSides DEF Collapsible
    <2>3. ~\E s \in sides : sides = {s} BY <1>2 DEF list_join
    <2> QED BY <2>2, <2>3, ListJoinExists
<1> QED BY <1>1, <1>2

\* A join of parts exists if those of the parts do, and that of their joins.
LEMMA ListJoinSplits ==
    ASSUME NEW D, D # {}, NEW parts \in [D -> SUBSET Sides], \A t \in D : parts[t] # {}
    PROVE  list_join(UNION {parts[t] : t \in D}) # Absent
               <=> /\ \A t \in D : list_join(parts[t]) # Absent
                   /\ list_join({list_join(parts[t]) : t \in D}) # Absent
<1> DEFINE whole == UNION {parts[t] : t \in D}
           joins == {list_join(parts[t]) : t \in D}
<1>0. whole \in SUBSET Sides /\ \A t \in D : parts[t] \in SUBSET Sides OBVIOUS
<1>a. ASSUME \A t \in D : list_join(parts[t]) # Absent PROVE joins \in SUBSET Sides
    BY <1>0, <1>a, ListJoinCollapses
<1> DEFINE split == (\A t \in D : list_join(parts[t]) # Absent) /\ list_join(joins) # Absent
<1>1. ASSUME list_join(whole) # Absent PROVE split
    <2>1. CASE \E s \in whole : whole = {s}
        <3>1. PICK s \in whole : whole = {s} BY <2>1
        <3>2. \A t \in D : parts[t] = {s} BY <3>1
        <3>3. \A t \in D : list_join(parts[t]) = s BY <3>2 DEF list_join
        <3>4. joins = {s} /\ s # Absent BY <3>1, <3>3, <1>0, CopacksAreSides
        <3>5. list_join(joins) = s BY <3>4 DEF list_join
        <3> QED BY <3>3, <3>4, <3>5
    <2>2. CASE \A s \in whole : Collapsible(s)
        <3>1. \A t \in D : \A s \in parts[t] : Collapsible(s) BY <2>2
        <3>2. \A t \in D : list_join(parts[t]) # Absent BY <1>0, <3>1, ListJoinExists
        <3>3. \A t \in D : Collapsible(list_join(parts[t])) BY <1>0, <3>1, <3>2, ListJoinCollapses
        <3>4. list_join(joins) # Absent BY <1>a, <3>2, <3>3, ListJoinExists
        <3> QED BY <3>2, <3>4
    <2> QED BY <1>0, <1>1, <2>1, <2>2, ListJoinExists
<1>2. ASSUME split PROVE list_join(whole) # Absent
    <2>0. joins \in SUBSET Sides BY <1>2, <1>a
    <2>1. CASE \A j \in joins : Collapsible(j)
        <3>1. \A t \in D : \A s \in parts[t] : Collapsible(s) BY <1>0, <1>2, <2>1, ListJoinCollapses
        <3> QED BY <1>0, <3>1, ListJoinExists
    <2>2. CASE ~\A j \in joins : Collapsible(j)
        <3>1. PICK j \in joins : joins = {j} BY <1>2, <2>0, <2>2, ListJoinExists
        <3>2. ~Collapsible(j) BY <2>2, <3>1
        <3>3. \A t \in D : list_join(parts[t]) = j BY <3>1
        <3>4. \A t \in D : parts[t] = {j} BY <1>0, <1>2, <3>2, <3>3, ListJoinCollapses
        <3>5. whole = {j} BY <3>4
        <3> QED BY <1>0, <3>5, ListJoinExists
    <2> QED BY <2>1, <2>2
<1> QED BY <1>1, <1>2

\* A join that exists takes what has something in it.
LEMMA JoinedConverts ==
    ASSUME NEW sides \in SUBSET Sides, list_join(sides) # Absent, NEW s \in sides, Alternatives(s) # {}
    PROVE  Converts(s, list_join(sides))
<1>1. CASE sides = {list_join(sides)} BY <1>1 DEF Converts
<1>2. CASE sides # {list_join(sides)}
    <2>1. list_join(sides) \in Copacks /\ Alternatives(list_join(sides)) = United(sides)
        BY <1>2, ListJoinHolds
    <2>2. some_copack(list_join(sides)) /\ Collapsible(list_join(sides))
        BY <2>1, CopackForm DEF some_copack, Collapsible
    <2>3. Collapsible(s) BY <2>2, ListJoinCollapses
    <2>4. Alternatives(s) \subseteq Alternatives(list_join(sides)) BY <2>1 DEF United
    <2> QED BY <2>2, <2>3, <2>4 DEF Converts, empty_copack
<1> QED BY <1>1, <1>2

\* The carried copacks always join, and convert to the join.
LEMMA CarriedJoins ==
    ASSUME NEW own \in Copacks, NEW sides \in SUBSET Copacks
    PROVE  /\ graded_join(own, sides) \in Copacks
           /\ graded_join(own, sides) # Absent
           /\ Alternatives(graded_join(own, sides)) = Alternatives(own) \cup United(sides)
           /\ \A s \in sides : Alternatives(s) # {} => Converts(s, graded_join(own, sides))
<1> DEFINE all == sides \cup {own}
<1>1. \A s \in all : some_copack(s) /\ Collapsible(s) BY CopackForm DEF some_copack, Collapsible
<1>2. graded_join(own, sides) = copack_for(all) BY <1>1 DEF graded_join
<1>3. all \in SUBSET Sides BY CopacksAreSides
<1>4. copack_for(all) = Copack(United(all)) BY <1>1 DEF copack_for, United
<1>5. United(all) \in SUBSET Types BY <1>1, <1>3, CollapsibleSides DEF United
<1>6. /\ copack_for(all) \in Copacks /\ copack_for(all).form = "copack"
      /\ Alternatives(copack_for(all)) = United(all)
    BY <1>4, <1>5, CopackHolds DEF Copacks
<1>7. United(all) = Alternatives(own) \cup United(sides) BY DEF United
<1>8. \A s \in sides : Alternatives(s) \subseteq United(all) BY DEF United
<1>9. copack_for(all) # Absent BY <1>6, EmptySidesHold
<1> QED BY <1>1, <1>2, <1>6, <1>7, <1>8, <1>9 DEF Converts, some_copack, empty_copack

(***************************************************************************)
(* Result types of the verbs.                                              *)
(***************************************************************************)
LEMMA CarrierFacts ==
    ASSUME NEW c \in CarrierTypes
    PROVE  /\ c.value \in ValueSides /\ c.error \in ErrorSides
           /\ c.value \in Sides /\ c.error \in Sides /\ c.value # NoError
           /\ c.error = None => c.value # Void
           /\ c.error = NoError => Alternatives(c.value) # {}
           /\ c = [value |-> c.value, error |-> c.error]
<1>1. c.value \in Sides /\ c.error \in Sides BY CopacksAreSides DEF CarrierTypes
<1>2. Alternatives(c.value) = {} => c.value = NoError \/ empty_copack(c.value)
    BY <1>1, SideForms DEF empty_copack, some_copack
<1>3. NoError \notin ValueSides
    BY EmptySidesHold, CopackForm, PlainHolds DEF ValueSides, PayloadSides, Copacks
<1> QED BY <1>1, <1>2, <1>3 DEF CarrierTypes, admits, some_optional, some_total

\* The sides of the branches are sides of carriers.
LEMMA BranchSides ==
    ASSUME NEW D, NEW fn \in [D -> CarrierTypes]
    PROVE  /\ Values(fn) \in SUBSET ValueSides /\ Values(fn) \in SUBSET Sides
           /\ Errors(fn) \in SUBSET ErrorSides /\ Errors(fn) \in SUBSET Sides
           /\ Void \in Values(fn) => ~(Errors(fn) \subseteq {None})
<1>1. \A t \in D : fn[t] \in CarrierTypes OBVIOUS
<1> QED BY <1>1, CarrierFacts DEF Values, Errors

\* A side that is one of the joined sides, or a copack, is of their kind.
LEMMA ValueJoinKind ==
    ASSUME NEW s, s \in ValueSides \/ s \in Copacks
    PROVE  s \in ValueSides /\ (s = Void => s \notin Copacks)
BY CopacksAreSides, CopackForm

\* An error side stays one in a join, and None is no copack.
LEMMA ErrorJoinKind ==
    ASSUME NEW s, s \in ErrorSides \/ s \in Copacks
    PROVE  s \in ErrorSides /\ (s \in {None, NoError} => s \notin Copacks)
BY CopacksAreSides, CopackForm

\* The error side that a bind ends with: that of every branch, if there was none to
\* carry past the callback; its own; or a copack.
LEMMA JoinedErrorHolds ==
    ASSUME NEW c \in CarrierTypes, ~some_empty_value(c),
           NEW fn \in [Alternatives(c.value) -> CarrierTypes], joined_error(c, fn) # Absent
    PROVE  /\ \/ some_identity(c) /\ Errors(fn) = {joined_error(c, fn)}
              \/ ~some_total(c) /\ joined_error(c, fn) = c.error /\ Errors(fn) \subseteq {c.error}
              \/ joined_error(c, fn) \in Copacks
           /\ Alternatives(joined_error(c, fn)) = Alternatives(c.error) \cup United(Errors(fn))
<1> DEFINE error == joined_error(c, fn)
<1>1. CASE some_identity(c) /\ Errors(fn) = {error}
    <2>1. Alternatives(c.error) = {}
        BY <1>1, EmptySidesHold DEF some_identity, some_total, some_empty_error, empty_copack
    <2>2. United(Errors(fn)) = Alternatives(error) BY <1>1 DEF United
    <2> QED BY <1>1, <2>1, <2>2
<1>2. CASE some_identity(c) /\ Errors(fn) \in {{None}, {NoError}}
    <2>1. error \in Errors(fn) BY <1>2 DEF joined_error
    <2> QED BY <1>1, <1>2, <2>1
<1>3. CASE some_total(c) /\ Errors(fn) \notin {{None}, {NoError}}
    <2>1. some_identity(c) /\ Alternatives(c.value) # {}
        BY <1>3, CarrierFacts DEF some_identity, some_total
    <2>2. ~Heterogeneous(fn) /\ error = CHOOSE e \in Errors(fn) : TRUE
        BY <1>3, <2>1 DEF joined_error
    <2>3. \A d, e \in Errors(fn) : d = e BY <2>2 DEF Heterogeneous, Errors
    <2>4. Errors(fn) # {} BY <2>1 DEF Errors
    <2> QED BY <1>1, <2>1, <2>2, <2>3, <2>4
<1>4. CASE ~some_total(c) /\ ~(some_identity(c) /\ Errors(fn) \in {{None}, {NoError}})
    <2>1. error = graded_join(c.error, Errors(fn)) BY <1>4 DEF joined_error
    <2> QED BY <1>4, <2>1, CarrierFacts, BranchSides, GradedJoinHolds DEF some_total
<1> QED BY <1>2, <1>3, <1>4 DEF some_identity

\* The result type of and_then is a carrier that unites the errors and takes the branches' values.
LEMMA AndThenTypeHolds ==
    ASSUME NEW c \in CarrierTypes, NEW fn \in [Alternatives(c.value) -> CarrierTypes],
           and_then_compiles(c, fn)
    PROVE  /\ and_then_type(c, fn) \in CarrierTypes
           /\ Alternatives(and_then_type(c, fn).value) = United(Values(fn))
           /\ Alternatives(and_then_type(c, fn).error) = Alternatives(c.error) \cup United(Errors(fn))
<1> DEFINE type == and_then_type(c, fn)
<1>1. CASE some_empty_value(c)
    <2>1. type = c BY <1>1 DEF and_then_type
    <2>2. Alternatives(c.value) = {} BY <1>1 DEF some_empty_value, empty_copack
    <2>3. United(Values(fn)) = {} /\ United(Errors(fn)) = {} BY <2>2 DEF United, Values, Errors
    <2> QED BY <2>1, <2>2, <2>3
<1>2. CASE ~some_empty_value(c)
    <2>1. /\ type = [value |-> type.value, error |-> type.error]
          /\ type.value = list_join(Values(fn))
          /\ type.error = joined_error(c, fn)
        BY <1>2 DEF and_then_type
    <2>2. type.value # Absent /\ type.error # Absent BY DEF and_then_compiles, Exists
    <2>3. /\ Values(fn) = {type.value} \/ type.value \in Copacks
          /\ Alternatives(type.value) = United(Values(fn))
        BY <2>1, <2>2, BranchSides, ListJoinHolds
    <2>4. /\ \/ Errors(fn) = {type.error}
             \/ ~some_total(c) /\ type.error = c.error /\ Errors(fn) \subseteq {c.error}
             \/ type.error \in Copacks
          /\ Alternatives(type.error) = Alternatives(c.error) \cup United(Errors(fn))
        BY <1>2, <2>1, <2>2, JoinedErrorHolds
    <2>5. type.value \in ValueSides BY <2>3, BranchSides, ValueJoinKind
    <2>6. type.error \in ErrorSides
        BY <2>4, CarrierFacts, BranchSides, CopacksAreSides
    <2>7. type.error = None => type.value # Void
        <3>1. SUFFICES ASSUME type.error = None, type.value = Void PROVE FALSE OBVIOUS
        <3>2. Errors(fn) \subseteq {None} BY <3>1, <2>4, <2>6, ErrorJoinKind
        <3>3. Void \in Values(fn) BY <3>1, <2>3, <2>5, ValueJoinKind
        <3> QED BY <3>2, <3>3, BranchSides
    <2>8. type.error = NoError => ~empty_copack(type.value)
        <3>1. SUFFICES ASSUME type.error = NoError PROVE Alternatives(type.value) # {}
            BY DEF empty_copack
        <3>2. Errors(fn) = {NoError} BY <3>1, <2>4, <2>6, ErrorJoinKind DEF some_total
        <3>3. PICK t \in Alternatives(c.value) : fn[t].error = NoError BY <3>2 DEF Errors
        <3>4. Alternatives(fn[t].value) # {} BY <3>3, CarrierFacts
        <3>5. fn[t].value \in Values(fn) BY DEF Values
        <3> QED BY <2>3, <3>4, <3>5 DEF United
    <2>9. type \in CarrierTypes BY <2>1, <2>5, <2>6, <2>7, <2>8 DEF CarrierTypes, admits, some_optional, some_total
    <2> QED BY <2>3, <2>4, <2>9
<1> QED BY <1>1, <1>2

\* The result type of or_else is a carrier that unites the values and takes the branches' errors.
LEMMA OrElseTypeHolds ==
    ASSUME NEW c \in CarrierTypes, NEW fn \in [Alternatives(c.error) -> FallibleTypes],
           or_else_compiles(c, fn)
    PROVE  /\ or_else_type(c, fn) \in CarrierTypes
           /\ Alternatives(or_else_type(c, fn).value) = Alternatives(c.value) \cup United(Values(fn))
           /\ Alternatives(or_else_type(c, fn).error) = United(Errors(fn))
<1> DEFINE type == or_else_type(c, fn)
<1>0. fn \in [Alternatives(c.error) -> CarrierTypes] BY DEF FallibleTypes
<1>1. CASE some_empty_error(c)
    <2>1. type = c BY <1>1 DEF or_else_type
    <2>2. Alternatives(c.error) = {} BY <1>1 DEF some_empty_error, empty_copack
    <2>3. United(Values(fn)) = {} /\ United(Errors(fn)) = {} BY <2>2 DEF United, Values, Errors
    <2> QED BY <2>1, <2>2, <2>3
<1>2. CASE ~some_empty_error(c)
    <2>1. /\ type = [value |-> type.value, error |-> type.error]
          /\ type.value = graded_join(c.value, Values(fn))
          /\ type.error = list_join(Errors(fn))
        BY <1>2 DEF or_else_type
    <2>2. type.value # Absent /\ type.error # Absent BY DEF or_else_compiles, Exists
    <2>3. /\ Errors(fn) = {type.error} \/ type.error \in Copacks
          /\ Alternatives(type.error) = United(Errors(fn))
        BY <1>0, <2>1, <2>2, BranchSides, ListJoinHolds
    <2>4. /\ \/ type.value = c.value /\ Values(fn) \subseteq {c.value}
             \/ type.value \in Copacks
          /\ Alternatives(type.value) = Alternatives(c.value) \cup United(Values(fn))
        BY <1>0, <2>1, <2>2, CarrierFacts, BranchSides, GradedJoinHolds
    <2>5. type.value \in ValueSides BY <2>4, CarrierFacts, ValueJoinKind
    <2>6. type.error \in ErrorSides BY <1>0, <2>3, BranchSides, ErrorJoinKind
    <2>7. type.error = None => type.value # Void
        <3>1. SUFFICES ASSUME type.error = None, type.value = Void PROVE FALSE OBVIOUS
        <3>2. Errors(fn) = {None} BY <3>1, <2>3, <2>6, ErrorJoinKind
        <3>3. PICK t \in Alternatives(c.error) : fn[t].error = None BY <3>2 DEF Errors
        <3>4. Values(fn) \subseteq {Void} BY <3>1, <2>4, <2>5, ValueJoinKind
        <3>5. fn[t].value \in Values(fn) BY DEF Values
        <3> QED BY <1>0, <3>3, <3>4, <3>5, CarrierFacts
    <2>8. type.error # NoError
        <3>1. NoError \notin Errors(fn) BY DEF Errors, FallibleTypes, some_total
        <3> QED BY <3>1, <2>3, <2>6, ErrorJoinKind
    <2>9. type \in CarrierTypes BY <2>1, <2>5, <2>6, <2>7, <2>8 DEF CarrierTypes, admits, some_optional, some_total
    <2> QED BY <2>3, <2>4, <2>9
<1> QED BY <1>1, <1>2

\* A mapped side, where there is one, has the types of all that the callback returns.
LEMMA MappedSideHolds ==
    ASSUME NEW side \in Sides, NEW R \in SUBSET Sides, NEW fn \in [Alternatives(side) -> R],
           mapped_side(side, fn) # Absent
    PROVE  /\ mapped_side(side, fn) \in R \/ mapped_side(side, fn) \in Copacks
           /\ Alternatives(mapped_side(side, fn)) = United(Range(fn))
<1>1. Range(fn) \in SUBSET R /\ Range(fn) \in SUBSET Sides BY DEF Range
<1>2. CASE empty_copack(side)
    <2>1. mapped_side(side, fn) = side BY <1>2 DEF mapped_side
    <2>2. Alternatives(side) = {} /\ side \in Copacks
        BY <1>2, SideForms DEF empty_copack, some_copack
    <2>3. United(Range(fn)) = {} BY <2>2 DEF United, Range
    <2> QED BY <2>1, <2>2, <2>3
<1>3. CASE ~empty_copack(side) /\ some_copack(side)
    <2>1. mapped_side(side, fn) = copack_for(Range(fn)) BY <1>3 DEF mapped_side
    <2> QED BY <2>1, <1>1, CopackForHolds
<1>4. CASE ~empty_copack(side) /\ ~some_copack(side)
    <2>1. mapped_side(side, fn) = list_join(Range(fn)) BY <1>4 DEF mapped_side
    <2>2. /\ Range(fn) = {list_join(Range(fn))} \/ list_join(Range(fn)) \in Copacks
          /\ Alternatives(list_join(Range(fn))) = United(Range(fn))
        BY <2>1, <1>1, ListJoinHolds
    <2> QED BY <2>1, <2>2, <1>1
<1> QED BY <1>2, <1>3, <1>4

\* The result type of transform is a carrier that keeps its error side.
LEMMA TransformTypeHolds ==
    ASSUME NEW c \in CarrierTypes, NEW fn \in [Alternatives(c.value) -> ValueSides],
           mapped_side(c.value, fn) # Absent, admits(c, mapped_side(c.value, fn))
    PROVE  /\ transform_type(c, fn) \in CarrierTypes
           /\ Alternatives(transform_type(c, fn).value) = United(Range(fn))
           /\ transform_type(c, fn).error = c.error
<1> DEFINE mapped == mapped_side(c.value, fn)
<1>1. ValueSides \in SUBSET Sides BY CopacksAreSides
<1>2. c.value \in Sides BY CarrierFacts
<1>3. /\ mapped \in ValueSides \/ mapped \in Copacks
      /\ Alternatives(mapped) = United(Range(fn))
    BY <1>1, <1>2, MappedSideHolds
<1>4. mapped \in ValueSides BY <1>3, CopacksAreSides
<1>5. transform_type(c, fn) = [value |-> mapped, error |-> c.error]
    BY CarrierFacts DEF transform_type
<1>6. transform_type(c, fn) \in CarrierTypes
    BY <1>4, <1>5, CarrierFacts DEF CarrierTypes, admits, some_optional, some_total
<1> QED BY <1>3, <1>5, <1>6

\* The result type of transform_error is a carrier that keeps its value side.
LEMMA TransformErrorTypeHolds ==
    ASSUME NEW c \in CarrierTypes, NEW fn \in [Alternatives(c.error) -> PayloadSides],
           mapped_side(c.error, fn) # Absent
    PROVE  /\ transform_error_type(c, fn) \in CarrierTypes
           /\ Alternatives(transform_error_type(c, fn).error) = United(Range(fn))
           /\ transform_error_type(c, fn).value = c.value
<1> DEFINE mapped == mapped_side(c.error, fn)
<1>1. PayloadSides \in SUBSET Sides BY CopacksAreSides
<1>2. c.error \in Sides BY CarrierFacts
<1>3. /\ mapped \in PayloadSides \/ mapped \in Copacks
      /\ Alternatives(mapped) = United(Range(fn))
    BY <1>1, <1>2, MappedSideHolds
<1>4. mapped \in PayloadSides BY <1>3, CopacksAreSides
<1>5. None \notin PayloadSides /\ NoError \notin PayloadSides
    BY SideForms, EmptySidesHold, CopackForm, PlainHolds DEF PayloadSides, Copacks
<1>6. transform_error_type(c, fn) = [value |-> c.value, error |-> mapped]
    BY CarrierFacts DEF transform_error_type
<1>7. transform_error_type(c, fn) \in CarrierTypes
    BY <1>4, <1>5, <1>6, CarrierFacts, CopacksAreSides DEF CarrierTypes, admits, some_optional, some_total
<1> QED BY <1>3, <1>6, <1>7

(***************************************************************************)
(* Plain sides.  Of carriers that may fail, the types of a side leave open *)
(* only whether it is plain.                                               *)
(***************************************************************************)
Plains == {Plain(t) : t \in Types}

LEMMA PlainFacts ==
    ASSUME NEW p \in Plains
    PROVE  /\ p \in Sides /\ p \notin Copacks /\ p \notin {Void, None, NoError, Absent}
           /\ ~some_copack(p) /\ Alternatives(p) # {}
<1>1. p.form = "plain" /\ Alternatives(p) # {} BY PlainHolds DEF Plains
<1>2. p \in Sides BY DEF Plains, Sides, PayloadSides
<1> QED BY <1>1, <1>2, CopackForm, EmptySidesHold DEF some_copack

\* Two sides of a kind that have the same types differ only if one of them is plain.
LEMMA SidesAgree ==
    ASSUME NEW s, NEW r,
           \/ s \in ValueSides /\ r \in ValueSides
           \/ s \in ErrorSides \ {NoError} /\ r \in ErrorSides \ {NoError},
           Alternatives(s) = Alternatives(r),
           \A p \in Plains : s = p <=> r = p
    PROVE  s = r
<1>1. s \in Sides /\ r \in Sides BY CopacksAreSides
<1>2. Unit \notin Types BY CarriersAssumption DEF Unit
<1>3. CASE s \in Plains \/ r \in Plains BY <1>3
<1>4. CASE s \notin Plains /\ r \notin Plains
    <2>1. \A q \in Sides \ Plains :
              \/ q \in Copacks /\ q = Copack(Alternatives(q)) /\ Alternatives(q) \in SUBSET Types
              \/ q \in {Void, None} /\ Alternatives(q) = {Unit}
              \/ q = NoError
        BY SideForms DEF Plains
    <2>2. NoError \notin ValueSides /\ None \notin ValueSides
        BY EmptySidesHold, CopackForm, PlainHolds DEF ValueSides, PayloadSides, Copacks
    <2>3. Void \notin ErrorSides
        BY EmptySidesHold, CopackForm, PlainHolds DEF ErrorSides, PayloadSides, Copacks
    <2>4. s # NoError /\ r # NoError BY <2>2
    <2>5. CASE s \in Copacks
        <3>1. s = Copack(Alternatives(s)) /\ Alternatives(s) \in SUBSET Types
            BY <1>1, <1>4, <2>1, <2>4, <2>5, CopackForm
        <3>2. Alternatives(r) # {Unit} BY <1>2, <3>1
        <3>3. r = Copack(Alternatives(r)) BY <1>1, <1>4, <2>1, <2>4, <3>2
        <3> QED BY <3>1, <3>3
    <2>6. CASE s \in {Void, None}
        <3>1. Alternatives(s) = {Unit} /\ Alternatives(r) = {Unit} BY <2>6, EmptySidesHold
        <3>2. r \in {Void, None} BY <1>1, <1>2, <1>4, <2>1, <2>4, <3>1
        <3> QED BY <2>2, <2>3, <2>6, <3>2
    <2> QED BY <1>1, <1>4, <2>1, <2>4, <2>5, <2>6
<1> QED BY <1>3, <1>4

\* A join is plain if it joins one plain side with itself.
LEMMA ListJoinPlain ==
    ASSUME NEW sides \in SUBSET Sides, NEW p \in Plains
    PROVE  list_join(sides) = p <=> sides = {p}
<1>1. ASSUME list_join(sides) = p PROVE sides = {p}
    BY <1>1, PlainFacts, ListJoinHolds
<1>2. ASSUME sides = {p} PROVE list_join(sides) = p BY <1>2 DEF list_join
<1> QED BY <1>1, <1>2

LEMMA GradedJoinPlain ==
    ASSUME NEW own \in Sides, own # NoError, NEW sides \in SUBSET Sides, NEW p \in Plains
    PROVE  graded_join(own, sides) = p <=> (own = p /\ sides \subseteq {p})
<1>1. ASSUME graded_join(own, sides) = p PROVE own = p /\ sides \subseteq {p}
    BY <1>1, PlainFacts, GradedJoinHolds
<1>2. ASSUME own = p, sides \subseteq {p} PROVE graded_join(own, sides) = p
    BY <1>2, PlainFacts DEF graded_join
<1> QED BY <1>1, <1>2

\* The result of a bind is plain on the side it acts on if all branches are, and on
\* the other if the operand is as well.
LEMMA AndThenPlain ==
    ASSUME NEW c \in FallibleTypes, NEW fn \in [Alternatives(c.value) -> FallibleTypes], NEW p \in Plains
    PROVE  /\ and_then_type(c, fn).value = p <=> (DOMAIN fn # {} /\ \A t \in DOMAIN fn : fn[t].value = p)
           /\ and_then_type(c, fn).error = p <=> (c.error = p /\ \A t \in DOMAIN fn : fn[t].error = p)
<1> DEFINE type == and_then_type(c, fn)
<1>0. /\ c \in CarrierTypes /\ c.error # NoError /\ c.error \in Sides
      /\ fn \in [Alternatives(c.value) -> CarrierTypes] /\ NoError \notin Errors(fn)
    BY CarrierFacts DEF FallibleTypes, some_total, Errors
<1>1. CASE some_empty_value(c)
    <2>1. type = c /\ DOMAIN fn = {} BY <1>1 DEF and_then_type, some_empty_value, empty_copack
    <2>2. c.value # p BY <1>1, PlainFacts DEF some_empty_value, empty_copack
    <2> QED BY <2>1, <2>2
<1>2. CASE ~some_empty_value(c)
    <2>1. type.value = list_join(Values(fn)) /\ type.error = joined_error(c, fn)
        BY <1>2 DEF and_then_type
    <2>2. Values(fn) \in SUBSET Sides /\ Errors(fn) \in SUBSET Sides BY <1>0, BranchSides
    <2>3. type.value = p <=> Values(fn) = {p} BY <2>1, <2>2, ListJoinPlain
    <2>4. Values(fn) = {p} <=> (DOMAIN fn # {} /\ \A t \in DOMAIN fn : fn[t].value = p) BY DEF Values
    <2>5. Errors(fn) \subseteq {p} <=> \A t \in DOMAIN fn : fn[t].error = p BY DEF Errors
    <2>6. type.error = p <=> (c.error = p /\ Errors(fn) \subseteq {p})
        <3>1. CASE some_identity(c) /\ Errors(fn) = {None}
            <4>0. {None} # {NoError} BY EmptySidesHold
            <4>1. joined_error(c, fn) = None BY <3>1, <4>0 DEF joined_error
            <4>2. some_copack(c.error) BY <1>0, <3>1 DEF some_identity, some_total, some_empty_error, empty_copack
            <4> QED BY <2>1, <4>1, <4>2, PlainFacts
        <3>2. CASE ~(some_identity(c) /\ Errors(fn) = {None})
            <4>1. type.error = graded_join(c.error, Errors(fn))
                BY <1>0, <2>1, <3>2 DEF joined_error, some_total
            <4> QED BY <1>0, <2>2, <4>1, GradedJoinPlain
        <3> QED BY <3>1, <3>2
    <2> QED BY <2>3, <2>4, <2>5, <2>6
<1> QED BY <1>1, <1>2

LEMMA OrElsePlain ==
    ASSUME NEW c \in FallibleTypes, NEW fn \in [Alternatives(c.error) -> FallibleTypes], NEW p \in Plains
    PROVE  /\ or_else_type(c, fn).error = p <=> (DOMAIN fn # {} /\ \A t \in DOMAIN fn : fn[t].error = p)
           /\ or_else_type(c, fn).value = p <=> (c.value = p /\ \A t \in DOMAIN fn : fn[t].value = p)
<1> DEFINE type == or_else_type(c, fn)
<1>0. /\ c.value # NoError /\ c.value \in Sides
      /\ fn \in [Alternatives(c.error) -> CarrierTypes]
    BY CarrierFacts DEF FallibleTypes
<1>1. CASE some_empty_error(c)
    <2>1. type = c /\ DOMAIN fn = {} BY <1>1 DEF or_else_type, some_empty_error, empty_copack
    <2>2. c.error # p BY <1>1, PlainFacts DEF some_empty_error, empty_copack
    <2> QED BY <2>1, <2>2
<1>2. CASE ~some_empty_error(c)
    <2>1. type.value = graded_join(c.value, Values(fn)) /\ type.error = list_join(Errors(fn))
        BY <1>2 DEF or_else_type
    <2>2. Values(fn) \in SUBSET Sides /\ Errors(fn) \in SUBSET Sides BY <1>0, BranchSides
    <2>3. type.error = p <=> Errors(fn) = {p} BY <2>1, <2>2, ListJoinPlain
    <2>4. Errors(fn) = {p} <=> (DOMAIN fn # {} /\ \A t \in DOMAIN fn : fn[t].error = p) BY DEF Errors
    <2>5. Values(fn) \subseteq {p} <=> \A t \in DOMAIN fn : fn[t].value = p BY DEF Values
    <2>6. type.value = p <=> (c.value = p /\ Values(fn) \subseteq {p})
        BY <1>0, <2>1, <2>2, GradedJoinPlain
    <2> QED BY <2>3, <2>4, <2>5, <2>6
<1> QED BY <1>1, <1>2

(***************************************************************************)
(* Content.                                                                *)
(***************************************************************************)
\* x is content of a c.
Fits(c, x) ==
    /\ x.side \in {"value", "error"}
    /\ x.at \in DOMAIN c[x.side].list
    /\ c[x.side].list[x.at] = x.member
    /\ x.member \in Types \cup {Unit}
    /\ x.token \in PayloadsOf(x.member)

\* Content built for an alternative of a side fits the side, at the index of that alternative.
LEMMA HeldFits ==
    ASSUME NEW c, NEW which \in {"value", "error"}, NEW t \in Types \cup {Unit},
           t \in Alternatives(c[which]), NEW k \in PayloadsOf(t)
    PROVE  /\ Fits(c, Held(which, c[which], t, k))
           /\ Held(which, c[which], t, k).side = which
           /\ Held(which, c[which], t, k).member = t
           /\ Held(which, c[which], t, k).token = k
<1>1. \E i \in DOMAIN c[which].list : c[which].list[i] = t BY DEF Alternatives, Range
<1>2. /\ type_index(t, c[which].list) \in DOMAIN c[which].list
      /\ c[which].list[type_index(t, c[which].list)] = t
    BY <1>1 DEF type_index
<1> QED BY <1>2 DEF Fits, Held

\* Dispatch on fitting content finds the alternative that the member holds.
LEMMA DispatchedHolds ==
    ASSUME NEW c, NEW x, Fits(c, x)
    PROVE  Dispatched(c, x) = x.member /\ x.member \in Alternatives(c[x.side])
BY DEF Fits, Dispatched, Alternatives, Range

\* What is carried into another type is what it was: only the index moves.
LEMMA WidenFits ==
    ASSUME NEW from, NEW to, NEW x, Fits(from, x), x.member \in Alternatives(to[x.side])
    PROVE  /\ Fits(to, Widen(x, from, to))
           /\ Widen(x, from, to).side = x.side
           /\ Widen(x, from, to).member = x.member
           /\ Widen(x, from, to).token = x.token
<1>1. Dispatched(from, x) = x.member BY DispatchedHolds
<1>2. /\ x.side \in {"value", "error"} /\ x.member \in Types \cup {Unit}
      /\ x.token \in PayloadsOf(x.member)
    BY DEF Fits
<1>3. Widen(x, from, to) = Held(x.side, to[x.side], x.member, x.token) BY <1>1 DEF Widen
<1> QED BY <1>2, <1>3, HeldFits

\* What a side may hold fits it.
LEMMA HoldingFits ==
    ASSUME NEW c, NEW which \in {"value", "error"}, NEW x \in Holding(which, c[which]),
           c[which] \in Sides
    PROVE  Fits(c, x) /\ x.side = which
<1>1. PICK t \in Alternatives(c[which]) : \E k \in PayloadsOf(t) : x = Held(which, c[which], t, k)
    BY DEF Holding
<1>2. t \in Types \cup {Unit} BY SideForms
<1> QED BY <1>1, <1>2, HeldFits

\* What a carrier may contain fits it.
LEMMA ContentsFit ==
    ASSUME NEW c \in CarrierTypes, NEW x \in Contents(c)
    PROVE  Fits(c, x)
<1>1. c["value"] \in Sides /\ c["error"] \in Sides BY CarrierFacts
<1>2. x \in Holding("value", c["value"]) \/ x \in Holding("error", c["error"]) BY DEF Contents
<1> QED BY <1>1, <1>2, HoldingFits
=============================================================================
