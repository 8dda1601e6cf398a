------------------------------ MODULE BindLaws ------------------------------
(***************************************************************************)
(* Two binds in a row, and the same two binds nested.  m | f | g and       *)
(* m | (x -> f(x) | g) are different programs to the compiler: the second  *)
(* joins the results of the inner binds, whose own joins see one branch of *)
(* f at a time.                                                            *)
(***************************************************************************)
EXTENDS Verbs

CONSTANT Branches   \* the carriers a callback may return

ASSUME BranchesAssumption == Branches \subseteq CarrierTypes

VARIABLES m,     \* the type of the carrier
          verb,  \* the bind, the same one twice
          f, g,  \* the callbacks
          stage  \* how many of them are bound

vars == <<m, verb, f, g, stage>>

Acting(c) == Alternatives(IF verb = "and_then" THEN c.value ELSE c.error)
Result(c, fn) == IF verb = "and_then" THEN and_then_type(c, fn) ELSE or_else_type(c, fn)
Compiles(c, fn) == IF verb = "and_then" THEN and_then_compiles(c, fn) ELSE or_else_compiles(c, fn)
Callbacks(c) == [Acting(c) -> IF verb = "and_then" THEN Branches ELSE Branches \cap FallibleTypes]

Init == /\ verb \in {"and_then", "or_else"}
        /\ m \in IF verb = "and_then" THEN CarrierTypes ELSE FallibleTypes
        /\ f \in {fn \in Callbacks(m) : Compiles(m, fn)}
        /\ g = <<>> /\ stage = 1

\* The second callback is made for the result of the first, and need not fit it.
BindSecond == /\ stage = 1 /\ stage' = 2
              /\ g' \in Callbacks(Result(m, f))
              /\ UNCHANGED <<m, verb, f>>

Next == BindSecond

Spec == Init /\ [][Next]_vars

(***************************************************************************)
(* Properties.                                                             *)
(***************************************************************************)
Flat == Result(Result(m, f), g)
FlatCompiles == Compiles(Result(m, f), g)
Nested == [t \in DOMAIN f |-> Result(f[t], Restrict(g, Acting(f[t])))]
NestedCompiles == /\ \A t \in DOMAIN f : Compiles(f[t], Restrict(g, Acting(f[t])))
                  /\ Compiles(m, Nested)

Carried(c) == IF verb = "and_then" THEN c.error ELSE c.value
Graded(c) == some_copack(Carried(c)) /\ ~empty_copack(Carried(c)) /\ Acting(c) # {}

Shape(c) == [value |-> Alternatives(c.value), error |-> Alternatives(c.error)]
Bound == {m} \cup Range(f) \cup Range(g)

\* Associativity (TYPE_ALGEBRA, section 14): where both programs compile, they
\* have the same type, or the same shape if they pass through just or choice, and
\* one that is graded throughout compiles in both forms or in neither.  The nested
\* form joins the inner results, in which the grades that the branches of f do not
\* share are still apart.
BindsAssociate ==
    stage = 2 =>
        /\ FlatCompiles /\ NestedCompiles =>
               /\ Shape(Result(m, Nested)) = Shape(Flat)
               /\ (\A c \in Bound : ~some_total(c)) => Result(m, Nested) = Flat
        /\ (\A c \in Bound : Graded(c)) => (FlatCompiles <=> NestedCompiles)
=============================================================================
