--------------------------- MODULE ExpectedCalls ---------------------------
(***************************************************************************)
(* The vocabulary shared by the abstract specification of pfn::expected    *)
(* (ExpectedSpec) and by its storage machine (ExpectedStorage): what the   *)
(* user's types T and E promise, the mutating calls a program may make,    *)
(* their `requires` clauses and their `noexcept` specifications.           *)
(*                                                                         *)
(* "value" and "error" name the two members of the storage union and, at   *)
(* the same time, the types T and E that live there.  A payload is an      *)
(* opaque value; Hollow is what a moved-from object holds, and also the    *)
(* content of the _dummy_t placeholder of expected<void, E>.               *)
(***************************************************************************)
EXTENDS FiniteSets

CONSTANTS Objects,   \* the expected objects of the program
          Values,    \* payloads a caller supplies
          Hollow,    \* the moved-from payload
          Profiles   \* the (T, E) pairs to consider, each as a ProfileType

Sides == {"value", "error"}
Other(s) == IF s = "value" THEN "error" ELSE "value"
Payloads == Values \cup {Hollow}

\* What the traits say of T and E: void is is_void_v<T>, move the nothrow move
\* constructible ones, trivial the trivially copyable ones.  strong is no trait:
\* it tells whether a throwing operation of T or E leaves its operands alone.
ProfileType == [void: BOOLEAN, move: SUBSET Sides, trivial: SUBSET Sides, strong: BOOLEAN]

\* A trivially copyable type moves without throwing; the placeholder of
\* expected<void, E> is trivial.
ProfileOK(p) == /\ p.trivial \subseteq p.move
                /\ p.void => "value" \in p.trivial

ASSUME ProfilesAssumption == \A p \in Profiles : p \in ProfileType /\ ProfileOK(p)
ASSUME HollowAssumption == Hollow \notin Values

Content == [side: Sides, val: Payloads]
Unborn == [side |-> "none", val |-> Hollow]
HollowOut(c) == [c EXCEPT !.val = Hollow]

(***************************************************************************)
(* A call mutates dst.  copy and move read another expected, src; value,   *)
(* unexpected and emplace bring a payload val of their own.  The first     *)
(* four construct dst when it does not exist and assign to it when it does.*)
(* nothrow holds the types whose constructor does not throw from this      *)
(* call's arguments, assign those whose assignment (or swap) does not.     *)
(***************************************************************************)
Ops == {"copy", "move", "value", "unexpected", "emplace", "swap"}
CallType == [op: Ops, dst: Objects, src: Objects, val: Payloads,
             nothrow: SUBSET Sides, assign: SUBSET Sides]

HasSource(c) == c.op \in {"copy", "move", "swap"}

\* The member the call makes active in dst, given the side of its source.
Target(c, srcSide) == CASE HasSource(c) -> srcSide
                        [] c.op = "unexpected" -> "error"
                        [] OTHER -> "value"

\* The types a call may have to construct or assign.
Concerned(c) == IF HasSource(c) THEN Sides ELSE {Target(c, "value")}

\* The calls the traits of p make possible.  Moves and swaps construct by
\* moving; a trivially copyable type does none of this with a throw; the value
\* of expected<void, E> is never brought by a caller.  A self-move is left to
\* T and E (the code does nothing about it), hence dst # src.
CallOf(p, c) ==
    /\ c.op \in {"move", "swap"} => c.nothrow = p.move
    /\ p.void => "value" \in c.nothrow \cap c.assign
    /\ HasSource(c) => p.trivial \subseteq c.nothrow \cap c.assign
    /\ c.op = "move" => c.dst # c.src
    /\ ~HasSource(c) => c.src = c.dst
    /\ HasSource(c) => c.val = Hollow
    /\ c.op = "unexpected" => c.val \in Values
    /\ c.op \in {"value", "emplace"} => (c.val = Hollow <=> p.void)
    /\ c.op = "value" => ~p.void

\* Mutant: no clause about exceptions.
RequiresNothing(p, c) == c.op = "emplace" => p.void \/ "value" \in c.nothrow

\* The requires clauses of the assignments, of emplace and of swap.
Requires(p, c) ==
    \/ p.void
    \/ HasSource(c) /\ p.move # {}
    \/ c.op \in {"value", "unexpected"} /\ (Target(c, "value") \in c.nothrow \/ p.move # {})
    \/ c.op = "emplace" /\ "value" \in c.nothrow

\* alive tells whether dst exists before the call: a constructor has no
\* requires clause about exceptions, and emplace and swap need an object.
MayCall(p, c, dstAlive, srcAlive) ==
    /\ CallOf(p, c)
    /\ IF dstAlive THEN Requires(p, c) ELSE c.op \notin {"emplace", "swap"}
    /\ HasSource(c) => srcAlive

\* Mutant: the assignments are forgotten.
NoexceptForgetsAssign(c, dstAlive) == c.op = "emplace" \/ Concerned(c) \subseteq c.nothrow

\* The noexcept specification of the function called.
Noexcept(c, dstAlive) ==
    \/ c.op = "emplace"
    \/ /\ Concerned(c) \subseteq c.nothrow
       /\ dstAlive => Concerned(c) \subseteq c.assign
=============================================================================
