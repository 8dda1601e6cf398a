---------------------------- MODULE OptionalCalls ----------------------------
(***************************************************************************)
(* The vocabulary shared by the abstract specification of pfn::optional    *)
(* (OptionalSpec) and by its storage machine (OptionalStorage).  Objects   *)
(* are optional<T>; Refs are optional<T&>, pointers to the value some      *)
(* object holds.  Payloads are as in ExpectedCalls.                        *)
(***************************************************************************)
CONSTANTS Objects,   \* the optional<T> objects of the program
          Refs,      \* the optional<T&> objects
          Values,    \* payloads a caller supplies
          Hollow,    \* the moved-from payload
          Profiles   \* the types T to consider, each as a ProfileType

Payloads == Values \cup {Hollow}

\* move: T's move construction does not throw.  strong is no trait: a throwing
\* operation of T leaves its operands alone.
ProfileType == [move: BOOLEAN, strong: BOOLEAN]

ASSUME OptionalAssumption == /\ Profiles \subseteq ProfileType
                             /\ Hollow \notin Values
                             /\ Objects \cap Refs = {}
                             /\ "null" \notin Objects

Full(p) == [side |-> "value", val |-> p]
Empty == [side |-> "empty", val |-> Hollow]
Unborn == [side |-> "none", val |-> Hollow]
HollowOut(c) == [c EXCEPT !.val = Hollow]

(***************************************************************************)
(* A call mutates the object dst.  copy and move read src, an optional of  *)
(* the same or of another type; fromRef reads src, an optional<T&>; value  *)
(* and emplace bring a payload.  reset is also operator=(nullopt), and,    *)
(* when dst does not exist, the constructor of the empty state.  nothrow   *)
(* tells whether T is made from this call's arguments without a throw,     *)
(* assign whether it is assigned (or swapped) without one.                 *)
(***************************************************************************)
Reading == {"copy", "move", "fromRef", "swap"}
Ops == Reading \cup {"value", "emplace", "reset"}
CallType == [op: Ops, dst: Objects, src: Objects \cup Refs, val: Payloads,
             nothrow: BOOLEAN, assign: BOOLEAN]

\* A swap moves.  A self-move is left to T.
CallOf(p, c) == /\ c.op = "swap" => c.nothrow = p.move
                /\ c.op = "move" => c.dst # c.src
                /\ IF c.op \in Reading THEN c.src \in Refs <=> c.op = "fromRef"
                                       ELSE c.src = c.dst
                /\ c.op \in {"value", "emplace"} <=> c.val \in Values

\* alive tells whether dst exists already, readable whether src exists and, when
\* it is a reference, does not dangle.
MayCall(p, c, alive, readable) == /\ CallOf(p, c)
                                  /\ c.op \in {"emplace", "swap"} => alive
                                  /\ c.op \in Reading => readable

\* The noexcept specification of the function called.
Noexcept(c, alive) == CASE c.op = "reset" -> TRUE
                        [] c.op = "emplace" -> FALSE
                        [] OTHER -> c.nothrow /\ (alive => c.assign)
=============================================================================
