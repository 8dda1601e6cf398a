----------------------------- MODULE SemiringSpec -----------------------------
(***************************************************************************)
(* What & and | promise of any carriers.  A side is the set of the words   *)
(* it may hold, the fields of each alternative in a row.  Words multiply   *)
(* by concatenation and sets of them add by union; a side that is not      *)
(* there is the empty set, which annihilates one and is the unit of the    *)
(* other, and void is the empty word.  & multiplies values and adds        *)
(* errors, | does the opposite, and both run by one rule: what multiplies  *)
(* must be there in both operands, what adds is that of the leftmost       *)
(* operand which has it.                                                   *)
(***************************************************************************)
EXTENDS Naturals, Sequences

CONSTANT Offered   \* the operands that may come next, by position

VARIABLES value, error,  \* the words of either side
          live,          \* what is held: side, word and payload
          position       \* operands taken

vars == <<value, error, live, position>>

Times(L, R) == {l \o r : l \in L, r \in R}

Both(which, l, r) == [side |-> which, word |-> l.word \o r.word, payload |-> l.payload \o r.payload]
Select(which, l, r) == CASE l.side = which /\ r.side = which -> Both(which, l, r)
                         [] l.side # which -> l
                         [] OTHER -> r

Init == /\ \E x \in Offered[1] : value = x.value /\ error = x.error /\ live = x.live
        /\ position = 1

Conjoin(x) == /\ value' = Times(value, x.value) /\ error' = error \cup x.error
              /\ live' = Select("value", live, x.live)
Disjoin(x) == /\ value' = value \cup x.value /\ error' = Times(error, x.error)
              /\ live' = Select("error", live, x.live)

Next == /\ position' = position + 1 /\ position' \in DOMAIN Offered
        /\ \E x \in Offered[position'] : Conjoin(x) \/ Disjoin(x)

Spec == Init /\ [][Next]_vars
=============================================================================
