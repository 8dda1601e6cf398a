--------------------------- MODULE OptionalStorage ---------------------------
(***************************************************************************)
(* The storage of pfn::optional<T> (and of fn::optional, which inherits    *)
(* the same base): a union of the value and a placeholder beside the flag  *)
(* set_, mutated one construction, destruction or assignment of T at a     *)
(* time, any of which may throw; and optional<T&>, a bare pointer.         *)
(*                                                                         *)
(* Two passes do all the work across the states: to gain a value (destroy  *)
(* the placeholder, construct, set_ = true, with a handler that puts the   *)
(* placeholder back) and to lose it (destroy the value, construct the      *)
(* placeholder, set_ = false).  emplace loses before it gains, a swap      *)
(* gains on one object before it loses on the other.                       *)
(***************************************************************************)
EXTENDS OptionalCalls

VARIABLES profile,  \* the traits of T
          alive,    \* the optional<T> objects within their lifetime
          storage,  \* the union of each: "value", the placeholder ("empty"), or neither
          set,      \* the flag set_ of each
          refs,     \* the pointer v_ of each optional<T&>: whose value, or "null"
          call, pc, \* the call in progress and the step it is at
          before,   \* the contents when it began (history)
          result,   \* how it ended: "none", "ok" or "threw"
          fault     \* some step misused a lifetime: undefined behaviour (history)

vars == <<profile, alive, storage, set, refs, call, pc, before, result, fault>>

NoCall == [op |-> "none"]
Raw == Unborn
SideOf(flag) == IF flag THEN "value" ELSE "empty"
ContentOf(o) == IF o \in alive THEN [side |-> SideOf(set[o]), val |-> storage[o].val] ELSE Unborn

\* has_value() of the argument, and whether it may be read at all.
HasValue(s) == IF s \in Objects THEN set[s] ELSE refs[s] # "null"
Readable(s) == IF s \in Objects THEN s \in alive ELSE refs[s] # "null" => set[refs[s]]

BadDestroy(o, s) == storage[o].side # s
BadConstruct(o) == storage[o].side # "none"
BadRead(o) == storage[o].side # "value"

\* The object that gains a value, the one that loses its own, and the one the
\* new value is read from.
Gainer == IF call.op = "swap" /\ before[call.dst].side = "value" THEN call.src ELSE call.dst
Loser == IF call.op = "swap" /\ before[call.dst].side = "empty" THEN call.src ELSE call.dst
Donor == IF call.op = "swap" THEN Loser
         ELSE IF call.src \in Refs THEN refs[call.src] ELSE call.src
Borrows == call.op \in Reading
Incoming == IF Borrows THEN storage[Donor].val ELSE call.val

\* Mutant: *std::move(ref) is taken for an rvalue of the referent.
AfterReadThroughRef == IF Borrows /\ call.op # "copy" THEN [storage EXCEPT ![Donor].val = Hollow] ELSE storage

\* The union of the donor once the value is read, by copy or by move.
AfterRead == IF call.op \in {"move", "swap"} THEN [storage EXCEPT ![Donor].val = Hollow] ELSE storage
Spoil(S) == IF profile.strong THEN {storage}
            ELSE {[o \in Objects |-> IF o \in R THEN HollowOut(storage[o]) ELSE storage[o]] :
                     R \in SUBSET S}
RvalueDonor == IF call.op \in {"move", "swap"} THEN {Donor} ELSE {}

Leave(how) == pc' = "return" /\ result' = how
Goto(label) == pc' = label /\ UNCHANGED result
Watch(misuse) == fault' = (fault \/ misuse)

Init == /\ profile \in Profiles
        /\ alive = {}
        /\ storage = [o \in Objects |-> Raw]
        /\ set = [o \in Objects |-> FALSE]
        /\ refs = [r \in Refs |-> "null"]
        /\ call = NoCall /\ pc = "idle"
        /\ before = [o \in Objects |-> Unborn]
        /\ result = "none" /\ fault = FALSE

(***************************************************************************)
(* The branches of _assign, _assign_value, _assign_from, _swap_with, reset *)
(* and emplace.                                                            *)
(***************************************************************************)
Gives(c) == IF c.op \in Reading THEN HasValue(c.src) ELSE c.op # "reset"

Entry(c) ==
    IF c.dst \notin alive THEN "create"
    ELSE CASE c.op = "swap" -> IF set[c.dst] # set[c.src] THEN "clear"
                               ELSE IF set[c.dst] THEN "swapValues" ELSE "keep"
           [] c.op = "emplace" -> IF set[c.dst] THEN "destroy" ELSE "clear"
           [] OTHER -> IF set[c.dst] THEN IF Gives(c) THEN "assign" ELSE "destroy"
                       ELSE IF Gives(c) THEN "clear" ELSE "keep"

Begin == /\ pc = "idle"
         /\ \E c \in CallType : /\ MayCall(profile, c, c.dst \in alive, Readable(c.src))
                                /\ call' = c /\ Goto(Entry(c))
         /\ before' = [o \in Objects |-> ContentOf(o)]
         /\ UNCHANGED <<profile, alive, storage, set, refs, fault>>

Return == /\ pc = "return"
          /\ pc' = "idle" /\ call' = NoCall /\ result' = "none"
          /\ before' = [o \in Objects |-> Unborn]
          /\ UNCHANGED <<profile, alive, storage, set, refs, fault>>

\* ~_optional_base destroys the value the flag speaks of; the placeholder is
\* trivial and needs nothing.
Destruct(o) == /\ pc = "idle" /\ o \in alive
               /\ Watch(set[o] /\ BadDestroy(o, "value"))
               /\ alive' = alive \ {o}
               /\ storage' = [storage EXCEPT ![o] = Raw]
               /\ set' = [set EXCEPT ![o] = FALSE]
               /\ UNCHANGED <<profile, refs, call, pc, before, result>>

(***************************************************************************)
(* Construction.                                                           *)
(***************************************************************************)
Create == /\ pc = "create"
          /\ Watch(Borrows /\ Gives(call) /\ BadRead(Donor))
          /\ alive' = alive \cup {call.dst}
          /\ storage' = IF Gives(call) THEN [AfterRead EXCEPT ![call.dst] = Full(Incoming)]
                        ELSE [storage EXCEPT ![call.dst] = Empty]
          /\ set' = [set EXCEPT ![call.dst] = Gives(call)]
          /\ Leave("ok")
          /\ UNCHANGED <<profile, refs, call, before>>

CreateThrows == /\ pc = "create" /\ Gives(call) /\ ~call.nothrow
                /\ storage' \in Spoil(RvalueDonor)
                /\ Leave("threw")
                /\ UNCHANGED <<profile, alive, set, refs, call, before, fault>>

(***************************************************************************)
(* Both hold a value: T's own assignment, or T's own swap.                 *)
(***************************************************************************)
Assign == /\ pc = "assign"
          /\ Watch(BadRead(call.dst) \/ (Borrows /\ BadRead(Donor)))
          /\ storage' = [AfterRead EXCEPT ![call.dst].val = Incoming]
          /\ Leave("ok")
          /\ UNCHANGED <<profile, alive, set, refs, call, before>>

AssignThrows == /\ pc = "assign" /\ ~call.assign
                /\ storage' \in Spoil({call.dst} \cup RvalueDonor)
                /\ Leave("threw")
                /\ UNCHANGED <<profile, alive, set, refs, call, before, fault>>

SwapValues == /\ pc = "swapValues"
              /\ Watch(BadRead(call.dst) \/ BadRead(call.src))
              /\ storage' = [storage EXCEPT ![call.dst].val = storage[call.src].val,
                                            ![call.src].val = storage[call.dst].val]
              /\ Leave("ok")
              /\ UNCHANGED <<profile, alive, set, refs, call, before>>

SwapValuesThrows == /\ pc = "swapValues" /\ ~call.assign
                    /\ storage' \in Spoil({call.dst, call.src})
                    /\ Leave("threw")
                    /\ UNCHANGED <<profile, alive, set, refs, call, before, fault>>

\* Neither holds a value, or there is none to reset.
Keep == /\ pc = "keep"
        /\ Leave("ok")
        /\ UNCHANGED <<profile, alive, storage, set, refs, call, before, fault>>

(***************************************************************************)
(* Gaining a value: _reinit from the placeholder to T.                     *)
(***************************************************************************)
ClearPlaceholder == /\ pc = "clear"
                    /\ Watch(BadDestroy(Gainer, "empty"))
                    /\ storage' = [storage EXCEPT ![Gainer] = Raw]
                    /\ Goto("construct")
                    /\ UNCHANGED <<profile, alive, set, refs, call, before>>

Construct == /\ pc = "construct"
             /\ Watch(BadConstruct(Gainer) \/ (Borrows /\ BadRead(Donor)))
             /\ storage' = [AfterRead EXCEPT ![Gainer] = Full(Incoming)]
             /\ Goto("setFlag")
             /\ UNCHANGED <<profile, alive, set, refs, call, before>>

ConstructThrows == /\ pc = "construct" /\ ~call.nothrow
                   /\ storage' \in Spoil(RvalueDonor)
                   /\ Goto("restore")
                   /\ UNCHANGED <<profile, alive, set, refs, call, before, fault>>

\* Mutant: the handler only rethrows.
RestoreForgets == /\ pc = "restore"
                  /\ Leave("threw")
                  /\ UNCHANGED <<profile, alive, storage, set, refs, call, before, fault>>

\* Mutant: with the argument still intact the handler tries again instead of rethrowing.
RestoreRetries == /\ pc = "restore"
                  /\ Watch(BadConstruct(Gainer))
                  /\ storage' = [storage EXCEPT ![Gainer] = Empty]
                  /\ IF RvalueDonor = {} THEN Goto("clear") ELSE Leave("threw")
                  /\ UNCHANGED <<profile, alive, set, refs, call, before>>

\* The handler of _reinit.
Restore == /\ pc = "restore"
           /\ Watch(BadConstruct(Gainer))
           /\ storage' = [storage EXCEPT ![Gainer] = Empty]
           /\ Leave("threw")
           /\ UNCHANGED <<profile, alive, set, refs, call, before>>

SetFlag == /\ pc = "setFlag"
           /\ set' = [set EXCEPT ![Gainer] = TRUE]
           /\ IF call.op = "swap" THEN Goto("destroy") ELSE Leave("ok")
           /\ UNCHANGED <<profile, alive, storage, refs, call, before, fault>>

(***************************************************************************)
(* Losing it: _reinit from T to the placeholder, which cannot throw.       *)
(***************************************************************************)
DestroyValue == /\ pc = "destroy"
                /\ Watch(BadDestroy(Loser, "value"))
                /\ storage' = [storage EXCEPT ![Loser] = Raw]
                /\ Goto("placeholder")
                /\ UNCHANGED <<profile, alive, set, refs, call, before>>

ConstructPlaceholder == /\ pc = "placeholder"
                        /\ Watch(BadConstruct(Loser))
                        /\ storage' = [storage EXCEPT ![Loser] = Empty]
                        /\ Goto("clearFlag")
                        /\ UNCHANGED <<profile, alive, set, refs, call, before>>

\* Mutant: set_ stays.
ClearFlagForgets == /\ pc = "clearFlag"
                    /\ IF call.op = "emplace" THEN Goto("clear") ELSE Leave("ok")
                    /\ UNCHANGED <<profile, alive, storage, set, refs, call, before, fault>>

ClearFlag == /\ pc = "clearFlag"
             /\ set' = [set EXCEPT ![Loser] = FALSE]
             /\ IF call.op = "emplace" THEN Goto("clear") ELSE Leave("ok")
             /\ UNCHANGED <<profile, alive, storage, refs, call, before, fault>>

(***************************************************************************)
(* optional<T&>: one pointer is written, and nothing else.  A conversion   *)
(* that throws does so before the pointer is written and leaves no trace.  *)
(***************************************************************************)
RefBind(r, o) == /\ pc = "idle" /\ o \in alive
                 /\ refs' = [refs EXCEPT ![r] = IF set[o] THEN o ELSE "null"]
                 /\ UNCHANGED <<profile, alive, storage, set, call, pc, before, result, fault>>

\* Mutant: the address of the source optional<T&>, not of its referent.
RefAssignAddress(r, q) == /\ pc = "idle"
                          /\ refs' = [refs EXCEPT ![r] = q]
                          /\ UNCHANGED <<profile, alive, storage, set, call, pc, before, result, fault>>

RefAssign(r, q) == /\ pc = "idle"
                   /\ refs' = [refs EXCEPT ![r] = refs[q]]
                   /\ UNCHANGED <<profile, alive, storage, set, call, pc, before, result, fault>>

RefSwap(r, q) == /\ pc = "idle"
                 /\ refs' = [refs EXCEPT ![r] = refs[q], ![q] = refs[r]]
                 /\ UNCHANGED <<profile, alive, storage, set, call, pc, before, result, fault>>

RefReset(r) == /\ pc = "idle"
               /\ refs' = [refs EXCEPT ![r] = "null"]
               /\ UNCHANGED <<profile, alive, storage, set, call, pc, before, result, fault>>

Step == \/ Create \/ CreateThrows \/ Assign \/ AssignThrows
        \/ SwapValues \/ SwapValuesThrows \/ Keep
        \/ ClearPlaceholder \/ Construct \/ ConstructThrows \/ Restore \/ SetFlag
        \/ DestroyValue \/ ConstructPlaceholder \/ ClearFlag

RefStep == \E r \in Refs : \/ \E o \in Objects : RefBind(r, o)
                           \/ \E q \in Refs : RefAssign(r, q) \/ RefSwap(r, q)
                           \/ RefReset(r)

Next == Begin \/ Step \/ Return \/ RefStep \/ \E o \in Objects : Destruct(o)

\* A call that began runs on: nothing in it waits for anything.
Spec == Init /\ [][Next]_vars /\ WF_vars(Step) /\ WF_vars(Return)

(***************************************************************************)
(* Properties.                                                             *)
(***************************************************************************)
AtRest == pc \in {"idle", "return"}
Labels == {"idle", "return", "create", "assign", "swapValues", "keep", "clear", "construct",
           "restore", "setFlag", "destroy", "placeholder", "clearFlag"}
Memory == [side: {"value", "empty", "none"}, val: Payloads]

\* Every variable keeps its type; an optional<T&> points at the value of an
\* optional<T> or nowhere, never at another optional<T&>.
TypeOK == /\ profile \in Profiles
          /\ alive \in SUBSET Objects
          /\ storage \in [Objects -> Memory]
          /\ set \in [Objects -> BOOLEAN]
          /\ refs \in [Refs -> Objects \cup {"null"}]
          /\ pc \in Labels
          /\ IF pc = "idle" THEN call = NoCall ELSE call \in CallType
          /\ before \in [Objects -> Memory]
          /\ result \in {"none", "ok", "threw"}
          /\ fault \in BOOLEAN

\* "placeholder, so the union always has an active member" (optional.hpp:260):
\* whenever no call is running, the flag of every object tells which member of
\* its union is live, and there is one, whatever threw on the way.
FlagTells == AtRest => \A o \in Objects :
                storage[o].side = IF o \in alive THEN SideOf(set[o]) ELSE "none"

\* No step of any call destroys or reads a member that is not live, or
\* constructs over one that is: each step relies on what the earlier ones left,
\* emplace and swap on two passes of _reinit each.
NoLifetimeFault == ~fault

\* The abstract machine this storage implements.  While a call runs the objects
\* are, to the outside, what they were when it began.
Promise == INSTANCE OptionalSpec WITH
               obj <- IF AtRest THEN [o \in Objects |-> ContentOf(o)] ELSE before,
               phase <- IF AtRest THEN pc ELSE "busy"

\* Every run of the storage machine is, step for step, one of the abstract
\* optional: an assignment or swap that throws leaves both objects as engaged
\* as they were, an emplace that throws leaves its target empty, a noexcept call
\* never throws, and reading through an optional<T&>, rvalue or not, leaves the
\* referent what it was.
ImplementsOptional == Promise!Safety

\* The same with fairness: every call comes to an end, whichever passes of
\* _reinit it takes and whatever throws in them.
ImplementsOptionalLive == Promise!Spec
=============================================================================
