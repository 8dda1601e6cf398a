--------------------------- MODULE ExpectedStorage ---------------------------
(***************************************************************************)
(* The storage of pfn::expected<T, E> (and of fn::expected, which inherits *)
(* the same base): a union of a value and an error beside the flag set_,   *)
(* mutated one constructor, destructor or assignment of T or E at a time,  *)
(* any of which throws unless a trait says otherwise.  The union and the   *)
(* flag are separate memory, and between two steps they may disagree; that *)
(* they agree whenever no call is running, exception or not, is what this  *)
(* module is about.                                                        *)
(***************************************************************************)
EXTENDS ExpectedCalls

VARIABLES profile,  \* the traits of T and E
          alive,    \* the objects within their lifetime
          storage,  \* the union of each object: which member is live, its payload
          set,      \* the flag set_ of each object
          temp,     \* the local tmp, or the byte snapshot; {} when there is none
          call, pc, \* the call in progress and the step it is at
          before,   \* the contents when it began (history)
          result,   \* how it ended: "none", "ok" or "threw"
          fault     \* some step misused a lifetime: undefined behaviour (history)

objects == <<alive, storage, set>>
vars == <<profile, objects, temp, call, pc, before, result, fault>>

NoCall == [op |-> "none"]
Raw == Unborn                      \* a union none of whose members is live
Member(s, p) == [side |-> s, val |-> p]

SideOf(flag) == IF flag THEN "value" ELSE "error"
Held(o) == SideOf(set[o])          \* what operator bool reads, as a member
ContentOf(o) == IF o \in alive THEN Member(Held(o), storage[o].val) ELSE Unborn

\* The member the call makes active, the one it replaces, and where the new one
\* is constructed from.
NewSide == Target(call, IF HasSource(call) THEN before[call.src].side ELSE "value")
OldSide == Other(NewSide)
Incoming == IF HasSource(call) THEN storage[call.src].val ELSE call.val

(***************************************************************************)
(* One step of the program on the union of o, m being its memory before.   *)
(***************************************************************************)
\* std::destroy_at on member s, and its misuse on a member that is not live.
BadDestroy(o, s) == storage[o].side # s
\* std::construct_at: over a live member it ends the lifetime of that one
\* without its destructor, which only a trivial type forgives.
BadConstruct(o) == storage[o].side \notin {"none"} \cup profile.trivial
\* Reading member s.
BadRead(o, s) == storage[o].side # s

\* What reading o's member as an rvalue leaves behind, and what a throwing
\* operation with an rvalue operand may leave behind.
AfterMove(o) == [storage EXCEPT ![o].val = Hollow]
Spoil(S) == IF profile.strong THEN {storage}
            ELSE {[o \in Objects |-> IF o \in R THEN HollowOut(storage[o]) ELSE storage[o]] :
                     R \in SUBSET S}

\* Construction from the call's arguments: the source after it went well.
AfterRead == IF call.op = "move" THEN AfterMove(call.src) ELSE storage
RvalueSource == IF call.op = "move" THEN {call.src} ELSE {}

\* Moving a T or E where the code has no answer to an exception.
BadMove(s) == s \notin profile.move

Leave(how) == pc' = "return" /\ result' = how
Goto(label) == pc' = label /\ UNCHANGED result
Watch(misuse) == fault' = (fault \/ misuse)

Init == /\ profile \in Profiles
        /\ alive = {}
        /\ storage = [o \in Objects |-> Raw]
        /\ set = [o \in Objects |-> FALSE]
        /\ temp = {} /\ call = NoCall /\ pc = "idle"
        /\ before = [o \in Objects |-> Unborn]
        /\ result = "none" /\ fault = FALSE

(***************************************************************************)
(* Which steps a call goes through.                                        *)
(***************************************************************************)
\* The if constexpr chains of _reinit: how `new` replaces the other member.
ReinitArm(new, c) ==
    IF profile.void
    THEN IF new = "value" \/ new \in c.nothrow THEN "direct" ELSE "guarded"
    ELSE IF new \in c.nothrow THEN "direct"
    ELSE IF new \in profile.move THEN "viaTemp"
    ELSE IF Other(new) \in profile.trivial THEN "overwrite"
    ELSE "backup"

ReinitEntry(new, c) == IF ReinitArm(new, c) \in {"direct", "guarded"} THEN "destroy" ELSE "stash"

Entry(c) ==
    CASE c.dst \notin alive -> "create"
      [] c.op = "swap" -> IF set[c.dst] = set[c.src] THEN "swapMembers"
                          ELSE IF profile.void THEN "swapDestroy" ELSE "swapStash"
      [] c.op = "emplace" -> IF ~profile.void THEN "emplace"
                             ELSE IF set[c.dst] THEN "keep" ELSE "destroy"
      [] OTHER -> LET new == Target(c, Held(c.src))
                  IN  IF Held(c.dst) = new THEN "assign" ELSE ReinitEntry(new, c)

Arm == ReinitArm(NewSide, call)
\* The exception a throwing constructor or assignment raises in this call.
ConstructorThrows == NewSide \notin call.nothrow
AssignmentThrows(s) == s \notin call.assign

Begin == /\ pc = "idle"
         /\ \E c \in CallType : /\ MayCall(profile, c, c.dst \in alive, c.src \in alive)
                                /\ call' = c /\ Goto(Entry(c))
         /\ before' = [o \in Objects |-> ContentOf(o)]
         /\ UNCHANGED <<profile, objects, temp, fault>>

\* Back in the caller, with or without an exception.
Return == /\ pc = "return"
          /\ pc' = "idle" /\ call' = NoCall /\ result' = "none"
          /\ before' = [o \in Objects |-> Unborn]
          /\ UNCHANGED <<profile, objects, temp, fault>>

\* ~_expected_base: the flag says which member to destroy.
Destruct(o) == /\ pc = "idle" /\ o \in alive
               /\ Watch(BadDestroy(o, Held(o)))
               /\ alive' = alive \ {o}
               /\ storage' = [storage EXCEPT ![o] = Raw]
               /\ set' = [set EXCEPT ![o] = FALSE]
               /\ UNCHANGED <<profile, temp, call, pc, before, result>>

(***************************************************************************)
(* Construction: the union's constructor picks the member, set_ follows.   *)
(***************************************************************************)
Create == /\ pc = "create"
          /\ Watch(HasSource(call) /\ BadRead(call.src, NewSide))
          /\ alive' = alive \cup {call.dst}
          /\ storage' = [AfterRead EXCEPT ![call.dst] = Member(NewSide, Incoming)]
          /\ set' = [set EXCEPT ![call.dst] = NewSide = "value"]
          /\ Leave("ok")
          /\ UNCHANGED <<profile, temp, call, before>>

CreateThrows == /\ pc = "create" /\ ConstructorThrows
                /\ storage' \in Spoil(RvalueSource)
                /\ Leave("threw")
                /\ UNCHANGED <<profile, alive, set, temp, call, before, fault>>

(***************************************************************************)
(* Assignment within one side: the operator= of T or of E.                 *)
(***************************************************************************)
Assign == /\ pc = "assign"
          /\ Watch(BadRead(call.dst, NewSide) \/ (HasSource(call) /\ BadRead(call.src, NewSide)))
          /\ storage' = [AfterRead EXCEPT ![call.dst].val = Incoming]
          /\ Leave("ok")
          /\ UNCHANGED <<profile, alive, set, temp, call, before>>

AssignThrows == /\ pc = "assign" /\ AssignmentThrows(NewSide)
                /\ storage' \in Spoil({call.dst} \cup RvalueSource)
                /\ Leave("threw")
                /\ UNCHANGED <<profile, alive, set, temp, call, before, fault>>

(***************************************************************************)
(* Assignment across the sides: _reinit, one arm after the traits.         *)
(***************************************************************************)
\* New tmp(args...), of the viaTemp arm.
StashNew == /\ pc = "stash" /\ Arm = "viaTemp"
            /\ Watch(HasSource(call) /\ BadRead(call.src, NewSide))
            /\ temp' = {Incoming}
            /\ storage' = AfterRead
            /\ Goto("destroy")
            /\ UNCHANGED <<profile, alive, set, call, before>>

StashNewThrows == /\ pc = "stash" /\ Arm = "viaTemp" /\ ConstructorThrows
                  /\ storage' \in Spoil(RvalueSource)
                  /\ Leave("threw")
                  /\ UNCHANGED <<profile, alive, set, temp, call, before, fault>>

\* Mutant: the snapshot is taken after the store through newp (the compiler
\* defect the comment in this arm works around).
StashBytesLate == /\ pc = "stash" /\ Arm = "overwrite"
                  /\ Watch(BadRead(call.dst, OldSide))
                  /\ temp' = {Hollow}
                  /\ Goto("construct")
                  /\ UNCHANGED <<profile, objects, call, before>>

\* memcpy of *oldp into a local buffer; the old member stays where it is.
StashBytes == /\ pc = "stash" /\ Arm = "overwrite"
              /\ Watch(BadRead(call.dst, OldSide))
              /\ temp' = {storage[call.dst].val}
              /\ Goto("construct")
              /\ UNCHANGED <<profile, objects, call, before>>

\* Old tmp(std::move(*oldp)), of the backup arm.
StashOld == /\ pc = "stash" /\ Arm = "backup"
            /\ Watch(BadRead(call.dst, OldSide) \/ BadMove(OldSide))
            /\ temp' = {storage[call.dst].val}
            /\ storage' = AfterMove(call.dst)
            /\ Goto("destroy")
            /\ UNCHANGED <<profile, alive, set, call, before>>

DestroyOld == /\ pc = "destroy"
              /\ Watch(BadDestroy(call.dst, OldSide))
              /\ storage' = [storage EXCEPT ![call.dst] = Raw]
              /\ Goto("construct")
              /\ UNCHANGED <<profile, alive, set, temp, call, before>>

\* construct_at(newp, std::move(tmp)), of the viaTemp arm.
ConstructFromTemp == /\ pc = "construct" /\ Arm = "viaTemp"
                     /\ Watch(BadConstruct(call.dst) \/ BadMove(NewSide))
                     /\ \E p \in temp : storage' = [storage EXCEPT ![call.dst] = Member(NewSide, p)]
                     /\ Goto("flag")
                     /\ UNCHANGED <<profile, alive, set, temp, call, before>>

\* construct_at(newp, args...), of every other arm.
ConstructFromArgs == /\ pc = "construct" /\ Arm # "viaTemp"
                     /\ Watch(BadConstruct(call.dst) \/ (HasSource(call) /\ BadRead(call.src, NewSide)))
                     /\ storage' = [AfterRead EXCEPT ![call.dst] = Member(NewSide, Incoming)]
                     /\ Goto("flag")
                     /\ UNCHANGED <<profile, alive, set, temp, call, before>>

\* An exception in it leaves no member, or, of the overwritten one, half.
ConstructThrows == /\ pc = "construct" /\ Arm # "viaTemp" /\ ConstructorThrows
                   /\ \E m \in Spoil(RvalueSource) : storage' = [m EXCEPT ![call.dst] = Raw]
                   /\ Goto("restore")
                   /\ UNCHANGED <<profile, alive, set, temp, call, before, fault>>

\* The catch handlers: the old member comes back from tmp, from the bytes, or,
\* when it is the placeholder, from nothing; then throw.
Restore == /\ pc = "restore"
           /\ Watch(BadConstruct(call.dst) \/ BadMove(OldSide))
           /\ \E p \in IF Arm = "guarded" THEN {Hollow} ELSE temp :
                 storage' = [storage EXCEPT ![call.dst] = Member(OldSide, p)]
           /\ temp' = {}
           /\ Leave("threw")
           /\ UNCHANGED <<profile, alive, set, call, before>>

\* Mutant: tmp outlives the call.
SetFlagKeepsTemp == /\ pc = "flag"
                    /\ set' = [set EXCEPT ![call.dst] = NewSide = "value"]
                    /\ Leave("ok")
                    /\ UNCHANGED <<profile, alive, storage, temp, call, before, fault>>

\* set_ = ..., after _reinit returned and its tmp is gone.
SetFlag == /\ pc = "flag"
           /\ set' = [set EXCEPT ![call.dst] = NewSide = "value"]
           /\ temp' = {}
           /\ Leave("ok")
           /\ UNCHANGED <<profile, alive, storage, call, before, fault>>

(***************************************************************************)
(* emplace destroys whatever is there and sets the flag before it          *)
(* constructs; emplace of expected<void, E> has work only on an error.     *)
(***************************************************************************)
EmplaceDestroy == /\ pc = "emplace"
                  /\ Watch(BadDestroy(call.dst, Held(call.dst)))
                  /\ storage' = [storage EXCEPT ![call.dst] = Raw]
                  /\ set' = [set EXCEPT ![call.dst] = TRUE]
                  /\ Goto("emplaceNew")
                  /\ UNCHANGED <<profile, alive, temp, call, before>>

EmplaceConstruct == /\ pc = "emplaceNew"
                    /\ Watch(BadConstruct(call.dst) \/ ConstructorThrows)
                    /\ storage' = [storage EXCEPT ![call.dst] = Member("value", call.val)]
                    /\ Leave("ok")
                    /\ UNCHANGED <<profile, alive, set, temp, call, before>>

EmplaceKeeps == /\ pc = "keep"
                /\ Leave("ok")
                /\ UNCHANGED <<profile, objects, temp, call, before, fault>>

(***************************************************************************)
(* swap.  Across the sides, one member goes through a temporary: the error *)
(* when its move does not throw, else the value.  Holder is the object     *)
(* that holds this pivot when the swap begins, Peer the other one; which   *)
(* of them is *this does not matter.                                       *)
(***************************************************************************)
Pivot == IF "error" \in profile.move /\ ~profile.void THEN "error" ELSE "value"
Holder == IF before[call.dst].side = Pivot THEN call.dst ELSE call.src
Peer == IF Holder = call.dst THEN call.src ELSE call.dst
Stashed == IF profile.void THEN {Hollow} ELSE temp

SwapMembers == /\ pc = "swapMembers"
               /\ Watch(BadRead(call.dst, NewSide) \/ BadRead(call.src, NewSide))
               /\ storage' = [storage EXCEPT ![call.dst].val = storage[call.src].val,
                                             ![call.src].val = storage[call.dst].val]
               /\ Leave("ok")
               /\ UNCHANGED <<profile, alive, set, temp, call, before>>

SwapMembersThrows == /\ pc = "swapMembers" /\ AssignmentThrows(NewSide)
                     /\ storage' \in Spoil({call.dst, call.src})
                     /\ Leave("threw")
                     /\ UNCHANGED <<profile, alive, set, temp, call, before, fault>>

SwapStash == /\ pc = "swapStash"
             /\ Watch(BadRead(Holder, Pivot) \/ BadMove(Pivot))
             /\ temp' = {storage[Holder].val}
             /\ storage' = AfterMove(Holder)
             /\ Goto("swapDestroy")
             /\ UNCHANGED <<profile, alive, set, call, before>>

SwapDestroy == /\ pc = "swapDestroy"
               /\ Watch(BadDestroy(Holder, Pivot))
               /\ storage' = [storage EXCEPT ![Holder] = Raw]
               /\ Goto("swapMove")
               /\ UNCHANGED <<profile, alive, set, temp, call, before>>

\* Mutant: the holder's member is constructed after its source was moved from.
SwapMoveLate == /\ pc = "swapMove"
                /\ Watch(BadConstruct(Holder) \/ BadRead(Peer, Other(Pivot)))
                /\ storage' = [AfterMove(Peer) EXCEPT ![Holder] = Member(Other(Pivot), Hollow)]
                /\ Goto("swapRelease")
                /\ UNCHANGED <<profile, alive, set, temp, call, before>>

SwapMove == /\ pc = "swapMove"
            /\ Watch(BadConstruct(Holder) \/ BadRead(Peer, Other(Pivot)))
            /\ storage' = [AfterMove(Peer) EXCEPT ![Holder] = Member(Other(Pivot), storage[Peer].val)]
            /\ Goto("swapRelease")
            /\ UNCHANGED <<profile, alive, set, temp, call, before>>

SwapMoveThrows == /\ pc = "swapMove" /\ Other(Pivot) \notin call.nothrow
                  /\ storage' \in Spoil({Peer})
                  /\ Goto("swapRestore")
                  /\ UNCHANGED <<profile, alive, set, temp, call, before, fault>>

\* Mutant: the handler throws before it constructs the pivot again.
SwapRestoreForgets == /\ pc = "swapRestore"
                      /\ Watch(BadConstruct(Holder) \/ BadMove(Pivot))
                      /\ temp' = {}
                      /\ Leave("threw")
                      /\ UNCHANGED <<profile, alive, storage, set, call, before>>

SwapRestore == /\ pc = "swapRestore"
               /\ Watch(BadConstruct(Holder) \/ BadMove(Pivot))
               /\ \E p \in Stashed : storage' = [storage EXCEPT ![Holder] = Member(Pivot, p)]
               /\ temp' = {}
               /\ Leave("threw")
               /\ UNCHANGED <<profile, alive, set, call, before>>

SwapRelease == /\ pc = "swapRelease"
               /\ Watch(BadDestroy(Peer, Other(Pivot)))
               /\ storage' = [storage EXCEPT ![Peer] = Raw]
               /\ Goto("swapFinish")
               /\ UNCHANGED <<profile, alive, set, temp, call, before>>

\* An exception here would reach a handler that constructs over a live member.
SwapFinish == /\ pc = "swapFinish"
              /\ Watch(BadConstruct(Peer) \/ BadMove(Pivot))
              /\ \E p \in Stashed : storage' = [storage EXCEPT ![Peer] = Member(Pivot, p)]
              /\ Goto("swapFlags")
              /\ UNCHANGED <<profile, alive, set, temp, call, before>>

\* Mutant: only one of the two flags is turned.
SwapFlagsOneSided == /\ pc = "swapFlags"
                     /\ set' = [set EXCEPT ![Holder] = Pivot = "error"]
                     /\ temp' = {}
                     /\ Leave("ok")
                     /\ UNCHANGED <<profile, alive, storage, call, before, fault>>

SwapFlags == /\ pc = "swapFlags"
             /\ set' = [set EXCEPT ![Holder] = Pivot = "error", ![Peer] = Pivot = "value"]
             /\ temp' = {}
             /\ Leave("ok")
             /\ UNCHANGED <<profile, alive, storage, call, before, fault>>

Reinit == \/ StashNew \/ StashNewThrows \/ StashBytes \/ StashOld
          \/ DestroyOld \/ ConstructFromTemp \/ ConstructFromArgs \/ ConstructThrows
          \/ Restore \/ SetFlag

Swap == \/ SwapMembers \/ SwapMembersThrows \/ SwapStash \/ SwapDestroy \/ SwapMove
        \/ SwapMoveThrows \/ SwapRestore \/ SwapRelease \/ SwapFinish \/ SwapFlags

Step == \/ Create \/ CreateThrows \/ Assign \/ AssignThrows
        \/ EmplaceDestroy \/ EmplaceConstruct \/ EmplaceKeeps
        \/ Reinit \/ Swap

Next == Begin \/ Step \/ Return \/ \E o \in Objects : Destruct(o)

Spec == Init /\ [][Next]_vars

(***************************************************************************)
(* Properties.                                                             *)
(***************************************************************************)
\* The steps a call goes through, by the function that takes them.
ReinitSteps == {"stash", "destroy", "construct", "restore", "flag"}
SwapSteps == {"swapMembers", "swapStash", "swapDestroy", "swapMove", "swapRestore",
              "swapRelease", "swapFinish", "swapFlags"}
EmplaceSteps == {"emplace", "emplaceNew", "keep"}
Labels == {"idle", "return", "create", "assign"} \cup ReinitSteps \cup SwapSteps \cup EmplaceSteps

AtRest == pc \in {"idle", "return"}
Memory == [side: Sides \cup {"none"}, val: Payloads]

\* Every variable keeps its type, and the temporary of _reinit or _swap_helper
\* is gone when the call is over, whichever way it ends.
TypeOK == /\ profile \in Profiles
          /\ alive \in SUBSET Objects
          /\ storage \in [Objects -> Memory]
          /\ set \in [Objects -> BOOLEAN]
          /\ temp \in SUBSET Payloads /\ (AtRest => temp = {})
          /\ pc \in Labels
          /\ IF pc = "idle" THEN call = NoCall ELSE call \in CallType
          /\ before \in [Objects -> Memory]
          /\ result \in {"none", "ok", "threw"}
          /\ fault \in BOOLEAN

\* Whenever no call is running, the flag of every object tells which member of
\* its union is live, and an object that does not exist holds none: no call,
\* and no exception out of _reinit, _swap_helper or emplace, makes an expected
\* valueless or its flag a lie.
NeverValueless == AtRest => \A o \in Objects :
                     storage[o].side = IF o \in alive THEN Held(o) ELSE "none"

\* No step destroys or reads a member that is not live, constructs over a live
\* member that needs its destructor, or moves a T or E where an exception could
\* not be undone: the arm chosen by `if constexpr` is always one the requires
\* clause of the caller makes safe.
NoLifetimeFault == ~fault

\* The exception guarantee.  A call that throws changes neither the existence
\* nor the side of any object; an assignment that would have changed the side
\* of its target leaves it the payload too, however badly T and E behave when
\* they throw; and all contents are as before when T and E themselves give the
\* strong guarantee.
ExceptionGuarantee ==
    pc = "return" /\ result = "threw" =>
        /\ \A o \in Objects : ContentOf(o).side = before[o].side
        /\ call.op # "swap" /\ before[call.dst].side # NewSide
              => ContentOf(call.dst) = before[call.dst]
        /\ profile.strong => \A o \in Objects : ContentOf(o) = before[o]

\* A function declared noexcept never lets an exception out (it would end in
\* std::terminate): the declared condition covers every constructor and every
\* assignment on every path through the body.
NoexceptHonest == result = "threw" => ~Noexcept(call, call.dst \in alive)

\* The abstract machine this storage implements.  While a call runs the objects
\* are, to the outside, what they were when it began.
Promise == INSTANCE ExpectedSpec WITH
               obj <- IF AtRest THEN [o \in Objects |-> ContentOf(o)] ELSE before,
               phase <- IF AtRest THEN pc ELSE "busy"

\* Every run of the storage machine is, step for step, one of the abstract
\* expected: a call that returns has its whole effect (an assignment makes the
\* target equal the source, a swap loses neither payload), one that throws none
\* but what T's and E's own operations spoiled.
ImplementsExpected == Promise!Spec

\* The strong exception guarantee as CHANGELOG.md:63 states it: "`copack`,
\* `choice`, `optional` and `expected` assign with the strong exception
\* guarantee".  An assignment that throws leaves its target as it was, whatever
\* T and E do.
AssignsStrongly == pc = "return" /\ result = "threw" /\ call.op # "swap"
                     => ContentOf(call.dst) = before[call.dst]
=============================================================================
