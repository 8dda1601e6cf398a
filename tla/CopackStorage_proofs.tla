------------------------ MODULE CopackStorage_proofs ------------------------
(***************************************************************************)
(* Proofs about CopackStorage, for any objects, alternatives, payloads and *)
(* traits.                                                                 *)
(*                                                                         *)
(* What a call may rely on is in the storage it began with.  The invariant *)
(* says, for each step, how far the storage and the temporary have moved   *)
(* away from it (MemInv), and which of the requires clauses and if         *)
(* constexpr conditions led there (CallInv): the two together decide that  *)
(* each handler has a nothrow operation left to restore the alternative    *)
(* with.                                                                   *)
(***************************************************************************)
EXTENDS CopackStorage, TLAPS

Whole(o) == (storage[o].alt # "none") <=> o \in alive

Types == /\ profile \in Profiles
         /\ alive \in SUBSET Objects
         /\ storage \in [Objects -> Content \cup {Raw}]
         /\ temp \in SUBSET Payloads
         /\ pc \in Labels
         /\ IF pc = "idle" THEN call = NoCall ELSE call \in CallType
         /\ before \in [Objects -> Content \cup {Raw}]
         /\ result \in {"none", "ok", "threw"}
         /\ (result # "none") <=> pc = "return"
         /\ fault \in BOOLEAN

ReinitSteps == {"stash", "destroy", "construct"}
Guarded == {"reassignStash", "assignTemp", "snapMove", "snapCopy", "assign", "rollback", "restore"}
ReassignSteps == Guarded \cup {"plain"}
Untouched == {"create", "self", "stash", "reassignStash", "plain", "snapMove", "snapCopy"}

\* The payload a call was given, and the storage once it was read.
Given == IF HasSource(call) THEN before[call.src].val
         ELSE IF call.alias THEN before[call.dst].val ELSE call.val
Taken == IF call.op = "move" THEN [before EXCEPT ![call.src].val = Hollow] ELSE before
Stashed == pc = "assignTemp" \/ NewAlt \notin call.nothrow
Working == IF Stashed THEN Taken ELSE before

CallInv == ~AtRest =>
    /\ MayCall(profile, call, pc # "create", call.src \in alive, before[call.dst].alt)
    /\ (call.dst \in alive) <=> (pc # "create")
    /\ \A o \in Objects : (before[o].alt # "none") <=> o \in alive
    /\ HasSource(call) => (call.src = call.dst <=> pc = "self")
    /\ pc = "self" => HasSource(call)
    /\ pc \in ReinitSteps => ~call.alias
    /\ pc = "stash" => NewAlt \notin call.nothrow
    /\ pc \in ReassignSteps => call.op # "emplace" /\ before[call.dst].alt = NewAlt
    /\ pc \in Guarded => NewAlt \notin call.assign
    /\ pc \in {"reassignStash", "assignTemp"} => NewAlt \in profile.moveAssign
    /\ pc = "snapMove" => NewAlt \in profile.move
    /\ pc = "snapCopy" => NewAlt \in call.nothrow
    /\ pc \in {"assign", "rollback", "restore"} => NewAlt \in profile.move \cup call.nothrow

MemInv ==
    /\ AtRest => temp = {} /\ \A o \in Objects : Whole(o)
    /\ pc \in Untouched => temp = {} /\ storage = before
    /\ pc \in {"destroy", "assignTemp"} => storage = Working
    /\ pc = "construct" => storage = [Working EXCEPT ![call.dst] = Raw]
    /\ pc \in {"destroy", "construct", "assignTemp"} => temp = IF Stashed THEN {Given} ELSE {}
    /\ pc \in {"assign", "rollback", "restore"} => temp = {before[call.dst].val}
    /\ pc = "assign" => /\ storage[call.dst].alt = NewAlt
                        /\ \A o \in Objects \ {call.dst} : storage[o] = before[o]
    /\ pc = "rollback" => \A o \in Objects : storage[o].alt = before[o].alt
    /\ pc = "restore" => /\ storage[call.dst] = Raw
                         /\ \A o \in Objects \ {call.dst} : storage[o].alt = before[o].alt

\* How a call that is over has ended.
EndInv == pc = "return" =>
    /\ result = "threw" => storage[call.dst] = before[call.dst] /\ ~Noexcept(call, call.dst \in alive)
    /\ result = "ok" /\ ~call.alias => \A o \in Objects : storage[o] = Delivered(o)

IInv == Types /\ CallInv /\ MemInv /\ EndInv /\ ~fault

LEMMA InitIInv == Init => IInv
<1> SUFFICES ASSUME Init PROVE IInv
    OBVIOUS
<1>1. Types
    BY DEF Init, Types, Raw, Labels, NoCall
<1>2. CallInv /\ EndInv
    BY DEF Init, CallInv, EndInv, AtRest
<1>3. MemInv
    BY DEF Init, MemInv, AtRest, Whole, Raw, Untouched
<1> QED
    BY <1>1, <1>2, <1>3 DEF IInv, Init

(***************************************************************************)
(* What the steps have in common.                                          *)
(***************************************************************************)
\* A slot is empty, or an alternative with a payload.
LEMMA Slots ==
    ASSUME NEW s \in Content \cup {Raw}
    PROVE  /\ s.alt = "none" => s = Raw
           /\ s.alt # "none" => s \in Content /\ s.alt \in Alts
           /\ s.val \in Payloads
           /\ \A a \in Alts, p \in Payloads : s = [alt |-> a, val |-> p] <=> s.alt = a /\ s.val = p
<1>1. Raw.alt = "none" /\ Raw.val = Hollow /\ "none" \notin Alts
    BY CopackAssumption DEF Raw
<1>2. CASE s = Raw
    BY <1>1, <1>2 DEF Raw, Payloads
<1>3. CASE s \in Content
    BY <1>1, <1>3 DEF Content
<1> QED
    BY <1>2, <1>3

\* The call in progress.
LEMMA InCall ==
    ASSUME IInv, ~AtRest
    PROVE  /\ call \in CallType /\ call.dst \in Objects /\ call.src \in Objects
           /\ NewAlt \in Alts /\ Given \in Payloads
           /\ HasSource(call) => /\ before[call.src] = [alt |-> NewAlt, val |-> Given]
                                 /\ call.src \in alive /\ ~call.alias
           /\ ~HasSource(call) => NewAlt = call.alt /\ call.src = call.dst
           /\ call.op = "move" => HasSource(call)
           /\ call.alias => before[call.dst].alt = NewAlt /\ before[call.dst].val = Given
           /\ pc # "create" => Requires(profile, call)
           /\ profile \in ProfileType
           /\ Taken \in [Objects -> Content \cup {Raw}]
           /\ \A o \in Objects : Taken[o].alt = before[o].alt
           /\ \A o \in Objects : Taken[o] = IF call.op = "move" /\ o = call.src THEN HollowOut(before[o])
                                            ELSE before[o]
<1>1. call \in CallType /\ call.dst \in Objects /\ call.src \in Objects
    BY DEF IInv, Types, AtRest, CallType
<1>2. /\ CallOf(profile, call) /\ profile \in ProfileType
      /\ pc # "create" => Requires(profile, call)
      /\ HasSource(call) => call.src \in alive
      /\ call.alias => call.alt = before[call.dst].alt
    BY CopackAssumption DEF IInv, Types, CallInv, MayCall
<1>3. before[call.src] \in Content \cup {Raw} /\ before[call.dst] \in Content \cup {Raw}
    BY <1>1 DEF IInv, Types
<1>4. ASSUME HasSource(call)
      PROVE  before[call.src] \in Content /\ NewAlt = before[call.src].alt /\ NewAlt \in Alts
    BY <1>1, <1>2, <1>3, <1>4, Slots DEF IInv, CallInv, NewAlt
<1>5. NewAlt \in Alts /\ Given \in Payloads
    BY <1>1, <1>3, <1>4, Slots DEF NewAlt, Given, CallType
<1>6. HasSource(call) => before[call.src] = [alt |-> NewAlt, val |-> Given]
    BY <1>3, <1>4, <1>5, Slots DEF Given
<1>7. call.alias => before[call.dst].alt = NewAlt /\ before[call.dst].val = Given
    BY <1>2 DEF CallOf, NewAlt, Given
<1>8. /\ Taken \in [Objects -> Content \cup {Raw}]
      /\ \A o \in Objects : Taken[o].alt = before[o].alt
      /\ \A o \in Objects : Taken[o] = IF call.op = "move" /\ o = call.src THEN HollowOut(before[o])
                                       ELSE before[o]
    <2>1. before \in [Objects -> Content \cup {Raw}]
        BY DEF IInv, Types
    <2>2. CASE call.op = "move"
        BY <1>1, <1>4, <2>1, <2>2 DEF Taken, HollowOut, Content, Payloads, HasSource
    <2> QED
        BY <2>1, <2>2 DEF Taken
<1> QED
    BY <1>1, <1>2, <1>5, <1>6, <1>7, <1>8 DEF CallOf, HasSource, NewAlt

\* Reading the argument from a storage no step has changed.
LEMMA ReadUntouched ==
    ASSUME IInv, ~AtRest, storage = before
    PROVE  AfterRead = Taken /\ Incoming = Given /\ ~BadArgument
<1>1. Argument = (IF HasSource(call) THEN call.src ELSE call.dst)
    BY DEF Argument
<1> QED
    BY <1>1, InCall DEF AfterRead, Taken, Incoming, Given, BadArgument, BadRead

\* A step that stays in the call keeps what is known of it.
Inside == UNCHANGED <<profile, alive, call, before, result>> /\ ~AtRest /\ ~AtRest'

LEMMA CallGoesOn ==
    ASSUME IInv, Inside
    PROVE  NewAlt' = NewAlt /\ Given' = Given /\ Taken' = Taken /\ EndInv' /\ call \in CallType
           /\ (Types' <=> /\ storage' \in [Objects -> Content \cup {Raw}]
                          /\ temp' \in SUBSET Payloads /\ pc' \in Labels /\ fault' \in BOOLEAN)
    BY DEF Inside, IInv, AtRest, NewAlt, Given, Taken, EndInv, Types

(***************************************************************************)
(* The end of a call.                                                      *)
(***************************************************************************)
LEMMA AtReturn ==
    ASSUME IInv, ~AtRest, pc' = "return", UNCHANGED <<profile, call, before>>,
           alive' \in SUBSET Objects, storage' \in [Objects -> Content \cup {Raw}],
           temp' = {}, result' \in {"ok", "threw"}, fault' \in BOOLEAN, ~fault',
           \A o \in Objects : Whole(o)', EndInv'
    PROVE  IInv'
<1>1. Types'
    BY InCall DEF IInv, Types, Labels
<1>2. CallInv' /\ MemInv'
    BY DEF CallInv, MemInv, AtRest, Untouched
<1> QED
    BY <1>1, <1>2 DEF IInv, Types

\* The storage an effect ends in has the payload in the target, and the source
\* of a move emptied.
LEMMA EffectDelivers ==
    ASSUME IInv, ~AtRest, pc # "self", UNCHANGED <<profile, call, before>>,
           storage' = [Taken EXCEPT ![call.dst] = [alt |-> NewAlt, val |-> Given]]
    PROVE  /\ storage' \in [Objects -> Content \cup {Raw}]
           /\ \A o \in Objects : (storage'[o].alt # "none") <=> o \in alive \cup {call.dst}
           /\ ~call.alias => \A o \in Objects : storage'[o] = Delivered(o)'
<1>1. [alt |-> NewAlt, val |-> Given] \in Content /\ NewAlt # "none"
    BY InCall, CopackAssumption DEF Content
<1>2. storage' \in [Objects -> Content \cup {Raw}]
    BY <1>1, InCall
<1>3. \A o \in Objects : (storage'[o].alt # "none") <=> o \in alive \cup {call.dst}
    BY <1>1, InCall DEF IInv, CallInv
<1>4. ASSUME ~call.alias, NEW o \in Objects PROVE storage'[o] = Delivered(o)'
    <2>1. CASE o # call.dst
        BY <2>1, InCall DEF Delivered
    <2>2. CASE o = call.dst
        BY <1>4, <2>2, InCall DEF Delivered, NewAlt, Given
    <2> QED
        BY <2>1, <2>2
<1> QED
    BY <1>2, <1>3, <1>4

LEMMA EndsWell ==
    ASSUME IInv, ~AtRest, pc # "self", UNCHANGED <<profile, call, before>>,
           storage' = [Taken EXCEPT ![call.dst] = [alt |-> NewAlt, val |-> Given]],
           alive' = alive \cup {call.dst}, temp' = {}, fault' \in BOOLEAN, ~fault', Leave("ok")
    PROVE  IInv'
<1>1. EndInv'
    BY EffectDelivers DEF EndInv, Leave
<1> QED
    BY <1>1, InCall, EffectDelivers, AtReturn DEF Leave, Whole, IInv, Types

\* A throw that found the target as it was.
LEMMA EndsBadly ==
    ASSUME IInv, ~AtRest, UNCHANGED <<profile, alive, call, before, fault>>,
           storage' \in [Objects -> Content \cup {Raw}],
           \A o \in Objects : storage'[o].alt = before[o].alt,
           storage'[call.dst] = before[call.dst],
           temp' = {}, Leave("threw"),
           ~Noexcept(call, call.dst \in alive)
    PROVE  IInv'
<1>1. EndInv'
    BY DEF EndInv, Leave
<1>2. \A o \in Objects : Whole(o)'
    BY DEF Whole, IInv, CallInv
<1> QED
    BY <1>1, <1>2, AtReturn DEF Leave, IInv, Types

\* An alternative that may throw is one the noexcept condition asks about.
LEMMA ThrowsByConstruction ==
    ASSUME IInv, ~AtRest, NewAlt \notin call.nothrow
    PROVE  ~Noexcept(call, call.dst \in alive)
    BY InCall DEF Noexcept, IInv, CallInv

LEMMA ThrowsByAssignment ==
    ASSUME IInv, pc \in Guarded
    PROVE  ~Noexcept(call, call.dst \in alive)
    BY InCall DEF Noexcept, IInv, CallInv, AtRest, Guarded, ReassignSteps

\* The spoils of a throwing operation: payloads go, alternatives stay.
LEMMA SpoilKeepsAlternatives ==
    ASSUME storage \in [Objects -> Content \cup {Raw}], NEW S, NEW m \in Spoil(S)
    PROVE  /\ m \in [Objects -> Content \cup {Raw}]
           /\ \A o \in Objects : m[o].alt = storage[o].alt
           /\ \A o \in Objects : o \notin S => m[o] = storage[o]
<1>1. \A o \in Objects : /\ HollowOut(storage[o]) \in Content \cup {Raw}
                         /\ HollowOut(storage[o]).alt = storage[o].alt
    BY DEF HollowOut, Content, Payloads, Raw
<1> QED
    BY <1>1 DEF Spoil

(***************************************************************************)
(* Where each arm ends.                                                    *)
(***************************************************************************)
LEMMA CreateStep == ASSUME IInv, Create \/ CreateThrows PROVE IInv'
<1>1. pc = "create" /\ ~AtRest /\ storage = before /\ temp = {} /\ call.dst \notin alive
    BY DEF Create, CreateThrows, AtRest, IInv, MemInv, CallInv, Untouched
<1>2. CASE Create
    <2>1. storage' = [Taken EXCEPT ![call.dst] = [alt |-> NewAlt, val |-> Given]] /\ ~fault'
        BY <1>1, <1>2, ReadUntouched DEF Create, Watch, IInv
    <2> QED
        BY <1>1, <1>2, <2>1, EndsWell DEF Create, Watch
<1>3. CASE CreateThrows
    <2>1. call.dst \notin RvalueSource
        BY <1>1, InCall DEF RvalueSource
    <2>2. /\ storage' \in [Objects -> Content \cup {Raw}]
          /\ \A o \in Objects : storage'[o].alt = before[o].alt
          /\ storage'[call.dst] = before[call.dst]
        BY <1>1, <1>3, <2>1, InCall, SpoilKeepsAlternatives DEF CreateThrows, IInv, Types
    <2> QED
        BY <1>1, <1>3, <2>2, ThrowsByConstruction, EndsBadly DEF CreateThrows
<1> QED
    BY <1>2, <1>3

LEMMA SelfAssignStep == ASSUME IInv, SelfAssign PROVE IInv'
<1>1. pc = "self" /\ ~AtRest /\ storage = before /\ temp = {} /\ HasSource(call) /\ call.src = call.dst
    BY DEF SelfAssign, AtRest, IInv, MemInv, CallInv, Untouched
<1>2. EndInv'
    BY <1>1 DEF SelfAssign, EndInv, Leave, objects, Delivered
<1>3. \A o \in Objects : Whole(o)'
    BY <1>1 DEF SelfAssign, objects, Whole, IInv, CallInv
<1> QED
    BY <1>1, <1>2, <1>3, AtReturn DEF SelfAssign, Leave, objects, IInv, Types

LEMMA StashThrowsStep == ASSUME IInv, StashThrows PROVE IInv'
<1>1. pc \in {"stash", "reassignStash"} /\ ~AtRest /\ storage = before /\ temp = {}
    BY DEF StashThrows, AtRest, IInv, MemInv, Untouched
<1>2. call.dst \notin RvalueSource
    BY <1>1 DEF RvalueSource, IInv, CallInv, HasSource
<1>3. /\ storage' \in [Objects -> Content \cup {Raw}]
      /\ \A o \in Objects : storage'[o].alt = before[o].alt
      /\ storage'[call.dst] = before[call.dst]
    BY <1>1, <1>2, InCall, SpoilKeepsAlternatives DEF StashThrows, IInv, Types
<1> QED
    BY <1>1, <1>3, ThrowsByConstruction, EndsBadly DEF StashThrows

LEMMA ConstructStep == ASSUME IInv, ConstructFromArgs \/ ConstructFromTemp PROVE IInv'
<1>1. /\ pc = "construct" /\ ~AtRest /\ storage = [Working EXCEPT ![call.dst] = Raw]
      /\ call.dst \in alive /\ ~call.alias
      /\ HasSource(call) => call.src # call.dst
    BY DEF ConstructFromArgs, ConstructFromTemp, AtRest, IInv, MemInv, CallInv, ReinitSteps
<1>2. before \in [Objects -> Content \cup {Raw}] /\ Raw.alt = "none"
    BY DEF IInv, Types, Raw
<1>3. storage[call.dst].alt = "none"
    BY <1>1, <1>2, InCall DEF Working
<1>4. CASE ConstructFromArgs
    <2>1. Working = before /\ temp = {}
        BY <1>1, <1>4 DEF ConstructFromArgs, Working, Stashed, IInv, MemInv
    <2>2. HasSource(call) => storage[call.src] = before[call.src]
        BY <1>1, <1>2, <2>1, InCall
    <2>3. Incoming = Given /\ ~BadArgument
        BY <1>1, <2>2, InCall DEF Incoming, Argument, Given, BadArgument, BadRead
    <2>4. [AfterRead EXCEPT ![call.dst] = [alt |-> NewAlt, val |-> Given]]
            = [Taken EXCEPT ![call.dst] = [alt |-> NewAlt, val |-> Given]]
        <3>1. CASE call.op = "move"
            BY <1>1, <1>2, <2>1, <3>1, InCall DEF AfterRead, Taken
        <3>2. CASE call.op # "move"
            BY <1>1, <1>2, <2>1, <3>2, InCall DEF AfterRead, Taken
        <3> QED
            BY <3>1, <3>2
    <2>5. fault' \in BOOLEAN /\ ~fault'
        BY <1>3, <1>4, <2>3 DEF ConstructFromArgs, Watch, BadConstruct, IInv
    <2> QED
        BY <1>1, <1>4, <2>1, <2>3, <2>4, <2>5, EndsWell DEF ConstructFromArgs
<1>5. CASE ConstructFromTemp
    <2>1. Working = Taken /\ temp = {Given}
        BY <1>1, <1>5 DEF ConstructFromTemp, Working, Stashed, IInv, MemInv
    <2>2. storage' = [Taken EXCEPT ![call.dst] = [alt |-> NewAlt, val |-> Given]]
        BY <1>1, <1>2, <1>5, <2>1, InCall DEF ConstructFromTemp
    <2>3. NewAlt \in profile.move
        BY <1>1, <1>5, InCall DEF ConstructFromTemp, Requires, NewAlt, HasSource
    <2>4. fault' \in BOOLEAN /\ ~fault'
        BY <1>3, <1>5, <2>3 DEF ConstructFromTemp, Watch, BadConstruct, Relies, IInv
    <2> QED
        BY <1>1, <1>5, <2>2, <2>4, EndsWell DEF ConstructFromTemp
<1> QED
    BY <1>4, <1>5

\* An assignment in place ends in the same storage as a construction.
LEMMA AssignIsConstruct ==
    ASSUME IInv, ~AtRest, NEW m \in [Objects -> Content \cup {Raw}], m[call.dst].alt = NewAlt
    PROVE  [m EXCEPT ![call.dst].val = Given]
             = [m EXCEPT ![call.dst] = [alt |-> NewAlt, val |-> Given]]
<1>1. m[call.dst] \in Content
    BY InCall, Slots, CopackAssumption
<1>2. [m[call.dst] EXCEPT !.val = Given] = [alt |-> NewAlt, val |-> Given]
    BY <1>1 DEF Content
<1> QED
    BY <1>2, InCall

LEMMA AssignPlainStep == ASSUME IInv, AssignPlain PROVE IInv'
<1>1. /\ pc = "plain" /\ ~AtRest /\ storage = before /\ temp = {} /\ call.dst \in alive
      /\ before[call.dst].alt = NewAlt
    BY DEF AssignPlain, AtRest, IInv, MemInv, CallInv, Untouched, ReassignSteps
<1>2. storage' = [Taken EXCEPT ![call.dst] = [alt |-> NewAlt, val |-> Given]]
    BY <1>1, ReadUntouched, InCall, AssignIsConstruct DEF AssignPlain
<1>3. fault' \in BOOLEAN /\ ~fault'
    BY <1>1, ReadUntouched DEF AssignPlain, Watch, BadRead, IInv
<1> QED
    BY <1>1, <1>2, <1>3, EndsWell DEF AssignPlain

LEMMA AssignFromTempStep == ASSUME IInv, AssignFromTemp PROVE IInv'
<1>1. /\ pc = "assignTemp" /\ ~AtRest /\ storage = Taken /\ temp = {Given} /\ call.dst \in alive
      /\ before[call.dst].alt = NewAlt /\ NewAlt \in profile.moveAssign
    BY DEF AssignFromTemp, AtRest, IInv, MemInv, CallInv, Working, Stashed, ReassignSteps, Guarded
<1>2. Taken[call.dst].alt = NewAlt
    BY <1>1, InCall
<1>3. storage' = [Taken EXCEPT ![call.dst] = [alt |-> NewAlt, val |-> Given]]
    BY <1>1, <1>2, InCall, AssignIsConstruct DEF AssignFromTemp
<1>4. fault' \in BOOLEAN /\ ~fault'
    BY <1>1, <1>2 DEF AssignFromTemp, Watch, BadRead, Relies, IInv
<1> QED
    BY <1>1, <1>3, <1>4, EndsWell DEF AssignFromTemp

\* Under a snapshot the argument is intact, unless it is the snapshot's own original.
LEMMA AssignUnderSnapStep == ASSUME IInv, AssignUnderSnap PROVE IInv'
<1>1. /\ pc = "assign" /\ ~AtRest /\ call.dst \in alive /\ before[call.dst].alt = NewAlt
      /\ storage[call.dst].alt = NewAlt
      /\ HasSource(call) => call.src # call.dst
      /\ \A o \in Objects \ {call.dst} : storage[o] = before[o]
      /\ storage \in [Objects -> Content \cup {Raw}]
    BY DEF AssignUnderSnap, AtRest, IInv, MemInv, CallInv, ReassignSteps, Guarded, Types
<1>2. HasSource(call) => storage[call.src] = before[call.src]
    BY <1>1, InCall
<1>3. ~BadArgument /\ Incoming \in Payloads
    BY <1>1, <1>2, InCall, Slots DEF BadArgument, BadRead, Argument, Incoming, CallType
<1>4. AfterRead \in [Objects -> Content \cup {Raw}] /\ AfterRead[call.dst].alt = NewAlt
      /\ \A o \in Objects \ {call.dst} : AfterRead[o] = Taken[o]
    <2>1. CASE call.op = "move"
        BY <1>1, <1>2, <2>1, InCall DEF AfterRead, HollowOut, Content, Payloads
    <2>2. CASE call.op # "move"
        BY <1>1, <2>2, InCall DEF AfterRead
    <2> QED
        BY <2>1, <2>2
<1>5. NewAlt \in Alts /\ NewAlt # "none" /\ call.dst \in Objects
    BY <1>1, InCall, CopackAssumption
<1>6. AfterRead[call.dst] \in Content
    BY <1>4, <1>5, Slots
<1>7. [AfterRead[call.dst] EXCEPT !.val = Incoming] = [alt |-> NewAlt, val |-> Incoming]
    BY <1>4, <1>6 DEF Content
<1>8. storage' = [AfterRead EXCEPT ![call.dst] = [alt |-> NewAlt, val |-> Incoming]]
    BY <1>4, <1>5, <1>7 DEF AssignUnderSnap
<1>9. storage' = [Taken EXCEPT ![call.dst] = [alt |-> NewAlt, val |-> Incoming]]
    BY <1>1, <1>4, <1>8, InCall
<1>10. fault' \in BOOLEAN /\ ~fault'
    BY <1>1, <1>3 DEF AssignUnderSnap, Watch, BadRead, IInv
<1>11. CASE ~call.alias
    <2>1. Incoming = Given
        BY <1>1, <1>2, <1>11, InCall DEF Incoming, Given, Argument
    <2> QED
        BY <1>1, <1>9, <1>10, <2>1, EndsWell DEF AssignUnderSnap
<1>12. CASE call.alias
    <2>1. EndInv'
        BY <1>12 DEF EndInv, AssignUnderSnap, Leave
    <2>2. [alt |-> NewAlt, val |-> Incoming] \in Content
        BY <1>3, <1>5 DEF Content
    <2>3. storage' \in [Objects -> Content \cup {Raw}]
        BY <1>4, <1>5, <1>8, <2>2
    <2>4. \A o \in Objects : Whole(o)'
        BY <1>1, <1>5, <1>9, InCall DEF AssignUnderSnap, Whole, IInv, CallInv
    <2> QED
        BY <1>1, <1>10, <2>1, <2>3, <2>4, AtReturn DEF AssignUnderSnap, Leave, IInv, Types
<1> QED
    BY <1>11, <1>12

LEMMA RestoreStep == ASSUME IInv, Restore PROVE IInv'
<1>1. /\ pc = "restore" /\ ~AtRest /\ storage[call.dst] = Raw /\ temp = {before[call.dst].val}
      /\ before[call.dst].alt = NewAlt /\ NewAlt \in profile.move \cup call.nothrow
      /\ \A o \in Objects \ {call.dst} : storage[o].alt = before[o].alt
    BY DEF Restore, AtRest, IInv, MemInv, CallInv, ReassignSteps, Guarded
<1>2. before[call.dst] = [alt |-> NewAlt, val |-> before[call.dst].val]
    BY <1>1, InCall, Slots DEF IInv, Types
<1>3. storage' = [storage EXCEPT ![call.dst] = before[call.dst]]
    BY <1>1, <1>2 DEF Restore
<1>4. fault' \in BOOLEAN /\ ~fault'
    <2>1. ~BadConstruct(call.dst) /\ ~Relies(NewAlt, profile.move \cup call.nothrow)
        BY <1>1 DEF BadConstruct, Relies, Raw
    <2> QED
        BY <2>1 DEF Restore, Watch, IInv
<1>5. /\ storage' \in [Objects -> Content \cup {Raw}]
      /\ \A o \in Objects : storage'[o].alt = before[o].alt
      /\ storage'[call.dst] = before[call.dst]
    BY <1>1, <1>3, InCall DEF IInv, Types
<1>6. UNCHANGED fault
    BY <1>4 DEF IInv, Types
<1> QED
    BY <1>1, <1>5, <1>6, ThrowsByAssignment, EndsBadly DEF Restore, Guarded

(***************************************************************************)
(* The steps on the way.                                                   *)
(***************************************************************************)
LEMMA StashStep == ASSUME IInv, Stash PROVE IInv'
<1>1. /\ pc \in {"stash", "reassignStash"} /\ ~AtRest /\ storage = before
      /\ pc = "stash" => NewAlt \notin call.nothrow
      /\ pc' = (IF pc = "stash" THEN "destroy" ELSE "assignTemp") /\ Inside
    BY DEF Stash, AtRest, IInv, MemInv, CallInv, Untouched, Goto, Inside
<1>2. storage' = Taken /\ temp' = {Given} /\ fault' \in BOOLEAN /\ ~fault'
    BY <1>1, ReadUntouched DEF Stash, Watch, IInv
<1>3. Types' /\ EndInv'
    BY <1>1, <1>2, CallGoesOn, InCall DEF Labels
<1>4. CallInv'
    BY <1>1, CallGoesOn DEF IInv, CallInv, Inside, ReinitSteps, ReassignSteps, Guarded
<1>5. MemInv'
    BY <1>1, <1>2, CallGoesOn DEF MemInv, Inside, Untouched, Working, Stashed
<1> QED
    BY <1>2, <1>3, <1>4, <1>5 DEF IInv

LEMMA DestroyStep == ASSUME IInv, Destroy PROVE IInv'
<1>1. /\ pc = "destroy" /\ pc' = "construct" /\ Inside /\ storage = Working /\ call.dst \in alive
      /\ temp = IF Stashed THEN {Given} ELSE {}
    BY DEF Destroy, AtRest, IInv, MemInv, CallInv, Goto, Inside
<1>2. Working \in [Objects -> Content \cup {Raw}] /\ Working[call.dst].alt = before[call.dst].alt
    BY <1>1, InCall DEF Working, IInv, Types, Inside
<1>3. fault' \in BOOLEAN /\ ~fault'
    BY <1>1, <1>2, InCall DEF Destroy, Watch, BadDestroy, IInv, CallInv, Inside
<1>4. storage' = [Working EXCEPT ![call.dst] = Raw] /\ UNCHANGED temp
    BY <1>1 DEF Destroy
<1>5. Types' /\ EndInv'
    BY <1>1, <1>2, <1>3, <1>4, CallGoesOn, InCall DEF Labels, IInv, Types
<1>6. CallInv'
    BY <1>1, CallGoesOn DEF IInv, CallInv, Inside, ReinitSteps, ReassignSteps, Guarded
<1>7. MemInv'
    BY <1>1, <1>4, CallGoesOn DEF MemInv, Inside, Untouched, Working, Stashed
<1> QED
    BY <1>3, <1>5, <1>6, <1>7 DEF IInv

LEMMA SnapStep == ASSUME IInv, SnapMove \/ SnapCopy PROVE IInv'
<1>1. /\ pc \in {"snapMove", "snapCopy"} /\ pc' = "assign" /\ Inside /\ storage = before
      /\ before[call.dst].alt = NewAlt /\ NewAlt \in profile.move \cup call.nothrow
      /\ pc = "snapMove" => NewAlt \in profile.move
      /\ pc = "snapCopy" => NewAlt \in call.nothrow
    BY DEF SnapMove, SnapCopy, AtRest, IInv, MemInv, CallInv, Untouched, Goto, Inside, objects, Guarded,
           ReassignSteps
<1>2. fault' \in BOOLEAN /\ ~fault'
    BY <1>1 DEF SnapMove, SnapCopy, Watch, BadRead, Relies, IInv
<1>3. temp' = {before[call.dst].val} /\ before[call.dst].val \in Payloads
    BY <1>1, InCall, Slots DEF SnapMove, SnapCopy, IInv, Types, Inside
<1>4. storage' \in [Objects -> Content \cup {Raw}]
    <2>1. [before[call.dst] EXCEPT !.val = Hollow] \in Content \cup {Raw}
        BY <1>1, InCall DEF IInv, Types, Content, Payloads, Raw, Inside
    <2> QED
        BY <1>1, <2>1, InCall DEF SnapMove, SnapCopy, objects, IInv, Types, Inside
<1>5. storage'[call.dst].alt = NewAlt /\ \A o \in Objects \ {call.dst} : storage'[o] = before[o]
    <2>1. before \in [Objects -> Content \cup {Raw}] /\ before[call.dst] \in Content
        BY <1>1, InCall, Slots, CopackAssumption DEF IInv, Types, Inside
    <2>2. [before[call.dst] EXCEPT !.val = Hollow].alt = NewAlt
        BY <1>1, <2>1 DEF Content
    <2> QED
        BY <1>1, <2>1, <2>2, InCall DEF SnapMove, SnapCopy, objects, Inside
<1>6. Types' /\ EndInv'
    BY <1>1, <1>2, <1>3, <1>4, CallGoesOn DEF Labels
<1>7. CallInv'
    BY <1>1, CallGoesOn DEF IInv, CallInv, Inside, ReinitSteps, ReassignSteps, Guarded
<1>8. MemInv'
    BY <1>1, <1>3, <1>5, CallGoesOn DEF MemInv, Inside, Untouched
<1> QED
    BY <1>2, <1>6, <1>7, <1>8 DEF IInv

LEMMA AssignThrowsStep == ASSUME IInv, AssignThrows PROVE IInv'
<1>1. /\ pc = "assign" /\ pc' = "rollback" /\ Inside /\ temp = {before[call.dst].val}
      /\ before[call.dst].alt = NewAlt /\ storage[call.dst].alt = NewAlt
      /\ \A o \in Objects \ {call.dst} : storage[o] = before[o]
      /\ UNCHANGED <<temp, fault>>
    BY DEF AssignThrows, AtRest, IInv, MemInv, CallInv, Goto, Inside, Guarded, ReassignSteps
<1>2. /\ storage' \in [Objects -> Content \cup {Raw}]
      /\ \A o \in Objects : storage'[o].alt = storage[o].alt
    BY SpoilKeepsAlternatives DEF AssignThrows, IInv, Types
<1>3. Types' /\ EndInv'
    BY <1>1, <1>2, CallGoesOn DEF Labels, IInv, Types
<1>4. CallInv'
    BY <1>1, CallGoesOn DEF IInv, CallInv, Inside, ReinitSteps, ReassignSteps, Guarded
<1>5. MemInv'
    BY <1>1, <1>2, CallGoesOn DEF MemInv, Inside, Untouched
<1> QED
    BY <1>1, <1>3, <1>4, <1>5 DEF IInv

LEMMA RollbackStep == ASSUME IInv, Rollback PROVE IInv'
<1>1. /\ pc = "rollback" /\ pc' = "restore" /\ Inside /\ temp = {before[call.dst].val}
      /\ before[call.dst].alt = NewAlt /\ \A o \in Objects : storage[o].alt = before[o].alt
      /\ UNCHANGED temp /\ storage' = [storage EXCEPT ![call.dst] = Raw]
    BY DEF Rollback, AtRest, IInv, MemInv, CallInv, Goto, Inside, Guarded, ReassignSteps
<1>2. fault' \in BOOLEAN /\ ~fault'
    BY <1>1, InCall, CopackAssumption DEF Rollback, Watch, BadDestroy, IInv, Inside
<1>3. Types' /\ EndInv'
    BY <1>1, <1>2, CallGoesOn DEF Labels, IInv, Types
<1>4. CallInv'
    BY <1>1, CallGoesOn DEF IInv, CallInv, Inside, ReinitSteps, ReassignSteps, Guarded
<1>5. MemInv'
    BY <1>1, InCall, CallGoesOn DEF MemInv, Inside, Untouched, IInv, Types
<1> QED
    BY <1>2, <1>3, <1>4, <1>5 DEF IInv

(***************************************************************************)
(* Between calls.                                                          *)
(***************************************************************************)
\* The conditions of Entry and of the arms are what the steps rely on.
LEMMA BeginStep == ASSUME IInv, Begin PROVE IInv'
<1>1. PICK c \in CallType :
        /\ MayCall(profile, c, c.dst \in alive, c.src \in alive, storage[c.dst].alt)
        /\ call' = c /\ Goto(Entry(c))
    BY DEF Begin
<1> DEFINE new == IF HasSource(c) THEN storage[c.src].alt ELSE c.alt
<1>2. /\ pc = "idle" /\ before' = storage /\ UNCHANGED <<profile, alive, storage, temp, fault, result>>
      /\ temp = {} /\ \A o \in Objects : (storage[o].alt # "none") <=> o \in alive
      /\ c.dst \in Objects /\ c.src \in Objects
    BY <1>1 DEF Begin, Goto, objects, IInv, MemInv, AtRest, Whole, CallType
<1>3. NewAlt' = new /\ HasSource(call)' = HasSource(c)
    BY <1>1, <1>2 DEF NewAlt, HasSource
<1>4. /\ pc' \in Untouched \cup {"destroy"}
      /\ (pc' = "create") <=> (c.dst \notin alive)
      /\ (pc' = "self") <=> (c.dst \in alive /\ HasSource(c) /\ c.dst = c.src)
      /\ pc' \in ReassignSteps => c.op # "emplace" /\ storage[c.dst].alt = new
      /\ pc' \in ReinitSteps => ~(c.op # "emplace" /\ storage[c.dst].alt = new)
      /\ pc' = "stash" => new \notin c.nothrow
      /\ pc' = "destroy" => new \in c.nothrow
      /\ pc' \in Guarded => new \notin c.assign
      /\ pc' \in {"reassignStash", "assignTemp"} => new \in profile.moveAssign
      /\ pc' = "snapMove" => new \in profile.move
      /\ pc' = "snapCopy" => new \notin profile.move
    BY <1>1, <1>2 DEF Goto, Entry, ReinitEntry, ReassignEntry, Untouched, ReassignSteps, Guarded,
                      ReinitSteps
<1>5. Types' /\ EndInv'
    BY <1>1, <1>2, <1>4
       DEF Types, EndInv, IInv, Labels, Untouched, ReinitSteps, ReassignSteps, Guarded
<1>6. pc' = "snapCopy" => new \in c.nothrow
    <2>1. ASSUME pc' = "snapCopy" PROVE Requires(profile, c) /\ new \in Alts
        BY <1>1, <1>2, <1>4, <2>1, Slots DEF MayCall, IInv, Types, CallType
    <2> QED
        BY <1>4, <2>1 DEF Requires, HasSource, ReassignSteps, Guarded
<1>7. pc' \in ReinitSteps => ~c.alias
    BY <1>1, <1>4 DEF MayCall, CallOf, HasSource, ReinitSteps, Untouched
<1>8. HasSource(c) => ((c.src = c.dst) <=> pc' = "self")
    BY <1>1, <1>4 DEF MayCall
<1>9. MayCall(profile, c, pc' # "create", c.src \in alive, storage[c.dst].alt)
    BY <1>1, <1>4
<1>10. CallInv'
    BY <1>1, <1>2, <1>3, <1>4, <1>6, <1>7, <1>8, <1>9
       DEF CallInv, Untouched, ReinitSteps, ReassignSteps, Guarded
<1>11. MemInv'
    <2>1. pc' = "destroy" => ~Stashed' /\ Working' = before'
        BY <1>1, <1>3, <1>4 DEF Stashed, Working
    <2> QED
        BY <1>2, <1>4, <2>1 DEF MemInv, AtRest, Untouched
<1> QED
    BY <1>2, <1>5, <1>10, <1>11 DEF IInv

LEMMA ReturnStep == ASSUME IInv, Return PROVE IInv'
<1>1. Types'
    BY DEF Return, objects, IInv, Types, Labels
<1>2. CallInv' /\ EndInv'
    BY DEF Return, CallInv, EndInv, AtRest
<1>3. MemInv'
    BY DEF Return, objects, IInv, MemInv, AtRest, Whole, Untouched
<1> QED
    BY <1>1, <1>2, <1>3 DEF IInv, Return

LEMMA DestructStep == ASSUME IInv, NEW o \in Objects, Destruct(o) PROVE IInv'
<1>1. pc = "idle" /\ o \in alive /\ UNCHANGED <<profile, temp, call, pc, before, result>>
      /\ alive' = alive \ {o} /\ storage' = [storage EXCEPT ![o] = Raw]
    BY DEF Destruct
<1>2. ~fault' /\ Types'
    BY <1>1 DEF Destruct, IInv, Types, MemInv, AtRest, Whole, Watch, BadDestroy
<1>3. CallInv' /\ EndInv'
    BY <1>1 DEF CallInv, EndInv, AtRest
<1>4. MemInv'
    BY <1>1 DEF IInv, Types, MemInv, AtRest, Whole, Untouched, Raw
<1> QED
    BY <1>2, <1>3, <1>4 DEF IInv

LEMMA StepIInv == IInv /\ [Next]_vars => IInv'
<1> SUFFICES ASSUME IInv, [Next]_vars PROVE IInv'
    OBVIOUS
<1>1. CASE Begin
    BY <1>1, BeginStep
<1>2. CASE Return
    BY <1>2, ReturnStep
<1>3. CASE \E o \in Objects : Destruct(o)
    BY <1>3, DestructStep
<1>4. CASE Step
    BY <1>4, CreateStep, SelfAssignStep, StashStep, StashThrowsStep, DestroyStep, ConstructStep,
       AssignPlainStep, AssignFromTempStep, SnapStep, AssignUnderSnapStep, AssignThrowsStep,
       RollbackStep, RestoreStep
       DEF Step
<1>5. CASE UNCHANGED vars
    BY <1>5 DEF vars, objects, IInv, Types, CallInv, MemInv, EndInv, AtRest, Whole, NewAlt, Given, Taken,
                Stashed, Working, Delivered
<1> QED
    BY <1>1, <1>2, <1>3, <1>4, <1>5 DEF Next

THEOREM Inductive == Spec => []IInv
    BY InitIInv, StepIInv, PTL DEF Spec

(***************************************************************************)
(* Results.                                                                *)
(***************************************************************************)
\* Every variable keeps its type, and no tmp or snap outlives its call.
THEOREM TypeCorrect == Spec => []TypeOK
<1>1. IInv => TypeOK
    BY DEF IInv, Types, MemInv, TypeOK, AtRest
<1> QED
    BY <1>1, Inductive, PTL

\* A copack always holds one of its alternatives, after an exception as after a
\* return: there is no valueless state.
THEOREM NeverValuelessAlways == Spec => []NeverValueless
<1>1. IInv => NeverValueless
    BY DEF IInv, MemInv, NeverValueless, Whole
<1> QED
    BY <1>1, Inductive, PTL

\* No step of any arm misuses a lifetime, or relies on an operation that the
\* requires clauses and the arm's own condition do not make nothrow.
THEOREM NoFaultEver == Spec => []NoLifetimeFault
<1>1. IInv => NoLifetimeFault
    BY DEF IInv, NoLifetimeFault
<1> QED
    BY <1>1, Inductive, PTL

\* An assignment or emplace that throws leaves its target as it was, whatever the
\* alternatives promise.
THEOREM GuaranteeIsStrong == Spec => []StrongGuarantee
<1>1. IInv => StrongGuarantee
    BY DEF IInv, EndInv, StrongGuarantee
<1> QED
    BY <1>1, Inductive, PTL

\* A function declared noexcept never throws.
THEOREM NoexceptIsHonest == Spec => []NoexceptHonest
<1>1. IInv => NoexceptHonest
    BY DEF IInv, Types, EndInv, NoexceptHonest
<1> QED
    BY <1>1, Inductive, PTL

\* All arms of an assignment have one effect.
THEOREM AlwaysDelivers == Spec => []Delivers
<1>1. IInv => Delivers
    BY DEF IInv, EndInv, Delivers
<1> QED
    BY <1>1, Inductive, PTL
=============================================================================
