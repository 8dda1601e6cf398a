--------------------------- MODULE CopackStorage ---------------------------
(***************************************************************************)
(* The storage of fn::copack<Ts...>: a union of the alternatives and the   *)
(* index of the live one, mutated by _reinit (another alternative comes    *)
(* in) and by _reassign (the same one does).  choice<Ts...> wraps a copack *)
(* and assigns through it.  The index is written by the constructor that   *)
(* fills the union and so is not a variable of its own: a union with no    *)
(* live member is the valueless state the code sets out to exclude.        *)
(*                                                                         *)
(* "assign" is operator=(U&&), and the widening assignments too: both      *)
(* consult the one alternative that comes in.  With alias, its argument is *)
(* an lvalue that denotes the alternative held (c = *c.get_ptr<T>()).      *)
(***************************************************************************)
EXTENDS FiniteSets

CONSTANTS Objects,   \* the copack objects, all of one type
          Alts,      \* its alternatives
          Values,    \* payloads a caller supplies
          Hollow,    \* the payload of a moved-from object
          Profiles   \* what the traits say of the alternatives

\* move and moveAssign hold the alternatives whose move construction and move
\* assignment do not throw; strong tells whether a throwing operation of an
\* alternative leaves its operands alone.
ProfileType == [move: SUBSET Alts, moveAssign: SUBSET Alts, strong: BOOLEAN]
ASSUME CopackAssumption == /\ Profiles \subseteq ProfileType
                           /\ Hollow \notin Values
                           /\ "none" \notin Alts

Payloads == Values \cup {Hollow}
Content == [alt: Alts, val: Payloads]
Raw == [alt |-> "none", val |-> Hollow]
HollowOut(c) == [c EXCEPT !.val = Hollow]

\* nothrow and assign hold the alternatives whose construction from this call's
\* arguments, and whose assignment from them, do not throw.
CallType == [op: {"copy", "move", "assign", "emplace"}, dst: Objects, src: Objects,
             alt: Alts, val: Payloads, alias: BOOLEAN,
             nothrow: SUBSET Alts, assign: SUBSET Alts]
NoCall == [op |-> "none"]
HasSource(c) == c.op \in {"copy", "move"}

VARIABLES profile,  \* the traits of the alternatives
          alive,    \* the objects within their lifetime
          storage,  \* the union of each object: its live alternative, and its payload
          temp,     \* the local tmp or snap; {} when there is none
          call, pc, \* the call in progress and the step it is at
          before,   \* the storage when it began (history)
          result,   \* how it ended: "none", "ok" or "threw"
          fault     \* some step misused a lifetime (history)

objects == <<alive, storage>>
vars == <<profile, objects, temp, call, pc, before, result, fault>>

NewAlt == IF HasSource(call) THEN before[call.src].alt ELSE call.alt
Argument == IF HasSource(call) THEN call.src ELSE call.dst   \* the object the argument is in, if any
Incoming == IF HasSource(call) \/ call.alias THEN storage[Argument].val ELSE call.val
AfterRead == IF call.op = "move" THEN [storage EXCEPT ![call.src].val = Hollow] ELSE storage
RvalueSource == IF call.op = "move" THEN {call.src} ELSE {}
Spoil(S) == IF profile.strong THEN {storage}
            ELSE {[o \in Objects |-> IF o \in R THEN HollowOut(storage[o]) ELSE storage[o]] :
                     R \in SUBSET S}

BadRead(o, a) == storage[o].alt # a
BadArgument == (HasSource(call) \/ call.alias) /\ BadRead(Argument, NewAlt)
BadDestroy(o) == storage[o].alt = "none"
BadConstruct(o) == storage[o].alt # "none"
\* An operation the code counts on not to throw, and that might.
Relies(a, nothrow) == a \notin nothrow

Leave(how) == pc' = "return" /\ result' = how
Goto(label) == pc' = label /\ UNCHANGED result
Watch(misuse) == fault' = (fault \/ misuse)

(***************************************************************************)
(* The requires clauses and the noexcept specifications.                   *)
(***************************************************************************)
CallOf(p, c) ==
    /\ HasSource(c) => ~c.alias /\ c.val = Hollow /\ c.alt = CHOOSE a \in Alts : TRUE
    /\ ~HasSource(c) => c.src = c.dst /\ (c.val = Hollow <=> c.alias)
    /\ c.op = "move" => c.nothrow = p.move /\ c.assign = p.moveAssign
    /\ c.alias => c.op = "assign"

\* Mutant: an alternative need not be made without throwing.
RequiresNothing(p, c) == TRUE

\* _copy_assignable, _move_assignable and the clauses of operator=(U&&) and emplace.
Requires(p, c) ==
    CASE c.op = "copy" -> Alts \subseteq c.nothrow \cup p.move
      [] c.op = "move" -> Alts \subseteq p.move
      [] OTHER -> c.alt \in c.nothrow \cup p.move

\* A constructor asks nothing about exceptions; self-aliasing needs the
\* alternative to be the one held.
MayCall(p, c, dstAlive, srcAlive, held) ==
    /\ CallOf(p, c)
    /\ IF dstAlive THEN Requires(p, c) ELSE c.op # "emplace" /\ ~c.alias
    /\ HasSource(c) => srcAlive
    /\ c.alias => c.alt = held

\* Mutant: _nothrow_copy_assignable forgets the alternatives replaced by construction.
NoexceptForgetsReinit(c, dstAlive) ==
    LET concerned == IF HasSource(c) THEN Alts ELSE {c.alt}
    IN  IF dstAlive /\ c.op # "emplace" THEN concerned \subseteq c.assign ELSE concerned \subseteq c.nothrow

Noexcept(c, dstAlive) ==
    LET concerned == IF HasSource(c) THEN Alts ELSE {c.alt}
    IN  /\ concerned \subseteq c.nothrow
        /\ dstAlive /\ c.op # "emplace" => concerned \subseteq c.assign

(***************************************************************************)
(* The arms of _reinit and of _reassign, and where each begins.            *)
(***************************************************************************)
ReinitEntry(a, c) == IF a \in c.nothrow THEN "destroy" ELSE "stash"

ReassignEntry(a, c) == IF a \in c.assign THEN "plain"
                       ELSE IF a \in profile.moveAssign THEN "reassignStash"
                       ELSE IF a \in profile.move THEN "snapMove"
                       ELSE "snapCopy"

\* Mutant: without if (this != &other).
EntryUnguarded(c) ==
    LET new == IF HasSource(c) THEN storage[c.src].alt ELSE c.alt
    IN  IF c.dst \notin alive THEN "create"
        ELSE IF c.op # "emplace" /\ storage[c.dst].alt = new THEN ReassignEntry(new, c)
        ELSE ReinitEntry(new, c)

Entry(c) ==
    LET new == IF HasSource(c) THEN storage[c.src].alt ELSE c.alt
    IN  IF c.dst \notin alive THEN "create"
        ELSE IF HasSource(c) /\ c.dst = c.src THEN "self"
        ELSE IF c.op # "emplace" /\ storage[c.dst].alt = new THEN ReassignEntry(new, c)
        ELSE ReinitEntry(new, c)

Init == /\ profile \in Profiles
        /\ alive = {}
        /\ storage = [o \in Objects |-> Raw]
        /\ temp = {} /\ call = NoCall /\ pc = "idle"
        /\ before = storage /\ result = "none" /\ fault = FALSE

Begin == /\ pc = "idle"
         /\ \E c \in CallType :
               /\ MayCall(profile, c, c.dst \in alive, c.src \in alive, storage[c.dst].alt)
               /\ call' = c /\ Goto(Entry(c))
         /\ before' = storage
         /\ UNCHANGED <<profile, objects, temp, fault>>

Return == /\ pc = "return"
          /\ pc' = "idle" /\ call' = NoCall /\ result' = "none"
          /\ before' = [o \in Objects |-> Raw]
          /\ UNCHANGED <<profile, objects, temp, fault>>

Destruct(o) == /\ pc = "idle" /\ o \in alive
               /\ Watch(BadDestroy(o))
               /\ alive' = alive \ {o}
               /\ storage' = [storage EXCEPT ![o] = Raw]
               /\ UNCHANGED <<profile, temp, call, pc, before, result>>

Create == /\ pc = "create"
          /\ Watch(BadArgument)
          /\ alive' = alive \cup {call.dst}
          /\ storage' = [AfterRead EXCEPT ![call.dst] = [alt |-> NewAlt, val |-> Incoming]]
          /\ Leave("ok")
          /\ UNCHANGED <<profile, temp, call, before>>

CreateThrows == /\ pc = "create" /\ NewAlt \notin call.nothrow
                /\ storage' \in Spoil(RvalueSource)
                /\ Leave("threw")
                /\ UNCHANGED <<profile, alive, temp, call, before, fault>>

\* if (this != &other), in the assignments from a copack of the same type.
SelfAssign == /\ pc = "self"
              /\ Leave("ok")
              /\ UNCHANGED <<profile, objects, temp, call, before, fault>>

(***************************************************************************)
(* _reinit and the first half of _reassign's second arm: T tmp{args...}.   *)
(***************************************************************************)
Stash == /\ pc \in {"stash", "reassignStash"}
         /\ Watch(BadArgument)
         /\ temp' = {Incoming}
         /\ storage' = AfterRead
         /\ Goto(IF pc = "stash" THEN "destroy" ELSE "assignTemp")
         /\ UNCHANGED <<profile, alive, call, before>>

StashThrows == /\ pc \in {"stash", "reassignStash"} /\ NewAlt \notin call.nothrow
               /\ storage' \in Spoil(RvalueSource)
               /\ Leave("threw")
               /\ UNCHANGED <<profile, alive, temp, call, before, fault>>

\* destroy_at(this), which destroys the alternative held.
Destroy == /\ pc = "destroy"
           /\ Watch(BadDestroy(call.dst))
           /\ storage' = [storage EXCEPT ![call.dst] = Raw]
           /\ Goto("construct")
           /\ UNCHANGED <<profile, alive, temp, call, before>>

ConstructFromArgs == /\ pc = "construct" /\ NewAlt \in call.nothrow
                     /\ Watch(BadConstruct(call.dst) \/ BadArgument)
                     /\ storage' = [AfterRead EXCEPT ![call.dst] = [alt |-> NewAlt, val |-> Incoming]]
                     /\ Leave("ok")
                     /\ UNCHANGED <<profile, alive, temp, call, before>>

ConstructFromTemp == /\ pc = "construct" /\ NewAlt \notin call.nothrow
                     /\ Watch(BadConstruct(call.dst) \/ Relies(NewAlt, profile.move))
                     /\ \E p \in temp :
                           storage' = [storage EXCEPT ![call.dst] = [alt |-> NewAlt, val |-> p]]
                     /\ temp' = {}
                     /\ Leave("ok")
                     /\ UNCHANGED <<profile, alive, call, before>>

(***************************************************************************)
(* _reassign: *held = v, directly, from tmp, or under a snapshot.          *)
(***************************************************************************)
AssignPlain == /\ pc = "plain"
               /\ Watch(BadRead(call.dst, NewAlt) \/ BadArgument)
               /\ storage' = [AfterRead EXCEPT ![call.dst].val = Incoming]
               /\ Leave("ok")
               /\ UNCHANGED <<profile, alive, temp, call, before>>

AssignFromTemp == /\ pc = "assignTemp"
                  /\ Watch(BadRead(call.dst, NewAlt) \/ Relies(NewAlt, profile.moveAssign))
                  /\ \E p \in temp : storage' = [storage EXCEPT ![call.dst].val = p]
                  /\ temp' = {}
                  /\ Leave("ok")
                  /\ UNCHANGED <<profile, alive, call, before>>

\* T snap{std::move(*held)} empties *held before it is assigned to.
SnapMove == /\ pc = "snapMove"
            /\ Watch(BadRead(call.dst, NewAlt) \/ Relies(NewAlt, profile.move))
            /\ temp' = {storage[call.dst].val}
            /\ storage' = [storage EXCEPT ![call.dst].val = Hollow]
            /\ Goto("assign")
            /\ UNCHANGED <<profile, alive, call, before>>

\* T snap{*held}, by the copy the requires clause makes nothrow.
SnapCopy == /\ pc = "snapCopy"
            /\ Watch(BadRead(call.dst, NewAlt) \/ Relies(NewAlt, call.nothrow))
            /\ temp' = {storage[call.dst].val}
            /\ Goto("assign")
            /\ UNCHANGED <<profile, objects, call, before>>

\* Mutant: the snapshot is kept.
AssignKeepsSnap == /\ pc = "assign"
                   /\ Watch(BadRead(call.dst, NewAlt) \/ BadArgument)
                   /\ storage' = [AfterRead EXCEPT ![call.dst].val = Incoming]
                   /\ Leave("ok")
                   /\ UNCHANGED <<profile, alive, temp, call, before>>

AssignUnderSnap == /\ pc = "assign"
                   /\ Watch(BadRead(call.dst, NewAlt) \/ BadArgument)
                   /\ storage' = [AfterRead EXCEPT ![call.dst].val = Incoming]
                   /\ temp' = {}
                   /\ Leave("ok")
                   /\ UNCHANGED <<profile, alive, call, before>>

AssignThrows == /\ pc = "assign"
                /\ storage' \in Spoil({call.dst} \cup RvalueSource)
                /\ Goto("rollback")
                /\ UNCHANGED <<profile, alive, temp, call, before, fault>>

\* Mutant: the handler rethrows and trusts *held to be what it was.
RollbackSkipped == /\ pc = "rollback"
                   /\ temp' = {}
                   /\ Leave("threw")
                   /\ UNCHANGED <<profile, objects, call, before, fault>>

\* The handler: destroy_at(this), then construct from the snapshot, then throw.
Rollback == /\ pc = "rollback"
            /\ Watch(BadDestroy(call.dst))
            /\ storage' = [storage EXCEPT ![call.dst] = Raw]
            /\ Goto("restore")
            /\ UNCHANGED <<profile, alive, temp, call, before>>

\* Mutant: the handler rethrows without constructing.
RestoreForgets == /\ pc = "restore"
                  /\ temp' = {}
                  /\ Leave("threw")
                  /\ UNCHANGED <<profile, objects, call, before, fault>>

Restore == /\ pc = "restore"
           /\ Watch(BadConstruct(call.dst) \/ Relies(NewAlt, profile.move \cup call.nothrow))
           /\ \E p \in temp : storage' = [storage EXCEPT ![call.dst] = [alt |-> NewAlt, val |-> p]]
           /\ temp' = {}
           /\ Leave("threw")
           /\ UNCHANGED <<profile, alive, call, before>>

Step == \/ Create \/ CreateThrows \/ SelfAssign
        \/ Stash \/ StashThrows \/ Destroy \/ ConstructFromArgs \/ ConstructFromTemp
        \/ AssignPlain \/ AssignFromTemp \/ SnapMove \/ SnapCopy
        \/ AssignUnderSnap \/ AssignThrows \/ Rollback \/ Restore

Next == Begin \/ Step \/ Return \/ \E o \in Objects : Destruct(o)

Spec == Init /\ [][Next]_vars

(***************************************************************************)
(* Properties.                                                             *)
(***************************************************************************)
AtRest == pc \in {"idle", "return"}
Labels == {"idle", "return", "create", "self", "stash", "reassignStash", "destroy", "construct",
           "plain", "assignTemp", "snapMove", "snapCopy", "assign", "rollback", "restore"}

\* Every variable keeps its type, and no tmp or snap outlives its call.
TypeOK == /\ profile \in Profiles
          /\ alive \in SUBSET Objects
          /\ storage \in [Objects -> Content \cup {Raw}]
          /\ temp \in SUBSET Payloads /\ (AtRest => temp = {})
          /\ pc \in Labels
          /\ IF pc = "idle" THEN call = NoCall ELSE call \in CallType
          /\ before \in [Objects -> Content \cup {Raw}]
          /\ result \in {"none", "ok", "threw"}
          /\ fault \in BOOLEAN

\* "a copack always holds one of its alternatives - there is no valueless state
\* to fall back on" (copack.hpp:568): between calls every object that exists
\* has a live alternative, after an exception as after a return.
NeverValueless == AtRest => \A o \in Objects : (storage[o].alt # "none") <=> o \in alive

\* No step destroys, reads or overwrites an alternative in the wrong state of
\* its lifetime, and every operation the arms count on not to throw is one the
\* requires clauses make nothrow.
NoLifetimeFault == ~fault

\* The strong guarantee the comments claim for every assignment and for
\* emplace, without any help from the alternatives: a call that throws leaves
\* its target the alternative and the payload it had.
StrongGuarantee == pc = "return" /\ result = "threw" => storage[call.dst] = before[call.dst]

\* A function declared noexcept never throws.
NoexceptHonest == result = "threw" => ~Noexcept(call, call.dst \in alive)

\* What a call that returns has done to an object: the target holds what it was
\* given, the source of a move is moved from, every other object is as before.
Delivered(o) ==
    IF o = call.dst
    THEN IF HasSource(call) THEN before[call.src]
         ELSE [alt |-> call.alt, val |-> IF call.alias THEN before[o].val ELSE call.val]
    ELSE IF call.op = "move" /\ o = call.src THEN HollowOut(before[o]) ELSE before[o]

\* Whatever arm an assignment takes, its effect is the same.
Delivers == pc = "return" /\ result = "ok" /\ ~call.alias
              => \A o \in Objects : storage[o] = Delivered(o)

\* copack.hpp:746: "Assignment from a value of one alternative, with the strong
\* exception guarantee" - also when the value is the one the copack holds.
AliasDelivers == pc = "return" /\ result = "ok" /\ call.alias
                   => storage[call.dst] = Delivered(call.dst)
=============================================================================
