----------------------- MODULE ExpectedStorage_proofs -----------------------
(***************************************************************************)
(* Proofs about ExpectedStorage, for any objects, payloads and types.      *)
(*                                                                         *)
(* NeverValueless speaks of the moments between calls and is not inductive.*)
(* The invariant below adds, for each step of a call, which member of the  *)
(* unions it works on is live, which object may disagree with its flag,    *)
(* what the temporary holds, and that the call is one the requires clauses *)
(* admit: from the last, ArmIsSafe shows that every move the code relies   *)
(* on in a handler is nothrow.                                             *)
(*                                                                         *)
(* The last part shows that the machine implements ExpectedSpec.  With     *)
(* EffectInv, which says at each step how much of the effect is there, the *)
(* step that ends a call is the abstract call, done or thrown, and every   *)
(* other step inside it is unseen.                                         *)
(***************************************************************************)
EXTENDS ExpectedStorage, TLAPS

\* The flag tells the truth about o.
Sound(o) == storage[o].side = IF o \in alive THEN Held(o) ELSE "none"
SoundBut(S) == \A o \in Objects \ S : Sound(o)

SwapCrossSteps == {"swapMove", "swapRestore", "swapRelease", "swapFinish", "swapFlags"}

Types == /\ profile \in Profiles
         /\ alive \in SUBSET Objects
         /\ storage \in [Objects -> Memory]
         /\ set \in [Objects -> BOOLEAN]
         /\ temp \in SUBSET Payloads
         /\ pc \in Labels
         /\ IF pc = "idle" THEN call = NoCall ELSE call \in CallType
         /\ before \in [Objects -> Memory]
         /\ result \in {"none", "ok", "threw"}
         /\ fault \in BOOLEAN

\* A payload is in the temporary from where it is stashed to where it is used,
\* and none is when no call could take it from there.
TempInv == /\ pc \in {"idle", "return", "create", "assign", "stash", "keep", "emplace",
                      "emplaceNew", "swapMembers", "swapStash"} => temp = {}

\* The call in progress is an admitted one, before still tells the sides (until
\* emplace turns the flag), and the object it makes is not there yet.
CallInv == ~AtRest =>
    /\ MayCall(profile, call, pc # "create", call.src \in alive)
    /\ (call.dst \in alive) <=> (pc # "create")
    /\ pc # "emplaceNew" => \A o \in Objects :
           before[o].side = IF o \in alive THEN Held(o) ELSE "none"

\* A call in _reinit replaces the side its target is still flagged with.
ReinitInv ==
    /\ pc \in ReinitSteps => call.op # "swap" /\ Held(call.dst) = OldSide
    /\ pc = "stash" => Arm \notin {"direct", "guarded"}
    /\ pc = "destroy" => Arm # "overwrite"
    /\ pc = "construct" => storage[call.dst].side = "none"
                           \/ (Arm = "overwrite" /\ storage[call.dst].side = OldSide)
    /\ pc = "restore" => storage[call.dst].side = "none" /\ Arm \notin {"direct", "viaTemp"}
    /\ pc = "flag" => storage[call.dst].side = NewSide
    /\ pc = "assign" => call.op \notin {"swap", "emplace"} /\ Held(call.dst) = NewSide

EmplaceInv == pc \in {"emplace", "emplaceNew"} =>
    /\ call.op = "emplace" /\ ~profile.void
    /\ pc = "emplaceNew" => storage[call.dst].side = "none" /\ set[call.dst]

\* A swap in progress has found the two objects on different sides.
SwapInv ==
    /\ pc \in SwapSteps => call.op = "swap"
    /\ pc = "swapMembers" => set[call.dst] = set[call.src]
    /\ pc \in SwapSteps \ {"swapMembers"} => set[call.dst] # set[call.src]
    /\ pc \in {"swapMove", "swapRestore"}
          => storage[Holder].side = "none" /\ storage[Peer].side = Other(Pivot)
    /\ pc \in {"swapRelease", "swapFinish", "swapFlags"} => storage[Holder].side = Other(Pivot)
    /\ pc = "swapRelease" => storage[Peer].side = Other(Pivot)
    /\ pc = "swapFinish" => storage[Peer].side = "none"
    /\ pc = "swapFlags" => storage[Peer].side = Pivot

\* Every object a call is not in the middle of changing is sound.
SoundInv ==
    IF pc \in {"construct", "restore", "flag", "emplaceNew"} THEN SoundBut({call.dst})
    ELSE IF pc \in SwapCrossSteps THEN SoundBut({call.dst, call.src})
    ELSE SoundBut({})

IInv == /\ Types /\ TempInv /\ CallInv /\ ReinitInv /\ EmplaceInv /\ SwapInv /\ SoundInv
        /\ ~fault

LEMMA InitIInv == Init => IInv
<1> SUFFICES ASSUME Init PROVE IInv
  OBVIOUS
<1> QED
  BY DEF Init, IInv, Types, TempInv, CallInv, ReinitInv, EmplaceInv, SwapInv, SoundInv, SoundBut,
         Sound, AtRest, Raw, Unborn, Memory, Labels, Payloads, ReinitSteps, SwapSteps, EmplaceSteps,
         SwapCrossSteps, NoCall, Sides

(***************************************************************************)
(* What the steps have in common.                                          *)
(***************************************************************************)
\* A user's operation that throws may spoil payloads, but moves no side.
LEMMA SpoilKeepsSides ==
  ASSUME storage \in [Objects -> Memory], NEW S, NEW m \in Spoil(S)
  PROVE  m \in [Objects -> Memory] /\ \A o \in Objects : m[o].side = storage[o].side
  BY DEF Spoil, HollowOut, Memory, Payloads

LEMMA ReadKeepsSides ==
  ASSUME storage \in [Objects -> Memory], call \in CallType
  PROVE  /\ AfterRead \in [Objects -> Memory]
         /\ \A o \in Objects : AfterRead[o].side = storage[o].side
         /\ Incoming \in Payloads
  BY DEF AfterRead, AfterMove, Incoming, CallType, Memory, Payloads, Ops

LEMMA MoveKeepsSides ==
  ASSUME storage \in [Objects -> Memory], NEW q \in Objects
  PROVE  /\ AfterMove(q) \in [Objects -> Memory]
         /\ \A o \in Objects : AfterMove(q)[o].side = storage[o].side
  BY DEF AfterMove, Memory, Payloads

\* The side a call is to make active is one.
LEMMA NewSideIsASide ==
  ASSUME IInv, ~AtRest, pc # "emplaceNew"
  PROVE  NewSide \in Sides /\ OldSide \in Sides /\ OldSide # NewSide /\ call \in CallType
  <1>1. call \in CallType
    BY DEF IInv, Types, AtRest
  <1>2. CASE HasSource(call)
    <2>1. call.src \in alive /\ call.src \in Objects
      BY <1>1, <1>2 DEF IInv, CallInv, MayCall, CallType
    <2>2. before[call.src].side \in Sides
      BY <2>1 DEF IInv, CallInv, Held, SideOf, Sides
    <2> QED
      BY <1>1, <1>2, <2>2 DEF NewSide, OldSide, Other, Target, Sides
  <1>3. CASE ~HasSource(call)
    BY <1>1, <1>3 DEF NewSide, OldSide, Other, Target, Sides
  <1> QED
    BY <1>2, <1>3

\* The source of a call is alive and holds the side the call is to make active.
LEMMA SourceHoldsNewSide ==
  ASSUME IInv, ~AtRest, pc # "emplaceNew", HasSource(call)
  PROVE  call.src \in Objects /\ call.src \in alive /\ Held(call.src) = NewSide
  <1>1. call \in CallType
    BY DEF IInv, Types, AtRest
  <1>2. call.src \in Objects /\ call.src \in alive
    BY <1>1 DEF IInv, CallInv, MayCall, CallType
  <1>3. NewSide = before[call.src].side
    BY DEF NewSide, Target, HasSource
  <1> QED
    BY <1>2, <1>3 DEF IInv, CallInv

\* The requires clauses and the arms together: where a handler, or the end of an
\* arm, moves a T or an E, that move does not throw.
LEMMA ArmIsSafe ==
  ASSUME IInv, pc \in ReinitSteps
  PROVE  /\ Arm = "viaTemp" => ~BadMove(NewSide)
         /\ Arm \in {"backup", "overwrite", "guarded"} => ~BadMove(OldSide)
         /\ Arm = "overwrite" => OldSide \in profile.trivial
  <1>1. profile \in ProfileType /\ ProfileOK(profile)
    BY ProfilesAssumption DEF IInv, Types
  <1>2. /\ NewSide \in Sides /\ OldSide \in Sides /\ OldSide # NewSide /\ call \in CallType
        /\ ~AtRest /\ pc # "create"
    BY NewSideIsASide DEF AtRest, ReinitSteps
  <1>3. Requires(profile, call) /\ call.op # "swap"
    BY <1>2 DEF IInv, CallInv, MayCall, ReinitInv
  <1>4. CASE profile.void
    BY <1>1, <1>2, <1>4 DEF Arm, ReinitArm, OldSide, BadMove, ProfileOK, Other, Sides
  <1>5. CASE ~profile.void /\ NewSide \notin call.nothrow /\ NewSide \notin profile.move
    <2>1. profile.move # {}
      BY <1>2, <1>3, <1>5 DEF Requires, HasSource, NewSide, Target, CallType, Ops
    <2>2. OldSide \in profile.move
      BY <1>1, <1>2, <1>5, <2>1 DEF OldSide, Other, ProfileType, Sides
    <2> QED
      BY <1>1, <1>2, <1>5, <2>2 DEF Arm, ReinitArm, OldSide, BadMove, ProfileOK, ProfileType
  <1>6. CASE ~profile.void /\ (NewSide \in call.nothrow \/ NewSide \in profile.move)
    BY <1>6 DEF Arm, ReinitArm, BadMove
  <1> QED
    BY <1>1, <1>4, <1>5, <1>6 DEF ProfileType

\* A step that ends the call has only to leave no temporary and every object
\* sound.
LEMMA AtReturn ==
  ASSUME pc' = "return", Types', temp' = {}, SoundBut({})', ~fault'
  PROVE  IInv'
  BY DEF IInv, TempInv, CallInv, ReinitInv, EmplaceInv, SwapInv, SoundInv, AtRest,
         ReinitSteps, SwapSteps, SwapCrossSteps

\* A step inside a call leaves the call, and what is known of it, alone.
Inside == UNCHANGED <<profile, alive, set, call, before>>

LEMMA CallGoesOn ==
  ASSUME IInv, Inside, ~AtRest, pc \notin {"create", "emplaceNew"},
         pc' \notin {"idle", "return", "create", "emplaceNew"}
  PROVE  /\ CallInv' /\ NewSide' = NewSide /\ OldSide' = OldSide /\ Arm' = Arm
         /\ Holder' = Holder /\ Peer' = Peer /\ Pivot' = Pivot
         /\ \A o \in Objects : Held(o)' = Held(o)
  BY DEF IInv, Inside, CallInv, AtRest, NewSide, OldSide, Arm, ReinitArm, Holder, Peer, Pivot, Held

LEMMA CreateStep == ASSUME IInv, Create \/ CreateThrows PROVE IInv'
  <1>1. /\ call \in CallType /\ call.dst \in Objects /\ call.dst \notin alive
        /\ NewSide \in Sides /\ temp = {}
        /\ HasSource(call) => call.src \in Objects /\ storage[call.src].side = NewSide
        /\ SoundBut({})
    BY NewSideIsASide, SourceHoldsNewSide
       DEF IInv, Create, CreateThrows, AtRest, CallInv, TempInv, SoundInv, SoundBut, Sound, CallType,
           SwapCrossSteps
  <1>2. CASE Create
    <2>1. Types' /\ ~fault'
      BY <1>1, <1>2, ReadKeepsSides
         DEF Create, IInv, Types, Leave, Watch, BadRead, Member, Memory, Labels
    <2>2. SoundBut({})'
      BY <1>1, <1>2, ReadKeepsSides
         DEF Create, IInv, Types, SoundBut, Sound, Held, SideOf, Member, Memory, Sides
    <2> QED
      BY <1>1, <1>2, <2>1, <2>2, AtReturn DEF Create, Leave
  <1>3. CASE CreateThrows
    <2>1. Types' /\ ~fault'
      BY <1>1, <1>3, SpoilKeepsSides DEF CreateThrows, IInv, Types, Leave, Labels
    <2>2. SoundBut({})'
      BY <1>1, <1>3, SpoilKeepsSides DEF CreateThrows, IInv, Types, SoundBut, Sound, Held
    <2> QED
      BY <1>1, <1>3, <2>1, <2>2, AtReturn DEF CreateThrows, Leave
  <1> QED
    BY <1>2, <1>3

LEMMA AssignStep == ASSUME IInv, Assign \/ AssignThrows PROVE IInv'
  <1>1. /\ call \in CallType /\ call.dst \in Objects /\ call.dst \in alive
        /\ storage[call.dst].side = NewSide /\ temp = {}
        /\ HasSource(call) => call.src \in Objects /\ storage[call.src].side = NewSide
        /\ SoundBut({})
    BY NewSideIsASide, SourceHoldsNewSide
       DEF IInv, Assign, AssignThrows, AtRest, CallInv, ReinitInv, TempInv, SoundInv, SoundBut, Sound,
           CallType, SwapCrossSteps
  <1>2. CASE Assign
    <2>1. Types' /\ ~fault'
      BY <1>1, <1>2, ReadKeepsSides
         DEF Assign, IInv, Types, Leave, Watch, BadRead, Memory, Labels
    <2>2. SoundBut({})'
      BY <1>1, <1>2, ReadKeepsSides DEF Assign, IInv, Types, SoundBut, Sound, Held, Memory
    <2> QED
      BY <1>1, <1>2, <2>1, <2>2, AtReturn DEF Assign, Leave
  <1>3. CASE AssignThrows
    <2>1. Types' /\ ~fault'
      BY <1>1, <1>3, SpoilKeepsSides DEF AssignThrows, IInv, Types, Leave, Labels
    <2>2. SoundBut({})'
      BY <1>1, <1>3, SpoilKeepsSides DEF AssignThrows, IInv, Types, SoundBut, Sound, Held
    <2> QED
      BY <1>1, <1>3, <2>1, <2>2, AtReturn DEF AssignThrows, Leave
  <1> QED
    BY <1>2, <1>3

(***************************************************************************)
(* The steps of _reinit.                                                   *)
(***************************************************************************)
\* What holds at each of them.
LEMMA AtReinit ==
  ASSUME IInv, pc \in ReinitSteps
  PROVE  /\ ~AtRest /\ pc \notin {"create", "emplaceNew"} \cup SwapSteps \cup EmplaceSteps
         /\ call \in CallType /\ call.dst \in Objects /\ call.dst \in alive
         /\ NewSide \in Sides /\ OldSide \in Sides /\ NewSide # OldSide
         /\ Held(call.dst) = OldSide
         /\ HasSource(call) => /\ call.src \in Objects /\ call.src # call.dst
                               /\ storage[call.src].side = NewSide
         /\ SoundBut({call.dst})
         /\ pc \in {"stash", "destroy"} => storage[call.dst].side = OldSide
         /\ BadConstruct(call.dst) => pc \notin {"construct", "restore"}
  <1>1. /\ ~AtRest /\ pc \notin {"create", "emplaceNew"} \cup SwapSteps \cup EmplaceSteps
    BY DEF AtRest, ReinitSteps, SwapSteps, EmplaceSteps
  <1>2. /\ call \in CallType /\ call.dst \in Objects /\ call.dst \in alive
        /\ NewSide \in Sides /\ OldSide \in Sides /\ NewSide # OldSide
        /\ Held(call.dst) = OldSide
    BY <1>1, NewSideIsASide DEF IInv, CallInv, ReinitInv, CallType
  <1>3. SoundBut({call.dst})
    BY <1>1, <1>2 DEF IInv, SoundInv, SoundBut, SwapCrossSteps, SwapSteps
  <1>4. HasSource(call) => /\ call.src \in Objects /\ call.src # call.dst
                          /\ storage[call.src].side = NewSide
    BY <1>1, <1>2, <1>3, SourceHoldsNewSide DEF SoundBut, Sound
  <1>5. pc \in {"stash", "destroy"} => storage[call.dst].side = OldSide
    BY <1>2 DEF IInv, SoundInv, SoundBut, Sound, SwapCrossSteps
  <1>6. BadConstruct(call.dst) => pc \notin {"construct", "restore"}
    BY ArmIsSafe DEF IInv, ReinitInv, BadConstruct
  <1> QED
    BY <1>1, <1>2, <1>3, <1>4, <1>5, <1>6

\* A step of _reinit that stays in it: what is left to show.
LEMMA ReinitGoesOn ==
  ASSUME IInv, pc \in ReinitSteps, Inside, pc' \in ReinitSteps,
         Types', ~fault', SoundBut({call.dst})',
         pc' = "destroy" => storage'[call.dst].side = OldSide,
         pc' = "stash" => FALSE,
         pc' = "destroy" => Arm # "overwrite",
         pc' = "construct" => storage'[call.dst].side = "none"
                              \/ (Arm = "overwrite" /\ storage'[call.dst].side = OldSide),
         pc' = "restore" => storage'[call.dst].side = "none" /\ Arm \notin {"direct", "viaTemp"},
         pc' = "flag" => storage'[call.dst].side = NewSide
  PROVE  IInv'
  <1>1. /\ CallInv' /\ NewSide' = NewSide /\ OldSide' = OldSide /\ Arm' = Arm
        /\ Held(call.dst)' = Held(call.dst) /\ call' = call /\ alive' = alive
    BY AtReinit, CallGoesOn DEF Inside, AtRest, ReinitSteps
  <1>2. ReinitInv'
    BY <1>1, AtReinit DEF IInv, ReinitInv, ReinitSteps
  <1>3. SoundInv'
    BY <1>1, AtReinit DEF SoundInv, SoundBut, Sound, ReinitSteps, SwapCrossSteps
  <1>4. TempInv' /\ EmplaceInv' /\ SwapInv'
    BY DEF TempInv, EmplaceInv, SwapInv, ReinitSteps, SwapSteps
  <1> QED
    BY <1>1, <1>2, <1>3, <1>4 DEF IInv

LEMMA StashNewStep == ASSUME IInv, StashNew PROVE IInv'
  <1>1. pc \in ReinitSteps /\ pc = "stash" /\ pc' = "destroy" /\ Inside
    BY DEF StashNew, Goto, Inside, ReinitSteps
  <1>2. Types' /\ ~fault'
    BY <1>1, AtReinit, ReadKeepsSides
       DEF StashNew, IInv, Types, Goto, Watch, BadRead, Labels, ReinitSteps
  <1>3. SoundBut({call.dst})' /\ storage'[call.dst].side = OldSide
    BY <1>1, AtReinit, ReadKeepsSides DEF StashNew, IInv, Types, SoundBut, Sound, Held
  <1>4. Arm # "overwrite"
    BY DEF StashNew
  <1> QED
    BY <1>1, <1>2, <1>3, <1>4, ReinitGoesOn DEF ReinitSteps

LEMMA StashNewThrowsStep == ASSUME IInv, StashNewThrows PROVE IInv'
  <1>1. pc \in ReinitSteps /\ pc = "stash"
    BY DEF StashNewThrows, ReinitSteps
  <1>2. Types' /\ ~fault' /\ temp' = {}
    BY <1>1, SpoilKeepsSides DEF StashNewThrows, IInv, Types, TempInv, Leave, Labels
  <1>3. SoundBut({})'
    BY <1>1, AtReinit, SpoilKeepsSides DEF StashNewThrows, IInv, Types, SoundBut, Sound, Held
  <1> QED
    BY <1>2, <1>3, AtReturn DEF StashNewThrows, Leave

LEMMA StashBytesStep == ASSUME IInv, StashBytes PROVE IInv'
  <1>1. pc \in ReinitSteps /\ pc = "stash" /\ pc' = "construct" /\ Inside
    BY DEF StashBytes, Goto, Inside, objects, ReinitSteps
  <1>2. Types' /\ ~fault'
    BY <1>1, AtReinit
       DEF StashBytes, IInv, Types, Goto, Watch, BadRead, objects, Memory, Labels, ReinitSteps
  <1>3. SoundBut({call.dst})' /\ storage'[call.dst].side = OldSide
    BY <1>1, AtReinit DEF StashBytes, objects, SoundBut, Sound, Held
  <1> QED
    BY <1>1, <1>2, <1>3, ReinitGoesOn DEF StashBytes, ReinitSteps

LEMMA StashOldStep == ASSUME IInv, StashOld PROVE IInv'
  <1>1. pc \in ReinitSteps /\ pc = "stash" /\ pc' = "destroy" /\ Inside
    BY DEF StashOld, Goto, Inside, ReinitSteps
  <1>2. Types' /\ ~fault'
    BY <1>1, AtReinit, ArmIsSafe, MoveKeepsSides
       DEF StashOld, IInv, Types, Goto, Watch, BadRead, Memory, Labels, ReinitSteps
  <1>3. SoundBut({call.dst})' /\ storage'[call.dst].side = OldSide
    BY <1>1, AtReinit, MoveKeepsSides DEF StashOld, IInv, Types, SoundBut, Sound, Held
  <1>4. Arm # "overwrite"
    BY DEF StashOld
  <1> QED
    BY <1>1, <1>2, <1>3, <1>4, ReinitGoesOn DEF ReinitSteps

LEMMA DestroyOldStep == ASSUME IInv, DestroyOld PROVE IInv'
  <1>1. pc \in ReinitSteps /\ pc = "destroy" /\ pc' = "construct" /\ Inside
    BY DEF DestroyOld, Goto, Inside, ReinitSteps
  <1>2. Types' /\ ~fault'
    BY <1>1, AtReinit
       DEF DestroyOld, IInv, Types, Goto, Watch, BadDestroy, Raw, Unborn, Memory, Payloads, Labels,
           ReinitSteps
  <1>3. SoundBut({call.dst})' /\ storage'[call.dst].side = "none"
    BY <1>1, AtReinit DEF DestroyOld, IInv, Types, SoundBut, Sound, Held, Raw, Unborn
  <1> QED
    BY <1>1, <1>2, <1>3, ReinitGoesOn DEF ReinitSteps

LEMMA ConstructFromTempStep == ASSUME IInv, ConstructFromTemp PROVE IInv'
  <1>1. pc \in ReinitSteps /\ pc = "construct" /\ pc' = "flag" /\ Inside
    BY DEF ConstructFromTemp, Goto, Inside, ReinitSteps
  <1>2. PICK p \in temp : storage' = [storage EXCEPT ![call.dst] = Member(NewSide, p)]
    BY DEF ConstructFromTemp
  <1>3. Types' /\ ~fault'
    BY <1>1, <1>2, AtReinit, ArmIsSafe
       DEF ConstructFromTemp, IInv, Types, Goto, Watch, Member, Memory, Labels, ReinitSteps
  <1>4. SoundBut({call.dst})' /\ storage'[call.dst].side = NewSide
    BY <1>1, <1>2, AtReinit DEF ConstructFromTemp, IInv, Types, SoundBut, Sound, Held, Member
  <1> QED
    BY <1>1, <1>3, <1>4, ReinitGoesOn DEF ReinitSteps

LEMMA ConstructFromArgsStep == ASSUME IInv, ConstructFromArgs PROVE IInv'
  <1>1. pc \in ReinitSteps /\ pc = "construct" /\ pc' = "flag" /\ Inside
    BY DEF ConstructFromArgs, Goto, Inside, ReinitSteps
  <1>2. Types' /\ ~fault'
    BY <1>1, AtReinit, ReadKeepsSides
       DEF ConstructFromArgs, IInv, Types, Goto, Watch, BadRead, Member, Memory, Labels, ReinitSteps
  <1>3. SoundBut({call.dst})' /\ storage'[call.dst].side = NewSide
    BY <1>1, AtReinit, ReadKeepsSides
       DEF ConstructFromArgs, IInv, Types, SoundBut, Sound, Held, Member
  <1> QED
    BY <1>1, <1>2, <1>3, ReinitGoesOn DEF ReinitSteps

\* The direct arm never comes here: its constructor does not throw, unless it is
\* the placeholder's.
LEMMA ConstructThrowsStep == ASSUME IInv, ConstructThrows PROVE IInv'
  <1>1. pc \in ReinitSteps /\ pc = "construct" /\ pc' = "restore" /\ Inside
    BY DEF ConstructThrows, Goto, Inside, ReinitSteps
  <1>2. PICK m \in Spoil(RvalueSource) : storage' = [m EXCEPT ![call.dst] = Raw]
    BY DEF ConstructThrows
  <1>3. m \in [Objects -> Memory] /\ \A o \in Objects : m[o].side = storage[o].side
    BY SpoilKeepsSides DEF IInv, Types
  <1>4. Types' /\ ~fault'
    BY <1>1, <1>2, <1>3, AtReinit
       DEF ConstructThrows, IInv, Types, Goto, Raw, Unborn, Memory, Payloads, Labels, ReinitSteps
  <1>5. SoundBut({call.dst})' /\ storage'[call.dst].side = "none"
    BY <1>1, <1>2, <1>3, AtReinit
       DEF ConstructThrows, SoundBut, Sound, Held, Raw, Unborn
  <1>6. Arm # "viaTemp"
    BY DEF ConstructThrows
  <1>7. Arm # "direct"
    <2>1. NewSide \notin call.nothrow /\ MayCall(profile, call, TRUE, call.src \in alive)
      BY <1>1, AtReinit DEF ConstructThrows, ConstructorThrows, IInv, CallInv
    <2>2. profile.void => NewSide # "value"
      BY <2>1 DEF MayCall, CallOf
    <2> QED
      BY <2>1, <2>2 DEF Arm, ReinitArm
  <1> QED
    BY <1>1, <1>4, <1>5, <1>6, <1>7, ReinitGoesOn DEF ReinitSteps

LEMMA RestoreStep == ASSUME IInv, Restore PROVE IInv'
  <1>1. pc \in ReinitSteps /\ pc = "restore"
    BY DEF Restore, ReinitSteps
  <1>2. PICK p \in Payloads : storage' = [storage EXCEPT ![call.dst] = Member(OldSide, p)]
    BY DEF Restore, IInv, Types, Payloads
  <1>3. Arm \in {"backup", "overwrite", "guarded"}
    BY <1>1 DEF IInv, ReinitInv, Arm, ReinitArm
  <1>4. Types' /\ ~fault' /\ temp' = {}
    BY <1>1, <1>2, <1>3, AtReinit, ArmIsSafe
       DEF Restore, IInv, Types, Leave, Watch, Member, Memory, Labels
  <1>5. SoundBut({})'
    BY <1>1, <1>2, AtReinit DEF Restore, IInv, Types, SoundBut, Sound, Held, Member
  <1> QED
    BY <1>4, <1>5, AtReturn DEF Restore, Leave

LEMMA SetFlagStep == ASSUME IInv, SetFlag PROVE IInv'
  <1>1. pc \in ReinitSteps /\ pc = "flag" /\ storage[call.dst].side = NewSide
    BY DEF SetFlag, ReinitSteps, IInv, ReinitInv
  <1>2. Types' /\ ~fault' /\ temp' = {}
    BY <1>1, AtReinit DEF SetFlag, IInv, Types, Leave, Labels
  <1>3. SoundBut({})'
    BY <1>1, AtReinit DEF SetFlag, IInv, Types, SoundBut, Sound, Held, SideOf, Sides
  <1> QED
    BY <1>2, <1>3, AtReturn DEF SetFlag, Leave

LEMMA ReinitStep == ASSUME IInv, Reinit PROVE IInv'
  BY StashNewStep, StashNewThrowsStep, StashBytesStep, StashOldStep, DestroyOldStep,
     ConstructFromTempStep, ConstructFromArgsStep, ConstructThrowsStep, RestoreStep, SetFlagStep
     DEF Reinit

(***************************************************************************)
(* The steps of _swap_helper.                                              *)
(***************************************************************************)
CrossSteps == SwapSteps \ {"swapMembers"}

\* What holds at each of them.
LEMMA AtSwap ==
  ASSUME IInv, pc \in CrossSteps
  PROVE  /\ ~AtRest /\ pc \notin {"create", "emplaceNew"} \cup ReinitSteps \cup EmplaceSteps
         /\ call \in CallType /\ alive \subseteq Objects /\ Pivot \in Sides
         /\ Holder \in alive /\ Peer \in alive /\ Holder # Peer
         /\ {call.dst, call.src} = {Holder, Peer}
         /\ Held(Holder) = Pivot /\ Held(Peer) = Other(Pivot)
         /\ ~BadMove(Pivot) /\ Stashed \in SUBSET Payloads
         /\ SoundBut({Holder, Peer})
         /\ pc \in {"swapStash", "swapDestroy"}
               => storage[Holder].side = Pivot /\ storage[Peer].side = Other(Pivot)
  <1>1. /\ ~AtRest /\ pc \notin {"create", "emplaceNew"} \cup ReinitSteps \cup EmplaceSteps
        /\ pc \in SwapSteps \ {"swapMembers"}
    BY DEF AtRest, CrossSteps, SwapSteps, ReinitSteps, EmplaceSteps
  <1>2. /\ call \in CallType /\ alive \subseteq Objects /\ call.op = "swap"
        /\ set[call.dst] # set[call.src]
        /\ Stashed \in SUBSET Payloads /\ profile \in Profiles
    BY <1>1 DEF IInv, Types, AtRest, SwapInv, Stashed, Payloads
  <1>3. /\ HasSource(call) /\ call.dst \in alive /\ call.src \in alive
        /\ Requires(profile, call)
        /\ before[call.dst].side = Held(call.dst) /\ before[call.src].side = Held(call.src)
    BY <1>1, <1>2 DEF IInv, CallInv, MayCall, HasSource
  <1>4. Pivot \in Sides /\ Held(call.dst) \in Sides /\ Held(call.src) = Other(Held(call.dst))
    BY <1>2, <1>3 DEF IInv, Types, Pivot, Held, SideOf, Sides, Other
  <1>5. /\ Holder \in alive /\ Peer \in alive /\ Holder # Peer
        /\ {call.dst, call.src} = {Holder, Peer}
        /\ Held(Holder) = Pivot /\ Held(Peer) = Other(Pivot)
    BY <1>2, <1>3, <1>4 DEF Holder, Peer, Other, Sides
  <1>6. ~BadMove(Pivot)
    <2>1. profile \in ProfileType /\ ProfileOK(profile)
      BY <1>2, ProfilesAssumption
    <2> QED
      BY <1>2, <1>3, <2>1 DEF BadMove, Pivot, Requires, ProfileOK, ProfileType, Sides
  <1>7. SoundBut({Holder, Peer})
    BY <1>1, <1>5 DEF IInv, SoundInv, SoundBut, ReinitSteps, SwapSteps
  <1>8. pc \in {"swapStash", "swapDestroy"}
            => storage[Holder].side = Pivot /\ storage[Peer].side = Other(Pivot)
    BY <1>2, <1>5 DEF IInv, SoundInv, SoundBut, Sound, SwapCrossSteps
  <1> QED
    BY <1>1, <1>2, <1>4, <1>5, <1>6, <1>7, <1>8

\* A step of a swap that stays in it: what is left to show.
LEMMA SwapGoesOn ==
  ASSUME IInv, pc \in CrossSteps, Inside, pc' \in CrossSteps \ {"swapStash"},
         Types', ~fault', SoundBut({Holder, Peer})',
         pc' = "swapDestroy" => storage'[Holder].side = Pivot
                                /\ storage'[Peer].side = Other(Pivot),
         pc' \in {"swapMove", "swapRestore"}
            => storage'[Holder].side = "none" /\ storage'[Peer].side = Other(Pivot),
         pc' \in {"swapRelease", "swapFinish", "swapFlags"} => storage'[Holder].side = Other(Pivot),
         pc' = "swapRelease" => storage'[Peer].side = Other(Pivot),
         pc' = "swapFinish" => storage'[Peer].side = "none",
         pc' = "swapFlags" => storage'[Peer].side = Pivot
  PROVE  IInv'
  <1>1. /\ CallInv' /\ Holder' = Holder /\ Peer' = Peer /\ Pivot' = Pivot
        /\ \A o \in Objects : Held(o)' = Held(o)
        /\ call' = call /\ alive' = alive /\ set' = set
    BY AtSwap, CallGoesOn DEF Inside, AtRest, CrossSteps, SwapSteps
  <1>2. SwapInv'
    BY <1>1, AtSwap DEF IInv, SwapInv, CrossSteps, SwapSteps
  <1>3. SoundInv'
    BY <1>1, AtSwap DEF SoundInv, SoundBut, Sound, CrossSteps, SwapSteps, SwapCrossSteps
  <1>4. TempInv' /\ EmplaceInv' /\ ReinitInv'
    BY DEF TempInv, EmplaceInv, ReinitInv, CrossSteps, ReinitSteps, SwapSteps
  <1> QED
    BY <1>1, <1>2, <1>3, <1>4 DEF IInv

LEMMA SwapMembersStep == ASSUME IInv, SwapMembers \/ SwapMembersThrows PROVE IInv'
  <1>1. pc = "swapMembers" /\ pc \in SwapSteps /\ ~AtRest /\ pc # "emplaceNew" /\ temp = {}
    BY DEF IInv, TempInv, SwapMembers, SwapMembersThrows, SwapSteps, AtRest
  <1>2. /\ call \in CallType /\ call.op = "swap" /\ SoundBut({})
        /\ call.dst \in Objects /\ call.dst \in alive /\ HasSource(call)
        /\ set[call.dst] = set[call.src]
    BY <1>1 DEF IInv, Types, CallInv, SwapInv, SoundInv, SwapCrossSteps, CallType, HasSource, AtRest
  <1>3. /\ call.src \in Objects /\ storage[call.src].side = NewSide
        /\ storage[call.dst].side = NewSide
    BY <1>1, <1>2, SourceHoldsNewSide DEF SoundBut, Sound, Held
  <1>4. CASE SwapMembers
    <2>1. Types' /\ ~fault' /\ temp' = {}
      BY <1>1, <1>2, <1>3, <1>4 DEF SwapMembers, IInv, Types, Leave, Watch, BadRead, Memory, Labels
    <2>2. SoundBut({})'
      BY <1>2, <1>3, <1>4 DEF SwapMembers, IInv, Types, SoundBut, Sound, Held, Memory
    <2> QED
      BY <1>4, <2>1, <2>2, AtReturn DEF SwapMembers, Leave
  <1>5. CASE SwapMembersThrows
    <2>1. Types' /\ ~fault' /\ temp' = {}
      BY <1>1, <1>2, <1>5, SpoilKeepsSides DEF SwapMembersThrows, IInv, Types, Leave, Labels
    <2>2. SoundBut({})'
      BY <1>2, <1>5, SpoilKeepsSides DEF SwapMembersThrows, IInv, Types, SoundBut, Sound, Held
    <2> QED
      BY <1>5, <2>1, <2>2, AtReturn DEF SwapMembersThrows, Leave
  <1> QED
    BY <1>4, <1>5

LEMMA SwapStashStep == ASSUME IInv, SwapStash PROVE IInv'
  <1>1. pc \in CrossSteps /\ pc = "swapStash" /\ pc' = "swapDestroy" /\ Inside
    BY DEF SwapStash, Goto, Inside, CrossSteps, SwapSteps
  <1>2. Types' /\ ~fault'
    BY <1>1, AtSwap, MoveKeepsSides
       DEF SwapStash, IInv, Types, Goto, Watch, BadRead, Memory, Labels, SwapSteps
  <1>3. /\ SoundBut({Holder, Peer})'
        /\ storage'[Holder].side = Pivot /\ storage'[Peer].side = Other(Pivot)
    BY <1>1, AtSwap, MoveKeepsSides, CallGoesOn
       DEF SwapStash, IInv, Types, SoundBut, Sound, Held, CrossSteps, SwapSteps
  <1> QED
    BY <1>1, <1>2, <1>3, SwapGoesOn DEF CrossSteps, SwapSteps

LEMMA SwapDestroyStep == ASSUME IInv, SwapDestroy PROVE IInv'
  <1>1. pc \in CrossSteps /\ pc = "swapDestroy" /\ pc' = "swapMove" /\ Inside
    BY DEF SwapDestroy, Goto, Inside, CrossSteps, SwapSteps
  <1>2. Types' /\ ~fault'
    BY <1>1, AtSwap
       DEF SwapDestroy, IInv, Types, Goto, Watch, BadDestroy, Raw, Unborn, Memory, Payloads, Labels,
           SwapSteps
  <1>3. /\ SoundBut({Holder, Peer})'
        /\ storage'[Holder].side = "none" /\ storage'[Peer].side = Other(Pivot)
    BY <1>1, AtSwap, CallGoesOn
       DEF SwapDestroy, IInv, Types, SoundBut, Sound, Held, Raw, Unborn, CrossSteps, SwapSteps
  <1> QED
    BY <1>1, <1>2, <1>3, SwapGoesOn DEF CrossSteps, SwapSteps

LEMMA SwapMoveStep == ASSUME IInv, SwapMove PROVE IInv'
  <1>1. pc \in CrossSteps /\ pc = "swapMove" /\ pc' = "swapRelease" /\ Inside
    BY DEF SwapMove, Goto, Inside, CrossSteps, SwapSteps
  <1>2. storage[Holder].side = "none" /\ storage[Peer].side = Other(Pivot)
        /\ Other(Pivot) \in Sides
    BY <1>1, AtSwap DEF IInv, SwapInv, Other, Sides
  <1>3. Types' /\ ~fault'
    BY <1>1, <1>2, AtSwap, MoveKeepsSides
       DEF SwapMove, IInv, Types, Goto, Watch, BadConstruct, BadRead, Member, Memory, Labels, SwapSteps
  <1>4. /\ SoundBut({Holder, Peer})'
        /\ storage'[Holder].side = Other(Pivot) /\ storage'[Peer].side = Other(Pivot)
    BY <1>1, <1>2, AtSwap, MoveKeepsSides, CallGoesOn
       DEF SwapMove, IInv, Types, SoundBut, Sound, Held, Member, CrossSteps, SwapSteps
  <1> QED
    BY <1>1, <1>3, <1>4, SwapGoesOn DEF CrossSteps, SwapSteps

LEMMA SwapMoveThrowsStep == ASSUME IInv, SwapMoveThrows PROVE IInv'
  <1>1. pc \in CrossSteps /\ pc = "swapMove" /\ pc' = "swapRestore" /\ Inside
    BY DEF SwapMoveThrows, Goto, Inside, CrossSteps, SwapSteps
  <1>2. storage[Holder].side = "none" /\ storage[Peer].side = Other(Pivot)
    BY <1>1 DEF IInv, SwapInv
  <1>3. Types' /\ ~fault'
    BY <1>1, AtSwap, SpoilKeepsSides
       DEF SwapMoveThrows, IInv, Types, Goto, Labels, SwapSteps
  <1>4. /\ SoundBut({Holder, Peer})'
        /\ storage'[Holder].side = "none" /\ storage'[Peer].side = Other(Pivot)
    BY <1>1, <1>2, AtSwap, SpoilKeepsSides, CallGoesOn
       DEF SwapMoveThrows, IInv, Types, SoundBut, Sound, Held, CrossSteps, SwapSteps
  <1> QED
    BY <1>1, <1>3, <1>4, SwapGoesOn DEF CrossSteps, SwapSteps

\* The handler puts the pivot back where it was.
LEMMA SwapRestoreStep == ASSUME IInv, SwapRestore PROVE IInv'
  <1>1. pc \in CrossSteps /\ pc = "swapRestore"
    BY DEF SwapRestore, CrossSteps, SwapSteps
  <1>2. storage[Holder].side = "none" /\ storage[Peer].side = Other(Pivot)
    BY <1>1 DEF IInv, SwapInv
  <1>3. PICK p \in Payloads : storage' = [storage EXCEPT ![Holder] = Member(Pivot, p)]
    BY <1>1, AtSwap DEF SwapRestore
  <1>4. Types' /\ ~fault' /\ temp' = {}
    BY <1>1, <1>2, <1>3, AtSwap
       DEF SwapRestore, IInv, Types, Leave, Watch, BadConstruct, Member, Memory, Labels
  <1>5. SoundBut({})'
    BY <1>1, <1>2, <1>3, AtSwap DEF SwapRestore, IInv, Types, SoundBut, Sound, Held, Member
  <1> QED
    BY <1>4, <1>5, AtReturn DEF SwapRestore, Leave

LEMMA SwapReleaseStep == ASSUME IInv, SwapRelease PROVE IInv'
  <1>1. pc \in CrossSteps /\ pc = "swapRelease" /\ pc' = "swapFinish" /\ Inside
    BY DEF SwapRelease, Goto, Inside, CrossSteps, SwapSteps
  <1>2. storage[Holder].side = Other(Pivot) /\ storage[Peer].side = Other(Pivot)
    BY <1>1 DEF IInv, SwapInv
  <1>3. Types' /\ ~fault'
    BY <1>1, <1>2, AtSwap
       DEF SwapRelease, IInv, Types, Goto, Watch, BadDestroy, Raw, Unborn, Memory, Payloads, Labels,
           SwapSteps
  <1>4. /\ SoundBut({Holder, Peer})'
        /\ storage'[Holder].side = Other(Pivot) /\ storage'[Peer].side = "none"
    BY <1>1, <1>2, AtSwap, CallGoesOn
       DEF SwapRelease, IInv, Types, SoundBut, Sound, Held, Raw, Unborn, CrossSteps, SwapSteps
  <1> QED
    BY <1>1, <1>3, <1>4, SwapGoesOn DEF CrossSteps, SwapSteps

LEMMA SwapFinishStep == ASSUME IInv, SwapFinish PROVE IInv'
  <1>1. pc \in CrossSteps /\ pc = "swapFinish" /\ pc' = "swapFlags" /\ Inside
    BY DEF SwapFinish, Goto, Inside, CrossSteps, SwapSteps
  <1>2. storage[Holder].side = Other(Pivot) /\ storage[Peer].side = "none"
    BY <1>1 DEF IInv, SwapInv
  <1>3. PICK p \in Payloads : storage' = [storage EXCEPT ![Peer] = Member(Pivot, p)]
    BY <1>1, AtSwap DEF SwapFinish
  <1>4. Types' /\ ~fault'
    BY <1>1, <1>2, <1>3, AtSwap
       DEF SwapFinish, IInv, Types, Goto, Watch, BadConstruct, Member, Memory, Labels, SwapSteps
  <1>5. /\ SoundBut({Holder, Peer})'
        /\ storage'[Holder].side = Other(Pivot) /\ storage'[Peer].side = Pivot
    BY <1>1, <1>2, <1>3, AtSwap, CallGoesOn
       DEF SwapFinish, IInv, Types, SoundBut, Sound, Held, Member, CrossSteps, SwapSteps
  <1> QED
    BY <1>1, <1>4, <1>5, SwapGoesOn DEF CrossSteps, SwapSteps

\* The flags catch up with the members.
LEMMA SwapFlagsStep == ASSUME IInv, SwapFlags PROVE IInv'
  <1>1. pc \in CrossSteps /\ pc = "swapFlags"
    BY DEF SwapFlags, CrossSteps, SwapSteps
  <1>2. storage[Holder].side = Other(Pivot) /\ storage[Peer].side = Pivot
    BY <1>1 DEF IInv, SwapInv
  <1>3. Types' /\ ~fault' /\ temp' = {}
    BY <1>1, AtSwap DEF SwapFlags, IInv, Types, Leave, Labels
  <1>4. SoundBut({})'
    BY <1>1, <1>2, AtSwap
       DEF SwapFlags, IInv, Types, SoundBut, Sound, Held, SideOf, Sides, Other
  <1> QED
    BY <1>3, <1>4, AtReturn DEF SwapFlags, Leave

LEMMA SwapStep == ASSUME IInv, Swap PROVE IInv'
  BY SwapMembersStep, SwapStashStep, SwapDestroyStep, SwapMoveStep, SwapMoveThrowsStep,
     SwapRestoreStep, SwapReleaseStep, SwapFinishStep, SwapFlagsStep
     DEF Swap

(***************************************************************************)
(* emplace, and the life of an object outside of calls.                    *)
(***************************************************************************)
LEMMA EmplaceStep ==
  ASSUME IInv, EmplaceDestroy \/ EmplaceConstruct \/ EmplaceKeeps
  PROVE  IInv'
  <1>1. /\ call \in CallType /\ call.dst \in Objects /\ call.dst \in alive /\ temp = {}
        /\ MayCall(profile, call, TRUE, call.src \in alive)
    BY DEF IInv, Types, EmplaceDestroy, EmplaceConstruct, EmplaceKeeps, CallInv, TempInv, AtRest,
           CallType
  <1>2. CASE EmplaceDestroy
    <2>1. call.op = "emplace" /\ ~profile.void /\ SoundBut({})
      BY <1>2 DEF IInv, EmplaceDestroy, EmplaceInv, SoundInv, SwapCrossSteps
    <2>2. Types' /\ ~fault' /\ pc' = "emplaceNew" /\ temp' = {}
      BY <1>1, <1>2, <2>1
         DEF EmplaceDestroy, IInv, Types, SoundBut, Sound, Goto, Watch, BadDestroy, Raw, Unborn, Memory,
             Payloads, Labels, EmplaceSteps
    <2>3. SoundInv' /\ EmplaceInv'
      BY <1>1, <1>2, <2>1, <2>2
         DEF EmplaceDestroy, IInv, Types, SoundInv, SoundBut, Sound, Held, EmplaceInv, Raw, Unborn
    <2>4. CallInv'
      BY <1>1, <1>2, <2>2 DEF EmplaceDestroy, CallInv
    <2>5. TempInv' /\ ReinitInv' /\ SwapInv'
      BY <2>2 DEF TempInv, ReinitInv, SwapInv, ReinitSteps, SwapSteps
    <2> QED
      BY <2>2, <2>3, <2>4, <2>5 DEF IInv
  <1>3. CASE EmplaceConstruct
    <2>1. /\ call.op = "emplace" /\ ~profile.void /\ SoundBut({call.dst})
          /\ storage[call.dst].side = "none" /\ set[call.dst]
      BY <1>3 DEF IInv, EmplaceConstruct, EmplaceInv, SoundInv
    <2>2. NewSide = "value" /\ "value" \in call.nothrow
      BY <1>1, <2>1 DEF MayCall, Requires, HasSource, NewSide, Target
    <2>3. Types' /\ ~fault' /\ pc' = "return" /\ temp' = {}
      BY <1>1, <1>3, <2>1, <2>2
         DEF EmplaceConstruct, IInv, Types, Leave, Watch, BadConstruct, ConstructorThrows, Member,
             Memory, Sides, Labels, CallType
    <2>4. SoundBut({})'
      BY <1>1, <1>3, <2>1 DEF EmplaceConstruct, IInv, Types, SoundBut, Sound, Held, SideOf, Member
    <2> QED
      BY <2>3, <2>4, AtReturn
  <1>4. CASE EmplaceKeeps
    <2>1. Types' /\ ~fault' /\ pc' = "return" /\ temp' = {}
      BY <1>1, <1>4 DEF EmplaceKeeps, IInv, Types, Leave, objects, Labels
    <2>2. SoundBut({})'
      BY <1>4 DEF EmplaceKeeps, IInv, SoundInv, SoundBut, Sound, Held, objects, SwapCrossSteps
    <2> QED
      BY <2>1, <2>2, AtReturn
  <1> QED
    BY <1>2, <1>3, <1>4

LEMMA RestStep ==
  ASSUME IInv, Return \/ \E o \in Objects : Destruct(o)
  PROVE  IInv'
  <1>1. AtRest /\ temp = {} /\ SoundBut({})
    BY DEF IInv, Return, Destruct, AtRest, TempInv, SoundInv, SwapCrossSteps
  <1>2. CASE Return
    <2>1. Types' /\ ~fault' /\ pc' = "idle" /\ temp' = {}
      BY <1>1, <1>2 DEF Return, IInv, Types, objects, Unborn, Memory, Payloads, Labels
    <2>2. SoundBut({})'
      BY <1>1, <1>2 DEF Return, objects, SoundBut, Sound, Held
    <2> QED
      BY <2>1, <2>2
         DEF IInv, TempInv, CallInv, ReinitInv, EmplaceInv, SwapInv, SoundInv, AtRest, ReinitSteps,
             SwapSteps, SwapCrossSteps
  <1>3. ASSUME NEW o \in Objects, Destruct(o) PROVE IInv'
    <2>1. Types' /\ ~fault' /\ pc' = "idle" /\ temp' = {}
      BY <1>1, <1>3
         DEF Destruct, IInv, Types, SoundBut, Sound, Watch, BadDestroy, Raw, Unborn, Memory, Payloads
    <2>2. SoundBut({})'
      BY <1>1, <1>3 DEF Destruct, IInv, Types, SoundBut, Sound, Held, Raw, Unborn
    <2> QED
      BY <2>1, <2>2
         DEF IInv, TempInv, CallInv, ReinitInv, EmplaceInv, SwapInv, SoundInv, AtRest, ReinitSteps,
             SwapSteps, SwapCrossSteps
  <1> QED
    BY <1>2, <1>3

(***************************************************************************)
(* The beginning of a call, and the theorems.                              *)
(***************************************************************************)
\* A call enters the step its target, its source and the traits choose.
LEMMA BeginStep == ASSUME IInv, Begin PROVE IInv'
  <1>1. PICK c \in CallType : /\ MayCall(profile, c, c.dst \in alive, c.src \in alive)
                              /\ call' = c /\ pc' = Entry(c) /\ result' = result
    BY DEF Begin, Goto
  <1>2. /\ temp = {} /\ SoundBut({}) /\ UNCHANGED <<profile, alive, storage, set, temp, fault>>
        /\ before' = [o \in Objects |-> ContentOf(o)]
        /\ c.dst \in Objects /\ c.src \in Objects /\ c.op \in Ops
    BY <1>1 DEF IInv, TempInv, SoundInv, SwapCrossSteps, Begin, objects, CallType
  <1>3. SoundBut({})'
    BY <1>2 DEF SoundBut, Sound, Held
  <1>4. \A o \in Objects : before'[o].side = IF o \in alive THEN Held(o) ELSE "none"
    BY <1>2 DEF ContentOf, Member, Unborn
  <1>5. before' \in [Objects -> Memory]
    BY <1>2 DEF IInv, Types, ContentOf, Member, Held, SideOf, Unborn, Memory, Payloads, Sides
  <1>6. \A o \in Objects : Held(o) \in Sides /\ Held(o)' = Held(o)
    BY <1>2 DEF Held, SideOf, Sides
  <1>7. CASE c.dst \notin alive
    <2>1. pc' = "create"
      BY <1>1, <1>7 DEF Entry, MayCall
    <2> QED
      BY <1>1, <1>2, <1>3, <1>4, <1>5, <1>7, <2>1
         DEF IInv, Types, TempInv, CallInv, ReinitInv, EmplaceInv, SwapInv, SoundInv, AtRest, Labels,
             ReinitSteps, SwapSteps, EmplaceSteps, SwapCrossSteps, Held
  <1>8. CASE c.dst \in alive /\ c.op = "swap"
    <2>1. IF set[c.dst] = set[c.src] THEN pc' = "swapMembers" ELSE pc' \in {"swapStash", "swapDestroy"}
      BY <1>1, <1>8 DEF Entry
    <2> QED
      BY <1>1, <1>2, <1>3, <1>4, <1>5, <1>8, <2>1
         DEF IInv, Types, TempInv, CallInv, ReinitInv, EmplaceInv, SwapInv, SoundInv, AtRest, Labels,
             ReinitSteps, SwapSteps, EmplaceSteps, SwapCrossSteps, Held
  <1>9. CASE c.dst \in alive /\ c.op = "emplace" /\ (profile.void => set[c.dst])
    <2>1. IF profile.void THEN pc' = "keep" ELSE pc' = "emplace"
      BY <1>1, <1>9 DEF Entry
    <2> QED
      BY <1>1, <1>2, <1>3, <1>4, <1>5, <1>9, <2>1
         DEF IInv, Types, TempInv, CallInv, ReinitInv, EmplaceInv, SwapInv, SoundInv, AtRest, Labels,
             ReinitSteps, SwapSteps, EmplaceSteps, SwapCrossSteps, Held
  <1>10. CASE /\ c.dst \in alive
              /\ c.op = "emplace" => profile.void /\ ~set[c.dst]
              /\ c.op # "swap"
    <2>1. HasSource(c) => c.src \in alive
      BY <1>1 DEF MayCall
    <2>2. NewSide' = Target(c, Held(c.src))
      BY <1>1, <1>2, <1>4, <2>1 DEF NewSide, Target, HasSource
    <2>3. NewSide' \in Sides /\ OldSide' = Other(NewSide') /\ Arm' = ReinitArm(NewSide', c)
      BY <1>1, <1>2, <1>6, <2>2 DEF Target, OldSide, Arm, ReinitArm, Sides
    <2>4. IF Held(c.dst) = NewSide' THEN pc' = "assign" ELSE pc' = ReinitEntry(NewSide', c)
      <3>1. CASE c.op = "emplace"
        <4>1. pc' = "destroy" /\ NewSide' = "value" /\ Held(c.dst) = "error"
          BY <1>1, <1>10, <2>2, <3>1 DEF Entry, Target, HasSource, Held, SideOf
        <4>2. ReinitEntry(NewSide', c) = "destroy"
          BY <1>10, <3>1, <4>1 DEF ReinitEntry, ReinitArm
        <4> QED
          BY <4>1, <4>2
      <3>2. CASE c.op # "emplace"
        BY <1>1, <1>10, <2>2, <3>2 DEF Entry
      <3> QED
        BY <3>1, <3>2
    <2>5. CASE Held(c.dst) = NewSide'
      <3>1. c.op # "emplace" /\ pc' = "assign"
        BY <1>10, <2>2, <2>4, <2>5 DEF Target, HasSource, Held, SideOf
      <3> QED
        BY <1>1, <1>2, <1>3, <1>4, <1>5, <1>6, <1>10, <2>5, <3>1
           DEF IInv, Types, TempInv, CallInv, ReinitInv, EmplaceInv, SwapInv, SoundInv, AtRest, Labels,
               ReinitSteps, SwapSteps, EmplaceSteps, SwapCrossSteps, Held
    <2>6. CASE Held(c.dst) # NewSide'
      <3>1. Held(c.dst)' = OldSide'
        BY <1>2, <1>6, <2>3, <2>6 DEF Other, Sides
      <3>2. /\ pc' \in {"stash", "destroy"}
            /\ pc' = "stash" => Arm' \notin {"direct", "guarded"}
            /\ pc' = "destroy" => Arm' # "overwrite"
        BY <2>3, <2>4, <2>6 DEF ReinitEntry
      <3>3. ReinitInv'
        BY <1>1, <1>10, <3>1, <3>2 DEF ReinitInv
      <3>4. CallInv'
        BY <1>1, <1>2, <1>4, <1>6, <1>10, <3>2 DEF CallInv
      <3> QED
        BY <1>1, <1>2, <1>3, <1>5, <3>2, <3>3, <3>4
           DEF IInv, Types, TempInv, EmplaceInv, SwapInv, SoundInv, Labels, ReinitSteps, SwapSteps,
               EmplaceSteps, SwapCrossSteps
    <2> QED
      BY <2>5, <2>6
  <1> QED
    BY <1>7, <1>8, <1>9, <1>10

LEMMA StutterStep == ASSUME IInv, UNCHANGED vars PROVE IInv'
  BY DEF vars, objects, IInv, Types, TempInv, CallInv, ReinitInv, EmplaceInv, SwapInv, SoundInv, SoundBut,
         Sound, AtRest, Held, NewSide, OldSide, Arm, ReinitArm, Holder, Peer, Pivot

LEMMA IInvStep == IInv /\ [Next]_vars => IInv'
  BY BeginStep, CreateStep, AssignStep, EmplaceStep, ReinitStep, SwapStep, RestStep, StutterStep
     DEF Next, Step

\* The inductive invariant holds in every reachable state.
THEOREM Invariant == Spec => []IInv
  BY InitIInv, IInvStep, PTL DEF Spec

LEMMA IInvImplies == IInv => TypeOK /\ NeverValueless /\ NoLifetimeFault
<1> SUFFICES ASSUME IInv PROVE TypeOK /\ NeverValueless /\ NoLifetimeFault
  OBVIOUS
<1>1. TypeOK
  BY DEF IInv, Types, TempInv, AtRest, TypeOK
<1>2. NeverValueless
  BY DEF IInv, SoundInv, SoundBut, Sound, AtRest, SwapCrossSteps, NeverValueless
<1> QED
  BY <1>1, <1>2 DEF IInv, NoLifetimeFault

\* Whatever T and E are and whatever they throw, every variable keeps its type
\* and no temporary of _reinit or _swap_helper outlives its call.
THEOREM TypeCorrect == Spec => []TypeOK
  BY Invariant, IInvImplies, PTL

\* The titular claim: no expected is ever valueless, and its flag never lies,
\* between calls - for any number of objects and any T and E.
THEOREM NeverValuelessAlways == Spec => []NeverValueless
  BY Invariant, IInvImplies, PTL

\* No lifetime is misused: the requires clauses of the assignments, of emplace
\* and of swap are strong enough for the arms `if constexpr` chooses.
THEOREM NoFaultEver == Spec => []NoLifetimeFault
  BY Invariant, IInvImplies, PTL

(***************************************************************************)
(* Exceptions and noexcept.  A call throws from a constructor or from an   *)
(* assignment, at once or after a handler; NoexceptInv remembers, while    *)
(* the handler runs, that the constructor was one that may throw.          *)
(***************************************************************************)
NoexceptInv ==
    /\ pc = "restore" => NewSide \notin call.nothrow
    /\ pc = "swapRestore" => Other(Pivot) \notin call.nothrow
    /\ result = "threw" => pc = "return" /\ ~Noexcept(call, call.dst \in alive)

\* The declared conditions cover what a call may construct or assign.
LEMMA ConditionCoversConstructor ==
  ASSUME IInv, ~AtRest, pc \notin {"emplaceNew", "emplace"}, NEW s \in Sides, s \notin call.nothrow,
         HasSource(call) \/ s = NewSide
  PROVE  ~Noexcept(call, call.dst \in alive)
  <1>1. s \in Concerned(call)
    BY DEF Concerned, NewSide
  <1>2. call.op # "emplace"
    <2>1. MayCall(profile, call, pc # "create", call.src \in alive)
      BY DEF IInv, CallInv
    <2>2. call.op = "emplace" => "value" \in call.nothrow
      BY <2>1 DEF MayCall, CallOf, Requires, HasSource
    <2> QED
      BY <2>2 DEF NewSide, Target, HasSource
  <1> QED
    BY <1>1, <1>2 DEF Noexcept

LEMMA ConditionCoversAssignment ==
  ASSUME IInv, pc \in {"assign", "swapMembers"}, AssignmentThrows(NewSide)
  PROVE  ~Noexcept(call, call.dst \in alive)
  <1>1. ~AtRest /\ call.dst \in alive /\ call.op # "emplace" /\ NewSide \in Sides
    BY NewSideIsASide DEF IInv, AtRest, CallInv, ReinitInv, SwapInv, SwapSteps
  <1>2. NewSide \in Concerned(call)
    BY <1>1 DEF Concerned, NewSide
  <1> QED
    BY <1>1, <1>2 DEF Noexcept, AssignmentThrows

LEMMA NoexceptInit == Init => NoexceptInv
  BY DEF Init, NoexceptInv

LEMMA NoexceptStep ==
  ASSUME IInv, NoexceptInv, [Next]_vars
  PROVE  NoexceptInv'
  <1>1. pc \notin {"idle", "return"} => result # "threw"
    BY DEF NoexceptInv
  <1>2. CASE Begin
    <2>1. PICK c \in CallType : MayCall(profile, c, c.dst \in alive, c.src \in alive) /\ pc' = Entry(c)
      BY <1>2 DEF Begin, Goto
    <2>2. pc' \notin {"restore", "swapRestore"}
      <3>1. CASE c.dst \notin alive
        BY <2>1, <3>1 DEF Entry, MayCall
      <3>2. CASE c.dst \in alive
        BY <2>1, <3>2 DEF Entry, ReinitEntry
      <3> QED
        BY <3>1, <3>2
    <2> QED
      BY <1>2, <2>2 DEF Begin, Goto, NoexceptInv
  <1>3. CASE CreateThrows \/ StashNewThrows
    <2>1. /\ ~AtRest /\ pc \notin {"emplaceNew", "emplace"} /\ NewSide \in Sides
          /\ NewSide \notin call.nothrow /\ pc' = "return"
          /\ UNCHANGED <<call, alive>>
      BY <1>3, NewSideIsASide DEF CreateThrows, StashNewThrows, AtRest, ConstructorThrows, Leave
    <2>2. ~Noexcept(call, call.dst \in alive)
      BY <2>1, ConditionCoversConstructor
    <2> QED
      BY <2>1, <2>2 DEF NoexceptInv
  <1>4. CASE AssignThrows \/ SwapMembersThrows
    BY <1>4, ConditionCoversAssignment DEF AssignThrows, SwapMembersThrows, NoexceptInv, Leave
  <1>5. CASE ConstructThrows
    <2>1. pc \in ReinitSteps /\ pc' = "restore" /\ Inside
      BY <1>5 DEF ConstructThrows, Goto, Inside, ReinitSteps
    <2>2. NewSide' = NewSide
      BY <1>5, <2>1, AtReinit, CallGoesOn DEF ConstructThrows, ReinitSteps
    <2> QED
      BY <1>1, <1>5, <2>1, <2>2 DEF ConstructThrows, ConstructorThrows, Goto, NoexceptInv, Inside
  <1>6. CASE Restore \/ SwapRestore
    <2>1. ~AtRest /\ pc \notin {"emplaceNew", "emplace"} /\ NewSide \in Sides /\ OldSide \in Sides
      BY <1>6, NewSideIsASide DEF Restore, SwapRestore, AtRest
    <2>2. ~Noexcept(call, call.dst \in alive)
      <3>1. CASE Restore
        BY <2>1, <3>1, ConditionCoversConstructor DEF Restore, NoexceptInv
      <3>2. CASE SwapRestore
        <4>1. HasSource(call) /\ Other(Pivot) \in Sides /\ Other(Pivot) \notin call.nothrow
          BY <3>2 DEF SwapRestore, NoexceptInv, IInv, SwapInv, SwapSteps, HasSource, Other, Sides
        <4> QED
          BY <2>1, <4>1, ConditionCoversConstructor
      <3> QED
        BY <1>6, <3>1, <3>2
    <2> QED
      BY <1>6, <2>2 DEF Restore, SwapRestore, Leave, NoexceptInv
  <1>7. CASE SwapMoveThrows
    <2>1. pc \in CrossSteps /\ pc' = "swapRestore" /\ Inside
      BY <1>7 DEF SwapMoveThrows, Goto, Inside, CrossSteps, SwapSteps
    <2>2. Pivot' = Pivot
      BY <2>1 DEF Inside, Pivot
    <2> QED
      BY <1>1, <1>7, <2>1, <2>2 DEF SwapMoveThrows, Goto, NoexceptInv, Inside, Other
  <1>8. CASE \/ Create \/ Assign \/ EmplaceDestroy \/ EmplaceConstruct \/ EmplaceKeeps
             \/ StashNew \/ StashBytes \/ StashOld \/ DestroyOld \/ ConstructFromTemp
             \/ ConstructFromArgs \/ SetFlag \/ SwapMembers \/ SwapStash \/ SwapDestroy
             \/ SwapMove \/ SwapRelease \/ SwapFinish \/ SwapFlags
    BY <1>1, <1>8
       DEF Create, Assign, EmplaceDestroy, EmplaceConstruct, EmplaceKeeps, StashNew, StashBytes,
           StashOld, DestroyOld, ConstructFromTemp, ConstructFromArgs, SetFlag, SwapMembers, SwapStash,
           SwapDestroy, SwapMove, SwapRelease, SwapFinish, SwapFlags, Leave, Goto, NoexceptInv
  <1>9. CASE Return \/ (\E o \in Objects : Destruct(o)) \/ UNCHANGED vars
    BY <1>9 DEF Return, Destruct, vars, objects, NoexceptInv, Noexcept, Concerned, NewSide, Pivot, Other
  <1> QED
    BY <1>2, <1>3, <1>4, <1>5, <1>6, <1>7, <1>8, <1>9 DEF Next, Step, Reinit, Swap

\* A function declared noexcept never throws: whichever arm of _reinit and
\* whichever branch of _swap_helper it takes, the condition of its noexcept
\* specification covers every constructor and assignment on the way.
THEOREM NoexceptIsHonest == Spec => []NoexceptHonest
<1>1. NoexceptInv => NoexceptHonest
  BY DEF NoexceptInv, NoexceptHonest
<1>2. IInv /\ NoexceptInv /\ [Next]_vars => NoexceptInv'
  BY NoexceptStep
<1> QED
  BY <1>1, <1>2, NoexceptInit, Invariant, PTL DEF Spec
(***************************************************************************)
(* The exception guarantee.  What a call that throws gives back it must    *)
(* have kept all along: GInv says, for each step an exception can still    *)
(* come from, which objects are as they were before the call, and that the *)
(* payload of the one that is not waits in a temporary - or was the        *)
(* placeholder of expected<void, E>, which needs no saving.                *)
(***************************************************************************)
\* Every object not in S is as it was when the call began.
Kept(S) == \A o \in Objects \ S : ContentOf(o) = before[o]
KeptIfStrong(S) == profile.strong => Kept(S)

\* The placeholder has one payload.
VoidInv == profile.void => \A o \in Objects : storage[o].side = "value" => storage[o].val = Hollow

\* Where the old member of _reinit comes back from.
Rescued == IF Arm = "guarded" THEN {Hollow} ELSE temp

Untouched == pc \in {"create", "assign", "stash", "swapMembers", "swapStash"} => Kept({})

ReinitKeeps ==
    /\ pc = "destroy" /\ Arm = "guarded" => Kept({})
    /\ pc = "destroy" /\ Arm = "backup" => Kept({call.dst}) /\ temp = {before[call.dst].val}
    /\ pc = "construct" /\ Arm \notin {"direct", "viaTemp"}
          => Kept({call.dst}) /\ Rescued = {before[call.dst].val}
    /\ pc = "restore" => KeptIfStrong({call.dst}) /\ Rescued = {before[call.dst].val}

SwapKeeps ==
    /\ pc = "swapStash" => ~profile.void
    /\ pc = "swapDestroy" => IF profile.void THEN Kept({})
                             ELSE Kept({Holder}) /\ temp = {before[Holder].val}
    /\ pc = "swapMove" => Kept({Holder}) /\ Stashed = {before[Holder].val}
    /\ pc = "swapRestore" => KeptIfStrong({Holder}) /\ Stashed = {before[Holder].val}

GInv == VoidInv /\ Untouched /\ ReinitKeeps /\ SwapKeeps /\ ExceptionGuarantee

LEMMA GuaranteeInit == Init => GInv
  BY DEF Init, GInv, VoidInv, Untouched, ReinitKeeps, SwapKeeps, ExceptionGuarantee, Raw, Unborn

\* What a step inside a call makes of o: only the memory has changed.
After(o) == IF o \in alive THEN Member(Held(o), storage'[o].val) ELSE Unborn

LEMMA InsideKeeps ==
  ASSUME Inside
  PROVE  /\ NewSide' = NewSide /\ OldSide' = OldSide /\ Arm' = Arm
         /\ Holder' = Holder /\ Peer' = Peer /\ Pivot' = Pivot
         /\ \A o \in Objects : ContentOf(o)' = After(o)
  BY DEF Inside, NewSide, OldSide, Arm, ReinitArm, Holder, Peer, Pivot, Held, ContentOf, After

LEMMA KeptPayload ==
  ASSUME Kept({}), NEW o \in Objects, o \in alive
  PROVE  storage[o].val = before[o].val
  <1>1. before[o] = Member(Held(o), storage[o].val)
    BY DEF Kept, ContentOf
  <1> QED
    BY <1>1 DEF Member

\* A user's operation that throws spoils its rvalue operands only, and not even
\* those under the strong guarantee; nothing it spoils is left a value of its own.
LEMMA SpoilKeepsTheRest ==
  ASSUME storage \in [Objects -> Memory], NEW S, NEW m \in Spoil(S)
  PROVE  /\ profile.strong => m = storage
         /\ \A o \in Objects : o \notin S => m[o] = storage[o]
         /\ \A o \in Objects : m[o].val = storage[o].val \/ m[o].val = Hollow
  BY DEF Spoil, HollowOut, Memory

\* An object whose payload is again what it was is again what it was.
LEMMA Rebuilt ==
  ASSUME IInv, ~AtRest, pc # "emplaceNew", NEW o \in Objects, o \in alive,
         storage'[o].val = before[o].val
  PROVE  After(o) = before[o]
  <1>1. before[o] \in Memory /\ before[o].side = Held(o)
    BY DEF IInv, Types, CallInv
  <1> QED
    BY <1>1 DEF After, Member, Memory

\* What is left to show of a step that throws to the caller.
LEMMA ThrowsOut ==
  ASSUME IInv, ~AtRest, pc # "emplaceNew", Inside,
         profile.strong => \A o \in Objects : After(o) = before[o],
         call.op # "swap" /\ before[call.dst].side # NewSide => After(call.dst) = before[call.dst]
  PROVE  ExceptionGuarantee'
  <1>1. \A o \in Objects : After(o).side = before[o].side
    BY DEF IInv, CallInv, After, Member, Unborn
  <1>2. /\ NewSide' = NewSide /\ call' = call /\ before' = before /\ profile' = profile
        /\ call.dst \in Objects
    BY InsideKeeps DEF Inside, IInv, Types, CallType, AtRest
  <1>3. /\ \A o \in Objects : ContentOf(o)' = After(o)
        /\ ContentOf(call.dst)' = After(call.dst)
    BY <1>2, InsideKeeps DEF ContentOf, After, Held, Inside
  <1> QED
    BY <1>1, <1>2, <1>3 DEF ExceptionGuarantee

(***************************************************************************)
(* The placeholder.                                                        *)
(***************************************************************************)
LEMMA VoidCallBringsHollow ==
  ASSUME IInv, VoidInv, profile.void, ~AtRest, NewSide = "value",
         HasSource(call) => call.src \in Objects /\ storage[call.src].side = NewSide
  PROVE  Incoming = Hollow
  <1>1. MayCall(profile, call, pc # "create", call.src \in alive) /\ call \in CallType
    BY DEF IInv, CallInv, Types, AtRest
  <1>2. CASE HasSource(call)
    BY <1>2 DEF VoidInv, Incoming
  <1>3. CASE ~HasSource(call)
    BY <1>1, <1>3 DEF MayCall, CallOf, Incoming, NewSide, Target, CallType, Ops, HasSource
  <1> QED
    BY <1>2, <1>3

LEMMA ReadKeepsVoid ==
  ASSUME IInv, VoidInv, profile.void, call \in CallType
  PROVE  \A o \in Objects : AfterRead[o].side = "value" => AfterRead[o].val = Hollow
  BY DEF IInv, Types, VoidInv, AfterRead, AfterMove, CallType, Memory

LEMMA VoidWritesByArgs ==
  ASSUME IInv, VoidInv, profile.void, Create \/ Assign \/ ConstructFromArgs
  PROVE  \A o \in Objects : storage'[o].side = "value" => storage'[o].val = Hollow
  <1>1. CASE Create \/ Assign
    <2>1. /\ ~AtRest /\ pc # "emplaceNew" /\ call \in CallType /\ call.dst \in Objects
          /\ SoundBut({})
      BY <1>1 DEF Create, Assign, IInv, Types, AtRest, SoundInv, SwapCrossSteps, CallType
    <2>2. HasSource(call) => call.src \in Objects /\ storage[call.src].side = NewSide
      BY <2>1, SourceHoldsNewSide DEF SoundBut, Sound
    <2>3. NewSide = "value" => Incoming = Hollow
      BY <2>1, <2>2, VoidCallBringsHollow
    <2>4. pc = "assign" => storage[call.dst].side = NewSide
      BY <2>1 DEF IInv, ReinitInv, CallInv, SoundBut, Sound
    <2>5. AfterRead \in [Objects -> Memory]
          /\ \A o \in Objects : AfterRead[o].side = storage[o].side
      BY <2>1, ReadKeepsSides DEF IInv, Types
    <2>6. CASE Create
      BY <2>1, <2>3, <2>5, <2>6, ReadKeepsVoid DEF Create, Member
    <2>7. CASE Assign
      BY <2>1, <2>3, <2>4, <2>5, <2>7, ReadKeepsVoid DEF Assign, Memory
    <2> QED
      BY <1>1, <2>6, <2>7
  <1>2. CASE ConstructFromArgs
    <2>1. pc \in ReinitSteps
      BY <1>2 DEF ConstructFromArgs, ReinitSteps
    <2>2. /\ ~AtRest /\ call \in CallType /\ call.dst \in Objects
          /\ HasSource(call) => call.src \in Objects /\ storage[call.src].side = NewSide
      BY <2>1, AtReinit
    <2>3. NewSide = "value" => Incoming = Hollow
      BY <2>2, VoidCallBringsHollow
    <2>4. AfterRead \in [Objects -> Memory]
      BY <2>2, ReadKeepsSides DEF IInv, Types
    <2> QED
      BY <1>2, <2>2, <2>3, <2>4, ReadKeepsVoid DEF ConstructFromArgs, Member
  <1> QED
    BY <1>1, <1>2

LEMMA VoidStep ==
  ASSUME IInv, VoidInv, [Next]_vars
  PROVE  VoidInv'
  <1>1. storage \in [Objects -> Memory] /\ alive \subseteq Objects /\ profile' = profile
    BY DEF IInv, Types, Next, Step, Reinit, Swap, Begin, Return, Destruct, Create, CreateThrows, Assign,
           AssignThrows, EmplaceDestroy, EmplaceConstruct, EmplaceKeeps, StashNew, StashNewThrows,
           StashBytes, StashOld, DestroyOld, ConstructFromTemp, ConstructFromArgs, ConstructThrows,
           Restore, SetFlag, SwapMembers, SwapMembersThrows, SwapStash, SwapDestroy, SwapMove,
           SwapMoveThrows, SwapRestore, SwapRelease, SwapFinish, SwapFlags, vars
  <1> SUFFICES ASSUME profile.void
               PROVE  \A o \in Objects : storage'[o].side = "value" => storage'[o].val = Hollow
    BY <1>1 DEF VoidInv
  <1>2. \A o \in Objects : storage[o].side = "value" => storage[o].val = Hollow
    BY DEF VoidInv
  <1>3. pc \notin {"idle", "return"} => call \in CallType /\ call.dst \in Objects
    BY DEF IInv, Types, CallType
  <1>4. CASE Create \/ Assign \/ ConstructFromArgs
    BY <1>4, VoidWritesByArgs
  <1>5. CASE CreateThrows \/ AssignThrows \/ StashNewThrows \/ SwapMembersThrows \/ SwapMoveThrows
    BY <1>1, <1>2, <1>5, SpoilKeepsSides, SpoilKeepsTheRest
       DEF CreateThrows, AssignThrows, StashNewThrows, SwapMembersThrows, SwapMoveThrows
  <1>6. CASE ConstructThrows
    <2>1. PICK m \in Spoil(RvalueSource) : storage' = [m EXCEPT ![call.dst] = Raw]
      BY <1>6 DEF ConstructThrows
    <2> QED
      BY <1>1, <1>2, <2>1, SpoilKeepsSides, SpoilKeepsTheRest DEF Raw, Unborn
  <1>7. CASE StashNew
    BY <1>3, <1>7, ReadKeepsVoid DEF StashNew
  <1>8. CASE StashOld \/ DestroyOld \/ EmplaceDestroy \/ (\E o \in Objects : Destruct(o))
    BY <1>1, <1>2, <1>3, <1>8
       DEF StashOld, DestroyOld, EmplaceDestroy, Destruct, AfterMove, Raw, Unborn, Memory
  <1>9. CASE SwapStash \/ SwapDestroy \/ SwapRelease
    BY <1>1, <1>2, <1>9
       DEF SwapStash, SwapDestroy, SwapRelease, AfterMove, Raw, Unborn, Memory
  <1>10. CASE ConstructFromTemp \/ EmplaceConstruct
    BY <1>10 DEF ConstructFromTemp, EmplaceConstruct, Arm, ReinitArm, IInv, EmplaceInv
  <1>11. CASE Restore
    <2>1. Arm = "guarded"
      BY <1>11 DEF Restore, IInv, ReinitInv, Arm, ReinitArm
    <2> QED
      BY <1>1, <1>2, <1>3, <1>11, <2>1 DEF Restore, Member
  <1>12. CASE SwapMembers
    <2>1. /\ call.op = "swap" /\ ~AtRest /\ pc # "emplaceNew" /\ SoundBut({})
          /\ set[call.dst] = set[call.src] /\ call.dst \in alive
      BY <1>12 DEF SwapMembers, IInv, SwapInv, CallInv, SoundInv, SwapSteps, SwapCrossSteps, AtRest
    <2>2. call.src \in alive /\ call.src \in Objects
      BY <2>1, SourceHoldsNewSide DEF HasSource
    <2>3. storage[call.dst].side = storage[call.src].side
      BY <1>1, <2>1, <2>2 DEF SoundBut, Sound, Held
    <2> QED
      BY <1>1, <1>2, <1>3, <1>12, <2>2, <2>3 DEF SwapMembers, Memory
  <1>13. CASE SwapMove \/ SwapRestore \/ SwapFinish
    <2>1. Pivot = "value" /\ Other(Pivot) = "error" /\ Stashed = {Hollow}
      BY DEF Pivot, Other, Stashed
    <2>2. pc \in CrossSteps
      BY <1>13 DEF SwapMove, SwapRestore, SwapFinish, CrossSteps, SwapSteps
    <2>3. Holder \in Objects /\ Peer \in Objects
      BY <1>1, <2>2, AtSwap
    <2>4. CASE SwapMove
      BY <1>1, <1>2, <2>1, <2>3, <2>4 DEF SwapMove, AfterMove, Member, Memory
    <2>5. CASE SwapRestore \/ SwapFinish
      BY <1>1, <1>2, <2>1, <2>3, <2>5 DEF SwapRestore, SwapFinish, Member
    <2> QED
      BY <1>13, <2>4, <2>5
  <1>14. CASE \/ Begin \/ Return \/ EmplaceKeeps \/ StashBytes \/ SetFlag \/ SwapFlags
              \/ UNCHANGED vars
    BY <1>2, <1>14
       DEF Begin, Return, EmplaceKeeps, StashBytes, SetFlag, SwapFlags, vars, objects
  <1> QED
    BY <1>4, <1>5, <1>6, <1>7, <1>8, <1>9, <1>10, <1>11, <1>12, <1>13, <1>14 DEF Next, Step, Reinit, Swap

(***************************************************************************)
(* One lemma for each kind of step.                                        *)
(***************************************************************************)
Kin == Untouched /\ ReinitKeeps /\ SwapKeeps /\ ExceptionGuarantee

\* A step after which no exception of the call can follow, or none follows yet.
LEMMA CalmStep ==
  ASSUME IInv, GInv,
         \/ Create \/ Assign \/ EmplaceDestroy \/ EmplaceConstruct \/ EmplaceKeeps \/ StashNew
         \/ ConstructFromTemp \/ ConstructFromArgs \/ SetFlag \/ SwapMembers \/ SwapMove
         \/ SwapRelease \/ SwapFinish \/ SwapFlags \/ Return \/ \E o \in Objects : Destruct(o)
  PROVE  Kin'
  <1>1. CASE StashNew
    <2>1. Inside /\ pc' = "destroy" /\ Arm = "viaTemp"
      BY <1>1 DEF StashNew, Inside, Goto
    <2> QED
      BY <2>1, InsideKeeps DEF Kin, Untouched, ReinitKeeps, SwapKeeps, ExceptionGuarantee
  <1>2. CASE \/ Create \/ Assign \/ EmplaceConstruct \/ EmplaceKeeps \/ SetFlag \/ SwapMembers
             \/ SwapFlags
    BY <1>2
       DEF Create, Assign, EmplaceConstruct, EmplaceKeeps, SetFlag, SwapMembers, SwapFlags, Leave,
           Kin, Untouched, ReinitKeeps, SwapKeeps, ExceptionGuarantee
  <1>3. CASE \/ EmplaceDestroy \/ ConstructFromTemp \/ ConstructFromArgs \/ SwapMove \/ SwapRelease
             \/ SwapFinish
    BY <1>3
       DEF EmplaceDestroy, ConstructFromTemp, ConstructFromArgs, SwapMove, SwapRelease, SwapFinish,
           Goto, Kin, Untouched, ReinitKeeps, SwapKeeps, ExceptionGuarantee
  <1>4. CASE Return \/ \E o \in Objects : Destruct(o)
    BY <1>4
       DEF Return, Destruct, Kin, Untouched, ReinitKeeps, SwapKeeps, ExceptionGuarantee
  <1> QED
    BY <1>1, <1>2, <1>3, <1>4

\* A constructor, an assignment or a swap of members that throws to the caller.
LEMMA ThrowingStep ==
  ASSUME IInv, GInv, CreateThrows \/ AssignThrows \/ StashNewThrows \/ SwapMembersThrows
  PROVE  Kin'
  <1>1. /\ Inside /\ ~AtRest /\ pc # "emplaceNew" /\ Kept({}) /\ pc' = "return"
        /\ storage \in [Objects -> Memory] /\ call \in CallType
    BY DEF CreateThrows, AssignThrows, StashNewThrows, SwapMembersThrows, Inside, AtRest, Leave, GInv,
           Untouched, IInv, Types
  <1>2. PICK S : storage' \in Spoil(S)
    BY DEF CreateThrows, AssignThrows, StashNewThrows, SwapMembersThrows
  <1>3. profile.strong => \A o \in Objects : After(o) = before[o]
    <2>1. profile.strong => storage' = storage
      BY <1>1, <1>2, SpoilKeepsTheRest
    <2> QED
      BY <1>1, <2>1 DEF Kept, ContentOf, After
  <1>4. call.op # "swap" /\ before[call.dst].side # NewSide => After(call.dst) = before[call.dst]
    <2>1. CASE AssignThrows \/ SwapMembersThrows
      <3>1. AssignThrows => call.dst \in Objects /\ call.dst \in alive /\ Held(call.dst) = NewSide
        BY <1>1 DEF AssignThrows, IInv, CallInv, ReinitInv, CallType
      <3>2. SwapMembersThrows => call.op = "swap"
        BY DEF SwapMembersThrows, IInv, SwapInv, SwapSteps
      <3>3. AssignThrows => before[call.dst].side = NewSide
        BY <1>1, <3>1 DEF IInv, CallInv
      <3> QED
        BY <2>1, <3>2, <3>3
    <2>2. CASE CreateThrows
      <3>1. call.dst \notin alive /\ call.dst \in Objects
        BY <1>1, <2>2 DEF CreateThrows, IInv, CallInv, CallType
      <3> QED
        BY <1>1, <3>1 DEF Kept, ContentOf, After
    <2>3. CASE StashNewThrows
      <3>1. pc \in ReinitSteps /\ storage' \in Spoil(RvalueSource)
        BY <2>3 DEF StashNewThrows, ReinitSteps
      <3>2. call.dst \in Objects /\ call.dst \notin RvalueSource
        BY <3>1, AtReinit DEF RvalueSource, HasSource
      <3>3. storage'[call.dst] = storage[call.dst]
        BY <1>1, <3>1, <3>2, SpoilKeepsTheRest
      <3> QED
        BY <1>1, <3>2, <3>3 DEF Kept, ContentOf, After
    <2> QED
      BY <2>1, <2>2, <2>3
  <1>5. ExceptionGuarantee'
    BY <1>1, <1>3, <1>4, ThrowsOut
  <1> QED
    BY <1>1, <1>5 DEF Kin, Untouched, ReinitKeeps, SwapKeeps

\* The beginning: everything is as it is, and the entry fits the arm.
LEMMA BeginEnters ==
  ASSUME IInv, Begin
  PROVE  /\ Kept({})'
         /\ pc' \notin {"idle", "return", "construct", "restore", "flag", "emplaceNew"}
                       \cup SwapCrossSteps
         /\ pc' = "swapDestroy" => profile'.void
         /\ pc' = "swapStash" => ~profile'.void
         /\ pc' = "destroy" => Arm' \in {"direct", "guarded"}
         /\ pc' = "keep" => profile'.void /\ set'[call'.dst] /\ call'.op = "emplace"
  <1>1. PICK c \in CallType : /\ MayCall(profile, c, c.dst \in alive, c.src \in alive)
                              /\ call' = c /\ pc' = Entry(c) /\ result' = result
    BY DEF Begin, Goto
  <1>2. UNCHANGED <<profile, alive, storage, set, temp>>
        /\ before' = [o \in Objects |-> ContentOf(o)]
    BY DEF Begin, objects
  <1>3. Kept({})'
    BY <1>2 DEF Kept, ContentOf, Held
  <1>4. /\ pc' \notin {"idle", "return", "construct", "restore", "flag", "emplaceNew"}
                      \cup SwapCrossSteps
        /\ (pc' = "swapDestroy" => profile.void) /\ (pc' = "swapStash" => ~profile.void)
        /\ pc' = "keep" => profile.void /\ set[c.dst] /\ c.op = "emplace"
    <2>1. CASE c.dst \notin alive
      BY <1>1, <2>1 DEF Entry, MayCall, SwapCrossSteps
    <2>2. CASE c.dst \in alive
      BY <1>1, <2>2 DEF Entry, ReinitEntry, SwapCrossSteps
    <2> QED
      BY <2>1, <2>2
  <1>5. pc' = "destroy" => Arm' \in {"direct", "guarded"}
    <2> SUFFICES ASSUME pc' = "destroy" PROVE Arm' \in {"direct", "guarded"}
      OBVIOUS
    <2>1. c.dst \in alive /\ c.op # "swap"
      BY <1>1 DEF Entry, MayCall
    <2>2. CASE c.op = "emplace"
      <3>1. profile.void
        BY <1>1, <2>1, <2>2 DEF Entry
      <3> QED
        BY <1>1, <1>2, <3>1 DEF Arm, ReinitArm
    <2>3. CASE c.op # "emplace"
      <3>1. HasSource(c) => c.src \in alive /\ c.src \in Objects
        BY <1>1 DEF MayCall, CallType
      <3>2. NewSide' = Target(c, Held(c.src))
        BY <1>1, <1>2, <3>1 DEF NewSide, Target, HasSource, ContentOf, Member
      <3>3. ReinitEntry(Target(c, Held(c.src)), c) = "destroy"
        BY <1>1, <2>1, <2>3 DEF Entry
      <3> QED
        BY <1>1, <1>2, <3>2, <3>3 DEF ReinitEntry, Arm, ReinitArm
    <2> QED
      BY <2>2, <2>3
  <1> QED
    BY <1>1, <1>2, <1>3, <1>4, <1>5

LEMMA BeginKeeps ==
  ASSUME IInv, GInv, Begin
  PROVE  Kin'
  BY BeginEnters DEF SwapCrossSteps, Kin, Untouched, ReinitKeeps, SwapKeeps, ExceptionGuarantee

(***************************************************************************)
(* _reinit.                                                                *)
(***************************************************************************)
\* The old member moves, or is copied, into the temporary.
LEMMA StashKeeps ==
  ASSUME IInv, GInv, StashBytes \/ StashOld
  PROVE  Kin'
  <1>1. /\ Inside /\ pc \in ReinitSteps /\ pc = "stash" /\ Kept({})
        /\ storage \in [Objects -> Memory]
        /\ temp' = {storage[call.dst].val}
    BY DEF StashBytes, StashOld, Inside, objects, ReinitSteps, GInv, Untouched, IInv, Types
  <1>2. call.dst \in Objects /\ call.dst \in alive
    BY <1>1, AtReinit
  <1>3. storage[call.dst].val = before[call.dst].val
    BY <1>1, <1>2, KeptPayload
  <1>4. \A o \in Objects \ {call.dst} : storage'[o] = storage[o]
    BY <1>1 DEF StashBytes, StashOld, objects, AfterMove
  <1>5. Kept({call.dst})'
    BY <1>1, <1>4 DEF Inside, Kept, ContentOf, Held
  <1>6. call' = call /\ before' = before /\ Arm' = Arm
    BY <1>1, InsideKeeps DEF Inside
  <1>7. \/ pc' = "construct" /\ Arm = "overwrite"
        \/ pc' = "destroy" /\ Arm = "backup"
    BY DEF StashBytes, StashOld, Goto
  <1> QED
    BY <1>1, <1>3, <1>5, <1>6, <1>7
       DEF Kin, Untouched, ReinitKeeps, SwapKeeps, ExceptionGuarantee, Rescued

LEMMA DestroyKeeps ==
  ASSUME IInv, GInv, DestroyOld
  PROVE  Kin'
  <1>1. /\ Inside /\ pc \in ReinitSteps /\ pc = "destroy" /\ pc' = "construct" /\ temp' = temp
        /\ storage \in [Objects -> Memory] /\ profile \in Profiles
    BY DEF DestroyOld, Goto, Inside, ReinitSteps, IInv, Types
  <1>2. /\ call.dst \in Objects /\ call.dst \in alive
        /\ NewSide \in Sides /\ OldSide \in Sides /\ NewSide # OldSide
        /\ storage[call.dst].side = OldSide
    BY <1>1, AtReinit
  <1>3. Kept({call.dst}) => Kept({call.dst})'
    BY <1>1 DEF DestroyOld, Inside, Kept, ContentOf, Held
  <1>4. CASE Arm = "guarded"
    <2>1. Kept({})
      BY <1>1, <1>4 DEF GInv, ReinitKeeps
    <2>2. profile.void /\ NewSide # "value"
      BY <1>4 DEF Arm, ReinitArm
    <2>3. storage[call.dst].val = Hollow
      BY <1>2, <2>2 DEF GInv, VoidInv, Sides
    <2>4. before[call.dst].val = Hollow
      BY <1>2, <2>1, <2>3, KeptPayload
    <2>5. Kept({call.dst})
      BY <2>1 DEF Kept
    <2> QED
      BY <1>1, <1>3, <1>4, <2>4, <2>5, InsideKeeps
         DEF Inside, Kin, Untouched, ReinitKeeps, SwapKeeps, ExceptionGuarantee, Rescued
  <1>5. CASE Arm = "backup"
    BY <1>1, <1>3, <1>5, InsideKeeps
       DEF Inside, GInv, Kin, Untouched, ReinitKeeps, SwapKeeps, ExceptionGuarantee, Rescued
  <1>6. CASE Arm \in {"direct", "viaTemp"}
    BY <1>1, <1>6, InsideKeeps
       DEF Kin, Untouched, ReinitKeeps, SwapKeeps, ExceptionGuarantee
  <1>7. Arm # "overwrite"
    BY <1>1 DEF IInv, ReinitInv
  <1> QED
    BY <1>4, <1>5, <1>6, <1>7 DEF Arm, ReinitArm

\* The direct arm never comes here (ConstructThrowsStep shows why).
LEMMA ConstructThrowsKeeps ==
  ASSUME IInv, GInv, ConstructThrows
  PROVE  Kin'
  <1>1. /\ Inside /\ pc \in ReinitSteps /\ pc = "construct" /\ pc' = "restore" /\ temp' = temp
        /\ storage \in [Objects -> Memory]
    BY DEF ConstructThrows, Goto, Inside, ReinitSteps, IInv, Types
  <1>2. Arm' = Arm /\ Arm \notin {"direct", "viaTemp"}
    BY <1>1, InsideKeeps, ConstructThrowsStep DEF IInv, ReinitInv
  <1>3. Kept({call.dst}) /\ Rescued = {before[call.dst].val}
    BY <1>1, <1>2 DEF GInv, ReinitKeeps
  <1>4. PICK m \in Spoil(RvalueSource) : storage' = [m EXCEPT ![call.dst] = Raw]
    BY DEF ConstructThrows
  <1>5. profile.strong => \A o \in Objects \ {call.dst} : storage'[o] = storage[o]
    BY <1>1, <1>4, SpoilKeepsTheRest
  <1>6. KeptIfStrong({call.dst})'
    BY <1>1, <1>3, <1>5 DEF Inside, KeptIfStrong, Kept, ContentOf, Held
  <1> QED
    BY <1>1, <1>2, <1>3, <1>6
       DEF Inside, Kin, Untouched, ReinitKeeps, SwapKeeps, ExceptionGuarantee, Rescued

LEMMA RestoreKeeps ==
  ASSUME IInv, GInv, Restore
  PROVE  Kin'
  <1>1. /\ Inside /\ pc \in ReinitSteps /\ pc = "restore" /\ pc' = "return"
        /\ storage \in [Objects -> Memory]
    BY DEF Restore, Leave, Inside, ReinitSteps, IInv, Types
  <1>2. ~AtRest /\ pc # "emplaceNew" /\ call.dst \in Objects /\ call.dst \in alive
    BY <1>1, AtReinit
  <1>3. KeptIfStrong({call.dst}) /\ Rescued = {before[call.dst].val}
    BY <1>1 DEF GInv, ReinitKeeps
  <1>4. storage' = [storage EXCEPT ![call.dst] = Member(OldSide, before[call.dst].val)]
    BY <1>3 DEF Restore, Rescued
  <1>5. After(call.dst) = before[call.dst]
    BY <1>1, <1>2, <1>4, Rebuilt DEF Member
  <1>6. profile.strong => \A o \in Objects : After(o) = before[o]
    <2>1. \A o \in Objects \ {call.dst} : After(o) = ContentOf(o)
      BY <1>1, <1>4 DEF After, ContentOf
    <2> QED
      BY <1>3, <1>5, <2>1 DEF KeptIfStrong, Kept
  <1>7. ExceptionGuarantee'
    BY <1>1, <1>2, <1>5, <1>6, ThrowsOut
  <1> QED
    BY <1>1, <1>7 DEF Kin, Untouched, ReinitKeeps, SwapKeeps

(***************************************************************************)
(* _swap_helper.                                                           *)
(***************************************************************************)
LEMMA SwapStashKeeps ==
  ASSUME IInv, GInv, SwapStash
  PROVE  Kin'
  <1>1. /\ Inside /\ pc \in CrossSteps /\ pc = "swapStash" /\ pc' = "swapDestroy" /\ Kept({})
        /\ storage \in [Objects -> Memory] /\ ~profile.void
    BY DEF SwapStash, Goto, Inside, CrossSteps, SwapSteps, GInv, Untouched, SwapKeeps, IInv, Types
  <1>2. Holder \in Objects /\ Holder \in alive
    BY <1>1, AtSwap
  <1>3. storage[Holder].val = before[Holder].val
    BY <1>1, <1>2, KeptPayload
  <1>4. Holder' = Holder /\ before' = before /\ profile' = profile
    BY <1>1, InsideKeeps DEF Inside
  <1>5. \A o \in Objects \ {Holder} : storage'[o] = storage[o]
    BY DEF SwapStash, AfterMove
  <1>6. Kept({Holder})'
    BY <1>1, <1>4, <1>5 DEF Kept, ContentOf, Held, Inside
  <1>7. temp' = {before[Holder].val}
    BY <1>3 DEF SwapStash
  <1> QED
    BY <1>1, <1>4, <1>6, <1>7 DEF Kin, Untouched, ReinitKeeps, SwapKeeps, ExceptionGuarantee

LEMMA SwapDestroyKeeps ==
  ASSUME IInv, GInv, SwapDestroy
  PROVE  Kin'
  <1>1. /\ Inside /\ pc \in CrossSteps /\ pc = "swapDestroy" /\ pc' = "swapMove" /\ temp' = temp
        /\ storage \in [Objects -> Memory]
    BY DEF SwapDestroy, Goto, Inside, CrossSteps, SwapSteps, IInv, Types
  <1>2. Holder \in Objects /\ Holder \in alive /\ storage[Holder].side = Pivot
    BY <1>1, AtSwap
  <1>3. Kept({Holder}) /\ Stashed = {before[Holder].val}
    <2>1. CASE profile.void
      <3>1. Pivot = "value" /\ Kept({})
        BY <1>1, <2>1 DEF Pivot, GInv, SwapKeeps
      <3>2. before[Holder].val = storage[Holder].val /\ storage[Holder].val = Hollow
        BY <1>2, <2>1, <3>1, KeptPayload DEF GInv, VoidInv
      <3> QED
        BY <2>1, <3>1, <3>2 DEF Kept, Stashed
    <2>2. CASE ~profile.void
      BY <1>1, <2>2 DEF GInv, SwapKeeps, Stashed
    <2> QED
      BY <2>1, <2>2
  <1>4. Holder' = Holder /\ before' = before /\ Stashed' = Stashed
    BY <1>1, InsideKeeps DEF Inside, Stashed
  <1>5. \A o \in Objects \ {Holder} : storage'[o] = storage[o]
    BY DEF SwapDestroy
  <1>6. Kept({Holder})'
    BY <1>1, <1>3, <1>4, <1>5 DEF Kept, ContentOf, Held, Inside
  <1> QED
    BY <1>1, <1>3, <1>4, <1>6 DEF Kin, Untouched, ReinitKeeps, SwapKeeps, ExceptionGuarantee

LEMMA SwapMoveThrowsKeeps ==
  ASSUME IInv, GInv, SwapMoveThrows
  PROVE  Kin'
  <1>1. /\ Inside /\ pc = "swapMove" /\ pc' = "swapRestore" /\ temp' = temp
        /\ storage \in [Objects -> Memory]
    BY DEF SwapMoveThrows, Goto, Inside, IInv, Types
  <1>2. Kept({Holder}) /\ Stashed = {before[Holder].val}
    BY <1>1 DEF GInv, SwapKeeps
  <1>3. Holder' = Holder /\ before' = before /\ Stashed' = Stashed /\ profile' = profile
    BY <1>1, InsideKeeps DEF Inside, Stashed
  <1>4. profile.strong => storage' = storage
    BY <1>1, SpoilKeepsTheRest DEF SwapMoveThrows
  <1>5. KeptIfStrong({Holder})'
    BY <1>1, <1>2, <1>3, <1>4 DEF KeptIfStrong, Kept, ContentOf, Held, Inside
  <1> QED
    BY <1>1, <1>2, <1>3, <1>5 DEF Kin, Untouched, ReinitKeeps, SwapKeeps, ExceptionGuarantee

LEMMA SwapRestoreKeeps ==
  ASSUME IInv, GInv, SwapRestore
  PROVE  Kin'
  <1>1. /\ Inside /\ pc \in CrossSteps /\ pc = "swapRestore" /\ pc' = "return"
        /\ storage \in [Objects -> Memory]
    BY DEF SwapRestore, Leave, Inside, CrossSteps, SwapSteps, IInv, Types
  <1>2. ~AtRest /\ pc # "emplaceNew" /\ Holder \in Objects /\ Holder \in alive /\ call.op = "swap"
    BY <1>1, AtSwap DEF IInv, SwapInv, SwapSteps
  <1>3. KeptIfStrong({Holder}) /\ Stashed = {before[Holder].val}
    BY <1>1 DEF GInv, SwapKeeps
  <1>4. storage' = [storage EXCEPT ![Holder] = Member(Pivot, before[Holder].val)]
    BY <1>3 DEF SwapRestore
  <1>5. After(Holder) = before[Holder]
    BY <1>1, <1>2, <1>4, Rebuilt DEF Member
  <1>6. profile.strong => \A o \in Objects : After(o) = before[o]
    <2>1. \A o \in Objects \ {Holder} : After(o) = ContentOf(o)
      BY <1>1, <1>4 DEF After, ContentOf
    <2> QED
      BY <1>3, <1>5, <2>1 DEF KeptIfStrong, Kept
  <1>7. ExceptionGuarantee'
    BY <1>1, <1>2, <1>6, ThrowsOut
  <1> QED
    BY <1>1, <1>7 DEF Kin, Untouched, ReinitKeeps, SwapKeeps

LEMMA GuaranteeStutter == ASSUME GInv, UNCHANGED vars PROVE Kin'
  BY DEF vars, objects, GInv, Kin, Untouched, ReinitKeeps, SwapKeeps, ExceptionGuarantee, Kept,
         KeptIfStrong, ContentOf, Held, Rescued, Stashed, Arm, ReinitArm, NewSide, Holder, Pivot

LEMMA GuaranteeStep ==
  ASSUME IInv, GInv, [Next]_vars
  PROVE  GInv'
  <1>1. VoidInv'
    BY VoidStep DEF GInv
  <1>2. Kin'
    BY CalmStep, ThrowingStep, BeginKeeps, StashKeeps, DestroyKeeps, ConstructThrowsKeeps,
       RestoreKeeps, SwapStashKeeps, SwapDestroyKeeps, SwapMoveThrowsKeeps, SwapRestoreKeeps,
       GuaranteeStutter
       DEF Next, Step, Reinit, Swap
  <1> QED
    BY <1>1, <1>2 DEF GInv, Kin

\* A call that throws gives everything back that it promises to: the existence
\* and the side of every object, the payload of a target whose side was to
\* change, and all of it when T and E themselves are strong - through whichever
\* arm of _reinit, whichever branch of _swap_helper, and whichever handler.
THEOREM ExceptionsUndo == Spec => []ExceptionGuarantee
<1>1. GInv => ExceptionGuarantee
  BY DEF GInv
<1>2. IInv /\ GInv /\ [Next]_vars => GInv'
  BY GuaranteeStep
<1> QED
  BY <1>1, <1>2, GuaranteeInit, Invariant, PTL DEF Spec
(***************************************************************************)
(* The promise.  ExpectedSpec takes a call in one step, from before to its *)
(* outcome; EffectInv says, for each step of a call, how much of the       *)
(* outcome is in place: which objects are still as they were, whether the  *)
(* source has been read, and where the payload on its way is kept.         *)
(***************************************************************************)
\* The payload the call brings its target.
Given == IF HasSource(call) THEN before[call.src].val ELSE call.val

\* What the call makes of an object other than its target, once it has read its
\* source.
Moved(o) == IF call.op = "move" /\ o = call.src THEN HollowOut(before[o]) ELSE before[o]
MovedBut(S) == \A o \in Objects \ S : ContentOf(o) = Moved(o)

\* An exception came, and spoiled at most what is in R.
SpoiledIn(c, o, R) == ~profile.strong /\ o \in R /\ c = HollowOut(before[o])
KeptOrSpoiled(S, R) ==
    \A o \in Objects \ S : ContentOf(o) = before[o] \/ SpoiledIn(ContentOf(o), o, R)

ReinitEffect ==
    /\ pc = "destroy" \/ pc = "construct"
         => IF Arm = "viaTemp" THEN MovedBut({call.dst}) /\ temp = {Given} ELSE Kept({call.dst})
    /\ pc = "restore" => KeptOrSpoiled({call.dst}, RvalueSource)
    /\ pc = "flag" => MovedBut({call.dst}) /\ storage[call.dst].val = Given

EmplaceEffect ==
    /\ pc = "emplace" \/ pc = "keep" => Kept({})
    /\ pc = "keep" => profile.void /\ set[call.dst] /\ call.op = "emplace"
    /\ pc = "emplaceNew" => Kept({call.dst})

SwapEffect ==
    /\ pc = "swapRestore" => KeptOrSpoiled({Holder}, {Peer})
    /\ pc \in {"swapRelease", "swapFinish", "swapFlags"}
         => Kept({Holder, Peer}) /\ storage[Holder].val = before[Peer].val
    /\ pc \in {"swapRelease", "swapFinish"} => Stashed = {before[Holder].val}
    /\ pc = "swapFlags" => storage[Peer].val = before[Holder].val

EffectInv == ReinitEffect /\ EmplaceEffect /\ SwapEffect

\* The payload that arrives is the one the source had when the call began.
LEMMA SourceIsGiven ==
  ASSUME HasSource(call) => call.src \in alive /\ ContentOf(call.src) = before[call.src]
  PROVE  Incoming = Given
  BY DEF Incoming, Given, ContentOf, Member

\* A source that is read as an rvalue is left hollow, whatever is left is kept.
LEMMA ReadLeavesMoved ==
  ASSUME storage \in [Objects -> Memory], NEW o \in Objects, ContentOf(o) = before[o],
         call.op = "move" => call.src \in alive,
         storage'[o] = AfterRead[o]
  PROVE  After(o) = Moved(o)
  <1>1. CASE call.op = "move" /\ o = call.src
    BY <1>1 DEF AfterRead, AfterMove, After, Moved, ContentOf, HollowOut, Member, Memory
  <1>2. CASE ~(call.op = "move" /\ o = call.src)
    BY <1>2 DEF AfterRead, AfterMove, After, Moved, ContentOf
  <1> QED
    BY <1>1, <1>2

\* A user's operation that throws leaves an object alone, or hollow.
LEMMA SpoilLeavesHollow ==
  ASSUME storage \in [Objects -> Memory], NEW S, NEW m \in Spoil(S), NEW o \in Objects,
         ContentOf(o) = before[o], storage'[o] = m[o]
  PROVE  After(o) = before[o] \/ SpoiledIn(After(o), o, S)
  <1>1. m[o] = storage[o] \/ (~profile.strong /\ o \in S /\ m[o] = HollowOut(storage[o]))
    BY DEF Spoil
  <1>2. CASE o \in alive
    BY <1>1, <1>2 DEF After, ContentOf, SpoiledIn, HollowOut, Member, Memory
  <1>3. CASE o \notin alive
    BY <1>3 DEF After, ContentOf
  <1> QED
    BY <1>2, <1>3

LEMMA InsideEffect ==
  ASSUME Inside
  PROVE  Given' = Given /\ RvalueSource' = RvalueSource /\ \A o \in Objects : Moved(o)' = Moved(o)
  BY DEF Inside, Given, RvalueSource, Moved

LEMMA EffectInit == Init => EffectInv
  BY DEF Init, EffectInv, ReinitEffect, EmplaceEffect, SwapEffect

LEMMA BeginEffect == ASSUME IInv, Begin PROVE EffectInv'
  BY BeginEnters DEF EffectInv, ReinitEffect, EmplaceEffect, SwapEffect, SwapCrossSteps, Kept

\* A call that is over, or not begun, has nothing on its way.
LEMMA RestEffect ==
  ASSUME pc' \in {"idle", "return"}
  PROVE  EffectInv'
  BY DEF EffectInv, ReinitEffect, EmplaceEffect, SwapEffect

\* What a step of _reinit finds: the source, when there is one, is not the target.
LEMMA ReinitSource ==
  ASSUME IInv, pc \in ReinitSteps
  PROVE  HasSource(call) => call.src \in Objects /\ call.src \in alive /\ call.src # call.dst
  BY AtReinit, SourceHoldsNewSide

LEMMA StashNewEffect == ASSUME IInv, GInv, StashNew PROVE EffectInv'
  <1>1. /\ Inside /\ pc \in ReinitSteps /\ pc' = "destroy" /\ Arm = "viaTemp" /\ Kept({})
        /\ storage \in [Objects -> Memory] /\ storage' = AfterRead /\ temp' = {Incoming}
    BY DEF StashNew, Goto, Inside, ReinitSteps, GInv, Untouched, IInv, Types
  <1>2. HasSource(call) => call.src \in Objects /\ call.src \in alive
    BY <1>1, ReinitSource
  <1>3. Incoming = Given
    BY <1>1, <1>2, SourceIsGiven DEF Kept
  <1>4. \A o \in Objects : After(o) = Moved(o)
    BY <1>1, <1>2, ReadLeavesMoved DEF Kept, HasSource
  <1>5. MovedBut({call.dst})' /\ temp' = {Given'} /\ Arm' = Arm
    BY <1>1, <1>3, <1>4, InsideKeeps, InsideEffect DEF MovedBut
  <1> QED
    BY <1>1, <1>5 DEF EffectInv, ReinitEffect, EmplaceEffect, SwapEffect

LEMMA StashOldEffect == ASSUME IInv, GInv, StashBytes \/ StashOld PROVE EffectInv'
  <1>1. /\ Inside /\ pc' \in {"destroy", "construct"} /\ Arm # "viaTemp" /\ Kept({})
        /\ storage \in [Objects -> Memory]
    BY DEF StashBytes, StashOld, Goto, Inside, objects, GInv, Untouched, IInv, Types
  <1>2. \A o \in Objects \ {call.dst} : storage'[o] = storage[o]
    BY <1>1 DEF StashBytes, StashOld, objects, AfterMove
  <1>3. Kept({call.dst})'
    BY <1>1, <1>2 DEF Inside, Kept, ContentOf, Held
  <1> QED
    BY <1>1, <1>3, InsideKeeps DEF EffectInv, ReinitEffect, EmplaceEffect, SwapEffect

LEMMA DestroyOldEffect == ASSUME IInv, EffectInv, DestroyOld PROVE EffectInv'
  <1>1. /\ Inside /\ pc = "destroy" /\ pc' = "construct" /\ temp' = temp
        /\ storage \in [Objects -> Memory]
        /\ \A o \in Objects \ {call.dst} : storage'[o] = storage[o]
    BY DEF DestroyOld, Goto, Inside, IInv, Types
  <1>2. Arm' = Arm /\ Given' = Given /\ call' = call
    BY <1>1, InsideKeeps, InsideEffect DEF Inside
  <1>3. CASE Arm = "viaTemp"
    <2>1. MovedBut({call.dst}) /\ temp = {Given}
      BY <1>1, <1>3 DEF EffectInv, ReinitEffect
    <2>2. MovedBut({call.dst})'
      BY <1>1, <2>1, InsideEffect DEF Inside, MovedBut, ContentOf, Held
    <2> QED
      BY <1>1, <1>2, <1>3, <2>1, <2>2 DEF EffectInv, ReinitEffect, EmplaceEffect, SwapEffect
  <1>4. CASE Arm # "viaTemp"
    <2>1. Kept({call.dst})
      BY <1>1, <1>4 DEF EffectInv, ReinitEffect
    <2>2. Kept({call.dst})'
      BY <1>1, <2>1 DEF Inside, Kept, ContentOf, Held
    <2> QED
      BY <1>1, <1>2, <1>4, <2>2 DEF EffectInv, ReinitEffect, EmplaceEffect, SwapEffect
  <1> QED
    BY <1>3, <1>4

LEMMA ConstructEffect ==
  ASSUME IInv, EffectInv, ConstructFromTemp \/ ConstructFromArgs
  PROVE  EffectInv'
  <1>1. /\ Inside /\ pc \in ReinitSteps /\ pc = "construct" /\ pc' = "flag"
        /\ storage \in [Objects -> Memory]
    BY DEF ConstructFromTemp, ConstructFromArgs, Goto, Inside, ReinitSteps, IInv, Types
  <1>2. /\ call.dst \in Objects /\ call' = call /\ Given' = Given
        /\ HasSource(call) => call.src \in Objects /\ call.src \in alive /\ call.src # call.dst
    BY <1>1, AtReinit, ReinitSource, InsideEffect DEF Inside
  <1>3. CASE ConstructFromTemp
    <2>1. MovedBut({call.dst}) /\ temp = {Given}
      BY <1>1, <1>3 DEF ConstructFromTemp, EffectInv, ReinitEffect
    <2>2. storage' = [storage EXCEPT ![call.dst] = Member(NewSide, Given)]
      BY <1>3, <2>1 DEF ConstructFromTemp
    <2>3. MovedBut({call.dst})'
      BY <1>1, <2>1, <2>2, InsideEffect DEF Inside, MovedBut, ContentOf, Held
    <2>4. storage'[call.dst].val = Given
      BY <1>1, <1>2, <2>2 DEF Member
    <2> QED
      BY <1>1, <1>2, <2>3, <2>4 DEF EffectInv, ReinitEffect, EmplaceEffect, SwapEffect
  <1>4. CASE ConstructFromArgs
    <2>1. Kept({call.dst})
      BY <1>1, <1>4 DEF ConstructFromArgs, EffectInv, ReinitEffect
    <2>2. storage' = [AfterRead EXCEPT ![call.dst] = Member(NewSide, Incoming)]
          /\ DOMAIN AfterRead = Objects
      BY <1>1, <1>4 DEF ConstructFromArgs, AfterRead, AfterMove
    <2>3. Incoming = Given
      BY <1>2, <2>1, SourceIsGiven DEF Kept
    <2>4. \A o \in Objects \ {call.dst} : After(o) = Moved(o)
      BY <1>1, <1>2, <2>1, <2>2, ReadLeavesMoved DEF Kept, HasSource
    <2>5. MovedBut({call.dst})'
      BY <1>1, <2>4, InsideKeeps, InsideEffect DEF Inside, MovedBut
    <2>6. storage'[call.dst].val = Given
      BY <1>2, <2>2, <2>3 DEF Member
    <2> QED
      BY <1>1, <1>2, <2>5, <2>6 DEF EffectInv, ReinitEffect, EmplaceEffect, SwapEffect
  <1> QED
    BY <1>3, <1>4

LEMMA ConstructThrowsEffect == ASSUME IInv, EffectInv, ConstructThrows PROVE EffectInv'
  <1>1. /\ Inside /\ pc = "construct" /\ pc' = "restore" /\ Kept({call.dst})
        /\ storage \in [Objects -> Memory]
    BY DEF ConstructThrows, Goto, Inside, IInv, Types, EffectInv, ReinitEffect
  <1>2. PICK m \in Spoil(RvalueSource) : storage' = [m EXCEPT ![call.dst] = Raw]
    BY DEF ConstructThrows
  <1>3. m \in [Objects -> Memory]
    BY <1>1, SpoilKeepsSides
  <1>4. \A o \in Objects \ {call.dst} : After(o) = before[o] \/ SpoiledIn(After(o), o, RvalueSource)
    BY <1>1, <1>2, <1>3, SpoilLeavesHollow DEF Kept
  <1>5. KeptOrSpoiled({call.dst}, RvalueSource)'
    BY <1>1, <1>4, InsideKeeps, InsideEffect DEF Inside, KeptOrSpoiled, SpoiledIn
  <1> QED
    BY <1>1, <1>5 DEF EffectInv, ReinitEffect, EmplaceEffect, SwapEffect

LEMMA EmplaceDestroyEffect == ASSUME IInv, EffectInv, EmplaceDestroy PROVE EffectInv'
  <1>1. /\ pc' = "emplaceNew" /\ Kept({}) /\ UNCHANGED <<alive, call, before>>
        /\ \A o \in Objects \ {call.dst} : storage'[o] = storage[o] /\ set'[o] = set[o]
    BY DEF EmplaceDestroy, Goto, IInv, Types, EffectInv, EmplaceEffect
  <1>2. Kept({call.dst})'
    BY <1>1 DEF Kept, ContentOf, Held
  <1> QED
    BY <1>1, <1>2 DEF EffectInv, ReinitEffect, EmplaceEffect, SwapEffect

(***************************************************************************)
(* The steps of _swap_helper.                                              *)
(***************************************************************************)
LEMMA SwapMoveEffect == ASSUME IInv, GInv, SwapMove PROVE EffectInv'
  <1>1. /\ Inside /\ pc \in CrossSteps /\ pc' = "swapRelease" /\ temp' = temp
        /\ Kept({Holder}) /\ Stashed = {before[Holder].val}
        /\ storage \in [Objects -> Memory]
    BY DEF SwapMove, Goto, Inside, CrossSteps, SwapSteps, GInv, SwapKeeps, IInv, Types
  <1>2. Holder \in Objects /\ Peer \in Objects /\ Peer \in alive /\ Holder # Peer
    BY <1>1, AtSwap
  <1>3. storage[Peer].val = before[Peer].val
    <2>1. before[Peer] = Member(Held(Peer), storage[Peer].val)
      BY <1>1, <1>2 DEF Kept, ContentOf
    <2> QED
      BY <2>1 DEF Member
  <1>4. /\ storage'[Holder].val = before[Peer].val
        /\ \A o \in Objects \ {Holder, Peer} : storage'[o] = storage[o]
    BY <1>1, <1>2, <1>3 DEF SwapMove, AfterMove, Member
  <1>5. Holder' = Holder /\ Peer' = Peer /\ before' = before /\ Stashed' = Stashed
    BY <1>1, InsideKeeps DEF Inside, Stashed
  <1>6. Kept({Holder, Peer})'
    BY <1>1, <1>4, <1>5 DEF Inside, Kept, ContentOf, Held
  <1> QED
    BY <1>1, <1>4, <1>5, <1>6 DEF EffectInv, ReinitEffect, EmplaceEffect, SwapEffect

LEMMA SwapMoveThrowsEffect == ASSUME IInv, GInv, SwapMoveThrows PROVE EffectInv'
  <1>1. /\ Inside /\ pc' = "swapRestore" /\ Kept({Holder})
        /\ storage \in [Objects -> Memory] /\ storage' \in Spoil({Peer})
    BY DEF SwapMoveThrows, Goto, Inside, GInv, SwapKeeps, IInv, Types
  <1>2. \A o \in Objects \ {Holder} : After(o) = before[o] \/ SpoiledIn(After(o), o, {Peer})
    BY <1>1, SpoilLeavesHollow DEF Kept
  <1>3. KeptOrSpoiled({Holder}, {Peer})'
    BY <1>1, <1>2, InsideKeeps DEF Inside, KeptOrSpoiled, SpoiledIn
  <1> QED
    BY <1>1, <1>3 DEF EffectInv, ReinitEffect, EmplaceEffect, SwapEffect

LEMMA SwapReleaseEffect == ASSUME IInv, EffectInv, SwapRelease PROVE EffectInv'
  <1>1. /\ Inside /\ pc \in CrossSteps /\ pc' = "swapFinish" /\ temp' = temp
        /\ Kept({Holder, Peer}) /\ storage[Holder].val = before[Peer].val
        /\ Stashed = {before[Holder].val} /\ storage \in [Objects -> Memory]
    BY DEF SwapRelease, Goto, Inside, CrossSteps, SwapSteps, EffectInv, SwapEffect, IInv, Types
  <1>2. Holder \in Objects /\ Peer \in Objects /\ Holder # Peer
    BY <1>1, AtSwap
  <1>3. \A o \in Objects \ {Peer} : storage'[o] = storage[o]
    BY <1>1 DEF SwapRelease
  <1>4. Holder' = Holder /\ Peer' = Peer /\ before' = before /\ Stashed' = Stashed
    BY <1>1, InsideKeeps DEF Inside, Stashed
  <1>5. Kept({Holder, Peer})'
    BY <1>1, <1>3, <1>4 DEF Inside, Kept, ContentOf, Held
  <1> QED
    BY <1>1, <1>2, <1>3, <1>4, <1>5 DEF EffectInv, ReinitEffect, EmplaceEffect, SwapEffect

LEMMA SwapFinishEffect == ASSUME IInv, EffectInv, SwapFinish PROVE EffectInv'
  <1>1. /\ Inside /\ pc \in CrossSteps /\ pc' = "swapFlags"
        /\ Kept({Holder, Peer}) /\ storage[Holder].val = before[Peer].val
        /\ Stashed = {before[Holder].val} /\ storage \in [Objects -> Memory]
    BY DEF SwapFinish, Goto, Inside, CrossSteps, SwapSteps, EffectInv, SwapEffect, IInv, Types
  <1>2. Holder \in Objects /\ Peer \in Objects /\ Holder # Peer
    BY <1>1, AtSwap
  <1>3. storage' = [storage EXCEPT ![Peer] = Member(Pivot, before[Holder].val)]
    BY <1>1 DEF SwapFinish
  <1>4. Holder' = Holder /\ Peer' = Peer /\ before' = before
    BY <1>1, InsideKeeps DEF Inside
  <1>5. Kept({Holder, Peer})'
    BY <1>1, <1>3, <1>4 DEF Inside, Kept, ContentOf, Held
  <1>6. storage'[Holder].val = before[Peer].val /\ storage'[Peer].val = before[Holder].val
    BY <1>1, <1>2, <1>3 DEF Member
  <1> QED
    BY <1>1, <1>4, <1>5, <1>6 DEF EffectInv, ReinitEffect, EmplaceEffect, SwapEffect

LEMMA EffectStutter == ASSUME EffectInv, UNCHANGED vars PROVE EffectInv'
  BY DEF vars, objects, EffectInv, ReinitEffect, EmplaceEffect, SwapEffect, Kept, KeptOrSpoiled,
         SpoiledIn, MovedBut, Moved, Given, RvalueSource, ContentOf, Held, Stashed, Arm, ReinitArm,
         NewSide, Holder, Peer, Pivot

LEMMA EffectStep ==
  ASSUME IInv, GInv, EffectInv, [Next]_vars
  PROVE  EffectInv'
  <1>1. CASE \/ Create \/ CreateThrows \/ Assign \/ AssignThrows \/ EmplaceConstruct \/ EmplaceKeeps
             \/ StashNewThrows \/ Restore \/ SetFlag \/ SwapMembers \/ SwapMembersThrows
             \/ SwapRestore \/ SwapFlags \/ Return \/ \E o \in Objects : Destruct(o)
    BY <1>1, RestEffect
       DEF Create, CreateThrows, Assign, AssignThrows, EmplaceConstruct, EmplaceKeeps, StashNewThrows,
           Restore, SetFlag, SwapMembers, SwapMembersThrows, SwapRestore, SwapFlags, Return, Destruct,
           Leave
  <1>2. CASE SwapStash \/ SwapDestroy
    BY <1>2 DEF SwapStash, SwapDestroy, Goto, EffectInv, ReinitEffect, EmplaceEffect, SwapEffect
  <1> QED
    BY <1>1, <1>2, BeginEffect, StashNewEffect, StashOldEffect, DestroyOldEffect, ConstructEffect,
       ConstructThrowsEffect, EmplaceDestroyEffect, SwapMoveEffect, SwapMoveThrowsEffect,
       SwapReleaseEffect, SwapFinishEffect, EffectStutter
       DEF Next, Step, Reinit, Swap

(***************************************************************************)
(* The refinement: how each step of the storage machine looks to the user. *)
(***************************************************************************)
\* Both levels speak of the same calls.
LEMMA SameCalls ==
  /\ Promise!CallType = CallType /\ Promise!Unborn = Unborn
  /\ \A p, c, d, s : Promise!MayCall(p, c, d, s) <=> MayCall(p, c, d, s)
  /\ \A c, d : Promise!Noexcept(c, d) <=> Noexcept(c, d)
  /\ \A c, s : Promise!Target(c, s) = Target(c, s)
  /\ \A c : Promise!HollowOut(c) = HollowOut(c)
  BY DEF Promise!CallType, CallType, Promise!Ops, Ops, Promise!Payloads, Payloads, Promise!Sides, Sides,
         Promise!Unborn, Unborn, Promise!MayCall, MayCall, Promise!CallOf, CallOf, Promise!Requires,
         Requires, Promise!HasSource, HasSource, Promise!Noexcept, Noexcept, Promise!Concerned,
         Concerned, Promise!Target, Target, Promise!HollowOut, HollowOut

\* What a call that returns makes of each object.
Outcome(o) ==
    IF call.op = "swap"
    THEN IF o = call.dst THEN before[call.src] ELSE IF o = call.src THEN before[call.dst] ELSE before[o]
    ELSE IF o = call.dst THEN Member(NewSide, Given) ELSE Moved(o)

LEMMA OutcomeIsEffect ==
  ASSUME IInv, ~AtRest
  PROVE  Promise!Effect(call) = [o \in Objects |-> Outcome(o)]
  <1>1. /\ call \in CallType /\ before \in [Objects -> Memory]
        /\ MayCall(profile, call, pc # "create", call.src \in alive)
    BY DEF IInv, Types, CallInv, AtRest
  <1>2. call.dst \in Objects /\ call.src \in Objects /\ (call.op = "move" => call.dst # call.src)
    BY <1>1 DEF CallType, MayCall, CallOf
  <1>3. CASE call.op \in {"copy", "move"}
    <2>1. Member(NewSide, Given) = before[call.src]
      BY <1>1, <1>2, <1>3 DEF NewSide, Given, Target, HasSource, Member, Memory
    <2> QED
      BY <1>1, <1>2, <1>3, <2>1, SameCalls DEF Promise!Effect, Outcome, Moved
  <1>4. CASE call.op = "swap"
    BY <1>1, <1>2, <1>4 DEF Promise!Effect, Outcome
  <1>5. CASE call.op \in {"value", "unexpected", "emplace"}
    <2>1. Member(NewSide, Given) = [side |-> Target(call, "value"), val |-> call.val]
      BY <1>5 DEF NewSide, Given, Target, HasSource, Member
    <2> QED
      BY <1>1, <1>2, <1>5, <2>1, SameCalls DEF Promise!Effect, Outcome, Moved
  <1> QED
    BY <1>1, <1>3, <1>4, <1>5 DEF CallType, Ops

\* Returning in order, with every object at its outcome.
Returns == pc' = "return" /\ result' = "ok" /\ UNCHANGED <<profile, call>>

LEMMA Finishes ==
  ASSUME IInv, ~AtRest, Returns, \A o \in Objects : ContentOf(o)' = Outcome(o)
  PROVE  Promise!Finish
  <1>1. [o \in Objects |-> ContentOf(o)]' = Promise!Effect(call)
    BY OutcomeIsEffect
  <1> QED
    BY <1>1 DEF Promise!Finish, Returns, AtRest

\* Whether the target existed when the call began.
LEMMA TargetExisted ==
  ASSUME IInv, GInv, ~AtRest, pc # "emplaceNew"
  PROVE  Promise!Alive(call.dst) <=> call.dst \in alive
  <1>1. /\ call.dst \in Objects
        /\ before[call.dst].side = IF call.dst \in alive THEN Held(call.dst) ELSE "none"
    BY DEF IInv, Types, CallInv, CallType, AtRest
  <1>2. CASE call.dst \in alive
    BY <1>1, <1>2, SameCalls DEF Promise!Alive, Held, SideOf, Unborn
  <1>3. CASE call.dst \notin alive
    <2>1. Kept({})
      BY <1>3 DEF IInv, CallInv, GInv, Untouched
    <2> QED
      BY <1>1, <1>3, <2>1, SameCalls DEF Kept, ContentOf, Promise!Alive
  <1> QED
    BY <1>2, <1>3

\* Throwing, with no more than what is in R spoiled.
Throws == pc' = "return" /\ result' = "threw" /\ Inside

LEMMA FailsAs ==
  ASSUME IInv, GInv, ~AtRest, pc # "emplaceNew", Throws,
         ~Noexcept(call, call.dst \in alive), NEW R,
         ~profile.strong => R \subseteq Promise!Spoilable(call),
         \A o \in Objects : After(o) = before[o] \/ SpoiledIn(After(o), o, R)
  PROVE  Promise!Fail
  <1> DEFINE spoiled == {o \in Objects : After(o) # before[o]}
             outcome == [o \in Objects |-> IF o \in spoiled THEN HollowOut(before[o]) ELSE before[o]]
  <1>1. spoiled \in SUBSET Promise!Spoilable(call)
    BY DEF SpoiledIn
  <1>2. \A o \in Objects : ContentOf(o)' = After(o)
    BY InsideKeeps DEF Throws
  <1>3. [o \in Objects |-> ContentOf(o)]' = outcome
    BY <1>2 DEF SpoiledIn
  <1>4. ~Promise!Noexcept(call, Promise!Alive(call.dst))
    <2>1. ~Noexcept(call, Promise!Alive(call.dst))
      BY TargetExisted DEF Noexcept
    <2> QED
      BY <2>1, SameCalls, Zenon
  <1>5. /\ (IF AtRest THEN pc ELSE "busy") = "busy" /\ AtRest'
        /\ (IF AtRest THEN [o \in Objects |-> ContentOf(o)] ELSE before) = before
    BY DEF AtRest, Throws
  <1> QED
    BY <1>1, <1>3, <1>4, <1>5, SameCalls DEF Promise!Fail, Throws, Inside

\* What a throwing operation may spoil.
LEMMA MaySpoil ==
  ASSUME IInv, ~AtRest, ~profile.strong
  PROVE  /\ call.op = "swap" => {call.dst, call.src} \subseteq Promise!Spoilable(call)
         /\ call.op # "swap" => RvalueSource \subseteq Promise!Spoilable(call)
         /\ call.op \notin {"swap", "emplace"} /\ before[call.dst].side = NewSide
               => {call.dst} \cup RvalueSource \subseteq Promise!Spoilable(call)
  <1>1. Promise!Target(call, before[call.src].side) = NewSide
    BY SameCalls DEF NewSide, Target, HasSource
  <1> QED
    BY <1>1 DEF Promise!Spoilable, RvalueSource

\* Inside a call nothing is to be seen.
LEMMA InsideIsHidden ==
  ASSUME ~AtRest, ~AtRest', UNCHANGED <<profile, call, before, result>>
  PROVE  UNCHANGED Promise!vars
  BY DEF Promise!vars

LEMMA BeginRefines == ASSUME IInv, Begin PROVE Promise!Begin
  <1>1. PICK c \in CallType : MayCall(profile, c, c.dst \in alive, c.src \in alive) /\ call' = c
    BY DEF Begin
  <1>2. /\ AtRest /\ pc = "idle" /\ ~AtRest' /\ UNCHANGED <<profile, result>>
        /\ before' = [o \in Objects |-> ContentOf(o)]
    BY BeginEnters DEF Begin, AtRest, Goto
  <1>3. c.dst \in Objects /\ c.src \in Objects
    BY DEF CallType
  <1>4. \A o \in Objects : Promise!Alive(o) <=> o \in alive
    BY <1>2, SameCalls DEF Promise!Alive, ContentOf, Held, SideOf, Member, Unborn
  <1>5. Promise!MayCall(profile, c, Promise!Alive(c.dst), Promise!Alive(c.src))
    <2>1. MayCall(profile, c, Promise!Alive(c.dst), Promise!Alive(c.src))
      BY <1>1, <1>3, <1>4 DEF MayCall
    <2> QED
      BY <2>1, SameCalls, Zenon
  <1> QED
    BY <1>1, <1>2, <1>5, SameCalls DEF Promise!Begin

LEMMA CreateRefines == ASSUME IInv, GInv, Create PROVE Promise!Finish
  <1>1. /\ pc = "create" /\ ~AtRest /\ Returns /\ Kept({}) /\ storage \in [Objects -> Memory]
        /\ call \in CallType /\ call.dst \in Objects /\ call.dst \notin alive
        /\ call.op # "swap"
    BY DEF Create, Leave, Returns, AtRest, GInv, Untouched, IInv, Types, CallInv, CallType, MayCall
  <1>2. NewSide \in Sides /\ (HasSource(call) => call.src \in Objects /\ call.src \in alive)
    BY <1>1, NewSideIsASide, SourceHoldsNewSide
  <1>3. Incoming = Given
    BY <1>1, <1>2, SourceIsGiven DEF Kept
  <1>4. storage' = [AfterRead EXCEPT ![call.dst] = Member(NewSide, Given)] /\ DOMAIN AfterRead = Objects
    BY <1>1, <1>3 DEF Create, AfterRead, AfterMove
  <1>5. ASSUME NEW o \in Objects PROVE ContentOf(o)' = Outcome(o)
    <2>1. CASE o = call.dst
      BY <1>1, <1>2, <1>4, <2>1
         DEF Create, IInv, Types, Outcome, ContentOf, Held, SideOf, Member, Sides
    <2>2. CASE o # call.dst
      <3>1. After(o) = Moved(o)
        BY <1>1, <1>2, <1>4, <2>2, ReadLeavesMoved DEF Kept, HasSource
      <3> QED
        BY <1>1, <2>2, <3>1 DEF Create, Outcome, ContentOf, Held, After
    <2> QED
      BY <2>1, <2>2
  <1> QED
    BY <1>1, <1>5, Finishes

LEMMA AssignRefines == ASSUME IInv, GInv, Assign PROVE Promise!Finish
  <1>1. /\ pc = "assign" /\ ~AtRest /\ Returns /\ Kept({}) /\ storage \in [Objects -> Memory]
        /\ call \in CallType /\ call.dst \in Objects /\ call.dst \in alive
        /\ call.op # "swap" /\ Held(call.dst) = NewSide
    BY DEF Assign, Leave, Returns, AtRest, GInv, Untouched, IInv, Types, CallInv, ReinitInv, CallType
  <1>2. HasSource(call) => call.src \in Objects /\ call.src \in alive
    BY <1>1, SourceHoldsNewSide
  <1>3. Incoming = Given
    BY <1>1, <1>2, SourceIsGiven DEF Kept
  <1>4. storage' = [AfterRead EXCEPT ![call.dst].val = Given] /\ DOMAIN AfterRead = Objects
        /\ AfterRead[call.dst] \in Memory
    BY <1>1, <1>3, ReadKeepsSides DEF Assign
  <1>5. ASSUME NEW o \in Objects PROVE ContentOf(o)' = Outcome(o)
    <2>1. CASE o = call.dst
      BY <1>1, <1>4, <2>1 DEF Assign, Outcome, ContentOf, Held, Member, Memory
    <2>2. CASE o # call.dst
      <3>1. After(o) = Moved(o)
        BY <1>1, <1>2, <1>4, <2>2, ReadLeavesMoved DEF Kept, HasSource
      <3> QED
        BY <1>1, <2>2, <3>1 DEF Assign, Outcome, ContentOf, Held, After
    <2> QED
      BY <2>1, <2>2
  <1> QED
    BY <1>1, <1>5, Finishes

LEMMA SetFlagRefines == ASSUME IInv, EffectInv, SetFlag PROVE Promise!Finish
  <1>1. /\ pc \in ReinitSteps /\ pc = "flag" /\ Returns
        /\ MovedBut({call.dst}) /\ storage[call.dst].val = Given
        /\ set \in [Objects -> BOOLEAN]
    BY DEF SetFlag, Leave, Returns, ReinitSteps, EffectInv, ReinitEffect, IInv, Types
  <1>2. /\ ~AtRest /\ call.dst \in Objects /\ call.dst \in alive /\ NewSide \in Sides
        /\ call.op # "swap"
    BY <1>1, AtReinit DEF IInv, ReinitInv
  <1>3. ASSUME NEW o \in Objects PROVE ContentOf(o)' = Outcome(o)
    <2>1. CASE o = call.dst
      BY <1>1, <1>2, <2>1 DEF SetFlag, Outcome, ContentOf, Held, SideOf, Member, Sides
    <2>2. CASE o # call.dst
      BY <1>1, <1>2, <2>2 DEF SetFlag, Outcome, MovedBut, ContentOf, Held
    <2> QED
      BY <2>1, <2>2
  <1> QED
    BY <1>1, <1>2, <1>3, Finishes

LEMMA EmplaceRefines ==
  ASSUME IInv, GInv, EffectInv, EmplaceConstruct \/ EmplaceKeeps
  PROVE  Promise!Finish
  <1>1. /\ ~AtRest /\ Returns /\ storage \in [Objects -> Memory] /\ call \in CallType
        /\ call.dst \in Objects /\ call.dst \in alive /\ call.op = "emplace" /\ set[call.dst]
        /\ MayCall(profile, call, TRUE, call.src \in alive) /\ UNCHANGED <<alive, set>>
    BY DEF EmplaceConstruct, EmplaceKeeps, Leave, Returns, AtRest, IInv, Types, CallInv, CallType,
           EmplaceInv, EffectInv, EmplaceEffect, objects
  <1>2. NewSide = "value" /\ Given = call.val /\ \A o \in Objects : Moved(o) = before[o]
    BY <1>1 DEF NewSide, Given, Moved, Target, HasSource
  <1>3. CASE EmplaceConstruct
    <2>1. Kept({call.dst}) /\ storage' = [storage EXCEPT ![call.dst] = Member("value", call.val)]
      BY <1>3 DEF EmplaceConstruct, EffectInv, EmplaceEffect
    <2>2. ASSUME NEW o \in Objects PROVE ContentOf(o)' = Outcome(o)
      BY <1>1, <1>2, <2>1 DEF Outcome, Kept, ContentOf, Held, SideOf, Member
    <2> QED
      BY <1>1, <2>2, Finishes
  <1>4. CASE EmplaceKeeps
    <2>1. Kept({}) /\ profile.void /\ storage' = storage /\ SoundBut({})
      BY <1>4 DEF EmplaceKeeps, objects, EffectInv, EmplaceEffect, IInv, SoundInv, SwapCrossSteps
    <2>2. storage[call.dst].val = Hollow
      BY <1>1, <2>1 DEF GInv, VoidInv, SoundBut, Sound, Held, SideOf
    <2>3. call.val = Hollow
      BY <1>1, <2>1 DEF MayCall, CallOf
    <2>4. before[call.dst] = Member("value", call.val)
      BY <1>1, <2>1, <2>2, <2>3 DEF Kept, ContentOf, Held, SideOf
    <2>5. ASSUME NEW o \in Objects PROVE ContentOf(o)' = Outcome(o)
      <3>1. ContentOf(o)' = before[o]
        BY <1>1, <2>1 DEF Kept, ContentOf, Held
      <3> QED
        BY <1>1, <1>2, <2>4, <3>1 DEF Outcome
    <2> QED
      BY <1>1, <2>5, Finishes
  <1> QED
    BY <1>3, <1>4

LEMMA SwapMembersRefines == ASSUME IInv, GInv, SwapMembers PROVE Promise!Finish
  <1>1. /\ ~AtRest /\ Returns /\ Kept({}) /\ storage \in [Objects -> Memory]
        /\ call.dst \in Objects /\ call.dst \in alive /\ call.src \in Objects /\ call.src \in alive
        /\ call.op = "swap" /\ set[call.dst] = set[call.src] /\ UNCHANGED <<alive, set>>
    BY DEF SwapMembers, Leave, Returns, AtRest, GInv, Untouched, IInv, Types, CallInv, CallType,
           SwapInv, SwapSteps, MayCall, HasSource
  <1>2. \A o \in Objects : o \in alive => before[o] = Member(Held(o), storage[o].val)
    BY <1>1 DEF Kept, ContentOf
  <1>3. Held(call.dst) = Held(call.src)
    BY <1>1 DEF Held
  <1>4. /\ storage'[call.dst].val = storage[call.src].val
        /\ storage'[call.src].val = storage[call.dst].val
        /\ \A o \in Objects \ {call.dst, call.src} : storage'[o] = storage[o]
    BY <1>1 DEF SwapMembers, Memory
  <1>5. ASSUME NEW o \in Objects PROVE ContentOf(o)' = Outcome(o)
    <2>1. CASE o = call.dst
      BY <1>1, <1>2, <1>3, <1>4, <2>1 DEF Outcome, ContentOf, Held
    <2>2. CASE o = call.src /\ o # call.dst
      BY <1>1, <1>2, <1>3, <1>4, <2>2 DEF Outcome, ContentOf, Held
    <2>3. CASE o \notin {call.dst, call.src}
      BY <1>1, <1>4, <2>3 DEF Outcome, Kept, ContentOf, Held
    <2> QED
      BY <2>1, <2>2, <2>3
  <1> QED
    BY <1>1, <1>5, Finishes

LEMMA SwapFlagsRefines == ASSUME IInv, EffectInv, SwapFlags PROVE Promise!Finish
  <1>1. /\ pc \in CrossSteps /\ pc = "swapFlags" /\ Returns /\ UNCHANGED <<alive, storage>>
        /\ Kept({Holder, Peer}) /\ storage[Holder].val = before[Peer].val
        /\ storage[Peer].val = before[Holder].val
        /\ set \in [Objects -> BOOLEAN] /\ before \in [Objects -> Memory]
    BY DEF SwapFlags, Leave, Returns, CrossSteps, SwapSteps, EffectInv, SwapEffect, IInv, Types
  <1>2. /\ ~AtRest /\ Holder \in Objects /\ Holder \in alive /\ Peer \in Objects /\ Peer \in alive
        /\ Holder # Peer /\ {call.dst, call.src} = {Holder, Peer} /\ Pivot \in Sides
        /\ Held(Holder) = Pivot /\ Held(Peer) = Other(Pivot) /\ call.op = "swap"
    BY <1>1, AtSwap DEF IInv, SwapInv, SwapSteps
  <1>3. before[Holder].side = Pivot /\ before[Peer].side = Other(Pivot)
    BY <1>1, <1>2 DEF IInv, CallInv
  <1>4. \A o \in Objects : Outcome(o) = IF o = Holder THEN before[Peer]
                                        ELSE IF o = Peer THEN before[Holder] ELSE before[o]
    BY <1>2 DEF Outcome
  <1>5. ASSUME NEW o \in Objects PROVE ContentOf(o)' = Outcome(o)
    <2>1. CASE o = Holder
      <3>1. ContentOf(o)' = Member(Other(Pivot), before[Peer].val)
        BY <1>1, <1>2, <2>1 DEF SwapFlags, ContentOf, Held, SideOf, Other, Sides
      <3> QED
        BY <1>1, <1>2, <1>3, <1>4, <2>1, <3>1 DEF Member, Memory
    <2>2. CASE o = Peer
      <3>1. ContentOf(o)' = Member(Pivot, before[Holder].val)
        BY <1>1, <1>2, <2>2 DEF SwapFlags, ContentOf, Held, SideOf, Other, Sides
      <3> QED
        BY <1>1, <1>2, <1>3, <1>4, <2>2, <3>1 DEF Member, Memory
    <2>3. CASE o \notin {Holder, Peer}
      BY <1>1, <1>4, <2>3 DEF SwapFlags, Kept, ContentOf, Held
    <2> QED
      BY <2>1, <2>2, <2>3
  <1> QED
    BY <1>1, <1>2, <1>5, Finishes

\* A constructor, an assignment or a swap of members throws to the caller.
LEMMA ThrowingRefines ==
  ASSUME IInv, GInv, NoexceptInv', CreateThrows \/ AssignThrows \/ StashNewThrows \/ SwapMembersThrows
  PROVE  Promise!Fail
  <1>1. /\ ~AtRest /\ pc # "emplaceNew" /\ Throws /\ Kept({}) /\ storage \in [Objects -> Memory]
        /\ UNCHANGED <<call, alive>>
    BY DEF CreateThrows, AssignThrows, StashNewThrows, SwapMembersThrows, Leave, Throws, Inside, AtRest,
           GInv, Untouched, IInv, Types
  <1>2. ~Noexcept(call, call.dst \in alive)
    BY <1>1 DEF NoexceptInv, Throws
  <1>3. \A S : storage' \in Spoil(S)
          => \A o \in Objects : After(o) = before[o] \/ SpoiledIn(After(o), o, S)
    BY <1>1, SpoilLeavesHollow DEF Kept
  <1>4. CASE CreateThrows \/ StashNewThrows
    <2>1. storage' \in Spoil(RvalueSource) /\ call.op # "swap"
      BY <1>4 DEF CreateThrows, StashNewThrows, IInv, CallInv, ReinitInv, MayCall, ReinitSteps, AtRest
    <2> QED
      BY <1>1, <1>2, <1>3, <2>1, MaySpoil, FailsAs
  <1>5. CASE AssignThrows
    <2>1. storage' \in Spoil({call.dst} \cup RvalueSource) /\ call.op \notin {"swap", "emplace"}
          /\ before[call.dst].side = NewSide
      BY <1>1, <1>5 DEF AssignThrows, IInv, Types, CallType, CallInv, ReinitInv, AtRest
    <2> QED
      BY <1>1, <1>2, <1>3, <2>1, MaySpoil, FailsAs
  <1>6. CASE SwapMembersThrows
    <2>1. storage' \in Spoil({call.dst, call.src}) /\ call.op = "swap"
      BY <1>6 DEF SwapMembersThrows, IInv, SwapInv, SwapSteps
    <2> QED
      BY <1>1, <1>2, <1>3, <2>1, MaySpoil, FailsAs
  <1> QED
    BY <1>4, <1>5, <1>6

\* A handler has put the old member back and throws on.
LEMMA RestoreRefines == ASSUME IInv, GInv, EffectInv, NoexceptInv', Restore PROVE Promise!Fail
  <1>1. /\ pc \in ReinitSteps /\ pc = "restore" /\ Throws /\ storage \in [Objects -> Memory]
        /\ KeptOrSpoiled({call.dst}, RvalueSource) /\ Rescued = {before[call.dst].val}
        /\ UNCHANGED <<call, alive>>
    BY DEF Restore, Leave, Throws, Inside, ReinitSteps, GInv, ReinitKeeps, EffectInv, ReinitEffect,
           IInv, Types
  <1>2. ~AtRest /\ pc # "emplaceNew" /\ call.dst \in Objects /\ call.dst \in alive /\ call.op # "swap"
    BY <1>1, AtReinit DEF IInv, ReinitInv
  <1>3. storage' = [storage EXCEPT ![call.dst] = Member(OldSide, before[call.dst].val)]
    BY <1>1 DEF Restore, Rescued
  <1>4. After(call.dst) = before[call.dst]
    BY <1>1, <1>2, <1>3, Rebuilt DEF Member
  <1>5. \A o \in Objects \ {call.dst} : After(o) = ContentOf(o)
    BY <1>1, <1>3 DEF After, ContentOf
  <1>6. \A o \in Objects : After(o) = before[o] \/ SpoiledIn(After(o), o, RvalueSource)
    BY <1>1, <1>4, <1>5 DEF KeptOrSpoiled
  <1>7. ~Noexcept(call, call.dst \in alive)
    BY <1>1 DEF NoexceptInv, Throws
  <1> QED
    BY <1>1, <1>2, <1>6, <1>7, MaySpoil, FailsAs

LEMMA SwapRestoreRefines == ASSUME IInv, GInv, EffectInv, NoexceptInv', SwapRestore PROVE Promise!Fail
  <1>1. /\ pc \in CrossSteps /\ pc = "swapRestore" /\ Throws /\ storage \in [Objects -> Memory]
        /\ KeptOrSpoiled({Holder}, {Peer}) /\ Stashed = {before[Holder].val}
        /\ UNCHANGED <<call, alive>>
    BY DEF SwapRestore, Leave, Throws, Inside, CrossSteps, SwapSteps, GInv, SwapKeeps, EffectInv,
           SwapEffect, IInv, Types
  <1>2. /\ ~AtRest /\ pc # "emplaceNew" /\ Holder \in Objects /\ Holder \in alive /\ call.op = "swap"
        /\ {Peer} \subseteq {call.dst, call.src}
    BY <1>1, AtSwap DEF IInv, SwapInv, SwapSteps
  <1>3. storage' = [storage EXCEPT ![Holder] = Member(Pivot, before[Holder].val)]
    BY <1>1 DEF SwapRestore
  <1>4. After(Holder) = before[Holder]
    BY <1>1, <1>2, <1>3, Rebuilt DEF Member
  <1>5. \A o \in Objects \ {Holder} : After(o) = ContentOf(o)
    BY <1>1, <1>3 DEF After, ContentOf
  <1>6. \A o \in Objects : After(o) = before[o] \/ SpoiledIn(After(o), o, {Peer})
    BY <1>1, <1>4, <1>5 DEF KeptOrSpoiled
  <1>7. ~Noexcept(call, call.dst \in alive)
    BY <1>1 DEF NoexceptInv, Throws
  <1>8. ~profile.strong => {Peer} \subseteq Promise!Spoilable(call)
    BY <1>2, MaySpoil
  <1> QED
    BY <1>1, <1>2, <1>6, <1>7, <1>8, FailsAs

\* Between calls.
LEMMA RestRefines ==
  ASSUME IInv, Return \/ \E o \in Objects : Destruct(o)
  PROVE  Promise!Next
  <1>1. CASE Return
    <2>1. AtRest /\ AtRest' /\ \A o \in Objects : ContentOf(o)' = ContentOf(o)
      BY <1>1 DEF Return, AtRest, objects, ContentOf, Held
    <2> QED
      BY <1>1, <2>1 DEF Return, Promise!Next, Promise!Return, Promise!NoCall, NoCall
  <1>2. ASSUME NEW d \in Objects, Destruct(d) PROVE Promise!Destruct(d)
    <2>1. AtRest /\ AtRest' /\ d \in alive
      BY <1>2 DEF Destruct, AtRest
    <2>2. Promise!Alive(d)
      BY <2>1, SameCalls DEF Promise!Alive, ContentOf, Held, SideOf, Member, Unborn
    <2>3. ASSUME NEW o \in Objects PROVE ContentOf(o)' = IF o = d THEN Unborn ELSE ContentOf(o)
      BY <1>2 DEF Destruct, ContentOf, Held
    <2> QED
      BY <1>2, <2>1, <2>2, <2>3, SameCalls DEF Destruct, Promise!Destruct
  <1> QED
    BY <1>1, <1>2 DEF Promise!Next

LEMMA InitRefines == Init => Promise!Init
  BY SameCalls DEF Init, Promise!Init, Promise!NoCall, NoCall, AtRest, ContentOf

LEMMA NextRefines ==
  ASSUME IInv, GInv, EffectInv, NoexceptInv', [Next]_vars
  PROVE  [Promise!Next]_(Promise!vars)
  <1>1. CASE \/ Create \/ Assign \/ SetFlag \/ EmplaceConstruct \/ EmplaceKeeps \/ SwapMembers
             \/ SwapFlags
    BY <1>1, CreateRefines, AssignRefines, SetFlagRefines, EmplaceRefines, SwapMembersRefines,
       SwapFlagsRefines
       DEF Promise!Next
  <1>2. CASE \/ CreateThrows \/ AssignThrows \/ StashNewThrows \/ SwapMembersThrows \/ Restore
             \/ SwapRestore
    BY <1>2, ThrowingRefines, RestoreRefines, SwapRestoreRefines DEF Promise!Next
  <1>3. CASE \/ StashNew \/ StashBytes \/ StashOld \/ DestroyOld \/ ConstructFromTemp
             \/ ConstructFromArgs \/ ConstructThrows \/ EmplaceDestroy \/ SwapStash \/ SwapDestroy
             \/ SwapMove \/ SwapMoveThrows \/ SwapRelease \/ SwapFinish
    <2>1. ~AtRest /\ ~AtRest' /\ UNCHANGED <<profile, call, before, result>>
      BY <1>3
         DEF StashNew, StashBytes, StashOld, DestroyOld, ConstructFromTemp, ConstructFromArgs,
             ConstructThrows, EmplaceDestroy, SwapStash, SwapDestroy, SwapMove, SwapMoveThrows,
             SwapRelease, SwapFinish, Goto, AtRest
    <2> QED
      BY <2>1, InsideIsHidden
  <1>4. CASE Begin
    BY <1>4, BeginRefines DEF Promise!Next
  <1>5. CASE Return \/ \E o \in Objects : Destruct(o)
    BY <1>5, RestRefines
  <1>6. CASE UNCHANGED vars
    BY <1>6 DEF vars, objects, Promise!vars, AtRest, ContentOf, Held
  <1> QED
    BY <1>1, <1>2, <1>3, <1>4, <1>5, <1>6 DEF Next, Step, Reinit, Swap

\* Every run of the storage machine is, step for step, a run of the abstract
\* expected: a call that returns has had its whole effect, one that throws none
\* but what T's and E's own operations spoiled, and nothing is seen of the steps
\* between - for any objects, payloads and types.
THEOREM StorageImplementsExpected == Spec => ImplementsExpected
<1>1. IInv /\ GInv /\ [Next]_vars => GInv'
  BY GuaranteeStep
<1>2. IInv /\ GInv /\ EffectInv /\ [Next]_vars => EffectInv'
  BY EffectStep
<1>3. IInv /\ NoexceptInv /\ [Next]_vars => NoexceptInv'
  BY NoexceptStep
<1>4. IInv /\ GInv /\ EffectInv /\ NoexceptInv' /\ [Next]_vars => [Promise!Next]_(Promise!vars)
  BY NextRefines
<1> QED
  BY <1>1, <1>2, <1>3, <1>4, GuaranteeInit, EffectInit, NoexceptInit, InitRefines, Invariant, PTL
     DEF Spec, ImplementsExpected, Promise!Spec
=============================================================================
