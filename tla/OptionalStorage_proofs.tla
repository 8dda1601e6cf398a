----------------------- MODULE OptionalStorage_proofs -----------------------
(***************************************************************************)
(* Proofs about OptionalStorage, for any objects, references, payloads and *)
(* types.                                                                  *)
(*                                                                         *)
(* FlagTells speaks of the moments between calls.  The invariant below     *)
(* adds where the pass of _reinit in progress has left the object it works *)
(* on, that emplace and swap have the second object (or pass) of theirs in *)
(* the state its first step expects, and that the donor of the value still *)
(* holds one when it is read.                                              *)
(*                                                                         *)
(* The second half shows that the machine implements OptionalSpec: with    *)
(* EffectInv, which ties the objects to what they were when the call       *)
(* began, each step that ends a call is the abstract call, done or thrown, *)
(* and every other step is unseen.                                         *)
(***************************************************************************)
EXTENDS OptionalStorage, TLAPS

\* The flag of o tells which member is live.
Sound(o) == storage[o].side = IF o \in alive THEN SideOf(set[o]) ELSE "none"
SoundBut(S) == \A o \in Objects \ S : Sound(o)

GainSteps == {"clear", "construct", "restore", "setFlag"}
LoseSteps == {"destroy", "placeholder", "clearFlag"}

\* A flag outlives no object.
Types == TypeOK /\ \A o \in Objects : set[o] => o \in alive

\* The source of the call in progress is of the sort its operation reads, and
\* dst is there unless it is being made.
CallInv == ~AtRest =>
    /\ call.op \in {"copy", "move", "swap"} => call.src \in alive
    /\ call.op = "fromRef" => call.src \in Refs
    /\ call.op = "move" => call.dst # call.src
    /\ (call.dst \in alive) <=> (pc # "create")
    /\ pc = "create" => call.op \notin {"swap", "emplace"}

\* The value the call is going to read is there.
DonorInv == Borrows /\ ( \/ pc \in {"clear", "construct"}
                         \/ pc \in {"create", "assign"} /\ Gives(call) )
              => Donor \in alive /\ set[Donor]

\* The gaining object is still flagged as empty, the losing one as engaged.
PassInv ==
    /\ pc \in GainSteps => Gainer \in alive /\ ~set[Gainer]
    /\ pc \in LoseSteps => Loser \in alive /\ set[Loser]
    /\ pc \in GainSteps /\ call.op = "swap" => Loser \in alive /\ set[Loser]
    /\ pc \in {"assign", "swapValues"} => set[call.dst]
    /\ pc = "assign" => call.op # "swap" /\ Gives(call)
    /\ pc = "swapValues" => call.op = "swap" /\ set[call.src]
    /\ pc \in {"construct", "restore"} => storage[Gainer].side = "none"
    /\ pc = "setFlag" => storage[Gainer].side = "value"
    /\ pc = "placeholder" => storage[Loser].side = "none"
    /\ pc = "clearFlag" => storage[Loser].side = "empty"

\* Every object a pass is not in the middle of changing is sound.
SoundInv == IF pc \in {"construct", "restore", "setFlag"} THEN SoundBut({Gainer})
            ELSE IF pc \in {"placeholder", "clearFlag"} THEN SoundBut({Loser})
            ELSE SoundBut({})

IInv == Types /\ CallInv /\ DonorInv /\ PassInv /\ SoundInv /\ ~fault

LEMMA InitIInv == Init => IInv
<1> SUFFICES ASSUME Init PROVE IInv
  OBVIOUS
<1> QED
  BY DEF Init, IInv, Types, TypeOK, CallInv, DonorInv, PassInv, SoundInv, SoundBut, Sound, AtRest,
         Raw, Unborn, Memory, Labels, Payloads, GainSteps, LoseSteps, NoCall

(***************************************************************************)
(* What the steps have in common.                                          *)
(***************************************************************************)
\* A throwing operation of T may spoil payloads, but moves no side.
LEMMA SpoilKeepsSides ==
  ASSUME storage \in [Objects -> Memory], NEW S, NEW m \in Spoil(S)
  PROVE  m \in [Objects -> Memory] /\ \A o \in Objects : m[o].side = storage[o].side
  BY DEF Spoil, HollowOut, Memory, Payloads

\* Nor does reading the value out of the donor.
LEMMA ReadKeepsSides ==
  ASSUME storage \in [Objects -> Memory]
  PROVE  AfterRead \in [Objects -> Memory] /\ \A o \in Objects : AfterRead[o].side = storage[o].side
  BY DEF AfterRead, Memory, Payloads

\* The objects a call works on exist as objects of the model.
LEMMA Participants ==
  ASSUME IInv, ~AtRest
  PROVE  /\ call \in CallType /\ call.dst \in Objects
         /\ Gainer \in Objects /\ Loser \in Objects
  <1>1. call \in CallType /\ call.dst \in Objects
    BY DEF IInv, Types, TypeOK, AtRest, CallType
  <1>2. call.op = "swap" => call.src \in Objects
    BY DEF IInv, Types, TypeOK, CallInv
  <1> QED
    BY <1>1, <1>2 DEF Gainer, Loser

\* A payload is at hand where one is read or brought.
LEMMA IncomingIsAPayload ==
  ASSUME IInv, ~AtRest, Borrows => Donor \in alive
  PROVE  Incoming \in Payloads
  <1>1. call \in CallType
    BY Participants
  <1>2. CASE Borrows
    BY <1>2 DEF Incoming, IInv, Types, TypeOK, Memory
  <1>3. CASE ~Borrows
    BY <1>1, <1>3 DEF Incoming, CallType
  <1> QED
    BY <1>2, <1>3

\* A step that ends the call has only to leave every object sound.
LEMMA AtReturn ==
  ASSUME pc' = "return", Types', SoundBut({})', ~fault'
  PROVE  IInv'
  BY DEF IInv, CallInv, DonorInv, PassInv, SoundInv, AtRest, GainSteps, LoseSteps

\* A step inside a call leaves what it works on alone.
Inside == UNCHANGED <<profile, alive, refs, call, before>>

LEMMA CallGoesOn ==
  ASSUME IInv, Inside, ~AtRest, pc # "create", pc' # "create"
  PROVE  CallInv' /\ Gainer' = Gainer /\ Loser' = Loser /\ Donor' = Donor /\ Borrows' = Borrows
  BY DEF IInv, Inside, CallInv, AtRest, Gainer, Loser, Donor, Borrows

(***************************************************************************)
(* Construction, assignment within one state, and calls with no work.      *)
(***************************************************************************)
LEMMA CreateStep == ASSUME IInv, Create \/ CreateThrows PROVE IInv'
  <1>1. ~AtRest /\ pc = "create" /\ call.dst \notin alive /\ SoundBut({})
    BY DEF Create, CreateThrows, AtRest, IInv, CallInv, SoundInv
  <1>2. call \in CallType /\ call.dst \in Objects
    BY <1>1, Participants
  <1>3. Borrows /\ Gives(call) => Donor \in alive /\ Donor \in Objects /\ storage[Donor].side = "value"
    BY <1>1 DEF IInv, DonorInv, SoundBut, Sound, SideOf, Types, TypeOK
  <1>4. Gives(call) => Incoming \in Payloads
    BY <1>1, <1>3, IncomingIsAPayload
  <1>5. CASE Create
    <2>1. Gives(call) \in BOOLEAN
      BY <1>1, <1>2 DEF Gives, HasValue, IInv, Types, TypeOK, CallInv, CallType, Ops, Reading
    <2>2. storage' \in [Objects -> Memory]
      BY <1>2, <1>4, <1>5, ReadKeepsSides DEF Create, IInv, Types, TypeOK, Full, Empty, Memory, Payloads
    <2>3. Types' /\ ~fault'
      BY <1>1, <1>2, <1>3, <1>5, <2>1, <2>2
         DEF Create, IInv, Types, TypeOK, Leave, Watch, BadRead, Labels
    <2>4. SoundBut({})'
      BY <1>1, <1>2, <1>5, <2>1, ReadKeepsSides
         DEF Create, IInv, Types, TypeOK, SoundBut, Sound, SideOf, Full, Empty
    <2> QED
      BY <1>5, <2>3, <2>4, AtReturn DEF Create, Leave
  <1>6. CASE CreateThrows
    <2>1. Types' /\ ~fault'
      BY <1>1, <1>2, <1>6, SpoilKeepsSides DEF CreateThrows, IInv, Types, TypeOK, Leave, Labels
    <2>2. SoundBut({})'
      BY <1>1, <1>6, SpoilKeepsSides DEF CreateThrows, IInv, Types, TypeOK, SoundBut, Sound
    <2> QED
      BY <1>6, <2>1, <2>2, AtReturn DEF CreateThrows, Leave
  <1> QED
    BY <1>5, <1>6

LEMMA AssignStep == ASSUME IInv, Assign \/ AssignThrows PROVE IInv'
  <1>1. /\ ~AtRest /\ pc = "assign" /\ call.dst \in alive /\ set[call.dst] /\ Gives(call) /\ SoundBut({})
    BY DEF Assign, AssignThrows, AtRest, IInv, CallInv, PassInv, SoundInv
  <1>2. call \in CallType /\ call.dst \in Objects
    BY <1>1, Participants
  <1>3. storage[call.dst].side = "value" /\ (Borrows => Donor \in alive /\ storage[Donor].side = "value")
    BY <1>1, <1>2 DEF IInv, DonorInv, SoundBut, Sound, SideOf, Types, TypeOK
  <1>4. Incoming \in Payloads
    BY <1>1, <1>3, IncomingIsAPayload
  <1>5. CASE Assign
    <2>1. Types' /\ ~fault'
      BY <1>1, <1>2, <1>3, <1>4, <1>5, ReadKeepsSides
         DEF Assign, IInv, Types, TypeOK, Leave, Watch, BadRead, Memory, Labels
    <2>2. SoundBut({})'
      BY <1>1, <1>2, <1>5, ReadKeepsSides DEF Assign, IInv, Types, TypeOK, SoundBut, Sound, Memory
    <2> QED
      BY <1>5, <2>1, <2>2, AtReturn DEF Assign, Leave
  <1>6. CASE AssignThrows
    <2>1. Types' /\ ~fault'
      BY <1>1, <1>2, <1>6, SpoilKeepsSides DEF AssignThrows, IInv, Types, TypeOK, Leave, Labels
    <2>2. SoundBut({})'
      BY <1>1, <1>6, SpoilKeepsSides DEF AssignThrows, IInv, Types, TypeOK, SoundBut, Sound
    <2> QED
      BY <1>6, <2>1, <2>2, AtReturn DEF AssignThrows, Leave
  <1> QED
    BY <1>5, <1>6

LEMMA SwapValuesStep == ASSUME IInv, SwapValues \/ SwapValuesThrows PROVE IInv'
  <1>1. /\ ~AtRest /\ pc = "swapValues" /\ SoundBut({})
        /\ call.dst \in alive /\ set[call.dst] /\ call.src \in alive /\ set[call.src]
    BY DEF SwapValues, SwapValuesThrows, AtRest, IInv, CallInv, PassInv, SoundInv
  <1>2. /\ call \in CallType /\ call.dst \in Objects /\ call.src \in Objects
        /\ storage[call.dst].side = "value" /\ storage[call.src].side = "value"
    BY <1>1, Participants DEF IInv, Types, TypeOK, SoundBut, Sound, SideOf
  <1>3. CASE SwapValues
    <2>1. Types' /\ ~fault'
      BY <1>1, <1>2, <1>3 DEF SwapValues, IInv, Types, TypeOK, Leave, Watch, BadRead, Memory, Labels
    <2>2. SoundBut({})'
      BY <1>1, <1>2, <1>3 DEF SwapValues, IInv, Types, TypeOK, SoundBut, Sound, Memory
    <2> QED
      BY <1>3, <2>1, <2>2, AtReturn DEF SwapValues, Leave
  <1>4. CASE SwapValuesThrows
    <2>1. Types' /\ ~fault'
      BY <1>1, <1>2, <1>4, SpoilKeepsSides DEF SwapValuesThrows, IInv, Types, TypeOK, Leave, Labels
    <2>2. SoundBut({})'
      BY <1>1, <1>4, SpoilKeepsSides DEF SwapValuesThrows, IInv, Types, TypeOK, SoundBut, Sound
    <2> QED
      BY <1>4, <2>1, <2>2, AtReturn DEF SwapValuesThrows, Leave
  <1> QED
    BY <1>3, <1>4

LEMMA KeepStep == ASSUME IInv, Keep PROVE IInv'
  <1>1. Types' /\ ~fault' /\ SoundBut({})'
    BY DEF Keep, IInv, Types, TypeOK, Leave, Labels, SoundInv, SoundBut, Sound
  <1> QED
    BY <1>1, AtReturn DEF Keep, Leave

(***************************************************************************)
(* Gaining a value.                                                        *)
(***************************************************************************)
\* What holds at each of these steps.
LEMMA AtGain ==
  ASSUME IInv, pc \in GainSteps
  PROVE  /\ ~AtRest /\ pc # "create" /\ pc \notin LoseSteps
         /\ Gainer \in Objects /\ Gainer \in alive /\ ~set[Gainer] /\ SoundBut({Gainer})
         /\ call.op = "swap" => Loser \in alive /\ set[Loser] /\ Loser # Gainer
         /\ Borrows /\ pc \in {"clear", "construct"} =>
               Donor \in alive /\ set[Donor] /\ Donor \in Objects /\ Donor # Gainer /\ storage[Donor].side = "value"
  <1>1. ~AtRest /\ pc # "create" /\ pc \notin LoseSteps
    BY DEF AtRest, GainSteps, LoseSteps
  <1>2. Gainer \in Objects /\ Gainer \in alive /\ ~set[Gainer]
    BY <1>1, Participants DEF IInv, PassInv
  <1>3. SoundBut({Gainer})
    BY <1>1 DEF IInv, SoundInv, SoundBut, LoseSteps
  <1>4. call.op = "swap" => Loser \in alive /\ set[Loser] /\ Loser # Gainer
    BY <1>2 DEF IInv, PassInv
  <1>5. Borrows /\ pc \in {"clear", "construct"} =>
           Donor \in alive /\ set[Donor] /\ Donor \in Objects /\ Donor # Gainer /\ storage[Donor].side = "value"
    BY <1>2, <1>3 DEF IInv, DonorInv, SoundBut, Sound, SideOf, Types, TypeOK
  <1> QED
    BY <1>1, <1>2, <1>3, <1>4, <1>5

\* A step that stays on the way to the flag: what is left to show.
LEMMA GainGoesOn ==
  ASSUME IInv, pc \in GainSteps, Inside, set' = set, pc' \in {"construct", "restore", "setFlag"},
         pc' = "construct" => pc = "clear",
         Types', ~fault', SoundBut({Gainer})',
         pc' \in {"construct", "restore"} => storage'[Gainer].side = "none",
         pc' = "setFlag" => storage'[Gainer].side = "value"
  PROVE  IInv'
  <1>1. /\ CallInv' /\ Gainer' = Gainer /\ Loser' = Loser /\ Donor' = Donor /\ Borrows' = Borrows
        /\ call' = call /\ alive' = alive
    BY AtGain, CallGoesOn DEF Inside
  <1>2. DonorInv'
    BY <1>1, AtGain DEF DonorInv
  <1>3. PassInv'
    BY <1>1, AtGain DEF PassInv, GainSteps, LoseSteps
  <1>4. SoundInv'
    BY <1>1 DEF SoundInv
  <1> QED
    BY <1>1, <1>2, <1>3, <1>4 DEF IInv

LEMMA ClearStep == ASSUME IInv, ClearPlaceholder PROVE IInv'
  <1>1. pc \in GainSteps /\ pc = "clear" /\ pc' = "construct" /\ Inside /\ set' = set
    BY DEF ClearPlaceholder, Goto, Inside, GainSteps
  <1>2. storage[Gainer].side = "empty"
    BY <1>1, AtGain DEF IInv, SoundInv, SoundBut, Sound, SideOf
  <1>3. Types' /\ ~fault'
    BY <1>1, <1>2, AtGain
       DEF ClearPlaceholder, IInv, Types, TypeOK, Goto, Watch, BadDestroy, Raw, Unborn, Memory, Payloads, Labels
  <1>4. SoundBut({Gainer})' /\ storage'[Gainer].side = "none" /\ Gainer' = Gainer
    BY <1>1, AtGain, CallGoesOn DEF ClearPlaceholder, IInv, Types, TypeOK, SoundBut, Sound, Raw, Unborn
  <1> QED
    BY <1>1, <1>3, <1>4, GainGoesOn

LEMMA ConstructStep == ASSUME IInv, Construct PROVE IInv'
  <1>1. pc \in GainSteps /\ pc = "construct" /\ pc' = "setFlag" /\ Inside /\ set' = set
    BY DEF Construct, Goto, Inside, GainSteps
  <1>2. storage[Gainer].side = "none"
    BY <1>1 DEF IInv, PassInv
  <1>3. Incoming \in Payloads
    BY <1>1, AtGain, IncomingIsAPayload
  <1>4. Types' /\ ~fault'
    BY <1>1, <1>2, <1>3, AtGain, ReadKeepsSides
       DEF Construct, IInv, Types, TypeOK, Goto, Watch, BadConstruct, BadRead, Full, Memory, Labels
  <1>5. SoundBut({Gainer})' /\ storage'[Gainer].side = "value" /\ Gainer' = Gainer
    BY <1>1, AtGain, CallGoesOn, ReadKeepsSides DEF Construct, IInv, Types, TypeOK, SoundBut, Sound, Full
  <1> QED
    BY <1>1, <1>4, <1>5, GainGoesOn

LEMMA ConstructThrowsStep == ASSUME IInv, ConstructThrows PROVE IInv'
  <1>1. pc \in GainSteps /\ pc = "construct" /\ pc' = "restore" /\ Inside /\ set' = set
    BY DEF ConstructThrows, Goto, Inside, GainSteps
  <1>2. Types' /\ ~fault'
    BY <1>1, SpoilKeepsSides DEF ConstructThrows, IInv, Types, TypeOK, Goto, Labels
  <1>3. SoundBut({Gainer})' /\ storage'[Gainer].side = "none" /\ Gainer' = Gainer
    BY <1>1, AtGain, CallGoesOn, SpoilKeepsSides
       DEF ConstructThrows, IInv, Types, TypeOK, PassInv, SoundBut, Sound
  <1> QED
    BY <1>1, <1>2, <1>3, GainGoesOn

LEMMA RestoreStep == ASSUME IInv, Restore PROVE IInv'
  <1>1. pc \in GainSteps /\ pc = "restore"
    BY DEF Restore, GainSteps
  <1>2. Types' /\ ~fault'
    BY <1>1, AtGain
       DEF Restore, IInv, Types, TypeOK, PassInv, Leave, Watch, BadConstruct, Empty, Memory, Payloads, Labels
  <1>3. SoundBut({})'
    BY <1>1, AtGain DEF Restore, IInv, Types, TypeOK, SoundBut, Sound, SideOf, Empty
  <1> QED
    BY <1>2, <1>3, AtReturn DEF Restore, Leave

LEMMA SetFlagStep == ASSUME IInv, SetFlag PROVE IInv'
  <1>1. pc \in GainSteps /\ pc = "setFlag" /\ storage[Gainer].side = "value"
    BY DEF SetFlag, GainSteps, IInv, PassInv
  <1>2. Types' /\ ~fault'
    BY <1>1, AtGain DEF SetFlag, IInv, Types, TypeOK, Goto, Leave, Labels
  <1>3. SoundBut({})'
    BY <1>1, AtGain DEF SetFlag, IInv, Types, TypeOK, SoundBut, Sound, SideOf
  <1>4. CASE call.op # "swap"
    BY <1>2, <1>3, <1>4, AtReturn DEF SetFlag, Leave
  <1>5. CASE call.op = "swap"
    <2>1. pc' = "destroy" /\ Inside
      BY <1>5 DEF SetFlag, Goto, Inside
    <2>2. CallInv' /\ Loser' = Loser /\ alive' = alive /\ call' = call
      BY <1>1, <2>1, AtGain, CallGoesOn DEF Inside
    <2>3. set'[Loser]
      BY <1>1, <1>5, AtGain DEF SetFlag, IInv, Types, TypeOK
    <2>4. PassInv'
      BY <1>1, <1>5, <2>1, <2>2, <2>3, AtGain DEF PassInv, GainSteps, LoseSteps
    <2> QED
      BY <1>2, <1>3, <2>1, <2>2, <2>4 DEF IInv, DonorInv, SoundInv
  <1> QED
    BY <1>4, <1>5

(***************************************************************************)
(* Losing it.                                                              *)
(***************************************************************************)
LEMMA AtLose ==
  ASSUME IInv, pc \in LoseSteps
  PROVE  /\ ~AtRest /\ pc # "create" /\ pc \notin GainSteps
         /\ Loser \in Objects /\ Loser \in alive /\ set[Loser] /\ SoundBut({Loser})
  <1>1. ~AtRest /\ pc # "create" /\ pc \notin GainSteps
    BY DEF AtRest, GainSteps, LoseSteps
  <1>2. Loser \in Objects /\ Loser \in alive /\ set[Loser]
    BY <1>1, Participants DEF IInv, PassInv
  <1>3. SoundBut({Loser})
    BY <1>1 DEF IInv, SoundInv, SoundBut, GainSteps
  <1> QED
    BY <1>1, <1>2, <1>3

LEMMA LoseGoesOn ==
  ASSUME IInv, pc \in LoseSteps, Inside, set' = set, pc' \in {"placeholder", "clearFlag"},
         Types', ~fault', SoundBut({Loser})',
         pc' = "placeholder" => storage'[Loser].side = "none",
         pc' = "clearFlag" => storage'[Loser].side = "empty"
  PROVE  IInv'
  <1>1. CallInv' /\ Loser' = Loser /\ call' = call /\ alive' = alive
    BY AtLose, CallGoesOn DEF Inside
  <1>2. PassInv'
    BY <1>1, AtLose DEF PassInv, GainSteps, LoseSteps
  <1>3. SoundInv' /\ DonorInv'
    BY <1>1 DEF SoundInv, DonorInv
  <1> QED
    BY <1>1, <1>2, <1>3 DEF IInv

LEMMA DestroyStep == ASSUME IInv, DestroyValue PROVE IInv'
  <1>1. pc \in LoseSteps /\ pc = "destroy" /\ pc' = "placeholder" /\ Inside /\ set' = set
    BY DEF DestroyValue, Goto, Inside, LoseSteps
  <1>2. storage[Loser].side = "value"
    BY <1>1, AtLose DEF IInv, SoundInv, SoundBut, Sound, SideOf
  <1>3. Types' /\ ~fault'
    BY <1>1, <1>2, AtLose
       DEF DestroyValue, IInv, Types, TypeOK, Goto, Watch, BadDestroy, Raw, Unborn, Memory, Payloads, Labels
  <1>4. SoundBut({Loser})' /\ storage'[Loser].side = "none" /\ Loser' = Loser
    BY <1>1, AtLose, CallGoesOn DEF DestroyValue, IInv, Types, TypeOK, SoundBut, Sound, Raw, Unborn
  <1> QED
    BY <1>1, <1>3, <1>4, LoseGoesOn

LEMMA PlaceholderStep == ASSUME IInv, ConstructPlaceholder PROVE IInv'
  <1>1. pc \in LoseSteps /\ pc = "placeholder" /\ pc' = "clearFlag" /\ Inside /\ set' = set
    BY DEF ConstructPlaceholder, Goto, Inside, LoseSteps
  <1>2. Types' /\ ~fault'
    BY <1>1, AtLose
       DEF ConstructPlaceholder, IInv, Types, TypeOK, PassInv, Goto, Watch, BadConstruct, Empty, Memory,
           Payloads, Labels
  <1>3. SoundBut({Loser})' /\ storage'[Loser].side = "empty" /\ Loser' = Loser
    BY <1>1, AtLose, CallGoesOn DEF ConstructPlaceholder, IInv, Types, TypeOK, SoundBut, Sound, Empty
  <1> QED
    BY <1>1, <1>2, <1>3, LoseGoesOn

LEMMA ClearFlagStep == ASSUME IInv, ClearFlag PROVE IInv'
  <1>1. pc \in LoseSteps /\ pc = "clearFlag" /\ storage[Loser].side = "empty"
    BY DEF ClearFlag, LoseSteps, IInv, PassInv
  <1>2. Types' /\ ~fault'
    BY <1>1, AtLose DEF ClearFlag, IInv, Types, TypeOK, Goto, Leave, Labels
  <1>3. SoundBut({})'
    BY <1>1, AtLose DEF ClearFlag, IInv, Types, TypeOK, SoundBut, Sound, SideOf
  <1>4. CASE call.op # "emplace"
    BY <1>2, <1>3, <1>4, AtReturn DEF ClearFlag, Leave
  <1>5. CASE call.op = "emplace"
    <2>1. pc' = "clear" /\ Inside
      BY <1>5 DEF ClearFlag, Goto, Inside
    <2>2. CallInv' /\ Gainer' = Gainer /\ Borrows' = Borrows /\ alive' = alive /\ call' = call
      BY <1>1, <2>1, AtLose, CallGoesOn DEF Inside
    <2>3. Gainer = Loser /\ ~Borrows
      BY <1>5 DEF Gainer, Loser, Borrows, Reading
    <2>4. ~set'[Gainer]
      BY <1>1, <2>3, AtLose DEF ClearFlag, IInv, Types, TypeOK
    <2>5. PassInv' /\ DonorInv'
      BY <1>1, <1>5, <2>1, <2>2, <2>3, <2>4, AtLose DEF PassInv, DonorInv, GainSteps, LoseSteps
    <2> QED
      BY <1>2, <1>3, <2>1, <2>2, <2>5 DEF IInv, SoundInv
  <1> QED
    BY <1>4, <1>5

(***************************************************************************)
(* Between calls.                                                          *)
(***************************************************************************)
LEMMA BeginStep == ASSUME IInv, Begin PROVE IInv'
  <1>1. PICK c \in CallType : /\ MayCall(profile, c, c.dst \in alive, Readable(c.src))
                              /\ call' = c /\ pc' = Entry(c)
    BY DEF Begin, Goto
  <1>2. /\ SoundBut({}) /\ UNCHANGED <<profile, alive, storage, set, refs, fault, result>>
        /\ \A o \in Objects : before'[o] = ContentOf(o)
    BY DEF Begin, Goto, IInv, SoundInv
  <1>3. /\ c.dst \in Objects /\ c.op \in Ops /\ c.src \in Objects \cup Refs
        /\ \A o \in Objects : set[o] => o \in alive
    BY <1>1 DEF CallType, IInv, Types
  \* The argument of a call that reads one.
  <1>4. /\ c.op \in {"copy", "move", "swap"} => c.src \in alive /\ c.src \in Objects
        /\ c.op = "fromRef" => c.src \in Refs /\ c.src \notin Objects
        /\ c.op \notin Reading => c.src = c.dst
    BY <1>1, <1>3, OptionalAssumption DEF MayCall, CallOf, Readable, Reading
  <1>5. c.op \in Reading \ {"swap"} /\ Gives(c) =>
           LET d == IF c.src \in Refs THEN refs[c.src] ELSE c.src IN d \in Objects /\ set[d] /\ d \in alive
    BY <1>1, <1>3, <1>4, OptionalAssumption
       DEF MayCall, Gives, HasValue, Readable, Reading, IInv, Types, TypeOK
  \* What Entry decides.
  <1>6. /\ pc' \in {"create", "clear", "destroy", "swapValues", "assign", "keep"}
        /\ pc' = "create" <=> c.dst \notin alive
        /\ pc' = "clear" => ~set[c.dst] \/ (c.op = "swap" /\ set[c.dst] # set[c.src])
        /\ pc' = "clear" /\ c.op \in Reading \ {"swap"} => Gives(c)
        /\ pc' = "clear" /\ c.op = "swap" => set[c.dst] # set[c.src]
        /\ pc' = "destroy" => set[c.dst] /\ c.op # "swap"
        /\ pc' = "assign" => set[c.dst] /\ c.op # "swap" /\ Gives(c)
        /\ pc' = "swapValues" => set[c.dst] /\ set[c.src] /\ c.op = "swap"
    <2>1. set \in [Objects -> BOOLEAN] /\ set[c.dst] \in BOOLEAN
      BY <1>3 DEF IInv, Types, TypeOK
    <2>2. c.op = "swap" => Gives(c) = set[c.src] /\ set[c.src] \in BOOLEAN /\ c.src \in alive
      BY <1>4, <2>1 DEF Gives, HasValue, Reading
    <2>3. Gives(c) \in BOOLEAN
      BY <1>3, <2>1 DEF Gives, HasValue, Reading, Ops
    <2>4. c.dst \notin alive => c.op \notin {"swap", "emplace"}
      BY <1>1 DEF MayCall
    <2>5. CASE c.dst \notin alive
      BY <1>1, <2>5 DEF Entry
    <2>6. CASE c.dst \in alive /\ c.op = "swap"
      BY <1>1, <2>1, <2>2, <2>6 DEF Entry
    <2>7. CASE c.dst \in alive /\ c.op = "emplace"
      BY <1>1, <2>1, <2>7 DEF Entry, Reading, Gives
    <2>8. CASE c.dst \in alive /\ c.op \notin {"swap", "emplace"}
      BY <1>1, <2>1, <2>3, <2>8 DEF Entry
    <2> QED
      BY <2>5, <2>6, <2>7, <2>8
  <1>7. Types'
    <2>1. \A o \in Objects : ContentOf(o) \in Memory
      <3>1. storage \in [Objects -> Memory]
        BY DEF IInv, Types, TypeOK
      <3> QED
        BY <3>1 DEF ContentOf, SideOf, Unborn, Memory, Payloads
    <2>2. before' \in [Objects -> Memory]
      BY <1>2, <2>1 DEF Begin
    <2> QED
      BY <1>1, <1>2, <1>3, <1>6, <2>2 DEF IInv, Types, TypeOK, Labels
  <1>8. CallInv'
    BY <1>1, <1>2, <1>3, <1>4, <1>6 DEF CallInv, MayCall, CallOf, AtRest
  \* A swap across the states knows which object is which.
  <1>9. c.op = "swap" /\ pc' = "clear" =>
           Gainer' \in alive /\ ~set[Gainer'] /\ Loser' \in alive /\ set[Loser']
    <2> HAVE c.op = "swap" /\ pc' = "clear"
    <2>1. /\ c.dst \in alive /\ c.src \in alive /\ c.src \in Objects /\ set[c.dst] # set[c.src]
          /\ set[c.dst] \in BOOLEAN /\ set[c.src] \in BOOLEAN
      BY <1>3, <1>4, <1>6 DEF IInv, Types, TypeOK
    <2>2. before'[c.dst].side = IF set[c.dst] THEN "value" ELSE "empty"
      <3>1. before'[c.dst] = [side |-> SideOf(set[c.dst]), val |-> storage[c.dst].val]
        BY <1>2, <1>3, <2>1 DEF ContentOf
      <3> QED
        BY <3>1 DEF SideOf
    <2> QED
      BY <1>1, <2>1, <2>2 DEF Gainer, Loser
  <1>10. c.op # "swap" => Gainer' = c.dst /\ Loser' = c.dst
    BY <1>1 DEF Gainer, Loser
  <1>11. PassInv'
    BY <1>1, <1>2, <1>3, <1>4, <1>6, <1>9, <1>10 DEF PassInv, GainSteps, LoseSteps, Gives, HasValue
  <1>12. DonorInv'
    <2>1. CASE c.op = "swap"
      BY <1>1, <1>2, <1>6, <1>8, <1>9, <2>1 DEF DonorInv, Donor, CallInv, AtRest
    <2>2. CASE c.op # "swap"
      BY <1>1, <1>2, <1>3, <1>5, <1>6, <2>2 DEF DonorInv, Donor, Borrows, Gives, HasValue
    <2> QED
      BY <2>1, <2>2
  <1>13. SoundInv'
    BY <1>2, <1>6 DEF SoundInv, SoundBut, Sound
  <1> QED
    BY <1>2, <1>7, <1>8, <1>11, <1>12, <1>13 DEF IInv

LEMMA RestStep ==
  ASSUME IInv, Return \/ RefStep \/ \E o \in Objects : Destruct(o)
  PROVE  IInv'
  <1>1. pc' = "idle" /\ SoundBut({})
    BY DEF Return, RefStep, RefBind, RefAssign, RefSwap, RefReset, Destruct, IInv, SoundInv
  <1>2. CASE Return
    <2>1. Types' /\ ~fault' /\ SoundBut({})'
      BY <1>1, <1>2 DEF Return, IInv, Types, TypeOK, Labels, SoundBut, Sound, Unborn, Memory, Payloads
    <2> QED
      BY <1>1, <2>1 DEF IInv, CallInv, DonorInv, PassInv, SoundInv, AtRest, GainSteps, LoseSteps
  <1>3. CASE RefStep
    <2>1. UNCHANGED <<profile, alive, storage, set, call, pc, before, result, fault>>
      BY <1>3 DEF RefStep, RefBind, RefAssign, RefSwap, RefReset
    <2>2. refs' \in [Refs -> Objects \cup {"null"}]
      BY <1>3 DEF RefStep, RefBind, RefAssign, RefSwap, RefReset, IInv, Types, TypeOK
    <2>3. Types' /\ ~fault' /\ SoundBut({})'
      BY <1>1, <2>1, <2>2 DEF IInv, Types, TypeOK, SoundBut, Sound
    <2> QED
      BY <1>1, <2>3 DEF IInv, CallInv, DonorInv, PassInv, SoundInv, AtRest, GainSteps, LoseSteps
  <1>4. CASE \E o \in Objects : Destruct(o)
    <2>1. PICK o \in Objects : Destruct(o)
      BY <1>4
    <2>2. Types' /\ ~fault'
      BY <1>1, <2>1
         DEF Destruct, IInv, Types, TypeOK, Watch, BadDestroy, SoundBut, Sound, SideOf, Raw, Unborn, Memory,
             Payloads
    <2>3. SoundBut({})'
      BY <1>1, <2>1 DEF Destruct, IInv, Types, TypeOK, SoundBut, Sound, Raw, Unborn
    <2> QED
      BY <1>1, <2>2, <2>3 DEF IInv, CallInv, DonorInv, PassInv, SoundInv, AtRest, GainSteps, LoseSteps
  <1> QED
    BY <1>2, <1>3, <1>4

LEMMA StutterStep == ASSUME IInv, UNCHANGED vars PROVE IInv'
  BY DEF vars, IInv, Types, TypeOK, CallInv, DonorInv, PassInv, SoundInv, SoundBut, Sound, AtRest,
         Gainer, Loser, Donor, Borrows, Gives, HasValue

LEMMA IInvStep == IInv /\ [Next]_vars => IInv'
  BY BeginStep, CreateStep, AssignStep, SwapValuesStep, KeepStep, ClearStep, ConstructStep,
     ConstructThrowsStep, RestoreStep, SetFlagStep, DestroyStep, PlaceholderStep, ClearFlagStep,
     RestStep, StutterStep
     DEF Next, Step

\* The inductive invariant holds in every reachable state.
THEOREM Invariant == Spec => []IInv
  BY InitIInv, IInvStep, PTL DEF Spec

LEMMA IInvImplies == IInv => TypeOK /\ FlagTells /\ NoLifetimeFault
  BY DEF IInv, Types, SoundInv, SoundBut, Sound, AtRest, FlagTells, NoLifetimeFault

\* Every variable keeps its type for any T, and no optional<T&> ever points at
\* anything but the value of an optional<T>.
THEOREM TypeCorrect == Spec => []TypeOK
  BY Invariant, IInvImplies, PTL

\* After any sequence of calls, throwing or not, the flag of every optional
\* tells the truth about its union, for any number of objects.
THEOREM FlagAlwaysTells == Spec => []FlagTells
  BY Invariant, IInvImplies, PTL

\* No lifetime is misused, in particular by the two passes of emplace and swap,
\* and by reading through an optional<T&> that designates the object assigned to.
THEOREM NoFaultEver == Spec => []NoLifetimeFault
  BY Invariant, IInvImplies, PTL
(***************************************************************************)
(* The promise.  OptionalSpec takes a call in one step, from before to its *)
(* outcome; EffectInv says, for each step of a pass of _reinit, which      *)
(* objects are still as they were, whether the donor has been read, and    *)
(* what the object that gains a value is getting.                          *)
(***************************************************************************)
\* An object without a value has no payload either.
EmptyInv == \A o \in Objects : storage[o].side # "value" => storage[o].val = Hollow

\* before remembers every object, and no payload of one without a value.
BeforeInv == ~AtRest => \A o \in Objects : /\ before[o].side = "none" <=> o \notin alive
                                           /\ before[o].side # "value" => before[o].val = Hollow

\* What the argument of the call was seen as, and what the gaining object gets.
Source == IF call.src \in Objects THEN before[call.src]
          ELSE IF refs[call.src] = "null" THEN Empty ELSE before[refs[call.src]]
Given == CASE call.op = "swap" -> before[Loser]
           [] call.op = "reset" -> Empty
           [] call.op \in {"value", "emplace"} -> Full(call.val)
           [] OTHER -> Source

Kept(S) == \A o \in Objects \ S : ContentOf(o) = before[o]

\* What the call makes of an object other than the gaining one, once it has read
\* the donor.
Moved(o) == IF o \in RvalueDonor THEN HollowOut(before[o]) ELSE before[o]
MovedBut(S) == \A o \in Objects \ S : ContentOf(o) = Moved(o)

\* An exception came, and spoiled at most what is in R.
SpoiledIn(c, o, R) == ~profile.strong /\ o \in R /\ c = HollowOut(before[o])
KeptOrSpoiled(S, R) ==
    \A o \in Objects \ S : ContentOf(o) = before[o] \/ SpoiledIn(ContentOf(o), o, R)

\* emplace has lost the old value when it comes to gain the new one.
Emplacing == IF call.op = "emplace" THEN {call.dst} ELSE {}

EntryEffect ==
    /\ pc \in {"create", "assign", "swapValues", "keep", "clear"} => Kept(Emplacing)
    /\ pc \in {"assign", "keep"} => call.op # "emplace"
    /\ pc = "keep" => ~set[call.dst]
    /\ pc = "keep" /\ call.op = "swap" => ~set[call.src]
    /\ pc \in {"keep", "destroy"} /\ call.op \notin {"swap", "emplace"} => ~Gives(call)

GainEffect ==
    /\ pc \in GainSteps => call.op # "reset"
    /\ pc \in GainSteps \ {"clear"} /\ call.op # "emplace" => before[Gainer] = Empty
    /\ pc = "construct" => Kept({Gainer})
    /\ pc = "setFlag" => MovedBut({Gainer}) /\ Given = Full(storage[Gainer].val)
    /\ pc = "restore" => /\ KeptOrSpoiled({Gainer}, RvalueDonor)
                         /\ ~call.nothrow /\ Given.side = "value"

LoseEffect ==
    /\ pc \in LoseSteps /\ call.op = "swap"
         => /\ Gainer # Loser /\ Kept({Gainer, Loser}) /\ set[Gainer]
            /\ before[Loser] = Full(storage[Gainer].val) /\ before[Gainer] = Empty
    /\ pc = "destroy" /\ call.op # "swap" => Kept({})
    /\ pc \in {"placeholder", "clearFlag"} /\ call.op # "swap"
         => Kept({Loser}) /\ (call.op # "emplace" => Given = Empty)

CallEffect == BeforeInv /\ EntryEffect /\ GainEffect /\ LoseEffect
EffectInv == EmptyInv /\ CallEffect

\* What a step that sets no flag makes of o.
After(o) == IF o \in alive THEN [side |-> SideOf(set[o]), val |-> storage'[o].val] ELSE Unborn

LEMMA InsideKeeps ==
  ASSUME Inside
  PROVE  /\ Gainer' = Gainer /\ Loser' = Loser /\ Donor' = Donor /\ Borrows' = Borrows
         /\ Given' = Given /\ RvalueDonor' = RvalueDonor /\ Emplacing' = Emplacing
         /\ \A o \in Objects : Moved(o)' = Moved(o)
         /\ set' = set => \A o \in Objects : ContentOf(o)' = After(o)
  BY DEF Inside, Gainer, Loser, Donor, Borrows, Given, Source, RvalueDonor, Emplacing, Moved, ContentOf,
         After

\* The value on its way is the one the donor had, or the caller brought.
LEMMA IncomingIsGiven ==
  ASSUME IInv, ~AtRest, call.op # "reset",
         Borrows => Donor \in alive /\ set[Donor] /\ ContentOf(Donor) = before[Donor]
  PROVE  Given = Full(Incoming)
  <1>1. call \in CallType /\ alive \subseteq Objects
    BY Participants DEF IInv, Types, TypeOK
  <1>2. CASE Borrows
    <2>1. Donor \in Objects /\ before[Donor] = Full(storage[Donor].val)
      BY <1>1, <1>2 DEF ContentOf, SideOf, Full
    <2>2. Given = before[Donor]
      BY <1>1, <1>2, <2>1, OptionalAssumption
         DEF Given, Source, Donor, Loser, Borrows, Reading, IInv, CallInv
    <2> QED
      BY <1>2, <2>1, <2>2 DEF Incoming
  <1>3. CASE ~Borrows
    BY <1>1, <1>3 DEF Given, Incoming, Borrows, CallType, Ops, Reading
  <1> QED
    BY <1>2, <1>3

\* A call without a value to give makes its target empty, and moves nothing.
LEMMA GivenIsEmpty ==
  ASSUME IInv, BeforeInv, ~AtRest, ~Gives(call), call.op \notin {"swap", "emplace"}, Kept({})
  PROVE  Given = Empty
  <1>1. call \in CallType /\ alive \subseteq Objects /\ before \in [Objects -> Memory]
    BY Participants DEF IInv, Types, TypeOK
  <1>2. CASE call.op = "reset"
    BY <1>2 DEF Given
  <1>3. CASE call.op \in {"copy", "move"}
    <2>1. call.src \in alive /\ call.src \in Objects /\ ~set[call.src]
      BY <1>1, <1>3 DEF IInv, CallInv, Gives, HasValue, Reading
    <2>2. before[call.src] = [side |-> "empty", val |-> storage[call.src].val]
      BY <2>1 DEF Kept, ContentOf, SideOf
    <2>3. before[call.src].val = Hollow
      BY <2>1, <2>2 DEF BeforeInv
    <2> QED
      BY <1>3, <2>1, <2>2, <2>3 DEF Given, Source, Empty
  <1>4. CASE call.op = "fromRef"
    BY <1>4, OptionalAssumption DEF IInv, CallInv, Gives, HasValue, Reading, Given, Source
  <1>5. call.op \notin {"value"}
    BY DEF Gives, Reading
  <1> QED
    BY <1>1, <1>2, <1>3, <1>4, <1>5 DEF CallType, Ops, Reading

LEMMA NothingMoves ==
  ASSUME Given = Empty, call.op # "swap", call.op = "move" => call.src \in Objects /\ call.src \notin Refs
  PROVE  \A o \in Objects : Moved(o) = before[o]
  BY DEF Moved, RvalueDonor, Donor, Given, Source, HollowOut, Empty

\* A donor that is moved from is left hollow, whatever is left is kept.
LEMMA ReadLeavesMoved ==
  ASSUME storage \in [Objects -> Memory], NEW o \in Objects, ContentOf(o) = before[o],
         RvalueDonor \subseteq alive, storage'[o] = AfterRead[o]
  PROVE  After(o) = Moved(o)
  <1>1. CASE o \in RvalueDonor
    BY <1>1 DEF AfterRead, RvalueDonor, After, Moved, ContentOf, HollowOut, Memory
  <1>2. CASE o \notin RvalueDonor
    BY <1>2 DEF AfterRead, RvalueDonor, After, Moved, ContentOf
  <1> QED
    BY <1>1, <1>2

\* A throwing operation of T leaves an object alone, or hollow.
LEMMA SpoilLeavesHollow ==
  ASSUME storage \in [Objects -> Memory], NEW S, storage' \in Spoil(S), NEW o \in Objects,
         ContentOf(o) = before[o]
  PROVE  After(o) = before[o] \/ SpoiledIn(After(o), o, S)
  <1>1. storage'[o] = storage[o] \/ (~profile.strong /\ o \in S /\ storage'[o] = HollowOut(storage[o]))
    BY DEF Spoil
  <1>2. CASE o \in alive
    BY <1>1, <1>2 DEF After, ContentOf, SpoiledIn, HollowOut, Memory
  <1>3. CASE o \notin alive
    BY <1>3 DEF After, ContentOf
  <1> QED
    BY <1>2, <1>3

(***************************************************************************)
(* EffectInv is kept.                                                      *)
(***************************************************************************)
LEMMA EffectInit == Init => EffectInv
  BY DEF Init, EffectInv, EmptyInv, CallEffect, BeforeInv, EntryEffect, GainEffect, LoseEffect, AtRest,
         Raw, Unborn, GainSteps, LoseSteps

LEMMA EmptyStep == ASSUME IInv, EmptyInv, [Next]_vars PROVE EmptyInv'
  <1>1. /\ storage \in [Objects -> Memory]
        /\ \A o \in Objects : storage[o].side # "value" => storage[o].val = Hollow
    BY DEF IInv, Types, TypeOK, EmptyInv
  <1>2. \A o \in Objects : AfterRead[o].side # "value" => AfterRead[o].val = Hollow
    BY <1>1 DEF AfterRead, Memory
  <1>3. CASE Create \/ Construct
    BY <1>1, <1>2, <1>3, ReadKeepsSides DEF Create, Construct, EmptyInv, Full, Empty
  <1>4. CASE Assign
    <2>1. storage[call.dst].side = "value" /\ call.dst \in Objects
      BY <1>4, Participants DEF Assign, AtRest, IInv, CallInv, PassInv, SoundInv, SoundBut, Sound, SideOf
    <2> QED
      BY <1>1, <1>2, <1>4, <2>1, ReadKeepsSides DEF Assign, EmptyInv, Memory
  <1>5. CASE SwapValues
    <2>1. /\ storage[call.dst].side = "value" /\ call.dst \in Objects
          /\ storage[call.src].side = "value" /\ call.src \in Objects
      BY <1>5, Participants
         DEF SwapValues, AtRest, IInv, Types, TypeOK, CallInv, PassInv, SoundInv, SoundBut, Sound, SideOf
    <2> QED
      BY <1>1, <1>5, <2>1 DEF SwapValues, EmptyInv, Memory
  <1>6. CASE CreateThrows \/ AssignThrows \/ SwapValuesThrows \/ ConstructThrows
    <2>1. PICK S : storage' \in Spoil(S)
      BY <1>6 DEF CreateThrows, AssignThrows, SwapValuesThrows, ConstructThrows
    <2> QED
      BY <1>1, <2>1 DEF Spoil, HollowOut, EmptyInv, Memory
  <1>7. CASE \/ ClearPlaceholder \/ Restore \/ DestroyValue \/ ConstructPlaceholder
             \/ \E o \in Objects : Destruct(o)
    BY <1>1, <1>7
       DEF ClearPlaceholder, Restore, DestroyValue, ConstructPlaceholder, Destruct, EmptyInv, Raw, Unborn,
           Empty
  <1>8. CASE Begin \/ Return \/ RefStep \/ Keep \/ SetFlag \/ ClearFlag \/ UNCHANGED vars
    BY <1>1, <1>8
       DEF Begin, Return, RefStep, RefBind, RefAssign, RefSwap, RefReset, Keep, SetFlag, ClearFlag, vars,
           EmptyInv
  <1> QED
    BY <1>3, <1>4, <1>5, <1>6, <1>7, <1>8 DEF Next, Step

\* A call that is over has nothing on its way.
LEMMA RestEffect == ASSUME pc' \in {"idle", "return"} PROVE CallEffect'
  BY DEF CallEffect, BeforeInv, EntryEffect, GainEffect, LoseEffect, AtRest, GainSteps, LoseSteps

\* What a call enters, and why.
LEMMA BeginEnters ==
  ASSUME IInv, EmptyInv, Begin
  PROVE  /\ pc' \in {"create", "clear", "destroy", "swapValues", "assign", "keep"}
         /\ Kept({})' /\ BeforeInv'
         /\ pc' = "clear" => call'.op # "reset"
         /\ pc' = "destroy" => call'.op # "swap"
         /\ pc' \in {"assign", "keep"} => call'.op # "emplace"
         /\ pc' = "keep" => ~set'[call'.dst]
         /\ pc' = "keep" /\ call'.op = "swap" => ~set'[call'.src]
         /\ pc' \in {"keep", "destroy"} /\ call'.op \notin {"swap", "emplace"} => ~Gives(call)'
  <1>1. PICK c \in CallType : /\ MayCall(profile, c, c.dst \in alive, Readable(c.src))
                              /\ call' = c /\ pc' = Entry(c)
    BY DEF Begin, Goto
  <1>2. /\ UNCHANGED <<profile, alive, storage, set, refs>>
        /\ before' = [o \in Objects |-> ContentOf(o)]
    BY DEF Begin
  <1>3. Gives(call)' = Gives(c)
    BY <1>1, <1>2 DEF Gives, HasValue
  <1>4. c.dst \in alive => c.dst \in Objects /\ set[c.dst] \in BOOLEAN
    BY DEF IInv, Types, TypeOK
  <1>5. BeforeInv'
    <2>1. SoundBut({})
      BY DEF Begin, IInv, SoundInv
    <2>2. ASSUME NEW o \in Objects
          PROVE  /\ ContentOf(o).side = "none" <=> o \notin alive
                 /\ ContentOf(o).side # "value" => ContentOf(o).val = Hollow
      BY <2>1 DEF SoundBut, Sound, ContentOf, SideOf, Unborn, EmptyInv
    <2> QED
      BY <1>2, <2>2 DEF BeforeInv
  <1>6. Kept({})'
    BY <1>2 DEF Kept, ContentOf
  <1>7. CASE c.dst \notin alive
    BY <1>1, <1>3, <1>5, <1>6, <1>7 DEF Entry
  <1>8. CASE c.dst \in alive /\ c.op = "swap"
    <2>1. c.src \in Objects /\ set[c.src] \in BOOLEAN
      BY <1>1, <1>8, OptionalAssumption DEF MayCall, CallOf, Reading, CallType, IInv, Types, TypeOK
    <2> QED
      BY <1>1, <1>2, <1>4, <1>5, <1>6, <1>8, <2>1 DEF Entry
  <1>9. CASE c.dst \in alive /\ c.op = "emplace"
    BY <1>1, <1>2, <1>4, <1>5, <1>6, <1>9 DEF Entry
  <1>10. CASE c.dst \in alive /\ c.op \notin {"swap", "emplace"}
    <2>1. c.op = "reset" => ~Gives(c)
      BY DEF Gives, Reading
    <2> QED
      BY <1>1, <1>2, <1>3, <1>4, <1>5, <1>6, <1>10, <2>1 DEF Entry
  <1> QED
    BY <1>7, <1>8, <1>9, <1>10

LEMMA BeginEffect == ASSUME IInv, EmptyInv, Begin PROVE CallEffect'
  BY BeginEnters DEF CallEffect, EntryEffect, GainEffect, LoseEffect, GainSteps, LoseSteps, Kept

\* Inside a call before is what it was.
LEMMA BeforeStays ==
  ASSUME Inside, BeforeInv, ~AtRest
  PROVE  BeforeInv'
  BY DEF Inside, BeforeInv

LEMMA ClearEffect == ASSUME IInv, CallEffect, ClearPlaceholder PROVE CallEffect'
  <1>1. /\ Inside /\ pc \in GainSteps /\ pc = "clear" /\ pc' = "construct" /\ set' = set
        /\ Kept(Emplacing) /\ BeforeInv /\ ~AtRest /\ call.op # "reset"
        /\ storage \in [Objects -> Memory]
    BY DEF ClearPlaceholder, Goto, Inside, GainSteps, CallEffect, EntryEffect, GainEffect, AtRest, IInv,
           Types, TypeOK
  <1>2. Gainer \in Objects /\ (call.op = "emplace" => Gainer = call.dst)
    BY <1>1, AtGain DEF Gainer
  <1>3. \A o \in Objects \ {Gainer} : After(o) = before[o]
    BY <1>1, <1>2 DEF ClearPlaceholder, Kept, Emplacing, After, ContentOf
  <1>4. Kept({Gainer})'
    BY <1>1, <1>3, InsideKeeps DEF Kept, Inside
  <1>5. BeforeInv'
    BY <1>1, BeforeStays
  <1>6. call.op # "emplace" => before[Gainer] = Empty
    <2> HAVE call.op # "emplace"
    <2>1. Gainer \in alive /\ ~set[Gainer] /\ ContentOf(Gainer) = before[Gainer]
      BY <1>1, <1>2, AtGain DEF Kept, Emplacing
    <2>2. before[Gainer] = [side |-> "empty", val |-> storage[Gainer].val]
      BY <2>1 DEF ContentOf, SideOf
    <2>3. before[Gainer].val = Hollow
      BY <1>1, <1>2, <2>2 DEF BeforeInv
    <2> QED
      BY <2>2, <2>3 DEF Empty
  <1>7. call' = call /\ before' = before /\ Gainer' = Gainer
    BY <1>1, InsideKeeps DEF Inside
  <1> QED
    BY <1>1, <1>4, <1>5, <1>6, <1>7
       DEF CallEffect, EntryEffect, GainEffect, LoseEffect, GainSteps, LoseSteps, Inside

\* What a construction reads from.
LEMMA ConstructReads ==
  ASSUME IInv, CallEffect, pc = "construct"
  PROVE  /\ pc \in GainSteps /\ ~AtRest /\ Gainer \in Objects /\ Gainer \in alive /\ call.op # "reset"
         /\ Kept({Gainer}) /\ BeforeInv /\ Given = Full(Incoming)
         /\ RvalueDonor \subseteq alive
         /\ call.op # "emplace" => before[Gainer] = Empty
  <1>1. /\ pc \in GainSteps /\ ~AtRest /\ Kept({Gainer}) /\ BeforeInv /\ call.op # "reset"
        /\ call.op # "emplace" => before[Gainer] = Empty
    BY DEF GainSteps, CallEffect, GainEffect, AtRest
  <1>2. /\ Gainer \in Objects /\ Gainer \in alive
        /\ Borrows => Donor \in alive /\ set[Donor] /\ Donor \in Objects /\ Donor # Gainer
    BY <1>1, AtGain
  <1>3. Given = Full(Incoming)
    BY <1>1, <1>2, IncomingIsGiven DEF Kept
  <1>4. RvalueDonor \subseteq alive
    BY <1>2 DEF RvalueDonor, Borrows, Reading
  <1> QED
    BY <1>1, <1>2, <1>3, <1>4

LEMMA ConstructEffect == ASSUME IInv, CallEffect, Construct PROVE CallEffect'
  <1>1. /\ Inside /\ pc = "construct" /\ pc' = "setFlag" /\ set' = set
        /\ storage \in [Objects -> Memory]
        /\ storage' = [AfterRead EXCEPT ![Gainer] = Full(Incoming)]
    BY DEF Construct, Goto, Inside, IInv, Types, TypeOK
  <1>2. /\ pc \in GainSteps /\ ~AtRest /\ Gainer \in Objects /\ call.op # "reset"
        /\ Kept({Gainer}) /\ BeforeInv /\ Given = Full(Incoming) /\ RvalueDonor \subseteq alive
        /\ call.op # "emplace" => before[Gainer] = Empty
        /\ DOMAIN AfterRead = Objects
    BY <1>1, ConstructReads, ReadKeepsSides
  <1>3. \A o \in Objects \ {Gainer} : After(o) = Moved(o)
    BY <1>1, <1>2, ReadLeavesMoved DEF Kept
  <1>4. MovedBut({Gainer})'
    BY <1>1, <1>3, InsideKeeps DEF MovedBut, Inside
  <1>5. storage'[Gainer].val = Incoming
    BY <1>1, <1>2 DEF Full
  <1>6. Given' = Full(storage'[Gainer'].val)
    BY <1>1, <1>2, <1>5, InsideKeeps
  <1>7. BeforeInv'
    BY <1>1, <1>2, BeforeStays
  <1>8. call' = call /\ before' = before /\ Gainer' = Gainer
    BY <1>1, InsideKeeps DEF Inside
  <1> QED
    BY <1>1, <1>2, <1>4, <1>6, <1>7, <1>8
       DEF CallEffect, EntryEffect, GainEffect, LoseEffect, GainSteps, LoseSteps, Inside

LEMMA ConstructThrowsEffect == ASSUME IInv, CallEffect, ConstructThrows PROVE CallEffect'
  <1>1. /\ Inside /\ pc = "construct" /\ pc' = "restore" /\ set' = set
        /\ storage \in [Objects -> Memory]
        /\ storage' \in Spoil(RvalueDonor) /\ ~call.nothrow
    BY DEF ConstructThrows, Goto, Inside, IInv, Types, TypeOK
  <1>2. /\ pc \in GainSteps /\ ~AtRest /\ Gainer \in Objects /\ call.op # "reset"
        /\ Kept({Gainer}) /\ BeforeInv /\ Given = Full(Incoming)
        /\ call.op # "emplace" => before[Gainer] = Empty
    BY <1>1, ConstructReads
  <1>3. \A o \in Objects \ {Gainer} : After(o) = before[o] \/ SpoiledIn(After(o), o, RvalueDonor)
    BY <1>1, <1>2, SpoilLeavesHollow DEF Kept
  <1>4. KeptOrSpoiled({Gainer}, RvalueDonor)'
    BY <1>1, <1>3, InsideKeeps DEF KeptOrSpoiled, SpoiledIn, Inside
  <1>5. Given'.side = "value"
    BY <1>1, <1>2, InsideKeeps DEF Full
  <1>6. BeforeInv'
    BY <1>1, <1>2, BeforeStays
  <1>7. call' = call /\ before' = before /\ Gainer' = Gainer
    BY <1>1, InsideKeeps DEF Inside
  <1> QED
    BY <1>1, <1>2, <1>4, <1>5, <1>6, <1>7
       DEF CallEffect, EntryEffect, GainEffect, LoseEffect, GainSteps, LoseSteps, Inside

\* The second pass of a swap begins.
LEMMA SetFlagEffect == ASSUME IInv, CallEffect, SetFlag, call.op = "swap" PROVE CallEffect'
  <1>1. /\ Inside /\ pc \in GainSteps /\ pc' = "destroy" /\ storage' = storage
        /\ set' = [set EXCEPT ![Gainer] = TRUE]
        /\ MovedBut({Gainer}) /\ Given = Full(storage[Gainer].val) /\ BeforeInv /\ ~AtRest
        /\ set \in [Objects -> BOOLEAN] /\ before[Gainer] = Empty
    BY DEF SetFlag, Goto, Inside, GainSteps, CallEffect, GainEffect, AtRest, IInv, Types, TypeOK
  <1>2. Gainer \in Objects /\ RvalueDonor = {Loser} /\ Gainer # Loser
    BY <1>1, AtGain DEF RvalueDonor, Donor
  <1>3. \A o \in Objects \ {Gainer, Loser} : ContentOf(o) = before[o]
    BY <1>1, <1>2 DEF MovedBut, Moved
  <1>4. Kept({Gainer, Loser})'
    BY <1>1, <1>2, <1>3, InsideKeeps DEF Kept, Inside, ContentOf
  <1>5. before[Loser] = Full(storage[Gainer].val)
    BY <1>1 DEF Given
  <1>6. /\ set'[Gainer'] /\ before'[Loser'] = Full(storage'[Gainer'].val) /\ before'[Gainer'] = Empty
        /\ Gainer' # Loser'
    BY <1>1, <1>2, <1>5, InsideKeeps DEF Inside
  <1>7. BeforeInv'
    BY <1>1, BeforeStays
  <1> QED
    BY <1>1, <1>4, <1>6, <1>7
       DEF CallEffect, EntryEffect, GainEffect, LoseEffect, GainSteps, LoseSteps, Inside

LEMMA LoseEffectStep == ASSUME IInv, CallEffect, DestroyValue \/ ConstructPlaceholder PROVE CallEffect'
  <1>1. /\ Inside /\ pc \in LoseSteps /\ pc' \in {"placeholder", "clearFlag"} /\ set' = set
        /\ storage \in [Objects -> Memory] /\ BeforeInv /\ ~AtRest
        /\ \A o \in Objects \ {Loser} : storage'[o] = storage[o]
        /\ pc \in {"destroy", "placeholder"}
    BY DEF DestroyValue, ConstructPlaceholder, Goto, Inside, LoseSteps, CallEffect, AtRest, IInv, Types,
           TypeOK
  <1>2. call' = call /\ before' = before /\ Gainer' = Gainer /\ Loser' = Loser /\ Given' = Given
    BY <1>1, InsideKeeps DEF Inside
  <1>3. BeforeInv'
    BY <1>1, BeforeStays
  <1>4. CASE call.op = "swap"
    <2>1. /\ Kept({Gainer, Loser}) /\ set[Gainer] /\ before[Loser] = Full(storage[Gainer].val)
          /\ Gainer # Loser /\ Gainer \in Objects /\ before[Gainer] = Empty
      BY <1>1, <1>4, Participants DEF CallEffect, LoseEffect, Gainer, Loser, BeforeInv, IInv, PassInv
    <2>2. Kept({Gainer, Loser})'
      BY <1>1, <1>2, <2>1, InsideKeeps DEF Kept, After, ContentOf
    <2> QED
      BY <1>1, <1>2, <1>3, <1>4, <2>1, <2>2
         DEF CallEffect, EntryEffect, GainEffect, LoseEffect, GainSteps, LoseSteps
  <1>5. CASE call.op # "swap"
    <2>1. Kept({Loser}) /\ (call.op # "emplace" => Given = Empty)
      <3>1. CASE pc = "destroy"
        <4>1. Kept({})
          BY <1>5, <3>1 DEF CallEffect, LoseEffect
        <4>2. Kept({Loser})
          BY <4>1 DEF Kept
        <4>3. call.op # "emplace" => ~Gives(call)
          BY <1>5, <3>1 DEF CallEffect, EntryEffect
        <4>4. call.op # "emplace" => Given = Empty
          BY <1>1, <1>5, <4>1, <4>3, GivenIsEmpty
        <4> QED
          BY <4>2, <4>4
      <3>2. CASE pc = "placeholder"
        BY <1>5, <3>2 DEF CallEffect, LoseEffect
      <3> QED
        BY <1>1, <3>1, <3>2
    <2>2. Kept({Loser})'
      BY <1>1, <1>2, <2>1, InsideKeeps DEF Kept, After, ContentOf
    <2> QED
      BY <1>1, <1>2, <1>3, <1>5, <2>1, <2>2
         DEF CallEffect, EntryEffect, GainEffect, LoseEffect, GainSteps, LoseSteps
  <1> QED
    BY <1>4, <1>5

\* The second pass of emplace begins.
LEMMA ClearFlagEffect == ASSUME IInv, CallEffect, ClearFlag, call.op = "emplace" PROVE CallEffect'
  <1>1. /\ Inside /\ pc \in LoseSteps /\ pc' = "clear" /\ storage' = storage
        /\ \A o \in Objects \ {Loser} : set'[o] = set[o]
        /\ Kept({Loser}) /\ BeforeInv /\ ~AtRest
    BY DEF ClearFlag, Goto, Inside, LoseSteps, CallEffect, LoseEffect, AtRest, IInv, Types, TypeOK
  <1>2. Loser = call.dst /\ Emplacing = {Loser}
    BY DEF Loser, Emplacing
  <1>3. Kept(Emplacing)'
    BY <1>1, <1>2, InsideKeeps DEF Kept, Inside, ContentOf
  <1>4. BeforeInv'
    BY <1>1, BeforeStays
  <1> QED
    BY <1>1, <1>3, <1>4
       DEF CallEffect, EntryEffect, GainEffect, LoseEffect, GainSteps, LoseSteps, Inside

LEMMA EffectStutter == ASSUME CallEffect, UNCHANGED vars PROVE CallEffect'
  BY DEF vars, CallEffect, BeforeInv, EntryEffect, GainEffect, LoseEffect, Kept, KeptOrSpoiled, SpoiledIn,
         MovedBut, Moved, Given, Source, RvalueDonor, Emplacing, ContentOf, Gives, HasValue, Donor, Gainer,
         Loser, AtRest

LEMMA EffectStep ==
  ASSUME IInv, EffectInv, [Next]_vars
  PROVE  EffectInv'
  <1>1. EmptyInv'
    BY EmptyStep DEF EffectInv
  <1>2. CallEffect'
    <2>1. CASE \/ Create \/ CreateThrows \/ Assign \/ AssignThrows \/ SwapValues \/ SwapValuesThrows
               \/ Keep \/ Restore \/ Return \/ RefStep \/ (\E o \in Objects : Destruct(o))
               \/ (SetFlag /\ call.op # "swap") \/ (ClearFlag /\ call.op # "emplace")
      BY <2>1, RestEffect
         DEF Create, CreateThrows, Assign, AssignThrows, SwapValues, SwapValuesThrows, Keep, Restore,
             Return, RefStep, RefBind, RefAssign, RefSwap, RefReset, Destruct, SetFlag, ClearFlag, Leave
    <2> QED
      BY <2>1, BeginEffect, ClearEffect, ConstructEffect, ConstructThrowsEffect, SetFlagEffect,
         LoseEffectStep, ClearFlagEffect, EffectStutter
         DEF Next, Step, EffectInv
  <1> QED
    BY <1>1, <1>2 DEF EffectInv


(***************************************************************************)
(* The refinement: how each step of the storage machine looks to the user. *)
(***************************************************************************)
\* Both levels speak of the same calls.
LEMMA SameCalls ==
  /\ Promise!CallType = CallType /\ Promise!Reading = Reading
  /\ Promise!Unborn = Unborn /\ Promise!Empty = Empty
  /\ \A p, c, d, s : Promise!MayCall(p, c, d, s) <=> MayCall(p, c, d, s)
  /\ \A c, d : Promise!Noexcept(c, d) <=> Noexcept(c, d)
  /\ \A c : Promise!HollowOut(c) = HollowOut(c)
  /\ \A p : Promise!Full(p) = Full(p)
  BY DEF Promise!CallType, CallType, Promise!Ops, Ops, Promise!Reading, Reading, Promise!Payloads,
         Payloads, Promise!Unborn, Unborn, Promise!Empty, Empty, Promise!MayCall, MayCall, Promise!CallOf,
         CallOf, Promise!Noexcept, Noexcept, Promise!HollowOut, HollowOut, Promise!Full, Full

\* Inside a call the argument is seen as it was when the call began.
LEMMA SameSource ==
  ASSUME ~AtRest
  PROVE  Promise!Source(call) = Source
  BY SameCalls DEF Promise!Source, Source

\* What a call that returns makes of each object.
Outcome(o) ==
    IF call.op = "swap"
    THEN IF o = call.dst THEN before[call.src] ELSE IF o = call.src THEN before[call.dst] ELSE before[o]
    ELSE IF o = call.dst THEN Given ELSE Moved(o)

LEMMA OutcomeIsEffect ==
  ASSUME IInv, ~AtRest
  PROVE  Promise!Effect(call) = [o \in Objects |-> Outcome(o)]
  <1>1. /\ call \in CallType /\ call.dst \in Objects /\ before \in [Objects -> Memory]
        /\ (IF AtRest THEN [o \in Objects |-> ContentOf(o)] ELSE before) = before
    BY Participants DEF IInv, Types, TypeOK
  <1>2. /\ call.op \in {"copy", "move", "swap"} => call.src \in Objects
        /\ call.op = "move" => call.dst # call.src /\ call.src \notin Refs
    BY OptionalAssumption DEF IInv, Types, TypeOK, CallInv
  <1>3. CASE call.op \in {"copy", "fromRef"}
    <2>1. Given = Source /\ \A o \in Objects : Moved(o) = before[o]
      BY <1>3 DEF Given, Moved, RvalueDonor
    <2> QED
      BY <1>1, <1>3, <2>1, SameSource DEF Promise!Effect, Outcome
  <1>4. CASE call.op = "move"
    <2>1. Given = before[call.src] /\ Source = before[call.src] /\ RvalueDonor = {call.src}
      BY <1>2, <1>4 DEF Given, Source, RvalueDonor, Donor
    <2>2. Promise!Effect(call)
            = [before EXCEPT ![call.dst] = before[call.src], ![call.src] = HollowOut(before[call.src])]
      BY <1>1, <1>4, <2>1, SameSource, SameCalls DEF Promise!Effect
    <2> QED
      BY <1>1, <1>2, <1>4, <2>1, <2>2 DEF Outcome, Moved
  <1>5. CASE call.op = "swap"
    BY <1>1, <1>2, <1>5 DEF Promise!Effect, Outcome
  <1>6. CASE call.op \in {"value", "emplace", "reset"}
    <2>1. \A o \in Objects : Moved(o) = before[o]
      BY <1>6 DEF Moved, RvalueDonor
    <2>2. Given = IF call.op = "reset" THEN Empty ELSE Full(call.val)
      BY <1>6 DEF Given
    <2> QED
      BY <1>1, <1>6, <2>1, <2>2, SameCalls DEF Promise!Effect, Outcome
  <1> QED
    BY <1>1, <1>3, <1>4, <1>5, <1>6 DEF CallType, Ops, Reading

\* Returning in order, with every object at its outcome.
Returns == pc' = "return" /\ result' = "ok" /\ UNCHANGED <<profile, refs, call>>

LEMMA Finishes ==
  ASSUME IInv, ~AtRest, Returns, \A o \in Objects : ContentOf(o)' = Outcome(o)
  PROVE  Promise!Finish
  <1>1. [o \in Objects |-> ContentOf(o)]' = Promise!Effect(call)
    BY OutcomeIsEffect
  <1> QED
    BY <1>1 DEF Promise!Finish, Returns, AtRest

(***************************************************************************)
(* The steps that take effect.                                             *)
(***************************************************************************)
\* What a constructor or an assignment that gives a value reads from.
LEMMA EntryReads ==
  ASSUME IInv, CallEffect, pc \in {"create", "assign"}, Gives(call)
  PROVE  /\ Kept({}) /\ Given = Full(Incoming) /\ RvalueDonor \subseteq alive
         /\ call.op \notin {"swap", "emplace", "reset"}
  <1>1. ~AtRest /\ Kept(Emplacing) /\ call.op \notin {"swap", "reset"}
    BY DEF AtRest, CallEffect, EntryEffect, IInv, CallInv, PassInv, Gives, Reading
  <1>2. call.op # "emplace"
    BY <1>1 DEF IInv, CallInv, CallEffect, EntryEffect
  <1>3. Kept({})
    BY <1>1, <1>2 DEF Emplacing
  <1>4. Borrows => Donor \in alive /\ set[Donor] /\ Donor \in Objects
    BY DEF IInv, DonorInv, Types, TypeOK
  <1>5. Given = Full(Incoming)
    BY <1>1, <1>3, <1>4, IncomingIsGiven DEF Kept
  <1>6. RvalueDonor \subseteq alive
    BY <1>4 DEF RvalueDonor, Borrows, Reading
  <1> QED
    BY <1>1, <1>2, <1>3, <1>5, <1>6

LEMMA CreateRefines == ASSUME IInv, CallEffect, Create PROVE Promise!Finish
  <1>1. /\ pc = "create" /\ ~AtRest /\ Returns /\ storage \in [Objects -> Memory]
        /\ call.dst \in Objects /\ call.dst \notin alive /\ call.op \notin {"swap", "emplace"}
        /\ alive' = alive \cup {call.dst} /\ set \in [Objects -> BOOLEAN] /\ BeforeInv /\ Kept({})
    BY Participants
       DEF Create, Leave, Returns, AtRest, IInv, Types, TypeOK, CallInv, CallEffect, EntryEffect,
           Emplacing
  <1>2. CASE Gives(call)
    <2>1. Given = Full(Incoming) /\ RvalueDonor \subseteq alive
      BY <1>1, <1>2, EntryReads
    <2>2. /\ storage' = [AfterRead EXCEPT ![call.dst] = Given]
          /\ set' = [set EXCEPT ![call.dst] = TRUE] /\ DOMAIN AfterRead = Objects
      BY <1>1, <1>2, <2>1, ReadKeepsSides DEF Create
    <2>3. ASSUME NEW o \in Objects PROVE ContentOf(o)' = Outcome(o)
      <3>1. CASE o = call.dst
        BY <1>1, <2>1, <2>2, <3>1 DEF Outcome, ContentOf, SideOf, Full
      <3>2. CASE o # call.dst
        <4>1. After(o) = Moved(o)
          BY <1>1, <2>1, <2>2, <3>2, ReadLeavesMoved DEF Kept
        <4> QED
          BY <1>1, <2>2, <3>2, <4>1 DEF Outcome, ContentOf, After
      <3> QED
        BY <3>1, <3>2
    <2> QED
      BY <1>1, <2>3, Finishes
  <1>3. CASE ~Gives(call)
    <2>1. Given = Empty /\ \A o \in Objects : Moved(o) = before[o]
      <3>1. call.op = "move" => call.src \in Objects /\ call.src \notin Refs
        BY <1>1, OptionalAssumption DEF IInv, Types, TypeOK, CallInv
      <3> QED
        BY <1>1, <1>3, <3>1, GivenIsEmpty, NothingMoves
    <2>2. /\ storage' = [storage EXCEPT ![call.dst] = Empty]
          /\ ~set'[call.dst] /\ \A o \in Objects \ {call.dst} : set'[o] = set[o]
      BY <1>1, <1>3 DEF Create
    <2>3. ASSUME NEW o \in Objects PROVE ContentOf(o)' = Outcome(o)
      BY <1>1, <2>1, <2>2 DEF Outcome, Kept, ContentOf, SideOf, Empty
    <2> QED
      BY <1>1, <2>3, Finishes
  <1> QED
    BY <1>2, <1>3

LEMMA AssignRefines == ASSUME IInv, CallEffect, Assign PROVE Promise!Finish
  <1>1. /\ pc = "assign" /\ ~AtRest /\ Returns /\ storage \in [Objects -> Memory] /\ Gives(call)
        /\ call.dst \in Objects /\ call.dst \in alive /\ set[call.dst]
        /\ UNCHANGED <<alive, set>>
    BY Participants DEF Assign, Leave, Returns, AtRest, IInv, Types, TypeOK, CallInv, PassInv
  <1>2. Kept({}) /\ Given = Full(Incoming) /\ RvalueDonor \subseteq alive /\ call.op # "swap"
    BY <1>1, EntryReads
  <1>3. /\ storage' = [AfterRead EXCEPT ![call.dst].val = Incoming]
        /\ DOMAIN AfterRead = Objects /\ AfterRead[call.dst] \in Memory
    BY <1>1, ReadKeepsSides DEF Assign
  <1>4. ASSUME NEW o \in Objects PROVE ContentOf(o)' = Outcome(o)
    <2>1. CASE o = call.dst
      BY <1>1, <1>2, <1>3, <2>1 DEF Outcome, ContentOf, SideOf, Full, Memory
    <2>2. CASE o # call.dst
      <3>1. After(o) = Moved(o)
        BY <1>1, <1>2, <1>3, <2>2, ReadLeavesMoved DEF Kept
      <3> QED
        BY <1>1, <1>2, <2>2, <3>1 DEF Outcome, ContentOf, After
    <2> QED
      BY <2>1, <2>2
  <1> QED
    BY <1>1, <1>4, Finishes

LEMMA SwapValuesRefines == ASSUME IInv, CallEffect, SwapValues PROVE Promise!Finish
  <1>1. /\ ~AtRest /\ Returns /\ Kept({}) /\ storage \in [Objects -> Memory]
        /\ call.dst \in Objects /\ call.dst \in alive /\ set[call.dst]
        /\ call.src \in Objects /\ call.src \in alive /\ set[call.src]
        /\ call.op = "swap" /\ UNCHANGED <<alive, set>>
    BY Participants
       DEF SwapValues, Leave, Returns, AtRest, IInv, Types, TypeOK, CallInv, PassInv, CallEffect,
           EntryEffect, Emplacing
  <1>2. /\ storage'[call.dst].val = storage[call.src].val
        /\ storage'[call.src].val = storage[call.dst].val
        /\ \A o \in Objects \ {call.dst, call.src} : storage'[o] = storage[o]
    BY <1>1 DEF SwapValues, Memory
  <1>3. /\ before[call.dst] = Full(storage[call.dst].val)
        /\ before[call.src] = Full(storage[call.src].val)
    BY <1>1 DEF Kept, ContentOf, SideOf, Full
  <1>4. ASSUME NEW o \in Objects PROVE ContentOf(o)' = Outcome(o)
    <2>1. CASE o \in {call.dst, call.src}
      BY <1>1, <1>2, <1>3, <2>1 DEF Outcome, ContentOf, SideOf, Full
    <2>2. CASE o \notin {call.dst, call.src}
      BY <1>1, <1>2, <2>2 DEF Outcome, Kept, ContentOf
    <2> QED
      BY <2>1, <2>2
  <1> QED
    BY <1>1, <1>4, Finishes

\* Nothing to do: there is no value on either side of the call.
LEMMA KeepRefines == ASSUME IInv, CallEffect, Keep PROVE Promise!Finish
  <1>1. /\ ~AtRest /\ Returns /\ Kept({}) /\ BeforeInv
        /\ call.dst \in Objects /\ call.dst \in alive /\ ~set[call.dst]
        /\ call.op # "emplace" /\ (call.op # "swap" => ~Gives(call))
        /\ call.op = "swap" => call.src \in Objects /\ call.src \in alive /\ ~set[call.src]
        /\ UNCHANGED <<alive, set, storage>>
    BY Participants
       DEF Keep, Leave, Returns, AtRest, IInv, Types, TypeOK, CallInv, CallEffect, EntryEffect, Emplacing
  <1>2. \A o \in Objects : o \in alive /\ ~set[o] => before[o] = Empty
    <2>1. ASSUME NEW o \in Objects, o \in alive, ~set[o] PROVE before[o] = Empty
      <3>1. before[o] = [side |-> "empty", val |-> storage[o].val]
        BY <1>1, <2>1 DEF Kept, ContentOf, SideOf
      <3>2. before[o].val = Hollow
        BY <1>1, <3>1 DEF BeforeInv
      <3> QED
        BY <3>1, <3>2 DEF Empty
    <2> QED
      BY <2>1
  <1>3. \A o \in Objects : ContentOf(o)' = before[o]
    BY <1>1 DEF Kept, ContentOf
  <1>4. CASE call.op = "swap"
    <2>1. ASSUME NEW o \in Objects PROVE ContentOf(o)' = Outcome(o)
      BY <1>1, <1>2, <1>3, <1>4 DEF Outcome
    <2> QED
      BY <1>1, <2>1, Finishes
  <1>5. CASE call.op # "swap"
    <2>1. Given = Empty /\ \A o \in Objects : Moved(o) = before[o]
      <3>1. call.op = "move" => call.src \in Objects /\ call.src \notin Refs
        BY <1>1, OptionalAssumption DEF IInv, Types, TypeOK, CallInv
      <3> QED
        BY <1>1, <1>5, <3>1, GivenIsEmpty, NothingMoves
    <2>2. ASSUME NEW o \in Objects PROVE ContentOf(o)' = Outcome(o)
      BY <1>1, <1>2, <1>3, <1>5, <2>1 DEF Outcome
    <2> QED
      BY <1>1, <2>2, Finishes
  <1> QED
    BY <1>4, <1>5

LEMMA SetFlagRefines ==
  ASSUME IInv, CallEffect, SetFlag, call.op # "swap"
  PROVE  Promise!Finish
  <1>1. /\ pc \in GainSteps /\ Returns /\ MovedBut({Gainer}) /\ Given = Full(storage[Gainer].val)
        /\ set' = [set EXCEPT ![Gainer] = TRUE] /\ set \in [Objects -> BOOLEAN]
        /\ Gainer = call.dst /\ UNCHANGED <<alive, storage>>
    BY DEF SetFlag, Leave, Returns, GainSteps, CallEffect, GainEffect, IInv, Types, TypeOK, Gainer
  <1>2. ~AtRest /\ Gainer \in Objects /\ Gainer \in alive
    BY <1>1, AtGain
  <1>3. ASSUME NEW o \in Objects PROVE ContentOf(o)' = Outcome(o)
    <2>1. CASE o = Gainer
      BY <1>1, <1>2, <2>1 DEF Outcome, ContentOf, SideOf, Full
    <2>2. CASE o # Gainer
      BY <1>1, <2>2 DEF Outcome, MovedBut, ContentOf
    <2> QED
      BY <2>1, <2>2
  <1> QED
    BY <1>1, <1>2, <1>3, Finishes

LEMMA ClearFlagRefines ==
  ASSUME IInv, EffectInv, ClearFlag, call.op # "emplace"
  PROVE  Promise!Finish
  <1>1. /\ pc \in LoseSteps /\ pc = "clearFlag" /\ Returns /\ BeforeInv
        /\ set' = [set EXCEPT ![Loser] = FALSE] /\ set \in [Objects -> BOOLEAN]
        /\ UNCHANGED <<alive, storage>>
    BY DEF ClearFlag, Leave, Returns, LoseSteps, EffectInv, CallEffect, IInv, Types, TypeOK
  <1>2. ~AtRest /\ Loser \in Objects /\ Loser \in alive
    BY <1>1, AtLose
  <1>3. [side |-> "empty", val |-> storage[Loser].val] = Empty
    <2>1. storage[Loser].side = "empty"
      BY <1>1 DEF IInv, PassInv
    <2> QED
      BY <1>2, <2>1 DEF EffectInv, EmptyInv, Empty
  <1>4. ASSUME NEW o \in Objects, o = Loser PROVE ContentOf(o)' = Empty
    BY <1>1, <1>2, <1>3, <1>4 DEF ContentOf, SideOf
  <1>5. \A o \in Objects \ {Loser} : ContentOf(o)' = ContentOf(o)
    BY <1>1 DEF ContentOf
  <1>6. CASE call.op = "swap"
    <2>1. /\ Gainer # Loser /\ Kept({Gainer, Loser}) /\ set[Gainer]
          /\ before[Loser] = Full(storage[Gainer].val) /\ before[Gainer] = Empty
      BY <1>1, <1>6 DEF EffectInv, CallEffect, LoseEffect
    <2>2. {Gainer, Loser} = {call.dst, call.src} /\ Gainer \in Objects /\ Gainer \in alive
      <3>1. Gainer \in Objects /\ before[Gainer].side = "empty"
        BY <1>2, <2>1, Participants DEF Empty
      <3>2. Gainer \in alive
        BY <1>1, <1>2, <3>1 DEF BeforeInv
      <3>3. {Gainer, Loser} = {call.dst, call.src}
        BY <2>1 DEF Gainer, Loser
      <3> QED
        BY <3>1, <3>2, <3>3
    <2>3. Outcome(Gainer) = before[Loser] /\ Outcome(Loser) = Empty
      BY <1>6, <2>1, <2>2 DEF Outcome
    <2>4. ASSUME NEW o \in Objects PROVE ContentOf(o)' = Outcome(o)
      <3>1. CASE o = Gainer
        BY <1>1, <2>1, <2>2, <2>3, <3>1 DEF ContentOf, SideOf, Full
      <3>2. CASE o = Loser
        BY <1>4, <2>3, <3>2
      <3>3. CASE o \notin {Gainer, Loser}
        BY <1>5, <1>6, <2>1, <2>2, <3>3 DEF Outcome, Kept
      <3> QED
        BY <3>1, <3>2, <3>3
    <2> QED
      BY <1>1, <1>2, <2>4, Finishes
  <1>7. CASE call.op # "swap"
    <2>1. Kept({Loser}) /\ Given = Empty /\ Loser = call.dst
      BY <1>1, <1>7 DEF EffectInv, CallEffect, LoseEffect, Loser
    <2>2. \A o \in Objects : Moved(o) = before[o]
      <3>1. call.op = "move" => call.src \in Objects /\ call.src \notin Refs
        BY <1>2, OptionalAssumption DEF IInv, Types, TypeOK, CallInv
      <3> QED
        BY <1>7, <2>1, <3>1, NothingMoves
    <2>3. ASSUME NEW o \in Objects PROVE ContentOf(o)' = Outcome(o)
      BY <1>4, <1>5, <1>7, <2>1, <2>2 DEF Outcome, Kept
    <2> QED
      BY <1>1, <1>2, <2>3, Finishes
  <1> QED
    BY <1>6, <1>7

(***************************************************************************)
(* The steps that throw to the caller.                                     *)
(***************************************************************************)
Throws == pc' = "return" /\ result' = "threw" /\ Inside /\ set' = set

\* Only a call that makes or assigns a T has something to throw.
LEMMA ThrowableIs ==
  ASSUME IInv, BeforeInv, ~AtRest, call.op # "reset",
         ~call.nothrow \/ (call.dst \in alive /\ ~call.assign),
         IF call.op = "swap" THEN before[call.dst].side = "value" \/ before[call.src].side = "value"
         ELSE Given.side = "value"
  PROVE  Promise!Throwable(call)
  <1>1. Promise!Alive(call.dst) <=> call.dst \in alive
    <2>1. call.dst \in Objects
      BY Participants
    <2>2. before[call.dst] # Unborn <=> before[call.dst].side # "none"
      BY <2>1 DEF BeforeInv, Unborn, IInv, Types, TypeOK, Memory
    <2> QED
      BY <2>1, <2>2, SameCalls DEF Promise!Alive, BeforeInv
  <1>2. ~Promise!Noexcept(call, Promise!Alive(call.dst))
    <2>1. ~Noexcept(call, Promise!Alive(call.dst))
      BY <1>1 DEF Noexcept
    <2> QED
      BY <2>1, SameCalls, Zenon
  <1>3. call.op \in Reading \ {"swap"} => Promise!Source(call).side = "value"
    BY SameSource DEF Given, Reading
  <1>4. call.op = "swap" => Promise!Engaged(call.dst) \/ Promise!Engaged(call.src)
    BY DEF Promise!Engaged
  <1> QED
    BY <1>2, <1>3, <1>4, SameCalls DEF Promise!Throwable

LEMMA FailsAs ==
  ASSUME IInv, ~AtRest, Throws, Promise!Throwable(call), NEW R,
         ~profile.strong => R \subseteq Promise!Spoilable(call),
         \A o \in Objects : IF call.op = "emplace" /\ o = call.dst THEN After(o) = Empty
                            ELSE After(o) = before[o] \/ SpoiledIn(After(o), o, R)
  PROVE  Promise!Fail
  <1> DEFINE target(o) == call.op = "emplace" /\ o = call.dst
             spoiled == {o \in Objects : ~target(o) /\ After(o) # before[o]}
             outcome == [o \in Objects |-> IF target(o) THEN Empty
                                           ELSE IF o \in spoiled THEN HollowOut(before[o]) ELSE before[o]]
  <1>1. spoiled \in SUBSET Promise!Spoilable(call)
    BY DEF SpoiledIn
  <1>2. \A o \in Objects : ContentOf(o)' = After(o)
    BY InsideKeeps DEF Throws
  <1>3. [o \in Objects |-> ContentOf(o)]' = outcome
    BY <1>2 DEF SpoiledIn
  <1>4. /\ (IF AtRest THEN pc ELSE "busy") = "busy" /\ AtRest'
        /\ (IF AtRest THEN [o \in Objects |-> ContentOf(o)] ELSE before) = before
    BY DEF AtRest, Throws
  <1> QED
    BY <1>1, <1>3, <1>4, SameCalls DEF Promise!Fail, Throws, Inside

\* What a throwing operation may spoil.
LEMMA MaySpoil ==
  ASSUME IInv, ~AtRest, ~profile.strong
  PROVE  /\ RvalueDonor \subseteq Promise!Spoilable(call)
         /\ call.op # "emplace" => {call.dst} \subseteq Promise!Spoilable(call)
         /\ call.op = "swap" => {call.dst, call.src} \subseteq Promise!Spoilable(call)
  <1>1. call.op = "move" => call.src \notin Refs
    BY OptionalAssumption DEF IInv, Types, TypeOK, CallInv
  <1>2. RvalueDonor \subseteq IF call.op \in {"move", "swap"} THEN {call.dst, call.src} ELSE {}
    BY <1>1 DEF RvalueDonor, Donor, Loser
  <1> QED
    BY <1>2 DEF Promise!Spoilable

LEMMA CreateThrowsRefines == ASSUME IInv, CallEffect, CreateThrows PROVE Promise!Fail
  <1>1. /\ pc = "create" /\ ~AtRest /\ Throws /\ storage \in [Objects -> Memory] /\ Gives(call)
        /\ ~call.nothrow /\ storage' \in Spoil(RvalueDonor) /\ BeforeInv
    BY DEF CreateThrows, Leave, Throws, Inside, AtRest, IInv, Types, TypeOK, CallEffect
  <1>2. Kept({}) /\ Given.side = "value" /\ call.op \notin {"swap", "emplace", "reset"}
    BY <1>1, EntryReads DEF Full
  <1>3. \A o \in Objects : After(o) = before[o] \/ SpoiledIn(After(o), o, RvalueDonor)
    BY <1>1, <1>2, SpoilLeavesHollow DEF Kept
  <1>4. Promise!Throwable(call)
    BY <1>1, <1>2, ThrowableIs
  <1> QED
    BY <1>1, <1>2, <1>3, <1>4, MaySpoil, FailsAs

LEMMA AssignThrowsRefines == ASSUME IInv, CallEffect, AssignThrows PROVE Promise!Fail
  <1> DEFINE R == {call.dst} \cup RvalueDonor
  <1>1. /\ pc = "assign" /\ ~AtRest /\ Throws /\ storage \in [Objects -> Memory] /\ Gives(call)
        /\ call.dst \in alive /\ ~call.assign /\ storage' \in Spoil(R) /\ BeforeInv
    BY DEF AssignThrows, Leave, Throws, Inside, AtRest, IInv, Types, TypeOK, CallInv, PassInv, CallEffect
  <1>2. Kept({}) /\ Given.side = "value" /\ call.op \notin {"swap", "emplace", "reset"}
    BY <1>1, EntryReads DEF Full
  <1>3. \A o \in Objects : After(o) = before[o] \/ SpoiledIn(After(o), o, R)
    BY <1>1, <1>2, SpoilLeavesHollow DEF Kept
  <1>4. Promise!Throwable(call)
    BY <1>1, <1>2, ThrowableIs
  <1>5. ~profile.strong => R \subseteq Promise!Spoilable(call)
    BY <1>1, <1>2, MaySpoil
  <1> QED
    BY <1>1, <1>2, <1>3, <1>4, <1>5, FailsAs

LEMMA SwapValuesThrowsRefines == ASSUME IInv, CallEffect, SwapValuesThrows PROVE Promise!Fail
  <1> DEFINE R == {call.dst, call.src}
  <1>1. /\ ~AtRest /\ Throws /\ Kept({}) /\ storage \in [Objects -> Memory] /\ call.op = "swap"
        /\ call.dst \in Objects /\ call.dst \in alive /\ set[call.dst]
        /\ ~call.assign /\ storage' \in Spoil(R) /\ BeforeInv
    BY Participants
       DEF SwapValuesThrows, Leave, Throws, Inside, AtRest, IInv, Types, TypeOK, CallInv, PassInv,
           CallEffect, EntryEffect, Emplacing
  <1>2. \A o \in Objects : After(o) = before[o] \/ SpoiledIn(After(o), o, R)
    BY <1>1, SpoilLeavesHollow DEF Kept
  <1>3. before[call.dst].side = "value"
    <2>1. before[call.dst] = Full(storage[call.dst].val)
      BY <1>1 DEF Kept, ContentOf, SideOf, Full
    <2> QED
      BY <2>1 DEF Full
  <1>4. Promise!Throwable(call)
    BY <1>1, <1>3, ThrowableIs
  <1>5. ~profile.strong => R \subseteq Promise!Spoilable(call)
    BY <1>1, MaySpoil
  <1> QED
    BY <1>1, <1>2, <1>4, <1>5, FailsAs

\* The handler has put the placeholder back and throws on.
LEMMA RestoreRefines == ASSUME IInv, CallEffect, Restore PROVE Promise!Fail
  <1>1. /\ pc \in GainSteps /\ Throws /\ storage \in [Objects -> Memory] /\ BeforeInv
        /\ KeptOrSpoiled({Gainer}, RvalueDonor) /\ Given.side = "value"
        /\ ~call.nothrow /\ call.op # "reset" /\ (call.op # "emplace" => before[Gainer] = Empty)
        /\ storage' = [storage EXCEPT ![Gainer] = Empty]
    BY DEF Restore, Leave, Throws, Inside, GainSteps, CallEffect, GainEffect, IInv, Types, TypeOK
  <1>2. ~AtRest /\ Gainer \in Objects /\ Gainer \in alive /\ ~set[Gainer]
    BY <1>1, AtGain
  <1>3. After(Gainer) = Empty /\ \A o \in Objects \ {Gainer} : After(o) = ContentOf(o)
    BY <1>1, <1>2 DEF After, ContentOf, SideOf, Empty
  <1>4. call.op = "emplace" => Gainer = call.dst
    BY DEF Gainer
  <1>5. \A o \in Objects : IF call.op = "emplace" /\ o = call.dst THEN After(o) = Empty
                           ELSE After(o) = before[o] \/ SpoiledIn(After(o), o, RvalueDonor)
    BY <1>1, <1>3, <1>4 DEF KeptOrSpoiled
  <1>6. Promise!Throwable(call)
    <2>1. call.op = "swap" => before[call.dst].side = "value" \/ before[call.src].side = "value"
      BY <1>1 DEF Given, Loser
    <2> QED
      BY <1>1, <1>2, <2>1, ThrowableIs
  <1> QED
    BY <1>1, <1>2, <1>5, <1>6, MaySpoil, FailsAs

(***************************************************************************)
(* The rest.                                                               *)
(***************************************************************************)
\* Inside a call nothing is to be seen.
LEMMA InsideIsHidden ==
  ASSUME ~AtRest, ~AtRest', UNCHANGED <<profile, refs, call, before, result>>
  PROVE  UNCHANGED Promise!vars
  BY DEF Promise!vars

\* Between calls the user sees the objects as they are.
LEMMA SeenAtRest ==
  ASSUME Types, AtRest
  PROVE  \A o \in Objects : /\ Promise!Alive(o) <=> o \in alive
                            /\ Promise!Engaged(o) <=> set[o]
  BY SameCalls DEF Promise!Alive, Promise!Engaged, ContentOf, SideOf, Unborn, Types, TypeOK

LEMMA BeginRefines == ASSUME IInv, EmptyInv, Begin PROVE Promise!Begin
  <1>1. PICK c \in CallType : MayCall(profile, c, c.dst \in alive, Readable(c.src)) /\ call' = c
    BY DEF Begin
  <1>2. /\ AtRest /\ pc = "idle" /\ ~AtRest' /\ UNCHANGED <<profile, refs, result>>
        /\ before' = [o \in Objects |-> ContentOf(o)]
    BY BeginEnters DEF Begin, AtRest, Goto
  <1>3. /\ c.dst \in Objects /\ c.src \in Objects \cup Refs /\ Types
        /\ refs \in [Refs -> Objects \cup {"null"}]
    BY DEF CallType, IInv, Types, TypeOK
  <1>4. (Promise!Alive(c.dst) <=> c.dst \in alive) /\ (Promise!Readable(c) <=> Readable(c.src))
    BY <1>2, <1>3, SeenAtRest DEF Promise!Readable, Readable
  <1>5. Promise!MayCall(profile, c, Promise!Alive(c.dst), Promise!Readable(c))
    <2>1. MayCall(profile, c, Promise!Alive(c.dst), Promise!Readable(c))
      BY <1>1, <1>4 DEF MayCall
    <2> QED
      BY <2>1, SameCalls, Zenon
  <1> QED
    BY <1>1, <1>2, <1>5, SameCalls DEF Promise!Begin

LEMMA RefStepRefines == ASSUME IInv, RefStep PROVE Promise!Rebind
  <1>1. AtRest /\ AtRest' /\ pc = "idle" /\ Types
        /\ UNCHANGED <<profile, alive, storage, set, call, pc, result>>
    BY DEF RefStep, RefBind, RefAssign, RefSwap, RefReset, AtRest, IInv
  <1>2. \A o \in Objects : ContentOf(o)' = ContentOf(o)
    BY <1>1 DEF ContentOf
  <1>3. \A o \in Objects : (Promise!Alive(o) <=> o \in alive) /\ (Promise!Engaged(o) <=> set[o])
    BY <1>1, SeenAtRest
  <1>4. PICK r \in Refs : \/ \E o \in Objects : RefBind(r, o)
                          \/ \E q \in Refs : RefAssign(r, q) \/ RefSwap(r, q)
                          \/ RefReset(r)
    BY DEF RefStep
  <1>5. \/ \E o \in Objects : /\ Promise!Alive(o)
                              /\ refs' = [refs EXCEPT ![r] = IF Promise!Engaged(o) THEN o ELSE "null"]
        \/ \E q \in Refs : refs' = [refs EXCEPT ![r] = refs[q]]
        \/ \E q \in Refs : refs' = [refs EXCEPT ![r] = refs[q], ![q] = refs[r]]
        \/ refs' = [refs EXCEPT ![r] = "null"]
    BY <1>3, <1>4 DEF RefBind, RefAssign, RefSwap, RefReset
  <1> QED
    BY <1>1, <1>2, <1>5 DEF Promise!Rebind

LEMMA RestRefines ==
  ASSUME IInv, Return \/ \E o \in Objects : Destruct(o)
  PROVE  Promise!Next
  <1>1. CASE Return
    <2>1. AtRest /\ AtRest' /\ \A o \in Objects : ContentOf(o)' = ContentOf(o)
      BY <1>1 DEF Return, AtRest, ContentOf
    <2> QED
      BY <1>1, <2>1 DEF Return, Promise!Next, Promise!Return, Promise!NoCall, NoCall
  <1>2. ASSUME NEW d \in Objects, Destruct(d) PROVE Promise!Destruct(d)
    <2>1. AtRest /\ AtRest' /\ d \in alive
      BY <1>2 DEF Destruct, AtRest
    <2>2. Promise!Alive(d)
      BY <2>1, SeenAtRest DEF IInv
    <2>3. ASSUME NEW o \in Objects PROVE ContentOf(o)' = IF o = d THEN Unborn ELSE ContentOf(o)
      BY <1>2 DEF Destruct, ContentOf
    <2> QED
      BY <1>2, <2>1, <2>2, <2>3, SameCalls DEF Destruct, Promise!Destruct
  <1> QED
    BY <1>1, <1>2 DEF Promise!Next

LEMMA InitRefines == Init => Promise!Init
  BY SameCalls DEF Init, Promise!Init, Promise!NoCall, NoCall, AtRest, ContentOf

LEMMA NextRefines ==
  ASSUME IInv, EffectInv, [Next]_vars
  PROVE  [Promise!Next]_(Promise!vars)
  <1>1. EmptyInv /\ CallEffect
    BY DEF EffectInv
  <1>2. CASE \/ Create \/ Assign \/ SwapValues \/ Keep \/ (SetFlag /\ call.op # "swap")
             \/ (ClearFlag /\ call.op # "emplace")
    BY <1>1, <1>2, CreateRefines, AssignRefines, SwapValuesRefines, KeepRefines, SetFlagRefines,
       ClearFlagRefines
       DEF Promise!Next
  <1>3. CASE CreateThrows \/ AssignThrows \/ SwapValuesThrows \/ Restore
    BY <1>1, <1>3, CreateThrowsRefines, AssignThrowsRefines, SwapValuesThrowsRefines, RestoreRefines
       DEF Promise!Next
  <1>4. CASE \/ ClearPlaceholder \/ Construct \/ ConstructThrows \/ DestroyValue
             \/ ConstructPlaceholder \/ (SetFlag /\ call.op = "swap")
             \/ (ClearFlag /\ call.op = "emplace")
    <2>1. ~AtRest /\ ~AtRest' /\ UNCHANGED <<profile, refs, call, before, result>>
      BY <1>4
         DEF ClearPlaceholder, Construct, ConstructThrows, DestroyValue, ConstructPlaceholder, SetFlag,
             ClearFlag, Goto, AtRest
    <2> QED
      BY <2>1, InsideIsHidden
  <1>5. CASE Begin
    BY <1>1, <1>5, BeginRefines DEF Promise!Next
  <1>6. CASE RefStep
    BY <1>6, RefStepRefines DEF Promise!Next
  <1>7. CASE Return \/ \E o \in Objects : Destruct(o)
    BY <1>7, RestRefines
  <1>8. CASE UNCHANGED vars
    BY <1>8 DEF vars, Promise!vars, AtRest, ContentOf
  <1> QED
    BY <1>2, <1>3, <1>4, <1>5, <1>6, <1>7, <1>8 DEF Next, Step

\* Every run of the storage machine is, step for step, a run of the abstract
\* optional: a gain or a loss of a value is seen whole or not at all, an emplace
\* that throws leaves its target empty and any other call leaves every object as
\* engaged as it was, and an optional<T&> never writes what it refers to - for
\* any objects, references, payloads and types.
THEOREM StorageImplementsOptional == Spec => ImplementsOptional
<1>1. IInv /\ EffectInv /\ [Next]_vars => EffectInv'
  BY EffectStep
<1>2. IInv /\ EffectInv /\ [Next]_vars => [Promise!Next]_(Promise!vars)
  BY NextRefines
<1> QED
  BY <1>1, <1>2, EffectInit, InitRefines, Invariant, PTL DEF Spec, ImplementsOptional, Promise!Safety

=============================================================================
