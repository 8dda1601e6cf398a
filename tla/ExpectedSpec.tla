---------------------------- MODULE ExpectedSpec ----------------------------
(***************************************************************************)
(* What pfn::expected promises its users, with no word about storage: an   *)
(* object is a value or an error, a call takes effect at once or throws,   *)
(* a call declared noexcept does not throw, and a call that throws leaves  *)
(* every object on the side it was on and, but for the payloads the user's *)
(* own operations may spoil, with the content it had.                      *)
(***************************************************************************)
EXTENDS ExpectedCalls

VARIABLES profile,  \* the traits of T and E
          obj,      \* what each object is
          phase,    \* "idle", "busy" in a call, or "return" from one
          call,     \* the call in progress
          result    \* how it ended: "none", "ok" or "threw"

vars == <<profile, obj, phase, call, result>>

NoCall == [op |-> "none"]
Alive(o) == obj[o] # Unborn

Init == /\ profile \in Profiles
        /\ obj = [o \in Objects |-> Unborn]
        /\ phase = "idle" /\ call = NoCall /\ result = "none"

Begin == /\ phase = "idle"
         /\ \E c \in CallType : /\ MayCall(profile, c, Alive(c.dst), Alive(c.src))
                                /\ call' = c
         /\ phase' = "busy"
         /\ UNCHANGED <<profile, obj, result>>

\* The objects after a call that does not throw.
Effect(c) ==
    CASE c.op = "copy" -> [obj EXCEPT ![c.dst] = obj[c.src]]
      [] c.op = "move" -> [obj EXCEPT ![c.dst] = obj[c.src], ![c.src] = HollowOut(obj[c.src])]
      [] c.op = "swap" -> [obj EXCEPT ![c.dst] = obj[c.src], ![c.src] = obj[c.dst]]
      [] OTHER -> [obj EXCEPT ![c.dst] = [side |-> Target(c, "value"), val |-> c.val]]

Finish == /\ phase = "busy"
          /\ obj' = Effect(call)
          /\ phase' = "return" /\ result' = "ok"
          /\ UNCHANGED <<profile, call>>

\* The objects whose payload a throwing operation of T or E may have spoiled:
\* the source of a move, and the target of an assignment within one side,
\* which is T's or E's own assignment operator.
Spoilable(c) ==
    IF profile.strong THEN {}
    ELSE CASE c.op = "swap" -> {c.dst, c.src}
           [] c.op = "emplace" -> {}
           [] OTHER -> (IF c.op = "move" THEN {c.src} ELSE {})
                       \cup (IF obj[c.dst].side = Target(c, obj[c.src].side) THEN {c.dst} ELSE {})

Fail == /\ phase = "busy"
        /\ ~Noexcept(call, Alive(call.dst))
        /\ \E spoiled \in SUBSET Spoilable(call) :
              obj' = [o \in Objects |-> IF o \in spoiled THEN HollowOut(obj[o]) ELSE obj[o]]
        /\ phase' = "return" /\ result' = "threw"
        /\ UNCHANGED <<profile, call>>

Return == /\ phase = "return"
          /\ phase' = "idle" /\ call' = NoCall /\ result' = "none"
          /\ UNCHANGED <<profile, obj>>

\* The end of an object's lifetime.
Destruct(o) == /\ phase = "idle" /\ Alive(o)
               /\ obj' = [obj EXCEPT ![o] = Unborn]
               /\ UNCHANGED <<profile, phase, call, result>>

Next == Begin \/ Finish \/ Fail \/ Return \/ \E o \in Objects : Destruct(o)

Spec == Init /\ [][Next]_vars
=============================================================================
