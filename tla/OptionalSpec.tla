---------------------------- MODULE OptionalSpec ----------------------------
(***************************************************************************)
(* What pfn::optional promises, with no word about storage: an object      *)
(* holds a value or is empty, a call takes effect at once or throws, and a *)
(* call that throws leaves every object as engaged as it was, but for      *)
(* emplace, which leaves its target empty.  An optional<T&> is rebound by  *)
(* assignment and never writes the value it refers to.                     *)
(***************************************************************************)
EXTENDS OptionalCalls

VARIABLES profile,  \* the traits of T
          obj,      \* what each optional<T> is
          refs,     \* the object whose value each optional<T&> refers to, or "null"
          phase,    \* "idle", "busy" in a call, or "return" from one
          call,     \* the call in progress
          result    \* how it ended: "none", "ok" or "threw"

vars == <<profile, obj, refs, phase, call, result>>

NoCall == [op |-> "none"]
Alive(o) == obj[o] # Unborn
Engaged(o) == obj[o].side = "value"

\* What the argument of the call is seen as.
Source(c) == IF c.src \in Objects THEN obj[c.src]
             ELSE IF refs[c.src] = "null" THEN Empty ELSE obj[refs[c.src]]
Readable(c) == IF c.src \in Objects THEN Alive(c.src)
               ELSE refs[c.src] # "null" => Engaged(refs[c.src])

Init == /\ profile \in Profiles
        /\ obj = [o \in Objects |-> Unborn]
        /\ refs = [r \in Refs |-> "null"]
        /\ phase = "idle" /\ call = NoCall /\ result = "none"

Begin == /\ phase = "idle"
         /\ \E c \in CallType : /\ MayCall(profile, c, Alive(c.dst), Readable(c))
                                /\ call' = c
         /\ phase' = "busy"
         /\ UNCHANGED <<profile, obj, refs, result>>

\* The objects after a call that does not throw.  An rvalue optional<T&> still
\* hands out an lvalue: only "move" and "swap" empty what they read.
Effect(c) ==
    CASE c.op \in {"copy", "fromRef"} -> [obj EXCEPT ![c.dst] = Source(c)]
      [] c.op = "move" -> [obj EXCEPT ![c.dst] = Source(c), ![c.src] = HollowOut(Source(c))]
      [] c.op = "swap" -> [obj EXCEPT ![c.dst] = obj[c.src], ![c.src] = obj[c.dst]]
      [] c.op = "reset" -> [obj EXCEPT ![c.dst] = Empty]
      [] OTHER -> [obj EXCEPT ![c.dst] = Full(c.val)]

Finish == /\ phase = "busy"
          /\ obj' = Effect(call)
          /\ phase' = "return" /\ result' = "ok"
          /\ UNCHANGED <<profile, refs, call>>

\* A call that neither makes nor assigns a T has nothing to throw.
Throwable(c) == /\ ~Noexcept(c, Alive(c.dst))
                /\ c.op = "swap" => Engaged(c.dst) \/ Engaged(c.src)
                /\ c.op \in Reading \ {"swap"} => Source(c).side = "value"

\* The objects whose payload a throwing operation of T may have spoiled.
Spoilable(c) == IF profile.strong \/ c.op = "emplace" THEN {}
                ELSE {c.dst} \cup (IF c.op \in {"move", "swap"} THEN {c.src} ELSE {})

Fail == /\ phase = "busy" /\ Throwable(call)
        /\ \E spoiled \in SUBSET Spoilable(call) :
              obj' = [o \in Objects |->
                        IF call.op = "emplace" /\ o = call.dst THEN Empty
                        ELSE IF o \in spoiled THEN HollowOut(obj[o]) ELSE obj[o]]
        /\ phase' = "return" /\ result' = "threw"
        /\ UNCHANGED <<profile, refs, call>>

Return == /\ phase = "return"
          /\ phase' = "idle" /\ call' = NoCall /\ result' = "none"
          /\ UNCHANGED <<profile, obj, refs>>

Destruct(o) == /\ phase = "idle" /\ Alive(o)
               /\ obj' = [obj EXCEPT ![o] = Unborn]
               /\ UNCHANGED <<profile, refs, phase, call, result>>

\* r = o, r = q, swap(r, q) and r.reset() of optional<T&> r, q and optional<T> o.
Rebind == /\ phase = "idle"
          /\ \E r \in Refs :
                \/ \E o \in Objects : /\ Alive(o)
                                      /\ refs' = [refs EXCEPT ![r] = IF Engaged(o) THEN o ELSE "null"]
                \/ \E q \in Refs : refs' = [refs EXCEPT ![r] = refs[q]]
                \/ \E q \in Refs : refs' = [refs EXCEPT ![r] = refs[q], ![q] = refs[r]]
                \/ refs' = [refs EXCEPT ![r] = "null"]
          /\ UNCHANGED <<profile, obj, phase, call, result>>

Next == Begin \/ Finish \/ Fail \/ Return \/ Rebind \/ \E o \in Objects : Destruct(o)

Safety == Init /\ [][Next]_vars

\* A call runs to its end: single-threaded code, nothing to wait for.
Spec == Safety /\ WF_vars(Finish \/ Fail) /\ WF_vars(Return)
=============================================================================
