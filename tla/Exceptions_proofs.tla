------------------------- MODULE Exceptions_proofs --------------------------
(***************************************************************************)
(* The noexcept clauses of the verbs and of the comparisons, for any       *)
(* payload types and any callbacks.  They are honest: every sequence of    *)
(* operations a body may run consists of operations its clause weighs.     *)
(* And they are exact: every operation weighed is in one of those          *)
(* sequences.  Both go by one lemma for each family of verbs, and nothing  *)
(* depends on how the type of the result is computed.                      *)
(*                                                                         *)
(* Everything does in the second part, on two binds in a row.  Both forms  *)
(* unite the same types, so they have one shape.  Of carriers that may     *)
(* fail, the types of a side leave open only whether it is plain, and the  *)
(* two forms are plain together; where they are graded, a bind compiles if *)
(* the sides it acts on join, and those join whole if they join in parts.  *)
(***************************************************************************)
EXTENDS Exceptions, Carriers_proofs

(***************************************************************************)
(* Pieces of bodies.                                                       *)
(***************************************************************************)
\* A payload that is there and weighed, or the nothing of a void side.
LEMMA PayloadWeighed ==
    ASSUME NEW W, NEW op, NEW t, t # Unit => <<op, t>> \in W
    PROVE  Payload(op, t) \in Seq(W)
BY DEF Payload

LEMMA OneWeighed ==
    ASSUME NEW W, NEW o \in W
    PROVE  <<o>> \in Seq(W)
OBVIOUS

LEMMA JoinWeighed ==
    ASSUME NEW W, NEW s \in Seq(W), NEW r \in Seq(W)
    PROVE  s \o r \in Seq(W)
OBVIOUS

\* A call that is weighed, with every payload it may return.
LEMMA CallAndMoveWeighed ==
    ASSUME NEW W, NEW callback, NEW t, NEW S, <<callback, t>> \in W,
           {"move"} \X (S \ {Unit}) \subseteq W,
           NEW r \in CallAndMove(callback, t, S)
    PROVE  r \in Seq(W)
<1>1. <<<<callback, t>>>> \in Seq(W) BY OneWeighed
<1>2. CASE S = {} BY <1>1, <1>2 DEF CallAndMove
<1>3. CASE S # {}
    <2>1. PICK u \in S : r = <<<<callback, t>>>> \o Payload("move", u) BY <1>3 DEF CallAndMove
    <2>2. u # Unit => <<"move", u>> \in W OBVIOUS
    <2>3. Payload("move", u) \in Seq(W) BY <2>2, PayloadWeighed
    <2> QED BY <1>1, <2>1, <2>3, JoinWeighed
<1> QED BY <1>2, <1>3

\* A side that passes by the callback.
LEMMA CarryOverWeighed ==
    ASSUME NEW W, NEW which, Payloads(how, m[which]) \subseteq W, NEW r \in CarryOver(which)
    PROVE  r \in Seq(W)
<1>1. PICK t \in Alternatives(m[which]) : r = Payload(how, t) BY DEF CarryOver
<1>2. t # Unit => <<how, t>> \in W BY DEF Payloads
<1> QED BY <1>1, <1>2, PayloadWeighed

LEMMA EmptyWeighed == ASSUME NEW W PROVE <<>> \in Seq(W)
OBVIOUS

(***************************************************************************)
(* The families of verbs.                                                  *)
(***************************************************************************)
\* An arm that moves what the callback returned is one the traits count with: what is
\* decided for each alternative and what is decided for the types are the same.
LEMMA BroughtWeighed ==
    ASSUME NEW t \in DOMAIN f, NEW u \in Brought(t) \ {Unit}
    PROVE  <<"move", u>> \in FunctorWeighs
<1>1. ~Returned(t) /\ f[t] \in Range(f) BY DEF Brought, Range
<1>2. CASE verb \in Binds
    <2>1. u \in Alternatives(f[t].value) \cup Alternatives(f[t].error) BY <1>1, <1>2 DEF Brought
    <2>2. <<"move", u>> \in Payloads("move", f[t].value) \cup Payloads("move", f[t].error)
        BY <2>1 DEF Payloads
    <2>3. f[t] \in BindConverts
        <3>1. CASE AgreesInKind
            <4>1. Range(f) = {f[t]} /\ SameKind(f[t]) BY <1>1, <3>1 DEF AgreesInKind
            <4>2. ~Heterogeneous(f) BY <4>1 DEF Heterogeneous, Range
            <4> QED BY <1>1, <1>2, <3>1, <4>1, <4>2 DEF Returned, BindConverts
        <3>2. CASE ~AgreesInKind
            <4>1. ASSUME ~Heterogeneous(f), SameKind(f[t]) PROVE FALSE
                <5>1. Range(f) = {f[t]} BY <4>1 DEF Heterogeneous, Range
                <5> QED BY <1>1, <3>2, <4>1, <5>1 DEF AgreesInKind
            <4>2. f[t] # Result(m, f) BY <1>1, <1>2, <4>1 DEF Returned
            <4> QED BY <1>1, <3>2, <4>2 DEF BindConverts
        <3> QED BY <3>1, <3>2
    <2> QED BY <1>2, <2>2, <2>3 DEF FunctorWeighs
<1>3. CASE verb \notin Binds
    <2>1. u \in Alternatives(f[t]) BY <1>1, <1>3 DEF Brought
    <2>2. <<"move", u>> \in Payloads("move", f[t]) BY <2>1 DEF Payloads
    <2>3. f[t] \in MapConverts BY <1>1, <1>3 DEF Returned, MapConverts
    <2> QED BY <1>3, <2>2, <2>3 DEF FunctorWeighs
<1> QED BY <1>2, <1>3

LEMMA FunctorRunsWeighed ==
    ASSUME NEW r \in FunctorRuns
    PROVE  r \in Seq(FunctorWeighs)
<1> DEFINE W == FunctorWeighs
<1>1. CASE \E t \in DOMAIN f : r \in CallAndMove("call", t, Brought(t))
    <2>1. PICK t \in DOMAIN f : r \in CallAndMove("call", t, Brought(t)) BY <1>1
    <2>2. <<"call", t>> \in W BY DEF FunctorWeighs
    <2>3. {"move"} \X (Brought(t) \ {Unit}) \subseteq W BY BroughtWeighed
    <2> QED BY <2>1, <2>2, <2>3, CallAndMoveWeighed
<1>2. CASE r \in CarryOver(Bypass)
    <2>1. Payloads(how, m[Bypass]) \subseteq W BY DEF FunctorWeighs
    <2> QED BY <1>2, <2>1, CarryOverWeighed
<1> QED BY <1>1, <1>2 DEF FunctorRuns

LEMMA FilterRunsWeighed ==
    ASSUME NEW r \in FilterRuns
    PROVE  r \in Seq(FilterWeighs)
<1> DEFINE W == FilterWeighs
<1>1. CASE \E t \in Alternatives(m.value) : \E s \in Refuse(t) \cup {Payload(how, t)} : r = <<<<"call", t>>>> \o s
    <2>a. PICK t \in Alternatives(m.value) :
             \E s \in Refuse(t) \cup {Payload(how, t)} : r = <<<<"call", t>>>> \o s
        BY <1>1
    <2>1. PICK s \in Refuse(t) \cup {Payload(how, t)} : r = <<<<"call", t>>>> \o s BY <2>a
    <2>2. <<"call", t>> \in W BY DEF FilterWeighs, Calls
    <2>3. <<<<"call", t>>>> \in Seq(W) BY <2>2, OneWeighed
    <2>4. CASE s = Payload(how, t)
        <3>1. t # Unit => <<how, t>> \in W BY DEF FilterWeighs, Payloads
        <3> QED BY <2>1, <2>3, <2>4, <3>1, PayloadWeighed, JoinWeighed
    <2>5. CASE some_optional(m) /\ s \in Refuse(t)
        <3>1. s = <<>> BY <2>5 DEF Refuse
        <3> QED BY <2>1, <2>3, <3>1, EmptyWeighed, JoinWeighed
    <2>6. CASE ~some_optional(m) /\ s \in Refuse(t)
        <3>1. s \in CallAndMove("on_err", t, Alternatives(m.error)) BY <2>6 DEF Refuse
        <3>3. <<"on_err", t>> \in W BY <2>6 DEF FilterWeighs, Calls
        <3>4. {"move"} \X (Alternatives(m.error) \ {Unit}) \subseteq W
            BY <2>6 DEF FilterWeighs, Payloads
        <3>5. s \in Seq(W) BY <3>1, <3>3, <3>4, CallAndMoveWeighed
        <3> QED BY <2>1, <2>3, <3>5, JoinWeighed
    <2> QED BY <2>1, <2>4, <2>5, <2>6
<1>2. CASE r \in CarryOver("error")
    <2>1. Payloads(how, m["error"]) \subseteq W BY DEF FilterWeighs
    <2> QED BY <1>2, <2>1, CarryOverWeighed
<1> QED BY <1>1, <1>2 DEF FilterRuns

LEMMA SwitchRunsWeighed ==
    ASSUME NEW r \in SwitchRuns
    PROVE  r \in Seq(SwitchWeighs)
<1> DEFINE W == SwitchWeighs
<1>1. CASE Passes BY <1>1, EmptyWeighed DEF SwitchRuns
<1>2. CASE ~Passes /\ \E t \in Alternatives(m[ActsOn]) : r \in CallAndMove("call", t, Alternatives(m[Bypass]))
    <2>1. PICK t \in Alternatives(m[ActsOn]) : r \in CallAndMove("call", t, Alternatives(m[Bypass]))
        BY <1>2
    <2>2. <<"call", t>> \in W BY <1>2 DEF SwitchWeighs, Calls
    <2>3. {"move"} \X (Alternatives(m[Bypass]) \ {Unit}) \subseteq W BY <1>2 DEF SwitchWeighs, Payloads
    <2> QED BY <2>1, <2>2, <2>3, CallAndMoveWeighed
<1>3. CASE ~Passes /\ r \in CarryOver(Bypass)
    <2>1. Payloads(how, m[Bypass]) \subseteq W BY <1>3 DEF SwitchWeighs
    <2> QED BY <1>3, <2>1, CarryOverWeighed
<1> QED BY <1>1, <1>2, <1>3 DEF SwitchRuns

LEMMA InspectRunsWeighed ==
    ASSUME NEW r \in InspectRuns
    PROVE  r \in Seq(InspectWeighs)
BY OneWeighed, EmptyWeighed DEF InspectRuns, InspectWeighs

LEMMA ValueOrRunsWeighed ==
    ASSUME NEW r \in ValueOrRuns
    PROVE  r \in Seq(ValueOrWeighs)
<1> DEFINE W == ValueOrWeighs
<1>1. CASE r \in CarryOver("value")
    <2>1. Payloads(how, m["value"]) \subseteq W BY DEF ValueOrWeighs
    <2> QED BY <1>1, <2>1, CarryOverWeighed
<1>2. CASE r = <<>> \/ \E c \in Fallback : r = <<c>>
    <2>1. Fallback \subseteq W BY DEF ValueOrWeighs
    <2> QED BY <1>2, <2>1, OneWeighed, EmptyWeighed
<1> QED BY <1>1, <1>2 DEF ValueOrRuns

LEMMA ApplyRunsWeighed ==
    ASSUME NEW r \in ApplyRuns
    PROVE  r \in Seq(ApplyWeighs)
BY OneWeighed DEF ApplyRuns

(***************************************************************************)
(* The comparisons.  The live alternative is one of the side's.            *)
(***************************************************************************)
LEMMA ContentDispatched ==
    ASSUME NEW c, NEW x \in Contents(c)
    PROVE  x.side \in {"value", "error"} /\ Dispatched(c, x) \in Alternatives(c[x.side])
<1>1. ASSUME NEW which, NEW y \in Holding(which, c[which])
      PROVE  y.side = which /\ Dispatched(c, y) \in Alternatives(c[which])
    <2>1. PICK t \in Alternatives(c[which]) : \E k \in PayloadsOf(t) : y = Held(which, c[which], t, k)
        BY <1>1 DEF Holding
    <2>2. \E i \in DOMAIN c[which].list : c[which].list[i] = t BY DEF Alternatives, Range
    <2>3. type_index(t, c[which].list) \in DOMAIN c[which].list BY <2>2 DEF type_index
    <2>4. y.side = which /\ y.at = type_index(t, c[which].list) BY <2>1 DEF Held
    <2> QED BY <2>3, <2>4 DEF Dispatched, Alternatives, Range
<1>2. x \in Holding("value", c["value"]) \/ x \in Holding("error", c["error"]) BY DEF Contents
<1> QED BY <1>1, <1>2

LEMMA EqualRunsWeighed ==
    ASSUME ~ComparesChoices, NEW r \in EqualRuns
    PROVE  r \in Seq(EqualWeighs)
<1> DEFINE W == EqualWeighs
<1>1. PICK x \in Contents(m), y \in Contents(f[1]) :
         r = IF x.side = y.side /\ Dispatched(m, x) = Dispatched(f[1], y)
             THEN Payload("equal", Dispatched(m, x)) ELSE <<>>
    BY DEF EqualRuns
<1>2. CASE x.side = y.side /\ Dispatched(m, x) = Dispatched(f[1], y)
    <2> DEFINE t == Dispatched(m, x)
               s == x.side
    <2>1. s \in {"value", "error"} /\ t \in Alternatives(m[s]) /\ t \in Alternatives(f[1][s])
        BY <1>2, ContentDispatched
    <2>2. t # Unit => <<"equal", t>> \in Payloads("equal", m[s]) \cap Payloads("equal", f[1][s])
        BY <2>1 DEF Payloads
    <2>3. t # Unit => <<"equal", t>> \in W BY <2>1, <2>2 DEF EqualWeighs
    <2>4. r = Payload("equal", t) BY <1>1, <1>2
    <2> QED BY <2>3, <2>4, PayloadWeighed
<1>3. CASE ~(x.side = y.side /\ Dispatched(m, x) = Dispatched(f[1], y))
    BY <1>1, <1>3, EmptyWeighed
<1> QED BY <1>2, <1>3

(***************************************************************************)
(* The call.                                                               *)
(***************************************************************************)
Verb == Binds \cup Maps \cup {"filter", "fail", "recover", "inspect", "inspect_error", "value_or",
                              "apply", "equal"}

LEMMA RunsWeighed ==
    ASSUME verb \in Verb, ~ComparesChoices, NEW r \in Runs
    PROVE  r \in Seq(Weighed)
<1> USE DEF Runs, Weighed, Verb, Binds, Maps
<1>1. CASE verb \in Binds \cup Maps BY <1>1, FunctorRunsWeighed
<1>2. CASE verb = "filter" BY <1>2, FilterRunsWeighed
<1>3. CASE verb \in {"fail", "recover"} BY <1>3, SwitchRunsWeighed
<1>4. CASE verb \in {"inspect", "inspect_error"} BY <1>4, InspectRunsWeighed
<1>5. CASE verb = "value_or" BY <1>5, ValueOrRunsWeighed
<1>6. CASE verb = "apply" BY <1>6, ApplyRunsWeighed
<1>7. CASE verb = "equal" BY <1>7, EqualRunsWeighed
<1> QED BY <1>1, <1>2, <1>3, <1>4, <1>5, <1>6, <1>7

\* What a call has still to run is weighed, and so is what threw.
IInv ==
    /\ verb \in Verb
    /\ stage \in 1..4
    /\ stage \in 1..3 => todo = <<>> /\ thrown = <<>>
    /\ ~ComparesChoices => /\ todo \in Seq(Weighed)
                           /\ thrown # <<>> => thrown \in Weighed

LEMMA InitIInv == CallInit => IInv
<1> SUFFICES ASSUME CallInit PROVE IInv OBVIOUS
<1>1. verb \in Verb BY DEF CallInit, Init, MapInit, KeepInit, EqualInit, Verb, Binds, Maps
<1>2. stage = 1 /\ todo = <<>> /\ thrown = <<>> BY DEF CallInit, Init
<1> QED BY <1>1, <1>2, EmptyWeighed DEF IInv

LEMMA StepIInv == IInv /\ [CallNext]_callVars => IInv'
<1> SUFFICES ASSUME IInv, [CallNext]_callVars PROVE IInv' OBVIOUS
<1>1. CASE Chain
    <2>1. verb' = verb /\ stage' = 2 /\ stage = 1 /\ todo' = todo /\ thrown' = thrown
        BY <1>1 DEF Chain, BindSecond
    <2>2. todo' = <<>> /\ thrown' = <<>> BY <2>1 DEF IInv
    <2> QED BY <2>1, <2>2, EmptyWeighed DEF IInv, Verb, Binds, Maps
<1>2. CASE Pipe
    <2>1. verb' = verb /\ stage' = 3 /\ stage = 1 /\ todo' = todo /\ thrown' = thrown BY <1>2 DEF Pipe
    <2>2. todo' = <<>> /\ thrown' = <<>> BY <2>1 DEF IInv
    <2> QED BY <2>1, <2>2, EmptyWeighed DEF IInv, Verb, Binds, Maps
<1> DEFINE Same == verb' = verb /\ m' = m /\ f' = f /\ how' = how
<1>3. Same => Weighed' = Weighed /\ ComparesChoices' = ComparesChoices /\ (verb \in Verb)' = (verb \in Verb)
    BY DEF Weighed, ComparesChoices, Verb, Binds, Maps, FunctorWeighs, FilterWeighs, SwitchWeighs, InspectWeighs,
           ValueOrWeighs, ApplyWeighs, EqualWeighs, AgreesInKind, BindConverts, MapConverts, Result, SameKind, ActsOn, Bypass, Passes, Fallback
<1>4. CASE Enter
    <2>1. Same /\ stage = 3 /\ stage' = 4 /\ todo' \in Runs /\ thrown' = thrown BY <1>4 DEF Enter
    <2>2. thrown = <<>> /\ verb \in Verb BY <2>1 DEF IInv
    <2>3. ~ComparesChoices => todo' \in Seq(Weighed) BY <2>1, <2>2, RunsWeighed
    <2> QED BY <1>3, <2>1, <2>2, <2>3 DEF IInv
<1>5. CASE Perform
    <2>1. Same /\ stage' = stage /\ todo # <<>> /\ todo' = Tail(todo) /\ thrown' = thrown BY <1>5 DEF Perform
    <2>2. ~ComparesChoices => todo' \in Seq(Weighed) BY <2>1 DEF IInv
    <2> QED BY <1>3, <2>1, <2>2 DEF IInv
<1>6. CASE Throw
    <2>1. Same /\ stage' = stage /\ todo # <<>> /\ todo' = <<>> /\ thrown' = Head(todo) BY <1>6 DEF Throw
    <2>2. ~ComparesChoices => thrown' \in Weighed BY <2>1 DEF IInv
    <2> QED BY <1>3, <2>1, <2>2, EmptyWeighed DEF IInv
<1>7. CASE UNCHANGED callVars
    <2>1. Same /\ stage' = stage /\ todo' = todo /\ thrown' = thrown BY <1>7 DEF callVars
    <2> QED BY <1>3, <2>1 DEF IInv
<1> QED BY <1>1, <1>2, <1>4, <1>5, <1>6, <1>7 DEF CallNext

\* No exception leaves a call whose noexcept clause did not weigh the operation that
\* threw, whatever the types of the operand and of the callback's results.
THEOREM NoexceptIsHonest == CallSpec => []NoexceptHonest
<1>1. IInv => NoexceptHonest BY DEF IInv, NoexceptHonest
<1> QED BY <1>1, InitIInv, StepIInv, PTL DEF CallSpec

(***************************************************************************)
(* The other direction: what is weighed is run by some call.               *)
(***************************************************************************)
Reached(o, S) == \E r \in S : o \in Range(r)

LEMMA PayloadReached ==
    ASSUME NEW op, NEW t, t # Unit
    PROVE  <<op, t>> \in Range(Payload(op, t))
BY DEF Payload, Range

LEMMA OneReached == ASSUME NEW o PROVE o \in Range(<<o>>)
BY DEF Range

\* Of two parts of a body, each is reached in the whole.
LEMMA JoinReached ==
    ASSUME NEW A, NEW s \in Seq(A), NEW r \in Seq(A), NEW o, o \in Range(s) \/ o \in Range(r)
    PROVE  o \in Range(s \o r)
<1>1. DOMAIN s = 1..Len(s) /\ DOMAIN r = 1..Len(r) /\ DOMAIN (s \o r) = 1..(Len(s) + Len(r))
    OBVIOUS
<1>2. CASE o \in Range(s)
    <2>1. PICK i \in 1..Len(s) : s[i] = o BY <1>1, <1>2 DEF Range
    <2>2. i \in DOMAIN (s \o r) /\ (s \o r)[i] = o BY <1>1, <2>1
    <2> QED BY <2>2 DEF Range
<1>3. CASE o \in Range(r)
    <2>1. PICK i \in 1..Len(r) : r[i] = o BY <1>1, <1>3 DEF Range
    <2>2. Len(s) + i \in DOMAIN (s \o r) /\ (s \o r)[Len(s) + i] = o BY <1>1, <2>1
    <2> QED BY <2>2 DEF Range
<1> QED BY <1>2, <1>3

\* A call, followed by a payload.
LEMMA CallThenPayload ==
    ASSUME NEW call, NEW op, NEW t, NEW o, o \in Range(<<call>>) \/ o \in Range(Payload(op, t))
    PROVE  o \in Range(<<call>> \o Payload(op, t))
<1> DEFINE A == {call, <<op, t>>}
<1>1. call \in A /\ <<op, t>> \in A OBVIOUS
<1> HIDE DEF A
<1>2. <<call>> \in Seq(A) /\ Payload(op, t) \in Seq(A) BY <1>1, OneWeighed, PayloadWeighed
<1> QED BY <1>2, JoinReached

LEMMA CallReached ==
    ASSUME NEW callback, NEW t, NEW S
    PROVE  Reached(<<callback, t>>, CallAndMove(callback, t, S))
<1> DEFINE c == <<callback, t>>
<1>1. CASE S = {} BY <1>1, OneReached DEF Reached, CallAndMove
<1>2. CASE S # {}
    <2>1. PICK u \in S : TRUE BY <1>2
    <2> DEFINE r == <<c>> \o Payload("move", u)
    <2>3. c \in Range(<<c>>) BY OneReached
    <2>4. c \in Range(r) BY <2>3, CallThenPayload
    <2>5. r \in CallAndMove(callback, t, S) BY <1>2 DEF CallAndMove
    <2> QED BY <2>4, <2>5 DEF Reached
<1> QED BY <1>1, <1>2

LEMMA MoveReached ==
    ASSUME NEW callback, NEW t, NEW S, NEW u \in S, u # Unit
    PROVE  Reached(<<"move", u>>, CallAndMove(callback, t, S))
<1> DEFINE c == <<callback, t>>
           r == <<c>> \o Payload("move", u)
<1>2. <<"move", u>> \in Range(Payload("move", u)) BY PayloadReached
<1>3. <<"move", u>> \in Range(r) BY <1>2, CallThenPayload
<1>4. r \in CallAndMove(callback, t, S) BY DEF CallAndMove
<1> QED BY <1>3, <1>4 DEF Reached

LEMMA CarryOverReached ==
    ASSUME NEW which, NEW o \in Payloads(how, m[which])
    PROVE  Reached(o, CarryOver(which))
<1>1. PICK t \in Alternatives(m[which]) \ {Unit} : o = <<how, t>> BY DEF Payloads
<1>2. Payload(how, t) \in CarryOver(which) BY <1>1 DEF CarryOver
<1> QED BY <1>1, <1>2, PayloadReached DEF Reached

\* And the other way: a type the traits expect to be converted is moved from by the arm of
\* every alternative for which the callback returns it.
LEMMA WeighedBrought ==
    ASSUME NEW o \in FunctorWeighs, o \notin {"call"} \X DOMAIN f, o \notin Payloads(how, m[Bypass])
    PROVE  \E t \in DOMAIN f : \E u \in Brought(t) \ {Unit} : o = <<"move", u>>
<1>1. CASE verb \in Binds
    <2>1. o \in UNION {Payloads("move", c.value) \cup Payloads("move", c.error) : c \in BindConverts}
        BY <1>1 DEF FunctorWeighs
    <2>2. PICK c \in BindConverts : o \in Payloads("move", c.value) \cup Payloads("move", c.error)
        BY <2>1
    <2>3. c \in Range(f) BY <2>2 DEF BindConverts
    <2>4. PICK t \in DOMAIN f : f[t] = c BY <2>3 DEF Range
    <2>5. ~Returned(t)
        <3>1. CASE AgreesInKind
            <4>1. Range(f) = {c} /\ SameKind(c) BY <2>3, <3>1 DEF AgreesInKind
            <4>2. ~Heterogeneous(f) BY <4>1 DEF Heterogeneous, Range
            <4>3. c[Bypass] # m[Bypass] BY <2>2, <3>1 DEF BindConverts
            <4> QED BY <1>1, <2>4, <4>1, <4>2, <4>3 DEF Returned
        <3>2. CASE ~AgreesInKind
            <4>1. ASSUME ~Heterogeneous(f), SameKind(c) PROVE FALSE
                <5>1. Range(f) = {c} BY <2>4, <4>1 DEF Heterogeneous, Range
                <5> QED BY <2>3, <3>2, <4>1, <5>1 DEF AgreesInKind
            <4>2. c # Result(m, f) BY <2>2, <3>2 DEF BindConverts
            <4> QED BY <1>1, <2>4, <4>1, <4>2 DEF Returned
        <3> QED BY <3>1, <3>2
    <2>6. PICK u \in (Alternatives(c.value) \cup Alternatives(c.error)) \ {Unit} : o = <<"move", u>>
        BY <2>2 DEF Payloads
    <2>7. u \in Brought(t) BY <1>1, <2>4, <2>5 DEF Brought
    <2> QED BY <2>6, <2>7
<1>2. CASE verb \notin Binds
    <2>1. PICK s \in MapConverts : o \in Payloads("move", s) BY <1>2 DEF FunctorWeighs
    <2>2. s \in Range(f) BY <2>1 DEF MapConverts
    <2>3. PICK t \in DOMAIN f : f[t] = s BY <2>2 DEF Range
    <2>4. ~Returned(t) BY <1>2, <2>1, <2>3 DEF Returned, MapConverts
    <2>5. PICK u \in Alternatives(s) \ {Unit} : o = <<"move", u>> BY <2>1 DEF Payloads
    <2>6. u \in Brought(t) BY <1>2, <2>3, <2>4 DEF Brought
    <2> QED BY <2>5, <2>6
<1> QED BY <1>1, <1>2

LEMMA FunctorReached ==
    ASSUME NEW o \in FunctorWeighs
    PROVE  Reached(o, FunctorRuns)
<1>1. CASE o \in {"call"} \X DOMAIN f
    <2>1. PICK t \in DOMAIN f : o = <<"call", t>> BY <1>1
    <2>2. Reached(o, CallAndMove("call", t, Brought(t))) BY <2>1, CallReached
    <2> QED BY <2>2 DEF FunctorRuns, Reached
<1>2. CASE o \in Payloads(how, m[Bypass])
    <2>1. Reached(o, CarryOver(Bypass)) BY <1>2, CarryOverReached
    <2> QED BY <2>1 DEF FunctorRuns, Reached
<1>3. CASE o \notin {"call"} \X DOMAIN f /\ o \notin Payloads(how, m[Bypass])
    <2>1. PICK t \in DOMAIN f : \E u \in Brought(t) \ {Unit} : o = <<"move", u>>
        BY <1>3, WeighedBrought
    <2>2. PICK u \in Brought(t) \ {Unit} : o = <<"move", u>> BY <2>1
    <2>3. Reached(o, CallAndMove("call", t, Brought(t))) BY <2>2, MoveReached
    <2> QED BY <2>3 DEF FunctorRuns, Reached
<1> QED BY <1>1, <1>2, <1>3

LEMMA FilterReached ==
    ASSUME NEW o \in FilterWeighs
    PROVE  Reached(o, FilterRuns)
<1> DEFINE Body(t, s) == <<<<"call", t>>>> \o s
<1>1. ASSUME NEW t \in Alternatives(m.value), NEW s \in Refuse(t) \cup {Payload(how, t)}
      PROVE  Body(t, s) \in FilterRuns
    BY DEF FilterRuns
<1>2. ASSUME NEW t \in Alternatives(m.value), o = <<"call", t>> \/ (o = <<how, t>> /\ t # Unit)
      PROVE  Reached(o, FilterRuns)
    <2> DEFINE s == Payload(how, t)
    <2>3. o \in Range(<<<<"call", t>>>>) \/ o \in Range(s) BY <1>2, OneReached, PayloadReached
    <2>4. o \in Range(Body(t, s)) BY <2>3, CallThenPayload
    <2>5. Body(t, s) \in FilterRuns BY <1>1
    <2> QED BY <2>4, <2>5 DEF Reached
<1>3. CASE o \in Payloads(how, m.error)
    <2>1. Reached(o, CarryOver("error")) BY <1>3, CarryOverReached
    <2> QED BY <2>1 DEF FilterRuns, Reached
<1>4. ASSUME ~some_optional(m), NEW t \in Alternatives(m.value),
             Reached(o, CallAndMove("on_err", t, Alternatives(m.error)))
      PROVE  Reached(o, FilterRuns)
    <2>1. PICK s \in CallAndMove("on_err", t, Alternatives(m.error)) : o \in Range(s) BY <1>4 DEF Reached
    <2>2. s \in Refuse(t) BY <1>4 DEF Refuse
    <2> DEFINE A == {<<"call", t>>, <<"on_err", t>>} \cup ({"move"} \X (Alternatives(m.error) \ {Unit}))
    <2>3. <<<<"call", t>>>> \in Seq(A) BY OneWeighed
    <2>4. <<"on_err", t>> \in A /\ {"move"} \X (Alternatives(m.error) \ {Unit}) \subseteq A OBVIOUS
    <2> HIDE DEF A
    <2>5. s \in Seq(A) BY <2>4, CallAndMoveWeighed
    <2>6. o \in Range(Body(t, s)) BY <2>1, <2>3, <2>5, JoinReached
    <2>7. Body(t, s) \in FilterRuns BY <2>2, <1>1
    <2> QED BY <2>6, <2>7 DEF Reached
<1>5. CASE ~some_optional(m) /\ Alternatives(m.value) # {}
           /\ o \in Calls("on_err", m.value) \cup Payloads("move", m.error)
    <2>1. CASE o \in Calls("on_err", m.value)
        <3>1. PICK t \in Alternatives(m.value) : o = <<"on_err", t>> BY <2>1 DEF Calls
        <3>2. Reached(o, CallAndMove("on_err", t, Alternatives(m.error))) BY <3>1, CallReached
        <3> QED BY <1>4, <1>5, <3>2
    <2>2. CASE o \in Payloads("move", m.error)
        <3>1. PICK t \in Alternatives(m.value) : TRUE BY <1>5
        <3>2. PICK u \in Alternatives(m.error) \ {Unit} : o = <<"move", u>> BY <2>2 DEF Payloads
        <3>3. Reached(o, CallAndMove("on_err", t, Alternatives(m.error))) BY <3>2, MoveReached
        <3> QED BY <1>4, <1>5, <3>3
    <2> QED BY <1>5, <2>1, <2>2
<1>6. CASE o \in Calls("call", m.value)
    <2>1. PICK t \in Alternatives(m.value) : o = <<"call", t>> BY <1>6 DEF Calls
    <2> QED BY <1>2, <2>1
<1>7. CASE o \in Payloads(how, m.value)
    <2>1. PICK t \in Alternatives(m.value) \ {Unit} : o = <<how, t>> BY <1>7 DEF Payloads
    <2> QED BY <1>2, <2>1
<1> QED BY <1>3, <1>5, <1>6, <1>7 DEF FilterWeighs

LEMMA SwitchReached ==
    ASSUME NEW o \in SwitchWeighs
    PROVE  Reached(o, SwitchRuns)
<1>1. ~Passes BY DEF SwitchWeighs
<1>2. ASSUME NEW t \in Alternatives(m[ActsOn]), Reached(o, CallAndMove("call", t, Alternatives(m[Bypass])))
      PROVE  Reached(o, SwitchRuns)
    BY <1>1, <1>2 DEF SwitchRuns, Reached
<1>3. CASE o \in Calls("call", m[ActsOn])
    <2>1. PICK t \in Alternatives(m[ActsOn]) : o = <<"call", t>> BY <1>3 DEF Calls
    <2> QED BY <1>2, <2>1, CallReached
<1>4. CASE o \in Payloads(how, m[Bypass])
    <2>1. Reached(o, CarryOver(Bypass)) BY <1>4, CarryOverReached
    <2> QED BY <1>1, <2>1 DEF SwitchRuns, Reached
<1>5. CASE Alternatives(m[ActsOn]) # {} /\ o \in Payloads("move", m[Bypass])
    <2>1. PICK t \in Alternatives(m[ActsOn]) : TRUE BY <1>5
    <2>2. PICK u \in Alternatives(m[Bypass]) \ {Unit} : o = <<"move", u>> BY <1>5 DEF Payloads
    <2> QED BY <1>2, <2>2, MoveReached
<1> QED BY <1>1, <1>3, <1>4, <1>5 DEF SwitchWeighs

LEMMA ValueOrReached ==
    ASSUME verb = "value_or", NEW o \in ValueOrWeighs \ Vacuous
    PROVE  Reached(o, ValueOrRuns)
<1>1. CASE o \in Payloads(how, m.value)
    <2>1. Reached(o, CarryOver("value")) BY <1>1, CarryOverReached
    <2> QED BY <2>1 DEF ValueOrRuns, Reached
<1>2. CASE o \in Fallback
    <2>1. ~some_empty_error(m) BY <1>2 DEF Vacuous
    <2>2. <<o>> \in ValueOrRuns BY <1>2, <2>1 DEF ValueOrRuns
    <2> QED BY <2>2, OneReached DEF Reached
<1> QED BY <1>1, <1>2 DEF ValueOrWeighs

\* Two operands that share an alternative may both hold it.
LEMMA EqualReached ==
    ASSUME Tokens # {}, NEW o \in EqualWeighs
    PROVE  Reached(o, EqualRuns)
<1>1. PICK s \in {"value", "error"} : o \in Payloads("equal", m[s]) \cap Payloads("equal", f[1][s])
    BY DEF EqualWeighs
<1>2. PICK t \in Alternatives(m[s]) \cap Alternatives(f[1][s]) : t # Unit /\ o = <<"equal", t>>
    BY <1>1 DEF Payloads
<1>3. PICK k \in PayloadsOf(t) : TRUE BY <1>2 DEF PayloadsOf
<1>4. ASSUME NEW c, t \in Alternatives(c[s])
      PROVE  \E x \in Contents(c) : x.side = s /\ Dispatched(c, x) = t
    <2> DEFINE x == Held(s, c[s], t, k)
    <2>1. \E i \in DOMAIN c[s].list : c[s].list[i] = t BY <1>4 DEF Alternatives, Range
    <2>2. c[s].list[type_index(t, c[s].list)] = t BY <2>1 DEF type_index
    <2>3. x.side = s /\ x.at = type_index(t, c[s].list) BY DEF Held
    <2>4. x \in Holding(s, c[s]) BY <1>4 DEF Holding
    <2>5. x \in Contents(c) BY <1>1, <2>4 DEF Contents
    <2> QED BY <2>2, <2>3, <2>5 DEF Dispatched
<1>5. PICK x \in Contents(m) : x.side = s /\ Dispatched(m, x) = t BY <1>2, <1>4
<1>6. PICK y \in Contents(f[1]) : y.side = s /\ Dispatched(f[1], y) = t BY <1>2, <1>4
<1>7. Payload("equal", t) \in EqualRuns
    <2> DEFINE r == IF x.side = y.side /\ Dispatched(m, x) = Dispatched(f[1], y)
                    THEN Payload("equal", Dispatched(m, x)) ELSE <<>>
    <2>1. r = Payload("equal", t) BY <1>5, <1>6
    <2>2. r \in EqualRuns BY DEF EqualRuns
    <2> QED BY <2>1, <2>2
<1> QED BY <1>2, <1>7, PayloadReached DEF Reached

\* What a noexcept clause weighs, some content of the operand and some answer of the
\* callback lead to, whatever the types are.
THEOREM NoexceptIsExact ==
    ASSUME Tokens # {}
    PROVE  CallSpec => []NoexceptExact
<1>1. ASSUME IInv PROVE NoexceptExact
    <2> SUFFICES ASSUME NEW o \in Weighed \ Vacuous PROVE Reached(o, Runs)
        BY DEF NoexceptExact, Reached
    <2> USE DEF Runs, Weighed, Verb, Binds, Maps
    <2>1. CASE verb \in Binds \cup Maps BY <2>1, FunctorReached
    <2>2. CASE verb = "filter" BY <2>2, FilterReached
    <2>3. CASE verb \in {"fail", "recover"} BY <2>3, SwitchReached
    <2>4. CASE verb \in {"inspect", "inspect_error"}
        <3>1. o \in InspectWeighs BY <2>4
        <3>2. <<o>> \in InspectRuns BY <3>1 DEF InspectRuns, InspectWeighs
        <3> QED BY <2>4, <3>2, OneReached DEF Reached
    <2>5. CASE verb = "value_or" BY <2>5, ValueOrReached
    <2>6. CASE verb = "apply"
        <3>1. o \in ApplyWeighs BY <2>6
        <3>2. <<o>> \in ApplyRuns BY <3>1 DEF ApplyRuns
        <3> QED BY <2>6, <3>2, OneReached DEF Reached
    <2>7. CASE verb = "equal" BY <2>7, EqualReached
    <2> QED BY <1>1, <2>1, <2>2, <2>3, <2>4, <2>5, <2>6, <2>7 DEF IInv
<1>2. IInv => NoexceptExact BY <1>1
<1> QED BY <1>2, InitIInv, StepIInv, PTL DEF CallSpec

(***************************************************************************)
(* A bind, by either verb.                                                 *)
(***************************************************************************)
Bindable == IF verb = "and_then" THEN CarrierTypes ELSE FallibleTypes
ActingSide(c) == IF verb = "and_then" THEN c.value ELSE c.error
ActingSides(fn) == {ActingSide(fn[t]) : t \in DOMAIN fn}
CarriedTypes(c) == Alternatives(Carried(c))

LEMMA BindableFacts ==
    ASSUME NEW c \in Bindable
    PROVE  /\ c \in CarrierTypes
           /\ verb # "and_then" => c \in FallibleTypes
           /\ c.value \in ValueSides /\ c.error \in ErrorSides
           /\ ActingSide(c) \in Sides /\ Carried(c) \in Sides
           /\ Acting(c) = Alternatives(ActingSide(c))
<1>1. c \in CarrierTypes BY DEF Bindable, FallibleTypes
<1> QED BY <1>1, CarrierFacts DEF Bindable, ActingSide, Carried, Acting

\* A bind that compiles takes the acting types of the branches, and unites the carried ones.
LEMMA BindHolds ==
    ASSUME verb \in Binds, NEW c \in Bindable, NEW fn \in [Acting(c) -> Bindable], Compiles(c, fn)
    PROVE  /\ Result(c, fn) \in CarrierTypes
           /\ Acting(Result(c, fn)) = UNION {Acting(fn[t]) : t \in Acting(c)}
           /\ CarriedTypes(Result(c, fn)) = CarriedTypes(c) \cup UNION {CarriedTypes(fn[t]) : t \in Acting(c)}
<1>1. CASE verb = "and_then"
    <2>1. /\ c \in CarrierTypes /\ fn \in [Alternatives(c.value) -> CarrierTypes]
          /\ and_then_compiles(c, fn) /\ Result(c, fn) = and_then_type(c, fn)
        BY <1>1 DEF Bindable, Acting, Compiles, Result
    <2>2. /\ Result(c, fn) \in CarrierTypes
          /\ Alternatives(Result(c, fn).value) = United(Values(fn))
          /\ Alternatives(Result(c, fn).error) = Alternatives(c.error) \cup United(Errors(fn))
        BY <2>1, AndThenTypeHolds
    <2>3. /\ United(Values(fn)) = UNION {Alternatives(fn[t].value) : t \in DOMAIN fn}
          /\ United(Errors(fn)) = UNION {Alternatives(fn[t].error) : t \in DOMAIN fn}
        BY DEF United, Values, Errors
    <2>4. DOMAIN fn = Acting(c) OBVIOUS
    <2>5. \A d : Acting(d) = Alternatives(d.value) /\ CarriedTypes(d) = Alternatives(d.error)
        BY <1>1 DEF Acting, Carried, CarriedTypes
    <2> QED BY <2>2, <2>3, <2>4, <2>5
<1>2. CASE verb = "or_else"
    <2>1. /\ c \in CarrierTypes /\ fn \in [Alternatives(c.error) -> FallibleTypes]
          /\ or_else_compiles(c, fn) /\ Result(c, fn) = or_else_type(c, fn)
        BY <1>2, BindableFacts DEF Bindable, Acting, Compiles, Result
    <2>2. /\ Result(c, fn) \in CarrierTypes
          /\ Alternatives(Result(c, fn).value) = Alternatives(c.value) \cup United(Values(fn))
          /\ Alternatives(Result(c, fn).error) = United(Errors(fn))
        BY <2>1, OrElseTypeHolds
    <2>3. /\ United(Values(fn)) = UNION {Alternatives(fn[t].value) : t \in DOMAIN fn}
          /\ United(Errors(fn)) = UNION {Alternatives(fn[t].error) : t \in DOMAIN fn}
        BY DEF United, Values, Errors
    <2>4. DOMAIN fn = Acting(c) OBVIOUS
    <2>5. \A d : Acting(d) = Alternatives(d.error) /\ CarriedTypes(d) = Alternatives(d.value)
        BY <1>2 DEF Acting, Carried, CarriedTypes
    <2> QED BY <2>2, <2>3, <2>4, <2>5
<1> QED BY <1>1, <1>2 DEF Binds

\* No bind of carriers that may fail ends in just or choice.
LEMMA BindFallible ==
    ASSUME verb \in Binds, NEW c \in FallibleTypes, NEW fn \in [Acting(c) -> FallibleTypes],
           Compiles(c, fn)
    PROVE  Result(c, fn) \in FallibleTypes
<1> DEFINE R == Result(c, fn)
<1>0. c \in Bindable /\ fn \in [Acting(c) -> Bindable] /\ c \in CarrierTypes
    BY DEF Bindable, FallibleTypes
<1>1. R \in CarrierTypes BY <1>0, BindHolds
<1>2. SUFFICES ASSUME R.error = NoError PROVE FALSE BY <1>1 DEF FallibleTypes, some_total
<1>3. c.error # NoError /\ NoError \notin Errors(fn) BY DEF FallibleTypes, some_total, Errors
<1>4. NoError \notin Copacks BY CopackForm
<1>5. NoError # Absent BY EmptySidesHold
<1>6. CASE verb = "and_then"
    <2>1. ~some_empty_value(c) /\ NoError = joined_error(c, fn)
        BY <1>2, <1>3, <1>6 DEF Result, and_then_type
    <2>2. fn \in [Alternatives(c.value) -> CarrierTypes] BY <1>6 DEF Acting, FallibleTypes
    <2> QED BY <1>0, <1>3, <1>4, <1>5, <2>1, <2>2, JoinedErrorHolds
<1>7. CASE verb = "or_else"
    <2>1. NoError = list_join(Errors(fn)) BY <1>2, <1>3, <1>7 DEF Result, or_else_type
    <2>2. Errors(fn) \in SUBSET Sides BY <1>0, BranchSides DEF FallibleTypes
    <2> QED BY <1>3, <1>4, <1>5, <2>1, <2>2, ListJoinHolds
<1> QED BY <1>6, <1>7 DEF Binds

LEMMA BindBindable ==
    ASSUME verb \in Binds, NEW c \in Bindable, NEW fn \in [Acting(c) -> Bindable], Compiles(c, fn)
    PROVE  Result(c, fn) \in Bindable
<1>1. CASE verb = "and_then" BY <1>1, BindHolds DEF Bindable
<1>2. CASE verb = "or_else" BY <1>2, BindFallible DEF Bindable
<1> QED BY <1>1, <1>2 DEF Binds

(***************************************************************************)
(* The two forms of a pair of binds.  The first one compiles, and the      *)
(* second callback is made for its result.                                 *)
(***************************************************************************)
\* The part of the second callback that the branch for t sees.
Inner(t) == Restrict(g, Acting(f[t]))
Second == /\ verb \in Binds
          /\ m \in Bindable
          /\ f \in [Acting(m) -> Bindable] /\ Compiles(m, f)
          /\ g \in [Acting(Result(m, f)) -> Bindable]

LEMMA SecondFacts ==
    ASSUME Second
    PROVE  /\ Result(m, f) \in Bindable
           /\ DOMAIN f = Acting(m) /\ DOMAIN g = Acting(Result(m, f))
           /\ DOMAIN g = UNION {Acting(f[t]) : t \in DOMAIN f}
           /\ \A t \in DOMAIN f : /\ f[t] \in Bindable
                                  /\ Acting(f[t]) \in SUBSET DOMAIN g
                                  /\ Inner(t) \in [Acting(f[t]) -> Bindable]
                                  /\ Inner(t) = [u \in Acting(f[t]) |-> g[u]]
           /\ Nested = [t \in DOMAIN f |-> Result(f[t], Inner(t))]
<1>1. Result(m, f) \in Bindable BY BindBindable DEF Second
<1>2. DOMAIN f = Acting(m) /\ DOMAIN g = Acting(Result(m, f)) BY DEF Second
<1>3. DOMAIN g = UNION {Acting(f[t]) : t \in DOMAIN f} BY <1>2, BindHolds DEF Second
<1>4. ASSUME NEW t \in DOMAIN f
      PROVE  /\ f[t] \in Bindable
             /\ Acting(f[t]) \in SUBSET DOMAIN g
             /\ Inner(t) \in [Acting(f[t]) -> Bindable]
             /\ Inner(t) = [u \in Acting(f[t]) |-> g[u]]
    <2>1. f[t] \in Bindable BY <1>2 DEF Second
    <2>2. Acting(f[t]) \in SUBSET DOMAIN g BY <1>3
    <2>3. Inner(t) = [u \in Acting(f[t]) |-> g[u]] BY DEF Inner, Restrict
    <2>4. \A u \in DOMAIN g : g[u] \in Bindable BY <1>2 DEF Second
    <2> QED BY <2>1, <2>2, <2>3, <2>4
<1>5. Nested = [t \in DOMAIN f |-> Result(f[t], Inner(t))] BY DEF Nested, Inner
<1> QED BY <1>1, <1>2, <1>3, <1>4, <1>5

\* Where the inner binds compile, the results are carriers to bind to, that act
\* with the types of the branches of g.
LEMMA NestedFacts ==
    ASSUME Second, \A t \in DOMAIN f : Compiles(f[t], Inner(t))
    PROVE  /\ Nested \in [Acting(m) -> Bindable]
           /\ \A t \in DOMAIN f :
                  /\ Acting(Nested[t]) = UNION {Acting(g[u]) : u \in Acting(f[t])}
                  /\ CarriedTypes(Nested[t]) =
                         CarriedTypes(f[t]) \cup UNION {CarriedTypes(g[u]) : u \in Acting(f[t])}
<1>1. ASSUME NEW t \in DOMAIN f
      PROVE  /\ Nested[t] \in Bindable
             /\ Acting(Nested[t]) = UNION {Acting(g[u]) : u \in Acting(f[t])}
             /\ CarriedTypes(Nested[t]) =
                    CarriedTypes(f[t]) \cup UNION {CarriedTypes(g[u]) : u \in Acting(f[t])}
    <2>1. /\ f[t] \in Bindable /\ Inner(t) \in [Acting(f[t]) -> Bindable]
          /\ Inner(t) = [u \in Acting(f[t]) |-> g[u]]
          /\ Nested[t] = Result(f[t], Inner(t))
        BY SecondFacts
    <2>2. verb \in Binds /\ Compiles(f[t], Inner(t)) BY DEF Second
    <2>3. Nested[t] \in Bindable BY <2>1, <2>2, BindBindable
    <2>4. /\ Acting(Nested[t]) = UNION {Acting(Inner(t)[u]) : u \in Acting(f[t])}
          /\ CarriedTypes(Nested[t]) =
                 CarriedTypes(f[t]) \cup UNION {CarriedTypes(Inner(t)[u]) : u \in Acting(f[t])}
        BY <2>1, <2>2, BindHolds
    <2>5. \A u \in Acting(f[t]) : Inner(t)[u] = g[u] BY <2>1
    <2> QED BY <2>3, <2>4, <2>5
<1>2. DOMAIN f = Acting(m) /\ Nested = [t \in DOMAIN f |-> Result(f[t], Inner(t))] BY SecondFacts
<1> QED BY <1>1, <1>2

\* The two forms have the same types on either side.
LEMMA FormsHoldTheSame ==
    ASSUME Second, FlatCompiles, NestedCompiles
    PROVE  /\ Flat \in CarrierTypes /\ Result(m, Nested) \in CarrierTypes
           /\ Acting(Result(m, Nested)) = Acting(Flat)
           /\ CarriedTypes(Result(m, Nested)) = CarriedTypes(Flat)
<1> DEFINE R == Result(m, f)
<1>1. (\A t \in DOMAIN f : Compiles(f[t], Inner(t))) /\ Compiles(m, Nested)
    BY DEF NestedCompiles, Inner
<1>2. verb \in Binds /\ m \in Bindable /\ f \in [Acting(m) -> Bindable] /\ Compiles(m, f)
    BY DEF Second
<1>3. R \in Bindable /\ g \in [Acting(R) -> Bindable] /\ Compiles(R, g) /\ Flat = Result(R, g)
    BY SecondFacts DEF Second, FlatCompiles, Flat
<1>4. /\ DOMAIN f = Acting(m) /\ Acting(R) = UNION {Acting(f[t]) : t \in DOMAIN f}
      /\ CarriedTypes(R) = CarriedTypes(m) \cup UNION {CarriedTypes(f[t]) : t \in DOMAIN f}
    BY <1>2, BindHolds
<1>5. /\ Flat \in CarrierTypes
      /\ Acting(Flat) = UNION {Acting(g[u]) : u \in Acting(R)}
      /\ CarriedTypes(Flat) = CarriedTypes(R) \cup UNION {CarriedTypes(g[u]) : u \in Acting(R)}
    BY <1>2, <1>3, BindHolds
<1>6. /\ Nested \in [Acting(m) -> Bindable]
      /\ \A t \in DOMAIN f :
             /\ Acting(Nested[t]) = UNION {Acting(g[u]) : u \in Acting(f[t])}
             /\ CarriedTypes(Nested[t]) =
                    CarriedTypes(f[t]) \cup UNION {CarriedTypes(g[u]) : u \in Acting(f[t])}
    BY <1>1, NestedFacts
<1>7. /\ Result(m, Nested) \in CarrierTypes
      /\ Acting(Result(m, Nested)) = UNION {Acting(Nested[t]) : t \in DOMAIN f}
      /\ CarriedTypes(Result(m, Nested)) = CarriedTypes(m) \cup UNION {CarriedTypes(Nested[t]) : t \in DOMAIN f}
    BY <1>1, <1>2, <1>4, <1>6, BindHolds
<1> HIDE DEF R
<1>8. Acting(Result(m, Nested)) = Acting(Flat) BY <1>4, <1>5, <1>6, <1>7
<1>9. CarriedTypes(Result(m, Nested)) = CarriedTypes(Flat) BY <1>4, <1>5, <1>6, <1>7
<1> QED BY <1>5, <1>7, <1>8, <1>9

LEMMA FormsHaveOneShape ==
    ASSUME Second, FlatCompiles, NestedCompiles
    PROVE  Shape(Result(m, Nested)) = Shape(Flat)
<1>1. CASE verb = "and_then"
    BY <1>1, FormsHoldTheSame DEF Shape, Acting, CarriedTypes, Carried
<1>2. CASE verb # "and_then"
    BY <1>2, FormsHoldTheSame DEF Shape, Acting, CarriedTypes, Carried
<1> QED BY <1>1, <1>2

LEMMA BindPlain ==
    ASSUME verb \in Binds, NEW c \in FallibleTypes, NEW fn \in [Acting(c) -> FallibleTypes], NEW p \in Plains
    PROVE  /\ ActingSide(Result(c, fn)) = p
                  <=> (DOMAIN fn # {} /\ \A t \in DOMAIN fn : ActingSide(fn[t]) = p)
           /\ Carried(Result(c, fn)) = p <=> (Carried(c) = p /\ \A t \in DOMAIN fn : Carried(fn[t]) = p)
<1>1. CASE verb = "and_then"
    <2>1. fn \in [Alternatives(c.value) -> FallibleTypes] BY <1>1 DEF Acting
    <2> QED BY <1>1, <2>1, AndThenPlain DEF Result, ActingSide, Carried
<1>2. CASE verb = "or_else"
    <2>1. fn \in [Alternatives(c.error) -> FallibleTypes] BY <1>2 DEF Acting
    <2> QED BY <1>2, <2>1, OrElsePlain DEF Result, ActingSide, Carried
<1> QED BY <1>1, <1>2 DEF Binds

\* Branches that differ convert to the result.
LEMMA BranchesConvert ==
    ASSUME verb \in Binds, NEW c, NEW fn, Compiles(c, fn), Heterogeneous(fn), NEW t \in DOMAIN fn
    PROVE  Converts(ActingSide(fn[t]), ActingSide(Result(c, fn)))
<1>1. CASE verb = "and_then"
    <2>1. and_then_compiles(c, fn) /\ Result(c, fn) = and_then_type(c, fn) BY <1>1 DEF Compiles, Result
    <2>2. Converts(fn[t].value, and_then_type(c, fn).value)
        BY <2>1 DEF and_then_compiles, EveryBranchConverts
    <2> QED BY <1>1, <2>1, <2>2 DEF ActingSide
<1>2. CASE verb = "or_else"
    <2>1. or_else_compiles(c, fn) /\ Result(c, fn) = or_else_type(c, fn) BY <1>2 DEF Compiles, Result
    <2>2. Converts(fn[t].error, or_else_type(c, fn).error)
        BY <2>1 DEF or_else_compiles, EveryBranchConverts
    <2> QED BY <1>2, <2>1, <2>2 DEF ActingSide
<1> QED BY <1>1, <1>2 DEF Binds

\* Of carriers that may fail, every step stays among them.
LEMMA FallibleForms ==
    ASSUME Second, FlatCompiles, NestedCompiles, \A c \in Bound : ~some_total(c)
    PROVE  /\ m \in FallibleTypes /\ f \in [Acting(m) -> FallibleTypes]
           /\ Result(m, f) \in FallibleTypes /\ g \in [Acting(Result(m, f)) -> FallibleTypes]
           /\ \A t \in DOMAIN f : /\ f[t] \in FallibleTypes
                                  /\ Inner(t) \in [Acting(f[t]) -> FallibleTypes]
           /\ Nested \in [Acting(m) -> FallibleTypes]
           /\ Flat \in FallibleTypes /\ Result(m, Nested) \in FallibleTypes
<1>1. \A c \in Bindable : c \in CarrierTypes BY BindableFacts
<1>2. m \in Bound /\ (\A t \in DOMAIN f : f[t] \in Bound) /\ (\A u \in DOMAIN g : g[u] \in Bound)
    BY DEF Bound, Range
<1>3. \A c \in Bound : c \in Bindable => c \in FallibleTypes BY <1>1 DEF FallibleTypes
<1>4. verb \in Binds /\ Compiles(m, f) /\ m \in Bindable BY DEF Second
<1>5. m \in FallibleTypes /\ f \in [Acting(m) -> FallibleTypes]
    BY <1>2, <1>3 DEF Second
<1>6. Result(m, f) \in FallibleTypes BY <1>4, <1>5, BindFallible
<1>7. g \in [Acting(Result(m, f)) -> FallibleTypes] BY <1>2, <1>3 DEF Second
<1>8. ASSUME NEW t \in DOMAIN f
      PROVE  f[t] \in FallibleTypes /\ Inner(t) \in [Acting(f[t]) -> FallibleTypes]
    <2>1. /\ f[t] \in Bindable /\ Acting(f[t]) \in SUBSET DOMAIN g
          /\ Inner(t) = [u \in Acting(f[t]) |-> g[u]]
        BY SecondFacts
    <2>2. \A u \in DOMAIN g : g[u] \in FallibleTypes BY <1>7
    <2> QED BY <1>2, <1>3, <2>1, <2>2
<1>9. (\A t \in DOMAIN f : Compiles(f[t], Inner(t))) /\ Compiles(m, Nested)
    BY DEF NestedCompiles, Inner
<1>10. \A t \in DOMAIN f : Result(f[t], Inner(t)) \in FallibleTypes BY <1>4, <1>8, <1>9, BindFallible
<1>11. Nested \in [Acting(m) -> FallibleTypes] BY <1>10, SecondFacts
<1>12. Result(m, Nested) \in FallibleTypes BY <1>4, <1>5, <1>9, <1>11, BindFallible
<1>13. Flat \in FallibleTypes BY <1>4, <1>6, <1>7, BindFallible DEF FlatCompiles, Flat
<1> QED BY <1>5, <1>6, <1>7, <1>8, <1>11, <1>12, <1>13

\* And the two forms are plain together.
LEMMA FormsPlainTogether ==
    ASSUME Second, FlatCompiles, NestedCompiles, \A c \in Bound : ~some_total(c), NEW p \in Plains
    PROVE  /\ ActingSide(Result(m, Nested)) = p <=> ActingSide(Flat) = p
           /\ Carried(Result(m, Nested)) = p <=> Carried(Flat) = p
<1> DEFINE R == Result(m, f)
           Outer == Result(m, Nested)
           D == DOMAIN f
<1>1. verb \in Binds /\ Compiles(m, Nested) BY DEF Second, NestedCompiles
<1>2. /\ m \in FallibleTypes /\ f \in [Acting(m) -> FallibleTypes]
      /\ R \in FallibleTypes /\ g \in [Acting(R) -> FallibleTypes]
      /\ \A t \in D : f[t] \in FallibleTypes /\ Inner(t) \in [Acting(f[t]) -> FallibleTypes]
      /\ Nested \in [Acting(m) -> FallibleTypes]
    BY FallibleForms
<1>3. /\ DOMAIN Nested = D /\ \A t \in D : Nested[t] = Result(f[t], Inner(t))
      /\ DOMAIN g = UNION {Acting(f[t]) : t \in D}
      /\ \A t \in D : Inner(t) = [u \in Acting(f[t]) |-> g[u]]
    BY SecondFacts
<1>4. /\ ActingSide(Outer) = p <=> (D # {} /\ \A t \in D : ActingSide(Nested[t]) = p)
      /\ Carried(Outer) = p <=> (Carried(m) = p /\ \A t \in D : Carried(Nested[t]) = p)
    BY <1>1, <1>2, <1>3, BindPlain
<1>5. /\ ActingSide(Flat) = p <=> (DOMAIN g # {} /\ \A u \in DOMAIN g : ActingSide(g[u]) = p)
      /\ Carried(Flat) = p <=> (Carried(R) = p /\ \A u \in DOMAIN g : Carried(g[u]) = p)
    BY <1>1, <1>2, BindPlain DEF Flat
<1>6. Carried(R) = p <=> (Carried(m) = p /\ \A t \in D : Carried(f[t]) = p)
    BY <1>1, <1>2, BindPlain
<1>7. ASSUME NEW t \in D
      PROVE  /\ ActingSide(Nested[t]) = p
                    <=> (Acting(f[t]) # {} /\ \A u \in Acting(f[t]) : ActingSide(g[u]) = p)
             /\ Carried(Nested[t]) = p
                    <=> (Carried(f[t]) = p /\ \A u \in Acting(f[t]) : Carried(g[u]) = p)
    <2>1. /\ f[t] \in FallibleTypes /\ Inner(t) \in [Acting(f[t]) -> FallibleTypes]
          /\ Nested[t] = Result(f[t], Inner(t))
        BY <1>2, <1>3
    <2>2. /\ ActingSide(Nested[t]) = p
                 <=> (DOMAIN Inner(t) # {} /\ \A u \in DOMAIN Inner(t) : ActingSide(Inner(t)[u]) = p)
          /\ Carried(Nested[t]) = p
                 <=> (Carried(f[t]) = p /\ \A u \in DOMAIN Inner(t) : Carried(Inner(t)[u]) = p)
        BY <1>1, <2>1, BindPlain
    <2>3. DOMAIN Inner(t) = Acting(f[t]) /\ \A u \in Acting(f[t]) : Inner(t)[u] = g[u] BY <1>3
    <2> QED BY <2>2, <2>3
<1> HIDE DEF R, Outer, D
<1>8. Carried(Outer) = p <=> Carried(Flat) = p BY <1>3, <1>4, <1>5, <1>6, <1>7
<1>9. ASSUME ActingSide(Outer) = p PROVE ActingSide(Flat) = p BY <1>3, <1>4, <1>5, <1>7, <1>9
\* A branch with nothing to act on would have to convert to the plain side.
<1>10. ASSUME ActingSide(Flat) = p PROVE ActingSide(Outer) = p
    <2>1. DOMAIN g # {} /\ \A u \in DOMAIN g : ActingSide(g[u]) = p BY <1>5, <1>10
    <2>2. D # {} BY <1>3, <2>1
    <2>3. ASSUME NEW t \in D, Acting(f[t]) = {} PROVE FALSE
        <3>a. PICK v \in DOMAIN g : TRUE BY <2>1
        <3>1. PICK s \in D : v \in Acting(f[s]) BY <1>3
        <3>2. \A r \in Acting(f[s]) : r \in DOMAIN g BY <1>3
        <3>3. ActingSide(Nested[s]) = p BY <1>7, <2>1, <3>1, <3>2
        <3>4. ActingSide(Nested[t]) # p BY <1>7, <2>3
        <3>5. Heterogeneous(Nested) BY <1>3, <3>3, <3>4 DEF Heterogeneous
        <3>6. Converts(ActingSide(Nested[t]), ActingSide(Outer))
            BY <1>1, <1>3, <3>5, BranchesConvert DEF Outer
        <3>7. Acting(Nested[t]) = {}
            <4>1. \A r \in DOMAIN f : Compiles(f[r], Inner(r)) BY DEF NestedCompiles, Inner
            <4>2. Acting(Nested[t]) = UNION {Acting(g[u]) : u \in Acting(f[t])}
                BY <4>1, NestedFacts DEF D
            <4> QED BY <2>3, <4>2
        <3>8. Acting(Outer) = Acting(Flat) BY FormsHoldTheSame DEF Outer
        <3>9. \A c : Acting(c) = Alternatives(ActingSide(c)) BY DEF Acting, ActingSide
        <3>10. Acting(Outer) # {} BY <1>10, <3>8, <3>9, PlainFacts
        <3>11. ActingSide(Nested[t]) # ActingSide(Outer) BY <3>7, <3>9, <3>10
        <3>12. Collapsible(ActingSide(Nested[t])) /\ ~empty_copack(ActingSide(Nested[t]))
            BY <3>6, <3>11 DEF Converts
        <3>13. ActingSide(Nested[t]) \in Sides BY <1>2, <1>3, CarrierFacts DEF FallibleTypes, ActingSide
        <3>14. some_copack(ActingSide(Nested[t]))
            BY <3>7, <3>9, <3>12, <3>13, SideForms DEF some_copack, Collapsible
        <3> QED BY <3>7, <3>9, <3>12, <3>14 DEF empty_copack
    <2>4. \A t \in D : ActingSide(Nested[t]) = p BY <1>3, <1>7, <2>1, <2>3
    <2> QED BY <1>4, <2>2, <2>4
<1> QED BY <1>8, <1>9, <1>10 DEF R, Outer, D

\* So they are the same type.
LEMMA FormsAreEqual ==
    ASSUME Second, FlatCompiles, NestedCompiles, \A c \in Bound : ~some_total(c)
    PROVE  Result(m, Nested) = Flat
<1> DEFINE Outer == Result(m, Nested)
<1>1. Outer \in FallibleTypes /\ Flat \in FallibleTypes BY FallibleForms
<1>2. /\ Outer.value \in ValueSides /\ Outer.error \in ErrorSides \ {NoError}
      /\ Outer = [value |-> Outer.value, error |-> Outer.error]
      /\ Flat.value \in ValueSides /\ Flat.error \in ErrorSides \ {NoError}
      /\ Flat = [value |-> Flat.value, error |-> Flat.error]
    BY <1>1, CarrierFacts DEF FallibleTypes, some_total
<1>3. Shape(Outer) = Shape(Flat) BY FormsHaveOneShape
<1>4. Alternatives(Outer.value) = Alternatives(Flat.value) /\ Alternatives(Outer.error) = Alternatives(Flat.error)
    BY <1>3 DEF Shape
<1>5. \A p \in Plains : /\ ActingSide(Outer) = p <=> ActingSide(Flat) = p
                        /\ Carried(Outer) = p <=> Carried(Flat) = p
    BY FormsPlainTogether
<1>6. \A p \in Plains : /\ Outer.value = p <=> Flat.value = p
                        /\ Outer.error = p <=> Flat.error = p
    <2>1. CASE verb = "and_then" BY <1>5, <2>1 DEF ActingSide, Carried
    <2>2. CASE verb # "and_then" BY <1>5, <2>2 DEF ActingSide, Carried
    <2> QED BY <2>1, <2>2
<1> HIDE DEF Outer
<1>7. Outer.value = Flat.value BY <1>2, <1>4, <1>6, SidesAgree
<1>8. Outer.error = Flat.error BY <1>2, <1>4, <1>6, SidesAgree
<1> QED BY <1>2, <1>7, <1>8 DEF Outer

(***************************************************************************)
(* Graded binds.  What is carried is a copack that takes what the branches *)
(* bring, so that only the join of the acting sides may not exist.         *)
(***************************************************************************)
LEMMA GradedFacts ==
    ASSUME NEW c \in Bindable, Graded(c)
    PROVE  /\ Carried(c) \in Copacks /\ Collapsible(Carried(c))
           /\ CarriedTypes(c) \in SUBSET Types /\ CarriedTypes(c) # {}
           /\ Acting(c) # {}
<1>1. some_copack(Carried(c)) /\ ~empty_copack(Carried(c)) /\ Acting(c) # {} BY DEF Graded
<1>2. Carried(c) \in Copacks /\ CarriedTypes(c) \in SUBSET Types
    BY <1>1, BindableFacts, SideForms DEF some_copack, CarriedTypes
<1> QED BY <1>1, <1>2 DEF empty_copack, some_copack, Collapsible, CarriedTypes

LEMMA GradedCompiles ==
    ASSUME verb \in Binds, NEW c \in Bindable, NEW fn \in [Acting(c) -> Bindable], Graded(c),
           \A t \in DOMAIN fn : Graded(fn[t])
    PROVE  /\ Compiles(c, fn) <=> list_join(ActingSides(fn)) # Absent
           /\ ActingSide(Result(c, fn)) = list_join(ActingSides(fn))
           /\ some_copack(Carried(Result(c, fn))) /\ ~empty_copack(Carried(Result(c, fn)))
<1> DEFINE join == list_join(ActingSides(fn))
           sides == {Carried(fn[t]) : t \in DOMAIN fn}
           own == Carried(c)
           carried == graded_join(own, sides)
<1>1. own \in Copacks /\ some_copack(own) /\ ~empty_copack(own) /\ Alternatives(own) # {} /\ Acting(c) # {}
    BY GradedFacts DEF Graded, CarriedTypes
<1>2. \A t \in DOMAIN fn : /\ Carried(fn[t]) \in Copacks
                           /\ Alternatives(Carried(fn[t])) # {}
                           /\ Alternatives(ActingSide(fn[t])) # {}
                           /\ ActingSide(fn[t]) \in Sides
    BY GradedFacts, BindableFacts DEF CarriedTypes
<1>3. sides \in SUBSET Copacks BY <1>2
<1>4. /\ carried \in Copacks /\ carried # Absent /\ Alternatives(carried) # {}
      /\ \A t \in DOMAIN fn : Converts(Carried(fn[t]), carried)
    <2>1. /\ carried \in Copacks /\ carried # Absent
          /\ Alternatives(carried) = Alternatives(own) \cup United(sides)
          /\ \A s \in sides : Alternatives(s) # {} => Converts(s, carried)
        BY <1>1, <1>3, CarriedJoins
    <2> HIDE DEF carried
    <2>2. \A t \in DOMAIN fn : Carried(fn[t]) \in sides OBVIOUS
    <2> QED BY <1>1, <1>2, <2>1, <2>2
<1>5. some_copack(carried) /\ ~empty_copack(carried)
    BY <1>4, CopackForm DEF some_copack, empty_copack
<1>6. ActingSides(fn) \in SUBSET Sides BY <1>2 DEF ActingSides
<1>7. ASSUME join # Absent, NEW t \in DOMAIN fn PROVE Converts(ActingSide(fn[t]), join)
    <2>1. ActingSide(fn[t]) \in ActingSides(fn) BY DEF ActingSides
    <2> QED BY <1>2, <1>6, <1>7, <2>1, JoinedConverts
<1> HIDE DEF carried, own, sides
<1>8. CASE verb = "and_then"
    <2>1. /\ own = c.error /\ sides = Errors(fn) /\ ActingSides(fn) = Values(fn) /\ c.value \in Sides
        BY <1>8, CarrierFacts, BindableFacts DEF own, sides, Carried, ActingSides, ActingSide, Errors, Values
    <2>2. ~some_empty_value(c) BY <1>1, <1>8 DEF some_empty_value, empty_copack, Acting
    <2>3. ~some_identity(c) /\ ~some_total(c)
        BY <1>1, <2>1, EmptySidesHold DEF some_identity, some_total, some_empty_error, some_copack
    <2>4. joined_error(c, fn) = carried BY <2>1, <2>3 DEF joined_error, carried
    <2>5. and_then_type(c, fn) = [value |-> join, error |-> carried]
        BY <2>1, <2>2, <2>4 DEF and_then_type
    <2>6. Result(c, fn) = and_then_type(c, fn) /\ (Compiles(c, fn) <=> and_then_compiles(c, fn))
        BY <1>8 DEF Result, Compiles
    <2>7. Exists(and_then_type(c, fn)) <=> join # Absent BY <1>4, <2>5 DEF Exists
    <2>8. ASSUME join # Absent PROVE EveryBranchConverts(fn, and_then_type(c, fn))
        <3>1. \A t \in DOMAIN fn : Converts(fn[t].value, join) /\ Converts(fn[t].error, carried)
            BY <1>4, <1>7, <1>8, <2>8 DEF ActingSide, Carried
        <3> QED BY <2>5, <3>1 DEF EveryBranchConverts
    <2>9. and_then_compiles(c, fn) <=> join # Absent BY <2>7, <2>8 DEF and_then_compiles
    <2> QED BY <1>5, <1>8, <2>5, <2>6, <2>9 DEF ActingSide, Carried
<1>9. CASE verb = "or_else"
    <2>1. /\ own = c.value /\ sides = Values(fn) /\ ActingSides(fn) = Errors(fn)
        BY <1>9 DEF own, sides, Carried, ActingSides, ActingSide, Errors, Values
    <2>2. ~some_empty_error(c) BY <1>1, <1>9 DEF some_empty_error, empty_copack, Acting
    <2>5. or_else_type(c, fn) = [value |-> carried, error |-> join]
        BY <2>1, <2>2 DEF or_else_type, carried
    <2>6. Result(c, fn) = or_else_type(c, fn) /\ (Compiles(c, fn) <=> or_else_compiles(c, fn))
        BY <1>9 DEF Result, Compiles
    <2>7. Exists(or_else_type(c, fn)) <=> join # Absent BY <1>4, <2>5 DEF Exists
    <2>8. ASSUME join # Absent PROVE EveryBranchConverts(fn, or_else_type(c, fn))
        <3>1. \A t \in DOMAIN fn : Converts(fn[t].error, join) /\ Converts(fn[t].value, carried)
            BY <1>4, <1>7, <1>9, <2>8 DEF ActingSide, Carried
        <3> QED BY <2>5, <3>1 DEF EveryBranchConverts
    <2>9. or_else_compiles(c, fn) <=> join # Absent BY <1>1, <2>1, <2>7, <2>8 DEF or_else_compiles
    <2> QED BY <1>5, <1>9, <2>5, <2>6, <2>9 DEF ActingSide, Carried
<1> QED BY <1>8, <1>9 DEF Binds

\* The result of a graded bind is graded.
LEMMA GradedResult ==
    ASSUME verb \in Binds, NEW c \in Bindable, NEW fn \in [Acting(c) -> Bindable], Graded(c),
           \A t \in DOMAIN fn : Graded(fn[t]), Compiles(c, fn)
    PROVE  Graded(Result(c, fn))
<1>1. PICK t \in Acting(c) : TRUE BY GradedFacts
<1>2. Acting(fn[t]) # {} BY <1>1, GradedFacts
<1>3. Acting(Result(c, fn)) # {} BY <1>1, <1>2, BindHolds
<1> QED BY <1>3, GradedCompiles DEF Graded

LEMMA GradedFormsCompileTogether ==
    ASSUME Second, \A c \in Bound : Graded(c)
    PROVE  FlatCompiles <=> NestedCompiles
<1> DEFINE R == Result(m, f)
           D == DOMAIN f
           parts == [t \in D |-> ActingSides(Inner(t))]
<1>1. m \in Bound /\ (\A t \in DOMAIN f : f[t] \in Bound) /\ (\A u \in DOMAIN g : g[u] \in Bound)
    BY DEF Bound, Range
<1>2. Graded(m) /\ (\A t \in DOMAIN f : Graded(f[t])) /\ (\A u \in DOMAIN g : Graded(g[u]))
    BY <1>1
<1>3. verb \in Binds /\ m \in Bindable /\ f \in [Acting(m) -> Bindable] /\ Compiles(m, f)
      /\ g \in [Acting(R) -> Bindable] /\ R \in Bindable
    BY SecondFacts DEF Second
<1>4. Graded(R) BY <1>2, <1>3, GradedResult
<1>5. FlatCompiles <=> list_join(ActingSides(g)) # Absent
    BY <1>2, <1>3, <1>4, GradedCompiles DEF FlatCompiles
<1>6. /\ DOMAIN f = Acting(m) /\ DOMAIN g = UNION {Acting(f[t]) : t \in D}
      /\ DOMAIN Nested = D /\ \A t \in D : Nested[t] = Result(f[t], Inner(t))
      /\ \A t \in D : /\ f[t] \in Bindable /\ Inner(t) \in [Acting(f[t]) -> Bindable]
                      /\ Acting(f[t]) \in SUBSET DOMAIN g
                      /\ Inner(t) = [u \in Acting(f[t]) |-> g[u]]
    BY SecondFacts
<1>7. \A t \in D : Acting(f[t]) # {} BY <1>2, <1>6, GradedFacts
<1>8. D # {} BY <1>2, <1>3, <1>6, GradedFacts
<1>9. ASSUME NEW t \in D
      PROVE  /\ Compiles(f[t], Inner(t)) <=> list_join(parts[t]) # Absent
             /\ Compiles(f[t], Inner(t)) => Graded(Nested[t])
             /\ ActingSide(Nested[t]) = list_join(parts[t])
             /\ parts[t] \in SUBSET Sides /\ parts[t] # {}
             /\ parts[t] = {ActingSide(g[u]) : u \in Acting(f[t])}
    <2>1. f[t] \in Bindable /\ Inner(t) \in [Acting(f[t]) -> Bindable] /\ Graded(f[t]) BY <1>2, <1>6
    <2>2. \A u \in DOMAIN Inner(t) : Graded(Inner(t)[u]) BY <1>2, <1>6
    <2>3. parts[t] = {ActingSide(g[u]) : u \in Acting(f[t])} BY <1>6 DEF ActingSides
    <2>4. parts[t] \in SUBSET Sides /\ parts[t] # {}
        <3>1. \A u \in DOMAIN g : ActingSide(g[u]) \in Sides BY <1>3, BindableFacts
        <3>2. \A u \in Acting(f[t]) : ActingSide(g[u]) \in Sides BY <1>6, <3>1
        <3>3. PICK u \in Acting(f[t]) : TRUE BY <1>7
        <3> HIDE DEF parts
        <3> QED BY <2>3, <3>2, <3>3
    <2>5. /\ Compiles(f[t], Inner(t)) <=> list_join(ActingSides(Inner(t))) # Absent
          /\ ActingSide(Result(f[t], Inner(t))) = list_join(ActingSides(Inner(t)))
        BY <1>3, <2>1, <2>2, GradedCompiles
    <2>6. Compiles(f[t], Inner(t)) => Graded(Result(f[t], Inner(t)))
        BY <1>3, <2>1, <2>2, GradedResult
    <2>7. parts[t] = ActingSides(Inner(t)) OBVIOUS
    <2> HIDE DEF parts
    <2> QED BY <1>6, <2>3, <2>4, <2>5, <2>6, <2>7
<1> HIDE DEF parts
<1> DEFINE inner == \A t \in D : Compiles(f[t], Inner(t))
           joins == {list_join(parts[t]) : t \in D}
<1>10. NestedCompiles <=> (inner /\ Compiles(m, Nested)) BY DEF NestedCompiles, Inner
<1>11. ASSUME inner PROVE Compiles(m, Nested) <=> list_join(joins) # Absent
    <2>1. Nested \in [Acting(m) -> Bindable] BY <1>11, NestedFacts
    <2>2. \A t \in DOMAIN Nested : Graded(Nested[t]) BY <1>6, <1>9, <1>11
    <2>3. Compiles(m, Nested) <=> list_join(ActingSides(Nested)) # Absent
        BY <1>2, <1>3, <2>1, <2>2, GradedCompiles
    <2>4. ActingSides(Nested) = joins BY <1>6, <1>9 DEF ActingSides
    <2> QED BY <2>3, <2>4
<1>12. inner <=> \A t \in D : list_join(parts[t]) # Absent BY <1>9
<1>13. ActingSides(g) = UNION {parts[t] : t \in D} BY <1>6, <1>9 DEF ActingSides
<1>14. parts \in [D -> SUBSET Sides] /\ \A t \in D : parts[t] # {} BY <1>9 DEF parts
<1>15. list_join(UNION {parts[t] : t \in D}) # Absent
           <=> (\A t \in D : list_join(parts[t]) # Absent) /\ list_join(joins) # Absent
    BY <1>8, <1>14, ListJoinSplits
<1> QED BY <1>5, <1>10, <1>11, <1>12, <1>13, <1>15

(***************************************************************************)
(* The theorem.                                                            *)
(***************************************************************************)
\* A bind that waits for the second, or has it, compiles and takes callbacks of its
\* own; nothing comes back to it from a call.
BindIInv ==
    /\ stage \in 1..4
    /\ stage \in {1, 2} /\ verb \in Binds =>
           m \in Bindable /\ f \in [Acting(m) -> Bindable] /\ Compiles(m, f)
    /\ stage = 2 => verb \in Binds /\ g \in [Acting(Result(m, f)) -> Bindable]

LEMMA CallbacksBindable ==
    ASSUME verb \in Binds, NEW c, NEW fn \in Callbacks(c)
    PROVE  fn \in [Acting(c) -> Bindable]
<1>1. CASE verb = "and_then" BY <1>1, BranchesAssumption DEF Callbacks, Bindable
<1>2. CASE verb = "or_else"
    <2>1. \A t \in Acting(c) : fn[t] \in FallibleTypes BY <1>2 DEF Callbacks
    <2> QED BY <1>2, <2>1 DEF Callbacks, Bindable
<1> QED BY <1>1, <1>2 DEF Binds

LEMMA InitBindIInv == CallInit => BindIInv
<1> SUFFICES ASSUME CallInit PROVE BindIInv OBVIOUS
<1>1. stage = 1 BY DEF CallInit, Init
<1>2. CASE Init
    <2>1. verb \in Binds /\ m \in Bindable BY <1>2 DEF Init, Binds, Bindable
    <2>2. f \in Callbacks(m) /\ Compiles(m, f) BY <1>2 DEF Init
    <2> QED BY <1>1, <2>1, <2>2, CallbacksBindable DEF BindIInv
<1>3. CASE ~Init
    <2>1. verb \notin Binds BY <1>3 DEF CallInit, MapInit, KeepInit, EqualInit, Binds, Maps
    <2> QED BY <1>1, <2>1 DEF BindIInv
<1> QED BY <1>2, <1>3

LEMMA StepBindIInv == BindIInv /\ [CallNext]_callVars => BindIInv'
<1> SUFFICES ASSUME BindIInv, [CallNext]_callVars PROVE BindIInv' OBVIOUS
<1> DEFINE Kept == m' = m /\ verb' = verb /\ f' = f
<1>1. ASSUME Kept
      PROVE  /\ (verb \in Binds)' = (verb \in Binds)
             /\ (m \in Bindable /\ f \in [Acting(m) -> Bindable] /\ Compiles(m, f))' =
                    (m \in Bindable /\ f \in [Acting(m) -> Bindable] /\ Compiles(m, f))
             /\ [Acting(Result(m, f)) -> Bindable]' = [Acting(Result(m, f)) -> Bindable]
    BY <1>1 DEF Binds, Bindable, Acting, Compiles, Result
<1>2. CASE Chain
    <2>1. /\ Kept /\ verb \in Binds /\ stage = 1 /\ stage' = 2
          /\ g' \in Callbacks(Result(m, f))
        BY <1>2 DEF Chain, BindSecond
    <2>2. g' \in [Acting(Result(m, f)) -> Bindable] BY <2>1, CallbacksBindable
    <2> QED BY <1>1, <2>1, <2>2 DEF BindIInv
<1>3. CASE Pipe \/ Enter
    <2>1. stage' \in {3, 4} BY <1>3 DEF Pipe, Enter
    <2> QED BY <2>1 DEF BindIInv
<1>4. CASE Perform \/ Throw \/ UNCHANGED callVars
    <2>1. Kept /\ g' = g /\ stage' = stage BY <1>4 DEF Perform, Throw, callVars
    <2> QED BY <1>1, <2>1 DEF BindIInv
<1> QED BY <1>2, <1>3, <1>4 DEF CallNext

LEMMA AssociateHolds == BindIInv => BindsAssociate
<1> SUFFICES ASSUME BindIInv, stage = 2
             PROVE  /\ FlatCompiles /\ NestedCompiles =>
                           /\ Shape(Result(m, Nested)) = Shape(Flat)
                           /\ (\A c \in Bound : ~some_total(c)) => Result(m, Nested) = Flat
                    /\ (\A c \in Bound : Graded(c)) => (FlatCompiles <=> NestedCompiles)
    BY DEF BindsAssociate
<1>1. Second BY DEF BindIInv, Second
<1> QED BY <1>1, FormsHaveOneShape, FormsAreEqual, GradedFormsCompileTogether

\* Two binds in a row are the same two binds nested, for any payload types and any
\* callbacks: one shape wherever both compile, one type where no carrier is a just or
\* a choice, and where all are graded the one form compiles if the other does.
THEOREM BindsAlwaysAssociate == CallSpec => []BindsAssociate
BY InitBindIInv, StepBindIInv, AssociateHolds, PTL DEF CallSpec
=============================================================================
