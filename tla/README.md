# A TLA+ development of libfn

libfn is a header-only C++20 library for functional programming. It has no
threads, no I/O and no allocation of its own; what is hard in it is what happens
to a discriminated union when the user's types throw in the middle of an
operation, and whether a graph of `requires` clauses, `if constexpr` arms and
`noexcept` conditions, spread over three layers of templates, agrees with itself
for every combination of what those types promise. This directory models the
library's state machines in TLA+, checks them with TLC for every combination of
traits on small instances, and proves the main results with TLAPS for any number
of objects and any types.

## Inventory

| component | state | operations | what is hard | what makes it correct |
|---|---|---|---|---|
| `pfn::expected` (`include/pfn/expected.hpp`) | a union of `T` and `E`, and the flag `set_` | constructors, `_assign`, `_assign_value`, `_assign_unexpected`, `_reinit`, `emplace`, `_swap_with`, destructor | each is several steps, any of which may throw; the union and the flag are written at different moments; which arm runs depends on four traits of each type | never valueless, the flag never lies; no lifetime is misused; a throw has the promised effect and no other; `noexcept` is honest |
| `fn::expected` (`include/fn/expected.hpp`) | inherits the storage of `pfn::expected` under another policy | the same clauses again; graded `and_then`, `or_else`, `transform`, `transform_error`; `operator&`, `operator\|` | repeats every clause by hand; the type of the error side grows along a pipeline | the same; the live error is always in the computed grade; the leftmost error wins |
| `fn::copack` (`include/fn/copack.hpp`, `detail/variadic_union.hpp`) | a union of `Ts...` and the index of the live one | constructors, widening, `_reinit`, `_reassign`, `emplace`, dispatch | no empty state to fall back on; replacement destroys the whole object; assignment rolls back from a snapshot | always holds one alternative; the strong guarantee; index and member agree across widening |
| `fn::choice`, `fn::just` | a copack; one payload | assignment through it, dispatch, `and_then`, `transform`; `operator&`, `operator\|` and the cluster they form with `expected<T, copack<>>` | inherited; an operand of the cluster changes the carrier of the result | the identity carriers never fail |
| `pfn::optional`, `fn::optional` | a union of `T` and a placeholder, and the flag; for `T&` a pointer | constructors, `_assign*`, `_reinit`, `reset`, `emplace`, `_swap_with` | `emplace` on a throw leaves it empty, assignment leaves it as it was; `T&` rebinds | flag and member agree; the guarantee each function promises |
| canonical type lists (`detail/meta.hpp`, joins in `copack.hpp`) | none (compile time) | `normalized`, `type_index`, `is_superset_of`, graded and list joins | order and duplicates of independent lists | union of alternatives: commutative, associative, idempotent, with `copack<>` as unit |
| verbs and `\|` (`and_then.hpp` ... `discard.hpp`, `functor.hpp`) | the carrier that flows through | `and_then`, `or_else`, `transform`, `transform_error`, `filter`, `recover`, `fail`, `inspect`, `inspect_error`, `value_or`, `discard` | which side runs the callback, which passes through, and what type comes out, for six carriers | exactly one side acts; the error set only grows where the verb says so |
| `fn::pack`, `pfn::tuple` | a flat tuple | `append`, concatenation, the product of packs, copacks and scalars, `conjoin`, `disjoin`, application | flattening and distribution; two spellings of the unit, `void` and `pack<>` | a pack never holds a pack; fields stay in the order of the operands; folds do not depend on nesting |
| examples (`examples/readme/main.cpp`, `examples/calculator`, and others) | `Rational`: a reduced pair of `int`; a stack of numbers | `make`, `add`, `sub`, `mul`, `div`; the tokens of a line | overflow of 64-bit intermediates; guards that overflow themselves; a line that fails half way | exact, or `Overflow`; operands and results only |
| `scripts/`, `ci/`, `cmake/`, docs | files | text rewriting | none of the library's logic | - |

The components meet in storage: a `choice` is a copack with a monadic interface,
the error side of a graded `fn::expected` is usually a copack, a pack travels as
the value side of an `expected`, and the verbs dispatch on all of them. Nothing
runs concurrently, and the only callbacks are the user's functions and the
special members of the user's types, which the models treat as steps that may
throw. `PROJECT.json` lists the hazards of this code at their lines.

## The plan

| order | modules | about | state |
|---|---|---|---|
| 1 | `ExpectedCalls`, `ExpectedSpec`, `ExpectedStorage`, `ExpectedStorage_proofs` | storage of `expected`: abstract specification, step machine, refinement, proofs | done |
| 2 | `CopackStorage`, `CopackStorage_proofs` | storage of `copack`: step machine, proofs | done |
| 3 | `OptionalCalls`, `OptionalSpec`, `OptionalStorage`, `OptionalStorage_proofs` | storage of `optional`, and `optional<T&>`: the same four parts | done |
| 4 | `Carriers`, `Verbs`, `GradedSpec`, `Pipeline`, `Carriers_proofs`, `Pipeline_proofs` | `expected`, `optional`, `just` and `choice` through the verbs: the type computed for the result, the content at run time, and the algebra of grades they implement | done |
| 5 | `BindLaws` | a chain of binds against the nested chain (proved in `Exceptions_proofs`) | done |
| 6 | `Exceptions`, `Exceptions_proofs` | what each verb and comparison runs of the user's code, against what its `noexcept` clause weighs | done |
| 7 | `Conjunction`, `SemiringSpec`, `Conjunction_proofs` | `operator&`, `operator\|`, `conjoin`, `disjoin` over all five carriers, and the semiring they implement | done |
| 8 | `Rational`, `Calculator`, `Examples_proofs` | the two examples that compute: exactness and overflow, the stack machine | done |
| 9 | `TypeLists`, `PackAlgebra` | sort and unique over keys; flattening | planned |

Every safety property of the passing runs is a theorem. Left are the one liveness
property, that of the optional, which is beyond the provers, and what a proof about
`TypeLists` and `PackAlgebra` would add once they are there.

## The modules

**ExpectedCalls** is the vocabulary of an expected: what the traits say of `T` and
`E` (a *profile*), the calls a program makes (a *call* carries, beside its operand,
which of the two constructors and assignments it uses are nothrow), the
`requires` clauses (`Requires`) and the `noexcept` conditions (`Noexcept`). A
payload is opaque; `Hollow` is what a moved-from object holds. A profile also has
`strong`, which no trait can tell: whether a throwing operation of the user's type
leaves its operands alone. When it is false a throw may hollow any operand the
operation could write.

**ExpectedSpec** is what a user may rely on: an object is a value or an error, a
call takes its whole effect at once or throws, one declared `noexcept` does not
throw, and a throw changes no side and no payload other than those of `Spoilable`.

**ExpectedStorage** is the code. Its variables are the union (`storage`: the member
that is live and its payload), the flag (`set`), the objects within their
lifetime (`alive`), the local `tmp` or byte snapshot (`temp`), and the call in
progress with the step it is at (`call`, `pc`). There is one action for each
operation on a `T` or an `E`, with a second one for its exception:

| code | actions |
|---|---|
| constructors | `Create`, `CreateThrows` |
| `_assign*`, same side | `Assign`, `AssignThrows` |
| `_reinit`, `New tmp(args...)` | `StashNew`, `StashNewThrows`, `DestroyOld`, `ConstructFromTemp` |
| `_reinit`, byte snapshot of a trivial `Old` | `StashBytes`, `ConstructFromArgs`, `ConstructThrows`, `Restore` |
| `_reinit`, `Old tmp(move(*oldp))` | `StashOld`, `DestroyOld`, `ConstructFromArgs`, `ConstructThrows`, `Restore` |
| `_reinit`, nothrow; void primary and placeholder | `DestroyOld`, `ConstructFromArgs` (and `ConstructThrows`, `Restore`) |
| `set_ = ...` | `SetFlag` |
| `emplace` | `EmplaceDestroy`, `EmplaceConstruct`, `EmplaceKeeps` |
| `_swap_with`, `_swap_helper` | `SwapMembers`, `SwapStash`, `SwapDestroy`, `SwapMove`, `SwapRestore`, `SwapRelease`, `SwapFinish`, `SwapFlags` and the throwing variants |

`Entry` and `ReinitArm` are the conditions of the functions and the `if constexpr`
chains. A step that would be undefined behaviour, or that moves a type where the
code has no answer to an exception, sets `fault` instead of being disabled, so a
`requires` clause that is too weak shows. The two arms of `_swap_helper` mirror each
other, and the model has them once, in terms of the `Pivot` (the member that goes
through the temporary), its `Holder` and the `Peer`.

**CopackStorage** is the storage of a copack in the same style: `_reinit` for an
alternative that replaces another, `_reassign` for one assigned in place, with its
four arms (assign directly; from a temporary; under a snapshot made by a move; by
a copy). A call may be *aliased*: its argument refers to the alternative held.

**OptionalCalls**, **OptionalSpec** and **OptionalStorage** do for `optional<T>` what the
three modules above do for an expected. Two passes of `_reinit` do all the work
across the states: to gain a value (`ClearPlaceholder`, `Construct` or
`ConstructThrows` and `Restore`, `SetFlag`) and to lose it (`DestroyValue`,
`ConstructPlaceholder`, `ClearFlag`). Assignment takes one of them; `emplace` loses,
then gains; a swap across the states gains in one object (`Gainer`) and loses in the
other (`Loser`). `Create`, `Assign`, `SwapValues` and their throwing variants, and `Keep`,
are the calls that stay within one state. An `optional<T&>` is a pointer (`refs`) to
the value of some object: `RefBind`, `RefAssign`, `RefSwap` and `RefReset` are its
operations, and a call `fromRef` on an `optional<T>` reads through it, possibly from
the object assigned to. A reference may dangle; reading through one that does is
excluded, as it is by the precondition of `operator*`.

**Carriers** is the vocabulary of the graded half of the library. A *side* is a
value or error type as the compiler sees it: plain, `void`, a copack, or, for the
error of an optional, `None`, and for that of a `just` or a `choice`, which have no
error channel, `NoError`, a side that nothing is ever in. (A `choice` is then the
total carrier over a copack, a `just` over anything else; there is no `choice<>` and
no `optional<void>`, which is what `admits` says.) Its alternatives are a list in canonical order
(`normalized`); a payload type is the number that is its sort key. The joins are
those of `copack.hpp`: `list_join` for the side a bind dispatches on, `graded_join`
for the side it carries past the callback; where there is no `type`, they are
`Absent`. *Content* is what a carrier holds at run time: the side, the `index` of the
alternative (`at`), the union member that is live (`member`) and its payload.
`Dispatched` goes by the index and never looks at the member, as the code does;
`Widen` finds the index anew in the wider list.

**Verbs** computes the result type of each verb from the carrier and the callback,
which is a function from alternatives to what it returns for them, and says whether
the call compiles. Branches that differ are converted one by one, branches that
agree are passed through whole; that difference decides what compiles. The carriers
that cannot fail (`just`, `choice`, and `expected<T, copack<>>`) form a cluster whose
binds may leave their own kind: `joined_error` has the cases.

**Pipeline** is the state machine: `carrier` (the type), `content`, and `stage` (the
functor that was made and is about to be applied). `MakeAndThen` and its like choose
any callback that compiles; `AndThen` and its like run it on the side that acts and
carry the other side into the result. Over `just` and `choice`, which carry nothing
else, they are `AndThenTotal` and `TransformTotal`; a `transform` of a `just` whose callback
returns a copack is promoted to a `choice`.

| code | actions |
|---|---|
| `fn::and_then(f)` and the other verbs that take a callback | `MakeAndThen`, `MakeOrElse`, `MakeTransform`, `MakeTransformError` |
| applying them | `AndThen`, `OrElse` (`Bind`), `Transform`, `TransformError` (`Map`); `AndThenTotal`, `TransformTotal` |
| a callback whose result type is uninhabited | `Diverge` |
| `filter`, `fail`, `recover`, `value_or` | `Filter`, `Fail`, `Recover`, `ValueOr` (`Switch`) |
| `copack_error()`, `copack_value()` | `CopackError`, `CopackValue` (`LiftSide`) |

A callback may well have the result type `expected<copack<>, copack<>>`: it compiles
and can be called, and can only throw or run forever. `Diverge` is that: a step that
changes nothing, so that the pipeline neither stops nor makes up a result.

**GradedSpec** is the algebra a user reasons in: a side is a set of types, a bind
unites the errors of its branches with those collected before, a recovery leaves
only the errors its branches return, and the live content is of one of the types of
its side. It knows no forms, no order and no index.

**BindLaws** makes no content, only types: for every carrier, every pair of callbacks
over a set of branch types, and either bind, it compares the type of `m | f | g` with
that of `m | (x -> f(x) | g)`. Through a `just` or a `choice` the two may be different
spellings: `expected<void, copack<>>`, bound to a `just` and then to an
`expected<T, E>`, is an `expected<T, E>` as a chain, and graded, an
`expected<T, copack<E>>`, when nested. There the property asks for the same *shape*, the
same alternatives on either side, which is how section 14 of `TYPE_ALGEBRA.md` states
the laws across the cluster; everywhere else for the same type.

**Exceptions** puts, on the types of `BindLaws`, the call itself. A body chooses among its
arms with `if constexpr`, its `noexcept` specification cannot, so traits repeat the
conditions; the model has the two sides apart, as the code has. An *operation* is the
call of a callback for one alternative, or the copy, move, comparison or construction of
a payload. `Runs` is the set of the sequences of operations the body may run, over all
contents of the operand and all answers of the callback; `Weighed` is the set of
operations the clause asks about. An arm of the body decides for its own alternative: a
result of the callback that is the type announced is returned as it is (`Returned`) and
moves nothing, any other is widened and moves its content (`Brought`). The traits cannot
run the arms and decide from the types a callback returns as a whole: if they are one type
of the operand's kind (`AgreesInKind`), only a widened grade makes a conversion, if not,
each that differs from the join (`BindConverts`); for the maps, whether a copack
collapses or a plain value is promoted (`MapConverts`). A side of `copack<>` has no
alternatives and so is never relocated (`_nothrow_arm`). The steps:

| code | actions |
|---|---|
| a pipe, with its operand as an lvalue or an rvalue | `Pipe` |
| a second bind in the chain | `Chain` |
| the body is entered, and takes one of its paths | `Enter` |
| one operation returns, or throws | `Perform`, `Throw` |

**Conjunction** is the algebra of `operator&` and `operator|` over `just`, `choice`,
`optional` and `expected`. A *side* is one alternative or a copack of them; an
alternative is a scalar or a flat pack; `Void`, the unit error of an optional
(`Empty`) and the error a cluster carrier has not (`NoError`) are sides of their
own. `product` is `_fold_detail::fold` with its distribution over copacks, `sum` is
what `copack_for` makes of two sides that differ, and `and_type`, `or_type`,
`and_content`, `or_content` say what the overloads, some thirty, answer: in types for
each pair of carriers, and in contents for each state of the two operands. The
state machine is a fold from the left (`conjoin`, `disjoin`, and any mix of the two):
`Conjoin` and `Disjoin` take any next operand that compiles. Each field of an operand
carries its type and the position of the operand, so that one that changes place
shows.

**SemiringSpec** is the one rule behind all of them: a side is a set of words, `&`
multiplies values and adds errors, `|` the opposite; what multiplies must be there in
both operands, what adds is that of the leftmost operand which has it. It knows no
carriers, no void, no bare or graded sides and no cluster.

**Rational** is the example of the README at any width: `Half` is 2^31, and `long long`
has twice the bits of `int`. `make` divides by `gcd` (`lowest`), checks the range
(`representable`) and answers a value or an error; `neg`, `inv`, `add`, `mul`, `sub` and
`div` are the members, `evaluate` the function. Each result is a set: one outcome, or any
outcome at all where a term of the expression does not fit a `long long`, as signed
overflow is undefined (`Computed`). `gcd` is a constant with the contract the standard
gives `std::gcd`. A program starts from two operands that were parsed or made,
evaluates, and goes on with the result in the place of either.

**Calculator** is the stack machine of `examples/calculator`. `stack` is what `main`
keeps, `acc` what the fold of `evaluate` hands from step to step, `token`, `error` and
`count` say where in a line it is. `Evaluate(t)` is one round of the fold: `step` with
its `lookup` (the token is one of `Tokens`), the pops (`Popped`, the right operand
first), the arm of `execute` that overload resolution picks (`OfLongs`, `Promoted`), and
`store`. `EndLine` is the rest of `main`'s loop: the result replaces the stack, an error
leaves it. A line is read token by token as it is evaluated, which no step of the
program can tell from reading it first. `long` is exact, with its guards written out
(`overflowsAdd`, `overflowsSub`, `overflowsMul`): a test one of whose expressions does
not fit a `long` may say anything (`Tested`), and so may a result that does not. The
division is the one of the language, which truncates (`Quotient`). A double is opaque;
any operation on one that the code admits may overflow. `MCExamples` puts the two
examples into one run, a behaviour of which is a behaviour of either.

## The runs

| run | shows |
|---|---|
| `expected_storage` | all 24 profiles: never valueless, no misuse of a lifetime, the exception guarantee, honest `noexcept`, and that every run is one of `ExpectedSpec` |
| `expected_assigns_strongly` | a violation: `CHANGELOG.md:63` promises the strong guarantee, an assignment within one side has only what the payload's own `operator=` gives |
| `copack_storage` | all 32 profiles of two alternatives: always one alternative, the strong guarantee with no help from the types, honest `noexcept`, and one effect whichever arm runs |
| `copack_alias` | a violation: assigning to a copack the alternative it holds, through a reference to it, loses the payload in the arm that moves the snapshot out first |
| `optional_storage` | all 4 profiles: flag and union agree, no misuse of a lifetime, the references stay references, and every run, to the end of every call, is one of `OptionalSpec`: an `emplace` that throws empties its target, any other call leaves every object as engaged as it was |
| `pipeline` | every `expected`, `optional`, `just` and `choice` over two payload types and every callback that compiles for it: the content is always one the computed type has room for (no `unreachable()` is reached), its index names its member, no bind drops a grade that anything could be in, and every step is one of `GradedSpec` |
| `pipeline_applicable` | a violation: `applicable_and_then` accepts a callback, one branch of which returns a carrier of `copack<>`, and applying it does not compile (`TYPE_ALGEBRA.md:1021` promises an answer instead) |
| `bind_laws` | two binds in a row and nested have one type wherever both compile, or one shape if they pass through `just` or `choice`; graded throughout, both compile or neither does. For every verb, `apply` and `==` over every carrier: what throws was weighed by the `noexcept` clause, and what is weighed can run |
| `choice_noexcept` | a violation: `TYPE_ALGEBRA.md:1033` says that `noexcept` is computed; `==` and `!=` of two choices of different types are `noexcept` whatever the alternatives do |
| `conjunction` | up to three operands of every kind under any mix of `&` and `\|`: the result is a carrier the library allows and its content fits its type; a fold of one operator has the type and the content of the same operands nested the other way; every step is one of `SemiringSpec` |
| `conjunction_unit` | a violation: `TYPE_ALGEBRA.md:504` says that `I & A` and `A` are the same type, with `pack<>` for `I`; for a scalar `A` the result is `pack<A>` |
| `examples` | every `Rational` of a four-bit `int`, every operation: reduced with a positive denominator; a value is the exact one, so nothing overflowed on the way; an `Overflow` means that the result does not fit, or that the operand which `sub` negates or `div` inverts does not once it is turned around (`-1 - INT_MIN` is `INT_MAX`, and refused). Every line of the calculator on every stack: a result on two `long`s is the one in the integers, an `Overflow` means that it does not fit (for `%`: that the quotient does not), and no guard overflows itself; a token changes its own operands only, and lacks some exactly when it says so; nothing infinite gets onto the stack |

**Bounds.** Two objects: no operation touches a third, and a call between two is the
most there is. Two payloads and the hollow one: enough to tell the old from the
new from the lost. Two alternatives of a copack: the one that comes in and the one
that goes out; the index is only compared for equality. Two references: enough for them to agree,
differ and swap, and one each to the two optionals. Profiles are not sampled:
every combination of traits the code asks about is an initial state, so all arms
are reached; in the pipeline, two payload types give every form of side and, in
copacks of one and of two, every way a list can grow around an alternative and move
it; two tokens tell a payload kept from one replaced, and are interchangeable, hence
the symmetry. Every carrier is an initial state, so the pipeline is checked from
every type, not only from those a short chain reaches. `BindLaws` draws its
callbacks from seventeen branch types that agree, differ, grade a plain side, have an
empty side, or are `optional`, `just` or `choice`, for each of the fifty-four carriers; its programs end
after their second bind, or when the one call they make is over, which is why that run
does not look for deadlock. Two types are all that a clause can tell apart: an operation
is weighed or not for each type by itself.
`Conjunction` takes twenty-three operand types, every kind of carrier
with every kind of side: three of them are what associativity speaks of, and the
third meets the results of the first two, packs and copacks of packs that no single
operand is; its programs end after the last operand, so that run does not look for
deadlock either. `Rational` has an `int` of
four bits and a `long long` of eight: every operand that can be represented, every pair
of `int` that a string may name, and the extremes of `long long`, which only a direct
`make` meets. The calculator has a `long` of four bits too, two doubles (zero and
another), stacks three deep (two operands and one number below them) and lines of two
tokens, one after the other on the stack that the line before left: a token that fails
at once, one that fails after another, and none. `ExpectedAssignsStrongly.cfg` keeps the
profiles with throwing types. Nothing else is bounded: a run is an endless sequence of calls.

**Fairness.** The library is sequential: a call that has begun is executed by the
caller's own thread and waits for nothing. `OptionalStorage` and `OptionalSpec` say so, as
weak fairness of `Step` and of `Return`: `emplace` and `swap` of an optional go through
`_reinit` twice, with a handler in the first pass, and must come out of it. Nothing makes
a program begin a call or destroy an object, and nothing is assumed about that. No other
module assumes fairness: an arm of `_reinit` in an expected or a copack goes through its
steps once, in order, and that it ends says nothing that its refinement or its invariants
do not.

## The proofs

`ExpectedStorage_proofs` proves, from `ProfilesAssumption` (a profile is a combination
the language allows: a trivially copyable type moves without throwing, the
placeholder of `expected<void, E>` is trivial) and for any sets of objects and
payloads:

- `TypeCorrect`: every variable keeps its type and no temporary outlives its call;
- `NeverValuelessAlways`: between calls, flag and union agree for every object;
- `NoFaultEver`: no step misuses a lifetime or relies on a move that may throw;
- `NoexceptIsHonest`: no exception leaves a function whose condition excludes it;
- `ExceptionsUndo`: a call that throws gives back what `ExceptionGuarantee` says;
- `StorageImplementsExpected`: the machine implements `ExpectedSpec`, step for step.

`NeverValueless` only speaks of the moments between calls and says nothing that a step
could start from, so it is not inductive. `IInv` adds what holds at each step of
each call: which members are live (`ReinitInv`, `EmplaceInv`, `SwapInv`), which
objects may disagree with their flag at that step (`SoundInv`), where a temporary
can exist (`TempInv`), and that the call in progress satisfies its `requires` clause
(`CallInv`). From the last, `ArmIsSafe` derives that in every arm the moves of the
handlers are nothrow; that is where the clauses of the callers and the arms of
`_reinit` meet, and it is the heart of `NoFaultEver`. `NoexceptInv` remembers, while a
handler runs, that what threw was allowed to. `GInv` is for the exception guarantee: at
each step that an exception can still come from, all objects but one are as they were
(`Kept`), and the payload of that one is in the temporary (`Rescued`, `Stashed`), or was
the placeholder of `expected<void, E>`, which has only one (`VoidInv`).

For the refinement, the mapping shows an object as it was `before` while a call is
inside, so the step that ends the call must make the whole effect visible at once.
`GInv` says what a handler gives back; `EffectInv` is the other half, and says at each
step how much of the effect is already there: the new member holds what was given
(`ReinitEffect`, `EmplaceEffect`), or one of the two objects of a swap has what the other
had (`SwapEffect`). With them each ending step is a lemma: `SetFlagRefines`,
`SwapFlagsRefines` and their like are `Finish`, `RestoreRefines` and `SwapRestoreRefines`
are `Fail`, where `NoexceptInv` gives that the call was allowed to throw; all other steps
stutter (`RestRefines`).

`OptionalStorage_proofs` proves `TypeCorrect`, `FlagAlwaysTells` and `NoFaultEver` for
optionals in the same way, from `OptionalAssumption` (the constants name different
things). Its `IInv` says how far the pass in progress has gone with the object that
gains or loses (`PassInv`), that a value about to be read is still there (`DonorInv`,
needed because the source may be the target, seen through an `optional<T&>`), and
that all other objects are sound (`SoundInv`). The step that needs most of it is
`SetFlag` of a swap: the second pass starts there, on another object, and its
invariant holds only because the first pass never touched that object.
`StorageImplementsOptional` is the refinement of `OptionalSpec`, argued like that of
`ExpectedSpec`: its `EffectInv` follows the passes of `_reinit`, `GainEffect` and
`LoseEffect`, and adds that an object without a value holds nothing that could differ
(`EmptyInv`).

`CopackStorage_proofs` proves the six invariants of its run, from `CopackAssumption`
on profiles and for any objects, payloads and alternatives: `TypeCorrect`,
`NeverValuelessAlways`, `NoFaultEver`, `GuaranteeIsStrong`, `NoexceptIsHonest` and
`AlwaysDelivers`. The last three compare the end of a call with its beginning, so the
invariant carries `before`, and says at each step which part of it is in the object,
which in the temporary or the snapshot, and which nowhere any more (`MemInv`); `EndInv`
says what has been reached when the call ends. The argument to the strong guarantee is
in the handlers: a rollback only runs in the arms whose snapshot is nothrow to move
back, which `CallInv` derives from the `requires` clause.

`Exceptions_proofs` proves, from `CarriersAssumption` and for any callbacks,

- `NoexceptIsHonest`: an exception that leaves a call was weighed by its clause;
- `NoexceptIsExact`: what a clause weighs, some run of the body does (if there is any
  payload at all).

Each needs one lemma for each family of verbs, from the same pieces: the content of a
side that passes by, a call followed by the content it returned. For the binds and maps
the two sides decide differently, and `BroughtWeighed` and `WeighedBrought` show that they
agree: what an arm moves is of a type that the traits expect to be converted, and such a
type is moved by the arm of every alternative that returns it. The comparison needs `ContentDispatched`: the live
alternative is one of the side's.

The same module proves the law of `BindLaws`, for any payload types, any set of branch
types and either bind:

- `BindsAlwaysAssociate`: `m | f | g` and `m | (x -> f(x) | g)` have one shape where both
  compile, one type where no `just` or `choice` takes part, and where everything is
  graded the one compiles if the other does.

Its invariant (`BindIInv`) is small: the first bind compiles, and each callback is one
for the carrier it is bound to. The rest is about the operators. The shape follows
from what a result type holds (`BindHolds`): both forms unite the same sets, by one
step or by two. Of carriers that can fail, the types of a side determine it but for one
bit, whether it is plain (`SidesAgree`), and a result is plain exactly if every branch
brings the same plain side (`BindPlain`). There the two forms could differ in one case, a
branch of `f` with nothing to act on, which `g` never sees in the chain and which stays as
it is when nested; but then the branches differ, and `copack<>` converts to no plain side
(`FormsPlainTogether`). Graded, the carried sides always join, so a bind compiles if the
acting sides do (`GradedCompiles`), and those join as a whole if and only if they join
branch by branch, and then once more (`ListJoinSplits`).

`Carriers_proofs` and `Pipeline_proofs` prove, from `CarriersAssumption` (payload types
have distinct keys and are finitely many) and for any such set of types:

- `TypeCorrect`: content always fits the computed type, so no arm is reached that the
  code declares `unreachable()`;
- `IndexAlwaysNames`: the index names the member, through any number of widenings;
- `GradeIsKept`: no bind drops the grade of the side it carries;
- `PipelineImplementsGraded`: the pipeline implements `GradedSpec`, under the mapping
  that forgets forms, order and index.

The base is `NormalizedHolds`: the canonical list of a finite set is a bijection from
positions to members. It is proved by counting (`RankInRange`: the rank of a member is
a position; `RankSeparates`: two members have two ranks), because an induction over
the list is not available. On it rest, for each join and each result type, what the
type holds *where it exists* (`AndThenTypeHolds` and its like; `JoinedErrorHolds` for
the cluster); compiling is exactly what makes it exist. `TotalHoldsValue` is what lets a
bind leave the cluster: a `just` or a `choice` never holds anything on its error side, so
nothing is lost when the result has another one, or none. The invariant is `IInv`: the carrier is a type, the content fits
it with the index `type_index` gives, and the functor that waits compiles for it
(`StageFits`). Without the last, the step that applies the functor has no result type
to fit into; it is where the compile-time and the run-time half of a verb meet.

`Conjunction_proofs` proves, from `OperandsAssumption` (operands are carrier types the
library admits) and for any set of payload types, any operands and folds of any
length:

- `TypeCorrect`: `&` and `|` do not lead out of the carriers;
- `ContentAlwaysFits`: the computed type has the alternative that is held, and the
  fields of a pack are of the types, in the order, that it names;
- `AlgebraIsSemiring`: the overloads together implement `SemiringSpec`;
- `FoldsAlwaysAssociate`: three operands folded from the left, as `conjoin` and `disjoin`
  do, and nested from the right have one type and one content;
- `ProductDistributes`: the product of sides distributes over their sum, as sets of
  words, and `copack<>` annihilates it; no finer, since `B` and `pack<B>` are two
  alternatives of a sum and make one once they are multiplied.

The invariant says that the result is a carrier type whose content fits, and that
there is one operator fewer than operands. The work is in `AndType`, `OrType`,
`AndContent` and `OrContent`, lemmas about one application to two operands that
fit: void is the case that needs care, being a word without fields on a bare side and
a pack without fields in a copack, and so is the side that is not there, which the
product annihilates and the sum ignores.

For the last, `Folded` is inductive: it says which applications made the result out of
the operands so far, and that each compiled. What is left is associativity of the
operators, `AndAssociates` and `OrAssociates`, up to the form of each side, not only up to
the words that `SemiringSpec` sees: `SumOfThree` has the one case in which a sum is not
a copack, three equal sides, and `JoinsAssociate` follows `void`, which a genuine sum
turns into `pack<>` and a bare one keeps. For `&`, that the left fold compiles implies
that the right one does (`AndCompiles`); for `|` it does not, and the property, like the
code, asks for both.

`Examples_proofs` proves, from `WidthAssumption` and `GcdAssumption` (what the standard
promises of `std::gcd`), for an `int` of any width:

- `TypeCorrect` and `CanonicalAlways`: `make` lets nothing through that is out of range,
  not reduced, or negative in the denominator;
- `ExactAlways`: no expression in `long long` overflows, and a value that comes out is
  the exact result;
- `DeservedAlways`: nothing is refused that has a `Rational` for its result, but for the
  operand that `sub` negates and `div` inverts first.

`QuotientsReduced` is the argument for the first: a common divisor of the two quotients
would, multiplied by the `gcd`, be a greater one. `SumFits` is that for the second: two
products of an `int` and a denominator stay each below the square of `Half`, and their
sum below the limit, because a denominator is never the minimum; that is why the
invariant needs `CanonicalAlways`. `ExactDifference` and `ExactQuotient` cancel the
denominator of the operand that `sub` negates and `div` inverts. The last needs that a
reduced fraction has the smallest denominator of all its spellings, so that one out of
range has no other spelling in range (`ReducedFits`). Instead of Euclid's algorithm, which
would be an induction, `LeastDenominator` takes the smallest spelling, which exists since
inclusion of finite sets is well founded (`LeastNatural`), and shows that it divides
every other one.

Of the calculator it proves, from `CalculatorAssumption` (a largest `long`, a bound for
the line) as well, for a `long` of any width and lines of any length:

- `CalculatorTypeCorrect`: only finite doubles and `long`s in range are on the stack;
- `AlwaysExactOrRefused`: on two `long`s, a result is the one in the integers, and
  `Overflow` means that it does not fit;
- `TokensKeepToTheirOperands`: a token that succeeds takes its operands and nothing below
  them, and one fails for want of operands exactly if it lacks some.

`AddExactly`, `SubExactly` and `MulExactly` are the heart: for each sign of the operands
the guard's own expression stays in range, and it is true exactly if the result would
not (`GuardsExactly`); `QuotientFits` is that for the division, where only `minimum / -1`
does not fit. `Truncates` says what the quotient of the language is, from its signs. The
steps only need that the stack keeps its type. `ExamplesIncludeReadme` carries the
theorems about `Rational` over to the run that checks both examples.

Model-checked only: `ImplementsOptionalLive`, that every call of an optional ends, which is
what `Spec` adds to `Safety` in `OptionalSpec`, under the fairness above; the provers here cannot reason
about `ENABLED`. The five violations are TLC's as well. Of the recursion in the code,
where the models need it, the proofs use what counting and the least element of a set
give; an induction over data is out of the provers' reach.

## What is not modelled

- The parts the plan still has, listed above.
- In the conjunctions: the `noexcept` conditions, and `&` over bare data, which is the
  same `fold` with no carrier around it.
- In the pipeline: packs as payloads, and the verbs that change nothing. `inspect`,
  `inspect_error`, `apply` and `==` are in `Exceptions`, as to what they run and promise;
  `apply_r`, `apply_type`, the comparison with a bare value, and `discard` are nowhere.
  Payload types that convert into each other: the model's do not.
- Observers, what a comparison answers, and conversions between specializations: they
  change no state. Overload resolution and deleted members: they decide whether a
  program compiles, not what it does; the model starts from calls that compile.
- Move self-assignment of an expected: the code forwards it to the payload, or
  does nothing to prevent it, as the standard does.
- Constant evaluation: the constexpr variant of the byte-snapshot arm has the
  steps of the backup arm.
- What is in the other examples (`polygon`, `simple`, `type_algebra`), and how the
  examples spell numbers: the models start from what a spelling denotes.
- The types' own destructors are assumed not to throw, as the library assumes.
