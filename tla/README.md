# A TLA+ model of perl-libjit

perl-libjit lets a Perl program emit machine code through libjit, and in
particular emit code that takes the place of a Perl OP: `LibJIT::PerlAPI`
(`src/src/jitapi.c`) emits the pieces of pp functions, `LibJIT::API` wraps
libjit itself.  This directory holds the TLA+ modules, the TLC configurations
and the TLAPS proofs about it.  Paths below are relative to the repository's
parent, as in `PROJECT.json`.

## Inventory

| Component | Source | State | Operations |
|---|---|---|---|
| Emitters of Perl operations | `src/src/jitapi.c` | none of their own: they append instructions to a `jit_function_t`; the instructions act on the interpreter (`PL_op`, `PL_curcop`, `PL_stack_sp`, the context, scope, save and temporaries stacks) when the compiled function runs | `pa_create_pp`, `pa_pp_op`, `pa_call_runloop`, `pa_pp_nextstate`, `pa_pp_unstack`, `pa_pp_enterloop/leaveloop`, `pa_async_check`, `pa_freetmps`, `pa_leave_scope`, stack, pad, SV, AV and GV access |
| Generated wrappers | `src/src/gen-jitapi.inc`, `gen-jitapi.h`, `src/xsp/gen-jitapi.xsp` | none | one native call each |
| Perl's run loop and callers of `op_ppaddr` | external | the C stack, `PL_op` | `while ((PL_op = PL_op->op_ppaddr(aTHX)))`, callbacks (`call_sv`, magic, signal handlers), die |
| libjit wrappers | `src/xsp/*.xsp` | labels in Perl SVs, the build lock of a context | labels and branches, calls, types, constants, closures, apply |
| Applying a function | `src/src/helpers.cpp` | argument buffers | `lj_function_apply`, conversions |
| Arguments that are objects | `src/src/helpers.h`, `helpers.cpp:3-9`, `src/xsp/libjit.xspt` | vectors of pointers | `lj_convert_avref_to_object_array`, `lj_convert_sv_to_object` |
| Contexts and functions | `src/xsp/context.xsp`, `src/xsp/gen-api.xsp`, `pa_create_pp` | the build lock of a context, which clones share; functions being built, compiled, recompilable; the metadata that holds the interpreter | create, build start/end, compile, destroy |
| Type map | `src/src/jittypes.h`, `src/xsp/type.xsp` | none (compile time) | choice of a JIT type for `IV`, `UV`, `NV`, `bool` |
| Boot and constants | `src/src/init.cpp`, `src/xsp/constant.xsp` | constants in `LibJIT::API` | `lj_define_int`, `lj_define_type`, `jit_value_create_*_constant` |
| Generators | `src/author_tools/*.pl` | none (author time) | text processing: signatures and wrappers |
| Dumps, export lists, build files, `ppport.h` | `src/xsp/dump.xsp`, `src/lib`, `src/dist.ini`, `src/inc` | none | none that changes state |

How they interact: a Perl program calls the emitters (through the XS wrappers)
between `jit_context_build_start` and `jit_context_build_end`, compiles the
function, stores the closure in the `op_ppaddr` of an OP, and runs the optree
(`src/t/020_op.t`).  From then on Perl's run loop calls the compiled code, and
the compiled code calls Perl: pp functions directly, a nested run loop, the
helpers of `jitapi.c`, the signal hook.  Each of these may call back into Perl
code, hence into other compiled OPs.  All of them share the interpreter
variables.

What is hard: re-entrancy (who owns `PL_op` at a given moment), non-local exit
(a die unwinds compiled frames with no handler in them), signals that arrive
at any instruction and are despatched at checks, the pairing of contexts,
scopes, saved values and temporaries around loops, the time at which a value
is captured (emission, load, use), the scalars that Perl code puts in the place
of others (`local`, `delete`, closures), and interpreters that share compiled
code.  `hazards` in `PROJECT.json` lists them
with the lines where they bite.

What makes the components correct:

- the OP that a piece of code reads in `PL_op` is the OP it works for, at any
  depth of nesting; the run loop goes on with the `op_next` of the OP that it
  dispatched; a compiled OP changes nothing of what the activations below it
  are doing;
- a process that goes on executing compiled code despatches signals, and
  handlers see the statement they interrupt;
- Perl's stacks come back from a body as they went in; temporaries are freed
  at statements, and not before;
- a compiled operation reads the variables of the entry of the sub it runs for,
  reads a tied one exactly once, and keeps its own result;
- a variable that compiled code looks up is the one the program has at that
  moment: its innermost scope, the present iteration;
- compiled code works on the interpreter that runs it, whoever built it, and a
  thread that wants to build gets to;
- the labels that get their numbers in one build of a function mean a place each,
  whichever wrapper or emitter used them first;
- applying a function converts every argument before it runs, and hands back
  the result for those arguments; libjit is given as many objects as an array
  had elements, each from its own place, or none;
- a number means the same in Perl, in the compiled code and in the C functions
  it calls, on every build of perl.

## Modules

**`JitEmit`** is the code of the emitters: each emitter is a sequence of
instructions, as `jitapi.c` appends them, in its order.  The generated wrappers
are one native call each.  `Call` is the set of emitter calls, `Code(c)` the
instructions of one.  Operators named `pa_..._<word>` with a comment "Faulty
variant" are not the code's: they exist to show that the properties can fail.

**`JitPP`** executes compiled functions used as OPs, with the C stack as a
sequence of levels (`levels`): a level is a run loop (of `perl_run`, of a
callback, of `pa_call_runloop`) or a closure that `pa_pp_op` calls directly,
with the position of the compiled function it is in.  `body` is what has been
emitted for each OP, `installed` the OPs whose `op_ppaddr` has been replaced.
The actions are the instructions of the compiled code (`Exec...`), the start
and the end of native calls, run loops, callbacks, returns, signals and dies.
Interpreter variables other than `PL_op` and `PL_sig_pending` are abstracted:
a branch on one goes either way.

**`OpStack`** is the abstract specification: a stack of activations, each
executing an OP and possibly one more inside it; an activation changes its own
entry only.  `JitPP!ImplementsOpStack` maps levels to activations: the OP of a
level is `PL_op` when control is in it, what the level above has saved for it
when it waits, and `oldop` while `pa_pp_op` executes another OP inside it.

**`JitStmt`** executes one compiled body with the interpreter's stacks in full:
contexts, scopes, saved values, temporaries, the argument stack.  `PL` is the
record of those variables.  The functions of Perl it calls (`ENTER`, `LEAVE`,
`SAVETMPS`, `PUSHBLOCK`, `POPBLOCK`, `leave_scope`, `pp_enterloop`, ...) are
external and modelled from perl's definitions; the emitted code is `JitEmit`'s.
The program enters blocks (the kinds in `Around`: loops, evals) one by one and
dispatches the compiled OP inside them; a die leaves the body at a native call
for the innermost eval, and `outer` remembers what the interpreter was when
each of the present evals was entered.  The next emitter call is chosen when the previous one is done,
so a body is explored along its executions, with whatever branches of its own
brought it there.

**`JitValue`** executes the operation of `src/t/020_op.t`, a pad variable plus a
constant stored in TARG, in a sub that may be entered again while `FETCH` runs
or while an earlier result waits on the stack, and be left by a die.  `pads` has
the variable and the TARG of each entry, `frames` the registers of the compiled
code in each.

**`JitAccess`** executes accesses to a package scalar, an array and the lexical
of a loop: which scalar (SV) is in the glob, in `AvARRAY`, in the slot of the
pad, what `local` has put aside, which ones closures hold.  Perl code between
two accesses replaces them.  **`PerlVars`** is its abstract specification:
variables with values, registers that denote a variable, no scalars.
`JitAccess!ImplementsVars` maps the scalars to the variables.

**`JitThreads`** is the interpreters of a process, the context and the optree they
share: building under the lock, installing, cloning, ending, and compiled code
that calls native functions, which call Perl code, which dispatches compiled
OPs.  `perl` is the build of perl (`USE_ITHREADS`, `PERL_IMPLICIT_CONTEXT`
alone, or neither).  An instruction is kept as where its operand comes from:
the parameter, an address of the interpreter that emitted it, the C globals.

**`Objects`** is the conversion of an array of objects, with tied elements whose
`FETCH` changes the array meanwhile.

**`Labels`** is the label objects of `src/xsp/instruction.xsp`, the numbers libjit
gives, the labels that the emitters of `jitapi.c` use themselves, and functions
that are compiled and built again.  An instruction is kept as the number it was
emitted with and the label it was emitted for.

**`Apply`** is `lj_function_apply` with its conversions, each of which may run Perl
code that applies a function again, or croak.

**`JitTypes`** takes numbers through the types that `jittypes.h` picks, the
constants of `init.cpp`, and the signatures of the generated wrappers, on builds
of perl with different sizes of the C types.  A register or a union that is read
wider than it was written has arbitrary high bits.

The `MC` modules define the instances; the `..._proofs` modules hold the theorems
about `JitPP`, `JitStmt`, `JitValue`, `JitAccess`, `JitThreads`, `Labels` and
`Objects`, and `Numbers_proofs` those about `Apply` and `JitTypes`, which
share the lemmas on remainders: the names of `JitTypes` that `Apply` has too carry a
prefix (`JTInit`, `JTNext`, `JTSpec`) or a longer form (`WrapTo`, `SizeOf`, `ConvertTo`) so
that one module can extend both.  The modules share no variables: `JitEmit` is the common part of
`JitPP` (which abstracts everything but `PL_op` and the signals) and `JitStmt`
(which abstracts the C stack), and `JitValue` takes from `JitPP` that
`PL_op->op_targ` is the operation's own.  `JitThreads` says which interpreter the
variables of `JitPP`, `JitStmt`, `JitValue` and `JitAccess` are those of.

| TLA+ | code |
|---|---|
| `ExecSaveOp`, `ExecSetOp`, `CallNativeStart/End` or `CallClosure`/`ReturnToCaller`, `ExecRestoreOp` | the four instructions of `pa_pp_op` (`jitapi.c:410-419`) |
| `Emitted` | `op->op_ppaddr` captured when `pa_pp_op` is called (`:416`) |
| `CallRunloopStart`, `RunloopEnd` | `_pa_call_runloop` (`:361-367`) |
| `ReturnToLoop` | `return PL_op->op_next` (`:377-380`) to the run loop |
| `ExecBranch` and the call of the hook | `pa_async_check` (`:133-143`) |
| `ExecRestoreSp` | `_restore_stack_sp` (`:177-194`), with the element size it uses |
| `old_save` | the mark that `pa_pp_unstack` loads (`:218-220`) |
| `EnterBlock`, `Dispatch`, `Die` | the OPs around the compiled one; the run loop that calls it; a longjmp out of a native call |
| `pa_gv_sv`, `pa_av_fetch`, `pa_get_pad_sv`, ... | the functions of those names (`:226-234`, `:323-339`, `:91-96`) |
| `pa_save_clearsv`, `JitAccess!pa_pp_unstack` | `pa_save_clearsv` on the address of the slot (`:98-103`, `:115`); the end of an iteration (`:210-224`) |
| `IVAR`, `jit_aTHX` | `IVAR`, `IVAR_address`, `IVAR_set` (`:32-89`); `gen-jitapi.h:9-20` |
| `pa_create_pp` | `:389-398` |
| `jit_context_build_start`, `BuildStarted`, `jit_context_build_end` | the call and the return of the wrapper, and the release (`context.xsp:10-11`) |
| `TakeSize`, `Fetch`, `FetchChanges`, `lj_convert_sv_to_object` | `helpers.h:42-56`, `helpers.cpp:3-9` |
| `SvIV`, `SvIV_set`, `LabelInsn` | the read of the label object, the write back, the wrapper (`instruction.xsp:22-53`) |
| `Labels!pa_async_check`, `Labels!pa_sv_nv` | the labels the emitters use (`jitapi.c:133-143`, `:283-300`) |
| `PAD_SV`, `curpad` | the load of `PL_curpad` in emitted code (`:42-47`, `:91-96`) and in `_pa_get_targ` (`:318-321`) |
| `JitValue!pa_sv_nv` and what follows | the fast path, and `sv_2nv_flags` (`:261-300`) |
| `Convert`, `lj_from_perl`, `lj_to_perl` | the loop of `lj_function_apply` (`helpers.cpp:62-69`), `:11-23`, `:25-45` |
| `JitCheck`, `Candidates`, `make_constant` | the templates (`jittypes.h:6-33`), the typedefs (`:65-68`), `JIT_MAP` (`:35-45`) |
| `jit_type`, `jit_insn_call_native` | `jit_type` and `process_function` (`make_jitapi_wrappers.pl:23-35`, `:45-75`) |

## Runs

| Run | What it shows | Bounds |
|---|---|---|
| `JitPP_ops` | `PL_op` ownership, the refinement of `OpStack`, and that a process that goes on executing compiled code despatches every signal (a program that ends may leave one pending) | two compiled OPs with bodies of up to two calls among four and three, emitted in any order and installed in any order; three levels of callbacks (a level above the bound may still begin by a run loop or a direct call); dies from every native function |
| `JitStmt_bodies` | the type invariant; handlers are inside the new statement; balance of contexts, scopes and temporaries; a die restores them | three contexts: two nested loops around or inside the body, an eval with a loop around it or inside it; five saved values, a stack of one, two temporaries |
| `JitStmt_stack_reset` | **violation**: `_restore_stack_sp` reads the wrong word inside a loop | the smallest instance with a second context |
| `JitStmt_enterloop_op` | **violation**: the compiled OP becomes the OP of the loop that `pa_pp_enterloop` opens | bodies of `pa_pp_enterloop` and `pa_pp_leaveloop` |
| `JitValue_recursion` | a compiled operation reads its own variable, a tied one once, and keeps its own result | three entries of the sub, two numbers |
| `Labels_builds` | a label has one number wherever a function names it; labels that got their numbers in one build have different ones, also if other functions use them; a label keeps its number | two label objects; two functions, one recompilable and built twice, with two and four label instructions |
| `Labels_address_of` | **violation**: `jit_insn_address_of_label` crashes | the same |
| `Apply_nested` | each application hands back its own result, and runs on converted arguments only | three nested applications; a `jit_int` of eight values; a number inside its range and one outside on either side |
| `JitAccess_variables` | the refinement of `PerlVars`: accesses hit the variables of the moment | two registers; a scalar with one scope to localise; indexes from both ends, arrays of up to two elements, with holes; a closure of this iteration and one of an earlier; one value besides undef |
| `JitThreads_clones` | compiled code works on its own interpreter (but for the constant of undef); builders get the lock unless a build died | three builds of perl; an interpreter and its clone; two functions of two instructions, built by either in any order, executed by both; one callback inside another |
| `Objects_arrays` | libjit is given an object for each element there was, from the place of that element, or none; the null pointer of `helpers.h:53` is met only through a hole or a change by `FETCH` | arrays of up to two elements of five kinds: one that is read while `FETCH` changes it, and one before or after |
| `JitTypes_platforms` | native functions receive the numbers that were meant | five builds of perl and a sixth that does not compile; bytes of four values, numbers at the edges of the integer types; two values in the function |

The bounds are enough because an emitter call touches at most two levels (its
own and the one it starts) or two contexts (the innermost, and the one around
it): three levels and three contexts give every pair a neighbour that must not
change.  A pair of bodies of two calls has every order of two emitters, and
`pa_pp_op` of an OP that is itself compiled before or after the emission.

`JitAccess_variables` uses a VIEW: which of the free scalars is taken makes no
difference, so a state counts for the values in the variables, what each register
denotes and whether the two are the same scalar.  The guards, the invariant, the
refinement mapping and the successors of a state depend on nothing else, up to
the names of the scalars.

A clone shows what code does in an interpreter that did not emit it, in both
directions; that two clones of a third add nothing is what the theorem says.  Any
interpreter may emit any instruction.  `OwnVariables` leaves out the operand of
`jit_value_create_undef_constant`: it is an address in the interpreter that
emitted it (`init.cpp:177`), also when another one executes it, and after the
emitter has ended it is the address of nothing.

A stale pad, label or buffer is one that belongs to another entry, build or
application, so two of each show it; a third in `JitValue` and `Apply` puts one in
the middle, which those above and below could spoil.  Two numbers tell a stale
read from a fresh one.  Four label
instructions hold a whole `pa_sv_nv`, or a user's label around a
`pa_async_check`.  Conversions in `JitTypes` depend on the order of the sizes
and not on the 256 values of a byte (`ByteRange`): the theorems are for any even
number from four on.

Three disagreements were met.  In `JitStmt_stack_reset` the comments at
`jitapi.c:177` and `:180` say that the stack is cut back to the `blk_oldsp` of
`cxstack[cxstack_ix]`; the code computes the address with the element size of
a pointer (`:184`), so the word it loads belongs to another context, or to
another field, unless `cxstack_ix` is 0.  The other runs of `JitStmt` execute
this code as it is: what they show does not depend on the height of the stack.
In `JitStmt_enterloop_op` the comment at `jitapi.c:119` says that enterloop only
uses `PL_op` to return its `op_next`; Perl's enterloop also keeps it in the context
as the OP of the loop, and takes from its flags whether the loop is in list
context.
In `Labels_address_of` the parameter of the wrapper is declared as a label,
which the typemap turns into a number, and the body (`instruction.xsp:58`) takes
it for the scalar that holds the number.  The other properties of `Labels` hold
of the states that a process reaches before it does that.

A perl built with `__float128` numbers is not among the builds of `MCJitTypes`:
there `NV` and `jit_nfloat` have the same size and different formats,
`JitCheck` accepts the pair, and `CalleeGets` does not hold.  `MCJitTypes` has TLC
evaluate the condition that leaves it out, `SizeTellsFormat`.

## Fairness

Two runs need any.

`JitPP_ops`, for signals.  The processor executes the next instruction
(weak fairness on the steps of the run loops and of the compiled code).  A
native function that gets control back again and again returns in the end: it
calls back finitely often.  That is strong fairness on its return, one
condition for each depth of the C stack: with one condition for all depths, a
callback returning for ever inside a native call that never returns would count
as fair.  Nothing has to start a run, send a signal, call back or die; a program
that dies for ever may die before each check, so `SignalDespatched` supposes that
it stops dying.  It also supposes that the process is in compiled code again and
again: a program that ends, or waits for ever outside of compiled code, may leave the
signal pending.

`JitThreads_clones`, for the lock.  A mutex that is free is taken by a thread that
waits (weak fairness: programs build finitely often, so the lock is not for ever
being taken by others).  A program that has begun a build ends it, in between
the compiled code that it runs: strong fairness on `pa_create_pp` and
`jit_context_build_end`, which are disabled while compiled code runs, and on the
return of native functions; weak fairness on the instructions.  A build that
dies never releases the lock (`context.xsp:10-11` are separate calls), so
`BuilderGetsLock` speaks of programs in which none has.

## Proofs

### Who owns `PL_op`

`JitPP_proofs` proves for every optree (`op_next`, `op_succ`), every set of
bodies (`Callable`), every choice of re-entrant and dying functions and every
depth of nesting:

- `TypeCorrect`: `Spec => []TypeOK`;
- `OpKept`: `Spec => []OpAtBoundary`;
- `OpGiven`: `Spec => []NativeSeesItsOp`;
- `OpRestored`: `Spec => []WaitingGetsItsOp`;
- `StackDiscipline`: `Spec => ImplementsOpStack`.

They assume `JitAssumption` and `OpAssumption`.  The properties speak of the
last level, and of what waiting levels will get back; the invariant `IInv`
ties the two together.  `LevelOK` places each level inside its body, with
`oldop` holding its own OP inside `pa_pp_op`; `Linked` says of neighbours that
the lower one waits at a call that explains the upper one, and that what the
upper one has saved is the `PL_op` the lower one is to go on with
(`Expected`); `LevelsOK` adds that `PL_op` itself is what the last level
expects.  A step changes the last level, pops one, pushes one or cuts the
stack (a die); `Replaced` and `Pushed` show that these keep `LevelsOK`, and
one lemma per action supplies the level.  The code of the emitters enters
through `CodeFacts`: the code of `pa_pp_op` in order, and that no other
emitter has an instruction on `PL_op` (`PlainCode`, closed under `\o`).

`StackDiscipline` is the refinement of `OpStack`.  The activations are the OPs of
the levels, one or two for each (`OpsOf`, two while `pa_pp_op` executes another
OP), put together by a fold; that the fold over a longer or a changed sequence of
levels is the old one with a tail added, cut or replaced is what its first lemmas
say.  Each action of `JitPP` is then a push, a pop, a change of the last
activation, or a stutter: which of them follows from `LevelsOK`, since the
OP of a level that waits is in what the level above has saved.

### Perl's stacks

`JitStmt_proofs` proves for any set of bodies (`Callable`), any nesting of loops
and evals, any size of a context and any bounds, from `StmtAssumption` and
`OpAssumption`:

- `TypeCorrect`: `Spec => []TypeOK`;
- `Balanced`: `Spec => []BodyBalanced`;
- `Restored`: `Spec => DieRestores`;
- `OuterLive`: `Spec => []OuterMortalsLive`;
- `HookInside`: `Spec => []HookSeesStatement`;
- `IterationEnds`: `Spec => []UnstackEndsIteration`.

`BodyBalanced` says nothing while the body is inside a loop of its own, and
`DieRestores` nothing until there is a die.  What makes both right is an
arrangement that every step keeps, `StacksOK`: the stacks are a sequence of
frames, one for each context, whose marks on the scope stack lie between
`Base` and `oldscopesp`, whose part of the savestack begins at `Start` with the
floor of the temporaries that `SAVETMPS` saved and holds nothing but variables to
clear above it, and whose floor is at or above that of the frame below.
`EntryOK` says that the stacks at the entry of the body are a lower part of the
present ones with only loops above, `Behind` that what an eval will restore is
what was there when it was entered, `MortalOK` that a mortal of an outer context
is below the floor of the next one.

A step changes the stacks in one of three ways: inside the last frame above its
saved floor (`Within`: statements, variables, iterations, the OPs that are
executed), by a frame more (`Opens`: `pp_enterloop`, the program's blocks), or
down to a frame (`Cuts`: `pp_leaveloop`, a die).  `Keeps` is what the three have in
common, that the frames below stay, and one lemma for each part of the invariant
says that it survives.  That `pa_pp_unstack` is a step of the first kind is the
point of `old_save`: with the mark of another scope it would take the saved
floor of a frame away.  The code of the emitters enters by `CodeShape`:
what is at each position of `pa_pp_nextstate` and `pa_pp_unstack` (which
`StatementOK` and `IterationOK` follow instruction by instruction) and which
instructions occur elsewhere.

### Its own variable, its own result

`JitValue_proofs` proves for any numbers, any depth of recursion and any order of
entries, results and dies, from `ValueAssumption`:

- `TypeCorrect`: `Spec => []TypeOK`;
- `Fresh`: `Spec => []FreshRead`;
- `Own`: `Spec => []OwnResult`.

The properties speak of entries at some positions; `FramesOK` says of every
entry at every position, waiting ones included, what it has read so far
(`ReadOK`), that it works on the pad of its own depth (`OwnPad`), and where the
results of the entries are on the stack (`Height`), one above the other.

### Applying a function

`Numbers_proofs` proves for any arguments, any range of `jit_int` and any depth of
nesting, from `ApplyAssumption`:

- `TypeCorrect`: `Spec => []TypeOK`;
- `ResultOfArguments`: `Spec => []ResultRight`;
- `AllConverted`: `Spec => []RunsConverted`.

`CallOK` holds of every application under way: what is in the buffer are the
numbers that were read from the arguments so far, wrapped to the range of
`jit_int`, as many as its position in the loop says, whatever the applications
above it do.  `WrapMulAdd` is the arithmetic: wrapping each step of the function
is wrapping its result.

### Numbers through types

`Numbers_proofs` proves of `JitTypes`, for any set of platforms, any even number of
values of a byte from four on, any floating point numbers and any number of
values, from `TypesAssumption`:

- `TypesCorrect`: `JTSpec => []JTTypeOK`;
- `CalleeGetsMeant`: `JTSpec => []CalleeGets`, if `SizeTellsFormat`.

A platform is any choice of sizes and formats that `IsPlatform` allows, whether or
not a perl was ever built that way; those that do not compile never start.
`SizeTellsFormat` says that floating point formats of the same size are the same.
`JitCheck` compares sizes (`jittypes.h:25`), so the code relies on it and nothing
checks it; with a `__float128` perl it is false, and so is `CalleeGets`.

The argument: where the extension compiles, `JitCheck` found a candidate
(`Fitting`), so the type of libjit in a signature has the size of the C type, and
the candidates of each C type all have its signedness (`IntegersFit`; for `NV` the
format, `FloatsFit`).  Two integer types of the same
size and signedness read the same bits as the same number (`ReadSame`), and
wrapping a number twice is wrapping it once (`WrapTwice`), so an argument that is
converted to the type of the signature and read as the C type is the number that
C would convert it to (`Held`, `ArgumentPasses`), a result is the number that was
returned (`ResultComes`), and a constant the one that was asked for
(`ConstantKept`: the member of the union has the size of the type).  The inductive
invariant, `TypesInv`, says of every value of the function that it has the type
that was picked for its C type, a number in its range, and the number that was
meant (`ValueOK`); it makes the next call right, and both properties follow from
it.  `ArgumentsMatch` matches types, signature and arguments of a call with
and without `my_perl` in front.

### The variables of the moment

`JitAccess_proofs` proves for any scalars, values, registers and indexes, any number
of scopes, elements and closures, from `AccessAssumption`:

- `TypeCorrect`: `Spec => []TypeOK`;
- `Refines`: `Spec => ImplementsVars`, that `JitAccess` implements `PerlVars`.

The invariant is `OnePlace` and `RegOK`.  A scalar is in one place only: a scope
of the package scalar, an element, the lexical (which a closure may hold, too); a
register refers to one of those of the moment, or has a temporary to itself
(`Loose`).  Without it a write to an element could be seen in a scope that `local`
put aside.  It is inductive only if a new scalar is a free one, `FreshIsFree`,
which `AccessAssumption` gives: there are more scalars than the bounds (`MaxElems`,
`MaxScopes`, `MaxClosures`, the registers) let a state refer to.  The code has no
such bound: memory that runs out ends the process.

Each step of `JitAccess` is one step of `PerlVars`.  `PlaceIn` says which variable
a scalar is in; `Places`, `PlaceOfElem` and `PlaceOfTemp` that it is one
variable only, `Stays` that a register denotes the same one while its scalar
stays.  A new scalar and a write touch one variable: `CellsElsewhere` and
`WriteElsewhere` say so of the others, and `ScalarWritten`, `LexicalWritten`,
`ElemWritten` and `TempWritten` are the four that a pointer may lead to.  Values do not
include the marks of the mapping (`"undef"`, `"missing"`, `"current"`): a value
`"current"` would be taken for the lexical of the iteration.

### Arrays of objects

`Objects_proofs` proves for any arrays and elements, from `ObjectsAssumption`:

- `TypeCorrect`: `Spec => []TypeOK`;
- `InPlace`: `Spec => []EachInPlace`;
- `NoOwnCrash`: `Spec => []CrashIsForeign`.

`count` is the length of the array at the call, `held` what each place of it has
held since, or returned from a `FETCH`.  `Taken` says that the size is that length,
whatever becomes of the array, `Converting` that the loop is not past it,
`Held` that the history has what the array holds now, and `FromPlace`, the heart
of the matter, that the vector has one object for each element fetched, and each
is from the history of its own place.  If nothing changes the array, each place
has one thing in its history, so the elements are taken over one by one, in order.  If
a `FETCH` moves elements, one may come twice and another not at all, with the
count right all the same: a `FETCH` that changes `<<p, tied, q>>` to
`<<q, tied, p>>` and returns `r` gives `p`, `r`, `p`.  The code takes no
copy, and no property says that it gives a consistent picture of the array.

### Labels

`Labels_proofs` proves for any sets of objects and functions, any lengths and any
number of builds, from `LabelAssumption`:

- `TypeCorrect`: `Spec => []TypeOK`;
- `Agree`: `Spec => []LabelsAgree`;
- `Stable`: `Spec => LabelStable`.

`LabelsAgree` compares instructions that were emitted, and says nothing of the
labels and numbers to come.  `home[o]` is the build that gave `o` its number.
`IInv` adds: `Bound(f)` is the set of pairs of a label that got its number in the
present build of `f` and that number, whether an instruction names it yet or it is
only reserved; `Numbered` says that two such pairs have the same number exactly
when they have the same label, and that all numbers are below `next_label[f]`, so
that a number that libjit is about to give is new among them.
`InsnOK` ties each instruction to its object (whose number must not have changed
since, hence `LabelStable`) or to a place in the function for the emitters' own
labels; `ObjectOK` says that an object has a number exactly when a build gave it
one, and that build is not one to come.

An object that got its number in another function, or in an earlier build of
this one, brings that number along, and libjit takes it: the counter does not know
of it (`instruction.xsp:23-53`).  The next label numbered here may get the same
number, and then two labels are one place.  The code does not prevent this; the
property claims nothing about such a label but that it is the same everywhere.
`Emitter` is the step common to the emitters: it appends
instructions that name new labels only.

### Whose interpreter

`JitThreads_proofs` proves for any interpreters, OPs, programs (`Emits`, `MayDie`)
and bounds, from `ThreadsAssumption`:

- `TypeCorrect`: `Spec => []TypeOK`;
- `VariablesOwned`: `Spec => []OwnVariables`.

`OwnVariables` speaks of the instruction that is about to be executed.  `IInv` says
why it is right: `OwnEmitted`, every operand ever emitted, in a function being
built or in the optree, comes from the parameter where there may be several
interpreters (`USE_ITHREADS`), and otherwise may be an address of the only one
(`Alone`); `OwnFrames`, every closure in execution has the interpreter that
executes it as its parameter, and so has the native function that it is in, from
which the next closure gets it.  `EmittedOwn` is the lemma on the emitters,
`FramesPushed`, `FramesSet` and `FramesPopped` those on the calls.

The constant of undef is not covered: `init.cpp:177` takes an address from the
interpreter of the build, and the code does nothing to ensure that only that
interpreter executes it, or that it is still there.

### What is model-checked only

Liveness: `SignalDespatched` and `BuilderGetsLock` are out of the prover's reach,
like anything about ENABLED.  No theorem is about a recursive definition.

## Plan

What the modules cover is what keeps state in this code, and every safety property
of a run that passes is a theorem.

## What is not modelled

- libjit: compilation, optimisation, registers.  Its instructions do what their
  names say, it numbers labels from a counter, and it refuses to compile a
  branch without a target.
- The other instructions of libjit that `instruction.xsp` and `gen-api.xsp` wrap
  (arithmetic, loads, types): one call each, no state of this code.
- Reference counts as numbers: what is freed is what nothing in the state refers
  to.  The scalars that boot shares between a variable and a constant
  (`init.cpp:17`) and that `lj_to_perl` leaks (`helpers.cpp:41`) would each be a
  property that restates the missing call.
- The move of a pad (code compiled at run time in the sub that is running): an
  address of a slot is used at once in `JitAccess`.
- Magic on assignment: `pa_sv_set_iv`, `pa_sv_set_nv` and `pa_sv_set_sv_nosteal` call no
  set magic.  Indexes that do not fit the `I32` of `av_fetch`.
- `pa_gv_av`, `pa_gv_hv`, `pa_sv_iv`, `pa_sv_uv`, `pa_sv_true`, `pa_trap` and the constructors
  of scalars: a native call each, executed as one by `JitPP` and `JitStmt`.
- `jit_context_create` and `jit_context_destroy`: a call of libjit each.  A program that
  destroys a context while its closures are in the optree runs freed code
  (`context.xsp:8`); it is left to the program not to.
- The table of names that `init.cpp` defines at boot, once, before anything runs.
- `jit_insn_get_label`, which has no caller that could give it an instruction.
- Text processing by the generators; their output is modelled.
- What programs are left not to do, and the code does not check: a pointer to a
  scalar kept in a register across Perl code or an iteration
  (`JitAccess` forgets registers then); a mortal used after the next statement of
  the same body; a body that pops more than it pushed (`MayBegin`); a lock left
  by a build that died.  `hazards` says so at each line.
- Dumps, export lists, build files: no state.
- `ppport.h`: a header of Devel::PPPort, vendored, most of it documentation and
  macros for perls other than the one at hand.  It is nearly nine tenths of the
  lines of `src/src`; of the others the modules model about seven in ten, and
  the rest are the boot table, includes and declarations.
