# bsh, the BrightShell, in TLA+

bsh (`src/`) is a Unix shell in C, grown out of zsh. These are its TLA+ modules, the TLC
configurations that check them on small instances, and proofs checked by TLAPS. All paths
below are relative to `src/Src/` unless they start with `Doc/`.

Contents: [the system](#the-system), [the modules](#the-modules),
[the runs](#the-runs), [fairness](#fairness), [the proofs](#the-proofs),
[disagreements found](#disagreements-found), [what is not modelled](#what-is-not-modelled),
[the plan](#the-plan), [how to run](#how-to-run).

## The system

The shell is one process with one thread. What makes it hard is everything that happens to it
from outside while it works: signals, children that end, stop and go on, other shells that write
the same history file, a bridge at the other end of a socket. Its control flow is a handful of
global variables that functions, loops, traps and signal handlers share.

| component | state | operations | talks to | what is hard | correct when |
|---|---|---|---|---|---|
| signal queue (`signals.h`, `zhandler`) | `queueing_enabled`, ring of saved signals and masks, signal mask | `queue_signals` ... `unqueue_signals`, `dont_queue_signals` ... `restore_queue_signals`, `zhandler`, `run_queued_signals` | everything: every critical section of the shell | one counter and one ring shared by the main program and every handler that interrupts it; the loop over the ring is itself interrupted | critical sections run alone, no signal is lost, done twice or overtaken, the counter is balanced |
| job table (`jobs.c`) | `jobtab`, `curjob`, `prevjob`, `thisjob`, `lastval2`, `bgstatus_list` | `initjob`, `addproc`, `update_job`, `deletejob`, `zwaitjob`, `fg`, `bg`, `wait`, `jobs`, `disown` | executor (starts pipelines), SIGCHLD handler (records statuses), kernel | reports come at any time, merged and in any order; process numbers come back; the table and the list of statuses are bounded | each child has one entry that says what the child does, waiting ends, statuses reach the command that asks |
| traps (`signals.c`) | `sigtrapped`, `siglists`, `savetraps`, `nsigtrapped`, `exit_trap_posix`, the functions `TRAPxxx` | `trap`, `unset`, definition and removal of functions, `starttrapscope`, `endtrapscope`, `dotrap` | function calls (levels), table of functions, options | three tables that must agree; saving and restoring over nested calls; a trap that runs changes traps | a function leaves the traps as its options promise |
| executor (`exec.c`, `loop.c`, `init.c`) | `breaks`, `contflag`, `retflag`, `errflag`, `exit_pending`, `loops`, `lastval`, `locallevel`, options | `execlist`, `execpline`, `execcmd_fork`, `doshfunc`, `source`, loops, `always` | jobs, traps, parameters | flags counted down by nested constructs, saved and restored around traps and `always` | a command is left towards the construct its jump is meant for, and no flag leaks to other code |
| parameters (`params.c`) | `paramtab` with shadowed entries, `locallevel`, `environ`, `scoperefs` | `local`, `export`, `typeset -n`, assignment, `startparamscope`, `endparamscope`, assignments in front of commands | functions, special variables, named references | shadows by level, references to what is hidden or gone, specials with setters that have effects | the end of a scope restores what it hid; the environment is that of the visible parameters; a reference keeps its target |
| heaps (`mem.c`) | stack of arenas | `pushheap`, `popheap`, `freeheap`, `switch_heaps` | everything | arenas kept for later, switched lists | nothing still used is freed |
| history (`hist.c`) | ring and table of events, `curhist`, `lasthist`, lock file | `prepnexthistent`, `addhistnode`, `readhistfile`, `savehistfile`, `lockhistfile` | other shells through the file | several writers, stale locks, replacement by rename, incremental reads | no event lost or repeated, no two holders of the lock |
| BrightLink client (`Modules/brightlink.c`) | session key, pinned key of the bridge, counter | registration, `bsh-inject`, `link-geo` | the bridge, over a Unix socket | lost answers, restart of the bridge, rollback of the counter | counters of both ends agree; success means stored; a changed key is refused; a call ends |
| scheduled commands (`Builtins/sched.c`, timed functions of `utils.c`) | ordered list, one timed function | `sched`, `checksched`, `scheddeltimed` | prompt, line editor | the command that runs changes the list it was taken from | each runs once, when it is due |
| module loader (`module.c`) | `modulestab`, flags, dependencies | `load_module`, `unload_module`, autoloading | builtins, parameters, conditions | cycles, failing boot functions, unloading in use | no module is unloaded while another depends on it; flags are cleared on every path |
| options, prompt, utilities (`options.c`, `prompt.c`, `utils.c`) | option table | `setopt`, `preprompt` | all | `preprompt` is where the shell catches up with its jobs | see the modules that read them |
| redirection (`exec.c`, `utils.c`) | `fdtable`, saved descriptors | `addfd`, `closemn`, `fixfds`, `movefd` | pipelines | restoring after an error half way | every descriptor is put back and closed once |
| input, lexer, parser (`input.c`, `lex.c`, `parse.c`, `context.c`, `text.c`) | input stack, lexer state | | | a transformation of text | a grammar |
| expansion, globbing, patterns, arithmetic (`subst.c`, `glob.c`, `pattern.c`, `math.c`) | none to speak of | | | pure functions of strings | their tables of tests |
| line editor and completion (`Zle/`) | line, undo list, keymaps, completion state | widgets | terminal | undo over changes | undo restores the line |
| other loadable modules, shell functions | | | system calls | | |

Behaviours that are hard to test are listed as `hazards` in `PROJECT.json`, each at its line,
with the properties that would catch it going wrong.

## The modules

### SignalQueue

The C stack is an explicit stack of frames. Frame 1 is the main program; a frame above it is the
body of `zhandler()` for one signal, or a run of the loop `run_queued_signals()`. Only the top
frame takes steps. A code frame opens and closes brackets: `queue_signals` pushes a bracket,
`dont_queue_signals` pushes a bracket that remembers the counter (the local variable `q` in which
every caller saves `queue_signal_level()`) and, like the macro, starts a drain loop;
`unqueue_signals` pops and starts one if the counter reaches zero; `restore_queue_signals` pops.
A drain frame takes the statements of the macro one at a time (`DrainLoad`, `DrainStore`,
`DrainSetMask`, `DrainCall`, `DrainNext`, `DrainDone`): advancing `queue_front` is two steps, a
load and a store, because a handler may run in between. `zhandler_queue` is the branch of
`zhandler()` that saves the signal, `zhandler_now` the one that goes on to handle it; what the
handler then does is a code frame like any other, since `wait_for_processes()` and `dotrap()` open
brackets of their own. `signal_block` and `signal_unblock` change the mask.

Arrivals are numbered so that one saved signal can be followed: `caught` and `runs` are history
variables that no guard reads except for the bound on arrivals. Two constants cut the model where
the code is known to misbehave, so that the properties can be checked on either side of the cut:
`Overflow` (may a signal arrive while the ring is full?) and `DequeueWindow` (may one arrive
between the statements that take an entry out of the ring?). The proofs hold for both values.

### JobControl

An interactive shell with `MONITOR` set, whose commands are pipelines of external commands in the
foreground, in the background (`&`) or disowned (`&!`), and the builtins of `bin_fg()`. Three parties
interleave: the kernel (`child`, `pending`: children exit, stop, go on), the main program
(`pc`, `op`), and the SIGCHLD handler `wait_for_processes()` (`reaping`), which reaps one child per
step and, once it has started, runs to its end before the main program goes on. SIGCHLD is held back while `blocked`
(`child_block()`) and saved while `queueing`: these two flags are the interface SignalQueue
establishes. `pc` follows `execpline()`: building the pipeline with SIGCHLD blocked, command
substitutions in the last command that let it through (`SubstBegin`, `SubstEnd`), `spawnjob()` or
`zwaitjob()` with its test and its `sigsuspend()` as separate steps, or the way back if the table is
full (`PipelineFails`, `PipelineFailed`); and `bin_fg()`: the reap it
begins with, the choice of the job, the wait, the end of its own entry in the job table. The pure
functions on the table (`initjob`, `addproc`, `deletejob`, `setprevjob`, `setcurjob`, `makerunning`, `findproc`,
`update_job`, `printjob`, `addbgstatus`) are operators of the same names, composed by the
actions in the order of the code. A job number -1 is 0 here, entries count from 1.
The kernel's part is external: `Report`, `Exit`, `Stop`, `Continue`, `Continued`.

### Traps

`settrap`, `removetrap`, `dosavetrap`, `starttrapscope` and `endtrapscope` are operators on a
record of the tables; commands (`trap list sig`, `trap - sig`, definition of `TRAPsig`,
`unfunction TRAPsig`, `setopt`), `Call`, `Return`, `dotrap` and `TrapEnd` are actions. Each of the
former runs inside a critical section, so that interleaving at whole operations is what the signal
queue provides: this is `CriticalSectionsRunAlone`, proved of SignalQueue. `frames` is the stack of functions and running traps;
`locallevel` and `intrap` are counted from it. A function frame keeps, for the properties, the
traps it found and must leave (`found`). What a trap does beyond calling functions and changing
traps is left out. The loop of `endtrapscope()` is the recursive function in `RestoreAll`, of which `Turn` is one turn.

### ControlFlow and Completion

`Completion` says what the manual promises about leaving a command before its end: one value
`jump` (none, return, break or continue with a number), the failures that are pending, and the
constructs that are open. An always list or a trap puts what is pending aside (`held`) and takes
it up again, unless it jumps itself. It is the abstract specification against which the executor is
checked, half as long as its model; what it promises is in `Doc/Bsh/builtins.yo`,
`Doc/Bsh/grammar.yo` and `Doc/Bsh/params.yo`. In one point it follows the code instead: behind a jump
the parts of a chain of `&&` and `||` that need no job may still run (`PartReady`), and a loop among them may
take the jump for its own. What it promises of a pending jump is therefore that nothing else is run, and that nothing
else takes it.

`ControlFlow` is the executor: the globals `breaks`, `contflag`, `retflag`, `errflag`, `loops` and
`exit_pending`, as `execlist()`, `execpline()`, the functions of `loop.c`, `doshfunc()`,
`source()`, `dotrapargs()` and `bin_break()` count them down, put them aside and restore them. A
frame of `stack` is a C activation with the variables it has saved. The script is any script: at each
command the next step is chosen. `execlist()` starts no command while a flag is set (`CanRun`), but its loop over a chain
(`pc` is `"pipe"`) goes on to the next part: `execpline2()` then does nothing (`PassOver`), while `execsimple()`, which runs
assignments, definitions, `[[ ]]`, `(( ))` and constructs made of these, looks at `errflag` only (`CanRunSimple`). Whether a construct is one of
those is not recorded, so that its lists may hold any command: the model has more behaviours than the code there. `ImplementsCompletion` is the refinement: the flags map to
one jump (`JumpOf`), and every step of the executor is a step of `Completion` or a stutter. Where
the code is known to break the promise the combination has a name in the constant `Uses`, which
guards the actions; the run that passes has `Uses` empty, and each combination can be looked at by itself.

### HistoryFile

Several shells, one file, one lock file and one clock. A shell is a small program counter: `hend()`
with its nested requests for the lock (`lockhistct`), `readhistfile()` with the search for the place
where it left off (`lasthist`: size, time of modification, position, time and text of the last
event), `savehistfile()` as an append or as a rewrite (read, open, write and rename are steps of
their own), start and exit, which wait for the lock and break it if its file is too old
(`LockStale` looks, `LockSteal` removes). `Crash` forgets the memory of a shell and leaves the files;
`SaveAppend` and `RewriteFails` have the branches of a failed write. One event is one line. `Mode`
is the option in force (append at exit, incremental, shared).

### BrightLink

The client runs one builtin at a time, which may need a connection, the keys of the bridge, a
registration and a delivery; each request and each answer is a step. `bsh_inject` takes the next
counter if there is a session, and what fails gives it back in the cases in which the code does
(`Fails`): that includes a delivery whose stored answer repeats the word `error` (`brightlink.c:1464`). The
shell may `Fork`: the subshell works on the same connection, with a copy of session, counter and pinned key that is gone when it ends (`ForkEnds`),
while the shell, whose own are kept in `parent`, waits for it. The bridge is external: it is written from what the client sends and what it does with
the answers. It may refuse, let the session expire, close connections and forget sessions, and come
back with another identity between any two steps (`BridgeRestart`), losing a request or an answer
that is on its way.

### Params

The operators bear the names of the C functions (`createparam`, `unsetparam_pm`, `scanendscope`,
`setscope`, `upscope`, `save_params`, `restore_params`, ...) and map a record of the table to
the next one; commands compose them in the order of the code. A name has a sequence of structs,
the visible one first; a struct is `<<name, position>>`. Assignments, `local`, `export`,
`typeset -n`, `unset`, loops over a reference, calls of functions and assignments in front of
commands are actions. `errflag` is set by `zerr()` and ends everything under way, as in the shell.
`scoperefs` keeps pointers to structs that may have been freed; such an entry is taken as one that
is no reference any more, and `dead` remembers the scope.

## The runs

| run | question | instance and why it is enough | distinct states |
|---|---|---|---|
| `signal_queue` | do critical sections run alone, is the counter balanced, is every signal handled once and in order? | two signals, ring of three slots (two saved at a time), four arrivals, ten frames, two brackets per frame. The ring wraps; a handler is interrupted by a handler while a drain loop runs; a bracket is lifted inside a bracket | 1.4 million |
| `signal_queue_live` | is every caught signal handled? | one signal, three arrivals, `FairSpec` | 3 490 |
| `job_control` | is every child tracked, is its status current, does the right status reach `$?` and `wait pid`? | two children that may all stop, three entries of the table (one is the builtin's own), pipelines of one or two processes, two statuses, `bgstatus_list` of two | 0.7 million |
| `job_control_live` | does waiting end, and are children found when process numbers come back? | two children with `PidReuse`, two entries (one left for a job while a builtin runs; with both taken `initjob()` refuses), `NOTIFY`, list of one; nobody is stopped, because a stopped job with an old number is not found (see below); `FairSpec` | 38 000 |
| `traps` | do the tables agree, are counts right, do functions restore traps? | one signal and EXIT, functions two deep, one running trap, two saved entries; both options change | 0.56 million |
| `control_flow` | is a command left towards the construct its jump is meant for? | three constructs deep, of eight kinds in every order: a loop in a function called by a trap, an always list between two loops. `Uses` empty | 0.70 million |
| `control_flow_continue` | does `break` exit from its loop? | violation; the same with `untilContinue` | |
| `history_file` | is any saved event lost or written twice, does a shell see what others have written? | two shells with two events each, `SHARE_HISTORY`, rewriting by copy, `$SAVEHIST` two (so that three lines are a reason to rewrite), two ticks, one crash, one failed write | 0.77 million |
| `history_exit` | does a shell that exits get its history into the file? | two shells, `INC_APPEND_HISTORY`, rewriting in place; one of them may die holding the lock, which is stale two ticks later; `FairSpec` | 0.19 million |
| `brightlink` | do both ends agree on session and counter, does a call end? | two identities, three connections, three deliveries, three registrations, one restart: enough for a session lost and made again on another connection, with a delivery on each, in the shell and in a subshell | 1.6 million |
| `params_env` | is the environment that of the visible parameters, are assignments in front of commands undone? | one name, two values, two functions deep, two functions or prefixed commands under way: a parameter is hidden, exported below and above, and saved twice | 58 600 |
| `params_ref` | do references keep their targets, without circles? | two names, both of which may be references, to each other or themselves, one function deep (see below for two) | 77 961 |

Bounds, each a constant named in its module: `MaxDepth` frames, `MaxBrackets` per frame and
`MaxCaught` arrivals (SignalQueue; every arrival stacks up at
most one body of a handler, and every code frame one drain loop, so that `2 * (MaxCaught + 1)` frames
never cut a behaviour short); `MaxProcs` processes in
a pipeline, `NJobs` entries, `ChildMax` statuses (JobControl; `NJobs` and `ChildMax` are limits of the
code, made small so that they are reached), `Stoppable` children; `MaxLevel` function calls,
`MaxTraps` running traps, `MaxSaved` saved entries and `PosixDepth`, how deep `POSIX_TRAPS` may change
(Traps); `MaxDepth` constructs (ControlFlow); `MaxEvents` and `MaxLives` of each shell, `MaxCrashes` and
`MaxFailures` of all, `MaxTime` of the clock (HistoryFile; `SAVEHIST` and `StaleAge` are the parameter and
the ten seconds of the code, made small); `MaxConns`, `MaxCalls`, `MaxRegs`, `MaxRestarts` (BrightLink);
`MaxLevel`, `MaxFrames` and `Redeclared` (Params). Two children show every order of two reports, the
merging of SIGCHLD, and a last process that ends before or after the others. Two shells show every race
for one lock, except that of two shells that both find the lock of a third one stale. Symmetry is used for
signals, process numbers and shells, which nothing orders, and in runs without liveness only.

Deadlock is checked in all runs but those of HistoryFile, where the clock may have reached its bound
and all shells may have exited.
Every property has a mutant in `PROJECT.json`: a plausible mistake in one
definition, kept next to it in the module (`..._early`, `..._lost`, ...), under which the
property fails.

What the properties say, beyond types:

* `LevelBalanced`, `CriticalSectionsRunAlone`: the counter is what the brackets of the executing
  code ask for, and nothing that asked not to be interrupted has been.
* `NoSignalLost`, `HandledAtMostOnce`, `DrainIsFifo`, `EverySignalHandled`: the fate of one signal.
* `LiveProcsTracked`, `StatusCurrent`, `LiveProcFound`: kernel and job table agree on each child.
* `JobKeptWhileBuilt`: what is reaped meanwhile does not delete the entry being filled.
* `CurJobUsable`: `%%` names no job that is gone, nor the builtin's own entry; without `NOTIFY` it names
  a job whenever there is one to name.
* `ForegroundStatus`, `BgStatusRight`: `$?` and `wait pid` get the status of their process.
* `WaitingEnds`: no wake-up is lost between the test and `sigsuspend()`.
* `TrapTablesAgree`, `SavedTrapsInScope`, `TrapsRestored`: the tables of traps and their counts, and
  what a function leaves behind.
* `LoopsTrueDepth`, `ImplementsCompletion`: the flags are counted right through loops, functions,
  files and traps, and bring about what the manual says, but for the parts of a chain that run behind a jump.
* `SavedKept`, `WrittenOnce`: the file is the end of all that was ever written, without repetition,
  whoever dies in the middle of a rewrite.
* `WriterHoldsLock`, `ReadSees`: the lock covers every access, and a read finds its place again
  after a rewrite.
* `ExitSaves`, `ExitEnds`: a shell leaves, with its history saved; with a monotonic clock `ExitSaves` excepts a
  shell that finds a lock file at its exit.
* `SessionIsPinned`, `CounterInStep`, `SuccessMeansStored`, `CallEnds`: what the two ends of a
  connection know of each other. The counter of the shell is never ahead, and behind only of deliveries that
  did not return 0 in this shell.
* `EnvMatches`, `PrefixUndone`: parameters and environment through scopes and assignments in front
  of commands.
* `RefStable`, `NoCircle`: what a reference stands for when scopes begin and end.

## Fairness

SignalQueue, `FairSpec`: code that has opened a bracket closes it (`unqueue_signals`, also
the outermost one, and `restore_queue_signals`), and the body of a handler returns. These are
strong, because signals interrupt the code again and again and disable the step for as long as
their handlers run; the number of arrivals is bounded. The justification is that brackets enclose straight-line
code of the shell and handlers end. The steps of the loop `run_queued_signals()` are weakly fair:
the processor executes them. Nothing makes a signal arrive or a bracket open.

JobControl, `FairSpec`: the steps of the handler and of the main program while it waits are weakly
fair; a running child ends at last (strong: it may be stopped and continued over and over; in the
run that is checked nobody is stopped). The user need not type anything. Building a pipeline
is not fair, so `WaitingEnds` starts where the wait starts. `wait pid` is left out of `WaitingEnds`: it waits
for a job that is stopped.

HistoryFile, `FairSpec`: the clock goes on, and a shell that has begun to start, read, save or exit
goes on, both weakly: the kernel runs the process, and no step waits for anything but the lock, for
which the code sleeps and tries again. No shell has to be started, to be typed at or to exit. A shell
that is alive does not hold the lock for `StaleAge` (the guard of `Tick`): it holds it for a few
system calls, and the code itself relies on its ten seconds.

BrightLink, `FairSpec`: the builtin goes on, and the bridge, if a request has reached it, answers or
closes the connection, both weakly. That is needed: the client has no time-out (`brightlink.c:361`),
so a bridge that does neither makes it wait for ever.

## The proofs

Eight modules hold theorems; a module of proofs extends the module it is about. They hold for every
value of the constants that the module's own assumptions admit (sizes are naturals, switches Booleans,
the value for "nothing" is not one of the values it stands for); where a theorem needs more it says so
after `ASSUME`:

| theorem | states | needs |
|---|---|---|
| `SignalQueueProofs!TypeCorrect`, `CounterCorrect`, `MutualExclusion` | `TypeOK`, `LevelBalanced`, `CriticalSectionsRunAlone` | |
| `JobControlProofs!TypesCorrect`, `EntryIsKept`, `PipelineStatus`, `CurrentJobIsThere` | `TypeOK`, `JobKeptWhileBuilt`, `ForegroundStatus`, `CurJobUsable` | |
| `JobControlProofs!NoChildLost`, `StatusIsCurrent`, `ReportsFindTheirProcess` | `LiveProcsTracked`, `StatusCurrent`, `LiveProcFound` | `Numbers` |
| `JobControlProofs!StatusesAreRight` | `BgStatusRight` | `~PidReuse` |
| `ControlFlowProofs!TypesCorrect` | `TypeOK` | |
| `ControlFlowProofs!LoopsCounted` | `LoopsTrueDepth` | `Orderly` |
| `ControlFlowProofs!CompletionImplemented` | `ImplementsCompletion` | `Untroubled` |
| `HistoryFileProofs!TypesCorrect`, `NoneWrittenTwice`, `ExitsSave` | `TypeOK`, `WrittenOnce`, `ExitSaves` | |
| `HistoryFileProofs!LockIsHeld` | `WriterHoldsLock` | `Monotonic` |
| `HistoryFileProofs!NothingLost`, `ReadsSeeAll` | `SavedKept`, `ReadSees` | `Monotonic`, `HISTSAVEBYCOPY` |
| `TrapsProofs!TypesCorrect`, `TablesAgree`, `SavedInScope` | `TypeOK`, `TrapTablesAgree`, `SavedTrapsInScope` | |
| `TrapsProofs!FunctionsRestoreTraps` | `TrapsRestored` | `~SelfChange` |
| `BrightLinkProofs!TypesCorrect`, `SessionsArePinned`, `SuccessIsStored`, `CountersInStep` | `TypeOK`, `SessionIsPinned`, `SuccessMeansStored`, `CounterInStep` | |
| `ParamsProofs!TypesCorrect` | `TypeOK` | `~Redeclared` or `Refs = {}` |
| `ParamsProofs!EnvironmentMatches`, `PrefixesUndone` | `EnvMatches`, `PrefixUndone` | `Refs = {}` |
| `ParamsReferences!NeverInACircle` | `NoCircle` | `~Redeclared` or `Refs = {}`; `~Revives` |

What is needed beyond the modules' assumptions, and why:

* `Numbers` is `~PidReuse \/ Stoppable = {}`. A kernel reuses process numbers, but only after a long
  while; `findproc()` is wrong for a stopped process in that case. `BgStatusRight` speaks of the last process of a
  number, of which an older status may still be listed, hence `~PidReuse`.
* `Orderly` is `Uses \subseteq {"alwaysInt"}`: scripts without the combinations for which the
  refinement fails. (TLC finds `LoopsTrueDepth` true with `exitAlways` and `trapSourceExit` as well.)
  `Untroubled` is `Uses = {}`: with each of the five the executor leaves the promise, see below.
* `~SelfChange`: the body of a trap does not change that very trap. Its flags carry ZSIG_IGNORED while it
  runs (`signals.c:1124`); inside a function with LOCAL_TRAPS they would be saved, and put back, with it.
* `~Redeclared`: no `local` is applied to a reference that leads to a parameter hidden by the scope
  it would be made in; the code then leaves a struct behind that outlives its scope, see below.
  `Refs = {}`: there are no references; `unset` through one leaves its target in the environment, and an
  assignment through one to a hidden exported parameter puts that in the environment, so that TLC finds
  `PrefixUndone` violated with a reference and two scopes.
* `~Revives`, as the hypothesis `[][~Revives]_vars`: no `unset` reaches, through a reference, one that is
  unset already and has kept its base. That needs a function called by a function; what it leads to is told
  below (`NoCircle`, `MaxLevel = 2`). With one level of scopes it does not happen.
* `Monotonic` is what the code does wherever there is `CLOCK_MONOTONIC`: the lock of another shell is
  never taken for stale. Without it two shells that both find a lock stale can both hold it.
  `HISTSAVEBYCOPY` is an option that is on by default; without it a crash in the middle of a rewrite
  leaves half a file.

Not counted among the results are four conditional theorems of SignalQueueProofs, `NothingLost`, `NothingTwice`,
`FirstInFirstOut` and `QueueKept`. They show `NoSignalLost`, `HandledAtMostOnce`, `DrainIsFifo` and `CatchingKeepsQueue` if no signal arrives while
the ring is full or between the statements that take an entry out of it (`Undisturbed`). The code prevents neither, and
loses signals in both cases (see below); the four say only that signals are not lost, repeated or overtaken in any other way.

The arguments:

**SignalQueueProofs.** That the counter is balanced after a bracket is closed needs
that each bracket has remembered the level below it (`StackOK`, `BracketsOK`): the level after
closing `k` brackets is that of the first `k - 1` (`CloseLemma`). That it is balanced after
a handler returns needs that the frame below was at level zero, which is `CriticalSectionsRunAlone`:
a frame is pushed at level zero only, since `zhandler()` saves the signal otherwise, and
`unqueue_signals` and `dont_queue_signals` start their loop with the counter at zero. So `IInv` is the
conjunction of `TypeOK`, `StackOK`, `LevelBalanced` and `CriticalSectionsRunAlone`, and each action
has a lemma; actions that keep the stack, push a frame or pop one share `SameFrameStep`, `PushStep`
and `PopStep`.

For the ring, `RInv` reads the ring as a sequence: `Entry(1)`, `Entry(2)`, ... up to the distance from front
to rear are arrivals in ascending order that have not been handled, `Entry(0)` the one that has been taken out and
not been handed over yet, and whatever else was caught has been handled once. Only the frame on top can be
in the middle of taking one out (`DequeueOK`). The arithmetic of indices modulo the size is in `Distance`,
`Place`, `Reach` and `Advance`.

**JobControlProofs.** `JInv` says which entry each step of the main program is about (`Control`) and that the
table consists of free entries, locked ones with processes, the one being built and that of the builtin that runs
(`Shape`); a finished job that is not locked cannot exist, or the next report would delete it. `Track` adds the kernel: entries whose
process has not ended and living children correspond one to one, with the status last reported. It is
needed that a child that has a pending report is alive (`Kids`), or recording the report could give a second
entry the same child. `BgListOK` says that a status listed belongs to a process that is gone and is listed once.
`CurOK` says what `curjob` and `prevjob` may miss: if there is no previous job, no job other than the
current one may be one that a builtin can name; the two are computed over and over from each other
(`setprevjob`, `setcurjob`, `deletejob`), and neither is right without the other. With NOTIFY jobs are deleted by the handler at any time and
`CurOK` is lost, but `setcurjob()`, which a builtin calls when it has reaped, leaves no job behind that cannot be named
(`setcurjobUsable`), and nothing is reaped before the builtin has looked (`UInv`). `printjobs` walks over
the table; it is a recursive function, which `printjobsIs` unfolds step by step. For `ForegroundStatus`, `FInv` follows the
last entry of a foreground pipeline (`LastOK`): once it is marked as ended it has the status of a child that is over (`Over`), and
when the job is done or has left the table that status is in `$?`. What is over stays so (`EndsStay`, `OverStays`): of the kernel
only `Kids` is needed, so numbers may be given out again and reports printed at once.

**ControlFlowProofs.** For the types `IInv` counts, with `Depth`, the loops below each frame that has put `loops` aside. For
`LoopsTrueDepth`, `Jumps` describes at every moment what the flags can be: an always list or a trap holds
flags of its own, which meet the current ones at its end, so the current flags are treated as a last frame (`Now`)
and each condition speaks of a frame, or of two, of that stack: a pending `continue` has a loop to go to, which is not at its
condition (`Clean`); no two jumps wait unless one only continues (`Waits`); a function that `exit` leaves, or a trap told to return,
has that return on its way (`Exits`, `Forced`). Each is false without the others, for each ending construct merges two frames.

For the refinement `RInv` adds to `JInv` four conditions on two frames, one inside the other: no interrupt arrives in an always list
(`Calm`); a trap on the way of an `exit` sources no file (`NoFile`); a trap that a return gets to has been told of it (`Heard`);
and a `continue` that waits for a trap is there when the trap ends (`Carried`). With them an always list, or a trap, finds at its end
exactly the flags of which `Completion` keeps a single value. `Opened`, `Jumping`, `Failing`, `Exiting` and `Doing` are the variables of
Completion as the instance `Promise` sees them; `ShownPush`, `ShownPop` and `ShownMove` relate the two stacks, and each action has a lemma
`...Shows` that names the action of Completion it is. The two that need the invariant are `AlwaysEndShows` and `TrapEndJump`, by
`Holding`, and `FunctionEndShows`, where a return that does not leave for good must be one that some frame further out
still holds (`ExitHeld`). A loop that is begun behind a jump may change which loop the jump is for; what is pending then is
read from the flags, and `PartReady` allows the step in Completion.

**HistoryFileProofs.** `Types` fixes the number of requests for the lock at every step of a shell; `LockHeld` says that a positive number
means the lock file is one's own. `Once` follows an event from `count` through the ring of the shell
that made it to the file: one that is not marked as saved has not been written, by this shell or another. `Copied` says of each step of a rewrite what
the copy holds.
`ReadSees` follows from it: the file is the end of `written`, which has no line twice, so if the line that a shell saw last is
where it was, all that has come since is further on; if not, the search begins at the first line that is not older, and no line that is not
older stands before that (`ReadFastHas`, `ReadSeesStep`). A shell that ends comes from the unlock after its save, or, with a monotonic clock, has given up. For `ExitSaves`, `Filed` says that what a ring has marked as saved has been written, or a write
failed; that the lines of the file and of each copy have been written; and that after the append all of the ring is marked
(`AllOld`), which the rewrite that may follow leaves alone. Recursive definitions (`Unsaved`, reading) are unfolded by the
lemmas `Induction` and `Recursion`, which take a set or a function instead of an operator as parameter.

**TrapsProofs.** `IInv` says of the traps that they are `Good`: the tables agree for every signal and agreed when a trap was
saved (`Tables`), saved traps lie in the order of their levels (`Scoped`), and what took the place of a saved trap belongs to its
level or one further inside (`Later`). Without `Later` the others are not inductive: `endtrapscope()` puts a trap back through
`removetrap()`, which saves the trap in force if that is older than the level, and its loop might then find a new entry at each turn.
By `Later` every turn takes one entry off and adds none (`RestoreGood`), so that the loop, unfolded by `Induction` and `Recursion`, ends
with the entries of the outer levels (`RestoreAllGood`). An operation changes the tables of one signal; `DiffersTables`,
`DiffersScoped` and `DiffersLater` say what is left to show of that signal.

For `TrapsRestored`, `TInv` follows each function that runs to the entry that has saved what it found: for a
signal, of the entries of the function's level and further inside the one that was saved first holds what the function found, and
the trap in force does if there is none (`Back`). What `endtrapscope()` puts back through `removetrap()` may
save nothing, or the loop would end with another trap. EXIT needs more, for its trap is also
cleared at the end of the function that has set it. So what that return clears is known to have been set inside, the trap found being saved
below it (`Cleared`, `Exit`); one set with POSIX_TRAPS has no level and is not put back, which `Plain` excludes for the functions the property
is about. While the trap of a signal runs with the flags of `sigtrapped[]`, these are not what the functions further out found; `Untouched`
says that no function further inside has saved the trap meanwhile, so that its end takes the same flag off again.
A change of one trap (`Alters`) and the restoring of one (`Restored`) are shown to keep each of these conditions, and the stack of frames is
handled by `PushTies` and `WatchTies`.

**BrightLinkProofs.** The message under way is what relates both ends: a request repeats what the client knows when it is
sent, and an answer says what the bridge has done (`WireOK`). `CounterOK` is `CounterInStep` at all times (`InStep`): the delivery under
way counts only when its good answer is there (`Confirmed`), until then it may be taken back. `ForkOK` says the same of what the
waiting shell keeps: as long as both use one connection they have one session, and a delivery of the forked shell is not among
those that returned 0 in the waiting one.

**ParamsProofs.** The operators that bear the names of the C functions map one record of the table to the next, so the proof is a
chain of lemmas about them: each keeps `Sound`, by which the structs of a name have falling levels, none above the current one, and the
copies that functions and prefixed commands keep (`save_params`) fit below the scope they will be put back in. For the environment
`EInv` adds that `environ` has the value of the visible struct if that is marked as being in it, that no hidden struct is so marked, nor
one put aside for the end of a command (`Fine`, `Aside`): what hides, ends, is unset or is put back has to turn over the mark and the
entry together (`Turns`). That a prefixed command leaves a parameter as it was is plain where there was one: `restore_params()` puts
the copy in the place of whatever is visible then. Where there was none only the visible struct is taken away, and one it hides, or
one that stays in the table as its scope is open, would be left. `PInv` excludes that: a name that was absent
when a command began has since only got structs of level 0, or of the scopes inside the command, and so have the copies kept by
the commands inside, which come back before (`Since`). `LevelsFrom` says of each operator which levels it can
bring in. When the command ends, its scope and those inside have ended, one struct of level 0 is left at most, and that is removed
(`restore_paramsGone`); only a builtin has no scope of its own, which is the exception that `PrefixUndone` names.

**ParamsReferences.** `CInv` adds to `IInv` what is known of references. `Clear`: the base of a reference is the level of a scope that is
open and in which the name it refers to has a struct, unless an error is about to end everything (`Rooted`); a reference to a scope
deeper than its own is listed for the end of that scope; a reference to nothing has no base (`Blank0`); and every circle goes through the one
reference that `setscope()` is looking at. `Grounded`: the frames go down to level 0, and no reference is put aside for the end of a
command. The first three are why nothing comes between a reference and its target, or is found in the target's place when a scope ends, which
could close a circle behind the back of `setscope()`; without them the last one is not inductive. An operator that changes one
struct keeps `Clear` by `AltersClear`, one that makes a struct by `BornClear`, one that empties a reference by `EmptiedClear`. `setscope()` itself walks
from the reference it looks at: if there is a circle, it goes through that reference, so the walk comes back to it
(`WalkTraps`), and in time, as a walk that does not come back visits each struct once and structs are counted (`Bounded`, `Steps`); the
reference is then emptied, and none is left (`NoWayRound`). At the end of a scope the structs fade name by name (`Fade`, `FadeClear`), while the
references listed are cut off one by one (`ResetScopeClear`, `ResetAllClear`).

Only model-checked, because not proved yet: `RefStable` of Params, which is true within the bounds of `params_ref` and false beyond
them, see below.
Out of TLAPS's reach: the liveness properties and their fairness (`EverySignalHandled`, `WaitingEnds`,
`ExitEnds`, `CallEnds`).

## Disagreements found

One is a run that expects a violation, and an entry of `findings` with the text it contradicts:

* `control_flow_continue`: a `continue` in the condition of a loop (`until continue; do ...`,
  `while ! continue; do ...`), or in a chain before it, is pending when the loop ends before the flags are looked at (`loop.c:453`). `breaks` is
  counted down, `contflag` stays, and the next `break` of a loop outside goes on with that loop
  instead of leaving it.

The others below were found with the properties and constants named, and can be seen again by putting
them in a `.cfg`; the passing runs keep clear of them by their constants. Properties that
no run checks for this reason stand near the end of their module, under a comment that says so.

SignalQueue, JobControl and Traps:

* `CatchingKeepsQueue`, `Overflow = TRUE`: `zhandler()` increments `queue_rear` before it tests for a
  full ring (`signals.c:411`). The new signal is dropped, as intended, but the index stays: the ring
  then looks empty, and the signals saved in it are lost. The ring of the trap queue
  (`signals.c:980`) is written in the same way.
* `NoSignalLost`, `DequeueWindow = TRUE`: a signal that arrives just after `queue_front` has been
  advanced and whose handler empties the ring makes the interrupted loop take a later entry for its own
  (`signals.h:81`).
* `LiveProcFound`, `PidReuse = TRUE` with stopped children: `findproc()` prefers an ended process to a
  stopped one with the same number (`jobs.c:230`), against its comment.
* `CurJobUsable` without its `~NOTIFY`, `NOTIFY = TRUE`, three stoppable children and `NJobs = 4`: the job in the foreground
  stops while it is still `thisjob`; in the same run of the handler the previous job ends, is printed and deleted, and
  `setprevjob()` passes over `thisjob` (`jobs.c:697`-717) so that there is no previous job. When the
  current job ends as well there is no current job, although a stopped one is there.
* `StoppedMeansStopped`: the test `WIFCONTINUED(pn->status)` of `update_job()` never holds, since
  the status has been replaced by `SP_RUNNING` before (`signals.c:347`); a job continued by another
  program remains marked as stopped.
* `WaitReturnsJobStatus`: `wait %job` returns the status of whichever job finished last (`jobs.c:2694`;
  `Doc/Bsh/builtins.yo:2506`).
* `PreviousTrapRestored`: with LOCAL_TRAPS, a trap left by an earlier function of the same depth is
  not restored (`signals.c:795`; `Doc/Bsh/options.yo:1867`).
* `SelfChange = TRUE`: a trap whose body changes its own trap inside a function with LOCAL_TRAPS stays
  ignored for good.
* An EXIT trap saved at the call of a function is lost if POSIX_TRAPS is set in it (`TrapsRestored`
  speaks of functions during which it was unset).

ControlFlow, which the runs keep, and for which Completion makes room (`PartReady`):

* The parts of a chain of `&&` and `||` that need no job are run behind a jump (`exec.c:1295`, 1499-1569):
  `f() { return 1 || x=1; }` assigns `x` and returns 0. A loop there takes a `break` that is meant for one further out
  (`loop.c:176`): `for j in 1 2; do break && true || for i in 1 2; do x=1; done; done` goes on with its outer loop. And
  `continue && true || until [[ 1 ]]; do x=1; done` leaves `contflag` set as in `control_flow_continue` (`loop.c:453`);
  `Uses` keeps that one away as `untilContinue`.

ControlFlow, by the member of `Uses` that lets them in:

* `alwaysInt`, `InterruptPropagated`: SIGINT during an always list is dropped by `exectry()`, which
  restores the `errflag` it saved (`loop.c:788`; `Doc/Bsh/params.yo:1029`).
* `overContinue`: `dotrapargs()` neither saves nor clears `contflag`; `exectry()` restores `contflag`
  although the always list did a `break` or `return` of its own, by which it leaks out of a function
  (`doshfunc()` saves `breaks` and `loops` only); SIGINT while a `continue` is pending makes the loop it
  should leave go on.
* `exitAlways`: an always list or a trap on the way of an `exit` in a deeper function is cut short when
  a function it calls returns, since `exit_pending` is compared with the level only (`exec.c:6144`); a
  file it sources leaves `retflag` set (`init.c:1664`).
* `trapSourceExit`: an `exit` in a file sourced by a trap waits until the function that was
  interrupted returns (`init.c:1604`).

HistoryFile:

* `ExitSavesAlways`, `Monotonic = TRUE`: `checklocktime()` compares a time of `CLOCK_MONOTONIC` with the
  modification time of the lock file (`hist.c:3149`), so that the age of a lock left behind is
  meaningless and a shell that finds one gives up, against `Doc/Bsh/options.yo:847`.
* `RewriteOnlyWhenLong`: `histfile_linect` is not told of a rewrite (`hist.c:2942`, 3051, 3106-3125), so
  that the first event after the first rewrite makes another one, and so on (`Doc/Bsh/options.yo:1055`).
* `ReadSeesAll`, three shells: a shell that writes an event it has kept for long may take the time of the
  line seen last (`lasthist.stim`) back, but the lines that an earlier search has passed over as too old
  (`hist.c:2800`) are not looked at again. `ReadSees` speaks of what has come since that line.
* Not shown by a property: two shells that both find a lock stale may remove each other's new lock
  (`hist.c:3170`); the search that begins again from the start of the file does not reset the position
  it counts from; a file of equal size and time of modification is taken for unchanged; a failed append
  leaves its events marked as saved; events of the same second may be imported twice; older events
  written late, after a rewrite, are never imported.

BrightLink:

* `CounterInStep` without its exceptions: `link_emit_deliver()` searches the whole answer for `error` (`brightlink.c:1464`), and a
  good answer repeats type and context (`docs/rfc-brightlink.md`, 4.6.4). A delivery with the context `error` is stored,
  reported as failed, and its counter taken back (`brightlink.c:1572`). A delivery by a subshell, `(bsh-inject ...)`,
  advances the bridge and not the shell. Either way the shell is behind, every later delivery in that session repeats
  a counter and is refused, and as each refusal takes the counter back it never catches up.
* `Reregisters`: once `link_session_active` is set only unloading the module clears it
  (`brightlink.c:1086`), so that a session the bridge has forgotten is used again for every delivery;
  `docs/rfc-brightlink.md` (line 139) has the shell register again.

Params:

* `UnsetNotExported`: the struct that comes to light when a scope ends is exported by
  `unsetparam_pm()` although it is unset (`params.c:3942`); `unset` has taken it out of the environment
  before (`Doc/Bsh/builtins.yo:2466`).
* `BasesOpen` and `RefStable`, `MaxLevel = 2`: a reference listed in `scoperefs` that is unset when the
  scope ends keeps its `base` (`params.c:5962`, against the comment at 502). A function does
  `typeset -gn r=x; unset -n r; unset r`; when `r` is assigned to later, the reference has a base
  deeper than its scope. `params_ref` has one level for this reason.
* `NoCircle`, `MaxLevel = 2`, three references: by the same way. Through such a base a reference made later finds the struct of an
  inner scope and passes by the outer one, so that `setscope()` does not see the circle; when the scope ends it is there.
  (In a function `typeset -n r`; in one it calls `local s; r=s; unset -n r; typeset -n t=r; unset t`; then `r=s; typeset -n s;
  typeset -n t=s`, and in another call `local s; t=r`.)
* `ListedAreThere`: `scoperefs` keeps pointers to structs that were freed with a scope.
* `TypeOK`, `Redeclared = TRUE`: `typeset -n x=x; local x` in a function finds a parameter that is not
  unset, where `createparam()` has a debugging message that begins with BUG; the struct made then stays
  when its scope has ended.
* `x=2 eval 'local x'` in a function leaves a global `x` behind; `PrefixUndone` says so in its
  exception.
* A parameter unset through a reference from a deeper scope stays in the environment
  (`builtin.c:3942`), and one that is hidden and assigned to through a reference changes the environment
  of the one that hides it.

## What is not modelled

Of the components above, heaps, scheduled commands, module loader and redirections are planned. Input,
lexer, parser, expansion, patterns, completion and display are sequential functions of text, whose
correctness is not a matter of states. Loadable modules are mostly thin layers over system calls.

Within what is modelled:

* jobs: superjobs, subshells, coprocesses, failing forks, `auxprocs`,
  terminal modes and process groups (a pipeline is stopped or continued process by process);
* traps: the trap queue, DEBUG and ZERR traps, `disable -f`, subshells;
* signals: what happens in the handlers of other signals than SIGCHLD, and the window between the test
  of `queueing_enabled` in `zhandler()` and its use, in which all signals are blocked;
* executor: ERR_EXIT, ERR_RETURN and the DEBUG, ZERR and EXIT traps, traps that are functions, `case`,
  subshells, and the condition of arithmetic `for` loops;
* history: locking by `fcntl()`, interrupted reads, the bound of the ring and the removal of
  duplicates, `fc -p`, the mode in which the file is always rewritten;
* BrightLink: a forked shell that uses the connection at the same time as the shell (a background job, the stages of
  a pipeline), whose requests and answers may then be mixed up, and forks of forked shells; the keys and their encryption, the fields of JSON, SIGPIPE when the bridge closes the
  connection before the write (`brightlink.c:333`);
* parameters: types other than scalars and references, special, tied, readonly, private and autoloaded
  parameters, subscripts, ALL_EXPORT, POSIX_BUILTINS, TYPESET_TO_UNSET, references made with `-u`, and
  `TRY_BLOCK_ERROR`, by which an always list may clear `errflag` and the commands after it go on.

## The plan

1. `SignalQueue`, `JobControl`, `Traps`, `Completion` and `ControlFlow`, `HistoryFile`, `BrightLink`,
   `Params`: done; SignalQueue with its first proofs.
2. Theorems: done for every module, the refinement of Completion included, see
   [the proofs](#the-proofs). Next: what is listed there as only model-checked.
3. An abstract specification of mutual exclusion with deferred interrupts that SignalQueue
   implements, and through which JobControl and Traps take their atomic steps.
4. `TrapQueue` (with `wait`), superjobs and failing forks in a module beside JobControl; `HistoryRing`
   for the ring of events.
5. `Sched`, `Modules` and `Heaps`: small sequential modules with hard invariants.

## How to run

In this directory: `tlc -workers 2 -config SignalQueue.cfg MCSignalQueue` (a `.cfg` names its
instance, the module is that of the run in `PROJECT.json`), and `tlapm M.tla` for each module of
proofs. From nothing, `ControlFlowProofs`, `ParamsProofs` and `ParamsReferences` take seven to eight minutes each, `JobControlProofs` five,
`TrapsProofs` three and the others less.
