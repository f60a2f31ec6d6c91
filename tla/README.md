# Novash in TLA+

Novash is a small interactive Unix shell in C. This directory models five
parts of it. The first is its job control, in which things happen at the same
time: one sequential process, the shell, keeps a table of jobs, hands the terminal
to one of them, and learns what became of its children from signals and `waitpid`,
while the children, the keyboard and other programs act between any two of its
steps. The second is its history, which outlives the process: a ring in memory
and a file, over sessions that end in order or are killed. The third is the path
of a command line: the parser that turns tokens into a tree, whatever the tokens
are, and the walk over the tree that decides which of its jobs run. The fourth is
what a pipeline is made of: who holds which end of which pipe, in which process
group, and what becomes of the data when processes die. The fifth is words: how
the lexer cuts a line, and what the expander makes of a command.

Paths below are relative to `src/src/`, the program's own code.

## The system

| component | state it keeps | operations | talks to |
|---|---|---|---|
| Job table (`executor/jobs.c`, `shell/state.h`) | the list of jobs, each with its processes, state, background flag, live count; `running_jobs_count` | add, remove, find by group / pid / id, mark stopped / continued / completed | everyone, by pointer |
| Job launch and foreground wait (`executor/executor.c`) | `exec_ctx_t`: signalfd, previous mask, synchronisation pipe, pipe ends | `run_job`, `handle_foreground_execution`, `exec_node`, redirections | kernel, job table, reaper |
| Child reaper (`shell/signal.c`) | none | `handle_sigchld_events` | kernel, job table; called by readline's event hook and by the foreground wait |
| `fg`, `bg` (`builtin/job_control.c`) | none | continue a job, wait for it | job table, kernel, foreground wait |
| Shell loop (`shell/shell.c`, `main.c`) | `should_exit`, `warning_exit`, the AST and command of the current line | read a line, save it, parse, expand, execute | readline, all of the above |
| Shell state (`shell/state.c`) | identity, environment, terminal modes, flags, last exit status | init, free, `shell_regain_control` | kernel |
| History (`history/history.c`, `builtin/history.c`) | ring of 1000 entries, the file, the stream on it | load, save, trim, `-c` | shell loop, file system |
| Pipelines (`executor/executor.c`) | descriptors of the shell and of each child, `fd[0]`, `ctx.in_fd`, `ctx.out_fd`, the synchronisation pipe | `run_job`, `fork_process`, `handle_redirection`, `handle_pure_builtin_execution` | kernel |
| Lexer (`lexer/lexer.c`) | `lexer_t`: position, open quote; the parts of the word | `lexer_next_token` and a handler for each kind of part | parser |
| Parser (`parser/parser.c`) | the tokens ahead, the tree so far | recursive descent | lexer, shell loop |
| Expander (`expander/pipeline.c`, `expander.c`) | the words of a command | parameters, tilde, globbing, redirection targets | environment, users, directory |
| Other builtins, prompt, utilities | none | print, change directory | shell state |
| Operating system (external) | processes, groups, pending signals, the terminal's foreground group | `fork`, `waitpid`, `kill`, `tcsetpgrp`, `sigprocmask`, `signalfd` | |

### What is hard about it

*Order.* A child may end or stop at any moment: between two forks of its own
pipeline, between the moment its job is continued and the moment the shell
blocks `SIGCHLD`, while the table that describes it is being changed by the
report of another process. The processes of one group never change state at the
same instant.

*Pointers kept across a callback.* The foreground wait holds a `job_t *` while it
calls the reaper, which frees jobs.

*Redundant state.* A job's state is recorded four times: `state`,
`is_background`, `live_processes` and the states of its processes; the number of
jobs that run is counted a fifth time. Each handler updates some of them.

*Failure.* A failing system call ends the shell (`utils/system/syscall.c`),
wherever it was: also `tcsetpgrp` or `kill` on a group that is gone.

*Waiting.* The wait for a job sleeps in `poll` with no timeout; a signal that was
lost is never sent again. A reader waits for data until the last end to write is
closed, wherever that is open.

*Numbers.* A descriptor that is closed gives its number to the next one that is
opened. `run_job` opens and closes ends in each round of its loop, and closes at
the end numbers that may have been given out again.

*Characters.* The lexer decides at each part of a word, from one character and
one flag, which handler reads on and where it stops.

`PROJECT.json` lists the places one by one under `hazards`.

### What makes each component correct

- Job table: ids and groups identify entries; the counters say what they are
  documented to say; an entry goes exactly when its processes are gone.
- Launch and wait: the terminal belongs to the job that is waited for, and to the
  shell otherwise; no report about the job goes unheard; the wait ends when the
  job ends; the signal mask is what it was.
- Reaper: every child that changed state is accounted for, whoever called it.
- `fg`, `bg`: they act on other jobs that still exist, wake what is stopped, and
  leave no trace in the signal mask.
- Shell loop: end of file and `exit` warn before running jobs are left behind;
  Ctrl-C does not end the shell.
- History: the ring is the last 1000 lines, the file can be read back into it
  whatever happened to the shell in between.
- Pipelines: each end of a pipe is open where it is needed and nowhere else once
  the job is launched; programs run on the ends of their place; a job is one process
  group; the shell has back, after each job, the descriptors it had before. (It
  should not leak any either, but each `fg` leaks one.)
- Lexer: it cuts a line where quotes, escapes, brackets and operators say, and
  gives the parser only what that can take.
- Parser: it agrees with the grammar of `src/README.md`, comes to an end on every
  line, and loses no word of a line that is wrong.
- Expander: no word is lost, and what is quoted stays as it was typed.
- Execution of a line: `&&`, `||`, `;` and `&` mean what they say, whatever is in
  memory that nobody initialised.

## Modules

| module | what it is |
|---|---|
| `ProcessIds` | the process ids of a session |
| `JobTable` | `jobs.c`, and what `fg`, `bg`, `run_job` and the reaper do to a job, as operators from a table to a table |
| `Kernel` | external: what the shell can observe of the operating system |
| `JobControl` | the shell as a state machine over both: the specification |
| `JobProperties` | what it must guarantee |
| `TerminalProtocol` | the abstract specification: who may own the terminal, and when that changes |
| `JobInvariant` | the inductive invariant, and what more holds of a shell that is used in a restricted way |
| `MCJobControl` | values for TLC |
| `JobControlProofs`, `RestrictedProofs` | the theorems |
| `HistoryRing` | the circular buffer of `history.c` as operators on a `history_t` |
| `History` | sessions, the ring and the file: the specification, its properties and its inductive invariant |
| `BoundedLog` | the abstract specification: a log of the last commands |
| `MCHistory` | values for TLC |
| `HistoryProofs` | the theorems |
| `Syntax` | tokens, and the nodes of the tree |
| `Parser` | `parser.c` as a state machine over the tokens |
| `CommandLine` | `shell_loop` and `exec_node` around it: the specification |
| `Grammar` | what the tree of a line should be, by cutting the line up |
| `AndOrLists` | the abstract specification: which jobs of a line run |
| `CommandLineProperties` | what parsing and executing a line must guarantee |
| `CommandLineInvariant` | the inductive invariants of the parser and of `exec_node` |
| `GrammarInvariant` | the inductive invariant of the parser and the grammar |
| `CommandLineProofs`, `GrammarProofs` | the theorems |
| `Descriptors` | external: a table of descriptors, and what `open`, `pipe`, `dup2` and `close` do to it |
| `PipelineData` | the shell, the children and the pipes of one job after the other: the specification |
| `PipelineProperties` | what `run_job` must guarantee of descriptors, groups and data |
| `PipelineInvariant` | the inductive invariant |
| `MCPipelineData` | values for TLC |
| `PipelineProofs` | the theorems |
| `Lexer` | `lexer.c` as a state machine over the characters of a line |
| `Expander` | the passes over the words of a command |
| `Words` | both, and what the parser hands on of a command: the specification |
| `WordsProperties` | what they must make of a line |
| `MCWords` | values for TLC |
| `WordsProofs` | the theorems |
| `LibraryProofs` | lemmas for all of them: what `Min`, `FlattenSeq` and `SetToSeq` of the community modules return |

### Job control: state

`table` is the `shell_jobs_t` of the source. Its list is the sequence `table.jobs`
of addresses, oldest first, and `table.at[j]` the `job_t` at address `j`; freed
memory goes back to the contents of fresh memory, so that a property about a job
that is not listed is a property about nothing. The list of processes of a job
is a function from all pids, `"absent"` for those it does not name. Counters wrap:
`live_processes` at `MaxUnsigned`, `running_jobs_count` at `MaxSize`.

`proc`, `report`, `group`, `deaf`, `tstp` are the children as the kernel sees
them. `report[p]` is the stop or continue that `waitpid` has not given yet; a
zombie owes its exit. `deaf` are the children that inherited a mask with the
three signals blocked, so that neither Ctrl-C nor Ctrl-Z reaches them. `tty` is
the terminal's foreground group, `blocked` whether the shell blocks the three
signals (the code always blocks or restores the three together) and `pending`
what a signalfd would read.

`pc` is where the shell is. `cur` is the job `run_job` was called for, also while
a builtin runs in it; `wait` the argument of `handle_foreground_execution`. The
two tell its callers apart: `wait = cur` is `run_job`, `wait # cur` is `fg`.
`saved` is `ctx.prev_mask`, `left` how many processes `run_job` has still to fork,
`args` the ids `fg` or `bg` has still to handle.

### Job control: steps

A step is what the shell does between two moments at which something else can
make a difference.

| action | code |
|---|---|
| `StartJob` | `run_job` to the fork loop: `jobs_add_job`, `executor_init_context` |
| `ForkProcess(p)`, `ForkFails` | one round of the loop; a failing wrapper in it |
| `LaunchBackground`, `LaunchForeground` | after the loop |
| `LeaveRunJob` | `executor_destroy_context`: the mask comes back, pending signals are delivered |
| `JobFinished`, `PollReturns` | the test of the wait loop, and `poll` |
| `DrainChld`, `DrainInt`, `DrainTstp` | one signal read from the signalfd (in any order) |
| `JobStopped`, `PollAgain` | after the draining |
| `EventHook`, `Reap(p)`, `ReapDone` | `handle_sigchld_events`, one action per `waitpid` |
| `StartBuiltin`, `AllIdsDone`, `NoSuchJob` | `fg` and `bg` around their loop over the ids |
| `Fg`, `FgBlocksSignals`, `Bg` | one id (its job is `target`); `fg` in two steps, because the mask is set last |
| `NoSuchGroup`, `SignalfdFails` | a wrapper in them exits the shell: the job has no group, or no longer, as the entry of `fg &` itself; no descriptor is left |
| `OtherLine`, `Exit`, `EndOfFile` | the other things one can type |
| `KeyInt`, `KeyTstp`, `KeyTstpToForeground` | Ctrl-C and Ctrl-Z, by who owns the terminal |
| `ChildRuns(p)` | a child ends, stops, is stopped, continued or killed |

A definition with a suffix, `Minus_NoWrap` or `EventHook_NotInstalled`, is the
definition without it with a bug a programmer could have made. No action uses it;
it is there to see that some property notices the bug.

### Job control: abstractions

- A child ends whenever it likes while it runs. That covers its own exit, Ctrl-C,
  `SIGPIPE` and the `SIGINT` the shell passes on.
- `fork` and the two `setpgid` calls are one step. The race the synchronisation
  pipe is for, and children that die before they write to it, are in
  `PipelineData`: what that shows (`JobIsOneGroup`, `JobIsLaunched`) is what makes
  the one step right for a job whose first child lives to write.
- Pids are not reused while the kernel or the table still names them.
- `done` and `killed` processes are one state: nothing reads the difference.
- Ctrl-Z while the shell owns the terminal, unblocked, suspends the shell, which
  a parent shell continues later: a step that changes nothing.
- After `exit` the code still runs the rest of the line; the model stops.
- `fg` and `bg` inside a pipeline run in a forked child on a copy of the table:
  for the shell that is a job like any other.
- The shell is interactive: the readline branch, with a terminal.

### History

`file` is the lines of `HISTFILE`, `hist` the `history_t`, `at` where the one
session is (`off`, `load`, `prompt`, `trim`), `pos` how far `history_load` or
`history_trim` has come. `LoadLine` is one round of the loader's loop, `Type(cmd)`
a line of the user, saved before it runs and then, if it is `history -c`, emptying
the ring; `Leave` is the end of `shell_loop` with the beginning of `history_trim`,
`TrimLine` one round of its loop, `Crash` the end of the process anywhere else, by
a signal or by the `exit` in a system-call wrapper. `CrashPoints` says where it is
allowed. `MaxLines` is a bound for TLC only.

Each line `history_trim` writes reaches the file in a step of its own. In the
program they arrive whenever stdio's buffer is full; that it may cut a line in two
is left out. So are time stamps, readline's own list, and lines longer than the
1023 characters the loader reads at once, which it takes for two. Only one shell
runs at a time.

### Command line

`line` is the tokens the lexer has returned so far. It may return any token next,
since there is a line with any tokens; a number with a redirection behind it is
the one token that decides what follows. A word is its place on the line, which
is enough to see whether it is lost, repeated or moved; the three redirection
operators are one token.

The functions of the parser do not call themselves, so that `at` and one variable
for each of their locals (`command`, `pipe`, `left` and `op`, `root`) are its C
stack. A step is one round of a loop, or what is between two loops. `exec_node`
does call itself: `stack` holds its calls, each with a node and how far it has
come; `status` is what the last call returned, `ran` the jobs of the line that
were run, `outcome` how the last of them really went, which the code does not
always tell its callers.

| action | code |
|---|---|
| `EmptyLine`, `StartLine` | the first token in `parser_create_ast` |
| `ParseArgument` | one round of `parse_arguments` |
| `ParseDescriptor`, `ParseOperator`, `ParseTarget`, `MissingTarget` | `parse_redirection` |
| `EndCommand`, `NoFirstCommand`, `NoLaterCommand`, `ParsePipe`, `EndPipeline` | `parse_command` and `parse_pipeline` |
| `ParseAndOr`, `EndConditional`, `EndOfCommands` | `parse_conditional`, and its result |
| `ParseSeparator`, `EndOfSeparators` | the separators between two lists |
| `ExecuteLine`, `FinishLine` | the rest of `shell_loop` |
| `Unusable`, `NextOfSequence`, ..., `EndOfConditional` | `exec_node` before and after it calls itself |
| `RunBuiltin`, `RunBackground`, `RunForeground`, `NoName` | `run_job`, by what it returns |

`exec_node` skips a node whose flag `invalid` is set. The expander sets it on
commands, but nothing clears it when a node is allocated, so that the flag is
what `malloc` returned: `Garbage` says which values that may be. Each node's flag
is read once, when its call begins, and is chosen then. A pipeline without its
first command may consist of one command only; if that one's expansion failed,
its `argv` is empty and `run_job` reads through NULL (`NoName`).

The tokens are any that `TokensAfter` allows. That the lexer returns no others is
`TokensSuitParser`, a property and a theorem of `Words`.

Left out are the contents of words, hence the expander but for its failing; the
text of a job (`raw_str`, which starts after its first word); printing and freeing
trees; and `exit` and Ctrl-C, which are in `JobControl`. What a job does while it
runs is there too: here it is only what `run_job` returns. `cd` also
returns -1 and `fg` the code of a stopped job; an instance whose `ExitCodes` are 0
and 1 has both ways a status is tested.

### Pipelines

`fds` is the shell's table of descriptors, `table[i]` that of child `i`, each a
function from numbers to what they stand for: the terminal, the stream of
`history.c`, the signalfd, a file, an end of a pipe, or nothing. Pipe 0 is the
synchronisation pipe, pipe `k` joins the processes `k` and `k + 1`. `ctx` is the
`executor_ctx_t` with `fd[0]` of `run_job`, and `copy[i]` the copy the child got
by being forked. `n` is the process the loop is at, `buf` how much is in each
pipe, `held[i]` how often program `i` has still to write. `open` and `dup` give the
lowest number that is closed, as the standard says, and everything that depends
on numbers follows from that. `leaked` is the numbers `fg` has opened, which
nothing closes. Only the numbers up to `MaxFd` exist, so that they can run out.

| action | code |
|---|---|
| `StartJob` | `executor_init_context`: the synchronisation pipe and the signalfd |
| `ForkProcess` | one round of the loop: `xpipe`, `xfork`, the shell's end to write of the synchronisation pipe |
| `PipeFails`, `CallFails` | a wrapper in it, or in `fg`, exits the shell: no two numbers are left for `xpipe`, or for another reason |
| `ReadSync` | the read of one byte, and `getpgid`, for the first child |
| `SetGroup` | the parent's `setpgid` for a later one |
| `ParentCloses` | what the shell closes at the end of the round |
| `Launch`, `JobFinished`, `LeaveRunJob` | after the loop, the wait, `executor_destroy_context` |
| `RunBuiltin`, `BuiltinCannotOpen` | `handle_pure_builtin_execution` with redirections, of a builtin that opens nothing |
| `BringToForeground` | the same of `fg`, whose signal descriptor stays open (`job_control.c:171`) |
| `JoinGroup(i)` | `fork_process` in the child up to its redirections |
| `ConnectIO(i)` | the redirections, `dup2` of both ends, `exec` |
| `ReadData`, `ReadEof`, `WriteData` | the program (external): it reads, writes, gets an end of file or `SIGPIPE` |
| `Killed(i)` | the end of a child from outside, at any moment |

`handle_redirection` opens each file at the lowest free number and moves it to the
number asked for; the files are one value, and the definition says directly what
is left after all of them. Abstracted: the next job starts when the processes of
the last one, perhaps in the background, have ended (a child has only copies of
what the shell had before, and nothing of the next job); `fg` of one job is one
step at the end of its wait, during which no process looks at what the shell has
open; a program is whether it reads, whether it goes on for ever, and how often it
writes otherwise; a pipe holds `PIPE_BUF` writes. A process is killed, never
stopped: stops are in `JobControl`.

### Words

A line is a sequence of characters, with one representative for each kind that
`lexer.c` tells apart: `n` for letters, `1` for digits, every character with a
meaning of its own; `!` (a special parameter like `-`) and `+` before a number are
left out. `phase` is where the shell is, `pos` and `quote_ctx` are those of
`lexer_t`, `parts` the parts of the word so far, `tokens` what
`lexer_next_token` has returned. `node` is what the expander has still to do,
`argv` and `targets` what it has done.

| action | code |
|---|---|
| `OperatorToken`, `EndOfLine` | the operators of `lexer_next_token`, and its end |
| `StartWord`, `EndWord` | `handle_word_token` around its loop, and whether its word is a descriptor |
| `Quote`, `Variable`, `Tilde`, `Glob`, `Literal` | `lex_next_word_part`, by the handler it calls |
| `VariableCrashes` | a length below 0, which `xstrdup_n` takes for all of memory |
| `parse_command`, `MalformedRedirection` | the words and redirections the first command of the line gets; where a redirection has no word, `parse_redirection` exits the shell |
| `ExpandWord` | one round of `expand_argv_parts`: parameters, tilde, globs |
| `ExpandTarget` | `expand_redirection_target` |

One line is lexed and its first command expanded; the other commands go the same
way. External are `glob(3)`, of which `*`, `?`, brackets and backslashes are
modelled, the user database, the environment, and the files of the directory.

## Runs

Jobs and process ids are interchangeable and are symmetry sets in the runs
without liveness. Counters are 2 bits wide: large enough to count the
processes and jobs of every instance, small enough that a decrement below 0 is
seen as the large number it is. Deadlock is not checked: the shell may exit, and
a wait whose `SIGCHLD` was lost really stops.

| run | instance | shows |
|---|---|---|
| `full` | 3 jobs, 2 pids, pipelines of 1 and 2, `fg` with none, one and two ids, other programs stopping and killing children | the safety properties that hold whatever happens, the inductive invariant, and the refinement of `TerminalProtocol` |
| `terminal` | 3 jobs, 3 pids, one process per job, no signals but from the keyboard and the shell | the table's counters are exact, `fg` and `bg` end the shell only where `fg &` chooses its own entry, "done" is only said of what is done, Ctrl-D warns |
| `liveness` | 2 jobs, 2 pids, pipelines, `SIGCONT` from other programs, no `fg` or `bg` | a foreground job that ended gives the prompt back; an idle shell reports what ended; the mask is restored |
| `lost_child` | `fg` | **violated**: a child that ends before `fg` blocks `SIGCHLD` is not heard |
| `job_ids` | at most 3 jobs at a time, in the background | **violated**: two jobs with one id |
| `history` | a ring of 3, four commands, a file of up to 6 lines, sessions killed while they load or wait at the prompt | the ring is a bounded log, and what a later session can load is one that never shrinks; what `history` prints is at the end of the file |
| `history_clear` | the same, no kills | **violated**: after `history -c`, a session leaves more lines than the ring holds |
| `command_line` | every line of up to 5 tokens and its end, any flags in fresh nodes | the parser agrees with the grammar, keeps the words of wrong lines, and ends; `exec_node` runs the jobs the operators say |
| `conditional` | `a && b` | **violated**: `b` runs although `a` failed |
| `pipeline` | pipelines of up to 3 programs, some that write for ever or more than a pipe holds, the shorter ones with redirections of 0, 1 and 2, missing files, builtins, `fg`, 10 descriptors | `PipelineInv`; ends are held where they belong, programs are connected, the shell loses no descriptor and leaks only those of `fg`, a job is one group; the loop cannot hang, and a pipeline ends unless a process writes for ever or waits for itself to read |
| `broken_pipe` | `yes \| head` | **violated**: the pipeline does not end with its last process |
| `words` | all lines of 3 characters and those of 4 or 5 from characters that act on each other, 24000 in all | the lexer cuts like a reader who minds quotes, escapes and brackets; the parser gets tokens it can use; a crash needs an open `${`; no word is lost, what is quoted stays; every line is finished |

Three jobs are the fewest with which an id can be given out twice and with which
`fg` can wait for one job while it has an entry of its own and a third is reaped.
Two pids are enough for a pipeline whose processes stop one after the other and
for two jobs of one process; `terminal` has a third so that three jobs run at
once.

A ring of three turns more than once while a file of six lines grows, is loaded
and trimmed; four commands are enough to tell its slots apart.

Five tokens are enough for `a && b || c`, `a | b &`, `a > f ; b` and `a & ; b &`,
and for each of them with a token missing, doubled or out of place, which is what
the parser's error paths are for. The lists that group (`a && b || c`) need all
five.

Three processes are the fewest with one that has a pipe on both sides, an end of
the pipe before the last one to be closed, and numbers that are used again. With a
`PIPE_BUF` of 1 every writer has to wait, and three writes are one more than the
pipe and the one read of `head` take. With numbers up to 9 (`MaxFd`) there is one
more than a job ever uses: once `fg` has leaked some, `pipe`, `signalfd` or the
`dup` of a builtin finds none.

Three characters are enough for each pair of neighbours with something in front.
The lines of five are for what needs more: a quote of the other kind within
quotes, an escape in front of it, `${n}` and `${?}` with a brace missing, `1>` in
all its places.

`history` leaves out kills while the file is rewritten: with them `FileIsALog`
fails, as it must (`history_trim` truncates the file before it writes it), and no
document promises otherwise. `HistoryInv` and the other properties hold with them
too.

### Why the exact counters need `terminal`

`LiveCountIsExact`, `RunningCountIsExact`, `OnlyOwnEntryEndsShell`, `DoneMeansFinished`
and `EndOfFileWarns` are what the counters are for, and they hold as long as a
job is one process and only the shell signals it. Outside of that they do not:

- Ctrl-Z of a pipeline takes one job off `running_jobs_count` per process
  (`jobs.c:241`, from `signal.c:46`), and leaves `live_processes` at 0, from which
  an exit that is reported later wraps it to `UINT_MAX`.
- `SIGSTOP` to a background job satisfies the test for a finished one
  (`signal.c:55`).
- `SIGCONT` from another program changes the process but not the job: the job
  stays stopped in the table.
- A stopped job that is killed stays in the table as stopped, and the `fg` that
  finds it exits the shell because `tcsetpgrp` fails; so does a `bg`.

In `terminal` too the shell can end this way, by `fg &`, whose own entry has no
group: `OnlyOwnEntryEndsShell` says that this is the only way.

`IdleShellReports` fails with `bg` on a pipeline for the first reason, and
`RunJobRestoresMask` fails with `fg` at all, because `builtin_fg` stores the old
mask at `job_control.c:169` and nothing restores it. `lost_child` shows why
`LaunchedJobReturns` speaks of jobs `run_job` waits for, and not `fg`.

### Fairness

`FairSpec` adds `WF_vars(ShellStep)`: a shell that can take a step takes one. Most
of these steps are instructions of a running process. `EventHook` is one because
readline calls `rl_event_hook` ten times a second while it waits for a key
(`shell.c:56`). Nothing is assumed of children or of the user. `PollReturns` is
enabled only while a signal is pending: there is no fairness that would wake a
`poll` whose signal was lost. The liveness run leaves out stops from other
programs: a program that stops and continues a child for ever can keep the
reaper's `waitpid` loop busy for ever.

`CommandLine`'s `FairSpec` adds `WF_vars(LineStep)`: a line that was typed is
worked on. Its steps are the shell's own instructions, but for `RunForeground`,
which is a job that ends or stops: that the wait for it then ends is what the
`liveness` run is about. Nothing is assumed of the user's next line.

`PipelineData`'s `FairSpec` adds `WF_vars(ShellStep)` and, for each child,
`WF_vars(ChildStep(i))`: the kernel runs whoever can run. Nobody is assumed to be
killed, and no line or builtin to be typed. `PipelineEnds` is about pipelines in
which no process writes for ever; with one, nothing has to end. It allows a process
to wait for itself: a writer whose pipe is full and is read by nobody else, as in
`cat big | head -1`, blocks for ever on the read end it has open (`broken_pipe`).
The run has such lines, and shows that nothing else keeps a pipeline from ending.

`Words`' `FairSpec` is weak fairness of every step but the one that types a line.

### Findings

Five runs show where code and documentation part; `PROJECT.json` quotes the
lines. In one sentence each: `fg` may wait for ever on a job that has ended
(`lost_child`); after the first of two background jobs ended, the second of the next
two gets an id that is in use (`job_ids`);
what follows `&&` runs although the job before it failed, because a foreground
job that ended counts as 0 (`conditional`); trimming misses the lines that
`history -c` left in the file (`history_clear`); in `yes | head`, `yes` has the
read end of its own pipe open, gets no `SIGPIPE`, and the shell waits for it for
ever (`broken_pipe`); it is the same with any program that has more to write than a
pipe holds.

What else was met while modelling, without a run of its own:

- Ctrl-C at the prompt ends the shell (`KeyInt`: at the prompt `SIGINT` is neither
  blocked nor handled), although `src/README.md` says "Redisplays prompt without
  terminating shell".
- `fg &` takes its own entry, running and in the background, for the job it should
  wait for, and `tcsetpgrp` on its group 0 exits the shell (`job_control.c:69`,
  `NoSuchGroup`), although `job_control.c:134` speaks of the "last stopped job".
- A stopped job that is killed stays listed as stopped (`signal.c:55` completes
  background jobs only), and the `fg` or `bg` that chooses it exits the shell.
- `exit` leaves running jobs behind without a warning (`builtin.c:58`, `Exit`);
  `src/README.md` has it "with running job warning". Only Ctrl-D warns.
- Each job that `fg` brings to the foreground costs the shell a descriptor: the
  signalfd opened at `job_control.c:171` is never closed (`leaked`). When none is
  left, the next pipe, signalfd or builtin with a redirection exits the shell.
- Within quotes, behind another quote or a variable, a quote of the other kind
  ends them (`lexer.c:251`, `Misread`): `"$n'"` is not what it looks like.
- An empty word (`""`) and every word of more than one part is given to `glob`,
  and stops the command if no file has its name, quoted or not.
- A builtin whose redirection cannot be opened exits the shell
  (`BuiltinCannotOpen`); the comment at `executor.c:16` expects -1.
- A builtin's redirection of standard error stays (`ShellDescriptorsKept` leaves
  it out), and so does one of any number but 0 and 1.
- `-1>f` is a redirection of descriptor -1: `strtol` takes the sign.
- `raw_str` of a command begins after its first word, so that `jobs` prints a
  text without the command's name.

## Proofs

TLC's instances have 2 or 3 jobs. The theorems hold for any sets of jobs and of
pids, any width of the counters, any arguments of `fg` and `bg`, any pipeline
lengths and any signals of other programs. Assumed of the constants is only that
there are finitely many pids, that 0 and the shell's own group are none of the
children's, that NULL is no job, and that the parameters have their types
(`ProcessIdsAssumption`, `JobTableAssumption`, `KernelAssumption`,
`JobControlAssumption`; TLC evaluates all four on every run).

| theorem | says |
|---|---|
| `Invariance` | `Spec => []IInv` |
| `TypeCorrect` | counters stay within their width, `cur` and `wait` are jobs or NULL |
| `TerminalCorrect` | the terminal follows the wait |
| `WaitedJobIsSafe` | the job that is waited for is never freed by the reaper |
| `GroupsIdentifyJobs` | no two entries have one process group |
| `StoppedJobsAreWoken` | a stopped job is never marked background |
| `RunJobHearsItsChildren` | when `run_job`'s wait polls, what is owed about the job is pending |
| `Refinement` | `Spec => ImplementsProtocol` |

None of these properties is inductive. That the waited job is never freed needs to
know that the reaper's `jobs_remove_job`, which searches by group, removes the job
it was called for; that needs distinct groups; that in turn needs to know that at
most one entry has no group yet, which one it is, and where the shell is while
that is so (`EntriesOK`, `PlaceOK`). That a report has been heard needs to know
that `SIGCHLD` was blocked since before the fork (`HeardOK`). `IInv` is the
conjunction of these parts, and the `full` run checks it on a small instance
before the proof says it for all.

`JobControlProofs` first proves what each operator on the table returns and
preserves: its type, that the list has no entry twice, that groups stay distinct,
and what `Max` and `RemoveAt` of the community modules do, as far as needed
(`Min` is in `LibraryProofs`). It then has one lemma per action, `ReapKeeps`, `FgKeeps`, ...,
each with one step per part of the invariant the action can disturb, and derives
the theorems. For `Refinement` it first shows what the refinement mapping computes
(`HolderIsWaitedFor`: the job found by searching for the terminal's group is the
job that is waited for), then maps each action to a step of the protocol or to
none.

Two assumptions say how a shell may be restricted, and `RestrictedProofs` what
holds of it then, again for any number of jobs and pids:

- `NoFg`: nobody types `fg`, whose mask nothing restores (`job_control.c:169`).
- `OneProcessJobs`: a job is one process, only the keyboard and the shell send
  signals, and the counters have room: `live_processes` for 1,
  `running_jobs_count` for all the jobs there are addresses for. Each is needed,
  for the reasons given under "Why the exact counters need `terminal`"; `fg`, `bg`,
  Ctrl-C, Ctrl-Z and children that end at any moment are all allowed.

| theorem | assumes | says |
|---|---|---|
| `MaskIsRestored` | `NoFg` | `RunJobRestoresMask`: at the prompt no signal is blocked, and no child inherited a blocked mask |
| `LiveCountsAreExact` | `OneProcessJobs` | `live_processes` is the number of processes of the job that run |
| `RunningCountsAreExact` | `OneProcessJobs` | `running_jobs_count` is the number of listed jobs that run |
| `OnlyOwnEntryIsFatal` | `OneProcessJobs` | `OnlyOwnEntryEndsShell`: a failing `tcsetpgrp` or `kill` of `fg` or `bg` ends the shell only where `fg &` has chosen its own entry |
| `DoneJobsAreFinished` | `OneProcessJobs` | a job that is taken for finished has no process left |
| `RunningJobsAreAnnounced` | `OneProcessJobs` | Ctrl-D leaves no running job behind without a warning |

`MaskInv` adds to the first that only `run_job` waits (`wait = cur`) and that what
is saved is an open mask. For the counters, `SoloInv` says what every entry is
before, between and after reports: not yet forked (`Empty`), running as far as the
table knows (`Launched`), stopped and reported (`Suspended`), or ended and
reported but not yet removed (`Ended`), each with what the kernel has for its
process, and conversely that each process belongs to one entry and leads its own
group. `SoloPlace` says which of these an entry in the foreground can be where the
shell is; without it one could not tell that `running_jobs_count`, which is
decremented by one handler and incremented by another, is moved once per job and
direction. Its proof is a frame rule (`OneEntry`: a step that touches one entry
and its process keeps the rest), what each handler makes of an entry
(`NoteStoppedIs`, `ResumeJobIs`, ...), and counting: `CountsUp` and `CountsDown`
follow the number of running entries, and `EveryEntryCounts` keeps it within the
width, so that it never wraps. TLC finds `SoloInv` true of the instance of
`terminal`, and false as soon as a pipeline or a foreign signal is allowed.

For the history, assumed is that `HIST_SIZE` is at least 1, that NULL is no command
and that `history -c` is one (`HistoryRingAssumption`, `HistoryAssumption`).

| theorem | says |
|---|---|
| `HistoryInvariance` | `Spec => []HistoryInv`, wherever sessions are killed |
| `PrintedIsOnDisk` | what `history` prints is the end of what is on disk |
| `RingImplementsLog` | `Spec => RingIsALog` |
| `FileImplementsLog` | `Spec => FileIsALog`, if no session is killed while it trims |

The heart of these is `StoreRing`: that putting a command into the slot the code
computes, modulo the size of the ring, appends it to what is printed and drops the
oldest. It needs `MovedSlot`, which follows the slots when the start moves by one.
`RecentAppend` says the same of the last lines of a file. The invariant adds what
is known while a session loads (the ring is the end of what was read) and while
it trims (the file is the beginning of the ring), so that the loaded ring is what
the file was, and the rewritten file what the ring was.

For pipelines, assumed is that the numbers 0 to 3 exist, which the shell has open
when it starts (`DescriptorsAssumption`; of the others there may be as many or as
few as one likes), and that only 0, 1 and 2 are redirected (`StandardRedirections`,
an assumption of the theorems): `5>f` on a number that is just then an end of a pipe
takes that end away, and no invariant survives it.
Lines, lengths, programs, files that are missing and the room in a pipe are
arbitrary.

| theorem | says |
|---|---|
| `PipelineIsOrdered` | `Spec => []PipelineInv`: what is open at which number, in the shell and each child, wherever the loop is and whatever `fg` has leaked |
| `EndsAreHeldByTheirOwners` | only process `k` can write to pipe `k` once the job is launched, only `k` and `k + 1` can read from it |
| `ProgramsAreConnected` | a program's standard input and output are the ends of its place |
| `ShellKeepsItsDescriptors` | at the prompt the shell has the descriptors it started with, at the numbers in `leaked` a signalfd of `fg`, and nothing else |
| `JobsAreOneGroup` | a job that is waited for is one process group |

`PipelineInv` says of every place of the loop what is open at which number. Its
parts lean on each other: that a child holds the right ends (`ConnectingInv`)
comes from what the shell held when it forked it (`ShellInv`), that one from the
ends it closed in the round before. `ShellUses` and `ChildUses` name the numbers
in use, `leaked` those `fg` used up; everything above 3 and in none of them is
closed, so that the lowest free number hits none of them (`ForkOpens`), never mind
which it is. `FirstGroupInv`
holds the argument about the synchronisation pipe: the read returns when the
first child wrote, or when the last end to write is closed, which a child that has
not yet joined its group still has open; so the group the parent reads is the
job's, or the child is dead. The lemmas follow the actions, one each.

For words nothing is assumed of the lines but that they are over the alphabet
(`LexerAssumption`), and of the files only that a directory has finitely many of
them and that their names are strings (`ExpanderAssumption`). Variables, special
values and home directories are arbitrary.

| theorem | says |
|---|---|
| `TokensSuit` | `Spec => []TokensSuitParser`: the tokens are as `CommandLine` assumes them |
| `CrashIsAtOpenBrace` | `Spec => []CrashNeedsOpenBrace` |
| `WordsTypeCorrect` | `Spec => []WordsTypeOK`: the lexer stays on its line, and its parts are never empty |
| `LexerReadsRight` | `Spec => []LexerMeetsReader`: the tokens of a line are cut where a reader would cut them |
| `EveryWordCounts` | `Spec => []EachWordCounts`: a command that may run has an argument for each of its words, and no more where there is nothing to match |
| `QuotesAreVerbatim` | `Spec => QuotedIsVerbatim`: what stands in single quotes reaches the program as it was typed, as one argument |

`TokensInv` adds to the first what is ahead while a descriptor or the end is the
last token: `<` or `>`, or nothing. `CrashInv` is the second, of lines over the
alphabet; its proof is about the one step that crashes, where a length below 0
leaves no room for a brace. `LineInv` adds to the types that the line is over the
alphabet, and where the parts of a word may be.

`LexerMeetsReader` compares two programs that know nothing of each other: the
lexer, with a function for each kind of part, and the reader, an automaton over
single characters. `ReaderInv` says where one is while the other is at `pos`:
between words the reader is outside of all quotes; within a word he is in the
quotes of the lexer's `quote_ctx` (`Arrives`), and nothing since the word began was
a blank or an operator to him (`InWords`); all characters up to the last token are
cut right (`IsCutRight`). In quotes a part must begin where `Misread` looks, at a
quote, or behind a variable, or the lexer would end the wrong quotes: that is
`QuotedPartBegins`, and the reason why the property excludes those lines. There is
one lemma for each kind of part: a literal (`LiteralIsSound`), a variable
(`VariableIsPlain`: its name has no character that means anything to the reader), a
bracket (`BracketRead`), and for the blanks and operators between words. The
automaton and `handle_literal` are recursive functions; that they have their values
for every length is not cited from a library but shown from a smallest
counterexample (`ReaderGoesOn`, `LiteralUnfolds`), as is each statement about a run
of characters.

The two theorems about the expander follow a word from its characters to the
program. `PartsInv` says what its parts are while the lexer collects them and after:
on a line with nothing to match or replace they are literals over the characters of
the line; in a word that begins with a single quote they hold what has been read of
it (`QuoteRead`). `ArgumentsInv` says of the expander that what is left to expand
are the last words of the command, and that each word before became at least one
argument, or exactly one on a plain line. What a pattern matches is a
recursive function over its places (`glob_matches`), whose values `GlobUnfolds`
gives, again from a smallest counterexample; from it follows that a pattern without
special characters matches at most the one file of that name (`OneName`), so that
globbing leaves a quoted word or a plain one as it is (`QuotedLiteral`,
`PlainEntry`). TLC finds both invariants true of the instance of `words`.

For the command line, assumed is that a line has its last token (`MaxTokens` is at
least 1), that a flag nobody initialises is a Boolean, and that 0 is an exit code
(`CommandLineAssumption`). `MaxTokens` bounds the lines of TLC's runs; in the
theorems it is any number, so lines, trees and the stack of `exec_node` have any
size.

| theorem | says |
|---|---|
| `CommandLineTypeCorrect` | `Spec => []CommandLineTypeOK`: commands, pipelines, conditionals and NULLs are where `exec_node` and `run_job` expect them |
| `WordsStayInOrder` | `Spec => []WordsInOrder`: each word of a line, right or wrong, is in the tree once, in its place |
| `BackgroundIsLast` | `Spec => []BackgroundEndsList`: a job is in the background exactly if `&` follows its last word, and then it is the last of its list |
| `ListsAreImplemented` | `Spec => ImplementsLists`: `exec_node` runs the jobs of a line in their turn, as `&&` and `\|\|` say |
| `TreesAreGrammatical` | `Spec => []ParserMeetsGrammar`: the tree of a grammatical line is the one the grammar gives it, and nothing else is dropped |

`ParserInv` says of each place of the parser which of its locals are in use
(`PlacesOK`) and of which shape they are (`LocalsOK`): a list leans to the left, has
a job or NULL to the right of each operator, and only the first command of a
pipeline may be missing. `ListItems` takes apart at most `MaxTokens` conditionals,
so `LengthOK` counts: a list has not more operators than the line has had tokens.
`StackInv` says that each call of `exec_node` is for the part of the tree that its
caller is at (`Calls`), that a call for the right side was made with a status that
agrees (`GoesOn`), and that before the first call returns nothing has run.

`WordsInv` adds that what the tree, the list, the pipeline and the command hold at
any time are the words the line has had, in order (`Taken`): each action moves words
from one local to the next (`TokenWords`, `BuiltWords`), or takes one more.
`BackgroundInv` says of each job, from its last word on, whether `&` follows, and
that the list then ends.
For the refinement, `LeftOfCalls` splits what is left of the stack into what the
innermost call has left and what its callers have; a call then only regroups it
(`SequenceGoesOn`, `ConditionalGoesOn`), and a return drops the front: a job that
runs (`JobRuns`), one that is skipped (`ConditionalEnds`), or all of a list that
cannot be run (`CannotRun`). TLC finds the four invariants true of the instance of
`command_line`.

`TreesAreGrammatical` compares two accounts of a tree: `Grammar` cuts a whole line
at its separators, operators and pipes, the parser goes through it once and never
looks back. `GrammarInv` is therefore about lines that are not read yet: for every
grammatical line that begins with the tokens read so far, the parser is in one of
its lists, pipelines and commands, and `root`, `left`, `pipe` and `command` hold what
the grammar gives to the pieces behind it (`InStep`, one part for each place).
That it speaks of every such line is what the other half of the property needs: where
the parser drops the rest of a line or ends the shell, the place it is at rules out
every token that is ahead, so no grammatical line begins this way. The lemmas say
that a set of positions has one order (`SortedOnce`, `SortedExists`), that the pieces
between them are where the cuts are (`PiecesAre`), and what is behind a piece
(`BehindList`); then there is one for each action. TLC finds `GrammarInv` true of
short lines that go on by two or three tokens.

`FlattenSeq` and `ListItems` are recursive functions; as for words, that they have
their values for every length is shown from a smallest counterexample
(`FlattenReads` of `LibraryProofs`, `ListReads`).

Only model-checked: the liveness properties and `FairSpec` (fairness and
ENABLED are out of the prover's reach). Every safety invariant and every action
property of a passing run has a theorem. That `ImplementsLists` holds whatever the flag of fresh
nodes is means less than it may seem: a node that is skipped because of it counts
as a job that cannot be run, which the abstract specification allows of any job.

Hazards nothing checks yet: `$?` and the globs of a line are expanded before any
of it runs, so that in `a ; echo $?` it is the status of the line before
(`CommandLine` has no words, `Words` runs nothing); two shells that share a history
file (`History` has one session at a time).

## Not modelled

- The prompt (`prompt/ps1.c`) formats what it reads and changes no state.
- `cd`, `echo`, `pwd`, `type` and `jobs` print or change the directory.
- `utils/` is path search, string sets, checked allocation and logging.
- Of `shell/state.c`: identity, flags, the environment's growth and terminal
  modes, which only pass through.
- `stb_ds.h` is vendored.

## Plan

Done: job control, history, the path of a line from its characters to its jobs,
and the descriptors of a job, with a theorem for each safety invariant and action
property that a passing run checks. What is left, in this order:

1. `ShellLoop`: `CommandLine` composed with `Words`, `History` and `JobControl`:
   save, parse, expand, execute, free, in their order, the interruptions of each,
   and `$?` of a line that is expanded before it runs.
2. `PipelineData` composed with `JobControl`: stops, and background jobs whose
   processes live on while the next job is set up.
3. In `History`: two shells on one file, and lines that a kill cuts in two.

`IdleShellReports`, `LaunchedJobReturns`, `JobIsLaunched`, `PipelineEnds`,
`EveryLineEnds`, `LineIsExpanded` and the `FairSpec`s stay with TLC.
