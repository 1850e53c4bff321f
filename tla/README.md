# Verification of the Liska System Manager

TLA+ specifications of the Liska System Manager (PID 1, the runit-compatible
service supervisor and its client), TLC configurations that check them on small
instances, and TLAPS proofs that hold for every instance. Paths such as
`src/bin/lksys.rs` are relative to the root of the repository.

## The system

| part | state it keeps | operations | talks to |
|---|---|---|---|
| `lksys` (`src/bin/lksys.rs`) supervises one service directory | want, the process it holds with its phase and flags, the logger, the retry time; on disk `supervise/{lock,control,ok,status,stat,pid}` | `new`, `poll` (read control bytes, serve SIGTERM, reap, start, exit), `apply_control`, `start_run`, `start_finish`, `publish` | the scripts `run`, `finish`, `log/run` (spawn, signals, wait); clients (FIFO in, status file out); `lksysdir` (its parent) |
| `core` (`src/core.rs`) | `TERMINATE` and `RELOAD` flags | status encoding and atomic replacement, FIFO, lock, signals, reboot request | all the others |
| `lksysctl` (`src/bin/lksysctl.rs`) | its deadline | write a command's bytes, poll the status, system actions | `lksys` through FIFO and status; PID 1 through a file and SIGTERM |
| `lksysdir` (`src/bin/lksysdir.rs`) | one `lksys` child per service directory | discover, spawn, restart, kill removed ones, terminate | `lksys` children; PID 1 is its parent |
| `lksystem` (`src/bin/lksystem.rs`) | the stage, `shutdown_requested` | run stages 1, 2, 3, forward SIGTERM to stage 2, reboot | the stage programs, the reboot command file |
| stages (`etc/src/{1,2,3}.rs`) | none | mounts and udev; exec `lksysdir` or a shell; stop services | `lksysctl`, `lksysdir` |
| `lksyslogd` (`src/bin/lksyslogd.rs`) | per directory the file `current`, the size it counts, the archives | read a line, write it to every directory, rotate, prune, TERM/HUP | the pipe from `run`; `lksys`, which kills it |
| `lksyschdir` (`src/bin/lksyschdir.rs`) | the links `current`, `current.new`, `previous` | six operations on them without a lock | the file system, another `lksyschdir` |
| `chpst` (`src/bin/chpst.rs`) | its own process state | lock, root, environment, groups, gid, uid, nice, limits, session, redirections, then exec | the kernel; other `chpst` at the lock file |
| initramfs (`example-initramfs.rs`) | what is mounted where | mount the root, switch to it, emergency shell, resume | the kernel |

### What is hard, and what makes each part correct

* `lksys` is a single thread, but clients, the scripts, signals and the 1 s rest
  run beside it, and it can be killed between any two steps. Correct means: it
  never loses a child of `run` or `finish` or signals a foreign pid; what it
  publishes is so; a service wanted up comes up, one told down stops; an exit
  leaves neither script behind; automatic starts of one supervisor are separated
  by a rest; `finish` follows `run`.
* `lksysctl` sees only the status file, which may be older than its command.
  Correct means: an answer is true, the bytes accepted are served once and in
  order, and a patient client is answered.
* PID 1 must serve a SIGTERM whenever it comes, perform the action that was
  asked for, never go down unasked, and leave no supervisor or service. The code
  does not keep all of this; where it does not is said below.
* `lksysdir` must supervise what is in the directory and only that, with dbus
  first and the agettys last, and end what it has started on a SIGTERM.
* The logger is killed at any step, with three writes per line and a rotation of
  several file operations. Correct means: only the oldest lines go, the directory
  stays small, a line is torn by a death only.
* `lksyschdir` has two renames with nothing between them to name the set, and no
  lock. Correct means: it switches or leaves `current`, the former set keeps a
  name, and a loss is told.
* `chpst` is sequential, but each step needs the rights and the root the steps
  before it left, and several meet at a lock that must outlive exec. Correct
  means: the program executes with all that was asked for or not at all.
* The initramfs must come back from its shell.

`PROJECT.json` lists these hazards with the line of code where each bites, and
the properties that watch it.

## Modules

| module | what it is |
|---|---|
| `ServiceLife` | abstract specification: what supervision promises about the scripts of one service |
| `RollingLog` | abstract specification: what logging into several places promises, whatever becomes of the logger |
| `Lksys` | the supervisor, its scripts as the kernel sees them, and its status file |
| `Lksysctl` | extends `Lksys` by clients that command and wait |
| `Lksystem` | PID 1, the stages, the end of `lksysdir`, and those who ask for the end |
| `Lksysdir` | the supervisor of the directory of services, through changes, errors and restarts |
| `Initramfs` | the init of the initramfs, its emergency shell and its reboot |
| `Lksyslogd` | the logger, its directories, the deaths of loggers |
| `Lksyschdir` | the links, and any number of `lksyschdir` at once |
| `Chpst` | `chpst` and the program it becomes, for several processes |
| `Lksys_proofs` | type correctness and safety of `Lksys`; without failures it implements `ServiceLife` and exits clean; for all constants |
| `Lksysctl_proofs` | order of the bytes and truth of the answers in `Lksysctl`; `Lksys` keeps its promises under any clients; for all constants |
| `Lksystem_proofs` | types and safety of `Lksystem`, for all constants |
| `Lksysdir_proofs` | types and the order of starts in `Lksysdir`, for all constants |
| `Initramfs_proofs` | types and safety of `Initramfs`, for all constants |
| `Lksyslogd_proofs` | safety of `Lksyslogd`, which implements `RollingLog`; for all constants |
| `Lksyschdir_proofs` | types and safety of `Lksyschdir`, for all constants |
| `Chpst_proofs` | types and safety of `Chpst`, for all constants |
| `MCLksys`, `MCLksysctl`, `MCLksystem`, `MCLksysdir`, `MCChpst` | values of the constants for TLC |

### Lksys

`pc` is the place in the program: `off` (no supervisor), `new` (lock taken and
FIFO open, nothing published), then the steps of `poll()` — `read`, `apply`,
`reap`, `start`, `exit` — and `leave` (an error or the end; the process is about
to be gone). The cuts are where somebody else can see or disturb: the status file
is replaced, a FIFO is read, a child is looked at. Each control byte is one step
(`ApplyControl`), so bytes that arrive during a batch are in the next one.

`want`, `process`, `logger` are the fields of `Supervisor`; `due` says whether
`retry_at` has passed; `batch` is what `read_available` returned and is not yet
applied; `terminate` is the `TERMINATE` flag. `fifo`, `status`, `ps` (the process
table) and `loggers` are outside. `NoProcess` is `process: None`.

Every `publish()` is part of the action that calls it. `Publish(FALSE)` is a
failing write, before or after the rename that replaces `status`. Most calls
ignore that error; where `?` passes it on, the action goes to `leave`.
`Faults` says what may go wrong: `spawn` (fork or exec fails), `publish`,
`crash` (SIGKILL to the supervisor). `Gone` is what the end of the process does:
the FIFO's contents and the memory are lost, PID 1 inherits the children, and a
new incarnation can begin. PID 1 does not wait for inherited children, so their
pids are never free again: with `crash` the pids run out, and fork then fails.

Whether `finish` or `down` exists is decided anew by each step that asks. The
bytes `a h i q 1 2` are one model byte, `h`: they pass on a signal of which a
script may or may not end. Time stamps, `stat` and `pid` are left out; nothing
in the repository reads the two files or decides by the stamps.

### Lksysctl

A client writes a whole command (`Ask`) or is refused (`Refused`: no reader, or no
room), then `Look`s until the status shows what `desired()` wants, the deadline is
over (`Deadline`) or there is no status. With `-v` every command looks.
The clients read the status in one step, because a reader has the old file or the
new one. Two variables are history. `wish` is the want that the accepted bytes
amount to; `owed` is the sequence of bytes that the present supervisor accepted
and has not served, kept by who writes and who serves and not by where the bytes
are, which is what `ServedInOrder` compares it with. `Killed` is a SIGKILL: the
bytes not served perish with the supervisor, as they do when it exits.

### Lksystem

PID 1's loop over the stages with its `TERMINATE` flag and `shutdown_requested`;
`program` is what the process of stage 2 executes (its own program, which SIGTERM
kills, then `lksysdir`, which notes SIGTERM in a flag, or the fallback shell).
`lksys` and `running` reduce each supervisor and service to whether it lives.
`DirEnds` kills every `lksys` and no service; `DirError` is an error return, after
which the `lksys` processes live on with their locks, and PID 1 runs stage 2
again: either at its own time, or after SIGTERM was passed on to it and before it
looks at its flag (`lksysdir.rs:116`, `146` and `150` come before `164`). Then its
`lksys` live into stage 3, since nobody else ends them; `dirFailed` is history and
says that this has happened. A request is three steps — empty the command file,
write it, signal — that PID 1 can come between. Stage 3 changes nothing: the option `-w196` it passes is
not one `lksysctl` knows.

### Lksysdir

A pass of `supervise()` is `Discover` (the directory and the two gates), one
`Visit` per service, `Retain` (kill and forget what is no longer there) and
`Signals` (RELOAD first, then TERMINATE, then the sleep). `children` is the map
of the code; an entry is "starting" until the new lksys has come to its lock,
then "live", or "dead" when it found the lock taken or died. Between any two
steps a service may come or go and a lksys may die. `Error` is an early return:
the children live on as `strays`, which no later lksysdir knows, and `Again` is PID 1
running stage 2 anew; a SIGTERM that the failed one had noted goes with it.
`Ended` is the end that SIGTERM is for: lksysdir over, and no `lksys` of its own left.
The services are visited in any order, which includes the sorted one. The
clearing of the console is left out.

### Initramfs

The boot is a line of steps that may each fail, with `at` for where each pseudo
filesystem is mounted and `real` for the root. `Failed` is what an error leads
to: the shell, or, in `try_resume_boot`, the reboot. `NewRootIsMounted` is
`is_mount_point("/new_root")` with what it depends on, a `/proc` that the
present root shows. The user of the shell may mount the root and bring an init
into it; that he remounts `/proc` is left out. Which device, filesystem type or
shell is the one that works is a choice of the model.

### Lksyslogd

`pc` walks one pass of the loop in `main()`: `read` (the pipe), `got` (the flags
are looked at, which drops the line in hand), then per directory `check` (the
settings, read anew, against the size), `rename` and `prune` (`rotate()`, one
archive at a time), `text` (the time stamp and the text, a write each) and
`newline` (another: the file is not buffered). `current` and `archives` are
sequences of entries, an entry a line with its number, how much of it is there and
whether its newline is. `size` is what `LogDirectory` counts: the length of the
file when it is opened, with the time stamps, and the lines without them from then
on. `Dies` is a SIGKILL or an I/O error at any step; the directories stay as they
are and `Start` is the next logger. `DiesWriting` is one within `text`: a part of
the line is there, at least the time stamp or one byte. As there is one logger in a
directory, nobody can tell such a part from the whole text unless the logger dies.
`BytesOf` is the length of a file, `PayloadOf` that without the time stamps.

`Files(d)` are the files of a directory as `rotate()` sorts them, `Entries(d)` what is
in them and `Numbers(d)` the lines these are. `RollingLog` knows of each log only the
set of its lines: a line is written once, when all the logs ahead have it, and what
is dropped is older than what stays. The mapping is `read <- lines` and
`log <- Numbers`; a rotation, the newline of a line, a death and a signal leave
both as they are.

Assumed: one logger per directory, a clock that does not go back (the names of the
archives then are in the order of their rotation), archives that can be removed.
Lines still in the reader's buffer when a logger ends are lost too; they are
numbered only when they are read. Under `lksys` a logger inherits the write end of
its own pipe, so `EndOfInput` does not come there, only without `lksys`.

### Lksyschdir

One action per file operation of `main()`: remove `current.new`, make it, remove
`previous`, rename `current` to `previous`, rename `current.new` to `current`, and
after a failure rename back. Each may fail although it could succeed, up to
`MaxFaults`, and the process may be killed between any two. `current` is a link in
the base directory; `before`, `last`, `alone` and `refused` are history. The links
`current` and `previous` are directories too as far as `main()` can tell
(`lksyschdir.rs:20-35`), but are not among the sets it is given here:
`lksyschdir previous` would make `current` a link to `previous`, which by then names
the former current.

### Chpst

`After` is the order of `main()`, with `apply_privileges()` taken apart into
lookup, groups, gid and uid. Each step is an action with the rights it needs as
guard, and a step that was asked for may fail (`Fails`). An id is a pair of where
it comes from and the root whose database was asked, so that a lookup before the
chroot differs from one after it. `holder` is the lock per file; a file named
from another root is another one. `left` is a program that has ended but whose
children keep the descriptor. One resource stands for the eight of `setrlimit`,
`-U` sets the environment and nothing else. Options are what `parse_args()`
leaves; parsing itself is left out.

## Runs

| run | question | bounds |
|---|---|---|
| `lksys_safety` | no failures: type invariant; status, flags and clean exit; refinement of `ServiceLife` | 2 pids (run and finish need one at a time; the second shows pid reuse), FIFO of 2 bytes, all bytes |
| `lksys_faults` | all failures, with a logger: no child lost, no stray handle | 3 pids (an orphan, a child, a spare), 1 logger, bytes `u o x` (those that start, and stop, the service) |
| `ctl_answers` | two racing clients: an ok is true, every byte accepted is served, once and in its place | down, exit and restart, FIFO of 3 (restart has 3 bytes), no failures |
| `ctl_live` | down, exit and up come to their end, and a patient down is answered, though supervisors are killed | up, down, exit, once, pause, cont; 1 client, 1 pid, SIGKILL at any step, no symmetry |
| `system_end` | the system goes down when told to and never unasked; it does what was asked, or what a plain SIGTERM makes of it; no supervisor is left unless a lksysdir has ended on an error | 1 requester of any action, plain SIGTERM, `LKSYSTEM_REBOOT` set, failing lksysdir and stages, 2 services |
| `system_stopped`, `system_picked` | violated: see below | 1 service; 2 requesters for the second |
| `lksysdir` | dbus first, agettys last, nobody held back for good, removed services unsupervised; SIGTERM ends lksysdir and every lksys it has started, unless an error ends it first | dbus, one service behind it, one agetty; 2 changes, errors or SIGHUPs in all |
| `initramfs` | every failing boot ends in the real init or, after the shell, in a reboot; type invariant (the root is mounted once) | 3 attempts to mount |
| `lksyslogd` | only the oldest lines go, files exceed the limit by uncounted stamps at most and archives are few, lines are torn by deaths only, the first directory misses nothing the second has; refinement of `RollingLog` | 2 directories, 4 lines of length 1 or 3, limits 1 and 2, a stamp of 1, keeping 0 or 1, 2 signals, 2 deaths |
| `lksyschdir` | it switches or not, the former set stays named, a cut switch is not repaired, a loss is told | 2 processes again and again, 3 sets, 2 faults |
| `chpst` | all asked for or no program, groups before uid, one program per lock, `-L` does not wait | any options for one process, `-l` or `-L` for the other; one root |

The FIFO bound of `Lksys` limits the model, not the code (a pipe has 64 KiB); two
bytes make a batch in which the second byte meets the effect of the first, and
further bytes wait as the next batch. In `Lksysctl` the same bound also is the
pipe's limit, at which a write fails. Symmetry over pids, loggers and clients is
used only where no liveness is checked. In `lksysdir` two changes are one removal
and return, or one with an error between; three services are one of each kind the
gates tell apart. Attempts to mount differ in nothing, so three stand for 15 and 20.
For the logger the longer line is too long for any file, and a limit of 2 lets two
short ones into one, or one and a part of the longer; with the stamps such a file has
four bytes. With four lines an archive has been pruned and another is there, and two
deaths are one in a rotation and one in a line. `LKSYSTEM_REBOOT` is set in
`system_end` because the default then differs from what an emptied file means. Two
faults of `lksyschdir` are a failure and the failure of its repair. Two `chpst` are
enough for a lock, and what one does to itself does not depend on others.

### What the code does against its documentation

* `system_stopped`: PID 1 prints "All services has been stopped!" while services
  run: `lksysdir` kills the supervisors, not the services, and stage 3's command
  line is refused by `lksysctl`.
* `system_picked`: a second `lksysctl reboot` that has just emptied the command
  file makes PID 1 power off.

Others are plain from the code and have no run:

* `restart` ("term, then bring back up, wait until running") answers from the
  status of before; `AnswersTrue` therefore asks of it what a running service is,
  not a new one.
* A plain SIGTERM to PID 1 that comes while a request has emptied the command file and
  not yet written it powers off, whatever the request is and whatever
  `LKSYSTEM_REBOOT` says (`AsAsked` names this case).
* A `lksysdir` that has been sent SIGTERM and ends on an error before it looks at its
  flag leaves its `lksys` alive. On the way down they live into stage 3
  (`SupervisorsEnd` excepts it); if it was an administrator's SIGTERM, PID 1 runs
  stage 2 again and the signal is forgotten (`TermEnds` excepts it).
* The bytes a supervisor has accepted and not served are lost when it exits or is
  killed, and the client that wrote them is not told.
* With `-t` a file of `lksyslogd` exceeds its limit by the time stamps: `write()`
  neither adds them to what it compares with the limit (`lksyslogd.rs:101`) nor to
  the size (`116`). `Bounded` is the bound that is kept; without the term for the
  stamps TLC refutes it.
* During the rest after an exit `down` answers at once, and the poll under way
  still starts `run`, which the next poll stops.
* `down` sends SIGTERM and no SIGCONT, so a paused service stays (`DownCompletes`
  and `DownAnswered` except it).
* `force-stop` ("down, then kill if it doesn't stop in time") sends SIGKILL in the
  same poll as SIGTERM.
* Leaving the shell of the initramfs with `/new_root` mounted reboots once `/proc`
  has been moved, where the tip says "init will resume boot automatically".
* `lksyslogd -t` ("repeat up to 3x for more precision") always writes seconds.
* `chpst -0`, `-1` and `-2` do nothing where the root has no `/dev/null`.
* A `lksyschdir` killed between its renames leaves no `current`, which no later run
  repairs (`NoRepair`); two at once can lose it too, although not unseen
  (`LossIsTold`).

### Fairness

`CtlFairSpec`: the supervisor's thread (its sleep ends, and `lksysdir` starts a new one
for one that is gone), the passing of the second, the death of a process that a
pending signal kills (the service obeys SIGTERM), the end of `finish`. Nothing is
assumed of `run`, of what clients ask for or of SIGTERM; a client looks again.
`Lksysdir`: its loop goes on, PID 1 starts it again, and a new lksys comes to its
lock. `Initramfs`: the program goes on and the user leaves the shell. `Lksystem`:
PID 1 and `lksysdir` loop, stages 1 and 3 end, a `lksysctl` goes on with what it began; PID 1's look at its flag is strongly fair, because it comes
right after the start of a stage 2 and every 100 ms, and a stage that fails over and
over cannot be dead at every look; the panic of a PID 1 that cannot go on counts as
an end in `TermIsServed`. `Chpst`: a process that can take its next step
takes it; a program may run for ever. `Lksyslogd` and `Lksyschdir` have safety
properties only.

## Proofs

`LksysAssumption` is all that is assumed: `NoPid` is no pid, `NoLogger` no logger,
commands are sequences of bytes.

The safety properties are not inductive: whether `process.child` is a child of the
supervisor depends on where the supervisor is and on what a free pid looks like.
`IInv` adds to the types that a free pid is nobody's (`Table`), that a handle names
a child with the script of the phase (`Handle`) except between a failed spawn of
`finish` and the supervisor's end, and that a new incarnation holds nothing.
`Invariance` has a case per action. The control bytes go through `ApplyKeeps`, which
rests on `StopKeeps` (signals) and `LaunchKeeps` (starts).

* `TypeCorrect`, `NoChildIsLost`, `NoHandleIsStray`, `FlagsAreTold`: for every set of
  pids and commands and for every fault. The children meant are those of `run` and
  `finish`; an old `log/run`, whose handle is overwritten when the next one starts
  (`lksys.rs:166`), is never waited for.
* `StatusIsTold`: if status writes do not fail; with failing ones it is false, since
  `apply_control` drops the error.
* `ImplementsLife`: if nothing fails, every step of `Lksys` is a step of
  `ServiceLife` or leaves it as it is. The mapping is `Inst`, `Ended`, `want = "Up"`,
  `due` (which a new supervisor starts with, so that the rest does not reach across
  supervisors); the extra invariant is that a supervisor leaves without a process.
* `LeavesClean`: if nothing fails, a supervisor that exits has no script left and
  its status says down. Needed besides: every process is a child of this
  supervisor (`Own`), and the last status is the one of the last poll (`LeavesDown`).

`Lksysdir_proofs` takes `LksysdirAssumption` (agettys are services, dbus is none of
them). A gate is computed at the head of a pass and used during it, so `IInv` says
what an open gate stands for as long as the visits last (`DbusGate`, `OthersGate`),
that a dbus in the table was started by this lksysdir, and that the next one begins
with an empty table. `OnlyVisitsStart` reduces first starts to `Visit`; `DbusIsFirst`
and `AgettysAreLast` follow. `Initramfs_proofs` takes `InitramfsAssumption` only; its
`IInv` says what each step of the boot may rely on from those before it.

`Lksystem_proofs`: `IInv` says how far the path to an end has come (`Path`: what has
been performed, or is about to be, goes back to a signal, and each signal to one
who sent it) and that a supervisor of the last `lksysdir` lives only in stage 2
under it, and any other only where a `lksysdir` has failed (`Children`).
`NeverUnasked` and `SupervisorsHaveEnded` follow for any requesters and services.
`DoneAsAsked` is for one requester: then the file holds at each step of the request
what that step left (`Asks`), whatever plain signals come and whether
`LKSYSTEM_REBOOT` is set or not. With two requesters PID 1 may read a file that one of
them has emptied, which is what `system_picked` shows.

`Lksyschdir_proofs`: as long as nobody overlaps, `IInv` says for each step of
`main()` which links there are and what they name; `SwitchesOrNot`,
`SetIsStillNamed` and `NothingRepairs` are read off it. `LossIsAlwaysTold` needs no
such assumption: whoever has taken `current` away and not ended is still there.

`Chpst_proofs`: `IInv` says for each step which of the process's attributes are
final and which are untouched, so that at exec all are final
(`AlwaysAsRequested`), and that a lock taken is held until the process ends
(`LockExcludes`). `GroupsGoFirst` follows from the order. The part about limits
needs only the last value of the list, not an induction over it.

`Lksysctl_proofs`: `AmountsConcat` says that bytes served one after the other amount
to what they do at once; it rests on the existence of a last deciding byte
(`SomeLast`, from the well-foundedness of `<`). `OInv` says where bytes can wait and
that what is owed waits there; with `StepServes`, that a step which shortens the batch
applies the byte owed first, `AcceptedIsServed` follows, for failing spawns and
writes and for supervisors killed at any step. `OkIsTrue` is for the case that nothing
fails, as its run is: the steps of the supervisor are those of `Lksys`, so the
invariants above hold beside any number of clients, and `Unpaused` and `Away` say
what is in the status file while no supervisor keeps it. With a crash the theorem
does not hold: a client may read the status of the dead supervisor.
A step of the composition is a step of `Lksys` or changes the FIFO only
(`StepOrAsk`), so what the supervisor promises it promises to any clients with any
commands: `SupervisesForAll` (no child of `run` or `finish` lost, no stray handle, true
flags) whatever fails and whenever the supervisor is killed (`Killed` is such a step),
and `LivesForAll` (`ServiceLife` is implemented) if nothing fails.

`Lksyslogd_proofs` takes `LksyslogdAssumption` (there are directories and settings,
lengths and limits are positive). None of the properties is inductive, and `IInv`
adds what they rest on:

* `Ordered`, `Hand`: the files of a directory are in order, and the line read last is
  missing exactly where its turn has not come. With them any step does one of three
  things to the lines of a directory (`StepNumbers`): nothing, drop the oldest
  (`Prune`), or add the one in hand, whole or in part (`Puts`). `OldestAreLost`, `FirstHasAll` and the
  refinement `KeepsRolling` go back to this lemma.
* `Losses`: the lines lost for good, and the flags that are set and may cost one
  more, are no more than the signals and the deaths. The line in hand does not count
  until it is dropped. The two counts of flags are why the bound is inductive.
* `Counted`: while a directory is open, the size counted is at least the payload of
  `current`, although opening counts the stamps and writing does not. `Room` carries
  that through the steps of a line, and gives that a file is short (`AllShort`) when
  its newline is written. `ShortIsPayload` turns the bound on bytes that `Bounded`
  states, the limit and the stamps, into one on the payload.
* `Pruned`: the archives are at most the number kept, one for each death, and one in
  the rotation under way; a rotation cut before its removals leaves one behind, and
  the next removes down to the number it reads.
* `AtNewline`, `FewTorn`: the last entry is the one to be ended, so that a torn entry
  is a death's.

The payload of a file is a sum. That it is one for every file (`SumsExist`,
`PayloadIsSum`), and grows by an entry's payload when one is appended
(`PayloadOfAppend`), is proved by a least counterexample (`SomeLeast`), as the
induction theorems of the library cannot be used.

Model-checked only: liveness, as fairness and ENABLED are beyond the provers
(`ExitCompletes`, `DownCompletes`, `UpCompletes`, `DownAnswered`, `TermIsServed`,
`Supervised`, `RemovedGoes`, `TermEnds`, `BootEnds`, `NeverBlocks`). The types of
`Lksysdir`, `Lksystem`, `Lksyslogd`, `Lksyschdir` and `Chpst` are proved, and no run
checks them.

## Not modelled

Stage 1 and `ctrlaltdel` (straight lines of commands whose failures are logged;
nothing invokes the latter), the mounts and terminals of stage 2, terminal output,
argument parsing except where stage 3 depends on it, the printout of `lksysctl
status`, time stamps, the contents of an envdir other than `UID`, and the lines in the
logger's read buffer.

## Plan

1. `LogPipe`: who holds which end of the pipe between `run` and `log/run`, and whether
   a logger ever sees its end of file.
2. `Lksysdir` composed with several `Lksys`: that a promise of the one is what the
   other relies on (a lksys that is gone is started again, never two on one lock).
3. `SystemLife`: what PID 1 promises from the first request to the end, with
   `Lksystem` shown to implement it.
