# A verification of portless-docker

`portless-docker` wraps `docker compose`: it gives every service with a published
port a free host port and a hostname, registers both in `~/.portless-docker/state.json`,
and runs one proxy daemon for all projects that routes requests by hostname.
This directory holds TLA+ modules of it, the configurations TLC checks them with,
and proofs TLAPS checks. Paths below are relative to the repository.

There is no server that owns the state. Every command the user types is a process of its
own; they and the proxy share three things without further coordination: the file
`state.json` behind a lock directory, the override files under `/tmp`, and the daemon's
PID file. What can go wrong is what processes can do to each other through those.

## 1. Inventory

| Component | Source | State | Operations | Interacts with |
|---|---|---|---|---|
| File lock | `internal/state/lock.go` | directory `state.lock` with a file `ts` | `Lock`, `Unlock`, `isStale` | every process, through the file system and the clock |
| State manager | `internal/state/state.go` | `state.json` | `Load`, `WithLock` (`Save` has no caller outside the tests) | lock below, registry above |
| Route registry | `internal/state/routes.go` | the `Routes` of a `State` | `RegisterRoutes`, `UnregisterRoutes`, `UnregisterAllRoutes` and readers | commands, self-check, handler |
| Port allocator | `internal/ports/allocator.go` | `used`, per command | `Allocate`, `AllocateDeterministic` | the used ports of the registry, the ports bound on the host |
| Passthrough command | `internal/cli/passthrough.go` | locals of one command | `runPassthrough`, `cleanup` | all of the above and below, `docker compose` |
| Stop command | `internal/cli/stop.go` | – | `stop --all` | registry, override files, daemon |
| Override files | `internal/compose/override.go` | `/tmp/portless-docker-*/override.yml` | `GenerateOverride`, `RemoveOverride` | commands, `docker compose` |
| Proxy daemon management | `internal/proxy/daemon.go`, `internal/cli/proxy_cmd.go` | `proxy.pid`, `proxy.port`, the process | `EnsureRunning`, `Start`, `Stop`, `IsRunning` | commands, proxy server |
| Proxy server | `internal/proxy/server.go` | listening or not, self-check goroutine | `Run`, `selfCheck`, `Shutdown` | registry, signals |
| Request handler | `internal/proxy/handler.go` | – | `ServeHTTP` | registry |
| Compose parsing | `internal/compose/parse.go` | – | `Parse`, `BuildHostname`, ... | passthrough command |
| Environment labels | `internal/compose/envlabel.go` | – | `ParseEnvLabels`, `ResolveAllEnvLabels` | passthrough command |
| Command line | `internal/cli/root.go` | global flags | `findSubcommand`, `splitGlobalFlags` | all commands |
| `ls`, output, build | `internal/cli/ls.go`, `internal/ui`, `Makefile`, CI | – | – | – |

What is hard about each, and what makes it correct:

* **File lock.** A lock that waiters may remove cannot exclude unconditionally. It has to
  exclude until a holder's directory is removed, remove only what is overdue, never be left
  behind by the living, never block on what the dead left behind, and return.
* **State manager.** Load, change and save must be one step for everybody else, also when a
  write fails or the process dies; what cannot be atomic (a file written in place) must at
  least never be a readable lie.
* **Route registry.** A hostname belongs to one directory, a directory has the routes of one
  registration.
* **Port allocator.** A port in range, used by nobody; an error only if there is none; the
  same port for the same key when it is free.
* **Commands.** Some fifteen steps with an error return after nearly each of them. Routes
  point to override files that exist, files do not outlive their project, commands leave
  other projects alone, no two projects share a port, and no request goes to a container of
  another one.
* **Daemon and server.** The proxy runs while it is needed: in spite of PID files that lie, two
  daemons started at once, a daemon that still runs but no longer listens, a shutdown racing a
  registration.
* **Parsing, labels, command line.** Pure functions with many cases.

`PROJECT.json` lists the hazards one by one, at their lines, with the properties that
watch over them, or the reason why none does.

## 2. The modules and what is left

In the order of their importance:

| Module | Models | Status |
|---|---|---|
| `BreakableLock`, `FileLock` | what the lock promises; `lock.go` | checked, proved |
| `Registry`, `Routes`, `StateStore` | what the manager promises; `routes.go`; `state.go` | checked, proved |
| `PortAllocator` | `allocator.go` | checked through `Commands`, proved |
| `Commands` | `passthrough.go`, `stop.go`, over an atomic registry | checked, proved |
| `ProxyDaemon` | `daemon.go`, `server.go`, and what the commands do with them | checked, with liveness; its safety proved |
| `CliArgs`, `ComposeFile`, `Invocation` | `root.go`; `parse.go`, `envlabel.go`; one command from its arguments to the requests its routes answer, with `handler.go` | checked, proved |

What is left to do: relate the one command of `Invocation` to those of `Commands`.

## 3. The modules

    BreakableLock <--implements-- FileLock        lock.go
         ^ extends
    StateStore --implements--> Registry            state.go
         |  extends     Routes    |  extends       routes.go
         +--------->      ^  <----+
                          | extends
                       Commands --extends--> PortAllocator
                  passthrough.go, stop.go     allocator.go

    ProxyDaemon                                   daemon.go, server.go
    Invocation --extends--> CliArgs               root.go
         |      handler.go                        passthrough.go
         +-------extends--> ComposeFile           parse.go, envlabel.go, override.go

The two refinements are what lets each layer be checked on its own. `FileLock` implements
`BreakableLock`, so `StateStore` takes its lock steps from `BreakableLock`. `StateStore`
implements `Registry`, in which every call takes effect at once, so `Commands` and `ProxyDaemon`
make one step of a call.

The commands are looked at three times, each time at another grain. `Commands` has all of their
shared state but the proxy. `ProxyDaemon` reduces the state to which
projects have routes, and has instead every call on the PID file, every signal and every
process. `Invocation` has one command alone, and what it does with its data.

### FileLock

Grain: one step per system call. `os.WriteFile` is an open that creates or truncates and a
write; `os.RemoveAll` unlinks the entries and then the directory. Both go by path, and so
may hit a directory other than the one the process has in mind. Reading the clock is a step
too: `time.Now()` is evaluated before `ts` is opened (line 38), and `time.Since` after the time
stamp or the modification time has been read (68-83, 71-75), so that a process may compare a
time with the clock when the directory it read it from is gone. These are the sources of
every race in `lock.go`.

There is no clock in the model. A point in time is kept as its age, `Tick` makes all of them
one older, and ages past the longest duration the code compares them with are one: so no bound
on the time there is, and no behaviour that ends because it is up.

| State | Code |
|---|---|
| `creator`, `mtime` | the lock directory and its modification time |
| `ts`, `stamp`, `writers` | the file `ts`: absent, torn or stamped; the age of the time in it; who has it open |
| `pc` | where a process is in `Lock` or `Unlock` |
| `waited`, `now`, `read` | the ages of `Lock`'s call (for `deadline`), of the time taken for `ts`, and of the time `isStale` has read |
| `made`, `verdict`, `outdated`, `broken`, `crashed` | history, for the properties only |

`Start`, `Mkdir`, `MkdirExists`, `MkdirError`, `TakeTime`, `OpenTs`, `WriteTs` are lines 30-44;
`ReadTs`, `Stat` and `Since` are `isStale`; `BreakUnlink`, `BreakRmdir` line 48; `TimedOut` and `Retry`
52-56; `Unlock`, `UnlockUnlink`, `UnlockRmdir` line 62. `Crash` stops a process anywhere.
Ignored errors are ignored: `OpenTs` without a directory goes on as `Lock` does (line 38),
and a `RemoveDir` that finds an entry does nothing.

Abstractions: a write that fails for want of space is not modelled (its result, an empty
`ts`, is the torn one a dead writer leaves). `RemoveAll` fails only because an entry came
back. `lockRetry` is shorter than a tick.

### BreakableLock

Three variables: `holder`, `inside`, `broken`. `Acquire`, `Leave`, `Free` (the lock of
somebody no longer inside goes) and `Break` (the lock of somebody inside goes). Under
`holder <- creator, inside <- InsideProcs` every step of `FileLock` is one of these or a stutter.

### Routes, Registry, StateStore

`Routes` translates the functions of `routes.go` to sets of routes. Their order in the file
is left out: only `routes[0]` of one batch is used, for fields the batch shares. Routes with
the same hostname in one batch therefore stay apart, as they do in the file.

`Registry` is the promise: a table, and for each process the call it is in. `Succeed`
applies the call at once, `Refuse` is the hostname conflict, `Fail` and `Die` change nothing
or lose the table, and after `broken` there is no promise.

`StateStore` is the code: `LockSucceeds`, `ReadState` (`loadUnlocked` and the function given
to `WithLock`), `Truncate` and `Write` (`os.WriteFile`), `SaveFails`, `Unlock`, `Crash`. The file
is a set of routes, `Empty` (truncated) or `Garbled` (does not parse). A missing file is read
as no routes and is the same value. The refinement maps the table to the file, except that a
process between truncating and writing has not changed it yet.

### PortAllocator, Commands

`Allocate` and `AllocateDeterministic` are functions of the used ports, the ports bound at
that moment and the hash of the key. FNV-1a is a parameter: any hash is allowed. Both call the loop
of the code, `FirstAvailable`, a recursive function of the turn, with the port they try in each.

`Commands` has one action per step of `runPassthrough` that reads or changes shared state.
The subcommands are `up` (attached), `up -d`, `run`, `down` and `stop --all`; `stop` given to
`docker compose` is cleaned up after as `down` is, but `root.go:109-117` never passes it on;
all others change nothing of what is modelled.

| Action | Code |
|---|---|
| `GetRoutes` | passthrough.go:75-85, 234-237 |
| `GetUsedPorts`, `Prepare` | 92-205: used ports; ports, labels and `GenerateOverride` |
| `Register` | 207-211, with the removal of the override on an error |
| `EnsureRunning` | 213-217 |
| `Exec`, `Detach` | 239-300: `docker compose` returns; an attached `up` is ended by Ctrl-C |
| `Unregister`, `RemoveOverride`, `StopProxy` | `cleanup`, 302-323 |
| `UnregisterAll`, `RemoveOverride`, `StopProxy` | stop.go:30-54 |
| `Fail` | every other `return err` |
| `Crash` | a death anywhere |

External, modelled from how the code uses it: `ComposeUp` makes the containers of a directory
anew with the ports of the override if nobody else has bound them, `ComposeDown` removes
them, `ComposeFails` is any other exit, with any part of either done. The proxy daemon is not
part of this state: `EnsureRunning` returns an error or none, and `HasRoutes` and `Stop`
(`StopProxy`) change nothing of it. Whether a proxy then listens is asked of `ProxyDaemon`, where
an `EnsureRunning` without an error may have found one that is about to close.

Choices that are not obvious: `run` may or may not start containers with published ports
(those of the services it depends on). A `docker compose` that is interrupted may stop the
containers, or some of them, or none. A `RemoveOverride` may fail, and its callers go on as if it
had not. The name `MkdirTemp` gives is not in use by any file, route or
command. A `state.json` that does not parse is `StateStore`'s subject and not in `Commands`,
where a call of the manager that fails changes nothing.

`mishaps` records what the properties have to except, each by name, so that every exception
in a property is a line of code whose effect it names: `crash`, `unregister` (its error is
ignored, line 307), `removeOverride` (its error too, lines 209 and 310, stop.go:41), `docker`
(`docker compose` failed) and `stop --all` (containers keep running). A run lists in `Noted`
those its properties speak of.

### ProxyDaemon

| State | Code |
|---|---|
| `routes` | the projects that have routes in `state.json`; a shell works in a project of its own |
| `pidFile` | `proxy.pid` |
| `daemon`, `parent` | each process of the program: starting, listening, `deaf` (its listener closed by the self-check, `Run` still waiting), closing, zombie, gone; and the command it is a child of |
| `signalled` | a SIGTERM on its way to `sigCh` |
| `emptied` | the self-check has read that there are no routes (server.go:96), and has not called `Shutdown` yet |
| `pc`, `pid` | where a command is, and the process it has started or waits for |
| `outdated`, `mishap` | history, for the properties only |

| Action | Code |
|---|---|
| `Register`, `Attach`, `EnsureRunning` | passthrough.go:75-217, 234-237; daemon.go:26-33 |
| `StartProcess`, `WritePid`, `Ready`, `StartFails` | `Start` and `waitForReady`, daemon.go:35-78, 161-176 |
| `Unregister`, `HasRoutes`, `IsRunning`, `Stop`, `WaitStop`, `Cleanup` | `cleanup`, passthrough.go:302-323; `Stop`, daemon.go:80-114 |
| `UnregisterAll` | stop.go:30-34 |
| `Listen`, `Receive`, `Closed` | `Run`, server.go:44-76 |
| `CheckRoutes`, `SelfShutdown` | `selfCheck`, server.go:85-108 |
| `Crash`, `Dies` | the death of a command or of a daemon anywhere |

What is not obvious. `process.Wait` in `Stop` waits only for a child, and a command has the
daemon as a child only if it is the one that started it: that is an attached `up` that has
not yet returned. For all others `Wait` fails at once and `Stop` removes the PID file while
the daemon is still closing. A daemon that has ended stays a zombie until its parent, still
there, has waited or ended, and signal 0 finds it. `waitForReady` connects to whoever listens.
A `Listen` that finds the port taken is the end of the daemon; no one but daemons of the
program takes the port. `WritePid` is one step: a PID file read while it is written is not
modelled. Times are not modelled: a time limit may pass at any moment, a check may tick at
any moment.

`outdated` is what makes the races visible without forbidding them: whoever has decided to
close the proxy is in it as soon as somebody registers routes after the decision.
`mishap` is what `ListenerMatchesRoutes` has to except: commands that overlap, errors and
deaths, and a start while the predecessor still closes.

### CliArgs, ComposeFile, Invocation

`CliArgs` and `ComposeFile` hold operators, each named like the function it translates.
Arguments are strings of a few kinds. A port string is a sequence of tokens: numbers,
separators, references to variables, other text. So `expandEnvVar` and `strings.Split` are
modelled by what they do, also where the value of a variable brings a colon with it. The two
loops of `root.go` are recursive functions of the number of turns, with one operator for a turn
(`FindStep`, `SplitStep`). A label's
value is a sequence of text and placeholders, an address a record.

`Invocation` follows one command: `Rewrite` (`Execute`), `Dispatch` (cobra and
`newPassthroughCmd`), `NoComposeFile`, `ReadComposeFile`, `SetUp` (ports, labels, override,
routes), `Compose` and `Return` (cleanup). `SetUp` is one step since nobody else takes part.
`ServeHTTP` is the choice of the route for a request. The properties compose them: a hostname
goes through `ServeHTTP` to a host port and through the override entries to a container's
port. The order of ports here is that of the names, any free port will do.

## 4. The runs

| Run | Question | Bounds |
|---|---|---|
| `lock` | Is the lock exclusive until broken, a `BreakableLock`, never leaked without a death, broken only for a reason? | 3 processes, timeout 1, stale 2 |
| `lock_live` | Does `Lock` return, if it does not remove one lock after the other, and is a dead process's lock cleared? | 2 processes, timeout 1, stale 2, `FairSpec` |
| `lock_torn` | Are only overdue locks broken, as documented? **No.** | 2 processes |
| `store` | Is the manager an atomic registry until a lock is broken, and its file consistent even after? | 2 processes, 2 directories, 3 batches |
| `store_reset` | Does `stop --all` reset the state after a crash, as documented? **No.** | the same |
| `commands` | Do registered routes keep their files, and do commands leave other projects alone? | 2 processes, 2 directories wanting one hostname, 2 ports, 2 files |
| `commands_serial` | One command at a time: unique ports, no leaked file, containers as routed, routes to their own containers? | 1 process, 2 directories (HTTP; HTTP and TCP), 3 ports, 3 files |
| `ports_race` | Are ports unique under concurrency, as documented? **No.** | 2 processes, `up -d` and `down` |
| `proxy` | Does a proxy close only for a reason, listen when it is needed, and do commands, signalled daemons and idle proxies come to their end? | 2 shells, 2 daemons, `FairSpec` |
| `proxy_deaf` | Does a proxy that is not needed end, as documented? **No.** | 1 shell, 2 daemons, `FairSpec` |
| `invocation` | Do arguments arrive, ports and labels mean what is documented, and hostnames and labels lead to their containers? | all command lines of up to 4 out of 12 arguments, the empty one included; `up` in projects of 2 and 3 services |
| `invocation_flags` | Does `-f` before a subcommand name the compose file, as documented? **No.** | the same |

Why the bounds are enough to be interesting. Three processes are what the worst race of the
lock takes: one inside, one that removes it late, one that comes in. Ages are told apart up to
one past the timeout and the stale duration, which is all the code compares, so that a lock
can become overdue while a call waits, be removed, be made anew and become old again, as
often as may be. Two processes, a batch that conflicts and one that replaces reach every branch of `RegisterRoutes` in both orders. Three ports are as many as the two
projects have services, so that the range is used up once containers keep running after
`stop --all`, and `AllocateDeterministic` wraps. Two override files are as many as two
commands can have in hand; a third project would need a third, and adds no new pair of
commands. Two daemons are two PIDs, which processes take again as soon as nothing remembers
them: one that closes or is deaf and one that is started next to it. Safety was also checked
with three, and the theorems hold for any number. Four arguments are what it takes for a flag with a
value, a subcommand and a flag after it. The port lists hold each documented format, variables
that are set, unset, set to nothing and set to a mapping, the forms that are not read, and
UDP before TCP; the names hold two that make the same hostname, a database, and a service
called `proxy`, which a label cannot mean.

`MCInvocation*.cfg` turn the deadlock check off: a command returns. All other runs check for
deadlock.

Processes are symmetric in the safety runs of lock, store and commands, override files in
those of commands. `lock_live` and the runs of the proxy use no symmetry, as they check liveness.

### What the disagreements are

* `lock_torn`: `Lock` makes the directory, opens `ts` and has not written it yet; a waiter reads
  an empty `ts`, which does not parse, so `isStale` says yes (lock.go:78-81), and removes the
  lock of a process that has just got it. `spec.md:478` and the comment at lock.go:65 say
  that only locks older than 10 seconds are removed.
* `store_reset`: a crash between truncation and write (state.go:137) leaves a file that does
  not parse; `stop --all` reads it first and returns the error. `README.md:199-200` and
  `SETUP.md:160-166` give `stop --all` as the way out after a crash.
* `ports_race`: used ports are read at passthrough.go:93 and the routes registered at 208, under
  separate locks; `RegisterRoutes` looks at hostnames only. `README.md:14` promises free ports
  in place of `EADDRINUSE`. That this window is the only reason is `UniqueIfRegisteredApart`.
* `proxy_deaf`: the self-check's `Shutdown` (server.go:103) ends `ListenAndServe` with
  `ErrServerClosed`, which is not sent on (line 59), and `Run` waits for a signal that nobody sends
  (line 65). `spec.md:32` and 436 say that the proxy ends. If the PID file names the process,
  `IsRunning` says yes from then on and the next `up` starts no proxy.
* `invocation_flags`: the global flags before a subcommand of `docker compose` are put before the
  `--` of `__passthrough` (root.go:80-81), which has `DisableFlagParsing` (passthrough.go:25), so
  nobody parses them: `-p`, `-f` and `--ignore` have no effect. `README.md:132-141` and
  `spec.md:212` show them in use.

### Fairness

`lock_live` assumes `WF_vars(Tick)`, time passes, and `WF_vars(Step(p))`, a process
inside `Lock` or `Unlock` goes on, which the operating system's scheduler provides. Nothing
makes a caller call `Lock`, or leave its critical section; nothing makes `Mkdir` fail or
a process stay alive. No strong fairness is needed: each call runs through its loop with
one deadline. The way back from `RemoveAll` skips it, though (lock.go:47-49): a call that finds
a lock stale or half written in every round, because others take it for ever, never returns
and never times out, 5 seconds (`spec.md:477`) or not. So `LockReturns` excepts just that,
`EndlessRemoval`: infinitely many removals by the call itself and infinitely many locks taken by
others. `LeftoverIsCleared` lets the call off if the lock looks young again, which happens
when another breaker dies between unlinking `ts` and removing the directory.

`proxy` and `proxy_deaf` assume that a command goes on until it has returned or runs `docker
compose` (`WF_vars(Continues(p))`, the scheduler and the time limits of `waitForReady` and
`Stop`), that a daemon goes on (`WF_vars(Serves(d))`: it comes to listen, takes the signals
sent to it, and its shutdowns return after 10 seconds at the latest) and that the self-check ticks
(`WF_vars(CheckRoutes(d))`, a `time.Ticker`). Nobody has to give a command, press Ctrl-C, die or
fail. Weak fairness is enough: none of these steps is disabled again and again, except
`CheckRoutes` by new routes, and then `IdleProxyCloses` promises nothing.

## 5. The proofs

`tlapm` proves these for every value of the constants, from the assumptions the modules name:
`NoProcAssumption`, `TimeAssumption`, `BatchesAssumption` (a batch is of one directory,
passthrough.go:131-139), `ContentAssumption` (a set of routes is not one of the three markers),
`PortRangeAssumption`, `ProxyAssumption` (shells, daemons and `None` are different things),
`CommandsAssumption` and `ServicesAssumption` (override paths are not empty; the services of a
project are a sequence, and a TCP service's key has a hash, a natural number), and those of
`Invocation`: `FlagsAssumption` (no command begins with `-`), `InvocationAssumption` (the default
proxy port lies below the range of host ports; names are sorted without repetition),
`InputsAssumption` (arguments are strings and the subcommand is not the hidden `__passthrough`,
which `Execute` writes itself; ports and labels are lists, templates consist of text and
placeholders) and `DocumentedAssumption` (the strings in `Documented` have, after expansion, one of
the formats of parse.go:205-210). TLC evaluates each of them in a run.

* **`BreakableLock`** itself: `LockIsExclusive`. Exclusion is not inductive; the strengthening is
  `HolderInside`, that whoever is inside is the holder until a lock is broken.
* **`FileLockProofs`**: `TypeCorrect`, `Refinement`, `Exclusion`, `NoLeak`, `NoBreakWithoutReason`.
  Exclusion is not proved again: it follows from the refinement and `LockIsExclusive`,
  instantiated. `NoLeak` needs `AccountedFor`: while nobody has died, somebody is yet to unlink
  the `ts` of a lock directory, or to remove the directory with no `ts` in it.
  `NoBreakWithoutReason` needs the histories tied to the program counters: `TimesAfterMade` (no
  time a process can read off the directory is older than the directory), `RemoversInTime` (a
  process that is not late compares with the clock a time of the present directory, and removes
  its own directory or one that is overdue) and
  `CreatorInside` (until a lock is broken, who is inside made the directory). The step
  proofs have one case per action.
* **`RoutesProofs`**: lemmas on `Registered` and `Unregistered`: hostnames stay unique if there was
  no conflict, and directories have whole batches.
* **`StateStoreProofs`**: `TypeCorrect`, `HostsUniqueForever`, `BatchesWholeForever`, `Refinement`. The
  first two invariants need no lock at all: every process's snapshot was a consistent table, and
  a change that found no conflict in it makes another. The refinement uses the lock: until
  it is broken one process at most is inside, so that the snapshot of the writer is the
  table. It reuses the invariant of `BreakableLock`.

* **`CommandsProofs`** begins with the allocator: `AllocateCorrect`, `AllocateDeterministicCorrect`,
  from what the loop returns: `LoopEnds` (the recursion has a value for every range),
  `FirstAvailableIsFirst` (it is the port of the first free turn, by the first turn on which the two
  would differ), and `ProbesCoverRange` (the probes of any hash try every port). Of the commands it proves `TypeCorrect`, `OwnOverrideOnly`, `RoutesHaveOverrides`, `StaysHome`, the
  four properties of run `commands`, for any number of shells and projects. Three invariants,
  each needing the one before. `PathsInv`: whoever has a path, a route, a file or a command,
  is of one directory with everybody else who has it, and between `GenerateOverride` and
  `RegisterRoutes` nobody else has it: without that second part a `Register` could bring back
  a file that is about to be removed. `FilesInv`: no command is about to remove the file of a
  route that is registered or about to be; it is what an ignored error of `UnregisterRoutes`
  breaks, so `RoutesHaveOverrides` assumes that this error is among `Noted`. `HomeInv`: what a
  command is about to remove is of its own directory, unless it is `stop --all`. The step
  proofs sort the actions by what they do to paths and files (`BringsNoPath`, `LeavesFiles`,
  `DoomsOwn`), so that only `Prepare`, `Register` and the removing actions need an argument of
  their own. `UniqueIfRegisteredApart` says what run `ports_race` is about from the other side: two
  routes get one host port only when a command registers while another is between `GetUsedPorts`
  and `RegisterRoutes`. Its hypothesis, `[][RegistersApart]_vars`, is what a lock held from one to the other
  would give; everything else may interleave. `PortsInv`: the used ports in hand cover the
  registered ones, and the ports of a batch are new and distinct, which comes from the two theorems on the
  allocator (`AllocationDistinct`).

* **`SerialCommandsProofs`**: `PortsStayUnique`, `NoFileLeaks`, `ContainersStayRouted`,
  `RequestsReachOwnContainers`, the four properties of run `commands_serial`, for any projects, services,
  hashes and range of ports, from `OneAtATime` and as much of `Noted` as each theorem names. They
  share `SerialInv`: one command at most is active (`Alone`), and what it has read of its own
  directory's routes stays true until it returns (`Informed`): none if it sets up, else all with the
  override it has in hand. `PortsStayUnique` follows at once, since who is alone registers apart
  (`UniqueIfRegisteredApart`). The others add what their property needs in between: `LeakInv`, every file is that of a route,
  of routes to be, or about to be removed; `ContainersInv`, every
  port in the file of a registered project is that of a route (`FilesMatch`), and a command that
  unregisters has no containers left; `ReachInv`, the ports of routes to be are those of no
  container, and since what `docker compose` publishes are the ports of registered routes, which are
  unique, a container at a route's port is the route's own: for that no mishap has to be excepted. `ContainersRouted` excepts neither deaths nor the ignored
  error of `UnregisterRoutes`: after it the project's file is gone, so no container starts.

* **`ProxyDaemonProofs`**: `TypeCorrect`, `ClosesOnlyForReason`, `ListenerAsNeeded`, for any number of shells and
  daemons. `TypeOK` is inductive; that only one daemon listens comes from `Listen`, and that a
  command waits only for its own child from `Stop`. `ClosesOnlyForReason` needs `Reasons`: who is about
  to stop the proxy, and which daemon is about to close, has seen no routes or is `outdated`;
  and a daemon waited for has been sent its signal or has ended. The step of a command that
  passes its reason on to the daemon is `Terminate`. `ListenerAsNeeded` is about histories with no
  `mishap`: `Orderly` says that one command at most is active, what the PID file and the
  daemons are like at each point of it (`Phase`, between commands `Resting`), and that a daemon
  that is starting is the one its command waits for (`StartersKnown`).

* **`InvocationProofs`**: `TypeCorrect`, `ArgumentsReachCompose`, `PortsReadAsDocumented`,
  `ServicesAnswer`, `LabelsReachServices`, `OverrideHasAll`, the six properties of run `invocation`, for
  all command lines, projects, port strings, labels and names. `InvocationInv` says of each stage
  that the variables are what the functions of the code make of the input, so a property of the
  last stage becomes one of the operators. The lemmas on these are of four kinds:
  * The loops of `root.go`. Induction over data is out of the provers' reach, so it is done on sets of
    numbers: `UpTo` (a set that has 0 and, up to n, the successor of each of its members has
    all numbers up to n, by the smallest one missing) and from it `LoopExists` (the function that a
    definition by recursion names exists). `FindsSubcommand` and `PassesOn` then relate each loop to
    the definition of the subcommand that knows neither of them (`Words`), and `Passed` shows that
    the first `--` that `newPassthroughCmd` finds is the one `Execute` wrote.
  * Port strings. `ReadsFormat` computes, for the six shapes a documented format can have, the places
    of slash and colons that `parsePortString` goes by.
  * Requests. `AnswersUnderHostname` follows a hostname to the first route that matches, which is the
    service's own, since equal hostnames mean equal subdomains (`HasOwnHostname` excepts those), and
    `ContainerOfRoute` the route's host port to the one entry of the override that has it.
  * Labels. `TokensOfLabels`, `NothingUnresolved` and `UrlOfService` say what a placeholder that can be
    resolved becomes, `EndpointOfService` that the endpoint is that of the service's own route.

Only model-checked: the liveness properties (`LockReturns`, `LeftoverIsCleared`, `CommandReturns`,
`SignalledEnds`, `IdleProxyCloses`), which the provers do not reach. Every other property of a passing
run is a theorem.

## 6. What is not modelled

* `handler.go` beyond the choice of a route: forwarding, headers and error pages are
  `httputil.ReverseProxy`'s or text.
* `proxy.port`: written and removed with `proxy.pid`, read by nobody who acts on it.
* A PID that the system gives to a process of another program; a PID file read half written.
* YAML: reading it is the library's, writing it is text. White space in port strings and labels.
* What `docker compose` would read and the program does not: port ranges and the long form
  (skipped, parse.go:230-253), `.env`, `docker-compose.override.yml`, other flags that take a
  value before the subcommand (root.go:133-138). No document of the repository promises them.
* The removal of override files that a killed command has left, which `spec.md:494` speaks of:
  it is not in the code. `NoOverrideLeak` excepts killed commands, and removals that fail.
* A `docker compose` that outlives its killed parent and then starts or stops containers; a
  `docker compose` of the user's own, without this program.
* `ls.go`, `ui`: read or print only. `Makefile`, CI: not the program.
* `docker compose`, the operating system and Go's library: external, as far as used.
* Other programs that bind ports, the proxy's included, or edit `~/.portless-docker`; a clock that jumps; `/tmp` cleaned
  by the system; a full disk while `ts` is written.
* The `ProxyPort` field of `State`: no command changes it.
