# func-e in TLA+

func-e downloads Envoy, chooses which version of it to run and runs it: as a
command (`func-e run`, `use`, `which`, `versions`) and as a Go library
(`api.Run`). This directory holds models of the parts of func-e that are hard to
test, what must be true of them, and proofs of the most important of these facts.
Paths below are relative to the root of the repository.

## Inventory

| Component | State it keeps | Operations | Hard behaviour |
|---|---|---|---|
| **Envoy run lifecycle** `internal/envoy/{run,startup,runtime}.go` | the process, two contexts, the channel `hookErrCh`, the admin address file, the pipes of Envoy's output | `Run`, its monitor goroutine, the startup hooks, `ensureAdminAddress` | two goroutines, a process, the processes it starts and a context end in any order; hooks fail, panic, hang |
| **Admin client and process discovery** `internal/admin`, `experimental/admin` | none of its own; reads the address file and the process table | `NewAdminClient`, `AwaitReady`, `IsReady`, `Get`, `PollEnvoyPidAndAdminAddressPath` | polling of something that appears, moves and goes |
| **Installation** `internal/envoy/{install,http,versions}.go`, `internal/tar` | a directory for each version, `bin/envoy`, the date of the directory | `InstallIfNeeded`, `httpGet`, `UntarAndVerify`, `verifyEnvoy` | interruption, servers that stall, corrupt downloads, streams read short, several processes, the clock |
| **Version model** `internal/version` | none | `NewVersion`, `FindLatestPatchVersion`, `FindLatestVersion` | ordering of versions |
| **Version selection** `internal/envoy/version.go`, `internal/runtime`, `internal/cmd/{run,use,which}.go`, `internal/run` | two version files, the installed versions, the remote list | `CurrentVersion`, `WriteCurrentVersion`, `EnsurePatchVersion`, `setEnvoyVersion` | processes that share the files, an unreliable list |
| **Directories and run identifiers** `internal/globals`, `internal/runtime` | the files of each run, the homes they are in | `InitializeGlobalOpts`, `GenerateRunID`, `Mkdirs`, the logs | runs with equal identifiers, at once or in turn; two layouts reached by two front ends |
| **Envoy configuration discovery** `internal/envoy/config` | none | `FindAdminAddressFromArgs`, `ParseListeners` | agreement with two other readers of the same arguments |
| **Public API and middleware** `api`, `internal/run`, `internal/api`, `experimental/middleware` | values in a context | `Run`, options, `WithRunMiddleware` | what its options mean must be what the flags mean |
| **Command line** `cmd/func-e`, `internal/cmd/{app,versions}.go` | none | flags, the signal context, the list of versions | dates, order and duplicates in the list |
| **Process attributes** `internal/envoy/proc_attr_*.go` | none | `Pdeathsig` | what is left when func-e is killed |
| Packaging, site, e2e and test programs | | | not part of the program |

How they interact. A command or `api.Run` makes a run identifier and the
options, selects a version (files and remote list), installs it (`bin/envoy`),
makes the directories of the run and opens its logs, and calls
`envoy.Runtime.Run`, which adds its arguments, starts Envoy and waits for it. The
monitor goroutine reads the address file that Envoy writes, polls `/ready` and
calls the startup hook, whose error comes back over `hookErrCh`. Another process
finds a running Envoy through its parent, its command line and the same file.
func-e processes share only the disk.

What makes each component correct:

- *Run*: it returns, only once Envoy and the monitor are gone, with the error
  that explains the end; the hook meets a ready Envoy of this run.
- *Discovery*: the process returned is an Envoy of the run asked for, ambiguity is
  reported, an Envoy that stays is found.
- *Installation*: what is handed out is a whole build whose checksum was right,
  what is there is not downloaded again, every invocation ends unless its server stalls.
- *Selection*: a command runs the version it selected, what it remembers can be
  run later, a minor version never goes backwards, a project's file belongs to `use`.
- *Directories*: a run sees its own Envoy and keeps its own output; runs are apart
  from each other in either layout, and both front ends reach the same one.
- *Arguments*: what func-e adds to a command line is what it finds in it, and
  what the user gave is kept.
- *List*: every version is listed once, in order, with its release date.

## Modules

| Module | Models | Uses |
|---|---|---|
| `RunContract` | what `Runtime.Run` promises its caller | |
| `EnvoyRun` | `Runtime.Run` with its monitor, contexts, channel and hooks | refines `RunContract` |
| `EnvoyRunProofs` | theorems about `EnvoyRun` | `EnvoyRun` |
| `InstallContract` | what an installation promises to the commands that ask for one | |
| `Install` | `InstallIfNeeded` in several processes, one version directory | refines `InstallContract` |
| `InstallProofs` | theorems about `Install` | `Install` |
| `Versions` | the two searches for the latest version | |
| `VersionCommands` | the commands, the version files and the remote list | `Versions`; refines `InstallContract` |
| `VersionCommandsProofs` | theorems about `VersionCommands` | `VersionCommands`, `VersionsProofs` |
| `VersionList` | what `versions` lists | `Versions` |
| `VersionsProofs` | theorems about the searches and the list | `VersionList`, `FoldInduction` |
| `RunDirs` | several runs, their identifiers and files | |
| `RunDirsProofs` | theorems about `RunDirs` | `RunDirs` |
| `AdminArgs` | the three readers of Envoy's arguments, and what is inserted | |
| `AdminDiscovery` | the poller that looks for an Envoy among processes, and then for its address | |
| `AdminDiscoveryProofs` | theorems about `AdminDiscovery` | `AdminDiscovery` |
| `Options` | the flags and the API's options, the homes and the two layouts | |
| `MCAlgorithms` | the properties of `Versions`, `AdminArgs`, `Options` and `VersionList`, over lists that grow | these four |
| `FoldInduction` | induction over a loop, modelled by `FoldLeft` | |
| `AlgorithmsProofs` | theorems about `MCAlgorithms`, and so about `AdminArgs` and `Options` | `MCAlgorithms`, `VersionsProofs`, `FoldInduction` |
| `MCEnvoyRun`, `MCInstall`, `MCVersionCommands` | constants for TLC; claims of comments and docs that the code does not keep | the module of that name |

A definition whose name begins with `Fault` is a plausible slip in the
definition that follows it: a dropped guard, a missing reset, a swapped order.
No action uses one. Putting it in the place of that definition makes the
property that PROJECT.json pairs it with fail.

### EnvoyRun

One call of `Runtime.Run`. `main` is where the caller's goroutine is: `prepare`
(`ensureAdminAddress` and `os.RemoveAll`, run.go:21-33), `start` (35-57),
`wait` (`cmd.Wait`, 87), `cancel` (88), `receive` (89), `decide` (91-101),
`returned`. `mon` is where the monitor is: `poll` (`NewAdminClient`), `await` and
`probe` (`AwaitReady`, between and during requests), `hook`, `send`, `done`;
`gone` is a goroutine that ended without answering. `ctx` and `monCtx` are
the two contexts, the second a child of the first; `hookErrCh` has room for one.
The environment is Envoy (`proc`, `admin`, `addrFile`), the caller's context, the
transport, and the body of the hook, which ends as `HookOutcomes` allows. `inherited`
says that a process started by Envoy holds its output, which `cmd.Wait` copies to
the end, since `Stdout` and `Stderr` are no files and no `WaitDelay` is set; it may
let go of it (`OutputCloses`), or never. `removable` is whether `os.RemoveAll`, whose
error is ignored, can remove the address file of an earlier run.

An error is known by its origin, because the promises about results are
about which error wins: of the hook, of its panic, of `/ready`, of the context, or
of Envoy's exit. Two choices of the Go runtime are kept: `AwaitReady`'s
`select` may take either branch when both are ready, and `cmd.Wait` may return
nil or the context's error when Envoy exits with status zero as its context ends.

`RunContract` is the same call seen by the caller. It says that Envoy is
launched at most once, that the hook starts at most once and while the call is
in progress, that the call returns after both are over, that a failed hook
is reported, and that nil means status zero or a cancellation.

### Install

Processes run `InstallIfNeeded` for one version directory, up to `Runs` times. The
file `bin/envoy` is `Chunks` pieces, each with the build it came from, so
that a truncated file, a mix of two builds and a corrupt one are all told apart
from a whole one. A date is a day, and the build released on day `d` is
`d`. `dev` and `dev-latest` share the directory, and `dev-latest` compares the
directory's date with that of the list. `extractFile` truncates (`Open`) and
writes (`Copy`) in place, `Digest` compares the checksum afterwards and
`Chtimes` dates the directory. `found` is what the stat saw: `dev-latest` has a build in
place, and the list decides whether that is the newest. `Ends` forgets the locals of an
invocation; the disk stays. A process may break off anywhere. Where it waits for the network
its server may stall (`Stall`): neither `http.DefaultClient` (app.go:22) nor the client of
the API (internal/run/run.go:63) has a time-out, and the context of a command
(main.go:45) has no deadline, so that nothing but an interruption ends such an invocation.

`Digest` compares the sum of what was read. The tar reader stops at the end of the
archive, so the last bytes of the download are in the sum only if they came with
the read before them; the fault `"tail"` is that they did not.

`InstallContract` is an installation as a command sees it, over any number of
versions: a binary that is there is served as it is unless the newest build is
asked for, it appears in a directory that was made for it, and it stays.
`Install` implements it for one directory in all its steps, torn extractions and
refused checksums included, and `VersionCommands` for every version around the
commands. So it is where the two meet: what `VersionCommands` assumes of an
installation is what `Install` has been shown to do.

### Versions and VersionCommands

A version is a record; a minor version has `NoPatch`. `Versions` has the
searches as folds over a list, with the string comparison of minor versions that
version.go:157 makes. In `VersionCommands` each invocation is a `run`, a `which`, a
`use` or an `api.Run`, which may have an `EnvoyVersion` (`Given`, the early return of
`EnsureEnvoyVersion`), with a path to a binary (`$ENVOY_PATH`) or without; a path is all that `run` and `api.Run` need, `which` does not look at it; its `pc` follows `CurrentVersion`
(environment, project file, home file), `EnsurePatchVersion` with its fallback,
`setEnvoyVersion` of a first run, `WriteCurrentVersion` (a stat, a truncation and
a write) and the installation in the steps of `InstallContract`: a stat, the list, a directory
that appears before its binary, and `verifyEnvoy`. Two processes that write at once overlay their texts: `Overlay` is the
result for minor versions of two digits and patches of one.

### RunDirs

Several calls of `runtime.Run`. An identifier is the second and the last digits
of the microseconds, or the one a caller chose; calls with equal identifiers share
`addr`, `log` and `dump`. A log is the list of who wrote each line; a run
writes from the start of the file, since it is opened neither with `O_TRUNC` nor with
`O_APPEND`. `Killed` is a func-e that is killed, and with it Envoy, by
`Pdeathsig`; the calls in `Undying` are on systems that have no such thing, and leave
their Envoy behind. `alone` remembers that no other call with the identifier
was in progress, nor its Envoy alive, at the same time: the code makes no promise otherwise.

### AdminArgs and AdminDiscovery

An argument is `<<text>>`, or `<<flag, value>>` for `flag=value`. The loop of
`ensureAdminAddress`, the loop of `FindAdminAddressFromArgs` and that of
`scanFlag` are three folds. A configuration is one of a few kinds: with an admin
server, without, unreadable, or func-e's ephemeral one.

In `AdminDiscovery` the children of a func-e are forked, execute Envoy, exit and
are reaped while the poller lists them and then reads their command lines one by
one. A child has no tag before it executes Envoy and no command line after it
exits. Once it has chosen one, `NewAdminClient` polls for the address (`ReadAddress`),
which that Envoy may write, leave empty, or never come to write because it exits:
nobody looks at the process again.

### Options and VersionList

`Options` follows what a caller gives, as a sequence of options, to directories:
`NewApp` through variables that are empty at first, `initOpts` through `RunOpts`, and
both through `InitializeGlobalOpts`. A user may be unknown to the system, for which
`user.Current()` fails and with it the call, or have no home, for which the default is an
empty path. A path is a sequence of names, so that a
directory inside another one is a prefix of it. `VersionList` has the rows of
`versions`: a directory bears the first hour, in UTC, of its release date, and `Format`
takes the day in the zone of the machine. `MCAlgorithms` feeds both, and the other
modules without a state, lists that grow by one element, which reaches every list up to
its bound.

## Runs

| Run | Question | Bounds |
|---|---|---|
| `envoy_run` | What do results mean, does the monitor always find room, does the client belong to this run, is `RunContract` implemented? Does a call end with Envoy and with the context? Does a ready Envoy meet the hook? | both kinds of hook, all five ways a hook may end, a transport that times out, address files that can be removed or not, output that is inherited or not |
| `install` | What is handed out, kept and taken for fresh? Does every invocation end, unless its server stalls? Is `InstallContract` implemented? | two processes, three invocations, two days, two chunks, all four faults |
| `version_commands` | What do commands run and remember? Do they install as `InstallContract` says? | two commands of eight, three releases, three environments, three project files |
| `run_dirs` | Whose address, logs and dump does a run see? | two runs, one of them undying, four microseconds of which an identifier keeps the last bit, two lines |
| `admin_discovery` | Which process is returned, and is one? | two children, two run identifiers |
| `algorithms` | Are the searches right? Do the readers of the arguments agree? Do the front ends? Are runs apart? Is every version listed, in order? | lists of up to three of 18 versions, five of eleven arguments, four of 15 options, four directories and releases; two zones |
| `interrupt_returns_error` | *violation*, see Findings | |
| `hook_failure_goes_on` | *violation* | |
| `install_torn` | *violation* | |
| `checksum_of_what_was_read` | *violation* | |
| `api_minor_version` | *violation* | |
| `list_shows_local_date` | *violation* | |

Why the bounds suffice. `EnvoyRun` is finite: no counter was cut. In
`Install` one invocation reads only the disk, so a first that does something, a
second that overlaps it or meets its remains, and a third that meets what both left,
reach every pair of steps in either order; two chunks are the fewest that can be half
written, two days the fewest on which a build can be old. `Versions` compares
pairs and folds over them; three versions have a winner in each position with
losers on both sides, and the patches 9 and 10 tell a numeric from a textual comparison.
In `VersionCommands` two invocations have every interleaving of two writers and of a
reader with a writer; a third writer would only add more texts to overlay. Three
releases are two patches of one minor and a newer minor. In `RunDirs` four
microseconds with identifiers of one bit have identifiers that differ, that
collide within the second, and gaps below and above what an identifier tells apart.
One of the two runs leaves its Envoy behind, so that it comes first, second, or both
at once with one that does not. Five arguments are a flag with its value twice, on both
sides of a separator. Four options are all four homes, equal or not, or an option before
and after `HomeDir`; values are absolute, relative, and equal or not. Four entries are
two versions that are both installed and on offer, or three on offer and one of them
installed. Two children are what ambiguity needs, and a choice of a wrong one.

`CHECK_DEADLOCK FALSE` stands where the system may stop because the bounds are used up
(`Install`, `RunDirs`, `MCAlgorithms`) or because nobody looks for an Envoy any more
(`AdminDiscovery`). `EnvoyRun` and `VersionCommands` are checked for deadlock: their
only final states are those of `Terminated`, where `Run` has returned or was abandoned by
what it waits for (`Abandoned`: a hook that ended by `runtime.Goexit`, or a process
that never lets go of Envoy's output), and those of `AllOver`.

Symmetry is used over the invocations of `VersionCommands`, which has no liveness.

## Fairness

- `EnvoyRun`. Weak fairness of the goroutines' steps: the Go scheduler runs what is
  runnable. Strong fairness of `AwaitDone`: the `select` of `AwaitReady` chooses at
  random among ready branches and its `Done` branch stays ready. Weak fairness of
  `KillOnDone` (the watcher of `exec.CommandContext`), of the answer of a live
  admin server, of a request's end after its context's, and of the default hook,
  which has a timeout of three seconds. `CooperativeHook` assumes that a caller's
  hook ends after its context does; without it `ExitEndsRun` is false, and
  rightly so: `Run` waits for the hook. The same goes for a process that inherited
  Envoy's output. Envoy is never assumed to exit, to write its address or to become ready.
- `Install`. Weak fairness of the next step of an invocation that no server has stalled:
  its goroutine runs, and its request is answered or fails. That a request is
  answered at all is not assumed. The requests have no time-out
  (those of `http.DefaultTransport` are about connecting only), so `Stall` may
  happen in the middle of any, and `InvocationEnds` excepts the invocation it happens to.
  Starting an invocation, stalling and breaking off are not fair.
- `AdminDiscovery`. Strong fairness of reading the process table and of the `Done`
  branch of a `select`, weak fairness of the other steps of the poller; the children
  are not fair.

## Proofs

`EnvoyRunProofs` proves, for any `HookKinds`, `HookOutcomes`,
`RemoveOutcomes`, `TransportTimeouts` and `Inheritors` within the assumptions of
`EnvoyRun`:

| Theorem | |
|---|---|
| `TypeCorrect` | `Spec => []TypeOK` |
| `Invariance` | `Spec => []IInv` |
| `Quiescence` | `ReturnsQuiescent` |
| `ChannelNeverFull` | `SenderNeverBlocks` |
| `ResultsAreHonest` | `ResultIsHonest` |
| `HookMeetsItsEnvoy` | `ClientNeverStale` |
| `HookAfterReady` | `UnreadyHookOnlyWhenCut` |
| `Refinement` | `Spec => ContractSpec` |

The properties speak of the state in which `Run` has returned, which says nothing
of how it got there, so none is inductive. `IInv` carries the past along: `MainInv`
ties where `Run` is to what has become of the process, `ChannelInv` says who
holds the monitor's one answer (the monitor, the channel or `Run`), `HookInv`
where that answer came from, `ContextInv` that the monitor's context ends with
its parent, `StaleInv` that a stale file does not survive `Prepare`, and
`ResultInv` how the result follows from the answer and the exit. There is one lemma
for each part and each of the two goroutines' and the environment's steps; the
refinement uses `IInv` in the step that returns.

`RunDirsProofs` proves, for any sets of runs and of undying ones, any clock, any number of lines and any
`Kept` digits of an identifier:

| Theorem | |
|---|---|
| `TypeCorrect` | `Spec => []TypeOK` |
| `Invariance` | `Spec => []IInv` |
| `NoOrphans` | `NoEnvoyLeftBehind` |
| `OwnEnvoy` | `ClientIsOwn` |
| `OwnOutput` | `OutputIsKept` |
| `CloseRunsApart` | `CloseRunsDiffer` |

`ClientIsOwn` is not inductive: `ReadAddress` takes whatever the file holds. `IInv`
adds that only a call in progress, or an undying one, has an Envoy that is up
(`ProgressInv`), that two calls with one identifier, each in progress or with its Envoy
alive, are both not `alone` (`AloneInv`), and so that from `RemoveAddress` on
nobody but the call's Envoy writes its address file (`AddressInv`). `LogInv` and
`DumpInv` say the same of its logs and its dump, `LogInv` also that the log is no
shorter than what was written. `IdInv` ties an identifier to the instant it was
made; `LastDigitsDiffer` is the arithmetic of `CloseRunsApart`.

`InstallProofs` proves, for any processes, number of chunks, days and invocations, any
`Wanted` versions and `Faults`:

| Theorem | |
|---|---|
| `TypeCorrect` | `Spec => []TypeOK` |
| `Invariance` | `Spec => []IInv` |
| `HandsOutWholeBuilds` | `BrokenOnlyAfterFault` |
| `DamageNoticed` | `DamageIsNoticed` |
| `DatesTellBuilds` | `FreshMeansOnOffer` |
| `WholeBuildKept` | `WholeBuildIsKept` |
| `Refinement` | `Spec => ContractSpec` |

A binary is handed out long after it was written, often by an invocation that has not
written it, so `BrokenOnlyAfterFault` says nothing of how the disk got there. `IInv`
does: `LocalInv` is what an invocation knows where it is, `DirInv` that a file is in
a directory with a date, `SoleInv` that without an overlap there is one invocation,
that it downloads only what is missing or may be old, and that the file holds what it has
counted, `TidyInv` that a file which nobody writes is, while nothing was torn, the
build of the directory's date, `NoticedInv` who has yet to compare a wrong
checksum, and `GapInv` who has yet to fill a gap in the file. The last two hold under
overlaps as well: an invocation that truncates the file has all of it still to write.

`VersionCommandsProofs` proves, for any invocations, commands, environments, project
files and finite set of releases:

| Theorem | |
|---|---|
| `Invariance` | `Spec => []IInv` |
| `InstalledIsRemembered` | `RememberedIsInstalled` |
| `ProjectFileIsOfUse` | `ProjectFileOnlyByUse` |
| `SelectionsHold` | `Spec => [](IInv /\ SInv)` |
| `TypeCorrect` | `Spec => []TypeOK` |
| `SuccessIsSelection` | `SuccessRunsSelection` |
| `NeverDowngrades` | `NoDowngrade` |
| `Refinement` | `Spec => InstallationSpec` |

A command writes a version file some steps after it saw what allows it to, while others
go on. `IInv` keeps what it has seen: `UseInv` for `use` (its binary is there, and
`version` is what it was given), `FirstRunInv` for a first run (there is no project file,
and nobody makes one: that a write never leaves an absent file is
`OverlayIsNotAbsent`). `SInv` adds what a command selects, looks up and installs.
`FilesInv` says what a file may hold: after a truncation no text of `dev-latest` and not
an absent file, so that an overlay of two texts is again the text of a version or none
at all (`OverlayIsWritten`) and `TypeOK` is kept by a torn write. `DirectoriesInv`
orders `ran`, `bins`, `dirs` and `remote`; `ChosenInv` keeps the version in hand to the
one selected, `FollowInv` keeps `before`, what had been run when the command looked,
below what it has found. `NoDowngrade` needs both of these, and that what is installed
is on offer. What a search returns is taken from `VersionsProofs`,
for a set in any order (`LatestPatchOfSet`, `LatestOfSet`), for which `Releases` is
assumed to be finite.

`VersionsProofs` proves, for lists of any length and versions of any number:

| Theorem | |
|---|---|
| `LatestPatchFound` | `FindLatestPatchVersion` finds a highest patch of the minor version, or none if there is none |
| `NewestFound` | `FindLatestVersion` finds the newest release that is no debug build, while minor versions have two digits |
| `VersionsCmdLists` | `versions` prints what it should, each once, in order, and marks the current one |

The searches are loops, and their theorems loop invariants (below). In
`VersionsCmdLists` minor versions have two digits and patches one or two
(`ShortReleases`), as Envoy's do. It rests on what `sort.Slice` asks of the
comparison it is given: that it orders the rows (`RowsAreOrdered`). Texts are ordered
like words (`LexTransitive`, `LexIrreflexive`, `LexTotal`), the text of a release tells it
from any other, and says what its place is (`TextsOrder`). A finite set that is ordered has
a sorted list (`SortedExists`), which has every row once (`SortedCovers`).

`AlgorithmsProofs` proves the invariants of the run `algorithms` for inputs of any
length: the bounds are for TLC. The only assumption is that zones are whole hours.

| Theorem | |
|---|---|
| `InputInvariance` | `Spec => []InputInv`, the type of an input |
| `SearchesSucceed` | `SearchesFindLatest` |
| `RunIdFound` | the identifier is found behind any arguments of any words |
| `ArgumentsEnsured` | what is inserted keeps the user's configuration and is found, for well-formed arguments of any words |
| `TagsDoGetFound` | `TagsAreFound` |
| `AdminServerIsConfigured` | `AdminServerConfigured` |
| `UserConfigStays` | `UserConfigIsKept` |
| `FrontEndsDoAgree` | `FrontEndsAgree` |
| `DirectoriesApart` | runs with different identifiers are apart, whatever the homes are |
| `RunsStayApart` | `RunsAreApart` |
| `ListIsComplete` | `VersionsAreListed` |

These depend on loops, and the library's induction takes an operator, which no prover
here can instantiate. `FoldInduction` goes another way. The loop is a constant operator
`Op` with a start `Base` and an invariant `Inv`; the module that has a loop takes an
INSTANCE. `FoldLeft` is a function chosen to satisfy an equation over the subsets of
the domain: `IterEquation` shows that there is one, `FoldTurns` what it does turn by
turn. Induction is over the set of the turns after which something holds (`UpTo`, from the
well-foundedness of the natural numbers). From that follow `FoldInvariance`,
`FoldPrefix` (loops that begin alike go alike), `FoldTwoMore` (two elements more) and
`FoldRests` (a loop which nothing changes any more).

The arguments need all four. Everything before the separator is scanned by three
readers, each a loop: `ensureAdminAddress` inserts two or four arguments at its end,
so every reader goes over the user's arguments alike and then takes two or four turns
more, and behind a separator the readers rest. For the options, `HomesInv` says which
option a home is of, and so where the two front ends part. `RunsAreApart` needs
only that the components of a home are none of the names func-e appends to one
(`DirectoriesApart`). For the list, `InputInv` says that nothing is entered twice.

`AdminDiscoveryProofs` proves, for any run identifiers and any finite set of children:

| Theorem | |
|---|---|
| `TypeCorrect` | `Spec => []TypeOK` |
| `Invariance` | `Spec => []IInv` |
| `RightEnvoy` | `FoundIsOfTheRun` |
| `AmbiguityNoticed` | `AmbiguityIsReported` |

A child is never looked at again once its command line was read. So `CandidatesInv`
says of those that were read what cannot become false (they have been Envoys), and
`SteadyInv` that an Envoy which was there from the listing on is either among them or
still to be read, from which the count of candidates follows.

Every invariant, action property and refinement that a passing run checks is so
proved. Only model-checked: liveness (`ExitEndsRun`, `CtxEndsRun`, `HookEventuallyRuns`,
`InvocationEnds`, `StayingEnvoyIsFound`, `PollerEnds`), because fairness and `ENABLED`
are out of the prover's reach; and the violations below.

## Findings

Where the code and what the repository says of it differ, and a run shows it:

1. `interrupt_returns_error`: after a failed `/ready`, an interrupt makes `Run`
   return that failure; internal/runtime/run.go:54 promises nil.
2. `hook_failure_goes_on`: a failed startup hook does not stop the run
   (internal/api/admin.go:48 says it does); its error is returned when
   Envoy ends for another reason.
3. `install_torn`: an interrupted download leaves a truncated `bin/envoy` that every
   later invocation takes for "already downloaded" (internal/envoy/install.go:96).
4. `api_minor_version`: `api.EnvoyVersion("1.20")`, which api/run.go:100 allows, is
   never resolved to a patch and fails.
5. `checksum_of_what_was_read`: the checksum is that of the bytes read so far
   (internal/tar/tar.go:47). The tar reader stops at the end of the archive; what
   the download holds after it is in the sum only if the `bufio` below the decompressor
   fetched it with an earlier byte. tar.go:41 speaks of the stream's signature.
6. `list_shows_local_date`: `versions` prints the machine's local day (versions.go:107)
   of a time that install.go:92 set to midnight in UTC: west of Greenwich it is the
   day before.

Other weaknesses are the conditions in properties that hold: a property says exactly
when something is right, and so when it is not.

- `UnreadyHookOnlyWhenCut`: a hook may meet an Envoy that was never ready if its
  first `/ready` request was cut short.
- The `NilMeansCleanEnd` part of `ResultIsHonest` accepts no deadline: a context whose
  deadline passes yields an error, although run.go:19 says nil when `ctx` is done.
- `ResultIsHonest` leaves out a caller's hook whose error wraps `context.Canceled`:
  run.go:77-78 drops it, on purpose, as if it were the run's own cancellation.
- A run ends except after `runtime.Goexit` in a hook (`testing.T.FailNow` calls it;
  `Abandoned`), and except while a process that inherited Envoy's output lives: no
  `WaitDelay` is set, so `cmd.Wait` waits for it even when the context is cancelled.
- `BrokenOnlyAfterFault`: a broken binary is handed out after a torn or refused
  extraction, and when invocations overlap; a refused tarball's content is
  served by the next invocation. When invocations overlap and all go well, `DamageIsNoticed`
  says that the file has in the end no gap and nothing corrupt; it may still be a mix of two
  nightly builds, or be handed out while another invocation has it truncated.
- `InvocationEnds`: a server that stalls, before its answer or in the middle of it,
  keeps an invocation until somebody interrupts it.
- `HookEventuallyRuns` is about addresses with a port: behind a Unix domain socket the
  monitor ends without the hook and without an error (admin.go:234).
- `RememberedIsInstalled` is about files that were empty: a write over the text of
  another process may name a version that nobody asked for. A `use` between the reading
  and the writing of a first run is lost.
- `SuccessRunsSelection`: without the list, a directory that a failed download has left
  is chosen as the last installed patch; the command then fails, though another patch
  could run.
- `CloseRunsDiffer`: runs that begin a whole number of milliseconds apart within a
  second have the same identifier; `ClientIsOwn` and `OutputIsKept` exclude
  them by `alone`.
- `OutputIsKept` says that a log begins with the run's own lines; lines of an
  earlier run with the identifier may follow.
- `NoEnvoyLeftBehind` is about Linux: elsewhere (`Undying`) a killed func-e leaves
  its Envoy running.
- `UserConfigIsKept`: a `--config-yaml` without an admin server is replaced by the
  ephemeral one, which comes later.
- `FrontEndsAgree` says when the command line and the API choose the same directories,
  and so when not: four equal homes mean the legacy layout, a relative home of
  the API stays relative, and an option after `HomeDir` wins over it.
- `VersionsAreListed`: patches are compared as texts, so 1.20.10 stands below 1.20.9
  in the list of `versions`.

And three that only reading shows: for a user without a home directory the state home
stays empty and logs go to the working directory (opts.go:136); `which` ignores
`$ENVOY_PATH`; a commit of fewer than eight letters makes `CommitSha[:8]` panic
(versions.go:72).

## Not modelled

- Formatting, logging, help, the syntax of flags; the nightly row of `versions`.
- `stdout.log` and `stderr.log` are one log.
- The parsing of YAML, JSON, versions and URLs: documents are of a few kinds. So the
  reading of a `static_resources:` without a value (config.go:170) is left out.
- Listeners: `ParseListeners` beyond the admin server, `GetListenerPort` and
  `NewListenerRequest`, which are single queries without a state.
- `TarGz`, which only tests call.
- The middleware, which wraps `Run` once and keeps no state.
- A legacy run identifier (nanoseconds) is never equal to another.
- `/bin/sh -c` command lines of more than one word (`flagValue` splits them).
- Keys of the remote list that are no versions (`Patch` would panic).
- Arguments with an empty value before the separator, except in the part of
  `TagsAreFound` about the run identifier.

## Plan

Done: the core (`EnvoyRun`, its contract and its proofs), installation, selection,
directories, arguments and discovery; the contract of an installation, which both
`Install` and the reduced installation of `VersionCommands` implement; the options
of both front ends, the lists of versions, the addresses that discovery may read,
systems without `Pdeathsig` and processes that inherit Envoy's output; proofs of the
safety of every module that has a state, and of every loop.

What is left, in this order:

1. The parsing of versions, which would bring in the remote keys that are no versions,
   with `Patch` and its panic.
2. Listeners, with the waiting for their ports, if more than queries comes to use them.
3. Wider theorems about the options: `FrontEndsAgree` for any homes, as
   `DirectoriesApart` is.
